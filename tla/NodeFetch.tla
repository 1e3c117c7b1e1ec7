------------------------------ MODULE NodeFetch ------------------------------
(***************************************************************************)
(* One call of EthService.FetchTransactions (internal/ethereum): a         *)
(* goroutine per requested hash asks the Ethereum node three questions and *)
(* sends one result on an unbuffered channel; a closer goroutine waits for *)
(* the WaitGroup and closes the channel; the caller ranges over it.        *)
(*                                                                         *)
(* Hashes are told apart by their position in the call only (two positions *)
(* may carry the same hash).  A record is its receipt's block; the fields  *)
(* copied beside it are abstracted.                                        *)
(***************************************************************************)
EXTENDS Integers, Sequences, FiniteSets

CONSTANTS N,      \* len(hashes)
          Block   \* identities of the blocks a receipt may name

ASSUME FetchAssumption ==
    /\ N \in Nat
    /\ Block \cap {"none", "error", "unknown", "pending"} = {}

Position == 1..N
NodeState == {"unknown", "pending"} \cup Block
Label == {"none", "byHash", "receipt", "network", "send", "done", "exited"}

VARIABLES
    caller,     \* "spawn" (the go loop), "range" (over resultsChan), "returned"
    ind,        \* next position of the go loop
    pc,         \* pc[i]: where the goroutine of position i stands
    res,        \* res[i]: the TxResult it holds: "none", "error" or a block
    waitGrp,    \* counter of the WaitGroup
    closer,     \* "none", "wait", "closed": the closer goroutine and the channel
    results,    \* transactions appended by the caller, in order of arrival
    aggrErr,    \* positions whose error the caller has joined
    cancelled,  \* the request's context has been cancelled
    node,       \* node[i]: what the node knows of the transaction at position i
    seen        \* history: the blocks it has been in since the call began

callVars == <<caller, ind, waitGrp, closer, results, aggrErr>>
nodeVars == <<cancelled, node, seen>>
vars == <<caller, ind, pc, res, waitGrp, closer, results, aggrErr,
          cancelled, node, seen>>

Init ==
    /\ caller = "spawn"
    /\ ind = 1
    /\ pc = [i \in Position |-> "none"]
    /\ res = [i \in Position |-> "none"]
    /\ waitGrp = 0
    /\ closer = "none"
    /\ results = <<>>
    /\ aggrErr = {}
    /\ cancelled = FALSE
    /\ node \in [Position -> NodeState]
    /\ seen = [i \in Position |-> {node[i]} \cap Block]

-----------------------------------------------------------------------------
(* The caller's go loop and the closer goroutine *)

\* waitGrp.Add(1); go func(ind, hashStr)
Spawn ==
    /\ caller = "spawn"
    /\ ind <= N
    /\ waitGrp' = waitGrp + 1
    /\ pc' = [pc EXCEPT ![ind] = "byHash"]
    /\ ind' = ind + 1
    /\ UNCHANGED <<caller, res, closer, results, aggrErr, nodeVars>>

\* Mutant: the closer is started while the go loop still runs.
EarlyCloser ==
    /\ caller = "spawn"
    /\ closer' = "wait"
    /\ caller' = IF ind = N + 1 THEN "range" ELSE "spawn"
    /\ UNCHANGED <<ind, pc, res, waitGrp, results, aggrErr, nodeVars>>

\* go func() { waitGrp.Wait(); close(resultsChan) }, then the range loop begins
SpawnCloser ==
    /\ caller = "spawn"
    /\ ind = N + 1
    /\ closer' = "wait"
    /\ caller' = "range"
    /\ UNCHANGED <<ind, pc, res, waitGrp, results, aggrErr, nodeVars>>

CloseChannel ==
    /\ closer = "wait"
    /\ waitGrp = 0
    /\ closer' = "closed"
    /\ UNCHANGED <<caller, ind, pc, res, waitGrp, results, aggrErr, nodeVars>>

-----------------------------------------------------------------------------
(* A fetching goroutine: getTransactionByHash, the send, the deferred Done *)

\* The call in progress at label l of goroutine i answers: the goroutine goes on
\* at label next, holding r.
Answered(i, l, next, r) ==
    /\ pc[i] = l
    /\ pc' = [pc EXCEPT ![i] = next]
    /\ res' = [res EXCEPT ![i] = r]
    /\ UNCHANGED <<callVars, nodeVars>>

\* Each call may fail (transport, cancelled context, not found) at any time.
\* A pending transaction is found: the isPending result is ignored.
TransactionByHash(i) ==
    \/ node[i] # "unknown" /\ Answered(i, "byHash", "receipt", "none")
    \/ Answered(i, "byHash", "send", "error")

\* Mutant: the error of TransactionReceipt is dropped, an empty receipt is used.
UncheckedReceipt(i) ==
    \/ \E b \in Block : Answered(i, "receipt", "network", b)
    \/ Answered(i, "receipt", "send", "error")

\* Only a mined transaction has a receipt.
TransactionReceipt(i) ==
    \/ node[i] \in Block /\ Answered(i, "receipt", "network", node[i])
    \/ Answered(i, "receipt", "send", "error")

\* NetworkID, then types.Sender: either may fail, and the receipt is dropped.
NetworkID(i) ==
    \/ Answered(i, "network", "send", res[i])
    \/ Answered(i, "network", "send", "error")

Rpc(i) == TransactionByHash(i) \/ TransactionReceipt(i) \/ NetworkID(i)

\* resultsChan <- res meets the caller's receive; the caller files the result.
Deliver(i) ==
    /\ pc[i] = "send"
    /\ caller = "range"
    /\ closer # "closed"
    /\ pc' = [pc EXCEPT ![i] = "done"]
    /\ IF res[i] = "error"
       THEN aggrErr' = aggrErr \cup {i} /\ UNCHANGED results
       ELSE results' = Append(results, <<i, res[i]>>) /\ UNCHANGED aggrErr
    /\ UNCHANGED <<caller, ind, res, waitGrp, closer, nodeVars>>

\* Mutant: Done is called on the path of a success only, not deferred.
DoneOnSuccessOnly(i) == IF res[i] = "error" THEN 0 ELSE 1

\* Mutant: the error path calls Done although the deferred call is still to come.
DoneTwiceOnError(i) == IF res[i] = "error" THEN 2 ELSE 1

\* How often a goroutine calls Done: deferred, once on every path.
DoneCalls(i) == 1

\* The deferred waitGrp.Done().
Done(i) ==
    /\ pc[i] = "done"
    /\ pc' = [pc EXCEPT ![i] = "exited"]
    /\ waitGrp' = waitGrp - DoneCalls(i)
    /\ UNCHANGED <<caller, ind, res, closer, results, aggrErr, nodeVars>>

-----------------------------------------------------------------------------
(* The end of the call, and the world around it *)

\* Mutant: the caller stops receiving at the first error.
EndedOrError == closer = "closed" \/ aggrErr # {}

\* The channel is closed, and empty: it is unbuffered.
Ended == closer = "closed"

\* The range loop ends.
Return ==
    /\ caller = "range"
    /\ Ended
    /\ caller' = "returned"
    /\ UNCHANGED <<ind, pc, res, waitGrp, closer, results, aggrErr, nodeVars>>

\* The client goes away: net/http cancels the request's context.
Cancel ==
    /\ caller # "returned"
    /\ ~cancelled
    /\ cancelled' = TRUE
    /\ UNCHANGED <<callVars, pc, res, node, seen>>

\* The chain moves on: announced, mined, reorganised, dropped.
NodeMove(i) ==
    /\ caller # "returned"
    /\ \E s \in NodeState \ {node[i]} :
          /\ node' = [node EXCEPT ![i] = s]
          /\ seen' = [seen EXCEPT ![i] = @ \cup ({s} \cap Block)]
    /\ UNCHANGED <<callVars, pc, res, cancelled>>

\* The call is over and all of its goroutines are gone.
Over ==
    /\ caller = "returned"
    /\ \A i \in Position : pc[i] = "exited"
    /\ UNCHANGED vars

Goroutine(i) == Deliver(i) \/ Done(i)

Next ==
    \/ Spawn \/ SpawnCloser \/ CloseChannel \/ Return
    \/ \E i \in Position : Rpc(i) \/ Goroutine(i) \/ NodeMove(i)
    \/ Cancel
    \/ Over

Spec == Init /\ [][Next]_vars

\* The Go scheduler runs every goroutine that can run.  The node need not answer,
\* but once the context is cancelled every call in progress comes back.
Scheduler ==
    /\ WF_vars(Spawn \/ SpawnCloser)
    /\ WF_vars(CloseChannel)
    /\ WF_vars(Return)
    /\ \A i \in Position : WF_vars(Goroutine(i)) /\ WF_vars(cancelled /\ Rpc(i))

\* In addition, the node answers (or fails) every call.
NodeAnswers == \A i \in Position : WF_vars(Rpc(i))

SilentNodeSpec == Spec /\ Scheduler

-----------------------------------------------------------------------------
(* Properties *)

TypeOK ==
    /\ caller \in {"spawn", "range", "returned"}
    /\ ind \in 1..(N + 1)
    /\ pc \in [Position -> Label]
    /\ res \in [Position -> Block \cup {"none", "error"}]
    /\ waitGrp \in Nat
    /\ closer \in {"none", "wait", "closed"}
    /\ results \in Seq(Position \X Block)
    /\ aggrErr \in SUBSET Position
    /\ cancelled \in BOOLEAN
    /\ node \in [Position -> NodeState]
    /\ seen \in [Position -> SUBSET Block]

\* Goroutines that have been counted in and not out.
Live == {i \in Position : pc[i] \notin {"none", "exited"}}

\* A goroutine that reaches its send finds the channel open: sending on a closed
\* channel would panic and take the whole process down.
NoSendOnClosed == closer = "closed" => Live = {}

\* When FetchTransactions returns, every requested position has been heard exactly
\* once: as one transaction or as one joined error, never both, never neither.
HeardOnce ==
    caller = "returned" =>
        /\ \A k, l \in DOMAIN results : results[k][1] = results[l][1] => k = l
        /\ {results[k][1] : k \in DOMAIN results} = Position \ aggrErr

\* No goroutine of the call survives it.
NoGoroutineLeft == caller = "returned" => \A i \in Position : pc[i] = "exited"

\* A transaction is only reported with a block it was in while the call ran, and never one
\* that was not mined then.  It may have left that block again when the call returns.
RecordIsFresh == \A k \in DOMAIN results : results[k][2] \in seen[results[k][1]]

\* If the node answers, the call ends, whatever the interleaving of its goroutines.
FetchReturns == NodeAnswers => <>(caller = "returned")

\* A call whose client is gone ends even if the node never answers again.
CancelEndsFetch == cancelled ~> caller = "returned"

\* The detailed call implements its promise.
Promise == INSTANCE FetchPromise WITH
    outcome <- [i \in Position |-> IF pc[i] \in {"done", "exited"} THEN res[i]
                                   ELSE "pending"],
    answer  <- IF caller = "returned"
               THEN {results[k] : k \in DOMAIN results} \cup {<<i, "error">> : i \in aggrErr}
               ELSE {}

\* Every behaviour of the goroutines, seen from the caller, is a behaviour of the promise.
KeepsPromise == Promise!Spec
=============================================================================
