---------------------------- MODULE FetchPromise ----------------------------
(***************************************************************************)
(* What EthService.FetchTransactions promises its caller, with no          *)
(* goroutine, channel or WaitGroup in sight.  Every requested position is  *)
(* settled on its own, either with the block of a receipt the node had     *)
(* while the call was running or with an error, and the call returns once, *)
(* when every position is settled, with all of the outcomes.               *)
(***************************************************************************)
EXTENDS Integers

CONSTANTS N,      \* number of hashes in the call
          Block   \* identities of the blocks a receipt may name

VARIABLES seen,     \* seen[i]: the blocks transaction i has been in since the call began
          outcome,  \* outcome[i]: "pending", "error" or the block of the record found
          answer    \* what the caller has got: {} until the call returns

promiseVars == <<seen, outcome, answer>>

Position == 1..N

\* The pairs the caller gets for a complete set of outcomes.
Answer(o) == {<<i, o[i]>> : i \in Position}

Init ==
    /\ seen \in [Position -> SUBSET Block]
    /\ outcome = [i \in Position |-> "pending"]
    /\ answer = {}

\* The node takes transaction i into block b (first inclusion or reorganisation).
Include(i, b) ==
    /\ seen' = [seen EXCEPT ![i] = @ \cup {b}]
    /\ UNCHANGED <<outcome, answer>>

Settle(i) ==
    /\ outcome[i] = "pending"
    /\ \E o \in seen[i] \cup {"error"} : outcome' = [outcome EXCEPT ![i] = o]
    /\ UNCHANGED <<seen, answer>>

Return ==
    /\ answer = {}
    /\ \A i \in Position : outcome[i] # "pending"
    /\ answer' = Answer(outcome)
    /\ UNCHANGED <<seen, outcome>>

Next ==
    \/ \E i \in Position : Settle(i) \/ \E b \in Block : Include(i, b)
    \/ Return

Spec == Init /\ [][Next]_promiseVars
=============================================================================
