------------------------------- MODULE TxCache -------------------------------
(***************************************************************************)
(* The cache between clients and the Ethereum node: Fethcher.GetTransac-   *)
(* tions (internal/core), the transactions table behind it, and the        *)
(* background goroutine that fills the table.                              *)
(*                                                                         *)
(* A request names a list of strings; a transaction is identified by the   *)
(* canonical string of its hash.  The table is searched for the strings as *)
(* they were written, the node for the hashes they convert to.  A record   *)
(* is its hash and the block of its receipt; the fields copied beside them *)
(* are abstracted.  How the node's answers are gathered is NodeFetch; here *)
(* each missing position is settled on its own, as FetchPromise says.      *)
(***************************************************************************)
EXTENDS Integers, Sequences, FiniteSets, Storage

CONSTANTS Req,        \* GetTransactions calls
          Hash,       \* the strings clients write
          Canonical,  \* those that are the string of a transaction's hash
          HexToHash,  \* the transaction a string is converted to
          Block,      \* identities of the blocks a receipt may name
          Lists,      \* the lists of strings a request may carry
          Faults      \* what may go wrong: "db", "node", "halt"

ASSUME CacheAssumption ==
    /\ Canonical \subseteq Hash
    /\ HexToHash \in [Hash -> Canonical]
    /\ \A h \in Canonical : HexToHash[h] = h
    /\ Lists \subseteq Seq(Hash) \ {<<>>}
    /\ Block \cap {"unknown", "pending"} = {}

Row == [hash : Canonical, block : Block]

VARIABLES
    transactions,  \* rows of the transactions table
    node,          \* node[t]: what the node knows of transaction t
    mined,         \* history: the blocks it has been in
    pc,            \* pc[r]: "idle", "lookup", "fetch", "returned", "failed", "dead"
    hashes,        \* hashes[r]: the list the call was given
    dbTxs,         \* dbTxs[r]: rows its lookup found
    nodeTxs,       \* nodeTxs[r]: positions the node answered, with their records
    errs,          \* errs[r]: positions whose fetch failed
    save           \* save[r]: its saving goroutine, "none", "running" or how it ended

requestVars == <<hashes, dbTxs, nodeTxs, errs>>
chainVars == <<node, mined>>
vars == <<transactions, chainVars, pc, requestVars, save>>

Keys(rows) == {t.hash : t \in rows}

Init ==
    /\ transactions = {}
    /\ node \in [Canonical -> {"unknown", "pending"} \cup Block]
    /\ mined = [t \in Canonical |-> {node[t]} \cap Block]
    /\ pc = [r \in Req |-> "idle"]
    /\ hashes = [r \in Req |-> <<>>]
    /\ dbTxs = [r \in Req |-> {}]
    /\ nodeTxs = [r \in Req |-> <<>>]
    /\ errs = [r \in Req |-> {}]
    /\ save = [r \in Req |-> "none"]

-----------------------------------------------------------------------------
(* GetTransactions *)

\* A validated request arrives (the list is not empty) and is looked up.
Receive(r) ==
    /\ pc[r] = "idle"
    /\ \E l \in Lists : hashes' = [hashes EXCEPT ![r] = l]
    /\ pc' = [pc EXCEPT ![r] = "lookup"]
    /\ UNCHANGED <<transactions, chainVars, dbTxs, nodeTxs, errs, save>>

\* WHERE transaction_hash IN (...): the strings as they were written.
Found(r) == {t \in transactions : t.hash \in Range(hashes[r])}

\* Mutant: anything found in the table ends the call.
Some(r) == Found(r) # {}

\* The number of rows decides, not which strings they answer.
Enough(r) == Cardinality(Found(r)) = Len(hashes[r])

Lookup(r) ==
    /\ pc[r] = "lookup"
    /\ dbTxs' = [dbTxs EXCEPT ![r] = Found(r)]
    /\ pc' = [pc EXCEPT ![r] = IF Enough(r) THEN "returned" ELSE "fetch"]
    /\ UNCHANGED <<transactions, chainVars, hashes, nodeTxs, errs, save>>

LookupFails(r) ==
    /\ "db" \in Faults
    /\ pc[r] = "lookup"
    /\ pc' = [pc EXCEPT ![r] = "failed"]
    /\ UNCHANGED <<transactions, chainVars, requestVars, save>>

\* Mutant: every string of the request is asked of the node again.
AllPositions(r) == DOMAIN hashes[r]

\* Positions of the strings the lookup did not find.
Missing(r) == {i \in DOMAIN hashes[r] : hashes[r][i] \notin Keys(dbTxs[r])}

\* Mutant: a position that failed is asked for again.
Answered(r) == DOMAIN nodeTxs[r]

\* Positions that the node has answered, or that have failed.
Settled(r) == DOMAIN nodeTxs[r] \cup errs[r]

\* Position i is still to be settled by the node.
Awaited(r, i) ==
    /\ pc[r] = "fetch"
    /\ i \in Missing(r) \ Settled(r)

\* Mutant: the record carries the string that was asked for, not the hash of the answer.
RecordByString(r, i) ==
    {t \in [hash : Hash, block : Block] :
        t.hash = hashes[r][i] /\ t.block = node[HexToHash[hashes[r][i]]]}

\* Mutant: an answer without a receipt is used, with whatever block it names.
AnyReceipt(r, i) == {t \in Row : t.hash = HexToHash[hashes[r][i]]}

\* What the node knows of the transaction at position i, if it is mined.
Receipt(r, i) == {t \in Row : t.hash = HexToHash[hashes[r][i]] /\ t.block = node[t.hash]}

FetchFound(r, i) ==
    /\ Awaited(r, i)
    /\ \E t \in Receipt(r, i) :
          nodeTxs' = [nodeTxs EXCEPT ![r] =
                [j \in DOMAIN @ \cup {i} |-> IF j = i THEN t ELSE @[j]]]
    /\ UNCHANGED <<transactions, chainVars, pc, hashes, dbTxs, errs, save>>

\* No receipt yet, or the call fails or is cancelled with the request's context.
FetchError(r, i) ==
    /\ Awaited(r, i)
    /\ node[HexToHash[hashes[r][i]]] \notin Block \/ "node" \in Faults
    /\ errs' = [errs EXCEPT ![r] = @ \cup {i}]
    /\ UNCHANGED <<transactions, chainVars, pc, hashes, dbTxs, nodeTxs, save>>

\* Node errors are logged; the call returns what there is and leaves the saving to a
\* goroutine, which it starts even if the node has found nothing.
Return(r) ==
    /\ pc[r] = "fetch"
    /\ Missing(r) \subseteq Settled(r)
    /\ pc' = [pc EXCEPT ![r] = "returned"]
    /\ save' = [save EXCEPT ![r] = "running"]
    /\ UNCHANGED <<transactions, chainVars, requestVars>>

-----------------------------------------------------------------------------
(* The saving goroutine *)

NodeKeys(r) == [i \in DOMAIN nodeTxs[r] |-> nodeTxs[r][i].hash]

\* Mutant: the hashes have no unique index.
NotUnique(r) == DOMAIN nodeTxs[r] # {}

\* gorm and the unique index accept the records.
Unique(r) == Accepts(Keys(transactions), NodeKeys(r))

\* Mutant: the insert runs under the request's context, which ends with the reply.
Cancelled(r) == TRUE

Refused(r) == ~Unique(r)

\* Mutant: the records are inserted one by one, and those before the refused one stay.
RowByRow(r) ==
    /\ save[r] = "running"
    /\ transactions' = transactions \cup
          {nodeTxs[r][i] : i \in {j \in DOMAIN nodeTxs[r] :
              /\ NodeKeys(r)[j] \notin Keys(transactions)
              /\ \A k \in DOMAIN nodeTxs[r] : k < j => NodeKeys(r)[k] # NodeKeys(r)[j]}}
    /\ save' = [save EXCEPT ![r] = IF Unique(r) THEN "saved" ELSE "rejected"]
    /\ UNCHANGED <<chainVars, pc, requestVars>>

\* One insert of all the records the node answered, or of none.
SaveTransactions(r) ==
    /\ save[r] = "running"
    /\ \/ /\ Unique(r)
          /\ transactions' = transactions \cup Range(nodeTxs[r])
          /\ save' = [save EXCEPT ![r] = "saved"]
       \/ /\ Refused(r)
          /\ save' = [save EXCEPT ![r] = "rejected"]
          /\ UNCHANGED transactions
       \/ /\ "db" \in Faults
          /\ save' = [save EXCEPT ![r] = "failed"]
          /\ UNCHANGED transactions
    /\ UNCHANGED <<chainVars, pc, requestVars>>

-----------------------------------------------------------------------------
(* The world around *)

\* The process ends (killed, crashed, or shut down) and another takes its place on the
\* same database: calls in progress and saves under way are gone.
Halt ==
    /\ "halt" \in Faults
    /\ pc' = [r \in Req |-> IF pc[r] \in {"lookup", "fetch"} THEN "dead" ELSE pc[r]]
    /\ save' = [r \in Req |-> IF save[r] = "running" THEN "killed" ELSE save[r]]
    /\ UNCHANGED <<transactions, chainVars, requestVars>>

\* The chain moves on: announced, mined, reorganised, dropped.
NodeMove(t) ==
    /\ \E s \in ({"unknown", "pending"} \cup Block) \ {node[t]} :
          /\ node' = [node EXCEPT ![t] = s]
          /\ mined' = [mined EXCEPT ![t] = @ \cup ({s} \cap Block)]
    /\ UNCHANGED <<transactions, pc, requestVars, save>>

Call(r) ==
    \/ Lookup(r) \/ LookupFails(r)
    \/ \E i \in DOMAIN hashes[r] : FetchFound(r, i) \/ FetchError(r, i)
    \/ Return(r)

Next ==
    \/ \E r \in Req : Receive(r) \/ Call(r) \/ SaveTransactions(r)
    \/ Halt
    \/ \E t \in Canonical : NodeMove(t)

Spec == Init /\ [][Next]_vars

-----------------------------------------------------------------------------
(* Properties *)

TypeOK ==
    /\ transactions \subseteq Row
    /\ node \in [Canonical -> {"unknown", "pending"} \cup Block]
    /\ mined \in [Canonical -> SUBSET Block]
    /\ pc \in [Req -> {"idle", "lookup", "fetch", "returned", "failed", "dead"}]
    /\ hashes \in [Req -> Lists \cup {<<>>}]
    /\ dbTxs \in [Req -> SUBSET Row]
    /\ \A r \in Req : /\ DOMAIN nodeTxs[r] \subseteq DOMAIN hashes[r]
                      /\ Range(nodeTxs[r]) \subseteq Row
    /\ errs \in [Req -> SUBSET Nat]
    /\ save \in [Req -> {"none", "running", "saved", "rejected", "failed", "killed"}]

\* The records of a reply, as far as it has been put together.
Records(r) == dbTxs[r] \cup Range(nodeTxs[r])

\* The early return of the lookup compares lengths, not hashes, and a failed fetch is only
\* logged: still, every string of a request that is answered has its own transaction in
\* the reply or an error of its own in the log.
EveryHashAccounted ==
    \A r \in Req : pc[r] = "returned" =>
        \A i \in DOMAIN hashes[r] :
            \/ i \in errs[r]
            \/ \E t \in Records(r) : t.hash = HexToHash[hashes[r][i]]

\* Two replies served from the table never contradict each other: whatever was cached
\* first stays, through racing saves and restarts.
CacheAgrees ==
    \A r, s \in Req : \A t \in dbTxs[r], u \in dbTxs[s] : t.hash = u.hash => t = u

\* The table holds only what has been on chain: never a pending transaction, never a
\* record pieced together from two transactions.
CachedWasMined == \A t \in transactions : t.block \in mined[t.hash]

\* A request without repetitions or aliases gets one record per transaction: what the table
\* answers is not asked of the node again.
OneRecordEach ==
    \A r \in Req : IsInjective(hashes[r]) /\ Range(hashes[r]) \subseteq Canonical =>
        /\ IsInjective(NodeKeys(r))
        /\ Keys(dbTxs[r]) \cap Range(NodeKeys(r)) = {}

\* A request for a single hash that the node answered leaves it in the table, whoever else
\* is fetching it: when its insert is refused, another one has made it.
SingleIsCached ==
    \A r \in Req :
        Len(hashes[r]) = 1 /\ DOMAIN nodeTxs[r] # {} /\ save[r] \in {"saved", "rejected"}
            => Range(NodeKeys(r)) \subseteq Keys(transactions)

\* An insert is refused for three reasons only: the node found nothing, the request named a
\* transaction twice or by an alias, or another request has cached one of its transactions.
RefusedForAReason ==
    \A r \in Req : save[r] = "rejected" =>
        \/ DOMAIN nodeTxs[r] = {}
        \/ \E i \in DOMAIN nodeTxs[r] : hashes[r][i] \notin Canonical
        \/ ~IsInjective(NodeKeys(r))
        \/ \E s \in Req \ {r} :
              save[s] = "saved" /\ Range(NodeKeys(s)) \cap Range(NodeKeys(r)) # {}

\* The promise's view of a save: a refused, failed or killed one is dropped.
Outcome(r) == IF save[r] = "none" THEN "none"
              ELSE IF save[r] = "running" THEN "open"
              ELSE IF save[r] = "saved" THEN "cached" ELSE "dropped"

\* The records a call is to save, once it has returned.
Entry(r) == IF save[r] = "none" THEN {} ELSE Range(nodeTxs[r])

Promise == INSTANCE CachePromise WITH
    table <- transactions,
    served <- dbTxs,
    entry <- [r \in Req |-> Entry(r)],
    outcome <- [r \in Req |-> Outcome(r)]

\* However calls and saves race, fail and are killed, the table keeps the promise: a call
\* reads it in one step, a fetch is cached as a whole or not at all, and never over a row
\* that is there.
KeepsPromise == Promise!Spec
=============================================================================
