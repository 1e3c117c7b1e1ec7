---------------------------- MODULE HistoryLedger ----------------------------
(***************************************************************************)
(* What saving to a user's history promises, with no token, no read and no *)
(* index in sight: a job that was opened for a user and a set of hashes    *)
(* either records all of them for that user in one step or drops all of    *)
(* them, and nothing that was recorded ever goes away.                     *)
(***************************************************************************)
CONSTANTS Job,   \* calls of SaveUserTransactionsHistory
          User,  \* subjects of tokens
          Hash   \* hashes of transactions

VARIABLES history,  \* rows <<user, hash>>
          entry,    \* entry[j]: the rows job j is to record
          outcome   \* outcome[j]: "none", "open", "recorded" or "dropped"

ledgerVars == <<history, entry, outcome>>

Init ==
    /\ history = {}
    /\ entry = [j \in Job |-> {}]
    /\ outcome = [j \in Job |-> "none"]

Open(j) ==
    /\ outcome[j] = "none"
    /\ \E u \in User, S \in SUBSET Hash :
          entry' = [entry EXCEPT ![j] = {<<u, h>> : h \in S}]
    /\ outcome' = [outcome EXCEPT ![j] = "open"]
    /\ UNCHANGED history

Record(j) ==
    /\ outcome[j] = "open"
    /\ history' = history \cup entry[j]
    /\ outcome' = [outcome EXCEPT ![j] = "recorded"]
    /\ UNCHANGED entry

\* Any number of open jobs may be dropped at once (the process ends).
Drop(js) ==
    /\ \A j \in js : outcome[j] = "open"
    /\ outcome' = [j \in Job |-> IF j \in js THEN "dropped" ELSE outcome[j]]
    /\ UNCHANGED <<history, entry>>

Next ==
    \/ \E j \in Job : Open(j) \/ Record(j)
    \/ \E js \in SUBSET Job : Drop(js)

Spec == Init /\ [][Next]_ledgerVars
=============================================================================
