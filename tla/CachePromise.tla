---------------------------- MODULE CachePromise ----------------------------
(***************************************************************************)
(* What GetTransactions and its saving goroutine promise, with no list, no *)
(* node and no index in sight.  The table is written once: a call reads    *)
(* some of its rows in one step, and later puts the records it has fetched *)
(* there all at once, if none of their transactions has a row, or none of  *)
(* them.  Nothing that is there changes or goes away.                      *)
(***************************************************************************)
CONSTANTS Req,        \* GetTransactions calls
          Canonical,  \* transactions
          Block       \* identities of the blocks a receipt may name

VARIABLES table,    \* rows: a transaction and its block
          served,   \* served[r]: rows that call r got from the table
          entry,    \* entry[r]: records that it is to put there
          outcome   \* outcome[r]: "none", "open", "cached" or "dropped"

promiseVars == <<table, served, entry, outcome>>

Row == [hash : Canonical, block : Block]

\* A transaction has at most one of the rows.
OneRowPerHash(rows) == \A t, u \in rows : t.hash = u.hash => t = u

Init ==
    /\ table = {}
    /\ served = [r \in Req |-> {}]
    /\ entry = [r \in Req |-> {}]
    /\ outcome = [r \in Req |-> "none"]

\* A call reads the table before it fetches anything, and only once.
Serve(r) ==
    /\ outcome[r] = "none" /\ served[r] = {}
    /\ \E rows \in SUBSET table : served' = [served EXCEPT ![r] = rows]
    /\ UNCHANGED <<table, entry, outcome>>

Open(r) ==
    /\ outcome[r] = "none"
    /\ \E records \in SUBSET Row : entry' = [entry EXCEPT ![r] = records]
    /\ outcome' = [outcome EXCEPT ![r] = "open"]
    /\ UNCHANGED <<table, served>>

\* All or nothing, and the first one stays.
Fill(r) ==
    /\ outcome[r] = "open"
    /\ entry[r] # {} /\ OneRowPerHash(entry[r])
    /\ \A t \in entry[r], u \in table : t.hash # u.hash
    /\ table' = table \cup entry[r]
    /\ outcome' = [outcome EXCEPT ![r] = "cached"]
    /\ UNCHANGED <<served, entry>>

\* Any number of open saves may be dropped at once (the process ends).
Drop(rs) ==
    /\ \A r \in rs : outcome[r] = "open"
    /\ outcome' = [r \in Req |-> IF r \in rs THEN "dropped" ELSE outcome[r]]
    /\ UNCHANGED <<table, served, entry>>

Next ==
    \/ \E r \in Req : Serve(r) \/ Open(r) \/ Fill(r)
    \/ \E rs \in SUBSET Req : Drop(rs)

Spec == Init /\ [][Next]_promiseVars
=============================================================================
