------------------------------- MODULE Fethcher -------------------------------
(***************************************************************************)
(* The service as its users see it: the handlers of /lime/eth and /lime/my *)
(* (internal/http/handler) over the cache (TxCache) and the histories      *)
(* (UserHistory), in a process that drains, crashes and comes back         *)
(* (cmd/server.go, internal/http/server).                                  *)
(*                                                                         *)
(* A handler of /lime/eth calls GetTransactions, leaves the recording of   *)
(* what it got to a goroutine, and responds.  A handler of /lime/my reads  *)
(* the two tables one after the other.                                     *)
(***************************************************************************)
EXTENDS Integers, Sequences, FiniteSets, Functions

CONSTANTS Req,        \* requests to /lime/eth
          My,         \* requests to /lime/my
          User,       \* subjects of valid tokens
          Tokens,     \* what AUTH_TOKEN may be: a user's, "stranger" if invalid, "anonymous"
                      \* if missing
          Hash, Canonical, HexToHash, Block, Lists,  \* as in TxCache
          Faults      \* what may go wrong: "db", "node", "token", "crash"

ASSUME ServiceAssumption ==
    /\ {"stranger", "anonymous"} \cap User = {}
    /\ Tokens \subseteq User \cup {"stranger", "anonymous"}
    /\ Canonical \subseteq Hash
    /\ HexToHash \in [Hash -> Canonical]
    /\ \A h \in Canonical : HexToHash[h] = h
    /\ Lists \subseteq Seq(Hash) \ {<<>>}
    /\ Block \cap {"unknown", "pending"} = {}

VARIABLES
    transactions, node, mined, pc, hashes, dbTxs, nodeTxs, errs, save,  \* of TxCache
    history, job, who, batch, known,                                    \* of UserHistory
    server,    \* "up", "draining" (Shutdown waits for the handlers), "down"
    token,     \* token[r]: whose AUTH_TOKEN r carries
    reply,     \* reply[r]: its handler, "none", "open", "handed" over, "sent" or "dead"
    my,        \* my[m]: "idle", "history", "rows", "sent", "failed" or "dead"
    asker,     \* asker[m]: the user of m's token
    listed,    \* listed[m]: hashes it has read from the user's history
    shown,     \* shown[m]: rows it has read from the table
    seen,      \* history: seen[u]: rows that /lime/my has shown to u so far
    owed       \* history: owed[m]: those it had when m began

cacheVars == <<transactions, node, mined, pc, hashes, dbTxs, nodeTxs, errs, save>>
histVars == <<history, job, who, batch, known>>
myVars == <<my, asker, listed, shown, seen, owed>>
vars == <<cacheVars, histVars, server, token, reply, myVars>>

\* The process may end at any time: Exit and Crash decide when.
Cache == INSTANCE TxCache WITH Faults <- Faults \cup {"halt"}
Hist == INSTANCE UserHistory WITH
    Job <- Req, Hash <- Canonical, Batches <- {}, Faults <- Faults \cup {"halt"}

Init ==
    /\ Cache!Init
    /\ Hist!Init
    /\ server = "up"
    /\ token = [r \in Req |-> "anonymous"]
    /\ reply = [r \in Req |-> "none"]
    /\ my = [m \in My |-> "idle"]
    /\ asker = [m \in My |-> "stranger"]
    /\ listed = [m \in My |-> {}]
    /\ shown = [m \in My |-> {}]
    /\ seen = [u \in User |-> {}]
    /\ owed = [m \in My |-> {}]

-----------------------------------------------------------------------------
(* GET /lime/eth, in either form *)

Ask(r) ==
    /\ server = "up"
    /\ Cache!Receive(r)
    /\ \E u \in Tokens : token' = [token EXCEPT ![r] = u]
    /\ reply' = [reply EXCEPT ![r] = "open"]
    /\ UNCHANGED <<histVars, server, myVars>>

\* Mutant: the hashes that were asked for are recorded, not those that were returned.
AskedFor(r) == [i \in DOMAIN hashes[r] |-> HexToHash[hashes[r][i]]]

\* The hashes of the records that go back, with repetitions.
Returned(r) ==
    [k \in ({0} \X Cache!Keys(dbTxs[r])) \cup ({1} \X DOMAIN nodeTxs[r]) |->
        IF k[1] = 0 THEN k[2] ELSE nodeTxs[r][k[2]].hash]

\* GetTransactions has returned: the recording goroutine starts if the request carried a
\* token, valid or not, and there is something to record.
HandOver(r) ==
    /\ reply[r] = "open"
    /\ pc[r] = "returned"
    /\ reply' = [reply EXCEPT ![r] = "handed"]
    /\ IF token[r] # "anonymous" /\ DOMAIN Returned(r) # {}
       THEN Hist!Start(r, token[r], Returned(r))
       ELSE UNCHANGED histVars
    /\ UNCHANGED <<cacheVars, server, token, myVars>>

\* The response is written: the records, or a failure if the lookup failed.
Respond(r) ==
    /\ reply[r] = "handed" \/ (reply[r] = "open" /\ pc[r] = "failed")
    /\ reply' = [reply EXCEPT ![r] = "sent"]
    /\ UNCHANGED <<cacheVars, histVars, server, token, myVars>>

CacheStep(r) ==
    /\ Cache!Call(r) \/ Cache!SaveTransactions(r)
    /\ UNCHANGED <<histVars, server, token, reply, myVars>>

HistoryStep(r) ==
    /\ Hist!Step(r)
    /\ UNCHANGED <<cacheVars, server, token, reply, myVars>>

-----------------------------------------------------------------------------
(* GET /lime/my *)

\* Mutant: a request without AUTH_TOKEN is let in.
Anyone == Tokens

\* A request without AUTH_TOKEN is turned away at once, and changes nothing.
LetIn == Tokens \ {"anonymous"}

\* A client may ask again as soon as it has its answer.
AskMy(m) ==
    /\ server = "up"
    /\ my[m] \notin {"history", "rows"}
    /\ my' = [my EXCEPT ![m] = "history"]
    /\ \E u \in LetIn :
        /\ asker' = [asker EXCEPT ![m] = u]
        /\ owed' = [owed EXCEPT ![m] = IF u \in User THEN seen[u] ELSE {}]
    /\ listed' = [listed EXCEPT ![m] = {}]
    /\ shown' = [shown EXCEPT ![m] = {}]
    /\ UNCHANGED <<cacheVars, histVars, server, token, reply, seen>>

\* Mutant: the rows of every user are read.
AllHashes(m) == {row[2] : row \in history}

OwnHashes(m) == Hist!HashesOf(asker[m])

\* The token is validated and the user's rows are read, if there are any or none.
ReadHistory(m) ==
    /\ my[m] = "history"
    /\ asker[m] \in User
    /\ listed' = [listed EXCEPT ![m] = OwnHashes(m)]
    /\ my' = [my EXCEPT ![m] = "rows"]
    /\ UNCHANGED <<cacheVars, histVars, server, token, reply, asker, shown, seen, owed>>

\* Mutant: rows of blocks that the chain has left are not shown.
CurrentRows(m) == {t \in transactions : t.hash \in listed[m] /\ t.block = node[t.hash]}

\* A hash of the history that is not in the table is left out silently.
RowsOf(m) == {t \in transactions : t.hash \in listed[m]}

ReadRows(m) ==
    /\ my[m] = "rows"
    /\ shown' = [shown EXCEPT ![m] = RowsOf(m)]
    /\ seen' = [seen EXCEPT ![asker[m]] = @ \cup RowsOf(m)]
    /\ my' = [my EXCEPT ![m] = "sent"]
    /\ UNCHANGED <<cacheVars, histVars, server, token, reply, asker, listed, owed>>

MyFails(m) ==
    /\ \/ my[m] = "history" /\ (asker[m] \notin User \/ "token" \in Faults)
       \/ my[m] \in {"history", "rows"} /\ "db" \in Faults
    /\ my' = [my EXCEPT ![m] = "failed"]
    /\ UNCHANGED <<cacheVars, histVars, server, token, reply, asker, listed, shown, seen, owed>>

MyStep(m) == ReadHistory(m) \/ ReadRows(m) \/ MyFails(m)

-----------------------------------------------------------------------------
(* The process *)

\* Mutant: Shutdown waits until every save has succeeded.
Unsaved == \E r \in Req : reply[r] \in {"open", "handed"} \/ save[r] \notin {"none", "saved"}

\* A handler that has not responded.
Busy == \/ \E r \in Req : reply[r] \in {"open", "handed"}
        \/ \E m \in My : my[m] \in {"history", "rows"}

\* SIGINT, SIGTERM or SIGQUIT: run calls Shutdown, which closes the listener and waits.
Signal ==
    /\ server = "up"
    /\ server' = "draining"
    /\ UNCHANGED <<cacheVars, histVars, token, reply, myVars>>

\* What the end of the process does to what runs in it.
EndProcess ==
    /\ Cache!Halt
    /\ Hist!Halt
    /\ server' = "down"
    /\ reply' = [r \in Req |-> IF reply[r] \in {"open", "handed"} THEN "dead" ELSE reply[r]]
    /\ my' = [m \in My |-> IF my[m] \in {"history", "rows"} THEN "dead" ELSE my[m]]
    /\ UNCHANGED <<token, asker, listed, shown, seen, owed>>

\* Shutdown returns when the handlers have; saves and recordings are not waited for.
Exit ==
    /\ server = "draining"
    /\ ~Busy
    /\ EndProcess

Crash ==
    /\ "crash" \in Faults
    /\ server # "down"
    /\ EndProcess

Restart ==
    /\ server = "down"
    /\ server' = "up"
    /\ UNCHANGED <<cacheVars, histVars, token, reply, myVars>>

NodeMove(t) ==
    /\ Cache!NodeMove(t)
    /\ UNCHANGED <<histVars, server, token, reply, myVars>>

Next ==
    \/ \E r \in Req : Ask(r) \/ HandOver(r) \/ Respond(r) \/ CacheStep(r) \/ HistoryStep(r)
    \/ \E m \in My : AskMy(m) \/ MyStep(m)
    \/ Signal \/ Exit \/ Crash \/ Restart
    \/ \E t \in Canonical : NodeMove(t)

Spec == Init /\ [][Next]_vars

\* Goroutines that can run do, and an assumption about the world: the database and the node
\* answer or fail, and clients take their responses.
FairSpec ==
    /\ Spec
    /\ \A r \in Req : WF_vars((Cache!Call(r) /\ CacheStep(r)) \/ HandOver(r) \/ Respond(r))
    /\ \A m \in My : WF_vars(MyStep(m))
    /\ WF_vars(Exit)

-----------------------------------------------------------------------------
(* Properties *)

TypeOK ==
    /\ server \in {"up", "draining", "down"}
    /\ token \in [Req -> User \cup {"stranger", "anonymous"}]
    /\ reply \in [Req -> {"none", "open", "handed", "sent", "dead"}]
    /\ my \in [My -> {"idle", "history", "rows", "sent", "failed", "dead"}]
    /\ asker \in [My -> User \cup {"stranger"}]
    /\ listed \in [My -> SUBSET Canonical]
    /\ shown \in [My -> SUBSET Cache!Row]
    /\ seen \in [User -> SUBSET Cache!Row]
    /\ owed \in [My -> SUBSET Cache!Row]

\* /lime/my shows a user nothing but transactions that requests of that user asked for and
\* got, in a block they were in.
MyShowsOwn ==
    \A m \in My : \A t \in shown[m] :
        /\ t.block \in mined[t.hash]
        /\ \E r \in Req : /\ token[r] = asker[m]
                          /\ t.hash \in Cache!Keys(Cache!Records(r))
                          /\ \E i \in DOMAIN hashes[r] : HexToHash[hashes[r][i]] = t.hash

\* What /lime/my has shown a user it shows again, with the same record, in every later call,
\* whatever was reorganised, refused, killed or restarted in between.
MyNeverShrinks == \A m \in My : my[m] = "sent" => owed[m] \subseteq shown[m]

\* Only requests that brought something back with a valid token leave a trace in a history.
HistoryWasReturned ==
    \A row \in history : \E r \in Req :
        /\ token[r] = row[1]
        /\ row[2] \in Cache!Keys(Cache!Records(r))
        /\ reply[r] \in {"handed", "sent", "dead"}

\* README.md:31: "`GET /lime/my` - Get current user's transaction history".  When
\* every save has run its course, every hash of a history can be shown.
HistoryIsShown ==
    (\A r \in Req : save[r] \notin {"running", "killed"}) =>
        \A row \in history : row[2] \in Cache!Keys(transactions)

\* cmd/server.go:100: "expect a signal to gracefully shutdown the server".
NothingKilled == \A r \in Req : save[r] # "killed" /\ job[r] # "killed"

\* Every request is answered, unless the process ends first: no lost answer of the node, no
\* failed lookup and no drain leaves a client waiting.
RequestsAnswered ==
    /\ \A r \in Req : reply[r] = "open" ~> reply[r] \in {"sent", "dead"}
    /\ \A m \in My : my[m] = "history" ~> my[m] \in {"sent", "failed", "dead"}

\* A shutdown ends, whatever the handlers were doing when it began.
ShutdownEnds == server = "draining" ~> server = "down"
=============================================================================
