---------------------------- MODULE FethcherProofs ----------------------------
(***************************************************************************)
(* Proofs about the composition Fethcher: for any number of requests,      *)
(* users, transactions, reorganisations and restarts, and every fault.     *)
(* What TxCacheProofs shows of the cache holds of the cache in it, since   *)
(* each step of the composition is one of the cache or leaves it alone.    *)
(***************************************************************************)
EXTENDS Fethcher, FiniteSetTheorems, TLAPS

\* The cache of the composition, with its proofs.
CP == INSTANCE TxCacheProofs WITH Faults <- Faults \cup {"halt"}

-----------------------------------------------------------------------------
(* The composition implements the cache *)

LEMMA CacheInit == Cache!Init => CP!Init
BY DEF Cache!Init, CP!Init

LEMMA CacheCall ==
  ASSUME NEW r \in Req, Cache!Call(r) \/ Cache!SaveTransactions(r)
  PROVE  CP!Call(r) \/ CP!SaveTransactions(r)
<1>1. CASE Cache!Lookup(r)
  <2>1. Cache!Found(r) = CP!Found(r)
    BY DEF Cache!Found, CP!Found, Cache!Range, CP!Range
  <2>2. Cache!Enough(r) <=> CP!Enough(r)
    BY <2>1 DEF Cache!Enough, CP!Enough, Cache!Cardinality, CP!Cardinality
  <2>3. QED
    BY <1>1, <2>1, <2>2 DEF Cache!Lookup, CP!Lookup, CP!Call, Cache!chainVars, CP!chainVars
<1>2. CASE Cache!LookupFails(r)
  BY <1>2 DEF Cache!LookupFails, CP!LookupFails, CP!Call, Cache!chainVars, CP!chainVars,
     Cache!requestVars, CP!requestVars
<1>3. ASSUME NEW i \in DOMAIN hashes[r], Cache!FetchFound(r, i)
      PROVE  CP!FetchFound(r, i)
  BY <1>3 DEF Cache!FetchFound, CP!FetchFound, Cache!Awaited, CP!Awaited, Cache!Settled,
     CP!Settled, Cache!Missing, CP!Missing, Cache!Keys, CP!Keys, Cache!Receipt, CP!Receipt,
     Cache!Row, CP!Row, Cache!chainVars, CP!chainVars
<1>4. ASSUME NEW i \in DOMAIN hashes[r], Cache!FetchError(r, i)
      PROVE  CP!FetchError(r, i)
  BY <1>4 DEF Cache!FetchError, CP!FetchError, Cache!Awaited, CP!Awaited, Cache!Settled,
     CP!Settled, Cache!Missing, CP!Missing, Cache!Keys, CP!Keys, Cache!chainVars, CP!chainVars
<1>5. CASE Cache!Return(r)
  BY <1>5 DEF Cache!Return, CP!Return, CP!Call, Cache!Settled, CP!Settled, Cache!Missing,
     CP!Missing, Cache!Keys, CP!Keys, Cache!chainVars, CP!chainVars, Cache!requestVars,
     CP!requestVars
<1>6. CASE Cache!SaveTransactions(r)
  <2>1. Cache!Unique(r) <=> CP!Unique(r)
    BY DEF Cache!Unique, CP!Unique, Cache!Accepts, CP!Accepts, Cache!Keys, CP!Keys,
       Cache!NodeKeys, CP!NodeKeys, Cache!Range, CP!Range, Cache!IsInjective, CP!IsInjective
  <2>2. Cache!Range(nodeTxs[r]) = CP!Range(nodeTxs[r])
    BY DEF Cache!Range, CP!Range
  <2>3. QED
    BY <1>6, <2>1, <2>2 DEF Cache!SaveTransactions, CP!SaveTransactions, Cache!Refused,
       CP!Refused, Cache!chainVars, CP!chainVars, Cache!requestVars, CP!requestVars
<1>7. QED
  BY <1>1, <1>2, <1>3, <1>4, <1>5, <1>6 DEF Cache!Call, CP!Call

LEMMA CacheNext ==
  ASSUME [Next]_vars
  PROVE  [CP!Next]_(CP!vars)
<1> USE DEF CP!vars, CP!chainVars, CP!requestVars, cacheVars
<1>1. ASSUME NEW r \in Req, Ask(r)
      PROVE  CP!Next
  <2>1. CP!Receive(r)
    BY <1>1 DEF Ask, Cache!Receive, CP!Receive, Cache!chainVars
  <2>2. QED
    BY <2>1 DEF CP!Next
<1>2. ASSUME NEW r \in Req, CacheStep(r)
      PROVE  CP!Next
  <2>1. CP!Call(r) \/ CP!SaveTransactions(r)
    BY <1>2, CacheCall DEF CacheStep
  <2>2. QED
    BY <2>1 DEF CP!Next
<1>3. ASSUME NEW r \in Req, HandOver(r) \/ Respond(r) \/ HistoryStep(r)
      PROVE  UNCHANGED CP!vars
  BY <1>3 DEF HandOver, Respond, HistoryStep
<1>4. ASSUME NEW m \in My, AskMy(m) \/ MyStep(m)
      PROVE  UNCHANGED CP!vars
  BY <1>4 DEF AskMy, MyStep, ReadHistory, ReadRows, MyFails
<1>5. CASE Signal \/ Restart
  BY <1>5 DEF Signal, Restart
<1>6. CASE Exit \/ Crash
  <2>1. Cache!Halt
    BY <1>6 DEF Exit, Crash, EndProcess
  <2>2. CP!Halt
    BY <2>1 DEF Cache!Halt, CP!Halt, Cache!chainVars, Cache!requestVars
  <2>3. QED
    BY <2>2 DEF CP!Next
<1>7. ASSUME NEW t \in Canonical, NodeMove(t)
      PROVE  CP!Next
  <2>1. CP!NodeMove(t)
    BY <1>7 DEF NodeMove, Cache!NodeMove, CP!NodeMove, Cache!requestVars
  <2>2. QED
    BY <2>1 DEF CP!Next
<1>8. CASE UNCHANGED vars
  BY <1>8 DEF vars
<1>9. QED
  BY <1>1, <1>2, <1>3, <1>4, <1>5, <1>6, <1>7, <1>8 DEF Next

\* The service, whatever its handlers and histories do, is an instance of the cache: what is
\* proved of TxCache is proved of it.
THEOREM ImplementsTxCache == Spec => CP!Spec
<1>1. Init => CP!Init
  BY CacheInit DEF Init
<1>2. [Next]_vars => [CP!Next]_(CP!vars)
  BY CacheNext
<1>3. QED
  BY <1>1, <1>2, PTL DEF Spec, CP!Spec

\* The cache's inductive invariant, for one.
THEOREM CacheInductive == Spec => []CP!IInv
BY ImplementsTxCache, CP!Inductive, ServiceAssumption, PTL

-----------------------------------------------------------------------------
(* What the rest of the service relies on *)

\* The hashes of the records of a reply.
Got(r) == Cache!Keys(Cache!Records(r))

\* Records belong to the strings of the request, and rows were on chain.
LEMMA CacheFacts ==
  ASSUME CP!IInv
  PROVE  /\ transactions \subseteq Cache!Row
         /\ pc \in [Req -> {"idle", "lookup", "fetch", "returned", "failed", "dead"}]
         /\ \A t \in transactions : t.block \in mined[t.hash]
         /\ \A r \in Req : /\ dbTxs[r] \subseteq transactions
                           /\ Got(r) \subseteq Canonical
                           /\ \A h \in Got(r) : \E i \in DOMAIN hashes[r] :
                                 HexToHash[hashes[r][i]] = h
<1>1. /\ transactions \subseteq Cache!Row
      /\ pc \in [Req -> {"idle", "lookup", "fetch", "returned", "failed", "dead"}]
  BY DEF CP!IInv, CP!TypeOK, CP!Row, Cache!Row
<1>2. \A t \in transactions : t.block \in mined[t.hash]
  BY DEF CP!IInv, CP!TableInv, CP!CachedWasMined
<1>3. ASSUME NEW r \in Req
      PROVE  /\ dbTxs[r] \subseteq transactions
             /\ Got(r) \subseteq Canonical
             /\ \A h \in Got(r) : \E i \in DOMAIN hashes[r] : HexToHash[hashes[r][i]] = h
  <2>1. dbTxs[r] \subseteq transactions
    BY DEF CP!IInv, CP!RecordInv
  <2>2. ASSUME NEW t \in dbTxs[r]
        PROVE  t.hash \in Canonical /\ \E i \in DOMAIN hashes[r] : HexToHash[hashes[r][i]] = t.hash
    <3>1. t.hash \in Canonical
      BY <1>1, <2>1 DEF Cache!Row
    <3>2. PICK i \in DOMAIN hashes[r] : hashes[r][i] = t.hash
      BY DEF CP!IInv, CP!AskedInv, CP!Keys, CP!Range
    <3>3. QED
      BY <3>1, <3>2, ServiceAssumption
  <2>3. ASSUME NEW j \in DOMAIN nodeTxs[r]
        PROVE  /\ nodeTxs[r][j].hash \in Canonical
               /\ \E i \in DOMAIN hashes[r] : HexToHash[hashes[r][i]] = nodeTxs[r][j].hash
    <3>1. j \in DOMAIN hashes[r] /\ nodeTxs[r][j] \in Cache!Row
      BY DEF CP!IInv, CP!TypeOK, CP!Range, CP!Row, Cache!Row
    <3>2. nodeTxs[r][j].hash = HexToHash[hashes[r][j]]
      BY DEF CP!IInv, CP!RecordInv
    <3>3. QED
      BY <3>1, <3>2 DEF Cache!Row
  <2>4. \A h \in Got(r) : \/ \E t \in dbTxs[r] : h = t.hash
                          \/ \E j \in DOMAIN nodeTxs[r] : h = nodeTxs[r][j].hash
    BY DEF Got, Cache!Keys, Cache!Records, Cache!Range
  <2>5. QED
    BY <2>1, <2>2, <2>3, <2>4
<1>4. QED
  BY <1>1, <1>2, <1>3

\* Rows stay, and so does what a call that has returned has got.
LEMMA CacheStays ==
  ASSUME CP!IInv, [Next]_vars
  PROVE  /\ transactions \subseteq transactions'
         /\ \A r \in Req : pc[r] = "returned" => pc'[r] = "returned" /\ Got(r)' = Got(r)
<1>1. [CP!Next]_(CP!vars)
  BY CacheNext
<1>2. transactions \subseteq transactions'
  BY <1>1, CP!TableStep, ServiceAssumption
<1>3. ASSUME NEW r \in Req, pc[r] = "returned"
      PROVE  pc'[r] = "returned" /\ Got(r)' = Got(r)
  <2>1. dbTxs'[r] = dbTxs[r] /\ nodeTxs'[r] = nodeTxs[r]
    BY <1>1, <1>3, CP!ReturnedStays, ServiceAssumption
  <2>2. Got(r)' = Got(r)
    BY <2>1 DEF Got, Cache!Keys, Cache!Records, Cache!Range
  <2>3. pc'[r] = "returned"
    <3>1. pc \in [Req -> {"idle", "lookup", "fetch", "returned", "failed", "dead"}]
      BY CacheFacts
    <3>2. ASSUME NEW q \in Req, Cache!Receive(q) \/ Cache!Call(q) \/ Cache!SaveTransactions(q)
          PROVE  pc'[r] = "returned"
      BY <1>3, <3>1, <3>2 DEF Cache!Receive, Cache!Call, Cache!Lookup, Cache!LookupFails,
         Cache!FetchFound, Cache!FetchError, Cache!Return, Cache!SaveTransactions
    <3>3. CASE Cache!Halt
      BY <1>3, <3>3 DEF Cache!Halt
    <3>4. CASE UNCHANGED pc
      BY <1>3, <3>4
    <3>5. QED
      BY <3>2, <3>3, <3>4 DEF Next, Ask, HandOver, Respond, CacheStep, HistoryStep, AskMy,
         MyStep, ReadHistory, ReadRows, MyFails, Signal, Exit, Crash, EndProcess, Restart,
         NodeMove, Cache!NodeMove, vars, cacheVars
  <2>4. QED
    BY <2>2, <2>3
<1>4. QED
  BY <1>2, <1>3

Handed == {"handed", "sent", "dead"}

\* The variables of the histories and the handlers are functions.
Shape ==
    /\ job = [r \in Req |-> job[r]] /\ who = [r \in Req |-> who[r]]
    /\ batch = [r \in Req |-> batch[r]] /\ known = [r \in Req |-> known[r]]

\* A recording job is about what its request's call has returned, and its subject is whose
\* token the request carries.
JobInv ==
    \A r \in Req :
        /\ job[r] # "idle" => /\ pc[r] = "returned" /\ reply[r] \in Handed
                              /\ who[r] = token[r] /\ Range(batch[r]) \subseteq Got(r)
        /\ job[r] \in {"read", "insert"} => who[r] \in User

\* A row of a history goes back to such a job.
HistoryInv ==
    \A row \in history :
        /\ row[1] \in User
        /\ \E r \in Req : /\ pc[r] = "returned" /\ reply[r] \in Handed
                          /\ token[r] = row[1] /\ row[2] \in Got(r)

\* What has been shown is in both tables, and so is what is owed.
SeenInv == \A u \in User : \A t \in seen[u] : t \in transactions /\ <<u, t.hash>> \in history

MyInv ==
    \A m \in My :
        /\ \A t \in owed[m] : t \in transactions /\ <<asker[m], t.hash>> \in history
        /\ \A h \in listed[m] : <<asker[m], h>> \in history
        /\ \A t \in shown[m] : t \in transactions /\ t.hash \in listed[m]
        /\ my[m] = "rows" => asker[m] \in User /\ \A t \in owed[m] : t.hash \in listed[m]
        /\ my[m] = "sent" => owed[m] \subseteq shown[m]

IInv == CP!IInv /\ TypeOK /\ Shape /\ JobInv /\ HistoryInv /\ SeenInv /\ MyInv

-----------------------------------------------------------------------------
(* One step at a time *)

\* What an insert of a job adds to the histories.
LEMMA InsertAdds ==
  ASSUME IInv, NEW r \in Req, Hist!Insert(r)
  PROVE  /\ job[r] = "insert" /\ UNCHANGED <<who, batch, known>>
         /\ \E end \in {"recorded", "refused", "failed"} : job' = [job EXCEPT ![r] = end]
         /\ history \subseteq history'
         /\ \A row \in history' \ history : row[1] = who[r] /\ row[2] \in Range(batch[r])
<1>1. history' = history \/ history' = history \cup {<<who[r], h>> : h \in Hist!Range(Hist!Fresh(r))}
  BY DEF Hist!Insert
<1>2. \A h \in Hist!Range(Hist!Fresh(r)) : h \in Range(batch[r])
  BY DEF Hist!Range, Hist!Fresh, Range
<1>3. \A row \in history' \ history : row[1] = who[r] /\ row[2] \in Range(batch[r])
  BY <1>1, <1>2
<1>4. history \subseteq history'
  BY <1>1
<1>5. /\ job[r] = "insert" /\ UNCHANGED <<who, batch, known>>
      /\ \E end \in {"recorded", "refused", "failed"} : job' = [job EXCEPT ![r] = end]
  BY DEF Hist!Insert
<1>6. QED
  BY <1>3, <1>4, <1>5

LEMMA HistoryGrows ==
  ASSUME IInv, [Next]_vars
  PROVE  /\ history \subseteq history'
         /\ history' = history \/ \E r \in Req : HistoryStep(r) /\ Hist!Insert(r)
<1>1. ASSUME NEW r \in Req, HistoryStep(r)
      PROVE  /\ history \subseteq history'
             /\ history' = history \/ Hist!Insert(r)
  BY <1>1, InsertAdds DEF HistoryStep, Hist!Step, Hist!Validate, Hist!Read
<1>2. ASSUME NEW r \in Req, HandOver(r)
      PROVE  history' = history
  BY <1>2 DEF HandOver, Hist!Start, histVars
<1>3. CASE Exit \/ Crash
  BY <1>3 DEF Exit, Crash, EndProcess, Hist!Halt
<1>4. QED
  BY <1>1, <1>2, <1>3 DEF Next, Ask, Respond, CacheStep, AskMy, MyStep, ReadHistory, ReadRows,
     MyFails, Signal, Restart, NodeMove, vars, histVars

\* The variables keep their types.
LEMMA TypeStep ==
  ASSUME IInv, [Next]_vars
  PROVE  TypeOK' /\ Shape'
<1> USE DEF Shape, histVars, myVars
<1>0. TypeOK /\ Shape /\ transactions \subseteq Cache!Row
  BY CacheFacts DEF IInv
<1>1. ASSUME NEW r \in Req, Ask(r)
      PROVE  TypeOK' /\ Shape'
  <2>1. /\ \E u \in Tokens : token' = [token EXCEPT ![r] = u]
        /\ reply' = [reply EXCEPT ![r] = "open"]
        /\ UNCHANGED <<histVars, server, myVars>>
    BY <1>1 DEF Ask
  <2>2. QED
    BY <1>0, <2>1, ServiceAssumption DEF TypeOK, Cache!Row
<1>2. ASSUME NEW r \in Req, HandOver(r)
      PROVE  TypeOK' /\ Shape'
  <2>1. reply' = [reply EXCEPT ![r] = "handed"] /\ UNCHANGED <<server, token, myVars>>
    BY <1>2 DEF HandOver
  <2>2. TypeOK'
    BY <1>0, <2>1 DEF TypeOK, Cache!Row
  <2>3. Hist!Start(r, token[r], Returned(r)) \/ UNCHANGED histVars
    BY <1>2 DEF HandOver
  <2>4. Shape'
    BY <1>0, <2>3 DEF Hist!Start
  <2>5. QED
    BY <2>2, <2>4
<1>3. ASSUME NEW r \in Req, Respond(r)
      PROVE  TypeOK' /\ Shape'
  BY <1>0, <1>3 DEF Respond, TypeOK, Cache!Row
<1>4. ASSUME NEW r \in Req, CacheStep(r)
      PROVE  TypeOK' /\ Shape'
  <2>1. UNCHANGED <<histVars, server, token, reply, myVars>>
    BY <1>4 DEF CacheStep
  <2>2. QED
    BY <1>0, <2>1 DEF TypeOK, Cache!Row
<1>5. ASSUME NEW r \in Req, HistoryStep(r)
      PROVE  TypeOK' /\ Shape'
  <2>1. UNCHANGED <<server, token, reply, myVars>>
    BY <1>5 DEF HistoryStep
  <2>2. Shape'
    BY <1>0, <1>5 DEF HistoryStep, Hist!Step, Hist!Validate, Hist!Read, Hist!Insert
  <2>3. QED
    BY <1>0, <2>1, <2>2 DEF TypeOK, Cache!Row
<1>6. ASSUME NEW m \in My, AskMy(m)
      PROVE  TypeOK' /\ Shape'
  <2>1. PICK u \in LetIn :
          /\ asker' = [asker EXCEPT ![m] = u]
          /\ owed' = [owed EXCEPT ![m] = IF u \in User THEN seen[u] ELSE {}]
    BY <1>6 DEF AskMy
  <2>2. u \in User \cup {"stranger"}
    BY ServiceAssumption DEF LetIn
  <2>3. (IF u \in User THEN seen[u] ELSE {}) \in SUBSET Cache!Row
    BY <1>0 DEF TypeOK
  <2>4. /\ my' = [my EXCEPT ![m] = "history"] /\ listed' = [listed EXCEPT ![m] = {}]
        /\ shown' = [shown EXCEPT ![m] = {}]
        /\ UNCHANGED <<histVars, server, token, reply, seen>>
    BY <1>6 DEF AskMy
  <2>5. owed' \in [My -> SUBSET Cache!Row] /\ asker' \in [My -> User \cup {"stranger"}]
    BY <1>0, <2>1, <2>2, <2>3 DEF TypeOK
  <2>6. QED
    BY <1>0, <2>4, <2>5 DEF TypeOK, Cache!Row
<1>7. ASSUME NEW m \in My, ReadHistory(m)
      PROVE  TypeOK' /\ Shape'
  <2>1. OwnHashes(m) \in SUBSET Canonical
    BY DEF OwnHashes, Hist!HashesOf
  <2>2. /\ listed' = [listed EXCEPT ![m] = OwnHashes(m)] /\ my' = [my EXCEPT ![m] = "rows"]
        /\ UNCHANGED <<histVars, server, token, reply, asker, shown, seen, owed>>
    BY <1>7 DEF ReadHistory
  <2>3. listed' \in [My -> SUBSET Canonical]
    BY <1>0, <2>1, <2>2 DEF TypeOK
  <2>4. QED
    BY <1>0, <2>2, <2>3 DEF TypeOK, Cache!Row
<1>8. ASSUME NEW m \in My, ReadRows(m)
      PROVE  TypeOK' /\ Shape'
  <2>1. RowsOf(m) \in SUBSET Cache!Row
    BY <1>0 DEF RowsOf
  <2>2. /\ shown' = [shown EXCEPT ![m] = RowsOf(m)]
        /\ seen' = [seen EXCEPT ![asker[m]] = @ \cup RowsOf(m)]
        /\ my' = [my EXCEPT ![m] = "sent"]
        /\ UNCHANGED <<histVars, server, token, reply, asker, listed, owed>>
    BY <1>8 DEF ReadRows
  <2>3. shown' \in [My -> SUBSET Cache!Row]
    BY <1>0, <2>1, <2>2 DEF TypeOK
  <2>4. seen' \in [User -> SUBSET Cache!Row]
    BY <1>0, <2>1, <2>2 DEF TypeOK
  <2>5. QED
    BY <1>0, <2>2, <2>3, <2>4 DEF TypeOK, Cache!Row
<1>9. ASSUME NEW m \in My, MyFails(m)
      PROVE  TypeOK' /\ Shape'
  BY <1>0, <1>9 DEF MyFails, TypeOK, Cache!Row
<1>10. CASE Exit \/ Crash
  <2>1. EndProcess
    BY <1>10 DEF Exit, Crash
  <2>2. Shape'
    BY <1>0, <2>1 DEF EndProcess, Hist!Halt
  <2>3. server' = "down" /\ UNCHANGED <<token, asker, listed, shown, seen, owed>>
    BY <2>1 DEF EndProcess
  <2>4. /\ reply' \in [Req -> {"none", "open", "handed", "sent", "dead"}]
        /\ my' \in [My -> {"idle", "history", "rows", "sent", "failed", "dead"}]
    BY <1>0, <2>1 DEF EndProcess, TypeOK
  <2>5. QED
    BY <1>0, <2>2, <2>3, <2>4 DEF TypeOK, Cache!Row
<1>11. CASE Signal \/ Restart
  BY <1>0, <1>11 DEF Signal, Restart, TypeOK, Cache!Row
<1>12. ASSUME NEW t \in Canonical, NodeMove(t)
       PROVE  TypeOK' /\ Shape'
  <2>1. UNCHANGED <<histVars, server, token, reply, myVars>>
    BY <1>12 DEF NodeMove
  <2>2. QED
    BY <1>0, <2>1 DEF TypeOK, Cache!Row
<1>13. CASE UNCHANGED vars
  BY <1>0, <1>13 DEF vars, TypeOK, Cache!Row
<1>14. QED
  BY <1>1, <1>2, <1>3, <1>4, <1>5, <1>6, <1>7, <1>8, <1>9, <1>10, <1>11, <1>12, <1>13
     DEF Next, MyStep

\* A request that was handed over keeps its token, and what it has got.
LEMMA HandedStays ==
  ASSUME IInv, [Next]_vars, NEW r \in Req, pc[r] = "returned", reply[r] \in Handed
  PROVE  /\ pc'[r] = "returned" /\ reply'[r] \in Handed
         /\ token'[r] = token[r] /\ Got(r)' = Got(r)
<1>0. /\ TypeOK /\ pc'[r] = "returned" /\ Got(r)' = Got(r)
  BY CacheStays DEF IInv
<1>1. ASSUME NEW q \in Req, Ask(q)
      PROVE  reply'[r] \in Handed /\ token'[r] = token[r]
  <2>1. q # r
    BY <1>1 DEF Ask, Cache!Receive
  <2>2. QED
    BY <1>0, <1>1, <2>1 DEF Ask, TypeOK
<1>2. ASSUME NEW q \in Req, HandOver(q) \/ Respond(q)
      PROVE  reply'[r] \in Handed /\ token'[r] = token[r]
  BY <1>0, <1>2 DEF HandOver, Respond, TypeOK, Handed
<1>3. CASE Exit \/ Crash
  BY <1>0, <1>3 DEF Exit, Crash, EndProcess, TypeOK, Handed
<1>4. CASE UNCHANGED <<token, reply>>
  BY <1>0, <1>4
<1>5. QED
  BY <1>0, <1>1, <1>2, <1>3, <1>4 DEF Next, CacheStep, HistoryStep, AskMy, MyStep, ReadHistory,
     ReadRows, MyFails, Signal, Restart, NodeMove, vars

\* The hashes that are handed over are those of the records.
LEMMA ReturnedIsGot ==
  ASSUME NEW r \in Req
  PROVE  Range(Returned(r)) \subseteq Got(r)
<1> SUFFICES ASSUME NEW k \in DOMAIN Returned(r)
             PROVE  Returned(r)[k] \in Got(r)
  BY DEF Range
<1>1. k \in ({0} \X Cache!Keys(dbTxs[r])) \cup ({1} \X DOMAIN nodeTxs[r])
  BY DEF Returned
<1>2. CASE k \in {0} \X Cache!Keys(dbTxs[r])
  <2>1. Returned(r)[k] = k[2] /\ k[2] \in Cache!Keys(dbTxs[r])
    BY <1>2 DEF Returned
  <2>2. QED
    BY <2>1 DEF Got, Cache!Keys, Cache!Records
<1>3. CASE k \in {1} \X DOMAIN nodeTxs[r]
  <2>1. Returned(r)[k] = nodeTxs[r][k[2]].hash /\ k[2] \in DOMAIN nodeTxs[r]
    BY <1>3 DEF Returned
  <2>2. QED
    BY <2>1 DEF Got, Cache!Keys, Cache!Records, Cache!Range
<1>4. QED
  BY <1>1, <1>2, <1>3

\* A recording job starts with what the call has returned, and moves on only with a valid
\* token.
LEMMA JobStep ==
  ASSUME IInv, [Next]_vars
  PROVE  JobInv'
<1> USE DEF Shape
<1>0. Shape /\ JobInv
  BY DEF IInv
\* A job that keeps its batch and its subject.
<1>1. ASSUME NEW q \in Req, who'[q] = who[q], batch'[q] = batch[q],
             job[q] # "idle" \/ job'[q] = "idle",
             job'[q] \in {"read", "insert"} => who[q] \in User
      PROVE  /\ job'[q] # "idle" => /\ pc'[q] = "returned" /\ reply'[q] \in Handed
                                    /\ who'[q] = token'[q]
                                    /\ Range(batch'[q]) \subseteq Got(q)'
             /\ job'[q] \in {"read", "insert"} => who'[q] \in User
  <2>1. CASE job[q] # "idle"
    <3>1. /\ pc[q] = "returned" /\ reply[q] \in Handed
          /\ who[q] = token[q] /\ Range(batch[q]) \subseteq Got(q)
      BY <1>0, <2>1 DEF JobInv
    <3>2. /\ pc'[q] = "returned" /\ reply'[q] \in Handed
          /\ token'[q] = token[q] /\ Got(q)' = Got(q)
      BY <3>1, HandedStays
    <3>3. QED
      BY <1>1, <3>1, <3>2
  <2>2. CASE job'[q] = "idle"
    BY <2>2
  <2>3. QED
    BY <1>1, <2>1, <2>2
<1>2. ASSUME NEW r \in Req, HandOver(r)
      PROVE  JobInv'
  <2>1. /\ pc[r] = "returned" /\ reply' = [reply EXCEPT ![r] = "handed"]
        /\ UNCHANGED <<cacheVars, token>>
    BY <1>2 DEF HandOver
  <2>2. CASE UNCHANGED histVars
    BY <1>0, <1>1, <2>2 DEF histVars, JobInv
  <2>3. CASE Hist!Start(r, token[r], Returned(r))
    <3>1. /\ job' = [job EXCEPT ![r] = "validate"] /\ who' = [who EXCEPT ![r] = token[r]]
          /\ batch' = [batch EXCEPT ![r] = Returned(r)]
      BY <2>3 DEF Hist!Start
    <3>2. /\ job'[r] = "validate" /\ who'[r] = token[r] /\ batch'[r] = Returned(r)
      BY <1>0, <3>1
    <3>3. reply'[r] = "handed" /\ pc'[r] = "returned" /\ token'[r] = token[r]
      BY <2>1 DEF cacheVars, IInv, TypeOK
    <3>4. Got(r)' = Got(r)
      BY <2>1 DEF cacheVars, Got, Cache!Keys, Cache!Records, Cache!Range
    <3>5. Range(batch'[r]) \subseteq Got(r)'
      BY <3>2, <3>4, ReturnedIsGot
    <3>6. ASSUME NEW q \in Req, q # r
          PROVE  who'[q] = who[q] /\ batch'[q] = batch[q] /\ job'[q] = job[q]
      BY <1>0, <3>1, <3>6
    <3>7. ASSUME NEW q \in Req
          PROVE  /\ job'[q] # "idle" => /\ pc'[q] = "returned" /\ reply'[q] \in Handed
                                        /\ who'[q] = token'[q]
                                        /\ Range(batch'[q]) \subseteq Got(q)'
                 /\ job'[q] \in {"read", "insert"} => who'[q] \in User
      <4>1. CASE q = r
        BY <3>2, <3>3, <3>5, <4>1 DEF Handed
      <4>2. CASE q # r
        BY <1>0, <1>1, <3>6, <4>2 DEF JobInv
      <4>3. QED
        BY <4>1, <4>2
    <3>8. QED
      BY <3>7 DEF JobInv, Range
  <2>4. QED
    BY <1>2, <2>2, <2>3 DEF HandOver
<1>3. ASSUME NEW r \in Req, HistoryStep(r)
      PROVE  JobInv'
  <2>1. ASSUME NEW q \in Req
        PROVE  /\ who'[q] = who[q] /\ batch'[q] = batch[q]
               /\ job[q] # "idle" \/ job'[q] = "idle"
               /\ job'[q] \in {"read", "insert"} => who[q] \in User
    <3>1. CASE Hist!Validate(r)
      BY <1>0, <3>1 DEF Hist!Validate, Hist!Valid, JobInv
    <3>2. CASE Hist!Read(r)
      BY <1>0, <3>2 DEF Hist!Read, JobInv
    <3>3. CASE Hist!Insert(r)
      BY <1>0, <3>3 DEF Hist!Insert, JobInv
    <3>4. QED
      BY <1>3, <3>1, <3>2, <3>3 DEF HistoryStep, Hist!Step
  <2>2. QED
    BY <1>1, <2>1 DEF JobInv, Range
<1>4. CASE Exit \/ Crash
  <2>1. /\ UNCHANGED <<who, batch>>
        /\ \A q \in Req : job'[q] = job[q] \/ (job'[q] = "killed" /\ job[q] # "idle")
    BY <1>4 DEF Exit, Crash, EndProcess, Hist!Halt, Hist!Running
  <2>2. QED
    BY <1>0, <1>1, <2>1 DEF JobInv, Range
<1>5. CASE UNCHANGED histVars
  BY <1>0, <1>1, <1>5 DEF histVars, JobInv, Range
<1>6. QED
  BY <1>2, <1>3, <1>4, <1>5 DEF Next, Ask, Respond, CacheStep, AskMy, MyStep, ReadHistory,
     ReadRows, MyFails, Signal, Restart, NodeMove, vars

\* Rows keep the requests they go back to; a new one goes back to the job that inserts it.
LEMMA RowStep ==
  ASSUME IInv, [Next]_vars
  PROVE  HistoryInv'
<1> SUFFICES ASSUME NEW row \in history'
             PROVE  /\ row[1] \in User
                    /\ \E r \in Req : /\ pc'[r] = "returned" /\ reply'[r] \in Handed
                                      /\ token'[r] = row[1] /\ row[2] \in Got(r)'
  BY DEF HistoryInv
<1>1. /\ row[1] \in User
      /\ \E r \in Req : /\ pc[r] = "returned" /\ reply[r] \in Handed
                        /\ token[r] = row[1] /\ row[2] \in Got(r)
  <2>1. CASE row \in history
    BY <2>1 DEF IInv, HistoryInv
  <2>2. CASE row \notin history
    <3>1. PICK r \in Req : Hist!Insert(r)
      BY <2>2, HistoryGrows
    <3>2. job[r] = "insert" /\ row[1] = who[r] /\ row[2] \in Range(batch[r])
      BY <2>2, <3>1, InsertAdds
    <3>3. QED
      BY <3>2 DEF IInv, JobInv
  <2>3. QED
    BY <2>1, <2>2
<1>2. QED
  BY <1>1, HandedStays

\* What was shown stays, in the tables and in the next answer.
LEMMA MyInvStep ==
  ASSUME IInv, [Next]_vars
  PROVE  SeenInv' /\ MyInv'
<1>0. /\ TypeOK /\ SeenInv /\ MyInv
      /\ transactions \subseteq transactions' /\ history \subseteq history'
  BY CacheStays, HistoryGrows DEF IInv
<1>1. ASSUME NEW m \in My, AskMy(m)
      PROVE  SeenInv' /\ MyInv'
  <2>1. PICK u \in LetIn :
          /\ asker' = [asker EXCEPT ![m] = u]
          /\ owed' = [owed EXCEPT ![m] = IF u \in User THEN seen[u] ELSE {}]
    BY <1>1 DEF AskMy
  <2>2. /\ my' = [my EXCEPT ![m] = "history"] /\ listed' = [listed EXCEPT ![m] = {}]
        /\ shown' = [shown EXCEPT ![m] = {}] /\ seen' = seen
    BY <1>1 DEF AskMy
  <2>3. /\ asker'[m] = u /\ owed'[m] = (IF u \in User THEN seen[u] ELSE {})
        /\ my'[m] = "history" /\ listed'[m] = {} /\ shown'[m] = {}
    BY <1>0, <2>1, <2>2 DEF TypeOK
  <2>4. \A t \in owed'[m] : t \in transactions' /\ <<asker'[m], t.hash>> \in history'
    BY <1>0, <2>3 DEF SeenInv
  <2>5. \A q \in My \ {m} : /\ asker'[q] = asker[q] /\ owed'[q] = owed[q] /\ my'[q] = my[q]
                            /\ listed'[q] = listed[q] /\ shown'[q] = shown[q]
    BY <1>0, <2>1, <2>2 DEF TypeOK
  <2>6. SeenInv'
    BY <1>0, <2>2 DEF SeenInv
  <2>7. QED
    BY <1>0, <2>3, <2>4, <2>5, <2>6 DEF MyInv
<1>2. ASSUME NEW m \in My, ReadHistory(m)
      PROVE  SeenInv' /\ MyInv'
  <2>1. /\ asker[m] \in User /\ listed' = [listed EXCEPT ![m] = OwnHashes(m)]
        /\ my' = [my EXCEPT ![m] = "rows"]
        /\ UNCHANGED <<cacheVars, histVars, asker, shown, seen, owed>>
        /\ my[m] = "history"
    BY <1>2 DEF ReadHistory
  <2>2. listed'[m] = OwnHashes(m) /\ my'[m] = "rows"
    BY <1>0, <2>1 DEF TypeOK
  <2>3. \A h \in listed[m] : h \in OwnHashes(m)
    BY <1>0 DEF MyInv, OwnHashes, Hist!HashesOf, TypeOK
  <2>4. \A t \in owed[m] : t.hash \in OwnHashes(m)
    <3>1. \A t \in owed[m] : t.hash \in Canonical
      BY <1>0, CacheFacts DEF IInv, MyInv, Cache!Row
    <3>2. QED
      BY <1>0, <3>1 DEF MyInv, OwnHashes, Hist!HashesOf
  <2>5. \A h \in listed'[m] : <<asker[m], h>> \in history
    BY <2>2 DEF OwnHashes, Hist!HashesOf
  <2>6. \A q \in My \ {m} : listed'[q] = listed[q] /\ my'[q] = my[q]
    BY <1>0, <2>1 DEF TypeOK
  <2>7. SeenInv'
    BY <1>0, <2>1 DEF SeenInv
  <2>8. history' = history /\ transactions' = transactions
    BY <2>1 DEF cacheVars, histVars
  <2>9. QED
    BY <1>0, <2>1, <2>2, <2>3, <2>4, <2>5, <2>6, <2>7, <2>8 DEF MyInv
<1>3. ASSUME NEW m \in My, ReadRows(m)
      PROVE  SeenInv' /\ MyInv'
  <2>1. /\ my[m] = "rows" /\ shown' = [shown EXCEPT ![m] = RowsOf(m)]
        /\ seen' = [seen EXCEPT ![asker[m]] = @ \cup RowsOf(m)]
        /\ my' = [my EXCEPT ![m] = "sent"]
        /\ UNCHANGED <<cacheVars, histVars, asker, listed, owed>>
    BY <1>3 DEF ReadRows
  <2>2. shown'[m] = RowsOf(m) /\ my'[m] = "sent"
    BY <1>0, <2>1 DEF TypeOK
  <2>3. \A t \in RowsOf(m) : /\ t \in transactions /\ t.hash \in listed[m]
                             /\ <<asker[m], t.hash>> \in history
    BY <1>0 DEF RowsOf, MyInv
  <2>4. owed[m] \subseteq RowsOf(m)
    BY <1>0, <2>1 DEF RowsOf, MyInv
  <2>5. \A q \in My \ {m} : shown'[q] = shown[q] /\ my'[q] = my[q]
    BY <1>0, <2>1 DEF TypeOK
  <2>6. history' = history /\ transactions' = transactions
    BY <2>1 DEF cacheVars, histVars
  <2>7. \A u \in User : \A t \in seen'[u] : t \in seen[u] \/ (u = asker[m] /\ t \in RowsOf(m))
    BY <1>0, <2>1 DEF TypeOK
  <2>8. SeenInv'
    BY <1>0, <2>3, <2>6, <2>7 DEF SeenInv
  <2>9. QED
    BY <1>0, <2>1, <2>2, <2>3, <2>4, <2>5, <2>6, <2>8 DEF MyInv
<1>4. ASSUME UNCHANGED <<asker, listed, shown, seen, owed>>,
             \A m \in My : my'[m] = my[m] \/ my'[m] \in {"failed", "dead"}
      PROVE  SeenInv' /\ MyInv'
  <2>1. SeenInv'
    BY <1>0, <1>4 DEF SeenInv
  <2>2. MyInv'
    BY <1>0, <1>4 DEF MyInv
  <2>3. QED
    BY <2>1, <2>2
<1>5. ASSUME NEW m \in My, MyFails(m)
      PROVE  SeenInv' /\ MyInv'
  <2>1. \A q \in My : my'[q] = my[q] \/ my'[q] = "failed"
    BY <1>0, <1>5 DEF MyFails, TypeOK
  <2>2. QED
    BY <1>4, <1>5, <2>1 DEF MyFails
<1>6. CASE Exit \/ Crash
  <2>1. \A q \in My : my'[q] = my[q] \/ my'[q] = "dead"
    BY <1>0, <1>6 DEF Exit, Crash, EndProcess, TypeOK
  <2>2. QED
    BY <1>4, <1>6, <2>1 DEF Exit, Crash, EndProcess
<1>7. CASE UNCHANGED myVars
  BY <1>4, <1>7 DEF myVars
<1>8. QED
  BY <1>1, <1>2, <1>3, <1>5, <1>6, <1>7 DEF Next, Ask, HandOver, Respond, CacheStep,
     HistoryStep, MyStep, Signal, Restart, NodeMove, vars

\* Nobody has asked for anything yet.
LEMMA InitInv == Init => IInv
<1> SUFFICES ASSUME Init PROVE IInv
  OBVIOUS
<1>1. CP!IInv
  BY CacheInit, CP!InitInv, ServiceAssumption DEF Init
<1>2. /\ TypeOK /\ history = {} /\ job = [r \in Req |-> "idle"]
      /\ who = [r \in Req |-> "stranger"] /\ batch = [r \in Req |-> <<>>]
      /\ known = [r \in Req |-> {}]
  BY DEF Init, Hist!Init, TypeOK
<1>3. Shape /\ JobInv /\ HistoryInv
  BY <1>2 DEF Shape, JobInv, HistoryInv
<1>4. SeenInv /\ MyInv
  BY DEF Init, SeenInv, MyInv
<1>5. QED
  BY <1>1, <1>2, <1>3, <1>4 DEF IInv

\* The cache, the histories and the handlers, with what they know of each other.
THEOREM Inductive == Spec => []IInv
<1>1. IInv /\ [Next]_vars => IInv'
  <2> SUFFICES ASSUME IInv, [Next]_vars PROVE IInv'
    OBVIOUS
  <2>1. CP!IInv'
    BY CacheNext, CP!TypeStep, CP!TableStep, CP!ChainStep, CP!FreshStep, CP!RecordStep,
       CP!AccountStep, CP!SavedStep, CP!AskedStep, CP!SourceStep, CP!RefusedStep,
       ServiceAssumption DEF IInv, CP!IInv
  <2>2. QED
    BY <2>1, TypeStep, JobStep, RowStep, MyInvStep DEF IInv
<1>2. QED
  BY <1>1, InitInv, PTL DEF Spec

\* The handlers and what users are shown stay within their types.
THEOREM TypeCorrect == Spec => []TypeOK
<1>1. IInv => TypeOK
  BY DEF IInv
<1>2. QED
  BY <1>1, Inductive, PTL

\* A history holds only what a request with its user's token has brought back.
THEOREM OnlyReturned == Spec => []HistoryWasReturned
<1>1. IInv => HistoryWasReturned
  BY DEF IInv, HistoryInv, HistoryWasReturned, Got, Handed
<1>2. QED
  BY <1>1, Inductive, PTL

\* A user is shown only what his own requests have asked for and got, on chain at some time.
THEOREM OwnShown == Spec => []MyShowsOwn
<1>1. IInv => MyShowsOwn
  <2> SUFFICES ASSUME IInv, NEW m \in My, NEW t \in shown[m]
               PROVE  /\ t.block \in mined[t.hash]
                      /\ \E r \in Req : /\ token[r] = asker[m]
                                        /\ t.hash \in Got(r)
                                        /\ \E i \in DOMAIN hashes[r] :
                                              HexToHash[hashes[r][i]] = t.hash
    BY DEF MyShowsOwn, Got
  <2>1. t \in transactions /\ <<asker[m], t.hash>> \in history
    BY DEF IInv, MyInv
  <2>2. t.block \in mined[t.hash]
    BY <2>1, CacheFacts DEF IInv
  <2>3. PICK r \in Req : token[r] = asker[m] /\ t.hash \in Got(r)
    BY <2>1 DEF IInv, HistoryInv
  <2>4. \E i \in DOMAIN hashes[r] : HexToHash[hashes[r][i]] = t.hash
    BY <2>3, CacheFacts DEF IInv
  <2>5. QED
    BY <2>2, <2>3, <2>4
<1>2. QED
  BY <1>1, Inductive, PTL

\* What was shown once is shown again with the same record, through reorganisations, refused
\* inserts, crashes and restarts.
THEOREM NeverShrinks == Spec => []MyNeverShrinks
<1>1. IInv => MyNeverShrinks
  BY DEF IInv, MyInv, MyNeverShrinks
<1>2. QED
  BY <1>1, Inductive, PTL

-----------------------------------------------------------------------------
(* What is proved of the cache holds in the service *)

\* The reply to a request for transactions accounts for every string, has one record per
\* transaction, agrees with every other reply, and is cached or refused for a reason,
\* although the process drains, crashes and comes back between any two steps.
THEOREM CacheKeepsWord ==
    Spec => [](/\ CP!EveryHashAccounted /\ CP!CacheAgrees /\ CP!OneRecordEach
               /\ CP!SingleIsCached /\ CP!RefusedForAReason)
<1>1. CP!Spec => [](/\ CP!EveryHashAccounted /\ CP!CacheAgrees /\ CP!OneRecordEach
                    /\ CP!SingleIsCached /\ CP!RefusedForAReason)
  BY CP!Accounted, CP!Agreement, CP!OneEach, CP!SinglesCached, CP!ReasonedRefusals,
     ServiceAssumption, PTL
<1>2. QED
  BY <1>1, ImplementsTxCache, PTL

\* The table of the service is written once.
THEOREM CacheKeepsPromise == Spec => CP!KeepsPromise
BY ImplementsTxCache, CP!ImplementsPromise, ServiceAssumption, PTL

-----------------------------------------------------------------------------
(* Two ways to the same rows *)

\* The records that users have been served from the table, by either handler.
FromTable ==
    UNION ({dbTxs[r] : r \in Req} \cup {shown[m] : m \in My} \cup {seen[u] : u \in User})

\* Whoever asks, by /lime/eth or by /lime/my, now or earlier, is served the same record of a
\* transaction.
AnswersAgree == \A t, u \in FromTable : t.hash = u.hash => t = u

\* Every row that either handler serves is in the table, which has one row per hash for good.
THEOREM ServedAlike == Spec => []AnswersAgree
<1>1. IInv => AnswersAgree
  <2> SUFFICES ASSUME IInv
               PROVE  FromTable \subseteq transactions
    BY DEF AnswersAgree, IInv, CP!IInv, CP!TableInv, CP!OneRowPerHash
  <2>1. \A r \in Req : dbTxs[r] \subseteq transactions
    BY CacheFacts DEF IInv
  <2>2. \A m \in My : shown[m] \subseteq transactions
    BY DEF IInv, MyInv
  <2>3. \A u \in User : seen[u] \subseteq transactions
    BY DEF IInv, SeenInv
  <2>4. QED
    BY <2>1, <2>2, <2>3 DEF FromTable
<1>2. QED
  BY <1>1, Inductive, PTL

\* What /lime/my leaves out of a history was fetched from the node by a request of that user
\* whose save is under way, was refused, or failed or died: nothing else hides a row.
HiddenWasNotSaved ==
    \A row \in history : row[2] \notin Cache!Keys(transactions) =>
        \E r \in Req : /\ token[r] = row[1]
                       /\ \E i \in DOMAIN nodeTxs[r] : nodeTxs[r][i].hash = row[2]
                       /\ save[r] \in {"running", "rejected", "failed", "killed"}

\* It rests on where a history's rows come from and on SaveFollows.
THEOREM WhyHidden == Spec => []HiddenWasNotSaved
<1>1. IInv /\ CP!FetchedIsSaved => HiddenWasNotSaved
  <2> SUFFICES ASSUME IInv, CP!FetchedIsSaved, NEW row \in history,
                      row[2] \notin Cache!Keys(transactions)
               PROVE  \E r \in Req :
                         /\ token[r] = row[1]
                         /\ \E i \in DOMAIN nodeTxs[r] : nodeTxs[r][i].hash = row[2]
                         /\ save[r] \in {"running", "rejected", "failed", "killed"}
    BY DEF HiddenWasNotSaved
  <2>1. PICK r \in Req : pc[r] = "returned" /\ token[r] = row[1] /\ row[2] \in Got(r)
    BY DEF IInv, HistoryInv
  <2>2. \A t \in dbTxs[r] : t.hash \in Cache!Keys(transactions)
    BY CacheFacts DEF IInv, Cache!Keys
  <2>3. PICK i \in DOMAIN nodeTxs[r] : nodeTxs[r][i].hash = row[2]
    BY <2>1, <2>2 DEF Got, Cache!Keys, Cache!Records, Cache!Range
  <2>4. save[r] # "none"
    BY <2>1, <2>3 DEF CP!FetchedIsSaved
  <2>5. save[r] # "saved"
    <3>1. nodeTxs[r][i].hash \in CP!Range(CP!NodeKeys(r))
      BY DEF CP!NodeKeys, CP!Range
    <3>2. CP!Keys(transactions) = Cache!Keys(transactions)
      BY DEF CP!Keys, Cache!Keys
    <3>3. QED
      BY <2>3, <3>1, <3>2 DEF IInv, CP!IInv, CP!SavedInv
  <2>6. save[r] \in {"none", "running", "saved", "rejected", "failed", "killed"}
    BY DEF IInv, CP!IInv, CP!TypeOK
  <2>7. QED
    BY <2>1, <2>3, <2>4, <2>5, <2>6
<1>2. Spec => []CP!FetchedIsSaved
  BY ImplementsTxCache, CP!SaveFollows, ServiceAssumption, PTL
<1>3. QED
  BY <1>1, <1>2, Inductive, PTL

-----------------------------------------------------------------------------
(* The service implements the histories *)

\* The lists of hashes that a reply may carry: finite, and not empty.
Places == ({0} \X Canonical) \cup ({1} \X Nat)
Replies == UNION {[D -> Canonical] : D \in {S \in SUBSET Places : S # {} /\ IsFiniteSet(S)}}

\* The recording jobs of the service, with the proofs about them.
UP == INSTANCE UserHistoryProofs WITH
    Job <- Req, Hash <- Canonical, Batches <- Replies, Faults <- Faults \cup {"halt"}

LEMMA ReplyShape ==
  ASSUME NEW b \in Replies
  PROVE  DOMAIN b # {} /\ IsFiniteSet(DOMAIN b) /\ Range(b) \subseteq Canonical
<1>1. PICK D \in SUBSET Places : D # {} /\ IsFiniteSet(D) /\ b \in [D -> Canonical]
  BY DEF Replies
<1>2. QED
  BY <1>1 DEF Range

\* The assumption that UserHistory makes of its constants.
LEMMA JobsAssumed ==
  /\ "stranger" \notin User
  /\ \A b \in Replies :
        DOMAIN b # {} /\ UP!IsFiniteSet(DOMAIN b) /\ UP!Range(b) \subseteq Canonical
<1>1. ASSUME NEW b \in Replies
      PROVE  DOMAIN b # {} /\ UP!IsFiniteSet(DOMAIN b) /\ UP!Range(b) \subseteq Canonical
  BY ReplyShape DEF IsFiniteSet, UP!IsFiniteSet, Range, UP!Range
<1>2. QED
  BY <1>1, ServiceAssumption

\* What a call returns, a finite list of hashes for a finite list of strings.
LEMMA ReturnedShape ==
  ASSUME CP!IInv, NEW r \in Req, DOMAIN Returned(r) # {}
  PROVE  Returned(r) \in Replies
<1> DEFINE s == hashes[r]
<1>1. s \in Seq(Hash)
  BY CP!ListType, ServiceAssumption DEF CP!IInv
<1>2. IsFiniteSet(DOMAIN s)
  <2>1. DOMAIN s = 1..Len(s) /\ Len(s) \in Nat
    BY <1>1
  <2>2. 1 \in Int /\ Len(s) \in Int
    BY <2>1
  <2>3. IsFiniteSet(1..Len(s))
    BY <2>2, FS_Interval, Zenon
  <2>4. QED
    BY <2>1, <2>3
<1>3. IsFiniteSet(Range(s))
  <2>1. [i \in DOMAIN s |-> s[i]] \in Surjection(DOMAIN s, Range(s))
    BY DEF Surjection, Range
  <2>2. QED
    BY <1>2, <2>1, FS_Surjection, Zenon
<1> HIDE DEF s
<1>4. Cache!Keys(dbTxs[r]) \subseteq Range(s) /\ Cache!Keys(dbTxs[r]) \subseteq Canonical
  <2>1. Cache!Keys(dbTxs[r]) \subseteq Range(s)
    BY DEF CP!IInv, CP!AskedInv, CP!Keys, Cache!Keys, CP!Range, Range, s
  <2>2. Cache!Keys(dbTxs[r]) \subseteq Canonical
    BY CacheFacts DEF Cache!Keys, Cache!Row
  <2>3. QED
    BY <2>1, <2>2
<1>5. DOMAIN nodeTxs[r] \subseteq DOMAIN s /\ DOMAIN nodeTxs[r] \subseteq Nat
  BY <1>1 DEF CP!IInv, CP!TypeOK, s
<1>6. IsFiniteSet({0} \X Cache!Keys(dbTxs[r])) /\ IsFiniteSet({1} \X DOMAIN nodeTxs[r])
  <2>1. IsFiniteSet(Cache!Keys(dbTxs[r])) /\ IsFiniteSet(DOMAIN nodeTxs[r])
    BY <1>2, <1>3, <1>4, <1>5, FS_Subset
  <2>2. IsFiniteSet({0}) /\ IsFiniteSet({1})
    BY FS_Singleton
  <2>3. QED
    BY <2>1, <2>2, FS_Product
<1>7. DOMAIN Returned(r) = ({0} \X Cache!Keys(dbTxs[r])) \cup ({1} \X DOMAIN nodeTxs[r])
  BY DEF Returned
<1>8. IsFiniteSet(DOMAIN Returned(r))
  <2>1. IsFiniteSet(({0} \X Cache!Keys(dbTxs[r])) \cup ({1} \X DOMAIN nodeTxs[r]))
    BY <1>6, FS_Union, Zenon
  <2>2. QED
    BY <1>7, <2>1
<1>9. DOMAIN Returned(r) \in SUBSET Places
  <2>1. {0} \X Cache!Keys(dbTxs[r]) \subseteq {0} \X Canonical
    BY <1>4
  <2>2. {1} \X DOMAIN nodeTxs[r] \subseteq {1} \X Nat
    BY <1>5
  <2>3. QED
    BY <1>7, <2>1, <2>2 DEF Places
<1>10. Returned(r) \in [DOMAIN Returned(r) -> Canonical]
  <2>1. \A k \in DOMAIN Returned(r) : Returned(r)[k] \in Canonical
    BY ReturnedIsGot, CacheFacts DEF Range
  <2>2. Returned(r) = [k \in DOMAIN Returned(r) |-> Returned(r)[k]]
    BY <1>7 DEF Returned
  <2>3. QED
    BY <2>1, <2>2
<1>11. QED
  BY <1>8, <1>9, <1>10 DEF Replies

\* A step of a recording job is the same step in UserHistory.
LEMMA JobStepSame ==
  ASSUME NEW r \in Req, Hist!Step(r)
  PROVE  UP!Step(r)
<1>1. CASE Hist!Validate(r)
  BY <1>1 DEF Hist!Validate, UP!Validate, UP!Step, Hist!Valid, UP!Valid
<1>2. CASE Hist!Read(r)
  BY <1>2 DEF Hist!Read, UP!Read, UP!Step, Hist!OwnHashes, UP!OwnHashes, Hist!HashesOf,
     UP!HashesOf
<1>3. CASE Hist!Insert(r)
  <2>1. Hist!Fresh(r) = UP!Fresh(r)
    BY DEF Hist!Fresh, UP!Fresh
  <2>2. Hist!Unique(r) <=> UP!Unique(r)
    BY <2>1 DEF Hist!Unique, UP!Unique, Hist!Accepts, UP!Accepts, Hist!HashesOf, UP!HashesOf,
       Hist!IsInjective, UP!IsInjective, Hist!Range, UP!Range
  <2>3. Hist!Range(Hist!Fresh(r)) = UP!Range(UP!Fresh(r))
    BY <2>1 DEF Hist!Range, UP!Range
  <2>4. QED
    BY <1>3, <2>2, <2>3 DEF Hist!Insert, UP!Insert, UP!Step
<1>4. QED
  BY <1>1, <1>2, <1>3 DEF Hist!Step

\* A handler starts a job with what it returns; the end of the process ends the jobs.
LEMMA JobsNext == IInv /\ [Next]_vars => [UP!Next]_(UP!vars)
<1> SUFFICES ASSUME IInv, [Next]_vars
             PROVE  UP!Next \/ UNCHANGED UP!vars
  OBVIOUS
<1> USE DEF UP!vars, histVars
<1>1. ASSUME NEW r \in Req, HandOver(r)
      PROVE  UP!Next \/ UNCHANGED UP!vars
  <2>1. CASE token[r] # "anonymous" /\ DOMAIN Returned(r) # {}
    <3>1. Hist!Start(r, token[r], Returned(r))
      BY <1>1, <2>1 DEF HandOver
    <3>2. UP!Start(r, token[r], Returned(r))
      BY <3>1 DEF Hist!Start, UP!Start
    <3>3. token[r] \in User \cup {"stranger"} /\ Returned(r) \in Replies
      BY <2>1, ReturnedShape DEF IInv, TypeOK
    <3>4. QED
      BY <3>2, <3>3 DEF UP!Next
  <2>2. CASE UNCHANGED histVars
    BY <2>2
  <2>3. QED
    BY <1>1, <2>1, <2>2 DEF HandOver
<1>2. ASSUME NEW r \in Req, HistoryStep(r)
      PROVE  UP!Next
  BY <1>2, JobStepSame DEF HistoryStep, UP!Next
<1>3. CASE Exit \/ Crash
  <2>1. Hist!Halt
    BY <1>3 DEF Exit, Crash, EndProcess
  <2>2. UP!Halt
    BY <2>1 DEF Hist!Halt, UP!Halt, Hist!Running, UP!Running
  <2>3. QED
    BY <2>2 DEF UP!Next
<1>4. ASSUME NEW r \in Req, Ask(r) \/ Respond(r) \/ CacheStep(r)
      PROVE  UNCHANGED UP!vars
  BY <1>4 DEF Ask, Respond, CacheStep
<1>5. ASSUME NEW m \in My, AskMy(m) \/ MyStep(m)
      PROVE  UNCHANGED UP!vars
  BY <1>5 DEF AskMy, MyStep, ReadHistory, ReadRows, MyFails
<1>6. CASE Signal \/ Restart
  BY <1>6 DEF Signal, Restart
<1>7. ASSUME NEW t \in Canonical, NodeMove(t)
      PROVE  UNCHANGED UP!vars
  BY <1>7 DEF NodeMove
<1>8. CASE UNCHANGED vars
  BY <1>8 DEF vars
<1>9. QED
  BY <1>1, <1>2, <1>3, <1>4, <1>5, <1>6, <1>7, <1>8 DEF Next

\* The recording goroutines of the service, started by its handlers with what the cache
\* returned and killed with the process, are an instance of UserHistory.
THEOREM ImplementsUserHistory == Spec => UP!Spec
<1>1. Init => UP!Init
  BY DEF Init, Hist!Init, UP!Init
<1>2. IInv /\ [Next]_vars => [UP!Next]_(UP!vars)
  BY JobsNext
<1>3. QED
  BY <1>1, <1>2, Inductive, PTL DEF Spec, UP!Spec

\* So histories show only what requests of their user have recorded, and a batch that was
\* recorded, or a refused batch of one hash, is there for good.
THEOREM HistoriesKeepWord ==
    Spec => [](/\ UP!OwnRequestsOnly /\ UP!RecordedIsThere /\ UP!SingleIsThere
               /\ UP!RefusedForAReason)
<1>1. UP!Spec => [](/\ UP!OwnRequestsOnly /\ UP!RecordedIsThere /\ UP!SingleIsThere
                    /\ UP!RefusedForAReason)
  BY UP!OwnOnly, UP!BatchRecorded, UP!SinglesRecorded, UP!ReasonedRefusals, JobsAssumed, PTL
<1>2. QED
  BY <1>1, ImplementsUserHistory, PTL

\* The histories of the service are a ledger: all of a reply is recorded or none of it, and
\* nothing goes away.
THEOREM HistoriesKeepLedger == Spec => UP!KeepsLedger
BY ImplementsUserHistory, UP!ImplementsLedger, JobsAssumed, PTL

-----------------------------------------------------------------------------
(* A recorded reply is in the history *)

\* The batch of a job is all that its request's call has returned.
BatchInv == \A r \in Req : job[r] # "idle" => Got(r) \subseteq Range(batch[r])

LEMMA GotIsReturned ==
  ASSUME NEW r \in Req
  PROVE  Got(r) \subseteq Range(Returned(r))
<1> SUFFICES ASSUME NEW h \in Got(r)
             PROVE  \E k \in DOMAIN Returned(r) : Returned(r)[k] = h
  BY DEF Range
<1>1. DOMAIN Returned(r) = ({0} \X Cache!Keys(dbTxs[r])) \cup ({1} \X DOMAIN nodeTxs[r])
  BY DEF Returned
<1>2. CASE h \in Cache!Keys(dbTxs[r])
  <2>1. <<0, h>> \in DOMAIN Returned(r)
    BY <1>1, <1>2
  <2>2. Returned(r)[<<0, h>>] = h
    BY <2>1 DEF Returned
  <2>3. QED
    BY <2>1, <2>2
<1>3. ASSUME NEW i \in DOMAIN nodeTxs[r], h = nodeTxs[r][i].hash
      PROVE  \E k \in DOMAIN Returned(r) : Returned(r)[k] = h
  <2>1. <<1, i>> \in DOMAIN Returned(r)
    BY <1>1
  <2>2. Returned(r)[<<1, i>>] = h
    BY <1>3, <2>1 DEF Returned
  <2>3. QED
    BY <2>1, <2>2
<1>4. QED
  BY <1>2, <1>3 DEF Got, Cache!Keys, Cache!Records, Cache!Range

\* A job that has started keeps its batch, and starts with the whole reply.
LEMMA BatchStep == IInv /\ BatchInv /\ [Next]_vars => BatchInv'
<1> SUFFICES ASSUME IInv, BatchInv, [Next]_vars, NEW r \in Req, job'[r] # "idle"
             PROVE  Got(r)' \subseteq Range(batch'[r])
  BY DEF BatchInv, Range
<1>0. Shape
  BY DEF IInv
<1>1. ASSUME HandOver(r), job[r] = "idle"
      PROVE  Got(r)' \subseteq Range(batch'[r])
  <2>1. Hist!Start(r, token[r], Returned(r))
    BY <1>1 DEF HandOver, histVars
  <2>2. batch'[r] = Returned(r)
    BY <1>0, <2>1 DEF Hist!Start, Shape
  <2>3. Got(r)' = Got(r)
    BY <1>1 DEF HandOver, cacheVars, Got, Cache!Keys, Cache!Records, Cache!Range
  <2>4. QED
    BY <2>2, <2>3, GotIsReturned
<1>2. ASSUME job[r] # "idle", batch'[r] = batch[r]
      PROVE  Got(r)' \subseteq Range(batch'[r])
  <2>1. Got(r)' = Got(r)
    BY <1>2, CacheStays DEF IInv, JobInv
  <2>2. QED
    BY <1>2, <2>1 DEF BatchInv
<1>3. ASSUME NEW q \in Req, HandOver(q), q # r \/ job[r] # "idle"
      PROVE  job[r] # "idle" /\ batch'[r] = batch[r]
  <2>1. CASE UNCHANGED histVars
    BY <1>3, <2>1 DEF histVars
  <2>2. CASE Hist!Start(q, token[q], Returned(q))
    BY <1>0, <1>3, <2>2 DEF Hist!Start, Shape
  <2>3. QED
    BY <1>3, <2>1, <2>2 DEF HandOver
<1>4. ASSUME NEW q \in Req, HistoryStep(q)
      PROVE  job[r] # "idle" /\ batch'[r] = batch[r]
  BY <1>0, <1>4 DEF HistoryStep, Hist!Step, Hist!Validate, Hist!Read, Hist!Insert, Shape
<1>5. CASE Exit \/ Crash
  <2>1. Hist!Halt
    BY <1>5 DEF Exit, Crash, EndProcess
  <2>2. batch' = batch /\ (job[r] = "idle" => job'[r] = "idle")
    BY <2>1 DEF Hist!Halt, Hist!Running
  <2>3. QED
    BY <1>2, <2>2
<1>6. CASE UNCHANGED histVars
  BY <1>2, <1>6 DEF histVars
<1>7. QED
  BY <1>1, <1>2, <1>3, <1>4, <1>5, <1>6 DEF Next, Ask, Respond, CacheStep, AskMy, MyStep,
     ReadHistory, ReadRows, MyFails, Signal, Restart, NodeMove, vars

\* When the goroutine that a handler left behind has recorded, every transaction of that
\* handler's reply is in the history of the user whose token the request carried.
ReplyRecorded ==
    \A r \in Req : job[r] = "recorded" => \A h \in Got(r) : <<token[r], h>> \in history

\* The handler passes on the whole reply (BatchInv), and a recorded batch is there.
THEOREM RepliesRecorded == Spec => []ReplyRecorded
<1>1. Init => BatchInv
  BY DEF Init, Hist!Init, BatchInv
<1>2. IInv /\ BatchInv /\ [Next]_vars => BatchInv'
  BY BatchStep
<1>3. IInv /\ BatchInv /\ UP!RecordedIsThere => ReplyRecorded
  <2> SUFFICES ASSUME IInv, BatchInv, UP!RecordedIsThere,
                      NEW r \in Req, job[r] = "recorded", NEW h \in Got(r)
               PROVE  <<token[r], h>> \in history
    BY DEF ReplyRecorded
  <2>1. who[r] = token[r]
    BY DEF IInv, JobInv
  <2>2. h \in UP!Range(batch[r])
    BY DEF BatchInv, Range, UP!Range
  <2>3. QED
    BY <2>1, <2>2 DEF UP!RecordedIsThere, UP!Rows
<1>4. Spec => []UP!RecordedIsThere
  BY ImplementsUserHistory, UP!BatchRecorded, JobsAssumed, PTL
<1>5. QED
  BY <1>1, <1>2, <1>3, <1>4, Inductive, PTL DEF Spec
=============================================================================
