---------------------------- MODULE TxCacheProofs ----------------------------
(***************************************************************************)
(* Proofs about TxCache, for every set of requests, every list they may    *)
(* carry (repetitions and aliases included) and every fault.               *)
(***************************************************************************)
EXTENDS TxCache, FiniteSetTheorems, FunctionTheorems, TLAPS

\* The unique index, as a fact about the rows.
OneRowPerHash(rows) == \A t, u \in rows : t.hash = u.hash => t = u

\* The table has one row per hash, and every row was on chain.
TableInv == OneRowPerHash(transactions) /\ CachedWasMined

\* What the node has now it has had.
ChainInv == \A t \in Canonical : node[t] \in Block => node[t] \in mined[t]

\* A call that has not looked up yet holds nothing, and only a call that has returned may
\* have a saving goroutine.
FreshInv ==
    \A r \in Req :
        /\ pc[r] = "idle" => hashes[r] = <<>>
        /\ pc[r] \in {"idle", "lookup"} => dbTxs[r] = {} /\ nodeTxs[r] = <<>> /\ errs[r] = {}
        /\ pc[r] = "lookup" => hashes[r] \in Lists
        /\ save[r] # "none" => pc[r] = "returned"

\* Rows that were found are still in the table; a fetched record is of the transaction its
\* string converts to, in a block it was in.
RecordInv ==
    \A r \in Req :
        /\ dbTxs[r] \subseteq transactions
        /\ \A i \in DOMAIN nodeTxs[r] :
              /\ nodeTxs[r][i].hash = HexToHash[hashes[r][i]]
              /\ nodeTxs[r][i].block \in mined[nodeTxs[r][i].hash]

\* A returned call has an answer, from the table or the node, or an error for each position.
AccountInv ==
    \A r \in Req : pc[r] = "returned" =>
        \A i \in DOMAIN hashes[r] :
            hashes[r][i] \in Keys(dbTxs[r]) \/ i \in DOMAIN nodeTxs[r] \/ i \in errs[r]

\* A save that was accepted has all its rows in the table.
SavedInv ==
    \A r \in Req : save[r] = "saved" => Range(NodeKeys(r)) \subseteq Keys(transactions)

\* Only positions that the lookup has missed are asked of the node, and it found only what
\* was asked for.
AskedInv ==
    \A r \in Req : /\ DOMAIN nodeTxs[r] \subseteq Missing(r)
                   /\ Keys(dbTxs[r]) \subseteq Range(hashes[r])

\* Every row was put into the table by a call whose save was accepted.
SourceInv ==
    \A t \in transactions :
        \E s \in Req : save[s] = "saved" /\ t.hash \in Range(NodeKeys(s))

\* nodeTxs is a function on the calls (TypeOK only bounds its values).
ShapeInv == nodeTxs = [r \in Req |-> nodeTxs[r]]

IInv == TypeOK /\ ShapeInv /\ TableInv /\ ChainInv /\ FreshInv /\ RecordInv /\ AccountInv
        /\ SavedInv /\ SingleIsCached /\ AskedInv /\ SourceInv /\ RefusedForAReason

-----------------------------------------------------------------------------

\* The early return of GetTransactions, by counting: if the table has one row per hash and
\* as many rows were found as strings asked for, then every string was found.
LEMMA CountDecides ==
  ASSUME NEW S, NEW s \in Seq(S), NEW rows, OneRowPerHash(rows),
         \A t \in rows : t.hash \in Range(s), Cardinality(rows) = Len(s)
  PROVE  \A i \in DOMAIN s : s[i] \in Keys(rows)
<1> DEFINE place == [t \in rows |-> CHOOSE i \in DOMAIN s : s[i] = t.hash]
<1>1. \A t \in rows : place[t] \in DOMAIN s /\ s[place[t]] = t.hash
  BY DEF Range
<1>2. DOMAIN s = 1..Len(s) /\ Len(s) \in Nat
  OBVIOUS
<1>3. place \in [rows -> 1..Len(s)]
  BY <1>1, <1>2
<1>4. \A t, u \in rows : place[t] = place[u] => t = u
  BY <1>1 DEF OneRowPerHash
<1> HIDE DEF place
<1>5. place \in Injection(rows, 1..Len(s))
  BY <1>3, <1>4 DEF Injection, IsInjective
<1>6. IsFiniteSet(1..Len(s)) /\ Cardinality(1..Len(s)) = Len(s)
  <2>1. 1 \in Int /\ Len(s) \in Int
    BY <1>2
  <2>2. /\ IsFiniteSet(1..Len(s))
        /\ Cardinality(1..Len(s)) = IF 1 > Len(s) THEN 0 ELSE Len(s) - 1 + 1
    BY <2>1, FS_Interval, Zenon
  <2>3. QED
    BY <1>2, <2>2
<1>7. place \in Surjection(rows, 1..Len(s))
  BY <1>5, <1>6, FS_Injection
<1>8. \A i \in DOMAIN s : \E t \in rows : place[t] = i
  BY <1>2, <1>7 DEF Surjection
<1>9. QED
  BY <1>1, <1>8 DEF Keys

\* Accepting a batch keeps one row per hash: this is what the unique index is for.
LEMMA AcceptKeepsIndex ==
  ASSUME NEW rows, NEW batch, OneRowPerHash(rows),
         Accepts(Keys(rows), [i \in DOMAIN batch |-> batch[i].hash])
  PROVE  OneRowPerHash(rows \cup Range(batch))
<1> DEFINE keys == [i \in DOMAIN batch |-> batch[i].hash]
<1>1. \A i, j \in DOMAIN batch : batch[i].hash = batch[j].hash => i = j
  <2>1. \A i, j \in DOMAIN keys : keys[i] = keys[j] => i = j
    BY DEF Accepts, IsInjective
  <2>2. QED
    BY <2>1
<1>2. \A i \in DOMAIN batch : \A t \in rows : batch[i].hash # t.hash
  <2>1. \A i \in DOMAIN batch : keys[i] \in Range(keys)
    BY DEF Range
  <2>2. Range(keys) \cap Keys(rows) = {}
    BY DEF Accepts
  <2>3. QED
    BY <2>1, <2>2 DEF Keys
<1>3. QED
  BY <1>1, <1>2 DEF OneRowPerHash, Range

\* A string of a call names a transaction, at each of its positions.
LEMMA ListType ==
  ASSUME TypeOK, NEW r \in Req
  PROVE  /\ hashes[r] \in Seq(Hash)
         /\ \A i \in DOMAIN hashes[r] : i \in Nat /\ hashes[r][i] \in Hash
                                         /\ HexToHash[hashes[r][i]] \in Canonical
<1>1. hashes[r] \in Seq(Hash)
  <2>1. <<>> \in Seq(Hash)
    OBVIOUS
  <2>2. hashes[r] \in Lists \/ hashes[r] = <<>>
    BY DEF TypeOK
  <2>3. QED
    BY <2>1, <2>2, CacheAssumption
<1>2. QED
  BY <1>1, CacheAssumption

-----------------------------------------------------------------------------
(* One step at a time *)

\* A record that is added has the hash of its position and a block of the node.
LEMMA FoundShape ==
  ASSUME IInv, NEW r \in Req, NEW i \in DOMAIN hashes[r], FetchFound(r, i)
  PROVE  LET t == HexToHash[hashes[r][i]]
         IN  /\ pc[r] = "fetch" /\ i \notin DOMAIN nodeTxs[r] /\ save[r] = "none"
             /\ t \in Canonical /\ node[t] \in Block /\ node[t] \in mined[t]
             /\ nodeTxs' = [nodeTxs EXCEPT ![r] = nodeTxs'[r]]
             /\ DOMAIN nodeTxs'[r] = DOMAIN nodeTxs[r] \cup {i}
             /\ nodeTxs'[r][i] = [hash |-> t, block |-> node[t]]
             /\ \A j \in DOMAIN nodeTxs[r] : nodeTxs'[r][j] = nodeTxs[r][j]
<1>1. HexToHash[hashes[r][i]] \in Canonical
  BY ListType DEF IInv
<1>2. pc[r] = "fetch" /\ i \notin DOMAIN nodeTxs[r] /\ save[r] = "none"
  BY DEF Receipt, Settled, FetchFound, Awaited, IInv, FreshInv
<1>3. PICK t \in Receipt(r, i) :
        nodeTxs' = [nodeTxs EXCEPT ![r] =
                      [j \in DOMAIN @ \cup {i} |-> IF j = i THEN t ELSE @[j]]]
  BY DEF FetchFound
<1>4. /\ t = [hash |-> HexToHash[hashes[r][i]], block |-> node[HexToHash[hashes[r][i]]]]
      /\ node[HexToHash[hashes[r][i]]] \in Block
  BY DEF Receipt, Row
<1>5. QED
  BY <1>1, <1>2, <1>3, <1>4 DEF IInv, ShapeInv, ChainInv

\* Types are kept by every step.
LEMMA TypeStep == IInv /\ [Next]_vars => TypeOK' /\ ShapeInv'
<1> SUFFICES ASSUME IInv, [Next]_vars
             PROVE  TypeOK' /\ ShapeInv'
  OBVIOUS
<1> USE DEF TypeOK, ShapeInv, chainVars, requestVars
<1>0. TypeOK /\ ShapeInv
  BY DEF IInv
<1>1. ASSUME NEW r \in Req, Receive(r)
      PROVE  TypeOK' /\ ShapeInv'
  <2>1. nodeTxs[r] = <<>>
    BY <1>1 DEF Receive, IInv, FreshInv
  <2>2. \A q \in Req : q # r => hashes'[q] = hashes[q]
    BY <1>1, <1>0 DEF Receive
  <2>3. DOMAIN nodeTxs'[r] = {} /\ Range(nodeTxs'[r]) = {}
    BY <1>1, <2>1 DEF Receive, Range
  <2>4. \A q \in Req : /\ DOMAIN nodeTxs'[q] \subseteq DOMAIN hashes'[q]
                       /\ Range(nodeTxs'[q]) \subseteq Row
    BY <1>0, <1>1, <2>2, <2>3 DEF Receive
  <2>5. QED
    BY <1>0, <1>1, <2>4 DEF Receive
<1>2. ASSUME NEW r \in Req, Lookup(r)
      PROVE  TypeOK' /\ ShapeInv'
  BY <1>0, <1>2 DEF Enough, Lookup, Found
<1>3. ASSUME NEW r \in Req, LookupFails(r)
      PROVE  TypeOK' /\ ShapeInv'
  BY <1>0, <1>3 DEF LookupFails
<1>4. ASSUME NEW r \in Req, NEW i \in DOMAIN hashes[r], FetchFound(r, i)
      PROVE  TypeOK' /\ ShapeInv'
  <2> DEFINE t == HexToHash[hashes[r][i]]
  <2>1. [hash |-> t, block |-> node[t]] \in Row
    BY <1>4, FoundShape DEF Row
  <2>2. /\ DOMAIN nodeTxs'[r] = DOMAIN nodeTxs[r] \cup {i}
        /\ nodeTxs'[r][i] \in Row
        /\ \A j \in DOMAIN nodeTxs[r] : nodeTxs'[r][j] = nodeTxs[r][j]
    BY <1>4, FoundShape, <2>1
  <2>3. \A j \in DOMAIN nodeTxs[r] : nodeTxs[r][j] \in Row
    BY <1>0 DEF Range
  <2>4. DOMAIN nodeTxs'[r] \subseteq DOMAIN hashes[r] /\ Range(nodeTxs'[r]) \subseteq Row
    BY <1>0, <2>2, <2>3 DEF Range
  <2>5. \A q \in Req : q # r => nodeTxs'[q] = nodeTxs[q]
    BY <1>0, <1>4 DEF Receipt, FetchFound
  <2>6. \A q \in Req : /\ DOMAIN nodeTxs'[q] \subseteq DOMAIN hashes[q]
                       /\ Range(nodeTxs'[q]) \subseteq Row
    BY <1>0, <2>4, <2>5
  <2>7. ShapeInv' /\ UNCHANGED <<transactions, node, mined, pc, hashes, dbTxs, errs, save>>
    BY <1>0, <1>4 DEF Receipt, FetchFound
  <2>8. TypeOK'
    BY <1>0, <2>6, <2>7
  <2>9. QED
    BY <2>7, <2>8
<1>5. ASSUME NEW r \in Req, NEW i \in DOMAIN hashes[r], FetchError(r, i)
      PROVE  TypeOK' /\ ShapeInv'
  BY <1>0, <1>5, ListType DEF FetchError
<1>6. ASSUME NEW r \in Req, Return(r)
      PROVE  TypeOK' /\ ShapeInv'
  BY <1>0, <1>6 DEF Settled, Return
<1>7. ASSUME NEW r \in Req, SaveTransactions(r)
      PROVE  TypeOK' /\ ShapeInv'
  BY <1>0, <1>7 DEF Unique, Refused, SaveTransactions
<1>8. CASE Halt
  BY <1>0, <1>8 DEF Halt
<1>9. ASSUME NEW t \in Canonical, NodeMove(t)
      PROVE  TypeOK' /\ ShapeInv'
  BY <1>0, <1>9 DEF NodeMove
<1>10. CASE UNCHANGED vars
  BY <1>0, <1>10 DEF vars
<1>11. QED
  BY <1>1, <1>2, <1>3, <1>4, <1>5, <1>6, <1>7, <1>8, <1>9, <1>10 DEF Next, Call

\* What was on chain stays in the history, and the history holds what the node has.
LEMMA ChainStep ==
  IInv /\ [Next]_vars =>
      ChainInv' /\ \A t \in Canonical : mined[t] \subseteq mined'[t]
<1> SUFFICES ASSUME IInv, [Next]_vars
             PROVE  ChainInv' /\ \A t \in Canonical : mined[t] \subseteq mined'[t]
  OBVIOUS
<1> USE DEF ChainInv
<1>1. ChainInv /\ TypeOK
  BY DEF IInv
<1>2. ASSUME NEW t \in Canonical, NodeMove(t)
      PROVE  ChainInv' /\ \A u \in Canonical : mined[u] \subseteq mined'[u]
  BY <1>1, <1>2 DEF NodeMove, TypeOK
<1>3. CASE UNCHANGED chainVars
  BY <1>1, <1>3 DEF chainVars
<1>4. QED
  BY <1>2, <1>3 DEF Enough, Receipt, Settled, Unique, Refused, Next, Call, vars, Receive,
       Lookup, LookupFails, FetchFound, FetchError,
     Return, SaveTransactions, Halt

\* Only an accepted save changes the table, and it only adds.
LEMMA TableStep ==
  IInv /\ [Next]_vars => TableInv' /\ transactions \subseteq transactions'
<1> SUFFICES ASSUME IInv, [Next]_vars
             PROVE  TableInv' /\ transactions \subseteq transactions'
  OBVIOUS
<1>1. TypeOK /\ TableInv /\ RecordInv
  BY DEF IInv
<1>2. \A t \in Canonical : mined[t] \subseteq mined'[t]
  BY ChainStep
<1>3. CASE UNCHANGED transactions
  <2>1. \A t \in transactions : t.block \in mined'[t.hash]
    BY <1>1, <1>2 DEF TypeOK, TableInv, CachedWasMined, Row
  <2>2. QED
    BY <1>1, <1>3, <2>1 DEF TableInv, CachedWasMined, OneRowPerHash
<1>4. ASSUME NEW r \in Req, SaveTransactions(r), transactions' # transactions
      PROVE  TableInv' /\ transactions \subseteq transactions'
  <2>1. /\ Accepts(Keys(transactions), NodeKeys(r))
        /\ transactions' = transactions \cup Range(nodeTxs[r]) /\ mined' = mined
    BY <1>4 DEF Unique, Refused, SaveTransactions, chainVars
  <2>2. OneRowPerHash(transactions')
    BY <1>1, <2>1, AcceptKeepsIndex DEF TableInv, NodeKeys
  <2>3. \A t \in Range(nodeTxs[r]) : t.block \in mined[t.hash]
    BY <1>1 DEF RecordInv, Range
  <2>4. CachedWasMined'
    BY <1>1, <2>1, <2>3 DEF TableInv, CachedWasMined
  <2>5. QED
    BY <2>1, <2>2, <2>4 DEF TableInv
<1>5. QED
  BY <1>3, <1>4 DEF Enough, Receipt, Settled, Next, Call, vars, Receive, Lookup, LookupFails,
       FetchFound, FetchError,
     Return, Halt, NodeMove

\* A call stays empty until its lookup, and only Return starts a save.
LEMMA FreshStep == IInv /\ [Next]_vars => FreshInv'
<1> SUFFICES ASSUME IInv, [Next]_vars
             PROVE  FreshInv'
  OBVIOUS
<1> USE DEF FreshInv, TypeOK, chainVars, requestVars
<1>0. TypeOK /\ FreshInv /\ ShapeInv
  BY DEF IInv
<1>1. ASSUME NEW r \in Req, Receive(r)
      PROVE  FreshInv'
  BY <1>0, <1>1 DEF Receive
<1>2. ASSUME NEW r \in Req, Lookup(r)
      PROVE  FreshInv'
  <2>1. pc'[r] \in {"returned", "fetch"} /\ save[r] = "none"
    BY <1>0, <1>2 DEF Enough, Lookup
  <2>2. QED
    BY <1>0, <1>2, <2>1 DEF Enough, Lookup
<1>3. ASSUME NEW r \in Req, LookupFails(r) \/ Return(r) \/ SaveTransactions(r)
      PROVE  FreshInv'
  BY <1>0, <1>3 DEF Settled, Unique, Refused, LookupFails, Return, SaveTransactions
<1>4. ASSUME NEW r \in Req, NEW i \in DOMAIN hashes[r], FetchFound(r, i) \/ FetchError(r, i)
      PROVE  FreshInv'
  <2>1. pc[r] = "fetch" /\ UNCHANGED <<pc, hashes, dbTxs, save>>
    BY <1>4 DEF Receipt, Settled, FetchFound, FetchError, Awaited
  <2>2. \A q \in Req : q # r => nodeTxs'[q] = nodeTxs[q] /\ errs'[q] = errs[q]
    BY <1>0, <1>4 DEF Receipt, FetchFound, FetchError, ShapeInv
  <2>3. QED
    BY <1>0, <2>1, <2>2
<1>5. CASE Halt
  BY <1>0, <1>5 DEF Halt
<1>6. ASSUME NEW t \in Canonical, NodeMove(t)
      PROVE  FreshInv'
  BY <1>0, <1>6 DEF NodeMove
<1>7. CASE UNCHANGED vars
  BY <1>0, <1>7 DEF vars
<1>8. QED
  BY <1>1, <1>2, <1>3, <1>4, <1>5, <1>6, <1>7 DEF Next, Call

\* A call keeps the rows it found, which stay in the table, and the records it fetched.
LEMMA RecordStep == IInv /\ [Next]_vars => RecordInv'
<1> SUFFICES ASSUME IInv, [Next]_vars, NEW r \in Req
             PROVE  /\ dbTxs'[r] \subseteq transactions'
                    /\ \A i \in DOMAIN nodeTxs'[r] :
                          /\ nodeTxs'[r][i].hash = HexToHash[hashes'[r][i]]
                          /\ nodeTxs'[r][i].block \in mined'[nodeTxs'[r][i].hash]
  BY DEF RecordInv
<1>0. TypeOK /\ ShapeInv /\ FreshInv /\ RecordInv
  BY DEF IInv
<1>1. transactions \subseteq transactions' /\ \A t \in Canonical : mined[t] \subseteq mined'[t]
  BY TableStep, ChainStep
<1>2. dbTxs'[r] \subseteq transactions'
  <2>1. ASSUME NEW q \in Req, Lookup(q)
        PROVE  dbTxs'[r] \subseteq transactions'
    BY <1>0, <1>1, <2>1 DEF Enough, Lookup, Found, RecordInv, TypeOK
  <2>2. CASE UNCHANGED dbTxs
    BY <1>0, <1>1, <2>2 DEF RecordInv
  <2>3. QED
    BY <2>1, <2>2 DEF Receipt, Settled, Unique, Refused, Next, Call, vars, Receive,
         LookupFails, FetchFound, FetchError,
       Return, SaveTransactions, Halt, NodeMove, requestVars
<1>3. \A i \in DOMAIN nodeTxs[r] : nodeTxs[r][i].hash \in Canonical
  BY <1>0 DEF TypeOK, Range, Row
<1>4. CASE nodeTxs'[r] = nodeTxs[r]
  <2>1. \A i \in DOMAIN nodeTxs[r] : nodeTxs[r][i].block \in mined'[nodeTxs[r][i].hash]
    BY <1>0, <1>1, <1>3 DEF RecordInv
  <2>2. CASE nodeTxs[r] = <<>>
    BY <1>2, <1>4, <2>2
  <2>3. CASE hashes'[r] = hashes[r]
    BY <1>0, <1>2, <1>4, <2>1, <2>3 DEF RecordInv
  <2>4. nodeTxs[r] = <<>> \/ hashes'[r] = hashes[r]
    BY <1>0 DEF Enough, Receipt, Settled, Unique, Refused, Next, Call, vars, Receive, Lookup,
         LookupFails, FetchFound, FetchError,
       Return, SaveTransactions, Halt, NodeMove, requestVars, FreshInv, TypeOK
  <2>5. QED
    BY <2>2, <2>3, <2>4
<1>5. ASSUME NEW i \in DOMAIN hashes[r], FetchFound(r, i)
      PROVE  \A j \in DOMAIN nodeTxs'[r] :
                /\ nodeTxs'[r][j].hash = HexToHash[hashes'[r][j]]
                /\ nodeTxs'[r][j].block \in mined'[nodeTxs'[r][j].hash]
  <2>1. hashes' = hashes /\ mined' = mined
    BY <1>5 DEF Receipt, FetchFound, chainVars
  <2> DEFINE t == HexToHash[hashes[r][i]]
  <2>2. /\ DOMAIN nodeTxs'[r] = DOMAIN nodeTxs[r] \cup {i}
        /\ nodeTxs'[r][i] = [hash |-> t, block |-> node[t]] /\ node[t] \in mined[t]
        /\ \A j \in DOMAIN nodeTxs[r] : nodeTxs'[r][j] = nodeTxs[r][j]
    BY <1>5, FoundShape
  <2>3. nodeTxs'[r][i].hash = t /\ nodeTxs'[r][i].block = node[t]
    BY <2>2
  <2>4. QED
    BY <1>0, <2>1, <2>2, <2>3 DEF RecordInv
<1>6. nodeTxs'[r] = nodeTxs[r] \/ \E i \in DOMAIN hashes[r] : FetchFound(r, i)
  <2>1. ASSUME NEW q \in Req, NEW i \in DOMAIN hashes[q], FetchFound(q, i), q # r
        PROVE  nodeTxs'[r] = nodeTxs[r]
    BY <1>0, <2>1 DEF Receipt, FetchFound, ShapeInv
  <2>2. CASE UNCHANGED nodeTxs
    BY <2>2
  <2>3. QED
    BY <2>1, <2>2 DEF Enough, Settled, Unique, Refused, Next, Call, vars, Receive, Lookup,
         LookupFails, FetchError,
       Return, SaveTransactions, Halt, NodeMove, requestVars
<1>7. QED
  BY <1>2, <1>4, <1>5, <1>6

\* A call that has returned changes no more.
LEMMA ReturnedStays ==
  ASSUME IInv, [Next]_vars, NEW r \in Req, pc[r] = "returned"
  PROVE  /\ hashes'[r] = hashes[r] /\ dbTxs'[r] = dbTxs[r]
         /\ nodeTxs'[r] = nodeTxs[r] /\ errs'[r] = errs[r]
<1> USE DEF TypeOK, ShapeInv, requestVars
<1>0. TypeOK /\ ShapeInv
  BY DEF IInv
<1>1. ASSUME NEW q \in Req, Receive(q) \/ Lookup(q)
      PROVE  /\ hashes'[r] = hashes[r] /\ dbTxs'[r] = dbTxs[r]
             /\ nodeTxs'[r] = nodeTxs[r] /\ errs'[r] = errs[r]
  BY <1>0, <1>1 DEF Enough, Receive, Lookup
<1>2. ASSUME NEW q \in Req, NEW i \in DOMAIN hashes[q], FetchFound(q, i) \/ FetchError(q, i)
      PROVE  /\ hashes'[r] = hashes[r] /\ dbTxs'[r] = dbTxs[r]
             /\ nodeTxs'[r] = nodeTxs[r] /\ errs'[r] = errs[r]
  BY <1>0, <1>2 DEF Receipt, Settled, FetchFound, FetchError, Awaited
<1>3. CASE UNCHANGED requestVars
  BY <1>3
<1>4. QED
  BY <1>1, <1>2, <1>3 DEF Settled, Unique, Refused, Next, Call, vars, LookupFails, Return,
       SaveTransactions, Halt,
     NodeMove

\* A call returns when every string is found, or has an answer or an error from the node.
LEMMA AccountStep == IInv /\ [Next]_vars => AccountInv'
<1> SUFFICES ASSUME IInv, [Next]_vars, NEW r \in Req, pc'[r] = "returned"
             PROVE  \A i \in DOMAIN hashes'[r] :
                       hashes'[r][i] \in Keys(dbTxs'[r]) \/ i \in DOMAIN nodeTxs'[r]
                          \/ i \in errs'[r]
  BY DEF AccountInv, Keys
<1>0. TypeOK /\ TableInv /\ AccountInv
  BY DEF IInv
<1>1. CASE pc[r] = "returned"
  BY <1>0, <1>1, ReturnedStays DEF AccountInv
<1>2. CASE Lookup(r)
  <2>1. /\ dbTxs'[r] = Found(r) /\ hashes' = hashes
        /\ Cardinality(Found(r)) = Len(hashes[r])
    BY <1>0, <1>2 DEF Enough, Lookup, TypeOK
  <2>2. OneRowPerHash(Found(r)) /\ \A t \in Found(r) : t.hash \in Range(hashes[r])
    BY <1>0 DEF TableInv, OneRowPerHash, Found
  <2>3. hashes[r] \in Seq(Hash)
    BY <1>0, ListType
  <2>4. \A i \in DOMAIN hashes[r] : hashes[r][i] \in Keys(Found(r))
    BY <2>1, <2>2, <2>3, CountDecides
  <2>5. QED
    BY <2>1, <2>4
<1>3. CASE Return(r)
  BY <1>3 DEF Settled, Return, Missing, requestVars
<1>4. QED
  <2>1. pc[r] # "returned" => Lookup(r) \/ Return(r)
    <3>1. ASSUME NEW q \in Req, Receive(q)
          PROVE  pc[r] = "returned"
      BY <1>0, <3>1 DEF Receive, TypeOK
    <3>2. ASSUME NEW q \in Req, LookupFails(q)
          PROVE  pc[r] = "returned"
      BY <1>0, <3>2 DEF LookupFails, TypeOK
    <3>3. ASSUME NEW q \in Req, q # r, Lookup(q) \/ Return(q)
          PROVE  pc[r] = "returned"
      BY <1>0, <3>3 DEF Enough, Settled, Lookup, Return, TypeOK
    <3>4. CASE Halt
      BY <1>0, <3>4 DEF Halt, TypeOK
    <3>5. CASE UNCHANGED pc
      BY <3>5
    <3>6. QED
      BY <3>1, <3>2, <3>3, <3>4, <3>5 DEF Receipt, Unique, Refused, Next, Call, vars,
           FetchFound, FetchError,
         SaveTransactions, NodeMove
  <2>2. QED
    BY <1>1, <1>2, <1>3, <2>1

\* How a save ends, and that it is the end of it.
LEMMA SaveEnds ==
  ASSUME IInv, [Next]_vars, NEW r \in Req, save'[r] \in {"saved", "rejected"}
  PROVE  \/ save[r] = save'[r]
         \/ /\ SaveTransactions(r) /\ save'[r] = "saved"
            /\ transactions' = transactions \cup Range(nodeTxs[r])
         \/ /\ SaveTransactions(r) /\ save'[r] = "rejected"
            /\ ~Accepts(Keys(transactions), NodeKeys(r))
<1> USE DEF TypeOK, chainVars, requestVars
<1>0. TypeOK
  BY DEF IInv
<1>1. ASSUME NEW q \in Req, Return(q)
      PROVE  save[r] = save'[r]
  BY <1>0, <1>1 DEF Settled, Return
<1>2. ASSUME NEW q \in Req, q # r, SaveTransactions(q)
      PROVE  save[r] = save'[r]
  BY <1>0, <1>2 DEF Unique, Refused, SaveTransactions
<1>3. CASE SaveTransactions(r)
  BY <1>0, <1>3 DEF Unique, Refused, SaveTransactions
<1>4. CASE Halt
  BY <1>0, <1>4 DEF Halt
<1>5. CASE UNCHANGED save
  BY <1>5
<1>6. QED
  BY <1>1, <1>2, <1>3, <1>4, <1>5 DEF Enough, Receipt, Next, Call, vars, Receive, Lookup,
       LookupFails,
     FetchFound, FetchError, NodeMove

\* An accepted save's rows stay in the table; one record alone is only refused if its
\* transaction is in the table.
LEMMA SavedStep == IInv /\ [Next]_vars => SavedInv' /\ SingleIsCached'
<1> SUFFICES ASSUME IInv, [Next]_vars, NEW r \in Req, save'[r] \in {"saved", "rejected"}
             PROVE  /\ save'[r] = "saved" =>
                          Range(NodeKeys(r))' \subseteq Keys(transactions')
                    /\ Len(hashes'[r]) = 1 /\ DOMAIN nodeTxs'[r] # {} =>
                          Range(NodeKeys(r))' \subseteq Keys(transactions')
  BY DEF SavedInv, SingleIsCached, Keys
<1>0. TypeOK /\ ShapeInv /\ FreshInv /\ SavedInv /\ SingleIsCached
  BY DEF IInv
<1>1. transactions \subseteq transactions'
  BY TableStep
<1>2. Keys(transactions) \subseteq Keys(transactions')
  BY <1>1 DEF Keys
<1>3. save[r] # "none"
  BY <1>0, SaveEnds DEF Unique, Refused, SaveTransactions
<1>4. nodeTxs'[r] = nodeTxs[r] /\ hashes'[r] = hashes[r]
  BY <1>0, <1>3, ReturnedStays DEF FreshInv
<1>5. Range(NodeKeys(r))' = Range(NodeKeys(r))
  BY <1>4 DEF Range, NodeKeys
<1>6. CASE save[r] = save'[r]
  BY <1>0, <1>2, <1>4, <1>5, <1>6 DEF SavedInv, SingleIsCached
<1>7. CASE transactions' = transactions \cup Range(nodeTxs[r])
  <2>1. Range(NodeKeys(r)) \subseteq Keys(transactions')
    BY <1>7 DEF Range, NodeKeys, Keys
  <2>2. QED
    BY <1>5, <2>1
<1>8. CASE save'[r] = "rejected" /\ ~Accepts(Keys(transactions), NodeKeys(r))
  <2> SUFFICES ASSUME Len(hashes[r]) = 1, DOMAIN nodeTxs[r] # {}
               PROVE  Range(NodeKeys(r)) \subseteq Keys(transactions)
    BY <1>2, <1>4, <1>5, <1>8
  <2>1. DOMAIN hashes[r] = {1}
    BY <1>0, ListType
  <2>2. DOMAIN nodeTxs[r] = {1}
    BY <1>0, <2>1 DEF TypeOK
  <2>3. DOMAIN NodeKeys(r) = {1} /\ Range(NodeKeys(r)) = {NodeKeys(r)[1]}
    BY <2>2 DEF NodeKeys, Range
  <2>4. IsInjective(NodeKeys(r))
    BY <2>3 DEF IsInjective
  <2>5. NodeKeys(r)[1] \in Keys(transactions)
    BY <1>8, <2>3, <2>4 DEF Accepts
  <2>6. QED
    BY <2>3, <2>5
<1>9. QED
  BY <1>6, <1>7, <1>8, SaveEnds

\* A call that has a saving goroutine keeps its answers, and an accepted save stays accepted.
LEMMA SavedStays ==
  ASSUME IInv, [Next]_vars, NEW r \in Req, save[r] \in {"saved", "rejected"}
  PROVE  /\ save'[r] = save[r] /\ nodeTxs'[r] = nodeTxs[r] /\ hashes'[r] = hashes[r]
         /\ NodeKeys(r)' = NodeKeys(r)
<1> USE DEF TypeOK, chainVars, requestVars
<1>0. TypeOK /\ FreshInv /\ pc[r] = "returned"
  BY DEF IInv, FreshInv
<1>1. nodeTxs'[r] = nodeTxs[r] /\ hashes'[r] = hashes[r]
  BY <1>0, ReturnedStays
<1>2. save'[r] = save[r]
  <2>1. ASSUME NEW q \in Req, Return(q) \/ SaveTransactions(q)
        PROVE  save'[r] = save[r]
    BY <1>0, <2>1 DEF Return, SaveTransactions
  <2>2. CASE Halt
    BY <1>0, <2>2 DEF Halt
  <2>3. CASE UNCHANGED save
    BY <2>3
  <2>4. QED
    BY <2>1, <2>2, <2>3 DEF Next, Call, vars, Receive, Lookup, LookupFails, FetchFound,
       FetchError, NodeMove
<1>3. QED
  BY <1>1, <1>2 DEF NodeKeys

\* A call asks the node only after its lookup, and for what that has missed.
LEMMA AskedStep == IInv /\ [Next]_vars => AskedInv'
<1> SUFFICES ASSUME IInv, [Next]_vars, NEW r \in Req
             PROVE  /\ DOMAIN nodeTxs'[r] \subseteq Missing(r)'
                    /\ Keys(dbTxs'[r]) \subseteq Range(hashes'[r])
  BY DEF AskedInv, Keys, Range
<1>0. /\ TypeOK /\ ShapeInv /\ FreshInv /\ DOMAIN nodeTxs[r] \subseteq Missing(r)
      /\ Keys(dbTxs[r]) \subseteq Range(hashes[r])
  BY DEF IInv, AskedInv
<1>1. ASSUME NEW q \in Req, Receive(q) \/ Lookup(q)
      PROVE  /\ DOMAIN nodeTxs'[r] \subseteq Missing(r)'
             /\ Keys(dbTxs'[r]) \subseteq Range(hashes'[r])
  <2>1. UNCHANGED nodeTxs
    BY <1>1 DEF Receive, Lookup
  <2>2. CASE q = r
    <3>1. nodeTxs'[r] = <<>>
      BY <1>0, <1>1, <2>1, <2>2 DEF Receive, Lookup, FreshInv
    <3>2. dbTxs'[r] = {} \/ (dbTxs'[r] = Found(r) /\ hashes' = hashes)
      BY <1>0, <1>1, <2>2 DEF Receive, Lookup, FreshInv, TypeOK
    <3>3. Keys(dbTxs'[r]) \subseteq Range(hashes'[r])
      BY <3>2 DEF Keys, Found
    <3>4. QED
      BY <3>1, <3>3
  <2>3. CASE q # r
    <3>1. hashes'[r] = hashes[r] /\ dbTxs'[r] = dbTxs[r]
      BY <1>0, <1>1, <2>3 DEF Receive, Lookup, TypeOK
    <3>2. Missing(r)' = Missing(r)
      BY <3>1 DEF Missing, Keys
    <3>3. QED
      BY <1>0, <2>1, <3>1, <3>2
  <2>4. QED
    BY <2>2, <2>3
<1>2. ASSUME NEW q \in Req, NEW i \in DOMAIN hashes[q], FetchFound(q, i)
      PROVE  /\ DOMAIN nodeTxs'[r] \subseteq Missing(r)'
             /\ Keys(dbTxs'[r]) \subseteq Range(hashes'[r])
  <2>1. Missing(r)' = Missing(r) /\ dbTxs'[r] = dbTxs[r] /\ hashes'[r] = hashes[r]
    BY <1>2 DEF FetchFound, Missing, Keys
  <2>2. CASE q = r
    <3>1. DOMAIN nodeTxs'[r] = DOMAIN nodeTxs[r] \cup {i} /\ i \in Missing(r)
      BY <1>2, <2>2, FoundShape DEF FetchFound, Awaited
    <3>2. QED
      BY <1>0, <2>1, <3>1
  <2>3. CASE q # r
    <3>1. nodeTxs'[r] = nodeTxs[r]
      BY <1>0, <1>2, <2>3 DEF FetchFound, ShapeInv
    <3>2. QED
      BY <1>0, <2>1, <3>1
  <2>4. QED
    BY <2>2, <2>3
<1>3. CASE UNCHANGED <<hashes, dbTxs, nodeTxs>>
  BY <1>0, <1>3 DEF Missing, Keys
<1>4. QED
  BY <1>1, <1>2, <1>3 DEF Next, Call, vars, LookupFails, FetchError, Return,
     SaveTransactions, Halt, NodeMove, requestVars

\* Rows stay, and so do the calls they came from; new ones come with an accepted save.
LEMMA SourceStep == IInv /\ [Next]_vars => SourceInv'
<1> SUFFICES ASSUME IInv, [Next]_vars, NEW t \in transactions'
             PROVE  \E s \in Req : save'[s] = "saved" /\ t.hash \in Range(NodeKeys(s))'
  BY DEF SourceInv
<1>1. CASE t \in transactions
  <2>1. PICK s \in Req : save[s] = "saved" /\ t.hash \in Range(NodeKeys(s))
    BY <1>1 DEF IInv, SourceInv
  <2>2. save'[s] = "saved" /\ NodeKeys(s)' = NodeKeys(s)
    BY <2>1, SavedStays
  <2>3. QED
    BY <2>1, <2>2 DEF Range
<1>2. CASE t \notin transactions
  <2>1. PICK r \in Req : SaveTransactions(r)
    BY <1>2 DEF Next, Call, vars, Receive, Lookup, LookupFails, FetchFound, FetchError,
       Return, Halt, NodeMove
  <2>2. t \in Range(nodeTxs[r]) /\ save'[r] = "saved" /\ nodeTxs' = nodeTxs
    BY <1>2, <2>1 DEF SaveTransactions, requestVars, IInv, TypeOK
  <2>3. t.hash \in Range(NodeKeys(r))'
    BY <2>2 DEF Range, NodeKeys
  <2>4. QED
    BY <2>2, <2>3
<1>3. QED
  BY <1>1, <1>2

\* A key that is in the way of an insert came from another call.
LEMMA RefusedStep == IInv /\ [Next]_vars => RefusedForAReason'
<1> SUFFICES ASSUME IInv, [Next]_vars, NEW r \in Req, save'[r] = "rejected"
             PROVE  \/ DOMAIN nodeTxs'[r] = {}
                    \/ \E i \in DOMAIN nodeTxs'[r] : hashes'[r][i] \notin Canonical
                    \/ ~IsInjective(NodeKeys(r)')
                    \/ \E s \in Req \ {r} : save'[s] = "saved" /\
                          Range(NodeKeys(s)') \cap Range(NodeKeys(r)') # {}
  BY DEF RefusedForAReason, Range, IsInjective
<1>1. ASSUME NEW s \in Req \ {r}, save[s] = "saved", NodeKeys(r)' = NodeKeys(r),
             Range(NodeKeys(s)) \cap Range(NodeKeys(r)) # {}
      PROVE  save'[s] = "saved" /\ Range(NodeKeys(s)') \cap Range(NodeKeys(r)') # {}
  <2>1. save'[s] = "saved" /\ NodeKeys(s)' = NodeKeys(s)
    BY <1>1, SavedStays
  <2>2. QED
    BY <1>1, <2>1 DEF Range
<1>2. CASE save[r] = "rejected"
  <2>1. /\ nodeTxs'[r] = nodeTxs[r] /\ hashes'[r] = hashes[r]
        /\ NodeKeys(r)' = NodeKeys(r)
    BY <1>2, SavedStays
  <2>2. \/ DOMAIN nodeTxs[r] = {}
        \/ \E i \in DOMAIN nodeTxs[r] : hashes[r][i] \notin Canonical
        \/ ~IsInjective(NodeKeys(r))
        \/ \E s \in Req \ {r} :
              save[s] = "saved" /\ Range(NodeKeys(s)) \cap Range(NodeKeys(r)) # {}
    BY <1>2 DEF IInv, RefusedForAReason
  <2>3. IsInjective(NodeKeys(r)') <=> IsInjective(NodeKeys(r))
    BY <2>1 DEF IsInjective
  <2>4. QED
    BY <1>1, <2>1, <2>2, <2>3
<1>3. CASE SaveTransactions(r) /\ ~Accepts(Keys(transactions), NodeKeys(r))
  <2>1. nodeTxs' = nodeTxs /\ NodeKeys(r)' = NodeKeys(r) /\ save[r] = "running"
    BY <1>3 DEF SaveTransactions, requestVars, NodeKeys
  <2>2. CASE DOMAIN NodeKeys(r) = {}
    BY <2>1, <2>2 DEF NodeKeys
  <2>3. CASE ~IsInjective(NodeKeys(r))
    BY <2>1, <2>3 DEF IsInjective
  <2>4. CASE Range(NodeKeys(r)) \cap Keys(transactions) # {}
    <3>1. PICK t \in transactions : t.hash \in Range(NodeKeys(r))
      BY <2>4 DEF Keys
    <3>2. PICK s \in Req : save[s] = "saved" /\ t.hash \in Range(NodeKeys(s))
      BY DEF IInv, SourceInv
    <3>3. s # r
      BY <2>1, <3>2
    <3>4. Range(NodeKeys(s)) \cap Range(NodeKeys(r)) # {}
      BY <3>1, <3>2
    <3>5. QED
      BY <1>1, <2>1, <3>2, <3>3, <3>4
  <2>5. QED
    BY <1>3, <2>2, <2>3, <2>4 DEF Accepts
<1>4. QED
  BY <1>2, <1>3, SaveEnds

-----------------------------------------------------------------------------

\* No request has arrived, the table is empty.
LEMMA InitInv == Init => IInv
<1> SUFFICES ASSUME Init PROVE IInv
  OBVIOUS
<1> USE DEF Init
<1>1. TypeOK
  BY DEF TypeOK, Range
<1>2. ShapeInv /\ TableInv /\ ChainInv /\ FreshInv /\ RecordInv
  BY DEF ShapeInv, TableInv, OneRowPerHash, CachedWasMined, ChainInv, FreshInv, RecordInv
<1>3. AccountInv /\ SavedInv /\ SingleIsCached
  BY DEF AccountInv, SavedInv, SingleIsCached
<1>4. AskedInv /\ SourceInv /\ RefusedForAReason
  BY DEF AskedInv, SourceInv, RefusedForAReason, Keys, Range
<1>5. QED
  BY <1>1, <1>2, <1>3, <1>4 DEF IInv

\* Every reachable state of the cache satisfies the inductive invariant.
THEOREM Inductive == Spec => []IInv
<1>1. IInv /\ [Next]_vars => IInv'
  BY TypeStep, TableStep, ChainStep, FreshStep, RecordStep, AccountStep, SavedStep,
     AskedStep, SourceStep, RefusedStep DEF IInv
<1>2. QED
  BY InitInv, <1>1, PTL DEF Spec

\* Type correctness; in particular only canonical hashes are ever cached.
THEOREM TypeCorrect == Spec => []TypeOK
<1>1. IInv => TypeOK
  BY DEF IInv
<1>2. QED
  BY <1>1, Inductive, PTL

\* No request is answered with a string forgotten, although the early return only counts.
THEOREM Accounted == Spec => []EveryHashAccounted
<1>1. IInv => EveryHashAccounted
  <2> SUFFICES ASSUME IInv, NEW r \in Req, pc[r] = "returned",
                      NEW i \in DOMAIN hashes[r], i \notin errs[r]
               PROVE  \E t \in Records(r) : t.hash = HexToHash[hashes[r][i]]
    BY DEF EveryHashAccounted
  <2>1. CASE hashes[r][i] \in Keys(dbTxs[r])
    <3>1. PICK t \in dbTxs[r] : t.hash = hashes[r][i]
      BY <2>1 DEF Keys
    <3>2. t.hash \in Canonical
      BY DEF IInv, TypeOK, Row
    <3>3. QED
      BY <3>1, <3>2, CacheAssumption DEF Records
  <2>2. CASE i \in DOMAIN nodeTxs[r]
    BY <2>2 DEF IInv, RecordInv, Records, Range
  <2>3. QED
    BY <2>1, <2>2 DEF IInv, AccountInv
<1>2. QED
  BY <1>1, Inductive, PTL

\* Replies served from the table agree, across races and restarts.
THEOREM Agreement == Spec => []CacheAgrees
<1>1. IInv => CacheAgrees
  BY DEF IInv, TableInv, OneRowPerHash, RecordInv, CacheAgrees
<1>2. QED
  BY <1>1, Inductive, PTL

\* Only transactions that have been on chain, in the block they are cached with, are cached.
THEOREM OnlyMined == Spec => []CachedWasMined
<1>1. IInv => CachedWasMined
  BY DEF IInv, TableInv
<1>2. QED
  BY <1>1, Inductive, PTL

\* A request for one hash leaves it in the table unless the database or the process fails.
THEOREM SinglesCached == Spec => []SingleIsCached
<1>1. IInv => SingleIsCached
  BY DEF IInv
<1>2. QED
  BY <1>1, Inductive, PTL

\* Without repetitions and aliases, a reply has one record per transaction.
THEOREM OneEach == Spec => []OneRecordEach
<1>1. IInv => OneRecordEach
  <2> SUFFICES ASSUME IInv, NEW r \in Req, IsInjective(hashes[r]),
                      Range(hashes[r]) \subseteq Canonical
               PROVE  /\ IsInjective(NodeKeys(r))
                      /\ Keys(dbTxs[r]) \cap Range(NodeKeys(r)) = {}
    BY DEF OneRecordEach
  <2>1. DOMAIN nodeTxs[r] \subseteq Missing(r) /\ DOMAIN nodeTxs[r] \subseteq DOMAIN hashes[r]
    BY DEF IInv, AskedInv, Missing
  <2>2. \A i \in DOMAIN nodeTxs[r] : NodeKeys(r)[i] = hashes[r][i]
    <3>1. ASSUME NEW i \in DOMAIN nodeTxs[r] PROVE NodeKeys(r)[i] = hashes[r][i]
      <4>1. nodeTxs[r][i].hash = HexToHash[hashes[r][i]]
        BY DEF IInv, RecordInv
      <4>2. hashes[r][i] \in Canonical
        BY <2>1 DEF Range
      <4>3. QED
        BY <4>1, <4>2, CacheAssumption DEF NodeKeys
    <3>2. QED
      BY <3>1
  <2>3. IsInjective(NodeKeys(r))
    <3>1. DOMAIN NodeKeys(r) = DOMAIN nodeTxs[r]
      BY DEF NodeKeys
    <3>2. QED
      BY <2>1, <2>2, <3>1 DEF IsInjective
  <2>4. ASSUME NEW k \in Range(NodeKeys(r)) PROVE k \notin Keys(dbTxs[r])
    <3>1. PICK i \in DOMAIN nodeTxs[r] : k = NodeKeys(r)[i]
      BY DEF Range, NodeKeys
    <3>2. QED
      BY <2>1, <2>2, <3>1 DEF Missing
  <2>5. QED
    BY <2>3, <2>4
<1>2. QED
  BY <1>1, Inductive, PTL

\* However many calls race, a refused insert has one of the three reasons.
THEOREM ReasonedRefusals == Spec => []RefusedForAReason
<1>1. IInv => RefusedForAReason
  BY DEF IInv
<1>2. QED
  BY <1>1, Inductive, PTL

-----------------------------------------------------------------------------
(* What is fetched is handed to a save *)

\* A reply that has no save, for the table answered it, holds nothing from the node.
FetchedIsSaved ==
    \A r \in Req : pc[r] = "returned" /\ save[r] = "none" => DOMAIN nodeTxs[r] = {}

LEMMA FetchedStep == IInv /\ FetchedIsSaved /\ [Next]_vars => FetchedIsSaved'
<1> SUFFICES ASSUME IInv, FetchedIsSaved, [Next]_vars,
                    NEW r \in Req, pc'[r] = "returned", save'[r] = "none"
             PROVE  DOMAIN nodeTxs'[r] = {}
  BY DEF FetchedIsSaved
<1> USE DEF chainVars, requestVars
<1>0. TypeOK /\ FreshInv
  BY DEF IInv
<1>1. CASE pc[r] = "returned"
  <2>1. nodeTxs'[r] = nodeTxs[r]
    BY <1>1, ReturnedStays
  <2>2. save[r] = "none"
    <3>1. ASSUME NEW q \in Req, Return(q) \/ SaveTransactions(q)
          PROVE  save[r] = "none"
      BY <1>0, <3>1 DEF Return, SaveTransactions, TypeOK
    <3>2. CASE Halt
      BY <1>0, <3>2 DEF Halt, TypeOK
    <3>3. CASE UNCHANGED save
      BY <3>3
    <3>4. QED
      BY <3>1, <3>2, <3>3 DEF Next, Call, vars, Receive, Lookup, LookupFails, FetchFound,
         FetchError, NodeMove
  <2>3. QED
    BY <1>1, <2>1, <2>2 DEF FetchedIsSaved
<1>2. CASE pc[r] # "returned"
  <2>1. ASSUME NEW q \in Req, Return(q)
        PROVE  FALSE
    BY <1>0, <1>2, <2>1 DEF Return, TypeOK
  <2>2. ASSUME NEW q \in Req, Receive(q) \/ LookupFails(q) \/ SaveTransactions(q)
        PROVE  FALSE
    BY <1>0, <1>2, <2>2 DEF Receive, LookupFails, SaveTransactions, TypeOK
  <2>3. ASSUME NEW q \in Req, Lookup(q)
        PROVE  DOMAIN nodeTxs'[r] = {}
    <3>1. q = r
      BY <1>0, <1>2, <2>3 DEF Lookup, TypeOK
    <3>2. nodeTxs'[r] = <<>>
      BY <1>0, <2>3, <3>1 DEF Lookup, FreshInv
    <3>3. QED
      BY <3>2
  <2>4. CASE Halt
    BY <1>0, <1>2, <2>4 DEF Halt, TypeOK
  <2>5. CASE UNCHANGED pc
    BY <1>2, <2>5
  <2>6. QED
    BY <2>1, <2>2, <2>3, <2>4, <2>5 DEF Next, Call, vars, FetchFound, FetchError, NodeMove
<1>3. QED
  BY <1>1, <1>2

\* Every record that a call got from the node is given to a goroutine that saves it: only a
\* save that is refused, fails or is killed keeps a fetched record out of the table.
THEOREM SaveFollows == Spec => []FetchedIsSaved
<1>1. Init => FetchedIsSaved
  BY DEF Init, FetchedIsSaved
<1>2. IInv /\ FetchedIsSaved /\ [Next]_vars => FetchedIsSaved'
  BY FetchedStep
<1>3. QED
  BY <1>1, <1>2, Inductive, PTL DEF Spec

-----------------------------------------------------------------------------
(* The cache keeps its promise *)

\* The promise's view of the calls, as the functions that it sees.
entries == [r \in Req |-> Entry(r)]
outcomes == [r \in Req |-> Outcome(r)]

\* What the table is offered when an insert is accepted: new hashes, each of them once.
LEMMA AcceptedEntry ==
  ASSUME NEW r \in Req, Accepts(Keys(transactions), NodeKeys(r))
  PROVE  /\ Range(nodeTxs[r]) # {}
         /\ \A t, u \in Range(nodeTxs[r]) : t.hash = u.hash => t = u
         /\ \A t \in Range(nodeTxs[r]), u \in transactions : t.hash # u.hash
<1>1. DOMAIN NodeKeys(r) = DOMAIN nodeTxs[r]
  BY DEF NodeKeys
<1>2. \A i, j \in DOMAIN nodeTxs[r] : nodeTxs[r][i].hash = nodeTxs[r][j].hash => i = j
  BY <1>1 DEF Accepts, IsInjective, NodeKeys
<1>3. \A i \in DOMAIN nodeTxs[r] : nodeTxs[r][i].hash \in Range(NodeKeys(r))
  BY DEF NodeKeys, Range
<1>4. \A i \in DOMAIN nodeTxs[r] : nodeTxs[r][i].hash \notin Keys(transactions)
  BY <1>3 DEF Accepts
<1>5. DOMAIN nodeTxs[r] # {}
  BY <1>1 DEF Accepts
<1>6. QED
  BY <1>2, <1>4, <1>5 DEF Range, Keys

\* A step that starts and ends no save and adds no record to a save is invisible, or a look
\* into the table.
LEMMA Unseen ==
  ASSUME save' = save, \A r \in Req : save[r] # "none" => nodeTxs'[r] = nodeTxs[r]
  PROVE  entries' = entries /\ outcomes' = outcomes
<1>1. \A r \in Req : Entry(r)' = Entry(r)
  BY DEF Entry, Range
<1>2. \A r \in Req : Outcome(r)' = Outcome(r)
  BY DEF Outcome
<1>3. QED
  BY <1>1, <1>2 DEF entries, outcomes

\* Saves that end without a row are dropped.
LEMMA SavesDropped ==
  ASSUME NEW rs \in SUBSET Req, UNCHANGED <<transactions, dbTxs, nodeTxs>>,
         \A r \in rs : save[r] = "running" /\ save'[r] \in {"rejected", "failed", "killed"},
         \A r \in Req \ rs : save'[r] = save[r]
  PROVE  Promise!Drop(rs)
<1>1. \A r \in rs : Outcome(r) = "open" /\ Outcome(r)' = "dropped"
  BY DEF Outcome
<1>2. \A r \in Req \ rs : Outcome(r)' = Outcome(r)
  BY DEF Outcome
<1>3. outcomes' = [r \in Req |-> IF r \in rs THEN "dropped" ELSE Outcome(r)]
  BY <1>1, <1>2 DEF outcomes
<1>4. \A r \in Req : Entry(r)' = Entry(r)
  BY DEF Entry, Range
<1>5. entries' = entries
  BY <1>4 DEF entries
<1>6. QED
  BY <1>1, <1>3, <1>5 DEF Promise!Drop, entries, outcomes

\* Every step of the cache is a step of the promise or invisible to it.
LEMMA StepPromise == IInv /\ [Next]_vars => [Promise!Next]_(Promise!promiseVars)
<1> SUFFICES ASSUME IInv, [Next]_vars
             PROVE  Promise!Next \/ UNCHANGED Promise!promiseVars
  OBVIOUS
<1> USE DEF chainVars, requestVars
<1>0. TypeOK /\ ShapeInv /\ FreshInv
  BY DEF IInv
<1>1. ASSUME UNCHANGED <<transactions, dbTxs, save>>,
             \A r \in Req : save[r] # "none" => nodeTxs'[r] = nodeTxs[r]
      PROVE  UNCHANGED Promise!promiseVars
  <2>1. entries' = entries /\ outcomes' = outcomes
    BY <1>1, Unseen
  <2>2. QED
    BY <1>1, <2>1 DEF Promise!promiseVars, entries, outcomes
<1>2. ASSUME NEW r \in Req, Receive(r) \/ LookupFails(r)
      PROVE  UNCHANGED Promise!promiseVars
  BY <1>1, <1>2 DEF Receive, LookupFails
<1>3. ASSUME NEW r \in Req, NEW i \in DOMAIN hashes[r], FetchFound(r, i) \/ FetchError(r, i)
      PROVE  UNCHANGED Promise!promiseVars
  <2>1. save[r] = "none"
    BY <1>0, <1>3 DEF FetchFound, FetchError, Awaited, FreshInv
  <2>2. \A q \in Req : q # r => nodeTxs'[q] = nodeTxs[q]
    BY <1>0, <1>3 DEF FetchFound, FetchError, ShapeInv
  <2>3. UNCHANGED <<transactions, dbTxs, save>>
    BY <1>3 DEF FetchFound, FetchError
  <2>4. QED
    BY <1>1, <2>1, <2>2, <2>3
<1>4. ASSUME NEW r \in Req, Lookup(r)
      PROVE  Promise!Serve(r)
  <2>1. pc[r] = "lookup" /\ dbTxs' = [dbTxs EXCEPT ![r] = Found(r)]
        /\ UNCHANGED <<transactions, nodeTxs, save>>
    BY <1>4 DEF Lookup
  <2>2. dbTxs[r] = {} /\ save[r] = "none"
    BY <1>0, <2>1 DEF FreshInv
  <2>3. Outcome(r) = "none"
    BY <2>2 DEF Outcome
  <2>4. Found(r) \in SUBSET transactions
    BY DEF Found
  <2>5. entries' = entries /\ outcomes' = outcomes
    BY <2>1, Unseen
  <2>6. QED
    BY <2>1, <2>2, <2>3, <2>4, <2>5 DEF Promise!Serve, entries, outcomes
<1>5. ASSUME NEW r \in Req, Return(r)
      PROVE  Promise!Open(r)
  <2>1. /\ save[r] = "none" /\ save' = [save EXCEPT ![r] = "running"]
        /\ UNCHANGED <<transactions, dbTxs, nodeTxs>>
    BY <1>0, <1>5 DEF Return, FreshInv
  <2>2. \A q \in Req : q # r => Entry(q)' = Entry(q) /\ Outcome(q)' = Outcome(q)
    BY <1>0, <2>1 DEF Entry, Outcome, Range, TypeOK
  <2>3. /\ Outcome(r) = "none" /\ Outcome(r)' = "open"
        /\ Entry(r)' = Range(nodeTxs[r])
    BY <1>0, <2>1 DEF Entry, Outcome, Range, TypeOK
  <2>4. entries' = [entries EXCEPT ![r] = Range(nodeTxs[r])]
    BY <2>2, <2>3 DEF entries
  <2>5. outcomes' = [outcomes EXCEPT ![r] = "open"]
    BY <2>2, <2>3 DEF outcomes
  <2>6. Range(nodeTxs[r]) \in SUBSET Row
    BY <1>0 DEF TypeOK
  <2>7. QED
    BY <2>1, <2>3, <2>4, <2>5, <2>6 DEF Promise!Open, Promise!Row, Row, entries, outcomes
<1>6. ASSUME NEW r \in Req, SaveTransactions(r)
      PROVE  Promise!Fill(r) \/ Promise!Drop({r})
  <2>0. save[r] = "running" /\ UNCHANGED <<dbTxs, nodeTxs>>
    BY <1>6 DEF SaveTransactions
  <2>1. CASE Unique(r) /\ transactions' = transactions \cup Range(nodeTxs[r])
             /\ save' = [save EXCEPT ![r] = "saved"]
    <3>1. Outcome(r) = "open" /\ Entry(r) = Range(nodeTxs[r])
      BY <2>0 DEF Outcome, Entry
    <3>2. \A q \in Req : Entry(q)' = Entry(q)
      BY <1>0, <2>0, <2>1 DEF Entry, Range, TypeOK
    <3>3. Outcome(r)' = "cached" /\ \A q \in Req : q # r => Outcome(q)' = Outcome(q)
      BY <1>0, <2>1 DEF Outcome, TypeOK
    <3>4. entries' = entries /\ outcomes' = [outcomes EXCEPT ![r] = "cached"]
      BY <3>2, <3>3 DEF entries, outcomes
    <3>5. /\ Entry(r) # {} /\ Promise!OneRowPerHash(Entry(r))
          /\ \A t \in Entry(r), u \in transactions : t.hash # u.hash
      BY <2>1, <3>1, AcceptedEntry DEF Unique, Promise!OneRowPerHash
    <3>6. QED
      BY <2>0, <2>1, <3>1, <3>4, <3>5 DEF Promise!Fill, entries, outcomes
  <2>2. ASSUME NEW end \in {"rejected", "failed"},
               save' = [save EXCEPT ![r] = end], transactions' = transactions
        PROVE  Promise!Drop({r})
    BY <1>0, <2>0, <2>2, SavesDropped DEF TypeOK
  <2>3. QED
    BY <1>6, <2>1, <2>2 DEF SaveTransactions
<1>7. CASE Halt
  <2> DEFINE rs == {r \in Req : save[r] = "running"}
  <2>1. UNCHANGED <<transactions, dbTxs, nodeTxs>>
    BY <1>7 DEF Halt
  <2>2. \A r \in rs : save[r] = "running" /\ save'[r] = "killed"
    BY <1>7 DEF Halt
  <2>3. \A r \in Req \ rs : save'[r] = save[r]
    BY <1>7 DEF Halt
  <2>4. rs \in SUBSET Req
    OBVIOUS
  <2> HIDE DEF rs
  <2>5. Promise!Drop(rs)
    BY <2>1, <2>2, <2>3, <2>4, SavesDropped
  <2>6. \E qs \in SUBSET Req : Promise!Drop(qs)
    BY <2>4, <2>5, Zenon
  <2>7. QED
    BY <2>6, Zenon DEF Promise!Next
<1>8. ASSUME NEW t \in Canonical, NodeMove(t)
      PROVE  UNCHANGED Promise!promiseVars
  BY <1>1, <1>8 DEF NodeMove
<1>9. CASE UNCHANGED vars
  BY <1>1, <1>9 DEF vars
<1>10. QED
  BY <1>2, <1>3, <1>4, <1>5, <1>6, <1>7, <1>8, <1>9 DEF Next, Call, Promise!Next

\* The table is written once: through racing, failing and killed saves, calls read it in one
\* step, a fetch is cached as a whole or not at all, and nothing that is cached changes.
THEOREM ImplementsPromise == Spec => KeepsPromise
<1>1. Init => Promise!Init
  <2>1. Init => \A r \in Req : Entry(r) = {} /\ Outcome(r) = "none"
    BY DEF Init, Entry, Outcome
  <2>2. QED
    BY <2>1 DEF Init, Promise!Init
<1>2. QED
  BY <1>1, StepPromise, Inductive, PTL DEF Spec, KeepsPromise, Promise!Spec

\* What the table has, it keeps, and what a call was served is in it.
PromiseInv ==
    /\ OneRowPerHash(transactions)
    /\ dbTxs = [r \in Req |-> dbTxs[r]]
    /\ \A r \in Req : dbTxs[r] \subseteq transactions

\* Nothing but the promise is needed for replies to agree: whatever else changes in how
\* calls fetch, save and fail, a cache that keeps it never contradicts itself.
THEOREM PromiseSuffices == KeepsPromise => []CacheAgrees
<1>1. Promise!Init => PromiseInv
  BY DEF Promise!Init, PromiseInv, OneRowPerHash
<1>2. PromiseInv /\ [Promise!Next]_(Promise!promiseVars) => PromiseInv'
  <2> SUFFICES ASSUME PromiseInv, [Promise!Next]_(Promise!promiseVars)
               PROVE  PromiseInv'
    OBVIOUS
  <2> USE DEF PromiseInv
  <2>1. ASSUME NEW r \in Req, Promise!Serve(r)
        PROVE  PromiseInv'
    BY <2>1 DEF Promise!Serve, OneRowPerHash
  <2>2. ASSUME NEW r \in Req, Promise!Fill(r)
        PROVE  PromiseInv'
    <3> DEFINE records == entries[r]
    <3>1. /\ \A t, u \in records : t.hash = u.hash => t = u
          /\ \A t \in records, u \in transactions : t.hash # u.hash
          /\ transactions' = transactions \cup records /\ dbTxs' = dbTxs
      BY <2>2 DEF Promise!Fill, Promise!OneRowPerHash, entries
    <3> HIDE DEF records
    <3>2. OneRowPerHash(transactions')
      BY <3>1 DEF OneRowPerHash
    <3>3. QED
      BY <3>1, <3>2 DEF OneRowPerHash
  <2>3. CASE UNCHANGED <<transactions, dbTxs>>
    BY <2>3 DEF OneRowPerHash
  <2>4. QED
    BY <2>1, <2>2, <2>3 DEF Promise!Next, Promise!Open, Promise!Drop, Promise!promiseVars
<1>3. PromiseInv => CacheAgrees
  BY DEF PromiseInv, OneRowPerHash, CacheAgrees
<1>4. QED
  BY <1>1, <1>2, <1>3, PTL DEF KeepsPromise, Promise!Spec
=============================================================================
