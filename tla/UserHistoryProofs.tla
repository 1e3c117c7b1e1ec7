-------------------------- MODULE UserHistoryProofs --------------------------
(***************************************************************************)
(* Proofs about UserHistory, for every set of jobs, users and hashes.      *)
(***************************************************************************)
EXTENDS UserHistory, FiniteSetTheorems, TLAPS

\* A job that has not started holds nothing; one that reads or inserts has a valid token.
StartInv ==
    \A j \in Job :
        /\ job[j] = "idle" => batch[j] = <<>> /\ who[j] = "stranger" /\ known[j] = {}
        /\ job[j] # "idle" => batch[j] \in Batches
        /\ job[j] \in {"read", "insert", "recorded", "refused"} => who[j] \in User

\* What a job has read is still there: rows are never deleted.
KnownInv == \A j \in Job : known[j] \subseteq HashesOf(who[j])

IInv == TypeOK /\ StartInv /\ KnownInv /\ OwnRequestsOnly /\ RecordedIsThere /\ SingleIsThere

-----------------------------------------------------------------------------

\* Inserting what was not known yet records the whole batch, since what was known is there.
LEMMA FreshCompletes ==
  ASSUME IInv, NEW j \in Job
  PROVE  history \cup {<<who[j], h>> : h \in Range(Fresh(j))} = history \cup Rows(j)
<1>1. Range(Fresh(j)) = Range(batch[j]) \ known[j]
  BY DEF Fresh, Range
<1>2. \A h \in known[j] : <<who[j], h>> \in history
  BY DEF IInv, KnownInv, HashesOf
<1>3. QED
  BY <1>1, <1>2 DEF Rows

\* A batch of one hash is refused only if the user has the hash.
LEMMA RefusedSingle ==
  ASSUME IInv, NEW j \in Job, job[j] = "insert", Cardinality(DOMAIN batch[j]) = 1,
         ~Accepts(HashesOf(who[j]), Fresh(j))
  PROVE  Rows(j) \subseteq history
<1>1. IsFiniteSet(DOMAIN batch[j])
  BY HistoryAssumption DEF IInv, StartInv
<1>2. PICK x : DOMAIN batch[j] = {x}
  BY <1>1, FS_Singleton
<1>3. batch[j][x] \in HashesOf(who[j])
  <2>1. CASE batch[j][x] \in known[j]
    BY <2>1 DEF IInv, KnownInv
  <2>2. CASE batch[j][x] \notin known[j]
    <3>1. DOMAIN Fresh(j) = {x} /\ Fresh(j)[x] = batch[j][x]
      BY <1>2, <2>2 DEF Fresh
    <3>2. IsInjective(Fresh(j)) /\ Range(Fresh(j)) = {batch[j][x]}
      BY <3>1 DEF IsInjective, Range
    <3>3. QED
      BY <3>1, <3>2 DEF Accepts
  <2>3. QED
    BY <2>1, <2>2
<1>4. QED
  BY <1>2, <1>3 DEF Rows, Range, HashesOf

\* The three ways a job's insert can go.
LEMMA InsertCases ==
  ASSUME IInv, NEW j \in Job, Insert(j)
  PROVE  /\ job[j] = "insert" /\ UNCHANGED <<who, batch, known>>
         /\ \A k \in Job \ {j} : job'[k] = job[k]
         /\ \/ job'[j] = "recorded" /\ history' = history \cup Rows(j)
            \/ /\ job'[j] = "refused" /\ history' = history
               /\ ~Accepts(HashesOf(who[j]), Fresh(j))
            \/ job'[j] = "failed" /\ history' = history
<1>1. TypeOK
  BY DEF IInv
<1>2. QED
  BY <1>1, FreshCompletes DEF Unique, Insert, TypeOK

\* Every step keeps the invariant.
LEMMA InvStep == IInv /\ [Next]_vars => IInv'
<1> SUFFICES ASSUME IInv, [Next]_vars
             PROVE  IInv'
  OBVIOUS
<1> USE DEF IInv, StartInv, KnownInv, HashesOf, OwnRequestsOnly, RecordedIsThere,
            SingleIsThere, Rows
<1>0. TypeOK /\ StartInv /\ "stranger" \notin User
  BY HistoryAssumption
<1>1. ASSUME NEW j \in Job, NEW u \in User \cup {"stranger"}, NEW b \in Batches, Start(j, u, b)
      PROVE  IInv'
  <2>1. /\ job[j] = "idle" /\ known[j] = {} /\ history' = history /\ known' = known
        /\ job'[j] = "validate" /\ who'[j] = u /\ batch'[j] = b
        /\ \A k \in Job \ {j} :
              job'[k] = job[k] /\ who'[k] = who[k] /\ batch'[k] = batch[k]
    BY <1>0, <1>1 DEF Start, TypeOK
  <2>2. TypeOK'
    BY <1>0, <1>1 DEF Start, TypeOK, Running
  <2>3. StartInv' /\ KnownInv'
    BY <1>0, <2>1
  <2>4. OwnRequestsOnly' /\ RecordedIsThere' /\ SingleIsThere'
    BY <2>1
  <2>5. QED
    BY <2>2, <2>3, <2>4
<1>2. ASSUME NEW j \in Job, Validate(j)
      PROVE  IInv'
  <2>1. /\ job[j] = "validate" /\ UNCHANGED <<history, who, batch, known>>
        /\ \/ who[j] \in User /\ job'[j] = "read"
           \/ job'[j] = "invalid"
        /\ \A k \in Job \ {j} : job'[k] = job[k]
    BY <1>0, <1>2 DEF Valid, Validate, TypeOK
  <2>2. TypeOK'
    BY <1>0, <1>2 DEF Valid, Validate, TypeOK, Running
  <2>3. QED
    BY <1>0, <2>1, <2>2
<1>3. ASSUME NEW j \in Job, Read(j)
      PROVE  IInv'
  <2>1. /\ job[j] = "read" /\ job'[j] \in {"insert", "failed"}
        /\ UNCHANGED <<history, who, batch>>
        /\ known'[j] \subseteq HashesOf(who[j])
        /\ \A k \in Job \ {j} : job'[k] = job[k] /\ known'[k] = known[k]
    BY <1>0, <1>3 DEF OwnHashes, Read, TypeOK
  <2>2. TypeOK'
    BY <1>0, <1>3 DEF OwnHashes, Read, TypeOK, Running
  <2>3. QED
    BY <1>0, <2>1, <2>2
<1>4. ASSUME NEW j \in Job, Insert(j)
      PROVE  IInv'
  <2>0. /\ job[j] = "insert" /\ UNCHANGED <<who, batch, known>>
        /\ \A k \in Job \ {j} : job'[k] = job[k]
        /\ \/ job'[j] = "recorded" /\ history' = history \cup Rows(j)
           \/ job'[j] = "refused" /\ history' = history
           \/ job'[j] = "failed" /\ history' = history
        /\ job'[j] = "refused" => ~Accepts(HashesOf(who[j]), Fresh(j))
    BY <1>4, InsertCases
  <2>1. /\ job[j] = "insert" /\ UNCHANGED <<who, batch, known>>
        /\ \A k \in Job \ {j} : job'[k] = job[k]
        /\ history \subseteq history'
    BY <2>0
  <2>2. job' \in [Job -> Running \cup {"idle", "recorded", "refused", "failed", "invalid", "killed"}]
    BY <1>0, <1>4 DEF Unique, Insert, TypeOK
  <2>3. who[j] \in User /\ Range(batch[j]) \subseteq Hash
    BY <1>0, <2>1, HistoryAssumption
  <2>4. TypeOK'
    BY <1>0, <2>0, <2>2, <2>3 DEF TypeOK
  <2>5. StartInv' /\ KnownInv'
    BY <1>0, <2>0, <2>1
  <2>6. OwnRequestsOnly'
    BY <2>0
  <2>7. RecordedIsThere'
    BY <2>0
  <2>8. SingleIsThere'
    BY <2>0, RefusedSingle
  <2>9. QED
    BY <2>4, <2>5, <2>6, <2>7, <2>8
<1>5. CASE Halt
  <2>1. /\ UNCHANGED <<history, who, batch, known>>
        /\ \A k \in Job : job'[k] = IF job[k] \in Running THEN "killed" ELSE job[k]
    BY <1>5 DEF Halt
  <2>2. TypeOK'
    BY <1>0, <1>5 DEF Halt, TypeOK
  <2>3. StartInv' /\ KnownInv'
    BY <1>0, <2>1 DEF Running
  <2>4. \A k \in Job : /\ job'[k] = "recorded" <=> job[k] = "recorded"
                       /\ job'[k] = "refused" <=> job[k] = "refused"
    BY <2>1 DEF Running
  <2>5. OwnRequestsOnly' /\ RecordedIsThere' /\ SingleIsThere'
    BY <2>1, <2>4
  <2>6. QED
    BY <2>2, <2>3, <2>5
<1>6. CASE UNCHANGED vars
  BY <1>6 DEF vars, TypeOK
<1>7. QED
  BY <1>1, <1>2, <1>3, <1>4, <1>5, <1>6 DEF Next, Step, Over

\* Nobody has asked for anything.
LEMMA InitInv == Init => IInv
BY DEF Init, IInv, TypeOK, StartInv, KnownInv, OwnRequestsOnly, RecordedIsThere,
       SingleIsThere, HashesOf, Rows, Range

\* Every reachable state of the history jobs satisfies the inductive invariant.
THEOREM Inductive == Spec => []IInv
BY InitInv, InvStep, PTL DEF Spec

\* Type correctness; in particular no row is ever stored for an invalid token.
THEOREM TypeCorrect == Spec => []TypeOK
<1>1. IInv => TypeOK
  BY DEF IInv
<1>2. QED
  BY <1>1, Inductive, PTL

\* A user's history holds only what was returned to requests of that user.
THEOREM OwnOnly == Spec => []OwnRequestsOnly
<1>1. IInv => OwnRequestsOnly
  BY DEF IInv
<1>2. QED
  BY <1>1, Inductive, PTL

\* Leaving out what was read loses nothing: a recorded batch is in the history for good.
THEOREM BatchRecorded == Spec => []RecordedIsThere
<1>1. IInv => RecordedIsThere
  BY DEF IInv
<1>2. QED
  BY <1>1, Inductive, PTL

\* However jobs race, a refused job for one hash has lost nothing.
THEOREM SinglesRecorded == Spec => []SingleIsThere
<1>1. IInv => SingleIsThere
  BY DEF IInv
<1>2. QED
  BY <1>1, Inductive, PTL

-----------------------------------------------------------------------------
(* Why inserts are refused *)

\* Every row was inserted by a job of its user that had not read it and has recorded.
InsertedInv ==
    \A row \in history : \E k \in Job :
        job[k] = "recorded" /\ who[k] = row[1] /\ row[2] \in Range(Fresh(k))

\* A job that has ended changes no more.
LEMMA EndedStays ==
  ASSUME IInv, [Next]_vars, NEW j \in Job, job[j] \in {"recorded", "refused"}
  PROVE  /\ job'[j] = job[j] /\ who'[j] = who[j] /\ Fresh(j)' = Fresh(j)
<1>0. TypeOK
  BY DEF IInv
<1>1. job'[j] = job[j] /\ who'[j] = who[j] /\ batch'[j] = batch[j] /\ known'[j] = known[j]
  <2>1. ASSUME NEW k \in Job, NEW u \in User \cup {"stranger"}, NEW b \in Batches,
               Start(k, u, b)
        PROVE  /\ job'[j] = job[j] /\ who'[j] = who[j]
               /\ batch'[j] = batch[j] /\ known'[j] = known[j]
    BY <1>0, <2>1 DEF Start, TypeOK
  <2>2. ASSUME NEW k \in Job, Step(k)
        PROVE  /\ job'[j] = job[j] /\ who'[j] = who[j]
               /\ batch'[j] = batch[j] /\ known'[j] = known[j]
    BY <1>0, <2>2 DEF Step, Validate, Read, Insert, TypeOK
  <2>3. CASE Halt
    BY <2>3 DEF Halt, Running
  <2>4. CASE UNCHANGED vars
    BY <2>4 DEF vars
  <2>5. QED
    BY <2>1, <2>2, <2>3, <2>4 DEF Next, Over
<1>2. QED
  BY <1>1 DEF Fresh

\* Only an accepted insert adds rows, those of its fresh hashes.
LEMMA TableGrows ==
  ASSUME IInv, [Next]_vars
  PROVE  \/ history' = history
         \/ \E j \in Job : /\ history' = history \cup {<<who[j], h>> : h \in Range(Fresh(j))}
                           /\ job'[j] = "recorded" /\ who' = who /\ Fresh(j)' = Fresh(j)
<1>1. ASSUME NEW j \in Job, Insert(j)
      PROVE  \/ history' = history
             \/ /\ history' = history \cup {<<who[j], h>> : h \in Range(Fresh(j))}
                /\ job'[j] = "recorded" /\ who' = who /\ Fresh(j)' = Fresh(j)
  BY <1>1 DEF Insert, IInv, TypeOK, Fresh
<1>2. QED
  BY <1>1 DEF Next, Step, Start, Validate, Read, Halt, Over, vars

LEMMA InsertedStep ==
  ASSUME IInv, InsertedInv, [Next]_vars
  PROVE  InsertedInv'
<1> SUFFICES ASSUME NEW row \in history'
             PROVE  \E k \in Job : /\ job'[k] = "recorded" /\ who'[k] = row[1]
                                   /\ row[2] \in Range(Fresh(k)')
  BY DEF InsertedInv, Range
<1>1. CASE row \in history
  <2>1. PICK k \in Job : job[k] = "recorded" /\ who[k] = row[1] /\ row[2] \in Range(Fresh(k))
    BY <1>1 DEF InsertedInv
  <2>2. job'[k] = "recorded" /\ who'[k] = who[k] /\ Fresh(k)' = Fresh(k)
    BY <2>1, EndedStays
  <2>3. QED
    BY <2>1, <2>2
<1>2. CASE row \notin history
  <2>1. PICK j \in Job : /\ history' = history \cup {<<who[j], h>> : h \in Range(Fresh(j))}
                         /\ job'[j] = "recorded" /\ who' = who /\ Fresh(j)' = Fresh(j)
    BY <1>2, TableGrows
  <2>2. PICK h \in Range(Fresh(j)) : row = <<who[j], h>>
    BY <1>2, <2>1
  <2>3. QED
    BY <2>1, <2>2
<1>3. QED
  BY <1>1, <1>2

\* A hash in the way of an insert was recorded by another job of the same user.
LEMMA RefusedStep ==
  ASSUME IInv, InsertedInv, RefusedForAReason, [Next]_vars
  PROVE  RefusedForAReason'
<1> SUFFICES ASSUME NEW j \in Job, job'[j] = "refused"
             PROVE  \/ DOMAIN Fresh(j)' = {}
                    \/ ~IsInjective(Fresh(j)')
                    \/ \E k \in Job \ {j} :
                          /\ job'[k] = "recorded" /\ who'[k] = who'[j]
                          /\ Range(Fresh(k)') \cap Range(Fresh(j)') # {}
  BY DEF RefusedForAReason, Range, IsInjective
<1>1. ASSUME NEW k \in Job \ {j}, job[k] = "recorded", who[k] = who[j],
             who'[j] = who[j], Fresh(j)' = Fresh(j),
             Range(Fresh(k)) \cap Range(Fresh(j)) # {}
      PROVE  /\ job'[k] = "recorded" /\ who'[k] = who'[j]
             /\ Range(Fresh(k)') \cap Range(Fresh(j)') # {}
  <2>1. job'[k] = "recorded" /\ who'[k] = who[k] /\ Fresh(k)' = Fresh(k)
    BY <1>1, EndedStays
  <2>2. QED
    BY <1>1, <2>1
<1>2. CASE job[j] = "refused"
  <2>1. who'[j] = who[j] /\ Fresh(j)' = Fresh(j)
    BY <1>2, EndedStays
  <2>2. \/ DOMAIN Fresh(j) = {}
        \/ ~IsInjective(Fresh(j))
        \/ \E k \in Job \ {j} : /\ job[k] = "recorded" /\ who[k] = who[j]
                                /\ Range(Fresh(k)) \cap Range(Fresh(j)) # {}
    BY <1>2 DEF RefusedForAReason
  <2>3. QED
    BY <1>1, <2>1, <2>2
<1>3. CASE Insert(j)
  <2>1. /\ job[j] = "insert" /\ UNCHANGED <<who, batch, known>>
        /\ ~Accepts(HashesOf(who[j]), Fresh(j))
    BY <1>3, InsertCases
  <2>2. who'[j] = who[j] /\ Fresh(j)' = Fresh(j)
    BY <2>1 DEF Fresh
  <2>3. CASE Range(Fresh(j)) \cap HashesOf(who[j]) # {}
    <3>1. PICK h \in Range(Fresh(j)) : <<who[j], h>> \in history
      BY <2>3 DEF HashesOf
    <3>2. PICK k \in Job : job[k] = "recorded" /\ who[k] = who[j] /\ h \in Range(Fresh(k))
      BY <3>1 DEF InsertedInv
    <3>3. k # j
      BY <2>1, <3>2
    <3>4. Range(Fresh(k)) \cap Range(Fresh(j)) # {}
      BY <3>1, <3>2
    <3>5. QED
      BY <1>1, <2>2, <3>2, <3>3, <3>4
  <2>4. QED
    BY <2>1, <2>2, <2>3 DEF Accepts
<1>4. job[j] = "refused" \/ Insert(j)
  <2>1. TypeOK
    BY DEF IInv
  <2>2. ASSUME NEW k \in Job, NEW u \in User \cup {"stranger"}, NEW b \in Batches,
               Start(k, u, b)
        PROVE  job[j] = "refused"
    BY <2>1, <2>2 DEF Start, TypeOK
  <2>3. ASSUME NEW k \in Job, Validate(k) \/ Read(k) \/ (k # j /\ Insert(k))
        PROVE  job[j] = "refused"
    BY <2>1, <2>3 DEF Validate, Read, Insert, TypeOK
  <2>4. CASE Halt
    BY <2>4 DEF Halt
  <2>5. CASE UNCHANGED vars
    BY <2>5 DEF vars
  <2>6. QED
    BY <2>2, <2>3, <2>4, <2>5 DEF Next, Step, Over
<1>5. QED
  BY <1>2, <1>3, <1>4

\* However many jobs race, a refused insert has one of the three reasons.
THEOREM ReasonedRefusals == Spec => []RefusedForAReason
<1>1. Init => InsertedInv /\ RefusedForAReason
  BY DEF Init, InsertedInv, RefusedForAReason
<1>2. IInv /\ (InsertedInv /\ RefusedForAReason) /\ [Next]_vars
         => (InsertedInv /\ RefusedForAReason)'
  BY InsertedStep, RefusedStep
<1>3. QED
  BY <1>1, <1>2, Inductive, PTL DEF Spec

-----------------------------------------------------------------------------
(* The jobs implement the ledger *)

\* A job that does not record and only moves on, or ends, is invisible or dropped.
LEMMA MovesOn ==
  ASSUME TypeOK, NEW js \in SUBSET Job, UNCHANGED <<history, who, batch>>,
         \A j \in js : job[j] \in Running,
         \A j \in js : job'[j] \in {"refused", "failed", "invalid", "killed"},
         \A j \in Job \ js : Outcome(j)' = Outcome(j)
  PROVE  Ledger!Drop(js)
<1>1. \A j \in js : Outcome(j) = "open" /\ Outcome(j)' = "dropped"
  BY DEF Outcome, Running
<1>2. [j \in Job |-> Outcome(j)]' = [j \in Job |-> IF j \in js THEN "dropped" ELSE Outcome(j)]
  BY <1>1
<1>3. [j \in Job |-> Rows(j)]' = [j \in Job |-> Rows(j)]
  BY DEF Rows
<1>4. QED
  BY <1>1, <1>2, <1>3 DEF Ledger!Drop, Outcome

\* Every step of a job is a step of the ledger or invisible to it.
LEMMA StepLedger == IInv /\ [Next]_vars => [Ledger!Next]_(Ledger!ledgerVars)
<1> SUFFICES ASSUME IInv, [Next]_vars
             PROVE  Ledger!Next \/ UNCHANGED Ledger!ledgerVars
  OBVIOUS
<1>0. TypeOK /\ StartInv
  BY DEF IInv
<1>1. ASSUME NEW j \in Job, NEW u \in User \cup {"stranger"}, NEW b \in Batches, Start(j, u, b)
      PROVE  Ledger!Open(j)
  <2>1. /\ job[j] = "idle" /\ history' = history
        /\ job' = [job EXCEPT ![j] = "validate"] /\ who'[j] = u /\ batch'[j] = b
        /\ \A k \in Job \ {j} : who'[k] = who[k] /\ batch'[k] = batch[k]
    BY <1>0, <1>1 DEF Start, TypeOK
  <2>2. [k \in Job |-> Outcome(k)]' = [[k \in Job |-> Outcome(k)] EXCEPT ![j] = "open"]
    BY <1>0, <2>1 DEF Outcome, Running, TypeOK
  <2>3. [k \in Job |-> Rows(k)]'
           = [[k \in Job |-> Rows(k)] EXCEPT ![j] = {<<u, h>> : h \in Range(b)}]
    BY <2>1 DEF Rows
  <2>4. Range(b) \in SUBSET Hash
    BY HistoryAssumption
  <2>5. \E v \in User \cup {"stranger"}, S \in SUBSET Hash :
           [k \in Job |-> Rows(k)]'
              = [[k \in Job |-> Rows(k)] EXCEPT ![j] = {<<v, h>> : h \in S}]
    <3> Range(b) \in SUBSET Hash
      BY <2>4
    <3> WITNESS u \in User \cup {"stranger"}, Range(b) \in SUBSET Hash
    <3> QED
      BY <2>3
  <2>6. Outcome(j) = "none"
    BY <2>1 DEF Outcome
  <2>7. QED
    BY <2>1, <2>2, <2>5, <2>6 DEF Ledger!Open, Outcome
<1>2. ASSUME NEW j \in Job, NEW next \in Running,
             job[j] \in Running, UNCHANGED <<history, who, batch>>,
             job' = [job EXCEPT ![j] = next]
      PROVE  UNCHANGED Ledger!ledgerVars
  <2>1. \A k \in Job : Outcome(k)' = Outcome(k)
    BY <1>0, <1>2 DEF Outcome, Running, TypeOK
  <2>2. \A k \in Job : Rows(k)' = Rows(k)
    BY <1>2 DEF Rows
  <2>3. QED
    BY <1>2, <2>1, <2>2 DEF Ledger!ledgerVars, Outcome
<1>3. ASSUME NEW j \in Job, NEW end \in {"refused", "failed", "invalid"},
             job[j] \in Running, UNCHANGED <<history, who, batch>>,
             job' = [job EXCEPT ![j] = end]
      PROVE  Ledger!Drop({j})
  BY <1>0, <1>3, MovesOn DEF Outcome, TypeOK
<1>4. ASSUME NEW j \in Job, Validate(j)
      PROVE  Ledger!Next \/ UNCHANGED Ledger!ledgerVars
  BY <1>2, <1>3, <1>4 DEF Valid, Validate, Running, Ledger!Next
<1>5. ASSUME NEW j \in Job, Read(j)
      PROVE  Ledger!Next \/ UNCHANGED Ledger!ledgerVars
  BY <1>2, <1>3, <1>5 DEF OwnHashes, Read, Running, Ledger!Next
<1>6. ASSUME NEW j \in Job, Insert(j)
      PROVE  Ledger!Next \/ UNCHANGED Ledger!ledgerVars
  <2>1. CASE history' = history \cup Rows(j) /\ job' = [job EXCEPT ![j] = "recorded"]
    <3>1. job[j] = "insert" /\ UNCHANGED <<who, batch>>
      BY <1>6 DEF Unique, Insert
    <3>2. [k \in Job |-> Outcome(k)]' = [[k \in Job |-> Outcome(k)] EXCEPT ![j] = "recorded"]
      BY <1>0, <2>1 DEF Outcome, Running, TypeOK
    <3>3. [k \in Job |-> Rows(k)]' = [k \in Job |-> Rows(k)]
      BY <3>1 DEF Rows
    <3>4. Ledger!Record(j)
      BY <2>1, <3>1, <3>2, <3>3 DEF Ledger!Record, Outcome, Running
    <3>5. QED
      BY <3>4 DEF Ledger!Next
  <2>2. ASSUME NEW end \in {"refused", "failed"},
               job' = [job EXCEPT ![j] = end], history' = history
        PROVE  Ledger!Next
    BY <1>3, <1>6, <2>2 DEF Unique, Insert, Running, Ledger!Next
  <2>3. QED
    BY <1>6, <2>1, <2>2, FreshCompletes DEF Unique, Insert
<1>7. CASE Halt
  <2> DEFINE js == {j \in Job : job[j] \in Running}
  <2>1. UNCHANGED <<history, who, batch>>
    BY <1>7 DEF Halt
  <2>2. \A j \in js : job[j] \in Running /\ job'[j] = "killed"
    BY <1>7 DEF Halt
  <2>3. \A j \in Job \ js : job'[j] = job[j]
    BY <1>7 DEF Halt
  <2>4. \A j \in Job \ js : Outcome(j)' = Outcome(j)
    BY <2>3 DEF Outcome
  <2>5. js \in SUBSET Job
    OBVIOUS
  <2> HIDE DEF js
  <2>6. Ledger!Drop(js)
    BY <1>0, <2>1, <2>2, <2>4, <2>5, MovesOn
  <2>7. \E ks \in SUBSET Job : Ledger!Drop(ks)
    BY <2>5, <2>6, Zenon
  <2>8. QED
    BY <2>7, Zenon DEF Ledger!Next
<1>8. CASE UNCHANGED vars
  BY <1>8 DEF vars, Ledger!ledgerVars, Rows, Outcome
<1>9. QED
  BY <1>1, <1>4, <1>5, <1>6, <1>7, <1>8 DEF Next, Step, Over, Ledger!Next

\* Saving to a history, with its read and its unique index, implements the ledger: a batch
\* is recorded as a whole or dropped as a whole, and nothing recorded goes away.
THEOREM ImplementsLedger == Spec => KeepsLedger
<1>1. Init => Ledger!Init
  <2>1. Init => \A j \in Job : Rows(j) = {} /\ job[j] = "idle"
    BY DEF Init, Rows, Range
  <2>2. QED
    BY <2>1 DEF Init, Ledger!Init, Outcome
<1>2. QED
  BY <1>1, StepLedger, Inductive, PTL DEF Spec, KeepsLedger, Ledger!Spec

-----------------------------------------------------------------------------
(* What the ledger is good for *)

\* The ledger alone makes histories complete and own: whatever else changes in how jobs read
\* and insert, if they keep it, a recorded job's rows are there and there is no other row.
THEOREM LedgerSuffices == KeepsLedger => [](RecordedIsThere /\ OwnRequestsOnly)
<1> DEFINE entries == [j \in Job |-> Rows(j)]
           outcomes == [j \in Job |-> Outcome(j)]
           LInv == /\ \A j \in Job : outcomes[j] = "recorded" => entries[j] \subseteq history
                   /\ \A row \in history : \E j \in Job :
                         outcomes[j] = "recorded" /\ row \in entries[j]
<1>1. Ledger!Init => LInv
  BY DEF Ledger!Init
<1>2. LInv /\ [Ledger!Next]_(Ledger!ledgerVars) => LInv'
  <2> SUFFICES ASSUME LInv, [Ledger!Next]_(Ledger!ledgerVars)
               PROVE  LInv'
    OBVIOUS
  <2>1. ASSUME NEW j \in Job, Ledger!Open(j)
        PROVE  LInv'
    <3>1. /\ outcomes[j] = "none" /\ outcomes' = [outcomes EXCEPT ![j] = "open"]
          /\ \A k \in Job \ {j} : entries'[k] = entries[k]
          /\ history' = history
      BY <2>1 DEF Ledger!Open
    <3> HIDE DEF entries, outcomes
    <3>2. outcomes'[j] = "open" /\ \A k \in Job \ {j} : outcomes'[k] = outcomes[k]
      BY <3>1 DEF outcomes
    <3>3. QED
      BY <3>1, <3>2
  <2>2. ASSUME NEW j \in Job, Ledger!Record(j)
        PROVE  LInv'
    <3>1. /\ outcomes' = [outcomes EXCEPT ![j] = "recorded"]
          /\ entries' = entries /\ history' = history \cup entries[j]
      BY <2>2 DEF Ledger!Record
    <3>2. outcomes'[j] = "recorded" /\ \A k \in Job \ {j} : outcomes'[k] = outcomes[k]
      BY <3>1
    <3> HIDE DEF entries, outcomes
    <3>3. QED
      BY <3>1, <3>2
  <2>3. ASSUME NEW js \in SUBSET Job, Ledger!Drop(js)
        PROVE  LInv'
    <3>1. /\ \A j \in js : outcomes[j] = "open"
          /\ \A j \in Job : outcomes'[j] = IF j \in js THEN "dropped" ELSE outcomes[j]
          /\ entries' = entries /\ history' = history
      BY <2>3 DEF Ledger!Drop
    <3> HIDE DEF entries, outcomes
    <3>2. \A j \in Job : outcomes'[j] = "recorded" <=> outcomes[j] = "recorded"
      BY <3>1
    <3>3. QED
      BY <3>1, <3>2
  <2>4. CASE UNCHANGED Ledger!ledgerVars
    BY <2>4 DEF Ledger!ledgerVars
  <2>5. QED
    BY <2>1, <2>2, <2>3, <2>4 DEF Ledger!Next
<1>3. LInv => RecordedIsThere /\ OwnRequestsOnly
  <2>1. \A j \in Job : outcomes[j] = "recorded" <=> job[j] = "recorded"
    BY DEF Outcome, Running
  <2>2. QED
    BY <2>1 DEF RecordedIsThere, OwnRequestsOnly
<1> HIDE DEF LInv
<1>4. QED
  BY <1>1, <1>2, <1>3, PTL DEF KeepsLedger, Ledger!Spec
=============================================================================
