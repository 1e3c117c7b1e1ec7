--------------------------- MODULE NodeFetchProofs ---------------------------
(***************************************************************************)
(* Proofs about NodeFetch, for every number of hashes and every set of     *)
(* blocks.                                                                 *)
(***************************************************************************)
EXTENDS NodeFetch, FiniteSetTheorems, SequenceTheorems, TLAPS

\* Goroutines whose result the caller has received.
Heard(i) == pc[i] \in {"done", "exited"}

\* The go loop: the closer starts, and the range loop begins, after the last goroutine.
SpawnInv ==
    /\ \A i \in Position : pc[i] = "none" <=> i >= ind
    /\ caller # "spawn" => ind = N + 1
    /\ caller = "spawn" <=> closer = "none"
    /\ caller = "returned" => closer = "closed"

\* The WaitGroup counts the live goroutines, so the channel closes after them.
WaitInv ==
    /\ waitGrp = Cardinality(Live)
    /\ closer = "closed" => Live = {}

\* A result in hand is an error or a block of the transaction during the call.
ResInv ==
    /\ \A i \in Position : node[i] \in Block => node[i] \in seen[i]
    /\ \A i \in Position : res[i] \in Block => res[i] \in seen[i]
    /\ \A i \in Position : pc[i] \in {"network", "send", "done", "exited"} =>
          res[i] # "none"

\* The caller has filed exactly the results it has received, each once.
FileInv ==
    /\ \A k \in DOMAIN results :
          Heard(results[k][1]) /\ results[k][2] = res[results[k][1]]
    /\ \A k, l \in DOMAIN results : results[k][1] = results[l][1] => k = l
    /\ \A i \in Position : i \in aggrErr <=> Heard(i) /\ res[i] = "error"
    /\ \A i \in Position : Heard(i) /\ res[i] # "error" =>
          \E k \in DOMAIN results : results[k][1] = i

IInv == TypeOK /\ SpawnInv /\ WaitInv /\ ResInv /\ FileInv

-----------------------------------------------------------------------------

\* Only finitely many goroutines are live, so they can be counted.
LEMMA LiveFinite == IsFiniteSet(Live) /\ Cardinality(Live) \in Nat
<1>1. IsFiniteSet(Position)
  BY FetchAssumption, FS_Interval DEF Position
<1>2. Live \in SUBSET Position
  BY DEF Live
<1>3. QED
  BY <1>1, <1>2, FS_Subset, FS_CardinalityType

\* Receiving appends one entry and keeps the others in their places.
LEMMA Appended ==
  ASSUME NEW S, NEW s \in Seq(S), NEW e \in S
  PROVE  /\ Append(s, e) \in Seq(S)
         /\ Len(s) \in Nat
         /\ DOMAIN s = 1..Len(s)
         /\ DOMAIN Append(s, e) = 1..(Len(s) + 1)
         /\ \A k \in 1..Len(s) : Append(s, e)[k] = s[k]
         /\ Append(s, e)[Len(s) + 1] = e
<1>1. Append(s, e) \in Seq(S) /\ Len(Append(s, e)) = Len(s) + 1
  BY AppendProperties
<1>2. QED
  BY <1>1, AppendProperties, LenProperties

\* The counter never goes below zero: a goroutine that calls Done is itself counted.
LEMMA TypeStep == TypeOK /\ WaitInv /\ ResInv /\ [Next]_vars => TypeOK'
<1> SUFFICES ASSUME TypeOK, WaitInv, ResInv, [Next]_vars
             PROVE  TypeOK'
  OBVIOUS
<1> USE FetchAssumption DEF TypeOK, Position, callVars, nodeVars
<1>1. CASE Spawn
  BY <1>1 DEF Spawn, Label
<1>2. CASE SpawnCloser
  BY <1>2 DEF SpawnCloser
<1>3. CASE CloseChannel
  BY <1>3 DEF CloseChannel
<1>4. CASE Return
  BY <1>4 DEF Ended, Return
<1>5. ASSUME NEW i \in Position, Rpc(i)
      PROVE  TypeOK'
  BY <1>5 DEF Rpc, TransactionByHash, TransactionReceipt, NetworkID, Answered, Label
<1>6. ASSUME NEW i \in Position, Deliver(i)
      PROVE  TypeOK'
  <2>1. CASE res[i] = "error"
    BY <1>6, <2>1 DEF Deliver, Label
  <2>2. CASE res[i] # "error"
    <3>1. <<i, res[i]>> \in Position \X Block
      BY <1>6, <2>2 DEF Deliver, ResInv
    <3>2. Append(results, <<i, res[i]>>) \in Seq(Position \X Block)
      BY <3>1, Appended
    <3>3. QED
      BY <1>6, <2>2, <3>2 DEF Deliver, Label
  <2>3. QED
    BY <2>1, <2>2
<1>7. ASSUME NEW i \in Position, Done(i)
      PROVE  TypeOK'
  <2>1. i \in Live
    BY <1>7 DEF DoneCalls, Done, Live
  <2>2. waitGrp - 1 \in Nat
    BY <2>1, LiveFinite, FS_EmptySet DEF WaitInv
  <2>3. QED
    BY <1>7, <2>2 DEF DoneCalls, Done, Label
<1>8. ASSUME NEW i \in Position, NodeMove(i)
      PROVE  TypeOK'
  BY <1>8 DEF NodeMove
<1>9. CASE Cancel
  BY <1>9 DEF Cancel
<1>10. CASE UNCHANGED vars
  BY <1>10 DEF vars
<1>11. QED
  BY <1>1, <1>2, <1>3, <1>4, <1>5, <1>6, <1>7, <1>8, <1>9, <1>10
     DEF Next, Goroutine, Over

\* The closer and the range loop start after the last spawn, and only then.
LEMMA SpawnStep == TypeOK /\ SpawnInv /\ [Next]_vars => SpawnInv'
<1> SUFFICES ASSUME TypeOK, SpawnInv, [Next]_vars
             PROVE  SpawnInv'
  OBVIOUS
<1> USE FetchAssumption DEF TypeOK, SpawnInv, Position, callVars, nodeVars
<1>1. CASE Spawn
  BY <1>1 DEF Spawn
<1>2. CASE SpawnCloser
  BY <1>2 DEF SpawnCloser
<1>3. CASE CloseChannel
  BY <1>3 DEF CloseChannel
<1>4. CASE Return
  BY <1>4 DEF Ended, Return
<1>5. ASSUME NEW i \in Position, Rpc(i)
      PROVE  SpawnInv'
  BY <1>5 DEF Rpc, TransactionByHash, TransactionReceipt, NetworkID, Answered
<1>6. ASSUME NEW i \in Position, Deliver(i) \/ Done(i)
      PROVE  SpawnInv'
  BY <1>6 DEF DoneCalls, Deliver, Done
<1>7. ASSUME NEW i \in Position, NodeMove(i)
      PROVE  SpawnInv'
  BY <1>7 DEF NodeMove
<1>8. CASE Cancel
  BY <1>8 DEF Cancel
<1>9. CASE UNCHANGED vars
  BY <1>9 DEF vars
<1>10. QED
  BY <1>1, <1>2, <1>3, <1>4, <1>5, <1>6, <1>7, <1>8, <1>9 DEF Next, Goroutine, Over

\* A spawn adds one live goroutine and one to the counter, a Done takes one of each.
LEMMA WaitStep == TypeOK /\ SpawnInv /\ WaitInv /\ [Next]_vars => WaitInv'
<1> SUFFICES ASSUME TypeOK, SpawnInv, WaitInv, [Next]_vars
             PROVE  WaitInv'
  OBVIOUS
<1> USE FetchAssumption DEF TypeOK, WaitInv, callVars, nodeVars
<1>1. CASE Spawn
  <2>1. ind \in Position /\ ind \notin Live
    BY <1>1 DEF Spawn, SpawnInv, Position, Live
  <2>2. Live' = Live \cup {ind}
    BY <1>1, <2>1 DEF Spawn, Live, Label
  <2>3. Cardinality(Live') = Cardinality(Live) + 1
    BY <2>1, <2>2, LiveFinite, FS_AddElement
  <2>4. closer # "closed"
    BY <1>1 DEF Spawn, SpawnInv
  <2>5. QED
    BY <1>1, <2>3, <2>4 DEF Spawn
<1>2. CASE SpawnCloser
  BY <1>2 DEF SpawnCloser, Live
<1>3. CASE CloseChannel
  <2>1. Live = {}
    BY <1>3, LiveFinite, FS_EmptySet DEF CloseChannel
  <2>2. QED
    BY <1>3, <2>1 DEF CloseChannel, Live
<1>4. CASE Return
  BY <1>4 DEF Ended, Return, Live
<1>5. ASSUME NEW i \in Position, Rpc(i) \/ Deliver(i)
      PROVE  WaitInv'
  <2>1. Live' = Live
    BY <1>5 DEF Rpc, TransactionByHash, TransactionReceipt, NetworkID, Answered, Deliver,
                Live
  <2>2. QED
    BY <1>5, <2>1 DEF Rpc, TransactionByHash, TransactionReceipt, NetworkID, Answered, Deliver
<1>6. ASSUME NEW i \in Position, Done(i)
      PROVE  WaitInv'
  <2>1. i \in Live
    BY <1>6 DEF DoneCalls, Done, Live
  <2>2. Live' = Live \ {i}
    BY <1>6 DEF DoneCalls, Done, Live, Label
  <2>3. Cardinality(Live') = Cardinality(Live) - 1
    BY <2>1, <2>2, LiveFinite, FS_RemoveElement
  <2>4. QED
    BY <1>6, <2>1, <2>3 DEF DoneCalls, Done
<1>7. ASSUME NEW i \in Position, NodeMove(i)
      PROVE  WaitInv'
  BY <1>7 DEF NodeMove, Live
<1>8. CASE Cancel
  BY <1>8 DEF Cancel, Live
<1>9. CASE UNCHANGED vars
  BY <1>9 DEF vars, Live
<1>10. QED
  BY <1>1, <1>2, <1>3, <1>4, <1>5, <1>6, <1>7, <1>8, <1>9 DEF Next, Goroutine, Over

\* A block is only taken from the node, which had the transaction in it at that time.
LEMMA ResStep == TypeOK /\ ResInv /\ [Next]_vars => ResInv'
<1> SUFFICES ASSUME TypeOK, ResInv, [Next]_vars
             PROVE  ResInv'
  OBVIOUS
<1> USE FetchAssumption DEF TypeOK, ResInv, callVars, nodeVars
<1>1. CASE Spawn
  BY <1>1 DEF Spawn, Position
<1>2. CASE SpawnCloser \/ CloseChannel \/ Return \/ Cancel
  BY <1>2 DEF Ended, SpawnCloser, CloseChannel, Return, Cancel
<1>3. ASSUME NEW i \in Position, TransactionByHash(i)
      PROVE  ResInv'
  BY <1>3 DEF TransactionByHash, Answered
<1>4. ASSUME NEW i \in Position, TransactionReceipt(i)
      PROVE  ResInv'
  BY <1>4 DEF TransactionReceipt, Answered
<1>5. ASSUME NEW i \in Position, NetworkID(i)
      PROVE  ResInv'
  BY <1>5 DEF NetworkID, Answered
<1>6. ASSUME NEW i \in Position, Deliver(i) \/ Done(i)
      PROVE  ResInv'
  BY <1>6 DEF DoneCalls, Deliver, Done
<1>7. ASSUME NEW i \in Position, NodeMove(i)
      PROVE  ResInv'
  BY <1>7 DEF NodeMove, NodeState
<1>8. CASE UNCHANGED vars
  BY <1>8 DEF vars
<1>9. QED
  BY <1>1, <1>2, <1>3, <1>4, <1>5, <1>6, <1>7, <1>8 DEF Next, Goroutine, Rpc, Over

\* The caller files a result in the step that lets its goroutine go on, and the goroutine
\* does not touch the result afterwards.
LEMMA FileStep == TypeOK /\ SpawnInv /\ ResInv /\ FileInv /\ [Next]_vars => FileInv'
<1> SUFFICES ASSUME TypeOK, SpawnInv, ResInv, FileInv, [Next]_vars
             PROVE  FileInv'
  OBVIOUS
<1> USE FetchAssumption DEF TypeOK, FileInv, Heard, callVars, nodeVars
<1>e. \A k \in DOMAIN results : results[k] \in Position \X Block
  OBVIOUS
<1>1. CASE Spawn
  BY <1>1, <1>e DEF Spawn, Position, SpawnInv
<1>2. CASE SpawnCloser \/ CloseChannel \/ Return \/ Cancel
  BY <1>2 DEF Ended, SpawnCloser, CloseChannel, Return, Cancel
<1>3. ASSUME NEW i \in Position, Rpc(i)
      PROVE  FileInv'
  <2>1. pc[i] \in {"byHash", "receipt", "network"} /\ pc'[i] \in {"receipt", "network", "send"}
    BY <1>3 DEF Rpc, TransactionByHash, TransactionReceipt, NetworkID, Answered
  <2>2. \A j \in Position \ {i} : pc'[j] = pc[j] /\ res'[j] = res[j]
    BY <1>3 DEF Rpc, TransactionByHash, TransactionReceipt, NetworkID, Answered
  <2>3. UNCHANGED <<results, aggrErr>>
    BY <1>3 DEF Rpc, TransactionByHash, TransactionReceipt, NetworkID, Answered
  <2>4. \A k \in DOMAIN results : results[k][1] \in Position \ {i}
    BY <1>e, <2>1
  <2>5. QED
    BY <2>1, <2>2, <2>3, <2>4, <1>e
<1>4. ASSUME NEW i \in Position, Deliver(i)
      PROVE  FileInv'
  <2>1. /\ pc[i] = "send" /\ pc'[i] = "done" /\ res' = res
        /\ \A j \in Position \ {i} : pc'[j] = pc[j]
    BY <1>4 DEF Deliver
  <2>2. \A k \in DOMAIN results : results[k][1] \in Position \ {i}
    BY <1>e, <2>1
  <2>3. CASE res[i] = "error"
    <3>1. aggrErr' = aggrErr \cup {i} /\ results' = results
      BY <1>4, <2>3 DEF Deliver
    <3>2. QED
      BY <2>1, <2>2, <2>3, <3>1, <1>e
  <2>4. CASE res[i] # "error"
    <3>1. results' = Append(results, <<i, res[i]>>) /\ aggrErr' = aggrErr
      BY <1>4, <2>4 DEF Deliver
    <3>2. <<i, res[i]>> \in Position \X Block
      BY <2>1, <2>4 DEF ResInv
    <3> DEFINE n == Len(results)
    <3>3. /\ n \in Nat /\ DOMAIN results = 1..n /\ DOMAIN results' = 1..(n + 1)
          /\ \A k \in 1..n : results'[k] = results[k]
          /\ results'[n + 1] = <<i, res[i]>>
      BY <3>1, <3>2, Appended
    <3> HIDE DEF n
    <3>4. \A k \in DOMAIN results' : k \in 1..n \/ k = n + 1
      BY <3>3
    <3>5. \A k \in DOMAIN results' :
             pc'[results'[k][1]] \in {"done", "exited"} /\ results'[k][2] = res'[results'[k][1]]
      BY <2>1, <2>2, <3>3, <3>4, <1>e
    <3>6. \A k, l \in DOMAIN results' : results'[k][1] = results'[l][1] => k = l
      BY <2>2, <3>3, <3>4
    <3>7. \A j \in Position : 
           j \in aggrErr' <=> pc'[j] \in {"done", "exited"} /\ res'[j] = "error"
      BY <2>1, <2>4, <3>1
    <3>8. \A j \in Position : pc'[j] \in {"done", "exited"} /\ res'[j] # "error" =>
             \E k \in DOMAIN results' : results'[k][1] = j
      <4>1. ASSUME NEW j \in Position, pc'[j] \in {"done", "exited"}, res'[j] # "error", j # i
            PROVE  \E k \in DOMAIN results' : results'[k][1] = j
        <5>1. PICK k \in DOMAIN results : results[k][1] = j
          BY <4>1, <2>1
        <5>2. k \in DOMAIN results' /\ results'[k] = results[k]
          BY <3>3
        <5>3. QED
          BY <5>1, <5>2
      <4>2. n + 1 \in DOMAIN results' /\ results'[n + 1][1] = i
        BY <3>3
      <4>3. QED
        BY <4>1, <4>2
    <3>9. QED
      BY <3>5, <3>6, <3>7, <3>8
  <2>5. QED
    BY <2>3, <2>4
<1>5. ASSUME NEW i \in Position, Done(i)
      PROVE  FileInv'
  <2>1. /\ pc[i] = "done" /\ pc'[i] = "exited" /\ UNCHANGED <<res, results, aggrErr>>
        /\ \A j \in Position \ {i} : pc'[j] = pc[j]
    BY <1>5 DEF DoneCalls, Done
  <2>2. QED
    BY <2>1, <1>e
<1>6. ASSUME NEW i \in Position, NodeMove(i)
      PROVE  FileInv'
  BY <1>6 DEF NodeMove
<1>7. CASE UNCHANGED vars
  BY <1>7 DEF vars
<1>8. QED
  BY <1>1, <1>2, <1>3, <1>4, <1>5, <1>6, <1>7 DEF Next, Goroutine, Over

-----------------------------------------------------------------------------

\* Before the go loop nothing runs, nothing is counted and nothing is filed.
LEMMA InitInv == Init => IInv
<1> SUFFICES ASSUME Init PROVE IInv
  OBVIOUS
<1> USE FetchAssumption DEF Init
<1>1. TypeOK
  <2>1. <<>> \in Seq(Position \X Block)
    BY EmptySeq
  <2>2. 1 \in 1..(N + 1)
    OBVIOUS
  <2>3. seen \in [Position -> SUBSET Block]
    OBVIOUS
  <2>4. QED
    BY <2>1, <2>2, <2>3 DEF TypeOK, Label
<1>2. SpawnInv
  BY DEF SpawnInv, Position
<1>3. Live = {}
  BY DEF Live
<1>4. WaitInv
  BY <1>3, FS_EmptySet DEF WaitInv
<1>5. ResInv
  BY DEF ResInv
<1>6. FileInv
  BY DEF FileInv, Heard
<1>7. QED
  BY <1>1, <1>2, <1>4, <1>5, <1>6 DEF IInv

\* Every reachable state of a call satisfies the inductive invariant, whatever N and Block.
THEOREM Inductive == Spec => []IInv
<1>1. IInv /\ [Next]_vars => IInv'
  BY TypeStep, SpawnStep, WaitStep, ResStep, FileStep DEF IInv
<1>2. QED
  BY InitInv, <1>1, PTL DEF Spec

\* Type correctness; in particular the WaitGroup counter never drops below zero, on which
\* sync.WaitGroup would panic.
THEOREM TypeCorrect == Spec => []TypeOK
<1>1. IInv => TypeOK
  BY DEF IInv
<1>2. QED
  BY <1>1, Inductive, PTL

\* No goroutine ever sends on the closed channel.
THEOREM SendSafe == Spec => []NoSendOnClosed
<1>1. IInv => NoSendOnClosed
  BY DEF IInv, WaitInv, NoSendOnClosed
<1>2. QED
  BY <1>1, Inductive, PTL

\* When the caller returns every goroutine has exited: all were spawned, none is live.
LEMMA AllExited == IInv => NoGoroutineLeft
<1> SUFFICES ASSUME IInv, caller = "returned", NEW i \in Position
             PROVE  pc[i] = "exited"
  BY DEF NoGoroutineLeft
<1>1. ind = N + 1 /\ closer = "closed"
  BY DEF IInv, SpawnInv
<1>2. pc[i] # "none"
  BY <1>1, FetchAssumption DEF IInv, SpawnInv, Position
<1>3. Live = {}
  BY <1>1 DEF IInv, WaitInv
<1>4. QED
  BY <1>2, <1>3 DEF Live

\* No goroutine of the call survives it.
THEOREM NoLeak == Spec => []NoGoroutineLeft
BY AllExited, Inductive, PTL

\* The caller returns having heard every position exactly once.
THEOREM AllHeardOnce == Spec => []HeardOnce
<1>1. IInv => HeardOnce
  <2> SUFFICES ASSUME IInv, caller = "returned"
               PROVE  /\ \A k, l \in DOMAIN results : results[k][1] = results[l][1] => k = l
                      /\ {results[k][1] : k \in DOMAIN results} = Position \ aggrErr
    BY DEF HeardOnce
  <2>1. \A i \in Position : Heard(i)
    BY AllExited DEF NoGoroutineLeft, Heard
  <2>2. \A k \in DOMAIN results : results[k] \in Position \X Block
    BY DEF IInv, TypeOK
  <2>3. \A k \in DOMAIN results : results[k][1] \in Position \ aggrErr
    BY <2>2, FetchAssumption DEF IInv, FileInv
  <2>4. \A i \in Position \ aggrErr : \E k \in DOMAIN results : results[k][1] = i
    BY <2>1 DEF IInv, FileInv
  <2>5. QED
    BY <2>3, <2>4 DEF IInv, FileInv
<1>2. QED
  BY <1>1, Inductive, PTL

\* Whatever is reported was on chain in that block while the call ran.
THEOREM FreshRecords == Spec => []RecordIsFresh
<1>1. IInv => RecordIsFresh
  BY DEF IInv, TypeOK, FileInv, ResInv, RecordIsFresh
<1>2. QED
  BY <1>1, Inductive, PTL

-----------------------------------------------------------------------------
(* The call implements its promise *)

\* The promise's view of the state.
Outcome == [i \in Position |-> IF Heard(i) THEN res[i] ELSE "pending"]
Answer == IF caller = "returned"
          THEN {results[k] : k \in DOMAIN results} \cup {<<i, "error">> : i \in aggrErr}
          ELSE {}

\* What the caller has filed is, once all have been heard, the promise's full answer.
LEMMA AnswerIsFull ==
  ASSUME IInv, \A i \in Position : Heard(i)
  PROVE  {results[k] : k \in DOMAIN results} \cup {<<i, "error">> : i \in aggrErr}
            = {<<i, Outcome[i]>> : i \in Position}
<1> DEFINE filed == {results[k] : k \in DOMAIN results}
           failed == {<<i, "error">> : i \in aggrErr}
           full == {<<i, Outcome[i]>> : i \in Position}
<1>1. \A i \in Position : Outcome[i] = res[i]
  BY DEF Outcome
<1>2. \A k \in DOMAIN results : results[k] = <<results[k][1], res[results[k][1]]>>
                                /\ results[k][1] \in Position
  BY DEF IInv, TypeOK, FileInv
<1>3. filed \subseteq full
  BY <1>1, <1>2
<1>4. failed \subseteq full
  BY <1>1 DEF IInv, TypeOK, FileInv
<1>5. ASSUME NEW i \in Position PROVE <<i, res[i]>> \in filed \cup failed
  <2>1. CASE res[i] = "error"
    BY <2>1 DEF IInv, FileInv
  <2>2. CASE res[i] # "error"
    <3>1. PICK k \in DOMAIN results : results[k][1] = i
      BY <2>2 DEF IInv, FileInv
    <3>2. QED
      BY <3>1, <1>2
  <2>3. QED
    BY <2>1, <2>2
<1>6. full \subseteq filed \cup failed
  BY <1>1, <1>5
<1>7. QED
  BY <1>3, <1>4, <1>6

\* Every step of the goroutines is a step of the promise or invisible to it.
LEMMA StepPromise == IInv /\ NoGoroutineLeft' /\ [Next]_vars => [Promise!Next]_(Promise!promiseVars)
<1> SUFFICES ASSUME IInv, NoGoroutineLeft', [Next]_vars
             PROVE  Promise!Next \/ UNCHANGED <<seen, Outcome, Answer>>
  BY DEF Promise!promiseVars, Outcome, Answer, Heard
<1> USE FetchAssumption DEF IInv, TypeOK, callVars, nodeVars
<1>1. CASE Spawn
  BY <1>1 DEF Spawn, Outcome, Answer, Heard, SpawnInv, Position
<1>2. CASE SpawnCloser \/ CloseChannel \/ Cancel
  BY <1>2 DEF SpawnCloser, CloseChannel, Cancel, Outcome, Answer, Heard
<1>3. CASE Return
  <2>1. \A i \in Position : Heard(i)'
    BY <1>3 DEF Ended, NoGoroutineLeft, Return, Heard
  <2>2. \A i \in Position : Heard(i)
    BY <2>1, <1>3 DEF Ended, Return, Heard
  <2>3. Answer = {} /\ Answer' = {<<i, Outcome[i]>> : i \in Position}
    BY <2>2, AnswerIsFull, <1>3 DEF Ended, Return, Answer
  <2>4. \A i \in Position : Outcome[i] # "pending"
    BY <2>2 DEF Outcome
  <2>5. UNCHANGED <<seen, Outcome>>
    BY <1>3 DEF Ended, Return, Outcome, Heard
  <2>6. Promise!Return
    BY <2>3, <2>4, <2>5 DEF Promise!Return, Promise!Answer, Promise!Position, Position,
       Outcome, Answer, Heard
  <2>7. QED
    BY <2>6 DEF Promise!Next
<1>4. ASSUME NEW i \in Position, Rpc(i)
      PROVE  UNCHANGED <<seen, Outcome, Answer>>
  <2>1. /\ ~Heard(i) /\ ~Heard(i)' /\ UNCHANGED <<callVars, seen>>
        /\ \A j \in Position \ {i} : pc'[j] = pc[j] /\ res'[j] = res[j]
    BY <1>4 DEF Rpc, TransactionByHash, TransactionReceipt, NetworkID, Answered, Heard
  <2>2. Outcome' = Outcome
    BY <2>1 DEF Outcome, Heard
  <2>3. QED
    BY <2>1, <2>2 DEF Answer
<1>5. ASSUME NEW i \in Position, Deliver(i)
      PROVE  Promise!Next
  <2>1. /\ pc[i] = "send" /\ pc' = [pc EXCEPT ![i] = "done"]
        /\ UNCHANGED <<res, seen>> /\ Answer = {} /\ Answer' = {}
    BY <1>5 DEF Deliver, Answer
  <2>2. res[i] \in seen[i] \cup {"error"}
    BY <2>1 DEF ResInv
  <2>3. Outcome[i] = "pending" /\ Outcome' = [Outcome EXCEPT ![i] = res[i]]
    BY <2>1 DEF Outcome, Heard
  <2>4. Promise!Settle(i)
    BY <2>1, <2>2, <2>3 DEF Promise!Settle, Outcome, Answer, Heard
  <2>5. QED
    BY <2>4 DEF Promise!Next, Promise!Position, Position
<1>6. ASSUME NEW i \in Position, Done(i)
      PROVE  UNCHANGED <<seen, Outcome, Answer>>
  BY <1>6 DEF DoneCalls, Done, Outcome, Answer, Heard
<1>7. ASSUME NEW i \in Position, NodeMove(i)
      PROVE  Promise!Next \/ UNCHANGED <<seen, Outcome, Answer>>
  <2>1. PICK s \in NodeState : seen' = [seen EXCEPT ![i] = @ \cup ({s} \cap Block)]
    BY <1>7 DEF NodeMove
  <2>2. UNCHANGED <<Outcome, Answer>>
    BY <1>7 DEF NodeMove, Outcome, Answer, Heard
  <2>3. CASE s \in Block
    <3>0. seen' = [seen EXCEPT ![i] = @ \cup {s}]
      <4>1. {s} \cap Block = {s}
        BY <2>3
      <4>2. QED
        BY <2>1, <4>1
    <3>1. Promise!Include(i, s)
      BY <2>2, <3>0 DEF Promise!Include, Outcome, Answer, Heard
    <3>2. QED
      BY <3>1, <2>3 DEF Promise!Next, Promise!Position, Position
  <2>4. CASE s \notin Block
    BY <2>1, <2>2, <2>4
  <2>5. QED
    BY <2>3, <2>4
<1>8. CASE UNCHANGED vars
  BY <1>8 DEF vars, Outcome, Answer, Heard
<1>9. QED
  BY <1>1, <1>2, <1>3, <1>4, <1>5, <1>6, <1>7, <1>8 DEF Next, Goroutine, Over

\* The goroutines, channel and WaitGroup of FetchTransactions implement its promise: each
\* position settled on its own, one return, with all of the outcomes.
THEOREM ImplementsPromise == Spec => KeepsPromise
<1>1. Init => Promise!Init
  BY FetchAssumption DEF Init, Promise!Init, Promise!Position, Position
<1>2. IInv /\ NoGoroutineLeft' /\ [Next]_vars => [Promise!Next]_(Promise!promiseVars)
  BY StepPromise
<1>3. QED
  BY <1>1, <1>2, Inductive, NoLeak, PTL DEF Spec, KeepsPromise, Promise!Spec

-----------------------------------------------------------------------------
(* The end of a call is the end of it *)

\* When the caller has returned nothing of the call moves any more: no late answer of the node
\* touches what GetTransactions now holds, and nothing is sent or counted.
Final == caller = "returned" => UNCHANGED vars

\* All goroutines have exited by then, and the closer too.
THEOREM ReturnIsFinal == Spec => [][Final]_vars
<1>1. IInv /\ [Next]_vars => [Final]_vars
  <2> SUFFICES ASSUME IInv, [Next]_vars, caller = "returned"
               PROVE  UNCHANGED vars
    BY DEF Final
  <2>1. closer = "closed" /\ \A i \in Position : pc[i] = "exited"
    BY AllExited DEF IInv, SpawnInv, NoGoroutineLeft
  <2>2. ASSUME NEW i \in Position, Rpc(i) \/ Goroutine(i) \/ NodeMove(i)
        PROVE  FALSE
    BY <2>1, <2>2 DEF Rpc, TransactionByHash, TransactionReceipt, NetworkID, Answered,
       Goroutine, Deliver, Done, NodeMove
  <2>3. ASSUME Spawn \/ SpawnCloser \/ CloseChannel \/ Return \/ Cancel
        PROVE  FALSE
    BY <2>1, <2>3 DEF Spawn, SpawnCloser, CloseChannel, Return, Cancel
  <2>4. QED
    BY <2>2, <2>3 DEF Next, Over
<1>2. QED
  BY <1>1, Inductive, PTL DEF Spec
=============================================================================
