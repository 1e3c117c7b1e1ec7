--------------------------- MODULE FakeClientProofs ---------------------------
(***************************************************************************)
(* Proofs about FakeClient: for any number of goroutines and whatever a    *)
(* test sets the double up with.                                           *)
(***************************************************************************)
EXTENDS FakeClient, TLAPS

\* The goroutines whose call of m was counted.
Called(m) == {args[m][k] : k \in DOMAIN args[m]}

Types ==
    /\ args \in [Method -> Seq(Hash)]
    /\ at \in [Hash -> Method \cup {"done"}]
    /\ lock \in [Method -> Hash \cup {"free"}]
    /\ answer = [h \in Hash |-> [m \in Method |-> answer[h][m]]]

\* The double is set up before it is called.
SetUpFirst == step # Len(Program) => \A m \in Method : args[m] = <<>>

\* Who holds the mutex of m is in m, and of those in m only he is counted.
LockInv ==
    /\ \A m \in Method : lock[m] \in Hash => at[lock[m]] = m
    /\ \A h \in Hash : at[h] # "done" => (h \in Called(at[h]) <=> lock[at[h]] = h)

\* A goroutine has called the methods before the one it is at, and none after it.
PlaceInv ==
    \A h \in Hash :
        /\ at[h] # "TransactionByHash" => h \in Called("TransactionByHash")
        /\ at[h] = "NetworkID" => h \in Called("TransactionReceipt")
        /\ at[h] = "TransactionByHash" => h \notin Called("TransactionReceipt")
        /\ at[h] \in {"TransactionByHash", "TransactionReceipt"} =>
              h \notin Called("NetworkID")

\* No goroutine calls a method twice.
CalledOnce ==
    \A m \in Method : \A i, j \in DOMAIN args[m] : args[m][i] = args[m][j] => i = j

\* Call number k of a method, whoever makes it, gets the answer that is set up for number k.
AnsweredInOrder ==
    \A m \in Method : \A k \in DOMAIN args[m] : answer[args[m][k]][m] = Answer(m, k - 1)

IInv ==
    Types /\ SetUpFirst /\ LockInv /\ PlaceInv /\ CalledOnce /\ AnsweredInOrder

-----------------------------------------------------------------------------
(* What a step does to the calls of a method *)

\* One call more.
LEMMA Counted ==
  ASSUME Types, NEW m \in Method, NEW h \in Hash,
         args' = [args EXCEPT ![m] = Append(@, h)]
  PROVE  /\ args' \in [Method -> Seq(Hash)]
         /\ DOMAIN args[m] = 1 .. Len(args[m]) /\ Len(args[m]) \in Nat
         /\ DOMAIN args'[m] = 1 .. (Len(args[m]) + 1)
         /\ \A k \in DOMAIN args[m] : args'[m][k] = args[m][k]
         /\ args'[m][Len(args[m]) + 1] = h
         /\ Called(m)' = Called(m) \cup {h}
         /\ \A n \in Method \ {m} : args'[n] = args[n] /\ Called(n)' = Called(n)
<1>1. args[m] \in Seq(Hash) /\ args'[m] = Append(args[m], h)
  BY DEF Types
<1>2. args' \in [Method -> Seq(Hash)]
  BY <1>1 DEF Types
<1>3. /\ DOMAIN args[m] = 1 .. Len(args[m]) /\ Len(args[m]) \in Nat
      /\ DOMAIN args'[m] = 1 .. (Len(args[m]) + 1)
      /\ \A k \in DOMAIN args[m] : args'[m][k] = args[m][k]
      /\ args'[m][Len(args[m]) + 1] = h
  BY <1>1
<1>4. Called(m)' = Called(m) \cup {h}
  <2>1. DOMAIN args'[m] = DOMAIN args[m] \cup {Len(args[m]) + 1}
    BY <1>3
  <2>2. QED
    BY <1>3, <2>1 DEF Called
<1>5. \A n \in Method \ {m} : args'[n] = args[n]
  BY DEF Types
<1>6. QED
  BY <1>2, <1>3, <1>4, <1>5 DEF Called

LEMMA InitIInv ==
  ASSUME "free" \notin Hash, Init
  PROVE  IInv
<1>1. /\ \A m \in Method : args[m] = <<>> /\ lock[m] = "free"
      /\ \A h \in Hash : at[h] = "TransactionByHash"
  BY DEF Init
<1>2. \A m \in Method : DOMAIN args[m] = {} /\ Called(m) = {}
  BY <1>1 DEF Called
<1>3. /\ "TransactionByHash" \in Method /\ "TransactionReceipt" \in Method
      /\ "NetworkID" \in Method
  BY DEF Method
<1>4. Types
  <2>1. args \in [Method -> Seq(Hash)]
    BY DEF Init
  <2>2. QED
    BY <2>1, <1>3 DEF Init, Types
<1>5. LockInv /\ PlaceInv
  BY <1>1, <1>2, <1>3 DEF LockInv, PlaceInv
<1>6. SetUpFirst /\ CalledOnce /\ AnsweredInOrder
  BY <1>1, <1>2 DEF SetUpFirst, CalledOnce, AnsweredInOrder
<1>7. QED
  BY <1>4, <1>5, <1>6 DEF IInv

\* The double is changed only before its first call.
LEMMA SetUpStep ==
  ASSUME IInv, SetUp, Len(Program) \in Nat
  PROVE  IInv'
<1>1. UNCHANGED <<args, invoked, lock, at, answer>> /\ step < Len(Program)
  BY DEF SetUp
<1>2. \A m \in Method : args[m] = <<>>
  BY <1>1 DEF IInv, SetUpFirst
<1>3. Types' /\ LockInv' /\ PlaceInv' /\ CalledOnce'
  BY <1>1 DEF IInv, Types, LockInv, PlaceInv, CalledOnce, Called
<1>4. SetUpFirst' /\ AnsweredInOrder'
  BY <1>1, <1>2 DEF SetUpFirst, AnsweredInOrder
<1>5. QED
  BY <1>3, <1>4 DEF IInv

LEMMA EnterStep ==
  ASSUME "free" \notin Hash, IInv, NEW h \in Hash, Enter(h)
  PROVE  IInv'
<1>0. PICK m \in Method : m = at[h]
  BY DEF Enter, IInv, Types
<1> DEFINE n == Len(args[m]) + 1
<1>1. /\ m \in Method /\ lock[m] = "free" /\ step = Len(Program)
      /\ UNCHANGED <<stub, returns, onCall, invoked, step, at>>
  BY <1>0 DEF Enter
<1>2. /\ lock' = [lock EXCEPT ![m] = h]
      /\ answer' = [answer EXCEPT ![h][m] = Answer(m, Len(args[m]))]
      /\ args' = [args EXCEPT ![m] = Append(@, h)]
  BY <1>0 DEF Enter
<1>3. Types /\ LockInv /\ PlaceInv /\ CalledOnce /\ AnsweredInOrder
  BY DEF IInv
<1>4. /\ args' \in [Method -> Seq(Hash)]
      /\ DOMAIN args[m] = 1 .. Len(args[m]) /\ Len(args[m]) \in Nat
      /\ DOMAIN args'[m] = 1 .. n
      /\ \A k \in DOMAIN args[m] : args'[m][k] = args[m][k]
      /\ args'[m][n] = h
      /\ Called(m)' = Called(m) \cup {h}
      /\ \A p \in Method \ {m} : args'[p] = args[p] /\ Called(p)' = Called(p)
  BY <1>1, <1>2, <1>3, Counted
<1>5. /\ lock'[m] = h /\ \A p \in Method \ {m} : lock'[p] = lock[p]
      /\ answer'[h][m] = Answer(m, Len(args[m]))
      /\ \A g \in Hash, p \in Method : (g # h \/ p # m) => answer'[g][p] = answer[g][p]
  BY <1>1, <1>2, <1>3 DEF Types
<1>6. h \notin Called(m) /\ at[h] = m /\ m # "done" /\ lock[m] # h
  BY <1>0, <1>1, <1>3 DEF LockInv, Method
<1>7. Types'
  <2>1. lock' \in [Method -> Hash \cup {"free"}] /\ at' \in [Hash -> Method \cup {"done"}]
    BY <1>1, <1>2, <1>3 DEF Types
  <2>2. answer' = [g \in Hash |-> [p \in Method |-> answer'[g][p]]]
    <3>1. ASSUME NEW g \in Hash
          PROVE  answer'[g] = [p \in Method |-> answer'[g][p]]
      BY <1>2, <1>3 DEF Types
    <3>2. DOMAIN answer' = Hash /\ answer' = [g \in Hash |-> answer'[g]]
      BY <1>2, <1>3 DEF Types
    <3>3. QED
      BY <3>1, <3>2
  <2>3. QED
    BY <1>4, <2>1, <2>2 DEF Types
<1>8. SetUpFirst'
  BY <1>1 DEF SetUpFirst
<1>9. LockInv'
  <2>1. \A p \in Method : lock'[p] \in Hash => at'[lock'[p]] = p
    BY <1>1, <1>3, <1>5, <1>6 DEF LockInv
  <2>2. ASSUME NEW g \in Hash, NEW p \in Method, at[g] = p
        PROVE  g \in Called(p)' <=> lock'[p] = g
    <3>1. g \in Called(p) <=> lock[p] = g
      BY <1>3, <2>2 DEF LockInv, Method
    <3>2. CASE p = m
      BY <1>1, <1>4, <1>5, <3>1, <3>2
    <3>3. CASE p # m
      BY <1>4, <1>5, <3>1, <3>3
    <3>4. QED
      BY <3>2, <3>3
  <2>3. \A g \in Hash : at'[g] # "done" => at'[g] \in Method /\ at'[g] = at[g]
    BY <1>1, <1>3 DEF Types
  <2>4. QED
    BY <1>1, <2>1, <2>2, <2>3 DEF LockInv
<1>10. PlaceInv'
  <2>1. "TransactionByHash" \in Method /\ "TransactionReceipt" \in Method /\ "NetworkID" \in Method
    BY DEF Method
  <2>2. \A p \in Method, g \in Hash : g \in Called(p)' <=> (g \in Called(p) \/ (g = h /\ p = m))
    <3>1. ASSUME NEW p \in Method, NEW g \in Hash
          PROVE  g \in Called(p)' <=> (g \in Called(p) \/ (g = h /\ p = m))
      <4>1. CASE p = m
        BY <1>4, <4>1
      <4>2. CASE p # m
        BY <1>4, <4>2
      <4>3. QED
        BY <4>1, <4>2
    <3>2. QED
      BY <3>1
  <2>3. ASSUME NEW g \in Hash
        PROVE  /\ at[g] # "TransactionByHash" => g \in Called("TransactionByHash")'
               /\ at[g] = "NetworkID" => g \in Called("TransactionReceipt")'
               /\ at[g] = "TransactionByHash" => g \notin Called("TransactionReceipt")'
               /\ at[g] \in {"TransactionByHash", "TransactionReceipt"} =>
                     g \notin Called("NetworkID")'
    BY <1>3, <1>6, <2>1, <2>2 DEF PlaceInv
  <2>4. QED
    BY <1>1, <2>3 DEF PlaceInv
<1>11. CalledOnce'
  <2>1. \A k \in DOMAIN args[m] : args[m][k] # h
    BY <1>6 DEF Called
  <2>2. ASSUME NEW i \in DOMAIN args'[m], NEW j \in DOMAIN args'[m], args'[m][i] = args'[m][j]
        PROVE  i = j
    <3>1. i = n \/ i \in DOMAIN args[m]
      BY <1>4
    <3>2. j = n \/ j \in DOMAIN args[m]
      BY <1>4
    <3>3. QED
      BY <1>1, <1>3, <1>4, <2>1, <2>2, <3>1, <3>2 DEF CalledOnce
  <2>3. QED
    BY <1>3, <1>4, <2>2 DEF CalledOnce
<1>12. AnsweredInOrder'
  <2>1. ASSUME NEW p \in Method, NEW k \in DOMAIN args'[p]
        PROVE  answer'[args'[p][k]][p] = Answer(p, k - 1)
    <3>1. CASE p = m /\ k = n
      <4>1. k - 1 = Len(args[m])
        BY <1>4, <3>1
      <4>2. QED
        BY <1>4, <1>5, <3>1, <4>1
    <3>2. CASE ~(p = m /\ k = n)
      <4>1. k \in DOMAIN args[p] /\ args'[p][k] = args[p][k]
        BY <1>4, <2>1, <3>2
      <4>2. answer[args[p][k]][p] = Answer(p, k - 1)
        BY <1>3, <4>1 DEF AnsweredInOrder
      <4>0. args[p] \in Seq(Hash)
        BY <1>3 DEF Types
      <4>6. args[p][k] \in Hash
        BY <4>1, <4>0
      <4>3. args[p][k] # h \/ p # m
        BY <1>6, <4>1 DEF Called
      <4>4. QED
        BY <1>5, <4>1, <4>2, <4>3, <4>6
    <3>3. QED
      BY <3>1, <3>2
  <2>2. \A p, k : Answer(p, k)' = Answer(p, k)
    BY <1>1 DEF Answer
  <2>3. QED
    BY <2>1, <2>2 DEF AnsweredInOrder
<1>13. QED
  BY <1>7, <1>8, <1>9, <1>10, <1>11, <1>12 DEF IInv

LEMMA LeaveStep ==
  ASSUME "free" \notin Hash, IInv, NEW h \in Hash, Leave(h)
  PROVE  IInv'
<1>0. PICK m \in Method : m = at[h]
  BY DEF Leave, IInv, Types
<1>1. /\ m \in Method /\ lock[m] = h
      /\ UNCHANGED <<stub, returns, onCall, args, step, answer>>
  BY <1>0 DEF Leave
<1>2. PICK g \in {"done", After[m]} : at' = [at EXCEPT ![h] = g]
  BY <1>0 DEF Leave
<1>3. lock' = [lock EXCEPT ![m] = "free"]
  BY <1>0 DEF Leave
<1>4. Types /\ LockInv /\ PlaceInv /\ CalledOnce /\ AnsweredInOrder /\ SetUpFirst
  BY DEF IInv
<1>5. at[h] = m
  BY <1>0
<1>6. /\ at'[h] = g /\ \A f \in Hash \ {h} : at'[f] = at[f]
      /\ lock'[m] = "free" /\ \A p \in Method \ {m} : lock'[p] = lock[p]
  BY <1>1, <1>2, <1>3, <1>4 DEF Types
<1>7. /\ m = "TransactionByHash" => g \in {"done", "TransactionReceipt"}
      /\ m = "TransactionReceipt" => g \in {"done", "NetworkID"}
      /\ m = "NetworkID" => g = "done"
      /\ m \in {"TransactionByHash", "TransactionReceipt", "NetworkID"}
  BY <1>1, <1>2 DEF After, Method
<1>8. \A p : Called(p)' = Called(p)
  BY <1>1 DEF Called
<1>9. h \in Called(m)
  BY <1>1, <1>4, <1>5, <1>7 DEF LockInv
<1>10. Types' /\ SetUpFirst' /\ CalledOnce' /\ AnsweredInOrder'
  <2>1. g \in Method \cup {"done"}
    BY <1>7 DEF Method
  <2>2. Types'
    BY <1>1, <1>2, <1>3, <1>4, <2>1 DEF Types
  <2>3. \A p, k : Answer(p, k)' = Answer(p, k)
    BY <1>1 DEF Answer
  <2>4. QED
    BY <1>1, <1>4, <2>2, <2>3 DEF SetUpFirst, CalledOnce, AnsweredInOrder
<1>11. PlaceInv'
  <2>1. ASSUME NEW f \in Hash
        PROVE  /\ at'[f] # "TransactionByHash" => f \in Called("TransactionByHash")
               /\ at'[f] = "NetworkID" => f \in Called("TransactionReceipt")
               /\ at'[f] = "TransactionByHash" => f \notin Called("TransactionReceipt")
               /\ at'[f] \in {"TransactionByHash", "TransactionReceipt"} =>
                     f \notin Called("NetworkID")
    <3>1. CASE f # h
      BY <1>4, <1>6, <3>1 DEF PlaceInv
    <3>2. CASE f = h
      BY <1>4, <1>5, <1>6, <1>7, <1>9, <3>2 DEF PlaceInv
    <3>3. QED
      BY <3>1, <3>2
  <2>2. QED
    BY <1>8, <2>1 DEF PlaceInv
<1>12. LockInv'
  <2>1. ASSUME NEW p \in Method, lock'[p] \in Hash
        PROVE  at'[lock'[p]] = p
    <3>1. p # m /\ lock'[p] = lock[p] /\ at[lock[p]] = p
      BY <1>4, <1>6, <2>1 DEF LockInv
    <3>2. lock[p] # h
      BY <1>5, <3>1
    <3>3. QED
      BY <1>6, <2>1, <3>1, <3>2
  <2>2. ASSUME NEW f \in Hash, at'[f] # "done"
        PROVE  f \in Called(at'[f]) <=> lock'[at'[f]] = f
    <3>1. CASE f = h
      <4>1. g \in Method /\ g # m /\ h \notin Called(g)
        BY <1>4, <1>5, <1>6, <1>7, <2>2, <3>1 DEF PlaceInv, Method
      <4>2. lock[g] # h
        BY <1>4, <1>5, <4>1 DEF LockInv
      <4>3. QED
        BY <1>6, <3>1, <4>1, <4>2
    <3>2. CASE f # h
      <4>1. /\ at'[f] = at[f] /\ at[f] \in Method
            /\ f \in Called(at[f]) <=> lock[at[f]] = f
        BY <1>4, <1>6, <2>2, <3>2 DEF LockInv, Types
      <4>2. at[f] = m => lock[m] # f /\ lock'[m] # f
        BY <1>1, <1>6, <3>2
      <4>3. QED
        BY <1>6, <4>1, <4>2
    <3>3. QED
      BY <3>1, <3>2
  <2>3. QED
    BY <1>8, <2>1, <2>2 DEF LockInv
<1>13. QED
  BY <1>10, <1>11, <1>12 DEF IInv

\* The mutex of a method, the places of the goroutines and the calls it counted agree.
THEOREM Inductive ==
  ASSUME "free" \notin Hash, Len(Program) \in Nat
  PROVE  Spec => []IInv
<1>1. IInv /\ [Next]_vars => IInv'
  <2> SUFFICES ASSUME IInv, [Next]_vars PROVE IInv'
    OBVIOUS
  <2>1. CASE SetUp
    BY <2>1, SetUpStep
  <2>2. ASSUME NEW h \in Hash, Enter(h) PROVE IInv'
    BY <2>2, EnterStep
  <2>3. ASSUME NEW h \in Hash, Leave(h) PROVE IInv'
    BY <2>3, LeaveStep
  <2>4. CASE UNCHANGED vars
    <3>1. \A m : Called(m)' = Called(m) /\ \A k : Answer(m, k)' = Answer(m, k)
      BY <2>4 DEF vars, Called, Answer
    <3>2. UNCHANGED <<args, at, lock, answer, step>>
      BY <2>4 DEF vars
    <3>3. Types' /\ SetUpFirst' /\ CalledOnce'
      BY <3>2 DEF IInv, Types, SetUpFirst, CalledOnce
    <3>4. LockInv' /\ PlaceInv' /\ AnsweredInOrder'
      BY <3>1, <3>2 DEF IInv, LockInv, PlaceInv, AnsweredInOrder
    <3>5. QED
      BY <3>3, <3>4 DEF IInv
  <2>5. QED
    BY <2>1, <2>2, <2>3, <2>4 DEF Next
<1>2. QED
  BY <1>1, InitIInv, PTL DEF Spec

\* The double's answers do not depend on who calls: whatever the interleaving, each method
\* hands out its answers in the order in which it counts its calls, each of them once.
THEOREM InOrder ==
  ASSUME "free" \notin Hash, Len(Program) \in Nat
  PROVE  Spec => [](CalledOnce /\ AnsweredInOrder)
<1>1. IInv => CalledOnce /\ AnsweredInOrder
  BY DEF IInv
<1>2. QED
  BY <1>1, Inductive, PTL

-----------------------------------------------------------------------------
(* What a test may say of a double whose first call fails *)

Done == \A h \in Hash : at[h] = "done"

\* Call number 0 of TransactionByHash is set up to fail, and no other.
FirstCallFails ==
    \A k \in Nat : Answer("TransactionByHash", k) = "error" <=> k = 0

\* When all goroutines are done, exactly one of them has failed to find its transaction.
OneFails ==
    Done /\ FirstCallFails /\ Hash # {} =>
        \E h \in Hash : \A g \in Hash : answer[g]["TransactionByHash"] = "error" <=> g = h

\* That one fails is certain; which one is not. The number that a test may rely on is that
\* of the errors, and not the hash they name.
THEOREM JustOneFails ==
  ASSUME "free" \notin Hash, Len(Program) \in Nat
  PROVE  Spec => []OneFails
<1>1. IInv => OneFails
  <2> SUFFICES ASSUME IInv, Done, FirstCallFails, Hash # {}
               PROVE  \E h \in Hash : \A g \in Hash :
                          answer[g]["TransactionByHash"] = "error" <=> g = h
    BY DEF OneFails
  <2>1. PICK calls : calls = args["TransactionByHash"]
    OBVIOUS
  <2>2. calls \in Seq(Hash) /\ "TransactionByHash" \in Method
    BY <2>1 DEF IInv, Types, Method
  <2>3. \A g \in Hash : \E k \in DOMAIN calls : calls[k] = g
    BY <2>1 DEF IInv, PlaceInv, Called, Done
  <2>4. \A i, j \in DOMAIN calls : calls[i] = calls[j] => i = j
    BY <2>1, <2>2 DEF IInv, CalledOnce
  <2>5. DOMAIN calls = 1 .. Len(calls) /\ Len(calls) \in Nat
    BY <2>2
  <2>6. \A k \in DOMAIN calls :
            answer[calls[k]]["TransactionByHash"] = Answer("TransactionByHash", k - 1)
    BY <2>1, <2>2 DEF IInv, AnsweredInOrder
  <2>7. \A k \in DOMAIN calls : answer[calls[k]]["TransactionByHash"] = "error" <=> k = 1
    <3>1. ASSUME NEW k \in DOMAIN calls
          PROVE  answer[calls[k]]["TransactionByHash"] = "error" <=> k = 1
      <4>1. k - 1 \in Nat /\ (k - 1 = 0 <=> k = 1)
        BY <2>5
      <4>2. QED
        BY <2>6, <4>1 DEF FirstCallFails
    <3>2. QED
      BY <3>1
  <2>8. 1 \in DOMAIN calls
    <3>1. PICK g \in Hash : TRUE
      OBVIOUS
    <3>2. PICK k \in DOMAIN calls : calls[k] = g
      BY <2>3, <3>1
    <3>3. QED
      BY <2>5, <3>2
  <2>9. calls[1] \in Hash
    BY <2>2, <2>8
  <2>10. \A g \in Hash : answer[g]["TransactionByHash"] = "error" <=> g = calls[1]
    <3>1. ASSUME NEW g \in Hash
          PROVE  answer[g]["TransactionByHash"] = "error" <=> g = calls[1]
      <4>1. PICK k \in DOMAIN calls : calls[k] = g
        BY <2>3
      <4>2. k = 1 <=> g = calls[1]
        BY <2>4, <2>8, <4>1
      <4>3. QED
        BY <2>7, <4>1, <4>2
    <3>2. QED
      BY <3>1
  <2>11. QED
    BY <2>9, <2>10
<1>2. QED
  BY <1>1, Inductive, PTL
=============================================================================
