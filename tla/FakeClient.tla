------------------------------ MODULE FakeClient ------------------------------
(***************************************************************************)
(* The double of the node's client (internal/ethereum/fake, generated)     *)
(* under the goroutines of FetchTransactions, as their test runs them.  A  *)
(* double hands out what it was given for its first, second, ... call in   *)
(* the order in which the calls come in, whoever makes them.               *)
(*                                                                         *)
(* Its other operations (CallCount, ArgsForCall, Invocations) only read    *)
(* what is here, under the same mutexes.                                   *)
(***************************************************************************)
EXTENDS Integers, Sequences, TLC

CONSTANTS Hash,    \* hashes the test asks for
          Program  \* how it sets the double up: <<operation, method, call, answer>>, ...

Method == {"TransactionByHash", "TransactionReceipt", "NetworkID"}

\* getTransactionByHash calls them one after the other.
After == [TransactionByHash |-> "TransactionReceipt", TransactionReceipt |-> "NetworkID",
          NetworkID |-> "done"]

VARIABLES
    stub,      \* stub[m]: what m's stub answers, "none" without one
    returns,   \* returns[m]: what m answers to every call
    onCall,    \* onCall[m]: what it answers to some calls instead: a function
    args,      \* args[m]: the goroutines it was called by
    invoked,   \* the calls of all methods
    lock,      \* lock[m]: the goroutine that holds m's mutex, or "free"
    step,      \* the operations of Program that the test has done
    at,        \* at[h]: the method that the goroutine of h calls next or is in, or "done"
    answer     \* answer[h]: what the methods answered it

vars == <<stub, returns, onCall, args, invoked, lock, step, at, answer>>

Init ==
    /\ stub = [m \in Method |-> "none"]
    /\ returns = [m \in Method |-> "nil"]
    /\ onCall = [m \in Method |-> <<>>]
    /\ args = [m \in Method |-> <<>>]
    /\ invoked = <<>>
    /\ lock = [m \in Method |-> "free"]
    /\ step = 0
    /\ at = [h \in Hash |-> "TransactionByHash"]
    /\ answer = [h \in Hash |-> [m \in Method |-> "nil"]]

-----------------------------------------------------------------------------
(* The test sets the double up *)

Calls(m, a) ==
    /\ stub' = [stub EXCEPT ![m] = a]
    /\ UNCHANGED <<returns, onCall>>

Returns(m, a) ==
    /\ stub' = [stub EXCEPT ![m] = "none"]
    /\ returns' = [returns EXCEPT ![m] = a]
    /\ UNCHANGED onCall

ReturnsOnCall(m, i, a) ==
    /\ stub' = [stub EXCEPT ![m] = "none"]
    /\ onCall' = [onCall EXCEPT ![m] = (i :> a) @@ @]
    /\ UNCHANGED returns

SetUp ==
    /\ step < Len(Program)
    /\ step' = step + 1
    /\ LET op == Program[step + 1] IN
       \/ op[1] = "Calls" /\ Calls(op[2], op[4])
       \/ op[1] = "Returns" /\ Returns(op[2], op[4])
       \/ op[1] = "ReturnsOnCall" /\ ReturnsOnCall(op[2], op[3], op[4])
    /\ UNCHANGED <<args, invoked, lock, at, answer>>

-----------------------------------------------------------------------------
(* A goroutine of FetchTransactions calls the double *)

\* What m answers to its call number k, counted from 0.
Answer(m, k) ==
    IF stub[m] # "none" THEN stub[m]
    ELSE IF k \in DOMAIN onCall[m] THEN onCall[m][k] ELSE returns[m]

\* The number of the call is read, and the call counted, under the mutex of the method.
Enter(h) ==
    /\ step = Len(Program)
    /\ at[h] # "done"
    /\ LET m == at[h] IN
       /\ lock[m] = "free"
       /\ lock' = [lock EXCEPT ![m] = h]
       /\ answer' = [answer EXCEPT ![h][m] = Answer(m, Len(args[m]))]
       /\ args' = [args EXCEPT ![m] = Append(@, h)]
    /\ UNCHANGED <<stub, returns, onCall, invoked, step, at>>

\* recordInvocation, still under it; then the mutex is free, and the goroutine has its answer.
Leave(h) ==
    /\ at[h] # "done"
    /\ LET m == at[h] IN
       /\ lock[m] = h
       /\ lock' = [lock EXCEPT ![m] = "free"]
       /\ invoked' = Append(invoked, <<m, h>>)
       /\ at' = [at EXCEPT ![h] = IF answer[h][m] = "error" THEN "done" ELSE After[m]]
    /\ UNCHANGED <<stub, returns, onCall, args, step, answer>>

Next == SetUp \/ \E h \in Hash : Enter(h) \/ Leave(h)

Spec == Init /\ [][Next]_vars
=============================================================================
