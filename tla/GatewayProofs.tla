----------------------------- MODULE GatewayProofs -----------------------------
(***************************************************************************)
(* Proofs about Gateway and, in it, about Server: for any number of        *)
(* requests, users, environments and forged tokens, and any lifetime.      *)
(***************************************************************************)
EXTENDS Gateway, TLAPS

-----------------------------------------------------------------------------
(* The process *)

Gone == {"down", "start"}

\* What the main goroutine, the listening goroutine and the causes know of each other.
ProcessInv ==
    /\ Srv!TypeOK
    /\ main \in Gone => busy = {} /\ lst = "none" /\ err = "nil" /\ sig = FALSE
    /\ main \in {"run", "select"} => err = "nil"
    /\ lst = "serving" => main # "drain"
    /\ lst = "closed" => main = "drain"
    /\ sig => "signal" \in cause
    /\ lst = "failed" => "listener" \in cause
    /\ err = "failed" => "listener" \in cause
    /\ main \in {"shutdown", "drain"} /\ err = "nil" => "signal" \in cause
    /\ main \notin Gone => Srv!Configured

LEMMA ProcessInit == Srv!Init => ProcessInv
BY DEF Srv!Init, ProcessInv, Srv!TypeOK, Gone

LEMMA ProcessStep ==
  ASSUME ProcessInv, Srv!Step \/ Srv!Launch \/ Srv!AcceptFails \/ Srv!Signal
  PROVE  ProcessInv'
<1> USE DEF ProcessInv, Srv!TypeOK, Gone
<1>1. CASE Srv!StartFails
  BY <1>1 DEF Srv!StartFails
<1>2. CASE Srv!Notify
  BY <1>2 DEF Srv!Notify, Srv!Configured
<1>3. CASE Srv!Run
  BY <1>3 DEF Srv!Run, Srv!Configured
<1>4. CASE Srv!SelectSignal
  BY <1>4 DEF Srv!SelectSignal, Srv!Configured
<1>5. CASE Srv!SelectError
  BY <1>5 DEF Srv!SelectError, Srv!Configured
<1>6. CASE Srv!Shutdown
  BY <1>6 DEF Srv!Shutdown, Srv!Configured
<1>7. CASE Srv!Exit
  BY <1>7 DEF Srv!Exit, Srv!Returned, Srv!Quiescent
<1>8. CASE Srv!Listen
  BY <1>8 DEF Srv!Listen, Srv!Configured
<1>9. CASE Srv!Track
  BY <1>9 DEF Srv!Track, Srv!Configured
<1>10. CASE Srv!Launch
  BY <1>10 DEF Srv!Launch, Srv!Configured
<1>11. CASE Srv!AcceptFails
  BY <1>11 DEF Srv!AcceptFails, Srv!Configured
<1>12. CASE Srv!Signal
  BY <1>12 DEF Srv!Signal, Srv!Configured
<1>13. QED
  BY <1>1, <1>2, <1>3, <1>4, <1>5, <1>6, <1>7, <1>8, <1>9, <1>10, <1>11, <1>12 DEF Srv!Step

LEMMA ProcessRequest ==
  ASSUME ProcessInv, NEW r \in Req, Srv!Accept(r) \/ Srv!Finish(r)
  PROVE  ProcessInv'
<1>1. busy' \subseteq Req
  BY DEF ProcessInv, Srv!TypeOK, Srv!Accept, Srv!Finish
<1>2. UNCHANGED <<main, env, sig, lst, err, cause, exit>>
  BY DEF Srv!Accept, Srv!Finish
<1>3. Srv!TypeOK'
  BY <1>1, <1>2 DEF ProcessInv, Srv!TypeOK
<1>4. main \notin Gone \/ busy' = {}
  BY DEF ProcessInv, Gone, Srv!Accept, Srv!Finish
<1>5. QED
  BY <1>2, <1>3, <1>4 DEF ProcessInv, Gone, Srv!Configured

LEMMA ProcessKill ==
  ASSUME ProcessInv, Srv!Kill
  PROVE  ProcessInv'
BY DEF ProcessInv, Srv!TypeOK, Gone, Srv!Kill, Srv!Configured

LEMMA ProcessStutter ==
  ASSUME ProcessInv, UNCHANGED serverVars
  PROVE  ProcessInv'
BY DEF ProcessInv, Srv!TypeOK, Gone, serverVars, Srv!Configured

\* A step of the gateway is a step of the server, or leaves it alone.
LEMMA ServerStep ==
  ASSUME [Next]_vars
  PROVE  \/ Srv!Step \/ Srv!Launch \/ Srv!AcceptFails \/ Srv!Signal \/ Srv!Kill
         \/ \E r \in Req : Srv!Accept(r) \/ Srv!Finish(r)
         \/ UNCHANGED serverVars
<1>1. CASE \E r \in Req : Receive(r) \/ Handle(r) \/ Finish(r)
  BY <1>1 DEF Receive, Handle, Finish
<1>2. CASE Process \/ Kill \/ Tick
  BY <1>2 DEF Process, Kill, Tick
<1>3. CASE UNCHANGED vars
  BY <1>3 DEF vars
<1>4. QED
  BY <1>1, <1>2, <1>3 DEF Next

LEMMA ProcessNext ==
  ASSUME ProcessInv, [Next]_vars
  PROVE  ProcessInv'
<1>1. CASE Srv!Step \/ Srv!Launch \/ Srv!AcceptFails \/ Srv!Signal
  BY <1>1, ProcessStep
<1>2. CASE Srv!Kill
  BY <1>2, ProcessKill
<1>3. CASE \E r \in Req : Srv!Accept(r) \/ Srv!Finish(r)
  BY <1>3, ProcessRequest
<1>4. CASE UNCHANGED serverVars
  BY <1>4, ProcessStutter
<1>5. QED
  BY <1>1, <1>2, <1>3, <1>4, ServerStep

\* It needs nothing of the requests but that they come and go.
THEOREM ProcessInductive == Spec => []ProcessInv
<1>1. Init => ProcessInv
  BY ProcessInit DEF Init
<1>2. ProcessInv /\ [Next]_vars => ProcessInv'
  BY ProcessNext
<1>3. QED
  BY <1>1, <1>2, PTL DEF Spec

\* The process promises Lifecycle: its initial states and its steps are those of Lifecycle.
LEMMA LifeInit == Srv!Init => Srv!Life!Init
BY DEF Srv!Init, Srv!Life!Init

LEMMA LifeStep ==
  ASSUME ProcessInv, Srv!Step \/ Srv!Launch \/ Srv!AcceptFails \/ Srv!Signal
  PROVE  [Srv!Life!Next]_Srv!Life!lifeVars
<1> USE DEF ProcessInv, Srv!TypeOK, Gone, Srv!Life!lifeVars
<1>1. CASE Srv!StartFails
  <2>1. Srv!Life!NotStarted
    BY <1>1 DEF Srv!StartFails, Srv!Life!NotStarted
  <2>2. QED
    BY <2>1 DEF Srv!Life!Next
<1>2. CASE Srv!Notify
  <2>1. Srv!Life!Begin
    BY <1>2 DEF Srv!Notify, Srv!Life!Begin
  <2>2. QED
    BY <2>1 DEF Srv!Life!Next
<1>3. CASE Srv!Run
  BY <1>3 DEF Srv!Run
<1>4. CASE Srv!SelectSignal
  BY <1>4 DEF Srv!SelectSignal
<1>5. CASE Srv!SelectError
  BY <1>5 DEF Srv!SelectError
<1>6. CASE Srv!Shutdown
  <2>1. Srv!Life!Drain
    BY <1>6 DEF Srv!Shutdown, Srv!Life!Drain
  <2>2. QED
    BY <2>1 DEF Srv!Life!Next
<1>7. CASE Srv!Exit
  <2>1. Srv!Life!Exit
    BY <1>7 DEF Srv!Exit, Srv!Quiescent, Srv!Returned, Srv!Life!Exit
  <2>2. QED
    BY <2>1 DEF Srv!Life!Next
<1>8. CASE Srv!Listen
  <2>1. CASE UNCHANGED cause
    BY <1>8, <2>1 DEF Srv!Listen
  <2>2. CASE cause' = cause \cup {"listener"}
    <3>1. Srv!Life!Stop("listener")
      BY <1>8, <2>2 DEF Srv!Listen, Srv!Life!Stop
    <3>2. QED
      BY <3>1 DEF Srv!Life!Next
  <2>3. QED
    BY <1>8, <2>1, <2>2 DEF Srv!Listen
<1>9. CASE Srv!Track
  BY <1>9 DEF Srv!Track
<1>10. CASE Srv!Launch
  BY <1>10 DEF Srv!Launch
<1>11. CASE Srv!AcceptFails
  <2>1. Srv!Life!Stop("listener")
    BY <1>11 DEF Srv!AcceptFails, Srv!Life!Stop
  <2>2. QED
    BY <2>1 DEF Srv!Life!Next
<1>12. CASE Srv!Signal
  <2>1. Srv!Life!Stop("signal")
    BY <1>12 DEF Srv!Signal, Srv!Life!Stop
  <2>2. QED
    BY <2>1 DEF Srv!Life!Next
<1>13. QED
  BY <1>1, <1>2, <1>3, <1>4, <1>5, <1>6, <1>7, <1>8, <1>9, <1>10, <1>11, <1>12 DEF Srv!Step

LEMMA LifeRequest ==
  ASSUME ProcessInv, NEW r \in Req, Srv!Accept(r) \/ Srv!Finish(r)
  PROVE  [Srv!Life!Next]_Srv!Life!lifeVars
<1>1. CASE Srv!Accept(r)
  <2>1. Srv!Life!Accept(r)
    BY <1>1 DEF ProcessInv, Gone, Srv!Accept, Srv!Life!Accept
  <2>2. QED
    BY <2>1 DEF Srv!Life!Next
<1>2. CASE Srv!Finish(r)
  <2>1. Srv!Life!Finish(r)
    BY <1>2 DEF Srv!Finish, Srv!Life!Finish
  <2>2. QED
    BY <2>1 DEF Srv!Life!Next
<1>3. QED
  BY <1>1, <1>2

LEMMA LifeKill ==
  ASSUME ProcessInv, Srv!Kill
  PROVE  [Srv!Life!Next]_Srv!Life!lifeVars
<1>1. CASE main \in Gone
  <2>1. Srv!Life!NotStarted
    BY <1>1 DEF ProcessInv, Gone, Srv!Kill, Srv!Life!NotStarted
  <2>2. QED
    BY <2>1 DEF Srv!Life!Next
<1>2. CASE main \notin Gone
  <2>1. Srv!Life!Kill
    BY <1>2 DEF ProcessInv, Gone, Srv!Kill, Srv!Life!Kill
  <2>2. QED
    BY <2>1 DEF Srv!Life!Next
<1>3. QED
  BY <1>1, <1>2

\* Whatever its requests do, the process takes requests until it drains, drains for a reason,
\* waits for its handlers, and exits with the code of its reason.
THEOREM ImplementsLifecycle == Spec => KeepsLifecycle
<1>1. Init => Srv!Life!Init
  BY LifeInit DEF Init
<1>2. ProcessInv /\ [Next]_vars => [Srv!Life!Next]_Srv!Life!lifeVars
  <2> SUFFICES ASSUME ProcessInv, [Next]_vars PROVE [Srv!Life!Next]_Srv!Life!lifeVars
    OBVIOUS
  <2>1. CASE Srv!Step \/ Srv!Launch \/ Srv!AcceptFails \/ Srv!Signal
    BY <2>1, LifeStep
  <2>2. CASE Srv!Kill
    BY <2>2, LifeKill
  <2>3. CASE \E r \in Req : Srv!Accept(r) \/ Srv!Finish(r)
    BY <2>3, LifeRequest
  <2>4. CASE UNCHANGED serverVars
    BY <2>4 DEF serverVars, Srv!Life!lifeVars
  <2>5. QED
    BY <2>1, <2>2, <2>3, <2>4, ServerStep
<1>3. QED
  BY <1>1, <1>2, ProcessInductive, PTL
     DEF Spec, KeepsLifecycle, Srv!KeepsLifecycle, Srv!Life!Spec

-----------------------------------------------------------------------------
(* Requests *)

Working == {"received", "login", "sign", "lookup", "parse", "expiry", "history"}
Ended == {"done", "finished", "killed"}

Types ==
    /\ now \in 0 .. MaxTime
    /\ input = [r \in Req |-> input[r]]
    /\ hashes = [r \in Req |-> hashes[r]]
    /\ status = [r \in Req |-> status[r]]
    /\ stamp = [r \in Req |-> stamp[r]]
    /\ stage \in [Req -> {"none"} \cup Working \cup Ended]

\* Handlers that run are those the server waits for.
BusyInv(r) == r \in busy <=> stage[r] \notin {"none", "finished", "killed"}

\* A handler answers last.
StatusInv(r) ==
    /\ stage[r] \in {"none"} \cup Working => status[r] = <<>>
    /\ stage[r] \in {"done", "finished"} => \E c \in Nat : status[r] = <<c>>
    /\ stage[r] = "killed" => status[r] = <<>> \/ \E c \in Nat : status[r] = <<c>>

\* A request carries what its endpoint takes.
InputInv(r) ==
    stage[r] # "none" =>
        /\ input[r] = <<input[r][1], input[r][2]>>
        /\ input[r][1] = "authenticate" => input[r][2] \in Bodies
        /\ input[r][1] = "my" => input[r][2] \in issued \cup Forged \cup {NoToken}

\* A handler is where requests to its endpoint get to.
PlaceInv(r) ==
    /\ stage[r] \in {"none", "received"} => stamp[r][1] = ""
    /\ stage[r] \in {"login", "sign"} => input[r][1] = "authenticate" /\ ValidBody(input[r][2])
    /\ stage[r] = "sign" => Authentic(input[r][2])
    /\ stage[r] = "lookup" => input[r][1] \in {"eth", "rlp"} /\ Validate(hashes[r])
    /\ stage[r] \in {"parse", "expiry", "history"} =>
          input[r][1] = "my" /\ input[r][2] # NoToken
    /\ stage[r] = "expiry" => input[r][2] \in issued /\ input[r][2][3] = Secret

\* A token that got through is one that was issued, and its lifetime was not over.
GrantInv(r) ==
    input[r][1] = "my" /\ (stage[r] = "history" \/ status[r] = << 200 >>) =>
        /\ input[r][2] \in issued
        /\ stamp[r][1] = input[r][2][1] /\ stamp[r][3] = input[r][2][3]
        /\ input[r][2][2] - Lifetime <= stamp[r][2] /\ stamp[r][2] <= input[r][2][2]

\* A token that was refused had another key, or its lifetime was over.
RefusalInv(r) ==
    input[r][1] = "my" /\ stamp[r][1] = "nobody" =>
        input[r][2][3] # stamp[r][3] \/ stamp[r][2] > input[r][2][2]

RequestInv(r) ==
    BusyInv(r) /\ StatusInv(r) /\ InputInv(r) /\ PlaceInv(r) /\ GrantInv(r) /\ RefusalInv(r)

\* A token goes back to a login.
IssuedInv ==
    \A t \in issued :
        /\ t[1] \in User /\ t[2] \in Int
        /\ Lifetime <= t[2] /\ t[2] <= now + Lifetime
        /\ \E a \in Req : LoggedIn(a, t[1], t[2] - Lifetime, t[3])

IInv == ProcessInv /\ Types /\ IssuedInv /\ \A r \in Req : RequestInv(r)

\* Other requests than the one that moves notice nothing but new tokens.
Rest(r) ==
    /\ \A s \in Req \ {r} : /\ input'[s] = input[s] /\ stage'[s] = stage[s]
                            /\ hashes'[s] = hashes[s] /\ status'[s] = status[s]
                            /\ stamp'[s] = stamp[s] /\ (s \in busy' <=> s \in busy)
    /\ issued \subseteq issued' /\ env' = env

LEMMA OthersKeep ==
  ASSUME IInv, NEW r \in Req, Rest(r), NEW s \in Req \ {r}
  PROVE  RequestInv(s)'
<1>1. RequestInv(s)
  BY DEF IInv
<1>2. /\ input'[s] = input[s] /\ stage'[s] = stage[s] /\ hashes'[s] = hashes[s]
      /\ status'[s] = status[s] /\ stamp'[s] = stamp[s] /\ (s \in busy' <=> s \in busy)
      /\ issued \subseteq issued' /\ env' = env
  BY DEF Rest
<1>3. BusyInv(s)' /\ StatusInv(s)' /\ InputInv(s)'
  BY <1>1, <1>2 DEF RequestInv, BusyInv, StatusInv, InputInv
<1>4. PlaceInv(s)'
  BY <1>1, <1>2 DEF RequestInv, PlaceInv, Secret
<1>5. GrantInv(s)' /\ RefusalInv(s)'
  BY <1>1, <1>2 DEF RequestInv, GrantInv, RefusalInv
<1>6. QED
  BY <1>3, <1>4, <1>5 DEF RequestInv

\* Logins are history: the request that logged in has ended, and only one that has not can
\* move.
LEMMA LoginsStay ==
  ASSUME IInv, NEW r \in Req, Rest(r), stage[r] \in {"none"} \cup Working,
         now' \in Int, now <= now', NEW t \in issued
  PROVE  /\ t[1] \in User /\ t[2] \in Int
         /\ Lifetime <= t[2] /\ t[2] <= now' + Lifetime
         /\ (\E a \in Req : LoggedIn(a, t[1], t[2] - Lifetime, t[3]))'
<1>1. PICK a \in Req : LoggedIn(a, t[1], t[2] - Lifetime, t[3])
  BY DEF IInv, IssuedInv
<1>2. status[r] = <<>>
  BY DEF IInv, RequestInv, StatusInv
<1>3. a # r
  BY <1>1, <1>2 DEF LoggedIn
<1>4. LoggedIn(a, t[1], t[2] - Lifetime, t[3])'
  BY <1>1, <1>3 DEF LoggedIn, Rest
<1>5. t[1] \in User /\ t[2] \in Int /\ Lifetime <= t[2] /\ t[2] <= now + Lifetime
  BY DEF IInv, IssuedInv
<1>6. t[2] <= now' + Lifetime
  BY <1>5, GatewayAssumption DEF IInv, Types
<1>7. QED
  BY <1>4, <1>5, <1>6

\* What a handler changes of the variables of requests it changes at its own request.
LEMMA HandleFrame ==
  ASSUME IInv, NEW r \in Req, Handle(r)
  PROVE  /\ \E h : hashes' = [hashes EXCEPT ![r] = h]
         /\ \E h : status' = [status EXCEPT ![r] = h]
         /\ \E h : stamp' = [stamp EXCEPT ![r] = h]
         /\ \E h \in Working \cup {"done"} : stage' = [stage EXCEPT ![r] = h]
         /\ input' = input /\ issued \subseteq issued' /\ now' = now
         /\ UNCHANGED serverVars
         /\ stage[r] \in Working
<1> USE DEF Goto, Answer, Respond, Note, Refuse, Working
<1>1. /\ hashes = [hashes EXCEPT ![r] = hashes[r]]
      /\ status = [status EXCEPT ![r] = status[r]]
      /\ stamp = [stamp EXCEPT ![r] = stamp[r]]
  BY DEF IInv, Types
<1>2. UNCHANGED serverVars
  BY DEF Handle
<1>3. CASE Decode(r)
  BY <1>1, <1>2, <1>3 DEF Decode
<1>4. CASE Login(r)
  BY <1>1, <1>2, <1>4 DEF Login
<1>5. CASE Sign(r)
  BY <1>1, <1>2, <1>5 DEF Sign
<1>6. CASE Query(r)
  BY <1>1, <1>2, <1>6 DEF Query
<1>7. CASE QueryRLP(r)
  BY <1>1, <1>2, <1>7 DEF QueryRLP
<1>8. CASE Transactions(r)
  BY <1>1, <1>2, <1>8 DEF Transactions
<1>9. CASE TokenGiven(r)
  BY <1>1, <1>2, <1>9 DEF TokenGiven
<1>10. CASE Parse(r)
  BY <1>1, <1>2, <1>10 DEF Parse
<1>11. CASE CheckExpiry(r)
  BY <1>1, <1>2, <1>11 DEF CheckExpiry
<1>12. CASE UserHistory(r)
  BY <1>1, <1>2, <1>12 DEF UserHistory
<1>13. CASE AllTransactions(r)
  BY <1>1, <1>2, <1>13 DEF AllTransactions
<1>14. QED
  BY <1>3, <1>4, <1>5, <1>6, <1>7, <1>8, <1>9, <1>10, <1>11, <1>12, <1>13 DEF Handle

LEMMA HandleRest ==
  ASSUME IInv, NEW r \in Req, Handle(r)
  PROVE  Rest(r) /\ Types' /\ UNCHANGED <<serverVars, input, now>> /\ stage[r] \in Working
<1>1. PICK h : hashes' = [hashes EXCEPT ![r] = h]
  BY HandleFrame
<1>2. PICK c : status' = [status EXCEPT ![r] = c]
  BY HandleFrame
<1>3. PICK p : stamp' = [stamp EXCEPT ![r] = p]
  BY HandleFrame
<1>4. PICK g \in Working \cup {"done"} : stage' = [stage EXCEPT ![r] = g]
  BY HandleFrame
<1>5. /\ input' = input /\ issued \subseteq issued' /\ now' = now
      /\ UNCHANGED serverVars /\ stage[r] \in Working
  BY HandleFrame
<1>6. Types
  BY DEF IInv
<1>7. Rest(r)
  BY <1>1, <1>2, <1>3, <1>4, <1>5, <1>6 DEF Rest, Types, serverVars
<1>8. hashes' = [s \in Req |-> hashes'[s]]
  BY <1>1, <1>6 DEF Types
<1>9. status' = [s \in Req |-> status'[s]]
  BY <1>2, <1>6 DEF Types
<1>10. stamp' = [s \in Req |-> stamp'[s]]
  BY <1>3, <1>6 DEF Types
<1>11. stage' \in [Req -> {"none"} \cup Working \cup Ended]
  BY <1>4, <1>6 DEF Types, Ended
<1>12. Types'
  BY <1>5, <1>6, <1>8, <1>9, <1>10, <1>11 DEF Types
<1>13. QED
  BY <1>5, <1>7, <1>12

\* The parts of RequestInv(r) that every handler keeps for its own request, given where it
\* goes.
LEMMA HandleRequest ==
  ASSUME IInv, NEW r \in Req, Handle(r)
  PROVE  RequestInv(r)'
<1>1. /\ Types /\ RequestInv(r) /\ Types' /\ stage[r] \in Working
      /\ input' = input /\ now' = now /\ env' = env /\ busy' = busy /\ issued \subseteq issued'
  BY HandleRest DEF IInv, serverVars, Rest
<1>2. status[r] = <<>> /\ r \in busy
  BY <1>1 DEF RequestInv, StatusInv, BusyInv, Working
<1>3. /\ hashes = [s \in Req |-> hashes[s]] /\ status = [s \in Req |-> status[s]]
      /\ stamp = [s \in Req |-> stamp[s]] /\ stage \in [Req -> {"none"} \cup Working \cup Ended]
  BY <1>1 DEF Types
<1>4. /\ BusyInv(r) /\ StatusInv(r) /\ InputInv(r) /\ PlaceInv(r) /\ GrantInv(r)
      /\ RefusalInv(r)
  BY <1>1 DEF RequestInv
<1>5. InputInv(r)'
  BY <1>1, <1>4 DEF InputInv, Working
\* The handler answers with c, and is done.
<1>6. ASSUME NEW c \in Nat, Answer(r, c)
      PROVE  /\ BusyInv(r)' /\ StatusInv(r)' /\ PlaceInv(r)'
             /\ status'[r] = <<c>> /\ stage'[r] = "done"
  <2>1. status'[r] = Append(<<>>, c) /\ stage'[r] = "done"
    BY <1>2, <1>3, <1>6 DEF Answer, Respond, Goto
  <2>2. status'[r] = <<c>>
    BY <2>1
  <2>3. QED
    BY <2>1, <2>2, <1>1, <1>2 DEF BusyInv, StatusInv, PlaceInv, Working
\* It goes on with g.
<1>7. ASSUME NEW g \in Working, Goto(r, g), status' = status
      PROVE  BusyInv(r)' /\ StatusInv(r)' /\ stage'[r] = g /\ status'[r] = <<>>
  <2>1. status'[r] = <<>> /\ stage'[r] = g
    BY <1>2, <1>3, <1>7 DEF Goto
  <2>2. QED
    BY <2>1, <1>1, <1>2 DEF BusyInv, StatusInv, Working
\* Note stamps the request.
<1>8. ASSUME NEW u, Note(r, u) PROVE stamp'[r] = <<u, now, Secret>>
  BY <1>3, <1>8 DEF Note
\* Requests to other endpoints than /lime/my are granted and refused nothing.
<1>9. ASSUME input[r][1] # "my" PROVE GrantInv(r)' /\ RefusalInv(r)'
  BY <1>1, <1>9 DEF GrantInv, RefusalInv
\* Nor are requests to it that are not stamped, and neither succeed nor have passed.
<1>10. ASSUME stamp' = stamp, stage'[r] # "history", status'[r] # << 200 >>
       PROVE  GrantInv(r)' /\ RefusalInv(r)'
  BY <1>1, <1>4, <1>10 DEF GrantInv, RefusalInv
<1>11. 200 \in Nat /\ 400 \in Nat /\ 401 \in Nat /\ 500 \in Nat
  OBVIOUS
<1>12. CASE Decode(r)
  <2>1. input[r][1] = "authenticate"
    BY <1>12 DEF Decode
  <2>2. CASE Answer(r, 400)
    BY <2>1, <2>2, <1>5, <1>6, <1>9, <1>11 DEF RequestInv
  <2>3. CASE ValidBody(input[r][2]) /\ Goto(r, "login") /\ status' = status
    <3>1. BusyInv(r)' /\ StatusInv(r)' /\ stage'[r] = "login"
      BY <2>3, <1>7 DEF Working
    <3>2. PlaceInv(r)'
      BY <3>1, <2>1, <2>3, <1>1 DEF PlaceInv
    <3>3. QED
      BY <3>1, <3>2, <2>1, <1>5, <1>9 DEF RequestInv
  <2>4. QED
    BY <2>2, <2>3, <1>12 DEF Decode
<1>13. CASE Login(r)
  <2>1. input[r][1] = "authenticate" /\ ValidBody(input[r][2])
    BY <1>13, <1>4 DEF Login, PlaceInv
  <2>2. CASE Answer(r, 401) \/ Answer(r, 500)
    BY <2>1, <2>2, <1>5, <1>6, <1>9, <1>11 DEF RequestInv
  <2>3. CASE Authentic(input[r][2]) /\ Goto(r, "sign") /\ status' = status
    <3>1. BusyInv(r)' /\ StatusInv(r)' /\ stage'[r] = "sign"
      BY <2>3, <1>7 DEF Working
    <3>2. PlaceInv(r)'
      BY <3>1, <2>1, <2>3, <1>1 DEF PlaceInv
    <3>3. QED
      BY <3>1, <3>2, <2>1, <1>5, <1>9 DEF RequestInv
  <2>4. QED
    BY <2>2, <2>3, <1>13 DEF Login
<1>14. CASE Sign(r)
  <2>1. input[r][1] = "authenticate" /\ Answer(r, 200)
    BY <1>14, <1>4 DEF Sign, PlaceInv
  <2>2. QED
    BY <2>1, <1>5, <1>6, <1>9, <1>11 DEF RequestInv
<1>15. CASE Query(r)
  <2>1. input[r][1] = "eth"
    BY <1>15 DEF Query
  <2>2. CASE Answer(r, 400)
    BY <2>1, <2>2, <1>5, <1>6, <1>9, <1>11 DEF RequestInv
  <2>3. CASE /\ Validate(input[r][2]) /\ hashes' = [hashes EXCEPT ![r] = input[r][2]]
             /\ Goto(r, "lookup") /\ status' = status
    <3>1. BusyInv(r)' /\ StatusInv(r)' /\ stage'[r] = "lookup"
      BY <2>3, <1>7 DEF Working
    <3>2. hashes'[r] = input[r][2]
      BY <2>3, <1>3
    <3>3. Validate(hashes[r])'
      BY <3>2, <2>3 DEF Validate
    <3>4. PlaceInv(r)'
      BY <3>1, <3>3, <2>1, <1>1 DEF PlaceInv
    <3>5. QED
      BY <3>1, <3>4, <2>1, <1>5, <1>9 DEF RequestInv
  <2>4. QED
    BY <2>2, <2>3, <1>15 DEF Query
<1>16. CASE QueryRLP(r)
  <2>1. input[r][1] = "rlp"
    BY <1>16 DEF QueryRLP
  <2>2. CASE Answer(r, 400) \/ Answer(r, 500)
    BY <2>1, <2>2, <1>5, <1>6, <1>9, <1>11 DEF RequestInv
  <2>3. CASE /\ Validate(ParseRLP(input[r][2]))
             /\ hashes' = [hashes EXCEPT ![r] = ParseRLP(input[r][2])]
             /\ Goto(r, "lookup") /\ status' = status
    <3>1. BusyInv(r)' /\ StatusInv(r)' /\ stage'[r] = "lookup"
      BY <2>3, <1>7 DEF Working
    <3>2. hashes'[r] = ParseRLP(input[r][2])
      BY <2>3, <1>3
    <3>3. Validate(hashes[r])'
      BY <3>2, <2>3 DEF Validate
    <3>4. PlaceInv(r)'
      BY <3>1, <3>3, <2>1, <1>1 DEF PlaceInv
    <3>5. QED
      BY <3>1, <3>4, <2>1, <1>5, <1>9 DEF RequestInv
  <2>4. QED
    BY <2>2, <2>3, <1>16 DEF QueryRLP
<1>17. CASE Transactions(r)
  <2>1. input[r][1] # "my" /\ (Answer(r, 200) \/ Answer(r, 500))
    BY <1>17, <1>4 DEF Transactions, PlaceInv
  <2>2. QED
    BY <2>1, <1>5, <1>6, <1>9, <1>11 DEF RequestInv
<1>18. CASE TokenGiven(r)
  <2>1. input[r][1] = "my" /\ stamp' = stamp
    BY <1>18 DEF TokenGiven
  <2>2. CASE Answer(r, 401)
    <3>1. /\ BusyInv(r)' /\ StatusInv(r)' /\ PlaceInv(r)'
          /\ status'[r] = <<401>> /\ stage'[r] = "done"
      BY <2>2, <1>6, <1>11
    <3>2. GrantInv(r)' /\ RefusalInv(r)'
      BY <3>1, <2>1, <1>10
    <3>3. QED
      BY <3>1, <3>2, <1>5 DEF RequestInv
  <2>3. CASE input[r][2] # NoToken /\ Goto(r, "parse") /\ status' = status
    <3>1. BusyInv(r)' /\ StatusInv(r)' /\ stage'[r] = "parse" /\ status'[r] = <<>>
      BY <2>3, <1>7 DEF Working
    <3>2. PlaceInv(r)'
      BY <3>1, <2>1, <2>3, <1>1 DEF PlaceInv, NoToken
    <3>3. GrantInv(r)' /\ RefusalInv(r)'
      BY <3>1, <2>1, <1>10
    <3>4. QED
      BY <3>1, <3>2, <3>3, <1>5 DEF RequestInv
  <2>4. QED
    BY <2>2, <2>3, <1>18 DEF TokenGiven
<1>19. CASE Parse(r)
  <2>1. input[r][1] = "my" /\ input[r][2] # NoToken /\ stage[r] = "parse"
    BY <1>19, <1>4 DEF Parse, PlaceInv
  <2>2. input[r][2] \in issued \cup Forged
    BY <2>1, <1>4 DEF InputInv
  <2>3. CASE Valid(input[r][2]) /\ Goto(r, "expiry") /\ status' = status /\ stamp' = stamp
    <3>1. BusyInv(r)' /\ StatusInv(r)' /\ stage'[r] = "expiry" /\ status'[r] = <<>>
      BY <2>3, <1>7 DEF Working
    <3>2. env \in Envs /\ EnvKeys \subseteq DOMAIN env
      <4>1. main \notin Gone
        BY <1>2 DEF IInv, ProcessInv
      <4>2. QED
        BY <4>1 DEF IInv, ProcessInv, Srv!TypeOK, Srv!Configured
    <3>3. input[r][2] \in issued /\ input[r][2][3] = Secret
      BY <3>2, <2>2, <2>3, GatewayAssumption DEF Valid, Secret
    <3>4. PlaceInv(r)'
      BY <3>1, <3>3, <2>1, <1>1 DEF PlaceInv, Secret, NoToken
    <3>5. GrantInv(r)' /\ RefusalInv(r)'
      BY <3>1, <2>3, <1>10
    <3>6. QED
      BY <3>1, <3>4, <3>5, <1>5 DEF RequestInv
  <2>4. CASE ~Valid(input[r][2]) /\ Refuse(r)
    <3>1. /\ BusyInv(r)' /\ StatusInv(r)' /\ PlaceInv(r)'
          /\ status'[r] = <<500>> /\ stage'[r] = "done"
      BY <2>4, <1>6, <1>11 DEF Refuse
    <3>2. stamp'[r] = <<"nobody", now, Secret>>
      BY <2>4, <1>8 DEF Refuse
    <3>3. input[r][2][2] \in Int /\ now \in Int
      BY <2>2, <1>1, GatewayAssumption DEF IInv, IssuedInv, Types
    <3>4. input[r][2][3] # Secret \/ now > input[r][2][2]
      BY <3>3, <2>4 DEF Valid
    <3>5. RefusalInv(r)'
      BY <3>2, <3>4, <1>1 DEF RefusalInv
    <3>6. GrantInv(r)'
      BY <3>1 DEF GrantInv
    <3>7. QED
      BY <3>1, <3>5, <3>6, <1>5 DEF RequestInv
  <2>5. QED
    BY <2>3, <2>4, <1>19 DEF Parse
<1>20. CASE CheckExpiry(r)
  <2>1. /\ input[r][1] = "my" /\ input[r][2] # NoToken
        /\ input[r][2] \in issued /\ input[r][2][3] = Secret
    BY <1>20, <1>4 DEF CheckExpiry, PlaceInv
  <2>2. /\ input[r][2][1] \in User /\ input[r][2][2] \in Int
        /\ input[r][2][2] <= now + Lifetime
    BY <2>1 DEF IInv, IssuedInv
  <2>3. now \in Int /\ Lifetime \in Int
    BY <1>1, GatewayAssumption DEF Types
  <2>4. CASE input[r][2][2] < now /\ Refuse(r)
    <3>1. /\ BusyInv(r)' /\ StatusInv(r)' /\ PlaceInv(r)'
          /\ status'[r] = <<500>> /\ stage'[r] = "done"
      BY <2>4, <1>6, <1>11 DEF Refuse
    <3>2. stamp'[r] = <<"nobody", now, Secret>>
      BY <2>4, <1>8 DEF Refuse
    <3>3. now > input[r][2][2]
      BY <2>2, <2>3, <2>4
    <3>4. RefusalInv(r)'
      BY <3>2, <3>3, <1>1 DEF RefusalInv
    <3>5. GrantInv(r)'
      BY <3>1 DEF GrantInv
    <3>6. QED
      BY <3>1, <3>4, <3>5, <1>5 DEF RequestInv
  <2>5. CASE /\ ~(input[r][2][2] < now) /\ Note(r, input[r][2][1])
             /\ Goto(r, "history") /\ status' = status
    <3>1. BusyInv(r)' /\ StatusInv(r)' /\ stage'[r] = "history" /\ status'[r] = <<>>
      BY <2>5, <1>7 DEF Working
    <3>2. stamp'[r] = <<input[r][2][1], now, Secret>>
      BY <2>5, <1>8
    <3>3. input[r][2][2] - Lifetime <= now /\ now <= input[r][2][2]
      BY <2>2, <2>3, <2>5
    <3>4. PlaceInv(r)'
      BY <3>1, <2>1, <1>1 DEF PlaceInv, NoToken
    <3>5. GrantInv(r)'
      BY <3>2, <3>3, <2>1, <1>1 DEF GrantInv
    <3>6. RefusalInv(r)'
      BY <3>2, <2>2, <1>1, GatewayAssumption DEF RefusalInv
    <3>7. QED
      BY <3>1, <3>4, <3>5, <3>6, <1>5 DEF RequestInv
  <2>6. QED
    BY <2>4, <2>5, <1>20 DEF CheckExpiry
<1>21. CASE UserHistory(r)
  <2>1. stage[r] = "history" /\ stamp' = stamp /\ (Answer(r, 200) \/ Answer(r, 500))
    BY <1>21 DEF UserHistory
  <2>2. BusyInv(r)' /\ StatusInv(r)' /\ PlaceInv(r)'
    BY <2>1, <1>6, <1>11
  <2>3. GrantInv(r)' /\ RefusalInv(r)'
    BY <2>1, <1>1, <1>4 DEF GrantInv, RefusalInv
  <2>4. QED
    BY <2>2, <2>3, <1>5 DEF RequestInv
<1>22. CASE AllTransactions(r)
  <2>1. input[r][1] # "my" /\ (Answer(r, 200) \/ Answer(r, 500))
    BY <1>22 DEF AllTransactions
  <2>2. QED
    BY <2>1, <1>5, <1>6, <1>9, <1>11 DEF RequestInv
<1>23. QED
  BY <1>12, <1>13, <1>14, <1>15, <1>16, <1>17, <1>18, <1>19, <1>20, <1>21, <1>22 DEF Handle

\* Only Sign issues a token, to the user whose name and password the request carries.
LEMMA HandleIssued ==
  ASSUME IInv, NEW r \in Req, Handle(r)
  PROVE  IssuedInv'
<1>1. /\ Rest(r) /\ Types /\ Types' /\ stage[r] \in Working
      /\ input' = input /\ now' = now /\ env' = env
  BY HandleRest DEF IInv, serverVars, Rest
<1>2. now \in Int /\ Lifetime \in Nat /\ 0 <= now
  BY <1>1, GatewayAssumption DEF Types
<1>3. ASSUME NEW t \in issued
      PROVE  /\ t[1] \in User /\ t[2] \in Int
             /\ Lifetime <= t[2] /\ t[2] <= now' + Lifetime
             /\ (\E a \in Req : LoggedIn(a, t[1], t[2] - Lifetime, t[3]))'
  BY <1>1, <1>2, LoginsStay
<1>4. CASE issued' = issued
  BY <1>3, <1>4 DEF IssuedInv
<1>5. CASE Sign(r)
  <2> DEFINE b == input[r][2]
             t == Generate(b[1])
  <2>1. /\ issued' = issued \cup {t} /\ Note(r, b[1]) /\ Answer(r, 200)
        /\ input[r][1] = "authenticate" /\ ValidBody(b) /\ Authentic(b)
    BY <1>5 DEF Sign, IInv, RequestInv, PlaceInv
  <2>2. b \in Bodies /\ input[r] = <<"authenticate", b>> /\ status[r] = <<>>
    BY <2>1, <1>1 DEF IInv, RequestInv, InputInv, StatusInv, Working
  <2>3. b = <<b[1], Password[b[1]]>> /\ b[1] \in User
    BY <2>1, <2>2, GatewayAssumption DEF ValidBody, Decoded, Authentic, GetUserFromDB
  <2>4. status'[r] = << 200 >>
    <3>1. status'[r] = Append(<<>>, 200)
      BY <2>1, <2>2, <1>1 DEF Answer, Respond, Types
    <3>2. QED
      BY <3>1
  <2>5. stamp'[r] = <<b[1], now, Secret>>
    BY <2>1, <1>1 DEF Note, Types
  <2>6. /\ t[1] = b[1] /\ t[2] = now + Lifetime /\ t[3] = Secret
        /\ t[2] - Lifetime = now
    BY <1>2 DEF Generate
  <2>7. input'[r] = <<"authenticate", <<t[1], Password[t[1]]>>>>
    BY <2>2, <2>3, <2>6, <1>1
  <2>8. LoggedIn(r, t[1], t[2] - Lifetime, t[3])'
    BY <2>4, <2>5, <2>6, <2>7, <1>1 DEF LoggedIn, Generate, Secret
  <2>9. /\ t[1] \in User /\ t[2] \in Int
        /\ Lifetime <= t[2] /\ t[2] <= now' + Lifetime
    BY <2>3, <2>6, <1>1, <1>2
  <2>10. ASSUME NEW x \in issued'
         PROVE  /\ x[1] \in User /\ x[2] \in Int
                /\ Lifetime <= x[2] /\ x[2] <= now' + Lifetime
                /\ (\E a \in Req : LoggedIn(a, x[1], x[2] - Lifetime, x[3]))'
    <3>1. CASE x \in issued
      BY <3>1, <1>3
    <3>2. CASE x = t
      <4>1. (\E a \in Req : LoggedIn(a, x[1], x[2] - Lifetime, x[3]))'
        BY <2>8, <3>2, <1>1 DEF LoggedIn, Generate, Secret
      <4>2. QED
        BY <4>1, <3>2, <2>9
    <3>3. QED
      BY <3>1, <3>2, <2>1
  <2>11. QED
    BY <2>10 DEF IssuedInv
<1>6. CASE ~Sign(r)
  <2>1. issued' = issued
    BY <1>6 DEF Handle, Decode, Login, Query, QueryRLP, Transactions, TokenGiven, Parse,
                CheckExpiry, UserHistory, AllTransactions
  <2>2. QED
    BY <2>1, <1>4
<1>7. QED
  BY <1>5, <1>6

\* A step of request r that keeps RequestInv(r) and issues nothing keeps the invariant.
LEMMA OneMoves ==
  ASSUME IInv, NEW r \in Req, Rest(r), ProcessInv', Types', RequestInv(r)', IssuedInv'
  PROVE  IInv'
<1>1. ASSUME NEW s \in Req PROVE RequestInv(s)'
  BY OthersKeep
<1>2. QED
  BY <1>1 DEF IInv

LEMMA ReceiveStep ==
  ASSUME IInv, NEW r \in Req, Receive(r)
  PROVE  IInv'
<1>1. PICK q \in Requests : input' = [input EXCEPT ![r] = q]
  BY DEF Receive
<1>2. /\ stage[r] = "none" /\ r \notin busy /\ busy' = busy \cup {r}
      /\ stage' = [stage EXCEPT ![r] = "received"]
      /\ UNCHANGED <<now, issued, hashes, status, stamp, env>>
  BY DEF Receive, Srv!Accept
<1>3. Types /\ RequestInv(r)
  BY DEF IInv
<1>4. /\ BusyInv(r) /\ StatusInv(r) /\ PlaceInv(r)
  BY <1>3 DEF RequestInv
<1>5. /\ input'[r] = q /\ stage'[r] = "received" /\ status'[r] = <<>>
      /\ stamp'[r][1] = "" /\ r \in busy'
  BY <1>1, <1>2, <1>3, <1>4 DEF Types, StatusInv, PlaceInv
<1>6. Rest(r)
  BY <1>1, <1>2, <1>3 DEF Rest, Types
<1>7. Types'
  BY <1>1, <1>2, <1>3 DEF Types, Working
<1>8. ProcessInv'
  BY ProcessRequest DEF Receive, IInv
<1>9. /\ q = <<q[1], q[2]>>
      /\ q[1] = "authenticate" => q[2] \in Bodies
      /\ q[1] = "my" => q[2] \in issued \cup Forged \cup {NoToken}
  <2>1. \/ q \in {"authenticate"} \X Bodies \/ q \in {"eth"} \X Queries
        \/ q \in {"rlp"} \X Codes
        \/ q \in {"my"} \X (issued \cup Forged \cup {NoToken}) \/ q = <<"all", <<>>>>
    BY DEF Requests
  <2>2. QED
    BY <2>1
<1>10. RequestInv(r)'
  <2>1. BusyInv(r)' /\ StatusInv(r)' /\ PlaceInv(r)'
    BY <1>5 DEF BusyInv, StatusInv, PlaceInv, Working
  <2>2. InputInv(r)'
    BY <1>2, <1>5, <1>9 DEF InputInv
  <2>3. GrantInv(r)' /\ RefusalInv(r)'
    <3>1. status'[r] # << 200 >>
      <4>1. Len(<<>>) # Len(<< 200 >>)
        OBVIOUS
      <4>2. QED
        BY <4>1, <1>5
    <3>2. stage'[r] # "history" /\ stamp'[r][1] # "nobody"
      BY <1>5
    <3>3. QED
      BY <3>1, <3>2 DEF GrantInv, RefusalInv
  <2>4. QED
    BY <2>1, <2>2, <2>3 DEF RequestInv
<1>11. now' \in Int /\ now <= now'
  BY <1>2, <1>3 DEF Types
<1>12. IssuedInv'
  <2>1. ASSUME NEW t \in issued
        PROVE  /\ t[1] \in User /\ t[2] \in Int
               /\ Lifetime <= t[2] /\ t[2] <= now' + Lifetime
               /\ (\E a \in Req : LoggedIn(a, t[1], t[2] - Lifetime, t[3]))'
    BY <1>2, <1>6, <1>11, LoginsStay
  <2>2. QED
    BY <2>1, <1>2 DEF IssuedInv
<1>13. QED
  BY <1>6, <1>7, <1>8, <1>10, <1>12, OneMoves

\* A step that issues nothing, and changes neither the clock nor what requests that have
\* ended were, keeps what is known of the tokens.
LEMMA NothingIssued ==
  ASSUME IInv, issued' = issued, UNCHANGED <<input, status, stamp>>,
         now' \in Nat, now <= now'
  PROVE  IssuedInv'
<1>1. now \in Nat /\ Lifetime \in Nat
  BY GatewayAssumption DEF IInv, Types
<1>2. ASSUME NEW t \in issued
      PROVE  /\ t[1] \in User /\ t[2] \in Int
             /\ Lifetime <= t[2] /\ t[2] <= now' + Lifetime
             /\ (\E a \in Req : LoggedIn(a, t[1], t[2] - Lifetime, t[3]))'
  <2>1. /\ t[1] \in User /\ t[2] \in Int /\ Lifetime <= t[2] /\ t[2] <= now + Lifetime
        /\ \E a \in Req : LoggedIn(a, t[1], t[2] - Lifetime, t[3])
    BY DEF IInv, IssuedInv
  <2>2. t[2] <= now' + Lifetime
    BY <2>1, <1>1
  <2>3. (\E a \in Req : LoggedIn(a, t[1], t[2] - Lifetime, t[3]))'
    BY <2>1 DEF LoggedIn
  <2>4. QED
    BY <2>1, <2>2, <2>3
<1>3. QED
  BY <1>2 DEF IssuedInv

LEMMA FinishStep ==
  ASSUME IInv, NEW r \in Req, Finish(r)
  PROVE  IInv'
<1>1. /\ stage[r] = "done" /\ stage' = [stage EXCEPT ![r] = "finished"]
      /\ r \in busy /\ busy' = busy \ {r}
      /\ UNCHANGED <<now, issued, input, hashes, status, stamp, env>>
  BY DEF Finish, Goto, Srv!Finish
<1>2. Types /\ RequestInv(r)
  BY DEF IInv
<1>3. Rest(r) /\ Types'
  BY <1>1, <1>2 DEF Rest, Types, Ended
<1>4. stage'[r] = "finished" /\ r \notin busy'
  BY <1>1, <1>2 DEF Types
<1>5. RequestInv(r)'
  BY <1>1, <1>2, <1>4
     DEF RequestInv, BusyInv, StatusInv, InputInv, PlaceInv, GrantInv, RefusalInv, Working
<1>6. ProcessInv'
  BY ProcessRequest DEF Finish, IInv
<1>7. IssuedInv'
  <2>1. now' \in Nat /\ now <= now'
    BY <1>1, <1>2, GatewayAssumption DEF Types
  <2>2. QED
    BY <2>1, <1>1, NothingIssued
<1>8. QED
  BY <1>3, <1>5, <1>6, <1>7, OneMoves

LEMMA KillStep ==
  ASSUME IInv, Kill
  PROVE  IInv'
<1>1. /\ busy' = {} /\ stage' = [r \in Req |-> IF r \in busy THEN "killed" ELSE stage[r]]
      /\ UNCHANGED <<now, issued, input, hashes, status, stamp, env>>
  BY DEF Kill, Srv!Kill
<1>2. Types'
  BY <1>1 DEF IInv, Types, Ended
<1>3. ProcessInv'
  BY ProcessKill DEF Kill, IInv
<1>4. IssuedInv'
  <2>1. now' \in Nat /\ now <= now'
    BY <1>1, GatewayAssumption DEF IInv, Types
  <2>2. QED
    BY <2>1, <1>1, NothingIssued
<1>5. ASSUME NEW r \in Req PROVE RequestInv(r)'
  <2>1. RequestInv(r) /\ stage[r] \in {"none"} \cup Working \cup Ended
    BY DEF IInv, Types
  <2>2. CASE r \in busy
    <3>1. stage'[r] = "killed"
      BY <2>2, <1>1
    <3>2. status[r] = <<>> \/ \E c \in Nat : status[r] = <<c>>
      BY <2>1 DEF RequestInv, StatusInv, Ended
    <3>3. BusyInv(r)' /\ StatusInv(r)'
      BY <3>1, <3>2, <1>1 DEF BusyInv, StatusInv, Working
    <3>4. InputInv(r)' /\ PlaceInv(r)'
      BY <2>1, <2>2, <3>1, <1>1 DEF RequestInv, InputInv, PlaceInv, BusyInv
    <3>5. GrantInv(r)' /\ RefusalInv(r)'
      BY <2>1, <3>1, <1>1 DEF RequestInv, GrantInv, RefusalInv
    <3>6. QED
      BY <3>3, <3>4, <3>5 DEF RequestInv
  <2>3. CASE r \notin busy
    <3>1. stage'[r] = stage[r]
      BY <2>3, <1>1
    <3>2. BusyInv(r)' /\ StatusInv(r)' /\ InputInv(r)'
      BY <2>1, <2>3, <3>1, <1>1 DEF RequestInv, BusyInv, StatusInv, InputInv
    <3>3. PlaceInv(r)'
      BY <2>1, <3>1, <1>1 DEF RequestInv, PlaceInv, Secret
    <3>4. GrantInv(r)' /\ RefusalInv(r)'
      BY <2>1, <3>1, <1>1 DEF RequestInv, GrantInv, RefusalInv
    <3>5. QED
      BY <3>2, <3>3, <3>4 DEF RequestInv
  <2>4. QED
    BY <2>2, <2>3
<1>6. QED
  BY <1>2, <1>3, <1>4, <1>5 DEF IInv

\* The process and the clock move on, and the requests do not: a new environment comes only
\* with a new process, which no request is in.
LEMMA OtherStep ==
  ASSUME IInv, Process \/ Tick \/ UNCHANGED vars
  PROVE  IInv'
<1>1. /\ UNCHANGED <<issued, requestVars>>
      /\ now' = now \/ (now < MaxTime /\ now' = now + 1)
  BY DEF Process, Tick, vars
<1>2. busy' = busy /\ (env' = env \/ busy = {})
  <2>1. CASE Process
    <3>1. CASE Srv!Launch
      BY <3>1 DEF Srv!Launch, IInv, ProcessInv, Gone
    <3>2. CASE Srv!Step
      BY <3>2 DEF Srv!Step, Srv!StartFails, Srv!Notify, Srv!Run, Srv!SelectSignal,
                  Srv!SelectError, Srv!Shutdown, Srv!Exit, Srv!Listen, Srv!Track
    <3>3. CASE Srv!AcceptFails \/ Srv!Signal
      BY <3>3 DEF Srv!AcceptFails, Srv!Signal
    <3>4. QED
      BY <2>1, <3>1, <3>2, <3>3 DEF Process
  <2>2. CASE Tick \/ UNCHANGED vars
    BY <2>2 DEF Tick, vars, serverVars
  <2>3. QED
    BY <2>1, <2>2
<1>3. now \in Nat /\ now' \in Nat /\ now <= now' /\ now' \in 0 .. MaxTime
  BY <1>1, GatewayAssumption DEF IInv, Types
<1>4. ProcessInv'
  BY ProcessStep, ProcessStutter DEF Process, Tick, vars, IInv
<1>5. Types'
  BY <1>1, <1>3 DEF IInv, Types, requestVars
<1>6. IssuedInv'
  BY <1>1, <1>3, NothingIssued DEF requestVars
<1>7. ASSUME NEW r \in Req PROVE RequestInv(r)'
  <2>1. RequestInv(r)
    BY DEF IInv
  <2>2. BusyInv(r)' /\ StatusInv(r)' /\ InputInv(r)' /\ GrantInv(r)' /\ RefusalInv(r)'
    BY <2>1, <1>1, <1>2
       DEF RequestInv, BusyInv, StatusInv, InputInv, GrantInv, RefusalInv, requestVars
  <2>3. PlaceInv(r)'
    BY <2>1, <1>1, <1>2 DEF RequestInv, BusyInv, PlaceInv, requestVars, Secret
  <2>4. QED
    BY <2>2, <2>3 DEF RequestInv
<1>8. QED
  BY <1>4, <1>5, <1>6, <1>7 DEF IInv

LEMMA InitIInv == Init => IInv
<1> SUFFICES ASSUME Init PROVE IInv
  OBVIOUS
<1>1. ProcessInv /\ busy = {}
  BY ProcessInit DEF Init, Srv!Init
<1>2. Types
  <2>1. now = 0
    BY Zenon DEF Init
  <2>2. /\ hashes = [r \in Req |-> hashes[r]] /\ status = [r \in Req |-> status[r]]
    BY DEF Init
  <2>3. input = [r \in Req |-> input[r]]
    BY Zenon DEF Init
  <2>4. stamp = [r \in Req |-> stamp[r]]
    BY DEF Init
  <2>5. stage \in [Req -> {"none"} \cup Working \cup Ended]
    BY DEF Init
  <2>6. QED
    BY <2>1, <2>2, <2>3, <2>4, <2>5, GatewayAssumption DEF Types
<1>3. IssuedInv
  BY DEF Init, IssuedInv
<1>4. ASSUME NEW r \in Req PROVE RequestInv(r)
  <2>1. stage[r] = "none" /\ status[r] = <<>>
    BY DEF Init
  <2>2. stamp[r][1] = "" /\ input[r][1] = "none"
    <3>1. stamp[r] = <<"", 0, "">>
      BY DEF Init
    <3>2. input[r] = <<"none", <<>>>>
      BY DEF Init
    <3>3. \A x : <<"none", x>>[1] = "none"
      OBVIOUS
    <3>4. input[r][1] = "none"
      BY <3>2, <3>3, Zenon
    <3>5. <<"", 0, "">>[1] = ""
      OBVIOUS
    <3>6. stamp[r][1] = ""
      BY <3>1, <3>5, Zenon
    <3>7. QED
      BY <3>4, <3>6
  <2>3. BusyInv(r) /\ StatusInv(r) /\ InputInv(r) /\ PlaceInv(r)
    BY <2>1, <2>2, <1>1 DEF BusyInv, StatusInv, InputInv, PlaceInv, Working
  <2>4. GrantInv(r) /\ RefusalInv(r)
    <3>1. input[r][1] # "my"
      BY <2>2
    <3>2. QED
      BY <3>1 DEF GrantInv, RefusalInv
  <2>5. QED
    BY <2>3, <2>4 DEF RequestInv
<1>5. QED
  BY <1>1, <1>2, <1>3, <1>4 DEF IInv

LEMMA HandleStep ==
  ASSUME IInv, NEW r \in Req, Handle(r)
  PROVE  IInv'
<1>1. Rest(r) /\ Types' /\ UNCHANGED serverVars
  BY HandleRest
<1>2. ProcessInv'
  BY <1>1, ProcessStutter DEF IInv
<1>3. RequestInv(r)' /\ IssuedInv'
  BY HandleRequest, HandleIssued
<1>4. QED
  BY <1>1, <1>2, <1>3, OneMoves

\* What is known of the process, the tokens and each request, all at once.
THEOREM Inductive == Spec => []IInv
<1>1. IInv /\ [Next]_vars => IInv'
  <2> SUFFICES ASSUME IInv, [Next]_vars PROVE IInv'
    OBVIOUS
  <2>1. ASSUME NEW r \in Req, Receive(r) \/ Handle(r) \/ Finish(r) PROVE IInv'
    BY <2>1, ReceiveStep, HandleStep, FinishStep
  <2>2. CASE Process \/ Tick \/ UNCHANGED vars
    BY <2>2, OtherStep
  <2>3. CASE Kill
    BY <2>3, KillStep
  <2>4. QED
    BY <2>1, <2>2, <2>3 DEF Next
<1>2. QED
  BY <1>1, InitIInv, PTL DEF Spec

\* The parts of the composition stay within their types, the handlers that run are those the
\* process waits for, and a list reaches GetTransactions only validated.
THEOREM TypeCorrect == Spec => []TypeOK
<1>1. IInv => TypeOK
  <2> SUFFICES ASSUME IInv PROVE TypeOK
    OBVIOUS
  <2>1. Srv!TypeOK /\ now \in 0 .. MaxTime
    BY DEF IInv, ProcessInv, Types
  <2>2. ASSUME NEW t \in issued
        PROVE  t[1] \in User /\ t[2] \in Lifetime .. (MaxTime + Lifetime)
    <3>1. t[1] \in User /\ t[2] \in Int /\ Lifetime <= t[2] /\ t[2] <= now + Lifetime
      BY DEF IInv, IssuedInv
    <3>2. QED
      BY <3>1, <2>1, GatewayAssumption
  <2>3. ASSUME NEW r \in Req
        PROVE  /\ stage[r] \in {"none", "received", "login", "sign", "lookup", "parse",
                                "expiry", "history", "done", "finished", "killed"}
               /\ r \in busy <=> stage[r] \notin {"none", "finished", "killed"}
               /\ stage[r] = "lookup" => Validate(hashes[r])
    <3>1. stage[r] \in {"none"} \cup Working \cup Ended
      BY DEF IInv, Types
    <3>2. BusyInv(r) /\ PlaceInv(r)
      BY DEF IInv, RequestInv
    <3>3. QED
      BY <3>1, <3>2 DEF Working, Ended, BusyInv, PlaceInv
  <2>4. QED
    BY <2>1, <2>2, <2>3 DEF TypeOK
<1>2. QED
  BY <1>1, Inductive, PTL

\* A history is shown only to a token that its user's login with his password was answered
\* with, under the same secret, and not after its lifetime: for any number of users, of
\* requests and of restarts, and however requests, clock and restarts interleave.
THEOREM ShownAfterLogin == Spec => []MyNeedsLogin
<1>1. IInv => MyNeedsLogin
  <2> SUFFICES ASSUME IInv, NEW r \in Req, input[r][1] = "my", status[r] = << 200 >>
               PROVE  \E a \in Req, t \in 0 .. MaxTime :
                          /\ LoggedIn(a, stamp[r][1], t, stamp[r][3])
                          /\ t <= stamp[r][2] /\ stamp[r][2] <= t + Lifetime
    BY DEF MyNeedsLogin
  <2> DEFINE k == input[r][2]
             t == k[2] - Lifetime
  <2>1. /\ k \in issued /\ stamp[r][1] = k[1] /\ stamp[r][3] = k[3]
        /\ t <= stamp[r][2] /\ stamp[r][2] <= k[2]
    BY DEF IInv, RequestInv, GrantInv
  <2>2. /\ k[2] \in Int /\ Lifetime <= k[2] /\ k[2] <= now + Lifetime
        /\ \E a \in Req : LoggedIn(a, k[1], t, k[3])
    BY <2>1 DEF IInv, IssuedInv
  <2>3. now \in 0 .. MaxTime /\ Lifetime \in Nat /\ MaxTime \in Nat
    BY GatewayAssumption DEF IInv, Types
  <2>4. t \in 0 .. MaxTime /\ t + Lifetime = k[2]
    BY <2>2, <2>3
  <2>5. PICK a \in Req : LoggedIn(a, k[1], t, k[3])
    BY <2>2
  <2>6. LoggedIn(a, stamp[r][1], t, stamp[r][3])
    BY <2>1, <2>5
  <2>7. stamp[r][2] <= t + Lifetime
    BY <2>1, <2>4
  <2> HIDE DEF t
  <2>8. QED
    BY <2>1, <2>4, <2>6, <2>7
<1>2. QED
  BY <1>1, Inductive, PTL

\* A token that a login was answered with is good until its lifetime is over, as long as the
\* secret stays.
THEOREM LoginsLast == Spec => []LoginLasts
<1>1. IInv => LoginLasts
  <2> SUFFICES ASSUME IInv, NEW r \in Req, NEW a \in Req, NEW u \in User,
                      NEW t \in 0 .. MaxTime,
                      input[r] = <<"my", <<u, t + Lifetime, stamp[r][3]>>>>,
                      stamp[r][1] = "nobody"
               PROVE  stamp[r][2] > t + Lifetime
    BY DEF LoginLasts
  <2>1. /\ input[r][1] = "my" /\ input[r][2][3] = stamp[r][3]
        /\ input[r][2][2] = t + Lifetime
    OBVIOUS
  <2>2. RefusalInv(r)
    BY DEF IInv, RequestInv
  <2>3. QED
    BY <2>1, <2>2 DEF RefusalInv
<1>2. QED
  BY <1>1, Inductive, PTL

\* Every path through a handler ends with its one answer.
THEOREM OneAnswer == Spec => []AnsweredOnce
<1>1. IInv => AnsweredOnce
  <2> SUFFICES ASSUME IInv, NEW r \in Req
               PROVE  /\ Len(status[r]) <= 1
                      /\ stage[r] \in {"done", "finished"} => Len(status[r]) = 1
    BY DEF AnsweredOnce
  <2>1. StatusInv(r) /\ stage[r] \in {"none"} \cup Working \cup Ended
    BY DEF IInv, RequestInv, Types
  <2>2. status[r] = <<>> \/ \E c \in Nat : status[r] = <<c>>
    BY <2>1 DEF StatusInv, Ended
  <2>3. stage[r] \in {"done", "finished"} => \E c \in Nat : status[r] = <<c>>
    BY <2>1 DEF StatusInv
  <2>4. Len(<<>>) = 0 /\ \A c \in Nat : Len(<<c>>) = 1
    OBVIOUS
  <2>5. Len(status[r]) <= 1
    <3>1. CASE status[r] = <<>>
      BY <3>1
    <3>2. CASE \E c \in Nat : status[r] = <<c>>
      BY <3>2
    <3>3. QED
      BY <2>2, <3>1, <3>2
  <2>6. stage[r] \in {"done", "finished"} => Len(status[r]) = 1
    BY <2>3, <2>4
  <2>7. QED
    BY <2>5, <2>6
<1>2. QED
  BY <1>1, Inductive, PTL

-----------------------------------------------------------------------------
(* The process of the handlers is a Server *)

\* Handlers leave the main and the listening goroutine alone but for their own coming and
\* going, so whatever holds of Server holds while they run.
THEOREM ImplementsServer == Spec => Srv!Spec
<1>1. Init => Srv!Init
  BY DEF Init
<1>2. [Next]_vars => [Srv!Next]_(Srv!serverVars)
  <2> SUFFICES ASSUME [Next]_vars
               PROVE  Srv!Next \/ UNCHANGED Srv!serverVars
    OBVIOUS
  <2>1. CASE Process \/ Kill
    BY <2>1 DEF Process, Kill, Srv!Next
  <2>2. ASSUME NEW r \in Req, Receive(r) \/ Finish(r)
        PROVE  Srv!Next
    BY <2>2 DEF Receive, Finish, Srv!Next
  <2>3. CASE UNCHANGED serverVars
    BY <2>3 DEF serverVars, Srv!serverVars
  <2>4. QED
    BY <2>1, <2>2, <2>3 DEF Next, Handle, Tick, vars
<1>3. QED
  BY <1>1, <1>2, PTL DEF Spec, Srv!Spec

-----------------------------------------------------------------------------
(* Answers and tokens are final *)

\* A response that was written, the login or refusal that it stands for and every token that
\* was handed out stay as they are, through drains, crashes and new secrets; and no request
\* comes back once its handler has returned or was killed.
Final ==
    /\ issued \subseteq issued'
    /\ \A r \in Req :
        /\ stage[r] \in Ended => /\ input'[r] = input[r] /\ status'[r] = status[r]
                                 /\ stamp'[r] = stamp[r] /\ stage'[r] \in Ended
        /\ stage[r] \in {"finished", "killed"} => stage'[r] = stage[r]

\* A step of one request leaves those that have ended alone.
LEMMA FinalIfAlone ==
  ASSUME NEW r \in Req, Rest(r), stage[r] \notin Ended
  PROVE  Final
<1>1. ASSUME NEW s \in Req, stage[s] \in Ended
      PROVE  /\ input'[s] = input[s] /\ status'[s] = status[s]
             /\ stamp'[s] = stamp[s] /\ stage'[s] = stage[s]
  BY <1>1 DEF Rest
<1>2. QED
  BY <1>1 DEF Rest, Final, Ended

\* What the gateway has said it does not take back, whatever the process and its clock do.
THEOREM AnswersFinal == Spec => [][Final]_vars
<1>1. IInv /\ [Next]_vars => [Final]_vars
  <2> SUFFICES ASSUME IInv, Next
               PROVE  Final
    BY DEF Final, vars
  <2>1. stage \in [Req -> {"none"} \cup Working \cup Ended] /\ input = [r \in Req |-> input[r]]
    BY DEF IInv, Types
  <2>2. ASSUME NEW r \in Req, Receive(r)
        PROVE  Final
    <3>1. stage[r] = "none" /\ \A s \in Req \ {r} : input'[s] = input[s]
      BY <2>1, <2>2 DEF Receive
    <3>2. \A s \in Req \ {r} : stage'[s] = stage[s]
      BY <2>1, <2>2 DEF Receive
    <3>3. UNCHANGED <<issued, status, stamp>>
      BY <2>2 DEF Receive
    <3>4. QED
      BY <3>1, <3>2, <3>3 DEF Final, Ended
  <2>3. ASSUME NEW r \in Req, Handle(r)
        PROVE  Final
    <3>1. Rest(r) /\ stage[r] \in Working
      BY <2>3, HandleRest
    <3>2. stage[r] \notin Ended
      BY <3>1 DEF Working, Ended
    <3>3. QED
      BY <3>1, <3>2, FinalIfAlone
  <2>4. ASSUME NEW r \in Req, Finish(r)
        PROVE  Final
    <3>1. UNCHANGED <<issued, input, status, stamp>>
      BY <2>4 DEF Finish
    <3>2. stage[r] = "done" /\ stage' = [stage EXCEPT ![r] = "finished"]
      BY <2>4 DEF Finish, Goto
    <3>3. QED
      BY <2>1, <3>1, <3>2 DEF Final, Ended
  <2>5. CASE Kill
    <3>1. UNCHANGED <<issued, input, status, stamp>>
      BY <2>5 DEF Kill
    <3>2. \A r \in Req : stage[r] \in {"finished", "killed"} => r \notin busy
      BY DEF IInv, RequestInv, BusyInv
    <3>3. stage' = [r \in Req |-> IF r \in busy THEN "killed" ELSE stage[r]]
      BY <2>5 DEF Kill
    <3>4. QED
      BY <3>1, <3>2, <3>3 DEF Final, Ended
  <2>6. CASE Process \/ Tick
    BY <2>6 DEF Process, Tick, requestVars, Final
  <2>7. QED
    BY <2>2, <2>3, <2>4, <2>5, <2>6 DEF Next
<1>2. QED
  BY <1>1, Inductive, PTL DEF Spec
=============================================================================
