------------------------------- MODULE Gateway -------------------------------
(***************************************************************************)
(* The five endpoints (internal/http/handler) in a process (Server) that   *)
(* ends and is started again, perhaps with another secret: how a request   *)
(* is decoded and validated (internal/http/payload, ParseRLP), how users   *)
(* log in (Authenticate) and what their tokens are good for (pkg/jwt).     *)
(*                                                                         *)
(* What GetTransactions does for a list that gets through is TxCache and   *)
(* Fethcher; here it succeeds or fails.                                    *)
(***************************************************************************)
EXTENDS Integers, Sequences, FiniteSets

CONSTANTS Req,       \* requests
          EnvKeys, Envs,  \* as in Server
          Password,  \* Password[u]: what the hash in row u of `users` was made of
          Lifetime,  \* of a token; 24 hours
          MaxTime,   \* bound: the clock stops here
          Bodies,    \* bodies of POST /lime/authenticate: name and password, or <<>> if no JSON
          Queries,   \* lists of GET /lime/eth, <<>> if there is none or it cannot be parsed
          Codes,     \* items of the lists of GET /lime/eth/{rlpHash}, <<"raw">> if no RLP
          Pattern,   \* strings that match ^0x[a-f0-9]+
          HexEncode, \* the string that ParseRLP makes of an item
          Forged,    \* tokens that this service has not signed
          Faults     \* what may go wrong: as in Server, and "db"

User == DOMAIN Password

ASSUME GatewayAssumption ==
    /\ Lifetime \in Nat /\ MaxTime \in Nat
    /\ "nobody" \notin User
    /\ \A b \in Bodies : b # <<>> => b = <<b[1], b[2]>>
    /\ "JWT_SECRET" \in EnvKeys
    /\ \A t \in Forged : t[2] \in Int
    /\ \A t \in Forged, e \in Envs : EnvKeys \subseteq DOMAIN e => t[3] # e["JWT_SECRET"]

VARIABLES
    main, env, sig, lst, err, busy, cause, exit,  \* of Server
    now,     \* the clock
    issued,  \* tokens that were handed out: <<subject, expiry, key>>
    input,   \* input[r]: <<endpoint, what it carries>>
    stage,   \* stage[r]: what its handler does next
    hashes,  \* hashes[r]: the list it passes to GetTransactions
    status,  \* status[r]: the codes it was answered with
    stamp    \* history: stamp[r]: <<user, time, key>> of its login, or of the check of its
             \* token, with "nobody" for a token that was refused

serverVars == <<main, env, sig, lst, err, busy, cause, exit>>
requestVars == <<input, stage, hashes, status, stamp>>
vars == <<serverVars, now, issued, requestVars>>

Srv == INSTANCE Server

NoToken == <<"", 0, "">>
Secret == env["JWT_SECRET"]

Init ==
    /\ Srv!Init
    /\ now = 0
    /\ issued = {}
    /\ input = [r \in Req |-> <<"none", <<>>>>]
    /\ stage = [r \in Req |-> "none"]
    /\ hashes = [r \in Req |-> <<>>]
    /\ status = [r \in Req |-> <<>>]
    /\ stamp = [r \in Req |-> <<"", 0, "">>]

-----------------------------------------------------------------------------
(* Every handler *)

Requests ==
    ({"authenticate"} \X Bodies) \cup ({"eth"} \X Queries) \cup ({"rlp"} \X Codes)
    \cup ({"my"} \X (issued \cup Forged \cup {NoToken})) \cup {<<"all", <<>>>>}

\* A request is given its id, logged and routed.
Receive(r) ==
    /\ stage[r] = "none"
    /\ Srv!Accept(r)
    /\ \E q \in Requests : input' = [input EXCEPT ![r] = q]
    /\ stage' = [stage EXCEPT ![r] = "received"]
    /\ UNCHANGED <<now, issued, hashes, status, stamp>>

Goto(r, s) == stage' = [stage EXCEPT ![r] = s]

Respond(r, code) == status' = [status EXCEPT ![r] = Append(@, code)]

\* The response is written, and there is nothing else to do.
Answer(r, code) == Respond(r, code) /\ Goto(r, "done")

Note(r, u) == stamp' = [stamp EXCEPT ![r] = <<u, now, Secret>>]

\* The storage fails.
Failed == "db" \in Faults

-----------------------------------------------------------------------------
(* POST /lime/authenticate *)

\* JSON of a name and a password, and nothing else.
Decoded(b) == b # <<>>

\* Neither of them is empty, or left out.
ValidBody(b) == Decoded(b) /\ "" \notin {b[1], b[2]}

Decode(r) ==
    /\ stage[r] = "received" /\ input[r][1] = "authenticate"
    /\ IF ValidBody(input[r][2]) THEN Goto(r, "login") /\ UNCHANGED status
                                 ELSE Answer(r, 400)
    /\ UNCHANGED <<now, issued, input, hashes, stamp>>

\* The name has a row in `users`.
GetUserFromDB(b) == b[1] \in User

\* The password is compared with the hash in that row.
Authentic(b) == GetUserFromDB(b) /\ b[2] = Password[b[1]]

Login(r) ==
    /\ stage[r] = "login"
    /\ \/ Authentic(input[r][2]) /\ Goto(r, "sign") /\ UNCHANGED status
       \/ ~Authentic(input[r][2]) /\ Answer(r, 401)
       \/ Failed /\ Answer(r, 500)
    /\ UNCHANGED <<now, issued, input, hashes, stamp>>

\* Mutant: the lifetime is counted twice.
GenerateLonger(u) == <<u, now + 2 * Lifetime, Secret>>

Generate(u) == <<u, now + Lifetime, Secret>>

Sign(r) ==
    /\ stage[r] = "sign"
    /\ issued' = issued \cup {Generate(input[r][2][1])}
    /\ Note(r, input[r][2][1])
    /\ Answer(r, 200)
    /\ UNCHANGED <<now, input, hashes>>

-----------------------------------------------------------------------------
(* GET /lime/eth and GET /lime/eth/{rlpHash} *)

\* An empty string is taken for one that need not match.
Validate(list) == list # <<>> /\ \A i \in DOMAIN list : list[i] \in Pattern \cup {""}

Query(r) ==
    /\ stage[r] = "received" /\ input[r][1] = "eth"
    /\ LET list == input[r][2] IN
       IF Validate(list) THEN /\ hashes' = [hashes EXCEPT ![r] = list]
                              /\ Goto(r, "lookup") /\ UNCHANGED status
                         ELSE Answer(r, 400) /\ UNCHANGED hashes
    /\ UNCHANGED <<now, issued, input, stamp>>

\* Hexadecimal digits of the RLP encoding of a list of byte strings.
Decodes(code) == code # <<"raw">>

ParseRLP(code) == [i \in DOMAIN code |-> HexEncode[code[i]]]

QueryRLP(r) ==
    /\ stage[r] = "received" /\ input[r][1] = "rlp"
    /\ LET code == input[r][2] IN
       \/ ~Decodes(code) /\ Answer(r, 500) /\ UNCHANGED hashes
       \/ Decodes(code) /\ ~Validate(ParseRLP(code)) /\ Answer(r, 400) /\ UNCHANGED hashes
       \/ /\ Decodes(code) /\ Validate(ParseRLP(code))
          /\ hashes' = [hashes EXCEPT ![r] = ParseRLP(code)]
          /\ Goto(r, "lookup") /\ UNCHANGED status
    /\ UNCHANGED <<now, issued, input, stamp>>

\* GetTransactions, and the records or the failure.
Transactions(r) ==
    /\ stage[r] = "lookup"
    /\ Answer(r, 200) \/ (Failed /\ Answer(r, 500))
    /\ UNCHANGED <<now, issued, input, hashes, stamp>>

-----------------------------------------------------------------------------
(* GET /lime/my *)

TokenGiven(r) ==
    /\ stage[r] = "received" /\ input[r][1] = "my"
    /\ IF input[r][2] = NoToken THEN Answer(r, 401) ELSE Goto(r, "parse") /\ UNCHANGED status
    /\ UNCHANGED <<now, issued, input, hashes, stamp>>

\* Mutant: the signature is not looked at.
Unsigned(t) == now <= t[2]

\* Mutant: a token is refused in the last moment of its lifetime.
ValidBefore(t) == t[3] = Secret /\ now < t[2]

\* jwt.Parse: the signature is checked with the key, and then the expiry.
Valid(t) == t[3] = Secret /\ now <= t[2]

\* Mutant: the handler goes on after it has answered.
RefuseAndGoOn(r) == Note(r, "nobody") /\ Respond(r, 500) /\ Goto(r, "history")

Refuse(r) == Note(r, "nobody") /\ Answer(r, 500)

Parse(r) ==
    /\ stage[r] = "parse"
    /\ IF Valid(input[r][2]) THEN Goto(r, "expiry") /\ UNCHANGED <<status, stamp>>
                             ELSE Refuse(r)
    /\ UNCHANGED <<now, issued, input, hashes>>

\* The service reads the clock itself and checks once more.
CheckExpiry(r) ==
    /\ stage[r] = "expiry"
    /\ IF input[r][2][2] < now
       THEN Refuse(r)
       ELSE Note(r, input[r][2][1]) /\ Goto(r, "history") /\ UNCHANGED status
    /\ UNCHANGED <<now, issued, input, hashes>>

UserHistory(r) ==
    /\ stage[r] = "history"
    /\ Answer(r, 200) \/ (Failed /\ Answer(r, 500))
    /\ UNCHANGED <<now, issued, input, hashes, stamp>>

-----------------------------------------------------------------------------
(* GET /lime/all *)

AllTransactions(r) ==
    /\ stage[r] = "received" /\ input[r][1] = "all"
    /\ Answer(r, 200) \/ (Failed /\ Answer(r, 500))
    /\ UNCHANGED <<now, issued, input, hashes, stamp>>

-----------------------------------------------------------------------------
(* The process and the clock *)

Handle(r) ==
    /\ \/ Decode(r) \/ Login(r) \/ Sign(r)
       \/ Query(r) \/ QueryRLP(r) \/ Transactions(r)
       \/ TokenGiven(r) \/ Parse(r) \/ CheckExpiry(r) \/ UserHistory(r)
       \/ AllTransactions(r)
    /\ UNCHANGED serverVars

\* The handler has returned, and the request is logged once more.
Finish(r) ==
    /\ stage[r] = "done"
    /\ Srv!Finish(r)
    /\ Goto(r, "finished")
    /\ UNCHANGED <<now, issued, input, hashes, status, stamp>>

Kill ==
    /\ Srv!Kill
    /\ stage' = [r \in Req |-> IF r \in busy THEN "killed" ELSE stage[r]]
    /\ UNCHANGED <<now, issued, input, hashes, status, stamp>>

Process ==
    /\ Srv!Launch \/ Srv!Step \/ Srv!AcceptFails \/ Srv!Signal
    /\ UNCHANGED <<now, issued, requestVars>>

Tick ==
    /\ now < MaxTime
    /\ now' = now + 1
    /\ UNCHANGED <<serverVars, issued, requestVars>>

Next ==
    \/ \E r \in Req : Receive(r) \/ Handle(r) \/ Finish(r)
    \/ Process \/ Kill \/ Tick

Spec == Init /\ [][Next]_vars

\* The main goroutine and the listening one run when they can.
FairSpec == Spec /\ WF_vars(Srv!Step /\ UNCHANGED <<now, issued, requestVars>>)

\* An assumption about the world: clients send the bodies they have announced and take their
\* responses, the node and the storage answer or fail.  The code sets no deadline for any of
\* it: the server has no timeouts, the calls of the node and of the storage have none.
HandlersGoOn == \A r \in Req : WF_vars(Handle(r) \/ Finish(r))

-----------------------------------------------------------------------------
(* Properties *)

TypeOK ==
    /\ Srv!TypeOK
    /\ now \in 0 .. MaxTime
    /\ \A t \in issued : t[1] \in User /\ t[2] \in Lifetime .. (MaxTime + Lifetime)
    /\ \A r \in Req :
        /\ stage[r] \in {"none", "received", "login", "sign", "lookup", "parse", "expiry",
                         "history", "done", "finished", "killed"}
        /\ r \in busy <=> stage[r] \notin {"none", "finished", "killed"}
        /\ stage[r] = "lookup" => Validate(hashes[r])

\* Request a was a login of user u at time t under key k: the name and the password were u's.
LoggedIn(a, u, t, k) ==
    /\ input[a] = <<"authenticate", <<u, Password[u]>>>>
    /\ status[a] = <<200>>
    /\ stamp[a] = <<u, t, k>>

\* /lime/my shows a user's history only to a token that a login of that user with his password
\* was answered with, under the secret of the process, and not after its lifetime.
MyNeedsLogin ==
    \A r \in Req : input[r][1] = "my" /\ status[r] = <<200>> =>
        \E a \in Req, t \in 0 .. MaxTime :
            /\ LoggedIn(a, stamp[r][1], t, stamp[r][3])
            /\ t <= stamp[r][2] /\ stamp[r][2] <= t + Lifetime

\* A login lasts: the token it was answered with is refused only when its lifetime is over or
\* the service has come back with another secret, however the clock moves between the two
\* checks.
LoginLasts ==
    \A r, a \in Req : \A u \in User, t \in 0 .. MaxTime :
        /\ input[r] = <<"my", <<u, t + Lifetime, stamp[r][3]>>>>
        /\ LoggedIn(a, u, t, stamp[r][3])
        /\ stamp[r][1] = "nobody"
        => stamp[r][2] > t + Lifetime

\* A handler that returns has answered exactly once, on whichever path it went.
AnsweredOnce ==
    \A r \in Req : /\ Len(status[r]) <= 1
                   /\ stage[r] \in {"done", "finished"} => Len(status[r]) = 1

\* The composition still keeps what the server promises.
KeepsLifecycle == Srv!KeepsLifecycle

\* Once it was told to stop, or cannot listen, the process ends if its handlers go on,
\* whichever way they go: one that waits for ever holds Shutdown up for ever.
EndsWhenTold == HandlersGoOn => Srv!EndsWhenTold
=============================================================================
