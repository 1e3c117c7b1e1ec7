------------------------------- MODULE Server -------------------------------
(***************************************************************************)
(* One process of the service from its start to its exit: Start and run    *)
(* (cmd), Run and Shutdown (internal/http/server).  The main goroutine     *)
(* waits in a select for a signal or for the listening goroutine to send   *)
(* its error, and then shuts the server down, whichever it was.            *)
(*                                                                         *)
(* What Start does up to run is Startup and one step here.  Of net/http:   *)
(* a request is accepted when its connection is one that Shutdown waits    *)
(* for, and Shutdown marks the server and closes the listener and the idle *)
(* connections in one step.                                                *)
(***************************************************************************)
EXTENDS FiniteSets

CONSTANTS Req,     \* requests
          EnvKeys, \* names of the environment variables the service needs
          Envs,    \* the environments it may be started in: functions
          Faults   \* what may go wrong: "start", "port", "close", "crash"

VARIABLES
    main,   \* the main goroutine: "down", "start", "run", "select", "shutdown" or "drain"
    env,    \* the environment of the process
    sig,    \* a signal is in the channel (its capacity is 1)
    lst,    \* the listening goroutine: "none", "spawned", "bound", "serving", "failed" or
            \* "closed" (it has an error to send, its own or ErrServerClosed), "sent"
    err,    \* what select received: "nil", "failed" or "closed"
    busy,   \* requests that are accepted and whose handlers have not returned
    cause,  \* history: why the process is to end, "signal", "listener"
    exit    \* how the last process ended, "none" while one runs

serverVars == <<main, env, sig, lst, err, busy, cause, exit>>

Init ==
    /\ main = "down" /\ env \in Envs
    /\ sig = FALSE /\ lst = "none" /\ err = "nil"
    /\ busy = {} /\ cause = {} /\ exit = "none"

-----------------------------------------------------------------------------
(* Start and run *)

Launch ==
    /\ main = "down"
    /\ main' = "start"
    /\ env' \in Envs
    /\ UNCHANGED <<sig, lst, err, busy, cause, exit>>

\* NewAppConfig: every variable is set, if only to the empty string.
Configured == EnvKeys \subseteq DOMAIN env

\* A variable is missing, or a later step of Start fails: main prints the error and exits.
StartFails ==
    /\ main = "start"
    /\ ~Configured \/ "start" \in Faults
    /\ main' = "down" /\ exit' = "error"
    /\ UNCHANGED <<env, sig, lst, err, busy, cause>>

\* The services are built, and signals are caught from here on.
Notify ==
    /\ main = "start"
    /\ Configured
    /\ main' = "run" /\ cause' = {} /\ exit' = "none"
    /\ UNCHANGED <<env, sig, lst, err, busy>>

Run ==
    /\ main = "run"
    /\ main' = "select" /\ lst' = "spawned"
    /\ UNCHANGED <<env, sig, err, busy, cause, exit>>

SelectSignal ==
    /\ main = "select"
    /\ sig
    /\ sig' = FALSE /\ main' = "shutdown"
    /\ UNCHANGED <<env, lst, err, busy, cause, exit>>

\* Mutant: the error of the listener is logged, and run goes on waiting for a signal.
SelectLogged ==
    /\ main = "select"
    /\ lst \in {"failed", "closed"}
    /\ err' = lst /\ lst' = "sent"
    /\ UNCHANGED <<main, env, sig, busy, cause, exit>>

SelectError ==
    /\ main = "select"
    /\ lst \in {"failed", "closed"}
    /\ err' = lst /\ lst' = "sent" /\ main' = "shutdown"
    /\ UNCHANGED <<env, sig, busy, cause, exit>>

Shutdown ==
    /\ main = "shutdown"
    /\ main' = "drain"
    /\ lst' = IF lst = "serving" THEN "closed" ELSE lst
    /\ UNCHANGED <<env, sig, err, busy, cause, exit>>

\* What run returns: an error of Shutdown only in place of ErrServerClosed.
Returned(sdErr) ==
    IF err = "closed" /\ sdErr THEN "shutdownError"
    ELSE IF err = "nil" THEN "ok" ELSE "error"

\* Mutant: Shutdown gives up on the handlers.
GaveUp == TRUE

\* No handler is left.
Quiescent == busy = {}

\* Shutdown returns when the handlers have, run returns, and the process ends with whatever
\* is left of the listening goroutine.
Exit ==
    /\ main = "drain"
    /\ Quiescent
    /\ \E sdErr \in {FALSE} \cup {TRUE : f \in Faults \cap {"close"}} : exit' = Returned(sdErr)
    /\ main' = "down" /\ sig' = FALSE /\ lst' = "none" /\ err' = "nil"
    /\ UNCHANGED <<env, busy, cause>>

-----------------------------------------------------------------------------
(* The listening goroutine: ListenAndServe, whose error is sent to run *)

\* The port is taken by a process that may be another instance.
Listen ==
    /\ lst = "spawned"
    /\ \/ main # "drain" /\ lst' = "bound" /\ UNCHANGED cause
       \/ /\ main # "drain" /\ "port" \in Faults
          /\ lst' = "failed" /\ cause' = cause \cup {"listener"}
       \/ main = "drain" /\ lst' = "closed" /\ UNCHANGED cause
    /\ UNCHANGED <<main, env, sig, err, busy, exit>>

\* Serve: the listener is not used if Shutdown has begun meanwhile.
Track ==
    /\ lst = "bound"
    /\ lst' = IF main = "drain" THEN "closed" ELSE "serving"
    /\ UNCHANGED <<main, env, sig, err, busy, cause, exit>>

AcceptFails ==
    /\ "port" \in Faults
    /\ lst = "serving"
    /\ lst' = "failed" /\ cause' = cause \cup {"listener"}
    /\ UNCHANGED <<main, env, sig, err, busy, exit>>

-----------------------------------------------------------------------------
(* The world around *)

Accept(r) ==
    /\ lst = "serving"
    /\ r \notin busy
    /\ busy' = busy \cup {r}
    /\ UNCHANGED <<main, env, sig, lst, err, cause, exit>>

Finish(r) ==
    /\ r \in busy
    /\ busy' = busy \ {r}
    /\ UNCHANGED <<main, env, sig, lst, err, cause, exit>>

\* SIGINT, SIGTERM or SIGQUIT: waits in the channel, and is dropped if one does already.
Signal ==
    /\ main \notin {"down", "start"}
    /\ ~sig
    /\ sig' = TRUE /\ cause' = cause \cup {"signal"}
    /\ UNCHANGED <<main, env, lst, err, busy, exit>>

\* Killed, or crashed, or signalled before signals are caught.
Kill ==
    /\ main = "start" \/ (main # "down" /\ "crash" \in Faults)
    /\ main' = "down" /\ exit' = "killed"
    /\ busy' = {} /\ sig' = FALSE /\ lst' = "none" /\ err' = "nil"
    /\ UNCHANGED <<env, cause>>

\* What the process does by itself.
Step ==
    \/ StartFails \/ Notify \/ Run \/ SelectSignal \/ SelectError \/ Shutdown \/ Exit
    \/ Listen \/ Track

Next ==
    \/ Launch \/ Step \/ AcceptFails \/ Signal \/ Kill
    \/ \E r \in Req : Accept(r) \/ Finish(r)

Spec == Init /\ [][Next]_serverVars

-----------------------------------------------------------------------------
(* Properties *)

TypeOK ==
    /\ main \in {"down", "start", "run", "select", "shutdown", "drain"}
    /\ env \in Envs
    /\ sig \in BOOLEAN
    /\ lst \in {"none", "spawned", "bound", "serving", "failed", "closed", "sent"}
    /\ err \in {"nil", "failed"}  \* "closed" is never received
    /\ busy \subseteq Req
    /\ cause \subseteq {"signal", "listener"}
    /\ exit \in {"none", "ok", "error", "killed"}

\* The process as Lifecycle sees it.
Life == INSTANCE Lifecycle WITH
    server <- IF main \in {"down", "start"} THEN "down"
              ELSE IF main = "drain" THEN "draining" ELSE "up",
    reason <- IF main # "drain" THEN "none" ELSE IF err = "nil" THEN "signal" ELSE "listener"

\* The process keeps its promise: it drains for a reason, waits for its handlers, takes no
\* request once it drains, and exits with the code of the reason that select took, whatever
\* else came before or after it.  An error of Shutdown is
\* never what it exits with: select would have to receive ErrServerClosed, which there is
\* only after Shutdown.
KeepsLifecycle == Life!Spec

\* Once it was told to stop, or cannot listen, the process ends: Shutdown has no deadline, so
\* this needs handlers that return.
EndsWhenTold == (cause # {} /\ main \notin {"down", "start"}) ~> main = "down"
=============================================================================
