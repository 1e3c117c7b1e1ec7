------------------------------ MODULE Lifecycle ------------------------------
(***************************************************************************)
(* What a process of the service promises to whoever runs it, with no      *)
(* channels, goroutines or listener in sight: it takes requests until it   *)
(* drains, it drains only if it was told to stop or can no longer listen,  *)
(* it ends by itself only when no handler is left, and its exit says why   *)
(* it drained, whatever else has happened meanwhile.                       *)
(***************************************************************************)
CONSTANT Req  \* requests

VARIABLES server,  \* "down", "up" or "draining"
          busy,    \* requests whose handlers run
          cause,   \* why the process is to end: "signal", "listener"
          reason,  \* the cause it drains for, "none" while it does not
          exit     \* how the last one ended: "ok", "error" or "killed"; "none" while one runs

lifeVars == <<server, busy, cause, reason, exit>>

Init == server = "down" /\ busy = {} /\ cause = {} /\ reason = "none" /\ exit = "none"

Begin ==
    /\ server = "down"
    /\ server' = "up" /\ cause' = {} /\ exit' = "none"
    /\ UNCHANGED <<busy, reason>>

\* A start that fails.
NotStarted ==
    /\ server = "down"
    /\ exit' \in {"error", "killed"}
    /\ UNCHANGED <<server, busy, cause, reason>>

Stop(c) ==
    /\ server # "down"
    /\ cause' = cause \cup {c}
    /\ UNCHANGED <<server, busy, reason, exit>>

Accept(r) ==
    /\ server = "up"
    /\ busy' = busy \cup {r}
    /\ UNCHANGED <<server, cause, reason, exit>>

Finish(r) ==
    /\ r \in busy
    /\ busy' = busy \ {r}
    /\ UNCHANGED <<server, cause, reason, exit>>

\* There may be two causes: it drains for one of them.
Drain ==
    /\ server = "up"
    /\ reason' \in cause
    /\ server' = "draining"
    /\ UNCHANGED <<busy, cause, exit>>

Exit ==
    /\ server = "draining"
    /\ busy = {}
    /\ \/ reason = "signal" /\ exit' = "ok"
       \/ reason = "listener" /\ exit' = "error"
    /\ server' = "down" /\ reason' = "none"
    /\ UNCHANGED <<busy, cause>>

Kill ==
    /\ server # "down"
    /\ server' = "down" /\ busy' = {} /\ reason' = "none" /\ exit' = "killed"
    /\ UNCHANGED cause

Next ==
    \/ Begin \/ NotStarted \/ Drain \/ Exit \/ Kill
    \/ \E c \in {"signal", "listener"} : Stop(c)
    \/ \E r \in Req : Accept(r) \/ Finish(r)

Spec == Init /\ [][Next]_lifeVars
=============================================================================
