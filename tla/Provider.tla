------------------------------ MODULE Provider ------------------------------
(***************************************************************************)
(* The provider container: the script that supervises the health server    *)
(* (Entrypoint) and the requests that server limits (RateLimit).  The      *)
(* deque lives in the health server: it is gone when that process ends,    *)
(* and so is every request in progress.                                    *)
(***************************************************************************)
EXTENDS Entrypoint, RateLimit

vars == <<supervisorVars, limiterVars>>

HealthzGone ==
    /\ HealthzEnds
    /\ entries' = <<>>
    /\ thread' = [t \in Thread |-> Idle]
    /\ UNCHANGED <<clock, requests, history, overlaps>>

Serve == Alive(healthz) /\ LimiterNext /\ UNCHANGED supervisorVars

Supervise ==
    \/ Script
    \/ Signal
    \/ CloseStderr
    \/ ServerEnds

Init == SupervisorInit /\ LimiterInit

Next ==
    \/ Serve
    \/ HealthzGone
    \/ Supervise /\ UNCHANGED limiterVars

\* The shell runs its next command, and a process that was told to stop does.
Fairness ==
    /\ WF_vars(Script /\ UNCHANGED limiterVars)
    /\ WF_vars(server = "stopping" /\ ServerEnds /\ UNCHANGED limiterVars)
    /\ WF_vars(healthz = "stopping" /\ HealthzGone)

Spec == Init /\ [][Next]_vars /\ Fairness

-----------------------------------------------------------------------------
TypeOK == SupervisorTypeOK /\ LimiterTypeOK
=============================================================================
