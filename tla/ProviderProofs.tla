--------------------------- MODULE ProviderProofs ---------------------------
(***************************************************************************)
(* Proofs about Provider.tla: type correctness, and for any number of      *)
(* signals at any time, that the script leaves no child behind that it     *)
(* knows of, that its last event names its status, and that the failure of *)
(* the model server is reported.  What its rate limiter promises is proved *)
(* from LimiterProofs.tla, which knows nothing of the script.              *)
(*                                                                         *)
(* Each invariant is strengthened by what holds at each command of the     *)
(* script.  A command is left in one of three ways, for the next command,  *)
(* for the trap, or for the end: `To`, `Exit` and `Failed`.                *)
(***************************************************************************)
EXTENDS Provider, LimiterProofs, FiniteSetTheorems, TLAPS

\* The commands before the script waits for the model server.
BootLine == {"boot", "start_healthz", "HEALTHZ_PID", "start_provider", "SERVER_PID", "probe",
             "ready"}

\* A server is stopped, or its id was never noted, once the script has gone
\* past the command that waits for it.
ChildInv ==
    /\ line \in {"stop_healthz", "reap_healthz", "exit_0", "last", "exit"} =>
          (Alive(server) => ~SERVER_PID)
    /\ line \in {"exit_0", "last", "exit"} => (Alive(healthz) => ~HEALTHZ_PID)
    /\ NoStrayChild

\* Why the script is where it is.
ReasonInv ==
    /\ signals \in Nat
    /\ pending \/ reason = "signal" => signals > 0
    /\ reason = "stub_complete" => stub
    /\ line \in {"shutdown", "stop_server", "reap_server", "exit_0"} =>
          reason \in {"signal", "stub_complete"}
    /\ line \in {"stop_healthz", "reap_healthz"} =>
          reason \in {"signal", "stub_complete", "provider_exit"}
    /\ line \in {"last", "exit"} => reason = "provider_exit"
    /\ line \in {"stop_healthz", "reap_healthz", "last", "exit"} /\ reason = "provider_exit" =>
          server = "exited" /\ exit_code = serverStatus
    /\ line = "exited" /\ signals = 0 /\ ~stub =>
          exit_code # 0 \/ (server = "exited" /\ exit_code = serverStatus)

-----------------------------------------------------------------------------
\* The log.

LogEntry ==
    [event : {"provider.boot", "provider.ready", "provider.shutdown"},
     reason : {"none", "signal", "stub_complete", "provider_exit"}, exit_code : {0, 1, 2}]

Names(entries_, event) == \E i \in DOMAIN entries_ : entries_[i].event = event

\* One ready at most, and nothing but shutdowns after a shutdown.
Ordered(s) ==
    \A i, j \in DOMAIN s :
        /\ s[i].event = "provider.ready" /\ s[j].event = "provider.ready" => i = j
        /\ i < j => s[i].event # "provider.shutdown" \/ s[j].event = "provider.shutdown"

\* The last event is a shutdown with this status.
EndsWith(s, status) ==
    s # <<>> /\ s[Len(s)].event = "provider.shutdown" /\ s[Len(s)].exit_code = status

LogInv ==
    /\ log \in Seq(LogEntry)
    /\ Ordered(log)
    /\ line \in BootLine => ~Names(log, "provider.ready") /\ ~Names(log, "provider.shutdown")
    /\ stderr =>
          /\ line \in {"stop_server", "reap_server", "exit_0"} => EndsWith(log, 0)
          /\ line \in {"stop_healthz", "reap_healthz"} /\ reason # "provider_exit" =>
                EndsWith(log, 0)
          /\ line = "exit" \/ (line = "exited" /\ ~aborted) => EndsWith(log, exit_code)

-----------------------------------------------------------------------------
\* Types.

\* What TypeOK says of the script, its flags apart.
Flags ==
    /\ errexit \in BOOLEAN /\ pending \in BOOLEAN /\ stub \in BOOLEAN /\ stderr \in BOOLEAN
    /\ SERVER_PID \in BOOLEAN /\ HEALTHZ_PID \in BOOLEAN /\ aborted \in BOOLEAN

SupervisorInv ==
    /\ line \in Line
    /\ ~errexit => line = "wait" \/ reason = "signal"
    /\ signals \in 0..MaxSignals
    /\ server \in Process /\ healthz \in Process
    /\ serverStatus \in {0, 2} /\ exit_code \in {0, 1, 2}
    /\ reason \in {"none", "signal", "stub_complete", "provider_exit"}
    /\ line \in BootLine \cup {"ready_done"} => errexit

LimiterInv == LimiterTypeOK /\ overlaps <= requests

-----------------------------------------------------------------------------
\* The environment moves, or the limiter does, and the script stands still.
Aside == Signal \/ CloseStderr \/ ServerEnds \/ HealthzEnds

LEMMA Steps == [Next]_vars => Script \/ Aside \/ UNCHANGED supervisorVars
  BY DEF Next, Supervise, HealthzGone, Serve, Aside, vars

LEMMA ChildStep == ChildInv /\ [Next]_vars => ChildInv'
<1> SUFFICES ASSUME ChildInv, [Next]_vars PROVE ChildInv'
  OBVIOUS
<1> USE DEF ChildInv, NoStrayChild, Alive, To, Exit, Failed, LogEvent, environment
<1>1. CASE Script
  <2>1. CASE Boot
    BY <2>1 DEF Boot
  <2>2. CASE StartHealthz
    BY <2>2 DEF StartHealthz
  <2>3. CASE SetHealthzPid
    BY <2>3 DEF SetHealthzPid
  <2>4. CASE StartProvider
    BY <2>4 DEF StartProvider
  <2>5. CASE SetServerPid
    BY <2>5 DEF SetServerPid
  <2>6. CASE WaitForHealthz
    BY <2>6 DEF WaitForHealthz
  <2>7. CASE Ready
    BY <2>7 DEF Ready
  <2>8. CASE AfterReady
    BY <2>8 DEF AfterReady
  <2>9. CASE Wait
    BY <2>9 DEF Wait, Interrupted, WaitStatus, ErrexitAfterWait
  <2>10. CASE Shutdown
    BY <2>10 DEF Shutdown
  <2>11. CASE StopServer
    BY <2>11 DEF StopServer, Terminated
  <2>12. CASE ReapServer
    BY <2>12 DEF ReapServer, Reapable, Interrupted
  <2>13. CASE StopHealthz
    BY <2>13 DEF StopHealthz, Terminated, AfterStop
  <2>14. CASE ReapHealthz
    BY <2>14 DEF ReapHealthz, Reapable, Interrupted, AfterStop
  <2>15. CASE ShutdownExit
    BY <2>15 DEF ShutdownExit
  <2>16. CASE LastEvent
    BY <2>16 DEF LastEvent
  <2>17. CASE LastExit
    BY <2>17 DEF LastExit
  <2> QED
    BY <1>1, <2>1, <2>2, <2>3, <2>4, <2>5, <2>6, <2>7, <2>8, <2>9,
       <2>10, <2>11, <2>12, <2>13, <2>14, <2>15, <2>16, <2>17 DEF Script
<1>2. CASE Aside
  <2>1. CASE Signal
    BY <2>1 DEF Signal
  <2>2. CASE CloseStderr
    BY <2>2 DEF CloseStderr, scriptVars
  <2>3. CASE ServerEnds
    BY <2>3 DEF ServerEnds, scriptVars
  <2>4. CASE HealthzEnds
    BY <2>4 DEF HealthzEnds, scriptVars
  <2> QED
    BY <1>2, <2>1, <2>2, <2>3, <2>4 DEF Aside
<1>3. CASE UNCHANGED supervisorVars
  BY <1>3 DEF supervisorVars, scriptVars
<1>4. QED
  BY <1>1, <1>2, <1>3, Steps

LEMMA ReasonStep == ReasonInv /\ Flags /\ SupervisorInv /\ [Next]_vars => ReasonInv'
<1> SUFFICES ASSUME ReasonInv, Flags, SupervisorInv, [Next]_vars PROVE ReasonInv'
  OBVIOUS
<1>0. /\ pending \in BOOLEAN /\ errexit \in BOOLEAN /\ stub \in BOOLEAN /\ stderr \in BOOLEAN
      /\ exit_code \in {0, 1, 2} /\ serverStatus \in {0, 2}
  BY DEF Flags, SupervisorInv
<1> USE <1>0 DEF ReasonInv, Alive, To, Exit, Failed, LogEvent, environment
<1>1. CASE Script
  <2>1. CASE Boot
    BY <2>1 DEF Boot
  <2>2. CASE StartHealthz
    BY <2>2 DEF StartHealthz
  <2>3. CASE SetHealthzPid
    BY <2>3 DEF SetHealthzPid
  <2>4. CASE StartProvider
    BY <2>4 DEF StartProvider
  <2>5. CASE SetServerPid
    BY <2>5 DEF SetServerPid
  <2>6. CASE WaitForHealthz
    BY <2>6 DEF WaitForHealthz
  <2>7. CASE Ready
    BY <2>7 DEF Ready
  <2>8. CASE AfterReady
    BY <2>8 DEF AfterReady
  <2>9. CASE Wait
    BY <2>9 DEF Wait, Interrupted, WaitStatus, ErrexitAfterWait
  <2>10. CASE Shutdown
    BY <2>10 DEF Shutdown
  <2>11. CASE StopServer
    BY <2>11 DEF StopServer, Terminated
  <2>12. CASE ReapServer
    BY <2>12 DEF ReapServer, Reapable, Interrupted
  <2>13. CASE StopHealthz
    BY <2>13 DEF StopHealthz, Terminated, AfterStop
  <2>14. CASE ReapHealthz
    BY <2>14 DEF ReapHealthz, Reapable, Interrupted, AfterStop
  <2>15. CASE ShutdownExit
    BY <2>15 DEF ShutdownExit
  <2>16. CASE LastEvent
    BY <2>16 DEF LastEvent
  <2>17. CASE LastExit
    BY <2>17 DEF LastExit
  <2> QED
    BY <1>1, <2>1, <2>2, <2>3, <2>4, <2>5, <2>6, <2>7, <2>8, <2>9,
       <2>10, <2>11, <2>12, <2>13, <2>14, <2>15, <2>16, <2>17 DEF Script
<1>2. CASE Aside
  <2>1. CASE Signal
    BY <2>1 DEF Signal
  <2>2. CASE CloseStderr
    BY <2>2 DEF CloseStderr, scriptVars
  <2>3. CASE ServerEnds
    BY <2>3 DEF ServerEnds, scriptVars
  <2>4. CASE HealthzEnds
    BY <2>4 DEF HealthzEnds, scriptVars
  <2> QED
    BY <1>2, <2>1, <2>2, <2>3, <2>4 DEF Aside
<1>3. CASE UNCHANGED supervisorVars
  BY <1>3 DEF supervisorVars, scriptVars
<1>4. QED
  BY <1>1, <1>2, <1>3, Steps

\* Line is kept folded below: the solvers need only know its members.
LEMMA LineNames ==
    /\ {"boot", "start_healthz", "HEALTHZ_PID", "start_provider", "SERVER_PID", "probe"} \subseteq Line
    /\ {"ready", "ready_done", "wait", "shutdown", "stop_server", "reap_server"} \subseteq Line
    /\ {"stop_healthz", "reap_healthz", "exit_0", "last", "exit", "exited"} \subseteq Line
  BY DEF Line

LEMMA FlagStep == Flags /\ [Next]_vars => Flags'
<1> SUFFICES ASSUME Flags, [Next]_vars PROVE Flags'
  OBVIOUS
<1> USE DEF Flags, To, Exit, Failed, LogEvent, environment
<1>1. CASE Script
  <2>1. CASE Boot
    BY <2>1, Zenon DEF Boot
  <2>2. CASE StartHealthz
    BY <2>2, Zenon DEF StartHealthz
  <2>3. CASE SetHealthzPid
    BY <2>3, Zenon DEF SetHealthzPid
  <2>4. CASE StartProvider
    BY <2>4, Zenon DEF StartProvider
  <2>5. CASE SetServerPid
    BY <2>5, Zenon DEF SetServerPid
  <2>6. CASE WaitForHealthz
    BY <2>6, Zenon DEF WaitForHealthz
  <2>7. CASE Ready
    BY <2>7, Zenon DEF Ready
  <2>8. CASE AfterReady
    BY <2>8, Zenon DEF AfterReady
  <2>9. CASE Wait
    BY <2>9, Zenon DEF Wait, Interrupted, WaitStatus, ErrexitAfterWait
  <2>10. CASE Shutdown
    BY <2>10, Zenon DEF Shutdown
  <2>11. CASE StopServer
    BY <2>11, Zenon DEF StopServer, Terminated
  <2>12. CASE ReapServer
    BY <2>12, Zenon DEF ReapServer, Reapable, Interrupted
  <2>13. CASE StopHealthz
    BY <2>13, Zenon DEF StopHealthz, Terminated, AfterStop
  <2>14. CASE ReapHealthz
    BY <2>14, Zenon DEF ReapHealthz, Reapable, Interrupted, AfterStop
  <2>15. CASE ShutdownExit
    BY <2>15, Zenon DEF ShutdownExit
  <2>16. CASE LastEvent
    BY <2>16, Zenon DEF LastEvent
  <2>17. CASE LastExit
    BY <2>17, Zenon DEF LastExit
  <2> QED
    BY <1>1, <2>1, <2>2, <2>3, <2>4, <2>5, <2>6, <2>7, <2>8, <2>9,
       <2>10, <2>11, <2>12, <2>13, <2>14, <2>15, <2>16, <2>17 DEF Script
<1>2. CASE Aside
  <2>1. CASE Signal
    BY <2>1, Zenon DEF Signal
  <2>2. CASE CloseStderr
    BY <2>2, Zenon DEF CloseStderr, scriptVars
  <2>3. CASE ServerEnds
    BY <2>3, Zenon DEF ServerEnds, scriptVars
  <2>4. CASE HealthzEnds
    BY <2>4, Zenon DEF HealthzEnds, scriptVars
  <2> QED
    BY <1>2, <2>1, <2>2, <2>3, <2>4 DEF Aside
<1>3. CASE UNCHANGED supervisorVars
  BY <1>3 DEF supervisorVars, scriptVars
<1>4. QED
  BY <1>1, <1>2, <1>3, Steps

LEMMA SupervisorStep == SupervisorInv /\ [Next]_vars => SupervisorInv'
<1> SUFFICES ASSUME SupervisorInv, [Next]_vars PROVE SupervisorInv'
  OBVIOUS
<1>0. \A x \in {"boot", "start_healthz", "HEALTHZ_PID", "start_provider", "SERVER_PID", "probe",
                "ready", "ready_done", "wait", "shutdown", "stop_server", "reap_server",
                "stop_healthz", "reap_healthz", "exit_0", "last", "exit", "exited"} : x \in Line
  BY LineNames
<1> USE <1>0, EntrypointConstants DEF SupervisorInv, BootLine, Process, Alive,
    To, Exit, Failed, LogEvent, environment
<1>1. CASE Script
  <2>1. CASE Boot
    BY <2>1 DEF Boot
  <2>2. CASE StartHealthz
    BY <2>2 DEF StartHealthz
  <2>3. CASE SetHealthzPid
    BY <2>3 DEF SetHealthzPid
  <2>4. CASE StartProvider
    BY <2>4 DEF StartProvider
  <2>5. CASE SetServerPid
    BY <2>5 DEF SetServerPid
  <2>6. CASE WaitForHealthz
    BY <2>6 DEF WaitForHealthz
  <2>7. CASE Ready
    BY <2>7 DEF Ready
  <2>8. CASE AfterReady
    BY <2>8 DEF AfterReady
  <2>9. CASE Wait
    BY <2>9 DEF Wait, Interrupted, WaitStatus, ErrexitAfterWait
  <2>10. CASE Shutdown
    BY <2>10 DEF Shutdown
  <2>11. CASE StopServer
    BY <2>11 DEF StopServer, Terminated
  <2>12. CASE ReapServer
    BY <2>12 DEF ReapServer, Reapable, Interrupted
  <2>13. CASE StopHealthz
    BY <2>13 DEF StopHealthz, Terminated, AfterStop
  <2>14. CASE ReapHealthz
    BY <2>14 DEF ReapHealthz, Reapable, Interrupted, AfterStop
  <2>15. CASE ShutdownExit
    BY <2>15 DEF ShutdownExit
  <2>16. CASE LastEvent
    BY <2>16 DEF LastEvent
  <2>17. CASE LastExit
    BY <2>17 DEF LastExit
  <2> QED
    BY <1>1, <2>1, <2>2, <2>3, <2>4, <2>5, <2>6, <2>7, <2>8, <2>9,
       <2>10, <2>11, <2>12, <2>13, <2>14, <2>15, <2>16, <2>17 DEF Script
<1>2. CASE Aside
  <2>1. CASE Signal
    BY <2>1 DEF Signal
  <2>2. CASE CloseStderr
    BY <2>2 DEF CloseStderr, scriptVars
  <2>3. CASE ServerEnds
    BY <2>3 DEF ServerEnds, scriptVars
  <2>4. CASE HealthzEnds
    BY <2>4 DEF HealthzEnds, scriptVars
  <2> QED
    BY <1>2, <2>1, <2>2, <2>3, <2>4 DEF Aside
<1>3. CASE UNCHANGED supervisorVars
  BY <1>3 DEF supervisorVars, scriptVars
<1>4. QED
  BY <1>1, <1>2, <1>3, Steps

\* The limiter keeps its types, in a request's step, as time passes and when the
\* health server is gone.
LEMMA LimiterStep == LimiterInv /\ [Next]_vars => LimiterInv'
<1> SUFFICES ASSUME LimiterInv, [Next]_vars PROVE LimiterInv'
  OBVIOUS
<1> USE RateLimitConstants DEF LimiterInv, LimiterTypeOK, limiterVars, history, Idle, Place,
    At, GoTo, Ends, IndexError
<1>1. ASSUME NEW t \in Thread, Request(t) PROVE LimiterInv'
  <2>1. CASE Arrive(t)
    BY <2>1, SMTT(30) DEF Arrive
  <2>2. CASE Test(t)
    BY <2>2 DEF Test
  <2>3. CASE Look(t)
    <3>1. CASE entries = <<>>
      <4>1. /\ thread' = [thread EXCEPT ![t] = Idle] /\ broken' = broken + 1
            /\ UNCHANGED <<clock, requests, entries, admitted, refusal, overlaps>>
        BY <2>3, <3>1 DEF Look
      <4>2. QED
        BY <4>1
    <3>2. CASE entries # <<>>
      BY <2>3, <3>2, SMTT(30) DEF Look
    <3> QED
      BY <3>1, <3>2
  <2>4. CASE Pop(t)
    <3>1. CASE entries = <<>>
      <4>1. /\ thread' = [thread EXCEPT ![t] = Idle] /\ broken' = broken + 1
            /\ UNCHANGED <<clock, requests, entries, admitted, refusal, overlaps>>
        BY <2>4, <3>1 DEF Pop
      <4>2. QED
        BY <4>1
    <3>2. CASE entries # <<>>
      <4>1. /\ thread' = [thread EXCEPT ![t].at = "test"] /\ entries' = Tail(entries)
            /\ UNCHANGED <<clock, requests, admitted, refusal, broken, overlaps>>
        BY <2>4, <3>2 DEF Pop
      <4>2. Tail(entries) \in Seq(0..MaxNow)
        BY <3>2
      <4>3. QED
        BY <4>1, <4>2
    <3> QED
      BY <3>1, <3>2
  <2>5. CASE Count(t)
    BY <2>5 DEF Count
  <2>6. CASE Refuse(t)
    <3>1. CASE entries = <<>>
      <4>1. /\ thread' = [thread EXCEPT ![t] = Idle] /\ broken' = broken + 1
            /\ UNCHANGED <<clock, requests, entries, admitted, refusal, overlaps>>
        BY <2>6, <3>1 DEF Refuse
      <4>2. QED
        BY <4>1
    <3>2. CASE entries # <<>>
      <4>1. /\ thread' = [thread EXCEPT ![t] = Idle]
            /\ UNCHANGED <<clock, requests, entries, admitted, broken, overlaps>>
        BY <2>6, <3>2 DEF Refuse
      <4>2. QED
        BY <4>1
    <3> QED
      BY <3>1, <3>2
  <2>7. CASE Admit(t)
    BY <2>7 DEF Admit
  <2> QED
    BY <1>1, <2>1, <2>2, <2>3, <2>4, <2>5, <2>6, <2>7 DEF Request
<1>2. CASE Pass
  BY <1>2 DEF Pass
<1>3. CASE HealthzGone
  BY <1>3 DEF HealthzGone
<1>4. CASE UNCHANGED limiterVars
  BY <1>4
<1>5. QED
  BY <1>1, <1>2, <1>3, <1>4 DEF Next, Serve, LimiterNext, vars

-----------------------------------------------------------------------------
\* Appending an event keeps the order unless it comes too late.
LEMMA AppendOrdered ==
    ASSUME NEW s \in Seq(LogEntry), NEW e \in LogEntry, Ordered(s),
           e.event = "provider.ready" => ~Names(s, "provider.ready"),
           e.event # "provider.shutdown" => ~Names(s, "provider.shutdown")
    PROVE  /\ Append(s, e) \in Seq(LogEntry)
           /\ Ordered(Append(s, e))
           /\ \A name : Names(Append(s, e), name) <=> Names(s, name) \/ e.event = name
           /\ e.event = "provider.shutdown" => EndsWith(Append(s, e), e.exit_code)
<1> DEFINE t == Append(s, e)
<1>1. /\ t \in Seq(LogEntry) /\ Len(t) = Len(s) + 1
      /\ DOMAIN t = DOMAIN s \cup {Len(t)} /\ Len(t) \notin DOMAIN s
      /\ \A i \in DOMAIN s : t[i] = s[i] /\ i < Len(t)
      /\ t[Len(t)] = e
  OBVIOUS
<1>2. Ordered(t)
  <2> SUFFICES ASSUME NEW i \in DOMAIN t, NEW j \in DOMAIN t
               PROVE /\ t[i].event = "provider.ready" /\ t[j].event = "provider.ready" => i = j
                     /\ i < j => t[i].event # "provider.shutdown" \/ t[j].event = "provider.shutdown"
    BY DEF Ordered
  <2>1. CASE i \in DOMAIN s /\ j \in DOMAIN s
    BY <2>1, <1>1 DEF Ordered
  <2>2. CASE i \in DOMAIN s /\ j = Len(t)
    BY <2>2, <1>1 DEF Names
  <2>3. CASE i = Len(t) /\ j \in DOMAIN s
    BY <2>3, <1>1 DEF Names
  <2>4. CASE i = Len(t) /\ j = Len(t)
    BY <2>4, <1>1
  <2> QED
    BY <2>1, <2>2, <2>3, <2>4, <1>1
<1>3. ASSUME NEW name PROVE Names(t, name) <=> Names(s, name) \/ e.event = name
  BY <1>1 DEF Names
<1>4. e.event = "provider.shutdown" => EndsWith(t, e.exit_code)
  BY <1>1 DEF EndsWith
<1>5. QED
  BY <1>1, <1>2, <1>3, <1>4

\* What LogInv says of a log and the place of the script, which is all that the
\* commands that log nothing need.
LEMMA LogStep == LogInv /\ ReasonInv /\ SupervisorInv /\ [Next]_vars => LogInv'
<1> SUFFICES ASSUME LogInv, ReasonInv, SupervisorInv, [Next]_vars PROVE LogInv'
  OBVIOUS
<1>0. /\ reason \in {"none", "signal", "stub_complete", "provider_exit"}
      /\ exit_code \in {0, 1, 2}
  BY DEF SupervisorInv
<1> USE DEF LogInv, BootLine, To, Exit, Failed, LogEvent, environment
<1>1. CASE Script
  <2>1. CASE Boot
    <3> DEFINE e == Event("provider.boot", "none", 0)
    <3>1. e \in LogEntry /\ e.event = "provider.boot" /\ e.exit_code = 0
      BY <1>0 DEF Event, LogEntry
    <3>2. line \in BootLine => ~Names(log, "provider.ready") /\ ~Names(log, "provider.shutdown")
      OBVIOUS
    <3>3. /\ Append(log, e) \in Seq(LogEntry)
          /\ Ordered(Append(log, e))
          /\ \A name : Names(Append(log, e), name) <=> Names(log, name) \/ e.event = name
          /\ e.event = "provider.shutdown" => EndsWith(Append(log, e), e.exit_code)
      BY <2>1, <3>1, <3>2, AppendOrdered DEF Boot
    <3> HIDE DEF e
    <3>4. log' = Append(log, e) \/ log' = log
      BY <2>1 DEF Boot, e
    <3>5. QED
      BY <2>1, <3>1, <3>2, <3>3, <3>4, <1>0 DEF Boot, e, ReasonInv
  <2>2. CASE StartHealthz
    BY <2>2 DEF StartHealthz
  <2>3. CASE SetHealthzPid
    BY <2>3 DEF SetHealthzPid
  <2>4. CASE StartProvider
    BY <2>4 DEF StartProvider
  <2>5. CASE SetServerPid
    BY <2>5 DEF SetServerPid
  <2>6. CASE WaitForHealthz
    BY <2>6 DEF WaitForHealthz
  <2>7. CASE Ready
    <3> DEFINE e == Event("provider.ready", "none", 0)
    <3>1. e \in LogEntry /\ e.event = "provider.ready" /\ e.exit_code = 0
      BY <1>0 DEF Event, LogEntry
    <3>2. line \in BootLine => ~Names(log, "provider.ready") /\ ~Names(log, "provider.shutdown")
      OBVIOUS
    <3>3. /\ Append(log, e) \in Seq(LogEntry)
          /\ Ordered(Append(log, e))
          /\ \A name : Names(Append(log, e), name) <=> Names(log, name) \/ e.event = name
          /\ e.event = "provider.shutdown" => EndsWith(Append(log, e), e.exit_code)
      BY <2>7, <3>1, <3>2, AppendOrdered DEF Ready
    <3> HIDE DEF e
    <3>4. log' = Append(log, e) \/ log' = log
      BY <2>7 DEF Ready, e
    <3>5. QED
      BY <2>7, <3>1, <3>2, <3>3, <3>4, <1>0 DEF Ready, e, ReasonInv
  <2>8. CASE AfterReady
    BY <2>8 DEF AfterReady
  <2>9. CASE Wait
    BY <2>9 DEF Wait, Interrupted, WaitStatus, ErrexitAfterWait
  <2>10. CASE Shutdown
    <3> DEFINE e == Event("provider.shutdown", reason, 0)
    <3>1. e \in LogEntry /\ e.event = "provider.shutdown" /\ e.exit_code = 0
      BY <1>0 DEF Event, LogEntry
    <3>2. line \in BootLine => ~Names(log, "provider.ready") /\ ~Names(log, "provider.shutdown")
      OBVIOUS
    <3>3. /\ Append(log, e) \in Seq(LogEntry)
          /\ Ordered(Append(log, e))
          /\ \A name : Names(Append(log, e), name) <=> Names(log, name) \/ e.event = name
          /\ e.event = "provider.shutdown" => EndsWith(Append(log, e), e.exit_code)
      BY <2>10, <3>1, <3>2, AppendOrdered DEF Shutdown
    <3> HIDE DEF e
    <3>4. log' = Append(log, e) \/ log' = log
      BY <2>10 DEF Shutdown, e
    <3>5. QED
      BY <2>10, <3>1, <3>2, <3>3, <3>4, <1>0 DEF Shutdown, e, ReasonInv
  <2>11. CASE StopServer
    BY <2>11 DEF StopServer, Terminated
  <2>12. CASE ReapServer
    BY <2>12 DEF ReapServer, Reapable, Interrupted
  <2>13. CASE StopHealthz
    BY <2>13 DEF StopHealthz, Terminated, AfterStop
  <2>14. CASE ReapHealthz
    BY <2>14 DEF ReapHealthz, Reapable, Interrupted, AfterStop
  <2>15. CASE ShutdownExit
    BY <2>15 DEF ShutdownExit
  <2>16. CASE LastEvent
    <3> DEFINE e == Event("provider.shutdown", reason, exit_code)
    <3>1. e \in LogEntry /\ e.event = "provider.shutdown" /\ e.exit_code = exit_code
      BY <1>0 DEF Event, LogEntry
    <3>2. line \in BootLine => ~Names(log, "provider.ready") /\ ~Names(log, "provider.shutdown")
      OBVIOUS
    <3>3. /\ Append(log, e) \in Seq(LogEntry)
          /\ Ordered(Append(log, e))
          /\ \A name : Names(Append(log, e), name) <=> Names(log, name) \/ e.event = name
          /\ e.event = "provider.shutdown" => EndsWith(Append(log, e), e.exit_code)
      BY <2>16, <3>1, <3>2, AppendOrdered DEF LastEvent
    <3> HIDE DEF e
    <3>4. log' = Append(log, e) \/ log' = log
      BY <2>16 DEF LastEvent, e
    <3>5. QED
      BY <2>16, <3>1, <3>2, <3>3, <3>4, <1>0 DEF LastEvent, e, ReasonInv
  <2>17. CASE LastExit
    BY <2>17 DEF LastExit
  <2> QED
    BY <1>1, <2>1, <2>2, <2>3, <2>4, <2>5, <2>6, <2>7, <2>8, <2>9,
       <2>10, <2>11, <2>12, <2>13, <2>14, <2>15, <2>16, <2>17 DEF Script
<1>2. CASE Aside
  <2>1. CASE Signal
    BY <2>1 DEF Signal
  <2>2. CASE CloseStderr
    BY <2>2 DEF CloseStderr, scriptVars
  <2>3. CASE ServerEnds
    BY <2>3 DEF ServerEnds, scriptVars
  <2>4. CASE HealthzEnds
    BY <2>4 DEF HealthzEnds, scriptVars
  <2> QED
    BY <1>2, <2>1, <2>2, <2>3, <2>4 DEF Aside
<1>3. CASE UNCHANGED supervisorVars
  BY <1>3 DEF supervisorVars, scriptVars
<1>4. QED
  BY <1>1, <1>2, <1>3, Steps

-----------------------------------------------------------------------------
Inv == Flags /\ SupervisorInv /\ LimiterInv /\ ChildInv /\ ReasonInv /\ LogInv

\* The inductive invariant behind the theorems below: each of its parts says what
\* holds at each command of the script, in the limiter and among the processes.
THEOREM Invariance == Spec => []Inv
<1>1. Init => Inv
  <2> SUFFICES ASSUME Init PROVE Inv
    OBVIOUS
  <2> USE DEF Init, SupervisorInit, LimiterInit
  <2>1. SupervisorInv
    BY LineNames, EntrypointConstants DEF SupervisorInv, Process
  <2>2. LimiterInv
    BY RateLimitConstants DEF LimiterInv, LimiterTypeOK, Idle, Place
  <2>3. ChildInv /\ ReasonInv
    BY DEF ChildInv, NoStrayChild, ReasonInv
  <2>4. LogInv
    BY DEF LogInv, Ordered, Names
  <2>5. Flags
    BY Zenon DEF Flags
  <2>6. QED
    BY <2>1, <2>2, <2>3, <2>4, <2>5 DEF Inv
<1>2. Inv /\ [Next]_vars => Inv'
  BY FlagStep, SupervisorStep, LimiterStep, ChildStep, ReasonStep, LogStep DEF Inv
<1>3. QED
  BY <1>1, <1>2, PTL DEF Spec

\* TypeOK: every variable of the container keeps its type, and set -e is off only
\* while the script waits for the model server or in a trap.
THEOREM TypeCorrectness == Spec => []TypeOK
<1>1. Inv => TypeOK
  BY DEF Inv, TypeOK, SupervisorTypeOK, Flags, SupervisorInv, LimiterInv
<1>2. QED
  BY <1>1, Invariance, PTL

\* NoStrayChild: whatever the order of signals and ends of processes, a script
\* that was not aborted leaves no child running whose id it has.
THEOREM NoStrays == Spec => []NoStrayChild
<1>1. Inv => NoStrayChild
  BY DEF Inv, ChildInv
<1>2. QED
  BY <1>1, Invariance, PTL

\* FailureIsReported: without a signal, the error of the model server becomes the
\* error of the script, whether it came before, at or after the wait.
THEOREM FailuresAreReported == Spec => []FailureIsReported
<1>1. Inv => FailureIsReported
  BY DEF Inv, ReasonInv, FailureIsReported
<1>2. QED
  BY <1>1, Invariance, PTL

\* LastEventTellsStatus: the log is a boot, at most one ready and shutdowns, and
\* its last event has the status of the script.
THEOREM LastEvents == Spec => []LastEventTellsStatus
<1>1. Inv => LastEventTellsStatus
  <2> SUFFICES ASSUME Inv PROVE LastEventTellsStatus
    OBVIOUS
  <2> DEFINE ready == {i \in DOMAIN log : log[i].event = "provider.ready"}
  <2>1. Cardinality(ready) <= 1
    <3>1. CASE ready = {}
      BY <3>1, FS_EmptySet
    <3>2. CASE ready # {}
      <4>1. PICK i \in ready : TRUE
        BY <3>2
      <4>2. ready = {i}
        BY <4>1 DEF Inv, LogInv, Ordered
      <4>3. Cardinality({i}) = 1
        BY FS_Singleton
      <4> HIDE DEF ready
      <4>4. QED
        BY <4>2, <4>3
    <3>3. QED
      BY <3>1, <3>2
  <2>2. QED
    BY <2>1 DEF LastEventTellsStatus, Inv, LogInv, Ordered, EndsWith
<1>2. QED
  BY <1>1, Invariance, PTL

-----------------------------------------------------------------------------
\* The limiter in its process: the invariant of the deque holds for as long as the
\* health server has not ended, and the process is started once.
ServedInv ==
    /\ line \in {"boot", "start_healthz"} => healthz = "none"
    /\ healthz # "exited" => DequeInv
    /\ healthz = "exited" => SlidingWindow

LEMMA StaysDown ==
  ASSUME ServedInv, UNCHANGED limiterVars,
         healthz' = healthz \/ (healthz # "exited" /\ healthz' # "exited"),
         line' \in {"boot", "start_healthz"} => healthz' = "none"
  PROVE  ServedInv'
<1>1. UNCHANGED <<clock, entries, thread, requests, admitted, refusal, overlaps, broken>>
  BY DEF limiterVars
<1>2. DequeInv => DequeInv'
  <2>1. Busy' = Busy /\ Poppers' = Poppers
    BY <1>1 DEF Busy, Poppers, At
  <2>2. InFlight' = InFlight /\ Popping' = Popping /\ Finite' = Finite /\ Past' = Past
    BY <1>1, <2>1 DEF InFlight, Popping, Finite, Past
  <2>3. WindowInv' = WindowInv
    BY <1>1, <2>1, <2>2
       DEF WindowInv, Held, Let, Regular, Closed, Recent, Budget, Lost, Committed, Late, Stale,
           Blocked, Others, Early, Within, At
  <2>4. BrokenInv' = BrokenInv /\ RefusalType' = RefusalType
    BY <1>1, <2>1, <2>2 DEF BrokenInv, RefusalType
  <2>5. Sequential' = Sequential
    BY <1>1, <2>1 DEF Sequential, Sorted, Refused, Within, Waiting, At
  <2> QED BY <2>2, <2>3, <2>4, <2>5 DEF DequeInv
<1>3. SlidingWindow => SlidingWindow'
  BY <1>1 DEF SlidingWindow, Within
<1> QED
  BY <1>2, <1>3 DEF ServedInv

LEMMA ServedStep == LimiterTypeOK /\ ServedInv /\ [Next]_vars => ServedInv'
<1> SUFFICES ASSUME LimiterTypeOK, ServedInv, [Next]_vars PROVE ServedInv'
  OBVIOUS
<1>1. CASE Serve
  <2>1. LimiterNext /\ healthz \in {"running", "stopping"} /\ UNCHANGED <<line, healthz>>
    BY <1>1 DEF Serve, Alive, supervisorVars, scriptVars
  <2>2. DequeInv'
    BY <2>1, DequeStep DEF ServedInv
  <2> QED BY <2>1, <2>2 DEF ServedInv
<1>2. CASE HealthzGone
  <2>1. healthz \in {"running", "stopping"} /\ healthz' = "exited" /\ line' = line
    BY <1>2 DEF HealthzGone, HealthzEnds, Alive, scriptVars
  <2>2. UNCHANGED <<admitted, refusal, overlaps, broken>>
    BY <1>2 DEF HealthzGone, history
  <2>3. SlidingWindow
    BY <2>1, DequeWindows DEF ServedInv
  <2>4. SlidingWindow'
    BY <2>2, <2>3 DEF SlidingWindow, Within
  <2> QED BY <2>1, <2>4 DEF ServedInv
<1>3. CASE Supervise /\ UNCHANGED limiterVars
  <2>1. /\ healthz' = healthz \/ (healthz # "exited" /\ healthz' # "exited")
        /\ line' \in {"boot", "start_healthz"} => healthz' = "none"
    <3> USE DEF ServedInv, To, Exit, Failed, LogEvent
    <3>1. CASE StartHealthz
      BY <3>1 DEF StartHealthz
    <3>2. CASE StopHealthz
      BY <3>2 DEF StopHealthz, Terminated, AfterStop
    <3>3. CASE Boot
      BY <3>3 DEF Boot
    <3>4. CASE SetHealthzPid \/ StartProvider \/ SetServerPid \/ WaitForHealthz
      BY <3>4 DEF SetHealthzPid, StartProvider, SetServerPid, WaitForHealthz
    <3>5. CASE Ready \/ AfterReady \/ Wait
      BY <3>5 DEF Ready, AfterReady, Wait
    <3>6. CASE Shutdown \/ StopServer \/ ReapServer
      BY <3>6 DEF Shutdown, StopServer, ReapServer
    <3>7. CASE ReapHealthz \/ ShutdownExit \/ LastEvent \/ LastExit
      BY <3>7 DEF ReapHealthz, AfterStop, ShutdownExit, LastEvent, LastExit
    <3>8. CASE Signal \/ CloseStderr \/ ServerEnds
      BY <3>8 DEF Signal, CloseStderr, ServerEnds, scriptVars
    <3> QED
      BY <1>3, <3>1, <3>2, <3>3, <3>4, <3>5, <3>6, <3>7, <3>8 DEF Supervise, Script
  <2> QED BY <1>3, <2>1, StaysDown
<1>4. CASE UNCHANGED vars
  <2>1. UNCHANGED limiterVars /\ UNCHANGED <<line, healthz>>
    BY <1>4 DEF vars, supervisorVars, scriptVars
  <2> QED BY <2>1, StaysDown DEF ServedInv
<1> QED
  BY <1>1, <1>2, <1>3, <1>4 DEF Next

LEMMA Served == Spec => []ServedInv
<1>1. Inv => LimiterTypeOK
  BY DEF Inv, LimiterInv
<1>2. Init /\ LimiterTypeOK => ServedInv
  BY DequeInit DEF Init, SupervisorInit, ServedInv
<1>3. LimiterTypeOK /\ ServedInv /\ [Next]_vars => ServedInv'
  BY ServedStep
<1> QED
  BY <1>1, <1>2, <1>3, Invariance, PTL DEF Spec

\* SlidingWindow: no window admits more requests than the limit and one for each
\* that overlapped, no more requests end in an IndexError than overlapped, and
\* while none overlap a request is refused only when its window is full.
THEOREM WindowsSlide == Spec => []SlidingWindow
<1>1. LimiterTypeOK /\ ServedInv => SlidingWindow
  BY DequeWindows DEF ServedInv
<1>2. Inv => LimiterTypeOK
  BY DEF Inv, LimiterInv
<1> QED
  BY <1>1, <1>2, Invariance, Served, PTL

\* HintIsEnough: a client that waits a second more than it was told is not refused
\* again: the hint of a refusal reaches to the time at which the oldest entry
\* leaves the window, which is the entry the next refusal finds.
THEOREM HintsSuffice == Spec => HintIsEnough
<1> DEFINE Kept == overlaps' = 0 /\ NoRefusal \notin {refusal, refusal'} /\ refusal' # refusal =>
                      refusal'.time - refusal.time < 2 * (refusal.retry_after + 1)
<1>1. LimiterTypeOK /\ ServedInv /\ [Next]_vars => [Kept]_limiterVars
  <2> SUFFICES ASSUME LimiterTypeOK, ServedInv, [Next]_vars,
                      overlaps' = 0, NoRefusal \notin {refusal, refusal'}, refusal' # refusal
               PROVE  refusal'.time - refusal.time < 2 * (refusal.retry_after + 1)
    OBVIOUS
  <2>1. Serve
    BY DEF Next, HealthzGone, vars, limiterVars, history
  <2>2. DequeInv /\ LimiterNext
    BY <2>1 DEF Serve, Alive, ServedInv
  <2>3. PICK t \in Thread : Request(t)
    BY <2>2 DEF LimiterNext, Pass, history
  <2> QED BY <2>2, <2>3, HintStep
<1>2. Inv => LimiterTypeOK
  BY DEF Inv, LimiterInv
<1>3. HintIsEnough <=> [][Kept]_limiterVars
  BY DEF HintIsEnough
<1> HIDE DEF Kept
<1> QED
  BY <1>1, <1>2, <1>3, Invariance, Served, PTL DEF Spec
=============================================================================
