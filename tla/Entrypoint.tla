----------------------------- MODULE Entrypoint -----------------------------
(***************************************************************************)
(* provider/entrypoint.sh as process 1 of the provider container: it       *)
(* starts the health server and the model server, waits until the first    *)
(* one answers, and stops what it started when it is signalled or when the *)
(* model server ends.                                                      *)
(*                                                                         *)
(* One step is one command.  A signal that arrives during a command is     *)
(* kept until the command has ended, except that it ends a `wait`; then    *)
(* the trap runs, also inside the trap itself (/bin/sh of the image is     *)
(* dash).  Under `set -e` a command that fails ends the script, or the     *)
(* trap runs first if a signal is pending.                                 *)
(***************************************************************************)
EXTENDS Integers, Sequences, FiniteSets

CONSTANTS
    MaxSignals     \* bound on the signals sent to the script

ASSUME EntrypointConstants == MaxSignals \in Nat

VARIABLES
    line,          \* the command the script is at, "exited" when it has ended
    errexit,       \* set -e
    pending,       \* whether a signal waits for the current command
    signals,       \* how many were sent
    stub,          \* VI_PROVIDER_STUB_EXIT_AFTER_READY
    stderr,        \* whether standard error can be written
    server, healthz,        \* the two processes
    serverStatus,           \* with what the server ended
    SERVER_PID, HEALTHZ_PID, \* whether these variables are set
    reason,        \* why the script shuts down
    log,           \* the events it logged
    exit_code,     \* the variable; in the end the status of the script
    aborted        \* whether set -e ended it

scriptVars == <<line, errexit, pending, reason, log, exit_code, aborted,
                SERVER_PID, HEALTHZ_PID>>

supervisorVars == <<scriptVars, signals, stub, stderr, server, healthz, serverStatus>>

environment == <<signals, stub, stderr, serverStatus>>

Process == {"none", "running", "stopping", "exited"}
Alive(process) == process \in {"running", "stopping"}

Event(event, why, code) == [event |-> event, reason |-> why, exit_code |-> code]

-----------------------------------------------------------------------------
\* Commands.

\* The current command has succeeded: the trap if a signal is pending, else the
\* next command.
To(next, why) ==
    /\ pending' = FALSE
    /\ IF pending THEN line' = "shutdown" /\ reason' = "signal"
       ELSE line' = next /\ reason' = why
    /\ UNCHANGED <<aborted>>

\* The script exits with a status.
Exit(status, abort) ==
    /\ line' = "exited" /\ exit_code' = status /\ aborted' = abort
    /\ UNCHANGED <<pending, reason>>

\* The current command has failed.
Failed(next) ==
    IF errexit
    THEN \/ Exit(1, TRUE)
         \/ pending /\ To(next, reason) /\ UNCHANGED exit_code
    ELSE To(next, reason) /\ UNCHANGED exit_code

\* log_event
LogEvent(event, next) ==
    /\ IF stderr
       THEN log' = Append(log, event) /\ To(next, reason) /\ UNCHANGED exit_code
       ELSE Failed(next) /\ UNCHANGED log
    /\ UNCHANGED <<errexit, SERVER_PID, HEALTHZ_PID, server, healthz, environment>>

Boot == line = "boot" /\ LogEvent(Event("provider.boot", "none", 0), "start_healthz")

\* start_healthz and start_provider: the process exists before the variable
\* that names it is set.
StartHealthz ==
    /\ line = "start_healthz"
    /\ healthz' = "running"
    /\ To("HEALTHZ_PID", reason)
    /\ UNCHANGED <<errexit, log, exit_code, SERVER_PID, HEALTHZ_PID, server, environment>>

SetHealthzPid ==
    /\ line = "HEALTHZ_PID"
    /\ HEALTHZ_PID' = TRUE
    /\ To("start_provider", reason)
    /\ UNCHANGED <<errexit, log, exit_code, SERVER_PID, server, healthz, environment>>

StartProvider ==
    /\ line = "start_provider"
    /\ server' = "running"
    /\ To("SERVER_PID", reason)
    /\ UNCHANGED <<errexit, log, exit_code, SERVER_PID, HEALTHZ_PID, healthz, environment>>

SetServerPid ==
    /\ line = "SERVER_PID"
    /\ SERVER_PID' = TRUE
    /\ To("probe", reason)
    /\ UNCHANGED <<errexit, log, exit_code, HEALTHZ_PID, server, healthz, environment>>

\* wait_for_healthz: an answer in time, or none.
WaitForHealthz ==
    /\ line = "probe"
    /\ \/ healthz = "running" /\ To("ready", reason) /\ UNCHANGED exit_code
       \/ Failed("ready")
    /\ UNCHANGED <<errexit, log, SERVER_PID, HEALTHZ_PID, server, healthz, environment>>

Ready == line = "ready" /\ LogEvent(Event("provider.ready", "none", 0), "ready_done")

\* shutdown stub_complete, or set +e.
AfterReady ==
    /\ line = "ready_done"
    /\ IF stub THEN To("shutdown", "stub_complete") /\ UNCHANGED errexit
       ELSE To("wait", reason) /\ errexit' = FALSE
    /\ UNCHANGED <<log, exit_code, SERVER_PID, HEALTHZ_PID, server, healthz, environment>>

\* Mutant: a wait is not ended by a signal.
InterruptedNever == FALSE

\* A wait is ended by a signal.
Interrupted == pending

\* Mutant: the status is taken after another command.
WaitStatusLate == 0

WaitStatus == serverStatus

\* Mutant: set -e is forgotten.
ErrexitStaysOff == FALSE

\* The trap starts before set -e.
ErrexitAfterWait == ~pending

\* wait "$SERVER_PID"; exit_code="$?"; set -e
Wait ==
    /\ line = "wait"
    /\ Interrupted \/ server = "exited"
    /\ To("stop_healthz", "provider_exit")
    /\ exit_code' = IF pending THEN exit_code ELSE WaitStatus
    /\ errexit' = ErrexitAfterWait
    /\ UNCHANGED <<log, SERVER_PID, HEALTHZ_PID, server, healthz, environment>>

\* Mutant: a child is told to stop and not waited for.
ReapableAlways(process) == TRUE

\* wait "$pid" in stop_child
Reapable(process) == process = "exited" \/ Interrupted

\* Mutant: the signal is not sent.
TerminatedNot(process) == process

\* kill -TERM
Terminated(process) == IF process = "running" THEN "stopping" ELSE process

StopServer ==
    /\ line = "stop_server"
    /\ server' = IF SERVER_PID THEN Terminated(server) ELSE server
    /\ To(IF SERVER_PID THEN "reap_server" ELSE "stop_healthz", reason)
    /\ UNCHANGED <<errexit, log, exit_code, SERVER_PID, HEALTHZ_PID, healthz, environment>>

ReapServer ==
    /\ line = "reap_server" /\ Reapable(server)
    /\ To("stop_healthz", reason)
    /\ UNCHANGED <<errexit, log, exit_code, SERVER_PID, HEALTHZ_PID, server, healthz, environment>>

\* Mutant: the event of the end is left out.
AfterStopSilent == IF reason = "provider_exit" THEN "exit" ELSE "exit_0"

AfterStop == IF reason = "provider_exit" THEN "last" ELSE "exit_0"

StopHealthz ==
    /\ line = "stop_healthz"
    /\ healthz' = IF HEALTHZ_PID THEN Terminated(healthz) ELSE healthz
    /\ To(IF HEALTHZ_PID THEN "reap_healthz" ELSE AfterStop, reason)
    /\ UNCHANGED <<errexit, log, exit_code, SERVER_PID, HEALTHZ_PID, server, environment>>

ReapHealthz ==
    /\ line = "reap_healthz" /\ Reapable(healthz)
    /\ To(AfterStop, reason)
    /\ UNCHANGED <<errexit, log, exit_code, SERVER_PID, HEALTHZ_PID, server, healthz, environment>>

\* shutdown
Shutdown == line = "shutdown" /\ LogEvent(Event("provider.shutdown", reason, 0), "stop_server")

ShutdownExit ==
    /\ line = "exit_0"
    /\ Exit(0, FALSE)
    /\ UNCHANGED <<errexit, log, SERVER_PID, HEALTHZ_PID, server, healthz, environment>>

\* The end of the script.
LastEvent == line = "last" /\ LogEvent(Event("provider.shutdown", reason, exit_code), "exit")

LastExit ==
    /\ line = "exit"
    /\ Exit(exit_code, FALSE)
    /\ UNCHANGED <<errexit, log, SERVER_PID, HEALTHZ_PID, server, healthz, environment>>

Script ==
    \/ Boot \/ StartHealthz \/ SetHealthzPid \/ StartProvider \/ SetServerPid
    \/ WaitForHealthz \/ Ready \/ AfterReady \/ Wait
    \/ Shutdown \/ StopServer \/ ReapServer \/ StopHealthz \/ ReapHealthz
    \/ ShutdownExit \/ LastEvent \/ LastExit

-----------------------------------------------------------------------------
\* What happens around the script.

\* SIGTERM or SIGINT.
Signal ==
    /\ line # "exited"
    /\ signals < MaxSignals
    /\ signals' = signals + 1
    /\ pending' = TRUE
    /\ UNCHANGED <<line, errexit, reason, log, exit_code, aborted, SERVER_PID, HEALTHZ_PID,
                   stub, stderr, server, healthz, serverStatus>>

\* Nobody reads standard error any more.
CloseStderr ==
    /\ stderr /\ line # "exited"
    /\ stderr' = FALSE
    /\ UNCHANGED <<scriptVars, signals, stub, server, healthz, serverStatus>>

\* The model server ends by itself, or because it was told to.
ServerEnds ==
    /\ Alive(server)
    /\ server' = "exited"
    /\ serverStatus' \in IF server = "running" THEN {0, 2} ELSE {0}
    /\ UNCHANGED <<scriptVars, signals, stub, stderr, healthz>>

HealthzEnds ==
    /\ Alive(healthz)
    /\ healthz' = "exited"
    /\ UNCHANGED <<scriptVars, environment, server>>

SupervisorInit ==
    /\ line = "boot" /\ errexit = TRUE /\ pending = FALSE /\ signals = 0
    /\ stub \in BOOLEAN /\ stderr = TRUE
    /\ server = "none" /\ healthz = "none" /\ serverStatus = 0
    /\ SERVER_PID = FALSE /\ HEALTHZ_PID = FALSE
    /\ reason = "none" /\ log = <<>> /\ exit_code = 0 /\ aborted = FALSE

-----------------------------------------------------------------------------
\* Properties.

Line == {"boot", "start_healthz", "HEALTHZ_PID", "start_provider", "SERVER_PID", "probe",
         "ready", "ready_done", "wait", "shutdown", "stop_server", "reap_server",
         "stop_healthz", "reap_healthz", "exit_0", "last", "exit", "exited"}

\* set -e is off from the wait for the model server on, and on again when the
\* script goes on after it.
SupervisorTypeOK ==
    /\ line \in Line
    /\ errexit \in BOOLEAN /\ pending \in BOOLEAN /\ stub \in BOOLEAN /\ stderr \in BOOLEAN
    /\ ~errexit => line = "wait" \/ reason = "signal"
    /\ signals \in 0..MaxSignals
    /\ server \in Process /\ healthz \in Process
    /\ serverStatus \in {0, 2} /\ exit_code \in {0, 1, 2}
    /\ SERVER_PID \in BOOLEAN /\ HEALTHZ_PID \in BOOLEAN /\ aborted \in BOOLEAN
    /\ reason \in {"none", "signal", "stub_complete", "provider_exit"}

\* However a signal, the end of a process or a second signal fall, the script
\* leaves no process behind that it started -- with two exceptions: a command
\* that failed under `set -e` ended it, or the signal came after a process was
\* started and before its id was noted.
NoStrayChild ==
    line = "exited" /\ ~aborted =>
        /\ Alive(server) => ~SERVER_PID
        /\ Alive(healthz) => ~HEALTHZ_PID

\* As long as standard error can be written, the events are a boot, at most one
\* ready and the shutdowns, and the last one names the status of the script.  A
\* shutdown can be logged several times, also with another status: a signal
\* during the last event of a failed server still makes it a success.
LastEventTellsStatus ==
    /\ Cardinality({i \in DOMAIN log : log[i].event = "provider.ready"}) <= 1
    /\ \A i, j \in DOMAIN log :
          i < j => log[i].event # "provider.shutdown" \/ log[j].event = "provider.shutdown"
    /\ line = "exited" /\ ~aborted /\ stderr =>
          /\ log[Len(log)].event = "provider.shutdown"
          /\ log[Len(log)].exit_code = exit_code

\* A model server that ended with an error makes the script end with one, unless
\* it was told to stop.
FailureIsReported ==
    line = "exited" /\ signals = 0 /\ ~stub /\ serverStatus # 0 => exit_code # 0

\* A signal ends the script, whenever it comes and how often, and so does the end
\* of the model server.
ScriptEnds == pending \/ server = "exited" ~> line = "exited"
=============================================================================
