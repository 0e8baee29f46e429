-------------------------------- MODULE Frame --------------------------------
(***************************************************************************)
(* The process around the subcommands of `vi` (process_main_from of vi-cli *)
(* with vi-log and the error envelope of vi-errors): what a script that    *)
(* started it can see, which is the exit status, the document on stdout,   *)
(* the error envelope and the log events on stderr.                        *)
(*                                                                         *)
(* The subcommands are here by what they may return; Verifier and Workspace*)
(* look inside.  Three things come from outside at any time: an interrupt, *)
(* which a thread of its own answers, the reader of stdout going away, and *)
(* a panic below the subcommand.                                           *)
(***************************************************************************)
EXTENDS Args

CONSTANTS
    Invocation,      \* what a process may be started with
    MaxPhaseEvents   \* bound: phase events of one run

VARIABLES
    call,       \* the parsed command line, or why clap refuses it
    env,        \* the environment
    pc,         \* where the main thread is
    trace_id,   \* 0: that of VI_TRACE_ID; n: the n-th one generated
    generated,  \* trace ids generated so far
    level,      \* the log level in force, "none" before a subscriber is installed
    events,     \* the events on stderr
    sent,       \* the trace id of each request sent
    result,     \* what run_cli returned, or "none"
    stdout,     \* the document: "none", "part" or "whole"
    readable,   \* whether the reader of stdout is still there
    envelope,   \* the error envelope on stderr
    panicked,
    exit        \* the exit status, or Running

given == <<call, env>>
logVars == <<level, events>>
outputVars == <<stdout, envelope>>
vars == <<given, pc, trace_id, generated, logVars, sent, result, readable, outputVars,
          panicked, exit>>

-----------------------------------------------------------------------------
Running == -1
SigintExit == 130
UsageExit == 64

\* The categories in which a subcommand may return; each has a code of its own.
Category ==
    {"verification_failed", "input", "network", "hash_mismatch", "receipt_missing",
     "unknown_version", "identity_mismatch", "unsupported_tier", "corrupt_envelope",
     "internal"}

\* Mutant: one code for whatever the user cannot repair by other arguments.
ExitCodeCoarse(category) ==
    CASE category = "ok" -> 0
      [] category = "input" -> 2
      [] category \notin {"ok", "input"} -> 1

ExitCode(category) ==
    CASE category = "ok" -> 0
      [] category = "verification_failed" -> 1
      [] category = "input" -> 2
      [] category = "network" -> 3
      [] category = "hash_mismatch" -> 4
      [] category = "receipt_missing" -> 5
      [] category = "unknown_version" -> 6
      [] category = "identity_mismatch" -> 7
      [] category = "unsupported_tier" -> 8
      [] category = "corrupt_envelope" -> 9
      [] category = "internal" -> 70

\* VI_LOG and the other sources of the filter: absent, white space, a level,
\* or something that does not parse.
Filter == {"absent", "blank", "error", "info", "debug", "invalid"}

Call ==
    [clap : {"ok", "usage", "help"}, line : Line, log : Filter, endpoint : BOOLEAN,
     receipt : {"file", "none", "both", "neither"}, deep : BOOLEAN]

Env == [vi_log : Filter, rust_log : Filter, trace : BOOLEAN, endpoint : BOOLEAN,
        test_hooks : BOOLEAN]

NoEnvelope == [state |-> "none", category |-> "ok", trace_id |-> 0]
Envelope == [state : {"none", "part", "whole"}, category : Category \cup {"ok"}, trace_id : Nat]

ASSUME FrameConstants ==
    /\ Invocation \subseteq Call \X Env
    /\ MaxPhaseEvents \in Nat

-----------------------------------------------------------------------------
\* The log.

\* Mutant: a source that is set at all wins.
FilterIfSet == IF call.log # "absent" THEN call.log
               ELSE IF env.vi_log # "absent" THEN env.vi_log
               ELSE env.rust_log

Blank == {"absent", "blank"}

\* filter_source: the first source that says anything, else DEFAULT_FILTER.
FilterSource ==
    IF call.log \notin Blank THEN call.log
    ELSE IF env.vi_log \notin Blank THEN env.vi_log
    ELSE IF env.rust_log \notin Blank THEN env.rust_log
    ELSE "error"

Logged(event, eventLevel) ==
    events' = IF level = "debug" \/ level = eventLevel THEN Append(events, event) ELSE events

ProcessStart == [event |-> "process.start", args |-> SanitizeArgs(Argv(call.line)), exit_code |-> 0]
ProcessEnd(code) == [event |-> "process.end", args |-> <<>>, exit_code |-> code]
ProcessError(code) == [event |-> "process.error", args |-> <<>>, exit_code |-> code]
PhaseEvent(name) == [event |-> name, args |-> <<>>, exit_code |-> 0]

-----------------------------------------------------------------------------
\* The trace id.

\* trace_id(): the value of VI_TRACE_ID, else a fresh ULID at every call.
TakesTraceId(id) ==
    IF env.trace THEN id = 0 /\ generated' = generated
    ELSE id = generated + 1 /\ generated' = generated + 1

Goto(label) == pc' = label
At(label) == pc = label

Exits(status) == pc' = "done" /\ exit' = status

-----------------------------------------------------------------------------
\* process_main_from.

Boot ==
    /\ At("boot") /\ Goto("parse")
    /\ TakesTraceId(trace_id')
    /\ UNCHANGED <<given, logVars, sent, result, readable, outputVars, panicked, exit>>

\* Cli::try_parse_from: help and usage errors end the process, as plain text.
Parse ==
    /\ At("parse")
    /\ \/ call.clap = "ok" /\ Goto("init") /\ UNCHANGED exit
       \/ call.clap = "help" /\ Exits(0)
       \/ call.clap = "usage" /\ Exits(UsageExit)
    /\ UNCHANGED <<given, trace_id, generated, logVars, sent, result, readable, outputVars, panicked>>

\* init_logging: an invalid filter is an input error without any event.
InitLogging ==
    /\ At("init")
    /\ \/ FilterSource = "invalid"
          /\ Goto("envelope") /\ result' = "input" /\ UNCHANGED level
       \/ FilterSource # "invalid"
          /\ Goto("start") /\ level' = FilterSource /\ UNCHANGED result
    /\ UNCHANGED <<given, trace_id, generated, events, sent, readable, outputVars, panicked, exit>>

Start ==
    /\ At("start") /\ Goto("run")
    /\ Logged(ProcessStart, "info")
    /\ UNCHANGED <<given, trace_id, generated, level, sent, result, readable, outputVars, panicked, exit>>

-----------------------------------------------------------------------------
\* run_cli.

Runs(command) == At("run") /\ call.line.command = command

\* The subcommand goes on at `label`, or returns.
Continue(label) == Goto(label) /\ UNCHANGED result
Return(outcome) == Goto("returned") /\ result' = outcome

Unseen == <<given, trace_id, generated, level, readable, outputVars, panicked, exit>>

HasEndpoint == call.endpoint \/ env.endpoint

\* keygen_with_options, and json_output, which fails for a path that is not UTF-8.
Keygen ==
    /\ Runs("keygen")
    /\ \E outcome \in {"ok", "input", "hash_mismatch", "internal"} : Return(outcome)
    /\ UNCHANGED <<Unseen, events, sent>>

\* run_chat up to the request: its arguments, ChatClient::new and the headers.
Chat ==
    /\ Runs("chat")
    /\ \/ Return("input")
       \/ /\ call.receipt \in {"file", "none"}
          /\ HasEndpoint
          /\ Continue("send")
    /\ UNCHANGED <<Unseen, events, sent>>

\* run_verify up to the audit opening, if it asks for one.
Verify ==
    /\ Runs("verify")
    /\ \/ \E outcome \in {"unsupported_tier", "input", "corrupt_envelope", "unknown_version",
                          "identity_mismatch", "verification_failed"} : Return(outcome)
       \/ call.deep /\ HasEndpoint /\ Continue("send")
       \/ ~call.deep /\ Continue("phases")
    /\ UNCHANGED <<Unseen, events, sent>>

\* run_tui without an event loop: a bad mode, an empty endpoint, a build without it.
Tui ==
    /\ Runs("tui")
    /\ \E outcome \in {"ok", "input", "unsupported_tier"} : Return(outcome)
    /\ UNCHANGED <<Unseen, events, sent>>

\* The hidden hooks, of which __panic panics where it stands.
TestHook ==
    /\ At("run") /\ call.line.command \in {"__panic", "__error"}
    /\ \/ ~env.test_hooks /\ Return("unsupported_tier")
       \/ /\ env.test_hooks /\ call.line.command = "__error"
          /\ \E outcome \in Category : Return(outcome)
    /\ UNCHANGED <<Unseen, events, sent>>

\* `vi` alone succeeds and says nothing.
NoCommand ==
    /\ Runs("vi") /\ Return("ok")
    /\ UNCHANGED <<Unseen, events, sent>>

\* post_chat_completions, post_audit: the trace id goes along as a header.
Send ==
    /\ At("send") /\ Continue("answer")
    /\ sent' = Append(sent, trace_id)
    /\ UNCHANGED <<Unseen, events>>

\* The output of a chat without a receipt holds no path.
ChatAnswer ==
    /\ At("answer") /\ call.line.command = "chat"
    /\ \/ \E outcome \in {"ok", "network", "corrupt_envelope", "input"} : Return(outcome)
       \/ /\ call.receipt = "file"
          /\ \E outcome \in {"receipt_missing", "internal"} : Return(outcome)
    /\ UNCHANGED <<Unseen, events, sent>>

VerifyAnswer ==
    /\ At("answer") /\ call.line.command = "verify"
    /\ \/ \E outcome \in {"network", "input", "corrupt_envelope", "unknown_version",
                          "unsupported_tier", "verification_failed"} : Return(outcome)
       \/ Continue("phases")
    /\ UNCHANGED <<Unseen, events, sent>>

\* emit_verify_phase_event, the callback of verify_with_callback.
Phase ==
    /\ At("phases") /\ Len(events) <= MaxPhaseEvents
    /\ UNCHANGED pc
    /\ \E name \in {"verify.phase.start", "verify.phase.end"} : Logged(PhaseEvent(name), "debug")
    /\ UNCHANGED <<Unseen, sent, result>>

\* VerifyOutput holds no path either: json_output cannot fail.
Verified ==
    /\ At("phases")
    /\ \E outcome \in {"ok", "verification_failed"} : Return(outcome)
    /\ UNCHANGED <<Unseen, events, sent>>

RunCli ==
    \/ Keygen \/ Chat \/ Verify \/ Tui \/ TestHook \/ NoCommand
    \/ Send \/ ChatAnswer \/ VerifyAnswer \/ Phase \/ Verified

-----------------------------------------------------------------------------
\* What run_parsed_cli does with the result.

EndOk ==
    /\ At("returned") /\ result = "ok" /\ Goto("print")
    /\ Logged(ProcessEnd(0), "info")
    /\ UNCHANGED <<Unseen, sent, result>>

\* Mutant: process.end is for runs that succeed.
AfterProcessErrorShort == "envelope"

AfterProcessError == "end_error"

ReportError ==
    /\ At("returned") /\ result # "ok" /\ Goto(AfterProcessError)
    /\ Logged(ProcessError(ExitCode(result)), "info")
    /\ UNCHANGED <<Unseen, sent, result>>

EndError ==
    /\ At("end_error") /\ Goto("envelope")
    /\ Logged(ProcessEnd(ExitCode(result)), "info")
    /\ UNCHANGED <<Unseen, sent, result>>

Leave ==
    /\ At("leave") /\ Exits(ExitCode(result))
    /\ UNCHANGED <<given, trace_id, generated, logVars, sent, result, readable, outputVars, panicked>>

-----------------------------------------------------------------------------
\* print_output and print_error_envelope.  Both write piece by piece.

\* run() has no output.
HasOutput == call.line.command # "vi"

\* Mutant: a failed write to stdout is ignored.
StdoutFailsNever == FALSE

\* println! panics when the write fails.
StdoutFails == ~readable

BeginDocument ==
    /\ At("print")
    /\ \/ ~HasOutput /\ Goto("leave") /\ UNCHANGED stdout
       \/ HasOutput /\ ~StdoutFails /\ Goto("printing") /\ stdout' = IF readable THEN "part" ELSE stdout
    /\ UNCHANGED <<given, trace_id, generated, logVars, sent, result, readable, envelope, panicked, exit>>

EndDocument ==
    /\ At("printing") /\ ~StdoutFails /\ Goto("leave")
    /\ stdout' = IF readable THEN "whole" ELSE stdout
    /\ UNCHANGED <<given, trace_id, generated, logVars, sent, result, readable, envelope, panicked, exit>>

\* Mutant: the envelope asks for a trace id of its own.
EnvelopeTraceIdFresh == generated + 1

EnvelopeTraceId == trace_id

BeginEnvelope ==
    /\ At("envelope") /\ Goto("closing")
    /\ envelope' = [state |-> "part", category |-> result, trace_id |-> EnvelopeTraceId]
    /\ UNCHANGED <<given, trace_id, generated, logVars, sent, result, readable, stdout, panicked, exit>>

EndEnvelope ==
    /\ At("closing") /\ Goto("leave")
    /\ envelope' = [envelope EXCEPT !.state = "whole"]
    /\ UNCHANGED <<given, trace_id, generated, logVars, sent, result, readable, stdout, panicked, exit>>

\* The panic hook: an internal error, under the trace id it computes itself.
Panic ==
    /\ \/ pc \in {"run", "answer", "phases"}
       \/ pc = "print" /\ HasOutput /\ StdoutFails
       \/ pc = "printing" /\ StdoutFails
    /\ Goto("closing") /\ result' = "internal" /\ panicked' = TRUE
    /\ \E id \in {0, generated + 1} :
          /\ TakesTraceId(id)
          /\ envelope' = [state |-> "part", category |-> "internal", trace_id |-> id]
    /\ UNCHANGED <<given, trace_id, logVars, sent, readable, stdout, exit>>

-----------------------------------------------------------------------------
\* The surroundings.

\* The ctrlc thread exits whatever the main thread is at; before it is
\* installed the signal ends the process, and a shell shows the same status.
Interrupt ==
    /\ ~At("done") /\ Exits(SigintExit)
    /\ UNCHANGED <<given, trace_id, generated, logVars, sent, result, readable, outputVars, panicked>>

ReaderLeaves ==
    /\ ~At("done") /\ readable /\ readable' = FALSE
    /\ UNCHANGED <<given, pc, trace_id, generated, logVars, sent, result, outputVars, panicked, exit>>

Init ==
    /\ \E invocation \in Invocation : call = invocation[1] /\ env = invocation[2]
    /\ pc = "boot" /\ exit = Running /\ result = "none"
    /\ trace_id = 0 /\ generated = 0
    /\ level = "none" /\ events = <<>>
    /\ sent = <<>>
    /\ stdout = "none" /\ readable = TRUE
    /\ envelope = NoEnvelope /\ panicked = FALSE

Next ==
    \/ Boot \/ Parse \/ InitLogging \/ Start
    \/ RunCli
    \/ EndOk \/ ReportError \/ EndError \/ Leave
    \/ BeginDocument \/ EndDocument \/ BeginEnvelope \/ EndEnvelope \/ Panic
    \/ Interrupt \/ ReaderLeaves

Spec == Init /\ [][Next]_vars

-----------------------------------------------------------------------------
EventNames ==
    {"process.start", "process.end", "process.error", "verify.phase.start", "verify.phase.end"}

\* Every variable keeps its type; a level is in force only when a source gave
\* one that parses.
TypeOK ==
    /\ call \in Call /\ env \in Env
    /\ trace_id \in Nat /\ generated \in Nat
    /\ level \in {"none", "error", "info", "debug"}
    /\ \A i \in DOMAIN events :
          events[i] \in [event : EventNames, args : Seq(Word), exit_code : Nat]
    /\ sent \in Seq(Nat)
    /\ result \in Category \cup {"none", "ok"}
    /\ stdout \in {"none", "part", "whole"} /\ readable \in BOOLEAN
    /\ envelope \in Envelope /\ panicked \in BOOLEAN
    /\ exit \in Nat \cup {Running}

\* A process that failed has written one whole envelope, and its status is
\* that of the envelope's category and of no other; help, usage errors and
\* success write none.  Only an interrupt leaves the two out of step.
EnvelopeTellsStatus ==
    /\ exit \in {0, UsageExit} => envelope = NoEnvelope
    /\ exit \notin {Running, 0, UsageExit, SigintExit} =>
          /\ envelope.state = "whole"
          /\ {c \in Category : ExitCode(c) = exit} = {envelope.category}

\* A script that reads stdout gets a whole document from every success, and
\* never a whole document from a failure.
DocumentMeansSuccess ==
    /\ exit = 0 /\ call.clap = "ok" /\ HasOutput => stdout = "whole"
    /\ stdout = "whole" => envelope = NoEnvelope /\ exit \in {Running, 0, SigintExit}

\* At level info the last event of a run is process.end with the status of the
\* process.  An interrupt or a panic may come before it, and two things may
\* belie it: an interrupt after it, and a document that cannot be written, which
\* exits with 70 after process.end has said 0.
StatusIsLogged ==
    /\ exit \notin {Running, SigintExit} /\ level \in {"info", "debug"} /\ ~panicked =>
          events # <<>> /\ Last(events) = ProcessEnd(exit)
    /\ \A i \in DOMAIN events : events[i].event = "process.end" =>
          \/ exit \in {Running, events[i].exit_code, SigintExit}
          \/ exit = ExitCode("internal") /\ events[i].exit_code = 0 /\ ~readable

\* Requests, events and the envelope of a process carry one trace id.  The
\* panic hook's envelope is the exception: without VI_TRACE_ID its id is new.
OneTraceId ==
    /\ \A i \in DOMAIN sent : sent[i] = trace_id
    /\ envelope # NoEnvelope => envelope.trace_id = trace_id \/ (panicked /\ ~env.trace)

\* No event shows a word of the API key of the command line.  Because the
\* arguments are joined and split again, two lines escape: the words of a key
\* behind its first, and a key that is an argument of its own when the arguments
\* in front of its flag end in the word --api-key, as a prompt or a path may.
KeyIsHidden ==
    \A i \in DOMAIN events : \A j \in DOMAIN events[i].args :
        events[i].args[j][2] \in KeyText =>
            \/ Len(call.line.api_key) > 1
            \/ ~call.line.glued /\ Last(Tokens(FrontArgs(call.line))) = KeyFlag
=============================================================================
