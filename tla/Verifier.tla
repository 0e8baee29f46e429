------------------------------ MODULE Verifier ------------------------------
(***************************************************************************)
(* One run of `vi verify`: run_verify of vi-cli around verify_inner of     *)
(* vi-verifier.  Every fallible call is a step of its own, because the     *)
(* files on disk can be replaced between the reads, the audit provider is  *)
(* a remote machine, and SIGINT can end the process between any two steps. *)
(*                                                                         *)
(* `pc` names the next call of the program.                                *)
(***************************************************************************)
EXTENDS Artifacts

CONSTANTS
    RequestedChallenge,   \* what the CLI asks an HTTP audit provider to open
    MaxReplacements       \* bound: how often a file is replaced during a run

ASSUME RunConstants ==
    /\ RequestedChallenge \in Challenge
    /\ MaxReplacements \in Nat

VARIABLES
    tier, endpoint,        \* the command line
    disk,                  \* receipt, key and audit file, as they are now
    replacements,
    pc,
    receipt, key, audit,   \* the bytes the run has read, or NoFile
    request,               \* the HTTP audit requests it has sent, in order
    result,                \* how verification ended; "none" while it runs
    failedPhase,           \* the phase of a verification_failed error
    events,                \* the phase events delivered to the callback
    printed,               \* whether the pass report is on stdout
    exit                   \* the exit status, or Running

input == <<tier, endpoint>>
loaded == <<receipt, key, audit, request>>
verdict == <<result, failedPhase>>
output == <<events, printed, exit>>
env == <<disk, replacements>>
vars == <<input, env, pc, loaded, verdict, output>>

\* --audit-endpoint: absent, `file://` with and without a path, a URL
\* parse_https_endpoint accepts, and one it rejects.
Endpoint == {"none", "file", "file_no_path", "https", "bad_url"}

\* The ViError categories a run of `vi verify` can end with.
Category ==
    {"verification_failed", "input", "network", "hash_mismatch",
     "unknown_version", "identity_mismatch", "unsupported_tier", "corrupt_envelope"}

\* Mutant: the codes counted up without the 5 of receipt_missing.
ShiftedExitCode ==
    [c \in Category \cup {"pass"} |->
        CASE c = "pass" -> 0
          [] c = "verification_failed" -> 1
          [] c = "input" -> 2
          [] c = "network" -> 3
          [] c = "hash_mismatch" -> 4
          [] c = "unknown_version" -> 5
          [] c = "identity_mismatch" -> 6
          [] c = "unsupported_tier" -> 7
          [] c = "corrupt_envelope" -> 8]

ExitCode ==
    [c \in Category \cup {"pass"} |->
        CASE c = "pass" -> 0
          [] c = "verification_failed" -> 1
          [] c = "input" -> 2
          [] c = "network" -> 3
          [] c = "hash_mismatch" -> 4
          [] c = "unknown_version" -> 6
          [] c = "identity_mismatch" -> 7
          [] c = "unsupported_tier" -> 8
          [] c = "corrupt_envelope" -> 9]

SigintExit == 130

Running == -1

\* The calls of run_verify before verify_with_callback, then those of
\* run_verification_core, then the event walk and the report.
Setup == {"args", "read_receipt", "read_key", "provider"}
Core ==
    {"decode_key", "decode_receipt", "identity", "key_hash", "deserialize_key",
     "fetch", "await", "decode_audit", "audit_hash", "audit_tier", "challenge",
     "upstream"}
PC == Setup \cup Core \cup {"events", "report", "exiting", "done"}

AuditRequest == [receipt_hash : ReceiptFile, tier : Tier, challenge : Challenge]

PhaseEvent ==
    [type : {"started"}, phase : Phase]
        \cup [type : {"ended"}, phase : Phase, passed : BOOLEAN]

-----------------------------------------------------------------------------
Init ==
    /\ tier \in Tier \cup {"unknown"}
    /\ endpoint \in Endpoint
    /\ disk \in [receipt : ReceiptFile \cup {NoFile},
                 key : KeyFile \cup {NoFile},
                 audit : IF endpoint = "file" THEN AuditFile \cup {NoFile} ELSE {NoFile}]
    /\ replacements = 0
    /\ pc = "args"
    /\ receipt = NoFile /\ key = NoFile /\ audit = NoFile
    /\ request = <<>>
    /\ result = "none" /\ failedPhase = "none"
    /\ events = <<>> /\ printed = FALSE /\ exit = Running

\* The `?` operator: an error before verify_with_callback goes straight to the
\* error envelope, one inside verify_inner goes through the event walk first.
Fail(category) ==
    /\ result' = category
    /\ pc' = IF pc \in Setup THEN "report" ELSE "events"
    /\ UNCHANGED failedPhase

GoTo(next) == pc' = next /\ UNCHANGED verdict

\* A call that yields an error category, or "ok" and goes on.
Call(at, outcome, next) ==
    /\ pc = at
    /\ IF outcome = "ok" THEN GoTo(next) ELSE Fail(outcome)

-----------------------------------------------------------------------------
\* run_verify, up to verify_with_callback.

ParseArgs ==
    /\ Call("args",
            IF tier \notin Tier THEN "unsupported_tier"
            ELSE IF TierRequiresAudit(tier) /\ endpoint = "none" THEN "unsupported_tier"
            ELSE "ok",
            "read_receipt")
    /\ UNCHANGED <<input, env, loaded, output>>

ReadReceipt ==
    /\ receipt' = disk.receipt
    /\ Call("read_receipt", IF disk.receipt = NoFile THEN "input" ELSE "ok", "read_key")
    /\ UNCHANGED <<input, env, key, audit, request, output>>

ReadKey ==
    /\ key' = disk.key
    /\ Call("read_key", IF disk.key = NoFile THEN "input" ELSE "ok", "provider")
    /\ UNCHANGED <<input, env, receipt, audit, request, output>>

\* build_verify_audit_provider
BuildProvider ==
    /\ Call("provider",
            IF TierRequiresAudit(tier) /\ endpoint \in {"file_no_path", "bad_url"}
            THEN "input" ELSE "ok",
            "decode_key")
    /\ UNCHANGED <<input, env, loaded, output>>

-----------------------------------------------------------------------------
\* run_verification_core.

DecodeKey ==
    /\ Call("decode_key", key.form, "decode_receipt")
    /\ UNCHANGED <<input, env, loaded, output>>

DecodeReceipt ==
    /\ Call("decode_receipt", receipt.form, "identity")
    /\ UNCHANGED <<input, env, loaded, output>>

CheckIdentity ==
    /\ Call("identity",
            IF CheckReceiptIdentity(key, receipt) THEN "ok" ELSE "identity_mismatch",
            "key_hash")
    /\ UNCHANGED <<input, env, loaded, output>>

\* Mutant: the hash is taken of the file as it is now, not of the bytes read.
CheckKeyHashOfFile ==
    /\ Call("key_hash",
            IF CheckReceiptKeyHash(disk.key, receipt) THEN "ok" ELSE "identity_mismatch",
            "deserialize_key")
    /\ UNCHANGED <<input, env, loaded, output>>

CheckKeyHash ==
    /\ Call("key_hash",
            IF CheckReceiptKeyHash(key, receipt) THEN "ok" ELSE "identity_mismatch",
            "deserialize_key")
    /\ UNCHANGED <<input, env, loaded, output>>

DeserializeKey ==
    /\ Call("deserialize_key",
            IF key.payload = "ok" THEN "ok" ELSE "corrupt_envelope",
            IF TierRequiresAudit(tier) THEN "fetch" ELSE "upstream")
    /\ UNCHANGED <<input, env, loaded, output>>

\* Mutant: the request names the receipt file as it is now.
AuditRequestForFile ==
    [receipt_hash |-> disk.receipt, tier |-> tier, challenge |-> RequestedChallenge]

\* The Http provider was built with the hash of the receipt bytes.
AuditRequestToSend ==
    [receipt_hash |-> receipt, tier |-> tier, challenge |-> RequestedChallenge]

\* fetch_audit: the File provider reads its path now; the Http provider posts,
\* unless VI_API_KEY makes no header.
FetchAudit ==
    \/ /\ endpoint = "file"
       /\ audit' = disk.audit
       /\ Call("fetch", IF disk.audit = NoFile THEN "input" ELSE "ok", "decode_audit")
       /\ UNCHANGED <<input, env, receipt, key, request, output>>
    \/ /\ endpoint = "https"
       /\ Call("fetch", "ok", "await")
       /\ request' = Append(request, AuditRequestToSend)
       /\ UNCHANGED <<input, env, receipt, key, audit, output>>
    \/ /\ endpoint = "https"
       /\ Call("fetch", "input", "await")
       /\ UNCHANGED <<input, env, loaded, output>>

\* The provider is another machine: a 2xx answer may carry any opening.
ProviderAnswers ==
    /\ Call("await", "ok", "decode_audit")
    /\ audit' \in AuditFile
    /\ UNCHANGED <<input, env, receipt, key, request, output>>

\* Mutant: a client without a time-out.
FetchHangs == FALSE

\* post_audit fails: a non-2xx status, a transport error or the time-out.
FetchFails ==
    /\ Call("await", "network", "decode_audit")
    /\ UNCHANGED <<input, env, loaded, output>>

DecodeAudit ==
    /\ Call("decode_audit", audit.form, "audit_hash")
    /\ UNCHANGED <<input, env, loaded, output>>

CheckAuditHash ==
    /\ Call("audit_hash",
            IF CheckAuditReceiptHash(audit, receipt) THEN "ok" ELSE "hash_mismatch",
            "audit_tier")
    /\ UNCHANGED <<input, env, loaded, output>>

\* Mutant: the tier of the opening is not compared.
CheckTierSkipped ==
    /\ Call("audit_tier", "ok", "challenge")
    /\ UNCHANGED <<input, env, loaded, output>>

CheckTier ==
    /\ Call("audit_tier",
            IF CheckAuditTier(audit, tier) THEN "ok" ELSE "unsupported_tier",
            "challenge")
    /\ UNCHANGED <<input, env, loaded, output>>

\* commitllm_challenge: the challenge is taken from the opening's own header.
DeriveChallenge ==
    /\ Call("challenge",
            IF audit.challenge \in WideChallenge THEN "input" ELSE "ok",
            "upstream")
    /\ UNCHANGED <<input, env, loaded, output>>

\* The failures of the upstream verifier on what this tier hands to it.
UpstreamFailures ==
    IF TierRequiresAudit(tier)
    THEN ChallengedFailures(audit, audit.challenge)
    ELSE receipt.failures

UpstreamPayload == IF TierRequiresAudit(tier) THEN audit.payload ELSE receipt.payload

\* The upstream verifier, then report_from_upstream: only the first failure
\* becomes the error.
VerifyUpstream ==
    /\ pc = "upstream"
    /\ pc' = "events"
    /\ \/ /\ UpstreamPayload = "malformed"
          /\ result' = "corrupt_envelope" /\ failedPhase' = failedPhase
       \/ /\ UpstreamPayload = "ok"
          /\ UpstreamFailures # <<>>
          /\ result' = "verification_failed" /\ failedPhase' = UpstreamFailures[1]
       \/ /\ UpstreamPayload = "ok"
          /\ UpstreamFailures = <<>>
          /\ result' = "pass" /\ failedPhase' = failedPhase
    /\ UNCHANGED <<input, env, loaded, output>>

-----------------------------------------------------------------------------
\* emit_phase_events, one callback per step.

\* phase_for_error
PhaseForError == IF result = "verification_failed" THEN failedPhase ELSE VerifyPhases[1]

NextPhase == VerifyPhases[Len(events) \div 2 + 1]

StartPhase ==
    /\ pc = "events"
    /\ Len(events) % 2 = 0
    /\ events' = Append(events, [type |-> "started", phase |-> NextPhase])
    /\ UNCHANGED <<input, env, pc, loaded, verdict, printed, exit>>

\* Mutant: the walk does not stop at the failed phase.
WalkEndsLate(passed) == Len(events) \div 2 = 6

WalkEnds(passed) == ~passed \/ Len(events) \div 2 = 6

EndPhase ==
    LET passed == result = "pass" \/ NextPhase # PhaseForError IN
    /\ pc = "events"
    /\ Len(events) % 2 = 1
    /\ events' = Append(events, [type |-> "ended", phase |-> NextPhase, passed |-> passed])
    /\ pc' = IF WalkEnds(passed) THEN "report" ELSE "events"
    /\ UNCHANGED <<input, env, loaded, verdict, printed, exit>>

\* print_output on success, print_error_envelope otherwise.
Report ==
    /\ pc = "report"
    /\ pc' = "exiting"
    /\ printed' = (result = "pass")
    /\ UNCHANGED <<input, env, loaded, verdict, events, exit>>

Exit ==
    /\ pc = "exiting"
    /\ pc' = "done"
    /\ exit' = ExitCode[result]
    /\ UNCHANGED <<input, env, loaded, verdict, events, printed>>

-----------------------------------------------------------------------------
\* The surroundings of the process.

\* The ctrlc handler exits from any point.
Sigint ==
    /\ pc # "done"
    /\ pc' = "done"
    /\ exit' = SigintExit
    /\ UNCHANGED <<input, env, loaded, verdict, events, printed>>

\* Another process, such as `vi keygen --force` on the key, replaces a file.
ReplaceFile ==
    /\ pc # "done"
    /\ replacements < MaxReplacements
    /\ replacements' = replacements + 1
    /\ \/ \E r \in ReceiptFile : disk' = [disk EXCEPT !.receipt = r]
       \/ \E k \in KeyFile : disk' = [disk EXCEPT !.key = k]
       \/ /\ endpoint = "file"
          /\ \E a \in AuditFile : disk' = [disk EXCEPT !.audit = a]
    /\ UNCHANGED <<input, pc, loaded, verdict, output>>

Program ==
    \/ ParseArgs \/ ReadReceipt \/ ReadKey \/ BuildProvider
    \/ DecodeKey \/ DecodeReceipt \/ CheckIdentity \/ CheckKeyHash \/ DeserializeKey
    \/ FetchAudit \/ FetchFails \/ DecodeAudit \/ CheckAuditHash \/ CheckTier
    \/ DeriveChallenge \/ VerifyUpstream
    \/ StartPhase \/ EndPhase \/ Report \/ Exit

Next == Program \/ ProviderAnswers \/ Sigint \/ ReplaceFile

Spec == Init /\ [][Next]_vars

\* The process is scheduled, and a request it waits on ends by itself: the
\* HTTP client has a time-out.  Nothing is asked of the provider or the user.
FairSpec == Spec /\ WF_vars(Program)

-----------------------------------------------------------------------------
\* Properties.

\* Every variable holds a value the program can give it.
TypeOK ==
    /\ tier \in Tier \cup {"unknown"}
    /\ endpoint \in Endpoint
    /\ disk \in [receipt : ReceiptFile \cup {NoFile}, key : KeyFile \cup {NoFile},
                 audit : AuditFile \cup {NoFile}]
    /\ replacements \in 0..MaxReplacements
    /\ pc \in PC
    /\ receipt \in ReceiptFile \cup {NoFile}
    /\ key \in KeyFile \cup {NoFile}
    /\ audit \in AuditFile \cup {NoFile}
    /\ request \in Seq(AuditRequest)
    /\ result \in Category \cup {"none", "pass"}
    /\ failedPhase \in Phase \cup {"none"}
    /\ events \in Seq(PhaseEvent)
    /\ printed \in BOOLEAN
    /\ exit \in {Running, 0, 1, 2, 3, 4, 6, 7, 8, 9, SigintExit}

\* What the exit status tells the buyer.
Outcome ==
    CASE exit = Running -> "undecided"
      [] exit = SigintExit -> "aborted"
      [] exit = 0 -> "accepted"
      [] OTHER -> "rejected"

V == INSTANCE Verdict WITH outcome <- Outcome

\* The run implements the abstract promise: whatever is replaced, refused or
\* lost on the way, an exit status of 0 means the inputs it loaded are
\* acceptable, any other status of a run that was not interrupted means they
\* are not, and no input is read twice.  (run_verify, run_verification_core)
ImplementsVerdict == V!Spec

\* A pass is about one key and one receipt that carry the same identity and
\* name each other, and at the deep and full tiers about an opening made for
\* that receipt and that tier.  (the four checks of run_verification_core)
PassIsBound ==
    result = "pass" =>
        /\ V!Bound(key, receipt)
        /\ TierRequiresAudit(tier) =>
              /\ audit \in AuditFile
              /\ audit.receipt_hash = receipt
              /\ audit.tier = tier

\* The provider is asked only about a receipt already bound to the key, only
\* at a tier that needs it, once, and with the hash of the receipt that was
\* checked, even when the file has since been replaced.  (fetch_audit; the
\* tests of vi-verifier count the calls of the provider)
AuditAskedForBoundReceipt ==
    request # <<>> =>
        /\ V!Bound(key, receipt)
        /\ TierRequiresAudit(tier)
        /\ Len(request) = 1
        /\ request[1].receipt_hash = receipt /\ request[1].tier = tier

Ended == {i \in DOMAIN events : events[i].type = "ended"}
EndedFailed == {i \in Ended : ~events[i].passed}

\* The event log and the exit status tell the same story: status 0 comes with
\* the complete walk of passed phases, a failed phase is the last event and
\* never comes with status 0, and a verification that ended with an error has
\* named exactly one failed phase.  (emit_phase_events, run_parsed_cli)
PhaseLogTellsVerdict ==
    /\ exit = 0 => Len(events) = 14 /\ EndedFailed = {}
    /\ EndedFailed # {} => exit # 0 /\ ~printed /\ EndedFailed = {Len(events)}
    /\ exit \notin {Running, 0, SigintExit} /\ events # <<>> => EndedFailed # {}

\* Every run ends, whatever the provider does.  (post_audit returns an error
\* when the request fails or times out)
Terminates == <>(pc = "done")

-----------------------------------------------------------------------------
\* Statements of the documentation and the comments that the code does not keep.

\* docs/spec/02-public-api.md: the opening is bound to the requested token and
\* layers, and the verifier, not the transport, verifies that.
ChallengeAnswered ==
    result = "pass" => \A i \in DOMAIN request : audit.challenge = request[i].challenge

\* PhaseEvent::Ended.passed: "Whether the phase passed."
PassedPhaseHasNoFailure ==
    result = "verification_failed" =>
        \A i \in Ended \ EndedFailed : \A j \in DOMAIN UpstreamFailures :
            events[i].phase # UpstreamFailures[j]
=============================================================================
