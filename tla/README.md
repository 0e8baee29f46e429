# Verification of verifiable-intelligence

A TLA+ model of the programs in this repository, checked with TLC, with proofs
checked by TLAPS. `PROJECT.json` maps every definition to the source lines it
models and lists the runs, the mutants (a plausible bug for each property,
which the run must find), the findings, the hazards and the theorems.

## 1. The system

A buyer asks a provider for an answer and gets a *receipt* with it. A verifier
key, generated once from the model checkpoint, lets the buyer check the receipt
without trusting the provider. Three binary artifacts carry this: `VIKY`
(verifier key), `VIRC` (receipt) and `VIAU` (an opening the provider produces
when it is challenged). A broker sells quotes for providers and hands out JSON
proof bundles (`VIEX`).

| component | state it keeps | operations | properties that make it correct |
|---|---|---|---|
| `vi verify` (vi-cli `run_verify`, vi-verifier, vi-client `post_audit`) | the bytes read so far, the verdict, phase events | read three files, a dozen checks in a fixed order, one HTTP request, an event walk, a report, an exit status | status 0 exactly for inputs that are bound to each other and valid; one reading of each file decides; log and status agree; it ends |
| fixture broker (`broker/fixture-broker.js`) | the map of quotes, in memory | `createQuote`, `chat`, `verify`, `providerAudit`, `listProviders` | a chat honours the quote the buyer holds; an honest bundle passes until its quote expires; an edited or recombined one fails |
| `vi keygen`, `vi chat` (vi-keygen, vi-cli) | files: key, decode artifact, receipt | hash and read a checkpoint, post a chat, open and write files | nothing is overwritten without `--force`; a reported file is complete; the expected hash guards the output; the header's hash is that of the key's checkpoint |
| checkpoint download (vi-keygen `download_hf_checkpoint_to`) | a cache directory | a Range request per file, append or rewrite, hash | a resumed download is exact; trying again gets there |
| envelope codec (vi-receipt) | none | encode and decode envelopes and headers | what is bound is read back field by field; no two files read alike; damage is refused in the documented category |
| client of a provider (vi-client) | none; the answer it parses | chat with and without receipt, audit, health preflight, the multipart parser | the receipt that is saved is the one that was sent, whole; a degraded answer gives none |
| the process of `vi` (vi-cli frame, vi-errors, vi-log, vi-tui) | trace id, log level, the two streams | parse, start the log, run a subcommand, end event, document or envelope, panic hook, interrupt | status, envelope, document and log tell the same story under one trace id; the API key is not logged |
| provider stub (`provider/healthz.py`) | a deque of request times per address, a thread per request | health, chat, audit behind a rate limit | never more requests in a window than the limit; a client that waits as told is let in |
| provider entrypoint (`provider/entrypoint.sh`) | two child processes, their ids, the status to exit with, traps, `set -e` | start, wait until ready, wait for the model server, stop | no child survives; a failure is reported; the script ends |
| demo page (`demo/index.html`) | the selection and the last bundle | build and check a bundle | a bundle is of one selection |
| WASM verifier (`verifier/wasm/src`) | none | header checks, digest, CommitLLM verification | agrees with the broker's verify on what both check |
| vendored CommitLLM, schemas, fixtures, scripts, CI, docs | - | - | third-party, data, or tooling |

Interactions. `vi keygen` writes the key file `vi verify` reads and reads the
checkpoint a download fills; `vi chat` writes the receipt file `vi verify`
reads. They share nothing but the file system, and nothing locks it: every read,
open and write of one can fall between two of another. `vi verify` talks to a
provider over HTTP (one request, no retry) and delivers its phase events by a
callback to the logger. The broker is a single-threaded event loop whose
handlers run to completion; buyers, the clock and restarts interleave with
whole handlers, and its bundles pass through other hands before they come back
to `verify`. Between a program that binds an artifact and the one that reads it
lie the encoder, perhaps a multipart answer, a file and the decoder. Around
every subcommand is one process frame, whose ctrlc thread and panic hook run
beside and below it. The provider's container is a shell script with two
children; the health server among them has a thread per request.

What is hard here: files replaced between their reads; two runs that write one
path; kills between two writes; a download resumed on what an earlier one left;
an id that two requests of one millisecond share; the long chain of checks of
which each one must stand between the inputs and a pass; a log that is written
after the fact from a single result, and an end event written before the
output it speaks of; an artifact that is cut, damaged or framed badly on its
way; a signal between any two commands of a script; a deque two threads change
at once. `PROJECT.json` lists these under
`hazards`, with the line where each one bites.

## 2. Modules

| module | what it is |
|---|---|
| `Artifacts` | decoded keys, receipts and openings, and the checks on their headers |
| `Verdict` | abstract: take one snapshot of each input, then accept exactly the acceptable ones, or be aborted |
| `Verifier` | `vi verify`, one action per fallible call; EXTENDS `Artifacts`, implements `Verdict` |
| `VerifierProofs` | theorems about `Verifier` |
| `Broker` | quotes, chats, bundles and the fallback verifier |
| `BrokerProofs` | theorems about `Broker` |
| `Workspace` | several runs of `vi keygen` and `vi chat` in one directory |
| `WorkspaceProofs` | theorems about `Workspace` |
| `CheckpointCache` | several downloads into one cache directory |
| `CheckpointCacheProofs` | theorems about `CheckpointCache` |
| `Envelope` | the byte layout of vi-receipt: encoder and decoder |
| `Multipart` | the parser of vi-client and its two readings of a chat answer |
| `Delivery` | one artifact on its way; composes `Envelope` and `Multipart` |
| `DeliveryProofs` | theorems about `Delivery` |
| `Entrypoint` | the supervisor script of the provider container |
| `RateLimit` | the rate limiter of the health server, with its threads |
| `Provider` | the container; composes `Entrypoint` and `RateLimit` |
| `LimiterProofs` | the invariant of `RateLimit` and what it says about windows and hints |
| `ProviderProofs` | theorems about `Provider`; EXTENDS `LimiterProofs` |
| `Args` | the arguments of a command line and their redaction in the log |
| `Frame` | the process of `vi` around its subcommands; EXTENDS `Args` |
| `FrameProofs` | theorems about `Frame` |
| `MC*` | the values of the constants for TLC |

Definitions whose comment starts with "Mutant:" are variants of the definition
that follows them, with a bug a later change could introduce. They are not part
of any next-state relation.

### 2.1 Verifier

A file is a record of what decoding it yields; two files are the same value
exactly when they have the same bytes, so a file stands for its own SHA-256 and
a hash comparison is an equality (SHA-256 is taken to be injective). `failures`
of a receipt or opening are the failures the vendored verifier reports for its
payload, in report order: the cryptography is an input. Only the comparison of
the opened challenge with the one that is passed in is computed
(`ChallengedFailures`), because the project relies on it.

`pc` names the next call. The actions from `ParseArgs` to `BuildProvider` are
the calls of `run_verify`, those from `DecodeKey` to `VerifyUpstream` the calls
of `run_verification_core` in their order, with `FetchAudit`,
`ProviderAnswers` and `FetchFails` for the two kinds of audit provider;
`StartPhase` and `EndPhase` are the callbacks of `emit_phase_events`; `Report`
and `Exit` end the process. An error before `verify_with_callback` reports at
once, one after it goes through the event walk first (`Fail`). `Sigint` is the
ctrlc handler, which calls `process::exit` from anywhere. `ReplaceFile` is any
other process that writes to the three paths.

`Verdict` has three variables besides the command line: the inputs that were
loaded and the outcome. Its step `Decide` says what a verdict must be;
`ImplementsVerdict` is `V!Spec` under the mapping of the exit status to
"undecided", "accepted", "rejected" and "aborted" (`Outcome`).

### 2.2 Broker

One action per handler that changes or uses the state (`CreateQuote`, `Chat`,
`Verify`), the clock (`Tick`; a chat reads it twice, so it may also advance
within one), a `Restart` that forgets the map, and the two ways in which a
bundle changes on its way: one field is edited (`Tamper`), or one of its objects
is replaced by that of another honest bundle (`Splice`). A digest is modelled by
the value it is taken of. A bundle is flat, with one entry for each field the
verifier or the documentation speaks of; `Section` groups them into the objects
of the JSON document. `issued`, `chats` and the `original` of a report are
history, which the properties need.

### 2.3 Workspace

Each run is a process with a `pc`. `vi keygen`: the two early checks, the
listing of the checkpoint files, one step per file hashed, the comparison with
the expected hash, one step per file read again by `generate_key`, the check for
the decode artifact, and then the two files, each opened once and written in
`Blocks` steps. `vi chat`: its arguments, the request with every outcome, the
receipt file. Any step that can fail may fail. `Open` with `create_new` fails on
a file that exists; with `--force` it empties it. A write goes to the offset the
run has reached, so that a file two runs write to at once can get a hole or a
mixture. `opened` and `shared` are history. A checkpoint file is the version it
has; its byte order in the canonical hash is abstracted, and equal versions in
every place are equal hashes.

### 2.4 CheckpointCache

A file is a sequence of chunks, chunk `k` of version `v` is `<<v, k>>`. One step
for the length on disk, one for the answer to the request, one to open the file
and one per chunk. The server may ignore the range (200), honour it (206) or
answer 416; other 2xx are treated like 200 by the code and not modelled apart. It is assumed
that a 206 starts where the request said and that a transfer that is cut off
is an error (the client compares the length that was announced): the code relies
on both. An empty and a missing file are alike, as they are for the code.

### 2.5 Envelope, Multipart, Delivery

A file is a sequence of bytes, and `Envelope` encodes and decodes it with the
checks of vi-receipt in their order: magic, version, flags, the two prefixes,
the CRC, the fields of the header by kind, their ranges, and bytes that are
left over. The CRC is a remainder that, like CRC-32C, tells apart any two
bodies that differ in one byte. A number with which nothing is computed is kept
as its bytes. In `Multipart` a body is a sequence of bytes too, except that a
whole header line and a whole JSON document are one symbol each.

`Delivery` takes one artifact and one operation. For `keygen` the bytes go to a
file; for `chat` they go into a multipart answer, out of it and to a file; for
`audit` they are the body of an answer; `chat --no-receipt` and `healthz` have
answers without artifacts. On the way at most `MaxFaults` things happen: the
encoder is not this one, the answer is not a good one (cut, damaged, another
status or type, a warning), the file loses its end, a byte changes.

### 2.6 Entrypoint, RateLimit, Provider

`Entrypoint` has one step per command of `entrypoint.sh`. `To`, `Exit` and
`Failed` are the ways a command is left: for the next one, or for the trap if a
signal came meanwhile; for the end of the script; by a failure under `set -e`.
A command and the assignment of `$!` behind it are two steps. `kill` turns a
process to "stopping"; `wait` ends when its process has, or at once on a
signal. The shell of the image is dash.

`RateLimit` takes `check_rate_limit` apart into its accesses to the deque,
because threads of the interpreter can interleave there and no lock is taken;
`popleft` or `entries[0]` on a deque another thread emptied ends the handler
with an IndexError. A tick is half a second, so that `int()` in the retry hint
has a fraction to cut off. `admitted`, `refusal`, `overlaps` and `broken` are
history. In `Provider` requests are served while the health process runs, and
its end takes the deque and the requests in progress along.

### 2.7 Args, Frame

`Frame` is `process_main_from`: `Boot` takes the trace id, `Parse` is clap's
verdict (accepted, help, usage error), `InitLogging` resolves the filter from
the flag and two variables, `Start` logs the arguments, `RunCli` and its parts
are the subcommands by what they send, log and return, then the end event, the
document in two halves or the envelope in two halves, and the exit. `Interrupt`
(the ctrlc thread), `Panic` (the hook) and `ReaderLeaves` (a closed stdout) come
at any point where they can. stderr is assumed to be writable.

`Args` models an argument by its words, since `process.start` joins the
arguments with spaces and the redaction splits them again; that is what
`KeyIsHidden` is about. The key is a global option and may stand anywhere among
the other arguments, which are any words but those of a key.

## 3. Runs

| run | distinct states | bounds | what it shows |
|---|---|---|---|
| `verify_run` | 808,523 | 5 keys, 8 receipts, 16 openings, 5 endpoints, every tier, 1 replacement | the run implements `Verdict` about the bytes it loaded (`ImplementsVerdict`); a pass is bound (`PassIsBound`); the log agrees with the status (`PhaseLogTellsVerdict`); the provider is asked once, and only about the bound receipt (`AuditAskedForBoundReceipt`); it ends (`Terminates`) |
| `verify_challenge` | violation | no replacement | an opening for another challenge than the requested one is accepted |
| `verify_phase_log` | violation | no replacement | a phase with a reported failure is logged as passed |
| `broker_bundles` | 344,981 | 2 providers, 2 quotes, 2 chats, 4 instants, 1 restart; 2 prompts and policies with 2 exchanges of objects; 2 edits of any fields | `ChatHonoursQuote`, `HonestBundleVerdict`, `StoredQuoteIsSettled`, `PassIsOneChat`, `TamperFails` |
| `broker_policy` | violation | 2 quotes in one millisecond | the second quote's policy is in the first buyer's bundle |
| `broker_unbound` | violation | 1 edit | a bundle passes with another max_tokens, audit hash or expiry |
| `workspace_files` | 2,556,968 | 2 runs, 1 path, 2 checkpoint files of 2 versions, 2 blocks per file, 1 change of the checkpoint | `NoClobber`, `SuccessIsOnDisk`, `DecodeLiesBesideItsKey`, `ExpectedHashGuardsOutput` |
| `workspace_bound` | violation | same | the hash in a key's header is not that of its checkpoint |
| `cache_resume` | 967,556 | 2 processes, 2 files of 2 and 1 chunks, 2 faults, 1 move of the mirror | `ResumeIsExact`, `ChunksStayInPlace`, `Completes` |
| `delivery` | 1,298,772 | 13 artifacts of three kinds, 2 faults, a changed byte becomes 0, 2 or 200 | `DeliveredAsBound`, `Canonical`, `DamageIsRefused`, `ReceiptAsSent`, `DegradedGivesNothing` |
| `provider` | 470,846 | 2 signals, 2 threads, limit 2 in 5 half seconds, 4 requests, time up to 7 | `NoStrayChild`, `LastEventTellsStatus`, `FailureIsReported`, `SlidingWindow`, `HintIsEnough`, `ScriptEnds` |
| `frame` | 381,702 | every line of a grammar in one environment, with the key before, between and behind the other arguments; a plain line in every environment; 2 phase events | `EnvelopeTellsStatus`, `DocumentMeansSuccess`, `StatusIsLogged`, `OneTraceId`, `KeyIsHidden` |

Why the bounds are enough.

* Verifier: the artifacts hold at least one file for each outcome of each check
  and pairs that differ in one field only. The run reads each file once, so one
  replacement between two reads already gives every mixture of old and new.
  What the run shows for this set is proved for every set of artifacts, except
  for termination.
* Broker: a clash of ids needs two quotes, a recombination two chats, a repair
  of an edit a second edit, a reuse of an id across a restart one restart.
  `Lifetime` is 2, so that a quote can be used before, at and after its last
  instant. `max_tokens` takes the two ends of its range and the first value
  beyond it. The invariants are proved for all bounds.
  One run has three scenarios (`MCScenario`): the clock and a restart,
  exchanged objects, and edited fields. They are not mixed, because a chat does
  not read what circulates and a verdict depends on the clock through the expiry
  alone.
* Workspace: two runs give every overlap of two writers. The command lines
  (`Jobs`) are a forced and an unforced keygen for a given checkpoint, one that
  allows drift, one without an expected hash, and a chat, plus invalid ones.
  Two blocks are enough to stop between two writes. The invariants are proved
  for all bounds.
* Cache: a file of two chunks has the three lengths that matter (nothing, a part,
  all), and two versions of different length make a resumed file longer than, as
  long as or shorter than what the server has. The two safety properties are
  proved for all bounds.
* Delivery: the decoder has no loop that carries more than a position, and each
  kind of field occurs, empty and not, in some header; names of one byte make a
  cut or a change at every offset affordable. One name has 65,536 bytes, which
  is one more than its length prefix can hold. The opaque parts hold the bytes the multipart
  parser looks for, at the places where they could matter. Two faults combine a
  foreign encoder or a bad answer with damage to the file.
* Provider: two signals put the second one into the trap of the first. Two
  threads are the fewest that interleave, and four requests fill the limit of
  two, overlap and come again. `MCNext` makes long series of requests only in a
  provider that is up, because the script does not look at them.
* Frame: what a command does not look at keeps one value (`MCInvocation`). Two
  phase events are a start and an end; a longer walk is the business of
  `Verifier`.

Deadlock is checked in the broker's runs that pass; the clock stops at `MaxTime`
there, but requests are always possible. In the other components all processes
may have ended (the run, the script, the artifact's way), so their
configurations say `CHECK_DEADLOCK FALSE`.

Fairness. `Verifier` asks for `WF_vars(Program)`: the process is scheduled, and
`FetchFails` is part of `Program` because the blocking HTTP client the code
builds has a time-out of its own (30 s unless set otherwise), so a request ends
without the provider's help. Nothing is asked of the provider (`ProviderAnswers`)
or the user. `CheckpointCache` asks for weak fairness of each process on its own:
it is scheduled, it is started again after a failure, and a request that does
not fail is answered; the faults are finite in number (`MaxFaults`). That is
what "try again" means, and without it nothing could be promised. `Provider`
asks that the shell runs its next command and that a process which was sent a
TERM ends; nothing is asked of a process that was not told to stop, of the
threads or of the clock. That a process ends on TERM is what `entrypoint.sh`
relies on when it waits for it without a limit.

## 4. Where the code and its documents differ

* `verify_challenge`: the challenge that the opening is checked against is taken
  from the opening's own header, and the one that was sent to the provider is
  not looked at again. `check_audit_challenge` exists in vi-receipt and has no
  caller in the verifier.
* `verify_phase_log`: only the first reported failure counts, so an earlier
  phase can be logged as passed although the report has a failure of it.
* `broker_policy`: a quote id is the provider and the millisecond; two buyers
  can hold different quotes with one id, and chat uses the later one.
* `broker_unbound`: `verify` reads neither `request.max_tokens` nor the `audit`
  object, and compares the expiry with the clock only.
* `workspace_bound`: the checkpoint is read once for its hash and a second time
  for the key.

These five are runs. The passing runs show where other promises end; the
exceptions are written into the properties.

* Delivery. The parser ends a part at the first CR LF `--`, not at the first
  delimiter, so a receipt that holds these four bytes is not read out of a
  multipart answer. It is refused, never cut short (`DeliveredAsBound`).
* Frame. RFC-0015 has one trace id, generated when the process starts; the panic
  hook computes it again, so that without `VI_TRACE_ID` its envelope has a new
  one (`OneTraceId`). `process.end` with status 0 is logged before the document
  is printed, and a stdout nobody reads then makes the process exit with 70
  (`StatusIsLogged`). An interrupt can leave part of an envelope
  (`EnvelopeTellsStatus` is silent about status 130).
* Args. RFC-0015 takes the API key out of the logged arguments. The words of a
  key behind its first stay, and so does a key whose flag follows an argument
  ending in the word `--api-key`, which a prompt or a path may (`KeyIsHidden`).
  Prompts are part of the logged arguments at level info, although docs/spec/05
  does not want raw prompts by default; the default level, error, hides them.
* Workspace. `vi keygen` and `vi chat` name the path they have written in their
  output; for a path that is not UTF-8 `json_output` fails when the files are
  already whole, and the exit status is 70 (`SuccessIsOnDisk` covers both
  statuses). docs/spec/04 has 70 for a "Panic or programmer error".
* Entrypoint. A signal between the start of a child and the assignment of its id,
  and a command that fails under `set -e` (a failed readiness probe, a closed
  stderr), leave a child running (`NoStrayChild`). A signal during the very last
  event turns the status of a failed model server into 0 and logs a second
  shutdown (`LastEventTellsStatus`, `FailureIsReported`).
* RateLimit. Requests in progress together exceed the limit by at most one each,
  and at most one each ends without an answer (`SlidingWindow`). `retry_after`
  is cut off to whole seconds, so that waiting for exactly that long can be too
  short; one second more is enough (`HintIsEnough`).

In two places the documents differ from each other or from the code, and no
property depends on it.

* docs/spec/04-error-model.md:143 says that "every random single-byte flip must
  produce either `corrupt_envelope` or `verification_failed`". The same document
  gives `unknown_version` for the "envelope `ver` byte" (line 113), and so does
  RFC-0009's table of offsets (line 103); `DamageIsRefused` follows the table,
  as the code does.
* docs/spec/04-error-model.md:26 gives 64 for "`--help` requested or argument
  parsing top-level failure". The code prints help and exits with 0, and so does
  `Parse`; `EnvelopeTellsStatus` asks only that neither status comes with an
  envelope.

## 5. Proofs

All proofs hold for every value of the constants, under the assumptions named in
the modules: types of the artifacts and of the catalog, bounds that are natural
numbers, `NoFile` is no file, and five that say what the code tells apart. In
`Broker`, no bytes a buyer can make up are a provider's receipt (`NotAReceipt`),
and providers with the same verifier key have the same checkpoint
(`KeysNameCheckpoints`), as a key is generated from a checkpoint. In `Args`
(`ArgsConstants`), the word of a key is none of the other words. In `Delivery` (`BoundaryIsFresh`), the boundary a provider picks does
not occur in what it sends, and has no byte that is a line end, a dash or one
of the values damage gives a byte (`Damage`).

The provers cannot use an induction theorem, because it takes an operator.
Where a proof needs an induction over numbers it uses `Climb` of
`FrameProofs` and `DeliveryProofs`, which derives it for a set from the
well-founded order of the finite sets. What a recursive function computes is
reached the same way: a lemma picks the function with its equation, and `Climb`
carries a statement along its arguments.

**VerifierProofs.** The inductive invariant `Inv` says, for each value of `pc`,
which inputs are loaded (`LoadedInv`), which checks they have passed
(`CheckedInv`), what is decided and logged (`PcInv`), and that a result is the
verdict on the loaded inputs (`VerdictInv`). `PassIsBound` is not inductive: at
the step that sets the result it needs what every earlier check has established,
which only `CheckedInv` remembers. From `Invariance` follow `TypeCorrectness`,
`PassBinding`, `AuditRequestBinding`, and with the step simulation
`StepRefines` the refinement `Implementation == Spec => ImplementsVerdict`.

**BrokerProofs.** The key lemma is `SameIdSameTerms`: two quotes with one id
agree on everything but the decode policy, so whatever overwrote an entry of the
map, a chat under it has the terms the buyer holds. `ChatsHonourQuotes` is
inductive with the type invariant. For the reports, `ReportInv` says that a
report is the outcome of the checks on the bundle in it, and `SpliceInv` that
objects of unedited bundles come from bundles that were sent; `HonestBundles`
and `PassesAreOneChat` follow by going through the checks of `FailingField`.
`StoredQuotesSettle` is an action property; it needs that a new id carries
the present time.
For `TampersFail` the invariant counts: after `n` edits a bundle and its
original differ in `n` fields at most (`EditInv`), which an edit preserves
because it changes one field. `PassChecks` lists what a pass means for the
fields, and `TwoEdits` is then a statement about two bundles that
differ in two fields at most, one of which passes and the other of which was sent:
each bound field is compared with a field nobody can change along with it. The
way out that needs the most fields is another provider, whose entry in the
catalog has other hashes of the model and the key; naming it and both hashes of
its key takes three edits.

**PhaseLogTellsVerdict.** `LogInv`, on top of `Inv`, says that the walk
alternates starts and ends, that while it goes on every end is a pass and the
phase of the error is still ahead, and that once it is over all seven phases
passed or the last end is the failure. `BeforeWalkStep` shows that the sixteen
actions before the walk touch none of it.

**WorkspaceProofs.** `NoClobber` and `SuccessIsOnDisk` speak of finished files;
inductive is who is writing: a run at "write" is the last that opened its file,
unless the file is counted as shared, and what it has written is on disk up to
`written` (`OpenerInv`, `WriterInv`); a file nobody may force is opened once
(`UnforcedInv`). `HashInv` carries the hash from its check to the first file
that is opened. A step leaves the files alone, opens one or writes a block
(`LeavesFiles`, `OpensFile`, `WritesBlock`), so each part has three cases and
not one per action.

**CheckpointCacheProofs.** As long as processes take turns, the one at work knows
the length of its file, and what is left of its response continues the file in
some version of it; in the published one while the mirror stays (`KnowInv`,
`InPlace`, `ExactInv`). The lemma `Turn` reduces each of them to the process
whose turn it is. `ResumeIsExact` alone is not inductive: nothing in it says
that the response in transit fits what is on disk.

**ProviderProofs.** `ChildInv` says for each command which child may be alive
with which id noted, `ReasonInv` and `LogInv` what the script has decided and
logged, `Flags` what the traps change. `NoStrayChild`, `FailureIsReported` and
`LastEventTellsStatus` follow for any number of signals. The lemmas about the
ways a command is left cut the seventeen commands down to what they do
themselves.

**LimiterProofs.** `SlidingWindow` counts the requests that were admitted, the
code the ones in its deque. The two can part in two ways: an entry is taken off
before its time, by a thread that looked at an older head; and requests that
have counted the deque still have to append to it. `WindowInv` says, for
every time at once, that the requests that overlapped pay for both (`Regular`),
until the window has ended and only requests that began in it can still enter
it (`Closed`). It needs all times at once because a step of the clock turns one
window into the next, and it distinguishes whether old entries block the head
(`Stale`) because only then can a pop miss its entry. `BrokenInv` bounds the requests
that end in an IndexError in the same way. Numbers of entries are
cardinalities of sets of positions, so that a pop is one element less
and an append one more. `Sequential` keeps, as long as nothing overlapped, the
deque sorted and the refusal in step with its head; `HintIsEnough` follows with
the arithmetic of the half second that `int()` cuts off. `WindowsSlide` and
`HintsSuffice` in `ProviderProofs` carry both into the container, whose health
process may end with its deque (`ServedInv`).

**FrameProofs.** `ResultInv` says which result each place of the process allows,
`EnvelopeInv`, `DocumentInv`, `LogInv` and `TraceInv` what has reached the
streams there. All subcommands are summarised by `RunStep`, because they differ
in what they return and not in anything the frame promises.

`KeysAreHidden` follows a command line into the log. `Flattened` and
`RedactNextIs` say that the recursive functions behind the joined words and
behind the flag of the redaction satisfy their equations at every position, for
arguments of any length. `Behind` says that arguments which are put behind words
leave those as they are, and `SameWords` that those in front of the key give the
same words with and without what follows. With them `KeyAmongOthers` locates a
key of one word, wherever it stands on the line, directly behind the only
`--api-key` that counts, and `ValueIsHidden` says that it is replaced there;
`LoggedArgs` names the two lines that escape. `ValueInv` keeps that for the entries of the log.

**DeliveryProofs.** The codec and the parser are pure functions, so most of the
module is about them, for files and answers of any length, byte by byte; the
invariant `IInv` only carries the results along the way of an artifact
(`PathInv`, `FaultInv`, `ReadInv`). `WayInv` adds what is left of a file that
vi-receipt encoded (`LeftOf`: the file, a front piece of it, or the file with one other
byte), and `EndInv` why a run to which nothing happened ended before the reader.

For `CanonicalHolds` nothing is known about the file. `Numbers16`, `Numbers32`
and `FieldBytes` say that a number or a field that was read is written with the
bytes it was read from. `BodyReads` goes along the fields with the offset of the
reader: what is in front of it is the encoding of what has been read. With the
check that nothing is left over, `FileIs` follows: an accepted file is the
encoding of what was accepted.

For `ReceiptIsAsSent` something is known about the answer, but only in part: it
lost its end anywhere, or any of its bytes was changed. `Placed` says where
the receipt stands in a whole body, `Carries` what is left of that once the body is
damaged, and `StillCarried` that a damage leaves this much. `ReceiptOf`
shows that whatever the parser then takes for a receipt has the bytes of
the one that was sent, except for one at most: the header line of the receipt is
at one place only (`MarkedAt`); the part ends where the first CR LF `--` is
followed by the boundary; and the boundary does not occur in the receipt, so that
this cannot be inside it (`DelimiterFound`). `GoodBodies`, `PoorBodies` and
`BrokenCarries` apply it to the answers a provider can give.

For `DamageRefused` the file is known but for one byte or its end. `Layout`
says where each part of an encoded file stands, and `StillWhole` what of this
holds as long as the first bytes are the encoder's. `CutRead` and `FlipRead` then go
through the parts: the magic, the version and the flags, the length, the checksum,
the header, the opaque rest. Two of them need arithmetic. A changed length moves the end
of what is summed up, and the header no longer fills it exactly. A changed byte of the
header changes the remainder, because 256 is invertible modulo the prime and the
difference of two bytes is no multiple of it (`ChecksumDiffers`). That is a statement
about the model's remainder; CRC-32C has the same one for a single byte, as it
detects every burst of at most 32 bits.

For `DeliveredIsAsBound` the parser is followed through a whole answer. `PartTurned`
says where the lines and the delimiter of a part stand, and `PartRead` and `PartLost`
that the part is read whole, or not at all when its body holds CR LF `--`. `TwoTurned`
and `FourTurned` chain this along the three layouts of an answer, `GoodParsed` and
`GoodChat` say what `vi chat` makes of it, and `LaidOutRead` what the decoder makes of
a file nothing happened to.

Only model-checked:

* The liveness properties `Terminates`, `Completes` and `ScriptEnds`, since
  liveness under fairness and ENABLED are out of the prover's reach.

## 6. What is not modelled

* Cryptography: SHA-256 is injective, the verdict of the vendored verifier on a
  payload is an input.
* The parsing of JSON documents and header lines, URLs, the parsing clap does,
  the layout of JSON and coloured output, the texts of messages and remedies;
  the redaction of log fields that no command logs.
* Of the broker: price, signature, the credential filter, `providerAudit`,
  `listProviders`, HTTP routing, and requests or receipts that are not objects.
  No quote is ever removed from the map; the model's bound on their number is
  not in the code.
* Of the provider: the checks of the environment at the head of `entrypoint.sh`,
  the JSON answers and body limits of `healthz.py`, the model server itself. The
  limiter is modelled for one address and one bucket; others share nothing with
  it.
* Durability: a machine that stops keeps the writes made so far, in order.
* Two downloads into one directory at the same time: only `Completes` is
  claimed of them. The code has no lock, and their files can be wrong, which the
  expected hash of `vi keygen` is there to reject.
* The demo page, whose bundles are simulated in the browser; its race between
  two runs is among the hazards without a property.
* The WASM verifier: a pure function of a bundle and a key, the checks of which
  are those of `Verifier`, followed by the vendored verification.
* Vendored code, schemas, fixtures, scripts, CI and documents.

## 7. Plan

Done: every component that keeps state or parses an artifact, the composition of
codec and client and that of script and server, and the proofs of the safety
properties named in section 5. What is left, in this order:

1. A composition of `Workspace` and `Verifier`, in which `vi keygen` and
   `vi chat` produce the very files `vi verify` reads, so that `ReplaceFile` is
   the action of a modelled process and a half-written file can be read.
2. `providerAudit` and the credential filter of the broker.
3. The WASM verifier against the broker's `verify` on the fields both check.
