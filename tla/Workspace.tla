------------------------------ MODULE Workspace ------------------------------
(***************************************************************************)
(* The commands that write files, run side by side in one directory:       *)
(* `vi keygen` (keygen_with_options of vi-keygen) and `vi chat` (run_chat  *)
(* of vi-cli).  The kernel orders their system calls, so every read, open  *)
(* and write is a step; a run can be killed between any two of them, and   *)
(* the checkpoint a key is generated from can change meanwhile.            *)
(***************************************************************************)
EXTENDS Integers, Sequences

CONSTANTS
    Run,          \* the runs of `vi`
    Job,          \* the command lines they may have
    Name,         \* the --output and --receipt-out paths
    Shards,       \* how many files the canonical checkpoint hash covers
    Version,      \* the versions of such a file
    Missing,      \* a checkpoint file that is not there
    Any,          \* no --expected-checkpoint-hash
    Absent,       \* an output file that is not there
    Old, Hole,    \* what was there before every run; bytes nobody wrote
    Blocks,       \* how many write calls it takes to write a file
    MaxEdits      \* bound: changes of the checkpoint

\* A block of a file: who wrote it, and which of its blocks it is.
Block == (Run \cup {Old, Hole}) \X (1..(Blocks + 1))

\* A `vi chat` cannot be forced.
ASSUME WorkspaceConstants ==
    /\ Job \subseteq [command : {"keygen", "chat"}, output : Name, valid : BOOLEAN,
                      force : BOOLEAN, expected : Version \cup {Any}, drift : BOOLEAN]
    /\ \A j \in Job : j.command = "chat" => ~j.force
    /\ Shards \in Nat \ {0} /\ Blocks \in Nat \ {0} /\ MaxEdits \in Nat
    /\ Missing \notin Version /\ Any \notin Version
    /\ Old \notin Run /\ Hole \notin Run \cup {Old}
    /\ Absent \notin Seq(Block)

VARIABLES
    job,                     \* the command line of each run
    disk,                    \* the output files
    checkpoint, edits,       \* the version of each checkpoint file
    pc, exit,                \* the next call of each run, and how it ended
    hashed, generated,       \* the versions it hashed, and made the key from
    decoding,                \* whether the upstream returned a decode artifact
    written,                 \* how many blocks of the open file it has written
    opened,                  \* history: who opened each file, in order
    shared                   \* history: files opened while a run was writing them

progress == <<hashed, generated, decoding>>
files == <<disk, opened, shared>>
vars == <<job, files, checkpoint, edits, pc, exit, progress, written>>

\* An output and the decode artifact next to it.
File == Name \X {"artifact", "decode"}

\* decode_artifact_path
Decode(r) == <<job[r].output, "decode">>
Artifact(r) == <<job[r].output, "artifact">>

\* The blocks a run writes to a file; those it finds there are one more.
Content(r) == [k \in 1..Blocks |-> <<r, k>>]
OldContent == [k \in 1..(Blocks + 1) |-> <<Old, k>>]

Exists(f) == disk[f] # Absent

Init ==
    /\ job \in [Run -> Job]
    /\ disk \in [File -> {Absent, OldContent}]
    /\ checkpoint \in [1..Shards -> Version \cup {Missing}]
    /\ edits = 0
    /\ pc = [r \in Run |-> "start"]
    /\ exit = [r \in Run |-> "running"]
    /\ hashed = [r \in Run |-> <<>>]
    /\ generated = [r \in Run |-> <<>>]
    /\ decoding = [r \in Run |-> FALSE]
    /\ written = [r \in Run |-> 0]
    /\ opened = [f \in File |-> IF Exists(f) THEN <<Old>> ELSE <<>>]
    /\ shared = {}

GoTo(r, next) == pc' = [pc EXCEPT ![r] = next] /\ UNCHANGED exit

\* A ViError, or "ok", ends the run.
Finish(r, outcome) ==
    /\ pc' = [pc EXCEPT ![r] = "done"]
    /\ exit' = [exit EXCEPT ![r] = outcome]

\* The checks before a run touches anything.
Check(r, at, outcome, next) ==
    /\ pc[r] = at
    /\ IF outcome = "ok" THEN GoTo(r, next) ELSE Finish(r, outcome)
    /\ UNCHANGED <<job, files, checkpoint, edits, progress, written>>

\* refuse_overwrite
Refused(r, f) == ~job[r].force /\ Exists(f)

-----------------------------------------------------------------------------
\* keygen_with_options, up to its first write.

\* validate_keygen_options and refuse_overwrite
StartKeygen(r) ==
    /\ job[r].command = "keygen"
    /\ Check(r, "start",
             IF ~job[r].valid \/ Refused(r, Artifact(r)) THEN "input" ELSE "ok",
             "find_files")

\* canonical_checkpoint_files
FindFiles(r) ==
    Check(r, "find_files",
          IF \E i \in 1..Shards : checkpoint[i] = Missing THEN "input" ELSE "ok",
          "hash")

\* The loop of canonical_checkpoint_hash, one file per step.
HashFile(r) ==
    LET i == Len(hashed[r]) + 1 IN
    /\ pc[r] = "hash"
    /\ IF checkpoint[i] = Missing
       THEN Finish(r, "input") /\ UNCHANGED hashed
       ELSE /\ hashed' = [hashed EXCEPT ![r] = Append(@, checkpoint[i])]
            /\ GoTo(r, IF i = Shards THEN "expected" ELSE "hash")
    /\ UNCHANGED <<job, files, checkpoint, edits, generated, decoding, written>>

\* The hash of a checkpoint whose files all have version v.
HashOf(v) == [i \in 1..Shards |-> v]

\* Mutant: only the first file is compared.
ExpectedFirstFile(r) == job[r].expected = Any \/ hashed[r][1] = job[r].expected

Expected(r) == job[r].expected = Any \/ hashed[r] = HashOf(job[r].expected)

\* check_expected_checkpoint_hash: a drift that is allowed is a warning.
CheckExpected(r) ==
    Check(r, "expected",
          IF Expected(r) \/ job[r].drift THEN "ok" ELSE "hash_mismatch",
          "generate")

\* commitllm_keygen::generate_key reads the checkpoint a second time and may
\* refuse it.  Some checkpoints yield a decode artifact.
Generate(r) ==
    LET i == Len(generated[r]) + 1 IN
    /\ pc[r] = "generate"
    /\ \/ Finish(r, "input") /\ UNCHANGED <<generated, decoding>>
       \/ /\ checkpoint[i] # Missing
          /\ generated' = [generated EXCEPT ![r] = Append(@, checkpoint[i])]
          /\ IF i < Shards
             THEN GoTo(r, "generate") /\ UNCHANGED decoding
             ELSE /\ GoTo(r, "refuse_decode")
                  /\ \E d \in BOOLEAN : decoding' = [decoding EXCEPT ![r] = d]
    /\ UNCHANGED <<job, files, checkpoint, edits, hashed, written>>

RefuseDecode(r) ==
    Check(r, "refuse_decode",
          IF decoding[r] /\ Refused(r, Decode(r)) THEN "input" ELSE "ok",
          "open")

-----------------------------------------------------------------------------
\* run_chat, up to its first write.

\* The arguments and ChatClient::new.
StartChat(r) ==
    /\ job[r].command = "chat"
    /\ Check(r, "start", IF job[r].valid THEN "ok" ELSE "input", "post")

\* post_chat_completions and parse_chat_response: the provider answers with a
\* receipt, without one, with something malformed, or fails.
PostChat(r) ==
    \E outcome \in {"ok", "network", "receipt_missing", "corrupt_envelope"} :
        Check(r, "post", outcome, "open")

-----------------------------------------------------------------------------
\* write_output_file and write_binary_output.

Target(r) == IF pc[r] \in {"open_decode", "write_decode"} THEN Decode(r) ELSE Artifact(r)

Writing(r) == pc[r] \in {"write", "write_decode"}

\* Mutant: only refuse_overwrite stands between a run and an existing file.
OpensAny(r, f) == TRUE

\* create_new fails on an existing file, create and truncate do not.
Opens(r, f) == job[r].force \/ ~Exists(f)

\* Mutant: create without truncate.
EmptiedKeeps(f) == IF Exists(f) THEN disk[f] ELSE <<>>

\* What a file holds once it is open.
Emptied(f) == <<>>

Open(r) ==
    LET f == Target(r) IN
    /\ pc[r] \in {"open", "open_decode"}
    /\ \/ Finish(r, "input") /\ UNCHANGED <<files, written>>
       \/ /\ Opens(r, f)
          /\ disk' = [disk EXCEPT ![f] = Emptied(f)]
          /\ opened' = [opened EXCEPT ![f] = Append(@, r)]
          /\ shared' = IF \E q \in Run : Writing(q) /\ Target(q) = f
                       THEN shared \cup {f} ELSE shared
          /\ written' = [written EXCEPT ![r] = 0]
          /\ GoTo(r, IF pc[r] = "open" THEN "write" ELSE "write_decode")
    /\ UNCHANGED <<job, checkpoint, edits, progress>>

\* A write at an offset: what lies between the end of the file and it is a hole.
WriteAt(content, at, block) ==
    [k \in 1..(IF Len(content) < at THEN at ELSE Len(content)) |->
        IF k = at THEN block
        ELSE IF k <= Len(content) THEN content[k]
        ELSE <<Hole, k>>]

\* Mutant: write in the place of write_all.
OneWrite(k) == TRUE

\* Mutant: one write too many.
OneTooMany(k) == k > Blocks

\* write_all goes on until all is written.
AllWritten(k) == k = Blocks

\* The key comes first.
NextFile(r) == IF pc[r] = "write" /\ decoding[r] THEN "open_decode" ELSE "report"

\* One write call of write_all.
Write(r) ==
    LET f == Target(r)  k == written[r] + 1 IN
    /\ Writing(r)
    /\ \/ Finish(r, "input") /\ UNCHANGED <<disk, written>>
       \/ /\ disk' = [disk EXCEPT ![f] = WriteAt(@, k, <<r, k>>)]
          /\ written' = [written EXCEPT ![r] = k]
          /\ IF AllWritten(k) THEN GoTo(r, NextFile(r)) ELSE GoTo(r, pc[r])
    /\ UNCHANGED <<job, opened, shared, checkpoint, edits, progress>>

\* How a run ends that has written everything: json_output fails when the path
\* in the report is not UTF-8, and the status is that of an internal error.
Reported == {"ok", "internal"}

\* The report on stdout and exit status 0, unless the report cannot be made.
Report(r) ==
    /\ pc[r] = "report"
    /\ \E outcome \in Reported : Finish(r, outcome)
    /\ UNCHANGED <<job, files, checkpoint, edits, progress, written>>

-----------------------------------------------------------------------------
\* The surroundings of the runs.

\* SIGINT, or the machine stops.
Kill(r) ==
    /\ pc[r] # "done"
    /\ Finish(r, "killed")
    /\ UNCHANGED <<job, files, checkpoint, edits, progress, written>>

\* A download or an editor changes the checkpoint.
EditCheckpoint ==
    /\ edits < MaxEdits
    /\ edits' = edits + 1
    /\ \E i \in 1..Shards, v \in Version \cup {Missing} :
          checkpoint' = [checkpoint EXCEPT ![i] = v]
    /\ UNCHANGED <<job, files, pc, exit, progress, written>>

Keygen(r) ==
    \/ StartKeygen(r) \/ FindFiles(r) \/ HashFile(r) \/ CheckExpected(r)
    \/ Generate(r) \/ RefuseDecode(r)

Chat(r) == StartChat(r) \/ PostChat(r)

Next ==
    \/ \E r \in Run : Keygen(r) \/ Chat(r) \/ Open(r) \/ Write(r) \/ Report(r) \/ Kill(r)
    \/ EditCheckpoint

Spec == Init /\ [][Next]_vars

-----------------------------------------------------------------------------
\* Properties.

\* Every variable holds a value the runs can give it.
TypeOK ==
    /\ job \in [Run -> Job]
    /\ \A f \in File :
          Exists(f) => /\ disk[f] \in Seq(Block)
                       /\ Len(disk[f]) <= Blocks + 1
    /\ checkpoint \in [1..Shards -> Version \cup {Missing}]
    /\ edits \in 0..MaxEdits
    /\ pc \in [Run -> {"start", "find_files", "hash", "expected", "generate",
                       "refuse_decode", "post", "open", "write", "open_decode",
                       "write_decode", "report", "done"}]
    /\ exit \in [Run -> {"running", "ok", "input", "hash_mismatch", "network",
                         "receipt_missing", "corrupt_envelope", "internal", "killed"}]
    /\ \A r \in Run : /\ hashed[r] \in Seq(Version) /\ Len(hashed[r]) <= Shards
                      /\ generated[r] \in Seq(Version) /\ Len(generated[r]) <= Shards
    /\ decoding \in [Run -> BOOLEAN]
    /\ written \in [Run -> 0..Blocks]
    /\ opened \in [File -> Seq(Run \cup {Old})]
    /\ \A f \in File : Exists(f) <=> opened[f] # <<>>
    /\ shared \subseteq File

\* No run that may write to a file is forced.
Unforced(f) == \A r \in Run : job[r].output = f[1] => ~job[r].force

First(f) == opened[f][1]
Last(f) == opened[f][Len(opened[f])]

\* As long as nobody passes --force, a file that exists is never touched by a
\* second run, however the runs overlap: it holds what it held before them, or
\* the first bytes of one of them.  (refuse_overwrite looks long before the
\* file is opened; RFC-0004: "Refuse to overwrite without --force")
NoClobber ==
    \A f \in File :
        Exists(f) /\ Unforced(f) =>
            IF First(f) = Old THEN disk[f] = OldContent
            ELSE disk[f] = SubSeq(Content(First(f)), 1, Len(disk[f]))

Outputs(r) == {Artifact(r)} \cup IF decoding[r] THEN {Decode(r)} ELSE {}

\* A run that reports success has written its files completely: what it wrote
\* is there until somebody opens the file again, unless two runs wrote it at
\* once; and without --force nobody does.  So has a run that exits with the
\* status of an internal error, which has written them before json_output
\* fails: its files are whole in spite of the status.
SuccessIsOnDisk ==
    \A r \in Run : exit[r] \in Reported =>
        \A f \in Outputs(r) :
            /\ Last(f) = r /\ f \notin shared => disk[f] = Content(r)
            /\ Unforced(f) => Last(f) = r /\ f \notin shared

\* Without --force, a decode artifact a run has begun lies next to the complete
\* key of that very run: a kill or a failed write can leave a key without its
\* artifact, never the reverse.  (the order of the two write_output_file calls)
DecodeLiesBesideItsKey ==
    \A n \in Name :
        LET decode == <<n, "decode">>  key == <<n, "artifact">> IN
        Unforced(decode) /\ Exists(decode) /\ First(decode) # Old =>
            First(key) = First(decode) /\ disk[key] = Content(First(key))

\* A run that was given an expected checkpoint hash and no leave to drift opens
\* no file unless every checkpoint file it hashed was of that version, even
\* when the files changed between the reads.  (check_expected_checkpoint_hash)
ExpectedHashGuardsOutput ==
    \A f \in File : \A i \in DOMAIN opened[f] :
        LET r == opened[f][i] IN
        r \in Run /\ job[r].command = "keygen" /\ job[r].expected # Any /\ ~job[r].drift =>
            hashed[r] = HashOf(job[r].expected)

-----------------------------------------------------------------------------
\* A statement of the documentation that the code does not keep.

\* RFC-0004: the envelope binds "the resulting CommitLLM key to (model_id,
\* checkpoint_hash, commitllm_pin, seed)"; the hash in the header of a key that
\* was reported is that of the checkpoint the key was generated from.
KeyIsBoundToItsCheckpoint ==
    \A r \in Run :
        job[r].command = "keygen" /\ exit[r] = "ok" => generated[r] = hashed[r]
=============================================================================
