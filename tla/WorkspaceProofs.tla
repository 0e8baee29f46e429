--------------------------- MODULE WorkspaceProofs ---------------------------
(***************************************************************************)
(* Proofs about Workspace.tla: for any number of runs over any number of   *)
(* paths, checkpoint files and blocks, type correctness and what the runs  *)
(* leave on the disk.                                                      *)
(*                                                                         *)
(* The argument rests on two facts about who writes a file.  A run that is *)
(* writing a file is the last that opened it, unless the file is counted   *)
(* as shared; and a file nobody may force is opened once.                  *)
(***************************************************************************)
EXTENDS Workspace, SequenceTheorems, TLAPS

\* The calls of a run before it opens a file.
Early == {"start", "find_files", "hash", "expected", "generate", "refuse_decode", "post"}

\* The first k blocks of what a run writes.
Begin(r, k) == [j \in 1..k |-> <<r, j>>]

Opened(f, r) == \E i \in DOMAIN opened[f] : opened[f][i] = r

\* The file a run is writing, and those it has written to their end.
Current(r) == IF Writing(r) THEN {Target(r)} ELSE {}

Complete(r) ==
    IF pc[r] \in {"open_decode", "write_decode"} THEN {Artifact(r)}
    ELSE IF pc[r] = "report" \/ exit[r] \in Reported THEN Outputs(r)
    ELSE {}

\* TypeOK, and how far each loop of a run has got.
RunsTyped ==
    /\ job \in [Run -> Job]
    /\ checkpoint \in [1..Shards -> Version \cup {Missing}]
    /\ edits \in 0..MaxEdits
    /\ pc \in [Run -> Early \cup {"open", "write", "open_decode", "write_decode", "report", "done"}]
    /\ exit \in [Run -> {"running", "ok", "input", "hash_mismatch", "network",
                         "receipt_missing", "corrupt_envelope", "internal", "killed"}]
    /\ \A r \in Run : exit[r] = "running" <=> pc[r] # "done"
    /\ hashed \in [Run -> Seq(Version)] /\ generated \in [Run -> Seq(Version)]
    /\ \A r \in Run :
          /\ Len(hashed[r]) <= Shards
          /\ pc[r] \in {"start", "find_files", "hash"} => Len(hashed[r]) < Shards
          /\ Len(generated[r]) <= Shards
          /\ pc[r] \in {"start", "find_files", "hash", "expected", "generate"} =>
                Len(generated[r]) < Shards

DecodingTyped == decoding \in [Run -> BOOLEAN]

FilesTyped ==
    /\ disk \in [File -> Seq(Block) \cup {Absent}]
    /\ \A f \in File : Exists(f) => Len(disk[f]) <= Blocks + 1
    /\ written \in [Run -> 0..Blocks]
    /\ \A r \in Run : Writing(r) => written[r] < Blocks
    /\ opened \in [File -> Seq(Run \cup {Old})]
    /\ \A f \in File : Exists(f) <=> opened[f] # <<>>
    /\ shared \subseteq File /\ \A f \in shared : Exists(f)

Typed == RunsTyped /\ DecodingTyped /\ FilesTyped

\* Who opened a file has come that far.
OpenerInv ==
    \A f \in File, r \in Run : Opened(f, r) =>
        \/ /\ f = Artifact(r)
           /\ pc[r] \in {"write", "open_decode", "write_decode", "report", "done"}
        \/ f = Decode(r) /\ pc[r] \in {"write_decode", "report", "done"}

\* A run has opened what it writes or wrote; what it writes is on the disk, up
\* to where it is, unless the file is shared.
WriterInv ==
    \A r \in Run :
        /\ \A f \in Current(r) \cup Complete(r) : Opened(f, r)
        /\ \A f \in Current(r) \ shared : Last(f) = r /\ disk[f] = Begin(r, written[r])
        /\ \A f \in Complete(r) \ shared : Last(f) = r => disk[f] = Content(r)

\* A file that nobody may force is opened once.
UnforcedInv ==
    \A f \in File : Exists(f) /\ Unforced(f) =>
        /\ Len(opened[f]) = 1 /\ f \notin shared
        /\ First(f) = Old => disk[f] = OldContent
        /\ First(f) # Old => \E k \in 0..Blocks : disk[f] = Begin(First(f), k)

\* Once the hash is compared it is the expected one, and nothing hashes again.
HashInv ==
    \A r \in Run :
        /\ pc[r] = "post" => job[r].command = "chat"
        /\ job[r].command = "keygen" /\ job[r].expected # Any /\ ~job[r].drift =>
              \/ hashed[r] = HashOf(job[r].expected)
              \/ /\ pc[r] \in {"start", "find_files", "hash", "expected", "done"}
                 /\ \A f \in File : ~Opened(f, r)

FileInv == OpenerInv /\ WriterInv /\ UnforcedInv /\ DecodeLiesBesideItsKey

Inv == Typed /\ FileInv /\ HashInv


-----------------------------------------------------------------------------
\* Facts about files and sequences.

LEMMA FilesOf ==
    ASSUME RunsTyped, NEW r \in Run
    PROVE  /\ job[r] \in Job /\ job[r].output \in Name
           /\ Artifact(r) \in File /\ Decode(r) \in File /\ Target(r) \in File
           /\ Artifact(r) # Decode(r)
           /\ Artifact(r)[1] = job[r].output /\ Decode(r)[1] = job[r].output
           /\ Target(r)[1] = job[r].output
  BY WorkspaceConstants DEF RunsTyped, Artifact, Decode, Target, File

LEMMA Begins ==
    ASSUME NEW r
    PROVE  /\ Begin(r, 0) = <<>> /\ Begin(r, Blocks) = Content(r)
           /\ \A k \in 0..Blocks : Begin(r, k) = SubSeq(Content(r), 1, k) /\ Len(Begin(r, k)) = k
           /\ \A k \in 1..Blocks : WriteAt(Begin(r, k - 1), k, <<r, k>>) = Begin(r, k)
<1> USE WorkspaceConstants
<1>1. \A k \in 0..Blocks :
         /\ Begin(r, k) \in Seq({<<r, j>> : j \in 1..Blocks}) /\ Len(Begin(r, k)) = k
         /\ \A j \in 1..k : Begin(r, k)[j] = <<r, j>>
  BY DEF Begin
<1>2. Begin(r, Blocks) = Content(r)
  BY DEF Begin, Content
<1>3. ASSUME NEW k \in 0..Blocks PROVE Begin(r, k) = SubSeq(Content(r), 1, k)
  <2>1. /\ Content(r) \in Seq({<<r, j>> : j \in 1..Blocks}) /\ Len(Content(r)) = Blocks
        /\ \A j \in 1..Blocks : Content(r)[j] = <<r, j>>
    BY DEF Content
  <2>2. /\ SubSeq(Content(r), 1, k) \in Seq({<<r, j>> : j \in 1..Blocks})
        /\ Len(SubSeq(Content(r), 1, k)) = k
        /\ \A j \in 1..k : SubSeq(Content(r), 1, k)[j] = <<r, j>>
    BY <2>1
  <2>3. QED
    BY <1>1, <2>2, SeqEqual
<1>4. ASSUME NEW k \in 1..Blocks PROVE WriteAt(Begin(r, k - 1), k, <<r, k>>) = Begin(r, k)
  <2>1. k - 1 \in 0..Blocks
    OBVIOUS
  <2>2. Len(Begin(r, k - 1)) = k - 1 /\ \A j \in 1..(k - 1) : Begin(r, k - 1)[j] = <<r, j>>
    BY <2>1, <1>1
  <2> DEFINE put == [j \in 1..k |-> IF j = k THEN <<r, k>>
                                    ELSE IF j <= k - 1 THEN Begin(r, k - 1)[j] ELSE <<Hole, j>>]
  <2>3. WriteAt(Begin(r, k - 1), k, <<r, k>>) = put
    BY <2>2 DEF WriteAt
  <2>4. \A j \in 1..k : put[j] = <<r, j>>
    BY <2>2
  <2>5. put = [j \in 1..k |-> <<r, j>>]
    BY <2>4
  <2>6. QED
    BY <2>3, <2>5 DEF Begin
<1>5. Begin(r, 0) = <<>>
  BY DEF Begin
<1>6. QED
  BY <1>1, <1>2, <1>3, <1>4, <1>5

LEMMA SeqOf ==
    ASSUME NEW S, NEW n \in Nat, NEW w \in [1..n -> S]
    PROVE  w \in Seq(S) /\ Len(w) = n
  OBVIOUS

\* A file that is written to stays a file of Blocks + 1 blocks at most.
LEMMA WriteAtType ==
    ASSUME NEW s \in Seq(Block), Len(s) <= Blocks + 1,
           NEW r \in Run, NEW k \in 1..Blocks
    PROVE  /\ WriteAt(s, k, <<r, k>>) \in Seq(Block)
           /\ Len(WriteAt(s, k, <<r, k>>)) <= Blocks + 1
<1> DEFINE n == IF Len(s) < k THEN k ELSE Len(s)
           w == [j \in 1..n |-> IF j = k THEN <<r, k>>
                                ELSE IF j <= Len(s) THEN s[j] ELSE <<Hole, j>>]
<1>1. n \in Nat /\ n <= Blocks + 1 /\ n \in 1..(Blocks + 1)
  BY WorkspaceConstants
<1>2. \A j \in 1..n : <<Hole, j>> \in Block /\ <<r, k>> \in Block
  BY <1>1, WorkspaceConstants DEF Block
<1>3. \A j \in 1..n : w[j] \in Block
  BY <1>1, <1>2
<1>4. w \in [1..n -> Block]
  BY <1>3
<1>5. w \in Seq(Block) /\ Len(w) = n
  BY <1>1, <1>4, SeqOf
<1>6. WriteAt(s, k, <<r, k>>) = w
  BY DEF WriteAt
<1>7. QED
  BY <1>1, <1>5, <1>6

-----------------------------------------------------------------------------
\* The steps, and what they do to the files.

\* A step of r that leaves the files alone.
LeavesFiles(r) ==
    /\ UNCHANGED <<job, disk, opened, shared, written>>
    /\ \A q \in Run \ {r} : pc'[q] = pc[q] /\ exit'[q] = exit[q] /\ decoding'[q] = decoding[q]
    /\ \/ pc'[r] = "done" /\ exit'[r] \notin Reported \cup {"running"} /\ decoding'[r] = decoding[r]
       \/ pc[r] \in Early /\ pc'[r] \in Early \cup {"open"} /\ exit'[r] = exit[r]
       \/ /\ pc[r] = "report" /\ pc'[r] = "done" /\ exit'[r] \in Reported
          /\ decoding'[r] = decoding[r]

\* r opens f, and r writes block k of f.
OpensFile(r, f) ==
    /\ f = Target(r)
    /\ \/ pc[r] = "open" /\ pc' = [pc EXCEPT ![r] = "write"]
       \/ pc[r] = "open_decode" /\ pc' = [pc EXCEPT ![r] = "write_decode"]
    /\ job[r].force \/ ~Exists(f)
    /\ disk' = [disk EXCEPT ![f] = <<>>]
    /\ opened' = [opened EXCEPT ![f] = Append(@, r)]
    /\ shared' = IF \E q \in Run : Writing(q) /\ Target(q) = f THEN shared \cup {f} ELSE shared
    /\ written' = [written EXCEPT ![r] = 0]
    /\ UNCHANGED <<job, exit, decoding>>

WritesBlock(r, f, k) ==
    /\ f = Target(r) /\ Writing(r) /\ k = written[r] + 1
    /\ disk' = [disk EXCEPT ![f] = WriteAt(@, k, <<r, k>>)]
    /\ written' = [written EXCEPT ![r] = k]
    /\ pc' = [pc EXCEPT ![r] = IF k < Blocks THEN pc[r]
                               ELSE IF pc[r] = "write" /\ decoding[r] THEN "open_decode"
                               ELSE "report"]
    /\ UNCHANGED <<job, exit, opened, shared, decoding>>

LEMMA CheckStep ==
    ASSUME RunsTyped, DecodingTyped, NEW r \in Run, NEW at \in Early, NEW outcome, NEW next,
           outcome \in {"ok", "input", "hash_mismatch", "network", "receipt_missing",
                        "corrupt_envelope"},
           next \in Early \cup {"open"},
           next \in {"start", "find_files", "hash"} => at \in {"start", "find_files", "hash"},
           next \in {"expected", "generate"} =>
              at \in {"start", "find_files", "hash", "expected", "generate"},
           Check(r, at, outcome, next)
    PROVE  RunsTyped' /\ DecodingTyped' /\ LeavesFiles(r)
<1> USE DEF Check, progress, files
<1>1. CASE outcome = "ok"
  <2>1. RunsTyped'
    BY <1>1, ZenonT(30) DEF RunsTyped, GoTo, Early
  <2>2. DecodingTyped' /\ LeavesFiles(r)
    BY <1>1 DEF RunsTyped, DecodingTyped, LeavesFiles, GoTo
  <2>3. QED
    BY <2>1, <2>2
<1>2. CASE outcome # "ok"
  <2>1. RunsTyped'
    BY <1>2, ZenonT(30) DEF RunsTyped, Finish
  <2>2. DecodingTyped' /\ LeavesFiles(r)
    BY <1>2 DEF RunsTyped, DecodingTyped, LeavesFiles, Finish, Reported
  <2>3. QED
    BY <2>1, <2>2
<1>3. QED
  BY <1>1, <1>2

LEMMA FinishStep ==
    ASSUME RunsTyped, DecodingTyped, NEW r \in Run, NEW outcome,
           \/ outcome \in {"input", "killed"}
           \/ outcome \in Reported /\ pc[r] = "report",
           Finish(r, outcome),
           UNCHANGED <<job, files, checkpoint, edits, progress, written>>
    PROVE  RunsTyped' /\ DecodingTyped' /\ LeavesFiles(r)
<1> USE DEF Finish, progress, files
<1>1. RunsTyped'
  BY DEF RunsTyped, Reported
<1>2. DecodingTyped' /\ LeavesFiles(r)
  BY DEF RunsTyped, DecodingTyped, LeavesFiles, Reported
<1>3. QED
  BY <1>1, <1>2

LEMMA ReadStep ==
    ASSUME RunsTyped, DecodingTyped, NEW r \in Run, HashFile(r) \/ Generate(r)
    PROVE  RunsTyped' /\ DecodingTyped' /\ LeavesFiles(r)
<1> USE WorkspaceConstants DEF files, progress, Finish, GoTo
<1>1. CASE HashFile(r)
  <2>1. RunsTyped'
    <3>1. CASE checkpoint[Len(hashed[r]) + 1] = Missing
      BY <1>1, <3>1, ZenonT(30) DEF HashFile, RunsTyped
    <3>2. CASE checkpoint[Len(hashed[r]) + 1] # Missing
      <4>1. /\ pc[r] = "hash" /\ Len(hashed[r]) < Shards /\ Len(hashed[r]) \in Nat
            /\ checkpoint[Len(hashed[r]) + 1] \in Version
        BY <1>1, <3>2 DEF HashFile, RunsTyped
      <4>2. /\ hashed' \in [Run -> Seq(Version)]
            /\ \A q \in Run \ {r} : hashed'[q] = hashed[q]
            /\ Len(hashed'[r]) = Len(hashed[r]) + 1
        <5>1. hashed' = [hashed EXCEPT ![r] = Append(@, checkpoint[Len(hashed[r]) + 1])]
          BY <1>1, <3>2 DEF HashFile
        <5>2. QED
          BY <4>1, <5>1 DEF RunsTyped
      <4>3. /\ UNCHANGED <<job, checkpoint, edits, exit, generated>>
            /\ pc' = [pc EXCEPT ![r] = IF Len(hashed[r]) + 1 = Shards THEN "expected" ELSE "hash"]
        BY <1>1, <3>2 DEF HashFile
      <4>4. QED
        BY <4>1, <4>2, <4>3 DEF RunsTyped, Early
    <3>3. QED
      BY <3>1, <3>2
  <2>2. DecodingTyped' /\ LeavesFiles(r)
    BY <1>1 DEF HashFile, RunsTyped, DecodingTyped, LeavesFiles, Early, Reported
  <2>3. QED
    BY <2>1, <2>2
<1>2. CASE Generate(r)
  <2> DEFINE i == Len(generated[r]) + 1
  <2>1. CASE Finish(r, "input") /\ UNCHANGED <<generated, decoding>>
    BY <1>2, <2>1, FinishStep DEF Generate
  <2>2. CASE /\ checkpoint[i] # Missing
             /\ generated' = [generated EXCEPT ![r] = Append(@, checkpoint[i])]
             /\ IF i < Shards
                THEN GoTo(r, "generate") /\ UNCHANGED decoding
                ELSE /\ GoTo(r, "refuse_decode")
                     /\ \E d \in BOOLEAN : decoding' = [decoding EXCEPT ![r] = d]
    <3>1. /\ pc[r] = "generate" /\ Len(generated[r]) < Shards /\ Len(generated[r]) \in Nat
          /\ checkpoint[i] \in Version
          /\ UNCHANGED <<job, disk, opened, shared, written, checkpoint, edits, hashed, exit>>
      BY <1>2, <2>2 DEF Generate, RunsTyped
    <3>2. /\ generated' \in [Run -> Seq(Version)]
          /\ \A q \in Run \ {r} : generated'[q] = generated[q]
          /\ Len(generated'[r]) = Len(generated[r]) + 1
      BY <2>2, <3>1 DEF RunsTyped
    <3>3. /\ pc' = [pc EXCEPT ![r] = IF i < Shards THEN "generate" ELSE "refuse_decode"]
          /\ decoding' = decoding \/ \E d \in BOOLEAN : decoding' = [decoding EXCEPT ![r] = d]
      BY <2>2
    <3>4. RunsTyped'
      BY <3>1, <3>2, <3>3 DEF RunsTyped, Early
    <3>5. DecodingTyped'
      BY <3>3, Zenon DEF DecodingTyped
    <3>6. LeavesFiles(r)
      BY <3>1, <3>3 DEF LeavesFiles, RunsTyped, DecodingTyped, Early
    <3>7. QED
      BY <3>4, <3>5, <3>6
  <2>3. QED
    BY <1>2, <2>1, <2>2 DEF Generate
<1>3. QED
  BY <1>1, <1>2

LEMMA FileStep ==
    ASSUME RunsTyped, DecodingTyped, FilesTyped, NEW r \in Run, Open(r) \/ Write(r)
    PROVE  /\ RunsTyped' /\ DecodingTyped'
           /\ \/ LeavesFiles(r)
              \/ OpensFile(r, Target(r))
              \/ WritesBlock(r, Target(r), written[r] + 1)
<1> USE WorkspaceConstants DEF files, progress, GoTo
<1>1. CASE Open(r)
  <2>1. CASE Finish(r, "input") /\ UNCHANGED <<files, written>>
    BY <1>1, <2>1, FinishStep DEF Open
  <2>2. CASE ~(Finish(r, "input") /\ UNCHANGED <<files, written>>)
    <3>1. OpensFile(r, Target(r))
      BY <1>1, <2>2 DEF Open, Opens, Emptied, OpensFile, RunsTyped
    <3>2. RunsTyped'
      BY <1>1, <2>2, ZenonT(30) DEF Open, RunsTyped, Early
    <3>3. DecodingTyped'
      BY <3>1 DEF OpensFile, DecodingTyped
    <3>4. QED
      BY <3>1, <3>2, <3>3
  <2>3. QED
    BY <2>1, <2>2
<1>2. CASE Write(r)
  <2>1. CASE Finish(r, "input") /\ UNCHANGED <<disk, written>>
    BY <1>2, <2>1, FinishStep DEF Write
  <2>2. CASE ~(Finish(r, "input") /\ UNCHANGED <<disk, written>>)
    <3> DEFINE k == written[r] + 1
    <3>1. /\ Writing(r) /\ k \in 1..Blocks
          /\ UNCHANGED <<job, exit, opened, shared, decoding, checkpoint, edits, hashed, generated>>
          /\ pc' = [pc EXCEPT ![r] = IF AllWritten(k) THEN NextFile(r) ELSE pc[r]]
      BY <1>2, <2>2 DEF Write, FilesTyped
    <3>2. WritesBlock(r, Target(r), k)
      <4>1. /\ disk' = [disk EXCEPT ![Target(r)] = WriteAt(@, k, <<r, k>>)]
            /\ written' = [written EXCEPT ![r] = k]
        BY <1>2, <2>2 DEF Write
      <4>2. k \in Int /\ k <= Blocks /\ Blocks \in Int
        BY <3>1
      <4>3. (IF AllWritten(k) THEN NextFile(r) ELSE pc[r]) =
               IF k < Blocks THEN pc[r]
               ELSE IF pc[r] = "write" /\ decoding[r] THEN "open_decode"
               ELSE "report"
        BY <4>2 DEF AllWritten, NextFile
      <4>4. QED
        BY <3>1, <4>1, <4>3 DEF WritesBlock
    <3>3. RunsTyped'
      BY <3>1 DEF RunsTyped, Writing, NextFile, Early
    <3>4. DecodingTyped'
      BY <3>1 DEF DecodingTyped
    <3>5. QED
      BY <3>2, <3>3, <3>4
  <2>3. QED
    BY <2>1, <2>2
<1>3. QED
  BY <1>1, <1>2

\* Every step leaves the runs well typed, and is of one of these kinds.
LEMMA StepKinds ==
    ASSUME Typed, [Next]_vars
    PROVE  /\ RunsTyped' /\ DecodingTyped'
           /\ \/ UNCHANGED <<job, disk, opened, shared, written, pc, exit, decoding>>
              \/ \E r \in Run : \/ LeavesFiles(r)
                                \/ OpensFile(r, Target(r))
                                \/ WritesBlock(r, Target(r), written[r] + 1)
<1> USE DEF Typed
<1>1. CASE UNCHANGED vars
  BY <1>1 DEF vars, files, progress, RunsTyped, DecodingTyped
<1>2. CASE EditCheckpoint
  <2>1. PICK i \in 1..Shards, v \in Version \cup {Missing} :
           checkpoint' = [checkpoint EXCEPT ![i] = v]
    BY <1>2 DEF EditCheckpoint
  <2>2. /\ edits' \in 0..MaxEdits
        /\ UNCHANGED <<job, disk, opened, shared, written, pc, exit, decoding, hashed, generated>>
    BY <1>2, WorkspaceConstants DEF EditCheckpoint, RunsTyped, files, progress
  <2>3. RunsTyped'
    BY <2>1, <2>2 DEF RunsTyped
  <2>4. QED
    BY <2>2, <2>3 DEF DecodingTyped
<1>3. ASSUME NEW r \in Run, Keygen(r) \/ Chat(r)
      PROVE  RunsTyped' /\ DecodingTyped' /\ LeavesFiles(r)
  <2>1. CASE StartKeygen(r)
    BY <2>1, CheckStep DEF StartKeygen, Early
  <2>2. CASE FindFiles(r)
    BY <2>2, CheckStep DEF FindFiles, Early
  <2>3. CASE CheckExpected(r)
    BY <2>3, CheckStep DEF CheckExpected, Early
  <2>4. CASE RefuseDecode(r)
    BY <2>4, CheckStep DEF RefuseDecode, Early
  <2>5. CASE StartChat(r)
    BY <2>5, CheckStep DEF StartChat, Early
  <2>6. CASE PostChat(r)
    BY <2>6, CheckStep DEF PostChat, Early
  <2>7. QED
    BY <1>3, <2>1, <2>2, <2>3, <2>4, <2>5, <2>6, ReadStep DEF Keygen, Chat
<1>4. ASSUME NEW r \in Run, Report(r) \/ Kill(r)
      PROVE  RunsTyped' /\ DecodingTyped' /\ LeavesFiles(r)
  BY <1>4, FinishStep DEF Report, Kill
<1>5. QED
  BY <1>1, <1>2, <1>3, <1>4, FileStep DEF Next

-----------------------------------------------------------------------------
\* Each kind of step preserves the invariants about files.

\* An unopened file, an opened one, and one opened once more.
LEMMA Openings ==
    ASSUME FilesTyped, NEW f \in File, NEW r \in Run
    PROVE  /\ ~Exists(f) => opened[f] = <<>> /\ Append(opened[f], r) = <<r>>
           /\ Opened(f, r) => Exists(f)
           /\ Len(Append(opened[f], r)) = Len(opened[f]) + 1
           /\ Append(opened[f], r)[Len(opened[f]) + 1] = r
           /\ Append(opened[f], r) # <<>>
           /\ \A i \in DOMAIN opened[f] : Append(opened[f], r)[i] = opened[f][i]
           /\ DOMAIN Append(opened[f], r) = DOMAIN opened[f] \cup {Len(opened[f]) + 1}
<1>1. opened[f] \in Seq(Run \cup {Old}) /\ (Exists(f) <=> opened[f] # <<>>)
  BY DEF FilesTyped
<1>2. \A s \in Seq(Run \cup {Old}) :
         /\ Len(Append(s, r)) = Len(s) + 1 /\ Append(s, r)[Len(s) + 1] = r
         /\ \A i \in DOMAIN s : Append(s, r)[i] = s[i]
         /\ DOMAIN Append(s, r) = DOMAIN s \cup {Len(s) + 1}
  OBVIOUS
<1>3. Append(<<>>, r) = <<r>> /\ Append(opened[f], r) # <<>>
  BY <1>1, <1>2
<1>4. Opened(f, r) => opened[f] # <<>>
  BY <1>1 DEF Opened
<1>5. ~Exists(f) => opened[f] = <<>> /\ Append(opened[f], r) = <<r>>
  BY <1>1, <1>3
<1>6. QED
  BY <1>1, <1>2, <1>3, <1>4, <1>5

\* What a run wrote completely exists.
LEMMA ContentIsThere ==
    ASSUME NEW r \in Run, NEW f \in File, disk[f] = Content(r)
    PROVE  Exists(f)
<1>1. \A k \in 1..Blocks : <<r, k>> \in Block
  BY WorkspaceConstants DEF Block
<1>2. Content(r) \in [1..Blocks -> Block] /\ Blocks \in Nat
  BY <1>1, WorkspaceConstants DEF Content
<1>3. Content(r) \in Seq(Block)
  BY <1>2, SeqOf
<1>4. QED
  BY <1>3, WorkspaceConstants DEF Exists

LEMMA LeavesFilesStep ==
    ASSUME Typed, RunsTyped', DecodingTyped', FileInv, NEW r \in Run, LeavesFiles(r)
    PROVE  FilesTyped' /\ FileInv'
<1> USE DEF Typed
<1>1. /\ UNCHANGED <<job, disk, opened, shared, written>>
      /\ \A q \in Run \ {r} : pc'[q] = pc[q] /\ exit'[q] = exit[q] /\ decoding'[q] = decoding[q]
      /\ \A q \in Run : Writing(q)' => Writing(q) /\ Target(q)' = Target(q)
      /\ \A f \in File : Exists(f)' <=> Exists(f)
  BY DEF LeavesFiles, Writing, Target, Early, Artifact, Decode, Exists
<1>2. FilesTyped'
  BY <1>1 DEF FilesTyped
<1>3. OpenerInv'
  BY <1>1 DEF OpenerInv, FileInv, Opened, LeavesFiles, Early, Artifact, Decode
<1>4. WriterInv'
  <2>1. ASSUME NEW q \in Run
        PROVE  /\ Current(q)' \subseteq Current(q) /\ Complete(q)' \subseteq Complete(q)
               /\ Current(q)' \subseteq File /\ Complete(q)' \subseteq File
    <3>1. Current(q)' \subseteq Current(q)
      BY <1>1 DEF Current
    <3>2. Complete(q)' \subseteq Complete(q)
      BY <1>1 DEF Complete, LeavesFiles, Early, Outputs, Artifact, Decode, RunsTyped, Reported
    <3>3. Current(q) \subseteq File /\ Complete(q) \subseteq File
      BY FilesOf DEF Current, Complete, Outputs
    <3>4. QED
      BY <3>1, <3>2, <3>3
  <2>2. QED
    BY <1>1, <2>1 DEF WriterInv, FileInv, Opened, Last
<1>5. UnforcedInv' /\ DecodeLiesBesideItsKey'
  BY <1>1 DEF FileInv, UnforcedInv, DecodeLiesBesideItsKey, Unforced, First, Exists
<1>6. QED
  BY <1>2, <1>3, <1>4, <1>5 DEF FileInv

LEMMA OpensFileStep ==
    ASSUME Typed, RunsTyped', DecodingTyped', FileInv, NEW r \in Run, NEW f \in File,
           OpensFile(r, f)
    PROVE  FilesTyped' /\ FileInv'
<1> USE DEF Typed
<1>1. /\ job' = job /\ exit' = exit /\ decoding' = decoding
      /\ disk' \in [File -> Seq(Block) \cup {Absent}] /\ disk'[f] = <<>>
      /\ \A g \in File \ {f} : disk'[g] = disk[g] /\ opened'[g] = opened[g]
      /\ opened' \in [File -> Seq(Run \cup {Old})] /\ opened'[f] = Append(opened[f], r)
      /\ written' = [written EXCEPT ![r] = 0] /\ written' \in [Run -> 0..Blocks]
      /\ shared \subseteq shared' /\ shared' \subseteq shared \cup {f}
      /\ \A q \in Run : Writing(q) /\ Target(q) = f => f \in shared'
  BY WorkspaceConstants DEF OpensFile, FilesTyped
<1>2. /\ \A q \in Run \ {r} : pc'[q] = pc[q]
      /\ \/ pc[r] = "open" /\ pc'[r] = "write" /\ f = Artifact(r)
         \/ pc[r] = "open_decode" /\ pc'[r] = "write_decode" /\ f = Decode(r)
      /\ exit[r] = "running"
  BY DEF OpensFile, RunsTyped, Target
<1>3. /\ \A g \in File : Exists(g)' <=> Exists(g) \/ g = f
      /\ \A g \in File : opened'[g] # <<>> <=> opened[g] # <<>> \/ g = f
  <2>1. disk'[f] # Absent
    <3>1. <<>> \in Seq(Block) /\ Absent \notin Seq(Block)
      BY EmptySeq, WorkspaceConstants
    <3>2. QED
      BY <1>1, <3>1
  <2>2. opened'[f] # <<>>
    BY <1>1, Openings
  <2>3. QED
    BY <1>1, <2>1, <2>2 DEF Exists
<1>4. FilesTyped'
  <2>1. \A q \in Run : Writing(q)' => written'[q] < Blocks
    <3>1. \A q \in Run \ {r} : (Writing(q)' <=> Writing(q)) /\ written'[q] = written[q]
      BY <1>1, <1>2 DEF FilesTyped, Writing
    <3>2. written'[r] = 0 /\ 0 < Blocks
      BY <1>1, WorkspaceConstants DEF FilesTyped
    <3>3. QED
      BY <3>1, <3>2 DEF FilesTyped
  <2>2. \A g \in File : Exists(g)' => Len(disk'[g]) <= Blocks + 1
    <3>1. Len(disk'[f]) <= Blocks + 1
      BY <1>1, WorkspaceConstants
    <3>2. QED
      BY <1>1, <1>3, <3>1 DEF FilesTyped
  <2>3. \A g \in File : Exists(g)' <=> opened'[g] # <<>>
    BY <1>3 DEF FilesTyped
  <2>4. QED
    BY <1>1, <1>3, <2>1, <2>2, <2>3 DEF FilesTyped
<1>5. /\ \A g \in File, q \in Run : Opened(g, q)' <=> Opened(g, q) \/ (g = f /\ q = r)
      /\ Last(f)' = r /\ \A g \in File \ {f} : Last(g)' = Last(g) /\ First(g)' = First(g)
      /\ Len(opened[f]) = 0 => Len(opened'[f]) = 1 /\ First(f)' = r
  <2>1. \A q \in Run : Opened(f, q)' <=> Opened(f, q) \/ q = r
    BY <1>1, Openings DEF Opened
  <2>2. \A g \in File \ {f}, q \in Run : Opened(g, q)' <=> Opened(g, q)
    BY <1>1 DEF Opened
  <2>3. Last(f)' = r /\ (Len(opened[f]) = 0 => Len(opened'[f]) = 1 /\ First(f)' = r)
    BY <1>1, Openings DEF Last, First
  <2>4. \A g \in File \ {f} : Last(g)' = Last(g) /\ First(g)' = First(g)
    BY <1>1 DEF Last, First
  <2>5. QED
    BY <2>1, <2>2, <2>3, <2>4
<1>6. OpenerInv'
  BY <1>1, <1>2, <1>5, FilesOf, SMTT(60) DEF FileInv, OpenerInv, Artifact, Decode, Early
<1>7. WriterInv'
  <2>1. ASSUME NEW q \in Run \ {r}
        PROVE  /\ Current(q)' = Current(q) /\ Complete(q)' = Complete(q)
               /\ Current(q) \subseteq File /\ Complete(q) \subseteq File
               /\ f \in Current(q) => f \in shared'
               /\ written'[q] = written[q]
    <3>1. Current(q)' = Current(q) /\ Complete(q)' = Complete(q)
      BY <1>1, <1>2 DEF Current, Complete, Writing, Target, Artifact, Decode, Outputs
    <3>2. Current(q) \subseteq File /\ Complete(q) \subseteq File
      BY FilesOf DEF Current, Complete, Outputs
    <3>3. f \in Current(q) => f \in shared'
      BY <1>1 DEF Current
    <3>4. written'[q] = written[q]
      BY <1>1 DEF FilesTyped
    <3>5. QED
      BY <3>1, <3>2, <3>3, <3>4
  <2>2. /\ Current(r)' = {f} /\ Complete(r)' \subseteq Complete(r) \ {f}
        /\ Complete(r) \subseteq File
    <3>1. Current(r)' = {f}
      BY <1>1, <1>2, FilesOf
      DEF Current, Complete, Writing, Target, Artifact, Decode, Outputs, RunsTyped
    <3>2. Complete(r)' \subseteq Complete(r) \ {f}
      BY <1>1, <1>2, FilesOf
      DEF Current, Complete, Writing, Target, Artifact, Decode, Outputs, RunsTyped, Reported
    <3>3. Complete(r) \subseteq File
      BY <1>1, <1>2, FilesOf
      DEF Current, Complete, Writing, Target, Artifact, Decode, Outputs, RunsTyped
    <3>4. QED
      BY <3>1, <3>2, <3>3
  <2>3. ASSUME NEW q \in Run \ {r}
        PROVE  /\ \A g \in Current(q)' \cup Complete(q)' : Opened(g, q)'
               /\ \A g \in Current(q)' \ shared' : Last(g)' = q /\ disk'[g] = Begin(q, written'[q])
               /\ \A g \in Complete(q)' \ shared' : Last(g)' = q => disk'[g] = Content(q)
    <3>1. /\ \A g \in Current(q) \cup Complete(q) : Opened(g, q)
          /\ \A g \in Current(q) \ shared : Last(g) = q /\ disk[g] = Begin(q, written[q])
          /\ \A g \in Complete(q) \ shared : Last(g) = q => disk[g] = Content(q)
      BY DEF FileInv, WriterInv
    <3>2. \A g \in Current(q)' \cup Complete(q)' : Opened(g, q)'
      BY <1>5, <2>1, <3>1
    <3>3. \A g \in Current(q)' \ shared' : g # f /\ g \in Current(q) \ shared
      BY <1>1, <2>1
    <3>4. \A g \in Complete(q)' \ shared' : Last(g)' = q => g # f /\ g \in Complete(q) \ shared
      BY <1>1, <1>5, <2>1
    <3>5. QED
      BY <1>1, <1>5, <2>1, <3>1, <3>2, <3>3, <3>4
  <2>4. /\ \A g \in Current(r)' \cup Complete(r)' : Opened(g, r)'
        /\ \A g \in Current(r)' \ shared' : Last(g)' = r /\ disk'[g] = Begin(r, written'[r])
        /\ \A g \in Complete(r)' \ shared' : Last(g)' = r => disk'[g] = Content(r)
    BY <1>1, <1>5, <2>2, Begins DEF FileInv, WriterInv, FilesTyped
  <2>5. QED
    BY <2>3, <2>4 DEF WriterInv
<1>8. Unforced(f) =>
        /\ ~Exists(f) /\ Len(opened[f]) = 0 /\ f \notin shared'
        /\ First(f)' = r /\ Len(opened'[f]) = 1
  <2>1. SUFFICES ASSUME Unforced(f) PROVE ~Exists(f)
    <3>1. \A q \in Run : Writing(q) /\ Target(q) = f => Opened(f, q)
      BY DEF FileInv, WriterInv, Current
    <3>2. QED
      BY <1>5, <2>1, <3>1, Openings DEF FilesTyped, OpensFile
  <2>2. job[r].output = f[1]
    BY <1>2, FilesOf
  <2>3. QED
    BY <2>1, <2>2 DEF Unforced, OpensFile
<1>9. UnforcedInv'
  <2>1. \A g \in File : Unforced(g)' <=> Unforced(g)
    BY <1>1 DEF Unforced
  <2>2. \A g \in File \ {f} : g \in shared' <=> g \in shared
    BY <1>1
  <2>3. ASSUME Unforced(f) PROVE disk'[f] = Begin(First(f)', 0)
    BY <1>1, <1>8, <2>3, Begins
  <2>4. 0 \in 0..Blocks /\ r # Old
    BY WorkspaceConstants
  <2>5. ASSUME NEW g \in File \ {f}, Exists(g)', Unforced(g)'
        PROVE  /\ Len(opened'[g]) = 1 /\ g \notin shared'
               /\ First(g)' = Old => disk'[g] = OldContent
               /\ First(g)' # Old => \E k \in 0..Blocks : disk'[g] = Begin(First(g)', k)
    BY <1>1, <1>3, <1>5, <2>1, <2>2, <2>5, SMTT(30) DEF FileInv, UnforcedInv
  <2>6. QED
    BY <1>8, <2>1, <2>3, <2>4, <2>5 DEF UnforcedInv
<1>10. DecodeLiesBesideItsKey'
  <2> SUFFICES ASSUME NEW n \in Name, Unforced(<<n, "decode">>)', Exists(<<n, "decode">>)',
                      First(<<n, "decode">>)' # Old
               PROVE  /\ First(<<n, "artifact">>)' = First(<<n, "decode">>)'
                      /\ disk'[<<n, "artifact">>] = Content(First(<<n, "artifact">>)')
    BY DEF DecodeLiesBesideItsKey
  <2> DEFINE d == <<n, "decode">>
             a == <<n, "artifact">>
  <2>1. d \in File /\ a \in File /\ d # a /\ Unforced(d) /\ Unforced(a)
    BY <1>1 DEF File, Unforced
  <2>2. CASE f = d
    <3>1. pc[r] = "open_decode" /\ a = Artifact(r)
      BY <1>2, <2>1, <2>2 DEF Artifact, Decode
    <3>2. Opened(a, r) /\ a \in Complete(r)
      BY <3>1 DEF FileInv, WriterInv, Complete
    <3>3. Len(opened[a]) = 1 /\ a \notin shared /\ Exists(a)
      BY <2>1, <3>2, Openings DEF FileInv, UnforcedInv
    <3>4. Last(a) = r /\ First(a) = r
      BY <2>1, <3>2, <3>3 DEF Opened, Last, First, FilesTyped
    <3>5. disk[a] = Content(r)
      BY <3>2, <3>3, <3>4 DEF FileInv, WriterInv
    <3>6. QED
      BY <1>1, <1>5, <1>8, <2>1, <2>2, <3>4, <3>5
  <2>3. CASE f # d
    <3>1. /\ Exists(d) /\ First(d)' = First(d) /\ First(d) # Old
      BY <1>3, <1>5, <2>1, <2>3
    <3>2. First(a) = First(d) /\ disk[a] = Content(First(a))
      BY <2>1, <3>1 DEF FileInv, DecodeLiesBesideItsKey
    <3>3. First(d) \in Run
      BY <2>1, <3>1 DEF FilesTyped, First
    <3>4. Exists(a)
      BY <2>1, <3>2, <3>3, ContentIsThere
    <3>5. f # a
      BY <1>8, <2>1, <3>4
    <3>6. QED
      BY <1>1, <1>5, <2>1, <3>1, <3>2, <3>5
  <2>4. QED
    BY <2>2, <2>3
<1>11. QED
  BY <1>4, <1>6, <1>7, <1>9, <1>10 DEF FileInv

LEMMA WritesBlockStep ==
    ASSUME Typed, RunsTyped', DecodingTyped', FileInv, NEW r \in Run, NEW f \in File, NEW k,
           WritesBlock(r, f, k)
    PROVE  FilesTyped' /\ FileInv'
<1> USE DEF Typed
<1>1. /\ Writing(r) /\ f = Target(r) /\ k \in 1..Blocks /\ written[r] = k - 1
      /\ Opened(f, r) /\ Exists(f) /\ f \in Current(r)
      /\ disk[f] \in Seq(Block) /\ Len(disk[f]) <= Blocks + 1
  <2>1. Opened(f, r) /\ f \in Current(r)
    BY DEF WritesBlock, Current, FileInv, WriterInv
  <2>2. k \in 1..Blocks /\ written[r] = k - 1 /\ Writing(r) /\ f = Target(r)
    <3>1. Writing(r) /\ f = Target(r) /\ k = written[r] + 1
      BY DEF WritesBlock
    <3>2. written[r] \in 0..Blocks /\ written[r] < Blocks
      BY <3>1 DEF FilesTyped
    <3>3. QED
      BY <3>1, <3>2, WorkspaceConstants
  <2>3. Exists(f)
    BY <2>1, Openings
  <2>4. QED
    BY <2>1, <2>2, <2>3 DEF FilesTyped, Exists
<1>2. /\ UNCHANGED <<job, exit, opened, shared, decoding>>
      /\ disk' \in [File -> Seq(Block) \cup {Absent}]
      /\ disk'[f] = WriteAt(disk[f], k, <<r, k>>)
      /\ disk'[f] \in Seq(Block) /\ Len(disk'[f]) <= Blocks + 1
      /\ \A g \in File \ {f} : disk'[g] = disk[g]
      /\ written' = [written EXCEPT ![r] = k] /\ written' \in [Run -> 0..Blocks]
      /\ written'[r] = k
  <2>1. disk' = [disk EXCEPT ![f] = WriteAt(disk[f], k, <<r, k>>)]
    BY DEF WritesBlock
  <2>2. /\ WriteAt(disk[f], k, <<r, k>>) \in Seq(Block)
        /\ Len(WriteAt(disk[f], k, <<r, k>>)) <= Blocks + 1
    BY <1>1, WriteAtType
  <2>3. /\ disk' \in [File -> Seq(Block) \cup {Absent}]
        /\ disk'[f] = WriteAt(disk[f], k, <<r, k>>)
        /\ \A g \in File \ {f} : disk'[g] = disk[g]
    BY <2>1, <2>2 DEF FilesTyped
  <2>4. /\ written' = [written EXCEPT ![r] = k] /\ written' \in [Run -> 0..Blocks]
        /\ written'[r] = k
    BY <1>1, WorkspaceConstants DEF WritesBlock, FilesTyped
  <2>5. QED
    BY <2>2, <2>3, <2>4 DEF WritesBlock
<1>3. /\ \A q \in Run \ {r} : pc'[q] = pc[q] /\ written'[q] = written[q]
      /\ \/ k < Blocks /\ pc'[r] = pc[r]
         \/ k = Blocks /\ pc[r] = "write" /\ decoding[r] /\ pc'[r] = "open_decode"
         \/ /\ k = Blocks /\ pc'[r] = "report"
            /\ pc[r] = "write_decode" \/ ~decoding[r]
      /\ \/ pc[r] = "write" /\ f = Artifact(r)
         \/ pc[r] = "write_decode" /\ f = Decode(r)
      /\ exit[r] = "running"
  <2>1. pc' = [pc EXCEPT ![r] = IF k < Blocks THEN pc[r]
                               ELSE IF pc[r] = "write" /\ decoding[r] THEN "open_decode"
                               ELSE "report"]
    BY DEF WritesBlock
  <2>2. pc[r] \in {"write", "write_decode"} /\ exit[r] = "running"
    BY <1>1 DEF Writing, RunsTyped
  <2>3. f = IF pc[r] = "write" THEN Artifact(r) ELSE Decode(r)
    BY <1>1, <2>2 DEF Target
  <2>4. \A q \in Run \ {r} : pc'[q] = pc[q] /\ written'[q] = written[q]
    BY <1>2, <2>1 DEF RunsTyped, FilesTyped
  <2>5. pc'[r] = IF k < Blocks THEN pc[r]
                 ELSE IF pc[r] = "write" /\ decoding[r] THEN "open_decode"
                 ELSE "report"
    BY <2>1 DEF RunsTyped
  <2>6. k < Blocks \/ k = Blocks
    BY <1>1, WorkspaceConstants
  <2>7. QED
    BY <2>2, <2>3, <2>4, <2>5, <2>6
<1>4. \A g \in File : Exists(g)' <=> Exists(g)
  <2>1. disk'[f] # Absent
    BY <1>2, WorkspaceConstants
  <2>2. QED
    BY <1>1, <1>2, <2>1 DEF Exists
<1>5. FilesTyped'
  <2>1. \A q \in Run : Writing(q)' => written'[q] < Blocks
    BY <1>1, <1>2, <1>3, WorkspaceConstants DEF FilesTyped, Writing
  <2>2. QED
    BY <1>2, <1>4, <2>1 DEF FilesTyped
<1>6. /\ \A g \in File, q \in Run : Opened(g, q)' <=> Opened(g, q)
      /\ \A g \in File : Last(g)' = Last(g) /\ First(g)' = First(g)
  BY <1>2 DEF Opened, Last, First
<1>7. OpenerInv'
  BY <1>2, <1>3, <1>6 DEF FileInv, OpenerInv, Artifact, Decode, Early
\* What r wrote so far, and now, if nobody else opened the file.
<1>8. f \notin shared => Last(f) = r /\ disk[f] = Begin(r, k - 1) /\ disk'[f] = Begin(r, k)
  <2>1. f \notin shared => Last(f) = r /\ disk[f] = Begin(r, k - 1)
    BY <1>1 DEF FileInv, WriterInv
  <2>2. WriteAt(Begin(r, k - 1), k, <<r, k>>) = Begin(r, k)
    BY <1>1, Begins
  <2>3. QED
    BY <1>2, <2>1, <2>2
<1>9. WriterInv'
  <2>1. ASSUME NEW q \in Run \ {r}
        PROVE  /\ Current(q)' = Current(q) /\ Complete(q)' = Complete(q)
               /\ Current(q) \subseteq File /\ Complete(q) \subseteq File
    <3>1. Current(q)' = Current(q) /\ Complete(q)' = Complete(q)
      BY <1>2, <1>3 DEF Current, Complete, Writing, Target, Artifact, Decode, Outputs
    <3>2. Current(q) \subseteq File /\ Complete(q) \subseteq File
      BY FilesOf DEF Current, Complete, Outputs
    <3>3. QED
      BY <3>1, <3>2
  <2>2. /\ Current(r)' \subseteq {f} /\ (f \in Current(r)' => k < Blocks)
        /\ Complete(r)' \subseteq Complete(r) \cup {f} /\ Complete(r) \subseteq File
        /\ f \in Complete(r)' => k = Blocks \/ f \in Complete(r)
    <3>1. Complete(r) \subseteq File
      BY FilesOf DEF Complete, Outputs
    <3>2. Current(r)' \subseteq {f} /\ (f \in Current(r)' => k < Blocks)
      BY <1>1, <1>2, <1>3, WorkspaceConstants DEF Current, Writing, Target, Artifact, Decode
    <3>3. Complete(r)' \subseteq Complete(r) \cup {f}
      BY <1>2, <1>3 DEF Complete, Outputs, Artifact, Decode
    <3>4. f \in Complete(r)' => k = Blocks \/ f \in Complete(r)
      BY <1>2, <1>3 DEF Complete, Outputs, Artifact, Decode
    <3>5. QED
      BY <3>1, <3>2, <3>3, <3>4
  <2>3. ASSUME NEW q \in Run \ {r}
        PROVE  /\ \A g \in Current(q)' \cup Complete(q)' : Opened(g, q)'
               /\ \A g \in Current(q)' \ shared' : Last(g)' = q /\ disk'[g] = Begin(q, written'[q])
               /\ \A g \in Complete(q)' \ shared' : Last(g)' = q => disk'[g] = Content(q)
    <3>1. /\ \A g \in Current(q) \cup Complete(q) : Opened(g, q)
          /\ \A g \in Current(q) \ shared : Last(g) = q /\ disk[g] = Begin(q, written[q])
          /\ \A g \in Complete(q) \ shared : Last(g) = q => disk[g] = Content(q)
      BY DEF FileInv, WriterInv
    <3>2. QED
      BY <1>2, <1>3, <1>6, <1>8, <2>1, <3>1, SMTT(30)
  <2>4. /\ \A g \in Current(r) \cup Complete(r) : Opened(g, r)
        /\ \A g \in Complete(r) \ shared : Last(g) = r => disk[g] = Content(r)
    BY DEF FileInv, WriterInv
  <2>5. \A g \in Current(r)' \cup Complete(r)' : Opened(g, r)'
    BY <1>1, <1>6, <2>2, <2>4
  <2>6. \A g \in Current(r)' \ shared' : Last(g)' = r /\ disk'[g] = Begin(r, written'[r])
    BY <1>1, <1>2, <1>6, <1>8, <2>2
  <2>7. \A g \in Complete(r)' \ shared' : Last(g)' = r => disk'[g] = Content(r)
    <3>1. f \in Complete(r)' \ shared' => disk'[f] = Content(r)
      <4>1. CASE k = Blocks
        BY <1>2, <1>8, <4>1, Begins
      <4>2. CASE k # Blocks
        <5>1. f \in Complete(r)' \ shared' => f \in Complete(r) \ shared
          BY <1>2, <2>2, <4>2
        <5>2. f \in Complete(r) => f # Target(r)
          BY <1>1, <1>3, FilesOf DEF Complete, Reported
        <5>3. QED
          BY <1>1, <5>1, <5>2
      <4>3. QED
        BY <4>1, <4>2
    <3>2. QED
      BY <1>1, <1>2, <1>6, <2>2, <2>4, <3>1
  <2>8. QED
    BY <2>3, <2>5, <2>6, <2>7 DEF WriterInv
<1>10. Unforced(f) => /\ f \notin shared /\ Len(opened[f]) = 1 /\ First(f) = r
                      /\ disk'[f] = Begin(r, k) /\ disk[f] = Begin(r, k - 1)
  <2>1. Unforced(f) => Len(opened[f]) = 1 /\ f \notin shared
    BY <1>1 DEF FileInv, UnforcedInv
  <2>2. QED
    BY <1>8, <2>1 DEF First, Last
<1>11. UnforcedInv'
  <2>1. \A g \in File : Unforced(g)' <=> Unforced(g)
    BY <1>2 DEF Unforced
  <2>2. ASSUME NEW g \in File, Exists(g)', Unforced(g)'
        PROVE  /\ Len(opened'[g]) = 1 /\ g \notin shared'
               /\ First(g)' = Old => disk'[g] = OldContent
               /\ First(g)' # Old => \E i \in 0..Blocks : disk'[g] = Begin(First(g)', i)
    <3>1. CASE g = f
      <4>1. k \in 0..Blocks /\ r # Old
        BY <1>1, WorkspaceConstants
      <4>2. QED
        BY <1>2, <1>6, <1>10, <2>1, <2>2, <3>1, <4>1
    <3>2. CASE g # f
      BY <1>2, <1>4, <1>6, <2>1, <2>2, <3>2 DEF FileInv, UnforcedInv
    <3>3. QED
      BY <3>1, <3>2
  <2>3. QED
    BY <2>2 DEF UnforcedInv
<1>12. DecodeLiesBesideItsKey'
  <2> SUFFICES ASSUME NEW n \in Name, Unforced(<<n, "decode">>)', Exists(<<n, "decode">>)',
                      First(<<n, "decode">>)' # Old
               PROVE  /\ First(<<n, "artifact">>)' = First(<<n, "decode">>)'
                      /\ disk'[<<n, "artifact">>] = Content(First(<<n, "artifact">>)')
    BY DEF DecodeLiesBesideItsKey
  <2> DEFINE d == <<n, "decode">>
             a == <<n, "artifact">>
  <2>1. d \in File /\ a \in File /\ Unforced(d) /\ Unforced(a)
    BY <1>2 DEF File, Unforced
  <2>2. First(a) = First(d) /\ disk[a] = Content(First(a)) /\ First(d) # Old
    BY <1>4, <1>6, <2>1 DEF FileInv, DecodeLiesBesideItsKey
  \* A key that is still written to is not complete.
  <2>3. f # a
    <3>1. SUFFICES ASSUME f = a PROVE FALSE
      OBVIOUS
    <3>2. disk[f] = Begin(r, k - 1) /\ disk[f] = Content(r)
      BY <1>10, <2>1, <2>2, <3>1
    <3>3. k - 1 \in 0..Blocks /\ Blocks \in 0..Blocks /\ k - 1 # Blocks
      BY <1>1, WorkspaceConstants
    <3>4. Len(Begin(r, k - 1)) = k - 1 /\ Len(Begin(r, Blocks)) = Blocks
      BY <3>3, Begins
    <3>5. QED
      BY <3>2, <3>3, <3>4, Begins
  <2>4. QED
    BY <1>2, <1>6, <2>1, <2>2, <2>3
<1>13. QED
  BY <1>5, <1>7, <1>9, <1>11, <1>12 DEF FileInv

LEMMA FileInvStep ==
    ASSUME Typed, RunsTyped', DecodingTyped', FileInv,
           \/ UNCHANGED <<job, disk, opened, shared, written, pc, exit, decoding>>
           \/ \E r \in Run : \/ LeavesFiles(r)
                             \/ OpensFile(r, Target(r))
                             \/ WritesBlock(r, Target(r), written[r] + 1)
    PROVE  FilesTyped' /\ FileInv'
<1>1. CASE UNCHANGED <<job, disk, opened, shared, written, pc, exit, decoding>>
  <2>1. FilesTyped'
    BY <1>1 DEF Typed, FilesTyped, Exists, Writing
  <2>2. OpenerInv' /\ WriterInv'
    BY <1>1 DEF FileInv, OpenerInv, WriterInv, Opened, Current, Complete, Writing, Target,
                Outputs, Artifact, Decode, Last
  <2>3. UnforcedInv' /\ DecodeLiesBesideItsKey'
    BY <1>1 DEF FileInv, UnforcedInv, DecodeLiesBesideItsKey, Exists, Unforced, First
  <2>4. QED
    BY <2>1, <2>2, <2>3 DEF FileInv
<1>2. ASSUME NEW r \in Run, LeavesFiles(r)
      PROVE  FilesTyped' /\ FileInv'
  BY <1>2, LeavesFilesStep
<1>3. ASSUME NEW r \in Run, OpensFile(r, Target(r)) \/ WritesBlock(r, Target(r), written[r] + 1)
      PROVE  FilesTyped' /\ FileInv'
  <2>1. Target(r) \in File
    BY FilesOf DEF Typed
  <2>2. QED
    BY <1>3, <2>1, OpensFileStep, WritesBlockStep
<1>4. QED
  BY <1>1, <1>2, <1>3

-----------------------------------------------------------------------------
\* The expected checkpoint hash.

\* A run that has hashed all it needs does not hash again.
LEMMA HashInvStep ==
    ASSUME Typed, FileInv, HashInv, [Next]_vars
    PROVE  HashInv'
<1> USE DEF Typed, FileInv
<1> DEFINE Bound(q) == job[q].command = "keygen" /\ job[q].expected # Any /\ ~job[q].drift
           Before == {"start", "find_files", "hash", "expected"}
\* What must hold of each run after the step.
<1>1. /\ job' = job
      /\ \A q \in Run : pc'[q] = "post" => pc[q] = "post" \/ job[q].command = "chat"
      /\ \A q \in Run : Bound(q) =>
           \/ hashed'[q] = hashed[q] /\ pc'[q] = pc[q]
           \/ hashed'[q] = hashed[q] /\ pc'[q] = "done"
           \/ pc[q] \in Before /\ pc'[q] \in Before \cup {"done"}
           \/ hashed'[q] = hashed[q] /\ pc[q] \notin Before \cup {"done"}
           \/ hashed'[q] = HashOf(job[q].expected)
  <2>1. CASE UNCHANGED vars
    BY <2>1 DEF vars, progress
  <2>2. CASE EditCheckpoint
    BY <2>2 DEF EditCheckpoint, progress
  <2>3. ASSUME NEW r \in Run,
               \/ StartKeygen(r) \/ FindFiles(r) \/ RefuseDecode(r)
               \/ Report(r) \/ Kill(r) \/ StartChat(r) \/ PostChat(r)
        PROVE  /\ job' = job /\ hashed' = hashed /\ \A q \in Run \ {r} : pc'[q] = pc[q]
               /\ pc'[r] = "post" => job[r].command = "chat"
               /\ \/ pc'[r] = "done"
                  \/ pc[r] \in Before /\ pc'[r] \in Before
                  \/ pc[r] \notin Before \cup {"done"}
                  \/ job[r].command = "chat"
    BY <2>3 DEF StartKeygen, FindFiles, RefuseDecode, Report, Kill, StartChat, PostChat, Check,
                GoTo, Finish, RunsTyped, progress, files
  <2>4. ASSUME NEW r \in Run, Generate(r) \/ Open(r) \/ Write(r)
        PROVE  /\ job' = job /\ hashed' = hashed /\ \A q \in Run \ {r} : pc'[q] = pc[q]
               /\ pc'[r] # "post" /\ pc[r] \notin Before \cup {"done"}
    BY <2>4 DEF Generate, Open, Write, GoTo, Finish, NextFile, Writing, RunsTyped, progress, files
  <2>5. ASSUME NEW r \in Run, HashFile(r)
        PROVE  /\ job' = job
               /\ \A q \in Run \ {r} : pc'[q] = pc[q] /\ hashed'[q] = hashed[q]
               /\ pc[r] \in Before /\ pc'[r] \in Before \cup {"done"}
    BY <2>5 DEF HashFile, GoTo, Finish, RunsTyped, progress, files
  <2>6. ASSUME NEW r \in Run, CheckExpected(r)
        PROVE  /\ job' = job /\ hashed' = hashed /\ \A q \in Run \ {r} : pc'[q] = pc[q]
               /\ pc'[r] # "post"
               /\ \/ pc'[r] = "done" \/ ~Bound(r)
                  \/ hashed[r] = HashOf(job[r].expected)
    BY <2>6 DEF CheckExpected, Expected, Check, GoTo, Finish, RunsTyped, progress, files
  <2>7. CASE \E r \in Run : Keygen(r) \/ Chat(r) \/ Open(r) \/ Write(r) \/ Report(r) \/ Kill(r)
    BY <2>3, <2>4, <2>5, <2>6, <2>7, Zenon DEF Keygen, Chat
  <2>8. QED
    BY <2>1, <2>2, <2>7 DEF Next
<1>2. /\ OpenerInv'
      /\ \A f \in File, q \in Run : pc'[q] = "done" /\ Opened(f, q)' => Opened(f, q)
  <2>1. OpenerInv'
    BY StepKinds, FileInvStep DEF FileInv
  <2>2. CASE opened' = opened
    BY <2>1, <2>2 DEF Opened
  <2>3. ASSUME NEW r \in Run, NEW g \in File, OpensFile(r, g)
        PROVE  \A f \in File, q \in Run : pc'[q] = "done" /\ Opened(f, q)' => Opened(f, q)
    <3>1. pc'[r] # "done"
      BY <2>3 DEF OpensFile, RunsTyped
    <3>2. /\ \A f \in File : f # g => opened'[f] = opened[f]
          /\ opened'[g] = Append(opened[g], r)
      BY <2>3 DEF FilesTyped, OpensFile
    <3>3. \A q \in Run : Opened(g, q)' => Opened(g, q) \/ q = r
      BY <3>2, Openings DEF Opened
    <3>4. \A f \in File, q \in Run : f # g => (Opened(f, q)' => Opened(f, q))
      BY <3>2 DEF Opened
    <3>5. QED
      BY <3>1, <3>3, <3>4
  <2>4. QED
    BY <2>1, <2>2, <2>3, StepKinds, FilesOf DEF LeavesFiles, WritesBlock
<1>3. ASSUME NEW q \in Run
      PROVE  /\ pc'[q] = "post" => job'[q].command = "chat"
             /\ job'[q].command = "keygen" /\ job'[q].expected # Any /\ ~job'[q].drift =>
                   \/ hashed'[q] = HashOf(job'[q].expected)
                   \/ /\ pc'[q] \in Before \cup {"done"}
                      /\ \A f \in File : ~Opened(f, q)'
  <2>1. pc'[q] \in Before => \A f \in File : ~Opened(f, q)'
    BY <1>2 DEF OpenerInv
  <2>2. pc[q] \in Before => \A f \in File : ~Opened(f, q)
    BY DEF OpenerInv
  <2>3. /\ pc[q] = "post" => job[q].command = "chat"
        /\ Bound(q) =>
              \/ hashed[q] = HashOf(job[q].expected)
              \/ pc[q] \in Before \cup {"done"} /\ \A f \in File : ~Opened(f, q)
    BY DEF HashInv
  <2>4. QED
    BY <1>1, <1>2, <2>1, <2>2, <2>3
<1>4. QED
  BY <1>3 DEF HashInv

-----------------------------------------------------------------------------
\* The theorems.

LEMMA InitInv == Init => Inv
<1> SUFFICES ASSUME Init PROVE Inv
  OBVIOUS
<1> USE WorkspaceConstants DEF Init
<1>1. RunsTyped
  BY EmptySeq DEF RunsTyped, Early
<1>2. DecodingTyped
  BY Zenon DEF DecodingTyped
<1>3. OldContent \in Seq(Block) /\ Len(OldContent) = Blocks + 1
  <2>1. \A k \in 1..(Blocks + 1) : <<Old, k>> \in Block
    BY DEF Block
  <2>2. OldContent \in [1..(Blocks + 1) -> Block] /\ Blocks + 1 \in Nat
    BY <2>1 DEF OldContent
  <2>3. QED
    BY <2>2, SeqOf
<1>4. \A f \in File : /\ Exists(f) => disk[f] = OldContent
                      /\ opened[f] = IF Exists(f) THEN <<Old>> ELSE <<>>
  BY DEF Exists
<1>5. \A f \in File, r \in Run : ~Opened(f, r)
  <2>1. ASSUME NEW f \in File, NEW r \in Run, NEW i \in DOMAIN opened[f]
        PROVE  opened[f][i] # r
    <3>1. opened[f] = <<Old>> \/ opened[f] = <<>>
      BY <1>4
    <3>2. DOMAIN <<Old>> = {1} /\ <<Old>>[1] = Old /\ Old \notin Run
      BY WorkspaceConstants
    <3>3. QED
      BY <3>1, <3>2
  <2>2. QED
    BY <2>1 DEF Opened
<1>6. \A r \in Run : pc[r] = "start" /\ exit[r] = "running" /\ ~Writing(r)
  BY DEF Writing
<1>7. FilesTyped
  <2>1. disk \in [File -> Seq(Block) \cup {Absent}]
    BY <1>3
  <2>2. \A f \in File : Exists(f) => Len(disk[f]) <= Blocks + 1
    BY <1>3, <1>4
  <2>3. opened \in [File -> Seq(Run \cup {Old})]
    <3>1. <<Old>> \in Seq(Run \cup {Old}) /\ <<>> \in Seq(Run \cup {Old})
      OBVIOUS
    <3>2. \A f \in File : (IF Exists(f) THEN <<Old>> ELSE <<>>) \in Seq(Run \cup {Old})
      BY <3>1
    <3>3. QED
      BY <3>2
  <2>4. \A f \in File : Exists(f) <=> opened[f] # <<>>
    BY <1>4
  <2>5. QED
    BY <1>6, <2>1, <2>2, <2>3, <2>4 DEF FilesTyped
<1>8. OpenerInv /\ WriterInv
  BY <1>5, <1>6 DEF OpenerInv, WriterInv, Current, Complete, Reported
<1>9. UnforcedInv /\ DecodeLiesBesideItsKey
  <2>1. \A f \in File : Exists(f) => First(f) = Old /\ Len(opened[f]) = 1 /\ disk[f] = OldContent
    BY <1>4 DEF First
  <2>2. \A n \in Name : <<n, "decode">> \in File
    BY DEF File
  <2>3. QED
    BY <2>1, <2>2 DEF UnforcedInv, DecodeLiesBesideItsKey
<1>10. HashInv
  BY <1>5, <1>6 DEF HashInv
<1>11. QED
  BY <1>1, <1>2, <1>7, <1>8, <1>9, <1>10 DEF Inv, Typed, FileInv

\* The inductive invariant behind the theorems below: who opened a file last, who is
\* writing it and how far, and what was hashed before a file was opened.
THEOREM Invariance == Spec => []Inv
<1>1. Inv /\ [Next]_vars => Inv'
  <2> SUFFICES ASSUME Inv, [Next]_vars PROVE Inv'
    OBVIOUS
  <2>1. RunsTyped' /\ DecodingTyped' /\ FilesTyped' /\ FileInv'
    BY StepKinds, FileInvStep DEF Inv
  <2>2. HashInv'
    BY HashInvStep DEF Inv
  <2>3. QED
    BY <2>1, <2>2 DEF Inv, Typed
<1>2. QED
  BY InitInv, <1>1, PTL DEF Spec

\* Every variable of the runs, the checkpoint and the disk keeps its type.
THEOREM TypeCorrectness == Spec => []TypeOK
<1>1. Inv => TypeOK
  <2> SUFFICES ASSUME Inv PROVE TypeOK
    OBVIOUS
  <2>1. \A f \in File : Exists(f) => disk[f] \in Seq(Block) /\ Len(disk[f]) <= Blocks + 1
    BY DEF Inv, Typed, FilesTyped, Exists
  <2>2. /\ job \in [Run -> Job]
        /\ checkpoint \in [1..Shards -> Version \cup {Missing}]
        /\ edits \in 0..MaxEdits
        /\ pc \in [Run -> {"start", "find_files", "hash", "expected", "generate",
                           "refuse_decode", "post", "open", "write", "open_decode",
                           "write_decode", "report", "done"}]
        /\ exit \in [Run -> {"running", "ok", "input", "hash_mismatch", "network",
                             "receipt_missing", "corrupt_envelope", "internal", "killed"}]
        /\ \A r \in Run : /\ hashed[r] \in Seq(Version) /\ Len(hashed[r]) <= Shards
                          /\ generated[r] \in Seq(Version) /\ Len(generated[r]) <= Shards
    BY DEF Inv, Typed, RunsTyped, Early
  <2>3. /\ written \in [Run -> 0..Blocks]
        /\ opened \in [File -> Seq(Run \cup {Old})]
        /\ \A f \in File : Exists(f) <=> opened[f] # <<>>
        /\ shared \subseteq File
    BY DEF Inv, Typed, FilesTyped
  <2>4. decoding \in [Run -> BOOLEAN]
    BY Zenon DEF Inv, Typed, DecodingTyped
  <2>5. QED
    BY <2>1, <2>2, <2>3, <2>4, Zenon DEF TypeOK
<1>2. QED
  BY Invariance, <1>1, PTL

\* However many runs overlap on however many paths, a file that nobody may
\* force is never touched by a second run (create_new of write_binary_output).
THEOREM NothingIsClobbered == Spec => []NoClobber
<1>1. Inv => NoClobber
  <2> SUFFICES ASSUME Inv, NEW f \in File, Exists(f), Unforced(f)
               PROVE  IF First(f) = Old THEN disk[f] = OldContent
                      ELSE disk[f] = SubSeq(Content(First(f)), 1, Len(disk[f]))
    BY DEF NoClobber
  <2>1. CASE First(f) = Old
    BY <2>1 DEF Inv, FileInv, UnforcedInv
  <2>2. CASE First(f) # Old
    <3>1. PICK k \in 0..Blocks : disk[f] = Begin(First(f), k)
      BY <2>2 DEF Inv, FileInv, UnforcedInv
    <3>2. QED
      BY <2>2, <3>1, Begins
  <2>3. QED
    BY <2>1, <2>2
<1>2. QED
  BY Invariance, <1>1, PTL

\* Exit status 0, and that of a report that cannot be made, mean that what was
\* written is on the disk, until somebody opens the file again (write_all, and
\* the order of the two artifacts).
THEOREM SuccessesAreOnDisk == Spec => []SuccessIsOnDisk
<1>1. Inv => SuccessIsOnDisk
  <2> SUFFICES ASSUME Inv, NEW r \in Run, exit[r] \in Reported, NEW f \in Outputs(r)
               PROVE  /\ Last(f) = r /\ f \notin shared => disk[f] = Content(r)
                      /\ Unforced(f) => Last(f) = r /\ f \notin shared
    BY DEF SuccessIsOnDisk
  <2>1. f \in File /\ f \in Complete(r)
    <3>1. f \in File
      BY FilesOf DEF Outputs, Inv, Typed
    <3>2. Complete(r) = Outputs(r)
      BY DEF Complete, Inv, Typed, RunsTyped, Reported
    <3>3. QED
      BY <3>1, <3>2
  <2>2. Opened(f, r) /\ (Last(f) = r /\ f \notin shared => disk[f] = Content(r))
    BY <2>1 DEF Inv, FileInv, WriterInv
  <2>3. ASSUME Unforced(f) PROVE Last(f) = r /\ f \notin shared
    <3>1. Exists(f)
      BY <2>1, <2>2, Openings DEF Inv, Typed
    <3>2. Len(opened[f]) = 1 /\ f \notin shared
      BY <2>1, <2>3, <3>1 DEF Inv, FileInv, UnforcedInv
    <3>3. QED
      BY <2>1, <2>2, <3>2 DEF Opened, Last, Inv, Typed, FilesTyped
  <2>4. QED
    BY <2>2, <2>3
<1>2. QED
  BY Invariance, <1>1, PTL

\* A decode artifact that a run has begun lies next to the complete key of that
\* run (the order in which keygen_with_options writes them).
THEOREM DecodeFollowsKey == Spec => []DecodeLiesBesideItsKey
<1>1. Inv => DecodeLiesBesideItsKey
  BY DEF Inv, FileInv
<1>2. QED
  BY Invariance, <1>1, PTL

\* A run that was bound to a checkpoint hash opens no file before it hashed
\* that checkpoint (check_expected_checkpoint_hash comes before every write).
THEOREM ExpectedHashGuards == Spec => []ExpectedHashGuardsOutput
<1>1. Inv => ExpectedHashGuardsOutput
  BY DEF Inv, HashInv, ExpectedHashGuardsOutput, Opened
<1>2. QED
  BY Invariance, <1>1, PTL
=============================================================================
