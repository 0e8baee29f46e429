--------------------------- MODULE CheckpointCache ---------------------------
(***************************************************************************)
(* download_hf_checkpoint_to of vi-keygen: processes that fill one cache   *)
(* directory from one mirror, file by file, resume what they find with a   *)
(* Range request, and hash the result.                                     *)
(*                                                                         *)
(* A file is a sequence of chunks; chunk k of version v is <<v, k>>.  An   *)
(* empty file and one that is missing are alike, as they are for the       *)
(* length the code asks for.                                               *)
(***************************************************************************)
EXTENDS Integers, Sequences

CONSTANTS
    Process,      \* the processes that download
    Files,        \* the number of files of the mirror
    Size,         \* for each version of a file, how many chunks it has
    Published,    \* the version of each file at the start
    Hole,         \* bytes nobody wrote
    MaxFaults,    \* bound: kills, failed requests and broken transfers
    MaxMoves      \* bound: how often the revision of the mirror moves

Version == DOMAIN Size

ASSUME CacheConstants ==
    /\ Files \in Nat \ {0}
    /\ Size \in [Version -> Nat \ {0}]
    /\ Published \in [1..Files -> Version]
    /\ Hole \notin Version
    /\ MaxFaults \in Nat /\ MaxMoves \in Nat

VARIABLES
    upstream, moves,    \* the version the server has of each file
    cache,              \* the files in the cache directory
    pc, outcome,        \* the next call of each process, and how it last ended
    index,              \* the file it is at
    existing,           \* the length that file had when it asked
    body, append,       \* what is left of the response, and how it is written
    offset,             \* where in the file it writes
    hashed,             \* the files it has hashed
    faults,
    alone               \* history: never two processes at a time

request == <<index, existing, body, append, offset>>
vars == <<upstream, moves, cache, pc, outcome, request, hashed, faults, alone>>

Bytes(v) == [k \in 1..Size[v] |-> <<v, k>>]

Init ==
    /\ upstream = Published
    /\ moves = 0
    /\ cache = [i \in 1..Files |-> <<>>]
    /\ pc = [p \in Process |-> "idle"]
    /\ outcome = [p \in Process |-> "none"]
    /\ index = [p \in Process |-> 1]
    /\ existing = [p \in Process |-> 0]
    /\ body = [p \in Process |-> <<>>]
    /\ append = [p \in Process |-> FALSE]
    /\ offset = [p \in Process |-> 0]
    /\ hashed = [p \in Process |-> <<>>]
    /\ faults = 0
    /\ alone = TRUE

GoTo(p, next) == pc' = [pc EXCEPT ![p] = next] /\ UNCHANGED outcome

\* The call returns; its local variables are gone.
End(p, how) ==
    /\ pc' = [pc EXCEPT ![p] = "idle"]
    /\ outcome' = [outcome EXCEPT ![p] = how]
    /\ index' = [index EXCEPT ![p] = 1]
    /\ existing' = [existing EXCEPT ![p] = 0]
    /\ body' = [body EXCEPT ![p] = <<>>]
    /\ append' = [append EXCEPT ![p] = FALSE]
    /\ offset' = [offset EXCEPT ![p] = 0]

Fault == faults < MaxFaults /\ faults' = faults + 1

\* Whoever needs the checkpoint tries until the download succeeds.
Start(p) ==
    /\ pc[p] = "idle" /\ outcome[p] # "ok"
    /\ GoTo(p, "stat")
    /\ hashed' = [hashed EXCEPT ![p] = <<>>]
    /\ alone' = (alone /\ \A q \in Process : pc[q] = "idle")
    /\ UNCHANGED <<upstream, moves, cache, request, faults>>

-----------------------------------------------------------------------------
\* download_file_with_resume

Stat(p) ==
    /\ pc[p] = "stat"
    /\ existing' = [existing EXCEPT ![p] = Len(cache[index[p]])]
    /\ GoTo(p, "send")
    /\ UNCHANGED <<upstream, moves, cache, index, body, append, offset, hashed, faults, alone>>

\* Mutant: one file too many.
NextFilePast(p) ==
    IF index[p] <= Files
    THEN index' = [index EXCEPT ![p] = @ + 1] /\ GoTo(p, "stat")
    ELSE index' = [index EXCEPT ![p] = 1] /\ GoTo(p, "hash")

\* The next file, or the hash when that was the last one.
NextFile(p) ==
    IF index[p] < Files
    THEN index' = [index EXCEPT ![p] = @ + 1] /\ GoTo(p, "stat")
    ELSE index' = [index EXCEPT ![p] = 1] /\ GoTo(p, "hash")

\* The answers of the server to the request for a file from a position on: all
\* of it, what is left, or that nothing is left.  Only a request for a range
\* gets the last two.
Answers(v, from) ==
    {[status |-> 200, body |-> Bytes(v)]}
        \cup {[status |-> 206, body |-> SubSeq(Bytes(v), from + 1, Size[v])] :
                 n \in {from} \cap 1..(Size[v] - 1)}
        \cup {[status |-> 416, body |-> <<>>] : n \in {from} \ 0..(Size[v] - 1)}

\* Mutant: appends whenever something is there, also to a complete answer.
AppendsToAll(p, status) == existing[p] > 0

\* The 206 of a server that was asked for a range is appended.
Appends(p, status) == status = 206 /\ existing[p] > 0

\* Mutant: 416 is a failure like any other status.
CompleteNever(p, status) == FALSE

\* An unsatisfiable range of a file that is there: it is complete already.
Complete(p, status) == status = 416 /\ existing[p] > 0

Receive(p) ==
    /\ pc[p] = "send"
    /\ \E answer \in Answers(upstream[index[p]], existing[p]) :
          \/ /\ Complete(p, answer.status)
             /\ NextFile(p)
             /\ UNCHANGED <<existing, body, append, offset>>
          \/ /\ answer.status \in {200, 206}
             /\ body' = [body EXCEPT ![p] = answer.body]
             /\ append' = [append EXCEPT ![p] = Appends(p, answer.status)]
             /\ GoTo(p, "open")
             /\ UNCHANGED <<index, existing, offset>>
          \/ /\ ~Complete(p, answer.status)
             /\ answer.status \notin {200, 206}
             /\ End(p, "network")
    /\ UNCHANGED <<upstream, moves, cache, hashed, faults, alone>>

\* Any other status, or no answer.
RequestFails(p) ==
    /\ pc[p] = "send"
    /\ Fault
    /\ End(p, "network")
    /\ UNCHANGED <<upstream, moves, cache, hashed, alone>>

-----------------------------------------------------------------------------
\* write_response

Open(p) ==
    /\ pc[p] = "open"
    /\ cache' = IF append[p] THEN cache ELSE [cache EXCEPT ![index[p]] = <<>>]
    /\ GoTo(p, "copy")
    /\ UNCHANGED <<upstream, moves, request, hashed, faults, alone>>

\* A write at an offset: what lies between the end of the file and it is a hole.
WriteAt(content, at, chunk) ==
    [k \in 1..(IF Len(content) < at THEN at ELSE Len(content)) |->
        IF k = at THEN chunk
        ELSE IF k <= Len(content) THEN content[k]
        ELSE <<Hole, k>>]

\* Mutant: the file is opened for writing at its start in either case.
PositionFromStart(p) == offset[p] + 1

\* The position of the next write: O_APPEND finds the end at each write.
Position(p) == IF append[p] THEN Len(cache[index[p]]) + 1 ELSE offset[p] + 1

\* io::copy
Copy(p) ==
    /\ pc[p] = "copy"
    /\ IF body[p] = <<>>
       THEN /\ NextFile(p)
            /\ offset' = [offset EXCEPT ![p] = 0]
            /\ append' = [append EXCEPT ![p] = FALSE]
            /\ UNCHANGED <<cache, body>>
       ELSE /\ cache' = [cache EXCEPT ![index[p]] = WriteAt(@, Position(p), Head(body[p]))]
            /\ body' = [body EXCEPT ![p] = Tail(@)]
            /\ offset' = [offset EXCEPT ![p] = IF append[p] THEN 0 ELSE @ + 1]
            /\ GoTo(p, "copy")
            /\ UNCHANGED <<index, append>>
    /\ UNCHANGED <<upstream, moves, existing, hashed, faults, alone>>

\* The file system fails, or the transfer breaks off.
FileFails(p) ==
    /\ pc[p] \in {"stat", "open", "copy", "hash"}
    /\ Fault
    /\ End(p, "input")
    /\ UNCHANGED <<upstream, moves, cache, hashed, alone>>

-----------------------------------------------------------------------------
\* The loop of canonical_checkpoint_hash, one file per step.
HashFile(p) ==
    LET i == Len(hashed[p]) + 1 IN
    /\ pc[p] = "hash"
    /\ hashed' = [hashed EXCEPT ![p] = Append(@, cache[i])]
    /\ IF i = Files THEN End(p, "ok") ELSE GoTo(p, "hash") /\ UNCHANGED request
    /\ UNCHANGED <<upstream, moves, cache, faults, alone>>

-----------------------------------------------------------------------------
\* The surroundings of the processes.

Kill(p) ==
    /\ pc[p] # "idle"
    /\ Fault
    /\ End(p, "killed")
    /\ UNCHANGED <<upstream, moves, cache, hashed, alone>>

\* A revision that is a branch or a tag moves on.
Move ==
    /\ moves < MaxMoves
    /\ moves' = moves + 1
    /\ \E i \in 1..Files, v \in Version : upstream' = [upstream EXCEPT ![i] = v]
    /\ UNCHANGED <<cache, pc, outcome, request, hashed, faults, alone>>

Advance(p) == Start(p) \/ Stat(p) \/ Receive(p) \/ Open(p) \/ Copy(p) \/ HashFile(p)

Next ==
    \/ \E p \in Process : Advance(p) \/ RequestFails(p) \/ FileFails(p) \/ Kill(p)
    \/ Move

Spec == Init /\ [][Next]_vars

\* Every process is scheduled and started again after a failure, and the server
\* answers.
FairSpec == Spec /\ \A p \in Process : WF_vars(Advance(p))

-----------------------------------------------------------------------------
\* Properties.

\* Every variable holds a value the processes can give it.
TypeOK ==
    /\ upstream \in [1..Files -> Version]
    /\ moves \in 0..MaxMoves
    /\ \A i \in 1..Files : cache[i] \in Seq((Version \cup {Hole}) \X (Nat \ {0}))
    /\ pc \in [Process -> {"idle", "stat", "send", "open", "copy", "hash"}]
    /\ outcome \in [Process -> {"none", "ok", "network", "input", "killed"}]
    /\ index \in [Process -> 1..Files]
    /\ existing \in [Process -> Nat]
    /\ append \in [Process -> BOOLEAN]
    /\ offset \in [Process -> Nat]
    /\ \A p \in Process : Len(hashed[p]) <= Files
    /\ faults \in 0..MaxFaults
    /\ alone \in BOOLEAN

IsPrefixOf(s, t) == Len(s) <= Len(t) /\ s = SubSeq(t, 1, Len(s))

\* Processes that take turns on a mirror that does not move leave nothing but
\* beginnings of its files in the cache, wherever they are killed or cut off
\* and whether or not the server honours the range; and what a download that
\* succeeds has hashed is the mirror.  (download_file_with_resume)
ResumeIsExact ==
    alone /\ moves = 0 =>
        /\ \A i \in 1..Files : IsPrefixOf(cache[i], Bytes(upstream[i]))
        /\ \A p \in Process :
              outcome[p] = "ok" => hashed[p] = [i \in 1..Files |-> Bytes(upstream[i])]

\* Even when the mirror moves between two attempts, processes that take turns
\* put every chunk where it belongs: a resumed file is the beginning of one
\* version and the rest of others, without a gap or a repetition.
ChunksStayInPlace ==
    alone =>
        \A i \in 1..Files : \A k \in DOMAIN cache[i] :
            \E v \in Version : cache[i][k] = <<v, k>>

\* Who tries again until it works gets there: no state of the cache makes every
\* further attempt fail.  (the arm for RANGE_NOT_SATISFIABLE)
Completes == <>(\A p \in Process : outcome[p] = "ok")
=============================================================================
