------------------------ MODULE CheckpointCacheProofs ------------------------
(***************************************************************************)
(* Proofs about CheckpointCache.tla: for any number of processes, files,   *)
(* versions and faults, type correctness and what the processes leave in   *)
(* the cache as long as they take turns.                                   *)
(*                                                                         *)
(* The argument: a process that took its turn knows the length of the file *)
(* it is at, and what is left of its response is what follows that length  *)
(* in some version of the file; in the published one while the mirror has  *)
(* not moved.                                                              *)
(***************************************************************************)
EXTENDS CheckpointCache, SequenceTheorems, TLAPS

Chunk == (Version \cup {Hole}) \X (Nat \ {0})
Sent == Version \X (Nat \ {0})

\* The first n chunks of a version, and those after them.
First(v, n) == [k \in 1..n |-> <<v, k>>]
Rest(v, n) == [k \in 1..(Size[v] - n) |-> <<v, n + k>>]

AtFile == {"stat", "send", "open", "copy"}

\* TypeOK, and what the local variables of a process are worth where it is.
Ranges ==
    /\ upstream \in [1..Files -> Version]
    /\ moves \in 0..MaxMoves
    /\ cache \in [1..Files -> Seq(Chunk)]
    /\ pc \in [Process -> {"idle", "hash"} \cup AtFile]
    /\ outcome \in [Process -> {"none", "ok", "network", "input", "killed"}]
    /\ index \in [Process -> 1..Files]
    /\ existing \in [Process -> Nat]
    /\ body \in [Process -> Seq(Sent)]
    /\ offset \in [Process -> Nat]
    /\ hashed \in [Process -> Seq(Seq(Chunk))]
    /\ faults \in 0..MaxFaults

Local(p) ==
    /\ Len(hashed[p]) <= Files
    /\ pc[p] = "hash" => Len(hashed[p]) < Files
    /\ pc[p] \in AtFile => Len(hashed[p]) = 0
    /\ pc[p] # "copy" => offset[p] = 0
    /\ outcome[p] = "ok" => pc[p] = "idle"
    /\ pc[p] = "idle" => index[p] = 1

Typed == Ranges /\ \A p \in Process : Local(p)

Flags == append \in [Process -> BOOLEAN] /\ alone \in BOOLEAN

\* Who takes turns is alone.
AloneInv ==
    alone => \A p, q \in Process : pc[p] # "idle" /\ pc[q] # "idle" => p = q

\* Where p writes next, before the first chunk of it is written.
At(p) == IF pc[p] = "open" /\ ~append[p] THEN 0 ELSE Len(cache[index[p]])

\* p knows the length of its file, and what is left of the response follows it.
Knows(p) ==
    /\ pc[p] = "send" => existing[p] = Len(cache[index[p]])
    /\ pc[p] \in {"open", "copy"} =>
          /\ ~append[p] => offset[p] = At(p)
          /\ \E v \in Version :
                /\ moves = 0 => v = upstream[index[p]]
                /\ At(p) <= Size[v] /\ body[p] = Rest(v, At(p))

KnowInv == alone => \A p \in Process : Knows(p)

\* What p left behind it is the mirror, and so is what it hashed.
Exact(p) ==
    /\ pc[p] \in AtFile =>
          \A i \in 1..Files : i < index[p] => cache[i] = Bytes(upstream[i])
    /\ pc[p] = "hash" =>
          /\ \A i \in 1..Files : cache[i] = Bytes(upstream[i])
          /\ \A i \in 1..Len(hashed[p]) : hashed[p][i] = Bytes(upstream[i])
    /\ outcome[p] = "ok" => hashed[p] = [i \in 1..Files |-> Bytes(upstream[i])]

Beginnings ==
    \A i \in 1..Files : \E n \in 0..Size[upstream[i]] : cache[i] = First(upstream[i], n)

ExactInv == alone /\ moves = 0 => Beginnings /\ \A p \in Process : Exact(p)

InPlace == \A i \in 1..Files : \A k \in DOMAIN cache[i] : \E v \in Version : cache[i][k] = <<v, k>>

Turns == AloneInv /\ KnowInv /\ (alone => InPlace) /\ ExactInv

Inv == Typed /\ Flags /\ Turns

-----------------------------------------------------------------------------
\* Facts about sequences of chunks.

LEMMA SeqOf ==
    ASSUME NEW S, NEW n \in Nat, NEW w \in [1..n -> S]
    PROVE  w \in Seq(S) /\ Len(w) = n
  OBVIOUS

LEMMA SameSeq ==
    ASSUME NEW S, NEW s \in Seq(S), NEW t \in Seq(S), NEW n \in Nat,
           Len(s) = n, Len(t) = n, \A k \in 1..n : s[k] = t[k]
    PROVE  s = t
  BY SeqEqual

LEMMA Sizes == \A v \in Version : Size[v] \in Nat \ {0} /\ v \in Version \cup {Hole}
  BY CacheConstants

LEMMA RestOf ==
    ASSUME NEW S, NEW t \in Seq(S), NEW n \in Nat, n < Len(t)
    PROVE  /\ SubSeq(t, n + 1, Len(t)) \in Seq(S) /\ Len(SubSeq(t, n + 1, Len(t))) = Len(t) - n
           /\ \A k \in 1..(Len(t) - n) : SubSeq(t, n + 1, Len(t))[k] = t[n + k]
  OBVIOUS

LEMMA Firsts ==
    ASSUME NEW v \in Version
    PROVE  /\ First(v, 0) = <<>> /\ Bytes(v) = First(v, Size[v])
           /\ \A n \in Nat : /\ First(v, n) \in Seq(Chunk) /\ First(v, n) \in Seq(Sent)
                             /\ Len(First(v, n)) = n
                             /\ Append(First(v, n), <<v, n + 1>>) = First(v, n + 1)
           /\ \A n \in 0..Size[v] : IsPrefixOf(First(v, n), Bytes(v))
<1>1. ASSUME NEW n \in Nat
      PROVE  /\ First(v, n) \in [1..n -> Chunk] /\ First(v, n) \in [1..n -> Sent]
             /\ First(v, n) \in Seq(Chunk) /\ First(v, n) \in Seq(Sent) /\ Len(First(v, n)) = n
  <2>1. \A k \in 1..n : <<v, k>> \in Chunk /\ <<v, k>> \in Sent
    BY DEF Chunk, Sent
  <2>2. First(v, n) \in [1..n -> Chunk] /\ First(v, n) \in [1..n -> Sent]
    BY <2>1 DEF First
  <2>3. QED
    BY <2>2, SeqOf
<1>2. ASSUME NEW n \in Nat PROVE Append(First(v, n), <<v, n + 1>>) = First(v, n + 1)
  <2>1. <<v, n + 1>> \in Sent /\ First(v, n) \in Seq(Sent) /\ Len(First(v, n)) = n
    <3>1. <<v, n + 1>> \in Sent
      BY DEF Sent
    <3>2. QED
      BY <1>1, <3>1
  <2>2. \A k \in 1..n : First(v, n)[k] = <<v, k>>
    BY DEF First
  <2>3. /\ Append(First(v, n), <<v, n + 1>>) \in Seq(Sent)
        /\ Len(Append(First(v, n), <<v, n + 1>>)) = n + 1
        /\ \A k \in 1..(n + 1) : Append(First(v, n), <<v, n + 1>>)[k] = <<v, k>>
    BY <2>1, <2>2
  <2>4. /\ First(v, n + 1) \in Seq(Sent) /\ Len(First(v, n + 1)) = n + 1
        /\ \A k \in 1..(n + 1) : First(v, n + 1)[k] = <<v, k>>
    BY <1>1 DEF First
  <2>5. QED
    <3>1. n + 1 \in Nat
      OBVIOUS
    <3>2. QED
      BY <2>3, <2>4, <3>1, SameSeq
<1>3. First(v, 0) = <<>> /\ Bytes(v) = First(v, Size[v])
  BY DEF First, Bytes
<1>4. ASSUME NEW n \in 0..Size[v] PROVE IsPrefixOf(First(v, n), Bytes(v))
  <2>1. /\ n \in Nat /\ Size[v] \in Nat /\ n <= Size[v]
        /\ Bytes(v) \in Seq(Sent) /\ Len(Bytes(v)) = Size[v]
        /\ \A k \in 1..Size[v] : Bytes(v)[k] = <<v, k>>
    <3>1. n \in Nat /\ Size[v] \in Nat /\ n <= Size[v]
      BY Sizes
    <3>2. QED
      BY <1>1, <1>3, <3>1 DEF Bytes
  <2>2. /\ SubSeq(Bytes(v), 1, n) \in Seq(Sent) /\ Len(SubSeq(Bytes(v), 1, n)) = n
        /\ \A k \in 1..n : SubSeq(Bytes(v), 1, n)[k] = <<v, k>>
    BY <2>1
  <2>3. /\ First(v, n) \in Seq(Sent) /\ Len(First(v, n)) = n
        /\ \A k \in 1..n : First(v, n)[k] = <<v, k>>
    BY <1>1, <2>1 DEF First
  <2>4. First(v, n) = SubSeq(Bytes(v), 1, n)
    BY <2>2, <2>3, SeqEqual
  <2>5. QED
    BY <2>1, <2>3, <2>4 DEF IsPrefixOf
<1>5. QED
  BY <1>1, <1>2, <1>3, <1>4

LEMMA Rests ==
    ASSUME NEW v \in Version, NEW n \in 0..Size[v]
    PROVE  /\ Rest(v, n) \in Seq(Sent) /\ Len(Rest(v, n)) = Size[v] - n
           /\ Rest(v, 0) = Bytes(v)
           /\ n < Size[v] => SubSeq(Bytes(v), n + 1, Size[v]) = Rest(v, n)
           /\ Rest(v, n) = <<>> <=> n = Size[v]
           /\ n < Size[v] => /\ Head(Rest(v, n)) = <<v, n + 1>>
                             /\ Tail(Rest(v, n)) = Rest(v, n + 1)
<1> DEFINE s == Size[v]
<1>1. s \in Nat /\ n \in Nat /\ n <= s
  BY Sizes
<1> HIDE DEF s
<1>2. ASSUME NEW m \in 0..s
      PROVE  /\ Rest(v, m) \in Seq(Sent) /\ Len(Rest(v, m)) = s - m
             /\ \A k \in 1..(s - m) : Rest(v, m)[k] = <<v, m + k>>
  <2>1. s - m \in Nat /\ \A k \in 1..(s - m) : <<v, m + k>> \in Sent
    BY <1>1 DEF Sent
  <2>2. Rest(v, m) = [k \in 1..(s - m) |-> <<v, m + k>>]
    BY DEF Rest, s
  <2>3. Rest(v, m) \in [1..(s - m) -> Sent]
    BY <2>1, <2>2
  <2>4. Rest(v, m) \in Seq(Sent) /\ Len(Rest(v, m)) = s - m
    BY <2>1, <2>3, SeqOf
  <2>5. QED
    BY <2>2, <2>4
<1>3. /\ Bytes(v) \in Seq(Sent) /\ Len(Bytes(v)) = s
      /\ \A k \in 1..s : Bytes(v)[k] = <<v, k>>
  BY <1>1, Firsts DEF Bytes, s
<1>4. Rest(v, 0) = Bytes(v)
  <2>1. 0 \in 0..s /\ s - 0 = s /\ \A k \in 1..s : 0 + k = k
    BY <1>1
  <2>2. /\ Rest(v, 0) \in Seq(Sent) /\ Len(Rest(v, 0)) = s
        /\ \A k \in 1..s : Rest(v, 0)[k] = <<v, k>>
    BY <1>2, <2>1
  <2>3. \A k \in 1..s : Rest(v, 0)[k] = Bytes(v)[k]
    BY <1>3, <2>2
  <2>4. QED
    BY <1>1, <1>3, <2>2, <2>3, SameSeq
<1>5. ASSUME n < s PROVE SubSeq(Bytes(v), n + 1, s) = Rest(v, n)
  <2>1. /\ SubSeq(Bytes(v), n + 1, s) \in Seq(Sent) /\ Len(SubSeq(Bytes(v), n + 1, s)) = s - n
        /\ \A k \in 1..(s - n) : SubSeq(Bytes(v), n + 1, s)[k] = <<v, n + k>>
    <3>1. /\ Bytes(v) \in Seq(Sent) /\ Len(Bytes(v)) = s
          /\ n \in Nat /\ n < s
      BY <1>1, <1>3, <1>5
    <3>2. \A k \in 1..(s - n) : n + k \in 1..s
      BY <1>1
    <3>3. /\ SubSeq(Bytes(v), n + 1, s) \in Seq(Sent) /\ Len(SubSeq(Bytes(v), n + 1, s)) = s - n
          /\ \A k \in 1..(s - n) : SubSeq(Bytes(v), n + 1, s)[k] = Bytes(v)[n + k]
      BY <3>1, RestOf
    <3>4. QED
      BY <1>3, <3>2, <3>3
  <2>2. QED
    <3>1. n \in 0..s /\ s - n \in Nat
      BY <1>1
    <3>2. /\ Rest(v, n) \in Seq(Sent) /\ Len(Rest(v, n)) = s - n
          /\ \A k \in 1..(s - n) : Rest(v, n)[k] = <<v, n + k>>
      BY <1>2, <3>1
    <3>3. \A k \in 1..(s - n) : SubSeq(Bytes(v), n + 1, s)[k] = Rest(v, n)[k]
      BY <2>1, <3>2
    <3>4. QED
      BY <2>1, <3>1, <3>2, <3>3, SameSeq
<1>6. Rest(v, n) = <<>> <=> n = s
  <2>1. Rest(v, n) \in Seq(Sent) /\ Len(Rest(v, n)) = s - n
    BY <1>1, <1>2
  <2>2. QED
    BY <1>1, <2>1, EmptySeq
<1>7. ASSUME n < s
      PROVE  Head(Rest(v, n)) = <<v, n + 1>> /\ Tail(Rest(v, n)) = Rest(v, n + 1)
  <2>1. /\ Rest(v, n) \in Seq(Sent) /\ Len(Rest(v, n)) = s - n /\ s - n \in Nat \ {0}
        /\ \A k \in 1..(s - n) : Rest(v, n)[k] = <<v, n + k>>
    <3>1. n \in 0..s /\ s - n \in Nat \ {0}
      BY <1>1, <1>7
    <3>2. QED
      BY <1>2, <3>1
  <2>2. /\ Tail(Rest(v, n)) \in Seq(Sent) /\ Len(Tail(Rest(v, n))) = s - (n + 1)
        /\ \A k \in 1..(s - (n + 1)) : Tail(Rest(v, n))[k] = <<v, (n + 1) + k>>
    BY <1>1, <2>1
  <2>3. n + 1 \in 0..s
    BY <1>1, <1>7
  <2>4. QED
    <3>1. /\ Rest(v, n + 1) \in Seq(Sent) /\ Len(Rest(v, n + 1)) = s - (n + 1)
          /\ \A k \in 1..(s - (n + 1)) : Rest(v, n + 1)[k] = <<v, (n + 1) + k>>
      BY <1>2, <2>3
    <3>2. s - (n + 1) \in Nat
      BY <1>1, <1>7
    <3>3. Tail(Rest(v, n)) = Rest(v, n + 1)
      BY <2>2, <3>1, <3>2, SameSeq
    <3>4. Head(Rest(v, n)) = <<v, n + 1>>
      BY <2>1
    <3>5. QED
      BY <3>3, <3>4
<1>8. QED
  BY <1>1, <1>2, <1>4, <1>5, <1>6, <1>7 DEF s

\* A write to the end of a file appends; a write anywhere keeps it a file.
LEMMA WriteAtType ==
    ASSUME NEW c \in Seq(Chunk), NEW at \in Nat \ {0}, NEW chunk \in Chunk
    PROVE  /\ WriteAt(c, at, chunk) \in Seq(Chunk)
           /\ at = Len(c) + 1 => WriteAt(c, at, chunk) = Append(c, chunk)
<1> DEFINE n == IF Len(c) < at THEN at ELSE Len(c)
           w == [k \in 1..n |-> IF k = at THEN chunk
                                ELSE IF k <= Len(c) THEN c[k] ELSE <<Hole, k>>]
<1>1. n \in Nat /\ WriteAt(c, at, chunk) = w
  BY DEF WriteAt
<1>2. \A k \in 1..n : w[k] \in Chunk
  BY <1>1 DEF Chunk
<1>3. w \in [1..n -> Chunk]
  BY <1>2
<1>4. w \in Seq(Chunk) /\ Len(w) = n
  BY <1>1, <1>3, SeqOf
<1>5. ASSUME at = Len(c) + 1 PROVE w = Append(c, chunk)
  <2>1. n = Len(c) + 1
    BY <1>5
  <2>2. /\ Append(c, chunk) \in Seq(Chunk) /\ Len(Append(c, chunk)) = Len(c) + 1
        /\ \A k \in 1..(Len(c) + 1) : Append(c, chunk)[k] = IF k = at THEN chunk ELSE c[k]
    BY <1>5
  <2>3. \A k \in 1..(Len(c) + 1) : w[k] = IF k = at THEN chunk ELSE c[k]
    BY <1>5, <2>1
  <2>4. QED
    <3>1. Len(c) + 1 \in Nat
      OBVIOUS
    <3>2. w \in Seq(Chunk) /\ Len(w) = Len(c) + 1
      BY <1>4, <2>1
    <3>3. \A k \in 1..(Len(c) + 1) : w[k] = Append(c, chunk)[k]
      BY <2>2, <2>3
    <3> HIDE DEF w
    <3>4. QED
      BY <2>2, <3>1, <3>2, <3>3, SameSeq
<1>6. QED
  BY <1>1, <1>4, <1>5

-----------------------------------------------------------------------------
\* The steps, and what they do to one process.

\* A failure or a kill.
EndsTurn(p) ==
    /\ pc[p] # "idle"
    /\ \E how \in {"network", "input", "killed"} : End(p, how)
    /\ faults' \in 0..MaxFaults
    /\ UNCHANGED <<upstream, moves, cache, hashed, alone>>

\* The answer to a request of p opens with chunk n + 1 of the version.
Receives(p, v, n) ==
    /\ pc[p] = "send" /\ v = upstream[index[p]]
    /\ n > 0 => n = existing[p] /\ n < Size[v]
    /\ body' = [body EXCEPT ![p] = Rest(v, n)]
    /\ \/ n = 0 /\ append' = [append EXCEPT ![p] = FALSE]
       \/ n > 0 /\ append' = [append EXCEPT ![p] = TRUE]
    /\ GoTo(p, "open")
    /\ UNCHANGED <<upstream, moves, cache, index, existing, offset, hashed, faults, alone>>

\* p is done with its file: there is nothing left of it.
LeavesFile(p) ==
    /\ \/ pc[p] = "send" /\ existing[p] >= Size[upstream[index[p]]]
       \/ pc[p] = "copy" /\ body[p] = <<>>
    /\ NextFile(p)
    /\ existing' = existing /\ body' = body
    /\ offset' = [offset EXCEPT ![p] = 0]
    /\ append' = append \/ append' = [append EXCEPT ![p] = FALSE]
    /\ UNCHANGED <<upstream, moves, cache, hashed, faults, alone>>

WritesChunk(p) ==
    /\ pc[p] = "copy" /\ body[p] # <<>>
    /\ cache' = [cache EXCEPT ![index[p]] = WriteAt(@, Position(p), Head(body[p]))]
    /\ body' = [body EXCEPT ![p] = Tail(@)]
    /\ offset' = [offset EXCEPT ![p] = IF append[p] THEN 0 ELSE @ + 1]
    /\ UNCHANGED <<upstream, moves, pc, outcome, index, existing, append, hashed, faults, alone>>

LEMMA StepKinds ==
    ASSUME Typed, Next
    PROVE  \/ Move
           \/ \E p \in Process :
                 \/ Start(p) \/ Stat(p) \/ Open(p) \/ HashFile(p)
                 \/ EndsTurn(p) \/ LeavesFile(p) \/ WritesChunk(p)
                 \/ \E v \in Version, n \in Nat : Receives(p, v, n)
<1> USE DEF Typed, Ranges, Local
<1>1. ASSUME NEW p \in Process, Receive(p)
      PROVE  \/ EndsTurn(p) \/ LeavesFile(p)
             \/ \E v \in Version, n \in Nat : Receives(p, v, n)
  <2>0. PICK v \in Version, from \in Nat : v = upstream[index[p]] /\ from = existing[p]
    BY DEF Typed
  <2>1. /\ Size[v] \in Nat \ {0} /\ pc[p] = "send"
        /\ offset[p] = 0 /\ offset \in [Process -> Nat] /\ faults \in 0..MaxFaults
    BY <1>1, Sizes DEF Typed, Receive
  <2>2. PICK answer \in Answers(v, from) :
          \/ /\ Complete(p, answer.status)
             /\ NextFile(p)
             /\ UNCHANGED <<existing, body, append, offset>>
          \/ /\ answer.status \in {200, 206}
             /\ body' = [body EXCEPT ![p] = answer.body]
             /\ append' = [append EXCEPT ![p] = Appends(p, answer.status)]
             /\ GoTo(p, "open")
             /\ UNCHANGED <<index, existing, offset>>
          \/ /\ ~Complete(p, answer.status)
             /\ answer.status \notin {200, 206}
             /\ End(p, "network")
    BY <1>1, <2>0 DEF Receive
  <2>3. UNCHANGED <<upstream, moves, cache, hashed, faults, alone>>
    BY <1>1 DEF Receive
  <2>4. \/ answer.status = 200 /\ answer.body = Rest(v, 0)
        \/ answer.status = 206 /\ from > 0 /\ from < Size[v] /\ answer.body = Rest(v, from)
        \/ answer.status = 416 /\ from >= Size[v]
    <3>1. Rest(v, 0) = Bytes(v)
      BY <2>1, Rests
    <3>2. ASSUME from < Size[v] PROVE SubSeq(Bytes(v), from + 1, Size[v]) = Rest(v, from)
      <4>1. from \in 0..Size[v]
        BY <2>1, <3>2
      <4>2. QED
        BY <3>2, <4>1, Rests
    <3>3. \/ answer = [status |-> 200, body |-> Bytes(v)]
          \/ /\ from \in 1..(Size[v] - 1)
             /\ answer = [status |-> 206, body |-> SubSeq(Bytes(v), from + 1, Size[v])]
          \/ from \notin 0..(Size[v] - 1) /\ answer = [status |-> 416, body |-> <<>>]
      BY <2>2 DEF Answers
    <3>4. CASE from \notin 0..(Size[v] - 1) /\ answer = [status |-> 416, body |-> <<>>]
      BY <2>1, <3>4
    <3>5. CASE /\ from \in 1..(Size[v] - 1)
               /\ answer = [status |-> 206, body |-> SubSeq(Bytes(v), from + 1, Size[v])]
      BY <2>1, <3>2, <3>5, SMTT(30)
    <3>6. QED
      BY <3>1, <3>3, <3>4, <3>5, SMTT(30)
  <2>5. CASE Complete(p, answer.status) /\ NextFile(p) /\ UNCHANGED <<existing, body, append, offset>>
    <3>1. from >= Size[v]
      BY <2>0, <2>4, <2>5 DEF Complete
    <3>2. offset' = [offset EXCEPT ![p] = 0]
      BY <2>1, <2>5
    <3>3. QED
      BY <2>0, <2>1, <2>3, <2>5, <3>1, <3>2 DEF LeavesFile
  <2>6. CASE /\ answer.status \in {200, 206}
             /\ body' = [body EXCEPT ![p] = answer.body]
             /\ append' = [append EXCEPT ![p] = Appends(p, answer.status)]
             /\ GoTo(p, "open")
             /\ UNCHANGED <<index, existing, offset>>
    <3> DEFINE Kept == /\ body' = [body EXCEPT ![p] = answer.body]
                       /\ GoTo(p, "open")
                       /\ UNCHANGED <<index, existing, offset>>
    <3>0. Kept
      BY <2>6, Zenon
    <3>1. CASE answer.status = 200
      <4>1. Appends(p, answer.status) = FALSE
        BY <3>1 DEF Appends
      <4>2. append' = [append EXCEPT ![p] = FALSE]
        BY <2>6, <4>1, Zenon
      <4>3. body' = [body EXCEPT ![p] = Rest(v, 0)] /\ GoTo(p, "open")
        <5>1. answer.body = Rest(v, 0)
          BY <2>4, <3>1
        <5>2. QED
          BY <3>0, <5>1, Zenon
      <4>4. Receives(p, v, 0)
        <5>1. v = upstream[index[p]]
          BY <2>0
        <5>2. ~(0 > 0)
          OBVIOUS
        <5>3. QED
          BY <2>1, <2>3, <3>0, <4>2, <4>3, <5>1, <5>2, Zenon DEF Receives
      <4>5. QED
        BY <4>4
    <3>2. CASE answer.status = 206
      <4>1. Appends(p, answer.status) = TRUE
        BY <2>0, <2>4, <3>2 DEF Appends
      <4>2. append' = [append EXCEPT ![p] = TRUE]
        BY <2>6, <4>1, Zenon
      <4>3. body' = [body EXCEPT ![p] = Rest(v, from)] /\ GoTo(p, "open")
        <5>1. answer.body = Rest(v, from)
          BY <2>4, <3>2
        <5>2. QED
          BY <3>0, <5>1, Zenon
      <4>4. Receives(p, v, from)
        <5>1. v = upstream[index[p]] /\ (from > 0 => from = existing[p] /\ from < Size[v])
          BY <2>0, <2>1, <2>4, <3>2
        <5>2. from > 0
          BY <2>4, <3>2
        <5>3. QED
          BY <2>1, <2>3, <3>0, <4>2, <4>3, <5>1, <5>2, Zenon DEF Receives
      <4>5. QED
        BY <4>4
    <3>3. QED
      BY <2>6, <3>1, <3>2
  <2>7. CASE End(p, "network")
    BY <2>1, <2>3, <2>7 DEF EndsTurn
  <2>8. QED
    BY <2>2, <2>5, <2>6, <2>7
<1>2. ASSUME NEW p \in Process, Copy(p)
      PROVE  LeavesFile(p) \/ WritesChunk(p)
  <2>1. CASE body[p] = <<>>
    BY <1>2, <2>1 DEF Copy, LeavesFile
  <2>2. CASE body[p] # <<>>
    <3>1. pc' = pc /\ outcome' = outcome
      BY <1>2, <2>2 DEF Copy, GoTo, Typed
    <3>2. QED
      BY <1>2, <2>2, <3>1 DEF Copy, WritesChunk
  <2>3. QED
    BY <2>1, <2>2
<1>3. ASSUME NEW p \in Process, RequestFails(p) \/ FileFails(p) \/ Kill(p)
      PROVE  EndsTurn(p)
  <2>1. Fault => faults' \in 0..MaxFaults
    BY CacheConstants DEF Fault, Typed
  <2>2. CASE RequestFails(p)
    BY <2>1, <2>2 DEF RequestFails, EndsTurn
  <2>3. CASE FileFails(p)
    BY <2>1, <2>3 DEF FileFails, EndsTurn
  <2>4. CASE Kill(p)
    BY <2>1, <2>4 DEF Kill, EndsTurn
  <2>5. QED
    BY <1>3, <2>2, <2>3, <2>4
<1>4. QED
  BY <1>1, <1>2, <1>3 DEF Next, Advance

LEMMA EndRanges ==
    ASSUME Ranges, NEW p \in Process, NEW how \in {"ok", "network", "input", "killed"},
           End(p, how), UNCHANGED <<upstream, moves, cache>>,
           hashed' \in [Process -> Seq(Seq(Chunk))], faults' \in 0..MaxFaults
    PROVE  Ranges'
<1>1. 1 \in 1..Files /\ <<>> \in Seq(Sent)
  BY CacheConstants, EmptySeq
<1>2. /\ pc' \in [Process -> {"idle", "hash"} \cup AtFile]
      /\ outcome' \in [Process -> {"none", "ok", "network", "input", "killed"}]
      /\ index' \in [Process -> 1..Files] /\ existing' \in [Process -> Nat]
      /\ body' \in [Process -> Seq(Sent)] /\ offset' \in [Process -> Nat]
  BY <1>1 DEF End, Ranges
<1>3. QED
  BY <1>2 DEF Ranges

\* Every step leaves the variables well typed.
LEMMA TypedStep ==
    ASSUME Typed, [Next]_vars
    PROVE  Typed'
<1> USE DEF Typed, AtFile
\* What a step of p must show: the others stay where they are.
<1> DEFINE Others(p) ==
             \A q \in Process \ {p} :
                /\ hashed'[q] = hashed[q] /\ pc'[q] = pc[q]
                /\ offset'[q] = offset[q] /\ outcome'[q] = outcome[q]
                /\ index'[q] = index[q]
<1>1. ASSUME NEW p \in Process, Ranges', Others(p), Local(p)' PROVE Typed'
  <2>1. \A q \in Process \ {p} : Local(q)'
    BY <1>1 DEF Local
  <2>2. QED
    BY <1>1, <2>1
<1> HIDE DEF Others
<1>2. CASE UNCHANGED vars
  BY <1>2 DEF vars, request, Ranges, Local
<1>3. CASE Move
  <2>1. Ranges'
    <3>1. moves' \in 0..MaxMoves /\ upstream' \in [1..Files -> Version]
      BY <1>3, CacheConstants DEF Move, Ranges
    <3>2. QED
      BY <1>3, <3>1 DEF Move, request, Ranges
  <2>2. \A p \in Process : Local(p)'
    BY <1>3 DEF Move, request, Local
  <2>3. QED
    BY <2>1, <2>2
<1>4. ASSUME NEW p \in Process, Start(p) PROVE Typed'
  <2>1. /\ pc' = [pc EXCEPT ![p] = "stat"] /\ hashed' = [hashed EXCEPT ![p] = <<>>]
        /\ pc[p] = "idle" /\ outcome[p] # "ok"
        /\ UNCHANGED <<upstream, moves, cache, outcome, index, existing, body, offset, faults>>
    BY <1>4 DEF Start, GoTo, request
  <2>2. Ranges'
    BY <2>1, EmptySeq DEF Ranges
  <2>3. Others(p) /\ Local(p)'
    BY <2>1, CacheConstants DEF Ranges, Others, Local
  <2>4. QED
    BY <1>1, <2>2, <2>3
<1>5. ASSUME NEW p \in Process, Stat(p) PROVE Typed'
  <2>1. Ranges' /\ Others(p) /\ Local(p)'
    BY <1>5 DEF Stat, GoTo, Ranges, Others, Local
  <2>2. QED
    BY <1>1, <2>1
<1>6. ASSUME NEW p \in Process, Open(p) PROVE Typed'
  <2>1. cache' \in [1..Files -> Seq(Chunk)]
    BY <1>6, EmptySeq DEF Open, Ranges
  <2>2. Ranges' /\ Others(p) /\ Local(p)'
    BY <1>6, <2>1 DEF Open, GoTo, request, Ranges, Others, Local
  <2>3. QED
    BY <1>1, <2>2
<1>7. ASSUME NEW p \in Process, HashFile(p) PROVE Typed'
  <2>1. /\ pc[p] = "hash" /\ Len(hashed[p]) \in Nat /\ Len(hashed[p]) < Files
        /\ Len(hashed[p]) + 1 \in 1..Files
    <3>1. pc[p] = "hash" /\ hashed[p] \in Seq(Seq(Chunk)) /\ Local(p)
      BY <1>7 DEF HashFile, Ranges
    <3>2. Len(hashed[p]) \in Nat /\ Len(hashed[p]) < Files
      BY <3>1 DEF Local
    <3>3. QED
      BY <3>1, <3>2, CacheConstants
  <2>2. /\ hashed' \in [Process -> Seq(Seq(Chunk))] /\ Len(hashed'[p]) = Len(hashed[p]) + 1
        /\ \A q \in Process \ {p} : hashed'[q] = hashed[q]
    <3>1. hashed' = [hashed EXCEPT ![p] = Append(@, cache[Len(hashed[p]) + 1])]
      BY <1>7 DEF HashFile
    <3>2. cache[Len(hashed[p]) + 1] \in Seq(Chunk) /\ hashed[p] \in Seq(Seq(Chunk))
      BY <2>1 DEF Ranges
    <3>3. /\ Append(hashed[p], cache[Len(hashed[p]) + 1]) \in Seq(Seq(Chunk))
          /\ Len(Append(hashed[p], cache[Len(hashed[p]) + 1])) = Len(hashed[p]) + 1
      BY <3>2
    <3>4. QED
      BY <3>1, <3>3 DEF Ranges
  <2>3. UNCHANGED <<upstream, moves, cache, faults>>
    BY <1>7 DEF HashFile
  <2>4. CASE Len(hashed[p]) + 1 = Files
    <3>1. End(p, "ok")
      BY <1>7, <2>4 DEF HashFile
    <3>2. Ranges'
      BY <2>2, <2>3, <3>1, EndRanges DEF Ranges
    <3>3. Others(p) /\ Local(p)'
      BY <2>1, <2>2, <2>4, <3>1 DEF End, Ranges, Others, Local
    <3>4. QED
      BY <1>1, <3>2, <3>3
  <2>5. CASE Len(hashed[p]) + 1 # Files
    <3>1. pc' = [pc EXCEPT ![p] = "hash"] /\ UNCHANGED <<outcome, index, existing, body, offset>>
      BY <1>7, <2>5 DEF HashFile, GoTo, request
    <3>2. Ranges'
      BY <2>2, <2>3, <3>1 DEF Ranges
    <3>3. Len(hashed'[p]) < Files /\ Len(hashed'[p]) <= Files
      BY <2>1, <2>2, <2>5, CacheConstants
    <3>4. Others(p) /\ Local(p)'
      BY <2>1, <2>2, <3>1, <3>3 DEF Ranges, Others, Local
    <3>5. QED
      BY <1>1, <3>2, <3>4
  <2>6. QED
    BY <2>4, <2>5
<1>8. ASSUME NEW p \in Process, EndsTurn(p) PROVE Typed'
  <2>1. PICK how \in {"network", "input", "killed"} : End(p, how)
    BY <1>8 DEF EndsTurn
  <2>2. faults' \in 0..MaxFaults /\ UNCHANGED <<upstream, moves, cache, hashed>>
    BY <1>8 DEF EndsTurn
  <2>3. Ranges'
    BY <2>1, <2>2, EndRanges DEF Ranges
  <2>4. Others(p) /\ Local(p)'
    BY <2>1, <2>2 DEF End, Ranges, Others, Local
  <2>5. QED
    BY <1>1, <2>3, <2>4
<1>9. ASSUME NEW p \in Process, LeavesFile(p) PROVE Typed'
  <2>1. PICK next \in {"stat", "hash"}, i \in 1..Files :
           /\ pc' = [pc EXCEPT ![p] = next] /\ outcome' = outcome
           /\ index' = [index EXCEPT ![p] = i]
    <3>1. index[p] \in 1..Files /\ Files \in Nat /\ 1 \in 1..Files
      BY CacheConstants DEF Ranges
    <3>2. CASE index[p] < Files
      BY <1>9, <3>1, <3>2 DEF LeavesFile, NextFile, GoTo
    <3>3. CASE ~(index[p] < Files)
      BY <1>9, <3>1, <3>3 DEF LeavesFile, NextFile, GoTo
    <3>4. QED
      BY <3>2, <3>3
  <2>2. /\ pc[p] \in {"send", "copy"}
        /\ offset' = [offset EXCEPT ![p] = 0]
        /\ UNCHANGED <<upstream, moves, cache, existing, body, hashed, faults>>
    BY <1>9 DEF LeavesFile
  <2>3. Ranges'
    BY <2>1, <2>2 DEF Ranges
  <2>4. Len(hashed'[p]) = 0 /\ 0 < Files /\ outcome'[p] # "ok" /\ offset'[p] = 0
    <3>1. /\ outcome[p] = "ok" => pc[p] = "idle"
          /\ Len(hashed[p]) = 0
      BY <2>2 DEF Local
    <3>2. 0 < Files
      BY CacheConstants
    <3>3. QED
      BY <2>1, <2>2, <3>1, <3>2 DEF Ranges
  <2>5. Others(p) /\ Local(p)'
    BY <2>1, <2>2, <2>4 DEF Ranges, Others, Local
  <2>6. QED
    BY <1>1, <2>3, <2>5
<1>10. ASSUME NEW p \in Process, WritesChunk(p) PROVE Typed'
  <2>1. /\ Head(body[p]) \in Sent /\ Tail(body[p]) \in Seq(Sent)
    BY <1>10 DEF WritesChunk, Ranges
  <2>2. Head(body[p]) \in Chunk
    BY <2>1 DEF Sent, Chunk
  <2>3. /\ Position(p) \in Nat \ {0} /\ cache[index[p]] \in Seq(Chunk)
        /\ Len(cache[index[p]]) \in Nat
    BY DEF Position, Ranges
  <2>4. WriteAt(cache[index[p]], Position(p), Head(body[p])) \in Seq(Chunk)
    BY <2>2, <2>3, WriteAtType
  <2>5. cache' \in [1..Files -> Seq(Chunk)] /\ body' \in [Process -> Seq(Sent)]
    BY <1>10, <2>1, <2>4 DEF WritesChunk, Ranges
  <2>6. offset' \in [Process -> Nat] /\ \A q \in Process \ {p} : offset'[q] = offset[q]
    BY <1>10 DEF WritesChunk, Ranges
  <2>7. pc[p] = "copy" /\ UNCHANGED <<upstream, moves, pc, outcome, index, existing, hashed, faults>>
    BY <1>10 DEF WritesChunk
  <2>8. Ranges' /\ Others(p) /\ Local(p)'
    BY <2>5, <2>6, <2>7 DEF Ranges, Others, Local
  <2>9. QED
    BY <1>1, <2>8
<1>11. ASSUME NEW p \in Process, NEW v \in Version, NEW n \in Nat, Receives(p, v, n) PROVE Typed'
  <2>1. Rest(v, n) \in Seq(Sent)
    <3>1. n \in 0..Size[v]
      BY <1>11, Sizes DEF Receives
    <3>2. QED
      BY <3>1, Rests
  <2>2. Ranges' /\ Others(p) /\ Local(p)'
    BY <1>11, <2>1 DEF Receives, GoTo, Ranges, Others, Local
  <2>3. QED
    BY <1>1, <2>2
<1>12. QED
  BY <1>2, <1>3, <1>4, <1>5, <1>6, <1>7, <1>8, <1>9, <1>10, <1>11, StepKinds

LEMMA FlagsStep ==
    ASSUME Typed, Flags, [Next]_vars
    PROVE  Flags'
<1> USE DEF Flags
<1>1. CASE UNCHANGED vars
  BY <1>1 DEF vars, request
<1>2. CASE Move
  BY <1>2 DEF Move, request
<1>3. ASSUME NEW p \in Process, Start(p) PROVE Flags'
  BY <1>3, Zenon DEF Start, request
<1>4. ASSUME NEW p \in Process, Stat(p) \/ Open(p) PROVE Flags'
  BY <1>4 DEF Stat, Open, request
<1>5. ASSUME NEW p \in Process, HashFile(p) PROVE Flags'
  BY <1>5 DEF HashFile, End, request
<1>6. ASSUME NEW p \in Process, EndsTurn(p) PROVE Flags'
  BY <1>6 DEF EndsTurn, End
<1>7. ASSUME NEW p \in Process, LeavesFile(p) \/ WritesChunk(p) PROVE Flags'
  BY <1>7 DEF LeavesFile, WritesChunk
<1>8. ASSUME NEW p \in Process, NEW v \in Version, NEW n \in Nat, Receives(p, v, n) PROVE Flags'
  BY <1>8 DEF Receives
<1>9. QED
  BY <1>1, <1>2, <1>3, <1>4, <1>5, <1>6, <1>7, <1>8, StepKinds

-----------------------------------------------------------------------------
\* What processes that take turns leave behind.

\* A step of the process whose turn it is has to be looked at for that process.
LEMMA Turn ==
    ASSUME Typed, Turns, NEW p \in Process, pc[p] # "idle",
           UNCHANGED <<alone, moves, upstream>>,
           \A q \in Process \ {p} :
              pc'[q] = pc[q] /\ outcome'[q] = outcome[q] /\ hashed'[q] = hashed[q],
           alone => Knows(p)' /\ InPlace',
           alone /\ moves = 0 => Beginnings' /\ Exact(p)'
    PROVE  Turns'
<1>1. AloneInv'
  BY DEF Turns, AloneInv
<1>2. alone => \A q \in Process \ {p} : pc'[q] = "idle"
  BY DEF Turns, AloneInv
<1>3. ASSUME alone, NEW q \in Process \ {p}
      PROVE  Knows(q)' /\ (moves = 0 => Exact(q)')
  <2>1. Knows(q)'
    BY <1>2, <1>3 DEF Knows
  <2>2. moves = 0 => Exact(q)
    BY <1>3 DEF Turns, ExactInv
  <2>3. QED
    BY <1>2, <1>3, <2>1, <2>2 DEF Exact, AtFile
<1>4. KnowInv'
  BY <1>3 DEF KnowInv
<1>5. ExactInv'
  BY <1>3 DEF ExactInv
<1>6. QED
  BY <1>1, <1>4, <1>5 DEF Turns

\* What the invariant says of the process whose turn it is.
LEMMA Mine ==
    ASSUME Typed, Turns, alone, NEW p \in Process
    PROVE  /\ Knows(p) /\ InPlace /\ (moves = 0 => Beginnings /\ Exact(p))
           /\ index[p] \in 1..Files /\ Len(cache[index[p]]) \in Nat
           /\ Bytes(upstream[index[p]]) = First(upstream[index[p]], Size[upstream[index[p]]])
           /\ upstream[index[p]] \in Version
<1>1. Knows(p) /\ InPlace /\ (moves = 0 => Beginnings /\ Exact(p))
  BY DEF Turns, KnowInv, ExactInv
<1>2. /\ index[p] \in 1..Files /\ cache[index[p]] \in Seq(Chunk)
      /\ upstream[index[p]] \in Version
  BY DEF Typed, Ranges
<1>3. Bytes(upstream[index[p]]) = First(upstream[index[p]], Size[upstream[index[p]]])
  BY <1>2, Firsts
<1>4. QED
  BY <1>1, <1>2, <1>3

LEMMA QuietTurn ==
    ASSUME Typed, Turns, NEW p \in Process, Stat(p) \/ EndsTurn(p)
    PROVE  Turns'
<1> USE DEF Typed, Ranges
<1>1. CASE Stat(p)
  <2>1. /\ pc' = [pc EXCEPT ![p] = "send"] /\ pc[p] = "stat"
        /\ existing' = [existing EXCEPT ![p] = Len(cache[index[p]])]
        /\ UNCHANGED <<upstream, moves, cache, outcome, index, hashed, alone>>
    BY <1>1 DEF Stat, GoTo
  <2>2. Knows(p)'
    BY <2>1 DEF Knows
  <2>3. alone => InPlace'
    BY <2>1, Mine DEF InPlace
  <2>4. alone /\ moves = 0 => Beginnings' /\ Exact(p)'
    BY <2>1, Mine DEF Beginnings, Exact, AtFile
  <2>5. QED
    BY <2>1, <2>2, <2>3, <2>4, Turn
<1>2. CASE EndsTurn(p)
  <2>1. PICK how \in {"network", "input", "killed"} : End(p, how)
    BY <1>2 DEF EndsTurn
  <2>2. /\ pc' = [pc EXCEPT ![p] = "idle"] /\ outcome' = [outcome EXCEPT ![p] = how]
        /\ pc[p] # "idle" /\ UNCHANGED <<upstream, moves, cache, hashed, alone>>
    BY <1>2, <2>1 DEF EndsTurn, End
  <2>3. Knows(p)'
    BY <2>2 DEF Knows
  <2>4. alone => InPlace'
    BY <2>2, Mine DEF InPlace
  <2>5. alone /\ moves = 0 => Beginnings' /\ Exact(p)'
    BY <2>2, Mine DEF Beginnings, Exact, AtFile
  <2>6. QED
    BY <2>2, <2>3, <2>4, <2>5, Turn
<1>3. QED
  BY <1>1, <1>2

LEMMA OpenTurn ==
    ASSUME Typed, Flags, Turns, NEW p \in Process, Open(p)
    PROVE  Turns'
<1> USE DEF Typed, Ranges
<1>1. /\ pc' = [pc EXCEPT ![p] = "copy"] /\ pc[p] = "open"
      /\ cache' = IF append[p] THEN cache ELSE [cache EXCEPT ![index[p]] = <<>>]
      /\ UNCHANGED <<upstream, moves, outcome, index, body, append, offset, hashed, alone>>
  BY DEF Open, GoTo, request
<1>2. /\ Len(cache'[index[p]]) = At(p)
      /\ \A i \in 1..Files : cache'[i] = cache[i] \/ (i = index[p] /\ cache'[i] = <<>>)
  BY <1>1 DEF At
<1>3. At(p)' = At(p)
  BY <1>1, <1>2 DEF At
<1>4. ASSUME alone PROVE Knows(p)'
  <2>1. PICK v \in Version : /\ moves = 0 => v = upstream[index[p]]
                             /\ At(p) <= Size[v] /\ body[p] = Rest(v, At(p))
    BY <1>1, <1>4, Mine DEF Knows
  <2>2. ~append[p] => offset[p] = At(p)
    BY <1>1, <1>4, Mine DEF Knows
  <2>3. QED
    BY <1>1, <1>3, <2>1, <2>2 DEF Knows
<1>5. alone => InPlace'
  <2>1. DOMAIN <<>> = {}
    OBVIOUS
  <2>2. SUFFICES ASSUME alone, NEW i \in 1..Files, NEW k \in DOMAIN cache'[i]
                 PROVE  \E v \in Version : cache'[i][k] = <<v, k>>
    BY DEF InPlace
  <2>3. cache'[i] = cache[i]
    BY <1>2, <2>1
  <2>4. QED
    BY <2>2, <2>3, Mine DEF InPlace
<1>6. ASSUME alone, moves = 0 PROVE Beginnings' /\ Exact(p)'
  <2>1. \A i \in 1..Files : 0 \in 0..Size[upstream[i]] /\ First(upstream[i], 0) = <<>>
    <3>1. ASSUME NEW v \in Version PROVE 0 \in 0..Size[v] /\ First(v, 0) = <<>>
      <4>1. 0 \in 0..Size[v]
        BY Sizes
      <4>2. QED
        BY <4>1, Firsts
    <3>2. \A i \in 1..Files : upstream[i] \in Version
      OBVIOUS
    <3>3. QED
      BY <3>1, <3>2
  <2>2. Beginnings'
    BY <1>1, <1>2, <1>6, <2>1, Mine DEF Beginnings
  <2>3. Exact(p)'
    BY <1>1, <1>2, <1>6, Mine, SMTT(30) DEF Exact, AtFile, Local
  <2>4. QED
    BY <2>2, <2>3
<1>7. QED
  BY <1>1, <1>4, <1>5, <1>6, Turn

LEMMA ReceiveTurn ==
    ASSUME Typed, Flags, Turns, NEW p \in Process, NEW v \in Version, NEW n \in Nat,
           Receives(p, v, n)
    PROVE  Turns'
<1> USE DEF Typed, Ranges
<1>1. /\ pc' = [pc EXCEPT ![p] = "open"] /\ pc[p] = "send" /\ v = upstream[index[p]]
      /\ n > 0 => n = existing[p] /\ n < Size[v]
      /\ body'[p] = Rest(v, n) /\ (n = 0 => append'[p] = FALSE) /\ (n > 0 => append'[p] = TRUE)
      /\ UNCHANGED <<upstream, moves, cache, outcome, index, offset, hashed, alone>>
      /\ offset[p] = 0
  BY DEF Receives, GoTo, Flags, Local
<1>2. ASSUME alone PROVE At(p)' = n
  <2>1. existing[p] = Len(cache[index[p]])
    BY <1>1, <1>2, Mine DEF Knows
  <2>2. CASE n = 0
    BY <1>1, <2>2 DEF At
  <2>3. CASE n > 0
    BY <1>1, <2>1, <2>3 DEF At
  <2>4. QED
    BY <2>2, <2>3
<1>3. ASSUME alone PROVE Knows(p)'
  <2>1. n <= Size[v] /\ (~append'[p] => n = 0)
    BY <1>1, Sizes
  <2>2. QED
    BY <1>1, <1>2, <1>3, <2>1 DEF Knows
<1>4. alone => InPlace'
  BY <1>1, Mine DEF InPlace
<1>5. alone /\ moves = 0 => Beginnings' /\ Exact(p)'
  BY <1>1, Mine DEF Beginnings, Exact, AtFile
<1>6. QED
  BY <1>1, <1>3, <1>4, <1>5, Turn

\* p is done with a file when the whole file is there.
LEMMA LeaveTurn ==
    ASSUME Typed, Flags, Turns, NEW p \in Process, LeavesFile(p)
    PROVE  Turns'
<1> USE DEF Typed, Ranges
<1> DEFINE u == upstream[index[p]]
<1>1. /\ pc[p] \in {"send", "copy"} /\ Len(hashed[p]) = 0
      /\ outcome[p] # "ok"
      /\ UNCHANGED <<upstream, moves, cache, outcome, hashed, alone>>
      /\ \A q \in Process \ {p} : pc'[q] = pc[q]
      /\ \/ index[p] < Files /\ pc'[p] = "stat" /\ index'[p] = index[p] + 1
         \/ index[p] = Files /\ pc'[p] = "hash"
  <2>1. pc[p] \in {"send", "copy"} /\ UNCHANGED <<upstream, moves, cache, outcome, hashed, alone>>
    BY DEF LeavesFile, NextFile, GoTo
  <2>2. Len(hashed[p]) = 0 /\ outcome[p] # "ok"
    BY <2>1 DEF Local, AtFile
  <2>3. index[p] \in 1..Files /\ Files \in Nat
    BY CacheConstants
  <2>4. CASE index[p] < Files
    BY <2>1, <2>2, <2>4 DEF LeavesFile, NextFile, GoTo
  <2>5. CASE ~(index[p] < Files)
    BY <2>1, <2>2, <2>3, <2>5 DEF LeavesFile, NextFile, GoTo
  <2>6. QED
    BY <2>4, <2>5
<1>2. Knows(p)'
  BY <1>1 DEF Knows
<1>3. alone => InPlace'
  BY <1>1, Mine, SMTT(30) DEF InPlace
<1>4. ASSUME alone, moves = 0 PROVE Beginnings' /\ Exact(p)'
  <2>1. /\ u \in Version /\ Size[u] \in Nat /\ index[p] \in 1..Files
        /\ Len(cache[index[p]]) \in Nat /\ Knows(p) /\ Beginnings /\ Exact(p)
        /\ Bytes(u) = First(u, Size[u])
    BY <1>4, Mine, Sizes
  <2>2. PICK n \in 0..Size[u] : cache[index[p]] = First(u, n)
    BY <2>1 DEF Beginnings
  <2>3. n = Len(cache[index[p]]) /\ n <= Size[u] /\ n \in Nat
    BY <2>1, <2>2, Firsts
  <2>4. n >= Size[u]
    <3>1. CASE pc[p] = "send" /\ existing[p] >= Size[u]
      BY <2>1, <2>3, <3>1 DEF Knows
    <3>2. CASE pc[p] = "copy" /\ body[p] = <<>>
      <4>1. At(p) = n
        BY <2>3, <3>2 DEF At
      <4>2. n \in 0..Size[u] /\ Rest(u, n) = <<>>
        BY <1>4, <2>1, <3>2, <4>1 DEF Knows
      <4>3. QED
        BY <2>1, <4>2, Rests
    <3>3. QED
      BY <3>1, <3>2 DEF LeavesFile
  <2>5. cache[index[p]] = Bytes(u)
    <3>1. n = Size[u]
      BY <2>1, <2>3, <2>4
    <3>2. QED
      BY <2>1, <2>2, <3>1
  <2>6. \A i \in 1..Files : i < index[p] => cache[i] = Bytes(upstream[i])
    BY <1>1, <2>1 DEF Exact, AtFile
  <2>7. \A i \in 1..Files : i <= index[p] => cache[i] = Bytes(upstream[i])
    BY <2>1, <2>5, <2>6
  <2>8. Beginnings'
    BY <1>1, <2>1 DEF Beginnings
  <2>9. Exact(p)'
    <3>1. CASE index[p] < Files /\ pc'[p] = "stat" /\ index'[p] = index[p] + 1
      BY <1>1, <2>1, <2>7, <3>1 DEF Exact
    <3>2. CASE index[p] = Files /\ pc'[p] = "hash"
      <4>1. \A i \in 1..Files : cache[i] = Bytes(upstream[i])
        BY <2>7, <3>2, CacheConstants
      <4>2. \A i \in 1..Len(hashed[p]) : FALSE
        BY <1>1
      <4>3. QED
        BY <1>1, <3>2, <4>1, <4>2 DEF Exact, AtFile
    <3>3. QED
      BY <1>1, <3>1, <3>2
  <2>10. QED
    BY <2>8, <2>9
<1>5. QED
  BY <1>1, <1>2, <1>3, <1>4, Turn

\* A chunk is written where it belongs.
LEMMA WriteTurn ==
    ASSUME Typed, Flags, Turns, NEW p \in Process, WritesChunk(p)
    PROVE  Turns'
<1> USE DEF Typed, Ranges
<1>1. /\ pc[p] = "copy" /\ body[p] # <<>>
      /\ UNCHANGED <<upstream, moves, pc, outcome, index, append, hashed, alone>>
      /\ index[p] \in 1..Files /\ cache[index[p]] \in Seq(Chunk)
      /\ cache'[index[p]] = WriteAt(cache[index[p]], Position(p), Head(body[p]))
      /\ \A i \in 1..Files : i # index[p] => cache'[i] = cache[i]
      /\ body'[p] = Tail(body[p])
      /\ ~append[p] => offset'[p] = offset[p] + 1
      /\ pc'[p] = "copy" /\ index'[p] = index[p]
  BY DEF WritesChunk
<1> DEFINE n == Len(cache[index[p]])
           u == upstream[index[p]]
\* The chunk it writes, and its place.
<1>2. ASSUME alone
      PROVE  \E v \in Version :
                /\ moves = 0 => v = u
                /\ n + 1 \in 0..Size[v] /\ body'[p] = Rest(v, n + 1)
                /\ cache'[index[p]] = Append(cache[index[p]], <<v, n + 1>>)
                /\ ~append[p] => offset'[p] = n + 1
  <2>1. n \in Nat /\ At(p) = n
    BY <1>1 DEF At
  <2>2. PICK v \in Version : /\ moves = 0 => v = u
                             /\ n <= Size[v] /\ body[p] = Rest(v, n)
    <3>1. Knows(p) /\ pc[p] = "copy"
      BY <1>1, <1>2, Mine
    <3>2. QED
      BY <2>1, <3>1 DEF Knows
  <2>3. Size[v] \in Nat /\ n \in 0..Size[v]
    BY <2>1, <2>2, Sizes
  <2>4. n < Size[v] /\ Head(body[p]) = <<v, n + 1>> /\ Tail(body[p]) = Rest(v, n + 1)
    <3>1. n # Size[v]
      BY <1>1, <2>2, <2>3, Rests
    <3>2. n < Size[v]
      BY <2>1, <2>2, <2>3, <3>1
    <3>3. Head(Rest(v, n)) = <<v, n + 1>> /\ Tail(Rest(v, n)) = Rest(v, n + 1)
      BY <2>3, <3>2, Rests
    <3>4. QED
      BY <2>2, <3>2, <3>3
  <2>5. ~append[p] => offset[p] = n
    BY <1>1, <1>2, <2>1, Mine DEF Knows
  <2>6. Position(p) = n + 1
    BY <2>1, <2>5 DEF Position
  <2>7. <<v, n + 1>> \in Chunk /\ n + 1 \in Nat \ {0}
    BY <2>1, SMTT(30) DEF Chunk
  <2>8. WriteAt(cache[index[p]], n + 1, <<v, n + 1>>) = Append(cache[index[p]], <<v, n + 1>>)
    BY <1>1, <2>7, WriteAtType
  <2>9. cache'[index[p]] = Append(cache[index[p]], <<v, n + 1>>)
    BY <1>1, <2>4, <2>6, <2>8
  <2>10. n + 1 \in 0..Size[v] /\ body'[p] = Rest(v, n + 1) /\ (~append[p] => offset'[p] = n + 1)
    BY <1>1, <2>1, <2>3, <2>4, <2>5, SMTT(30)
  <2>11. QED
    BY <2>2, <2>9, <2>10
<1>3. ASSUME alone PROVE Knows(p)' /\ InPlace'
  <2>1. PICK v \in Version :
           /\ moves = 0 => v = u
           /\ n + 1 \in 0..Size[v] /\ body'[p] = Rest(v, n + 1)
           /\ cache'[index[p]] = Append(cache[index[p]], <<v, n + 1>>)
           /\ ~append[p] => offset'[p] = n + 1
    BY <1>2, <1>3
  <2>2. /\ DOMAIN cache'[index[p]] = DOMAIN cache[index[p]] \cup {n + 1}
        /\ \A k \in DOMAIN cache[index[p]] : cache'[index[p]][k] = cache[index[p]][k]
        /\ cache'[index[p]][n + 1] = <<v, n + 1>> /\ Len(cache'[index[p]]) = n + 1
    <3>1. <<v, n + 1>> \in Chunk
      BY <1>1 DEF Chunk
    <3>2. \A c \in Seq(Chunk) : /\ DOMAIN Append(c, <<v, n + 1>>) = DOMAIN c \cup {Len(c) + 1}
                                /\ \A k \in DOMAIN c : Append(c, <<v, n + 1>>)[k] = c[k]
                                /\ Append(c, <<v, n + 1>>)[Len(c) + 1] = <<v, n + 1>>
                                /\ Len(Append(c, <<v, n + 1>>)) = Len(c) + 1
      BY <3>1, SMTT(30)
    <3>3. QED
      BY <1>1, <2>1, <3>2, ZenonT(30)
  <2>3. At(p)' = n + 1
    BY <1>1, <2>2 DEF At
  <2>4. Knows(p)'
    <3>1. n + 1 <= Size[v]
      BY <2>1
    <3>2. QED
      BY <1>1, <2>1, <2>3, <3>1 DEF Knows
  <2>5. InPlace'
    <3>1. \A k \in DOMAIN cache'[index[p]] : \E w \in Version : cache'[index[p]][k] = <<w, k>>
      BY <1>1, <1>3, <2>2, Mine DEF InPlace
    <3>2. QED
      BY <1>1, <1>3, <3>1, Mine DEF InPlace
  <2>6. QED
    BY <2>4, <2>5
<1>4. ASSUME alone, moves = 0 PROVE Beginnings' /\ Exact(p)'
  <2>1. /\ n + 1 \in 0..Size[u]
        /\ cache'[index[p]] = Append(cache[index[p]], <<u, n + 1>>)
    BY <1>2, <1>4
  <2>2. /\ u \in Version /\ Beginnings /\ Exact(p)
    BY <1>4, Mine
  <2>3. PICK m \in 0..Size[u] : cache[index[p]] = First(u, m)
    BY <1>1, <2>2 DEF Beginnings
  <2>4. m \in Nat /\ m = n
    BY <2>2, <2>3, Sizes, Firsts
  <2>5. Append(First(u, n), <<u, n + 1>>) = First(u, n + 1)
    BY <2>2, <2>4, Firsts
  <2>6. cache'[index[p]] = First(u, n + 1)
    BY <2>1, <2>3, <2>4, <2>5
  <2>7. Beginnings'
    BY <1>1, <2>1, <2>2, <2>6 DEF Beginnings
  <2>8. \A i \in 1..Files : i < index[p] => cache'[i] = Bytes(upstream[i])
    <3>1. \A i \in 1..Files : i < index[p] => cache[i] = Bytes(upstream[i]) /\ i # index[p]
      BY <1>1, <2>2 DEF Exact, AtFile
    <3>2. QED
      BY <1>1, <3>1
  <2>9. Exact(p)'
    BY <1>1, <2>2, <2>8 DEF Exact
  <2>10. QED
    BY <2>7, <2>9
<1>5. QED
  BY <1>1, <1>3, <1>4, Turn

LEMMA HashTurn ==
    ASSUME Typed, Flags, Turns, NEW p \in Process, HashFile(p)
    PROVE  Turns'
<1> USE DEF Typed, Ranges
<1> DEFINE k == Len(hashed[p])
<1>1. /\ pc[p] = "hash" /\ k \in Nat /\ k + 1 \in 1..Files /\ hashed[p] \in Seq(Seq(Chunk))
      /\ cache[k + 1] \in Seq(Chunk)
  <2>1. pc[p] = "hash" /\ hashed[p] \in Seq(Seq(Chunk)) /\ Local(p)
    BY DEF HashFile
  <2>2. k \in Nat /\ k < Files
    BY <2>1 DEF Local
  <2>3. QED
    BY <2>1, <2>2, CacheConstants, SMTT(30)
<1>2. /\ UNCHANGED <<upstream, moves, cache, alone>>
      /\ \A q \in Process \ {p} : hashed'[q] = hashed[q] /\ pc'[q] = pc[q] /\ outcome'[q] = outcome[q]
      /\ hashed'[p] = Append(hashed[p], cache[k + 1])
      /\ \/ k + 1 = Files /\ pc'[p] = "idle" /\ outcome'[p] = "ok"
         \/ pc'[p] = "hash" /\ outcome'[p] = outcome[p]
  <2>1. hashed' = [hashed EXCEPT ![p] = Append(@, cache[k + 1])]
    BY DEF HashFile
  <2>2. UNCHANGED <<upstream, moves, cache, alone>>
    BY DEF HashFile
  <2>3. CASE k + 1 = Files
    BY <2>1, <2>2, <2>3 DEF HashFile, End
  <2>4. CASE k + 1 # Files
    BY <2>1, <2>2, <2>4 DEF HashFile, GoTo
  <2>5. QED
    BY <2>3, <2>4
<1>3. Knows(p)'
  BY <1>2 DEF Knows
<1>4. alone => InPlace'
  BY <1>2, Mine DEF InPlace
<1>5. ASSUME alone, moves = 0 PROVE Beginnings' /\ Exact(p)'
  <2>1. /\ Beginnings /\ \A i \in 1..Files : cache[i] = Bytes(upstream[i])
        /\ \A i \in 1..k : hashed[p][i] = Bytes(upstream[i])
        /\ outcome[p] # "ok"
    BY <1>1, <1>5, Mine DEF Exact, Local
  <2>2. /\ Len(hashed'[p]) = k + 1 /\ hashed'[p] \in Seq(Seq(Chunk))
        /\ \A i \in 1..(k + 1) : hashed'[p][i] = Bytes(upstream[i])
    <3>1. /\ hashed'[p] \in Seq(Seq(Chunk)) /\ Len(hashed'[p]) = k + 1
          /\ \A i \in 1..k : hashed'[p][i] = hashed[p][i]
          /\ hashed'[p][k + 1] = cache[k + 1]
      BY <1>1, <1>2
    <3>2. \A i \in 1..(k + 1) : i \in 1..k \/ i = k + 1
      BY <1>1
    <3>3. QED
      BY <1>1, <2>1, <3>1, <3>2
  <2>3. Beginnings'
    BY <1>2, <2>1 DEF Beginnings
  <2>4. CASE k + 1 = Files /\ pc'[p] = "idle" /\ outcome'[p] = "ok"
    <3>1. hashed'[p] = [i \in 1..Files |-> Bytes(upstream[i])]
      <4>1. DOMAIN hashed'[p] = 1..Files /\ hashed'[p] = [i \in DOMAIN hashed'[p] |-> hashed'[p][i]]
        BY <2>2, <2>4
      <4>2. QED
        BY <2>2, <2>4, <4>1
    <3>2. QED
      BY <1>2, <2>3, <2>4, <3>1 DEF Exact, AtFile
  <2>5. CASE pc'[p] = "hash" /\ outcome'[p] = outcome[p]
    BY <1>2, <2>1, <2>2, <2>3, <2>5 DEF Exact, AtFile
  <2>6. QED
    BY <1>2, <2>4, <2>5
<1>6. QED
  BY <1>1, <1>2, <1>3, <1>4, <1>5, Turn

LEMMA TurnsStep ==
    ASSUME Typed, Flags, Turns, [Next]_vars
    PROVE  Turns'
<1>1. CASE UNCHANGED vars
  BY <1>1 DEF vars, request, Turns, AloneInv, KnowInv, Knows, At, InPlace, ExactInv, Beginnings,
              Exact
<1>2. CASE Move
  <2>1. moves' # 0 /\ UNCHANGED <<cache, pc, index, existing, body, append, offset, alone>>
    BY <1>2 DEF Move, request, Typed, Ranges
  <2>2. AloneInv' /\ (alone' => InPlace')
    BY <2>1 DEF Turns, AloneInv, InPlace
  <2>3. ASSUME NEW p \in Process, Knows(p) PROVE Knows(p)'
    <3>1. At(p)' = At(p)
      BY <2>1 DEF At
    <3>2. QED
      BY <2>1, <2>3, <3>1 DEF Knows
  <2>4. KnowInv' /\ ExactInv'
    BY <2>1, <2>3 DEF Turns, KnowInv, ExactInv
  <2>5. QED
    BY <2>2, <2>4 DEF Turns
<1>3. ASSUME NEW p \in Process, Start(p)
      PROVE  Turns'
  <2>1. /\ pc' = [pc EXCEPT ![p] = "stat"] /\ outcome[p] # "ok" /\ pc[p] = "idle"
        /\ hashed' = [hashed EXCEPT ![p] = <<>>]
        /\ alone' => alone /\ \A q \in Process : pc[q] = "idle"
        /\ UNCHANGED <<upstream, moves, cache, outcome, index>>
    BY <1>3 DEF Start, GoTo, request
  <2>2. AloneInv' /\ KnowInv' /\ (alone' => InPlace')
    BY <2>1 DEF Turns, AloneInv, KnowInv, Knows, InPlace, Typed, Ranges
  <2>3. ASSUME alone', moves' = 0 PROVE Beginnings' /\ \A q \in Process : Exact(q)'
    <3>1. Beginnings /\ \A q \in Process : Exact(q)
      BY <2>1, <2>3 DEF Turns, ExactInv
    <3>2. index[p] = 1
      BY <2>1 DEF Typed, Local
    <3>3. Exact(p)'
      BY <2>1, <3>2, CacheConstants DEF Exact, Typed, Ranges, AtFile
    <3>4. \A q \in Process \ {p} : Exact(q)'
      BY <2>1, <3>1 DEF Exact, Typed, Ranges
    <3>5. QED
      BY <2>1, <3>1, <3>3, <3>4 DEF Beginnings
  <2>4. QED
    BY <2>2, <2>3 DEF Turns, ExactInv
<1>4. QED
  BY <1>1, <1>2, <1>3, StepKinds, QuietTurn, OpenTurn, ReceiveTurn, LeaveTurn, WriteTurn, HashTurn

-----------------------------------------------------------------------------
\* The theorems.

LEMMA InitInv == Init => Inv
<1> SUFFICES ASSUME Init PROVE Inv
  OBVIOUS
<1> USE DEF Init
<1>1. Typed
  <2>1. Ranges
    BY CacheConstants, EmptySeq DEF Ranges, AtFile
  <2>2. \A p \in Process : Local(p)
    <3>1. \A p \in Process : /\ hashed[p] = <<>> /\ pc[p] = "idle" /\ offset[p] = 0
                              /\ outcome[p] = "none" /\ index[p] = 1
      OBVIOUS
    <3>2. Len(<<>>) = 0 /\ 0 <= Files
      BY CacheConstants
    <3>3. QED
      BY <3>1, <3>2 DEF Local, AtFile
  <2>3. QED
    BY <2>1, <2>2 DEF Typed
<1>2. Flags
  BY Zenon DEF Flags
<1>3. AloneInv /\ KnowInv /\ InPlace
  BY DEF AloneInv, KnowInv, Knows, InPlace
<1>4. Beginnings
  <2>1. ASSUME NEW i \in 1..Files
        PROVE  0 \in 0..Size[upstream[i]] /\ cache[i] = First(upstream[i], 0)
    <3>1. upstream[i] \in Version
      BY CacheConstants
    <3>2. 0 \in 0..Size[upstream[i]]
      BY <3>1, Sizes
    <3>3. QED
      BY <3>1, <3>2, Firsts
  <2>2. QED
    BY <2>1 DEF Beginnings
<1>5. \A p \in Process : Exact(p)
  BY DEF Exact, AtFile
<1>6. QED
  BY <1>1, <1>2, <1>3, <1>4, <1>5 DEF Inv, Turns, ExactInv

\* The inductive invariant behind the theorems below: while processes take turns,
\* what the one at work knows about its file is what is on the disk.
THEOREM Invariance == Spec => []Inv
<1>1. Inv /\ [Next]_vars => Inv'
  BY TypedStep, FlagsStep, TurnsStep DEF Inv
<1>2. QED
  BY InitInv, <1>1, PTL DEF Spec

\* Every variable of the processes, the cache and the mirror keeps its type.
THEOREM TypeCorrectness == Spec => []TypeOK
<1>1. Inv => TypeOK
  <2> SUFFICES ASSUME Inv PROVE TypeOK
    OBVIOUS
  <2>1. /\ upstream \in [1..Files -> Version]
        /\ moves \in 0..MaxMoves
        /\ \A i \in 1..Files : cache[i] \in Seq((Version \cup {Hole}) \X (Nat \ {0}))
        /\ pc \in [Process -> {"idle", "stat", "send", "open", "copy", "hash"}]
        /\ outcome \in [Process -> {"none", "ok", "network", "input", "killed"}]
        /\ index \in [Process -> 1..Files]
        /\ existing \in [Process -> Nat]
        /\ offset \in [Process -> Nat]
        /\ \A p \in Process : Len(hashed[p]) <= Files
        /\ faults \in 0..MaxFaults
    BY DEF Inv, Typed, Ranges, Local, Chunk, AtFile
  <2>2. append \in [Process -> BOOLEAN] /\ alone \in BOOLEAN
    BY Zenon DEF Inv, Flags
  <2>3. QED
    BY <2>1, <2>2, Zenon DEF TypeOK
<1>2. QED
  BY Invariance, <1>1, PTL

\* Whatever is killed or cut off, and whatever the server makes of the range,
\* processes that take turns on a mirror that stays leave beginnings of its
\* files, and what a successful one hashed is the mirror.
THEOREM Resumes == Spec => []ResumeIsExact
<1>1. Inv => ResumeIsExact
  <2> SUFFICES ASSUME Inv, alone, moves = 0
               PROVE  /\ \A i \in 1..Files : IsPrefixOf(cache[i], Bytes(upstream[i]))
                      /\ \A p \in Process : outcome[p] = "ok" =>
                            hashed[p] = [i \in 1..Files |-> Bytes(upstream[i])]
    BY DEF ResumeIsExact
  <2>1. Beginnings /\ \A p \in Process : Exact(p)
    BY DEF Inv, Turns, ExactInv
  <2>2. ASSUME NEW i \in 1..Files PROVE IsPrefixOf(cache[i], Bytes(upstream[i]))
    <3>1. upstream[i] \in Version
      BY DEF Inv, Typed, Ranges
    <3>2. QED
      BY <2>1, <3>1, Firsts DEF Beginnings
  <2>3. QED
    BY <2>1, <2>2 DEF Exact
<1>2. QED
  BY Invariance, <1>1, PTL

\* Also when the mirror moves between two attempts, processes that take turns
\* put every chunk where it belongs.
THEOREM ChunksStay == Spec => []ChunksStayInPlace
<1>1. Inv => ChunksStayInPlace
  BY DEF Inv, Turns, InPlace, ChunksStayInPlace
<1>2. QED
  BY Invariance, <1>1, PTL
=============================================================================
