----------------------------- MODULE FrameProofs -----------------------------
(***************************************************************************)
(* Proofs about Frame.tla, for any command line and environment: what the  *)
(* exit status, the envelope, the document and the log of a process say of *)
(* each other, and that its log hides the API key of its command line.     *)
(*                                                                         *)
(* The subcommands differ in what they may return and not in anything the  *)
(* proofs need, so that RunStep speaks of all of them at once.             *)
(*                                                                         *)
(* The redaction is about arguments of any length, and two functions of    *)
(* Args.tla are computed along them: the words of the joined arguments     *)
(* (FlattenSeq) and redact_next.  Climb stands for induction over the      *)
(* numbers, Flattened and RedactNextIs give each step of the two, and the  *)
(* lemmas from Words to LoggedArgs follow a command line through them.     *)
(***************************************************************************)
EXTENDS Frame, FiniteSetTheorems, TLAPS

Busy == {"run", "send", "answer", "phases"}
BeforeEnd == {"boot", "parse", "init", "start", "returned", "end_error"} \cup Busy
Printing == {"print", "printing"}
BeforeEnvelope == BeforeEnd \cup Printing \cup {"envelope"}
AfterFailure == {"end_error", "envelope", "closing"}
PC == BeforeEnvelope \cup {"closing", "leave", "done"}

\* The result at each place, and the status it becomes.
ResultInv ==
    /\ pc \in PC
    /\ exit = Running <=> pc # "done"
    /\ pc = "returned" => result \in Category \cup {"ok"}
    /\ pc \in Printing => result = "ok"
    /\ pc \in AfterFailure => result \in Category
    /\ panicked => pc \in {"closing", "leave", "done"} /\ result = "internal"
    /\ pc = "leave" => result \in Category \cup {"ok"}

\* An envelope is begun for a result and has its category.
EnvelopeInv ==
    /\ pc \in BeforeEnvelope => envelope = NoEnvelope
    /\ pc = "closing" =>
          envelope \in Envelope /\ envelope.state = "part" /\ envelope.category = result
    /\ pc = "leave" =>
          IF result = "ok" THEN envelope = NoEnvelope
          ELSE envelope.state = "whole" /\ envelope.category = result
    /\ pc = "done" =>
          \/ exit = SigintExit
          \/ exit \in {0, UsageExit} /\ envelope = NoEnvelope
          \/ /\ result \in Category /\ exit = ExitCode(result)
             /\ envelope.state = "whole" /\ envelope.category = result

\* A document is begun after a success and before any envelope.
DocumentInv ==
    /\ pc \in BeforeEnd \cup {"print", "envelope"} => stdout = "none"
    /\ pc = "printing" => stdout = "part"
    /\ stdout = "whole" =>
          /\ envelope = NoEnvelope /\ result = "ok"
          /\ pc = "leave" \/ (pc = "done" /\ exit \in {0, SigintExit})
    /\ pc = "leave" /\ result = "ok" /\ HasOutput => stdout = "whole"
    /\ pc = "done" /\ exit = 0 /\ call.clap = "ok" /\ HasOutput => stdout = "whole"

Loud == level \in {"info", "debug"}

\* The events of a process with this command line.
LogEntry(line) ==
    {[event |-> "process.start", args |-> SanitizeArgs(Argv(line)), exit_code |-> 0]}
        \cup {ProcessEnd(c) : c \in Nat} \cup {ProcessError(c) : c \in Nat}
        \cup {PhaseEvent(n) : n \in {"verify.phase.start", "verify.phase.end"}}

NoEnd(log) == \A i \in DOMAIN log : log[i].event # "process.end"

EndsWith(log, code) == log # <<>> /\ log[Len(log)] = ProcessEnd(code)

\* Every process.end in the log has this status, or is the one that was written
\* before the document could not be (open: whether stdout has a reader).
EndsSay(log, open, code) ==
    \A i \in DOMAIN log : log[i].event = "process.end" =>
        \/ log[i].exit_code = code
        \/ code = 70 /\ log[i].exit_code = 0 /\ ~open

LogInv ==
    /\ events \in Seq(LogEntry(call.line))
    /\ pc \in {"boot", "parse", "init"} => level = "none"
    /\ pc \in BeforeEnd => NoEnd(events)
    /\ pc \in Printing \cup {"envelope", "closing", "leave"} => EndsSay(events, readable, ExitCode(result))
    /\ pc \in Printing \cup {"envelope", "closing", "leave"} /\ Loud /\ ~panicked =>
          EndsWith(events, ExitCode(result))
    /\ pc = "done" /\ exit # SigintExit =>
          /\ EndsSay(events, readable, exit)
          /\ Loud /\ ~panicked => EndsWith(events, exit)

TraceInv ==
    /\ trace_id \in Nat /\ generated \in Nat
    /\ env.trace => trace_id = 0
    /\ sent \in Seq(Nat)
    /\ pc = "boot" => sent = <<>>
    /\ OneTraceId

\* The values of the variables.
ValueInv ==
    /\ call \in Call /\ env \in Env
    /\ level \in {"none", "error", "info", "debug"}
    /\ result \in Category \cup {"none", "ok"}
    /\ stdout \in {"none", "part", "whole"} /\ readable \in BOOLEAN
    /\ envelope \in Envelope /\ panicked \in BOOLEAN
    /\ exit \in Nat \cup {Running}

Inv == ResultInv /\ EnvelopeInv /\ DocumentInv /\ LogInv /\ TraceInv /\ ValueInv

-----------------------------------------------------------------------------
\* What holds of 0, and of a successor when it holds of the number, holds of every
\* number: a least counterexample would give a smallest interval.
LEMMA Climb ==
  ASSUME NEW S, 0 \in S, \A n \in Nat : n \in S => n + 1 \in S
  PROVE  Nat \subseteq S
<1> DEFINE T == {1..n : n \in Nat \ S}
           R == StrictSubsetOrdering(Nat)
<1> SUFFICES ASSUME Nat \ S # {} PROVE FALSE
  OBVIOUS
<1>1. IsWellFoundedOn(R, FiniteSubsetsOf(Nat))
  BY FS_StrictSubsetOrderingWellFounded
<1>2. T # {} /\ T \subseteq FiniteSubsetsOf(Nat)
  <2>1. ASSUME NEW n \in Nat PROVE IsFiniteSet(1..n) /\ 1..n \subseteq Nat
    <3>1. 1 \in Int /\ n \in Int
      OBVIOUS
    <3> QED BY <3>1, FS_Interval
  <2>2. \A n \in Nat : 1..n \in FiniteSubsetsOf(Nat)
    BY <2>1 DEF FiniteSubsetsOf
  <2> QED BY <2>2
<1>3. PICK x \in T : \A y \in T : ~ (<<y, x>> \in R)
  <2> HIDE DEF R, T
  <2> QED BY <1>1, <1>2, WFMin
<1>4. PICK n \in Nat \ S : x = 1..n
  OBVIOUS
<1>5. n # 0 /\ n - 1 \in Nat \ S
  OBVIOUS
<1>6. <<1..(n - 1), 1..n>> \in R
  <2>1. n \in 1..n /\ n \notin 1..(n - 1)
    BY <1>5
  <2> QED BY <1>5, <2>1 DEF StrictSubsetOrdering
<1> QED BY <1>3, <1>4, <1>5, <1>6

\* The recursive function behind FlattenSeq exists.
LEMMA Flattened ==
  ASSUME NEW seqs, Len(seqs) \in Nat \ {0}
  PROVE  \E f : /\ f[1] = seqs[1]
                /\ \A i \in 2..Len(seqs) : f[i] = f[i - 1] \o seqs[i]
                /\ FlattenSeq(seqs) = f[Len(seqs)]
<1> DEFINE body(f, n) == [i \in 1..n |-> IF i = 1 THEN seqs[i] ELSE f[i - 1] \o seqs[i]]
           S == {n \in Nat : \E f : f = body(f, n)}
<1>1. 0 \in S
  <2>1. [i \in 1..0 |-> 0] = body([i \in 1..0 |-> 0], 0)
    OBVIOUS
  <2> QED BY <2>1
<1>2. ASSUME NEW n \in Nat, n \in S PROVE n + 1 \in S
  <2>1. PICK f : f = body(f, n)
    BY <1>2
  <2> DEFINE g == [i \in 1..(n + 1) |->
                     IF i = n + 1 THEN IF i = 1 THEN seqs[i] ELSE f[n] \o seqs[i] ELSE f[i]]
  <2>2. \A i \in 1..n : f[i] = IF i = 1 THEN seqs[i] ELSE f[i - 1] \o seqs[i]
    BY <2>1
  <2> HIDE DEF body
  <2>3. \A i \in 1..(n + 1) : g[i] = IF i = 1 THEN seqs[i] ELSE g[i - 1] \o seqs[i]
    <3> SUFFICES ASSUME NEW i \in 1..(n + 1)
                 PROVE  g[i] = IF i = 1 THEN seqs[i] ELSE g[i - 1] \o seqs[i]
      OBVIOUS
    <3>1. CASE i = n + 1
      <4>1. i # 1 => g[i - 1] = f[n]
        BY <3>1
      <4> QED BY <3>1, <4>1
    <3>2. CASE i # n + 1
      <4>1. i \in 1..n /\ g[i] = f[i] /\ (i # 1 => g[i - 1] = f[i - 1])
        BY <3>2
      <4> QED BY <2>2, <4>1
    <3> QED BY <3>1, <3>2
  <2>4. g = body(g, n + 1)
    <3> HIDE DEF g
    <3>1. g = [i \in 1..(n + 1) |-> g[i]]
      BY DEF g
    <3> QED BY <2>3, <3>1 DEF body
  <2> HIDE DEF g
  <2> QED BY <2>4
<1>3. Len(seqs) \in S
  <2> HIDE DEF S
  <2> QED BY <1>1, <1>2, Climb
<1> DEFINE flatten == CHOOSE f : f = body(f, Len(seqs))
<1>4. flatten = body(flatten, Len(seqs))
  <2> HIDE DEF body
  <2>1. \E f : f = body(f, Len(seqs))
    BY <1>3
  <2> QED BY <2>1
<1>5. FlattenSeq(seqs) = flatten[Len(seqs)]
  BY DEF FlattenSeq
<1>6. \A i \in 1..Len(seqs) : flatten[i] = IF i = 1 THEN seqs[i] ELSE flatten[i - 1] \o seqs[i]
  <2> HIDE DEF flatten
  <2> QED BY <1>4
<1> HIDE DEF flatten
<1>7. flatten[1] = seqs[1] /\ \A i \in 2..Len(seqs) : flatten[i] = flatten[i - 1] \o seqs[i]
  <2>1. 1 \in 1..Len(seqs) /\ \A i \in 2..Len(seqs) : i \in 1..Len(seqs) /\ i # 1
    OBVIOUS
  <2> QED BY <1>6, <2>1
<1> WITNESS flatten
<1> QED BY <1>5, <1>7

\* redact_next as it is computed, word by word.
LEMMA RedactNextIs ==
  ASSUME NEW words, Len(words) \in Nat
  PROVE  /\ RedactNext(words)[0] = FALSE
         /\ \A i \in 1..Len(words) :
               RedactNext(words)[i] = (~RedactNext(words)[i - 1] /\ words[i] = KeyFlag)
<1> DEFINE body(f, n) == [i \in 0..n |-> IF i = 0 THEN FALSE ELSE ~f[i - 1] /\ words[i] = KeyFlag]
           S == {n \in Nat : \E f : f = body(f, n)}
<1>1. 0 \in S
  <2>1. [i \in 0..0 |-> FALSE] = body([i \in 0..0 |-> FALSE], 0)
    OBVIOUS
  <2> QED BY <2>1
<1>2. ASSUME NEW n \in Nat, n \in S PROVE n + 1 \in S
  <2>1. PICK f : f = body(f, n)
    BY <1>2
  <2> DEFINE g == [i \in 0..(n + 1) |->
                     IF i = n + 1 THEN ~f[n] /\ words[i] = KeyFlag ELSE f[i]]
  <2>2. \A i \in 0..n : f[i] = IF i = 0 THEN FALSE ELSE ~f[i - 1] /\ words[i] = KeyFlag
    BY <2>1
  <2> HIDE DEF body
  <2>3. \A i \in 0..(n + 1) : g[i] = IF i = 0 THEN FALSE ELSE ~g[i - 1] /\ words[i] = KeyFlag
    <3> SUFFICES ASSUME NEW i \in 0..(n + 1)
                 PROVE  g[i] = IF i = 0 THEN FALSE ELSE ~g[i - 1] /\ words[i] = KeyFlag
      OBVIOUS
    <3>1. CASE i = n + 1
      <4>1. g[i - 1] = f[n] /\ i # 0
        BY <3>1
      <4> QED BY <3>1, <4>1
    <3>2. CASE i # n + 1
      <4>1. i \in 0..n /\ g[i] = f[i] /\ (i # 0 => g[i - 1] = f[i - 1])
        BY <3>2
      <4> QED BY <2>2, <4>1
    <3> QED BY <3>1, <3>2
  <2>4. g = body(g, n + 1)
    <3> HIDE DEF g
    <3>1. g = [i \in 0..(n + 1) |-> g[i]]
      BY DEF g
    <3> QED BY <2>3, <3>1 DEF body
  <2> HIDE DEF g
  <2> QED BY <2>4
<1>3. Len(words) \in S
  <2> HIDE DEF S
  <2> QED BY <1>1, <1>2, Climb
<1>4. \E f : f = body(f, Len(words))
  BY <1>3
<1>5. RedactNext(words) = body(RedactNext(words), Len(words))
  <2> DEFINE r == CHOOSE f : f = body(f, Len(words))
  <2>1. RedactNext(words) = r
    BY DEF RedactNext
  <2>2. r = body(r, Len(words))
    <3> HIDE DEF body
    <3> QED BY <1>4
  <2> HIDE DEF r
  <2> QED BY <2>1, <2>2
<1> DEFINE r == RedactNext(words)
<1>6. \A i \in 0..Len(words) : r[i] = IF i = 0 THEN FALSE ELSE ~r[i - 1] /\ words[i] = KeyFlag
  <2> HIDE DEF r
  <2>1. r = body(r, Len(words))
    BY <1>5 DEF r
  <2> QED BY <2>1
<1> HIDE DEF r
<1>7. 0 \in 0..Len(words) /\ \A i \in 1..Len(words) : i \in 0..Len(words) /\ i # 0
  OBVIOUS
<1>8. r[0] = FALSE /\ \A i \in 1..Len(words) : r[i] = (~r[i - 1] /\ words[i] = KeyFlag)
  BY <1>6, <1>7
<1> QED BY <1>8 DEF r

\* The elements of a concatenation.
LEMMA Joined ==
  ASSUME NEW T, NEW s \in Seq(T), NEW t \in Seq(T)
  PROVE  /\ s \o t \in Seq(T) /\ Len(s \o t) = Len(s) + Len(t)
         /\ Len(s) \in Nat /\ Len(t) \in Nat
         /\ \A j \in 1..Len(s) : (s \o t)[j] = s[j]
         /\ \A j \in (Len(s) + 1)..(Len(s) + Len(t)) :
               (s \o t)[j] = t[j - Len(s)] /\ j - Len(s) \in 1..Len(t)
  OBVIOUS

\* Arguments that are put behind words leave those as they are and add their own.
LEMMA Behind ==
  ASSUME NEW T, NEW U, U \subseteq T, NEW seqs, Len(seqs) \in Nat, NEW f,
         NEW m \in 1..Len(seqs), f[m] \in Seq(T),
         \A i \in (m + 1)..Len(seqs) : f[i] = f[i - 1] \o seqs[i] /\ seqs[i] \in Seq(U)
  PROVE  \A n \in m..Len(seqs) :
            /\ f[n] \in Seq(T) /\ Len(f[n]) >= Len(f[m])
            /\ \A j \in 1..Len(f[m]) : f[n][j] = f[m][j]
            /\ \A j \in (Len(f[m]) + 1)..Len(f[n]) : f[n][j] \in U
<1> DEFINE P(n) == /\ f[n] \in Seq(T) /\ Len(f[n]) >= Len(f[m])
                   /\ \A j \in 1..Len(f[m]) : f[n][j] = f[m][j]
                   /\ \A j \in (Len(f[m]) + 1)..Len(f[n]) : f[n][j] \in U
           S == {k \in Nat : m + k <= Len(seqs) => P(m + k)}
<1>0. Len(f[m]) \in Nat
  OBVIOUS
<1>1. 0 \in S
  <2>1. P(m)
    OBVIOUS
  <2> QED BY <2>1
<1>2. ASSUME NEW k \in Nat, k \in S PROVE k + 1 \in S
  <2> SUFFICES ASSUME m + k + 1 <= Len(seqs) PROVE P(m + k + 1)
    OBVIOUS
  <2> DEFINE n == m + k
             s == f[n]
             t == seqs[n + 1]
  <2>1. P(n)
    BY <1>2
  <2>2. f[n + 1] = s \o t /\ t \in Seq(U)
    <3>1. n + 1 \in (m + 1)..Len(seqs) /\ (n + 1) - 1 = n
      OBVIOUS
    <3> QED BY <3>1
  <2>3. s \in Seq(T) /\ t \in Seq(T) /\ Len(s) >= Len(f[m])
    BY <2>1, <2>2
  <2>4. /\ s \o t \in Seq(T) /\ Len(s \o t) = Len(s) + Len(t)
        /\ Len(s) \in Nat /\ Len(t) \in Nat
        /\ \A j \in 1..Len(s) : (s \o t)[j] = s[j]
        /\ \A j \in (Len(s) + 1)..(Len(s) + Len(t)) :
              (s \o t)[j] = t[j - Len(s)] /\ j - Len(s) \in 1..Len(t)
    <3> HIDE DEF s, t
    <3> QED BY <2>3, Joined
  <2>5. \A j \in 1..Len(t) : t[j] \in U
    BY <2>2
  <2>6. \A j \in 1..Len(f[m]) : s[j] = f[m][j]
    BY <2>1
  <2>7. \A j \in (Len(f[m]) + 1)..Len(s) : s[j] \in U
    BY <2>1
  <2> HIDE DEF s, t, n, P
  <2>8. Len(s \o t) >= Len(f[m])
    BY <1>0, <2>3, <2>4
  <2>9. \A j \in 1..Len(f[m]) : (s \o t)[j] = f[m][j]
    BY <1>0, <2>3, <2>4, <2>6
  <2>10. \A j \in (Len(f[m]) + 1)..Len(s \o t) : (s \o t)[j] \in U
    <3> SUFFICES ASSUME NEW j \in (Len(f[m]) + 1)..Len(s \o t) PROVE (s \o t)[j] \in U
      OBVIOUS
    <3>1. CASE j <= Len(s)
      BY <1>0, <2>3, <2>4, <2>7, <3>1
    <3>2. CASE j > Len(s)
      BY <1>0, <2>3, <2>4, <2>5, <3>2
    <3> QED BY <1>0, <2>4, <3>1, <3>2
  <2>11. P(n + 1)
    BY <2>2, <2>4, <2>8, <2>9, <2>10 DEF P
  <2> QED BY <2>11 DEF n
<1>3. ASSUME NEW n \in m..Len(seqs) PROVE P(n)
  <2>1. n - m \in Nat /\ m + (n - m) = n
    OBVIOUS
  <2>2. n - m \in S
    <3> HIDE DEF S
    <3> QED BY <1>1, <1>2, <2>1, Climb
  <2> HIDE DEF P
  <2> QED BY <2>1, <2>2
<1> QED BY <1>3

\* The words of the arguments that show no word of a key, or show it behind
\* --api-key= where the redaction finds it.
Other == Prefix \X OtherText
Clean == Other \cup ({"--api-key="} \X KeyText)

\* The kinds of words, and what the log shows of each.
LEMMA Words ==
  /\ \A x \in OtherText \cup KeyText : Plain(x) \in Word
  /\ \A x \in OtherText : Plain(x) \in Other
  /\ KeyFlag \in Other /\ Other \subseteq Clean /\ Clean \subseteq Word
  /\ \A w \in Clean : w[1] = "" => w[2] \notin KeyText
  /\ \A w \in Word : Shown(w) \in Word /\ (Shown(w)[2] \in KeyText => w[1] = "" /\ w[2] \in KeyText)
  /\ Plain(Redacted) \in Word /\ Plain(Redacted)[2] \notin KeyText
<1>1. \A x : Plain(x) = <<"", x>>
  BY DEF Plain
<1>2. "" \in Prefix /\ "--api-key=" \in Prefix /\ "--api-key" \in OtherText /\ Redacted \in OtherText
  BY DEF Prefix, OtherText
<1>3. KeyText \cap OtherText = {}
  BY ArgsConstants
<1>4. \A w \in Word : w \in Prefix \X (OtherText \cup KeyText) /\ w = <<w[1], w[2]>>
  BY DEF Word
<1>5. \A w \in Word : Shown(w) \in Word /\ (Shown(w)[2] \in KeyText => w[1] = "" /\ w[2] \in KeyText)
  BY <1>2, <1>3, <1>4 DEF Shown, Word
<1>6. \A w \in Clean : w[1] = "" => w[2] \notin KeyText
  BY <1>3 DEF Clean, Other
<1>7. Other \subseteq Clean /\ Clean \subseteq Word
  BY <1>2 DEF Clean, Other, Word
<1>8. /\ \A x \in OtherText \cup KeyText : Plain(x) \in Word
      /\ \A x \in OtherText : Plain(x) \in Other
  BY <1>1, <1>2 DEF Word, Other
<1>9. KeyFlag \in Other /\ Plain(Redacted) \in Word /\ Plain(Redacted)[2] \notin KeyText
  BY <1>1, <1>2, <1>3, <1>8 DEF KeyFlag
<1> QED BY <1>5, <1>6, <1>7, <1>8, <1>9

\* The words of arguments are words of the same kind.
LEMMA TokensType ==
  ASSUME NEW U, NEW argv \in Seq(Seq(U)), argv # <<>>
  PROVE  Tokens(argv) \in Seq(U)
<1>1. Len(argv) \in Nat \ {0} /\ \A i \in 1..Len(argv) : argv[i] \in Seq(U)
  OBVIOUS
<1>2. PICK f : /\ f[1] = argv[1]
               /\ \A i \in 2..Len(argv) : f[i] = f[i - 1] \o argv[i]
               /\ FlattenSeq(argv) = f[Len(argv)]
  BY <1>1, Flattened
<1>3. \A i \in (1 + 1)..Len(argv) : f[i] = f[i - 1] \o argv[i] /\ argv[i] \in Seq(U)
  <2>1. \A i \in (1 + 1)..Len(argv) : i \in 2..Len(argv) /\ i \in 1..Len(argv)
    BY <1>1
  <2> QED BY <1>1, <1>2, <2>1
<1>4. 1 \in 1..Len(argv) /\ f[1] \in Seq(U) /\ Len(argv) \in 1..Len(argv)
  BY <1>1, <1>2
<1>5. f[Len(argv)] \in Seq(U)
  BY <1>1, <1>3, <1>4, Behind
<1> QED BY <1>2, <1>5 DEF Tokens

\* What is logged has a word for each word of the arguments, and a word of a key only
\* where that stands by itself and is not the value of a flag.
LEMMA Sanitized ==
  ASSUME NEW argv, Tokens(argv) \in Seq(Word)
  PROVE  /\ SanitizeArgs(argv) \in Seq(Word)
         /\ \A j \in DOMAIN SanitizeArgs(argv) : SanitizeArgs(argv)[j][2] \in KeyText =>
               /\ j \in 1..Len(Tokens(argv))
               /\ Tokens(argv)[j][1] = "" /\ Tokens(argv)[j][2] \in KeyText
               /\ ~RedactNext(Tokens(argv))[j - 1]
<1> DEFINE words == Tokens(argv)
           s == SanitizeArgs(argv)
<1>1. s = [i \in DOMAIN words |->
             IF RedactNext(words)[i - 1] THEN Plain(Redacted) ELSE Shown(words[i])]
  BY DEF SanitizeArgs
<1>2. DOMAIN words = 1..Len(words) /\ Len(words) \in Nat /\ \A i \in 1..Len(words) : words[i] \in Word
  OBVIOUS
<1> HIDE DEF words, s
<1>3. \A i \in 1..Len(words) : s[i] = IF RedactNext(words)[i - 1] THEN Plain(Redacted) ELSE Shown(words[i])
  BY <1>1, <1>2
<1>4. \A i \in 1..Len(words) : s[i] \in Word
  <2>1. Plain(Redacted) \in Word /\ \A w \in Word : Shown(w) \in Word
    BY Words
  <2> QED BY <1>2, <1>3, <2>1
<1>5. s = [i \in 1..Len(words) |-> s[i]]
  BY <1>1, <1>2
<1>6. s \in Seq(Word)
  BY <1>2, <1>4, <1>5
<1>7. \A j \in 1..Len(words) : s[j][2] \in KeyText =>
         words[j][1] = "" /\ words[j][2] \in KeyText /\ ~RedactNext(words)[j - 1]
  BY <1>2, <1>3, Words
<1>8. DOMAIN s = 1..Len(words)
  BY <1>1, <1>2
<1> QED BY <1>6, <1>7, <1>8 DEF words, s

\* A log of clean words shows no word of a key.
LEMMA CleanIsHidden ==
  ASSUME NEW argv \in Seq(Seq(Clean)), argv # <<>>
  PROVE  \A j \in DOMAIN SanitizeArgs(argv) : SanitizeArgs(argv)[j][2] \notin KeyText
<1>1. Tokens(argv) \in Seq(Clean)
  BY TokensType
<1>2. Tokens(argv) \in Seq(Word) /\ \A j \in 1..Len(Tokens(argv)) : Tokens(argv)[j] \in Clean
  <2> DEFINE t == Tokens(argv)
  <2>1. t \in Seq(Clean)
    BY <1>1
  <2>2. Clean \subseteq Word
    BY Words
  <2> HIDE DEF t
  <2>3. t \in Seq(Word) /\ \A j \in 1..Len(t) : t[j] \in Clean
    BY <2>1, <2>2
  <2> QED BY <2>3 DEF t
<1> QED BY <1>2, Sanitized, Words

\* A key that stands by itself is hidden when --api-key is before it and no other
\* --api-key is before that.
LEMMA ValueIsHidden ==
  ASSUME NEW argv, Tokens(argv) \in Seq(Word), NEW m \in 1..Len(Tokens(argv)), m >= 3,
         Tokens(argv)[m - 1] = KeyFlag, Tokens(argv)[m - 2] # KeyFlag,
         \A j \in 1..Len(Tokens(argv)) : j # m => Tokens(argv)[j] \in Clean
  PROVE  \A j \in DOMAIN SanitizeArgs(argv) : SanitizeArgs(argv)[j][2] \notin KeyText
<1> DEFINE words == Tokens(argv)
           r == RedactNext(words)
<1>0. Len(words) \in Nat
  OBVIOUS
<1>1. \A i \in 1..Len(words) : r[i] = (~r[i - 1] /\ words[i] = KeyFlag)
  <2> HIDE DEF words
  <2> QED BY <1>0, RedactNextIs
<1>2. m - 2 \in 1..Len(words) /\ m - 1 \in 1..Len(words) /\ (m - 1) - 1 = m - 2
  OBVIOUS
<1>3. words[m - 1] = KeyFlag /\ words[m - 2] # KeyFlag
  OBVIOUS
<1> HIDE DEF words, r
<1>4. r[m - 2] = FALSE
  BY <1>1, <1>2, <1>3
<1>5. r[m - 1]
  BY <1>1, <1>2, <1>3, <1>4
<1>6. SUFFICES ASSUME NEW j \in DOMAIN SanitizeArgs(argv), SanitizeArgs(argv)[j][2] \in KeyText
               PROVE  FALSE
  OBVIOUS
<1>7. /\ j \in 1..Len(words) /\ ~r[j - 1]
      /\ words[j][1] = "" /\ words[j][2] \in KeyText
  BY <1>6, Sanitized DEF words, r
<1>8. j = m
  <2>1. j # m => words[j] \in Clean
    BY <1>7 DEF words
  <2> QED BY <1>7, <2>1, Words
<1> QED BY <1>5, <1>7, <1>8

\* What a line may consist of.
LEMMA LineType ==
  ASSUME NEW line \in Line
  PROVE  /\ line.front \in Seq(Seq(Other)) /\ line.back \in Seq(Seq(Other))
         /\ line.glued \in BOOLEAN
         /\ line.api_key # NoKey => line.api_key \in Seq(KeyText)
  BY DEF Line, Arg, Other

\* The words of an argument are words by themselves.
LEMMA PlainWordsType ==
  ASSUME NEW S, NEW s \in Seq(S), NEW U, \A x \in S : Plain(x) \in U
  PROVE  PlainWords(s) \in Seq(U) /\ Len(PlainWords(s)) = Len(s) /\ Len(s) \in Nat
<1>1. DOMAIN s = 1..Len(s) /\ Len(s) \in Nat /\ \A i \in 1..Len(s) : s[i] \in S
  OBVIOUS
<1>2. PlainWords(s) = [i \in 1..Len(s) |-> Plain(s[i])]
  BY <1>1 DEF PlainWords
<1>3. \A i \in 1..Len(s) : Plain(s[i]) \in U
  BY <1>1
<1>4. PlainWords(s) \in Seq(U) /\ Len(PlainWords(s)) = Len(s)
  BY <1>1, <1>2, <1>3
<1> QED BY <1>1, <1>4

\* The arguments in front of the key, of which the first is the program.
LEMMA FrontWords ==
  ASSUME NEW line \in Line
  PROVE  /\ FrontArgs(line) \in Seq(Seq(Other))
         /\ Len(FrontArgs(line)) \in Nat \ {0} /\ Len(FrontArgs(line)[1]) > 0
<1> DEFINE v == <<Plain("vi")>>
           a == <<v>>
           t == line.front
<1>1. Plain("vi") \in Other
  BY Words DEF OtherText
<1>2. v \in Seq(Other) /\ Len(v) = 1
  BY <1>1
<1>3. t \in Seq(Seq(Other))
  BY LineType
<1>4. FrontArgs(line) = a \o t
  BY DEF FrontArgs
<1> HIDE DEF v, t
<1>5. a \in Seq(Seq(Other)) /\ Len(a) = 1 /\ a[1] = v
  BY <1>2
<1> HIDE DEF a
<1>6. /\ a \o t \in Seq(Seq(Other)) /\ Len(a \o t) = Len(a) + Len(t) /\ Len(t) \in Nat
      /\ \A j \in 1..Len(a) : (a \o t)[j] = a[j]
  BY <1>3, <1>5, Joined
<1>7. 1 \in 1..Len(a)
  BY <1>5
<1> QED BY <1>2, <1>4, <1>5, <1>6, <1>7

\* The arguments of a key, of one word at most, are clean unless the key is an argument of its own.
LEMMA KeyWords ==
  ASSUME NEW line \in Line
  PROVE  /\ KeyArgs(line) \in Seq(Seq(Word))
         /\ \/ KeyArgs(line) \in Seq(Seq(Clean))
            \/ ~line.glued /\ \E w \in Word : KeyArgs(line) = << <<KeyFlag>>, <<w>> >>
            \/ Len(line.api_key) > 1
<1>0. \A x \in KeyText : Plain(x) \in Word
  BY Words
<1>1. KeyFlag \in Word /\ KeyFlag \in Clean
  BY Words
<1>2. \A k \in KeyText : <<"--api-key=", k>> \in Clean /\ <<"--api-key=", k>> \in Word
  BY Words DEF Clean
<1>3. <<"--api-key=", "">> \in Clean
  BY Words DEF Clean, Other, Prefix, OtherText
<1>4. CASE line.api_key = NoKey
  BY <1>4 DEF KeyArgs
<1>5. CASE line.api_key # NoKey /\ ~line.glued
  <2> DEFINE p == PlainWords(line.api_key)
  <2>1. line.api_key \in Seq(KeyText)
    BY <1>5, LineType
  <2>2. p \in Seq(Word) /\ Len(p) = Len(line.api_key) /\ Len(p) \in Nat
    BY <1>0, <2>1, PlainWordsType
  <2>3. KeyArgs(line) = << <<KeyFlag>>, p >>
    BY <1>5 DEF KeyArgs
  <2> HIDE DEF p
  <2>4. KeyArgs(line) \in Seq(Seq(Word))
    BY <1>1, <2>2, <2>3
  <2>5. CASE Len(p) = 0
    <3>1. p \in Seq(Clean)
      BY <2>2, <2>5
    <3>2. << <<KeyFlag>>, p >> \in Seq(Seq(Clean))
      BY <1>1, <3>1
    <3> QED BY <2>3, <2>4, <3>2
  <2>6. CASE Len(p) = 1
    <3>1. p = <<p[1]>> /\ p[1] \in Word
      BY <2>2, <2>6
    <3> QED BY <1>5, <2>3, <2>4, <3>1
  <2>7. CASE Len(p) > 1
    BY <2>2, <2>4, <2>7
  <2>8. Len(p) = 0 \/ Len(p) = 1 \/ Len(p) > 1
    <3>1. \A n \in Nat : n = 0 \/ n = 1 \/ n > 1
      OBVIOUS
    <3> QED BY <2>2, <3>1, Zenon
  <2> QED BY <2>5, <2>6, <2>7, <2>8, Zenon
<1>6. CASE line.api_key # NoKey /\ line.glued /\ line.api_key = <<>>
  <2>1. KeyArgs(line) = << << <<"--api-key=", "">> >> >>
    BY <1>6 DEF KeyArgs
  <2>2. <<"--api-key=", "">> \in Word
    BY <1>3, Words
  <2>3. \A U : \A u \in U : << <<u>> >> \in Seq(Seq(U))
    OBVIOUS
  <2>4. KeyArgs(line) \in Seq(Seq(Clean)) /\ KeyArgs(line) \in Seq(Seq(Word))
    BY <1>3, <2>1, <2>2, <2>3
  <2> QED BY <2>4
<1>7. CASE line.api_key # NoKey /\ line.glued /\ line.api_key # <<>>
  <2> DEFINE w == <<"--api-key=", Head(line.api_key)>>
             t == Tail(line.api_key)
             p == PlainWords(t)
             q == <<w>> \o p
  <2>1. /\ line.api_key \in Seq(KeyText) /\ Head(line.api_key) \in KeyText
        /\ t \in Seq(KeyText) /\ Len(t) = Len(line.api_key) - 1
    BY <1>7, LineType
  <2>2. w \in Clean /\ w \in Word
    BY <1>2, <2>1
  <2>3. KeyArgs(line) = <<q>>
    BY <1>7 DEF KeyArgs
  <2> HIDE DEF w, t
  <2>4. p \in Seq(Word) /\ Len(p) = Len(t) /\ Len(t) \in Nat
    BY <1>0, <2>1, PlainWordsType
  <2> HIDE DEF p
  <2>5. KeyArgs(line) \in Seq(Seq(Word))
    <3>1. q \in Seq(Word)
      BY <2>2, <2>4
    <3>2. \A s \in Seq(Word) : <<s>> \in Seq(Seq(Word))
      OBVIOUS
    <3>3. KeyArgs(line) \in Seq(Seq(Word))
      <4> HIDE DEF q
      <4> QED BY <2>3, <3>1, <3>2
    <3> QED BY <3>3
  <2>6. CASE Len(p) = 0
    <3>1. q \in Seq(Clean)
      BY <2>2, <2>4, <2>6
    <3>2. \A s \in Seq(Clean) : <<s>> \in Seq(Seq(Clean))
      OBVIOUS
    <3>3. KeyArgs(line) \in Seq(Seq(Clean))
      <4> HIDE DEF q
      <4> QED BY <2>3, <3>1, <3>2
    <3> QED BY <2>5, <3>3
  <2>7. CASE Len(p) > 0
    <3>1. Len(line.api_key) \in Nat
      BY <2>1
    <3>2. Len(line.api_key) > 1
      BY <2>1, <2>4, <2>7, <3>1
    <3> QED BY <2>5, <3>2
  <2> QED BY <2>4, <2>6, <2>7
<1> QED BY <1>4, <1>5, <1>6, <1>7

\* The arguments are words, and clean ones when those of the key are.
LEMMA ArgvWords ==
  ASSUME NEW line \in Line
  PROVE  /\ Argv(line) \in Seq(Seq(Word)) /\ Argv(line) # <<>>
         /\ KeyArgs(line) \in Seq(Seq(Clean)) => Argv(line) \in Seq(Seq(Clean))
<1>1. ASSUME NEW U, Other \subseteq U, KeyArgs(line) \in Seq(Seq(U))
      PROVE  Argv(line) \in Seq(Seq(U)) /\ Argv(line) # <<>>
  <2> DEFINE a == FrontArgs(line)
             k == KeyArgs(line)
             b == line.back
  <2>1. Argv(line) = (a \o k) \o b
    BY DEF Argv
  <2>2. Seq(Other) \subseteq Seq(U)
    BY <1>1
  <2>3. /\ a \in Seq(Seq(Other)) /\ Len(a) \in Nat \ {0} /\ k \in Seq(Seq(U))
        /\ b \in Seq(Seq(Other))
    BY <1>1, FrontWords, LineType
  <2> HIDE DEF a, k, b
  <2>4. a \in Seq(Seq(U)) /\ b \in Seq(Seq(U))
    BY <2>2, <2>3
  <2> QED BY <2>1, <2>3, <2>4
<1>2. Other \subseteq Clean /\ Other \subseteq Word
  BY Words
<1>3. KeyArgs(line) \in Seq(Seq(Word))
  BY KeyWords
<1> QED BY <1>1, <1>2, <1>3

\* f[i] is what the first i of n arguments are joined to.
JoinsUp(f, argv, n) == f[1] = argv[1] /\ \A i \in 2..n : f[i] = f[i - 1] \o argv[i]

\* Arguments that begin alike have the same words so far.
LEMMA SameWords ==
  ASSUME NEW n \in Nat \ {0}, NEW a, NEW b, NEW f, NEW g, JoinsUp(f, a, n), JoinsUp(g, b, n),
         \A i \in 1..n : a[i] = b[i]
  PROVE  f[n] = g[n]
<1> USE DEF JoinsUp
<1> DEFINE S == {k \in Nat : k + 1 <= n => f[k + 1] = g[k + 1]}
<1>1. 0 \in S
  OBVIOUS
<1>2. ASSUME NEW k \in Nat, k \in S PROVE k + 1 \in S
  <2> SUFFICES ASSUME k + 2 <= n PROVE f[k + 2] = g[k + 2]
    OBVIOUS
  <2>1. f[k + 1] = g[k + 1]
    BY <1>2
  <2>2. k + 2 \in 2..n /\ k + 2 \in 1..n /\ (k + 2) - 1 = k + 1
    OBVIOUS
  <2>3. f[k + 2] = f[k + 1] \o a[k + 2] /\ g[k + 2] = g[k + 1] \o b[k + 2]
    BY <2>2
  <2> QED BY <2>1, <2>2, <2>3
<1>3. n - 1 \in S
  <2> HIDE DEF S
  <2> QED BY <1>1, <1>2, Climb
<1> QED BY <1>3

\* A key that is an argument of its own, behind arguments whose words do not end in
\* --api-key and in front of any others.
LEMMA KeyAmongOthers ==
  ASSUME NEW argv, NEW a \in Seq(Seq(Other)), a # <<>>, NEW b \in Seq(Seq(Other)),
         NEW w \in Word, argv = (a \o << <<KeyFlag>>, <<w>> >>) \o b,
         Tokens(a) # <<>>, Last(Tokens(a)) # KeyFlag
  PROVE  \A j \in DOMAIN SanitizeArgs(argv) : SanitizeArgs(argv)[j][2] \notin KeyText
<1> DEFINE P == Tokens(a)
           n == Len(a)
           flag == <<KeyFlag>>
           value == <<w>>
           k == <<flag, value>>
           c == a \o k
           words == Tokens(argv)
           m == Len(P) + 2
<1>1. Other \subseteq Word /\ Other \subseteq Clean /\ KeyFlag \in Other /\ KeyFlag \in Word
  BY Words
<1>2. P \in Seq(Other) /\ P # <<>> /\ P[Len(P)] # KeyFlag
  BY TokensType DEF Last
<1>3. /\ flag \in Seq(Word) /\ value \in Seq(Word)
      /\ Len(flag) = 1 /\ Len(value) = 1 /\ flag[1] = KeyFlag /\ value[1] = w
  BY <1>1
<1>4. n \in Nat \ {0} /\ argv = c \o b /\ words = Tokens(argv)
  OBVIOUS
<1>5. a \in Seq(Seq(Word)) /\ b \in Seq(Seq(Word))
  BY <1>1
<1> HIDE DEF flag, value, P, words
<1>6. k \in Seq(Seq(Word)) /\ Len(k) = 2 /\ k[1] = flag /\ k[2] = value
  BY <1>3
<1> HIDE DEF k
<1>7. /\ c \in Seq(Seq(Word)) /\ Len(c) = n + 2
      /\ \A i \in 1..n : c[i] = a[i]
      /\ c[n + 1] = flag /\ c[n + 2] = value
  <2>1. /\ c \in Seq(Seq(Word)) /\ Len(c) = Len(a) + Len(k)
        /\ \A i \in 1..Len(a) : c[i] = a[i]
        /\ \A j \in (Len(a) + 1)..(Len(a) + Len(k)) : c[j] = k[j - Len(a)]
    <3>1. a \in Seq(Seq(Word)) /\ k \in Seq(Seq(Word))
      BY <1>5, <1>6
    <3> QED BY ONLY <3>1, Joined, Zenon
  <2>2. /\ n + 1 \in (n + 1)..(n + 2) /\ (n + 1) - n = 1
        /\ n + 2 \in (n + 1)..(n + 2) /\ (n + 2) - n = 2
    BY <1>4
  <2> HIDE DEF c
  <2> QED BY <1>6, <2>1, <2>2
<1> HIDE DEF c
<1>8. /\ Len(argv) \in Nat /\ Len(argv) >= n + 2
      /\ \A i \in 1..n : argv[i] = a[i]
      /\ argv[n + 1] = flag /\ argv[n + 2] = value
      /\ \A i \in (n + 3)..Len(argv) : argv[i] \in Seq(Other)
  <2>1. /\ Len(argv) = Len(c) + Len(b) /\ Len(b) \in Nat
        /\ \A j \in 1..Len(c) : argv[j] = c[j]
        /\ \A j \in (Len(c) + 1)..(Len(c) + Len(b)) :
              argv[j] = b[j - Len(c)] /\ j - Len(c) \in 1..Len(b)
    <3>1. argv = c \o b
      BY <1>4
    <3>2. /\ Len(c \o b) = Len(c) + Len(b) /\ Len(b) \in Nat
          /\ \A j \in 1..Len(c) : (c \o b)[j] = c[j]
          /\ \A j \in (Len(c) + 1)..(Len(c) + Len(b)) :
                (c \o b)[j] = b[j - Len(c)] /\ j - Len(c) \in 1..Len(b)
      <4>1. c \in Seq(Seq(Word)) /\ b \in Seq(Seq(Word))
        BY <1>5, <1>7
      <4> QED BY ONLY <4>1, Joined, Zenon
    <3> QED BY ONLY <3>1, <3>2
  <2>2. \A i \in 1..Len(b) : b[i] \in Seq(Other)
    OBVIOUS
  <2>3. n \in Nat /\ n + 1 \in 1..Len(c) /\ n + 2 \in 1..Len(c) /\ \A i \in 1..n : i \in 1..Len(c)
    BY <1>4, <1>7
  <2>4. Len(c) = n + 2
    BY <1>7
  <2> HIDE DEF n
  <2>5. /\ Len(argv) \in Nat /\ Len(argv) >= n + 2
        /\ \A i \in 1..n : argv[i] = a[i]
        /\ argv[n + 1] = flag /\ argv[n + 2] = value
    BY ONLY <1>7, <2>1, <2>3, <2>4
  <2>6. \A i \in (n + 3)..Len(argv) : argv[i] \in Seq(Other)
    <3>1. \A i \in (n + 3)..Len(argv) : i \in (Len(c) + 1)..(Len(c) + Len(b))
      BY ONLY <2>1, <2>3, <2>4
    <3> QED BY ONLY <2>1, <2>2, <3>1
  <2> QED BY <2>5, <2>6
<1>9. PICK f : /\ f[1] = argv[1]
               /\ \A i \in 2..Len(argv) : f[i] = f[i - 1] \o argv[i]
               /\ FlattenSeq(argv) = f[Len(argv)]
  <2>1. Len(argv) \in Nat \ {0}
    BY <1>4, <1>8
  <2> QED BY <2>1, Flattened
<1>10. f[n] = P
  <2>1. PICK g : /\ g[1] = a[1]
                 /\ \A i \in 2..n : g[i] = g[i - 1] \o a[i]
                 /\ FlattenSeq(a) = g[n]
    BY <1>4, Flattened
  <2>2. \A i \in 2..n : f[i] = f[i - 1] \o argv[i]
    <3>1. \A i \in 2..n : i \in 2..Len(argv)
      BY <1>4, <1>8
    <3> QED BY <1>9, <3>1
  <2>3. f[n] = g[n]
    <3>1. n \in Nat \ {0} /\ \A i \in 1..n : argv[i] = a[i]
      BY <1>4, <1>8
    <3>2. f[1] = argv[1]
      BY <1>4, <1>8, <1>9
    <3>3. JoinsUp(f, argv, n) /\ JoinsUp(g, a, n)
      BY <2>1, <2>2, <3>2 DEF JoinsUp
    <3> HIDE DEF n
    <3> QED BY ONLY <3>1, <3>3, SameWords
  <2> QED BY <2>1, <2>3 DEF Tokens, P
<1>11. f[n + 2] = (P \o flag) \o value
  <2>1. /\ n + 1 \in 2..Len(argv) /\ (n + 1) - 1 = n
        /\ n + 2 \in 2..Len(argv) /\ (n + 2) - 1 = n + 1
    BY <1>4, <1>8
  <2>2. f[n + 1] = f[n] \o flag
    BY <1>8, <1>9, <2>1
  <2>3. f[n + 2] = f[n + 1] \o value
    BY <1>8, <1>9, <2>1
  <2> QED BY <1>10, <2>2, <2>3
<1>12. /\ f[n + 2] \in Seq(Word) /\ Len(f[n + 2]) = m /\ Len(P) \in Nat \ {0}
       /\ \A j \in 1..Len(P) : f[n + 2][j] = P[j] /\ P[j] \in Other
       /\ f[n + 2][m - 1] = KeyFlag
  <2> DEFINE q == P \o flag
  <2>1. P \in Seq(Word) /\ Len(P) \in Nat \ {0} /\ \A j \in 1..Len(P) : P[j] \in Other
    BY <1>1, <1>2
  <2>2. /\ q \in Seq(Word) /\ Len(q) = Len(P) + 1
        /\ \A j \in 1..Len(P) : q[j] = P[j]
        /\ q[Len(P) + 1] = KeyFlag
    <3>0. /\ P \in Seq(Word) /\ flag \in Seq(Word)
      BY <1>3, <2>1
    <3>1. /\ q \in Seq(Word) /\ Len(q) = Len(P) + Len(flag)
          /\ \A j \in 1..Len(P) : q[j] = P[j]
          /\ \A j \in (Len(P) + 1)..(Len(P) + Len(flag)) : q[j] = flag[j - Len(P)]
      BY ONLY <3>0, Joined
    <3>2. Len(P) + 1 \in (Len(P) + 1)..(Len(P) + 1) /\ (Len(P) + 1) - Len(P) = 1
      BY <2>1
    <3> HIDE DEF q
    <3> QED BY <1>3, <3>1, <3>2
  <2> HIDE DEF q
  <2>3. /\ q \o value \in Seq(Word) /\ Len(q \o value) = Len(q) + Len(value)
        /\ \A j \in 1..Len(q) : (q \o value)[j] = q[j]
    BY ONLY <1>3, <2>2, Joined
  <2>4. /\ Len(q) + 1 = m /\ m - 1 = Len(P) + 1 /\ Len(P) + 1 \in 1..Len(q)
        /\ \A j \in 1..Len(P) : j \in 1..Len(q)
    BY <2>1, <2>2
  <2>5. f[n + 2] = q \o value
    BY <1>11 DEF q
  <2> HIDE DEF m
  <2> QED BY <1>3, <2>1, <2>2, <2>3, <2>4, <2>5
<1>13. /\ words \in Seq(Word) /\ Len(words) >= m
       /\ \A j \in 1..m : words[j] = f[n + 2][j]
       /\ \A j \in (m + 1)..Len(words) : words[j] \in Other
  <2>1. \A i \in ((n + 2) + 1)..Len(argv) : f[i] = f[i - 1] \o argv[i] /\ argv[i] \in Seq(Other)
    <3>1. \A i \in ((n + 2) + 1)..Len(argv) : i \in 2..Len(argv) /\ i \in (n + 3)..Len(argv)
      BY <1>4, <1>8
    <3> QED BY <1>8, <1>9, <3>1
  <2>2. n + 2 \in 1..Len(argv) /\ Len(argv) \in (n + 2)..Len(argv)
    BY <1>4, <1>8
  <2>3. f[n + 2] \in Seq(Word) /\ Len(f[n + 2]) = m
    BY <1>12
  <2> HIDE DEF n, m
  <2>4. /\ f[Len(argv)] \in Seq(Word) /\ Len(f[Len(argv)]) >= Len(f[n + 2])
        /\ \A j \in 1..Len(f[n + 2]) : f[Len(argv)][j] = f[n + 2][j]
        /\ \A j \in (Len(f[n + 2]) + 1)..Len(f[Len(argv)]) : f[Len(argv)][j] \in Other
    <3>1. Other \subseteq Word /\ Len(argv) \in Nat
      BY <1>1, <1>8
    <3> DEFINE h == n + 2
    <3>2. h \in 1..Len(argv) /\ Len(argv) \in h..Len(argv) /\ f[h] \in Seq(Word)
      BY <2>2, <2>3
    <3>3. \A i \in (h + 1)..Len(argv) : f[i] = f[i - 1] \o argv[i] /\ argv[i] \in Seq(Other)
      BY <2>1
    <3> HIDE DEF h
    <3>4. /\ f[Len(argv)] \in Seq(Word) /\ Len(f[Len(argv)]) >= Len(f[h])
          /\ \A j \in 1..Len(f[h]) : f[Len(argv)][j] = f[h][j]
          /\ \A j \in (Len(f[h]) + 1)..Len(f[Len(argv)]) : f[Len(argv)][j] \in Other
      BY ONLY <3>1, <3>2, <3>3, Behind
    <3> QED BY <3>4 DEF h
  <2>5. words = f[Len(argv)]
    BY <1>9 DEF Tokens, words
  <2> QED BY <2>3, <2>4, <2>5
<1>14. m \in 1..Len(words) /\ m >= 3 /\ m - 2 = Len(P) /\ m - 2 \in 1..Len(P)
  BY <1>12, <1>13
<1>15. words[m - 1] = KeyFlag /\ words[m - 2] # KeyFlag
  <2>1. m - 1 \in 1..m /\ m - 2 \in 1..m
    BY <1>12
  <2> HIDE DEF m
  <2>2. words[m - 1] = f[n + 2][m - 1] /\ words[m - 2] = f[n + 2][m - 2]
    BY ONLY <1>13, <2>1
  <2>3. f[n + 2][m - 2] = P[m - 2] /\ P[m - 2] # KeyFlag
    BY ONLY <1>2, <1>12, <1>14
  <2> QED BY ONLY <1>12, <2>2, <2>3
<1>16. \A j \in 1..Len(words) : j # m => words[j] \in Clean
  <2> SUFFICES ASSUME NEW j \in 1..Len(words), j # m PROVE words[j] \in Clean
    OBVIOUS
  <2>1. Len(words) \in Nat /\ Len(P) \in Nat /\ j \in 1..Len(words) /\ j # m
    BY <1>12, <1>13
  <2>2. j \in 1..Len(P) \/ j = m - 1 \/ j \in (m + 1)..Len(words)
    BY ONLY <2>1
  <2>3. (m - 1) \in 1..m /\ \A i \in 1..Len(P) : i \in 1..m
    BY <1>12
  <2> HIDE DEF m
  <2>4. CASE j \in 1..Len(P)
    BY ONLY <1>1, <1>12, <1>13, <2>3, <2>4
  <2>5. CASE j = m - 1
    BY ONLY <1>1, <1>12, <1>13, <2>3, <2>5
  <2>6. CASE j \in (m + 1)..Len(words)
    BY ONLY <1>1, <1>13, <2>6
  <2> QED BY ONLY <2>2, <2>4, <2>5, <2>6
<1> HIDE DEF m
<1> QED BY <1>13, <1>14, <1>15, <1>16, ValueIsHidden DEF words

\* The words in front of the key: at least the program.
LEMMA FrontTokens ==
  ASSUME NEW line \in Line
  PROVE  Tokens(FrontArgs(line)) # <<>>
<1> DEFINE a == FrontArgs(line)
<1>0. a \in Seq(Seq(Other)) /\ Len(a) \in Nat \ {0} /\ Len(a[1]) > 0
  BY FrontWords
<1> HIDE DEF a
<1>1. /\ Len(a) \in Nat \ {0} /\ Len(a[1]) > 0
      /\ \A i \in 1..Len(a) : a[i] \in Seq(Other)
  BY <1>0
<1>2. PICK f : /\ f[1] = a[1]
               /\ \A i \in 2..Len(a) : f[i] = f[i - 1] \o a[i]
               /\ FlattenSeq(a) = f[Len(a)]
  BY <1>1, Flattened
<1>3. \A i \in (1 + 1)..Len(a) : f[i] = f[i - 1] \o a[i] /\ a[i] \in Seq(Other)
  <2>1. \A i \in (1 + 1)..Len(a) : i \in 2..Len(a) /\ i \in 1..Len(a)
    BY <1>1
  <2> QED BY <1>1, <1>2, <2>1
<1>4. 1 \in 1..Len(a) /\ f[1] \in Seq(Other) /\ Len(a) \in 1..Len(a)
  BY <1>1, <1>2
<1>5. f[Len(a)] \in Seq(Other) /\ Len(f[Len(a)]) >= Len(f[1])
  BY <1>1, <1>3, <1>4, Behind
<1>6. f[Len(a)] # <<>>
  BY <1>1, <1>2, <1>4, <1>5
<1> QED BY <1>2, <1>6 DEF Tokens, a

\* The arguments as they are logged: words, of which none is of the key but on the two
\* lines that escape.
LEMMA LoggedArgs ==
  ASSUME NEW line \in Line
  PROVE  /\ SanitizeArgs(Argv(line)) \in Seq(Word)
         /\ \/ Len(line.api_key) > 1
            \/ ~line.glued /\ Last(Tokens(FrontArgs(line))) = KeyFlag
            \/ \A j \in DOMAIN SanitizeArgs(Argv(line)) : SanitizeArgs(Argv(line))[j][2] \notin KeyText
<1>1. Argv(line) \in Seq(Seq(Word)) /\ Argv(line) # <<>>
  BY ArgvWords
<1>2. Tokens(Argv(line)) \in Seq(Word)
  BY <1>1, TokensType
<1>3. SanitizeArgs(Argv(line)) \in Seq(Word)
  BY <1>2, Sanitized
<1>4. CASE KeyArgs(line) \in Seq(Seq(Clean))
  <2>1. Argv(line) \in Seq(Seq(Clean))
    BY <1>4, ArgvWords
  <2> QED BY <1>1, <1>3, <2>1, CleanIsHidden
<1>5. ASSUME NEW w \in Word, KeyArgs(line) = << <<KeyFlag>>, <<w>> >>,
             Last(Tokens(FrontArgs(line))) # KeyFlag
      PROVE  \A j \in DOMAIN SanitizeArgs(Argv(line)) : SanitizeArgs(Argv(line))[j][2] \notin KeyText
  <2>1. Argv(line) = (FrontArgs(line) \o << <<KeyFlag>>, <<w>> >>) \o line.back
    BY <1>5 DEF Argv
  <2>2. /\ FrontArgs(line) \in Seq(Seq(Other)) /\ FrontArgs(line) # <<>>
        /\ line.back \in Seq(Seq(Other))
    BY FrontWords, LineType
  <2>3. Tokens(FrontArgs(line)) # <<>>
    BY FrontTokens
  <2> QED BY <1>5, <2>1, <2>2, <2>3, KeyAmongOthers
<1> QED BY <1>3, <1>4, <1>5, KeyWords

-----------------------------------------------------------------------------
\* The codes are told apart from each other and from what help, usage errors
\* and interrupts exit with.
LEMMA ExitCodes ==
    /\ ExitCode("ok") = 0 /\ ExitCode("internal") = 70
    /\ \A c \in Category : ExitCode(c) \in Nat \ {0, UsageExit, SigintExit}
    /\ \A c, d \in Category : ExitCode(c) = ExitCode(d) => c = d
<1>1. /\ ExitCode("ok") = 0
      /\ ExitCode("verification_failed") = 1
      /\ ExitCode("input") = 2
      /\ ExitCode("network") = 3
      /\ ExitCode("hash_mismatch") = 4
      /\ ExitCode("receipt_missing") = 5
      /\ ExitCode("unknown_version") = 6
      /\ ExitCode("identity_mismatch") = 7
      /\ ExitCode("unsupported_tier") = 8
      /\ ExitCode("corrupt_envelope") = 9
      /\ ExitCode("internal") = 70
  BY DEF ExitCode
<1>2. QED
  BY <1>1 DEF Category, UsageExit, SigintExit

\* What a subcommand does, as far as the frame can tell.
LEMMA RunStep ==
    ASSUME RunCli
    PROVE  /\ pc \in Busy
           /\ \/ pc' = "returned" /\ result' \in Category \cup {"ok"}
              \/ pc' \in Busy /\ result' = result
           /\ \/ events' = events
              \/ \E n \in {"verify.phase.start", "verify.phase.end"} :
                    events' = Append(events, PhaseEvent(n))
           /\ sent' = sent \/ sent' = Append(sent, trace_id)
           /\ UNCHANGED Unseen
<1> USE DEF Runs, At, Return, Continue, Goto, Busy
<1>1. CASE Keygen
  BY <1>1 DEF Keygen, Category
<1>2. CASE Chat
  BY <1>2 DEF Chat, Category
<1>3. CASE Verify
  BY <1>3 DEF Verify, Category
<1>4. CASE Tui
  BY <1>4 DEF Tui, Category
<1>5. CASE TestHook
  BY <1>5 DEF TestHook, Category
<1>6. CASE NoCommand
  BY <1>6 DEF NoCommand
<1>7. CASE Send
  BY <1>7 DEF Send
<1>8. CASE ChatAnswer
  BY <1>8 DEF ChatAnswer, Category
<1>9. CASE VerifyAnswer
  BY <1>9 DEF VerifyAnswer, Category
<1>10. CASE Phase
  BY <1>10 DEF Phase, Logged
<1>11. CASE Verified
  BY <1>11 DEF Verified, Category
<1>12. QED
  BY <1>1, <1>2, <1>3, <1>4, <1>5, <1>6, <1>7, <1>8, <1>9, <1>10, <1>11 DEF RunCli

\* What appending one event does to a log.
LEMMA AppendEvent ==
    ASSUME NEW line, NEW log \in Seq(LogEntry(line)), NEW e \in LogEntry(line)
    PROVE  /\ Append(log, e) \in Seq(LogEntry(line))
           /\ NoEnd(log) /\ e.event # "process.end" => NoEnd(Append(log, e))
           /\ \A code : e = ProcessEnd(code) => EndsWith(Append(log, e), code)
           /\ \A code, open : NoEnd(log) /\ e = ProcessEnd(code) => EndsSay(Append(log, e), open, code)
<1> DEFINE t == Append(log, e)
<1>1. /\ t \in Seq(LogEntry(line)) /\ t # <<>>
      /\ DOMAIN t = DOMAIN log \cup {Len(t)} /\ Len(t) \notin DOMAIN log
      /\ \A i \in DOMAIN log : t[i] = log[i]
      /\ t[Len(t)] = e
  OBVIOUS
<1>2. NoEnd(log) /\ e.event # "process.end" => NoEnd(t)
  BY <1>1 DEF NoEnd
<1>3. ASSUME NEW code, e = ProcessEnd(code) PROVE EndsWith(t, code)
  BY <1>1, <1>3 DEF EndsWith
<1>4. ASSUME NEW code, NEW open, NoEnd(log), e = ProcessEnd(code) PROVE EndsSay(t, open, code)
  <2>1. e.exit_code = code
    BY <1>4 DEF ProcessEnd
  <2>2. QED
    BY <1>1, <1>4, <2>1 DEF EndsSay, NoEnd
<1>5. QED
  BY <1>1, <1>2, <1>3, <1>4

\* What the frame appends.
LEMMA Entries ==
    /\ ProcessStart \in LogEntry(call.line) /\ ProcessStart.event # "process.end"
    /\ \A c \in Nat : ProcessEnd(c) \in LogEntry(call.line)
    /\ \A c \in Nat : ProcessError(c) \in LogEntry(call.line) /\ ProcessError(c).event # "process.end"
    /\ \A n \in {"verify.phase.start", "verify.phase.end"} :
          PhaseEvent(n) \in LogEntry(call.line) /\ PhaseEvent(n).event # "process.end"
  BY DEF LogEntry, ProcessStart, ProcessEnd, ProcessError, PhaseEvent

\* What a log says when nothing is appended to it.
LEMMA SameLog ==
    ASSUME NEW log, NEW open, NEW code
    PROVE  /\ NoEnd(log) => EndsSay(log, open, code)
           /\ EndsSay(log, open, code) => EndsSay(log, FALSE, code)
           /\ ~open /\ EndsSay(log, open, 0) => EndsSay(log, open, 70)
  BY Zenon DEF NoEnd, EndsSay

\* What the log of the process says before an event ends it.
LEMMA Quiet == \A code : NoEnd(events) => EndsSay(events, readable, code)
  BY Zenon DEF NoEnd, EndsSay

\* What it says when the reader of stdout goes away.
LEMMA ReaderGone == \A code : EndsSay(events, readable, code) => EndsSay(events, FALSE, code)
  BY Zenon DEF EndsSay

\* One step lemma for each conjunct of Inv, with one case per action.
LEMMA ResultStep == ResultInv /\ [Next]_vars => ResultInv'
<1> SUFFICES ASSUME ResultInv, [Next]_vars PROVE ResultInv'
  OBVIOUS
<1> USE ExitCodes DEF ResultInv, PC, BeforeEnvelope, BeforeEnd, Busy, Printing, AfterFailure,
    Running, SigintExit, UsageExit, Goto, At, given, logVars, outputVars, Unseen
<1>1. CASE Boot
  BY <1>1 DEF Boot
<1>2. CASE Parse
  BY <1>2 DEF Parse, Exits
<1>3. CASE InitLogging
  BY <1>3 DEF InitLogging, Category
<1>4. CASE Start
  BY <1>4 DEF Start
<1>5. CASE RunCli
  BY <1>5, RunStep
<1>6. CASE EndOk
  BY <1>6 DEF EndOk
<1>7. CASE ReportError
  BY <1>7 DEF ReportError, AfterProcessError
<1>8. CASE EndError
  BY <1>8 DEF EndError
<1>9. CASE Leave
  BY <1>9 DEF Leave, Exits
<1>10. CASE BeginDocument
  BY <1>10 DEF BeginDocument, StdoutFails
<1>11. CASE EndDocument
  BY <1>11 DEF EndDocument, StdoutFails
<1>12. CASE BeginEnvelope
  BY <1>12 DEF BeginEnvelope, EnvelopeTraceId
<1>13. CASE EndEnvelope
  BY <1>13 DEF EndEnvelope
<1>14. CASE Panic
  BY <1>14 DEF Panic, StdoutFails, Category
<1>15. CASE Interrupt
  BY <1>15 DEF Interrupt, Exits
<1>16. CASE ReaderLeaves
  BY <1>16 DEF ReaderLeaves
<1>17. CASE UNCHANGED vars
  BY <1>17 DEF vars
<1>18. QED
  BY <1>1, <1>2, <1>3, <1>4, <1>5, <1>6, <1>7, <1>8, <1>9,
     <1>10, <1>11, <1>12, <1>13, <1>14, <1>15, <1>16, <1>17 DEF Next

\* An envelope is begun for the result of the run and is finished before the process leaves.
LEMMA EnvelopeStep == EnvelopeInv /\ ResultInv /\ TraceInv /\ [Next]_vars => EnvelopeInv'
<1> SUFFICES ASSUME EnvelopeInv, ResultInv, TraceInv, [Next]_vars PROVE EnvelopeInv'
  OBVIOUS
<1>0. trace_id \in Nat /\ generated \in Nat
  BY DEF TraceInv
<1> USE <1>0, ExitCodes DEF EnvelopeInv, ResultInv, BeforeEnvelope, BeforeEnd, Busy, Printing,
    AfterFailure, SigintExit, UsageExit, Goto, At, given, logVars, outputVars, Unseen
<1>1. CASE Boot
  BY <1>1 DEF Boot
<1>2. CASE Parse
  BY <1>2 DEF Parse, Exits
<1>3. CASE InitLogging
  BY <1>3 DEF InitLogging
<1>4. CASE Start
  BY <1>4 DEF Start
<1>5. CASE RunCli
  BY <1>5, RunStep
<1>6. CASE EndOk
  BY <1>6 DEF EndOk
<1>7. CASE ReportError
  BY <1>7 DEF ReportError, AfterProcessError
<1>8. CASE EndError
  BY <1>8 DEF EndError
<1>9. CASE Leave
  BY <1>9 DEF Leave, Exits
<1>10. CASE BeginDocument
  BY <1>10 DEF BeginDocument, StdoutFails
<1>11. CASE EndDocument
  BY <1>11 DEF EndDocument, StdoutFails
<1>12. CASE BeginEnvelope
  BY <1>12 DEF BeginEnvelope, EnvelopeTraceId, Envelope
<1>13. CASE EndEnvelope
  BY <1>13 DEF EndEnvelope, Envelope
<1>14. CASE Panic
  BY <1>14 DEF Panic, StdoutFails, Envelope, Category, TakesTraceId
<1>15. CASE Interrupt
  BY <1>15 DEF Interrupt, Exits
<1>16. CASE ReaderLeaves
  BY <1>16 DEF ReaderLeaves
<1>17. CASE UNCHANGED vars
  BY <1>17 DEF vars
<1>18. QED
  BY <1>1, <1>2, <1>3, <1>4, <1>5, <1>6, <1>7, <1>8, <1>9,
     <1>10, <1>11, <1>12, <1>13, <1>14, <1>15, <1>16, <1>17 DEF Next

\* The document is begun and finished only after a success.
LEMMA DocumentStep == DocumentInv /\ ResultInv /\ EnvelopeInv /\ [Next]_vars => DocumentInv'
<1> SUFFICES ASSUME DocumentInv, ResultInv, EnvelopeInv, [Next]_vars PROVE DocumentInv'
  OBVIOUS
<1> USE ExitCodes DEF DocumentInv, ResultInv, EnvelopeInv, BeforeEnvelope, BeforeEnd, Busy, Printing,
    AfterFailure, SigintExit, UsageExit, HasOutput, Goto, At, given, logVars, outputVars, Unseen
<1>1. CASE Boot
  BY <1>1 DEF Boot
<1>2. CASE Parse
  BY <1>2 DEF Parse, Exits
<1>3. CASE InitLogging
  BY <1>3 DEF InitLogging
<1>4. CASE Start
  BY <1>4 DEF Start
<1>5. CASE RunCli
  BY <1>5, RunStep
<1>6. CASE EndOk
  BY <1>6 DEF EndOk
<1>7. CASE ReportError
  BY <1>7 DEF ReportError, AfterProcessError
<1>8. CASE EndError
  BY <1>8 DEF EndError
<1>9. CASE Leave
  BY <1>9 DEF Leave, Exits
<1>10. CASE BeginDocument
  BY <1>10 DEF BeginDocument, StdoutFails
<1>11. CASE EndDocument
  BY <1>11 DEF EndDocument, StdoutFails
<1>12. CASE BeginEnvelope
  BY <1>12 DEF BeginEnvelope, EnvelopeTraceId
<1>13. CASE EndEnvelope
  BY <1>13 DEF EndEnvelope
<1>14. CASE Panic
  BY <1>14 DEF Panic, StdoutFails
<1>15. CASE Interrupt
  BY <1>15 DEF Interrupt, Exits
<1>16. CASE ReaderLeaves
  BY <1>16 DEF ReaderLeaves
<1>17. CASE UNCHANGED vars
  BY <1>17 DEF vars
<1>18. QED
  BY <1>1, <1>2, <1>3, <1>4, <1>5, <1>6, <1>7, <1>8, <1>9,
     <1>10, <1>11, <1>12, <1>13, <1>14, <1>15, <1>16, <1>17 DEF Next

\* The log ends with the status of the process.
LEMMA LogStep == LogInv /\ ResultInv /\ [Next]_vars => LogInv'
<1> SUFFICES ASSUME LogInv, ResultInv, [Next]_vars PROVE LogInv'
  OBVIOUS
<1> USE ExitCodes DEF LogInv, ResultInv, BeforeEnd, Busy, Printing,
    AfterFailure, Loud, Running, SigintExit, UsageExit, Goto, At, given, logVars, outputVars, Unseen
<1>1. CASE Boot
  BY <1>1 DEF Boot
<1>2. CASE Parse
  BY <1>2, Quiet DEF Parse, Exits
<1>3. CASE InitLogging
  BY <1>3, Quiet DEF InitLogging
<1>4. CASE Start
  <2> DEFINE e == ProcessStart
  <2>1. NoEnd(events) /\ events \in Seq(LogEntry(call.line))
    BY <1>4 DEF Start
  <2>2. e \in LogEntry(call.line) /\ e.event # "process.end"
    BY Entries DEF Category
  <2>3. Append(events, e) \in Seq(LogEntry(call.line)) /\ NoEnd(Append(events, e))
    BY <2>1, <2>2, AppendEvent
  <2>4. events' \in Seq(LogEntry(call.line)) /\ NoEnd(events')
    BY <1>4, <2>1, <2>3 DEF Start, Logged
  <2>5. QED
    BY <1>4, <2>4 DEF Start
<1>5. CASE RunCli
  <2>1. NoEnd(events) /\ events \in Seq(LogEntry(call.line))
    BY <1>5, RunStep
  <2>2. events' \in Seq(LogEntry(call.line)) /\ NoEnd(events')
    <3>1. CASE events' = events
      BY <2>1, <3>1
    <3>2. ASSUME NEW n \in {"verify.phase.start", "verify.phase.end"},
                 events' = Append(events, PhaseEvent(n))
          PROVE  events' \in Seq(LogEntry(call.line)) /\ NoEnd(events')
      BY <2>1, <3>2, Entries, AppendEvent
    <3>3. QED
      BY <1>5, <3>1, <3>2, RunStep
  <2>3. QED
    BY <1>5, <2>2, RunStep
<1>6. CASE EndOk
  <2> DEFINE e == ProcessEnd(ExitCode(result))
  <2>1. /\ NoEnd(events) /\ events \in Seq(LogEntry(call.line))
        /\ ExitCode(result) \in Nat
    BY <1>6 DEF EndOk
  <2>2. e \in LogEntry(call.line)
    BY <2>1, Entries
  <2>3. /\ Append(events, e) \in Seq(LogEntry(call.line))
        /\ EndsWith(Append(events, e), ExitCode(result))
        /\ EndsSay(Append(events, e), readable, ExitCode(result))
    BY <2>1, <2>2, AppendEvent
  <2>4. EndsSay(events, readable, ExitCode(result))
    BY <2>1, Quiet
  <2>5. events' = Append(events, e) \/ (events' = events /\ ~Loud)
    BY <1>6 DEF EndOk, Logged
  <2> HIDE DEF e
  <2>6. /\ events' \in Seq(LogEntry(call.line))
        /\ EndsSay(events', readable, ExitCode(result))
        /\ Loud => EndsWith(events', ExitCode(result))
    <3>1. CASE events' = Append(events, e)
      BY <2>3, <3>1
    <3>2. CASE events' = events /\ ~Loud
      BY <2>1, <2>4, <3>2
    <3>3. QED
      BY <2>5, <3>1, <3>2
  <2>7. QED
    BY <1>6, <2>6 DEF EndOk
<1>7. CASE ReportError
  <2> DEFINE e == ProcessError(ExitCode(result))
  <2>1. NoEnd(events) /\ events \in Seq(LogEntry(call.line))
    BY <1>7 DEF ReportError, AfterProcessError
  <2>2. e \in LogEntry(call.line) /\ e.event # "process.end"
    BY <1>7, Entries DEF ReportError
  <2>3. Append(events, e) \in Seq(LogEntry(call.line)) /\ NoEnd(Append(events, e))
    BY <2>1, <2>2, AppendEvent
  <2>4. events' \in Seq(LogEntry(call.line)) /\ NoEnd(events')
    BY <1>7, <2>1, <2>3 DEF ReportError, AfterProcessError, Logged
  <2>5. QED
    BY <1>7, <2>4 DEF ReportError, AfterProcessError
<1>8. CASE EndError
  <2> DEFINE e == ProcessEnd(ExitCode(result))
  <2>1. /\ NoEnd(events) /\ events \in Seq(LogEntry(call.line))
        /\ ExitCode(result) \in Nat
    BY <1>8 DEF EndError
  <2>2. e \in LogEntry(call.line)
    BY <2>1, Entries
  <2>3. /\ Append(events, e) \in Seq(LogEntry(call.line))
        /\ EndsWith(Append(events, e), ExitCode(result))
        /\ EndsSay(Append(events, e), readable, ExitCode(result))
    BY <2>1, <2>2, AppendEvent
  <2>4. EndsSay(events, readable, ExitCode(result))
    BY <2>1, Quiet
  <2>5. events' = Append(events, e) \/ (events' = events /\ ~Loud)
    BY <1>8 DEF EndError, Logged
  <2> HIDE DEF e
  <2>6. /\ events' \in Seq(LogEntry(call.line))
        /\ EndsSay(events', readable, ExitCode(result))
        /\ Loud => EndsWith(events', ExitCode(result))
    <3>1. CASE events' = Append(events, e)
      BY <2>3, <3>1
    <3>2. CASE events' = events /\ ~Loud
      BY <2>1, <2>4, <3>2
    <3>3. QED
      BY <2>5, <3>1, <3>2
  <2>7. QED
    BY <1>8, <2>6 DEF EndError
<1>9. CASE Leave
  BY <1>9 DEF Leave, Exits
<1>10. CASE BeginDocument
  BY <1>10 DEF BeginDocument, StdoutFails
<1>11. CASE EndDocument
  BY <1>11 DEF EndDocument, StdoutFails
<1>12. CASE BeginEnvelope
  BY <1>12 DEF BeginEnvelope, EnvelopeTraceId
<1>13. CASE EndEnvelope
  BY <1>13 DEF EndEnvelope
<1>14. CASE Panic
  <2>1. /\ pc' = "closing" /\ result' = "internal" /\ panicked'
        /\ UNCHANGED <<call, events, level, readable, exit>>
    BY <1>14 DEF Panic
  <2>2. EndsSay(events, readable, 70)
    <3>1. CASE pc \in {"run", "answer", "phases"}
      BY <3>1, Quiet
    <3>2. CASE pc \in {"print", "printing"} /\ ~readable
      BY <3>2, SameLog, ZenonT(30)
    <3>3. QED
      BY <1>14, <3>1, <3>2 DEF Panic, StdoutFails
  <2>3. QED
    BY <2>1, <2>2
<1>15. CASE Interrupt
  BY <1>15 DEF Interrupt, Exits
<1>16. CASE ReaderLeaves
  BY <1>16, ReaderGone DEF ReaderLeaves
<1>17. CASE UNCHANGED vars
  BY <1>17 DEF vars
<1>18. QED
  BY <1>1, <1>2, <1>3, <1>4, <1>5, <1>6, <1>7, <1>8, <1>9,
     <1>10, <1>11, <1>12, <1>13, <1>14, <1>15, <1>16, <1>17 DEF Next

\* One trace id.
LEMMA TraceStep == TraceInv /\ ResultInv /\ EnvelopeInv /\ [Next]_vars => TraceInv'
<1> SUFFICES ASSUME TraceInv, ResultInv, EnvelopeInv, [Next]_vars PROVE TraceInv'
  OBVIOUS
<1> USE DEF TraceInv, OneTraceId, ResultInv, EnvelopeInv, BeforeEnvelope, BeforeEnd, Busy, Printing,
    TakesTraceId, Goto, At, given, logVars, outputVars, Unseen
<1>1. CASE Boot
  BY <1>1 DEF Boot
<1>2. CASE Parse
  BY <1>2 DEF Parse, Exits
<1>3. CASE InitLogging
  BY <1>3 DEF InitLogging
<1>4. CASE Start
  BY <1>4 DEF Start
<1>5. CASE RunCli
  <2>1. CASE sent' = sent
    BY <1>5, <2>1, RunStep
  <2>2. CASE sent' = Append(sent, trace_id)
    <3>1. /\ sent' \in Seq(Nat)
          /\ \A i \in DOMAIN sent' : sent'[i] = trace_id
      BY <2>2
    <3>2. QED
      BY <1>5, <3>1, RunStep
  <2>3. QED
    BY <1>5, <2>1, <2>2, RunStep
<1>6. CASE EndOk
  BY <1>6 DEF EndOk
<1>7. CASE ReportError
  BY <1>7 DEF ReportError, AfterProcessError
<1>8. CASE EndError
  BY <1>8 DEF EndError
<1>9. CASE Leave
  BY <1>9 DEF Leave, Exits
<1>10. CASE BeginDocument
  BY <1>10 DEF BeginDocument, StdoutFails
<1>11. CASE EndDocument
  BY <1>11 DEF EndDocument, StdoutFails
<1>12. CASE BeginEnvelope
  BY <1>12 DEF BeginEnvelope, EnvelopeTraceId
<1>13. CASE EndEnvelope
  <2>1. envelope # NoEnvelope
    BY <1>13 DEF EndEnvelope, NoEnvelope
  <2>2. envelope'.trace_id = envelope.trace_id
    BY <1>13 DEF EndEnvelope, Envelope
  <2>3. QED
    BY <1>13, <2>1, <2>2 DEF EndEnvelope
<1>14. CASE Panic
  BY <1>14 DEF Panic, StdoutFails
<1>15. CASE Interrupt
  BY <1>15 DEF Interrupt, Exits
<1>16. CASE ReaderLeaves
  BY <1>16 DEF ReaderLeaves
<1>17. CASE UNCHANGED vars
  BY <1>17 DEF vars
<1>18. QED
  BY <1>1, <1>2, <1>3, <1>4, <1>5, <1>6, <1>7, <1>8, <1>9,
     <1>10, <1>11, <1>12, <1>13, <1>14, <1>15, <1>16, <1>17 DEF Next

\* The types of what the other conjuncts do not need.
LEMMA ValueStep == ValueInv /\ ResultInv /\ TraceInv /\ [Next]_vars => ValueInv'
<1> SUFFICES ASSUME ValueInv, ResultInv, TraceInv, [Next]_vars PROVE ValueInv'
  OBVIOUS
<1>0. trace_id \in Nat /\ generated \in Nat /\ UsageExit \in Nat /\ SigintExit \in Nat
  BY DEF TraceInv, UsageExit, SigintExit
<1> USE <1>0, ExitCodes DEF ValueInv, ResultInv, AfterFailure, Goto, At, given, logVars, outputVars, Unseen
<1>1. CASE Boot
  BY <1>1 DEF Boot
<1>2. CASE Parse
  BY <1>2 DEF Parse, Exits
<1>3. CASE InitLogging
  BY <1>3 DEF InitLogging, FilterSource, Blank, Call, Env, Filter, Category
<1>4. CASE Start
  BY <1>4 DEF Start
<1>5. CASE RunCli
  BY <1>5, RunStep
<1>6. CASE EndOk
  BY <1>6 DEF EndOk
<1>7. CASE ReportError
  BY <1>7 DEF ReportError, AfterProcessError
<1>8. CASE EndError
  BY <1>8 DEF EndError
<1>9. CASE Leave
  BY <1>9 DEF Leave, Exits
<1>10. CASE BeginDocument
  BY <1>10 DEF BeginDocument, StdoutFails
<1>11. CASE EndDocument
  BY <1>11 DEF EndDocument, StdoutFails
<1>12. CASE BeginEnvelope
  BY <1>12 DEF BeginEnvelope, EnvelopeTraceId, Envelope
<1>13. CASE EndEnvelope
  BY <1>13 DEF EndEnvelope, Envelope
<1>14. CASE Panic
  BY <1>14 DEF Panic, TakesTraceId, Envelope, Category
<1>15. CASE Interrupt
  BY <1>15 DEF Interrupt, Exits
<1>16. CASE ReaderLeaves
  BY <1>16 DEF ReaderLeaves
<1>17. CASE UNCHANGED vars
  BY <1>17 DEF vars
<1>18. QED
  BY <1>1, <1>2, <1>3, <1>4, <1>5, <1>6, <1>7, <1>8, <1>9,
     <1>10, <1>11, <1>12, <1>13, <1>14, <1>15, <1>16, <1>17 DEF Next

-----------------------------------------------------------------------------
\* The inductive invariant behind the theorems below: at every step of the process,
\* how its result, its two streams, its log and its trace id belong together.
THEOREM Invariance == Spec => []Inv
<1>1. Init => Inv
  <2> SUFFICES ASSUME Init PROVE Inv
    OBVIOUS
  <2> USE DEF Init
  <2>1. ResultInv
    BY DEF ResultInv, PC, BeforeEnvelope, BeforeEnd, Busy, Printing, AfterFailure, Running
  <2>2. EnvelopeInv
    BY DEF EnvelopeInv
  <2>3. DocumentInv
    BY DEF DocumentInv
  <2>4. LogInv
    BY DEF LogInv, Printing, NoEnd
  <2>5. TraceInv
    BY DEF TraceInv, OneTraceId
  <2>6. ValueInv
    <3>1. call \in Call /\ env \in Env
      BY FrameConstants
    <3>2. NoEnvelope \in Envelope
      BY DEF NoEnvelope, Envelope
    <3>3. QED
      BY <3>1, <3>2 DEF ValueInv
  <2>7. QED
    BY <2>1, <2>2, <2>3, <2>4, <2>5, <2>6 DEF Inv
<1>2. Inv /\ [Next]_vars => Inv'
  BY ResultStep, EnvelopeStep, DocumentStep, LogStep, TraceStep, ValueStep DEF Inv
<1>3. QED
  BY <1>1, <1>2, PTL DEF Spec

\* EnvelopeTellsStatus: a failure is one whole envelope whose category is the
\* only one with the exit status; success, help and usage errors write none.
THEOREM EnvelopesTellStatus == Spec => []EnvelopeTellsStatus
<1>1. Inv => EnvelopeTellsStatus
  BY ExitCodes DEF Inv, ResultInv, EnvelopeInv, EnvelopeTellsStatus, Running, SigintExit, UsageExit
<1>2. QED
  BY <1>1, Invariance, PTL

\* DocumentMeansSuccess: a success has a whole document on stdout, and a failure
\* never has.
THEOREM DocumentsMeanSuccess == Spec => []DocumentMeansSuccess
<1>1. Inv => DocumentMeansSuccess
  BY DEF Inv, ResultInv, DocumentInv, DocumentMeansSuccess, Running
<1>2. QED
  BY <1>1, Invariance, PTL

\* StatusIsLogged: process.end, at the level that shows it, is the last event and
\* has the exit status, up to an interrupt, a panic and a closed stdout.
THEOREM StatusesAreLogged == Spec => []StatusIsLogged
<1>1. Inv => StatusIsLogged
  BY ExitCodes DEF Inv, ResultInv, LogInv, StatusIsLogged, Loud, EndsWith, EndsSay, NoEnd,
     Last, BeforeEnd, Busy, Printing, PC, BeforeEnvelope, AfterFailure
<1>2. QED
  BY <1>1, Invariance, PTL

\* OneTraceId: requests and envelope carry the trace id of the process, unless
\* the panic hook wrote the envelope.
THEOREM OneTraceIds == Spec => []OneTraceId
<1>1. Inv => OneTraceId
  BY DEF Inv, TraceInv
<1>2. QED
  BY <1>1, Invariance, PTL
\* What an entry of the log is.
LEMMA EntryType ==
    ASSUME call \in Call, NEW e \in LogEntry(call.line)
    PROVE  /\ e \in [event : EventNames, args : Seq(Word), exit_code : Nat]
           /\ e.args = <<>> \/ e.args = SanitizeArgs(Argv(call.line))
<1>1. call.line \in Line
  BY DEF Call
<1>2. SanitizeArgs(Argv(call.line)) \in Seq(Word) /\ <<>> \in Seq(Word)
  BY <1>1, LoggedArgs
<1> DEFINE args == SanitizeArgs(Argv(call.line))
<1>3. \/ e = [event |-> "process.start", args |-> args, exit_code |-> 0]
      \/ \E c \in Nat : e = [event |-> "process.end", args |-> <<>>, exit_code |-> c]
      \/ \E c \in Nat : e = [event |-> "process.error", args |-> <<>>, exit_code |-> c]
      \/ \E n \in {"verify.phase.start", "verify.phase.end"} :
            e = [event |-> n, args |-> <<>>, exit_code |-> 0]
  BY Zenon DEF LogEntry, ProcessEnd, ProcessError, PhaseEvent
<1>4. e \in [event : EventNames, args : Seq(Word), exit_code : Nat]
  <2>1. args \in Seq(Word) /\ <<>> \in Seq(Word)
    BY <1>2
  <2> HIDE DEF args
  <2> DEFINE W == Seq(Word)
  <2>2. args \in W /\ <<>> \in W
    BY <2>1
  <2> HIDE DEF W
  <2>3. e \in [event : EventNames, args : W, exit_code : Nat]
    BY <1>3, <2>2 DEF EventNames
  <2>4. QED
    BY <2>3 DEF W
<1> HIDE DEF args
<1>5. e.args = <<>> \/ e.args = args
  BY <1>3
<1>6. QED
  BY <1>4, <1>5 DEF args

\* TypeOK: the variables keep their types.  A logged word is a word whatever the
\* arguments were, since the redaction has a word for each of theirs.
THEOREM TypeCorrectness == Spec => []TypeOK
<1>1. Inv => TypeOK
  <2> SUFFICES ASSUME Inv PROVE TypeOK
    OBVIOUS
  <2>1. call \in Call /\ events \in Seq(LogEntry(call.line))
    BY DEF Inv, ValueInv, LogInv
  <2>2. ASSUME NEW i \in DOMAIN events
        PROVE  events[i] \in [event : EventNames, args : Seq(Word), exit_code : Nat]
    <3>1. events[i] \in LogEntry(call.line)
      BY <2>1
    <3>2. QED
      BY <2>1, <3>1, EntryType
  <2>3. QED
    BY <2>2 DEF Inv, ValueInv, TraceInv, TypeOK
<1>2. QED
  BY <1>1, Invariance, PTL

\* KeyIsHidden: no event of the log shows a word of an API key of one word, wherever
\* the key stands among the arguments, unless it is an argument of its own and those
\* in front of its flag end in --api-key.
THEOREM KeysAreHidden == Spec => []KeyIsHidden
<1>1. Inv => KeyIsHidden
  <2> SUFFICES ASSUME Inv, NEW i \in DOMAIN events, NEW j \in DOMAIN events[i].args,
                      events[i].args[j][2] \in KeyText
               PROVE  \/ Len(call.line.api_key) > 1
                      \/ /\ ~call.line.glued
                         /\ Last(Tokens(FrontArgs(call.line))) = KeyFlag
    BY DEF KeyIsHidden
  <2>1. call \in Call /\ call.line \in Line /\ events \in Seq(LogEntry(call.line))
    BY DEF Inv, ValueInv, LogInv, Call
  <2>2. events[i] \in LogEntry(call.line)
    BY <2>1
  <2>3. events[i].args = SanitizeArgs(Argv(call.line))
    BY <2>1, <2>2, EntryType
  <2>4. QED
    BY <2>1, <2>3, LoggedArgs
<1>2. QED
  BY <1>1, Invariance, PTL
=============================================================================
