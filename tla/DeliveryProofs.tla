--------------------------- MODULE DeliveryProofs ---------------------------
(***************************************************************************)
(* Proofs about Delivery.tla, for any artifacts, any boundary that does    *)
(* not occur in what is sent, any bytes that are changed and any number of *)
(* faults: what a decoder reads is what it would have written, an artifact *)
(* to which nothing happens is read as it was bound, `vi chat` saves the   *)
(* receipt that was sent and gets nothing from a degraded answer, and an   *)
(* artifact of which one byte was changed or the end cut off on its way is *)
(* refused.                                                                *)
(*                                                                         *)
(* The codec and the multipart parser walk over sequences of any length,   *)
(* and their recursive functions are given step by step: Climb stands for  *)
(* induction over the numbers, ReadSteps, Checksums, ParsedParts and       *)
(* Flattened for the recursive functions.  The lemmas come in this order:  *)
(* bytes and pieces of sequences; the fields of a header, read and         *)
(* written; the bodies and files made of them; finding one sequence in     *)
(* another; the multipart parser; where a receipt stands in an answer; the *)
(* invariant of the way of an artifact; what the decoder makes of a file   *)
(* that was cut short or changed, by the part the change falls in; and     *)
(* what the client makes of a good answer, part by part.                   *)
(***************************************************************************)
EXTENDS Delivery, FiniteSetTheorems, SequenceTheorems, TLAPS

LEMMA Climb ==
  ASSUME NEW S, 0 \in S, \A n \in Nat : n \in S => n + 1 \in S
  PROVE  Nat \subseteq S
<1> DEFINE T == {1..n : n \in Nat \ S}
           R == StrictSubsetOrdering(Nat)
<1> SUFFICES ASSUME Nat \ S # {} PROVE FALSE
  OBVIOUS
<1>1. IsWellFoundedOn(R, FiniteSubsetsOf(Nat))
  BY FS_StrictSubsetOrderingWellFounded
<1>2. T # {} /\ T \subseteq FiniteSubsetsOf(Nat)
  <2>1. ASSUME NEW n \in Nat PROVE IsFiniteSet(1..n) /\ 1..n \subseteq Nat
    <3>1. 1 \in Int /\ n \in Int
      OBVIOUS
    <3> QED BY <3>1, FS_Interval
  <2>2. \A n \in Nat : 1..n \in FiniteSubsetsOf(Nat)
    BY <2>1 DEF FiniteSubsetsOf
  <2> QED BY <2>2
<1>3. PICK x \in T : \A y \in T : ~ (<<y, x>> \in R)
  <2> HIDE DEF R, T
  <2> QED BY <1>1, <1>2, WFMin
<1>4. PICK n \in Nat \ S : x = 1..n
  OBVIOUS
<1>5. n # 0 /\ n - 1 \in Nat \ S
  OBVIOUS
<1>6. <<1..(n - 1), 1..n>> \in R
  <2>1. n \in 1..n /\ n \notin 1..(n - 1)
    BY <1>5
  <2> QED BY <1>5, <2>1 DEF StrictSubsetOrdering
<1> QED BY <1>3, <1>4, <1>5, <1>6

\* The recursive function behind FlattenSeq exists.
LEMMA Flattened ==
  ASSUME NEW seqs, Len(seqs) \in Nat \ {0}
  PROVE  \E f : /\ f[1] = seqs[1]
                /\ \A i \in 2..Len(seqs) : f[i] = f[i - 1] \o seqs[i]
                /\ FlattenSeq(seqs) = f[Len(seqs)]
<1> DEFINE body(f, n) == [i \in 1..n |-> IF i = 1 THEN seqs[i] ELSE f[i - 1] \o seqs[i]]
           S == {n \in Nat : \E f : f = body(f, n)}
<1>1. 0 \in S
  <2>1. [i \in 1..0 |-> 0] = body([i \in 1..0 |-> 0], 0)
    OBVIOUS
  <2> QED BY <2>1
<1>2. ASSUME NEW n \in Nat, n \in S PROVE n + 1 \in S
  <2>1. PICK f : f = body(f, n)
    BY <1>2
  <2> DEFINE g == [i \in 1..(n + 1) |->
                     IF i = n + 1 THEN IF i = 1 THEN seqs[i] ELSE f[n] \o seqs[i] ELSE f[i]]
  <2>2. \A i \in 1..n : f[i] = IF i = 1 THEN seqs[i] ELSE f[i - 1] \o seqs[i]
    BY <2>1
  <2> HIDE DEF body
  <2>3. \A i \in 1..(n + 1) : g[i] = IF i = 1 THEN seqs[i] ELSE g[i - 1] \o seqs[i]
    <3> SUFFICES ASSUME NEW i \in 1..(n + 1)
                 PROVE  g[i] = IF i = 1 THEN seqs[i] ELSE g[i - 1] \o seqs[i]
      OBVIOUS
    <3>1. CASE i = n + 1
      <4>1. i # 1 => g[i - 1] = f[n]
        BY <3>1
      <4> QED BY <3>1, <4>1
    <3>2. CASE i # n + 1
      <4>1. i \in 1..n /\ g[i] = f[i] /\ (i # 1 => g[i - 1] = f[i - 1])
        BY <3>2
      <4> QED BY <2>2, <4>1
    <3> QED BY <3>1, <3>2
  <2>4. g = body(g, n + 1)
    <3> HIDE DEF g
    <3>1. g = [i \in 1..(n + 1) |-> g[i]]
      BY DEF g
    <3> QED BY <2>3, <3>1 DEF body
  <2> HIDE DEF g
  <2> QED BY <2>4
<1>3. Len(seqs) \in S
  <2> HIDE DEF S
  <2> QED BY <1>1, <1>2, Climb
<1> DEFINE flatten == CHOOSE f : f = body(f, Len(seqs))
<1>4. flatten = body(flatten, Len(seqs))
  <2> HIDE DEF body
  <2>1. \E f : f = body(f, Len(seqs))
    BY <1>3
  <2> QED BY <2>1
<1>5. FlattenSeq(seqs) = flatten[Len(seqs)]
  BY DEF FlattenSeq
<1>6. \A i \in 1..Len(seqs) : flatten[i] = IF i = 1 THEN seqs[i] ELSE flatten[i - 1] \o seqs[i]
  <2> HIDE DEF flatten
  <2> QED BY <1>4
<1> HIDE DEF flatten
<1>7. flatten[1] = seqs[1] /\ \A i \in 2..Len(seqs) : flatten[i] = flatten[i - 1] \o seqs[i]
  <2>1. 1 \in 1..Len(seqs) /\ \A i \in 2..Len(seqs) : i \in 1..Len(seqs) /\ i # 1
    OBVIOUS
  <2> QED BY <1>6, <2>1
<1> WITNESS flatten
<1> QED BY <1>5, <1>7

-----------------------------------------------------------------------------
\* Numbers and their bytes.

LEMMA ByteIs ==
  ASSUME NEW v
  PROVE  v \in Byte <=> v \in Int /\ 0 <= v /\ v <= 255
  BY SMTT(10) DEF Byte

LEMMA Is16 ==
  ASSUME NEW n
  PROVE  n \in 0..MaxU16 <=> n \in Nat /\ n <= 65535
<1>1. MaxU16 \in Int
  BY SMTT(10) DEF MaxU16
<1>2. n \in 0..MaxU16 <=> n \in Int /\ 0 <= n /\ n <= MaxU16
  BY SMTT(10), <1>1
<1>3. n \in Int => (n <= MaxU16 <=> n <= 65535)
  BY SMTT(10) DEF MaxU16
<1> QED BY SMTT(10), <1>2, <1>3

\* Two bytes make a number that takes the same two bytes.
LEMMA Numbers16 ==
  ASSUME NEW b \in Seq(Byte), Len(b) >= 2
  PROVE  /\ ReadU16(b) \in 0..MaxU16
         /\ U16(ReadU16(b)) = <<b[1], b[2]>>
<1>1. b[1] \in Byte /\ b[2] \in Byte
  OBVIOUS
<1>2. ReadU16(b) = b[1] + 256 * b[2]
  BY DEF ReadU16
<1> DEFINE x == b[1]
           y == b[2]
<1> HIDE DEF x, y
<1>3. (x + 256 * y) % 256 = x /\ (x + 256 * y) \div 256 = y /\ x + 256 * y \in 0..MaxU16
  <2>1. x \in Int /\ y \in Int /\ 0 <= x /\ x <= 255 /\ 0 <= y /\ y <= 255
    BY <1>1, ByteIs DEF x, y
  <2>2. (x + 256 * y) % 256 = x
    BY SMTT(10), <2>1
  <2>3. (x + 256 * y) \div 256 = y
    BY SMTT(10), <2>1
  <2>4. x + 256 * y \in Nat /\ x + 256 * y <= 65535
    BY SMTT(10), <2>1
  <2>5. x + 256 * y \in 0..MaxU16
    BY <2>4, Is16
  <2> QED BY <2>2, <2>3, <2>5, Zenon
<1>4. ReadU16(b) = x + 256 * y
  BY <1>2 DEF x, y
<1>5. U16(x + 256 * y) = <<x, y>>
  BY <1>3, Zenon DEF U16
<1> QED BY <1>3, <1>4, <1>5 DEF x, y

LEMMA Written16 ==
  ASSUME NEW n \in 0..MaxU16
  PROVE  /\ U16(n) \in Seq(Byte) /\ Len(U16(n)) = 2
         /\ ReadU16(U16(n)) = n
<1>0. n \in Nat /\ n <= 65535
  BY Is16
<1>1. /\ n % 256 \in Int /\ 0 <= n % 256 /\ n % 256 <= 255
      /\ n \div 256 \in Int /\ 0 <= n \div 256 /\ n \div 256 <= 255
  BY SMTT(10), <1>0
<1>2. (n % 256) + 256 * (n \div 256) = n
  BY SMTT(10), <1>0
<1>3. n % 256 \in Byte /\ n \div 256 \in Byte
  BY <1>1, ByteIs
<1>4. U16(n) = <<n % 256, n \div 256>>
  BY DEF U16
<1> DEFINE x == n % 256
           y == n \div 256
<1> HIDE DEF x, y
<1>5. U16(n) = <<x, y>> /\ x \in Byte /\ y \in Byte /\ x + 256 * y = n
  BY <1>2, <1>3, <1>4 DEF x, y
<1> QED BY <1>5 DEF ReadU16

\* The bytes of a number below 2^24, and back.
LEMMA Digits3 ==
  ASSUME NEW x \in Int, NEW y \in Int, NEW z \in Int,
         0 <= x, x <= 255, 0 <= y, y <= 255, 0 <= z, z <= 255
  PROVE  LET n == x + 256 * y + 65536 * z IN
         /\ n % 256 = x /\ (n \div 256) % 256 = y /\ (n \div 65536) % 256 = z
         /\ n \div 16777216 = 0 /\ n \in Nat /\ n < 16777216
<1> DEFINE n == x + 256 * y + 65536 * z
<1>1. n % 256 = x /\ n \div 256 = y + 256 * z
  BY SMTT(10)
<1>2. n \div 65536 = z
  BY SMTT(10)
<1>3. n \div 16777216 = 0 /\ n \in Nat /\ n < 16777216
  BY SMTT(10)
<1>4. (y + 256 * z) % 256 = y /\ z % 256 = z
  BY SMTT(10)
<1> HIDE DEF n
<1>5. (n \div 256) % 256 = y /\ (n \div 65536) % 256 = z
  BY SMTT(10), <1>1, <1>2, <1>4
<1>6. n % 256 = x
  BY SMTT(10), <1>1
<1> QED BY SMTT(10), <1>3, <1>5, <1>6 DEF n

LEMMA Numbers32 ==
  ASSUME NEW b \in Seq(Byte), Len(b) >= 4
  PROVE  /\ ReadU32(b) \in Nat
         /\ ReadU32(b) < 16777216 => U32(ReadU32(b)) = <<b[1], b[2], b[3], b[4]>>
<1>1. b[1] \in Byte /\ b[2] \in Byte /\ b[3] \in Byte
  OBVIOUS
<1> DEFINE x == b[1]
           y == b[2]
           z == b[3]
           n == x + 256 * y + 65536 * z
<1>2. ReadU32(b) = IF b[4] # 0 THEN 16777216 ELSE n
  BY SMTT(10) DEF ReadU32
<1> HIDE DEF x, y, z
<1>3. x \in Int /\ y \in Int /\ z \in Int /\ 0 <= x /\ x <= 255 /\ 0 <= y /\ y <= 255 /\ 0 <= z /\ z <= 255
  BY <1>1, ByteIs DEF x, y, z
<1>4. /\ n % 256 = x /\ (n \div 256) % 256 = y /\ (n \div 65536) % 256 = z
      /\ n \div 16777216 = 0 /\ n \in Nat /\ n < 16777216
  BY SMTT(10), <1>3, Digits3
<1> HIDE DEF n
<1>5. U32(n) = <<x, y, z, 0>>
  BY SMTT(10), <1>4 DEF U32
<1>6. CASE b[4] # 0
  BY SMTT(10), <1>2, <1>6
<1>7. CASE b[4] = 0
  BY SMTT(10), <1>2, <1>4, <1>5, <1>7 DEF x, y, z
<1> QED BY SMTT(10), <1>6, <1>7

LEMMA Written32 ==
  ASSUME NEW n \in Nat, n < 16777216
  PROVE  /\ U32(n) \in Seq(Byte) /\ Len(U32(n)) = 4
         /\ ReadU32(U32(n)) = n
<1> DEFINE x == n % 256
           y == (n \div 256) % 256
           z == (n \div 65536) % 256
<1>1. x \in Int /\ 0 <= x /\ x <= 255
  BY SMTT(10)
<1>2. y \in Int /\ 0 <= y /\ y <= 255
  BY SMTT(10)
<1>3. z \in Int /\ 0 <= z /\ z <= 255
  BY SMTT(10)
<1>4. n \div 16777216 = 0
  BY SMTT(10)
<1>5. x + 256 * y + 65536 * z = n
  BY SMTT(10)
<1>6. U32(n) = <<x, y, z, 0>>
  BY SMTT(10), <1>4 DEF U32
<1> HIDE DEF x, y, z
<1>7. x \in Byte /\ y \in Byte /\ z \in Byte /\ 0 \in Byte
  BY <1>1, <1>2, <1>3, ByteIs
<1>8. U32(n) \in Seq(Byte) /\ Len(U32(n)) = 4
  BY <1>6, <1>7
<1>9. ReadU32(<<x, y, z, 0>>) = x + 256 * y + 65536 * z
  BY SMTT(10) DEF ReadU32
<1> QED BY SMTT(10), <1>5, <1>6, <1>8, <1>9

-----------------------------------------------------------------------------
\* Pieces of a sequence.

LEMMA Piece ==
  ASSUME NEW T, NEW s \in Seq(T), NEW i \in Nat, NEW j \in Nat, i <= j, j <= Len(s)
  PROVE  /\ SubSeq(s, i + 1, j) \in Seq(T) /\ Len(SubSeq(s, i + 1, j)) = j - i
         /\ \A k \in 1..(j - i) : SubSeq(s, i + 1, j)[k] = s[i + k]
  OBVIOUS

LEMMA Glue ==
  ASSUME NEW T, NEW s \in Seq(T), NEW i \in Nat, NEW j \in Nat, NEW k \in Nat,
         i <= j, j <= k, k <= Len(s)
  PROVE  SubSeq(s, i + 1, j) \o SubSeq(s, j + 1, k) = SubSeq(s, i + 1, k)
<1> DEFINE a == SubSeq(s, i + 1, j)
           b == SubSeq(s, j + 1, k)
           c == SubSeq(s, i + 1, k)
<1>0. Len(s) \in Nat
  OBVIOUS
<1>1. a \in Seq(T) /\ Len(a) = j - i /\ \A m \in 1..(j - i) : a[m] = s[i + m]
  BY Piece
<1>2. b \in Seq(T) /\ Len(b) = k - j /\ \A m \in 1..(k - j) : b[m] = s[j + m]
  BY Piece
<1>3. c \in Seq(T) /\ Len(c) = k - i /\ \A m \in 1..(k - i) : c[m] = s[i + m]
  <2>1. i <= k
    OBVIOUS
  <2> QED BY <2>1, Piece
<1> HIDE DEF a, b, c
<1>4. a \o b \in Seq(T) /\ Len(a \o b) = k - i
  BY <1>1, <1>2
<1>5. ASSUME NEW m \in 1..(k - i) PROVE (a \o b)[m] = c[m]
  <2>1. CASE m <= j - i
    BY <1>1, <1>2, <1>3, <2>1
  <2>2. CASE m > j - i
    <3> DEFINE q == m - (j - i)
    <3>1. (a \o b)[m] = b[q] /\ q \in 1..(k - j) /\ j + q = i + m
      BY <1>1, <1>2, <2>2
    <3> HIDE DEF q
    <3>2. b[q] = s[j + q]
      BY <1>2, <3>1
    <3>3. c[m] = s[i + m]
      BY <1>3
    <3> QED BY <3>1, <3>2, <3>3
  <2>3. m <= j - i \/ m > j - i
    OBVIOUS
  <2> QED BY <2>1, <2>2, <2>3, Zenon
<1>6. a \o b = c
  BY <1>3, <1>4, <1>5, SeqEqual
<1> QED BY <1>6 DEF a, b, c

LEMMA PieceOfPiece ==
  ASSUME NEW T, NEW s \in Seq(T), NEW i \in Nat, NEW j \in Nat, i <= j, j <= Len(s),
         NEW a \in Nat, NEW b \in Nat, a <= b, b <= j - i
  PROVE  SubSeq(SubSeq(s, i + 1, j), a + 1, b) = SubSeq(s, i + a + 1, i + b)
<1> DEFINE p == SubSeq(s, i + 1, j)
           q == SubSeq(p, a + 1, b)
           r == SubSeq(s, (i + a) + 1, i + b)
<1>0. Len(s) \in Nat
  OBVIOUS
<1>1. p \in Seq(T) /\ Len(p) = j - i /\ \A m \in 1..(j - i) : p[m] = s[i + m]
  BY Piece
<1>2. r \in Seq(T) /\ Len(r) = b - a /\ \A m \in 1..(b - a) : r[m] = s[(i + a) + m]
  <2>1. i + a \in Nat /\ i + b \in Nat /\ i + a <= i + b /\ i + b <= Len(s) /\ (i + b) - (i + a) = b - a
    BY <1>0
  <2> HIDE DEF r
  <2>2. \A x, y \in Nat : x <= y /\ y <= Len(s) =>
           /\ SubSeq(s, x + 1, y) \in Seq(T) /\ Len(SubSeq(s, x + 1, y)) = y - x
           /\ \A k \in 1..(y - x) : SubSeq(s, x + 1, y)[k] = s[x + k]
    BY Piece
  <2>3. r = SubSeq(s, (i + a) + 1, i + b)
    BY DEF r
  <2> QED BY <2>1, <2>2, <2>3
<1> HIDE DEF p
<1>3. q \in Seq(T) /\ Len(q) = b - a /\ \A m \in 1..(b - a) : q[m] = p[a + m]
  BY <1>1, Piece
<1> HIDE DEF q, r
<1>4. ASSUME NEW m \in 1..(b - a) PROVE q[m] = r[m]
  <2>1. a + m \in 1..(j - i) /\ i + (a + m) = (i + a) + m
    OBVIOUS
  <2> QED BY <1>1, <1>2, <1>3, <2>1
<1>5. q = r
  BY <1>2, <1>3, <1>4, SeqEqual
<1> QED BY <1>5 DEF p, q, r

LEMMA WholePiece ==
  ASSUME NEW T, NEW s \in Seq(T)
  PROVE  SubSeq(s, 1, Len(s)) = s
  BY SubSeqFull

\* A sequence is what it begins with and the rest.
LEMMA BeginAndRest ==
  ASSUME NEW T, NEW s \in Seq(T), NEW i \in Nat, i <= Len(s)
  PROVE  SubSeq(s, 0 + 1, i) \o SubSeq(s, i + 1, Len(s)) = s
<1> DEFINE n == Len(s)
<1>1. n \in Nat /\ i <= n /\ 0 <= i
  OBVIOUS
<1>2. n <= Len(s)
  BY <1>1
<1>3. SubSeq(s, 1, n) = s
  BY WholePiece
<1> HIDE DEF n
<1>4. SubSeq(s, 0 + 1, i) \o SubSeq(s, i + 1, n) = SubSeq(s, 0 + 1, n)
  BY <1>1, <1>2, Glue
<1>5. 0 + 1 = 1
  OBVIOUS
<1> QED BY <1>3, <1>4, <1>5, Zenon DEF n

LEMMA FirstFour ==
  ASSUME NEW T, NEW s \in Seq(T), Len(s) >= 4
  PROVE  SubSeq(s, 0 + 1, 4) = <<s[1], s[2], s[3], s[4]>>
<1> DEFINE q == SubSeq(s, 0 + 1, 4)
<1>1. q \in Seq(T) /\ Len(q) = 4 /\ \A k \in 1..4 : q[k] = s[k]
  <2>1. 4 <= Len(s) /\ 0 <= 4 /\ 4 - 0 = 4
    OBVIOUS
  <2>2. q \in Seq(T) /\ Len(q) = 4 - 0 /\ \A k \in 1..(4 - 0) : q[k] = s[0 + k]
    BY <2>1, Piece
  <2>3. \A k \in 1..4 : 0 + k = k
    OBVIOUS
  <2> QED BY <2>1, <2>2, <2>3
<1> HIDE DEF q
<1>2. q[1] = s[1] /\ q[2] = s[2] /\ q[3] = s[3] /\ q[4] = s[4]
  BY <1>1
<1>3. q = <<q[1], q[2], q[3], q[4]>>
  BY <1>1
<1> QED BY <1>2, <1>3 DEF q

LEMMA IsSequence ==
  ASSUME NEW T, NEW n \in Nat, NEW s, s = [i \in 1..n |-> s[i]], \A i \in 1..n : s[i] \in T
  PROVE  s \in Seq(T) /\ Len(s) = n
  OBVIOUS

-----------------------------------------------------------------------------
\* The fields of a binding header.

\* A list of layers, four bytes each, behind its length prefix.
LEMMA Layers ==
  ASSUME NEW b \in Seq(Byte), NEW n \in Nat, Len(b) = 2 + 4 * n
  PROVE  LET v == [i \in 1..n |-> SubSeq(b, 4 * i - 1, 4 * i + 2)] IN
         /\ Len(v) = n /\ DOMAIN v = 1..n
         /\ \A i \in 1..n : Len(v[i]) = 4
         /\ FlattenSeq(v) = SubSeq(b, 3, Len(b))
<1> DEFINE v == [i \in 1..n |-> SubSeq(b, 4 * i - 1, 4 * i + 2)]
<1>0. Len(b) \in Nat
  OBVIOUS
<1>1. \A i \in 1..n : /\ v[i] \in Seq(Byte) /\ Len(v[i]) = 4
                      /\ v[i] = SubSeq(b, (4 * i - 2) + 1, 4 * i + 2)
  <2> SUFFICES ASSUME NEW i \in 1..n
               PROVE  /\ v[i] \in Seq(Byte) /\ Len(v[i]) = 4
                      /\ v[i] = SubSeq(b, (4 * i - 2) + 1, 4 * i + 2)
    OBVIOUS
  <2> DEFINE x == 4 * i - 2
             y == 4 * i + 2
  <2>1. x \in Nat /\ y \in Nat /\ x <= y /\ y <= Len(b) /\ y - x = 4 /\ x + 1 = 4 * i - 1
    BY <1>0
  <2>2. v[i] = SubSeq(b, 4 * i - 1, 4 * i + 2)
    OBVIOUS
  <2> HIDE DEF v
  <2>3. v[i] = SubSeq(b, x + 1, y)
    BY <2>1, <2>2
  <2> HIDE DEF x, y
  <2>4. SubSeq(b, x + 1, y) \in Seq(Byte) /\ Len(SubSeq(b, x + 1, y)) = 4
    BY <2>1, Piece
  <2>5. v[i] \in Seq(Byte) /\ Len(v[i]) = 4
    BY <2>3, <2>4
  <2> QED BY <2>3, <2>5 DEF x, y
<1>2. DOMAIN v = 1..n
  OBVIOUS
<1> HIDE DEF v
<1>3. v \in Seq(Seq(Byte)) /\ Len(v) = n
  <2>1. v = [i \in 1..n |-> v[i]]
    BY DEF v
  <2>2. \A i \in 1..n : v[i] \in Seq(Byte)
    BY <1>1
  <2> QED BY <2>1, <2>2, IsSequence
<1>4. CASE n = 0
  <2>1. v = <<>>
    BY <1>3, <1>4
  <2>2. FlattenSeq(v) = v
    BY <1>3, <1>4 DEF FlattenSeq
  <2>3. SubSeq(b, 3, Len(b)) = <<>>
    BY <1>4
  <2> QED BY <1>1, <1>2, <1>3, <2>1, <2>2, <2>3 DEF v
<1>5. CASE n # 0
  <2>1. PICK f : /\ f[1] = v[1]
                 /\ \A i \in 2..n : f[i] = f[i - 1] \o v[i]
                 /\ FlattenSeq(v) = f[n]
    <3>1. Len(v) \in Nat \ {0}
      BY <1>3, <1>5
    <3> QED BY <1>3, <3>1, Flattened
  <2> DEFINE S == {i \in Nat : i \in 1..n => f[i] = SubSeq(b, 2 + 1, 4 * i + 2)}
  <2>2. 0 \in S
    OBVIOUS
  <2>3. ASSUME NEW i \in Nat, i \in S PROVE i + 1 \in S
    <3> SUFFICES ASSUME i + 1 \in 1..n PROVE f[i + 1] = SubSeq(b, 2 + 1, 4 * (i + 1) + 2)
      OBVIOUS
    <3>1. v[i + 1] = SubSeq(b, (4 * i + 2) + 1, 4 * (i + 1) + 2)
      <4>1. 4 * (i + 1) - 2 = 4 * i + 2
        OBVIOUS
      <4> QED BY <1>1, <4>1
    <3>2. CASE i = 0
      BY <2>1, <3>1, <3>2
    <3>3. CASE i # 0
      <4>1. i \in 1..n /\ i + 1 \in 2..n /\ (i + 1) - 1 = i
        BY <3>3
      <4>2. f[i] = SubSeq(b, 2 + 1, 4 * i + 2)
        BY <2>3, <4>1
      <4>3. f[i + 1] = f[i] \o v[i + 1]
        BY <2>1, <4>1
      <4> DEFINE x == 4 * i + 2
                 y == 4 * (i + 1) + 2
      <4>4. x \in Nat /\ y \in Nat /\ 2 <= x /\ x <= y /\ y <= Len(b)
        BY <1>0
      <4> HIDE DEF x, y
      <4>5. SubSeq(b, 2 + 1, x) \o SubSeq(b, x + 1, y) = SubSeq(b, 2 + 1, y)
        BY <4>4, Glue
      <4> QED BY <3>1, <4>2, <4>3, <4>5 DEF x, y
    <3> QED BY <3>2, <3>3
  <2>4. n \in S
    <3> HIDE DEF S
    <3> QED BY <2>2, <2>3, Climb
  <2>5. f[n] = SubSeq(b, 3, Len(b))
    BY <1>5, <2>4
  <2> QED BY <1>1, <1>2, <1>3, <2>1, <2>5 DEF v
<1> QED BY <1>4, <1>5

\* The type of a header field, as it is read.
FieldIs(name, v) ==
    CASE name = "tier" -> v \in 0..3
      [] name = "schema_version" -> v = SchemaVersion
      [] Kind(name) = "u64" -> Len(v) = 8
      [] Kind(name) = "u32s" -> \A i \in DOMAIN v : Len(v[i]) = 4
      [] OTHER -> Utf8(v)

LEMMA Kinds ==
  ASSUME NEW name
  PROVE  /\ Kind(name) \in {"u16", "u8", "u32s", "string", "u64"}
         /\ name = "schema_version" <=> Kind(name) = "u16"
         /\ name = "tier" <=> Kind(name) = "u8"
<1>1. "schema_version" \notin Names /\ "tier" \notin Names /\ "layer_indices" \notin Names
  BY DEF Names
<1> QED BY <1>1 DEF Kind

MaxWidth == 262142

\* A field takes the bytes its value is encoded to.
LEMMA FieldBytes ==
  ASSUME NEW rest \in Seq(Byte), NEW name, ~(Width(Kind(name), rest) > Len(rest))
  PROVE  LET w == Width(Kind(name), rest)
             bytes == SubSeq(rest, 1, w)
             v == FieldValue(Kind(name), bytes)
         IN
         /\ w \in Nat /\ w <= MaxWidth /\ w <= Len(rest)
         /\ EncodeField(name, v) = bytes
         /\ Kind(name) = "u8" => v \in Byte
         /\ Kind(name) = "u64" => Len(v) = 8
         /\ Kind(name) = "u32s" => \A i \in DOMAIN v : Len(v[i]) = 4
<1> DEFINE w == Width(Kind(name), rest)
           bytes == SubSeq(rest, 1, w)
           v == FieldValue(Kind(name), bytes)
<1>0. Len(rest) \in Nat
  OBVIOUS
<1>9. w \in Nat => w <= Len(rest)
  BY <1>0
<1>1. ASSUME w \in Nat
      PROVE  /\ bytes \in Seq(Byte) /\ Len(bytes) = w
             /\ \A k \in 1..w : bytes[k] = rest[k] /\ bytes[k] \in Byte
  <2> HIDE DEF w
  <2>1. w <= Len(rest)
    BY <1>0, <1>1 DEF w
  <2>2. /\ SubSeq(rest, 0 + 1, w) \in Seq(Byte) /\ Len(SubSeq(rest, 0 + 1, w)) = w - 0
        /\ \A k \in 1..(w - 0) : SubSeq(rest, 0 + 1, w)[k] = rest[0 + k]
    BY <1>0, <1>1, <2>1, Piece
  <2>3. 0 + 1 = 1 /\ w - 0 = w
    BY <1>1
  <2>4. \A k \in 1..w : 0 + k = k
    BY <1>1
  <2>5. /\ bytes \in Seq(Byte) /\ Len(bytes) = w
        /\ \A k \in 1..w : bytes[k] = rest[k]
    BY <2>2, <2>3, <2>4
  <2> HIDE DEF bytes
  <2>6. \A k \in 1..w : bytes[k] \in Byte
    BY <2>5
  <2> QED BY <2>5, <2>6
<1>2. CASE Kind(name) = "u8"
  <2>1. w = 1
    BY <1>2 DEF Width
  <2>2. bytes \in Seq(Byte) /\ Len(bytes) = 1 /\ bytes[1] \in Byte
    BY <1>1, <2>1
  <2>3. v = bytes[1]
    BY <1>2 DEF FieldValue
  <2>4. EncodeField(name, v) = <<v>>
    BY <1>2 DEF EncodeField
  <2> HIDE DEF w, bytes, v
  <2>5. <<v>> = bytes
    BY <2>2, <2>3
  <2>6. w \in Nat /\ w <= MaxWidth
    BY <2>1 DEF MaxWidth
  <2>7. v \in Byte
    BY <2>2, <2>3
  <2> QED BY <1>9, <1>2, <2>4, <2>5, <2>6, <2>7 DEF w, bytes, v
<1>3. CASE Kind(name) = "u16"
  <2>1. w = 2
    BY <1>3 DEF Width
  <2>2. bytes \in Seq(Byte) /\ Len(bytes) = 2
    BY <1>1, <2>1
  <2>3. v = ReadU16(bytes)
    BY <1>3 DEF FieldValue
  <2>4. EncodeField(name, v) = U16(v)
    BY <1>3 DEF EncodeField
  <2> HIDE DEF w, bytes, v
  <2>5. U16(v) = <<bytes[1], bytes[2]>>
    <3>1. Len(bytes) >= 2
      BY <2>2
    <3>2. U16(ReadU16(bytes)) = <<bytes[1], bytes[2]>>
      BY <2>2, <3>1, Numbers16
    <3> QED BY <2>3, <3>2
  <2>6. <<bytes[1], bytes[2]>> = bytes
    BY <2>2
  <2>7. w \in Nat /\ w <= MaxWidth
    BY <2>1 DEF MaxWidth
  <2> QED BY <1>9, <1>3, <2>4, <2>5, <2>6, <2>7 DEF w, bytes, v
<1>4. CASE Kind(name) = "u64"
  <2>1. w = 8
    BY <1>4 DEF Width
  <2>2. bytes \in Seq(Byte) /\ Len(bytes) = 8
    BY <1>1, <2>1
  <2>3. v = bytes
    BY <1>4 DEF FieldValue
  <2>4. EncodeField(name, v) = v
    BY <1>4 DEF EncodeField
  <2> HIDE DEF w, bytes, v
  <2>5. w \in Nat /\ w <= MaxWidth
    BY <2>1 DEF MaxWidth
  <2> QED BY <1>9, <1>4, <2>2, <2>3, <2>4, <2>5 DEF w, bytes, v
<1>5. CASE Kind(name) \in {"string", "u32s"}
  <2> DEFINE n == ReadU16(rest)
             size == IF Kind(name) = "string" THEN 1 ELSE 4
  <2>1. w = IF Len(rest) < 2 THEN 2 ELSE 2 + n * size
    BY <1>5 DEF Width
  <2>2. Len(rest) >= 2
    BY <1>0, <2>1
  <2>3. n \in 0..MaxU16
    BY <2>2, Numbers16
  <2>4. n \in Nat /\ n <= 65535
    BY <2>3, Is16
  <2>5. w = 2 + n * size
    BY <1>0, <2>1, <2>2
  <2>6. w \in Nat /\ w <= MaxWidth /\ 2 <= w
    <3> HIDE DEF n, w
    <3>1. n * size = n \/ n * size = 4 * n
      BY <2>4
    <3> QED BY SMTT(10), <2>4, <2>5, <3>1 DEF MaxWidth
  <2>7. bytes \in Seq(Byte) /\ Len(bytes) = w /\ bytes[1] = rest[1] /\ bytes[2] = rest[2]
    <3>1. 1 \in 1..w /\ 2 \in 1..w
      BY <2>6
    <3> QED BY <1>1, <2>6, <3>1
  <2>8. ReadU16(bytes) = n
    BY <2>7 DEF ReadU16
  <2>9. U16(n) = <<bytes[1], bytes[2]>>
    <3> HIDE DEF n, w, bytes
    <3> QED BY <2>6, <2>7, <2>8, Numbers16
  <2>10. U16(n) = SubSeq(bytes, 0 + 1, 2)
    <3> HIDE DEF bytes, w, n
    <3> QED BY <2>6, <2>7, <2>9
  <2>11. SubSeq(bytes, 0 + 1, 2) \o SubSeq(bytes, 2 + 1, w) = bytes
    <3> HIDE DEF bytes, w
    <3>1. SubSeq(bytes, 0 + 1, 2) \o SubSeq(bytes, 2 + 1, w) = SubSeq(bytes, 0 + 1, w)
      BY <2>6, <2>7, Glue
    <3>2. SubSeq(bytes, 1, w) = bytes
      BY <2>7, WholePiece
    <3>3. 0 + 1 = 1
      OBVIOUS
    <3> QED BY <3>1, <3>2, <3>3, Zenon
  <2>12. CASE Kind(name) = "string"
    <3>1. v = SubSeq(bytes, 3, w)
      BY <2>7, <2>12 DEF FieldValue
    <3>2. EncodeField(name, v) = U16(Len(v)) \o v
      BY <2>12 DEF EncodeField
    <3>3. w = 2 + n
      BY <2>4, <2>5, <2>12
    <3> HIDE DEF v, bytes, w, n
    <3>4. Len(v) = n
      BY <2>4, <2>7, <3>1, <3>3
    <3>5. 2 + 1 = 3 /\ U16(Len(v)) = U16(n)
      BY <3>4
    <3>6. EncodeField(name, v) = SubSeq(bytes, 0 + 1, 2) \o SubSeq(bytes, 2 + 1, w)
      BY <2>10, <3>1, <3>2, <3>5, Zenon
    <3>7. EncodeField(name, v) = bytes
      BY <2>11, <3>6, Zenon
    <3> QED BY <1>9, <2>6, <2>12, <3>7 DEF v, bytes, w
  <2>13. CASE Kind(name) = "u32s"
    <3>1. v = [i \in 1..n |-> SubSeq(bytes, 4 * i - 1, 4 * i + 2)]
      <4>1. v = [i \in 1..ReadU16(bytes) |-> SubSeq(bytes, 4 * i - 1, 4 * i + 2)]
        BY <2>13 DEF FieldValue
      <4> QED BY <2>8, <4>1
    <3>2. EncodeField(name, v) = U16(Len(v)) \o FlattenSeq(v)
      BY <2>13 DEF EncodeField
    <3>3. w = 2 + 4 * n
      BY <2>4, <2>5, <2>13
    <3> HIDE DEF v, bytes, w, n
    <3>4. /\ Len(v) = n /\ DOMAIN v = 1..n
          /\ \A i \in 1..n : Len(v[i]) = 4
          /\ FlattenSeq(v) = SubSeq(bytes, 3, Len(bytes))
      <4>1. Len(bytes) = 2 + 4 * n /\ bytes \in Seq(Byte) /\ n \in Nat
        BY <2>4, <2>7, <3>3
      <4> DEFINE u == [i \in 1..n |-> SubSeq(bytes, 4 * i - 1, 4 * i + 2)]
      <4>2. /\ Len(u) = n /\ DOMAIN u = 1..n
            /\ \A i \in 1..n : Len(u[i]) = 4
            /\ FlattenSeq(u) = SubSeq(bytes, 3, Len(bytes))
        BY <4>1, Layers
      <4>3. v = u
        BY <3>1
      <4> HIDE DEF u
      <4> QED BY <4>2, <4>3
    <3>5. 2 + 1 = 3 /\ U16(Len(v)) = U16(n) /\ FlattenSeq(v) = SubSeq(bytes, 3, w)
      BY <2>7, <3>4
    <3>6. EncodeField(name, v) = SubSeq(bytes, 0 + 1, 2) \o SubSeq(bytes, 2 + 1, w)
      BY <2>10, <3>2, <3>5, Zenon
    <3>7. EncodeField(name, v) = bytes
      BY <2>11, <3>6, Zenon
    <3> QED BY <1>9, <2>6, <2>13, <3>4, <3>7 DEF v, bytes, w
  <2> QED BY <1>5, <2>12, <2>13
<1> QED BY <1>2, <1>3, <1>4, <1>5, Kinds

\* The readings of the fields, one after the other.
LEMMA ReadSteps ==
  ASSUME NEW magic, NEW body, Len(Read[magic]) \in Nat
  PROVE  \E read : /\ read[0] = Reader(0, <<>>, "ok")
                   /\ \A i \in 1..Len(Read[magic]) :
                         read[i] = ReadField(body, read[i - 1], Read[magic][i])
                   /\ ReadBody(magic, body) = Finish(body, read[Len(Read[magic])])
<1> DEFINE names == Read[magic]
           step(f, n) == [i \in 0..n |-> IF i = 0 THEN Reader(0, <<>>, "ok")
                                         ELSE ReadField(body, f[i - 1], names[i])]
           S == {n \in Nat : \E f : f = step(f, n)}
<1>1. 0 \in S
  <2>1. [i \in 0..0 |-> Reader(0, <<>>, "ok")] = step([i \in 0..0 |-> Reader(0, <<>>, "ok")], 0)
    OBVIOUS
  <2> QED BY <2>1
<1>2. ASSUME NEW n \in Nat, n \in S PROVE n + 1 \in S
  <2>1. PICK f : f = step(f, n)
    BY <1>2
  <2> DEFINE g == [i \in 0..(n + 1) |-> IF i = n + 1 THEN ReadField(body, f[n], names[i]) ELSE f[i]]
  <2>2. \A i \in 0..n : f[i] = IF i = 0 THEN Reader(0, <<>>, "ok")
                               ELSE ReadField(body, f[i - 1], names[i])
    BY <2>1
  <2> HIDE DEF step
  <2>3. \A i \in 0..(n + 1) : g[i] = IF i = 0 THEN Reader(0, <<>>, "ok")
                                     ELSE ReadField(body, g[i - 1], names[i])
    <3> SUFFICES ASSUME NEW i \in 0..(n + 1)
                 PROVE  g[i] = IF i = 0 THEN Reader(0, <<>>, "ok")
                               ELSE ReadField(body, g[i - 1], names[i])
      OBVIOUS
    <3>1. CASE i = n + 1
      <4>1. g[i - 1] = f[n] /\ i # 0
        BY <3>1
      <4> QED BY <3>1, <4>1
    <3>2. CASE i # n + 1
      <4>1. i \in 0..n /\ g[i] = f[i] /\ (i # 0 => g[i - 1] = f[i - 1])
        BY <3>2
      <4> QED BY <2>2, <4>1
    <3> QED BY <3>1, <3>2
  <2>4. g = step(g, n + 1)
    <3> HIDE DEF g
    <3>1. g = [i \in 0..(n + 1) |-> g[i]]
      BY DEF g
    <3> QED BY <2>3, <3>1 DEF step
  <2> HIDE DEF g
  <2> QED BY <2>4
<1>3. Len(names) \in S
  <2> HIDE DEF S
  <2> QED BY <1>1, <1>2, Climb
<1> DEFINE read == CHOOSE f : f = step(f, Len(names))
<1>4. read = step(read, Len(names))
  <2> HIDE DEF step
  <2>1. \E f : f = step(f, Len(names))
    BY <1>3
  <2> QED BY <2>1
<1>5. ReadBody(magic, body) = Finish(body, read[Len(names)])
  BY DEF ReadBody
<1>6. \A i \in 0..Len(names) : read[i] = IF i = 0 THEN Reader(0, <<>>, "ok")
                                         ELSE ReadField(body, read[i - 1], names[i])
  <2> HIDE DEF read
  <2> QED BY <1>4
<1> HIDE DEF read
<1>7. /\ read[0] = Reader(0, <<>>, "ok")
      /\ \A i \in 1..Len(names) : read[i] = ReadField(body, read[i - 1], names[i])
  <2>1. 0 \in 0..Len(names) /\ \A i \in 1..Len(names) : i \in 0..Len(names) /\ i # 0
    OBVIOUS
  <2> QED BY <1>6, <2>1
<1> WITNESS read
<1> QED BY <1>5, <1>7

\* The encoder and the decoder know the same fields in the same order, each once.
LEMMA Orders ==
  ASSUME NEW magic \in Magic
  PROVE  /\ Written[magic] = Read[magic]
         /\ Len(Read[magic]) \in 5..8
         /\ DOMAIN Read[magic] = 1..Len(Read[magic])
         /\ \A i, j \in 1..Len(Read[magic]) : i # j => Read[magic][i] # Read[magic][j]
<1>1. CASE magic = "VIKY"
  <2> DEFINE names == <<"schema_version", "seed", "model_id", "checkpoint_hash", "commitllm_pin">>
  <2>1. Written[magic] = names /\ Read[magic] = names
    BY <1>1 DEF Written, Read
  <2>2. Len(names) = 5 /\ DOMAIN names = 1..5
    OBVIOUS
  <2>3. \A i, j \in 1..5 : i # j => names[i] # names[j]
    OBVIOUS
  <2> HIDE DEF names
  <2> QED BY <2>1, <2>2, <2>3
<1>2. CASE magic = "VIRC"
  <2> DEFINE names == <<"schema_version", "generated_token_count", "model_id", "checkpoint_hash",
                "commitllm_pin", "key_hash", "prompt_hash", "answer_hash">>
  <2>1. Written[magic] = names /\ Read[magic] = names
    BY <1>2 DEF Written, Read
  <2>2. Len(names) = 8 /\ DOMAIN names = 1..8
    OBVIOUS
  <2>3. \A i, j \in 1..8 : i # j => names[i] # names[j]
    OBVIOUS
  <2> HIDE DEF names
  <2> QED BY <2>1, <2>2, <2>3
<1>3. CASE magic = "VIAU"
  <2> DEFINE names == <<"schema_version", "tier", "token_index", "layer_indices", "receipt_hash">>
  <2>1. Written[magic] = names /\ Read[magic] = names
    BY <1>3 DEF Written, Read
  <2>2. Len(names) = 5 /\ DOMAIN names = 1..5
    OBVIOUS
  <2>3. \A i, j \in 1..5 : i # j => names[i] # names[j]
    OBVIOUS
  <2> HIDE DEF names
  <2> QED BY <2>1, <2>2, <2>3
<1> QED BY <1>1, <1>2, <1>3 DEF Magic

\* One field that is read without an error.
LEMMA FieldRead ==
  ASSUME NEW body \in Seq(Byte), NEW r, NEW name, r.offset \in Nat, r.offset <= Len(body),
         r.result = "ok", ReadField(body, r, name).result = "ok",
         r = Reader(r.offset, r.fields, r.result)
  PROVE  \E w, v :
            /\ w \in Nat
            /\ ReadField(body, r, name) = Reader(r.offset + w, With(r.fields, name, v), "ok")
            /\ w <= MaxWidth /\ r.offset + w <= Len(body)
            /\ EncodeField(name, v) = SubSeq(body, r.offset + 1, r.offset + w)
            /\ FieldIs(name, v)
<1> DEFINE rest == SubSeq(body, r.offset + 1, Len(body))
           w == Width(Kind(name), rest)
           bytes == SubSeq(rest, 1, w)
           v == FieldValue(Kind(name), bytes)
<1>0. Len(body) \in Nat
  OBVIOUS
<1>1. rest \in Seq(Byte) /\ Len(rest) = Len(body) - r.offset
  <2> DEFINE o == r.offset
  <2>1. o \in Nat /\ o <= Len(body)
    OBVIOUS
  <2> HIDE DEF o
  <2>2. SubSeq(body, o + 1, Len(body)) \in Seq(Byte) /\ Len(SubSeq(body, o + 1, Len(body))) = Len(body) - o
    BY <1>0, <2>1, Piece
  <2> QED BY <2>2 DEF o
<1>2. ReadField(body, r, name) =
        IF r.result # "ok" THEN r
        ELSE IF w > Len(rest) THEN Fails(r, "corrupt_envelope")
        ELSE IF name = "schema_version" /\ v # SchemaVersion THEN Fails(r, "unknown_version")
        ELSE IF name = "tier" /\ ~KnownTier(v) THEN Fails(r, "unsupported_tier")
        ELSE IF Kind(name) = "string" /\ ~Utf8(v) THEN Fails(r, "corrupt_envelope")
        ELSE Reader(r.offset + w, With(r.fields, name, v), "ok")
  BY DEF ReadField
<1>3. \A category : Fails(r, category).result = category
  BY DEF Fails, Reader
<1> HIDE DEF rest, w, bytes, v
<1>4. /\ ~(w > Len(rest))
      /\ ~(name = "schema_version" /\ v # SchemaVersion)
      /\ ~(name = "tier" /\ ~KnownTier(v))
      /\ ~(Kind(name) = "string" /\ ~Utf8(v))
  BY <1>2, <1>3
<1>5. ReadField(body, r, name) = Reader(r.offset + w, With(r.fields, name, v), "ok")
  BY <1>2, <1>4, Zenon
<1>6. w \in Nat /\ w <= Len(rest)
      /\ w <= MaxWidth
      /\ EncodeField(name, v) = bytes
      /\ (Kind(name) = "u8" => v \in Byte)
      /\ (Kind(name) = "u64" => Len(v) = 8)
      /\ (Kind(name) = "u32s" => \A i \in DOMAIN v : Len(v[i]) = 4)
  BY <1>1, <1>4, FieldBytes DEF w, bytes, v
<1>7. bytes = SubSeq(body, r.offset + 1, r.offset + w) /\ r.offset + w <= Len(body)
  <2> DEFINE o == r.offset
  <2>1. o \in Nat /\ o <= Len(body) /\ w \in Nat /\ w <= Len(body) - o
    BY <1>1, <1>6
  <2>2. rest = SubSeq(body, o + 1, Len(body)) /\ bytes = SubSeq(rest, 0 + 1, w)
    BY DEF rest, bytes
  <2> HIDE DEF o
  <2>3. SubSeq(SubSeq(body, o + 1, Len(body)), 0 + 1, w) = SubSeq(body, o + 0 + 1, o + w)
    BY <1>0, <2>1, PieceOfPiece
  <2>4. o + 0 + 1 = o + 1 /\ o + w <= Len(body)
    BY <1>0, <2>1
  <2> QED BY <2>2, <2>3, <2>4 DEF o
<1>8. FieldIs(name, v)
  <2>1. CASE name = "tier"
    <3>1. v \in Byte /\ v <= 3
      BY <1>4, <1>6, <2>1, Kinds DEF KnownTier
    <3>2. v \in 0..3
      BY <3>1, ByteIs
    <3>3. Kind(name) = "u8"
      BY <2>1, Kinds
    <3> QED BY <2>1, <3>2, <3>3 DEF FieldIs
  <2>2. CASE name = "schema_version"
    <3>1. Kind(name) = "u16"
      BY <2>2, Kinds
    <3> QED BY <1>4, <2>2, <3>1 DEF FieldIs
  <2>3. CASE name \notin {"tier", "schema_version"}
    <3>1. Kind(name) \in {"u32s", "string", "u64"}
      BY <2>3, Kinds
    <3> QED BY <1>4, <1>6, <2>3, <3>1 DEF FieldIs
  <2> QED BY <2>1, <2>2, <2>3
<1> QED BY <1>5, <1>6, <1>7, <1>8

\* What the reader has after i fields: their values take up the bytes up to its offset.
ReadSoFar(body, names, read, i) ==
    /\ read[i] = Reader(read[i].offset, read[i].fields, "ok")
    /\ read[i].offset \in Nat /\ read[i].offset <= Len(body) /\ read[i].offset <= i * MaxWidth
    /\ DOMAIN read[i].fields = {names[j] : j \in 1..i}
    /\ \A j \in 1..i :
          /\ read[j - 1].offset \in Nat /\ read[j].offset \in Nat
          /\ read[j - 1].offset <= read[j].offset /\ read[j].offset <= Len(body)
          /\ EncodeField(names[j], read[i].fields[names[j]])
                = SubSeq(body, read[j - 1].offset + 1, read[j].offset)
          /\ FieldIs(names[j], read[i].fields[names[j]])

LEMMA OneMoreField ==
  ASSUME NEW body \in Seq(Byte), NEW names, NEW read, NEW i \in Nat,
         ReadSoFar(body, names, read, i),
         \A j \in 1..i : names[j] # names[i + 1],
         read[i + 1] = ReadField(body, read[i], names[i + 1]), read[i + 1].result = "ok"
  PROVE  ReadSoFar(body, names, read, i + 1)
<1> DEFINE r == read[i]
           s == read[i + 1]
           name == names[i + 1]
<1>1. /\ r = Reader(r.offset, r.fields, "ok")
      /\ r.offset \in Nat /\ r.offset <= Len(body) /\ r.offset <= i * MaxWidth
      /\ DOMAIN r.fields = {names[j] : j \in 1..i}
  BY DEF ReadSoFar
<1>2. \A j \in 1..i :
          /\ read[j - 1].offset \in Nat /\ read[j].offset \in Nat
          /\ read[j - 1].offset <= read[j].offset /\ read[j].offset <= Len(body)
          /\ EncodeField(names[j], r.fields[names[j]])
                = SubSeq(body, read[j - 1].offset + 1, read[j].offset)
          /\ FieldIs(names[j], r.fields[names[j]])
  BY DEF ReadSoFar
<1>3. s = ReadField(body, r, name) /\ s.result = "ok"
  OBVIOUS
<1>4. name \notin DOMAIN r.fields
  BY <1>1
<1>5. (i + 1) - 1 = i /\ Len(body) \in Nat /\ 1..(i + 1) = 1..i \cup {i + 1}
  OBVIOUS
<1> HIDE DEF r
<1>6. r.result = "ok" /\ r = Reader(r.offset, r.fields, r.result)
  <2>1. r.result = "ok"
    BY <1>1 DEF Reader
  <2> QED BY <1>1, <2>1
<1> HIDE DEF s, name
<1>7. PICK w, v :
         /\ w \in Nat
         /\ s = Reader(r.offset + w, With(r.fields, name, v), "ok")
         /\ w <= MaxWidth /\ r.offset + w <= Len(body)
         /\ EncodeField(name, v) = SubSeq(body, r.offset + 1, r.offset + w)
         /\ FieldIs(name, v)
  BY <1>1, <1>3, <1>6, FieldRead
<1> DEFINE g == With(r.fields, name, v)
<1>8. /\ DOMAIN g = DOMAIN r.fields \cup {name} /\ g[name] = v
      /\ \A x \in DOMAIN r.fields : g[x] = r.fields[x]
  <2> DEFINE old == r.fields
  <2>1. name \notin DOMAIN old
    BY <1>4
  <2> HIDE DEF old
  <2>2. /\ DOMAIN With(old, name, v) = DOMAIN old \cup {name} /\ With(old, name, v)[name] = v
        /\ \A x \in DOMAIN old : With(old, name, v)[x] = old[x]
    BY <2>1 DEF With
  <2> QED BY <2>2 DEF old
<1>9. s = Reader(r.offset + w, g, "ok")
  BY <1>7
<1> HIDE DEF g
<1>10. s.offset = r.offset + w /\ s.fields = g /\ s = Reader(s.offset, s.fields, "ok")
  BY <1>9 DEF Reader
<1>11. s.offset \in Nat /\ s.offset <= Len(body) /\ s.offset <= (i + 1) * MaxWidth /\ r.offset <= s.offset
  <2>1. MaxWidth \in Nat
    BY SMTT(10) DEF MaxWidth
  <2> DEFINE a == i * MaxWidth
  <2>2. (i + 1) * MaxWidth = a + MaxWidth /\ a \in Nat
    BY <2>1
  <2> HIDE DEF a
  <2>3. r.offset <= a
    BY <1>1 DEF a
  <2> DEFINE x == r.offset
             y == s.offset
             z == (i + 1) * MaxWidth
  <2>4. /\ w \in Nat /\ x \in Nat /\ y = x + w /\ x <= a /\ w <= MaxWidth /\ y <= Len(body)
        /\ z = a + MaxWidth
    BY <1>1, <1>7, <1>10, <2>2, <2>3
  <2> HIDE DEF x, y, z
  <2>5. y \in Nat /\ y <= Len(body) /\ y <= z /\ x <= y
    BY <2>1, <2>2, <2>4
  <2> QED BY <2>5 DEF x, y, z
<1>12. DOMAIN g = {names[j] : j \in 1..(i + 1)}
  BY <1>1, <1>5, <1>8 DEF name
<1>13. ASSUME NEW j \in 1..(i + 1)
       PROVE  /\ read[j - 1].offset \in Nat /\ read[j].offset \in Nat
              /\ read[j - 1].offset <= read[j].offset /\ read[j].offset <= Len(body)
              /\ EncodeField(names[j], g[names[j]])
                    = SubSeq(body, read[j - 1].offset + 1, read[j].offset)
              /\ FieldIs(names[j], g[names[j]])
  <2>1. CASE j \in 1..i
    <3>1. names[j] \in DOMAIN r.fields
      BY <1>1, <2>1
    <3>2. g[names[j]] = r.fields[names[j]]
      BY <1>8, <3>1
    <3> QED BY <1>2, <2>1, <3>2
  <2>2. CASE j = i + 1
    <3>1. names[j] = name /\ read[j] = s /\ read[j - 1] = r
      BY <1>5, <2>2 DEF name, s, r
    <3>2. EncodeField(name, g[name]) = SubSeq(body, r.offset + 1, s.offset) /\ FieldIs(name, g[name])
      BY <1>7, <1>8, <1>10
    <3> QED BY <1>1, <1>11, <3>1, <3>2
  <2> QED BY <1>5, <2>1, <2>2
<1> QED BY <1>10, <1>11, <1>12, <1>13 DEF ReadSoFar, s

\* A body that is read without an error is the encoding of what is read, and short.
LEMMA BodyReads ==
  ASSUME NEW magic \in Magic, NEW body \in Seq(Byte), ReadBody(magic, body).result = "ok"
  PROVE  LET h == ReadBody(magic, body).fields IN
         /\ Body(magic, h) = body
         /\ Len(body) < 16777216
         /\ DOMAIN h = Range(Written[magic])
         /\ \A name \in DOMAIN h : FieldIs(name, h[name])
<1> DEFINE names == Read[magic]
           n == Len(names)
           h == ReadBody(magic, body).fields
<1>1. /\ Written[magic] = names /\ n \in 5..8 /\ DOMAIN names = 1..n
      /\ \A i, j \in 1..n : i # j => names[i] # names[j]
  BY Orders
<1>2. PICK read : /\ read[0] = Reader(0, <<>>, "ok")
                  /\ \A i \in 1..n : read[i] = ReadField(body, read[i - 1], names[i])
                  /\ ReadBody(magic, body) = Finish(body, read[n])
  <2>1. Len(Read[magic]) \in Nat
    BY <1>1
  <2> QED BY <2>1, ReadSteps
<1> DEFINE S == {i \in Nat : i <= n /\ read[i].result = "ok" => ReadSoFar(body, names, read, i)}
<1>3. 0 \in S
  <2>1. read[0].offset = 0 /\ read[0].fields = <<>>
    BY <1>2 DEF Reader
  <2>2. read[0] = Reader(read[0].offset, read[0].fields, "ok")
    BY <1>2, <2>1
  <2>3. DOMAIN read[0].fields = {}
    BY <2>1
  <2>4. 0 <= 0 * MaxWidth /\ Len(body) \in Nat
    BY SMTT(10) DEF MaxWidth
  <2> HIDE DEF names
  <2>5. ReadSoFar(body, names, read, 0)
    BY <2>1, <2>2, <2>3, <2>4 DEF ReadSoFar
  <2> QED BY <2>5
<1>4. ASSUME NEW i \in Nat, i \in S PROVE i + 1 \in S
  <2> HIDE DEF names, n
  <2> SUFFICES ASSUME i + 1 <= n, read[i + 1].result = "ok"
               PROVE  ReadSoFar(body, names, read, i + 1)
    OBVIOUS
  <2>1. n \in Nat
    BY <1>1
  <2>2. i + 1 \in 1..n /\ (i + 1) - 1 = i /\ \A j \in 1..i : j \in 1..n /\ j # i + 1
    BY <2>1
  <2>3. read[i + 1] = ReadField(body, read[i], names[i + 1])
    BY <1>2, <2>2
  <2>4. read[i].result = "ok"
    <3> SUFFICES ASSUME read[i].result # "ok" PROVE FALSE
      OBVIOUS
    <3>1. read[i + 1] = read[i]
      BY <2>3 DEF ReadField
    <3> QED BY <3>1
  <2>5. ReadSoFar(body, names, read, i)
    BY <1>4, <2>1, <2>2, <2>4
  <2>6. \A j \in 1..i : names[j] # names[i + 1]
    BY <1>1, <2>2
  <2> QED BY <2>3, <2>5, <2>6, OneMoreField
<1> HIDE DEF names, n
<1>5. n \in Nat /\ n \in S
  <2>1. n \in Nat
    BY <1>1
  <2> HIDE DEF S
  <2> QED BY <1>3, <1>4, <2>1, Climb
<1>6. /\ read[n].result = "ok" /\ read[n].offset = Len(body) /\ ReadBody(magic, body) = read[n]
  <2>1. read[n].result = "ok"
    <3> SUFFICES ASSUME read[n].result # "ok" PROVE FALSE
      OBVIOUS
    <3>1. Finish(body, read[n]) = read[n]
      BY DEF Finish
    <3> QED BY <1>2, <3>1
  <2>2. ReadSoFar(body, names, read, n)
    BY <1>5, <2>1
  <2>3. read[n].offset = Len(body)
    <3> SUFFICES ASSUME read[n].offset # Len(body) PROVE FALSE
      OBVIOUS
    <3>1. Finish(body, read[n]) = [read[n] EXCEPT !.result = "corrupt_envelope"]
      BY <2>1 DEF Finish, Fails
    <3>2. "result" \in DOMAIN read[n]
      BY <2>2 DEF ReadSoFar, Reader
    <3>3. Finish(body, read[n]).result = "corrupt_envelope"
      BY <3>1, <3>2
    <3> QED BY <1>2, <3>3
  <2>4. ReadBody(magic, body) = read[n]
    BY <1>2, <2>1, <2>3 DEF Finish
  <2> QED BY <2>1, <2>2, <2>3, <2>4
<1>7. h = read[n].fields
  BY <1>6
<1> HIDE DEF h
<1>8. /\ DOMAIN h = {names[j] : j \in 1..n} /\ Len(body) <= n * MaxWidth
      /\ \A j \in 1..n :
          /\ read[j - 1].offset \in Nat /\ read[j].offset \in Nat
          /\ read[j - 1].offset <= read[j].offset /\ read[j].offset <= Len(body)
          /\ EncodeField(names[j], h[names[j]]) = SubSeq(body, read[j - 1].offset + 1, read[j].offset)
          /\ FieldIs(names[j], h[names[j]])
  <2>1. ReadSoFar(body, names, read, n)
    BY <1>5, <1>6
  <2> QED BY <1>6, <1>7, <2>1 DEF ReadSoFar
<1>9. Len(body) < 16777216
  <2>1. n <= 8 /\ n \in Nat /\ Len(body) \in Nat /\ MaxWidth = 262142
    BY <1>1 DEF MaxWidth
  <2>2. n * MaxWidth <= 8 * 262142
    BY SMTT(10), <2>1
  <2> DEFINE p == n * MaxWidth
  <2>3. Len(body) <= p /\ p <= 8 * 262142 /\ p \in Int
    BY <1>8, <2>1, <2>2
  <2> HIDE DEF p
  <2> QED BY SMTT(10), <2>1, <2>3
<1>10. DOMAIN h = Range(Written[magic])
  BY <1>1, <1>8 DEF Range
<1>11. \A name \in DOMAIN h : FieldIs(name, h[name])
  BY <1>8
<1>12. Body(magic, h) = body
  <2> DEFINE seqs == [i \in DOMAIN Written[magic] |-> EncodeField(Written[magic][i], h[Written[magic][i]])]
  <2>1. Body(magic, h) = FlattenSeq(seqs)
    BY DEF Body
  <2>2. seqs = [i \in 1..n |-> EncodeField(names[i], h[names[i]])]
    BY <1>1
  <2>3. Len(seqs) = n /\ \A i \in 1..n : seqs[i] = SubSeq(body, read[i - 1].offset + 1, read[i].offset)
    <3> HIDE DEF seqs
    <3>1. Len(seqs) = n
      BY <1>5, <2>2
    <3>2. \A i \in 1..n : seqs[i] = EncodeField(names[i], h[names[i]])
      BY <2>2
    <3> QED BY <1>8, <3>1, <3>2
  <2> HIDE DEF seqs
  <2>4. PICK f : /\ f[1] = seqs[1]
                 /\ \A i \in 2..n : f[i] = f[i - 1] \o seqs[i]
                 /\ FlattenSeq(seqs) = f[n]
    <3>1. Len(seqs) \in Nat \ {0}
      BY <1>1, <2>3
    <3> QED BY <2>3, <3>1, Flattened
  <2> DEFINE o(i) == read[i].offset
             P == {i \in Nat : i \in 1..n => f[i] = SubSeq(body, 0 + 1, o(i))}
  <2>5. o(0) = 0
    BY <1>2 DEF Reader
  <2>6. \A i \in 1..n : /\ o(i - 1) \in Nat /\ o(i) \in Nat /\ o(i - 1) <= o(i) /\ o(i) <= Len(body)
                        /\ seqs[i] = SubSeq(body, o(i - 1) + 1, o(i))
    BY <1>8, <2>3
  <2>7. o(n) = Len(body)
    BY <1>6
  <2> HIDE DEF o
  <2>8. 0 \in P
    OBVIOUS
  <2>9. ASSUME NEW i \in Nat, i \in P PROVE i + 1 \in P
    <3> SUFFICES ASSUME i + 1 \in 1..n PROVE f[i + 1] = SubSeq(body, 0 + 1, o(i + 1))
      OBVIOUS
    <3>1. CASE i = 0
      <4>1. i + 1 = 1 /\ 1 \in 1..n /\ 1 - 1 = 0
        BY <3>1
      <4>2. seqs[1] = SubSeq(body, o(0) + 1, o(1))
        BY <2>6, <4>1
      <4> QED BY <2>4, <2>5, <4>1, <4>2
    <3>2. CASE i # 0
      <4>1. i \in 1..n /\ i + 1 \in 2..n /\ (i + 1) - 1 = i
        BY <1>5, <3>2
      <4>2. f[i] = SubSeq(body, 0 + 1, o(i))
        BY <2>9, <4>1
      <4>3. f[i + 1] = f[i] \o seqs[i + 1]
        BY <2>4, <4>1
      <4>4. /\ seqs[i + 1] = SubSeq(body, o(i) + 1, o(i + 1))
            /\ o(i) \in Nat /\ o(i + 1) \in Nat /\ o(i) <= o(i + 1) /\ o(i + 1) <= Len(body) /\ 0 <= o(i)
        <5>1. i + 1 \in 1..n
          OBVIOUS
        <5> QED BY <2>6, <4>1, <5>1
      <4>5. SubSeq(body, 0 + 1, o(i)) \o SubSeq(body, o(i) + 1, o(i + 1)) = SubSeq(body, 0 + 1, o(i + 1))
        <5> DEFINE x == o(i)
                   y == o(i + 1)
        <5>1. x \in Nat /\ y \in Nat /\ 0 \in Nat /\ 0 <= x /\ x <= y /\ y <= Len(body)
          BY <4>4
        <5> HIDE DEF x, y
        <5>2. SubSeq(body, 0 + 1, x) \o SubSeq(body, x + 1, y) = SubSeq(body, 0 + 1, y)
          BY <5>1, Glue
        <5> QED BY <5>2 DEF x, y
      <4> QED BY <4>2, <4>3, <4>4, <4>5
    <3> QED BY <3>1, <3>2
  <2>10. n \in P
    <3> HIDE DEF P
    <3> QED BY <1>5, <2>8, <2>9, Climb
  <2>11. f[n] = SubSeq(body, 1, Len(body))
    <3>1. n \in 1..n
      BY <1>1
    <3> QED BY <2>7, <2>10, <3>1
  <2> QED BY <2>1, <2>4, <2>11, WholePiece
<1> QED BY <1>9, <1>10, <1>11, <1>12 DEF h

-----------------------------------------------------------------------------
\* Files.

BodyResults == {"ok", "corrupt_envelope", "unknown_version", "unsupported_tier"}

\* The outcomes of a decoder.
LEMMA BodyResult ==
  ASSUME NEW magic \in Magic, NEW body
  PROVE  ReadBody(magic, body).result \in BodyResults
<1> DEFINE names == Read[magic]
           n == Len(names)
           Good(r) == r = Reader(r.offset, r.fields, r.result) /\ r.result \in BodyResults
<1>0. n \in Nat
  BY Orders
<1>1. PICK read : /\ read[0] = Reader(0, <<>>, "ok")
                  /\ \A i \in 1..n : read[i] = ReadField(body, read[i - 1], names[i])
                  /\ ReadBody(magic, body) = Finish(body, read[n])
  BY <1>0, ReadSteps
<1> HIDE DEF names, n
<1>2. \A o, f : \A c \in BodyResults : Good(Reader(o, f, c))
  BY DEF Reader
<1>3. ASSUME NEW r, Good(r), NEW category \in BodyResults PROVE Good(Fails(r, category))
  <2>1. Fails(r, category) = Reader(r.offset, r.fields, category)
    BY <1>3 DEF Fails, Reader
  <2> HIDE DEF Good
  <2> QED BY <1>2, <2>1
<1>4. ASSUME NEW r, Good(r), NEW name PROVE Good(ReadField(body, r, name))
  <2> DEFINE rest == SubSeq(body, r.offset + 1, Len(body))
             w == Width(Kind(name), rest)
             v == FieldValue(Kind(name), SubSeq(rest, 1, w))
  <2>1. ReadField(body, r, name) \in {r, Fails(r, "corrupt_envelope"), Fails(r, "unknown_version"),
                                      Fails(r, "unsupported_tier"),
                                      Reader(r.offset + w, With(r.fields, name, v), "ok")}
    <3> HIDE DEF Good, w, v
    <3> QED BY DEF ReadField, w, v, rest
  <2>2. Good(Fails(r, "corrupt_envelope")) /\ Good(Fails(r, "unknown_version"))
        /\ Good(Fails(r, "unsupported_tier"))
    BY <1>3, <1>4 DEF BodyResults
  <2>3. Good(Reader(r.offset + w, With(r.fields, name, v), "ok"))
    BY <1>2 DEF BodyResults
  <2> HIDE DEF Good, w, v
  <2> QED BY <1>4, <2>1, <2>2, <2>3
<1> DEFINE S == {i \in Nat : i <= n => Good(read[i])}
<1>5. 0 \in S
  BY <1>1, <1>2 DEF BodyResults
<1>6. ASSUME NEW i \in Nat, i \in S PROVE i + 1 \in S
  <2> HIDE DEF Good
  <2> SUFFICES ASSUME i + 1 <= n PROVE Good(read[i + 1])
    OBVIOUS
  <2>1. i <= n /\ i + 1 \in 1..n /\ (i + 1) - 1 = i
    BY <1>0
  <2>2. read[i + 1] = ReadField(body, read[i], names[i + 1])
    BY <1>1, <2>1
  <2> QED BY <1>4, <1>6, <2>1, <2>2
<1>7. n \in S
  <2> HIDE DEF S
  <2> QED BY <1>0, <1>5, <1>6, Climb
<1>8. Good(read[n]) /\ Good(Fails(read[n], "corrupt_envelope"))
  <2>1. Good(read[n])
    BY <1>0, <1>7
  <2>2. "corrupt_envelope" \in BodyResults
    BY DEF BodyResults
  <2> HIDE DEF Good
  <2> QED BY <1>3, <2>1, <2>2
<1>9. ReadBody(magic, body) \in {read[n], Fails(read[n], "corrupt_envelope")}
  BY <1>1 DEF Finish
<1> QED BY <1>8, <1>9

LEMMA DecodedResult ==
  ASSUME NEW magic \in Magic, NEW bytes
  PROVE  DecodeFile(magic, bytes).result \in BodyResults
<1> DEFINE p == SubSeq(bytes, HeaderLen + 1, Len(bytes))
           body == SubSeq(p, PrefixLen + 1, PrefixLen + ReadU32(p))
           r == ReadBody(magic, body)
           e == EnvelopeResult(magic, bytes)
<1>1. r.result \in BodyResults
  BY BodyResult
<1>2. e \in {"ok", "corrupt_envelope", "unknown_version"}
  BY DEF EnvelopeResult
<1> HIDE DEF r, e
<1>3. DecodePayload(magic, p) \in {Refused("corrupt_envelope"), Refused(r.result),
           Decoded("ok", r.fields, SubSeq(p, PrefixLen + ReadU32(p) + 1, Len(p)))}
  <2> HIDE DEF p
  <2> QED BY DEF DecodePayload, r
<1>4. \A c : Refused(c).result = c
  BY DEF Refused, Decoded
<1>5. \A h, o : Decoded("ok", h, o).result = "ok"
  BY DEF Decoded
<1>6. DecodePayload(magic, p).result \in BodyResults
  <2> HIDE DEF p
  <2> QED BY <1>1, <1>3, <1>4, <1>5 DEF BodyResults
<1>7. DecodeFile(magic, bytes) = IF e # "ok" THEN Refused(e) ELSE DecodePayload(magic, p)
  BY DEF DecodeFile, e
<1> HIDE DEF p
<1> QED BY <1>2, <1>4, <1>6, <1>7 DEF BodyResults

\* A payload that is decoded is the header and the opaque part it is decoded to.
LEMMA PayloadIs ==
  ASSUME NEW magic \in Magic, NEW p \in Seq(Byte), DecodePayload(magic, p).result = "ok"
  PROVE  LET d == DecodePayload(magic, p) IN
         /\ p = Sealed(Body(magic, d.header)) \o d.opaque
         /\ DOMAIN d.header = Range(Written[magic])
         /\ \A name \in DOMAIN d.header : FieldIs(name, d.header[name])
<1> DEFINE d == DecodePayload(magic, p)
           n == ReadU32(p)
           end == PrefixLen + n
           body == SubSeq(p, PrefixLen + 1, end)
           r == ReadBody(magic, body)
           opaque == SubSeq(p, end + 1, Len(p))
<1>0. Len(p) \in Nat
  OBVIOUS
<1>1. /\ ~(Len(p) < PrefixLen) /\ ~(end > Len(p)) /\ Crc32c(body) = SubSeq(p, 5, 8)
      /\ r.result = "ok" /\ d = Decoded("ok", r.fields, opaque)
  <2>1. \A c : c # "ok" => Refused(c).result # "ok"
    BY DEF Refused, Decoded
  <2>2. d = IF Len(p) < PrefixLen THEN Refused("corrupt_envelope")
            ELSE IF end > Len(p) THEN Refused("corrupt_envelope")
            ELSE IF ~ChecksumMatches(body, SubSeq(p, 5, 8)) THEN Refused("corrupt_envelope")
            ELSE IF r.result # "ok" THEN Refused(r.result)
            ELSE Decoded("ok", r.fields, opaque)
    BY DEF DecodePayload
  <2>3. d.result = "ok"
    OBVIOUS
  <2> HIDE DEF d, end, body, r, opaque
  <2> QED BY <2>1, <2>2, <2>3 DEF ChecksumMatches
<1>2. PrefixLen = 8
  BY DEF PrefixLen
<1>3. n \in Nat /\ (n < 16777216 => U32(n) = <<p[1], p[2], p[3], p[4]>>)
  <2>1. Len(p) >= 4
    BY <1>0, <1>1, <1>2
  <2> QED BY <2>1, Numbers32
<1>4. end \in Nat /\ 8 <= end /\ end <= Len(p) /\ end - 8 = n
  <2> HIDE DEF n
  <2> QED BY <1>0, <1>1, <1>2, <1>3
<1>5. body = SubSeq(p, 8 + 1, end)
  BY <1>2
<1> HIDE DEF end, n
<1>6. body \in Seq(Byte) /\ Len(body) = n
  <2> HIDE DEF body
  <2>1. SubSeq(p, 8 + 1, end) \in Seq(Byte) /\ Len(SubSeq(p, 8 + 1, end)) = end - 8
    BY <1>0, <1>4, Piece
  <2> QED BY <1>4, <1>5, <2>1
<1> HIDE DEF body
<1>7. /\ Body(magic, r.fields) = body /\ Len(body) < 16777216
      /\ DOMAIN r.fields = Range(Written[magic])
      /\ \A name \in DOMAIN r.fields : FieldIs(name, r.fields[name])
  BY <1>1, <1>6, BodyReads
<1>8. U32(Len(body)) = SubSeq(p, 0 + 1, 4)
  <2>1. SubSeq(p, 0 + 1, 4) = <<p[1], p[2], p[3], p[4]>>
    <3>1. Len(p) >= 4
      BY <1>0, <1>4
    <3> QED BY <3>1, FirstFour
  <2> QED BY <1>3, <1>6, <1>7, <2>1
<1>9. Crc32c(body) = SubSeq(p, 4 + 1, 8)
  BY <1>1
<1>10. SubSeq(p, 0 + 1, 4) \o SubSeq(p, 4 + 1, 8) = SubSeq(p, 0 + 1, 8)
  BY <1>0, <1>4, Glue
<1>11. SubSeq(p, 0 + 1, 8) \o SubSeq(p, 8 + 1, end) = SubSeq(p, 0 + 1, end)
  BY <1>0, <1>4, Glue
<1>12. SubSeq(p, 0 + 1, end) \o SubSeq(p, end + 1, Len(p)) = p
  BY <1>4, BeginAndRest
<1>13. opaque = SubSeq(p, end + 1, Len(p))
  OBVIOUS
<1> HIDE DEF opaque, r, d
<1>15. Sealed(body) = SubSeq(p, 0 + 1, end)
  <2>1. Sealed(body) = (U32(Len(body)) \o Crc32c(body)) \o body
    BY DEF Sealed
  <2> QED BY <1>5, <1>8, <1>9, <1>10, <1>11, <2>1, Zenon
<1>16. Sealed(body) \o opaque = p
  BY <1>12, <1>13, <1>15, Zenon
<1>17. d.header = r.fields /\ d.opaque = opaque
  BY <1>1 DEF Decoded
<1> QED BY <1>7, <1>16, <1>17 DEF d

\* A file that is decoded is the only one that is decoded like that.
LEMMA FileIs ==
  ASSUME NEW magic \in Magic, NEW bytes \in Seq(Byte), DecodeFile(magic, bytes).result = "ok"
  PROVE  LET d == DecodeFile(magic, bytes) IN
         /\ bytes = EncodeFile(magic, d.header, d.opaque)
         /\ DOMAIN d.header = Range(Written[magic])
         /\ \A name \in DOMAIN d.header : FieldIs(name, d.header[name])
<1> DEFINE p == SubSeq(bytes, HeaderLen + 1, Len(bytes))
           d == DecodeFile(magic, bytes)
<1>0. Len(bytes) \in Nat /\ HeaderLen = 6
  BY DEF HeaderLen
<1>1. EnvelopeResult(magic, bytes) = "ok" /\ d = DecodePayload(magic, p)
  <2>1. \A c : c # "ok" => Refused(c).result # "ok"
    BY DEF Refused, Decoded
  <2>2. d = IF EnvelopeResult(magic, bytes) # "ok" THEN Refused(EnvelopeResult(magic, bytes))
            ELSE DecodePayload(magic, p)
    BY DEF DecodeFile
  <2>3. d.result = "ok"
    OBVIOUS
  <2> HIDE DEF d, p
  <2> QED BY <2>1, <2>2, <2>3
<1>2. /\ Len(bytes) >= 6 /\ bytes[5] = 1 /\ bytes[6] = 0
      /\ SubSeq(bytes, 1, 4) = MagicBytes[magic]
  BY <1>0, <1>1 DEF EnvelopeResult, EnvelopeVersion, EnvelopeFlags
<1>3. p = SubSeq(bytes, 6 + 1, Len(bytes))
  BY <1>0
<1> HIDE DEF p
<1>4. p \in Seq(Byte)
  <2>1. SubSeq(bytes, 6 + 1, Len(bytes)) \in Seq(Byte)
    BY <1>0, <1>2, Piece
  <2> QED BY <1>3, <2>1
<1>5. /\ p = Sealed(Body(magic, d.header)) \o d.opaque
      /\ DOMAIN d.header = Range(Written[magic])
      /\ \A name \in DOMAIN d.header : FieldIs(name, d.header[name])
  <2>1. DecodePayload(magic, p).result = "ok"
    BY <1>1
  <2> HIDE DEF d
  <2> QED BY <1>1, <1>4, <2>1, PayloadIs
<1> HIDE DEF d
<1>6. <<EnvelopeVersion, EnvelopeFlags>> = SubSeq(bytes, 4 + 1, 6)
  BY <1>0, <1>2 DEF EnvelopeVersion, EnvelopeFlags
<1>7. SubSeq(bytes, 0 + 1, 4) \o SubSeq(bytes, 4 + 1, 6) = SubSeq(bytes, 0 + 1, 6)
  BY <1>0, <1>2, Glue
<1>8. SubSeq(bytes, 0 + 1, 6) \o SubSeq(bytes, 6 + 1, Len(bytes)) = bytes
  BY <1>0, <1>2, BeginAndRest
<1>9. SubSeq(bytes, 0 + 1, 4) = MagicBytes[magic]
  BY <1>2
<1>10. EncodeFile(magic, d.header, d.opaque)
         = (MagicBytes[magic] \o <<EnvelopeVersion, EnvelopeFlags>>) \o p
  BY <1>5, Zenon DEF EncodeFile, Enveloped
<1>11. EncodeFile(magic, d.header, d.opaque) = bytes
  BY <1>3, <1>6, <1>7, <1>8, <1>9, <1>10, Zenon
<1> QED BY <1>5, <1>11 DEF d

-----------------------------------------------------------------------------
\* Pieces of sequences that were put together.

LEMMA Joined ==
  ASSUME NEW T, NEW x \in Seq(T), NEW y \in Seq(T)
  PROVE  /\ x \o y \in Seq(T) /\ Len(x \o y) = Len(x) + Len(y)
         /\ \A k \in 1..Len(x) : (x \o y)[k] = x[k]
         /\ \A k \in 1..Len(y) : (x \o y)[Len(x) + k] = y[k]
  OBVIOUS

LEMMA FirstPiece ==
  ASSUME NEW T, NEW x \in Seq(T), NEW y \in Seq(T), NEW i \in Nat, NEW j \in Nat, i <= j, j <= Len(x)
  PROVE  SubSeq(x \o y, i + 1, j) = SubSeq(x, i + 1, j)
<1> DEFINE s == x \o y
           p == SubSeq(s, i + 1, j)
           q == SubSeq(x, i + 1, j)
<1>1. s \in Seq(T) /\ Len(s) = Len(x) + Len(y) /\ \A k \in 1..Len(x) : s[k] = x[k]
  BY Joined
<1>2. Len(x) \in Nat /\ Len(y) \in Nat
  OBVIOUS
<1>3. q \in Seq(T) /\ Len(q) = j - i /\ \A k \in 1..(j - i) : q[k] = x[i + k]
  BY Piece
<1> HIDE DEF s, q
<1>4. j <= Len(s)
  BY <1>1, <1>2
<1>5. p \in Seq(T) /\ Len(p) = j - i /\ \A k \in 1..(j - i) : p[k] = s[i + k]
  BY <1>1, <1>4, Piece
<1> HIDE DEF p
<1>6. ASSUME NEW k \in 1..(j - i) PROVE p[k] = q[k]
  <2>1. i + k \in 1..Len(x)
    BY <1>2
  <2>2. s[i + k] = x[i + k]
    BY <1>1, <2>1
  <2> QED BY <1>3, <1>5, <2>2
<1>7. p = q
  BY <1>3, <1>5, <1>6, SeqEqual
<1> QED BY <1>7 DEF p, q, s

LEMMA SecondPiece ==
  ASSUME NEW T, NEW x \in Seq(T), NEW y \in Seq(T)
  PROVE  SubSeq(x \o y, Len(x) + 1, Len(x) + Len(y)) = y
<1> DEFINE s == x \o y
           m == Len(x)
           n == Len(y)
           p == SubSeq(s, m + 1, m + n)
<1>1. /\ m \in Nat /\ n \in Nat /\ s \in Seq(T) /\ Len(s) = m + n
      /\ \A k \in 1..n : s[m + k] = y[k]
  BY Joined
<1>2. y \in Seq(T) /\ Len(y) = n
  OBVIOUS
<1> HIDE DEF s, m, n
<1>3. m + n \in Nat /\ m <= m + n /\ m + n <= Len(s) /\ (m + n) - m = n
  BY <1>1
<1>4. p \in Seq(T) /\ Len(p) = n /\ \A k \in 1..n : p[k] = s[m + k]
  <2> DEFINE j == m + n
  <2>1. j \in Nat /\ m <= j /\ j <= Len(s) /\ j - m = n
    BY <1>3
  <2> HIDE DEF j, p
  <2>2. /\ SubSeq(s, m + 1, j) \in Seq(T) /\ Len(SubSeq(s, m + 1, j)) = j - m
        /\ \A k \in 1..(j - m) : SubSeq(s, m + 1, j)[k] = s[m + k]
    <3>1. s \in Seq(T) /\ m \in Nat
      BY <1>1
    <3> QED BY <2>1, <3>1, Piece
  <2> QED BY <2>1, <2>2 DEF j, p
<1> HIDE DEF p
<1>5. \A k \in 1..n : p[k] = y[k]
  BY <1>1, <1>4
<1>6. p = y
  BY <1>2, <1>4, <1>5, SeqEqual
<1> QED BY <1>6 DEF p, s, m, n

\* After i sequences every one is whole, one behind the other.
PiecesSoFar(T, seqs, g, i) ==
    /\ g[i] \in Seq(T)
    /\ \A j \in 1..i :
          /\ g[j - 1] \in Seq(T) /\ g[j] \in Seq(T)
          /\ Len(g[j]) = Len(g[j - 1]) + Len(seqs[j]) /\ Len(g[j]) <= Len(g[i])
          /\ SubSeq(g[i], Len(g[j - 1]) + 1, Len(g[j])) = seqs[j]

LEMMA OneMorePiece ==
  ASSUME NEW T, NEW seqs, NEW g, NEW i \in Nat, PiecesSoFar(T, seqs, g, i),
         g[i + 1] = g[i] \o seqs[i + 1], seqs[i + 1] \in Seq(T), \A j \in 1..i : Len(seqs[j]) \in Nat
  PROVE  PiecesSoFar(T, seqs, g, i + 1)
<1> DEFINE x == g[i]
           y == seqs[i + 1]
           z == g[i + 1]
<1>1. x \in Seq(T) /\ y \in Seq(T) /\ z = x \o y
  BY DEF PiecesSoFar
<1>2. \A j \in 1..i : /\ g[j - 1] \in Seq(T) /\ g[j] \in Seq(T)
                      /\ Len(g[j]) = Len(g[j - 1]) + Len(seqs[j]) /\ Len(g[j]) <= Len(x)
                      /\ SubSeq(x, Len(g[j - 1]) + 1, Len(g[j])) = seqs[j]
  BY DEF PiecesSoFar
<1>3. (i + 1) - 1 = i
  OBVIOUS
<1> HIDE DEF x, y, z
<1>4. z \in Seq(T) /\ Len(z) = Len(x) + Len(y) /\ Len(x) \in Nat /\ Len(y) \in Nat /\ Len(z) \in Nat
  BY <1>1, Joined
<1>5. ASSUME NEW j \in 1..(i + 1)
      PROVE  /\ g[j - 1] \in Seq(T) /\ g[j] \in Seq(T)
             /\ Len(g[j]) = Len(g[j - 1]) + Len(seqs[j]) /\ Len(g[j]) <= Len(z)
             /\ SubSeq(z, Len(g[j - 1]) + 1, Len(g[j])) = seqs[j]
  <2>1. CASE j = i + 1
    <3>1. SubSeq(x \o y, Len(x) + 1, Len(x) + Len(y)) = y
      BY <1>1, SecondPiece
    <3>2. SubSeq(z, Len(x) + 1, Len(z)) = y
      BY <1>1, <1>4, <3>1, Zenon
    <3>3. g[j - 1] = x /\ g[j] = z /\ seqs[j] = y
      BY <1>3, <2>1 DEF x, y, z
    <3>4. Len(z) <= Len(z)
      BY <1>4
    <3> QED BY <1>1, <1>4, <3>2, <3>3, <3>4, Zenon
  <2>2. CASE j # i + 1
    <3> DEFINE a == Len(g[j - 1])
               b == Len(g[j])
               w == Len(seqs[j])
    <3>1. /\ g[j - 1] \in Seq(T) /\ g[j] \in Seq(T) /\ j \in 1..i
          /\ b = a + w /\ b <= Len(x)
          /\ SubSeq(x, a + 1, b) = seqs[j]
      <4>1. j \in 1..i
        BY <2>2
      <4> QED BY <1>2, <4>1
    <3>2. a \in Nat /\ b \in Nat /\ w \in Nat
      <4>1. \A s \in Seq(T) : Len(s) \in Nat
        OBVIOUS
      <4>2. w \in Nat
        BY <3>1
      <4> QED BY <3>1, <4>1, <4>2, Zenon
    <3> HIDE DEF a, b, w
    <3>3. a <= b /\ b <= Len(z)
      BY <1>4, <3>1, <3>2
    <3>4. SubSeq(x \o y, a + 1, b) = SubSeq(x, a + 1, b)
      BY <1>1, <3>1, <3>2, <3>3, FirstPiece
    <3>5. SubSeq(z, a + 1, b) = seqs[j]
      BY <1>1, <3>1, <3>4, Zenon
    <3> QED BY <3>1, <3>3, <3>5 DEF a, b, w
  <2> QED BY <2>1, <2>2, Zenon
<1> QED BY <1>4, <1>5 DEF PiecesSoFar, z

\* Flattening keeps every sequence whole, one behind the other.
LEMMA FlattenedPieces ==
  ASSUME NEW T, NEW seqs \in Seq(Seq(T))
  PROVE  /\ FlattenSeq(seqs) \in Seq(T)
         /\ \E at : /\ at[0] = 0 /\ at[Len(seqs)] = Len(FlattenSeq(seqs))
                    /\ \A i \in 0..Len(seqs) : at[i] \in Nat
                    /\ \A i \in 1..Len(seqs) :
                          /\ at[i] = at[i - 1] + Len(seqs[i])
                          /\ at[i] <= Len(FlattenSeq(seqs))
                          /\ SubSeq(FlattenSeq(seqs), at[i - 1] + 1, at[i]) = seqs[i]
<1> DEFINE n == Len(seqs)
           flat == FlattenSeq(seqs)
<1>0. n \in Nat /\ \A i \in 1..n : seqs[i] \in Seq(T) /\ Len(seqs[i]) \in Nat
  OBVIOUS
<1>1. PICK g : /\ g[0] = <<>> /\ g[n] = flat
               /\ \A i \in 1..n : g[i - 1] \in Seq(T) => g[i] = g[i - 1] \o seqs[i]
  <2>1. CASE n = 0
    <3>1. seqs = <<>>
      BY <2>1
    <3>2. flat = seqs
      BY <2>1 DEF FlattenSeq
    <3> DEFINE g == [i \in 0..0 |-> <<>>]
    <3>3. g[0] = <<>> /\ g[n] = flat
      BY <2>1, <3>1, <3>2
    <3> HIDE DEF g
    <3> QED BY <2>1, <3>3
  <2>2. CASE n # 0
    <3>1. Len(seqs) \in Nat \ {0}
      BY <1>0, <2>2
    <3>2. PICK f : /\ f[1] = seqs[1] /\ \A i \in 2..n : f[i] = f[i - 1] \o seqs[i]
                   /\ flat = f[n]
      BY <3>1, Flattened
    <3> DEFINE g == [i \in 0..n |-> IF i = 0 THEN <<>> ELSE f[i]]
    <3>3. g[0] = <<>> /\ g[n] = flat
      BY <3>1, <3>2
    <3>4. \A i \in 1..n : g[i] = f[i] /\ (i # 1 => g[i - 1] = f[i - 1])
      OBVIOUS
    <3> HIDE DEF g, n, flat
    <3>5. ASSUME NEW i \in 1..n, g[i - 1] \in Seq(T) PROVE g[i] = g[i - 1] \o seqs[i]
      <4>1. CASE i = 1
        <5>1. g[i - 1] = <<>> /\ g[i] = seqs[i] /\ seqs[i] \in Seq(T)
          BY <1>0, <3>2, <3>3, <3>4, <4>1
        <5>2. <<>> \o seqs[i] = seqs[i]
          BY <5>1
        <5> QED BY <5>1, <5>2
      <4>2. CASE i # 1
        <5>1. i \in 2..n
          BY <1>0, <4>2
        <5> QED BY <3>2, <3>4, <4>2, <5>1
      <4> QED BY <4>1, <4>2
    <3> QED BY <3>3, <3>5
  <2> QED BY <2>1, <2>2
<1> HIDE DEF n, flat
<1> DEFINE S == {i \in Nat : i <= n => PiecesSoFar(T, seqs, g, i)}
<1>2. 0 \in S
  <2>1. PiecesSoFar(T, seqs, g, 0)
    <3>1. g[0] \in Seq(T)
      BY <1>1
    <3> QED BY <3>1 DEF PiecesSoFar
  <2> QED BY <2>1
<1>3. ASSUME NEW i \in Nat, i \in S PROVE i + 1 \in S
  <2> SUFFICES ASSUME i + 1 <= n PROVE PiecesSoFar(T, seqs, g, i + 1)
    OBVIOUS
  <2>1. i <= n /\ i + 1 \in 1..n /\ (i + 1) - 1 = i
    BY <1>0
  <2>2. PiecesSoFar(T, seqs, g, i)
    BY <1>3, <2>1
  <2> HIDE DEF S
  <2>3. g[i] \in Seq(T)
    BY <2>2 DEF PiecesSoFar
  <2>4. g[i + 1] = g[i] \o seqs[i + 1] /\ seqs[i + 1] \in Seq(T)
    BY <1>0, <1>1, <2>1, <2>3
  <2>5. \A j \in 1..i : Len(seqs[j]) \in Nat
    BY <1>0, <2>1
  <2> QED BY <2>2, <2>4, <2>5, OneMorePiece
<1>4. PiecesSoFar(T, seqs, g, n)
  <2>1. n \in S
    <3> HIDE DEF S
    <3> QED BY <1>0, <1>2, <1>3, Climb
  <2> QED BY <1>0, <2>1
<1>5. /\ flat \in Seq(T)
      /\ \A j \in 1..n :
            /\ g[j - 1] \in Seq(T) /\ g[j] \in Seq(T)
            /\ Len(g[j]) = Len(g[j - 1]) + Len(seqs[j]) /\ Len(g[j]) <= Len(flat)
            /\ SubSeq(flat, Len(g[j - 1]) + 1, Len(g[j])) = seqs[j]
  <2>1. g[n] = flat
    BY <1>1
  <2> QED BY <1>4, <2>1, Zenon DEF PiecesSoFar
<1> HIDE DEF S
<1> DEFINE at == [i \in 0..n |-> Len(g[i])]
<1>6. \A i \in 0..n : at[i] = Len(g[i])
  OBVIOUS
<1>7. \A i \in 0..n : g[i] \in Seq(T)
  <2>1. g[0] \in Seq(T)
    BY <1>1
  <2>2. \A i \in 0..n : i = 0 \/ i \in 1..n
    BY <1>0
  <2> QED BY <1>5, <2>1, <2>2
<1> HIDE DEF at
<1>8. \A i \in 0..n : at[i] \in Nat
  BY <1>6, <1>7
<1>9. at[0] = 0 /\ at[n] = Len(flat)
  <2>1. 0 \in 0..n /\ n \in 0..n
    BY <1>0
  <2>2. Len(<<>>) = 0
    OBVIOUS
  <2> QED BY <1>1, <1>6, <2>1, <2>2
<1>10. \A i \in 1..n : /\ at[i] = at[i - 1] + Len(seqs[i]) /\ at[i] <= Len(flat)
                       /\ SubSeq(flat, at[i - 1] + 1, at[i]) = seqs[i]
  <2>1. \A i \in 1..n : i \in 0..n /\ i - 1 \in 0..n
    BY <1>0
  <2> QED BY <1>5, <1>6, <2>1
<1> QED BY <1>5, <1>8, <1>9, <1>10 DEF n, flat

-----------------------------------------------------------------------------
\* The encoder.

\* The bytes of a list of layers.
LEMMA LayerBytes ==
  ASSUME NEW v \in Seq([1..4 -> Byte])
  PROVE  /\ FlattenSeq(v) \in Seq(Byte) /\ Len(FlattenSeq(v)) = 4 * Len(v)
         /\ \A i \in 1..Len(v) : SubSeq(FlattenSeq(v), 4 * i - 3, 4 * i) = v[i]
<1> DEFINE n == Len(v)
           flat == FlattenSeq(v)
<1>0. n \in Nat /\ \A i \in 1..n : v[i] \in [1..4 -> Byte]
  OBVIOUS
<1>1. \A w \in [1..4 -> Byte] : w \in Seq(Byte) /\ Len(w) = 4
  <2> SUFFICES ASSUME NEW w \in [1..4 -> Byte] PROVE w \in Seq(Byte) /\ Len(w) = 4
    OBVIOUS
  <2>1. w = [i \in 1..4 |-> w[i]] /\ \A i \in 1..4 : w[i] \in Byte
    OBVIOUS
  <2> QED BY <2>1, IsSequence
<1>2. \A i \in 1..n : v[i] \in Seq(Byte) /\ Len(v[i]) = 4
  BY <1>0, <1>1
<1>3. v \in Seq(Seq(Byte))
  <2>1. v = [i \in 1..n |-> v[i]]
    OBVIOUS
  <2> QED BY <1>0, <1>2, <2>1, IsSequence
<1>4. PICK at : /\ flat \in Seq(Byte)
                /\ at[0] = 0 /\ at[n] = Len(flat)
                /\ \A i \in 0..n : at[i] \in Nat
                /\ \A i \in 1..n : /\ at[i] = at[i - 1] + Len(v[i])
                                   /\ at[i] <= Len(flat)
                                   /\ SubSeq(flat, at[i - 1] + 1, at[i]) = v[i]
  BY <1>3, FlattenedPieces
<1> HIDE DEF n, flat
<1> DEFINE S == {i \in Nat : i <= n => at[i] = 4 * i}
<1>5. 0 \in S
  BY <1>4
<1>6. ASSUME NEW i \in Nat, i \in S PROVE i + 1 \in S
  <2> SUFFICES ASSUME i + 1 <= n PROVE at[i + 1] = 4 * (i + 1)
    OBVIOUS
  <2>1. i <= n /\ i + 1 \in 1..n /\ (i + 1) - 1 = i
    BY <1>0
  <2>2. at[i] = 4 * i
    BY <1>6, <2>1
  <2>3. at[i + 1] = at[i] + 4
    BY <1>2, <1>4, <2>1
  <2> QED BY <2>2, <2>3
<1>7. \A i \in 0..n : at[i] = 4 * i
  <2>1. Nat \subseteq S
    <3> HIDE DEF S
    <3> QED BY <1>5, <1>6, Climb
  <2> QED BY <1>0, <2>1
<1>8. Len(flat) = 4 * n
  <2>1. n \in 0..n
    BY <1>0
  <2> QED BY <1>4, <1>7, <2>1
<1>9. ASSUME NEW i \in 1..n PROVE SubSeq(flat, 4 * i - 3, 4 * i) = v[i]
  <2>1. i \in 0..n /\ i - 1 \in 0..n
    BY <1>0
  <2>2. at[i] = 4 * i /\ at[i - 1] = 4 * (i - 1)
    BY <1>7, <2>1
  <2>3. at[i - 1] + 1 = 4 * i - 3
    BY <1>0, <2>2
  <2> QED BY <1>4, <2>2, <2>3
<1> QED BY <1>4, <1>8, <1>9 DEF n, flat

\* The two sequences say the same as far as both go.
Agrees(x, y) == \A k \in 1..Len(x) : k <= Len(y) => x[k] = y[k]

\* What a field is encoded to is what the decoder reads, and nothing shorter.
LEMMA FieldWritten ==
  ASSUME NEW name, NEW v \in FieldType(name), Kind(name) \in {"string", "u32s"} => Len(v) <= MaxU16
  PROVE  LET b == EncodeField(name, v) IN
         /\ b \in Seq(Byte) /\ Len(b) <= MaxWidth
         /\ FieldValue(Kind(name), b) = v
         /\ \A rest \in Seq(Byte) : Agrees(b, rest) =>
               /\ Len(rest) >= Len(b) => Width(Kind(name), rest) = Len(b)
               /\ Len(rest) < Len(b) => Width(Kind(name), rest) > Len(rest)
<1> DEFINE b == EncodeField(name, v)
<1>1. CASE Kind(name) = "u8"
  <2>1. v \in 0..3 /\ b = <<v>>
    BY <1>1 DEF FieldType, EncodeField
  <2>2. v \in Byte
    BY <2>1, ByteIs
  <2>3. b \in Seq(Byte) /\ Len(b) = 1 /\ b[1] = v
    BY <2>1, <2>2
  <2> HIDE DEF b
  <2>4. FieldValue(Kind(name), b) = v
    BY <1>1, <2>3 DEF FieldValue
  <2>5. \A rest : Width(Kind(name), rest) = 1
    BY <1>1 DEF Width
  <2>6. \A rest \in Seq(Byte) : Len(rest) < 1 => 1 > Len(rest)
    OBVIOUS
  <2>7. Len(b) <= MaxWidth
    BY <2>3 DEF MaxWidth
  <2> QED BY <2>3, <2>4, <2>5, <2>6, <2>7 DEF b
<1>2. CASE Kind(name) = "u16"
  <2>1. v \in 0..MaxU16 /\ b = U16(v)
    BY <1>2 DEF FieldType, EncodeField
  <2>2. b \in Seq(Byte) /\ Len(b) = 2 /\ ReadU16(b) = v
    BY <2>1, Written16
  <2> HIDE DEF b
  <2>4. FieldValue(Kind(name), b) = v
    BY <1>2, <2>2 DEF FieldValue
  <2>5. \A rest : Width(Kind(name), rest) = 2
    BY <1>2 DEF Width
  <2>6. \A rest \in Seq(Byte) : Len(rest) < 2 => 2 > Len(rest)
    OBVIOUS
  <2>7. Len(b) <= MaxWidth
    BY <2>2 DEF MaxWidth
  <2> QED BY <2>2, <2>4, <2>5, <2>6, <2>7 DEF b
<1>3. CASE Kind(name) = "u64"
  <2>1. v \in [1..8 -> Byte] /\ b = v
    BY <1>3 DEF FieldType, EncodeField
  <2>2. b \in Seq(Byte) /\ Len(b) = 8
    <3>1. v = [i \in 1..8 |-> v[i]] /\ \A i \in 1..8 : v[i] \in Byte
      BY <2>1
    <3>2. v \in Seq(Byte) /\ Len(v) = 8
      BY <3>1, IsSequence
    <3> QED BY <2>1, <3>2
  <2>4. FieldValue(Kind(name), b) = v
    BY <1>3, <2>1 DEF FieldValue
  <2> HIDE DEF b
  <2>5. \A rest : Width(Kind(name), rest) = 8
    BY <1>3 DEF Width
  <2>6. \A rest \in Seq(Byte) : Len(rest) < 8 => 8 > Len(rest)
    OBVIOUS
  <2>7. Len(b) <= MaxWidth
    BY <2>2 DEF MaxWidth
  <2> QED BY <2>2, <2>4, <2>5, <2>6, <2>7 DEF b
<1>4. CASE Kind(name) \in {"string", "u32s"}
  <2> DEFINE n == Len(v)
             size == IF Kind(name) = "string" THEN 1 ELSE 4
             data == IF Kind(name) = "string" THEN v ELSE FlattenSeq(v)
  <2>1. b = U16(n) \o data
    BY <1>4 DEF EncodeField
  <2>2. n \in 0..MaxU16 /\ n \in Nat /\ n <= 65535
    <3>1. n \in Nat
      BY <1>4 DEF FieldType
    <3>2. n \in 0..MaxU16
      <4>1. n <= MaxU16
        BY <1>4
      <4>2. MaxU16 = 65535
        BY SMTT(10) DEF MaxU16
      <4> HIDE DEF n
      <4>3. n <= 65535
        BY <4>1, <4>2
      <4> QED BY <3>1, <4>3, Is16
    <3> HIDE DEF n
    <3> QED BY <3>2, Is16
  <2>3. data \in Seq(Byte) /\ (data = v => Len(data) = n)
    <3>1. CASE Kind(name) = "string"
      <4>1. v \in Seq(0..127)
        BY <3>1 DEF FieldType
      <4>2. 0..127 \subseteq Byte
        <5>1. \A k \in 0..127 : k \in Int /\ 0 <= k /\ k <= 255
          BY SMTT(10)
        <5> QED BY <5>1, ByteIs
      <4>3. v \in Seq(Byte)
        <5> DEFINE T == 0..127
        <5>1. v \in Seq(T) /\ T \subseteq Byte
          BY <4>1, <4>2
        <5> HIDE DEF T
        <5> QED BY <5>1
      <4> QED BY <3>1, <4>3
    <3>2. CASE Kind(name) = "u32s"
      <4>1. v \in Seq([1..4 -> Byte])
        BY <3>2 DEF FieldType
      <4>2. FlattenSeq(v) \in Seq(Byte)
        BY <4>1, LayerBytes
      <4> QED BY <3>2, <4>2
    <3> QED BY <1>4, <3>1, <3>2
  <2>4. Len(data) = n * size
    <3>1. CASE Kind(name) = "string"
      BY <2>2, <2>3, <3>1
    <3>2. CASE Kind(name) = "u32s"
      <4>1. v \in Seq([1..4 -> Byte])
        BY <3>2 DEF FieldType
      <4>2. Len(FlattenSeq(v)) = 4 * Len(v)
        BY <4>1, LayerBytes
      <4> QED BY <2>2, <3>2, <4>2
    <3> QED BY <1>4, <3>1, <3>2
  <2> HIDE DEF b, n, data
  <2>5. U16(n) \in Seq(Byte) /\ Len(U16(n)) = 2 /\ ReadU16(U16(n)) = n
    BY <2>2, Written16
  <2> DEFINE u == U16(n)
  <2>6. u \in Seq(Byte) /\ Len(u) = 2 /\ ReadU16(u) = n /\ b = u \o data
    BY <2>1, <2>5
  <2> HIDE DEF u
  <2>7. b \in Seq(Byte) /\ Len(b) = 2 + Len(data) /\ b[1] = u[1] /\ b[2] = u[2]
    <3>1. \A k \in 1..2 : (u \o data)[k] = u[k]
      BY <2>3, <2>6, Joined
    <3>2. u \o data \in Seq(Byte) /\ Len(u \o data) = 2 + Len(data)
      <4>1. u \in Seq(Byte) /\ Len(u) = 2 /\ data \in Seq(Byte)
        BY <2>3, <2>6
      <4>2. u \o data \in Seq(Byte) /\ Len(u \o data) = Len(u) + Len(data)
        BY <4>1, Joined
      <4> QED BY <4>1, <4>2, Zenon
    <3>3. 1 \in 1..2 /\ 2 \in 1..2
      OBVIOUS
    <3> QED BY <2>6, <3>1, <3>2, <3>3
  <2>8. Len(b) = 2 + n * size /\ 2 <= Len(b) /\ Len(b) <= MaxWidth
    <3>1. n * size = n \/ n * size = 4 * n
      BY <2>2
    <3>2. n * size \in Nat /\ n * size <= 262140
      BY SMTT(10), <2>2, <3>1
    <3> HIDE DEF size
    <3> QED BY <2>4, <2>7, <3>2 DEF MaxWidth
  <2>9. ReadU16(b) = n
    BY <2>6, <2>7 DEF ReadU16
  <2>10. ASSUME NEW rest \in Seq(Byte), Agrees(b, rest)
         PROVE  /\ Len(rest) >= Len(b) => Width(Kind(name), rest) = Len(b)
                /\ Len(rest) < Len(b) => Width(Kind(name), rest) > Len(rest)
    <3>1. Width(Kind(name), rest) = IF Len(rest) < 2 THEN 2 ELSE 2 + ReadU16(rest) * size
      BY <1>4 DEF Width
    <3>2. ASSUME Len(rest) >= 2 PROVE ReadU16(rest) = n
      <4>1. rest[1] = b[1] /\ rest[2] = b[2]
        BY <2>7, <2>8, <2>10, <3>2 DEF Agrees
      <4> QED BY <2>9, <4>1 DEF ReadU16
    <3> HIDE DEF size
    <3>3. CASE Len(rest) < 2
      BY <2>8, <3>1, <3>3
    <3>4. CASE Len(rest) >= 2
      <4>1. Width(Kind(name), rest) = Len(b)
        BY <2>8, <3>1, <3>2, <3>4
      <4>2. Len(b) \in Nat /\ Len(rest) \in Nat
        BY <2>7
      <4> QED BY <4>1, <4>2
    <3>5. Len(rest) \in Nat
      OBVIOUS
    <3> QED BY <3>3, <3>4, <3>5
  <2>11. SubSeq(b, 3, Len(b)) = data
    <3>1. SubSeq(u \o data, Len(u) + 1, Len(u) + Len(data)) = data
      BY <2>3, <2>6, SecondPiece
    <3>2. Len(u) + 1 = 3 /\ Len(u) + Len(data) = Len(b)
      BY <2>6, <2>7
    <3> QED BY <2>6, <3>1, <3>2
  <2>12. FieldValue(Kind(name), b) = v
    <3>1. CASE Kind(name) = "string"
      <4>1. FieldValue(Kind(name), b) = SubSeq(b, 3, Len(b))
        BY <3>1 DEF FieldValue
      <4>2. data = v
        BY <3>1 DEF data
      <4> QED BY <2>11, <4>1, <4>2
    <3>2. CASE Kind(name) = "u32s"
      <4>1. FieldValue(Kind(name), b) = [i \in 1..n |-> SubSeq(b, 4 * i - 1, 4 * i + 2)]
        BY <2>9, <3>2 DEF FieldValue
      <4>2. v \in Seq([1..4 -> Byte])
        BY <3>2 DEF FieldType
      <4>3. data = FlattenSeq(v)
        BY <3>2 DEF data
      <4>4. ASSUME NEW i \in 1..n PROVE SubSeq(b, 4 * i - 1, 4 * i + 2) = v[i]
        <5>1. SubSeq(data, 4 * i - 3, 4 * i) = v[i]
          BY <4>2, <4>3, <4>4, LayerBytes DEF n
        <5> DEFINE m == Len(b)
                   x == 4 * i - 4
                   y == 4 * i
        <5>2. /\ m \in Nat /\ m = 2 + 4 * n /\ 2 <= m
              /\ x \in Nat /\ y \in Nat /\ x <= y /\ y <= m - 2
          BY <2>2, <2>8, <3>2
        <5>3. x + 1 = 4 * i - 3 /\ 2 + x + 1 = 4 * i - 1 /\ 2 + y = 4 * i + 2 /\ 2 + 1 = 3
          BY <2>2
        <5>4. m <= Len(b) /\ data = SubSeq(b, 3, m)
          BY <2>11, <5>2
        <5> HIDE DEF m, x, y
        <5>5. SubSeq(SubSeq(b, 2 + 1, m), x + 1, y) = SubSeq(b, 2 + x + 1, 2 + y)
          BY <2>7, <5>2, <5>4, PieceOfPiece
        <5>6. SubSeq(data, x + 1, y) = SubSeq(b, 2 + x + 1, 2 + y)
          BY <5>3, <5>4, <5>5
        <5> QED BY <5>1, <5>3, <5>6 DEF y
      <4>5. v = [i \in 1..n |-> v[i]]
        BY <4>2 DEF n
      <4>6. [i \in 1..n |-> SubSeq(b, 4 * i - 1, 4 * i + 2)] = [i \in 1..n |-> v[i]]
        BY <4>4
      <4> QED BY <4>1, <4>5, <4>6
    <3> QED BY <1>4, <3>1, <3>2
  <2> QED BY <2>7, <2>8, <2>10, <2>12 DEF b
<1> QED BY <1>1, <1>2, <1>3, <1>4, Kinds

\* A header that can be written.
Writable(magic, h) ==
    /\ DOMAIN h = Range(Written[magic])
    /\ \A name \in DOMAIN h : h[name] \in FieldType(name)
    /\ ~TooLong(h)

\* A body is its fields in order.
LEMMA BodyPieces ==
  ASSUME NEW magic \in Magic, NEW h, Writable(magic, h)
  PROVE  LET body == Body(magic, h)
             names == Written[magic]
         IN
         /\ body \in Seq(Byte) /\ Len(body) <= 8 * MaxWidth
         /\ \E at : /\ at[0] = 0 /\ at[Len(names)] = Len(body)
                    /\ \A i \in 0..Len(names) : at[i] \in Nat
                    /\ \A i \in 1..Len(names) :
                          /\ at[i] = at[i - 1] + Len(EncodeField(names[i], h[names[i]]))
                          /\ at[i] <= Len(body)
                          /\ SubSeq(body, at[i - 1] + 1, at[i]) = EncodeField(names[i], h[names[i]])
<1> DEFINE names == Written[magic]
           n == Len(names)
           seqs == [i \in DOMAIN names |-> EncodeField(names[i], h[names[i]])]
           body == Body(magic, h)
<1>1. n \in 5..8 /\ DOMAIN names = 1..n
  BY Orders
<1>2. \A i \in 1..n : names[i] \in DOMAIN h
  BY <1>1 DEF Writable, Range
<1>3. body = FlattenSeq(seqs)
  BY DEF Body
<1>4. ASSUME NEW i \in 1..n PROVE seqs[i] \in Seq(Byte) /\ Len(seqs[i]) <= MaxWidth
  <2> DEFINE name == names[i]
             v == h[name]
  <2>1. name \in DOMAIN h /\ v \in FieldType(name)
    BY <1>2 DEF Writable
  <2>2. Kind(name) \in {"string", "u32s"} => Len(v) <= MaxU16
    <3>1. ASSUME Kind(name) \in {"string", "u32s"} PROVE ~(Len(v) > MaxU16)
      BY <2>1, <3>1 DEF Writable, TooLong
    <3>2. ASSUME Kind(name) \in {"string", "u32s"} PROVE Len(v) \in Nat
      <4>1. v \in Seq(0..127) \/ v \in Seq([1..4 -> Byte])
        BY <2>1, <3>2 DEF FieldType
      <4> HIDE DEF v
      <4> QED BY <4>1
    <3>3. MaxU16 = 65535
      BY SMTT(10) DEF MaxU16
    <3> HIDE DEF v, name
    <3> QED BY <3>1, <3>2, <3>3
  <2>3. seqs[i] = EncodeField(name, v)
    BY <1>1
  <2> HIDE DEF name, v, seqs
  <2>4. EncodeField(name, v) \in Seq(Byte) /\ Len(EncodeField(name, v)) <= MaxWidth
    BY <2>1, <2>2, FieldWritten
  <2> QED BY <2>3, <2>4
<1>5. seqs \in Seq(Seq(Byte)) /\ Len(seqs) = n
  <2>1. seqs = [i \in 1..n |-> seqs[i]]
    BY <1>1
  <2> HIDE DEF seqs, n
  <2>2. n \in Nat
    BY <1>1
  <2> QED BY <1>4, <2>1, <2>2, IsSequence
<1>6. \A i \in 1..n : seqs[i] = EncodeField(names[i], h[names[i]])
  BY <1>1
<1> HIDE DEF seqs, n, body
<1>7. PICK at : /\ body \in Seq(Byte)
                /\ at[0] = 0 /\ at[n] = Len(body)
                /\ \A i \in 0..n : at[i] \in Nat
                /\ \A i \in 1..n : /\ at[i] = at[i - 1] + Len(seqs[i])
                                   /\ at[i] <= Len(body)
                                   /\ SubSeq(body, at[i - 1] + 1, at[i]) = seqs[i]
  BY <1>3, <1>5, FlattenedPieces
<1>8. Len(body) <= 8 * MaxWidth
  <2> DEFINE S == {i \in Nat : i <= n => at[i] <= i * MaxWidth}
  <2>1. 0 \in S
    <3>1. 0 <= 0 * MaxWidth
      BY SMTT(10) DEF MaxWidth
    <3> QED BY <1>7, <3>1
  <2>2. ASSUME NEW i \in Nat, i \in S PROVE i + 1 \in S
    <3> SUFFICES ASSUME i + 1 <= n PROVE at[i + 1] <= (i + 1) * MaxWidth
      OBVIOUS
    <3>1. i <= n /\ i + 1 \in 1..n /\ (i + 1) - 1 = i /\ i \in 0..n /\ i + 1 \in 0..n
      BY <1>1
    <3>2. at[i] <= i * MaxWidth /\ at[i] \in Nat /\ at[i + 1] \in Nat
      BY <1>7, <2>2, <3>1
    <3>3. at[i + 1] = at[i] + Len(seqs[i + 1]) /\ Len(seqs[i + 1]) <= MaxWidth
      BY <1>4, <1>7, <3>1
    <3>4. Len(seqs[i + 1]) \in Nat
      BY <1>4, <3>1
    <3> DEFINE x == at[i]
               y == at[i + 1]
               l == Len(seqs[i + 1])
    <3>5. x \in Nat /\ y \in Nat /\ l \in Nat /\ x <= i * MaxWidth /\ y = x + l /\ l <= MaxWidth
      BY <3>2, <3>3, <3>4
    <3> HIDE DEF x, y, l
    <3>6. y <= (i + 1) * MaxWidth
      BY SMTT(10), <3>5 DEF MaxWidth
    <3> QED BY <3>6 DEF y
  <2>3. Nat \subseteq S
    <3> HIDE DEF S
    <3> QED BY <2>1, <2>2, Climb
  <2>4. at[n] <= n * MaxWidth
    BY <1>1, <2>3
  <2>5. Len(body) <= n * MaxWidth /\ Len(body) \in Nat
    BY <1>7, <2>4
  <2> DEFINE l == Len(body)
  <2>6. l \in Nat /\ l <= n * MaxWidth
    BY <2>5
  <2> HIDE DEF l
  <2>7. l <= 8 * MaxWidth
    BY SMTT(10), <1>1, <2>6 DEF MaxWidth
  <2> QED BY <2>7 DEF l
<1>9. \A i \in 1..n : /\ at[i] = at[i - 1] + Len(EncodeField(names[i], h[names[i]]))
                      /\ at[i] <= Len(body)
                      /\ SubSeq(body, at[i - 1] + 1, at[i]) = EncodeField(names[i], h[names[i]])
  BY <1>6, <1>7
<1> QED BY <1>7, <1>8, <1>9 DEF body, n

\* The recursion of the checksum.
LEMMA Checksums ==
  ASSUME NEW body, Len(body) \in Nat
  PROVE  \E c : /\ c[0] = 1
                /\ \A i \in 1..Len(body) : c[i] = (c[i - 1] * 256 + body[i]) % Modulus
                /\ Crc32c(body) = U32(c[Len(body)])
<1> DEFINE next(x, i) == (x * 256 + body[i]) % Modulus
           step(f, n) == [i \in 0..n |-> IF i = 0 THEN 1 ELSE next(f[i - 1], i)]
           S == {n \in Nat : \E f : f = step(f, n)}
<1> DEFINE c == CHOOSE f : f = [i \in 0..Len(body) |->
                                  IF i = 0 THEN 1 ELSE (f[i - 1] * 256 + body[i]) % Modulus]
<1>1. c = CHOOSE f : f = step(f, Len(body))
  BY Zenon
<1>2. Crc32c(body) = U32(c[Len(body)])
  BY Zenon DEF Crc32c
<1> HIDE DEF c, next
<1>3. 0 \in S
  <2>1. [i \in 0..0 |-> 1] = step([i \in 0..0 |-> 1], 0)
    OBVIOUS
  <2> QED BY <2>1
<1>4. ASSUME NEW n \in Nat, n \in S PROVE n + 1 \in S
  <2>1. PICK f : f = step(f, n)
    BY <1>4
  <2> DEFINE g == [i \in 0..(n + 1) |-> IF i = n + 1 THEN next(f[n], i) ELSE f[i]]
  <2>2. \A i \in 0..n : f[i] = IF i = 0 THEN 1 ELSE next(f[i - 1], i)
    BY <2>1
  <2> HIDE DEF step
  <2>3. \A i \in 0..(n + 1) : g[i] = IF i = 0 THEN 1 ELSE next(g[i - 1], i)
    <3> SUFFICES ASSUME NEW i \in 0..(n + 1) PROVE g[i] = IF i = 0 THEN 1 ELSE next(g[i - 1], i)
      OBVIOUS
    <3>1. CASE i = n + 1
      <4>1. g[i - 1] = f[n] /\ i # 0
        BY <3>1
      <4> QED BY <3>1, <4>1
    <3>2. CASE i # n + 1
      <4>1. i \in 0..n /\ g[i] = f[i] /\ (i # 0 => g[i - 1] = f[i - 1])
        BY <3>2
      <4> QED BY <2>2, <4>1
    <3> QED BY <3>1, <3>2
  <2>4. g = step(g, n + 1)
    <3> HIDE DEF g
    <3>1. g = [i \in 0..(n + 1) |-> g[i]]
      BY DEF g
    <3> QED BY <2>3, <3>1 DEF step
  <2> HIDE DEF g
  <2> QED BY <2>4
<1>5. Len(body) \in S
  <2> HIDE DEF S
  <2> QED BY <1>3, <1>4, Climb
<1>6. c = step(c, Len(body))
  <2> HIDE DEF step
  <2>1. \E f : f = step(f, Len(body))
    BY <1>5
  <2> QED BY <1>1, <2>1
<1>7. \A i \in 0..Len(body) : c[i] = IF i = 0 THEN 1 ELSE next(c[i - 1], i)
  BY <1>6
<1>8. c[0] = 1 /\ \A i \in 1..Len(body) : c[i] = next(c[i - 1], i)
  BY <1>7
<1>9. \A i \in 1..Len(body) : c[i] = (c[i - 1] * 256 + body[i]) % Modulus
  BY <1>8, Zenon DEF next
<1> QED BY <1>2, <1>8, <1>9

\* Every checksum on the way is below the modulus.
LEMMA ChecksumRange ==
  ASSUME NEW body \in Seq(Byte), NEW c, c[0] = 1,
         \A i \in 1..Len(body) : c[i] = (c[i - 1] * 256 + body[i]) % Modulus
  PROVE  \A i \in 0..Len(body) : c[i] \in Nat /\ c[i] < Modulus
<1> DEFINE S == {i \in Nat : i <= Len(body) => c[i] \in Nat /\ c[i] < Modulus}
<1>0. Modulus \in Nat /\ Modulus > 0
  BY SMTT(10) DEF Modulus
<1>1. 0 \in S
  BY SMTT(10) DEF Modulus
<1>2. ASSUME NEW i \in Nat, i \in S PROVE i + 1 \in S
  <2> SUFFICES ASSUME i + 1 <= Len(body) PROVE c[i + 1] \in Nat /\ c[i + 1] < Modulus
    OBVIOUS
  <2>1. i <= Len(body) /\ i + 1 \in 1..Len(body) /\ (i + 1) - 1 = i
    OBVIOUS
  <2> DEFINE x == c[i]
             y == body[i + 1]
  <2>2. x \in Nat
    BY <1>2, <2>1
  <2>3. y \in Nat
    <3>1. y \in Byte
      BY <2>1
    <3> HIDE DEF y
    <3> QED BY <3>1, ByteIs
  <2>4. c[i + 1] = (x * 256 + y) % Modulus
    BY <2>1
  <2> HIDE DEF x, y
  <2>5. (x * 256 + y) % Modulus \in Nat /\ (x * 256 + y) % Modulus < Modulus
    BY SMTT(10), <2>2, <2>3 DEF Modulus
  <2> QED BY <2>4, <2>5, Zenon
<1>3. Nat \subseteq S
  <2> HIDE DEF S
  <2> QED BY <1>1, <1>2, Climb
<1>4. Len(body) \in Nat
  OBVIOUS
<1> QED BY SMTT(10), <1>3, <1>4

LEMMA ChecksumBytes ==
  ASSUME NEW body \in Seq(Byte)
  PROVE  Crc32c(body) \in Seq(Byte) /\ Len(Crc32c(body)) = 4
<1>1. Len(body) \in Nat
  OBVIOUS
<1>2. PICK c : /\ c[0] = 1
               /\ \A i \in 1..Len(body) : c[i] = (c[i - 1] * 256 + body[i]) % Modulus
               /\ Crc32c(body) = U32(c[Len(body)])
  BY <1>1, Checksums, Zenon
<1>3. \A i \in 0..Len(body) : c[i] \in Nat /\ c[i] < Modulus
  BY <1>2, ChecksumRange, Zenon
<1> DEFINE x == c[Len(body)]
<1>4. x \in Nat /\ x < Modulus
  <2>1. Len(body) \in 0..Len(body)
    BY <1>1
  <2> QED BY <1>3, <2>1, Zenon
<1> HIDE DEF x
<1>5. x < 16777216
  BY SMTT(10), <1>4 DEF Modulus
<1>6. U32(x) \in Seq(Byte) /\ Len(U32(x)) = 4
  BY SMTT(10), <1>4, <1>5, Written32
<1>7. Crc32c(body) = U32(x)
  BY <1>2, Zenon DEF x
<1> QED BY <1>6, <1>7

\* A body with its prefix; and the file it is put in.
LEMMA SealedBytes ==
  ASSUME NEW body \in Seq(Byte), Len(body) <= 8 * MaxWidth + 1
  PROVE  Sealed(body) \in Seq(Byte) /\ Len(Sealed(body)) = 8 + Len(body)
<1> DEFINE n == Len(body)
<1>0. n \in Nat /\ n <= 8 * MaxWidth + 1
  OBVIOUS
<1> HIDE DEF n
<1>1. n \in Nat /\ n < 16777216
  BY SMTT(10), <1>0 DEF MaxWidth
<1>2. U32(n) \in Seq(Byte) /\ Len(U32(n)) = 4
  BY SMTT(10), <1>1, Written32
<1>3. Crc32c(body) \in Seq(Byte) /\ Len(Crc32c(body)) = 4
  BY ChecksumBytes
<1> DEFINE u == U32(n)
           c == Crc32c(body)
<1>4. Sealed(body) = (u \o c) \o body
  BY DEF Sealed, n
<1> HIDE DEF u, c
<1>5. u \o c \in Seq(Byte) /\ Len(u \o c) = 8
  <2>1. u \in Seq(Byte) /\ Len(u) = 4 /\ c \in Seq(Byte) /\ Len(c) = 4
    BY <1>2, <1>3 DEF u, c
  <2>2. u \o c \in Seq(Byte) /\ Len(u \o c) = Len(u) + Len(c)
    BY <2>1, Joined
  <2> QED BY <2>1, <2>2
<1>6. (u \o c) \o body \in Seq(Byte) /\ Len((u \o c) \o body) = Len(u \o c) + Len(body)
  BY <1>5, Joined
<1> QED BY <1>4, <1>5, <1>6

LEMMA FileBytes ==
  ASSUME NEW magic \in Magic, NEW payload \in Seq(Byte)
  PROVE  Enveloped(magic, payload) \in Seq(Byte) /\ Len(Enveloped(magic, payload)) = 6 + Len(payload)
<1> DEFINE x == MagicBytes[magic] \o <<EnvelopeVersion, EnvelopeFlags>>
<1>1. x \in Seq(Byte) /\ Len(x) = 6
  <2>1. \E a, b, c, d \in Byte : MagicBytes[magic] = <<a, b, c, d>>
    <3>1. /\ 86 \in Byte /\ 73 \in Byte /\ 75 \in Byte /\ 89 \in Byte
          /\ 82 \in Byte /\ 67 \in Byte /\ 65 \in Byte /\ 85 \in Byte
      BY SMTT(10), ByteIs
    <3> QED BY <3>1 DEF Magic, MagicBytes
  <2>2. MagicBytes[magic] \in Seq(Byte) /\ Len(MagicBytes[magic]) = 4
    BY <2>1
  <2>3. EnvelopeVersion \in Byte /\ EnvelopeFlags \in Byte
    BY SMTT(10), ByteIs DEF EnvelopeVersion, EnvelopeFlags
  <2> DEFINE a == MagicBytes[magic]
             b == <<EnvelopeVersion, EnvelopeFlags>>
  <2>4. a \in Seq(Byte) /\ Len(a) = 4 /\ b \in Seq(Byte) /\ Len(b) = 2
    BY <2>2, <2>3
  <2> HIDE DEF a, b
  <2>5. a \o b \in Seq(Byte) /\ Len(a \o b) = Len(a) + Len(b)
    BY <2>4, Joined
  <2>6. a \o b \in Seq(Byte) /\ Len(a \o b) = 6
    BY <2>4, <2>5
  <2> QED BY <2>6 DEF a, b
<1>2. Enveloped(magic, payload) = x \o payload
  BY DEF Enveloped
<1> HIDE DEF x
<1>3. x \o payload \in Seq(Byte) /\ Len(x \o payload) = Len(x) + Len(payload)
  BY <1>1, Joined
<1> QED BY <1>1, <1>2, <1>3

LEMMA ArtifactHeader ==
  ASSUME NEW a \in Artifact, EncodeResult(a.header) = "ok"
  PROVE  /\ a.magic \in Magic /\ Writable(a.magic, a.header) /\ a.opaque \in Seq(Byte)
         /\ a.header = [name \in DOMAIN a.header |-> a.header[name]]
         /\ a.header["schema_version"] = SchemaVersion
<1>1. ~TooLong(a.header) /\ a.header.schema_version = SchemaVersion
  BY DEF EncodeResult
<1> DEFINE h == a.header
           D == Range(Written[a.magic])
<1>2. /\ a.magic \in Magic /\ a.opaque \in Seq(Byte)
      /\ h = [name \in D |-> h[name]]
      /\ \A name \in DOMAIN h : h[name] \in FieldType(name)
  BY DeliveryConstants
<1>3. DOMAIN h = D /\ h = [name \in DOMAIN h |-> h[name]]
  <2> HIDE DEF h, D
  <2> QED BY <1>2
<1> QED BY <1>1, <1>2, <1>3 DEF Writable

\* Every file that can be made of an artifact is made of bytes.
LEMMA FilesAreBytes ==
  ASSUME NEW a \in Artifact, EncodeResult(a.header) = "ok", NEW bytes \in Files(a)
  PROVE  bytes \in Seq(Byte)
<1> DEFINE body == Body(a.magic, a.header)
<1>1. a.magic \in Magic /\ Writable(a.magic, a.header) /\ a.opaque \in Seq(Byte)
  BY ArtifactHeader
<1>2. body \in Seq(Byte) /\ Len(body) <= 8 * MaxWidth
  BY <1>1, BodyPieces
<1>3. PICK b \in {body} \cup ForeignBodies(body) :
          bytes = Enveloped(a.magic, Sealed(b) \o a.opaque)
  BY DEF Files
<1> HIDE DEF body
<1>4. b \in Seq(Byte) /\ Len(b) <= 8 * MaxWidth + 1
  <2>0. Len(body) \in Nat /\ 8 * MaxWidth \in Nat
    <3>1. 8 * MaxWidth \in Nat
      BY SMTT(10) DEF MaxWidth
    <3> QED BY <1>2, <3>1
  <2> DEFINE top == 8 * MaxWidth
  <2>1. Len(body) <= top /\ top \in Nat /\ FlipValue \subseteq Byte
    BY <1>2, <2>0, DeliveryConstants
  <2> HIDE DEF top
  <2>2. CASE b = body
    BY <1>2, <2>0, <2>1, <2>2 DEF top
  <2>3. CASE \E i \in DOMAIN body, v \in FlipValue : b = [body EXCEPT ![i] = v]
    <3>1. b \in Seq(Byte) /\ Len(b) = Len(body)
      BY <1>2, <2>1, <2>3
    <3> QED BY <2>0, <2>1, <3>1 DEF top
  <2>4. CASE \E n \in 0..(Len(body) - 1) : b = SubSeq(body, 1, n)
    <3>1. PICK n \in 0..(Len(body) - 1) : b = SubSeq(body, 1, n)
      BY <2>4
    <3>2. n \in Nat /\ n <= Len(body) /\ 0 <= n /\ n - 0 = n /\ 0 + 1 = 1
      BY <2>0
    <3>3. SubSeq(body, 0 + 1, n) \in Seq(Byte) /\ Len(SubSeq(body, 0 + 1, n)) = n - 0
      BY <1>2, <3>2, Piece
    <3>4. b \in Seq(Byte) /\ Len(b) = n
      BY <3>1, <3>2, <3>3
    <3> QED BY <2>0, <2>1, <3>2, <3>4 DEF top
  <2>5. CASE \E v \in FlipValue : b = Append(body, v)
    <3>1. b \in Seq(Byte) /\ Len(b) = Len(body) + 1
      BY <1>2, <2>1, <2>5
    <3> QED BY <2>0, <2>1, <3>1 DEF top
  <2> QED BY <2>2, <2>3, <2>4, <2>5 DEF ForeignBodies
<1>5. Sealed(b) \in Seq(Byte)
  BY <1>4, SealedBytes
<1>6. Sealed(b) \o a.opaque \in Seq(Byte)
  BY <1>1, <1>5, Joined
<1> QED BY <1>1, <1>3, <1>6, FileBytes

-----------------------------------------------------------------------------
\* Finding one sequence in another.

LEMMA LeastNat ==
  ASSUME NEW S, S \subseteq Nat, S # {}
  PROVE  \E x \in S : \A y \in S : x <= y
<1> SUFFICES ASSUME \A x \in S : \E y \in S : ~(x <= y) PROVE FALSE
  OBVIOUS
<1> DEFINE T == {n \in Nat : \A y \in S : n <= y}
<1>1. 0 \in T
  OBVIOUS
<1>2. ASSUME NEW n \in Nat, n \in T PROVE n + 1 \in T
  <2>1. n \notin S
    BY <1>2
  <2>2. ASSUME NEW y \in S PROVE n + 1 <= y
    <3>1. n <= y /\ y # n /\ y \in Nat
      BY <1>2, <2>1
    <3> QED BY <3>1
  <2> QED BY <2>2
<1>3. Nat \subseteq T
  <2> HIDE DEF T
  <2> QED BY <1>1, <1>2, Climb
<1>4. PICK y \in S : TRUE
  OBVIOUS
<1>5. y + 1 \in T /\ y \in Nat
  BY <1>3
<1>6. y + 1 <= y
  BY <1>5
<1> QED BY <1>5, <1>6

LEMMA MinIs ==
  ASSUME NEW S, S \subseteq Nat, S # {}
  PROVE  Min(S) \in S /\ \A y \in S : Min(S) <= y
  BY LeastNat DEF Min

\* What Get returns is the needle when it occurs, and only then.
LEMMA Occurs ==
  ASSUME NEW T, NEW s \in Seq(T), NEW U, NEW needle \in Seq(U), needle # <<>>, NEW i \in Nat
  PROVE  Get(s, i, Len(needle)) = needle
         <=> /\ i + Len(needle) <= Len(s)
             /\ \A k \in 1..Len(needle) : s[i + k] = needle[k]
<1> DEFINE n == Len(needle)
           p == SubSeq(s, i + 1, i + n)
<1>0. n \in Nat /\ Len(s) \in Nat /\ i + n \in Nat
  OBVIOUS
<1>1. CASE i + n > Len(s)
  <2>1. Get(s, i, n) = <<>>
    BY <1>1 DEF Get
  <2>2. ~(i + n <= Len(s))
    BY <1>0, <1>1
  <2> QED BY <2>1, <2>2
<1>2. CASE ~(i + n > Len(s))
  <2>1. Get(s, i, n) = p
    BY <1>2 DEF Get
  <2>2. needle = [k \in 1..n |-> needle[k]]
    OBVIOUS
  <2> HIDE DEF n
  <2>3. i <= i + n /\ i + n <= Len(s) /\ (i + n) - i = n
    BY <1>0, <1>2
  <2> DEFINE j == i + n
  <2>4. j \in Nat /\ i <= j /\ j <= Len(s) /\ j - i = n
    BY <1>0, <2>3
  <2> HIDE DEF j
  <2>5. /\ SubSeq(s, i + 1, j) \in Seq(T) /\ Len(SubSeq(s, i + 1, j)) = j - i
        /\ \A k \in 1..(j - i) : SubSeq(s, i + 1, j)[k] = s[i + k]
    BY <2>4, Piece
  <2>6. p \in Seq(T) /\ Len(p) = n /\ \A k \in 1..n : p[k] = s[i + k]
    BY <2>4, <2>5 DEF j
  <2> HIDE DEF p
  <2>7. p = [k \in 1..n |-> p[k]]
    BY <2>6
  <2>8. p = needle <=> \A k \in 1..n : p[k] = needle[k]
    <3>1. ASSUME \A k \in 1..n : p[k] = needle[k] PROVE p = needle
      <4>1. [k \in 1..n |-> p[k]] = [k \in 1..n |-> needle[k]]
        BY <3>1
      <4> QED BY <2>2, <2>7, <4>1, Zenon
    <3> QED BY <3>1
  <2> QED BY <2>1, <2>3, <2>6, <2>8 DEF n
<1> QED BY <1>1, <1>2

OccursAt(s, needle, i) ==
    i \in Nat /\ i + Len(needle) <= Len(s) /\ Get(s, i, Len(needle)) = needle

LEMMA Subslice ==
  ASSUME NEW T, NEW s \in Seq(T), NEW U, NEW needle \in Seq(U)
  PROVE  LET m == FindSubslice(s, needle) IN
         /\ m = NotFound => \A i : ~OccursAt(s, needle, i)
         /\ m # NotFound => OccursAt(s, needle, m) /\ \A i : OccursAt(s, needle, i) => m <= i
<1> DEFINE n == Len(needle)
           at == {i \in 0..(Len(s) - n) : Get(s, i, n) = needle}
           m == FindSubslice(s, needle)
<1>1. n \in Nat /\ Len(s) \in Nat
  OBVIOUS
<1>2. m = IF at = {} THEN NotFound ELSE Min(at)
  BY DEF FindSubslice
<1> HIDE DEF m
<1>3. \A i : i \in at <=> OccursAt(s, needle, i)
  <2> HIDE DEF n
  <2> QED BY <1>1 DEF OccursAt, n
<1>4. at \subseteq Nat
  BY <1>1
<1> HIDE DEF at
<1>5. NotFound \notin Nat
  BY DEF NotFound
<1>6. CASE at = {}
  BY <1>2, <1>3, <1>6 DEF m
<1>7. CASE at # {}
  <2>1. m \in at /\ \A y \in at : m <= y
    BY <1>2, <1>4, <1>7, MinIs
  <2>2. m # NotFound
    BY <1>4, <1>5, <2>1
  <2> QED BY <1>3, <2>1, <2>2 DEF m
<1> QED BY <1>6, <1>7

-----------------------------------------------------------------------------
\* The receipt in an answer.

Marker == CRLF \o Dashes

LEMMA MarkerIs == Marker \in Seq(Byte) /\ Marker # <<>> /\ Len(Marker) = 4
                  /\ Marker[1] = 13 /\ Marker[2] = 10 /\ Marker[3] = 45 /\ Marker[4] = 45
<1>1. 13 \in Byte /\ 10 \in Byte /\ 45 \in Byte
  BY ByteIs
<1>2. /\ CRLF \in Seq(Byte) /\ Len(CRLF) = 2 /\ CRLF[1] = 13 /\ CRLF[2] = 10
      /\ Dashes \in Seq(Byte) /\ Len(Dashes) = 2 /\ Dashes[1] = 45 /\ Dashes[2] = 45
  BY <1>1 DEF CRLF, Dashes
<1>3. /\ Marker \in Seq(Byte) /\ Len(Marker) = Len(CRLF) + Len(Dashes)
      /\ \A k \in 1..Len(CRLF) : Marker[k] = CRLF[k]
      /\ \A k \in 1..Len(Dashes) : Marker[Len(CRLF) + k] = Dashes[k]
  <2>1. /\ CRLF \o Dashes \in Seq(Byte) /\ Len(CRLF \o Dashes) = Len(CRLF) + Len(Dashes)
        /\ \A k \in 1..Len(CRLF) : (CRLF \o Dashes)[k] = CRLF[k]
        /\ \A k \in 1..Len(Dashes) : (CRLF \o Dashes)[Len(CRLF) + k] = Dashes[k]
    <3>1. CRLF \in Seq(Byte) /\ Dashes \in Seq(Byte)
      BY <1>2
    <3> QED BY <3>1, Joined
  <2> QED BY <2>1 DEF Marker
<1>4. /\ Marker \in Seq(Byte) /\ Len(Marker) = 4
      /\ \A k \in 1..2 : Marker[k] = CRLF[k]
      /\ \A k \in 1..2 : Marker[2 + k] = Dashes[k]
  BY <1>2, <1>3
<1>5. Marker[1] = 13 /\ Marker[2] = 10 /\ Marker[3] = 45 /\ Marker[4] = 45
  <2>1. 1 \in 1..2 /\ 2 \in 1..2 /\ 2 + 1 = 3 /\ 2 + 2 = 4
    OBVIOUS
  <2> QED BY <1>2, <1>4, <2>1
<1> QED BY <1>4, <1>5

\* rest is what follows the header of the receipt s: the receipt, a delimiter, and more.
\* All of it can be cut, and byte j of it can be damaged.
Follows(rest, s, boundary, j) ==
    /\ \A k \in 1..Len(rest) : k <= Len(s) => rest[k] = s[k] \/ (k = j /\ rest[k] \in Damage)
    /\ \A k \in 1..Len(rest) : k > Len(s) /\ k <= Len(s) + 4 => rest[k] \in Damage
    /\ \/ Len(rest) >= Len(s) + 4 => \A k \in 1..4 : rest[Len(s) + k] = Marker[k]
       \/ \A k \in 1..Len(rest) : k > Len(s) + 4 + Len(boundary) => rest[k] \in Damage

LEMMA InWindow ==
  ASSUME NEW m \in Nat, NEW n \in Nat, NEW l \in Nat, m + 4 + n <= l
  PROVE  /\ \A k \in m + 5..m + 4 + n : k - (m + 4) \in 1..n /\ m + 4 + (k - (m + 4)) = k /\ k \in 1..l
         /\ \A k \in 1..n : m + 4 + k \in m + 5..m + 4 + n /\ m + 4 + k <= l
  OBVIOUS

\* The delimiter the parser finds is the one behind the receipt.
LEMMA DelimiterFound ==
  ASSUME NEW s \in Seq(Byte), NEW boundary \in Seq(Byte \ Damage), boundary # <<>>,
         FindSubslice(s, boundary) = NotFound,
         NEW rest \in Seq(Nat), NEW j, Follows(rest, s, boundary, j),
         NEW m, m = FindSubslice(rest, Marker), m # NotFound,
         Get(rest, m + 4, Len(boundary)) = boundary
  PROVE  m = Len(s) /\ m + 4 <= Len(rest)
<1> DEFINE L == Len(s)
           n == Len(boundary)
<1>0. L \in Nat /\ n \in Nat /\ n > 0 /\ Len(rest) \in Nat
  OBVIOUS
<1>1. /\ m \in Nat /\ m + 4 <= Len(rest) /\ Get(rest, m, 4) = Marker
      /\ \A i : i \in Nat /\ i + 4 <= Len(rest) /\ Get(rest, i, 4) = Marker => m <= i
  <2>1. OccursAt(rest, Marker, m) /\ \A i : OccursAt(rest, Marker, i) => m <= i
    BY Subslice, MarkerIs
  <2> QED BY <2>1, MarkerIs, Zenon DEF OccursAt
<1>2. m + 4 + n <= Len(rest) /\ \A k \in 1..n : rest[m + 4 + k] = boundary[k]
  <2> DEFINE i == m + 4
  <2>1. i \in Nat
    BY <1>1
  <2> HIDE DEF i
  <2>2. i + Len(boundary) <= Len(rest) /\ \A k \in 1..Len(boundary) : rest[i + k] = boundary[k]
    <3>1. Get(rest, i, Len(boundary)) = boundary
      BY DEF i
    <3> QED BY <2>1, <3>1, Occurs
  <2> QED BY <2>2 DEF i
<1>3. \A k \in 1..n : boundary[k] \notin Damage
  OBVIOUS
<1>4. \A k \in m + 5..m + 4 + n : rest[k] \notin Damage /\ k \in 1..Len(rest)
  <2> SUFFICES ASSUME NEW k \in m + 5..m + 4 + n PROVE rest[k] \notin Damage /\ k \in 1..Len(rest)
    OBVIOUS
  <2> DEFINE q == k - (m + 4)
             l == Len(rest)
  <2>0. l \in Nat /\ n \in Nat /\ m \in Nat /\ m + 4 + n <= l
    BY <1>0, <1>1, <1>2
  <2> HIDE DEF n, l
  <2>1. q \in 1..n /\ m + 4 + q = k /\ k \in 1..l
    BY <2>0, InWindow, SMTT(30)
  <2> USE DEF l
  <2> HIDE DEF q
  <2> QED BY <1>2, <1>3, <2>1
<1> HIDE DEF L, n
<1>5. /\ \A k \in 1..Len(rest) : k <= L => rest[k] = s[k] \/ rest[k] \in Damage
      /\ \A k \in 1..Len(rest) : k > L /\ k <= L + 4 => rest[k] \in Damage
      /\ \/ Len(rest) >= L + 4 => \A k \in 1..4 : rest[L + k] = Marker[k]
         \/ \A k \in 1..Len(rest) : k > L + 4 + n => rest[k] \in Damage
  BY DEF Follows, L, n
<1>6. ~(m < L)
  <2> SUFFICES ASSUME m < L PROVE FALSE
    OBVIOUS
  <2>1. CASE m + 4 + n <= L
    <3>1. ASSUME NEW k \in 1..n PROVE s[(m + 4) + k] = boundary[k]
      <4> DEFINE q == m + 4 + k
      <4>1. q \in m + 5..m + 4 + n /\ q <= L
        <5>1. m \in Nat /\ L \in Nat /\ n \in Nat
          BY <1>0, <1>1
        <5> HIDE DEF L, n
        <5> QED BY <2>1, <5>1, InWindow
      <4>2. rest[q] = s[q]
        BY <1>4, <1>5, <4>1
      <4> QED BY <1>2, <4>2
    <3> DEFINE i == m + 4
    <3>2. i \in Nat /\ i + Len(boundary) <= Len(s) /\ \A k \in 1..Len(boundary) : s[i + k] = boundary[k]
      BY <1>1, <2>1, <3>1 DEF L, n
    <3> HIDE DEF i
    <3>3. Get(s, i, Len(boundary)) = boundary
      BY <3>2, Occurs
    <3>4. OccursAt(s, boundary, i)
      BY <3>2, <3>3 DEF OccursAt
    <3> QED BY <3>4, Subslice
  <2>2. CASE ~(m + 4 + n <= L)
    <3> DEFINE q == IF m + 5 > L THEN m + 5 ELSE L + 1
    <3>0. L \in Nat /\ n \in Nat /\ n > 0 /\ m \in Nat /\ m < L
      BY <1>0, <1>1
    <3> HIDE DEF L, n
    <3>1. q \in m + 5..m + 4 + n /\ q > L /\ q <= L + 4
      BY <2>2, <3>0
    <3> HIDE DEF q
    <3> QED BY <1>4, <1>5, <3>1
  <2> QED BY <2>1, <2>2
<1>7. ~(m > L)
  <2> SUFFICES ASSUME m > L PROVE FALSE
    OBVIOUS
  <2>1. CASE Len(rest) >= L + 4 => \A k \in 1..4 : rest[L + k] = Marker[k]
    <3>1. L + 4 <= Len(rest) /\ \A k \in 1..4 : rest[L + k] = Marker[k]
      BY <1>0, <1>1, <2>1
    <3>2. Get(rest, L, Len(Marker)) = Marker
      BY <1>0, <3>1, Occurs, MarkerIs
    <3>3. m <= L
      BY <1>0, <1>1, <3>1, <3>2, MarkerIs
    <3> QED BY <1>0, <1>1, <3>3
  <2>2. CASE \A k \in 1..Len(rest) : k > L + 4 + n => rest[k] \in Damage
    <3> DEFINE q == m + 4 + n
    <3>0. L \in Nat /\ n \in Nat /\ n > 0 /\ m \in Nat
      BY <1>0, <1>1
    <3> HIDE DEF L, n
    <3>1. q \in m + 5..m + 4 + n /\ q > L + 4 + n
      BY <3>0
    <3> HIDE DEF q
    <3> QED BY <1>4, <2>2, <3>1
  <2> QED BY <1>5, <2>1, <2>2
<1>8. m = L
  BY <1>0, <1>1, <1>6, <1>7
<1> QED BY <1>1, <1>8 DEF L

-----------------------------------------------------------------------------
\* The multipart parser.

CRLF2 == CRLF \o CRLF

LEMMA CRLF2Is == CRLF2 \in Seq(Byte) /\ CRLF2 # <<>> /\ Len(CRLF2) = 4
<1>1. CRLF \in Seq(Byte) /\ Len(CRLF) = 2
  <2>1. 13 \in Byte /\ 10 \in Byte
    BY ByteIs
  <2> QED BY <2>1 DEF CRLF
<1>2. CRLF \o CRLF \in Seq(Byte) /\ Len(CRLF \o CRLF) = Len(CRLF) + Len(CRLF)
  BY <1>1, Joined
<1>3. CRLF2 \in Seq(Byte) /\ Len(CRLF2) = 4
  BY <1>1, <1>2 DEF CRLF2
<1> QED BY <1>3

\* A part that was parsed: h bytes of headers from c on, and a body of m bytes.
ParsedAs(body, boundary, c, h, m, headers, rest) ==
    /\ c + h + 4 <= Len(body) /\ HeadersAreLines(headers)
    /\ headers \in Seq(Nat) /\ Len(headers) = h
    /\ \A k \in 1..h : headers[k] = body[c + k]
    /\ Len(rest) = Len(body) - (c + h + 4)
    /\ \A k \in 1..Len(rest) : rest[k] = body[c + h + 4 + k]
    /\ m = FindSubslice(rest, Marker) /\ m # NotFound
    /\ Get(rest, m + 4, Len(boundary)) = boundary
    /\ m + 4 + Len(boundary) <= Len(rest)
    /\ ParsePart(body, boundary, c) =
          [result |-> "ok",
           part |-> [type |-> ContentType(headers), body |-> SubSeq(rest, 1, m)],
           next |-> c + h + 4 + m + 4 + Len(boundary)]

LEMMA ParsedPart ==
  ASSUME NEW body \in Seq(Nat), NEW boundary \in Seq(Nat), boundary # <<>>, NEW c \in Nat,
         ParsePart(body, boundary, c).result = "ok"
  PROVE  \E h \in Nat, m \in Nat, headers, rest \in Seq(Nat) :
            ParsedAs(body, boundary, c, h, m, headers, rest)
<1> DEFINE p == ParsePart(body, boundary, c)
           tail == SubSeq(body, c + 1, Len(body))
           h == FindSubslice(tail, CRLF2)
           headers == SubSeq(tail, 1, h)
           rest == SubSeq(tail, h + 5, Len(tail))
           m == FindSubslice(rest, Marker)
           n == Len(boundary)
<1>0. Len(body) \in Nat /\ n \in Nat /\ p.result = "ok"
  OBVIOUS
<1>1. p = IF \/ h = NotFound \/ ~HeadersAreLines(headers) \/ m = NotFound
             \/ ~IsBoundary(Get(rest, m + 4, n), boundary)
          THEN [result |-> "corrupt_envelope"]
          ELSE [result |-> "ok",
                part |-> [type |-> ContentType(headers), body |-> SubSeq(rest, 1, m)],
                next |-> c + h + 4 + m + 4 + n]
  BY Zenon DEF ParsePart, CRLF2, Marker
<1>2. tail \in Seq(Nat) /\ (c <= Len(body) => /\ Len(tail) = Len(body) - c
                                              /\ \A k \in 1..Len(tail) : tail[k] = body[c + k])
      /\ (c > Len(body) => Len(tail) = 0)
  <2>1. CASE c <= Len(body)
    <3> DEFINE j == Len(body)
    <3>1. j \in Nat /\ c <= j /\ j <= Len(body)
      BY <1>0, <2>1
    <3> HIDE DEF j
    <3>2. /\ SubSeq(body, c + 1, j) \in Seq(Nat) /\ Len(SubSeq(body, c + 1, j)) = j - c
          /\ \A k \in 1..(j - c) : SubSeq(body, c + 1, j)[k] = body[c + k]
      BY <3>1, Piece
    <3>3. ~(c > j)
      BY <3>1
    <3> USE DEF j
    <3> HIDE DEF tail
    <3> QED BY <2>1, <3>2, <3>3 DEF tail
  <2>2. CASE c > Len(body)
    <3>1. tail = <<>>
      BY <1>0, <2>2
    <3> HIDE DEF tail
    <3> QED BY <1>0, <2>2, <3>1
  <2> QED BY <1>0, <2>1, <2>2
<1> HIDE DEF p, tail, h, headers, rest, m
<1>3. /\ h # NotFound /\ HeadersAreLines(headers) /\ m # NotFound
      /\ Get(rest, m + 4, n) = boundary
      /\ p = [result |-> "ok",
              part |-> [type |-> ContentType(headers), body |-> SubSeq(rest, 1, m)],
              next |-> c + h + 4 + m + 4 + n]
  BY <1>0, <1>1 DEF IsBoundary
<1>4. h \in Nat /\ h + 4 <= Len(tail)
  <2>1. OccursAt(tail, CRLF2, h)
    BY <1>2, <1>3, CRLF2Is, Subslice DEF h
  <2> QED BY <2>1, CRLF2Is DEF OccursAt
<1>5. c <= Len(body) /\ Len(tail) = Len(body) - c
  BY <1>0, <1>2, <1>4
<1>6. /\ headers \in Seq(Nat) /\ Len(headers) = h
      /\ \A k \in 1..h : headers[k] = body[c + k]
  <2>0. tail \in Seq(Nat) /\ h \in Nat /\ h + 4 <= Len(tail) /\ Len(tail) \in Nat
    <3>1. tail \in Seq(Nat)
      BY <1>2
    <3> QED BY <1>4, <3>1
  <2>1. h <= Len(tail) /\ 0 <= h /\ h - 0 = h /\ 0 + 1 = 1
    BY <2>0
  <2>2. /\ SubSeq(tail, 0 + 1, h) \in Seq(Nat) /\ Len(SubSeq(tail, 0 + 1, h)) = h - 0
        /\ \A k \in 1..(h - 0) : SubSeq(tail, 0 + 1, h)[k] = tail[0 + k]
    <3>1. tail \in Seq(Nat) /\ h \in Nat /\ 0 \in Nat /\ 0 <= h /\ h <= Len(tail)
      BY <2>0, <2>1
    <3> QED BY <3>1, Piece
  <2>3. \A k \in 1..h : 0 + k = k /\ tail[k] = body[c + k]
    BY <1>2, <1>4, <1>5
  <2> QED BY <2>1, <2>2, <2>3 DEF headers
<1>7. /\ rest \in Seq(Nat) /\ Len(rest) = Len(body) - (c + h + 4)
      /\ \A k \in 1..Len(rest) : rest[k] = body[c + h + 4 + k]
  <2> DEFINE i == h + 4
             j == Len(tail)
  <2>1. i \in Nat /\ j \in Nat /\ i <= j /\ j <= Len(tail) /\ i + 1 = h + 5 /\ j = Len(body) - c
    BY <1>0, <1>2, <1>4, <1>5
  <2>2. rest = SubSeq(tail, i + 1, j)
    BY <2>1 DEF rest
  <2>3. j - i = Len(body) - (c + h + 4)
    BY <1>0, <1>4, <2>1
  <2> HIDE DEF i, j
  <2>0. tail \in Seq(Nat)
    BY <1>2
  <2>4. /\ SubSeq(tail, i + 1, j) \in Seq(Nat) /\ Len(SubSeq(tail, i + 1, j)) = j - i
        /\ \A k \in 1..(j - i) : SubSeq(tail, i + 1, j)[k] = tail[i + k]
    <3>1. i \in Nat /\ j \in Nat /\ i <= j /\ j <= Len(tail)
      BY <2>1
    <3> QED BY <2>0, <3>1, Piece
  <2>5. \A k \in 1..(j - i) : tail[i + k] = body[c + h + 4 + k]
    <3> SUFFICES ASSUME NEW k \in 1..(j - i) PROVE tail[i + k] = body[c + h + 4 + k]
      OBVIOUS
    <3>1. i + k \in 1..Len(tail) /\ c + (i + k) = c + h + 4 + k
      BY <1>4, <2>1 DEF i, j
    <3> QED BY <1>2, <1>5, <3>1
  <2> QED BY <2>2, <2>3, <2>4, <2>5
<1>8. m \in Nat /\ m + 4 <= Len(rest)
  <2>1. OccursAt(rest, Marker, m)
    BY <1>3, <1>7, MarkerIs, Subslice DEF m
  <2> QED BY <2>1, MarkerIs DEF OccursAt
<1>9. m + 4 + n <= Len(rest)
  <2> DEFINE i == m + 4
  <2>1. i \in Nat /\ Get(rest, i, n) = boundary
    BY <1>3, <1>8
  <2> HIDE DEF i
  <2>2. i + Len(boundary) <= Len(rest)
    BY <1>7, <2>1, Occurs
  <2> QED BY <2>2 DEF i
<1>10. m = FindSubslice(rest, Marker) /\ c + h + 4 <= Len(body)
  BY <1>0, <1>4, <1>5 DEF m
<1> HIDE DEF n
<1>11. ParsedAs(body, boundary, c, h, m, headers, rest)
  BY <1>3, <1>6, <1>7, <1>9, <1>10, Zenon DEF p, n, ParsedAs
<1>12. headers \in Seq(Nat) /\ rest \in Seq(Nat)
  BY <1>6, <1>7
<1> QED BY <1>4, <1>8, <1>11, <1>12

\* The parts that can be parsed somewhere in a body.
PartsOf(body, boundary) ==
    {ParsePart(body, boundary, c).part : c \in {i \in Nat : ParsePart(body, boundary, i).result = "ok"}}

\* What the parser makes of a body from c on, f being what it makes of it further on.
Corrupt == [result |-> "corrupt_envelope"]

Turn(body, boundary, f, c) ==
    LET p == ParsePart(body, boundary, c + 2) IN
    IF Get(body, c, 2) = Dashes THEN [result |-> "ok", parts |-> <<>>]
    ELSE IF Get(body, c, 2) # CRLF THEN Corrupt
    ELSE IF p.result # "ok" THEN p
    ELSE IF f[p.next].result # "ok" THEN f[p.next]
    ELSE [result |-> "ok", parts |-> <<p.part>> \o f[p.next].parts]

\* Parsing goes on behind the part that was parsed.
LEMMA NextPart ==
  ASSUME NEW body \in Seq(Nat), NEW boundary \in Seq(Nat), boundary # <<>>, NEW c \in Nat,
         ParsePart(body, boundary, c + 2).result = "ok"
  PROVE  LET p == ParsePart(body, boundary, c + 2) IN
         p.next \in Nat /\ p.next > c /\ p.next <= Len(body) /\ p.part \in PartsOf(body, boundary)
<1> DEFINE d == c + 2
           N == Len(body)
<1>1. d \in Nat /\ ParsePart(body, boundary, d).result = "ok"
  OBVIOUS
<1> HIDE DEF d
<1>2. ParsePart(body, boundary, d).part \in PartsOf(body, boundary)
  BY <1>1 DEF PartsOf
<1>3. PICK h \in Nat, q \in Nat, headers, rest \in Seq(Nat) :
          ParsedAs(body, boundary, d, h, q, headers, rest)
  BY <1>1, ParsedPart
<1>4. ParsePart(body, boundary, d).next = d + h + 4 + q + 4 + Len(boundary)
  BY <1>3 DEF ParsedAs
<1>5. /\ Len(boundary) \in Nat /\ Len(body) \in Nat
      /\ Len(rest) = Len(body) - (d + h + 4)
      /\ q + 4 + Len(boundary) <= Len(rest)
  <2>1. Len(boundary) \in Nat /\ Len(body) \in Nat
    OBVIOUS
  <2>2. Len(rest) = Len(body) - (d + h + 4)
    BY <1>3 DEF ParsedAs
  <2>3. q + 4 + Len(boundary) <= Len(rest)
    BY <1>3 DEF ParsedAs
  <2> QED BY <2>1, <2>2, <2>3
<1> DEFINE x == ParsePart(body, boundary, d).next
<1>6. x \in Nat /\ x > c /\ x <= N
  <2>1. x = d + h + 4 + q + 4 + Len(boundary)
    BY <1>4
  <2> DEFINE n == Len(boundary)
             B == Len(body)
             R == Len(rest)
  <2>2. /\ n \in Nat /\ B \in Nat /\ R = B - (c + 2 + h + 4) /\ q + 4 + n <= R
        /\ x = c + 2 + h + 4 + q + 4 + n /\ N = B
    BY <1>5, <2>1 DEF d, N
  <2> HIDE DEF x, n, B, R, N
  <2> QED BY <2>2
<1> QED BY <1>2, <1>6 DEF d

\* The recursive function behind the parser exists.
LEMMA ParserSteps ==
  ASSUME NEW body \in Seq(Nat), NEW boundary \in Seq(Nat), boundary # <<>>
  PROVE  \E f : /\ \A c \in 0..Len(body) : f[c] = Turn(body, boundary, f, c)
                /\ ParseMultipart(body, boundary) =
                      IF Get(body, 0, Len(boundary) + 2) # Dashes \o boundary THEN Corrupt
                      ELSE f[Len(boundary) + 2]
<1> DEFINE N == Len(body)
           part(c) == ParsePart(body, boundary, c + 2)
           next(f, c) == Turn(body, boundary, f, c)
           step(f, n) == [c \in (N - n)..N |-> next(f, c)]
           S == {n \in Nat : n <= N => \E f : f = step(f, n)}
           parts == CHOOSE f : f = [cursor \in 0..Len(body) |->
              IF Get(body, cursor, 2) = Dashes THEN [result |-> "ok", parts |-> <<>>]
              ELSE IF Get(body, cursor, 2) # CRLF THEN [result |-> "corrupt_envelope"]
              ELSE LET p == ParsePart(body, boundary, cursor + 2) IN
                   IF p.result # "ok" THEN p
                   ELSE IF f[p.next].result # "ok" THEN f[p.next]
                   ELSE [result |-> "ok", parts |-> <<p.part>> \o f[p.next].parts]]
           m == ParseMultipart(body, boundary)
<1>0. N \in Nat /\ N - N = 0
  OBVIOUS
<1>1. m = IF Get(body, 0, Len(boundary) + 2) # Dashes \o boundary THEN Corrupt
          ELSE parts[Len(boundary) + 2]
  BY Zenon DEF ParseMultipart, Corrupt
<1>2. parts = CHOOSE f : f = [c \in 0..N |-> next(f, c)]
  BY Zenon DEF Turn, Corrupt
<1> HIDE DEF parts, m
<1>3. ASSUME NEW c \in Nat, part(c).result = "ok"
      PROVE  part(c).next \in Nat /\ part(c).next > c /\ part(c).next <= N
  <2> HIDE DEF next, step
  <2> QED BY <1>3, NextPart
<1>4. ASSUME NEW f, NEW g, NEW c \in Nat, \A x \in c + 1..N : f[x] = g[x]
      PROVE  next(f, c) = next(g, c)
  <2>1. CASE part(c).result = "ok"
    <3>1. f[part(c).next] = g[part(c).next]
      <4> DEFINE x == part(c).next
      <4>1. x \in Nat /\ x > c /\ x <= N
        BY <1>3, <2>1
      <4> HIDE DEF x, part, next, N
      <4>2. x \in c + 1..N
        BY <1>0, <4>1
      <4> QED BY <1>4, <4>2 DEF x
    <3> HIDE DEF part
    <3> QED BY <3>1, Zenon DEF Turn, part
  <2>2. CASE part(c).result # "ok"
    <3> HIDE DEF part
    <3> QED BY <2>2, Zenon DEF Turn, part
  <2> QED BY <2>1, <2>2
<1> HIDE DEF next, N
<1>5. 0 \in S
  <2> DEFINE f == [c \in (N - 0)..N |-> next(0, c)]
  <2>1. \A c \in (N - 0)..N : c \in Nat /\ c + 1..N = {}
    BY <1>0
  <2>2. ASSUME NEW c \in (N - 0)..N PROVE next(0, c) = next(f, c)
    <3>1. c \in Nat /\ \A x \in c + 1..N : 0[x] = f[x]
      BY <2>1
    <3> HIDE DEF f
    <3> QED BY <1>4, <3>1
  <2>3. f = step(f, 0)
    <3> DEFINE g == f
    <3>1. \A c \in (N - 0)..N : next(0, c) = next(g, c)
      BY <2>2
    <3> HIDE DEF g
    <3>2. [c \in (N - 0)..N |-> next(0, c)] = [c \in (N - 0)..N |-> next(g, c)]
      BY <3>1
    <3> QED BY <3>2 DEF g
  <2> HIDE DEF f
  <2> QED BY <2>3
<1>6. ASSUME NEW n \in Nat, n \in S PROVE n + 1 \in S
  <2> SUFFICES ASSUME n + 1 <= N PROVE \E f : f = step(f, n + 1)
    OBVIOUS
  <2>1. PICK f : f = step(f, n)
    BY <1>0, <1>6
  <2> DEFINE b == N - (n + 1)
             g == [c \in b..N |-> IF c = b THEN next(f, b) ELSE f[c]]
  <2>2. b \in Nat /\ b + 1 = N - n /\ b <= N
    BY <1>0
  <2>3. \A c \in b + 1..N : f[c] = next(f, c)
    BY <2>1, <2>2
  <2>4. \A c \in b + 1..N : g[c] = f[c] /\ c \in Nat /\ c # b
    BY <1>0, <2>2
  <2>5. g[b] = next(f, b)
    BY <1>0, <2>2
  <2>6. g = [c \in b..N |-> g[c]]
    OBVIOUS
  <2> HIDE DEF step, g, b
  <2>7. ASSUME NEW c \in b..N PROVE g[c] = next(g, c)
    <3>1. c \in Nat /\ \A x \in c + 1..N : x \in b + 1..N
      BY <1>0, <2>2
    <3>2. \A x \in c + 1..N : f[x] = g[x]
      BY <2>4, <3>1
    <3>3. next(f, c) = next(g, c)
      BY <1>4, <3>1, <3>2
    <3>4. c = b \/ c \in b + 1..N
      BY <1>0, <2>2
    <3> QED BY <2>3, <2>4, <2>5, <3>3, <3>4
  <2>8. [c \in b..N |-> g[c]] = [c \in b..N |-> next(g, c)]
    BY <2>7
  <2>9. g = step(g, n + 1)
    BY <2>6, <2>8 DEF step, b
  <2> QED BY <2>9
<1>7. \E f : f = [c \in 0..N |-> next(f, c)]
  <2>1. N \in S
    <3> HIDE DEF S
    <3> QED BY <1>0, <1>5, <1>6, Climb
  <2> QED BY <1>0, <2>1
<1>8. \A c \in 0..N : parts[c] = next(parts, c)
  <2>1. parts = [c \in 0..N |-> next(parts, c)]
    BY <1>2, <1>7, Zenon
  <2> QED BY <2>1
<1> HIDE DEF S, step, parts
<1> WITNESS parts
<1> QED BY <1>1, <1>8 DEF N, next, m

\* Whatever the parser returns as parts are parts of the body.
LEMMA ParsedParts ==
  ASSUME NEW body \in Seq(Nat), NEW boundary \in Seq(Nat), boundary # <<>>
  PROVE  LET m == ParseMultipart(body, boundary) IN
         /\ m.result \in {"ok", "corrupt_envelope"}
         /\ m.result = "ok" => m.parts \in Seq(PartsOf(body, boundary))
<1> DEFINE N == Len(body)
           P == PartsOf(body, boundary)
           corrupt == Corrupt
           part(c) == ParsePart(body, boundary, c + 2)
           next(f, c) == Turn(body, boundary, f, c)
           Good(r) == /\ r.result \in {"ok", "corrupt_envelope"}
                      /\ r.result = "ok" => r.parts \in Seq(P)
           m == ParseMultipart(body, boundary)
<1>0. N \in Nat /\ N - N = 0
  OBVIOUS
<1>1. PICK parts : /\ \A c \in 0..N : parts[c] = next(parts, c)
                   /\ m = IF Get(body, 0, Len(boundary) + 2) # Dashes \o boundary THEN corrupt
                          ELSE parts[Len(boundary) + 2]
  <2> HIDE DEF m
  <2> QED BY ParserSteps, Zenon DEF m
<1>2. ASSUME NEW c \in Nat, part(c).result = "ok"
      PROVE  part(c).next \in Nat /\ part(c).next > c /\ part(c).next <= N /\ part(c).part \in P
  BY <1>2, NextPart
<1> HIDE DEF next, N, m
<1>3. /\ Good([result |-> "ok", parts |-> <<>>]) /\ Good(corrupt)
  BY Zenon, EmptySeq DEF Corrupt
<1>4. ASSUME NEW p \in P, NEW r, Good(r), r.result = "ok"
       PROVE  Good([result |-> "ok", parts |-> <<p>> \o r.parts])
  <2>1. r.parts \in Seq(P)
    BY <1>4
  <2> DEFINE q == r.parts
  <2> HIDE DEF q, P
  <2>2. <<p>> \o q \in Seq(P)
    BY <2>1 DEF q
  <2> QED BY <2>2 DEF q
<1> DEFINE T == {n \in Nat : \A c \in 0..N : N - n <= c => Good(parts[c])}
<1>5. ASSUME NEW c \in 0..N, \A x \in c + 1..N : Good(parts[x]) PROVE Good(parts[c])
  <2>1. parts[c] = next(parts, c) /\ c \in Nat
    BY <1>1
  <2>2. CASE part(c).result = "ok"
    <3>1. Good(parts[part(c).next]) /\ part(c).part \in P
      BY <1>0, <1>2, <1>5, <2>1, <2>2
    <3>2. parts[part(c).next].result = "ok" =>
             Good([result |-> "ok", parts |-> <<part(c).part>> \o parts[part(c).next].parts])
      <4> HIDE DEF Good, P, part
      <4> QED BY <1>4, <3>1
    <3> HIDE DEF Good, P, part
    <3> QED BY <1>3, <2>1, <2>2, <3>1, <3>2, Zenon DEF next, part, Turn, corrupt
  <2>3. CASE part(c).result # "ok"
    <3>1. part(c) = corrupt
      <4> DEFINE d == c + 2
      <4>1. part(c) = ParsePart(body, boundary, d)
        OBVIOUS
      <4> HIDE DEF d, part
      <4>2. ParsePart(body, boundary, d).result = "ok" \/ ParsePart(body, boundary, d) = corrupt
        BY DEF ParsePart, Corrupt
      <4> QED BY <2>3, <4>1, <4>2
    <3> HIDE DEF Good, P, part
    <3> QED BY <1>3, <2>1, <2>3, <3>1, Zenon DEF next, part, Turn, corrupt
  <2> QED BY <2>2, <2>3
<1> HIDE DEF Good
<1>6. 0 \in T
  <2>1. \A c \in 0..N : N - 0 <= c => c = N /\ c + 1..N = {}
    BY <1>0
  <2> QED BY <1>5, <2>1
<1>7. ASSUME NEW n \in Nat, n \in T PROVE n + 1 \in T
  <2> SUFFICES ASSUME NEW c \in 0..N, N - (n + 1) <= c PROVE Good(parts[c])
    OBVIOUS
  <2>1. \A x \in c + 1..N : x \in 0..N /\ N - n <= x
    BY <1>0
  <2>2. \A x \in c + 1..N : Good(parts[x])
    BY <1>7, <2>1
  <2> QED BY <1>5, <2>2
<1>8. \A c \in 0..N : Good(parts[c])
  <2>1. Nat \subseteq T
    <3> HIDE DEF T
    <3> QED BY <1>6, <1>7, Climb
  <2>2. \A c \in 0..N : N - N <= c
    BY <1>0
  <2> QED BY <1>0, <2>1, <2>2
<1>9. Good(m)
  <2>1. CASE Get(body, 0, Len(boundary) + 2) # Dashes \o boundary
    BY <1>1, <1>3, <2>1
  <2>2. CASE Get(body, 0, Len(boundary) + 2) = Dashes \o boundary
    <3> DEFINE k == Len(boundary) + 2
    <3>1. k \in Nat /\ Dashes \o boundary # <<>>
      BY DEF Dashes
    <3> HIDE DEF k
    <3>2. k \in 0..N
      <4>1. CASE 0 + k > N
        <5>1. Get(body, 0, k) = <<>>
          BY <4>1 DEF Get, N
        <5> QED BY <2>2, <3>1, <5>1 DEF k
      <4>2. CASE ~(0 + k > N)
        BY <1>0, <3>1, <4>2
      <4> QED BY <4>1, <4>2
    <3>3. m = parts[k]
      BY <1>1, <2>2 DEF k
    <3> QED BY <1>8, <3>2, <3>3
  <2> QED BY <2>1, <2>2
<1> QED BY <1>9 DEF Good, m

-----------------------------------------------------------------------------
\* Where the receipt is in an answer.

\* What comes after the first p of a sequence.
Behind(body, p) == [k \in 1..(Len(body) - p) |-> body[p + k]]

\* The header line of a receipt is at pos, and only there, between bytes.
MarkedAt(body, pos) ==
    /\ pos \in Nat /\ pos >= 5
    /\ \A k \in 1..Len(body) : body[k] = ReceiptType => k = pos
    /\ pos <= Len(body) => body[pos - 3] \in Byte
    /\ pos + 3 <= Len(body) => body[pos + 3] \in Byte

LEMMA HeaderLines ==
  /\ \A v \in Byte : v \notin HeaderLine
  /\ ReceiptType = 257 /\ CRLF[1] = 13 /\ CRLF[2] = 10
<1>1. \A v \in HeaderLine : v >= 256
  BY SMTT(10) DEF HeaderLine
<1> QED BY <1>1, ByteIs DEF ReceiptType, CRLF

\* Header lines and line ends take turns.
LEMMA ByThree ==
  ASSUME NEW i \in Nat
  PROVE  /\ i % 3 # 1 => (i + 1) % 3 = 0 \/ (i + 1) % 3 = 1
         /\ i % 3 = 1 /\ i # 1 => i >= 4 /\ (i - 3) % 3 = 1
<1>1. PICK q \in Int, r \in 0..2 : i = 3 * q + r /\ i % 3 = r
  <2>1. i = 3 * (i \div 3) + (i % 3) /\ i \div 3 \in Int /\ i % 3 \in 0..2
    BY SMTT(10)
  <2> QED BY <2>1
<1>2. r = 0 \/ r = 1 \/ r = 2
  BY <1>1
<1>3. r = 0 => (i + 1) % 3 = 1
  BY <1>1, SMTT(10)
<1>4. r = 2 => (i + 1) % 3 = 0
  BY <1>1, SMTT(10)
<1>5. r = 1 => (i - 3) % 3 = 1
  BY <1>1, SMTT(10)
<1>6. r = 1 /\ i # 1 => i >= 4
  BY <1>1, SMTT(10)
<1> QED BY <1>1, <1>2, <1>3, <1>4, <1>5, <1>6

\* A part with the type of a receipt has one header line, the one at pos.
LEMMA ReceiptRead ==
  ASSUME NEW body \in Seq(Nat), NEW boundary \in Seq(Nat), boundary # <<>>, NEW c \in Nat,
         ParsePart(body, boundary, c).result = "ok",
         ParsePart(body, boundary, c).part.type = ReceiptType
  PROVE  /\ \E k \in 1..Len(body) : body[k] = ReceiptType
         /\ \A pos : MarkedAt(body, pos) =>
               /\ pos + 4 <= Len(body)
               /\ \E m \in Nat : LET rest == Behind(body, pos + 4) IN
                     /\ m = FindSubslice(rest, Marker) /\ m # NotFound
                     /\ Get(rest, m + 4, Len(boundary)) = boundary
                     /\ ParsePart(body, boundary, c).part.body = SubSeq(rest, 1, m)
<1>0. Len(body) \in Nat
  OBVIOUS
<1>1. PICK h \in Nat, m \in Nat, headers, rest \in Seq(Nat) :
         ParsedAs(body, boundary, c, h, m, headers, rest)
  BY ParsedPart
<1>2. /\ c + h + 4 <= Len(body) /\ HeadersAreLines(headers)
      /\ headers \in Seq(Nat) /\ Len(headers) = h
      /\ \A k \in 1..h : headers[k] = body[c + k]
  BY <1>1 DEF ParsedAs
<1>3. /\ Len(rest) = Len(body) - (c + h + 4)
      /\ \A k \in 1..Len(rest) : rest[k] = body[c + h + 4 + k]
  BY <1>1 DEF ParsedAs
<1>4. /\ m = FindSubslice(rest, Marker) /\ m # NotFound
      /\ Get(rest, m + 4, Len(boundary)) = boundary
  BY <1>1 DEF ParsedAs
<1>5. ParsePart(body, boundary, c).part = [type |-> ContentType(headers), body |-> SubSeq(rest, 1, m)]
  BY <1>1 DEF ParsedAs
<1>6. PICK i \in 1..h : headers[i] = ReceiptType
  <2> DEFINE types == {i \in DOMAIN headers : headers[i] \in HeaderLine \ {OtherHeader}}
  <2>1. ContentType(headers) = ReceiptType
    BY <1>5
  <2>2. ContentType(headers) = IF types = {} THEN 0 ELSE headers[Min(types)]
    BY DEF ContentType
  <2>3. types # {}
    BY <2>1, <2>2 DEF ReceiptType
  <2>4. types \subseteq 1..h /\ 1..h \subseteq Nat
    BY <1>2
  <2> HIDE DEF types
  <2>5. Min(types) \in types
    BY <2>3, <2>4, MinIs
  <2> QED BY <2>1, <2>2, <2>3, <2>4, <2>5
<1>7. c + i \in 1..Len(body) /\ body[c + i] = ReceiptType
  <2>1. c \in Nat /\ h \in Nat /\ Len(body) \in Nat /\ i \in 1..h /\ c + h + 4 <= Len(body)
    BY <1>0, <1>2
  <2>2. c + i \in 1..Len(body)
    BY <2>1
  <2>3. headers[i] = body[c + i]
    BY <1>2
  <2> QED BY <1>6, <2>2, <2>3
<1>8. ASSUME NEW pos, MarkedAt(body, pos)
      PROVE  c = pos - 1 /\ h = 1
  <2>1. /\ pos \in Nat /\ pos >= 5 /\ c + i = pos /\ pos <= Len(body) /\ body[pos - 3] \in Byte
        /\ pos + 3 <= Len(body) => body[pos + 3] \in Byte
    <3>1. /\ pos \in Nat /\ pos >= 5 /\ \A k \in 1..Len(body) : body[k] = ReceiptType => k = pos
          /\ pos <= Len(body) => body[pos - 3] \in Byte
          /\ pos + 3 <= Len(body) => body[pos + 3] \in Byte
      BY <1>8 DEF MarkedAt
    <3>2. c + i \in 1..Len(body) /\ body[c + i] = ReceiptType
      BY <1>7
    <3>3. c + i = pos /\ pos <= Len(body)
      <4> DEFINE e == c + i
      <4>1. e \in 1..Len(body) /\ body[e] = ReceiptType
        BY <3>2
      <4> HIDE DEF e
      <4>2. e = pos /\ e <= Len(body)
        BY <3>1, <4>1
      <4> QED BY <4>2 DEF e
    <3> QED BY <3>1, <3>3
  <2>2. /\ h % 3 = 1
        /\ \A k \in 1..h : IF k % 3 = 1 THEN headers[k] \in HeaderLine
                           ELSE headers[k] = CRLF[((k + 1) % 3) + 1]
    <3>1. DOMAIN headers = 1..h
      BY <1>2
    <3> QED BY <1>2, <3>1 DEF HeadersAreLines
  <2>3. i % 3 = 1
    <3>1. ASSUME i % 3 # 1 PROVE FALSE
      <4>1. headers[i] = CRLF[((i + 1) % 3) + 1]
        BY <2>2, <3>1
      <4>2. (i + 1) % 3 = 0 \/ (i + 1) % 3 = 1
        <5>1. i \in Nat /\ i % 3 # 1
          BY <3>1
        <5> QED BY <5>1, ByThree
      <4>3. ((i + 1) % 3) + 1 = 1 \/ ((i + 1) % 3) + 1 = 2
        BY <4>2
      <4>4. headers[i] = 13 \/ headers[i] = 10
        BY <4>1, <4>3, HeaderLines
      <4> QED BY <1>6, <4>4, HeaderLines
    <3> QED BY <3>1
  <2>4. i = 1
    <3>1. ASSUME i # 1 PROVE FALSE
      <4>1. i - 3 \in 1..h /\ (i - 3) % 3 = 1 /\ c + (i - 3) = pos - 3
        <5>1. /\ h \in Nat /\ i \in Nat /\ i % 3 = 1 /\ i # 1 /\ c \in Nat /\ pos \in Nat
              /\ c + i = pos /\ 1 <= i /\ i <= h
          BY <2>1, <2>3, <3>1
        <5>2. 4 <= i /\ (i - 3) % 3 = 1
          BY <5>1, ByThree
        <5> QED BY <5>1, <5>2
      <4>2. headers[i - 3] \in HeaderLine
        BY <2>2, <4>1
      <4>3. headers[i - 3] = body[pos - 3]
        BY <1>2, <4>1
      <4> QED BY <2>1, <4>2, <4>3, HeaderLines
    <3> QED BY <3>1
  <2>5. h = 1
    <3>1. ASSUME h # 1 PROVE FALSE
      <4>1. 4 \in 1..h /\ 4 % 3 = 1 /\ c + 4 = pos + 3 /\ pos + 3 <= Len(body)
        <5>1. /\ h \in Nat /\ h % 3 = 1 /\ h # 1 /\ c \in Nat /\ pos \in Nat /\ Len(body) \in Nat
              /\ c + i = pos /\ i = 1 /\ c + h + 4 <= Len(body)
          BY <1>0, <1>2, <2>1, <2>2, <2>4, <3>1
        <5>3. 4 <= h
          BY <5>1, ByThree
        <5> QED BY <5>1, <5>3
      <4>2. headers[4] \in HeaderLine
        BY <2>2, <4>1
      <4>3. headers[4] = body[pos + 3]
        BY <1>2, <4>1
      <4> QED BY <2>1, <4>1, <4>2, <4>3, HeaderLines
    <3> QED BY <3>1
  <2> QED BY <2>1, <2>4, <2>5
<1>9. ASSUME NEW pos, MarkedAt(body, pos)
      PROVE  pos + 4 <= Len(body) /\ rest = Behind(body, pos + 4)
  <2>1. pos \in Nat /\ pos + 4 = c + h + 4
    <3>1. pos \in Nat
      BY <1>9 DEF MarkedAt
    <3>2. c = pos - 1 /\ h = 1
      BY <1>8, <1>9
    <3> QED BY <3>1, <3>2
  <2>2. rest = [k \in 1..(Len(body) - (pos + 4)) |-> rest[k]]
    BY <1>3, <2>1
  <2>3. \A k \in 1..(Len(body) - (pos + 4)) : rest[k] = body[(pos + 4) + k]
    BY <1>3, <2>1
  <2>4. rest = Behind(body, pos + 4)
    BY <2>2, <2>3 DEF Behind
  <2> QED BY <1>2, <2>1, <2>4
<1>10. ASSUME NEW pos, MarkedAt(body, pos)
       PROVE  /\ pos + 4 <= Len(body)
              /\ \E q \in Nat : LET x == Behind(body, pos + 4) IN
                    /\ q = FindSubslice(x, Marker) /\ q # NotFound
                    /\ Get(x, q + 4, Len(boundary)) = boundary
                    /\ ParsePart(body, boundary, c).part.body = SubSeq(x, 1, q)
  <2>1. pos + 4 <= Len(body) /\ rest = Behind(body, pos + 4)
    BY <1>9, <1>10
  <2>2. ParsePart(body, boundary, c).part.body = SubSeq(rest, 1, m)
    BY <1>5
  <2> QED BY <1>4, <2>1, <2>2
<1> QED BY <1>7, <1>10

\* An answer that has no receipt, or s, perhaps cut or with a damaged byte at j.
Carries(body, s, j) ==
    \/ \A k \in 1..Len(body) : body[k] # ReceiptType
    \/ \E pos : /\ MarkedAt(body, pos)
                /\ pos + 4 <= Len(body) => Follows(Behind(body, pos + 4), s, Boundary, j)

\* A receipt that is cut out of such an answer is s, but for byte j.
LEMMA ReceiptOf ==
  ASSUME NEW body \in Seq(Nat), NEW s \in Seq(Byte), FindSubslice(s, Boundary) = NotFound, NEW j,
         Carries(body, s, j), ParseMultipart(body, Boundary).result = "ok",
         FirstOfType(ParseMultipart(body, Boundary).parts, ReceiptType) # <<>>
  PROVE  LET file1 == FirstOfType(ParseMultipart(body, Boundary).parts, ReceiptType)[1] IN
         /\ file1 \in Seq(Byte) /\ Len(file1) = Len(s)
         /\ \A k \in 1..Len(s) : file1[k] = s[k] \/ k = j
<1> DEFINE parts == ParseMultipart(body, Boundary).parts
           at == {i \in DOMAIN parts : parts[i].type = ReceiptType}
           got == FirstOfType(parts, ReceiptType)[1]
<1>0. Boundary \in Seq(Byte \ Damage) /\ Boundary # <<>> /\ Boundary \in Seq(Nat)
  <2>1. Byte \subseteq Nat
    BY ByteIs
  <2>2. Boundary \in Seq(Byte \ Damage) /\ Boundary # <<>>
    BY BoundaryIsFresh
  <2> DEFINE D == Byte \ Damage
  <2>3. D \subseteq Nat /\ Boundary \in Seq(D)
    BY <2>1, <2>2
  <2> HIDE DEF D
  <2>4. Boundary \in Seq(Nat)
    <3>1. ASSUME NEW T, T \subseteq Nat, NEW x \in Seq(T) PROVE x \in Seq(Nat)
      <4>1. \A i \in 1..Len(x) : x[i] \in T
        BY <3>1
      <4>2. x = [i \in 1..Len(x) |-> x[i]] /\ Len(x) \in Nat /\ \A i \in 1..Len(x) : x[i] \in Nat
        BY <3>1, <4>1
      <4> QED BY <4>2, IsSequence
    <3> QED BY <2>3, <3>1
  <2> QED BY <2>2, <2>4
<1>1. parts \in Seq(PartsOf(body, Boundary))
  BY <1>0, ParsedParts
<1>2. FirstOfType(parts, ReceiptType) = IF at = {} THEN <<>> ELSE <<parts[Min(at)].body>>
  BY DEF FirstOfType
<1>3. at # {}
  BY <1>2
<1> HIDE DEF parts
<1>4. at \subseteq Nat /\ DOMAIN parts = 1..Len(parts)
  BY <1>1
<1>5. Min(at) \in at
  <2> HIDE DEF at
  <2> QED BY <1>3, <1>4, MinIs
<1> DEFINE part == parts[Min(at)]
<1>6. part.type = ReceiptType /\ part \in PartsOf(body, Boundary) /\ got = part.body
  <2>1. part.type = ReceiptType /\ Min(at) \in 1..Len(parts)
    BY <1>4, <1>5
  <2>2. FirstOfType(parts, ReceiptType) = <<part.body>>
    BY <1>2, <1>3
  <2> HIDE DEF at
  <2>3. part \in PartsOf(body, Boundary)
    BY <1>1, <2>1
  <2> QED BY <2>1, <2>2, <2>3
<1> HIDE DEF part, got, at
<1>7. PICK c \in Nat : /\ ParsePart(body, Boundary, c).result = "ok"
                       /\ part = ParsePart(body, Boundary, c).part
  BY <1>6 DEF PartsOf
<1>8. /\ \E k \in 1..Len(body) : body[k] = ReceiptType
      /\ \A pos : MarkedAt(body, pos) =>
            /\ pos + 4 <= Len(body)
            /\ \E m \in Nat : LET rest == Behind(body, pos + 4) IN
                  /\ m = FindSubslice(rest, Marker) /\ m # NotFound
                  /\ Get(rest, m + 4, Len(Boundary)) = Boundary
                  /\ ParsePart(body, Boundary, c).part.body = SubSeq(rest, 1, m)
  BY <1>0, <1>6, <1>7, ReceiptRead
<1>9. PICK pos : /\ MarkedAt(body, pos)
                 /\ pos + 4 <= Len(body) => Follows(Behind(body, pos + 4), s, Boundary, j)
  BY <1>8 DEF Carries
<1> DEFINE rest == Behind(body, pos + 4)
<1>10. pos \in Nat /\ pos + 4 <= Len(body) /\ Len(body) \in Nat
  <2>1. pos \in Nat
    BY <1>9 DEF MarkedAt
  <2>2. pos + 4 <= Len(body)
    <3>1. MarkedAt(body, pos)
      BY <1>9
    <3> QED BY <1>8, <3>1, Zenon
  <2> QED BY <2>1, <2>2
<1>11. PICK m \in Nat : /\ m = FindSubslice(rest, Marker) /\ m # NotFound
                        /\ Get(rest, m + 4, Len(Boundary)) = Boundary
                        /\ got = SubSeq(rest, 1, m)
  BY <1>6, <1>7, <1>8, <1>9
<1>12. rest \in Seq(Nat)
  BY <1>10 DEF Behind
<1>13. Follows(rest, s, Boundary, j)
  BY <1>9, <1>10
<1> HIDE DEF rest
<1>14. m = Len(s) /\ m + 4 <= Len(rest)
  BY <1>0, <1>11, <1>12, <1>13, DelimiterFound
<1> DEFINE L == Len(s)
<1>15. L \in Nat /\ L <= Len(rest) /\ 0 <= L /\ L - 0 = L /\ 0 + 1 = 1
  BY <1>12, <1>14
<1> HIDE DEF L
<1>16. /\ SubSeq(rest, 0 + 1, L) \in Seq(Nat) /\ Len(SubSeq(rest, 0 + 1, L)) = L - 0
       /\ \A k \in 1..(L - 0) : SubSeq(rest, 0 + 1, L)[k] = rest[0 + k]
  BY <1>12, <1>15, Piece
<1>17. got \in Seq(Nat) /\ Len(got) = L /\ \A k \in 1..L : got[k] = rest[k]
  <2>1. got = SubSeq(rest, 0 + 1, L)
    BY <1>11, <1>14, <1>15 DEF L
  <2>2. \A k \in 1..L : 0 + k = k
    BY <1>15
  <2> QED BY <1>15, <1>16, <2>1, <2>2
<1>18. \A k \in 1..L : rest[k] = s[k] \/ (k = j /\ rest[k] \in Damage)
  <2>1. \A k \in 1..L : k \in 1..Len(rest) /\ k <= L
    BY <1>12, <1>15
  <2> QED BY <1>13, <2>1 DEF Follows, L
<1>19. got \in Seq(Byte)
  <2>1. Damage \subseteq Byte
    <3>1. 0 \in Byte /\ 10 \in Byte /\ 13 \in Byte /\ 45 \in Byte
      <4>1. 0 \in Byte
        BY SMTT(10) DEF Byte
      <4>2. 10 \in Byte
        BY SMTT(10) DEF Byte
      <4>3. 13 \in Byte
        BY SMTT(10) DEF Byte
      <4>4. 45 \in Byte
        BY SMTT(10) DEF Byte
      <4> QED BY <4>1, <4>2, <4>3, <4>4
    <3> QED BY <3>1 DEF Damage
  <2>2. \A k \in 1..L : s[k] \in Byte
    BY DEF L
  <2>3. \A k \in 1..L : got[k] \in Byte
    BY <1>17, <1>18, <2>1, <2>2
  <2>4. got = [k \in 1..L |-> got[k]]
    BY <1>17
  <2> QED BY <1>15, <2>3, <2>4, IsSequence
<1>20. \A k \in 1..L : got[k] = s[k] \/ k = j
  BY <1>17, <1>18
<1> QED BY <1>17, <1>19, <1>20 DEF got, parts, L

\* A whole answer with the receipt s behind the header line at pos; the last part of it if
\* only what ends a message comes behind.
Placed(body, s, pos, last) ==
    /\ pos \in Nat /\ pos >= 5 /\ pos + 4 + Len(s) + 4 + Len(Boundary) <= Len(body)
    /\ \A k \in 1..Len(body) : body[k] = ReceiptType => k = pos
    /\ body[pos - 3] \in Byte /\ body[pos + 3] \in Byte
    /\ \A k \in 1..Len(s) : body[pos + 4 + k] = s[k]
    /\ \A k \in 1..4 : body[pos + 4 + Len(s) + k] = Marker[k]
    /\ last => \A k \in 1..Len(body) : k > pos + 4 + Len(s) + 4 + Len(Boundary) => body[k] \in Damage

LEMMA DamageIs == Damage \subseteq Byte /\ ReceiptType \notin Damage /\ \A k \in 1..4 : Marker[k] \in Damage
<1>1. 0 \in Byte
  BY SMTT(10) DEF Byte
<1>2. 10 \in Byte
  BY SMTT(10) DEF Byte
<1>3. 13 \in Byte
  BY SMTT(10) DEF Byte
<1>4. 45 \in Byte
  BY SMTT(10) DEF Byte
<1>5. \A k \in 1..4 : k = 1 \/ k = 2 \/ k = 3 \/ k = 4
  OBVIOUS
<1>6. \A k \in 1..4 : Marker[k] = 13 \/ Marker[k] = 10 \/ Marker[k] = 45
  BY <1>5, MarkerIs
<1> QED BY <1>1, <1>2, <1>3, <1>4, <1>6 DEF Damage, ReceiptType

\* The answer as it was made, with byte i damaged, or cut behind byte n.
LEMMA StillCarried ==
  ASSUME NEW body \in Seq(Nat), NEW s \in Seq(Byte), NEW pos, NEW last, Placed(body, s, pos, last),
         NEW i, NEW new \in Seq(Nat), Len(new) <= Len(body),
         \A k \in 1..Len(new) : new[k] = body[k] \/ (last /\ k = i /\ new[k] \in Damage)
  PROVE  Carries(new, s, i - (pos + 4))
<1> DEFINE L == Len(s)
           q == pos + 4
           rest == Behind(new, q)
           N == Len(new)
<1>0. /\ pos \in Nat /\ pos >= 5 /\ L \in Nat /\ Len(Boundary) \in Nat /\ N \in Nat
      /\ Len(body) \in Nat /\ N <= Len(body) /\ pos + 4 + L + 4 + Len(Boundary) <= Len(body)
  <2>1. Boundary \in Seq(Byte \ Damage)
    BY BoundaryIsFresh
  <2>2. Len(Boundary) \in Nat
    BY <2>1
  <2>3. pos \in Nat /\ pos >= 5 /\ pos + 4 + L + 4 + Len(Boundary) <= Len(body)
    BY DEF Placed
  <2>4. L \in Nat /\ N \in Nat /\ Len(body) \in Nat /\ N <= Len(body)
    OBVIOUS
  <2> QED BY <2>2, <2>3, <2>4
<1>1. CASE \A k \in 1..N : new[k] # ReceiptType
  BY <1>1 DEF Carries
<1>2. CASE ~\A k \in 1..N : new[k] # ReceiptType
  <2>1. \A k \in 1..N : new[k] = ReceiptType => k = pos
    <3>1. \A k \in 1..N : k \in 1..Len(body)
      BY <1>0
    <3>2. \A k \in 1..Len(body) : body[k] = ReceiptType => k = pos
      BY DEF Placed
    <3> QED BY <3>1, <3>2, DamageIs
  <2>2. MarkedAt(new, pos)
    <3>1. pos <= N => pos - 3 \in 1..N
      BY <1>0
    <3>2. pos + 3 <= N => pos + 3 \in 1..N
      BY <1>0
    <3>3. body[pos - 3] \in Byte /\ body[pos + 3] \in Byte
      BY DEF Placed
    <3>4. pos <= N => new[pos - 3] \in Byte
      BY <3>1, <3>3, DamageIs
    <3>5. pos + 3 <= N => new[pos + 3] \in Byte
      BY <3>2, <3>3, DamageIs
    <3> QED BY <1>0, <2>1, <3>4, <3>5 DEF MarkedAt
  <2>3. ASSUME q <= N
        PROVE  /\ Len(rest) = N - q
               /\ \A k \in 1..Len(rest) :
                     /\ rest[k] = body[q + k] \/ (last /\ k = i - q /\ rest[k] \in Damage)
                     /\ k > L + 4 + Len(Boundary) => q + k > q + L + 4 + Len(Boundary)
                     /\ q + k \in 1..Len(body)
    <3>1. N - q \in Nat /\ q \in Nat
      BY <1>0, <2>3
    <3> HIDE DEF q, N
    <3>2. rest = [k \in 1..(N - q) |-> new[q + k]]
      BY DEF Behind, N
    <3> HIDE DEF rest
    <3>3. Len(rest) = N - q
      BY <3>1, <3>2
    <3>4. ASSUME NEW k \in 1..(N - q)
          PROVE  /\ rest[k] = body[q + k] \/ (last /\ k = i - q /\ rest[k] \in Damage)
                 /\ k > L + 4 + Len(Boundary) => q + k > q + L + 4 + Len(Boundary)
                 /\ q + k \in 1..Len(body)
      <4>1. q + k \in 1..N /\ q + k \in 1..Len(body)
        <5> DEFINE l == Len(body)
        <5>1. N \in Nat /\ N <= l /\ l \in Nat /\ N - q \in Nat /\ q \in Nat
          BY <1>0, <3>1
        <5> HIDE DEF l
        <5>2. q + k \in 1..N /\ q + k \in 1..l
          BY <5>1
        <5> QED BY <5>2 DEF l
      <4>2. rest[k] = new[q + k]
        BY <3>2
      <4>3. ASSUME q + k = i PROVE k = i - q
        BY <3>1, <4>3
      <4>4. new[q + k] = body[q + k] \/ (last /\ q + k = i /\ new[q + k] \in Damage)
        BY <4>1 DEF N
      <4>5. k > L + 4 + Len(Boundary) => q + k > q + L + 4 + Len(Boundary)
        BY <1>0, <3>1
      <4> QED BY <4>1, <4>2, <4>3, <4>4, <4>5
    <3> QED BY <3>3, <3>4
  <2>4. ASSUME q <= N PROVE Follows(rest, s, Boundary, i - q)
    <3>0. N - q \in Nat /\ q \in Nat /\ Len(rest) = N - q
      BY <1>0, <2>3, <2>4
    <3> HIDE DEF q, N, rest
    <3>1. ASSUME NEW k \in 1..Len(rest), k <= L
          PROVE  rest[k] = s[k] \/ (k = i - q /\ rest[k] \in Damage)
      <4>1. k \in 1..L
        BY <3>1
      <4>2. body[q + k] = s[k]
        BY <4>1 DEF Placed, q, L
      <4> QED BY <2>3, <2>4, <4>2
    <3>2. ASSUME NEW k \in 1..Len(rest), k > L, k <= L + 4
          PROVE  rest[k] \in Damage /\ (~last => rest[k] = Marker[k - L])
      <4>1. k - L \in 1..4 /\ q + k = q + L + (k - L)
        <5>1. k \in Int /\ L \in Int /\ q \in Int /\ k > L /\ k <= L + 4
          BY <1>0, <3>0, <3>2
        <5> DEFINE x == k - L
        <5>2. x \in 1..4 /\ k = L + x
          BY <5>1
        <5> HIDE DEF x
        <5>3. q + k = q + L + x
          BY <5>1, <5>2
        <5> QED BY <5>2, <5>3 DEF x
      <4>2. body[q + L + (k - L)] = Marker[k - L]
        BY <4>1 DEF Placed, q, L
      <4>3. body[q + k] = Marker[k - L]
        BY <4>1, <4>2
      <4> QED BY <2>3, <2>4, <4>1, <4>3, DamageIs
    <3>3. ASSUME ~last, Len(rest) >= L + 4, NEW k \in 1..4 PROVE rest[L + k] = Marker[k]
      <4>1. L + k \in 1..Len(rest) /\ L + k > L /\ L + k <= L + 4 /\ (L + k) - L = k
        BY <1>0, <3>0, <3>3
      <4> QED BY <3>2, <3>3, <4>1
    <3>4. ASSUME last, NEW k \in 1..Len(rest), k > L + 4 + Len(Boundary) PROVE rest[k] \in Damage
      <4>1. q + k \in 1..Len(body) /\ q + k > q + L + 4 + Len(Boundary)
        BY <2>3, <2>4, <3>4
      <4>2. body[q + k] \in Damage
        BY <3>4, <4>1 DEF Placed, q, L
      <4> QED BY <2>3, <2>4, <4>2
    <3> QED BY <3>1, <3>2, <3>3, <3>4 DEF Follows, L
  <2> QED BY <2>2, <2>4 DEF Carries
<1> QED BY <1>1, <1>2

-----------------------------------------------------------------------------
\* The layouts of an answer.

\* Everything in an answer but the header line of a receipt.
Quiet == Nat \ {ReceiptType}

LEMMA BytesAreQuiet ==
  /\ Byte \subseteq Quiet /\ Quiet \subseteq Nat /\ Byte \subseteq Nat
  /\ \A s : s \in Seq(Byte) => s \in Seq(Quiet)
  /\ \A s : s \in Seq(Quiet) => s \in Seq(Nat)
  /\ Boundary \in Seq(Byte) /\ Len(Boundary) \in Nat /\ Len(Boundary) > 0
<1>1. Byte \subseteq Quiet /\ Quiet \subseteq Nat
  <2>1. ReceiptType \notin Byte /\ Byte \subseteq Nat
    BY ByteIs DEF ReceiptType
  <2> QED BY <2>1 DEF Quiet
<1>2. ASSUME NEW T, NEW U, T \subseteq U, NEW s \in Seq(T) PROVE s \in Seq(U)
  BY <1>2, SeqMonotonic
<1>3. /\ \A s : s \in Seq(Byte) => s \in Seq(Quiet)
      /\ \A s : s \in Seq(Quiet) => s \in Seq(Nat)
  BY <1>1, <1>2
<1>4. Boundary \in Seq(Byte) /\ Len(Boundary) \in Nat /\ Len(Boundary) > 0
  <2>1. Boundary \in Seq(Byte \ Damage) /\ Boundary # <<>>
    BY BoundaryIsFresh
  <2>2. Byte \ Damage \subseteq Byte
    OBVIOUS
  <2> DEFINE D == Byte \ Damage
  <2>3. D \subseteq Byte /\ Boundary \in Seq(D) /\ Boundary # <<>>
    BY <2>1, <2>2
  <2> HIDE DEF D
  <2>4. Boundary \in Seq(Byte)
    BY <1>2, <2>3
  <2> QED BY <2>3, <2>4
<1>5. Byte \subseteq Nat
  BY <1>1
<1> QED BY <1>1, <1>3, <1>4, <1>5

\* Quiet bytes that end with a byte, and are three at least.
Opens(A) == A \in Seq(Quiet) /\ Len(A) >= 3 /\ A[Len(A)] \in Byte

LEMMA OpensWith ==
  ASSUME NEW x \in Seq(Quiet), Len(x) >= 2
  PROVE  Opens(x \o Boundary)
<1> DEFINE n == Len(Boundary)
<1>1. Boundary \in Seq(Quiet) /\ Boundary \in Seq(Byte) /\ n \in Nat /\ n > 0
  BY BytesAreQuiet
<1>2. /\ x \o Boundary \in Seq(Quiet) /\ Len(x \o Boundary) = Len(x) + n
      /\ \A k \in 1..n : (x \o Boundary)[Len(x) + k] = Boundary[k]
  BY <1>1, Joined
<1> HIDE DEF n
<1>3. n \in 1..n /\ Boundary[n] \in Byte
  <2>1. n \in 1..n
    BY <1>1
  <2> QED BY <1>1, <2>1 DEF n
<1> QED BY <1>1, <1>2, <1>3 DEF Opens

\* The receipt behind its header line, its delimiter, and what follows.
LEMMA PlacedBehind ==
  ASSUME NEW A, Opens(A), NEW s \in Seq(Byte), NEW B \in Seq(Quiet), NEW last,
         last => \A k \in 1..Len(B) : B[k] \in Damage,
         NEW W, W = CRLF \o (<<ReceiptType>> \o CRLF2),
         NEW body, body = A \o (W \o (s \o (Marker \o (Boundary \o B))))
  PROVE  body \in Seq(Nat) /\ Placed(body, s, Len(A) + 3, last)
<1> DEFINE a == Len(A)
           L == Len(s)
           n == Len(Boundary)
           b == Len(B)
           tail1 == Boundary \o B
           tail2 == Marker \o tail1
           tail3 == s \o tail2
           tail4 == W \o tail3
<1>0. /\ a \in Nat /\ a >= 3 /\ L \in Nat /\ n \in Nat /\ n > 0 /\ b \in Nat
      /\ A \in Seq(Nat) /\ A[a] \in Byte
  BY BytesAreQuiet DEF Opens
<1>1. W \in Seq(Nat) /\ Len(W) = 7 /\ W[3] = ReceiptType /\ W[6] = 13
      /\ \A k \in 1..7 : k # 3 => W[k] \in Quiet
  <2>1. /\ CRLF \in Seq(Quiet) /\ Len(CRLF) = 2 /\ CRLF[1] = 13 /\ CRLF[2] = 10
        /\ CRLF \in Seq(Nat)
    <3>1. 13 \in Quiet /\ 10 \in Quiet /\ 13 \in Nat /\ 10 \in Nat
      BY DEF Quiet, ReceiptType
    <3> QED BY <3>1 DEF CRLF
  <2>2. /\ CRLF2 \in Seq(Quiet) /\ CRLF2 \in Seq(Nat) /\ Len(CRLF2) = 4
        /\ \A k \in 1..2 : CRLF2[k] = CRLF[k] /\ CRLF2[2 + k] = CRLF[k]
    <3>1. /\ CRLF \o CRLF \in Seq(Quiet) /\ Len(CRLF \o CRLF) = Len(CRLF) + Len(CRLF)
          /\ \A k \in 1..Len(CRLF) : (CRLF \o CRLF)[k] = CRLF[k]
          /\ \A k \in 1..Len(CRLF) : (CRLF \o CRLF)[Len(CRLF) + k] = CRLF[k]
      <4>1. CRLF \in Seq(Quiet)
        BY <2>1
      <4> QED BY <4>1, Joined
    <3>2. CRLF2 \in Seq(Nat)
      BY CRLF2Is, BytesAreQuiet
    <3> QED BY <2>1, <3>1, <3>2 DEF CRLF2
  <2> DEFINE one == <<ReceiptType>>
             V == one \o CRLF2
  <2>3. one \in Seq(Nat) /\ Len(one) = 1 /\ one[1] = ReceiptType
    BY DEF ReceiptType
  <2> HIDE DEF one
  <2>4. V \in Seq(Nat) /\ Len(V) = 5 /\ V[1] = ReceiptType /\ \A k \in 1..4 : V[1 + k] = CRLF2[k]
    <3>1. /\ one \in Seq(Nat) /\ CRLF2 \in Seq(Nat) /\ 1 \in Nat /\ 4 \in Nat
          /\ Len(one) = 1 /\ Len(CRLF2) = 4 /\ V = one \o CRLF2
      BY <2>2, <2>3
    <3>2. /\ V \in Seq(Nat) /\ Len(V) = 1 + 4 /\ \A k \in 1..1 : V[k] = one[k]
          /\ \A k \in 1..4 : V[1 + k] = CRLF2[k]
      <4> HIDE DEF V
      <4>2. /\ (one \o CRLF2) \in Seq(Nat) /\ Len((one \o CRLF2)) = Len(one) + Len(CRLF2)
            /\ \A k \in 1..Len(one) : (one \o CRLF2)[k] = one[k]
            /\ \A k \in 1..Len(CRLF2) : (one \o CRLF2)[Len(one) + k] = CRLF2[k]
        <5>1. one \in Seq(Nat) /\ CRLF2 \in Seq(Nat)
          BY <3>1
        <5> QED BY <5>1, Joined
      <4> QED BY <3>1, <4>2
    <3>3. 1 \in 1..1 /\ 1 + 4 = 5
      OBVIOUS
    <3> QED BY <2>3, <3>2, <3>3
  <2> HIDE DEF V
  <2>5. /\ W \in Seq(Nat) /\ Len(W) = 7 /\ \A k \in 1..2 : W[k] = CRLF[k]
        /\ \A k \in 1..5 : W[2 + k] = V[k]
    <3>1. W = CRLF \o V /\ 2 + 5 = 7 /\ 2 \in Nat /\ 5 \in Nat
      BY DEF V, one
    <3>2. CRLF \in Seq(Nat) /\ Len(CRLF) = 2 /\ V \in Seq(Nat) /\ Len(V) = 5
      BY <2>1, <2>4
    <3>3. /\ W \in Seq(Nat) /\ Len(W) = 2 + 5 /\ \A k \in 1..2 : W[k] = CRLF[k]
          /\ \A k \in 1..5 : W[2 + k] = V[k]
      <4>1. /\ CRLF \in Seq(Nat) /\ V \in Seq(Nat) /\ 2 \in Nat /\ 5 \in Nat
            /\ Len(CRLF) = 2 /\ Len(V) = 5 /\ W = CRLF \o V
        BY <3>1, <3>2
      <4>2. /\ (CRLF \o V) \in Seq(Nat) /\ Len((CRLF \o V)) = Len(CRLF) + Len(V)
            /\ \A k \in 1..Len(CRLF) : (CRLF \o V)[k] = CRLF[k]
            /\ \A k \in 1..Len(V) : (CRLF \o V)[Len(CRLF) + k] = V[k]
        <5>1. CRLF \in Seq(Nat) /\ V \in Seq(Nat)
          BY <4>1
        <5> QED BY <5>1, Joined
      <4> QED BY <4>1, <4>2
    <3> QED BY <3>1, <3>3
  <2>6. W[1] = 13 /\ W[2] = 10 /\ W[3] = ReceiptType /\ W[4] = 13 /\ W[5] = 10 /\ W[6] = 13 /\ W[7] = 10
    <3>0. /\ 1 \in 1..2 /\ 2 \in 1..2
          /\ 1 \in 1..4 /\ 2 \in 1..4 /\ 3 \in 1..4 /\ 4 \in 1..4
          /\ 1 \in 1..5 /\ 2 \in 1..5 /\ 3 \in 1..5 /\ 4 \in 1..5 /\ 5 \in 1..5
      OBVIOUS
    <3>1. W[1] = 13 /\ W[2] = 10
      BY <2>1, <2>5, <3>0, Zenon
    <3>2. W[2 + 1] = V[1] /\ W[2 + 2] = V[2] /\ W[2 + 3] = V[3] /\ W[2 + 4] = V[4] /\ W[2 + 5] = V[5]
      BY <2>5, <3>0, Zenon
    <3>3. /\ V[1 + 1] = CRLF2[1] /\ V[1 + 2] = CRLF2[2] /\ V[1 + 3] = CRLF2[3]
          /\ V[1 + 4] = CRLF2[4] /\ V[1] = ReceiptType
      BY <2>4, <3>0, Zenon
    <3>4. CRLF2[1] = 13 /\ CRLF2[2] = 10 /\ CRLF2[2 + 1] = 13 /\ CRLF2[2 + 2] = 10
      BY <2>1, <2>2, <3>0, Zenon
    <3>5. 1 + 1 = 2 /\ 1 + 2 = 3 /\ 1 + 3 = 4 /\ 1 + 4 = 5 /\ 2 + 1 = 3 /\ 2 + 2 = 4 /\ 2 + 3 = 5
          /\ 2 + 4 = 6 /\ 2 + 5 = 7
      OBVIOUS
    <3> QED BY <3>1, <3>2, <3>3, <3>4, <3>5
  <2>7. \A k \in 1..7 : k = 1 \/ k = 2 \/ k = 3 \/ k = 4 \/ k = 5 \/ k = 6 \/ k = 7
    OBVIOUS
  <2>8. 13 \in Quiet /\ 10 \in Quiet
    BY DEF Quiet, ReceiptType
  <2> QED BY <2>5, <2>6, <2>7, <2>8
<1>2. /\ tail1 \in Seq(Quiet) /\ Len(tail1) = n + b /\ \A k \in 1..b : tail1[n + k] = B[k]
  <2>1. Boundary \in Seq(Quiet)
    BY BytesAreQuiet
  <2> QED BY <2>1, Joined
<1> DEFINE c2 == n + b
           c3 == 4 + c2
           c4 == L + c3
           c5 == 7 + c4
<1>20. c2 \in Nat /\ c3 \in Nat /\ c4 \in Nat /\ c5 \in Nat
  BY <1>0
<1>21. tail2 = Marker \o tail1 /\ tail3 = s \o tail2 /\ tail4 = W \o tail3 /\ body = A \o tail4
  OBVIOUS
<1> HIDE DEF tail1, tail2, tail3, tail4, c2, c3, c4, c5, a, L, n, b
<1>3. /\ tail2 \in Seq(Quiet) /\ Len(tail2) = c3
      /\ (\A k \in 1..4 : tail2[k] = Marker[k]) /\ (\A k \in 1..c2 : tail2[4 + k] = tail1[k])
  <2>1. Marker \in Seq(Quiet) /\ Len(Marker) = 4 /\ 4 \in Nat
    BY BytesAreQuiet, MarkerIs
  <2>2. tail1 \in Seq(Quiet) /\ Len(tail1) = c2
    BY <1>2 DEF c2
  <2>3. /\ tail2 \in Seq(Quiet) /\ Len(tail2) = 4 + c2
        /\ (\A k \in 1..4 : tail2[k] = Marker[k]) /\ (\A k \in 1..c2 : tail2[4 + k] = tail1[k])
    <3>1. /\ Marker \in Seq(Quiet) /\ tail1 \in Seq(Quiet) /\ 4 \in Nat /\ c2 \in Nat
          /\ Len(Marker) = 4 /\ Len(tail1) = c2 /\ tail2 = Marker \o tail1
      BY <1>20, <1>21, <2>1, <2>2
    <3>2. /\ (Marker \o tail1) \in Seq(Quiet) /\ Len((Marker \o tail1)) = Len(Marker) + Len(tail1)
          /\ \A k \in 1..Len(Marker) : (Marker \o tail1)[k] = Marker[k]
          /\ \A k \in 1..Len(tail1) : (Marker \o tail1)[Len(Marker) + k] = tail1[k]
      <4>1. Marker \in Seq(Quiet) /\ tail1 \in Seq(Quiet)
        BY <3>1
      <4> QED BY <4>1, Joined
    <3> QED BY <3>1, <3>2
  <2> QED BY <2>3 DEF c3
<1>4. /\ tail3 \in Seq(Quiet) /\ Len(tail3) = c4
      /\ \A k \in 1..L : tail3[k] = s[k]
      /\ \A k \in 1..c3 : tail3[L + k] = tail2[k]
  <2>1. s \in Seq(Quiet) /\ Len(s) = L /\ L \in Nat
    BY <1>0, BytesAreQuiet DEF L
  <2>2. tail2 \in Seq(Quiet) /\ Len(tail2) = c3
    BY <1>3
  <2>3. /\ tail3 \in Seq(Quiet) /\ Len(tail3) = L + c3
        /\ (\A k \in 1..L : tail3[k] = s[k]) /\ (\A k \in 1..c3 : tail3[L + k] = tail2[k])
    <3>1. /\ s \in Seq(Quiet) /\ tail2 \in Seq(Quiet) /\ L \in Nat /\ c3 \in Nat
          /\ Len(s) = L /\ Len(tail2) = c3 /\ tail3 = s \o tail2
      BY <1>20, <1>21, <2>1, <2>2
    <3>2. /\ (s \o tail2) \in Seq(Quiet) /\ Len((s \o tail2)) = Len(s) + Len(tail2)
          /\ \A k \in 1..Len(s) : (s \o tail2)[k] = s[k]
          /\ \A k \in 1..Len(tail2) : (s \o tail2)[Len(s) + k] = tail2[k]
      <4>1. s \in Seq(Quiet) /\ tail2 \in Seq(Quiet)
        BY <3>1
      <4> QED BY <4>1, Joined
    <3> QED BY <3>1, <3>2
  <2> QED BY <2>3 DEF c4
<1>5. /\ tail4 \in Seq(Nat) /\ Len(tail4) = c5
      /\ \A k \in 1..7 : tail4[k] = W[k]
      /\ \A k \in 1..c4 : tail4[7 + k] = tail3[k]
  <2>1. W \in Seq(Nat) /\ Len(W) = 7 /\ 7 \in Nat
    BY <1>1
  <2>2. tail3 \in Seq(Nat) /\ Len(tail3) = c4
    BY <1>4, BytesAreQuiet
  <2>3. /\ tail4 \in Seq(Nat) /\ Len(tail4) = 7 + c4
        /\ (\A k \in 1..7 : tail4[k] = W[k]) /\ (\A k \in 1..c4 : tail4[7 + k] = tail3[k])
    <3>1. /\ W \in Seq(Nat) /\ tail3 \in Seq(Nat) /\ 7 \in Nat /\ c4 \in Nat
          /\ Len(W) = 7 /\ Len(tail3) = c4 /\ tail4 = W \o tail3
      BY <1>20, <1>21, <2>1, <2>2
    <3>2. /\ (W \o tail3) \in Seq(Nat) /\ Len((W \o tail3)) = Len(W) + Len(tail3)
          /\ \A k \in 1..Len(W) : (W \o tail3)[k] = W[k]
          /\ \A k \in 1..Len(tail3) : (W \o tail3)[Len(W) + k] = tail3[k]
      <4>1. W \in Seq(Nat) /\ tail3 \in Seq(Nat)
        BY <3>1
      <4> QED BY <4>1, Joined
    <3> QED BY <3>1, <3>2
  <2> QED BY <2>3 DEF c5
<1>6. /\ body \in Seq(Nat) /\ Len(body) = a + c5
      /\ \A k \in 1..a : body[k] = A[k]
      /\ \A k \in 1..c5 : body[a + k] = tail4[k]
  <2>1. A \in Seq(Nat) /\ Len(A) = a /\ a \in Nat
    BY <1>0 DEF a
  <2>2. tail4 \in Seq(Nat) /\ Len(tail4) = c5
    BY <1>5
  <2>3. /\ A \in Seq(Nat) /\ tail4 \in Seq(Nat) /\ a \in Nat /\ c5 \in Nat
        /\ Len(A) = a /\ Len(tail4) = c5 /\ body = A \o tail4
    BY <1>20, <1>21, <2>1, <2>2
  <2>4. /\ (A \o tail4) \in Seq(Nat) /\ Len((A \o tail4)) = Len(A) + Len(tail4)
        /\ \A k \in 1..Len(A) : (A \o tail4)[k] = A[k]
        /\ \A k \in 1..Len(tail4) : (A \o tail4)[Len(A) + k] = tail4[k]
    <3>1. A \in Seq(Nat) /\ tail4 \in Seq(Nat)
      BY <2>3
    <3> QED BY <3>1, Joined
  <2> QED BY <2>3, <2>4
<1> DEFINE pos == a + 3
           N == Len(body)
<1>7. /\ pos \in Nat /\ pos >= 5 /\ N \in Nat /\ N = pos + 4 + c4
  <2>1. N = a + c5
    BY <1>6
  <2> HIDE DEF N
  <2> QED BY <1>0, <1>20, <2>1 DEF c5
<1> HIDE DEF N
<1>8. body[pos - 3] \in Byte /\ body[pos + 3] \in Byte
  <2>1. pos - 3 = a /\ a \in 1..a /\ pos + 3 = a + 6 /\ 6 \in 1..c5 /\ 6 \in 1..7
    BY <1>0, <1>20 DEF c5
  <2>2. body[a + 6] = tail4[6] /\ tail4[6] = W[6]
    BY <1>5, <1>6, <2>1, Zenon
  <2>3. 13 \in Byte
    BY SMTT(10) DEF Byte
  <2>4. body[a] = A[a]
    BY <1>6, <2>1
  <2> QED BY <1>0, <1>1, <2>1, <2>2, <2>3, <2>4
<1>9. \A k \in 1..c4 : body[pos + 4 + k] = tail3[k]
  <2> SUFFICES ASSUME NEW k \in 1..c4 PROVE body[pos + 4 + k] = tail3[k]
    OBVIOUS
  <2>1. pos + 4 + k = a + (7 + k) /\ 7 + k \in 1..c5
    BY <1>0, <1>20 DEF c5
  <2>2. body[a + (7 + k)] = tail4[7 + k] /\ tail4[7 + k] = tail3[k]
    BY <1>5, <1>6, <2>1, Zenon
  <2> QED BY <2>1, <2>2
<1>10. \A k \in 1..L : body[pos + 4 + k] = s[k]
  <2>1. \A k \in 1..L : k \in 1..c4
    BY <1>0, <1>20 DEF c4
  <2> QED BY <1>4, <1>9, <2>1
<1>11. \A k \in 1..c3 : body[pos + 4 + L + k] = tail2[k]
  <2> SUFFICES ASSUME NEW k \in 1..c3 PROVE body[pos + 4 + L + k] = tail2[k]
    OBVIOUS
  <2>1. pos + 4 + L + k = pos + 4 + (L + k) /\ L + k \in 1..c4
    BY <1>0, <1>20, <1>7 DEF c4
  <2>2. body[pos + 4 + (L + k)] = tail3[L + k] /\ tail3[L + k] = tail2[k]
    BY <1>4, <1>9, <2>1
  <2> QED BY <2>1, <2>2
<1>12. \A k \in 1..4 : body[pos + 4 + L + k] = Marker[k]
  <2>1. \A k \in 1..4 : k \in 1..c3
    BY <1>20 DEF c3
  <2> QED BY <1>3, <1>11, <2>1
<1>13. ASSUME last, NEW k \in 1..N, k > pos + 4 + L + 4 + n PROVE body[k] \in Damage
  <2> DEFINE i == k - (pos + 4 + L + 4 + n)
             e == n + i
  <2>0. N = pos + 4 + L + 4 + n + b
    BY <1>0, <1>7, <1>20 DEF c2, c3, c4
  <2>1. i \in 1..b /\ 4 + e \in 1..c3 /\ e \in 1..c2 /\ k = pos + 4 + L + (4 + e)
    <3>1. N \in Nat /\ pos \in Nat /\ L \in Nat /\ n \in Nat /\ b \in Nat /\ k \in 1..N
          /\ k > pos + 4 + L + 4 + n
      BY <1>0, <1>7, <1>13
    <3> HIDE DEF pos
    <3> QED BY <2>0, <3>1 DEF c2, c3
  <2>2. tail1[e] = B[i]
    BY <1>2, <2>1
  <2> HIDE DEF i, e
  <2>3. body[pos + 4 + L + (4 + e)] = tail2[4 + e] /\ tail2[4 + e] = tail1[e]
    BY <1>3, <1>11, <2>1, Zenon
  <2>4. B[i] \in Damage
    BY <1>13, <2>1 DEF b
  <2> QED BY <2>1, <2>2, <2>3, <2>4
<1>14. ASSUME NEW k \in 1..N, body[k] = ReceiptType PROVE k = pos
  <2>0. a \in Nat /\ k \in Nat /\ k <= N /\ k >= 1
    BY <1>0, <1>7
  <2>1. CASE k <= a
    <3>1. k \in 1..a
      BY <2>0, <2>1
    <3>2. body[k] = A[k] /\ A[k] \in Quiet
      BY <1>6, <3>1 DEF Opens, a
    <3> QED BY <1>14, <3>2 DEF Quiet
  <2>2. CASE k > a /\ k <= a + 7
    <3> DEFINE i == k - a
    <3>1. i \in 1..7 /\ k = a + i /\ i \in 1..c5 /\ (i = 3 => k = pos)
      BY <2>0, <1>20, <2>2 DEF c5
    <3> HIDE DEF i
    <3>2. body[k] = W[i]
      BY <1>5, <1>6, <3>1
    <3>3. i = 3
      BY <1>1, <1>14, <3>1, <3>2 DEF Quiet
    <3> QED BY <3>1, <3>3
  <2>3. CASE k > a + 7
    <3> DEFINE i == k - (a + 7)
    <3>1. i \in 1..c4 /\ k = pos + 4 + i
      BY <2>0, <1>20, <1>7, <2>3
    <3> HIDE DEF i, pos
    <3>2. body[k] = tail3[i]
      BY <1>9, <3>1
    <3>3. tail3[i] \in Quiet
      BY <1>4, <3>1
    <3> QED BY <1>14, <3>2, <3>3 DEF Quiet
  <2> QED BY <2>0, <2>1, <2>2, <2>3
<1>15. pos + 4 + L + 4 + n <= N
  <2> HIDE DEF pos
  <2> QED BY <1>0, <1>7, <1>20, SMTT(30) DEF c2, c3, c4
<1> HIDE DEF pos
<1>16. Placed(body, s, pos, last)
  BY <1>7, <1>8, <1>10, <1>12, <1>13, <1>14, <1>15 DEF Placed, N, L, n
<1> QED BY <1>6, <1>16 DEF pos, a

\* Three sequences, joined in either order.
LEMMA Assoc ==
  ASSUME NEW T, NEW x \in Seq(T), NEW y \in Seq(T), NEW z \in Seq(T)
  PROVE  (x \o y) \o z = x \o (y \o z)
  BY ConcatAssociative

LEMMA JoinedIn ==
  ASSUME NEW T, NEW x \in Seq(T), NEW y \in Seq(T)
  PROVE  x \o y \in Seq(T)
  OBVIOUS

\* The same with concatenation as an operator that the provers do not look into.
Cat(x, y) == x \o y

LEMMA CatAssoc ==
  ASSUME NEW T, NEW x \in Seq(T), NEW y \in Seq(T), NEW z \in Seq(T)
  PROVE  Cat(Cat(x, y), z) = Cat(x, Cat(y, z))
  BY Assoc DEF Cat

LEMMA CatIn ==
  ASSUME NEW T, NEW x \in Seq(T), NEW y \in Seq(T)
  PROVE  Cat(x, y) \in Seq(T)
  BY JoinedIn DEF Cat

Regrouped(A, C, l, s, D, E, B) ==
    Cat(Cat(A, Cat(Cat(Cat(Cat(Cat(Cat(Cat(C, l), C), C), s), C), D), E)), B)
    = Cat(A, Cat(Cat(C, Cat(l, Cat(C, C))), Cat(s, Cat(Cat(C, D), Cat(E, B)))))

LEMMA Regroup ==
  ASSUME NEW A \in Seq(Nat), NEW C \in Seq(Nat), NEW l \in Seq(Nat), NEW s \in Seq(Nat),
         NEW D \in Seq(Nat), NEW E \in Seq(Nat), NEW B \in Seq(Nat)
  PROVE  Regrouped(A, C, l, s, D, E, B)
<1>1. Cat(Cat(Cat(C, l), C), C) = Cat(C, Cat(l, Cat(C, C)))
  <2>1. Cat(C, l) \in Seq(Nat) /\ Cat(C, C) \in Seq(Nat)
    BY CatIn
  <2>2. Cat(Cat(Cat(C, l), C), C) = Cat(Cat(C, l), Cat(C, C))
    BY <2>1, CatAssoc
  <2>3. Cat(Cat(C, l), Cat(C, C)) = Cat(C, Cat(l, Cat(C, C)))
    BY <2>1, CatAssoc
  <2> QED BY <2>2, <2>3
<1> DEFINE W == Cat(C, Cat(l, Cat(C, C)))
           V == Cat(W, s)
           M == Cat(C, D)
           F == Cat(E, B)
           P == Cat(Cat(Cat(V, C), D), E)
<1>2. W \in Seq(Nat) /\ M \in Seq(Nat) /\ F \in Seq(Nat)
  <2>1. Cat(C, C) \in Seq(Nat) /\ M \in Seq(Nat) /\ F \in Seq(Nat)
    BY CatIn
  <2>2. Cat(l, Cat(C, C)) \in Seq(Nat)
    BY <2>1, CatIn
  <2> QED BY <2>1, <2>2, CatIn
<1>3. P = Cat(Cat(Cat(Cat(Cat(Cat(Cat(C, l), C), C), s), C), D), E)
  BY <1>1
<1>4. W = Cat(C, Cat(l, Cat(C, C))) /\ M = Cat(C, D) /\ F = Cat(E, B)
  OBVIOUS
<1>5. P = Cat(Cat(Cat(V, C), D), E) /\ V = Cat(W, s)
  OBVIOUS
<1> HIDE DEF W, V, M, F, P
<1>6. V \in Seq(Nat)
  BY <1>2, <1>5, CatIn
<1>7. Cat(Cat(V, C), D) = Cat(V, M)
  BY <1>4, <1>6, CatAssoc
<1>8. Cat(V, M) \in Seq(Nat) /\ P = Cat(Cat(V, M), E)
  BY <1>2, <1>5, <1>6, <1>7, CatIn
<1>9. Cat(P, B) = Cat(Cat(V, M), F)
  BY <1>4, <1>8, CatAssoc
<1>10. Cat(Cat(V, M), F) = Cat(V, Cat(M, F))
  BY <1>2, <1>6, CatAssoc
<1>11. Cat(V, Cat(M, F)) = Cat(W, Cat(s, Cat(M, F)))
  <2>1. Cat(M, F) \in Seq(Nat)
    BY <1>2, CatIn
  <2> QED BY <1>2, <1>5, <2>1, CatAssoc
<1>12. Cat(P, B) = Cat(W, Cat(s, Cat(M, F)))
  BY <1>9, <1>10, <1>11
<1>13. Cat(Cat(A, P), B) = Cat(A, Cat(P, B))
  <2>1. P \in Seq(Nat)
    BY <1>8, CatIn
  <2> QED BY <2>1, CatAssoc
<1> QED BY <1>3, <1>4, <1>12, <1>13 DEF Regrouped

\* The bytes of a part end with the boundary.
LEMMA PartEnds ==
  ASSUME NEW T, {10, 13, 45} \subseteq T, NEW p, p.line \in T, p.body \in Seq(T)
  PROVE  \E x \in Seq(T) : Len(x) >= 2 /\ PartBytes(p) = x \o Boundary
<1> DEFINE one == <<p.line>>
           x1 == CRLF \o one
           x2 == x1 \o CRLF
           x3 == x2 \o CRLF
           x4 == x3 \o p.body
           x5 == x4 \o CRLF
           x == x5 \o Dashes
<1>1. CRLF \in Seq(T) /\ Len(CRLF) = 2 /\ Dashes \in Seq(T) /\ Len(Dashes) = 2 /\ one \in Seq(T)
  <2>1. 13 \in T /\ 10 \in T /\ 45 \in T
    OBVIOUS
  <2> QED BY <2>1 DEF CRLF, Dashes
<1>2. PartBytes(p) = x \o Boundary
  BY DEF PartBytes
<1> HIDE DEF one
<1>3. x1 \in Seq(T)
  BY <1>1, JoinedIn
<1> HIDE DEF x1
<1>4. x2 \in Seq(T)
  BY <1>1, <1>3, JoinedIn
<1> HIDE DEF x2
<1>5. x3 \in Seq(T)
  BY <1>1, <1>4, JoinedIn
<1> HIDE DEF x3
<1>6. x4 \in Seq(T)
  BY <1>5, JoinedIn
<1> HIDE DEF x4
<1>7. x5 \in Seq(T)
  BY <1>1, <1>6, JoinedIn
<1> HIDE DEF x5
<1>8. x \in Seq(T) /\ Len(x) >= 2
  <2>1. x5 \o Dashes \in Seq(T) /\ Len(x5 \o Dashes) = Len(x5) + Len(Dashes)
    BY <1>1, <1>7, Joined
  <2>2. Len(x5) \in Nat
    BY <1>7
  <2> QED BY <1>1, <2>1, <2>2
<1> HIDE DEF x
<1> QED BY <1>2, <1>8

\* The part of a receipt with what comes before and behind it.
LEMMA PlacedPart ==
  ASSUME NEW A, Opens(A), NEW s \in Seq(Byte), NEW B \in Seq(Quiet), NEW last,
         last => \A k \in 1..Len(B) : B[k] \in Damage,
         NEW body, body = (A \o PartBytes(ReceiptPart(s))) \o B
  PROVE  body \in Seq(Nat) /\ Placed(body, s, Len(A) + 3, last)
<1> DEFINE l == <<ReceiptType>>
           W == CRLF \o (l \o CRLF2)
           e == A \o (W \o (s \o (Marker \o (Boundary \o B))))
<1>1. CRLF \in Seq(Nat) /\ Dashes \in Seq(Nat) /\ l \in Seq(Nat)
  BY DEF CRLF, Dashes, ReceiptType
<1>2. PartBytes(ReceiptPart(s)) = ((((((CRLF \o l) \o CRLF) \o CRLF) \o s) \o CRLF) \o Dashes) \o Boundary
  BY DEF PartBytes, ReceiptPart
<1> HIDE DEF l
<1>3. A \in Seq(Nat) /\ s \in Seq(Nat) /\ B \in Seq(Nat) /\ Boundary \in Seq(Nat)
  BY BytesAreQuiet DEF Opens
<1>4. (A \o (((((((CRLF \o l) \o CRLF) \o CRLF) \o s) \o CRLF) \o Dashes) \o Boundary)) \o B
         = A \o ((CRLF \o (l \o (CRLF \o CRLF))) \o (s \o ((CRLF \o Dashes) \o (Boundary \o B))))
  <2>1. Cat(Cat(A, Cat(Cat(Cat(Cat(Cat(Cat(Cat(CRLF, l), CRLF), CRLF), s), CRLF), Dashes), Boundary)), B)
         = Cat(A, Cat(Cat(CRLF, Cat(l, Cat(CRLF, CRLF))), Cat(s, Cat(Cat(CRLF, Dashes), Cat(Boundary, B)))))
    <3>1. /\ A \in Seq(Nat) /\ CRLF \in Seq(Nat) /\ l \in Seq(Nat) /\ s \in Seq(Nat)
          /\ Dashes \in Seq(Nat) /\ Boundary \in Seq(Nat) /\ B \in Seq(Nat)
      BY <1>1, <1>3
    <3>2. Regrouped(A, CRLF, l, s, Dashes, Boundary, B)
      BY <3>1, Regroup
    <3> QED BY <3>2, Zenon DEF Regrouped
  <2> QED BY <2>1, Zenon DEF Cat
<1>5. body = e
  BY <1>2, <1>4, Zenon DEF CRLF2, Marker
<1>6. W = CRLF \o (<<ReceiptType>> \o CRLF2)
  BY DEF l
<1> DEFINE X == W
<1>7. body = A \o (X \o (s \o (Marker \o (Boundary \o B)))) /\ X = CRLF \o (<<ReceiptType>> \o CRLF2)
  BY <1>5, <1>6, Zenon
<1> HIDE DEF X
<1> QED BY <1>7, PlacedBehind

LEMMA FlatParts ==
  ASSUME NEW parts, NEW n \in Nat, Len(parts) = n, DOMAIN parts = 1..n
  PROVE  LET F == FlattenSeq([i \in DOMAIN parts |-> PartBytes(parts[i])]) IN
         /\ n = 0 => F = <<>>
         /\ n = 1 => F = PartBytes(parts[1])
         /\ n = 2 => F = PartBytes(parts[1]) \o PartBytes(parts[2])
         /\ n = 4 => F = ((PartBytes(parts[1]) \o PartBytes(parts[2])) \o PartBytes(parts[3])) \o PartBytes(parts[4])
<1> DEFINE seqs == [i \in DOMAIN parts |-> PartBytes(parts[i])]
           F == FlattenSeq(seqs)
<1>1. Len(seqs) = n /\ \A i \in 1..n : seqs[i] = PartBytes(parts[i])
  OBVIOUS
<1>2. n = 0 => F = <<>>
  <2>1. n = 0 => seqs = <<>>
    <3>1. n = 0 => DOMAIN parts = 1..0
      OBVIOUS
    <3> QED BY <3>1
  <2> HIDE DEF seqs
  <2> QED BY <1>1, <2>1 DEF FlattenSeq
<1> HIDE DEF seqs
<1>3. ASSUME n # 0
      PROVE  \E f : /\ f[1] = seqs[1]
                    /\ \A i \in 2..n : f[i] = f[i - 1] \o seqs[i]
                    /\ F = f[n]
  <2>1. Len(seqs) \in Nat \ {0}
    BY <1>1, <1>3
  <2> QED BY <1>1, <2>1, Flattened
<1>4. n = 1 => F = PartBytes(parts[1])
  <2> SUFFICES ASSUME n = 1 PROVE F = PartBytes(parts[1])
    OBVIOUS
  <2>1. 1 \in 1..n
    OBVIOUS
  <2> QED BY <1>1, <1>3, <2>1
<1>5. n = 2 => F = PartBytes(parts[1]) \o PartBytes(parts[2])
  <2> SUFFICES ASSUME n = 2 PROVE F = PartBytes(parts[1]) \o PartBytes(parts[2])
    OBVIOUS
  <2>1. 1 \in 1..n /\ 2 \in 1..n /\ 2 \in 2..n /\ 2 - 1 = 1 /\ n # 0
    OBVIOUS
  <2>2. PICK f : f[1] = seqs[1] /\ (\A i \in 2..n : f[i] = f[i - 1] \o seqs[i]) /\ F = f[n]
    BY <1>3, <2>1
  <2>3. f[2] = f[2 - 1] \o seqs[2]
    BY <2>1, <2>2
  <2> QED BY <1>1, <2>1, <2>2, <2>3
<1>6. n = 4 => F = ((PartBytes(parts[1]) \o PartBytes(parts[2])) \o PartBytes(parts[3])) \o PartBytes(parts[4])
  <2> SUFFICES ASSUME n = 4
               PROVE  F = ((PartBytes(parts[1]) \o PartBytes(parts[2])) \o PartBytes(parts[3])) \o PartBytes(parts[4])
    OBVIOUS
  <2>1. /\ 1 \in 1..n /\ 2 \in 1..n /\ 3 \in 1..n /\ 4 \in 1..n /\ n # 0
        /\ 2 \in 2..n /\ 2 - 1 = 1 /\ 3 \in 2..n /\ 3 - 1 = 2 /\ 4 \in 2..n /\ 4 - 1 = 3
    OBVIOUS
  <2>2. PICK f : f[1] = seqs[1] /\ (\A i \in 2..n : f[i] = f[i - 1] \o seqs[i]) /\ F = f[n]
    BY <1>3, <2>1
  <2>3. f[2] = f[2 - 1] \o seqs[2] /\ f[3] = f[3 - 1] \o seqs[3] /\ f[4] = f[4 - 1] \o seqs[4]
    BY <2>1, <2>2
  <2>4. f[2] = f[1] \o seqs[2] /\ f[3] = f[2] \o seqs[3] /\ f[4] = f[3] \o seqs[4]
    BY <2>1, <2>3
  <2>5. seqs[1] = PartBytes(parts[1]) /\ seqs[2] = PartBytes(parts[2])
        /\ seqs[3] = PartBytes(parts[3]) /\ seqs[4] = PartBytes(parts[4])
    BY <1>1, <2>1
  <2> QED BY <2>2, <2>4, <2>5, Zenon
<1> QED BY <1>2, <1>4, <1>5, <1>6 DEF seqs

\* A part without a receipt's header line.
QuietPart(p) == p.line \in Quiet /\ p.body \in Seq(Quiet)

LEMMA LineEnds == {10, 13, 45} \subseteq Quiet /\ {10, 13, 45} \subseteq Nat
  BY DEF Quiet, ReceiptType

LEMMA QuietBytes ==
  ASSUME NEW p, QuietPart(p)
  PROVE  /\ PartBytes(p) \in Seq(Quiet) /\ PartBytes(p) \in Seq(Nat)
         /\ \A A : Opens(A) => Opens(A \o PartBytes(p))
<1>1. PICK x \in Seq(Quiet) : Len(x) >= 2 /\ PartBytes(p) = x \o Boundary
  <2>1. {10, 13, 45} \subseteq Quiet /\ p.line \in Quiet /\ p.body \in Seq(Quiet)
    BY LineEnds DEF QuietPart
  <2> QED BY <2>1, PartEnds
<1>2. Boundary \in Seq(Quiet)
  BY BytesAreQuiet
<1>3. PartBytes(p) \in Seq(Quiet)
  BY <1>1, <1>2, JoinedIn
<1>4. PartBytes(p) \in Seq(Nat)
  BY <1>3, BytesAreQuiet
<1>5. ASSUME NEW A, Opens(A) PROVE Opens(A \o PartBytes(p))
  <2> DEFINE y == A \o x
  <2>1. A \in Seq(Quiet) /\ Len(A) >= 3
    BY <1>5 DEF Opens
  <2>2. y \in Seq(Quiet) /\ Len(y) >= 2
    <3>1. A \o x \in Seq(Quiet) /\ Len(A \o x) = Len(A) + Len(x)
      BY <2>1, Joined
    <3>2. Len(A) \in Nat /\ Len(x) \in Nat
      BY <2>1
    <3> QED BY <2>1, <3>1, <3>2
  <2>3. y \o Boundary = A \o (x \o Boundary)
    <3>1. Cat(Cat(A, x), Boundary) = Cat(A, Cat(x, Boundary))
      BY <1>2, <2>1, CatAssoc
    <3> QED BY <3>1, Zenon DEF Cat
  <2> HIDE DEF y
  <2>4. Opens(y \o Boundary)
    BY <2>2, OpensWith
  <2>5. y \o Boundary = A \o PartBytes(p)
    BY <1>1, <2>3, Zenon
  <2> QED BY <2>4, <2>5, Zenon
<1> QED BY <1>3, <1>4, <1>5

LEMMA ReceiptBytes ==
  ASSUME NEW s \in Seq(Byte)
  PROVE  PartBytes(ReceiptPart(s)) \in Seq(Nat)
<1> DEFINE p == ReceiptPart(s)
<1>1. {10, 13, 45} \subseteq Nat /\ p.line \in Nat /\ p.body \in Seq(Nat)
  BY LineEnds, BytesAreQuiet DEF ReceiptPart, ReceiptType
<1> HIDE DEF p
<1>2. PICK x \in Seq(Nat) : PartBytes(p) = x \o Boundary
  BY <1>1, PartEnds
<1>3. Boundary \in Seq(Nat)
  BY BytesAreQuiet
<1> QED BY <1>2, <1>3, JoinedIn DEF p

Opening0 == Dashes \o Boundary

LEMMA OpeningIs == Opens(Opening0) /\ Opening0 \in Seq(Nat) /\ Dashes \in Seq(Quiet) /\ Dashes \in Seq(Nat)
                   /\ \A k \in 1..Len(Dashes) : Dashes[k] \in Damage
<1>1. 45 \in Quiet /\ 45 \in Damage /\ 45 \in Nat
  BY DEF Quiet, ReceiptType, Damage
<1>2. Dashes \in Seq(Quiet) /\ Len(Dashes) = 2 /\ Dashes \in Seq(Nat)
      /\ \A k \in 1..2 : Dashes[k] = 45
  BY <1>1 DEF Dashes
<1>3. Opens(Opening0)
  <2>1. Dashes \in Seq(Quiet) /\ Len(Dashes) >= 2
    BY <1>2
  <2>2. Opens(Dashes \o Boundary)
    BY <2>1, OpensWith
  <2> QED BY <2>2 DEF Opening0
<1> QED BY <1>1, <1>2, <1>3, BytesAreQuiet DEF Opens

\* The answers as sequences of parts.
FourParts(a, b, c, d) ==
    MultipartBody(<<a, b, c, d>>) =
        ((((Opening0 \o PartBytes(a)) \o PartBytes(b)) \o PartBytes(c)) \o PartBytes(d)) \o Dashes

LEMMA BodiesOf ==
  ASSUME NEW a, NEW b, NEW c, NEW d,
         PartBytes(a) \in Seq(Nat), PartBytes(b) \in Seq(Nat),
         PartBytes(c) \in Seq(Nat), PartBytes(d) \in Seq(Nat)
  PROVE  /\ MultipartBody(<<>>) = Opening0 \o Dashes
         /\ MultipartBody(<<a>>) = (Opening0 \o PartBytes(a)) \o Dashes
         /\ MultipartBody(<<a, b>>) = ((Opening0 \o PartBytes(a)) \o PartBytes(b)) \o Dashes
         /\ FourParts(a, b, c, d)
<1> DEFINE F(parts) == FlattenSeq([i \in DOMAIN parts |-> PartBytes(parts[i])])
           A == PartBytes(a)
           B == PartBytes(b)
           C == PartBytes(c)
           D == PartBytes(d)
<1>1. \A parts : MultipartBody(parts) = (Opening0 \o F(parts)) \o Dashes
  BY Zenon DEF MultipartBody, Opening0
<1>2. Opening0 \in Seq(Nat)
  BY OpeningIs
<1>3. F(<<>>) = <<>>
  <2>1. Len(<<>>) = 0 /\ DOMAIN <<>> = 1..0 /\ 0 \in Nat
    OBVIOUS
  <2> QED BY <2>1, FlatParts, Zenon
<1>4. F(<<a>>) = A
  <2> DEFINE x == <<a>>
  <2>1. Len(x) = 1 /\ DOMAIN x = 1..1 /\ 1 \in Nat /\ x[1] = a
    OBVIOUS
  <2> HIDE DEF x, F
  <2>2. F(x) = PartBytes(x[1])
    BY <2>1, FlatParts DEF F
  <2> QED BY <2>1, <2>2 DEF x
<1>5. F(<<a, b>>) = A \o B
  <2> DEFINE x == <<a, b>>
  <2>1. Len(x) = 2 /\ DOMAIN x = 1..2 /\ 2 \in Nat /\ x[1] = a /\ x[2] = b
    OBVIOUS
  <2> HIDE DEF x, F
  <2>2. F(x) = PartBytes(x[1]) \o PartBytes(x[2])
    BY <2>1, FlatParts DEF F
  <2> QED BY <2>1, <2>2 DEF x
<1>6. F(<<a, b, c, d>>) = ((A \o B) \o C) \o D
  <2> DEFINE x == <<a, b, c, d>>
  <2>1. Len(x) = 4 /\ DOMAIN x = 1..4 /\ 4 \in Nat /\ x[1] = a /\ x[2] = b /\ x[3] = c /\ x[4] = d
    OBVIOUS
  <2> HIDE DEF x, F
  <2>2. F(x) = ((PartBytes(x[1]) \o PartBytes(x[2])) \o PartBytes(x[3])) \o PartBytes(x[4])
    BY <2>1, FlatParts DEF F
  <2> QED BY <2>1, <2>2 DEF x
<1> HIDE DEF F, A, B, C, D
<1>7. A \in Seq(Nat) /\ B \in Seq(Nat) /\ C \in Seq(Nat) /\ D \in Seq(Nat)
  BY DEF A, B, C, D
<1>8. Opening0 \o <<>> = Opening0
  BY <1>2, ConcatEmptySeq
<1>9. Opening0 \o (A \o B) = (Opening0 \o A) \o B
  <2>1. Cat(Cat(Opening0, A), B) = Cat(Opening0, Cat(A, B))
    BY <1>2, <1>7, CatAssoc
  <2> QED BY <2>1, Zenon DEF Cat
<1>10. Opening0 \o (((A \o B) \o C) \o D) = (((Opening0 \o A) \o B) \o C) \o D
  <2>1. Cat(A, B) \in Seq(Nat)
    BY <1>7, CatIn
  <2>2. Cat(Cat(A, B), C) \in Seq(Nat)
    BY <1>7, <2>1, CatIn
  <2>3. Cat(Cat(Opening0, Cat(Cat(A, B), C)), D) = Cat(Opening0, Cat(Cat(Cat(A, B), C), D))
    BY <1>2, <1>7, <2>2, CatAssoc
  <2>4. Cat(Cat(Opening0, Cat(A, B)), C) = Cat(Opening0, Cat(Cat(A, B), C))
    BY <1>2, <1>7, <2>1, CatAssoc
  <2>5. Cat(Cat(Opening0, A), B) = Cat(Opening0, Cat(A, B))
    BY <1>2, <1>7, CatAssoc
  <2>6. Cat(Opening0, Cat(Cat(Cat(A, B), C), D)) = Cat(Cat(Cat(Cat(Opening0, A), B), C), D)
    BY <2>3, <2>4, <2>5
  <2> QED BY <2>6, Zenon DEF Cat
<1>11. MultipartBody(<<>>) = Opening0 \o Dashes
  BY <1>1, <1>3, <1>8, Zenon
<1>12. MultipartBody(<<a>>) = (Opening0 \o A) \o Dashes
  BY <1>1, <1>4, Zenon
<1>13. MultipartBody(<<a, b>>) = ((Opening0 \o A) \o B) \o Dashes
  BY <1>1, <1>5, <1>9, Zenon
<1>14. MultipartBody(<<a, b, c, d>>) = ((((Opening0 \o A) \o B) \o C) \o D) \o Dashes
  BY <1>1, <1>6, <1>10, Zenon
<1> QED BY <1>11, <1>12, <1>13, <1>14, Zenon DEF A, B, C, D, FourParts

\* Where an answer carries a receipt: not at all, or as it was sent.
LEMMA PlacedCarries ==
  ASSUME NEW body \in Seq(Nat), NEW s \in Seq(Byte), NEW pos, NEW last, Placed(body, s, pos, last)
  PROVE  Carries(body, s, 0)
<1> DEFINE i == pos + 4
<1>1. i - (pos + 4) = 0 /\ Len(body) \in Nat /\ Len(body) <= Len(body)
  <2>1. pos \in Nat
    BY DEF Placed
  <2> QED BY <2>1
<1> HIDE DEF i
<1>2. Carries(body, s, i - (pos + 4))
  <2>1. \A k \in 1..Len(body) : body[k] = body[k] \/ (last /\ k = i /\ body[k] \in Damage)
    OBVIOUS
  <2> QED BY <1>1, <2>1, StillCarried
<1> QED BY <1>1, <1>2

LEMMA QuietCarries ==
  ASSUME NEW body \in Seq(Quiet), NEW s
  PROVE  body \in Seq(Nat) /\ Carries(body, s, 0)
<1>1. \A k \in 1..Len(body) : body[k] \in Quiet
  OBVIOUS
<1>2. \A k \in 1..Len(body) : body[k] # ReceiptType
  BY <1>1 DEF Quiet
<1> QED BY <1>2, BytesAreQuiet DEF Carries

LEMMA JsonIsQuiet ==
  ASSUME NEW d \in Nat, d # ReceiptType
  PROVE  QuietPart(Json(d))
<1>1. d \in Quiet /\ JsonType \in Quiet
  BY DEF Quiet, JsonType, ReceiptType
<1>2. <<d>> \in Seq(Quiet)
  BY <1>1
<1> QED BY <1>1, <1>2 DEF QuietPart, Json

\* A document, then the receipt.
LEMMA ReceiptLast ==
  ASSUME NEW s \in Seq(Byte), NEW d \in Nat, d # ReceiptType
  PROVE  LET body == MultipartBody(<<Json(d), ReceiptPart(s)>>) IN
         body \in Seq(Nat) /\ \E pos : Placed(body, s, pos, TRUE)
<1> DEFINE body == MultipartBody(<<Json(d), ReceiptPart(s)>>)
           A == Opening0 \o PartBytes(Json(d))
<1>1. PartBytes(Json(d)) \in Seq(Nat) /\ Opens(A)
  BY JsonIsQuiet, QuietBytes, OpeningIs
<1>2. PartBytes(ReceiptPart(s)) \in Seq(Nat)
  BY ReceiptBytes
<1>3. body = (A \o PartBytes(ReceiptPart(s))) \o Dashes
  BY <1>1, <1>2, BodiesOf
<1>4. Dashes \in Seq(Quiet) /\ (TRUE => \A k \in 1..Len(Dashes) : Dashes[k] \in Damage)
  BY OpeningIs
<1> HIDE DEF A, body
<1>5. body \in Seq(Nat) /\ Placed(body, s, Len(A) + 3, TRUE)
  BY <1>1, <1>3, <1>4, PlacedPart
<1> QED BY <1>5 DEF body

LEMMA GoodBodies ==
  ASSUME NEW s \in Seq(Byte), NEW p \in GoodParts(s)
  PROVE  MultipartBody(p) \in Seq(Nat) /\ Carries(MultipartBody(p), s, 0)
<1> DEFINE J == Json(300)
           K == Json(301)
           R == ReceiptPart(s)
           O == [line |-> OtherHeader, body |-> <<>>]
           PR == PartBytes(R)
           PJ == PartBytes(J)
           PK == PartBytes(K)
           PO == PartBytes(O)
<1>1. /\ PJ \in Seq(Nat) /\ PJ \in Seq(Quiet) /\ PK \in Seq(Nat) /\ PK \in Seq(Quiet)
      /\ \A A : Opens(A) => Opens(A \o PJ)
  <2>1. QuietPart(J) /\ QuietPart(K)
    BY JsonIsQuiet DEF ReceiptType
  <2> HIDE DEF J, K
  <2> QED BY <2>1, QuietBytes
<1>2. PO \in Seq(Nat) /\ \A A : Opens(A) => Opens(A \o PO)
  <2>1. QuietPart(O)
    <3>1. OtherHeader \in Quiet
      BY DEF Quiet, OtherHeader, ReceiptType
    <3>2. <<>> \in Seq(Quiet)
      BY EmptySeq
    <3> QED BY <3>1, <3>2 DEF QuietPart
  <2> HIDE DEF O
  <2> QED BY <2>1, QuietBytes
<1>3. PR \in Seq(Nat)
  BY ReceiptBytes
<1>4. p = <<J, R>> \/ p = <<R, J>> \/ p = <<O, J, R, K>>
  BY DEF GoodParts
<1> HIDE DEF J, K, R, O
<1>5. CASE p = <<J, R>>
  <2>1. MultipartBody(p) \in Seq(Nat) /\ \E pos : Placed(MultipartBody(p), s, pos, TRUE)
    <3>1. 300 \in Nat /\ 300 # ReceiptType
      BY DEF ReceiptType
    <3>2. p = <<Json(300), ReceiptPart(s)>>
      BY <1>5 DEF J, R
    <3> QED BY <3>1, <3>2, ReceiptLast, ZenonT(30)
  <2> QED BY <2>1, PlacedCarries
<1>6. CASE p = <<R, J>>
  <2> DEFINE body == MultipartBody(p)
             B == PJ \o Dashes
             X == Opening0 \o PR
  <2>1. body = (X \o PJ) \o Dashes
    BY <1>1, <1>3, <1>6, BodiesOf
  <2>2. X \in Seq(Nat) /\ B \in Seq(Quiet)
    BY <1>1, <1>3, OpeningIs, JoinedIn
  <2>3. (X \o PJ) \o Dashes = X \o B
    <3>1. Cat(Cat(X, PJ), Dashes) = Cat(X, Cat(PJ, Dashes))
      <4>1. X \in Seq(Nat) /\ PJ \in Seq(Nat) /\ Dashes \in Seq(Nat)
        BY <1>1, <2>2, OpeningIs
      <4> HIDE DEF X, PJ
      <4> QED BY <4>1, CatAssoc
    <3> QED BY <3>1, Zenon DEF Cat
  <2> DEFINE last == FALSE
  <2>4. body = (Opening0 \o PartBytes(ReceiptPart(s))) \o B
    BY <2>1, <2>3, Zenon DEF R
  <2>5. (last => \A k \in 1..Len(B) : B[k] \in Damage) /\ Opens(Opening0)
    BY OpeningIs
  <2> HIDE DEF B, X, body, last
  <2>6. body \in Seq(Nat) /\ Placed(body, s, Len(Opening0) + 3, last)
    BY <2>2, <2>4, <2>5, PlacedPart
  <2> QED BY <2>6, PlacedCarries DEF body
<1>7. CASE p = <<O, J, R, K>>
  <2> DEFINE body == MultipartBody(p)
             A == (Opening0 \o PO) \o PJ
             X == A \o PR
             B == PK \o Dashes
  <2>1. Opens(A)
    BY <1>1, <1>2, OpeningIs
  <2>2. body = (X \o PK) \o Dashes
    <3>1. /\ PartBytes(O) \in Seq(Nat) /\ PartBytes(J) \in Seq(Nat)
          /\ PartBytes(R) \in Seq(Nat) /\ PartBytes(K) \in Seq(Nat)
      BY <1>1, <1>2, <1>3
    <3>2. FourParts(O, J, R, K)
      BY <3>1, BodiesOf
    <3> QED BY <1>7, <3>2, Zenon DEF FourParts
  <2>3. B \in Seq(Quiet)
    BY <1>1, OpeningIs, JoinedIn
  <2>4. X \in Seq(Nat)
    <3>1. A \in Seq(Nat)
      BY <2>1, BytesAreQuiet DEF Opens
    <3> HIDE DEF A
    <3> QED BY <1>3, <3>1, JoinedIn
  <2> HIDE DEF A
  <2>5. (X \o PK) \o Dashes = X \o B
    <3>1. Cat(Cat(X, PK), Dashes) = Cat(X, Cat(PK, Dashes))
      <4>1. X \in Seq(Nat) /\ PK \in Seq(Nat) /\ Dashes \in Seq(Nat)
        BY <1>1, <2>4, OpeningIs
      <4> HIDE DEF X, PK
      <4> QED BY <4>1, CatAssoc
    <3> QED BY <3>1, Zenon DEF Cat
  <2> DEFINE last == FALSE
  <2>6. body = (A \o PartBytes(ReceiptPart(s))) \o B
    BY <2>2, <2>5, Zenon DEF R
  <2>7. last => \A k \in 1..Len(B) : B[k] \in Damage
    OBVIOUS
  <2> HIDE DEF B, X, body, last
  <2>8. body \in Seq(Nat) /\ Placed(body, s, Len(A) + 3, last)
    BY <2>1, <2>3, <2>6, <2>7, PlacedPart
  <2> QED BY <2>8, PlacedCarries DEF body
<1> QED BY <1>4, <1>5, <1>6, <1>7

LEMMA PoorBodies ==
  ASSUME NEW s \in Seq(Byte), NEW p \in PoorParts(s)
  PROVE  MultipartBody(p) \in Seq(Nat) /\ Carries(MultipartBody(p), s, 0)
<1> DEFINE J == Json(300)
           N == Json(NotACompletion)
           R == ReceiptPart(s)
           O == [line |-> ReceiptTypeParams, body |-> s]
           body == MultipartBody(p)
<1>1. /\ PartBytes(J) \in Seq(Nat) /\ PartBytes(J) \in Seq(Quiet)
  <2>1. QuietPart(J)
    BY JsonIsQuiet DEF ReceiptType
  <2> HIDE DEF J
  <2> QED BY <2>1, QuietBytes
<1>2. PartBytes(O) \in Seq(Nat) /\ PartBytes(O) \in Seq(Quiet)
  <2>1. QuietPart(O)
    <3>1. ReceiptTypeParams \in Quiet
      BY DEF Quiet, ReceiptTypeParams, ReceiptType
    <3> QED BY <3>1, BytesAreQuiet DEF QuietPart
  <2> HIDE DEF O
  <2> QED BY <2>1, QuietBytes
<1>3. PartBytes(R) \in Seq(Nat)
  BY ReceiptBytes
<1>4. p = <<>> \/ p = <<J>> \/ p = <<R>> \/ p = <<N, R>> \/ p = <<J, O>>
  BY DEF PoorParts
<1>5. Opening0 \in Seq(Quiet) /\ Dashes \in Seq(Quiet)
  BY OpeningIs DEF Opens
<1> HIDE DEF J, N, R, O
<1>6. CASE p = <<>>
  <2>1. body = Opening0 \o Dashes
    BY <1>1, <1>6, BodiesOf
  <2>2. body \in Seq(Quiet)
    BY <1>5, <2>1, JoinedIn
  <2> QED BY <2>2, QuietCarries
<1>7. CASE p = <<J>>
  <2>1. body = (Opening0 \o PartBytes(J)) \o Dashes
    BY <1>1, <1>7, BodiesOf
  <2>2. Opening0 \o PartBytes(J) \in Seq(Quiet)
    BY <1>1, <1>5, JoinedIn
  <2>3. body \in Seq(Quiet)
    <3> DEFINE x == Opening0 \o PartBytes(J)
    <3>1. x \in Seq(Quiet) /\ body = x \o Dashes
      BY <2>1, <2>2
    <3> HIDE DEF x
    <3> QED BY <1>5, <3>1, JoinedIn
  <2> QED BY <2>3, QuietCarries
<1>8. CASE p = <<R>>
  <2> DEFINE last == FALSE
  <2>1. body = (Opening0 \o PartBytes(ReceiptPart(s))) \o Dashes
    BY <1>3, <1>8, BodiesOf DEF R
  <2>2. (last => \A k \in 1..Len(Dashes) : Dashes[k] \in Damage) /\ Opens(Opening0)
    BY OpeningIs
  <2> HIDE DEF body, last
  <2>3. body \in Seq(Nat) /\ Placed(body, s, Len(Opening0) + 3, last)
    BY <1>5, <2>1, <2>2, PlacedPart
  <2> QED BY <2>3, PlacedCarries DEF body
<1>9. CASE p = <<N, R>>
  <2>1. NotACompletion \in Nat /\ NotACompletion # ReceiptType
    BY DEF NotACompletion, ReceiptType
  <2>2. body \in Seq(Nat) /\ \E pos : Placed(body, s, pos, TRUE)
    BY <1>9, <2>1, ReceiptLast DEF N, R
  <2> QED BY <2>2, PlacedCarries
<1>10. CASE p = <<J, O>>
  <2>1. body = ((Opening0 \o PartBytes(J)) \o PartBytes(O)) \o Dashes
    BY <1>1, <1>2, <1>10, BodiesOf
  <2> DEFINE x == Opening0 \o PartBytes(J)
             y == x \o PartBytes(O)
  <2>2. x \in Seq(Quiet)
    BY <1>1, <1>5, JoinedIn
  <2> HIDE DEF x
  <2>3. y \in Seq(Quiet)
    BY <1>2, <2>2, JoinedIn
  <2>4. body = y \o Dashes
    BY <2>1 DEF x
  <2> HIDE DEF y
  <2>5. body \in Seq(Quiet)
    BY <1>5, <2>3, <2>4, JoinedIn
  <2> QED BY <2>5, QuietCarries
<1> QED BY <1>4, <1>6, <1>7, <1>8, <1>9, <1>10

LEMMA BrokenCarries ==
  ASSUME NEW s \in Seq(Byte), NEW new \in BrokenBodies(s)
  PROVE  new \in Seq(Nat) /\ \E j : Carries(new, s, j)
<1> DEFINE body == MultipartBody(<<Json(300), ReceiptPart(s)>>)
<1>1. body \in Seq(Nat) /\ \E pos : Placed(body, s, pos, TRUE)
  <2>1. 300 \in Nat /\ 300 # ReceiptType
    BY DEF ReceiptType
  <2> QED BY <2>1, ReceiptLast
<1>2. PICK pos : Placed(body, s, pos, TRUE)
  BY <1>1
<1>3. \/ \E n \in 0..(Len(body) - 1) : new = SubSeq(body, 1, n)
      \/ \E i \in DOMAIN body, v \in Damage : new = [body EXCEPT ![i] = v]
  <2>1. new \in Broken(body)
    BY DEF BrokenBodies
  <2> HIDE DEF body
  <2> QED BY <2>1 DEF Broken
<1> HIDE DEF body
<1>4. CASE \E n \in 0..(Len(body) - 1) : new = SubSeq(body, 1, n)
  <2>1. PICK n \in 0..(Len(body) - 1) : new = SubSeq(body, 1, n)
    BY <1>4
  <2>2. Len(body) \in Nat
    BY <1>1
  <2>3. body \in Seq(Nat) /\ 0 \in Nat /\ n \in Nat /\ 0 <= n /\ n <= Len(body) /\ n - 0 = n /\ 0 + 1 = 1
    BY <1>1, <2>2
  <2>4. /\ SubSeq(body, 0 + 1, n) \in Seq(Nat) /\ Len(SubSeq(body, 0 + 1, n)) = n - 0
        /\ \A k \in 1..(n - 0) : SubSeq(body, 0 + 1, n)[k] = body[0 + k]
    BY <2>3, Piece
  <2>5. new \in Seq(Nat) /\ Len(new) = n /\ \A k \in 1..n : new[k] = body[k]
    <3>1. \A k \in 1..n : 0 + k = k
      BY <2>3
    <3> QED BY <2>1, <2>3, <2>4, <3>1
  <2> DEFINE i == 0
             last == TRUE
  <2>6. \A k \in 1..Len(new) : new[k] = body[k] \/ (last /\ k = i /\ new[k] \in Damage)
    BY <2>5
  <2>7. Placed(body, s, pos, last) /\ Len(new) <= Len(body)
    BY <1>2, <2>3, <2>5
  <2> HIDE DEF i, last
  <2>8. Carries(new, s, i - (pos + 4))
    BY <1>1, <2>5, <2>6, <2>7, StillCarried
  <2> QED BY <2>5, <2>8
<1>5. CASE \E i \in DOMAIN body, v \in Damage : new = [body EXCEPT ![i] = v]
  <2>1. PICK i \in DOMAIN body, v \in Damage : new = [body EXCEPT ![i] = v]
    BY <1>5
  <2>2. v \in Nat
    BY DamageIs, BytesAreQuiet
  <2>3. /\ new \in Seq(Nat) /\ Len(new) = Len(body) /\ Len(body) \in Nat
        /\ \A k \in 1..Len(new) : new[k] = body[k] \/ (k = i /\ new[k] = v)
    BY <1>1, <2>1, <2>2
  <2> DEFINE last == TRUE
  <2>4. \A k \in 1..Len(new) : new[k] = body[k] \/ (last /\ k = i /\ new[k] \in Damage)
    BY <2>3
  <2>5. Placed(body, s, pos, last) /\ Len(new) <= Len(body)
    <3>1. Len(new) <= Len(body)
      BY <2>3
    <3> QED BY <1>2, <3>1
  <2> HIDE DEF last
  <2>6. Carries(new, s, i - (pos + 4))
    BY <1>1, <2>3, <2>4, <2>5, StillCarried
  <2> QED BY <2>3, <2>6
<1> QED BY <1>3, <1>4, <1>5

-----------------------------------------------------------------------------
\* What the client makes of an answer.

LEMMA ParsedIs ==
  /\ \A r, t, x : LET p == Parsed(r, t, x) IN p.result = r /\ p.text = t /\ p.receipt = x
  /\ \A r : Error(r).result = r
  /\ \A b, x : ChatText(b, x).result \in {"ok", "corrupt_envelope"}
  /\ \A b, x : ChatText(b, x).result = "ok" => ChatText(b, x).receipt = x
<1>1. \A r, t, x : LET p == Parsed(r, t, x) IN p.result = r /\ p.text = t /\ p.receipt = x
  BY DEF Parsed
<1>2. \A r : Error(r).result = r
  BY <1>1 DEF Error
<1>3. ASSUME NEW b, NEW x
      PROVE  /\ ChatText(b, x).result \in {"ok", "corrupt_envelope"}
             /\ ChatText(b, x).result = "ok" => ChatText(b, x).receipt = x
  <2>1. ChatText(b, x) = Parsed("ok", b[1], x) \/ ChatText(b, x) = Error("corrupt_envelope")
    BY DEF ChatText
  <2> QED BY <1>1, <1>2, <2>1
<1> QED BY <1>1, <1>2, <1>3

\* A receipt is only got from an answer that is not degraded, and out of its body.
LEMMA GotReceipt ==
  ASSUME NEW a, ChatAnswerParsed(a).result = "ok"
  PROVE  LET m == ParseMultipart(a.body, a.boundary)
             got == FirstOfType(m.parts, ReceiptType)
         IN
         /\ ~a.warning /\ IsSuccess(a.status) /\ a.boundary # <<>>
         /\ m.result = "ok" /\ got # <<>> /\ ChatAnswerParsed(a).receipt = got
<1> DEFINE p == ParseChatResponse(a)
           m == ParseMultipart(a.body, a.boundary)
           json == FirstOfType(m.parts, JsonType)
           got == FirstOfType(m.parts, ReceiptType)
<1>1. /\ IsSuccess(a.status) \/ a.warning
      /\ p.result = "ok" /\ p.receipt # <<>> /\ ChatAnswerParsed(a) = p
  <2>1. ChatAnswerParsed(a) = IF ~IsSuccess(a.status) /\ ~a.warning THEN Error("network")
                              ELSE IF p.result = "ok" /\ p.receipt = <<>> THEN Error("receipt_missing")
                              ELSE p
    BY DEF ChatAnswerParsed
  <2> HIDE DEF p
  <2> QED BY <2>1, ParsedIs
<1>2. ~a.warning
  <2>1. a.warning => p = ChatText(a.body, <<>>)
    BY DEF ParseChatResponse
  <2> HIDE DEF p
  <2> QED BY <1>1, <2>1, ParsedIs
<1>3. p = ParseMultipartAnswer(a)
  <2>1. p = ParseMultipartAnswer(a) \/ p = Error("receipt_missing")
    BY <1>2 DEF ParseChatResponse
  <2> HIDE DEF p
  <2> QED BY <1>1, <2>1, ParsedIs
<1>4. /\ a.boundary # <<>> /\ m.result = "ok" /\ got # <<>>
      /\ p = ChatText(json[1], got)
  <2>1. p = IF a.boundary = <<>> THEN Error("corrupt_envelope")
            ELSE IF m.result # "ok" THEN Error(m.result)
            ELSE IF json = <<>> THEN Error("corrupt_envelope")
            ELSE IF got = <<>> THEN Error("receipt_missing")
            ELSE ChatText(json[1], got)
    BY <1>3 DEF ParseMultipartAnswer
  <2> HIDE DEF p, m, json, got
  <2> QED BY <1>1, <2>1, ParsedIs
<1> HIDE DEF p, m, json, got
<1>5. p.receipt = got
  BY <1>1, <1>4, ParsedIs
<1> QED BY <1>1, <1>2, <1>4, <1>5 DEF m, got

\* An answer that is not degraded and has a boundary carries the receipt or none, and a
\* good one carries it unchanged.
LEMMA AnswerCarries ==
  ASSUME NEW s \in Seq(Byte), NEW a \in GoodAnswers(s) \cup OtherAnswers(s),
         IsSuccess(a.status), ~a.warning, a.boundary # <<>>
  PROVE  /\ a.boundary = Boundary /\ a.body \in Seq(Nat)
         /\ \E j : Carries(a.body, s, j) /\ (a \in GoodAnswers(s) => j = 0)
<1>1. CASE a \in GoodAnswers(s)
  <2>1. PICK p \in GoodParts(s) : a = Mixed(200, FALSE, MultipartBody(p))
    BY <1>1 DEF GoodAnswers
  <2>2. MultipartBody(p) \in Seq(Nat) /\ Carries(MultipartBody(p), s, 0)
    BY GoodBodies
  <2>3. a.boundary = Boundary /\ a.body = MultipartBody(p)
    BY <2>1 DEF Mixed
  <2> QED BY <2>2, <2>3
<1>2. CASE a \notin GoodAnswers(s)
  <2>1. \/ a \in PoorAnswers(s) \/ a \in BrokenAnswers(s) \/ a \in UnboundedAnswers(s)
        \/ a \in UnavailableAnswers(s) \/ a \in PlainAnswers
    BY <1>2 DEF OtherAnswers
  <2>2. CASE a \in PoorAnswers(s)
    <3>1. PICK p \in PoorParts(s) : a = Mixed(200, FALSE, MultipartBody(p))
      BY <2>2 DEF PoorAnswers
    <3>2. MultipartBody(p) \in Seq(Nat) /\ Carries(MultipartBody(p), s, 0)
      BY PoorBodies
    <3>3. a.boundary = Boundary /\ a.body = MultipartBody(p)
      BY <3>1 DEF Mixed
    <3> QED BY <1>2, <3>2, <3>3
  <2>3. CASE a \in BrokenAnswers(s)
    <3>1. PICK b \in BrokenBodies(s) : a = Mixed(200, FALSE, b)
      BY <2>3 DEF BrokenAnswers
    <3>2. b \in Seq(Nat) /\ \E j : Carries(b, s, j)
      BY BrokenCarries
    <3>3. a.boundary = Boundary /\ a.body = b
      BY <3>1 DEF Mixed
    <3> QED BY <1>2, <3>2, <3>3
  <2>4. CASE a \in UnboundedAnswers(s)
    <3>1. a.boundary = <<>>
      BY <2>4 DEF UnboundedAnswers, GoodAnswers, Unbounded, Mixed
    <3> QED BY <3>1
  <2>5. CASE a \in UnavailableAnswers(s)
    <3>1. a.status = 503
      BY <2>5 DEF UnavailableAnswers, Mixed
    <3> QED BY <3>1 DEF IsSuccess
  <2>6. CASE a \in PlainAnswers
    <3>1. a.boundary = <<>>
      BY <2>6 DEF PlainAnswers, Plain
    <3> QED BY <3>1
  <2> QED BY <2>1, <2>2, <2>3, <2>4, <2>5, <2>6
<1> QED BY <1>1, <1>2

\* The receipt that is saved is the one that was sent, but for a byte that is damaged.
LEMMA ReceiptSaved ==
  ASSUME NEW s \in Seq(Byte), FindSubslice(s, Boundary) = NotFound,
         NEW a \in GoodAnswers(s) \cup OtherAnswers(s), ChatAnswerParsed(a).result = "ok"
  PROVE  LET got == ChatAnswerParsed(a).receipt[1] IN
         /\ ~a.warning /\ IsSuccess(a.status)
         /\ got \in Seq(Byte) /\ Len(got) = Len(s)
         /\ \E j : /\ \A k \in 1..Len(s) : got[k] = s[k] \/ k = j
                   /\ a \in GoodAnswers(s) => j = 0
<1> DEFINE m == ParseMultipart(a.body, a.boundary)
           found == FirstOfType(m.parts, ReceiptType)
<1>1. /\ ~a.warning /\ IsSuccess(a.status) /\ a.boundary # <<>>
      /\ m.result = "ok" /\ found # <<>> /\ ChatAnswerParsed(a).receipt = found
  BY GotReceipt
<1>2. /\ a.boundary = Boundary /\ a.body \in Seq(Nat)
      /\ \E j : Carries(a.body, s, j) /\ (a \in GoodAnswers(s) => j = 0)
  BY <1>1, AnswerCarries
<1>3. PICK j : Carries(a.body, s, j) /\ (a \in GoodAnswers(s) => j = 0)
  BY <1>2
<1>4. /\ found[1] \in Seq(Byte) /\ Len(found[1]) = Len(s)
      /\ \A k \in 1..Len(s) : found[1][k] = s[k] \/ k = j
  <2> DEFINE body == a.body
  <2>1. /\ body \in Seq(Nat) /\ Carries(body, s, j) /\ ParseMultipart(body, Boundary).result = "ok"
        /\ FirstOfType(ParseMultipart(body, Boundary).parts, ReceiptType) # <<>>
    BY <1>1, <1>2, <1>3
  <2>2. found = FirstOfType(ParseMultipart(body, Boundary).parts, ReceiptType)
    BY <1>2
  <2> HIDE DEF body, found
  <2> QED BY <2>1, <2>2, ReceiptOf
<1> HIDE DEF m, found
<1> QED BY <1>1, <1>3, <1>4

\* The other answers, and what is said of those that are degraded.
LEMMA AnswerRefused ==
  ASSUME NEW s \in Seq(Byte), NEW a \in GoodAnswers(s) \cup OtherAnswers(s),
         ChatAnswerParsed(a).result # "ok"
  PROVE  /\ ChatAnswerParsed(a).result \in {"network", "receipt_missing", "corrupt_envelope"}
         /\ a.warning => ChatAnswerParsed(a).result \in {"corrupt_envelope", "receipt_missing"}
         /\ ~a.warning /\ ~IsSuccess(a.status) => ChatAnswerParsed(a).result = "network"
<1> DEFINE p == ParseChatResponse(a)
           q == ChatAnswerParsed(a)
           m == ParseMultipart(a.body, a.boundary)
           json == FirstOfType(m.parts, JsonType)
           got == FirstOfType(m.parts, ReceiptType)
<1>1. q = IF ~IsSuccess(a.status) /\ ~a.warning THEN Error("network")
          ELSE IF p.result = "ok" /\ p.receipt = <<>> THEN Error("receipt_missing")
          ELSE p
  BY DEF ChatAnswerParsed
<1>2. CASE a.warning
  <2>1. p = ChatText(a.body, <<>>)
    BY <1>2 DEF ParseChatResponse
  <2> HIDE DEF p, q
  <2>2. p.result \in {"ok", "corrupt_envelope"}
    BY <2>1, ParsedIs
  <2>3. q = Error("receipt_missing") \/ q = p
    BY <1>1, <1>2
  <2>4. q.result \in {"corrupt_envelope", "receipt_missing"}
    BY <2>2, <2>3, ParsedIs DEF q
  <2> QED BY <1>2, <2>4 DEF q
<1>3. CASE ~a.warning /\ ~IsSuccess(a.status)
  <2> HIDE DEF p, q
  <2>1. q.result = "network"
    BY <1>1, <1>3, ParsedIs
  <2> QED BY <1>3, <2>1 DEF q
<1>4. CASE ~a.warning /\ IsSuccess(a.status)
  <2>1. p.result \in {"ok", "receipt_missing", "corrupt_envelope"}
    <3>1. CASE p = Error("receipt_missing")
      <4> HIDE DEF p
      <4> QED BY <3>1, ParsedIs
    <3>2. CASE p = ParseMultipartAnswer(a)
      <4>1. p = IF a.boundary = <<>> THEN Error("corrupt_envelope")
                ELSE IF m.result # "ok" THEN Error(m.result)
                ELSE IF json = <<>> THEN Error("corrupt_envelope")
                ELSE IF got = <<>> THEN Error("receipt_missing")
                ELSE ChatText(json[1], got)
        BY <3>2 DEF ParseMultipartAnswer
      <4>2. a.boundary # <<>> => m.result \in {"ok", "corrupt_envelope"}
        <5> SUFFICES ASSUME a.boundary # <<>> PROVE m.result \in {"ok", "corrupt_envelope"}
          OBVIOUS
        <5> DEFINE body == a.body
        <5>1. a.boundary = Boundary /\ body \in Seq(Nat)
          BY <1>4, AnswerCarries
        <5>2. Boundary \in Seq(Nat) /\ Boundary # <<>>
          BY BoundaryIsFresh, BytesAreQuiet
        <5> HIDE DEF body
        <5>3. ParseMultipart(body, Boundary).result \in {"ok", "corrupt_envelope"}
          BY <5>1, <5>2, ParsedParts
        <5> QED BY <5>1, <5>3 DEF body
      <4> HIDE DEF p, m, json, got
      <4> QED BY <4>1, <4>2, ParsedIs
    <3> QED BY <1>4, <3>1, <3>2 DEF ParseChatResponse
  <2>2. q = Error("receipt_missing") \/ q = p
    BY <1>1, <1>4
  <2> HIDE DEF p, q
  <2>3. q.result \in {"ok", "receipt_missing", "corrupt_envelope"}
    BY <2>1, <2>2, ParsedIs
  <2> QED BY <1>4, <2>3 DEF q
<1> QED BY <1>2, <1>3, <1>4

-----------------------------------------------------------------------------
\* The way of an artifact.

Operations == {"keygen", "chat", "chat --no-receipt", "audit", "healthz"}
Sending == {"request", "asked", "answered"}
Before == {"encode"} \cup Sending

\* What is under way at each place, and that nothing of it is at the reader too early.
PathInv ==
    /\ op \in Operations /\ artifact \in Artifact
    /\ pc \in Before \cup {"file", "done"}
    /\ pc \in Sending \cup {"file"} => EncodeResult(artifact.header) = "ok" /\ sent \in Files(artifact)
    /\ pc \in Before => file = <<>> /\ text = 0
    /\ pc = "file" => file \in Seq(Byte)
    /\ pc \in {"encode", "request", "asked"} => answer = NoAnswer
    /\ pc = "answered" =>
          answer \in IF honest THEN GoodAnswersTo(op, sent) ELSE OtherAnswersTo(op, sent)
    /\ pc = "file" /\ op = "chat" => ~answer.warning /\ IsSuccess(answer.status)

\* What can have gone wrong at each place.
FaultInv ==
    /\ own \in BOOLEAN /\ honest \in BOOLEAN /\ cut \in BOOLEAN /\ flips \in Nat
    /\ Faults <= MaxFaults
    /\ pc = "encode" => own
    /\ pc \in {"encode", "request", "asked"} => honest
    /\ pc \in Before => ~cut /\ flips = 0

\* What is decoded is what the file says.
ReadInv ==
    /\ outcome \in Outcomes
    /\ (outcome = "none") = (pc # "done")
    /\ decoded.result = "none" \/
          /\ pc = "done"
          /\ file \in Seq(Byte)
          /\ decoded = DecodeFile(artifact.magic, file)
          /\ decoded.result = outcome

IInv == PathInv /\ FaultInv /\ ReadInv /\ ReceiptAsSent /\ DegradedGivesNothing

LEMMA InitFacts == Init => IInv
<1> SUFFICES ASSUME Init PROVE IInv
  OBVIOUS
<1>1. PathInv
  BY DEF Init, PathInv, Operations, Sending, Before
<1>2. FaultInv
  <2>1. own = TRUE /\ honest = TRUE /\ cut = FALSE /\ flips = 0
    BY DEF Init
  <2>2. Faults = 0
    BY <2>1 DEF Faults, One
  <2>3. Faults <= MaxFaults /\ flips \in Nat
    BY <2>1, <2>2, DeliveryConstants
  <2>4. own \in BOOLEAN /\ honest \in BOOLEAN /\ cut \in BOOLEAN /\ own /\ honest /\ ~cut
    BY <2>1, Zenon
  <2> QED BY <2>1, <2>3, <2>4, Zenon DEF FaultInv
<1>3. ReadInv
  BY DEF Init, ReadInv, Outcomes, Refused, Decoded
<1>4. ReceiptAsSent
  BY DEF Init, ReceiptAsSent
<1>5. DegradedGivesNothing
  BY DEF Init, DegradedGivesNothing
<1> QED BY <1>1, <1>2, <1>3, <1>4, <1>5 DEF IInv

\* One more thing may go wrong while MayFail holds.
LEMMA FaultCount ==
  ASSUME FaultInv
  PROVE  /\ MaxFaults \in Nat /\ Faults \in Nat
         /\ MayFail <=> Faults + 1 <= MaxFaults
<1> QED BY DeliveryConstants DEF FaultInv, Faults, MayFail, One

LEMMA EncodeKeeps ==
  ASSUME IInv, Encode
  PROVE  IInv'
<1>0. pc = "encode" /\ UNCHANGED <<op, artifact, answer, honest, cut, flips, text, decoded>>
  BY DEF Encode, damage
<1> DEFINE a == artifact
           body == Body(a.magic, a.header)
           result == EncodeResult(a.header)
<1>1. /\ a \in Artifact /\ op \in Operations /\ file = <<>> /\ text = 0 /\ answer = NoAnswer
      /\ own /\ honest /\ ~cut /\ flips = 0 /\ outcome = "none" /\ decoded.result = "none"
  BY <1>0 DEF IInv, PathInv, FaultInv, ReadInv, Before
<1>2. CASE result # "ok"
  <2>1. outcome' = result /\ pc' = "done" /\ UNCHANGED <<sent, own, file>>
    BY <1>2 DEF Encode, Ends
  <2>2. result \in {"unknown_version", "input"}
    BY <1>2 DEF EncodeResult
  <2> HIDE DEF result
  <2>3. PathInv'
    BY <1>0, <1>1, <2>1 DEF PathInv, Before, Sending
  <2>4. FaultInv'
    BY <1>0, <1>1, <2>1 DEF IInv, FaultInv, Faults, Before, Sending
  <2>5. ReadInv'
    BY <1>0, <1>1, <2>1, <2>2 DEF ReadInv, Outcomes
  <2>6. ReceiptAsSent' /\ DegradedGivesNothing'
    BY <1>0, <1>1, <2>1 DEF ReceiptAsSent, DegradedGivesNothing
  <2> QED BY <2>3, <2>4, <2>5, <2>6 DEF IInv
<1>3. CASE result = "ok"
  <2>1. /\ \/ sent' = EncodeFile(a.magic, a.header, a.opaque) /\ own' = TRUE
           \/ \E b \in ForeignBodies(body) :
                 MayFail /\ sent' = Enveloped(a.magic, Sealed(b) \o a.opaque) /\ own' = FALSE
        /\ file' = IF op = "keygen" THEN sent' ELSE file
        /\ pc' = IF op = "keygen" THEN "file" ELSE "request"
        /\ UNCHANGED outcome
    BY <1>3 DEF Encode
  <2>2. sent' \in Files(a)
    <3>1. CASE sent' = EncodeFile(a.magic, a.header, a.opaque)
      BY <3>1 DEF Files, EncodeFile
    <3>2. CASE \E b \in ForeignBodies(body) : sent' = Enveloped(a.magic, Sealed(b) \o a.opaque)
      BY <3>2 DEF Files
    <3> QED BY <2>1, <3>1, <3>2
  <2>3. sent' \in Seq(Byte)
    BY <1>1, <1>3, <2>2, FilesAreBytes
  <2>4. own' \in BOOLEAN /\ (own' \/ MayFail)
    BY <2>1
  <2> HIDE DEF result, body
  <2>5. PathInv'
    <3>1. a' = a /\ EncodeResult(a.header) = "ok"
      BY <1>0, <1>3 DEF result
    <3> QED BY <1>0, <1>1, <2>1, <2>2, <2>3, <3>1 DEF PathInv, Before, Sending
  <2>6. FaultInv'
    <3>1. Faults = 0 /\ Faults' = One(~own') /\ (own' => Faults' = 0) /\ (~own' => Faults' = 1)
      BY <1>0, <1>1, <2>4 DEF Faults, One
    <3>2. Faults' <= MaxFaults
      BY <2>4, <3>1, FaultCount DEF IInv
    <3> QED BY <1>0, <1>1, <2>1, <2>4, <3>2 DEF IInv, FaultInv, Before, Sending
  <2>7. ReadInv'
    BY <1>0, <1>1, <2>1 DEF IInv, ReadInv
  <2>8. ReceiptAsSent' /\ DegradedGivesNothing'
    BY <1>0, <1>1, <2>1 DEF ReceiptAsSent, DegradedGivesNothing
  <2> QED BY <2>5, <2>6, <2>7, <2>8 DEF IInv
<1> QED BY <1>2, <1>3

\* The operation ends before there is anything to read.
LEMMA EndKeeps ==
  ASSUME IInv, pc \in Sending, pc' = "done", outcome' \in Outcomes \ {"none"},
         UNCHANGED <<op, artifact, sent, own, answer, honest, file, damage, decoded>>,
         op = "chat" => text' = text,
         op = "chat" /\ answer # NoAnswer /\ (answer.warning \/ ~IsSuccess(answer.status)) =>
            outcome' \in {"corrupt_envelope"}
               \cup (IF answer.warning THEN {"receipt_missing"} ELSE {"network"})
  PROVE  IInv'
<1>0. /\ file = <<>> /\ text = 0 /\ decoded.result = "none" /\ pc \in Before /\ pc # "done"
      /\ UNCHANGED <<op, artifact, sent, own, answer, honest, file, cut, flips, decoded>>
  BY DEF IInv, PathInv, ReadInv, Before, Sending, damage
<1>1. PathInv'
  BY <1>0 DEF IInv, PathInv, Before, Sending
<1>2. FaultInv'
  BY <1>0 DEF IInv, FaultInv, Faults, Before, Sending
<1>3. ReadInv'
  BY <1>0 DEF ReadInv
<1>4. ReceiptAsSent'
  BY <1>0 DEF ReceiptAsSent
<1>5. DegradedGivesNothing'
  BY <1>0 DEF DegradedGivesNothing
<1> QED BY <1>1, <1>2, <1>3, <1>4, <1>5 DEF IInv

LEMMA RequestKeeps ==
  ASSUME IInv, Request
  PROVE  IInv'
<1>0. pc = "request" /\ UNCHANGED <<op, artifact, sent, own, answer, honest, file, damage, text, decoded>>
  BY DEF Request
<1>1. CASE Ends("input")
  <2>1. answer = NoAnswer
    BY <1>0 DEF IInv, PathInv
  <2>2. pc \in Sending /\ pc' = "done" /\ outcome' \in Outcomes \ {"none"}
    BY <1>0, <1>1 DEF Ends, Outcomes, Sending
  <2> QED BY <1>0, <2>1, <2>2, EndKeeps
<1>2. CASE pc' = "asked" /\ UNCHANGED outcome
  <2>0. UNCHANGED <<op, artifact, sent, own, answer, honest, file, cut, flips, text, decoded>>
    BY <1>0 DEF damage
  <2>1. PathInv'
    BY <1>0, <1>2, <2>0 DEF IInv, PathInv, Before, Sending
  <2>2. FaultInv'
    BY <1>0, <1>2, <2>0 DEF IInv, FaultInv, Faults, Before, Sending
  <2>3. ReadInv'
    BY <1>0, <1>2, <2>0 DEF IInv, ReadInv
  <2>4. ReceiptAsSent' /\ DegradedGivesNothing'
    BY <1>0, <1>2, <2>0 DEF IInv, ReceiptAsSent, DegradedGivesNothing
  <2> QED BY <2>1, <2>2, <2>3, <2>4 DEF IInv
<1> QED BY <1>1, <1>2 DEF Request

LEMMA NetworkFailsKeeps ==
  ASSUME IInv, NetworkFails
  PROVE  IInv'
<1>1. pc \in Sending /\ pc' = "done" /\ outcome' \in Outcomes \ {"none"} /\ answer = NoAnswer
  BY DEF NetworkFails, IInv, PathInv, Ends, Outcomes, Sending
<1>2. UNCHANGED <<op, artifact, sent, own, answer, honest, file, damage, text, decoded>>
  BY DEF NetworkFails
<1> QED BY <1>1, <1>2, EndKeeps

LEMMA ProviderAnswersKeeps ==
  ASSUME IInv, ProviderAnswers
  PROVE  IInv'
<1>0. /\ pc = "asked" /\ pc' = "answered"
      /\ UNCHANGED <<op, artifact, sent, own, file, cut, flips, text, decoded, outcome>>
  BY DEF ProviderAnswers, damage
<1>1. /\ file = <<>> /\ text = 0 /\ outcome = "none" /\ honest /\ ~cut /\ flips = 0
  BY <1>0 DEF IInv, PathInv, FaultInv, ReadInv, Before, Sending
<1>2. \/ answer' \in GoodAnswersTo(op, sent) /\ honest' = TRUE
      \/ MayFail /\ answer' \in OtherAnswersTo(op, sent) /\ honest' = FALSE
  BY DEF ProviderAnswers
<1>3. PathInv'
  BY <1>0, <1>2 DEF IInv, PathInv, Before, Sending
<1>4. FaultInv'
  <2>1. Faults' \in Nat /\ (honest' => Faults' = Faults) /\ (~honest' => Faults' = Faults + 1)
    BY <1>0, <1>1, <1>2 DEF IInv, FaultInv, Faults, One
  <2>2. Faults' <= MaxFaults
    BY <1>2, <2>1, FaultCount DEF IInv, FaultInv
  <2> QED BY <1>0, <1>1, <1>2, <2>2 DEF IInv, FaultInv, Before, Sending
<1>5. ReadInv'
  BY <1>0 DEF IInv, ReadInv
<1>6. ReceiptAsSent'
  BY <1>0 DEF ReceiptAsSent
<1>7. DegradedGivesNothing'
  BY <1>0, <1>1 DEF DegradedGivesNothing
<1> QED BY <1>3, <1>4, <1>5, <1>6, <1>7 DEF IInv

LEMMA ReceiveChatKeeps ==
  ASSUME IInv, ReceiveChat
  PROVE  IInv'
<1> DEFINE parsed == ChatAnswerParsed(answer)
<1>0. /\ pc = "answered" /\ op = "chat"
      /\ UNCHANGED <<op, artifact, sent, own, answer, honest, damage, decoded>>
      /\ UNCHANGED <<cut, flips>>
  BY DEF ReceiveChat, damage
<1>1. \/ /\ parsed.result = "ok" /\ file' = parsed.receipt[1] /\ pc' = "file"
         /\ UNCHANGED outcome
      \/ /\ parsed.result # "ok" /\ Ends(parsed.result)
         /\ UNCHANGED <<file, text>>
  BY DEF ReceiveChat
<1>2. /\ EncodeResult(artifact.header) = "ok" /\ artifact \in Artifact /\ sent \in Files(artifact)
      /\ answer \in IF honest THEN GoodAnswersTo(op, sent) ELSE OtherAnswersTo(op, sent)
      /\ honest \in BOOLEAN
  BY <1>0 DEF IInv, PathInv, FaultInv, Sending
<1>3. GoodAnswersTo(op, sent) = GoodAnswers(sent) /\ OtherAnswersTo(op, sent) = OtherAnswers(sent)
  BY <1>0 DEF GoodAnswersTo, OtherAnswersTo
<1>4. sent \in Seq(Byte) /\ FindSubslice(sent, Boundary) = NotFound
  BY <1>2, FilesAreBytes, BoundaryIsFresh
<1>5. answer \in GoodAnswers(sent) \cup OtherAnswers(sent) /\ (honest => answer \in GoodAnswers(sent))
  BY <1>2, <1>3
<1>6. CASE parsed.result = "ok"
  <2>1. LET got == parsed.receipt[1] IN
        /\ ~answer.warning /\ IsSuccess(answer.status)
        /\ got \in Seq(Byte) /\ Len(got) = Len(sent)
        /\ \E j : /\ \A k \in 1..Len(sent) : got[k] = sent[k] \/ k = j
                  /\ answer \in GoodAnswers(sent) => j = 0
    <3> DEFINE s == sent
               a == answer
    <3>1. /\ s \in Seq(Byte) /\ FindSubslice(s, Boundary) = NotFound
          /\ a \in GoodAnswers(s) \cup OtherAnswers(s) /\ ChatAnswerParsed(a).result = "ok"
      BY <1>4, <1>5, <1>6
    <3> HIDE DEF s, a
    <3>2. LET got == ChatAnswerParsed(a).receipt[1] IN
          /\ ~a.warning /\ IsSuccess(a.status)
          /\ got \in Seq(Byte) /\ Len(got) = Len(s)
          /\ \E j : /\ \A k \in 1..Len(s) : got[k] = s[k] \/ k = j
                    /\ a \in GoodAnswers(s) => j = 0
      BY <3>1, ReceiptSaved
    <3> QED BY <3>2 DEF s, a
  <2>2. file' = parsed.receipt[1] /\ pc' = "file" /\ outcome' = outcome
    BY <1>1, <1>6
  <2> HIDE DEF parsed
  <2>3. /\ ~answer.warning /\ IsSuccess(answer.status) /\ file' \in Seq(Byte) /\ Len(file') = Len(sent)
    BY <2>1, <2>2
  <2>4. PICK j : /\ \A k \in 1..Len(sent) : file'[k] = sent[k] \/ k = j
                 /\ answer \in GoodAnswers(sent) => j = 0
    BY <2>1, <2>2
  <2>5. PathInv'
    BY <1>0, <1>2, <2>2, <2>3 DEF IInv, PathInv, Before, Sending
  <2>6. FaultInv'
    BY <1>0, <2>2 DEF IInv, FaultInv, Faults, Before, Sending
  <2>7. ReadInv'
    BY <1>0, <2>2 DEF IInv, ReadInv
  <2>8. ReceiptAsSent'
    <3> DEFINE D == {i \in DOMAIN sent : file'[i] # sent[i]}
    <3>1. D \subseteq {j} /\ 0 \notin DOMAIN sent
      BY <1>4, <2>4
    <3>2. Cardinality(D) = 0 \/ Cardinality(D) = 1
      <4> HIDE DEF D
      <4>1. D = {} \/ D = {j}
        BY <3>1
      <4> QED BY <4>1, FS_EmptySet, FS_Singleton
    <3>3. honest => Cardinality(D) = 0
      <4>1. honest => D = {}
        BY <1>5, <2>4, <3>1
      <4> HIDE DEF D
      <4> QED BY <4>1, FS_EmptySet
    <3>4. Cardinality(D) <= One(~honest)
      <4> HIDE DEF D
      <4> QED BY <3>2, <3>3 DEF One
    <3>5. {i \in DOMAIN sent' : file'[i] # sent'[i]} = D
      BY <1>0
    <3> HIDE DEF D
    <3>6. Cardinality({i \in DOMAIN sent' : file'[i] # sent'[i]}) <= One(~honest')
      BY <1>0, <3>4, <3>5
    <3> QED BY <1>0, <2>3, <3>6 DEF ReceiptAsSent
  <2>9. DegradedGivesNothing'
    BY <1>0, <2>3 DEF DegradedGivesNothing
  <2> QED BY <2>5, <2>6, <2>7, <2>8, <2>9 DEF IInv
<1>7. CASE parsed.result # "ok"
  <2>1. pc' = "done" /\ outcome' = parsed.result /\ UNCHANGED <<file, text>>
    BY <1>1, <1>7 DEF Ends
  <2>2. /\ parsed.result \in {"network", "receipt_missing", "corrupt_envelope"}
        /\ answer.warning => parsed.result \in {"corrupt_envelope", "receipt_missing"}
        /\ ~answer.warning /\ ~IsSuccess(answer.status) => parsed.result = "network"
    BY <1>4, <1>5, <1>7, AnswerRefused
  <2> HIDE DEF parsed
  <2>3. pc \in Sending /\ outcome' \in Outcomes \ {"none"}
    BY <1>0, <2>1, <2>2 DEF Sending, Outcomes
  <2>4. op = "chat" /\ answer # NoAnswer /\ (answer.warning \/ ~IsSuccess(answer.status)) =>
            outcome' \in {"corrupt_envelope"}
               \cup (IF answer.warning THEN {"receipt_missing"} ELSE {"network"})
    BY <2>1, <2>2
  <2> QED BY <1>0, <2>1, <2>3, <2>4, EndKeeps
<1> QED BY <1>6, <1>7

LEMMA ReceiveTextKeeps ==
  ASSUME IInv, ReceiveText
  PROVE  IInv'
<1> DEFINE parsed == ParseOpenAiChatResponse(answer)
<1>1. /\ pc = "answered" /\ op = "chat --no-receipt"
      /\ UNCHANGED <<op, artifact, sent, own, answer, honest, file, damage, decoded>>
  BY DEF ReceiveText
<1>2. parsed.result \in {"ok", "corrupt_envelope"}
  BY ParsedIs DEF ParseOpenAiChatResponse
<1>3. Ends("network") \/ Ends(parsed.result)
  BY DEF ReceiveText
<1> HIDE DEF parsed
<1>4. pc \in Sending /\ pc' = "done" /\ outcome' \in Outcomes \ {"none"}
  BY <1>1, <1>2, <1>3 DEF Ends, Outcomes, Sending
<1> QED BY <1>1, <1>4, EndKeeps

LEMMA ReceiveHealthKeeps ==
  ASSUME IInv, ReceiveHealth
  PROVE  IInv'
<1>1. /\ pc = "answered" /\ op = "healthz"
      /\ UNCHANGED <<op, artifact, sent, own, answer, honest, file, damage, decoded>>
  BY DEF ReceiveHealth
<1>2. Ends("network") \/ Ends("corrupt_envelope") \/ Ends("ok")
  BY DEF ReceiveHealth
<1>3. pc \in Sending /\ pc' = "done" /\ outcome' \in Outcomes \ {"none"}
  BY <1>1, <1>2 DEF Ends, Outcomes, Sending
<1> QED BY <1>1, <1>3, EndKeeps

LEMMA ReceiveAuditKeeps ==
  ASSUME IInv, ReceiveAudit
  PROVE  IInv'
<1>0. /\ pc = "answered" /\ op = "audit"
      /\ UNCHANGED <<op, artifact, sent, own, answer, honest, damage, text, decoded>>
      /\ UNCHANGED <<cut, flips>>
  BY DEF ReceiveAudit, damage
<1>1. /\ EncodeResult(artifact.header) = "ok" /\ artifact \in Artifact /\ sent \in Files(artifact)
      /\ answer \in IF honest THEN GoodAnswersTo(op, sent) ELSE OtherAnswersTo(op, sent)
  BY <1>0 DEF IInv, PathInv, Sending
<1>2. sent \in Seq(Byte)
  BY <1>1, FilesAreBytes
<1>3. answer.body = sent
  <2>1. \E x : answer = Opening(x, sent)
    BY <1>0, <1>1 DEF GoodAnswersTo, OtherAnswersTo
  <2> QED BY <2>1 DEF Opening, Plain
<1>4. CASE IsSuccess(answer.status)
  <2>1. file' = sent /\ pc' = "file" /\ UNCHANGED outcome
    BY <1>3, <1>4 DEF ReceiveAudit
  <2>2. PathInv'
    BY <1>0, <1>1, <1>2, <2>1 DEF IInv, PathInv, Before, Sending
  <2>3. FaultInv'
    BY <1>0, <2>1 DEF IInv, FaultInv, Faults, Before, Sending
  <2>4. ReadInv'
    BY <1>0, <2>1 DEF IInv, ReadInv
  <2>5. ReceiptAsSent' /\ DegradedGivesNothing'
    BY <1>0 DEF ReceiptAsSent, DegradedGivesNothing
  <2> QED BY <2>2, <2>3, <2>4, <2>5 DEF IInv
<1>5. CASE ~IsSuccess(answer.status)
  <2>1. Ends("network") /\ UNCHANGED file
    BY <1>5 DEF ReceiveAudit
  <2>2. pc \in Sending /\ pc' = "done" /\ outcome' \in Outcomes \ {"none"}
    BY <1>0, <2>1 DEF Ends, Outcomes, Sending
  <2> QED BY <1>0, <2>1, <2>2, EndKeeps
<1> QED BY <1>4, <1>5

\* A file that is damaged is still made of bytes.
LEMMA DamageKeeps ==
  ASSUME IInv, pc = "file", MayFail, file' \in Seq(Byte),
         \/ cut' = cut /\ flips' = flips + 1
         \/ ~cut /\ cut' = TRUE /\ flips' = flips,
         UNCHANGED <<op, artifact, sent, own, answer, honest, text, decoded, outcome, pc>>
  PROVE  IInv'
<1>1. flips \in Nat /\ cut \in BOOLEAN
  BY DEF IInv, FaultInv
<1>2. PathInv'
  BY DEF IInv, PathInv, Before, Sending
<1>3. FaultInv'
  <2>1. Faults' = Faults + 1 /\ Faults \in Nat
    BY <1>1, FaultCount DEF IInv, Faults, One
  <2>2. Faults' <= MaxFaults
    BY <2>1, FaultCount DEF IInv
  <2>3. cut' \in BOOLEAN
    BY <1>1, Zenon
  <2>4. flips' \in Nat
    BY <1>1
  <2> QED BY <2>2, <2>3, <2>4 DEF IInv, FaultInv, Before, Sending
<1>4. ReadInv'
  BY DEF IInv, ReadInv
<1>5. ReceiptAsSent'
  BY <1>1 DEF ReceiptAsSent
<1>6. DegradedGivesNothing'
  BY DEF IInv, PathInv, DegradedGivesNothing
<1> QED BY <1>2, <1>3, <1>4, <1>5, <1>6 DEF IInv

LEMMA FlipKeeps ==
  ASSUME IInv, NEW i \in DOMAIN file, NEW v \in FlipValue, Flip(i, v)
  PROVE  IInv'
<1>1. /\ pc = "file" /\ MayFail /\ file' = [file EXCEPT ![i] = v]
      /\ cut' = cut /\ flips' = flips + 1
      /\ UNCHANGED <<op, artifact, sent, own, answer, honest, text, decoded, outcome, pc>>
  BY DEF Flip
<1>2. file \in Seq(Byte) /\ v \in Byte
  BY <1>1, DeliveryConstants DEF IInv, PathInv
<1>3. file' \in Seq(Byte)
  BY <1>1, <1>2
<1> QED BY <1>1, <1>3, DamageKeeps

LEMMA CutKeeps ==
  ASSUME IInv, NEW n \in 0..Len(file), Cut(n)
  PROVE  IInv'
<1>1. /\ pc = "file" /\ MayFail /\ ~cut /\ file' = SubSeq(file, 1, n)
      /\ cut' = TRUE /\ flips' = flips
      /\ UNCHANGED <<op, artifact, sent, own, answer, honest, text, decoded, outcome, pc>>
  BY DEF Cut
<1>2. file \in Seq(Byte)
  BY <1>1 DEF IInv, PathInv
<1>3. n \in Nat /\ 0 \in Nat /\ 0 <= n /\ n <= Len(file) /\ 0 + 1 = 1
  BY <1>2
<1>4. SubSeq(file, 0 + 1, n) \in Seq(Byte)
  BY <1>2, <1>3, Piece
<1>5. file' \in Seq(Byte)
  BY <1>1, <1>3, <1>4
<1> QED BY <1>1, <1>5, DamageKeeps

LEMMA LoadKeeps ==
  ASSUME IInv, Load
  PROVE  IInv'
<1>1. /\ pc = "file" /\ decoded' = DecodeFile(artifact.magic, file)
      /\ outcome' = decoded'.result /\ pc' = "done"
      /\ UNCHANGED <<op, artifact, sent, own, answer, honest, file, cut, flips, text>>
  BY DEF Load, Ends, damage
<1>2. artifact \in Artifact /\ artifact.magic \in Magic /\ file \in Seq(Byte)
  BY <1>1, DeliveryConstants DEF IInv, PathInv
<1>3. decoded'.result \in BodyResults
  BY <1>1, <1>2, DecodedResult
<1>4. PathInv'
  BY <1>1 DEF IInv, PathInv, Before, Sending
<1>5. FaultInv'
  BY <1>1 DEF IInv, FaultInv, Faults, Before, Sending
<1>6. ReadInv'
  BY <1>1, <1>2, <1>3 DEF ReadInv, BodyResults, Outcomes
<1>7. ReceiptAsSent'
  BY <1>1 DEF ReceiptAsSent
<1>8. DegradedGivesNothing'
  BY <1>1 DEF IInv, PathInv, DegradedGivesNothing
<1> QED BY <1>4, <1>5, <1>6, <1>7, <1>8 DEF IInv

LEMMA StepFacts == IInv /\ [Next]_vars => IInv'
<1> SUFFICES ASSUME IInv, [Next]_vars PROVE IInv'
  OBVIOUS
<1>1. CASE Encode
  BY <1>1, EncodeKeeps
<1>2. CASE Request
  BY <1>2, RequestKeeps
<1>3. CASE NetworkFails
  BY <1>3, NetworkFailsKeeps
<1>4. CASE ProviderAnswers
  BY <1>4, ProviderAnswersKeeps
<1>5. CASE ReceiveChat
  BY <1>5, ReceiveChatKeeps
<1>6. CASE ReceiveText
  BY <1>6, ReceiveTextKeeps
<1>7. CASE ReceiveAudit
  BY <1>7, ReceiveAuditKeeps
<1>8. CASE ReceiveHealth
  BY <1>8, ReceiveHealthKeeps
<1>9. CASE \E i \in DOMAIN file, v \in FlipValue : Flip(i, v)
  BY <1>9, FlipKeeps
<1>10. CASE \E n \in 0..Len(file) : Cut(n)
  BY <1>10, CutKeeps
<1>11. CASE Load
  BY <1>11, LoadKeeps
<1>12. CASE UNCHANGED vars
  BY <1>12 DEF vars, damage, IInv, PathInv, FaultInv, ReadInv, ReceiptAsSent,
               DegradedGivesNothing, Faults
<1> QED BY <1>1, <1>2, <1>3, <1>4, <1>5, <1>6, <1>7, <1>8, <1>9, <1>10, <1>11, <1>12 DEF Next

\* The inductive invariant holds in every reachable state: where a run stands, what the
\* provider may have answered, and that what was read was read from the file as it is.
THEOREM Invariance == Spec => []IInv
BY InitFacts, StepFacts, PTL DEF Spec

\* What was read has the fields of its kind.
LEMMA ReadFacts ==
  ASSUME IInv, decoded.result = "ok"
  PROVE  /\ file = EncodeFile(artifact.magic, decoded.header, decoded.opaque)
         /\ DOMAIN decoded.header = Range(Written[artifact.magic])
         /\ \A name \in DOMAIN decoded.header : FieldIs(name, decoded.header[name])
<1> DEFINE magic == artifact.magic
           bytes == file
<1>1. /\ magic \in Magic /\ bytes \in Seq(Byte) /\ decoded = DecodeFile(magic, bytes)
      /\ DecodeFile(magic, bytes).result = "ok"
  BY DeliveryConstants DEF IInv, PathInv, ReadInv
<1> HIDE DEF magic, bytes
<1>2. /\ bytes = EncodeFile(magic, decoded.header, decoded.opaque)
      /\ DOMAIN decoded.header = Range(Written[magic])
      /\ \A name \in DOMAIN decoded.header : FieldIs(name, decoded.header[name])
  BY <1>1, FileIs
<1> QED BY <1>2 DEF magic, bytes

\* Type correctness: a run ends with a documented category, which is the reader's if it got
\* as far as the reader, and a header that was read is of its kind.
THEOREM TypeCorrectness == Spec => []TypeOK
<1>1. IInv => TypeOK
  <2> SUFFICES ASSUME IInv PROVE TypeOK
    OBVIOUS
  <2>1. Faults \in 0..MaxFaults
    BY FaultCount DEF IInv, FaultInv
  <2>2. decoded.result \in Outcomes /\ (decoded.result # "none" => decoded.result = outcome)
    BY DEF IInv, ReadInv, Outcomes
  <2>3. decoded.result = "ok" =>
           /\ DOMAIN decoded.header = Range(Written[artifact.magic])
           /\ \A name \in DOMAIN decoded.header : FieldIs(name, decoded.header[name])
    BY ReadFacts
  <2>4. /\ pc \in {"encode", "request", "asked", "answered", "file", "done"}
        /\ outcome \in Outcomes /\ (outcome = "none") = (pc # "done")
        /\ own \in BOOLEAN /\ honest \in BOOLEAN /\ cut \in BOOLEAN
    BY DEF IInv, PathInv, FaultInv, ReadInv, Before, Sending
  <2> QED BY <2>1, <2>2, <2>3, <2>4, Zenon DEF TypeOK, FieldIs
<1> QED BY <1>1, Invariance, PTL

\* No two files are read alike: what run_verify decodes of a key, a receipt or an opening
\* encodes to the bytes it read, whoever made them and whatever happened to them.
THEOREM CanonicalHolds == Spec => []Canonical
<1>1. IInv => Canonical
  BY ReadFacts DEF Canonical
<1> QED BY <1>1, Invariance, PTL

\* What `vi chat` saves is the receipt as it was sent, whole, for any answer of a provider
\* that keeps to the multipart format and for one that was cut or damaged on its way.
THEOREM ReceiptIsAsSent == Spec => []ReceiptAsSent
<1>1. IInv => ReceiptAsSent
  BY DEF IInv
<1> QED BY <1>1, Invariance, PTL

\* A degraded answer never gives `vi chat` a receipt or a text, nor success.
THEOREM NothingFromDegraded == Spec => []DegradedGivesNothing
<1>1. IInv => DegradedGivesNothing
  BY DEF IInv
<1> QED BY <1>1, Invariance, PTL

-----------------------------------------------------------------------------
\* The decoder, on bytes that begin as an encoder wrote them.

\* What follows offset o is e, as far as there is anything.
Stands(b, o, e) == \A k \in 1..Len(e) : o + k <= Len(b) => b[o + k] = e[k]

\* A field that was written is read, if it is there whole.
LEMMA FieldThere ==
  ASSUME NEW name, NEW v \in FieldType(name), Kind(name) \in {"string", "u32s"} => Len(v) <= MaxU16,
         name = "schema_version" => v = SchemaVersion,
         NEW b \in Seq(Byte), NEW o \in Nat, o <= Len(b), NEW fields,
         Stands(b, o, EncodeField(name, v))
  PROVE  LET n == Len(EncodeField(name, v))
             r == ReadField(b, Reader(o, fields, "ok"), name)
         IN
         /\ n \in Nat
         /\ o + n <= Len(b) => r = Reader(o + n, With(fields, name, v), "ok")
         /\ o + n > Len(b) => r.result = "corrupt_envelope"
<1> DEFINE e == EncodeField(name, v)
           n == Len(e)
           N == Len(b)
           r0 == Reader(o, fields, "ok")
           r == ReadField(b, r0, name)
           rest == SubSeq(b, o + 1, N)
           width == Width(Kind(name), rest)
           bytes == SubSeq(rest, 1, width)
           value == FieldValue(Kind(name), bytes)
<1>1. /\ e \in Seq(Byte) /\ FieldValue(Kind(name), e) = v
      /\ \A x \in Seq(Byte) : Agrees(e, x) =>
            /\ Len(x) >= n => Width(Kind(name), x) = n
            /\ Len(x) < n => Width(Kind(name), x) > Len(x)
  BY FieldWritten
<1>2. N \in Nat /\ n \in Nat
  BY <1>1
<1>3. r0.offset = o /\ r0.fields = fields /\ r0.result = "ok"
  BY DEF Reader
<1>4. r = IF width > Len(rest) THEN Fails(r0, "corrupt_envelope")
          ELSE IF name = "schema_version" /\ value # SchemaVersion THEN Fails(r0, "unknown_version")
          ELSE IF name = "tier" /\ ~KnownTier(value) THEN Fails(r0, "unsupported_tier")
          ELSE IF Kind(name) = "string" /\ ~Utf8(value) THEN Fails(r0, "corrupt_envelope")
          ELSE Reader(o + width, With(fields, name, value), "ok")
  <2> HIDE DEF r0
  <2> QED BY <1>3, Zenon DEF ReadField
<1> HIDE DEF r
<1>5. rest \in Seq(Byte) /\ Len(rest) = N - o /\ \A k \in 1..(N - o) : rest[k] = b[o + k]
  <2>1. o <= N /\ N <= Len(b) /\ N \in Nat
    BY <1>2
  <2> HIDE DEF N
  <2> QED BY <2>1, Piece
<1> HIDE DEF e, N, rest
<1>6. Agrees(e, rest)
  <2> SUFFICES ASSUME NEW k \in 1..Len(e), k <= Len(rest) PROVE e[k] = rest[k]
    BY DEF Agrees
  <2>1. k \in 1..(N - o) /\ o + k <= N
    BY <1>2, <1>5
  <2>2. o + k <= Len(b) => b[o + k] = e[k]
    BY DEF e, Stands
  <2> QED BY <1>5, <2>1, <2>2 DEF N
<1>7. /\ Len(rest) >= n => width = n
      /\ Len(rest) < n => width > Len(rest)
  BY <1>1, <1>5, <1>6
<1>8. CASE o + n > N
  <2>1. width > Len(rest)
    BY <1>2, <1>5, <1>7, <1>8
  <2>2. r = Fails(r0, "corrupt_envelope")
    BY <1>4, <2>1
  <2>3. r.result = "corrupt_envelope"
    BY <2>2 DEF Fails, Reader
  <2>4. ~(o + n <= N)
    BY <1>2, <1>8
  <2> QED BY <1>2, <2>3, <2>4 DEF r, e, N
<1>9. CASE o + n <= N
  <2>1. width = n /\ n <= Len(rest) /\ ~(width > Len(rest))
    BY <1>2, <1>5, <1>7, <1>9
  <2>2. bytes = e
    <3>1. n \in Nat /\ 0 \in Nat /\ 0 <= n /\ n - 0 = n /\ 0 + 1 = 1
      BY <1>2
    <3>2. /\ SubSeq(rest, 0 + 1, n) \in Seq(Byte) /\ Len(SubSeq(rest, 0 + 1, n)) = n - 0
          /\ \A k \in 1..(n - 0) : SubSeq(rest, 0 + 1, n)[k] = rest[0 + k]
      BY <1>5, <2>1, <3>1, Piece
    <3> DEFINE p == SubSeq(rest, 0 + 1, n)
    <3>3. p = bytes /\ p \in Seq(Byte) /\ Len(p) = n
      BY <2>1, <3>1, <3>2
    <3>4. \A k \in 1..n : p[k] = rest[0 + k] /\ 0 + k = k
      BY <3>1, <3>2
    <3>5. \A k \in 1..n : e[k] = rest[k]
      <4>1. \A k \in 1..n : k <= Len(rest)
        BY <1>2, <1>5, <2>1
      <4> QED BY <1>6, <4>1 DEF Agrees
    <3> HIDE DEF p
    <3>6. p = e
      BY <1>1, <3>3, <3>4, <3>5
    <3> QED BY <3>3, <3>6
  <2>3. value = v
    BY <1>1, <2>2
  <2> HIDE DEF width, bytes, value
  <2>4. name = "tier" => KnownTier(v)
    <3>1. name = "tier" => v \in 0..3
      BY Kinds DEF FieldType
    <3> QED BY <3>1 DEF KnownTier
  <2>5. Kind(name) = "string" => Utf8(v)
    <3> SUFFICES ASSUME Kind(name) = "string", NEW i \in DOMAIN v PROVE v[i] < 128
      BY Zenon DEF Utf8
    <3> DEFINE T == 0..127
    <3>1. v \in Seq(T)
      BY Zenon DEF FieldType
    <3>2. \A x \in T : x < 128
      BY SMTT(10)
    <3> HIDE DEF T
    <3>3. v[i] \in T
      BY <3>1
    <3> QED BY <3>2, <3>3
  <2>6. r = Reader(o + n, With(fields, name, v), "ok")
    BY <1>4, <2>1, <2>3, <2>4, <2>5
  <2>7. ~(o + n > N)
    BY <1>2, <1>9
  <2> QED BY <1>2, <2>6, <2>7 DEF r, r0, e, N
<1> QED BY <1>2, <1>8, <1>9

\* What the reader has after it has gone over the first i fields of a header.
ReadUpTo(b, names, h, at, r, i) ==
    /\ at[i] <= Len(b) =>
          \E fields : /\ r = Reader(at[i], fields, "ok")
                      /\ fields = [x \in {names[j] : j \in 1..i} |-> h[x]]
    /\ at[i] > Len(b) => r.result = "corrupt_envelope"

LEMMA OneMoreRead ==
  ASSUME NEW b \in Seq(Byte), NEW names, NEW h, NEW at, NEW i \in Nat, NEW r,
         ReadUpTo(b, names, h, at, r, i),
         NEW name, name = names[i + 1], NEW v, v = h[name], v \in FieldType(name),
         Kind(name) \in {"string", "u32s"} => Len(v) <= MaxU16,
         name = "schema_version" => v = SchemaVersion,
         at[i] \in Nat, at[i + 1] = at[i] + Len(EncodeField(name, v)),
         Stands(b, at[i], EncodeField(name, v))
  PROVE  ReadUpTo(b, names, h, at, ReadField(b, r, name), i + 1)
<1> DEFINE n == Len(EncodeField(name, v))
           o == at[i]
           s == ReadField(b, r, name)
<1>0. Len(b) \in Nat /\ n \in Nat /\ o \in Nat /\ at[i + 1] = o + n
  <2>1. EncodeField(name, v) \in Seq(Byte)
    BY FieldWritten
  <2> QED BY <2>1
<1>1. CASE o > Len(b)
  <2>1. r.result = "corrupt_envelope"
    BY <1>1 DEF ReadUpTo
  <2>2. s = r
    BY <2>1 DEF ReadField
  <2>3. at[i + 1] > Len(b) /\ ~(at[i + 1] <= Len(b))
    BY <1>0, <1>1
  <2> QED BY <2>1, <2>2, <2>3 DEF ReadUpTo
<1>2. CASE o <= Len(b)
  <2> DEFINE fields == [x \in {names[j] : j \in 1..i} |-> h[x]]
  <2>1. r = Reader(o, fields, "ok")
    BY <1>2 DEF ReadUpTo
  <2> HIDE DEF fields
  <2>2. /\ o + n <= Len(b) => s = Reader(o + n, With(fields, name, v), "ok")
        /\ o + n > Len(b) => s.result = "corrupt_envelope"
    <3> HIDE DEF o
    <3>1. o \in Nat /\ o <= Len(b)
      BY <1>0, <1>2
    <3>2. Stands(b, o, EncodeField(name, v))
      BY DEF o
    <3> QED BY <2>1, <3>1, <3>2, FieldThere
  <2>3. With(fields, name, v) = [x \in {names[j] : j \in 1..(i + 1)} |-> h[x]]
    <3>1. 1..(i + 1) = 1..i \cup {i + 1}
      OBVIOUS
    <3>2. {names[j] : j \in 1..(i + 1)} = {names[j] : j \in 1..i} \cup {name}
      BY <3>1
    <3>3. DOMAIN fields = {names[j] : j \in 1..i} /\ \A x \in DOMAIN fields : fields[x] = h[x]
      BY DEF fields
    <3> QED BY <3>2, <3>3 DEF With
  <2> QED BY <1>0, <2>2, <2>3, Zenon DEF ReadUpTo
<1> QED BY <1>0, <1>1, <1>2

\* A body is read as it was written, and one that is longer or shorter is corrupt.
LEMMA BodyRead ==
  ASSUME NEW magic \in Magic, NEW h, Writable(magic, h), h = [name \in DOMAIN h |-> h[name]],
         h["schema_version"] = SchemaVersion,
         NEW b \in Seq(Byte), Stands(b, 0, Body(magic, h))
  PROVE  /\ Len(b) = Len(Body(magic, h)) =>
               ReadBody(magic, b).result = "ok" /\ ReadBody(magic, b).fields = h
         /\ Len(b) # Len(Body(magic, h)) => ReadBody(magic, b).result = "corrupt_envelope"
<1> DEFINE body == Body(magic, h)
           names == Read[magic]
           n == Len(names)
           N == Len(b)
           e(i) == EncodeField(names[i], h[names[i]])
<1>1. /\ Written[magic] = names /\ n \in 5..8 /\ DOMAIN names = 1..n
  BY Orders
<1>2. PICK at : /\ at[0] = 0 /\ at[n] = Len(body)
                /\ \A i \in 0..n : at[i] \in Nat
                /\ \A i \in 1..n : /\ at[i] = at[i - 1] + Len(e(i))
                                   /\ at[i] <= Len(body)
                                   /\ SubSeq(body, at[i - 1] + 1, at[i]) = e(i)
  <2> DEFINE w == Written[magic]
             l == Len(w)
             E(i) == EncodeField(w[i], h[w[i]])
  <2>1. \E at : /\ at[0] = 0 /\ at[l] = Len(body)
                /\ \A i \in 0..l : at[i] \in Nat
                /\ \A i \in 1..l : /\ at[i] = at[i - 1] + Len(E(i))
                                   /\ at[i] <= Len(body)
                                   /\ SubSeq(body, at[i - 1] + 1, at[i]) = E(i)
    BY BodyPieces
  <2>2. w = names
    BY <1>1
  <2> HIDE DEF w, names
  <2> QED BY <2>1, <2>2
<1>3. PICK read : /\ read[0] = Reader(0, <<>>, "ok")
                  /\ \A i \in 1..n : read[i] = ReadField(b, read[i - 1], names[i])
                  /\ ReadBody(magic, b) = Finish(b, read[n])
  <2>1. Len(Read[magic]) \in Nat
    BY <1>1
  <2> QED BY <2>1, ReadSteps
<1>4. body \in Seq(Byte) /\ N \in Nat /\ Len(body) \in Nat
  <2>1. body \in Seq(Byte)
    BY BodyPieces
  <2> QED BY <2>1
<1>5. ASSUME NEW i \in 1..n
      PROVE  /\ names[i] \in DOMAIN h /\ h[names[i]] \in FieldType(names[i])
             /\ Kind(names[i]) \in {"string", "u32s"} => Len(h[names[i]]) <= MaxU16
             /\ e(i) \in Seq(Byte) /\ Len(e(i)) \in Nat
  <2>1. names[i] \in DOMAIN h
    BY <1>1 DEF Writable, Range
  <2>2. h[names[i]] \in FieldType(names[i])
    BY <2>1 DEF Writable
  <2>3. Kind(names[i]) \in {"string", "u32s"} => ~(Len(h[names[i]]) > MaxU16)
    BY <2>1 DEF Writable, TooLong
  <2>4. Kind(names[i]) \in {"string", "u32s"} => Len(h[names[i]]) <= MaxU16
    <3> SUFFICES ASSUME Kind(names[i]) \in {"string", "u32s"} PROVE Len(h[names[i]]) <= MaxU16
      OBVIOUS
    <3> DEFINE v == h[names[i]]
               l == Len(v)
    <3>1. l \in Nat
      <4>1. Kind(names[i]) = "string" => v \in Seq(0..127)
        BY <2>2, Zenon DEF FieldType
      <4>2. Kind(names[i]) = "u32s" => v \in Seq([1..4 -> Byte])
        BY <2>2, Zenon DEF FieldType
      <4> HIDE DEF v
      <4> QED BY <4>1, <4>2, LenProperties
    <3>2. ~(l > MaxU16)
      BY <2>3
    <3> HIDE DEF l
    <3>3. l <= MaxU16
      BY <3>1, <3>2 DEF MaxU16
    <3> QED BY <3>3 DEF l
  <2> DEFINE name == names[i]
             v == h[name]
  <2>5. v \in FieldType(name) /\ (Kind(name) \in {"string", "u32s"} => Len(v) <= MaxU16)
    BY <2>2, <2>4
  <2>6. e(i) = EncodeField(name, v)
    OBVIOUS
  <2> HIDE DEF name, v, e
  <2>7. EncodeField(name, v) \in Seq(Byte)
    BY <2>5, FieldWritten
  <2> QED BY <2>1, <2>2, <2>4, <2>6, <2>7
<1>6. ASSUME NEW i \in 1..n PROVE Stands(b, at[i - 1], e(i))
  <2> SUFFICES ASSUME NEW k \in 1..Len(e(i)), at[i - 1] + k <= Len(b)
               PROVE  b[at[i - 1] + k] = e(i)[k]
    BY DEF Stands
  <2> DEFINE o == at[i - 1]
             p == at[i]
             x == e(i)
  <2>1. o \in Nat /\ p \in Nat /\ p = o + Len(x) /\ p <= Len(body) /\ x = SubSeq(body, o + 1, p)
    <3>1. i - 1 \in 0..n /\ i \in 0..n
      BY <1>1
    <3> QED BY <1>2, <3>1
  <2>2. Len(x) \in Nat
    BY <1>5
  <2> HIDE DEF o, p, x, body, N, n
  <2>3. /\ o <= p /\ k \in 1..(p - o) /\ o + k \in 1..Len(body)
        /\ 0 + (o + k) = o + k /\ o + k <= Len(b)
    <3>1. k \in 1..Len(x) /\ o + k <= Len(b)
      BY DEF x, o
    <3> DEFINE l == Len(x)
               M == Len(body)
    <3>2. /\ o \in Nat /\ p \in Nat /\ p = o + l /\ p <= M /\ l \in Nat /\ M \in Nat
          /\ k \in 1..l
      BY <1>4, <2>1, <2>2, <3>1
    <3> HIDE DEF l, M
    <3>3. o <= p /\ k \in 1..(p - o) /\ o + k \in 1..M /\ 0 + (o + k) = o + k
      BY <3>2
    <3> QED BY <3>1, <3>3 DEF M
  <2>4. \A j \in 1..(p - o) : SubSeq(body, o + 1, p)[j] = body[o + j]
    <3>1. body \in Seq(Byte) /\ o \in Nat /\ p \in Nat /\ o <= p /\ p <= Len(body)
      BY <1>4, <2>1, <2>3
    <3> QED BY <3>1, Piece
  <2>5. x[k] = body[o + k]
    BY <2>1, <2>3, <2>4
  <2>6. 0 + (o + k) = o + k /\ 0 + (o + k) <= Len(b)
    BY <2>3
  <2>7. b[o + k] = body[o + k]
    BY <2>3, <2>6 DEF Stands, body
  <2> QED BY <2>5, <2>7 DEF o, x
<1> DEFINE S == {i \in Nat : i <= n => ReadUpTo(b, names, h, at, read[i], i)}
<1> HIDE DEF body, names, n, N, e
<1>7. 0 \in S
  <2>1. <<>> = [x \in {names[j] : j \in 1..0} |-> h[x]]
    OBVIOUS
  <2>2. at[0] = 0 /\ read[0] = Reader(0, <<>>, "ok") /\ 0 <= Len(b) /\ ~(0 > Len(b))
    BY <1>2, <1>3, <1>4 DEF N
  <2>3. ReadUpTo(b, names, h, at, read[0], 0)
    BY <2>1, <2>2, Zenon DEF ReadUpTo
  <2> QED BY <2>3
<1>8. ASSUME NEW i \in Nat, i \in S PROVE i + 1 \in S
  <2> SUFFICES ASSUME i + 1 <= n PROVE ReadUpTo(b, names, h, at, read[i + 1], i + 1)
    OBVIOUS
  <2> DEFINE j == i + 1
             name == names[j]
             v == h[name]
             r == read[i]
  <2>1. i <= n /\ i \in 0..n /\ j \in 1..n /\ j - 1 = i
    BY <1>1
  <2>2. ReadUpTo(b, names, h, at, r, i)
    BY <1>8, <2>1
  <2>3. /\ v \in FieldType(name)
        /\ Kind(name) \in {"string", "u32s"} => Len(v) <= MaxU16
        /\ e(j) = EncodeField(name, v)
    BY <1>5, <2>1 DEF e
  <2>4. name = "schema_version" => v = SchemaVersion
    OBVIOUS
  <2>5. at[i] \in Nat /\ at[i + 1] = at[i] + Len(EncodeField(name, v))
    BY <1>2, <2>1, <2>3
  <2>6. Stands(b, at[i], EncodeField(name, v))
    <3>1. Stands(b, at[j - 1], e(j))
      BY <1>6, <2>1
    <3> QED BY <2>1, <2>3, <3>1
  <2>7. read[j] = ReadField(b, r, name)
    BY <1>3, <2>1
  <2>8. name = names[i + 1] /\ v = h[name]
    OBVIOUS
  <2> HIDE DEF name, v, r
  <2>9. ReadUpTo(b, names, h, at, ReadField(b, r, name), i + 1)
    BY <2>2, <2>3, <2>4, <2>5, <2>6, <2>8, OneMoreRead
  <2> QED BY <2>7, <2>9
<1>9. ReadUpTo(b, names, h, at, read[n], n)
  <2>1. n \in S
    <3>1. Nat \subseteq S
      <4> HIDE DEF S
      <4> QED BY <1>7, <1>8, Climb
    <3> QED BY <1>1, <3>1
  <2> QED BY <1>1, <2>1
<1>10. {names[j] : j \in 1..n} = DOMAIN h
  BY <1>1 DEF Writable, Range, names
<1>11. CASE N = Len(body)
  <2>1. read[n] = Reader(Len(body), [x \in {names[j] : j \in 1..n} |-> h[x]], "ok")
    <3>1. at[n] <= Len(b) /\ at[n] = Len(body)
      BY <1>2, <1>4, <1>11 DEF N
    <3> QED BY <1>9, <3>1, Zenon DEF ReadUpTo
  <2>2. [x \in {names[j] : j \in 1..n} |-> h[x]] = h
    BY <1>10, Zenon
  <2>3. read[n] = Reader(N, h, "ok")
    BY <1>11, <2>1, <2>2
  <2>4. Finish(b, Reader(N, h, "ok")) = Reader(N, h, "ok")
    BY DEF Finish, Reader, N
  <2>5. ReadBody(magic, b) = Reader(N, h, "ok")
    BY <1>3, <2>3, <2>4
  <2> QED BY <1>11, <2>5 DEF Reader, N, body
<1>12. CASE N # Len(body)
  <2>1. CASE Len(body) > N
    <3>1. read[n].result = "corrupt_envelope"
      BY <1>2, <1>9, <2>1 DEF ReadUpTo, N
    <3>2. Finish(b, read[n]) = read[n]
      BY <3>1 DEF Finish
    <3> QED BY <1>3, <1>12, <3>1, <3>2 DEF N, body
  <2>2. CASE Len(body) < N
    <3> DEFINE f == [x \in {names[j] : j \in 1..n} |-> h[x]]
               l == Len(body)
    <3>1. l <= Len(b) /\ at[n] = l
      BY <1>2, <1>4, <2>2 DEF N
    <3>2. read[n] = Reader(l, f, "ok")
      BY <1>9, <3>1, Zenon DEF ReadUpTo
    <3> HIDE DEF f, l
    <3>3. l # Len(b)
      BY <1>12 DEF l, N
    <3>4. Finish(b, Reader(l, f, "ok")).result = "corrupt_envelope"
      BY <3>3 DEF Finish, Fails, Reader
    <3> QED BY <1>3, <1>12, <3>2, <3>4 DEF N, body
  <2> QED BY <1>4, <1>12, <2>1, <2>2
<1> QED BY <1>11, <1>12 DEF N, body

-----------------------------------------------------------------------------
\* A checksum tells apart any two bodies that differ in one byte.

\* 256 has an inverse modulo a prime.
LEMMA Cancels ==
  ASSUME NEW d \in Int, NEW q \in Int, 256 * d = Modulus * q, d < Modulus, d > -Modulus
  PROVE  d = 0
<1>1. 256 * (d - 32768 * q) = -15 * q
  BY SMTT(10) DEF Modulus
<1>2. q < 256 /\ q > -256
  BY SMTT(10) DEF Modulus
<1> QED BY SMTT(10), <1>1, <1>2

LEMMA NextDiffers ==
  ASSUME NEW x \in Nat, NEW y \in Nat, NEW v \in Byte, NEW w \in Byte, x < Modulus, y < Modulus,
         \/ x = y /\ v # w
         \/ x # y /\ v = w
  PROVE  (x * 256 + v) % Modulus # (y * 256 + w) % Modulus
<1>1. v \in Int /\ 0 <= v /\ v <= 255 /\ w \in Int /\ 0 <= w /\ w <= 255
  BY ByteIs
<1> SUFFICES ASSUME (x * 256 + v) % Modulus = (y * 256 + w) % Modulus PROVE FALSE
  OBVIOUS
<1> DEFINE a == x * 256 + v
           b == y * 256 + w
           q == (a \div Modulus) - (b \div Modulus)
<1>2. a \in Int /\ b \in Int /\ a % Modulus = b % Modulus
  BY SMTT(10), <1>1
<1> HIDE DEF a, b
<1>3. q \in Int /\ a - b = Modulus * q
  BY SMTT(10), <1>2 DEF Modulus
<1> HIDE DEF q
<1>4. CASE x = y /\ v # w
  <2>1. a - b = v - w
    BY SMTT(10), <1>1, <1>4 DEF a, b
  <2>2. v - w = Modulus * q /\ v - w # 0 /\ v - w < 256 /\ v - w > -256
    BY SMTT(10), <1>1, <1>3, <1>4, <2>1
  <2> QED BY SMTT(10), <1>1, <1>3, <2>2 DEF Modulus
<1>5. CASE x # y /\ v = w
  <2> DEFINE d == x - y
  <2>1. a - b = 256 * d
    BY SMTT(10), <1>1, <1>5 DEF a, b
  <2>2. d \in Int /\ d < Modulus /\ d > -Modulus /\ d # 0
    BY SMTT(10), <1>5 DEF Modulus
  <2> HIDE DEF d
  <2>3. 256 * d = Modulus * q
    BY <1>3, <2>1, Zenon
  <2>4. d = 0
    BY <1>3, <2>2, <2>3, Cancels, Zenon
  <2> QED BY <2>2, <2>4, Zenon
<1> QED BY <1>4, <1>5, Zenon

\* Two numbers differ in one of their bytes.
LEMMA BytesDiffer ==
  ASSUME NEW x \in Nat, NEW y \in Nat, x < 16777216, y < 16777216, x # y
  PROVE  \E k \in 1..4 : U32(x)[k] # U32(y)[k]
<1>1. /\ U32(x) \in Seq(Byte) /\ Len(U32(x)) = 4 /\ ReadU32(U32(x)) = x
      /\ U32(y) \in Seq(Byte) /\ Len(U32(y)) = 4 /\ ReadU32(U32(y)) = y
  BY SMTT(10), Written32
<1> SUFFICES ASSUME \A k \in 1..4 : U32(x)[k] = U32(y)[k] PROVE FALSE
  BY SMTT(10)
<1> DEFINE u == U32(x)
           v == U32(y)
<1>2. u = v
  <2>1. /\ u \in Seq(Byte) /\ Len(u) = 4 /\ v \in Seq(Byte) /\ Len(v) = 4
        /\ \A k \in 1..4 : u[k] = v[k]
    BY SMTT(10), <1>1
  <2> HIDE DEF u, v
  <2> QED BY SMTT(10), <2>1
<1> QED BY SMTT(10), <1>1, <1>2

LEMMA ChecksumDiffers ==
  ASSUME NEW x \in Seq(Byte), NEW y \in Seq(Byte), Len(x) = Len(y), NEW i \in 1..Len(x), x[i] # y[i],
         \A k \in 1..Len(x) : k # i => x[k] = y[k]
  PROVE  \E k \in 1..4 : Crc32c(x)[k] # Crc32c(y)[k]
<1> DEFINE n == Len(x)
<1>1. n \in Nat /\ Len(y) \in Nat
  OBVIOUS
<1>2. PICK c : /\ c[0] = 1
               /\ \A k \in 1..Len(x) : c[k] = (c[k - 1] * 256 + x[k]) % Modulus
               /\ Crc32c(x) = U32(c[Len(x)])
  BY <1>1, Checksums, Zenon
<1>3. PICK d : /\ d[0] = 1
               /\ \A k \in 1..Len(y) : d[k] = (d[k - 1] * 256 + y[k]) % Modulus
               /\ Crc32c(y) = U32(d[Len(y)])
  BY <1>1, Checksums, Zenon
<1>4. \A k \in 0..n : c[k] \in Nat /\ c[k] < Modulus
  BY <1>2, ChecksumRange, Zenon
<1>5. \A k \in 0..n : d[k] \in Nat /\ d[k] < Modulus
  BY <1>3, ChecksumRange, Zenon
<1>6. \A k \in 1..n : x[k] \in Byte /\ y[k] \in Byte
  OBVIOUS
<1> HIDE DEF n
<1> DEFINE S == {k \in Nat : k <= n => (c[k] = d[k] <=> k < i)}
<1>7. 0 \in S
  BY <1>2, <1>3
<1>8. ASSUME NEW k \in Nat, k \in S PROVE k + 1 \in S
  <2> SUFFICES ASSUME k + 1 <= n PROVE c[k + 1] = d[k + 1] <=> k + 1 < i
    OBVIOUS
  <2> DEFINE j == k + 1
             p == c[k]
             q == d[k]
             v == x[j]
             w == y[j]
  <2>1. j \in 1..n /\ j - 1 = k /\ k \in 0..n /\ k <= n
    BY <1>1
  <2>2. p \in Nat /\ p < Modulus /\ q \in Nat /\ q < Modulus /\ v \in Byte /\ w \in Byte
    BY <1>4, <1>5, <1>6, <2>1
  <2>3. c[j] = (p * 256 + v) % Modulus /\ d[j] = (q * 256 + w) % Modulus
    <3>1. c[j] = (c[j - 1] * 256 + x[j]) % Modulus
      BY <1>2, <2>1, Zenon DEF n
    <3>2. d[j] = (d[j - 1] * 256 + y[j]) % Modulus
      BY <1>3, <2>1, Zenon DEF n
    <3> QED BY <2>1, <3>1, <3>2, Zenon
  <2>4. (p = q <=> k < i) /\ (v = w <=> j # i)
    BY <1>8, <2>1 DEF n
  <2>5. c[j] = d[j] <=> p = q /\ v = w
    <3> HIDE DEF p, q, v, w, j
    <3>1. p = q /\ v = w => c[j] = d[j]
      BY <2>3, Zenon
    <3>2. p = q \/ v = w
      <4>1. k < i \/ j # i
        BY DEF j
      <4> QED BY <2>4, <4>1
    <3>3. ASSUME ~(p = q /\ v = w) PROVE c[j] # d[j]
      <4>1. (p = q /\ v # w) \/ (p # q /\ v = w)
        BY <3>2, <3>3
      <4>2. (p * 256 + v) % Modulus # (q * 256 + w) % Modulus
        <5>1. p \in Nat /\ q \in Nat /\ v \in Byte /\ w \in Byte /\ p < Modulus /\ q < Modulus
          BY <2>2
        <5> QED BY ONLY <4>1, <5>1, NextDiffers
      <4> QED BY <2>3, <4>2, Zenon
    <3> QED BY <3>1, <3>3
  <2> HIDE DEF p, q, v, w
  <2>6. k < i /\ j # i <=> j < i
    OBVIOUS
  <2> QED BY <2>4, <2>5, <2>6
<1>9. c[n] # d[n]
  <2>1. n \in S
    <3> HIDE DEF S
    <3> QED BY <1>1, <1>7, <1>8, Climb
  <2>2. ~(n < i) /\ n <= n
    BY <1>1 DEF n
  <2> QED BY <2>1, <2>2
<1> DEFINE a == c[n]
           b == d[n]
<1>10. a \in Nat /\ a < Modulus /\ b \in Nat /\ b < Modulus /\ a # b
  <2>1. n \in 0..n
    BY <1>1
  <2> QED BY <1>4, <1>5, <1>9, <2>1, Zenon
<1>11. Crc32c(x) = U32(a) /\ Crc32c(y) = U32(b)
  BY <1>2, <1>3, Zenon DEF n
<1> HIDE DEF a, b
<1>12. a < 16777216 /\ b < 16777216
  BY SMTT(10), <1>10 DEF Modulus
<1>13. \E k \in 1..4 : U32(a)[k] # U32(b)[k]
  BY SMTT(10), <1>10, <1>12, BytesDiffer
<1> QED BY <1>11, <1>13, Zenon

-----------------------------------------------------------------------------
\* The decoder, on files that begin as an encoder wrote them.

\* A file with this body and this opaque part, by place.
LaidOut(f, magic, body, opaque) ==
    /\ f \in Seq(Byte) /\ Len(f) = 14 + Len(body) + Len(opaque)
    /\ \A k \in 1..4 : f[k] = MagicBytes[magic][k]
    /\ f[5] = 1 /\ f[6] = 0
    /\ \A k \in 1..4 : f[6 + k] = U32(Len(body))[k]
    /\ \A k \in 1..4 : f[10 + k] = Crc32c(body)[k]
    /\ \A k \in 1..Len(body) : f[14 + k] = body[k]
    /\ \A k \in 1..Len(opaque) : f[14 + Len(body) + k] = opaque[k]

LEMMA MagicIs ==
  ASSUME NEW magic \in Magic
  PROVE  MagicBytes[magic] \in Seq(Byte) /\ Len(MagicBytes[magic]) = 4
<1>1. /\ 86 \in Byte /\ 73 \in Byte /\ 75 \in Byte /\ 89 \in Byte
      /\ 82 \in Byte /\ 67 \in Byte /\ 65 \in Byte /\ 85 \in Byte
  BY SMTT(10), ByteIs
<1>2. \E a, b, c, d \in Byte : MagicBytes[magic] = <<a, b, c, d>>
  BY <1>1 DEF Magic, MagicBytes
<1> QED BY <1>2

\* What is where in three sequences that are put together.
Three(s, x, y, z) ==
    /\ Len(s) = Len(x) + Len(y) + Len(z)
    /\ \A k \in 1..Len(x) : s[k] = x[k]
    /\ \A k \in 1..Len(y) : s[Len(x) + k] = y[k]
    /\ \A k \in 1..Len(z) : s[Len(x) + Len(y) + k] = z[k]

LEMMA JoinedThree ==
  ASSUME NEW T, NEW x \in Seq(T), NEW y \in Seq(T), NEW z \in Seq(T)
  PROVE  (x \o y) \o z \in Seq(T) /\ Three((x \o y) \o z, x, y, z)
<1> DEFINE a == Len(x)
           b == Len(y)
<1>0. a \in Nat /\ b \in Nat
  OBVIOUS
<1> DEFINE w == x \o y
           s == w \o z
<1>1. /\ w \in Seq(T) /\ Len(w) = a + b
      /\ \A k \in 1..a : w[k] = x[k]
      /\ \A k \in 1..b : w[a + k] = y[k]
  <2>1. /\ x \o y \in Seq(T) /\ Len(x \o y) = Len(x) + Len(y)
        /\ \A k \in 1..Len(x) : (x \o y)[k] = x[k]
        /\ \A k \in 1..Len(y) : (x \o y)[Len(x) + k] = y[k]
    BY Joined
  <2> QED BY <2>1
<1> HIDE DEF w, a, b
<1>2. /\ w \o z \in Seq(T) /\ Len(w \o z) = Len(w) + Len(z)
      /\ \A k \in 1..Len(w) : (w \o z)[k] = w[k]
      /\ \A k \in 1..Len(z) : (w \o z)[Len(w) + k] = z[k]
  <2>1. w \in Seq(T) /\ z \in Seq(T)
    BY <1>1
  <2> QED BY ONLY <2>1, Joined
<1>3. /\ s \in Seq(T) /\ Len(s) = a + b + Len(z)
      /\ \A k \in 1..(a + b) : s[k] = w[k]
      /\ \A k \in 1..Len(z) : s[a + b + k] = z[k]
  BY <1>1, <1>2
<1> HIDE DEF s
<1>4. \A k \in 1..a : k \in 1..(a + b)
  BY <1>0
<1>5. \A k \in 1..b : a + k \in 1..(a + b)
  BY <1>0
<1>6. (\A k \in 1..a : s[k] = x[k]) /\ (\A k \in 1..b : s[a + k] = y[k])
  BY <1>1, <1>3, <1>4, <1>5
<1> QED BY <1>3, <1>6 DEF s, w, a, b, Three

LEMMA Layout ==
  ASSUME NEW magic \in Magic, NEW body \in Seq(Byte), Len(body) <= 8 * MaxWidth + 1,
         NEW opaque \in Seq(Byte)
  PROVE  LaidOut(Enveloped(magic, Sealed(body) \o opaque), magic, body, opaque)
<1> DEFINE L == Len(body)
           u == U32(L)
           c == Crc32c(body)
           m == MagicBytes[magic]
           e == <<EnvelopeVersion, EnvelopeFlags>>
           q == (u \o c) \o body
           p == q \o opaque
           f == (m \o e) \o p
<1>0. L \in Nat /\ L <= 8 * MaxWidth + 1
  OBVIOUS
<1>1. /\ u \in Seq(Byte) /\ Len(u) = 4
  <2> HIDE DEF L
  <2>1. L < 16777216
    BY SMTT(10), <1>0 DEF MaxWidth
  <2> QED BY SMTT(10), <1>0, <2>1, Written32
<1>2. c \in Seq(Byte) /\ Len(c) = 4
  BY ChecksumBytes
<1>3. m \in Seq(Byte) /\ Len(m) = 4
  BY MagicIs
<1>4. e \in Seq(Byte) /\ Len(e) = 2 /\ e[1] = 1 /\ e[2] = 0
  <2>1. 1 \in Byte /\ 0 \in Byte
    BY SMTT(10), ByteIs
  <2> QED BY <2>1 DEF EnvelopeVersion, EnvelopeFlags
<1>5. Enveloped(magic, Sealed(body) \o opaque) = f
  BY Zenon DEF Enveloped, Sealed
<1>6. /\ q \in Seq(Byte) /\ Len(q) = 8 + L
      /\ \A k \in 1..4 : q[k] = u[k]
      /\ \A k \in 1..4 : q[4 + k] = c[k]
      /\ \A k \in 1..L : q[8 + k] = body[k]
  <2> HIDE DEF u, c
  <2>1. u \in Seq(Byte) /\ c \in Seq(Byte) /\ body \in Seq(Byte)
    BY <1>1, <1>2
  <2>2. q \in Seq(Byte) /\ Three(q, u, c, body)
    BY ONLY <2>1, JoinedThree
  <2> HIDE DEF q
  <2>3. 4 + 4 = 8 /\ L = Len(body)
    OBVIOUS
  <2> HIDE DEF L
  <2> QED BY <1>1, <1>2, <2>2, <2>3 DEF Three
<1> HIDE DEF q, u, c
<1>7. /\ p \in Seq(Byte) /\ Len(p) = 8 + L + Len(opaque)
      /\ \A k \in 1..(8 + L) : p[k] = q[k]
      /\ \A k \in 1..Len(opaque) : p[8 + L + k] = opaque[k]
  <2>1. /\ q \o opaque \in Seq(Byte) /\ Len(q \o opaque) = Len(q) + Len(opaque)
        /\ \A k \in 1..Len(q) : (q \o opaque)[k] = q[k]
        /\ \A k \in 1..Len(opaque) : (q \o opaque)[Len(q) + k] = opaque[k]
    <3>1. q \in Seq(Byte) /\ opaque \in Seq(Byte)
      BY <1>6
    <3> QED BY ONLY <3>1, Joined
  <2> QED BY <1>6, <2>1
<1> HIDE DEF p, m, e
<1>8. /\ f \in Seq(Byte) /\ Len(f) = 6 + Len(p)
      /\ \A k \in 1..4 : f[k] = m[k]
      /\ \A k \in 1..2 : f[4 + k] = e[k]
      /\ \A k \in 1..Len(p) : f[6 + k] = p[k]
  <2>1. m \in Seq(Byte) /\ e \in Seq(Byte) /\ p \in Seq(Byte)
    BY <1>3, <1>4, <1>7
  <2>2. f \in Seq(Byte) /\ Three(f, m, e, p)
    BY ONLY <2>1, JoinedThree
  <2> HIDE DEF f
  <2>3. 4 + 2 = 6
    OBVIOUS
  <2> QED BY <1>3, <1>4, <2>2, <2>3 DEF Three
<1> HIDE DEF f, L
<1> DEFINE M == Len(opaque)
<1>9. M \in Nat
  OBVIOUS
<1> HIDE DEF M
<1>10. \A k \in 1..(8 + L + M) : f[6 + k] = p[k]
  BY <1>7, <1>8 DEF M
<1>11. \A k \in 1..(8 + L) : f[6 + k] = q[k]
  BY <1>0, <1>7, <1>9, <1>10
<1>12. \A k \in 1..4 : f[6 + k] = u[k]
  BY <1>0, <1>6, <1>11
<1>13. \A k \in 1..4 : f[10 + k] = c[k]
  <2> SUFFICES ASSUME NEW k \in 1..4 PROVE f[10 + k] = c[k]
    OBVIOUS
  <2>1. 4 + k \in 1..(8 + L) /\ 6 + (4 + k) = 10 + k
    BY <1>0
  <2> QED BY <1>6, <1>11, <2>1
<1>14. \A k \in 1..L : f[14 + k] = body[k]
  <2> SUFFICES ASSUME NEW k \in 1..L PROVE f[14 + k] = body[k]
    OBVIOUS
  <2>1. 8 + k \in 1..(8 + L) /\ 6 + (8 + k) = 14 + k
    BY <1>0
  <2> QED BY <1>6, <1>11, <2>1
<1>15. \A k \in 1..M : f[14 + L + k] = opaque[k]
  <2> SUFFICES ASSUME NEW k \in 1..M PROVE f[14 + L + k] = opaque[k]
    OBVIOUS
  <2>1. 8 + L + k \in 1..(8 + L + M) /\ 6 + (8 + L + k) = 14 + L + k
    BY <1>0, <1>9
  <2>2. p[8 + L + k] = opaque[k]
    BY <1>7 DEF M
  <2> QED BY <1>10, <2>1, <2>2
<1>16. f[5] = 1 /\ f[6] = 0
  <2>1. 1 \in 1..2 /\ 2 \in 1..2 /\ 4 + 1 = 5 /\ 4 + 2 = 6
    OBVIOUS
  <2> QED BY <1>4, <1>8, <2>1
<1>17. f \in Seq(Byte) /\ Len(f) = 14 + L + M
  <2>1. Len(p) = 8 + L + M
    BY <1>7 DEF M
  <2> QED BY <1>0, <1>8, <1>9, <2>1
<1>18. LaidOut(f, magic, body, opaque)
  BY <1>8, <1>12, <1>13, <1>14, <1>15, <1>16, <1>17 DEF LaidOut, L, M, u, c, m
<1> QED BY <1>5, <1>18

\* The six bytes in front of a file of this kind.
FrontIs(f, magic) ==
    Len(f) >= 6 /\ (\A k \in 1..4 : f[k] = MagicBytes[magic][k]) /\ f[5] = 1 /\ f[6] = 0

LEMMA RefusedIs == \A c : Refused(c).result = c
BY DEF Refused, Decoded

\* A file is not looked at any further when its front is not as it should be.
LEMMA FrontRead ==
  ASSUME NEW magic \in Magic, NEW f \in Seq(Byte)
  PROVE  /\ Len(f) < 6 => EnvelopeResult(magic, f) = "corrupt_envelope"
         /\ Len(f) >= 6 /\ (\E k \in 1..4 : f[k] # MagicBytes[magic][k]) /\ f[5] = 1 =>
               EnvelopeResult(magic, f) = "corrupt_envelope"
         /\ Len(f) >= 6 /\ (\A k \in 1..4 : f[k] = MagicBytes[magic][k]) =>
               EnvelopeResult(magic, f) = IF f[5] # 1 THEN "unknown_version"
                                          ELSE IF f[6] # 0 THEN "corrupt_envelope" ELSE "ok"
<1> DEFINE m == MagicBytes[magic]
           p == SubSeq(f, 1, 4)
           known == \E x \in Magic : MagicBytes[x] = p
<1>1. m \in Seq(Byte) /\ Len(m) = 4 /\ Len(f) \in Nat
  BY MagicIs
<1>2. EnvelopeResult(magic, f) =
          IF Len(f) < 6 THEN "corrupt_envelope"
          ELSE IF ~known THEN "corrupt_envelope"
          ELSE IF f[5] # 1 THEN "unknown_version"
          ELSE IF f[6] # 0 THEN "corrupt_envelope"
          ELSE IF p # m THEN "corrupt_envelope"
          ELSE "ok"
  BY Zenon DEF EnvelopeResult, HeaderLen, EnvelopeVersion, EnvelopeFlags
<1>3. ASSUME Len(f) >= 6
      PROVE  p = m <=> \A k \in 1..4 : f[k] = m[k]
  <2>1. /\ 0 \in Nat /\ 4 \in Nat /\ 0 <= 4 /\ 4 <= Len(f) /\ 0 + 1 = 1 /\ 4 - 0 = 4
        /\ \A k \in 1..4 : 0 + k = k
    BY <1>1, <1>3
  <2>2. /\ SubSeq(f, 0 + 1, 4) \in Seq(Byte) /\ Len(SubSeq(f, 0 + 1, 4)) = 4 - 0
        /\ \A k \in 1..(4 - 0) : SubSeq(f, 0 + 1, 4)[k] = f[0 + k]
    BY <2>1, Piece
  <2>3. p \in Seq(Byte) /\ Len(p) = 4 /\ \A k \in 1..4 : p[k] = f[k]
    BY <2>1, <2>2
  <2> HIDE DEF p, m
  <2>4. p = m <=> \A k \in 1..4 : p[k] = m[k]
    BY <1>1, <2>3
  <2> QED BY <2>3, <2>4
<1>4. p = m => known
  OBVIOUS
<1> HIDE DEF p, m, known
<1>5. CASE Len(f) < 6
  <2>1. ~(Len(f) >= 6)
    BY <1>1, <1>5
  <2> QED BY <1>2, <1>5, <2>1
<1>6. CASE ~(Len(f) < 6)
  <2>1. Len(f) >= 6
    BY <1>1, <1>6
  <2>2. EnvelopeResult(magic, f) =
            IF ~known THEN "corrupt_envelope"
            ELSE IF f[5] # 1 THEN "unknown_version"
            ELSE IF f[6] # 0 THEN "corrupt_envelope"
            ELSE IF p # m THEN "corrupt_envelope"
            ELSE "ok"
    BY <1>2, <1>6
  <2>3. (\E k \in 1..4 : f[k] # m[k]) => p # m
    BY <1>3, <2>1
  <2>4. (\A k \in 1..4 : f[k] = m[k]) => p = m /\ known
    BY <1>3, <1>4, <2>1
  <2> QED BY <1>6, <2>2, <2>3, <2>4 DEF m
<1> QED BY <1>5, <1>6

\* What is decoded of a file whose body is b, of n bytes.
DecodedBy(magic, f, n, b) ==
    LET d == DecodeFile(magic, f)
        r == ReadBody(magic, b)
    IN
    /\ Len(f) < 14 => d.result = "corrupt_envelope"
    /\ Len(f) >= 14 =>
          /\ n \in Nat
          /\ 14 + n > Len(f) => d.result = "corrupt_envelope"
          /\ 14 + n <= Len(f) =>
                /\ b \in Seq(Byte) /\ Len(b) = n
                /\ \A k \in 1..n : b[k] = f[14 + k]
                /\ (\E k \in 1..4 : Crc32c(b)[k] # f[10 + k]) => d.result = "corrupt_envelope"
                /\ (\A k \in 1..4 : Crc32c(b)[k] = f[10 + k]) =>
                      d = IF r.result # "ok" THEN Refused(r.result)
                          ELSE Decoded("ok", r.fields, SubSeq(f, 14 + n + 1, Len(f)))

LEMMA Decoding ==
  ASSUME NEW magic \in Magic, NEW f \in Seq(Byte), FrontIs(f, magic),
         NEW n, n = ReadU32(<<f[7], f[8], f[9], f[10]>>), NEW b, b = SubSeq(f, 14 + 1, 14 + n)
  PROVE  DecodedBy(magic, f, n, b)
<1> DEFINE d == DecodeFile(magic, f)
           r == ReadBody(magic, b)
           N == Len(f)
           p == SubSeq(f, 6 + 1, N)
           read == ReadU32(p)
           end == 8 + read
           body == SubSeq(p, 8 + 1, end)
           crc == SubSeq(p, 5, 8)
           opaque == SubSeq(p, end + 1, Len(p))
           s == ReadBody(magic, body)
<1>0. N \in Nat /\ N >= 6 /\ 6 <= N
  BY DEF FrontIs
<1>1. d = DecodePayload(magic, p)
  <2>1. EnvelopeResult(magic, f) = "ok"
    BY FrontRead DEF FrontIs
  <2>2. DecodeFile(magic, f) = DecodePayload(magic, SubSeq(f, HeaderLen + 1, Len(f)))
    BY <2>1 DEF DecodeFile
  <2> QED BY <2>2 DEF HeaderLen
<1>2. d = IF Len(p) < 8 THEN Refused("corrupt_envelope")
          ELSE IF end > Len(p) THEN Refused("corrupt_envelope")
          ELSE IF ~(Crc32c(body) = crc) THEN Refused("corrupt_envelope")
          ELSE IF s.result # "ok" THEN Refused(s.result)
          ELSE Decoded("ok", s.fields, opaque)
  BY <1>1, Zenon DEF DecodePayload, PrefixLen, ChecksumMatches
<1> HIDE DEF d
<1>3. p \in Seq(Byte) /\ Len(p) = N - 6 /\ \A k \in 1..(N - 6) : p[k] = f[6 + k]
  <2>1. 6 \in Nat /\ N \in Nat /\ 6 <= N /\ N <= Len(f)
    BY <1>0
  <2> HIDE DEF N
  <2> QED BY <2>1, Piece
<1>4. CASE N < 14
  <2>1. Len(p) < 8 /\ ~(N >= 14)
    BY <1>0, <1>3, <1>4
  <2>2. d = Refused("corrupt_envelope")
    BY <1>2, <2>1
  <2> QED BY <2>1, <2>2, RefusedIs DEF d, N, DecodedBy
<1>5. CASE ~(N < 14)
  <2>0. N >= 14 /\ ~(Len(p) < 8) /\ 14 <= N /\ ~(N < 14)
    BY <1>0, <1>3, <1>5
  <2>1. read = n /\ n \in Nat
    <3>1. p[1] = f[7] /\ p[2] = f[8] /\ p[3] = f[9] /\ p[4] = f[10]
      <4>1. /\ 1 \in 1..(N - 6) /\ 2 \in 1..(N - 6) /\ 3 \in 1..(N - 6) /\ 4 \in 1..(N - 6)
            /\ 6 + 1 = 7 /\ 6 + 2 = 8 /\ 6 + 3 = 9 /\ 6 + 4 = 10
        BY <1>0, <2>0
      <4> HIDE DEF N, p
      <4> QED BY <1>3, <4>1
    <3>2. Len(p) >= 4
      BY <1>0, <1>3, <2>0
    <3> HIDE DEF p
    <3>3. ReadU32(p) = ReadU32(<<p[1], p[2], p[3], p[4]>>)
      BY SMTT(10) DEF ReadU32
    <3>4. ReadU32(p) \in Nat
      BY <1>3, <3>2, Numbers32
    <3> QED BY <3>1, <3>3, <3>4
  <2> HIDE DEF read
  <2>2. end > Len(p) <=> 14 + n > N
    BY SMTT(20), <1>0, <1>3, <2>1
  <2>3. CASE 14 + n > N
    <3>1. d = Refused("corrupt_envelope")
      BY <1>2, <2>0, <2>2, <2>3
    <3>2. ~(14 + n <= N)
      BY <1>0, <2>1, <2>3
    <3> QED BY <2>0, <2>1, <3>1, <3>2, RefusedIs DEF d, N, DecodedBy
  <2>4. CASE ~(14 + n > N)
    <3>1. 14 + n <= N
      BY <1>0, <2>1, <2>4
    <3>2. b \in Seq(Byte) /\ Len(b) = n /\ \A k \in 1..n : b[k] = f[14 + k]
      <4> DEFINE j == 14 + n
      <4>1. 14 \in Nat /\ j \in Nat /\ 14 <= j /\ j <= Len(f) /\ j - 14 = n
        BY <2>1, <3>1
      <4>2. b = SubSeq(f, 14 + 1, j)
        OBVIOUS
      <4> HIDE DEF j
      <4>3. /\ SubSeq(f, 14 + 1, j) \in Seq(Byte) /\ Len(SubSeq(f, 14 + 1, j)) = j - 14
            /\ \A k \in 1..(j - 14) : SubSeq(f, 14 + 1, j)[k] = f[14 + k]
        BY <4>1, Piece
      <4> QED BY <4>1, <4>2, <4>3
    <3>3. body = b /\ opaque = SubSeq(f, 14 + n + 1, N)
      <4>1. /\ 6 \in Nat /\ N \in Nat /\ 6 <= N /\ N <= Len(f)
            /\ 8 \in Nat /\ end \in Nat /\ 8 <= end /\ end <= N - 6
            /\ N - 6 \in Nat /\ N - 6 <= N - 6
        <5>1. end = 8 + n /\ n \in Nat /\ 14 + n <= N /\ N \in Nat /\ N >= 6 /\ N = Len(f)
          BY <1>0, <2>1, <3>1
        <5> HIDE DEF N, end
        <5> QED BY ONLY <5>1
      <4>2. 6 + 8 = 14 /\ 6 + end = 14 + n /\ 6 + (N - 6) = N
        BY <1>0, <2>1
      <4> HIDE DEF N, end
      <4>3. SubSeq(SubSeq(f, 6 + 1, N), 8 + 1, end) = SubSeq(f, 6 + 8 + 1, 6 + end)
        BY ONLY <4>1, PieceOfPiece, f \in Seq(Byte)
      <4>4. SubSeq(SubSeq(f, 6 + 1, N), end + 1, N - 6) = SubSeq(f, 6 + end + 1, 6 + (N - 6))
        BY ONLY <4>1, PieceOfPiece, f \in Seq(Byte)
      <4> QED BY <1>3, <4>2, <4>3, <4>4
    <3>4. Crc32c(body) = crc <=> \A k \in 1..4 : Crc32c(b)[k] = f[10 + k]
      <4> DEFINE c == Crc32c(b)
      <4>1. c \in Seq(Byte) /\ Len(c) = 4
        BY <3>2, ChecksumBytes
      <4>2. crc \in Seq(Byte) /\ Len(crc) = 4 /\ \A k \in 1..4 : crc[k] = f[10 + k]
        <5>1. /\ 4 \in Nat /\ 8 \in Nat /\ 4 <= 8 /\ 8 <= Len(p) /\ 4 + 1 = 5 /\ 8 - 4 = 4
              /\ p \in Seq(Byte)
          BY <1>0, <1>3, <2>0
        <5> HIDE DEF p
        <5>2. /\ SubSeq(p, 4 + 1, 8) \in Seq(Byte) /\ Len(SubSeq(p, 4 + 1, 8)) = 8 - 4
              /\ \A k \in 1..(8 - 4) : SubSeq(p, 4 + 1, 8)[k] = p[4 + k]
          BY <5>1, Piece
        <5>3. ASSUME NEW k \in 1..4 PROVE p[4 + k] = f[10 + k]
          <6>1. 4 + k \in 1..(N - 6) /\ 6 + (4 + k) = 10 + k
            BY <1>0, <2>0
          <6> HIDE DEF N
          <6> QED BY <1>3, <6>1
        <5> QED BY <5>1, <5>2, <5>3
      <4> HIDE DEF c, crc
      <4>3. c = crc <=> \A k \in 1..4 : c[k] = crc[k]
        <5>1. c \in Seq(Byte) /\ Len(c) = 4 /\ crc \in Seq(Byte) /\ Len(crc) = 4
          BY <4>1, <4>2
        <5> QED BY ONLY <5>1
      <4> QED BY <3>3, <4>2, <4>3 DEF c
    <3> HIDE DEF body, crc, opaque, p
    <3>5. d = IF ~(Crc32c(body) = crc) THEN Refused("corrupt_envelope")
              ELSE IF r.result # "ok" THEN Refused(r.result)
              ELSE Decoded("ok", r.fields, SubSeq(f, 14 + n + 1, N))
      BY <1>2, <2>0, <2>2, <2>4, <3>3
    <3>6. (\E k \in 1..4 : Crc32c(b)[k] # f[10 + k]) => d.result = "corrupt_envelope"
      BY <3>4, <3>5, RefusedIs
    <3>7. (\A k \in 1..4 : Crc32c(b)[k] = f[10 + k]) =>
              d = IF r.result # "ok" THEN Refused(r.result)
                  ELSE Decoded("ok", r.fields, SubSeq(f, 14 + n + 1, N))
      BY <3>4, <3>5
    <3> QED BY <2>0, <2>1, <2>4, <3>1, <3>2, <3>6, <3>7 DEF d, N, DecodedBy
  <2> QED BY <2>3, <2>4
<1> QED BY <1>4, <1>5

\* The length of a body is read as it was written, and other bytes are another length.
LengthIs(f, n, l) == n \in Nat /\ (n = l <=> \A k \in 1..4 : f[6 + k] = U32(l)[k])

LEMMA LengthRead ==
  ASSUME NEW f \in Seq(Byte), Len(f) >= 10, NEW l \in Nat, l < 16777216
  PROVE  LengthIs(f, ReadU32(<<f[7], f[8], f[9], f[10]>>), l)
<1> DEFINE q == <<f[7], f[8], f[9], f[10]>>
           n == ReadU32(q)
           u == U32(l)
<1>1. f[7] \in Byte /\ f[8] \in Byte /\ f[9] \in Byte /\ f[10] \in Byte
  BY SMTT(10)
<1>2. q \in Seq(Byte) /\ Len(q) = 4 /\ q[1] = f[7] /\ q[2] = f[8] /\ q[3] = f[9] /\ q[4] = f[10]
  BY SMTT(10), <1>1
<1> HIDE DEF q
<1>3. q = <<q[1], q[2], q[3], q[4]>>
  BY SMTT(10), <1>2
<1>4. n \in Nat /\ (n < 16777216 => U32(n) = q)
  <2>1. q \in Seq(Byte) /\ Len(q) >= 4
    BY SMTT(10), <1>2
  <2>2. /\ ReadU32(q) \in Nat
        /\ ReadU32(q) < 16777216 => U32(ReadU32(q)) = <<q[1], q[2], q[3], q[4]>>
    BY ONLY SMTT(10), <2>1, Numbers32
  <2> QED BY SMTT(10), <1>3, <2>2
<1>5. u \in Seq(Byte) /\ Len(u) = 4 /\ ReadU32(u) = l
  BY SMTT(10), Written32
<1>6. n = l => q = u
  BY SMTT(10), <1>4
<1>7. q = u => n = l
  BY SMTT(10), <1>5
<1> HIDE DEF n, u
<1>8. q = u <=> \A k \in 1..4 : q[k] = u[k]
  BY SMTT(10), <1>2, <1>5
<1>9. \A k \in 1..4 : q[k] = f[6 + k]
  <2>1. 6 + 1 = 7 /\ 6 + 2 = 8 /\ 6 + 3 = 9 /\ 6 + 4 = 10
    BY SMTT(10)
  <2>2. \A k \in 1..4 : k = 1 \/ k = 2 \/ k = 3 \/ k = 4
    BY SMTT(10)
  <2> QED BY SMTT(10), <1>2, <2>1, <2>2
<1>10. n = l <=> \A k \in 1..4 : f[6 + k] = u[k]
  BY SMTT(10), <1>6, <1>7, <1>8, <1>9
<1> QED BY SMTT(10), <1>4, <1>10 DEF n, u, q, LengthIs

\* A file that has its front, its length, its checksum and its body.
Whole(f, magic, body) ==
    /\ FrontIs(f, magic) /\ Len(f) >= 14 + Len(body)
    /\ \A k \in 1..4 : f[6 + k] = U32(Len(body))[k]
    /\ \A k \in 1..4 : f[10 + k] = Crc32c(body)[k]
    /\ \A k \in 1..Len(body) : f[14 + k] = body[k]

\* A header that is bound, and its body.
Bound(magic, h, body) ==
    /\ magic \in Magic /\ Writable(magic, h)
    /\ h = [name \in DOMAIN h |-> h[name]]
    /\ h["schema_version"] = SchemaVersion
    /\ body = Body(magic, h)

LEMMA BoundBody ==
  ASSUME NEW magic, NEW h, NEW body, Bound(magic, h, body)
  PROVE  /\ body \in Seq(Byte) /\ Len(body) \in Nat /\ Len(body) <= 8 * MaxWidth + 1
         /\ Len(body) < 16777216
         /\ \A b : b \in Seq(Byte) /\ Stands(b, 0, body) =>
               LET r == ReadBody(magic, b) IN
               IF Len(b) = Len(body) THEN r.result = "ok" /\ r.fields = h
               ELSE r.result = "corrupt_envelope"
<1> DEFINE L == Len(body)
<1>1. body \in Seq(Byte) /\ L <= 8 * MaxWidth
  BY BodyPieces DEF Bound
<1>2. L \in Nat
  BY <1>1
<1>3. \A b : b \in Seq(Byte) /\ Stands(b, 0, body) =>
               LET r == ReadBody(magic, b) IN
               IF Len(b) = Len(body) THEN r.result = "ok" /\ r.fields = h
               ELSE r.result = "corrupt_envelope"
  <2> SUFFICES ASSUME NEW b \in Seq(Byte), Stands(b, 0, body)
               PROVE  LET r == ReadBody(magic, b) IN
                      IF Len(b) = Len(body) THEN r.result = "ok" /\ r.fields = h
                      ELSE r.result = "corrupt_envelope"
    OBVIOUS
  <2>1. /\ magic \in Magic /\ Writable(magic, h) /\ h = [name \in DOMAIN h |-> h[name]]
        /\ h["schema_version"] = SchemaVersion /\ body = Body(magic, h)
    BY DEF Bound
  <2>2. Stands(b, 0, Body(magic, h))
    BY <2>1
  <2>3. /\ Len(b) = Len(Body(magic, h)) =>
               ReadBody(magic, b).result = "ok" /\ ReadBody(magic, b).fields = h
        /\ Len(b) # Len(Body(magic, h)) => ReadBody(magic, b).result = "corrupt_envelope"
    BY <2>1, <2>2, BodyRead
  <2> QED BY <2>1, <2>3
<1> HIDE DEF L
<1>4. L <= 8 * MaxWidth + 1 /\ L < 16777216
  BY SMTT(10), <1>1, <1>2 DEF MaxWidth
<1> QED BY SMTT(10), <1>1, <1>2, <1>3, <1>4 DEF L

\* It is read as it was bound, and what is behind it is the opaque part.
LEMMA WholeRead ==
  ASSUME NEW magic, NEW h, NEW body, Bound(magic, h, body), NEW f \in Seq(Byte), Whole(f, magic, body)
  PROVE  DecodeFile(magic, f) = Decoded("ok", h, SubSeq(f, 14 + Len(body) + 1, Len(f)))
<1> DEFINE L == Len(body)
           N == Len(f)
           n == ReadU32(<<f[7], f[8], f[9], f[10]>>)
           b == SubSeq(f, 14 + 1, 14 + n)
           r == ReadBody(magic, b)
<1>1. magic \in Magic /\ L \in Nat /\ N \in Nat
  BY BoundBody DEF Bound
<1>2. N >= 14 + L /\ FrontIs(f, magic)
  BY DEF Whole
<1>3. n = L
  <2>1. N >= 10
    BY <1>1, <1>2
  <2>2. L < 16777216
    BY BoundBody
  <2>3. \A k \in 1..4 : f[6 + k] = U32(L)[k]
    BY DEF Whole
  <2>4. LengthIs(f, n, L)
    <3> HIDE DEF L
    <3>1. f \in Seq(Byte) /\ Len(f) >= 10 /\ L \in Nat /\ L < 16777216
      BY SMTT(10), <1>1, <2>1, <2>2
    <3> QED BY ONLY SMTT(10), <3>1, LengthRead
  <2> QED BY <2>3, <2>4 DEF LengthIs
<1> HIDE DEF n, b
<1>4. /\ b \in Seq(Byte) /\ Len(b) = n /\ (\A k \in 1..n : b[k] = f[14 + k])
      /\ (\A k \in 1..4 : Crc32c(b)[k] = f[10 + k]) =>
            DecodeFile(magic, f) = IF r.result # "ok" THEN Refused(r.result)
                                   ELSE Decoded("ok", r.fields, SubSeq(f, 14 + n + 1, N))
  <2>1. N >= 14 /\ 14 + n <= N
    BY <1>1, <1>2, <1>3
  <2>2. /\ magic \in Magic /\ f \in Seq(Byte) /\ FrontIs(f, magic)
        /\ n = ReadU32(<<f[7], f[8], f[9], f[10]>>) /\ b = SubSeq(f, 14 + 1, 14 + n)
    BY <1>1, <1>2 DEF n, b
  <2>3. DecodedBy(magic, f, n, b)
    BY ONLY <2>2, Decoding
  <2> QED BY <2>1, <2>3 DEF DecodedBy
<1>5. b = body
  <2>1. body \in Seq(Byte) /\ \A k \in 1..L : f[14 + k] = body[k]
    BY BoundBody DEF Whole
  <2> HIDE DEF L
  <2>2. b \in Seq(Byte) /\ Len(b) = L /\ (\A k \in 1..L : b[k] = body[k]) /\ L = Len(body)
    BY <1>3, <1>4, <2>1 DEF L
  <2> QED BY <2>1, <2>2
<1>6. \A k \in 1..4 : Crc32c(b)[k] = f[10 + k]
  BY <1>5 DEF Whole
<1>7. r.result = "ok" /\ r.fields = h
  <2>1. Stands(b, 0, body)
    BY <1>1, <1>5 DEF Stands
  <2> QED BY <1>4, <1>5, <2>1, BoundBody
<1> HIDE DEF r
<1> QED BY <1>3, <1>4, <1>6, <1>7

\* The first m bytes are those of s.
SameTo(f, s, m) == m <= Len(f) /\ \A k \in 1..m : f[k] = s[k]

\* What of a laid-out file is still in place as long as its first m bytes are.
LEMMA StillWhole ==
  ASSUME NEW magic, NEW h, NEW body, Bound(magic, h, body),
         NEW opaque \in Seq(Byte), NEW s, LaidOut(s, magic, body, opaque),
         NEW f \in Seq(Byte), NEW m \in Nat, SameTo(f, s, m)
  PROVE  /\ m >= 6 => FrontIs(f, magic)
         /\ m >= 10 => \A k \in 1..4 : f[6 + k] = U32(Len(body))[k]
         /\ m >= 14 => \A k \in 1..4 : f[10 + k] = Crc32c(body)[k]
         /\ m >= 14 + Len(body) => Whole(f, magic, body)
<1> DEFINE L == Len(body)
<1>0. L \in Nat /\ Len(f) \in Nat /\ m <= Len(f) /\ \A k \in 1..m : f[k] = s[k]
  BY BoundBody DEF SameTo
<1>1. /\ \A k \in 1..4 : s[k] = MagicBytes[magic][k]
      /\ s[5] = 1 /\ s[6] = 0
      /\ \A k \in 1..4 : s[6 + k] = U32(L)[k]
      /\ \A k \in 1..4 : s[10 + k] = Crc32c(body)[k]
      /\ \A k \in 1..L : s[14 + k] = body[k]
  BY DEF LaidOut
<1> HIDE DEF L
<1>2. ASSUME m >= 6 PROVE FrontIs(f, magic)
  <2>1. 5 \in 1..m /\ 6 \in 1..m /\ Len(f) >= 6 /\ \A k \in 1..4 : k \in 1..m
    BY <1>0, <1>2
  <2> QED BY <1>0, <1>1, <2>1 DEF FrontIs
<1>3. ASSUME m >= 10, NEW k \in 1..4 PROVE f[6 + k] = U32(L)[k]
  <2>1. 6 + k \in 1..m
    BY <1>3
  <2> QED BY <1>0, <1>1, <2>1
<1>4. ASSUME m >= 14, NEW k \in 1..4 PROVE f[10 + k] = Crc32c(body)[k]
  <2>1. 10 + k \in 1..m
    BY <1>4
  <2> QED BY <1>0, <1>1, <2>1
<1>5. ASSUME m >= 14 + L PROVE Whole(f, magic, body)
  <2>1. m >= 6 /\ m >= 10 /\ m >= 14 /\ Len(f) >= 14 + L
    BY <1>0, <1>5
  <2>2. \A k \in 1..L : f[14 + k] = body[k]
    <3> SUFFICES ASSUME NEW k \in 1..L PROVE f[14 + k] = body[k]
      OBVIOUS
    <3>1. 14 + k \in 1..m
      BY <1>0, <1>5
    <3> QED BY <1>0, <1>1, <3>1
  <2>3. FrontIs(f, magic)
    BY <1>2, <2>1
  <2>4. \A k \in 1..4 : f[6 + k] = U32(L)[k]
    BY <1>3, <2>1
  <2>5. \A k \in 1..4 : f[10 + k] = Crc32c(body)[k]
    BY <1>4, <2>1
  <2> QED BY <2>1, <2>2, <2>3, <2>4, <2>5 DEF Whole, L
<1> QED BY <1>2, <1>3, <1>4, <1>5 DEF L

\* The first m bytes of a file.
CutAt(f, s, m) == m \in Nat /\ m <= Len(s) /\ f = SubSeq(s, 0 + 1, m)

\* A file that lost its end is refused, unless only opaque bytes are gone.
LEMMA CutRead ==
  ASSUME NEW magic, NEW h, NEW body, Bound(magic, h, body),
         NEW opaque \in Seq(Byte), NEW s, LaidOut(s, magic, body, opaque),
         NEW f, NEW m, CutAt(f, s, m)
  PROVE  /\ f \in Seq(Byte) /\ Len(f) = m
         /\ m < 14 + Len(body) => DecodeFile(magic, f).result = "corrupt_envelope"
         /\ m >= 14 + Len(body) =>
               /\ DecodeFile(magic, f).result = "ok"
               /\ DecodeFile(magic, f).header = h
<1> DEFINE L == Len(body)
           d == DecodeFile(magic, f)
           n == ReadU32(<<f[7], f[8], f[9], f[10]>>)
           b == SubSeq(f, 14 + 1, 14 + n)
<1>0. L \in Nat /\ magic \in Magic /\ m \in Nat
  BY SMTT(10), BoundBody DEF Bound, CutAt
<1>1. f \in Seq(Byte) /\ Len(f) = m /\ \A k \in 1..m : f[k] = s[k]
  <2>1. s \in Seq(Byte) /\ 0 \in Nat /\ 0 <= m /\ m - 0 = m /\ m \in Nat /\ m <= Len(s)
    BY <1>0 DEF LaidOut, CutAt
  <2>2. /\ SubSeq(s, 0 + 1, m) \in Seq(Byte) /\ Len(SubSeq(s, 0 + 1, m)) = m - 0
        /\ \A k \in 1..(m - 0) : SubSeq(s, 0 + 1, m)[k] = s[0 + k]
    BY <2>1, Piece
  <2>3. \A k \in 1..m : 0 + k = k
    OBVIOUS
  <2>4. f = SubSeq(s, 0 + 1, m)
    BY DEF CutAt
  <2> QED BY <2>1, <2>2, <2>3, <2>4
<1>2. /\ m >= 6 => FrontIs(f, magic)
      /\ m >= 10 => \A k \in 1..4 : f[6 + k] = U32(L)[k]
      /\ m >= 14 + L => Whole(f, magic, body)
  <2>1. SameTo(f, s, m) /\ f \in Seq(Byte)
    BY <1>1 DEF SameTo
  <2>2. /\ m >= 6 => FrontIs(f, magic)
        /\ m >= 10 => \A k \in 1..4 : f[6 + k] = U32(Len(body))[k]
        /\ m >= 14 => \A k \in 1..4 : f[10 + k] = Crc32c(body)[k]
        /\ m >= 14 + Len(body) => Whole(f, magic, body)
    <3>1. /\ Bound(magic, h, body) /\ opaque \in Seq(Byte) /\ LaidOut(s, magic, body, opaque)
          /\ m \in Nat
      BY <1>0
    <3> QED BY ONLY <2>1, <3>1, StillWhole
  <2> QED BY <2>2 DEF L
<1> HIDE DEF d, n, b, L
<1>3. CASE m < 6
  <2>1. EnvelopeResult(magic, f) = "corrupt_envelope"
    BY <1>0, <1>1, <1>3, FrontRead
  <2>2. d.result = "corrupt_envelope"
    BY <2>1, RefusedIs DEF d, DecodeFile
  <2>3. ~(m >= 14 + L)
    BY ONLY <1>0, <1>3
  <2> QED BY <1>1, <2>2, <2>3 DEF d, L
<1>4. CASE m >= 6 /\ m < 14 + L
  <2>1. DecodedBy(magic, f, n, b)
    <3>1. magic \in Magic /\ f \in Seq(Byte) /\ FrontIs(f, magic)
      BY <1>0, <1>1, <1>2, <1>4
    <3>2. n = ReadU32(<<f[7], f[8], f[9], f[10]>>) /\ b = SubSeq(f, 14 + 1, 14 + n)
      BY DEF n, b
    <3> QED BY ONLY <3>1, <3>2, Decoding
  <2>2. d.result = "corrupt_envelope"
    <3>1. CASE m < 14
      <4>1. Len(f) < 14
        BY <1>1, <3>1
      <4> QED BY <2>1, <4>1 DEF DecodedBy, d
    <3>2. CASE m >= 14
      <4>1. Len(f) >= 10 /\ \A k \in 1..4 : f[6 + k] = U32(L)[k]
        BY <1>1, <1>2, <3>2
      <4>2. n = L
        <5>1. L < 16777216
          BY SMTT(10), BoundBody DEF L
        <5>2. L \in Nat /\ f \in Seq(Byte) /\ Len(f) >= 10
          BY SMTT(10), <1>0, <1>1, <4>1
        <5>3. LengthIs(f, ReadU32(<<f[7], f[8], f[9], f[10]>>), L)
          BY ONLY SMTT(10), <5>1, <5>2, LengthRead
        <5>4. LengthIs(f, n, L)
          BY ONLY <5>3 DEF n
        <5> QED BY SMTT(10), <4>1, <5>4 DEF LengthIs
      <4>3. Len(f) >= 14 /\ 14 + n > Len(f)
        BY <1>0, <1>1, <1>4, <3>2, <4>2
      <4> QED BY ONLY <2>1, <4>3 DEF DecodedBy, d
    <3>3. m < 14 \/ m >= 14
      BY <1>0
    <3> QED BY <3>1, <3>2, <3>3
  <2>3. ~(m >= 14 + L)
    BY <1>0, <1>4
  <2> QED BY <1>1, <2>2, <2>3 DEF d, L
<1>5. CASE m >= 14 + L
  <2>1. d = Decoded("ok", h, SubSeq(f, 14 + L + 1, Len(f)))
    <3>1. f \in Seq(Byte) /\ Whole(f, magic, body)
      BY <1>1, <1>2, <1>5
    <3>2. DecodeFile(magic, f) = Decoded("ok", h, SubSeq(f, 14 + Len(body) + 1, Len(f)))
      BY ONLY <3>1, Bound(magic, h, body), WholeRead
    <3> QED BY <3>2 DEF d, L
  <2>2. d.result = "ok" /\ d.header = h
    BY <2>1 DEF Decoded
  <2>3. ~(m < 14 + L)
    BY <1>0, <1>5
  <2> QED BY <1>1, <2>2, <2>3 DEF d, L
<1> QED
  <2>1. m < 6 \/ (m >= 6 /\ m < 14 + L) \/ m >= 14 + L
    BY <1>0
  <2> QED BY <1>3, <1>4, <1>5, <2>1

\* One byte is another.
Changed(f, s, i) ==
    /\ f \in Seq(Byte) /\ Len(f) = Len(s) /\ i \in 1..Len(s) /\ f[i] # s[i]
    /\ \A k \in 1..Len(s) : k # i => f[k] = s[k]

\* A file that is laid out but for the byte at i.
SoundBut(f, magic, body, i) ==
    /\ i \in Nat /\ f \in Seq(Byte) /\ Len(f) \in Nat /\ Len(f) >= 14 + Len(body)
    /\ \A k \in 1..4 : (k = i <=> f[k] # MagicBytes[magic][k])
    /\ (5 = i <=> f[5] # 1) /\ (6 = i <=> f[6] # 0)
    /\ \A k \in 1..4 : (6 + k = i <=> f[6 + k] # U32(Len(body))[k])
    /\ \A k \in 1..4 : (10 + k = i <=> f[10 + k] # Crc32c(body)[k])
    /\ \A k \in 1..Len(body) : (14 + k = i <=> f[14 + k] # body[k])

LEMMA ChangedIs ==
  ASSUME NEW magic, NEW h, NEW body, Bound(magic, h, body),
         NEW opaque \in Seq(Byte), NEW s, LaidOut(s, magic, body, opaque),
         NEW f, NEW i, Changed(f, s, i)
  PROVE  SoundBut(f, magic, body, i)
<1> DEFINE L == Len(body)
           N == Len(s)
<1>0. L \in Nat /\ Len(opaque) \in Nat
  BY SMTT(10), BoundBody
<1>1. /\ s \in Seq(Byte) /\ N = 14 + L + Len(opaque)
      /\ \A k \in 1..4 : s[k] = MagicBytes[magic][k]
      /\ s[5] = 1 /\ s[6] = 0
      /\ \A k \in 1..4 : s[6 + k] = U32(L)[k]
      /\ \A k \in 1..4 : s[10 + k] = Crc32c(body)[k]
      /\ \A k \in 1..L : s[14 + k] = body[k]
  BY DEF LaidOut
<1>2. /\ f \in Seq(Byte) /\ Len(f) = N /\ i \in 1..N
      /\ \A k \in 1..N : k = i <=> f[k] # s[k]
  BY DEF Changed
<1> HIDE DEF L, N
<1>3. i \in Nat /\ N \in Nat /\ N >= 14 + L
  BY <1>0, <1>1, <1>2
<1>4. ASSUME NEW k \in 1..4 PROVE k \in 1..N /\ 6 + k \in 1..N /\ 10 + k \in 1..N
  BY <1>0, <1>3
<1>5. ASSUME NEW k \in 1..L PROVE 14 + k \in 1..N
  BY <1>0, <1>3
<1>6. 5 \in 1..N /\ 6 \in 1..N
  BY <1>0, <1>3
<1>7. \A k \in 1..4 : (k = i <=> f[k] # MagicBytes[magic][k])
  BY <1>1, <1>2, <1>4
<1>8. \A k \in 1..4 : (6 + k = i <=> f[6 + k] # U32(L)[k])
  BY <1>1, <1>2, <1>4
<1>9. \A k \in 1..4 : (10 + k = i <=> f[10 + k] # Crc32c(body)[k])
  BY <1>1, <1>2, <1>4
<1>10. \A k \in 1..L : (14 + k = i <=> f[14 + k] # body[k])
  BY <1>1, <1>2, <1>5
<1>11. (5 = i <=> f[5] # 1) /\ (6 = i <=> f[6] # 0)
  <2>1. (5 = i <=> f[5] # s[5]) /\ (6 = i <=> f[6] # s[6])
    BY ONLY <1>2, <1>6
  <2>2. s[5] = 1 /\ s[6] = 0
    BY <1>1
  <2> QED BY ONLY <2>1, <2>2
<1> QED BY <1>2, <1>3, <1>7, <1>8, <1>9, <1>10, <1>11 DEF L, SoundBut

LEMMA FlipFront ==
  ASSUME NEW magic, NEW h, NEW body, Bound(magic, h, body),
         NEW opaque \in Seq(Byte), NEW s, LaidOut(s, magic, body, opaque),
         NEW f, NEW i, Changed(f, s, i), i <= 6
  PROVE  DecodeFile(magic, f).result = IF i = 5 THEN "unknown_version" ELSE "corrupt_envelope"
<1> DEFINE L == Len(body)
           m == MagicBytes[magic]
<1>0. L \in Nat /\ magic \in Magic
  BY SMTT(10), BoundBody DEF Bound
<1>1. /\ i \in Nat /\ f \in Seq(Byte) /\ Len(f) \in Nat /\ Len(f) >= 14 + L
      /\ \A k \in 1..4 : (k = i <=> f[k] # m[k])
      /\ (5 = i <=> f[5] # 1) /\ (6 = i <=> f[6] # 0)
  <2>1. SoundBut(f, magic, body, i)
    BY ChangedIs
  <2> QED BY <2>1 DEF SoundBut, L, m
<1>2. i \in 1..Len(s)
  BY DEF Changed
<1> HIDE DEF L, m
<1>3. Len(f) >= 6 /\ i >= 1
  BY <1>0, <1>1, <1>2
<1>4. ASSUME EnvelopeResult(magic, f) = IF i = 5 THEN "unknown_version" ELSE "corrupt_envelope"
      PROVE  DecodeFile(magic, f).result = IF i = 5 THEN "unknown_version" ELSE "corrupt_envelope"
  BY <1>4, RefusedIs DEF DecodeFile
<1>5. CASE i \in 1..4
  <2>1. f[5] = 1 /\ i # 5 /\ \E k \in 1..4 : f[k] # m[k]
    BY <1>1, <1>5
  <2>2. EnvelopeResult(magic, f) = "corrupt_envelope"
    BY <1>0, <1>1, <1>3, <2>1, FrontRead DEF m
  <2> QED BY <1>4, <2>1, <2>2
<1>6. CASE i \in {5, 6}
  <2>1. /\ \A k \in 1..4 : f[k] = m[k]
        /\ (i = 5 => f[5] # 1) /\ (i # 5 => f[5] = 1 /\ f[6] # 0)
    BY <1>1, <1>6
  <2>2. EnvelopeResult(magic, f) = IF f[5] # 1 THEN "unknown_version"
                                   ELSE IF f[6] # 0 THEN "corrupt_envelope" ELSE "ok"
    BY <1>0, <1>1, <1>3, <2>1, FrontRead DEF m
  <2> QED BY <1>4, <2>1, <2>2
<1>7. i \in 1..4 \/ i \in {5, 6}
  BY <1>1, <1>3
<1> QED BY <1>5, <1>6, <1>7

LEMMA FlipLength ==
  ASSUME NEW magic, NEW h, NEW body, Bound(magic, h, body),
         NEW opaque \in Seq(Byte), NEW s, LaidOut(s, magic, body, opaque),
         NEW f, NEW i, Changed(f, s, i), i > 6, i <= 10
  PROVE  DecodeFile(magic, f).result = "corrupt_envelope"
<1> DEFINE L == Len(body)
           d == DecodeFile(magic, f)
           n == ReadU32(<<f[7], f[8], f[9], f[10]>>)
           b == SubSeq(f, 14 + 1, 14 + n)
           r == ReadBody(magic, b)
<1> HIDE DEF d, n, b, r
<1>0. L \in Nat /\ magic \in Magic
  BY SMTT(10), BoundBody DEF Bound
<1>1. /\ i \in Nat /\ f \in Seq(Byte) /\ Len(f) \in Nat /\ Len(f) >= 14 + L
      /\ \A k \in 1..4 : (k = i <=> f[k] # MagicBytes[magic][k])
      /\ (5 = i <=> f[5] # 1) /\ (6 = i <=> f[6] # 0)
      /\ \A k \in 1..4 : (6 + k = i <=> f[6 + k] # U32(L)[k])
      /\ \A k \in 1..L : (14 + k = i <=> f[14 + k] # body[k])
  <2>1. SoundBut(f, magic, body, i)
    BY ChangedIs
  <2> QED BY <2>1 DEF SoundBut, L
<1> HIDE DEF L
<1>2. FrontIs(f, magic)
  <2>1. \A k \in 1..4 : k # i
    BY <1>1
  <2>2. 5 # i /\ 6 # i /\ Len(f) >= 6
    BY <1>0, <1>1
  <2> QED BY <1>1, <2>1, <2>2 DEF FrontIs
<1>3. n \in Nat /\ n # L
  <2>1. LengthIs(f, ReadU32(<<f[7], f[8], f[9], f[10]>>), L)
    <3>1. f \in Seq(Byte) /\ Len(f) >= 10 /\ L \in Nat /\ L < 16777216
      BY SMTT(10), <1>0, <1>1, BoundBody DEF L
    <3> QED BY ONLY SMTT(10), <3>1, LengthRead
  <2>2. LengthIs(f, n, L)
    BY ONLY <2>1 DEF n
  <2>3. i - 6 \in 1..4 /\ 6 + (i - 6) = i
    BY <1>1
  <2>4. f[6 + (i - 6)] # U32(L)[i - 6]
    BY <1>1, <2>3
  <2> QED BY <2>2, <2>3, <2>4 DEF LengthIs
<1>4. DecodedBy(magic, f, n, b)
  <2>1. n = ReadU32(<<f[7], f[8], f[9], f[10]>>) /\ b = SubSeq(f, 14 + 1, 14 + n)
    BY DEF n, b
  <2>2. magic \in Magic /\ f \in Seq(Byte) /\ FrontIs(f, magic)
    BY <1>0, <1>1, <1>2
  <2> QED BY ONLY <2>1, <2>2, Decoding
<1>5. Len(f) >= 14
  BY <1>0, <1>1
<1>6. CASE 14 + n > Len(f)
  BY <1>4, <1>5, <1>6 DEF DecodedBy, d
<1>7. CASE 14 + n <= Len(f)
  <2>1. /\ b \in Seq(Byte) /\ Len(b) = n
        /\ \A k \in 1..n : b[k] = f[14 + k]
        /\ (\E k \in 1..4 : Crc32c(b)[k] # f[10 + k]) => d.result = "corrupt_envelope"
        /\ (\A k \in 1..4 : Crc32c(b)[k] = f[10 + k]) =>
              d = IF r.result # "ok" THEN Refused(r.result)
                  ELSE Decoded("ok", r.fields, SubSeq(f, 14 + n + 1, Len(f)))
    BY <1>4, <1>5, <1>7 DEF DecodedBy, d, r
  <2>2. Stands(b, 0, body)
    <3> SUFFICES ASSUME NEW k \in 1..Len(body), 0 + k <= Len(b) PROVE b[0 + k] = body[k]
      BY DEF Stands
    <3>1. k \in 1..L /\ k \in 1..n /\ 0 + k = k
      BY <1>3, <2>1 DEF L
    <3>2. 14 + k # i
      BY <1>1, <3>1
    <3> QED BY <1>1, <2>1, <3>1, <3>2
  <2>3. r.result = "corrupt_envelope"
    <3>1. b \in Seq(Byte) /\ Stands(b, 0, body) /\ Len(b) # Len(body)
      BY <1>3, <2>1, <2>2 DEF L
    <3> QED BY <3>1, BoundBody DEF r
  <2>4. CASE \E k \in 1..4 : Crc32c(b)[k] # f[10 + k]
    BY <2>1, <2>4 DEF d
  <2>5. CASE \A k \in 1..4 : Crc32c(b)[k] = f[10 + k]
    <3>1. d = Refused("corrupt_envelope")
      BY <2>1, <2>3, <2>5
    <3> QED BY <3>1, RefusedIs DEF d
  <2> QED BY <2>4, <2>5
<1> QED BY <1>1, <1>3, <1>6, <1>7

LEMMA FlipSum ==
  ASSUME NEW magic, NEW h, NEW body, Bound(magic, h, body),
         NEW opaque \in Seq(Byte), NEW s, LaidOut(s, magic, body, opaque),
         NEW f, NEW i, Changed(f, s, i), i > 10, i <= 14 + Len(body)
  PROVE  DecodeFile(magic, f).result = "corrupt_envelope"
<1> DEFINE L == Len(body)
           d == DecodeFile(magic, f)
           n == ReadU32(<<f[7], f[8], f[9], f[10]>>)
           b == SubSeq(f, 14 + 1, 14 + n)
<1> HIDE DEF d, n, b
<1>0. L \in Nat /\ magic \in Magic /\ body \in Seq(Byte)
  BY SMTT(10), BoundBody DEF Bound
<1>1. /\ i \in Nat /\ f \in Seq(Byte) /\ Len(f) \in Nat /\ Len(f) >= 14 + L
      /\ \A k \in 1..4 : (k = i <=> f[k] # MagicBytes[magic][k])
      /\ (5 = i <=> f[5] # 1) /\ (6 = i <=> f[6] # 0)
      /\ \A k \in 1..4 : (6 + k = i <=> f[6 + k] # U32(L)[k])
      /\ \A k \in 1..4 : (10 + k = i <=> f[10 + k] # Crc32c(body)[k])
      /\ \A k \in 1..L : (14 + k = i <=> f[14 + k] # body[k])
  <2>1. SoundBut(f, magic, body, i)
    BY ChangedIs
  <2> QED BY <2>1 DEF SoundBut, L
<1> HIDE DEF L
<1>2. FrontIs(f, magic)
  <2>1. \A k \in 1..4 : k # i
    BY <1>1
  <2>2. 5 # i /\ 6 # i /\ Len(f) >= 6
    <3>1. i \in Nat /\ Len(f) \in Nat /\ Len(f) >= 14 + L /\ L \in Nat
      BY <1>0, <1>1
    <3> QED BY ONLY <3>1, i > 10
  <2> QED BY <1>1, <2>1, <2>2 DEF FrontIs
<1>3. n = L
  <2>1. LengthIs(f, ReadU32(<<f[7], f[8], f[9], f[10]>>), L)
    <3>1. f \in Seq(Byte) /\ Len(f) >= 10 /\ L \in Nat /\ L < 16777216
      BY SMTT(10), <1>0, <1>1, BoundBody DEF L
    <3> QED BY ONLY SMTT(10), <3>1, LengthRead
  <2>2. LengthIs(f, n, L)
    BY ONLY <2>1 DEF n
  <2>3. \A k \in 1..4 : 6 + k # i
    BY <1>1
  <2>4. \A k \in 1..4 : f[6 + k] = U32(L)[k]
    BY <1>1, <2>3
  <2> QED BY <2>2, <2>4 DEF LengthIs
<1>4. DecodedBy(magic, f, n, b)
  <2>1. n = ReadU32(<<f[7], f[8], f[9], f[10]>>) /\ b = SubSeq(f, 14 + 1, 14 + n)
    BY DEF n, b
  <2>2. magic \in Magic /\ f \in Seq(Byte) /\ FrontIs(f, magic)
    BY <1>0, <1>1, <1>2
  <2> QED BY ONLY <2>1, <2>2, Decoding
<1>5. Len(f) >= 14 /\ 14 + n <= Len(f)
  BY <1>0, <1>1, <1>3
<1>6. /\ b \in Seq(Byte) /\ Len(b) = L
      /\ \A k \in 1..L : b[k] = f[14 + k]
      /\ (\E k \in 1..4 : Crc32c(b)[k] # f[10 + k]) => d.result = "corrupt_envelope"
  BY <1>3, <1>4, <1>5 DEF DecodedBy, d
<1>7. CASE i <= 14
  <2>1. b = body
    <3>1. \A k \in 1..L : 14 + k # i
      BY <1>0, <1>1, <1>7
    <3>2. \A k \in 1..L : b[k] = body[k]
      BY <1>1, <1>6, <3>1
    <3>3. b \in Seq(Byte) /\ body \in Seq(Byte) /\ Len(b) = L /\ Len(body) = L
      BY <1>0, <1>6 DEF L
    <3> QED BY ONLY <3>2, <3>3
  <2>2. i - 10 \in 1..4 /\ 10 + (i - 10) = i
    <3>1. i \in Nat
      BY <1>1
    <3> QED BY ONLY <3>1, <1>7, i > 10
  <2>3. f[10 + (i - 10)] # Crc32c(body)[i - 10]
    BY <1>1, <2>2
  <2>4. \E k \in 1..4 : Crc32c(b)[k] # f[10 + k]
    BY <2>1, <2>2, <2>3
  <2> QED BY <1>6, <2>4 DEF d
<1>8. CASE i > 14
  <2> DEFINE j == i - 14
  <2>1. j \in 1..L /\ 14 + j = i
    BY <1>0, <1>1, <1>8 DEF L
  <2> HIDE DEF j
  <2>2. b[j] # body[j]
    BY <1>1, <1>6, <2>1
  <2>3. ASSUME NEW k \in 1..L, k # j PROVE b[k] = body[k]
    <3>1. 14 + k # i
      BY <1>1, <2>1, <2>3
    <3> QED BY <1>1, <1>6, <3>1
  <2>4. \E k \in 1..4 : Crc32c(b)[k] # Crc32c(body)[k]
    <3>1. /\ b \in Seq(Byte) /\ body \in Seq(Byte) /\ Len(b) = Len(body) /\ j \in 1..Len(b)
          /\ \A k \in 1..Len(b) : k # j => b[k] = body[k]
      BY <1>0, <1>6, <2>1, <2>3 DEF L
    <3> QED BY ONLY <2>2, <3>1, ChecksumDiffers
  <2>5. \A k \in 1..4 : f[10 + k] = Crc32c(body)[k]
    <3>1. \A k \in 1..4 : 10 + k # i
      BY <1>1, <1>8
    <3> QED BY <1>1, <3>1
  <2> QED BY <1>6, <2>4, <2>5 DEF d
<1> QED BY <1>1, <1>7, <1>8

LEMMA FlipBehind ==
  ASSUME NEW magic, NEW h, NEW body, Bound(magic, h, body),
         NEW opaque \in Seq(Byte), NEW s, LaidOut(s, magic, body, opaque),
         NEW f, NEW i, Changed(f, s, i), i > 14 + Len(body)
  PROVE  DecodeFile(magic, f).result = "ok" /\ DecodeFile(magic, f).header = h
<1> DEFINE L == Len(body)
<1>0. L \in Nat /\ magic \in Magic /\ body \in Seq(Byte)
  BY SMTT(10), BoundBody DEF Bound
<1>1. SameTo(f, s, 14 + L) /\ f \in Seq(Byte) /\ 14 + L \in Nat
  <2>1. /\ Len(s) = 14 + L + Len(opaque) /\ Len(opaque) \in Nat
        /\ Len(f) = Len(s) /\ f \in Seq(Byte)
        /\ \A k \in 1..Len(s) : k # i => f[k] = s[k]
    BY DEF LaidOut, Changed
  <2> HIDE DEF L
  <2>2. ASSUME NEW k \in 1..(14 + L) PROVE k \in 1..Len(s) /\ k # i
    BY <1>0, <2>1 DEF L
  <2>3. 14 + L \in Nat /\ 14 + L <= Len(f)
    BY <1>0, <2>1
  <2> QED BY <2>1, <2>2, <2>3 DEF SameTo
<1> DEFINE m == 14 + L
<1>2. Whole(f, magic, body)
  <2>0. m >= 14 + Len(body)
    BY <1>0
  <2>1. SameTo(f, s, m) /\ f \in Seq(Byte) /\ m \in Nat
    BY <1>1
  <2>2. Bound(magic, h, body) /\ opaque \in Seq(Byte) /\ LaidOut(s, magic, body, opaque)
    OBVIOUS
  <2> HIDE DEF m
  <2> QED BY ONLY <2>0, <2>1, <2>2, StillWhole
<1>3. DecodeFile(magic, f) = Decoded("ok", h, SubSeq(f, 14 + Len(body) + 1, Len(f)))
  BY ONLY Bound(magic, h, body), <1>1, <1>2, WholeRead
<1> QED BY <1>3 DEF Decoded

\* What becomes of a file with one changed byte, by the place of the byte.
LEMMA FlipRead ==
  ASSUME NEW magic, NEW h, NEW body, Bound(magic, h, body),
         NEW opaque \in Seq(Byte), NEW s, LaidOut(s, magic, body, opaque),
         NEW f, NEW i, Changed(f, s, i)
  PROVE  LET d == DecodeFile(magic, f) IN
         CASE i = 5 -> d.result = "unknown_version"
           [] i # 5 /\ i <= 14 + Len(body) -> d.result = "corrupt_envelope"
           [] i > 14 + Len(body) -> d.result = "ok" /\ d.header = h
<1> DEFINE L == Len(body)
           d == DecodeFile(magic, f)
<1>0. L \in Nat /\ i \in Nat
  <2>1. L \in Nat
    BY SMTT(10), BoundBody
  <2> QED BY <2>1 DEF Changed
<1>1. i <= 6 => d.result = IF i = 5 THEN "unknown_version" ELSE "corrupt_envelope"
  BY FlipFront
<1>2. i > 6 /\ i <= 10 => d.result = "corrupt_envelope"
  BY FlipLength
<1>3. i > 10 /\ i <= 14 + L => d.result = "corrupt_envelope"
  BY FlipSum
<1>4. i > 14 + L => d.result = "ok" /\ d.header = h
  BY FlipBehind
<1> HIDE DEF d, L
<1>5. CASE i = 5
  <2>1. i <= 6
    BY <1>5
  <2>2. d.result = "unknown_version"
    BY <1>1, <1>5, <2>1
  <2>3. ~(i > 14 + L)
    BY <1>0, <1>5
  <2> QED BY <1>5, <2>2, <2>3 DEF d, L
<1>6. CASE i # 5 /\ i <= 14 + L
  <2>1. i <= 6 \/ (i > 6 /\ i <= 10) \/ i > 10
    BY <1>0
  <2>2. d.result = "corrupt_envelope"
    BY <1>1, <1>2, <1>3, <1>6, <2>1
  <2>3. ~(i > 14 + L)
    BY <1>0, <1>6
  <2> QED BY <1>6, <2>2, <2>3 DEF d, L
<1>7. CASE i > 14 + L
  <2>1. i # 5 /\ ~(i <= 14 + L)
    BY <1>0, <1>7
  <2> QED BY <1>4, <1>7, <2>1 DEF d, L
<1> QED
  <2>1. i = 5 \/ (i # 5 /\ i <= 14 + L) \/ i > 14 + L
    BY <1>0
  <2> QED BY <1>5, <1>6, <1>7, <2>1

-----------------------------------------------------------------------------
\* What is at the reader of an artifact that vi-receipt encoded, after a good answer.

\* What is left of s when its end was cut or one of its bytes was changed.
LeftOf(f, s, c, n) ==
    /\ ~c /\ n = 0 => f = s
    /\ c /\ n = 0 => \E m : CutAt(f, s, m)
    /\ ~c /\ n = 1 => \E i : Changed(f, s, i)

AtReader == pc = "file" \/ decoded.result # "none"

WayInv ==
    /\ own /\ (pc \in Sending \/ AtReader) =>
          /\ EncodeResult(artifact.header) = "ok"
          /\ sent = EncodeFile(artifact.magic, artifact.header, artifact.opaque)
    /\ own /\ honest /\ AtReader => LeftOf(file, sent, cut, flips)

LEMMA LeftWhole ==
  ASSUME NEW s
  PROVE  LeftOf(s, s, FALSE, 0)
BY DEF LeftOf

LEMMA LeftByFlip ==
  ASSUME NEW f \in Seq(Byte), NEW s, NEW c \in BOOLEAN, NEW n \in Nat, LeftOf(f, s, c, n),
         NEW i \in DOMAIN f, NEW v \in Byte, f[i] # v
  PROVE  LeftOf([f EXCEPT ![i] = v], s, c, n + 1)
<1> DEFINE g == [f EXCEPT ![i] = v]
<1>1. n + 1 # 0 /\ (n + 1 = 1 => n = 0)
  OBVIOUS
<1>2. ASSUME ~c, n = 0 PROVE Changed(g, s, i)
  <2>1. f = s
    BY <1>2 DEF LeftOf
  <2>2. /\ g \in Seq(Byte) /\ Len(g) = Len(f) /\ i \in 1..Len(f) /\ g[i] # f[i]
        /\ \A k \in 1..Len(f) : k # i => g[k] = f[k]
    OBVIOUS
  <2> HIDE DEF g
  <2> QED BY <2>1, <2>2 DEF Changed
<1> HIDE DEF g
<1>3. LeftOf(g, s, c, n + 1)
  BY <1>1, <1>2 DEF LeftOf
<1> QED BY <1>3 DEF g

LEMMA LeftByCut ==
  ASSUME NEW s \in Seq(Byte), NEW m \in 0..Len(s), NEW f, LeftOf(f, s, FALSE, 0)
  PROVE  LeftOf(SubSeq(f, 1, m), s, TRUE, 0)
<1>1. f = s
  BY DEF LeftOf
<1>2. CutAt(SubSeq(f, 1, m), s, m)
  BY <1>1 DEF CutAt
<1> HIDE DEF LeftOf
<1> QED BY <1>2 DEF LeftOf

\* The way does not change as long as the artifact is on it.
LEMMA WaySame ==
  ASSUME WayInv, UNCHANGED <<artifact, sent, own, decoded>>, decoded.result = "none",
         pc' \in Sending \/ pc' = "done", pc' \in Sending => pc \in Sending
  PROVE  WayInv'
<1>1. ~AtReader'
  BY DEF AtReader, Sending
<1> QED BY <1>1 DEF WayInv

LEMMA WayEncode ==
  ASSUME IInv, WayInv, Encode
  PROVE  WayInv'
<1> DEFINE a == artifact
           body == Body(a.magic, a.header)
           result == EncodeResult(a.header)
<1>0. /\ pc = "encode" /\ UNCHANGED <<artifact, honest, cut, flips, decoded>>
      /\ ~cut /\ flips = 0 /\ decoded.result = "none"
  BY DEF Encode, damage, IInv, FaultInv, ReadInv, Before
<1>1. CASE result # "ok"
  <2>1. pc' = "done"
    BY <1>1 DEF Encode, Ends
  <2> QED BY <1>0, <2>1 DEF WayInv, AtReader, Sending
<1>2. CASE result = "ok"
  <2>1. /\ \/ sent' = EncodeFile(a.magic, a.header, a.opaque) /\ own' = TRUE
           \/ own' = FALSE
        /\ file' = IF op = "keygen" THEN sent' ELSE file
        /\ pc' = IF op = "keygen" THEN "file" ELSE "request"
    BY <1>2 DEF Encode
  <2> HIDE DEF result, body
  <2>2. own' => EncodeResult(a.header) = "ok" /\ sent' = EncodeFile(a.magic, a.header, a.opaque)
    BY <1>2, <2>1 DEF result
  <2>3. AtReader' => LeftOf(file', sent', cut', flips')
    <3>1. AtReader' => file' = sent'
      BY <1>0, <2>1 DEF AtReader
    <3>2. cut' = FALSE /\ flips' = 0
      BY <1>0 DEF IInv, FaultInv
    <3> QED BY <3>1, <3>2, LeftWhole
  <2> QED BY <1>0, <2>2, <2>3 DEF WayInv
<1> QED BY <1>1, <1>2

LEMMA WayReceiveChat ==
  ASSUME IInv, WayInv, ReceiveChat, IInv'
  PROVE  WayInv'
<1>0. /\ pc = "answered" /\ op = "chat"
      /\ UNCHANGED <<op, artifact, sent, own, answer, honest, cut, flips, decoded>>
      /\ ~cut /\ flips = 0 /\ decoded.result = "none" /\ honest \in BOOLEAN
  BY DEF ReceiveChat, damage, IInv, FaultInv, ReadInv, Before, Sending
<1>1. pc' = "file" \/ pc' = "done"
  BY DEF ReceiveChat, Ends
<1>2. CASE pc' = "done"
  BY <1>0, <1>2, WaySame DEF Sending
<1>3. CASE pc' = "file"
  <2>1. ASSUME honest PROVE file' = sent
    <3>1. sent \in Seq(Byte)
      BY <1>0, FilesAreBytes DEF IInv, PathInv, Sending
    <3>2. file' \in Seq(Byte)
      BY <1>3 DEF IInv, PathInv
    <3> DEFINE D == {i \in DOMAIN sent : file'[i] # sent[i]}
    <3>3. Len(file') = Len(sent) /\ Cardinality(D) <= 0
      <4>1. /\ Len(file') = Len(sent')
            /\ Cardinality({i \in DOMAIN sent' : file'[i] # sent'[i]}) <= One(~honest')
        BY <1>0, <1>3 DEF IInv, ReceiptAsSent
      <4>2. One(~honest') = 0
        BY <1>0, <2>1 DEF One
      <4> QED BY <1>0, <4>1, <4>2
    <3>4. D = {}
      <4>1. DOMAIN sent = 1..Len(sent) /\ Len(sent) \in Nat /\ IsFiniteSet(1..Len(sent))
        BY <3>1, FS_Interval
      <4>2. IsFiniteSet(D) /\ D \subseteq 1..Len(sent)
        BY <4>1, FS_Subset
      <4> HIDE DEF D
      <4>3. Cardinality(D) \in Nat /\ (Cardinality(D) = 0 <=> D = {})
        BY <4>2, FS_CardinalityType, FS_EmptySet
      <4> QED BY <3>3, <4>3
    <3>5. \A k \in 1..Len(sent) : file'[k] = sent[k]
      BY <3>1, <3>4
    <3> QED BY <3>1, <3>2, <3>3, <3>5
  <2>2. honest' => LeftOf(file', sent', cut', flips')
    <3>1. honest' => file' = sent'
      BY <1>0, <2>1
    <3>2. cut' = FALSE /\ flips' = 0
      BY <1>0 DEF IInv, FaultInv
    <3> QED BY <3>1, <3>2, LeftWhole
  <2>4. own' => /\ EncodeResult((artifact').header) = "ok"
                /\ sent' = EncodeFile((artifact').magic, (artifact').header, (artifact').opaque)
    BY <1>0 DEF WayInv, Sending
  <2> QED BY <2>2, <2>4 DEF WayInv
<1> QED BY <1>1, <1>2, <1>3

LEMMA WayReceiveAudit ==
  ASSUME IInv, WayInv, ReceiveAudit
  PROVE  WayInv'
<1>0. /\ pc = "answered" /\ op = "audit"
      /\ UNCHANGED <<op, artifact, sent, own, answer, honest, cut, flips, decoded>>
      /\ ~cut /\ flips = 0 /\ decoded.result = "none"
  BY DEF ReceiveAudit, damage, IInv, FaultInv, ReadInv, Before, Sending
<1>1. (pc' = "file" /\ file' = answer.body) \/ pc' = "done"
  BY DEF ReceiveAudit, Ends
<1>2. CASE pc' = "done"
  BY <1>0, <1>2, WaySame DEF Sending
<1>3. CASE pc' = "file" /\ file' = answer.body
  <2>1. \E x : answer = Opening(x, sent)
    BY <1>0 DEF IInv, PathInv, GoodAnswersTo, OtherAnswersTo
  <2>2. file' = sent
    BY <1>3, <2>1 DEF Opening, Plain
  <2>3. LeftOf(file', sent', cut', flips')
    <3>1. cut' = FALSE /\ flips' = 0 /\ file' = sent'
      BY <1>0, <2>2 DEF IInv, FaultInv
    <3> QED BY <3>1, LeftWhole
  <2>4. own' => /\ EncodeResult((artifact').header) = "ok"
                /\ sent' = EncodeFile((artifact').magic, (artifact').header, (artifact').opaque)
    BY <1>0 DEF WayInv, Sending
  <2> QED BY <2>3, <2>4 DEF WayInv
<1> QED BY <1>1, <1>2, <1>3

LEMMA WayFlip ==
  ASSUME IInv, WayInv, NEW i \in DOMAIN file, NEW v \in FlipValue, Flip(i, v)
  PROVE  WayInv'
<1>1. /\ pc = "file" /\ file' = [file EXCEPT ![i] = v] /\ file[i] # v
      /\ cut' = cut /\ flips' = flips + 1
      /\ UNCHANGED <<artifact, sent, own, honest, decoded, pc>>
  BY DEF Flip
<1>2. file \in Seq(Byte) /\ v \in Byte /\ cut \in BOOLEAN /\ flips \in Nat
  BY <1>1, DeliveryConstants DEF IInv, PathInv, FaultInv
<1>3. ASSUME own, honest PROVE LeftOf(file', sent', cut', flips')
  <2>1. LeftOf(file, sent, cut, flips)
    BY <1>1, <1>3 DEF WayInv, AtReader
  <2>2. LeftOf([file EXCEPT ![i] = v], sent, cut, flips + 1)
    BY ONLY <1>1, <1>2, <2>1, i \in DOMAIN file, LeftByFlip
  <2> QED BY <1>1, <2>2
<1> QED BY <1>1, <1>3 DEF WayInv, AtReader

LEMMA WayCut ==
  ASSUME IInv, WayInv, NEW n \in 0..Len(file), Cut(n)
  PROVE  WayInv'
<1>1. /\ pc = "file" /\ ~cut /\ flips = 0 /\ file' = SubSeq(file, 1, n)
      /\ cut' = TRUE /\ flips' = flips
      /\ UNCHANGED <<artifact, sent, own, honest, decoded, pc>>
  BY DEF Cut
<1>2. file \in Seq(Byte) /\ cut \in BOOLEAN
  BY <1>1 DEF IInv, PathInv, FaultInv
<1>3. ASSUME own, honest PROVE LeftOf(file', sent', cut', flips')
  <2>1. LeftOf(file, sent, cut, flips)
    BY <1>1, <1>3 DEF WayInv, AtReader
  <2>2. LeftOf(file, sent, FALSE, 0) /\ file = sent
    BY <1>1, <1>2, <2>1 DEF LeftOf
  <2>3. sent \in Seq(Byte) /\ n \in 0..Len(sent)
    BY <1>2, <2>2
  <2>4. LeftOf(SubSeq(file, 1, n), sent, TRUE, 0)
    BY ONLY <2>2, <2>3, LeftByCut
  <2> QED BY <1>1, <2>4
<1> QED BY <1>1, <1>3 DEF WayInv, AtReader

LEMMA WayInit == Init => WayInv
<1> SUFFICES ASSUME Init PROVE WayInv
  OBVIOUS
<1>1. pc = "encode" /\ decoded.result = "none"
  BY DEF Init, Refused, Decoded
<1> QED BY <1>1 DEF WayInv, AtReader, Sending

LEMMA WayStep == IInv /\ WayInv /\ [Next]_vars => WayInv'
<1> SUFFICES ASSUME IInv, WayInv, [Next]_vars PROVE WayInv'
  OBVIOUS
<1>0. IInv'
  BY StepFacts
<1>1. CASE Encode
  BY <1>1, WayEncode
<1>2. CASE Request \/ NetworkFails \/ ProviderAnswers \/ ReceiveText \/ ReceiveHealth
  <2>1. /\ pc \in Sending /\ (pc' \in Sending \/ pc' = "done")
        /\ UNCHANGED <<artifact, sent, own, decoded>>
    BY <1>2 DEF Request, NetworkFails, ProviderAnswers, ReceiveText, ReceiveHealth, Ends, Sending
  <2>2. decoded.result = "none"
    BY <2>1 DEF IInv, ReadInv, Sending
  <2> QED BY <2>1, <2>2, WaySame
<1>3. CASE ReceiveChat
  BY <1>0, <1>3, WayReceiveChat
<1>4. CASE ReceiveAudit
  BY <1>4, WayReceiveAudit
<1>5. CASE \E i \in DOMAIN file, v \in FlipValue : Flip(i, v)
  BY <1>5, WayFlip
<1>6. CASE \E n \in 0..Len(file) : Cut(n)
  BY <1>6, WayCut
<1>7. CASE Load
  <2>1. pc = "file" /\ UNCHANGED <<artifact, sent, own, honest, file, cut, flips>> /\ pc' = "done"
    BY <1>7 DEF Load, Ends, damage
  <2> QED BY <2>1 DEF WayInv, AtReader, Sending
<1>8. CASE UNCHANGED vars
  BY <1>8 DEF vars, damage, WayInv, AtReader
<1> QED BY <1>1, <1>2, <1>3, <1>4, <1>5, <1>6, <1>7, <1>8 DEF Next

LEMMA WayHolds == Spec => [](IInv /\ WayInv)
BY InitFacts, StepFacts, WayInit, WayStep, PTL DEF Spec

\* A file that vi-receipt encoded, laid out.
LEMMA OwnLaidOut ==
  ASSUME NEW a \in Artifact, EncodeResult(a.header) = "ok",
         NEW s, s = EncodeFile(a.magic, a.header, a.opaque)
  PROVE  /\ a.opaque \in Seq(Byte) /\ Bound(a.magic, a.header, Body(a.magic, a.header))
         /\ LaidOut(s, a.magic, Body(a.magic, a.header), a.opaque)
<1> DEFINE magic == a.magic
           h == a.header
           body == Body(magic, h)
           opaque == a.opaque
<1>1. opaque \in Seq(Byte) /\ Bound(magic, h, body)
  <2>1. magic \in Magic /\ Writable(magic, h) /\ opaque \in Seq(Byte)
    BY ArtifactHeader
  <2>2. h = [name \in DOMAIN h |-> h[name]]
    BY DeliveryConstants
  <2>3. h["schema_version"] = SchemaVersion
    BY DEF EncodeResult
  <2> QED BY <2>1, <2>2, <2>3 DEF Bound
<1>2. LaidOut(s, magic, body, opaque)
  <2> HIDE DEF body
  <2>1. magic \in Magic /\ body \in Seq(Byte) /\ Len(body) <= 8 * MaxWidth + 1
    BY SMTT(10), <1>1, BoundBody DEF Bound
  <2>2. LaidOut(Enveloped(magic, Sealed(body) \o opaque), magic, body, opaque)
    BY ONLY <1>1, <2>1, Layout
  <2> QED BY <2>2 DEF EncodeFile, body
<1> QED BY <1>1, <1>2

\* A single changed byte in front of the opaque part and a missing end are refused, in the
\* category of their place, and what is behind does not matter to the header.
THEOREM DamageRefused == Spec => []DamageIsRefused
<1>1. IInv /\ WayInv => DamageIsRefused
  <2> SUFFICES ASSUME IInv, WayInv, decoded.result # "none", own, honest
               PROVE  DamageIsRefused
    BY DEF DamageIsRefused
  <2> DEFINE magic == artifact.magic
             h == artifact.header
             body == Body(magic, h)
             opaque == artifact.opaque
  <2>1. /\ artifact \in Artifact /\ EncodeResult(h) = "ok" /\ sent = EncodeFile(magic, h, opaque)
        /\ LeftOf(file, sent, cut, flips) /\ decoded = DecodeFile(magic, file)
    BY DEF IInv, PathInv, ReadInv, WayInv, AtReader
  <2>2. opaque \in Seq(Byte) /\ Bound(magic, h, body) /\ LaidOut(sent, magic, body, opaque)
    BY <2>1, OwnLaidOut
  <2>3. HeaderEnd = 14 + Len(body)
    BY DEF HeaderEnd, HeaderLen, PrefixLen
  <2> HIDE DEF magic, h, body, opaque
  <2>4. ASSUME cut, flips = 0
        PROVE  decoded.result = IF Len(file) < HeaderEnd THEN "corrupt_envelope" ELSE "ok"
    <3>1. PICK m : CutAt(file, sent, m)
      BY <2>1, <2>4 DEF LeftOf
    <3>2. m \in Nat
      BY <3>1 DEF CutAt
    <3>3. /\ Len(file) = m
          /\ m < 14 + Len(body) => DecodeFile(magic, file).result = "corrupt_envelope"
          /\ m >= 14 + Len(body) => DecodeFile(magic, file).result = "ok"
      BY ONLY <2>2, <3>1, CutRead
    <3>4. m < 14 + Len(body) \/ m >= 14 + Len(body)
      <4>1. Len(body) \in Nat
        BY SMTT(10), <2>2, BoundBody
      <4> QED BY <3>2, <4>1
    <3>5. m < 14 + Len(body) => ~(m >= 14 + Len(body))
      <4>1. Len(body) \in Nat
        BY SMTT(10), <2>2, BoundBody
      <4> QED BY <3>2, <4>1
    <3> QED BY <2>1, <2>3, <3>3, <3>4, <3>5
  <2>5. ASSUME ~cut, flips = 1
        PROVE  \E i \in DOMAIN sent :
                 /\ file[i] # sent[i]
                 /\ CASE i = 5 -> decoded.result = "unknown_version"
                      [] i # 5 /\ i <= HeaderEnd -> decoded.result = "corrupt_envelope"
                      [] i > HeaderEnd -> /\ decoded.result = "ok"
                                          /\ decoded.header = artifact.header
    <3>1. PICK i : Changed(file, sent, i)
      BY <2>1, <2>5 DEF LeftOf
    <3>2. (CASE i = 5 -> decoded.result = "unknown_version"
             [] i # 5 /\ i <= 14 + Len(body) -> decoded.result = "corrupt_envelope"
             [] i > 14 + Len(body) -> decoded.result = "ok" /\ decoded.header = h)
      <4>1. LET d == DecodeFile(magic, file) IN
            CASE i = 5 -> d.result = "unknown_version"
              [] i # 5 /\ i <= 14 + Len(body) -> d.result = "corrupt_envelope"
              [] i > 14 + Len(body) -> d.result = "ok" /\ d.header = h
        BY ONLY <2>2, <3>1, FlipRead
      <4> QED BY <2>1, <4>1
    <3>3. i \in DOMAIN sent /\ file[i] # sent[i]
      BY <2>2, <3>1 DEF Changed, LaidOut
    <3> QED BY <2>3, <3>2, <3>3 DEF h
  <2> QED BY <2>4, <2>5 DEF DamageIsRefused
<1> QED BY <1>1, WayHolds, PTL

-----------------------------------------------------------------------------
\* The multipart parser, on bodies as a provider builds them.

\* The bytes of a part are in a body behind offset c.
PartAt(body, c, line, s) ==
    /\ c \in Nat /\ c + 11 + Len(s) + Len(Boundary) <= Len(body)
    /\ body[c + 1] = 13 /\ body[c + 2] = 10 /\ body[c + 3] = line
    /\ body[c + 4] = 13 /\ body[c + 5] = 10 /\ body[c + 6] = 13 /\ body[c + 7] = 10
    /\ \A k \in 1..Len(s) : body[c + 7 + k] = s[k]
    /\ \A k \in 1..4 : body[c + 7 + Len(s) + k] = Marker[k]
    /\ \A k \in 1..Len(Boundary) : body[c + 11 + Len(s) + k] = Boundary[k]

LEMMA ShortOnes ==
  /\ CRLF \in Seq(Nat) /\ CRLF # <<>> /\ Len(CRLF) = 2 /\ CRLF[1] = 13 /\ CRLF[2] = 10
  /\ Dashes \in Seq(Nat) /\ Dashes # <<>> /\ Len(Dashes) = 2 /\ Dashes[1] = 45 /\ Dashes[2] = 45
  /\ CRLF2 \in Seq(Nat) /\ CRLF2 # <<>> /\ Len(CRLF2) = 4
  /\ CRLF2[1] = 13 /\ CRLF2[2] = 10 /\ CRLF2[3] = 13 /\ CRLF2[4] = 10
BY DEF CRLF, Dashes, CRLF2

\* One header line, which is the type of the part.
LEMMA OneLine ==
  ASSUME NEW line \in HeaderLine
  PROVE  HeadersAreLines(<<line>>)
<1>1. Len(<<line>>) = 1 /\ DOMAIN <<line>> = {1} /\ <<line>>[1] = line
  OBVIOUS
<1>2. 1 % 3 = 1
  BY SMTT(10)
<1> QED BY <1>1, <1>2 DEF HeadersAreLines

\* The header of the part ends behind its first line.
LEMMA HeaderFound ==
  ASSUME NEW tail \in Seq(Nat), Len(tail) >= 5, tail[1] # 13,
         tail[2] = 13, tail[3] = 10, tail[4] = 13, tail[5] = 10
  PROVE  FindSubslice(tail, CRLF2) = 1
<1> DEFINE m == FindSubslice(tail, CRLF2)
           N == Len(tail)
<1>0. N \in Nat /\ N >= 5
  OBVIOUS
<1>1. /\ m = NotFound => \A i : ~OccursAt(tail, CRLF2, i)
      /\ m # NotFound => OccursAt(tail, CRLF2, m) /\ \A i : OccursAt(tail, CRLF2, i) => m <= i
  BY ShortOnes, Subslice
<1>2. \A i \in Nat : Get(tail, i, 4) = CRLF2
         <=> i + 4 <= N /\ \A k \in 1..4 : tail[i + k] = CRLF2[k]
  <2> SUFFICES ASSUME NEW i \in Nat
               PROVE  Get(tail, i, 4) = CRLF2
                         <=> i + 4 <= N /\ \A k \in 1..4 : tail[i + k] = CRLF2[k]
    OBVIOUS
  <2>1. Get(tail, i, Len(CRLF2)) = CRLF2
         <=> /\ i + Len(CRLF2) <= Len(tail)
             /\ \A k \in 1..Len(CRLF2) : tail[i + k] = CRLF2[k]
    <3>1. tail \in Seq(Nat) /\ CRLF2 \in Seq(Nat) /\ CRLF2 # <<>> /\ i \in Nat
      BY ShortOnes
    <3> QED BY ONLY <3>1, Occurs
  <2> QED BY <2>1, ShortOnes
<1> HIDE DEF m
<1>3. \A k \in 1..4 : tail[1 + k] = CRLF2[k]
  <2>1. \A k \in 1..4 : k = 1 \/ k = 2 \/ k = 3 \/ k = 4
    OBVIOUS
  <2>2. tail[1 + 1] = 13 /\ tail[1 + 2] = 10 /\ tail[1 + 3] = 13 /\ tail[1 + 4] = 10
    OBVIOUS
  <2>3. CRLF2[1] = 13 /\ CRLF2[2] = 10 /\ CRLF2[3] = 13 /\ CRLF2[4] = 10
    BY ShortOnes
  <2> QED BY ONLY <2>1, <2>2, <2>3
<1>4. OccursAt(tail, CRLF2, 1)
  <2>1. Get(tail, 1, 4) = CRLF2
    BY <1>0, <1>2, <1>3
  <2> QED BY <1>0, <2>1, ShortOnes DEF OccursAt
<1>5. m # NotFound /\ m <= 1 /\ OccursAt(tail, CRLF2, m)
  BY <1>1, <1>4
<1>6. m \in Nat /\ Get(tail, m, 4) = CRLF2
  BY <1>5, ShortOnes DEF OccursAt
<1>7. m # 0
  <2> SUFFICES ASSUME m = 0 PROVE FALSE
    OBVIOUS
  <2>1. tail[0 + 1] = CRLF2[1] /\ 0 + 1 = 1
    BY <1>2, <1>6
  <2> QED BY <2>1, ShortOnes
<1>8. m = 1
  BY <1>5, <1>6, <1>7
<1> QED BY <1>8 DEF m

\* What the parser makes of such a part depends on where the first marker behind its
\* header is.
TurnedAt(body, c, line, s) ==
    LET p == ParsePart(body, Boundary, c + 2)
        rest == Behind(body, c + 7)
        m == FindSubslice(rest, Marker)
    IN
    /\ Get(body, c, 2) = CRLF /\ rest \in Seq(Nat) /\ Len(rest) = Len(body) - (c + 7)
    /\ p = IF m = NotFound \/ Get(rest, m + 4, Len(Boundary)) # Boundary THEN Corrupt
           ELSE [result |-> "ok",
                 part |-> [type |-> ContentType(<<line>>), body |-> SubSeq(rest, 1, m)],
                 next |-> c + 11 + m + Len(Boundary)]

LEMMA PartTurned ==
  ASSUME NEW body \in Seq(Nat), NEW c, NEW line \in HeaderLine, NEW s \in Seq(Nat),
         PartAt(body, c, line, s)
  PROVE  TurnedAt(body, c, line, s)
<1> DEFINE p == ParsePart(body, Boundary, c + 2)
           N == Len(body)
           n == Len(Boundary)
           start == c + 2
           tail == SubSeq(body, start + 1, N)
           h == FindSubslice(tail, CRLF2)
           headers == SubSeq(tail, 1, h)
           rest1 == SubSeq(tail, h + 5, Len(tail))
           rest == Behind(body, c + 7)
           m == FindSubslice(rest, Marker)
           m1 == FindSubslice(rest1, Marker)
<1>0. /\ c \in Nat /\ N \in Nat /\ n \in Nat /\ c + 11 <= N
      /\ body[c + 1] = 13 /\ body[c + 2] = 10 /\ body[c + 3] = line
      /\ body[c + 4] = 13 /\ body[c + 5] = 10 /\ body[c + 6] = 13 /\ body[c + 7] = 10
  <2>1. Len(s) \in Nat /\ n \in Nat /\ N \in Nat
    BY BytesAreQuiet
  <2> QED BY <2>1 DEF PartAt
<1>1. p = IF \/ h = NotFound \/ ~HeadersAreLines(headers) \/ m1 = NotFound
             \/ ~IsBoundary(Get(rest1, m1 + 4, n), Boundary)
          THEN [result |-> "corrupt_envelope"]
          ELSE [result |-> "ok",
                part |-> [type |-> ContentType(headers), body |-> SubSeq(rest1, 1, m1)],
                next |-> start + h + 4 + m1 + 4 + n]
  BY Zenon DEF ParsePart, CRLF2, Marker
<1> HIDE DEF p, rest, m, n
<1>2. /\ tail \in Seq(Nat) /\ Len(tail) = N - start
      /\ \A k \in 1..(N - start) : tail[k] = body[start + k]
  <2>1. start \in Nat /\ N \in Nat /\ start <= N /\ N <= Len(body)
    BY <1>0
  <2> HIDE DEF start, N
  <2> QED BY <2>1, Piece
<1>3. /\ N - start \in Nat /\ N - start >= 5
      /\ start + 1 = c + 3 /\ start + 2 = c + 4 /\ start + 3 = c + 5 /\ start + 4 = c + 6
      /\ start + 5 = c + 7
  <2>1. c \in Nat /\ N \in Nat /\ c + 11 <= N
    BY <1>0
  <2> HIDE DEF N
  <2>2. start = c + 2
    OBVIOUS
  <2> HIDE DEF start
  <2> QED BY ONLY <2>1, <2>2
<1> HIDE DEF tail, h, headers, rest1, m1, start, N
<1>4. h = 1
  <2>1. /\ Len(tail) >= 5 /\ tail[1] = line /\ tail[2] = 13 /\ tail[3] = 10
        /\ tail[4] = 13 /\ tail[5] = 10
    <3>1. 1 \in 1..(N - start) /\ 2 \in 1..(N - start) /\ 3 \in 1..(N - start)
          /\ 4 \in 1..(N - start) /\ 5 \in 1..(N - start)
      BY <1>3
    <3>2. Len(tail) >= 5
      BY <1>2, <1>3
    <3>3. /\ tail[1] = body[start + 1] /\ tail[2] = body[start + 2] /\ tail[3] = body[start + 3]
          /\ tail[4] = body[start + 4] /\ tail[5] = body[start + 5]
      BY <1>2, <3>1
    <3> QED BY <1>0, <1>3, <3>2, <3>3
  <2>2. line # 13
    BY DEF HeaderLine
  <2> QED BY <1>2, <2>1, <2>2, HeaderFound DEF h
<1>5. headers = <<line>>
  <2>1. tail \in Seq(Nat) /\ Len(tail) \in Nat /\ Len(tail) >= 5
    BY <1>2, <1>3
  <2>2. tail[1] = line
    <3>1. 1 \in 1..(N - start)
      BY <1>3
    <3>2. tail[1] = body[start + 1]
      BY <1>2, <3>1
    <3> QED BY <1>0, <1>3, <3>2
  <2>3. SubSeq(tail, 1, 1) = <<tail[1]>>
    <3> DEFINE x == SubSeq(tail, 1, 1)
    <3>1. /\ SubSeq(tail, 0 + 1, 1) \in Seq(Nat) /\ Len(SubSeq(tail, 0 + 1, 1)) = 1 - 0
          /\ \A k \in 1..(1 - 0) : SubSeq(tail, 0 + 1, 1)[k] = tail[0 + k]
      <4>1. tail \in Seq(Nat) /\ 0 \in Nat /\ 1 \in Nat /\ 0 <= 1 /\ 1 <= Len(tail)
        BY <2>1
      <4> QED BY ONLY <4>1, Piece
    <3>2. 0 + 1 = 1 /\ 1 - 0 = 1 /\ 1 \in 1..1
      OBVIOUS
    <3>3. x \in Seq(Nat) /\ Len(x) = 1 /\ x[1] = tail[1]
      BY <3>1, <3>2
    <3> HIDE DEF x
    <3>4. x = <<tail[1]>>
      BY ONLY <3>3
    <3> QED BY <3>4 DEF x
  <2> QED BY <1>4, <2>2, <2>3 DEF headers
<1>6. rest1 = rest /\ rest \in Seq(Nat) /\ Len(rest) = N - (c + 7)
  <2> DEFINE l == Len(tail)
  <2>1. l \in Nat /\ 5 \in Nat /\ 5 <= l /\ l <= Len(tail) /\ tail \in Seq(Nat) /\ l = N - start
    BY SMTT(20), <1>2, <1>3
  <2> HIDE DEF l
  <2>2. /\ SubSeq(tail, 5 + 1, l) \in Seq(Nat) /\ Len(SubSeq(tail, 5 + 1, l)) = l - 5
        /\ \A k \in 1..(l - 5) : SubSeq(tail, 5 + 1, l)[k] = tail[5 + k]
    BY ONLY <2>1, Piece
  <2>3. rest1 = SubSeq(tail, 5 + 1, l) /\ l - 5 = N - (c + 7) /\ l - 5 \in Nat
    BY <1>0, <1>3, <1>4, <2>1 DEF rest1, l, start
  <2>4. ASSUME NEW k \in 1..(l - 5) PROVE rest1[k] = body[c + 7 + k]
    <3>1. 5 + k \in 1..(N - start) /\ start + (5 + k) = c + 7 + k
      BY <1>0, <2>1, <2>3 DEF start
    <3> QED BY <1>2, <2>2, <2>3, <3>1
  <2>5. rest = [k \in 1..(N - (c + 7)) |-> body[c + 7 + k]]
    BY DEF rest, Behind, N
  <2> DEFINE w == l - 5
  <2>6. rest1 \in Seq(Nat) /\ Len(rest1) = w /\ w = N - (c + 7) /\ w \in Nat
    BY <2>2, <2>3
  <2>7. \A k \in 1..w : rest1[k] = body[c + 7 + k]
    BY <2>4
  <2> HIDE DEF w
  <2>8. rest1 = [k \in 1..w |-> rest1[k]]
    BY <2>6
  <2>9. rest1 = rest
    BY <2>5, <2>6, <2>7, <2>8
  <2> QED BY <2>6, <2>9
<1>7. m1 = m
  BY <1>6 DEF m1, m
<1>8. Get(body, c, 2) = CRLF
  <2>1. \A k \in 1..2 : body[c + k] = CRLF[k]
    <3>1. \A k \in 1..2 : k = 1 \/ k = 2
      OBVIOUS
    <3> QED BY <1>0, <3>1, ShortOnes
  <2>2. Get(body, c, Len(CRLF)) = CRLF
         <=> /\ c + Len(CRLF) <= Len(body)
             /\ \A k \in 1..Len(CRLF) : body[c + k] = CRLF[k]
    <3>1. body \in Seq(Nat) /\ CRLF \in Seq(Nat) /\ CRLF # <<>> /\ c \in Nat
      BY <1>0, ShortOnes
    <3> QED BY ONLY <3>1, Occurs
  <2>3. c + 2 <= Len(body)
    BY <1>0 DEF N
  <2> QED BY <2>1, <2>2, <2>3, ShortOnes
<1>9. p = IF m = NotFound \/ Get(rest, m + 4, n) # Boundary THEN Corrupt
          ELSE [result |-> "ok",
                part |-> [type |-> ContentType(<<line>>), body |-> SubSeq(rest, 1, m)],
                next |-> c + 11 + m + n]
  <2>1. h # NotFound /\ HeadersAreLines(headers)
    BY <1>4, <1>5, OneLine DEF NotFound
  <2>2. CASE m = NotFound \/ Get(rest, m + 4, n) # Boundary
    BY <1>1, <1>6, <1>7, <2>2 DEF Corrupt, IsBoundary
  <2>3. CASE m # NotFound /\ Get(rest, m + 4, n) = Boundary
    <3>1. m \in Nat
      <4>1. OccursAt(rest, Marker, m)
        BY <1>6, <2>3, MarkerIs, Subslice DEF m
      <4> QED BY <4>1 DEF OccursAt
    <3>2. start + h + 4 + m1 + 4 + n = c + 11 + m + n
      BY <1>0, <1>4, <1>7, <3>1 DEF start
    <3> QED BY <1>1, <1>5, <1>6, <1>7, <2>1, <2>3, <3>2, Zenon DEF IsBoundary
  <2> QED BY <2>2, <2>3
<1> QED BY <1>6, <1>8, <1>9 DEF TurnedAt, p, rest, m, n, N

\* What stands behind the header of a part.
BodyThenDelimiter(rest, s) ==
    /\ rest \in Seq(Nat) /\ Len(rest) \in Nat /\ Len(s) \in Nat /\ Len(Boundary) \in Nat
    /\ Len(rest) >= Len(s) + 4 + Len(Boundary)
    /\ \A k \in 1..Len(s) : rest[k] = s[k]
    /\ \A k \in 1..4 : rest[Len(s) + k] = Marker[k]
    /\ \A k \in 1..Len(Boundary) : rest[Len(s) + 4 + k] = Boundary[k]

LEMMA BehindHeader ==
  ASSUME NEW body \in Seq(Nat), NEW c, NEW line, NEW s \in Seq(Nat), PartAt(body, c, line, s),
         Behind(body, c + 7) \in Seq(Nat), Len(Behind(body, c + 7)) = Len(body) - (c + 7)
  PROVE  BodyThenDelimiter(Behind(body, c + 7), s)
<1> DEFINE rest == Behind(body, c + 7)
           N == Len(body)
           L == Len(s)
           n == Len(Boundary)
           w == N - (c + 7)
<1>1. /\ N \in Nat /\ L \in Nat /\ n \in Nat /\ c \in Nat /\ c + 11 + L + n <= N
      /\ \A k \in 1..L : body[c + 7 + k] = s[k]
      /\ \A k \in 1..4 : body[c + 7 + L + k] = Marker[k]
      /\ \A k \in 1..n : body[c + 11 + L + k] = Boundary[k]
  <2>1. L \in Nat /\ n \in Nat /\ N \in Nat
    BY BytesAreQuiet
  <2> QED BY <2>1 DEF PartAt
<1>2. \A k \in 1..w : rest[k] = body[c + 7 + k]
  BY DEF Behind
<1>3. rest \in Seq(Nat) /\ Len(rest) = w
  OBVIOUS
<1> HIDE DEF rest, N, L, n
<1>4. w \in Nat /\ w >= L + 4 + n
  <2>1. N \in Nat /\ L \in Nat /\ n \in Nat /\ c \in Nat /\ c + 11 + L + n <= N
    BY <1>1
  <2>2. w = N - (c + 7)
    OBVIOUS
  <2> HIDE DEF w
  <2> QED BY ONLY <2>1, <2>2
<1>5. \A k \in 1..L : k \in 1..w
  BY <1>1
<1>6. \A k \in 1..4 : L + k \in 1..w /\ c + 7 + (L + k) = c + 7 + L + k
  BY <1>1
<1>7. \A k \in 1..n : L + 4 + k \in 1..w /\ c + 7 + (L + 4 + k) = c + 11 + L + k
  BY <1>1
<1> HIDE DEF w
<1>8. \A k \in 1..L : rest[k] = s[k]
  BY <1>1, <1>2, <1>5
<1>9. \A k \in 1..4 : rest[L + k] = Marker[k]
  BY <1>1, <1>2, <1>6
<1>10. \A k \in 1..n : rest[L + 4 + k] = Boundary[k]
  BY <1>1, <1>2, <1>7
<1> QED BY <1>1, <1>3, <1>4, <1>8, <1>9, <1>10 DEF BodyThenDelimiter, rest, L, n

\* Where a marker is, place by place.
LEMMA MarkerAt ==
  ASSUME NEW s \in Seq(Nat)
  PROVE  /\ \A i \in Nat : OccursAt(s, Marker, i)
                 <=> i + 4 <= Len(s) /\ \A k \in 1..4 : s[i + k] = Marker[k]
         /\ LET m == FindSubslice(s, Marker) IN
            /\ m = NotFound => \A i : ~OccursAt(s, Marker, i)
            /\ m # NotFound => OccursAt(s, Marker, m) /\ \A i : OccursAt(s, Marker, i) => m <= i
<1>1. ASSUME NEW i \in Nat
      PROVE  OccursAt(s, Marker, i) <=> i + 4 <= Len(s) /\ \A k \in 1..4 : s[i + k] = Marker[k]
  <2>1. Get(s, i, Len(Marker)) = Marker
         <=> /\ i + Len(Marker) <= Len(s)
             /\ \A k \in 1..Len(Marker) : s[i + k] = Marker[k]
    <3>1. s \in Seq(Nat) /\ Marker \in Seq(Byte) /\ Marker # <<>> /\ i \in Nat
      BY MarkerIs
    <3> QED BY ONLY <3>1, Occurs
  <2> QED BY <2>1, MarkerIs DEF OccursAt
<1>2. LET m == FindSubslice(s, Marker) IN
      /\ m = NotFound => \A i : ~OccursAt(s, Marker, i)
      /\ m # NotFound => OccursAt(s, Marker, m) /\ \A i : OccursAt(s, Marker, i) => m <= i
  <2>1. s \in Seq(Nat) /\ Marker \in Seq(Byte)
    BY MarkerIs
  <2> QED BY ONLY <2>1, Subslice
<1> QED BY <1>1, <1>2

\* A body without a marker ends at the delimiter: a marker has CR at its front only.
LEMMA MarkerBehind ==
  ASSUME NEW s \in Seq(Nat), NEW rest, BodyThenDelimiter(rest, s), FindSubslice(s, Marker) = NotFound
  PROVE  FindSubslice(rest, Marker) = Len(s)
<1> DEFINE L == Len(s)
           m == FindSubslice(rest, Marker)
           T == Len(rest)
<1>1. /\ rest \in Seq(Nat) /\ T \in Nat /\ L \in Nat /\ T >= L + 4
      /\ \A k \in 1..L : rest[k] = s[k]
      /\ \A k \in 1..4 : rest[L + k] = Marker[k]
  <2>1. /\ rest \in Seq(Nat) /\ T \in Nat /\ L \in Nat /\ Len(Boundary) \in Nat
        /\ T >= L + 4 + Len(Boundary)
    BY DEF BodyThenDelimiter
  <2> DEFINE n == Len(Boundary)
  <2>2. T \in Nat /\ L \in Nat /\ n \in Nat /\ T >= L + 4 + n
    BY <2>1
  <2> HIDE DEF n, T, L
  <2>3. T >= L + 4
    BY ONLY <2>2
  <2> QED BY <2>1, <2>3 DEF BodyThenDelimiter, L
<1>2. /\ \A i \in Nat : OccursAt(rest, Marker, i)
              <=> i + 4 <= T /\ \A k \in 1..4 : rest[i + k] = Marker[k]
      /\ m = NotFound => \A i : ~OccursAt(rest, Marker, i)
      /\ m # NotFound => OccursAt(rest, Marker, m) /\ \A i : OccursAt(rest, Marker, i) => m <= i
  BY <1>1, MarkerAt
<1>3. \A i \in Nat : ~(i + 4 <= L /\ \A k \in 1..4 : s[i + k] = Marker[k])
  BY MarkerAt
<1> HIDE DEF L, m, T
<1>4. OccursAt(rest, Marker, L)
  BY <1>1, <1>2
<1>5. m \in Nat /\ m <= L /\ m # NotFound /\ \A k \in 1..4 : rest[m + k] = Marker[k]
  <2>1. m # NotFound
    BY <1>2, <1>4
  <2>2. OccursAt(rest, Marker, m) /\ m <= L
    BY <1>2, <1>4, <2>1
  <2>3. m \in Nat
    BY <2>2 DEF OccursAt
  <2> QED BY <1>2, <2>1, <2>2, <2>3
<1>6. ~(m < L)
  <2> SUFFICES ASSUME m < L PROVE FALSE
    OBVIOUS
  <2>1. CASE m + 4 <= L
    <3>1. \A k \in 1..4 : m + k \in 1..L
      BY <1>1, <1>5, <2>1
    <3>2. \A k \in 1..4 : s[m + k] = Marker[k]
      BY <1>1, <1>5, <3>1
    <3> QED BY <1>3, <1>5, <2>1, <3>2
  <2>2. CASE m + 4 > L
    <3> DEFINE j == L + 1 - m
    <3>1. j \in 1..4 /\ j # 1 /\ m + j = L + 1
      <4>1. m \in Nat /\ L \in Nat /\ m < L /\ m + 4 > L /\ j = L + 1 - m
        BY <1>1, <1>5, <2>2
      <4> HIDE DEF j
      <4> QED BY ONLY <4>1
    <3> HIDE DEF j
    <3>2. rest[L + 1] = Marker[j]
      BY <1>5, <3>1
    <3>3. rest[L + 1] = Marker[1]
      BY <1>1
    <3>4. j = 2 \/ j = 3 \/ j = 4
      BY <3>1
    <3>5. Marker[j] # 13
      BY <3>4, MarkerIs
    <3> QED BY <3>2, <3>3, <3>5, MarkerIs
  <2> QED BY <1>1, <1>5, <2>1, <2>2
<1>7. m = L
  BY <1>1, <1>5, <1>6
<1> QED BY <1>7 DEF m, L

\* A part without a marker is read as it was written.
LEMMA PartRead ==
  ASSUME NEW body \in Seq(Nat), NEW c, NEW line \in HeaderLine, NEW s \in Seq(Nat),
         PartAt(body, c, line, s), FindSubslice(s, Marker) = NotFound
  PROVE  /\ Get(body, c, 2) = CRLF
         /\ ParsePart(body, Boundary, c + 2) =
               [result |-> "ok",
                part |-> [type |-> ContentType(<<line>>), body |-> s],
                next |-> c + 11 + Len(s) + Len(Boundary)]
<1> DEFINE rest == Behind(body, c + 7)
           m == FindSubslice(rest, Marker)
           p == ParsePart(body, Boundary, c + 2)
           L == Len(s)
           n == Len(Boundary)
<1>1. TurnedAt(body, c, line, s)
  BY PartTurned
<1>2. /\ Get(body, c, 2) = CRLF /\ rest \in Seq(Nat) /\ Len(rest) = Len(body) - (c + 7)
      /\ p = IF m = NotFound \/ Get(rest, m + 4, n) # Boundary THEN Corrupt
             ELSE [result |-> "ok",
                   part |-> [type |-> ContentType(<<line>>), body |-> SubSeq(rest, 1, m)],
                   next |-> c + 11 + m + n]
  BY <1>1, Zenon DEF TurnedAt
<1> HIDE DEF p
<1>3. BodyThenDelimiter(rest, s)
  BY <1>2, BehindHeader
<1> HIDE DEF rest, m
<1>4. m = L /\ L \in Nat /\ m # NotFound
  <2>1. m = L
    BY <1>3, MarkerBehind DEF m
  <2> QED BY <2>1 DEF NotFound
<1>5. Get(rest, m + 4, n) = Boundary
  <2> DEFINE i == L + 4
  <2>1. /\ rest \in Seq(Nat) /\ i \in Nat /\ i + n <= Len(rest)
        /\ \A k \in 1..n : rest[i + k] = Boundary[k]
    BY <1>3, <1>4 DEF BodyThenDelimiter
  <2>2. m + 4 = i
    BY <1>4
  <2>3. Boundary \in Seq(Byte) /\ Boundary # <<>>
    BY BytesAreQuiet
  <2> HIDE DEF i, n
  <2>4. Get(rest, i, Len(Boundary)) = Boundary
         <=> /\ i + Len(Boundary) <= Len(rest)
             /\ \A k \in 1..Len(Boundary) : rest[i + k] = Boundary[k]
    BY ONLY <2>1, <2>3, Occurs
  <2> QED BY <2>1, <2>2, <2>4 DEF n
<1>6. SubSeq(rest, 1, m) = s
  <2>1. /\ SubSeq(rest, 0 + 1, L) \in Seq(Nat) /\ Len(SubSeq(rest, 0 + 1, L)) = L - 0
        /\ \A k \in 1..(L - 0) : SubSeq(rest, 0 + 1, L)[k] = rest[0 + k]
    <3>1. rest \in Seq(Nat) /\ 0 \in Nat /\ L \in Nat /\ 0 <= L /\ L <= Len(rest)
      BY <1>3, <1>4, BytesAreQuiet DEF BodyThenDelimiter
    <3> HIDE DEF L
    <3> QED BY ONLY <3>1, Piece
  <2> DEFINE x == SubSeq(rest, 1, L)
  <2>2. L - 0 = L /\ 0 + 1 = 1 /\ \A k \in 1..L : 0 + k = k
    BY <1>4
  <2>3. x \in Seq(Nat) /\ Len(x) = L /\ \A k \in 1..L : x[k] = rest[k]
    BY <2>1, <2>2
  <2> HIDE DEF x
  <2>4. \A k \in 1..L : x[k] = s[k]
    BY <1>3, <2>3 DEF BodyThenDelimiter
  <2>5. x = s
    <3>1. x \in Seq(Nat) /\ s \in Seq(Nat) /\ Len(x) = Len(s) /\ \A k \in 1..Len(s) : x[k] = s[k]
      BY <2>3, <2>4
    <3>2. x = [k \in 1..Len(s) |-> x[k]] /\ s = [k \in 1..Len(s) |-> s[k]]
      BY ONLY <3>1
    <3>3. [k \in 1..Len(s) |-> x[k]] = [k \in 1..Len(s) |-> s[k]]
      BY ONLY <3>1
    <3> QED BY ONLY <3>2, <3>3
  <2> QED BY <1>4, <2>5 DEF x
<1>7. p = [result |-> "ok", part |-> [type |-> ContentType(<<line>>), body |-> s],
           next |-> c + 11 + L + n]
  BY <1>2, <1>4, <1>5, <1>6, Zenon
<1> QED BY <1>2, <1>7 DEF p

\* A body that holds a marker is refused: the first marker is taken for the delimiter, and
\* no boundary follows it.
LEMMA PartLost ==
  ASSUME NEW body \in Seq(Nat), NEW c, NEW line \in HeaderLine, NEW s \in Seq(Byte),
         PartAt(body, c, line, s), FindSubslice(s, Boundary) = NotFound,
         FindSubslice(s, Marker) # NotFound
  PROVE  Get(body, c, 2) = CRLF /\ ParsePart(body, Boundary, c + 2) = Corrupt
<1> DEFINE rest == Behind(body, c + 7)
           m == FindSubslice(rest, Marker)
           p == ParsePart(body, Boundary, c + 2)
           L == Len(s)
           n == Len(Boundary)
<1>0. s \in Seq(Nat)
  BY BytesAreQuiet
<1>1. TurnedAt(body, c, line, s)
  BY <1>0, PartTurned
<1>2. /\ Get(body, c, 2) = CRLF /\ rest \in Seq(Nat) /\ Len(rest) = Len(body) - (c + 7)
      /\ (m = NotFound \/ Get(rest, m + 4, n) # Boundary) => p = Corrupt
  BY <1>1, Zenon DEF TurnedAt
<1> HIDE DEF p
<1>3. BodyThenDelimiter(rest, s)
  BY <1>0, <1>2, BehindHeader
<1> HIDE DEF rest, m
<1>4. ~(m # NotFound /\ Get(rest, m + 4, n) = Boundary)
  <2> SUFFICES ASSUME m # NotFound, Get(rest, m + 4, n) = Boundary PROVE FALSE
    OBVIOUS
  <2>1. Follows(rest, s, Boundary, 0)
    <3>1. /\ Len(rest) \in Nat /\ L \in Nat /\ \A k \in 1..L : rest[k] = s[k]
          /\ \A k \in 1..4 : rest[L + k] = Marker[k]
      BY <1>3 DEF BodyThenDelimiter
    <3> HIDE DEF L
    <3>2. \A k \in 1..Len(rest) : k <= L => rest[k] = s[k]
      BY <3>1
    <3>3. \A k \in 1..Len(rest) : k > L /\ k <= L + 4 => rest[k] \in Damage
      <4> SUFFICES ASSUME NEW k \in 1..Len(rest), k > L, k <= L + 4 PROVE rest[k] \in Damage
        OBVIOUS
      <4>1. k - L \in 1..4 /\ L + (k - L) = k
        <5>1. k \in Nat /\ L \in Nat /\ k > L /\ k <= L + 4
          BY <3>1
        <5> QED BY ONLY <5>1
      <4>2. rest[k] = Marker[k - L]
        BY <3>1, <4>1
      <4> QED BY <4>1, <4>2, DamageIs
    <3> QED BY <3>1, <3>2, <3>3 DEF Follows, L
  <2>2. m = L
    <3>1. /\ s \in Seq(Byte) /\ Boundary \in Seq(Byte \ Damage) /\ Boundary # <<>>
          /\ FindSubslice(s, Boundary) = NotFound /\ rest \in Seq(Nat)
          /\ m = FindSubslice(rest, Marker) /\ m # NotFound
          /\ Get(rest, m + 4, Len(Boundary)) = Boundary
      BY <1>2, BoundaryIsFresh DEF m
    <3>2. m = Len(s)
      BY ONLY <2>1, <3>1, DelimiterFound
    <3> QED BY <3>2
  <2>3. PICK i \in Nat : i + 4 <= L /\ \A k \in 1..4 : s[i + k] = Marker[k]
    <3>1. OccursAt(s, Marker, FindSubslice(s, Marker))
      BY <1>0, MarkerAt
    <3>2. FindSubslice(s, Marker) \in Nat
      BY <3>1 DEF OccursAt
    <3> QED BY <1>0, <3>1, <3>2, MarkerAt
  <2>4. OccursAt(rest, Marker, i)
    <3>1. /\ L \in Nat /\ Len(rest) \in Nat /\ Len(rest) >= L + 4 + n /\ n \in Nat
          /\ \A k \in 1..L : rest[k] = s[k]
      BY <1>3 DEF BodyThenDelimiter
    <3> HIDE DEF L, n
    <3>2. i + 4 <= Len(rest) /\ \A k \in 1..4 : i + k \in 1..L
      BY <2>3, <3>1
    <3>3. \A k \in 1..4 : rest[i + k] = Marker[k]
      BY <2>3, <3>1, <3>2
    <3> QED BY <1>2, <3>2, <3>3, MarkerAt
  <2>5. m <= i
    BY <1>2, <2>4, MarkerAt DEF m
  <2> QED BY <2>2, <2>3, <2>5
<1> QED BY <1>2, <1>4 DEF p

\* A sequence is in another behind offset c.
At(z, c, x) ==
    /\ c \in Nat /\ x \in Seq(Nat) /\ Len(x) \in Nat /\ c + Len(x) <= Len(z)
    /\ \A k \in 1..Len(x) : z[c + k] = x[k]

LEMMA AtWhole ==
  ASSUME NEW z \in Seq(Nat)
  PROVE  At(z, 0, z)
<1>1. Len(z) \in Nat /\ 0 + Len(z) = Len(z) /\ \A k \in 1..Len(z) : 0 + k = k
  OBVIOUS
<1> QED BY <1>1 DEF At

\* Where the two halves are.
LEMMA AtSplit ==
  ASSUME NEW z \in Seq(Nat), NEW c, NEW x \in Seq(Nat), NEW y \in Seq(Nat), At(z, c, x \o y)
  PROVE  At(z, c, x) /\ At(z, c + Len(x), y) /\ Len(x \o y) = Len(x) + Len(y)
<1> DEFINE w == x \o y
           a == Len(x)
           b == Len(y)
           N == Len(z)
<1>1. /\ w \in Seq(Nat) /\ Len(w) = a + b
      /\ (\A k \in 1..a : w[k] = x[k]) /\ (\A k \in 1..b : w[a + k] = y[k])
  BY Joined
<1>2. a \in Nat /\ b \in Nat /\ N \in Nat
  OBVIOUS
<1>3. At(z, c, w)
  OBVIOUS
<1> HIDE DEF w
<1>4. /\ c \in Nat /\ c + Len(w) <= N
      /\ \A k \in 1..Len(w) : z[c + k] = w[k]
  BY <1>3 DEF At
<1> HIDE DEF a, b, N
<1>5. c + a <= N /\ c + a + b <= N /\ c + a \in Nat
  <2>1. c \in Nat /\ c + (a + b) <= N
    BY <1>1, <1>4
  <2> QED BY ONLY <1>2, <2>1
<1>6. \A k \in 1..a : k \in 1..Len(w)
  <2>1. \A k \in 1..a : k \in 1..(a + b)
    BY ONLY <1>2
  <2> QED BY <1>1, <2>1
<1>7. \A k \in 1..b : a + k \in 1..Len(w) /\ c + a + k = c + (a + k)
  <2>1. \A k \in 1..b : a + k \in 1..(a + b)
    BY ONLY <1>2
  <2>2. c \in Nat
    BY <1>4
  <2>3. \A k \in 1..b : c + a + k = c + (a + k)
    BY ONLY <1>2, <2>2
  <2> QED BY <1>1, <2>1, <2>3
<1>8. \A k \in 1..a : z[c + k] = x[k]
  BY <1>1, <1>4, <1>6
<1>9. \A k \in 1..b : z[c + a + k] = y[k]
  BY <1>1, <1>4, <1>7
<1>10. Len(x) = a /\ Len(y) = b /\ Len(z) = N
  BY DEF a, b, N
<1>11. At(z, c, x)
  BY <1>2, <1>4, <1>5, <1>8, <1>10 DEF At
<1>12. At(z, c + a, y)
  BY <1>2, <1>5, <1>9, <1>10 DEF At
<1> QED BY <1>1, <1>10, <1>11, <1>12 DEF w

\* Where the bytes of a part are, one after the other.
LEMMA PartStands ==
  ASSUME NEW body \in Seq(Nat), NEW c, NEW p, p.line \in Nat, p.body \in Seq(Nat),
         At(body, c, PartBytes(p))
  PROVE  /\ PartAt(body, c, p.line, p.body)
         /\ Len(PartBytes(p)) = 11 + Len(p.body) + Len(Boundary)
<1> DEFINE l == <<p.line>>
           s == p.body
           x1 == CRLF \o l
           x2 == x1 \o CRLF
           x3 == x2 \o CRLF
           x4 == x3 \o s
           x5 == x4 \o CRLF
           x6 == x5 \o Dashes
           x7 == x6 \o Boundary
           L == Len(s)
           n == Len(Boundary)
<1>0. /\ CRLF \in Seq(Nat) /\ Dashes \in Seq(Nat) /\ l \in Seq(Nat) /\ s \in Seq(Nat)
      /\ Boundary \in Seq(Nat)
      /\ Len(CRLF) = 2 /\ Len(Dashes) = 2 /\ Len(l) = 1 /\ l[1] = p.line /\ L \in Nat /\ n \in Nat
  <2>1. l \in Seq(Nat) /\ Len(l) = 1 /\ l[1] = p.line
    OBVIOUS
  <2>2. s \in Seq(Nat) /\ L \in Nat
    OBVIOUS
  <2>3. Boundary \in Seq(Nat) /\ n \in Nat
    BY BytesAreQuiet
  <2> HIDE DEF l, s, L, n
  <2> QED BY <2>1, <2>2, <2>3, ShortOnes
<1>1. x7 = PartBytes(p)
  BY DEF PartBytes
<1>2. At(body, c, x7)
  BY <1>1
<1> HIDE DEF l, s
<1>3. x1 \in Seq(Nat)
  BY <1>0, JoinedIn
<1> HIDE DEF x1
<1>4. x2 \in Seq(Nat)
  BY <1>0, <1>3, JoinedIn
<1> HIDE DEF x2
<1>5. x3 \in Seq(Nat)
  BY <1>0, <1>4, JoinedIn
<1> HIDE DEF x3
<1>6. x4 \in Seq(Nat)
  BY <1>0, <1>5, JoinedIn
<1> HIDE DEF x4
<1>7. x5 \in Seq(Nat)
  BY <1>0, <1>6, JoinedIn
<1> HIDE DEF x5
<1>8. x6 \in Seq(Nat)
  BY <1>0, <1>7, JoinedIn
<1> HIDE DEF x6
<1> HIDE DEF x7
<1>9. At(body, c, x6) /\ At(body, c + Len(x6), Boundary) /\ Len(x7) = Len(x6) + n
  <2>1. At(body, c, x6 \o Boundary)
    BY <1>2 DEF x7
  <2>2. /\ At(body, c, x6) /\ At(body, c + Len(x6), Boundary)
        /\ Len(x6 \o Boundary) = Len(x6) + Len(Boundary)
    <3>1. x6 \in Seq(Nat) /\ Boundary \in Seq(Nat) /\ body \in Seq(Nat)
      BY <1>0, <1>8
    <3> QED BY ONLY <2>1, <3>1, AtSplit
  <2> QED BY <2>2 DEF x7
<1>10. At(body, c, x5) /\ At(body, c + Len(x5), Dashes) /\ Len(x6) = Len(x5) + 2
  <2>1. At(body, c, x5 \o Dashes)
    BY <1>9 DEF x6
  <2>2. /\ At(body, c, x5) /\ At(body, c + Len(x5), Dashes)
        /\ Len(x5 \o Dashes) = Len(x5) + Len(Dashes)
    <3>1. x5 \in Seq(Nat) /\ Dashes \in Seq(Nat) /\ body \in Seq(Nat)
      BY <1>0, <1>7
    <3> QED BY ONLY <2>1, <3>1, AtSplit
  <2> QED BY <1>0, <2>2 DEF x6
<1>11. At(body, c, x4) /\ At(body, c + Len(x4), CRLF) /\ Len(x5) = Len(x4) + 2
  <2>1. At(body, c, x4 \o CRLF)
    BY <1>10 DEF x5
  <2>2. /\ At(body, c, x4) /\ At(body, c + Len(x4), CRLF)
        /\ Len(x4 \o CRLF) = Len(x4) + Len(CRLF)
    <3>1. x4 \in Seq(Nat) /\ CRLF \in Seq(Nat) /\ body \in Seq(Nat)
      BY <1>0, <1>6
    <3> QED BY ONLY <2>1, <3>1, AtSplit
  <2> QED BY <1>0, <2>2 DEF x5
<1>12. At(body, c, x3) /\ At(body, c + Len(x3), s) /\ Len(x4) = Len(x3) + L
  <2>1. At(body, c, x3 \o s)
    BY <1>11 DEF x4
  <2>2. /\ At(body, c, x3) /\ At(body, c + Len(x3), s)
        /\ Len(x3 \o s) = Len(x3) + Len(s)
    <3>1. x3 \in Seq(Nat) /\ s \in Seq(Nat) /\ body \in Seq(Nat)
      BY <1>0, <1>5
    <3> QED BY ONLY <2>1, <3>1, AtSplit
  <2> QED BY <2>2 DEF x4
<1>13. At(body, c, x2) /\ At(body, c + Len(x2), CRLF) /\ Len(x3) = Len(x2) + 2
  <2>1. At(body, c, x2 \o CRLF)
    BY <1>12 DEF x3
  <2>2. /\ At(body, c, x2) /\ At(body, c + Len(x2), CRLF)
        /\ Len(x2 \o CRLF) = Len(x2) + Len(CRLF)
    <3>1. x2 \in Seq(Nat) /\ CRLF \in Seq(Nat) /\ body \in Seq(Nat)
      BY <1>0, <1>4
    <3> QED BY ONLY <2>1, <3>1, AtSplit
  <2> QED BY <1>0, <2>2 DEF x3
<1>14. At(body, c, x1) /\ At(body, c + Len(x1), CRLF) /\ Len(x2) = Len(x1) + 2
  <2>1. At(body, c, x1 \o CRLF)
    BY <1>13 DEF x2
  <2>2. /\ At(body, c, x1) /\ At(body, c + Len(x1), CRLF)
        /\ Len(x1 \o CRLF) = Len(x1) + Len(CRLF)
    <3>1. x1 \in Seq(Nat) /\ CRLF \in Seq(Nat) /\ body \in Seq(Nat)
      BY <1>0, <1>3
    <3> QED BY ONLY <2>1, <3>1, AtSplit
  <2> QED BY <1>0, <2>2 DEF x2
<1>15. At(body, c, CRLF) /\ At(body, c + 2, l) /\ Len(x1) = 3
  <2>1. At(body, c, CRLF \o l)
    BY <1>14 DEF x1
  <2>2. /\ At(body, c, CRLF) /\ At(body, c + Len(CRLF), l)
        /\ Len(CRLF \o l) = Len(CRLF) + Len(l)
    <3>1. CRLF \in Seq(Nat) /\ l \in Seq(Nat) /\ body \in Seq(Nat)
      BY <1>0
    <3> QED BY ONLY <2>1, <3>1, AtSplit
  <2> QED BY <1>0, <2>2 DEF x1
<1>16. /\ Len(x2) = 5 /\ Len(x3) = 7 /\ Len(x4) = 7 + L /\ Len(x5) = 9 + L
       /\ Len(x6) = 11 + L /\ Len(x7) = 11 + L + n
  BY <1>0, <1>9, <1>10, <1>11, <1>12, <1>13, <1>14, <1>15
<1>17. c \in Nat /\ c + Len(x7) <= Len(body) /\ Len(body) \in Nat
  BY <1>2 DEF At
<1>18. body[c + 1] = 13 /\ body[c + 2] = 10
  BY <1>15, ShortOnes DEF At
<1>19. body[c + 3] = p.line
  <2>1. body[(c + 2) + 1] = l[1]
    <3>1. Len(l) = 1 /\ \A k \in 1..Len(l) : body[(c + 2) + k] = l[k]
      BY <1>0, <1>15 DEF At
    <3>2. 1 \in 1..1
      OBVIOUS
    <3> QED BY <3>1, <3>2
  <2> QED BY <1>0, <1>17, <2>1
<1>20. body[c + 4] = 13 /\ body[c + 5] = 10
  <2>1. body[(c + 3) + 1] = 13 /\ body[(c + 3) + 2] = 10
    BY <1>14, <1>15, ShortOnes DEF At
  <2> QED BY <1>17, <2>1
<1>21. body[c + 6] = 13 /\ body[c + 7] = 10
  <2>1. body[(c + 5) + 1] = 13 /\ body[(c + 5) + 2] = 10
    BY <1>13, <1>16, ShortOnes DEF At
  <2> QED BY <1>17, <2>1
<1>22. \A k \in 1..L : body[c + 7 + k] = s[k]
  BY <1>12, <1>16 DEF At
<1>23. \A k \in 1..4 : body[c + 7 + L + k] = Marker[k]
  <2>1. body[(c + (7 + L)) + 1] = 13 /\ body[(c + (7 + L)) + 2] = 10
    BY <1>11, <1>16, ShortOnes DEF At
  <2>2. body[(c + (9 + L)) + 1] = 45 /\ body[(c + (9 + L)) + 2] = 45
    BY <1>10, <1>16, ShortOnes DEF At
  <2>3. /\ (c + (7 + L)) + 1 = c + 7 + L + 1 /\ (c + (7 + L)) + 2 = c + 7 + L + 2
        /\ (c + (9 + L)) + 1 = c + 7 + L + 3 /\ (c + (9 + L)) + 2 = c + 7 + L + 4
    <3>1. c \in Nat /\ L \in Nat
      BY <1>0, <1>17
    <3> HIDE DEF L
    <3> QED BY ONLY <3>1
  <2>4. \A k \in 1..4 : k = 1 \/ k = 2 \/ k = 3 \/ k = 4
    OBVIOUS
  <2> QED BY <2>1, <2>2, <2>3, <2>4, MarkerIs
<1>24. \A k \in 1..n : body[c + 11 + L + k] = Boundary[k]
  <2>1. \A k \in 1..n : body[(c + (11 + L)) + k] = Boundary[k]
    BY <1>9, <1>16 DEF At
  <2>2. \A k \in 1..n : (c + (11 + L)) + k = c + 11 + L + k
    <3>1. c \in Nat /\ L \in Nat
      BY <1>0, <1>17
    <3> HIDE DEF L, n
    <3> QED BY ONLY <3>1
  <2> QED BY <2>1, <2>2
<1>25. c + 11 + L + n <= Len(body)
  <2>1. c \in Nat /\ L \in Nat /\ n \in Nat /\ c + (11 + L + n) <= Len(body) /\ Len(body) \in Nat
    BY <1>0, <1>16, <1>17
  <2> HIDE DEF L, n
  <2> QED BY ONLY <2>1
<1> HIDE DEF L, n
<1>26. PartAt(body, c, p.line, s)
  BY <1>17, <1>18, <1>19, <1>20, <1>21, <1>22, <1>23, <1>24, <1>25 DEF PartAt, L, n
<1> QED BY <1>1, <1>16, <1>26 DEF s, L, n

\* What the parser makes of a body from each offset on.
Parser(body, f) == \A c \in 0..Len(body) : f[c] = Turn(body, Boundary, f, c)

\* The part p between c and d is read, unless something behind it is refused.
Reads(f, c, d, part) ==
    /\ f[d].result # "ok" => f[c] = f[d]
    /\ f[d].result = "ok" => f[c] = [result |-> "ok", parts |-> <<part>> \o f[d].parts]

ReadAs(p) == [type |-> ContentType(<<p.line>>), body |-> p.body]

Turned(f, c, d, p) ==
    IF FindSubslice(p.body, Marker) = NotFound THEN Reads(f, c, d, ReadAs(p)) ELSE f[c] = Corrupt

LEMMA DashesAreNot == CRLF # Dashes
<1>1. CRLF[1] # Dashes[1]
  BY ShortOnes
<1> QED BY <1>1

LEMMA TurnRead ==
  ASSUME NEW body \in Seq(Nat), NEW f, Parser(body, f), NEW c \in 0..Len(body), NEW part, NEW d,
         Get(body, c, 2) = CRLF,
         ParsePart(body, Boundary, c + 2) = [result |-> "ok", part |-> part, next |-> d]
  PROVE  Reads(f, c, d, part)
<1>1. f[c] = Turn(body, Boundary, f, c)
  BY DEF Parser
<1> DEFINE p == ParsePart(body, Boundary, c + 2)
<1>2. p.result = "ok" /\ p.part = part /\ p.next = d
  OBVIOUS
<1>3. f[c] = IF Get(body, c, 2) = Dashes THEN [result |-> "ok", parts |-> <<>>]
             ELSE IF Get(body, c, 2) # CRLF THEN Corrupt
             ELSE IF p.result # "ok" THEN p
             ELSE IF f[p.next].result # "ok" THEN f[p.next]
             ELSE [result |-> "ok", parts |-> <<p.part>> \o f[p.next].parts]
  BY <1>1, Zenon DEF Turn
<1> HIDE DEF p
<1>4. f[c] = IF f[p.next].result # "ok" THEN f[p.next]
             ELSE [result |-> "ok", parts |-> <<p.part>> \o f[p.next].parts]
  BY <1>2, <1>3, DashesAreNot, Zenon
<1> QED BY <1>2, <1>4, Zenon DEF Reads

LEMMA TurnLost ==
  ASSUME NEW body \in Seq(Nat), NEW f, Parser(body, f), NEW c \in 0..Len(body),
         Get(body, c, 2) = CRLF, ParsePart(body, Boundary, c + 2) = Corrupt
  PROVE  f[c] = Corrupt
<1>1. f[c] = Turn(body, Boundary, f, c)
  BY DEF Parser
<1> DEFINE p == ParsePart(body, Boundary, c + 2)
<1>2. p.result # "ok" /\ p = Corrupt
  BY DEF Corrupt
<1>3. f[c] = IF Get(body, c, 2) = Dashes THEN [result |-> "ok", parts |-> <<>>]
             ELSE IF Get(body, c, 2) # CRLF THEN Corrupt
             ELSE IF p.result # "ok" THEN p
             ELSE IF f[p.next].result # "ok" THEN f[p.next]
             ELSE [result |-> "ok", parts |-> <<p.part>> \o f[p.next].parts]
  BY <1>1, Zenon DEF Turn
<1> HIDE DEF p
<1> QED BY <1>2, <1>3, DashesAreNot, Zenon

LEMMA TurnEnds ==
  ASSUME NEW body \in Seq(Nat), NEW f, Parser(body, f), NEW c, At(body, c, Dashes)
  PROVE  f[c] = [result |-> "ok", parts |-> <<>>]
<1>1. c \in Nat /\ c + 2 <= Len(body) /\ \A k \in 1..2 : body[c + k] = Dashes[k]
  BY ShortOnes DEF At
<1>2. Get(body, c, 2) = Dashes
  <2>1. Get(body, c, Len(Dashes)) = Dashes
         <=> /\ c + Len(Dashes) <= Len(body)
             /\ \A k \in 1..Len(Dashes) : body[c + k] = Dashes[k]
    <3>1. body \in Seq(Nat) /\ Dashes \in Seq(Nat) /\ Dashes # <<>> /\ c \in Nat
      BY <1>1, ShortOnes
    <3> QED BY ONLY <3>1, Occurs
  <2> QED BY <1>1, <2>1, ShortOnes
<1>3. f[c] = Turn(body, Boundary, f, c)
  <2>1. c \in 0..Len(body)
    BY <1>1
  <2> QED BY <2>1 DEF Parser
<1> QED BY <1>2, <1>3, Zenon DEF Turn

\* A part is read, or refused with what follows it, behind whatever comes before it.
LEMMA PartNext ==
  ASSUME NEW body \in Seq(Nat), NEW f, Parser(body, f), NEW X \in Seq(Nat),
         NEW p, p.line \in HeaderLine, p.body \in Seq(Nat),
         FindSubslice(p.body, Marker) # NotFound =>
            p.body \in Seq(Byte) /\ FindSubslice(p.body, Boundary) = NotFound,
         PartBytes(p) \in Seq(Nat), At(body, 0, X \o PartBytes(p))
  PROVE  At(body, 0, X) /\ Turned(f, Len(X), Len(X \o PartBytes(p)), p)
<1> DEFINE P == PartBytes(p)
           c == Len(X)
           d == Len(X \o P)
           s == p.body
           line == p.line
<1>0. line \in Nat /\ line \in HeaderLine
  BY DEF HeaderLine
<1>1. At(body, 0, X) /\ At(body, 0 + c, P) /\ d = c + Len(P)
  <2>1. body \in Seq(Nat) /\ X \in Seq(Nat) /\ P \in Seq(Nat) /\ At(body, 0, X \o P)
    OBVIOUS
  <2> HIDE DEF P
  <2> QED BY ONLY <2>1, AtSplit
<1>2. c \in Nat /\ 0 + c = c
  OBVIOUS
<1>3. PartAt(body, c, line, s) /\ Len(P) = 11 + Len(s) + Len(Boundary)
  <2>1. /\ body \in Seq(Nat) /\ p.line \in Nat /\ p.body \in Seq(Nat)
        /\ At(body, c, PartBytes(p))
    BY <1>0, <1>1, <1>2
  <2> HIDE DEF c
  <2>2. /\ PartAt(body, c, p.line, p.body)
        /\ Len(PartBytes(p)) = 11 + Len(p.body) + Len(Boundary)
    BY ONLY <2>1, PartStands
  <2> QED BY <2>2
<1>4. c \in 0..Len(body) /\ d = c + 11 + Len(s) + Len(Boundary)
  <2>1. /\ c \in Nat /\ c + 11 + Len(s) + Len(Boundary) <= Len(body)
        /\ Len(s) \in Nat /\ Len(Boundary) \in Nat /\ Len(body) \in Nat
    <3>1. Len(s) \in Nat /\ Len(body) \in Nat
      OBVIOUS
    <3>2. c + 11 + Len(s) + Len(Boundary) <= Len(body)
      BY <1>3 DEF PartAt
    <3> QED BY <1>2, <3>1, <3>2, BytesAreQuiet
  <2>2. d = c + (11 + Len(s) + Len(Boundary))
    BY <1>1, <1>3
  <2> DEFINE L == Len(s)
             n == Len(Boundary)
             N == Len(body)
  <2>3. /\ c \in Nat /\ c + 11 + L + n <= N /\ L \in Nat /\ n \in Nat /\ N \in Nat
        /\ d = c + (11 + L + n)
    BY <2>1, <2>2
  <2> HIDE DEF L, n, N, c, d
  <2>4. c \in 0..N /\ d = c + 11 + L + n
    BY ONLY <2>3
  <2> QED BY <2>4 DEF L, n, N
<1>5. body \in Seq(Nat) /\ Parser(body, f) /\ s \in Seq(Nat)
  OBVIOUS
<1> HIDE DEF c, d, P
<1>6. CASE FindSubslice(s, Marker) = NotFound
  <2>1. /\ Get(body, c, 2) = CRLF
        /\ ParsePart(body, Boundary, c + 2) = [result |-> "ok", part |-> ReadAs(p), next |-> d]
    <3> HIDE DEF s, line
    <3>1. /\ Get(body, c, 2) = CRLF
          /\ ParsePart(body, Boundary, c + 2) =
               [result |-> "ok",
                part |-> [type |-> ContentType(<<line>>), body |-> s],
                next |-> c + 11 + Len(s) + Len(Boundary)]
      BY ONLY <1>0, <1>3, <1>5, <1>6, PartRead
    <3>2. ReadAs(p) = [type |-> ContentType(<<line>>), body |-> s]
      BY DEF ReadAs, s, line
    <3> QED BY <1>4, <3>1, <3>2, Zenon
  <2>2. Reads(f, c, d, ReadAs(p))
    <3> DEFINE r == ReadAs(p)
    <3>1. ParsePart(body, Boundary, c + 2) = [result |-> "ok", part |-> r, next |-> d]
      BY <2>1
    <3> HIDE DEF r
    <3>2. Reads(f, c, d, r)
      BY ONLY <1>4, <1>5, <2>1, <3>1, TurnRead
    <3> QED BY <3>2 DEF r
  <2> QED BY <1>1, <1>6, <2>2 DEF Turned, c, d, P
<1>7. CASE FindSubslice(s, Marker) # NotFound
  <2>1. s \in Seq(Byte) /\ FindSubslice(s, Boundary) = NotFound
    BY <1>7
  <2> HIDE DEF s, line
  <2>2. Get(body, c, 2) = CRLF /\ ParsePart(body, Boundary, c + 2) = Corrupt
    BY ONLY <1>0, <1>3, <1>5, <1>7, <2>1, PartLost
  <2>3. f[c] = Corrupt
    BY ONLY <1>4, <1>5, <2>2, TurnLost
  <2> QED BY <1>1, <1>7, <2>3 DEF Turned, c, d, P, s
<1> QED BY <1>6, <1>7

\* The first part of a type.
LEMMA FirstIs ==
  ASSUME NEW parts, NEW type, DOMAIN parts \subseteq Nat,
         NEW i \in DOMAIN parts, parts[i].type = type,
         \A j \in DOMAIN parts : j < i => parts[j].type # type
  PROVE  FirstOfType(parts, type) = <<parts[i].body>>
<1> DEFINE at == {j \in DOMAIN parts : parts[j].type = type}
<1>1. at \subseteq Nat /\ at # {} /\ i \in at
  OBVIOUS
<1>2. Min(at) \in at /\ Min(at) <= i
  <2> HIDE DEF at
  <2> QED BY <1>1, MinIs
<1>3. Min(at) \in DOMAIN parts /\ parts[Min(at)].type = type /\ Min(at) \in Nat /\ i \in Nat
  BY <1>1, <1>2
<1> DEFINE m == Min(at)
<1>4. m = i
  <2>1. m \in DOMAIN parts /\ ~(m < i) /\ m <= i /\ m \in Nat
    <3>1. m \in DOMAIN parts /\ parts[m].type = type /\ m \in Nat /\ m <= i
      BY <1>2, <1>3
    <3> HIDE DEF m
    <3> QED BY <3>1
  <2> HIDE DEF m
  <2> QED BY <1>3, <2>1
<1> QED BY <1>1, <1>4 DEF FirstOfType

\* What a header line says of the type.
LEMMA TypesAre ==
  /\ ContentType(<<JsonType>>) = JsonType
  /\ ContentType(<<ReceiptType>>) = ReceiptType
  /\ ContentType(<<OtherHeader>>) = 0
<1>1. ASSUME NEW line \in Nat
      PROVE  ContentType(<<line>>) = IF line \in HeaderLine \ {OtherHeader} THEN line ELSE 0
  <2> DEFINE types == {i \in DOMAIN <<line>> : <<line>>[i] \in HeaderLine \ {OtherHeader}}
  <2>1. DOMAIN <<line>> = {1} /\ <<line>>[1] = line
    OBVIOUS
  <2>2. CASE line \in HeaderLine \ {OtherHeader}
    <3>1. types = {1}
      BY <2>1, <2>2
    <3>2. Min({1}) = 1
      <4> DEFINE S == {1}
      <4>1. S \subseteq Nat /\ S # {} /\ \A x \in S : x = 1
        OBVIOUS
      <4> HIDE DEF S
      <4>2. Min(S) = 1
        BY <4>1, MinIs
      <4> QED BY <4>2 DEF S
    <3> QED BY <2>1, <2>2, <3>1, <3>2 DEF ContentType
  <2>3. CASE line \notin HeaderLine \ {OtherHeader}
    <3>1. types = {}
      BY <2>1, <2>3
    <3> QED BY <2>3, <3>1 DEF ContentType
  <2> QED BY <2>2, <2>3
<1>2. /\ JsonType \in Nat /\ ReceiptType \in Nat /\ OtherHeader \in Nat
      /\ JsonType \in HeaderLine \ {OtherHeader} /\ ReceiptType \in HeaderLine \ {OtherHeader}
      /\ OtherHeader \notin HeaderLine \ {OtherHeader}
  BY DEF JsonType, ReceiptType, OtherHeader, HeaderLine
<1> QED BY <1>1, <1>2

\* A sequence of less than four holds no marker.
LEMMA TooShort ==
  ASSUME NEW s \in Seq(Nat), Len(s) < 4
  PROVE  FindSubslice(s, Marker) = NotFound
<1> SUFFICES ASSUME FindSubslice(s, Marker) # NotFound PROVE FALSE
  OBVIOUS
<1> DEFINE m == FindSubslice(s, Marker)
<1>1. OccursAt(s, Marker, m)
  BY MarkerAt
<1>2. m \in Nat /\ m + 4 <= Len(s) /\ Len(s) \in Nat
  BY <1>1, MarkerIs DEF OccursAt
<1> HIDE DEF m
<1> QED BY <1>2

\* A part that a provider can send: the ones without a receipt, and the receipt.
Sendable(p) ==
    /\ p.line \in HeaderLine /\ p.body \in Seq(Nat) /\ PartBytes(p) \in Seq(Nat)
    /\ FindSubslice(p.body, Marker) # NotFound =>
          p.body \in Seq(Byte) /\ FindSubslice(p.body, Boundary) = NotFound

LEMMA PartsAreSendable ==
  ASSUME NEW s \in Seq(Byte), FindSubslice(s, Boundary) = NotFound
  PROVE  /\ Sendable(ReceiptPart(s))
         /\ \A d \in Nat : d # ReceiptType => Sendable(Json(d))
         /\ Sendable([line |-> OtherHeader, body |-> <<>>])
<1>1. Sendable(ReceiptPart(s))
  <2>1. ReceiptPart(s).line \in HeaderLine /\ ReceiptPart(s).body = s
    BY DEF ReceiptPart, ReceiptType, HeaderLine
  <2>2. s \in Seq(Nat)
    BY BytesAreQuiet
  <2> QED BY <2>1, <2>2, ReceiptBytes DEF Sendable
<1>2. ASSUME NEW d \in Nat, d # ReceiptType PROVE Sendable(Json(d))
  <2>1. Json(d).line \in HeaderLine /\ Json(d).body = <<d>>
    BY DEF Json, JsonType, HeaderLine
  <2>2. <<d>> \in Seq(Nat) /\ Len(<<d>>) < 4
    OBVIOUS
  <2>3. FindSubslice(<<d>>, Marker) = NotFound
    <3> DEFINE x == <<d>>
    <3>1. x \in Seq(Nat) /\ Len(x) < 4
      BY <2>2
    <3> HIDE DEF x
    <3>2. FindSubslice(x, Marker) = NotFound
      BY <3>1, TooShort
    <3> QED BY <3>2 DEF x
  <2>4. PartBytes(Json(d)) \in Seq(Nat)
    BY <1>2, JsonIsQuiet, QuietBytes
  <2> QED BY <2>1, <2>2, <2>3, <2>4 DEF Sendable
<1>3. Sendable([line |-> OtherHeader, body |-> <<>>])
  <2> DEFINE p == [line |-> OtherHeader, body |-> <<>>]
  <2>1. p.line \in HeaderLine /\ p.body = <<>> /\ p.line \in Quiet
    BY DEF OtherHeader, HeaderLine, Quiet, ReceiptType
  <2>2. <<>> \in Seq(Nat) /\ Len(<<>>) < 4 /\ <<>> \in Seq(Quiet)
    OBVIOUS
  <2>3. FindSubslice(<<>>, Marker) = NotFound
    BY <2>2, TooShort
  <2>4. QuietPart(p)
    BY <2>1, <2>2 DEF QuietPart
  <2> HIDE DEF p
  <2>5. PartBytes(p) \in Seq(Nat)
    BY <2>4, QuietBytes
  <2>6. Sendable(p)
    BY <2>1, <2>2, <2>3, <2>5 DEF Sendable
  <2> QED BY <2>6 DEF p
<1> QED BY <1>1, <1>2, <1>3

\* From the end of such a body back to its first part.
LEMMA TurnBack ==
  ASSUME NEW body \in Seq(Nat), NEW f, Parser(body, f), NEW X \in Seq(Nat),
         NEW p, Sendable(p), At(body, 0, X \o PartBytes(p))
  PROVE  At(body, 0, X) /\ Turned(f, Len(X), Len(X \o PartBytes(p)), p)
BY PartNext DEF Sendable

LEMMA BodyEnds ==
  ASSUME NEW X \in Seq(Nat), NEW body \in Seq(Nat), body = X \o Dashes, NEW f, Parser(body, f)
  PROVE  At(body, 0, X) /\ f[Len(X)] = [result |-> "ok", parts |-> <<>>]
<1>1. At(body, 0, X \o Dashes)
  <2>1. At(body, 0, body)
    BY AtWhole
  <2> QED BY <2>1
<1>2. At(body, 0, X) /\ At(body, 0 + Len(X), Dashes)
  <2>1. body \in Seq(Nat) /\ X \in Seq(Nat) /\ Dashes \in Seq(Nat)
    BY ShortOnes
  <2> QED BY ONLY <1>1, <2>1, AtSplit
<1>3. 0 + Len(X) = Len(X)
  OBVIOUS
<1>4. At(body, Len(X), Dashes)
  BY <1>2, <1>3
<1> DEFINE c == Len(X)
<1>5. body \in Seq(Nat) /\ Parser(body, f) /\ At(body, c, Dashes)
  BY <1>4
<1> HIDE DEF c
<1>6. f[c] = [result |-> "ok", parts |-> <<>>]
  BY ONLY <1>5, TurnEnds
<1> QED BY <1>2, <1>6 DEF c

\* The parser begins behind the first delimiter.
LEMMA BodyBegins ==
  ASSUME NEW body \in Seq(Nat), At(body, 0, Opening0)
  PROVE  \E f : /\ Parser(body, f)
                /\ ParseMultipart(body, Boundary) = f[Len(Opening0)]
<1> DEFINE m == ParseMultipart(body, Boundary)
<1>0. Boundary \in Seq(Nat) /\ Boundary # <<>>
  BY BytesAreQuiet, BoundaryIsFresh
<1>1. PICK f : /\ \A c \in 0..Len(body) : f[c] = Turn(body, Boundary, f, c)
               /\ m = IF Get(body, 0, Len(Boundary) + 2) # Dashes \o Boundary THEN Corrupt
                      ELSE f[Len(Boundary) + 2]
  <2> HIDE DEF m
  <2>1. \E f : /\ \A c \in 0..Len(body) : f[c] = Turn(body, Boundary, f, c)
               /\ ParseMultipart(body, Boundary) =
                      IF Get(body, 0, Len(Boundary) + 2) # Dashes \o Boundary THEN Corrupt
                      ELSE f[Len(Boundary) + 2]
    BY <1>0, ParserSteps
  <2> QED BY <2>1, Zenon DEF m
<1> HIDE DEF m
<1>2. Parser(body, f)
  BY <1>1, Zenon DEF Parser
<1>3. Len(Opening0) = Len(Boundary) + 2 /\ Opening0 \in Seq(Nat) /\ Opening0 # <<>>
  <2>1. Len(Dashes \o Boundary) = Len(Dashes) + Len(Boundary)
    <3>1. Dashes \in Seq(Nat) /\ Boundary \in Seq(Nat)
      BY <1>0, ShortOnes
    <3> QED BY ONLY <3>1, Joined
  <2>2. Len(Opening0) = Len(Boundary) + 2
    <3>1. Len(Boundary) \in Nat
      BY <1>0
    <3> QED BY <2>1, <3>1, ShortOnes DEF Opening0
  <2>3. Opening0 \in Seq(Nat) /\ Len(Opening0) >= 3
    BY OpeningIs DEF Opens
  <2> QED BY <2>2, <2>3
<1>4. Get(body, 0, Len(Opening0)) = Opening0
  <2>1. /\ 0 + Len(Opening0) <= Len(body)
        /\ \A k \in 1..Len(Opening0) : body[0 + k] = Opening0[k]
    BY DEF At
  <2>2. Get(body, 0, Len(Opening0)) = Opening0
         <=> /\ 0 + Len(Opening0) <= Len(body)
             /\ \A k \in 1..Len(Opening0) : body[0 + k] = Opening0[k]
    <3>1. body \in Seq(Nat) /\ Opening0 \in Seq(Nat) /\ Opening0 # <<>> /\ 0 \in Nat
      BY <1>3
    <3> QED BY ONLY <3>1, Occurs
  <2> QED BY <2>1, <2>2
<1>5. m = f[Len(Opening0)]
  <2>1. Opening0 = Dashes \o Boundary
    BY DEF Opening0
  <2> HIDE DEF Opening0
  <2> QED BY <1>1, <1>3, <1>4, <2>1
<1> QED BY <1>2, <1>5 DEF m

Fine(parts) == [result |-> "ok", parts |-> parts]

Plainly(p) == FindSubslice(p.body, Marker) = NotFound

\* What one part does to what follows it.
LEMMA OneTurn ==
  ASSUME NEW f, NEW c, NEW d, NEW p, Turned(f, c, d, p)
  PROVE  /\ f[d] = Corrupt => f[c] = Corrupt
         /\ ~Plainly(p) => f[c] = Corrupt
         /\ \A q : Plainly(p) /\ f[d] = Fine(q) => f[c] = Fine(<<ReadAs(p)>> \o q)
<1>1. Corrupt.result # "ok" /\ \A q : Fine(q).result = "ok" /\ Fine(q).parts = q
  BY DEF Corrupt, Fine
<1>2. CASE Plainly(p)
  <2>1. Reads(f, c, d, ReadAs(p))
    BY <1>2 DEF Turned, Plainly
  <2>2. f[d] = Corrupt => f[c] = Corrupt
    BY <1>1, <2>1 DEF Reads
  <2>3. ASSUME NEW q, f[d] = Fine(q) PROVE f[c] = Fine(<<ReadAs(p)>> \o q)
    <3>1. f[d].result = "ok" /\ f[d].parts = q
      BY <1>1, <2>3
    <3>2. f[c] = [result |-> "ok", parts |-> <<ReadAs(p)>> \o f[d].parts]
      BY <2>1, <3>1, Zenon DEF Reads
    <3> QED BY <3>1, <3>2, Zenon DEF Fine
  <2> QED BY <1>2, <2>2, <2>3
<1>3. CASE ~Plainly(p)
  BY <1>3 DEF Turned, Plainly
<1> QED BY <1>2, <1>3

\* Two parts, four parts.
LEMMA TwoTurned ==
  ASSUME NEW a, NEW b, Sendable(a), Sendable(b)
  PROVE  \E f, c, d, e :
            /\ ParseMultipart(MultipartBody(<<a, b>>), Boundary) = f[c]
            /\ Turned(f, c, d, a) /\ Turned(f, d, e, b) /\ f[e] = Fine(<<>>)
<1> DEFINE A == PartBytes(a)
           B == PartBytes(b)
           X1 == Opening0 \o A
           X2 == X1 \o B
           body == MultipartBody(<<a, b>>)
<1>0. A \in Seq(Nat) /\ B \in Seq(Nat) /\ Opening0 \in Seq(Nat) /\ Dashes \in Seq(Nat)
  BY OpeningIs DEF Sendable
<1>1. body = X2 \o Dashes
  <2> HIDE DEF body
  <2> QED BY <1>0, BodiesOf DEF body
<1>2. X1 \in Seq(Nat)
  BY <1>0, JoinedIn
<1>3. X2 \in Seq(Nat)
  <2> HIDE DEF X1
  <2> QED BY <1>0, <1>2, JoinedIn
<1> HIDE DEF A, B
<1>4. body \in Seq(Nat)
  <2> HIDE DEF X2, body
  <2> QED BY <1>0, <1>1, <1>3, JoinedIn
<1>5. ASSUME NEW f, Parser(body, f)
      PROVE  /\ At(body, 0, Opening0) /\ f[Len(X2)] = Fine(<<>>)
             /\ Turned(f, Len(Opening0), Len(X1), a) /\ Turned(f, Len(X1), Len(X2), b)
  <2> HIDE DEF body
  <2>1. At(body, 0, X2) /\ f[Len(X2)] = Fine(<<>>)
    <3> HIDE DEF X2
    <3>1. At(body, 0, X2) /\ f[Len(X2)] = [result |-> "ok", parts |-> <<>>]
      BY ONLY <1>1, <1>3, <1>4, <1>5, BodyEnds
    <3> QED BY <3>1, Zenon DEF Fine
  <2>2. At(body, 0, X1) /\ Turned(f, Len(X1), Len(X2), b)
    <3> HIDE DEF X1
    <3>1. At(body, 0, X1 \o PartBytes(b))
      BY <2>1 DEF B
    <3>2. At(body, 0, X1) /\ Turned(f, Len(X1), Len(X1 \o PartBytes(b)), b)
      BY ONLY <1>2, <1>4, <1>5, <3>1, Sendable(b), TurnBack
    <3> QED BY <3>2 DEF B
  <2>3. At(body, 0, Opening0) /\ Turned(f, Len(Opening0), Len(X1), a)
    <3>1. At(body, 0, Opening0 \o PartBytes(a))
      BY <2>2 DEF A
    <3>2. At(body, 0, Opening0) /\ Turned(f, Len(Opening0), Len(Opening0 \o PartBytes(a)), a)
      BY ONLY <1>0, <1>4, <1>5, <3>1, Sendable(a), TurnBack
    <3> QED BY <3>2 DEF A
  <2> QED BY <2>1, <2>2, <2>3
<1> HIDE DEF body, X1, X2
<1>6. At(body, 0, Opening0)
  <2>1. \E f : Parser(body, f)
    <3>1. Boundary \in Seq(Nat) /\ Boundary # <<>>
      BY BytesAreQuiet, BoundaryIsFresh
    <3>2. \E f : \A c \in 0..Len(body) : f[c] = Turn(body, Boundary, f, c)
      BY <1>4, <3>1, ParserSteps
    <3> QED BY <3>2, Zenon DEF Parser
  <2> QED BY <1>5, <2>1
<1>7. PICK f : Parser(body, f) /\ ParseMultipart(body, Boundary) = f[Len(Opening0)]
  BY ONLY <1>4, <1>6, BodyBegins
<1>8. /\ ParseMultipart(body, Boundary) = f[Len(Opening0)]
      /\ Turned(f, Len(Opening0), Len(X1), a) /\ Turned(f, Len(X1), Len(X2), b)
      /\ f[Len(X2)] = Fine(<<>>)
  BY <1>5, <1>7
<1> QED BY <1>8, Zenon DEF body

LEMMA FourTurned ==
  ASSUME NEW a, NEW b, NEW p, NEW q, Sendable(a), Sendable(b), Sendable(p), Sendable(q)
  PROVE  \E f, c, d, e, g, h :
            /\ ParseMultipart(MultipartBody(<<a, b, p, q>>), Boundary) = f[c]
            /\ Turned(f, c, d, a) /\ Turned(f, d, e, b) /\ Turned(f, e, g, p) /\ Turned(f, g, h, q)
            /\ f[h] = Fine(<<>>)
<1> DEFINE A == PartBytes(a)
           B == PartBytes(b)
           P == PartBytes(p)
           Q == PartBytes(q)
           X1 == Opening0 \o A
           X2 == X1 \o B
           X3 == X2 \o P
           X4 == X3 \o Q
           body == MultipartBody(<<a, b, p, q>>)
<1>0. /\ A \in Seq(Nat) /\ B \in Seq(Nat) /\ P \in Seq(Nat) /\ Q \in Seq(Nat)
      /\ Opening0 \in Seq(Nat) /\ Dashes \in Seq(Nat)
  BY OpeningIs DEF Sendable
<1>1. body = X4 \o Dashes
  <2>1. FourParts(a, b, p, q)
    BY <1>0, BodiesOf
  <2> QED BY <2>1, Zenon DEF FourParts
<1>2. X1 \in Seq(Nat)
  BY <1>0, JoinedIn
<1> HIDE DEF X1
<1>3. X2 \in Seq(Nat)
  BY <1>0, <1>2, JoinedIn
<1> HIDE DEF X2
<1>4. X3 \in Seq(Nat)
  BY <1>0, <1>3, JoinedIn
<1> HIDE DEF X3
<1>5. X4 \in Seq(Nat)
  BY <1>0, <1>4, JoinedIn
<1> HIDE DEF X4, A, B, P, Q, body
<1>6. body \in Seq(Nat)
  BY <1>0, <1>1, <1>5, JoinedIn
<1>7. ASSUME NEW f, Parser(body, f)
      PROVE  /\ At(body, 0, Opening0) /\ f[Len(X4)] = Fine(<<>>)
             /\ Turned(f, Len(Opening0), Len(X1), a) /\ Turned(f, Len(X1), Len(X2), b)
             /\ Turned(f, Len(X2), Len(X3), p) /\ Turned(f, Len(X3), Len(X4), q)
  <2>1. At(body, 0, X4) /\ f[Len(X4)] = Fine(<<>>)
    <3>1. At(body, 0, X4) /\ f[Len(X4)] = [result |-> "ok", parts |-> <<>>]
      BY ONLY <1>1, <1>5, <1>6, <1>7, BodyEnds
    <3> QED BY <3>1, Zenon DEF Fine
  <2>2. At(body, 0, X3) /\ Turned(f, Len(X3), Len(X4), q)
    <3>1. At(body, 0, X3 \o PartBytes(q))
      BY <2>1 DEF X4, Q
    <3>2. At(body, 0, X3) /\ Turned(f, Len(X3), Len(X3 \o PartBytes(q)), q)
      BY ONLY <1>4, <1>6, <1>7, <3>1, Sendable(q), TurnBack
    <3> QED BY <3>2 DEF X4, Q
  <2>3. At(body, 0, X2) /\ Turned(f, Len(X2), Len(X3), p)
    <3>1. At(body, 0, X2 \o PartBytes(p))
      BY <2>2 DEF X3, P
    <3>2. At(body, 0, X2) /\ Turned(f, Len(X2), Len(X2 \o PartBytes(p)), p)
      BY ONLY <1>3, <1>6, <1>7, <3>1, Sendable(p), TurnBack
    <3> QED BY <3>2 DEF X3, P
  <2>4. At(body, 0, X1) /\ Turned(f, Len(X1), Len(X2), b)
    <3>1. At(body, 0, X1 \o PartBytes(b))
      BY <2>3 DEF X2, B
    <3>2. At(body, 0, X1) /\ Turned(f, Len(X1), Len(X1 \o PartBytes(b)), b)
      BY ONLY <1>2, <1>6, <1>7, <3>1, Sendable(b), TurnBack
    <3> QED BY <3>2 DEF X2, B
  <2>5. At(body, 0, Opening0) /\ Turned(f, Len(Opening0), Len(X1), a)
    <3>1. At(body, 0, Opening0 \o PartBytes(a))
      BY <2>4 DEF X1, A
    <3>2. At(body, 0, Opening0) /\ Turned(f, Len(Opening0), Len(Opening0 \o PartBytes(a)), a)
      BY ONLY <1>0, <1>6, <1>7, <3>1, Sendable(a), TurnBack
    <3> QED BY <3>2 DEF X1, A
  <2> QED BY <2>1, <2>2, <2>3, <2>4, <2>5
<1>8. At(body, 0, Opening0)
  <2>1. \E f : Parser(body, f)
    <3>1. Boundary \in Seq(Nat) /\ Boundary # <<>>
      BY BytesAreQuiet, BoundaryIsFresh
    <3>2. \E f : \A c \in 0..Len(body) : f[c] = Turn(body, Boundary, f, c)
      BY <1>6, <3>1, ParserSteps
    <3> QED BY <3>2, Zenon DEF Parser
  <2> QED BY <1>7, <2>1
<1>9. PICK f : Parser(body, f) /\ ParseMultipart(body, Boundary) = f[Len(Opening0)]
  BY ONLY <1>6, <1>8, BodyBegins
<1>10. /\ ParseMultipart(body, Boundary) = f[Len(Opening0)]
       /\ Turned(f, Len(Opening0), Len(X1), a) /\ Turned(f, Len(X1), Len(X2), b)
       /\ Turned(f, Len(X2), Len(X3), p) /\ Turned(f, Len(X3), Len(X4), q)
       /\ f[Len(X4)] = Fine(<<>>)
  BY <1>7, <1>9
<1> QED BY <1>10, Zenon DEF body

\* What is found in a good answer: the document, and the receipt as it was sent.
Found(m, s) ==
    /\ m.result = "ok"
    /\ FirstOfType(m.parts, JsonType) = << <<300>> >>
    /\ FirstOfType(m.parts, ReceiptType) = <<s>>

LEMMA ReadAre ==
  ASSUME NEW s
  PROVE  /\ ReadAs(ReceiptPart(s)) = [type |-> ReceiptType, body |-> s]
         /\ \A d : ReadAs(Json(d)) = [type |-> JsonType, body |-> <<d>>]
         /\ ReadAs([line |-> OtherHeader, body |-> <<>>]) = [type |-> 0, body |-> <<>>]
BY TypesAre DEF ReadAs, ReceiptPart, Json

LEMMA Pushed ==
  ASSUME NEW T, NEW x \in T, NEW y \in Seq(T), NEW n \in Nat, Len(y) = n, NEW z, z = <<x>> \o y
  PROVE  z \in Seq(T) /\ Len(z) = 1 + n /\ z[1] = x /\ \A k \in 1..n : z[1 + k] = y[k]
<1> DEFINE o == <<x>>
<1>1. o \in Seq(T) /\ Len(o) = 1 /\ o[1] = x /\ 1 \in 1..1 /\ z = o \o y /\ y \in Seq(T)
  OBVIOUS
<1> HIDE DEF o
<1>2. /\ o \o y \in Seq(T) /\ Len(o \o y) = Len(o) + Len(y)
      /\ \A k \in 1..Len(o) : (o \o y)[k] = o[k]
      /\ \A k \in 1..Len(y) : (o \o y)[Len(o) + k] = y[k]
  <2>1. o \in Seq(T) /\ y \in Seq(T)
    BY <1>1
  <2> QED BY ONLY <2>1, Joined
<1> QED BY <1>1, <1>2

LEMMA JoinedTuples ==
  ASSUME NEW a, NEW b, NEW c, NEW d
  PROVE  /\ <<a>> \o (<<b>> \o <<>>) = <<a, b>>
         /\ <<a>> \o (<<b>> \o (<<c>> \o (<<d>> \o <<>>))) = <<a, b, c, d>>
<1> DEFINE T == {a, b, c, d}
           E == <<>>
           d1 == <<d>> \o E
           c1 == <<c>> \o d1
           b1 == <<b>> \o c1
           a1 == <<a>> \o b1
           b2 == <<b>> \o E
           a2 == <<a>> \o b2
<1>1. E \in Seq(T) /\ Len(E) = 0 /\ a \in T /\ b \in T /\ c \in T /\ d \in T
  OBVIOUS
<1>2. /\ 1 \in 1..1 /\ 1 \in 1..2 /\ 2 \in 1..2 /\ 1 \in 1..3 /\ 2 \in 1..3 /\ 3 \in 1..3
      /\ 1 + 0 = 1 /\ 1 + 1 = 2 /\ 1 + 2 = 3 /\ 1 + 3 = 4
      /\ 0 \in Nat /\ 1 \in Nat /\ 2 \in Nat /\ 3 \in Nat
  OBVIOUS
<1> HIDE DEF T, E
<1>3. d1 \in Seq(T) /\ Len(d1) = 1 /\ d1[1] = d
  <2> DEFINE z == d1
  <2>1. z = <<d>> \o E
    OBVIOUS
  <2> HIDE DEF z
  <2>2. z \in Seq(T) /\ Len(z) = 1 + 0 /\ z[1] = d
    BY ONLY <1>1, <1>2, <2>1, Pushed
  <2> QED BY <1>2, <2>2 DEF z
<1>4. b2 \in Seq(T) /\ Len(b2) = 1 /\ b2[1] = b
  <2> DEFINE z == b2
  <2>1. z = <<b>> \o E
    OBVIOUS
  <2> HIDE DEF z
  <2>2. z \in Seq(T) /\ Len(z) = 1 + 0 /\ z[1] = b
    BY ONLY <1>1, <1>2, <2>1, Pushed
  <2> QED BY <1>2, <2>2 DEF z
<1> HIDE DEF d1, b2
<1>5. c1 \in Seq(T) /\ Len(c1) = 2 /\ c1[1] = c /\ c1[2] = d
  <2> DEFINE z == c1
  <2>1. z = <<c>> \o d1
    OBVIOUS
  <2> HIDE DEF z
  <2>2. z \in Seq(T) /\ Len(z) = 1 + 1 /\ z[1] = c /\ \A k \in 1..1 : z[1 + k] = d1[k]
    BY ONLY <1>1, <1>2, <1>3, <2>1, Pushed
  <2>3. z[1 + 1] = d1[1]
    BY <1>2, <2>2
  <2> QED BY <1>2, <1>3, <2>2, <2>3 DEF z
<1>6. a2 \in Seq(T) /\ Len(a2) = 2 /\ a2[1] = a /\ a2[2] = b
  <2> DEFINE z == a2
  <2>1. z = <<a>> \o b2
    OBVIOUS
  <2> HIDE DEF z
  <2>2. z \in Seq(T) /\ Len(z) = 1 + 1 /\ z[1] = a /\ \A k \in 1..1 : z[1 + k] = b2[k]
    BY ONLY <1>1, <1>2, <1>4, <2>1, Pushed
  <2>3. z[1 + 1] = b2[1]
    BY <1>2, <2>2
  <2> QED BY <1>2, <1>4, <2>2, <2>3 DEF z
<1> HIDE DEF c1
<1>7. b1 \in Seq(T) /\ Len(b1) = 3 /\ b1[1] = b /\ b1[2] = c /\ b1[3] = d
  <2> DEFINE z == b1
             n == 2
  <2>1. z = <<b>> \o c1
    OBVIOUS
  <2> HIDE DEF z
  <2>2. z \in Seq(T) /\ Len(z) = 1 + 2 /\ z[1] = b /\ \A k \in 1..2 : z[1 + k] = c1[k]
    <3>1. b \in T /\ c1 \in Seq(T) /\ n \in Nat /\ Len(c1) = n /\ z = <<b>> \o c1
      BY <1>1, <1>2, <1>5, <2>1
    <3> HIDE DEF n
    <3>2. z \in Seq(T) /\ Len(z) = 1 + n /\ z[1] = b /\ \A k \in 1..n : z[1 + k] = c1[k]
      BY ONLY <3>1, Pushed
    <3> QED BY <3>2 DEF n
  <2>3. z[1 + 1] = c1[1] /\ z[1 + 2] = c1[2]
    BY <1>2, <2>2
  <2> QED BY <1>2, <1>5, <2>2, <2>3 DEF z
<1> HIDE DEF b1
<1>8. a1 \in Seq(T) /\ Len(a1) = 4 /\ a1[1] = a /\ a1[2] = b /\ a1[3] = c /\ a1[4] = d
  <2> DEFINE z == a1
             n == 3
  <2>1. z = <<a>> \o b1
    OBVIOUS
  <2> HIDE DEF z
  <2>2. z \in Seq(T) /\ Len(z) = 1 + 3 /\ z[1] = a /\ \A k \in 1..3 : z[1 + k] = b1[k]
    <3>1. a \in T /\ b1 \in Seq(T) /\ n \in Nat /\ Len(b1) = n /\ z = <<a>> \o b1
      BY <1>1, <1>2, <1>7, <2>1
    <3> HIDE DEF n
    <3>2. z \in Seq(T) /\ Len(z) = 1 + n /\ z[1] = a /\ \A k \in 1..n : z[1 + k] = b1[k]
      BY ONLY <3>1, Pushed
    <3> QED BY <3>2 DEF n
  <2>3. z[1 + 1] = b1[1] /\ z[1 + 2] = b1[2] /\ z[1 + 3] = b1[3]
    BY <1>2, <2>2
  <2> QED BY <1>2, <1>7, <2>2, <2>3 DEF z
<1> HIDE DEF a1, a2
<1>9. a2 = <<a, b>>
  BY ONLY <1>6
<1>10. a1 = <<a, b, c, d>>
  BY ONLY <1>8
<1> QED BY <1>9, <1>10 DEF a1, b1, c1, d1, a2, b2, E

\* A JSON part as it is read.
Document(d) == [type |-> JsonType, body |-> <<d>>]

LEMMA FoundTwo ==
  ASSUME NEW s, NEW p, NEW q, NEW m, m = Fine(<<p, q>>),
         \/ p = Document(300) /\ q = [type |-> ReceiptType, body |-> s]
         \/ p = [type |-> ReceiptType, body |-> s] /\ q = Document(300)
  PROVE  Found(m, s)
<1> DEFINE parts == <<p, q>>
<1>1. DOMAIN parts = {1, 2} /\ parts[1] = p /\ parts[2] = q /\ JsonType # ReceiptType
  BY DEF JsonType, ReceiptType
<1>2. m.result = "ok" /\ m.parts = parts
  BY DEF Fine
<1> HIDE DEF parts
<1>3. DOMAIN parts \subseteq Nat /\ \A j \in DOMAIN parts : ~(j < 1) /\ (j < 2 => j = 1)
  BY <1>1
<1>4. CASE p = Document(300) /\ q = [type |-> ReceiptType, body |-> s]
  <2>1. /\ 1 \in DOMAIN parts /\ parts[1].type = JsonType /\ parts[1].body = <<300>>
        /\ 2 \in DOMAIN parts /\ parts[2].type = ReceiptType /\ parts[2].body = s
    BY <1>1, <1>4 DEF Document
  <2>2. FirstOfType(parts, JsonType) = << <<300>> >>
    BY <1>3, <2>1, FirstIs
  <2>3. FirstOfType(parts, ReceiptType) = <<s>>
    <3>1. \A j \in DOMAIN parts : j < 2 => parts[j].type # ReceiptType
      BY <1>1, <1>3, <2>1
    <3>2. FirstOfType(parts, ReceiptType) = <<parts[2].body>>
      BY <1>3, <2>1, <3>1, FirstIs
    <3> QED BY <2>1, <3>2
  <2> QED BY <1>2, <2>2, <2>3 DEF Found
<1>5. CASE p = [type |-> ReceiptType, body |-> s] /\ q = Document(300)
  <2>1. /\ 1 \in DOMAIN parts /\ parts[1].type = ReceiptType /\ parts[1].body = s
        /\ 2 \in DOMAIN parts /\ parts[2].type = JsonType /\ parts[2].body = <<300>>
    BY <1>1, <1>5 DEF Document
  <2>2. FirstOfType(parts, ReceiptType) = <<s>>
    BY <1>3, <2>1, FirstIs
  <2>3. FirstOfType(parts, JsonType) = << <<300>> >>
    <3>1. \A j \in DOMAIN parts : j < 2 => parts[j].type # JsonType
      BY <1>1, <1>3, <2>1
    <3>2. FirstOfType(parts, JsonType) = <<parts[2].body>>
      BY <1>3, <2>1, <3>1, FirstIs
    <3> QED BY <2>1, <3>2
  <2> QED BY <1>2, <2>2, <2>3 DEF Found
<1> QED BY <1>4, <1>5

LEMMA FoundFour ==
  ASSUME NEW s, NEW m,
         m = Fine(<<[type |-> 0, body |-> <<>>], Document(300),
                    [type |-> ReceiptType, body |-> s], Document(301)>>)
  PROVE  Found(m, s)
<1> DEFINE O == [type |-> 0, body |-> <<>>]
           J == Document(300)
           R == [type |-> ReceiptType, body |-> s]
           K == Document(301)
           parts == <<O, J, R, K>>
<1>0. /\ O.type = 0 /\ J.type = JsonType /\ R.type = ReceiptType /\ J.body = <<300>> /\ R.body = s
      /\ JsonType # ReceiptType /\ JsonType # 0 /\ ReceiptType # 0
  BY DEF JsonType, ReceiptType, Document
<1>1. m.result = "ok" /\ m.parts = parts
  BY DEF Fine
<1> HIDE DEF O, J, R, K
<1>2. DOMAIN parts = {1, 2, 3, 4} /\ parts[1] = O /\ parts[2] = J /\ parts[3] = R
  OBVIOUS
<1> HIDE DEF parts
<1>3. /\ DOMAIN parts \subseteq Nat /\ 2 \in DOMAIN parts /\ 3 \in DOMAIN parts
      /\ \A j \in DOMAIN parts : (j < 2 => j = 1) /\ (j < 3 => j = 1 \/ j = 2)
  BY <1>2
<1>4. FirstOfType(parts, JsonType) = << <<300>> >>
  <2>1. \A j \in DOMAIN parts : j < 2 => parts[j].type # JsonType
    BY <1>0, <1>2, <1>3
  <2>2. parts[2].type = JsonType
    BY <1>0, <1>2
  <2>3. FirstOfType(parts, JsonType) = <<parts[2].body>>
    BY <1>3, <2>1, <2>2, FirstIs
  <2> QED BY <1>0, <1>2, <2>3
<1>5. FirstOfType(parts, ReceiptType) = <<s>>
  <2>1. \A j \in DOMAIN parts : j < 3 => parts[j].type # ReceiptType
    BY <1>0, <1>2, <1>3
  <2>2. parts[3].type = ReceiptType
    BY <1>0, <1>2
  <2>3. FirstOfType(parts, ReceiptType) = <<parts[3].body>>
    BY <1>3, <2>1, <2>2, FirstIs
  <2> QED BY <1>0, <1>2, <2>3
<1> QED BY <1>1, <1>4, <1>5 DEF Found

\* A good answer is read as it was built, in each of its layouts, or refused for a marker
\* in the receipt.
LEMMA GoodParsed ==
  ASSUME NEW s \in Seq(Byte), FindSubslice(s, Boundary) = NotFound, NEW parts \in GoodParts(s)
  PROVE  LET m == ParseMultipart(MultipartBody(parts), Boundary) IN
         IF FindSubslice(s, Marker) = NotFound THEN Found(m, s) ELSE m = Corrupt
<1> DEFINE J == Json(300)
           K == Json(301)
           R == ReceiptPart(s)
           O == [line |-> OtherHeader, body |-> <<>>]
           m == ParseMultipart(MultipartBody(parts), Boundary)
           nil == <<>>
           clean == FindSubslice(s, Marker) = NotFound
<1>1. parts = <<J, R>> \/ parts = <<R, J>> \/ parts = <<O, J, R, K>>
  BY DEF GoodParts
<1>2. Sendable(J) /\ Sendable(K) /\ Sendable(R) /\ Sendable(O)
  <2>1. 300 \in Nat /\ 301 \in Nat /\ 300 # ReceiptType /\ 301 # ReceiptType
    BY DEF ReceiptType
  <2> QED BY <2>1, PartsAreSendable
<1>3. /\ ReadAs(R) = [type |-> ReceiptType, body |-> s]
      /\ ReadAs(J) = [type |-> JsonType, body |-> <<300>>]
      /\ ReadAs(K) = [type |-> JsonType, body |-> <<301>>]
      /\ ReadAs(O) = [type |-> 0, body |-> <<>>]
  BY ReadAre
<1>4. Plainly(J) /\ Plainly(K) /\ Plainly(O) /\ (Plainly(R) <=> clean)
  <2>1. <<300>> \in Seq(Nat) /\ Len(<<300>>) < 4 /\ <<301>> \in Seq(Nat) /\ Len(<<301>>) < 4
        /\ <<>> \in Seq(Nat) /\ Len(<<>>) < 4
    OBVIOUS
  <2>2. J.body = <<300>> /\ K.body = <<301>> /\ R.body = s /\ O.body = <<>>
    BY DEF Json, ReceiptPart
  <2>3. FindSubslice(<<300>>, Marker) = NotFound
    BY <2>1, TooShort
  <2>4. FindSubslice(<<301>>, Marker) = NotFound
    BY <2>1, TooShort
  <2>5. FindSubslice(<<>>, Marker) = NotFound
    BY <2>1, TooShort
  <2> HIDE DEF J, K, R, O
  <2> QED BY <2>2, <2>3, <2>4, <2>5 DEF Plainly
<1> HIDE DEF J, K, R, O, clean, m, nil
<1>5. ASSUME parts = <<J, R>> PROVE (clean => Found(m, s)) /\ (~clean => m = Corrupt)
  <2>1. PICK f, c, d, e : /\ ParseMultipart(MultipartBody(<<J, R>>), Boundary) = f[c]
                          /\ Turned(f, c, d, J) /\ Turned(f, d, e, R) /\ f[e] = Fine(nil)
    BY ONLY <1>2, TwoTurned DEF nil
  <2>2. m = f[c]
    BY <1>5, <2>1 DEF m
  <2>3. ASSUME clean PROVE Found(m, s)
    <3>1. f[d] = Fine(<<ReadAs(R)>> \o nil)
      BY <1>4, <2>1, <2>3, OneTurn
    <3>2. f[c] = Fine(<<ReadAs(J)>> \o (<<ReadAs(R)>> \o nil))
      BY <1>4, <2>1, <3>1, OneTurn
    <3>3. m = Fine(<<ReadAs(J), ReadAs(R)>>)
      BY <2>2, <3>2, JoinedTuples DEF nil
    <3> QED BY <1>3, <3>3, FoundTwo DEF Document
  <2>4. ASSUME ~clean PROVE m = Corrupt
    <3>1. f[d] = Corrupt
      BY <1>4, <2>1, <2>4, OneTurn
    <3> QED BY <2>1, <2>2, <3>1, OneTurn
  <2> QED BY <2>3, <2>4
<1>6. ASSUME parts = <<R, J>> PROVE (clean => Found(m, s)) /\ (~clean => m = Corrupt)
  <2>1. PICK f, c, d, e : /\ ParseMultipart(MultipartBody(<<R, J>>), Boundary) = f[c]
                          /\ Turned(f, c, d, R) /\ Turned(f, d, e, J) /\ f[e] = Fine(nil)
    BY ONLY <1>2, TwoTurned DEF nil
  <2>2. m = f[c]
    BY <1>6, <2>1 DEF m
  <2>3. ASSUME clean PROVE Found(m, s)
    <3>1. f[d] = Fine(<<ReadAs(J)>> \o nil)
      BY <1>4, <2>1, OneTurn
    <3>2. f[c] = Fine(<<ReadAs(R)>> \o (<<ReadAs(J)>> \o nil))
      BY <1>4, <2>1, <2>3, <3>1, OneTurn
    <3>3. m = Fine(<<ReadAs(R), ReadAs(J)>>)
      BY <2>2, <3>2, JoinedTuples DEF nil
    <3> QED BY <1>3, <3>3, FoundTwo DEF Document
  <2>4. ASSUME ~clean PROVE m = Corrupt
    BY <1>4, <2>1, <2>2, <2>4, OneTurn
  <2> QED BY <2>3, <2>4
<1>7. ASSUME parts = <<O, J, R, K>> PROVE (clean => Found(m, s)) /\ (~clean => m = Corrupt)
  <2>1. PICK f, c, d, e, g, h :
            /\ ParseMultipart(MultipartBody(<<O, J, R, K>>), Boundary) = f[c]
            /\ Turned(f, c, d, O) /\ Turned(f, d, e, J) /\ Turned(f, e, g, R) /\ Turned(f, g, h, K)
            /\ f[h] = Fine(nil)
    BY ONLY <1>2, FourTurned DEF nil
  <2>2. m = f[c]
    BY <1>7, <2>1 DEF m
  <2>3. ASSUME clean PROVE Found(m, s)
    <3>1. f[g] = Fine(<<ReadAs(K)>> \o nil)
      BY <1>4, <2>1, OneTurn
    <3>2. f[e] = Fine(<<ReadAs(R)>> \o (<<ReadAs(K)>> \o nil))
      BY <1>4, <2>1, <2>3, <3>1, OneTurn
    <3>3. f[d] = Fine(<<ReadAs(J)>> \o (<<ReadAs(R)>> \o (<<ReadAs(K)>> \o nil)))
      BY <1>4, <2>1, <3>2, OneTurn
    <3>4. f[c] = Fine(<<ReadAs(O)>> \o (<<ReadAs(J)>> \o (<<ReadAs(R)>> \o (<<ReadAs(K)>> \o nil))))
      BY <1>4, <2>1, <3>3, OneTurn
    <3>5. m = Fine(<<ReadAs(O), ReadAs(J), ReadAs(R), ReadAs(K)>>)
      BY <2>2, <3>4, JoinedTuples DEF nil
    <3> QED BY <1>3, <3>5, FoundFour DEF Document
  <2>4. ASSUME ~clean PROVE m = Corrupt
    <3>1. f[e] = Corrupt
      BY <1>4, <2>1, <2>4, OneTurn
    <3>2. f[d] = Corrupt
      BY <2>1, <3>1, OneTurn
    <3> QED BY <2>1, <2>2, <3>2, OneTurn
  <2> QED BY <2>3, <2>4
<1> QED BY <1>1, <1>5, <1>6, <1>7 DEF m, clean

\* What `vi chat` makes of a good answer.
LEMMA GoodChat ==
  ASSUME NEW s \in Seq(Byte), FindSubslice(s, Boundary) = NotFound, NEW a \in GoodAnswers(s)
  PROVE  LET p == ChatAnswerParsed(a) IN
         IF FindSubslice(s, Marker) = NotFound THEN p.result = "ok" /\ p.receipt = <<s>>
         ELSE p.result = "corrupt_envelope"
<1>1. PICK parts \in GoodParts(s) : a = Mixed(200, FALSE, MultipartBody(parts))
  BY DEF GoodAnswers
<1> DEFINE m == ParseMultipart(MultipartBody(parts), Boundary)
           json == FirstOfType(m.parts, JsonType)
           receipt == FirstOfType(m.parts, ReceiptType)
<1>2. /\ a.status = 200 /\ ~a.warning /\ a.media = "multipart/mixed" /\ a.boundary = Boundary
      /\ a.body = MultipartBody(parts)
  BY <1>1 DEF Mixed
<1>3. IF FindSubslice(s, Marker) = NotFound THEN Found(m, s) ELSE m = Corrupt
  BY GoodParsed
<1>4. IsSuccess(a.status) /\ a.boundary # <<>>
  BY <1>2, BoundaryIsFresh DEF IsSuccess
<1>5. ParseChatResponse(a) =
         IF m.result # "ok" THEN Error(m.result)
         ELSE IF json = <<>> THEN Error("corrupt_envelope")
         ELSE IF receipt = <<>> THEN Error("receipt_missing")
         ELSE ChatText(json[1], receipt)
  <2>1. ParseChatResponse(a) = ParseMultipartAnswer(a)
    BY <1>2 DEF ParseChatResponse
  <2> QED BY <1>2, <1>4, <2>1, ZenonT(30) DEF ParseMultipartAnswer
<1>6. ChatAnswerParsed(a) =
         IF ParseChatResponse(a).result = "ok" /\ ParseChatResponse(a).receipt = <<>>
         THEN Error("receipt_missing") ELSE ParseChatResponse(a)
  BY <1>4, Zenon DEF ChatAnswerParsed
<1> HIDE DEF m, json, receipt
<1>7. CASE FindSubslice(s, Marker) = NotFound
  <2>1. m.result = "ok" /\ json = << <<300>> >> /\ receipt = <<s>>
    BY <1>3, <1>7 DEF Found, json, receipt
  <2>2. json # <<>> /\ receipt # <<>> /\ json[1] = <<300>>
    BY <2>1
  <2>3. ChatText(<<300>>, receipt) = Parsed("ok", 300, receipt)
    <3>1. 300 \in Completion /\ <<300>>[1] = 300
      BY DEF Completion
    <3> QED BY <3>1 DEF ChatText
  <2>4. ParseChatResponse(a) = Parsed("ok", 300, receipt)
    BY <1>5, <2>1, <2>2, <2>3
  <2>5. ChatAnswerParsed(a) = Parsed("ok", 300, receipt)
    BY <1>6, <2>2, <2>4, ParsedIs
  <2> QED BY <1>7, <2>1, <2>5, ParsedIs
<1>8. CASE FindSubslice(s, Marker) # NotFound
  <2>1. m.result = "corrupt_envelope"
    BY <1>3, <1>8 DEF Corrupt
  <2>2. ParseChatResponse(a) = Error("corrupt_envelope")
    BY <1>5, <2>1
  <2>3. ChatAnswerParsed(a) = Error("corrupt_envelope")
    BY <1>6, <2>2, ParsedIs
  <2> QED BY <1>8, <2>3, ParsedIs
<1> QED BY <1>7, <1>8

-----------------------------------------------------------------------------
\* What is read of an artifact that nothing happened to, and what becomes of one that does
\* not reach the reader.

LEMMA LaidOutRead ==
  ASSUME NEW magic, NEW h, NEW body, Bound(magic, h, body), NEW opaque \in Seq(Byte), NEW s,
         LaidOut(s, magic, body, opaque)
  PROVE  DecodeFile(magic, s) = Decoded("ok", h, opaque)
<1> DEFINE L == Len(body)
           M == Len(opaque)
           x == SubSeq(s, 14 + L + 1, 14 + L + M)
<1>1. /\ L \in Nat /\ M \in Nat /\ s \in Seq(Byte) /\ Len(s) = 14 + L + M
      /\ \A k \in 1..M : s[14 + L + k] = opaque[k]
  <2>1. L \in Nat
    BY SMTT(10), BoundBody
  <2> QED BY <2>1 DEF LaidOut
<1> HIDE DEF L, M
<1>2. SameTo(s, s, Len(s)) /\ Len(s) \in Nat /\ Len(s) >= 14 + L
  BY <1>1 DEF SameTo
<1>3. Whole(s, magic, body)
  <2>1. Len(s) >= 14 + Len(body) => Whole(s, magic, body)
    BY ONLY Bound(magic, h, body), opaque \in Seq(Byte), LaidOut(s, magic, body, opaque), <1>1, <1>2,
            StillWhole
  <2> QED BY <1>2, <2>1 DEF L
<1>4. DecodeFile(magic, s) = Decoded("ok", h, SubSeq(s, 14 + Len(body) + 1, Len(s)))
  BY ONLY Bound(magic, h, body), <1>1, <1>3, WholeRead
<1>5. x = opaque
  <2> DEFINE i == 14 + L
             j == 14 + L + M
  <2>1. i \in Nat /\ j \in Nat /\ i <= j /\ j <= Len(s) /\ j - i = M
    BY <1>1
  <2>2. x = SubSeq(s, i + 1, j)
    OBVIOUS
  <2>3. \A k \in 1..M : s[i + k] = opaque[k]
    BY <1>1
  <2> HIDE DEF i, j, x
  <2>4. x \in Seq(Byte) /\ Len(x) = j - i /\ \A k \in 1..(j - i) : x[k] = s[i + k]
    BY <1>1, <2>1, <2>2
  <2>5. opaque \in Seq(Byte) /\ Len(opaque) = M
    BY DEF M
  <2>6. Len(x) = M /\ \A k \in 1..M : x[k] = opaque[k]
    BY <2>1, <2>3, <2>4
  <2> QED BY ONLY <2>4, <2>5, <2>6
<1> QED BY <1>1, <1>4, <1>5 DEF L

\* The only ends before the reader, as long as nothing departs from the plain way.
Unwritten ==
    EncodeResult(artifact.header) # "ok" /\ outcome = EncodeResult(artifact.header) /\ file = <<>>

Unanswered == answer = NoAnswer /\ op # "keygen" /\ outcome \in {"input", "network"}

Unparsed ==
    /\ op = "chat" /\ EncodeResult(artifact.header) = "ok" /\ HoldsMarker(sent)
    /\ outcome = "corrupt_envelope" /\ file = <<>>

EndInv ==
    /\ op = "keygen" => pc \notin Sending
    /\ own /\ honest /\ op = "chat" /\ AtReader => ~HoldsMarker(sent)
    /\ own /\ honest /\ pc = "done" /\ decoded.result = "none" /\ op \in {"keygen", "chat", "audit"} =>
          Unwritten \/ Unanswered \/ Unparsed

LEMMA MarkerHeld ==
  ASSUME NEW s
  PROVE  HoldsMarker(s) <=> FindSubslice(s, Marker) # NotFound
BY DEF HoldsMarker, Marker

LEMMA EndInit == Init => EndInv
<1> SUFFICES ASSUME Init PROVE EndInv
  OBVIOUS
<1>1. pc = "encode" /\ decoded.result = "none"
  BY DEF Init, Refused, Decoded
<1> QED BY <1>1 DEF EndInv, AtReader, Sending

LEMMA EndEncode ==
  ASSUME IInv, EndInv, Encode
  PROVE  EndInv'
<1>0. /\ pc = "encode" /\ UNCHANGED <<op, artifact, honest, decoded>> /\ decoded.result = "none"
      /\ file = <<>>
  BY DEF Encode, IInv, PathInv, ReadInv, Before
<1>1. CASE EncodeResult(artifact.header) # "ok"
  <2>1. pc' = "done" /\ outcome' = EncodeResult(artifact.header) /\ UNCHANGED file
    BY <1>1 DEF Encode, Ends
  <2>2. Unwritten'
    BY <1>0, <1>1, <2>1 DEF Unwritten
  <2>3. ~AtReader' /\ pc' \notin Sending
    BY <1>0, <2>1 DEF AtReader, Sending
  <2> QED BY <2>2, <2>3 DEF EndInv
<1>2. CASE EncodeResult(artifact.header) = "ok"
  <2>1. pc' = IF op = "keygen" THEN "file" ELSE "request"
    BY <1>2 DEF Encode
  <2>2. pc' # "done" /\ (op' = "chat" => ~AtReader') /\ (op' = "keygen" => pc' \notin Sending)
    BY <1>0, <2>1 DEF AtReader, Sending
  <2> QED BY <2>2 DEF EndInv
<1> QED BY <1>1, <1>2

\* A run that has not ended and is not at the reader has nothing to show.
LEMMA EndUnderWay ==
  ASSUME EndInv, UNCHANGED <<op, decoded>>, decoded.result = "none", pc \in Sending, pc' \in Sending
  PROVE  EndInv'
<1>1. ~AtReader' /\ pc' # "done" /\ op' # "keygen"
  BY DEF AtReader, Sending, EndInv
<1> QED BY <1>1 DEF EndInv

LEMMA EndFails ==
  ASSUME IInv, EndInv, UNCHANGED <<op, answer, decoded>>, decoded.result = "none",
         pc \in {"request", "asked"}, pc' = "done", outcome' \in {"input", "network"}
  PROVE  EndInv'
<1>1. answer = NoAnswer /\ op # "keygen"
  BY DEF IInv, PathInv, EndInv, Sending
<1>2. ~AtReader' /\ pc' \notin Sending
  BY DEF AtReader, Sending
<1>3. Unanswered'
  BY <1>1 DEF Unanswered
<1> QED BY <1>2, <1>3 DEF EndInv

\* An operation that has no reader.
LEMMA EndNoReader ==
  ASSUME UNCHANGED <<op, decoded>>, decoded.result = "none", pc' = "done",
         op \notin {"keygen", "chat", "audit"}
  PROVE  EndInv'
BY DEF EndInv, AtReader, Sending

LEMMA EndReceiveChat ==
  ASSUME IInv, WayInv, EndInv, ReceiveChat
  PROVE  EndInv'
<1>0. /\ pc = "answered" /\ op = "chat"
      /\ UNCHANGED <<op, artifact, sent, own, answer, honest, decoded>>
      /\ decoded.result = "none" /\ file = <<>> /\ EncodeResult(artifact.header) = "ok"
      /\ artifact \in Artifact /\ sent \in Files(artifact)
  BY DEF ReceiveChat, IInv, PathInv, ReadInv, Before, Sending
<1> DEFINE parsed == ChatAnswerParsed(answer)
<1>1. \/ parsed.result = "ok" /\ pc' = "file"
      \/ parsed.result # "ok" /\ pc' = "done" /\ outcome' = parsed.result /\ UNCHANGED file
  BY DEF ReceiveChat, Ends
<1>2. ASSUME honest
      PROVE  IF HoldsMarker(sent) THEN parsed.result = "corrupt_envelope" ELSE parsed.result = "ok"
  <2>1. answer \in GoodAnswers(sent)
    BY <1>0, <1>2 DEF IInv, PathInv, GoodAnswersTo
  <2>2. sent \in Seq(Byte) /\ FindSubslice(sent, Boundary) = NotFound
    BY <1>0, FilesAreBytes, BoundaryIsFresh
  <2>3. LET p == ChatAnswerParsed(answer) IN
        IF FindSubslice(sent, Marker) = NotFound THEN p.result = "ok" /\ p.receipt = <<sent>>
        ELSE p.result = "corrupt_envelope"
    BY ONLY <2>1, <2>2, GoodChat
  <2> QED BY <2>3, MarkerHeld
<1> HIDE DEF parsed
<1>3. ASSUME own, honest, pc' = "file" PROVE ~HoldsMarker(sent)
  BY <1>1, <1>2, <1>3
<1>4. ASSUME own, honest, pc' = "done" PROVE Unparsed'
  <2>1. HoldsMarker(sent) /\ outcome' = "corrupt_envelope" /\ file' = <<>>
    BY <1>0, <1>1, <1>2, <1>4
  <2> QED BY <1>0, <2>1 DEF Unparsed, HoldsMarker
<1>5. (pc' = "file" \/ pc' = "done") /\ (AtReader' => pc' = "file") /\ op' # "keygen"
  BY <1>0, <1>1 DEF AtReader
<1>6. ASSUME (own)', (honest)', AtReader' PROVE ~HoldsMarker(sent)'
  <2>1. own /\ honest /\ pc' = "file"
    BY <1>0, <1>5, <1>6
  <2>2. ~HoldsMarker(sent)
    BY <1>3, <2>1
  <2> QED BY <1>0, <2>2 DEF HoldsMarker
<1>7. ASSUME (own)', (honest)', pc' = "done" PROVE Unparsed'
  BY <1>0, <1>4, <1>7
<1> QED BY <1>5, <1>6, <1>7 DEF EndInv

LEMMA EndReceiveAudit ==
  ASSUME IInv, EndInv, ReceiveAudit
  PROVE  EndInv'
<1>0. /\ pc = "answered" /\ op = "audit" /\ UNCHANGED <<op, own, answer, honest, decoded>>
      /\ decoded.result = "none"
  BY DEF ReceiveAudit, IInv, ReadInv, Sending, Before
<1>1. ASSUME honest PROVE pc' = "file"
  <2>1. answer = Opening(200, sent)
    BY <1>0, <1>1 DEF IInv, PathInv, GoodAnswersTo
  <2>2. IsSuccess(answer.status)
    BY <2>1 DEF Opening, Plain, IsSuccess
  <2> QED BY <2>2 DEF ReceiveAudit
<1> QED BY <1>0, <1>1 DEF EndInv

LEMMA EndStep == IInv /\ WayInv /\ EndInv /\ [Next]_vars => EndInv'
<1> SUFFICES ASSUME IInv, WayInv, EndInv, [Next]_vars PROVE EndInv'
  OBVIOUS
<1>1. CASE Encode
  BY <1>1, EndEncode
<1>2. CASE Request \/ NetworkFails \/ ProviderAnswers
  <2>1. /\ pc \in {"request", "asked"} /\ pc \in Sending /\ UNCHANGED <<op, decoded>>
        /\ \/ pc' \in Sending
           \/ pc' = "done" /\ outcome' \in {"input", "network"} /\ answer' = answer
    BY <1>2 DEF Request, NetworkFails, ProviderAnswers, Ends, Sending
  <2>2. decoded.result = "none"
    BY <2>1 DEF IInv, ReadInv, Sending
  <2> QED BY <2>1, <2>2, EndUnderWay, EndFails
<1>3. CASE ReceiveChat
  BY <1>3, EndReceiveChat
<1>4. CASE ReceiveAudit
  BY <1>4, EndReceiveAudit
<1>5. CASE ReceiveText \/ ReceiveHealth
  <2>1. /\ pc = "answered" /\ pc' = "done" /\ UNCHANGED <<op, decoded>>
        /\ op \notin {"keygen", "chat", "audit"}
    BY <1>5 DEF ReceiveText, ReceiveHealth, Ends
  <2>2. decoded.result = "none"
    BY <2>1 DEF IInv, ReadInv
  <2> QED BY <2>1, <2>2, EndNoReader
<1>6. CASE (\E i \in DOMAIN file, v \in FlipValue : Flip(i, v)) \/ (\E n \in 0..Len(file) : Cut(n))
  <2>1. pc = "file" /\ UNCHANGED <<op, sent, own, honest, decoded, pc>>
    BY <1>6 DEF Flip, Cut
  <2> QED BY <2>1 DEF EndInv, AtReader, HoldsMarker
<1>7. CASE Load
  <2>1. /\ pc = "file" /\ pc' = "done" /\ UNCHANGED <<op, artifact, sent, own, honest>>
        /\ decoded' = DecodeFile(artifact.magic, file) /\ artifact \in Artifact
    BY <1>7 DEF Load, Ends, IInv, PathInv
  <2>2. decoded'.result # "none"
    <3>1. decoded'.result \in BodyResults
      BY <2>1, DeliveryConstants, DecodedResult
    <3> QED BY <3>1 DEF BodyResults
  <2>3. (decoded').result # "none" /\ pc' \notin Sending
    BY <2>1, <2>2 DEF Sending
  <2> QED BY <2>1, <2>3 DEF EndInv, AtReader, HoldsMarker
<1>8. CASE UNCHANGED vars
  BY <1>8 DEF vars, damage, EndInv, AtReader, Unwritten, Unanswered, Unparsed, HoldsMarker
<1> QED BY <1>1, <1>2, <1>3, <1>4, <1>5, <1>6, <1>7, <1>8 DEF Next

LEMMA EndHolds == Spec => [](IInv /\ WayInv /\ EndInv)
BY InitFacts, StepFacts, WayInit, WayStep, EndInit, EndStep, PTL DEF Spec

\* An artifact to which nothing happens is read as it was bound, field by field, for every
\* artifact, boundary and layout of the answer; the one exception is a receipt that holds
\* CR LF - -, which `vi chat` refuses whole.
THEOREM DeliveredIsAsBound == Spec => []DeliveredAsBound
<1>1. IInv /\ WayInv /\ EndInv => DeliveredAsBound
  <2> SUFFICES ASSUME IInv, WayInv, EndInv, pc = "done", Faults = 0, op \in {"keygen", "chat", "audit"},
                      ~(answer = NoAnswer /\ op # "keygen" /\ outcome \in {"input", "network"})
               PROVE  IF EncodeResult(artifact.header) # "ok"
                      THEN outcome = EncodeResult(artifact.header) /\ file = <<>>
                      ELSE IF op = "chat" /\ HoldsMarker(sent)
                      THEN outcome = "corrupt_envelope" /\ file = <<>>
                      ELSE decoded = Decoded("ok", artifact.header, artifact.opaque)
    BY DEF DeliveredAsBound
  <2>1. own /\ honest /\ ~cut /\ flips = 0
    BY DEF IInv, FaultInv, Faults, One
  <2>2. CASE decoded.result = "none"
    <3>1. Unwritten \/ Unparsed
      BY <2>1, <2>2 DEF EndInv, Unanswered
    <3> QED BY <3>1 DEF Unwritten, Unparsed
  <2>3. CASE decoded.result # "none"
    <3> DEFINE magic == artifact.magic
               h == artifact.header
               body == Body(magic, h)
               opaque == artifact.opaque
    <3>1. /\ artifact \in Artifact /\ EncodeResult(h) = "ok" /\ sent = EncodeFile(magic, h, opaque)
          /\ LeftOf(file, sent, cut, flips) /\ decoded = DecodeFile(magic, file)
      BY <2>1, <2>3 DEF IInv, PathInv, ReadInv, WayInv, AtReader
    <3>2. opaque \in Seq(Byte) /\ Bound(magic, h, body) /\ LaidOut(sent, magic, body, opaque)
      BY <3>1, OwnLaidOut
    <3> HIDE DEF magic, h, body, opaque
    <3>3. DecodeFile(magic, sent) = Decoded("ok", h, opaque)
      BY ONLY <3>2, LaidOutRead
    <3>4. file = sent
      BY <2>1, <3>1 DEF LeftOf
    <3>5. decoded = Decoded("ok", h, opaque) /\ EncodeResult(h) = "ok"
      BY <3>1, <3>3, <3>4
    <3>6. ~(op = "chat" /\ HoldsMarker(sent))
      BY <2>1, <2>3 DEF EndInv, AtReader
    <3> QED BY <3>5, <3>6 DEF h, opaque
  <2> QED BY <2>2, <2>3
<1> QED BY <1>1, EndHolds, PTL
=============================================================================
