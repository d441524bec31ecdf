----------------------------- MODULE WireProofs -----------------------------
(***************************************************************************)
(* What the helpers of Wire do to every number and every string.           *)
(***************************************************************************)
EXTENDS Wire, SequencesExt, SequenceTheorems, WellFoundedInduction, TLAPS

(* A number written by addShort or htons is read back as itself by ntohs   *)
(* and readUnsignedShort, up to its 16 bits: the size of a listed file is  *)
(* lost above 65535 (server.c:67).                                         *)
THEOREM ShortRoundTrip ==
  ASSUME NEW n \in Nat
  PROVE  /\ ReadShort(AddShort(n)) = n % 65536
         /\ WriteBytes(n) = AddShort(n)
<1>1. AddShort(n)[1] = (n \div 256) % 256 /\ AddShort(n)[2] = n % 256
  BY DEF AddShort
<1>2. 256 * ((n \div 256) % 256) + (n % 256) = n % 65536
  <2> DEFINE q == n \div 256
             t == q % 256
             p == q \div 256
             r == n % 256
  <2>1. q \in Nat /\ r \in 0..255 /\ n = 256 * q + r
    OBVIOUS
  <2>2. p \in Nat /\ t \in 0..255 /\ q = 256 * p + t
    BY <2>1
  <2> HIDE DEF q, t, p, r
  <2>3. 256 * t + r \in Nat /\ 256 * t + r < 65536 /\ n = 65536 * p + (256 * t + r)
    BY <2>1, <2>2
  <2>4. n % 65536 = 256 * t + r
    BY <2>2, <2>3, SMT
  <2>5. QED
    BY <2>4 DEF q, t, p, r
<1>3. QED
  BY <1>1, <1>2 DEF ReadShort, AddShort, WriteBytes

(* eatByte, whose calls the authors replaced by ntohs (server.c:95,        *)
(* client.c:76), gives the number that was written exactly when its low    *)
(* byte is below 128 or its high byte is all ones.                         *)
THEOREM EatByteAgrees ==
  ASSUME NEW n \in Nat, n < 65536
  PROVE  EatByte(AddShort(n)) = n <=> (n % 256 < 128 \/ n \div 256 = 255)
<1> DEFINE hi == n \div 256
           lo == n % 256
<1>1. hi \in 0..255 /\ lo \in 0..255 /\ n = 256 * hi + lo
  BY SMT
<1>2. AddShort(n)[1] = hi /\ AddShort(n)[2] = lo
  BY <1>1 DEF AddShort
<1>3. CASE lo < 128
  <2>1. EatByte(AddShort(n)) = (256 * Signed(hi) + lo) % 65536
    BY <1>1, <1>2, <1>3 DEF EatByte, Signed
  <2>2. CASE hi < 128
    <3>1. 256 * Signed(hi) + lo = n /\ n < 65536
      BY <1>1, <2>2 DEF Signed
    <3>2. QED
      BY <1>3, <2>1, <3>1
  <2>3. CASE hi >= 128
    <3>1. 256 * Signed(hi) + lo = n - 65536 /\ n < 65536
      BY <1>1, <2>3 DEF Signed
    <3>2. (n - 65536) % 65536 = n
      BY SMT, <3>1
    <3>3. QED
      BY <1>3, <2>1, <3>1, <3>2
  <2>4. QED
    BY <1>1, <2>2, <2>3
<1>4. CASE lo >= 128
  <2>1. EatByte(AddShort(n)) = (lo - 256) % 65536
    BY <1>1, <1>2, <1>4 DEF EatByte, Signed
  <2>2. (lo - 256) % 65536 = 65280 + lo
    BY <1>1, <1>4
  <2>3. QED
    BY <1>1, <1>4, <2>1, <2>2
<1>5. QED
  BY <1>1, <1>3, <1>4

LEMMA ByteIs == \A x : x \in Byte <=> x \in Nat /\ x <= 255
<1>1. UCHAR_MAX = 255
  BY DEF UCHAR_MAX
<1>2. UCHAR_MAX \in Nat
  BY <1>1
<1>3. \A x : x \in Byte <=> x \in Nat /\ x <= UCHAR_MAX
  BY <1>2 DEF Byte
<1>4. QED
  BY <1>1, <1>3

LEMMA ShortIs == \A x : x \in Short <=> x \in Nat /\ x <= 65535
<1>1. USHRT_MAX = 65535
  BY DEF USHRT_MAX
<1>2. USHRT_MAX \in Nat
  BY <1>1
<1>3. \A x : x \in Short <=> x \in Nat /\ x <= USHRT_MAX
  BY <1>2 DEF Short
<1>4. QED
  BY <1>1, <1>3

(* A string without a NUL, written by addString or copy in front of        *)
(* anything, is what eatString and readString give back, and they stop     *)
(* where what follows begins.                                              *)
THEOREM StringRoundTrip ==
  ASSUME NEW s \in Seq(Byte \ {0}), NEW more \in Seq(Byte)
  PROVE  EatString(WriteString(s) \o more) = [str |-> s, rest |-> more]
<1> DEFINE b == WriteString(s) \o more
<1>1. s \in Seq(Byte) /\ Len(s) \in Nat /\ \A i \in 1..Len(s) : s[i] # 0
  OBVIOUS
<1>2. /\ b \in Seq(Byte) /\ Len(b) = Len(s) + 1 + Len(more)
      /\ \A i \in 1..Len(s) : b[i] = s[i]
      /\ b[Len(s) + 1] = 0
      /\ \A i \in 1..Len(more) : b[Len(s) + 1 + i] = more[i]
  <2>1. /\ WriteString(s) \in Seq(Byte) /\ Len(WriteString(s)) = Len(s) + 1
        /\ \A i \in 1..Len(s) : WriteString(s)[i] = s[i]
        /\ WriteString(s)[Len(s) + 1] = 0
    <3>1. 0 \in Byte
      BY ByteIs
    <3>2. QED
      BY <1>1, <3>1 DEF WriteString
  <2> HIDE DEF b
  <2>2. b = WriteString(s) \o more
    BY DEF b
  <2>3. /\ b \in Seq(Byte) /\ Len(b) = Len(WriteString(s)) + Len(more)
        /\ \A i \in 1..Len(b) : b[i] = IF i <= Len(WriteString(s)) THEN WriteString(s)[i]
                                      ELSE more[i - Len(WriteString(s))]
    <3>1. WriteString(s) \in Seq(Byte)
      BY <2>1
    <3> HIDE DEF Byte
    <3>2. QED
      BY <2>2, <3>1, ConcatProperties
  <2>4. Len(more) \in Nat /\ \A i \in 1..Len(more) :
          /\ Len(s) + 1 + i \in 1..Len(b)
          /\ ~ (Len(s) + 1 + i <= Len(WriteString(s)))
          /\ Len(s) + 1 + i - Len(WriteString(s)) = i
    BY <1>1, <2>1, <2>3
  <2>5. \A i \in 1..(Len(s) + 1) : i \in 1..Len(b) /\ i <= Len(WriteString(s))
    BY <1>1, <2>1, <2>3, <2>4
  <2>6. QED
    BY <1>1, <2>1, <2>3, <2>4, <2>5
<1> HIDE DEF b
<1>3. FirstNul(b) = Len(s) + 1
  <2>1. Len(s) + 1 \in 1..Len(b)
    BY <1>1, <1>2
  <2>2. b[Len(s) + 1] = 0 /\ \A j \in 1..(Len(s) + 1 - 1) : b[j] # 0
    BY <1>1, <1>2
  <2>3. \A i \in 1..Len(b) : (b[i] = 0 /\ \A j \in 1..(i - 1) : b[j] # 0) => i = Len(s) + 1
    <3>1. SUFFICES ASSUME NEW i \in 1..Len(b), b[i] = 0, \A j \in 1..(i - 1) : b[j] # 0
                   PROVE  i = Len(s) + 1
      OBVIOUS
    <3>2. ~ (i < Len(s) + 1)
      BY <1>1, <2>2, <3>1
    <3>3. ~ (i > Len(s) + 1)
      BY <1>1, <2>2, <3>1
    <3>4. QED
      BY <1>1, <3>2, <3>3
  <2>4. QED
    BY <2>1, <2>2, <2>3 DEF FirstNul
<1>4. SubSeq(b, 1, FirstNul(b) - 1) = s
  BY <1>1, <1>2, <1>3
<1>5. SubSeq(b, FirstNul(b) + 1, Len(b)) = more
  <2> DEFINE r == SubSeq(b, Len(s) + 2, Len(b))
  <2>1. \A i \in (Len(s) + 2)..Len(b) : b[i] \in Byte
    BY <1>1, <1>2
  <2>2. r \in Seq(Byte) /\ Len(r) = Len(more)
        /\ \A i \in 1..Len(more) : r[i] = b[Len(s) + 2 + i - 1]
    BY <1>1, <1>2, <2>1, SubSeqProperties
  <2>3. \A i \in 1..Len(more) : r[i] = more[i]
    BY <1>1, <1>2, <2>2
  <2>4. r = more
    BY <2>2, <2>3, SeqEqual
  <2>5. QED
    BY <1>1, <1>3, <2>4
<1>6. QED
  BY <1>4, <1>5 DEF EatString, b

LEMMA ShortBytes ==
  ASSUME NEW n \in Nat
  PROVE  AddShort(n) \in Seq(Byte) /\ Len(AddShort(n)) = 2
         /\ ReadShort(AddShort(n)) = n % 65536 /\ n % 65536 \in Short
<1>1. (n \div 256) % 256 \in Byte /\ n % 256 \in Byte
  <2>1. /\ (n \div 256) % 256 \in Nat /\ (n \div 256) % 256 <= 255
        /\ n % 256 \in Nat /\ n % 256 <= 255
    BY SMT
  <2>2. QED
    BY <2>1, ByteIs
<1>2. AddShort(n) \in Seq(Byte) /\ Len(AddShort(n)) = 2
  BY <1>1 DEF AddShort
<1>3. n % 65536 \in Short
  <2>1. n % 65536 \in Nat /\ n % 65536 <= 65535
    BY SMT
  <2>2. QED
    BY <2>1, ShortIs
<1>4. QED
  BY <1>2, <1>3, ShortRoundTrip

LEMMA ShortRange ==
  ASSUME NEW b, b[1] \in Byte, b[2] \in Byte
  PROVE  ReadShort(b) \in Short
<1>1. b[1] \in Nat /\ b[1] <= 255 /\ b[2] \in Nat /\ b[2] <= 255
  BY ByteIs
<1> DEFINE x == b[1]
           y == b[2]
<1>2. 256 * x + y \in Nat /\ 256 * x + y <= 65535
  <2>1. x \in Nat /\ x <= 255 /\ y \in Nat /\ y <= 255
    BY <1>1
  <2> HIDE DEF x, y
  <2>2. QED
    BY <2>1
<1>3. QED
  BY <1>2, ShortIs DEF ReadShort

LEMMA StringBytes ==
  ASSUME NEW s \in Seq(Byte \ {0})
  PROVE  /\ WriteString(s) \in Seq(Byte) /\ Len(WriteString(s)) = Len(s) + 1
         /\ WriteString(s) = Copy(s).bytes
<1>1. s \in Seq(Byte) /\ 0 \in Byte
  BY ByteIs
<1>2. QED
  BY <1>1, AppendProperties DEF WriteString, Copy

(* The blocks announced for a file hold it, the last one is not empty, and *)
(* for a file the controller lets through their number stays below the     *)
(* 32768 at which the short that counts them would turn negative           *)
(* (uploadFile, MAX_BLOCK_NUMBER).                                         *)
THEOREM BlocksFit ==
  ASSUME NEW size \in Nat, size <= FILE_MAX_SIZE
  PROVE  /\ NumberBlock(size) \in Nat /\ NumberBlock(size) <= 5120
         /\ NumberBlock(size) * MAX_DATA_BLOCK_SIZE >= size
         /\ size > 0 => (NumberBlock(size) - 1) * MAX_DATA_BLOCK_SIZE < size
<1> DEFINE q == size \div 1024
           r == size % 1024
<1>1. size \in Nat /\ size <= 5242880
  BY SMT DEF FILE_MAX_SIZE, MAX_DATA_BLOCK_SIZE
<1>2. q \in Nat /\ r \in 0..1023 /\ size = 1024 * q + r
  BY SMT, <1>1
<1>3. NumberBlock(size) = IF r = 0 THEN q ELSE q + 1
  BY SMT DEF NumberBlock, MAX_DATA_BLOCK_SIZE
<1> HIDE DEF q, r
<1>4. QED
  <2>1. NumberBlock(size) \in Nat /\ NumberBlock(size) <= 5120
    BY SMT, <1>1, <1>2, <1>3
  <2>2. /\ NumberBlock(size) * 1024 >= size
        /\ size > 0 => (NumberBlock(size) - 1) * 1024 < size
    BY SMT, <1>1, <1>2, <1>3
  <2>3. QED
    BY SMT, <2>1, <2>2 DEF MAX_DATA_BLOCK_SIZE

(* What sizeToH shows is less than one unit below the size, and for a size *)
(* above a unit never zero: the division is one of integers, so the digit  *)
(* after the point is always 0.                                            *)
THEOREM SizeRounded ==
  ASSUME NEW size \in Nat
  PROVE  LET h == SizeToH(size) IN
           /\ h.s * h.unit <= size /\ size < (h.s + 1) * h.unit
           /\ size > 0 => h.s > 0
<1>1. Unit(size) \in {1, 1000, 1000000, 1000000000} /\ (size > 0 => size >= Unit(size))
  BY SMT DEF Unit
<1>2. ASSUME NEW d \in {1, 1000, 1000000, 1000000000}
      PROVE  /\ (size \div d) * d <= size /\ size < (size \div d + 1) * d
             /\ size >= d => size \div d > 0
  <2>1. CASE d = 1
    BY SMT, <2>1
  <2>2. CASE d = 1000
    BY SMT, <2>2
  <2>3. CASE d = 1000000
    BY SMT, <2>3
  <2>4. CASE d = 1000000000
    BY SMT, <2>4
  <2>5. QED
    BY SMT, <1>2, <2>1, <2>2, <2>3, <2>4
<1>3. QED
  BY SMT, <1>1, <1>2 DEF SizeToH

-----------------------------------------------------------------------------
(* Induction over numbers, as a fact about sets.                           *)

LEMMA Least ==
  ASSUME NEW T, T \subseteq Nat, T # {}
  PROVE  \E m \in T : \A k \in T : m <= k
<1> DEFINE R == {ss \in Nat \X Nat : ss[1] < ss[2]}
<1>1. IsWellFoundedOn(R, Nat)
  BY NatLessThanWellFounded DEF OpToRel
<1>2. \A k, m \in Nat : k < m => <<k, m>> \in R
  OBVIOUS
<1> HIDE DEF R
<1>3. PICK m \in T : \A k \in T : ~ (<<k, m>> \in R)
  BY <1>1, WFMin
<1>4. \A k \in T : m <= k
  <2>1. TAKE k \in T
  <2>2. k \in Nat /\ m \in Nat /\ ~ (k < m)
    BY <1>2, <1>3
  <2>3. QED
    BY <2>2
<1>5. QED
  BY <1>4

LEMMA UpTo ==
  ASSUME NEW n \in Nat, NEW S, 0 \in S,
         \A k \in 0..n : k < n /\ k \in S => k + 1 \in S
  PROVE  \A k \in 0..n : k \in S
<1> DEFINE T == {k \in 0..n : k \notin S}
<1> SUFFICES ASSUME T # {} PROVE FALSE
  OBVIOUS
<1>1. T \subseteq Nat
  OBVIOUS
<1>2. PICK m \in T : \A k \in T : m <= k
  <2> HIDE DEF T
  <2>1. QED
    BY <1>1, Least
<1>3. m \in 0..n /\ m \notin S /\ m # 0
  OBVIOUS
<1>4. m - 1 \in 0..n /\ m - 1 < n /\ m - 1 + 1 = m
  BY <1>3
<1>5. m - 1 \in S
  <2>1. m - 1 \notin T
    BY <1>2, <1>3
  <2>2. QED
    BY <1>4, <2>1
<1>6. QED
  BY <1>3, <1>4, <1>5

-----------------------------------------------------------------------------
(* FlattenSeq puts parts together one after the other.  Runs(F, parts, B)  *)
(* says that F[i] is what the first i parts come to.                       *)
Runs(F, parts, B) ==
  /\ Len(parts) \in Nat /\ \A i \in 1..Len(parts) : parts[i] \in Seq(B)
  /\ F \in [0..Len(parts) -> Seq(B)]
  /\ F[0] = <<>>
  /\ \A i \in 1..Len(parts) : F[i] = F[i - 1] \o parts[i]

LEMMA FlattenRuns ==
  ASSUME NEW B, NEW parts \in Seq(Seq(B))
  PROVE  \E F : Runs(F, parts, B) /\ FlattenSeq(parts) = F[Len(parts)]
<1> DEFINE n == Len(parts)
           f == CHOOSE g : g = [i \in 1..n |-> IF i = 1 THEN parts[i] ELSE g[i - 1] \o parts[i]]
<1>0. n \in Nat /\ \A i \in 1..n : parts[i] \in Seq(B)
  OBVIOUS
<1>1. FlattenSeq(parts) = IF n = 0 THEN parts ELSE f[n]
  BY DEF FlattenSeq
<1> HIDE DEF n
<1> DEFINE Step(g, i) == IF i = 1 THEN parts[i] ELSE g[i - 1] \o parts[i]
           S == {k \in Nat : \E g : g = [i \in 1..k |-> Step(g, i)]}
<1>2. n \in S
  <2>1. 0 \in S
    <3>1. [i \in 1..0 |-> Step(<<>>, i)] = [i \in 1..0 |-> Step([j \in 1..0 |-> Step(<<>>, j)], i)]
      OBVIOUS
    <3>2. QED
      BY <3>1
  <2>2. ASSUME NEW k \in 0..n, k < n, k \in S
        PROVE  k + 1 \in S
    <3>1. PICK g : g = [i \in 1..k |-> Step(g, i)]
      BY <2>2
    <3> DEFINE h == [i \in 1..(k + 1) |-> IF i <= k THEN g[i] ELSE Step(g, i)]
    <3>2. \A i \in 1..(k + 1) : h[i] = Step(h, i)
      <4>1. TAKE i \in 1..(k + 1)
      <4>2. \A j \in 1..k : j \in 1..(k + 1) /\ h[j] = g[j]
        BY <1>0
      <4>3. i = 1 \/ i - 1 \in 1..k
        BY <1>0
      <4>4. Step(h, i) = Step(g, i)
        <5> HIDE DEF h
        <5>1. QED
          BY <4>2, <4>3
      <4>5. i <= k => i \in 1..k
        BY <1>0
      <4>6. i <= k => g[i] = Step(g, i)
        <5> HIDE DEF Step
        <5>1. QED
          BY <3>1, <4>5
      <4>7. h[i] = IF i <= k THEN g[i] ELSE Step(g, i)
        OBVIOUS
      <4> HIDE DEF h, Step
      <4>8. QED
        BY <4>4, <4>6, <4>7
    <3>3. h = [i \in 1..(k + 1) |-> Step(h, i)]
      BY <3>2
    <3>4. k + 1 \in Nat
      BY <1>0
    <3>5. QED
      BY <3>3, <3>4
  <2> HIDE DEF S
  <2>3. \A k \in 0..n : k \in S
    BY <1>0, <2>1, <2>2, UpTo
  <2>4. QED
    BY <1>0, <2>3
<1>3. f = [i \in 1..n |-> Step(f, i)]
  BY <1>2
<1> HIDE DEF f
<1>4. \A i \in 1..n : f[i] = IF i = 1 THEN parts[i] ELSE f[i - 1] \o parts[i]
  BY <1>3
<1> HIDE DEF Step
<1> DEFINE F == [i \in 0..n |-> IF i = 0 THEN <<>> ELSE f[i]]
<1>5. \A i \in 0..n : F[i] \in Seq(B)
  <2> DEFINE T == {i \in 0..n : F[i] \in Seq(B)}
  <2>1. 0 \in T
    BY <1>0
  <2>2. ASSUME NEW k \in 0..n, k < n, k \in T
        PROVE  k + 1 \in T
    <3>1. k + 1 \in 1..n /\ parts[k + 1] \in Seq(B) /\ k + 1 - 1 = k
      BY <1>0, <2>2
    <3>2. F[k + 1] = f[k + 1]
      BY <3>1
    <3>3. CASE k = 0
      BY <1>4, <3>1, <3>2, <3>3
    <3>4. CASE k # 0
      <4>1. f[k] \in Seq(B)
        BY <2>2, <3>4
      <4>2. k + 1 # 1
        BY <1>0, <3>4
      <4>3. f[k + 1] = f[k] \o parts[k + 1]
        <5> DEFINE i == k + 1
        <5>1. i \in 1..n /\ i # 1 /\ i - 1 = k
          BY <3>1, <4>2
        <5> HIDE DEF i
        <5>2. f[i] = f[i - 1] \o parts[i]
          BY <1>4, <5>1
        <5>3. QED
          BY <5>1, <5>2 DEF i
      <4>4. F[k + 1] \in Seq(B) /\ k + 1 \in 0..n
        <5>1. F[k + 1] = f[k] \o parts[k + 1]
          BY <3>2, <4>3
        <5> HIDE DEF F
        <5>2. QED
          BY <1>0, <3>1, <4>1, <5>1
      <4>5. QED
        BY <4>4
    <3>5. QED
      BY <3>3, <3>4
  <2> HIDE DEF T
  <2>3. \A k \in 0..n : k \in T
    BY <1>0, <2>1, <2>2, UpTo
  <2>4. QED
    BY <2>3 DEF T
<1>6. \A i \in 1..n : F[i] = F[i - 1] \o parts[i]
  <2>1. TAKE i \in 1..n
  <2>2. i \in 0..n /\ i - 1 \in 0..n /\ F[i] = f[i]
    BY <1>0
  <2>3. CASE i = 1
    <3>1. F[i - 1] = <<>> /\ f[i] = parts[i] /\ parts[i] \in Seq(B)
      BY <1>0, <1>4, <2>3
    <3>2. QED
      BY <2>2, <3>1, ConcatEmptySeq
  <2>4. CASE i # 1
    <3>1. F[i - 1] = f[i - 1]
      BY <1>0, <2>2, <2>4
    <3>2. f[i] = f[i - 1] \o parts[i]
      BY <1>4, <2>4
    <3>3. QED
      BY <2>2, <3>1, <3>2
  <2>5. QED
    BY <2>3, <2>4
<1>7. F[0] = <<>> /\ (n = 0 => parts = <<>>) /\ n \in 0..n
  BY <1>0 DEF n
<1>8. Runs(F, parts, B)
  <2>1. F \in [0..n -> Seq(B)]
    BY <1>5
  <2> HIDE DEF F
  <2>2. QED
    BY <1>0, <1>6, <1>7, <2>1 DEF Runs, n
<1>9. FlattenSeq(parts) = F[n]
  BY <1>0, <1>1, <1>7
<1> HIDE DEF F
<1>10. QED
  BY <1>8, <1>9 DEF n


LEMMA ConcatBegins ==
  ASSUME NEW B, NEW s \in Seq(B), NEW t \in Seq(B)
  PROVE  /\ Len(s) \in Nat /\ Len(t) \in Nat
         /\ s \o t \in Seq(B) /\ Len(s \o t) = Len(s) + Len(t)
         /\ \A m \in 1..Len(s) : (s \o t)[m] = s[m]
  OBVIOUS

(* What the first parts come to begins what all of them do.                *)
LEMMA RunsGrow ==
  ASSUME NEW B, NEW parts, NEW F, Runs(F, parts, B)
  PROVE  \A i, j \in 0..Len(parts) : i <= j =>
           /\ Len(F[i]) <= Len(F[j])
           /\ \A m \in 1..Len(F[i]) : F[j][m] = F[i][m]
<1> DEFINE n == Len(parts)
           Begins(i, j) == /\ Len(F[i]) <= Len(F[j])
                           /\ \A m \in 1..Len(F[i]) : F[j][m] = F[i][m]
<1>1. n \in Nat /\ (\A i \in 0..n : F[i] \in Seq(B)) /\ \A i \in 1..n : parts[i] \in Seq(B)
  BY DEF Runs
<1>2. \A i \in 1..n : F[i] = F[i - 1] \o parts[i]
  BY DEF Runs
<1> HIDE DEF n
<1>3. ASSUME NEW i \in 0..n
      PROVE  \A j \in 0..n : i <= j => Begins(i, j)
  <2> DEFINE S == {j \in 0..n : i <= j => Begins(i, j)}
  <2>0. Len(F[i]) \in Nat
    BY <1>1
  <2>1. 0 \in S
    BY <1>1, <2>0
  <2>2. ASSUME NEW k \in 0..n, k < n, k \in S
        PROVE  k + 1 \in S
    <3> DEFINE j == k + 1
    <3>1. j \in 1..n /\ j \in 0..n /\ j - 1 = k /\ (i <= j => i <= k \/ i = j)
      BY <1>1, <2>2
    <3> HIDE DEF j
    <3>2. F[j] = F[k] \o parts[j] /\ F[k] \in Seq(B) /\ parts[j] \in Seq(B)
      BY <1>1, <1>2, <3>1
    <3>3. /\ Len(F[j]) = Len(F[k]) + Len(parts[j])
          /\ Len(F[k]) \in Nat /\ Len(parts[j]) \in Nat
          /\ \A m \in 1..Len(F[k]) : F[j][m] = F[k][m]
      <4> DEFINE f == F[k]
                 p == parts[j]
      <4>1. F[j] = f \o p /\ f \in Seq(B) /\ p \in Seq(B)
        BY <3>2
      <4> HIDE DEF f, p
      <4>2. /\ Len(f) \in Nat /\ Len(p) \in Nat /\ Len(f \o p) = Len(f) + Len(p)
            /\ \A m \in 1..Len(f) : (f \o p)[m] = f[m]
        BY <4>1, ConcatBegins
      <4>3. QED
        BY <4>1, <4>2 DEF f, p
    <3>4. CASE i <= k
      <4>1. Begins(i, k)
        BY <2>2, <3>4
      <4>2. Begins(i, j)
        <5>1. Len(F[i]) <= Len(F[k]) /\ \A m \in 1..Len(F[i]) : F[k][m] = F[i][m]
          BY <4>1
        <5>2. \A m \in 1..Len(F[i]) : m \in 1..Len(F[k])
          BY <2>0, <3>3, <5>1
        <5>3. Len(F[i]) <= Len(F[j])
          <6> DEFINE x == Len(F[i])
                     y == Len(F[k])
                     z == Len(F[j])
                     p == Len(parts[j])
          <6>1. x \in Nat /\ y \in Nat /\ p \in Nat /\ z = y + p /\ x <= y
            BY <2>0, <3>3, <5>1
          <6> HIDE DEF x, y, z, p
          <6>2. x <= z
            BY <6>1
          <6>3. QED
            BY <6>2 DEF x, z
        <5>4. \A m \in 1..Len(F[i]) : F[j][m] = F[i][m]
          BY <3>3, <5>1, <5>2
        <5>5. QED
          BY <5>3, <5>4
      <4>3. QED
        BY <3>1, <4>2 DEF j
    <3>5. CASE i = j
      <4>1. Begins(i, j)
        BY <2>0, <3>5
      <4>2. QED
        BY <3>1, <4>1 DEF j
    <3>6. CASE ~ (i <= j)
      BY <3>1, <3>6 DEF j
    <3>7. QED
      BY <3>1, <3>4, <3>5, <3>6
  <2> HIDE DEF S
  <2>3. \A k \in 0..n : k \in S
    BY <1>1, <2>1, <2>2, UpTo
  <2>4. QED
    BY <2>3 DEF S
<1>4. QED
  BY <1>3 DEF n

(* Parts that are not empty come to as many elements as there are parts.   *)
LEMMA RunsLong ==
  ASSUME NEW B, NEW parts, NEW F, Runs(F, parts, B),
         \A i \in 1..Len(parts) : parts[i] # <<>>
  PROVE  \A k \in 0..Len(parts) : Len(F[k]) >= k
<1> DEFINE n == Len(parts)
           S == {k \in 0..n : Len(F[k]) >= k}
<1>1. n \in Nat /\ (\A i \in 0..n : F[i] \in Seq(B))
      /\ \A i \in 1..n : parts[i] \in Seq(B) /\ Len(parts[i]) \in Nat \ {0}
  BY EmptySeq DEF Runs
<1>2. F[0] = <<>> /\ \A i \in 1..n : F[i] = F[i - 1] \o parts[i]
  BY DEF Runs
<1> HIDE DEF n
<1>3. 0 \in S
  BY <1>1, <1>2
<1>4. ASSUME NEW k \in 0..n, k < n, k \in S
      PROVE  k + 1 \in S
  <2> DEFINE j == k + 1
  <2>1. j \in 1..n /\ j \in 0..n /\ j - 1 = k
    BY <1>1, <1>4
  <2> HIDE DEF j
  <2>2. F[j] = F[k] \o parts[j] /\ F[k] \in Seq(B) /\ parts[j] \in Seq(B) /\ Len(parts[j]) >= 1
    <3>1. Len(parts[j]) \in Nat \ {0}
      BY <1>1, <2>1
    <3>2. Len(parts[j]) >= 1
      BY <3>1
    <3>3. QED
      BY <1>1, <1>2, <2>1, <3>2
  <2>3. Len(F[j]) = Len(F[k]) + Len(parts[j])
    BY <2>2, ConcatBegins
  <2>4. Len(F[k]) >= k /\ Len(F[k]) \in Nat /\ Len(parts[j]) \in Nat
    BY <1>4, <2>2
  <2>5. Len(F[j]) >= k + 1
    <3> DEFINE y == Len(F[k])
               z == Len(F[j])
               p == Len(parts[j])
    <3>1. y >= k /\ y \in Nat /\ p \in Nat /\ z = y + p /\ p >= 1
      BY <2>2, <2>3, <2>4
    <3> HIDE DEF y, z, p
    <3>2. z >= k + 1
      BY <1>1, <3>1
    <3>3. QED
      BY <3>2 DEF z
  <2>6. QED
    BY <2>1, <2>5 DEF j
<1> HIDE DEF S
<1>5. \A k \in 0..n : k \in S
  BY <1>1, <1>3, <1>4, UpTo
<1>6. QED
  BY <1>5 DEF S, n

(* What follows the first of two sequences is the second.                  *)
LEMMA Behind ==
  ASSUME NEW B, NEW s \in Seq(B), NEW t \in Seq(B)
  PROVE  SubSeq(s \o t, Len(s) + 1, Len(s \o t)) = t
<1>1. Len(s) \in Nat /\ Len(t) \in Nat /\ Len(s \o t) = Len(s) + Len(t)
  OBVIOUS
<1>2. CASE t = <<>>
  <2>1. Len(s \o t) < Len(s) + 1
    BY <1>1, <1>2
  <2>2. QED
    BY <1>1, <1>2, <2>1, SubSeqEmpty
<1>3. CASE t # <<>>
  <2>1. Len(t) >= 1
    BY <1>3
  <2>2. /\ Len(s) + 1 \in Len(s) + 1 .. Len(s) + Len(t)
        /\ Len(s) + Len(t) \in Len(s) + 1 .. Len(s) + Len(t)
    BY <1>1, <2>1
  <2>3. SubSeq(s \o t, Len(s) + 1, Len(s) + Len(t))
          = SubSeq(t, Len(s) + 1 - Len(s), Len(s) + Len(t) - Len(s))
    BY <2>2, SubSeqOfConcat2
  <2>4. Len(s) + 1 - Len(s) = 1 /\ Len(s) + Len(t) - Len(s) = Len(t)
    BY <1>1
  <2>5. QED
    BY <1>1, <2>3, <2>4, SubSeqFull
<1>4. QED
  BY <1>2, <1>3

(* A sequence is what it begins with and the rest.                         *)
LEMMA Splits ==
  ASSUME NEW B, NEW s \in Seq(B), NEW t \in Seq(B), Len(s) <= Len(t),
         \A m \in 1..Len(s) : t[m] = s[m]
  PROVE  \E rest \in Seq(B) : t = s \o rest
<1> DEFINE k == Len(s)
           n == Len(t)
           rest == [i \in 1..(n - k) |-> t[k + i]]
<1>1. k \in Nat /\ n \in Nat /\ k <= n /\ n - k \in Nat
  OBVIOUS
<1>2. \A i \in 1..(n - k) : t[k + i] \in B
  BY <1>1
<1>3. rest \in Seq(B) /\ Len(rest) = n - k
  BY <1>1, <1>2
<1>4. \A i \in 1..(n - k) : rest[i] = t[k + i]
  OBVIOUS
<1> HIDE DEF rest
<1>5. /\ s \o rest \in Seq(B) /\ Len(s \o rest) = k + Len(rest)
      /\ \A i \in 1..(k + Len(rest)) : (s \o rest)[i] = IF i <= k THEN s[i] ELSE rest[i - k]
  BY <1>3, ConcatProperties
<1> HIDE DEF k, n
<1>6. ASSUME NEW i \in 1..n
      PROVE  t[i] = (s \o rest)[i]
  <2>1. i \in 1..(k + Len(rest))
    BY <1>1, <1>3
  <2>2. CASE i <= k
    <3>1. i \in 1..k
      BY <1>1, <2>2
    <3>2. QED
      BY <1>5, <2>1, <2>2, <3>1 DEF k
  <2>3. CASE ~ (i <= k)
    <3> DEFINE m == i - k
    <3>1. m \in 1..(n - k) /\ k + m = i
      BY <1>1, <2>3
    <3>2. (s \o rest)[i] = rest[m]
      BY <1>5, <2>1, <2>3
    <3> HIDE DEF m
    <3>3. QED
      BY <1>4, <3>1, <3>2
  <2>4. QED
    BY <2>2, <2>3
<1>7. Len(t) = Len(s \o rest) /\ \A i \in 1..Len(t) : t[i] = (s \o rest)[i]
  <2>1. Len(t) = n /\ Len(s \o rest) = n
    BY <1>1, <1>3, <1>5 DEF n
  <2>2. QED
    BY <1>6, <2>1
<1>8. t = s \o rest
  BY <1>5, <1>7, SeqEqual
<1>9. QED
  BY <1>3, <1>8

(* Concatenation by a name of its own, so that a step can use CatSeq only. *)
Cat(x, y) == x \o y

LEMMA CatSeq ==
  \A B : \A x, y, z \in Seq(B) : Cat(x, y) \in Seq(B) /\ Cat(Cat(x, y), z) = Cat(x, Cat(y, z))
BY DEF Cat

(* Behind the first k parts comes the next one, and then the rest.         *)
RunsTail(F, B, b, h, parts, k) ==
  /\ SubSeq(b, h + Len(F[k]) + 1, Len(b)) \in Seq(B)
  /\ SubSeq(b, h + Len(F[k - 1]) + 1, Len(b))
       = parts[k] \o SubSeq(b, h + Len(F[k]) + 1, Len(b))

LEMMA RunsPart ==
  ASSUME NEW B, NEW parts, NEW F, Runs(F, parts, B),
         NEW head \in Seq(B), NEW b, b = head \o F[Len(parts)],
         NEW k \in 1..Len(parts)
  PROVE  RunsTail(F, B, b, Len(head), parts, k)
<1>1. k \in 0..Len(parts) /\ k - 1 \in 0..Len(parts) /\ Len(parts) \in 0..Len(parts)
      /\ k <= Len(parts)
  BY DEF Runs
<1> DEFINE p == parts[k]
           f == F[k - 1]
           g == F[k]
           w == F[Len(parts)]
<1>2. g \in Seq(B) /\ f \in Seq(B) /\ w \in Seq(B) /\ p \in Seq(B)
  BY <1>1 DEF Runs
<1>3. g = f \o p
  BY DEF Runs
<1>4. Len(g) <= Len(w) /\ \A m \in 1..Len(g) : w[m] = g[m]
  BY <1>1, RunsGrow
<1>5. b = head \o w
  OBVIOUS
<1> HIDE DEF p, f, g, w
<1>6. PICK rest \in Seq(B) : w = g \o rest
  BY <1>2, <1>4, Splits
<1>7. /\ head \o f \in Seq(B) /\ head \o g \in Seq(B) /\ p \o rest \in Seq(B)
      /\ Len(head \o f) = Len(head) + Len(f) /\ Len(head \o g) = Len(head) + Len(g)
  BY <1>2, ConcatBegins
<1>8. b = Cat(Cat(head, f), Cat(p, rest)) /\ b = Cat(Cat(head, g), rest)
  <2>1. g = Cat(f, p) /\ w = Cat(g, rest) /\ b = Cat(head, w)
    BY <1>3, <1>5, <1>6 DEF Cat
  <2>2. Cat(p, rest) \in Seq(B) /\ w = Cat(f, Cat(p, rest))
    BY <1>2, <2>1, CatSeq
  <2>3. Cat(head, Cat(f, Cat(p, rest))) = Cat(Cat(head, f), Cat(p, rest))
    BY <1>2, <2>2, CatSeq
  <2>4. Cat(head, Cat(g, rest)) = Cat(Cat(head, g), rest)
    BY <1>2, CatSeq
  <2>5. QED
    BY <2>1, <2>2, <2>3, <2>4
<1>9. b = (head \o f) \o (p \o rest) /\ b = (head \o g) \o rest
  BY <1>8 DEF Cat
<1>10. SubSeq(b, Len(head \o f) + 1, Len(b)) = p \o rest
  BY <1>7, <1>9, Behind
<1>11. SubSeq(b, Len(head \o g) + 1, Len(b)) = rest
  BY <1>7, <1>9, Behind
<1>12. /\ SubSeq(b, Len(head) + Len(F[k]) + 1, Len(b)) \in Seq(B)
       /\ SubSeq(b, Len(head) + Len(F[k - 1]) + 1, Len(b))
            = parts[k] \o SubSeq(b, Len(head) + Len(F[k]) + 1, Len(b))
  BY <1>7, <1>10, <1>11 DEF p, f, g
<1>13. QED
  BY <1>12 DEF RunsTail

LEMMA ConcatAll ==
  ASSUME NEW B, NEW c \in Seq(B), NEW a \in Seq(B)
  PROVE  Len(c) = 1 /\ Len(a) = 2 =>
         /\ c \o a \in Seq(B) /\ Len(c \o a) = 3
         /\ (c \o a)[1] = c[1] /\ (c \o a)[2] = a[1] /\ (c \o a)[3] = a[2]
<1> DEFINE s == c \o a
<1>1. /\ s \in Seq(B) /\ Len(s) = Len(c) + Len(a)
      /\ \A m \in 1..Len(c) : s[m] = c[m]
      /\ \A m \in 1..Len(a) : s[Len(c) + m] = a[m]
  OBVIOUS
<1> HIDE DEF s
<1>2. SUFFICES ASSUME Len(c) = 1, Len(a) = 2
               PROVE  s \in Seq(B) /\ Len(s) = 3 /\ s[1] = c[1] /\ s[2] = a[1] /\ s[3] = a[2]
  BY DEF s
<1>6. 1 \in 1..Len(c) /\ 1 \in 1..Len(a) /\ 2 \in 1..Len(a) /\ Len(c) + 1 = 2 /\ Len(c) + 2 = 3
  BY <1>2
<1>7. s[1] = c[1]
  BY <1>1, <1>6
<1>8. s[2] = a[1] /\ s[3] = a[2]
  <2>1. s[Len(c) + 1] = a[1] /\ s[Len(c) + 2] = a[2]
    BY <1>1, <1>6
  <2>2. QED
    BY <1>6, <2>1
<1>9. QED
  BY <1>1, <1>2, <1>7, <1>8
LEMMA ConcatAfter3 ==
  ASSUME NEW B, NEW c \in Seq(B), NEW a \in Seq(B)
  PROVE  Len(c) = 3 =>
         /\ c \o a \in Seq(B) /\ Len(c \o a) = 3 + Len(a)
         /\ (c \o a)[2] = c[2] /\ (c \o a)[3] = c[3]
<1> DEFINE s == c \o a
<1>1. /\ s \in Seq(B) /\ Len(s) = Len(c) + Len(a)
      /\ \A m \in 1..Len(c) : s[m] = c[m]
  OBVIOUS
<1> HIDE DEF s
<1>2. SUFFICES ASSUME Len(c) = 3
               PROVE  s \in Seq(B) /\ Len(s) = 3 + Len(a) /\ s[2] = c[2] /\ s[3] = c[3]
  BY DEF s
<1>4. 2 \in 1..Len(c) /\ 3 \in 1..Len(c)
  BY <1>2
<1>5. QED
  BY <1>1, <1>2, <1>4

=============================================================================
