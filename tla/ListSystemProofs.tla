--------------------------- MODULE ListSystemProofs ---------------------------
(***************************************************************************)
(* What a listing says, for a folder of any size and any changes by other  *)
(* processes: ListReply and Parse are inverse to each other up to the      *)
(* number of entries a short can hold, and the invariants of ListSystem.   *)
(***************************************************************************)
EXTENDS ListSystem, WireProofs, FiniteSetTheorems

-----------------------------------------------------------------------------
(* Entries of a listing, and the row that the table makes of one.          *)
Entries(N) == [name : N, isDir : BOOLEAN, size : Short]

Row(e) == [name |-> e.name, size |-> ReadShort(SizeBytes(e))]

LEMMA EntrySize ==
  ASSUME NEW N, NEW e \in Entries(N)
  PROVE  /\ SizeBytes(e) \in Seq(Byte) /\ Len(SizeBytes(e)) = 2
         /\ ReadShort(SizeBytes(e)) = IF e.isDir THEN ReadShort(DirMark) ELSE e.size
         /\ Row(e) \in [name : N, size : Short]
<1>1. e.isDir \in BOOLEAN /\ e.size \in Short /\ e.name \in N
  BY DEF Entries
<1>2. CASE e.isDir
  <2>1. SizeBytes(e) = << 68, 73 >> /\ SizeBytes(e) = DirMark
    BY <1>2 DEF SizeBytes, DirMark
  <2>2. 68 \in Byte /\ 73 \in Byte
    BY ByteIs
  <2>3. << 68, 73 >> \in Seq(Byte) /\ Len(<< 68, 73 >>) = 2
    BY <2>2
  <2>4. ReadShort(<< 68, 73 >>) \in Short
    BY <2>2, ShortRange
  <2>5. QED
    BY <1>1, <1>2, <2>1, <2>3, <2>4 DEF Row
<1>3. CASE ~ e.isDir
  <2>1. SizeBytes(e) = AddShort(e.size)
    BY <1>3 DEF SizeBytes
  <2>2. e.size \in Nat /\ e.size % 65536 = e.size
    <3> DEFINE x == e.size
    <3>1. x \in Nat /\ x <= 65535
      BY <1>1, ShortIs
    <3> HIDE DEF x
    <3>2. x % 65536 = x
      BY <3>1, SMT
    <3>3. QED
      BY <3>1, <3>2 DEF x
  <2>3. QED
    BY <1>1, <1>3, <2>1, <2>2, ShortBytes DEF Row
<1>4. QED
  BY <1>2, <1>3

(* The part of an answer that stands for an entry, and what reading makes  *)
(* of it in front of anything.                                             *)
LEMMA EntryRead ==
  ASSUME NEW N, N \subseteq Seq(Byte \ {0}), NEW e \in Entries(N), NEW more \in Seq(Byte)
  PROVE  LET p == Copy(e.name).bytes \o SizeBytes(e)
             r == EatString(p \o more)
         IN  /\ p \in Seq(Byte) /\ p # <<>>
             /\ r.str = e.name /\ r.rest = SizeBytes(e) \o more
             /\ ReadShort(r.rest) = ReadShort(SizeBytes(e))
             /\ SubSeq(r.rest, 3, Len(r.rest)) = more
<1> DEFINE c == Copy(e.name).bytes
           z == SizeBytes(e)
<1>1. e.name \in Seq(Byte \ {0})
  BY DEF Entries
<1>2. c \in Seq(Byte) /\ Len(c) = Len(e.name) + 1 /\ c = WriteString(e.name)
  BY <1>1, StringBytes
<1>3. z \in Seq(Byte) /\ Len(z) = 2
  BY EntrySize
<1>4. EatString(c \o (z \o more)) = [str |-> e.name, rest |-> z \o more]
  <2>1. z \o more \in Seq(Byte)
    BY <1>3
  <2>2. QED
    BY <1>1, <1>2, <2>1, StringRoundTrip
<1> HIDE DEF c, z
<1>5. Len(e.name) \in Nat
  BY <1>1
<1>6. c \o z \in Seq(Byte) /\ c \o z # <<>> /\ (c \o z) \o more = c \o (z \o more)
  <2>1. c \in Seq(Byte) /\ z \in Seq(Byte) /\ Len(z) = 2
    BY <1>2, <1>3
  <2>2. c \o z \in Seq(Byte) /\ Len(c \o z) = Len(c) + Len(z) /\ Len(c) \in Nat
    BY <2>1, ConcatBegins
  <2>3. c \o z # <<>>
    <3> DEFINE x == Len(c)
               y == Len(c \o z)
    <3>1. x \in Nat /\ y = x + 2
      BY <2>1, <2>2
    <3> HIDE DEF x, y
    <3>2. y # 0
      BY <3>1
    <3>3. QED
      BY <3>2 DEF y
  <2>4. (c \o z) \o more = c \o (z \o more)
    BY <2>1
  <2>5. QED
    BY <2>2, <2>3, <2>4
<1>7. SubSeq(z \o more, 3, Len(z \o more)) = more
  <2>1. SubSeq(z \o more, Len(z) + 1, Len(z \o more)) = more
    BY <1>3, Behind
  <2>2. Len(z) + 1 = 3
    BY <1>3
  <2>3. QED
    BY <2>1, <2>2
<1>8. ReadShort(z \o more) = ReadShort(z)
  <2>1. \A m \in 1..Len(z) : (z \o more)[m] = z[m]
    BY <1>3, ConcatBegins
  <2>2. 1 \in 1..Len(z) /\ 2 \in 1..Len(z)
    BY <1>3
  <2>3. (z \o more)[1] = z[1] /\ (z \o more)[2] = z[2]
    BY <2>1, <2>2
  <2>4. QED
    BY <2>3 DEF ReadShort
<1>9. EatString((c \o z) \o more) = [str |-> e.name, rest |-> z \o more]
  BY <1>4, <1>6
<1> DEFINE r == EatString((c \o z) \o more)
<1>10. r.str = e.name /\ r.rest = z \o more
  BY <1>9
<1> HIDE DEF r
<1>11. ReadShort(r.rest) = ReadShort(z) /\ SubSeq(r.rest, 3, Len(r.rest)) = more
  BY <1>7, <1>8, <1>10
<1>12. QED
  BY <1>6, <1>10, <1>11 DEF r, c, z

(* What LIST_DIR sends is read back as the rows of its entries, as many as *)
(* a short can count, and is at least as long as there are entries.        *)
THEOREM ListingReadBack ==
  ASSUME NEW N, N \subseteq Seq(Byte \ {0}), NEW es \in Seq(Entries(N))
  PROVE  /\ ListReply(es) \in Seq(Byte) /\ ListReply(es) # <<>>
         /\ Len(ListReply(es)) >= Len(es)
         /\ Parse(ListReply(es)) = [i \in 1..(Len(es) % 65536) |-> Row(es[i])]
<1> DEFINE n     == Len(es)
           part(i) == Copy(es[i].name).bytes \o SizeBytes(es[i])
           parts == [i \in 1..n |-> part(i)]
           head  == << 50 >> \o AddShort(n)
           b     == ListReply(es)
           count == n % 65536
<1>1. n \in Nat /\ \A i \in 1..n : es[i] \in Entries(N)
  OBVIOUS
<1>2. \A i \in 1..n : parts[i] \in Seq(Byte) /\ parts[i] # <<>>
  <2>1. TAKE i \in 1..n
  <2>2. part(i) \in Seq(Byte) /\ part(i) # <<>>
    BY <1>1, EmptySeq, EntryRead
  <2>3. QED
    BY <2>2
<1>3. parts \in Seq(Seq(Byte)) /\ Len(parts) = n
  BY <1>1, <1>2
<1>4. PICK F : Runs(F, parts, Byte) /\ FlattenSeq(parts) = F[n]
  <2> HIDE DEF parts
  <2>1. QED
    BY <1>3, FlattenRuns
<1>5. b = head \o F[n]
  BY <1>4 DEF ListReply
<1>6. /\ head \in Seq(Byte) /\ Len(head) = 3
      /\ head[1] = 50 /\ head[2] = AddShort(n)[1] /\ head[3] = AddShort(n)[2]
  <2> DEFINE a == AddShort(n)
             c == << 50 >>
  <2>1. a \in Seq(Byte) /\ Len(a) = 2
    BY <1>1, ShortBytes
  <2>2. c \in Seq(Byte) /\ Len(c) = 1 /\ c[1] = 50
    <3>1. 50 \in Byte
      BY ByteIs
    <3>2. QED
      BY <3>1
  <2> HIDE DEF a, c
  <2>4. /\ c \o a \in Seq(Byte) /\ Len(c \o a) = 3
        /\ (c \o a)[1] = 50 /\ (c \o a)[2] = a[1] /\ (c \o a)[3] = a[2]
    BY <2>1, <2>2, ConcatAll
  <2>5. QED
    BY <2>4 DEF a, c
<1>7. F[n] \in Seq(Byte) /\ Len(F[n]) >= n
  <2>1. n \in 0..n
    BY <1>1
  <2> HIDE DEF parts
  <2>2. QED
    BY <1>2, <1>3, <1>4, <2>1, RunsLong DEF Runs
<1>8. /\ b \in Seq(Byte) /\ Len(b) = 3 + Len(F[n])
      /\ b[2] = AddShort(n)[1] /\ b[3] = AddShort(n)[2]
  <2> DEFINE w == F[n]
  <2>1. w \in Seq(Byte) /\ b = head \o w
    BY <1>5, <1>7
  <2> HIDE DEF w, head, b
  <2>2. /\ head \o w \in Seq(Byte) /\ Len(head \o w) = 3 + Len(w)
        /\ (head \o w)[2] = head[2] /\ (head \o w)[3] = head[3]
    BY <1>6, <2>1, ConcatAfter3
  <2>3. QED
    BY <1>6, <2>1, <2>2 DEF w
<1>9. b # <<>> /\ Len(b) >= n
  <2> DEFINE z == Len(F[n])
  <2>1. z \in Nat /\ z >= n /\ Len(b) = 3 + z
    BY <1>7, <1>8
  <2> HIDE DEF z, b, n
  <2>2. Len(b) >= n /\ Len(b) # 0
    BY <1>1, <2>1
  <2>3. QED
    BY <2>2
<1>10. ReadShort(Tail(b)) = count /\ count \in 0..n
  <2> HIDE DEF b
  <2>1. Tail(b)[1] = b[2] /\ Tail(b)[2] = b[3]
    <3>1. Len(Tail(b)) = Len(b) - 1 /\ \A i \in 1..Len(Tail(b)) : Tail(b)[i] = b[i + 1]
      BY <1>8, <1>9, HeadTailProperties
    <3> DEFINE z == Len(F[n])
               t == Len(Tail(b))
    <3>2. z \in Nat /\ t = 3 + z - 1
      BY <1>7, <1>8, <3>1
    <3> HIDE DEF z, t
    <3>3. 1 \in 1..t /\ 2 \in 1..t
      BY <3>2
    <3>4. QED
      BY <3>1, <3>3 DEF t
  <2>2. ReadShort(Tail(b)) = ReadShort(AddShort(n))
    BY <1>8, <2>1 DEF ReadShort
  <2>3. n % 65536 \in 0..n
    <3> HIDE DEF n
    <3>1. QED
      BY <1>1
  <2>4. QED
    BY <1>1, <2>2, <2>3, ShortBytes
<1> DEFINE R == [i \in 0..count |-> SubSeq(b, 3 + Len(F[i]) + 1, Len(b))]
<1>11. ASSUME NEW i \in 1..count
       PROVE  R[i] \in Seq(Byte) /\ R[i - 1] = part(i) \o R[i]
  <2>0. count \in 0..n
    BY <1>10
  <2>2. i \in 1..n /\ i \in 0..count /\ i - 1 \in 0..count
    <3> HIDE DEF n, count
    <3>1. QED
      BY <1>1, <2>0
  <2>8. parts[i] = part(i)
    <3> HIDE DEF n, part
    <3>1. QED
      BY <2>2
  <2> HIDE DEF head, b, parts, count, part, n
  <2>3. i \in 1..Len(parts) /\ b = head \o F[Len(parts)] /\ Runs(F, parts, Byte)
        /\ head \in Seq(Byte) /\ Len(head) = 3
    BY <1>3, <1>4, <1>5, <1>6, <2>2
  <2>4. RunsTail(F, Byte, b, 3, parts, i)
    <3>1. RunsTail(F, Byte, b, Len(head), parts, i)
      BY <2>3, RunsPart
    <3>2. QED
      BY <2>3, <3>1
  <2>5. /\ SubSeq(b, 3 + Len(F[i]) + 1, Len(b)) \in Seq(Byte)
        /\ SubSeq(b, 3 + Len(F[i - 1]) + 1, Len(b))
             = parts[i] \o SubSeq(b, 3 + Len(F[i]) + 1, Len(b))
    BY <2>4 DEF RunsTail
  <2>6. R[i] = SubSeq(b, 3 + Len(F[i]) + 1, Len(b))
        /\ R[i - 1] = SubSeq(b, 3 + Len(F[i - 1]) + 1, Len(b))
    BY <2>2
  <2> HIDE DEF R
  <2>7. QED
    BY <2>8, <2>5, <2>6
<1>12. R[0] = SubSeq(b, 4, Len(b))
  <2>1. F[0] = <<>> /\ 0 \in 0..count
    BY <1>4, <1>10 DEF Runs
  <2>2. 3 + Len(F[0]) + 1 = 4
    BY <2>1
  <2> HIDE DEF b, count
  <2>3. QED
    BY <2>1, <2>2
<1>13. ASSUME NEW i \in 1..count
       PROVE  LET r == EatString(R[i - 1]) IN
                /\ r.str = es[i].name
                /\ ReadShort(r.rest) = ReadShort(SizeBytes(es[i]))
                /\ SubSeq(r.rest, 3, Len(r.rest)) = R[i]
  <2>1. i \in 1..n
    <3>1. count \in 0..n
      BY <1>10
    <3> HIDE DEF n, count
    <3>2. QED
      BY <1>1, <3>1
  <2>6. R[i] \in Seq(Byte)
    <3> HIDE DEF R, count, part
    <3>1. QED
      BY <1>11
  <2>7. es[i] \in Entries(N)
    <3> HIDE DEF n
    <3>1. QED
      BY <1>1, <2>1
  <2> DEFINE e == es[i]
             more == R[i]
  <2>2. R[i - 1] = (Copy(e.name).bytes \o SizeBytes(e)) \o more
    BY <1>11
  <2>3. e \in Entries(N) /\ more \in Seq(Byte)
    <3> HIDE DEF R
    <3>1. QED
      BY <2>6, <2>7
  <2> HIDE DEF R, e, more
  <2> DEFINE w == (Copy(e.name).bytes \o SizeBytes(e)) \o more
             r == EatString(w)
  <2>4. /\ r.str = e.name
        /\ ReadShort(r.rest) = ReadShort(SizeBytes(e))
        /\ SubSeq(r.rest, 3, Len(r.rest)) = more
    BY <2>3, EntryRead
  <2>5. R[i - 1] = w
    BY <2>2
  <2> HIDE DEF w
  <2>8. QED
    BY <2>4, <2>5 DEF e, more
<1> HIDE DEF b, count, R, n, parts, part, head
<1> DEFINE Step(g, i) ==
             IF i = 0 THEN SubSeq(b, 4, Len(b))
                      ELSE LET r == EatString(g[i - 1]).rest IN SubSeq(r, 3, Len(r))
           rest == CHOOSE g : g = [i \in 0..count |-> Step(g, i)]
<1>14. Parse(b) = [i \in 1..count |-> LET e == EatString(rest[i - 1]) IN
                                        [name |-> e.str, size |-> ReadShort(e.rest)]]
  BY <1>10 DEF Parse
<1>15. R = [i \in 0..count |-> Step(R, i)]
  <2>1. \A i \in 0..count : R[i] = Step(R, i)
    <3>1. TAKE i \in 0..count
    <3>2. CASE i = 0
      BY <1>12, <3>2
    <3>3. CASE i # 0
      <4>1. i \in 1..count
        BY <1>10, <3>3
      <4>2. QED
        BY <1>13, <3>3, <4>1
    <3>4. QED
      BY <3>2, <3>3
  <2> HIDE DEF Step
  <2>2. R = [i \in 0..count |-> R[i]]
    BY DEF R
  <2>3. QED
    BY <2>1, <2>2
<1>16. rest = [i \in 0..count |-> Step(rest, i)]
  <2> HIDE DEF Step
  <2>1. QED
    BY <1>15
<1> HIDE DEF rest
<1>17. \A i \in 0..count : rest[i] = R[i]
  <2> DEFINE S == {i \in 0..count : rest[i] = R[i]}
  <2>0. \A i \in 0..count : rest[i] = Step(rest, i) /\ R[i] = Step(R, i)
    <3> HIDE DEF Step
    <3>1. QED
      BY <1>15, <1>16
  <2>1. 0 \in S
    <3>1. 0 \in 0..count
      BY <1>1, <1>10
    <3>2. QED
      BY <2>0, <3>1
  <2>2. ASSUME NEW k \in 0..count, k < count, k \in S
        PROVE  k + 1 \in S
    <3> DEFINE j == k + 1
    <3>1. j \in 0..count /\ j # 0 /\ j - 1 = k
      BY <1>1, <1>10, <2>2
    <3> HIDE DEF j
    <3>2. rest[j - 1] = R[j - 1]
      BY <2>2, <3>1
    <3>3. Step(rest, j) = Step(R, j)
      BY <3>2
    <3>4. rest[j] = R[j]
      BY <2>0, <3>1, <3>3
    <3>5. QED
      BY <3>1, <3>4 DEF j
  <2> HIDE DEF S
  <2>3. \A k \in 0..count : k \in S
    <3>1. count \in Nat
      BY <1>1, <1>10
    <3>2. QED
      BY <2>1, <2>2, <3>1, UpTo
  <2>4. QED
    BY <2>3 DEF S
<1>18. \A i \in 1..count :
         (LET e == EatString(rest[i - 1]) IN [name |-> e.str, size |-> ReadShort(e.rest)])
           = Row(es[i])
  <2>1. TAKE i \in 1..count
  <2>2. i - 1 \in 0..count
    BY <1>1, <1>10
  <2>3. rest[i - 1] = R[i - 1]
    BY <1>17, <2>2
  <2>4. QED
    BY <1>13, <2>3 DEF Row
<1>19. Parse(b) = [i \in 1..count |-> Row(es[i])]
  BY <1>14, <1>18
<1>20. QED
  BY <1>8, <1>9, <1>19 DEF b, count, n

LEMMA ListingBytes ==
  ASSUME NEW N, N \subseteq Seq(Byte \ {0}), NEW es \in Seq(Entries(N))
  PROVE  ListReply(es) \in Seq(Byte)
BY ListingReadBack

-----------------------------------------------------------------------------
(* The bytes of a string (getBytes, addString).                            *)

(* What arrives of a string: as many of its bytes as it has characters.    *)
Sent(cs, s) == SubSeq(GetBytes(cs, s), 1, Len(s))

LEMMA CharacterIs ==
  \A c : c \in Character <=> c \in Nat /\ 1 <= c /\ c <= 65535 /\ (c < 55296 \/ c > 57343)
<1>1. USHRT_MAX = 65535
  BY DEF USHRT_MAX
<1>0. USHRT_MAX \in Nat
  BY <1>1
<1>2. \A c : c \in Character <=> c \in Nat /\ 1 <= c /\ c <= USHRT_MAX /\ (c < 55296 \/ c > 57343)
  BY <1>0 DEF Character
<1>3. QED
  BY <1>1, <1>2

(* Every byte but NUL is a character that a Java char holds.               *)
LEMMA ByteCharacters == Seq(Byte \ {0}) \subseteq Seq(Character)
<1>1. ASSUME NEW c, c \in Byte \ {0} PROVE c \in Character
  <2>1. c \in Nat /\ c <= 255 /\ c # 0
    BY <1>1, ByteIs
  <2>2. 1 <= c /\ c <= 65535 /\ c < 55296
    BY <2>1
  <2>3. QED
    BY <2>1, <2>2, CharacterIs
<1>2. QED
  BY <1>1

LEMMA EncodeBytes ==
  ASSUME NEW cs \in Charset, NEW c \in Character
  PROVE  /\ Encode(cs, c) \in Seq(Byte \ {0}) /\ Encode(cs, c) # <<>>
         /\ c < 128 => Encode(cs, c) = << c >>
         /\ c < 256 /\ cs = "latin1" => Encode(cs, c) = << c >>
         /\ c < 256 /\ c > 159 /\ cs = "cp1252" => Encode(cs, c) = << c >>
         /\ c >= 128 /\ cs = "utf8" => Encode(cs, c)[1] >= 128
<1>1. c \in Nat /\ c >= 1 /\ c <= 65535
  BY CharacterIs
<1>2. \A x \in Nat : x >= 1 /\ x <= 255 => x \in Byte \ {0}
  BY ByteIs
<1>3. CASE cs \in {"latin1", "cp1252"}
  <2>1. PICK x : Encode(cs, c) = << x >> /\ x = IF cs = "latin1" THEN Latin1(c) ELSE Windows(c)
    BY <1>3 DEF Encode
  <2>2. Latin1(c) \in Byte \ {0} /\ (c < 256 => Latin1(c) = c)
    <3>1. 63 \in Byte \ {0} /\ (c < 256 => c \in Byte \ {0})
      BY <1>1, <1>2
    <3>2. QED
      BY <3>1 DEF Latin1
  <2>3. /\ Windows(c) \in Byte \ {0}
        /\ c < 128 => Windows(c) = c
        /\ c < 256 /\ c > 159 => Windows(c) = c
    <3>1. \A d \in DOMAIN Cp1252 : d \in 256..USHRT_MAX /\ Cp1252[d] \in 128..159
      BY Cp1252Assumption, Zenon
    <3>2. CASE c \in DOMAIN Cp1252
      <4>1. c \in 256..USHRT_MAX
        BY <3>1, <3>2, Zenon
      <4>2. c >= 256
        <5>1. \A m \in Nat : \A d \in 256..m : d >= 256
          OBVIOUS
        <5>2. USHRT_MAX \in Nat
          BY DEF USHRT_MAX
        <5>3. QED
          BY <4>1, <5>1, <5>2, Zenon
      <4>3. Windows(c) = Cp1252[c]
        BY <3>2 DEF Windows
      <4>4. Cp1252[c] \in 128..159
        BY <3>1, <3>2, Zenon
      <4>5. \A v \in 128..159 : v \in Nat /\ v >= 1 /\ v <= 255
        OBVIOUS
      <4>6. QED
        BY <1>1, <1>2, <4>2, <4>3, <4>4, <4>5
    <3>3. CASE c \notin DOMAIN Cp1252 /\ c \in 128..159
      <4>1. Windows(c) = 63
        BY <3>3 DEF Windows
      <4>2. ~ (c < 128) /\ ~ (c > 159) /\ 63 \in Byte \ {0}
        BY <1>2, <3>3
      <4>3. QED
        BY <4>1, <4>2
    <3>4. CASE c \notin DOMAIN Cp1252 /\ c \notin 128..159
      <4>1. Windows(c) = Latin1(c)
        BY <3>4 DEF Windows
      <4>2. QED
        BY <1>1, <2>2, <4>1
    <3>5. QED
      BY <3>2, <3>3, <3>4
  <2>4. x \in Byte \ {0} /\ << x >> \in Seq(Byte \ {0}) /\ << x >> # <<>>
    BY <2>1, <2>2, <2>3
  <2>5. c < 128 => c < 256
    BY <1>1
  <2>6. QED
    BY <1>3, <2>1, <2>2, <2>3, <2>4, <2>5
<1>4. CASE cs = "utf8" /\ c < 128
  <2>1. Encode(cs, c) = << c >> /\ c \in Byte \ {0}
    BY <1>1, <1>2, <1>4 DEF Encode
  <2>2. Encode(cs, c) \in Seq(Byte \ {0}) /\ Encode(cs, c) # <<>>
    BY <2>1
  <2>3. cs # "latin1" /\ cs # "cp1252" /\ ~ (c >= 128)
    BY <1>1, <1>4
  <2>4. QED
    BY <2>1, <2>2, <2>3
<1>5. CASE cs = "utf8" /\ c >= 128 /\ c < 2048
  <2> DEFINE x == 192 + (c \div 64)
             y == 128 + (c % 64)
  <2>1. x \in Nat /\ x >= 128 /\ x <= 255
    BY <1>1, <1>5
  <2>2. y \in Nat /\ y >= 1 /\ y <= 255
    BY <1>1
  <2>3. Encode(cs, c) = << x, y >>
    BY <1>1, <1>5 DEF Encode
  <2> HIDE DEF x, y
  <2>4. x \in Byte \ {0} /\ y \in Byte \ {0}
    BY <1>2, <2>1, <2>2
  <2>5. Encode(cs, c) \in Seq(Byte \ {0}) /\ Encode(cs, c) # <<>> /\ Encode(cs, c)[1] >= 128
    BY <2>1, <2>3, <2>4
  <2>6. cs # "latin1" /\ cs # "cp1252" /\ ~ (c < 128)
    BY <1>1, <1>5
  <2>7. QED
    BY <2>5, <2>6
<1>6. CASE cs = "utf8" /\ c >= 2048
  <2> DEFINE x == 224 + (c \div 4096)
             y == 128 + ((c \div 64) % 64)
             z == 128 + (c % 64)
  <2>1. x \in Nat /\ x >= 128 /\ x <= 255
    BY <1>1, <1>6
  <2>2. y \in Nat /\ y >= 1 /\ y <= 255
    <3> DEFINE q == c \div 64
    <3>1. q \in Nat
      BY <1>1
    <3> HIDE DEF q
    <3>2. 128 + (q % 64) \in Nat /\ 128 + (q % 64) >= 1 /\ 128 + (q % 64) <= 255
      BY <3>1
    <3>3. QED
      BY <3>2 DEF q
  <2>3. z \in Nat /\ z >= 1 /\ z <= 255
    BY <1>1
  <2>4. Encode(cs, c) = << x, y, z >>
    BY <1>1, <1>6 DEF Encode
  <2> HIDE DEF x, y, z
  <2>5. x \in Byte \ {0} /\ y \in Byte \ {0} /\ z \in Byte \ {0}
    BY <1>2, <2>1, <2>2, <2>3
  <2>6. Encode(cs, c) \in Seq(Byte \ {0}) /\ Encode(cs, c) # <<>> /\ Encode(cs, c)[1] >= 128
    BY <2>1, <2>4, <2>5
  <2>7. cs # "latin1" /\ cs # "cp1252" /\ ~ (c < 128)
    BY <1>1, <1>6
  <2>8. QED
    BY <2>6, <2>7
<1>7. QED
  BY <1>1, <1>3, <1>4, <1>5, <1>6 DEF Charset

(* The bytes of a string are those of its characters, one after the other. *)
LEMMA GetBytesRuns ==
  ASSUME NEW cs \in Charset, NEW s \in Seq(Character)
  PROVE  \E F, parts :
           /\ Len(parts) = Len(s) /\ \A i \in 1..Len(s) : parts[i] = Encode(cs, s[i])
           /\ Runs(F, parts, Byte \ {0}) /\ GetBytes(cs, s) = F[Len(s)]
<1> DEFINE parts == [i \in 1..Len(s) |-> Encode(cs, s[i])]
<1>1. \A i \in 1..Len(s) : parts[i] \in Seq(Byte \ {0})
  <2>1. TAKE i \in 1..Len(s)
  <2>2. s[i] \in Character
    OBVIOUS
  <2>3. QED
    BY <2>2, EncodeBytes
<1>2. parts \in Seq(Seq(Byte \ {0})) /\ Len(parts) = Len(s)
  BY <1>1
<1>3. GetBytes(cs, s) = FlattenSeq(parts)
  BY DEF GetBytes
<1>4. \A i \in 1..Len(s) : parts[i] = Encode(cs, s[i])
  OBVIOUS
<1> HIDE DEF parts
<1>5. PICK F : Runs(F, parts, Byte \ {0}) /\ FlattenSeq(parts) = F[Len(parts)]
  BY <1>2, FlattenRuns
<1>6. QED
  BY <1>2, <1>3, <1>4, <1>5

LEMMA SentBytes ==
  ASSUME NEW cs \in Charset, NEW s \in Seq(Character)
  PROVE  /\ Sent(cs, s) \in Seq(Byte \ {0}) /\ Len(Sent(cs, s)) = Len(s)
         /\ \A i \in 1..Len(s) : Sent(cs, s)[i] = GetBytes(cs, s)[i]
<1>1. PICK F, parts :
        /\ Len(parts) = Len(s) /\ \A i \in 1..Len(s) : parts[i] = Encode(cs, s[i])
        /\ Runs(F, parts, Byte \ {0}) /\ GetBytes(cs, s) = F[Len(s)]
  BY GetBytesRuns
<1>2. \A i \in 1..Len(parts) : parts[i] # <<>>
  <2>1. TAKE i \in 1..Len(parts)
  <2>2. s[i] \in Character /\ parts[i] = Encode(cs, s[i])
    BY <1>1
  <2>3. QED
    BY <2>2, EncodeBytes
<1> DEFINE b == GetBytes(cs, s)
           n == Len(s)
<1>3. n \in Nat /\ n \in 0..Len(parts)
  BY <1>1
<1>4. Len(F[n]) >= n
  BY <1>1, <1>2, <1>3, RunsLong
<1>5. b \in Seq(Byte \ {0}) /\ Len(b) >= n
  BY <1>1, <1>3, <1>4 DEF Runs
<1> HIDE DEF b
<1>6. /\ SubSeq(b, 1, n) \in Seq(Byte \ {0}) /\ Len(SubSeq(b, 1, n)) = n
      /\ \A i \in 1..n : SubSeq(b, 1, n)[i] = b[i]
  <2> HIDE DEF n
  <2>1. Len(b) \in Nat /\ \A i \in 1..n : i \in 1..Len(b) /\ b[i] \in Byte \ {0} /\ 1 + i - 1 = i
    BY <1>3, <1>5
  <2>2. /\ SubSeq(b, 1, n) \in Seq(Byte \ {0})
        /\ Len(SubSeq(b, 1, n)) = IF 1 <= n THEN n - 1 + 1 ELSE 0
        /\ \A i \in 1..(n - 1 + 1) : SubSeq(b, 1, n)[i] = b[1 + i - 1]
    BY <1>3, <1>5, <2>1, SubSeqProperties
  <2>3. n - 1 + 1 = n /\ (~ (1 <= n) => n = 0)
    BY <1>3
  <2>4. QED
    BY <2>1, <2>2, <2>3
<1>7. QED
  BY <1>6 DEF Sent, b, n

(* What eatString gives back of an added string, whatever follows it.      *)
LEMMA SentRead ==
  ASSUME NEW cs \in Charset, NEW s \in Seq(Character), NEW more \in Seq(Byte)
  PROVE  /\ AddString(cs, s) \in Seq(Byte)
         /\ EatString(AddString(cs, s) \o more).str = Sent(cs, s)
<1> DEFINE x == Sent(cs, s)
<1>1. AddString(cs, s) = WriteString(x)
  BY DEF AddString, Sent
<1>2. x \in Seq(Byte \ {0})
  BY SentBytes
<1> HIDE DEF x
<1>3. EatString(WriteString(x) \o more) = [str |-> x, rest |-> more]
  BY <1>2, StringRoundTrip
<1>4. WriteString(x) \in Seq(Byte)
  BY <1>2, StringBytes
<1>5. EatString(WriteString(x) \o more).str = x
  BY <1>3
<1>6. QED
  BY <1>1, <1>4, <1>5 DEF x

(* The name a file is stored under is what the server read of the string.  *)
LEMMA StoredIsSent ==
  ASSUME NEW cs \in Charset, NEW s \in Seq(Character), s # <<>>
  PROVE  /\ StoredAs(cs, s) = Sent(cs, s)
         /\ StoredAs(cs, s) \in Seq(Byte \ {0}) \ {<<>>}
<1>1. <<>> \in Seq(Byte)
  OBVIOUS
<1> DEFINE a == AddString(cs, s)
<1>2. a \in Seq(Byte) /\ EatString(a \o <<>>).str = Sent(cs, s)
  BY <1>1, SentRead
<1>3. StoredAs(cs, s) = EatString(a).str
  BY DEF StoredAs
<1> HIDE DEF a
<1>4. a \o <<>> = a
  BY <1>2, ConcatEmptySeq
<1>5. StoredAs(cs, s) = Sent(cs, s)
  BY <1>2, <1>3, <1>4
<1>6. Len(s) # 0
  OBVIOUS
<1>7. Sent(cs, s) \in Seq(Byte \ {0}) /\ Sent(cs, s) # <<>>
  <2>1. Sent(cs, s) \in Seq(Byte \ {0}) /\ Len(Sent(cs, s)) = Len(s)
    BY SentBytes
  <2>2. QED
    BY <1>6, <2>1
<1>8. QED
  BY <1>5, <1>7

(* Parts of one element each, up to the k-th, come to those elements.      *)
LEMMA RunsPlain ==
  ASSUME NEW B, NEW parts, NEW F, Runs(F, parts, B), NEW s,
         NEW n \in 0..Len(parts), \A i \in 1..n : parts[i] = << s[i] >>
  PROVE  \A k \in 0..n : Len(F[k]) = k /\ \A m \in 1..k : F[k][m] = s[m]
<1> DEFINE S == {k \in 0..n : Len(F[k]) = k /\ \A m \in 1..k : F[k][m] = s[m]}
<1>1. /\ n \in Nat /\ F[0] = <<>>
      /\ \A i \in 0..n : F[i] \in Seq(B)
      /\ \A i \in 1..n : F[i] = F[i - 1] \o parts[i] /\ parts[i] \in Seq(B)
  <2> DEFINE w == Len(parts)
  <2>1. /\ w \in Nat /\ F \in [0..w -> Seq(B)] /\ F[0] = <<>> /\ n \in 0..w
        /\ \A i \in 1..w : F[i] = F[i - 1] \o parts[i] /\ parts[i] \in Seq(B)
    BY DEF Runs
  <2> HIDE DEF w
  <2>2. n \in Nat /\ \A i \in 1..n : i \in 1..w
    BY <2>1
  <2>3. \A i \in 0..n : i \in 0..w
    BY <2>1
  <2>4. \A i \in 0..n : F[i] \in Seq(B)
    BY <2>1, <2>3
  <2>5. QED
    BY <2>1, <2>2, <2>4
<1>2. 0 \in S
  BY <1>1
<1>3. ASSUME NEW k \in 0..n, k < n, k \in S
      PROVE  k + 1 \in S
  <2> DEFINE j == k + 1
  <2>1. j \in 1..n /\ j \in 0..n /\ j - 1 = k /\ k \in Nat
        /\ \A m \in 1..j : m \in 1..k \/ m = j
    BY <1>1, <1>3
  <2> DEFINE f == F[k]
             p == parts[j]
             g == F[j]
  <2>2. f \in Seq(B) /\ p \in Seq(B) /\ p = << s[j] >> /\ g = f \o p
    <3> HIDE DEF j
    <3>1. QED
      BY <1>1, <2>1
  <2>3. Len(f) = k /\ \A m \in 1..k : f[m] = s[m]
    BY <1>3
  <2>4. j = k + 1
    OBVIOUS
  <2> HIDE DEF f, p, g, j
  <2>5. /\ Len(f \o p) = Len(f) + Len(p)
        /\ \A m \in 1..Len(f) : (f \o p)[m] = f[m]
        /\ \A m \in 1..Len(p) : (f \o p)[Len(f) + m] = p[m]
    <3>1. f \in Seq(B) /\ p \in Seq(B)
      BY <2>2
    <3>2. QED
      BY <3>1
  <2>6. Len(p) = 1 /\ p[1] = s[j]
    BY <2>2
  <2>7. Len(g) = j
    BY <2>1, <2>2, <2>3, <2>4, <2>5, <2>6
  <2>8. \A m \in 1..k : g[m] = s[m]
    BY <2>2, <2>3, <2>5
  <2>9. g[j] = s[j]
    BY <2>1, <2>2, <2>3, <2>4, <2>5, <2>6
  <2>10. \A m \in 1..j : g[m] = s[m]
    BY <2>1, <2>8, <2>9
  <2>11. QED
    BY <2>1, <2>7, <2>10 DEF g, j
<1> HIDE DEF S
<1>4. \A k \in 0..n : k \in S
  BY <1>1, <1>2, <1>3, UpTo
<1>5. QED
  BY <1>4 DEF S

(* A string whose characters are written as they were read arrives as it   *)
(* is.                                                                     *)
LEMMA SentPlain ==
  ASSUME NEW cs \in Charset, NEW s \in Seq(Byte \ {0}),
         \A i \in 1..Len(s) : s[i] < 128 \/ cs = "latin1" \/ (cs = "cp1252" /\ s[i] > 159)
  PROVE  Sent(cs, s) = s
<1>1. s \in Seq(Character)
  BY ByteCharacters
<1>2. PICK F, parts :
        /\ Len(parts) = Len(s) /\ \A i \in 1..Len(s) : parts[i] = Encode(cs, s[i])
        /\ Runs(F, parts, Byte \ {0}) /\ GetBytes(cs, s) = F[Len(s)]
  BY <1>1, GetBytesRuns
<1> DEFINE n == Len(s)
<1>3. n \in 0..Len(parts) /\ n \in 0..n
  BY <1>2
<1>4. \A i \in 1..n : parts[i] = << s[i] >>
  <2>1. TAKE i \in 1..n
  <2>2. s[i] \in Byte /\ s[i] \in Character
    BY <1>1
  <2>3. s[i] < 256
    <3>1. s[i] \in Nat /\ s[i] <= 255
      BY <2>2, ByteIs
    <3>2. QED
      BY <3>1
  <2>4. s[i] < 128 \/ cs = "latin1" \/ (cs = "cp1252" /\ s[i] > 159)
    OBVIOUS
  <2>5. QED
    BY <1>2, <2>2, <2>3, <2>4, EncodeBytes
<1> HIDE DEF n
<1>5. \A m \in 1..n : F[n][m] = s[m]
  BY <1>2, <1>3, <1>4, RunsPlain
<1>6. /\ Sent(cs, s) \in Seq(Byte \ {0}) /\ Len(Sent(cs, s)) = n
      /\ \A i \in 1..n : Sent(cs, s)[i] = F[n][i]
  BY <1>1, <1>2, SentBytes DEF n
<1>7. QED
  BY <1>5, <1>6, SeqEqual DEF n

(* In UTF-8 a name that is not plain arrives as one that is not either:    *)
(* its first character above 127 leaves a byte above 127 in its place.     *)
LEMMA SentNotPlain ==
  ASSUME NEW s \in Seq(Byte \ {0}), ~ Plain(s)
  PROVE  ~ Plain(Sent("utf8", s))
<1> DEFINE x == Sent("utf8", s)
           n == Len(s)
<1> SUFFICES ASSUME Plain(x) PROVE FALSE
  OBVIOUS
<1>1. s \in Seq(Character) /\ "utf8" \in Charset
  BY ByteCharacters DEF Charset
<1>2. PICK F, parts :
        /\ Len(parts) = Len(s) /\ \A i \in 1..Len(s) : parts[i] = Encode("utf8", s[i])
        /\ Runs(F, parts, Byte \ {0}) /\ GetBytes("utf8", s) = F[Len(s)]
  BY <1>1, GetBytesRuns
<1>3. /\ Len(x) = n /\ \A i \in 1..n : x[i] = F[n][i]
  BY <1>1, <1>2, SentBytes
<1> HIDE DEF x
<1>4. \A i \in 1..n : F[n][i] < 128
  BY <1>3 DEF Plain
<1> DEFINE T == {k \in 0..n : \A i \in 1..k : s[i] < 128}
<1>5. n \in Nat /\ 0 \in T
  OBVIOUS
<1>6. ASSUME NEW k \in 0..n, k < n, k \in T
      PROVE  k + 1 \in T
  <2> DEFINE j == k + 1
  <2>1. j \in 1..n /\ j \in 0..n /\ n \in 0..n /\ j <= n /\ j - 1 = k /\ k \in Nat
        /\ \A m \in 1..j : m \in 1..k \/ m = j
    BY <1>5, <1>6
  <2>2. j = k + 1
    OBVIOUS
  <2>3. \A i \in 1..k : i \in 1..n /\ s[i] < 128
    BY <1>6
  <2> HIDE DEF j, n, T
  <2>4. \A i \in 1..k : parts[i] = << s[i] >>
    <3>1. TAKE i \in 1..k
    <3>2. s[i] \in Character /\ s[i] < 128 /\ parts[i] = Encode("utf8", s[i])
      BY <1>1, <1>2, <2>3 DEF n
    <3>3. QED
      BY <1>1, <3>2, EncodeBytes
  <2>5. Len(F[k]) = k
    <3>1. k \in 0..Len(parts) /\ k \in 0..k
      BY <1>2, <2>1 DEF n
    <3>2. QED
      BY <1>2, <2>4, <3>1, RunsPlain
  <2> DEFINE f == F[k]
             p == parts[j]
             g == F[j]
  <2>6. /\ s[j] \in Character /\ p = Encode("utf8", s[j])
        /\ f \in Seq(Byte \ {0}) /\ p \in Seq(Byte \ {0}) /\ g = f \o p
    <3>1. j \in 1..Len(s) /\ j \in 1..Len(parts) /\ k \in 0..Len(parts)
      BY <1>2, <2>1 DEF n
    <3>2. s[j] \in Character
      BY <1>1, <3>1
    <3>3. parts[j] = Encode("utf8", s[j])
      BY <1>2, <3>1
    <3>4. F[k] \in Seq(Byte \ {0})
      BY <1>2, <3>1 DEF Runs
    <3>5. parts[j] \in Seq(Byte \ {0}) /\ F[j] = F[j - 1] \o parts[j]
      BY <1>2, <3>1 DEF Runs
    <3>6. QED
      BY <2>1, <3>2, <3>3, <3>4, <3>5
  <2>7. Len(f) = k
    BY <2>5
  <2>8. p # <<>> /\ (s[j] >= 128 => p[1] >= 128)
    BY <1>1, <2>6, EncodeBytes
  <2> HIDE DEF f, p, g
  <2>9. /\ Len(f \o p) = Len(f) + Len(p)
        /\ \A m \in 1..Len(p) : (f \o p)[Len(f) + m] = p[m]
    <3>1. f \in Seq(Byte \ {0}) /\ p \in Seq(Byte \ {0})
      BY <2>6
    <3>2. QED
      BY <3>1
  <2>10. Len(p) \in Nat \ {0}
    BY <2>6, <2>8, EmptySeq
  <2>11. Len(g) \in Nat /\ Len(g) >= j /\ g[j] = p[1]
    <3>1. 1 \in 1..Len(p)
      BY <2>10
    <3>2. g[k + 1] = p[1] /\ Len(g) = k + Len(p)
      BY <2>6, <2>7, <2>9, <3>1
    <3>3. QED
      BY <2>1, <2>2, <2>10, <3>2
  <2>12. F[n][j] = g[j]
    <3>1. j \in 1..Len(g) /\ n \in 0..Len(parts) /\ j \in 0..Len(parts)
      BY <1>2, <2>1, <2>11 DEF n
    <3>2. \A m \in 1..Len(F[j]) : F[n][m] = F[j][m]
      BY <1>2, <2>1, <3>1, RunsGrow
    <3>3. QED
      BY <3>1, <3>2 DEF g
  <2>13. s[j] < 128
    <3>0. F[n][j] < 128
      BY <1>4, <2>1
    <3>1. s[j] \in Nat /\ p[1] < 128
      BY <2>6, <2>11, <2>12, <3>0, CharacterIs
    <3>2. p[1] \in Nat
      <4>1. p[1] \in Byte
        BY <2>6, <2>8
      <4>2. QED
        BY <4>1, ByteIs
    <3>3. QED
      BY <2>8, <3>1, <3>2
  <2>14. \A m \in 1..j : s[m] < 128
    BY <2>1, <2>3, <2>13
  <2>15. QED
    BY <2>1, <2>14 DEF T, j
<1> HIDE DEF T
<1>7. \A k \in 0..n : k \in T
  BY <1>5, <1>6, UpTo
<1>8. n \in T
  BY <1>5, <1>7
<1>9. QED
  BY <1>8 DEF T, Plain

(* What eatString makes of bytes with a NUL among them.                    *)
LEMMA EatBytes ==
  ASSUME NEW b \in Seq(Byte), NEW z \in 1..Len(b), b[z] = 0
  PROVE  EatString(b).str \in Seq(Byte) /\ EatString(b).rest \in Seq(Byte)
<1> DEFINE T == {i \in 1..Len(b) : b[i] = 0}
           k == FirstNul(b)
<1>1. Len(b) \in Nat
  OBVIOUS
<1>2. PICK i \in T : \A j \in T : i <= j
  <2>1. T \subseteq Nat /\ T # {}
    BY <1>1
  <2> HIDE DEF T
  <2>2. QED
    BY <2>1, Least
<1>3. i \in 1..Len(b) /\ b[i] = 0 /\ \A j \in 1..(i - 1) : b[j] # 0
  <2>1. \A j \in 1..(i - 1) : j \in 1..Len(b) /\ ~ (i <= j)
    BY <1>1, <1>2
  <2>2. QED
    BY <1>2, <2>1
<1>4. k \in 1..Len(b)
  BY <1>3 DEF FirstNul
<1> HIDE DEF k
<1>5. SubSeq(b, 1, k - 1) \in Seq(Byte) /\ SubSeq(b, k + 1, Len(b)) \in Seq(Byte)
  <2>1. /\ \A j \in 1..(k - 1) : b[j] \in Byte
        /\ \A j \in (k + 1)..Len(b) : b[j] \in Byte
        /\ k - 1 \in Int /\ k + 1 \in Int /\ Len(b) \in Int /\ 1 \in Int
    BY <1>1, <1>4
  <2>2. QED
    BY <2>1, SubSeqProperties
<1>6. QED
  BY <1>5 DEF EatString, k

-----------------------------------------------------------------------------
(* Rows of a list of entries, and what they say of the files in U, those   *)
(* nobody touched, whose sizes are f: each at most once, none but visible  *)
(* files that are not pending in P, with the low 16 bits of the size, and  *)
(* all of those.  h are the names with the sizes they had.                 *)
Rows(es) == [i \in 1..Len(es) |-> Row(es[i])]

Once(rs, U) ==
  \A n \in U : \A i, j \in 1..Len(rs) : rs[i].name = n /\ rs[j].name = n => i = j

Right(rs, P, U, f) ==
  \A n \in U : \A i \in 1..Len(rs) : rs[i].name = n =>
    n \in DOMAIN f /\ Visible(n) /\ n \notin P /\ rs[i].size = f[n] % 65536

Complete(rs, P, U, f) ==
  \A n \in U : n \in DOMAIN f /\ Visible(n) /\ n \notin P =>
    \E i \in 1..Len(rs) : rs[i].name = n

Kept(rs, P, U, f) == Once(rs, U) /\ Right(rs, P, U, f) /\ Complete(rs, P, U, f)

Sound(rs, h) == \A i \in 1..Len(rs) : << rs[i].name, rs[i].size >> \in h

(* An entry that is made of a file, and its row.                           *)
LEMMA EntryRow ==
  ASSUME NEW N, NEW n \in N, NEW dir \in BOOLEAN, NEW x \in Int
  PROVE  /\ Entry(n, dir, x) \in Entries(N) /\ Entry(n, dir, x).name = n
         /\ Row(Entry(n, dir, x)).size = IF dir THEN ReadShort(DirMark) ELSE x % 65536
<1>1. x % 65536 \in Short
  <2>1. x % 65536 \in Nat /\ x % 65536 <= 65535
    BY SMT
  <2>2. QED
    BY <2>1, ShortIs
<1> DEFINE e == Entry(n, dir, x)
<1>2. e \in Entries(N) /\ e.name = n /\ e.isDir = dir /\ e.size = x % 65536
  BY <1>1 DEF Entry, Entries
<1> HIDE DEF e
<1>3. Row(e).size = IF dir THEN ReadShort(DirMark) ELSE x % 65536
  BY <1>2, EntrySize DEF Row
<1>4. QED
  BY <1>2, <1>3 DEF e

(* The rows of a list in front of which an entry is put.                   *)
LEMMA RowsPush ==
  ASSUME NEW N, NEW s \in Seq(Entries(N)), NEW e \in Entries(N)
  PROVE  /\ << e >> \o s \in Seq(Entries(N))
         /\ Len(Rows(s)) = Len(s) /\ Len(Rows(<< e >> \o s)) = Len(s) + 1
         /\ Rows(<< e >> \o s)[1] = Row(e)
         /\ \A i \in 1..Len(s) : Rows(<< e >> \o s)[i + 1] = Rows(s)[i]
<1> DEFINE c == << e >>
           t == c \o s
<1>1. c \in Seq(Entries(N)) /\ Len(c) = 1 /\ c[1] = e
  OBVIOUS
<1>2. Len(s) \in Nat
  OBVIOUS
<1> HIDE DEF c
<1>3. /\ t \in Seq(Entries(N)) /\ Len(t) = Len(c) + Len(s)
      /\ \A m \in 1..Len(c) : t[m] = c[m]
      /\ \A m \in 1..Len(s) : t[Len(c) + m] = s[m]
  <2>1. c \in Seq(Entries(N))
    BY <1>1
  <2>2. QED
    BY <2>1
<1> HIDE DEF t
<1>4. Len(t) = Len(s) + 1 /\ t[1] = e /\ \A i \in 1..Len(s) : t[i + 1] = s[i]
  <2>1. \A i \in 1..Len(s) : Len(c) + i = i + 1
    BY <1>1, <1>2
  <2>2. 1 \in 1..Len(c)
    BY <1>1
  <2>3. QED
    BY <1>1, <1>2, <1>3, <2>1, <2>2
<1>5. \A i \in 1..Len(s) : i + 1 \in 1..(Len(s) + 1)
  BY <1>2
<1>6. Len(Rows(s)) = Len(s) /\ \A i \in 1..Len(s) : Rows(s)[i] = Row(s[i])
  BY <1>2 DEF Rows
<1>7. Len(Rows(t)) = Len(t) /\ \A i \in 1..Len(t) : Rows(t)[i] = Row(t[i])
  BY <1>3 DEF Rows
<1>8. 1 \in 1..(Len(s) + 1)
  BY <1>2
<1>9. Rows(t)[1] = Row(e) /\ \A i \in 1..Len(s) : Rows(t)[i + 1] = Rows(s)[i]
  BY <1>4, <1>5, <1>6, <1>7, <1>8
<1>10. QED
  BY <1>3, <1>4, <1>6, <1>7, <1>9 DEF t, c

(* Changes to files that are touched by them change nothing.               *)
LEMMA KeptLater ==
  ASSUME NEW rs, NEW P, NEW Q, NEW U, NEW V, V \subseteq U, NEW f, NEW g,
         \A n \in V : /\ n \in DOMAIN f <=> n \in DOMAIN g
                      /\ n \in DOMAIN f => g[n] = f[n]
                      /\ Visible(n) => (n \in P <=> n \in Q),
         Kept(rs, P, U, f)
  PROVE  Kept(rs, Q, V, g)
<1>1. Once(rs, V)
  BY DEF Kept, Once
<1>2. Right(rs, Q, V, g)
  BY DEF Kept, Right
<1>3. Complete(rs, Q, V, g)
  BY DEF Kept, Complete
<1>4. QED
  BY <1>1, <1>2, <1>3 DEF Kept

(* The row of a pending file is put in front of the others.                *)
LEMMA KeptPush ==
  ASSUME NEW N, NEW s \in Seq(Entries(N)), NEW e \in Entries(N),
         NEW P, NEW Q, NEW U, NEW f,
         e.name \in P, e.name \notin Q,
         \A n \in U : n # e.name => (n \in P <=> n \in Q),
         e.name \in U => /\ e.name \in DOMAIN f /\ Visible(e.name)
                         /\ Row(e).size = f[e.name] % 65536,
         Kept(Rows(s), P, U, f)
  PROVE  Kept(Rows(<< e >> \o s), Q, U, f)
<1> DEFINE t  == << e >> \o s
           rs == Rows(s)
           rt == Rows(t)
           k  == Len(s)
<1>1. /\ k \in Nat /\ Len(rs) = k /\ Len(rt) = k + 1
      /\ rt[1] = Row(e) /\ \A i \in 1..k : rt[i + 1] = rs[i]
  BY RowsPush
<1>2. Row(e).name = e.name
  BY DEF Row
<1>3. Once(rs, U) /\ Right(rs, P, U, f) /\ Complete(rs, P, U, f)
  BY DEF Kept
<1> HIDE DEF rs, rt, t, k
<1>4. \A i \in 1..(k + 1) : i = 1 \/ \E j \in 1..k : i = j + 1
  <2>1. TAKE i \in 1..(k + 1)
  <2>2. i = 1 \/ (i - 1 \in 1..k /\ i = (i - 1) + 1)
    BY <1>1
  <2>3. QED
    BY <2>2
<1>5. \A i \in 1..k : i + 1 \in 1..(k + 1) /\ i \in Int
  BY <1>1
<1>6. \A i \in 1..k : rs[i].name \in U => rs[i].name # e.name
  BY <1>1, <1>3 DEF Right
<1>7. Once(rt, U)
  <2>1. SUFFICES ASSUME NEW n \in U, NEW i \in 1..(k + 1), NEW j \in 1..(k + 1),
                        rt[i].name = n, rt[j].name = n
                 PROVE  i = j
    BY <1>1 DEF Once
  <2>2. CASE i = 1 /\ j = 1
    BY <2>2
  <2>3. CASE i = 1 /\ j # 1
    <3>1. PICK a \in 1..k : j = a + 1
      BY <1>4, <2>3
    <3>2. rs[a].name = n /\ n = e.name
      BY <1>1, <1>2, <2>1, <2>3, <3>1
    <3>3. QED
      BY <1>6, <3>2
  <2>4. CASE i # 1 /\ j = 1
    <3>1. PICK a \in 1..k : i = a + 1
      BY <1>4, <2>4
    <3>2. rs[a].name = n /\ n = e.name
      BY <1>1, <1>2, <2>1, <2>4, <3>1
    <3>3. QED
      BY <1>6, <3>2
  <2>5. CASE i # 1 /\ j # 1
    <3>1. PICK a \in 1..k : i = a + 1
      BY <1>4, <2>5
    <3>2. PICK b \in 1..k : j = b + 1
      BY <1>4, <2>5
    <3>3. rs[a].name = n /\ rs[b].name = n
      BY <1>1, <2>1, <3>1, <3>2
    <3>4. a = b
      BY <1>1, <1>3, <3>3 DEF Once
    <3>5. QED
      BY <3>1, <3>2, <3>4
  <2>6. QED
    BY <2>2, <2>3, <2>4, <2>5
<1>8. Right(rt, Q, U, f)
  <2>1. SUFFICES ASSUME NEW n \in U, NEW i \in 1..(k + 1), rt[i].name = n
                 PROVE  n \in DOMAIN f /\ Visible(n) /\ n \notin Q /\ rt[i].size = f[n] % 65536
    BY <1>1 DEF Right
  <2>2. CASE i = 1
    BY <1>1, <1>2, <2>1, <2>2
  <2>3. CASE i # 1
    <3>1. PICK a \in 1..k : i = a + 1
      BY <1>4, <2>3
    <3>0. rt[i] = rs[a] /\ rs[a].name = n
      BY <1>1, <2>1, <3>1
    <3>2. rt[i] = rs[a] /\ n # e.name
      BY <1>6, <3>0
    <3>3. n \in DOMAIN f /\ Visible(n) /\ n \notin P /\ rs[a].size = f[n] % 65536
      BY <1>1, <1>3, <2>1, <3>2 DEF Right
    <3>4. QED
      BY <3>2, <3>3
  <2>4. QED
    BY <2>2, <2>3
<1>9. Complete(rt, Q, U, f)
  <2>1. SUFFICES ASSUME NEW n \in U, n \in DOMAIN f, Visible(n), n \notin Q
                 PROVE  \E i \in 1..(k + 1) : rt[i].name = n
    BY <1>1 DEF Complete
  <2>2. CASE n = e.name
    <3>1. 1 \in 1..(k + 1)
      BY <1>1
    <3>2. QED
      BY <1>1, <1>2, <2>2, <3>1
  <2>3. CASE n # e.name
    <3>1. PICK a \in 1..k : rs[a].name = n
      BY <1>1, <1>3, <2>1, <2>3 DEF Complete
    <3>2. rt[a + 1].name = n /\ a + 1 \in 1..(k + 1)
      BY <1>1, <1>5, <3>1
    <3>3. QED
      BY <3>2
  <2>4. QED
    BY <2>2, <2>3
<1>10. QED
  BY <1>7, <1>8, <1>9 DEF Kept, rt, t

LEMMA SoundPush ==
  ASSUME NEW N, NEW s \in Seq(Entries(N)), NEW e \in Entries(N), NEW h,
         << e.name, Row(e).size >> \in h, Sound(Rows(s), h)
  PROVE  Sound(Rows(<< e >> \o s), h)
<1> DEFINE t  == << e >> \o s
           rs == Rows(s)
           rt == Rows(t)
           k  == Len(s)
<1>1. /\ k \in Nat /\ Len(rs) = k /\ Len(rt) = k + 1
      /\ rt[1] = Row(e) /\ \A i \in 1..k : rt[i + 1] = rs[i]
  BY RowsPush
<1>2. Row(e).name = e.name
  BY DEF Row
<1>3. Sound(rs, h)
  OBVIOUS
<1> HIDE DEF rs, rt, t, k
<1>4. ASSUME NEW i \in 1..(k + 1)
      PROVE  << rt[i].name, rt[i].size >> \in h
  <2>1. i = 1 \/ (i - 1 \in 1..k /\ i = (i - 1) + 1)
    BY <1>1
  <2>2. CASE i = 1
    BY <1>1, <1>2, <2>2
  <2>3. CASE i # 1
    <3>1. PICK a \in 1..k : i = a + 1
      BY <2>1, <2>3
    <3>2. rt[i] = rs[a]
      BY <1>1, <3>1
    <3>3. QED
      BY <1>1, <1>3, <3>2 DEF Sound
  <2>4. QED
    BY <2>2, <2>3
<1>5. QED
  BY <1>1, <1>4 DEF Sound, rt, t

-----------------------------------------------------------------------------
(* The invariants of ListSystem.  Whatever file there is has a name that   *)
(* is not empty, of bytes without a NUL.                                   *)
NamesStored == names \subseteq Seq(Byte \ {0}) \ {<<>>}

(* While it lists, the process holds one name at most, that of a file it   *)
(* found visible and readdir will not return again; otherwise no entries.  *)
Scanning(pc) == pc \in {"scan", "stat"}

ScanOrder ==
  /\ ~ Scanning(lpc) => stack = <<>>
  /\ lpc = "stat" => cur \in names /\ Visible(cur) /\ cur \notin todo
  /\ lpc # "stat" => cur = NoEntry

(* A request l and its answer take turns: l lies in the socket, or the     *)
(* process lists for it, or it is dealt with and the answer, that of a     *)
(* list if it asked for one, may have been read; or the process has ended. *)
Listing(b, N) == \E es \in Seq(Entries(N)) : b = ListReply(es)

InTurn(l, pc, rq, rp, N) ==
  \/ pc = "recv" /\ rq = l /\ rp = <<>>
  \/ Scanning(pc) /\ rq = <<>> /\ rp = <<>> /\ l[1] = 49
  \/ pc = "recv" /\ rq = <<>> /\ (l[1] = 49 => Listing(rp, N))
  \/ pc = "dead" /\ rq = <<>> /\ rp = <<>> /\ l[1] \in {48, 49}
  \/ pc = "closed" /\ rq = <<>> /\ rp = <<>> /\ l[1] = 57

(* The table has at most one request under way, and goes on when its       *)
(* process has ended, as one does that lists past its buffer.              *)
TableTurn ==
  /\ dpc = "none" \/ tpc = "none"
  /\ dpc # "none" => cdir
  /\ dpc # "none" /\ lpc = "dead" => overlong /\ reply = <<>>
  /\ dpc = "closed" => lpc = "dead"
  /\ dpc = "idle" /\ lpc # "dead" => lpc = "recv" /\ req = <<>> /\ reply = <<>>
  /\ dpc = "list" /\ lpc # "dead" => InTurn(<< 49 >>, lpc, req, reply, names)
  /\ dpc = "del" => sel \in names
  /\ dpc = "del" /\ lpc # "dead" =>
       InTurn(<< 55 >> \o AddString(charset, sel), lpc, req, reply, names)

(* The sizes of the files of f are in h, or were in h already with g.      *)
Recorded(f, h) == \A n \in DOMAIN f : << n, f[n] % 65536 >> \in h

RecordedSince(g, f, h) ==
  \A n \in DOMAIN f : \/ n \in DOMAIN g /\ f[n] = g[n]
                     \/ << n, f[n] % 65536 >> \in h

(* What a change to the folder does to names and sizes.                    *)
FolderStep ==
  /\ touched \subseteq touched' /\ had \subseteq had'
  /\ \A n \in names \ touched' : /\ n \in DOMAIN folder <=> n \in DOMAIN folder'
                                 /\ n \in DOMAIN folder => folder'[n] = folder[n]
  /\ RecordedSince(folder, folder', had')
  /\ \A n \in DOMAIN folder \ DOMAIN folder' : n \in touched' /\ GoneMarks(n) \subseteq had'
  /\ DOMAIN folder' \subseteq names /\ folder' \in [DOMAIN folder' -> Size \cup {0}]
  /\ touched' \subseteq names

LEMMA SameFolder ==
  ASSUME ListTypeOK, UNCHANGED <<folder, touched, had>>
  PROVE  FolderStep
BY DEF FolderStep, RecordedSince, ListTypeOK

LEMMA RemovedStep ==
  ASSUME ListTypeOK, NEW n, Removed(n)
  PROVE  FolderStep /\ DOMAIN folder' = DOMAIN folder \ {n}
<1>1. DOMAIN folder \subseteq names /\ folder \in [DOMAIN folder -> Size \cup {0}] /\ touched \subseteq names
  BY DEF ListTypeOK
<1>2. /\ DOMAIN folder' = DOMAIN folder \ {n}
      /\ \A m \in DOMAIN folder \ {n} : folder'[m] = folder[m]
      /\ folder' \in [DOMAIN folder \ {n} -> Size \cup {0}]
  BY <1>1 DEF Removed
<1>3. n \in DOMAIN folder => touched' = touched \cup {n} /\ had' = had \cup GoneMarks(n)
  BY DEF Removed
<1>4. n \notin DOMAIN folder => touched' = touched /\ had' = had
  BY DEF Removed
<1>5. touched \subseteq touched' /\ had \subseteq had' /\ touched' \subseteq names
  BY <1>1, <1>3, <1>4
<1>6. \A m \in names \ touched' : /\ m \in DOMAIN folder <=> m \in DOMAIN folder'
                                  /\ m \in DOMAIN folder => folder'[m] = folder[m]
  BY <1>2, <1>3
<1>7. \A m \in DOMAIN folder \ DOMAIN folder' : m \in touched' /\ GoneMarks(m) \subseteq had'
  BY <1>2, <1>3
<1>8. QED
  BY <1>1, <1>2, <1>5, <1>6, <1>7 DEF FolderStep, RecordedSince

LEMMA RecordedPut ==
  ASSUME NEW g, NEW f, NEW h, NEW n, DOMAIN f = DOMAIN g \cup {n},
         \A m \in DOMAIN g : m # n => f[m] = g[m], << n, f[n] % 65536 >> \in h
  PROVE  RecordedSince(g, f, h)
<1>1. ASSUME NEW m \in DOMAIN f, m # n PROVE m \in DOMAIN g /\ f[m] = g[m]
  BY <1>1
<1>2. QED
  BY <1>1 DEF RecordedSince

LEMMA EmptiedStep ==
  ASSUME ListTypeOK, NEW n, Emptied(n)
  PROVE  FolderStep /\ DOMAIN folder' = DOMAIN folder
<1>1. /\ DOMAIN folder \subseteq names /\ folder \in [DOMAIN folder -> Size \cup {0}]
      /\ touched \subseteq names
  BY DEF ListTypeOK
<1>2. /\ n \in DOMAIN folder /\ folder' = [folder EXCEPT ![n] = 0]
      /\ touched' = touched \cup {n} /\ had' = had \cup {<<n, 0>>}
  BY DEF Emptied
<1>3. /\ DOMAIN folder' = DOMAIN folder /\ folder'[n] = 0
      /\ \A m \in DOMAIN folder : m # n => folder'[m] = folder[m]
      /\ folder' \in [DOMAIN folder -> Size \cup {0}]
  BY <1>1, <1>2
<1>4. RecordedSince(folder, folder', had')
  <2> DEFINE f == folder'
             h == had'
  <2>1. << n, f[n] % 65536 >> \in h
    <3>1. 0 % 65536 = 0
      OBVIOUS
    <3>2. QED
      BY <1>2, <1>3, <3>1
  <2>2. DOMAIN f = DOMAIN folder \cup {n} /\ \A m \in DOMAIN folder : m # n => f[m] = folder[m]
    BY <1>2, <1>3
  <2> HIDE DEF f, h
  <2>3. RecordedSince(folder, f, h)
    BY <2>1, <2>2, RecordedPut
  <2>4. QED
    BY <2>3 DEF f, h
<1>5. QED
  BY <1>1, <1>2, <1>3, <1>4 DEF FolderStep

LEMMA RemoveFileStep ==
  ASSUME ListTypeOK, NEW n, removeFile(n)
  PROVE  FolderStep /\ DOMAIN folder \ DOMAIN folder' \subseteq {n}
<1>1. CASE Removed(n)
  BY <1>1, RemovedStep
<1>2. CASE Untouched
  BY <1>2, SameFolder DEF Untouched
<1>3. QED
  BY <1>1, <1>2 DEF removeFile

LEMMA OthersStep ==
  ASSUME ListTypeOK, Others
  PROVE  /\ FolderStep /\ changes' \in 0..MaxChanges
         /\ UNCHANGED <<names, cdir, lpc, scanVars, req, reply, overlong>>
<1>0. /\ DOMAIN folder \subseteq names /\ folder \in [DOMAIN folder -> Size \cup {0}]
      /\ touched \subseteq names /\ changes \in 0..MaxChanges /\ MaxChanges \in Nat
  BY ListAssumption DEF ListTypeOK
<1>1. ASSUME NEW n \in names, Unlink(n)
      PROVE  /\ FolderStep /\ changes' \in 0..MaxChanges
             /\ UNCHANGED <<names, cdir, lpc, scanVars, req, reply, overlong>>
  <2>1. Removed(n) /\ changes' = changes + 1 /\ changes < MaxChanges
        /\ UNCHANGED <<names, cdir, lpc, scanVars, req, reply, overlong>>
    BY <1>1 DEF Unlink
  <2>2. FolderStep
    BY <2>1, RemovedStep
  <2>3. changes' \in 0..MaxChanges
    BY <1>0, <2>1
  <2>4. QED
    BY <2>1, <2>2, <2>3
<1>2. ASSUME NEW n \in names, NEW size \in Size, PutFile(n, size)
      PROVE  /\ FolderStep /\ changes' \in 0..MaxChanges
             /\ UNCHANGED <<names, cdir, lpc, scanVars, req, reply, overlong>>
  <2>1. /\ changes' = changes + 1 /\ changes < MaxChanges
        /\ UNCHANGED <<names, cdir, lpc, scanVars, req, reply, overlong>>
        /\ touched' = touched \cup {n} /\ had' = had \cup {<<n, size % 65536>>}
    BY <1>2 DEF PutFile
  <2>2. folder' = [m \in DOMAIN folder \cup {n} |-> IF m = n THEN size ELSE folder[m]]
    BY <1>2 DEF PutFile
  <2>3. /\ DOMAIN folder' = DOMAIN folder \cup {n} /\ folder'[n] = size
        /\ \A m \in DOMAIN folder : m # n => folder'[m] = folder[m]
        /\ folder' \in [DOMAIN folder \cup {n} -> Size \cup {0}]
    BY <1>0, <2>2
  <2>4. changes' \in 0..MaxChanges
    BY <1>0, <2>1
  <2>5. \A m \in names \ touched' : /\ m \in DOMAIN folder <=> m \in DOMAIN folder'
                                    /\ m \in DOMAIN folder => folder'[m] = folder[m]
    BY <2>1, <2>3
  <2>6. RecordedSince(folder, folder', had')
    <3> DEFINE f == folder'
               h == had'
    <3>1. << n, f[n] % 65536 >> \in h
      BY <2>1, <2>3
    <3>2. DOMAIN f = DOMAIN folder \cup {n} /\ \A m \in DOMAIN folder : m # n => f[m] = folder[m]
      BY <2>3
    <3> HIDE DEF f, h
    <3>3. RecordedSince(folder, f, h)
      BY <3>1, <3>2, RecordedPut
    <3>4. QED
      BY <3>3 DEF f, h
  <2>7. FolderStep
    BY <1>0, <2>1, <2>3, <2>5, <2>6 DEF FolderStep
  <2>8. QED
    BY <2>1, <2>4, <2>7
<1>3. QED
  BY <1>1, <1>2 DEF Others

LEMMA AnswerBytes ==
  /\ StringAnswer \in Seq(Byte) /\ StringAnswer # <<>> /\ << 54 >> \in Seq(Byte)
  /\ \A x, y \in Seq(Byte) : x \o y \in Seq(Byte) /\ (y # <<>> => x \o y # <<>>)
<1>1. 67 \in Byte \ {0} /\ 54 \in Byte
  BY ByteIs
<1> DEFINE c == << 67 >>
<1>2. c \in Seq(Byte \ {0}) /\ << 54 >> \in Seq(Byte)
  BY <1>1
<1>3. StringAnswer = WriteString(c)
  BY DEF StringAnswer
<1>4. Len(c) = 1
  OBVIOUS
<1> HIDE DEF c
<1>5. StringAnswer \in Seq(Byte) /\ Len(StringAnswer) = 2
  <2>1. WriteString(c) \in Seq(Byte) /\ Len(WriteString(c)) = Len(c) + 1
    BY <1>2, StringBytes
  <2>2. Len(c) + 1 = 2
    BY <1>4
  <2>3. QED
    BY <1>3, <2>1, <2>2
<1>6. ASSUME NEW x \in Seq(Byte), NEW y \in Seq(Byte)
      PROVE  x \o y \in Seq(Byte) /\ (y # <<>> => x \o y # <<>>)
  <2>1. x \o y \in Seq(Byte) /\ Len(x \o y) = Len(x) + Len(y)
    OBVIOUS
  <2> DEFINE z == x \o y
             i == Len(x)
             j == Len(y)
             k == Len(z)
  <2>2. i \in Nat /\ j \in Nat /\ (y # <<>> => j # 0) /\ k = i + j
    BY <2>1
  <2> HIDE DEF i, j, k, z
  <2>3. y # <<>> => k # 0
    BY <2>2
  <2>4. y # <<>> => z # <<>>
    BY <2>3 DEF k
  <2>5. QED
    BY <2>1, <2>4 DEF z
<1>7. StringAnswer # <<>>
  BY <1>5
<1>8. QED
  BY <1>2, <1>5, <1>6, <1>7

(* What a process does to the folder, and the types it keeps.              *)
LEMMA ProcessNames ==
  ASSUME ProcessStep
  PROVE  names' = names
BY DEF ProcessStep, Create, ResList, UploadNothing, removeMess, Ignore, Exit, BeginList,
       ReadDir, AddToStack, SendList

LEMMA ProcessTypes ==
  ASSUME ListTypeOK, NamesStored, ScanOrder, ProcessStep
  PROVE  ListTypeOK'
<1>0. /\ DOMAIN folder \subseteq names /\ folder \in [DOMAIN folder -> Size \cup {0}]
      /\ cdir \in BOOLEAN /\ overlong \in BOOLEAN
      /\ lpc \in {"recv", "scan", "stat", "closed", "dead"}
      /\ todo \subseteq names /\ cur \in names \cup {NoEntry}
      /\ stack \in Seq(Entries(names))
      /\ req \in Seq(Byte) /\ reply \in Seq(Byte) /\ <<>> \in Seq(Byte)
      /\ touched \subseteq names
      /\ changes \in 0..MaxChanges
  BY DEF ListTypeOK, Entries
<1>1. SUFFICES
      /\ DOMAIN folder' \subseteq names /\ folder' \in [DOMAIN folder' -> Size \cup {0}]
      /\ cdir' \in BOOLEAN /\ overlong' \in BOOLEAN
      /\ lpc' \in {"recv", "scan", "stat", "closed", "dead"}
      /\ todo' \subseteq names /\ cur' \in names \cup {NoEntry}
      /\ stack' \in Seq(Entries(names))
      /\ req' \in Seq(Byte) /\ reply' \in Seq(Byte)
      /\ touched' \subseteq names
      /\ changes' \in 0..MaxChanges
  BY ProcessNames DEF ListTypeOK, Entries
<1>2. CASE Create
  BY <1>0, <1>2, AnswerBytes DEF Create, Asked, Answer, scanVars, histVars
<1>3. CASE ResList
  BY <1>0, <1>3, AnswerBytes DEF ResList, Asked, Answer, scanVars, histVars
<1>4. CASE UploadNothing
  <2>1. FolderStep
    <3>1. PICK n : n = Name
      OBVIOUS
    <3>2. Untouched \/ Removed(n) \/ Emptied(n)
      BY <1>4, <3>1 DEF UploadNothing
    <3>3. QED
      BY <3>2, SameFolder, RemovedStep, EmptiedStep DEF Untouched
  <2>2. reply' \in Seq(Byte)
    BY <1>0, <1>4, AnswerBytes DEF UploadNothing, Answer
  <2>3. QED
    BY <1>0, <1>4, <2>1, <2>2 DEF UploadNothing, Asked, scanVars, FolderStep
<1>5. CASE removeMess
  <2>1. FolderStep
    <3>1. PICK n : n = Name
      OBVIOUS
    <3>2. Untouched \/ removeFile(n)
      BY <1>5, <3>1 DEF removeMess
    <3>3. QED
      BY <3>2, SameFolder, RemoveFileStep DEF Untouched
  <2>2. reply' \in Seq(Byte)
    BY <1>0, <1>5, AnswerBytes DEF removeMess, Answer
  <2>3. QED
    BY <1>0, <1>5, <2>1, <2>2 DEF removeMess, Asked, scanVars, FolderStep
<1>6. CASE Ignore
  BY <1>0, <1>6 DEF Ignore, Asked, scanVars, histVars
<1>7. CASE Exit
  BY <1>0, <1>7 DEF Exit, Asked, scanVars, histVars
<1>8. CASE BeginList
  BY <1>0, <1>8 DEF BeginList, Asked
<1>9. ASSUME NEW n \in names, ReadDir(n)
      PROVE  <1>1!1
  <2>1. stack' \in Seq(Entries(names))
    <3>1. CASE stack' = stack
      BY <1>0, <3>1
    <3>2. CASE stack' = << Entry(n, TRUE, 0) >> \o stack
      <4>0. 0 \in Int
        OBVIOUS
      <4>1. PICK dir \in BOOLEAN, zero \in Int : dir = TRUE /\ zero = 0
        BY <4>0
      <4>2. Entry(n, dir, zero) \in Entries(names)
        BY EntryRow
      <4> DEFINE e == Entry(n, dir, zero)
      <4>3. stack' = << e >> \o stack
        BY <3>2, <4>1
      <4> HIDE DEF e
      <4>4. << e >> \o stack \in Seq(Entries(names))
        BY <1>0, <4>2, RowsPush DEF e
      <4>5. QED
        BY <4>3, <4>4
    <3>3. QED
      BY <1>9, <3>1, <3>2 DEF ReadDir
  <2>2. QED
    BY <1>0, <1>9, <2>1 DEF ReadDir, histVars
<1>10. CASE AddToStack
  <2>1. cur \in names
    BY <1>10 DEF AddToStack, ScanOrder
  <2>2. fileSize(cur) \in Int
    <3>1. \A m \in DOMAIN folder : folder[m] \in Int
      BY <1>0, ListAssumption
    <3>2. QED
      BY <3>1 DEF fileSize
  <2>3. PICK dir \in BOOLEAN, x \in Int : dir = FALSE /\ x = fileSize(cur)
    BY <2>2
  <2> DEFINE e == Entry(cur, dir, x)
  <2>4. e \in Entries(names)
    BY <2>1, EntryRow
  <2>5. stack' = << e >> \o stack
    BY <1>10, <2>3 DEF AddToStack
  <2> HIDE DEF e
  <2>6. stack' \in Seq(Entries(names))
    BY <1>0, <2>4, <2>5, RowsPush
  <2>7. QED
    BY <1>0, <1>10, <2>6 DEF AddToStack, histVars
<1>11. CASE SendList
  <2>1. names \subseteq Seq(Byte \ {0})
    BY DEF NamesStored
  <2>2. ListReply(stack) \in Seq(Byte)
    BY <1>0, <2>1, ListingBytes
  <2>3. stack' \in Seq(Entries(names))
    BY <1>11 DEF SendList, LastEntry
  <2>4. reply' \in Seq(Byte) /\ overlong' \in BOOLEAN
        /\ lpc' \in {"recv", "scan", "stat", "closed", "dead"}
    BY <1>0, <1>11, <2>2, AnswerBytes DEF SendList, Answer
  <2>5. QED
    BY <1>0, <1>11, <2>3, <2>4 DEF SendList, histVars
<1>12. QED
  BY <1>2, <1>3, <1>4, <1>5, <1>6, <1>7, <1>8, <1>9, <1>10, <1>11 DEF ProcessStep

LEMMA ProcessScanOrder ==
  ASSUME ScanOrder, ProcessStep
  PROVE  ScanOrder'
<1>1. CASE ResList \/ UploadNothing \/ removeMess \/ Ignore
  <2>1. UNCHANGED <<names, lpc, todo, cur, stack>>
    BY <1>1 DEF ResList, UploadNothing, removeMess, Ignore, scanVars
  <2>2. QED
    BY <2>1 DEF ScanOrder, Scanning, Visible
<1>2. CASE Create \/ Exit
  BY <1>2 DEF Create, Exit, Asked, scanVars, ScanOrder, Scanning
<1>3. CASE BeginList
  BY <1>3 DEF BeginList, Asked, ScanOrder, Scanning
<1>4. ASSUME NEW n \in names, ReadDir(n)
      PROVE  ScanOrder'
  BY <1>4 DEF ReadDir, ScanOrder, Scanning, Visible
<1>5. CASE AddToStack
  BY <1>5 DEF AddToStack, ScanOrder, Scanning
<1>6. CASE SendList
  BY <1>6 DEF SendList, LastEntry, ScanOrder, Scanning
<1>7. QED
  BY <1>1, <1>2, <1>3, <1>4, <1>5, <1>6 DEF ProcessStep

(* The process keeps the turn of a request.                                *)
LEMMA TurnStep ==
  ASSUME ListTypeOK, NamesStored, ScanOrder,
         NEW l, InTurn(l, lpc, req, reply, names), ProcessStep
  PROVE  InTurn(l, lpc', req', reply', names)
<1>0. CASE Create
  <2>1. lpc = "recv" /\ req # <<>> /\ req[1] = 48 /\ req' = <<>>
        /\ (lpc' = "recv" \/ (lpc' = "dead" /\ reply' = reply))
    BY <1>0 DEF Create, Asked
  <2>2. req = l /\ reply = <<>>
    BY <2>1 DEF InTurn, Scanning
  <2>3. QED
    BY <2>1, <2>2 DEF InTurn
<1>1. CASE ResList \/ UploadNothing \/ removeMess \/ Ignore
  <2>1. lpc = "recv" /\ lpc' = "recv" /\ req # <<>> /\ req[1] # 49 /\ req' = <<>>
    BY <1>1 DEF ResList, UploadNothing, removeMess, Ignore, Ignored, Asked
  <2>2. req = l
    BY <2>1 DEF InTurn, Scanning
  <2>3. QED
    BY <2>1, <2>2 DEF InTurn
<1>2. CASE Exit
  <2>1. lpc = "recv" /\ lpc' = "closed" /\ req # <<>> /\ req[1] = 57 /\ req' = <<>> /\ reply' = reply
    BY <1>2 DEF Exit, Asked
  <2>2. QED
    BY <2>1 DEF InTurn, Scanning
<1>3. CASE BeginList
  <2>1. lpc = "recv" /\ lpc' = "scan" /\ req # <<>> /\ req[1] = 49 /\ req' = <<>> /\ reply' = reply
    BY <1>3 DEF BeginList, Asked
  <2>2. QED
    BY <2>1 DEF InTurn, Scanning
<1>4. CASE (\E n \in names : ReadDir(n)) \/ AddToStack
  <2>1. Scanning(lpc) /\ Scanning(lpc') /\ req' = req /\ reply' = reply
    BY <1>4 DEF ReadDir, AddToStack, Scanning
  <2>2. QED
    BY <2>1 DEF InTurn, Scanning
<1>5. CASE SendList
  <2>1. lpc = "scan" /\ req' = req
    BY <1>5 DEF SendList
  <2>2. req = <<>> /\ reply = <<>> /\ l[1] = 49
    BY <2>1 DEF InTurn, Scanning
  <2>3. CASE lpc' = "dead" /\ reply' = reply
    BY <2>1, <2>2, <2>3 DEF InTurn
  <2>4. CASE lpc' = "recv" /\ reply' = reply \o ListReply(stack)
    <3>1. stack \in Seq(Entries(names))
      BY DEF ListTypeOK, Entries
    <3>2. reply' = ListReply(stack)
      <4> DEFINE b == ListReply(stack)
      <4>1. reply' = <<>> \o b
        BY <2>2, <2>4
      <4>2. b \in Seq(Byte)
        <5>1. names \subseteq Seq(Byte \ {0})
          BY DEF NamesStored
        <5>2. QED
          BY <3>1, <5>1, ListingReadBack
      <4> HIDE DEF b
      <4>3. <<>> \o b = b
        BY <4>2, ConcatEmptySeq
      <4>4. QED
        BY <4>1, <4>3 DEF b
    <3>3. Listing(reply', names)
      BY <3>1, <3>2 DEF Listing
    <3>4. QED
      BY <2>1, <2>2, <2>4, <3>3 DEF InTurn
  <2>5. QED
    BY <1>5, <2>3, <2>4 DEF SendList, Answer
<1>6. QED
  BY <1>0, <1>1, <1>2, <1>3, <1>4, <1>5 DEF ProcessStep

(* The rows of a listing are of files that are stored.                     *)
LEMMA ParseTypes ==
  ASSUME NEW N, N \subseteq Seq(Byte \ {0}), NEW b, Listing(b, N)
  PROVE  Parse(b) \in Seq([name : N, size : Short]) /\ b # <<>> /\ b \in Seq(Byte)
<1>1. PICK es \in Seq(Entries(N)) : b = ListReply(es)
  BY DEF Listing
<1> DEFINE n == Len(es)
           c == n % 65536
<1>2. /\ b \in Seq(Byte) /\ b # <<>>
      /\ Parse(b) = [i \in 1..c |-> Row(es[i])]
  BY <1>1, ListingReadBack
<1>3. n \in Nat
  OBVIOUS
<1>4. c \in Nat /\ c <= n
  <2> HIDE DEF n
  <2>1. QED
    BY <1>3, SMT
<1> HIDE DEF c
<1>5. \A i \in 1..c : Row(es[i]) \in [name : N, size : Short]
  <2>1. TAKE i \in 1..c
  <2>2. i \in 1..n
    <3> HIDE DEF n
    <3>1. QED
      BY <1>3, <1>4
  <2>3. es[i] \in Entries(N)
    BY <2>2
  <2>4. QED
    BY <2>3, EntrySize
<1> DEFINE R == [name : N, size : Short]
<1>6. [i \in 1..c |-> Row(es[i])] \in Seq(R)
  <2> HIDE DEF R
  <2>1. QED
    BY <1>4, <1>5 DEF R
<1>7. QED
  BY <1>2, <1>6

LEMMA RemoveAtTypes ==
  ASSUME NEW S, NEW s \in Seq(S), NEW i \in 1..Len(s)
  PROVE  RemoveAt(s, i) \in Seq(S)
<1>1. Len(s) \in Nat
  OBVIOUS
<1>2. /\ \A j \in 1..(i - 1) : s[j] \in S
      /\ \A j \in (i + 1)..Len(s) : s[j] \in S
      /\ i - 1 \in Int /\ i + 1 \in Int /\ Len(s) \in Int /\ 1 \in Int
  BY <1>1
<1> DEFINE a == SubSeq(s, 1, i - 1)
           b == SubSeq(s, i + 1, Len(s))
<1>3. a \in Seq(S) /\ b \in Seq(S)
  BY <1>2, SubSeqProperties
<1> HIDE DEF a, b
<1>4. a \o b \in Seq(S)
  BY <1>3
<1>5. QED
  BY <1>4 DEF RemoveAt, a, b

(* The requests of the table.                                              *)
LEMMA TableRequests ==
  ASSUME NEW cs \in Charset, NEW n \in Seq(Byte \ {0})
  PROVE  /\ << 49 >> \in Seq(Byte) /\ << 55 >> \o AddString(cs, n) \in Seq(Byte)
         /\ (<< 55 >> \o AddString(cs, n))[1] = 55
         /\ Tail(<< 55 >> \o AddString(cs, n)) = AddString(cs, n)
<1>1. 49 \in Byte /\ 55 \in Byte
  BY ByteIs
<1> DEFINE a == AddString(cs, n)
<1>2. a \in Seq(Byte)
  <2>1. n \in Seq(Character) /\ <<>> \in Seq(Byte)
    BY ByteCharacters
  <2>2. QED
    BY <2>1, SentRead
<1> HIDE DEF a
<1>3. << 49 >> \in Seq(Byte) /\ << 55 >> \o a \in Seq(Byte)
  BY <1>1, <1>2
<1>4. (<< 55 >> \o a)[1] = 55 /\ Tail(<< 55 >> \o a) = a
  BY <1>1, <1>2
<1>5. QED
  BY <1>3, <1>4 DEF a

LEMMA TableTurnStep ==
  ASSUME TypeOK, NamesStored, ScanOrder, TableTurn, Next
  PROVE  TableTurn'
<1>0. ListTypeOK /\ TableTypeOK /\ TextTypeOK
  BY DEF TypeOK
<1>1. CASE Process
  <2>1. ProcessStep /\ UNCHANGED <<charset, dpc, sel, tpc>> /\ names' = names
    BY <1>1, ProcessNames DEF Process, tableVars, textVars
  <2>2. cdir => cdir'
    BY <2>1 DEF ProcessStep, Create, ResList, UploadNothing, removeMess, Ignore, Exit, BeginList,
                ReadDir, AddToStack, SendList
  <2>3. lpc # "dead" /\ ~ (lpc = "recv" /\ req = <<>>)
    BY <2>1 DEF ProcessStep, Create, ResList, UploadNothing, removeMess, Ignore, Exit, BeginList,
                ReadDir, AddToStack, SendList, Asked
  <2>4. dpc # "idle" /\ dpc # "closed"
    BY <2>3 DEF TableTurn
  <2>5. dpc = "list" => InTurn(<< 49 >>, lpc', req', reply', names)
    BY <1>0, <2>1, <2>3, TurnStep DEF TableTurn
  <2>6. PICK l : l = << 55 >> \o AddString(charset, sel)
    OBVIOUS
  <2>7. dpc = "del" => InTurn(l, lpc, req, reply, names)
    BY <2>3, <2>6 DEF TableTurn
  <2>8. dpc = "del" => InTurn(l, lpc', req', reply', names)
    BY <1>0, <2>1, <2>7, TurnStep
  <2>9. ASSUME dpc # "none", lpc' = "dead"
        PROVE  overlong' /\ reply' = <<>>
    <3>1. \/ dpc = "list" /\ InTurn(<< 49 >>, lpc, req, reply, names)
          \/ dpc = "del" /\ InTurn(l, lpc, req, reply, names) /\ l[1] = 55
      <4>1. dpc \in {"list", "del"}
        BY <1>0, <2>4, <2>9 DEF TableTypeOK
      <4>2. dpc = "del" => l[1] = 55
        BY <1>0, <2>6, TableRequests DEF TableTurn, NamesStored, TableTypeOK
      <4>3. QED
        BY <2>3, <2>7, <4>1, <4>2 DEF TableTurn
    <3>2. ~ Create
      <4>1. ASSUME Create PROVE FALSE
        <5>1. lpc = "recv" /\ req # <<>> /\ req[1] = 48
          BY <4>1 DEF Create, Asked
        <5>2. req = << 49 >> \/ (req = l /\ l[1] = 55)
          BY <3>1, <5>1 DEF InTurn, Scanning
        <5>3. QED
          BY <5>1, <5>2
      <4>2. QED
        BY <4>1
    <3>3. SendList
      BY <2>1, <2>3, <2>9, <3>2 DEF ProcessStep, ResList, UploadNothing, removeMess, Ignore, Exit,
         BeginList, ReadDir, AddToStack
    <3>4. lpc = "scan" /\ overlong' = TRUE /\ reply' = reply
      BY <2>9, <3>3 DEF SendList
    <3>5. reply = <<>>
      BY <3>1, <3>4 DEF InTurn
    <3>6. QED
      BY <3>4, <3>5
  <2>10. QED
    BY <2>1, <2>2, <2>4, <2>5, <2>6, <2>8, <2>9 DEF TableTurn
<1>2. CASE Table
  <2>1. UNCHANGED <<names, cdir, lpc, tpc, overlong>> /\ TableStep
    BY <1>2 DEF Table, Unseen, textVars
  <2>2. CASE Refresh
    BY <2>1, <2>2 DEF Refresh, TableTurn, InTurn
  <2>3. CASE ReadRows
    <3>1. lpc = "recv" /\ req = <<>>
      BY <2>3 DEF ReadRows, TableTurn, InTurn
    <3>2. QED
      BY <2>1, <2>3, <3>1 DEF ReadRows, TableTurn
  <2>4. CASE DeleteDone
    <3>1. lpc = "recv" /\ req = <<>>
      BY <2>4 DEF DeleteDone, TableTurn, InTurn
    <3>2. QED
      BY <2>1, <2>4, <3>1 DEF DeleteDone, TableTurn, InTurn
  <2>5. CASE NoAnswer
    <3>1. dpc # "none" /\ lpc = "dead" /\ dpc' \in {"idle", "closed"} /\ reply' = reply
      BY <2>5 DEF NoAnswer
    <3>2. QED
      BY <2>1, <3>1 DEF TableTurn
  <2>6. ASSUME NEW i \in 1..Len(rows), DeleteRow(i)
        PROVE  TableTurn'
    <3>1. rows[i].name \in names
      <4> DEFINE R == [name : names, size : Short]
      <4>1. rows \in Seq(R)
        BY <1>0 DEF TableTypeOK
      <4>2. rows[i] \in R
        <5> HIDE DEF R
        <5>1. QED
          BY <4>1
      <4>3. QED
        BY <4>2
    <3>2. /\ dpc = "idle" /\ reply = <<>> /\ (lpc # "dead" => lpc = "recv")
          /\ (lpc = "dead" => overlong)
      BY <2>6 DEF DeleteRow, TableTurn
    <3>3. /\ sel' = rows[i].name /\ req' = << 55 >> \o AddString(charset, rows[i].name)
          /\ dpc' = "del" /\ UNCHANGED <<charset, reply>>
      BY <2>6 DEF DeleteRow
    <3>4. req' = << 55 >> \o AddString(charset', sel') /\ sel' \in names'
      BY <2>1, <3>1, <3>3
    <3>5. lpc # "dead" => InTurn(<< 55 >> \o AddString(charset', sel'), lpc', req', reply', names')
      BY <2>1, <3>2, <3>3, <3>4 DEF InTurn
    <3>6. QED
      BY <2>1, <3>2, <3>3, <3>4, <3>5 DEF TableTurn
  <2>7. QED
    BY <2>1, <2>2, <2>3, <2>4, <2>5, <2>6 DEF TableStep
<1>3. CASE Text
  <2>1. TextStep /\ dpc' = dpc
    BY <1>3 DEF Text, tableVars
  <2>2. tpc # "none"
    BY <2>1 DEF TextStep, ShowReply, Type
  <2>3. QED
    BY <2>1, <2>2 DEF TableTurn
<1>4. CASE Other
  <2>1. UNCHANGED <<charset, dpc, sel, tpc, names, cdir, lpc, req, reply, overlong>>
    BY <1>0, <1>4, OthersStep DEF Other, tableVars, textVars
  <2>2. QED
    BY <2>1 DEF TableTurn, InTurn
<1>5. QED
  BY <1>1, <1>2, <1>3, <1>4 DEF Next

(* What the text client shows are numbers of two bytes.                    *)
LEMMA ShownTypes ==
  ASSUME line \in Seq(Byte), NEW got \in Seq(Byte), Show(Buffer(got))
  PROVE  shown'.count \in Short /\ shown'.number \in Short
<1> DEFINE cut == SubSeq(line, Len(got) + 2, Len(line))
           a   == (got \o << 0 >>) \o cut
           z   == << 0, 0, 0, 0, 0 >>
           b   == a \o z
<1>0. 0 \in Byte
  BY ByteIs
<1>1. cut \in Seq(Byte)
  <2>1. Len(got) \in Nat /\ Len(line) \in Nat
    OBVIOUS
  <2>2. /\ \A j \in (Len(got) + 2)..Len(line) : line[j] \in Byte
        /\ Len(got) + 2 \in Int /\ Len(line) \in Int
    BY <2>1
  <2>3. QED
    BY <2>2, SubSeqProperties
<1>2. Buffer(got) = b
  BY DEF Buffer
<1> HIDE DEF cut
<1>3. a \in Seq(Byte)
  <2>1. got \o << 0 >> \in Seq(Byte)
    BY <1>0
  <2> DEFINE g == got \o << 0 >>
  <2>2. g \in Seq(Byte)
    BY <2>1
  <2> HIDE DEF g
  <2>3. g \o cut \in Seq(Byte)
    BY <1>1, <2>2
  <2>4. QED
    BY <2>3 DEF g
<1>4. z \in Seq(Byte) /\ Len(z) = 5 /\ z[5] = 0
  BY <1>0
<1> HIDE DEF a, z
<1> DEFINE k == Len(a)
           n == Len(b)
<1>5. b \in Seq(Byte) /\ n = k + Len(z) /\ \A m \in 1..Len(z) : b[k + m] = z[m]
  <2>1. z \in Seq(Byte)
    BY <1>4
  <2>2. QED
    BY <1>3, <2>1
<1> HIDE DEF b
<1>6. k \in Nat
  BY <1>3
<1>7. n = k + 5 /\ b[k + 5] = 0
  <2>1. 5 \in 1..Len(z)
    BY <1>4
  <2>2. QED
    BY <1>4, <1>5, <2>1
<1> HIDE DEF k
<1>8. \A i \in 1..n : b[i] \in Byte
  BY <1>5
<1>9. n \in Nat /\ n = Len(b)
  BY <1>6, <1>7
<1> HIDE DEF n
<1>10. Tail(b)[1] \in Byte /\ Tail(b)[2] \in Byte
  <2>1. Len(Tail(b)) = Len(b) - 1 /\ \A i \in 1..Len(Tail(b)) : Tail(b)[i] = b[i + 1]
    <3>1. b # <<>>
      <4>1. n # 0
        BY <1>6, <1>7
      <4>2. QED
        BY <1>9, <4>1
    <3>2. QED
      BY <1>5, <3>1, HeadTailProperties
  <2> DEFINE t == Len(Tail(b))
  <2>2. t = n - 1
    BY <1>9, <2>1
  <2> HIDE DEF t
  <2>3. 1 \in 1..t /\ 2 \in 1..t /\ 1 + 1 \in 1..n /\ 2 + 1 \in 1..n
    BY <1>6, <1>7, <2>2
  <2>4. QED
    BY <1>8, <2>1, <2>3 DEF t
<1> DEFINE c == SubSeq(b, 4, Len(b))
<1>11. c \in Seq(Byte) /\ k + 2 \in 1..Len(c) /\ c[k + 2] = 0
  <2>1. \A j \in 4..n : b[j] \in Byte
    BY <1>8
  <2>2. /\ SubSeq(b, 4, n) \in Seq(Byte)
        /\ Len(SubSeq(b, 4, n)) = IF 4 <= n THEN n - 4 + 1 ELSE 0
        /\ \A i \in 1..(n - 4 + 1) : SubSeq(b, 4, n)[i] = b[4 + i - 1]
    BY <1>9, <2>1, SubSeqProperties
  <2>3. 4 <= n /\ n - 4 + 1 = k + 2 /\ k + 2 \in 1..(k + 2) /\ 4 + (k + 2) - 1 = k + 5
    BY <1>6, <1>7
  <2>4. c = SubSeq(b, 4, n)
    BY <1>9
  <2> HIDE DEF c
  <2>5. QED
    BY <1>7, <2>2, <2>3, <2>4
<1> HIDE DEF c
<1> DEFINE e == EatString(c)
           r == e.rest
           w == << 0, 0 >>
<1>12. r \in Seq(Byte)
  BY <1>11, EatBytes
<1>13. w \in Seq(Byte) /\ Len(w) = 2
  BY <1>0
<1> HIDE DEF e, r, w
<1>14. (r \o w)[1] \in Byte /\ (r \o w)[2] \in Byte
  <2>1. r \o w \in Seq(Byte) /\ Len(r \o w) = Len(r) + Len(w)
    <3>1. w \in Seq(Byte)
      BY <1>13
    <3>2. QED
      BY <1>12, <3>1
  <2> DEFINE v == r \o w
             x == Len(r)
             y == Len(v)
  <2>2. x \in Nat /\ y = x + 2 /\ v \in Seq(Byte)
    BY <1>12, <1>13, <2>1
  <2> HIDE DEF v, x
  <2>3. \A i \in 1..y : v[i] \in Byte
    BY <2>2
  <2> HIDE DEF y
  <2>4. 1 \in 1..y /\ 2 \in 1..y
    BY <2>2
  <2>5. v[1] \in Byte /\ v[2] \in Byte
    BY <2>3, <2>4
  <2>6. QED
    BY <2>5 DEF v
<1>15. shown' = [count |-> ReadShort(Tail(b)), name |-> e.str, number |-> ReadShort(r \o w)]
  BY <1>2 DEF Show, NameAt, c, e, r, w
<1>16. ReadShort(Tail(b)) \in Short /\ ReadShort(r \o w) \in Short
  BY <1>10, <1>14, ShortRange
<1>17. QED
  BY <1>15, <1>16

LEMMA LineTypes ==
  ASSUME TextTypeOK
  PROVE  line \in Seq(Byte) /\ Line \subseteq Seq(Byte)
<1>1. Line \subseteq Seq(Byte \ {0}) /\ line \in Line \cup {<<>>}
  BY TextAssumption DEF TextTypeOK
<1>2. \A l \in Seq(Byte \ {0}) : l \in Seq(Byte)
  OBVIOUS
<1>3. <<>> \in Seq(Byte)
  OBVIOUS
<1>4. QED
  BY <1>1, <1>2, <1>3

LEMMA TableStepTypes ==
  ASSUME TypeOK, NamesStored, TableTurn, Table
  PROVE  TypeOK'
<1>0. ListTypeOK /\ TableTypeOK /\ TextTypeOK
  BY DEF TypeOK
<1>1. TableStep /\ UNCHANGED <<names, folder, cdir, lpc, scanVars, overlong, histVars>> /\ UNCHANGED textVars
  BY DEF Table, Unseen
<1>2. TextTypeOK'
  BY <1>0, <1>1 DEF TextTypeOK, textVars
<1>3. /\ charset \in Charset /\ dpc \in {"none", "idle", "list", "del", "closed"}
      /\ rows \in Seq([name : names, size : Short]) /\ sel \in names \cup {NoEntry}
      /\ req \in Seq(Byte) /\ reply \in Seq(Byte) /\ <<>> \in Seq(Byte)
      /\ <<>> \in Seq([name : names, size : Short])
  BY <1>0 DEF TableTypeOK, ListTypeOK
<1>4. names \subseteq Seq(Byte \ {0})
  BY DEF NamesStored
<1>5. << 49 >> \in Seq(Byte)
  <2>1. 49 \in Byte
    BY ByteIs
  <2>2. QED
    BY <2>1
<1>6. SUFFICES
      /\ charset' \in Charset /\ dpc' \in {"none", "idle", "list", "del", "closed"}
      /\ rows' \in Seq([name : names, size : Short]) /\ sel' \in names \cup {NoEntry}
      /\ req' \in Seq(Byte) /\ reply' \in Seq(Byte)
  BY <1>0, <1>1, <1>2 DEF TypeOK, ListTypeOK, TableTypeOK, scanVars, histVars
<1>7. CASE Refresh
  BY <1>3, <1>5, <1>7 DEF Refresh
<1>8. CASE ReadRows
  <2>1. Listing(reply, names)
    BY <1>8 DEF ReadRows, TableTurn, InTurn
  <2>2. Parse(reply) \in Seq([name : names, size : Short])
    BY <1>4, <2>1, ParseTypes
  <2>3. QED
    BY <1>3, <1>8, <2>2 DEF ReadRows
<1>9. CASE DeleteDone
  BY <1>3, <1>5, <1>9 DEF DeleteDone
<1>10. CASE NoAnswer
  BY <1>3, <1>10 DEF NoAnswer
<1>11. ASSUME NEW i \in 1..Len(rows), DeleteRow(i)
       PROVE  <1>6!1
  <2> DEFINE R == [name : names, size : Short]
             n == rows[i].name
  <2>1. rows[i] \in R
    <3>1. rows \in Seq(R)
      BY <1>3
    <3> HIDE DEF R
    <3>2. QED
      BY <3>1
  <2>2. n \in names
    BY <2>1
  <2>3. RemoveAt(rows, i) \in Seq(R)
    <3>1. rows \in Seq(R)
      BY <1>3
    <3> HIDE DEF R
    <3>2. QED
      BY <3>1, RemoveAtTypes
  <2>4. /\ sel' = n /\ rows' = RemoveAt(rows, i)
        /\ req' = << 55 >> \o AddString(charset, n) /\ dpc' = "del"
        /\ UNCHANGED <<charset, reply>>
    BY <1>11 DEF DeleteRow
  <2> HIDE DEF n
  <2>5. << 55 >> \o AddString(charset, n) \in Seq(Byte)
    BY <1>3, <1>4, <2>2, TableRequests
  <2>6. QED
    BY <1>3, <2>2, <2>3, <2>4, <2>5
<1>12. QED
  BY <1>1, <1>7, <1>8, <1>9, <1>10, <1>11 DEF TableStep

LEMMA TextStepTypes ==
  ASSUME TypeOK, Text
  PROVE  TypeOK'
<1>0. ListTypeOK /\ TableTypeOK /\ TextTypeOK
  BY DEF TypeOK
<1>1. TextStep /\ UNCHANGED <<names, folder, cdir, lpc, scanVars, overlong, histVars>> /\ UNCHANGED tableVars
  BY DEF Text, Unseen
<1>2. TableTypeOK'
  BY <1>0, <1>1 DEF TableTypeOK, tableVars
<1>3. /\ tpc \in {"none", "type", "recv"} /\ line \in Line \cup {<<>>}
      /\ shown.count \in Short /\ shown.number \in Short
      /\ instep \in BOOLEAN /\ merged \in BOOLEAN
      /\ req \in Seq(Byte) /\ reply \in Seq(Byte) /\ <<>> \in Seq(Byte)
  BY <1>0 DEF TextTypeOK, ListTypeOK
<1>4. SUFFICES
      /\ tpc' \in {"none", "type", "recv"} /\ line' \in Line \cup {<<>>}
      /\ shown'.count \in Short /\ shown'.number \in Short
      /\ instep' \in BOOLEAN /\ merged' \in BOOLEAN
      /\ req' \in Seq(Byte) /\ reply' \in Seq(Byte)
  BY <1>0, <1>1, <1>2 DEF TypeOK, ListTypeOK, TextTypeOK, scanVars, histVars
<1>5. ASSUME NEW l \in Line, Type(l)
      PROVE  <1>4!1
  <2>1. l \in Seq(Byte)
    BY <1>0, LineTypes
  <2>2. req \o l \in Seq(Byte)
    BY <1>3, <2>1
  <2>3. req' \in Seq(Byte)
    BY <1>3, <1>5, <2>2 DEF Type
  <2>4. QED
    BY <1>3, <1>5, <2>3 DEF Type
<1>7. CASE ShowReply
  <2> DEFINE k == IF Len(reply) < TextRoom THEN Len(reply) ELSE TextRoom
  <2>1. k \in Nat /\ k <= Len(reply) /\ Len(reply) \in Nat
    <3>1. TextRoom \in Nat /\ Len(reply) \in Nat
      BY <1>3, TextAssumption
    <3>2. QED
      BY <3>1
  <2>2. /\ Show(Buffer(SubSeq(reply, 1, k)))
        /\ reply' = SubSeq(reply, k + 1, Len(reply))
        /\ instep' = (instep /\ k = Len(reply))
        /\ tpc' = "type" /\ UNCHANGED <<line, merged, req>>
    BY <1>7 DEF ShowReply
  <2> HIDE DEF k
  <2>3. SubSeq(reply, 1, k) \in Seq(Byte) /\ SubSeq(reply, k + 1, Len(reply)) \in Seq(Byte)
    <3>1. /\ \A j \in 1..k : reply[j] \in Byte
          /\ \A j \in (k + 1)..Len(reply) : reply[j] \in Byte
          /\ k \in Int /\ k + 1 \in Int /\ Len(reply) \in Int /\ 1 \in Int
      BY <1>3, <2>1
    <3>2. QED
      BY <3>1, SubSeqProperties
  <2>4. line \in Seq(Byte)
    BY <1>0, LineTypes
  <2>5. shown'.count \in Short /\ shown'.number \in Short
    <3>1. PICK got \in Seq(Byte) : got = SubSeq(reply, 1, k)
      BY <2>3
    <3>2. Show(Buffer(got))
      BY <2>2, <3>1
    <3>3. QED
      BY <2>4, <3>2, ShownTypes
  <2>6. QED
    BY <1>3, <2>2, <2>3, <2>5
<1>9. QED
  BY <1>1, <1>5, <1>7 DEF TextStep

(* The invariant that types rest on.                                       *)
IInv == TypeOK /\ NamesStored /\ ScanOrder /\ TableTurn

LEMMA InitIInv ==
  ASSUME Init
  PROVE  IInv
<1>1. charset \in Charset
  BY DEF Init
<1>2. NamesStored
  <2>1. SUFFICES ASSUME NEW s \in LocalName
                 PROVE  StoredAs(charset, s) \in Seq(Byte \ {0}) \ {<<>>}
    BY DEF Init, NamesStored
  <2>2. s \in Seq(Character) /\ s # <<>>
    BY LocalNameAssumption
  <2>3. QED
    BY <1>1, <2>2, StoredIsSent
<1>3. << 49 >> \in Seq(Byte) /\ <<>> \in Seq(Byte)
  <2>1. 49 \in Byte
    BY ByteIs
  <2>2. QED
    BY <2>1
<1>4. req \in Seq(Byte) /\ reply \in Seq(Byte)
  BY <1>3 DEF Init, ListInit
<1>5. DOMAIN folder \subseteq names /\ folder \in [DOMAIN folder -> Size \cup {0}]
  <2>1. PICK held \in SUBSET names : folder \in [held -> Size]
    BY DEF Init, ListInit
  <2>2. QED
    BY <2>1
<1>6. ListTypeOK
  <2>1. stack \in Seq([name : names, isDir : BOOLEAN, size : Short])
    BY DEF Init, ListInit
  <2>2. changes \in 0..MaxChanges
    BY ListAssumption DEF Init, ListInit
  <2>3. cdir \in BOOLEAN /\ overlong \in BOOLEAN
    BY DEF Init, ListInit
  <2>4. QED
    BY <1>4, <1>5, <2>1, <2>2, <2>3 DEF ListTypeOK, Init, ListInit
<1>7. TableTypeOK
  BY <1>1 DEF TableTypeOK, Init
<1>8. TextTypeOK
  <2>1. 0 \in Short
    BY ShortIs
  <2>2. shown = [count |-> 0, name |-> <<>>, number |-> 0]
    BY DEF Init, NothingShown
  <2>3. tpc \in {"none", "type", "recv"} /\ line = <<>>
    BY DEF Init
  <2>4. instep \in BOOLEAN /\ merged \in BOOLEAN
    BY DEF Init
  <2>5. shown.count \in Short /\ shown.number \in Short
    BY <2>1, <2>2
  <2>6. QED
    BY <2>3, <2>4, <2>5 DEF TextTypeOK
<1>9. ScanOrder
  BY DEF ScanOrder, Scanning, Init, ListInit
<1>10. TableTurn
  BY DEF TableTurn, InTurn, Init, ListInit
<1>11. QED
  BY <1>2, <1>6, <1>7, <1>8, <1>9, <1>10 DEF IInv, TypeOK

LEMMA NextIInv ==
  ASSUME IInv, [Next]_vars
  PROVE  IInv'
<1>0. /\ TypeOK /\ NamesStored /\ ScanOrder /\ TableTurn
      /\ ListTypeOK /\ TableTypeOK /\ TextTypeOK
  BY DEF IInv, TypeOK
<1>1. CASE UNCHANGED vars
  BY <1>0, <1>1 DEF vars, listVars, scanVars, histVars, tableVars, textVars, IInv, TypeOK,
       ListTypeOK, TableTypeOK, TextTypeOK, NamesStored, ScanOrder, Scanning, Visible,
       TableTurn, InTurn
<1>2. CASE Process
  <2>1. ProcessStep /\ UNCHANGED <<tableVars, textVars>> /\ names' = names
    BY <1>2, ProcessNames DEF Process
  <2>2. ListTypeOK'
    BY <1>0, <2>1, ProcessTypes
  <2>3. TableTypeOK' /\ TextTypeOK'
    BY <1>0, <2>1 DEF TableTypeOK, TextTypeOK, tableVars, textVars
  <2>4. ScanOrder'
    BY <1>0, <2>1, ProcessScanOrder
  <2>5. TableTurn'
    BY <1>0, <1>2, TableTurnStep DEF Next
  <2>6. QED
    BY <1>0, <2>1, <2>2, <2>3, <2>4, <2>5 DEF IInv, TypeOK, NamesStored
<1>3. CASE Table \/ Text
  <2>1. UNCHANGED <<names, folder, cdir, lpc, scanVars, overlong, histVars>>
    BY <1>3 DEF Table, Text, Unseen
  <2>2. TypeOK'
    BY <1>0, <1>3, TableStepTypes, TextStepTypes
  <2>3. ScanOrder' /\ NamesStored'
    BY <1>0, <2>1 DEF scanVars, ScanOrder, Scanning, Visible, NamesStored
  <2>4. TableTurn'
    BY <1>0, <1>3, TableTurnStep DEF Next
  <2>5. QED
    BY <2>2, <2>3, <2>4 DEF IInv
<1>4. CASE Other
  <2>1. /\ FolderStep /\ changes' \in 0..MaxChanges
        /\ UNCHANGED <<names, cdir, lpc, scanVars, req, reply, overlong>>
        /\ UNCHANGED <<tableVars, textVars>>
    BY <1>0, <1>4, OthersStep DEF Other
  <2>2. ListTypeOK'
    BY <1>0, <2>1 DEF ListTypeOK, FolderStep, scanVars
  <2>3. TableTypeOK' /\ TextTypeOK'
    BY <1>0, <2>1 DEF TableTypeOK, TextTypeOK, tableVars, textVars
  <2>4. ScanOrder' /\ NamesStored'
    BY <1>0, <2>1 DEF scanVars, ScanOrder, Scanning, Visible, NamesStored
  <2>5. TableTurn'
    BY <1>0, <1>4, TableTurnStep DEF Next
  <2>6. QED
    BY <2>2, <2>3, <2>4, <2>5 DEF IInv, TypeOK
<1>5. QED
  BY <1>1, <1>2, <1>3, <1>4 DEF Next

(* The types of the folder, the list, the messages, the table and what the *)
(* text client shows: a listing always gives rows of stored names, however *)
(* long it is and whatever others do to the folder (listFiles, getFiles).  *)
THEOREM ListTypes == Spec => []TypeOK
<1>1. Init => IInv
  BY InitIInv
<1>2. IInv /\ [Next]_vars => IInv'
  BY NextIInv
<1>3. IInv => TypeOK
  BY DEF IInv
<1>4. QED
  BY <1>1, <1>2, <1>3, PTL DEF Spec

-----------------------------------------------------------------------------
(* What the lists say of the files.  While the process lists, every file   *)
(* has the size that had records, what it has still to look at is there or *)
(* was removed meanwhile, the entries so far were right when they were     *)
(* made, and those of untouched files still are.                           *)
ScanKept ==
  Scanning(lpc) =>
    /\ Recorded(folder, had)
    /\ \A n \in todo \cup {cur} :
         n \notin DOMAIN folder /\ n # NoEntry => n \in touched /\ GoneMarks(n) \subseteq had
    /\ Sound(Rows(stack), had)
    /\ cdir => Kept(Rows(stack), todo \cup {cur}, names \ touched, folder)

(* So are the listing in the socket, and the rows made of it.              *)
TableKept ==
  /\ dpc = "list" /\ lpc = "recv" /\ req = <<>> /\ ~ overlong =>
       Sound(Parse(reply), had) /\ Kept(Parse(reply), {}, names \ touched, folder)
  /\ dpc = "idle" /\ ~ overlong =>
       Sound(rows, had) /\ Kept(rows, {}, names \ touched, folder)

LEMMA SoundLater ==
  ASSUME NEW rs, NEW h, NEW k, h \subseteq k, Sound(rs, h)
  PROVE  Sound(rs, k)
BY DEF Sound

LEMMA NothingListed ==
  ASSUME NEW h, NEW P, NEW U, NEW f, DOMAIN f \subseteq P
  PROVE  Sound(Rows(<<>>), h) /\ Kept(Rows(<<>>), P, U, f)
<1> DEFINE rs == Rows(<<>>)
<1>1. Len(rs) = 0
  BY DEF Rows
<1> HIDE DEF rs
<1>2. \A i \in 1..Len(rs) : FALSE
  BY <1>1
<1>3. Sound(rs, h) /\ Once(rs, U) /\ Right(rs, P, U, f) /\ Complete(rs, P, U, f)
  BY <1>2 DEF Sound, Once, Right, Complete
<1>4. QED
  BY <1>3 DEF Kept, rs

(* What a conversion to unsigned short does to -1 and leaves alone.        *)
LEMMA ShortWraps == \A v, w \in Int : v + 65536 = w => v % 65536 = w % 65536
BY SMT

LEMMA ShortStays == \A w \in Nat : w < 65536 => w % 65536 = w
BY SMT

(* A step of listFiles.                                                    *)
LEMMA ScanStep ==
  ASSUME IInv, ScanKept, NEW n \in names, ReadDir(n)
  PROVE  ScanKept'
<1> DEFINE U == names \ touched
           P == todo \cup {cur}
           Q == todo' \cup {cur'}
<1>0. /\ NamesStored /\ stack \in Seq(Entries(names)) /\ n # NoEntry
      /\ \A m \in names : m # NoEntry
  BY DEF IInv, TypeOK, ListTypeOK, Entries, NamesStored, NoEntry
<1>1. /\ lpc = "scan" /\ n \in todo /\ todo' = todo \ {n} /\ cur = NoEntry
      /\ UNCHANGED <<names, folder, cdir, req, reply, overlong, touched, had, changes>>
  BY DEF ReadDir, histVars, IInv, ScanOrder
<1>2. /\ Recorded(folder, had)
      /\ \A m \in P : m \notin DOMAIN folder /\ m # NoEntry => m \in touched /\ GoneMarks(m) \subseteq had
      /\ Sound(Rows(stack), had)
      /\ cdir => Kept(Rows(stack), P, U, folder)
  BY <1>1 DEF ScanKept, Scanning
<1>3. Q \subseteq P
  BY <1>1 DEF ReadDir
<1> HIDE DEF P, Q, U
<1>4. SUFFICES Sound(Rows(stack'), had) /\ (cdir => Kept(Rows(stack'), Q, U, folder))
  BY <1>1, <1>2, <1>3 DEF ScanKept, Q, U
<1>5. CASE n[1] = 46
  <2>1. stack' = stack /\ cur' = cur
    BY <1>5 DEF ReadDir
  <2>2. \A m \in U : Visible(m) => (m \in P <=> m \in Q)
    BY <1>1, <1>5, <2>1 DEF Visible, P, Q
  <2>3. cdir => Kept(Rows(stack), Q, U, folder)
    BY <1>2, <2>2, KeptLater
  <2>4. QED
    BY <1>2, <2>1, <2>3
<1>6. CASE n[1] # 46 /\ n \notin DOMAIN folder
  <2>0. 0 \in Int
    OBVIOUS
  <2>1. PICK dir \in BOOLEAN, zero \in Int : dir = TRUE /\ zero = 0
    BY <2>0
  <2> DEFINE e == Entry(n, dir, zero)
  <2>2. stack' = << e >> \o stack /\ cur' = cur
    BY <1>6, <2>1 DEF ReadDir, isDir
  <2> DEFINE d == ReadShort(DirMark)
             z == zero % 65536
  <2>row. e \in Entries(names) /\ e.name = n /\ Row(e).size = IF dir THEN d ELSE z
    BY EntryRow
  <2>isdir. dir
    BY <2>1
  <2> HIDE DEF e, d, z
  <2>mark. Row(e).size = d
    BY <2>row, <2>isdir
  <2>3. e \in Entries(names) /\ e.name = n /\ Row(e).size = ReadShort(DirMark)
    BY <2>row, <2>mark DEF d
  <2>4. n \in touched /\ << n, ReadShort(DirMark) >> \in had
    <3>1. n \in P
      BY <1>1 DEF P
    <3>2. n \in touched /\ GoneMarks(n) \subseteq had
      BY <1>0, <1>2, <1>6, <3>1
    <3>3. QED
      BY <3>2 DEF GoneMarks
  <2>5. Sound(Rows(stack'), had)
    <3>1. Sound(Rows(<< e >> \o stack), had)
      BY <1>0, <1>2, <2>3, <2>4, SoundPush
    <3>2. QED
      BY <2>2, <3>1
  <2>6. ASSUME cdir PROVE Kept(Rows(stack'), Q, U, folder)
    <3>1. n \in P /\ n \notin Q /\ n \notin U
      BY <1>0, <1>1, <2>2, <2>4 DEF P, Q, U
    <3>2. \A m \in U : m # n => (m \in P <=> m \in Q)
      BY <1>1, <2>2 DEF P, Q
    <3>3. Kept(Rows(stack), P, U, folder)
      BY <1>2, <2>6
    <3>4. Kept(Rows(<< e >> \o stack), Q, U, folder)
      BY <1>0, <2>3, <3>1, <3>2, <3>3, KeptPush
    <3>5. QED
      BY <2>2, <3>4
  <2>7. QED
    BY <2>5, <2>6
<1>7. CASE n[1] # 46 /\ n \in DOMAIN folder
  <2>1. stack' = stack /\ cur' = n
    BY <1>7 DEF ReadDir, isDir
  <2>2. \A m \in U : m \in P <=> m \in Q
    BY <1>0, <1>1, <2>1 DEF P, Q, U
  <2>3. cdir => Kept(Rows(stack), Q, U, folder)
    BY <1>2, <2>2, KeptLater
  <2>4. QED
    BY <1>2, <2>1, <2>3
<1>8. QED
  BY <1>5, <1>6, <1>7

LEMMA AddStep ==
  ASSUME IInv, ScanKept, AddToStack
  PROVE  ScanKept'
<1> DEFINE U == names \ touched
           P == todo \cup {cur}
           Q == todo' \cup {cur'}
<1>0. /\ NamesStored /\ stack \in Seq(Entries(names))
      /\ folder \in [DOMAIN folder -> Size \cup {0}]
      /\ cur \in names /\ Visible(cur) /\ cur \notin todo /\ cur # NoEntry
  BY DEF AddToStack, ScanOrder, IInv, TypeOK, ListTypeOK, Entries, NamesStored, NoEntry
<1>1. /\ lpc = "stat" /\ todo' = todo /\ cur' = NoEntry
      /\ stack' = << Entry(cur, FALSE, fileSize(cur)) >> \o stack
      /\ UNCHANGED <<names, folder, cdir, req, reply, overlong, touched, had, changes>>
  BY DEF AddToStack, histVars
<1>2. /\ Recorded(folder, had)
      /\ \A m \in P : m \notin DOMAIN folder /\ m # NoEntry => m \in touched /\ GoneMarks(m) \subseteq had
      /\ Sound(Rows(stack), had)
      /\ cdir => Kept(Rows(stack), P, U, folder)
  BY <1>1 DEF ScanKept, Scanning
<1>3. \A m \in Q : m \in P \/ m = NoEntry
  BY <1>1
<1>4. cur \in P /\ cur \notin Q
  BY <1>0, <1>1
<1>5. \A m \in U : m # cur => (m \in P <=> m \in Q)
  <2>1. \A m \in names : m # NoEntry
    BY DEF IInv, NamesStored, NoEntry
  <2>2. QED
    BY <1>1, <2>1
<1>6. cur \in U => cur \notin touched
  OBVIOUS
<1> HIDE DEF P, Q, U
<1>7. SUFFICES Sound(Rows(stack'), had) /\ (cdir => Kept(Rows(stack'), Q, U, folder))
  BY <1>1, <1>2, <1>3 DEF ScanKept, Q, U
<1>8. fileSize(cur) \in Int
  <2>1. \A m \in DOMAIN folder : folder[m] \in Int
    BY <1>0, ListAssumption
  <2>2. QED
    BY <2>1 DEF fileSize
<1>9. PICK dir \in BOOLEAN, x \in Int : dir = FALSE /\ x = fileSize(cur)
  BY <1>8
<1> DEFINE e == Entry(cur, dir, x)
<1>10. stack' = << e >> \o stack
  BY <1>1, <1>9
<1>11. e \in Entries(names) /\ e.name = cur /\ Row(e).size = x % 65536
  BY <1>0, <1>9, EntryRow
<1> HIDE DEF e
<1>12. << cur, x % 65536 >> \in had
  <2>1. CASE cur \in DOMAIN folder
    <3>1. x = folder[cur]
      BY <1>9, <2>1 DEF fileSize
    <3>2. << cur, folder[cur] % 65536 >> \in had
      BY <1>2, <2>1 DEF Recorded
    <3>3. QED
      BY <3>1, <3>2
  <2>2. CASE cur \notin DOMAIN folder
    <3>1. x = -1
      BY <1>9, <2>2 DEF fileSize
    <3>2. x % 65536 = 65535
      <4>1. PICK y \in Int : y = x + 65536
        OBVIOUS
      <4>2. y \in Nat /\ y < 65536
        BY <3>1, <4>1
      <4>3. x % 65536 = y % 65536
        BY ONLY x \in Int, y \in Int, <4>1, ShortWraps
      <4>4. y % 65536 = y
        BY ONLY <4>2, ShortStays
      <4>5. y = 65535
        BY <3>1, <4>1
      <4>6. QED
        BY ONLY <4>3, <4>4, <4>5
    <3>3. GoneMarks(cur) \subseteq had
      BY <1>0, <1>2, <1>4, <2>2
    <3>4. QED
      BY <3>2, <3>3 DEF GoneMarks
  <2>3. QED
    BY <2>1, <2>2
<1>13. cur \in U => cur \in DOMAIN folder /\ Row(e).size = folder[cur] % 65536
  <2>1. SUFFICES ASSUME cur \in U
                 PROVE  cur \in DOMAIN folder /\ Row(e).size = folder[cur] % 65536
    OBVIOUS
  <2>2. cur \in DOMAIN folder
    BY <1>0, <1>2, <1>4, <1>6, <2>1
  <2>3. x = folder[cur]
    BY <1>9, <2>2 DEF fileSize
  <2>4. QED
    BY <1>11, <2>2, <2>3
<1>14. Sound(Rows(stack'), had)
  <2>1. Sound(Rows(<< e >> \o stack), had)
    BY <1>0, <1>2, <1>11, <1>12, SoundPush
  <2>2. QED
    BY <1>10, <2>1
<1>15. ASSUME cdir PROVE Kept(Rows(stack'), Q, U, folder)
  <2>1. Kept(Rows(stack), P, U, folder)
    BY <1>2, <1>15
  <2>2. Kept(Rows(<< e >> \o stack), Q, U, folder)
    BY <1>0, <1>4, <1>5, <1>11, <1>13, <2>1, KeptPush
  <2>3. QED
    BY <1>10, <2>2
<1>16. QED
  BY <1>14, <1>15

LEMMA RecordedLater ==
  ASSUME NEW g, NEW f, NEW h, NEW k, h \subseteq k, Recorded(g, h), RecordedSince(g, f, k)
  PROVE  Recorded(f, k)
BY DEF Recorded, RecordedSince

(* The files, while others change them and the process does nothing.       *)
LEMMA ScanLater ==
  ASSUME IInv, ScanKept, FolderStep, UNCHANGED <<names, cdir, lpc, scanVars>>
  PROVE  ScanKept'
<1>1. SUFFICES ASSUME Scanning(lpc)
               PROVE  /\ Recorded(folder', had')
                      /\ \A n \in todo \cup {cur} :
                           n \notin DOMAIN folder' /\ n # NoEntry =>
                             n \in touched' /\ GoneMarks(n) \subseteq had'
                      /\ Sound(Rows(stack), had')
                      /\ cdir => Kept(Rows(stack), todo \cup {cur}, names \ touched', folder')
  BY DEF ScanKept, scanVars
<1> DEFINE rs == Rows(stack)
           P == todo \cup {cur}
           U == names \ touched
           V == names \ touched'
<1>2. /\ touched \subseteq touched' /\ had \subseteq had'
      /\ \A n \in V : /\ n \in DOMAIN folder <=> n \in DOMAIN folder'
                      /\ n \in DOMAIN folder => folder'[n] = folder[n]
      /\ RecordedSince(folder, folder', had')
      /\ \A n \in DOMAIN folder \ DOMAIN folder' : n \in touched' /\ GoneMarks(n) \subseteq had'
  BY DEF FolderStep
<1>3. /\ Recorded(folder, had)
      /\ \A n \in P : n \notin DOMAIN folder /\ n # NoEntry => n \in touched /\ GoneMarks(n) \subseteq had
      /\ Sound(rs, had)
      /\ cdir => Kept(rs, P, U, folder)
  BY <1>1 DEF ScanKept
<1>4. V \subseteq U
  BY <1>2
<1> HIDE DEF rs, P, U, V
<1>5. Recorded(folder', had')
  BY <1>2, <1>3, RecordedLater
<1>6. \A n \in P : n \notin DOMAIN folder' /\ n # NoEntry => n \in touched' /\ GoneMarks(n) \subseteq had'
  BY <1>2, <1>3
<1>7. Sound(rs, had')
  BY <1>2, <1>3, SoundLater
<1>8. cdir => Kept(rs, P, V, folder')
  BY <1>2, <1>3, <1>4, KeptLater
<1>9. QED
  BY <1>5, <1>6, <1>7, <1>8 DEF rs, P, V

(* What was read, meanwhile.                                               *)
LEMMA TableLater ==
  ASSUME TableKept, FolderStep, UNCHANGED <<names, lpc, req, reply, overlong, dpc, rows>>
  PROVE  TableKept'
<1> DEFINE U == names \ touched
           V == names \ touched'
<1>1. /\ V \subseteq U /\ had \subseteq had'
      /\ \A n \in V : /\ n \in DOMAIN folder <=> n \in DOMAIN folder'
                      /\ n \in DOMAIN folder => folder'[n] = folder[n]
  BY DEF FolderStep
<1> HIDE DEF U, V
<1>2. ASSUME NEW rs, Sound(rs, had), Kept(rs, {}, U, folder)
      PROVE  Sound(rs, had') /\ Kept(rs, {}, V, folder')
  <2>1. Sound(rs, had')
    BY <1>1, <1>2, SoundLater
  <2>2. Kept(rs, {}, V, folder')
    BY <1>1, <1>2, KeptLater
  <2>3. QED
    BY <2>1, <2>2
<1>3. ASSUME dpc = "list", lpc = "recv", req = <<>>, ~ overlong
      PROVE  Sound(Parse(reply), had') /\ Kept(Parse(reply), {}, V, folder')
  BY <1>2, <1>3 DEF TableKept, U
<1>4. ASSUME dpc = "idle", ~ overlong
      PROVE  Sound(rows, had') /\ Kept(rows, {}, V, folder')
  BY <1>2, <1>4 DEF TableKept, U
<1>5. QED
  BY <1>3, <1>4 DEF TableKept, V

(* opendir and the first readdir.                                          *)
LEMMA BeginStep ==
  ASSUME IInv, BeginList
  PROVE  ScanKept'
<1> DEFINE P == todo' \cup {cur'}
           U == names' \ touched'
           h == had'
<1>1. lpc = "recv" /\ lpc' = "scan" /\ UNCHANGED <<names, folder, cdir, cur, stack>>
  BY DEF BeginList, Asked
<1>2. stack' = <<>> /\ cur' = NoEntry
  BY <1>1 DEF IInv, ScanOrder, Scanning
<1>3. todo' \subseteq DOMAIN folder /\ (cdir => todo' = DOMAIN folder)
  BY DEF BeginList
<1>4. Recorded(folder, h)
  <2>1. h = UNION {Shows(n) : n \in DOMAIN folder}
    BY DEF BeginList
  <2>2. \A n \in DOMAIN folder : Shows(n) \subseteq h
    BY <2>1
  <2>3. QED
    BY <2>2 DEF Shows, Recorded
<1>5. \A n \in P : n \notin DOMAIN folder /\ n # NoEntry => n \in touched' /\ GoneMarks(n) \subseteq h
  BY <1>2, <1>3
<1>6. cdir => DOMAIN folder \subseteq P
  BY <1>3
<1> HIDE DEF P, U, h
<1>7. Sound(Rows(<<>>), h)
  BY NothingListed
<1>8. cdir => Kept(Rows(<<>>), P, U, folder)
  BY <1>6, NothingListed
<1>9. QED
  BY <1>1, <1>2, <1>4, <1>5, <1>7, <1>8 DEF ScanKept, P, U, h

(* A listing that fits the buffer is read as it was made.                  *)
LEMMA ListParsed ==
  ASSUME NEW N, N \subseteq Seq(Byte \ {0}), NEW es \in Seq(Entries(N)),
         Len(ListReply(es)) <= BuffSize
  PROVE  Parse(ListReply(es)) = Rows(es)
<1>1. /\ ListReply(es) \in Seq(Byte) /\ Len(ListReply(es)) >= Len(es)
      /\ Parse(ListReply(es)) = [i \in 1..(Len(es) % 65536) |-> Row(es[i])]
  BY ListingReadBack
<1>2. BuffSize \in Nat /\ BuffSize < 65536
  BY ListAssumption, ShortIs
<1> DEFINE n == Len(es)
           b == Len(ListReply(es))
<1>3. n \in Nat /\ b \in Nat /\ b <= BuffSize /\ n <= b
  BY <1>1
<1> HIDE DEF n, b
<1>4. n \in Nat /\ n < 65536
  BY <1>2, <1>3
<1>5. n % 65536 = n
  BY ONLY <1>4, ShortStays
<1>6. QED
  BY <1>1, <1>5 DEF n, Rows

(* The answer is sent.                                                     *)
LEMMA SendStep ==
  ASSUME IInv, ScanKept, SendList, dpc' = dpc
  PROVE  ScanKept' /\ TableKept'
<1>0. NamesStored /\ stack \in Seq(Entries(names)) /\ (dpc # "none" => cdir)
  BY DEF IInv, TypeOK, ListTypeOK, Entries, TableTurn
<1>1. /\ lpc = "scan" /\ todo = {} /\ lpc' \in {"recv", "dead"}
      /\ UNCHANGED <<names, folder, cdir, req, touched, had>>
  BY DEF SendList, histVars
<1>2. ScanKept'
  BY <1>1 DEF ScanKept, Scanning
<1>3. dpc # "idle"
  BY <1>1 DEF IInv, TableTurn
<1>4. ASSUME dpc = "list", lpc' = "recv", ~ overlong'
      PROVE  Sound(Parse(reply'), had) /\ Kept(Parse(reply'), {}, names \ touched, folder)
  <2>1. reply = <<>>
    BY <1>1, <1>4 DEF IInv, TableTurn, InTurn
  <2> DEFINE b == ListReply(stack)
             U == names \ touched
             P == todo \cup {cur}
  <2>2. /\ names \subseteq Seq(Byte \ {0}) /\ \A n \in names : n # NoEntry
    BY <1>0 DEF NamesStored, NoEntry
  <2>3. b \in Seq(Byte)
    BY <1>0, <2>2, ListingReadBack
  <2>4. reply' = reply \o b /\ Len(b) <= BuffSize
    <3>1. \/ reply' = reply \o b /\ overlong' = (overlong \/ Len(b) > BuffSize)
          \/ lpc' = "dead"
      BY DEF SendList, Answer
    <3>2. reply' = reply \o b /\ ~ (Len(b) > BuffSize)
      BY <1>4, <3>1
    <3>3. Len(b) \in Nat /\ BuffSize \in Nat
      BY <2>3, ListAssumption, ShortIs
    <3>4. QED
      BY <3>2, <3>3
  <2>5. reply' = b
    <3> HIDE DEF b
    <3>1. QED
      BY <2>1, <2>3, <2>4
  <2>6. Parse(b) = Rows(stack)
    BY <1>0, <2>2, <2>4, ListParsed
  <2>7. Sound(Rows(stack), had) /\ Kept(Rows(stack), P, U, folder)
    BY <1>0, <1>1, <1>4 DEF ScanKept, Scanning
  <2>8. cur = NoEntry
    BY <1>1 DEF IInv, ScanOrder
  <2>9. \A n \in U : n \in P <=> n \in {}
    BY <1>1, <2>2, <2>8
  <2> HIDE DEF b, U, P
  <2>10. Kept(Rows(stack), {}, U, folder)
    BY <2>7, <2>9, KeptLater
  <2>11. QED
    BY <2>5, <2>6, <2>7, <2>10 DEF U
<1>5. QED
  BY <1>1, <1>2, <1>3, <1>4 DEF TableKept

LInv == IInv /\ ScanKept /\ TableKept

(* A step of the process.                                                  *)
LEMMA ProcessKept ==
  ASSUME IInv, ScanKept, Process
  PROVE  ScanKept' /\ TableKept'
<1>0. ProcessStep /\ UNCHANGED <<dpc, rows>>
  BY DEF Process, tableVars
<1>1. CASE Create \/ ResList \/ UploadNothing \/ removeMess \/ Ignore \/ Exit
  <2>1. lpc = "recv" /\ req # <<>> /\ req[1] # 49
    BY <1>1 DEF Create, ResList, UploadNothing, removeMess, Ignore, Ignored, Exit, Asked
  <2>2. lpc' \in {"recv", "closed", "dead"}
    BY <1>1 DEF Create, ResList, UploadNothing, removeMess, Ignore, Exit, Asked
  <2>3. dpc # "idle"
    BY <2>1 DEF IInv, TableTurn
  <2>4. dpc # "list"
    <3>1. ASSUME dpc = "list" PROVE FALSE
      <4>1. InTurn(<< 49 >>, lpc, req, reply, names)
        BY <2>1, <3>1 DEF IInv, TableTurn
      <4>2. req = << 49 >>
        BY <2>1, <4>1 DEF InTurn
      <4>3. QED
        BY <2>1, <4>2
    <3>2. QED
      BY <3>1
  <2>5. QED
    BY <1>0, <2>2, <2>3, <2>4 DEF ScanKept, Scanning, TableKept
<1>2. CASE BeginList
  <2>1. lpc' = "scan" /\ lpc = "recv" /\ req # <<>>
    BY <1>2 DEF BeginList, Asked
  <2>2. dpc # "idle"
    BY <2>1 DEF IInv, TableTurn
  <2>3. QED
    BY <1>0, <1>2, <2>1, <2>2, BeginStep DEF TableKept
<1>3. CASE (\E n \in names : ReadDir(n)) \/ AddToStack
  <2>1. lpc # "recv" /\ lpc # "dead" /\ lpc' # "recv"
    BY <1>3 DEF ReadDir, AddToStack
  <2>2. dpc # "idle"
    BY <2>1 DEF IInv, TableTurn
  <2>3. TableKept'
    BY <1>0, <2>1, <2>2 DEF TableKept
  <2>4. ScanKept'
    BY <1>3, ScanStep, AddStep
  <2>5. QED
    BY <2>3, <2>4
<1>4. CASE SendList
  BY <1>0, <1>4, SendStep
<1>5. QED
  BY <1>0, <1>1, <1>2, <1>3, <1>4 DEF ProcessStep

(* A step of the table.                                                    *)
LEMMA TableStepKept ==
  ASSUME IInv, ScanKept, TableKept, Table
  PROVE  ScanKept' /\ TableKept'
<1>0. /\ TableStep
      /\ UNCHANGED <<names, folder, cdir, lpc, scanVars, overlong, touched, had>>
      /\ ListTypeOK
  BY DEF Table, Unseen, histVars, IInv, TypeOK
<1>1. FolderStep
  BY <1>0, SameFolder
<1>2. ScanKept'
  BY <1>0, <1>1, ScanLater
<1>3. CASE Refresh \/ DeleteDone
  BY <1>2, <1>3 DEF Refresh, DeleteDone, TableKept
<1>4. CASE ReadRows
  <2>1. dpc = "list" /\ dpc' = "idle" /\ rows' = Parse(reply) /\ reply # <<>>
    BY <1>4 DEF ReadRows
  <2>2. lpc = "recv" /\ req = <<>>
    <3>1. InTurn(<< 49 >>, lpc, req, reply, names)
      BY <2>1 DEF IInv, TableTurn
    <3>2. QED
      BY <2>1, <3>1 DEF InTurn
  <2>3. ~ overlong => Sound(Parse(reply), had) /\ Kept(Parse(reply), {}, names \ touched, folder)
    BY <2>1, <2>2 DEF TableKept
  <2>4. QED
    BY <1>0, <1>2, <2>1, <2>3 DEF TableKept
<1>5. CASE \E i \in 1..Len(rows) : DeleteRow(i)
  BY <1>2, <1>5 DEF DeleteRow, TableKept
<1>6. CASE NoAnswer
  <2>1. lpc = "dead" /\ dpc # "none" /\ dpc' \in {"closed", "idle"}
    BY <1>6 DEF NoAnswer
  <2>2. overlong'
    BY <1>0, <2>1 DEF IInv, TableTurn
  <2>3. QED
    BY <1>2, <2>1, <2>2 DEF TableKept
<1>7. QED
  BY <1>0, <1>3, <1>4, <1>5, <1>6 DEF TableStep

LEMMA NextLInv ==
  ASSUME LInv, [Next]_vars
  PROVE  LInv'
<1>0. IInv /\ ScanKept /\ TableKept /\ ListTypeOK
  BY DEF LInv, IInv, TypeOK
<1>1. IInv'
  BY <1>0, NextIInv
<1>2. CASE UNCHANGED vars
  <2>1. /\ UNCHANGED <<names, folder, cdir, lpc, scanVars, req, reply, overlong, dpc, rows>>
        /\ UNCHANGED <<touched, had>>
    BY <1>2 DEF vars, listVars, histVars, tableVars
  <2>2. FolderStep
    BY <1>0, <2>1, SameFolder
  <2>3. QED
    BY <1>0, <1>1, <2>1, <2>2, ScanLater, TableLater DEF LInv
<1>3. CASE Process
  BY <1>0, <1>1, <1>3, ProcessKept DEF LInv
<1>4. CASE Table
  BY <1>0, <1>1, <1>4, TableStepKept DEF LInv
<1>5. CASE Text
  <2>1. /\ UNCHANGED <<names, folder, cdir, lpc, scanVars, touched, had, dpc>>
        /\ TextStep
    BY <1>5 DEF Text, Unseen, histVars, tableVars
  <2>2. FolderStep
    BY <1>0, <2>1, SameFolder
  <2>3. ScanKept'
    BY <1>0, <2>1, <2>2, ScanLater
  <2>4. tpc # "none"
    BY <2>1 DEF TextStep, ShowReply, Type
  <2>5. dpc = "none"
    BY <1>0, <2>4 DEF IInv, TableTurn
  <2>6. QED
    BY <1>1, <2>1, <2>3, <2>5 DEF LInv, TableKept
<1>6. CASE Other
  <2>1. /\ FolderStep
        /\ UNCHANGED <<names, cdir, lpc, scanVars, req, reply, overlong, dpc, rows>>
    BY <1>0, <1>6, OthersStep DEF Other, tableVars
  <2>2. QED
    BY <1>0, <1>1, <2>1, ScanLater, TableLater DEF LInv
<1>7. QED
  BY <1>2, <1>3, <1>4, <1>5, <1>6 DEF Next

LEMMA InitLInv ==
  ASSUME Init
  PROVE  LInv
<1>1. IInv
  BY InitIInv
<1>2. lpc = "recv" /\ dpc # "idle" /\ (dpc = "list" => req # <<>>)
  BY DEF Init, ListInit
<1>3. QED
  BY <1>1, <1>2 DEF LInv, ScanKept, Scanning, TableKept

LEMMA RowsKept ==
  ASSUME LInv, dpc = "idle", ~ overlong
  PROVE  Sound(rows, had) /\ Kept(rows, {}, names \ touched, folder)
BY DEF LInv, TableKept

(* A row shows a size its file had while the folder was listed, or one of  *)
(* the two marks of a file removed meanwhile, whatever the others did      *)
(* between readdir and the two calls of stat (listFiles, getFiles).        *)
THEOREM RowsShowTheirSize == Spec => []RowsHadTheirSize
<1>1. ASSUME LInv PROVE RowsHadTheirSize
  <2>1. ASSUME dpc = "idle", ~ overlong PROVE Shown \subseteq had
    <3>1. Sound(rows, had)
      BY <1>1, <2>1, RowsKept
    <3>2. QED
      BY <3>1 DEF Sound, Shown
  <2>2. QED
    BY <2>1 DEF RowsHadTheirSize
<1>2. Init => LInv
  BY InitLInv
<1>3. LInv /\ [Next]_vars => LInv'
  BY NextLInv
<1>4. QED
  BY <1>1, <1>2, <1>3, PTL DEF Spec

(* A file that nobody touched is in the table once and with its size, and  *)
(* a name nobody holds is not, whatever others do to the files around it.  *)
THEOREM UntouchedInTable == Spec => []UntouchedListed
<1>1. ASSUME LInv PROVE UntouchedListed
  <2>1. SUFFICES ASSUME dpc = "idle", ~ overlong, NEW n \in names \ touched
                 PROVE  /\ {e \in Shown : e[1] = n} =
                             IF n \in DOMAIN folder /\ Visible(n) THEN Shows(n) ELSE {}
                        /\ Cardinality({i \in 1..Len(rows) : rows[i].name = n}) <= 1
    BY DEF UntouchedListed
  <2>2. Kept(rows, {}, names \ touched, folder)
    BY <1>1, <2>1, RowsKept
  <2> DEFINE R == {i \in 1..Len(rows) : rows[i].name = n}
  <2>3. \A i, j \in R : i = j
    BY <2>2 DEF Kept, Once
  <2>4. \A i \in R : n \in DOMAIN folder /\ Visible(n) /\ rows[i].size = folder[n] % 65536
    BY <2>2 DEF Kept, Right
  <2>5. n \in DOMAIN folder /\ Visible(n) => \E i \in R : TRUE
    BY <2>2 DEF Kept, Complete
  <2>6. {e \in Shown : e[1] = n} = {<< n, rows[i].size >> : i \in R}
    BY DEF Shown
  <2> HIDE DEF R
  <2>7. Cardinality(R) <= 1
    <3>1. CASE R = {}
      BY <3>1, FS_EmptySet
    <3>2. CASE R # {}
      <4>1. PICK i : R = {i}
        BY <2>3, <3>2
      <4>2. QED
        BY <4>1, FS_Singleton
    <3>3. QED
      BY <3>1, <3>2
  <2>8. {<< n, rows[i].size >> : i \in R} =
          IF n \in DOMAIN folder /\ Visible(n) THEN Shows(n) ELSE {}
    <3>1. CASE R = {}
      BY <2>5, <3>1
    <3>2. CASE R # {}
      <4>1. PICK i \in R : R = {i}
        BY <2>3, <3>2
      <4>2. n \in DOMAIN folder /\ Visible(n) /\ rows[i].size = folder[n] % 65536
        BY <2>4
      <4>3. {<< n, rows[j].size >> : j \in R} = {<< n, rows[i].size >>}
        BY <4>1
      <4>4. QED
        BY <4>2, <4>3 DEF Shows
    <3>3. QED
      BY <3>1, <3>2
  <2>9. QED
    BY <2>6, <2>7, <2>8 DEF R
<1>2. Init => LInv
  BY InitLInv
<1>3. LInv /\ [Next]_vars => LInv'
  BY NextLInv
<1>4. QED
  BY <1>1, <1>2, <1>3, PTL DEF Spec

-----------------------------------------------------------------------------
(* The step that takes the request of a row's delete from the socket is    *)
(* removeMess, with the name that addString sent.                          *)
LEMMA DeleteTaken ==
  ASSUME IInv, Next, dpc = "del", req # <<>>, req' = <<>>
  PROVE  DOMAIN folder \ DOMAIN folder' \subseteq {Sent(charset, sel)}
<1>0. /\ NamesStored /\ TableTurn /\ ListTypeOK /\ TableTypeOK /\ cdir /\ tpc = "none"
  BY DEF IInv, TypeOK, TableTurn
<1>1. sel \in Seq(Byte \ {0}) /\ sel \in Seq(Character) /\ charset \in Charset
  BY <1>0, ByteCharacters DEF TableTurn, NamesStored, TableTypeOK
<1>2. ~ Table
  <2>1. ASSUME TableStep PROVE FALSE
    <3>1. CASE NoAnswer
      BY <3>1 DEF NoAnswer
    <3>2. CASE DeleteDone
      BY <3>2 DEF DeleteDone
    <3>3. QED
      BY <2>1, <3>1, <3>2 DEF TableStep, Refresh, ReadRows, DeleteRow
  <2>2. QED
    BY <2>1 DEF Table
<1>3. ~ Text
  BY <1>0 DEF Text, TextStep, ShowReply, Type
<1>4. ~ Other
  BY <1>0, OthersStep DEF Other
<1>5. ProcessStep
  BY <1>2, <1>3, <1>4 DEF Next, Process
<1>6. lpc # "dead"
  BY <1>5 DEF ProcessStep, Create, ResList, UploadNothing, removeMess, Ignore, Exit,
     BeginList, ReadDir, AddToStack, SendList, Asked
<1>7. req = << 55 >> \o AddString(charset, sel) /\ lpc = "recv"
  BY <1>0, <1>6 DEF TableTurn, InTurn
<1>8. req[1] = 55 /\ Tail(req) = AddString(charset, sel)
  BY <1>1, <1>7, TableRequests
<1>9. removeMess
  BY <1>5, <1>7, <1>8 DEF ProcessStep, Create, ResList, UploadNothing, Ignore, Ignored, Exit,
     BeginList, ReadDir, AddToStack, SendList, Asked
<1>10. PICK n : n = Name
  OBVIOUS
<1>11. removeFile(n)
  BY <1>0, <1>9, <1>10 DEF removeMess
<1>12. DOMAIN folder \ DOMAIN folder' \subseteq {n}
  BY <1>0, <1>11, RemoveFileStep
<1>13. n = Sent(charset, sel)
  <2> DEFINE b == AddString(charset, sel)
  <2>1. << 0 >> \in Seq(Byte)
    <3>1. 0 \in Byte
      BY ByteIs
    <3>2. QED
      BY <3>1
  <2>2. b \in Seq(Byte) /\ EatString(b \o << 0 >>).str = Sent(charset, sel)
    BY <1>1, <2>1, SentRead
  <2>3. n = EatString(Append(b, 0)).str
    BY <1>8, <1>10 DEF Name
  <2> HIDE DEF b
  <2>4. Append(b, 0) = b \o << 0 >>
    BY <2>2
  <2>5. QED
    BY <2>2, <2>3, <2>4
<1>14. QED
  BY <1>12, <1>13

(* deleteFile of a row removes no file but that of the row when the        *)
(* charset writes the characters of its name as the bytes they were read   *)
(* from, and in UTF-8 otherwise no file with a plain name (deleteFile,     *)
(* addString, removeMess).                                                 *)
THEOREM DeleteOfARow == Spec => DeleteHitsItsRow
<1>1. ASSUME IInv, [Next]_vars
      PROVE  [dpc = "del" /\ req # <<>> /\ req' = <<>> =>
                LET gone == DOMAIN folder \ DOMAIN folder' IN
                  /\ SentBack(sel) => gone \subseteq {sel}
                  /\ ~ Plain(sel) /\ charset = "utf8" => \A n \in gone : ~ Plain(n)]_vars
  <2>1. CASE UNCHANGED vars
    BY <2>1
  <2>2. SUFFICES ASSUME Next, dpc = "del", req # <<>>, req' = <<>>
                 PROVE  /\ SentBack(sel) => DOMAIN folder \ DOMAIN folder' \subseteq {sel}
                        /\ ~ Plain(sel) /\ charset = "utf8" =>
                             \A n \in DOMAIN folder \ DOMAIN folder' : ~ Plain(n)
    BY <1>1, <2>1
  <2>3. DOMAIN folder \ DOMAIN folder' \subseteq {Sent(charset, sel)}
    BY <1>1, <2>2, DeleteTaken
  <2>4. sel \in Seq(Byte \ {0}) /\ charset \in Charset
    BY <1>1, <2>2 DEF IInv, TypeOK, TableTypeOK, TableTurn, NamesStored
  <2>5. SentBack(sel) => Sent(charset, sel) = sel
    BY <2>4, SentPlain DEF SentBack
  <2>6. ~ Plain(sel) => ~ Plain(Sent("utf8", sel))
    BY <2>4, SentNotPlain
  <2>7. QED
    BY <2>3, <2>5, <2>6
<1>2. Init => IInv
  BY InitIInv
<1>3. IInv /\ [Next]_vars => IInv'
  BY NextIInv
<1>4. QED
  BY <1>1, <1>2, <1>3, PTL DEF Spec, DeleteHitsItsRow

-----------------------------------------------------------------------------
(* The text client.  A line that went out alone lies in the socket, or is  *)
(* dealt with: then there is an answer to read or to come, or the line is  *)
(* one without an answer.                                                  *)
DealtWith(l, pc, rq, rp, over) ==
  \/ rq = l
  \/ rq = <<>> /\ \/ rp # <<>>
                  \/ Scanning(pc) /\ l[1] = 49
                  \/ pc = "recv" /\ l[1] \in Ignored \cup {51}
                  \/ pc = "closed" /\ l[1] = 57
                  \/ pc = "dead" /\ (l[1] = 48 \/ (l[1] = 49 /\ over))

(* As long as every answer was taken whole, lines and answers take turns.  *)
TextTurn ==
  /\ tpc = "recv" => line \in Line
  /\ tpc = "recv" /\ ~ merged => DealtWith(line, lpc, req, reply, overlong)
  /\ tpc = "type" /\ instep => lpc = "recv" /\ req = <<>> /\ reply = <<>>
  /\ tpc = "recv" /\ instep => InTurn(line, lpc, req, reply, names)

TInv == IInv /\ TextTurn

(* A listing is not nothing, whatever lies in front of it.                 *)
LEMMA ListedAnswer ==
  ASSUME ListTypeOK, NamesStored
  PROVE  reply \o ListReply(stack) # <<>>
<1> DEFINE b == ListReply(stack)
<1>1. b \in Seq(Byte) /\ b # <<>>
  <2>1. stack \in Seq(Entries(names)) /\ names \subseteq Seq(Byte \ {0})
    BY DEF ListTypeOK, Entries, NamesStored
  <2>2. QED
    BY <2>1, ListingReadBack
<1>2. reply \in Seq(Byte)
  BY DEF ListTypeOK
<1> HIDE DEF b
<1>3. reply \o b # <<>>
  BY <1>1, <1>2, AnswerBytes
<1>4. QED
  BY <1>3 DEF b

LEMMA StringAnswered ==
  ASSUME ListTypeOK
  PROVE  reply \o StringAnswer # <<>> /\ reply \o << 54 >> # <<>>
<1>1. StringAnswer \in Seq(Byte) /\ StringAnswer # <<>>
      /\ << 54 >> \in Seq(Byte) /\ << 54 >> # <<>> /\ reply \in Seq(Byte)
  BY AnswerBytes DEF ListTypeOK
<1>2. QED
  BY <1>1, AnswerBytes

(* A step of the process, for a line it has or had.                        *)
LEMMA DealtStep ==
  ASSUME ListTypeOK, NamesStored, ProcessStep,
         NEW l, DealtWith(l, lpc, req, reply, overlong)
  PROVE  DealtWith(l, lpc', req', reply', overlong')
<1>1. CASE ResList \/ removeMess
  <2>1. req' = <<>> /\ reply' = reply \o StringAnswer
    BY <1>1 DEF ResList, removeMess, Asked, Answer
  <2>2. QED
    BY <2>1, StringAnswered DEF DealtWith
<1>2. CASE Create
  <2>1. req # <<>> /\ req[1] = 48 /\ req' = <<>>
        /\ (reply' = reply \o StringAnswer \/ lpc' = "dead")
    BY <1>2 DEF Create, Asked, Answer
  <2>2. req = l
    BY <2>1 DEF DealtWith
  <2>3. QED
    BY <2>1, <2>2, StringAnswered DEF DealtWith
<1>3. CASE UploadNothing \/ Ignore
  <2>1. req # <<>> /\ req[1] \in Ignored \cup {51} /\ req' = <<>> /\ lpc' = "recv"
    BY <1>3 DEF UploadNothing, Ignore, Asked
  <2>2. req = l
    BY <2>1 DEF DealtWith
  <2>3. QED
    BY <2>1, <2>2 DEF DealtWith
<1>4. CASE Exit
  <2>1. req # <<>> /\ req[1] = 57 /\ req' = <<>> /\ lpc' = "closed"
    BY <1>4 DEF Exit, Asked
  <2>2. QED
    BY <2>1 DEF DealtWith
<1>5. CASE BeginList
  <2>1. req # <<>> /\ req[1] = 49 /\ req' = <<>> /\ lpc' = "scan"
    BY <1>5 DEF BeginList, Asked
  <2>2. QED
    BY <2>1 DEF DealtWith, Scanning
<1>6. CASE (\E n \in names : ReadDir(n)) \/ AddToStack
  <2>1. Scanning(lpc) /\ Scanning(lpc') /\ req' = req /\ reply' = reply
    BY <1>6 DEF ReadDir, AddToStack, Scanning
  <2>2. QED
    BY <2>1 DEF DealtWith, Scanning
<1>7. CASE SendList
  <2>1. /\ req' = req /\ lpc = "scan"
        /\ \/ reply' = reply \o ListReply(stack)
           \/ reply' = reply /\ lpc' = "dead" /\ overlong' = TRUE
    BY <1>7 DEF SendList, Answer
  <2>2. reply \o ListReply(stack) # <<>>
    BY ListedAnswer
  <2>3. QED
    BY <2>1, <2>2 DEF DealtWith
<1>8. QED
  BY <1>1, <1>2, <1>3, <1>4, <1>5, <1>6, <1>7 DEF ProcessStep

LEMMA TextTurnStep ==
  ASSUME TInv, Next
  PROVE  TextTurn'
<1>0. /\ TypeOK /\ ListTypeOK /\ TextTypeOK /\ NamesStored /\ ScanOrder /\ TableTurn /\ TextTurn
  BY DEF TInv, IInv, TypeOK
<1>1. CASE Process
  <2>1. ProcessStep /\ UNCHANGED <<tpc, line, instep, merged>> /\ names' = names
    BY <1>1, ProcessNames DEF Process, textVars
  <2>2. ~ (lpc = "recv" /\ req = <<>>)
    BY <2>1 DEF ProcessStep, Create, ResList, UploadNothing, removeMess, Ignore, Exit, BeginList,
                ReadDir, AddToStack, SendList, Asked
  <2>3. tpc = "type" => ~ instep
    BY <1>0, <2>2 DEF TextTurn
  <2>4. PICK l : l = line
    OBVIOUS
  <2>5. ASSUME tpc = "recv", ~ merged
        PROVE  DealtWith(l, lpc', req', reply', overlong')
    <3>1. DealtWith(l, lpc, req, reply, overlong)
      BY <1>0, <2>4, <2>5 DEF TextTurn
    <3>2. QED
      BY <1>0, <2>1, <3>1, DealtStep
  <2>6. ASSUME tpc = "recv", instep
        PROVE  InTurn(l, lpc', req', reply', names)
    <3>1. InTurn(l, lpc, req, reply, names)
      BY <1>0, <2>4, <2>6 DEF TextTurn
    <3>2. QED
      BY <1>0, <2>1, <3>1, TurnStep
  <2>7. QED
    BY <1>0, <2>1, <2>3, <2>4, <2>5, <2>6 DEF TextTurn
<1>2. CASE Table
  <2>1. dpc # "none" /\ tpc' = tpc
    BY <1>2 DEF Table, TableStep, Refresh, ReadRows, DeleteRow, DeleteDone, NoAnswer, textVars
  <2>2. tpc' = "none"
    BY <1>0, <2>1 DEF TableTurn
  <2>3. QED
    BY <2>2 DEF TextTurn
<1>3. CASE Other
  BY <1>3 DEF Other, textVars, TextTurn
<1>4. CASE Text
  <2>0. TextStep /\ UNCHANGED <<names, lpc, overlong>>
    BY <1>4 DEF Text, Unseen
  <2>3. CASE ShowReply
    <3> DEFINE k == IF Len(reply) < TextRoom THEN Len(reply) ELSE TextRoom
    <3>1. /\ tpc = "recv" /\ tpc' = "type" /\ reply # <<>> /\ req' = req
          /\ reply' = SubSeq(reply, k + 1, Len(reply))
          /\ instep' = (instep /\ k = Len(reply))
      BY <2>3 DEF ShowReply
    <3> HIDE DEF k
    <3>2. ASSUME instep'
          PROVE  lpc' = "recv" /\ req' = <<>> /\ reply' = <<>>
      <4>1. instep /\ k = Len(reply)
        <5>1. instep \in BOOLEAN
          BY <1>0 DEF TextTypeOK
        <5>2. QED
          BY <3>1, <3>2, <5>1
      <4>2. InTurn(line, lpc, req, reply, names)
        BY <1>0, <2>0, <3>1, <3>2, <4>1 DEF TextTurn
      <4>3. lpc = "recv" /\ req = <<>>
        BY <3>1, <4>2 DEF InTurn, Scanning
      <4>4. reply' = <<>>
        <5>1. reply' = SubSeq(reply, Len(reply) + 1, Len(reply)) /\ reply \in Seq(Byte)
          BY <1>0, <3>1, <4>1 DEF ListTypeOK
        <5>2. QED
          BY <5>1
      <4>5. QED
        BY <2>0, <3>1, <4>3, <4>4
    <3>3. QED
      BY <3>1, <3>2 DEF TextTurn
  <2>4. ASSUME NEW l \in Line, Type(l)
        PROVE  TextTurn'
    <3>1. /\ tpc = "type" /\ tpc' = "recv" /\ line' = l /\ reply' = reply /\ instep' = instep
          /\ merged' = (req # <<>>) /\ req' = req \o l
      BY <2>4 DEF Type
    <3>2. req = <<>> => req \o l = l
      <4>1. l \in Seq(Byte)
        BY <1>0, LineTypes
      <4>2. QED
        BY <4>1, ConcatEmptySeq
    <3>3. ASSUME ~ merged'
          PROVE  DealtWith(l, lpc', req', reply', overlong')
      <4>1. req' = l
        BY <2>0, <3>1, <3>2, <3>3
      <4>2. QED
        BY <4>1 DEF DealtWith
    <3>4. ASSUME instep'
          PROVE  InTurn(l, lpc', req', reply', names')
      <4>1. lpc = "recv" /\ req = <<>> /\ reply = <<>>
        BY <1>0, <2>0, <3>1, <3>4 DEF TextTurn
      <4>2. req' = l /\ lpc' = "recv" /\ reply' = <<>>
        BY <2>0, <3>1, <3>2, <3>4, <4>1
      <4>3. QED
        BY <4>2 DEF InTurn
    <3>5. QED
      BY <3>1, <3>3, <3>4 DEF TextTurn
  <2>5. QED
    BY <2>0, <2>3, <2>4 DEF TextStep
<1>5. QED
  BY <1>1, <1>2, <1>3, <1>4 DEF Next

LEMMA InitTInv ==
  ASSUME Init
  PROVE  TInv
<1>1. IInv
  BY InitIInv
<1>2. TextTurn
  BY DEF TextTurn, Init, ListInit
<1>3. QED
  BY <1>1, <1>2 DEF TInv

LEMMA NextTInv ==
  ASSUME TInv, [Next]_vars
  PROVE  TInv'
<1>1. IInv'
  BY NextIInv DEF TInv
<1>2. CASE UNCHANGED vars
  <2>1. UNCHANGED <<names, overlong, lpc, req, reply>> /\ UNCHANGED <<tpc, line, instep, merged>>
    BY <1>2 DEF vars, listVars, textVars
  <2>2. TextTurn'
    BY <2>1 DEF TInv, TextTurn
  <2>3. QED
    BY <1>1, <2>2 DEF TInv
<1>3. CASE Next
  BY <1>1, <1>3, TextTurnStep DEF TInv
<1>4. QED
  BY <1>2, <1>3

(* The text client waits in vain only for the answer to a line the server  *)
(* does not answer, one that came after the end of the process, or with    *)
(* another in one recv (client.c, socketThread).                           *)
THEOREM WaitsOnlyUnanswered == Spec => []TextWaitsInVain
<1>1. ASSUME TInv PROVE TextWaitsInVain
  <2>1. SUFFICES ASSUME tpc = "recv", ~ merged, req = <<>>, reply = <<>>,
                        lpc \notin {"scan", "stat"}
                 PROVE  \/ lpc = "recv" /\ line[1] \in Ignored \cup {51}
                        \/ lpc = "closed" /\ line[1] = 57
                        \/ lpc = "dead" /\ (line[1] = 48 \/ (line[1] = 49 /\ overlong))
    BY DEF TextWaitsInVain
  <2>2. line \in Line /\ DealtWith(line, lpc, req, reply, overlong)
    BY <1>1, <2>1 DEF TInv, TextTurn
  <2>3. line # req
    BY <2>1, <2>2, TextAssumption
  <2>4. QED
    BY <2>1, <2>2, <2>3 DEF DealtWith, Scanning
<1>2. Init => TInv
  BY InitTInv
<1>3. TInv /\ [Next]_vars => TInv'
  BY NextTInv
<1>4. QED
  BY <1>1, <1>2, <1>3, PTL DEF Spec

LEMMA Zeros ==
  << 0 >> \in Seq(Byte) /\ << 0, 0 >> \in Seq(Byte) /\ << 0, 0, 0, 0, 0 >> \in Seq(Byte)
<1>1. 0 \in Byte
  BY ByteIs
<1>2. QED
  BY <1>1

(* Two bytes behind more of them.                                          *)
LEMMA ShortBehind ==
  ASSUME NEW z \in Seq(Byte), NEW more \in Seq(Byte), NEW w \in Seq(Byte)
  PROVE  Len(z) = 2 => ReadShort((z \o more) \o w) = ReadShort(z)
<1> DEFINE a == z \o more
<1>1. a \in Seq(Byte) /\ Len(a) = Len(z) + Len(more) /\ \A m \in 1..Len(z) : a[m] = z[m]
      /\ Len(z) \in Nat /\ Len(more) \in Nat
  BY ConcatBegins
<1> HIDE DEF a
<1>2. \A m \in 1..Len(a) : (a \o w)[m] = a[m]
  BY <1>1, ConcatBegins
<1>3. \A m \in 1..Len(z) : m \in 1..Len(a)
  BY <1>1
<1>4. \A m \in 1..Len(z) : (a \o w)[m] = z[m]
  BY <1>1, <1>2, <1>3
<1>5. ASSUME Len(z) = 2 PROVE ReadShort(a \o w) = ReadShort(z)
  <2>1. 1 \in 1..Len(z) /\ 2 \in 1..Len(z)
    BY <1>5
  <2>2. (a \o w)[1] = z[1] /\ (a \o w)[2] = z[2]
    BY <1>4, <2>1
  <2>3. QED
    BY <2>2 DEF ReadShort
<1>6. QED
  BY <1>5 DEF a

(* A listing of at least one entry begins with that of the first.          *)
EntryBytes(e) == Copy(e.name).bytes \o SizeBytes(e)

ListHead(es) == << 50 >> \o AddShort(Len(es))

LEMMA LengthRead ==
  ASSUME NEW S, NEW es \in Seq(S)
  PROVE  ReadShort(AddShort(Len(es))) = Len(es) % 65536
<1>1. PICK n \in Nat : n = Len(es)
  OBVIOUS
<1>2. ReadShort(AddShort(n)) = n % 65536
  BY ShortRoundTrip
<1>3. QED
  BY <1>1, <1>2

LEMMA HeadBytes ==
  ASSUME NEW S, NEW es \in Seq(S)
  PROVE  /\ ListHead(es) \in Seq(Byte) /\ Len(ListHead(es)) = 3
         /\ ListHead(es)[2] = AddShort(Len(es))[1] /\ ListHead(es)[3] = AddShort(Len(es))[2]
<1> DEFINE a == AddShort(Len(es))
           c == << 50 >>
<1>1. a \in Seq(Byte) /\ Len(a) = 2
  <2>1. Len(es) \in Nat
    OBVIOUS
  <2>2. QED
    BY <2>1, ShortBytes
<1>2. c \in Seq(Byte) /\ Len(c) = 1
  <2>1. 50 \in Byte
    BY ByteIs
  <2>2. QED
    BY <2>1
<1>3. ListHead(es) = c \o a
  BY DEF ListHead
<1> HIDE DEF a, c
<1>4. c \o a \in Seq(Byte) /\ Len(c \o a) = 3 /\ (c \o a)[2] = a[1] /\ (c \o a)[3] = a[2]
  BY <1>1, <1>2, ConcatAll
<1>5. QED
  BY <1>3, <1>4 DEF a

LEMMA ListBegins ==
  ASSUME NEW N, N \subseteq Seq(Byte \ {0}), NEW es \in Seq(Entries(N))
  PROVE  \E body \in Seq(Byte) :
           /\ ListReply(es) = ListHead(es) \o body
           /\ es # <<>> => \E more \in Seq(Byte) : body = EntryBytes(es[1]) \o more
<1> DEFINE n     == Len(es)
           parts == [i \in 1..n |-> EntryBytes(es[i])]
<1>1. n \in Nat /\ \A i \in 1..n : es[i] \in Entries(N)
  OBVIOUS
<1>2. \A i \in 1..n : EntryBytes(es[i]) \in Seq(Byte)
  <2>1. TAKE i \in 1..n
  <2>2. EntryBytes(es[i]) \in Seq(Byte)
    BY <1>1, EmptySeq, EntryRead DEF EntryBytes
  <2>3. QED
    BY <2>2
<1>3. /\ parts \in Seq(Seq(Byte)) /\ Len(parts) = n
      /\ es # <<>> => 1 \in 1..n /\ parts[1] = EntryBytes(es[1])
  BY <1>1, <1>2
<1>4. ListReply(es) = ListHead(es) \o FlattenSeq(parts)
  BY DEF ListReply, ListHead, EntryBytes
<1> HIDE DEF parts
<1>5. PICK F : Runs(F, parts, Byte) /\ FlattenSeq(parts) = F[Len(parts)]
  BY <1>3, FlattenRuns
<1> HIDE DEF n
<1>6. F[n] \in Seq(Byte) /\ F[0] = <<>> /\ n \in 0..Len(parts)
  BY <1>1, <1>3, <1>5 DEF Runs
<1>7. ASSUME es # <<>>
      PROVE  \E more \in Seq(Byte) : F[n] = EntryBytes(es[1]) \o more
  <2>1. 1 \in 1..Len(parts) /\ 1 \in 0..Len(parts) /\ 1 <= n /\ 1 - 1 = 0
    BY <1>1, <1>3, <1>7
  <2>2. F[1] = F[1 - 1] \o parts[1] /\ parts[1] \in Seq(Byte)
    BY <1>5, <2>1 DEF Runs
  <2>3. F[1] = parts[1]
    <3> DEFINE w == parts[1]
    <3>1. w \in Seq(Byte) /\ F[1] = <<>> \o w
      BY <1>6, <2>1, <2>2
    <3> HIDE DEF w
    <3>2. <<>> \o w = w
      BY <3>1, ConcatEmptySeq
    <3>3. QED
      BY <3>1, <3>2 DEF w
  <2>4. Len(F[1]) <= Len(F[n]) /\ \A m \in 1..Len(F[1]) : F[n][m] = F[1][m]
    BY <1>5, <1>6, <2>1, RunsGrow
  <2>5. PICK more \in Seq(Byte) : F[n] = parts[1] \o more
    <3> DEFINE x == F[1]
               y == F[n]
    <3>1. x \in Seq(Byte) /\ y \in Seq(Byte) /\ Len(x) <= Len(y) /\ \A m \in 1..Len(x) : y[m] = x[m]
      BY <1>6, <2>2, <2>3, <2>4
    <3> HIDE DEF x, y
    <3>2. \E more \in Seq(Byte) : y = x \o more
      BY <3>1, Splits
    <3>3. QED
      BY <2>3, <3>2 DEF x, y
  <2>6. QED
    BY <1>3, <1>7, <2>5
<1>8. ListReply(es) = ListHead(es) \o F[n]
  BY <1>3, <1>4, <1>5
<1>9. QED
  BY <1>6, <1>7, <1>8

LEMMA TailShort ==
  ASSUME NEW b \in Seq(Byte), NEW k \in Nat, Len(b) = 3 + k
  PROVE  Tail(b)[1] = b[2] /\ Tail(b)[2] = b[3]
<1> DEFINE n == Len(b)
           t == Len(Tail(b))
<1>1. n # 0
  OBVIOUS
<1>2. b # <<>>
  BY <1>1
<1>3. Len(Tail(b)) = Len(b) - 1 /\ \A i \in 1..Len(Tail(b)) : Tail(b)[i] = b[i + 1]
  BY <1>2, HeadTailProperties
<1>4. t = 3 + k - 1
  BY <1>3
<1> HIDE DEF t
<1>5. 1 \in 1..t /\ 2 \in 1..t
  BY <1>4
<1>6. QED
  BY <1>3, <1>5 DEF t

(* The buffer of the text client, with a listing in front: what it takes   *)
(* for the number of files, and for the first of them.                     *)
LEMMA ListingInBuffer ==
  ASSUME NEW N, N \subseteq Seq(Byte \ {0}), NEW es \in Seq(Entries(N)),
         NEW tail \in Seq(Byte), NEW b, b = ListReply(es)
  PROVE  /\ ReadShort(Tail(b \o tail)) = Len(Parse(b))
         /\ Parse(b) # <<>> =>
              LET e == EatString(SubSeq(b \o tail, 4, Len(b \o tail))) IN
                e.str = Parse(b)[1].name /\ ReadShort(e.rest \o << 0, 0 >>) = Parse(b)[1].size
<1> DEFINE w     == b \o tail
           n     == Len(es)
           h     == ListHead(es)
           count == n % 65536
           rs    == Parse(b)
<1>1. rs = [i \in 1..count |-> Row(es[i])]
  BY ListingReadBack
<1>2. n \in Nat /\ count \in Nat /\ count <= n
  <2>1. n \in Nat
    OBVIOUS
  <2> HIDE DEF n
  <2>2. n % 65536 \in Nat /\ n % 65536 <= n
    BY <2>1
  <2>3. QED
    BY <2>1, <2>2
<1>read. ReadShort(AddShort(n)) = count
  BY LengthRead
<1> HIDE DEF count, rs
<1>3. Len(rs) = count
  BY <1>1, <1>2
<1>4. h \in Seq(Byte) /\ Len(h) = 3 /\ h[2] = AddShort(n)[1] /\ h[3] = AddShort(n)[2]
  BY HeadBytes
<1>5. PICK body \in Seq(Byte) :
        /\ b = h \o body
        /\ es # <<>> => \E more \in Seq(Byte) : body = EntryBytes(es[1]) \o more
  BY ListBegins
<1> HIDE DEF h, w
<1>6. w = h \o (body \o tail) /\ body \o tail \in Seq(Byte)
  <2>1. h \in Seq(Byte)
    BY <1>4
  <2>2. (h \o body) \o tail = h \o (body \o tail) /\ body \o tail \in Seq(Byte)
    BY <2>1
  <2>3. QED
    BY <1>5, <2>2 DEF w
<1> DEFINE u == body \o tail
<1>7. u \in Seq(Byte) /\ w = h \o u
  BY <1>6
<1> HIDE DEF u
<1>8. w \in Seq(Byte) /\ Len(w) = 3 + Len(u) /\ w[2] = h[2] /\ w[3] = h[3] /\ Len(u) \in Nat
  BY <1>4, <1>7, ConcatAfter3
<1>9. ReadShort(Tail(w)) = count
  <2>1. Tail(w)[1] = w[2] /\ Tail(w)[2] = w[3]
    BY <1>8, TailShort
  <2>2. ReadShort(Tail(w)) = ReadShort(AddShort(n))
    BY <1>4, <1>8, <2>1 DEF ReadShort
  <2>3. QED
    BY <1>read, <2>2
<1> HIDE DEF n
<1>10. SubSeq(w, 4, Len(w)) = u
  <2>1. SubSeq(h \o u, Len(h) + 1, Len(h \o u)) = u
    BY <1>4, <1>7, Behind
  <2>2. Len(h) + 1 = 4
    BY <1>4
  <2>3. QED
    BY <1>7, <2>1, <2>2
<1>11. ASSUME rs # <<>>
       PROVE  LET e == EatString(u) IN
                e.str = rs[1].name /\ ReadShort(e.rest \o << 0, 0 >>) = rs[1].size
  <2>1. 1 \in 1..count /\ 1 <= n
    <3>1. count # 0
      BY <1>1, <1>11
    <3>2. QED
      BY <1>2, <3>1
  <2>2. rs[1] = Row(es[1])
    BY <1>1, <2>1
  <2>3. es # <<>>
    BY <1>2, <2>1 DEF n
  <2>4. es[1] \in Entries(N)
    BY <2>3
  <2>5. PICK more \in Seq(Byte) : body = EntryBytes(es[1]) \o more
    BY <1>5, <2>3
  <2> DEFINE e == es[1]
             z == SizeBytes(e)
             p == EntryBytes(e)
             v == more \o tail
             r == EatString(p \o v)
             o == << 0, 0 >>
  <2>6. v \in Seq(Byte)
    OBVIOUS
  <2>7. e \in Entries(N)
    BY <2>4
  <2> HIDE DEF e
  <2>8. p \in Seq(Byte) /\ r.str = e.name /\ r.rest = z \o v
    <3> HIDE DEF v
    <3>1. QED
      BY <2>6, <2>7, EntryRead DEF EntryBytes
  <2>9. z \in Seq(Byte) /\ Len(z) = 2
    BY <2>7, EntrySize
  <2> HIDE DEF r, z
  <2>10. u = p \o v
    <3>1. body = p \o more
      BY <2>5 DEF e
    <3>4. p \in Seq(Byte)
      BY <2>8
    <3> HIDE DEF p, u, v
    <3>2. (p \o more) \o tail = p \o (more \o tail)
      BY <3>4
    <3>3. QED
      BY <3>1, <3>2 DEF u, v
  <2>11. o \in Seq(Byte)
    BY Zeros
  <2> HIDE DEF v, o
  <2>12. ReadShort((z \o v) \o o) = ReadShort(z)
    BY <2>6, <2>9, <2>11, ShortBehind
  <2>13. rs[1].name = e.name /\ rs[1].size = ReadShort(z)
    BY <2>2 DEF Row, e, z
  <2>14. EatString(u) = r
    BY <2>10 DEF r
  <2>15. ReadShort(r.rest \o o) = rs[1].size
    BY <2>8, <2>12, <2>13
  <2>16. QED
    BY <2>8, <2>13, <2>14, <2>15 DEF o
<1>12. QED
  BY <1>3, <1>9, <1>10, <1>11 DEF w, rs

(* What the text client shows after "1" is what the table would read, when *)
(* the answer came in one recv (client.c, LIST_DIR).                       *)
THEOREM ShowsTheAnswer == Spec => TextShowsAnswer
<1>1. ASSUME TInv, [Next]_vars
      PROVE  [tpc = "recv" /\ tpc' = "type" /\ line = << 49 >> /\ lpc = "recv" /\ instep /\ instep' =>
                LET listed == Parse(reply) IN
                  /\ shown'.count = Len(listed)
                  /\ listed # <<>> => /\ shown'.name = listed[1].name
                                      /\ shown'.number = listed[1].size]_vars
  <2>0. /\ ListTypeOK /\ TextTypeOK /\ NamesStored /\ TextTurn
    BY <1>1 DEF TInv, IInv, TypeOK
  <2>1. CASE UNCHANGED vars
    BY <2>1
  <2>2. SUFFICES ASSUME Next, tpc = "recv", tpc' = "type", line = << 49 >>, lpc = "recv", instep, instep'
                 PROVE  /\ shown'.count = Len(Parse(reply))
                        /\ Parse(reply) # <<>> => /\ shown'.name = Parse(reply)[1].name
                                                  /\ shown'.number = Parse(reply)[1].size
    BY <1>1, <2>1
  <2>3. ShowReply
    BY <2>2 DEF Next, Process, Table, Other, Text, textVars, TextStep, Type
  <2> DEFINE k == IF Len(reply) < TextRoom THEN Len(reply) ELSE TextRoom
  <2>4. /\ reply # <<>> /\ Show(Buffer(SubSeq(reply, 1, k)))
        /\ instep' = (instep /\ k = Len(reply))
    BY <2>3 DEF ShowReply
  <2> HIDE DEF k
  <2>5. k = Len(reply) /\ reply \in Seq(Byte)
    BY <2>0, <2>2, <2>4 DEF ListTypeOK, TextTypeOK
  <2>6. SubSeq(reply, 1, k) = reply
    BY <2>5
  <2>7. PICK es \in Seq(Entries(names)) : reply = ListReply(es)
    <3>1. InTurn(line, lpc, req, reply, names)
      BY <2>0, <2>2 DEF TextTurn
    <3>2. line[1] = 49
      BY <2>2
    <3>3. QED
      BY <2>2, <2>4, <3>1, <3>2 DEF InTurn, Scanning, Listing
  <2> DEFINE cut  == SubSeq(line, Len(reply) + 2, Len(line))
             o    == << 0 >>
             zs   == << 0, 0, 0, 0, 0 >>
             tail == o \o (cut \o zs)
             w    == reply \o tail
  <2>8. Show(Buffer(reply))
    BY <2>4, <2>6
  <2>9. o \in Seq(Byte) /\ cut \in Seq(Byte) /\ zs \in Seq(Byte)
    <3>1. line \in Seq(Byte)
      BY <2>0, LineTypes
    <3>2. /\ \A j \in (Len(reply) + 2)..Len(line) : line[j] \in Byte
          /\ Len(reply) + 2 \in Int /\ Len(line) \in Int
      BY <2>5, <3>1
    <3>3. cut \in Seq(Byte)
      BY <3>2, SubSeqProperties
    <3>4. QED
      BY <3>3, Zeros
  <2>10. Buffer(reply) = ((reply \o o) \o cut) \o zs
    BY DEF Buffer
  <2> HIDE DEF o, cut, zs
  <2>11. tail \in Seq(Byte)
    BY <2>9
  <2>12. Buffer(reply) = w
    <3>1. ((reply \o o) \o cut) \o zs = reply \o (o \o (cut \o zs))
      <4> DEFINE ro == reply \o o
                 cz == cut \o zs
      <4>1. reply \in Seq(Byte)
        BY <2>5
      <4>2. o \in Seq(Byte) /\ cut \in Seq(Byte) /\ zs \in Seq(Byte)
        BY <2>9
      <4>3. ro \in Seq(Byte)
        BY <4>1, <4>2
      <4>4. cz \in Seq(Byte)
        BY <4>2
      <4>5. (ro \o cut) \o zs = ro \o cz
        <5> HIDE DEF ro
        <5>1. QED
          BY <4>2, <4>3
      <4>6. ro \o cz = reply \o (o \o cz)
        <5> HIDE DEF cz
        <5>1. QED
          BY <4>1, <4>2, <4>4
      <4>7. QED
        BY <4>5, <4>6
    <3>2. QED
      BY <2>10, <3>1
  <2> HIDE DEF tail
  <2> DEFINE e == EatString(SubSeq(w, 4, Len(w)))
  <2>13. /\ shown'.count = ReadShort(Tail(w)) /\ shown'.name = e.str
         /\ shown'.number = ReadShort(e.rest \o << 0, 0 >>)
    BY <2>8, <2>12 DEF Show, NameAt
  <2>14. /\ ReadShort(Tail(w)) = Len(Parse(reply))
         /\ Parse(reply) # <<>> =>
              e.str = Parse(reply)[1].name /\ ReadShort(e.rest \o << 0, 0 >>) = Parse(reply)[1].size
    <3>1. names \subseteq Seq(Byte \ {0})
      BY <2>0 DEF NamesStored
    <3>2. QED
      BY <2>7, <2>11, <3>1, ListingInBuffer
  <2> HIDE DEF e, w
  <2>15. QED
    BY <2>13, <2>14
<1>2. Init => TInv
  BY InitTInv
<1>3. TInv /\ [Next]_vars => TInv'
  BY NextTInv
<1>4. QED
  BY <1>1, <1>2, <1>3, PTL DEF Spec, TextShowsAnswer

=============================================================================
