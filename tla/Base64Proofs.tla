----------------------------- MODULE Base64Proofs -----------------------------
(***************************************************************************)
(* Base64, for byte sequences of every length: what Encode writes, Decode  *)
(* reads back.  The hashes of CodeResources, the certificates of a profile *)
(* and every data entry of a property list go this way.                    *)
(***************************************************************************)
EXTENDS Base64, SequenceTheorems, TLAPS

\* No character of the alphabet is there twice, and "=" is not.
LEMMA Alphabet ==
  /\ \A m, n \in 0 .. 63 : GetB64char(m) = GetB64char(n) => m = n
  /\ \A n \in 0 .. 63 : GetB64char(n) # "="
<1>1. \A m, n \in 0 .. 63 : GetB64char(m) = GetB64char(n) => m = n
  BY SMTT(60) DEF GetB64char, szTable
<1>2. \A n \in 0 .. 63 : GetB64char(n) # "="
  BY SMTT(60) DEF GetB64char, szTable
<1> QED BY <1>1, <1>2

\* The index of a character is the number it stands for.
LEMMA CharIndex ==
  ASSUME NEW n \in 0 .. 63
  PROVE  GetB64Index(GetB64char(n)) = n /\ GetB64char(n) # "="
<1>1. GetB64char(n) \in Digits
  BY DEF Digits
<1>2. (CHOOSE m \in 0 .. 63 : GetB64char(m) = GetB64char(n)) = n
  BY Alphabet
<1> QED BY <1>1, <1>2, Alphabet DEF GetB64Index, IndexOf

\* The six bits of each of the four characters, and the bytes they make again.
Splits(x, y, z, s1, s2, s3, s4) ==
  /\ s1 = x \div 4
  /\ s2 = ((x % 4) * 16) + y \div 16
  /\ s3 = ((y % 16) * 4) + z \div 64
  /\ s4 = z % 64
Joins(x, y, z, s1, s2, s3, s4) ==
  /\ {s1, s2, s3, s4} \subseteq 0 .. 63
  /\ ((s1 * 4) % 256) + s2 \div 16 = x
  /\ ((s2 * 16) % 256) + s3 \div 4 = y
  /\ ((s3 * 64) % 256) + s4 = z

LEMMA Sextets ==
  ASSUME NEW x \in 0 .. 255, NEW y \in 0 .. 255, NEW z \in 0 .. 255,
         NEW s1, NEW s2, NEW s3, NEW s4, Splits(x, y, z, s1, s2, s3, s4)
  PROVE  Joins(x, y, z, s1, s2, s3, s4)
<1>1. PICK a \in 0 .. 63, b \in 0 .. 3 : x = 4 * a + b /\ x \div 4 = a /\ x % 4 = b
  <2>1. x \div 4 \in 0 .. 63 /\ x % 4 \in 0 .. 3 /\ x = 4 * (x \div 4) + (x % 4)
    OBVIOUS
  <2> QED BY <2>1
<1>2. PICK c \in 0 .. 15, d \in 0 .. 15 : y = 16 * c + d /\ y \div 16 = c /\ y % 16 = d
  <2>1. y \div 16 \in 0 .. 15 /\ y % 16 \in 0 .. 15 /\ y = 16 * (y \div 16) + (y % 16)
    OBVIOUS
  <2> QED BY <2>1
<1>3. PICK e \in 0 .. 3, f \in 0 .. 63 : z = 64 * e + f /\ z \div 64 = e /\ z % 64 = f
  <2>1. z \div 64 \in 0 .. 3 /\ z % 64 \in 0 .. 63 /\ z = 64 * (z \div 64) + (z % 64)
    OBVIOUS
  <2> QED BY <2>1
<1>4. s1 = a /\ s2 = b * 16 + c /\ s3 = d * 4 + e /\ s4 = f
  BY <1>1, <1>2, <1>3 DEF Splits
<1>5. (a * 4) % 256 = a * 4
  OBVIOUS
<1>6. b * 16 + c \in 0 .. 63 /\ (b * 16 + c) \div 16 = b /\ ((b * 16 + c) * 16) % 256 = c * 16
  OBVIOUS
<1>7. d * 4 + e \in 0 .. 63 /\ (d * 4 + e) \div 4 = d /\ ((d * 4 + e) * 64) % 256 = e * 64
  OBVIOUS
<1>8. {s1, s2, s3, s4} \subseteq 0 .. 63
  BY <1>4, <1>6, <1>7
<1>9. (s1 * 4) % 256 = a * 4 /\ s2 \div 16 = b
  BY <1>4, <1>5, <1>6
<1>10. (s2 * 16) % 256 = c * 16 /\ s3 \div 4 = d
  BY <1>4, <1>6, <1>7
<1>11. (s3 * 64) % 256 = e * 64
  BY <1>4, <1>7
<1> QED BY <1>1, <1>2, <1>3, <1>4, <1>8, <1>9, <1>10, <1>11 DEF Joins

\* The characters of three bytes, or of the one or two that are left, are those bytes again.
LEMMA TripleOfQuad ==
  ASSUME NEW b \in [1 .. 3 -> 0 .. 255], NEW rest \in Nat \ {0}
  PROVE  LET q == Quad(b, rest)
         IN  /\ Triple(q)[1] = b[1]
             /\ rest > 1 => Triple(q)[2] = b[2]
             /\ rest > 2 => Triple(q)[3] = b[3] /\ Triple(q) = <<b[1], b[2], b[3]>>
             /\ Kept(q) = {j \in 1 .. 3 : j <= rest}
<1> DEFINE s1 == b[1] \div 4
           s2 == ((b[1] % 4) * 16) + b[2] \div 16
           s3 == ((b[2] % 16) * 4) + b[3] \div 64
           s4 == b[3] % 64
           q  == Quad(b, rest)
<1>1. /\ {s1, s2, s3, s4} \subseteq 0 .. 63
      /\ ((s1 * 4) % 256) + s2 \div 16 = b[1]
      /\ ((s2 * 16) % 256) + s3 \div 4 = b[2]
      /\ ((s3 * 64) % 256) + s4 = b[3]
  <2>1. b[1] \in 0 .. 255 /\ b[2] \in 0 .. 255 /\ b[3] \in 0 .. 255
    OBVIOUS
  <2> HIDE DEF s1, s2, s3, s4
  <2>2. Splits(b[1], b[2], b[3], s1, s2, s3, s4)
    BY DEF Splits, s1, s2, s3, s4
  <2>3. Joins(b[1], b[2], b[3], s1, s2, s3, s4)
    BY <2>1, <2>2, Sextets, Zenon
  <2> QED BY <2>3 DEF Joins
<1>2. q = <<GetB64char(s1), GetB64char(s2), IF rest > 1 THEN GetB64char(s3) ELSE "=",
            IF rest > 2 THEN GetB64char(s4) ELSE "=">>
  BY DEF Quad
<1> HIDE DEF s1, s2, s3, s4, q
<1>3. \A s \in {s1, s2, s3, s4} : GetB64Index(GetB64char(s)) = s /\ GetB64char(s) # "=" /\ s # -1
  BY <1>1, CharIndex
<1>4. /\ q[1] = GetB64char(s1) /\ q[2] = GetB64char(s2)
      /\ q[3] = IF rest > 1 THEN GetB64char(s3) ELSE "="
      /\ q[4] = IF rest > 2 THEN GetB64char(s4) ELSE "="
  BY <1>2
<1>5. /\ GetB64Index(q[1]) = s1 /\ GetB64Index(q[2]) = s2
      /\ rest > 1 => GetB64Index(q[3]) = s3
      /\ rest > 2 => GetB64Index(q[4]) = s4
  BY <1>3, <1>4
<1>6. Triple(q) =
        <<IF GetB64Index(q[2]) = -1 THEN 255
          ELSE ((GetB64Index(q[1]) * 4) % 256) + GetB64Index(q[2]) \div 16,
          IF GetB64Index(q[3]) = -1 THEN 255
          ELSE ((GetB64Index(q[2]) * 16) % 256) + GetB64Index(q[3]) \div 4,
          IF GetB64Index(q[4]) = -1 THEN 255
          ELSE ((GetB64Index(q[3]) * 64) % 256) + GetB64Index(q[4])>>
  BY DEF Triple
<1>7. Triple(q)[1] = b[1]
  BY <1>1, <1>3, <1>5, <1>6
<1>8. rest > 1 => Triple(q)[2] = b[2]
  BY <1>1, <1>3, <1>5, <1>6
<1>9. rest > 2 => Triple(q)[3] = b[3] /\ Triple(q) = <<b[1], b[2], b[3]>>
  BY <1>1, <1>3, <1>5, <1>6
<1>10. Kept(q) = {j \in 1 .. 3 : j <= rest}
  BY <1>3, <1>4 DEF Kept
<1> QED BY <1>7, <1>8, <1>9, <1>10 DEF q

\* A function on 1 .. n is a sequence of length n.
LEMMA IndexedIsSeq ==
  ASSUME NEW n \in Nat, NEW S, NEW f \in [1 .. n -> S]
  PROVE  f \in Seq(S) /\ Len(f) = n /\ DOMAIN f = 1 .. n
OBVIOUS

\* A part of a sequence grows by the element that comes next.
LEMMA Extend ==
  ASSUME NEW S, NEW s \in Seq(S), NEW m \in Nat, m < Len(s)
  PROVE  SubSeq(s, 1, m) \o <<s[m + 1]>> = SubSeq(s, 1, m + 1)
<1>1. s[m + 1] \in S
  OBVIOUS
<1>2. SubSeq(s, 1, m) \in Seq(S) /\ Len(SubSeq(s, 1, m)) = m
  BY SubSeqProperties
<1> QED BY <1>1, <1>2

LEMMA Prefix ==
  ASSUME NEW S, NEW s \in Seq(S), NEW m \in 0 .. Len(s)
  PROVE  SubSeq(s, 1, m) = [k \in 1 .. m |-> s[k]]
BY SubSeqRestrict DEF Restrict

LEMMA Whole ==
  ASSUME NEW S, NEW s \in Seq(S)
  PROVE  SubSeq(s, 1, Len(s)) = s
OBVIOUS

\* The groups of three there are, and what the last of them holds.
LEMMA ThreesOf ==
  ASSUME NEW n \in Nat \ {0}
  PROVE  LET g == (n + 3 - 1) \div 3
         IN  g \in Nat \ {0} /\ n - 3 * (g - 1) \in 1 .. 3
OBVIOUS

LEMMA FoursOf ==
  ASSUME NEW g \in Nat
  PROVE  (4 * g + 4 - 1) \div 4 = g
OBVIOUS

\* The k-th element of n-element groups: which group, and where in it.
LEMMA InFours ==
  ASSUME NEW i \in Nat \ {0}, NEW j \in 1 .. 4
  PROVE  (4 * (i - 1) + j - 1) \div 4 = i - 1 /\ (4 * (i - 1) + j - 1) % 4 = j - 1
OBVIOUS

LEMMA InThrees ==
  ASSUME NEW k \in Nat \ {0}
  PROVE  /\ (k - 1) \div 3 \in Nat
         /\ (k - 1) % 3 \in 0 .. 2
         /\ 3 * ((k - 1) \div 3) + ((k - 1) % 3) = k - 1
OBVIOUS

\* A group of three that the bytes reach: bytes, and zeros after the end.
LEMMA GroupOfBytes ==
  ASSUME NEW bytes \in Seq(0 .. 255), NEW i \in Nat \ {0}
  PROVE  /\ Group(bytes, 3, i, 0) \in [1 .. 3 -> 0 .. 255]
         /\ \A j \in 1 .. 3 : 3 * (i - 1) + j <= Len(bytes) =>
                                Group(bytes, 3, i, 0)[j] = bytes[3 * (i - 1) + j]
<1>1. \A j \in 1 .. 3 : 3 * (i - 1) + j <= Len(bytes) => bytes[3 * (i - 1) + j] \in 0 .. 255
  <2>1. \A k \in 1 .. Len(bytes) : bytes[k] \in 0 .. 255
    BY ElementOfSeq
  <2>2. \A j \in 1 .. 3 : 3 * (i - 1) + j \in Nat \ {0}
    OBVIOUS
  <2>3. Len(bytes) \in Nat
    OBVIOUS
  <2>4. \A k \in Nat \ {0} : k <= Len(bytes) => k \in 1 .. Len(bytes)
    BY <2>3
  <2> QED BY <2>1, <2>2, <2>4, Zenon
<1> QED BY <1>1 DEF Group

\* Decode looks at a group of characters one by one.
LEMMA SameCharacters ==
  ASSUME NEW c, NEW d, \A j \in 1 .. 4 : c[j] = d[j]
  PROVE  Triple(c) = Triple(d) /\ Kept(c) = Kept(d)
<1>1. c[1] = d[1] /\ c[2] = d[2] /\ c[3] = d[3] /\ c[4] = d[4]
  OBVIOUS
<1>2. ASSUME NEW a
      PROVE  Triple(a) =
               <<IF GetB64Index(a[2]) = -1 THEN 255
                 ELSE ((GetB64Index(a[1]) * 4) % 256) + GetB64Index(a[2]) \div 16,
                 IF GetB64Index(a[3]) = -1 THEN 255
                 ELSE ((GetB64Index(a[2]) * 16) % 256) + GetB64Index(a[3]) \div 4,
                 IF GetB64Index(a[4]) = -1 THEN 255
                 ELSE ((GetB64Index(a[3]) * 64) % 256) + GetB64Index(a[4])>>
  BY DEF Triple
<1>3. Triple(c) = Triple(d)
  BY <1>1, <1>2
<1>4. Kept(c) = Kept(d)
  BY <1>1, Zenon DEF Kept
<1> QED BY <1>3, <1>4

\* Encode writes four characters of every group, and reading them four by four gives the groups.
LEMMA GroupOfEncoded ==
  ASSUME NEW bytes \in Seq(0 .. 255)
  PROVE  LET g == Groups(bytes, 3)
             e == Encode(bytes)
             q(i) == Quad(Group(bytes, 3, i, 0), Len(bytes) - 3 * (i - 1))
         IN  /\ g \in Nat
             /\ Groups(e, 4) = g
             /\ \A i \in 1 .. g : Group(e, 4, i, "zero") = [j \in 1 .. 4 |-> q(i)[j]]
<1> DEFINE g == Groups(bytes, 3)
           e == Encode(bytes)
           q(i) == Quad(Group(bytes, 3, i, 0), Len(bytes) - 3 * (i - 1))
           S == {e[k] : k \in 1 .. 4 * g}
<1>1. g \in Nat
  BY DEF Groups
<1>2. e = [k \in 1 .. 4 * g |-> q(1 + (k - 1) \div 4)[1 + ((k - 1) % 4)]]
  BY DEF Encode
<1> HIDE DEF g, e, q
<1>3. e \in [1 .. 4 * g -> S]
  BY <1>2
<1>4. Len(e) = 4 * g
  <2> HIDE DEF S
  <2> QED BY <1>1, <1>3, IndexedIsSeq
<1>5. Groups(e, 4) = g
  BY <1>1, <1>4, FoursOf DEF Groups
<1>6. ASSUME NEW i \in 1 .. g
      PROVE  Group(e, 4, i, "zero") = [j \in 1 .. 4 |-> q(i)[j]]
  <2>1. ASSUME NEW j \in 1 .. 4
        PROVE  4 * (i - 1) + j \in 1 .. 4 * g /\ e[4 * (i - 1) + j] = q(i)[j]
    <3> DEFINE k == 4 * (i - 1) + j
    <3>1. k \in 1 .. 4 * g
      BY <1>1
    <3>2. 1 + (k - 1) \div 4 = i /\ 1 + ((k - 1) % 4) = j
      <4>1. (4 * (i - 1) + j - 1) \div 4 = i - 1 /\ (4 * (i - 1) + j - 1) % 4 = j - 1
        BY <1>1, InFours
      <4> QED BY <4>1, <1>1
    <3> HIDE DEF k
    <3>3. e[k] = q(1 + (k - 1) \div 4)[1 + ((k - 1) % 4)]
      BY <3>1, <1>2
    <3>4. e[k] = q(i)[j]
      BY <3>2, <3>3
    <3> QED BY <3>1, <3>4 DEF k
  <2>2. \A j \in 1 .. 4 : 4 * (i - 1) + j <= Len(e)
    BY <2>1, <1>1, <1>4
  <2>3. Group(e, 4, i, "zero")
          = [j \in 1 .. 4 |-> IF 4 * (i - 1) + j <= Len(e) THEN e[4 * (i - 1) + j] ELSE "zero"]
    BY DEF Group
  <2> QED BY <2>1, <2>2, <2>3
<1> QED BY <1>1, <1>5, <1>6 DEF g, e, q

\* What Encode writes Decode reads back, whatever the bytes are and however many: "=" says how
\* much of the last group counts.  (GetB64char, GetB64Index, Encode and Decode of base64.cpp.)
THEOREM DecodeEncodes == \A bytes \in Seq(0 .. 255) : Decode(Encode(bytes)) = bytes
<1> SUFFICES ASSUME NEW bytes \in Seq(0 .. 255)
             PROVE  Decode(Encode(bytes)) = bytes
  OBVIOUS
<1> DEFINE L == Len(bytes)
           g == Groups(bytes, 3)
           e == Encode(bytes)
           b(i) == Group(bytes, 3, i, 0)
           rest(i) == L - 3 * (i - 1)
           q(i) == Quad(b(i), rest(i))
           c(i) == Group(e, 4, i, "zero")
           last == Triple(c(g))
           kept(j) == IF j \in Kept(c(g)) THEN <<last[j]>> ELSE << >>
           front == [k \in 1 .. 3 * (g - 1) |-> Triple(c(1 + (k - 1) \div 3))[1 + ((k - 1) % 3)]]
<1>1. L \in Nat /\ g = (L + 3 - 1) \div 3 /\ g \in Nat /\ Groups(e, 4) = g
  BY GroupOfEncoded DEF Groups
<1>2. CASE L = 0
  <2>1. bytes = << >> /\ g = 0
    BY <1>1, <1>2
  <2> QED BY <1>1, <2>1 DEF Decode
<1>3. CASE L # 0
  <2>1. g \in Nat \ {0} /\ rest(g) \in 1 .. 3
    BY <1>1, <1>3, ThreesOf
  <2>2. Decode(e) = front \o kept(1) \o kept(2) \o kept(3)
    BY <1>1, <2>1 DEF Decode
  <2>3. ASSUME NEW i \in 1 .. g
        PROVE  /\ b(i) \in [1 .. 3 -> 0 .. 255]
               /\ \A j \in 1 .. 3 : 3 * (i - 1) + j <= L => b(i)[j] = bytes[3 * (i - 1) + j]
               /\ rest(i) \in Nat \ {0}
               /\ i < g => rest(i) > 2
               /\ c(i) = [j \in 1 .. 4 |-> q(i)[j]]
    <3>1. i \in Nat \ {0}
      BY <2>1
    <3>2. rest(i) \in Nat \ {0} /\ (i < g => rest(i) > 2)
      <4>1. L \in Nat /\ g \in Nat \ {0} /\ L - 3 * (g - 1) \in 1 .. 3 /\ i \in 1 .. g
        BY <1>1, <2>1
      <4> HIDE DEF L, g
      <4>2. L - 3 * (i - 1) \in Nat \ {0} /\ (i < g => L - 3 * (i - 1) > 2)
        BY <4>1
      <4> QED BY <4>2
    <3>3. c(i) = [j \in 1 .. 4 |-> q(i)[j]]
      BY GroupOfEncoded
    <3>4. b(i) \in [1 .. 3 -> 0 .. 255]
      BY <3>1, GroupOfBytes
    <3>5. \A j \in 1 .. 3 : 3 * (i - 1) + j <= L => b(i)[j] = bytes[3 * (i - 1) + j]
      BY <3>1, GroupOfBytes
    <3> QED BY <3>2, <3>3, <3>4, <3>5
  <2> HIDE DEF b, c, rest, q, e, g
  <2>4. ASSUME NEW i \in 1 .. g
        PROVE  Triple(c(i)) = Triple(q(i)) /\ Kept(c(i)) = Kept(q(i))
    <3>1. \A j \in 1 .. 4 : c(i)[j] = q(i)[j]
      BY <2>3
    <3> QED BY <3>1, SameCharacters, Zenon
  <2>5. ASSUME NEW i \in 1 .. g
        PROVE  /\ Triple(c(i))[1] = b(i)[1]
               /\ rest(i) > 1 => Triple(c(i))[2] = b(i)[2]
               /\ rest(i) > 2 => Triple(c(i))[3] = b(i)[3]
               /\ Kept(c(i)) = {j \in 1 .. 3 : j <= rest(i)}
    <3>1. b(i) \in [1 .. 3 -> 0 .. 255] /\ rest(i) \in Nat \ {0}
      BY <2>3
    <3>2. /\ Triple(Quad(b(i), rest(i)))[1] = b(i)[1]
          /\ rest(i) > 1 => Triple(Quad(b(i), rest(i)))[2] = b(i)[2]
          /\ rest(i) > 2 => Triple(Quad(b(i), rest(i)))[3] = b(i)[3]
          /\ Kept(Quad(b(i), rest(i))) = {j \in 1 .. 3 : j <= rest(i)}
      BY <3>1, TripleOfQuad, Zenon
    <3> QED BY <3>2, <2>4, Zenon DEF q
  <2>6. front = SubSeq(bytes, 1, 3 * (g - 1))
    <3>1. ASSUME NEW k \in 1 .. 3 * (g - 1)
          PROVE  Triple(c(1 + (k - 1) \div 3))[1 + ((k - 1) % 3)] = bytes[k]
      <4> DEFINE i == 1 + (k - 1) \div 3
                 j == 1 + ((k - 1) % 3)
      <4>1. k \in Nat \ {0} /\ k <= 3 * (g - 1)
        BY <2>1
      <4>2. i \in Nat \ {0} /\ j \in 1 .. 3 /\ 3 * (i - 1) + j = k
        BY <4>1, InThrees
      <4> HIDE DEF i, j
      <4>3. i \in 1 .. g /\ i < g
        BY <4>1, <4>2, <2>1
      <4>4. k <= L
        <5>1. 3 * (g - 1) < L
          BY <1>1, <2>1 DEF rest
        <5> QED BY <5>1, <4>1, <1>1, <2>1
      <4>5. rest(i) \in Nat /\ rest(i) > 2
        BY <4>3, <2>3
      <4>6. b(i)[j] = bytes[k]
        <5>1. \A h \in 1 .. 3 : 3 * (i - 1) + h <= L => b(i)[h] = bytes[3 * (i - 1) + h]
          BY <4>3, <2>3
        <5> QED BY <5>1, <4>2, <4>4, Zenon
      <4>7. Triple(c(i))[1] = b(i)[1] /\ Triple(c(i))[2] = b(i)[2] /\ Triple(c(i))[3] = b(i)[3]
        BY <4>3, <4>5, <2>5
      <4>8. j = 1 \/ j = 2 \/ j = 3
        BY <4>2
      <4>9. Triple(c(i))[j] = b(i)[j]
        BY <4>7, <4>8, Zenon
      <4> QED BY <4>6, <4>9 DEF i, j
    <3>2. 3 * (g - 1) \in Nat /\ 3 * (g - 1) < L
      BY <1>1, <2>1 DEF rest
    <3>3. front = [k \in 1 .. 3 * (g - 1) |-> bytes[k]]
      BY <3>1
    <3> HIDE DEF front
    <3>4. SubSeq(bytes, 1, 3 * (g - 1)) = [k \in 1 .. 3 * (g - 1) |-> bytes[k]]
      BY <3>2, Prefix
    <3> QED BY <3>3, <3>4
  <2>7. g \in 1 .. g
    BY <2>1
  <2> DEFINE m == 3 * (g - 1)
  <2>8. m \in Nat /\ L = m + rest(g)
    BY <1>1, <2>1 DEF rest
  <2>9. \A j \in 1 .. 3 : j <= rest(g) => b(g)[j] = bytes[m + j]
    <3>1. \A j \in 1 .. 3 : m + j <= L => b(g)[j] = bytes[m + j]
      BY <2>3, <2>7
    <3> QED BY <3>1, <2>8, <2>1
  <2>10. \A j \in 1 .. 3 : kept(j) = IF j <= rest(g) THEN <<bytes[m + j]>> ELSE << >>
    <3>1. Kept(c(g)) = {j \in 1 .. 3 : j <= rest(g)}
      BY <2>5, <2>7
    <3>2. /\ last[1] = b(g)[1]
          /\ rest(g) > 1 => last[2] = b(g)[2]
          /\ rest(g) > 2 => last[3] = b(g)[3]
      BY <2>5, <2>7
    <3> HIDE DEF last, m
    <3>3. \A j \in 1 .. 3 : j <= rest(g) => last[j] = bytes[m + j]
      BY <3>2, <2>9, <2>1
    <3> QED BY <3>1, <3>3
  <2> HIDE DEF front, kept, m
  <2>11. front = SubSeq(bytes, 1, m)
    BY <2>6 DEF m
  <2>12. SubSeq(bytes, 1, L) = bytes
    BY Whole
  <2>13. CASE rest(g) = 1
    <3>1. kept(1) = <<bytes[m + 1]>> /\ kept(2) = << >> /\ kept(3) = << >>
      BY <2>10, <2>13
    <3>2. SubSeq(bytes, 1, m) \o <<bytes[m + 1]>> = SubSeq(bytes, 1, m + 1)
      BY <2>8, <2>13, Extend
    <3>3. SubSeq(bytes, 1, m + 1) = bytes
      BY <2>8, <2>13, <2>12
    <3>4. bytes \o << >> = bytes
      OBVIOUS
    <3> QED BY <3>1, <3>2, <3>3, <3>4, <2>2, <2>11, Zenon DEF e
  <2>14. CASE rest(g) = 2
    <3>1. kept(1) = <<bytes[m + 1]>> /\ kept(2) = <<bytes[m + 2]>> /\ kept(3) = << >>
      BY <2>10, <2>14
    <3>2. SubSeq(bytes, 1, m) \o <<bytes[m + 1]>> = SubSeq(bytes, 1, m + 1)
      BY <2>8, <2>14, Extend
    <3>3. SubSeq(bytes, 1, m + 1) \o <<bytes[m + 2]>> = bytes
      <4>1. m + 1 \in Nat /\ m + 1 < L /\ (m + 1) + 1 = L /\ m + 2 = (m + 1) + 1
        BY <2>8, <2>14
      <4>2. SubSeq(bytes, 1, m + 1) \o <<bytes[(m + 1) + 1]>> = SubSeq(bytes, 1, (m + 1) + 1)
        BY <4>1, Extend
      <4> QED BY <4>1, <4>2, <2>12
    <3>4. bytes \o << >> = bytes
      OBVIOUS
    <3> QED BY <3>1, <3>2, <3>3, <3>4, <2>2, <2>11, Zenon DEF e
  <2>15. CASE rest(g) = 3
    <3>1. kept(1) = <<bytes[m + 1]>> /\ kept(2) = <<bytes[m + 2]>> /\ kept(3) = <<bytes[m + 3]>>
      BY <2>10, <2>15
    <3>2. SubSeq(bytes, 1, m) \o <<bytes[m + 1]>> = SubSeq(bytes, 1, m + 1)
      BY <2>8, <2>15, Extend
    <3>3. SubSeq(bytes, 1, m + 1) \o <<bytes[m + 2]>> = SubSeq(bytes, 1, m + 2)
      <4>1. m + 1 \in Nat /\ m + 1 < L /\ m + 2 = (m + 1) + 1
        BY <2>8, <2>15
      <4>2. SubSeq(bytes, 1, m + 1) \o <<bytes[(m + 1) + 1]>> = SubSeq(bytes, 1, (m + 1) + 1)
        BY <4>1, Extend
      <4> QED BY <4>1, <4>2
    <3>4. SubSeq(bytes, 1, m + 2) \o <<bytes[m + 3]>> = bytes
      <4>1. m + 2 \in Nat /\ m + 2 < L /\ (m + 2) + 1 = L /\ m + 3 = (m + 2) + 1
        BY <2>8, <2>15
      <4>2. SubSeq(bytes, 1, m + 2) \o <<bytes[(m + 2) + 1]>> = SubSeq(bytes, 1, (m + 2) + 1)
        BY <4>1, Extend
      <4> QED BY <4>1, <4>2, <2>12
    <3> QED BY <3>1, <3>2, <3>3, <3>4, <2>2, <2>11, Zenon DEF e
  <2> QED BY <2>1, <2>13, <2>14, <2>15 DEF e
<1> QED BY <1>2, <1>3
===============================================================================
