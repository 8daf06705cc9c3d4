------------------------------ MODULE SliceProofs ------------------------------
(***************************************************************************)
(* Slice for all binaries, assets, identifiers and command lines and every *)
(* number of runs: the bytes of a signature, where it lies, what its       *)
(* directories hash, and when a run may fail.                              *)
(***************************************************************************)
EXTENDS Slice, SequenceTheorems, FiniteSetTheorems, WellFoundedInduction, TLAPS

(***************************************************************************)
(* Numbers.                                                                *)
(***************************************************************************)

\* A set of numbers that is not empty has a least one.
LEMMA LeastNumber ==
  ASSUME NEW S \in SUBSET Nat, S # {}
  PROVE  Min(S) \in S /\ \A y \in S : Min(S) <= y
<1>1. PICK x \in S : \A y \in S : ~(<<y, x>> \in OpToRel(<, Nat))
  BY NatLessThanWellFounded, WFMin
<1>2. OpToRel(<, Nat) = {ss \in Nat \X Nat : ss[1] < ss[2]}
  BY Zenon DEF OpToRel
<1>3. \A y \in S : ~(<<y, x>> \in {ss \in Nat \X Nat : ss[1] < ss[2]})
  BY Zenon, <1>1, <1>2
<1>4. \A y \in S : x <= y
  <2> TAKE y \in S
  <2>1. ~(y < x)
    BY <1>3
  <2> QED BY <2>1
<1> QED BY <1>4 DEF Min

LEMMA Aligned ==
  ASSUME NEW n \in Nat
  PROVE  Align16(n) \in Nat /\ Align16(n) >= n
  BY DEF Align16

\* What ByteAlign adds is something.
LEMMA PageAligned ==
  ASSUME NEW n \in Nat
  PROVE  ByteAlign(n, PageSize) \in Nat /\ ByteAlign(n, PageSize) >= n
  BY DEF ByteAlign, PageSize

\* The code slots cover the code, and no more.
LEMMA SlotsCover ==
  ASSUME NEW code \in Nat
  PROVE  /\ CodeSlotCount(code) \in Nat
         /\ CodeSlotCount(code) <= code \div PageSize + 1
         /\ CodeSlotCount(code) * PageSize >= code
         /\ (CodeSlotCount(code) - 1) * PageSize < code \/ code = 0
         /\ code > 0 => CodeSlotCount(code) > 0
<1>1. /\ code = PageSize * (code \div PageSize) + (code % PageSize)
      /\ code % PageSize \in 0 .. PageSize - 1 /\ code \div PageSize \in Nat
  BY DEF PageSize
<1> QED BY <1>1 DEF CodeSlotCount, PageSize

\* A list of code slots has the length of another algorithm's only if both are empty.
LEMMA SameLength ==
  ASSUME NEW n \in Nat \ {0}, NEW h \in {"sha1", "sha256"}, NEW g \in {"sha1", "sha256"},
         n * HashSize(g) = n * HashSize(h)
  PROVE  g = h
<1>1. n * 20 # n * 32
  OBVIOUS
<1> QED BY <1>1 DEF HashSize

(***************************************************************************)
(* The slots of a signature.                                               *)
(***************************************************************************)
\* What Slice signs with.
JobSet ==
  [asset : Assets, ident : {Ident}, execute : BOOLEAN, info : {Empty}, res : {Empty},
   code : Nat \ {0}, pages : {Pages}]
Algorithms == {"sha1", "sha256"}

\* The strings that are known by their length.
LEMMA AssetLengths ==
  ASSUME NEW a \in Assets
  PROVE  /\ a.cn \in Nat /\ a.team \in Nat /\ a.ents \in Nat /\ a.der \in Nat /\ a.cms \in Nat
         /\ a.adhoc \in BOOLEAN /\ a.sha256Only \in BOOLEAN /\ a.known \in BOOLEAN
         /\ a.adhoc = (a.team = 0)
  BY SliceAssumption DEF AssetSet

\* A blob that is not empty has bytes.
Solid(blob) == blob.size \in Nat /\ (blob.size > 0 <=> blob # Empty)

LEMMA RequirementsSolid ==
  ASSUME NEW j \in JobSet
  PROVE  /\ SlotBuildRequirements(j).type = "requirements"
         /\ SlotBuildRequirements(j).size \in Nat /\ SlotBuildRequirements(j).size > 0
         /\ SlotBuildRequirements(j) # Empty
<1>1. j.asset.cn \in Nat /\ j.ident \in Nat
  BY AssetLengths, SliceAssumption DEF JobSet
<1>2. \A n \in Nat : Padded(n) \in Nat
  BY DEF Padded
<1>3. Padded(j.asset.cn) \in Nat /\ Padded(j.ident) \in Nat
  BY <1>1, <1>2
<1> QED BY <1>3 DEF SlotBuildRequirements, Empty

LEMMA EntitlementsSolid ==
  ASSUME NEW j \in JobSet
  PROVE  /\ SlotBuildEntitlements(j).type \in {"empty", "entitlements"}
         /\ Solid(SlotBuildEntitlements(j))
         /\ SlotBuildEntitlements(j) # Empty <=> SlotBuildEntitlements(j).type = "entitlements"
         /\ SlotBuildDerEntitlements(j).type \in {"empty", "der"}
         /\ Solid(SlotBuildDerEntitlements(j))
         /\ SlotBuildDerEntitlements(j) # Empty <=> SlotBuildDerEntitlements(j).type = "der"
<1>1. j.asset.ents \in Nat /\ j.asset.der \in Nat
  BY AssetLengths DEF JobSet
<1> QED BY <1>1 DEF SlotBuildEntitlements, SlotBuildDerEntitlements, EmptyEntitlements, Empty, Solid

LEMMA CMSSolid ==
  ASSUME NEW j \in JobSet, NEW primary, NEW alternate
  PROVE  LET cms == SlotBuildCMSSignature(j, primary, alternate) IN
           cms.type \in {"empty", "cms"} /\ Solid(cms) /\ (cms # Empty <=> cms.type = "cms")
<1>1. j.asset.cms \in Nat
  BY AssetLengths DEF JobSet
<1> QED BY <1>1 DEF SlotBuildCMSSignature, Empty, Solid

(***************************************************************************)
(* The special slots of a directory.                                       *)
(***************************************************************************)
\* A hash of something is not all zeros.
LEMMA HashedIsNotZeros ==
  ASSUME NEW h \in Algorithms, NEW x, x # Empty
  PROVE  Hash(h, x) # Zeros
<1>1. <<h, x>>[1] # Zeros[1]
  BY DEF Algorithms, Zeros
<1> QED BY <1>1 DEF Hash

\* All the special slots, the one farthest from the code slots first.
AllSpecial(h, j) ==
  (IF j.execute THEN <<Hash(h, SlotBuildDerEntitlements(j)), Zeros>> ELSE << >>)
    \o <<Hash(h, SlotBuildEntitlements(j)), Zeros, Hash(h, j.res),
         Hash(h, SlotBuildRequirements(j)), Hash(h, j.info)>>

\* There are seven of an executable and five of another file, each in its place.
LEMMA SpecialPlaces ==
  ASSUME NEW h \in Algorithms, NEW j \in JobSet
  PROVE  LET all == AllSpecial(h, j)
             n   == IF j.execute THEN 7 ELSE 5
         IN  /\ all \in Seq(Range(all)) /\ Len(all) = n
             /\ all[n] = Zeros /\ all[n - 2] = Zeros /\ all[n - 3] = Zeros
             /\ all[n - 1] = Hash(h, SlotBuildRequirements(j))
             /\ all[n - 4] = Hash(h, SlotBuildEntitlements(j))
             /\ j.execute => all[2] = Zeros /\ all[1] = Hash(h, SlotBuildDerEntitlements(j))
<1> DEFINE der == Hash(h, SlotBuildDerEntitlements(j))
           ent == Hash(h, SlotBuildEntitlements(j))
           req == Hash(h, SlotBuildRequirements(j))
<1>1. Hash(h, j.res) = Zeros /\ Hash(h, j.info) = Zeros
  BY DEF Hash, JobSet
<1>2. AllSpecial(h, j) = (IF j.execute THEN <<der, Zeros>> ELSE << >>) \o <<ent, Zeros, Zeros, req, Zeros>>
  BY <1>1 DEF AllSpecial
<1> HIDE DEF der, ent, req
<1>3. CASE j.execute
  <2> DEFINE far  == <<der, Zeros>>
             near == <<ent, Zeros, Zeros, req, Zeros>>
             both == <<der, Zeros, ent, Zeros, Zeros, req, Zeros>>
             S    == {der, ent, req, Zeros}
  <2>a. far \in Seq(S) /\ near \in Seq(S) /\ both \in Seq(S)
    OBVIOUS
  <2>b. Len(far) = 2 /\ Len(near) = 5 /\ Len(both) = 7
    OBVIOUS
  <2>c. far \o near \in Seq(S) /\ Len(far \o near) = 7
    BY <2>a, <2>b, ConcatProperties
  <2>d. \A i \in 1 .. 7 : (far \o near)[i] = IF i <= 2 THEN far[i] ELSE near[i - 2]
    BY <2>a, <2>b, ConcatProperties
  <2>e. \A i \in 1 .. 7 : (far \o near)[i] = both[i]
    <3> TAKE i \in 1 .. 7
    <3>1. i \in {1, 2, 3, 4, 5, 6, 7}
      OBVIOUS
    <3> QED BY <2>d, <3>1
  <2>f. far \o near = both
    BY <2>a, <2>b, <2>c, <2>e, SeqEqual
  <2>1. AllSpecial(h, j) = <<der, Zeros, ent, Zeros, Zeros, req, Zeros>>
    BY <1>2, <1>3, <2>f
  <2>2. AllSpecial(h, j) \in Seq(Range(AllSpecial(h, j)))
    BY <2>1 DEF Range
  <2> QED BY <1>3, <2>1, <2>2 DEF der, ent, req
<1>4. CASE ~j.execute
  <2>1. AllSpecial(h, j) = <<ent, Zeros, Zeros, req, Zeros>>
    BY <1>2, <1>4
  <2>2. AllSpecial(h, j) \in Seq(Range(AllSpecial(h, j)))
    BY <2>1 DEF Range
  <2> QED BY <1>4, <2>1, <2>2 DEF der, ent, req
<1> QED BY <1>3, <1>4

\* The special slots of a directory are all of them, but for the zeros at the far end.
LEMMA SpecialsKept ==
  ASSUME NEW h \in Algorithms, NEW j \in JobSet
  PROVE  LET sp == SpecialSlots(h, j)
             n  == IF j.execute THEN 7 ELSE 5
         IN  /\ Len(sp) \in 1 .. n
             /\ \A k \in 1 .. 7 : (IF k > Len(sp) THEN Zeros ELSE sp[Len(sp) + 1 - k])
                                    = IF k > n THEN Zeros ELSE AllSpecial(h, j)[n + 1 - k]
<1> DEFINE sp  == SpecialSlots(h, j)
           n   == IF j.execute THEN 7 ELSE 5
           all == AllSpecial(h, j)
           far == {i \in DOMAIN all : all[i] # Zeros}
           m   == Min(far)
<1>0. n \in {5, 7} /\ all \in Seq(Range(all)) /\ Len(all) = n
  BY SpecialPlaces
<1>1. n \in {5, 7} /\ all \in Seq(Range(all)) /\ Len(all) = n /\ DOMAIN all = 1 .. n
  <2> HIDE DEF all, n
  <2> QED BY <1>0, LenProperties
<1>2. all[n - 1] # Zeros
  BY SpecialPlaces, HashedIsNotZeros, RequirementsSolid
<1>3. far \in SUBSET Nat /\ n - 1 \in far
  BY <1>1, <1>2
<1>4. m \in 1 .. n - 1 /\ \A i \in 1 .. n : i < m => all[i] = Zeros
  <2>1. m \in far /\ \A i \in far : m <= i
    BY <1>3, LeastNumber
  <2> HIDE DEF m, all, n
  <2>2. m \in 1 .. n /\ m <= n - 1
    BY <1>1, <1>3, <2>1
  <2>3. ASSUME NEW i \in 1 .. n, i < m
        PROVE  all[i] = Zeros
    BY <1>1, <2>1, <2>2, <2>3
  <2> QED BY <1>1, <2>2, <2>3
<1>5. sp = SubSeq(all, m, n)
  BY <1>1 DEF SpecialSlots, AllSpecial
<1> HIDE DEF sp, n, all, far, m
<1>6. Len(sp) = n - m + 1 /\ \A i \in 1 .. n - m + 1 : sp[i] = all[m + i - 1]
  <2>1. m \in 1 .. Len(all) + 1 /\ n \in m - 1 .. Len(all)
    BY <1>1, <1>4
  <2> QED BY <1>1, <1>5, <2>1, SubSeqProperties
<1>7. ASSUME NEW k \in 1 .. 7
      PROVE  (IF k > Len(sp) THEN Zeros ELSE sp[Len(sp) + 1 - k])
                = IF k > n THEN Zeros ELSE all[n + 1 - k]
  <2>1. CASE k > n
    BY <1>1, <1>4, <1>6, <2>1
  <2>2. CASE k > n - m + 1 /\ k <= n
    <3>1. n + 1 - k \in 1 .. n /\ n + 1 - k < m
      BY <1>1, <1>4, <2>2
    <3> QED BY <1>1, <1>4, <1>6, <2>2, <3>1
  <2>3. CASE k <= n - m + 1
    <3>1. n - m + 2 - k \in 1 .. n - m + 1 /\ m + (n - m + 2 - k) - 1 = n + 1 - k
      BY <1>1, <1>4, <2>3
    <3>2. sp[n - m + 2 - k] = all[n + 1 - k]
      BY <1>6, <3>1
    <3>3. Len(sp) + 1 - k = n - m + 2 - k /\ ~(k > Len(sp)) /\ ~(k > n)
      BY <1>1, <1>4, <1>6, <2>3
    <3> QED BY <3>2, <3>3
  <2> QED BY <1>1, <1>4, <2>1, <2>2, <2>3
<1>8. Len(sp) \in 1 .. n
  BY <1>1, <1>4, <1>6
<1> QED BY <1>7, <1>8 DEF sp, n, all

(***************************************************************************)
(* A directory.                                                            *)
(***************************************************************************)

\* What a directory is made of: its parts lie next to each other.
LEMMA DirectoryMade ==
  ASSUME NEW type, NEW h \in Algorithms, NEW j \in JobSet, NEW existing
  PROVE  LET cd == SlotBuildCodeDirectory(type, h, j, existing) IN
           /\ cd.type = type /\ cd.hash = h /\ cd.limit = j.code
           /\ cd.nCode = CodeSlotCount(j.code) /\ cd.nCode \in Nat
           /\ cd.specials = SpecialSlots(h, j) /\ cd.nSpecial = Len(SpecialSlots(h, j))
           /\ cd.nSpecial \in Nat
           /\ cd.identOffset = HeaderLength
           /\ cd.teamOffset = IF j.asset.team = 0 THEN 0 ELSE HeaderLength + Ident + 1
           /\ cd.hashOffset = HeaderLength + (Ident + 1) + TeamLength(j) + cd.nSpecial * HashSize(h)
           /\ cd.hashOffset \in Nat
           /\ cd.size = cd.hashOffset + cd.nCode * HashSize(h)
           /\ cd.size \in Nat /\ cd.size > 0
           /\ cd.slots = IF Reusable(existing, h, j) THEN existing ELSE FreshSlots(h, j)
<1> DEFINE n  == Len(SpecialSlots(h, j))
           c  == CodeSlotCount(j.code)
           hs == HashSize(h)
           t  == TeamLength(j)
           cd == SlotBuildCodeDirectory(type, h, j, existing)
           hashed == HeaderLength + (j.ident + 1) + t
<1>1. n \in Nat /\ c \in Nat /\ hs \in Nat /\ t \in Nat /\ j.ident = Ident /\ Ident \in Nat
  <2>1. j.asset \in Assets /\ j.code \in Nat /\ j.ident = Ident /\ Ident \in Nat
    BY SliceAssumption DEF JobSet
  <2>2. n \in Nat
    <3>1. n \in 1 .. IF j.execute THEN 7 ELSE 5
      BY SpecialsKept
    <3> HIDE DEF n
    <3> QED BY <3>1
  <2>3. t \in Nat
    BY <2>1, AssetLengths DEF TeamLength
  <2>4. c \in Nat
    BY <2>1, SlotsCover
  <2>5. hs \in Nat
    BY DEF HashSize
  <2> QED BY <2>1, <2>2, <2>3, <2>4, <2>5
<1>2. ~(j.code = 0 \/ j.ident = 0 \/ (j.asset.team = 0 /\ ~j.asset.adhoc))
  BY AssetLengths, SliceAssumption DEF JobSet
<1>3. cd = [type |-> type, hash |-> h, limit |-> j.code, adhoc |-> j.asset.adhoc,
            identOffset |-> HeaderLength,
            teamOffset  |-> IF j.asset.team = 0 THEN 0 ELSE HeaderLength + j.ident + 1,
            hashOffset  |-> hashed + n * hs,
            nSpecial    |-> n,
            nCode       |-> c,
            specials    |-> SpecialSlots(h, j),
            slots       |-> IF Reusable(existing, h, j) THEN existing ELSE FreshSlots(h, j),
            size        |-> hashed + (n + c) * hs]
  BY <1>2 DEF SlotBuildCodeDirectory
<1>4. n * hs \in Nat /\ c * hs \in Nat /\ (n + c) * hs = n * hs + c * hs
  BY <1>1
<1>5. hashed \in Nat /\ hashed > 0
  BY <1>1 DEF HeaderLength
<1> HIDE DEF n, c, hs, t
<1>6. hashed + (n + c) * hs = (hashed + n * hs) + c * hs
      /\ hashed + n * hs \in Nat /\ hashed + (n + c) * hs \in Nat /\ hashed + (n + c) * hs > 0
  BY <1>4, <1>5
<1> HIDE DEF cd
<1>7. /\ cd.type = type /\ cd.hash = h /\ cd.limit = j.code /\ cd.nCode = c
      /\ cd.specials = SpecialSlots(h, j) /\ cd.nSpecial = n /\ cd.identOffset = HeaderLength
      /\ cd.teamOffset = IF j.asset.team = 0 THEN 0 ELSE HeaderLength + j.ident + 1
      /\ cd.hashOffset = hashed + n * hs
      /\ cd.size = hashed + (n + c) * hs
      /\ cd.slots = IF Reusable(existing, h, j) THEN existing ELSE FreshSlots(h, j)
  BY <1>3
<1> QED BY <1>1, <1>6, <1>7 DEF n, c, hs, t, cd

(***************************************************************************)
(* The superblob.                                                          *)
(***************************************************************************)
Existing(type, force, old) == IF force THEN None ELSE ExistingSlots(old, type)
First(j, force, old) ==
  IF j.asset.sha256Only
  THEN SlotBuildCodeDirectory("codeDirectory", "sha256", j, Existing("alternate", force, old))
  ELSE SlotBuildCodeDirectory("codeDirectory", "sha1", j, Existing("codeDirectory", force, old))
Second(j, force, old) ==
  IF j.asset.sha256Only THEN Empty
  ELSE SlotBuildCodeDirectory("alternate", "sha256", j, Existing("alternate", force, old))
SixSlots(j, force, old) ==
  <<First(j, force, old), SlotBuildRequirements(j), SlotBuildEntitlements(j),
    SlotBuildDerEntitlements(j), Second(j, force, old),
    SlotBuildCMSSignature(j, First(j, force, old), Second(j, force, old))>>

LEMMA SignatureOfSix ==
  ASSUME NEW j, NEW force, NEW old
  PROVE  BuildCodeSignature(j, force, old) = SuperBlob(SixSlots(j, force, old))
  BY DEF BuildCodeSignature, SixSlots, First, Second, Existing

\* What is in the six places: blobs of six types, any but the first two of them empty.
LEMMA SixPlaces ==
  ASSUME NEW j \in JobSet, NEW force, NEW old
  PROVE  LET s == SixSlots(j, force, old) IN
           /\ DOMAIN s = 1 .. 6
           /\ s[1] = First(j, force, old) /\ s[1].type = "codeDirectory"
           /\ s[2] = SlotBuildRequirements(j) /\ s[2].type = "requirements"
           /\ s[3] = SlotBuildEntitlements(j) /\ s[3].type \in {"empty", "entitlements"}
           /\ s[4] = SlotBuildDerEntitlements(j) /\ s[4].type \in {"empty", "der"}
           /\ s[5] = Second(j, force, old) /\ s[5].type \in {"empty", "alternate"}
           /\ s[6] = SlotBuildCMSSignature(j, s[1], s[5]) /\ s[6].type \in {"empty", "cms"}
           /\ \A i \in 1 .. 6 : Solid(s[i]) /\ (s[i] # Empty <=> s[i].type # "empty")
<1> DEFINE first  == First(j, force, old)
           second == Second(j, force, old)
           cms    == SlotBuildCMSSignature(j, first, second)
           req    == SlotBuildRequirements(j)
           ent    == SlotBuildEntitlements(j)
           der    == SlotBuildDerEntitlements(j)
           s      == SixSlots(j, force, old)
           Good(b) == Solid(b) /\ (b # Empty <=> b.type # "empty")
<1>1. ASSUME NEW type \in {"codeDirectory", "alternate"}, NEW h \in Algorithms, NEW existing
      PROVE  LET cd == SlotBuildCodeDirectory(type, h, j, existing) IN
               cd.type = type /\ Good(cd)
  <2> DEFINE cd == SlotBuildCodeDirectory(type, h, j, existing)
  <2>1. cd.type = type /\ cd.size \in Nat /\ cd.size > 0
    BY DirectoryMade
  <2> HIDE DEF cd
  <2>2. cd # Empty
    BY <2>1 DEF Empty
  <2> QED BY <2>1, <2>2 DEF Solid, cd
<1>2. first.type = "codeDirectory" /\ Good(first)
  BY <1>1 DEF First, Algorithms
<1>3. Empty.type = "empty" /\ Good(Empty)
  BY DEF Empty, Solid
<1>4. second.type \in {"empty", "alternate"} /\ Good(second)
  BY <1>1, <1>3 DEF Second, Algorithms
<1>5. cms.type \in {"empty", "cms"} /\ Good(cms)
  BY CMSSolid, <1>3
<1>6. req.type = "requirements" /\ Good(req)
  BY RequirementsSolid DEF Solid
<1>7. ent.type \in {"empty", "entitlements"} /\ Good(ent)
      /\ der.type \in {"empty", "der"} /\ Good(der)
  BY EntitlementsSolid, <1>3
<1>8. s = <<first, req, ent, der, second, cms>>
  BY DEF SixSlots
<1> HIDE DEF s, first, req, ent, der, second, cms, Good
<1>9. /\ DOMAIN s = 1 .. 6
      /\ s[1] = first /\ s[2] = req /\ s[3] = ent /\ s[4] = der /\ s[5] = second /\ s[6] = cms
  BY <1>8
<1>10. ASSUME NEW i \in 1 .. 6 PROVE Good(s[i])
  <2>1. i \in {1, 2, 3, 4, 5, 6}
    OBVIOUS
  <2> QED BY <1>2, <1>4, <1>5, <1>6, <1>7, <1>9, <2>1
<1>11. cms = SlotBuildCMSSignature(j, s[1], s[5])
  BY <1>9 DEF cms
<1> QED BY <1>2, <1>4, <1>5, <1>6, <1>7, <1>9, <1>10, <1>11 DEF s, first, req, ent, der, second, Good

\* The header counts the slots that are there; the offsets are those of the lengths before.
LEMMA OffsetsAddUp ==
  ASSUME NEW s, DOMAIN s = 1 .. 6, \A i \in 1 .. 6 : s[i].size \in Nat
  PROVE  /\ DOMAIN SuperBlob(s).index = {i \in 1 .. 6 : s[i].size > 0}
         /\ \A i \in DOMAIN SuperBlob(s).index :
              /\ SuperBlob(s).index[i].type = s[i].type
              /\ SuperBlob(s).index[i].offset = Offsets(s)[i]
         /\ SuperBlob(s).blobs = s
         /\ SuperBlob(s).size = Offsets(s)[7]
         /\ Offsets(s)[1] = 12 + 8 * Cardinality({i \in 1 .. 6 : s[i].size > 0})
         /\ \A i \in 1 .. 6 : Offsets(s)[i + 1] = Offsets(s)[i] + s[i].size
         /\ \A i \in 1 .. 7 : Offsets(s)[i] \in Nat
<1>1. There(s) = {i \in 1 .. 6 : s[i].size > 0}
  BY DEF There
<1>2. Cardinality(There(s)) \in Nat
  <2>1. IsFiniteSet(1 .. 6)
    <3>1. 1 \in Int /\ 6 \in Int
      OBVIOUS
    <3> QED BY <3>1, FS_Interval
  <2> QED BY <1>1, <2>1, FS_Subset, FS_CardinalityType
<1>3. SuperBlobHeader(s) = 12 + 8 * Cardinality(There(s)) /\ SuperBlobHeader(s) \in Nat
  BY <1>2 DEF SuperBlobHeader
<1> DEFINE o == Offsets(s)
           z(i) == s[i].size
<1>4. /\ o[1] = SuperBlobHeader(s)
      /\ o[2] = o[1] + z(1) /\ o[3] = o[2] + z(2) /\ o[4] = o[3] + z(3)
      /\ o[5] = o[4] + z(4) /\ o[6] = o[5] + z(5) /\ o[7] = o[6] + z(6)
  BY DEF Offsets
<1>5. z(1) \in Nat /\ z(2) \in Nat /\ z(3) \in Nat /\ z(4) \in Nat /\ z(5) \in Nat /\ z(6) \in Nat
  OBVIOUS
<1> HIDE DEF o, z
<1>6. o[1] \in Nat /\ o[2] \in Nat /\ o[3] \in Nat /\ o[4] \in Nat /\ o[5] \in Nat /\ o[6] \in Nat
      /\ o[7] \in Nat
  BY <1>3, <1>4, <1>5
<1>7. ASSUME NEW i \in 1 .. 6 PROVE o[i + 1] = o[i] + z(i)
  <2>1. i \in {1, 2, 3, 4, 5, 6}
    OBVIOUS
  <2> QED BY <1>4, <2>1
<1>8. ASSUME NEW i \in 1 .. 7 PROVE o[i] \in Nat
  <2>1. i \in {1, 2, 3, 4, 5, 6, 7}
    OBVIOUS
  <2> QED BY <1>6, <2>1
<1>9. /\ DOMAIN SuperBlob(s).index = There(s) /\ SuperBlob(s).blobs = s
      /\ SuperBlob(s).size = o[7]
      /\ \A i \in There(s) : /\ SuperBlob(s).index[i].type = s[i].type
                             /\ SuperBlob(s).index[i].offset = o[i]
  BY DEF SuperBlob, o
<1> QED BY <1>1, <1>3, <1>4, <1>7, <1>8, <1>9 DEF o, z

\* What a new signature is made of, and what is found in it by its type.
LEMMA SignatureMade ==
  ASSUME NEW j \in JobSet, NEW force, NEW old
  PROVE  LET sig == BuildCodeSignature(j, force, old)
             s   == SixSlots(j, force, old)
         IN  /\ sig = SuperBlob(s) /\ sig.blobs = s /\ sig.size \in Nat
             /\ DirectoriesOf(sig) = {s[1]} \cup IF j.asset.sha256Only THEN {} ELSE {s[5]}
             /\ BlobOf(sig, "codeDirectory") = s[1] /\ BlobOf(sig, "requirements") = s[2]
             /\ BlobOf(sig, "entitlements") = s[3] /\ BlobOf(sig, "der") = s[4]
             /\ BlobOf(sig, "alternate") = s[5] /\ BlobOf(sig, "cms") = s[6]
<1> DEFINE sig == BuildCodeSignature(j, force, old)
           s   == SixSlots(j, force, old)
<1>1. sig = SuperBlob(s)
  BY SignatureOfSix
<1>2. /\ DOMAIN s = 1 .. 6
      /\ s[1].type = "codeDirectory" /\ s[2].type = "requirements"
      /\ s[3].type \in {"empty", "entitlements"} /\ s[4].type \in {"empty", "der"}
      /\ s[5].type \in {"empty", "alternate"} /\ s[6].type \in {"empty", "cms"}
      /\ \A i \in 1 .. 6 : Solid(s[i]) /\ (s[i] # Empty <=> s[i].type # "empty")
  BY SixPlaces
<1>3. j.asset.sha256Only => s[5] = Empty
  BY SixPlaces DEF Second
<1>4. ~j.asset.sha256Only => s[5].type = "alternate"
  BY SixPlaces, DirectoryMade DEF Second, Algorithms
<1> HIDE DEF s, sig
<1>5. \A i \in 1 .. 6 : s[i].size \in Nat
  BY <1>2 DEF Solid
<1>6. sig.blobs = s /\ sig.size \in Nat
  <2>1. 7 \in 1 .. 7
    OBVIOUS
  <2>2. DOMAIN s = 1 .. 6
    BY <1>2
  <2>3. SuperBlob(s).blobs = s /\ SuperBlob(s).size = Offsets(s)[7]
        /\ \A i \in 1 .. 7 : Offsets(s)[i] \in Nat
    BY <1>5, <2>2, OffsetsAddUp
  <2> QED BY <1>1, <2>1, <2>3
<1>7. Range(sig.blobs) = {s[1], s[2], s[3], s[4], s[5], s[6]}
  <2>1. 1 .. 6 = {1, 2, 3, 4, 5, 6}
    OBVIOUS
  <2> QED BY <1>2, <1>6, <2>1 DEF Range
<1>8. DirectoriesOf(sig) = {s[1]} \cup IF j.asset.sha256Only THEN {} ELSE {s[5]}
  <2>1. Empty.type = "empty"
    BY DEF Empty
  <2> QED BY <1>2, <1>3, <1>4, <1>7, <2>1 DEF DirectoriesOf
<1>9. ASSUME NEW i \in 1 .. 6, NEW type, s[i].type \in {"empty", type}, type # "empty",
             \A k \in 1 .. 6 : k # i => s[k].type # type
      PROVE  BlobOf(sig, type) = s[i]
  <2> DEFINE named == {b \in Range(sig.blobs) : b.type = type}
  <2>1. named = {s[k] : k \in {k \in 1 .. 6 : s[k].type = type}}
    BY <1>2, <1>6 DEF Range
  <2>2. CASE s[i].type = "empty"
    <3>1. named = {}
      BY <1>9, <2>1, <2>2
    <3>2. s[i] = Empty
      BY <1>2, <2>2
    <3> QED BY <3>1, <3>2 DEF BlobOf
  <2>3. CASE s[i].type = type
    <3>1. named = {s[i]}
      BY <1>9, <2>1, <2>3
    <3> QED BY <3>1 DEF BlobOf
  <2> QED BY <1>9, <2>2, <2>3
<1>10. \A k \in 1 .. 6 : k \in {1, 2, 3, 4, 5, 6}
  OBVIOUS
<1>11. BlobOf(sig, "codeDirectory") = s[1] /\ BlobOf(sig, "requirements") = s[2]
  BY <1>2, <1>9, <1>10
<1>12. BlobOf(sig, "entitlements") = s[3] /\ BlobOf(sig, "der") = s[4]
  BY <1>2, <1>9, <1>10
<1>13. BlobOf(sig, "alternate") = s[5] /\ BlobOf(sig, "cms") = s[6]
  BY <1>2, <1>9, <1>10
<1> QED BY <1>1, <1>6, <1>8, <1>11, <1>12, <1>13 DEF s, sig

\* Its directories are made alike, and without SHA-256 only there is one of each algorithm.
LEMMA DirectoriesAre ==
  ASSUME NEW j \in JobSet, NEW force, NEW old
  PROVE  LET s == SixSlots(j, force, old) IN
           /\ \A cd \in DirectoriesOf(BuildCodeSignature(j, force, old)) :
                \E type, e : \E h \in Algorithms : cd = SlotBuildCodeDirectory(type, h, j, e)
           /\ ~j.asset.sha256Only => s[1].hash = "sha1" /\ s[5].hash = "sha256"
<1> DEFINE s   == SixSlots(j, force, old)
           one == SlotBuildCodeDirectory("codeDirectory", "sha256", j, Existing("alternate", force, old))
           old1 == SlotBuildCodeDirectory("codeDirectory", "sha1", j, Existing("codeDirectory", force, old))
           new1 == SlotBuildCodeDirectory("alternate", "sha256", j, Existing("alternate", force, old))
<1>1. s[1] = First(j, force, old) /\ s[5] = Second(j, force, old)
  BY SixPlaces
<1>2. s[1] = IF j.asset.sha256Only THEN one ELSE old1
  BY <1>1 DEF First
<1>3. s[5] = IF j.asset.sha256Only THEN Empty ELSE new1
  BY <1>1 DEF Second
<1>4. old1.hash = "sha1" /\ new1.hash = "sha256"
  BY DirectoryMade DEF Algorithms
<1>5. DirectoriesOf(BuildCodeSignature(j, force, old))
        = {s[1]} \cup IF j.asset.sha256Only THEN {} ELSE {s[5]}
  BY SignatureMade
<1>6. ASSUME NEW cd \in {one, old1, new1}
      PROVE  \E type, e : \E h \in Algorithms : cd = SlotBuildCodeDirectory(type, h, j, e)
  BY <1>6 DEF Algorithms
<1> HIDE DEF s, one, old1, new1
<1> QED BY <1>2, <1>3, <1>4, <1>5, <1>6 DEF s

\* A signature whose code slots are those of the code in front of it.
Fitting(signature, code) ==
  \A cd \in DirectoriesOf(signature) :
    cd.slots.count = CodeSlotCount(code) /\ cd.slots.hash \in Algorithms

\* The slots taken from the signature that is there are those of one of its directories.
LEMMA ExistingFit ==
  ASSUME NEW type \in {"codeDirectory", "alternate"}, NEW force, NEW old, NEW code,
         old # None => Fitting(old, code), Existing(type, force, old) # None
  PROVE  /\ Existing(type, force, old).count = CodeSlotCount(code)
         /\ Existing(type, force, old).hash \in Algorithms
         /\ ~force /\ old # None
<1> DEFINE named == {b \in Range(old.blobs) : b.type = type}
<1>1. ~force /\ old # None /\ BlobOf(old, type) # Empty
      /\ Existing(type, force, old) = BlobOf(old, type).slots
  BY DEF Existing, ExistingSlots
<1>2. BlobOf(old, type) \in named
  BY <1>1 DEF BlobOf
<1>3. BlobOf(old, type) \in DirectoriesOf(old)
  BY <1>2 DEF DirectoriesOf
<1> QED BY <1>1, <1>3 DEF Fitting

\* So the code slots of a new directory fit as well, and they are fresh if nothing was taken.
LEMMA NewSlotsFit ==
  ASSUME NEW j \in JobSet, NEW force, NEW old, old # None => Fitting(old, j.code)
  PROVE  \A cd \in DirectoriesOf(BuildCodeSignature(j, force, old)) :
           /\ cd.hash \in Algorithms /\ cd.limit = j.code /\ cd.nCode = CodeSlotCount(j.code)
           /\ cd.slots.count = CodeSlotCount(j.code) /\ cd.slots.hash = cd.hash
           /\ force \/ old = None => cd.slots.pages = j.pages
<1> DEFINE n == CodeSlotCount(j.code)
           Fits1(cd) == /\ cd.hash \in Algorithms /\ cd.limit = j.code /\ cd.nCode = n
                        /\ cd.slots.count = n /\ cd.slots.hash = cd.hash
                        /\ force \/ old = None => cd.slots.pages = j.pages
<1>1. n \in Nat \ {0}
  <2>1. j.code \in Nat /\ j.code > 0
    BY DEF JobSet
  <2> QED BY <2>1, SlotsCover
<1>2. ASSUME NEW e, e # None => e.count = n /\ e.hash \in Algorithms /\ ~force /\ old # None,
             NEW type, NEW h \in Algorithms
      PROVE  Fits1(SlotBuildCodeDirectory(type, h, j, e))
  <2> DEFINE cd == SlotBuildCodeDirectory(type, h, j, e)
  <2> HIDE DEF Fits1
  <2>1. /\ cd.hash = h /\ cd.limit = j.code /\ cd.nCode = n
        /\ cd.slots = IF Reusable(e, h, j) THEN e ELSE FreshSlots(h, j)
    BY DirectoryMade
  <2> SUFFICES Fits1(cd)
    OBVIOUS
  <2> HIDE DEF cd, n
  <2> USE DEF Fits1
  <2>3. CASE Reusable(e, h, j)
    <3>1. e # None /\ e.count * HashSize(e.hash) = n * HashSize(h)
      BY <2>3 DEF Reusable, SlotsSize, n
    <3>2. e.hash = h
      BY <1>1, <1>2, <3>1, SameLength DEF Algorithms
    <3> QED BY <1>2, <2>1, <2>3, <3>1, <3>2
  <2>4. CASE ~Reusable(e, h, j)
    <3>1. cd.slots.count = n /\ cd.slots.hash = h /\ cd.slots.pages = j.pages
      BY <2>1, <2>4 DEF FreshSlots, n, JobSet
    <3> QED BY <2>1, <3>1
  <2> QED BY <2>3, <2>4 DEF cd
<1> HIDE DEF Fits1
<1>3. LET s == SixSlots(j, force, old) IN
        DirectoriesOf(BuildCodeSignature(j, force, old))
          = {s[1]} \cup IF j.asset.sha256Only THEN {} ELSE {s[5]}
  BY SignatureMade
<1>4. LET s == SixSlots(j, force, old) IN
        s[1] = First(j, force, old) /\ s[5] = Second(j, force, old)
  BY SixPlaces
<1>a. ASSUME NEW type \in {"codeDirectory", "alternate"}, Existing(type, force, old) # None
      PROVE  LET e == Existing(type, force, old)
             IN  e.count = n /\ e.hash \in Algorithms /\ ~force /\ old # None
  BY <1>a, ExistingFit
<1>5. Fits1(First(j, force, old))
  BY <1>2, <1>a DEF First, Algorithms
<1>6. ~j.asset.sha256Only => Fits1(Second(j, force, old))
  BY <1>2, <1>a DEF Second, Algorithms
<1> QED BY <1>3, <1>4, <1>5, <1>6 DEF Fits1

(***************************************************************************)
(* The types.                                                              *)
(***************************************************************************)
LEMMA JobIsAJob ==
  ASSUME TypeOK
  PROVE  Job \in JobSet /\ NewSignature.size \in Nat
<1>1. opt.asset \in Assets /\ bin.execute \in BOOLEAN /\ mem.codeLength \in Nat \ {0}
  BY SliceAssumption DEF TypeOK, BinarySet
<1>2. Job \in JobSet
  BY <1>1 DEF Job, JobSet
<1>3. NewSignature.size \in Nat
  BY <1>2, SignatureMade DEF NewSignature
<1> QED BY <1>2, <1>3

\* The new length is one that the signature's area would fill: the slots of both
\* directories, and 16 KiB.
LEMMA NewLengthSuffices ==
  ASSUME TypeOK
  PROVE  /\ NewLength \in Nat
         /\ NewLength >= mem.codeLength + CodeSlotCount(mem.codeLength) * (20 + 32) + 16384
<1> DEFINE code  == mem.codeLength
           count == CodeSlotCount(code)
           more  == code \div PageSize + 1
           room  == ByteAlign(more * 52, PageSize)
<1>1. code \in Nat /\ count \in Nat /\ more \in Nat /\ count <= more
  <2>1. code \in Nat
    BY DEF TypeOK
  <2>2. code \div PageSize \in Nat
    BY <2>1 DEF PageSize
  <2> QED BY <2>1, <2>2, SlotsCover
<1> HIDE DEF code, count, more
<1>2. count * 52 <= more * 52 /\ more * 52 \in Nat /\ count * 52 \in Nat
  BY <1>1
<1>3. room \in Nat /\ room >= more * 52
  BY <1>2, PageAligned
<1>4. NewLength = code + room + 16384
  BY DEF NewLength, code, more
<1> HIDE DEF room
<1>5. NewLength \in Nat /\ NewLength >= code + count * 52 + 16384
  BY <1>1, <1>2, <1>3, <1>4
<1>6. count * (20 + 32) = count * 52
  OBVIOUS
<1> QED BY <1>5, <1>6 DEF code, count

LEMMA CommandSizes ==
  ASSUME NEW d \in Dylibs
  PROVE  CommandSize(d) \in Nat
<1>1. PathLength[d] \in Nat
  BY SliceAssumption
<1> QED BY <1>1 DEF CommandSize

\* What ZArchO reads from a slice has its type.
LEMMA ReadTyped ==
  ASSUME NEW b, b \in BinarySet({b.signature}), b.length > 0, b.command => b.dataoff > 0
  PROVE  Read(b) \in [free : Nat, codeLength : Nat \ {0}, signBase : BOOLEAN]
<1>1. b.length \in Nat /\ b.header \in Nat /\ b.text \in Nat /\ b.dataoff \in Nat /\ b.command \in BOOLEAN
  BY DEF BinarySet
<1>2. Align16(b.length) \in Nat \ {0}
  BY <1>1, Aligned
<1> QED BY <1>1, <1>2 DEF Read

LEMMA LongerTyped ==
  ASSUME TypeOK, Layout
  PROVE  /\ Longer \in BinarySet({Longer.signature})
         /\ Longer.length = NewLength /\ Longer.length > 0 /\ Longer.command
         /\ Longer.dataoff = mem.codeLength /\ Longer.dataoff > 0
         /\ Longer.dataoff + Longer.datasize = Longer.length
         /\ Longer.linkedit = Longer.length
         /\ Longer.signature = bin.signature
         /\ Read(Longer) \in [free : Nat, codeLength : Nat \ {0}, signBase : BOOLEAN]
         /\ Read(Longer).codeLength = mem.codeLength /\ Read(Longer).signBase
<1>1. NewLength \in Nat /\ NewLength >= mem.codeLength
      /\ mem.codeLength \in Nat /\ mem.codeLength > 0
  <2>1. mem.codeLength \in Nat /\ mem.codeLength > 0
    BY DEF TypeOK
  <2>2. CodeSlotCount(mem.codeLength) \in Nat
    BY <2>1, SlotsCover
  <2> QED BY <2>1, <2>2, NewLengthSuffices
<1>2. NewLength - mem.codeLength \in Nat /\ mem.codeLength + (NewLength - mem.codeLength) = NewLength
  BY <1>1
<1>3. /\ Longer \in BinarySet({Longer.signature})
      /\ Longer.length = NewLength /\ Longer.command
      /\ Longer.dataoff = mem.codeLength /\ Longer.datasize = NewLength - mem.codeLength
      /\ Longer.linkedit = NewLength /\ Longer.signature = bin.signature
  <2> DEFINE size   == NewLength
             area   == NewLength - mem.codeLength
             header == IF bin.command THEN bin.header ELSE bin.header + CommandLength
             code   == mem.codeLength
  <2>1. Longer = [bin EXCEPT !.length = size, !.linkedit = size, !.command = TRUE,
                             !.dataoff = code, !.datasize = area, !.header = header]
    BY DEF Longer
  <2>2. header \in Nat
    BY DEF TypeOK, BinarySet, CommandLength
  <2>3. size \in Nat /\ area \in Nat /\ code \in Nat
    BY <1>1, <1>2
  <2>4. bin \in BinarySet({bin.signature})
    BY DEF TypeOK
  <2> HIDE DEF size, area, header, code
  <2>5. /\ Longer.length = size /\ Longer.linkedit = size /\ Longer.command
        /\ Longer.dataoff = code /\ Longer.datasize = area /\ Longer.signature = bin.signature
    BY <2>1, <2>4 DEF BinarySet
  <2>6. Longer \in BinarySet({bin.signature})
    BY <2>1, <2>2, <2>3, <2>4 DEF BinarySet
  <2> QED BY <2>5, <2>6 DEF size, area, code
<1> HIDE DEF Longer
<1>4. Longer.length > 0 /\ Longer.dataoff > 0
  BY <1>1, <1>3
<1>5. Read(Longer) \in [free : Nat, codeLength : Nat \ {0}, signBase : BOOLEAN]
  BY <1>3, <1>4, ReadTyped
<1>6. Read(Longer).codeLength = mem.codeLength /\ Read(Longer).signBase
  BY <1>3 DEF Read
<1> QED BY <1>2, <1>3, <1>4, <1>5, <1>6

\* Every step keeps the types.
LEMMA TypesKept ==
  ASSUME TypeOK, SliceInv, [Next]_vars
  PROVE  TypeOK'
<1> USE DEF TypeOK
<1>1. CASE UNCHANGED vars
  BY <1>1 DEF vars
<1>2. ASSUME NEW o \in Options, Start(o)
      PROVE  TypeOK'
  <2>1. mem' \in [free : Nat, codeLength : Nat \ {0}, signBase : BOOLEAN]
    BY <1>2, ReadTyped DEF Start, SliceInv, Layout
  <2>2. o.dylibs \in Seq(Dylibs) /\ MaxRuns \in Nat
    BY SliceAssumption
  <2>3. runs' \in 0 .. MaxRuns
    BY <1>2, <2>2 DEF Start
  <2>4. UNCHANGED <<bin, realloced>> /\ opt' = o /\ left' = o.dylibs /\ pc' = "inject"
        /\ result' = "none" /\ unsigned' = (bin.signature = None) /\ ~realloced
    BY <1>2 DEF Start
  <2> QED BY <2>1, <2>2, <2>3, <2>4
<1>3. CASE Inject
  <2> DEFINE d    == Head(left)
             kind == IF opt.weak THEN "weak" ELSE "strong"
  <2>1. d \in Dylibs /\ Tail(left) \in Seq(Dylibs)
    BY <1>3 DEF Inject
  <2>2. \/ bin' = bin
        \/ bin' = [bin EXCEPT !.loads[d] = kind]
        \/ bin' = [bin EXCEPT !.loads[d] = kind, !.header = @ + CommandSize(d)]
    BY <1>3 DEF Inject
  <2>3. bin.header + CommandSize(d) \in Nat
    BY <2>1, CommandSizes DEF BinarySet
  <2>4. kind \in {"none", "strong", "weak"}
    OBVIOUS
  <2> HIDE DEF d, kind
  <2> DEFINE loads  == [bin.loads EXCEPT ![d] = kind]
             header == bin.header + CommandSize(d)
  <2>5. bin' = bin \/ bin' = [bin EXCEPT !.loads = loads]
        \/ bin' = [bin EXCEPT !.loads = loads, !.header = header]
    BY <2>2
  <2>6. loads \in [Dylibs -> {"none", "strong", "weak"}] /\ header \in Nat
    BY <2>3, <2>4 DEF BinarySet
  <2> HIDE DEF loads, header
  <2>7. bin \in BinarySet({bin.signature})
    OBVIOUS
  <2>8. bin'.signature = bin.signature
    BY <2>5, <2>7 DEF BinarySet
  <2>9. bin' \in BinarySet({bin.signature})
    BY <2>5, <2>6, <2>7 DEF BinarySet
  <2> QED BY <1>3, <2>1, <2>8, <2>9 DEF Inject
<1>4. CASE Injected
  BY <1>4 DEF Injected, Ends
<1>5. CASE Sign
  <2>1. NewSignature.size \in Nat
    BY JobIsAJob
  <2>2. bin' \in BinarySet({bin'.signature}) /\ bin'.signature = NewSignature
    BY <1>5 DEF Sign, BinarySet
  <2> QED BY <1>5, <2>1, <2>2 DEF Sign, Ends
<1>6. CASE Realloc
  BY <1>6, LongerTyped DEF Realloc, SliceInv
<1>7. CASE ReallocFails
  <2>1. NewLength \in Nat
    BY NewLengthSuffices
  <2>2. bin' \in BinarySet({bin'.signature}) /\ bin'.signature = bin.signature
    BY <1>7, <2>1 DEF ReallocFails, BinarySet
  <2> QED BY <1>7, <2>2 DEF ReallocFails, Ends
<1>8. CASE SecondShortage
  BY <1>8 DEF SecondShortage, Ends
<1> QED BY <1>1, <1>2, <1>3, <1>4, <1>5, <1>6, <1>7, <1>8 DEF Next

(***************************************************************************)
(* Where the signature lies.                                               *)
(***************************************************************************)

\* Injection changes what is in front of the code, and nothing else.
LEMMA InjectedBinary ==
  ASSUME TypeOK, Inject
  PROVE  /\ bin'.length = bin.length /\ bin'.command = bin.command /\ bin'.dataoff = bin.dataoff
         /\ bin'.datasize = bin.datasize /\ bin'.linkedit = bin.linkedit
         /\ bin'.signature = bin.signature
         /\ Read(bin').codeLength = Read(bin).codeLength
<1>1. /\ bin'.length = bin.length /\ bin'.command = bin.command /\ bin'.dataoff = bin.dataoff
      /\ bin'.datasize = bin.datasize /\ bin'.linkedit = bin.linkedit
      /\ bin'.signature = bin.signature
  <2> DEFINE loads  == [bin.loads EXCEPT ![Head(left)] = IF opt.weak THEN "weak" ELSE "strong"]
             header == bin.header + CommandSize(Head(left))
  <2>1. bin' = bin \/ bin' = [bin EXCEPT !.loads = loads]
        \/ bin' = [bin EXCEPT !.loads = loads, !.header = header]
    BY DEF Inject
  <2>2. bin \in BinarySet({bin.signature})
    BY DEF TypeOK
  <2> HIDE DEF loads, header
  <2> QED BY <2>1, <2>2 DEF BinarySet
<1> QED BY <1>1 DEF Read

\* Signing changes the signature, and nothing else.
LEMMA SignedBinary ==
  ASSUME TypeOK, Sign
  PROVE  /\ bin'.length = bin.length /\ bin'.command = bin.command /\ bin'.dataoff = bin.dataoff
         /\ bin'.datasize = bin.datasize /\ bin'.linkedit = bin.linkedit
         /\ bin'.signature = NewSignature /\ Pages' = Pages
         /\ Read(bin').codeLength = Read(bin).codeLength
<1>1. /\ bin'.length = bin.length /\ bin'.command = bin.command /\ bin'.dataoff = bin.dataoff
      /\ bin'.datasize = bin.datasize /\ bin'.linkedit = bin.linkedit
      /\ bin'.signature = NewSignature /\ bin'.header = bin.header /\ bin'.loads = bin.loads
  BY DEF Sign, TypeOK, BinarySet
<1> QED BY <1>1 DEF Read, Pages

\* A run signs where there is an area for it.
LEMMA SignsInArea ==
  ASSUME TypeOK, Memory, Sign
  PROVE  bin.command /\ mem.codeLength = bin.dataoff
  BY DEF Sign, Fits, Memory, Read

LEMMA LayoutKept ==
  ASSUME TypeOK, SliceInv, [Next]_vars
  PROVE  Layout'
<1> USE DEF SliceInv, Layout
<1>1. CASE bin' = bin
  BY <1>1
<1>2. CASE Inject
  BY <1>2, InjectedBinary
<1>3. CASE Sign
  BY <1>3, SignedBinary, SignsInArea
<1>4. CASE Realloc
  BY <1>4, LongerTyped DEF Realloc
<1>5. CASE ReallocFails
  <2>1. CASE ~CanGrow
    BY <1>1, <1>5, <2>1 DEF ReallocFails
  <2>2. CASE CanGrow
    <3>1. ~bin.command /\ bin' = [bin EXCEPT !.linkedit = NewLength]
      BY <1>5, <2>2 DEF ReallocFails, HasCommandRoom
    <3>2. bin'.length = bin.length /\ bin'.command = bin.command /\ bin'.signature = bin.signature
      BY <3>1 DEF TypeOK, BinarySet
    <3> QED BY <3>1, <3>2
  <2> QED BY <2>1, <2>2
<1> QED BY <1>1, <1>2, <1>3, <1>4, <1>5 DEF Next, Start, Injected, SecondShortage, vars

\* What ZArchO remembers stays true of the file, and realloced of its length.
LEMMA MemoryKept ==
  ASSUME TypeOK, SliceInv, [Next]_vars
  PROVE  Memory'
<1> USE DEF SliceInv, Memory
<1>1. CASE UNCHANGED vars
  BY <1>1 DEF vars, NewLength
<1>2. ASSUME NEW o \in Options, Start(o)
      PROVE  Memory'
  <2>1. ~realloced' /\ result' = "none" /\ mem' = Read(bin) /\ bin' = bin
        /\ unsigned' = (bin.signature = None)
    BY <1>2 DEF Start, TypeOK
  <2>2. Read(bin).signBase = bin.command
    BY DEF Read
  <2> QED BY <2>1, <2>2
<1>3. CASE Inject
  <2>1. pc = "inject" /\ UNCHANGED <<mem, pc, realloced, result, unsigned>> /\ ~realloced
    BY <1>3 DEF Inject, TypeOK
  <2> QED BY <1>3, <2>1, InjectedBinary
<1>4. CASE Injected
  <2>1. bin' = bin /\ mem' = mem /\ ~realloced' /\ pc = "inject" /\ unsigned' = unsigned
    BY <1>4 DEF Injected, Ends, TypeOK
  <2>2. result' # "none" => pc' = "idle"
    BY <1>4 DEF Injected, Ends
  <2> QED BY <2>1, <2>2
<1>5. CASE Sign
  BY <1>5 DEF Sign, Ends
<1>6. CASE Realloc
  <2>1. mem' = Read(Longer) /\ bin' = Longer /\ pc' = pc /\ pc = "sign" /\ result' = result /\ realloced'
        /\ unsigned' = unsigned
    BY <1>6 DEF Realloc
  <2>2. Longer.command /\ Longer.length = NewLength /\ Read(Longer).codeLength = mem.codeLength
        /\ Read(Longer).signBase /\ Longer.signature = bin.signature
    BY LongerTyped
  <2>3. NewLength' = NewLength
    BY <2>1, <2>2 DEF NewLength
  <2> QED BY <2>1, <2>2, <2>3 DEF Read
<1>7. CASE ReallocFails
  BY <1>7 DEF ReallocFails, Ends
<1>8. CASE SecondShortage
  BY <1>8 DEF SecondShortage, Ends
<1> QED BY <1>1, <1>2, <1>3, <1>4, <1>5, <1>6, <1>7, <1>8 DEF Next

\* A signature has slots for the code it lies behind.  Only Sign changes it, and only
\* Realloc, which leaves it, writes the offset of the area; what it writes was there.
LEMMA SlotsStandKept ==
  ASSUME TypeOK, SliceInv, [Next]_vars
  PROVE  SlotsStand'
<1> USE DEF SliceInv
<1>1. ASSUME bin'.signature = bin.signature, bin.signature # None => bin'.dataoff = bin.dataoff
      PROVE  SlotsStand'
  BY <1>1 DEF SlotsStand, DirectoriesOf
<1>2. CASE bin' = bin
  BY <1>1, <1>2
<1>3. CASE Inject
  BY <1>1, <1>3, InjectedBinary
<1>4. CASE Sign
  <2>1. Job \in JobSet /\ Job.code = bin.dataoff
    BY <1>4, JobIsAJob, SignsInArea DEF Job
  <2>2. bin.signature # None => Fitting(bin.signature, Job.code)
    BY <2>1 DEF SlotsStand, Fitting, Algorithms
  <2>3. \A cd \in DirectoriesOf(NewSignature) :
          cd.slots.count = CodeSlotCount(bin.dataoff) /\ cd.slots.hash \in Algorithms
    BY <2>1, <2>2, NewSlotsFit DEF NewSignature
  <2>4. bin'.signature = NewSignature /\ bin'.dataoff = bin.dataoff
    BY <1>4, SignedBinary
  <2> QED BY <2>3, <2>4 DEF SlotsStand, Algorithms
<1>5. CASE Realloc
  <2>1. bin' = Longer /\ pc # "idle"
    BY <1>5 DEF Realloc
  <2>2. Longer.signature = bin.signature /\ Longer.dataoff = mem.codeLength
    BY LongerTyped
  <2>3. bin.signature # None => mem.codeLength = bin.dataoff
    BY <2>1 DEF Layout, Memory, Read
  <2> QED BY <1>1, <2>1, <2>2, <2>3
<1>6. CASE ReallocFails
  <2>1. bin' = bin \/ bin' = [bin EXCEPT !.linkedit = NewLength]
    BY <1>6 DEF ReallocFails
  <2>2. bin'.signature = bin.signature /\ bin'.dataoff = bin.dataoff
    BY <2>1 DEF TypeOK, BinarySet
  <2> QED BY <1>1, <2>2
<1> QED BY <1>2, <1>3, <1>4, <1>5, <1>6 DEF Next, Start, Injected, SecondShortage, vars

(***************************************************************************)
(* The invariant.                                                          *)
(***************************************************************************)
\* The delivered slices have it.
LEMMA Delivered ==
  ASSUME Init
  PROVE  TypeOK /\ SliceInv
<1>1. /\ bin \in BinarySet({bin.signature})
      /\ bin.header > 0 /\ bin.header <= bin.length /\ bin.linkedit \in {0, bin.length}
      /\ bin.command => /\ bin.header <= bin.dataoff /\ bin.dataoff + bin.datasize = bin.length
      /\ bin.signature # None =>
           /\ bin.command /\ bin.signature.size \in 0 .. bin.datasize
           /\ \A cd \in DirectoriesOf(bin.signature) :
                cd.slots.count = CodeSlotCount(bin.dataoff) /\ cd.slots.hash \in {"sha1", "sha256"}
  BY BinariesAssumption DEF Init
<1>2. bin.length > 0 /\ (bin.command => bin.dataoff > 0)
  BY <1>1 DEF BinarySet
<1>3. mem \in [free : Nat, codeLength : Nat \ {0}, signBase : BOOLEAN]
  BY <1>1, <1>2, ReadTyped DEF Init
<1>4. bin.signature # None => bin.signature.size \in Nat
  BY <1>1 DEF BinarySet
<1>5. MaxRuns \in Nat
  BY SliceAssumption
<1>6. TypeOK
  <2>1. bin \in BinarySet({bin.signature})
    BY <1>1
  <2>2. left \in Seq(Dylibs) /\ runs \in 0 .. MaxRuns
    BY <1>5 DEF Init
  <2> QED BY <1>3, <1>4, <2>1, <2>2 DEF Init, TypeOK
<1>7. Layout
  BY <1>1, <1>2 DEF Layout
<1>8. SlotsStand
  BY Zenon, <1>1 DEF SlotsStand
<1>9. Memory
  BY DEF Init, Memory
<1> QED BY <1>6, <1>7, <1>8, <1>9 DEF SliceInv

LEMMA InvariantKept ==
  ASSUME TypeOK, SliceInv, [Next]_vars
  PROVE  TypeOK' /\ SliceInv'
  BY TypesKept, LayoutKept, SlotsStandKept, MemoryKept DEF SliceInv

LEMMA InvariantHolds == Spec => [](TypeOK /\ SliceInv)
<1>1. Init => TypeOK /\ SliceInv
  BY Delivered
<1>2. TypeOK /\ SliceInv /\ [Next]_vars => TypeOK' /\ SliceInv'
  BY InvariantKept
<1> QED BY <1>1, <1>2, PTL DEF Spec

\* Every variable has its type, and no file counts as reallocated but the one that is
\* being signed.
THEOREM TypeCorrect == Spec => []TypeOK
  BY InvariantHolds, PTL

(***************************************************************************)
(* How a run ends.                                                         *)
(***************************************************************************)

\* The result stands until the next run starts, and only these steps write it.
LEMMA Endings ==
  ASSUME TypeOK, SliceInv, [Next]_vars, result' # "none"
  PROVE  \/ UNCHANGED vars
         \/ Sign /\ result' = "ok"
         \/ (ReallocFails \/ SecondShortage) /\ result' = "failed"
<1> USE DEF SliceInv, Memory
<1>1. ~Inject /\ ~Realloc
  BY DEF Inject, Realloc
<1>2. ~Injected
  BY DEF Injected, Ends
<1>3. ASSUME NEW o \in Options PROVE ~Start(o)
  BY DEF Start
<1> QED BY <1>1, <1>2, <1>3 DEF Next, Sign, ReallocFails, SecondShortage, Ends

LEMMA SuccessIsSigning ==
  ASSUME TypeOK, SliceInv, [Next]_vars, result' = "ok"
  PROVE  (Sign /\ opt' = opt /\ unsigned' = unsigned) \/ (UNCHANGED vars /\ result = "ok")
<1>1. UNCHANGED vars \/ Sign
  BY Endings
<1> QED BY <1>1 DEF Sign, Ends, vars

\* After a successful run the signature lies in its area, which ends the file as the headers
\* say: Sign writes nothing longer than what lies between the code and the end, and whatever
\* made the file longer, in this run or in one that failed, wrote all of the headers or
\* none that an area depends on (archo.cpp:543-552, 564-600).
THEOREM SignatureLies == Spec => []AreaHoldsSignature
<1>1. Init => AreaHoldsSignature
  BY DEF Init, AreaHoldsSignature
<1>2. ASSUME TypeOK, SliceInv, AreaHoldsSignature, [Next]_vars
      PROVE  AreaHoldsSignature'
  <2>1. CASE result' # "ok"
    BY <2>1 DEF AreaHoldsSignature
  <2>2. CASE UNCHANGED vars /\ result = "ok"
    BY <1>2, <2>2 DEF AreaHoldsSignature, Signature, vars
  <2>3. CASE Sign
    <3>1. /\ bin.command /\ mem.codeLength = bin.dataoff
          /\ bin.dataoff + bin.datasize = bin.length /\ bin.linkedit \in {0, bin.length}
      BY <1>2, <2>3, SignsInArea DEF SliceInv, Layout
    <3>2. NewSignature.size \in Nat /\ NewSignature.size <= bin.length - bin.dataoff
      BY <1>2, <2>3, <3>1, JobIsAJob DEF Sign, Fits
    <3>3. bin.length \in Nat /\ bin.dataoff \in Nat /\ bin.datasize \in Nat
      BY <1>2 DEF TypeOK, BinarySet
    <3>4. NewSignature.size <= bin.datasize
      BY <3>1, <3>2, <3>3
    <3>5. /\ bin'.length = bin.length /\ bin'.command = bin.command /\ bin'.dataoff = bin.dataoff
          /\ bin'.datasize = bin.datasize /\ bin'.linkedit = bin.linkedit
          /\ bin'.signature = NewSignature
      BY <1>2, <2>3, SignedBinary
    <3> QED BY <3>1, <3>4, <3>5 DEF AreaHoldsSignature, Signature
  <2> QED BY <1>2, <2>1, <2>2, <2>3, SuccessIsSigning
<1> QED BY <1>1, <1>2, InvariantHolds, PTL DEF Spec

\* The code slots of a directory are as many as the code has pages, made with its own
\* algorithm, and those of the present pages if the run was forced or found no signature:
\* slots of another signer's directory are taken only where they fit (signing.cpp:508,
\* 715-731).
THEOREM SlotsFit == Spec => []CodeSlotsFit
<1>1. Init => CodeSlotsFit
  BY DEF Init, CodeSlotsFit
<1>2. ASSUME TypeOK, SliceInv, CodeSlotsFit, [Next]_vars
      PROVE  CodeSlotsFit'
  <2>1. CASE result' # "ok"
    BY <2>1 DEF CodeSlotsFit
  <2>2. CASE UNCHANGED vars /\ result = "ok"
    BY <1>2, <2>2 DEF CodeSlotsFit, Directories, DirectoriesOf, Signature, Pages, vars
  <2>3. CASE Sign /\ opt' = opt /\ unsigned' = unsigned
    <3>1. bin.command /\ mem.codeLength = bin.dataoff /\ pc = "sign"
      BY <1>2, <2>3, SignsInArea DEF SliceInv, Sign
    <3>2. Job \in JobSet /\ Job.code = bin.dataoff /\ Job.pages = Pages
      BY <1>2, <3>1, JobIsAJob DEF Job
    <3>3. bin.signature # None => Fitting(bin.signature, Job.code)
      BY <1>2, <3>2 DEF SliceInv, SlotsStand, Fitting, Algorithms
    <3>4. unsigned => bin.signature = None
      BY <1>2, <3>1 DEF SliceInv, Memory
    <3>5. \A cd \in DirectoriesOf(NewSignature) :
            /\ cd.limit = bin.dataoff /\ cd.nCode = CodeSlotCount(bin.dataoff)
            /\ cd.slots.count = CodeSlotCount(bin.dataoff) /\ cd.slots.hash = cd.hash
            /\ opt.force \/ unsigned => cd.slots.pages = Pages
      BY <3>2, <3>3, <3>4, NewSlotsFit DEF NewSignature
    <3>6. /\ bin.dataoff \in Nat \ {0}
          /\ CodeSlotCount(bin.dataoff) * PageSize >= bin.dataoff
          /\ (CodeSlotCount(bin.dataoff) - 1) * PageSize < bin.dataoff
      <4>1. bin.dataoff \in Nat /\ bin.dataoff # 0
        BY <1>2, <3>1 DEF SliceInv, Layout, TypeOK, BinarySet
      <4> QED BY <4>1, SlotsCover
    <3>7. bin'.dataoff = bin.dataoff /\ Signature' = NewSignature /\ Pages' = Pages
      BY <1>2, <2>3, SignedBinary DEF Signature
    <3>8. Directories' = DirectoriesOf(NewSignature)
      BY <3>7 DEF Directories, DirectoriesOf
    <3>9. ASSUME NEW cd \in DirectoriesOf(NewSignature)
          PROVE  /\ cd.limit = bin.dataoff
                 /\ cd.nCode * PageSize >= cd.limit /\ (cd.nCode - 1) * PageSize < cd.limit
                 /\ cd.slots.count = cd.nCode /\ cd.slots.hash = cd.hash
                 /\ opt.force \/ unsigned => cd.slots.pages = Pages
      BY <3>5, <3>6
    <3> QED BY Zenon, <2>3, <3>7, <3>8, <3>9 DEF CodeSlotsFit
  <2> QED BY <1>2, <2>1, <2>2, <2>3, SuccessIsSigning
<1> QED BY <1>1, <1>2, InvariantHolds, PTL DEF Spec

\* The CMS message of a known issuer's certificate is over the primary directory and lists
\* every directory of the signature under its own hash, unless it is SHA-256 only
\* (archo.cpp:413-423).
THEOREM AllAttested == Spec => []DirectoriesAttested
<1>1. Init => DirectoriesAttested
  BY DEF Init, DirectoriesAttested
<1>2. ASSUME TypeOK, SliceInv, DirectoriesAttested, [Next]_vars
      PROVE  DirectoriesAttested'
  <2>1. CASE result' # "ok"
    BY <2>1 DEF DirectoriesAttested
  <2>2. CASE UNCHANGED vars /\ result = "ok"
    BY <1>2, <2>2 DEF DirectoriesAttested, Directories, DirectoriesOf, Blob, BlobOf, Signature, vars
  <2>3. CASE Sign /\ opt' = opt /\ ~(opt.asset.adhoc) /\ opt.asset.known
    <3> DEFINE s   == SixSlots(Job, opt.force, bin.signature)
               sig == NewSignature
               cms == BlobOf(sig, "cms")
    <3>1. Job \in JobSet /\ Job.asset = opt.asset
      BY <1>2, JobIsAJob DEF Job
    <3>2. /\ DirectoriesOf(sig) = {s[1]} \cup IF opt.asset.sha256Only THEN {} ELSE {s[5]}
          /\ BlobOf(sig, "codeDirectory") = s[1] /\ cms = s[6]
      BY <3>1, SignatureMade DEF NewSignature
    <3>3. s[6] = SlotBuildCMSSignature(Job, s[1], s[5])
      BY <3>1, SixPlaces
    <3>4. ASSUME ~opt.asset.sha256Only
          PROVE  s[1].hash = "sha1" /\ s[5].hash = "sha256"
      BY <3>1, <3>4, DirectoriesAre
    <3> HIDE DEF s, sig
    <3>5. /\ cms.type = "cms" /\ cms.over = s[1]
          /\ cms.attests = {CDHash(Hash("sha1", s[1])), CDHash(Hash("sha256", s[5]))}
      BY <2>3, <3>1, <3>2, <3>3 DEF SlotBuildCMSSignature
    <3>6. ~opt.asset.sha256Only =>
            \A cd \in DirectoriesOf(sig) : CDHash(Hash(cd.hash, cd)) \in cms.attests
      BY <3>2, <3>4, <3>5
    <3>7. Signature' = sig
      BY <1>2, <2>3, SignedBinary DEF Signature, sig
    <3>8. /\ Directories' = DirectoriesOf(sig) /\ Blob("cms")' = cms
          /\ Blob("codeDirectory")' = BlobOf(sig, "codeDirectory")
      BY <3>7 DEF Directories, DirectoriesOf, Blob, BlobOf
    <3> HIDE DEF cms
    <3> QED BY Zenon, <2>3, <3>2, <3>5, <3>6, <3>8 DEF DirectoriesAttested
  <2>4. CASE Sign /\ opt' = opt /\ ~(~(opt.asset.adhoc) /\ opt.asset.known)
    BY <2>4 DEF DirectoriesAttested
  <2> QED BY <1>2, <2>1, <2>2, <2>3, <2>4, SuccessIsSigning
<1> QED BY <1>1, <1>2, InvariantHolds, PTL DEF Spec

\* One reallocation is enough: what ReallocCodeSignSpace makes room for is both lists of
\* code slots and 16 KiB, and the second shortage of a run is one of the latter; a file that
\* is not made longer because it is long enough has that room (archo.cpp:559).
THEOREM OneSuffices == Spec => []OneReallocSuffices
<1>1. Init => OneReallocSuffices
  BY DEF Init, OneReallocSuffices
<1>2. ASSUME TypeOK, SliceInv, OneReallocSuffices, [Next]_vars
      PROVE  OneReallocSuffices'
  <2> DEFINE code  == mem.codeLength
             slots == CodeSlotCount(mem.codeLength) * (20 + 32)
             size  == NewSignature.size
  <2>1. CASE result' # "failed"
    BY <2>1 DEF OneReallocSuffices
  <2>2. CASE UNCHANGED vars
    BY <1>2, <2>2 DEF OneReallocSuffices, HasCommandRoom, NewSignature, Job, Pages, vars
  <2>3. /\ code \in Nat /\ slots \in Nat /\ size \in Nat /\ bin.length \in Nat
        /\ NewLength \in Nat /\ NewLength >= code + slots + 16384
    <3>1. code \in Nat /\ bin.length \in Nat
      BY <1>2 DEF TypeOK, BinarySet
    <3>2. CodeSlotCount(code) \in Nat
      BY <3>1, SlotsCover
    <3> QED BY <1>2, <3>1, <3>2, NewLengthSuffices, JobIsAJob
  \* A file as long as it would be made, and too short, has too long a signature.
  <2>4. ASSUME bin.length >= NewLength, ~Fits, mem.signBase = bin.command,
               mem.codeLength = Read(bin).codeLength
        PROVE  size - slots > 16384
    <3>1. CASE mem.signBase
      <4>1. ~(size <= bin.length - code)
        BY <2>4, <3>1 DEF Fits
      <4> HIDE DEF size, slots, code
      <4> QED BY <2>3, <2>4, <4>1
    <3>2. CASE ~mem.signBase
      <4>1. code = Align16(bin.length)
        BY <2>4, <3>2 DEF Read
      <4>2. code >= bin.length
        BY <2>3, <4>1, Aligned
      <4> HIDE DEF size, slots, code
      <4> QED BY <2>3, <2>4, <4>2
    <3> QED BY <3>1, <3>2
  <2>5. ASSUME bin' = bin, mem' = mem, opt' = opt, size - slots > 16384
        PROVE  OneReallocSuffices'
    BY <2>5 DEF OneReallocSuffices, NewSignature, Job, Pages
  <2>6. CASE SecondShortage
    <3>1. /\ bin.length = NewLength /\ ~Fits /\ mem.signBase = bin.command
          /\ mem.codeLength = Read(bin).codeLength
      BY <1>2, <2>6 DEF SecondShortage, SliceInv, Memory
    <3> QED BY <2>3, <2>4, <2>5, <2>6, <3>1 DEF SecondShortage, Ends
  <2>7. CASE ReallocFails
    <3>1. /\ ~Fits /\ mem.signBase = bin.command /\ mem.codeLength = Read(bin).codeLength
          /\ mem' = mem /\ opt' = opt /\ ~(CanGrow /\ HasCommandRoom)
      BY <1>2, <2>7 DEF ReallocFails, Ends, SliceInv, Memory
    <3>2. CASE CanGrow
      <4>1. ~HasCommandRoom /\ bin' = [bin EXCEPT !.linkedit = NewLength]
        BY <2>7, <3>1, <3>2 DEF ReallocFails
      <4>2. bin'.command = bin.command
        BY <1>2, <4>1 DEF TypeOK, BinarySet
      <4>3. ~HasCommandRoom'
        BY <3>1, <4>1, <4>2 DEF HasCommandRoom
      <4> QED BY <4>3 DEF OneReallocSuffices
    <3>3. CASE ~CanGrow
      <4>1. bin' = bin /\ (bin.linkedit = 0 \/ bin.length >= NewLength)
        BY <2>3, <2>7, <3>3 DEF ReallocFails, CanGrow
      <4>2. CASE bin.linkedit = 0
        BY <4>1, <4>2 DEF OneReallocSuffices
      <4>3. CASE bin.length >= NewLength
        BY <2>4, <2>5, <3>1, <4>1, <4>3
      <4> QED BY <4>1, <4>2, <4>3
    <3> QED BY <3>2, <3>3
  <2>8. \/ result' # "failed" \/ UNCHANGED vars \/ SecondShortage \/ ReallocFails
    BY <1>2, Endings
  <2> QED BY <2>1, <2>2, <2>6, <2>7, <2>8
<1> QED BY <1>1, <1>2, InvariantHolds, PTL DEF Spec

(***************************************************************************)
(* Reading the signature back.                                             *)
(***************************************************************************)

\* Where the slots begin for who adds up their lengths is where the index says.
LEMMA StartsAddUp ==
  ASSUME NEW s, DOMAIN s = 1 .. 6, \A i \in 1 .. 6 : s[i].size \in Nat
  PROVE  \A k \in 1 .. 7 : StartsIn(SuperBlob(s))[k] = Offsets(s)[k]
<1> DEFINE sig  == SuperBlob(s)
           n    == 12 + 8 * Cardinality(DOMAIN sig.index)
           f    == StartsIn(sig)
           o    == Offsets(s)
           g    == [k \in 1 .. 7 |-> o[k]]
           F(h) == [k \in 1 .. 7 |-> IF k = 1 THEN n ELSE h[k - 1] + sig.blobs[k - 1].size]
<1>1. /\ sig.blobs = s /\ o[1] = n
      /\ \A i \in 1 .. 6 : o[i + 1] = o[i] + s[i].size
  BY OffsetsAddUp
<1>2. f = CHOOSE h : h = F(h)
  BY DEF StartsIn
<1> HIDE DEF sig, n, f, o
<1>3. g = F(g)
  <2>1. ASSUME NEW k \in 1 .. 7
        PROVE  o[k] = IF k = 1 THEN n ELSE g[k - 1] + sig.blobs[k - 1].size
    <3>1. CASE k = 1
      BY <1>1, <3>1
    <3>2. CASE k # 1
      <4>1. k - 1 \in 1 .. 6 /\ k - 1 \in 1 .. 7 /\ (k - 1) + 1 = k
        BY <3>2
      <4>2. o[k] = o[k - 1] + s[k - 1].size
        BY <1>1, <4>1
      <4> QED BY <1>1, <3>2, <4>1, <4>2
    <3> QED BY <3>1, <3>2
  <2> QED BY <2>1
<1>4. f = F(f)
  <2> HIDE DEF F, g
  <2> QED BY <1>2, <1>3
<1>5. f[1] = n /\ \A k \in 1 .. 6 : f[k + 1] = f[k] + s[k].size
  <2>1. \A k \in 1 .. 7 : f[k] = IF k = 1 THEN n ELSE f[k - 1] + s[k - 1].size
    BY <1>1, <1>4
  <2>2. ASSUME NEW k \in 1 .. 6
        PROVE  f[k + 1] = f[k] + s[k].size
    <3>1. k + 1 \in 1 .. 7 /\ k + 1 # 1 /\ (k + 1) - 1 = k
      OBVIOUS
    <3> QED BY <2>1, <3>1
  <2> QED BY <2>1, <2>2
<1>6. f[1] = o[1]
  BY <1>1, <1>5
<1>7. \A k \in 1 .. 6 : f[k] = o[k] => f[k + 1] = o[k + 1]
  BY <1>1, <1>5
<1>8. f[1 + 1] = o[1 + 1] /\ f[2 + 1] = o[2 + 1] /\ f[3 + 1] = o[3 + 1]
      /\ f[4 + 1] = o[4 + 1] /\ f[5 + 1] = o[5 + 1] /\ f[6 + 1] = o[6 + 1]
  <2>1. 1 \in 1 .. 6 /\ 2 \in 1 .. 6 /\ 3 \in 1 .. 6 /\ 4 \in 1 .. 6 /\ 5 \in 1 .. 6 /\ 6 \in 1 .. 6
    OBVIOUS
  <2>2. 1 + 1 = 2 /\ 2 + 1 = 3 /\ 3 + 1 = 4 /\ 4 + 1 = 5 /\ 5 + 1 = 6
    OBVIOUS
  <2> QED BY <1>6, <1>7, <2>1, <2>2
<1>9. ASSUME NEW k \in 1 .. 7 PROVE f[k] = o[k]
  <2>1. k \in {1, 2, 3, 4, 5, 6, 7}
    OBVIOUS
  <2> QED BY <1>6, <1>8, <2>1
<1> QED BY <1>9 DEF f, o, sig

\* The parts of a directory lie next to each other, and each special slot has its hash.
LEMMA DirectoryReadsBack ==
  ASSUME NEW type, NEW h \in Algorithms, NEW j \in JobSet, NEW existing
  PROVE  LET cd == SlotBuildCodeDirectory(type, h, j, existing) IN
           /\ cd.hash = h
           /\ cd.hashOffset - cd.nSpecial * HashSize(cd.hash)
                = cd.identOffset + Ident + 1 + IF cd.teamOffset = 0 THEN 0 ELSE j.asset.team + 1
           /\ cd.teamOffset \in {0, cd.identOffset + Ident + 1}
           /\ cd.hashOffset + cd.nCode * HashSize(cd.hash) = cd.size
           /\ SpecialSlot(cd, 2) = Hash(h, SlotBuildRequirements(j))
           /\ SpecialSlot(cd, 5) = Hash(h, SlotBuildEntitlements(j))
           /\ SpecialSlot(cd, 7) = Hash(h, SlotBuildDerEntitlements(j))
           /\ \A k \in {1, 3, 4, 6} : SpecialSlot(cd, k) = Zeros
<1> DEFINE cd  == SlotBuildCodeDirectory(type, h, j, existing)
           sp  == SpecialSlots(h, j)
           all == AllSpecial(h, j)
           n   == IF j.execute THEN 7 ELSE 5
<1>1. /\ cd.hash = h /\ cd.nCode \in Nat /\ cd.nSpecial \in Nat
      /\ cd.specials = sp /\ cd.nSpecial = Len(sp)
      /\ cd.identOffset = HeaderLength
      /\ cd.teamOffset = IF j.asset.team = 0 THEN 0 ELSE HeaderLength + Ident + 1
      /\ cd.hashOffset = HeaderLength + (Ident + 1) + TeamLength(j) + cd.nSpecial * HashSize(h)
      /\ cd.size = cd.hashOffset + cd.nCode * HashSize(h)
  BY DirectoryMade
<1>2. \A k \in 1 .. 7 : (IF k > Len(sp) THEN Zeros ELSE sp[Len(sp) + 1 - k])
                          = IF k > n THEN Zeros ELSE all[n + 1 - k]
  BY SpecialsKept
<1>3. /\ all[n] = Zeros /\ all[n - 2] = Zeros /\ all[n - 3] = Zeros
      /\ all[n - 1] = Hash(h, SlotBuildRequirements(j))
      /\ all[n - 4] = Hash(h, SlotBuildEntitlements(j))
      /\ j.execute => all[2] = Zeros /\ all[1] = Hash(h, SlotBuildDerEntitlements(j))
  BY SpecialPlaces
<1>4. ~j.execute => Hash(h, SlotBuildDerEntitlements(j)) = Zeros
  BY DEF SlotBuildDerEntitlements, Hash
<1>5. Ident \in Nat /\ j.asset.team \in Nat
  BY SliceAssumption, AssetLengths DEF JobSet
<1>6. TeamLength(j) = IF j.asset.team = 0 THEN 0 ELSE j.asset.team + 1
  BY DEF TeamLength
<1>7. HashSize(h) \in Nat
  BY DEF HashSize
<1> HIDE DEF cd, sp, all
<1>8. \A k \in 1 .. 7 : SpecialSlot(cd, k) = IF k > n THEN Zeros ELSE all[n + 1 - k]
  BY <1>1, <1>2 DEF SpecialSlot
<1>9. /\ SpecialSlot(cd, 2) = Hash(h, SlotBuildRequirements(j))
      /\ SpecialSlot(cd, 5) = Hash(h, SlotBuildEntitlements(j))
      /\ SpecialSlot(cd, 7) = Hash(h, SlotBuildDerEntitlements(j))
      /\ \A k \in {1, 3, 4, 6} : SpecialSlot(cd, k) = Zeros
  BY <1>3, <1>4, <1>8
<1>10. cd.nSpecial * HashSize(h) \in Nat
  BY <1>1, <1>7
<1>11. /\ cd.hashOffset - cd.nSpecial * HashSize(h)
            = cd.identOffset + Ident + 1 + IF cd.teamOffset = 0 THEN 0 ELSE j.asset.team + 1
       /\ cd.teamOffset \in {0, cd.identOffset + Ident + 1}
  <2> DEFINE z == cd.nSpecial * HashSize(h)
             t == TeamLength(j)
  <2>1. z \in Nat /\ t \in Nat /\ HeaderLength = 88
    BY <1>5, <1>6, <1>10 DEF HeaderLength
  <2>2. cd.hashOffset = HeaderLength + (Ident + 1) + t + z
    BY <1>1
  <2> HIDE DEF z, t
  <2>3. cd.hashOffset - z = HeaderLength + Ident + 1 + t
    BY <1>5, <2>1, <2>2
  <2>4. cd.teamOffset = 0 <=> j.asset.team = 0
    BY <1>1, <1>5, <2>1
  <2>5. t = IF cd.teamOffset = 0 THEN 0 ELSE j.asset.team + 1
    BY <1>6, <2>4 DEF t
  <2> QED BY <1>1, <2>3, <2>5 DEF z
<1> QED BY <1>1, <1>9, <1>11 DEF cd

\* What SignatureReadsBack says of a signature, an asset and the identifier.
IndexReadsBack(sig) ==
  /\ \A k \in DOMAIN sig.index : /\ sig.index[k].offset = StartsIn(sig)[k]
                                 /\ sig.index[k].type = sig.blobs[k].type
  /\ \A k \in DOMAIN sig.blobs : k \in DOMAIN sig.index <=> sig.blobs[k] # Empty
  /\ sig.size = StartsIn(sig)[7]
PartsReadBack(sig, asset, cd) ==
  /\ cd.hashOffset - cd.nSpecial * HashSize(cd.hash)
       = cd.identOffset + Ident + 1 + IF cd.teamOffset = 0 THEN 0 ELSE asset.team + 1
  /\ cd.teamOffset \in {0, cd.identOffset + Ident + 1}
  /\ cd.hashOffset + cd.nCode * HashSize(cd.hash) = cd.size
  /\ SpecialSlot(cd, 2) = Hash(cd.hash, BlobOf(sig, "requirements"))
  /\ SpecialSlot(cd, 5) = Hash(cd.hash, BlobOf(sig, "entitlements"))
  /\ SpecialSlot(cd, 7) = Hash(cd.hash, BlobOf(sig, "der"))
  /\ \A k \in {1, 3, 4, 6} : SpecialSlot(cd, k) = Zeros

LEMMA NewReadsBack ==
  ASSUME NEW j \in JobSet, NEW force, NEW old
  PROVE  LET sig == BuildCodeSignature(j, force, old) IN
           /\ IndexReadsBack(sig) /\ DirectoriesOf(sig) # {}
           /\ \A cd \in DirectoriesOf(sig) : PartsReadBack(sig, j.asset, cd)
<1> DEFINE sig == BuildCodeSignature(j, force, old)
           s   == SixSlots(j, force, old)
<1>1. /\ sig = SuperBlob(s) /\ sig.blobs = s /\ s[1] \in DirectoriesOf(sig)
      /\ BlobOf(sig, "requirements") = s[2] /\ BlobOf(sig, "entitlements") = s[3]
      /\ BlobOf(sig, "der") = s[4]
  BY SignatureMade
<1>2. /\ DOMAIN s = 1 .. 6
      /\ s[2] = SlotBuildRequirements(j) /\ s[3] = SlotBuildEntitlements(j)
      /\ s[4] = SlotBuildDerEntitlements(j)
      /\ \A i \in 1 .. 6 : s[i].size \in Nat /\ (s[i].size > 0 <=> s[i] # Empty)
  BY SixPlaces DEF Solid
<1>3. \A cd \in DirectoriesOf(sig) :
        \E type, e : \E h \in Algorithms : cd = SlotBuildCodeDirectory(type, h, j, e)
  BY DirectoriesAre
<1> HIDE DEF sig, s
<1>4. IndexReadsBack(sig)
  <2>1. \A k \in 1 .. 7 : StartsIn(sig)[k] = Offsets(s)[k]
    <3>1. \A i \in 1 .. 6 : s[i].size \in Nat
      BY <1>2
    <3>2. DOMAIN s = 1 .. 6
      BY <1>2
    <3>3. \A k \in 1 .. 7 : StartsIn(SuperBlob(s))[k] = Offsets(s)[k]
      BY <3>1, <3>2, StartsAddUp
    <3> QED BY <1>1, <3>3
  <2>2. /\ DOMAIN sig.index = {i \in 1 .. 6 : s[i].size > 0}
        /\ \A i \in DOMAIN sig.index : /\ sig.index[i].type = s[i].type
                                       /\ sig.index[i].offset = Offsets(s)[i]
        /\ sig.size = Offsets(s)[7]
    <3>1. \A i \in 1 .. 6 : s[i].size \in Nat
      BY <1>2
    <3>2. DOMAIN s = 1 .. 6
      BY <1>2
    <3>3. LET signature == SuperBlob(s) IN
            /\ DOMAIN signature.index = {i \in 1 .. 6 : s[i].size > 0}
            /\ \A i \in DOMAIN signature.index :
                 /\ signature.index[i].type = s[i].type
                 /\ signature.index[i].offset = Offsets(s)[i]
            /\ signature.size = Offsets(s)[7]
      BY <3>1, <3>2, OffsetsAddUp
    <3> QED BY <1>1, <3>3
  <2>3. \A k \in DOMAIN sig.index : /\ sig.index[k].offset = StartsIn(sig)[k]
                                    /\ sig.index[k].type = sig.blobs[k].type
    BY <1>1, <2>1, <2>2
  <2>4. \A k \in DOMAIN sig.blobs : k \in DOMAIN sig.index <=> sig.blobs[k] # Empty
    BY <1>1, <1>2, <2>2
  <2>5. sig.size = StartsIn(sig)[7]
    BY <2>1, <2>2
  <2> QED BY Zenon, <2>3, <2>4, <2>5 DEF IndexReadsBack
<1>5. ASSUME NEW cd \in DirectoriesOf(sig)
      PROVE  PartsReadBack(sig, j.asset, cd)
  <2>1. PICK type, e : \E h \in Algorithms : cd = SlotBuildCodeDirectory(type, h, j, e)
    BY <1>3
  <2>2. PICK h \in Algorithms : cd = SlotBuildCodeDirectory(type, h, j, e)
    BY <2>1
  <2>3. /\ cd.hash = h
        /\ cd.hashOffset - cd.nSpecial * HashSize(cd.hash)
             = cd.identOffset + Ident + 1 + IF cd.teamOffset = 0 THEN 0 ELSE j.asset.team + 1
        /\ cd.teamOffset \in {0, cd.identOffset + Ident + 1}
        /\ cd.hashOffset + cd.nCode * HashSize(cd.hash) = cd.size
        /\ SpecialSlot(cd, 2) = Hash(h, SlotBuildRequirements(j))
        /\ SpecialSlot(cd, 5) = Hash(h, SlotBuildEntitlements(j))
        /\ SpecialSlot(cd, 7) = Hash(h, SlotBuildDerEntitlements(j))
        /\ \A k \in {1, 3, 4, 6} : SpecialSlot(cd, k) = Zeros
    BY <2>2, DirectoryReadsBack
  <2> QED BY Zenon, <1>1, <1>2, <2>3 DEF PartsReadBack
<1> QED BY <1>1, <1>4, <1>5 DEF sig

\* Who reads a signature this program wrote by its index and offsets finds what the type
\* says, the parts of each directory next to each other, and in the special slots the hashes
\* of the requirements and entitlements of the same signature: the offsets that
\* BuildCodeSignature writes count what it leaves out, for strings of every length
\* (archo.cpp:430-522, signing.cpp:421-510).
THEOREM ReadsBack == Spec => []SignatureReadsBack
<1>1. Init => SignatureReadsBack
  BY DEF Init, SignatureReadsBack
<1>2. ASSUME TypeOK, SliceInv, SignatureReadsBack, [Next]_vars
      PROVE  SignatureReadsBack'
  <2> DEFINE Stands == /\ IndexReadsBack(Signature) /\ Directories # {}
                       /\ \A cd \in Directories : PartsReadBack(Signature, opt.asset, cd)
  <2>1. SignatureReadsBack <=> (result = "ok" => Stands)
    BY Zenon DEF SignatureReadsBack, IndexReadsBack, PartsReadBack, Blob
  <2>2. SignatureReadsBack' <=> (result' = "ok" => Stands')
    BY Zenon DEF SignatureReadsBack, IndexReadsBack, PartsReadBack, Blob
  <2>3. CASE UNCHANGED vars /\ result = "ok"
    <3>1. Signature' = Signature /\ opt' = opt
      BY <2>3 DEF Signature, vars
    <3>2. Stands
      BY <1>2, <2>1, <2>3
    <3>3. Stands'
      BY Zenon, <3>1, <3>2 DEF Directories
    <3> QED BY <2>2, <3>3
  <2>4. CASE Sign /\ opt' = opt
    <3>1. Job \in JobSet /\ Job.asset = opt.asset
      BY <1>2, JobIsAJob DEF Job
    <3>2. /\ IndexReadsBack(NewSignature) /\ DirectoriesOf(NewSignature) # {}
          /\ \A cd \in DirectoriesOf(NewSignature) : PartsReadBack(NewSignature, opt.asset, cd)
      BY <3>1, NewReadsBack DEF NewSignature
    <3>3. Signature' = NewSignature
      BY <1>2, <2>4, SignedBinary DEF Signature
    <3>4. Stands'
      BY Zenon, <2>4, <3>2, <3>3 DEF Directories
    <3> QED BY <2>2, <3>4
  <2>5. CASE result' # "ok"
    BY <2>2, <2>5
  <2> QED BY <1>2, <2>3, <2>4, <2>5, SuccessIsSigning
<1> QED BY <1>1, <1>2, InvariantHolds, PTL DEF Spec
=============================================================================
