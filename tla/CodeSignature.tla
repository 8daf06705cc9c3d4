---------------------------- MODULE CodeSignature ----------------------------
(***************************************************************************)
(* The embedded signature of one architecture, built by BuildCodeSignature *)
(* of archo.cpp from the slots of signing.cpp.  A blob is a record with    *)
(* its size in bytes and what is in it; the bytes themselves are abstract: *)
(* the hash of x is the pair of the algorithm and x.                       *)
(***************************************************************************)
EXTENDS Integers, Sequences, SequencesExt

CONSTANT None \* no signature, no code slots

PageSize == 4096

\* A string or certificate is known by its length, 0 if there is none; ents, der and
\* cms are the sizes of the entitlements as a plist and as DER, and of the CMS message;
\* known: the certificate's issuer is one of the two that GenerateCMS knows.
AssetSet(cns, teams, entitlements, messages) ==
  [cn : cns, team : teams, ents : entitlements, der : entitlements, cms : messages,
   adhoc : BOOLEAN, sha256Only : BOOLEAN, known : BOOLEAN]

\* A job j, below, is what a slice is signed with: its asset, the length of its bundle
\* identifier (ident), whether it is an executable (execute), its Info.plist and
\* CodeResources (info and res; Empty for a single file), the length of its code up to the
\* signature (code), and what the pages hold (pages).

\* A blob that was not made is the empty string; the hash of nothing is all zeros.
Empty == [type |-> "empty", size |-> 0]
Zeros == <<"zeros", "zeros">>

HashSize(h) == IF h = "sha1" THEN 20 ELSE 32
Hash(h, x)  == IF x = Empty THEN Zeros ELSE <<h, x>>

(***************************************************************************)
(* The slots.                                                              *)
(***************************************************************************)
Padded(n) == n + ((4 - (n % 4)) % 4)

\* Without an identifier or a subject the requirements are empty, as ldid writes them.
SlotBuildRequirements(j) ==
  [type |-> "requirements",
   size |-> IF j.ident = 0 \/ j.asset.cn = 0 THEN 12
            ELSE 40 + (4 + Padded(j.ident)) + 40 + (4 + Padded(j.asset.cn)) + 28,
   of   |-> <<j.ident, j.asset.cn>>]

\* What is not an executable gets an empty plist and no DER.
EmptyEntitlements == 181
SlotBuildEntitlements(j) ==
  LET n == IF j.execute THEN j.asset.ents ELSE EmptyEntitlements
  IN  IF n = 0 THEN Empty ELSE [type |-> "entitlements", size |-> 8 + n, of |-> n]
SlotBuildDerEntitlements(j) ==
  IF ~j.execute \/ j.asset.ents = 0 THEN Empty
  ELSE [type |-> "der", size |-> 8 + j.asset.der, of |-> j.asset.der]

\* The special slots, the one farthest from the code slots first; what is empty at the
\* far end is left out.
SpecialSlots(h, j) ==
  LET all == (IF j.execute THEN <<Hash(h, SlotBuildDerEntitlements(j)), Zeros>> ELSE << >>)
               \o <<Hash(h, SlotBuildEntitlements(j)), Zeros, Hash(h, j.res),
                    Hash(h, SlotBuildRequirements(j)), Hash(h, j.info)>>
  IN  SubSeq(all, Min({i \in DOMAIN all : all[i] # Zeros}), Len(all))

CodeSlotCount(code) == code \div PageSize + (IF code % PageSize > 0 THEN 1 ELSE 0)
FreshSlots(h, j)    == [hash |-> h, pages |-> j.pages, count |-> CodeSlotCount(j.code)]
SlotsSize(s)        == s.count * HashSize(s.hash)

HeaderLength == 88

\* Mutant of Reusable: existing slots are taken whatever their number and kind.
ReusableAlways(slots, h, j) == slots # None
\* Existing code slots are used if they have the length the new ones would have.
Reusable(slots, h, j) ==
  slots # None /\ SlotsSize(slots) = CodeSlotCount(j.code) * HashSize(h)

TeamLength(j) == IF j.asset.team = 0 THEN 0 ELSE j.asset.team + 1

\* existing: the code slots found in the present signature, or None.
SlotBuildCodeDirectory(type, h, j, existing) ==
  IF j.code = 0 \/ j.ident = 0 \/ (j.asset.team = 0 /\ ~j.asset.adhoc) THEN Empty
  ELSE LET specials == SpecialSlots(h, j)
           hashed   == HeaderLength + (j.ident + 1) + TeamLength(j)
           slots    == IF Reusable(existing, h, j) THEN existing ELSE FreshSlots(h, j)
       IN  [type |-> type, hash |-> h, limit |-> j.code, adhoc |-> j.asset.adhoc,
            identOffset |-> HeaderLength,
            teamOffset  |-> IF j.asset.team = 0 THEN 0 ELSE HeaderLength + j.ident + 1,
            hashOffset  |-> hashed + Len(specials) * HashSize(h),
            nSpecial    |-> Len(specials),
            nCode       |-> CodeSlotCount(j.code),
            specials    |-> specials,
            slots       |-> slots,
            size        |-> hashed + (Len(specials) + CodeSlotCount(j.code)) * HashSize(h)]

\* Truncation to the 20 bytes of a cdhash keeps the hash apart from others: it is marked.
CDHash(sum) == <<"first 20 bytes", sum>>

\* Mutant of SlotBuildCMSSignature: the two directories the other way round.
SlotBuildCMSSignatureSwapped(j, primary, alternate) ==
  IF j.asset.adhoc THEN [type |-> "cms", size |-> 8, attests |-> {}, over |-> Empty]
  ELSE IF ~j.asset.known THEN Empty
  ELSE [type |-> "cms", size |-> 8 + j.asset.cms, over |-> primary,
        attests |-> {CDHash(Hash("sha1", alternate)), CDHash(Hash("sha256", primary))}]
\* The CMS message lists the primary directory by its SHA-1 and the alternate one by its
\* SHA-256, whichever algorithm they use themselves.  A message that could not be made
\* is empty, and nobody looks.
SlotBuildCMSSignature(j, primary, alternate) ==
  IF j.asset.adhoc THEN [type |-> "cms", size |-> 8, attests |-> {}, over |-> Empty]
  ELSE IF ~j.asset.known THEN Empty
  ELSE [type |-> "cms", size |-> 8 + j.asset.cms, over |-> primary,
        attests |-> {CDHash(Hash("sha1", primary)), CDHash(Hash("sha256", alternate))}]

(***************************************************************************)
(* The superblob.                                                          *)
(***************************************************************************)
There(slots) == {i \in DOMAIN slots : slots[i].size > 0}

\* Mutant of SuperBlobHeader: the header does not count the index entries.
SuperBlobHeaderFlat(slots) == 12
SuperBlobHeader(slots) == 12 + 8 * Cardinality(There(slots))

\* Where each of the six slots begins, and where the last one ends: the lengths add up.
Offsets(slots) ==
  LET size(i) == slots[i].size
      first   == SuperBlobHeader(slots)
      second  == first + size(1)
      third   == second + size(2)
      fourth  == third + size(3)
      fifth   == fourth + size(4)
      sixth   == fifth + size(5)
  IN  <<first, second, third, fourth, fifth, sixth, sixth + size(6)>>

\* The index has an entry for every slot that is not empty, in this order; the slots
\* follow one another, and an empty one takes no bytes.
SuperBlob(slots) ==
  [index |-> [i \in There(slots) |-> [type |-> slots[i].type, offset |-> Offsets(slots)[i]]],
   blobs |-> slots,
   size  |-> Offsets(slots)[7]]

DirectoriesOf(signature) ==
  {cd \in Range(signature.blobs) : cd.type \in {"codeDirectory", "alternate"}}

\* What the index names with this type.
BlobOf(signature, type) ==
  LET named == {b \in Range(signature.blobs) : b.type = type}
  IN  IF named = {} THEN Empty ELSE CHOOSE b \in named : TRUE

\* GetCodeSignatureExistsCodeSlotsData: the code slots of the primary directory are taken
\* for SHA-1 ones, those of the alternate directory for SHA-256 ones.
ExistingSlots(signature, type) ==
  IF signature = None \/ BlobOf(signature, type) = Empty THEN None ELSE BlobOf(signature, type).slots

\* old: the signature that is there.  With SHA-256 only, the second directory becomes
\* the primary one.
BuildCodeSignature(j, force, old) ==
  LET existing(type) == IF force THEN None ELSE ExistingSlots(old, type)
      sha1   == IF j.asset.sha256Only THEN Empty
                ELSE SlotBuildCodeDirectory("codeDirectory", "sha1", j, existing("codeDirectory"))
      sha256 == SlotBuildCodeDirectory(IF j.asset.sha256Only THEN "codeDirectory" ELSE "alternate",
                                       "sha256", j, existing("alternate"))
      first  == IF j.asset.sha256Only THEN sha256 ELSE sha1
      second == IF j.asset.sha256Only THEN Empty ELSE sha256
  IN  SuperBlob(<<first, SlotBuildRequirements(j), SlotBuildEntitlements(j),
                  SlotBuildDerEntitlements(j), second,
                  SlotBuildCMSSignature(j, first, second)>>)
==============================================================================
