-------------------------------- MODULE Slice --------------------------------
(***************************************************************************)
(* The bytes of one architecture: ZArchO of archo.cpp, as ZMachO drives it *)
(* on a thin file.  Where MachO has size classes, here are the offsets and *)
(* lengths themselves: the load commands in front of __text, the signature *)
(* area at the end, what the headers say of it, and the signature written  *)
(* into it.  Temporary files and kills are MachO's subject.                *)
(***************************************************************************)
EXTENDS CodeSignature

CONSTANTS
  Binaries,   \* the slices the builder may deliver
  Dylibs,     \* load paths that -l may inject
  PathLength, \* their lengths
  Assets,     \* what a run signs with: records of AssetSet
  Options,    \* the command lines
  Ident,      \* the length of the bundle identifier
  MaxRuns     \* bound on the number of runs

\* A slice: its length; where its load commands end; where __text begins (0: it has
\* none); where __LINKEDIT ends (0: it has none); whether there is an LC_CODE_SIGNATURE,
\* and what it says; whether it is an executable; the injected load commands; and the
\* signature in its area.
BinarySet(signatures) ==
  [length : Nat, header : Nat, text : Nat, linkedit : Nat, command : BOOLEAN, dataoff : Nat,
   execute : BOOLEAN, datasize : Nat, loads : [Dylibs -> {"none", "strong", "weak"}], signature : signatures]

ASSUME SliceAssumption ==
  /\ PathLength \in [Dylibs -> Nat]
  /\ Assets \subseteq AssetSet(Nat, Nat, Nat, Nat)
  \* ZSignAsset::Init has found a team, except for an ad-hoc signature, which has none.
  /\ \A a \in Assets : a.adhoc = (a.team = 0)
  /\ \A o \in Options : /\ o.dylibs \in Seq(Dylibs)
                        /\ o.weak \in BOOLEAN /\ o.force \in BOOLEAN /\ o.sign \in BOOLEAN
                        /\ o.asset \in Assets
  /\ Ident \in Nat \ {0} /\ MaxRuns \in Nat

\* What a delivered slice satisfies: the load commands come first; the signature area, if
\* there is one, is the end of the file and of __LINKEDIT, and a signature has code slots
\* for the code in front of it.
ASSUME BinariesAssumption ==
  \A b \in Binaries :
    /\ b \in BinarySet({b.signature})
    /\ b.header > 0 /\ b.header <= b.length /\ b.linkedit \in {0, b.length}
    /\ b.text # 0 => b.header <= b.text
    /\ b.command => /\ b.header <= b.dataoff /\ b.dataoff % 16 = 0
                    /\ b.dataoff + b.datasize = b.length
    /\ b.signature # None =>
         /\ b.command /\ b.signature.size \in 0 .. b.datasize
         /\ \A cd \in DirectoriesOf(b.signature) :
              cd.slots.count = CodeSlotCount(b.dataoff) /\ cd.slots.hash \in {"sha1", "sha256"}
    /\ \A d \in Dylibs : b.loads[d] = "none"

VARIABLES
  bin,       \* the file
  mem,       \* what ZArchO::Init read from it
  pc,        \* "idle", or what the process is doing
  opt,       \* its command line
  left,      \* the dylibs it has yet to inject
  realloced, \* m_bCSRealloced
  runs,      \* how many runs have been started
  result,    \* how the last one ended: "none", "ok" or "failed"
  unsigned   \* history: it started on a file without a signature

vars == <<bin, mem, pc, opt, left, realloced, runs, result, unsigned>>

\* The first page, as far as zsign edits it.
Pages == <<bin.header, bin.linkedit, bin.datasize, bin.loads>>

\* ByteAlign adds a whole unit to what is aligned already.
ByteAlign(value, align) == value + (align - (value % align))
Align16(n) == IF n % 16 = 0 THEN n ELSE n + 16 - (n % 16)

\* ZArchO::Init.  No __text, and load commands that reach it, both give no free space.
Read(b) == [free       |-> IF b.text > b.header THEN b.text - b.header ELSE 0,
            codeLength |-> IF b.command THEN b.dataoff ELSE Align16(b.length),
            signBase   |-> b.command]

Init ==
  /\ bin \in Binaries
  /\ mem = Read(bin)
  /\ pc = "idle"
  /\ opt \in Options
  /\ left = << >>
  /\ realloced = FALSE
  /\ runs = 0
  /\ result = "none"
  /\ unsigned = FALSE

Start(o) ==
  /\ pc = "idle"
  /\ runs < MaxRuns
  /\ runs' = runs + 1
  /\ opt' = o
  /\ left' = o.dylibs
  /\ mem' = Read(bin)
  /\ pc' = "inject"
  /\ result' = "none"
  /\ unsigned' = (bin.signature = None)
  /\ UNCHANGED <<bin, realloced>>

\* Mutant of Ends: the flag outlives the file it is about.
EndsRealloced(outcome) ==
  /\ pc' = "idle"
  /\ result' = outcome
  /\ UNCHANGED <<opt, left, realloced, runs, unsigned>>
Ends(outcome) ==
  /\ pc' = "idle"
  /\ result' = outcome
  /\ realloced' = FALSE
  /\ UNCHANGED <<opt, left, runs, unsigned>>

\* InjectDyLib.  The free space is what Init read: it does not shrink.
CommandSize(d) == 24 + PathLength[d] + (8 - (PathLength[d] % 8))
NoRoom(d)      == mem.free > 0 /\ mem.free < CommandSize(d)

Inject ==
  /\ pc = "inject"
  /\ left # << >>
  /\ left' = Tail(left)
  /\ LET d    == Head(left)
         kind == IF opt.weak THEN "weak" ELSE "strong"
     IN  \/ /\ bin.loads[d] # "none"
            /\ bin' = [bin EXCEPT !.loads[d] = kind]
         \/ /\ bin.loads[d] = "none" /\ ~NoRoom(d)
            /\ bin' = [bin EXCEPT !.loads[d] = kind, !.header = @ + CommandSize(d)]
         \/ /\ bin.loads[d] = "none" /\ NoRoom(d)
            /\ bin' = bin
  /\ UNCHANGED <<mem, pc, opt, realloced, runs, result, unsigned>>

\* Without -s the process is done when it has injected.
Injected ==
  /\ pc = "inject"
  /\ left = << >>
  /\ \/ /\ opt.sign
        /\ pc' = "sign"
        /\ UNCHANGED <<opt, left, realloced, runs, result, unsigned>>
     \/ /\ ~opt.sign
        /\ Ends("none")
  /\ UNCHANGED <<bin, mem>>

Job == [asset |-> opt.asset, ident |-> Ident, execute |-> bin.execute, info |-> Empty,
        res |-> Empty, code |-> mem.codeLength, pages |-> Pages]
NewSignature == BuildCodeSignature(Job, opt.force, bin.signature)

Fits == mem.signBase /\ NewSignature.size <= bin.length - mem.codeLength

Sign ==
  /\ pc = "sign"
  /\ Fits
  /\ bin' = [bin EXCEPT !.signature = NewSignature]
  /\ Ends("ok")
  /\ UNCHANGED mem

\* Mutant of NewLength: room for the SHA-1 slots only.
NewLengthSHA1 ==
  mem.codeLength + ByteAlign((mem.codeLength \div PageSize + 1) * 20, PageSize) + 16384
\* What ReallocCodeSignSpace makes room for: the slots of both directories, and 16 KiB.
NewLength ==
  mem.codeLength + ByteAlign((mem.codeLength \div PageSize + 1) * (20 + 32), PageSize) + 16384

\* Whether the file can be made longer at all, and has room for a load command it lacks.
CanGrow == bin.linkedit # 0 /\ NewLength > bin.length
HasCommandRoom == bin.command \/ mem.free >= 4
CommandLength == 16

\* Mutant of Longer: LC_CODE_SIGNATURE keeps the size it had.
LongerLinkEdit ==
  [bin EXCEPT !.length = NewLength, !.linkedit = NewLength, !.command = TRUE,
              !.dataoff = mem.codeLength,
              !.header = IF bin.command THEN @ ELSE @ + CommandLength]
\* The file that takes its place; the signature in it stays.
Longer ==
  [bin EXCEPT !.length = NewLength, !.linkedit = NewLength, !.command = TRUE,
              !.dataoff = mem.codeLength, !.datasize = NewLength - mem.codeLength,
              !.header = IF bin.command THEN @ ELSE @ + CommandLength]

\* The first shortage of a run: the file is made longer, read again, and signed again.
Realloc ==
  /\ pc = "sign"
  /\ ~Fits /\ ~realloced
  /\ CanGrow /\ HasCommandRoom
  /\ bin' = Longer
  /\ mem' = Read(Longer)
  /\ realloced' = TRUE
  /\ UNCHANGED <<pc, opt, left, runs, result, unsigned>>

\* It cannot be made longer.  __LINKEDIT is edited before the room for the command is
\* looked for.
ReallocFails ==
  /\ pc = "sign"
  /\ ~Fits /\ ~realloced
  /\ ~(CanGrow /\ HasCommandRoom)
  /\ bin' = IF CanGrow THEN [bin EXCEPT !.linkedit = NewLength] ELSE bin
  /\ Ends("failed")
  /\ UNCHANGED mem

SecondShortage ==
  /\ pc = "sign"
  /\ ~Fits /\ realloced
  /\ Ends("failed")
  /\ UNCHANGED <<bin, mem>>

Next == \/ \E o \in Options : Start(o)
        \/ Inject \/ Injected \/ Sign \/ Realloc \/ ReallocFails \/ SecondShortage

Spec == Init /\ [][Next]_vars

(***************************************************************************)
(* Properties.                                                             *)
(***************************************************************************)
\* Every variable has its type, and no file counts as reallocated but the one that is
\* being signed (macho.cpp:12, 147).
TypeOK ==
  /\ bin \in BinarySet({bin.signature})
  /\ bin.signature # None => bin.signature.size \in Nat
  /\ mem \in [free : Nat, codeLength : Nat \ {0}, signBase : BOOLEAN]
  /\ pc \in {"idle", "inject", "sign"}
  /\ opt \in Options
  /\ left \in Seq(Dylibs)
  /\ realloced \in BOOLEAN /\ unsigned \in BOOLEAN
  /\ realloced => pc = "sign"
  /\ runs \in 0 .. MaxRuns
  /\ result \in {"none", "ok", "failed"}

Signature == bin.signature
Directories == DirectoriesOf(Signature)
Blob(type)  == BlobOf(Signature, type)
\* Where the k-th slot begins, reading the bytes from the start.
StartsIn(signature) ==
  LET start[k \in 1 .. 7] == IF k = 1 THEN 12 + 8 * Cardinality(DOMAIN signature.index)
                             ELSE start[k - 1] + signature.blobs[k - 1].size
  IN  start
\* The k-th special slot in front of the code slots, counting away from them.
SpecialSlot(cd, k) == IF k > cd.nSpecial THEN Zeros ELSE cd.specials[cd.nSpecial + 1 - k]

\* Who reads a signature this program wrote by its index and offsets finds what the type
\* says: the blobs where the index points, in a directory the strings, the special slots
\* and the code slots next to each other, and in the special slots the hashes of the
\* requirements and entitlements that are in the same signature (archo.cpp:430-522,
\* signing.cpp:421-510).
SignatureReadsBack ==
  result = "ok" =>
    /\ \A k \in DOMAIN Signature.index :
         /\ Signature.index[k].offset = StartsIn(Signature)[k]
         /\ Signature.index[k].type = Signature.blobs[k].type
    /\ \A k \in DOMAIN Signature.blobs : k \in DOMAIN Signature.index <=> Signature.blobs[k] # Empty
    /\ Signature.size = StartsIn(Signature)[7]
    /\ Directories # {}
    /\ \A cd \in Directories :
         /\ cd.hashOffset - cd.nSpecial * HashSize(cd.hash)
              = cd.identOffset + Ident + 1 + IF cd.teamOffset = 0 THEN 0 ELSE opt.asset.team + 1
         /\ cd.teamOffset \in {0, cd.identOffset + Ident + 1}
         /\ cd.hashOffset + cd.nCode * HashSize(cd.hash) = cd.size
         /\ SpecialSlot(cd, 2) = Hash(cd.hash, Blob("requirements"))
         /\ SpecialSlot(cd, 5) = Hash(cd.hash, Blob("entitlements"))
         /\ SpecialSlot(cd, 7) = Hash(cd.hash, Blob("der"))
         /\ \A k \in {1, 3, 4, 6} : SpecialSlot(cd, k) = Zeros

\* After a successful run the signature lies in its area, and the area is what the headers
\* say and ends the file, whatever was injected and whether or not the file was made
\* longer in this run or an earlier one failed to (archo.cpp:543-552, 564-600).
AreaHoldsSignature ==
  result = "ok" =>
    /\ bin.command
    /\ Signature.size <= bin.datasize
    /\ bin.dataoff + bin.datasize = bin.length
    /\ bin.linkedit \in {0, bin.length}

\* The code slots of a directory are as many as the code has pages, made with its own
\* algorithm, and if the run was forced or found no signature they hash the pages as they
\* are: slots of another signer's directories are never used for the wrong algorithm or
\* length (signing.cpp:508, 715-731).
CodeSlotsFit ==
  result = "ok" =>
    \A cd \in Directories :
      /\ cd.limit = bin.dataoff
      /\ cd.nCode * PageSize >= cd.limit /\ (cd.nCode - 1) * PageSize < cd.limit
      /\ cd.slots.count = cd.nCode
      /\ cd.slots.hash = cd.hash
      /\ opt.force \/ unsigned => cd.slots.pages = Pages

\* The CMS message of a known issuer's certificate is over the primary directory, and lists
\* every directory under its own hash; with SHA-256 only it does not (archo.cpp:413-423).
DirectoriesAttested ==
  result = "ok" /\ ~opt.asset.adhoc /\ opt.asset.known =>
    LET cms == Blob("cms") IN
      /\ cms.type = "cms" /\ cms.over = Blob("codeDirectory")
      /\ ~opt.asset.sha256Only =>
           \A cd \in Directories : CDHash(Hash(cd.hash, cd)) \in cms.attests

\* One reallocation is enough: a run fails only if the file has no __LINKEDIT, or lacks
\* both the load command and the room for one, or if the signature without its code slots
\* is longer than the 16 KiB that ReallocCodeSignSpace allows for it (archo.cpp:559).
OneReallocSuffices ==
  result = "failed" =>
    \/ bin.linkedit = 0
    \/ ~HasCommandRoom
    \/ NewSignature.size - (CodeSlotCount(mem.codeLength) * (20 + 32)) > 16384

(***************************************************************************)
(* What the proofs rest on (see SliceProofs).                              *)
(***************************************************************************)
\* Where there is an LC_CODE_SIGNATURE, it and __LINKEDIT tell where the file ends.
Layout ==
  /\ bin.length > 0
  /\ bin.command => /\ bin.dataoff > 0 /\ bin.dataoff + bin.datasize = bin.length
                    /\ bin.linkedit \in {0, bin.length}
  /\ bin.signature # None => bin.command

\* A signature has code slots for the code in front of it, whoever made it.
SlotsStand ==
  bin.signature # None =>
    \A cd \in DirectoriesOf(bin.signature) :
      cd.slots.count = CodeSlotCount(bin.dataoff) /\ cd.slots.hash \in {"sha1", "sha256"}

\* What ZArchO remembers of the file is so, but for the free space; a file that was made
\* longer has the length it was made for; one that had no signature when the run began has
\* none while it lasts.
Memory ==
  /\ pc # "idle" => mem.codeLength = Read(bin).codeLength /\ mem.signBase = bin.command
  /\ realloced => bin.command /\ bin.length = NewLength
  /\ result # "none" => pc = "idle"
  /\ pc # "idle" /\ unsigned => bin.signature = None

SliceInv == Layout /\ SlotsStand /\ Memory

\* Stated by the documentation, and not so (see the findings).

\* zsign.cpp:58, "Use -l multiple time to inject multiple dylib files at once": the load
\* commands, however many are injected, stay in front of the code.
CommandsClearOfText == bin.text # 0 => bin.header <= bin.text
==============================================================================
