------------------------- MODULE BundleExecutableProofs -------------------------
(***************************************************************************)
(* What BundleSign does to the executable of each bundle is what Executable*)
(* says of one Mach-O file: for every tree of bundles, every set of files  *)
(* and command lines, every fault and every number of runs.                *)
(***************************************************************************)
EXTENDS BundleSignProofs

(***************************************************************************)
(* How a bundle's executable is seen.                                      *)
(***************************************************************************)
Seen(b)   == IF Present(Exe(b)) THEN [i \in {1} |-> Slice(disk[Exe(b)])] ELSE << >>
PhaseOf(b) == IF pc # "sign" \/ at # b THEN "idle" ELSE IF todo = {} THEN "sign" ELSE "edit"

\* A file that is there is seen, with its one architecture.
LEMMA SeenFile ==
  ASSUME NEW b, Present(Exe(b))
  PROVE  /\ Seen(b) # << >>
         /\ DOMAIN Seen(b) = {1}
         /\ Seen(b)[1] = Slice(disk[Exe(b)])
<1>1. Seen(b) = [i \in {1} |-> Slice(disk[Exe(b)])]
  BY DEF Seen
<1>2. DOMAIN Seen(b) # DOMAIN << >>
  BY <1>1
<1> QED BY <1>1, <1>2

\* A step that does not touch it leaves it as it is seen.
LEMMA Untouched ==
  ASSUME NEW b, NEW G, OnlyIn(G), Exe(b) \notin G
  PROVE  Seen(b)' = Seen(b)
<1>1. /\ Exe(b) \in DOMAIN disk' <=> Exe(b) \in DOMAIN disk
      /\ Exe(b) \in DOMAIN disk => disk'[Exe(b)] = disk[Exe(b)]
  BY DEF OnlyIn
<1> QED BY <1>1 DEF Seen, Slice, Pages, Present

LEMMA SameSeen == ASSUME NEW b, disk' = disk PROVE Seen(b)' = Seen(b)
  BY DEF Seen, Slice, Pages, Present

\* A step while another bundle, or none, is signed: the executable stays as it is; the run
\* may end.
LEMMA Elsewhere ==
  ASSUME NEW b \in Bundles, pc # "sign" \/ at # b, pc' # "sign" \/ at' # b,
         Seen(b)' = Seen(b), runs' = runs,
         \/ (b \in done)' = (b \in done) /\ (pc # "idle")' = (pc # "idle")
         \/ pc' = "idle" /\ ~(b \in done)'
  PROVE  [SigningOf(b)!Next]_(SigningOf(b)!vars)
<1>1. PhaseOf(b) = "idle" /\ PhaseOf(b)' = "idle"
  BY DEF PhaseOf
<1>2. CASE (b \in done)' = (b \in done) /\ (pc # "idle")' = (pc # "idle")
  BY <1>1, <1>2 DEF SigningOf!vars, Seen, PhaseOf
<1>3. CASE pc' = "idle" /\ ~(b \in done)'
  <2>1. SigningOf(b)!End
    BY <1>1, <1>3 DEF SigningOf!End, Seen, PhaseOf
  <2> QED BY <2>1 DEF SigningOf!Next
<1> QED BY <1>2, <1>3

\* A step that writes another file, or nothing.
LEMMA OtherFile ==
  ASSUME NEW b, NEW f, f # Exe(b), disk' = disk \/ \E c : disk' = Write(f, c)
  PROVE  Seen(b)' = Seen(b)
<1>1. CASE disk' = disk
  BY <1>1, SameSeen
<1>2. CASE \E c : disk' = Write(f, c)
  <2>1. OnlyIn({f})
    BY <1>2, WriteChanges
  <2> QED BY <2>1, Untouched
<1> QED BY <1>1, <1>2

\* A step that removes another file.
LEMMA RemovedFile ==
  ASSUME DiskOK, NEW b, NEW f \in Files, f # Exe(b), f[1] # "info", disk' = Remove(f)
  PROVE  Seen(b)' = Seen(b)
<1>1. OnlyIn({f})
  BY RemoveFile
<1> QED BY <1>1, Untouched

\* The files that are not executables, and the executables of other bundles.
LEMMA NotThisExe ==
  ASSUME NEW b \in Bundles
  PROVE  /\ \A c \in Bundles : Info(c) # Exe(b) /\ Res(c) # Exe(b) /\ ExeLeft(c) # Exe(b)
         /\ \A c \in Bundles : c # b => Exe(c) # Exe(b)
         /\ \A d \in Dylibs : Lib(d) # Exe(b) /\ LibLeft(d) # Exe(b)
         /\ \A r \in Resources : Data(r) # Exe(b)
         /\ Prov # Exe(b)
<1>1. \A c \in Bundles : /\ Info(c)[1] = "info" /\ Res(c)[1] = "res" /\ ExeLeft(c)[1] = "exeleft"
                         /\ Exe(c)[1] = "exe" /\ Exe(c)[2] = c
  BY FileNames
<1>2. /\ \A d \in Dylibs : Lib(d)[1] = "lib" /\ LibLeft(d)[1] = "libleft"
      /\ \A r \in Resources : Data(r)[1] = "data"
      /\ Prov[1] = "prov"
  BY FileNames
<1> QED BY <1>1, <1>2

\* What is seen of an executable.
LEMMA SliceSeen ==
  ASSUME NEW x
  PROVE  /\ Slice(x).pages = Pages(x)
         /\ Slice(x).slots = x.sig.slots
         /\ Slice(x).signer = x.sig.run
  BY DEF Slice

\* A step that edits the pages of the executable at hand.
LEMMA PagesEdited ==
  ASSUME NEW b, Present(Exe(b)), NEW x, Exe(b) \in DOMAIN disk', disk'[Exe(b)] = x,
         x.sig = disk[Exe(b)].sig
  PROVE  SigningOf(b)!Edited(Seen(b)')
<1>1. Seen(b)' = [i \in {1} |-> Slice(disk'[Exe(b)])]
  BY DEF Seen, Slice, Pages, Present
<1>2. DOMAIN Seen(b)' = {1} /\ Seen(b)'[1] = Slice(x) /\ Seen(b)' # << >>
  <2>1. DOMAIN Seen(b)' # DOMAIN << >>
    BY <1>1
  <2> QED BY <1>1, <2>1
<1>3. /\ Seen(b) # << >> /\ DOMAIN Seen(b) = {1} /\ Seen(b)[1] = Slice(disk[Exe(b)])
  BY SeenFile
<1>4. /\ Slice(x).slots = Slice(disk[Exe(b)]).slots
      /\ Slice(x).signer = Slice(disk[Exe(b)]).signer
  BY SliceSeen
<1> QED BY <1>2, <1>3, <1>4 DEF SigningOf!Edited, SigningOf!NoFile, Seen

(***************************************************************************)
(* Every step, for every bundle.                                           *)
(***************************************************************************)

\* The executable is signed; its bundle is done.
LEMMA SignExeSeen ==
  ASSUME TypeOK, WalkOrder, SignExe, NEW b \in Bundles, at = b
  PROVE  SigningOf(b)!Sign
<1>1. /\ pc = "sign" /\ todo = {} /\ Present(Exe(b)) /\ IsMachO(disk[Exe(b)]) /\ b \notin done
      /\ pc' # "sign" /\ done' = done \cup {b} /\ runs' = runs /\ hashAll \in BOOLEAN
  BY FileNames DEF SignExe, TypeOK, WalkOrder, DiskOK, Present
<1> DEFINE signed(grow) == Sign(disk[Exe(b)], tree.info[at], disk[Res(at)], hashAll, grow)
<1>2. PICK grow \in Grows(disk[Exe(b)]) :
        disk' = Exchange(Exe(b), signed(grow), Cleared(grow, ExeLeft(b)))
  BY DEF SignExe
<1> DEFINE x == signed(grow)
<1>3. /\ IsMachO(x) /\ x.sig.run = runs
      /\ x.sig.slots = IF hashAll \/ disk[Exe(b)].sig.slots = Missing
                       THEN Pages(x) ELSE disk[Exe(b)].sig.slots
  <2>1. x = Sign(disk[Exe(b)], tree.info[at], disk[Res(at)], hashAll, grow)
    OBVIOUS
  <2> HIDE DEF x
  <2> QED BY <1>1, <2>1, SignedFile DEF RehashesPages
<1> HIDE DEF x
<1>4. Exe(b) \in DOMAIN disk' /\ disk'[Exe(b)] = x
  <2>1. grow \in BOOLEAN /\ Beside(Exe(b), ExeLeft(b)) /\ DiskOK
    BY LeftNames DEF Grows, TypeOK
  <2>2. disk' = Exchange(Exe(b), x, Cleared(grow, ExeLeft(b)))
    BY <1>2 DEF x
  <2> QED BY <1>3, <2>1, <2>2, SignChanges DEF Present
<1>5. Seen(b)' = [i \in {1} |-> Slice(disk'[Exe(b)])]
  BY <1>4 DEF Seen, Slice, Pages, Present
<1>6. DOMAIN Seen(b)' = {1} /\ Seen(b)'[1] = Slice(x) /\ Seen(b)' # << >>
  <2>1. DOMAIN Seen(b)' # DOMAIN << >>
    BY <1>5
  <2> QED BY <1>4, <1>5, <2>1
<1>7. /\ Seen(b) # << >> /\ DOMAIN Seen(b) = {1} /\ Seen(b)[1] = Slice(disk[Exe(b)])
  BY <1>1, SeenFile
<1>8. /\ Slice(x).pages = Pages(x) /\ Slice(x).slots = x.sig.slots /\ Slice(x).signer = x.sig.run
      /\ Slice(disk[Exe(b)]).slots = disk[Exe(b)].sig.slots
  BY SliceSeen
<1>9. PhaseOf(b) = "sign" /\ PhaseOf(b)' = "idle"
  BY <1>1 DEF PhaseOf
<1>10. SigningOf(b)!IsSigned(Seen(b)[1], Seen(b)'[1])
  BY <1>1, <1>3, <1>6, <1>7, <1>8 DEF SigningOf!IsSigned
<1>11. SigningOf(b)!Rests
  BY <1>1, <1>9 DEF SigningOf!Rests, SigningOf!NoFile, PhaseOf
<1>12. SigningOf(b)!SignSome(Seen(b)')
  BY <1>1, <1>3, <1>6, <1>7, <1>8, <1>10, <1>11
     DEF SigningOf!SignSome, SigningOf!NoFile, Seen
<1> QED BY <1>1, <1>9, <1>12 DEF SigningOf!Sign, Seen, PhaseOf

\* A run that is killed, or fails, while it is at this executable.
LEMMA StopSeen ==
  ASSUME NEW b, pc = "sign", at = b, todo = {} \/ Seen(b)' = Seen(b), NEW outcome,
         ProcessEnds(outcome),
         Seen(b)' = Seen(b) \/ SigningOf(b)!Edited(Seen(b)') \/ Seen(b)' = << >>
  PROVE  SigningOf(b)!Next
<1>1. PhaseOf(b) # "idle" /\ (todo = {} => PhaseOf(b) = "sign") /\ PhaseOf(b)' = "idle"
  BY DEF ProcessEnds, PhaseOf
<1>2. SigningOf(b)!Stop
  BY <1>1 DEF SigningOf!Stop, SigningOf!Rests, SigningOf!NoFile, ProcessEnds, PhaseOf, Seen
<1> QED BY <1>2 DEF SigningOf!Next

LEMMA ExeStep ==
  ASSUME TypeOK, WalkOrder, [Next]_vars, NEW b \in Bundles
  PROVE  [SigningOf(b)!Next]_(SigningOf(b)!vars)
<1>a. /\ \A c \in Bundles : Info(c) # Exe(b) /\ Res(c) # Exe(b) /\ ExeLeft(c) # Exe(b)
      /\ \A c \in Bundles : c # b => Exe(c) # Exe(b)
      /\ \A d \in Dylibs : Lib(d) # Exe(b) /\ LibLeft(d) # Exe(b)
      /\ \A r \in Resources : Data(r) # Exe(b)
      /\ Prov # Exe(b)
  BY NotThisExe
\* A step outside of the signing of an executable.
<1>b. ASSUME pc # "sign", pc' # "sign", runs' = runs, Seen(b)' = Seen(b),
             \/ done' = done /\ (pc # "idle")' = (pc # "idle")
             \/ pc' = "idle" /\ done' = {}
      PROVE  [SigningOf(b)!Next]_(SigningOf(b)!vars)
  <2>1. CASE done' = done /\ (pc # "idle")' = (pc # "idle")
    BY <1>b, <2>1, Elsewhere
  <2>2. CASE pc' = "idle" /\ done' = {}
    BY <1>b, <2>2, Elsewhere
  <2> QED BY <1>b, <2>1, <2>2
\* A step within the signing of another one.
<1>c. ASSUME at # b, at' = at \/ pc' # "sign", runs' = runs, Seen(b)' = Seen(b),
             \/ (done' = done \/ done' = done \cup {at}) /\ (pc # "idle")' = (pc # "idle")
             \/ pc' = "idle" /\ done' = {}
      PROVE  [SigningOf(b)!Next]_(SigningOf(b)!vars)
  <2>1. CASE (done' = done \/ done' = done \cup {at}) /\ (pc # "idle")' = (pc # "idle")
    <3>1. (b \in done)' = (b \in done)
      BY <1>c, <2>1
    <3> QED BY <1>c, <2>1, <3>1, Elsewhere
  <2>2. CASE pc' = "idle" /\ done' = {}
    BY <1>c, <2>2, Elsewhere
  <2> QED BY <1>c, <2>1, <2>2
<1>d. DiskOK /\ at \in Bundles /\ pc \in Steps
  BY DEF TypeOK
<1>1. ASSUME NEW o \in Options, Start(o) PROVE SigningOf(b)!Begin
  <2>1. /\ pc = "idle" /\ pc' \notin {"idle", "sign"} /\ runs \in Nat /\ runs' = runs + 1
        /\ done = {} /\ done' = {} /\ disk' = disk
    BY <1>1, OptionsAssumption DEF Start, TypeOK, WalkOrder, Walking
  <2>2. Seen(b)' = Seen(b)
    BY <2>1, SameSeen
  <2>3. PhaseOf(b) = "idle" /\ PhaseOf(b)' = "idle"
    BY <2>1 DEF PhaseOf
  <2>4. runs' \in Nat /\ runs' >= runs
    BY <2>1
  <2> QED BY <2>1, <2>2, <2>3, <2>4 DEF SigningOf!Begin, Seen, PhaseOf
<1>2. ASSUME NEW c \in Bundles, RewritePlugIn(c) PROVE [SigningOf(b)!Next]_(SigningOf(b)!vars)
  <2>1. disk' = disk \/ \E x : disk' = Write(Info(c), x)
    BY <1>2 DEF RewritePlugIn, Rewritings
  <2>2. Seen(b)' = Seen(b)
    BY <1>a, <2>1, OtherFile
  <2> QED BY <1>b, <1>2, <2>2 DEF RewritePlugIn
<1>3. ASSUME NEW c \in Bundles, EnterNode(c) PROVE [SigningOf(b)!Next]_(SigningOf(b)!vars)
  BY <1>b, <1>3, SameSeen DEF EnterNode
<1>4. ASSUME NEW r \in Strings, RewriteStrings(r)
      PROVE  [SigningOf(b)!Next]_(SigningOf(b)!vars)
  <2>1. disk' = disk \/ \E x : disk' = Write(Data(r), x)
    BY <1>4 DEF RewriteStrings
  <2>2. Seen(b)' = Seen(b)
    BY <1>a, <2>1, OtherFile, FilesAssumption
  <2> QED BY <1>b, <1>4, <2>2 DEF RewriteStrings
<1>5. ASSUME NEW d \in Dylibs, CopyDyLib(d) \/ SignDyLib(d) \/ DamageDyLib(d)
      PROVE  [SigningOf(b)!Next]_(SigningOf(b)!vars)
  <2>1. CASE CopyDyLib(d)
    <3>1. disk' = disk \/ \E c : disk' = Write(Lib(d), c)
      BY <2>1 DEF CopyDyLib
    <3>2. Seen(b)' = Seen(b)
      BY <1>a, <3>1, OtherFile
    <3> QED BY <1>b, <2>1, <3>2 DEF CopyDyLib
  <2>2. ASSUME OnlyIn({Lib(d), LibLeft(d)}) PROVE Seen(b)' = Seen(b)
    BY <1>a, <2>2, Untouched
  <2>3. ASSUME Present(Lib(d))
        PROVE  IsMachO(disk[Lib(d)]) /\ Beside(Lib(d), LibLeft(d))
    BY <1>d, <2>3, FileNames, LeftNames DEF DiskOK, Present
  <2>4. CASE SignDyLib(d)
    <3>1. PICK grow \in Grows(disk[Lib(d)]) :
            disk' = Exchange(Lib(d), Sign(disk[Lib(d)], Missing, Missing, force, grow),
                             Cleared(grow, LibLeft(d)))
      BY <2>4 DEF SignDyLib
    <3>2. IsMachO(disk[Lib(d)]) /\ Beside(Lib(d), LibLeft(d))
      BY <2>3, <2>4 DEF SignDyLib
    <3>3. IsMachO(Sign(disk[Lib(d)], Missing, Missing, force, grow)) /\ grow \in BOOLEAN
      BY <3>2, SignedFile DEF Grows
    <3>4. OnlyIn({Lib(d), LibLeft(d)})
      BY <1>d, <3>1, <3>2, <3>3, SignChanges
    <3> QED BY <1>b, <2>2, <2>4, <3>4 DEF SignDyLib
  <2>5. CASE DamageDyLib(d)
    <3>1. OnlyIn({Lib(d), LibLeft(d)})
      BY <1>d, <2>3, <2>5, HalfChanges DEF DamageDyLib
    <3>2. pc # "sign" /\ pc' = "idle" /\ done' = {} /\ runs' = runs
      BY <2>5 DEF DamageDyLib, ProcessEnds
    <3> QED BY <1>b, <2>2, <3>1, <3>2
  <2> QED BY <1>5, <2>1, <2>4, <2>5
<1>6. ASSUME RewriteInfo \/ StringsDone \/ RemoveProvision \/ WriteProvision \/ LoadTree
      PROVE  [SigningOf(b)!Next]_(SigningOf(b)!vars)
  <2>1. \/ disk' = disk
        \/ disk' = Remove(Prov)
        \/ \E f \in {Info(Root), Prov} : \E c : disk' = Write(f, c)
    BY <1>6 DEF RewriteInfo, Rewritings, StringsDone, RemoveProvision, WriteProvision, LoadTree
  <2>2. Prov \in Files /\ Prov[1] # "info"
    BY FileNames
  <2>3. Seen(b)' = Seen(b)
    BY <1>a, <1>d, <2>1, <2>2, OtherFile, RemovedFile, BundlesAssumption
  <2>4. pc \notin {"idle", "sign"} /\ pc' \notin {"idle", "sign"} /\ done' = done /\ runs' = runs
    BY <1>6 DEF RewriteInfo, StringsDone, RemoveProvision, WriteProvision, LoadTree
  <2> QED BY <1>b, <2>3, <2>4
<1>7. ASSUME RejectInfo \/ RejectNode \/ SaveCache \/ LoseCache
      PROVE  [SigningOf(b)!Next]_(SigningOf(b)!vars)
  <2>1. pc # "sign" /\ pc' = "idle" /\ runs' = runs /\ disk' = disk /\ done' = {}
    BY <1>7 DEF RejectInfo, RejectNode, SaveCache, LoseCache, ProcessEnds
  <2> QED BY <1>b, <2>1, SameSeen
<1>8. ASSUME WriteCodeResources PROVE [SigningOf(b)!Next]_(SigningOf(b)!vars)
  <2>1. /\ pc = "files" /\ pc' = "sign" /\ at \in Bundles /\ runs' = runs
        /\ UNCHANGED <<at, done>> /\ at \notin done /\ Present(Exe(at))
        /\ \E c : disk' = Write(Res(at), c)
        /\ hashAll' \in BOOLEAN /\ runs \in Nat
    BY <1>8, OptionsAssumption DEF WriteCodeResources, CanSeal, TypeOK, WalkOrder
  <2>2. Seen(b)' = Seen(b)
    BY <1>a, <2>1, OtherFile
  <2>3. CASE at # b
    BY <1>c, <2>1, <2>2, <2>3
  <2>4. CASE at = b
    <3>1. PhaseOf(b) = "idle" /\ PhaseOf(b)' \in {"sign", "edit"}
      BY <2>1, <2>4 DEF PhaseOf
    <3>2. Seen(b) # << >>
      BY <2>1, <2>4, SeenFile
    <3>3. SigningOf(b)!Open
      BY <2>1, <2>2, <2>4, <3>1, <3>2
      DEF SigningOf!Open, SigningOf!Opens, SigningOf!NoFile, Seen, PhaseOf
    <3> QED BY <3>3 DEF SigningOf!Next
  <2> QED BY <2>3, <2>4
<1>9. ASSUME TearCodeResources \/ TearInfo PROVE [SigningOf(b)!Next]_(SigningOf(b)!vars)
  <2>1. \/ \E c : disk' = Write(Res(at), c)
        \/ \E i \in Bundles : disk' = Write(Info(i), Cut)
    <3>1. CASE TearCodeResources
      BY <3>1 DEF TearCodeResources
    <3>2. CASE TearInfo
      <4>1. pc = "plugins" /\ todo \subseteq PlugIns
        BY <3>2 DEF TearInfo, TypeOK, Pending
      <4>2. (IF todo = {} THEN {Root} ELSE todo) \subseteq Bundles
        BY <4>1, BundlesAssumption, FilesAssumption
      <4> QED BY <3>2, <4>2 DEF TearInfo
    <3> QED BY <1>9, <3>1, <3>2
  <2>2. Seen(b)' = Seen(b)
    BY <1>a, <1>d, <2>1, OtherFile
  <2>3. pc # "sign" /\ pc' = "idle" /\ runs' = runs /\ done' = {}
    BY <1>9 DEF TearCodeResources, TearInfo, CanSeal, ProcessEnds
  <2> QED BY <1>b, <2>2, <2>3
<1>10. ASSUME NEW d \in Dylibs, InjectDyLib(d) PROVE [SigningOf(b)!Next]_(SigningOf(b)!vars)
  <2>1. /\ pc = "sign" /\ pc' = "sign" /\ d \in todo /\ at \in Bundles /\ Present(Exe(at))
        /\ UNCHANGED <<at, done, runs>> /\ at \notin done /\ hashAll \in BOOLEAN
        /\ hashAll' \in BOOLEAN
    BY <1>10 DEF InjectDyLib, TypeOK, WalkOrder
  <2>2. CASE at # b
    <3>1. Seen(b)' = Seen(b)
      BY <1>a, <1>10, <2>1, <2>2, OtherFile DEF InjectDyLib
    <3> QED BY <1>c, <2>1, <2>2, <3>1
  <2>3. CASE at = b
    <3>1. PhaseOf(b) = "edit" /\ PhaseOf(b)' \in {"sign", "edit"}
      BY <2>1, <2>3 DEF PhaseOf
    <3>2. SigningOf(b)!Edited(Seen(b)')
      <4>1. CASE disk' = Write(Exe(b), [disk[Exe(b)] EXCEPT !.cmds[d] = LoadKind(opt.weak)])
        <5> DEFINE x == [disk[Exe(b)] EXCEPT !.cmds[d] = LoadKind(opt.weak)]
        <5>1. IsMachO(disk[Exe(b)])
          BY <2>1, <2>3, FileNames DEF TypeOK, DiskOK, Present
        <5>2. x.sig = disk[Exe(b)].sig
          BY <5>1 DEF IsMachO
        <5> HIDE DEF x
        <5>3. disk' = Write(Exe(b), x)
          BY <4>1 DEF x
        <5>4. Exe(b) \in DOMAIN disk' /\ disk'[Exe(b)] = x
          BY <5>3, WriteChanges DEF Present
        <5> QED BY <2>1, <2>3, <5>2, <5>4, PagesEdited
      <4>2. CASE disk' = disk
        <5>1. Seen(b)' = Seen(b)
          BY <4>2, SameSeen
        <5>2. Seen(b) # << >>
          BY <2>1, <2>3, SeenFile
        <5> QED BY <5>1, <5>2 DEF SigningOf!Edited, SigningOf!NoFile, Seen
      <4> QED BY <1>10, <2>3, <4>1, <4>2 DEF InjectDyLib
    <3>3. SigningOf(b)!Inject
      BY <2>1, <2>3, <3>1, <3>2 DEF SigningOf!Inject, Seen, PhaseOf
    <3> QED BY <3>3 DEF SigningOf!Next
  <2> QED BY <2>2, <2>3
<1>11. ASSUME SignExe PROVE [SigningOf(b)!Next]_(SigningOf(b)!vars)
  <2>1. CASE at = b
    BY <1>11, <2>1, SignExeSeen DEF SigningOf!Next
  <2>2. CASE at # b
    <3>1. /\ pc = "sign" /\ pc' \notin {"idle", "sign"} /\ runs' = runs /\ done' = done \cup {at}
          /\ Present(Exe(at))
      BY <1>11 DEF SignExe, TypeOK
    <3> DEFINE signed(grow) == Sign(disk[Exe(at)], tree.info[at], disk[Res(at)], hashAll, grow)
    <3>2. PICK grow \in Grows(disk[Exe(at)]) :
            disk' = Exchange(Exe(at), signed(grow), Cleared(grow, ExeLeft(at)))
      BY <1>11 DEF SignExe
    <3>3. IsMachO(signed(grow)) /\ grow \in BOOLEAN
      <4>1. IsMachO(disk[Exe(at)])
        BY <1>d, <3>1, FileNames DEF DiskOK, Present
      <4> QED BY <4>1, SignedFile DEF Grows
    <3> HIDE DEF signed
    <3>4. OnlyIn({Exe(at), ExeLeft(at)})
      <4>1. Beside(Exe(at), ExeLeft(at))
        BY <1>d, LeftNames
      <4> QED BY <1>d, <3>2, <3>3, <4>1, SignChanges
    <3>5. Seen(b)' = Seen(b)
      BY <1>a, <1>d, <2>2, <3>4, Untouched
    <3> QED BY <1>c, <2>2, <3>1, <3>5
  <2> QED BY <2>1, <2>2
<1>12. ASSUME DamageExe PROVE [SigningOf(b)!Next]_(SigningOf(b)!vars)
  <2>1. /\ pc = "sign" /\ todo = {} /\ Present(Exe(at)) /\ ProcessEnds("failed")
        /\ disk' \in HalfReallocated(Exe(at), ExeLeft(at))
    BY <1>12 DEF DamageExe, TypeOK
  <2>2. /\ OnlyIn({Exe(at), ExeLeft(at)})
        /\ Exe(at) \in DOMAIN disk' => disk'[Exe(at)] \in {disk[Exe(at)], Resized(disk[Exe(at)])}
    <3>1. Beside(Exe(at), ExeLeft(at))
      BY <1>d, LeftNames
    <3> QED BY <1>d, <2>1, <3>1, HalfChanges DEF Present
  <2>3. CASE at # b
    <3>1. Seen(b)' = Seen(b)
      BY <1>a, <1>d, <2>2, <2>3, Untouched
    <3> QED BY <1>c, <2>1, <2>3, <3>1 DEF ProcessEnds
  <2>4. CASE at = b /\ Exe(b) \notin DOMAIN disk'
    <3>1. Seen(b)' = << >>
      BY <2>4 DEF Seen, Present
    <3> QED BY <2>1, <2>4, <3>1, StopSeen
  <2>5. CASE at = b /\ Exe(b) \in DOMAIN disk'
    <3>1. IsMachO(disk[Exe(b)])
      BY <1>d, <2>1, <2>5, FileNames DEF DiskOK, Present
    <3>2. disk'[Exe(b)].sig = disk[Exe(b)].sig
      BY <2>2, <2>5, <3>1, ResizedFile
    <3>3. SigningOf(b)!Edited(Seen(b)')
      BY <2>1, <2>5, <3>2, PagesEdited
    <3> QED BY <2>1, <2>5, <3>3, StopSeen
  <2> QED BY <2>3, <2>4, <2>5
<1>13. ASSUME Crash PROVE [SigningOf(b)!Next]_(SigningOf(b)!vars)
  <2>1. /\ ProcessEnds("failed") /\ Seen(b)' = Seen(b)
        /\ pc' = "idle" /\ done' = {} /\ runs' = runs
    BY <1>13, SameSeen DEF Crash, ProcessEnds
  <2>2. CASE pc = "sign" /\ at = b
    BY <2>1, <2>2, StopSeen
  <2>3. CASE pc # "sign"
    BY <1>b, <2>1, <2>3
  <2>4. CASE at # b
    BY <1>c, <2>1, <2>4
  <2> QED BY <2>2, <2>3, <2>4
<1>14. ASSUME Edit PROVE [SigningOf(b)!Next]_(SigningOf(b)!vars)
  <2>1. \/ \E f \in {Data(r) : r \in Resources} \cup {Info(c) : c \in Bundles} :
             \E x : disk' = Write(f, x)
        \/ \E d \in Dylibs : disk' = Remove(Lib(d))
    BY <1>14 DEF Edit
  <2>2. ASSUME NEW f \in {Data(r) : r \in Resources} \cup {Info(c) : c \in Bundles},
               \E x : disk' = Write(f, x)
        PROVE  Seen(b)' = Seen(b)
    BY <1>a, <2>2, OtherFile
  <2>3. ASSUME NEW d \in Dylibs, disk' = Remove(Lib(d)) PROVE Seen(b)' = Seen(b)
    <3>1. Lib(d) \in Files /\ Lib(d)[1] # "info" /\ Lib(d) # Exe(b)
      BY <1>a, FileNames
    <3> QED BY <1>d, <2>3, <3>1, RemovedFile
  <2>4. Seen(b)' = Seen(b)
    BY <2>1, <2>2, <2>3
  <2> QED BY <1>b, <1>14, <2>4 DEF Edit
<1>15. ASSUME UNCHANGED vars PROVE [SigningOf(b)!Next]_(SigningOf(b)!vars)
  <2>1. UNCHANGED <<pc, at, todo, runs, done, hashAll>> /\ Seen(b)' = Seen(b)
    BY <1>15, SameSeen DEF vars
  <2> QED BY <2>1 DEF SigningOf!vars, Seen, PhaseOf
<1> QED BY <1>1, <1>2, <1>3, <1>4, <1>5, <1>6, <1>7, <1>8, <1>9, <1>10, <1>11, <1>12, <1>13,
           <1>14, <1>15 DEF Next, Step, Fault, SigningOf!Next

\* At first nothing is signed and nothing is being signed.
LEMMA ExeInit == Init => \A b \in Bundles : SigningOf(b)!Init
  BY DEF Init, SigningOf!Init, SigningOf!NoFile

\* For every tree of bundles, every fault and every number of runs, each executable is one
\* of Executable's files: from the beginning of a run to its end only an injection and a
\* signing touch it, once, both between the writing of its bundle's CodeResources and its
\* bundle's being done; code slots are kept or made of the pages as they are; a run that gives
\* up leaves it as it was signed before, with other sizes, or away; and what counts as done
\* carries this run's signature (bundle.cpp:375-387).
THEOREM ExecutablesKept == Spec => KeepsExecutables
<1>1. Init => TypeOK /\ WalkOrder
  BY InitTyped DEF Init, WalkOrder, Walking
<1>2. TypeOK /\ WalkOrder /\ [Next]_vars => (TypeOK /\ WalkOrder)'
  BY NextTyped, WalkOrderKept
<1>3. TypeOK /\ WalkOrder /\ [Next]_vars =>
        [\A b \in Bundles : [SigningOf(b)!Next]_(SigningOf(b)!vars)]_vars
  BY ExeStep
<1> QED BY <1>1, <1>2, <1>3, ExeInit, PTL DEF Spec, KeepsExecutables
===============================================================================
