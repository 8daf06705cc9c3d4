--------------------------- MODULE BundleSignProofs ---------------------------
(***************************************************************************)
(* BundleSign for every tree of bundles, every set of files and command    *)
(* lines, and every number of runs: the type invariant; that a success,    *)
(* full or from the cache, leaves a valid application signed by this run;  *)
(* and that what is finished stays so.                                     *)
(***************************************************************************)
EXTENDS BundleSign, TLAPS

(***************************************************************************)
(* Files and the disk.                                                     *)
(***************************************************************************)

\* The names of files are file names, and each says its kind and its owner.
LEMMA FileNames ==
  /\ \A b \in Bundles : /\ {Info(b), Exe(b), Res(b), ExeLeft(b)} \subseteq Files
                        /\ Info(b)[1] = "info" /\ Info(b)[2] = b
                        /\ Exe(b)[1] = "exe" /\ Exe(b)[2] = b
                        /\ Res(b)[1] = "res" /\ Res(b)[2] = b
                        /\ ExeLeft(b)[1] = "exeleft" /\ ExeLeft(b)[2] = b
  /\ \A d \in Dylibs : /\ {Lib(d), LibLeft(d)} \subseteq Files
                       /\ Lib(d)[1] = "lib" /\ Lib(d)[2] = d
                       /\ LibLeft(d)[1] = "libleft" /\ LibLeft(d)[2] = d
  /\ \A r \in Resources : Data(r) \in Files /\ Data(r)[1] = "data" /\ Data(r)[2] = r
  /\ Prov \in Files /\ Prov[1] = "prov" /\ Prov[2] = Root
  BY DEF Files, Info, Exe, Res, Lib, Data, Prov, ExeLeft, LibLeft

\* The step writes or removes files of G at most.
OnlyIn(G) ==
  /\ disk' = [g \in DOMAIN disk' |-> disk'[g]]
  /\ DOMAIN disk' \subseteq DOMAIN disk \cup G
  /\ \A g \in DOMAIN disk \ G : g \in DOMAIN disk' /\ disk'[g] = disk[g]

\* So the disk stays one if these have contents of their kinds.
LEMMA DiskKept ==
  ASSUME DiskOK, NEW G \in SUBSET Files, OnlyIn(G),
         \A g \in G \cap DOMAIN disk' : g[1] \in {"exe", "lib"} => IsMachO(disk'[g]),
         \A g \in G : g[1] = "info" => g \in DOMAIN disk' /\ disk'[g] \in Idents \cup {Cut}
  PROVE  DiskOK'
<1>1. DOMAIN disk' \subseteq Files /\ disk' = [g \in DOMAIN disk' |-> disk'[g]]
  BY DEF DiskOK, OnlyIn
<1>2. \A g \in DOMAIN disk' : g[1] \in {"exe", "lib"} => IsMachO(disk'[g])
  <2> TAKE g \in DOMAIN disk'
  <2>1. CASE g \in G
    BY <2>1
  <2>2. CASE g \notin G
    <3>1. g \in DOMAIN disk /\ disk'[g] = disk[g]
      BY <2>2 DEF OnlyIn
    <3> QED BY <3>1 DEF DiskOK
  <2> QED BY <2>1, <2>2
<1>3. \A b \in Bundles : Info(b) \in DOMAIN disk' /\ disk'[Info(b)] \in Idents \cup {Cut}
  <2> TAKE b \in Bundles
  <2>1. Info(b)[1] = "info" /\ Info(b) \in DOMAIN disk /\ disk[Info(b)] \in Idents \cup {Cut}
    BY FileNames DEF DiskOK, Present
  <2> QED BY <2>1 DEF OnlyIn
<1> QED BY <1>1, <1>2, <1>3 DEF DiskOK, Present, IsMachO

\* A step that writes a file and removes others.
LEMMA ExchangeFile ==
  ASSUME NEW f, NEW c, NEW gone, f \notin gone, disk' = Exchange(f, c, gone)
  PROVE  /\ OnlyIn({f} \cup gone)
         /\ DOMAIN disk' = (DOMAIN disk \cup {f}) \ gone
         /\ Present(f)' /\ disk'[f] = c
<1>1. DOMAIN disk' = (DOMAIN disk \cup {f}) \ gone
  BY DEF Exchange
<1>2. disk' = [g \in DOMAIN disk' |-> disk'[g]]
  BY <1>1 DEF Exchange
<1>3. f \in DOMAIN disk' /\ disk'[f] = c
  BY <1>1 DEF Exchange
<1>4. \A g \in DOMAIN disk \ ({f} \cup gone) : g \in DOMAIN disk' /\ disk'[g] = disk[g]
  BY <1>1 DEF Exchange
<1> QED BY <1>1, <1>2, <1>3, <1>4 DEF OnlyIn, Present

\* A step that writes one file, with a content of the file's kind, keeps the disk a disk,
\* and changes that file only.
LEMMA WriteFile ==
  ASSUME DiskOK, NEW f \in Files, NEW c, disk' = Write(f, c),
         f[1] \in {"exe", "lib"} => IsMachO(c),
         f[1] = "info" => c \in Idents \cup {Cut}
  PROVE  DiskOK'
<1>1. OnlyIn({f}) /\ f \in DOMAIN disk' /\ disk'[f] = c
  <2>1. OnlyIn({f} \cup {}) /\ Present(f)' /\ disk'[f] = c
    BY ExchangeFile DEF Write
  <2> QED BY <2>1 DEF Present
<1>2. {f} \in SUBSET Files
  OBVIOUS
<1> QED BY <1>1, <1>2, DiskKept

LEMMA WriteChanges ==
  ASSUME NEW f, NEW c, disk' = Write(f, c)
  PROVE  OnlyIn({f}) /\ Present(f)' /\ disk'[f] = c
<1>1. OnlyIn({f} \cup {}) /\ Present(f)' /\ disk'[f] = c
  BY ExchangeFile DEF Write
<1> QED BY <1>1

\* The same for a step that removes a file which is no Info.plist.
LEMMA RemoveFile ==
  ASSUME DiskOK, NEW f \in Files, disk' = Remove(f), f[1] # "info"
  PROVE  DiskOK' /\ OnlyIn({f}) /\ ~Present(f)'
<1>1. DOMAIN disk' = DOMAIN disk \ {f} /\ \A g \in DOMAIN disk' : disk'[g] = disk[g]
  BY DEF Remove
<1>2. disk' = [g \in DOMAIN disk' |-> disk'[g]]
  BY DEF Remove
<1>3. OnlyIn({f}) /\ ~Present(f)'
  BY <1>1, <1>2 DEF OnlyIn, Present
<1>4. {f} \in SUBSET Files /\ {f} \cap DOMAIN disk' = {}
  BY <1>1
<1> QED BY <1>3, <1>4, DiskKept

LEMMA SameDisk == ASSUME DiskOK, disk' = disk PROVE DiskOK' /\ OnlyIn({})
  BY DEF DiskOK, Present, IsMachO, OnlyIn

\* A binary, and what a reallocation leaves beside it.
Beside(f, left) ==
  /\ f \in Files /\ left \in Files
  /\ f[1] \in {"exe", "lib"} /\ left[1] \in {"exeleft", "libleft"}
LEMMA LeftNames ==
  /\ \A b \in Bundles : Beside(Exe(b), ExeLeft(b))
  /\ \A d \in Dylibs : Beside(Lib(d), LibLeft(d))
  BY FileNames DEF Beside

\* An unsigned Mach-O file is one, and so is one with a load command more, or with an
\* edited first page.
LEMMA UnsignedFile == IsMachO(Unsigned)
  BY DEF IsMachO, Unsigned, NoCmds

LEMMA InjectedFile ==
  ASSUME NEW x, IsMachO(x), NEW d \in Injectable, NEW weak
  PROVE  IsMachO([x EXCEPT !.cmds[d] = LoadKind(weak)])
  BY DEF IsMachO, LoadKind

LEMMA ResizedFile ==
  ASSUME NEW x, IsMachO(x)
  PROVE  IsMachO(Resized(x)) /\ Resized(x).sig = x.sig
  BY DEF IsMachO, Resized

\* Signing a Mach-O file gives one that holds what it was signed over and, if the code
\* slots are made anew, the hashes of its pages.
LEMMA SignedFile ==
  ASSUME NEW x, IsMachO(x), NEW inf, NEW seal, NEW rehash, NEW grow,
         NEW new, new = Sign(x, inf, seal, rehash, grow)
  PROVE  /\ IsMachO(new)
         /\ new.sig.info = inf
         /\ new.sig.res = seal
         /\ new.sig.asset = opt.asset /\ new.sig.run = runs
         /\ new.sig.slots = IF RehashesPages(x, rehash) THEN Pages(new) ELSE x.sig.slots
<1> DEFINE room  == IF grow THEN TRUE ELSE x.room
           edits == IF grow THEN x.edits + 1 ELSE x.edits
           slots == IF RehashesPages(x, rehash) THEN <<x.cmds, edits>> ELSE x.sig.slots
           sig   == [info |-> inf, res |-> seal, asset |-> opt.asset, run |-> runs,
                     slots |-> slots]
<1>1. new = [cmds |-> x.cmds, room |-> room, edits |-> edits, sig |-> sig]
  BY DEF IsMachO, Sign, Pages, Resized
<1>2. room \in BOOLEAN /\ edits \in Nat
  <2>1. x.room \in BOOLEAN /\ x.edits \in Nat
    BY DEF IsMachO
  <2>2. edits \in Nat
    BY <2>1
  <2> QED BY <2>1, <2>2
<1>3. IsMachO(new)
  <2> HIDE DEF room, edits, sig
  <2> QED BY <1>1, <1>2 DEF IsMachO
<1> QED BY <1>1, <1>3 DEF Pages

\* A binary is signed: with a reallocation, what an earlier one has left beside it goes.
LEMMA SignChanges ==
  ASSUME DiskOK, NEW f, NEW left, Beside(f, left), NEW c, IsMachO(c), NEW grow \in BOOLEAN,
         disk' = Exchange(f, c, Cleared(grow, left))
  PROVE  /\ DiskOK' /\ OnlyIn({f, left}) /\ Present(f)' /\ disk'[f] = c
         /\ Present(left)' <=> Present(left) /\ ~grow
         /\ ~(grow /\ Present(left)) => OnlyIn({f})
<1> DEFINE gone == Cleared(grow, left)
<1>1. gone \subseteq {left} /\ f # left /\ f \notin gone
  BY DEF Cleared, Beside
<1>2. /\ OnlyIn({f} \cup gone) /\ DOMAIN disk' = (DOMAIN disk \cup {f}) \ gone
      /\ Present(f)' /\ disk'[f] = c
  BY <1>1, ExchangeFile
<1>3. Present(left)' <=> Present(left) /\ ~grow
  BY <1>1, <1>2 DEF Cleared, Present
<1>4. OnlyIn({f, left})
  BY <1>1, <1>2 DEF OnlyIn
<1>5. ~(grow /\ Present(left)) => OnlyIn({f})
  BY <1>1, <1>2 DEF OnlyIn, Cleared, Present
<1>6. DiskOK'
  <2>1. {f, left} \in SUBSET Files
    BY DEF Beside
  <2>2. \A g \in {f, left} : /\ g[1] # "info"
                             /\ g[1] \in {"exe", "lib"} => g = f
    BY DEF Beside
  <2> QED BY <1>2, <1>4, <2>1, <2>2, DiskKept
<1> QED BY <1>2, <1>3, <1>4, <1>5, <1>6

\* A reallocation that does not get through.
LEMMA HalfChanges ==
  ASSUME DiskOK, NEW f, NEW left, Beside(f, left), Present(f),
         disk' \in HalfReallocated(f, left)
  PROVE  /\ DiskOK' /\ OnlyIn({f, left})
         /\ Present(f)' => disk'[f] \in {disk[f], Resized(disk[f])}
<1>1. f # left /\ {f, left} \in SUBSET Files /\ IsMachO(disk[f])
  BY DEF Beside, DiskOK, Present
<1>2. CASE disk' = Remove(left)
  <2>1. OnlyIn({left})
    BY <1>1, <1>2, RemoveFile DEF Beside
  <2> QED BY <1>1, <2>1, RemoveFile, <1>2 DEF Beside, OnlyIn, Present
<1>a. ASSUME OnlyIn({f, left}), Present(f)' => disk'[f] = Resized(disk[f])
      PROVE  DiskOK'
  <2>1. \A g \in {f, left} \cap DOMAIN disk' : g[1] \in {"exe", "lib"} => IsMachO(disk'[g])
    BY <1>1, <1>a, ResizedFile DEF Beside, Present
  <2>2. \A g \in {f, left} : g[1] # "info"
    BY DEF Beside
  <2> QED BY <1>1, <1>a, <2>1, <2>2, DiskKept
<1>3. CASE disk' = Exchange(f, Resized(disk[f]), {left})
  <2>1. OnlyIn({f} \cup {left}) /\ disk'[f] = Resized(disk[f])
    BY <1>1, <1>3, ExchangeFile
  <2>2. {f} \cup {left} = {f, left}
    OBVIOUS
  <2> QED BY <1>a, <2>1, <2>2
<1>4. CASE disk' = [Exchange(left, runs, {}) EXCEPT ![f] = Resized(disk[f])]
  <2> DEFINE mid == Exchange(left, runs, {})
  <2>1. DOMAIN mid = DOMAIN disk \cup {left} /\ \A g \in DOMAIN disk \ {left} : mid[g] = disk[g]
    BY DEF Exchange
  <2> HIDE DEF mid
  <2>2. disk' = [mid EXCEPT ![f] = Resized(disk[f])]
    BY <1>4 DEF mid
  <2>3. /\ DOMAIN disk' = DOMAIN disk \cup {left} /\ disk'[f] = Resized(disk[f])
        /\ \A g \in DOMAIN disk \ {f, left} : disk'[g] = disk[g]
        /\ disk' = [g \in DOMAIN disk' |-> disk'[g]]
    BY <2>1, <2>2 DEF Present
  <2>4. OnlyIn({f, left})
    BY <2>3 DEF OnlyIn
  <2> QED BY <1>a, <2>3, <2>4
<1>5. CASE disk' = Exchange(left, runs, {f})
  <2>1. OnlyIn({left} \cup {f}) /\ DOMAIN disk' = (DOMAIN disk \cup {left}) \ {f}
    BY <1>1, <1>5, ExchangeFile
  <2>2. {left} \cup {f} = {f, left} /\ ~Present(f)'
    BY <2>1 DEF Present
  <2> QED BY <1>a, <2>1, <2>2
<1> QED BY <1>2, <1>3, <1>4, <1>5 DEF HalfReallocated

\* An Info.plist is rewritten, or not, or cut off.
LEMMA RewriteChanges ==
  ASSUME DiskOK, opt.ident \in Idents, NEW b \in Bundles,
         disk' \in Rewritings(b) \/ disk' = Write(Info(b), Cut)
  PROVE  DiskOK' /\ OnlyIn({Info(b)})
<1>1. disk' = disk \/ \E c \in Idents \cup {Cut} : disk' = Write(Info(b), c)
  BY DEF Rewritings
<1>2. CASE disk' = disk
  BY <1>2, SameDisk DEF OnlyIn
<1>3. ASSUME NEW c \in Idents \cup {Cut}, disk' = Write(Info(b), c)
      PROVE  DiskOK' /\ OnlyIn({Info(b)})
  BY <1>3, FileNames, WriteFile, WriteChanges
<1> QED BY <1>1, <1>2, <1>3

(***************************************************************************)
(* Types.                                                                  *)
(***************************************************************************)

\* A process that ends leaves nothing of its memory behind.
LEMMA ProcessEndsTyped ==
  ASSUME TypeOK, NEW outcome \in {"failed", "cached", "full"}, ProcessEnds(outcome),
         DiskOK', cache' \in Trees \cup {Missing}, tainted' \in BOOLEAN
  PROVE  TypeOK'
<1>1. NoTree \in Trees
  BY DEF NoTree, Trees
<1>2. at' \in Bundles
  BY BundlesAssumption DEF ProcessEnds
<1> QED BY <1>1, <1>2 DEF TypeOK, ProcessEnds, Steps, Pending

\* What the folder holds is described by a tree.
LEMMA BuildTreeTyped == ASSUME DiskOK PROVE BuildTree \in Trees
<1>1. \A b \in Bundles : (IF b \in Signable THEN disk[Info(b)] ELSE Cut) \in Idents \cup {Cut, Missing}
  BY DEF DiskOK
<1> QED BY <1>1 DEF BuildTree, Trees

\* The initial folder is well formed.
LEMMA InitTyped == Init => TypeOK
<1> SUFFICES ASSUME Init PROVE TypeOK
  OBVIOUS
<1>1. \A f \in DOMAIN disk : f[1] \in {"exe", "lib"} => IsMachO(disk[f])
  BY UnsignedFile DEF Init, InitialFiles, InitialContent
<1>2. ASSUME NEW b \in Bundles
      PROVE  Present(Info(b)) /\ disk[Info(b)] \in Idents \cup {Cut}
  <2>1. Info(b) \in InitialFiles
    BY FileNames DEF InitialFiles
  <2>2. InitialContent(Info(b)) = Original
    BY FileNames DEF InitialContent
  <2> QED BY <2>1, <2>2, OptionsAssumption DEF Init, Present
<1>3. DiskOK
  <2>1. disk = [f \in DOMAIN disk |-> disk[f]] /\ DOMAIN disk \subseteq Files
    BY DEF Init, InitialFiles
  <2> QED BY <1>1, <1>2, <2>1 DEF DiskOK
<1>4. tree \in Trees
  BY DEF Init, NoTree, Trees
<1>5. runs \in 0 .. MaxRuns /\ at \in Bundles
  BY BundlesAssumption, OptionsAssumption DEF Init
<1> QED BY <1>3, <1>4, <1>5 DEF Init, TypeOK, Steps, Pending

\* Every step of a run, and every fault, keeps the types.
LEMMA NextTyped == TypeOK /\ [Next]_vars => TypeOK'
<1> SUFFICES ASSUME TypeOK, [Next]_vars PROVE TypeOK'
  OBVIOUS
<1>a. DiskOK
  BY DEF TypeOK
<1>1. ASSUME NEW o \in Options, Start(o) PROVE TypeOK'
  <2>1. DiskOK'
    BY <1>1, <1>a, SameDisk DEF Start
  <2>2. runs' \in 0 .. MaxRuns
    BY <1>1, OptionsAssumption DEF Start, TypeOK
  <2>3. force' \in BOOLEAN
    BY <1>1 DEF Start
  <2>4. todo' \subseteq Pending(pc')
    BY <1>1 DEF Start, Pending
  <2> QED BY <1>1, <2>1, <2>2, <2>3, <2>4 DEF Start, TypeOK, Steps
<1>2. ASSUME NEW b \in Bundles, RewritePlugIn(b) PROVE TypeOK'
  <2>1. opt.ident \in Idents
    BY OptionsAssumption DEF TypeOK
  <2>2. DiskOK'
    BY <1>2, <1>a, <2>1, RewriteChanges DEF RewritePlugIn
  <2> QED BY <1>2, <2>2 DEF RewritePlugIn, TypeOK, Pending
<1>3. ASSUME RewriteInfo PROVE TypeOK'
  <2>1. opt.ident \in Idents
    BY OptionsAssumption DEF TypeOK
  <2>2. DiskOK'
    BY <1>3, <1>a, <2>1, RewriteChanges, BundlesAssumption DEF RewriteInfo
  <2> QED BY <1>3, <2>2 DEF RewriteInfo, TypeOK, Pending, Steps
<1>4. ASSUME NEW r \in Strings, RewriteStrings(r) PROVE TypeOK'
  <2>1. DiskOK'
    <3>1. CASE disk' = disk
      BY <3>1, <1>a, SameDisk
    <3>2. CASE disk' = Write(Data(r), opt.ident)
      BY <3>2, <1>a, FileNames, WriteFile, FilesAssumption
    <3> QED BY <1>4, <3>1, <3>2 DEF RewriteStrings
  <2> QED BY <1>4, <2>1 DEF RewriteStrings, TypeOK, Pending
<1>5. ASSUME StringsDone PROVE TypeOK'
  <2>1. DiskOK'
    BY <1>5, <1>a, SameDisk DEF StringsDone
  <2> QED BY <1>5, <2>1 DEF StringsDone, TypeOK, Pending, Steps
<1>6. ASSUME RemoveProvision PROVE TypeOK'
  <2>1. DiskOK'
    BY <1>6, <1>a, FileNames, RemoveFile DEF RemoveProvision
  <2>2. opt.inject \subseteq Injectable
    BY OptionsAssumption DEF TypeOK
  <2> QED BY <1>6, <2>1, <2>2 DEF RemoveProvision, TypeOK, Pending, Steps
<1>7. ASSUME WriteProvision PROVE TypeOK'
  <2>1. DiskOK'
    BY <1>7, <1>a, FileNames, WriteFile DEF WriteProvision
  <2>2. opt.inject \subseteq Injectable
    BY OptionsAssumption DEF TypeOK
  <2> QED BY <1>7, <2>1, <2>2 DEF WriteProvision, TypeOK, Pending, Steps
<1>8. ASSUME NEW d \in Dylibs, CopyDyLib(d) PROVE TypeOK'
  <2>1. d \in Injectable
    BY <1>8 DEF CopyDyLib, TypeOK, Pending
  <2>2. DiskOK'
    <3>1. CASE disk' = Write(Lib(d), Unsigned)
      BY <3>1, <1>a, FileNames, UnsignedFile, WriteFile
    <3>2. CASE disk' = disk
      BY <3>2, <1>a, SameDisk
    <3> QED BY <1>8, <3>1, <3>2 DEF CopyDyLib
  <2>3. paths' \subseteq Injectable /\ tainted' \in BOOLEAN
    BY <1>8, <2>1 DEF CopyDyLib, TypeOK
  <2> QED BY <1>8, <2>2, <2>3 DEF CopyDyLib, TypeOK, Pending
<1>9. ASSUME LoadTree PROVE TypeOK'
  <2>1. DiskOK'
    BY <1>9, <1>a, SameDisk DEF LoadTree
  <2>2. tree' \in Trees
    BY <1>9, <1>a, BuildTreeTyped DEF LoadTree, SignsAll, TypeOK
  <2>3. force' \in BOOLEAN
    BY <1>9 DEF LoadTree, SignsAll, TypeOK
  <2> QED BY <1>9, <2>1, <2>2, <2>3 DEF LoadTree, TypeOK, Pending, Steps
<1>10. ASSUME NEW b \in Bundles, EnterNode(b) PROVE TypeOK'
  <2>1. DiskOK'
    BY <1>10, <1>a, SameDisk DEF EnterNode
  <2>2. LooseDyLibs(b) \subseteq Dylibs
    BY DEF LooseDyLibs, TypeOK, Trees
  <2> QED BY <1>10, <2>1, <2>2 DEF EnterNode, TypeOK, Pending, Steps
<1>11. ASSUME NEW d \in Dylibs, SignDyLib(d) PROVE TypeOK'
  <2>1. PICK grow \in Grows(disk[Lib(d)]) :
          disk' = Exchange(Lib(d), Sign(disk[Lib(d)], Missing, Missing, force, grow),
                           Cleared(grow, LibLeft(d)))
    BY <1>11 DEF SignDyLib
  <2>2. IsMachO(disk[Lib(d)]) /\ grow \in BOOLEAN
    BY <1>11, <1>a, FileNames DEF SignDyLib, DiskOK, Present, Grows
  <2>3. DiskOK'
    <3>1. IsMachO(Sign(disk[Lib(d)], Missing, Missing, force, grow))
      BY <2>2, SignedFile
    <3> QED BY <2>1, <2>2, <3>1, <1>a, LeftNames, SignChanges
  <2>4. tainted' \in BOOLEAN
    BY <1>11 DEF SignDyLib, TypeOK
  <2> QED BY <1>11, <2>3, <2>4 DEF SignDyLib, TypeOK, Pending
<1>12. ASSUME RejectNode PROVE TypeOK'
  <2>1. DiskOK'
    BY <1>12, <1>a, SameDisk DEF RejectNode
  <2> QED BY <1>12, <2>1, ProcessEndsTyped DEF RejectNode, TypeOK
<1>13. ASSUME WriteCodeResources PROVE TypeOK'
  <2>1. at \in Bundles
    BY DEF TypeOK
  <2>2. DiskOK'
    BY <1>13, <1>a, <2>1, FileNames, WriteFile DEF WriteCodeResources
  <2>3. at' = at /\ Present(Exe(at))'
    <3>1. at' = at /\ Present(Exe(at)) /\ disk' = Write(Res(at), CodeResources(at))
      BY <1>13 DEF WriteCodeResources, CanSeal
    <3>2. OnlyIn({Res(at)}) /\ Exe(at) # Res(at)
      BY <2>1, <3>1, FileNames, WriteChanges
    <3> QED BY <3>1, <3>2 DEF Present, OnlyIn
  <2> QED BY <1>13, <2>2, <2>3 DEF WriteCodeResources, TypeOK, Pending, Steps
<1>14. ASSUME NEW d \in Dylibs, InjectDyLib(d) PROVE TypeOK'
  <2>1. at' = at /\ at \in Bundles /\ d \in Injectable /\ Present(Exe(at))
    BY <1>14 DEF InjectDyLib, TypeOK, Pending
  <2>2. hashAll' \in BOOLEAN
    BY <1>14 DEF InjectDyLib, TypeOK
  <2>3. DiskOK' /\ Present(Exe(at))'
    <3> DEFINE new == [disk[Exe(at)] EXCEPT !.cmds[d] = LoadKind(opt.weak)]
    <3>1. CASE disk' = Write(Exe(at), new)
      <4>1. IsMachO(new)
        BY <2>1, <1>a, FileNames, InjectedFile DEF DiskOK, Present
      <4> HIDE DEF new
      <4>2. Exe(at) \in Files /\ Exe(at)[1] = "exe"
        BY <2>1, FileNames
      <4>3. DiskOK'
        BY <3>1, <4>1, <4>2, <1>a, WriteFile
      <4>4. Present(Exe(at))'
        BY <2>1, <3>1, WriteChanges DEF Present
      <4> QED BY <2>1, <4>3, <4>4 DEF Present
    <3>2. CASE disk' = disk
      BY <3>2, <2>1, <1>a, SameDisk DEF Present
    <3> QED BY <1>14, <3>1, <3>2 DEF InjectDyLib
  <2> QED BY <1>14, <2>1, <2>2, <2>3 DEF InjectDyLib, TypeOK, Pending
<1>15. ASSUME SignExe PROVE TypeOK'
  <2>1. at \in Bundles /\ IsMachO(disk[Exe(at)])
    BY <1>15, <1>a, FileNames DEF SignExe, TypeOK, DiskOK, Present
  <2>2. PICK grow \in Grows(disk[Exe(at)]) :
          disk' = Exchange(Exe(at), Sign(disk[Exe(at)], tree.info[at], disk[Res(at)], hashAll, grow),
                           Cleared(grow, ExeLeft(at)))
    BY <1>15 DEF SignExe
  <2>3. DiskOK'
    <3>1. IsMachO(Sign(disk[Exe(at)], tree.info[at], disk[Res(at)], hashAll, grow))
      BY <2>1, SignedFile
    <3>2. grow \in BOOLEAN
      BY DEF Grows
    <3> QED BY <2>1, <2>2, <3>1, <3>2, <1>a, LeftNames, SignChanges
  <2>4. tainted' \in BOOLEAN /\ swept' \subseteq Bundles
    BY <1>15, <2>1 DEF SignExe, TypeOK
  <2> QED BY <1>15, <2>1, <2>3, <2>4 DEF SignExe, TypeOK, Pending, Steps
<1>16. ASSUME SaveCache PROVE TypeOK'
  <2>1. DiskOK'
    BY <1>16, <1>a, SameDisk DEF SaveCache
  <2> QED BY <1>16, <2>1, ProcessEndsTyped DEF SaveCache, TypeOK
<1>17. ASSUME TearCodeResources PROVE TypeOK'
  <2>1. PICK c : disk' = Write(Res(at), c)
    BY <1>17 DEF TearCodeResources
  <2>2. DiskOK'
    BY <2>1, <1>a, FileNames, WriteFile DEF TypeOK
  <2> QED BY <1>17, <2>2, ProcessEndsTyped DEF TearCodeResources, TypeOK
<1>18. ASSUME DamageExe PROVE TypeOK'
  <2>1. at \in Bundles /\ Present(Exe(at))
    BY <1>18 DEF DamageExe, TypeOK
  <2>2. DiskOK'
    BY <1>18, <2>1, <1>a, LeftNames, HalfChanges DEF DamageExe
  <2> QED BY <1>18, <2>2, ProcessEndsTyped DEF DamageExe, TypeOK
<1>19. ASSUME LoseCache PROVE TypeOK'
  <2>1. DiskOK'
    BY <1>19, <1>a, SameDisk DEF LoseCache
  <2>2. tree \in Trees /\ CutCache(tree) \subseteq Trees
    BY DEF CutCache, TypeOK, Trees
  <2> QED BY <1>19, <2>1, <2>2, ProcessEndsTyped DEF LoseCache, TypeOK
<1>20. ASSUME Crash PROVE TypeOK'
  <2>1. DiskOK'
    BY <1>20, <1>a, SameDisk DEF Crash
  <2> QED BY <1>20, <2>1, ProcessEndsTyped DEF Crash, TypeOK
<1>21. ASSUME Edit PROVE TypeOK'
  <2>1. DiskOK'
    <3>1. ASSUME NEW i \in Idents, NEW r \in Resources, disk' = Write(Data(r), i)
          PROVE  DiskOK'
      BY <3>1, <1>a, FileNames, WriteFile
    <3>2. ASSUME NEW i \in Idents, NEW b \in Bundles, disk' = Write(Info(b), i)
          PROVE  DiskOK'
      BY <3>2, <1>a, FileNames, WriteFile
    <3>3. ASSUME NEW d \in Dylibs, disk' = Remove(Lib(d)) PROVE DiskOK'
      BY <3>3, <1>a, FileNames, RemoveFile
    <3> QED BY <1>21, <3>1, <3>2, <3>3 DEF Edit
  <2> QED BY <1>21, <2>1 DEF Edit, TypeOK, Pending
<1>22. ASSUME TearInfo PROVE TypeOK'
  <2>1. PICK b \in Bundles : disk' = Write(Info(b), Cut)
    BY <1>22, FilesAssumption, BundlesAssumption DEF TearInfo, TypeOK, Pending
  <2>2. DiskOK'
    BY <2>1, <1>a, FileNames, WriteFile
  <2> QED BY <1>22, <2>2, ProcessEndsTyped DEF TearInfo, TypeOK
<1>23. ASSUME RejectInfo PROVE TypeOK'
  <2>1. DiskOK'
    BY <1>23, <1>a, SameDisk DEF RejectInfo
  <2> QED BY <1>23, <2>1, ProcessEndsTyped DEF RejectInfo, TypeOK
<1>24. ASSUME NEW d \in Dylibs, DamageDyLib(d) PROVE TypeOK'
  <2>1. DiskOK'
    BY <1>24, <1>a, LeftNames, HalfChanges DEF DamageDyLib
  <2> QED BY <1>24, <2>1, ProcessEndsTyped DEF DamageDyLib, TypeOK
<1>25. CASE UNCHANGED vars
  <2>1. DiskOK'
    BY <1>25, <1>a, SameDisk DEF vars
  <2> QED BY <1>25, <2>1 DEF vars, TypeOK, Present
<1> QED
  BY <1>1, <1>2, <1>3, <1>4, <1>5, <1>6, <1>7, <1>8, <1>9, <1>10, <1>11, <1>12, <1>13,
     <1>14, <1>15, <1>16, <1>17, <1>18, <1>19, <1>20, <1>21, <1>22, <1>23, <1>24, <1>25,
     FilesAssumption
  DEF Next, Step, Fault

\* In every state of every execution the variables have their types, every bundle has an
\* Info.plist, whole or cut off, and the executable about to be signed is there: a run of
\* SignFolder, complete, failed or killed, never leaves the folder or the cache in a shape the
\* next one is not written for (bundle.cpp:414-586).
THEOREM TypeCorrect == Spec => []TypeOK
<1>1. Init => TypeOK
  BY InitTyped
<1>2. TypeOK /\ [Next]_vars => TypeOK'
  BY NextTyped
<1> QED BY <1>1, <1>2, PTL DEF Spec

(***************************************************************************)
(* A full signing.  What is finished is downward closed, and what a step   *)
(* writes lies in the folder of a bundle that is not finished: nothing a   *)
(* finished bundle's signature depends on.                                 *)
(***************************************************************************)

LEMMA Homes ==
  /\ \A b \in Bundles : /\ Home(Info(b)) = b /\ Home(Exe(b)) = b /\ Home(Res(b)) = b
                        /\ Home(ExeLeft(b)) = b
  /\ \A d \in Dylibs : Home(Lib(d)) = Owner[d] /\ Home(LibLeft(d)) = Owner[d]
  BY FileNames DEF Home

\* All that the signature of b depends on.
Signed(b) == Coverable(b) \cup {Info(b), Exe(b), Res(b)}

\* A file in the folder of a bundle that is not inside b is nothing b depends on.
LEMMA OutOfReach ==
  ASSUME NEW b \in Bundles, NEW f \in Files, Home(f) \notin Below[b]
  PROVE  f \notin Signed(b)
<1>1. b \in Below[b]
  BY BundlesAssumption
<1>2. f \notin Coverable(b)
  BY DEF Coverable
<1> QED BY <1>1, <1>2, Homes DEF Signed

\* A valid bundle stays valid when files it does not depend on are written or removed.
LEMMA BundleKept ==
  ASSUME DiskOK, NEW b \in Bundles, NEW G, OnlyIn(G), \A g \in G : g \notin Signed(b),
         b \in swept' <=> b \in swept, BundleValid(b)
  PROVE  BundleValid(b)'
<1>1. \A g \in Signed(b) : /\ g \in DOMAIN disk' <=> g \in DOMAIN disk
                           /\ g \in DOMAIN disk => disk'[g] = disk[g]
  BY DEF OnlyIn
<1>2. /\ Info(b) \in Signed(b) /\ Exe(b) \in Signed(b) /\ Res(b) \in Signed(b)
      /\ \A g \in Coverable(b) : g \in Signed(b)
  BY DEF Signed
<1>3. Present(Info(b)) /\ Present(Exe(b)) /\ Present(Res(b))
  BY DEF DiskOK, BundleValid, SealMatches, SignatureMatches
<1>4. Covered(b)' = Covered(b) /\ \A g \in Covered(b) : disk'[g] = disk[g]
  BY <1>1, <1>2 DEF Covered, Coverable, Present
<1>5. /\ Info(b) \in DOMAIN disk' /\ Exe(b) \in DOMAIN disk' /\ Res(b) \in DOMAIN disk'
      /\ disk'[Info(b)] = disk[Info(b)] /\ disk'[Exe(b)] = disk[Exe(b)]
      /\ disk'[Res(b)] = disk[Res(b)]
  <2>1. /\ Info(b) \in DOMAIN disk /\ Exe(b) \in DOMAIN disk /\ Res(b) \in DOMAIN disk
    BY <1>3 DEF Present
  <2>2. /\ Info(b) \in DOMAIN disk' /\ disk'[Info(b)] = disk[Info(b)]
    BY <1>1, <1>2, <2>1
  <2>3. /\ Exe(b) \in DOMAIN disk' /\ disk'[Exe(b)] = disk[Exe(b)]
    BY <1>1, <1>2, <2>1
  <2> QED BY <1>1, <1>2, <2>1, <2>2, <2>3
<1>6. SealMatches(b)'
  BY <1>4, <1>5 DEF BundleValid, SealMatches, Listed, Present
<1>7. SignatureMatches(b)'
  BY <1>5 DEF BundleValid, SignatureMatches, Pages, Present
<1> QED BY <1>6, <1>7 DEF BundleValid

\* A dylib is as valid as it was when other files are written.
LEMMA LibKept ==
  ASSUME NEW d \in Dylibs, NEW G, OnlyIn(G), Lib(d) \notin G, LibValid(d)
  PROVE  LibValid(d)'
<1>1. Present(Lib(d))' => Present(Lib(d)) /\ disk'[Lib(d)] = disk[Lib(d)]
  BY DEF OnlyIn, Present
<1> QED BY <1>1 DEF LibValid, Pages

\* The outcome is there only between runs.
LEMMA OutcomeKept == TypeOK /\ Outcome /\ [Next]_vars => Outcome'
<1> SUFFICES ASSUME TypeOK, Outcome, [Next]_vars PROVE Outcome'
  OBVIOUS
<1>1. CASE \E o \in Options : Start(o)
  BY <1>1 DEF Start, Outcome, Walking
<1>2. CASE Step
  BY <1>2 DEF Step, RewritePlugIn, EnterNode, RewriteStrings, CopyDyLib, SignDyLib,
              InjectDyLib, RewriteInfo, RejectInfo, StringsDone, RemoveProvision, WriteProvision,
              LoadTree, RejectNode, WriteCodeResources, CanSeal, SignExe, SaveCache,
              ProcessEnds, Outcome, Walking
<1>3. CASE Fault
  BY <1>3 DEF Fault, TearInfo, TearCodeResources, DamageExe, DamageDyLib, LoseCache, Crash, Edit,
              ProcessEnds, Outcome, Walking
<1>4. CASE UNCHANGED vars
  BY <1>4 DEF vars, Outcome
<1> QED BY <1>1, <1>2, <1>3, <1>4 DEF Next

(***************************************************************************)
(* What the tree describes.                                                *)
(***************************************************************************)

\* The application can be signed if its own Info.plist can be read.
LEMMA RootSignable ==
  ASSUME disk[Info(Root)] # Cut PROVE Root \in Signable
<1>1. \A c \in Bundles : Root \in Below[c] => c = Root
  BY BundlesAssumption
<1> QED BY <1>1, BundlesAssumption DEF Signable

\* A tree that describes the folder has nodes of the bundles that can be signed.
LEMMA Described ==
  ASSUME DiskOK, TreeIsCurrent
  PROVE  /\ Nodes = Signable
         /\ \A b \in Signable : /\ b \in Bundles /\ tree.info[b] = disk[Info(b)]
                                /\ disk[Info(b)] # Cut
         /\ tree.files = {d \in Dylibs : Present(Lib(d)) /\ Owner[d] \in Signable}
<1>1. \A b \in Signable : b \in Bundles /\ disk[Info(b)] # Cut
  BY BundlesAssumption DEF Signable
<1>2. /\ \A b \in Bundles : tree.info[b] = IF b \in Signable THEN disk[Info(b)] ELSE Cut
      /\ tree.files = {d \in Dylibs : Present(Lib(d)) /\ Owner[d] \in Signable}
  BY DEF TreeIsCurrent, BuildTree
<1> QED BY <1>1, <1>2 DEF Nodes

\* A step that writes no Info.plist, and no dylib that is not there before and after, leaves
\* the folder as the tree would describe it.
LEMMA TreeStands ==
  ASSUME DiskOK, NEW G, OnlyIn(G),
         \A g \in G : /\ g[1] # "info"
                      /\ g[1] = "lib" => g \in DOMAIN disk /\ g \in DOMAIN disk'
  PROVE  /\ Signable' = Signable /\ BuildTree' = BuildTree
         /\ \A b \in Bundles : disk'[Info(b)] = disk[Info(b)]
         /\ \A d \in Dylibs : Present(Lib(d))' <=> Present(Lib(d))
<1>1. \A b \in Bundles : disk'[Info(b)] = disk[Info(b)]
  BY FileNames DEF DiskOK, Present, OnlyIn
<1>2. \A d \in Dylibs : Present(Lib(d))' <=> Present(Lib(d))
  BY FileNames DEF Present, OnlyIn
<1>3. Signable' = Signable
  BY <1>1 DEF Signable
<1>4. [b \in Bundles |-> IF b \in Signable THEN disk[Info(b)] ELSE Cut]' =
        [b \in Bundles |-> IF b \in Signable THEN disk[Info(b)] ELSE Cut]
  BY <1>1, <1>3
<1>5. {d \in Dylibs : Present(Lib(d)) /\ Owner[d] \in Signable}' =
        {d \in Dylibs : Present(Lib(d)) /\ Owner[d] \in Signable}
  BY <1>2, <1>3
<1> QED BY <1>1, <1>2, <1>3, <1>4, <1>5 DEF BuildTree

\* While the walk is at a bundle that is not finished, a step that changes files in that
\* bundle's own folder, but no Info.plist, leaves what is finished valid, and the tree a
\* description of the folder if no dylib comes or goes.
LEMMA DoneKept ==
  ASSUME TypeOK, TreeIsCurrent, DoneIsValid, AtIsOpen,
         NEW G \in SUBSET Files, OnlyIn(G),
         \A g \in G : /\ Home(g) = at /\ g[1] # "info"
                      /\ g[1] = "lib" => g \in DOMAIN disk /\ g \in DOMAIN disk',
         tree' = tree, \A b \in done : b \in swept' <=> b \in swept
  PROVE  /\ TreeIsCurrent' /\ Signable' = Signable
         /\ \A b \in done : BundleValid(b)'
         /\ \A d \in Dylibs : Owner[d] \in done => LibValid(d)'
         /\ done' = done => DoneIsValid'
<1>1. ASSUME NEW b \in done, NEW g \in G PROVE g \notin Signed(b)
  <2>1. at \in Signable \ done /\ Below[b] \cap Signable \subseteq done /\ b \in Bundles
    BY DEF TypeOK, DoneIsValid, AtIsOpen
  <2> QED BY <2>1, OutOfReach
<1>2. \A b \in done : BundleValid(b)'
  BY <1>1, BundleKept DEF TypeOK, DoneIsValid
<1>3. \A d \in Dylibs : Owner[d] \in done => Lib(d) \notin G
  BY Homes DEF AtIsOpen
<1>4. \A d \in Dylibs : Owner[d] \in done => LibValid(d)'
  BY <1>3, LibKept DEF DoneIsValid
<1>5. Signable' = Signable /\ BuildTree' = BuildTree
  BY TreeStands DEF TypeOK
<1>6. TreeIsCurrent'
  BY <1>5 DEF TreeIsCurrent
<1>7. done' = done => DoneIsValid'
  BY <1>2, <1>4, <1>5 DEF DoneIsValid
<1> QED BY <1>2, <1>4, <1>5, <1>6, <1>7

\* A bundle's seal does not depend on its own executable, and an entry for what lay beside
\* it is told apart.
LEMMA SealKept ==
  ASSUME NEW b \in Bundles, SealMatches(b), b \notin swept,
         \/ OnlyIn({Exe(b)}) /\ b \notin swept'
         \/ /\ OnlyIn({Exe(b), ExeLeft(b)})
            /\ ExeLeft(b) \notin DOMAIN disk' /\ b \in swept'
  PROVE  SealMatches(b)' /\ Present(Res(b))' /\ disk'[Res(b)] = disk[Res(b)]
<1>1. Exe(b) \notin Coverable(b) /\ Exe(b) # Res(b) /\ ExeLeft(b) # Res(b)
  BY FileNames DEF Coverable
<1>2. Present(Res(b))' /\ disk'[Res(b)] = disk[Res(b)]
  BY <1>1 DEF OnlyIn, SealMatches, Present
<1>3. CASE OnlyIn({Exe(b)}) /\ b \notin swept'
  <2>1. Covered(b)' = Covered(b) /\ \A f \in Covered(b) : disk'[f] = disk[f]
    BY <1>1, <1>3 DEF Covered, Coverable, Present, OnlyIn
  <2> QED BY <1>2, <1>3, <2>1 DEF SealMatches, Listed
<1>4. CASE /\ OnlyIn({Exe(b), ExeLeft(b)})
           /\ ExeLeft(b) \notin DOMAIN disk' /\ b \in swept'
  <2>1. /\ Covered(b)' = Covered(b) \ {ExeLeft(b)}
        /\ \A f \in Covered(b) \ {ExeLeft(b)} : disk'[f] = disk[f]
    BY <1>1, <1>4 DEF Covered, Coverable, Present, OnlyIn
  <2>2. Listed(b) = DOMAIN disk[Res(b)] /\ Listed(b)' = DOMAIN disk[Res(b)] \ {ExeLeft(b)}
    BY <1>2, <1>4 DEF Listed
  <2> QED BY <1>2, <2>1, <2>2 DEF SealMatches
<1> QED BY <1>2, <1>3, <1>4

LEMMA InitSeal ==
  Init => Outcome /\ SoundWalk /\ CacheStands /\ ProvisionStands
            /\ FullRunSealsApp /\ CachedRunSealsApp
  BY DEF Init, Outcome, SoundWalk, CacheStands, ProvisionStands, FullRunSealsApp,
         CachedRunSealsApp, Walking

(***************************************************************************)
(* The cache.  Between two runs, and wherever a run may die, each seal is  *)
(* right about the files that no run rewrites.                             *)
(***************************************************************************)

\* What a run rewrites below b is in b's folder, and is b's business alone or in the list.
LEMMA RewrittenFiles ==
  ASSUME NEW b \in Bundles, NEW f \in Files,
         \/ f[1] = "exe" /\ f[2] \in Signable
         \/ f[1] = "res" /\ f[2] \in Signable \ {b}
         \/ f[1] = "lib" /\ Present(f) /\ Owner[f[2]] \in Signable
         \/ f = Prov
  PROVE  f \in Rewritten(b) \/ f \notin Coverable(b)
<1>1. SUFFICES ASSUME f \in Coverable(b) PROVE f \in Rewritten(b)
  OBVIOUS
<1>2. Home(f) \in Below[b] /\ f # Exe(b)
  BY <1>1 DEF Coverable
<1>3. CASE f[1] = "exe" /\ f[2] \in Signable
  <2>1. f = Exe(f[2]) /\ Home(f) = f[2]
    BY <1>3 DEF Files, Exe, Home, Prov
  <2> QED BY <1>2, <1>3, <2>1 DEF Rewritten
<1>4. CASE f[1] = "res" /\ f[2] \in Signable \ {b}
  <2>1. f = Res(f[2]) /\ Home(f) = f[2]
    BY <1>4 DEF Files, Res, Home, Prov
  <2> QED BY <1>2, <1>4, <2>1 DEF Rewritten
<1>5. CASE f[1] = "lib" /\ Present(f) /\ Owner[f[2]] \in Signable
  <2>1. f = Lib(f[2]) /\ f[2] \in Dylibs /\ Home(f) = Owner[f[2]]
    BY <1>5 DEF Files, Lib, Home, Prov
  <2> QED BY <1>2, <1>5, <2>1 DEF Rewritten
<1>6. CASE f = Prov
  <2>1. Root \in Below[b]
    BY <1>2, <1>6 DEF Home, Prov
  <2>2. b = Root
    BY <2>1, BundlesAssumption
  <2> QED BY <1>6, <2>2 DEF Rewritten
<1> QED BY <1>3, <1>4, <1>5, <1>6

\* A step that changes one file, which b's list need not be right about, keeps the list
\* right about the others.
LEMMA SealStandsKept ==
  ASSUME DiskOK, NEW b \in Bundles, SealStands(b), NEW f \in Files, f # Res(b), f[1] # "info",
         f \in Rewritten(b) \/ f \notin Coverable(b), OnlyIn({f}),
         f[1] = "lib" => f \in DOMAIN disk /\ f \in DOMAIN disk'
  PROVE  SealStands(b)'
<1>1. Signable' = Signable /\ \A d \in Dylibs : Present(Lib(d))' <=> Present(Lib(d))
  BY TreeStands
<1>2. Rewritten(b)' = Rewritten(b)
  BY <1>1 DEF Rewritten
<1>3. Covered(b)' \ Rewritten(b) = Covered(b) \ Rewritten(b)
  BY DEF Covered, Coverable, Present, OnlyIn
<1>4. \A g \in Covered(b) \ Rewritten(b) : disk'[g] = disk[g]
  BY DEF Covered, Present, OnlyIn
<1>5. Present(Res(b))' <=> Present(Res(b))
  BY FileNames DEF Present, OnlyIn
<1>6. Present(Res(b)) => disk'[Res(b)] = disk[Res(b)]
  BY DEF Present, OnlyIn
<1> QED BY <1>2, <1>3, <1>4, <1>5, <1>6 DEF SealStands

\* So does a step that writes a seal which is right about all files.
LEMMA SealStandsAnew ==
  ASSUME NEW b \in Bundles, SealMatches(b), b \notin swept
  PROVE  SealStands(b)
<1>1. DOMAIN disk[Res(b)] = Covered(b)
  BY DEF SealMatches, Listed
<1> QED BY <1>1 DEF SealMatches, SealStands

\* A step that writes an executable, a dylib that is there or the provisioning profile, or
\* removes the profile, leaves the cache as good as it was.
LEMMA CacheKept ==
  ASSUME DiskOK, CacheStands, cache' = cache, ~tainted' => ~tainted, NEW f \in Files,
         \/ f[1] = "exe" /\ f[2] \in Signable
         \/ f[1] = "lib" /\ Present(f) /\ f \in DOMAIN disk' /\ Owner[f[2]] \in Signable
         \/ f = Prov,
         OnlyIn({f})
  PROVE  CacheStands'
<1>1. f[1] # "info" /\ f[1] # "res" /\ (f[1] = "lib" => f \in DOMAIN disk /\ f \in DOMAIN disk')
  BY FileNames DEF Present
<1>2. BuildTree' = BuildTree /\ Signable' = Signable
  BY <1>1, TreeStands
<1>3. SUFFICES ASSUME ~tainted', cache # Missing
               PROVE  (cache = BuildTree)' /\ Root \in Signable /\ \A b \in Signable : SealStands(b)'
  BY <1>2 DEF CacheStands
<1>4. ASSUME NEW b \in Signable PROVE SealStands(b)'
  <2>1. SealStands(b) /\ b \in Bundles
    BY <1>3 DEF CacheStands, Signable
  <2>2. f # Res(b)
    BY <1>1, <2>1, FileNames
  <2>3. f \in Rewritten(b) \/ f \notin Coverable(b)
    BY <2>1, RewrittenFiles
  <2> QED BY <1>1, <2>1, <2>2, <2>3, SealStandsKept
<1> QED BY <1>2, <1>3, <1>4 DEF CacheStands

\* In a run from the cache the list of the current bundle, brought up to date, is the one
\* a full signing would make: the changed files are all there, and they are what the old
\* list may be wrong about.
LEMMA SealExact ==
  ASSUME TypeOK, SoundWalk, CacheStands, ProvisionStands, CanSeal, Reliable
  PROVE  CodeResources(at) = [f \in Covered(at) |-> disk[f]]
<1>1. CASE force \/ ~Present(Res(at)) \/ disk[Res(at)] = Missing
  BY <1>1 DEF CodeResources, GenerateCodeResources
<1>2. CASE ~force /\ Present(Res(at)) /\ disk[Res(at)] # Missing
  <2>1. pc = "files" /\ at \in Bundles /\ ~tainted /\ cache # Missing
        /\ TreeIsCurrent /\ DoneIsValid /\ AtIsOpen /\ Present(Prov)
    BY <1>2 DEF CanSeal, Reliable, SoundWalk, ProvisionStands, Walking, TypeOK
  <2>a. Nodes = Signable
        /\ tree.files = {d \in Dylibs : Present(Lib(d)) /\ Owner[d] \in Signable}
    BY <2>1, Described DEF TypeOK
  <2>2. ChangedFiles(at) = Rewritten(at)
    <3>1. UNION {LooseDyLibs(c) : c \in Below[at]}
            = {e \in Dylibs : Present(Lib(e)) /\ Owner[e] \in Below[at] \cap Signable}
      BY <2>a DEF LooseDyLibs
    <3> QED BY <2>a, <3>1 DEF ChangedFiles, Rewritten
  <2>3. ASSUME NEW f \in Rewritten(at) PROVE f \in Covered(at)
    <3>1. ASSUME NEW d \in Dylibs, f = Lib(d), Present(Lib(d)), Owner[d] \in Below[at]
          PROVE  f \in Covered(at)
      BY <3>1, <2>1, FileNames, Homes DEF Covered, Coverable
    <3>2. ASSUME NEW c \in (Below[at] \cap Signable) \ {at}, f \in {Res(c), Exe(c)}
          PROVE  f \in Covered(at)
      <4>1. c \in done /\ c \in Bundles
        BY <3>2, <2>1 DEF AtIsOpen, TypeOK
      <4>2. Present(Res(c)) /\ Present(Exe(c))
        BY <4>1, <2>1 DEF DoneIsValid, BundleValid, SealMatches, SignatureMatches
      <4>3. f \in Files /\ Home(f) = c /\ f \notin {Info(at), Exe(at), Res(at)}
            /\ f[1] # "data"
        BY <3>2, <4>1, <2>1, FileNames, Homes
      <4> QED BY <3>2, <4>2, <4>3 DEF Covered, Coverable
    <3>3. ASSUME at = Root, f = Prov PROVE f \in Covered(at)
      <4>1. Home(Prov) = Root /\ Prov \notin {Info(at), Exe(at), Res(at)}
        BY <2>1, FileNames DEF Home
      <4> QED BY <3>3, <4>1, <2>1, FileNames, BundlesAssumption DEF Covered, Coverable
    <3> QED BY <2>3, <3>1, <3>2, <3>3 DEF Rewritten
  <2>4. SealStands(at)
    BY <2>1 DEF CacheStands, AtIsOpen
  <2>5. DOMAIN disk[Res(at)] \cup Rewritten(at) = Covered(at)
    BY <1>2, <2>3, <2>4 DEF SealStands
  <2>6. \A f \in Covered(at) :
          (IF f \in Rewritten(at) THEN SHASumFile(f) ELSE disk[Res(at)][f]) = disk[f]
    BY <1>2, <2>4 DEF SealStands, SHASumFile, Covered
  <2>7. CodeResources(at) = [f \in DOMAIN disk[Res(at)] \cup Rewritten(at) |->
          IF f \in Rewritten(at) THEN SHASumFile(f) ELSE disk[Res(at)][f]]
    BY <1>2, <2>2 DEF CodeResources, UpdateCodeResources
  <2> QED BY <2>5, <2>6, <2>7
<1> QED BY <1>1, <1>2

\* Every step keeps what a signing that may be relied on has established.
LEMMA SoundWalkKept ==
  TypeOK /\ Outcome /\ SoundWalk /\ CacheStands /\ ProvisionStands /\ [Next]_vars
    => SoundWalk'
<1> SUFFICES ASSUME TypeOK, Outcome, SoundWalk, CacheStands, ProvisionStands, [Next]_vars
             PROVE  SoundWalk'
  OBVIOUS
<1>1. ASSUME pc' \notin Walking PROVE SoundWalk'
  BY <1>1 DEF SoundWalk
<1>2. ASSUME LoadTree, Reliable' PROVE SoundWalk'
  <2>1. done' = {} /\ pc' = "walk" /\ swept' = {} /\ UNCHANGED <<disk, cache>>
    BY <1>2 DEF LoadTree, Outcome, Walking
  <2>2. BuildTree' = BuildTree /\ Signable' = Signable
    BY <2>1 DEF BuildTree, Signable, Present
  <2>3. tree' = BuildTree /\ Root \in Signable /\ (force' \/ cache # Missing)
    <3>1. CASE force'
      BY <1>2, <3>1, RootSignable DEF LoadTree
    <3>2. CASE ~force'
      BY <1>2, <3>2 DEF LoadTree, SignsAll, Reliable, CacheStands
    <3> QED BY <3>1, <3>2
  <2> QED BY <2>1, <2>2, <2>3 DEF SoundWalk, DoneIsValid, TreeIsCurrent
<1>3. ASSUME NEW b \in Bundles, EnterNode(b), Reliable' PROVE SoundWalk'
  <2>1. pc = "walk" /\ pc' = "files" /\ at' = b /\ todo' = LooseDyLibs(b)
        /\ UNCHANGED <<disk, cache, force, tree, done, swept>> /\ Reliable
    BY <1>3 DEF EnterNode, Reliable
  <2>2. TreeIsCurrent /\ DoneIsValid /\ (force \/ cache # Missing) /\ swept \subseteq done
    BY <1>3, <2>1 DEF SoundWalk, Walking
  <2>3. BuildTree' = BuildTree /\ Signable' = Signable
    BY <2>1 DEF BuildTree, Signable, Present
  <2>4. TreeIsCurrent' /\ DoneIsValid'
    BY <2>1, <2>2, <2>3 DEF TreeIsCurrent, DoneIsValid, BundleValid, SealMatches, Listed,
                            SignatureMatches, LibValid, Covered, Present, Pages
  <2>5. Nodes = Signable
        /\ tree.files = {d \in Dylibs : Present(Lib(d)) /\ Owner[d] \in Signable}
    BY <2>2, Described DEF TypeOK
  <2>6. AtIsOpen'
    <3>1. b \in Signable \ done /\ (Below[b] \cap Signable) \ {b} \subseteq done
      BY <1>3, <2>5 DEF EnterNode, Ready
    <3>2. ASSUME NEW d \in Dylibs, Owner[d] = b PROVE LibValid(d)' \/ d \in todo'
      <4>1. d \in todo' \/ ~Present(Lib(d))
        BY <3>1, <3>2, <2>1, <2>5 DEF LooseDyLibs
      <4> QED BY <4>1, <2>1 DEF LibValid, Present
    <3>3. \A d \in todo' : Owner[d] = b
      BY <2>1 DEF LooseDyLibs
    <3> QED BY <2>1, <2>3, <3>1, <3>2, <3>3 DEF AtIsOpen
  <2> QED BY <2>1, <2>2, <2>4, <2>6 DEF SoundWalk
<1>4. ASSUME NEW d \in Dylibs, SignDyLib(d), Reliable' PROVE SoundWalk'
  <2>1. pc = "files" /\ pc' = pc /\ todo' = todo \ {d} /\ d \in todo /\ Present(Lib(d))
        /\ UNCHANGED <<cache, force, tree, done, at, swept>> /\ Reliable
    BY <1>4 DEF SignDyLib, Reliable
  <2>2. TreeIsCurrent /\ DoneIsValid /\ AtIsOpen /\ (force \/ cache # Missing) /\ swept \subseteq done
    BY <2>1 DEF SoundWalk, Walking
  <2> DEFINE signed(grow) == Sign(disk[Lib(d)], Missing, Missing, force, grow)
  <2>3. PICK grow \in Grows(disk[Lib(d)]) :
          /\ disk' = Exchange(Lib(d), signed(grow), Cleared(grow, LibLeft(d)))
          /\ tainted' = (tainted \/ signed(grow).sig.slots # Pages(signed(grow))
                                 \/ (grow /\ Present(LibLeft(d))))
    BY <1>4 DEF SignDyLib
  <2> DEFINE new == signed(grow)
  <2>4. new.sig.slots = Pages(new) /\ IsMachO(new)
    <3>1. IsMachO(disk[Lib(d)])
      BY <2>1, FileNames DEF TypeOK, DiskOK, Present
    <3> HIDE DEF new
    <3>2. new = Sign(disk[Lib(d)], Missing, Missing, force, grow)
      BY DEF new
    <3>3. CASE force
      <4>1. RehashesPages(disk[Lib(d)], force)
        BY <3>3 DEF RehashesPages
      <4> QED BY <3>1, <3>2, <4>1, SignedFile
    <3>4. CASE ~force
      <4>1. new.sig.slots = Pages(new)
        BY <1>4, <2>1, <2>3, <3>4 DEF Reliable, new
      <4> QED BY <3>1, <3>2, <4>1, SignedFile
    <3> QED BY <3>3, <3>4
  <2> HIDE DEF new
  <2>5. Owner[d] = at /\ {Lib(d), LibLeft(d)} \in SUBSET Files
        /\ \A g \in {Lib(d), LibLeft(d)} : Home(g) = at /\ g[1] # "info" /\ (g[1] = "lib" => g = Lib(d))
    BY <2>1, <2>2, FileNames, Homes DEF AtIsOpen
  <2>6. OnlyIn({Lib(d), LibLeft(d)}) /\ Present(Lib(d))' /\ disk'[Lib(d)] = new
    <3>1. grow \in BOOLEAN
      BY DEF Grows
    <3>2. disk' = Exchange(Lib(d), new, Cleared(grow, LibLeft(d)))
      BY <2>3 DEF new
    <3> QED BY <2>4, <3>1, <3>2, LeftNames, SignChanges DEF TypeOK
  <2>7. TreeIsCurrent' /\ DoneIsValid' /\ Signable' = Signable
    BY <2>1, <2>2, <2>5, <2>6, DoneKept DEF Present
  <2>8. LibValid(d)'
    BY <2>4, <2>6 DEF LibValid, Pages
  <2>9. \A e \in Dylibs \ {d} : LibValid(e) => LibValid(e)'
    BY <2>6, FileNames, LibKept
  <2>10. AtIsOpen'
    BY <2>1, <2>2, <2>7, <2>8, <2>9 DEF AtIsOpen
  <2> QED BY <2>1, <2>2, <2>7, <2>10 DEF SoundWalk
<1>5. ASSUME WriteCodeResources, Reliable' PROVE SoundWalk'
  <2>1. pc = "files" /\ pc' = "sign" /\ todo = {} /\ Present(Exe(at)) /\ Reliable
        /\ hashAll' = force /\ disk' = Write(Res(at), CodeResources(at))
        /\ UNCHANGED <<cache, force, tree, done, at, swept>>
    BY <1>5 DEF WriteCodeResources, CanSeal, Reliable
  <2>2. TreeIsCurrent /\ DoneIsValid /\ AtIsOpen /\ at \in Bundles
        /\ (force \/ cache # Missing) /\ swept \subseteq done /\ at \notin swept
    BY <2>1 DEF SoundWalk, Walking, TypeOK, AtIsOpen
  <2>3. Res(at) \in Files /\ Home(Res(at)) = at /\ Res(at)[1] = "res"
    BY <2>2, FileNames, Homes
  <2>a. OnlyIn({Res(at)}) /\ Present(Res(at))' /\ disk'[Res(at)] = CodeResources(at)
    BY <2>1, WriteChanges DEF Present
  <2>4. TreeIsCurrent' /\ DoneIsValid' /\ Signable' = Signable
    BY <2>1, <2>2, <2>3, <2>a, DoneKept
  <2>5. AtIsOpen'
    <3>1. \A d \in Dylibs : LibValid(d) => LibValid(d)'
      BY <2>a, <2>3, FileNames, LibKept
    <3> QED BY <2>1, <2>2, <2>4, <3>1 DEF AtIsOpen
  <2>6. AtIsSealed'
    <3>1. CodeResources(at) = [f \in Covered(at) |-> disk[f]]
      BY <1>5, <2>1, SealExact DEF WriteCodeResources
    <3>2. Res(at) \notin Covered(at) /\ Res(at) # Exe(at)
      BY <2>2, FileNames DEF Covered, Coverable
    <3>3. Covered(at)' = Covered(at) /\ \A f \in Covered(at) : disk'[f] = disk[f]
      BY <2>1, <2>a, <3>2 DEF Covered, Coverable, Present, OnlyIn
    <3>4. SealMatches(at)'
      BY <2>1, <2>2, <2>a, <3>1, <3>3 DEF SealMatches, Listed
    <3>5. Present(Exe(at))'
      BY <2>1, <2>a, <3>2 DEF Present, OnlyIn
    <3> QED BY <2>1, <2>2, <3>4, <3>5 DEF AtIsSealed
  <2> QED BY <2>1, <2>2, <2>4, <2>5, <2>6 DEF SoundWalk
<1>6. ASSUME NEW d \in Dylibs, InjectDyLib(d), Reliable' PROVE SoundWalk'
  <2>1. pc = "sign" /\ pc' = "sign" /\ Reliable
        /\ UNCHANGED <<cache, force, tree, done, at, swept>>
    BY <1>6 DEF InjectDyLib, Reliable
  <2>2. TreeIsCurrent /\ DoneIsValid /\ AtIsOpen /\ AtIsSealed /\ at \in Bundles
        /\ (force \/ cache # Missing) /\ swept \subseteq done
    BY <2>1 DEF SoundWalk, Walking, TypeOK
  <2>3. force => hashAll'
    BY <1>6, <2>2 DEF InjectDyLib, AtIsSealed
  <2>4. Exe(at) \in Files /\ Home(Exe(at)) = at /\ Exe(at)[1] = "exe"
    BY <2>2, FileNames, Homes
  <2>5. OnlyIn({Exe(at)}) /\ Exe(at) \in DOMAIN disk'
    <3>1. CASE disk' = disk
      BY <2>2, <3>1, SameDisk DEF OnlyIn, TypeOK, AtIsSealed, Present
    <3>2. ASSUME NEW c, disk' = Write(Exe(at), c)
          PROVE  OnlyIn({Exe(at)}) /\ Exe(at) \in DOMAIN disk'
      BY <3>2, <2>1, WriteChanges DEF Present
    <3> QED BY <1>6, <3>1, <3>2 DEF InjectDyLib
  <2>6. TreeIsCurrent' /\ DoneIsValid' /\ Signable' = Signable
    BY <2>1, <2>2, <2>4, <2>5, DoneKept
  <2>7. \A e \in Dylibs : LibValid(e) => LibValid(e)'
    BY <2>4, <2>5, FileNames, LibKept
  <2>8. AtIsOpen'
    BY <2>1, <2>2, <2>6, <2>7 DEF AtIsOpen
  <2>9. AtIsSealed'
    BY <2>1, <2>2, <2>3, <2>5, SealKept DEF AtIsSealed, Present
  <2> QED BY <2>1, <2>2, <2>6, <2>8, <2>9 DEF SoundWalk
<1>7. ASSUME SignExe, Reliable' PROVE SoundWalk'
  <2>1. pc = "sign" /\ Reliable /\ done' = done \cup {at}
        /\ pc' = (IF at = Root THEN "save" ELSE "walk") /\ UNCHANGED <<cache, force, tree, at>>
    BY <1>7 DEF SignExe, Reliable
  <2>2. TreeIsCurrent /\ DoneIsValid /\ AtIsOpen /\ AtIsSealed /\ at \in Bundles
        /\ (force \/ cache # Missing) /\ swept \subseteq done /\ at \notin swept
    BY <2>1 DEF SoundWalk, Walking, TypeOK, AtIsSealed
  <2> DEFINE signed(grow) == Sign(disk[Exe(at)], tree.info[at], disk[Res(at)], hashAll, grow)
             sweeps(grow) == grow /\ Present(ExeLeft(at))
  <2>3. PICK grow \in Grows(disk[Exe(at)]) :
          /\ disk' = Exchange(Exe(at), signed(grow), Cleared(grow, ExeLeft(at)))
          /\ tainted' = (tainted \/ signed(grow).sig.slots # Pages(signed(grow)) \/ sweeps(grow))
          /\ swept' = IF sweeps(grow) THEN swept \cup {at} ELSE swept
    BY <1>7 DEF SignExe
  <2> DEFINE new == signed(grow)
  <2>4. /\ new.sig.info = tree.info[at] /\ new.sig.res = disk[Res(at)]
        /\ new.sig.slots = Pages(new) /\ IsMachO(new)
    <3>1. IsMachO(disk[Exe(at)])
      BY <2>2, FileNames DEF TypeOK, DiskOK, Present, AtIsSealed
    <3> HIDE DEF new
    <3>2. new = Sign(disk[Exe(at)], tree.info[at], disk[Res(at)], hashAll, grow)
      BY DEF new
    <3>3. CASE force
      <4>1. RehashesPages(disk[Exe(at)], hashAll)
        BY <2>2, <3>3 DEF AtIsSealed, RehashesPages
      <4> QED BY <3>1, <3>2, <4>1, SignedFile
    <3>4. CASE ~force
      <4>1. new.sig.slots = Pages(new)
        BY <1>7, <2>1, <2>3, <3>4 DEF Reliable, new
      <4> QED BY <3>1, <3>2, <4>1, SignedFile
    <3> QED BY <3>3, <3>4
  <2> HIDE DEF new
  <2>5. /\ OnlyIn({Exe(at), ExeLeft(at)}) /\ Exe(at) \in DOMAIN disk' /\ disk'[Exe(at)] = new
        /\ IF sweeps(grow) THEN ExeLeft(at) \notin DOMAIN disk' ELSE OnlyIn({Exe(at)})
    <3>1. grow \in BOOLEAN
      BY DEF Grows
    <3>2. disk' = Exchange(Exe(at), new, Cleared(grow, ExeLeft(at)))
      BY <2>3 DEF new
    <3>3. Beside(Exe(at), ExeLeft(at))
      BY <2>2, LeftNames
    <3> QED BY <2>1, <2>4, <3>1, <3>2, <3>3, SignChanges DEF TypeOK, Present
  <2>6. {Exe(at), ExeLeft(at)} \in SUBSET Files
        /\ \A g \in {Exe(at), ExeLeft(at)} : Home(g) = at /\ g[1] # "info" /\ g[1] # "lib"
    BY <2>2, FileNames, Homes
  <2>7. /\ TreeIsCurrent' /\ Signable' = Signable
        /\ \A b \in done : BundleValid(b)'
    <3>1. \A b \in done : b \in swept' <=> b \in swept
      BY <2>2, <2>3 DEF AtIsOpen
    <3> QED BY <2>1, <2>2, <2>5, <2>6, <3>1, DoneKept
  <2>8. BundleValid(at)'
    <3>1. SealMatches(at)' /\ Present(Res(at))' /\ disk'[Res(at)] = disk[Res(at)]
      BY <2>1, <2>2, <2>3, <2>5, SealKept DEF AtIsSealed
    <3>2. disk'[Info(at)] = disk[Info(at)]
      BY <2>2, <2>5, <2>6, TreeStands DEF TypeOK
    <3>3. tree.info[at] = disk[Info(at)]
      BY <2>2, Described DEF AtIsOpen, TypeOK
    <3>4. SignatureMatches(at)'
      BY <2>1, <2>4, <2>5, <3>1, <3>2, <3>3 DEF SignatureMatches, Pages, Present
    <3> QED BY <2>1, <3>1, <3>4 DEF BundleValid
  <2>9. \A d \in Dylibs : LibValid(d) => LibValid(d)'
    BY <2>5, <2>6, FileNames, LibKept
  <2>10. DoneIsValid'
    BY <2>1, <2>2, <2>7, <2>8, <2>9 DEF DoneIsValid, AtIsOpen
  <2>11. pc' = "save" => done' = Signable'
    BY <2>1, <2>2, <2>7, BundlesAssumption DEF AtIsOpen, DoneIsValid, Signable
  <2>12. swept' \subseteq done'
    BY <2>1, <2>2, <2>3
  <2> QED BY <2>1, <2>2, <2>7, <2>10, <2>11, <2>12 DEF SoundWalk
<1>8. ASSUME pc' \in Walking, UNCHANGED vars PROVE SoundWalk'
  BY <1>8 DEF vars, SoundWalk, Reliable, TreeIsCurrent, BuildTree, Signable, DoneIsValid, AtIsOpen,
              AtIsSealed, BundleValid, SealMatches, Listed, SignatureMatches, LibValid, Covered,
              Present, Pages
<1>9. ASSUME ~Reliable' PROVE SoundWalk'
  BY <1>9 DEF SoundWalk
<1>10. CASE \E o \in Options : Start(o)
  BY <1>1, <1>10 DEF Start, Walking
<1>11. CASE Step
  <2>1. ASSUME NEW b \in Bundles, RewritePlugIn(b) PROVE SoundWalk'
    BY <1>1, <2>1 DEF RewritePlugIn, Walking
  <2>2. ASSUME NEW r \in Strings, RewriteStrings(r) PROVE SoundWalk'
    BY <1>1, <2>2 DEF RewriteStrings, Walking
  <2>3. ASSUME NEW d \in Dylibs, CopyDyLib(d) PROVE SoundWalk'
    BY <1>1, <2>3 DEF CopyDyLib, Walking
  <2>4. ASSUME RewriteInfo \/ StringsDone \/ RemoveProvision \/ WriteProvision PROVE SoundWalk'
    BY <1>1, <2>4
    DEF RewriteInfo, StringsDone, RemoveProvision, WriteProvision, Walking
  <2>5. ASSUME RejectInfo \/ RejectNode \/ SaveCache PROVE SoundWalk'
    BY <1>1, <2>5 DEF RejectInfo, RejectNode, SaveCache, ProcessEnds, Walking
  <2> QED BY <1>2, <1>3, <1>4, <1>5, <1>6, <1>7, <1>9, <1>11,
             <2>1, <2>2, <2>3, <2>4, <2>5 DEF Step
<1>12. CASE Fault
  BY <1>1, <1>12
  DEF Fault, TearInfo, TearCodeResources, DamageExe, DamageDyLib, LoseCache, Crash, Edit,
      ProcessEnds, Walking
<1> QED BY <1>1, <1>8, <1>10, <1>11, <1>12 DEF Next

\* Every step keeps the cache, or says that it cannot be relied on.
LEMMA CacheStandsKept ==
  TypeOK /\ Outcome /\ SoundWalk /\ CacheStands /\ ProvisionStands /\ [Next]_vars
    => CacheStands'
<1> SUFFICES ASSUME TypeOK, Outcome, SoundWalk, CacheStands, ProvisionStands, [Next]_vars,
                    ~tainted'
             PROVE  CacheStands'
  BY DEF CacheStands
<1>1. ASSUME UNCHANGED <<disk, cache, tainted>> PROVE CacheStands'
  <2>1. BuildTree' = BuildTree /\ Signable' = Signable
    BY <1>1 DEF BuildTree, Signable, Present
  <2> QED BY <1>1, <2>1 DEF CacheStands, SealStands, Covered, Rewritten, Present
\* The bundle that is being signed is one that can be.
<1>a. ASSUME ~tainted, pc \in {"files", "sign"}
      PROVE  /\ at \in Signable /\ at \in Bundles
             /\ pc = "files" => \A d \in todo : Owner[d] \in Signable
  BY <1>a DEF SoundWalk, Walking, Reliable, AtIsOpen, TypeOK
<1>2. ASSUME RemoveProvision \/ WriteProvision PROVE CacheStands'
  <2>1. cache' = cache /\ (~tainted' => ~tainted)
    <3>1. CASE RemoveProvision
      BY <3>1 DEF RemoveProvision, TypeOK
    <3>2. CASE WriteProvision
      BY <3>2 DEF WriteProvision
    <3> QED BY <1>2, <3>1, <3>2
  <2>2. OnlyIn({Prov})
    <3>1. Prov \in Files /\ Prov[1] # "info" /\ DiskOK
      BY FileNames DEF TypeOK
    <3>2. CASE disk' = Remove(Prov)
      BY <3>1, <3>2, RemoveFile
    <3>3. CASE \E c : disk' = Write(Prov, c)
      BY <3>3, WriteChanges
    <3> QED BY <1>2, <3>2, <3>3 DEF RemoveProvision, WriteProvision
  <2> QED BY <2>1, <2>2, FileNames, CacheKept DEF TypeOK
<1>3. ASSUME NEW d \in Dylibs, SignDyLib(d) PROVE CacheStands'
  <2>1. PICK grow \in Grows(disk[Lib(d)]) :
          /\ disk' = Exchange(Lib(d), Sign(disk[Lib(d)], Missing, Missing, force, grow),
                              Cleared(grow, LibLeft(d)))
          /\ ~(grow /\ Present(LibLeft(d)))
    BY <1>3 DEF SignDyLib
  <2>2. cache' = cache /\ ~tainted /\ Present(Lib(d)) /\ Owner[d] \in Signable
    BY <1>3, <1>a DEF SignDyLib
  <2>3. IsMachO(Sign(disk[Lib(d)], Missing, Missing, force, grow)) /\ grow \in BOOLEAN
    <3>1. IsMachO(disk[Lib(d)])
      BY <2>2, FileNames DEF TypeOK, DiskOK, Present
    <3> QED BY <3>1, SignedFile DEF Grows
  <2>4. OnlyIn({Lib(d)}) /\ Lib(d) \in DOMAIN disk'
    BY <2>1, <2>3, LeftNames, SignChanges DEF TypeOK, Present
  <2> QED BY <2>2, <2>4, FileNames, CacheKept DEF TypeOK
<1>4. ASSUME WriteCodeResources PROVE CacheStands'
  <2>1. cache' = cache /\ ~tainted /\ disk' = Write(Res(at), CodeResources(at))
        /\ at' = at /\ at \in Signable /\ at \in Bundles /\ CanSeal
    BY <1>4, <1>a DEF WriteCodeResources, CanSeal
  <2>2. CodeResources(at) = [f \in Covered(at) |-> disk[f]]
    BY <2>1, SealExact DEF Reliable
  <2>3. OnlyIn({Res(at)}) /\ Present(Res(at))' /\ disk'[Res(at)] = CodeResources(at)
    BY <2>1, WriteChanges DEF Present
  <2>4. Res(at) \in Files /\ Res(at)[1] = "res" /\ Res(at)[2] = at /\ Res(at) \notin Coverable(at)
    BY <2>1, FileNames DEF Coverable
  <2>5. BuildTree' = BuildTree /\ Signable' = Signable
    BY <2>3, <2>4, TreeStands DEF TypeOK
  <2>6. SealStands(at)'
    <3>1. Covered(at)' = Covered(at) /\ \A f \in Covered(at) : disk'[f] = disk[f]
      BY <2>1, <2>3, <2>4 DEF Covered, Coverable, Present, OnlyIn
    <3>2. disk'[Res(at)] = [f \in Covered(at) |-> disk[f]]
      BY <2>2, <2>3
    <3> QED BY <2>1, <3>1, <3>2 DEF SealStands
  <2>7. ASSUME NEW b \in Signable \ {at}, SealStands(b) PROVE SealStands(b)'
    <3>1. Res(at) # Res(b) /\ b \in Bundles
      BY <2>4, <2>7, FileNames DEF Signable
    <3>2. Res(at) \in Rewritten(b) \/ Res(at) \notin Coverable(b)
      BY <2>1, <2>4, <2>7, <3>1, RewrittenFiles
    <3> QED BY <2>3, <2>4, <2>7, <3>1, <3>2, SealStandsKept DEF TypeOK
  <2> QED BY <2>1, <2>5, <2>6, <2>7 DEF CacheStands
<1>5. ASSUME NEW d \in Dylibs, InjectDyLib(d) PROVE CacheStands'
  <2>1. cache' = cache /\ ~tainted /\ at \in Signable /\ at \in Bundles
        /\ (disk' = disk \/ \E c : disk' = Write(Exe(at), c))
    BY <1>5, <1>a DEF InjectDyLib
  <2>2. CASE disk' = disk
    BY <1>1, <1>5, <2>2 DEF InjectDyLib
  <2>3. CASE \E c : disk' = Write(Exe(at), c)
    <3>1. OnlyIn({Exe(at)})
      BY <2>3, WriteChanges
    <3>2. DiskOK /\ Exe(at) \in Files /\ Exe(at)[1] = "exe" /\ Exe(at)[2] = at
      BY <2>1, FileNames DEF TypeOK
    <3> QED BY <2>1, <3>1, <3>2, CacheKept
  <2> QED BY <2>1, <2>2, <2>3
<1>6. ASSUME SignExe PROVE CacheStands'
  <2>1. PICK grow \in Grows(disk[Exe(at)]) :
          /\ disk' = Exchange(Exe(at), Sign(disk[Exe(at)], tree.info[at], disk[Res(at)], hashAll, grow),
                              Cleared(grow, ExeLeft(at)))
          /\ ~(grow /\ Present(ExeLeft(at)))
    BY <1>6 DEF SignExe
  <2>2. cache' = cache /\ ~tainted /\ at \in Signable /\ at \in Bundles /\ Present(Exe(at))
    BY <1>6, <1>a DEF SignExe, TypeOK
  <2>3. IsMachO(Sign(disk[Exe(at)], tree.info[at], disk[Res(at)], hashAll, grow)) /\ grow \in BOOLEAN
    <3>1. IsMachO(disk[Exe(at)])
      BY <2>2, FileNames DEF TypeOK, DiskOK, Present
    <3> QED BY <3>1, SignedFile DEF Grows
  <2>4. OnlyIn({Exe(at)})
    <3>1. Beside(Exe(at), ExeLeft(at))
      BY <2>2, LeftNames
    <3> QED BY <2>1, <2>3, <3>1, SignChanges DEF TypeOK
  <2> QED BY <2>2, <2>4, FileNames, CacheKept DEF TypeOK
<1>7. ASSUME SaveCache PROVE CacheStands'
  <2>1. pc = "save" /\ cache' = tree /\ disk' = disk /\ Reliable /\ swept = {}
    BY <1>7 DEF SaveCache, Reliable, Outcome
  <2>2. TreeIsCurrent /\ DoneIsValid /\ done = Signable
    BY <2>1 DEF SoundWalk, Walking
  <2>3. \A b \in Signable : SealStands(b)
    BY <2>1, <2>2, SealStandsAnew DEF DoneIsValid, BundleValid, Signable
  <2>4. BuildTree' = BuildTree /\ Signable' = Signable
    BY <2>1 DEF BuildTree, Signable, Present
  <2>5. \A b \in Signable : SealStands(b)'
    BY <2>1, <2>3, <2>4 DEF SealStands, Covered, Rewritten, Present
  <2> QED BY <2>1, <2>2, <2>4, <2>5 DEF CacheStands, TreeIsCurrent
<1>8. CASE \E o \in Options : Start(o)
  BY <1>1, <1>8 DEF Start
<1>9. CASE Step
  <2>1. ASSUME NEW b \in Bundles, EnterNode(b) PROVE CacheStands'
    BY <1>1, <2>1 DEF EnterNode
  <2>2. ASSUME NEW r \in Strings, RewriteStrings(r) PROVE FALSE
    BY <2>2 DEF RewriteStrings, ProvisionStands
  <2>3. ASSUME NEW d \in Dylibs, CopyDyLib(d) PROVE CacheStands'
    BY <1>1, <2>3 DEF CopyDyLib
  <2>4. ASSUME NEW b \in Bundles, RewritePlugIn(b) \/ RewriteInfo PROVE FALSE
    BY <2>4 DEF RewritePlugIn, RewriteInfo
  <2>5. ASSUME StringsDone \/ LoadTree \/ RejectInfo \/ RejectNode PROVE CacheStands'
    BY <1>1, <2>5 DEF StringsDone, LoadTree, RejectInfo, RejectNode
  <2>6. CASE RewriteInfo
    BY <2>6 DEF RewriteInfo
  <2> QED BY <1>2, <1>3, <1>4, <1>5, <1>6, <1>7, <1>9, <2>1, <2>2, <2>3, <2>4, <2>5, <2>6
          DEF Step
<1>10. CASE Fault
  BY <1>1, <1>10
  DEF Fault, TearInfo, TearCodeResources, DamageExe, DamageDyLib, LoseCache, Crash, Edit
<1>11. CASE UNCHANGED vars
  BY <1>1, <1>11 DEF vars
<1> QED BY <1>8, <1>9, <1>10, <1>11 DEF Next

\* The provisioning profile is put back before the tree is walked, and nothing removes it
\* in the walk.
LEMMA ProvisionStandsKept ==
  TypeOK /\ ProvisionStands /\ [Next]_vars => ProvisionStands'
<1> SUFFICES ASSUME TypeOK, ProvisionStands, [Next]_vars, ~tainted' PROVE ProvisionStands'
  BY DEF ProvisionStands
<1> USE DEF Walking
<1>1. ASSUME pc' \in {"idle", "plugins", "unprovision", "provision"} PROVE ProvisionStands'
  BY <1>1 DEF ProvisionStands
<1>3. CASE \E o \in Options : Start(o)
  BY <1>1, <1>3 DEF Start
<1>4. CASE Step
  <2>1. ASSUME NEW b \in Bundles, RewritePlugIn(b) \/ RewriteInfo PROVE ProvisionStands'
    BY <2>1 DEF RewritePlugIn, RewriteInfo
  <2>2. ASSUME NEW r \in Strings, RewriteStrings(r) PROVE ProvisionStands'
    BY <2>2 DEF RewriteStrings, ProvisionStands
  <2>3. ASSUME StringsDone \/ RejectInfo \/ RejectNode \/ SaveCache PROVE ProvisionStands'
    BY <1>1, <2>3 DEF StringsDone, RejectInfo, RejectNode, SaveCache, ProcessEnds
  <2>4. ASSUME RemoveProvision PROVE ProvisionStands'
    BY <1>1, <2>4 DEF RemoveProvision
  <2>5. ASSUME WriteProvision PROVE ProvisionStands'
    BY <2>5, WriteChanges DEF WriteProvision, ProvisionStands
  <2>6. ASSUME pc' # "strings", ~tainted, pc \in Walking \cup {"copy"},
               disk' = disk \/ \E f : f # Prov /\ \E c, gone : Prov \notin gone /\ disk' = Exchange(f, c, gone)
        PROVE  ProvisionStands'
    BY <2>6 DEF ProvisionStands, Exchange, Present
  <2>7. ASSUME NEW d \in Dylibs, CopyDyLib(d) PROVE ProvisionStands'
    <3>1. Prov # Lib(d)
      BY FileNames
    <3> QED BY <2>6, <2>7, <3>1 DEF CopyDyLib, Write
  <2>8. ASSUME NEW d \in Dylibs, SignDyLib(d) PROVE ProvisionStands'
    <3>1. Prov # Lib(d) /\ \A grow : Prov \notin Cleared(grow, LibLeft(d))
      BY FileNames DEF Cleared
    <3> QED BY <2>6, <2>8, <3>1 DEF SignDyLib
  <2>9. ASSUME NEW d \in Dylibs, InjectDyLib(d) PROVE ProvisionStands'
    <3>1. Prov # Exe(at)
      BY FileNames DEF TypeOK
    <3> QED BY <2>6, <2>9, <3>1 DEF InjectDyLib, Write
  <2>10. ASSUME NEW b \in Bundles, EnterNode(b) PROVE ProvisionStands'
    BY <2>6, <2>10 DEF EnterNode
  <2>11. ASSUME LoadTree \/ WriteCodeResources PROVE ProvisionStands'
    <3>1. Prov # Res(at)
      BY FileNames DEF TypeOK
    <3> QED BY <2>6, <2>11, <3>1 DEF LoadTree, WriteCodeResources, CanSeal, Write
  <2>12. ASSUME SignExe PROVE ProvisionStands'
    <3>1. Prov # Exe(at) /\ \A grow : Prov \notin Cleared(grow, ExeLeft(at))
      BY FileNames DEF TypeOK, Cleared
    <3> QED BY <2>6, <2>12, <3>1 DEF SignExe
  <2>13. CASE RewriteInfo
    BY <2>13 DEF RewriteInfo
  <2> QED BY <1>4, <2>1, <2>2, <2>3, <2>4, <2>5, <2>7, <2>8, <2>9, <2>10, <2>11, <2>12, <2>13
          DEF Step
<1>5. CASE Fault
  BY <1>1, <1>5 DEF Fault, TearInfo, TearCodeResources, DamageExe, DamageDyLib, LoseCache, Crash,
                    Edit, ProcessEnds
<1>6. CASE UNCHANGED vars
  BY <1>6 DEF vars, ProvisionStands, Present
<1> QED BY <1>3, <1>4, <1>5, <1>6 DEF Next

\* A signing reports success after its last bundle, and nothing moves while that outcome
\* stands.
LEMMA Succeeds ==
  ASSUME Outcome, [Next]_vars, result' \in {"full", "cached"}
  PROVE  SaveCache \/ LoseCache \/ UNCHANGED vars
<1>1. ASSUME Next, ~SaveCache, ~LoseCache PROVE result' \notin {"full", "cached"}
  <2>1. CASE \E o \in Options : Start(o)
    BY <2>1 DEF Start
  <2>2. CASE Step
    BY <1>1, <2>2
    DEF Step, RewritePlugIn, EnterNode, RewriteStrings, CopyDyLib, SignDyLib, InjectDyLib,
        RewriteInfo, RejectInfo, StringsDone, RemoveProvision, WriteProvision, LoadTree,
        RejectNode, WriteCodeResources, CanSeal, SignExe, ProcessEnds, Outcome
  <2>3. CASE Fault
    BY <1>1, <2>3
    DEF Fault, TearInfo, TearCodeResources, DamageExe, DamageDyLib, Crash, Edit, ProcessEnds
  <2> QED BY <1>1, <2>1, <2>2, <2>3 DEF Next
<1> QED BY <1>1

\* What a run that may be relied on reports as a success is a valid application.
LEMMA SealsKept ==
  TypeOK /\ Outcome /\ SoundWalk /\ FullRunSealsApp /\ CachedRunSealsApp /\ [Next]_vars
    => FullRunSealsApp' /\ CachedRunSealsApp'
<1> SUFFICES ASSUME TypeOK, Outcome, SoundWalk, FullRunSealsApp, CachedRunSealsApp,
                    [Next]_vars, result' = "full" \/ (result' = "cached" /\ ~tainted')
             PROVE  AppValid' /\ (result' = "cached" => swept' = {})
  BY DEF FullRunSealsApp, CachedRunSealsApp
<1>1. ASSUME disk' = disk, swept' = swept, AppValid PROVE AppValid'
  <2>1. Signable' = Signable
    BY <1>1 DEF Signable
  <2> QED BY <1>1, <2>1 DEF AppValid, BundleValid, SealMatches, Listed, SignatureMatches, LibValid,
                            Covered, Present, Pages
<1>2. CASE SaveCache \/ LoseCache
  <2>1. pc = "save" /\ Reliable /\ disk' = disk /\ swept' = swept
    BY <1>2 DEF SaveCache, LoseCache, ProcessEnds, Reliable
  <2>2. TreeIsCurrent /\ DoneIsValid /\ done = Signable
    BY <2>1 DEF SoundWalk, Walking
  <2>3. AppValid
    BY <2>2 DEF DoneIsValid, TreeIsCurrent, AppValid
  <2>4. result' = "cached" => swept = {}
    BY <1>2 DEF SaveCache, LoseCache, ProcessEnds, Outcome
  <2> QED BY <1>1, <2>1, <2>3, <2>4
<1>3. CASE UNCHANGED vars
  BY <1>1, <1>3 DEF vars, FullRunSealsApp, CachedRunSealsApp
<1> QED BY <1>2, <1>3, Succeeds

\* All of it is inductive together: a run from the cache is sound because the seals it
\* finds are right about what it does not touch, and the next run finds them so because
\* this one, complete or killed anywhere, left them so.
LEMMA SealInvInductive ==
  /\ Init => SealInv
  /\ SealInv /\ [Next]_vars => SealInv'
<1>1. Init => SealInv
  BY InitTyped, InitSeal DEF SealInv
<1>2. SealInv /\ [Next]_vars => SealInv'
  BY NextTyped, OutcomeKept, SoundWalkKept, CacheStandsKept, ProvisionStandsKept, SealsKept
  DEF SealInv
<1> QED BY <1>1, <1>2

\* However many runs came before, however they ended, whatever they left and whatever was
\* edited in between: when a run that signs everything anew reports success, every seal and
\* every signature matches the files, in every bundle whose Info.plist and whose parents'
\* can be read, and no seal lists a file that is not there but one that a reallocation of an
\* earlier run had left and this run's has removed (bundle.cpp:276-388).
THEOREM FullRunSeals == Spec => []FullRunSealsApp
<1>1. SealInv => FullRunSealsApp
  BY DEF SealInv
<1> QED BY <1>1, SealInvInductive, PTL DEF Spec

\* A run from the cache leaves no such entry either, as long as since the last full signing
\* nothing happened that the cache does not describe (an edit, a write cut short, remains of
\* a reallocation taken away, another set of assets or names): what it hashes again is all
\* that may have changed, even when the runs before it were killed half-way
\* (bundle.cpp:205-268, 538-570).
THEOREM CachedRunSeals == Spec => []CachedRunSealsApp
<1>1. SealInv => CachedRunSealsApp
  BY DEF SealInv
<1> QED BY <1>1, SealInvInductive, PTL DEF Spec

(***************************************************************************)
(* Any signing, full or from the cache: what is finished stays as it is.   *)
(***************************************************************************)

\* Every step, of a full signing or of one from the cache, keeps the order of the walk.
LEMMA WalkOrderKept == TypeOK /\ WalkOrder /\ [Next]_vars => WalkOrder'
<1> SUFFICES ASSUME TypeOK, WalkOrder, [Next]_vars PROVE WalkOrder'
  OBVIOUS
<1>1. ASSUME done' = {}, pc' \notin {"files", "sign"} PROVE WalkOrder'
  BY <1>1 DEF WalkOrder
<1>2. ASSUME UNCHANGED <<pc, tree, done, at>>, todo' \subseteq todo PROVE WalkOrder'
  BY <1>2 DEF WalkOrder, Nodes
<1>3. ASSUME NEW b \in Bundles, EnterNode(b) PROVE WalkOrder'
  BY <1>3 DEF EnterNode, Ready, LooseDyLibs, WalkOrder, Walking, Nodes
<1>4. ASSUME WriteCodeResources PROVE WalkOrder'
  BY <1>4 DEF WriteCodeResources, CanSeal, WalkOrder, Walking, Nodes
<1>5. ASSUME SignExe PROVE WalkOrder'
  <2>1. pc = "sign" /\ done' = done \cup {at} /\ pc' \in {"walk", "save"} /\ Nodes' = Nodes
    BY <1>5 DEF SignExe, Nodes
  <2>2. \A b \in done' : Below[b] \cap Nodes \subseteq done'
    BY <2>1 DEF WalkOrder
  <2> QED BY <2>1, <2>2 DEF WalkOrder, Walking
<1>6. CASE \E o \in Options : Start(o)
  BY <1>1, <1>6 DEF Start, WalkOrder, Walking
<1>7. CASE Step
  <2>1. ASSUME NEW b \in Bundles, RewritePlugIn(b) PROVE WalkOrder'
    BY <1>2, <2>1 DEF RewritePlugIn
  <2>2. ASSUME NEW r \in Strings, RewriteStrings(r) PROVE WalkOrder'
    BY <1>2, <2>2 DEF RewriteStrings
  <2>3. ASSUME NEW d \in Dylibs, CopyDyLib(d) \/ SignDyLib(d) \/ InjectDyLib(d)
        PROVE  WalkOrder'
    BY <1>2, <2>3 DEF CopyDyLib, SignDyLib, InjectDyLib
  <2>4. ASSUME RewriteInfo \/ StringsDone \/ RemoveProvision \/ WriteProvision \/ LoadTree
        PROVE  WalkOrder'
    BY <1>1, <2>4 DEF RewriteInfo, StringsDone, RemoveProvision, WriteProvision, LoadTree,
                      WalkOrder, Walking
  <2>5. ASSUME RejectInfo \/ RejectNode \/ SaveCache PROVE WalkOrder'
    BY <1>1, <2>5 DEF RejectInfo, RejectNode, SaveCache, ProcessEnds
  <2> QED BY <1>3, <1>4, <1>5, <1>7, <2>1, <2>2, <2>3, <2>4, <2>5 DEF Step
<1>8. CASE Fault
  <2>1. ASSUME Edit PROVE WalkOrder'
    BY <1>2, <2>1 DEF Edit
  <2>2. ASSUME \/ TearInfo \/ TearCodeResources \/ DamageExe \/ LoseCache \/ Crash
               \/ \E d \in Dylibs : DamageDyLib(d)
        PROVE  WalkOrder'
    BY <1>1, <2>2
    DEF TearInfo, TearCodeResources, DamageExe, DamageDyLib, LoseCache, Crash, ProcessEnds
  <2> QED BY <1>8, <2>1, <2>2 DEF Fault
<1>9. CASE UNCHANGED vars
  BY <1>2, <1>9 DEF vars
<1> QED BY <1>6, <1>7, <1>8, <1>9 DEF Next

\* What one step may do to what a set of finished bundles depends on: nothing.
Frozen == \A b \in done : \A f \in Coverable(b) \cup {Exe(b), Res(b), Info(b)} :
            pc # "idle" => /\ Present(f)' = Present(f)
                           /\ Present(f) => disk'[f] = disk[f]

\* A step that changes files in the current bundle's own folder.
LEMMA FrozenUnder ==
  ASSUME TypeOK, WalkOrder, pc \in {"files", "sign"}, NEW G \in SUBSET Files, OnlyIn(G),
         \A g \in G : Home(g) = at
  PROVE  Frozen
<1>1. ASSUME NEW b \in done, NEW g \in G PROVE g \notin Signed(b)
  <2>1. b \in Bundles /\ at \notin Below[b]
    BY DEF TypeOK, WalkOrder
  <2> QED BY <1>1, <2>1, OutOfReach
<1>2. ASSUME NEW g, g \notin G
      PROVE  /\ g \in DOMAIN disk' <=> g \in DOMAIN disk
             /\ g \in DOMAIN disk => disk'[g] = disk[g]
  BY <1>2 DEF OnlyIn
<1> QED BY <1>1, <1>2 DEF Frozen, Signed, Present

LEMMA StepFrozen == TypeOK /\ WalkOrder /\ [Next]_vars => Frozen
<1> SUFFICES ASSUME TypeOK, WalkOrder, [Next]_vars PROVE Frozen
  OBVIOUS
<1>1. ASSUME disk' = disk PROVE Frozen
  BY <1>1 DEF Frozen, Present
<1>2. ASSUME pc \notin Walking \/ pc = "idle" PROVE Frozen
  BY <1>2 DEF Frozen, WalkOrder
<1>a. /\ DiskOK /\ at \in Bundles
      /\ {Exe(at), Res(at), ExeLeft(at)} \in SUBSET Files
      /\ \A g \in {Exe(at), Res(at), ExeLeft(at)} : Home(g) = at
  BY FileNames, Homes DEF TypeOK
<1>3. ASSUME pc \in {"files", "sign"}, NEW f \in {Exe(at), Res(at)}, NEW c, disk' = Write(f, c)
      PROVE  Frozen
  <2>1. OnlyIn({f}) /\ {f} \in SUBSET Files /\ \A g \in {f} : Home(g) = at
    BY <1>3, <1>a, WriteChanges
  <2> QED BY <1>3, <2>1, FrozenUnder
<1>4. ASSUME NEW d \in Dylibs, SignDyLib(d) \/ DamageDyLib(d) PROVE Frozen
  <2>1. pc = "files" /\ d \in todo /\ Present(Lib(d))
    BY <1>4 DEF SignDyLib, DamageDyLib
  <2>2. {Lib(d), LibLeft(d)} \in SUBSET Files /\ \A g \in {Lib(d), LibLeft(d)} : Home(g) = at
    BY <2>1, FileNames, Homes DEF WalkOrder
  <2>3. OnlyIn({Lib(d), LibLeft(d)})
    <3>1. IsMachO(disk[Lib(d)]) /\ Beside(Lib(d), LibLeft(d))
      BY <1>a, <2>1, FileNames, LeftNames DEF DiskOK, Present
    <3>2. CASE SignDyLib(d)
      <4>1. PICK grow \in Grows(disk[Lib(d)]) :
              disk' = Exchange(Lib(d), Sign(disk[Lib(d)], Missing, Missing, force, grow),
                               Cleared(grow, LibLeft(d)))
        BY <3>2 DEF SignDyLib
      <4>2. IsMachO(Sign(disk[Lib(d)], Missing, Missing, force, grow)) /\ grow \in BOOLEAN
        BY <3>1, SignedFile DEF Grows
      <4> QED BY <1>a, <3>1, <4>1, <4>2, SignChanges
    <3>3. CASE DamageDyLib(d)
      BY <1>a, <2>1, <3>1, <3>3, HalfChanges DEF DamageDyLib
    <3> QED BY <1>4, <3>2, <3>3
  <2> QED BY <2>1, <2>2, <2>3, FrozenUnder
<1>5. ASSUME NEW d \in Dylibs, InjectDyLib(d) PROVE Frozen
  BY <1>1, <1>3, <1>5 DEF InjectDyLib
<1>6. ASSUME WriteCodeResources \/ TearCodeResources PROVE Frozen
  BY <1>3, <1>6 DEF WriteCodeResources, TearCodeResources, CanSeal
<1>7. ASSUME SignExe \/ DamageExe PROVE Frozen
  <2>1. pc = "sign" /\ Present(Exe(at))
    BY <1>7 DEF SignExe, DamageExe, TypeOK
  <2>2. IsMachO(disk[Exe(at)]) /\ Beside(Exe(at), ExeLeft(at))
    BY <1>a, <2>1, FileNames, LeftNames DEF DiskOK, Present
  <2>3. OnlyIn({Exe(at), ExeLeft(at)})
    <3>1. CASE SignExe
      <4> DEFINE signed(grow) == Sign(disk[Exe(at)], tree.info[at], disk[Res(at)], hashAll, grow)
      <4>1. PICK grow \in Grows(disk[Exe(at)]) :
              disk' = Exchange(Exe(at), signed(grow), Cleared(grow, ExeLeft(at)))
        BY <3>1 DEF SignExe
      <4>2. IsMachO(signed(grow)) /\ grow \in BOOLEAN
        BY <2>2, SignedFile DEF Grows
      <4> HIDE DEF signed
      <4> QED BY <1>a, <2>2, <4>1, <4>2, SignChanges
    <3>2. CASE DamageExe
      BY <1>a, <2>1, <2>2, <3>2, HalfChanges DEF DamageExe
    <3> QED BY <1>7, <3>1, <3>2
  <2>4. {Exe(at), ExeLeft(at)} \in SUBSET Files /\ \A g \in {Exe(at), ExeLeft(at)} : Home(g) = at
    BY <1>a
  <2> QED BY <2>1, <2>3, <2>4, FrozenUnder
<1>8. CASE \E o \in Options : Start(o)
  BY <1>1, <1>8 DEF Start
<1>9. CASE Step
  <2>1. ASSUME NEW b \in Bundles, RewritePlugIn(b) PROVE Frozen
    BY <1>2, <2>1 DEF RewritePlugIn, Walking
  <2>2. ASSUME NEW r \in Strings, RewriteStrings(r) PROVE Frozen
    BY <1>2, <2>2 DEF RewriteStrings, Walking
  <2>3. ASSUME NEW d \in Dylibs, CopyDyLib(d) PROVE Frozen
    BY <1>2, <2>3 DEF CopyDyLib, Walking
  <2>4. ASSUME RewriteInfo \/ RemoveProvision \/ WriteProvision PROVE Frozen
    BY <1>2, <2>4 DEF RewriteInfo, RemoveProvision, WriteProvision, Walking
  <2>5. ASSUME NEW b \in Bundles, EnterNode(b) PROVE Frozen
    BY <1>1, <2>5 DEF EnterNode
  <2>6. ASSUME RejectInfo \/ StringsDone \/ LoadTree \/ RejectNode \/ SaveCache PROVE Frozen
    BY <1>1, <2>6 DEF RejectInfo, StringsDone, LoadTree, RejectNode, SaveCache
  <2> QED BY <1>4, <1>5, <1>6, <1>7, <1>9, <2>1, <2>2, <2>3, <2>4, <2>5, <2>6 DEF Step
<1>10. CASE Fault
  BY <1>1, <1>2, <1>4, <1>6, <1>7, <1>10 DEF Fault, TearInfo, LoseCache, Crash, Edit, Walking
<1>11. CASE UNCHANGED vars
  BY <1>1, <1>11 DEF vars
<1> QED BY <1>8, <1>9, <1>10, <1>11 DEF Next

\* However deep the tree and whatever the run works from: once SignNode has returned for a
\* bundle, no step of the run, and no fault in it, changes a file its signature depends on
\* (bundle.cpp:276-388).
THEOREM FinishedFrozen == Spec => FinishedStaysFrozen
<1>1. Init => TypeOK /\ WalkOrder
  BY InitTyped DEF Init, WalkOrder, Walking
<1>2. TypeOK /\ WalkOrder /\ [Next]_vars => (TypeOK /\ WalkOrder)'
  BY NextTyped, WalkOrderKept
<1>3. TypeOK /\ WalkOrder /\ [Next]_vars => [Frozen]_vars
  BY StepFrozen
<1> QED BY <1>1, <1>2, <1>3, PTL DEF Spec, FinishedStaysFrozen, Frozen

(***************************************************************************)
(* Whose signature it is.                                                  *)
(***************************************************************************)

\* What is finished keeps the stamp of this run, whatever the step does.
LEMMA DoneStamped ==
  ASSUME TypeOK, SoundWalk, WalkOrder, WalkStamps, [Next]_vars, pc \in Walking, Reliable,
         UNCHANGED <<opt, runs>>
  PROVE  /\ \A b \in done : ExeStamped(b)'
         /\ \A d \in Dylibs : Owner[d] \in done => LibStamped(d)'
<1>1. Frozen /\ pc # "idle" /\ DoneIsValid
  BY StepFrozen DEF SoundWalk, Walking
<1>2. ASSUME NEW b \in done PROVE ExeStamped(b)'
  <2>1. Present(Exe(b)) /\ ExeStamped(b)
    BY <1>1, <1>2 DEF WalkStamps, DoneIsValid, BundleValid, SignatureMatches
  <2>2. disk'[Exe(b)] = disk[Exe(b)]
    BY <1>1, <2>1 DEF Frozen
  <2> QED BY <2>1, <2>2 DEF ExeStamped
<1>3. ASSUME NEW d \in Dylibs, Owner[d] \in done PROVE LibStamped(d)'
  <2>1. LibStamped(d)
    BY <1>3 DEF WalkStamps, WalkOrder
  <2>2. Lib(d) \in Coverable(Owner[d])
    <3>1. Owner[d] \in Bundles /\ Owner[d] \in Below[Owner[d]]
      BY FilesAssumption, BundlesAssumption
    <3> QED BY <3>1, FileNames, Homes DEF Coverable
  <2>3. Present(Lib(d))' = Present(Lib(d))
        /\ (Present(Lib(d)) => disk'[Lib(d)] = disk[Lib(d)])
    BY <1>1, <1>3, <2>2 DEF Frozen
  <2> QED BY <2>1, <2>3 DEF LibStamped
<1> QED BY <1>2, <1>3

\* A dylib keeps its stamp when other files change.
LEMMA LibStampKept ==
  ASSUME NEW d \in Dylibs, NEW G, OnlyIn(G), Lib(d) \notin G, runs' = runs, LibStamped(d)
  PROVE  LibStamped(d)'
<1>1. Present(Lib(d))' => Present(Lib(d)) /\ disk'[Lib(d)] = disk[Lib(d)]
  BY DEF OnlyIn, Present
<1> QED BY <1>1 DEF LibStamped

LEMMA WalkStampsKept ==
  TypeOK /\ Outcome /\ SoundWalk /\ WalkOrder /\ WalkStamps /\ [Next]_vars => WalkStamps'
<1> SUFFICES ASSUME TypeOK, Outcome, SoundWalk, WalkOrder, WalkStamps, [Next]_vars
             PROVE  WalkStamps'
  OBVIOUS
<1> DEFINE AtStamped == \A d \in Dylibs : Owner[d] = at =>
                          LibStamped(d) \/ (pc = "files" /\ d \in todo)
<1>1. ASSUME pc' \notin Walking \/ ~Reliable' PROVE WalkStamps'
  BY <1>1 DEF WalkStamps
\* A step of the walk that finishes nothing.
<1>2. ASSUME pc \in Walking, Reliable, UNCHANGED <<opt, runs, done>>,
             pc' \in {"files", "sign"} => AtStamped'
      PROVE  WalkStamps'
  BY <1>2, DoneStamped DEF WalkStamps
<1>3. CASE LoadTree
  BY <1>3 DEF LoadTree, WalkOrder, WalkStamps, Walking
<1>4. ASSUME NEW b \in Bundles, EnterNode(b), Reliable' PROVE WalkStamps'
  <2>1. pc \in Walking /\ Reliable /\ at' = b /\ todo' = LooseDyLibs(b) /\ pc' = "files"
        /\ UNCHANGED <<disk, opt, runs, done>>
    BY <1>4 DEF EnterNode, Reliable, Walking
  <2>2. Nodes = Signable
        /\ tree.files = {d \in Dylibs : Present(Lib(d)) /\ Owner[d] \in Signable}
    BY <2>1, Described DEF SoundWalk, TypeOK
  <2>3. b \in Signable
    BY <1>4, <2>2 DEF EnterNode, Ready
  <2>4. ASSUME NEW d \in Dylibs, Owner[d] = b PROVE LibStamped(d)' \/ d \in todo'
    <3>1. d \in todo' \/ ~Present(Lib(d))
      BY <2>1, <2>2, <2>3, <2>4 DEF LooseDyLibs
    <3> QED BY <2>1, <3>1 DEF LibStamped, Present
  <2> QED BY <1>2, <2>1, <2>4
<1>5. ASSUME NEW d \in Dylibs, SignDyLib(d), Reliable' PROVE WalkStamps'
  <2>1. pc = "files" /\ Reliable /\ todo' = todo \ {d} /\ Present(Lib(d))
        /\ UNCHANGED <<opt, runs, done, pc, at>>
    BY <1>5 DEF SignDyLib, Reliable
  <2> DEFINE signed(grow) == Sign(disk[Lib(d)], Missing, Missing, force, grow)
  <2>2. PICK grow \in Grows(disk[Lib(d)]) :
          disk' = Exchange(Lib(d), signed(grow), Cleared(grow, LibLeft(d)))
    BY <1>5 DEF SignDyLib
  <2>3. IsMachO(signed(grow)) /\ signed(grow).sig.run = runs /\ grow \in BOOLEAN
    <3>1. IsMachO(disk[Lib(d)]) /\ grow \in BOOLEAN
      BY <2>1, FileNames DEF TypeOK, DiskOK, Present, Grows
    <3>2. signed(grow) = Sign(disk[Lib(d)], Missing, Missing, force, grow)
      OBVIOUS
    <3> HIDE DEF signed
    <3> QED BY <3>1, <3>2, SignedFile
  <2> HIDE DEF signed
  <2>4. OnlyIn({Lib(d), LibLeft(d)}) /\ disk'[Lib(d)] = signed(grow)
    BY <2>2, <2>3, LeftNames, SignChanges DEF TypeOK
  <2>5. LibStamped(d)'
    BY <2>1, <2>3, <2>4 DEF LibStamped
  <2>6. ASSUME NEW e \in Dylibs \ {d}, LibStamped(e) PROVE LibStamped(e)'
    <3>1. Lib(e) \notin {Lib(d), LibLeft(d)}
      BY <2>6, FileNames
    <3> QED BY <2>1, <2>4, <2>6, <3>1, LibStampKept
  <2>7. AtStamped'
    <3>1. AtStamped
      BY <2>1 DEF WalkStamps, Walking
    <3> QED BY <2>1, <2>5, <2>6, <3>1
  <2> QED BY <1>2, <2>1, <2>7 DEF Walking
<1>6. ASSUME NEW G, OnlyIn(G), \A g \in G : g[1] # "lib", runs' = runs
      PROVE  \A d \in Dylibs : LibStamped(d) => LibStamped(d)'
  <2> TAKE d \in Dylibs
  <2>1. Lib(d) \notin G
    BY <1>6, FileNames
  <2> QED BY <1>6, <2>1, LibStampKept
<1>7. ASSUME WriteCodeResources, Reliable' PROVE WalkStamps'
  <2>1. pc = "files" /\ Reliable /\ todo = {} /\ \E c : disk' = Write(Res(at), c)
        /\ UNCHANGED <<opt, runs, done, at>>
    BY <1>7 DEF WriteCodeResources, CanSeal, Reliable
  <2>2. \A d \in Dylibs : LibStamped(d) => LibStamped(d)'
    <3>1. OnlyIn({Res(at)})
      BY <2>1, WriteChanges
    <3>2. \A g \in {Res(at)} : g[1] # "lib"
      BY FileNames DEF TypeOK
    <3> QED BY <1>6, <2>1, <3>1, <3>2
  <2>3. AtStamped'
    BY <2>1, <2>2 DEF WalkStamps, Walking
  <2> QED BY <1>2, <2>1, <2>3 DEF Walking
<1>8. ASSUME NEW e \in Dylibs, InjectDyLib(e), Reliable' PROVE WalkStamps'
  <2>1. pc = "sign" /\ Reliable /\ (disk' = disk \/ \E c : disk' = Write(Exe(at), c))
        /\ UNCHANGED <<pc, opt, runs, done, at>>
    BY <1>8 DEF InjectDyLib, Reliable
  <2>2. \A d \in Dylibs : LibStamped(d) => LibStamped(d)'
    <3>1. CASE disk' = disk
      BY <2>1, <3>1 DEF LibStamped, Present
    <3>2. CASE \E c : disk' = Write(Exe(at), c)
      <4>1. OnlyIn({Exe(at)})
        BY <3>2, WriteChanges
      <4>2. \A g \in {Exe(at)} : g[1] # "lib"
        BY FileNames DEF TypeOK
      <4> QED BY <1>6, <2>1, <4>1, <4>2
    <3> QED BY <2>1, <3>1, <3>2
  <2>3. AtStamped'
    BY <2>1, <2>2 DEF WalkStamps, Walking
  <2> QED BY <1>2, <2>1, <2>3 DEF Walking
<1>9. ASSUME SignExe, Reliable' PROVE WalkStamps'
  <2>1. pc = "sign" /\ Reliable /\ done' = done \cup {at} /\ pc' \notin {"files", "sign"}
        /\ at \in Bundles /\ Present(Exe(at)) /\ UNCHANGED <<opt, runs, at>>
    BY <1>9 DEF SignExe, Reliable, TypeOK
  <2> DEFINE signed(grow) == Sign(disk[Exe(at)], tree.info[at], disk[Res(at)], hashAll, grow)
  <2>2. PICK grow \in Grows(disk[Exe(at)]) :
          disk' = Exchange(Exe(at), signed(grow), Cleared(grow, ExeLeft(at)))
    BY <1>9 DEF SignExe
  <2>3. /\ IsMachO(signed(grow)) /\ grow \in BOOLEAN
        /\ signed(grow).sig.asset = opt.asset /\ signed(grow).sig.run = runs
    <3>1. IsMachO(disk[Exe(at)]) /\ grow \in BOOLEAN
      BY <2>1, FileNames DEF TypeOK, DiskOK, Present, Grows
    <3>2. signed(grow) = Sign(disk[Exe(at)], tree.info[at], disk[Res(at)], hashAll, grow)
      OBVIOUS
    <3> HIDE DEF signed
    <3> QED BY <3>1, <3>2, SignedFile
  <2> HIDE DEF signed
  <2>4. OnlyIn({Exe(at), ExeLeft(at)}) /\ disk'[Exe(at)] = signed(grow)
    <3>1. Beside(Exe(at), ExeLeft(at))
      BY <2>1, LeftNames
    <3> QED BY <2>2, <2>3, <3>1, SignChanges DEF TypeOK
  <2>5. ExeStamped(at)'
    BY <2>1, <2>3, <2>4 DEF ExeStamped
  <2>6. \A d \in Dylibs : LibStamped(d) => LibStamped(d)'
    <3>1. \A g \in {Exe(at), ExeLeft(at)} : g[1] # "lib"
      BY <2>1, FileNames
    <3> QED BY <1>6, <2>1, <2>4, <3>1
  <2>7. \A d \in Dylibs : Owner[d] = at => LibStamped(d)'
    BY <2>1, <2>6 DEF WalkStamps, Walking
  <2>8. /\ \A b \in done : ExeStamped(b)'
        /\ \A d \in Dylibs : Owner[d] \in done => LibStamped(d)'
    BY <2>1, DoneStamped DEF Walking
  <2> QED BY <2>1, <2>5, <2>7, <2>8 DEF WalkStamps
<1>10. CASE \E o \in Options : Start(o)
  BY <1>1, <1>10 DEF Start, Walking
<1>11. CASE Step
  <2>1. ASSUME NEW b \in Bundles, RewritePlugIn(b) PROVE WalkStamps'
    BY <1>1, <2>1 DEF RewritePlugIn, Walking
  <2>2. ASSUME NEW r \in Strings, RewriteStrings(r) PROVE WalkStamps'
    BY <1>1, <2>2 DEF RewriteStrings, Walking
  <2>3. ASSUME NEW d \in Dylibs, CopyDyLib(d) PROVE WalkStamps'
    BY <1>1, <2>3 DEF CopyDyLib, Walking
  <2>4. ASSUME RewriteInfo \/ StringsDone \/ RemoveProvision \/ WriteProvision
        PROVE  WalkStamps'
    BY <1>1, <2>4 DEF RewriteInfo, StringsDone, RemoveProvision, WriteProvision, Walking
  <2>5. ASSUME RejectInfo \/ RejectNode \/ SaveCache PROVE WalkStamps'
    BY <1>1, <2>5 DEF RejectInfo, RejectNode, SaveCache, ProcessEnds, Walking
  <2> QED BY <1>1, <1>3, <1>4, <1>5, <1>7, <1>8, <1>9, <1>11, <2>1, <2>2, <2>3, <2>4, <2>5
          DEF Step
<1>12. CASE Fault
  BY <1>1, <1>12
  DEF Fault, TearInfo, TearCodeResources, DamageExe, DamageDyLib, LoseCache, Crash, Edit,
      ProcessEnds, Walking
<1>13. CASE UNCHANGED vars
  BY <1>13 DEF vars, WalkStamps, Reliable, ExeStamped, LibStamped, Present
<1> QED BY <1>10, <1>11, <1>12, <1>13 DEF Next

LEMMA StampsKept ==
  TypeOK /\ Outcome /\ SoundWalk /\ WalkStamps /\ SignedByThisRun /\ [Next]_vars
    => SignedByThisRun'
<1> SUFFICES ASSUME Outcome, SoundWalk, WalkStamps, SignedByThisRun, [Next]_vars,
                    result' = "full" \/ (result' = "cached" /\ ~tainted')
             PROVE  SignedByThisRun'
  BY DEF SignedByThisRun
<1>1. CASE SaveCache \/ LoseCache
  <2>1. pc = "save" /\ Reliable /\ UNCHANGED <<disk, opt, runs>>
    BY <1>1 DEF SaveCache, LoseCache, ProcessEnds, Reliable
  <2>2. done = Signable /\ Signable' = Signable
    BY <2>1 DEF SoundWalk, Walking, Signable
  <2>3. /\ \A b \in Signable : ExeStamped(b)
        /\ \A d \in Dylibs : Owner[d] \in Signable => LibStamped(d)
    BY <2>1, <2>2 DEF WalkStamps, Walking
  <2> QED BY <2>1, <2>2, <2>3 DEF SignedByThisRun, ExeStamped, LibStamped, Present
<1>2. CASE UNCHANGED vars
  BY <1>2 DEF vars, SignedByThisRun, Present, Signable
<1> QED BY <1>1, <1>2, Succeeds

\* A run that reports success, full or from a cache that may be relied on, has signed with its
\* own asset every executable, and anew every dylib, of all bundles that its tree has nodes of:
\* none of them keeps the signature of an earlier run or signer (bundle.cpp:276-388).  The
\* bundles left out, as their Info.plist or one around it was cut off, are the exception.
THEOREM SignedByRun == Spec => []SignedByThisRun
<1> DEFINE Inv == SealInv /\ WalkOrder /\ WalkStamps /\ SignedByThisRun
<1>1. Init => Inv
  BY SealInvInductive
  DEF Init, WalkOrder, WalkStamps, SignedByThisRun, Walking
<1>2. Inv /\ [Next]_vars => Inv'
  BY SealInvInductive, WalkOrderKept, WalkStampsKept, StampsKept DEF SealInv
<1>3. Inv => SignedByThisRun
  OBVIOUS
<1> QED BY <1>1, <1>2, <1>3, PTL DEF Spec
===============================================================================
