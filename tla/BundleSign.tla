------------------------------ MODULE BundleSign ------------------------------
(***************************************************************************)
(* Signing an application folder: ZAppBundle of bundle.cpp, run again and  *)
(* again on the same folder by separate zsign processes that share only    *)
(* the folder and the cache file .zsign_cache/<sha1 of path>.json.         *)
(*                                                                         *)
(* A bundle is a folder with an Info.plist and an executable; bundles nest.*)
(* The hash of a file is modelled by the file's content: CodeResources is  *)
(* the function from the files it lists to the contents it recorded, and a *)
(* signature holds the CodeResources and the Info.plist it was made over.  *)
(* Signing stamps a binary with the run that signed it, because the CMS    *)
(* signature differs on every signing.                                     *)
(*                                                                         *)
(* A run may be killed, or leave early because a write failed, after any   *)
(* step, and leave an Info.plist, a CodeResources or the cache cut off, or *)
(* what a reallocation was making beside its file; the user may edit the   *)
(* folder between runs.                                                    *)
(***************************************************************************)
EXTENDS Naturals, FiniteSets

CONSTANTS
  Bundles,     \* the nodes of the tree: the application and its nested bundles
  Root,        \* the application itself, path "/"
  Below,       \* Below[b]: the bundles inside b's folder, b included
  PlugIns,     \* the nested bundles that are .app or .appex
  Dylibs,      \* names of *.dylib files
  Owner,       \* Owner[d]: the innermost bundle whose folder holds d
  Injectable,  \* the dylibs that -l may copy into the application
  Resources,   \* every other file
  Holder,      \* Holder[r]: the innermost bundle whose folder holds r
  Strings,     \* the resources that are InfoPlist.strings files
  Omitted,     \* the resources the rules leave out of files2
  Assets,      \* signing identities
  Provisioned, \* the assets that come with a provisioning profile
  Idents,      \* contents an Info.plist, or a resource, may have
  Original,    \* the one every Info.plist and resource starts with
  Options,     \* the command lines a run may have
  Faults,      \* which faults may happen: see FaultKinds
  MaxRuns,     \* bound on the number of runs
  Cut,         \* an Info.plist cut off before its identifier or its executable's name
  Missing      \* stands for nothing: no cache, no entry, the hash of an absent file

FaultKinds == {"crash", "torn", "damage", "grow", "edit"}

ASSUME BundlesAssumption ==
  /\ Root \in Bundles
  /\ Below \in [Bundles -> SUBSET Bundles]
  /\ Below[Root] = Bundles
  /\ \A b \in Bundles : b \in Below[b]
  /\ \A b \in Bundles : \A c \in Below[b] : Below[c] \subseteq Below[b]
  /\ \A b \in Bundles : \A c \in Below[b] : b \in Below[c] => b = c

ASSUME FilesAssumption ==
  /\ PlugIns \subseteq Bundles \ {Root}
  /\ Owner \in [Dylibs -> Bundles]
  /\ Injectable \subseteq Dylibs
  /\ \A d \in Injectable : Owner[d] = Root
  /\ Holder \in [Resources -> Bundles]
  /\ Strings \subseteq Resources
  /\ \A r \in Strings : Holder[r] = Root
  /\ Omitted \subseteq Resources

ASSUME OptionsAssumption ==
  /\ Provisioned \subseteq Assets
  /\ Original \in Idents
  /\ Missing \notin Idents \cup Assets
  /\ Cut \notin Idents \cup {Missing}
  /\ Options \subseteq [force : BOOLEAN, asset : Assets, rename : {"none", "id", "name"},
                        ident : Idents, inject : SUBSET Injectable, weak : BOOLEAN]
  /\ Faults \subseteq FaultKinds
  /\ MaxRuns \in Nat

(***************************************************************************)
(* Files.  A file is named by its kind and by what it belongs to.          *)
(***************************************************************************)
Info(b) == <<"info", b>>   \* Info.plist
Exe(b)  == <<"exe", b>>    \* the bundle's executable
Res(b)  == <<"res", b>>    \* _CodeSignature/CodeResources
Lib(d)  == <<"lib", d>>
Data(r) == <<"data", r>>
Prov    == <<"prov", Root>> \* embedded.mobileprovision
\* The files *.archo.N and *.fato that a reallocation makes beside a binary: one for all.
ExeLeft(b) == <<"exeleft", b>>
LibLeft(d) == <<"libleft", d>>

Files == ({"info", "exe", "res", "exeleft"} \X Bundles) \cup ({"lib", "libleft"} \X Dylibs)
           \cup ({"data"} \X Resources) \cup {Prov}

\* The innermost bundle whose folder holds file f.
Home(f) == CASE f[1] \in {"lib", "libleft"} -> Owner[f[2]]
             [] f[1] = "data"              -> Holder[f[2]]
             [] OTHER                      -> f[2]

\* What CodeResources of b may list: all in b's folder but b's own executable and
\* CodeResources, and what the omit rules of files2 leave out.
Coverable(b) ==
  {f \in Files : /\ Home(f) \in Below[b]
                 /\ f \notin {Info(b), Exe(b), Res(b)}
                 /\ ~(f[1] = "data" /\ f[2] \in Omitted)}

VARIABLES
  disk,    \* disk[f]: the content of file f, for the files that are there
  cache,   \* the cached tree, or Missing
  pc,      \* the step of SignFolder the running process is at, or "idle"
  opt,     \* the running (or last) process's command line
  runs,    \* how many processes have been started
  force,   \* m_bForceSign
  paths,   \* m_arrDyLibPaths
  tree,    \* jvRoot: per bundle the Info.plist it describes, or Cut for one that it has no
           \* node of, and the dylibs to sign
  done,    \* the bundles whose SignNode has returned true
  at,      \* the bundle whose SignNode body is running
  hashAll, \* SignNode's local bForceSign
  todo,    \* what the current loop has left
  result,  \* how the last process ended: "none", "failed", "cached" or "full"
  tainted, \* history: something happened that a cached run does not look at
  swept    \* history: the bundles whose executable was reallocated by the last run where an
           \* earlier reallocation had left files, after CodeResources had listed them

vars == <<disk, cache, pc, opt, runs, force, paths, tree, done, at, hashAll, todo,
          result, tainted, swept>>

Present(f)  == f \in DOMAIN disk
\* The folder with a file written, and others removed.
Exchange(f, c, gone) ==
  [g \in (DOMAIN disk \cup {f}) \ gone |-> IF g = f THEN c ELSE disk[g]]
Write(f, c) == Exchange(f, c, {})
Remove(f)   == [g \in DOMAIN disk \ {f} |-> disk[g]]

\* SHASumFile: hashing a file that is not there succeeds too.
SHASumFile(f) == IF Present(f) THEN disk[f] ELSE Missing

Covered(b) == {f \in Coverable(b) : Present(f)}

NoCmds  == [d \in Injectable |-> "none"]
LoadKind(weak) == IF weak THEN "weak" ELSE "strong"

\* A Mach-O file nobody has signed: load commands injected, whether it was reallocated, how
\* often its sizes were edited, signature.
NoSig    == [info |-> Missing, res |-> Missing, slots |-> Missing, asset |-> Missing, run |-> 0]
Unsigned == [cmds |-> NoCmds, room |-> FALSE, edits |-> 0, sig |-> NoSig]

\* The pages of a Mach-O file, as its code slots hash them.
Pages(bin) == <<bin.cmds, bin.edits>>

\* Mutant of RehashesPages: the caller's bForce is ignored.
RehashesPagesIfUnsigned(bin, rehash) == bin.sig.slots = Missing
RehashesPages(bin, rehash) == rehash \/ bin.sig.slots = Missing

\* What a reallocation edits in __LINKEDIT, in the first page.
Resized(bin) == [bin EXCEPT !.edits = @ + 1]

\* ZMachO::Sign on a file: the code slots of a signature that is there are kept
\* unless rehash; grow: there was no room and the file had to be reallocated.
Sign(bin, inf, res, rehash, grow) ==
  LET new == IF grow THEN [Resized(bin) EXCEPT !.room = TRUE] ELSE bin
  IN  [new EXCEPT !.sig =
         [info |-> inf, res |-> res, asset |-> opt.asset, run |-> runs,
          slots |-> IF RehashesPages(bin, rehash) THEN Pages(new) ELSE bin.sig.slots]]

\* Whether this signing runs out of room: a reallocation that goes well leaves enough.
Grows(bin) == {FALSE} \cup (IF "grow" \in Faults /\ ~bin.room THEN {TRUE} ELSE {})

\* What it had left beside the file before goes with it.
Cleared(grow, left) == IF grow THEN {left} ELSE {}

\* The folders that a reallocation leaves that fails or is killed: it starts by removing what
\* is beside the file, and copies the file when its sizes are edited.
HalfReallocated(f, left) ==
  {Remove(left)} \cup
    IF disk[f].room THEN {}
    ELSE {Exchange(f, Resized(disk[f]), {left}),
          [Exchange(left, runs, {}) EXCEPT ![f] = Resized(disk[f])],
          Exchange(left, runs, {f})}

\* GenerateCodeResources: everything in the folder, as it is now.
GenerateCodeResources(b) == [f \in Covered(b) |-> disk[f]]

\* The bundles that the tree has nodes of.
Nodes == {b \in Bundles : tree.info[b] # Cut}

\* The loose dylibs SignNode signs for b.
LooseDyLibs(b) == {d \in tree.files : Owner[d] = b}

\* Mutant of ChangedFiles: the nested bundles' executables are forgotten.
ChangedFilesButExes(b) ==
  {Lib(d) : d \in UNION {LooseDyLibs(c) : c \in Below[b]}}
    \cup {Res(c) : c \in (Below[b] \cap Nodes) \ {b}} \cup (IF b = Root THEN {Prov} ELSE {})
\* GetChangedFiles and GetNodeChangedFiles: what signing the tree rewrites below b.
ChangedFiles(b) ==
  {Lib(d) : d \in UNION {LooseDyLibs(c) : c \in Below[b]}}
    \cup (UNION {{Res(c), Exe(c)} : c \in (Below[b] \cap Nodes) \ {b}})
    \cup (IF b = Root THEN {Prov} ELSE {})

\* The cached branch: the old list with the changed files hashed again.
UpdateCodeResources(b) ==
  LET old     == disk[Res(b)]
      changed == ChangedFiles(b)
  IN  [f \in DOMAIN old \cup changed |-> IF f \in changed THEN SHASumFile(f) ELSE old[f]]

\* Mutant of CodeResources: a list that is there is used by a full signing as well.
CodeResourcesOnce(b) ==
  IF ~Present(Res(b)) THEN GenerateCodeResources(b)
  ELSE IF disk[Res(b)] = Missing THEN GenerateCodeResources(b)
  ELSE UpdateCodeResources(b)
\* A CodeResources that is not there, or does not parse, is generated.
CodeResources(b) ==
  IF force \/ ~Present(Res(b)) THEN GenerateCodeResources(b)
  ELSE IF disk[Res(b)] = Missing THEN GenerateCodeResources(b)
  ELSE UpdateCodeResources(b)

\* A CodeResources cut short parses to a part of it (one lost entry stands for any lost
\* tail), or to nothing.
Without(m, g) == [f \in DOMAIN m \ {g} |-> m[f]]

\* A cache file cut short: sha2 is the last key of every node, and the root's is
\* the last key of the file.
CutCache(t) == {[t EXCEPT !.info = [b \in Bundles |-> IF b \in lost THEN Missing ELSE @[b]]] :
                  lost \in {s \in SUBSET {b \in Bundles : t.info[b] # Cut} : Root \in s}}

\* A bundle is left out of the tree, without a word, with all bundles and dylibs inside it,
\* when its Info.plist does not tell the identifier and the executable.
Signable == {b \in Bundles : \A c \in Bundles : b \in Below[c] => disk[Info(c)] # Cut}

\* Mutant of BuildTree: the search for dylibs does not enter nested folders.
BuildShallowTree == [info  |-> [b \in Bundles |-> IF b \in Signable THEN disk[Info(b)] ELSE Cut],
                     files |-> {d \in Dylibs : Present(Lib(d)) /\ Owner[d] = Root}]
\* GetSignFolderInfo and GetObjectsToSign on the folder as it is.
BuildTree == [info  |-> [b \in Bundles |-> IF b \in Signable THEN disk[Info(b)] ELSE Cut],
              files |-> {d \in Dylibs : Present(Lib(d)) /\ Owner[d] \in Signable}]
NoTree    == [info  |-> [b \in Bundles |-> Missing], files |-> {}]

(***************************************************************************)
(* One process.  The steps up to the walk are SignFolder's; a run whose    *)
(* options do not ask for a step passes through it.                        *)
(***************************************************************************)
\* An application nobody has signed yet; its dylibs to inject are elsewhere.
InitialFiles == {f \in Files : /\ f[1] \in {"info", "data", "exe", "lib"}
                               /\ ~(f[1] = "lib" /\ f[2] \in Injectable)}
InitialContent(f) == IF f[1] \in {"info", "data"} THEN Original ELSE Unsigned

Init ==
  /\ disk = [f \in InitialFiles |-> InitialContent(f)]
  /\ cache = Missing
  /\ pc = "idle"
  /\ opt \in Options
  /\ runs = 0
  /\ force = FALSE
  /\ paths = {}
  /\ tree = NoTree
  /\ done = {}
  /\ at = Root
  /\ hashAll = FALSE
  /\ todo = {}
  /\ result = "none"
  /\ tainted = FALSE
  /\ swept = {}

\* The process ends and its memory with it; the folder, the cache and, for the
\* properties, the command line and the outcome stay.
ProcessEnds(outcome) ==
  /\ pc' = "idle"
  /\ result' = outcome
  /\ force' = FALSE
  /\ paths' = {}
  /\ tree' = NoTree
  /\ done' = {}
  /\ at' = Root
  /\ hashAll' = FALSE
  /\ todo' = {}
  /\ UNCHANGED <<opt, runs, swept>>

\* SignFolder begins: fields set; -b, -n and -r force a full signing.
Start(o) ==
  /\ pc = "idle"
  /\ runs < MaxRuns
  /\ runs' = runs + 1
  /\ opt' = o
  /\ force' = (o.force \/ o.rename # "none")
  /\ pc' = IF o.rename = "none" THEN "unprovision" ELSE "plugins"
  /\ todo' = IF o.rename = "id" THEN PlugIns ELSE {}
  /\ result' = "none"
  /\ swept' = {}
  /\ UNCHANGED <<disk, cache, paths, tree, done, at, hashAll, tainted>>

\* Mutant of SignsAll: nobody looks whether there is a cache.
SignsAllIfForced == force
SignsAll == force \/ cache = Missing

\* The folders that rewriting an Info.plist, which may be too short to be read, leaves: nobody
\* looks whether it was written.  (One cut off further behind is a content like any other.)
Rewritings(b) ==
  IF disk[Info(b)] = Cut THEN {disk}
  ELSE {Write(Info(b), opt.ident)} \cup IF "torn" \in Faults THEN {disk, Write(Info(b), Cut)} ELSE {}

\* -b rewrites the identifiers in the plug-ins' Info.plist, one file at a time.
RewritePlugIn(b) ==
  /\ pc = "plugins"
  /\ disk[Info(Root)] # Cut
  /\ b \in todo
  /\ todo' = todo \ {b}
  /\ disk' \in Rewritings(b)
  /\ tainted' = TRUE
  /\ UNCHANGED <<cache, pc, opt, runs, force, paths, tree, done, at, hashAll, result, swept>>

\* Then the application's own Info.plist is written.
RewriteInfo ==
  /\ pc = "plugins"
  /\ disk[Info(Root)] # Cut
  /\ todo = {}
  /\ disk' \in Rewritings(Root)
  /\ tainted' = TRUE
  /\ pc' = "strings"
  /\ todo' = IF opt.rename = "name" THEN {r \in Strings : Present(Data(r))} ELSE {}
  /\ UNCHANGED <<cache, opt, runs, force, paths, tree, done, at, hashAll, result, swept>>

\* The process is killed while it writes one of them.
TearInfo ==
  /\ "torn" \in Faults
  /\ pc = "plugins"
  /\ disk[Info(Root)] # Cut
  /\ \E b \in IF todo = {} THEN {Root} ELSE todo : disk' = Write(Info(b), Cut)
  /\ tainted' = TRUE
  /\ ProcessEnds("failed")
  /\ UNCHANGED cache

\* -b and -n need the application's Info.plist, and so does a full signing.
RejectInfo ==
  /\ disk[Info(Root)] = Cut
  /\ pc = "plugins" \/ (pc = "copy" /\ todo = {} /\ SignsAll)
  /\ ProcessEnds("failed")
  /\ UNCHANGED <<disk, cache, tainted>>

\* -n also rewrites the InfoPlist.strings that are there, if it can.
RewriteStrings(r) ==
  /\ pc = "strings"
  /\ r \in todo
  /\ todo' = todo \ {r}
  /\ disk' \in {Write(Data(r), opt.ident)} \cup IF "torn" \in Faults THEN {disk} ELSE {}
  /\ UNCHANGED <<cache, pc, opt, runs, force, paths, tree, done, at, hashAll, result, tainted, swept>>

StringsDone ==
  /\ pc = "strings"
  /\ todo = {}
  /\ pc' = "unprovision"
  /\ UNCHANGED <<disk, cache, opt, runs, force, paths, tree, done, at, hashAll, todo,
                 result, tainted, swept>>

\* embedded.mobileprovision is removed, whether or not there is one to put back.
RemoveProvision ==
  /\ pc = "unprovision"
  /\ disk' = Remove(Prov)
  /\ pc' = IF opt.asset \in Provisioned THEN "provision" ELSE "copy"
  /\ todo' = IF opt.asset \in Provisioned THEN {} ELSE opt.inject
  /\ tainted' = (tainted \/ opt.asset \notin Provisioned)
  /\ UNCHANGED <<cache, opt, runs, force, paths, tree, done, at, hashAll, result, swept>>

WriteProvision ==
  /\ pc = "provision"
  /\ disk' = Write(Prov, opt.asset)
  /\ pc' = "copy"
  /\ todo' = opt.inject
  /\ UNCHANGED <<cache, opt, runs, force, paths, tree, done, at, hashAll, result, tainted, swept>>

\* A dylib given with -l is copied into the application; one that cannot be read or
\* written is passed over.
CopyDyLib(d) ==
  /\ pc = "copy"
  /\ d \in todo
  /\ todo' = todo \ {d}
  /\ \/ /\ disk' = Write(Lib(d), Unsigned)
        /\ paths' = paths \cup {d}
        /\ tainted' = TRUE
     \/ UNCHANGED <<disk, paths, tainted>>
  /\ UNCHANGED <<cache, pc, opt, runs, force, tree, done, at, hashAll, result, swept>>

\* Without a cache file the signing is full; else the tree is what the cache says.
LoadTree ==
  /\ pc = "copy"
  /\ todo = {}
  /\ SignsAll => disk[Info(Root)] # Cut
  /\ force' = SignsAll
  /\ tree' = IF SignsAll THEN BuildTree ELSE cache
  /\ pc' = "walk"
  /\ UNCHANGED <<disk, cache, opt, runs, paths, done, at, hashAll, todo, result, tainted, swept>>

(***************************************************************************)
(* SignNode, depth first: a bundle's body runs when all its folders have   *)
(* returned, and a subtree is finished before its sibling is begun.        *)
(***************************************************************************)
\* Mutant of Ready: a bundle may be signed before the bundles inside it.
ReadyInAnyOrder(b) == b \in Nodes \ done
Ready(b) ==
  /\ b \in Nodes \ done
  /\ (Below[b] \cap Nodes) \ {b} \subseteq done
  /\ \A c \in Nodes \ done : Below[c] \cap done # {} => b \in Below[c]

EnterNode(b) ==
  /\ pc = "walk"
  /\ Ready(b)
  /\ at' = b
  /\ todo' = LooseDyLibs(b)
  /\ pc' = "files"
  /\ UNCHANGED <<disk, cache, opt, runs, force, paths, tree, done, hashAll, result, tainted, swept>>

\* A loose dylib of this bundle is signed.
SignDyLib(d) ==
  /\ pc = "files"
  /\ d \in todo
  /\ Present(Lib(d))
  /\ todo' = todo \ {d}
  /\ \E grow \in Grows(disk[Lib(d)]) :
       LET new == Sign(disk[Lib(d)], Missing, Missing, force, grow)
       IN  /\ disk' = Exchange(Lib(d), new, Cleared(grow, LibLeft(d)))
           /\ tainted' = (tainted \/ new.sig.slots # Pages(new) \/ (grow /\ Present(LibLeft(d))))
  /\ UNCHANGED <<cache, pc, opt, runs, force, paths, tree, done, at, hashAll, result, swept>>

\* Its reallocation fails.
DamageDyLib(d) ==
  /\ "damage" \in Faults
  /\ pc = "files"
  /\ d \in todo
  /\ Present(Lib(d))
  /\ disk' \in HalfReallocated(Lib(d), LibLeft(d))
  /\ tainted' = TRUE
  /\ ProcessEnds("failed")
  /\ UNCHANGED cache

\* A dylib of the tree, the executable or the tree's own data is not there.
Broken == \/ \E d \in todo : ~Present(Lib(d))
          \/ todo = {} /\ (tree.info[at] = Missing \/ ~Present(Exe(at)))

RejectNode ==
  /\ pc = "files"
  /\ Broken
  /\ ProcessEnds("failed")
  /\ UNCHANGED <<disk, cache, tainted>>

CanSeal ==
  /\ pc = "files"
  /\ todo = {}
  /\ tree.info[at] # Missing
  /\ Present(Exe(at))

\* _CodeSignature/CodeResources is computed and written.
WriteCodeResources ==
  /\ CanSeal
  /\ disk' = Write(Res(at), CodeResources(at))
  /\ hashAll' = force
  /\ todo' = IF at = Root THEN paths ELSE {}
  /\ pc' = "sign"
  /\ UNCHANGED <<cache, opt, runs, force, paths, tree, done, at, result, tainted, swept>>

\* The process dies while it writes it.
TearCodeResources ==
  /\ "torn" \in Faults
  /\ CanSeal
  /\ \/ disk' = Write(Res(at), Missing)
     \/ \E f \in DOMAIN CodeResources(at) :
          disk' = Write(Res(at), Without(CodeResources(at), f))
  /\ tainted' = TRUE
  /\ ProcessEnds("failed")
  /\ UNCHANGED cache

\* A load command for a copied dylib goes into the root's executable.  The command may
\* be there already, perhaps with the other load type, which is then changed in place;
\* there may be no room for it, which nobody looks at.
InjectDyLib(d) ==
  /\ pc = "sign"
  /\ d \in todo
  /\ todo' = todo \ {d}
  /\ \/ /\ disk' = Write(Exe(at), [disk[Exe(at)] EXCEPT !.cmds[d] = LoadKind(opt.weak)])
        /\ hashAll' = (hashAll \/ disk[Exe(at)].cmds[d] = "none")
     \/ /\ disk[Exe(at)].cmds[d] = "none"
        /\ UNCHANGED <<disk, hashAll>>
  /\ UNCHANGED <<cache, pc, opt, runs, force, paths, tree, done, at, result, tainted, swept>>

\* The executable is signed over the Info.plist the tree describes and CodeResources.
SignExe ==
  /\ pc = "sign"
  /\ todo = {}
  /\ \E grow \in Grows(disk[Exe(at)]) :
       LET new    == Sign(disk[Exe(at)], tree.info[at], disk[Res(at)], hashAll, grow)
           sweeps == grow /\ Present(ExeLeft(at))
       IN  /\ disk' = Exchange(Exe(at), new, Cleared(grow, ExeLeft(at)))
           /\ tainted' = (tainted \/ new.sig.slots # Pages(new) \/ sweeps)
           /\ swept' = IF sweeps THEN swept \cup {at} ELSE swept
  /\ done' = done \cup {at}
  /\ pc' = IF at = Root THEN "save" ELSE "walk"
  /\ UNCHANGED <<cache, opt, runs, force, paths, tree, at, hashAll, todo, result>>

\* Its reallocation fails: the old file may be gone, or left with an edited first page.
DamageExe ==
  /\ "damage" \in Faults
  /\ pc = "sign"
  /\ todo = {}
  /\ disk' \in HalfReallocated(Exe(at), ExeLeft(at))
  /\ tainted' = TRUE
  /\ ProcessEnds("failed")
  /\ UNCHANGED cache

\* The cache is written and SignFolder returns true.
SaveCache ==
  /\ pc = "save"
  /\ cache' = tree
  /\ tainted' = IF force THEN swept # {} ELSE tainted
  /\ ProcessEnds(IF force THEN "full" ELSE "cached")
  /\ UNCHANGED disk

\* The cache cannot be written, or is cut short: nobody looks, and the run is a success.
LoseCache ==
  /\ "torn" \in Faults
  /\ pc = "save"
  /\ cache' \in {cache} \cup CutCache(tree)
  /\ tainted' = TRUE
  /\ ProcessEnds(IF force THEN "full" ELSE "cached")
  /\ UNCHANGED disk

\* The process is killed, or a step it was about to take fails.
Crash ==
  /\ "crash" \in Faults
  /\ pc # "idle"
  /\ ProcessEnds("failed")
  /\ UNCHANGED <<disk, cache, tainted>>

\* Between runs the user replaces a resource or an Info.plist, or removes a dylib
\* (one edit between two runs bounds the model).
Edit ==
  /\ "edit" \in Faults
  /\ pc = "idle"
  /\ result # "none"
  /\ \/ \E i \in Idents : \/ \E r \in Resources : disk' = Write(Data(r), i)
                          \/ \E b \in Bundles : disk' = Write(Info(b), i)
     \/ \E d \in Dylibs : disk' = Remove(Lib(d))
  /\ disk' # disk
  /\ tainted' = TRUE
  /\ result' = "none"
  /\ UNCHANGED <<cache, pc, opt, runs, force, paths, tree, done, at, hashAll, todo, swept>>

\* What the process does by itself, as opposed to what is done to it.
Step ==
  \/ \E b \in Bundles : RewritePlugIn(b) \/ EnterNode(b)
  \/ \E r \in Strings : RewriteStrings(r)
  \/ \E d \in Dylibs : CopyDyLib(d) \/ SignDyLib(d) \/ InjectDyLib(d)
  \/ RewriteInfo \/ RejectInfo \/ StringsDone \/ RemoveProvision \/ WriteProvision \/ LoadTree
  \/ RejectNode \/ WriteCodeResources \/ SignExe \/ SaveCache

Fault == \/ TearInfo \/ TearCodeResources \/ DamageExe \/ LoseCache \/ Crash \/ Edit
         \/ \E d \in Dylibs : DamageDyLib(d)

Next == (\E o \in Options : Start(o)) \/ Step \/ Fault

Spec == Init /\ [][Next]_vars

(***************************************************************************)
(* Properties.                                                             *)
(***************************************************************************)
Steps == {"idle", "plugins", "strings", "unprovision", "provision", "copy", "walk",
          "files", "sign", "save"}
Walking == {"walk", "files", "sign", "save"}

Trees == [info : [Bundles -> Idents \cup {Cut, Missing}], files : SUBSET Dylibs]

\* What the loop of each step works through.
Pending(step) == CASE step = "plugins" -> PlugIns
                   [] step = "strings" -> Strings
                   [] step = "files"   -> Dylibs
                   [] step \in {"copy", "sign"} -> Injectable
                   [] OTHER -> {}

\* (Nothing is said of the type of a recorded CodeResources: it holds contents of files.)
IsMachO(x) ==
  /\ x = [cmds |-> x.cmds, room |-> x.room, edits |-> x.edits, sig |-> x.sig]
  /\ x.cmds \in [Injectable -> {"none", "strong", "weak"}]
  /\ x.room \in BOOLEAN
  /\ x.edits \in Nat

DiskOK ==
  /\ DOMAIN disk \subseteq Files
  /\ disk = [f \in DOMAIN disk |-> disk[f]]
  /\ \A f \in DOMAIN disk : f[1] \in {"exe", "lib"} => IsMachO(disk[f])
  /\ \A b \in Bundles : Present(Info(b)) /\ disk[Info(b)] \in Idents \cup {Cut}

\* Every variable has its type, what the process remembers is in range, and the executable
\* it is about to sign is there.
TypeOK ==
  /\ DiskOK
  /\ cache \in Trees \cup {Missing}
  /\ pc \in Steps
  /\ opt \in Options
  /\ runs \in 0 .. MaxRuns
  /\ force \in BOOLEAN
  /\ paths \subseteq Injectable
  /\ tree \in Trees
  /\ done \subseteq Bundles
  /\ at \in Bundles
  /\ hashAll \in BOOLEAN
  /\ todo \subseteq Pending(pc)
  /\ result \in {"none", "failed", "cached", "full"}
  /\ tainted \in BOOLEAN
  /\ swept \subseteq Bundles
  /\ pc = "sign" => Present(Exe(at))

\* CodeResources of b lists exactly the files of b's folder, with their hashes; it may only
\* still list what the reallocation of b's executable has taken away since.
Listed(b) == DOMAIN disk[Res(b)] \ (IF b \in swept THEN {ExeLeft(b)} ELSE {})
SealMatches(b) ==
  /\ Present(Res(b))
  /\ Listed(b) = Covered(b)
  /\ \A f \in Covered(b) : disk[Res(b)][f] = disk[f]

\* b's executable is signed over the present Info.plist, CodeResources and pages.
SignatureMatches(b) ==
  /\ Present(Exe(b))
  /\ disk[Exe(b)].sig.info = disk[Info(b)]
  /\ disk[Exe(b)].sig.res = disk[Res(b)]
  /\ disk[Exe(b)].sig.slots = Pages(disk[Exe(b)])

BundleValid(b) == SealMatches(b) /\ SignatureMatches(b)

LibValid(d) ==
  Present(Lib(d)) => disk[Lib(d)].sig.slots = Pages(disk[Lib(d)])

\* What can be signed is valid, and the application can.
AppValid ==
  /\ Root \in Signable
  /\ \A b \in Signable : BundleValid(b)
  /\ \A d \in Dylibs : Owner[d] \in Signable => LibValid(d)

\* A run that signed everything anew and reported success leaves an application in which
\* every seal and every signature, at every depth, matches the files there are -- whatever
\* earlier runs, crashes and edits left behind (bundle.cpp:276-388 signs bottom-up and
\* seals each folder only when nothing below it will change).  Two things it passes over in
\* silence, and the property says so: a nested bundle whose Info.plist was cut off (Signable),
\* and an entry for what an earlier reallocation left and this one took away (Listed).
FullRunSealsApp == result = "full" => AppValid

\* A run from the cache that reported success leaves a valid application too, every entry of
\* every list included, as long as since the last full signing nothing happened that the cache
\* does not describe; runs that died half-way are no exception, the next one repairs what they
\* left.
CachedRunSealsApp == (result = "cached" /\ ~tainted) => AppValid /\ swept = {}

\* A successful run leaves no binary of the previous signer: every bundle's executable and
\* every dylib, but those left out of the tree, carries the signature this run made with its
\* asset.
SignedByThisRun ==
  (result = "full" \/ (result = "cached" /\ ~tainted)) =>
    /\ \A b \in Signable : /\ disk[Exe(b)].sig.asset = opt.asset
                           /\ disk[Exe(b)].sig.run = runs
    /\ \A d \in Dylibs : Present(Lib(d)) /\ Owner[d] \in Signable => disk[Lib(d)].sig.run = runs

\* Why they hold.  While the tree is walked by a run that signs everything anew, or that
\* may rely on the cache, the tree describes the folder;
Reliable == force \/ ~tainted
TreeIsCurrent == tree = BuildTree /\ Root \in Signable
\* what is finished is valid, with all that is below it;
DoneIsValid ==
  /\ done \subseteq Signable
  /\ \A b \in done : Below[b] \cap Signable \subseteq done /\ BundleValid(b)
  /\ \A d \in Dylibs : Owner[d] \in done => LibValid(d)
\* the current bundle is not finished and all below it is; its dylibs are signed or to do;
AtIsOpen ==
  /\ at \in Signable \ done
  /\ (Below[at] \cap Signable) \ {at} \subseteq done
  /\ \A d \in Dylibs : Owner[d] = at => LibValid(d) \/ (pc = "files" /\ d \in todo)
  /\ pc = "files" => \A d \in todo : Owner[d] = at
\* and when its executable is to be signed, its CodeResources stands.
AtIsSealed == SealMatches(at) /\ at \notin swept /\ Present(Exe(at)) /\ (force => hashAll)

SoundWalk ==
  pc \in Walking /\ Reliable =>
    /\ force \/ cache # Missing
    /\ TreeIsCurrent
    /\ DoneIsValid
    /\ pc \in {"files", "sign"} => AtIsOpen
    /\ pc = "sign" => AtIsSealed
    /\ swept \subseteq done
    /\ pc = "save" => done = Signable

\* What any run rewrites below b, going by the folder and not by a tree.
Rewritten(b) ==
  {Lib(d) : d \in {e \in Dylibs : Present(Lib(e)) /\ Owner[e] \in Below[b] \cap Signable}}
    \cup (UNION {{Res(c), Exe(c)} : c \in (Below[b] \cap Signable) \ {b}})
    \cup (IF b = Root THEN {Prov} ELSE {})
\* CodeResources of b, if there is one, is right about all the other files of its folder.
SealStands(b) ==
  Present(Res(b)) =>
    /\ DOMAIN disk[Res(b)] \ Rewritten(b) = Covered(b) \ Rewritten(b)
    /\ \A f \in Covered(b) \ Rewritten(b) : disk[Res(b)][f] = disk[f]
\* The cache, if there is one, describes the folder, and each CodeResources is right about
\* what no run rewrites: so it is between runs and at every point of a run that may die.
CacheStands ==
  ~tainted /\ cache # Missing =>
    /\ cache = BuildTree /\ Root \in Signable
    /\ \A b \in Signable : SealStands(b)
\* A run that does without a provisioning profile, or renames, is not one to rely on.
ProvisionStands ==
  ~tainted => /\ pc # "strings"
              /\ pc \in Walking \cup {"copy"} => Present(Prov)

Outcome == /\ result # "none" => pc = "idle"
           /\ pc \notin Walking => done = {}
           /\ pc \notin Walking \cup {"idle"} => swept = {}
           /\ swept # {} => tainted

SealInv == /\ TypeOK /\ Outcome /\ SoundWalk /\ CacheStands /\ ProvisionStands
           /\ FullRunSealsApp /\ CachedRunSealsApp

\* The binaries of what is finished are this run's, and so are the dylibs that the current
\* bundle does not have to do.
ExeStamped(b) == disk[Exe(b)].sig.asset = opt.asset /\ disk[Exe(b)].sig.run = runs
LibStamped(d) == Present(Lib(d)) => disk[Lib(d)].sig.run = runs
WalkStamps ==
  pc \in Walking /\ Reliable =>
    /\ \A b \in done : ExeStamped(b)
    /\ \A d \in Dylibs :
         Owner[d] \in done \/ (Owner[d] = at /\ pc \in {"files", "sign"}) =>
           LibStamped(d) \/ (pc = "files" /\ d \in todo)

\* Once SignNode has returned true for a bundle, the run changes nothing its CodeResources
\* covers, nor its executable or CodeResources, until the run is over: a later step (a
\* sibling, the parent, the injection into the root) never invalidates a finished seal.
FinishedStaysFrozen ==
  [][\A b \in done : \A f \in Coverable(b) \cup {Exe(b), Res(b), Info(b)} :
       pc # "idle" => /\ Present(f)' = Present(f)
                      /\ Present(f) => disk'[f] = disk[f]]_vars

\* Why it holds: what is finished is closed under containment, the current bundle is not
\* finished, and the dylibs it has left to sign are its own.
WalkOrder ==
  /\ pc \notin Walking => done = {}
  /\ \A b \in done : Below[b] \cap Nodes \subseteq done
  /\ pc \in {"files", "sign"} => at \in Nodes \ done /\ (Below[at] \cap Nodes) \ {at} \subseteq done
  /\ pc = "files" => \A d \in todo : Owner[d] = at

\* The executable of b as one Mach-O file that is being signed (see Executable), and signed
\* once its bundle is done.
Slice(exe) == [pages |-> Pages(exe), slots |-> exe.sig.slots, signer |-> exe.sig.run]
SigningOf(b) ==
  INSTANCE Executable WITH
    None <- Missing, busy <- pc # "idle", run <- runs, spare <- << >>, resized <- FALSE, sound <- TRUE,
    bin    <- IF Present(Exe(b)) THEN [i \in {1} |-> Slice(disk[Exe(b)])] ELSE << >>,
    phase  <- IF pc # "sign" \/ at # b THEN "idle" ELSE IF todo = {} THEN "sign" ELSE "edit",
    forced <- pc = "sign" /\ at = b /\ hashAll,
    signed <- b \in done

\* What SignFolder takes for granted of a Mach-O file, and what it does itself to every
\* executable, is what Executable says: between the beginning and the end of a run nothing but
\* its own bundle's injection and signing touches it, once, between its CodeResources and its
\* parent's, and what counts as done stays as it was signed (bundle.cpp:375-387).
KeepsExecutables ==
  /\ \A b \in Bundles : SigningOf(b)!Init
  /\ [][\A b \in Bundles : [SigningOf(b)!Next]_(SigningOf(b)!vars)]_vars

\* Stated by the documentation, and not so (see the findings).

\* README.md:243: re-signing the folder with other assets uses the cache; a signing from
\* the cache that reports success should be as valid as a full one.
CachedResignIsValid == result = "cached" => AppValid

\* README.md:186, "-b New bundle id to change": what a successful run signs is the
\* identity the Info.plist has.
SignedIdentityIsCurrent ==
  result \in {"full", "cached"} =>
    \A b \in Bundles : disk[Exe(b)].sig.info = disk[Info(b)]

\* README.md:191, "-l Path to inject dylib file": a dylib that a successful run put into
\* the application is sealed like every other file.
InjectedDyLibIsSealed ==
  result \in {"full", "cached"} =>
    \A d \in opt.inject : Present(Lib(d)) => Lib(d) \in DOMAIN disk[Res(Root)]
===============================================================================
