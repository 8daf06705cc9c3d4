# zsign in TLA+

A verification project for zsign, the command-line tool that signs iOS application folders,
ipa archives and single Mach-O files. The modules are translated from the C++ sources;
`PROJECT.json` maps every definition to the lines it stands for, and lists the hazards, the
runs and the theorems.

## 1. Inventory

zsign is a sequential program. What makes it hard is not threads but *time*: it edits an
application in place, in many steps, any of which may fail or be the last; the next run
finds what was left, and trusts a cache that says what the folder looked like once. Inside
one file it edits offsets, sizes and hashes that depend on each other.

| component | source | state | operations | correct when |
|---|---|---|---|---|
| driver | `zsign.cpp` | options, temporary folder, input and output archive | `main`: single file / folder / ipa; unzip, sign, zip, install | what it archives was signed; temporary files go away; the exit code tells |
| bundle signer | `bundle.cpp` | the application folder; `.zsign_cache/<sha1>.json`; the tree `jvRoot`; `m_bForceSign`, `m_arrDyLibPaths` | `SignFolder` (rewrite identity, provision, copy dylibs, load or build the tree, save the cache), `SignNode` (bottom-up: dylibs, CodeResources, injection, executable) | a run that reports success leaves every seal and signature, at every depth, matching the files |
| Mach-O container | `macho.cpp` | a mapped thin or fat file, its slices, `m_bCSRealloced` | `Sign`, `ReallocCodeSignSpace`, `InjectDyLib` | the file is replaced as a whole or not at all; slices do not influence each other |
| slice | `archo.cpp` | one slice: header, load commands, `__LINKEDIT`, signature area; file-level `execSegLimit` | `Init`, `BuildCodeSignature`, `Sign`, `ReallocCodeSignSpace`, `InjectDyLib` | code slots hash the pages that are there; nothing overlaps; sizes agree |
| signature slots | `signing.cpp` | none (builds byte strings) | build and parse requirements, entitlements, code directories, CMS blob | offsets and lengths agree; special slots are in place; reuse of code slots only for the same code |
| assets, CMS | `openssl.cpp` | key, certificate, profile, entitlements, team | `ZSignAsset::Init`, `GenerateCMS` | the certificate that signs is one of the key, whether it came with the key (PKCS #12), in a file or in the profile |
| files, hashes, strings | `common/common.cpp` | the file system | read, write, append, map, remove; SHA sums; `StringReplace`, `ByteAlign` | a failure is told to the caller |
| JSON, plists | `common/json.cpp` | values and parsers | read and write JSON and XML/binary plists | what is written reads back the same |
| base64 | `common/base64.cpp` | two tables | encode, decode | decoding undoes encoding |
| structures, build | `common/mach-o.h`, `CMakeLists.txt`, `xmake.lua`, `Dockerfile`, `INSTALL.sh` | – | – | – |

How they interact. `main` makes a `ZSignAsset` and calls `ZAppBundle::SignFolder` (or
`ZMachO::Sign` for a single file). The bundle signer owns the folder: it opens every dylib
and executable as a `ZMachO`, which maps it and hands each slice to a `ZArchO`; that builds
the signature with the functions of `signing.cpp` and writes it into the mapping. Components
share no memory but the mapping; everything else goes through *files*: CodeResources,
Info.plist, the executables, the cache. Two zsign processes share only the folder and the
cache, one after the other.

Hard behaviours, in order of weight: (1) crashes and failures between steps, and what the
next run makes of the remains; (2) the cache: a run that does not look at the folder; (3)
ordering across the tree, since a seal hashes what nested signatures write; (4) code slots
that are reused although the code changed; (5) replacement of a file that is too small; (6)
sizes and offsets at limits.

## 2. Modules

| module | what it is | uses |
|---|---|---|
| `BundleSign` | the bundle signer: any number of runs on one folder, with their faults | implements `Executable`, for each executable |
| `MachO` | one thin or fat file: injection, signing, reallocation through temporary files, with their faults | implements `Executable` |
| `Executable` | what signing does to one Mach-O file, as whoever has it signed sees it: the abstract specification between the two | |
| `CodeSignature` | the embedded signature of one architecture: slots, code directories, superblob | |
| `Slice` | one architecture with its sizes in bytes, signed run after run | `CodeSignature` |
| `SignAsset` | which certificate, team and entitlements a command signs with | |
| `Driver` | `main`: a command from its path to its exit code, with the external programs it calls | `SignAsset`, implements `Command` |
| `Command` | what a command promises to its user: the abstract specification of `Driver` | |
| `Values` | `JValue`, texts, `StringReplace` | |
| `Base64` | the encoding, and its decoding | |
| `Plist`, `Json`, `Der` | the formats, each with its reader and writer | `Values`, the first two also `Base64` |
| `Documents` | the lists, the cache and the entitlements that a run reads and writes | the five above |
| `MCBundleSign`, `MCMachO`, `MCSlice`, `MCDriver`, `MCDocuments` | instances for TLC | |
| `BundleSignProofs`, `MachOProofs`, `DriverProofs`, `SliceProofs`, `Base64Proofs` | the theorems about one module each, and their proofs | that module |
| `ExecutableProofs`, `BundleExecutableProofs` | that `MachO` and `BundleSign` implement `Executable` | `MachOProofs`, `BundleSignProofs` |

The state machines are layers of one program, each with the next one's outcomes for steps.
`Driver` sees of `SignFolder` and of `ZMachO` that they sign or fail; `BundleSign` is the
first, and sees of a Mach-O file that it is signed in place, rebuilt and signed, or left
edited or in pieces by a failure or a kill; `MachO` is that, in classes of sizes; `Slice`
has the sizes. `Documents` is the other half of `BundleSign`: what is in the files that it
names. Two joints are formal. `Driver` implements `Command`, which is what the user of a
command relies on. `MachO` implements `Executable`, and so does `BundleSign` for the
executable of each bundle: what the bundle signer takes for granted of a Mach-O file is
what `ZMachO` does to one. Between the others the correspondence is the one described here.

### Executable

A file is a function from its architectures to their pages, code slots and the run that
signed them; `NoFile` when none is there that parses. `busy` says whether a run is going on:
only when none is may another program take the file's place (`Build`). `phase` is where that
run is with the file, `spare` the complete copy that is to take its place; temporary files
are not seen. A run begins (`Begin`), opens the file at once or later, and once (`Open`),
injects (`Inject`: only pages change), signs some architectures at a time (`Sign`: code
slots are kept unless they are to be made anew) and may once find the area short
(`Shortage`), edit the sizes and copy the file (`Resize`), remove it (`RemoveOld`) and put
the copy in its place (`Replace`), from where it signs from the beginning. `Sign` that ends
the run with success has signed all architectures. `Stop` is a failure or a kill at any
point that the run has the file open, `End` the end of a run that has done other things as
well.

| `Executable` | `MachO` (`Outside`) | `BundleSign` (`SigningOf(b)`) |
|---|---|---|
| `busy` | `pc # "idle"` | `pc # "idle"` |
| `bin` | `View(file)` | the executable, with one architecture |
| `spare` | `View(NewFile)` once the copy is complete | none: its steps do not stop within a reallocation |
| `phase` | `PhaseOf(pc)` | the bundle at hand injects or signs, all others idle |
| `forced` | `Forces` | `hashAll` |
| `signed` | `result = "ok"` | `b \in done` |
| `sound` | thin, or clean and every append is complete | true |

`sound` is where the two are allowed to differ: of a fat file that was found with the
remains of an earlier run, or whose slices may be appended in part unnoticed, `MachO` only
promises some file in the end. `BundleSign` has no such file; that is a limit of it, and the
finding about `f.fato` is shown on `MachO`. `Slice` does not implement `Executable`: it has
no run in its signatures, and its old code slots, directory by directory, are made anew
where their length does not fit the new directory, which the other two do not tell apart.

### BundleSign

*State.* `disk` is the folder: the files that are there, each with its content. A file is named by
kind and owner (`Info(b)`, `Exe(b)`, `Res(b)`, `Lib(d)`, `Data(r)`, `Prov`; and `ExeLeft(b)`,
`LibLeft(d)` for the `*.archo.N` and `*.fato` files that a reallocation leaves beside a binary). A
hash is modelled by what it is the hash of, so that CodeResources is a function from files to
recorded contents, and a signature a record of the Info.plist and CodeResources it was made over, of
the pages its code slots hash, and of the asset and the run that made it. A Mach-O file's pages are
its injected load commands and how often its sizes were edited (`edits`); `room` says that a
reallocation went well. An Info.plist that was cut off before its identifier or its executable's
name is `Cut`. `cache` is the cache file. The rest is the memory of the running process: `pc` (where
in `SignFolder`), `opt` (the command line), `force` (`m_bForceSign`), `paths` (`m_arrDyLibPaths`),
`tree` (`jvRoot`), `done` / `at` / `todo` (the recursion of `SignNode` and its loops), `hashAll`
(`SignNode`'s `bForceSign`). `result`, `tainted` and `swept` are history: how the last run ended,
whether something happened that a cached run does not look at, and the bundles in which this run's
reallocation took away what an earlier one had left, after CodeResources had listed it.

*Actions*, in the order of the code:

| action | code |
|---|---|
| `Start(o)` | 424-445: fields, what forces a full signing |
| `RewritePlugIn(b)`, `RewriteInfo` | 446-482, 485-499: `-b`, `-n`, `-r`; a failed write is not noticed |
| `RejectInfo` | 500-503, 556-559: the application's Info.plist cannot be read |
| `RewriteStrings(r)`, `StringsDone` | 506-520 |
| `RemoveProvision`, `WriteProvision` | 522-528 |
| `CopyDyLib(d)` | 530-544, a dylib that cannot be read is passed over |
| `LoadTree` | 546-566: no cache means a full signing; else the tree is the cache |
| `EnterNode(b)` | 276-288: bottom-up, one subtree after the other, siblings in any order (`readdir`) |
| `SignDyLib(d)`, `RejectNode` | 286-327 |
| `WriteCodeResources` | 329-375: generate, or update the old list |
| `InjectDyLib(d)`, `SignExe` | 375-387 |
| `SaveCache` | 577-583 |
| `TearInfo`, `TearCodeResources`, `LoseCache`, `Crash` | the same lines, failing or killed |
| `DamageExe`, `DamageDyLib(d)` | macho.cpp 160-254, archo.cpp 555-614: a reallocation that fails or is killed |
| `Edit` | the user, between runs (external) |

`Sign` stands for `ZMachO::Sign` with its retry after a reallocation: existing code slots
are kept unless the caller forces (`archo.cpp:364`, `signing.cpp:508`). `HalfReallocated` are
the folders that such a reallocation can leave when it ends half-way: the remains of an
earlier one removed; the sizes edited, without or with a copy beside the file; the file
removed, the copy not yet renamed. What is left is a file like any other: the next full run
seals it (`Covered`) and its own reallocation takes it away (`Cleared`).

`Signable` are the bundles that a full run's tree has: `GetObjectsToSign` leaves out, without
a word, one whose Info.plist does not tell its identifier and executable, with all that is
inside it (`bundle.cpp:68`, `109`). `BuildTree` and the walk (`Nodes`) follow that.

*Abstracted.* What the identity *is* (a rewritten Info.plist is one of two contents); hash
algorithms (SHA-1 and SHA-256 lists go together, except that files2 omits some, which are
left out); several architectures of one file (the partial injection at `macho.cpp:262` is
the subject of `MachO`); directories. An archive is a folder whose first run does not save a
cache. An Info.plist that was cut off further behind is taken for one with other content;
what can be read of it is the subject of `Documents`. Each file that a later run continues
from - Info.plist, CodeResources, the cache - may be cut off by a kill or by a failing
write. A dylib given with `-l` is copied whole or not at all.

### MachO

*State.* `file` is the file on the disk, a function from slice numbers to slices, or
`Garbled` (it does not parse), or `Missing`. A slice has its program (`code`), the size
class of its signature area (`size`), the size its headers claim (`claims`), the injected
load command, the pages its code slots hash (`slots`) and the run that signed it last.
`parts[i]` is `f.archo.i`; `fato` is `f.fato`, as the sequence of chunks appended to it.
`pc`, `at`, `opt`, `create` (`bCreate`) and `realloced` (`m_bCSRealloced`) are the memory of
the process; `runs`, `result`, `given` and `clean` are history.

| action | code |
|---|---|
| `Start(o)` | macho.cpp 20-35, 65-97: map the file and parse it |
| `InjectSlice`, `InjectFails` | macho.cpp 256-269, archo.cpp 616-671: slice by slice, stopping at the first without room |
| `SignSlice`, `NoSpace` | macho.cpp 120-158: sign each slice; the first shortage reallocates, a second fails |
| `ReallocSlice`, `ReallocRefused`, `NoCommandSpace`, `AppendFails` | archo.cpp 555-614: edit the headers in the mapping, write `f.archo.N` |
| `JoinHeader`, `JoinSlice` | macho.cpp 214-245: append to `f.fato`, remove `f.archo.N` |
| `RemoveOld`, `RenameNew`, `RenameFails` | macho.cpp 177-183, 247-250 |
| `Kill` | anywhere in between, and within an append |
| `Rebuild` | the user builds another program (external) |

*Abstracted.* Sizes are classes: 0, 1 or `Grown` bytes' worth of area, `need` what the
signature takes (3 never fits). The mapping is shared, so an edit of it is an edit of the
file. `Joined` says how the chunks of `f.fato` are read: through the *first* header in it,
whose offsets find a slice only if nothing before that slice was cut short. The bytes of the
load-command area and of the signature area are `Slice`'s. Which plist and identifier a
slice is signed with (`macho.cpp:128`) is not modelled.

### CodeSignature and Slice

`CodeSignature` follows `BuildCodeSignature` (`archo.cpp:360-502`) and the `SlotBuild`
functions of `signing.cpp`. A blob is a record of its type, its size in bytes, and what it
holds; a code directory has its offsets, counts and special slots as the code computes them.
A hash is the pair of the algorithm and what is hashed, a cdhash that pair marked as cut to
20 bytes. Strings and certificates are their lengths. So the module can tell whether offsets
and sizes agree and which hash is over what.

`Slice` is a thin file that `ZMachO` drives: its length, where its load commands end and
`__text` begins, where `__LINKEDIT` ends, what LC_CODE_SIGNATURE says, the injected load
commands, the signature. `mem` is what `ZArchO::Init` read from it, once; that it is not
read again after an injection is finding 6.

| action | code |
|---|---|
| `Start(o)` | macho.cpp 20-35; archo.cpp 26-112: `Init` |
| `Inject`, `Injected` | archo.cpp 616-671, one dylib after the other; zsign.cpp 227-240 |
| `Sign` | archo.cpp 519-553: build, compare with the area, write |
| `Realloc`, `ReallocFails`, `SecondShortage` | archo.cpp 555-614, macho.cpp 146-157 |

`Longer` is the file after a reallocation. `ReallocFails` leaves `__LINKEDIT` edited where
the code does.

### SignAsset, Driver, Command

`SignAsset` is `ZSignAsset::Init` (`openssl.cpp:589-705`) as a function from what the files
hold to an asset or to failure: the certificate of the PKCS #12 file, else that of the
certificate file, else the first of the profile whose key is the private key.

`Driver` is `main` step by step. `kind` is what the path names - a folder below Payload, one
elsewhere, one in `/Payload`, an archive, one with the application at the wrong place or
with none, a folder or an archive that a killed run has left among the temporary files and
that is given as input, a Mach-O file, something else, nothing. `out` is what `-o` may name:
a file, or one whose path is that of a temporary archive. `folder[r]` and `temp[r]` are the
temporary folder and archive of run `r`, whose names have the time in them; an application
may be there in part (`whole`). `place` is where `SignFolder` found the `.app` folder, by
which `main` decides whether it can archive. `unzip`, `zip` and `ideviceinstaller` are
external; each may fail, the signers may fail with the application untouched or edited, and
the process may be killed at any step. `UnzipKilled` is an unzip that a signal ended, which
`SystemExecV` takes for a success (`common.cpp:383-391`): `main` goes on with a folder that
is there in part or not at all. `CleanTemp` and `CleanFolder` go by the path, as the code
does: what has a temporary path is removed, whoever made it. `archived` and `sound` are
history: the archive was made; the input was whole and unzip was not killed.

| action | code |
|---|---|
| `Start(o)`, `Look` | zsign.cpp 93-226 |
| `Inject`, `Injected`, `LoadAsset`, `SignSingle`, `FreeSingle` | zsign.cpp 227-264 |
| `Unzip`, `UnzipFails`, `UnzipKilled`, `SignFolder` | zsign.cpp 266-287, common.cpp 383-391 |
| `Archive`, `ZipFolder`, `ZipFails` | zsign.cpp 289-316 |
| `Install`, `CleanTemp`, `CleanFolder`, `Return` | zsign.cpp 319-334 |
| `Kill` | anywhere |

`Command` is the abstract specification: a user sees the application, the archive, the device and
the exit code. An archive is withdrawn before the new one is there, and the new one appears at once;
it is signed by this run exactly if signing succeeded, and has all of the application's files unless
some were missing before or unzip was killed (`CopyCut`); only a signed application is installed; an
archive or an application is removed in the end only if its path is that of a temporary one; exit
code 0 on a bundle means that it was signed and, where an archive can be made, archived; -1 that it
was not. The refinement mapping (`Promise` in `Driver`) reads the phase from `pc` and `archived`,
and takes for the archive whichever of `-o`'s file, the input or the temporary file the run writes
to.

### Values, Base64, Plist, Json, Der, Documents

A text is a sequence of symbols: a character that some code treats specially, a word that
none looks into, or a label such as `<dict>`. Reading and writing are the code's functions
on such sequences (`PReader`, `PWriter`, `JReader`, `JWriter`, `ZBase64`, `_DER`). Beside
them stand, as external definitions, what Apple's reader and writer make of the same grammar
and what a DER decoder expects: the reference the properties compare with. A binary list is
its value, because zsign only reads that form; `readBinaryValue` says what of it zsign gets
wrong.

`Documents` runs `SignFolder` over four documents: the Info.plist of the application and of
one plug-in in it, CodeResources, and the cache.

| action | code |
|---|---|
| `Start(o)` | bundle.cpp 414-437 |
| `ReadInfo`, `ReadPlugIn` | bundle.cpp 438-455 |
| `Replace`, `FieldDone`, `WritePlugIn` | common.cpp 433-442, one turn of the loop at a time; bundle.cpp 454-482 |
| `WriteInfo` | bundle.cpp 485-499 |
| `BuildTree`, `LoadTree`, `NoTree` | bundle.cpp 56-113, 546-566 |
| `WriteRes`, `SignExe`, `SaveCache` | bundle.cpp 332-373; signing.cpp 10-86, 250-269; bundle.cpp 577-583 |
| `Kill`, `CutOff` | between steps; within a write, after any number of symbols |

`given`, `cut`, `spoiled` and `crossed` are history: what was delivered, what a cut document
was to be, which documents have been cut and not been made anew, and which identifiers were
given to plug-ins by runs that died before they reached the application.

## 3. What is checked

Instances of `BundleSign`: an application, an extension and a framework - nested in a chain
(depth three, so that a change at the bottom has to reach two seals) or with the two side by
side (so that siblings may disturb each other); one dylib inside the extension and one to
inject; a resource that is sealed and one that the rules omit; an asset with a profile and
one without. Three runs suffice for the longest story the code has: one that fills the
cache, one that breaks something and dies, one that believes the cache. No symmetry is used:
the nodes differ.

| run | question | result |
|---|---|---|
| `resign` | three runs, plain / forced / `-b` / `-n` / ad-hoc, killed anywhere, tearing an Info.plist, CodeResources or the cache, or unable to write it | 1 244 971 states; holds |
| `inject` | two runs with and without `-l` and `-w`, sibling bundles, files that run out of space, reallocations that fail or are killed and what they leave, edits between runs | 3 325 290 states; holds |
| `assets_doc` | is a cached re-sign valid? (`README.md:243`) | no: finding 1 |
| `rename_doc` | is the signed identity the present one? (`README.md:186`) | no: finding 2 |
| `inject_doc` | is an injected dylib sealed? (`README.md:191`) | no: finding 3 |
| `macho` | three runs on a thin file, two on a fat one of two slices of any sizes, one without room for a command: killed, full disks, failing renames, rebuilds | 2 011 011 states; holds |
| `single_doc` | is a binary re-signed in place valid? (`README.md:179`) | no: finding 4 |
| `fato_doc` | does the binary load what was injected? (`README.md:191`) | no: finding 5 |
| `slice` | two runs on 114 binaries with five assets, with and without `-l`, `-w`, `-f`, `-s` | 17 513 states; holds |
| `space_doc` | do the injected load commands fit? (`README.md:192`) | no: finding 6 |
| `driver` | two commands on every kind of path and credentials, every fault; refinement | 707 420 states; holds |
| `documents` | two runs with and without `-b` and `-n` on lists of three forms with entries of every kind, one of them killed or unable to write anywhere; liveness | 33 970 states; holds |

The findings, in the order of the table, are spelled out in `PROJECT.json`: a cached run
seals a profile that it has just removed; a `-b` run that dies leaves the old identity in
the cache; a dylib injected by a cached run is not sealed; a single binary keeps the code
slots of the pages that were edited; `f.fato` of a killed run becomes the head of the next
run's file; of several dylibs that each fit in front of `__text`, the later ones overwrite
it.

Properties of the passing runs on `BundleSign`:

* `TypeOK` - one type invariant, with "what is about to be signed exists".
* `FullRunSealsApp` - a full run that reports success leaves a valid application, whatever
  went before. Two things it excepts, because the code passes over them in silence and no
  document says what ought to happen. A nested bundle whose Info.plist was cut off, with all
  that is inside, is neither signed nor sealed (`Signable`); a seal around it lists its files
  as they are. And where an earlier reallocation left `f.archo.N` or `f.fato`, the list has an
  entry for that file although this run's own reallocation took it away afterwards (`Listed`,
  `swept`); any other entry for a file that is not there is a violation.
* `CachedRunSealsApp` - a cached one does too, as long as nothing untold happened since the
  last full signing, and without such an entry; in particular after runs that died half-way
  through the walk.
* `SignedByThisRun` - no binary keeps a signature of an earlier run or asset, but for the
  bundles that the tree leaves out.
* `FinishedStaysFrozen` - after `SignNode` has returned for a bundle, nothing its signature
  depends on changes in that run.
* `KeepsExecutables` (`inject`) - for each bundle, `BundleSign` implements `Executable`:
  between the beginning and the end of a run an executable is touched by nothing but its own
  bundle's injection and signing, once; with the code slots it had unless `hashAll`; and not
  at all once it is signed. Only when no run is going on may it become another one.

`tainted` is the honest boundary of `CachedRunSealsApp`: it becomes true exactly when a step
does something the cache does not describe (an identity rewritten, the profile removed and
not replaced, a dylib copied, a slot kept for a page that changed, a torn file, a failed
reallocation, remains of one taken away, an edit),
and false again at a full success. The three findings show that those exceptions are real;
they are cases the documentation does not mention.

Properties of the passing runs on `MachO`:

* `TypeOK` - its type invariant.
* `SuccessIsSigned` - a successful run on a file that nobody left half-way signed every
  slice of the given program, in an area that is large enough and has the size its headers
  claim, with code slots of the present pages if it was forced.
* `CodeSurvives` - the program is on the disk at every moment, in the file or in its
  temporary copies: for a thin file always, for a fat one when the run began on a clean
  file. `full` is a disk that is full while `f.archo.N` is written, which the code notices.
  Left out is the fault `join`, a disk that is full while the slices are appended to
  `f.fato`: `macho.cpp:226-241` does not look, and the program is lost. No document claims
  otherwise, so no run shows it; the hazard is listed.

* `KeepsFile` - `MachO` implements `Executable`: whoever has the file signed sees it edited
  in place, or away when its copy is complete and back with the same pages but for the
  sizes and with the same code slots, whatever temporary files runs that died have left.

`clean` is to `MachO` what `tainted` is to `BundleSign`: false when the run started on a
file with edited headers, a slice that is cut or of another program, or an `f.fato` beside
it.

Properties of `slice`:

* `TypeOK` - with "a file counts as reallocated only while it is being signed".
* `SignatureReadsBack` - index, offsets, strings, special slots and code slots are where a
  reader looks for them, whatever slots were left out.
* `AreaHoldsSignature` - the signature lies in its area, and the headers' four statements
  about that area agree, after any sequence of injections, reallocations and failures.
* `CodeSlotsFit` - slots taken from an old signature have the algorithm and number of the
  directory they go into; fresh ones hash the pages as they are after the injection.
* `DirectoriesAttested` - the CMS message is over the primary directory and lists every one.
  Not so with SHA-256 only, where it lists the hash of an empty alternate directory, nor for
  a certificate of an unknown issuer, where there is no message, and success is reported.
* `OneReallocSuffices` - a file is refused only if it cannot be made longer, or the
  signature outgrows the fixed 16 KiB.

Properties of `driver`:

* `TypeOK` - with "no step that needs the asset comes without one".
* `LeavesNoTrace` - who leaves its own temporary files behind: a killed command, or one that
  could not archive what it had unzipped (`zsign.cpp:293-313` returns early), whether that
  was signed, complete, or cut short by a killed unzip. What an earlier command left is not
  its subject.
* `SignsWithPairedKey` - whatever credentials are given, the certificate belongs to the key;
  and a command is refused for its credentials only if no certificate of the key with a name
  is there.
* `KeepsPromise` - `Driver` implements `Command`. It shows that an archive is signed by the
  run exactly if signing succeeded, and is whole unless the input was not or unzip was
  killed; that what is installed is what was signed by this run or, from `/Payload`, where no
  archive is made, whatever was at the archive's place (`Install`); and that only what has a
  temporary path is removed - which an `-o` path, or an input that a killed run left there,
  may have, too: a command then signs, archives, returns 0 and removes the archive
  (`DiscardArchive`; `zsign.cpp:323-330`). Of a single file `main` ignores what `Sign` returns
  (`zsign.cpp:261`), so that exit code 0 says nothing there, and `Command` promises nothing.

Properties of `documents`:

* `TypeOK`; `RewriteKeepsMeaning` - Apple's reader finds in a list that zsign rewrote what
  was delivered. `Sturdy` is its boundary, and names what does *not* survive: the literal
  text `&lt;`; any entity in XML but `&amp;` and `&lt;` - `&gt;`, `&quot;`, `&apos;`, numeric
  references -, which `json.cpp:2564-2566` leaves and escapes again; texts that begin with
  `data:`, or look like `date:` and a moment (`2641`), which become elements of that type;
  lists with an empty key written `<key/>`, whose value is read under the key before it
  (`2002`), and empty texts and data written `<string/>` and `<data/>`; in binary lists
  characters beyond the first plane, and arrays and dictionaries that are empty; reals of
  four bytes or more than 15 digits; dates of binary lists unless the clock is at UTC+8;
  summer dates, which move by an hour with each rewriting. `XML` lists come as Apple writes
  them and as another tool may (`terse`: every entity, empty elements, other key order).
* `TornReadsAsPart` - a document that was cut off at any symbol is read as a part of what it
  was to be, never with half a value or under another key: `bundle.cpp:63`, `334` and `565`
  use what was read without asking whether it was all.
* `IdentifiersMove` - after `-b` all identifiers of a plug-in have the new prefix, also when
  an earlier run was killed half-way or could not write the application's list. Not so
  (`crossed`) if that run had another identifier, or the new one contains the old: it is
  replaced a second time.
* `CacheReadsBack`, `SealReadsBack`, `DerReadsBack` - the cache reads as the tree that was
  written, whatever the names (but for a backslash before `u` and digits); CodeResources has
  the hashes; DER entitlements are one way of writing them in BER, if they hold no number but
  1 (an integer's length is written as its value, and 0 is undefined) and no key of 128
  characters or more (`signing.cpp:63` counts a short header for every key). Proper DER they
  are not: it wants 255 for true, and the code writes 1.
* `RunEnds` - liveness; not for an application without an identifier, for which
  `StringReplace` never ends.

*Fairness.* Only `RunEnds` needs any: weak fairness of `Step` of `Documents`, the process's
own actions taken together - a process that is not killed keeps executing. Nothing is
assumed of faults or of new runs. That `SignFolder`'s walk and `main` come to an end is
their shape, straight lines and loops over finite lists, and no property says it.
`CHECK_DEADLOCK FALSE` in the configurations: after `MaxRuns` runs the system stops, by the
bound.

*Bounds.* `MaxRuns`. `BundleSign`: a file grows in any run until a reallocation goes well (`room`),
and at most once in a run, which is the code's `m_bCSRealloced`; the remains of a reallocation are
one file per binary; one edit between two runs; a cut CodeResources loses one entry or all, a cut
cache the root's hashes and any others'. `inject` has two runs, so that the second finds what the
first left; a third, from the cache, after remains that stayed, is covered by the theorem and not by
a run. `MachO`: two slices, so that one may be refused after the other was edited; two runs when fat
(one that is killed, one that continues from the remains), three when thin; sizes in three classes,
which is all that "fits", "fits after a reallocation" and "never fits" distinguish. `Slice`: code of
3 and of 700 pages, areas that hold nothing, a small signature, a large one; no, 40 or 400 bytes in
front of `__text`, so that neither, one or both dylibs fit; no signature, one with two directories,
one with SHA-256 only; files never signed, with and without `__LINKEDIT`; entitlements of 20 000
bytes, which outgrow the allowance; two runs, so that the second finds what the first made.
`Driver`: two commands, the second of which may find the first one's remains. `Documents`: two runs;
the delivery that is cut off is small and meets one fault, a kill or a failing write, those with
entries of every kind are rewritten twice without faults; an old identifier that a plug-in has
twice, a new one that is shorter and one that contains the old; a clock one hour from UTC with
summer time; identifiers of at most `Longest` = 12 symbols, which those that end do not reach.

## 4. What is proved

Every invariant and action property of the passing runs on `BundleSign`, `MachO`, `Slice` and
`Driver` is a theorem, for every value of the constants that the assumptions allow and every number
of runs; so are the refinements of `Command` and of `Executable`. The theorem names the property, so
that the run and the proof speak of one formula. None of these properties is inductive by itself:
most of them say something of the end of a run only. What has to hold on the way there is stated as
named definitions in the module itself ("Why they hold", "What the proofs rest on"), was checked by
TLC on the instances of section 3, and is a conjunct of the invariant that the proof module shows
inductive, one lemma per conjunct, one step per action.

### BundleSignProofs

Assumed: `BundlesAssumption` (containment is a partial order under `Root`), and that the
sets of files, options and faults are of their kinds.

* `TypeCorrect`: `Spec => []TypeOK`. The type invariant is inductive as it stands, because
  `Pending(pc)` says what each loop works through and the last conjunct that the executable
  being signed is there.
* `FullRunSeals`, `CachedRunSeals`: `Spec => []FullRunSealsApp` and `Spec => []CachedRunSealsApp`,
  from one invariant, `SealInv`. `SoundWalk` is about a walk that signs everything anew or may rely
  on the cache: the tree describes the folder, what is done is closed under containment and valid,
  the current bundle is open (not done, all below it done, its dylibs signed or to do) and, once its
  CodeResources is written, sealed. The argument (`OnlyIn`, `OutOfReach`, `BundleKept`, `DoneKept`):
  a step writes or removes only in the current bundle's own folder; a finished bundle that depended
  on that file would contain the current bundle, which would then be finished. All of it goes by the
  bundles that the tree has (`Signable`), which are those of which every bundle around is one too.
  That a reallocation removes a file which CodeResources has just listed is the one way a seal and
  its folder part (`swept`): only the bundle that did it may, and a run from the cache that may be
  relied on has none. For the cached run that is half of it: it starts from CodeResources that some
  earlier run has written, maybe one that died. `CacheStands` says what is true of them *at every
  point of every run*: the cache describes the folder, and each CodeResources is right about all
  files but those that any run rewrites (`Rewritten`). What a cached run hashes again is just that
  set.
* `SignedByRun`: `Spec => []SignedByThisRun`. `WalkStamps` is the same induction over the
  walk for the stamps of the binaries.
* `FinishedFrozen`: `Spec => FinishedStaysFrozen`, an action property, from `TypeOK` and the
  inductive invariant `WalkOrder`: what is done is closed under containment, and the bundle
  being signed is not done. A step that would change a file that a finished bundle's
  signature depends on would have to be at a bundle inside it.

### MachOProofs

For any number of slices. Assumed: `SlicesAssumption`, and `SentinelsAssumption`, that the
values which stand for no file, a file that does not parse and the header of a fat file are
not themselves slices or files.

* `TypeCorrect`, with every fault.
* `ProgramSurvives`: `Spec => []CodeSurvives`, for a thin file always, for a fat one if
  `join` is not among the faults - the one under which it is not so, as section 3 says.
  `CopiesExist` tells which copies each step of
  a reallocation finds, `CopiesHold` that they are the program: each slice in its `f.archo`
  file until it is appended, then in `f.fato` at its place (`JoinedTo`), while the file
  stays until the last of them is in place.
* `SuccessSigned`: `Spec => []SuccessIsSigned`, under the same condition. `SignedSoFar` is
  the loop invariant of `ZMachO::Sign`, which a reallocation starts over with headers that
  agree, because the copies' do (`Copies`).

### ExecutableProofs and BundleExecutableProofs

From what `MachOProofs` and `BundleSignProofs` assume, and nothing else.

* `FileKept`: `Spec => KeepsFile`, for `MachO`. The initial states map to initial states
  (`InitSeen`), each action to the action of `Executable` of its phase or to none
  (`StepSeen`, with `SignSeen` for the signing of a slice, which may be the last one, and
  `StopSeen` for everything that ends a run). What has to hold besides `TypeOK`,
  `CopiesExist` and `CopiesHold`: `ViewInv`, that the slices before the one at hand carry
  this run's signature *also in a file that is not clean*, that no idle process has
  reallocated, and that between removing and renaming there is no file; and `CopiesAgree`,
  that a slice's copy, in its own file or in `f.fato`, is seen as the slice itself - for a
  thin file, and while slices are copied, whatever earlier runs have left. `AgreementKept`
  proves the latter step by step, `JoinedSeen` that the joined file then is the old one.
* `ExecutablesKept`: `Spec => KeepsExecutables`, for `BundleSign` and every bundle at once.
  `Elsewhere` and `NotThisExe` say why a step does not touch an executable: it writes or
  removes other files, since a file's name tells its owner and its kind. `SignExeSeen` is the
  success, where the bundle becomes done, `StopSeen` the end of a run, by a failed
  reallocation (`PagesEdited`) or otherwise; only `Edit`, which no run makes, is `Build`. From
  `TypeOK` and `WalkOrder`, by which a bundle that is being signed is not done and is opened
  only once.

### DriverProofs

Assumed: `DriverAssumption`, among it that a PKCS #12 file yields the certificate of
its key, that a profile lists its certificates, and that an asset is not the value that
stands for none.

* `TypeCorrect`, `NoTraceLeft`, `SignerIsPaired`: the three invariants, from `CommandInv`, which
  follows what a command has in hand: which way it takes through `main` (`Route`), which temporary
  files are there (`Traces`), that there is an application to archive wherever an `.app` folder was
  found, that one that counts as signed is what this run made and that it is whole if the input was
  and unzip was not killed (`InHand`), that no run has signed what later ones will (`Dated`), when
  the verdict and the archive come (`Progress`), and that the asset is what `InitAsset` gives
  (`AssetInv`). `SignerIsPaired` then is a lemma about `SignAsset` alone (`ListedBelongs`,
  `PairedBelongs`): what `Paired` finds belongs to the key, and it finds one if there is one; the
  search through the profile's list is by the least index (`LeastNumber`, from the well-foundedness
  of `<`).
* `PromiseKept`: `Spec => KeepsPromise`, step by step: the initial states map to initial
  states, and each action of `Driver`, with `CommandInv`, to the action of `Command` that
  the user sees or to none.

### SliceProofs

For all lengths of code, strings, entitlements and messages. Assumed: `SliceAssumption`, and
`BinariesAssumption`, which says of a delivered binary what a linker and a signer other than
zsign guarantee: load commands first, the signature area at the end of the file and of
`__LINKEDIT`, a signature no longer than its area and with slots for the code in front of
it.

* `TypeCorrect`, `SignatureLies` (`AreaHoldsSignature`), `SlotsFit` (`CodeSlotsFit`),
  `AllAttested` (`DirectoriesAttested`), `OneSuffices` (`OneReallocSuffices`) and
  `ReadsBack` (`SignatureReadsBack`). The inductive invariant is `TypeOK` with `SliceInv`:
  `Layout` (the headers agree about the area), `SlotsStand` (every signature has slots for
  the code it lies behind, so that reused ones fit) and `Memory` (what `ZArchO::Init` read
  is still so, but for the free space; a file made longer has the length it was made for).
* The lemmas below it are about the operators of `CodeSignature`: which special slots are
  left out and where the others are (`SpecialPlaces`, `SpecialsKept`), that a directory's
  parts lie next to each other (`DirectoryMade`), that the offsets count what the superblob
  leaves out (`OffsetsAddUp`, `StartsAddUp`), what is found in it by type
  (`SignatureMade`), that code slots of the other algorithm's length are never taken
  (`SameLength`, `NewSlotsFit`), and that `NewLength` has room for all slots and 16 KiB
  (`NewLengthSuffices`).

### Base64Proofs

* `DecodeEncodes`: `Decode(Encode(bytes)) = bytes` for every sequence of bytes, of any
  length. `Alphabet` (no character is there twice, and `=` is none of them), `Sextets` (the
  four times six bits of three bytes make them again), `TripleOfQuad` (a group that is not
  full loses only what is not there: what `=` leaves out is what was not put in),
  `GroupOfEncoded` (the groups of four are those that were written). No induction: both
  functions give each group's characters by its index.

### What the proofs found in the model

Proving them showed that the model said less, or less clearly, than it was meant to; it was
changed accordingly, and the runs were repeated.

* `MachO`: a file counted as clean although its slices were not the program that was given;
  `Clean` now asks for that too.
* `Driver`: the phase that the refinement reads from the state was a CASE with overlapping
  arms, whose value TLA+ leaves open where they overlap. It is a chain of conditions now.
* `SignAsset`: the search through the profile's certificates did not pass over those that
  cannot be decoded, as `openssl.cpp:680` does; the instance has one now.
* `Slice`: nothing tied the slots of a delivered signature to the code in front of it, so
  that `CodeSlotsFit` held on the instance by the choice of binaries.
* `CodeSignature`: one value stood for "no blob", "the hash of nothing" and "no signature".
  They are three now (`Empty`, `Zeros`, `None`), and the first two are known to differ from
  a blob and from a hash without an assumption.

### Only model-checked

* Liveness (`RunEnds`), which is out of the proof system's reach.
* The invariants of `Documents`. `Values`, `Plist`, `Json` and `Der` are recursive over
  texts and values of any depth; what a recursive definition computes for every input would
  need an induction over data, which cannot be done here, and the module that has such
  definitions cannot have theorems at all. `Base64` was recursive too, and is not any more.

## 5. Plan

Done: the state machines, their invariants, and the refinements between those that meet at
one interface. What is left, should the tools allow it:

1. Induction over texts: that `PWriter` and `PReader`, `JWriter` and `JReader` are inverse to
   each other on what `Sturdy` and `Escaped` allow, and with that the invariants of
   `Documents`.
2. Runs in the signatures of `Slice`, and code slots per directory in `Executable`, so that
   `Slice` implements it as well.

## 6. Not modelled

* `execSegLimit` (`archo.cpp:52`) and the identifier and Info.plist hashes that leak from
  one slice to the next (`macho.cpp:128`): `Slice` has one architecture, and no document
  says what is right when slices differ. Both are listed as hazards.
* A dylib given with `-l` whose copy into the folder is cut short (`bundle.cpp:536`): it is
  there whole, or not at all.
* What only prints: `PrintInfo`, the `SlotParse` functions, logging, timers; and the
  options' syntax.
* `uninstallDylibs` and the editing and conversion operations of `JValue` that nothing
  calls; comments and reals in JSON; layout of texts; the byte layout of binary lists.
* zip, unzip and ideviceinstaller (external programs, modelled as steps that succeed, fail or, for
  unzip, are killed), cryptography (external library: a certificate fits a key or not, a CMS message
  has a size and says what it attests), the build files.
