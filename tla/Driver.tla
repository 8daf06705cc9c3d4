-------------------------------- MODULE Driver -------------------------------
(***************************************************************************)
(* main of zsign.cpp: from the path on the command line to the exit code.  *)
(* A single file is edited in place; a folder is signed in place, an       *)
(* archive in a copy; either may be archived and installed.  unzip, zip    *)
(* and ideviceinstaller are external; SignFolder, ZMachO and the cache are *)
(* the subject of other modules and only succeed or fail here.             *)
(***************************************************************************)
EXTENDS SignAsset

CONSTANTS
  Missing,     \* no file
  Credentials, \* what -k, -c, -m and -e may name
  Options,     \* the command lines
  Kinds,       \* what the path may name: see KindSet
  Faults,      \* what may fail: see FaultSet
  MaxRuns      \* bound on the number of commands

\* An .app folder below Payload, one elsewhere, one in /Payload (to which chdir fails); an
\* archive, one whose .app is not below Payload, one without any; a folder or an archive with
\* the path of a temporary one, left by a killed run; a Mach-O file, another file.
Archives == {"ipa", "misplaced", "bare", "leftipa"}
KindSet  == {"payload", "folder", "root", "leftfolder", "macho", "broken", "absent"} \cup Archives
\* A kill hits the command, a signal only its unzip; the others are noticed failures.
FaultSet == {"kill", "signal", "unzip", "sign", "zip", "install"}
\* -o may name any file, one with the path of a temporary archive, or the input.
Files     == {"file", "temp"}
OptionSet == [creds : Credentials, adhoc : BOOLEAN, single : BOOLEAN, inject : BOOLEAN,
              output : {"none", "input"} \cup Files, install : BOOLEAN]

AppSet == [state : {"delivered", "edited", "signed"}, run : 0 .. MaxRuns, whole : BOOLEAN]
Delivered == [state |-> "delivered", run |-> 0, whole |-> TRUE]

ASSUME DriverAssumption ==
  /\ Options \subseteq OptionSet
  \* PKCS #12 yields the certificate of its key.
  /\ \A c \in Credentials : c.pkey # None => c.pkey.cert = None \/ c.pkey.cert.key = c.pkey.key
  \* A profile lists its certificates.
  /\ \A c \in Credentials : c.prov # None => c.prov.certs \in Seq(Range(c.prov.certs))
  \* None is no asset.
  /\ \A c \in Credentials : c.prov # None /\ c.pkey # None => Identity(c) # None
  /\ Kinds \subseteq KindSet /\ Faults \subseteq FaultSet
  /\ MaxRuns \in Nat /\ Missing \notin AppSet

VARIABLES
  kind,    \* what the path names
  input,   \* what is there
  out,     \* the files that -o names, if it is not the input
  folder,  \* the temporary folder of each run, as far as it is there
  temp,    \* the temporary archive of each run
  phone,   \* what was installed last
  pc,      \* "idle", or what the process is about to do
  opt,     \* its command line
  asset,   \* its ZSignAsset
  place,   \* m_strAppFolder: where SignFolder has found the .app
  ok,      \* what Sign returned
  exit,    \* the exit code of the last command; 1: it runs, was killed, or there was none
  runs,    \* how many commands have been started
  archived, \* history: this run has made its archive
  sound    \* history: the input was whole and is unzipped as a whole

vars == <<kind, input, out, folder, temp, phone, pc, opt, asset, place, ok, exit, runs, archived, sound>>

Runs == 1 .. MaxRuns
InCopy == kind \in Archives
\* What is signed and archived.
App == IF InCopy THEN folder[runs] ELSE input

Init ==
  /\ kind \in Kinds
  /\ input = IF kind = "absent" THEN Missing ELSE Delivered
  /\ \E x \in {Missing, Delivered} : out = [f \in Files |-> x]
  /\ folder = [r \in Runs |-> Missing]
  /\ temp = [r \in Runs |-> Missing]
  /\ phone = Missing
  /\ pc = "idle"
  /\ opt \in {o \in Options : o.output # "input"}
  /\ asset = None
  /\ place = "none"
  /\ ok = "unknown"
  /\ exit = 1
  /\ runs = 0
  /\ archived = FALSE
  /\ sound = FALSE

Exits(code) == pc' = "idle" /\ exit' = code

\* What this run makes of an application, whole or not.
Made(state, app) == [state |-> state, run |-> runs, whole |-> app.whole]

\* The path and the options are looked at; -s excludes -o.
Start(o) ==
  /\ pc = "idle" /\ runs < MaxRuns
  /\ o.output = "input" => InCopy \* an archive may replace itself
  /\ runs' = runs + 1
  /\ opt' = o
  /\ asset' = None /\ place' = "none" /\ ok' = "unknown" /\ archived' = FALSE
  /\ sound' = (input # Missing /\ input.whole)
  /\ exit' = 1
  /\ pc' = "look"
  /\ UNCHANGED <<kind, input, out, folder, temp, phone>>

Look ==
  /\ pc = "look"
  /\ IF (opt.single /\ opt.output # "none") \/ input = Missing \/ kind = "broken"
     THEN Exits(-1)
     ELSE pc' = (IF kind = "macho" THEN "inject" ELSE "asset") /\ UNCHANGED exit
  /\ UNCHANGED <<kind, input, out, folder, temp, phone, opt, asset, place, ok, runs, archived, sound>>

\* A single file is edited before anyone asks for credentials; without -s that is all.
Inject ==
  /\ pc = "inject"
  /\ input' = IF opt.inject THEN Made("edited", input) ELSE input
  /\ pc' = "injected"
  /\ UNCHANGED <<kind, out, folder, temp, phone, opt, asset, place, ok, exit, runs, archived, sound>>
Injected ==
  /\ pc = "injected"
  /\ IF opt.single THEN pc' = "asset" /\ UNCHANGED exit ELSE Exits(0)
  /\ UNCHANGED <<kind, input, out, folder, temp, phone, opt, asset, place, ok, runs, archived, sound>>

\* Mutant of LoadAsset: a refused asset is noticed only for archives.
LoadAssetOrNot ==
  /\ pc = "asset"
  /\ asset' = InitAsset(opt.adhoc, opt.creds)
  /\ IF asset' = None /\ InCopy THEN Exits(-1)
     ELSE /\ pc' = (CASE kind = "macho" -> "single" [] InCopy -> "unzip" [] OTHER -> "sign")
          /\ UNCHANGED exit
  /\ UNCHANGED <<kind, input, out, folder, temp, phone, opt, place, ok, runs, archived, sound>>
LoadAsset ==
  /\ pc = "asset"
  /\ asset' = InitAsset(opt.adhoc, opt.creds)
  /\ IF asset' = None THEN Exits(-1)
     ELSE /\ pc' = (CASE kind = "macho" -> "single" [] InCopy -> "unzip" [] OTHER -> "sign")
          /\ UNCHANGED exit
  /\ UNCHANGED <<kind, input, out, folder, temp, phone, opt, place, ok, runs, archived, sound>>

\* What a signer makes of an application; one that is not whole may lack what it needs.
Outcomes(app) ==
  {<<"signed", Made("signed", app)>>}
    \cup IF "sign" \in Faults \/ ~app.whole THEN {<<"unsigned", app>>, <<"unsigned", Made("edited", app)>>}
                                            ELSE {}

\* Nobody looks at what Sign returns for a single file.
SignSingle ==
  /\ pc = "single"
  /\ \E s \in Outcomes(input) : ok' = s[1] /\ input' = s[2]
  /\ pc' = "free"
  /\ UNCHANGED <<kind, out, folder, temp, phone, opt, asset, place, exit, runs, archived, sound>>
FreeSingle ==
  /\ pc = "free"
  /\ Exits(0)
  /\ UNCHANGED <<kind, input, out, folder, temp, phone, opt, asset, place, ok, runs, archived, sound>>

Unzip ==
  /\ pc = "unzip"
  /\ folder' = [folder EXCEPT ![runs] = input]
  /\ pc' = "sign"
  /\ UNCHANGED <<kind, input, out, temp, phone, opt, asset, place, ok, exit, runs, archived, sound>>

\* What unzip has made is removed.
UnzipFails ==
  /\ "unzip" \in Faults
  /\ pc = "unzip"
  /\ folder' = [folder EXCEPT ![runs] = Missing]
  /\ Exits(-1)
  /\ UNCHANGED <<kind, input, out, temp, phone, opt, asset, place, ok, runs, archived, sound>>

\* A child that did not exit by itself counts as a success: the folder may be there in part
\* or not at all.
UnzipKilled ==
  /\ "signal" \in Faults
  /\ pc = "unzip"
  /\ folder' \in {[folder EXCEPT ![runs] = x] : x \in {Missing, [input EXCEPT !.whole = FALSE]}}
  /\ sound' = FALSE
  /\ pc' = "sign"
  /\ UNCHANGED <<kind, input, out, temp, phone, opt, asset, place, ok, exit, runs, archived>>

\* Where an .app folder may be found in what was unzipped, or in the given folder.
Places(app) ==
  CASE kind = "bare"                   -> {"none"}
    [] kind = "root"                   -> {"root"}
    [] kind \in {"folder", "misplaced"} -> {"elsewhere"} \cup (IF app.whole THEN {} ELSE {"none"})
    [] OTHER                           -> {"Payload"} \cup (IF app.whole THEN {} ELSE {"none"})

\* SignFolder; it fails if there is no .app folder.
SignFolder ==
  /\ pc = "sign"
  /\ place' \in IF App = Missing THEN {"none"} ELSE Places(App)
  /\ \E s \in IF place' = "none" THEN {<<"unsigned", App>>} ELSE Outcomes(App) :
       /\ ok' = s[1]
       /\ IF InCopy THEN folder' = [folder EXCEPT ![runs] = s[2]] /\ UNCHANGED input
                    ELSE input' = s[2] /\ UNCHANGED folder
  /\ pc' = "archive"
  /\ UNCHANGED <<kind, out, temp, phone, opt, asset, exit, runs, archived, sound>>

(***************************************************************************)
(* The archive: at the -o path, which may be the input's, or, to install   *)
(* without -o, in a temporary file of this run.                            *)
(***************************************************************************)
Wanted     == opt.output # "none" \/ opt.install
Overwrites == opt.output = "input"
Target    == CASE opt.output = "none" -> IF runs = 0 THEN Missing ELSE temp[runs]
               [] Overwrites          -> input
               [] OTHER               -> out[opt.output]
PutTarget(x) ==
  CASE opt.output = "none" -> temp' = [temp EXCEPT ![runs] = x] /\ UNCHANGED <<input, out>>
    [] Overwrites          -> input' = x /\ UNCHANGED <<temp, out>>
    [] OTHER               -> out' = [out EXCEPT ![opt.output] = x] /\ UNCHANGED <<temp, input>>

\* m_strAppFolder has no "/Payload" in it.
NoPayload == place \in {"none", "elsewhere"}

\* It is made whether or not signing went well; from /Payload it is not made at all.
Archive ==
  /\ pc = "archive"
  /\ CASE Wanted /\ NoPayload        -> Exits(-1) /\ UNCHANGED <<temp, input, out>>
       [] ~Wanted \/ place = "root"  -> pc' = "install" /\ UNCHANGED <<exit, temp, input, out>>
       [] OTHER                      -> pc' = "zip" /\ PutTarget(Missing) /\ UNCHANGED exit
  /\ UNCHANGED <<kind, folder, phone, opt, asset, place, ok, runs, archived, sound>>

ZipFolder ==
  /\ pc = "zip"
  /\ PutTarget(App)
  /\ pc' = "install"
  /\ archived' = TRUE
  /\ UNCHANGED <<kind, folder, phone, opt, asset, place, ok, exit, runs, sound>>

\* zip itself writes its archive elsewhere first: there is none if it fails.
ZipFails ==
  /\ "zip" \in Faults
  /\ pc = "zip"
  /\ Exits(-1)
  /\ UNCHANGED <<kind, input, out, folder, temp, phone, opt, asset, place, ok, runs, archived, sound>>

\* Mutant of Installs: an archive is installed whether or not it was signed.
InstallsAll == opt.install
Installs == opt.install /\ ok = "signed"

\* Nobody looks at what ideviceinstaller says.
Install ==
  /\ pc = "install"
  /\ \/ /\ Installs /\ Target # Missing
        /\ phone' = Target
     \/ /\ ~Installs \/ Target = Missing \/ "install" \in Faults
        /\ UNCHANGED phone
  /\ pc' = "clean"
  /\ UNCHANGED <<kind, input, out, folder, temp, opt, asset, place, ok, exit, runs, archived, sound>>

\* Whatever has the path of a temporary archive is removed, made by this run or not.
TempArchive == opt.output \in {"none", "temp"} \/ (Overwrites /\ kind = "leftipa")
CleanTemp ==
  /\ pc = "clean"
  /\ IF TempArchive THEN PutTarget(Missing) ELSE UNCHANGED <<input, out, temp>>
  /\ pc' = "folder"
  /\ UNCHANGED <<kind, folder, phone, opt, asset, place, ok, exit, runs, archived, sound>>

\* Mutant of CleanFolder: the folder is removed only after success.
CleanFolderIfSigned ==
  /\ pc = "folder"
  /\ folder' = [folder EXCEPT ![runs] = IF ok = "signed" THEN Missing ELSE @]
  /\ input' = IF kind = "leftfolder" THEN Missing ELSE input
  /\ pc' = "return"
  /\ UNCHANGED <<kind, out, temp, phone, opt, asset, place, ok, exit, runs, archived, sound>>
\* So is a folder: the copy, or a given one that an earlier run left.
CleanFolder ==
  /\ pc = "folder"
  /\ folder' = [folder EXCEPT ![runs] = Missing]
  /\ input' = IF kind = "leftfolder" THEN Missing ELSE input
  /\ pc' = "return"
  /\ UNCHANGED <<kind, out, temp, phone, opt, asset, place, ok, exit, runs, archived, sound>>

Return ==
  /\ pc = "return"
  /\ Exits(IF ok = "signed" THEN 0 ELSE -1)
  /\ UNCHANGED <<kind, input, out, folder, temp, phone, opt, asset, place, ok, runs, archived, sound>>

Kill ==
  /\ "kill" \in Faults
  /\ pc # "idle"
  /\ Exits(1)
  /\ UNCHANGED <<kind, input, out, folder, temp, phone, opt, asset, place, ok, runs, archived, sound>>

Step == \/ Look \/ Inject \/ Injected \/ LoadAsset \/ SignSingle \/ FreeSingle
        \/ Unzip \/ UnzipFails \/ UnzipKilled \/ SignFolder \/ Archive \/ ZipFolder \/ ZipFails
        \/ Install \/ CleanTemp \/ CleanFolder \/ Return

Next == (\E o \in Options : Start(o)) \/ Step \/ Kill

Spec == Init /\ [][Next]_vars

(***************************************************************************)
(* Properties.                                                             *)
(***************************************************************************)
TypeOK ==
  /\ kind \in Kinds
  /\ input \in AppSet \cup {Missing} /\ out \in [Files -> AppSet \cup {Missing}]
  /\ folder \in [Runs -> AppSet \cup {Missing}] /\ temp \in [Runs -> AppSet \cup {Missing}]
  /\ phone \in AppSet \cup {Missing}
  /\ pc \in {"idle", "look", "inject", "injected", "asset", "single", "free", "unzip", "sign",
             "archive", "zip", "install", "clean", "folder", "return"}
  /\ pc # "idle" => runs > 0
  /\ pc \in {"single", "free", "unzip", "sign", "archive", "zip", "install", "clean"} => asset # None
  /\ opt \in Options
  /\ place \in {"none", "root", "elsewhere", "Payload"}
  /\ ok \in {"unknown", "signed", "unsigned"}
  /\ exit \in {0, -1, 1} /\ runs \in 0 .. MaxRuns /\ archived \in BOOLEAN /\ sound \in BOOLEAN

\* A command leaves its temporary folder and archive behind only if it was killed, or could
\* not archive what it had unzipped, whether or not that was signed or complete
\* (zsign.cpp:276, 296, 310, 323-330).
LeavesNoTrace ==
  pc = "idle" /\ runs > 0 /\ (folder[runs] # Missing \/ temp[runs] # Missing) =>
    \/ exit = 1
    \/ exit = -1 /\ ok # "unknown" /\ Wanted /\ ~archived

\* The certificate that signs belongs to the private key and has a name, wherever it came
\* from; and with a key and a team's profile no command is refused for its credentials
\* unless no certificate of the key is among them, or one without a name
\* (openssl.cpp:627-700).
SignsWithPairedKey ==
  ~opt.adhoc /\ opt.creds.prov # None /\ opt.creds.pkey # None =>
    LET c     == opt.creds
        pairs == {x \in ({c.pkey.cert, c.cert} \cup Range(c.prov.certs)) \ {None} : x.key = c.pkey.key}
    IN  /\ asset # None => asset.cert \in pairs /\ asset.cert.name # None
        /\ pc = "idle" /\ exit = -1 /\ asset = None /\ c.prov.team # None =>
             \/ pairs = {} \/ \E x \in pairs : x.name = None
             \/ input = Missing \/ kind = "broken" \/ (opt.single /\ opt.output # "none")

(***************************************************************************)
(* What the proofs rest on (see DriverProofs): what a command has in hand  *)
(* wherever it may be stopped.                                             *)
(***************************************************************************)
Opening  == {"inject", "injected", "asset", "single", "unzip"}
Equipped == {"single", "free", "unzip", "sign", "archive", "zip", "install", "clean", "folder", "return"}
Bundled  == {"unzip", "sign", "archive", "zip", "install", "clean", "folder", "return"}

\* The kind of the path decides the way through main, the place of the .app folder whether
\* there is an archive.
Route ==
  /\ opt.output = "input" => InCopy
  /\ pc \in {"inject", "injected", "single", "free"} => kind = "macho"
  /\ pc \in Bundled => kind # "macho"
  /\ pc = "unzip" => InCopy
  /\ pc \in Bundled \ {"unzip", "sign"} => (place = "root" <=> kind = "root")
  /\ pc = "zip" => Wanted /\ place = "Payload"

\* Later runs have no temporary files yet; this one has a folder from unzipping on, an
\* archive from zipping on.
Traces ==
  /\ \A r \in Runs : r > runs => folder[r] = Missing /\ temp[r] = Missing
  /\ pc \in Opening \cup {"look", "free", "return"} => folder[runs] = Missing
  /\ ~InCopy /\ pc # "idle" => folder[runs] = Missing
  /\ pc \in Opening \cup {"look", "free", "sign", "archive", "zip", "folder", "return"} => temp[runs] = Missing
  /\ pc # "idle" /\ (opt.output # "none" \/ ~archived) => temp[runs] = Missing

\* What was signed by this run, and what is as whole as it was given.
SignedNow(x)  == x.state = "signed" /\ x.run = runs
Whole(x) == sound => x.whole
InHand ==
  /\ pc = "look" /\ input # Missing => Whole(input)
  /\ pc \in Opening => input \in AppSet /\ Whole(input)
  /\ pc = "sign" /\ ~InCopy => input \in AppSet
  /\ pc \in {"sign", "archive", "zip"} => (sound => App \in AppSet /\ App.whole)
  /\ pc \in {"archive", "zip"} /\ place # "none" => App \in AppSet
  /\ pc \in {"archive", "zip"} /\ ok = "signed" => App \in AppSet /\ SignedNow(App)
  /\ pc \in {"archive", "zip"} /\ ok # "signed" /\ App # Missing => ~SignedNow(App)

\* No run has signed what later ones will.
Dated ==
  /\ input # Missing => input.run <= runs
  /\ pc \in Opening \cup {"look", "sign"} /\ input # Missing => ~SignedNow(input)
  /\ pc = "sign" /\ App # Missing => ~SignedNow(App)
  /\ pc \in {"sign", "archive", "zip"} /\ App # Missing => App.run <= runs

\* The verdict comes with signing, the archive after it and only where one can be made.
Progress ==
  /\ pc \in Opening \cup {"look", "sign"} => ok = "unknown"
  /\ pc \in {"archive", "zip", "install", "clean", "folder", "return"} => ok # "unknown"
  /\ pc \in Opening \cup {"look", "free", "sign", "archive", "zip"} => ~archived
  /\ pc \in {"install", "clean", "folder", "return"} => (archived <=> Wanted /\ kind # "root")

\* The asset is what its options give; only a command that could not have one, or had
\* nothing to open, ends without one.
AssetInv ==
  /\ pc \in Equipped => asset # None
  /\ asset # None => asset = InitAsset(opt.adhoc, opt.creds)
  /\ pc = "idle" /\ exit = -1 /\ asset = None =>
       \/ InitAsset(opt.adhoc, opt.creds) = None
       \/ input = Missing \/ kind = "broken" \/ (opt.single /\ opt.output # "none")

CommandInv == Route /\ Traces /\ InHand /\ Dated /\ Progress /\ AssetInv /\ LeavesNoTrace

\* The promise: see Command. What the user sees is only what Command allows: among others an
\* archive is signed by this run exactly if that was the verdict, it is whole unless unzip
\* was killed, only temporary paths are removed, and the exit code agrees with all of that.
Phase == IF pc = "idle" THEN "idle" ELSE IF pc = "zip" THEN "withdrawn"
         ELSE IF archived THEN "published" ELSE "work"
Promise ==
  INSTANCE Command WITH
    job     <- [bundle |-> kind # "macho", copy |-> InCopy, same |-> Overwrites,
                archive |-> Wanted /\ kind # "root",
                tempArchive |-> TempArchive, tempFolder |-> kind = "leftfolder"],
    app     <- input, archive <- Target, verdict <- ok, phase <- Phase, run <- runs
KeepsPromise == Promise!Spec
==============================================================================
