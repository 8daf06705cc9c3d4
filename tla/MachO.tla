-------------------------------- MODULE MachO --------------------------------
(***************************************************************************)
(* Signing one Mach-O file, thin or fat: ZMachO of macho.cpp with what it  *)
(* has ZArchO do to each slice.  The file is mapped and edited in place; a *)
(* file that has no room for its signature is rebuilt beside itself, slice *)
(* by slice in f.archo.N and, if it is fat, joined in f.fato, and replaced.*)
(* Separate runs follow each other on the same file and may be killed at   *)
(* any point; what they leave beside the file stays.                       *)
(***************************************************************************)
EXTENDS Naturals, Sequences

CONSTANTS
  Lengths,  \* the numbers of slices a file may have: 1 is thin, or fat with a single slice
  Codes,    \* programs the file may hold
  Original, \* the one it holds at first
  Garbled,  \* no program: what is left of one that was cut short
  Missing,  \* no file, no signature
  FatHead,  \* the header of a fat file
  Roomy,    \* the slices with room for another load command
  Options,  \* the command lines
  Faults,   \* which faults may happen: see FaultKinds
  MaxRuns   \* bound on the number of runs, for each number of slices

FaultKinds == {"kill", "full", "join", "rename", "rebuild"}

ASSUME SlicesAssumption == Lengths \subseteq Nat \ {0} /\ Roomy \subseteq Nat
ASSUME CodesAssumption ==
  Original \in Codes /\ Garbled \notin Codes /\ Missing \notin Codes \cup {Garbled}
\* need: the size class a slice must have to hold the signature of the run's asset;
\* single: called for a single file by main, not by the bundle signer.
ASSUME OptionsAssumption ==
  /\ Options \subseteq [force : BOOLEAN, inject : BOOLEAN, weak : BOOLEAN,
                        single : BOOLEAN, need : 0 .. 3]
  /\ Faults \subseteq FaultKinds
  /\ MaxRuns \in [Lengths -> Nat]

VARIABLES
  last,      \* the number of slices
  file,      \* the file: a slice for every index, Garbled (it does not parse) or Missing
  parts,     \* parts[i]: f.archo.i, or Missing
  fato,      \* the chunks of f.fato in the order they were appended; none: no such file
  pc,        \* "idle", or what the running process is doing
  at,        \* the slice it is at; while joining, 0 is the fat header
  opt,       \* its command line
  create,    \* bCreate: a load command was added
  realloced, \* m_bCSRealloced
  runs,      \* how many runs have been started
  result,    \* how the last run ended: "none", "ok", "failed" or "killed"
  given,     \* history: the program the file held when it was delivered
  clean      \* history: the last run started on a file that none had left half-way

vars == <<last, file, parts, fato, pc, at, opt, create, realloced, runs, result, given, clean>>

Slices == 1 .. last

(***************************************************************************)
(* A slice: its program, the size class of its signature area (2 is what a *)
(* reallocation gives), the size its __LINKEDIT and LC_CODE_SIGNATURE      *)
(* claim, the injected load command, and the code slots and run of its     *)
(* signature.                                                              *)
(***************************************************************************)
Grown == 2
SliceSetOf(n) == [code : Codes \cup {Garbled}, size : 0 .. Grown, claims : 0 .. Grown,
                  cmd : {"none", "strong", "weak"},
                  slots : {Missing} \cup ((Codes \cup {Garbled}) \X (0 .. Grown)
                                            \X {"none", "strong", "weak"}),
                  run : 0 .. MaxRuns[n]]
SliceSet == SliceSetOf(last)

\* What stands for no file, or for one that does not parse, is not a slice or a file.
ASSUME SentinelsAssumption ==
  \A n \in Lengths : \A x \in {Missing, Garbled, FatHead} :
    x \notin SliceSetOf(n) /\ x \notin [1 .. n -> SliceSetOf(n)]

\* The pages of a slice, as its code slots hash them.
Pages(s) == <<s.code, s.claims, s.cmd>>
\* What is left of a slice whose writing was cut short.
Cut(s) == [s EXCEPT !.code = Garbled]
IsWhole(s) == s.code # Garbled

\* A file as its builder delivers it: any sizes, signed or not.
Delivered(c) ==
  {[i \in Slices |-> [code |-> c, size |-> size[i], claims |-> size[i], cmd |-> "none",
                      slots |-> IF i \in signed THEN <<c, size[i], "none">> ELSE Missing,
                      run |-> 0]] : size \in [Slices -> 0 .. Grown], signed \in SUBSET Slices}

NoParts == [i \in Slices |-> Missing]
\* OpenFile: every slice of the file has to begin like one.
Opens(f) == f \notin {Missing, Garbled}

\* The joined file as it will be read: the first header finds a slice at every offset it
\* lists if no chunk before that slice was cut short.  What comes later in the file is
\* not looked at.
Joined(chunks) ==
  IF /\ Len(chunks) > last
     /\ chunks[1] = FatHead
     /\ \A i \in Slices : chunks[i + 1] \notin {FatHead, Garbled}
     /\ \A i \in Slices : i < last => IsWhole(chunks[i + 1])
  THEN [i \in Slices |-> chunks[i + 1]]
  ELSE Garbled

\* The file is the program as delivered, or as a complete run left it: its headers agree
\* and no half of a joined file lies beside it.
Clean == /\ Opens(file)
         /\ \A i \in Slices : file[i].claims = file[i].size /\ file[i].code = given
         /\ fato = << >>

Init ==
  /\ last \in Lengths
  /\ file \in Delivered(Original)
  /\ parts = NoParts
  /\ fato = << >>
  /\ pc = "idle"
  /\ at = 1
  /\ opt \in Options
  /\ create = FALSE
  /\ realloced = FALSE
  /\ runs = 0
  /\ result = "none"
  /\ given = Original
  /\ clean = TRUE

\* The process is over; what it had in memory is gone.
Ends(outcome) ==
  /\ pc' = "idle"
  /\ result' = outcome
  /\ at' = 1
  /\ create' = FALSE
  /\ realloced' = FALSE
  /\ UNCHANGED <<opt, runs, given, clean>>

\* Init and OpenFile: the file is mapped; one that does not parse ends the run.
Start(o) ==
  /\ pc = "idle"
  /\ runs < MaxRuns[last]
  /\ runs' = runs + 1
  /\ opt' = o
  /\ clean' = Clean
  /\ \/ /\ Opens(file)
        /\ pc' = IF o.inject THEN "inject" ELSE "sign"
        /\ result' = "none"
     \/ /\ ~Opens(file)
        /\ pc' = pc
        /\ result' = "failed"
  /\ UNCHANGED <<file, parts, fato, at, create, realloced, given>>

\* Mutant of Continue: the index is not reset for the next loop.
ContinuePast(step) ==
  /\ at' = at + 1
  /\ pc' = IF at < last THEN pc ELSE step
\* A loop over the slices goes on, or its successor begins.
Continue(step) ==
  /\ at' = IF at < last THEN at + 1 ELSE 1
  /\ pc' = IF at < last THEN pc ELSE step

LoadKind(weak) == IF weak THEN "weak" ELSE "strong"

\* InjectDyLib on the next slice: a command that is there gets the right type, else one
\* is added.
InjectSlice ==
  /\ pc = "inject"
  /\ at \in Roomy \/ file[at].cmd # "none"
  /\ file' = [file EXCEPT ![at].cmd = LoadKind(opt.weak)]
  /\ create' = (create \/ file[at].cmd = "none")
  /\ Continue("sign")
  /\ UNCHANGED <<parts, fato, opt, realloced, runs, result, given, clean>>

\* No room for the command: the slices after this one get none, and nobody looks.
InjectFails ==
  /\ pc = "inject"
  /\ at \notin Roomy /\ file[at].cmd = "none"
  /\ pc' = "sign"
  /\ at' = 1
  /\ UNCHANGED <<file, parts, fato, opt, create, realloced, runs, result, given, clean>>

\* Mutant of Forces: only an added load command makes new code slots.
ForcesIfCreated == create /\ ~opt.single
\* The bForce that Sign is called with: main does not look at bCreate.
Forces == opt.force \/ (create /\ ~opt.single)

\* The new signature fits in the area that is there.
Fits(s) == s.size >= opt.need

\* ZArchO::Sign: code slots that are there are kept unless bForce.
Signed(s) == [s EXCEPT !.run = runs,
                       !.slots = IF Forces \/ s.slots = Missing THEN Pages(s) ELSE s.slots]

SignSlice ==
  /\ pc = "sign"
  /\ Fits(file[at])
  /\ file' = [file EXCEPT ![at] = Signed(@)]
  /\ IF at = last THEN Ends("ok")
     ELSE at' = at + 1 /\ UNCHANGED <<pc, opt, create, realloced, runs, result, given, clean>>
  /\ UNCHANGED <<parts, fato>>

\* The first shortage of a run leads to a reallocation of the whole file; a second one
\* is a failure.
NoSpace ==
  /\ pc = "sign"
  /\ ~Fits(file[at])
  /\ \/ /\ realloced
        /\ Ends("failed")
     \/ /\ ~realloced
        /\ realloced' = TRUE
        /\ pc' = "realloc"
        /\ at' = 1
        /\ UNCHANGED <<opt, create, runs, result, given, clean>>
  /\ UNCHANGED <<file, parts, fato>>

\* Mutant of NewPart: f.archo.N is appended to without being removed first.
PartAfter(old, s) == IF old = Missing THEN s ELSE Cut(s)
\* f.archo.N is removed, then the slice and the padding are appended.
NewPart(old, s) == s

\* Mutant of Enlarged: the slice is written before its headers are edited.
EnlargedFirst(s) == [s EXCEPT !.size = Grown]
\* ZArchO::ReallocCodeSignSpace: the mapped slice's sizes are edited, then it is written
\* to its own file with the bytes that were short.
Enlarged(s) == [s EXCEPT !.claims = Grown, !.size = Grown]

ReallocSlice ==
  /\ pc = "realloc"
  /\ file[at].size < Grown
  /\ file' = [file EXCEPT ![at].claims = Grown]
  /\ parts' = [parts EXCEPT ![at] = NewPart(@, Enlarged(file[at]))]
  /\ IF at < last THEN at' = at + 1 /\ pc' = pc
     ELSE IF last = 1 THEN at' = 1 /\ pc' = "remove" ELSE at' = 0 /\ pc' = "join"
  /\ UNCHANGED <<fato, opt, create, realloced, runs, result, given, clean>>

\* A slice that is large enough already: the reallocation fails, what it has done to the
\* slices before this one stays.
ReallocRefused ==
  /\ pc = "realloc"
  /\ file[at].size = Grown
  /\ parts' = [parts EXCEPT ![at] = Missing]
  /\ Ends("failed")
  /\ UNCHANGED <<file, fato>>

\* An unsigned slice without room for LC_CODE_SIGNATURE (how much the injected command
\* would have needed says nothing about that): refused, when __LINKEDIT is edited already.
NoCommandSpace ==
  /\ pc = "realloc"
  /\ file[at].size < Grown
  /\ file[at].slots = Missing /\ at \notin Roomy
  /\ file' = [file EXCEPT ![at].claims = Grown]
  /\ parts' = [parts EXCEPT ![at] = Missing]
  /\ Ends("failed")
  /\ UNCHANGED fato

\* The slice is edited and its copy cannot be written: cut short, or removed again.
PartLost(outcome) ==
  /\ pc = "realloc"
  /\ file[at].size < Grown
  /\ file' = [file EXCEPT ![at].claims = Grown]
  /\ \E left \in {Missing, Cut(Enlarged(file[at]))} : parts' = [parts EXCEPT ![at] = left]
  /\ Ends(outcome)
  /\ UNCHANGED fato

\* The fat header and the slices are appended to f.fato, one after the other; a slice's
\* own file is removed when it has been appended.
JoinHeader ==
  /\ pc = "join"
  /\ at = 0
  /\ fato' = Append(fato, FatHead)
  /\ at' = 1
  /\ UNCHANGED <<file, parts, pc, opt, create, realloced, runs, result, given, clean>>

\* Nobody looks whether a slice could be appended: on a full disk it is cut short.
JoinSlice ==
  /\ pc = "join"
  /\ at > 0
  /\ \E chunk \in {parts[at]} \cup (IF "join" \in Faults THEN {Cut(parts[at])} ELSE {}) :
       fato' = Append(fato, chunk)
  /\ parts' = [parts EXCEPT ![at] = Missing]
  /\ Continue("remove")
  /\ UNCHANGED <<file, opt, create, realloced, runs, result, given, clean>>

\* The file is removed, then the new one is renamed to its name ...
RemoveOld ==
  /\ pc = "remove"
  /\ file' = Missing
  /\ pc' = "rename"
  /\ UNCHANGED <<parts, fato, at, opt, create, realloced, runs, result, given, clean>>

\* ... and opened; signing starts over.
RenameNew ==
  /\ pc = "rename"
  /\ file' = IF last = 1 THEN parts ELSE Joined(fato)
  /\ parts' = IF last = 1 THEN NoParts ELSE parts
  /\ fato' = IF last = 1 THEN fato ELSE << >>
  /\ \/ /\ Opens(file')
        /\ pc' = "sign"
        /\ UNCHANGED <<at, opt, create, realloced, runs, result, given, clean>>
     \/ /\ ~Opens(file')
        /\ Ends("failed")

RenameFails ==
  /\ "rename" \in Faults
  /\ pc = "rename"
  /\ Ends("failed")
  /\ UNCHANGED <<file, parts, fato>>

AppendFails == "full" \in Faults /\ PartLost("failed")

\* The process is killed: between two of its steps, while it writes a slice's file, or
\* while it appends to f.fato.
Kill ==
  /\ "kill" \in Faults
  /\ pc # "idle"
  /\ \/ Ends("killed") /\ UNCHANGED <<file, parts, fato>>
     \/ PartLost("killed")
     \/ /\ pc = "join"
        /\ fato' = Append(fato, IF at = 0 THEN Garbled ELSE Cut(parts[at]))
        /\ Ends("killed")
        /\ UNCHANGED <<file, parts>>

\* Between runs the file is built anew, with another program.
Rebuild ==
  /\ "rebuild" \in Faults
  /\ pc = "idle"
  /\ result # "none"
  /\ \E c \in Codes \ {given} : file' \in Delivered(c) /\ given' = c
  /\ result' = "none"
  /\ UNCHANGED <<parts, fato, pc, at, opt, create, realloced, runs, clean>>

Step == \/ InjectSlice \/ InjectFails \/ SignSlice \/ NoSpace \/ ReallocSlice
        \/ ReallocRefused \/ NoCommandSpace \/ JoinHeader \/ JoinSlice \/ RemoveOld \/ RenameNew

Next == /\ UNCHANGED last
        /\ \/ \E o \in Options : Start(o)
           \/ Step
           \/ RenameFails \/ AppendFails \/ Kill \/ Rebuild

Spec == Init /\ [][Next]_vars

(***************************************************************************)
(* Properties.                                                             *)
(***************************************************************************)
Chunks == SliceSet \cup {FatHead, Garbled}

\* Every variable has its type, and a loop over the slices is at one of them.
TypeOK ==
  /\ last \in Lengths
  /\ file \in [Slices -> SliceSet] \cup {Missing, Garbled}
  /\ parts \in [Slices -> SliceSet \cup {Missing}]
  /\ fato \in Seq(Chunks)
  /\ pc \in {"idle", "inject", "sign", "realloc", "join", "remove", "rename"}
  /\ pc \in {"inject", "sign", "realloc", "join", "remove"} => Opens(file)
  /\ at \in IF pc = "join" THEN 0 .. last ELSE Slices
  /\ pc = "join" /\ at > 0 => parts[at] # Missing
  /\ opt \in Options
  /\ create \in BOOLEAN /\ realloced \in BOOLEAN
  /\ runs \in 0 .. MaxRuns[last]
  /\ result \in {"none", "ok", "failed", "killed"}
  /\ given \in Codes
  /\ clean \in BOOLEAN

\* A run that reports success on a file nobody left half-way has signed every slice of the
\* program it was given, in an area that holds the signature and has the size the headers
\* claim, whether or not the file had to be rebuilt; if it was told to force, the code
\* slots are those of the pages (macho.cpp:120-158).
SuccessIsSigned ==
  result = "ok" /\ clean =>
    \A i \in Slices : /\ file[i].code = given
                      /\ file[i].run = runs
                      /\ file[i].claims = file[i].size
                      /\ file[i].size >= opt.need
                      /\ opt.force => file[i].slots = Pages(file[i])

\* Slice i of the program is on the disk, in the file, in its own file, or in f.fato at
\* the place where the header says it is.
Survives(i) ==
  \/ Opens(file) /\ file[i].code = given
  \/ parts[i] # Missing /\ parts[i].code = given
  \/ Len(fato) > i /\ fato[1] = FatHead /\ fato[i + 1] \notin {FatHead, Garbled}
     /\ fato[i + 1].code = given

\* Whenever a run is killed, or fails, the program it was given can be recovered from what
\* is on the disk: the file is removed only when its replacement is complete.  For a thin
\* file that is so always, for a fat one when the run started on a file nobody left
\* half-way (macho.cpp:177-251).
CodeSurvives == clean \/ last = 1 => \A i \in Slices : Survives(i)

\* Why they hold.  A slice's copy, and the joined file up to before slice k, are the
\* program, with headers that agree if the file's did;
Copies(s) == s.code = given /\ (clean => s.claims = s.size)
PartHolds(i) == parts[i] # Missing /\ Copies(parts[i])
JoinedTo(k) ==
  /\ Len(fato) = k
  /\ fato[1] = FatHead
  /\ \A j \in 1 .. k - 1 : fato[j + 1] \notin {FatHead, Garbled} /\ Copies(fato[j + 1])
\* every step of a reallocation finds the copies that the steps before it made, and what
\* follows starts at the first slice;
CopiesExist ==
  /\ pc \in {"idle", "remove", "rename"} => at = 1
  /\ pc = "realloc" => \A j \in 1 .. at - 1 : parts[j] # Missing
  /\ pc = "join" => last > 1 /\ \A j \in Slices : j >= at => parts[j] # Missing
  /\ pc \in {"remove", "rename"} /\ last = 1 => parts[1] # Missing
\* the copies are the program, and so is the file until it is removed.
CopiesHold ==
  clean \/ last = 1 =>
    /\ pc \notin {"idle", "rename"} => \A i \in Slices : file[i].code = given
    /\ last = 1 /\ Opens(file) => file[1].code = given
    /\ last > 1 /\ pc \in {"inject", "sign", "realloc"} => fato = << >>
    /\ pc = "realloc" => \A j \in 1 .. at - 1 : PartHolds(j)
    /\ pc = "join" => /\ \A j \in Slices : j >= at => PartHolds(j)
                      /\ IF at = 0 THEN fato = << >> ELSE JoinedTo(at)
    /\ pc \in {"remove", "rename"} => IF last = 1 THEN PartHolds(1) ELSE JoinedTo(last + 1)
\* The slices before the one at hand are signed by this run.
SignedSoFar ==
  clean /\ pc \in {"inject", "sign"} =>
    \A i \in Slices :
      /\ file[i].claims = file[i].size
      /\ (pc = "sign" /\ i < at) =>
           /\ file[i].run = runs
           /\ file[i].size >= opt.need
           /\ opt.force => file[i].slots = Pages(file[i])

ProgramInv == /\ TypeOK /\ CopiesExist /\ CopiesHold /\ CodeSurvives
              /\ SignedSoFar /\ (result = "ok" => pc = "idle") /\ SuccessIsSigned

\* The file as the one who has it signed sees it (see Executable): a copy is to take its
\* place once it is complete.
ViewOf(s) == [pages |-> Pages(s), slots |-> s.slots, signer |-> s.run]
View(f) == IF Opens(f) THEN [i \in Slices |-> ViewOf(f[i])] ELSE << >>
NewFile == IF last = 1 THEN parts ELSE Joined(fato)
PhaseOf(step) == CASE step = "inject"                -> "edit"
                   [] step \in {"realloc", "join"}   -> "resize"
                   [] step \in {"remove", "rename"}  -> "replace"
                   [] step \in {"idle", "sign"}      -> step
Outside ==
  INSTANCE Executable WITH
    None <- Missing, busy <- pc # "idle", run <- runs,
    bin     <- View(file),
    phase   <- PhaseOf(pc),
    spare   <- IF pc \in {"remove", "rename"} THEN View(NewFile) ELSE << >>,
    forced  <- pc # "idle" /\ Forces,
    resized <- realloced,
    sound   <- last = 1 \/ (clean /\ "join" \notin Faults),
    signed  <- result = "ok"

\* Whoever has a file signed sees no more than Executable tells: it is edited in place, or
\* taken away when its copy is complete and put back with the same code slots and other
\* sizes; what a success leaves is signed in all its architectures by this run, with fresh
\* code slots if they were to be made; temporary files, also those of runs that died, are
\* not seen, except in a fat file by a run that finds such remains (macho.cpp:120-251).
KeepsFile == Outside!Spec

\* Why it does: the slices before the one at hand carry this run's signature, whatever the
\* run found;
LoopSigned == pc = "sign" => \A i \in Slices : i < at =>
  file[i].run = runs /\ (Forces => file[i].slots = Pages(file[i]))
\* and whoever sees a slice's copy, or its chunk of f.fato, sees the slice itself.
SameView(s, t) == Pages(s) = Pages(t) /\ s.slots = t.slots /\ s.run = t.run
CopiesAgree ==
  /\ pc = "realloc" => \A j \in Slices : j < at => SameView(parts[j], file[j])
  /\ clean /\ pc = "join" => \A j \in Slices :
       SameView(IF j >= at THEN parts[j] ELSE fato[j + 1], file[j])
ViewInv == /\ LoopSigned
           /\ pc = "idle" => ~realloced
           /\ pc = "rename" => file = Missing

\* Stated by the documentation, and not so (see the findings).

\* README.md:179, "-s: Re-sign a single Mach-O binary in place": after a successful run the
\* signature is one of the binary as it is.
ResignedInPlaceIsValid ==
  result = "ok" /\ opt.single => \A i \in Slices : file[i].slots = Pages(file[i])

\* README.md:191, "-l Path to inject dylib file": a successful run that was asked to inject
\* a dylib, with room for the command, leaves a file that loads it.
InjectedIsLoaded ==
  result = "ok" /\ opt.inject => \A i \in Roomy : file[i].cmd # "none"
==============================================================================
