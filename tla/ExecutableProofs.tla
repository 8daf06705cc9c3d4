---------------------------- MODULE ExecutableProofs ----------------------------
(***************************************************************************)
(* MachO implements Executable: for every number of slices and of runs,    *)
(* every set of programs and command lines and every fault, whoever has a  *)
(* file signed sees no more than that.                                     *)
(***************************************************************************)
EXTENDS MachOProofs

(***************************************************************************)
(* Edits, as they are seen.                                                *)
(***************************************************************************)

\* A file that opens is seen slice by slice, and one that does not is not seen.
LEMMA ViewOfFile ==
  ASSUME last \in Lengths
  PROVE  /\ View(Missing) = << >>
         /\ \A f : ~Opens(f) => View(f) = << >>
         /\ \A f \in [Slices -> SliceSet] :
              /\ View(f) # << >>
              /\ DOMAIN View(f) = Slices
              /\ View(f) = [i \in Slices |-> ViewOf(f[i])]
              /\ \A i \in Slices : View(f)[i] = ViewOf(f[i])
<1>1. ASSUME NEW f \in [Slices -> SliceSet]
      PROVE  View(f) = [i \in Slices |-> ViewOf(f[i])] /\ View(f) # << >>
  <2>1. View(f) = [i \in Slices |-> ViewOf(f[i])]
    BY FilesOpen DEF View
  <2>2. DOMAIN View(f) # {} /\ DOMAIN << >> = {}
    BY <2>1, SliceIndices
  <2> QED BY <2>1, <2>2
<1> QED BY <1>1 DEF View, Opens

\* What is seen of a slice.
LEMMA SliceView ==
  ASSUME NEW s
  PROVE  /\ ViewOf(s).pages = Pages(s)
         /\ ViewOf(s).slots = s.slots
         /\ ViewOf(s).signer = s.run
  BY DEF ViewOf

\* What a command, or new sizes, change of a slice is only its pages.
LEMMA PagesEdited ==
  ASSUME NEW s \in SliceSet, NEW weak
  PROVE  /\ [s EXCEPT !.cmd = LoadKind(weak)].slots = s.slots
         /\ [s EXCEPT !.cmd = LoadKind(weak)].run = s.run
         /\ [s EXCEPT !.claims = Grown].slots = s.slots
         /\ [s EXCEPT !.claims = Grown].run = s.run
         /\ SameView(Enlarged(s), [s EXCEPT !.claims = Grown])
  BY DEF SliceSet, SliceSetOf, Enlarged, SameView, Pages

\* A signed slice has the same pages; its code slots are those of the pages unless the run
\* keeps what is there.
LEMMA SlotsOfSigned ==
  ASSUME NEW s \in SliceSet
  PROVE  /\ Pages(Signed(s)) = Pages(s)
         /\ Signed(s).run = runs
         /\ Signed(s).slots = IF Forces \/ s.slots = Missing THEN Pages(s) ELSE s.slots
<1> DEFINE new == IF Forces \/ s.slots = Missing THEN Pages(s) ELSE s.slots
<1>1. Signed(s) = [s EXCEPT !.run = runs, !.slots = new]
  BY DEF Signed
<1> HIDE DEF new
<1>2. /\ Signed(s).code = s.code /\ Signed(s).cmd = s.cmd /\ Signed(s).claims = s.claims
      /\ Signed(s).run = runs /\ Signed(s).slots = new
  BY <1>1 DEF SliceSet, SliceSetOf
<1> QED BY <1>2 DEF Pages, new

\* A step that edits only the pages of the slice at hand, or nothing.
LEMMA EditSeen ==
  ASSUME TypeOK, last' = last, file \in [Slices -> SliceSet], file' \in [Slices -> SliceSet],
         \A i \in Slices : file'[i].slots = file[i].slots /\ file'[i].run = file[i].run
  PROVE  Outside!Edited(View(file)')
<1>1. last \in Lengths /\ View(file)' = View(file') /\ Slices' = Slices
  BY DEF TypeOK, View, Slices
<1>2. /\ View(file) # << >> /\ View(file') # << >>
      /\ DOMAIN View(file) = Slices /\ DOMAIN View(file') = Slices
      /\ \A i \in Slices : View(file)[i] = ViewOf(file[i]) /\ View(file')[i] = ViewOf(file'[i])
  BY <1>1, ViewOfFile
<1>3. \A i \in Slices : /\ View(file')[i].slots = View(file)[i].slots
                        /\ View(file')[i].signer = View(file)[i].signer
  BY <1>2, SliceView
<1> QED BY <1>1, <1>2, <1>3 DEF Outside!NoFile, Outside!Edited

\* A step that changes the sizes of the slice at hand and the copy, or ends the run there.
LEMMA SizesEdited ==
  ASSUME TypeOK, last' = last, pc = "realloc",
         file' = [file EXCEPT ![at].claims = Grown]
  PROVE  /\ at \in Slices /\ file \in [Slices -> SliceSet] /\ file[at] \in SliceSet
         /\ file' \in [Slices -> SliceSet]
         /\ file'[at] = [file[at] EXCEPT !.claims = Grown]
         /\ \A i \in Slices \ {at} : file'[i] = file[i]
         /\ \A i \in Slices : file'[i].slots = file[i].slots /\ file'[i].run = file[i].run
<1>1. at \in Slices /\ file \in [Slices -> SliceSet] /\ file[at] \in SliceSet /\ last \in Lengths
  BY Mapped DEF TypeOK
<1> DEFINE new == [file[at] EXCEPT !.claims = Grown]
<1>2. new \in SliceSet /\ new.slots = file[at].slots /\ new.run = file[at].run
  BY <1>1, SliceEdits, PagesEdited
<1>3. file' = [file EXCEPT ![at] = new]
  OBVIOUS
<1> HIDE DEF new
<1>4. file' \in [Slices -> SliceSet] /\ file'[at] = new /\ \A i \in Slices \ {at} : file'[i] = file[i]
  BY <1>1, <1>2, <1>3, FileEdited
<1> QED BY <1>1, <1>2, <1>4 DEF new

(***************************************************************************)
(* What the process knows of the file.                                     *)
(***************************************************************************)

\* Every step keeps the signatures that the loop has made, and the file away or in place.
LEMMA ViewInvKept ==
  ASSUME TypeOK, CopiesExist, ViewInv, [Next]_vars
  PROVE  ViewInv'
<1>a. /\ last' = last /\ Slices' = Slices /\ \A i \in Slices : ~(i < 1)
      /\ last \in Lengths /\ last \in Nat \ {0}
  BY SliceIndices DEF Next, vars, Slices, TypeOK
\* A loop that starts has signed nothing.
<1>b. ASSUME pc' # "idle", pc' # "rename", at' = 1 \/ pc' # "sign"
      PROVE  ViewInv'
  BY <1>a, <1>b DEF ViewInv, LoopSigned
<1>c. ASSUME NEW outcome, Ends(outcome)
      PROVE  ViewInv'
  BY <1>c DEF Ends, ViewInv, LoopSigned
<1>1. ASSUME NEW o \in Options, Start(o) PROVE ViewInv'
  BY <1>1, <1>a DEF Start, ViewInv, LoopSigned, CopiesExist
<1>2. CASE InjectSlice
  BY <1>2, <1>b DEF InjectSlice, Continue
<1>3. CASE InjectFails
  BY <1>3, <1>b DEF InjectFails
<1>4. CASE SignSlice
  <2>1. CASE at = last
    BY <1>4, <1>c, <2>1 DEF SignSlice
  <2>2. CASE at # last
    <3>1. pc = "sign" /\ at \in Slices /\ file \in [Slices -> SliceSet] /\ file[at] \in SliceSet
          /\ at' = at + 1 /\ pc' = "sign" /\ UNCHANGED <<runs, opt, create>>
      BY <1>4, <2>2, Mapped DEF SignSlice, TypeOK
    <3>2. /\ Signed(file[at]).run = runs
          /\ Forces => Signed(file[at]).slots = Pages(Signed(file[at]))
      BY <3>1, SlotsOfSigned
    <3>3. file' = [file EXCEPT ![at] = Signed(file[at])]
      BY <1>4 DEF SignSlice
    <3>4. file'[at] = Signed(file[at]) /\ \A i \in Slices \ {at} : file'[i] = file[i]
      BY <3>1, <3>3
    <3>5. ASSUME NEW i \in Slices, i < at + 1
          PROVE  file'[i].run = runs /\ (Forces => file'[i].slots = Pages(file'[i]))
      <4>1. CASE i = at
        BY <3>2, <3>4, <4>1
      <4>2. CASE i # at
        <5>1. i < at /\ file'[i] = file[i]
          BY <1>a, <3>1, <3>4, <3>5, <4>2 DEF Slices
        <5> QED BY <3>1, <5>1 DEF ViewInv, LoopSigned
      <4> QED BY <4>1, <4>2
    <3>6. Forces' <=> Forces
      BY <3>1 DEF Forces
    <3>7. LoopSigned'
      BY <1>a, <3>1, <3>5, <3>6 DEF LoopSigned, Pages
    <3> QED BY <3>1, <3>7 DEF ViewInv
  <2> QED BY <2>1, <2>2
<1>5. CASE NoSpace
  BY <1>5, <1>b, <1>c DEF NoSpace
<1>6. CASE ReallocSlice
  BY <1>6, <1>b DEF ReallocSlice
<1>7. ASSUME ReallocRefused \/ NoCommandSpace \/ PartLost("failed") \/ PartLost("killed")
      PROVE  ViewInv'
  BY <1>7, <1>c DEF ReallocRefused, NoCommandSpace, PartLost
<1>8. CASE JoinHeader \/ JoinSlice
  BY <1>8, <1>b DEF JoinHeader, JoinSlice, Continue
<1>9. CASE RemoveOld
  BY <1>9 DEF RemoveOld, ViewInv, LoopSigned
<1>10. CASE RenameNew
  <2>1. pc = "rename" /\ at = 1
    BY <1>10 DEF RenameNew, CopiesExist
  <2> QED BY <1>10, <1>b, <1>c, <2>1 DEF RenameNew
<1>11. CASE RenameFails
  BY <1>11, <1>c DEF RenameFails
<1>12. CASE Kill
  BY <1>7, <1>12, <1>c DEF Kill
<1>13. CASE Rebuild
  BY <1>13 DEF Rebuild, ViewInv, LoopSigned
<1>14. CASE UNCHANGED vars
  BY <1>14, <1>a DEF vars, ViewInv, LoopSigned, Forces, Pages
<1> QED BY <1>1, <1>2, <1>3, <1>4, <1>5, <1>6, <1>7, <1>8, <1>9, <1>10, <1>11, <1>12, <1>13,
           <1>14 DEF Next, Step, AppendFails

\* A copy is as the slice that was copied, and stays so while it is appended to f.fato.
LEMMA AgreementKept ==
  ASSUME Arrives, TypeOK, CopiesExist, CopiesHold, CopiesAgree, [Next]_vars
  PROVE  CopiesAgree'
<1>a. /\ last' = last /\ Slices' = Slices /\ \A i \in Slices : ~(i < 1)
      /\ last \in Lengths /\ last \in Nat \ {0}
  BY SliceIndices DEF Next, vars, Slices, TypeOK
<1>b. ASSUME pc' \notin {"realloc", "join"} PROVE CopiesAgree'
  BY <1>b DEF CopiesAgree
<1>1. CASE NoSpace
  BY <1>1, <1>a, <1>b DEF NoSpace, Ends, CopiesAgree
<1>2. CASE ReallocSlice
  <2>1. pc = "realloc" /\ file' = [file EXCEPT ![at].claims = Grown]
        /\ parts' = [parts EXCEPT ![at] = Enlarged(file[at])]
    BY <1>2 DEF ReallocSlice, NewPart
  <2>2. /\ at \in Slices /\ file \in [Slices -> SliceSet] /\ file[at] \in SliceSet
        /\ file'[at] = [file[at] EXCEPT !.claims = Grown]
        /\ \A i \in Slices \ {at} : file'[i] = file[i]
    BY <1>a, <2>1, SizesEdited
  <2>3. parts'[at] = Enlarged(file[at]) /\ \A i \in Slices \ {at} : parts'[i] = parts[i]
    BY <2>1, <2>2 DEF TypeOK
  <2>4. ASSUME NEW j \in Slices, j <= at PROVE SameView(parts'[j], file'[j])
    <3>1. CASE j = at
      BY <2>2, <2>3, <3>1, PagesEdited
    <3>2. CASE j # at
      <4>1. j < at
        BY <1>a, <2>2, <2>4, <3>2 DEF Slices
      <4> QED BY <2>1, <2>2, <2>3, <3>2, <4>1 DEF CopiesAgree
    <3> QED BY <3>1, <3>2
  <2>5. CASE pc' = "realloc" /\ at' = at + 1
    <3>1. \A j \in Slices : j < at' => j <= at
      BY <1>a, <2>2, <2>5 DEF Slices
    <3> QED BY <1>a, <2>4, <2>5, <3>1 DEF CopiesAgree, SameView, Pages
  <2>6. CASE pc' = "join" /\ at' = 0 /\ at = last
    <3>1. \A j \in Slices : j >= at' /\ j <= at
      BY <1>a, <2>6 DEF Slices
    <3> QED BY <1>a, <2>4, <2>6, <3>1 DEF CopiesAgree, SameView, Pages
  <2>7. pc' = "remove" \/ (pc' = "realloc" /\ at' = at + 1) \/ (pc' = "join" /\ at' = 0 /\ at = last)
    BY <1>2, <1>a, <2>1, <2>2 DEF ReallocSlice, Slices
  <2> QED BY <1>b, <2>5, <2>6, <2>7
<1>3. CASE JoinHeader
  <2>1. /\ pc = "join" /\ pc' = "join" /\ at = 0 /\ at' = 1
        /\ UNCHANGED <<file, parts, clean>>
    BY <1>3 DEF JoinHeader
  <2>2. \A j \in Slices : j >= 0 /\ j >= 1
    BY <1>a DEF Slices
  <2> QED BY <1>a, <2>1, <2>2 DEF CopiesAgree, SameView, Pages
<1>4. CASE JoinSlice
  <2>1. pc = "join" /\ at \in Slices /\ last > 1 /\ parts[at] \in SliceSet
        /\ pc' \in {"join", "remove"} /\ UNCHANGED <<file, clean>>
    BY <1>4 DEF JoinSlice, Continue, TypeOK, Slices, CopiesExist
  <2>2. fato' = Append(fato, parts[at]) /\ parts' = [parts EXCEPT ![at] = Missing]
    BY <1>4, <1>a, <2>1 DEF JoinSlice, Arrives
  <2>3. \A i \in Slices \ {at} : parts'[i] = parts[i]
    BY <2>1, <2>2 DEF TypeOK
  <2>4. SUFFICES ASSUME clean, pc' = "join", NEW j \in Slices
                 PROVE  SameView(IF j >= at' THEN parts'[j] ELSE fato'[j + 1], file'[j])
    BY <1>a, <1>b, <2>1 DEF CopiesAgree, SameView, Pages
  <2>5. at' = at + 1
    BY <1>4, <2>4 DEF JoinSlice, Continue
  <2>6. JoinedTo(at)
    BY <1>a, <2>1, <2>4 DEF CopiesHold, Slices
  <2>7. /\ fato'[at + 1] = parts[at]
        /\ \A m \in 1 .. at : fato'[m] = fato[m]
    BY <1>a, <2>1, <2>2, <2>6, Appended DEF TypeOK, JoinedTo, Chunks
  <2>8. SameView(IF j >= at THEN parts[j] ELSE fato[j + 1], file[j])
    BY <2>1, <2>4 DEF CopiesAgree
  <2>9. at \in Nat /\ j \in Nat /\ j > 0
    BY <1>a, <2>1 DEF Slices
  <2>10. CASE j = at
    BY <2>1, <2>5, <2>7, <2>8, <2>9, <2>10
  <2>11. CASE j < at
    <3>1. j + 1 \in 1 .. at
      BY <2>9, <2>11
    <3> QED BY <2>1, <2>5, <2>7, <2>8, <2>9, <2>11, <3>1
  <2>12. CASE j > at
    BY <2>1, <2>3, <2>5, <2>8, <2>9, <2>12
  <2> QED BY <2>9, <2>10, <2>11, <2>12
<1>5. CASE pc' \notin {"realloc", "join"}
  BY <1>5, <1>b
<1>6. CASE UNCHANGED vars
  BY <1>6, <1>a DEF vars, CopiesAgree, SameView, Pages
<1> QED BY <1>1, <1>2, <1>3, <1>4, <1>5, <1>6
        DEF Next, Step, Start, InjectSlice, InjectFails, SignSlice, ReallocRefused, NoCommandSpace,
            RemoveOld, RenameNew, RenameFails, AppendFails, Kill, PartLost, Rebuild, Continue, Ends

(***************************************************************************)
(* Every step is one of Executable's.                                      *)
(***************************************************************************)

LEMMA Phases ==
  /\ PhaseOf("idle") = "idle" /\ PhaseOf("inject") = "edit" /\ PhaseOf("sign") = "sign"
  /\ PhaseOf("realloc") = "resize" /\ PhaseOf("join") = "resize"
  /\ PhaseOf("remove") = "replace" /\ PhaseOf("rename") = "replace"
  BY DEF PhaseOf

\* What is to take the file's place, if anything is.
Spare == IF pc \in {"remove", "rename"} THEN View(NewFile) ELSE << >>
\* What the copies are copies of is known.
Sound == last = 1 \/ (clean /\ "join" \notin Faults)

\* The program that a run finds does not change before the next one.
LEMMA SoundKept ==
  ASSUME last' = last, clean' = clean
  PROVE  Sound' = Sound
  BY DEF Sound

\* A process that ends is seen to end.
LEMMA EndsSeen ==
  ASSUME last' = last, NEW outcome, Ends(outcome)
  PROVE  /\ Outside!Rests
         /\ ~(pc # "idle")' /\ (pc # "idle")' \in BOOLEAN
         /\ (result = "ok")' = (outcome = "ok")
         /\ Sound' = Sound
         /\ runs' = runs
<1>1. pc' = "idle" /\ realloced' = FALSE /\ result' = outcome /\ runs' = runs /\ clean' = clean
  BY DEF Ends
<1>2. PhaseOf(pc)' = "idle"
  BY <1>1, Phases
<1> QED BY <1>1, <1>2, SoundKept DEF Outside!NoFile, Outside!Rests

\* A run that ends without success, with the file untouched or with other sizes in it.
LEMMA StopSeen ==
  ASSUME last' = last, NEW outcome, outcome # "ok", Ends(outcome), pc # "idle",
         PhaseOf(pc) # "idle",
         View(file)' = View(file) \/ (pc \in {"realloc"} /\ Outside!Edited(View(file)'))
  PROVE  Outside!Next
<1>1. Outside!Rests /\ ~(pc # "idle")' /\ ~(result = "ok")' /\ Sound' = Sound /\ runs' = runs
  BY EndsSeen
<1>2. pc = "realloc" => PhaseOf(pc) = "resize"
  BY Phases
<1>3. Outside!Stop
  BY <1>1, <1>2 DEF Outside!NoFile, Outside!Stop, Sound
<1> QED BY <1>3 DEF Outside!Next

\* A step that leaves the process at work.
LEMMA WorkSeen ==
  ASSUME last' = last, UNCHANGED <<opt, create, clean, runs, result>>, pc # "idle", pc' # "idle"
  PROVE  /\ (pc # "idle" /\ Forces)' = (pc # "idle" /\ Forces)
         /\ Sound' = Sound
         /\ (result = "ok")' = (result = "ok")
         /\ runs' = runs
  BY SoundKept DEF Forces

\* What is seen of the file does not change if neither it nor the number of slices does.
LEMMA SameFile ==
  ASSUME last' = last, file' = file
  PROVE  View(file)' = View(file)
  BY DEF View, Slices

\* The joined file is seen as the file it was made from.
LEMMA JoinedSeen ==
  ASSUME TypeOK, JoinedTo(last + 1), file \in [Slices -> SliceSet],
         \A i \in Slices : SameView(fato[i + 1], file[i])
  PROVE  View(Joined(fato)) = View(file)
<1>1. last \in Lengths /\ last \in Nat
  BY SliceIndices DEF TypeOK
<1>2. Joined(fato) \in [Slices -> SliceSet]
  BY JoinedProgram
<1>3. Joined(fato) = [i \in Slices |-> fato[i + 1]]
  BY <1>1, <1>2, FilesOpen DEF Joined, Opens
<1>4. \A i \in Slices : ViewOf(Joined(fato)[i]) = ViewOf(file[i])
  BY <1>3 DEF SameView, ViewOf
<1>5. /\ View(Joined(fato)) = [i \in Slices |-> ViewOf(Joined(fato)[i])]
      /\ View(file) = [i \in Slices |-> ViewOf(file[i])]
  BY <1>1, <1>2, ViewOfFile
<1> QED BY <1>4, <1>5

\* A slice is signed in place; with the last one the run has succeeded.
LEMMA SignSeen ==
  ASSUME TypeOK, last' = last, ViewInv, SignSlice
  PROVE  Outside!Sign
<1>1. /\ pc = "sign" /\ at \in Slices /\ file \in [Slices -> SliceSet] /\ file[at] \in SliceSet
      /\ runs \in 0 .. MaxRuns[last] /\ last \in Lengths /\ Slices' = Slices
      /\ UNCHANGED <<clean, runs>>
  BY SliceIndices, Mapped DEF SignSlice, TypeOK, Slices, Ends
<1>2. /\ Pages(Signed(file[at])) = Pages(file[at])
      /\ Signed(file[at]).run = runs
      /\ Signed(file[at]).slots =
           IF Forces \/ file[at].slots = Missing THEN Pages(file[at]) ELSE file[at].slots
      /\ Signed(file[at]) \in SliceSet
  BY <1>1, SlotsOfSigned, SignedSlice
<1>3. file' \in [Slices -> SliceSet] /\ file'[at] = Signed(file[at])
      /\ \A i \in Slices \ {at} : file'[i] = file[i]
  BY <1>1, <1>2, FileEdited DEF SignSlice
<1> DEFINE old == View(file)
           new == View(file')
<1>4. /\ old # << >> /\ new # << >> /\ DOMAIN old = Slices /\ DOMAIN new = Slices
      /\ \A i \in Slices : old[i] = ViewOf(file[i]) /\ new[i] = ViewOf(file'[i])
  BY <1>1, <1>3, ViewOfFile
<1>5. View(file)' = new
  BY <1>1 DEF View
<1>6. PhaseOf(pc) = "sign"
  BY <1>1, Phases
<1>7. \A i \in Slices : old[i].pages = Pages(file[i]) /\ new[i].pages = Pages(file'[i])
                        /\ old[i].slots = file[i].slots /\ new[i].slots = file'[i].slots
                        /\ new[i].signer = file'[i].run
  BY <1>4, SliceView
<1> HIDE DEF old, new
<1>8. Outside!SamePages(new)
  <2>1. \A i \in Slices : new[i].pages = old[i].pages
    BY <1>2, <1>3, <1>7
  <2> QED BY <1>4, <2>1 DEF Outside!NoFile, Outside!SamePages, old
<1>9. \A i \in Slices : new[i] = old[i] \/ Outside!IsSigned(old[i], new[i])
  <2> TAKE i \in Slices
  <2>1. CASE i = at
    BY <1>1, <1>2, <1>3, <1>7, <2>1 DEF Outside!NoFile, Outside!IsSigned
  <2>2. CASE i # at
    BY <1>3, <1>4, <2>2
  <2> QED BY <2>1, <2>2
<1>10. \/ PhaseOf(pc)' = PhaseOf(pc)
          /\ UNCHANGED <<pc # "idle", Spare, pc # "idle" /\ Forces, realloced, result = "ok">>
       \/ /\ Outside!Rests /\ (result = "ok")' /\ (pc # "idle")' \in BOOLEAN
          /\ \A i \in Slices : /\ new[i].signer = runs
                               /\ Forces => new[i].slots = new[i].pages
  <2>1. CASE at # last
    <3>1. pc' = pc /\ UNCHANGED <<opt, create, realloced, runs, result, clean>>
      BY <2>1 DEF SignSlice
    <3> QED BY <1>1, <3>1, WorkSeen DEF Spare
  <2>2. CASE at = last
    <3>1. Ends("ok")
      BY <2>2 DEF SignSlice
    <3>2. \A i \in Slices : i # at => i < at
      BY <2>2, <1>1, SliceIndices DEF Slices
    <3>3. \A i \in Slices : file'[i].run = runs /\ (Forces => file'[i].slots = Pages(file'[i]))
      BY <1>1, <1>2, <1>3, <3>2 DEF ViewInv, LoopSigned
    <3> QED BY <1>7, <3>1, <3>3, EndsSeen
  <2> QED BY <2>1, <2>2
<1>11. Outside!SignSome(new)
  BY <1>1, <1>4, <1>9, <1>10 DEF Outside!NoFile, Outside!SignSome, old, Spare
<1> QED BY <1>1, <1>5, <1>6, <1>8, <1>11, SoundKept DEF Outside!NoFile, Outside!Sign, Sound

LEMMA StepSeen ==
  ASSUME TypeOK, CopiesExist, ViewInv, Arrives => CopiesHold /\ CodeSurvives /\ CopiesAgree,
         [Next]_vars
  PROVE  [Outside!Next]_(Outside!vars)
<1>a. /\ last' = last /\ Slices' = Slices
      /\ last \in Lengths /\ last \in Nat \ {0} /\ 1 \in Slices
  BY SliceIndices DEF Next, vars, Slices, TypeOK
<1>b. ASSUME file' = file PROVE View(file)' = View(file)
  BY <1>a, <1>b, SameFile
<1>c. ASSUME file \in [Slices -> SliceSet] PROVE View(file) # << >>
  BY <1>a, <1>c, ViewOfFile
\* The run ends with the file as it was.
<1>d. ASSUME NEW outcome, outcome # "ok", Ends(outcome), pc # "idle", file' = file
      PROVE  Outside!Next
  <2>1. PhaseOf(pc) # "idle"
    BY <1>d, Phases DEF TypeOK
  <2> QED BY <1>a, <1>b, <1>d, <2>1, StopSeen
\* It ends within a reallocation.
<1>e. ASSUME NEW outcome, outcome # "ok", Ends(outcome), pc = "realloc",
             file' = [file EXCEPT ![at].claims = Grown]
      PROVE  Outside!Next
  <2>1. Outside!Edited(View(file)')
    BY <1>a, <1>e, SizesEdited, EditSeen
  <2> QED BY <1>a, <1>e, <2>1, Phases, StopSeen
<1>1. ASSUME NEW o \in Options, Start(o) PROVE Outside!Begin
  <2>1. /\ pc = "idle" /\ pc' \in {"idle", "inject", "sign"} /\ file' = file
        /\ result' \in {"none", "failed"} /\ realloced' = realloced /\ ~realloced
        /\ runs \in Nat /\ runs' = runs + 1 /\ Spare = << >> /\ Spare' = << >>
    BY <1>1, <1>a, OptionsAssumption DEF Start, ViewInv, TypeOK, Spare
  <2>2. PhaseOf(pc) = "idle" /\ PhaseOf(pc)' \in {"idle", "edit", "sign"}
        /\ (PhaseOf(pc)' # "idle" => pc' # "idle") /\ (pc' # "idle" => PhaseOf(pc)' # "idle")
    BY <2>1, Phases
  <2>3. pc' # "idle" => View(file) # << >>
    BY <1>1, <1>c DEF Start, Opens, TypeOK
  <2>4. runs' \in Nat /\ runs' >= runs
    BY <2>1
  <2>5. (pc # "idle" /\ Forces)' \in BOOLEAN /\ Sound' \in BOOLEAN
    BY DEF Sound
  <2>6. ~(result = "ok")' /\ ~realloced'
    BY <2>1
  <2>7. CASE pc' = "idle"
    <3>1. (pc # "idle")' \in BOOLEAN /\ ~(pc # "idle" /\ Forces)' /\ PhaseOf(pc)' = "idle"
      BY <2>7, Phases
    <3> QED BY <1>b, <2>1, <2>2, <2>4, <2>5, <2>6, <3>1
            DEF Outside!NoFile, Outside!Begin, Spare, Sound
  <2>8. CASE pc' # "idle"
    <3>1. Outside!Opens /\ (pc # "idle")'
      BY <2>2, <2>3, <2>5, <2>8 DEF Outside!NoFile, Outside!Opens
    <3> QED BY <1>b, <2>1, <2>2, <2>4, <2>5, <2>6, <3>1
            DEF Outside!NoFile, Outside!Begin, Spare, Sound
  <2> QED BY <2>7, <2>8
<1>2. CASE InjectSlice
  <2>1. /\ pc = "inject" /\ pc' \in {"inject", "sign"} /\ at \in Slices
        /\ file \in [Slices -> SliceSet] /\ file[at] \in SliceSet
        /\ UNCHANGED <<clean, runs, result, realloced>>
    BY <1>2, Mapped DEF InjectSlice, Continue, TypeOK
  <2> DEFINE new == [file[at] EXCEPT !.cmd = LoadKind(opt.weak)]
  <2>2. new \in SliceSet /\ new.slots = file[at].slots /\ new.run = file[at].run
    BY <1>a, <2>1, LoadedSlice, PagesEdited
  <2>3. file' = [file EXCEPT ![at] = new]
    BY <1>2 DEF InjectSlice
  <2> HIDE DEF new
  <2>4. file' \in [Slices -> SliceSet] /\ file'[at] = new
        /\ \A i \in Slices \ {at} : file'[i] = file[i]
    BY <1>a, <2>1, <2>2, <2>3, FileEdited
  <2>5. Outside!Edited(View(file)')
    BY <1>a, <2>1, <2>2, <2>4, EditSeen
  <2>6. Outside!Inject
    BY <2>1, <2>5, <1>a, Phases, SoundKept DEF Outside!NoFile, Outside!Inject, Spare, Sound
  <2> QED BY <2>6 DEF Outside!Next
<1>3. CASE InjectFails
  <2>1. /\ pc = "inject" /\ pc' = "sign" /\ file \in [Slices -> SliceSet]
        /\ file' = file /\ UNCHANGED <<clean, runs, result, realloced>>
    BY <1>3, Mapped DEF InjectFails
  <2>2. Outside!Edited(View(file)')
    BY <1>a, <2>1, EditSeen
  <2>3. Outside!Inject
    BY <2>1, <2>2, <1>a, Phases, SoundKept DEF Outside!NoFile, Outside!Inject, Spare, Sound
  <2> QED BY <2>3 DEF Outside!Next
<1>4. CASE SignSlice
  BY <1>a, <1>4, SignSeen DEF Outside!Next
<1>5. CASE NoSpace
  <2>1. pc = "sign" /\ file' = file
    BY <1>5 DEF NoSpace
  <2>2. CASE Ends("failed")
    BY <1>d, <2>1, <2>2 DEF Outside!Next
  <2>3. CASE ~realloced /\ realloced' = TRUE /\ pc' = "realloc"
             /\ UNCHANGED <<opt, create, runs, result, given, clean>>
    BY <1>a, <1>b, <2>1, <2>3, Phases, WorkSeen DEF Outside!NoFile, Outside!Shortage, Outside!Next, Spare, Sound
  <2> QED BY <1>5, <2>2, <2>3 DEF NoSpace
\* A step of a reallocation that does not finish it, and one that does.
<1>f. ASSUME pc \in {"realloc", "join"}, pc' \in {"realloc", "join"},
             Outside!Edited(View(file)'),
             UNCHANGED <<opt, create, realloced, runs, result, clean>>
      PROVE  Outside!Resize
  BY <1>a, <1>f, Phases, WorkSeen DEF Outside!NoFile, Outside!Resize, Spare, Sound
<1>g. ASSUME pc \in {"realloc", "join"}, pc' = "remove",
             Outside!Edited(View(file)'), Sound => View(NewFile)' = View(file)',
             UNCHANGED <<opt, create, realloced, runs, result, clean>>
      PROVE  Outside!Resize
  BY <1>a, <1>g, Phases, WorkSeen DEF Outside!NoFile, Outside!Resize, Spare, Sound
<1>6. CASE ReallocSlice
  <2>1. /\ pc = "realloc" /\ file' = [file EXCEPT ![at].claims = Grown]
        /\ parts' = [parts EXCEPT ![at] = Enlarged(file[at])]
        /\ UNCHANGED <<opt, create, realloced, runs, result, clean>>
    BY <1>6 DEF ReallocSlice, NewPart
  <2>2. /\ at \in Slices /\ file[at] \in SliceSet /\ file' \in [Slices -> SliceSet]
        /\ file'[at] = [file[at] EXCEPT !.claims = Grown]
    BY <1>a, <2>1, SizesEdited
  <2>3. Outside!Edited(View(file)')
    BY <1>a, <2>1, SizesEdited, EditSeen
  <2>4. pc' \in {"realloc", "join"} \/ (pc' = "remove" /\ last = 1)
    BY <1>6, <2>1 DEF ReallocSlice
  <2>5. ASSUME last = 1 PROVE View(NewFile)' = View(file)'
    <3>1. Slices = {1} /\ at = 1
      BY <2>2, <2>5 DEF Slices
    <3>2. parts' \in [Slices -> SliceSet] /\ parts'[1] = Enlarged(file[at])
      BY <1>a, <2>1, <2>2, <3>1, SliceEdits DEF TypeOK
    <3>3. SameView(parts'[1], file'[1])
      BY <2>2, <3>1, <3>2, PagesEdited
    <3>4. ViewOf(parts'[1]) = ViewOf(file'[1])
      BY <3>3 DEF SameView, ViewOf
    <3>5. /\ View(parts') = [i \in Slices |-> ViewOf(parts'[i])]
          /\ View(file') = [i \in Slices |-> ViewOf(file'[i])]
      BY <1>a, <2>2, <3>2, ViewOfFile
    <3>6. View(parts') = View(file')
      BY <3>1, <3>4, <3>5
    <3> QED BY <1>a, <2>5, <3>6 DEF NewFile, View
  <2>6. Outside!Resize
    BY <1>f, <1>g, <2>1, <2>3, <2>4, <2>5
  <2> QED BY <2>6 DEF Outside!Next
<1>7. ASSUME NEW outcome \in {"failed", "killed"}, PartLost(outcome) PROVE Outside!Next
  BY <1>e, <1>7 DEF PartLost
<1>8. CASE ReallocRefused
  BY <1>8, <1>d DEF ReallocRefused
<1>9. CASE NoCommandSpace
  BY <1>9, <1>e DEF NoCommandSpace
<1>10. CASE JoinHeader
  <2>1. /\ pc = "join" /\ pc' = "join" /\ file \in [Slices -> SliceSet] /\ file' = file
        /\ UNCHANGED <<opt, create, realloced, runs, result, clean>>
    BY <1>10, Mapped DEF JoinHeader
  <2>2. Outside!Edited(View(file)')
    BY <1>a, <2>1, EditSeen
  <2> QED BY <1>f, <2>1, <2>2 DEF Outside!Next
<1>11. CASE JoinSlice
  <2>1. /\ pc = "join" /\ pc' \in {"join", "remove"} /\ file \in [Slices -> SliceSet]
        /\ file' = file /\ at \in Slices /\ last > 1
        /\ UNCHANGED <<opt, create, realloced, runs, result, clean>>
    BY <1>11, Mapped DEF JoinSlice, Continue, CopiesExist, TypeOK, Slices
  <2>2. Outside!Edited(View(file)')
    BY <1>a, <2>1, EditSeen
  <2>3. ASSUME pc' = "remove", Sound PROVE View(NewFile)' = View(file)'
    <3>1. Arrives /\ clean /\ last # 1
      BY <2>1, <2>3 DEF Sound, Arrives
    <3>2. CopiesHold' /\ TypeOK'
      BY <3>1, CopiesKept, TypesKept
    <3>3. JoinedTo(last + 1)'
      BY <1>a, <2>1, <2>3, <3>1, <3>2 DEF CopiesHold
    <3>4. at = last
      BY <1>11, <1>a, <2>1, <2>3 DEF JoinSlice, Continue, Slices
    <3>5. fato' = Append(fato, parts[at]) /\ parts[at] \in Chunks
      BY <1>11, <1>a, <2>1, <3>1 DEF JoinSlice, Arrives, TypeOK, Chunks
    <3>6. Len(fato) = last
      BY <1>a, <2>1, <3>1, <3>4 DEF CopiesHold, JoinedTo
    <3>7. /\ fato'[last + 1] = parts[last]
          /\ \A m \in 1 .. last : fato'[m] = fato[m]
      BY <3>4, <3>5, <3>6, Appended DEF TypeOK
    <3>8. \A i \in Slices : SameView(fato'[i + 1], file'[i])
      <4> TAKE i \in Slices
      <4>1. SameView(IF i >= last THEN parts[i] ELSE fato[i + 1], file[i])
        BY <2>1, <3>1, <3>4 DEF CopiesAgree
      <4>2. i = last \/ (i < last /\ i + 1 \in 1 .. last)
        BY <1>a DEF Slices
      <4>3. CASE i = last
        BY <1>a, <2>1, <3>7, <4>1, <4>3
      <4>4. CASE i < last /\ i + 1 \in 1 .. last
        <5>1. ~(i >= last)
          BY <1>a, <4>4 DEF Slices
        <5> QED BY <2>1, <3>7, <4>1, <4>4, <5>1
      <4> QED BY <4>2, <4>3, <4>4
    <3>9. (TypeOK /\ JoinedTo(last + 1) /\ file \in [Slices -> SliceSet]
             /\ (\A i \in Slices : SameView(fato[i + 1], file[i]))
           => View(Joined(fato)) = View(file))'
      BY JoinedSeen, PTL
    <3>10. SliceSet' = SliceSet
      BY <1>a DEF SliceSet
    <3>11. (\A i \in Slices : SameView(fato[i + 1], file[i]))'
      BY <1>a, <3>8 DEF SameView, Pages
    <3>12. View(Joined(fato))' = View(file)'
      BY <1>a, <2>1, <3>2, <3>3, <3>9, <3>10, <3>11
    <3> QED BY <1>a, <3>1, <3>12 DEF NewFile
  <2>4. Outside!Resize
    BY <1>f, <1>g, <2>1, <2>2, <2>3
  <2> QED BY <2>4 DEF Outside!Next
<1>12. CASE RemoveOld
  <2>1. /\ pc = "remove" /\ pc' = "rename" /\ file \in [Slices -> SliceSet] /\ file' = Missing
        /\ UNCHANGED <<parts, fato, opt, create, realloced, runs, result, clean>>
    BY <1>12, Mapped DEF RemoveOld
  <2>2. View(file)' = << >> /\ View(file) # << >>
    BY <1>c, <2>1 DEF View, Opens
  <2>3. View(NewFile)' = View(NewFile)
    BY <1>a, <2>1 DEF View, NewFile, Joined
  <2>4. Outside!RemoveOld
    BY <1>a, <2>1, <2>2, <2>3, Phases, WorkSeen DEF Outside!NoFile, Outside!RemoveOld, Spare, Sound
  <2> QED BY <2>4 DEF Outside!Next
<1>13. CASE RenameNew
  <2>1. pc = "rename" /\ file = Missing /\ file' = NewFile /\ View(file) = << >>
    BY <1>13, <1>a, ViewOfFile DEF RenameNew, ViewInv, NewFile
  <2>2. View(file)' = View(NewFile)
    BY <1>a, <2>1 DEF View
  <2>3. CASE ~Opens(file') /\ Ends("failed")
    <3>1. View(file)' = View(file)
      BY <1>a, <2>1, <2>3 DEF View
    <3> QED BY <1>a, <2>1, <2>3, <3>1, Phases, StopSeen
  <2>4. CASE Opens(file') /\ pc' = "sign"
             /\ UNCHANGED <<at, opt, create, realloced, runs, result, given, clean>>
    <3>1. file' \in [Slices -> SliceSet]
      BY <1>a, <2>4, TypesKept DEF TypeOK, Opens, SliceSet
    <3>2. View(NewFile) # << >>
      BY <1>a, <2>1, <3>1, ViewOfFile
    <3>3. Outside!Replace
      BY <1>a, <2>1, <2>2, <2>4, <3>2, Phases, WorkSeen DEF Outside!NoFile, Outside!Replace, Spare, Sound
    <3> QED BY <3>3 DEF Outside!Next
  <2> QED BY <1>13, <2>3, <2>4 DEF RenameNew
<1>14. CASE RenameFails
  BY <1>14, <1>d DEF RenameFails
<1>15. CASE Kill
  BY <1>7, <1>15, <1>d DEF Kill
<1>16. CASE Rebuild
  <2>1. pc = "idle" /\ pc' = "idle" /\ result' = "none" /\ ~realloced
        /\ UNCHANGED <<realloced, runs, clean>>
    BY <1>16 DEF Rebuild, ViewInv
  <2>2. Outside!Build
    BY <1>a, <2>1, Phases, SoundKept DEF Outside!NoFile, Outside!Build, Outside!Rests, Spare, Sound
  <2> QED BY <2>2 DEF Outside!Next
<1>17. CASE UNCHANGED vars
  <2>1. View(file)' = View(file) /\ View(NewFile)' = View(NewFile)
    BY <1>17, <1>a DEF vars, View, NewFile, Joined
  <2> QED BY <1>17, <2>1, SoundKept DEF vars, Outside!vars, Sound, Forces
<1> QED BY <1>1, <1>2, <1>3, <1>4, <1>5, <1>6, <1>7, <1>8, <1>9, <1>10, <1>11, <1>12, <1>13,
           <1>14, <1>15, <1>16, <1>17 DEF Next, Step, AppendFails, Outside!Next

LEMMA InitSeen == Init => Outside!Init /\ ViewInv /\ CopiesAgree
<1> SUFFICES ASSUME Init PROVE Outside!Init /\ ViewInv /\ CopiesAgree
  OBVIOUS
<1>1. Outside!Init
  BY Phases DEF Init, Outside!Init, Outside!NoFile
<1>2. ViewInv /\ CopiesAgree
  BY DEF Init, ViewInv, LoopSigned, CopiesAgree
<1> QED BY <1>1, <1>2

\* For every number of slices, every fault and whatever the runs before left: whoever has a
\* file signed sees that it is edited in place, or taken away once its copy is complete and
\* put back with the same code slots and other sizes; that what a success leaves is signed
\* in all its architectures by this run, with fresh code slots if they were to be made; and
\* no temporary file, unless in a fat file by a run that finds the remains of an earlier one
\* (macho.cpp:120-251).
THEOREM FileKept == Spec => KeepsFile
<1> DEFINE Inv == /\ TypeOK /\ CopiesExist /\ ViewInv
                  /\ Arrives => CopiesHold /\ CodeSurvives /\ CopiesAgree
<1>1. Init => Inv /\ Outside!Init
  BY InitTyped, InitHolds, InitSeen
<1>2. Inv /\ [Next]_vars => Inv'
  BY TypesKept, ViewInvKept, CopiesKept, AgreementKept, SameLast
<1>3. Inv /\ [Next]_vars => [Outside!Next]_(Outside!vars)
  BY StepSeen
<1> QED BY <1>1, <1>2, <1>3, PTL DEF Spec, KeepsFile, Outside!Spec
===============================================================================
