------------------------------ MODULE MachOProofs ------------------------------
(***************************************************************************)
(* MachO for every number of slices, every set of programs and command     *)
(* lines and every number of runs: the type invariant, that a kill or a    *)
(* failure anywhere leaves the program on the disk, and that a success     *)
(* means what it says.                                                     *)
(***************************************************************************)
EXTENDS MachO, TLAPS

(***************************************************************************)
(* Slices and files.                                                       *)
(***************************************************************************)

\* The indices of a file's slices.
LEMMA SliceIndices ==
  ASSUME last \in Lengths
  PROVE  last \in Nat \ {0} /\ 1 \in Slices /\ last \in Slices /\ Slices \subseteq Nat
  BY SlicesAssumption DEF Slices

\* A file that is a function of the slices opens, and a slice is a slice.
LEMMA FilesOpen ==
  ASSUME last \in Lengths
  PROVE  /\ \A f \in [Slices -> SliceSet] : Opens(f)
         /\ \A s \in SliceSet : s \notin {Missing, Garbled, FatHead}
  BY SentinelsAssumption DEF Slices, SliceSet, Opens

\* What the operators on a slice change of it, and that they give a slice.
LEMMA SliceEdits ==
  ASSUME last \in Lengths, NEW s \in SliceSet
  PROVE  /\ Enlarged(s) \in SliceSet
         /\ Enlarged(s).code = s.code
         /\ Enlarged(s).claims = Enlarged(s).size
         /\ Cut(s) \in SliceSet
         /\ [s EXCEPT !.claims = Grown] \in SliceSet
         /\ [s EXCEPT !.claims = Grown].code = s.code
<1>1. 2 \in 0 .. Grown
  BY DEF Grown
<1> QED BY <1>1 DEF SliceSet, SliceSetOf, Enlarged, Cut, Grown

LEMMA LoadedSlice ==
  ASSUME last \in Lengths, NEW s \in SliceSet, NEW weak
  PROVE  /\ [s EXCEPT !.cmd = LoadKind(weak)] \in SliceSet
         /\ [s EXCEPT !.cmd = LoadKind(weak)].code = s.code
         /\ [s EXCEPT !.cmd = LoadKind(weak)].claims = s.claims
         /\ [s EXCEPT !.cmd = LoadKind(weak)].size = s.size
  BY DEF SliceSet, SliceSetOf, LoadKind

\* A signed slice is the same program in the same area, with this run's signature; the
\* code slots are those of its pages if the run forces.
LEMMA SignedSlice ==
  ASSUME last \in Lengths, NEW s \in SliceSet, runs \in 0 .. MaxRuns[last]
  PROVE  /\ Signed(s) \in SliceSet
         /\ Signed(s).code = s.code
         /\ Signed(s).claims = s.claims
         /\ Signed(s).size = s.size
         /\ Signed(s).run = runs
         /\ opt.force => Signed(s).slots = Pages(Signed(s))
<1> DEFINE new == IF Forces \/ s.slots = Missing THEN Pages(s) ELSE s.slots
<1>1. Signed(s) = [s EXCEPT !.run = runs, !.slots = new]
  BY DEF Signed
<1>2. Pages(s) \in (Codes \cup {Garbled}) \X (0 .. Grown) \X {"none", "strong", "weak"}
  BY DEF Pages, SliceSet, SliceSetOf
<1>3. new \in {Missing} \cup ((Codes \cup {Garbled}) \X (0 .. Grown)
                                 \X {"none", "strong", "weak"})
  BY <1>2 DEF SliceSet, SliceSetOf
<1>4. opt.force => new = Pages(s)
  BY DEF Forces
<1> HIDE DEF new
<1>5. /\ Signed(s) \in SliceSet
      /\ Signed(s).code = s.code /\ Signed(s).size = s.size /\ Signed(s).cmd = s.cmd
      /\ Signed(s).claims = s.claims /\ Signed(s).run = runs /\ Signed(s).slots = new
  BY <1>1, <1>3 DEF SliceSet, SliceSetOf
<1>6. Pages(Signed(s)) = Pages(s)
  BY <1>5 DEF Pages
<1> QED BY <1>4, <1>5, <1>6

\* A file as delivered holds the program, and its headers agree.
LEMMA DeliveredFile ==
  ASSUME last \in Lengths, NEW c \in Codes, NEW f \in Delivered(c),
         MaxRuns[last] \in Nat
  PROVE  /\ f \in [Slices -> SliceSet]
         /\ \A i \in Slices : f[i].code = c /\ f[i].claims = f[i].size
<1> DEFINE New(size, signed) ==
             [i \in Slices |->
                [code |-> c, size |-> size[i], claims |-> size[i], cmd |-> "none",
                 slots |-> IF i \in signed THEN <<c, size[i], "none">> ELSE Missing,
                 run |-> 0]]
<1>0. Delivered(c) = {New(size, signed) : size \in [Slices -> 0 .. Grown], signed \in SUBSET Slices}
  BY DEF Delivered
<1> HIDE DEF New
<1>1. PICK size \in [Slices -> 0 .. Grown], signed \in SUBSET Slices : f = New(size, signed)
  BY <1>0
<1> USE DEF New
<1>2. ASSUME NEW i \in Slices
      PROVE  f[i] \in SliceSet /\ f[i].code = c /\ f[i].claims = f[i].size
  <2>1. size[i] \in 0 .. Grown /\ 0 \in 0 .. MaxRuns[last]
    OBVIOUS
  <2>2. <<c, size[i], "none">>
          \in (Codes \cup {Garbled}) \X (0 .. Grown) \X {"none", "strong", "weak"}
    BY <2>1
  <2>3. f[i] = [code |-> c, size |-> size[i], claims |-> size[i], cmd |-> "none",
                slots |-> IF i \in signed THEN <<c, size[i], "none">> ELSE Missing,
                run |-> 0]
    BY <1>1
  <2> QED BY <2>1, <2>2, <2>3 DEF SliceSet, SliceSetOf
<1> QED BY <1>1, <1>2

\* The joined file is a file.
LEMMA JoinedFile ==
  ASSUME last \in Lengths, fato \in Seq(Chunks)
  PROVE  Joined(fato) \in [Slices -> SliceSet] \cup {Garbled}
<1>1. CASE /\ Len(fato) > last
           /\ fato[1] = FatHead
           /\ \A i \in Slices : fato[i + 1] \notin {FatHead, Garbled}
           /\ \A i \in Slices : i < last => IsWhole(fato[i + 1])
  <2>1. ASSUME NEW i \in Slices PROVE fato[i + 1] \in SliceSet
    <3>1. i + 1 \in 1 .. Len(fato)
      BY <1>1, SliceIndices DEF Slices
    <3> QED BY <1>1, <3>1 DEF Chunks
  <2> QED BY <1>1, <2>1 DEF Joined
<1>2. CASE ~(/\ Len(fato) > last
             /\ fato[1] = FatHead
             /\ \A i \in Slices : fato[i + 1] \notin {FatHead, Garbled}
             /\ \A i \in Slices : i < last => IsWhole(fato[i + 1]))
  BY <1>2 DEF Joined
<1> QED BY <1>1, <1>2

(***************************************************************************)
(* Types.                                                                  *)
(***************************************************************************)

\* A process that ends leaves its memory as it found it.
LEMMA EndsTyped ==
  ASSUME TypeOK, last' = last, NEW outcome \in {"ok", "failed", "killed"}, Ends(outcome),
         file' \in [Slices -> SliceSet] \cup {Missing, Garbled},
         parts' \in [Slices -> SliceSet \cup {Missing}],
         fato' \in Seq(Chunks)
  PROVE  TypeOK' /\ CopiesExist'
<1>1. 1 \in Slices /\ Slices' = Slices /\ SliceSet' = SliceSet /\ Chunks' = Chunks
  BY SliceIndices DEF TypeOK, Slices, SliceSet, Chunks
<1>2. CopiesExist'
  BY DEF Ends, CopiesExist
<1> QED BY <1>1, <1>2 DEF TypeOK, Ends

LEMMA InitTyped == Init => TypeOK /\ CopiesExist
<1> SUFFICES ASSUME Init PROVE TypeOK /\ CopiesExist
  OBVIOUS
<1>1. last \in Lengths /\ MaxRuns[last] \in Nat /\ Original \in Codes
  BY OptionsAssumption, CodesAssumption DEF Init
<1>2. file \in [Slices -> SliceSet]
  BY <1>1, DeliveredFile DEF Init
<1>3. parts \in [Slices -> SliceSet \cup {Missing}]
  BY DEF Init, NoParts
<1>4. at \in Slices
  BY <1>1, SliceIndices DEF Init
<1>5. fato \in Seq(Chunks) /\ runs \in 0 .. MaxRuns[last]
  BY <1>1 DEF Init
<1>6. CopiesExist
  BY DEF Init, CopiesExist
<1> QED BY <1>1, <1>2, <1>3, <1>4, <1>5, <1>6 DEF Init, TypeOK

\* What the type invariant says of a step that has the file mapped.
LEMMA Mapped ==
  ASSUME TypeOK, pc \in {"inject", "sign", "realloc", "join", "remove"}
  PROVE  file \in [Slices -> SliceSet] /\ Opens(file)
  BY DEF TypeOK, Opens

\* A step that changes the slice at hand leaves a file, and the other slices.
LEMMA FileEdited ==
  ASSUME last \in Lengths, file \in [Slices -> SliceSet], at \in Slices, NEW s \in SliceSet,
         file' = [file EXCEPT ![at] = s]
  PROVE  /\ file' \in [Slices -> SliceSet]
         /\ Opens(file')
         /\ file'[at] = s
         /\ \A i \in Slices \ {at} : file'[i] = file[i]
<1>1. file' \in [Slices -> SliceSet]
  OBVIOUS
<1> QED BY <1>1, FilesOpen

\* A step that replaces the copy of the slice at hand leaves copies.
LEMMA PartEdited ==
  ASSUME parts \in [Slices -> SliceSet \cup {Missing}], at \in Slices,
         NEW s \in SliceSet \cup {Missing}, parts' = [parts EXCEPT ![at] = s]
  PROVE  /\ parts' \in [Slices -> SliceSet \cup {Missing}]
         /\ parts'[at] = s
         /\ \A i \in Slices \ {at} : parts'[i] = parts[i]
  OBVIOUS

\* A chunk more.
LEMMA Appended ==
  ASSUME fato \in Seq(Chunks), NEW c \in Chunks, fato' = Append(fato, c)
  PROVE  /\ fato' \in Seq(Chunks)
         /\ Len(fato') = Len(fato) + 1
         /\ fato'[Len(fato')] = c
         /\ \A k \in 1 .. Len(fato) : fato'[k] = fato[k]
  OBVIOUS

LEMMA TypesKept ==
  TypeOK /\ CopiesExist /\ [Next]_vars => TypeOK' /\ CopiesExist'
<1> SUFFICES ASSUME TypeOK, CopiesExist, [Next]_vars PROVE TypeOK' /\ CopiesExist'
  OBVIOUS
<1>a. /\ last' = last
      /\ Slices' = Slices /\ SliceSet' = SliceSet /\ Chunks' = Chunks
      /\ last \in Lengths
  BY DEF Next, vars, Slices, SliceSet, Chunks, TypeOK
<1>b. /\ last \in Nat \ {0} /\ 1 \in Slices /\ last \in Slices
      /\ MaxRuns[last] \in Nat
  BY <1>a, SliceIndices, OptionsAssumption
<1>c. ASSUME at \in Slices, at < last PROVE at + 1 \in Slices
  BY <1>b, <1>c DEF Slices
<1>1. ASSUME NEW o \in Options, Start(o) PROVE TypeOK' /\ CopiesExist'
  <2>1. runs' \in 0 .. MaxRuns[last]
    BY <1>1, <1>b DEF Start, TypeOK
  <2>2. clean' \in BOOLEAN /\ pc' \in {"idle", "inject", "sign"}
    BY <1>1 DEF Start, Clean
  <2>3. pc' \in {"inject", "sign"} => Opens(file')
    BY <1>1 DEF Start, Opens
  <2>4. result' \in {"none", "failed"}
    BY <1>1 DEF Start
  <2>5. at' \in Slices /\ UNCHANGED <<file, parts, fato, at, create, realloced, given>>
        /\ opt' = o /\ pc = "idle"
    BY <1>1 DEF Start, TypeOK
  <2> QED BY <1>a, <2>1, <2>2, <2>3, <2>4, <2>5 DEF TypeOK, CopiesExist
<1>2. CASE InjectSlice
  <2>1. pc = "inject" /\ at \in Slices /\ file \in [Slices -> SliceSet]
    BY <1>2, Mapped DEF InjectSlice, TypeOK
  <2>2. file' = [file EXCEPT ![at] = [file[at] EXCEPT !.cmd = LoadKind(opt.weak)]]
    BY <1>2 DEF InjectSlice
  <2>3. file' \in [Slices -> SliceSet] /\ Opens(file')
    BY <2>1, <2>2, <1>a, LoadedSlice, FileEdited
  <2>4. at' \in Slices /\ pc' \in {"inject", "sign"}
    BY <1>2, <1>b, <1>c, <2>1 DEF InjectSlice, Continue
  <2>5. create' \in BOOLEAN
    BY <1>2 DEF InjectSlice, TypeOK
  <2> QED BY <1>2, <1>a, <2>3, <2>4, <2>5 DEF InjectSlice, TypeOK, CopiesExist
<1>3. CASE InjectFails
  <2>1. Opens(file')
    BY <1>3, Mapped DEF InjectFails
  <2> QED BY <1>3, <1>a, <1>b, <2>1 DEF InjectFails, TypeOK, CopiesExist
<1>4. CASE SignSlice
  <2>1. pc = "sign" /\ at \in Slices /\ file \in [Slices -> SliceSet]
        /\ runs \in 0 .. MaxRuns[last]
    BY <1>4, Mapped DEF SignSlice, TypeOK
  <2>2. file' = [file EXCEPT ![at] = Signed(file[at])]
    BY <1>4 DEF SignSlice
  <2>3. file' \in [Slices -> SliceSet] /\ Opens(file')
    BY <2>1, <2>2, <1>a, SignedSlice, FileEdited
  <2>4. parts' \in [Slices -> SliceSet \cup {Missing}] /\ fato' \in Seq(Chunks)
    BY <1>4 DEF SignSlice, TypeOK
  <2>5. CASE at = last
    BY <1>4, <1>a, <2>3, <2>4, <2>5, EndsTyped DEF SignSlice
  <2>6. CASE at # last
    <3>1. at' \in Slices
      BY <1>4, <1>b, <1>c, <2>1, <2>6 DEF SignSlice, Slices
    <3> QED BY <1>4, <1>a, <2>3, <2>4, <2>6, <3>1 DEF SignSlice, TypeOK, CopiesExist
  <2> QED BY <2>5, <2>6
<1>5. CASE NoSpace
  <2>1. Opens(file')
    BY <1>5, Mapped DEF NoSpace
  <2>2. /\ file' \in [Slices -> SliceSet] \cup {Missing, Garbled}
        /\ parts' \in [Slices -> SliceSet \cup {Missing}]
        /\ fato' \in Seq(Chunks)
    BY <1>5 DEF NoSpace, TypeOK
  <2>3. CASE Ends("failed")
    BY <1>a, <2>2, <2>3, EndsTyped
  <2>4. CASE pc' = "realloc" /\ at' = 1 /\ realloced' = TRUE
             /\ UNCHANGED <<opt, create, runs, result, given, clean>>
    <3>1. CopiesExist'
      BY <2>4, <1>b DEF CopiesExist
    <3> QED BY <1>a, <1>b, <2>1, <2>2, <2>4, <3>1 DEF TypeOK
  <2> QED BY <1>5, <2>3, <2>4 DEF NoSpace
<1>6. CASE ReallocSlice
  <2>1. pc = "realloc" /\ at \in Slices /\ file \in [Slices -> SliceSet] /\ file[at] \in SliceSet
    BY <1>6, Mapped DEF ReallocSlice, TypeOK
  <2>2. file' = [file EXCEPT ![at] = [file[at] EXCEPT !.claims = Grown]]
    BY <1>6 DEF ReallocSlice
  <2>3. file' \in [Slices -> SliceSet] /\ Opens(file')
    BY <2>1, <2>2, <1>a, SliceEdits, FileEdited
  <2>4. parts' = [parts EXCEPT ![at] = Enlarged(file[at])]
    BY <1>6 DEF ReallocSlice, NewPart
  <2>5. Enlarged(file[at]) \in SliceSet /\ Enlarged(file[at]) # Missing
    BY <2>1, <1>a, SliceEdits, FilesOpen
  <2>6. /\ parts' \in [Slices -> SliceSet \cup {Missing}]
        /\ parts'[at] # Missing
        /\ \A i \in Slices \ {at} : parts'[i] = parts[i]
    BY <2>1, <2>4, <2>5, PartEdited DEF TypeOK
  <2>7. \A j \in 1 .. at : parts'[j] # Missing
    BY <2>1, <2>6, <1>b DEF CopiesExist, Slices
  <2>8. UNCHANGED <<fato, opt, create, realloced, runs, result, given, clean>>
    BY <1>6 DEF ReallocSlice
  <2>9. CASE at < last
    <3>1. at' = at + 1 /\ pc' = "realloc"
      BY <1>6, <2>1, <2>9 DEF ReallocSlice
    <3>2. CopiesExist'
      BY <2>1, <2>7, <3>1 DEF CopiesExist, Slices
    <3> QED BY <1>a, <1>c, <2>1, <2>3, <2>6, <2>8, <2>9, <3>1, <3>2 DEF TypeOK
  <2>10. CASE at >= last /\ last = 1
    <3>1. at' = 1 /\ pc' = "remove"
      BY <1>6, <2>10, <1>b, <2>1 DEF ReallocSlice, Slices
    <3>2. CopiesExist'
      BY <1>a, <1>b, <2>1, <2>7, <2>10, <3>1 DEF CopiesExist, Slices
    <3> QED BY <1>a, <1>b, <2>3, <2>6, <2>8, <3>1, <3>2 DEF TypeOK
  <2>11. CASE at >= last /\ last # 1
    <3>1. at' = 0 /\ pc' = "join"
      BY <1>6, <2>11, <1>b, <2>1 DEF ReallocSlice, Slices
    <3>2. CopiesExist'
      BY <1>a, <1>b, <2>1, <2>7, <2>11, <3>1 DEF CopiesExist, Slices
    <3>3. at' \in 0 .. last
      BY <1>b, <3>1
    <3> QED BY <1>a, <2>3, <2>6, <2>8, <3>1, <3>2, <3>3 DEF TypeOK
  <2> QED BY <2>1, <1>b, <2>9, <2>10, <2>11 DEF Slices
<1>7. CASE ReallocRefused
  <2>1. parts' \in [Slices -> SliceSet \cup {Missing}]
    BY <1>7, PartEdited DEF ReallocRefused, TypeOK
  <2> QED BY <1>7, <1>a, <2>1, EndsTyped DEF ReallocRefused, TypeOK
<1>8. CASE NoCommandSpace
  <2>1. pc = "realloc" /\ at \in Slices /\ file \in [Slices -> SliceSet] /\ file[at] \in SliceSet
    BY <1>8, Mapped DEF NoCommandSpace, TypeOK
  <2>2. file' = [file EXCEPT ![at] = [file[at] EXCEPT !.claims = Grown]]
    BY <1>8 DEF NoCommandSpace
  <2>3. file' \in [Slices -> SliceSet]
    BY <2>1, <2>2, <1>a, SliceEdits, FileEdited
  <2>4. parts' \in [Slices -> SliceSet \cup {Missing}]
    BY <1>8, PartEdited, <2>1 DEF NoCommandSpace, TypeOK
  <2> QED BY <1>8, <1>a, <2>3, <2>4, EndsTyped DEF NoCommandSpace, TypeOK
<1>9. ASSUME NEW outcome \in {"failed", "killed"}, PartLost(outcome)
      PROVE  TypeOK' /\ CopiesExist'
  <2>1. pc = "realloc" /\ at \in Slices /\ file \in [Slices -> SliceSet] /\ file[at] \in SliceSet
    BY <1>9, Mapped DEF PartLost, TypeOK
  <2>2. file' = [file EXCEPT ![at] = [file[at] EXCEPT !.claims = Grown]]
    BY <1>9 DEF PartLost
  <2>3. file' \in [Slices -> SliceSet]
    BY <2>1, <2>2, <1>a, SliceEdits, FileEdited
  <2>4. Cut(Enlarged(file[at])) \in SliceSet
    BY <2>1, <1>a, SliceEdits
  <2>5. parts' \in [Slices -> SliceSet \cup {Missing}]
    BY <1>9, <2>1, <2>4, PartEdited DEF PartLost, TypeOK
  <2>6. fato' \in Seq(Chunks) /\ Ends(outcome)
    BY <1>9 DEF PartLost, TypeOK
  <2> QED BY <1>a, <2>3, <2>5, <2>6, EndsTyped
<1>10. CASE JoinHeader
  <2>1. fato' \in Seq(Chunks)
    BY <1>10, Appended DEF JoinHeader, TypeOK, Chunks
  <2>2. CopiesExist'
    BY <1>10, <1>a DEF JoinHeader, CopiesExist, Slices
  <2>3. at' \in 0 .. last /\ (at' > 0 => parts'[at'] # Missing)
    BY <1>10, <1>b DEF JoinHeader, CopiesExist, Slices
  <2>4. Opens(file')
    BY <1>10, Mapped DEF JoinHeader
  <2> QED BY <1>10, <1>a, <2>1, <2>2, <2>3, <2>4 DEF JoinHeader, TypeOK
<1>11. CASE JoinSlice
  <2>1. pc = "join" /\ at \in Slices /\ parts[at] \in SliceSet
    BY <1>11 DEF JoinSlice, TypeOK, Slices
  <2>2. PICK chunk : fato' = Append(fato, chunk) /\ chunk \in {parts[at], Cut(parts[at])}
    BY <1>11 DEF JoinSlice
  <2>3. chunk \in Chunks
    BY <1>a, <2>1, <2>2, SliceEdits DEF Chunks
  <2>4. fato' \in Seq(Chunks)
    BY <2>2, <2>3, Appended DEF TypeOK
  <2>5. parts' = [parts EXCEPT ![at] = Missing]
    BY <1>11 DEF JoinSlice
  <2>6. /\ parts' \in [Slices -> SliceSet \cup {Missing}]
        /\ \A i \in Slices \ {at} : parts'[i] = parts[i]
    BY <2>1, <2>5, PartEdited DEF TypeOK
  <2>7. Opens(file') /\ UNCHANGED <<file, opt, create, realloced, runs, result, given, clean>>
    BY <1>11, Mapped DEF JoinSlice
  <2>8. CASE at < last
    <3>1. at' = at + 1 /\ pc' = "join"
      BY <1>11, <2>1, <2>8 DEF JoinSlice, Continue
    <3>2. \A j \in Slices : j >= at + 1 => parts'[j] # Missing
      BY <2>1, <2>6 DEF CopiesExist, Slices
    <3>3. CopiesExist'
      BY <1>a, <2>1, <3>1, <3>2 DEF CopiesExist
    <3>4. at' \in Slices /\ at' \in 0 .. last /\ parts'[at'] # Missing
      BY <1>c, <2>1, <2>8, <3>1, <3>2 DEF Slices
    <3> QED BY <1>a, <2>4, <2>6, <2>7, <3>1, <3>3, <3>4 DEF TypeOK
  <2>9. CASE ~(at < last)
    <3>1. at' = 1 /\ pc' = "remove" /\ last > 1
      BY <1>11, <2>1, <2>9 DEF JoinSlice, Continue, CopiesExist
    <3>2. CopiesExist'
      BY <1>a, <3>1 DEF CopiesExist
    <3> QED BY <1>a, <1>b, <2>4, <2>6, <2>7, <3>1, <3>2 DEF TypeOK
  <2> QED BY <2>8, <2>9
<1>12. CASE RemoveOld
  BY <1>12, <1>a DEF RemoveOld, TypeOK, CopiesExist
<1>13. CASE RenameNew
  <2>1. file' \in [Slices -> SliceSet] \cup {Missing, Garbled}
    <3>1. CASE last = 1
      <4>1. Slices = {1}
        BY <3>1 DEF Slices
      <4>2. parts \in [Slices -> SliceSet]
        BY <1>13, <3>1, <4>1 DEF RenameNew, CopiesExist, TypeOK
      <4> QED BY <1>13, <3>1, <4>2 DEF RenameNew
    <3>2. CASE last # 1
      BY <1>13, <1>a, <3>2, JoinedFile DEF RenameNew, TypeOK
    <3> QED BY <3>1, <3>2
  <2>2. parts' \in [Slices -> SliceSet \cup {Missing}] /\ fato' \in Seq(Chunks)
    BY <1>13 DEF RenameNew, NoParts, TypeOK
  <2>3. CASE Ends("failed")
    BY <1>a, <2>1, <2>2, <2>3, EndsTyped
  <2>4. CASE Opens(file') /\ pc' = "sign"
             /\ UNCHANGED <<at, opt, create, realloced, runs, result, given, clean>>
    <3>1. at \in Slices
      BY <1>13 DEF RenameNew, TypeOK
    <3> QED BY <1>a, <2>1, <2>2, <2>4, <3>1 DEF TypeOK, CopiesExist
  <2> QED BY <1>13, <2>3, <2>4 DEF RenameNew
<1>14. CASE RenameFails
  BY <1>14, <1>a, EndsTyped DEF RenameFails, TypeOK
<1>15. CASE AppendFails
  BY <1>9, <1>15 DEF AppendFails
<1>16. CASE Kill
  <2>1. CASE Ends("killed") /\ UNCHANGED <<file, parts, fato>>
    BY <1>a, <2>1, EndsTyped DEF TypeOK
  <2>2. CASE PartLost("killed")
    BY <1>9, <2>2
  <2>3. CASE /\ pc = "join"
             /\ fato' = Append(fato, IF at = 0 THEN Garbled ELSE Cut(parts[at]))
             /\ Ends("killed")
             /\ UNCHANGED <<file, parts>>
    <3>1. (IF at = 0 THEN Garbled ELSE Cut(parts[at])) \in Chunks
      <4>1. CASE at = 0
        BY <4>1 DEF Chunks
      <4>2. CASE at # 0
        <5>1. at \in Slices /\ parts[at] \in SliceSet
          BY <2>3, <4>2 DEF TypeOK, Slices
        <5> QED BY <1>a, <4>2, <5>1, SliceEdits DEF Chunks
      <4> QED BY <4>1, <4>2
    <3>2. fato' \in Seq(Chunks)
      BY <2>3, <3>1, Appended DEF TypeOK
    <3> QED BY <1>a, <2>3, <3>2, EndsTyped DEF TypeOK
  <2> QED BY <1>16, <2>1, <2>2, <2>3 DEF Kill
<1>17. CASE Rebuild
  <2>1. PICK c \in Codes : file' \in Delivered(c) /\ given' = c
    BY <1>17 DEF Rebuild
  <2>2. file' \in [Slices -> SliceSet]
    BY <1>a, <1>b, <2>1, DeliveredFile
  <2> QED BY <1>17, <1>a, <2>1, <2>2 DEF Rebuild, TypeOK, CopiesExist
<1>18. CASE UNCHANGED vars
  BY <1>18, <1>a DEF vars, TypeOK, CopiesExist, Opens
<1> QED BY <1>1, <1>2, <1>3, <1>4, <1>5, <1>6, <1>7, <1>8, <1>10, <1>11, <1>12, <1>13, <1>14,
           <1>15, <1>16, <1>17, <1>18 DEF Next, Step

\* In every state of every execution, with every fault, the variables have their types: a
\* slice is there when the loops use it, and f.archo.N is there when it is appended or
\* renamed (macho.cpp:177-251).
THEOREM TypeCorrect == Spec => []TypeOK
<1>1. Init => TypeOK /\ CopiesExist
  BY InitTyped
<1>2. TypeOK /\ CopiesExist /\ [Next]_vars => (TypeOK /\ CopiesExist)'
  BY TypesKept
<1> QED BY <1>1, <1>2, PTL DEF Spec

(***************************************************************************)
(* The program.                                                            *)
(***************************************************************************)

\* When all of it has been appended, the joined file is the program.
LEMMA JoinedProgram ==
  ASSUME TypeOK, JoinedTo(last + 1)
  PROVE  /\ Joined(fato) \in [Slices -> SliceSet]
         /\ \A i \in Slices : Copies(Joined(fato)[i])
<1>1. last \in Nat
  BY SliceIndices DEF TypeOK
<1>2. ASSUME NEW i \in Slices
      PROVE  /\ fato[i + 1] \notin {FatHead, Garbled}
             /\ Copies(fato[i + 1])
             /\ fato[i + 1] \in SliceSet
  <2>1. i \in 1 .. (last + 1) - 1 /\ i + 1 \in 1 .. Len(fato)
    BY <1>1 DEF Slices, JoinedTo
  <2>2. fato[i + 1] \in Chunks
    BY <2>1 DEF TypeOK
  <2> QED BY <2>1, <2>2 DEF JoinedTo, Chunks
<1>3. \A i \in Slices : IsWhole(fato[i + 1])
  BY <1>2, CodesAssumption DEF IsWhole, Copies, TypeOK
<1>4. Len(fato) > last /\ fato[1] = FatHead
  BY <1>1 DEF JoinedTo
<1>5. \A i \in Slices : fato[i + 1] \notin {FatHead, Garbled}
  BY <1>2
<1>6. Joined(fato) = [i \in Slices |-> fato[i + 1]]
  BY <1>3, <1>4, <1>5 DEF Joined
<1> QED BY <1>2, <1>6

\* While a run is at work the program is in the file, or in the copies when the file is
\* about to be replaced.
LEMMA CopiesSurvive == TypeOK /\ CopiesHold /\ pc # "idle" => CodeSurvives
<1> SUFFICES ASSUME TypeOK, CopiesHold, pc # "idle", clean \/ last = 1, NEW i \in Slices
             PROVE  Survives(i)
  BY DEF CodeSurvives
<1>1. CASE pc # "rename"
  <2>1. Opens(file) /\ file[i].code = given
    BY <1>1 DEF TypeOK, CopiesHold
  <2> QED BY <2>1 DEF Survives
<1>2. CASE pc = "rename" /\ last = 1
  <2>1. i = 1 /\ PartHolds(1)
    BY <1>2 DEF CopiesHold, Slices
  <2> QED BY <2>1 DEF PartHolds, Copies, Survives
<1>3. CASE pc = "rename" /\ last # 1
  <2>1. JoinedTo(last + 1)
    BY <1>3 DEF CopiesHold
  <2>2. last \in Nat /\ i \in Nat /\ i \in 1 .. (last + 1) - 1 /\ last + 1 > i
    BY SliceIndices DEF TypeOK, Slices
  <2> QED BY <2>1, <2>2 DEF JoinedTo, Copies, Survives
<1> QED BY <1>1, <1>2, <1>3

\* A run that ends with the program in the file.
LEMMA EndsWithFile ==
  ASSUME TypeOK, pc' = "idle", last' = last, given' = given, clean' = clean,
         clean \/ last = 1 => Opens(file') /\ \A i \in Slices : file'[i].code = given
  PROVE  CopiesHold' /\ CodeSurvives'
<1>1. Slices' = Slices /\ 1 \in Slices
  BY SliceIndices DEF Slices, TypeOK
<1>2. CopiesHold'
  BY <1>1 DEF CopiesHold
<1> QED BY <1>1, <1>2 DEF CodeSurvives, Survives

\* A run that ends, or does not begin, and leaves everything as it was.
LEMMA EndsAsItWas ==
  ASSUME TypeOK, CopiesHold, CodeSurvives, pc' = "idle", clean' => clean,
         UNCHANGED <<last, given, file, parts, fato>>
  PROVE  CopiesHold' /\ CodeSurvives'
<1>1. Slices' = Slices /\ \A i \in Slices : Survives(i)' <=> Survives(i)
  BY DEF Slices, Survives, Opens
<1>2. CopiesHold'
  BY DEF CopiesHold, Opens
<1> QED BY <1>1, <1>2 DEF CodeSurvives

\* What is appended to f.fato arrives there, or nothing is.
Arrives == last = 1 \/ "join" \notin Faults

\* Every step keeps the copies and the program, if what is appended to f.fato arrives.
LEMMA CopiesKept ==
  ASSUME Arrives, TypeOK, CopiesExist, CopiesHold, CodeSurvives, [Next]_vars
  PROVE  CopiesHold' /\ CodeSurvives'
<1>a. /\ last' = last /\ Slices' = Slices
      /\ last \in Lengths /\ last \in Nat \ {0} /\ 1 \in Slices /\ last \in Slices
  BY SliceIndices DEF Next, vars, Slices, TypeOK
<1>b. (TypeOK /\ CopiesHold /\ pc # "idle" => CodeSurvives)'
  BY CopiesSurvive, PTL
<1>c. ASSUME CopiesHold', pc' # "idle" PROVE CopiesHold' /\ CodeSurvives'
  BY <1>b, <1>c, TypesKept
\* A step of a loop that edits the file but not the program in it.
<1>d. ASSUME pc \in {"inject", "sign"}, pc' \in {"inject", "sign"}, Opens(file'),
             \A i \in Slices : file'[i].code = file[i].code,
             UNCHANGED <<given, clean, fato>>
      PROVE  CopiesHold' /\ CodeSurvives'
  <2>1. CopiesHold'
    BY <1>a, <1>d DEF CopiesHold
  <2> QED BY <1>c, <1>d, <2>1
\* A step that ends the run after such an edit.
<1>e. ASSUME pc \notin {"idle", "rename"}, pc' = "idle", Opens(file'),
             \A i \in Slices : file'[i].code = file[i].code, UNCHANGED <<given, clean>>
      PROVE  CopiesHold' /\ CodeSurvives'
  BY <1>a, <1>e, EndsWithFile DEF CopiesHold
<1>1. ASSUME NEW o \in Options, Start(o) PROVE CopiesHold' /\ CodeSurvives'
  <2>1. pc = "idle" /\ clean' = Clean /\ UNCHANGED <<file, parts, fato, given>>
    BY <1>1 DEF Start
  <2>2. CASE ~Opens(file)
    <3>1. pc' = "idle" /\ ~clean'
      BY <1>1, <2>1, <2>2 DEF Start, Clean
    <3> QED BY <1>a, <2>1, <3>1, EndsAsItWas
  <2>3. CASE Opens(file)
    <3>1. pc' \in {"inject", "sign"}
      BY <1>1, <2>3 DEF Start
    <3>2. clean' \/ last = 1 => \A i \in Slices : file[i].code = given
      <4>1. CASE clean'
        BY <2>1, <4>1 DEF Clean
      <4>2. CASE last = 1
        BY <2>3, <4>2 DEF CopiesHold, Slices
      <4> QED BY <4>1, <4>2
    <3>3. clean' => fato = << >>
      BY <2>1 DEF Clean
    <3>4. CopiesHold'
      BY <1>a, <2>1, <3>1, <3>2, <3>3 DEF CopiesHold
    <3> QED BY <1>c, <3>1, <3>4
  <2> QED BY <2>2, <2>3
<1>2. CASE InjectSlice
  <2>1. pc = "inject" /\ at \in Slices /\ file \in [Slices -> SliceSet]
    BY <1>2, Mapped DEF InjectSlice, TypeOK
  <2>2. file' = [file EXCEPT ![at] = [file[at] EXCEPT !.cmd = LoadKind(opt.weak)]]
    BY <1>2 DEF InjectSlice
  <2>3. Opens(file') /\ \A i \in Slices : file'[i].code = file[i].code
    <3>1. file[at] \in SliceSet
      BY <2>1
    <3> DEFINE new == [file[at] EXCEPT !.cmd = LoadKind(opt.weak)]
    <3>2. new \in SliceSet /\ new.code = file[at].code
      BY <1>a, <3>1, LoadedSlice
    <3> HIDE DEF new
    <3>3. file' = [file EXCEPT ![at] = new]
      BY <2>2 DEF new
    <3> QED BY <1>a, <2>1, <3>2, <3>3, FileEdited
  <2> QED BY <1>2, <1>d, <2>1, <2>3 DEF InjectSlice, Continue
<1>3. CASE InjectFails
  <2>1. Opens(file')
    BY <1>3, Mapped DEF InjectFails
  <2> QED BY <1>3, <1>d, <2>1 DEF InjectFails
<1>4. CASE SignSlice
  <2>1. pc = "sign" /\ at \in Slices /\ file \in [Slices -> SliceSet]
        /\ runs \in 0 .. MaxRuns[last]
    BY <1>4, Mapped DEF SignSlice, TypeOK
  <2>2. file' = [file EXCEPT ![at] = Signed(file[at])]
    BY <1>4 DEF SignSlice
  <2>3. Opens(file') /\ \A i \in Slices : file'[i].code = file[i].code
    <3> DEFINE new == Signed(file[at])
    <3>1. file[at] \in SliceSet
      BY <2>1
    <3>2. new \in SliceSet /\ new.code = file[at].code
      BY <1>a, <2>1, <3>1, SignedSlice
    <3>3. file' = [file EXCEPT ![at] = new]
      BY <2>2
    <3> HIDE DEF new
    <3> QED BY <1>a, <2>1, <3>2, <3>3, FileEdited
  <2>4. pc' \in {"sign", "idle"} /\ UNCHANGED <<given, clean, fato>>
    BY <1>4, <2>1 DEF SignSlice, Ends
  <2> QED BY <1>d, <1>e, <2>1, <2>3, <2>4
<1>5. CASE NoSpace
  <2>1. pc = "sign" /\ UNCHANGED <<file, parts, fato, given, clean>>
    BY <1>5 DEF NoSpace, Ends
  <2>2. CASE pc' = "idle"
    BY <1>a, <2>1, <2>2, EndsAsItWas
  <2>3. CASE pc' = "realloc" /\ at' = 1
    <3>1. CopiesHold'
      BY <1>a, <2>1, <2>3 DEF CopiesHold, Opens
    <3> QED BY <1>c, <2>3, <3>1
  <2> QED BY <1>5, <2>2, <2>3 DEF NoSpace, Ends
\* Slice at is edited and, in the first case, copied.
<1>f. ASSUME pc = "realloc",
             file' = [file EXCEPT ![at].claims = Grown] \/ file' = file
      PROVE  Opens(file') /\ \A i \in Slices : file'[i].code = file[i].code
  <2>1. at \in Slices /\ file \in [Slices -> SliceSet] /\ Opens(file)
    BY <1>f, Mapped DEF TypeOK
  <2>2. CASE file' = [file EXCEPT ![at] = [file[at] EXCEPT !.claims = Grown]]
    <3> DEFINE new == [file[at] EXCEPT !.claims = Grown]
    <3>1. file[at] \in SliceSet
      BY <2>1
    <3>2. new \in SliceSet /\ new.code = file[at].code
      BY <1>a, <3>1, SliceEdits
    <3>3. file' = [file EXCEPT ![at] = new]
      BY <2>2
    <3> HIDE DEF new
    <3> QED BY <1>a, <2>1, <3>2, <3>3, FileEdited
  <2> QED BY <1>f, <2>1, <2>2
<1>6. CASE ReallocSlice
  <2>1. pc = "realloc" /\ at \in Slices /\ file \in [Slices -> SliceSet] /\ file[at] \in SliceSet
        /\ UNCHANGED <<fato, given, clean>>
    BY <1>6, Mapped DEF ReallocSlice, TypeOK
  <2>2. Opens(file') /\ \A i \in Slices : file'[i].code = file[i].code
    BY <1>6, <1>f, <2>1 DEF ReallocSlice
  <2>3. parts' = [parts EXCEPT ![at] = Enlarged(file[at])]
    BY <1>6 DEF ReallocSlice, NewPart
  <2>4. /\ Enlarged(file[at]) \in SliceSet /\ Enlarged(file[at]) # Missing
        /\ Enlarged(file[at]).code = file[at].code
        /\ Enlarged(file[at]).claims = Enlarged(file[at]).size
    BY <1>a, <2>1, SliceEdits, FilesOpen
  <2>5. parts'[at] = Enlarged(file[at]) /\ \A i \in Slices \ {at} : parts'[i] = parts[i]
    BY <2>1, <2>3, <2>4, PartEdited DEF TypeOK
  <2>6. clean \/ last = 1 => \A j \in 1 .. at : PartHolds(j)'
    <3>1. SUFFICES ASSUME clean \/ last = 1, NEW j \in 1 .. at PROVE PartHolds(j)'
      OBVIOUS
    <3>2. CASE j = at
      BY <2>1, <2>4, <2>5, <3>1, <3>2 DEF CopiesHold, PartHolds, Copies
    <3>3. CASE j < at
      <4>1. j \in 1 .. at - 1 /\ j \in Slices \ {at}
        BY <1>a, <2>1, <3>3 DEF Slices
      <4>2. PartHolds(j) /\ parts'[j] = parts[j]
        BY <2>1, <2>5, <3>1, <4>1 DEF CopiesHold
      <4> QED BY <2>1, <4>2 DEF PartHolds, Copies
    <3> QED BY <1>a, <2>1, <3>2, <3>3 DEF Slices
  <2>7. CASE at < last
    <3>1. at' = at + 1 /\ pc' = "realloc"
      BY <1>6, <2>1, <2>7 DEF ReallocSlice
    <3>2. (at + 1) - 1 = at
      BY <1>a, <2>1 DEF Slices
    <3>3. CopiesHold'
      BY <1>a, <2>1, <2>2, <2>6, <3>1, <3>2 DEF CopiesHold
    <3> QED BY <1>c, <3>1, <3>3
  <2>8. CASE ~(at < last) /\ last = 1
    <3>1. at' = 1 /\ pc' = "remove" /\ at = 1
      BY <1>6, <1>a, <2>1, <2>8 DEF ReallocSlice, Slices
    <3>2. CopiesHold'
      BY <1>a, <2>1, <2>2, <2>6, <2>8, <3>1 DEF CopiesHold
    <3> QED BY <1>c, <3>1, <3>2
  <2>9. CASE ~(at < last) /\ last # 1
    <3>1. at' = 0 /\ pc' = "join" /\ at = last
      BY <1>6, <1>a, <2>1, <2>9 DEF ReallocSlice, Slices
    <3>2. \A j \in Slices : j \in 1 .. at
      BY <1>a, <3>1 DEF Slices
    <3>3. last > 1
      BY <1>a, <2>9
    <3>4. CopiesHold'
      BY <1>a, <2>1, <2>2, <2>6, <2>9, <3>1, <3>2, <3>3 DEF CopiesHold
    <3> QED BY <1>c, <3>1, <3>4
  <2> QED BY <2>7, <2>8, <2>9
<1>7. ASSUME ReallocRefused \/ NoCommandSpace \/ \E outcome : PartLost(outcome)
      PROVE  CopiesHold' /\ CodeSurvives'
  <2>1. /\ pc = "realloc" /\ pc' = "idle" /\ UNCHANGED <<given, clean>>
        /\ file' = [file EXCEPT ![at].claims = Grown] \/ file' = file
    BY <1>7 DEF ReallocRefused, NoCommandSpace, PartLost, Ends
  <2> QED BY <1>e, <1>f, <2>1
<1>8. CASE JoinHeader
  <2>1. /\ pc = "join" /\ pc' = "join" /\ at = 0 /\ at' = 1 /\ last > 1
        /\ fato' = Append(fato, FatHead) /\ UNCHANGED <<file, parts, given, clean>>
    BY <1>8 DEF JoinHeader, CopiesExist
  <2>2. clean => JoinedTo(1)'
    <3>1. SUFFICES ASSUME clean PROVE JoinedTo(1)'
      OBVIOUS
    <3>2. fato = << >>
      BY <2>1, <3>1 DEF CopiesHold
    <3>3. fato' = <<FatHead>>
      BY <2>1, <3>2
    <3> QED BY <3>3 DEF JoinedTo
  <2>3. \A j \in Slices : j >= 1 => j >= 0
    BY <1>a DEF Slices
  <2>4. clean => \A j \in Slices : PartHolds(j)'
    BY <1>a, <2>1 DEF CopiesHold, PartHolds, Copies, Slices
  <2>5. CopiesHold'
    BY <1>a, <2>1, <2>2, <2>4 DEF CopiesHold
  <2> QED BY <1>c, <2>1, <2>5
<1>9. CASE JoinSlice
  <2>1. pc = "join" /\ at \in Slices /\ last > 1 /\ parts[at] \in SliceSet
        /\ UNCHANGED <<file, given, clean>>
    BY <1>9 DEF JoinSlice, TypeOK, Slices, CopiesExist
  <2>2. fato' = Append(fato, parts[at]) /\ parts' = [parts EXCEPT ![at] = Missing]
    <3>1. "join" \notin Faults
      BY <1>a, <2>1 DEF Arrives
    <3> QED BY <1>9, <3>1 DEF JoinSlice
  <2>3. \A i \in Slices \ {at} : parts'[i] = parts[i]
    BY <2>1, <2>2, PartEdited DEF TypeOK
  <2>4. parts[at] \in Chunks /\ parts[at] \notin {FatHead, Garbled}
    BY <1>a, <2>1, FilesOpen DEF Chunks
  <2>5. PICK k \in Nat : k = at
    BY <1>a, <2>1 DEF Slices
  <2>6. clean => JoinedTo(k + 1)'
    <3>1. SUFFICES ASSUME clean PROVE JoinedTo(k + 1)'
      OBVIOUS
    <3>2. JoinedTo(k) /\ PartHolds(k) /\ k # 0
      BY <1>a, <2>1, <2>5, <3>1 DEF CopiesHold, Slices
    <3>3. /\ Len(fato') = k + 1 /\ fato'[k + 1] = parts[k]
          /\ \A m \in 1 .. k : fato'[m] = fato[m]
      BY <2>2, <2>4, <2>5, <3>2, Appended DEF TypeOK, JoinedTo
    <3>4. fato'[1] = FatHead
      BY <3>2, <3>3 DEF JoinedTo
    <3>5. ASSUME NEW j \in 1 .. (k + 1) - 1
          PROVE  /\ fato'[j + 1] \notin {FatHead, Garbled}
                 /\ fato'[j + 1].code = given'
                 /\ clean' => fato'[j + 1].claims = fato'[j + 1].size
      <4>1. CASE j = k
        BY <2>1, <2>4, <2>5, <3>2, <3>3, <4>1 DEF PartHolds, Copies
      <4>2. CASE j # k
        <5>1. j \in 1 .. k - 1 /\ j + 1 \in 1 .. k
          BY <2>5, <4>2
        <5> QED BY <2>1, <3>2, <3>3, <5>1 DEF JoinedTo, Copies
      <4> QED BY <4>1, <4>2
    <3> QED BY <3>3, <3>4, <3>5 DEF JoinedTo, Copies
  <2>7. CASE at < last
    <3>1. at' = k + 1 /\ pc' = "join" /\ at' # 0
      BY <1>9, <1>a, <2>1, <2>5, <2>7 DEF JoinSlice, Continue, Slices
    <3>2. clean => \A j \in Slices : j >= k + 1 => PartHolds(j)'
      BY <1>a, <2>1, <2>3, <2>5 DEF CopiesHold, PartHolds, Copies, Slices
    <3>3. JoinedTo(k + 1)' <=> JoinedTo(at)'
      BY <3>1 DEF JoinedTo, Copies
    <3>4. CopiesHold'
      BY <1>a, <2>1, <2>6, <3>1, <3>2, <3>3 DEF CopiesHold
    <3> QED BY <1>c, <3>1, <3>4
  <2>8. CASE ~(at < last)
    <3>1. at' = 1 /\ pc' = "remove" /\ k = last
      BY <1>9, <1>a, <2>1, <2>5, <2>8 DEF JoinSlice, Continue, Slices
    <3>2. clean => JoinedTo(last + 1)'
      BY <1>a, <2>6, <3>1 DEF JoinedTo, Copies
    <3>3. CopiesHold'
      BY <1>a, <2>1, <3>1, <3>2 DEF CopiesHold
    <3> QED BY <1>c, <3>1, <3>3
  <2> QED BY <2>7, <2>8
<1>10. CASE RemoveOld
  <2>1. pc = "remove" /\ pc' = "rename" /\ file' = Missing
        /\ UNCHANGED <<parts, fato, given, clean>>
    BY <1>10 DEF RemoveOld
  <2>2. PartHolds(1)' <=> PartHolds(1)
    BY <2>1 DEF PartHolds, Copies
  <2>3. JoinedTo(last + 1)' <=> JoinedTo(last + 1)
    BY <1>a, <2>1 DEF JoinedTo, Copies
  <2>4. CopiesHold'
    BY <1>a, <2>1, <2>2, <2>3 DEF CopiesHold, Opens
  <2> QED BY <1>c, <2>1, <2>4
<1>11. CASE RenameNew
  <2>1. pc = "rename" /\ UNCHANGED <<given, clean>>
    BY <1>11 DEF RenameNew, Ends
  <2>2. clean \/ last = 1 => Opens(file') /\ \A i \in Slices : file'[i].code = given
    <3>1. CASE last = 1
      <4>1. Slices = {1} /\ file' = parts /\ PartHolds(1)
        BY <1>11, <2>1, <3>1 DEF RenameNew, Slices, CopiesHold
      <4>2. parts \in [Slices -> SliceSet]
        BY <4>1 DEF TypeOK, PartHolds
      <4> QED BY <1>a, <4>1, <4>2, FilesOpen DEF PartHolds, Copies
    <3>2. CASE last # 1 /\ clean
      <4>1. JoinedTo(last + 1) /\ file' = Joined(fato)
        BY <1>11, <2>1, <3>2 DEF RenameNew, CopiesHold
      <4> QED BY <1>a, <4>1, JoinedProgram, FilesOpen DEF Copies
    <3> QED BY <3>1, <3>2
  <2>3. CASE pc' = "idle"
    BY <1>a, <2>1, <2>2, <2>3, EndsWithFile
  <2>4. CASE pc' = "sign"
    <3>1. last > 1 => fato' = << >>
      BY <1>11 DEF RenameNew
    <3>2. CopiesHold'
      BY <1>a, <2>1, <2>2, <2>4, <3>1 DEF CopiesHold
    <3> QED BY <1>c, <2>4, <3>2
  <2> QED BY <1>11, <2>3, <2>4 DEF RenameNew, Ends
<1>12. CASE RenameFails
  BY <1>12, <1>a, EndsAsItWas DEF RenameFails, Ends
<1>13. CASE AppendFails
  BY <1>7, <1>13 DEF AppendFails
<1>14. CASE Kill
  <2>1. CASE Ends("killed") /\ UNCHANGED <<file, parts, fato>>
    BY <1>a, <2>1, EndsAsItWas DEF Ends
  <2>2. CASE PartLost("killed")
    BY <1>7, <2>2
  <2>3. CASE pc = "join" /\ Ends("killed") /\ UNCHANGED <<file, parts>>
    BY <1>e, <2>3, Mapped DEF Ends
  <2> QED BY <1>14, <2>1, <2>2, <2>3 DEF Kill
<1>15. CASE Rebuild
  <2>1. PICK c \in Codes : file' \in Delivered(c) /\ given' = c
    BY <1>15 DEF Rebuild
  <2>2. file' \in [Slices -> SliceSet] /\ \A i \in Slices : file'[i].code = c
    BY <1>a, <2>1, DeliveredFile, OptionsAssumption
  <2>3. Opens(file') /\ pc' = "idle"
    BY <1>15, <1>a, <2>2, FilesOpen DEF Rebuild
  <2>4. CopiesHold'
    BY <1>a, <2>1, <2>2, <2>3 DEF CopiesHold
  <2> QED BY <1>a, <2>1, <2>2, <2>3, <2>4 DEF CodeSurvives, Survives
<1>16. CASE UNCHANGED vars
  <2>1. pc = "idle" \/ pc # "idle"
    OBVIOUS
  <2>2. CopiesHold'
    BY <1>16, <1>a DEF vars, CopiesHold, PartHolds, Copies, JoinedTo, Opens
  <2>3. CodeSurvives'
    BY <1>16, <1>a DEF vars, CodeSurvives, Survives, Opens
  <2> QED BY <2>2, <2>3
<1> QED BY <1>1, <1>2, <1>3, <1>4, <1>5, <1>6, <1>7, <1>8, <1>9, <1>10, <1>11, <1>12, <1>13,
           <1>14, <1>15, <1>16 DEF Next, Step

\* The number of slices does not change, so what arrives once always does.
LEMMA SameLast ==
  ASSUME [Next]_vars
  PROVE  Arrives' <=> Arrives
  BY DEF Next, vars, Arrives

LEMMA InitHolds == Init => CopiesHold /\ CodeSurvives
<1> SUFFICES ASSUME Init PROVE CopiesHold /\ CodeSurvives
  OBVIOUS
<1>1. last \in Lengths /\ MaxRuns[last] \in Nat /\ Original \in Codes
  BY OptionsAssumption, CodesAssumption DEF Init
<1>2. file \in [Slices -> SliceSet] /\ \A i \in Slices : file[i].code = given
  BY <1>1, DeliveredFile DEF Init
<1>3. Opens(file) /\ 1 \in Slices /\ pc = "idle"
  BY <1>1, <1>2, FilesOpen, SliceIndices DEF Init
<1> QED BY <1>2, <1>3 DEF CopiesHold, CodeSurvives, Survives

\* However many slices the file has, wherever a run is killed or fails, and whatever the
\* runs before it left: the program it was given can be recovered from the file, the copies
\* of its slices, or the joined file.  For a thin file that is so always, for a fat one when
\* the run started on a file nobody left half-way.  The one fault excluded, for a fat file,
\* is a slice appended to f.fato only in part, which the code does not notice
\* (macho.cpp:177-251).
THEOREM ProgramSurvives == Spec => [](last = 1 \/ "join" \notin Faults => CodeSurvives)
<1> DEFINE Inv == TypeOK /\ CopiesExist /\ (Arrives => CopiesHold /\ CodeSurvives)
<1>1. Init => Inv
  BY InitTyped, InitHolds
<1>2. Inv /\ [Next]_vars => Inv'
  BY TypesKept, CopiesKept, SameLast
<1>3. Inv => (last = 1 \/ "join" \notin Faults => CodeSurvives)
  BY DEF Arrives
<1> QED BY <1>1, <1>2, <1>3, PTL DEF Spec

(***************************************************************************)
(* What a success means.                                                   *)
(***************************************************************************)

\* A loop that starts anew on a file whose headers agree has signed nothing yet.
LEMMA LoopStarts ==
  ASSUME last' = last, last \in Lengths, pc' \in {"inject", "sign"}, at' = 1,
         clean' => \A i \in Slices : file'[i].claims = file'[i].size
  PROVE  SignedSoFar'
<1>1. Slices' = Slices /\ \A i \in Slices : ~(i < 1)
  BY SliceIndices DEF Slices
<1> QED BY <1>1 DEF SignedSoFar

\* Every step keeps what the loop over the slices has established, and the last one makes
\* it the outcome.
LEMMA SuccessKept ==
  ASSUME Arrives, TypeOK, CopiesExist, CopiesHold, CodeSurvives, SignedSoFar,
         result = "ok" => pc = "idle", SuccessIsSigned, [Next]_vars
  PROVE  SignedSoFar' /\ (result' = "ok" => pc' = "idle") /\ SuccessIsSigned'
<1>a. /\ last' = last /\ Slices' = Slices
      /\ last \in Lengths /\ last \in Nat \ {0} /\ 1 \in Slices /\ last \in Slices
  BY SliceIndices DEF Next, vars, Slices, TypeOK
<1>b. ASSUME result' # "ok", SignedSoFar'
      PROVE  SignedSoFar' /\ (result' = "ok" => pc' = "idle") /\ SuccessIsSigned'
  BY <1>b DEF SuccessIsSigned
<1>c. ASSUME result' # "ok", pc' \notin {"inject", "sign"}
      PROVE  SignedSoFar' /\ (result' = "ok" => pc' = "idle") /\ SuccessIsSigned'
  BY <1>c DEF SuccessIsSigned, SignedSoFar
<1>1. ASSUME NEW o \in Options, Start(o)
      PROVE  SignedSoFar' /\ (result' = "ok" => pc' = "idle") /\ SuccessIsSigned'
  <2>1. at' = 1 /\ clean' = Clean /\ file' = file /\ pc = "idle"
        /\ result' \in {"none", "failed"} /\ pc' \in {"idle", "inject", "sign"}
    BY <1>1 DEF Start, CopiesExist
  <2>2. clean' => \A i \in Slices : file'[i].claims = file'[i].size
    BY <2>1 DEF Clean
  <2>3. CASE pc' \in {"inject", "sign"}
    BY <1>a, <1>b, <2>1, <2>2, <2>3, LoopStarts
  <2>4. CASE pc' = "idle"
    BY <1>c, <2>1, <2>4
  <2> QED BY <2>1, <2>3, <2>4
<1>2. CASE InjectSlice
  <2>1. pc = "inject" /\ at \in Slices /\ file \in [Slices -> SliceSet] /\ result' # "ok"
        /\ UNCHANGED <<clean, runs, opt>>
    BY <1>2, Mapped DEF InjectSlice, TypeOK
  <2>2. \A i \in Slices : file'[i].claims = file[i].claims /\ file'[i].size = file[i].size
    <3>1. file[at] \in SliceSet
      BY <2>1
    <3> DEFINE new == [file[at] EXCEPT !.cmd = LoadKind(opt.weak)]
    <3>2. new \in SliceSet /\ new.claims = file[at].claims /\ new.size = file[at].size
      BY <1>a, <3>1, LoadedSlice
    <3>3. file' = [file EXCEPT ![at] = new]
      BY <1>2 DEF InjectSlice
    <3> HIDE DEF new
    <3> QED BY <1>a, <2>1, <3>2, <3>3, FileEdited
  <2>3. clean' => \A i \in Slices : file'[i].claims = file'[i].size
    BY <2>1, <2>2 DEF SignedSoFar
  <2>4. pc' = "inject" \/ (pc' = "sign" /\ at' = 1)
    BY <1>2 DEF InjectSlice, Continue
  <2>5. SignedSoFar'
    <3>1. CASE pc' = "inject"
      BY <1>a, <2>3, <3>1 DEF SignedSoFar
    <3>2. CASE pc' = "sign" /\ at' = 1
      BY <1>a, <2>3, <3>2, LoopStarts
    <3> QED BY <2>4, <3>1, <3>2
  <2> QED BY <1>b, <2>1, <2>5
<1>3. CASE InjectFails
  <2>1. pc = "inject" /\ pc' = "sign" /\ at' = 1 /\ result' # "ok" /\ UNCHANGED <<clean, file>>
    BY <1>3 DEF InjectFails
  <2>2. clean' => \A i \in Slices : file'[i].claims = file'[i].size
    BY <2>1 DEF SignedSoFar
  <2> QED BY <1>a, <1>b, <2>1, <2>2, LoopStarts
<1>4. CASE SignSlice
  <2>1. pc = "sign" /\ at \in Slices /\ file \in [Slices -> SliceSet]
        /\ runs \in 0 .. MaxRuns[last] /\ file[at] \in SliceSet
        /\ file[at].size >= opt.need
    BY <1>4, Mapped DEF SignSlice, TypeOK, Fits
  <2>2. file' = [file EXCEPT ![at] = Signed(file[at])]
    BY <1>4 DEF SignSlice
  <2>3. /\ Signed(file[at]) \in SliceSet
        /\ Signed(file[at]).code = file[at].code
        /\ Signed(file[at]).claims = file[at].claims
        /\ Signed(file[at]).size = file[at].size
        /\ Signed(file[at]).run = runs
        /\ opt.force => Signed(file[at]).slots = Pages(Signed(file[at]))
    BY <1>a, <2>1, SignedSlice
  <2>4. file'[at] = Signed(file[at]) /\ \A i \in Slices \ {at} : file'[i] = file[i]
    BY <1>a, <2>1, <2>2, <2>3, FileEdited
  <2>5. UNCHANGED <<clean, runs, opt, given>>
    BY <1>4 DEF SignSlice, Ends
  <2>6. ASSUME clean
        PROVE  \A i \in Slices :
                 /\ file'[i].code = given
                 /\ file'[i].claims = file'[i].size
                 /\ i <= at => /\ file'[i].run = runs
                               /\ file'[i].size >= opt.need
                               /\ opt.force => file'[i].slots = Pages(file'[i])
    <3> TAKE i \in Slices
    <3>1. file[i].code = given /\ file[i].claims = file[i].size
      BY <2>1, <2>6 DEF CopiesHold, SignedSoFar
    <3>2. CASE i = at
      BY <2>1, <2>3, <2>4, <3>1, <3>2
    <3>3. CASE i # at
      <4>1. file'[i] = file[i]
        BY <2>4, <3>3
      <4>2. i <= at => i < at
        BY <1>a, <2>1, <3>3 DEF Slices
      <4>3. i < at => /\ file[i].run = runs
                      /\ file[i].size >= opt.need
                      /\ opt.force => file[i].slots = Pages(file[i])
        BY <2>1, <2>6 DEF SignedSoFar
      <4> QED BY <3>1, <4>1, <4>2, <4>3
    <3> QED BY <3>2, <3>3
  <2>7. CASE at # last
    <3>1. at' = at + 1 /\ pc' = "sign" /\ result' # "ok"
      BY <1>4, <2>1, <2>7 DEF SignSlice
    <3>2. \A i \in Slices : i < at' => i <= at
      BY <1>a, <2>1, <3>1 DEF Slices
    <3>3. SignedSoFar'
      BY <1>a, <2>5, <2>6, <3>1, <3>2 DEF SignedSoFar, Pages
    <3> QED BY <1>b, <3>1, <3>3
  <2>8. CASE at = last
    <3>1. pc' = "idle"
      BY <1>4, <2>8 DEF SignSlice, Ends
    <3>2. \A i \in Slices : i <= at
      BY <1>a, <2>8 DEF Slices
    <3>3. SuccessIsSigned'
      BY <1>a, <2>5, <2>6, <3>2 DEF SuccessIsSigned, Pages
    <3>4. SignedSoFar'
      BY <3>1 DEF SignedSoFar
    <3> QED BY <3>1, <3>3, <3>4
  <2> QED BY <2>7, <2>8
<1>5. CASE NoSpace
  BY <1>5, <1>c DEF NoSpace, Ends
<1>6. CASE ReallocSlice
  BY <1>6, <1>c DEF ReallocSlice
<1>7. ASSUME ReallocRefused \/ NoCommandSpace \/ PartLost("failed") \/ PartLost("killed")
      PROVE  SignedSoFar' /\ (result' = "ok" => pc' = "idle") /\ SuccessIsSigned'
  BY <1>7, <1>c DEF ReallocRefused, NoCommandSpace, PartLost, Ends
<1>8. CASE JoinHeader
  BY <1>8, <1>c DEF JoinHeader
<1>9. CASE JoinSlice
  BY <1>9, <1>c DEF JoinSlice, Continue
<1>10. CASE RemoveOld
  BY <1>10, <1>c DEF RemoveOld
<1>11. CASE RenameNew
  <2>1. pc = "rename" /\ UNCHANGED <<clean, given>> /\ at = 1
    BY <1>11 DEF RenameNew, Ends, CopiesExist
  <2>2. CASE Ends("failed")
    BY <1>c, <2>2 DEF Ends
  <2>3. CASE pc' = "sign" /\ UNCHANGED <<at, opt, create, realloced, runs, result, given, clean>>
    <3>1. clean' => \A i \in Slices : file'[i].claims = file'[i].size
      <4>1. SUFFICES ASSUME clean PROVE \A i \in Slices : file'[i].claims = file'[i].size
        BY <2>1
      <4>2. CASE last = 1
        BY <1>11, <2>1, <4>1, <4>2 DEF RenameNew, CopiesHold, PartHolds, Copies, Slices
      <4>3. CASE last # 1
        <5>1. JoinedTo(last + 1) /\ file' = Joined(fato)
          BY <1>11, <2>1, <4>1, <4>3 DEF RenameNew, CopiesHold
        <5> QED BY <4>1, <5>1, JoinedProgram DEF Copies
      <4> QED BY <4>2, <4>3
    <3>2. result' # "ok"
      BY <2>1, <2>3
    <3>3. SignedSoFar'
      BY <1>a, <2>1, <2>3, <3>1, LoopStarts
    <3> QED BY <1>b, <3>2, <3>3
  <2> QED BY <1>11, <2>2, <2>3 DEF RenameNew
<1>12. CASE RenameFails
  BY <1>12, <1>c DEF RenameFails, Ends
<1>13. CASE AppendFails
  BY <1>7, <1>13 DEF AppendFails
<1>14. CASE Kill
  <2>1. CASE Ends("killed")
    BY <1>c, <2>1 DEF Ends
  <2> QED BY <1>7, <1>14, <2>1 DEF Kill
<1>15. CASE Rebuild
  <2>1. result' = "none" /\ pc' = "idle"
    BY <1>15 DEF Rebuild
  <2> QED BY <1>c, <2>1
<1>16. CASE UNCHANGED vars
  BY <1>16, <1>a DEF vars, SignedSoFar, SuccessIsSigned, Pages
<1> QED BY <1>1, <1>2, <1>3, <1>4, <1>5, <1>6, <1>7, <1>8, <1>9, <1>10, <1>11, <1>12, <1>13,
           <1>14, <1>15, <1>16 DEF Next, Step

\* However many slices the file has and however the runs before ended: a run that reports
\* success on a file nobody left half-way has signed every slice of the program it was
\* given, in an area that holds the signature and has the size the headers claim, also when
\* it had to rebuild the file; if it was told to force, over the pages as they are.  The
\* same fault is excluded (macho.cpp:120-158).
THEOREM SuccessSigned == Spec => [](last = 1 \/ "join" \notin Faults => SuccessIsSigned)
<1> DEFINE Inv == TypeOK /\ CopiesExist /\ (Arrives => ProgramInv)
<1>1. Init => Inv
  BY InitTyped, InitHolds DEF Init, ProgramInv, SignedSoFar, SuccessIsSigned
<1>2. Inv /\ [Next]_vars => Inv'
  BY TypesKept, CopiesKept, SuccessKept, SameLast DEF ProgramInv
<1>3. Inv => (last = 1 \/ "join" \notin Faults => SuccessIsSigned)
  BY DEF Arrives, ProgramInv
<1> QED BY <1>1, <1>2, <1>3, PTL DEF Spec
===============================================================================
