------------------------------ MODULE Documents ------------------------------
(***************************************************************************)
(* The documents that SignFolder of bundle.cpp reads and writes again: the *)
(* Info.plist of an application and of a plug-in in it, CodeResources, the *)
(* cache, and the entitlements that become DER.  Where BundleSign has the  *)
(* folder and one content per identity, here is what is in a document, and *)
(* what a run that was killed or could not write, and the next one, leave  *)
(* of it.                                                                  *)
(***************************************************************************)
EXTENDS Plist, Json, Der

CONSTANTS
  None,       \* no file, no option
  Deliveries, \* applications as they may be delivered
  Options,    \* the command lines
  Paths,      \* the files that CodeResources lists, besides the executable
  SumOf,      \* their hashes
  MaxRuns,    \* bound on the number of runs
  Longest     \* bound on the length of an identifier

Id   == <<"id">>
Exe  == <<"exe">>
Name == <<"name">>
\* What -b replaces in a plug-in; the first whether or not it is there.
Fields == << <<Id>>, <<(<<"companion">>)>>, <<(<<"extension">>), (<<"attributes">>), (<<"app">>)>> >>

Files == {"info", "plug", "res", "cache"}
Forms == {"xml", "terse", "binary"}

ASSUME DocumentsAssumption ==
  \* How an application comes: its two lists, and how many kills and failing writes may come.
  /\ \A d \in Deliveries : d.info[1] \in Forms /\ d.plug[1] \in Forms /\ d.faults \in Nat
  /\ \A o \in Options : o.force \in BOOLEAN /\ o.ents[1] \in Forms
  /\ SumOf \in [Paths -> Seq(0 .. 255)]
  /\ Exe \notin Paths
  /\ MaxRuns \in Nat /\ Longest \in Nat

VARIABLES
  disk,    \* the four documents
  pc,      \* "idle", or what the process is about to do
  opt,     \* its command line
  force,   \* m_bForceSign
  jv,      \* the value of the document it is at
  old,     \* strOldBundleID
  kept,    \* jvInfoPlist, while it is at a plug-in
  field,   \* which of the Fields
  context, \* the text StringReplace is at
  look,    \* and where in it
  tree,    \* jvRoot
  der,     \* the last DER made
  runs,    \* how many runs have been started
  result,  \* how the last one ended
  given,   \* history: what the two lists meant when they were delivered, their form, and the faults left
  cut,     \* history: what was being written to a file that has been cut off
  spoiled, \* history: the files cut off or not written since they were last made anew
  missed,  \* history: the files that the last run could not write whole
  crossed  \* history: the identifiers that -b runs wrote to the plug-in but not to the application

doc  == <<jv, old, kept, field, context, look>>
hist == <<given, cut, spoiled, missed, crossed>>
vars == <<disk, pc, opt, force, doc, tree, der, runs, result, hist>>

Init ==
  /\ \E d \in Deliveries :
       /\ disk = [info |-> d.info, plug |-> d.plug, res |-> None, cache |-> None]
       /\ given = [info |-> Meaning(d.info), plug |-> Meaning(d.plug),
                   form |-> [info |-> d.info[1], plug |-> d.plug[1]], faults |-> d.faults]
  /\ pc = "idle"
  /\ opt = None
  /\ force = FALSE
  /\ jv = Null /\ kept = Null /\ tree = Null
  /\ old = << >> /\ context = << >> /\ field = 1 /\ look = 1
  /\ der = None
  /\ runs = 0
  /\ result = "none"
  /\ cut = [f \in Files |-> None] /\ spoiled = {} /\ missed = {} /\ crossed = {}

Ends(outcome) == pc' = "idle" /\ result' = outcome

Start(o) ==
  /\ pc = "idle" /\ runs < MaxRuns
  /\ runs' = runs + 1
  /\ opt' = o /\ force' = o.force /\ result' = "none"
  /\ pc' = IF o.id = None /\ o.name = None THEN "tree" ELSE "info"
  /\ missed' = {}
  /\ UNCHANGED <<disk, doc, tree, der, given, cut, spoiled, crossed>>

(***************************************************************************)
(* -b and -n.                                                              *)
(***************************************************************************)
\* Mutant of OldId: it is looked up after it was replaced.
OldIdAfter(v) == opt.id
OldId(v) == asCString(Get(v, Id))

ReadInfo ==
  /\ pc = "info"
  /\ \E r \in {readPList(disk.info)} :
         \/ /\ r.ok
            /\ force' = TRUE
            /\ jv' = IF opt.id = None THEN r.v ELSE Put(r.v, Id, Str(opt.id))
            /\ old' = IF opt.id = None THEN << >> ELSE OldId(r.v)
            /\ pc' = IF opt.id = None THEN "write" ELSE "plug"
            /\ UNCHANGED result
         \/ /\ ~r.ok
            /\ Ends("failed")
            /\ UNCHANGED <<force, jv, old>>
  /\ UNCHANGED <<disk, opt, kept, field, context, look, tree, der, runs, hist>>

AtField(v, i) == /\ field' = i
                 /\ context' = asCString(GetPath(v, Fields[i]))
                 /\ look' = 1

\* A plug-in that cannot be read is passed over.
ReadPlugIn ==
  /\ pc = "plug"
  /\ \E r \in {readPList(disk.plug)} :
         \/ /\ r.ok
            /\ kept' = jv /\ jv' = r.v
            /\ AtField(r.v, 1)
            /\ pc' = "field"
         \/ /\ ~r.ok
            /\ pc' = "write"
            /\ UNCHANGED <<jv, kept, field, context, look>>
  /\ UNCHANGED <<disk, opt, force, old, tree, der, runs, result, hist>>

\* Mutant of LookOn: at what was put in.
LookOnAgain(i) == i
LookOn(i) == LookNext(i, opt.id)

\* One turn of StringReplace: an empty text is found everywhere.
Replace ==
  /\ pc = "field"
  /\ Len(context) < Longest
  /\ LET i == FindFrom(context, old, look)
     IN  /\ i # 0
         /\ context' = Replaced(context, i, old, opt.id)
         /\ look' = LookOn(i)
  /\ UNCHANGED <<disk, pc, opt, force, jv, old, kept, field, tree, der, runs, result, hist>>

HasPath(v, p) == \A n \in 1 .. Len(p) : has(GetPath(v, SubSeq(p, 1, n - 1)), p[n])
\* Mutant of Remaining: every field that -b knows.
RemainingAll(v) == {i \in field + 1 .. Len(Fields) + 1 : i > Len(Fields) \/ field < 3}
Remaining(v) == {i \in field + 1 .. Len(Fields) : HasPath(v, Fields[i])}

FieldDone ==
  /\ pc = "field"
  /\ FindFrom(context, old, look) = 0
  /\ jv' = PutPath(jv, Fields[field], Str(context))
  /\ IF Remaining(jv) = {} THEN pc' = "writeplug" /\ UNCHANGED <<field, context, look>>
     ELSE AtField(jv', CHOOSE i \in Remaining(jv) : \A j \in Remaining(jv) : i <= j) /\ UNCHANGED pc
  /\ UNCHANGED <<disk, opt, force, old, kept, tree, der, runs, result, hist>>

\* A file is written; anew: not from what was read from it.
Write(f, document, anew) ==
  /\ \E d \in {document} : disk' = [disk EXCEPT ![f] = d]
  /\ cut' = [cut EXCEPT ![f] = None]
  /\ spoiled' = IF anew THEN spoiled \ {f} ELSE spoiled
  /\ UNCHANGED <<given, missed, crossed>>

\* The beginnings of a document.
Short(f, document) ==
  IF f = "cache" THEN {SubSeq(document, 1, n) : n \in 0 .. Len(document) - 1}
  ELSE {<<"xml", SubSeq(document[2], 1, n)>> : n \in 0 .. Len(document[2]) - 1}

\* It is cut off, or not even opened.
CutShort(f, document) ==
  /\ spoiled' = spoiled \cup {f} /\ missed' = missed \cup {f}
  /\ \/ disk' \in {[disk EXCEPT ![f] = s] : s \in Short(f, document)}
        /\ cut' = [cut EXCEPT ![f] = document]
     \/ UNCHANGED <<disk, cut>>

\* Nobody looks whether it was.
WriteFails(f, document) ==
  /\ given.faults > 0 /\ given' = [given EXCEPT !.faults = @ - 1]
  /\ \E d \in {document} : CutShort(f, d)
  /\ crossed' = IF f = "info" /\ opt.id # None THEN crossed \cup {opt.id} ELSE crossed

WritePlugIn ==
  /\ pc = "writeplug"
  /\ Write("plug", writePList(jv), FALSE) \/ WriteFails("plug", writePList(jv))
  /\ jv' = kept
  /\ pc' = "write"
  /\ UNCHANGED <<opt, force, old, kept, field, context, look, tree, der, runs, result>>

Named == IF opt.name = None THEN jv ELSE Put(jv, Name, Str(opt.name))
WriteInfo ==
  /\ pc = "write"
  /\ \E v \in {Named} : Write("info", writePList(v), FALSE) \/ WriteFails("info", writePList(v))
  /\ pc' = "tree"
  /\ UNCHANGED <<opt, force, doc, tree, der, runs, result>>

(***************************************************************************)
(* The tree, from the lists or from the cache.                             *)
(***************************************************************************)
\* Whether a list could be read to its end is not looked at.
Info(f)      == readPList(disk[f]).v
Complete(v)  == asCString(Get(v, Id)) # << >> /\ asCString(Get(v, Exe)) # << >>
NodeOf(v)    == Put(Put(Dict(NoEntries), Id, Get(v, Id)), Exe, Get(v, Exe))
Folders      == <<"folders">>
Anew         == force \/ disk.cache = None

BuildTree ==
  /\ pc = "tree" /\ Anew
  /\ force' = TRUE
  /\ \E info \in {Info("info")}, plug \in {Info("plug")} :
       /\ Complete(info)
       /\ tree' = Put(Put(NodeOf(info), Name, Str(asCString(Get(info, Name)))),
                      Folders, Arr(IF Complete(plug) THEN <<NodeOf(plug)>> ELSE << >>))
  /\ pc' = "res"
  /\ UNCHANGED <<disk, opt, doc, der, runs, result, hist>>

\* What could be read of the cache; SignNode looks into the plug-in first.
Cached == readJson(disk.cache).v
Usable(v) == /\ Complete(v)
             /\ has(v, Folders) => \A i \in DOMAIN v[2][Folders][2] : Complete(v[2][Folders][2][i])
LoadTree ==
  /\ pc = "tree" /\ ~Anew
  /\ \E v \in {Cached} : Usable(v) /\ tree' = v
  /\ pc' = "res"
  /\ UNCHANGED <<disk, opt, force, doc, der, runs, result, hist>>

NoTree ==
  /\ pc = "tree"
  /\ IF Anew THEN \E v \in {Info("info")} : ~Complete(v) ELSE \E v \in {Cached} : ~Usable(v)
  /\ Ends("failed")
  /\ UNCHANGED <<disk, opt, force, doc, tree, der, runs, hist>>

(***************************************************************************)
(* CodeResources, the executable's entitlements, and the cache.            *)
(***************************************************************************)
Listed  == <<"files">>
Listed2 == <<"files2">>
HashKey == <<"hash">>
\* The executable is another one after each run.
Sum(p)   == IF p = Exe THEN <<runs, 3 * runs + 1>> ELSE SumOf[p]
DataOf(p) == Str(<<"data:">> \o Encode(Sum(p)))
Seal(v, p) == PutPath(PutPath(v, <<Listed, p>>, DataOf(p)), <<Listed2, p, HashKey>>, DataOf(p))

GenerateCodeResources ==
  Dict((Listed :> Dict([p \in Paths \cup {Exe} |-> DataOf(p)]))
         @@ (Listed2 :> Dict([p \in Paths \cup {Exe} |-> Dict(HashKey :> DataOf(p))])))

\* The list that is there, if it can be used.
Old == {v \in {IF disk.res = None \/ force THEN Null ELSE readPList(disk.res).v} : ~TypeIs(v, "null")}
CodeResources == IF Old = {} THEN {GenerateCodeResources} ELSE {Seal(v, Exe) : v \in Old}
\* The one write whose failure ends the run.
WriteRes ==
  /\ pc = "res"
  /\ \E v \in CodeResources :
       \/ Write("res", writePList(v), Old = {}) /\ pc' = "sign" /\ UNCHANGED result
       \/ WriteFails("res", writePList(v)) /\ Ends("failed")
  /\ UNCHANGED <<opt, force, doc, tree, der, runs>>

SignExe ==
  /\ pc = "sign"
  /\ \E v \in {readPList(opt.ents).v} : der' = DER(v)
  /\ pc' = "cache"
  /\ UNCHANGED <<disk, opt, force, doc, tree, runs, result, hist>>

SaveCache ==
  /\ pc = "cache"
  /\ Write("cache", StyleWriteValue(tree), TRUE) \/ WriteFails("cache", StyleWriteValue(tree))
  /\ Ends("ok")
  /\ UNCHANGED <<opt, force, doc, tree, der, runs>>

(***************************************************************************)
(* A kill, between steps and within a write.                               *)
(***************************************************************************)
Crossing == IF pc = "write" /\ opt.id # None THEN {opt.id} ELSE {}
Killed ==
  /\ pc # "idle" /\ Ends("killed")
  /\ given.faults > 0 /\ given' = [given EXCEPT !.faults = @ - 1]
  /\ crossed' = crossed \cup Crossing
  /\ UNCHANGED <<opt, force, doc, tree, der, runs>>
Kill == Killed /\ UNCHANGED <<disk, cut, spoiled, missed>>

Written == CASE pc = "writeplug" -> {<<"plug", writePList(jv)>>}
             [] pc = "write"     -> {<<"info", writePList(v)>> : v \in {Named}}
             [] pc = "res"       -> {<<"res", writePList(v)>> : v \in CodeResources}
             [] pc = "cache"     -> {<<"cache", StyleWriteValue(tree)>>}
             [] OTHER            -> {}
CutOff == Killed /\ \E w \in Written : CutShort(w[1], w[2])

Step == \/ ReadInfo \/ ReadPlugIn \/ Replace \/ FieldDone \/ WritePlugIn \/ WriteInfo
        \/ BuildTree \/ LoadTree \/ NoTree \/ WriteRes \/ SignExe \/ SaveCache

Next == (\E o \in Options : Start(o)) \/ Step \/ Kill \/ CutOff

\* A run that is not killed goes on.
Spec == Init /\ [][Next]_vars /\ WF_vars(Step)

(***************************************************************************)
(* Properties.                                                             *)
(***************************************************************************)
\* The variables have their types, and a loop is at a field that its plug-in has.
TypeOK ==
  /\ DOMAIN disk = Files
  /\ pc \in {"idle", "info", "plug", "field", "writeplug", "write", "tree", "res", "sign", "cache"}
  /\ force \in BOOLEAN
  /\ runs \in 0 .. MaxRuns /\ result \in {"none", "ok", "failed", "killed"}
  /\ field \in DOMAIN Fields /\ look \in 1 .. Longest + 5 * Len(context) + 1
  /\ pc = "field" /\ field > 1 => HasPath(jv, Fields[field])
  /\ missed \subseteq spoiled /\ spoiled \subseteq Files

\* What survives in a list of a form: see the README for what does not.
SturdyText(s, form) ==
  /\ FindFrom(s, <<"&", "lt;">>, 1) = 0
  /\ ~isDataString(Str(s)) /\ ~isDateString(Str(s))
  /\ form \in {"xml", "terse"} => Range(s) \cap DOMAIN EntityOf \subseteq
       IF form = "xml" THEN DOMAIN EntityOf \ {">"} ELSE {"&", "<"}
  /\ form = "terse" => s # << >>
  /\ form = "binary" => "emoji" \notin Range(s)
SturdyKey(k, form) == SturdyText(k, form) /\ "\n" \notin Range(k)
\* An empty key takes the place of another.
SturdyKeys(v, form) == form = "terse" => << >> \notin DOMAIN v[2]
RECURSIVE Sturdy(_, _)
Sturdy(v, form) ==
  CASE TypeIs(v, "string") -> SturdyText(v[2], form)
    [] TypeIs(v, "real")   -> v[2] \in {"whole", "rounded", "infinite"}
    [] TypeIs(v, "date")   -> (form # "binary" \/ Zone = 8) /\ (v[2][1] = "winter" \/ Dst = 0)
    [] TypeIs(v, "data")   -> form = "terse" => v[2] # << >>
    [] TypeIs(v, "array")  -> /\ form = "binary" => ~isEmpty(v)
                              /\ \A i \in DOMAIN v[2] : Sturdy(v[2][i], form)
    [] TypeIs(v, "dict")   -> /\ form = "binary" => ~isEmpty(v)
                              /\ SturdyKeys(v, form)
                              /\ \A k \in DOMAIN v[2] : SturdyKey(k, form) /\ Sturdy(v[2][k], form)
    [] OTHER               -> TRUE

\* However often a list has been rewritten, by runs that were killed and runs that were not:
\* Apple's reader finds every sturdy entry that -b and -n do not change as it was delivered, and
\* none that was not there (json.cpp:1861-2171, 2315-2538, 2570-2697).
RewriteKeepsMeaning ==
  pc = "idle" => \A f \in {g \in {"info", "plug"} \ spoiled : SturdyKeys(given[g], given.form[g])} :
    LET now  == Meaning(disk[f])
        was  == given[f]
        form == given.form[f]
        ours == {Id, Name} \cup IF f = "plug" THEN {Fields[i][1] : i \in DOMAIN Fields} ELSE {}
    IN  /\ \A k \in DOMAIN was[2] \ ours :
             SturdyKey(k, form) /\ Sturdy(was[2][k], form) => has(now, k) /\ now[2][k] = was[2][k]
        /\ (\A k \in DOMAIN was[2] : SturdyKey(k, form)) => DOMAIN now[2] \subseteq DOMAIN was[2] \cup ours

\* a is what is left of b when its end is missing: entries and elements whole, or missing,
\* or, the last ones, in part.
RECURSIVE PartOf(_, _)
PartOf(a, b) ==
  \/ TypeIs(a, "null") \/ a = b
  \/ TypeIs(a, "dict") /\ TypeIs(b, "dict") /\ \A k \in DOMAIN a[2] : has(b, k) /\ PartOf(a[2][k], b[2][k])
  \/ TypeIs(a, "array") /\ TypeIs(b, "array") /\ Len(a[2]) <= Len(b[2])
       /\ \A i \in DOMAIN a[2] : PartOf(a[2][i], b[2][i])

\* A document cut off anywhere, by a kill or by a write that fails, is read in part: no entry of
\* it with half a value and none with another one's, so that an identifier, a hash or a path that
\* is read is right (json.cpp:1255-1323, 1976-2138; bundle.cpp:63, 334 and 565 use what was read).
TornReadsAsPart ==
  pc = "idle" => \A f \in {g \in Files : cut[g] # None} :
    IF f = "cache" THEN PartOf(Cached, readJson(cut[f]).v)
    ELSE PartOf(readPList(disk[f]).v, readPList(cut[f]).v)

\* After a -b run every identifier of the plug-in is the one that was delivered with the
\* application's new one in place of its old, also when an earlier run was killed between the
\* two or could not write the application's list - unless that one was for another identifier, or
\* the new one contains the old, or the plug-in's own list could not be written: the next run
\* then looks there for an identifier that is no longer the application's (bundle.cpp:436-499).
IdentifiersMove ==
  LET from == asCString(Get(given.info, Id)) IN
  /\ result = "ok" /\ opt.id # None /\ from # << >> /\ "info" \notin missed /\ "plug" \notin spoiled
  /\ crossed \subseteq {opt.id} /\ (crossed # {} => FindFrom(opt.id, from, 1) = 0)
  => /\ Get(Meaning(disk.info), Id) = Str(opt.id)
     /\ \A i \in DOMAIN Fields : HasPath(given.plug, Fields[i]) =>
          asCString(GetPath(Meaning(disk.plug), Fields[i]))
            = StringReplace(asCString(GetPath(given.plug, Fields[i])), from, opt.id)

\* The cache that a run wrote whole is read as the tree that run had, whatever the names in it;
\* not so where a backslash is followed by "u" and four digits (json.cpp:1742, 1365).
Unreadable(v) == \E s \in {asCString(Get(v, k)) : k \in {Id, Exe, Name}} : FindFrom(s, <<"\\", "u", "0041">>, 1) # 0
CacheReadsBack ==
  result = "ok" /\ "cache" \notin missed /\ ~Unreadable(tree) => readJson(disk.cache) = [ok |-> TRUE, v |-> tree, rest |-> << >>]

\* Apple's reader finds in CodeResources the hash of every file, whether the list was made
\* anew or one entry of an old one was replaced (bundle.cpp:334-369, base64.cpp:56-167).
SealReadsBack ==
  result = "ok" /\ "res" \notin spoiled =>
    \A p \in {q \in Paths : SturdyKey(q, "binary")} \cup {Exe} :
      /\ GetPath(Meaning(disk.res), <<Listed, p>>) = Bytes(Sum(p))
      /\ GetPath(Meaning(disk.res), <<Listed2, p, HashKey>>) = Bytes(Sum(p))

\* The DER of the entitlements is one way of writing them in BER, where they hold no number but 1
\* and no key of 128 characters or more (signing.cpp:10-86).
RECURSIVE Writable(_)
Writable(v) ==
  CASE TypeIs(v, "int") -> v[2] = 1
    [] TypeIs(v, "array") -> \A i \in DOMAIN v[2] : Writable(v[2][i])
    [] TypeIs(v, "dict") -> \A k \in DOMAIN v[2] : Len(k) < 128 /\ Writable(v[2][k])
    [] OTHER -> TRUE
DerReadsBack ==
  result = "ok" /\ Writable(Meaning(opt.ents)) =>
    \E true \in 1 .. 255 : der = Encoding(Meaning(opt.ents), true)

\* A run that is not killed ends, if the application has an identifier: replacing an empty
\* one never does (common.cpp:433-442).
RunEnds == (pc # "idle" /\ asCString(Get(given.info, Id)) # << >>) ~> pc = "idle"
==============================================================================
