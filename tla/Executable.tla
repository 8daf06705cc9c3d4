------------------------------ MODULE Executable ------------------------------
(***************************************************************************)
(* What signing does to one Mach-O file, as whoever has it signed sees it: *)
(* what is at its path, and whether signing went well.  MachO implements   *)
(* this with temporary files beside it, BundleSign relies on it for every  *)
(* executable of the application.                                          *)
(***************************************************************************)
EXTENDS Naturals

CONSTANT None \* no signature

(***************************************************************************)
(* A file is a function of its architectures, and without any when there   *)
(* is none that parses.  Each has pages, which only an injection and a     *)
(* change of the sizes edit; code slots, which are right if they are the   *)
(* pages; and the run that signed it.                                      *)
(***************************************************************************)
NoFile == << >>

VARIABLES
  busy,    \* a run is going on
  bin,     \* the file at the path, or NoFile
  spare,   \* the copy that is to take its place, or NoFile
  phase,   \* "idle", "edit" (load commands), "sign", "resize" or "replace"
  forced,  \* code slots are to be made anew
  resized, \* this run has changed the sizes
  sound,   \* what this run copies is the file: nothing of an earlier one is in the way
  signed,  \* the last run on it said that it is signed
  run      \* the number of that run

vars == <<busy, bin, spare, phase, forced, resized, sound, signed, run>>

\* Only pages differ.
Edited(new) ==
  /\ bin # NoFile /\ new # NoFile
  /\ DOMAIN new = DOMAIN bin
  /\ \A i \in DOMAIN bin : new[i].slots = bin[i].slots /\ new[i].signer = bin[i].signer
SamePages(new) == \A i \in DOMAIN bin : new[i].pages = bin[i].pages

\* Signing keeps the code slots that are there unless they are to be made anew.
IsSigned(old, new) ==
  /\ new.signer = run
  /\ new.slots = IF forced \/ old.slots = None THEN new.pages ELSE old.slots

\* The file is at rest, and nothing of what was done to it is remembered.
Rests == phase' = "idle" /\ spare' = NoFile /\ ~forced' /\ ~resized'

Init ==
  /\ phase = "idle" /\ spare = NoFile
  /\ ~busy /\ ~forced /\ ~resized /\ ~signed
  /\ run = 0

\* Another program takes the file's place, between runs.
Build ==
  /\ ~busy /\ ~busy'
  /\ phase = "idle" /\ Rests
  /\ ~signed'
  /\ UNCHANGED <<run, sound>>

\* The file is opened, if there is one.
Opens ==
  /\ phase = "idle" /\ phase' \in {"edit", "sign"}
  /\ bin # NoFile
  /\ forced' \in BOOLEAN

\* A run begins, and may open the file at once; if it does nothing, it has ended, too.
Begin ==
  /\ ~busy /\ phase = "idle"
  /\ \/ phase' = "idle" /\ busy' \in BOOLEAN /\ ~forced'
     \/ Opens /\ busy'
  /\ run' \in Nat /\ run' >= run
  /\ sound' \in BOOLEAN
  /\ ~signed' /\ ~resized'
  /\ UNCHANGED <<bin, spare>>

\* A run that does other things as well opens the file later, and once.
Open ==
  /\ busy /\ ~signed
  /\ Opens
  /\ UNCHANGED <<busy, bin, spare, resized, sound, signed, run>>

Inject ==
  /\ phase = "edit" /\ phase' \in {"edit", "sign"}
  /\ forced' \in BOOLEAN
  /\ Edited(bin')
  /\ UNCHANGED <<busy, spare, resized, sound, signed, run>>

\* Some architectures are signed; a success has signed all of them.
SignSome(new) ==
  /\ bin # NoFile /\ new # NoFile
  /\ DOMAIN new = DOMAIN bin
  /\ \A i \in DOMAIN bin : new[i] = bin[i] \/ IsSigned(bin[i], new[i])
  /\ \/ phase' = phase /\ UNCHANGED <<busy, spare, forced, resized, signed>>
     \/ /\ Rests /\ signed' /\ busy' \in BOOLEAN
        /\ \A i \in DOMAIN bin : /\ new[i].signer = run
                                 /\ forced => new[i].slots = new[i].pages
\* The sizes stay, or are changed on the way, once in a run.
Sign ==
  /\ phase = "sign"
  /\ SignSome(bin')
  /\ SamePages(bin') \/ ~resized
  /\ UNCHANGED <<sound, run>>

Shortage ==
  /\ phase = "sign" /\ phase' = "resize"
  /\ ~resized /\ resized'
  /\ UNCHANGED <<busy, bin, spare, forced, sound, signed, run>>

\* The sizes in the headers are edited; in the end the file has been copied with them.
Resize ==
  /\ phase = "resize"
  /\ Edited(bin')
  /\ \/ phase' = "resize" /\ UNCHANGED spare
     \/ phase' = "replace" /\ (sound => spare' = bin')
  /\ UNCHANGED <<busy, forced, resized, sound, signed, run>>

\* The old file is removed; the copy takes its place, whole, and signing starts over.
RemoveOld ==
  /\ phase = "replace" /\ bin # NoFile
  /\ bin' = NoFile
  /\ UNCHANGED <<busy, spare, phase, forced, resized, sound, signed, run>>
Replace ==
  /\ phase = "replace" /\ phase' = "sign"
  /\ bin = NoFile /\ spare # NoFile
  /\ bin' = spare /\ spare' = NoFile
  /\ UNCHANGED <<busy, forced, resized, sound, signed, run>>

\* A run that fails or is killed leaves the file as it was signed so far, with other sizes,
\* or away.
Stop ==
  /\ phase # "idle" /\ Rests
  /\ ~busy' /\ ~signed'
  /\ \/ UNCHANGED bin
     \/ phase \in {"sign", "resize"} /\ Edited(bin')
     \/ phase = "sign" /\ bin' = NoFile
  /\ UNCHANGED <<sound, run>>

\* A run ends after it has done other things, too, and does not touch the file any more.
\* Whether it went well is known as long as the run lasts.
End ==
  /\ phase = "idle"
  /\ ~busy' /\ ~signed'
  /\ UNCHANGED <<bin, spare, phase, forced, resized, sound, run>>

Next == \/ Build \/ Begin \/ Open \/ Inject \/ Sign \/ Shortage \/ Resize \/ RemoveOld \/ Replace
        \/ Stop \/ End

Spec == Init /\ [][Next]_vars
==============================================================================
