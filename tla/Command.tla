------------------------------- MODULE Command -------------------------------
(***************************************************************************)
(* What a zsign command promises to its user, who sees four things: the    *)
(* application he gave, the archive that -o or -i makes, the device, and   *)
(* the exit code.  Temporary files, the phases of main and the reasons why *)
(* a phase fails are not seen; Driver implements this.                     *)
(***************************************************************************)
EXTENDS Integers

CONSTANTS
  Missing, \* no file
  MaxRuns  \* bound on the number of commands

\* An application, or the archive of one: as delivered, signed by a run, or left by a run
\* that did not sign it; with all of its files, or not.
AppSet == [state : {"delivered", "edited", "signed"}, run : 0 .. MaxRuns, whole : BOOLEAN]

\* What a command was asked for: a bundle, not a single file; to leave the file alone and
\* work on a copy; an archive that can be made; one that takes the place of the file. Two
\* paths have the form of zsign's temporary ones: that of the archive, that of the folder.
JobSet == [bundle : BOOLEAN, copy : BOOLEAN, archive : BOOLEAN, same : BOOLEAN,
           tempArchive : BOOLEAN, tempFolder : BOOLEAN]

VARIABLES
  job, app, archive, phone, verdict, phase, exit, run,
  sound \* the application had all of its files, and no program that unpacked it was killed

vars == <<job, app, archive, phone, verdict, phase, exit, run, sound>>

Init ==
  /\ job \in JobSet
  /\ app \in AppSet \cup {Missing}
  /\ archive \in AppSet \cup {Missing}
  /\ phone = Missing
  /\ verdict = "unknown"
  /\ phase = "idle"
  /\ exit = 1
  /\ run = 0
  /\ sound = FALSE

\* Every command may name another archive.
Begin ==
  /\ phase = "idle" /\ phase' = "work"
  /\ run' = run + 1
  /\ job' \in JobSet
  /\ archive' \in IF job'.same THEN {app} ELSE AppSet \cup {Missing}
  /\ verdict' = "unknown" /\ exit' = 1
  /\ sound' = (app # Missing /\ app.whole)
  /\ UNCHANGED <<app, phone>>

\* What this run has made of a file that is there; nothing is ever missing from it that was
\* not missing before.
Made(state, x) == [state |-> state, run |-> run, whole |-> x.whole]

\* A copy may be worked on without anything being seen of it.
Work ==
  /\ phase = "work" /\ verdict = "unknown"
  /\ verdict' \in {"unknown", "signed", "unsigned"}
  /\ IF job.copy THEN app' = app
     ELSE /\ app # Missing
          /\ app' \in IF verdict' = "signed" THEN {Made("signed", app)} ELSE {app, Made("edited", app)}
  /\ archive' = IF job.same THEN app' ELSE archive
  /\ UNCHANGED <<job, phone, phase, exit, run, sound>>

\* The program that makes the copy is killed, which the command takes for success.
CopyCut ==
  /\ phase = "work" /\ verdict = "unknown" /\ job.copy
  /\ sound' = FALSE
  /\ UNCHANGED <<job, app, archive, phone, verdict, phase, exit, run>>

\* The archive that was there goes. The new one comes at once: it is signed by this run if
\* that was the verdict and only then, and whole if the application was and is.
Withdraw ==
  /\ phase = "work" /\ verdict # "unknown" /\ job.archive
  /\ phase' = "withdrawn"
  /\ archive' = Missing
  /\ app' = IF job.same THEN Missing ELSE app
  /\ UNCHANGED <<job, phone, verdict, exit, run, sound>>
Publish ==
  /\ phase = "withdrawn" /\ phase' = "published"
  /\ archive' \in AppSet
  /\ verdict = "signed" <=> archive'.state = "signed" /\ archive'.run = run
  /\ sound => archive'.whole
  /\ app' = IF job.same THEN archive' ELSE app
  /\ UNCHANGED <<job, phone, verdict, exit, run, sound>>

\* Signing is over and the archive, if one can be made, is there.
Through == verdict # "unknown" /\ phase = IF job.archive THEN "published" ELSE "work"

\* Where no archive can be made, what lies at its place is installed.
Install ==
  /\ Through /\ verdict = "signed" /\ archive # Missing
  /\ phone' = archive
  /\ UNCHANGED <<job, app, archive, verdict, phase, exit, run, sound>>

\* Only what has the path of a temporary file goes in the end; a command never removes
\* another archive it has made, nor the application it was given.
DiscardArchive ==
  /\ Through /\ job.tempArchive
  /\ archive' = Missing
  /\ app' = IF job.same THEN Missing ELSE app
  /\ UNCHANGED <<job, phone, verdict, phase, exit, run, sound>>
DiscardFolder ==
  /\ Through /\ job.tempFolder /\ ~job.copy
  /\ app' = Missing
  /\ UNCHANGED <<job, archive, phone, verdict, phase, exit, run, sound>>

\* The exit code: 0 for a bundle exactly if it was signed and archived, and for every single
\* file that could be opened; -1 otherwise; 1 if the command was killed.
Finish ==
  /\ phase # "idle" /\ phase' = "idle"
  /\ exit' \in {0, -1, 1}
  /\ exit' = 0 => (Through /\ verdict = "signed") \/ ~job.bundle
  /\ exit' = -1 => ~(Through /\ verdict = "signed")
  /\ UNCHANGED <<job, app, archive, phone, verdict, run, sound>>

Next == \/ Begin \/ Work \/ CopyCut \/ Withdraw \/ Publish \/ Install
        \/ DiscardArchive \/ DiscardFolder \/ Finish

Spec == Init /\ [][Next]_vars
==============================================================================
