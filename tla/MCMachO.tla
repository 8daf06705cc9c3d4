------------------------------- MODULE MCMachO -------------------------------
(***************************************************************************)
(* Command lines to sign thin and fat files with, for MachO.               *)
(***************************************************************************)
EXTENDS MachO

CommandLine(f, i, w, s, n) ==
  [force |-> f, inject |-> i, weak |-> w, single |-> s, need |-> n]

\* Assets whose signature fits what a builder leaves, needs a reallocation, never fits;
\* with and without an injection, which may change the type of an earlier one.
MixedOptions ==
  {CommandLine(FALSE, FALSE, FALSE, FALSE, 1), CommandLine(TRUE, FALSE, FALSE, FALSE, 2),
   CommandLine(FALSE, TRUE, FALSE, FALSE, 2), CommandLine(TRUE, TRUE, TRUE, TRUE, 1),
   CommandLine(FALSE, FALSE, FALSE, TRUE, 3)}
\* -s, with and without -l.
SingleOptions == {CommandLine(FALSE, i, FALSE, TRUE, 1) : i \in BOOLEAN}
\* A dylib to inject, or not; a signature that needs a reallocation.
InjectOptions == {CommandLine(TRUE, i, FALSE, FALSE, 2) : i \in BOOLEAN}
\* A thin file is signed three times, a fat one twice.
ThinThrice == [n \in Lengths |-> IF n = 1 THEN 3 ELSE 2]
OnceOrTwice == [n \in Lengths |-> n]
==============================================================================
