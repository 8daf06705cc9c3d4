------------------------------- MODULE MCSlice -------------------------------
(***************************************************************************)
(* Binaries, assets and command lines for Slice.                           *)
(***************************************************************************)
EXTENDS Slice

MCPathLength == [d \in Dylibs |-> IF d = "short" THEN 12 ELSE 32]

Asset(cn, team, ents, only256, known) ==
  [cn |-> cn, team |-> team, ents |-> ents, der |-> ents \div 2, cms |-> 4800,
   adhoc |-> team = 0, sha256Only |-> only256, known |-> known]
Developer == Asset(41, 10, 500, FALSE, TRUE)
MCAssets ==
  {Developer, Asset(41, 10, 500, TRUE, TRUE), Asset(41, 10, 500, FALSE, FALSE),
   Asset(41, 10, 20000, FALSE, TRUE), Asset(0, 0, 0, FALSE, FALSE)}

Line(dylibs, weak, force, sign, a) ==
  [dylibs |-> dylibs, weak |-> weak, force |-> force, sign |-> sign, asset |-> a]
MCOptions ==
  {Line(<< >>, FALSE, f, TRUE, a) : f \in BOOLEAN, a \in MCAssets}
    \cup {Line(<<"long">>, w, w, TRUE, Developer) : w \in BOOLEAN}
    \cup {Line(<<"short", "long">>, FALSE, FALSE, FALSE, Developer)}
SpaceOptions == {Line(<<"short", "long">>, FALSE, TRUE, TRUE, Developer)}

\* Signatures of other signers: a modern one has SHA-256 in its only directory.
Elsewhere(code, area, form, x) ==
  LET j == [asset |-> [Developer EXCEPT !.sha256Only = form = "modern"], ident |-> Ident,
            execute |-> x, info |-> Empty, res |-> Empty, code |-> code, pages |-> << >>]
      s == BuildCodeSignature(j, TRUE, None)
  IN  IF form = "none" \/ s.size > area THEN None ELSE s

Signable(code, area, free, form, x) ==
  [length |-> code + area, header |-> 1000, text |-> IF free < 0 THEN 0 ELSE 1000 + free,
   linkedit |-> code + area, command |-> TRUE, dataoff |-> code, datasize |-> area,
   execute |-> x, loads |-> [d \in Dylibs |-> "none"], signature |-> Elsewhere(code, area, form, x)]
\* Without LC_CODE_SIGNATURE; with or without __LINKEDIT.
Plain(length, free, linkedit) ==
  [length |-> length, header |-> 1000, text |-> 1000 + free,
   linkedit |-> IF linkedit THEN length ELSE 0, command |-> FALSE, dataoff |-> 0,
   datasize |-> 0, execute |-> TRUE, loads |-> [d \in Dylibs |-> "none"], signature |-> None]

Small == 3 * PageSize + 16
Large == 700 * PageSize
MCBinaries ==
  {Signable(c, a, f, s, x) : c \in {Small, Large}, a \in {64, 20000, 70000},
                             f \in {-1, 40, 400}, s \in {"none", "classic", "modern"},
                             x \in BOOLEAN}
    \cup {Plain(Small + 5, f, l) : f \in {0, 8, 400}, l \in BOOLEAN}
SpaceBinaries == {Signable(Small, 20000, f, "classic", TRUE) : f \in {40, 64, 400}}
==============================================================================
