----------------------------- MODULE DriverProofs -----------------------------
(***************************************************************************)
(* Driver for every set of credentials and command lines, every selection  *)
(* of faults and every number of commands: types, temporary files, the     *)
(* certificate that signs, and that every step of main is one that the     *)
(* user was promised in Command.                                           *)
(***************************************************************************)
EXTENDS Driver, SequenceTheorems, WellFoundedInduction, TLAPS

(***************************************************************************)
(* The types.                                                              *)
(***************************************************************************)

\* What a signer leaves, whether or not it signed.
LEMMA OutcomesOfAnApp ==
  ASSUME runs \in 0 .. MaxRuns, NEW app \in AppSet, NEW s \in Outcomes(app)
  PROVE  /\ s[1] \in {"signed", "unsigned"}
         /\ s[2] \in {app, Made("signed", app), Made("edited", app)}
         /\ s[2] \in AppSet /\ s[2].whole = app.whole
         /\ s[2].run <= runs \/ s[2] = app
         /\ s[1] = "signed" => s[2] = Made("signed", app) /\ SignedNow(s[2])
         /\ s[1] # "signed" /\ ~SignedNow(app) => ~SignedNow(s[2])
         /\ s[1] # "signed" => s[2] \in {app, Made("edited", app)}
<1>1. runs \in Int /\ runs <= runs
  OBVIOUS
<1>2. /\ Made("signed", app) \in AppSet /\ Made("edited", app) \in AppSet
      /\ Made("signed", app).whole = app.whole /\ Made("edited", app).whole = app.whole
      /\ Made("signed", app).run = runs /\ Made("edited", app).run = runs
      /\ SignedNow(Made("signed", app)) /\ ~SignedNow(Made("edited", app))
  BY DEF AppSet, Made, SignedNow
<1>3. s \in {<<"signed", Made("signed", app)>>, <<"unsigned", app>>, <<"unsigned", Made("edited", app)>>}
  BY DEF Outcomes
<1> QED BY <1>1, <1>2, <1>3

\* What this run makes of an application, or unzip leaves of it, is one.
LEMMA MadeIsAnApp ==
  ASSUME TypeOK, NEW app \in AppSet, NEW state \in {"edited", "signed"}
  PROVE  /\ Made(state, app) \in AppSet /\ Made(state, app).whole = app.whole
         /\ Made(state, app).run = runs
         /\ SignedNow(Made(state, app)) <=> state = "signed"
BY DEF TypeOK, AppSet, Made, SignedNow

LEMMA CutIsAnApp ==
  ASSUME NEW app \in AppSet
  PROVE  /\ [app EXCEPT !.whole = FALSE] \in AppSet
         /\ SignedNow([app EXCEPT !.whole = FALSE]) <=> SignedNow(app)
         /\ [app EXCEPT !.whole = FALSE].run = app.run
BY DEF AppSet, SignedNow

LEMMA RunIsARun ==
  ASSUME TypeOK, pc # "idle"
  PROVE  runs \in Runs /\ runs \in Int
  BY DriverAssumption DEF TypeOK, Runs

\* The same of SignFolder, which need not find anything to sign.
LEMMA OutcomesOfSignFolder ==
  ASSUME TypeOK, CommandInv, SignFolder
  PROVE  /\ runs \in Runs
         /\ ok' \in {"signed", "unsigned"}
         /\ place' \in {"none", "root", "elsewhere", "Payload"}
         /\ (place' = "root") <=> (kind = "root")
         /\ ok' = "signed" => App \in AppSet /\ App' = Made("signed", App) /\ SignedNow(App')
         /\ ok' # "signed" => /\ App' = App \/ (App \in AppSet /\ App' = Made("edited", App))
                              /\ App' # Missing => ~SignedNow(App')
         /\ place' # "none" => App' \in AppSet
         /\ App \in AppSet => App' \in AppSet /\ App'.whole = App.whole
         /\ App' \in AppSet \cup {Missing}
         /\ IF InCopy THEN folder' = [folder EXCEPT ![runs] = App'] /\ UNCHANGED input
                      ELSE input' = App' /\ UNCHANGED folder
<1>1. pc = "sign" /\ runs \in Runs /\ runs \in 0 .. MaxRuns /\ UNCHANGED <<kind, runs>>
  BY RunIsARun DEF SignFolder, TypeOK
<1>2. PICK s \in IF place' = "none" THEN {<<"unsigned", App>>} ELSE Outcomes(App) :
        /\ ok' = s[1]
        /\ IF InCopy THEN folder' = [folder EXCEPT ![runs] = s[2]] /\ UNCHANGED input
                     ELSE input' = s[2] /\ UNCHANGED folder
  BY DEF SignFolder
<1>3. App' = s[2]
  BY <1>1, <1>2 DEF App, InCopy, TypeOK
<1>4. App \in AppSet \cup {Missing}
  BY <1>1 DEF App, InCopy, TypeOK
<1>5. App # Missing => ~SignedNow(App)
  BY <1>1 DEF CommandInv, Dated
<1>6. place' # "none" => App \in AppSet
  BY <1>4 DEF SignFolder
<1>7. (place' = "root") <=> (kind = "root")
  <2>1. kind = "root" => App \in AppSet
    BY <1>1 DEF CommandInv, InHand, InCopy, Archives, App
  <2>2. App = Missing => place' = "none"
    BY DEF SignFolder
  <2>3. App # Missing => place' \in Places(App)
    BY DEF SignFolder
  <2> QED BY <2>1, <2>2, <2>3, DriverAssumption, <1>4 DEF Places
<1>8. place' \in {"none", "root", "elsewhere", "Payload"}
  BY DEF SignFolder, Places
<1>9. CASE place' = "none"
  BY <1>1, <1>2, <1>3, <1>4, <1>5, <1>7, <1>8, <1>9
<1>10. CASE place' # "none"
  <2>1. App \in AppSet /\ s \in Outcomes(App) /\ App # Missing
    BY <1>2, <1>6, <1>10 DEF SignFolder
  <2>2. /\ s[1] \in {"signed", "unsigned"}
        /\ s[2] \in {App, Made("signed", App), Made("edited", App)}
        /\ s[2] \in AppSet /\ s[2].whole = App.whole
        /\ s[1] = "signed" => s[2] = Made("signed", App) /\ SignedNow(s[2])
        /\ s[1] # "signed" /\ ~SignedNow(App) => ~SignedNow(s[2])
        /\ s[1] # "signed" => s[2] \in {App, Made("edited", App)}
    BY <1>1, <2>1, OutcomesOfAnApp
  <2>3. SignedNow(App') <=> SignedNow(s[2])
    BY <1>1, <1>3 DEF SignedNow
  <2> QED BY <1>1, <1>2, <1>3, <1>5, <1>7, <1>8, <1>10, <2>1, <2>2, <2>3
<1> QED BY <1>9, <1>10

\* The archive's place keeps its type.
LEMMA TargetHasType ==
  ASSUME TypeOK
  PROVE  Target \in AppSet \cup {Missing}
<1>1. runs # 0 => runs \in Runs
  BY DriverAssumption DEF TypeOK, Runs
<1>2. opt.output \in {"none", "input"} \cup Files
  BY DriverAssumption DEF TypeOK, OptionSet
<1> QED BY <1>1, <1>2 DEF TypeOK, Target, Overwrites

LEMMA PutTargetHasType ==
  ASSUME TypeOK, pc # "idle", NEW x \in AppSet \cup {Missing}, PutTarget(x)
  PROVE  /\ input' \in AppSet \cup {Missing} /\ out' \in [Files -> AppSet \cup {Missing}]
         /\ temp' \in [Runs -> AppSet \cup {Missing}]
         /\ input' = IF Overwrites THEN x ELSE input
         /\ temp' = IF opt.output = "none" THEN [temp EXCEPT ![runs] = x] ELSE temp
<1>1. opt.output \in {"none", "input"} \cup Files
  BY DriverAssumption DEF TypeOK, OptionSet
<1> QED BY <1>1 DEF TypeOK, PutTarget, Overwrites

\* Every step keeps the types.
LEMMA TypesKept ==
  ASSUME TypeOK, CommandInv, [Next]_vars
  PROVE  TypeOK'
<1> USE DriverAssumption DEF TypeOK, InCopy, Archives
<1>1. CASE UNCHANGED vars
  BY <1>1 DEF vars
<1>2. ASSUME NEW o \in Options, Start(o)
      PROVE  TypeOK'
  <2>1. runs' \in 0 .. MaxRuns /\ runs' > 0
    BY <1>2 DEF Start
  <2> QED BY <1>2, <2>1 DEF Start
<1>3. CASE Look
  BY <1>3 DEF Look, Exits
<1>4. CASE Inject
  <2>1. Made("edited", input) \in AppSet
    BY <1>4, MadeIsAnApp DEF Inject, CommandInv, InHand, Opening
  <2> QED BY <1>4, <2>1 DEF Inject
<1>5. CASE Injected
  BY <1>5 DEF Injected, Exits
<1>6. CASE LoadAsset
  BY <1>6 DEF LoadAsset, Exits
<1>7. CASE SignSingle
  <2>1. input \in AppSet
    BY <1>7 DEF SignSingle, CommandInv, InHand, Opening
  <2>2. PICK s \in Outcomes(input) : ok' = s[1] /\ input' = s[2]
    BY <1>7 DEF SignSingle
  <2>3. s[1] \in {"signed", "unsigned"} /\ s[2] \in AppSet
    BY <2>1, <2>2, OutcomesOfAnApp
  <2> QED BY <1>7, <2>2, <2>3 DEF SignSingle
<1>8. CASE FreeSingle
  BY <1>8 DEF FreeSingle, Exits
<1>9. CASE Unzip
  BY <1>9, RunIsARun DEF Unzip, CommandInv, InHand, Opening
<1>10. CASE UnzipFails
  BY <1>10 DEF UnzipFails, Exits
<1>11. CASE SignFolder
  <2>1. /\ ok' \in {"signed", "unsigned"}
        /\ place' \in {"none", "root", "elsewhere", "Payload"}
        /\ App' \in AppSet \cup {Missing}
        /\ IF InCopy THEN folder' = [folder EXCEPT ![runs] = App'] /\ UNCHANGED input
                     ELSE input' = App' /\ UNCHANGED folder
    BY <1>11, OutcomesOfSignFolder
  <2> QED BY <1>11, <2>1 DEF SignFolder
<1>12. CASE Archive
  BY <1>12, PutTargetHasType DEF Archive, Exits
<1>13. CASE ZipFolder
  BY <1>13, PutTargetHasType DEF ZipFolder, CommandInv, InHand, Route
<1>14. CASE ZipFails
  BY <1>14 DEF ZipFails, Exits
<1>15. CASE Install
  BY <1>15, TargetHasType DEF Install
<1>16. CASE CleanTemp
  BY <1>16, PutTargetHasType DEF CleanTemp
<1>17. CASE CleanFolder
  BY <1>17 DEF CleanFolder, Exits
<1>18. CASE Kill
  BY <1>18 DEF Kill, Exits
<1>19. CASE UnzipKilled
  BY <1>19, RunIsARun, CutIsAnApp DEF UnzipKilled, CommandInv, InHand, Opening
<1>20. CASE Return
  BY <1>20 DEF Return, Exits
<1> QED BY <1>1, <1>2, <1>3, <1>4, <1>5, <1>6, <1>7, <1>8, <1>9, <1>10, <1>11, <1>12, <1>13,
           <1>14, <1>15, <1>16, <1>17, <1>18, <1>19, <1>20 DEF Next, Step

\* The way through main stays the one of the path's kind.
LEMMA RouteKept ==
  ASSUME TypeOK, CommandInv, [Next]_vars
  PROVE  Route'
<1> USE DEF TypeOK, CommandInv, Route, InCopy, Archives, Bundled, Wanted, Opening
<1>1. CASE UNCHANGED vars
  BY <1>1 DEF vars
<1>2. ASSUME NEW o \in Options, Start(o)
      PROVE  Route'
  BY <1>2 DEF Start
<1>3. CASE Look
  BY <1>3 DEF Look, Exits
<1>4. CASE Inject
  BY <1>4 DEF Inject, Exits
<1>5. CASE Injected
  BY <1>5 DEF Injected, Exits
<1>6. CASE LoadAsset
  BY <1>6 DEF LoadAsset, Exits
<1>7. CASE SignSingle
  BY <1>7 DEF SignSingle, Exits
<1>8. CASE FreeSingle
  BY <1>8 DEF FreeSingle, Exits
<1>9. CASE Unzip
  BY <1>9 DEF Unzip, Exits
<1>10. CASE UnzipFails
  BY <1>10 DEF UnzipFails, Exits
<1>11. CASE SignFolder
  BY <1>11, OutcomesOfSignFolder DEF SignFolder
<1>12. CASE Archive
  BY <1>12 DEF Archive, Exits, NoPayload
<1>13. CASE ZipFolder
  BY <1>13 DEF ZipFolder, Exits
<1>14. CASE ZipFails
  BY <1>14 DEF ZipFails, Exits
<1>15. CASE Install
  BY <1>15 DEF Install, Exits
<1>16. CASE CleanTemp
  BY <1>16 DEF CleanTemp, Exits
<1>17. CASE CleanFolder
  BY <1>17 DEF CleanFolder, Exits
<1>18. CASE Kill
  BY <1>18 DEF Kill, Exits
<1>19. CASE UnzipKilled
  BY <1>19 DEF UnzipKilled, Exits
<1>20. CASE Return
  BY <1>20 DEF Return, Exits
<1> QED BY <1>1, <1>2, <1>3, <1>4, <1>5, <1>6, <1>7, <1>8, <1>9, <1>10, <1>11, <1>12, <1>13,
           <1>14, <1>15, <1>16, <1>17, <1>18, <1>19, <1>20 DEF Next, Step

\* No step makes temporary files of another run, or its own out of turn.
LEMMA TracesKept ==
  ASSUME TypeOK, CommandInv, [Next]_vars
  PROVE  Traces'
<1> USE DEF TypeOK, CommandInv, Traces, Opening, InCopy, Archives
<1>1. CASE UNCHANGED vars
  BY <1>1 DEF vars
<1>2. ASSUME NEW o \in Options, Start(o)
      PROVE  Traces'
  <2>1. runs \in Int /\ \A r \in Runs : r \in Int
    BY DEF Runs
  <2>2. runs' = runs + 1 /\ runs' \in Runs
    BY <1>2, <2>1, DriverAssumption DEF Start, Runs
  <2>3. \A r \in Runs : r > runs' => r > runs
    BY <2>1, <2>2
  <2>4. runs' > runs
    BY <2>1, <2>2
  <2> QED BY <1>2, <2>2, <2>3, <2>4 DEF Start
<1>3. CASE Look
  BY <1>3 DEF Look, Exits
<1>4. CASE Inject
  BY <1>4 DEF Inject, Exits
<1>5. CASE Injected
  BY <1>5 DEF Injected, Exits
<1>6. CASE LoadAsset
  BY <1>6 DEF LoadAsset, Exits
<1>7. CASE SignSingle
  BY <1>7 DEF SignSingle, Exits
<1>8. CASE FreeSingle
  BY <1>8 DEF FreeSingle, Exits
<1>9. CASE Unzip
  BY <1>9 DEF Unzip, Route
<1>10. CASE UnzipFails
  BY <1>10 DEF UnzipFails, Exits
<1>11. CASE SignFolder
  BY <1>11 DEF SignFolder, Exits
<1>12. CASE Archive
  BY <1>12 DEF Archive, Exits, PutTarget, Progress
<1>13. CASE ZipFolder
  BY <1>13 DEF ZipFolder, PutTarget, Progress
<1>14. CASE ZipFails
  BY <1>14 DEF ZipFails, Exits
<1>15. CASE Install
  BY <1>15 DEF Install, Exits
<1>16. CASE CleanTemp
  <2>1. runs \in Runs /\ runs \in Int
    BY <1>16, RunIsARun DEF CleanTemp
  <2>2. temp' = IF TempArchive /\ opt.output = "none" THEN [temp EXCEPT ![runs] = Missing] ELSE temp
    BY <1>16, PutTargetHasType DEF CleanTemp
  <2> QED BY <1>16, <2>1, <2>2 DEF CleanTemp, TempArchive
<1>17. CASE CleanFolder
  BY <1>17, RunIsARun DEF CleanFolder
<1>18. CASE Kill
  BY <1>18 DEF Kill, Exits
<1>19. CASE UnzipKilled
  BY <1>19 DEF UnzipKilled, Route
<1>20. CASE Return
  BY <1>20 DEF Return, Exits
<1> QED BY <1>1, <1>2, <1>3, <1>4, <1>5, <1>6, <1>7, <1>8, <1>9, <1>10, <1>11, <1>12, <1>13,
           <1>14, <1>15, <1>16, <1>17, <1>18, <1>19, <1>20 DEF Next, Step

\* What is signed and archived is an application, and the one that was signed.
LEMMA InHandKept ==
  ASSUME TypeOK, CommandInv, [Next]_vars
  PROVE  InHand'
<1> USE DriverAssumption DEF TypeOK, CommandInv, InHand, Opening, InCopy, Archives, Whole, SignedNow
<1>1. CASE UNCHANGED vars
  BY <1>1 DEF vars, App
<1>2. ASSUME NEW o \in Options, Start(o)
      PROVE  InHand'
  BY <1>2 DEF Start
<1>3. CASE Look
  BY <1>3 DEF Look, Exits, Dated
<1>4. CASE Inject
  <2>1. Made("edited", input) \in AppSet /\ Made("edited", input).whole = input.whole
    BY <1>4, MadeIsAnApp DEF Inject
  <2> QED BY <1>4, <2>1 DEF Inject
<1>5. CASE Injected
  BY <1>5 DEF Injected, Exits
<1>6. CASE LoadAsset
  BY <1>6 DEF LoadAsset, Exits, App
<1>7. CASE SignSingle
  BY <1>7 DEF SignSingle
<1>8. CASE FreeSingle
  BY <1>8 DEF FreeSingle, Exits
<1>9. CASE Unzip
  BY <1>9, RunIsARun DEF Unzip, Route, App
<1>10. CASE UnzipFails
  BY <1>10 DEF UnzipFails, Exits
<1>11. CASE SignFolder
  <2>1. /\ ok' \in {"signed", "unsigned"}
        /\ ok' = "signed" => App \in AppSet /\ App' \in AppSet /\ SignedNow(App')
        /\ ok' # "signed" => (App' # Missing => ~SignedNow(App'))
        /\ place' # "none" => App' \in AppSet
        /\ App \in AppSet => App' \in AppSet /\ App'.whole = App.whole
    BY <1>11, OutcomesOfSignFolder
  <2> QED BY <1>11, <2>1 DEF SignFolder
<1>12. CASE Archive
  <2>1. pc = "archive" /\ pc' \in {"idle", "install", "zip"} /\ UNCHANGED <<kind, folder, runs, sound, place, ok>>
    BY <1>12 DEF Archive, Exits
  <2>2. CASE pc' # "zip"
    BY <2>1, <2>2
  <2>3. CASE pc' = "zip"
    <3>1. PutTarget(Missing)
      BY <1>12, <2>3 DEF Archive, Exits
    <3>2. ~InCopy => ~Overwrites
      BY <2>1 DEF Route, Overwrites
    <3>3. App' = App
      BY <1>12, <2>1, <3>1, <3>2, PutTargetHasType DEF App, Archive
    <3> QED BY <2>1, <2>3, <3>3
  <2> QED BY <2>2, <2>3
<1>13. CASE ZipFolder
  BY <1>13 DEF ZipFolder
<1>14. CASE ZipFails
  BY <1>14 DEF ZipFails, Exits
<1>15. CASE Install
  BY <1>15 DEF Install, Exits
<1>16. CASE CleanTemp
  BY <1>16 DEF CleanTemp, Exits
<1>17. CASE CleanFolder
  BY <1>17 DEF CleanFolder, Exits
<1>18. CASE Kill
  BY <1>18 DEF Kill, Exits
<1>19. CASE UnzipKilled
  BY <1>19, RunIsARun DEF UnzipKilled, Route
<1>20. CASE Return
  BY <1>20 DEF Return, Exits
<1> QED BY <1>1, <1>2, <1>3, <1>4, <1>5, <1>6, <1>7, <1>8, <1>9, <1>10, <1>11, <1>12, <1>13,
           <1>14, <1>15, <1>16, <1>17, <1>18, <1>19, <1>20 DEF Next, Step

\* What a run finds was not signed by it, nor by a later one.
LEMMA DatedKept ==
  ASSUME TypeOK, CommandInv, [Next]_vars
  PROVE  Dated'
<1> USE DriverAssumption DEF TypeOK, CommandInv, Dated, Opening, InCopy, Archives
<1>0. runs \in Int /\ \A x \in AppSet : x.run \in Int
  BY DEF AppSet
<1>1. CASE UNCHANGED vars
  BY <1>1 DEF vars, App, SignedNow
<1>2. ASSUME NEW o \in Options, Start(o)
      PROVE  Dated'
  <2>1. runs' = runs + 1 /\ input' = input /\ pc' = "look"
    BY <1>2 DEF Start
  <2>2. input # Missing => input.run <= runs /\ input.run \in Int
    BY <1>0
  <2>3. input # Missing => input.run < runs' /\ input.run <= runs' /\ input.run # runs'
    BY <1>0, <2>1, <2>2
  <2> QED BY <2>1, <2>3 DEF SignedNow
<1>3. CASE Look
  BY <1>3 DEF Look, Exits, SignedNow
<1>4. CASE Inject
  <2>1. Made("edited", input).run = runs /\ ~SignedNow(Made("edited", input))
    BY <1>4, MadeIsAnApp DEF Inject, InHand
  <2> QED BY <1>0, <1>4, <2>1 DEF Inject, SignedNow
<1>5. CASE Injected
  BY <1>5 DEF Injected, Exits, SignedNow
<1>6. CASE LoadAsset
  <2>1. pc' = "sign" => ~InCopy
    BY <1>6 DEF LoadAsset, Exits
  <2> QED BY <1>6, <2>1 DEF LoadAsset, Exits, SignedNow, App
<1>7. CASE SignSingle
  <2>1. input \in AppSet
    BY <1>7 DEF SignSingle, InHand
  <2>2. PICK x \in Outcomes(input) : input' = x[2]
    BY <1>7 DEF SignSingle
  <2>3. x[2] = input \/ x[2].run = runs
    BY <2>1, <2>2, MadeIsAnApp, OutcomesOfAnApp
  <2> QED BY <1>0, <1>7, <2>1, <2>2, <2>3 DEF SignSingle
<1>8. CASE FreeSingle
  BY <1>8 DEF FreeSingle, Exits
<1>9. CASE Unzip
  <2>1. runs \in Runs /\ InCopy
    BY <1>9, RunIsARun DEF Unzip, Route
  <2> QED BY <1>9, <2>1 DEF Unzip, SignedNow, App
<1>10. CASE UnzipFails
  BY <1>10 DEF UnzipFails, Exits
<1>11. CASE SignFolder
  <2>1. /\ App' # Missing => App' = App \/ (App \in AppSet /\ App' \in {Made("signed", App), Made("edited", App)})
        /\ IF InCopy THEN UNCHANGED input ELSE input' = App'
    BY <1>11, OutcomesOfSignFolder
  <2>2. App \in AppSet => Made("signed", App).run = runs /\ Made("edited", App).run = runs
    BY MadeIsAnApp
  <2>3. ~InCopy => App = input
    BY DEF App
  <2> QED BY <1>0, <1>11, <2>1, <2>2, <2>3 DEF SignFolder
<1>12. CASE Archive
  <2>1. input' \in {input, Missing} /\ UNCHANGED <<kind, folder, runs>> /\ pc' \in {"idle", "install", "zip"}
    BY <1>12, PutTargetHasType DEF Archive, Exits
  <2>2. App' # Missing => App' = App
    BY <2>1 DEF App
  <2> QED BY <1>12, <2>1, <2>2 DEF Archive
<1>13. CASE ZipFolder
  <2>1. App \in AppSet
    BY <1>13 DEF ZipFolder, InHand, Route
  <2>2. input' \in {input, App}
    BY <1>13, <2>1, PutTargetHasType DEF ZipFolder
  <2>3. App.run \in 0 .. MaxRuns
    BY <2>1 DEF AppSet
  <2>4. App.run <= runs
    BY <1>13, <2>1 DEF ZipFolder
  <2> QED BY <1>13, <2>2, <2>4 DEF ZipFolder
<1>14. CASE ZipFails
  BY <1>14 DEF ZipFails, Exits
<1>15. CASE Install
  BY <1>15 DEF Install, Exits
<1>16. CASE CleanTemp
  <2>1. input' \in {input, Missing}
    BY <1>16, PutTargetHasType DEF CleanTemp
  <2> QED BY <1>16, <2>1 DEF CleanTemp
<1>17. CASE CleanFolder
  BY <1>17 DEF CleanFolder, Exits
<1>18. CASE Kill
  BY <1>18 DEF Kill, Exits
<1>19. CASE UnzipKilled
  <2>1. runs \in Runs /\ InCopy /\ input \in AppSet
    BY <1>19, RunIsARun DEF UnzipKilled, Route, InHand
  <2>2. ~SignedNow([input EXCEPT !.whole = FALSE]) /\ [input EXCEPT !.whole = FALSE].run = input.run
        /\ input # Missing
    BY <1>19, <2>1, CutIsAnApp DEF UnzipKilled
  <2> QED BY <1>19, <2>1, <2>2 DEF UnzipKilled, SignedNow, App
<1>20. CASE Return
  BY <1>20 DEF Return, Exits
<1> QED BY <1>1, <1>2, <1>3, <1>4, <1>5, <1>6, <1>7, <1>8, <1>9, <1>10, <1>11, <1>12, <1>13,
           <1>14, <1>15, <1>16, <1>17, <1>18, <1>19, <1>20 DEF Next, Step

\* The verdict and the archive come in their order.
LEMMA ProgressKept ==
  ASSUME TypeOK, CommandInv, [Next]_vars
  PROVE  Progress'
<1> USE DEF TypeOK, CommandInv, Progress, Opening, InCopy, Wanted
<1>1. CASE UNCHANGED vars
  BY <1>1 DEF vars
<1>2. ASSUME NEW o \in Options, Start(o)
      PROVE  Progress'
  BY <1>2 DEF Start
<1>3. CASE Look
  BY <1>3 DEF Look, Exits
<1>4. CASE Inject
  BY <1>4 DEF Inject, Exits
<1>5. CASE Injected
  BY <1>5 DEF Injected, Exits
<1>6. CASE LoadAsset
  BY <1>6 DEF LoadAsset, Exits
<1>7. CASE SignSingle
  BY <1>7 DEF SignSingle, Exits
<1>8. CASE FreeSingle
  BY <1>8 DEF FreeSingle, Exits
<1>9. CASE Unzip
  BY <1>9 DEF Unzip, Exits
<1>10. CASE UnzipFails
  BY <1>10 DEF UnzipFails, Exits
<1>11. CASE SignFolder
  <2>1. ok' \in {"signed", "unsigned"}
    BY <1>11, OutcomesOfSignFolder
  <2> QED BY <1>11, <2>1 DEF SignFolder
<1>12. CASE Archive
  BY <1>12 DEF Archive, Exits, NoPayload, Route, Bundled
<1>13. CASE ZipFolder
  BY <1>13 DEF ZipFolder, Route, Bundled
<1>14. CASE ZipFails
  BY <1>14 DEF ZipFails, Exits
<1>15. CASE Install
  BY <1>15 DEF Install, Exits
<1>16. CASE CleanTemp
  BY <1>16 DEF CleanTemp, Exits
<1>17. CASE CleanFolder
  BY <1>17 DEF CleanFolder, Exits
<1>18. CASE Kill
  BY <1>18 DEF Kill, Exits
<1>19. CASE UnzipKilled
  BY <1>19 DEF UnzipKilled, Exits
<1>20. CASE Return
  BY <1>20 DEF Return, Exits
<1> QED BY <1>1, <1>2, <1>3, <1>4, <1>5, <1>6, <1>7, <1>8, <1>9, <1>10, <1>11, <1>12, <1>13,
           <1>14, <1>15, <1>16, <1>17, <1>18, <1>19, <1>20 DEF Next, Step

\* The asset stays the one of the options.
LEMMA AssetKept ==
  ASSUME TypeOK, CommandInv, [Next]_vars
  PROVE  AssetInv'
<1> USE DEF TypeOK, CommandInv, AssetInv, Equipped, InCopy
<1>1. CASE UNCHANGED vars
  BY <1>1 DEF vars
<1>2. ASSUME NEW o \in Options, Start(o)
      PROVE  AssetInv'
  BY <1>2 DEF Start
<1>3. CASE Look
  BY <1>3 DEF Look, Exits
<1>4. CASE Inject
  BY <1>4 DEF Inject, Exits
<1>5. CASE Injected
  BY <1>5 DEF Injected, Exits
<1>6. CASE LoadAsset
  <2>1. CASE asset' = None
    BY <1>6, <2>1 DEF LoadAsset, Exits
  <2>2. CASE asset' # None
    BY <1>6, <2>2 DEF LoadAsset, Exits
  <2> QED BY <2>1, <2>2
<1>7. CASE SignSingle
  BY <1>7 DEF SignSingle, Exits
<1>8. CASE FreeSingle
  BY <1>8 DEF FreeSingle, Exits
<1>9. CASE Unzip
  BY <1>9 DEF Unzip, Exits
<1>10. CASE UnzipFails
  BY <1>10 DEF UnzipFails, Exits
<1>11. CASE SignFolder
  BY <1>11 DEF SignFolder, Exits
<1>12. CASE Archive
  BY <1>12 DEF Archive, Exits
<1>13. CASE ZipFolder
  BY <1>13 DEF ZipFolder, Exits
<1>14. CASE ZipFails
  BY <1>14 DEF ZipFails, Exits
<1>15. CASE Install
  BY <1>15 DEF Install, Exits
<1>16. CASE CleanTemp
  BY <1>16 DEF CleanTemp, Exits
<1>17. CASE CleanFolder
  BY <1>17 DEF CleanFolder, Exits
<1>18. CASE Kill
  BY <1>18 DEF Kill, Exits
<1>19. CASE UnzipKilled
  BY <1>19 DEF UnzipKilled, Exits
<1>20. CASE Return
  BY <1>20 DEF Return, Exits
<1> QED BY <1>1, <1>2, <1>3, <1>4, <1>5, <1>6, <1>7, <1>8, <1>9, <1>10, <1>11, <1>12, <1>13,
           <1>14, <1>15, <1>16, <1>17, <1>18, <1>19, <1>20 DEF Next, Step

\* A command that ends leaves none of its temporary files, with the two exceptions.
LEMMA TracesGone ==
  ASSUME TypeOK, CommandInv, [Next]_vars
  PROVE  LeavesNoTrace'
<1> USE DEF TypeOK, CommandInv, LeavesNoTrace, Traces, Opening, InCopy, Wanted
<1>1. CASE UNCHANGED vars
  BY <1>1 DEF vars
<1>2. ASSUME NEW o \in Options, Start(o)
      PROVE  LeavesNoTrace'
  BY <1>2 DEF Start
<1>3. CASE Look
  BY <1>3 DEF Look, Exits
<1>4. CASE Inject
  BY <1>4 DEF Inject, Exits
<1>5. CASE Injected
  BY <1>5 DEF Injected, Exits
<1>6. CASE LoadAsset
  BY <1>6 DEF LoadAsset, Exits
<1>7. CASE SignSingle
  BY <1>7 DEF SignSingle, Exits
<1>8. CASE FreeSingle
  BY <1>8 DEF FreeSingle, Exits
<1>9. CASE Unzip
  BY <1>9 DEF Unzip, Exits
<1>10. CASE UnzipFails
  BY <1>10 DEF UnzipFails, Exits
<1>11. CASE SignFolder
  BY <1>11 DEF SignFolder, Exits
<1>12. CASE Archive
  BY <1>12 DEF Archive, Exits, PutTarget, Progress
<1>13. CASE ZipFolder
  BY <1>13 DEF ZipFolder, PutTarget, Progress
<1>14. CASE ZipFails
  BY <1>14 DEF ZipFails, Exits, Progress, Route
<1>15. CASE Install
  BY <1>15 DEF Install, Exits
<1>16. CASE CleanTemp
  BY <1>16 DEF CleanTemp, Exits
<1>17. CASE CleanFolder
  <2>1. runs \in Runs
    BY <1>17, RunIsARun DEF CleanFolder
  <2> QED BY <1>17, <2>1 DEF CleanFolder, Exits
<1>18. CASE Kill
  BY <1>18 DEF Kill, Exits
<1>19. CASE UnzipKilled
  BY <1>19 DEF UnzipKilled, Exits
<1>20. CASE Return
  BY <1>20 DEF Return, Exits
<1> QED BY <1>1, <1>2, <1>3, <1>4, <1>5, <1>6, <1>7, <1>8, <1>9, <1>10, <1>11, <1>12, <1>13,
           <1>14, <1>15, <1>16, <1>17, <1>18, <1>19, <1>20 DEF Next, Step

\* The types and CommandInv are inductive.
LEMMA CommandInvInductive == Spec => [](TypeOK /\ CommandInv)
<1>1. Init => TypeOK /\ CommandInv
  <2> SUFFICES ASSUME Init PROVE TypeOK /\ CommandInv
    OBVIOUS
  <2> USE DriverAssumption DEF Init
  <2>1. Delivered \in AppSet
    BY DEF Delivered, AppSet
  <2>2. TypeOK
    <3>1. runs \in 0 .. MaxRuns
      OBVIOUS
    <3> QED BY <2>1, <3>1, Zenon DEF TypeOK
  <2>3. Route /\ Traces /\ InHand /\ Dated /\ Progress /\ AssetInv /\ LeavesNoTrace
    BY DEF Delivered, Route, Traces, InHand, Dated, Progress, AssetInv, LeavesNoTrace, Bundled, Opening, Equipped
  <2> QED BY <2>2, <2>3 DEF CommandInv
<1>2. TypeOK /\ CommandInv /\ [Next]_vars => (TypeOK /\ CommandInv)'
  <2> SUFFICES ASSUME TypeOK, CommandInv, [Next]_vars PROVE TypeOK' /\ CommandInv'
    OBVIOUS
  <2> QED BY TypesKept, RouteKept, TracesKept, InHandKept, DatedKept, ProgressKept, AssetKept, TracesGone
          DEF CommandInv
<1> QED BY <1>1, <1>2, PTL DEF Spec

\* TypeOK for every instance: among others, no step that needs the asset comes without one
\* (zsign.cpp:242-254).
THEOREM TypeCorrect == Spec => []TypeOK
BY CommandInvInductive, PTL

\* However a command ends, its own temporary folder and archive are gone, unless it was killed
\* or could not archive what it had unzipped, be that whole or not (zsign.cpp:266-333).
THEOREM NoTraceLeft == Spec => []LeavesNoTrace
<1>1. TypeOK /\ CommandInv => LeavesNoTrace
  BY DEF CommandInv
<1> QED BY <1>1, CommandInvInductive, PTL

(***************************************************************************)
(* The certificate that signs.                                             *)
(***************************************************************************)

\* A set of numbers that is not empty has a least one.
LEMMA LeastNumber ==
  ASSUME NEW S \in SUBSET Nat, S # {}
  PROVE  Min(S) \in S
<1>1. PICK x \in S : \A y \in S : ~(<<y, x>> \in OpToRel(<, Nat))
  BY NatLessThanWellFounded, WFMin
<1>2. OpToRel(<, Nat) = {ss \in Nat \X Nat : ss[1] < ss[2]}
  BY Zenon DEF OpToRel
<1>3. \A y \in S : ~(<<y, x>> \in {ss \in Nat \X Nat : ss[1] < ss[2]})
  BY Zenon, <1>1, <1>2
<1>4. \A y \in S : x <= y
  <2> TAKE y \in S
  <2>1. ~(y < x)
    BY <1>3
  <2> QED BY <2>1
<1> QED BY <1>4 DEF Min

\* The certificates of the profile that can be decoded and belong to the key.
ProfilePairs(c) == {x \in Range(c.prov.certs) \ {None} : x.key = c.pkey.key}

\* What is found in the profile is one of them, and there is one if it is not found.
LEMMA ListedBelongs ==
  ASSUME NEW c \in Credentials, c.prov # None
  PROVE  IF ProfilePairs(c) = {} THEN Listed(c) = None ELSE Listed(c) \in ProfilePairs(c)
<1> DEFINE certs == c.prov.certs
           fits == {i \in DOMAIN certs : certs[i] # None /\ certs[i].key = c.pkey.key}
<1>1. Listed(c) = IF fits = {} THEN None ELSE certs[Min(fits)]
  BY DEF Listed
<1>2. DOMAIN certs \subseteq Nat
  <2>1. certs \in Seq(Range(certs))
    BY DriverAssumption
  <2> QED BY <2>1, LenProperties
<1>3. ProfilePairs(c) = {certs[i] : i \in fits}
  BY DEF ProfilePairs, Range
<1>4. CASE fits = {}
  BY <1>1, <1>3, <1>4
<1>5. CASE fits # {}
  <2>1. Min(fits) \in fits
    BY <1>2, <1>5, LeastNumber
  <2> QED BY <1>1, <1>3, <1>5, <2>1
<1> QED BY <1>4, <1>5

\* The certificates of the key among the credentials.
PairsOf(c) ==
  {x \in ({c.pkey.cert, c.cert} \cup Range(c.prov.certs)) \ {None} : x.key = c.pkey.key}

\* Init finds a certificate of the key exactly if there is one.
LEMMA PairedBelongs ==
  ASSUME NEW c \in Credentials, c.prov # None, c.pkey # None
  PROVE  IF PairsOf(c) = {} THEN Paired(c) = None ELSE Paired(c) \in PairsOf(c) /\ Paired(c) # None
<1>1. c.pkey.cert = None \/ c.pkey.cert.key = c.pkey.key
  BY DriverAssumption
<1>2. Given(c) # None => Given(c) \in PairsOf(c)
  BY DEF Given, PairsOf
<1>3. Given(c) = None => PairsOf(c) = ProfilePairs(c)
  BY <1>1 DEF Given, PairsOf, ProfilePairs
<1>4. None \notin PairsOf(c)
  BY DEF PairsOf
<1>5. CASE Given(c) # None
  BY <1>2, <1>5 DEF Paired
<1>6. CASE Given(c) = None
  BY <1>3, <1>4, <1>6, ListedBelongs DEF Paired
<1> QED BY <1>5, <1>6

\* SignsWithPairedKey, whatever the files hold (openssl.cpp:602-705): AssetInv says that the
\* asset is the one of the options.
THEOREM SignerIsPaired == Spec => []SignsWithPairedKey
<1>1. TypeOK /\ AssetInv => SignsWithPairedKey
  <2> SUFFICES ASSUME TypeOK, AssetInv, ~opt.adhoc,
                      opt.creds.prov # None, opt.creds.pkey # None
               PROVE  /\ asset # None => asset.cert \in PairsOf(opt.creds) /\ asset.cert.name # None
                      /\ pc = "idle" /\ exit = -1 /\ asset = None /\ opt.creds.prov.team # None =>
                           \/ PairsOf(opt.creds) = {}
                           \/ \E x \in PairsOf(opt.creds) : x.name = None
                           \/ input = Missing \/ kind = "broken"
                           \/ (opt.single /\ opt.output # "none")
    BY DEF SignsWithPairedKey, PairsOf
  <2> DEFINE c == opt.creds
  <2>1. c \in Credentials
    BY DriverAssumption DEF TypeOK, OptionSet
  <2>2. InitAsset(opt.adhoc, opt.creds) = InitIdentity(c)
    BY DEF InitAsset
  <2>3. IF PairsOf(c) = {} THEN Paired(c) = None ELSE Paired(c) \in PairsOf(c) /\ Paired(c) # None
    BY <2>1, PairedBelongs
  <2>4. InitIdentity(c) # None =>
          /\ Paired(c) # None /\ Paired(c).name # None
          /\ InitIdentity(c).cert = Paired(c)
    BY DEF InitIdentity, Identity
  <2>5. asset # None => asset.cert \in PairsOf(c) /\ asset.cert.name # None
    BY <2>2, <2>3, <2>4 DEF AssetInv
  <2>6. ASSUME InitIdentity(c) = None, c.prov.team # None, PairsOf(c) # {}
        PROVE  \E x \in PairsOf(c) : x.name = None
    <3>1. Paired(c) \in PairsOf(c) /\ Paired(c) # None
      BY <2>3, <2>6
    <3>2. CASE Paired(c).name = None
      BY <3>1, <3>2
    <3>3. CASE Paired(c).name # None
      BY <2>1, <2>6, <3>1, <3>3, DriverAssumption DEF InitIdentity
    <3> QED BY <3>2, <3>3
  <2> QED BY <2>2, <2>5, <2>6 DEF AssetInv
<1> QED BY <1>1, CommandInvInductive, PTL DEF CommandInv

(***************************************************************************)
(* The promise: see Command.                                               *)
(***************************************************************************)
LEMMA PromiseInit ==
  ASSUME Init, TypeOK
  PROVE  Promise!Init
<1>1. Target \in AppSet \cup {Missing}
  BY TargetHasType
<1>2. [bundle |-> kind # "macho", copy |-> InCopy, same |-> Overwrites, archive |-> Wanted /\ kind # "root",
       tempArchive |-> TempArchive, tempFolder |-> kind = "leftfolder"] \in Promise!JobSet
  BY DEF Promise!JobSet, InCopy, Overwrites, Wanted, TempArchive
<1>3. Promise!AppSet = AppSet
  BY DEF Promise!AppSet, AppSet
<1> QED BY <1>1, <1>2, <1>3 DEF Init, TypeOK, Phase, Promise!Init

LEMMA TargetKeepsType ==
  ASSUME TypeOK'
  PROVE  Target' \in AppSet \cup {Missing}
<1>1. (TypeOK => Target \in AppSet \cup {Missing})'
  BY TargetHasType, PTL
<1> QED BY <1>1

\* What is put in the archive's place is there.
LEMMA TargetPut ==
  ASSUME TypeOK, pc # "idle", NEW x \in AppSet \cup {Missing}, PutTarget(x), UNCHANGED <<opt, runs>>
  PROVE  Target' = x /\ input' = IF Overwrites THEN x ELSE input
<1>1. opt.output \in {"none", "input"} \cup Files
  BY DriverAssumption DEF TypeOK, OptionSet
<1>2. runs \in Runs /\ runs # 0
  BY RunIsARun DEF TypeOK
<1> QED BY <1>1, <1>2 DEF TypeOK, PutTarget, Target, Overwrites

\* Signing is over and an archive that can be made is there.
CanArchive == Wanted /\ kind # "root"
IsThrough == ok # "unknown" /\ Phase = IF CanArchive THEN "published" ELSE "work"

LEMMA ThroughMeans == Promise!Through <=> IsThrough
BY DEF Promise!Through, IsThrough, CanArchive

\* What has to be shown of a step that ends a command.
LEMMA Finishes ==
  ASSUME Phase # "idle", pc' = "idle", exit' \in {0, -1, 1},
         exit' = 0 => (IsThrough /\ ok = "signed") \/ kind = "macho",
         exit' = -1 => ~(IsThrough /\ ok = "signed"),
         UNCHANGED <<kind, opt, input, out, temp, phone, ok, runs, sound>>
  PROVE  Promise!Next
<1>1. Phase' = "idle"
  BY DEF Phase
<1>2. Target' = Target
  BY DEF Target, Overwrites
<1>3. UNCHANGED <<InCopy, Wanted, Overwrites, TempArchive>>
  BY DEF InCopy, Wanted, Overwrites, TempArchive
<1>4. Promise!Finish
  BY <1>1, <1>2, <1>3, ThroughMeans, Zenon DEF Promise!Finish
<1> QED BY <1>4 DEF Promise!Next

\* A step that the user does not see.
LEMMA Unseen ==
  ASSUME UNCHANGED <<kind, opt, input, out, temp, phone, ok, runs, sound, exit>>, Phase' = Phase
  PROVE  UNCHANGED Promise!vars
<1>1. Target' = Target
  BY DEF Target, Overwrites
<1>2. UNCHANGED <<InCopy, Wanted, Overwrites, TempArchive>>
  BY DEF InCopy, Wanted, Overwrites, TempArchive
<1> QED BY <1>1, <1>2 DEF Promise!vars

\* A signer's step is seen as work on the input, or not seen.
LEMMA Works ==
  ASSUME TypeOK, Phase = "work", ok = "unknown", Phase' = "work", ok' \in {"unknown", "signed", "unsigned"},
         UNCHANGED <<kind, opt, out, temp, phone, runs, sound, exit>>,
         IF InCopy THEN input' = input
         ELSE input # Missing /\ input' \in IF ok' = "signed" THEN {Made("signed", input)}
                                            ELSE {input, Made("edited", input)},
         Overwrites => InCopy
  PROVE  Promise!Next
<1>1. UNCHANGED <<InCopy, Wanted, Overwrites, TempArchive>>
  BY DEF InCopy, Wanted, Overwrites, TempArchive
<1>2. Target' = IF Overwrites THEN input' ELSE Target
  BY DEF Target, Overwrites
<1>3. Overwrites => Target = input
  BY DEF Target, Overwrites
<1>4. \A t, x : Promise!Made(t, x) = Made(t, x)
  BY DEF Promise!Made, Made
<1>5. Promise!Work
  BY <1>1, <1>2, <1>3, <1>4 DEF Promise!Work
<1> QED BY <1>5 DEF Promise!Next

\* Every step of main keeps the promise or is not seen.
LEMMA PromiseStep ==
  ASSUME TypeOK, TypeOK', CommandInv, [Next]_vars
  PROVE  [Promise!Next]_(Promise!vars)
<1> USE DEF CommandInv
<1>0. Promise!AppSet = AppSet
  BY DEF Promise!AppSet, AppSet
<1>1. CASE UNCHANGED vars
  BY <1>1, Unseen DEF vars, Phase
<1>2. ASSUME NEW o \in Options, Start(o)
      PROVE  Promise!Next
  <2>1. Target' \in AppSet \cup {Missing}
    BY TargetKeepsType
  <2>2. Overwrites' => Target' = input
    BY <1>2 DEF Start, Target, Overwrites
  <2>3. Phase = "idle" /\ Phase' = "work"
    BY <1>2 DEF Start, Phase
  <2>4. [bundle |-> kind # "macho", copy |-> InCopy, same |-> Overwrites,
         archive |-> Wanted /\ kind # "root",
         tempArchive |-> TempArchive, tempFolder |-> kind = "leftfolder"]' \in Promise!JobSet
    BY DEF Promise!JobSet, InCopy, Overwrites, Wanted, TempArchive
  <2>5. UNCHANGED <<input, phone>> /\ runs' = runs + 1 /\ ok' = "unknown" /\ exit' = 1
        /\ sound' = (input # Missing /\ input.whole)
    BY <1>2 DEF Start
  <2>6. Promise!Begin
    BY <1>0, <2>1, <2>2, <2>3, <2>4, <2>5 DEF Promise!Begin
  <2> QED BY <2>6 DEF Promise!Next
<1>3. CASE Look
  <2>1. ok = "unknown" /\ ~archived
    BY <1>3 DEF Look, Progress
  <2>2. CASE pc' = "idle"
    BY <1>3, <2>1, <2>2, Finishes DEF Look, Exits, IsThrough, Phase
  <2>3. CASE pc' # "idle"
    BY <1>3, <2>1, <2>3, Unseen DEF Look, Exits, Phase
  <2> QED BY <2>2, <2>3
<1>4. CASE Inject
  <2>1. ok = "unknown" /\ ~archived /\ input \in AppSet /\ ~InCopy /\ Overwrites = FALSE
    BY <1>4 DEF Inject, Progress, InHand, Opening, Route, InCopy, Archives, Overwrites
  <2> QED BY <1>4, <2>1, DriverAssumption, Works DEF Inject, Phase
<1>5. CASE Injected
  <2>1. ok = "unknown" /\ ~archived /\ kind = "macho"
    BY <1>5 DEF Injected, Progress, Opening, Route
  <2>2. CASE pc' = "idle"
    BY <1>5, <2>1, <2>2, Finishes DEF Injected, Exits, IsThrough, Phase
  <2>3. CASE pc' # "idle"
    BY <1>5, <2>1, <2>3, Unseen DEF Injected, Exits, Phase
  <2> QED BY <2>2, <2>3
<1>6. CASE LoadAsset
  <2>1. ok = "unknown" /\ ~archived
    BY <1>6 DEF LoadAsset, Progress, Opening
  <2>2. CASE asset' = None
    BY <1>6, <2>1, <2>2, Finishes DEF LoadAsset, Exits, IsThrough, Phase
  <2>3. CASE asset' # None
    BY <1>6, <2>1, <2>3, Unseen DEF LoadAsset, Exits, Phase
  <2> QED BY <2>2, <2>3
<1>7. CASE SignSingle
  <2>1. ok = "unknown" /\ ~archived /\ input \in AppSet /\ ~InCopy /\ Overwrites = FALSE
    BY <1>7 DEF SignSingle, Progress, InHand, Opening, Route, InCopy, Archives, Overwrites
  <2>2. PICK s \in Outcomes(input) : ok' = s[1] /\ input' = s[2]
    BY <1>7 DEF SignSingle
  <2>3. /\ s[1] \in {"signed", "unsigned"}
        /\ s[1] = "signed" => s[2] = Made("signed", input)
        /\ s[1] # "signed" => s[2] \in {input, Made("edited", input)}
    BY <2>1, <2>2, OutcomesOfAnApp DEF TypeOK
  <2> QED BY <1>7, <2>1, <2>2, <2>3, DriverAssumption, Works DEF SignSingle, Phase
<1>8. CASE FreeSingle
  BY <1>8, Finishes DEF FreeSingle, Exits, Progress, Route, IsThrough, CanArchive, Phase
<1>9. CASE Unzip
  BY <1>9, Unseen DEF Unzip, Progress, Opening, Phase
<1>10. CASE UnzipFails
  BY <1>10, Finishes DEF UnzipFails, Exits, Progress, Opening, IsThrough, Phase
<1>11. CASE SignFolder
  <2>1. ok = "unknown" /\ ~archived /\ kind # "macho" /\ (Overwrites => InCopy)
    BY <1>11 DEF SignFolder, Progress, Route, Bundled, Overwrites
  <2>2. /\ ok' \in {"signed", "unsigned"}
        /\ ok' = "signed" => App' = Made("signed", App)
        /\ ok' # "signed" => App' = App \/ App' = Made("edited", App)
        /\ IF InCopy THEN UNCHANGED input ELSE input' = App'
    BY <1>11, OutcomesOfSignFolder
  <2>3. ~InCopy => App = input /\ input # Missing
    BY <1>11, DriverAssumption DEF SignFolder, App, InHand
  <2> QED BY <1>11, <2>1, <2>2, <2>3, Works DEF SignFolder, Phase
<1>12. CASE Archive
  <2>1. ok # "unknown" /\ ~archived /\ (place = "root" <=> kind = "root")
    BY <1>12 DEF Archive, Progress, Route, Bundled
  <2>2. CASE Wanted /\ NoPayload
    BY <1>12, <2>1, <2>2, Finishes DEF Archive, Exits, NoPayload, IsThrough, CanArchive, Phase
  <2>3. CASE ~(Wanted /\ NoPayload) /\ (~Wanted \/ place = "root")
    BY <1>12, <2>1, <2>3, Unseen DEF Archive, Phase
  <2>4. CASE Wanted /\ ~NoPayload /\ place # "root"
    <3>1. pc = "archive" /\ pc' = "zip" /\ PutTarget(Missing)
      BY <1>12, <2>4 DEF Archive
    <3>2. UNCHANGED <<kind, opt, phone, ok, runs, sound, exit>>
      BY <1>12, <2>4 DEF Archive
    <3>3. Promise!Withdraw
      BY <2>1, <2>4, <3>1, <3>2, TargetPut
         DEF Phase, InCopy, Overwrites, Wanted, TempArchive, Promise!Withdraw
    <3> QED BY <3>3 DEF Promise!Next
  <2> QED BY <2>2, <2>3, <2>4
<1>13. CASE ZipFolder
  <2>1. ok # "unknown" /\ ~archived /\ kind # "root" /\ Wanted /\ App \in AppSet
    BY <1>13 DEF ZipFolder, Progress, Route, Bundled, InHand
  <2>2. Target' = App /\ input' = IF Overwrites THEN App ELSE input
    BY <1>13, <2>1, TargetPut DEF ZipFolder
  <2>3. (ok = "signed" <=> SignedNow(App)) /\ Whole(App)
    BY <1>13, <2>1, DriverAssumption DEF ZipFolder, InHand, Whole
  <2>4. Promise!Publish
    BY <1>0, <1>13, <2>1, <2>2, <2>3
       DEF ZipFolder, Promise!Publish, SignedNow, Whole, Phase, InCopy, Overwrites, Wanted, TempArchive
  <2> QED BY <2>4 DEF Promise!Next
<1>14. CASE ZipFails
  BY <1>14, Finishes DEF ZipFails, Exits, Route, Bundled, IsThrough, CanArchive, Phase
<1>15. CASE Install
  <2>1. CASE phone' = phone
    BY <1>15, <2>1, Unseen DEF Install, Phase
  <2>2. CASE Installs /\ Target # Missing /\ phone' = Target
    <3>1. UNCHANGED <<kind, opt, input, out, temp, ok, runs, sound, exit>> /\ Phase' = Phase
      BY <1>15, <2>2 DEF Install, Phase
    <3>2. Target' = Target /\ UNCHANGED <<InCopy, Wanted, Overwrites, TempArchive>>
      BY <3>1 DEF Target, InCopy, Wanted, Overwrites, TempArchive
    <3>3. IsThrough /\ ok = "signed"
      BY <1>15, <2>2 DEF Install, Installs, Progress, IsThrough, CanArchive, Phase
    <3>4. Promise!Install
      BY <2>2, <3>1, <3>2, <3>3, ThroughMeans DEF Promise!Install
    <3> QED BY <3>4 DEF Promise!Next
  <2> QED BY <1>15, <2>1, <2>2 DEF Install
<1>16. CASE CleanTemp
  <2>1. UNCHANGED <<kind, opt, phone, ok, runs, sound, exit>> /\ Phase' = Phase
    BY <1>16 DEF CleanTemp, Phase
  <2>2. CASE ~TempArchive
    BY <1>16, <2>1, <2>2, Unseen DEF CleanTemp
  <2>3. CASE TempArchive
    <3>1. Target' = Missing /\ input' = IF Overwrites THEN Missing ELSE input
      BY <1>16, <2>3, TargetPut DEF CleanTemp
    <3>2. UNCHANGED <<InCopy, Wanted, Overwrites, TempArchive>>
      BY <2>1 DEF InCopy, Wanted, Overwrites, TempArchive
    <3>3. IsThrough
      BY <1>16 DEF CleanTemp, Progress, IsThrough, CanArchive, Phase
    <3>4. Promise!DiscardArchive
      BY <2>1, <2>3, <3>1, <3>2, <3>3, ThroughMeans DEF Promise!DiscardArchive
    <3> QED BY <3>4 DEF Promise!Next
  <2> QED BY <2>2, <2>3
<1>17. CASE CleanFolder
  <2>1. UNCHANGED <<kind, opt, out, temp, phone, ok, runs, sound, exit>> /\ Phase' = Phase
    BY <1>17 DEF CleanFolder, Phase
  <2>2. CASE kind # "leftfolder"
    BY <1>17, <2>1, <2>2, Unseen DEF CleanFolder
  <2>3. CASE kind = "leftfolder"
    <3>1. ~InCopy /\ ~Overwrites /\ input' = Missing
      BY <1>17, <2>3 DEF CleanFolder, InCopy, Archives, Route, Overwrites
    <3>2. UNCHANGED <<InCopy, Wanted, Overwrites, TempArchive>>
      BY <2>1 DEF InCopy, Wanted, Overwrites, TempArchive
    <3>3. Target' = Target
      BY <2>1, <3>1 DEF Target, Overwrites
    <3>4. IsThrough
      BY <1>17 DEF CleanFolder, Progress, IsThrough, CanArchive, Phase
    <3>5. Promise!DiscardFolder
      BY <2>1, <2>3, <3>1, <3>2, <3>3, <3>4, ThroughMeans DEF Promise!DiscardFolder
    <3> QED BY <3>5 DEF Promise!Next
  <2> QED BY <2>2, <2>3
<1>18. CASE Kill
  BY <1>18, Finishes DEF Kill, Exits, Phase
<1>19. CASE UnzipKilled
  <2>1. UNCHANGED <<kind, opt, input, out, temp, phone, ok, runs, exit>> /\ Phase' = Phase /\ Phase = "work"
        /\ ok = "unknown" /\ sound' = FALSE /\ InCopy
    BY <1>19 DEF UnzipKilled, Progress, Opening, Route, Phase
  <2>2. Target' = Target /\ UNCHANGED <<InCopy, Wanted, Overwrites, TempArchive>>
    BY <2>1 DEF Target, InCopy, Wanted, Overwrites, TempArchive
  <2>3. Promise!CopyCut
    BY <2>1, <2>2 DEF Promise!CopyCut
  <2> QED BY <2>3 DEF Promise!Next
<1>20. CASE Return
  BY <1>20, Finishes DEF Return, Exits, Progress, IsThrough, CanArchive, Phase
<1> QED BY <1>1, <1>2, <1>3, <1>4, <1>5, <1>6, <1>7, <1>8, <1>9, <1>10, <1>11, <1>12, <1>13,
           <1>14, <1>15, <1>16, <1>17, <1>18, <1>19, <1>20 DEF Next, Step

\* Driver implements Command: what the user sees of a command, from its start to its exit
\* code, is only what he was promised, with every fault and however many commands run
\* (zsign.cpp:93-334).
THEOREM PromiseKept == Spec => KeepsPromise
<1>1. Init /\ TypeOK => Promise!Init
  BY PromiseInit
<1>2. TypeOK /\ TypeOK' /\ CommandInv /\ [Next]_vars => [Promise!Next]_(Promise!vars)
  BY PromiseStep
<1> QED BY <1>1, <1>2, CommandInvInductive, PTL DEF Spec, KeepsPromise, Promise!Spec
===============================================================================
