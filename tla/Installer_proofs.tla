--------------------------- MODULE Installer_proofs ---------------------------
(***************************************************************************)
(* Theorems about Installer: what a run that reports success has installed,*)
(* for any directories, releases, files and order of failures.             *)
(***************************************************************************)
EXTENDS Installer, TLAPS

(***************************************************************************)
(* The files of the list, and where they stand in it.                      *)
(***************************************************************************)
LEMMA CopiedList ==
    /\ Len(Copied) \in Nat /\ DOMAIN Copied = 1..Len(Copied)
    /\ \A i \in DOMAIN Copied : Copied[i] \in CopiedFile /\ Copied[i] \in File
    /\ FirstTool \in DOMAIN Copied /\ FirstTool \in Nat /\ 1 \in DOMAIN Copied
<1>1. Len(Copied) \in Nat /\ DOMAIN Copied = 1..Len(Copied)
  BY FileAssumption
<1>2. FirstTool \in DOMAIN Copied /\ FirstTool \in Nat /\ 1 \in DOMAIN Copied
  BY <1>1, FileAssumption
<1>3. \A i \in DOMAIN Copied : Copied[i] \in CopiedFile /\ Copied[i] \in File
  BY DEF CopiedFile, File
<1>4. QED
  BY <1>1, <1>2, <1>3

(***************************************************************************)
(* What a directory may hold.                                              *)
(***************************************************************************)
LEMMA Contents ==
    /\ Nothing \in [File -> Content \cup {Absent}]
    /\ \A r \in Release : Whole(r) \in [File -> Content \cup {Absent}]
BY DEF Nothing, Whole, Content

(***************************************************************************)
(* The run has done nothing to report at its beginning.                    *)
(***************************************************************************)
LEMMA InitHolds == Init => Inv
<1> SUFFICES ASSUME Init PROVE Inv
  OBVIOUS
<1>1. dir \in [Place -> [File -> Content \cup {Absent}]]
  BY Contents DEF Init
<1>2. TypeOK
  BY <1>1, PlaceAssumption, CopiedList DEF Init, TypeOK, Ended
<1>3. QED
  BY <1>2 DEF Init, Inv, Ended, LoadsWhereDeployed

(***************************************************************************)
(* Steps that leave the directories and the run's choices as they are.     *)
(***************************************************************************)
Still == UNCHANGED <<dir, here, target>>

LEMMA StillKeeps ==
    ASSUME Still
    PROVE  /\ \A i : CopiedBefore(i)' <=> CopiedBefore(i)
           /\ \A i : ImportedBefore(i)' <=> ImportedBefore(i)
<1>1. \A i : CopiedBefore(i)' <=> CopiedBefore(i)
  BY DEF Still, CopiedBefore
<1>2. \A i : ImportedBefore(i)' <=> ImportedBefore(i)
  BY DEF Still, ImportedBefore, Found, Fitting
<1>3. QED
  BY <1>1, <1>2

(***************************************************************************)
(* All tools imported where the target has its own modules: the host finds *)
(* the same ones.                                                          *)
(***************************************************************************)
LEMMA ImportedLoads ==
    ASSUME ImportedBefore(Len(Copied) + 1), Deployed(target)
    PROVE  \A t \in ToolFiles : dir[target][t].whole => Loads(target, t)
<1> SUFFICES ASSUME NEW t \in ToolFiles, dir[target][t].whole
             PROVE  Loads(target, t)
  OBVIOUS
<1>1. PICK j \in FirstTool..Len(Copied) : t = Copied[j]
  BY DEF ToolFiles
<1>2. j < Len(Copied) + 1
  BY <1>1, CopiedList
<1>3. \A m \in Module : Found(m).release \in Fitting(dir[target][t])
  BY <1>1, <1>2 DEF ImportedBefore
<1>4. \A m \in Module : Found(m) = dir[target][m]
  BY DEF Found, Deployed
<1>5. QED
  BY <1>3, <1>4 DEF Loads

(***************************************************************************)
(* One file of the target is written; the source, elsewhere, is untouched. *)
(***************************************************************************)
LEMMA WriteKeeps ==
    ASSUME TypeOK, target # here, UNCHANGED <<here, target>>, CopiedBefore(next),
           NEW content \in Content \cup {Absent},
           dir' = [dir EXCEPT ![target][Copied[next]] = content]
    PROVE  /\ dir' \in [Place -> [File -> Content \cup {Absent}]]
           /\ dir'[here] = dir[here]
           /\ dir'[target][Copied[next]] = content
           /\ \A j \in 1..Len(Copied) : j < next => dir'[target'][Copied[j]] = dir'[here'][Copied[j]]
<1>1. next \in DOMAIN Copied /\ Copied[next] \in File /\ target \in Place /\ here \in Place
  BY CopiedList DEF TypeOK
<1>2. dir \in [Place -> [File -> Content \cup {Absent}]]
  BY DEF TypeOK
<1>3. dir' = [dir EXCEPT ![target] = [dir[target] EXCEPT ![Copied[next]] = content]]
  OBVIOUS
<1>4. dir[target] \in [File -> Content \cup {Absent}]
  BY <1>1, <1>2
<1>5. dir' \in [Place -> [File -> Content \cup {Absent}]]
  BY <1>1, <1>2, <1>3, <1>4
<1>6. dir'[here] = dir[here]
  BY <1>1, <1>2, <1>3
<1>7. dir'[target] = [dir[target] EXCEPT ![Copied[next]] = content]
  BY <1>1, <1>2, <1>3
<1>8. dir'[target][Copied[next]] = content
  BY <1>1, <1>4, <1>7
<1>9. ASSUME NEW j \in 1..Len(Copied), j < next
      PROVE  dir'[target'][Copied[j]] = dir'[here'][Copied[j]]
  <2>1. j \in DOMAIN Copied /\ Copied[j] \in File /\ j # next
    BY <1>1, <1>9, CopiedList
  <2>2. Copied[j] # Copied[next]
    BY <1>1, <2>1, FileAssumption
  <2>3. dir'[target][Copied[j]] = dir[target][Copied[j]]
    BY <1>4, <1>7, <2>1, <2>2
  <2>4. QED
    BY <1>6, <1>9, <2>3 DEF CopiedBefore
<1>10. QED
  BY <1>5, <1>6, <1>8, <1>9

-----------------------------------------------------------------------------
(***************************************************************************)
(* Steps that leave the directories alone and end the run, or go on to     *)
(* another label with nothing more to show for it.                         *)
(***************************************************************************)
LEMMA QuietKeeps ==
    ASSUME Inv, Still, host' \in BOOLEAN, next' = next,
           \/ pc' \in Ended \ {"installed"}
           \/ pc = "permissions" /\ pc' = "discovery"
           \/ pc = "discovery" /\ pc' = "manifest"
           \/ pc = "manifest" /\ pc' = "imports"
    PROVE  Inv'
<1>1. TypeOK'
  BY DEF Inv, TypeOK, Still, Ended
<1>2. /\ CopiedBefore(Len(Copied) + 1)' <=> CopiedBefore(Len(Copied) + 1)
      /\ LoadsWhereDeployed' <=> (pc' = "installed" => LoadsWhereDeployed')
  BY StillKeeps DEF LoadsWhereDeployed
<1>3. CASE pc' \in Ended \ {"installed"}
  BY <1>1, <1>3 DEF Inv, Ended, LoadsWhereDeployed
<1>4. CASE pc \in {"permissions", "discovery"} /\ pc' \in {"discovery", "manifest"}
  BY <1>1, <1>2, <1>4 DEF Inv, Ended, LoadsWhereDeployed, Still
<1>5. CASE pc = "manifest" /\ pc' = "imports"
  <2>1. ImportedBefore(next)'
    BY <1>5, CopiedList DEF Inv, ImportedBefore
  <2>2. next' >= FirstTool
    BY <1>5, CopiedList DEF Inv
  <2>3. QED
    BY <1>1, <1>2, <1>5, <2>1, <2>2 DEF Inv, Ended, LoadsWhereDeployed, Still
<1>6. QED
  BY <1>3, <1>4, <1>5

(***************************************************************************)
(* Every step of the installer and of the operator keeps the invariant.    *)
(***************************************************************************)
LEMMA StepKeeps == Inv /\ [Next]_vars => Inv'
<1> SUFFICES ASSUME Inv, [Next]_vars PROVE Inv'
  OBVIOUS
<1>0. TypeOK
  BY DEF Inv
<1>1. CASE UNCHANGED vars
  <2>1. Still /\ TypeOK'
    BY <1>0, <1>1 DEF vars, Still, TypeOK
  <2>2. \A i : (CopiedBefore(i)' <=> CopiedBefore(i)) /\ (ImportedBefore(i)' <=> ImportedBefore(i))
    BY <2>1, StillKeeps
  <2>3. LoadsWhereDeployed'
    BY <1>1 DEF Inv, LoadsWhereDeployed, Deployed, Loads, Fitting, vars
  <2>4. QED
    BY <1>1, <2>1, <2>2, <2>3 DEF Inv, vars
<1>2. CASE \E p \in Place, r \in Release : Checkout(p, r)
  <2>1. PICK p \in Place, r \in Release : Checkout(p, r)
    BY <1>2
  <2>2. dir' \in [Place -> [File -> Content \cup {Absent}]]
    BY <1>0, <2>1, Contents DEF Checkout, TypeOK
  <2>3. QED
    BY <1>0, <2>1, <2>2 DEF Checkout, Inv, TypeOK, Ended, LoadsWhereDeployed
<1>3. CASE Start
  <2>1. target' # here' \/ <<target', here'>> \in Within
    BY <1>3, PlaceAssumption DEF Start
  <2>2. TypeOK'
    BY <1>0, <1>3, CopiedList DEF Start, TypeOK, Ended
  <2>3. CASE pc' = "refused"
    BY <2>2, <2>3 DEF Inv, Ended, LoadsWhereDeployed
  <2>4. CASE pc' = "copy" /\ target' # here'
    <3>1. next' = 1 /\ CopiedBefore(next)'
      BY <1>3, CopiedList DEF Start, CopiedBefore
    <3>2. QED
      BY <2>2, <2>4, <3>1 DEF Inv, Ended, LoadsWhereDeployed
  <2>5. QED
    BY <1>3, <2>1, <2>3, <2>4 DEF Start
<1>4. CASE CopyBegin
  <2> DEFINE content == [dir[here][Copied[next]] EXCEPT !.whole = FALSE]
  <2>1. content \in Content
    <3>1. next \in DOMAIN Copied /\ Copied[next] \in File
      BY <1>0, CopiedList DEF TypeOK
    <3>2. dir[here][Copied[next]] \in Content
      BY <1>0, <1>4, <3>1 DEF TypeOK, CopyBegin
    <3>3. QED
      BY <3>2 DEF Content
  <2>2. dir' = [dir EXCEPT ![target][Copied[next]] = content]
    BY <1>4 DEF CopyBegin
  <2> HIDE DEF content
  <2>3. /\ dir' \in [Place -> [File -> Content \cup {Absent}]] /\ dir'[here] = dir[here]
        /\ \A j \in 1..Len(Copied) : j < next => dir'[target'][Copied[j]] = dir'[here'][Copied[j]]
    BY <1>0, <1>4, <2>1, <2>2, WriteKeeps DEF CopyBegin, Inv, Ended
  <2>4. TypeOK'
    BY <1>0, <1>4, <2>3 DEF CopyBegin, TypeOK
  <2>5. CopiedBefore(next)'
    BY <1>4, <2>3 DEF CopyBegin, CopiedBefore
  <2>6. QED
    BY <1>4, <2>3, <2>4, <2>5 DEF CopyBegin, Inv, Ended, LoadsWhereDeployed
<1>5. CASE CopyEnd
  <2>1. next \in DOMAIN Copied /\ Copied[next] \in File /\ next \in Nat
    BY <1>0, CopiedList DEF TypeOK
  <2>2. dir[here][Copied[next]] \in Content \cup {Absent}
    BY <1>0, <2>1 DEF TypeOK
  <2>3. dir' = [dir EXCEPT ![target][Copied[next]] = dir[here][Copied[next]]]
    BY <1>5 DEF CopyEnd
  <2>4. /\ dir' \in [Place -> [File -> Content \cup {Absent}]] /\ dir'[here] = dir[here]
        /\ dir'[target][Copied[next]] = dir[here][Copied[next]]
        /\ \A j \in 1..Len(Copied) : j < next => dir'[target'][Copied[j]] = dir'[here'][Copied[j]]
    BY <1>0, <1>5, <2>2, <2>3, WriteKeeps DEF CopyEnd, Inv, Ended
  <2>5. \A j \in 1..Len(Copied) : j < next + 1 => dir'[target'][Copied[j]] = dir'[here'][Copied[j]]
    BY <1>5, <2>1, <2>4, CopiedList DEF CopyEnd
  <2>6. CASE next < Len(Copied)
    <3>1. pc' = "copy" /\ next' = next + 1 /\ next' \in DOMAIN Copied
      BY <1>5, <2>1, <2>6, CopiedList DEF CopyEnd, Advance
    <3>2. TypeOK'
      BY <1>0, <1>5, <2>4, <3>1 DEF CopyEnd, TypeOK
    <3>3. CopiedBefore(next)'
      BY <2>5, <3>1 DEF CopiedBefore
    <3>4. QED
      BY <1>5, <3>1, <3>2, <3>3 DEF CopyEnd, Inv, Ended, LoadsWhereDeployed
  <2>7. CASE next = Len(Copied)
    <3>1. pc' = "permissions" /\ next' = FirstTool
      BY <1>5, <2>1, <2>7, CopiedList DEF CopyEnd, Advance
    <3>2. TypeOK'
      BY <1>0, <1>5, <2>4, <3>1, CopiedList DEF CopyEnd, TypeOK
    <3>3. CopiedBefore(Len(Copied) + 1)'
      BY <2>5, <2>7 DEF CopiedBefore
    <3>4. QED
      BY <1>5, <3>1, <3>2, <3>3 DEF CopyEnd, Inv, Ended, LoadsWhereDeployed
  <2>8. QED
    BY <2>1, <2>6, <2>7, CopiedList
<1>6. CASE CopyRaises \/ Crash
  BY <1>0, <1>6, QuietKeeps DEF CopyRaises, Crash, Still, TypeOK, Ended
<1>7. CASE ValidatePermissions
  <2>1. pc = "permissions" /\ (pc' = "discovery" \/ pc' = "error")
    BY <1>7 DEF ValidatePermissions, Validated
  <2>2. QED
    BY <1>0, <1>7, <2>1, QuietKeeps DEF ValidatePermissions, Validated, Still, TypeOK, Ended
<1>8. CASE ValidateDiscovery
  <2>1. pc = "discovery" /\ (pc' = "manifest" \/ pc' = "error")
    BY <1>8 DEF ValidateDiscovery, Validated
  <2>2. QED
    BY <1>0, <1>8, <2>1, QuietKeeps DEF ValidateDiscovery, Validated, Still, TypeOK, Ended
<1>9. CASE ValidateManifestBehavior
  <2>1. pc = "manifest" /\ (pc' = "imports" \/ pc' = "error")
    BY <1>9 DEF ValidateManifestBehavior, Validated
  <2>2. QED
    BY <1>0, <1>9, <2>1, QuietKeeps DEF ValidateManifestBehavior, Validated, Still, TypeOK, Ended
<1>10. CASE ImportFails
  BY <1>0, <1>10, QuietKeeps DEF ImportFails, Still, TypeOK, Ended
<1>11. CASE ValidateImport
  <2>1. next \in Nat /\ next >= FirstTool /\ next <= Len(Copied)
    BY <1>0, <1>11, CopiedList DEF ValidateImport, Inv, TypeOK
  <2>2. ImportedBefore(next + 1)
    <3> SUFFICES ASSUME NEW j \in FirstTool..Len(Copied), j < next + 1,
                        dir[target][Copied[j]].whole
                 PROVE  \A m \in Module : Found(m).release \in Fitting(dir[target][Copied[j]])
      BY DEF ImportedBefore
    <3>1. CASE j < next
      BY <1>11, <3>1 DEF ValidateImport, Inv, ImportedBefore
    <3>2. CASE j = next
      BY <1>11, <3>2 DEF ValidateImport
    <3>3. QED
      BY <2>1, <3>1, <3>2, CopiedList
  <2>3. Still /\ CopiedBefore(Len(Copied) + 1)
    BY <1>11 DEF ValidateImport, Still, Inv
  <2>4. CopiedBefore(Len(Copied) + 1)' /\ \A i : ImportedBefore(i)' <=> ImportedBefore(i)
    BY <2>3, StillKeeps
  <2>5. CASE next < Len(Copied)
    <3>1. pc' = "imports" /\ next' = next + 1
      BY <1>11, <2>5 DEF ValidateImport, Advance
    <3>2. TypeOK' /\ next' >= FirstTool
      BY <1>0, <1>11, <2>1, <2>5, <3>1, CopiedList DEF ValidateImport, TypeOK
    <3>3. ImportedBefore(next)'
      BY <2>2, <2>4, <3>1 DEF ImportedBefore
    <3>4. target' # here' /\ LoadsWhereDeployed'
      BY <1>11, <2>3, <3>1 DEF ValidateImport, Inv, Ended, LoadsWhereDeployed, Still
    <3>5. CopiedBefore(Len(Copied) + 1)'
      BY <2>4
    <3>6. QED
      BY <3>1, <3>2, <3>3, <3>4, <3>5 DEF Inv, Ended
  <2>6. CASE next = Len(Copied)
    <3>1. pc' = "installed" /\ next' = FirstTool
      BY <1>11, <2>1, <2>6, CopiedList DEF ValidateImport, Advance
    <3>2. TypeOK'
      BY <1>0, <1>11, <3>1, CopiedList DEF ValidateImport, TypeOK, Ended
    <3>3. ImportedBefore(Len(Copied) + 1) /\ ImportedBefore(Len(Copied) + 1)'
      BY <2>2, <2>4, <2>6
    <3>4. LoadsWhereDeployed'
      BY <2>3, <3>3, ImportedLoads DEF LoadsWhereDeployed, Still, Deployed, Loads, Fitting
    <3>5. CopiedBefore(Len(Copied) + 1)'
      BY <2>4
    <3>6. QED
      BY <3>1, <3>2, <3>3, <3>4, <3>5 DEF Inv, Ended
  <2>7. next < Len(Copied) \/ next = Len(Copied)
    <3>1. Len(Copied) \in Nat
      BY CopiedList
    <3>2. QED
      BY <2>1, <3>1
  <2>8. QED
    BY <2>5, <2>6, <2>7
<1>12. QED
  BY <1>1, <1>2, <1>3, <1>4, <1>5, <1>6, <1>7, <1>8, <1>9, <1>10, <1>11 DEF Next, Run

-----------------------------------------------------------------------------
(***************************************************************************)
(* The inductive invariant holds in every reachable state (install.py).    *)
(***************************************************************************)
THEOREM Invariance == Spec => []Inv
<1>1. QED
  BY InitHolds, StepKeeps, PTL DEF Spec

(***************************************************************************)
(* Type correctness: in particular the script's place in its list of files *)
(* never leaves the list, wherever a copy or an import fails.              *)
(***************************************************************************)
THEOREM TypeCorrect == Spec => []TypeOK
<1>1. Inv => TypeOK
  BY DEF Inv
<1>2. QED
  BY <1>1, Invariance, PTL

(***************************************************************************)
(* A run that reports success has installed the files it was started from, *)
(* whatever earlier runs have left in the target.                          *)
(***************************************************************************)
THEOREM SuccessIsInstalled == Spec => []InstalledFromHere
<1>1. Inv => InstalledFromHere
  <2> SUFFICES ASSUME Inv, pc = "installed", NEW i \in DOMAIN Copied
               PROVE  dir[target][Copied[i]] = dir[here][Copied[i]]
    BY DEF InstalledFromHere, CopiedFile
  <2>1. i \in 1..Len(Copied) /\ i < Len(Copied) + 1
    BY CopiedList
  <2>2. QED
    BY <2>1 DEF Inv, CopiedBefore
<1>2. QED
  BY <1>1, Invariance, PTL

(***************************************************************************)
(* Where the target has modules of its own, a reported success means that  *)
(* the host, which knows no other, can import every tool.                  *)
(***************************************************************************)
THEOREM SuccessLoads == Spec => []LoadsWhereDeployed
<1>1. Inv => LoadsWhereDeployed
  BY DEF Inv
<1>2. QED
  BY <1>1, Invariance, PTL

=============================================================================
