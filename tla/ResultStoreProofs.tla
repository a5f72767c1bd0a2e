-------------------------- MODULE ResultStoreProofs --------------------------
(***************************************************************************)
(* What holds of write_bundle for every set of calls, runs and files.      *)
(***************************************************************************)
EXTENDS ResultStore, TLAPS

-----------------------------------------------------------------------------
(* The sets the write path is built from, and its helpers.                 *)

(* The loops of write_bundle take their next file from what is left.       *)
LEMMA NextInLeft == \A order, left : NextIn(order, left) \subseteq left
  BY DEF NextIn

(* The except clause removes files of the run only.                        *)
LEMMA RollbackSetInFiles == \A left : RollbackSet(left) \subseteq Files
  BY DEF RollbackSet, MovedPaths, MoveGroups, Files

(* What a path can hold.                                                   *)
LEMMA ContentOfPaths ==
    /\ NoFile \in Stored /\ NoFile \in Staged
    /\ Calls \subseteq Staged /\ Staged \subseteq Stored
    /\ Backend = "s3" => Torn \in Stored
  BY DEF Staged, Stored

LEMMA FilesAreSlots == Files \subseteq Slots /\ Manifest \in Slots
  BY DEF Slots

(* The control points, one by one.                                         *)
LEMMA PhasesOfCalls ==
    {"idle", "clear_staging", "clear_orphans", "make_staging", "stage", "publish", "move",
     "copy", "validate", "stage_manifest", "check_manifest", "commit", "copy_manifest",
     "unlink_manifest", "drop_staged", "rollback", "refresh", "finally_ok", "finally_raise",
     "finally_interrupt", "returned", "raised", "interrupted", "crashed"} = Phases
  BY DEF Phases, Active, BeforeTry, InTry, Finally, Final, Answered

(* A file is written or removed, published or staged.                      *)
LEMMA FinalUpdate ==
    ASSUME TypeOK, NEW r \in Runs, NEW f, NEW v, f \in Files => v \in Stored,
           final' = [final EXCEPT ![r][f] = v]
    PROVE  final' \in [Runs -> [Files -> Stored]]
  BY DEF TypeOK

LEMMA StagingUpdate ==
    ASSUME TypeOK, NEW r \in Runs, NEW s, NEW v, s \in Slots => v \in Staged,
           staging' = [staging EXCEPT ![r][s] = v]
    PROVE  staging' \in [Runs -> [Slots -> Staged]]
  BY DEF TypeOK

LEMMA GotoType ==
    ASSUME TypeOK, NEW c \in Calls, NEW p \in Phases, Goto(c, p)
    PROVE  pc' \in [Calls -> Phases]
  BY DEF TypeOK, Goto

LEMMA TreatedType ==
    ASSUME TypeOK, NEW c \in Calls, NEW f, NEW p \in Phases, NEW left, left \subseteq Files,
           Treated(c, f, p, left)
    PROVE  pc' \in [Calls -> Phases] /\ todo' \in [Calls -> SUBSET Files]
<1>1. CASE todo[c] = {f}
  <2>1. pc' \in [Calls -> Phases]
    BY <1>1, GotoType DEF Treated
  <2>2. todo' = [todo EXCEPT ![c] = left]
    BY <1>1 DEF Treated
  <2> QED
    BY <2>1, <2>2 DEF TypeOK
<1>2. CASE todo[c] # {f}
  <2>1. pc' = pc /\ todo' = [todo EXCEPT ![c] = @ \ {f}]
    BY <1>2 DEF Treated
  <2> QED
    BY <2>1 DEF TypeOK
<1> QED
  BY <1>1, <1>2

LEMMA RaiseType ==
    ASSUME TypeOK, NEW c \in Calls, Raise(c)
    PROVE  pc' \in [Calls -> Phases] /\ todo' \in [Calls -> SUBSET Files]
<1>1. pc' \in [Calls -> Phases]
  BY GotoType, PhasesOfCalls DEF Raise
<1>2. todo' \in [Calls -> SUBSET Files]
  BY RollbackSetInFiles DEF Raise, TypeOK
<1> QED
  BY <1>1, <1>2

LEMMA LeaveType ==
    ASSUME TypeOK, NEW c \in Calls, Leave(c)
    PROVE  todo' \in [Calls -> SUBSET Files] /\ moving' \in [Calls -> Files \cup {NoFile}]
  BY DEF TypeOK, Leave

LEMMA MovedType ==
    ASSUME TypeOK, NEW c \in Calls, Moved(c)
    PROVE  /\ pc' \in [Calls -> Phases]
           /\ todo' \in [Calls -> SUBSET Files]
           /\ moving' \in [Calls -> Files \cup {NoFile}]
<1>1. pc' \in [Calls -> Phases]
  BY GotoType, PhasesOfCalls DEF Moved
<1>2. todo' \in [Calls -> SUBSET Files] /\ moving' \in [Calls -> Files \cup {NoFile}]
  BY DEF Moved, TypeOK
<1> QED
  BY <1>1, <1>2

LEMMA RemoveStagingDirType ==
    ASSUME TypeOK, NEW r \in Runs, RemoveStagingDir(r)
    PROVE  stagingDirs' \subseteq Runs /\ staging' \in [Runs -> [Slots -> Staged]]
  BY ContentOfPaths DEF TypeOK, RemoveStagingDir, EmptyStaging

-----------------------------------------------------------------------------
(* No step of a call, of a fault or of the operator breaks a type.         *)
LEMMA TypeStep == TypeOK /\ [Next]_vars => TypeOK'
<1> SUFFICES ASSUME TypeOK, [Next]_vars PROVE TypeOK'
  OBVIOUS
<1> USE CallsAssumption, ContentOfPaths, FilesAreSlots
<1>1. ASSUME NEW c \in Calls, WriteBundle(c) PROVE TypeOK'
  BY <1>1, GotoType, PhasesOfCalls DEF WriteBundle, files, TypeOK
<1>2. ASSUME NEW c \in Calls, ClearStaging(c) PROVE TypeOK'
  BY <1>2, GotoType, RemoveStagingDirType, PhasesOfCalls DEF ClearStaging, TypeOK
<1>3. ASSUME NEW c \in Calls, MakeStagingDir(c) PROVE TypeOK'
  <2>1. pc' \in [Calls -> Phases]
    BY <1>3, GotoType, PhasesOfCalls DEF MakeStagingDir
  <2>2. todo' \in [Calls -> SUBSET Files] /\ stagingDirs' \subseteq Runs
    <3>1. CASE RunOf[c] \in stagingDirs
      BY <1>3, <3>1 DEF MakeStagingDir, TypeOK
    <3>2. CASE RunOf[c] \notin stagingDirs
      BY <1>3, <3>2 DEF MakeStagingDir, TypeOK
    <3> QED
      BY <3>1, <3>2
  <2> QED
    BY <1>3, <2>1, <2>2 DEF MakeStagingDir, TypeOK
<1>4. ASSUME NEW c \in Calls, ValidateArtifactRefTargets(c) PROVE TypeOK'
  BY <1>4, GotoType, RaiseType, PhasesOfCalls DEF ValidateArtifactRefTargets, files, TypeOK
<1>5. ASSUME NEW c \in Calls, RenameStagedFile(c) PROVE TypeOK'
  <2>1. final' \in [Runs -> [Files -> Stored]]
    <3> DEFINE v == staging[RunOf[c]][moving[c]]
    <3>1. final' = [final EXCEPT ![RunOf[c]][moving[c]] = v]
      BY <1>5 DEF RenameStagedFile
    <3>2. moving[c] \in Files => v \in Stored
      BY DEF TypeOK
    <3> HIDE DEF v
    <3> QED
      BY <3>1, <3>2, FinalUpdate
  <2>2. staging' \in [Runs -> [Slots -> Staged]]
    BY <1>5, StagingUpdate DEF RenameStagedFile, TypeOK
  <2> QED
    BY <1>5, <2>1, <2>2, MovedType DEF RenameStagedFile, TypeOK
<1>6. ASSUME NEW c \in Calls, LoseStagedFile(c) PROVE TypeOK'
  BY <1>6, RaiseType DEF LoseStagedFile, FailMove, TypeOK
<1>7. ASSUME NEW c \in Calls, StartCopy(c) PROVE TypeOK'
  BY <1>7, GotoType, PhasesOfCalls DEF StartCopy, TypeOK
<1>8. ASSUME NEW c \in Calls, FinishCopy(c) PROVE TypeOK'
  <2>1. final' \in [Runs -> [Files -> Stored]]
    <3> DEFINE v == IF final[RunOf[c]][moving[c]] = NoFile THEN NoFile
                    ELSE staging[RunOf[c]][moving[c]]
    <3>1. final' = [final EXCEPT ![RunOf[c]][moving[c]] = v]
      BY <1>8 DEF FinishCopy, TypeOK
    <3>2. moving[c] \in Files => v \in Stored
      BY DEF TypeOK
    <3> HIDE DEF v
    <3> QED
      BY <3>1, <3>2, FinalUpdate
  <2>2. staging' \in [Runs -> [Slots -> Staged]]
    BY <1>8, StagingUpdate DEF FinishCopy, TypeOK
  <2> QED
    BY <1>8, <2>1, <2>2, MovedType DEF FinishCopy, TypeOK
<1>9. ASSUME NEW c \in Calls, StageManifest(c) PROVE TypeOK'
  BY <1>9, GotoType, PhasesOfCalls DEF StageManifest, TypeOK
<1>10. ASSUME NEW c \in Calls, CheckManifest(c) PROVE TypeOK'
  BY <1>10, GotoType, RaiseType, PhasesOfCalls DEF CheckManifest, files, TypeOK
<1>11. ASSUME NEW c \in Calls, LinkManifest(c) PROVE TypeOK'
  <2>1. manifest' \in [Runs -> Stored]
    BY <1>11 DEF LinkManifest, TypeOK
  <2>2. pc' \in [Calls -> Phases] /\ todo' \in [Calls -> SUBSET Files]
    BY <1>11, GotoType, RaiseType, PhasesOfCalls DEF LinkManifest, TypeOK
  <2> QED
    BY <1>11, <2>1, <2>2 DEF LinkManifest, TypeOK
<1>12. ASSUME NEW c \in Calls, StartManifestCopy(c) PROVE TypeOK'
  BY <1>12, GotoType, PhasesOfCalls DEF StartManifestCopy, TypeOK
<1>13. ASSUME NEW c \in Calls, FinishManifestCopy(c) PROVE TypeOK'
  BY <1>13, GotoType, PhasesOfCalls DEF FinishManifestCopy, TypeOK
<1>28. ASSUME NEW c \in Calls, UnlinkCopiedManifest(c) PROVE TypeOK'
  BY <1>28, GotoType, PhasesOfCalls DEF UnlinkCopiedManifest, TypeOK
<1>14. ASSUME NEW c \in Calls, LoseStagedManifest(c) PROVE TypeOK'
  BY <1>14, RaiseType DEF LoseStagedManifest, FailManifestCopy, TypeOK
<1>15. ASSUME NEW c \in Calls, DropStagedManifest(c) PROVE TypeOK'
  BY <1>15, GotoType, PhasesOfCalls DEF DropStagedManifest, TypeOK
<1>16. ASSUME NEW c \in Calls, RemoveStaging(c) PROVE TypeOK'
  BY <1>16, GotoType, LeaveType, RemoveStagingDirType, PhasesOfCalls DEF RemoveStaging, Finally, TypeOK
<1>17. ASSUME NEW c \in Calls, RefreshCatalog(c) PROVE TypeOK'
  BY <1>17, GotoType, PhasesOfCalls DEF RefreshCatalog, Listed, TypeOK
<1>18. ASSUME NEW c \in Calls, Error(c) PROVE TypeOK'
  <2>1. ASSUME ErrorBeforeTry(c) PROVE TypeOK'
    BY <1>18, <2>1, GotoType, LeaveType, PhasesOfCalls DEF Error, ErrorBeforeTry, files, TypeOK
  <2>2. ASSUME ErrorInTry(c) PROVE TypeOK'
    <3>1. pc' \in [Calls -> Phases] /\ todo' \in [Calls -> SUBSET Files]
      BY <2>2, RaiseType DEF ErrorInTry, FailMove, FailManifestCopy
    <3>2. final' \in [Runs -> [Files -> Stored]]
      BY <2>2, FinalUpdate DEF ErrorInTry, FailMove, TypeOK
    <3>3. manifest' \in [Runs -> Stored]
      BY <2>2 DEF ErrorInTry, FailManifestCopy, TypeOK
    <3>4. moving' \in [Calls -> Files \cup {NoFile}]
      BY <2>2 DEF ErrorInTry, FailMove, TypeOK
    <3> QED
      BY <1>18, <2>2, <3>1, <3>2, <3>3, <3>4 DEF Error, ErrorInTry, TypeOK
  <2>3. ASSUME ErrorInRollback(c) PROVE TypeOK'
    BY <1>18, <2>3, GotoType, PhasesOfCalls DEF Error, ErrorInRollback, files, TypeOK
  <2> QED
    BY <1>18, <2>1, <2>2, <2>3 DEF Error
<1>19. ASSUME NEW c \in Calls, Interrupt(c) PROVE TypeOK'
  BY <1>19, GotoType, LeaveType, PhasesOfCalls DEF Interrupt, files, TypeOK
<1>20. ASSUME NEW c \in Calls, Crash(c) PROVE TypeOK'
  BY <1>20, GotoType, LeaveType, PhasesOfCalls DEF Crash, files, TypeOK
<1>21. ASSUME NEW c \in Calls, NEW f \in Files, RemoveOrphanedRunFile(c, f) PROVE TypeOK'
  <2>1. final' \in [Runs -> [Files -> Stored]] /\ faulted' \subseteq Calls
    BY <1>21, FinalUpdate DEF RemoveOrphanedRunFile, RemoveFile, TypeOK
  <2>2. pc' \in [Calls -> Phases] /\ todo' \in [Calls -> SUBSET Files]
    <3>1. PICK p \in Phases, left \in SUBSET Files : Treated(c, f, p, left)
      BY <1>21, PhasesOfCalls DEF RemoveOrphanedRunFile
    <3> QED
      BY <3>1, TreatedType
  <2> QED
    BY <1>21, <2>1, <2>2 DEF RemoveOrphanedRunFile, TypeOK
<1>22. ASSUME NEW c \in Calls, NEW f \in Files, StageFile(c, f) PROVE TypeOK'
  <2>1. staging' \in [Runs -> [Slots -> Staged]]
    BY <1>22, StagingUpdate DEF StageFile, TypeOK
  <2>2. pc' \in [Calls -> Phases] /\ todo' \in [Calls -> SUBSET Files]
    BY <1>22, TreatedType, RaiseType, PhasesOfCalls DEF StageFile
  <2> QED
    BY <1>22, <2>1, <2>2 DEF StageFile, TypeOK
<1>23. ASSUME NEW c \in Calls, NEW f \in Files, TakeFile(c, f) PROVE TypeOK'
  BY <1>23, GotoType, RaiseType, PhasesOfCalls DEF TakeFile, files, TypeOK
<1>24. ASSUME NEW c \in Calls, NEW f \in Files, RollbackFile(c, f) PROVE TypeOK'
  <2>1. final' \in [Runs -> [Files -> Stored]] /\ faulted' \subseteq Calls
    BY <1>24, FinalUpdate DEF RollbackFile, RemoveFile, TypeOK
  <2>2. pc' \in [Calls -> Phases] /\ todo' \in [Calls -> SUBSET Files]
    BY <1>24, TreatedType, PhasesOfCalls DEF RollbackFile
  <2> QED
    BY <1>24, <2>1, <2>2 DEF RollbackFile, TypeOK
<1>25. ASSUME NEW r \in Runs, CleanupOrphanedStaging(r) PROVE TypeOK'
  BY <1>25, RemoveStagingDirType DEF CleanupOrphanedStaging, TypeOK
<1>26. ASSUME NEW f \in Views, RefreshView(f) PROVE TypeOK'
  BY <1>26 DEF RefreshView, Listed, TypeOK
<1>27. ASSUME UNCHANGED vars PROVE TypeOK'
  BY <1>27 DEF vars, TypeOK
<1> QED
  BY <1>1, <1>2, <1>3, <1>4, <1>5, <1>6, <1>7, <1>8, <1>9, <1>10, <1>11,
     <1>12, <1>13, <1>14, <1>15, <1>16, <1>17, <1>18, <1>19, <1>20,
     <1>21, <1>22, <1>23, <1>24, <1>25, <1>26, <1>27, <1>28
  DEF Next, CallStep, Fault, Finished

(* Every variable of the write path keeps its type.                        *)
THEOREM TypeCorrect == Spec => []TypeOK
<1>1. Init => TypeOK
  BY ContentOfPaths, PhasesOfCalls DEF Init, TypeOK, NoFiles, EmptyStaging
<1> QED
  BY <1>1, TypeStep, PTL DEF Spec

-----------------------------------------------------------------------------
(* A committed run is whole, and stays so.  The invariant that carries the *)
(* proof says what a call knows of its run at each control point: nobody   *)
(* else is at work on it, it is not committed yet, whatever is staged for  *)
(* it is the call's own, and the files the call has gone through are       *)
(* published as the call wrote them.                                       *)

Uncommitted == BeforeTry \cup (InTry \ {"unlink_manifest", "drop_staged"}) \cup {"rollback"}
AllPublished == {"validate", "stage_manifest", "check_manifest", "commit", "copy_manifest",
                 "unlink_manifest"}

CallInv(c) ==
    /\ pc[c] \in Uncommitted => manifest[RunOf[c]] \notin Calls
    /\ pc[c] \in {"copy_manifest", "unlink_manifest"} => Backend = "s3"
    /\ pc[c] = "unlink_manifest" => manifest[RunOf[c]] \notin Calls \ {c}
    /\ pc[c] \in Active \ {"clear_staging"} =>
          \A s \in Slots : staging[RunOf[c]][s] \in {c, NoFile}
    /\ pc[c] \in {"publish", "move", "copy"} =>
          \A f \in Files \ todo[c] : final[RunOf[c]][f] = c
    /\ pc[c] \in {"move", "copy"} => moving[c] \in todo[c]
    /\ pc[c] = "copy" => final[RunOf[c]][moving[c]] # NoFile
    /\ pc[c] \in AllPublished => \A f \in Files : final[RunOf[c]][f] = c

RunInv(r) ==
    manifest[r] \in Calls =>
        /\ RunOf[manifest[r]] = r
        /\ \A f \in Files : final[r][f] = manifest[r]

Alone ==
    \A c, d \in Calls : pc[c] \in Active /\ pc[d] \in Active /\ RunOf[c] = RunOf[d] => c = d

IInv ==
    /\ Alone
    /\ \A c \in Calls : CallInv(c)
    /\ \A r \in Runs : RunInv(r)
(* A step of c leaves what other calls do and other runs hold alone.       *)
Frame(c) ==
    /\ \A d \in Calls \ {c} : pc'[d] = pc[d] /\ todo'[d] = todo[d] /\ moving'[d] = moving[d]
    /\ \A r \in Runs \ {RunOf[c]} :
          staging'[r] = staging[r] /\ final'[r] = final[r] /\ manifest'[r] = manifest[r]

(* A step does not touch r if r is committed.                              *)
Kept(r) ==
    Committed(r) => Committed(r)' /\ manifest'[r] = manifest[r] /\ final'[r] = final[r]

LEMMA StepOfOneCall ==
    ASSUME TypeOK, IInv, NEW c \in Calls, pc[c] \in Active, Frame(c),
           CallInv(c)', RunInv(RunOf[c])', Kept(RunOf[c])
    PROVE  IInv' /\ \A r \in Runs : Kept(r)
<1> USE CallsAssumption
<1>1. Alone'
  BY DEF IInv, Alone, Frame
<1>2. \A d \in Calls : CallInv(d)'
  <2> SUFFICES ASSUME NEW d \in Calls, d # c PROVE CallInv(d)'
    OBVIOUS
  <2>1. CASE pc[d] \notin Active
    BY <2>1 DEF CallInv, Frame, Uncommitted, AllPublished, Active, InTry
  <2>2. CASE pc[d] \in Active
    <3>1. RunOf[d] # RunOf[c]
      BY <2>2 DEF IInv, Alone
    <3>2. CallInv(d)
      BY DEF IInv
    <3> QED
      BY <3>1, <3>2 DEF CallInv, Frame
  <2> QED
    BY <2>1, <2>2
<1>3. \A r \in Runs : RunInv(r)'
  BY DEF IInv, RunInv, Frame
<1>4. \A r \in Runs : Kept(r)
  BY DEF IInv, RunInv, Kept, Committed, Frame
<1> QED
  BY <1>1, <1>2, <1>3, <1>4 DEF IInv

(* A step that leaves the files of a run alone keeps what is known of it,  *)
(* unless it takes a call back to the unlink of the staged manifest.       *)
LEMMA RunUnchanged ==
    ASSUME IInv, NEW c \in Calls, NEW r \in Runs, manifest'[r] = manifest[r], final'[r] = final[r],
           \A d \in Calls \ {c} : pc'[d] = pc[d], pc'[c] # "unlink_manifest"
    PROVE  RunInv(r)' /\ Kept(r)
  BY DEF IInv, RunInv, Kept, Committed

-----------------------------------------------------------------------------
(* The steps of a call, one by one.                                        *)

LEMMA ClearStagingStep ==
    ASSUME TypeOK, TypeOK', IInv, NEW c \in Calls, ClearStaging(c)
    PROVE  IInv' /\ \A r \in Runs : Kept(r)
<1> USE CallsAssumption, ContentAssumption, FilesAreSlots, NextInLeft
<1>1. Frame(c)
  BY DEF ClearStaging, RemoveStagingDir, EmptyStaging, Goto, Frame, TypeOK
<1>2. pc[c] \in Active
  BY DEF ClearStaging, RemoveStagingDir, EmptyStaging, Uncommitted, AllPublished, Active, BeforeTry, InTry, Finally
<1>3. CallInv(c)'
  BY DEF IInv, CallInv, RunInv, ClearStaging, RemoveStagingDir, EmptyStaging, Goto, TypeOK,
         Uncommitted, AllPublished, Active, BeforeTry, InTry, Finally
<1>4. RunInv(RunOf[c])' /\ Kept(RunOf[c])
  BY DEF IInv, CallInv, RunInv, Kept, Committed, ClearStaging, RemoveStagingDir, EmptyStaging, Goto, TypeOK,
         Uncommitted, AllPublished, Active, BeforeTry, InTry, Finally
<1> QED
  BY <1>1, <1>2, <1>3, <1>4, StepOfOneCall

LEMMA RemoveOrphanedRunFileStep ==
    ASSUME TypeOK, TypeOK', IInv, NEW c \in Calls, NEW f \in Files, RemoveOrphanedRunFile(c, f)
    PROVE  IInv' /\ \A r \in Runs : Kept(r)
<1> USE CallsAssumption, ContentAssumption, FilesAreSlots, NextInLeft
<1>1. Frame(c)
  BY DEF RemoveOrphanedRunFile, RemoveFile, Treated, Goto, Frame, TypeOK
<1>2. pc[c] \in Active
  BY DEF RemoveOrphanedRunFile, Treated, Uncommitted, AllPublished, Active, BeforeTry, InTry, Finally
<1>3. CallInv(c)'
  <2>1. pc[c] = "clear_orphans" /\ pc'[c] \in {"clear_orphans", "make_staging"}
    BY DEF RemoveOrphanedRunFile, Treated, Goto, TypeOK
  <2>2. staging' = staging /\ manifest' = manifest
    BY DEF RemoveOrphanedRunFile
  <2> QED
    BY <2>1, <2>2 DEF IInv, CallInv, Uncommitted, AllPublished, Active, BeforeTry, InTry
<1>4. RunInv(RunOf[c])' /\ Kept(RunOf[c])
  BY DEF IInv, CallInv, RunInv, Kept, Committed, RemoveOrphanedRunFile, RemoveFile, Treated, Goto, TypeOK,
         Uncommitted, AllPublished, Active, BeforeTry, InTry, Finally
<1> QED
  BY <1>1, <1>2, <1>3, <1>4, StepOfOneCall

LEMMA MakeStagingDirStep ==
    ASSUME TypeOK, TypeOK', IInv, NEW c \in Calls, MakeStagingDir(c)
    PROVE  IInv' /\ \A r \in Runs : Kept(r)
<1> USE CallsAssumption, ContentAssumption, FilesAreSlots, NextInLeft
<1>1. Frame(c)
  BY DEF MakeStagingDir, Goto, Frame, TypeOK
<1>2. pc[c] \in Active
  BY DEF MakeStagingDir, Uncommitted, AllPublished, Active, BeforeTry, InTry, Finally
<1>3. CallInv(c)'
  BY DEF IInv, CallInv, RunInv, MakeStagingDir, Goto, TypeOK,
         Uncommitted, AllPublished, Active, BeforeTry, InTry, Finally
<1>4. RunInv(RunOf[c])' /\ Kept(RunOf[c])
  BY DEF IInv, CallInv, RunInv, Kept, Committed, MakeStagingDir, Goto, TypeOK,
         Uncommitted, AllPublished, Active, BeforeTry, InTry, Finally
<1> QED
  BY <1>1, <1>2, <1>3, <1>4, StepOfOneCall

LEMMA StageFileStep ==
    ASSUME TypeOK, TypeOK', IInv, NEW c \in Calls, NEW f \in Files, StageFile(c, f)
    PROVE  IInv' /\ \A r \in Runs : Kept(r)
<1> USE CallsAssumption, ContentAssumption, FilesAreSlots, NextInLeft
<1>1. Frame(c)
  BY DEF StageFile, Treated, Raise, Goto, Frame, TypeOK
<1>2. pc[c] \in Active
  BY DEF StageFile, Treated, Raise, Uncommitted, AllPublished, Active, BeforeTry, InTry, Finally
<1>3. CallInv(c)'
  <2>1. CASE Raise(c) /\ UNCHANGED <<stagingDirs, staging>>
    <3>1. pc'[c] = "rollback" /\ pc[c] = "stage"
      BY <2>1 DEF StageFile, Raise, Goto, TypeOK
    <3> QED
      BY <2>1, <3>1 DEF IInv, CallInv, StageFile, Uncommitted, AllPublished, Active, BeforeTry, InTry
  <2>2. CASE staging' = [staging EXCEPT ![RunOf[c]][f] = c] /\ Treated(c, f, "publish", Files)
    <3>1. pc[c] = "stage" /\ (pc'[c] = "stage" \/ (pc'[c] = "publish" /\ todo'[c] = Files))
      <4>1. CASE todo[c] = {f}
        BY <2>2, <4>1 DEF StageFile, Treated, Goto, TypeOK
      <4>2. CASE todo[c] # {f}
        BY <2>2, <4>2 DEF StageFile, Treated
      <4> QED
        BY <4>1, <4>2
    <3>2. \A s \in Slots : staging'[RunOf[c]][s] \in {c, NoFile}
      <4>1. \A s \in Slots : staging[RunOf[c]][s] \in {c, NoFile}
        BY <3>1 DEF IInv, CallInv, Active, InTry
      <4> QED
        BY <2>2, <4>1 DEF TypeOK
    <3> QED
      BY <3>1, <3>2 DEF IInv, CallInv, StageFile, Uncommitted, AllPublished, BeforeTry, InTry
  <2> QED
    BY <2>1, <2>2 DEF StageFile
<1>4. RunInv(RunOf[c])' /\ Kept(RunOf[c])
  BY DEF IInv, CallInv, RunInv, Kept, Committed, StageFile, Treated, Raise, Goto, TypeOK,
         Uncommitted, AllPublished, Active, BeforeTry, InTry, Finally
<1> QED
  BY <1>1, <1>2, <1>3, <1>4, StepOfOneCall

LEMMA TakeFileStep ==
    ASSUME TypeOK, TypeOK', IInv, NEW c \in Calls, NEW f \in Files, TakeFile(c, f)
    PROVE  IInv' /\ \A r \in Runs : Kept(r)
<1> USE CallsAssumption, ContentAssumption, FilesAreSlots, NextInLeft
<1>1. Frame(c)
  BY DEF TakeFile, Raise, files, Goto, Frame, TypeOK
<1>2. pc[c] \in Active
  BY DEF TakeFile, Raise, files, Uncommitted, AllPublished, Active, BeforeTry, InTry, Finally
<1>3. CallInv(c)'
  BY DEF IInv, CallInv, RunInv, TakeFile, Raise, files, Goto, TypeOK,
         Uncommitted, AllPublished, Active, BeforeTry, InTry, Finally
<1>4. RunInv(RunOf[c])' /\ Kept(RunOf[c])
  BY DEF IInv, CallInv, RunInv, Kept, Committed, TakeFile, Raise, files, Goto, TypeOK,
         Uncommitted, AllPublished, Active, BeforeTry, InTry, Finally
<1> QED
  BY <1>1, <1>2, <1>3, <1>4, StepOfOneCall

LEMMA RenameStagedFileStep ==
    ASSUME TypeOK, TypeOK', IInv, NEW c \in Calls, RenameStagedFile(c)
    PROVE  IInv' /\ \A r \in Runs : Kept(r)
<1> USE CallsAssumption, ContentAssumption, FilesAreSlots, NextInLeft
<1>1. Frame(c)
  BY DEF RenameStagedFile, Moved, Goto, Frame, TypeOK
<1>2. pc[c] \in Active
  BY DEF RenameStagedFile, Moved, Uncommitted, AllPublished, Active, BeforeTry, InTry, Finally
<1>3. CallInv(c)'
  BY DEF IInv, CallInv, RunInv, RenameStagedFile, Moved, Goto, TypeOK,
         Uncommitted, AllPublished, Active, BeforeTry, InTry, Finally
<1>4. RunInv(RunOf[c])' /\ Kept(RunOf[c])
  BY DEF IInv, CallInv, RunInv, Kept, Committed, RenameStagedFile, Moved, Goto, TypeOK,
         Uncommitted, AllPublished, Active, BeforeTry, InTry, Finally
<1> QED
  BY <1>1, <1>2, <1>3, <1>4, StepOfOneCall

LEMMA LoseStagedFileStep ==
    ASSUME TypeOK, TypeOK', IInv, NEW c \in Calls, LoseStagedFile(c)
    PROVE  IInv' /\ \A r \in Runs : Kept(r)
<1> USE CallsAssumption, ContentAssumption, FilesAreSlots, NextInLeft
<1>1. Frame(c)
  BY DEF LoseStagedFile, FailMove, Raise, Goto, Frame, TypeOK
<1>2. pc[c] \in Active
  BY DEF LoseStagedFile, FailMove, Raise, Uncommitted, AllPublished, Active, BeforeTry, InTry, Finally
<1>3. CallInv(c)'
  <2>1. pc'[c] = "rollback" /\ pc[c] \in {"move", "copy"}
    BY DEF LoseStagedFile, FailMove, Raise, Goto, TypeOK
  <2> QED
    BY <2>1 DEF IInv, CallInv, LoseStagedFile, Uncommitted, AllPublished, Active, InTry
<1>4. RunInv(RunOf[c])' /\ Kept(RunOf[c])
  BY DEF IInv, CallInv, RunInv, Kept, Committed, LoseStagedFile, FailMove, Raise, Goto, TypeOK,
         Uncommitted, AllPublished, Active, BeforeTry, InTry, Finally
<1> QED
  BY <1>1, <1>2, <1>3, <1>4, StepOfOneCall

LEMMA StartCopyStep ==
    ASSUME TypeOK, TypeOK', IInv, NEW c \in Calls, StartCopy(c)
    PROVE  IInv' /\ \A r \in Runs : Kept(r)
<1> USE CallsAssumption, ContentAssumption, FilesAreSlots, NextInLeft
<1>1. Frame(c)
  BY DEF StartCopy, Goto, Frame, TypeOK
<1>2. pc[c] \in Active
  BY DEF StartCopy, Uncommitted, AllPublished, Active, BeforeTry, InTry, Finally
<1>3. CallInv(c)'
  BY DEF IInv, CallInv, RunInv, StartCopy, Goto, TypeOK,
         Uncommitted, AllPublished, Active, BeforeTry, InTry, Finally
<1>4. RunInv(RunOf[c])' /\ Kept(RunOf[c])
  BY DEF IInv, CallInv, RunInv, Kept, Committed, StartCopy, Goto, TypeOK,
         Uncommitted, AllPublished, Active, BeforeTry, InTry, Finally
<1> QED
  BY <1>1, <1>2, <1>3, <1>4, StepOfOneCall

LEMMA FinishCopyStep ==
    ASSUME TypeOK, TypeOK', IInv, NEW c \in Calls, FinishCopy(c)
    PROVE  IInv' /\ \A r \in Runs : Kept(r)
<1> USE CallsAssumption, ContentAssumption, FilesAreSlots, NextInLeft
<1>1. Frame(c)
  BY DEF FinishCopy, Moved, Goto, Frame, TypeOK
<1>2. pc[c] \in Active
  BY DEF FinishCopy, Moved, Uncommitted, AllPublished, Active, BeforeTry, InTry, Finally
<1>3. CallInv(c)'
  BY DEF IInv, CallInv, RunInv, FinishCopy, Moved, Goto, TypeOK,
         Uncommitted, AllPublished, Active, BeforeTry, InTry, Finally
<1>4. RunInv(RunOf[c])' /\ Kept(RunOf[c])
  BY DEF IInv, CallInv, RunInv, Kept, Committed, FinishCopy, Moved, Goto, TypeOK,
         Uncommitted, AllPublished, Active, BeforeTry, InTry, Finally
<1> QED
  BY <1>1, <1>2, <1>3, <1>4, StepOfOneCall

LEMMA ValidateArtifactRefTargetsStep ==
    ASSUME TypeOK, TypeOK', IInv, NEW c \in Calls, ValidateArtifactRefTargets(c)
    PROVE  IInv' /\ \A r \in Runs : Kept(r)
<1> USE CallsAssumption, ContentAssumption, FilesAreSlots, NextInLeft
<1>1. Frame(c)
  BY DEF ValidateArtifactRefTargets, Raise, files, Goto, Frame, TypeOK
<1>2. pc[c] \in Active
  BY DEF ValidateArtifactRefTargets, Raise, files, Uncommitted, AllPublished, Active, BeforeTry, InTry, Finally
<1>3. CallInv(c)'
  BY DEF IInv, CallInv, RunInv, ValidateArtifactRefTargets, Raise, files, Goto, TypeOK,
         Uncommitted, AllPublished, Active, BeforeTry, InTry, Finally
<1>4. RunInv(RunOf[c])' /\ Kept(RunOf[c])
  BY DEF IInv, CallInv, RunInv, Kept, Committed, ValidateArtifactRefTargets, Raise, files, Goto, TypeOK,
         Uncommitted, AllPublished, Active, BeforeTry, InTry, Finally
<1> QED
  BY <1>1, <1>2, <1>3, <1>4, StepOfOneCall

LEMMA StageManifestStep ==
    ASSUME TypeOK, TypeOK', IInv, NEW c \in Calls, StageManifest(c)
    PROVE  IInv' /\ \A r \in Runs : Kept(r)
<1> USE CallsAssumption, ContentAssumption, FilesAreSlots, NextInLeft
<1>1. Frame(c)
  BY DEF StageManifest, Goto, Frame, TypeOK
<1>2. pc[c] \in Active
  BY DEF StageManifest, Uncommitted, AllPublished, Active, BeforeTry, InTry, Finally
<1>3. CallInv(c)'
  BY DEF IInv, CallInv, RunInv, StageManifest, Goto, TypeOK,
         Uncommitted, AllPublished, Active, BeforeTry, InTry, Finally
<1>4. RunInv(RunOf[c])' /\ Kept(RunOf[c])
  BY DEF IInv, CallInv, RunInv, Kept, Committed, StageManifest, Goto, TypeOK,
         Uncommitted, AllPublished, Active, BeforeTry, InTry, Finally
<1> QED
  BY <1>1, <1>2, <1>3, <1>4, StepOfOneCall

LEMMA CheckManifestStep ==
    ASSUME TypeOK, TypeOK', IInv, NEW c \in Calls, CheckManifest(c)
    PROVE  IInv' /\ \A r \in Runs : Kept(r)
<1> USE CallsAssumption, ContentAssumption, FilesAreSlots, NextInLeft
<1>1. Frame(c)
  BY DEF CheckManifest, Raise, files, Goto, Frame, TypeOK
<1>2. pc[c] \in Active
  BY DEF CheckManifest, Raise, files, Uncommitted, AllPublished, Active, BeforeTry, InTry, Finally
<1>3. CallInv(c)'
  BY DEF IInv, CallInv, RunInv, CheckManifest, Raise, files, Goto, TypeOK,
         Uncommitted, AllPublished, Active, BeforeTry, InTry, Finally
<1>4. RunInv(RunOf[c])' /\ Kept(RunOf[c])
  BY DEF IInv, CallInv, RunInv, Kept, Committed, CheckManifest, Raise, files, Goto, TypeOK,
         Uncommitted, AllPublished, Active, BeforeTry, InTry, Finally
<1> QED
  BY <1>1, <1>2, <1>3, <1>4, StepOfOneCall

LEMMA LinkManifestStep ==
    ASSUME TypeOK, TypeOK', IInv, NEW c \in Calls, LinkManifest(c)
    PROVE  IInv' /\ \A r \in Runs : Kept(r)
<1> USE CallsAssumption, ContentAssumption, FilesAreSlots, NextInLeft
<1>1. Frame(c)
  BY DEF LinkManifest, Raise, Goto, Frame, TypeOK
<1>2. pc[c] \in Active
  BY DEF LinkManifest, Raise, Uncommitted, AllPublished, Active, BeforeTry, InTry, Finally
<1>3. CallInv(c)'
  <2>1. CASE Raise(c) /\ UNCHANGED manifest
    <3>1. pc'[c] = "rollback" /\ pc[c] = "commit"
      BY <2>1 DEF LinkManifest, Raise, Goto, TypeOK
    <3> QED
      BY <2>1, <3>1 DEF IInv, CallInv, LinkManifest, Uncommitted, AllPublished, Active, BeforeTry, InTry
  <2>2. CASE Goto(c, "drop_staged")
    <3>1. pc'[c] = "drop_staged" /\ pc[c] = "commit"
      BY <2>2 DEF LinkManifest, Goto, TypeOK
    <3> QED
      BY <3>1 DEF IInv, CallInv, LinkManifest, Uncommitted, AllPublished, Active, BeforeTry, InTry
  <2> QED
    BY <2>1, <2>2 DEF LinkManifest
<1>4. RunInv(RunOf[c])' /\ Kept(RunOf[c])
  BY DEF IInv, CallInv, RunInv, Kept, Committed, LinkManifest, Raise, Goto, TypeOK,
         Uncommitted, AllPublished, Active, BeforeTry, InTry, Finally
<1> QED
  BY <1>1, <1>2, <1>3, <1>4, StepOfOneCall

LEMMA StartManifestCopyStep ==
    ASSUME TypeOK, TypeOK', IInv, NEW c \in Calls, StartManifestCopy(c)
    PROVE  IInv' /\ \A r \in Runs : Kept(r)
<1> USE CallsAssumption, ContentAssumption, FilesAreSlots, NextInLeft
<1>1. Frame(c)
  BY DEF StartManifestCopy, Goto, Frame, TypeOK
<1>2. pc[c] \in Active
  BY DEF StartManifestCopy, Uncommitted, AllPublished, Active, BeforeTry, InTry, Finally
<1>3. CallInv(c)'
  BY DEF IInv, CallInv, RunInv, StartManifestCopy, Goto, TypeOK,
         Uncommitted, AllPublished, Active, BeforeTry, InTry, Finally
<1>4. RunInv(RunOf[c])' /\ Kept(RunOf[c])
  BY DEF IInv, CallInv, RunInv, Kept, Committed, StartManifestCopy, Goto, TypeOK,
         Uncommitted, AllPublished, Active, BeforeTry, InTry, Finally
<1> QED
  BY <1>1, <1>2, <1>3, <1>4, StepOfOneCall

LEMMA FinishManifestCopyStep ==
    ASSUME TypeOK, TypeOK', IInv, NEW c \in Calls, FinishManifestCopy(c)
    PROVE  IInv' /\ \A r \in Runs : Kept(r)
<1> USE CallsAssumption, ContentAssumption, FilesAreSlots, NextInLeft
<1>1. Frame(c)
  BY DEF FinishManifestCopy, Goto, Frame, TypeOK
<1>2. pc[c] \in Active
  BY DEF FinishManifestCopy, Uncommitted, AllPublished, Active, BeforeTry, InTry, Finally
<1>3. CallInv(c)'
  <2>1. pc'[c] = "unlink_manifest" /\ pc[c] = "copy_manifest"
    BY DEF FinishManifestCopy, Goto, TypeOK
  <2>2. staging[RunOf[c]][Manifest] \in {c, NoFile}
    BY <2>1 DEF IInv, CallInv, Active, InTry
  <2>3. manifest'[RunOf[c]] \notin Calls \ {c}
    BY <2>2 DEF FinishManifestCopy, TypeOK
  <2> QED
    BY <2>1, <2>3 DEF IInv, CallInv, FinishManifestCopy, Uncommitted, AllPublished, Active,
                      BeforeTry, InTry
<1>4. RunInv(RunOf[c])' /\ Kept(RunOf[c])
  BY DEF IInv, CallInv, RunInv, Kept, Committed, FinishManifestCopy, Goto, TypeOK,
         Uncommitted, AllPublished, Active, BeforeTry, InTry, Finally
<1> QED
  BY <1>1, <1>2, <1>3, <1>4, StepOfOneCall

LEMMA UnlinkCopiedManifestStep ==
    ASSUME TypeOK, TypeOK', IInv, NEW c \in Calls, UnlinkCopiedManifest(c)
    PROVE  IInv' /\ \A r \in Runs : Kept(r)
<1> USE CallsAssumption, ContentAssumption, FilesAreSlots, NextInLeft
<1>1. Frame(c)
  BY DEF UnlinkCopiedManifest, Goto, Frame, TypeOK
<1>2. pc[c] \in Active
  BY DEF UnlinkCopiedManifest, Active, InTry
<1>3. CallInv(c)'
  <2>1. pc'[c] = "drop_staged" /\ pc[c] = "unlink_manifest"
    BY DEF UnlinkCopiedManifest, Goto, TypeOK
  <2>2. \A s \in Slots : staging'[RunOf[c]][s] \in {c, NoFile}
    <3>1. \A s \in Slots : staging[RunOf[c]][s] \in {c, NoFile}
      BY <2>1 DEF IInv, CallInv, Active, InTry
    <3> QED
      BY <3>1 DEF UnlinkCopiedManifest, TypeOK
  <2> QED
    BY <2>1, <2>2 DEF CallInv, Uncommitted, AllPublished, BeforeTry, InTry
<1>4. RunInv(RunOf[c])' /\ Kept(RunOf[c])
  BY DEF IInv, RunInv, Kept, Committed, UnlinkCopiedManifest, Goto, TypeOK
<1> QED
  BY <1>1, <1>2, <1>3, <1>4, StepOfOneCall

LEMMA LoseStagedManifestStep ==
    ASSUME TypeOK, TypeOK', IInv, NEW c \in Calls, LoseStagedManifest(c)
    PROVE  IInv' /\ \A r \in Runs : Kept(r)
<1> USE CallsAssumption, ContentAssumption, FilesAreSlots, NextInLeft
<1>1. Frame(c)
  BY DEF LoseStagedManifest, FailManifestCopy, Raise, Goto, Frame, TypeOK
<1>2. pc[c] \in Active
  BY DEF LoseStagedManifest, FailManifestCopy, Raise, Uncommitted, AllPublished, Active, BeforeTry, InTry, Finally
<1>3. CallInv(c)'
  <2>1. pc'[c] = "rollback" /\ pc[c] \in {"commit", "copy_manifest", "unlink_manifest"}
    BY DEF LoseStagedManifest, FailManifestCopy, Raise, Goto, TypeOK
  <2>2. manifest'[RunOf[c]] = NoFile
    BY DEF LoseStagedManifest, FailManifestCopy, TypeOK
  <2> QED
    BY <2>1, <2>2 DEF IInv, CallInv, LoseStagedManifest, AllPublished, Active, InTry
<1>4. RunInv(RunOf[c])' /\ Kept(RunOf[c])
  BY DEF IInv, CallInv, RunInv, Kept, Committed, LoseStagedManifest, FailManifestCopy, Raise, Goto, TypeOK,
         Uncommitted, AllPublished, Active, BeforeTry, InTry, Finally
<1> QED
  BY <1>1, <1>2, <1>3, <1>4, StepOfOneCall

LEMMA DropStagedManifestStep ==
    ASSUME TypeOK, TypeOK', IInv, NEW c \in Calls, DropStagedManifest(c)
    PROVE  IInv' /\ \A r \in Runs : Kept(r)
<1> USE CallsAssumption, ContentAssumption, FilesAreSlots, NextInLeft
<1>1. Frame(c)
  BY DEF DropStagedManifest, Goto, Frame, TypeOK
<1>2. pc[c] \in Active
  BY DEF DropStagedManifest, Uncommitted, AllPublished, Active, BeforeTry, InTry, Finally
<1>3. CallInv(c)'
  <2>1. pc'[c] = "finally_ok" /\ pc[c] = "drop_staged"
    BY DEF DropStagedManifest, Goto, TypeOK
  <2>2. \A s \in Slots : staging'[RunOf[c]][s] \in {c, NoFile}
    <3>1. \A s \in Slots : staging[RunOf[c]][s] \in {c, NoFile}
      BY <2>1 DEF IInv, CallInv, Active, InTry
    <3> QED
      BY <3>1 DEF DropStagedManifest, TypeOK
  <2> QED
    BY <2>1, <2>2 DEF CallInv, Uncommitted, AllPublished, BeforeTry, InTry
<1>4. RunInv(RunOf[c])' /\ Kept(RunOf[c])
  BY DEF IInv, CallInv, RunInv, Kept, Committed, DropStagedManifest, Goto, TypeOK,
         Uncommitted, AllPublished, Active, BeforeTry, InTry, Finally
<1> QED
  BY <1>1, <1>2, <1>3, <1>4, StepOfOneCall

LEMMA RollbackFileStep ==
    ASSUME TypeOK, TypeOK', IInv, NEW c \in Calls, NEW f \in Files, RollbackFile(c, f)
    PROVE  IInv' /\ \A r \in Runs : Kept(r)
<1> USE CallsAssumption, ContentAssumption, FilesAreSlots, NextInLeft
<1>1. Frame(c)
  BY DEF RollbackFile, RemoveFile, Treated, Goto, Frame, TypeOK
<1>2. pc[c] \in Active
  BY DEF RollbackFile, Treated, Uncommitted, AllPublished, Active, BeforeTry, InTry, Finally
<1>3. CallInv(c)'
  <2>1. pc'[c] \in {"rollback", "finally_raise"} /\ pc[c] = "rollback"
    BY DEF RollbackFile, Treated, Goto, TypeOK
  <2> QED
    BY <2>1 DEF IInv, CallInv, RollbackFile, Uncommitted, AllPublished, Active, BeforeTry, InTry
<1>4. RunInv(RunOf[c])' /\ Kept(RunOf[c])
  BY DEF IInv, CallInv, RunInv, Kept, Committed, RollbackFile, RemoveFile, Treated, Goto, TypeOK,
         Uncommitted, AllPublished, Active, BeforeTry, InTry, Finally
<1> QED
  BY <1>1, <1>2, <1>3, <1>4, StepOfOneCall

LEMMA RemoveStagingStep ==
    ASSUME TypeOK, TypeOK', IInv, NEW c \in Calls, RemoveStaging(c)
    PROVE  IInv' /\ \A r \in Runs : Kept(r)
<1> USE CallsAssumption, ContentAssumption, FilesAreSlots, NextInLeft
<1>1. Frame(c)
  BY DEF RemoveStaging, RemoveStagingDir, EmptyStaging, Leave, Finally, Goto, Frame, TypeOK
<1>2. pc[c] \in Active
  BY DEF RemoveStaging, RemoveStagingDir, EmptyStaging, Leave, Finally, Uncommitted, AllPublished, Active, BeforeTry, InTry
<1>3. CallInv(c)'
  BY DEF IInv, CallInv, RunInv, RemoveStaging, RemoveStagingDir, EmptyStaging, Leave, Finally, Goto, TypeOK,
         Uncommitted, AllPublished, Active, BeforeTry, InTry
<1>4. RunInv(RunOf[c])' /\ Kept(RunOf[c])
  <2>1. manifest' = manifest /\ final' = final
    BY DEF RemoveStaging, Finally
  <2>2. pc'[c] \in {"refresh", "raised", "interrupted"}
    BY DEF RemoveStaging, Finally, Goto, TypeOK
  <2> QED
    BY <1>1, <2>1, <2>2, RunUnchanged DEF Frame
<1> QED
  BY <1>1, <1>2, <1>3, <1>4, StepOfOneCall

LEMMA RefreshCatalogStep ==
    ASSUME TypeOK, TypeOK', IInv, NEW c \in Calls, RefreshCatalog(c)
    PROVE  IInv' /\ \A r \in Runs : Kept(r)
<1> USE CallsAssumption, ContentAssumption, FilesAreSlots, NextInLeft
<1>1. Frame(c)
  BY DEF RefreshCatalog, Goto, Frame, TypeOK
<1>2. pc[c] \in Active
  BY DEF RefreshCatalog, Uncommitted, AllPublished, Active, BeforeTry, InTry, Finally
<1>3. CallInv(c)'
  BY DEF IInv, CallInv, RunInv, RefreshCatalog, Goto, TypeOK,
         Uncommitted, AllPublished, Active, BeforeTry, InTry, Finally
<1>4. RunInv(RunOf[c])' /\ Kept(RunOf[c])
  <2>1. manifest' = manifest /\ final' = final
    BY DEF RefreshCatalog
  <2>2. pc'[c] = "returned"
    BY DEF RefreshCatalog, Goto, TypeOK
  <2> QED
    BY <1>1, <2>1, <2>2, RunUnchanged DEF Frame
<1> QED
  BY <1>1, <1>2, <1>3, <1>4, StepOfOneCall

LEMMA InterruptStep ==
    ASSUME TypeOK, TypeOK', IInv, NEW c \in Calls, Interrupt(c)
    PROVE  IInv' /\ \A r \in Runs : Kept(r)
<1> USE CallsAssumption, ContentAssumption, FilesAreSlots, NextInLeft
<1>1. Frame(c)
  BY DEF Interrupt, Leave, files, Goto, Frame, TypeOK
<1>2. pc[c] \in Active
  BY DEF Interrupt, Leave, files, Uncommitted, AllPublished, Active, BeforeTry, InTry, Finally
<1>3. CallInv(c)'
  BY DEF IInv, CallInv, RunInv, Interrupt, Leave, files, Goto, TypeOK,
         Uncommitted, AllPublished, Active, BeforeTry, InTry, Finally
<1>4. RunInv(RunOf[c])' /\ Kept(RunOf[c])
  <2>1. manifest' = manifest /\ final' = final
    BY DEF Interrupt, files
  <2>2. pc'[c] \in {"interrupted", "finally_interrupt"}
    BY DEF Interrupt, files, Goto, TypeOK
  <2> QED
    BY <1>1, <2>1, <2>2, RunUnchanged DEF Frame
<1> QED
  BY <1>1, <1>2, <1>3, <1>4, StepOfOneCall

LEMMA CrashStep ==
    ASSUME TypeOK, TypeOK', IInv, NEW c \in Calls, Crash(c)
    PROVE  IInv' /\ \A r \in Runs : Kept(r)
<1> USE CallsAssumption, ContentAssumption, FilesAreSlots, NextInLeft
<1>1. Frame(c)
  BY DEF Crash, Leave, files, Goto, Frame, TypeOK
<1>2. pc[c] \in Active
  BY DEF Crash, Leave, files, Uncommitted, AllPublished, Active, BeforeTry, InTry, Finally
<1>3. CallInv(c)'
  BY DEF IInv, CallInv, RunInv, Crash, Leave, files, Goto, TypeOK,
         Uncommitted, AllPublished, Active, BeforeTry, InTry, Finally
<1>4. RunInv(RunOf[c])' /\ Kept(RunOf[c])
  <2>1. manifest' = manifest /\ final' = final
    BY DEF Crash, files
  <2>2. pc'[c] = "crashed"
    BY DEF Crash, files, Goto, TypeOK
  <2> QED
    BY <1>1, <2>1, <2>2, RunUnchanged DEF Frame
<1> QED
  BY <1>1, <1>2, <1>3, <1>4, StepOfOneCall

(* Without SingleWriter a call could begin beside another one on its run.  *)
LEMMA WriteBundleStep ==
    ASSUME TypeOK, TypeOK', IInv, SingleWriter, NEW c \in Calls, WriteBundle(c)
    PROVE  IInv' /\ \A r \in Runs : Kept(r)
<1> USE CallsAssumption, ContentAssumption
<1>1. \A d \in Calls \ {c} : pc'[d] = pc[d]
  BY DEF WriteBundle, Goto, TypeOK
<1>2. pc[c] = "idle" /\ (pc'[c] = "raised" \/ (pc'[c] = "clear_staging" /\ ~RunExists(RunOf[c])))
  <2>1. CASE RunExists(RunOf[c])
    BY <2>1 DEF WriteBundle, Goto, TypeOK
  <2>2. CASE ~RunExists(RunOf[c])
    BY <2>2 DEF WriteBundle, Goto, TypeOK
  <2> QED
    BY <2>1, <2>2
<1>3. Alone'
  BY <1>1, <1>2 DEF WriteBundle, IInv, Alone, Active, BeforeTry, InTry, Finally
<1>4. \A d \in Calls : CallInv(d)'
  <2>1. CallInv(c)'
    BY <1>2 DEF CallInv, WriteBundle, files, RunExists, Uncommitted, AllPublished, Active,
                BeforeTry, InTry, Finally
  <2>2. ASSUME NEW d \in Calls \ {c} PROVE CallInv(d)'
    BY <1>1, <2>2 DEF IInv, CallInv, WriteBundle, files
  <2> QED
    BY <2>1, <2>2
<1>5. \A r \in Runs : RunInv(r)' /\ Kept(r)
  BY <1>1, <1>2, RunUnchanged DEF WriteBundle, files
<1> QED
  BY <1>3, <1>4, <1>5 DEF IInv

(* Nor may the unlink of the staged manifest raise: the call would roll    *)
(* back a run it has committed.                                            *)
LEMMA ErrorStep ==
    ASSUME TypeOK, TypeOK', IInv, "late_error" \notin Faults, NEW c \in Calls, Error(c)
    PROVE  IInv' /\ \A r \in Runs : Kept(r)
<1> USE CallsAssumption, ContentAssumption, FilesAreSlots
<1>1. CASE ErrorBeforeTry(c)
  <2>1. pc'[c] = "raised" /\ pc[c] \in BeforeTry
    BY <1>1 DEF ErrorBeforeTry, Goto, TypeOK
  <2>2. Frame(c) /\ pc[c] \in Active
    BY <1>1 DEF ErrorBeforeTry, Leave, files, Goto, Frame, TypeOK, Active
  <2>3. CallInv(c)'
    BY <2>1 DEF CallInv, Uncommitted, AllPublished, Active, BeforeTry, InTry, Finally
  <2>4. RunInv(RunOf[c])' /\ Kept(RunOf[c])
    BY <1>1, <2>1, <2>2, RunUnchanged DEF ErrorBeforeTry, files, Frame
  <2> QED
    BY <2>2, <2>3, <2>4, StepOfOneCall
<1>2. CASE ErrorInTry(c)
  <2>1. pc'[c] = "rollback" /\ pc[c] \in InTry \ {"drop_staged"}
    BY <1>2 DEF Error, ErrorInTry, FailMove, FailManifestCopy, CopyingManifest, Raise, Goto,
                TypeOK, InTry
  <2>2. Frame(c) /\ pc[c] \in Active
    BY <1>2, <2>1 DEF ErrorInTry, FailMove, FailManifestCopy, Raise, Goto, Frame, TypeOK, Active
  <2>3. manifest'[RunOf[c]] \notin Calls /\ ~Committed(RunOf[c])
    <3>1. CASE pc[c] = "unlink_manifest"
      <4>1. Backend = "s3" /\ manifest[RunOf[c]] \notin Calls \ {c}
        BY <3>1 DEF IInv, CallInv
      <4>2. manifest' = [manifest EXCEPT ![RunOf[c]] = NoFile]
        BY <1>2, <3>1, <4>1 DEF ErrorInTry, FailManifestCopy, CopyingManifest
      <4> QED
        BY <3>1, <4>1, <4>2 DEF Committed, TypeOK
    <3>2. CASE pc[c] # "unlink_manifest"
      BY <1>2, <2>1, <3>2 DEF ErrorInTry, FailMove, FailManifestCopy, TypeOK, IInv, CallInv,
                              Uncommitted, Committed
    <3> QED
      BY <3>1, <3>2, <2>1
  <2>4. CallInv(c)'
    BY <1>2, <2>1, <2>3 DEF IInv, CallInv, ErrorInTry, AllPublished, Active, InTry
  <2> QED
    BY <2>2, <2>3, <2>4, StepOfOneCall DEF RunInv, Kept
<1>3. CASE ErrorInRollback(c)
  <2>1. pc'[c] = "finally_raise" /\ pc[c] = "rollback"
    BY <1>3 DEF ErrorInRollback, Goto, TypeOK
  <2>2. Frame(c) /\ pc[c] \in Active
    BY <1>3, <2>1 DEF ErrorInRollback, files, Goto, Frame, TypeOK, Active
  <2>3. CallInv(c)'
    BY <1>3, <2>1 DEF IInv, CallInv, ErrorInRollback, files, Uncommitted, AllPublished, Active,
                      BeforeTry, InTry
  <2>4. RunInv(RunOf[c])' /\ Kept(RunOf[c])
    BY <1>3, <2>1, <2>2, RunUnchanged DEF ErrorInRollback, files, Frame
  <2> QED
    BY <2>2, <2>3, <2>4, StepOfOneCall
<1> QED
  BY <1>1, <1>2, <1>3 DEF Error

LEMMA CleanupStep ==
    ASSUME TypeOK, TypeOK', IInv, NEW r \in Runs, CleanupOrphanedStaging(r)
    PROVE  IInv' /\ \A q \in Runs : Kept(q)
<1> USE CallsAssumption
<1>1. \A q \in Runs, s \in Slots : staging'[q][s] \in {staging[q][s], NoFile}
  BY DEF CleanupOrphanedStaging, RemoveStagingDir, EmptyStaging, TypeOK
<1>2. \A c \in Calls : CallInv(c)'
  BY <1>1 DEF IInv, CallInv, CleanupOrphanedStaging
<1> QED
  BY <1>2 DEF IInv, Alone, RunInv, Kept, Committed, CleanupOrphanedStaging

-----------------------------------------------------------------------------
LEMMA Step ==
    ASSUME SingleWriter, "late_error" \notin Faults, TypeOK, IInv, [Next]_vars
    PROVE  IInv' /\ \A r \in Runs : Kept(r)
<1>1. TypeOK'
  BY TypeStep
<1>2. ASSUME UNCHANGED <<pc, todo, moving, faulted, stagingDirs, staging, final, manifest>>
      PROVE  IInv' /\ \A r \in Runs : Kept(r)
  BY <1>2 DEF IInv, Alone, CallInv, RunInv, Kept, Committed
<1>3. ASSUME NEW c \in Calls, CallStep(c) PROVE IInv' /\ \A r \in Runs : Kept(r)
  BY <1>1, <1>3, ClearStagingStep, RemoveOrphanedRunFileStep, MakeStagingDirStep, StageFileStep,
     TakeFileStep, RenameStagedFileStep, LoseStagedFileStep, StartCopyStep, FinishCopyStep,
     ValidateArtifactRefTargetsStep, StageManifestStep, CheckManifestStep, LinkManifestStep,
     StartManifestCopyStep, FinishManifestCopyStep, UnlinkCopiedManifestStep,
     LoseStagedManifestStep,
     DropStagedManifestStep, RollbackFileStep, RemoveStagingStep, RefreshCatalogStep
  DEF CallStep
<1>4. ASSUME NEW c \in Calls, WriteBundle(c) \/ Fault(c)
      PROVE  IInv' /\ \A r \in Runs : Kept(r)
  BY <1>1, <1>4, WriteBundleStep, ErrorStep, InterruptStep, CrashStep DEF Fault
<1>5. ASSUME NEW r \in Runs, CleanupOrphanedStaging(r)
      PROVE  IInv' /\ \A q \in Runs : Kept(q)
  BY <1>1, <1>5, CleanupStep
<1> QED
  BY <1>2, <1>3, <1>4, <1>5 DEF Next, Finished, RefreshView, vars

LEMMA InitIInv == Init => IInv
  BY CallsAssumption, ContentAssumption
  DEF Init, IInv, Alone, CallInv, RunInv, Uncommitted, AllPublished, Active, BeforeTry, InTry, Finally

(* With one writer at a time on a run id, and whatever errors, interrupts  *)
(* and crashes hit the calls, a run with a readable manifest is whole.     *)
THEOREM CommittedRunsAreComplete ==
    ASSUME SingleWriter, "late_error" \notin Faults
    PROVE  Spec => []CommittedRunComplete
<1>1. TypeOK /\ IInv /\ [Next]_vars => IInv'
  BY Step
<1>2. IInv => CommittedRunComplete
  BY DEF IInv, RunInv, CommittedRunComplete
<1> QED
  BY InitIInv, TypeCorrect, <1>1, <1>2, PTL DEF Spec

(* And with either backend no step changes the manifest or a file of a run *)
(* once it is committed: with s3, once its staged manifest is unlinked.    *)
THEOREM CommittedRunsStay ==
    ASSUME SingleWriter, "late_error" \notin Faults
    PROVE  Spec => [][\A r \in Runs : Committed(r) =>
                         Committed(r)' /\ manifest'[r] = manifest[r] /\ final'[r] = final[r]]_vars
<1>1. TypeOK /\ IInv /\ [Next]_vars => IInv' /\ \A r \in Runs : Kept(r)
  BY Step
<1>2. Spec => [][\A r \in Runs : Kept(r)]_vars
  BY InitIInv, TypeCorrect, <1>1, PTL DEF Spec
<1> QED
  BY <1>2 DEF Kept

(* With the local backend a run is committed as soon as it can be read: no *)
(* step changes the manifest or a file of a run that has a manifest.       *)
LEMMA LocalRunsAreCommitted ==
    ASSUME IInv, Backend = "local", NEW r \in Runs, manifest[r] \in Calls
    PROVE  Committed(r)
  BY DEF IInv, CallInv, Committed

THEOREM CommittedRunsAreImmutable ==
    ASSUME SingleWriter, "late_error" \notin Faults, Backend = "local"
    PROVE  Spec => CommittedRunImmutable
<1> DEFINE Same == \A r \in Runs : manifest[r] \in Calls =>
                      manifest'[r] = manifest[r] /\ final'[r] = final[r]
<1>1. TypeOK /\ IInv /\ [Next]_vars => IInv' /\ Same
  BY Step, LocalRunsAreCommitted DEF Kept
<1>2. Spec => [][Same]_vars
  BY InitIInv, TypeCorrect, <1>1, PTL DEF Spec
<1> QED
  BY <1>2 DEF CommittedRunImmutable

-----------------------------------------------------------------------------
(* write_bundle implements the archive of RunArchive: each of its steps    *)
(* is a step of the archive or leaves archive and answers as they are.     *)

(* What the archive's answers rest on: a call that has gone past the       *)
(* commit owns the run, and one that is still before it does not.          *)
OwnInv ==
    \A c \in Calls :
        /\ pc[c] \in {"unlink_manifest", "drop_staged", "finally_ok", "refresh"} =>
              manifest[RunOf[c]] = c
        /\ pc[c] = "copy_manifest" => manifest[RunOf[c]] = Torn
        /\ pc[c] \in {"idle", "finally_raise"} \cup Uncommitted => manifest[RunOf[c]] # c

(* What a step of one call does to the runs and to its own answer: it      *)
(* commits the run, or it commits nothing and goes on in the order of the  *)
(* code.                                                                   *)
Commits(c) ==
    /\ \/ pc[c] = "commit" /\ pc'[c] = "drop_staged"
       \/ pc[c] = "unlink_manifest" /\ pc'[c] \in {"drop_staged", "finally_interrupt", "crashed"}
    /\ manifest' = [manifest EXCEPT ![RunOf[c]] = c]
    /\ UNCHANGED final

CommitsNothing(c) ==
    /\ IF pc'[c] = "unlink_manifest"
       THEN pc[c] = "copy_manifest" /\ manifest' = [manifest EXCEPT ![RunOf[c]] = c]
       ELSE \A r \in Runs : manifest'[r] = manifest[r] \/ manifest'[r] \notin Calls
    /\ pc[c] = "unlink_manifest" => pc'[c] = "rollback" /\ manifest'[RunOf[c]] \notin Calls
    /\ pc'[c] \notin {"idle", "drop_staged"}
    /\ pc'[c] = "finally_ok" => pc[c] = "drop_staged"
    /\ pc'[c] = "refresh" => pc[c] = "finally_ok"
    /\ pc'[c] = "returned" => pc[c] = "refresh"
    /\ pc'[c] = "raised" => pc[c] \in {"idle", "finally_raise"} \cup BeforeTry
    /\ pc'[c] = "copy_manifest" => manifest'[RunOf[c]] = Torn
    /\ pc'[c] \in Uncommitted \cup {"finally_raise"} =>
          pc[c] \in {"idle", "unlink_manifest"} \cup Uncommitted

Outcome(c) ==
    /\ pc[c] \in {"idle"} \cup Active
    /\ \A d \in Calls \ {c} : pc'[d] = pc[d]
    /\ \A r \in Runs \ {RunOf[c]} : manifest'[r] = manifest[r]
    /\ pc[c] = "idle" => UNCHANGED manifest
    /\ Commits(c) \/ CommitsNothing(c)

LEMMA OutcomeOfStep ==
    ASSUME TypeOK, IInv, OwnInv, "late_error" \notin Faults,
           NEW c \in Calls, WriteBundle(c) \/ CallStep(c) \/ Fault(c)
    PROVE  Outcome(c)
<1> USE CallsAssumption, ContentAssumption, FilesAreSlots
<1> USE DEF Outcome, Commits, CommitsNothing, Goto, TypeOK, Uncommitted, Active, BeforeTry, InTry, Finally
<1>1. CASE WriteBundle(c)
  BY <1>1 DEF WriteBundle, files
<1>2. CASE ClearStaging(c)
  BY <1>2 DEF ClearStaging
<1>3. CASE MakeStagingDir(c)
  BY <1>3 DEF MakeStagingDir
<1>4. ASSUME NEW f \in Files, RemoveOrphanedRunFile(c, f) PROVE Outcome(c)
  BY <1>4 DEF RemoveOrphanedRunFile, Treated
<1>5. ASSUME NEW f \in Files, StageFile(c, f) PROVE Outcome(c)
  BY <1>5 DEF StageFile, Treated, Raise
<1>6. ASSUME NEW f \in Files, TakeFile(c, f) PROVE Outcome(c)
  BY <1>6 DEF TakeFile, Raise, files
<1>7. ASSUME NEW f \in Files, RollbackFile(c, f) PROVE Outcome(c)
  BY <1>7 DEF RollbackFile, Treated
<1>8. CASE RenameStagedFile(c)
  BY <1>8 DEF RenameStagedFile, Moved
<1>9. CASE LoseStagedFile(c)
  BY <1>9 DEF LoseStagedFile, FailMove, Raise
<1>10. CASE StartCopy(c)
  BY <1>10 DEF StartCopy
<1>11. CASE FinishCopy(c)
  BY <1>11 DEF FinishCopy, Moved
<1>12. CASE ValidateArtifactRefTargets(c)
  BY <1>12 DEF ValidateArtifactRefTargets, Raise, files
<1>13. CASE StageManifest(c)
  BY <1>13 DEF StageManifest
<1>14. CASE CheckManifest(c)
  BY <1>14 DEF CheckManifest, Raise, files
<1>15. CASE LinkManifest(c)
  <2>1. pc[c] = "commit"
    BY <1>15 DEF LinkManifest
  <2>2. staging[RunOf[c]][Manifest] \in {c, NoFile}
    BY <2>1 DEF IInv, CallInv
  <2>3. CASE RunExists(RunOf[c]) \/ staging[RunOf[c]][Manifest] = NoFile
    BY <1>15, <2>1, <2>3 DEF LinkManifest, Raise
  <2>4. CASE ~ (RunExists(RunOf[c]) \/ staging[RunOf[c]][Manifest] = NoFile)
    <3>1. staging[RunOf[c]][Manifest] = c
      BY <2>2, <2>4
    <3>2. Commits(c)
      BY <1>15, <2>1, <2>4, <3>1 DEF LinkManifest
    <3> QED
      BY <1>15, <2>1, <2>4, <3>2 DEF LinkManifest
  <2> QED
    BY <2>3, <2>4
<1>16. CASE StartManifestCopy(c)
  BY <1>16 DEF StartManifestCopy
<1>17. CASE FinishManifestCopy(c)
  <2>1. pc[c] = "copy_manifest"
    BY <1>17 DEF FinishManifestCopy
  <2>2. staging[RunOf[c]][Manifest] \in {c, NoFile}
    BY <2>1 DEF IInv, CallInv
  <2>3. manifest' = [manifest EXCEPT ![RunOf[c]] = c]
    BY <1>17, <2>1, <2>2 DEF FinishManifestCopy, OwnInv
  <2>4. pc'[c] = "unlink_manifest" /\ \A d \in Calls \ {c} : pc'[d] = pc[d]
    BY <1>17 DEF FinishManifestCopy
  <2>5. \A r \in Runs \ {RunOf[c]} : manifest'[r] = manifest[r]
    BY <2>3
  <2>6. CommitsNothing(c)
    BY <2>1, <2>3, <2>4
  <2> HIDE DEF Commits, CommitsNothing, Goto, TypeOK
  <2> QED
    BY <2>1, <2>4, <2>5, <2>6
<1>25. CASE UnlinkCopiedManifest(c)
  <2>1. pc[c] = "unlink_manifest" /\ UNCHANGED <<manifest, final>>
    BY <1>25 DEF UnlinkCopiedManifest
  <2>2. pc'[c] = "drop_staged" /\ \A d \in Calls \ {c} : pc'[d] = pc[d]
    BY <1>25 DEF UnlinkCopiedManifest
  <2>3. manifest' = [manifest EXCEPT ![RunOf[c]] = c]
    BY <2>1 DEF OwnInv
  <2> QED
    BY <2>1, <2>2, <2>3
<1>18. CASE LoseStagedManifest(c)
  BY <1>18 DEF LoseStagedManifest, FailManifestCopy, Raise
<1>19. CASE DropStagedManifest(c)
  BY <1>19 DEF DropStagedManifest
<1>20. CASE RemoveStaging(c)
  BY <1>20 DEF RemoveStaging
<1>21. CASE RefreshCatalog(c)
  BY <1>21 DEF RefreshCatalog
<1>22. CASE Error(c)
  <2>1. CASE pc[c] = "unlink_manifest"
    <3>1. Backend = "s3"
      BY <2>1 DEF IInv, CallInv
    <3>2. manifest' = [manifest EXCEPT ![RunOf[c]] = NoFile] /\ pc' = [pc EXCEPT ![c] = "rollback"]
      BY <1>22, <2>1, <3>1 DEF Error, ErrorBeforeTry, ErrorInTry, ErrorInRollback, FailManifestCopy,
                               CopyingManifest, Raise
    <3>3. CommitsNothing(c)
      BY <2>1, <3>2
    <3> QED
      BY <2>1, <3>2, <3>3
  <2>2. CASE pc[c] # "unlink_manifest"
    BY <1>22, <2>2 DEF Error, ErrorBeforeTry, ErrorInTry, ErrorInRollback, FailMove,
                       FailManifestCopy, CopyingManifest, Raise, files
  <2> QED
    BY <2>1, <2>2
<1>23. CASE Interrupt(c)
  <2>1. CASE pc[c] = "unlink_manifest"
    <3>1. manifest' = [manifest EXCEPT ![RunOf[c]] = c]
      BY <1>23, <2>1 DEF Interrupt, files, OwnInv
    <3>2. pc' = [pc EXCEPT ![c] = "finally_interrupt"] /\ final' = final
      BY <1>23, <2>1 DEF Interrupt, files
    <3>3. Commits(c)
      BY <2>1, <3>1, <3>2
    <3> QED
      BY <2>1, <3>1, <3>2, <3>3
  <2>2. CASE pc[c] # "unlink_manifest"
    BY <1>23, <2>2 DEF Interrupt, files
  <2> QED
    BY <2>1, <2>2
<1>24. CASE Crash(c)
  <2>1. CASE pc[c] = "unlink_manifest"
    <3>1. manifest' = [manifest EXCEPT ![RunOf[c]] = c]
      BY <1>24, <2>1 DEF Crash, files, OwnInv
    <3>2. pc' = [pc EXCEPT ![c] = "crashed"] /\ final' = final
      BY <1>24, <2>1 DEF Crash, files
    <3>3. Commits(c)
      BY <2>1, <3>1, <3>2
    <3> QED
      BY <2>1, <3>1, <3>2, <3>3
  <2>2. CASE pc[c] # "unlink_manifest"
    BY <1>24, <2>2 DEF Crash, files
  <2> QED
    BY <2>1, <2>2
<1> QED
  BY <1>1, <1>2, <1>3, <1>4, <1>5, <1>6, <1>7, <1>8, <1>9, <1>10, <1>11, <1>12, <1>13,
     <1>14, <1>15, <1>16, <1>17, <1>18, <1>19, <1>20, <1>21, <1>22, <1>23, <1>24, <1>25
  DEF CallStep, Fault

-----------------------------------------------------------------------------
LEMMA OwnStepOfCall ==
    ASSUME TypeOK, IInv, IInv', OwnInv, NEW c \in Calls, Outcome(c), \A r \in Runs : Kept(r)
    PROVE  OwnInv'
<1> USE CallsAssumption, ContentAssumption
<1> SUFFICES ASSUME NEW d \in Calls
             PROVE  /\ pc'[d] \in {"unlink_manifest", "drop_staged", "finally_ok", "refresh"} =>
                          manifest'[RunOf[d]] = d
                    /\ pc'[d] = "copy_manifest" => manifest'[RunOf[d]] = Torn
                    /\ pc'[d] \in {"idle", "finally_raise"} \cup Uncommitted => manifest'[RunOf[d]] # d
  BY DEF OwnInv
<1>1. CASE d = c
  <2>1. CASE Commits(c)
    BY <1>1, <2>1 DEF Commits, TypeOK, Uncommitted, BeforeTry, InTry
  <2>2. CASE CommitsNothing(c)
    <3>1. pc'[c] = "unlink_manifest" => manifest'[RunOf[c]] = c
      BY <2>2 DEF CommitsNothing, TypeOK
    <3>2. pc'[c] \in {"finally_ok", "refresh"} => manifest'[RunOf[c]] = c
      BY <2>2 DEF CommitsNothing, OwnInv, Kept, Committed
    <3>3. pc'[c] = "copy_manifest" => manifest'[RunOf[c]] = Torn
      BY <2>2 DEF CommitsNothing
    <3>4. pc'[c] \in {"finally_raise"} \cup Uncommitted => manifest'[RunOf[c]] # c
      <4>1. pc'[c] # "unlink_manifest" => manifest'[RunOf[c]] \in {manifest[RunOf[c]]}
                                          \/ manifest'[RunOf[c]] \notin Calls
        BY <2>2 DEF CommitsNothing
      <4> QED
        BY <2>2, <4>1 DEF CommitsNothing, OwnInv, Uncommitted, BeforeTry, InTry
    <3> QED
      BY <1>1, <2>2, <3>1, <3>2, <3>3, <3>4 DEF CommitsNothing
  <2> QED
    BY <2>1, <2>2 DEF Outcome
<1>2. CASE d # c
  <2>1. pc'[d] = pc[d]
    BY <1>2 DEF Outcome
  <2>2. pc[d] \in {"unlink_manifest", "drop_staged", "finally_ok", "refresh"} =>
          manifest'[RunOf[d]] = d
    <3> SUFFICES ASSUME pc[d] \in {"unlink_manifest", "drop_staged", "finally_ok", "refresh"}
                 PROVE  manifest'[RunOf[d]] = d
      OBVIOUS
    <3>1. CASE pc[d] = "unlink_manifest"
      BY <1>2, <3>1 DEF OwnInv, Outcome, IInv, Alone, Active, InTry
    <3>2. CASE pc[d] # "unlink_manifest"
      BY <3>2 DEF OwnInv, Kept, Committed
    <3> QED
      BY <3>1, <3>2
  <2>3. manifest'[RunOf[d]] = d => manifest[RunOf[d]] = d
    BY <1>2 DEF Outcome, Commits, CommitsNothing, TypeOK
  <2>4. pc[d] = "copy_manifest" => manifest'[RunOf[d]] = Torn
    BY <1>2 DEF OwnInv, Outcome, IInv, Alone, Active, InTry
  <2> QED
    BY <2>1, <2>2, <2>3, <2>4 DEF OwnInv
<1> QED
  BY <1>1, <1>2

-----------------------------------------------------------------------------
(* The archive and the answers of a state.                                 *)
ArchiveOf == [r \in Runs |-> IF Committed(r) THEN final[r] ELSE NoFile]
AnswerAt(phase) ==
    CASE phase \in {"returned", "raised"} -> phase
      [] phase \in {"interrupted", "crashed"} -> "unknown"
      [] OTHER -> "none"
AnswerOf == [c \in Calls |-> AnswerAt(pc[c])]

(* The actions of the archive, in these terms.                             *)
LEMMA ArchiveActions ==
    ASSUME NEW c \in Calls
    PROVE  /\ /\ AnswerOf[c] = "none" /\ ArchiveOf[RunOf[c]] = NoFile
              /\ ArchiveOf' = [ArchiveOf EXCEPT ![RunOf[c]] = Archive!Evidence(c)]
              /\ AnswerOf' = AnswerOf
              => Archive!Commit(c)
           /\ /\ AnswerOf[c] = "none" /\ ArchiveOf[RunOf[c]] = Archive!Evidence(c)
              /\ AnswerOf' = [AnswerOf EXCEPT ![c] = "returned"]
              /\ ArchiveOf' = ArchiveOf
              => Archive!Return(c)
           /\ /\ AnswerOf[c] = "none" /\ ArchiveOf[RunOf[c]] # Archive!Evidence(c)
              /\ AnswerOf' = [AnswerOf EXCEPT ![c] = "raised"]
              /\ ArchiveOf' = ArchiveOf
              => Archive!Refuse(c)
           /\ /\ AnswerOf[c] = "none"
              /\ AnswerOf' = [AnswerOf EXCEPT ![c] = "unknown"]
              /\ ArchiveOf' = ArchiveOf
              => Archive!GoSilent(c)
           /\ /\ AnswerOf[c] = "none" /\ ArchiveOf[RunOf[c]] = NoFile
              /\ ArchiveOf' = [ArchiveOf EXCEPT ![RunOf[c]] = Archive!Evidence(c)]
              /\ AnswerOf' = [AnswerOf EXCEPT ![c] = "unknown"]
              => Archive!CommitSilently(c)
  BY DEF Archive!Commit, Archive!Return, Archive!Refuse, Archive!GoSilent, Archive!CommitSilently,
         ArchiveOf, AnswerOf, AnswerAt

LEMMA ArchiveStutters ==
    ASSUME ArchiveOf' = ArchiveOf, AnswerOf' = AnswerOf
    PROVE  UNCHANGED Archive!avars
  BY DEF Archive!avars, ArchiveOf, AnswerOf, AnswerAt

(* Without a commit the archive stays as it is.                            *)
LEMMA ArchiveStays ==
    ASSUME \A r \in Runs : Kept(r), \A r \in Runs : Committed(r)' => Committed(r)
    PROVE  ArchiveOf' = ArchiveOf
<1>1. ASSUME NEW r \in Runs
      PROVE  (IF Committed(r)' THEN final'[r] ELSE NoFile) = (IF Committed(r) THEN final[r] ELSE NoFile)
  BY DEF Kept
<1> QED
  BY <1>1 DEF ArchiveOf

(* A whole run is the evidence of the call that committed it, and of no    *)
(* other: it has at least the file of the status event.                    *)
LEMMA WholeIsEvidence ==
    ASSUME TypeOK, IInv, NEW r \in Runs, NEW c \in Calls
    PROVE  ArchiveOf[r] = Archive!Evidence(c) <=> Committed(r) /\ manifest[r] = c
<1> USE ContentAssumption
<1>1. Status \in Files
  BY DEF Files
<1>2. CASE Committed(r)
  <2>1. final[r] = [f \in Files |-> manifest[r]]
    BY <1>2 DEF IInv, RunInv, TypeOK, Committed
  <2> QED
    BY <1>1, <1>2, <2>1 DEF ArchiveOf, Archive!Evidence
<1>3. CASE ~Committed(r)
  BY <1>3 DEF ArchiveOf, Archive!Evidence
<1> QED
  BY <1>2, <1>3

-----------------------------------------------------------------------------
(* A step of a call commits the run in the archive, ends the call there,   *)
(* or is none of the archive's business.                                   *)
LEMMA StepIsArchived ==
    ASSUME TypeOK, IInv, OwnInv, NEW c \in Calls, Outcome(c), \A r \in Runs : Kept(r)
    PROVE  [Archive!ANext]_(Archive!avars)
<1> USE CallsAssumption, ContentAssumption
<1>1. AnswerOf' = [AnswerOf EXCEPT ![c] = AnswerAt(pc'[c])]
  BY DEF Outcome, AnswerOf
<1>2. AnswerOf[c] = "none"
  BY DEF Outcome, AnswerOf, AnswerAt, Active, BeforeTry, InTry, Finally
<1>3. CASE Commits(c)
  <2>1. ~Committed(RunOf[c])
    BY <1>3 DEF Commits, IInv, CallInv, Uncommitted, InTry, Committed
  <2>2. Committed(RunOf[c])'
    BY <1>3 DEF Commits, TypeOK, Committed
  <2>3. \A r \in Runs \ {RunOf[c]} : Committed(r)' <=> Committed(r)
    BY <1>3 DEF Commits, Outcome, IInv, RunInv, TypeOK, Committed
  <2>4. final[RunOf[c]] = Archive!Evidence(c)
    <3>1. \A f \in Files : final[RunOf[c]][f] = c
      BY <1>3 DEF Commits, IInv, CallInv, AllPublished
    <3> QED
      BY <3>1 DEF TypeOK, Archive!Evidence
  <2>5. ArchiveOf' = [ArchiveOf EXCEPT ![RunOf[c]] = Archive!Evidence(c)]
    BY <1>3, <2>2, <2>3, <2>4 DEF Commits, ArchiveOf
  <2>6. ArchiveOf[RunOf[c]] = NoFile
    BY <2>1 DEF ArchiveOf
  <2>7. CASE pc'[c] = "crashed"
    <3>1. AnswerOf' = [AnswerOf EXCEPT ![c] = "unknown"]
      BY <1>1, <2>7 DEF AnswerAt
    <3> QED
      BY <1>2, <2>5, <2>6, <3>1, ArchiveActions DEF Archive!ANext
  <2>8. CASE pc'[c] \in {"drop_staged", "finally_interrupt"}
    <3>1. AnswerOf' = AnswerOf
      BY <1>1, <1>2, <2>8 DEF AnswerOf, AnswerAt
    <3> QED
      BY <1>2, <2>5, <2>6, <3>1, ArchiveActions DEF Archive!ANext
  <2> QED
    BY <1>3, <2>7, <2>8 DEF Commits
<1>4. CASE CommitsNothing(c)
  <2>1. ArchiveOf' = ArchiveOf
    <3>1. ASSUME NEW r \in Runs, Committed(r)' PROVE Committed(r)
      <4>1. CASE manifest'[r] = c
        <5>1. pc'[c] # "unlink_manifest" /\ manifest[r] = c
          BY <1>4, <3>1, <4>1 DEF CommitsNothing, Committed
        <5>2. pc[c] # "unlink_manifest"
          BY <1>4, <4>1, <5>1 DEF CommitsNothing, IInv, RunInv
        <5> QED
          BY <5>1, <5>2 DEF Committed
      <4>2. CASE manifest'[r] # c
        BY <1>4, <3>1, <4>2 DEF CommitsNothing, Outcome, Committed, TypeOK
      <4> QED
        BY <4>1, <4>2
    <3> QED
      BY <3>1, ArchiveStays
  <2>2. ArchiveOf[RunOf[c]] = Archive!Evidence(c)
          <=> manifest[RunOf[c]] = c /\ Committed(RunOf[c])
    BY WholeIsEvidence
  <2>3. CASE pc'[c] = "returned"
    <3>1. manifest[RunOf[c]] = c /\ Committed(RunOf[c])
      BY <1>4, <2>3 DEF CommitsNothing, OwnInv, Committed
    <3>2. AnswerOf' = [AnswerOf EXCEPT ![c] = "returned"]
      BY <1>1, <2>3 DEF AnswerAt
    <3> QED
      BY <1>2, <2>1, <2>2, <3>1, <3>2, ArchiveActions DEF Archive!ANext
  <2>4. CASE pc'[c] = "raised"
    <3>1. manifest[RunOf[c]] # c
      BY <1>4, <2>4 DEF CommitsNothing, OwnInv, Uncommitted
    <3>2. AnswerOf' = [AnswerOf EXCEPT ![c] = "raised"]
      BY <1>1, <2>4 DEF AnswerAt
    <3> QED
      BY <1>2, <2>1, <2>2, <3>1, <3>2, ArchiveActions DEF Archive!ANext
  <2>5. CASE pc'[c] \in {"interrupted", "crashed"}
    <3>1. AnswerOf' = [AnswerOf EXCEPT ![c] = "unknown"]
      BY <1>1, <2>5 DEF AnswerAt
    <3> QED
      BY <1>2, <2>1, <3>1, ArchiveActions DEF Archive!ANext
  <2>6. CASE pc'[c] \notin {"returned", "raised", "interrupted", "crashed"}
    <3>1. AnswerAt(pc'[c]) = "none"
      BY <2>6 DEF AnswerAt
    <3>2. AnswerOf' = AnswerOf
      BY <1>1, <1>2, <3>1 DEF AnswerOf
    <3> QED
      BY <2>1, <3>2, ArchiveStutters
  <2> QED
    BY <2>3, <2>4, <2>5, <2>6
<1> QED
  BY <1>3, <1>4 DEF Outcome

-----------------------------------------------------------------------------
LEMMA InitIsArchived == Init => OwnInv /\ Archive!AInit
<1> SUFFICES ASSUME Init PROVE OwnInv /\ Archive!AInit
  OBVIOUS
<1>1. OwnInv
  BY CallsAssumption, ContentAssumption DEF Init, OwnInv
<1>2. ArchiveOf = [r \in Runs |-> NoFile]
  BY ContentAssumption DEF Init, ArchiveOf, Committed
<1>3. AnswerOf = [c \in Calls |-> "none"]
  BY DEF Init, AnswerOf, AnswerAt
<1> QED
  BY <1>1, <1>2, <1>3 DEF Archive!AInit, ArchiveOf, AnswerOf, AnswerAt

(* The operator's clean-up and the end of all calls leave the archive be.  *)
LEMMA StepImplements ==
    ASSUME SingleWriter, "late_error" \notin Faults, TypeOK, IInv, OwnInv, [Next]_vars
    PROVE  OwnInv' /\ [Archive!ANext]_(Archive!avars)
<1>1. TypeOK' /\ IInv' /\ \A r \in Runs : Kept(r)
  BY TypeStep, Step
<1>2. ASSUME NEW c \in Calls, WriteBundle(c) \/ CallStep(c) \/ Fault(c)
      PROVE  OwnInv' /\ [Archive!ANext]_(Archive!avars)
  BY <1>1, <1>2, OutcomeOfStep, OwnStepOfCall, StepIsArchived
<1>3. ASSUME UNCHANGED <<pc, final, manifest>>
      PROVE  OwnInv' /\ [Archive!ANext]_(Archive!avars)
  <2>1. OwnInv'
    BY <1>3 DEF OwnInv
  <2>2. ArchiveOf' = ArchiveOf /\ AnswerOf' = AnswerOf
    BY <1>3 DEF ArchiveOf, AnswerOf, Committed
  <2> QED
    BY <2>1, <2>2, ArchiveStutters
<1> QED
  BY <1>2, <1>3 DEF Next, Finished, CleanupOrphanedStaging, RefreshView, vars

(* With one writer at a time on a run id, write_bundle is the append-only  *)
(* archive of whole runs: runs enter it in one step, and no answer lies.   *)
THEOREM WriteBundleImplementsArchive ==
    ASSUME SingleWriter, "late_error" \notin Faults
    PROVE  Spec => ImplementsArchive
<1>1. TypeOK /\ IInv /\ [Next]_vars => IInv'
  BY Step
<1>2. TypeOK /\ IInv /\ OwnInv /\ [Next]_vars => OwnInv' /\ [Archive!ANext]_(Archive!avars)
  BY StepImplements
<1> QED
  BY InitIInv, InitIsArchived, TypeCorrect, <1>1, <1>2, PTL
  DEF Spec, ImplementsArchive, Archive!ASpec

-----------------------------------------------------------------------------
(* What the callers of write_bundle and the readers of the catalog can     *)
(* rely on with the local backend: who is told that the run is stored, who *)
(* is refused, and that the views name files that are there.               *)

-----------------------------------------------------------------------------
(* The link of the manifest decides between racing calls: it lets a call   *)
(* pass only while the run has no manifest, and on the local backend a     *)
(* manifest never goes away.                                               *)

Late == {"drop_staged", "finally_ok", "refresh", "returned"}

WinInv ==
    /\ \A c \in Calls : pc[c] \notin {"copy_manifest", "unlink_manifest"}
    /\ \A c \in Calls : pc[c] \in Late => RunExists(RunOf[c])
    /\ \A c, d \in Calls : pc[c] \in Late /\ pc[d] \in Late /\ RunOf[c] = RunOf[d] => c = d

(* A step of a call links the manifest of a run that has none, or leaves   *)
(* the manifests alone and takes no call past the commit.                  *)
Links(c) ==
    /\ ~RunExists(RunOf[c])
    /\ manifest' = [manifest EXCEPT ![RunOf[c]] = staging[RunOf[c]][Manifest]]
    /\ staging[RunOf[c]][Manifest] # NoFile
    /\ pc[c] = "commit" /\ pc'[c] = "drop_staged"

LinksNothing(c) ==
    /\ manifest' = manifest
    /\ pc'[c] \notin {"copy_manifest", "unlink_manifest"}
    /\ pc'[c] \in Late => pc[c] \in Late

LinkOutcome(c) ==
    /\ \A d \in Calls \ {c} : pc'[d] = pc[d]
    /\ Links(c) \/ LinksNothing(c)

LEMMA LinkOutcomeOfStep ==
    ASSUME TypeOK, Backend = "local", WinInv,
           NEW c \in Calls, WriteBundle(c) \/ CallStep(c) \/ Fault(c)
    PROVE  LinkOutcome(c)
<1> USE CallsAssumption, FilesAreSlots
<1> USE DEF LinkOutcome, LinksNothing, Late, Goto, TypeOK, BeforeTry, InTry, Finally, Active
<1>1. CASE WriteBundle(c)
  BY <1>1 DEF WriteBundle, files
<1>2. CASE ClearStaging(c)
  BY <1>2 DEF ClearStaging
<1>3. CASE MakeStagingDir(c)
  BY <1>3 DEF MakeStagingDir
<1>4. ASSUME NEW f \in Files, RemoveOrphanedRunFile(c, f) PROVE LinkOutcome(c)
  BY <1>4 DEF RemoveOrphanedRunFile, Treated
<1>5. ASSUME NEW f \in Files, StageFile(c, f) PROVE LinkOutcome(c)
  BY <1>5 DEF StageFile, Treated, Raise
<1>6. ASSUME NEW f \in Files, TakeFile(c, f) PROVE LinkOutcome(c)
  BY <1>6 DEF TakeFile, Raise, files
<1>7. ASSUME NEW f \in Files, RollbackFile(c, f) PROVE LinkOutcome(c)
  BY <1>7 DEF RollbackFile, Treated
<1>8. CASE RenameStagedFile(c)
  BY <1>8 DEF RenameStagedFile, Moved
<1>9. CASE LoseStagedFile(c)
  BY <1>9 DEF LoseStagedFile, FailMove, Raise
<1>10. CASE StartCopy(c) \/ StartManifestCopy(c) \/ LoseStagedManifest(c)
  BY <1>10 DEF StartCopy, StartManifestCopy, LoseStagedManifest
<1>11. CASE FinishCopy(c)
  BY <1>11 DEF FinishCopy, Moved
<1>12. CASE ValidateArtifactRefTargets(c)
  BY <1>12 DEF ValidateArtifactRefTargets, Raise, files
<1>13. CASE StageManifest(c)
  BY <1>13 DEF StageManifest
<1>14. CASE CheckManifest(c)
  BY <1>14 DEF CheckManifest, Raise, files
<1>15. CASE LinkManifest(c)
  <2>1. CASE RunExists(RunOf[c]) \/ staging[RunOf[c]][Manifest] = NoFile
    BY <1>15, <2>1 DEF LinkManifest, Raise
  <2>2. CASE ~ (RunExists(RunOf[c]) \/ staging[RunOf[c]][Manifest] = NoFile)
    BY <1>15, <2>2 DEF LinkManifest, Links
  <2> QED
    BY <2>1, <2>2
<1>16. CASE FinishManifestCopy(c) \/ UnlinkCopiedManifest(c)
  BY <1>16 DEF FinishManifestCopy, UnlinkCopiedManifest, WinInv
<1>17. CASE DropStagedManifest(c)
  BY <1>17 DEF DropStagedManifest
<1>18. CASE RemoveStaging(c)
  BY <1>18 DEF RemoveStaging
<1>19. CASE RefreshCatalog(c)
  BY <1>19 DEF RefreshCatalog
<1>20. CASE Error(c)
  BY <1>20 DEF Error, ErrorBeforeTry, ErrorInTry, ErrorInRollback, FailMove,
               CopyingManifest, Raise, files
<1>21. CASE Interrupt(c)
  BY <1>21 DEF Interrupt, files
<1>22. CASE Crash(c)
  BY <1>22 DEF Crash, files
<1> QED
  BY <1>1, <1>2, <1>3, <1>4, <1>5, <1>6, <1>7, <1>8, <1>9, <1>10, <1>11, <1>12, <1>13,
     <1>14, <1>15, <1>16, <1>17, <1>18, <1>19, <1>20, <1>21, <1>22
  DEF CallStep, Fault

LEMMA WinStep ==
    ASSUME TypeOK, Backend = "local", WinInv, [Next]_vars
    PROVE  WinInv'
<1> USE CallsAssumption
<1>1. ASSUME NEW c \in Calls, WriteBundle(c) \/ CallStep(c) \/ Fault(c) PROVE WinInv'
  <2>1. LinkOutcome(c)
    BY <1>1, LinkOutcomeOfStep
  <2>2. CASE Links(c)
    <3>1. \A d \in Calls \ {c} : pc[d] \in Late => RunOf[d] # RunOf[c]
      BY <2>2 DEF Links, WinInv
    <3>2. \A r \in Runs : manifest'[r] # manifest[r] => r = RunOf[c]
      BY <2>2 DEF Links, TypeOK
    <3>3. manifest'[RunOf[c]] # NoFile
      BY <2>2 DEF Links, TypeOK
    <3> QED
      BY <2>1, <2>2, <3>1, <3>2, <3>3 DEF LinkOutcome, Links, WinInv, RunExists
  <2>3. CASE LinksNothing(c)
    BY <2>1, <2>3 DEF LinkOutcome, LinksNothing, WinInv, RunExists
  <2> QED
    BY <2>1, <2>2, <2>3 DEF LinkOutcome
<1>2. ASSUME UNCHANGED <<pc, manifest>> PROVE WinInv'
  BY <1>2 DEF WinInv, RunExists
<1> QED
  BY <1>1, <1>2 DEF Next, Finished, CleanupOrphanedStaging, RefreshView, vars

(* At most one call on a run id returns, however many run at once, whoever *)
(* fails and whatever an operator clears away: no rule on the writers is   *)
(* needed for that.                                                        *)
THEOREM OneCallWins ==
    ASSUME Backend = "local"
    PROVE  Spec => []OneWinnerPerRun
<1>1. Init => WinInv
  BY DEF Init, WinInv, Late
<1>2. TypeOK /\ WinInv /\ [Next]_vars => WinInv'
  BY WinStep
<1>3. WinInv => OneWinnerPerRun
  BY DEF WinInv, Late, OneWinnerPerRun
<1> QED
  BY <1>1, <1>2, <1>3, TypeCorrect, PTL DEF Spec

-----------------------------------------------------------------------------
(* What a step of one call leaves as it is: the other calls, the other     *)
(* runs, and the record of faults except for itself.                       *)
Beside(c) ==
    /\ Frame(c)
    /\ \A r \in Runs \ {RunOf[c]} : r \in stagingDirs <=> r \in stagingDirs'
    /\ faulted \subseteq faulted' /\ faulted' \subseteq faulted \cup {c}

LEMMA BesideStep ==
    ASSUME TypeOK, NEW c \in Calls, WriteBundle(c) \/ CallStep(c) \/ Fault(c)
    PROVE  Beside(c)
<1> USE CallsAssumption, FilesAreSlots
<1> USE DEF Beside, Frame, Goto, TypeOK
<1>1. CASE WriteBundle(c)
  BY <1>1 DEF WriteBundle, files
<1>2. CASE ClearStaging(c)
  BY <1>2 DEF ClearStaging, RemoveStagingDir
<1>3. CASE MakeStagingDir(c)
  BY <1>3 DEF MakeStagingDir
<1>4. ASSUME NEW f \in Files, RemoveOrphanedRunFile(c, f) PROVE Beside(c)
  BY <1>4 DEF RemoveOrphanedRunFile, RemoveFile, Treated
<1>5. ASSUME NEW f \in Files, StageFile(c, f) PROVE Beside(c)
  BY <1>5 DEF StageFile, Treated, Raise
<1>6. ASSUME NEW f \in Files, TakeFile(c, f) PROVE Beside(c)
  BY <1>6 DEF TakeFile, Raise, files
<1>7. ASSUME NEW f \in Files, RollbackFile(c, f) PROVE Beside(c)
  BY <1>7 DEF RollbackFile, RemoveFile, Treated
<1>8. CASE RenameStagedFile(c)
  BY <1>8 DEF RenameStagedFile, Moved
<1>9. CASE LoseStagedFile(c)
  BY <1>9 DEF LoseStagedFile, FailMove, Raise
<1>10. CASE StartCopy(c) \/ StartManifestCopy(c) \/ LoseStagedManifest(c)
  BY <1>10 DEF StartCopy, StartManifestCopy, LoseStagedManifest, FailManifestCopy, Raise
<1>11. CASE FinishCopy(c)
  BY <1>11 DEF FinishCopy, Moved
<1>12. CASE ValidateArtifactRefTargets(c)
  BY <1>12 DEF ValidateArtifactRefTargets, Raise, files
<1>13. CASE StageManifest(c)
  BY <1>13 DEF StageManifest
<1>14. CASE CheckManifest(c)
  BY <1>14 DEF CheckManifest, Raise, files
<1>15. CASE LinkManifest(c)
  BY <1>15 DEF LinkManifest, Raise
<1>16. CASE FinishManifestCopy(c) \/ UnlinkCopiedManifest(c)
  BY <1>16 DEF FinishManifestCopy, UnlinkCopiedManifest
<1>17. CASE DropStagedManifest(c)
  BY <1>17 DEF DropStagedManifest
<1>18. CASE RemoveStaging(c)
  BY <1>18 DEF RemoveStaging, RemoveStagingDir, Leave
<1>19. CASE RefreshCatalog(c)
  BY <1>19 DEF RefreshCatalog
<1>20. CASE Error(c)
  BY <1>20 DEF Error, ErrorBeforeTry, ErrorInTry, ErrorInRollback, FailMove, FailManifestCopy,
               CopyingManifest, Raise, Leave, files
<1>21. CASE Interrupt(c)
  BY <1>21 DEF Interrupt, Leave, files
<1>22. CASE Crash(c)
  BY <1>22 DEF Crash, Leave, files
<1> QED
  BY <1>1, <1>2, <1>3, <1>4, <1>5, <1>6, <1>7, <1>8, <1>9, <1>10, <1>11, <1>12, <1>13,
     <1>14, <1>15, <1>16, <1>17, <1>18, <1>19, <1>20, <1>21, <1>22
  DEF CallStep, Fault

-----------------------------------------------------------------------------
(* A view of the catalog is made of committed runs, and those stay whole.  *)
ViewInv ==
    /\ \A r \in Runs : manifest[r] \in Calls \cup {NoFile}
    /\ \A f \in Views : \A r \in catalog[f] : manifest[r] \in Calls

(* A manifest is linked whole, so each one that exists is readable.        *)
LEMMA ManifestsAreWhole ==
    ASSUME TypeOK, IInv, WinInv, ViewInv, Backend = "local",
           NEW c \in Calls, WriteBundle(c) \/ CallStep(c) \/ Fault(c)
    PROVE  \A r \in Runs : manifest'[r] \in Calls \cup {NoFile}
<1> USE CallsAssumption
<1>1. LinkOutcome(c)
  BY LinkOutcomeOfStep
<1>2. CASE LinksNothing(c)
  BY <1>2 DEF LinksNothing, ViewInv
<1>3. CASE Links(c)
  <2>1. staging[RunOf[c]][Manifest] \in {c, NoFile}
    BY <1>3, FilesAreSlots DEF Links, IInv, CallInv, Active, InTry
  <2> QED
    BY <1>3, <2>1 DEF Links, ViewInv, TypeOK
<1> QED
  BY <1>1, <1>2, <1>3 DEF LinkOutcome

LEMMA ViewStep ==
    ASSUME SingleWriter, "late_error" \notin Faults, Backend = "local",
           TypeOK, IInv, WinInv, ViewInv, [Next]_vars
    PROVE  ViewInv'
<1> USE CallsAssumption
<1>1. \A r \in Runs : manifest[r] \in Calls => manifest'[r] = manifest[r]
  BY Step, LocalRunsAreCommitted DEF Kept
<1>2. ASSUME NEW c \in Calls, WriteBundle(c) \/ CallStep(c) \/ Fault(c) PROVE ViewInv'
  <2>1. \A r \in Runs : manifest'[r] \in Calls \cup {NoFile}
    BY <1>2, ManifestsAreWhole
  <2>2. CASE UNCHANGED catalog
    BY <1>1, <2>1, <2>2 DEF ViewInv, TypeOK
  <2>3. CASE RefreshCatalog(c)
    <3>1. \A f \in Views : \A r \in Listed(f) : r \in Runs /\ manifest[r] \in Calls
      BY DEF Listed, RunExists, ViewInv
    <3>2. \A f \in Views : catalog'[f] \in {catalog[f], Listed(f)}
      BY <2>3 DEF RefreshCatalog
    <3>3. manifest' = manifest
      BY <2>3 DEF RefreshCatalog
    <3> QED
      BY <2>1, <3>1, <3>2, <3>3 DEF ViewInv
  <2>4. UNCHANGED catalog \/ RefreshCatalog(c)
    BY <1>2 DEF WriteBundle, CallStep, Fault, files, ClearStaging, MakeStagingDir,
         RemoveOrphanedRunFile, StageFile, TakeFile, RollbackFile, RenameStagedFile,
         LoseStagedFile, StartCopy, FinishCopy, ValidateArtifactRefTargets, StageManifest,
         CheckManifest, LinkManifest, StartManifestCopy, FinishManifestCopy,
         UnlinkCopiedManifest, LoseStagedManifest, DropStagedManifest, RemoveStaging, Error, ErrorBeforeTry,
         ErrorInTry, ErrorInRollback, Interrupt, Crash
  <2> QED
    BY <2>2, <2>3, <2>4
<1>3. ASSUME UNCHANGED <<manifest, catalog>> PROVE ViewInv'
  BY <1>3 DEF ViewInv
<1>4. ASSUME NEW f \in Views, RefreshView(f) PROVE ViewInv'
  <2>1. \A g \in Views : catalog'[g] \in {catalog[g], Listed(g)}
    BY <1>4 DEF RefreshView, TypeOK
  <2>2. \A g \in Views : \A r \in Listed(g) : r \in Runs /\ manifest[r] \in Calls
    BY DEF Listed, RunExists, ViewInv
  <2> QED
    BY <1>4, <2>1, <2>2 DEF RefreshView, ViewInv
<1> QED
  BY <1>2, <1>3, <1>4 DEF Next, Finished, CleanupOrphanedStaging, vars

(* A file that a catalog view names is there, and its run is committed: no *)
(* rollback, retry or clean-up takes away what a view was made over.       *)
THEOREM CatalogsNeverDangle ==
    ASSUME SingleWriter, "late_error" \notin Faults, Backend = "local"
    PROVE  Spec => []CatalogNeverDangles
<1>1. Init => WinInv /\ ViewInv
  BY CallsAssumption DEF Init, WinInv, Late, ViewInv
<1>2. TypeOK /\ IInv /\ WinInv /\ ViewInv /\ [Next]_vars => IInv' /\ WinInv' /\ ViewInv'
  BY Step, WinStep, ViewStep
<1>3. TypeOK /\ IInv /\ ViewInv => CatalogNeverDangles
  BY ContentAssumption DEF TypeOK, IInv, RunInv, ViewInv, CatalogNeverDangles, RunExists, Views, Files
<1> QED
  BY InitIInv, <1>1, <1>2, <1>3, TypeCorrect, PTL DEF Spec

-----------------------------------------------------------------------------
(* A call that no fault has hit never comes to its except clause.  The     *)
(* directory it clears stays away until it makes one; the paths it clears  *)
(* stay free until it publishes; what it has staged is there when it moves *)
(* it: with one writer at a time nobody else works in these places, and an *)
(* operator who clears them is counted as a fault.                         *)
Unhindered(c) ==
    /\ pc[c] \notin {"copy", "copy_manifest", "unlink_manifest", "rollback", "finally_raise",
                     "finally_interrupt", "interrupted", "crashed"}
    /\ pc[c] = "raised" => manifest[RunOf[c]] \in Calls \ {c}
    /\ pc[c] \in {"clear_orphans", "make_staging"} => RunOf[c] \notin stagingDirs
    /\ pc[c] = "stage" => RunOf[c] \in stagingDirs
    /\ pc[c] = "clear_orphans" => \A f \in Files \ todo[c] : final[RunOf[c]][f] = NoFile
    /\ pc[c] \in {"make_staging", "stage"} => \A f \in Files : final[RunOf[c]][f] = NoFile
    /\ pc[c] = "stage" => \A f \in Files \ todo[c] : staging[RunOf[c]][f] = c
    /\ pc[c] \in {"publish", "move"} =>
          \A f \in todo[c] : staging[RunOf[c]][f] = c /\ final[RunOf[c]][f] = NoFile
    /\ pc[c] \in {"check_manifest", "commit"} => staging[RunOf[c]][Manifest] = c

FreshInv == \A c \in Calls \ faulted : Unhindered(c)

(* One step of the call itself.                                            *)
LEMMA UnhinderedStep ==
    ASSUME TypeOK, IInv, ViewInv, OwnInv, Backend = "local",
           NEW c \in Calls, Unhindered(c), WriteBundle(c) \/ CallStep(c), c \notin faulted'
    PROVE  Unhindered(c)'
<1> USE CallsAssumption, ContentAssumption, FilesAssumption, FilesAreSlots
<1> USE DEF Unhindered, Goto, TypeOK
<1>0. pc[c] \in Uncommitted => manifest[RunOf[c]] = NoFile
  BY DEF IInv, CallInv, ViewInv
<1>1. CASE WriteBundle(c)
  BY <1>1 DEF WriteBundle, files, RunExists, ViewInv, OwnInv
<1>2. CASE ClearStaging(c)
  BY <1>2 DEF ClearStaging, RemoveStagingDir
<1>3. CASE MakeStagingDir(c)
  BY <1>3 DEF MakeStagingDir
<1>4. ASSUME NEW f \in Files, RemoveOrphanedRunFile(c, f) PROVE Unhindered(c)'
  <2>1. CASE todo[c] = {f}
    BY <1>4, <2>1 DEF RemoveOrphanedRunFile, RemoveFile, Treated
  <2>2. CASE todo[c] # {f}
    <3>1. /\ pc[c] = "clear_orphans" /\ pc' = pc /\ stagingDirs' = stagingDirs
          /\ todo'[c] = todo[c] \ {f} /\ staging' = staging /\ manifest' = manifest
      BY <1>4, <2>2 DEF RemoveOrphanedRunFile, Treated
    <3>2. final' = [final EXCEPT ![RunOf[c]][f] = NoFile]
      BY <1>4 DEF RemoveOrphanedRunFile, RemoveFile
    <3> QED
      BY <3>1, <3>2
  <2> QED
    BY <2>1, <2>2
<1>5. ASSUME NEW f \in Files, StageFile(c, f) PROVE Unhindered(c)'
  <2>1. CASE todo[c] = {f}
    <3>1. pc[c] = "stage" /\ pc'[c] = "publish" /\ todo'[c] = Files /\ final' = final
      BY <1>5, <2>1 DEF StageFile, Treated
    <3>2. staging' = [staging EXCEPT ![RunOf[c]][f] = c]
      BY <1>5 DEF StageFile
    <3>3. \A g \in Files : staging'[RunOf[c]][g] = c
      BY <2>1, <3>1, <3>2
    <3> QED
      BY <3>1, <3>3
  <2>2. CASE todo[c] # {f}
    <3>1. /\ pc[c] = "stage" /\ pc'[c] = "stage" /\ final' = final
          /\ todo'[c] = todo[c] \ {f} /\ RunOf[c] \in stagingDirs'
      BY <1>5, <2>2 DEF StageFile, Treated
    <3>2. staging' = [staging EXCEPT ![RunOf[c]][f] = c]
      BY <1>5 DEF StageFile
    <3>3. \A g \in Files \ todo'[c] : staging'[RunOf[c]][g] = c
      BY <3>1, <3>2
    <3> QED
      BY <3>1, <3>3
  <2> QED
    BY <2>1, <2>2
<1>6. ASSUME NEW f \in Files, TakeFile(c, f) PROVE Unhindered(c)'
  BY <1>6, NextInLeft DEF TakeFile, files
<1>7. ASSUME NEW f \in Files, RollbackFile(c, f) PROVE Unhindered(c)'
  BY <1>7 DEF RollbackFile
<1>8. CASE RenameStagedFile(c)
  BY <1>8 DEF RenameStagedFile, Moved
<1>9. CASE LoseStagedFile(c)
  BY <1>9 DEF LoseStagedFile, IInv, CallInv
<1>10. CASE StartCopy(c) \/ FinishCopy(c) \/ StartManifestCopy(c) \/ FinishManifestCopy(c)
            \/ UnlinkCopiedManifest(c) \/ LoseStagedManifest(c)
  BY <1>10 DEF StartCopy, FinishCopy, StartManifestCopy, FinishManifestCopy,
               UnlinkCopiedManifest, LoseStagedManifest
<1>11. CASE ValidateArtifactRefTargets(c)
  <2>1. \A f \in Artifacts : final[RunOf[c]][f] # NoFile
    BY <1>11 DEF ValidateArtifactRefTargets, IInv, CallInv, AllPublished, Files
  <2> QED
    BY <1>11, <2>1 DEF ValidateArtifactRefTargets, files
<1>12. CASE StageManifest(c)
  BY <1>12 DEF StageManifest
<1>13. CASE CheckManifest(c)
  BY <1>0, <1>13 DEF CheckManifest, files, RunExists, Uncommitted, InTry
<1>14. CASE LinkManifest(c)
  BY <1>0, <1>14 DEF LinkManifest, RunExists, Uncommitted, InTry
<1>15. CASE DropStagedManifest(c)
  BY <1>15 DEF DropStagedManifest
<1>16. CASE RemoveStaging(c)
  <2>1. pc[c] = "finally_ok" /\ pc'[c] = "refresh"
    BY <1>16 DEF RemoveStaging, Finally
  <2> QED
    BY <2>1
<1>17. CASE RefreshCatalog(c)
  BY <1>17 DEF RefreshCatalog
<1> QED
  BY <1>1, <1>2, <1>3, <1>4, <1>5, <1>6, <1>7, <1>8, <1>9, <1>10, <1>11, <1>12, <1>13,
     <1>14, <1>15, <1>16, <1>17
  DEF CallStep

(* A step of another call.                                                 *)
LEMMA OthersHinderNobody ==
    ASSUME SingleWriter, TypeOK, IInv, Backend = "local", \A r \in Runs : Kept(r),
           NEW c \in Calls, Unhindered(c), NEW d \in Calls, d # c,
           WriteBundle(d) \/ CallStep(d) \/ Fault(d)
    PROVE  Unhindered(c)'
<1> USE CallsAssumption
<1>1. Beside(d) /\ pc'[c] = pc[c] /\ todo'[c] = todo[c]
  BY BesideStep DEF Beside, Frame
<1>2. CASE RunOf[d] # RunOf[c]
  BY <1>1, <1>2 DEF Beside, Frame, Unhindered
<1>3. CASE RunOf[d] = RunOf[c]
  <2>1. pc[c] \notin Active
    <3>1. CASE WriteBundle(d)
      BY <1>3, <3>1 DEF WriteBundle
    <3>2. CASE CallStep(d) \/ Fault(d)
      <4>1. pc[d] \in Active
        BY <3>2 DEF CallStep, Fault, ClearStaging, MakeStagingDir,
         RemoveOrphanedRunFile, StageFile, TakeFile, RollbackFile, RenameStagedFile,
         LoseStagedFile, StartCopy, FinishCopy, ValidateArtifactRefTargets, StageManifest,
         CheckManifest, LinkManifest, StartManifestCopy, FinishManifestCopy,
         UnlinkCopiedManifest, LoseStagedManifest, DropStagedManifest, RemoveStaging, RefreshCatalog,
         Error, ErrorBeforeTry, ErrorInTry, ErrorInRollback, Interrupt, Crash, CopyingManifest,
         Active, BeforeTry, InTry, Finally
      <4> QED
        BY <1>3, <4>1 DEF IInv, Alone
    <3> QED
      BY <3>1, <3>2
  <2>2. pc[c] = "raised" => manifest'[RunOf[c]] \in Calls \ {c}
    BY LocalRunsAreCommitted DEF Unhindered, Kept
  <2> QED
    BY <1>1, <2>1, <2>2 DEF Unhindered, Active, BeforeTry, InTry
<1> QED
  BY <1>2, <1>3

LEMMA FreshStep ==
    ASSUME SingleWriter, "late_error" \notin Faults, Backend = "local",
           TypeOK, IInv, ViewInv, OwnInv, FreshInv, [Next]_vars
    PROVE  FreshInv'
<1> USE CallsAssumption
<1>1. \A r \in Runs : Kept(r)
  BY Step
<1>2. ASSUME NEW d \in Calls, WriteBundle(d) \/ CallStep(d) \/ Fault(d) PROVE FreshInv'
  <2>1. faulted \subseteq faulted'
    BY <1>2, BesideStep DEF Beside
  <2>2. ASSUME NEW c \in Calls \ faulted', c # d PROVE Unhindered(c)'
    BY <1>1, <1>2, <2>1, <2>2, OthersHinderNobody DEF FreshInv
  <2>3. ASSUME d \notin faulted' PROVE Unhindered(d)'
    <3>1. ~Fault(d)
      BY <2>3 DEF Fault, Error, Interrupt, Crash
    <3> QED
      BY <1>2, <2>1, <2>3, <3>1, UnhinderedStep DEF FreshInv
  <2> QED
    BY <2>2, <2>3 DEF FreshInv
<1>3. ASSUME NEW r \in Runs, CleanupOrphanedStaging(r) PROVE FreshInv'
  <2> SUFFICES ASSUME NEW c \in Calls, c \notin faulted' PROVE Unhindered(c)'
    BY DEF FreshInv
  <2>1. c \notin faulted /\ (RunOf[c] # r \/ pc[c] \notin Active)
    BY <1>3 DEF CleanupOrphanedStaging
  <2>2. Unhindered(c)
    BY <2>1 DEF FreshInv
  <2>3. CASE RunOf[c] # r
    BY <1>3, <2>2, <2>3 DEF CleanupOrphanedStaging, RemoveStagingDir, Unhindered, TypeOK
  <2>4. CASE pc[c] \notin Active
    BY <1>3, <2>2, <2>4 DEF CleanupOrphanedStaging, Unhindered, Active, BeforeTry, InTry
  <2> QED
    BY <2>1, <2>3, <2>4
<1>4. ASSUME UNCHANGED <<pc, todo, moving, faulted, stagingDirs, staging, final, manifest>>
      PROVE  FreshInv'
  BY <1>4 DEF FreshInv, Unhindered
<1> QED
  BY <1>2, <1>3, <1>4 DEF Next, Finished, RefreshView, vars

(* Whatever failed, interrupted and crashed calls left behind, a call that *)
(* meets no fault itself is refused only when another one has stored the   *)
(* run: a retry never has to be prepared by hand.                          *)
THEOREM RetriesAreNotBlocked ==
    ASSUME SingleWriter, "late_error" \notin Faults, Backend = "local"
    PROVE  Spec => []RefusedOnlyIfCommitted
<1>1. Init => WinInv /\ ViewInv /\ FreshInv
  BY CallsAssumption DEF Init, WinInv, Late, ViewInv, FreshInv, Unhindered
<1>2. TypeOK /\ IInv /\ WinInv /\ ViewInv /\ OwnInv /\ FreshInv /\ [Next]_vars
      => IInv' /\ WinInv' /\ ViewInv' /\ OwnInv' /\ FreshInv'
  BY Step, WinStep, ViewStep, StepImplements, FreshStep
<1>3. FreshInv => RefusedOnlyIfCommitted
  BY DEF FreshInv, Unhindered, RefusedOnlyIfCommitted
<1> QED
  BY InitIInv, InitIsArchived, <1>1, <1>2, <1>3, TypeCorrect, PTL DEF Spec

=============================================================================
