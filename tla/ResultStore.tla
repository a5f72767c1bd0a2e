----------------------------- MODULE ResultStore -----------------------------
(***************************************************************************)
(* The write path of the result store (frtb-result-store, the              *)
(* DuckDB/Parquet backend): DuckDbParquetResultStore.write_bundle, the     *)
(* manifest that commits a run, the rollback of a failed write, the        *)
(* removal of orphans by a retry, the catalog refresh after the commit,    *)
(* and the operator's cleanup_orphaned_staging.                            *)
(*                                                                         *)
(* The actors are calls of write_bundle.  A call works on one run id; a    *)
(* retry of a failed or crashed call is another call on the same run id.   *)
(* Every file a call writes carries the call as its content, so a run      *)
(* whose files come from two calls can be told from one that is whole.     *)
(***************************************************************************)
EXTENDS Naturals, FiniteSets

CONSTANTS
    Calls,          \* calls of write_bundle
    Runs,           \* run ids
    RunOf,          \* RunOf[c]: the run id of the bundle that c writes
    Tables,         \* RUN_TABLE_NAMES
    Marts,          \* MART_NAMES
    Artifacts,      \* the artifacts the bundle's requests generate
    Status,         \* the parquet file of the run's initial status event
    Manifest,       \* run_manifest.json, in the staging directory
    NoFile,         \* no file at a path
    Torn,           \* a file a copy has not finished
    Backend,        \* StorageBackend: "local" or "s3"
    SingleWriter,   \* one call at a time on a run id (ADR 0034)
    Faults          \* the faults of the environment, a subset of FaultKinds

(* "error": a file operation or a validation raises an Exception;          *)
(* "late_error": the unlink of the staged manifest, after the commit,      *)
(* raises; "interrupt": a KeyboardInterrupt, which is no Exception;        *)
(* "crash": the process of the call dies.                                  *)
FaultKinds == {"error", "late_error", "interrupt", "crash"}

Files == Tables \cup {Status} \cup Marts \cup Artifacts
Slots == Files \cup {Manifest}
Views == Tables \cup {Status} \cup Marts  \* artifacts have no catalog view
Swept == {Status} \cup Artifacts         \* removed by rmtree(ignore_errors=True)
Staged == Calls \cup {NoFile}

(* What a published path can hold: the files that the local backend moves  *)
(* and links are never half there, those that the s3 backend copies are.   *)
Stored == Staged \cup (IF Backend = "s3" THEN {Torn} ELSE {})

ASSUME CallsAssumption == RunOf \in [Calls -> Runs]
ASSUME FilesAssumption ==
    /\ Status \notin Tables \cup Marts \cup Artifacts
    /\ Manifest \notin Files
    /\ Tables \cap (Marts \cup Artifacts) = {}
    /\ Marts \cap Artifacts = {}
ASSUME ContentAssumption ==
    /\ NoFile \notin Calls /\ Torn \notin Calls /\ NoFile # Torn
    /\ NoFile \notin [Files -> Calls]
ASSUME ModeAssumption ==
    /\ Backend \in {"local", "s3"}
    /\ SingleWriter \in BOOLEAN
    /\ Faults \subseteq FaultKinds

VARIABLES
    pc,             \* where each call is in write_bundle
    todo,           \* the files the loop a call is in has left to treat
    moving,         \* the file a call is publishing
    faulted,        \* the calls a fault or a clean-up has hit
    stagingDirs,    \* the runs whose directory under _staging exists
    staging,        \* the files in the staging directory of each run
    final,          \* the files of each run at their published paths
    manifest,       \* manifests/<run>/run_manifest.json of each run
    catalog         \* catalog[f]: the runs whose file f its DuckDB view reads

vars == <<pc, todo, moving, faulted, stagingDirs, staging, final, manifest, catalog>>
files == <<stagingDirs, staging, final, manifest, catalog>>

-----------------------------------------------------------------------------
(* The control points of write_bundle.                                     *)

BeforeTry == {"clear_staging", "clear_orphans", "make_staging"}
InTry == {"stage", "publish", "move", "copy", "validate", "stage_manifest",
          "check_manifest", "commit", "copy_manifest", "unlink_manifest", "drop_staged"}
Finally == {"finally_ok", "finally_raise", "finally_interrupt"}
Active == BeforeTry \cup InTry \cup {"rollback", "refresh"} \cup Finally
Answered == {"returned", "raised", "interrupted"}
Final == Answered \cup {"crashed"}
Phases == {"idle"} \cup Active \cup Final

-----------------------------------------------------------------------------
(* The order in which write_bundle treats the files of a run.  Within a    *)
(* group the code follows a fixed order of names; here any order will do.  *)

StageOrder == <<Artifacts, Tables, {Status}, Marts>>
PublishOrder == <<Tables, {Status}, Marts, Artifacts>>
RemoveOrder == <<Tables, {Status}, Artifacts, Marts>>

(* The files that may be next when those of left are still to be treated.  *)
NextIn(order, left) ==
    {f \in left : \E i \in 1..4 :
        f \in order[i] /\ \A j \in 1..(i - 1) : order[j] \cap left = {}}

(* moved_paths: each _move_staged_* returns its paths when all of them are *)
(* published, so a group that fails half-way contributes none of them.     *)
MoveGroups == {Tables \cup {Status}, Marts, Artifacts}
MovedPaths(left) == UNION {g \in MoveGroups : g \cap left = {}}

(* What the except clause removes: moved_paths, the status directory, the  *)
(* artifacts and the marts of the run.                                     *)
RollbackSet(left) == MovedPaths(left) \cup {Status} \cup Marts \cup Artifacts

NoFiles == [f \in Files |-> NoFile]
EmptyStaging == [s \in Slots |-> NoFile]

(* run_exists: the path of the manifest exists, whatever is in it.         *)
RunExists(r) == manifest[r] # NoFile

(* Mutant of Listed: the glob of the files, without the manifests.         *)
ListedUngated(f) == {r \in Runs : final[r][f] # NoFile}

(* The files the view of f reads: _table_files and _mart_files take the    *)
(* runs that have a manifest and keep those whose file exists.             *)
Listed(f) == {r \in Runs : RunExists(r) /\ final[r][f] # NoFile}

-----------------------------------------------------------------------------
Init ==
    /\ pc = [c \in Calls |-> "idle"]
    /\ todo = [c \in Calls |-> {}]
    /\ moving = [c \in Calls |-> NoFile]
    /\ faulted = {}
    /\ stagingDirs = {}
    /\ staging = [r \in Runs |-> EmptyStaging]
    /\ final = [r \in Runs |-> NoFiles]
    /\ manifest = [r \in Runs |-> NoFile]
    /\ catalog = [f \in Views |-> {}]

Goto(c, phase) == pc' = [pc EXCEPT ![c] = phase]

(* The next file of a loop is treated: f leaves todo, and the call goes on *)
(* to phase when f was the last one, with left as its next loop's files.   *)
Treated(c, f, phase, left) ==
    IF todo[c] = {f}
    THEN Goto(c, phase) /\ todo' = [todo EXCEPT ![c] = left]
    ELSE todo' = [todo EXCEPT ![c] = @ \ {f}] /\ UNCHANGED pc

(* The loop is left before its end.                                        *)
Leave(c) ==
    /\ todo' = [todo EXCEPT ![c] = {}]
    /\ moving' = [moving EXCEPT ![c] = NoFile]

(* An Exception inside the try: on to the except clause.                   *)
Raise(c) ==
    /\ Goto(c, "rollback")
    /\ todo' = [todo EXCEPT ![c] =
                  RollbackSet(IF pc[c] \in {"publish", "move", "copy"} THEN todo[c]
                              ELSE IF pc[c] = "stage" THEN Files ELSE {})]

RemoveStagingDir(r) ==
    /\ stagingDirs' = stagingDirs \ {r}
    /\ staging' = [staging EXCEPT ![r] = EmptyStaging]

(* A published file of the run is removed.  Tables and marts are unlinked; *)
(* a sweep with rmtree may fail, silently, and leave the file.             *)
RemoveFile(c, f) ==
    \/ final' = [final EXCEPT ![RunOf[c]][f] = NoFile] /\ UNCHANGED faulted
    \/ /\ "error" \in Faults /\ f \in Swept
       /\ faulted' = faulted \cup {c}
       /\ UNCHANGED final

-----------------------------------------------------------------------------
(* write_bundle, from its first line to the try.                           *)

(* Mutant of WriteBundle: run_exists is left to the check of the manifest. *)
WriteBundleUnchecked(c) ==
    /\ pc[c] = "idle"
    /\ SingleWriter => \A d \in Calls : RunOf[d] = RunOf[c] => pc[d] \notin Active
    /\ Goto(c, "clear_staging")
    /\ UNCHANGED <<todo, moving, faulted, files>>

WriteBundle(c) ==
    /\ pc[c] = "idle"
    /\ SingleWriter => \A d \in Calls : RunOf[d] = RunOf[c] => pc[d] \notin Active
    /\ Goto(c, IF RunExists(RunOf[c]) THEN "raised" ELSE "clear_staging")
    /\ UNCHANGED <<todo, moving, faulted, files>>

(* Mutant of ClearStaging: what an earlier call staged is left there.      *)
ClearNothing(c) ==
    /\ pc[c] = "clear_staging"
    /\ Goto(c, "clear_orphans")
    /\ todo' = [todo EXCEPT ![c] = Files]
    /\ UNCHANGED <<moving, faulted, files>>

(* if staging_dir.exists(): shutil.rmtree(staging_dir)                     *)
ClearStaging(c) ==
    /\ pc[c] = "clear_staging"
    /\ RemoveStagingDir(RunOf[c])
    /\ Goto(c, "clear_orphans")
    /\ todo' = [todo EXCEPT ![c] = Files]
    /\ UNCHANGED <<moving, faulted, final, manifest, catalog>>

RemoveOrphanedRunFile(c, f) ==
    /\ pc[c] = "clear_orphans"
    /\ f \in NextIn(RemoveOrder, todo[c])
    /\ RemoveFile(c, f)
    /\ Treated(c, f, "make_staging", {})
    /\ UNCHANGED <<moving, stagingDirs, staging, manifest, catalog>>

(* staging_dir.mkdir(parents=True), which raises if the directory exists.  *)
MakeStagingDir(c) ==
    /\ pc[c] = "make_staging"
    /\ IF RunOf[c] \in stagingDirs
       THEN Goto(c, "raised") /\ UNCHANGED <<todo, stagingDirs>>
       ELSE /\ Goto(c, "stage")
            /\ todo' = [todo EXCEPT ![c] = Files]
            /\ stagingDirs' = stagingDirs \cup {RunOf[c]}
    /\ UNCHANGED <<moving, faulted, staging, final, manifest, catalog>>

-----------------------------------------------------------------------------
(* The try: stage the files of the run, publish them, commit.              *)

(* The staging of an artifact and of the first mart makes its directory,   *)
(* parents included; the others need the staging directory.                *)
StageFile(c, f) ==
    /\ pc[c] = "stage"
    /\ f \in NextIn(StageOrder, todo[c])
    /\ IF \/ f \in Artifacts
          \/ f \in Marts /\ Marts \subseteq todo[c]
          \/ RunOf[c] \in stagingDirs
       THEN /\ stagingDirs' = stagingDirs \cup {RunOf[c]}
            /\ staging' = [staging EXCEPT ![RunOf[c]][f] = c]
            /\ Treated(c, f, "publish", Files)
       ELSE Raise(c) /\ UNCHANGED <<stagingDirs, staging>>
    /\ UNCHANGED <<moving, faulted, final, manifest, catalog>>

(* A final path that exists raises.                                        *)
TakeFile(c, f) ==
    /\ pc[c] = "publish"
    /\ f \in NextIn(PublishOrder, todo[c])
    /\ IF final[RunOf[c]][f] = NoFile
       THEN /\ moving' = [moving EXCEPT ![c] = f]
            /\ Goto(c, "move")
            /\ UNCHANGED todo
       ELSE Raise(c) /\ UNCHANGED moving
    /\ UNCHANGED <<faulted, files>>

(* The file is published: on to the next one.                              *)
Moved(c) ==
    /\ todo' = [todo EXCEPT ![c] = @ \ {moving[c]}]
    /\ moving' = [moving EXCEPT ![c] = NoFile]
    /\ Goto(c, IF todo[c] = {moving[c]} THEN "validate" ELSE "publish")

(* staged_path.rename(final_path), which replaces a file that is there.    *)
RenameStagedFile(c) ==
    LET r == RunOf[c]
        f == moving[c]
    IN  /\ pc[c] = "move" /\ Backend = "local"
        /\ staging[r][f] # NoFile
        /\ final' = [final EXCEPT ![r][f] = staging[r][f]]
        /\ staging' = [staging EXCEPT ![r][f] = NoFile]
        /\ Moved(c)
        /\ UNCHANGED <<faulted, stagingDirs, manifest, catalog>>

(* An exception while a file is moved; the s3 backend first unlinks the    *)
(* final path.                                                             *)
FailMove(c) ==
    /\ final' = IF Backend = "local" THEN final
                ELSE [final EXCEPT ![RunOf[c]][moving[c]] = NoFile]
    /\ moving' = [moving EXCEPT ![c] = NoFile]
    /\ Raise(c)

(* Mutant of LoseStagedFile: the move is tried again until it succeeds.    *)
RetryMove(c) ==
    /\ pc[c] \in {"move", "copy"}
    /\ staging[RunOf[c]][moving[c]] = NoFile
    /\ Goto(c, "publish")
    /\ moving' = [moving EXCEPT ![c] = NoFile]
    /\ UNCHANGED <<todo, faulted, files>>

LoseStagedFile(c) ==
    /\ pc[c] \in {"move", "copy"}
    /\ staging[RunOf[c]][moving[c]] = NoFile
    /\ FailMove(c)
    /\ UNCHANGED <<faulted, stagingDirs, staging, manifest, catalog>>

(* The s3 backend copies, and until the copy is done the final path holds  *)
(* a part of the file.                                                     *)
StartCopy(c) ==
    /\ pc[c] = "move" /\ Backend = "s3"
    /\ staging[RunOf[c]][moving[c]] # NoFile
    /\ final' = [final EXCEPT ![RunOf[c]][moving[c]] = Torn]
    /\ Goto(c, "copy")
    /\ UNCHANGED <<todo, moving, faulted, stagingDirs, staging, manifest, catalog>>

(* Then it unlinks the staged file.  A copy whose path somebody unlinked   *)
(* meanwhile is lost.  Copy and unlink may be one step here: until there   *)
(* is a manifest nobody reads the file, and whether the unlink fails or    *)
(* the call dies before it, the file is treated as if it were still torn.  *)
FinishCopy(c) ==
    LET r == RunOf[c]
        f == moving[c]
    IN  /\ pc[c] = "copy"
        /\ staging[r][f] # NoFile
        /\ final' = [final EXCEPT ![r][f] = IF @ = NoFile THEN NoFile ELSE staging[r][f]]
        /\ staging' = [staging EXCEPT ![r][f] = NoFile]
        /\ Moved(c)
        /\ UNCHANGED <<faulted, stagingDirs, manifest, catalog>>

(* validate_artifact_ref_targets: the file:// targets must be files.       *)
ValidateArtifactRefTargets(c) ==
    /\ pc[c] = "validate"
    /\ IF Backend = "local" /\ \E f \in Artifacts : final[RunOf[c]][f] = NoFile
       THEN Raise(c)
       ELSE Goto(c, "stage_manifest") /\ UNCHANGED todo
    /\ UNCHANGED <<moving, faulted, files>>

StageManifest(c) ==
    /\ pc[c] = "stage_manifest"
    /\ stagingDirs' = stagingDirs \cup {RunOf[c]}
    /\ staging' = [staging EXCEPT ![RunOf[c]][Manifest] = c]
    /\ Goto(c, "check_manifest")
    /\ UNCHANGED <<todo, moving, faulted, final, manifest, catalog>>

(* if manifest_path.exists(): raise                                        *)
CheckManifest(c) ==
    /\ pc[c] = "check_manifest"
    /\ IF RunExists(RunOf[c]) THEN Raise(c) ELSE Goto(c, "commit") /\ UNCHANGED todo
    /\ UNCHANGED <<moving, faulted, files>>

(* Mutant of LinkManifest: a rename, which replaces a manifest.            *)
RenameManifest(c) ==
    LET r == RunOf[c] IN
    /\ pc[c] = "commit" /\ Backend = "local"
    /\ staging[r][Manifest] # NoFile
    /\ manifest' = [manifest EXCEPT ![r] = staging[r][Manifest]]
    /\ Goto(c, "drop_staged")
    /\ UNCHANGED <<todo, moving, faulted, stagingDirs, staging, final, catalog>>

(* Mutant of LinkManifest: a copy, on this backend too.                    *)
CopyManifestInstead(c) ==
    LET r == RunOf[c] IN
    /\ pc[c] = "commit" /\ Backend = "local"
    /\ staging[r][Manifest] # NoFile
    /\ manifest' = [manifest EXCEPT ![r] = Torn]
    /\ Goto(c, "copy_manifest")
    /\ UNCHANGED <<todo, moving, faulted, stagingDirs, staging, final, catalog>>

(* os.link commits the run, unless a manifest is there by then or the      *)
(* staged one is gone.                                                     *)
LinkManifest(c) ==
    LET r == RunOf[c] IN
    /\ pc[c] = "commit" /\ Backend = "local"
    /\ IF RunExists(r) \/ staging[r][Manifest] = NoFile
       THEN Raise(c) /\ UNCHANGED manifest
       ELSE /\ manifest' = [manifest EXCEPT ![r] = staging[r][Manifest]]
            /\ Goto(c, "drop_staged")
            /\ UNCHANGED todo
    /\ UNCHANGED <<moving, faulted, stagingDirs, staging, final, catalog>>

(* The s3 backend copies the manifest as it does any other file.           *)
StartManifestCopy(c) ==
    /\ pc[c] = "commit" /\ Backend = "s3"
    /\ staging[RunOf[c]][Manifest] # NoFile
    /\ manifest' = [manifest EXCEPT ![RunOf[c]] = Torn]
    /\ Goto(c, "copy_manifest")
    /\ UNCHANGED <<todo, moving, faulted, stagingDirs, staging, final, catalog>>

(* Once the copy is done readers find the run.                             *)
FinishManifestCopy(c) ==
    LET r == RunOf[c] IN
    /\ pc[c] = "copy_manifest"
    /\ staging[r][Manifest] # NoFile
    /\ manifest' = [manifest EXCEPT ![r] = IF @ = NoFile THEN NoFile ELSE staging[r][Manifest]]
    /\ Goto(c, "unlink_manifest")
    /\ UNCHANGED <<todo, moving, faulted, stagingDirs, staging, final, catalog>>

(* staged_path.unlink(), still under the except clause of the copy.        *)
UnlinkCopiedManifest(c) ==
    /\ pc[c] = "unlink_manifest"
    /\ staging[RunOf[c]][Manifest] # NoFile
    /\ staging' = [staging EXCEPT ![RunOf[c]][Manifest] = NoFile]
    /\ Goto(c, "drop_staged")
    /\ UNCHANGED <<todo, moving, faulted, stagingDirs, final, manifest, catalog>>

(* Mutant of FailManifestCopy: the finished copy stays.                    *)
KeepManifestCopy(c) ==
    /\ manifest' = [manifest EXCEPT ![RunOf[c]] = c]
    /\ Raise(c)

(* An exception of the copy, or of the unlink that follows it, removes the *)
(* manifest, readable or not.                                              *)
FailManifestCopy(c) ==
    /\ manifest' = [manifest EXCEPT ![RunOf[c]] = NoFile]
    /\ Raise(c)

LoseStagedManifest(c) ==
    /\ pc[c] \in {"commit", "copy_manifest", "unlink_manifest"} /\ Backend = "s3"
    /\ staging[RunOf[c]][Manifest] = NoFile
    /\ FailManifestCopy(c)
    /\ UNCHANGED <<moving, faulted, stagingDirs, staging, final, catalog>>

(* Mutant of DropStagedManifest: without missing_ok.                       *)
DropStagedManifestOrRaise(c) ==
    /\ pc[c] = "drop_staged"
    /\ staging' = [staging EXCEPT ![RunOf[c]][Manifest] = NoFile]
    /\ IF staging[RunOf[c]][Manifest] = NoFile
       THEN Raise(c)
       ELSE Goto(c, "finally_ok") /\ UNCHANGED todo
    /\ UNCHANGED <<moving, faulted, stagingDirs, final, manifest, catalog>>

(* staged_manifest_path.unlink(missing_ok=True)                            *)
DropStagedManifest(c) ==
    /\ pc[c] = "drop_staged"
    /\ staging' = [staging EXCEPT ![RunOf[c]][Manifest] = NoFile]
    /\ Goto(c, "finally_ok")
    /\ UNCHANGED <<todo, moving, faulted, stagingDirs, final, manifest, catalog>>

-----------------------------------------------------------------------------
(* The except and finally clauses, and what follows them.                  *)

RollbackFile(c, f) ==
    /\ pc[c] = "rollback"
    /\ f \in NextIn(PublishOrder, todo[c])
    /\ RemoveFile(c, f)
    /\ Treated(c, f, "finally_raise", {})
    /\ UNCHANGED <<moving, stagingDirs, staging, manifest, catalog>>

(* rmtree(staging_dir, ignore_errors=True): an error leaves it where it is *)
RemoveStaging(c) ==
    /\ pc[c] \in Finally
    /\ \/ RemoveStagingDir(RunOf[c])
       \/ "error" \in Faults /\ UNCHANGED <<stagingDirs, staging>>
    /\ Goto(c, CASE pc[c] = "finally_ok" -> "refresh"
                 [] pc[c] = "finally_raise" -> "raised"
                 [] pc[c] = "finally_interrupt" -> "interrupted")
    /\ Leave(c)
    /\ UNCHANGED <<faulted, final, manifest, catalog>>

(* Mutant of RefreshCatalog: its exception fails the write.                *)
RefreshCatalogOrRaise(c) ==
    /\ pc[c] = "refresh"
    /\ \/ catalog' = [f \in Views |-> Listed(f)] /\ Goto(c, "returned") /\ UNCHANGED todo
       \/ "error" \in Faults /\ Raise(c) /\ UNCHANGED catalog
    /\ UNCHANGED <<moving, faulted, stagingDirs, staging, final, manifest>>

(* _refresh_catalog_after_commit: a view is replaced when it has files to  *)
(* read, tables before marts, and an exception half-way is swallowed.      *)
RefreshCatalog(c) ==
    /\ pc[c] = "refresh"
    /\ \E views \in (IF "error" \in Faults THEN SUBSET Views ELSE {Views}) :
          /\ views \cap Marts # {} => Tables \cup {Status} \subseteq views
          /\ catalog' = [f \in Views |->
                IF f \in views /\ Listed(f) # {} THEN Listed(f) ELSE catalog[f]]
    /\ Goto(c, "returned")
    /\ UNCHANGED <<todo, moving, faulted, stagingDirs, staging, final, manifest>>

-----------------------------------------------------------------------------
(* The environment.                                                        *)

(* Before the try an exception is the answer.                              *)
ErrorBeforeTry(c) ==
    /\ pc[c] \in BeforeTry
    /\ Goto(c, "raised")
    /\ Leave(c)
    /\ UNCHANGED files

(* Inside it leads to the except clause; an s3 copy first unlinks its      *)
(* target.                                                                 *)
CopyingManifest ==
    IF Backend = "s3" THEN {"commit", "copy_manifest", "unlink_manifest"} ELSE {}

ErrorInTry(c) ==
    /\ \/ /\ pc[c] \in InTry \ ({"move", "copy"} \cup CopyingManifest)
          /\ Raise(c)
          /\ UNCHANGED <<moving, final, manifest>>
       \/ /\ pc[c] \in {"move", "copy"}
          /\ FailMove(c)
          /\ UNCHANGED manifest
       \/ /\ pc[c] \in CopyingManifest
          /\ FailManifestCopy(c)
          /\ UNCHANGED <<moving, final>>
    /\ UNCHANGED <<stagingDirs, staging, catalog>>

(* In the except clause it skips what is left of it.                       *)
ErrorInRollback(c) ==
    /\ pc[c] = "rollback"
    /\ Goto(c, "finally_raise")
    /\ UNCHANGED <<todo, moving, files>>

(* A file operation or a validation of the call raises an Exception.       *)
Error(c) ==
    /\ (IF pc[c] = "drop_staged" THEN "late_error" ELSE "error") \in Faults
    /\ ErrorBeforeTry(c) \/ ErrorInTry(c) \/ ErrorInRollback(c)
    /\ faulted' = faulted \cup {c}

(* A KeyboardInterrupt passes by the except clause: only finally runs.     *)
Interrupt(c) ==
    /\ "interrupt" \in Faults
    /\ pc[c] \in BeforeTry \cup InTry \cup {"rollback", "refresh"}
    /\ faulted' = faulted \cup {c}
    /\ Goto(c, IF pc[c] \in BeforeTry \cup {"refresh"}
               THEN "interrupted" ELSE "finally_interrupt")
    /\ Leave(c)
    /\ UNCHANGED files

Crash(c) ==
    /\ "crash" \in Faults
    /\ pc[c] \in Active
    /\ faulted' = faulted \cup {c}
    /\ Goto(c, "crashed")
    /\ Leave(c)
    /\ UNCHANGED files

(* cleanup_orphaned_staging, for one run id or for each directory it finds *)
(* in turn; it looks at no manifest and at no call in progress, and is a   *)
(* fault for the calls that are working in the directory.                  *)
CleanupOrphanedStaging(r) ==
    /\ r \in stagingDirs
    /\ RemoveStagingDir(r)
    /\ faulted' = faulted \cup {c \in Calls : RunOf[c] = r /\ pc[c] \in Active}
    /\ UNCHANGED <<pc, todo, moving, final, manifest, catalog>>

(* refresh_catalog on behalf of append_status_event, of the command line   *)
(* or of read_only_connection, at any moment: view by view, and an error   *)
(* stops it anywhere.                                                      *)
RefreshView(f) ==
    /\ Listed(f) # {}
    /\ catalog' = [catalog EXCEPT ![f] = Listed(f)]
    /\ UNCHANGED <<pc, todo, moving, faulted, stagingDirs, staging, final, manifest>>

-----------------------------------------------------------------------------
CallStep(c) ==
    \/ ClearStaging(c) \/ MakeStagingDir(c)
    \/ \E f \in Files :
          RemoveOrphanedRunFile(c, f) \/ StageFile(c, f) \/ TakeFile(c, f) \/ RollbackFile(c, f)
    \/ RenameStagedFile(c) \/ LoseStagedFile(c) \/ StartCopy(c) \/ FinishCopy(c)
    \/ ValidateArtifactRefTargets(c) \/ StageManifest(c) \/ CheckManifest(c)
    \/ LinkManifest(c)
    \/ StartManifestCopy(c) \/ FinishManifestCopy(c)
    \/ UnlinkCopiedManifest(c) \/ LoseStagedManifest(c)
    \/ DropStagedManifest(c) \/ RemoveStaging(c) \/ RefreshCatalog(c)

Fault(c) == Error(c) \/ Interrupt(c) \/ Crash(c)

(* Every call has been answered or has died.                               *)
Finished == (\A c \in Calls : pc[c] \in Final) /\ UNCHANGED vars

Next ==
    \/ \E c \in Calls : WriteBundle(c) \/ CallStep(c) \/ Fault(c)
    \/ \E r \in Runs : CleanupOrphanedStaging(r)
    \/ \E f \in Views : RefreshView(f)
    \/ Finished

(* A call that is running goes on: it is one thread of Python code.        *)
Fairness == \A c \in Calls : WF_vars(CallStep(c))

Spec == Init /\ [][Next]_vars
FairSpec == Spec /\ Fairness
-----------------------------------------------------------------------------
(* Properties.                                                             *)

(* Every variable has its type; and with the local backend nobody ever     *)
(* finds half a file or half a manifest at a published path.               *)
TypeOK ==
    /\ pc \in [Calls -> Phases]
    /\ todo \in [Calls -> SUBSET Files]
    /\ moving \in [Calls -> Files \cup {NoFile}]
    /\ faulted \subseteq Calls
    /\ stagingDirs \subseteq Runs
    /\ staging \in [Runs -> [Slots -> Staged]]
    /\ final \in [Runs -> [Files -> Stored]]
    /\ manifest \in [Runs -> Stored]
    /\ catalog \in [Views -> SUBSET Runs]

(* A run whose manifest is readable is whole: each base table, the status  *)
(* event, each mart and each artifact is there, all written by the call    *)
(* that committed the manifest, whatever earlier calls left behind.        *)
CommittedRunComplete ==
    \A r \in Runs : manifest[r] \in Calls =>
        \A f \in Files : final[r][f] = manifest[r]

(* "Rewriting the same run is a hard error": nothing that happens after a  *)
(* run is committed changes its manifest or a file of its evidence.        *)
CommittedRunImmutable ==
    [][\A r \in Runs : manifest[r] \in Calls =>
          manifest'[r] = manifest[r] /\ final'[r] = final[r]]_vars

(* A call that meets no fault is refused only because another call has     *)
(* committed the run: whatever a crashed, failed or interrupted call left  *)
(* behind, the next one on the same run id gets past it.                   *)
RefusedOnlyIfCommitted ==
    \A c \in Calls : pc[c] = "raised" /\ c \notin faulted =>
        manifest[RunOf[c]] \in Calls \ {c}

(* At most one call on a run id returns, even when several run at once:    *)
(* the link of the manifest lets one of them through.                      *)
OneWinnerPerRun ==
    \A c, d \in Calls :
        pc[c] = "returned" /\ pc[d] = "returned" /\ RunOf[c] = RunOf[d] => c = d

(* A catalog view names its parquet files one by one and fails as a whole  *)
(* when one is gone: every file it names exists and is of a committed run. *)
CatalogNeverDangles ==
    \A f \in Views : \A r \in catalog[f] :
        RunExists(r) /\ final[r][f] # NoFile

(* The call that wrote the manifest of r can no longer take it back.  With *)
(* the local backend that is so as soon as there is a manifest to read,    *)
(* with s3 once the call has also unlinked the staged one, or has died or  *)
(* been interrupted after the copy.                                        *)
Committed(r) == manifest[r] \in Calls /\ pc[manifest[r]] # "unlink_manifest"

(* write_bundle is an append-only archive of whole runs: a run enters it   *)
(* with the files published for it, at the step that commits it.           *)
Archive == INSTANCE RunArchive WITH
    Nothing <- NoFile,
    archive <- [r \in Runs |-> IF Committed(r) THEN final[r] ELSE NoFile],
    answer <- [c \in Calls |->
                 CASE pc[c] \in {"returned", "raised"} -> pc[c]
                   [] pc[c] \in {"interrupted", "crashed"} -> "unknown"
                   [] OTHER -> "none"]

ImplementsArchive == Archive!ASpec

(* Every call of write_bundle comes to an end.                             *)
EveryCallEnds ==
    \A c \in Calls : pc[c] \in Active ~> pc[c] \in Final
=============================================================================
