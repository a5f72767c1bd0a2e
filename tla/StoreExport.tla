----------------------------- MODULE StoreExport -----------------------------
(***************************************************************************)
(* export_run of the result store: the files of a committed run are copied *)
(* to a directory one by one, while the status of the run goes on (module  *)
(* StatusLifecycle), and checksums.json is written last.  The actors are   *)
(* calls of export_run on one run and one output path; a retry, or a later *)
(* export that overwrites, is another call.  One call works on the path at *)
(* a time; nothing in the code enforces that, it is the operator's rule.   *)
(***************************************************************************)
EXTENDS StatusLifecycle

CONSTANTS
    Exporters,      \* calls of export_run
    Head,           \* files copied before the events: manifest, base tables
    Tail            \* files copied after them: marts, artifacts

Files == Head \cup Events \cup Tail

ASSUME FilesAssumption ==
    /\ IsFiniteSet(Head) /\ IsFiniteSet(Tail)
    /\ Head \cap Events = {} /\ Tail \cap Events = {} /\ Head \cap Tail = {}
    /\ \A files \in SUBSET Files : files # NoFile

VARIABLES
    directory,      \* the output directory exists
    out,            \* the files in it, checksums.json apart
    checksums,      \* the files that checksums.json lists
    step,           \* where each call is in export_run
    overwrite,      \* the argument of each call
    copied,         \* the list of what each call has copied
    selected,       \* the events status_history returned to each call
    known           \* the events published when each call began

exportVars == <<directory, out, checksums, step, overwrite, copied, selected, known>>
allVars == <<vars, exportVars>>

Working == {"remove", "mkdir", "head", "history", "events", "tail", "hash"}
Steps == {"idle", "returned", "refused", "raised"} \cup Working

ExportInit ==
    /\ Init
    /\ directory = FALSE /\ out = {} /\ checksums = NoFile
    /\ step = [x \in Exporters |-> "idle"]
    /\ overwrite = [x \in Exporters |-> FALSE]
    /\ copied = [x \in Exporters |-> {}]
    /\ selected = [x \in Exporters |-> {}]
    /\ known = [x \in Exporters |-> {}]

GoOn(x, s) == step' = [step EXCEPT ![x] = s]

(* Mutant of ExportRun: an output that exists is removed, asked or not.    *)
ExportRunAnyway(x) ==
    /\ step[x] = "idle"
    /\ \A y \in Exporters : step[y] \notin Working
    /\ \E b \in BOOLEAN :
        /\ overwrite' = [overwrite EXCEPT ![x] = b]
        /\ GoOn(x, IF ~ committed THEN "refused" ELSE IF directory THEN "remove" ELSE "mkdir")
    /\ known' = [known EXCEPT ![x] = History]
    /\ UNCHANGED <<directory, out, checksums, copied, selected>>

(* The run must exist, and the output only with overwrite.                 *)
ExportRun(x) ==
    /\ step[x] = "idle"
    /\ \A y \in Exporters : step[y] \notin Working
    /\ \E b \in BOOLEAN :
        /\ overwrite' = [overwrite EXCEPT ![x] = b]
        /\ GoOn(x, IF ~ committed \/ (directory /\ ~ b) THEN "refused"
                   ELSE IF directory THEN "remove" ELSE "mkdir")
    /\ known' = [known EXCEPT ![x] = History]
    /\ UNCHANGED <<directory, out, checksums, copied, selected>>

(* shutil.rmtree removes the files in the order the directory lists them,  *)
(* then the directory; checksums.json may well be the last.                *)
RemoveExportedFile(x) ==
    /\ step[x] = "remove"
    /\ \/ \E f \in out : out' = out \ {f} /\ UNCHANGED checksums
       \/ checksums # NoFile /\ checksums' = NoFile /\ UNCHANGED out
    /\ UNCHANGED <<directory, step, overwrite, copied, selected, known>>

(* Mutant of RemoveDirectory: rmtree(ignore_errors=True).                  *)
RemoveDirectoryAnyhow(x) ==
    /\ step[x] = "remove"
    /\ directory' = FALSE
    /\ GoOn(x, "mkdir")
    /\ UNCHANGED <<out, checksums, overwrite, copied, selected, known>>

RemoveDirectory(x) ==
    /\ step[x] = "remove" /\ out = {} /\ checksums = NoFile
    /\ directory' = FALSE
    /\ GoOn(x, "mkdir")
    /\ UNCHANGED <<out, checksums, overwrite, copied, selected, known>>

MakeDirectory(x) ==
    /\ step[x] = "mkdir"
    /\ directory' = TRUE
    /\ GoOn(x, "head")
    /\ UNCHANGED <<out, checksums, overwrite, copied, selected, known>>

CopyFile(x, f) ==
    /\ out' = out \cup {f}
    /\ copied' = [copied EXCEPT ![x] = @ \cup {f}]
    /\ UNCHANGED <<directory, checksums, overwrite, selected, known>>

(* One group of files after the other; f is not copied twice.              *)
CopyHead(x) ==
    /\ step[x] = "head"
    /\ IF Head \subseteq copied[x]
       THEN GoOn(x, "history")
            /\ UNCHANGED <<directory, out, checksums, overwrite, copied, selected, known>>
       ELSE \E f \in Head \ copied[x] : CopyFile(x, f) /\ UNCHANGED step

(* Mutant of ReadHistory: the export takes the latest event only.         *)
ReadLatestOnly(x) ==
    /\ step[x] = "history"
    /\ IF \E e \in History : published[e] # Whole
       THEN GoOn(x, "raised") /\ UNCHANGED selected
       ELSE GoOn(x, "events") /\ selected' = [selected EXCEPT ![x] = {Last(History)}]
    /\ UNCHANGED <<directory, out, checksums, overwrite, copied, known>>

(* status_history reads all events at once, or raises on one it cannot.    *)
ReadHistory(x) ==
    /\ step[x] = "history"
    /\ IF \E e \in History : published[e] # Whole
       THEN GoOn(x, "raised") /\ UNCHANGED selected
       ELSE GoOn(x, "events") /\ selected' = [selected EXCEPT ![x] = History]
    /\ UNCHANGED <<directory, out, checksums, overwrite, copied, known>>

(* The events selected are copied while others may be published; a source  *)
(* that is missing raises.                                                 *)
CopyEvents(x) ==
    /\ step[x] = "events"
    /\ IF selected[x] \subseteq copied[x]
       THEN GoOn(x, "tail")
            /\ UNCHANGED <<directory, out, checksums, overwrite, copied, selected, known>>
       ELSE \E e \in selected[x] \ copied[x] :
            IF published[e] = NoFile
            THEN GoOn(x, "raised")
                 /\ UNCHANGED <<directory, out, checksums, overwrite, copied, selected, known>>
            ELSE CopyFile(x, e) /\ UNCHANGED step

CopyTail(x) ==
    /\ step[x] = "tail"
    /\ IF Tail \subseteq copied[x]
       THEN GoOn(x, "hash")
            /\ UNCHANGED <<directory, out, checksums, overwrite, copied, selected, known>>
       ELSE \E f \in Tail \ copied[x] : CopyFile(x, f) /\ UNCHANGED step

(* Hashing raises when a file that was copied is gone.                     *)
WriteChecksums(x) ==
    /\ step[x] = "hash"
    /\ IF copied[x] \subseteq out
       THEN checksums' = copied[x] /\ GoOn(x, "returned")
       ELSE GoOn(x, "raised") /\ UNCHANGED checksums
    /\ UNCHANGED <<directory, out, overwrite, copied, selected, known>>

(* Mutant of FailExport: it tidies up, with the checksums of what there is.*)
FailAndHash(x) ==
    /\ step[x] \in Working
    /\ GoOn(x, "raised")
    /\ checksums' = IF directory THEN copied[x] ELSE checksums
    /\ UNCHANGED <<directory, out, overwrite, copied, selected, known>>

(* A crash, an I/O error, an artifact that is missing or not exportable:   *)
(* the call ends where it is, and leaves what it has written.              *)
FailExport(x) ==
    /\ step[x] \in Working
    /\ GoOn(x, "raised")
    /\ UNCHANGED <<directory, out, checksums, overwrite, copied, selected, known>>

ExportStep(x) ==
    \/ RemoveExportedFile(x) \/ RemoveDirectory(x) \/ MakeDirectory(x)
    \/ CopyHead(x) \/ ReadHistory(x) \/ CopyEvents(x) \/ CopyTail(x)
    \/ WriteChecksums(x)

AllFinished ==
    /\ Finished \/ NothingToAppend
    /\ \A x \in Exporters : step[x] \in {"returned", "refused", "raised"}
    /\ UNCHANGED exportVars

ExportNext ==
    \/ /\ CommitRun \/ \E a \in Appenders : Step(a) \/ \E e \in Events : AppendStatusEvent(a, e)
       /\ UNCHANGED exportVars
    \/ /\ \E x \in Exporters : ExportRun(x) \/ ExportStep(x) \/ FailExport(x)
       /\ UNCHANGED vars
    \/ AllFinished

ExportSpec == ExportInit /\ [][ExportNext]_allVars
-----------------------------------------------------------------------------
(* Properties.                                                             *)

ExportTypeOK ==
    /\ TypeOK
    /\ directory \in BOOLEAN
    /\ out \subseteq Files /\ (out # {} => directory)
    /\ checksums \in {NoFile} \cup SUBSET Files /\ (checksums # NoFile => directory)
    /\ step \in [Exporters -> Steps]
    /\ overwrite \in [Exporters -> BOOLEAN]
    /\ copied \in [Exporters -> SUBSET Files]
    /\ selected \in [Exporters -> SUBSET Events]
    /\ known \in [Exporters -> SUBSET Events]

(* What a consumer can check: every file that checksums.json lists is      *)
(* there.                                                                  *)
Verifies == checksums # NoFile /\ checksums \subseteq out

(* An export that verifies is the export of a whole run, whatever failed   *)
(* before it, in copying or in removing an older export.                   *)
VerifiedIsWhole == Verifies => Head \cup Tail \cup {Initial} \subseteq checksums

(* Its events are a history: each can be reached from the initial one by   *)
(* events of the export, though others were published while it was made.   *)
VerifiedIsReachable ==
    Verifies => \A events \in SUBSET (checksums \cap Events) :
        (/\ Initial \in events
         /\ \A d \in events, e \in checksums \cap Events : d.to = e.from => e \in events)
            => events = checksums \cap Events

(* What verifies is the export of the run: whole, and with a history.      *)
VerifiedIsTheRun == VerifiedIsWhole /\ VerifiedIsReachable

(* An export is as new as its call: what had been published before it      *)
(* began is in it, and the checksums are those of its own copies until     *)
(* another call overwrites them.                                           *)
ExportIsCurrent == \A x \in Exporters :
    step[x] = "returned" =>
        /\ known[x] \subseteq copied[x]
        /\ checksums = copied[x] \/ \E y \in Exporters \ {x} : overwrite[y]

(* An export that verifies goes on to do so until a call that was told to  *)
(* overwrite it removes it: no refused or failed call damages it.          *)
LostToOverwriteOnly ==
    [][Verifies => \/ Verifies' /\ checksums' = checksums
                   \/ \E x \in Exporters : overwrite[x] /\ step[x] = "remove"]_allVars
=============================================================================
