------------------------------ MODULE RunArchive ------------------------------
(***************************************************************************)
(* What write_bundle promises, with no files in it: an append-only archive *)
(* of runs.  A run enters whole, in one step, as one call wrote it; it     *)
(* never changes and is never entered again; and the answer of a call      *)
(* tells the truth about whether the run in the archive is its own.        *)
(***************************************************************************)
CONSTANTS
    Calls,      \* calls of write_bundle
    Runs,       \* run ids
    RunOf,      \* RunOf[c]: the run id c writes
    Files,      \* the files that make up the evidence of a run
    Nothing     \* the archive's entry of a run nobody has committed

VARIABLES
    archive,    \* the evidence committed for each run
    answer      \* how each call ended for its caller, so far "none"

avars == <<archive, answer>>

(* The evidence of a run all of which call c wrote.                        *)
Evidence(c) == [f \in Files |-> c]

Answers == {"none", "returned", "raised", "unknown"}

ArchiveTypeOK ==
    /\ archive \in [Runs -> [Files -> Calls] \cup {Nothing}]
    /\ answer \in [Calls -> Answers]

AInit ==
    /\ archive = [r \in Runs |-> Nothing]
    /\ answer = [c \in Calls |-> "none"]

Commit(c) ==
    /\ answer[c] = "none"
    /\ archive[RunOf[c]] = Nothing
    /\ archive' = [archive EXCEPT ![RunOf[c]] = Evidence(c)]
    /\ UNCHANGED answer

(* The call returns: the run is its own, as it wrote it.                   *)
Return(c) ==
    /\ answer[c] = "none"
    /\ archive[RunOf[c]] = Evidence(c)
    /\ answer' = [answer EXCEPT ![c] = "returned"]
    /\ UNCHANGED archive

(* The call raises: it has not committed the run and never will.           *)
Refuse(c) ==
    /\ answer[c] = "none"
    /\ archive[RunOf[c]] # Evidence(c)
    /\ answer' = [answer EXCEPT ![c] = "raised"]
    /\ UNCHANGED archive

(* The caller does not learn what became of the call.                      *)
GoSilent(c) ==
    /\ answer[c] = "none"
    /\ answer' = [answer EXCEPT ![c] = "unknown"]
    /\ UNCHANGED archive

(* The call dies at the very moment that leaves its run committed.         *)
CommitSilently(c) ==
    /\ answer[c] = "none"
    /\ archive[RunOf[c]] = Nothing
    /\ archive' = [archive EXCEPT ![RunOf[c]] = Evidence(c)]
    /\ answer' = [answer EXCEPT ![c] = "unknown"]

ANext ==
    \E c \in Calls :
        Commit(c) \/ Return(c) \/ Refuse(c) \/ GoSilent(c) \/ CommitSilently(c)

ASpec == AInit /\ [][ANext]_avars
=============================================================================
