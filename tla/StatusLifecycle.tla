--------------------------- MODULE StatusLifecycle ---------------------------
(***************************************************************************)
(* The lifecycle of one run of the result store after its commit: the      *)
(* status events that append_status_event publishes one file each, the     *)
(* history and the latest status that readers derive from them, and the    *)
(* status the marts were given at the commit.                              *)
(*                                                                         *)
(* The actors are calls of append_status_event.  The digest that names an  *)
(* event is a function of what the event says, so an event stands for its  *)
(* path too, and two calls with the same event work on the same two paths. *)
(***************************************************************************)
EXTENDS Integers, FiniteSets

CONSTANTS
    Appenders,      \* calls of append_status_event
    Statuses,       \* RunStatus
    NoStatus,       \* the from_status of a first event: None
    Events,         \* the events callers may build, and the initial one
    Initial,        \* the event write_bundle publishes with the run
    NoFile,         \* no file at a path
    NoEvent,        \* the event of a call that has not been made
    SingleWriter,   \* one call at a time (ADR 0034)
    InOrder         \* callers date an event after those they can read

(* id: the rank of the event's digest, which breaks ties; time: the        *)
(* instant; offset: of the time zone it is written in, east of UTC.        *)
EventRecord == [id : Nat, from : Statuses \cup {NoStatus}, to : Statuses,
                time : Int, offset : Nat]

ASSUME EventsAssumption ==
    /\ Events \subseteq EventRecord /\ IsFiniteSet(Events)
    /\ \A d, e \in Events : d.id = e.id => d = e
    /\ Initial \in Events /\ Initial.from = NoStatus
ASSUME NothingAssumption ==
    /\ \A calls \in SUBSET Appenders : calls # NoFile
    /\ NoEvent \notin Events /\ NoStatus \notin Statuses
ASSUME ModeAssumption == {SingleWriter, InOrder} \subseteq BOOLEAN

VARIABLES
    committed,      \* the manifest of the run exists
    temp,           \* temp[e]: the .parquet.tmp file of e
    published,      \* published[e]: the .parquet file of e
    mart,           \* lifecycle_status in the run's capital_summary mart
    pc,             \* where each call is in append_status_event
    event           \* the argument of each call

(* A file is the set of the calls that have yet to write their part of it: *)
(* it is whole when the set is empty, and cannot be read until then.       *)
Whole == {}

vars == <<committed, temp, published, mart, pc, event>>

Active == {"reading", "opening", "writing", "replacing"}
Phases == {"idle", "returned", "refused", "raised"} \cup Active

History == {e \in Events : published[e] # NoFile}

(* ORDER BY event_time, event_id, where event_time is the isoformat text:  *)
(* first the local clock, then the offset, then the digest.                *)
Before(d, e) ==
    \/ d.time + d.offset < e.time + e.offset
    \/ d.time + d.offset = e.time + e.offset /\ d.offset < e.offset
    \/ d.time = e.time /\ d.offset = e.offset /\ d.id < e.id

(* Mutant of Last: ORDER BY event_id.                                      *)
LastByDigest(events) == CHOOSE e \in events : \A d \in events : d.id <= e.id

(* latest_status_event: the last one of a history that is not empty.       *)
Last(events) == CHOOSE e \in events : \A d \in events \ {e} : Before(d, e)

Latest == IF History = {} THEN NoStatus ELSE Last(History).to

-----------------------------------------------------------------------------
Init ==
    /\ committed = FALSE
    /\ temp = [e \in Events |-> NoFile]
    /\ published = [e \in Events |-> NoFile]
    /\ mart = NoStatus
    /\ pc = [a \in Appenders |-> "idle"]
    /\ event = [a \in Appenders |-> NoEvent]

Goto(a, phase) == pc' = [pc EXCEPT ![a] = phase]

(* write_bundle commits the run with its initial event and its marts.      *)
CommitRun ==
    /\ ~ committed
    /\ committed' = TRUE
    /\ published' = [published EXCEPT ![Initial] = Whole]
    /\ mart' = Initial.to
    /\ UNCHANGED <<temp, pc, event>>

(* The call: the run must exist and the path of the event must not.        *)
AppendStatusEvent(a, e) ==
    /\ pc[a] = "idle"
    /\ SingleWriter => \A b \in Appenders : pc[b] \notin Active
    /\ InOrder => \A d \in History : d.time < e.time
    /\ event' = [event EXCEPT ![a] = e]
    /\ Goto(a, IF committed /\ published[e] = NoFile THEN "reading" ELSE "refused")
    /\ UNCHANGED <<committed, temp, published, mart>>

(* Mutant of ReadLatestStatus: without the check of from_status.           *)
ReadAndAccept(a) ==
    /\ pc[a] = "reading"
    /\ Goto(a, IF \E e \in History : published[e] # Whole THEN "raised" ELSE "opening")
    /\ UNCHANGED <<committed, temp, published, mart, event>>

(* latest_status reads every event file of the run; one that is not whole  *)
(* makes the query raise.  from_status must be the latest status.          *)
ReadLatestStatus(a) ==
    /\ pc[a] = "reading"
    /\ Goto(a, CASE \E e \in History : published[e] # Whole -> "raised"
                 [] OTHER -> IF event[a].from = Latest THEN "opening" ELSE "refused")
    /\ UNCHANGED <<committed, temp, published, mart, event>>

(* Mutant of OpenTemp: the event is written at its own path.               *)
OpenEvent(a) ==
    /\ pc[a] = "opening"
    /\ published' = [published EXCEPT ![event[a]] = {a}]
    /\ temp' = [temp EXCEPT ![event[a]] = Whole]
    /\ Goto(a, "writing")
    /\ UNCHANGED <<committed, mart, event>>

(* pq.write_table opens the temporary file: a new one, or the one that is  *)
(* there, truncated under the calls that are still writing it.             *)
OpenTemp(a) ==
    LET e == event[a] IN
    /\ pc[a] = "opening"
    /\ temp' = [temp EXCEPT ![e] =
          {a} \cup {b \in Appenders : temp[e] # NoFile /\ b \in temp[e] /\ pc[b] = "writing"}]
    /\ Goto(a, "writing")
    /\ UNCHANGED <<committed, published, mart, event>>

(* It writes and closes its file, wherever that file is by now.            *)
WriteTable(a) ==
    LET e == event[a]
        written(file) == IF file = NoFile THEN NoFile ELSE file \ {a}
    IN  /\ pc[a] = "writing"
        /\ temp' = [temp EXCEPT ![e] = written(@)]
        /\ published' = [published EXCEPT ![e] = written(@)]
        /\ Goto(a, "replacing")
        /\ UNCHANGED <<committed, mart, event>>

(* temp_path.replace(event_path) fails when another call has done it.  The *)
(* refresh of the catalog that follows cannot fail the call.               *)
ReplaceEvent(a) ==
    LET e == event[a] IN
    /\ pc[a] = "replacing"
    /\ IF temp[e] = NoFile
       THEN Goto(a, "raised") /\ UNCHANGED <<temp, published>>
       ELSE /\ published' = [published EXCEPT ![e] = temp[e]]
            /\ temp' = [temp EXCEPT ![e] = NoFile]
            /\ Goto(a, "returned")
    /\ UNCHANGED <<committed, mart, event>>

(* An exception, an interrupt or a crash ends the call where it is: there  *)
(* is no except clause.  The catalog refresh after the replacement is the  *)
(* only step that swallows one.                                            *)
Fail(a) ==
    /\ pc[a] \in Active
    /\ Goto(a, "raised")
    /\ UNCHANGED <<committed, temp, published, mart, event>>

Finished ==
    /\ committed /\ \A a \in Appenders : pc[a] \in Phases \ (Active \cup {"idle"})
    /\ UNCHANGED vars

(* With InOrder a caller may be left with no event it could still build.   *)
NothingToAppend ==
    /\ committed /\ \A a \in Appenders : pc[a] \notin Active
    /\ InOrder /\ \A e \in Events : \E d \in History : d.time >= e.time
    /\ UNCHANGED vars

Step(a) ==
    ReadLatestStatus(a) \/ OpenTemp(a) \/ WriteTable(a) \/ ReplaceEvent(a) \/ Fail(a)

Next ==
    \/ CommitRun
    \/ \E a \in Appenders : Step(a) \/ \E e \in Events : AppendStatusEvent(a, e)
    \/ Finished \/ NothingToAppend

Spec == Init /\ [][Next]_vars
-----------------------------------------------------------------------------
(* Properties.                                                             *)

(* The state is of these types; the marts of a run show a status from its  *)
(* commit on.                                                              *)
TypeOK ==
    /\ committed \in BOOLEAN
    /\ temp \in [Events -> {NoFile} \cup SUBSET Appenders]
    /\ published \in [Events -> {NoFile} \cup SUBSET Appenders]
    /\ mart \in IF committed THEN Statuses ELSE {NoStatus}
    /\ pc \in [Appenders -> Phases]
    /\ event \in [Appenders -> {NoEvent} \cup Events]

(* d is the event of the history right before e.                           *)
Precedes(d, e) ==
    Before(d, e) /\ \A f \in History : ~ (Before(d, f) /\ Before(f, e))

(* The history of a run is one chain of transitions: it starts with the    *)
(* initial event and each event goes on from the status its predecessor    *)
(* led to, whatever calls failed on the way.                               *)
HistoryIsChain ==
    \A e \in History : e = Initial \/ \E d \in History : Precedes(d, e) /\ d.to = e.from

(* Every event file of the run can be read: a call that fails anywhere     *)
(* leaves nothing that makes the status of the run unreadable.             *)
EventsReadable == \A e \in History : published[e] = Whole

(* Even with calls that race, every event can be reached from the initial  *)
(* one by published events that start in the status another one led to.    *)
HistoryReachable ==
    \A events \in SUBSET History :
        (/\ History # {} => Initial \in events
         /\ \A d \in events, e \in History : d.to = e.from => e \in events)
            => events = History
=============================================================================
