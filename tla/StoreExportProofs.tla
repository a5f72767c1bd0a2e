-------------------------- MODULE StoreExportProofs --------------------------
(***************************************************************************)
(* Theorems about StatusLifecycle and, on top of them, about StoreExport,  *)
(* for any number of calls, appends and exports, any events and any files. *)
(***************************************************************************)
EXTENDS StoreExport, FiniteSetTheorems, WellFoundedInduction, TLAPS

-----------------------------------------------------------------------------
(* The order of a history.                                                 *)

LEMMA BeforeIsOrder ==
    \A d, e, f \in Events :
        /\ ~ Before(d, d)
        /\ Before(d, e) /\ Before(e, f) => Before(d, f)
        /\ d = e \/ Before(d, e) \/ Before(e, d)
  BY EventsAssumption DEF Before, EventRecord

(* A set of events that is not empty has a last one: of the sets of the    *)
(* events after each of its events, take a smallest one; it is empty.      *)
LEMMA LastIsLast ==
    ASSUME NEW S \in SUBSET Events, S # {}
    PROVE  Last(S) \in S /\ \A d \in S \ {Last(S)} : Before(d, Last(S))
<1> DEFINE After(e) == {d \in S : Before(e, d)}
           Sets == {After(e) : e \in S}
<1>1. IsFiniteSet(S)
  BY FS_Subset, EventsAssumption
<1>2. IsWellFoundedOn(StrictSubsetOrdering(S), SUBSET S)
  BY <1>1, FS_StrictSubsetOrderingWellFounded, FS_FiniteSubsetsOfFinite
<1>3. PICK T \in Sets : \A U \in Sets : <<U, T>> \notin StrictSubsetOrdering(S)
  <2>1. Sets \subseteq SUBSET S /\ Sets # {}
    OBVIOUS
  <2> HIDE DEF Sets
  <2> QED
    BY <1>2, <2>1, WFMin
<1>4. PICK e \in S : T = After(e)
  BY <1>3
<1>5. ASSUME NEW d \in After(e) PROVE FALSE
  <2>1. d \in S /\ Before(e, d)
    BY <1>5
  <2>2. After(d) \subseteq After(e) /\ d \notin After(d)
    BY <2>1, BeforeIsOrder
  <2>3. <<After(d), After(e)>> \in StrictSubsetOrdering(S)
    <3>1. After(d) # After(e) /\ After(d) \in SUBSET S /\ After(e) \in SUBSET S
      BY <2>2, <1>5
    <3> HIDE DEF After
    <3> QED
      BY <2>2, <3>1 DEF StrictSubsetOrdering
  <2> QED
    BY <1>3, <1>4, <2>1, <2>3
<1>6. \A d \in S \ {e} : Before(d, e)
  BY <1>5, BeforeIsOrder
<1> QED
  BY <1>6 DEF Last

-----------------------------------------------------------------------------
(* Type correctness.                                                       *)

LEMMA TypeStep == TypeOK /\ [Next]_vars => TypeOK'
<1> SUFFICES ASSUME TypeOK, [Next]_vars PROVE TypeOK'
  OBVIOUS
<1> USE DEF TypeOK
<1>1. ASSUME CommitRun PROVE TypeOK'
  BY <1>1, EventsAssumption DEF CommitRun, Whole, EventRecord
<1>2. ASSUME NEW a \in Appenders, NEW e \in Events, AppendStatusEvent(a, e) PROVE TypeOK'
  BY <1>2 DEF AppendStatusEvent, Goto, Phases, Active
<1>3. ASSUME NEW a \in Appenders, ReadLatestStatus(a) PROVE TypeOK'
  BY <1>3 DEF ReadLatestStatus, Goto, Phases, Active
<1>4. ASSUME NEW a \in Appenders, OpenTemp(a) PROVE TypeOK'
  BY <1>4 DEF OpenTemp, Goto, Phases, Active
<1>5. ASSUME NEW a \in Appenders, WriteTable(a) PROVE TypeOK'
  BY <1>5 DEF WriteTable, Goto, Phases, Active
<1>6. ASSUME NEW a \in Appenders, ReplaceEvent(a) PROVE TypeOK'
  BY <1>6 DEF ReplaceEvent, Goto, Phases, Active
<1>7. ASSUME NEW a \in Appenders, Fail(a) PROVE TypeOK'
  BY <1>7 DEF Fail, Goto, Phases
<1>8. ASSUME UNCHANGED vars PROVE TypeOK'
  BY <1>8 DEF vars
<1> QED
  BY <1>1, <1>2, <1>3, <1>4, <1>5, <1>6, <1>7, <1>8
  DEF Next, Step, Finished, NothingToAppend

(* Every state is of the types that TypeOK names.                          *)
THEOREM StatusTypeCorrect == Spec => []TypeOK
<1>1. Init => TypeOK
  BY DEF Init, TypeOK, Phases
<1> QED
  BY <1>1, TypeStep, PTL DEF Spec

-----------------------------------------------------------------------------
(* Calls that race.                                                        *)

(* A call that has read a status can name the event that led to it, which  *)
(* stays published while other calls publish theirs.                       *)
RInv ==
    /\ committed => Initial \in History
    /\ ~ committed => History = {}
    /\ \A a \in Appenders : pc[a] \in Active => committed /\ event[a] \in Events
    /\ \A a \in Appenders : pc[a] \in {"opening", "writing", "replacing"} =>
          \E d \in History : d.to = event[a].from
    /\ HistoryReachable

(* When only an event that goes on from the history is added, it is still  *)
(* reachable.                                                              *)
LEMMA ReachableGrows ==
    ASSUME HistoryReachable, Initial \in History,
           NEW e, History' = History \cup {e},
           \E d \in History : d.to = e.from
    PROVE  HistoryReachable'
<1> SUFFICES ASSUME NEW S \in SUBSET (History \cup {e}), Initial \in S,
                    \A d \in S, f \in History \cup {e} : d.to = f.from => f \in S
             PROVE  S = History \cup {e}
  BY DEF HistoryReachable
<1>1. S \cap History = History
  <2>1. S \cap History \in SUBSET History /\ Initial \in S \cap History
    OBVIOUS
  <2>2. \A d \in S \cap History, f \in History : d.to = f.from => f \in S \cap History
    OBVIOUS
  <2> QED
    BY <2>1, <2>2 DEF HistoryReachable
<1>2. e \in S
  BY <1>1
<1> QED
  BY <1>1, <1>2

LEMMA RStep == TypeOK /\ RInv /\ [Next]_vars => RInv'
<1> SUFFICES ASSUME TypeOK, RInv, [Next]_vars PROVE RInv'
  OBVIOUS
<1> USE DEF RInv
<1>1. ASSUME CommitRun PROVE RInv'
  <2>1. History = {} /\ History' = {Initial}
    BY <1>1, NothingAssumption, EventsAssumption DEF CommitRun, History, TypeOK, Whole
  <2>2. HistoryReachable'
    BY <2>1 DEF HistoryReachable
  <2> QED
    BY <1>1, <2>1, <2>2 DEF CommitRun
<1>2. ASSUME NEW a \in Appenders, NEW e \in Events, AppendStatusEvent(a, e) PROVE RInv'
  <2>1. History' = History /\ committed' = committed
    BY <1>2 DEF AppendStatusEvent, History
  <2>2. \A b \in Appenders : b # a => pc'[b] = pc[b] /\ event'[b] = event[b]
    BY <1>2 DEF AppendStatusEvent, Goto, TypeOK
  <2>3. pc'[a] \in {"reading", "refused"} /\ event'[a] = e /\ (pc'[a] = "reading" => committed)
    BY <1>2 DEF AppendStatusEvent, Goto, TypeOK
  <2> QED
    BY <2>1, <2>2, <2>3 DEF HistoryReachable, Active
<1>3. ASSUME NEW a \in Appenders, ReadLatestStatus(a) PROVE RInv'
  <2>1. History' = History /\ committed' = committed /\ event' = event
    BY <1>3 DEF ReadLatestStatus, History
  <2>2. \A b \in Appenders : b # a => pc'[b] = pc[b]
    BY <1>3 DEF ReadLatestStatus, Goto, TypeOK
  <2>3. History # {}
    BY <1>3 DEF ReadLatestStatus, Active
  <2>4. Last(History) \in History
    BY <2>3, LastIsLast DEF History
  <2>5. pc'[a] \in {"opening", "raised", "refused"}
    BY <1>3 DEF ReadLatestStatus, Goto, TypeOK
  <2>6. pc'[a] = "opening" => event[a].from = Last(History).to
    BY <1>3, <2>3 DEF ReadLatestStatus, Goto, TypeOK, Latest
  <2>7. pc[a] = "reading"
    BY <1>3 DEF ReadLatestStatus
  <2> QED
    BY <2>1, <2>2, <2>4, <2>5, <2>6, <2>7 DEF HistoryReachable, Active
<1>4. ASSUME NEW a \in Appenders, OpenTemp(a) PROVE RInv'
  <2>1. History' = History /\ committed' = committed /\ event' = event
    BY <1>4 DEF OpenTemp, History
  <2>2. \A b \in Appenders : b # a => pc'[b] = pc[b]
    BY <1>4 DEF OpenTemp, Goto, TypeOK
  <2>3. pc[a] = "opening" /\ pc'[a] = "writing"
    BY <1>4 DEF OpenTemp, Goto, TypeOK
  <2> QED
    BY <2>1, <2>2, <2>3 DEF HistoryReachable, Active
<1>5. ASSUME NEW a \in Appenders, WriteTable(a) PROVE RInv'
  <2>1. event[a] \in Events /\ committed' = committed /\ event' = event
    BY <1>5 DEF WriteTable, Active
  <2>2. \A e \in Events : (published'[e] = NoFile) <=> (published[e] = NoFile)
    BY <1>5, <2>1, NothingAssumption DEF WriteTable, TypeOK
  <2>3. History' = History
    BY <2>2 DEF History
  <2>4. \A b \in Appenders : b # a => pc'[b] = pc[b]
    BY <1>5 DEF WriteTable, Goto, TypeOK
  <2>5. pc[a] = "writing" /\ pc'[a] = "replacing"
    BY <1>5 DEF WriteTable, Goto, TypeOK
  <2> QED
    BY <2>1, <2>3, <2>4, <2>5 DEF HistoryReachable, Active
<1>6. ASSUME NEW a \in Appenders, ReplaceEvent(a) PROVE RInv'
  <2>1. event[a] \in Events /\ committed /\ committed' = committed /\ event' = event
    BY <1>6 DEF ReplaceEvent, Active
  <2>2. \A b \in Appenders : b # a => pc'[b] = pc[b]
    BY <1>6 DEF ReplaceEvent, Goto, TypeOK
  <2>3. pc[a] = "replacing" /\ pc'[a] \in {"raised", "returned"}
    BY <1>6 DEF ReplaceEvent, Goto, TypeOK
  <2>4. CASE temp[event[a]] = NoFile
    <3>1. History' = History
      BY <1>6, <2>4 DEF ReplaceEvent, History
    <3> QED
      BY <2>1, <2>2, <2>3, <3>1 DEF HistoryReachable, Active
  <2>5. CASE temp[event[a]] # NoFile
    <3>1. History' = History \cup {event[a]}
      BY <1>6, <2>1, <2>5 DEF ReplaceEvent, History, TypeOK
    <3>2. HistoryReachable'
      BY <2>1, <2>3, <3>1, ReachableGrows
    <3> QED
      BY <2>1, <2>2, <2>3, <3>1, <3>2 DEF Active
  <2> QED
    BY <2>4, <2>5
<1>7. ASSUME NEW a \in Appenders, Fail(a) PROVE RInv'
  <2>1. History' = History /\ committed' = committed /\ event' = event
    BY <1>7 DEF Fail, History
  <2>2. \A b \in Appenders : b # a => pc'[b] = pc[b]
    BY <1>7 DEF Fail, Goto, TypeOK
  <2>3. pc'[a] = "raised"
    BY <1>7 DEF Fail, Goto, TypeOK
  <2> QED
    BY <2>1, <2>2, <2>3 DEF HistoryReachable, Active
<1>8. ASSUME UNCHANGED vars PROVE RInv'
  BY <1>8 DEF vars, HistoryReachable, History
<1> QED
  BY <1>1, <1>2, <1>3, <1>4, <1>5, <1>6, <1>7, <1>8
  DEF Next, Step, Finished, NothingToAppend

(* However calls of append_status_event race and fail, every published     *)
(* event is reached from the initial one by published transitions.         *)
THEOREM HistoryIsReachable == Spec => []HistoryReachable
<1>1. Init => RInv
  BY NothingAssumption DEF Init, RInv, History, HistoryReachable, Active
<1>2. RInv => HistoryReachable
  BY DEF RInv
<1> QED
  BY <1>1, <1>2, RStep, StatusTypeCorrect, PTL DEF Spec

-----------------------------------------------------------------------------
(* One call at a time, dated in order, in one time zone.                   *)

OneZone == \A d, e \in Events : d.offset = e.offset

(* The status a call has read is still the latest one when it publishes.   *)
CInv ==
    /\ committed => Initial \in History
    /\ ~ committed => History = {}
    /\ \A a, b \in Appenders : pc[a] \in Active /\ pc[b] \in Active => a = b
    /\ \A a \in Appenders : pc[a] \in Active =>
          /\ committed /\ event[a] \in Events
          /\ \A d \in History : d.time < event[a].time
    /\ \A a \in Appenders : pc[a] \in {"opening", "writing", "replacing"} =>
          event[a].from = Last(History).to
    /\ \A a \in Appenders : pc[a] = "writing" => temp[event[a]] = {a}
    /\ \A a \in Appenders : pc[a] = "replacing" => temp[event[a]] = Whole
    /\ EventsReadable
    /\ HistoryIsChain

(* A chain that is extended at its end is a chain.                         *)
LEMMA ChainGrows ==
    ASSUME OneZone, HistoryIsChain, Initial \in History,
           NEW e \in Events, History' = History \cup {e},
           \A d \in History : d.time < e.time,
           e.from = Last(History).to
    PROVE  HistoryIsChain'
<1>1. \A d \in History : Before(d, e)
  BY EventsAssumption DEF OneZone, Before, EventRecord, History
<1>2. History \subseteq Events /\ History # {}
  BY DEF History
<1>3. PICK l \in History : l = Last(History) /\ \A d \in History \ {l} : Before(d, l)
  BY <1>2, LastIsLast
<1>4. \A d, f \in History : Precedes(d, f) => Precedes(d, f)'
  <2> SUFFICES ASSUME NEW d \in History, NEW f \in History, Precedes(d, f)
               PROVE  ~ (Before(d, e) /\ Before(e, f))
    BY DEF Precedes, Before
  <2> QED
    BY <1>1, <1>2, BeforeIsOrder
<1>5. Precedes(l, e)'
  <2>1. \A f \in History : ~ (Before(l, f) /\ Before(f, e))
    BY <1>2, <1>3, BeforeIsOrder
  <2>2. \A f \in History \cup {e} : ~ (Before(l, f) /\ Before(f, e))
    BY <2>1, BeforeIsOrder
  <2> QED
    BY <1>1, <1>3, <2>2 DEF Precedes, Before
<1> QED
  BY <1>3, <1>4, <1>5 DEF HistoryIsChain

(* A chain stays one while the files of its events stay as they are.       *)
LEMMA KeepsChain ==
    ASSUME HistoryIsChain, EventsReadable, History' = History,
           \A e \in History : published'[e] = published[e]
    PROVE  HistoryIsChain' /\ EventsReadable'
<1>1. \A d, e : Precedes(d, e)' <=> Precedes(d, e)
  BY DEF Precedes, Before
<1> QED
  BY <1>1 DEF HistoryIsChain, EventsReadable

LEMMA CStep ==
    ASSUME SingleWriter, InOrder, OneZone
    PROVE  TypeOK /\ CInv /\ [Next]_vars => CInv'
<1> SUFFICES ASSUME TypeOK, CInv, [Next]_vars PROVE CInv'
  OBVIOUS
<1> USE DEF CInv
<1>1. ASSUME CommitRun PROVE CInv'
  <2>1. History = {} /\ History' = {Initial}
    BY <1>1, NothingAssumption, EventsAssumption DEF CommitRun, History, TypeOK, Whole
  <2>2. EventsReadable' /\ HistoryIsChain'
    BY <1>1, <2>1, EventsAssumption DEF EventsReadable, HistoryIsChain, CommitRun, TypeOK
  <2>3. \A a \in Appenders : pc'[a] \notin Active
    BY <1>1 DEF CommitRun
  <2> QED
    BY <1>1, <2>1, <2>2, <2>3 DEF CommitRun, Active
<1>2. ASSUME NEW a \in Appenders, NEW e \in Events, AppendStatusEvent(a, e) PROVE CInv'
  <2>1. History' = History /\ committed' = committed /\ published' = published /\ temp' = temp
    BY <1>2 DEF AppendStatusEvent, History
  <2>2. \A b \in Appenders : b # a => pc'[b] = pc[b] /\ event'[b] = event[b] /\ pc[b] \notin Active
    BY <1>2 DEF AppendStatusEvent, Goto, TypeOK
  <2>3. pc'[a] \in {"reading", "refused"} /\ event'[a] = e /\ (pc'[a] = "reading" => committed)
    BY <1>2 DEF AppendStatusEvent, Goto, TypeOK
  <2>4. \A d \in History : d.time < e.time
    BY <1>2 DEF AppendStatusEvent
  <2>5. HistoryIsChain' /\ EventsReadable'
    BY <2>1, KeepsChain
  <2> QED
    BY <2>1, <2>2, <2>3, <2>4, <2>5 DEF Active
<1>3. ASSUME NEW a \in Appenders, ReadLatestStatus(a) PROVE CInv'
  <2>1. /\ History' = History /\ committed' = committed /\ event' = event
        /\ published' = published /\ temp' = temp
    BY <1>3 DEF ReadLatestStatus, History
  <2>2. \A b \in Appenders : b # a => pc'[b] = pc[b]
    BY <1>3 DEF ReadLatestStatus, Goto, TypeOK
  <2>3. pc[a] = "reading" /\ pc'[a] \in {"opening", "raised", "refused"}
    BY <1>3 DEF ReadLatestStatus, Goto, TypeOK
  <2>4. pc'[a] = "opening" => event[a].from = Last(History).to
    BY <1>3 DEF ReadLatestStatus, Goto, TypeOK, Latest, Active
  <2>5. HistoryIsChain' /\ EventsReadable'
    BY <2>1, KeepsChain
  <2> QED
    BY <2>1, <2>2, <2>3, <2>4, <2>5 DEF Active
<1>4. ASSUME NEW a \in Appenders, OpenTemp(a) PROVE CInv'
  <2>1. /\ History' = History /\ committed' = committed /\ event' = event
        /\ published' = published
    BY <1>4 DEF OpenTemp, History
  <2>2. \A b \in Appenders : b # a => pc'[b] = pc[b] /\ pc[b] \notin Active
    BY <1>4 DEF OpenTemp, Goto, TypeOK, Active
  <2>3. pc[a] = "opening" /\ pc'[a] = "writing"
    BY <1>4 DEF OpenTemp, Goto, TypeOK
  <2>4. temp'[event[a]] = {a}
    BY <1>4, <2>2 DEF OpenTemp, TypeOK, Active
  <2>5. HistoryIsChain' /\ EventsReadable'
    BY <2>1, KeepsChain
  <2> QED
    BY <2>1, <2>2, <2>3, <2>4, <2>5 DEF Active
<1>5. ASSUME NEW a \in Appenders, WriteTable(a) PROVE CInv'
  <2>1. event[a] \in Events /\ committed' = committed /\ event' = event
    BY <1>5 DEF WriteTable, Active
  <2>2. \A b \in Appenders : b # a => pc'[b] = pc[b] /\ pc[b] \notin Active
    BY <1>5 DEF WriteTable, Goto, TypeOK, Active
  <2>3. pc[a] = "writing" /\ pc'[a] = "replacing"
    BY <1>5 DEF WriteTable, Goto, TypeOK
  <2>4. \A e \in Events : (published'[e] = NoFile) <=> (published[e] = NoFile)
    BY <1>5, <2>1, NothingAssumption DEF WriteTable, TypeOK
  <2>5. History' = History
    BY <2>4 DEF History
  <2>6. event[a] \notin History
    <3>1. event[a].time \in Int
      BY <2>1, EventsAssumption DEF EventRecord
    <3> QED
      BY <3>1, <2>3 DEF Active
  <2>7. \A e \in History : published'[e] = published[e]
    BY <1>5, <2>6 DEF WriteTable, TypeOK, History
  <2>8. temp'[event[a]] = Whole
    BY <1>5, <2>1, <2>3, NothingAssumption DEF WriteTable, TypeOK, Whole
  <2>9. HistoryIsChain' /\ EventsReadable'
    BY <2>5, <2>7, KeepsChain
  <2> QED
    BY <2>1, <2>2, <2>3, <2>5, <2>8, <2>9 DEF Active
<1>6. ASSUME NEW a \in Appenders, ReplaceEvent(a) PROVE CInv'
  <2>1. event[a] \in Events /\ committed /\ committed' = committed /\ event' = event
    BY <1>6 DEF ReplaceEvent, Active
  <2>2. \A b \in Appenders : pc'[b] \notin Active
    BY <1>6 DEF ReplaceEvent, Goto, TypeOK, Active
  <2>3. temp[event[a]] = Whole /\ temp[event[a]] # NoFile
    BY <1>6, NothingAssumption DEF ReplaceEvent, Whole
  <2>4. History' = History \cup {event[a]}
    BY <1>6, <2>1, <2>3 DEF ReplaceEvent, History, TypeOK
  <2>5. HistoryIsChain'
    BY <1>6, <2>1, <2>4, ChainGrows DEF ReplaceEvent, Active
  <2>6. EventsReadable'
    BY <1>6, <2>1, <2>3, <2>4 DEF ReplaceEvent, EventsReadable, TypeOK, History
  <2> QED
    BY <2>1, <2>2, <2>4, <2>5, <2>6 DEF Active
<1>7. ASSUME NEW a \in Appenders, Fail(a) PROVE CInv'
  <2>1. /\ History' = History /\ committed' = committed /\ event' = event
        /\ published' = published /\ temp' = temp
    BY <1>7 DEF Fail, History
  <2>2. \A b \in Appenders : b # a => pc'[b] = pc[b]
    BY <1>7 DEF Fail, Goto, TypeOK
  <2>3. pc'[a] = "raised"
    BY <1>7 DEF Fail, Goto, TypeOK
  <2>4. HistoryIsChain' /\ EventsReadable'
    BY <2>1, KeepsChain
  <2> QED
    BY <2>1, <2>2, <2>3, <2>4 DEF Active
<1>8. ASSUME UNCHANGED vars PROVE CInv'
  <2>1. /\ History' = History /\ committed' = committed /\ event' = event /\ pc' = pc
        /\ published' = published /\ temp' = temp
    BY <1>8 DEF vars, History
  <2>2. HistoryIsChain' /\ EventsReadable'
    BY <2>1, KeepsChain
  <2> QED
    BY <2>1, <2>2
<1> QED
  BY <1>1, <1>2, <1>3, <1>4, <1>5, <1>6, <1>7, <1>8
  DEF Next, Step, Finished, NothingToAppend

LEMMA InitCInv == Init => CInv
  BY NothingAssumption
  DEF Init, CInv, History, HistoryIsChain, EventsReadable, Active

(* When callers append one at a time and date their events in order, in    *)
(* one time zone, the history is a chain, whatever calls failed.           *)
THEOREM HistoriesAreChains ==
    ASSUME SingleWriter, InOrder, OneZone
    PROVE  Spec => []HistoryIsChain
<1>1. TypeOK /\ CInv /\ [Next]_vars => CInv'
  BY CStep
<1>2. CInv => HistoryIsChain
  BY DEF CInv
<1> QED
  BY InitCInv, <1>1, <1>2, StatusTypeCorrect, PTL DEF Spec

(* Then no reader of the history meets a file that is not whole.           *)
THEOREM EventsCanBeRead ==
    ASSUME SingleWriter, InOrder, OneZone
    PROVE  Spec => []EventsReadable
<1>1. TypeOK /\ CInv /\ [Next]_vars => CInv'
  BY CStep
<1>2. CInv => EventsReadable
  BY DEF CInv
<1> QED
  BY InitCInv, <1>1, <1>2, StatusTypeCorrect, PTL DEF Spec

-----------------------------------------------------------------------------
(* The export of a run while its status moves on.                          *)

(* An export does not disturb the lifecycle of its run, so all that holds  *)
(* of the status events holds while they are exported.                     *)
THEOREM ExportKeepsLifecycle == ExportSpec => Spec
<1>1. ExportInit => Init
  BY DEF ExportInit
<1>2. [ExportNext]_allVars => [Next]_vars
  BY DEF ExportNext, allVars, Next, AllFinished
<1> QED
  BY <1>1, <1>2, PTL DEF ExportSpec, Spec

(* Published events stay, and a committed run stays committed.             *)
LEMMA LifecycleGrows ==
    ASSUME TypeOK, RInv, [Next]_vars
    PROVE  History \subseteq History' /\ (committed => committed')
<1>1. CASE CommitRun
  BY <1>1 DEF CommitRun, RInv
<1>2. ASSUME NEW a \in Appenders, NEW e \in Events, AppendStatusEvent(a, e)
      PROVE  History' = History /\ committed' = committed
  BY <1>2 DEF AppendStatusEvent, History
<1>3. ASSUME NEW a \in Appenders, ReadLatestStatus(a) \/ OpenTemp(a) \/ Fail(a)
      PROVE  History' = History /\ committed' = committed
  BY <1>3 DEF ReadLatestStatus, OpenTemp, Fail, History
<1>4. ASSUME NEW a \in Appenders, WriteTable(a)
      PROVE  History' = History /\ committed' = committed
  <2>1. event[a] \in Events
    BY <1>4 DEF WriteTable, RInv, Active
  <2>2. \A e \in Events : (published'[e] = NoFile) <=> (published[e] = NoFile)
    BY <1>4, <2>1, NothingAssumption DEF WriteTable, TypeOK
  <2> QED
    BY <1>4, <2>2 DEF WriteTable, History
<1>5. ASSUME NEW a \in Appenders, ReplaceEvent(a)
      PROVE  History \subseteq History' /\ committed' = committed
  BY <1>5 DEF ReplaceEvent, History, TypeOK
<1>6. CASE UNCHANGED vars
  BY <1>6 DEF vars, History
<1> QED
  BY <1>1, <1>2, <1>3, <1>4, <1>5, <1>6 DEF Next, Step, Finished, NothingToAppend
-----------------------------------------------------------------------------
(* The inductive invariant.                                                *)

(* What VerifiedIsReachable says of a set of events.                       *)
Connected(S) ==
    \A events \in SUBSET S :
        (/\ Initial \in events
         /\ \A d \in events, e \in S : d.to = e.from => e \in events)
            => events = S

Copying == {"head", "history", "events", "tail", "hash"}

(* checksums.json is written of a whole, connected copy or not at all.     *)
ListedInv ==
    checksums # NoFile =>
        Head \cup Tail \cup {Initial} \subseteq checksums /\ Connected(checksums \cap Events)

(* A call has the path for itself; what it has copied follows from where   *)
(* it is, and the events it has selected are all that there were.          *)
CallInv(x) ==
    /\ step[x] \in Working =>
          committed /\ known[x] \subseteq History /\ \A y \in Exporters : step[y] \in Working => y = x
    /\ step[x] = "idle" => ~ overwrite[x]
    /\ step[x] = "remove" => overwrite[x]
    /\ step[x] \in {"idle", "remove", "mkdir"} => copied[x] = {}
    /\ step[x] = "mkdir" => out = {} /\ checksums = NoFile
    /\ step[x] \in Copying => directory /\ checksums = NoFile
    /\ step[x] \in {"head", "history"} => copied[x] \cap Events = {}
    /\ step[x] \in Copying \ {"head"} => Head \subseteq copied[x]
    /\ step[x] \in {"events", "tail", "hash"} =>
          /\ Initial \in selected[x] /\ Connected(selected[x])
          /\ copied[x] \cap Events \subseteq selected[x] /\ known[x] \subseteq selected[x]
    /\ step[x] \in {"tail", "hash"} => selected[x] \subseteq copied[x]
    /\ step[x] = "hash" => Tail \subseteq copied[x]
    /\ step[x] = "returned" =>
          /\ known[x] \subseteq copied[x]
          /\ \/ checksums = copied[x] /\ directory /\ \A y \in Exporters : step[y] \notin Working
             \/ \E y \in Exporters \ {x} : overwrite[y]

EInv == ExportTypeOK /\ RInv /\ ListedInv /\ \A x \in Exporters : CallInv(x)

LEMMA InitEInv == ExportInit => EInv
<1> SUFFICES ASSUME ExportInit PROVE EInv
  OBVIOUS
<1>1. TypeOK /\ RInv
  BY NothingAssumption
  DEF ExportInit, Init, TypeOK, Phases, RInv, History, HistoryReachable, Active
<1> QED
  BY <1>1 DEF EInv, ExportInit, ExportTypeOK, ListedInv, CallInv, Working, Steps, Copying

LEMMA LifecycleStep ==
    ASSUME EInv, [Next]_vars, UNCHANGED exportVars
    PROVE  EInv'
<1>1. TypeOK /\ RInv /\ TypeOK' /\ RInv'
  BY TypeStep, RStep DEF EInv, ExportTypeOK
<1>2. History \subseteq History' /\ (committed => committed')
  BY <1>1, LifecycleGrows
<1>3. ExportTypeOK' /\ ListedInv'
  BY <1>1 DEF EInv, ExportTypeOK, exportVars, ListedInv, Connected
<1>4. ASSUME NEW x \in Exporters PROVE CallInv(x)'
  BY <1>2 DEF EInv, CallInv, exportVars, Connected
<1> QED
  BY <1>1, <1>3, <1>4 DEF EInv

(* A call that is at work leaves the others as they are, and they are not  *)
(* at work; where it is still at work after a step that leaves checksums   *)
(* alone, nothing is said of the others that could change.                 *)
LEMMA OthersKept ==
    ASSUME EInv, NEW x \in Exporters, step[x] \in Working,
           UNCHANGED <<vars, overwrite, known, selected>>,
           \A y \in Exporters \ {x} : step'[y] = step[y] /\ copied'[y] = copied[y]
    PROVE  \A y \in Exporters \ {x} : CallInv(y)'
<1> SUFFICES ASSUME NEW y \in Exporters \ {x} PROVE CallInv(y)'
  OBVIOUS
<1>1. CallInv(x) /\ CallInv(y)
  BY DEF EInv
<1>2. step[y] \notin Working
  BY <1>1 DEF CallInv
<1>3. step[y] = "returned" => known[y] \subseteq copied[y] /\ \E z \in Exporters \ {y} : overwrite[z]
  BY <1>1 DEF CallInv
<1>4. step[y] = "idle" => ~ overwrite[y] /\ copied[y] = {}
  BY <1>1 DEF CallInv
<1> QED
  BY <1>2, <1>3, <1>4 DEF CallInv, Working, Copying

LEMMA ExportRunStep ==
    ASSUME EInv, NEW x \in Exporters, ExportRun(x), UNCHANGED vars
    PROVE  EInv'
<1>1. PICK b \in BOOLEAN :
        /\ overwrite' = [overwrite EXCEPT ![x] = b]
        /\ GoOn(x, IF ~ committed \/ (directory /\ ~ b) THEN "refused"
                   ELSE IF directory THEN "remove" ELSE "mkdir")
  BY DEF ExportRun
<1>2. /\ step[x] = "idle" /\ known' = [known EXCEPT ![x] = History]
      /\ \A y \in Exporters : step[y] \notin Working
      /\ UNCHANGED <<directory, out, checksums, copied, selected>>
  BY DEF ExportRun
<1>3. ExportTypeOK /\ RInv /\ ListedInv /\ CallInv(x)
  BY DEF EInv
<1>4. ExportTypeOK' /\ RInv' /\ ListedInv' /\ History' = History
  <2>1. History' = History /\ History \subseteq Events
    BY DEF History, vars
  <2>2. TypeOK' /\ RInv'
    BY <1>3, RStep, TypeStep DEF ExportTypeOK
  <2>3. step' \in [Exporters -> Steps]
    BY <1>1, <1>3 DEF GoOn, ExportTypeOK, Steps, Working
  <2> QED
    BY <1>1, <1>2, <1>3, <2>1, <2>2, <2>3 DEF ExportTypeOK, ListedInv, Connected
<1>5. step'[x] = (IF ~ committed \/ (directory /\ ~ b) THEN "refused"
                  ELSE IF directory THEN "remove" ELSE "mkdir")
      /\ \A y \in Exporters \ {x} : step'[y] = step[y]
  BY <1>1, <1>3 DEF GoOn, ExportTypeOK
<1>6. /\ overwrite'[x] = b /\ known'[x] = History
      /\ \A y \in Exporters \ {x} : overwrite'[y] = overwrite[y] /\ known'[y] = known[y]
  BY <1>1, <1>2, <1>3 DEF ExportTypeOK
<1>7. CallInv(x)'
  BY <1>2, <1>3, <1>4, <1>5, <1>6 DEF CallInv, vars, ExportTypeOK, Working, Copying
<1>8. ASSUME NEW y \in Exporters \ {x} PROVE CallInv(y)'
  <2>1. CallInv(y) /\ step[y] \notin Working
    BY <1>2 DEF EInv
  <2>2. CASE step[y] # "returned"
    BY <1>2, <1>5, <1>6, <2>1, <2>2 DEF CallInv, Working, Copying
  <2>3. CASE step[y] = "returned" /\ checksums = copied[y] /\ directory
    <3>1. b \/ step'[x] = "refused"
      BY <1>5, <2>3
    <3> QED
      BY <1>2, <1>5, <1>6, <2>1, <2>3, <3>1 DEF CallInv, Working, Copying
  <2>4. CASE step[y] = "returned" /\ \E z \in Exporters \ {y} : overwrite[z]
    <3>1. ~ overwrite[x]
      BY <1>2, <1>3 DEF CallInv
    <3>2. \E z \in Exporters \ {y} : overwrite'[z]
      BY <1>6, <2>4, <3>1
    <3> QED
      BY <1>2, <1>5, <1>6, <2>1, <2>4, <3>2 DEF CallInv, Working, Copying
  <2> QED
    BY <2>1, <2>2, <2>3, <2>4 DEF CallInv
<1> QED
  BY <1>4, <1>7, <1>8 DEF EInv

(* A step of a call leaves the lifecycle as it is.                         *)
LEMMA LifecycleKept ==
    ASSUME EInv, UNCHANGED vars
    PROVE  TypeOK' /\ RInv' /\ History' = History /\ committed' = committed
<1>1. History' = History
  BY DEF History, vars
<1> QED
  BY <1>1, RStep, TypeStep DEF EInv, ExportTypeOK, vars

LEMMA RemoveStep ==
    ASSUME EInv, NEW x \in Exporters, RemoveExportedFile(x), UNCHANGED vars
    PROVE  EInv'
<1>1. ExportTypeOK /\ ListedInv /\ CallInv(x) /\ step[x] \in Working
  BY DEF EInv, RemoveExportedFile, Working
<1>2. UNCHANGED <<directory, step, overwrite, copied, selected, known>>
  BY DEF RemoveExportedFile
<1>3. out' \subseteq out /\ checksums' \in {checksums, NoFile} /\ step[x] = "remove"
  BY DEF RemoveExportedFile
<1>4. ExportTypeOK' /\ ListedInv'
  BY <1>1, <1>2, <1>3, LifecycleKept DEF ExportTypeOK, ListedInv, Connected
<1>5. CallInv(x)'
  BY <1>1, <1>2, <1>3, LifecycleKept DEF CallInv, Working, Copying
<1>6. \A y \in Exporters \ {x} : CallInv(y)'
  BY <1>1, <1>2, OthersKept
<1> QED
  BY <1>4, <1>5, <1>6, LifecycleKept DEF EInv

LEMMA RemoveDirectoryStep ==
    ASSUME EInv, NEW x \in Exporters, RemoveDirectory(x), UNCHANGED vars
    PROVE  EInv'
<1>1. ExportTypeOK /\ ListedInv /\ CallInv(x) /\ step[x] \in Working
  BY DEF EInv, RemoveDirectory, Working
<1>2. /\ UNCHANGED <<out, checksums, overwrite, copied, selected, known>>
      /\ step[x] = "remove" /\ out = {} /\ checksums = NoFile
  BY DEF RemoveDirectory
<1>3. /\ step' \in [Exporters -> Steps] /\ step'[x] = "mkdir" /\ directory' = FALSE
      /\ \A y \in Exporters \ {x} : step'[y] = step[y]
  BY <1>1 DEF RemoveDirectory, GoOn, ExportTypeOK, Steps, Working
<1>4. ExportTypeOK' /\ ListedInv'
  BY <1>1, <1>2, <1>3, LifecycleKept DEF ExportTypeOK, ListedInv, Connected
<1>5. CallInv(x)'
  BY <1>1, <1>2, <1>3, LifecycleKept DEF CallInv, Working, Copying
<1>6. \A y \in Exporters \ {x} : CallInv(y)'
  BY <1>1, <1>2, <1>3, OthersKept
<1> QED
  BY <1>4, <1>5, <1>6, LifecycleKept DEF EInv

LEMMA MakeDirectoryStep ==
    ASSUME EInv, NEW x \in Exporters, MakeDirectory(x), UNCHANGED vars
    PROVE  EInv'
<1>1. ExportTypeOK /\ ListedInv /\ CallInv(x) /\ step[x] \in Working
  BY DEF EInv, MakeDirectory, Working
<1>2. /\ UNCHANGED <<out, checksums, overwrite, copied, selected, known>>
      /\ step[x] = "mkdir" /\ directory' = TRUE
  BY DEF MakeDirectory
<1>3. /\ step' \in [Exporters -> Steps] /\ step'[x] = "head"
      /\ \A y \in Exporters \ {x} : step'[y] = step[y]
  BY <1>1 DEF MakeDirectory, GoOn, ExportTypeOK, Steps, Working
<1>4. ExportTypeOK' /\ ListedInv'
  BY <1>1, <1>2, <1>3, LifecycleKept DEF ExportTypeOK, ListedInv, Connected
<1>5. CallInv(x)'
  BY <1>1, <1>2, <1>3, LifecycleKept DEF CallInv, Working, Copying
<1>6. \A y \in Exporters \ {x} : CallInv(y)'
  BY <1>1, <1>2, <1>3, OthersKept
<1> QED
  BY <1>4, <1>5, <1>6, LifecycleKept DEF EInv

(* What the three loops over files have in common: a file is added, or the *)
(* call goes on to its next step.                                          *)
LEMMA CopyKeepsType ==
    ASSUME EInv, NEW x \in Exporters, step[x] \in Copying, UNCHANGED vars,
           NEW f \in Files, CopyFile(x, f), UNCHANGED step
    PROVE  /\ ExportTypeOK' /\ ListedInv'
           /\ copied'[x] = copied[x] \cup {f}
           /\ \A y \in Exporters \ {x} : CallInv(y)'
<1>1. ExportTypeOK /\ CallInv(x) /\ step[x] \in Working
  BY DEF EInv, Copying, Working
<1>2. directory /\ checksums = NoFile
  BY <1>1 DEF CallInv
<1>3. /\ copied' \in [Exporters -> SUBSET Files] /\ copied'[x] = copied[x] \cup {f}
      /\ \A y \in Exporters \ {x} : copied'[y] = copied[y]
  BY <1>1 DEF CopyFile, ExportTypeOK
<1>4. ExportTypeOK' /\ ListedInv'
  BY <1>1, <1>2, <1>3, LifecycleKept DEF CopyFile, ExportTypeOK, ListedInv
<1>5. \A y \in Exporters \ {x} : CallInv(y)'
  BY <1>1, <1>3, OthersKept DEF CopyFile
<1> QED
  BY <1>3, <1>4, <1>5

LEMMA GoOnKeepsType ==
    ASSUME EInv, NEW x \in Exporters, step[x] \in Copying, UNCHANGED vars,
           NEW s \in Steps, GoOn(x, s),
           UNCHANGED <<directory, out, checksums, overwrite, copied, selected, known>>
    PROVE  /\ ExportTypeOK' /\ ListedInv'
           /\ step'[x] = s /\ \A y \in Exporters \ {x} : step'[y] = step[y]
           /\ \A y \in Exporters \ {x} : CallInv(y)'
<1>1. ExportTypeOK /\ ListedInv /\ step[x] \in Working
  BY DEF EInv, Copying, Working
<1>2. /\ step' \in [Exporters -> Steps] /\ step'[x] = s
      /\ \A y \in Exporters \ {x} : step'[y] = step[y]
  BY <1>1 DEF GoOn, ExportTypeOK
<1>3. ExportTypeOK' /\ ListedInv'
  BY <1>1, <1>2, LifecycleKept DEF ExportTypeOK, ListedInv, Connected
<1>4. \A y \in Exporters \ {x} : CallInv(y)'
  BY <1>1, <1>2, OthersKept
<1> QED
  BY <1>2, <1>3, <1>4

LEMMA CopyHeadStep ==
    ASSUME EInv, NEW x \in Exporters, CopyHead(x), UNCHANGED vars
    PROVE  EInv'
<1>1. CallInv(x) /\ step[x] = "head" /\ step[x] \in Copying
  BY DEF EInv, CopyHead, Copying
<1>2. CASE Head \subseteq copied[x]
  <2>1. GoOn(x, "history") /\ UNCHANGED <<directory, out, checksums, overwrite, copied, selected, known>>
    BY <1>2 DEF CopyHead
  <2>2. "history" \in Steps
    BY DEF Steps, Working
  <2>3. CallInv(x)'
    BY <1>1, <1>2, <2>1, <2>2, GoOnKeepsType, LifecycleKept DEF CallInv, Working, Copying
  <2> QED
    BY <1>1, <2>1, <2>2, <2>3, GoOnKeepsType, LifecycleKept DEF EInv
<1>3. CASE ~ (Head \subseteq copied[x])
  <2>1. PICK f \in Head : CopyFile(x, f) /\ UNCHANGED step
    BY <1>3 DEF CopyHead
  <2>2. f \in Files /\ f \notin Events
    BY FilesAssumption DEF Files
  <2>3. CallInv(x)'
    BY <1>1, <2>1, <2>2, CopyKeepsType, LifecycleKept DEF CallInv, CopyFile, Working, Copying
  <2> QED
    BY <1>1, <2>1, <2>2, <2>3, CopyKeepsType, LifecycleKept DEF EInv
<1> QED
  BY <1>2, <1>3

LEMMA FailStep ==
    ASSUME EInv, NEW x \in Exporters, FailExport(x), UNCHANGED vars
    PROVE  EInv'
<1>1. ExportTypeOK /\ ListedInv /\ CallInv(x) /\ step[x] \in Working
  BY DEF EInv, FailExport
<1>2. UNCHANGED <<directory, out, checksums, overwrite, copied, selected, known>>
  BY DEF FailExport
<1>3. /\ step' \in [Exporters -> Steps] /\ step'[x] = "raised"
      /\ \A y \in Exporters \ {x} : step'[y] = step[y]
  BY <1>1 DEF FailExport, GoOn, ExportTypeOK, Steps
<1>4. ExportTypeOK' /\ ListedInv'
  BY <1>1, <1>2, <1>3, LifecycleKept DEF ExportTypeOK, ListedInv, Connected
<1>5. CallInv(x)'
  BY <1>1, <1>2, <1>3, LifecycleKept DEF CallInv, Working, Copying
<1>6. \A y \in Exporters \ {x} : CallInv(y)'
  BY <1>1, <1>2, <1>3, OthersKept
<1> QED
  BY <1>4, <1>5, <1>6, LifecycleKept DEF EInv

(* The history that is read is whole, connected and has the first event.   *)
LEMMA ReadHistoryStep ==
    ASSUME EInv, NEW x \in Exporters, ReadHistory(x), UNCHANGED vars
    PROVE  EInv'
<1>1. ExportTypeOK /\ RInv /\ ListedInv /\ CallInv(x) /\ step[x] = "history"
  BY DEF EInv, ReadHistory
<1>2. CASE \E e \in History : published[e] # Whole
  <2>1. FailExport(x)
    BY <1>1, <1>2 DEF ReadHistory, FailExport, Working
  <2> QED
    BY <2>1, FailStep
<1>3. CASE ~ \E e \in History : published[e] # Whole
  <2>1. /\ UNCHANGED <<directory, out, checksums, overwrite, copied, known>>
        /\ GoOn(x, "events") /\ selected' = [selected EXCEPT ![x] = History]
    BY <1>3 DEF ReadHistory
  <2>2. /\ step' \in [Exporters -> Steps] /\ step'[x] = "events" /\ selected'[x] = History
        /\ \A y \in Exporters \ {x} : step'[y] = step[y] /\ selected'[y] = selected[y]
        /\ selected' \in [Exporters -> SUBSET Events]
    BY <1>1, <2>1 DEF GoOn, ExportTypeOK, Steps, Working, History
  <2>3. Initial \in History /\ Connected(History)
    BY <1>1 DEF RInv, CallInv, Working, Connected, HistoryReachable
  <2>4. ExportTypeOK' /\ ListedInv'
    BY <1>1, <2>1, <2>2, LifecycleKept DEF ExportTypeOK, ListedInv, Connected
  <2>5. Connected(selected[x])'
    BY <2>2, <2>3 DEF Connected
  <2>6. CallInv(x)'
    BY <1>1, <2>1, <2>2, <2>3, <2>5, LifecycleKept DEF CallInv, Working, Copying
  <2>7. ASSUME NEW y \in Exporters \ {x} PROVE CallInv(y)'
    <3>1. CallInv(y) /\ step[y] \notin Working
      BY <1>1 DEF EInv, CallInv, Working
    <3>2. step[y] = "returned" => known[y] \subseteq copied[y] /\ \E z \in Exporters \ {y} : overwrite[z]
      BY <1>1, <3>1 DEF CallInv, Working
    <3> QED
      BY <2>1, <2>2, <3>1, <3>2 DEF CallInv, Working, Copying
  <2> QED
    BY <2>4, <2>6, <2>7, LifecycleKept DEF EInv
<1> QED
  BY <1>2, <1>3

LEMMA CopyEventsStep ==
    ASSUME EInv, NEW x \in Exporters, CopyEvents(x), UNCHANGED vars
    PROVE  EInv'
<1>1. ExportTypeOK /\ CallInv(x) /\ step[x] = "events" /\ step[x] \in Copying
  BY DEF EInv, CopyEvents, Copying
<1>2. CASE selected[x] \subseteq copied[x]
  <2>1. GoOn(x, "tail") /\ UNCHANGED <<directory, out, checksums, overwrite, copied, selected, known>>
    BY <1>2 DEF CopyEvents
  <2>2. "tail" \in Steps
    BY DEF Steps, Working
  <2>3. CallInv(x)'
    BY <1>1, <1>2, <2>1, <2>2, GoOnKeepsType, LifecycleKept DEF CallInv, Working, Copying, Connected
  <2> QED
    BY <1>1, <2>1, <2>2, <2>3, GoOnKeepsType, LifecycleKept DEF EInv
<1>3. CASE ~ (selected[x] \subseteq copied[x])
  <2>1. PICK e \in selected[x] \ copied[x] :
            IF published[e] = NoFile
            THEN GoOn(x, "raised")
                 /\ UNCHANGED <<directory, out, checksums, overwrite, copied, selected, known>>
            ELSE CopyFile(x, e) /\ UNCHANGED step
    BY <1>3 DEF CopyEvents
  <2>2. CASE published[e] = NoFile
    <3>1. FailExport(x)
      BY <1>1, <2>1, <2>2 DEF FailExport, Working
    <3> QED
      BY <3>1, FailStep
  <2>3. CASE published[e] # NoFile
    <3>1. CopyFile(x, e) /\ UNCHANGED step /\ e \in Files
      BY <1>1, <2>1, <2>3 DEF Files, ExportTypeOK
    <3>2. CallInv(x)'
      BY <1>1, <3>1, CopyKeepsType, LifecycleKept DEF CallInv, CopyFile, Working, Copying, Connected
    <3> QED
      BY <1>1, <3>1, <3>2, CopyKeepsType, LifecycleKept DEF EInv
  <2> QED
    BY <2>2, <2>3
<1> QED
  BY <1>2, <1>3

LEMMA CopyTailStep ==
    ASSUME EInv, NEW x \in Exporters, CopyTail(x), UNCHANGED vars
    PROVE  EInv'
<1>1. CallInv(x) /\ step[x] = "tail" /\ step[x] \in Copying
  BY DEF EInv, CopyTail, Copying
<1>2. CASE Tail \subseteq copied[x]
  <2>1. GoOn(x, "hash") /\ UNCHANGED <<directory, out, checksums, overwrite, copied, selected, known>>
    BY <1>2 DEF CopyTail
  <2>2. "hash" \in Steps
    BY DEF Steps, Working
  <2>3. CallInv(x)'
    BY <1>1, <1>2, <2>1, <2>2, GoOnKeepsType, LifecycleKept DEF CallInv, Working, Copying, Connected
  <2> QED
    BY <1>1, <2>1, <2>2, <2>3, GoOnKeepsType, LifecycleKept DEF EInv
<1>3. CASE ~ (Tail \subseteq copied[x])
  <2>1. PICK f \in Tail : CopyFile(x, f) /\ UNCHANGED step
    BY <1>3 DEF CopyTail
  <2>2. f \in Files /\ f \notin Events
    BY FilesAssumption DEF Files
  <2>3. CallInv(x)'
    BY <1>1, <2>1, <2>2, CopyKeepsType, LifecycleKept DEF CallInv, CopyFile, Working, Copying, Connected
  <2> QED
    BY <1>1, <2>1, <2>2, <2>3, CopyKeepsType, LifecycleKept DEF EInv
<1> QED
  BY <1>2, <1>3

LEMMA WriteChecksumsStep ==
    ASSUME EInv, NEW x \in Exporters, WriteChecksums(x), UNCHANGED vars
    PROVE  EInv'
<1>1. ExportTypeOK /\ ListedInv /\ CallInv(x) /\ step[x] = "hash" /\ step[x] \in Working
  BY DEF EInv, WriteChecksums, Working
<1>2. CASE ~ (copied[x] \subseteq out)
  <2>1. FailExport(x)
    BY <1>1, <1>2 DEF WriteChecksums, FailExport
  <2> QED
    BY <2>1, FailStep
<1>3. CASE copied[x] \subseteq out
  <2>1. /\ checksums' = copied[x] /\ GoOn(x, "returned")
        /\ UNCHANGED <<directory, out, overwrite, copied, selected, known>>
    BY <1>3 DEF WriteChecksums
  <2>2. /\ step' \in [Exporters -> Steps] /\ step'[x] = "returned"
        /\ \A y \in Exporters \ {x} : step'[y] = step[y]
    BY <1>1, <2>1 DEF GoOn, ExportTypeOK, Steps
  <2>3. directory /\ copied[x] \in SUBSET Files
    BY <1>1 DEF CallInv, Copying, ExportTypeOK
  <2>4. ExportTypeOK'
    BY <1>1, <2>1, <2>2, <2>3, LifecycleKept DEF ExportTypeOK
  <2>5. copied[x] \cap Events = selected[x]
    BY <1>1 DEF CallInv, ExportTypeOK
  <2>6. ListedInv'
    BY <1>1, <2>1, <2>5 DEF CallInv, Copying, ListedInv, Connected
  <2>7. \A y \in Exporters : step'[y] \notin Working
    BY <1>1, <2>2 DEF CallInv, Working
  <2>8. known[x] \subseteq copied[x]
    BY <1>1 DEF CallInv
  <2>9. CallInv(x)'
    BY <2>1, <2>2, <2>3, <2>7, <2>8 DEF CallInv, Working, Copying
  <2>10. \A y \in Exporters \ {x} : CallInv(y)'
    BY <1>1, <2>1, <2>2, OthersKept
  <2> QED
    BY <2>4, <2>6, <2>9, <2>10, LifecycleKept DEF EInv
<1> QED
  BY <1>2, <1>3

LEMMA EStep == EInv /\ [ExportNext]_allVars => EInv'
<1> SUFFICES ASSUME EInv, [ExportNext]_allVars PROVE EInv'
  OBVIOUS
<1>1. CASE /\ CommitRun \/ \E a \in Appenders : Step(a) \/ \E e \in Events : AppendStatusEvent(a, e)
           /\ UNCHANGED exportVars
  BY <1>1, LifecycleStep DEF Next
<1>2. ASSUME NEW x \in Exporters, ExportRun(x) \/ ExportStep(x) \/ FailExport(x), UNCHANGED vars
      PROVE  EInv'
  BY <1>2, ExportRunStep, RemoveStep, RemoveDirectoryStep, MakeDirectoryStep, CopyHeadStep,
     ReadHistoryStep, CopyEventsStep, CopyTailStep, WriteChecksumsStep, FailStep DEF ExportStep
<1>3. CASE AllFinished
  BY <1>3, LifecycleStep DEF AllFinished, Next
<1>4. CASE UNCHANGED allVars
  BY <1>4, LifecycleStep DEF allVars
<1> QED
  BY <1>1, <1>2, <1>3, <1>4 DEF ExportNext
-----------------------------------------------------------------------------
LEMMA ExportInvariant == ExportSpec => []EInv
  BY InitEInv, EStep, PTL DEF ExportSpec

(* The state is of its types; nothing lies in a directory that is not.     *)
THEOREM ExportTypeCorrect == ExportSpec => []ExportTypeOK
<1>1. EInv => ExportTypeOK
  BY DEF EInv
<1> QED
  BY <1>1, ExportInvariant, PTL

(* An export that verifies is the export of a whole run, whatever failed,  *)
(* and its events are a history, though others are published meanwhile.    *)
THEOREM VerifiedExportsAreTheRun == ExportSpec => []VerifiedIsTheRun
<1>1. EInv => VerifiedIsWhole
  BY DEF EInv, ListedInv, VerifiedIsWhole, Verifies
<1>2. EInv => VerifiedIsReachable
  BY DEF EInv, ListedInv, VerifiedIsReachable, Verifies, Connected
<1>3. EInv => VerifiedIsTheRun
  BY <1>1, <1>2 DEF VerifiedIsTheRun
<1> QED
  BY <1>3, ExportInvariant, PTL

(* An export holds all that was published before its call began, and its   *)
(* checksums are its own until another call overwrites it.                 *)
THEOREM ExportsAreCurrent == ExportSpec => []ExportIsCurrent
<1>1. EInv => ExportIsCurrent
  BY DEF EInv, CallInv, ExportIsCurrent
<1> QED
  BY <1>1, ExportInvariant, PTL

(* Only a call that was told to overwrite an export can spoil it.          *)
THEOREM ExportsAreLostToOverwriteOnly == ExportSpec => LostToOverwriteOnly
<1> DEFINE Keeps == Verifies => \/ Verifies' /\ checksums' = checksums
                                \/ \E x \in Exporters : overwrite[x] /\ step[x] = "remove"
<1>1. EInv /\ [ExportNext]_allVars => Keeps
  <2> SUFFICES ASSUME EInv, [ExportNext]_allVars, Verifies PROVE Keeps
    OBVIOUS
  <2>1. CASE UNCHANGED exportVars
    BY <2>1 DEF exportVars, Verifies
  <2>2. ASSUME NEW x \in Exporters, ExportRun(x) \/ FailExport(x) \/ ReadHistory(x) PROVE Keeps
    BY <2>2 DEF ExportRun, FailExport, ReadHistory, Verifies
  <2>3. ASSUME NEW x \in Exporters,
               RemoveExportedFile(x) \/ RemoveDirectory(x) \/ MakeDirectory(x)
                   \/ CopyHead(x) \/ CopyEvents(x) \/ CopyTail(x) \/ WriteChecksums(x)
        PROVE  Keeps
    <3>1. CallInv(x) /\ checksums # NoFile
      BY DEF EInv, Verifies
    <3>2. step[x] = "remove"
      BY <2>3, <3>1 DEF CallInv, Copying, RemoveExportedFile, RemoveDirectory, MakeDirectory,
                        CopyHead, CopyEvents, CopyTail, WriteChecksums
    <3> QED
      BY <3>1, <3>2 DEF CallInv
  <2> QED
    BY <2>1, <2>2, <2>3 DEF ExportNext, ExportStep, AllFinished, allVars
<1> QED
  BY <1>1, ExportInvariant, PTL DEF ExportSpec, LostToOverwriteOnly
=============================================================================
