------------------------- MODULE MapperSessionsProofs -------------------------
(***************************************************************************)
(* Theorems about the session store, for any number of requests and        *)
(* sessions, any bound, any idle time: it keeps its bound, evicts in the   *)
(* order of use, loses a session only for a reason, and implements the     *)
(* bounded cache.                                                          *)
(***************************************************************************)
EXTENDS MapperSessions, FiniteSetTheorems, TLAPS

(* The order of the dictionary is a strict total order on its keys.        *)
Ordered ==
    /\ \A s \in Requests : behind[s] \subseteq sessions \ {s}
    /\ \A s \in Requests \ sessions : behind[s] = {}
    /\ \A s, t \in sessions : s # t => (t \in behind[s] <=> s \notin behind[t])
    /\ \A s, t, u \in sessions :
            t \in behind[s] /\ u \in behind[t] => u \in behind[s]

Timed ==
    /\ \A s \in Requests : lastAccess[s] <= clock
    /\ \A s \in sessions : Used(s)
    /\ \A s, t \in sessions : t \in behind[s] => lastAccess[s] <= lastAccess[t]

Bounded ==
    /\ IsFiniteSet(sessions)
    /\ \/ Cardinality(sessions) <= MaxSessions
       \/ /\ Cardinality(sessions) = MaxSessions + 1
          /\ \E r \in Requests : pc[r] = "trim"

(* A session is created once; what has not been answered has no answer.    *)
Fresh == \A r \in Requests :
    /\ pc[r] = "insert" => ~Used(r)
    /\ pc[r] \in {"idle", "waiting"} /\ (operation[r] = "create" \/ pc[r] = "idle") => ~Used(r)
    /\ pc[r] \in {"insert", "trim"} => operation[r] = "create"
    /\ pc[r] \in {"lookup", "working"} => operation[r] = "get"
    /\ pc[r] = "pop" => operation[r] = "delete"
    /\ Used(r) => operation[r] = "create"
    /\ pc[r] # "done" => answer[r] = "none"
    /\ pc[r] = "idle" => operation[r] = "get"

Reason(s) ==
    \/ Deleted(s)
    \/ clock - lastAccess[s] > TTL
    \/ Cardinality(UsedNoEarlier(s)) >= MaxSessions

SInv == TypeOK /\ Ordered /\ Timed /\ Bounded /\ Fresh /\ GoneForAReason

(* Removing sessions keeps the order of the others.                        *)
LEMMA RemoveKeepsOrder ==
    ASSUME TypeOK, Ordered, NEW gone, Remove(gone)
    PROVE  /\ sessions' \subseteq sessions
           /\ behind' \in [Requests -> SUBSET Requests]
           /\ \A s, t \in sessions' : t \in behind'[s] <=> t \in behind[s]
           /\ Ordered'
<1>1. sessions' = sessions \ gone /\ sessions' \subseteq Requests
  BY DEF Remove, TypeOK
<1>2. \A t \in Requests : behind'[t] = IF t \in sessions' THEN behind[t] \ gone ELSE {}
  BY DEF Remove
<1>3. behind' \in [Requests -> SUBSET Requests]
  BY DEF Remove, TypeOK
<1>4. ASSUME NEW s \in Requests PROVE behind'[s] \subseteq sessions' \ {s}
  <2>1. behind[s] \subseteq sessions \ {s}
    BY DEF Ordered
  <2>2. CASE s \in sessions'
    <3>1. behind'[s] = behind[s] \ gone
      BY <1>2, <2>2
    <3> QED BY <1>1, <2>1, <3>1
  <2>3. CASE s \notin sessions'
    BY <1>2, <2>3
  <2> QED BY <2>2, <2>3
<1>5. \A s, t \in sessions' : t \in behind'[s] <=> t \in behind[s]
  BY <1>1, <1>2
<1> QED
  BY <1>1, <1>2, <1>3, <1>4, <1>5 DEF Ordered

(* Touching a session that is there, or putting a new one, makes it the    *)
(* last of the order.                                                      *)
LEMMA MoveToEndKeepsOrder ==
    ASSUME TypeOK, Ordered, NEW s \in Requests, MoveToEnd(s),
           sessions' = sessions \cup {s}
    PROVE  /\ behind' \in [Requests -> SUBSET Requests]
           /\ \A t \in sessions \ {s} : behind'[t] = behind[t] \cup {s}
           /\ behind'[s] = {}
           /\ Ordered'
<1>1. sessions' \subseteq Requests
  BY DEF TypeOK
<1>a. \A t, u \in sessions : t # u => (u \in behind[t] <=> t \notin behind[u])
  BY DEF Ordered
<1>b. \A t, u, v \in sessions : u \in behind[t] /\ v \in behind[u] => v \in behind[t]
  BY DEF Ordered
<1>2. \A t \in Requests : behind'[t] = IF t \in sessions \ {s} THEN behind[t] \cup {s} ELSE {}
  BY DEF MoveToEnd
<1>3. behind' \in [Requests -> SUBSET Requests]
  BY DEF MoveToEnd, TypeOK
<1>4. ASSUME NEW t \in Requests PROVE behind'[t] \subseteq sessions' \ {t}
  <2>1. behind[t] \subseteq sessions \ {t}
    BY DEF Ordered
  <2>2. CASE t \in sessions \ {s}
    <3>1. behind'[t] = behind[t] \cup {s}
      BY <1>2, <2>2
    <3> QED BY <2>1, <2>2, <3>1
  <2>3. CASE t \notin sessions \ {s}
    BY <1>2, <2>3
  <2> QED BY <2>2, <2>3
<1>5. \A t \in Requests \ sessions' : behind'[t] = {}
  BY <1>2
<1>6. ASSUME NEW t \in sessions', NEW u \in sessions', t # u
      PROVE  u \in behind'[t] <=> t \notin behind'[u]
  <2>1. CASE t = s
    BY <1>1, <1>2, <1>6, <2>1
  <2>2. CASE u = s
    BY <1>1, <1>2, <1>6, <2>2
  <2>3. CASE t # s /\ u # s
    <3>1. t \in sessions /\ u \in sessions
      BY <2>3
    <3>2. behind'[t] = behind[t] \cup {s} /\ behind'[u] = behind[u] \cup {s}
      BY <1>1, <1>2, <2>3, <3>1
    <3> QED BY <1>6, <1>a, <2>3, <3>1, <3>2
  <2> QED BY <2>1, <2>2, <2>3
<1>7. ASSUME NEW t \in sessions', NEW u \in sessions', NEW v \in sessions',
             u \in behind'[t], v \in behind'[u]
      PROVE  v \in behind'[t]
  <2>1. t # s /\ u # s
    BY <1>1, <1>2, <1>7
  <2>2. CASE v = s
    BY <1>1, <1>2, <2>1, <2>2
  <2>3. CASE v # s
    <3>1. t \in sessions /\ u \in sessions /\ v \in sessions
      BY <2>1, <2>3
    <3>2. behind'[t] = behind[t] \cup {s} /\ behind'[u] = behind[u] \cup {s}
      BY <1>1, <1>2, <2>1, <3>1
    <3>3. u \in behind[t] /\ v \in behind[u]
      BY <1>7, <2>1, <2>3, <3>2
    <3> QED BY <1>b, <3>1, <3>2, <3>3
  <2> QED BY <2>2, <2>3
<1>8. behind'[s] = {} /\ \A t \in sessions \ {s} : behind'[t] = behind[t] \cup {s}
  BY <1>1, <1>2
<1>9. Ordered'
  BY <1>4, <1>5, <1>6, <1>7 DEF Ordered
<1> QED BY <1>3, <1>8, <1>9

LEMMA UsedIsFinite ==
    ASSUME NEW s \in Requests
    PROVE  IsFiniteSet(UsedNoEarlier(s)) /\ Cardinality(UsedNoEarlier(s)) \in Nat
BY RequestsAssumption, FS_Subset, FS_CardinalityType DEF UsedNoEarlier

(* The reason for which a session has gone stays one: deletions are not    *)
(* undone, the clock and the other sessions' accesses only move on.        *)
LEMMA ReasonStays ==
    ASSUME TypeOK, TypeOK', NEW s \in Requests, Reason(s),
           clock <= clock', lastAccess'[s] = lastAccess[s],
           \A t \in Requests : lastAccess[t] <= lastAccess'[t],
           \A r \in Requests : pc[r] = "done" =>
                /\ pc'[r] = "done" /\ answer'[r] = answer[r]
                /\ operation'[r] = operation[r] /\ target'[r] = target[r]
    PROVE  Reason(s)'
<1>1. CASE Deleted(s)
  BY <1>1 DEF Deleted, Reason
<1>2. CASE clock - lastAccess[s] > TTL
  <2>1. lastAccess[s] \in Nat /\ clock \in Nat /\ clock' \in Nat /\ TTL \in Nat
    BY ClockAssumption, SettingsAssumption DEF TypeOK
  <2> QED BY <1>2, <2>1 DEF Reason
<1>3. CASE Cardinality(UsedNoEarlier(s)) >= MaxSessions
  <2>1. UsedNoEarlier(s) \subseteq UsedNoEarlier(s)'
    <3> SUFFICES ASSUME NEW t \in Requests, t # s, Used(t), lastAccess[t] >= lastAccess[s]
                 PROVE  Used(t)' /\ lastAccess'[t] >= lastAccess'[s]
      BY DEF UsedNoEarlier
    <3>1. lastAccess[t] \in Nat /\ lastAccess'[t] \in Nat /\ lastAccess[s] \in Nat
      BY DEF TypeOK
    <3> QED BY <3>1 DEF Used, Never
  <2>2. /\ IsFiniteSet(UsedNoEarlier(s)') /\ Cardinality(UsedNoEarlier(s)') \in Nat
        /\ Cardinality(UsedNoEarlier(s)) \in Nat
    BY RequestsAssumption, FS_Subset, FS_CardinalityType DEF UsedNoEarlier
  <2>3. Cardinality(UsedNoEarlier(s)) <= Cardinality(UsedNoEarlier(s)')
    BY <2>1, <2>2, FS_Subset
  <2> QED BY <1>3, <2>2, <2>3, SettingsAssumption DEF Reason
<1> QED BY <1>1, <1>2, <1>3 DEF Reason

(* A step keeps GoneForAReason when each session it removes has a reason.  *)
LEMMA ReasonsStay ==
    ASSUME TypeOK, TypeOK', GoneForAReason, clock <= clock',
           \A t \in Requests : lastAccess[t] <= lastAccess'[t],
           \A t \in Requests \ sessions' : lastAccess'[t] = lastAccess[t],
           \A r \in Requests : pc[r] = "done" =>
                /\ pc'[r] = "done" /\ answer'[r] = answer[r]
                /\ operation'[r] = operation[r] /\ target'[r] = target[r],
           \A s \in sessions \ sessions' : Reason(s)'
    PROVE  GoneForAReason'
<1> SUFFICES ASSUME NEW s \in Requests, s \notin sessions', Used(s)'
             PROVE  Reason(s)'
  BY DEF GoneForAReason, Reason
<1>1. CASE s \in sessions
  BY <1>1
<1>2. CASE s \notin sessions
  <2>1. Used(s) /\ lastAccess'[s] = lastAccess[s]
    BY DEF Used
  <2>2. Reason(s)
    BY <1>2, <2>1 DEF GoneForAReason, Reason
  <2> QED BY <2>1, <2>2, ReasonStays
<1> QED BY <1>1, <1>2

-----------------------------------------------------------------------------
(* The type invariant; the lock is held by whoever is inside a call.       *)

LEMMA TypeStep ==
    ASSUME TypeOK, Next
    PROVE  TypeOK'
<1>1. ASSUME NEW r \in Requests, Start(r) PROVE TypeOK'
  BY <1>1 DEF TypeOK, Start, Known, Phases, Locked, Operations
<1>2. ASSUME NEW r \in Requests, Reject(r) PROVE TypeOK'
  BY <1>2 DEF TypeOK, Reject, Phases, Locked, Answers
<1>3. ASSUME NEW r \in Requests, Enter(r) PROVE TypeOK'
  <2>1. sessions' \subseteq Requests /\ behind' \in [Requests -> SUBSET Requests]
    BY <1>3 DEF TypeOK, Enter, Remove
  <2>2. operation[r] \in {"create", "get", "delete"}
    BY DEF TypeOK, Operations
  <2>3. \E p \in Locked : pc' = [pc EXCEPT ![r] = p]
    <3>1. CASE operation[r] = "create"
      <4>1. pc' = [pc EXCEPT ![r] = "insert"]
        BY <1>3, <3>1 DEF Enter
      <4> QED BY <4>1 DEF Locked
    <3>2. CASE operation[r] = "get"
      <4>1. pc' = [pc EXCEPT ![r] = "lookup"]
        BY <1>3, <3>2 DEF Enter
      <4> QED BY <4>1 DEF Locked
    <3>3. CASE operation[r] = "delete"
      <4>1. pc' = [pc EXCEPT ![r] = "pop"]
        BY <1>3, <3>3 DEF Enter
      <4> QED BY <4>1 DEF Locked
    <3> QED BY <2>2, <3>1, <3>2, <3>3
  <2>4. pc' \in [Requests -> Phases]
    BY <2>3 DEF TypeOK, Phases
  <2>5. \A q \in Requests : pc'[q] \in Locked <=> lock' = q
    <3>1. \A q \in Requests : pc[q] \notin Locked
      BY <1>3, RequestsAssumption DEF TypeOK, Enter, LockFree
    <3>2. PICK p \in Locked : pc' = [pc EXCEPT ![r] = p]
      BY <2>3
    <3>3. pc'[r] = p /\ \A q \in Requests \ {r} : pc'[q] = pc[q]
      BY <3>2 DEF TypeOK
    <3>4. lock' = r
      BY <1>3 DEF Enter
    <3> QED BY <3>1, <3>2, <3>3, <3>4
  <2> QED BY <1>3, <2>1, <2>4, <2>5 DEF TypeOK, Enter
<1>4. ASSUME NEW r \in Requests, Insert(r) PROVE TypeOK'
  BY <1>4 DEF TypeOK, Insert, MoveToEnd, Phases, Locked
<1>5. ASSUME NEW r \in Requests, PopFirst(r) PROVE TypeOK'
  BY <1>5 DEF TypeOK, PopFirst, Remove
<1>6. ASSUME NEW r \in Requests, LeaveTrimmed(r) PROVE TypeOK'
  BY <1>6, RequestsAssumption DEF TypeOK, LeaveTrimmed, Phases, Locked, Answers
<1>7. ASSUME NEW r \in Requests, Find(r) PROVE TypeOK'
  BY <1>7, RequestsAssumption DEF TypeOK, Find, MoveToEnd, Phases, Locked
<1>8. ASSUME NEW r \in Requests, Miss(r) PROVE TypeOK'
  BY <1>8, RequestsAssumption DEF TypeOK, Miss, Phases, Locked, Answers
<1>9. ASSUME NEW r \in Requests, Pop(r) PROVE TypeOK'
  BY <1>9, RequestsAssumption DEF TypeOK, Pop, Remove, Phases, Locked, Answers
<1>10. ASSUME NEW r \in Requests, Work(r) PROVE TypeOK'
  BY <1>10 DEF TypeOK, Work, Phases, Locked, Answers
<1>11. CASE Tick
  BY <1>11, ClockAssumption DEF TypeOK, Tick
<1>12. CASE Finished
  BY <1>12 DEF TypeOK, Finished, vars
<1> QED
  BY <1>1, <1>2, <1>3, <1>4, <1>5, <1>6, <1>7, <1>8, <1>9, <1>10, <1>11, <1>12
     DEF Next, Proceed

(* Every request is answered at most once, by the one call it makes.       *)
LEMMA DoneStays ==
    ASSUME TypeOK, Next
    PROVE  \A r \in Requests : pc[r] = "done" =>
                /\ pc'[r] = "done" /\ answer'[r] = answer[r]
                /\ operation'[r] = operation[r] /\ target'[r] = target[r]
<1>1. ASSUME NEW r \in Requests, Start(r) \/ Reject(r) \/ Proceed(r)
      PROVE  /\ pc[r] # "done"
             /\ \A q \in Requests \ {r} :
                    /\ pc'[q] = pc[q] /\ answer'[q] = answer[q]
                    /\ operation'[q] = operation[q] /\ target'[q] = target[q]
  BY <1>1 DEF TypeOK, Start, Reject, Proceed, Enter, Insert, PopFirst, LeaveTrimmed,
              Find, Miss, Pop, Work
<1>2. CASE Tick \/ Finished
  BY <1>2 DEF Tick, Finished, vars
<1> QED BY <1>1, <1>2 DEF Next

-----------------------------------------------------------------------------
(* The invariant, action by action.  The parts an action cannot disturb    *)
(* follow from what it leaves unchanged.                                   *)

LEMMA FreshStep ==
    ASSUME TypeOK, Fresh, Timed, Next
    PROVE  Fresh'
<1>1. ASSUME NEW r \in Requests, Start(r) PROVE Fresh'
  BY <1>1 DEF TypeOK, Fresh, Start, Used
<1>2. ASSUME NEW r \in Requests, Reject(r) PROVE Fresh'
  BY <1>2 DEF TypeOK, Fresh, Reject, Used
<1>3. ASSUME NEW r \in Requests, Enter(r) PROVE Fresh'
  <2>1. operation[r] \in {"create", "get", "delete"}
    BY DEF TypeOK, Operations
  <2>2. CASE operation[r] = "create"
    BY <1>3, <2>2 DEF TypeOK, Fresh, Enter, Used
  <2>3. CASE operation[r] = "get"
    BY <1>3, <2>3 DEF TypeOK, Fresh, Enter, Used
  <2>4. CASE operation[r] = "delete"
    BY <1>3, <2>4 DEF TypeOK, Fresh, Enter, Used
  <2> QED BY <2>1, <2>2, <2>3, <2>4
<1>4. ASSUME NEW r \in Requests, Insert(r) PROVE Fresh'
  BY <1>4 DEF TypeOK, Fresh, Insert, MoveToEnd, Used
<1>5. ASSUME NEW r \in Requests, PopFirst(r) PROVE Fresh'
  BY <1>5 DEF TypeOK, Fresh, PopFirst, Used
<1>6. ASSUME NEW r \in Requests, LeaveTrimmed(r) PROVE Fresh'
  BY <1>6 DEF TypeOK, Fresh, LeaveTrimmed, Used
<1>7. ASSUME NEW r \in Requests, Find(r) PROVE Fresh'
  BY <1>7 DEF TypeOK, Fresh, Find, MoveToEnd, Used, Timed
<1>8. ASSUME NEW r \in Requests, Miss(r) PROVE Fresh'
  BY <1>8 DEF TypeOK, Fresh, Miss, Used
<1>9. ASSUME NEW r \in Requests, Pop(r) PROVE Fresh'
  BY <1>9 DEF TypeOK, Fresh, Pop, Used
<1>10. ASSUME NEW r \in Requests, Work(r) PROVE Fresh'
  BY <1>10 DEF TypeOK, Fresh, Work, Used
<1>11. CASE Tick
  BY <1>11 DEF Fresh, Tick, Used
<1>12. CASE Finished
  BY <1>12 DEF Fresh, Finished, vars, Used
<1> QED
  BY <1>1, <1>2, <1>3, <1>4, <1>5, <1>6, <1>7, <1>8, <1>9, <1>10, <1>11, <1>12
     DEF Next, Proceed

(* Ordered, Timed and Bounded: only the dictionary and the clock matter.   *)
LEMMA StoreStep ==
    ASSUME TypeOK, Ordered, Timed, Bounded, Fresh, Next
    PROVE  /\ Ordered' /\ Timed' /\ Bounded'
           /\ clock <= clock'
           /\ \A t \in Requests : lastAccess[t] <= lastAccess'[t]
           /\ \A t \in Requests \ sessions' : lastAccess'[t] = lastAccess[t]
<1> DEFINE Kept == /\ Ordered' /\ Timed' /\ Bounded'
                   /\ clock <= clock'
                   /\ \A t \in Requests : lastAccess[t] <= lastAccess'[t]
                   /\ \A t \in Requests \ sessions' : lastAccess'[t] = lastAccess[t]
<1> SUFFICES Kept
  OBVIOUS
<1>t. clock \in Nat /\ \A t \in Requests : lastAccess[t] \in Nat
  BY ClockAssumption DEF TypeOK
<1>f. Cardinality(sessions) \in Nat /\ MaxSessions \in Nat
  BY FS_CardinalityType, SettingsAssumption DEF Bounded
<1>1. ASSUME UNCHANGED <<sessions, behind, lastAccess, clock>>,
             \A r \in Requests : pc[r] = "trim" =>
                    pc'[r] = "trim" \/ Cardinality(sessions) <= MaxSessions
      PROVE  Kept
  <2>1. Ordered'
    BY <1>1 DEF Ordered
  <2>2. Timed'
    BY <1>1 DEF Timed, Used
  <2>3. Bounded'
    BY <1>1, <1>f DEF Bounded
  <2> QED BY <1>1, <1>t, <2>1, <2>2, <2>3
<1>2. ASSUME NEW gone, Remove(gone), UNCHANGED <<lastAccess, clock>>,
             Cardinality(sessions) <= MaxSessions
                \/ \E s \in sessions : gone = {s}
      PROVE  Kept
  <2>1. Ordered' /\ sessions' \subseteq sessions
        /\ \A s, t \in sessions' : t \in behind'[s] <=> t \in behind[s]
    BY <1>2, RemoveKeepsOrder
  <2>2. Timed'
    BY <1>2, <2>1 DEF Timed, Used
  <2>3. sessions' = sessions \ gone
    BY <1>2 DEF Remove
  <2>4. IsFiniteSet(sessions') /\ Cardinality(sessions') <= Cardinality(sessions)
        /\ Cardinality(sessions') \in Nat
    BY <2>1, FS_Subset, FS_CardinalityType DEF Bounded
  <2>5. Cardinality(sessions') <= MaxSessions
    <3>1. CASE Cardinality(sessions) <= MaxSessions
      BY <1>f, <2>4, <3>1
    <3>2. CASE \E s \in sessions : gone = {s}
      <4>1. Cardinality(sessions') = Cardinality(sessions) - 1
        BY <2>3, <3>2, FS_RemoveElement DEF Bounded
      <4> QED BY <1>f, <2>4, <4>1 DEF Bounded
    <3> QED BY <1>2, <3>1, <3>2
  <2>6. Bounded'
    BY <2>4, <2>5 DEF Bounded
  <2> QED BY <1>2, <1>t, <2>1, <2>2, <2>6
<1>3. ASSUME NEW s \in Requests, MoveToEnd(s), sessions' = sessions \cup {s},
             UNCHANGED clock, Bounded'
      PROVE  Kept
  <2>1. Ordered' /\ behind'[s] = {}
        /\ \A t \in sessions \ {s} : behind'[t] = behind[t] \cup {s}
    BY <1>3, MoveToEndKeepsOrder
  <2>2. lastAccess'[s] = clock /\ \A t \in Requests \ {s} : lastAccess'[t] = lastAccess[t]
    BY <1>3 DEF MoveToEnd, TypeOK
  <2>3. \A t \in Requests : lastAccess[t] <= clock
    BY DEF Timed
  <2>4. \A t \in Requests : lastAccess[t] <= lastAccess'[t] /\ lastAccess'[t] <= clock'
    BY <1>3, <1>t, <2>2, <2>3
  <2>5. \A t \in sessions' : Used(t)'
    <3>1. clock # Never
      BY ClockAssumption DEF TypeOK, Never
    <3> QED BY <1>3, <2>2, <3>1 DEF Timed, Used, TypeOK
  <2>6. ASSUME NEW t \in sessions', NEW u \in sessions', u \in behind'[t]
        PROVE  lastAccess'[t] <= lastAccess'[u]
    <3>1. t # s
      BY <2>1, <2>6
    <3>2. t \in sessions /\ t \in Requests /\ u \in Requests
      BY <1>3, <3>1 DEF TypeOK
    <3>3. CASE u = s
      BY <2>2, <2>3, <3>1, <3>2, <3>3
    <3>4. CASE u # s
      <4>1. u \in sessions /\ u \in behind[t]
        BY <1>3, <2>1, <2>6, <3>1, <3>2, <3>4
      <4> QED BY <2>2, <3>1, <3>2, <3>4, <4>1 DEF Timed
    <3> QED BY <3>3, <3>4
  <2>7. Timed'
    BY <2>4, <2>5, <2>6 DEF Timed
  <2>8. \A t \in Requests \ sessions' : lastAccess'[t] = lastAccess[t]
    BY <1>3, <2>2
  <2> QED BY <1>3, <1>t, <2>1, <2>4, <2>7, <2>8
<1>4. ASSUME NEW r \in Requests, Start(r) \/ Reject(r) \/ Miss(r) \/ Work(r)
      PROVE  Kept
  BY <1>1, <1>4 DEF Start, Reject, Miss, Work, TypeOK
<1>5. ASSUME NEW r \in Requests, LeaveTrimmed(r) PROVE Kept
  BY <1>1, <1>5, <1>f DEF LeaveTrimmed, Overflow, TypeOK
<1>6. ASSUME NEW r \in Requests, Enter(r) PROVE Kept
  <2>1. \A q \in Requests : pc[q] # "trim"
    BY <1>6, RequestsAssumption DEF Enter, LockFree, TypeOK, Locked
  <2>2. Cardinality(sessions) <= MaxSessions
    BY <2>1 DEF Bounded
  <2>3. CASE operation[r] = "delete"
    BY <1>1, <1>6, <2>1, <2>3 DEF Enter
  <2>4. CASE operation[r] # "delete"
    <3>1. PICK gone : gone = Expired
      OBVIOUS
    <3>2. Remove(gone) /\ UNCHANGED <<lastAccess, clock>>
      BY <1>6, <2>4, <3>1 DEF Enter, Remove
    <3> QED BY <1>2, <2>2, <3>2
  <2> QED BY <2>3, <2>4
<1>7. ASSUME NEW r \in Requests, Insert(r) PROVE Kept
  <2>1. \A q \in Requests : pc[q] # "trim"
    BY <1>7 DEF Insert, TypeOK, Locked
  <2>2. Cardinality(sessions) <= MaxSessions
    BY <2>1 DEF Bounded
  <2>3. IsFiniteSet(sessions') /\ Cardinality(sessions') <= Cardinality(sessions) + 1
        /\ Cardinality(sessions') \in Nat
    <3>1. sessions' = sessions \cup {r} /\ IsFiniteSet(sessions)
      BY <1>7 DEF Insert, Bounded
    <3>2. /\ IsFiniteSet(sessions \cup {r})
          /\ Cardinality(sessions \cup {r}) =
                IF r \in sessions THEN Cardinality(sessions) ELSE Cardinality(sessions) + 1
      BY <3>1, FS_AddElement
    <3> QED BY <1>f, <3>1, <3>2
  <2>4. pc'[r] = "trim"
    BY <1>7 DEF Insert, TypeOK
  <2>5. Bounded'
    BY <1>f, <2>2, <2>3, <2>4 DEF Bounded
  <2> QED BY <1>3, <1>7, <2>5 DEF Insert
<1>8. ASSUME NEW r \in Requests, PopFirst(r) PROVE Kept
  BY <1>2, <1>8 DEF PopFirst
<1>9. ASSUME NEW r \in Requests, Find(r) PROVE Kept
  <2>1. \A q \in Requests : pc[q] # "trim"
    BY <1>9 DEF Find, TypeOK, Locked
  <2>2. target[r] \in Requests /\ sessions' = sessions \cup {target[r]} /\ sessions' = sessions
    BY <1>9 DEF Find, TypeOK
  <2>3. Bounded'
    BY <2>1, <2>2 DEF Bounded
  <2> QED BY <1>3, <1>9, <2>2, <2>3 DEF Find
<1>10. ASSUME NEW r \in Requests, Pop(r) PROVE Kept
  <2>1. \A q \in Requests : pc[q] # "trim"
    BY <1>10 DEF Pop, TypeOK, Locked
  <2>2. Cardinality(sessions) <= MaxSessions
    BY <2>1 DEF Bounded
  <2> QED BY <1>2, <1>10, <2>2 DEF Pop
<1>11. CASE Tick
  <2>1. UNCHANGED <<sessions, behind, lastAccess, pc>> /\ clock' = clock + 1
    BY <1>11 DEF Tick
  <2>2. Ordered'
    BY <2>1 DEF Ordered
  <2>3. Bounded'
    BY <2>1 DEF Bounded
  <2>4. Timed'
    BY <1>t, <2>1 DEF Timed, Used
  <2> QED BY <1>t, <2>1, <2>2, <2>3, <2>4
<1>12. CASE Finished
  BY <1>1, <1>12 DEF Finished, vars
<1> QED
  BY <1>4, <1>5, <1>6, <1>7, <1>8, <1>9, <1>10, <1>11, <1>12 DEF Next, Proceed

(* A session leaves when it is expired, when it is the first of too many,  *)
(* or when it is deleted.                                                  *)
LEMMA RemovedForAReason ==
    ASSUME TypeOK, TypeOK', Ordered, Timed, Bounded, Fresh, Next,
           NEW s \in sessions, s \notin sessions'
    PROVE  Reason(s)'
<1>t. /\ clock \in Nat /\ TTL \in Nat /\ MaxSessions \in Nat /\ s \in Requests
      /\ lastAccess[s] \in Nat
  BY ClockAssumption, SettingsAssumption DEF TypeOK
<1>1. ASSUME NEW r \in Requests, Enter(r) PROVE Reason(s)'
  <2>1. s \in Expired /\ UNCHANGED <<clock, lastAccess>>
    BY <1>1 DEF Enter, Remove
  <2>2. clock - lastAccess[s] > TTL
    BY <1>t, <2>1 DEF Expired
  <2> QED BY <2>1, <2>2 DEF Reason
<1>2. ASSUME NEW r \in Requests, PopFirst(r) PROVE Reason(s)'
  <2>1. First(s) /\ sessions' = sessions \ {s} /\ UNCHANGED lastAccess
    BY <1>2 DEF PopFirst, Remove
  <2>2. Cardinality(sessions) > MaxSessions /\ Cardinality(sessions) \in Nat
    BY <1>2, FS_CardinalityType DEF PopFirst, Overflow, Bounded
  <2>3. Cardinality(sessions \ {s}) >= MaxSessions /\ Cardinality(sessions \ {s}) \in Nat
    <3>1. IsFiniteSet(sessions)
      BY DEF Bounded
    <3>2. Cardinality(sessions \ {s}) = Cardinality(sessions) - 1
      BY <3>1, FS_RemoveElement
    <3> QED BY <1>t, <2>2, <3>2
  <2>4. sessions \ {s} \subseteq UsedNoEarlier(s)'
    <3> SUFFICES ASSUME NEW t \in sessions, t # s
                 PROVE  t \in UsedNoEarlier(s)'
      OBVIOUS
    <3>1. t \in behind[s] /\ t \in Requests
      BY <2>1 DEF First, TypeOK
    <3>2. lastAccess[s] <= lastAccess[t] /\ Used(t) /\ lastAccess[t] \in Nat
      BY <3>1 DEF Timed, TypeOK
    <3>3. lastAccess'[t] >= lastAccess'[s] /\ Used(t)'
      BY <1>t, <2>1, <3>2 DEF Used
    <3> QED BY <3>1, <3>3 DEF UsedNoEarlier
  <2>5. IsFiniteSet(UsedNoEarlier(s)') /\ Cardinality(UsedNoEarlier(s)') \in Nat
    BY RequestsAssumption, FS_Subset, FS_CardinalityType DEF UsedNoEarlier
  <2>6. Cardinality(sessions \ {s}) <= Cardinality(UsedNoEarlier(s)')
    BY <2>4, <2>5, FS_Subset
  <2> QED BY <1>t, <2>3, <2>5, <2>6 DEF Reason
<1>3. ASSUME NEW r \in Requests, Pop(r) PROVE Reason(s)'
  <2>1. s = target[r] /\ operation[r] = "delete"
    BY <1>3 DEF Pop, Remove, Fresh
  <2>2. /\ pc'[r] = "done" /\ answer'[r] = "ok"
        /\ operation'[r] = "delete" /\ target'[r] = s
    BY <1>3, <2>1 DEF Pop, TypeOK
  <2> QED BY <2>2 DEF Reason, Deleted
<1>4. ASSUME NEW r \in Requests, Start(r) \/ Reject(r) \/ LeaveTrimmed(r)
                \/ Find(r) \/ Miss(r) \/ Work(r)
      PROVE  FALSE
  BY <1>4 DEF Start, Reject, LeaveTrimmed, Find, Miss, Work
<1>5. ASSUME NEW r \in Requests, Insert(r) PROVE FALSE
  BY <1>5 DEF Insert
<1>6. CASE Tick \/ Finished
  BY <1>6 DEF Tick, Finished, vars
<1> QED BY <1>1, <1>2, <1>3, <1>4, <1>5, <1>6 DEF Next, Proceed

LEMMA InitSInv == Init => SInv
<1> SUFFICES ASSUME Init PROVE SInv
  OBVIOUS
<1>1. TypeOK
  BY ClockAssumption, RequestsAssumption
     DEF Init, TypeOK, Phases, Locked, Operations, Answers, Never
<1>2. Ordered
  BY DEF Init, Ordered
<1>3. Timed
  BY DEF Init, Timed, Never
<1>4. Bounded
  BY SettingsAssumption, FS_EmptySet DEF Init, Bounded
<1>5. Fresh
  BY DEF Init, Fresh, Used
<1>6. GoneForAReason
  BY DEF Init, GoneForAReason, Used
<1> QED BY <1>1, <1>2, <1>3, <1>4, <1>5, <1>6 DEF SInv

LEMMA SInvStep == SInv /\ [Next]_vars => SInv'
<1> SUFFICES ASSUME SInv, [Next]_vars PROVE SInv'
  OBVIOUS
<1> USE DEF SInv
<1>1. CASE Next
  <2>1. TypeOK'
    BY <1>1, TypeStep
  <2>2. Fresh'
    BY <1>1, FreshStep
  <2>3. /\ Ordered' /\ Timed' /\ Bounded'
        /\ clock <= clock'
        /\ \A t \in Requests : lastAccess[t] <= lastAccess'[t]
        /\ \A t \in Requests \ sessions' : lastAccess'[t] = lastAccess[t]
    BY <1>1, StoreStep
  <2>4. \A s \in sessions \ sessions' : Reason(s)'
    BY <1>1, <2>1, RemovedForAReason
  <2>5. GoneForAReason'
    BY <1>1, <2>1, <2>3, <2>4, DoneStays, ReasonsStay
  <2> QED BY <2>1, <2>2, <2>3, <2>5
<1>2. CASE UNCHANGED vars
  BY <1>2 DEF vars, TypeOK, Ordered, Timed, Bounded, Fresh, GoneForAReason, Used,
              Deleted, UsedNoEarlier
<1> QED BY <1>1, <1>2

LEMMA SInvAlways == Spec => []SInv
BY InitSInv, SInvStep, PTL DEF Spec

(* TypeOK: among the rest, a request is inside a call of the store exactly *)
(* while it holds the lock.                                                *)
THEOREM SessionsTypeCorrect == Spec => []TypeOK
<1>1. SInv => TypeOK
  BY DEF SInv
<1> QED BY <1>1, SInvAlways, PTL

(* The bound holds whenever no call is in progress.                        *)
THEOREM StoreIsBounded == Spec => []BoundHolds
<1>1. SInv => BoundHolds
  <2> SUFFICES ASSUME SInv, lock = NoRequest
               PROVE  Cardinality(sessions) <= MaxSessions
    BY DEF BoundHolds, LockFree
  <2>1. \A r \in Requests : pc[r] # "trim"
    BY RequestsAssumption DEF SInv, TypeOK, Locked
  <2> QED BY <2>1 DEF SInv, Bounded
<1> QED BY <1>1, SInvAlways, PTL

(* The order of the dictionary is the order of the accesses.               *)
THEOREM EvictionOrderIsUseOrder == Spec => []OrderIsByAccess
<1>1. SInv => OrderIsByAccess
  BY DEF SInv, Ordered, Timed, OrderIsByAccess
<1> QED BY <1>1, SInvAlways, PTL

(* A session a client was told of is missing only for a reason the client  *)
(* can know: deleted, idle for too long, or enough others used since.      *)
THEOREM SessionsGoForAReason == Spec => []GoneForAReason
<1>1. SInv => GoneForAReason
  BY DEF SInv
<1> QED BY <1>1, SInvAlways, PTL

-----------------------------------------------------------------------------
(* The store implements the cache.                                         *)

NewerBar == [s \in Requests |-> IF s \in Retained THEN behind[s] ELSE {}]
FoundBar == [r \in Requests |-> LookupOf(r)]

(* Without overflow every session is retained.                             *)
NoOverflow ==
    TypeOK /\ Ordered /\ IsFiniteSet(sessions) /\ Cardinality(sessions) <= MaxSessions

LEMMA AllRetained == NoOverflow => Retained = sessions /\ NewerBar = behind
<1> SUFFICES ASSUME NoOverflow PROVE Retained = sessions /\ NewerBar = behind
  OBVIOUS
<1> USE DEF NoOverflow
<1>1. ASSUME NEW s \in sessions PROVE Cardinality(behind[s]) < MaxSessions
  <2>1. behind[s] \subseteq sessions \ {s}
    BY DEF Ordered, TypeOK
  <2>2. IsFiniteSet(sessions \ {s}) /\ Cardinality(sessions \ {s}) = Cardinality(sessions) - 1
    BY FS_RemoveElement
  <2>3. IsFiniteSet(behind[s]) /\ Cardinality(behind[s]) <= Cardinality(sessions) - 1
    BY <2>1, <2>2, FS_Subset
  <2>4. Cardinality(behind[s]) \in Nat /\ Cardinality(sessions) \in Nat /\ MaxSessions \in Nat
    BY <2>3, FS_CardinalityType, SettingsAssumption
  <2> QED BY <2>3, <2>4
<1>2. Retained = sessions
  BY <1>1 DEF Retained
<1>3. \A s \in Requests : behind[s] = IF s \in Retained THEN behind[s] ELSE {}
  BY <1>2 DEF Ordered
<1> QED BY <1>2, <1>3 DEF NewerBar, TypeOK

LEMMA AllRetainedNext == NoOverflow' => Retained' = sessions' /\ NewerBar' = behind'
<1>1. (NoOverflow => Retained = sessions /\ NewerBar = behind)'
  BY AllRetained, PTL
<1> QED BY <1>1

(* The cardinality of the instance is that of this module.                 *)
LEMMA SameCardinality == \A S : Cache!Cardinality(S) = Cardinality(S)
BY DEF Cache!Cardinality, Cardinality

(* Only a look-up that ends changes what the cache says of look-ups.       *)
LEMMA FoundStays ==
    ASSUME TypeOK, Fresh, NEW r \in Requests,
           Start(r) \/ Reject(r) \/ Enter(r) \/ Insert(r) \/ PopFirst(r)
              \/ LeaveTrimmed(r) \/ Pop(r) \/ Work(r)
    PROVE  FoundBar' = FoundBar
<1> SUFFICES ASSUME NEW q \in Requests
             PROVE  LookupOf(q)' = LookupOf(q)
  BY DEF FoundBar
<1>1. CASE q # r
  BY <1>1 DEF TypeOK, LookupOf, Start, Reject, Enter, Insert, PopFirst, LeaveTrimmed, Pop, Work
<1>2. CASE q = r /\ (Start(r) \/ Reject(r))
  BY <1>2 DEF TypeOK, Fresh, LookupOf, Start, Reject
<1>3. CASE q = r /\ Enter(r)
  <2>1. answer[r] = "none" /\ pc[r] = "waiting" /\ UNCHANGED <<answer, operation>>
    BY <1>3 DEF Enter, Fresh
  <2>2. pc'[r] \in {"insert", "lookup", "pop"}
    <3>1. operation[r] \in {"create", "get", "delete"}
      BY DEF TypeOK, Operations
    <3>2. pc'[r] = CASE operation[r] = "create" -> "insert"
                     [] operation[r] = "get" -> "lookup"
                     [] operation[r] = "delete" -> "pop"
      BY <1>3 DEF Enter, TypeOK
    <3> QED BY <3>1, <3>2
  <2> QED BY <1>3, <2>1, <2>2 DEF LookupOf
<1>4. CASE q = r /\ (Insert(r) \/ PopFirst(r) \/ LeaveTrimmed(r) \/ Pop(r))
  BY <1>4 DEF TypeOK, Fresh, LookupOf, Insert, PopFirst, LeaveTrimmed, Pop
<1>5. CASE q = r /\ Work(r)
  BY <1>5 DEF TypeOK, Fresh, LookupOf, Work
<1> QED BY <1>1, <1>2, <1>3, <1>4, <1>5

(* Expiry takes the longest idle sessions, whichever they are.             *)
LEMMA ExpiryIsAPrefix ==
    ASSUME TypeOK, Ordered, Timed, NEW s \in Expired, NEW t \in sessions \ Expired
    PROVE  t \in behind[s]
<1>1. s \in sessions /\ t \in sessions /\ s # t
  BY DEF Expired
<1>2. lastAccess[s] \in Nat /\ lastAccess[t] \in Nat /\ clock \in Nat /\ TTL \in Nat
  BY <1>1, ClockAssumption, SettingsAssumption DEF TypeOK
<1>3. lastAccess[s] < lastAccess[t]
  BY <1>2 DEF Expired
<1>4. s \notin behind[t]
  BY <1>1, <1>2, <1>3 DEF Timed
<1> QED BY <1>1, <1>4 DEF Ordered

(* Each step of the store is a step of the cache or none.                  *)
LEMMA StepIsCached ==
    ASSUME SInv, SInv', Next
    PROVE  Cache!CNext \/ UNCHANGED <<Retained, NewerBar, FoundBar>>
<1> USE DEF SInv
<1> DEFINE Step == Cache!CNext \/ UNCHANGED <<Retained, NewerBar, FoundBar>>
<1> SUFFICES Step
  OBVIOUS
<1>b. /\ IsFiniteSet(sessions) /\ Cardinality(sessions) \in Nat /\ MaxSessions \in Nat
      /\ IsFiniteSet(sessions') /\ Cardinality(sessions') \in Nat
  BY FS_CardinalityType, SettingsAssumption DEF Bounded
<1>1. ASSUME NEW r \in Requests, Start(r) \/ Reject(r) \/ LeaveTrimmed(r) \/ Work(r)
      PROVE  Step
  <2>1. FoundBar' = FoundBar
    BY <1>1, FoundStays
  <2>2. UNCHANGED <<sessions, behind>>
    BY <1>1 DEF Start, Reject, LeaveTrimmed, Work
  <2> QED BY <2>1, <2>2 DEF Retained, NewerBar
<1>2. CASE Tick \/ Finished
  BY <1>2 DEF Tick, Finished, vars, Retained, NewerBar, FoundBar, LookupOf
<1>3. ASSUME NEW r \in Requests, Enter(r) PROVE Step
  <2>1. FoundBar' = FoundBar
    BY <1>3, FoundStays
  <2>2. CASE operation[r] = "delete"
    BY <1>3, <2>1, <2>2 DEF Enter, Retained, NewerBar
  <2>3. CASE operation[r] # "delete"
    <3>1. PICK gone : gone = Expired
      OBVIOUS
    <3>2. Remove(gone) /\ gone \subseteq sessions
      BY <1>3, <2>3, <3>1 DEF Enter, Remove, Expired
    <3>3. \A q \in Requests : pc[q] # "trim"
      BY <1>3, RequestsAssumption DEF Enter, LockFree, TypeOK, Locked
    <3>4. Cardinality(sessions) <= MaxSessions
      BY <3>3 DEF Bounded
    <3>5. Cardinality(sessions') <= MaxSessions
      <4>1. sessions' \subseteq sessions
        BY <3>2 DEF Remove
      <4>2. Cardinality(sessions') <= Cardinality(sessions)
        BY <1>b, <4>1, FS_Subset
      <4> QED BY <1>b, <3>4, <4>2
    <3>6. Retained = sessions /\ NewerBar = behind
      BY <1>b, <3>4, AllRetained DEF NoOverflow
    <3>7. Retained' = sessions' /\ NewerBar' = behind'
      BY <1>b, <3>5, AllRetainedNext DEF NoOverflow
    <3>8. \A s \in gone, t \in sessions \ gone : t \in behind[s]
      BY <3>1, ExpiryIsAPrefix
    <3>9. Cache!Forget(gone)
      BY <2>1, <3>2, <3>6, <3>7 DEF Cache!Forget, Remove, NewerBar, FoundBar
    <3>10. Cache!Expire
      BY <3>2, <3>6, <3>8, <3>9 DEF Cache!Expire, NewerBar
    <3> QED BY <3>10 DEF Cache!CNext
  <2> QED BY <2>2, <2>3
<1>4. ASSUME NEW r \in Requests, Pop(r) PROVE Step
  <2>1. FoundBar' = FoundBar
    BY <1>4, FoundStays
  <2>2. \A q \in Requests : pc[q] # "trim"
    BY <1>4 DEF Pop, TypeOK, Locked
  <2>3. Cardinality(sessions) <= MaxSessions
    BY <2>2 DEF Bounded
  <2> PICK s \in Requests : s = target[r]
    BY DEF TypeOK
  <2>4. Remove({s})
    BY <1>4 DEF Pop, Remove
  <2>5. Cardinality(sessions') <= MaxSessions
    <3>1. sessions' \subseteq sessions
      BY <2>4 DEF Remove
    <3>2. Cardinality(sessions') <= Cardinality(sessions)
      BY <1>b, <3>1, FS_Subset
    <3> QED BY <1>b, <2>3, <3>2
  <2>6. Retained = sessions /\ NewerBar = behind
    BY <1>b, <2>3, AllRetained DEF NoOverflow
  <2>7. Retained' = sessions' /\ NewerBar' = behind'
    BY <1>b, <2>5, AllRetainedNext DEF NoOverflow
  <2>8. Cache!Forget({s})
    BY <2>1, <2>4, <2>6, <2>7 DEF Cache!Forget, Remove, NewerBar, FoundBar
  <2> QED BY <2>4, <2>8 DEF Cache!CNext
<1>5. ASSUME NEW r \in Requests, Miss(r) PROVE Step
  <2>1. \A q \in Requests : pc[q] # "trim"
    BY <1>5 DEF Miss, TypeOK, Locked
  <2>2. Retained = sessions
    BY <1>b, <2>1, AllRetained DEF Bounded, NoOverflow
  <2>3. target[r] \in Requests /\ target[r] \notin Retained
    BY <1>5, <2>2 DEF Miss, TypeOK
  <2>4. UNCHANGED <<Retained, NewerBar>>
    BY <1>5 DEF Miss, Retained, NewerBar
  <2>5. LookupOf(r) = "none" /\ LookupOf(r)' = "miss"
    BY <1>5 DEF Miss, LookupOf, Fresh, TypeOK
  <2>6. \A q \in Requests \ {r} : LookupOf(q)' = LookupOf(q)
    BY <1>5 DEF Miss, LookupOf, TypeOK
  <2>7. FoundBar[r] = "none" /\ FoundBar' = [FoundBar EXCEPT ![r] = "miss"]
    BY <2>5, <2>6 DEF FoundBar
  <2>8. Cache!Miss(r, target[r])
    BY <2>3, <2>4, <2>7 DEF Cache!Miss, NewerBar, FoundBar
  <2> QED BY <2>3, <2>7, <2>8 DEF Cache!CNext, FoundBar
<1>6. ASSUME NEW r \in Requests, Find(r) PROVE Step
  <2> PICK s \in Requests : s = target[r]
    BY DEF TypeOK
  <2>1. \A q \in Requests : pc[q] # "trim" /\ pc'[q] # "trim"
    BY <1>6 DEF Find, TypeOK, Locked
  <2>2. Retained = sessions /\ NewerBar = behind
    BY <1>b, <2>1, AllRetained DEF Bounded, NoOverflow
  <2>3. Retained' = sessions' /\ NewerBar' = behind'
    BY <1>b, <2>1, AllRetainedNext DEF Bounded, NoOverflow
  <2>4. s \in Requests /\ s \in sessions /\ sessions' = sessions
    BY <1>6 DEF Find, TypeOK
  <2>5. behind' = [t \in Requests |-> IF t \in sessions \ {s} THEN behind[t] \cup {s} ELSE {}]
    BY <1>6 DEF Find, MoveToEnd
  <2>6. \A t \in Requests : behind[t] \subseteq sessions
    BY DEF Ordered
  <2>7. NewerBar' = [t \in Requests |->
            IF t \in Retained \ {s} THEN (NewerBar[t] \cup {s}) \cap Retained ELSE {}]
    <3>1. \A t \in Requests : (behind[t] \cup {s}) \cap sessions = behind[t] \cup {s}
      BY <2>4, <2>6
    <3> QED BY <2>2, <2>3, <2>5, <3>1
  <2>8. LookupOf(r) = "none" /\ LookupOf(r)' = "hit"
    BY <1>6 DEF Find, LookupOf, Fresh, TypeOK
  <2>9. \A q \in Requests \ {r} : LookupOf(q)' = LookupOf(q)
    BY <1>6 DEF Find, LookupOf, TypeOK
  <2>10. FoundBar[r] = "none" /\ FoundBar' = [FoundBar EXCEPT ![r] = "hit"]
    BY <2>8, <2>9 DEF FoundBar
  <2>11. Cache!Hit(r, s)
    BY <2>2, <2>3, <2>4, <2>7, <2>10 DEF Cache!Hit, Cache!NewestOf, NewerBar, FoundBar
  <2> QED BY <2>4, <2>10, <2>11 DEF Cache!CNext, FoundBar
<1>7. ASSUME NEW r \in Requests, Insert(r) PROVE Step
  <2> DEFINE kept == {r} \cup {t \in Retained : Cardinality(NewerBar[t]) + 1 < MaxSessions}
  <2>1. FoundBar' = FoundBar
    BY <1>7, FoundStays
  <2>2. \A q \in Requests : pc[q] # "trim"
    BY <1>7 DEF Insert, TypeOK, Locked
  <2>3. Retained = sessions /\ NewerBar = behind
    BY <1>b, <2>2, AllRetained DEF Bounded, NoOverflow
  <2>4. r \notin sessions /\ sessions' = sessions \cup {r}
    BY <1>7 DEF Insert, Fresh, Timed
  <2>5. behind' = [t \in Requests |-> IF t \in sessions THEN behind[t] \cup {r} ELSE {}]
    BY <1>7, <2>4 DEF Insert, MoveToEnd
  <2>6. ASSUME NEW t \in sessions
        PROVE  /\ behind'[t] = behind[t] \cup {r}
               /\ Cardinality(behind'[t]) = Cardinality(behind[t]) + 1
               /\ Cardinality(behind[t]) \in Nat
    <3>1. behind'[t] = behind[t] \cup {r} /\ behind[t] \subseteq sessions
      BY <2>5 DEF TypeOK, Ordered
    <3>2. IsFiniteSet(behind[t]) /\ r \notin behind[t]
      BY <1>b, <2>4, <3>1, FS_Subset
    <3> QED BY <3>1, <3>2, FS_AddElement, FS_CardinalityType
  <2>7. behind'[r] = {} /\ Cardinality(behind'[r]) < MaxSessions
    <3>1. behind'[r] = {}
      BY <2>4, <2>5
    <3> QED BY <3>1, FS_EmptySet, SettingsAssumption
  <2>8. Retained' = kept
    <3>1. \A t \in sessions :
            Cardinality(behind'[t]) < MaxSessions <=> Cardinality(NewerBar[t]) + 1 < MaxSessions
      BY <2>3, <2>6
    <3>2. Retained' = {t \in sessions' : Cardinality(behind'[t]) < MaxSessions}
      BY DEF Retained
    <3> QED BY <2>3, <2>4, <2>7, <3>1, <3>2
  <2>9. ASSUME NEW t \in Retained', t # r
        PROVE  behind'[t] = (NewerBar[t] \cup {r}) \cap kept
    <3>1. t \in sessions /\ behind'[t] = behind[t] \cup {r} /\ NewerBar[t] = behind[t]
      BY <2>3, <2>4, <2>6, <2>8, <2>9
    <3>2. Cardinality(behind[t]) + 1 < MaxSessions /\ Cardinality(behind[t]) \in Nat
      BY <2>3, <2>6, <2>8, <2>9, <3>1
    <3>3. ASSUME NEW u \in behind[t] PROVE u \in kept
      <4>1. u \in sessions /\ behind[t] \subseteq sessions
        BY <3>1 DEF Ordered, TypeOK
      <4>2. behind[u] \subseteq behind[t]
        BY <3>1, <3>3, <4>1 DEF Ordered, TypeOK
      <4>3. IsFiniteSet(behind[t])
        BY <1>b, <4>1, FS_Subset
      <4>4. Cardinality(behind[u]) <= Cardinality(behind[t])
        BY <4>2, <4>3, FS_Subset
      <4>5. Cardinality(behind[u]) + 1 < MaxSessions
        BY <1>b, <2>6, <3>2, <4>1, <4>4
      <4> QED BY <2>3, <4>1, <4>5
    <3>4. behind[t] \subseteq kept /\ r \in kept
      BY <3>3
    <3> QED BY <3>1, <3>4
  <2>10. NewerBar' = [t \in Requests |->
            IF t \in kept \ {r} THEN (NewerBar[t] \cup {r}) \cap kept ELSE {}]
    <3>1. NewerBar' = [t \in Requests |-> IF t \in Retained' THEN behind'[t] ELSE {}]
      BY DEF NewerBar
    <3>2. \A t \in Requests :
            (IF t \in Retained' THEN behind'[t] ELSE {})
                = IF t \in kept \ {r} THEN (NewerBar[t] \cup {r}) \cap kept ELSE {}
      BY <2>7, <2>8, <2>9
    <3> HIDE DEF kept
    <3> QED BY <3>1, <3>2
  <2>11. Cache!Put(r)
    <3>1. kept = {r} \cup {t \in Retained : Cache!Cardinality(NewerBar[t]) + 1 < MaxSessions}
      BY SameCardinality
    <3> HIDE DEF kept
    <3> QED BY <2>1, <2>3, <2>4, <2>8, <2>10, <3>1
            DEF Cache!Put, Cache!NewestOf, NewerBar, FoundBar
  <2> QED BY <2>11 DEF Cache!CNext
<1>8. ASSUME NEW r \in Requests, PopFirst(r) PROVE Step
  <2>1. FoundBar' = FoundBar
    BY <1>8, FoundStays
  <2>2. PICK s \in sessions : First(s) /\ Remove({s})
    BY <1>8 DEF PopFirst
  <2>3. Cardinality(sessions) > MaxSessions
    BY <1>8 DEF PopFirst, Overflow
  <2>4. s \notin Retained
    <3>1. Cardinality(sessions \ {s}) = Cardinality(sessions) - 1
      BY <1>b, FS_RemoveElement
    <3>2. Cardinality(behind[s]) >= MaxSessions
      BY <1>b, <2>2, <2>3, <3>1 DEF First
    <3>3. Cardinality(behind[s]) \in Int
      BY <1>b, <2>2, <3>1 DEF First
    <3> QED BY <1>b, <3>2, <3>3 DEF Retained
  <2>5. ASSUME NEW t \in sessions, t # s
        PROVE  t \in sessions' /\ behind'[t] = behind[t]
    <3>1. t \in behind[s]
      BY <2>2, <2>5 DEF First
    <3>2. s \notin behind[t]
      BY <2>5, <3>1 DEF Ordered
    <3>3. t \in sessions' /\ behind'[t] = behind[t] \ {s}
      BY <2>2, <2>5 DEF Remove, TypeOK
    <3> QED BY <3>2, <3>3
  <2>6. sessions' = sessions \ {s}
    BY <2>2 DEF Remove
  <2>7. Retained' = Retained
    BY <2>4, <2>5, <2>6 DEF Retained
  <2>8. NewerBar' = NewerBar
    <3>1. \A t \in Retained : behind'[t] = behind[t]
      BY <2>4, <2>5 DEF Retained
    <3> QED BY <2>7, <3>1 DEF NewerBar
  <2> QED BY <2>1, <2>7, <2>8
<1> QED BY <1>1, <1>2, <1>3, <1>4, <1>5, <1>6, <1>7, <1>8 DEF Next, Proceed

(* The store of sessions, with its lock, its clock and its two evictions,  *)
(* is a bounded cache whose operations take effect in one step each.       *)
THEOREM StoreImplementsCache == Spec => ImplementsCache
<1>1. Init => Cache!CInit
  BY DEF Init, Cache!CInit, Retained, LookupOf
<1>2. SInv /\ SInv' /\ [Next]_vars => [Cache!CNext]_(Cache!cvars)
  <2>1. ASSUME SInv, SInv', Next PROVE Cache!CNext \/ UNCHANGED Cache!cvars
    BY <2>1, StepIsCached DEF Cache!cvars, NewerBar, FoundBar
  <2>2. ASSUME UNCHANGED vars PROVE UNCHANGED Cache!cvars
    BY <2>2 DEF vars, Cache!cvars, Retained, LookupOf
  <2> QED BY <2>1, <2>2
<1> QED BY <1>1, <1>2, SInvAlways, PTL DEF Spec, ImplementsCache, Cache!CacheSpec
=============================================================================
