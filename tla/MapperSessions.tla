---------------------------- MODULE MapperSessions ----------------------------
(***************************************************************************)
(* The session store of the onboarding mapper and the requests that use    *)
(* it.  The worker threads of the server call create, get and delete of    *)
(* one SessionStore; a lock guards each call, the clock does not wait for  *)
(* it.  A session bears the name of the request that creates it, as a uuid *)
(* is used once.                                                           *)
(***************************************************************************)
EXTENDS Integers, FiniteSets

CONSTANTS
    Requests,       \* requests of the HTTP API, each served by one thread
    NoRequest,      \* the holder of a lock that is free
    MaxSessions,    \* Settings.max_sessions
    TTL,            \* Settings.session_ttl_seconds
    MaxClock        \* bound: the clock stops here

ASSUME RequestsAssumption == IsFiniteSet(Requests) /\ NoRequest \notin Requests
ASSUME SettingsAssumption == MaxSessions \in Nat \ {0} /\ TTL \in Nat \ {0}
ASSUME ClockAssumption == MaxClock \in Nat \ {0}

VARIABLES
    sessions,       \* the keys of the OrderedDict
    behind,         \* behind[s]: the keys after s in its order
    lastAccess,     \* ClientSession.last_access, Never before the first
    clock,          \* time.monotonic()
    lock,           \* who holds SessionStore._lock
    pc,             \* where each request is
    operation,      \* the call of the store that each request makes
    target,         \* the session it is about
    answer          \* how it was answered

vars == <<sessions, behind, lastAccess, clock, lock, pc, operation, target, answer>>

Never == 0
Operations == {"create", "get", "delete"}
Locked == {"insert", "trim", "lookup", "pop"}
Phases == {"idle", "waiting", "working", "done"} \cup Locked
Answers == {"none", "ok", "not_found", "rejected", "failed"}

TypeOK ==
    /\ sessions \subseteq Requests
    /\ behind \in [Requests -> SUBSET Requests]
    /\ lastAccess \in [Requests -> Nat]
    /\ clock \in 1..MaxClock
    /\ lock \in Requests \cup {NoRequest}
    /\ pc \in [Requests -> Phases]
    /\ operation \in [Requests -> Operations]
    /\ target \in [Requests -> Requests]
    /\ answer \in [Requests -> Answers]
    /\ \A r \in Requests : pc[r] \in Locked <=> lock = r

Init ==
    /\ sessions = {}
    /\ behind = [s \in Requests |-> {}]
    /\ lastAccess = [s \in Requests |-> Never]
    /\ clock = 1
    /\ lock = NoRequest
    /\ pc = [r \in Requests |-> "idle"]
    /\ operation = [r \in Requests |-> "get"]
    /\ target = [r \in Requests |-> r]
    /\ answer = [r \in Requests |-> "none"]

-----------------------------------------------------------------------------
(* The OrderedDict.                                                        *)

Remove(gone) ==
    /\ sessions' = sessions \ gone
    /\ behind' = [t \in Requests |-> IF t \in sessions' THEN behind[t] \ gone ELSE {}]

(* Set or touch s: it is the last one, and was accessed now.               *)
MoveToEnd(s) ==
    /\ behind' = [t \in Requests |->
            IF t \in sessions \ {s} THEN behind[t] \cup {s} ELSE {}]
    /\ lastAccess' = [lastAccess EXCEPT ![s] = clock]

(* Mutant of First: popitem() without last=False.                          *)
LastOne(s) == s \in sessions /\ behind[s] = {}

(* popitem(last=False) takes the first key.                                *)
First(s) == s \in sessions /\ behind[s] = sessions \ {s}

(* Mutant of Overflow: the store may hold one session too many.            *)
OneOver == Cardinality(sessions) > MaxSessions + 1

Overflow == Cardinality(sessions) > MaxSessions

(* Mutant of Expired: a session goes when it has been idle for the TTL.    *)
ExpiredEarly == {s \in sessions : lastAccess[s] <= clock - TTL}

Expired == {s \in sessions : lastAccess[s] < clock - TTL}

-----------------------------------------------------------------------------
(* The requests.                                                           *)

(* Mutant of LockFree: the store has no lock.                              *)
AlwaysFree == TRUE

LockFree == lock = NoRequest

(* A client learns the id of a session from the answer to its creation.    *)
Known == {s \in Requests : operation[s] = "create" /\ answer[s] = "ok"}

Start(r) ==
    /\ pc[r] = "idle"
    /\ \/ operation' = [operation EXCEPT ![r] = "create"] /\ UNCHANGED target
       \/ /\ \E op \in {"get", "delete"} : operation' = [operation EXCEPT ![r] = op]
          /\ \E s \in Known : target' = [target EXCEPT ![r] = s]
    /\ pc' = [pc EXCEPT ![r] = "waiting"]
    /\ UNCHANGED <<sessions, behind, lastAccess, clock, lock, answer>>

(* The source is too long, empty, missing, outside the data roots or not   *)
(* readable, or the target table of the mapping does not exist.            *)
Reject(r) ==
    /\ pc[r] = "idle"
    /\ pc' = [pc EXCEPT ![r] = "done"]
    /\ answer' = [answer EXCEPT ![r] = "rejected"]
    /\ UNCHANGED <<sessions, behind, lastAccess, clock, lock, operation, target>>

(* create and get first remove what has been idle for too long.            *)
Enter(r) ==
    /\ pc[r] = "waiting"
    /\ LockFree
    /\ lock' = r
    /\ IF operation[r] = "delete"
       THEN UNCHANGED <<sessions, behind>>
       ELSE Remove(Expired)
    /\ pc' = [pc EXCEPT ![r] =
            CASE operation[r] = "create" -> "insert"
              [] operation[r] = "get" -> "lookup"
              [] operation[r] = "delete" -> "pop"]
    /\ UNCHANGED <<lastAccess, clock, operation, target, answer>>

Insert(r) ==
    /\ pc[r] = "insert"
    /\ sessions' = sessions \cup {r}
    /\ MoveToEnd(r)
    /\ pc' = [pc EXCEPT ![r] = "trim"]
    /\ UNCHANGED <<clock, lock, operation, target, answer>>

(* _evict_overflow removes the first session while there are too many.     *)
PopFirst(r) ==
    /\ pc[r] = "trim"
    /\ Overflow
    /\ \E s \in sessions : First(s) /\ Remove({s})
    /\ UNCHANGED <<lastAccess, clock, lock, pc, operation, target, answer>>

LeaveTrimmed(r) ==
    /\ pc[r] = "trim"
    /\ ~Overflow
    /\ lock' = NoRequest
    /\ pc' = [pc EXCEPT ![r] = "done"]
    /\ answer' = [answer EXCEPT ![r] = "ok"]
    /\ UNCHANGED <<sessions, behind, lastAccess, clock, operation, target>>

Find(r) ==
    /\ pc[r] = "lookup"
    /\ target[r] \in sessions
    /\ MoveToEnd(target[r])
    /\ lock' = NoRequest
    /\ pc' = [pc EXCEPT ![r] = "working"]
    /\ UNCHANGED <<sessions, clock, operation, target, answer>>

(* Mutant of Miss: the handler tries again until the session is there.     *)
MissAndRetry(r) ==
    /\ pc[r] = "lookup"
    /\ target[r] \notin sessions
    /\ lock' = NoRequest
    /\ pc' = [pc EXCEPT ![r] = "waiting"]
    /\ UNCHANGED <<sessions, behind, lastAccess, clock, operation, target, answer>>

(* The KeyError leaves the with statement and becomes a 404.               *)
Miss(r) ==
    /\ pc[r] = "lookup"
    /\ target[r] \notin sessions
    /\ lock' = NoRequest
    /\ pc' = [pc EXCEPT ![r] = "done"]
    /\ answer' = [answer EXCEPT ![r] = "not_found"]
    /\ UNCHANGED <<sessions, behind, lastAccess, clock, operation, target>>

Pop(r) ==
    /\ pc[r] = "pop"
    /\ Remove({target[r]})
    /\ lock' = NoRequest
    /\ pc' = [pc EXCEPT ![r] = "done"]
    /\ answer' = [answer EXCEPT ![r] = "ok"]
    /\ UNCHANGED <<lastAccess, clock, operation, target>>

(* suggest, validate or export with the session it was given, which stays  *)
(* usable after an eviction.                                               *)
Work(r) ==
    /\ pc[r] = "working"
    /\ pc' = [pc EXCEPT ![r] = "done"]
    /\ \E a \in {"ok", "failed"} : answer' = [answer EXCEPT ![r] = a]
    /\ UNCHANGED <<sessions, behind, lastAccess, clock, lock, operation, target>>

Tick ==
    /\ clock < MaxClock
    /\ clock' = clock + 1
    /\ UNCHANGED <<sessions, behind, lastAccess, lock, pc, operation, target, answer>>

Finished ==
    /\ \A r \in Requests : pc[r] = "done"
    /\ UNCHANGED vars

Proceed(r) ==
    \/ Enter(r) \/ Insert(r) \/ PopFirst(r) \/ LeaveTrimmed(r)
    \/ Find(r) \/ Miss(r) \/ Pop(r) \/ Work(r)

Next ==
    \/ \E r \in Requests : Start(r) \/ Reject(r) \/ Proceed(r)
    \/ Tick
    \/ Finished

Spec == Init /\ [][Next]_vars

(* A thread that can go on does; nothing is assumed of clients or time.    *)
FairSpec == Spec /\ \A r \in Requests : WF_vars(Proceed(r))

-----------------------------------------------------------------------------
(* Properties.                                                             *)

(* Nobody can observe more than max_sessions sessions: the one that is too *)
(* many between insertion and eviction in create is never seen outside.    *)
BoundHolds == LockFree => Cardinality(sessions) <= MaxSessions

(* The order of the dictionary is the order of the accesses, so that the   *)
(* session that overflow evicts is the least recently used one, and the    *)
(* expired ones are a prefix.                                              *)
OrderIsByAccess == \A s, t \in sessions :
    s # t => /\ t \in behind[s] <=> s \notin behind[t]
             /\ t \in behind[s] => lastAccess[s] <= lastAccess[t]

Used(s) == lastAccess[s] # Never

Deleted(s) == \E r \in Requests :
    operation[r] = "delete" /\ target[r] = s /\ pc[r] = "done" /\ answer[r] = "ok"

UsedNoEarlier(s) == {t \in Requests \ {s} : Used(t) /\ lastAccess[t] >= lastAccess[s]}

(* A session that a client was told of is missing, so that its next        *)
(* request is a 404, only if it was deleted, has been idle for more than   *)
(* the TTL, or max_sessions others have been used since.                   *)
GoneForAReason == \A s \in Requests \ sessions :
    Used(s) => \/ Deleted(s)
               \/ clock - lastAccess[s] > TTL
               \/ Cardinality(UsedNoEarlier(s)) >= MaxSessions

(* Every request that was made is answered: no outcome of a call, the      *)
(* KeyError of an unknown session included, leaves the lock taken.         *)
EveryRequestAnswered == \A r \in Requests : pc[r] = "waiting" ~> pc[r] = "done"

(* The store is a cache of the MaxSessions sessions used last, in which    *)
(* create and get take effect in one step each.                            *)
Retained == {s \in sessions : Cardinality(behind[s]) < MaxSessions}

LookupOf(r) ==
    IF operation[r] = "get" /\ (pc[r] = "working" \/ answer[r] \in {"ok", "failed"})
    THEN "hit"
    ELSE IF answer[r] = "not_found" THEN "miss" ELSE "none"

Cache == INSTANCE SessionCache WITH
    cached <- Retained,
    newer <- [s \in Requests |-> IF s \in Retained THEN behind[s] ELSE {}],
    found <- [r \in Requests |-> LookupOf(r)]

(* The store implements the bounded cache.                                 *)
ImplementsCache == Cache!CacheSpec
=============================================================================
