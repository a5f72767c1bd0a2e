----------------------------- MODULE SessionCache -----------------------------
(***************************************************************************)
(* What the session store of the onboarding mapper promises, with neither  *)
(* clock nor lock: a bounded cache that drops the least recently used.     *)
(* Sessions may expire at any moment, but only the longest idle ones.      *)
(***************************************************************************)
EXTENDS Integers, FiniteSets

CONSTANTS
    Requests,       \* the requests; a session bears the name of its creator
    MaxSessions     \* how many sessions are kept

VARIABLES
    cached,         \* the sessions that can be used
    newer,          \* newer[s]: the cached ones used after s
    found           \* how each look-up ended, so far "none"

cvars == <<cached, newer, found>>

CacheTypeOK ==
    /\ cached \subseteq Requests
    /\ newer \in [Requests -> SUBSET Requests]
    /\ found \in [Requests -> {"none", "hit", "miss"}]

CInit ==
    /\ cached = {}
    /\ newer = [s \in Requests |-> {}]
    /\ found = [r \in Requests |-> "none"]

(* What is newer than what, with s the newest of the sessions in kept.     *)
NewestOf(kept, s) ==
    [t \in Requests |-> IF t \in kept \ {s} THEN (newer[t] \cup {s}) \cap kept ELSE {}]

(* A new session, in place of the oldest one when there are too many.      *)
Put(s) ==
    /\ s \notin cached
    /\ LET kept == {s} \cup {t \in cached : Cardinality(newer[t]) + 1 < MaxSessions}
       IN  cached' = kept /\ newer' = NewestOf(kept, s)
    /\ UNCHANGED found

Hit(r, s) ==
    /\ s \in cached
    /\ newer' = NewestOf(cached, s)
    /\ found' = [found EXCEPT ![r] = "hit"]
    /\ UNCHANGED cached

Miss(r, s) ==
    /\ s \notin cached
    /\ found' = [found EXCEPT ![r] = "miss"]
    /\ UNCHANGED <<cached, newer>>

Forget(gone) ==
    /\ cached' = cached \ gone
    /\ newer' = [t \in Requests |-> IF t \in cached' THEN newer[t] \ gone ELSE {}]
    /\ UNCHANGED found

(* The longest idle sessions go, up to any point.                          *)
Expire == \E gone \in SUBSET cached :
    /\ \A s \in gone, t \in cached \ gone : t \in newer[s]
    /\ Forget(gone)

CNext ==
    \/ Expire
    \/ \E s \in Requests : Put(s) \/ Forget({s})
    \/ \E r, s \in Requests : found[r] = "none" /\ (Hit(r, s) \/ Miss(r, s))

CacheSpec == CInit /\ [][CNext]_cvars
=============================================================================
