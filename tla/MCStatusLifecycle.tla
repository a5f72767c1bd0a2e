-------------------------- MODULE MCStatusLifecycle --------------------------
(* Small instances of StatusLifecycle for TLC: promotions, a rejection and *)
(* a second first event, with equal times, and with time zones.            *)
EXTENDS StatusLifecycle

CONSTANTS a1, a2, a3, a4

Event(id, from, to, time, offset) ==
    [id |-> id, from |-> from, to |-> to, time |-> time, offset |-> offset]

FirstEvent == Event(3, NoStatus, "CANDIDATE", 1, 0)

Promotions == {
    FirstEvent,
    Event(1, "CANDIDATE", "VALIDATED", 2, 0),
    Event(2, "CANDIDATE", "REJECTED", 3, 0),
    Event(5, "VALIDATED", "OFFICIAL", 3, 0),
    Event(4, NoStatus, "CANDIDATE", 4, 0),
    Event(6, "OFFICIAL", "SUPERSEDED", 4, 0)}
=============================================================================
