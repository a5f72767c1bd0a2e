---------------------------- MODULE MCStoreExport ----------------------------
(* A small instance of StoreExport for TLC: appends that race with each    *)
(* other and with the exports, dated in any order, two on one path.        *)
EXTENDS StoreExport

CONSTANTS a1, a2, a3, x1, x2, manifest, martFile

Event(id, from, to, time, offset) ==
    [id |-> id, from |-> from, to |-> to, time |-> time, offset |-> offset]

FirstEvent == Event(3, NoStatus, "CANDIDATE", 1, 0)

(* A chain of promotions, one of them in two versions: before the run was  *)
(* made, and two hours east of it.                                         *)
SomeEvents == {
    FirstEvent,
    Event(4, "CANDIDATE", "VALIDATED", 0, 0),
    Event(2, "CANDIDATE", "VALIDATED", 2, 2),
    Event(1, "CANDIDATE", "REJECTED", 3, 0),
    Event(6, "VALIDATED", "OFFICIAL", 3, 0)}
=============================================================================
