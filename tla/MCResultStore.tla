---------------------------- MODULE MCResultStore ----------------------------
(* Small instances of ResultStore for TLC: three calls that retry one run, *)
(* or two calls on one run and one on another.                             *)
EXTENDS ResultStore, TLC

CONSTANTS c1, c2, c3, r1, r2

OneRun == [c \in Calls |-> r1]
TwoRuns == [c \in Calls |-> IF c = c3 THEN r2 ELSE r1]

(* Calls on the same run id are interchangeable.  The runs that use this   *)
(* check safety only, and no property tells two such calls apart.          *)
AnyCall == Permutations({c1, c2, c3})
FirstTwoCalls == Permutations({c1, c2})
=============================================================================
