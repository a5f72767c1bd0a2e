---------------------------- MODULE MCNmrfCapital ----------------------------
(* A small instance of NmrfCapital for TLC: the prices of the swap arrive,  *)
(* the exotic has none.                                                    *)
EXTENDS NmrfCapital

CONSTANTS swap, exotic

Price(date, lineage, defect) == [date |-> date, lineage |-> lineage, defect |-> defect]

(* Two lineages on one day, and on the next one of them with its documents *)
(* and the other without.                                                  *)
SomeFeed == [f \in Factors |-> IF f = exotic THEN {} ELSE {
    Price(1, "a", "none"), Price(1, "b", "none"), Price(2, "a", "none"),
    Price(2, "b", "UNDOCUMENTED")}]

SomeHorizons == [f \in Factors |-> IF f = swap THEN 10 ELSE 40]

Control(qualitative, representative, issued) ==
    [qualitative |-> qualitative, representative |-> representative, issued |-> issued, prorating |-> TRUE]

TheControls ==
    {[f \in Factors |-> IF f = swap THEN c ELSE Control(qualitative, TRUE, NoDay)] :
        c \in {Control(TRUE, TRUE, 2), Control(TRUE, FALSE, NoDay)},
        qualitative \in {FALSE}}

Evidence(full, direct, robust, stepwise, fallback) ==
    [nonlinear |-> FALSE, full |-> full, direct |-> direct, robust |-> robust, stepwise |-> stepwise,
     stepRequired |-> FALSE, fallback |-> fallback]

(* A direct method that is robust, and none, with the fallback approved    *)
(* and not.                                                                *)
TheEvidence ==
    {[f \in Factors |-> IF f = swap THEN e ELSE Evidence(FALSE, TRUE, TRUE, FALSE, FALSE)] : e \in {
        Evidence(FALSE, TRUE, TRUE, TRUE, FALSE),
        Evidence(FALSE, FALSE, FALSE, FALSE, TRUE), Evidence(FALSE, FALSE, FALSE, FALSE, FALSE)}}

ThePayloads ==
    {[f \in Factors |-> IF f = swap THEN p ELSE {"DIRECT"}] :
        p \in {{"DIRECT"}, {"MAX_LOSS_FALLBACK"}, {"DIRECT", "STEPWISE"}}}

Artifact(f, method, horizon, period, prototype, copy) ==
    [factor |-> f, method |-> method, horizon |-> horizon, period |-> period, prototype |-> prototype,
     complete |-> TRUE, copy |-> copy]

(* For the swap by each method, the direct one twice and the linear one of *)
(* a prototype; for the exotic of a prototype, and of too short a horizon. *)
(* All are of one period, so what is ordered for the other comes late.     *)
TheEngine == {
    Artifact(swap, "DIRECT", 20, "now", FALSE, 1), Artifact(swap, "DIRECT", 20, "now", FALSE, 2),
    Artifact(swap, "MAX_LOSS_FALLBACK", 20, "now", FALSE, 1),
    Artifact(swap, "LINEAR_SENSITIVITY", 20, "now", TRUE, 1),
    Artifact(exotic, "DIRECT", 40, "now", TRUE, 1), Artifact(exotic, "DIRECT", 20, "now", FALSE, 1)}
=============================================================================
