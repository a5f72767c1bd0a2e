----------------------------- MODULE MCDrcCapital -----------------------------
(* Small books for DrcCapital: two longs and three shorts on an obligor,   *)
(* in seniorities two of which share a rank, next to other obligors.       *)
EXTENDS DrcCapital

CONSTANTS l1, l2, s1, s2, s3

SeniorityRank == [SENIOR_DEBT |-> 1, PSE |-> 1, NON_SENIOR_DEBT |-> 2, EQUITY |-> 3]
LgdQuarters == [SENIOR_DEBT |-> 3, PSE |-> 2, NON_SENIOR_DEBT |-> 4, EQUITY |-> 4]
Weights == [INVESTMENT_GRADE |-> 2, SPECULATIVE_GRADE |-> 22]

Terms(direction, seniorities, defaults, notional, value, pnl, maturity) ==
    {[direction |-> direction, seniority |-> s, defaulted |-> d, notional |-> notional,
      value |-> value, pnl |-> pnl, maturity |-> maturity, quality |-> "INVESTMENT_GRADE"] :
        s \in seniorities, d \in defaults}

(* At par; at half of it, which is what a PSE recovers; worth less than is *)
(* recovered; a given profit, with and without a value that caps.          *)
AtPar(d, ss, m) == Terms(d, ss, {FALSE}, 2, 2, NoAmount, m)
AtHalf(d, ss, m) == Terms(d, ss, {FALSE}, 2, 1, NoAmount, m)
Deep(d, ss) == Terms(d, ss, {FALSE}, 8, 1, NoAmount, 4)
Capped(d, ss) == Terms(d, ss, {TRUE}, 2, 1, 0, 4)
Profit(d, ss, pnl) == Terms(d, ss, {FALSE}, 2, NoAmount, pnl, 0)

SmallContracts ==
    {[p \in Positions |-> CASE p = l1 -> e1 [] p = l2 -> e2
                            [] p = s1 -> f1 [] p = s2 -> f2 [] p = s3 -> f3] :
        e1 \in AtPar("LONG", {"SENIOR_DEBT", "NON_SENIOR_DEBT"}, 4) \cup Deep("LONG", {"SENIOR_DEBT"})
                   \cup AtHalf("LONG", {"SENIOR_DEBT", "NON_SENIOR_DEBT"}, 4),
        e2 \in AtPar("LONG", {"PSE", "NON_SENIOR_DEBT", "EQUITY"}, 2)
                   \cup Capped("LONG", {"SENIOR_DEBT"}) \cup Profit("LONG", {"NON_SENIOR_DEBT"}, 1),
        f1 \in AtPar("SHORT", Seniorities, 2),
        f2 \in AtHalf("SHORT", {"PSE", "NON_SENIOR_DEBT"}, 4) \cup Deep("SHORT", {"SENIOR_DEBT", "EQUITY"}),
        f3 \in Profit("SHORT", {"NON_SENIOR_DEBT", "EQUITY"}, -1) \cup Capped("SHORT", {"SENIOR_DEBT"})}

(* All of one quality, or one position of another.                         *)
GradedContracts ==
    SmallContracts \cup
    {[c EXCEPT ![p].quality = "SPECULATIVE_GRADE"] : c \in SmallContracts, p \in {l1, s1}} \cup
    {[p \in Positions |-> [c[p] EXCEPT !.quality = "SPECULATIVE_GRADE"]] : c \in SmallContracts}

ContractBooks == {BookOf(c) : c \in GradedContracts}

OfOther(obligor, direction, amount, quality) ==
    [obligor |-> obligor, direction |-> direction, amount |-> amount, quality |-> quality]

(* No other obligor, or a long and a short one, of different qualities.    *)
OtherObligors ==
    {{}, {OfOther(1, "LONG", 8, "SPECULATIVE_GRADE"), OfOther(2, "SHORT", 16, "INVESTMENT_GRADE")}}

(* By position id, and the other way round.                                *)
BothWays ==
    {[p \in Positions |-> CASE p = l1 -> 1 [] p = l2 -> 2 [] p = s1 -> 3 [] p = s2 -> 4 [] p = s3 -> 5],
     [p \in Positions |-> CASE p = l1 -> 5 [] p = l2 -> 4 [] p = s1 -> 3 [] p = s2 -> 2 [] p = s3 -> 1]}
=============================================================================
