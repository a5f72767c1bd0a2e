------------------------------ MODULE DrcCapital ------------------------------
(***************************************************************************)
(* The default risk charge of one bucket, from the positions in one        *)
(* obligor to the capital: gross jump-to-default, maturity weight, netting *)
(* (DrcNetting), the credit quality of each net record, hedge benefit      *)
(* ratio and bucket capital, as calculate_nonsec_drc composes them.  The   *)
(* net records of the other obligors of the bucket are given; obligors and *)
(* buckets share no state, and a category is the sum of its buckets.       *)
(*                                                                         *)
(* A year is Full units of time and a rate is a number of quarters, so     *)
(* that an amount of JTD is an integer: it counts 1 / (4 * Full) of the    *)
(* currency.  A charge is a fraction, and stays one.                       *)
(***************************************************************************)
EXTENDS DrcNetting

CONSTANTS
    Qualities,      \* CreditQuality, without the ones that are not chargeable
    RiskWeight,     \* of each quality in the bucket
    Lgd,            \* lgd_rate of each seniority, in quarters
    Floor, Full,    \* floor_years and full_weight_years
    NoAmount,       \* None
    Contracts,      \* what the positions may be; Books is what follows from it
    Others,         \* what the net records of the other obligors may be
    Refused         \* the calculation ended with a DrcInputError

Contract == [direction : {"LONG", "SHORT"}, seniority : Seniorities, defaulted : BOOLEAN,
             notional : Int, value : Int \cup {NoAmount}, pnl : Int \cup {NoAmount},
             maturity : Nat, quality : Qualities]
NetRecordOfOther == [obligor : Nat, direction : {"LONG", "SHORT"}, amount : Nat, quality : Qualities]

ASSUME ContractsAssumption ==
    /\ Contracts \subseteq [Positions -> Contract]
    /\ \A c \in Contracts, p \in Positions : c[p].value # NoAmount \/ c[p].pnl # NoAmount
    /\ NoAmount \notin Int
    /\ \A records \in Others : records \subseteq NetRecordOfOther /\ IsFiniteSet(records)
    /\ Full \in Nat /\ Floor \in 1 .. Full /\ RiskWeight \in [Qualities -> Nat] /\ Lgd \in [Seniorities -> 0 .. 4]

VARIABLES
    contracts,      \* the positions as they are given
    others,         \* the net records of the other obligors
    charge          \* the capital of the bucket, Refused, or NoAmount before

capitalVars == <<vars, contracts, others, charge>>
-----------------------------------------------------------------------------
(* Gross jump-to-default.                                                  *)

Abs(n) == IF n < 0 THEN -n ELSE n
Least(a, b) == IF a < b THEN a ELSE b
Most(a, b) == IF a < b THEN b ELSE a

(* A defaulted position loses as much as equity.                           *)
LgdRate(c) == IF c.defaulted THEN 4 ELSE Lgd[c.seniority]

PnlComponent(c) ==
    IF c.pnl # NoAmount THEN c.pnl
    ELSE IF c.direction = "LONG" THEN c.value - Abs(c.notional) ELSE Abs(c.notional) - c.value

RawJtd(c) ==
    LgdRate(c) * (IF c.direction = "LONG" THEN Abs(c.notional) ELSE - Abs(c.notional))
        + 4 * PnlComponent(c)

(* Mutant of Uncapped: a short position that gains counts as well.         *)
UncappedGain(c) == IF c.direction = "LONG" THEN Most(RawJtd(c), 0) ELSE Abs(RawJtd(c))

(* Only a loss counts: of a long position as it is, of a short one negated.*)
Uncapped(c) == IF c.direction = "LONG" THEN Most(RawJtd(c), 0) ELSE Abs(Least(RawJtd(c), 0))

GrossJtd(c) ==
    IF c.value = NoAmount THEN Uncapped(c) ELSE Least(Uncapped(c), 4 * Abs(c.value))

MaturityWeight(years) ==
    IF Floor = Full \/ years >= Full THEN Full ELSE Most(years, Floor)

ExposureOf(c) ==
    [direction |-> c.direction, seniority |-> c.seniority,
     scaled |-> GrossJtd(c) * MaturityWeight(c.maturity), gross |-> GrossJtd(c) * Full]

BookOf(c) == [p \in Positions |-> ExposureOf(c[p])]

ASSUME BooksOfContracts == Books = {BookOf(c) : c \in Contracts}
ASSUME RefusedAssumption == Refused \notin [num : Int, den : Int]
-----------------------------------------------------------------------------
(* The capital of the bucket.                                              *)

QualitiesOf(record) == {contracts[p].quality : p \in record.positions}
QualityOf(record) == CHOOSE q \in Qualities : q \in QualitiesOf(record)

InDirection(records, d) == {r \in records : r.direction = d}

(* What the other obligors contribute.                                     *)
AmountOfOthers(d) == SumFunction([r \in InDirection(others, d) |-> r.amount])
WeightedOfOthers(d) ==
    SumFunction([r \in InDirection(others, d) |-> r.amount * RiskWeight[r.quality]])

NetAmount(d) ==
    SumFunction([r \in InDirection(NetRecords, d) |-> r.amount]) + AmountOfOthers(d)

WeightedAmount(d) ==
    SumFunction([r \in InDirection(NetRecords, d) |-> r.amount * RiskWeight[QualityOf(r)]])
        + WeightedOfOthers(d)

(* weighted_long - ratio * weighted_short, not below zero, where ratio is  *)
(* long / (long + short), or zero where both are.                          *)
BucketCapital(long, short, weightedLong, weightedShort) ==
    [num |-> Most(weightedLong * (long + short) - long * weightedShort, 0),
     den |-> IF long + short = 0 THEN 1 ELSE long + short]
-----------------------------------------------------------------------------
CapitalInit ==
    /\ contracts \in Contracts /\ others \in Others /\ charge = NoAmount
    /\ book = BookOf(contracts) /\ arrival \in Arrivals
    /\ NothingNetted

Net == Next /\ UNCHANGED <<contracts, others, charge>>

(* Mutant of Charge: the hedge benefit ratio of the weighted amounts.      *)
ChargeWeighted ==
    /\ Done /\ layer = NoLayer /\ charge = NoAmount
    /\ charge' = IF \E r \in NetRecords : Cardinality(QualitiesOf(r)) # 1 THEN Refused
                 ELSE BucketCapital(WeightedAmount("LONG"), WeightedAmount("SHORT"),
                                    WeightedAmount("LONG"), WeightedAmount("SHORT"))
    /\ UNCHANGED <<vars, contracts, others>>

(* Every net record has one quality, or nothing is calculated.             *)
Charge ==
    /\ Done /\ layer = NoLayer /\ charge = NoAmount
    /\ charge' = IF \E r \in NetRecords : Cardinality(QualitiesOf(r)) # 1 THEN Refused
                 ELSE BucketCapital(NetAmount("LONG"), NetAmount("SHORT"),
                                    WeightedAmount("LONG"), WeightedAmount("SHORT"))
    /\ UNCHANGED <<vars, contracts, others>>

CapitalNext == Net \/ Charge

CapitalSpec == CapitalInit /\ [][CapitalNext]_capitalVars
-----------------------------------------------------------------------------
(* Properties.                                                             *)

(* The most that any netting the seniority rule permits could offset among *)
(* the positions of a group: the least of the cuts that each rank makes.   *)
Cut(group, t) == ScaledOf(LongsAbove(t) \cap group) + ScaledOf(ShortsFrom(t) \cap group)
BestOffset(group) ==
    LET ranks == {Rank[m] : m \in Seniorities}
        cuts == {Cut(group, t) : t \in 0 .. Max(ranks) + 1}
    IN  Min(cuts)

(* What the bucket costs if only the group is held, all of one quality,    *)
(* netted as well as can be, next to the other obligors.                   *)
BestCharge(group) ==
    LET q == CHOOSE quality \in Qualities : \E p \in Positions : contracts[p].quality = quality
        long == ScaledOf(Longs \cap group) - BestOffset(group)
        short == ScaledOf(Shorts \cap group) - BestOffset(group)
    IN  BucketCapital(long + AmountOfOthers("LONG"), short + AmountOfOthers("SHORT"),
                      long * RiskWeight[q] + WeightedOfOthers("LONG"),
                      short * RiskWeight[q] + WeightedOfOthers("SHORT"))

Equals(x, y) == x.num * y.den = y.num * x.den
OneQuality == \A p, q \in Positions : contracts[p].quality = contracts[q].quality

(* The order of the positions, and the layers in which the netting is      *)
(* done, do not move the charge: an obligor of one quality is never        *)
(* refused, and costs what the best netting of it would cost.              *)
ChargeIsOfBestNetting ==
    charge # NoAmount /\ OneQuality =>
        charge # Refused /\ Equals(charge, BestCharge(Positions))

(* A long and a short position on the same terms, whose profits mirror     *)
(* each other, are worth nothing together, whatever their value, their     *)
(* cap and their maturity: the charge is that of the other positions.      *)
Mirrors(l, s) ==
    /\ contracts[l].direction = "LONG" /\ contracts[s].direction = "SHORT"
    /\ contracts[s].pnl = IF contracts[l].pnl = NoAmount THEN NoAmount ELSE - contracts[l].pnl
    /\ \A field \in DOMAIN contracts[l] \ {"direction", "pnl"} : contracts[l][field] = contracts[s][field]
HedgedPairIsFree ==
    charge # NoAmount /\ OneQuality =>
        \A l, s \in Positions : Mirrors(l, s) => Equals(charge, BestCharge(Positions \ {l, s}))
=============================================================================
