------------------------------ MODULE DrcNetting ------------------------------
(***************************************************************************)
(* Default risk charge: the netting of the non-securitisation exposures to *)
(* one obligor in one bucket, as calculate_net_jtds and its columnar twin  *)
(* carry it out for each group.  The long exposures of each seniority are  *)
(* one layer; the layers are offset in turn, the most senior first, by the *)
(* short exposures that the seniority rule permits, the most senior of     *)
(* them first, each for what is left of it.                                *)
(*                                                                         *)
(* Amounts are integers: the rounding of floating point is left out.       *)
(***************************************************************************)
EXTENDS Integers, Functions, FiniteSetsExt

CONSTANTS
    Positions,      \* the exposures of the group
    Seniorities,    \* DrcSeniority
    Rank,           \* _SENIORITY_RANK: several seniorities may share a rank
    NoLayer,        \* no layer is being netted
    Unit,           \* of amounts: the smallest that a position can differ by
    Books,          \* what the positions may be
    Arrivals        \* in which order they may be given

(* scaled is the maturity-scaled JTD, gross the JTD before that.           *)
Exposure == [direction : {"LONG", "SHORT"}, seniority : Seniorities,
             scaled : Nat, gross : Nat]

ASSUME RankAssumption == Rank \in [Seniorities -> Nat] /\ NoLayer \notin Seniorities
ASSUME GroupAssumption == IsFiniteSet(Positions) /\ Positions # {} /\ IsFiniteSet(Seniorities)

(* Amounts are counted so finely that the gross amount of one Unit of each *)
(* position is whole: ratios are rational, and any finer count is as good. *)
ASSUME BooksAssumption ==
    /\ Books \subseteq [Positions -> Exposure] /\ Unit \in Nat \ {0}
    /\ \A b \in Books, p \in Positions : b[p].scaled > 0 =>
        b[p].scaled % Unit = 0 /\ (b[p].gross * Unit) % b[p].scaled = 0
ASSUME ArrivalsAssumption == Arrivals \subseteq [Positions -> Int]

VARIABLES
    book,           \* the exposure of each position
    arrival,        \* the place of each position in the input
    layer,          \* the long layer being netted
    added,          \* the long positions already summed
    tried,          \* the short positions the layer has been offered
    netted,         \* the layers that are done
    left,           \* scaled_long - used_short_scaled of each layer
    used,           \* used[l][p]: the scaled amount layer l took from p
    usedGross,      \* used_short_gross of each layer
    remaining,      \* remaining_scaled of each short position
    remainingGross  \* remaining_gross of each short position

vars == <<book, arrival, layer, added, tried, netted, left, used, usedGross,
          remaining, remainingGross>>

Longs == {p \in Positions : book[p].direction = "LONG"}
Shorts == Positions \ Longs
LayerOf(l) == {p \in Longs : book[p].seniority = l}
Layers == {book[p].seniority : p \in Longs}

(* A short exposure of the same or a lower seniority may offset a long one.*)
ShortCanOffset(l, m) == Rank[m] >= Rank[l]

(* sorted(..., key=_seniority_rank) keeps the order of the dictionary for  *)
(* equal ranks: that of the first position of each seniority.              *)
SeniorityBefore(group, l, m) ==
    \/ Rank[l] < Rank[m]
    \/ /\ Rank[l] = Rank[m] /\ l # m
       /\ \E p \in group : /\ book[p].seniority = l
                           /\ \A q \in group : book[q].seniority = m => arrival[p] < arrival[q]

(* Mutant of ShortBefore: the most junior short positions first.           *)
JuniorFirst(p, q) ==
    \/ Rank[book[p].seniority] > Rank[book[q].seniority]
    \/ Rank[book[p].seniority] = Rank[book[q].seniority] /\ arrival[p] < arrival[q]

ShortBefore(p, q) ==
    \/ SeniorityBefore(Shorts, book[p].seniority, book[q].seniority)
    \/ book[p].seniority = book[q].seniority /\ arrival[p] < arrival[q]

(* Mutant of Offers: only short positions of the seniority of the layer.   *)
OffersOfLayer == {p \in Shorts \ tried : book[p].seniority = layer}

(* The short positions the layer has yet to be offered.                    *)
Offers == {p \in Shorts \ tried : ShortCanOffset(layer, book[p].seniority)}
-----------------------------------------------------------------------------
NothingNetted ==
    /\ layer = NoLayer /\ added = {} /\ tried = {} /\ netted = {}
    /\ left = [l \in Seniorities |-> 0]
    /\ used = [l \in Seniorities |-> [p \in Positions |-> 0]]
    /\ usedGross = [l \in Seniorities |-> 0]
    /\ remaining = [p \in Positions |-> IF p \in Shorts THEN book[p].scaled ELSE 0]
    /\ remainingGross = [p \in Positions |-> IF p \in Shorts THEN book[p].gross ELSE 0]

Init == book \in Books /\ arrival \in Arrivals /\ NothingNetted

(* The next layer, by rank.                                                *)
OpenLayer(l) ==
    /\ layer = NoLayer
    /\ l \in Layers \ netted
    /\ \A m \in Layers \ (netted \cup {l}) : SeniorityBefore(Longs, l, m)
    /\ layer' = l /\ tried' = {}
    /\ UNCHANGED <<book, arrival, added, netted, left, used, usedGross, remaining, remainingGross>>

(* scaled_long is summed over the positions of the layer.                  *)
AddLong(p) ==
    /\ layer # NoLayer
    /\ p \in LayerOf(layer) \ added
    /\ \A q \in LayerOf(layer) \ added : arrival[p] <= arrival[q]
    /\ added' = added \cup {p}
    /\ left' = [left EXCEPT ![layer] = @ + book[p].scaled]
    /\ UNCHANGED <<book, arrival, layer, tried, netted, used, usedGross, remaining, remainingGross>>

(* Mutant of ConsumeShort: without the minimum.                            *)
ConsumeWhole(p) ==
    /\ layer # NoLayer
    /\ LayerOf(layer) \subseteq added
    /\ left[layer] > 0
    /\ p \in Offers
    /\ \A q \in Offers \ {p} : ShortBefore(p, q)
    /\ tried' = tried \cup {p}
    /\ left' = [left EXCEPT ![layer] = @ - remaining[p]]
    /\ used' = [used EXCEPT ![layer][p] = @ + remaining[p]]
    /\ usedGross' = [usedGross EXCEPT ![layer] = @ + remainingGross[p]]
    /\ remaining' = [remaining EXCEPT ![p] = 0]
    /\ remainingGross' = [remainingGross EXCEPT ![p] = 0]
    /\ UNCHANGED <<book, arrival, layer, added, netted>>

(* Mutant of ConsumeShort: gross is taken in proportion to the whole.      *)
ConsumeOfWhole(p) ==
    LET consumed == IF left[layer] < remaining[p] THEN left[layer] ELSE remaining[p]
        gross == IF consumed = 0 THEN 0
                 ELSE (remainingGross[p] * consumed) \div book[p].scaled
    IN  /\ layer # NoLayer
        /\ LayerOf(layer) \subseteq added
        /\ left[layer] > 0
        /\ p \in Offers
        /\ \A q \in Offers \ {p} : ShortBefore(p, q)
        /\ tried' = tried \cup {p}
        /\ left' = [left EXCEPT ![layer] = @ - consumed]
        /\ used' = [used EXCEPT ![layer][p] = @ + consumed]
        /\ usedGross' = [usedGross EXCEPT ![layer] = @ + gross]
        /\ remaining' = [remaining EXCEPT ![p] = @ - consumed]
        /\ remainingGross' = [remainingGross EXCEPT ![p] = @ - gross]
        /\ UNCHANGED <<book, arrival, layer, added, netted>>

(* _consume_short_state: the next short position gives what is asked for,  *)
(* at most what is left of it, and its gross amount in proportion.         *)
ConsumeShort(p) ==
    LET consumed == IF left[layer] < remaining[p] THEN left[layer] ELSE remaining[p]
        gross == IF consumed = 0 THEN 0 ELSE (remainingGross[p] * consumed) \div remaining[p]
    IN  /\ layer # NoLayer
        /\ LayerOf(layer) \subseteq added
        /\ left[layer] > 0
        /\ p \in Offers
        /\ \A q \in Offers \ {p} : ShortBefore(p, q)
        /\ tried' = tried \cup {p}
        /\ left' = [left EXCEPT ![layer] = @ - consumed]
        /\ used' = [used EXCEPT ![layer][p] = @ + consumed]
        /\ usedGross' = [usedGross EXCEPT ![layer] = @ + gross]
        /\ remaining' = [remaining EXCEPT ![p] = @ - consumed]
        /\ remainingGross' = [remainingGross EXCEPT ![p] = @ - gross]
        /\ UNCHANGED <<book, arrival, layer, added, netted>>

(* The layer is done when it is offset or has been offered everything.     *)
CloseLayer ==
    /\ layer # NoLayer
    /\ LayerOf(layer) \subseteq added
    /\ left[layer] = 0 \/ Offers = {}
    /\ netted' = netted \cup {layer}
    /\ layer' = NoLayer
    /\ UNCHANGED <<book, arrival, added, tried, left, used, usedGross, remaining, remainingGross>>

Done == netted = Layers

Finished == Done /\ UNCHANGED vars

Next ==
    \/ \E l \in Seniorities : OpenLayer(l)
    \/ \E p \in Positions : AddLong(p) \/ ConsumeShort(p)
    \/ CloseLayer
    \/ Finished

Spec == Init /\ [][Next]_vars
-----------------------------------------------------------------------------
(* The net JTD records of the group.                                       *)

(* The residual short positions of each seniority are netted together.     *)
ResidualOf(m) == {p \in Shorts : book[p].seniority = m /\ remaining[p] > 0}

LongRecord(l) ==
    [direction |-> "LONG", seniority |-> l, amount |-> left[l],
     positions |-> LayerOf(l) \cup {p \in Shorts : used[l][p] > 0}]

ShortRecord(m) ==
    [direction |-> "SHORT", seniority |-> m,
     amount |-> SumFunctionOnSet(remaining, ResidualOf(m)), positions |-> ResidualOf(m)]

NetRecords ==
    {LongRecord(l) : l \in {m \in Layers : left[m] > 0}}
        \cup {ShortRecord(m) : m \in {n \in Seniorities : ResidualOf(n) # {}}}
-----------------------------------------------------------------------------
(* Properties.                                                             *)

(* What every state is made of; no amount is negative.                     *)
TypeOK ==
    /\ book \in [Positions -> Exposure] /\ arrival \in [Positions -> Int]
    /\ layer \in Layers \cup {NoLayer}
    /\ added \subseteq Longs /\ tried \subseteq Shorts /\ netted \subseteq Layers
    /\ left \in [Seniorities -> Nat]
    /\ used \in [Seniorities -> [Positions -> Nat]]
    /\ remaining \in [Positions -> Nat]
    /\ usedGross \in [Seniorities -> Int] /\ remainingGross \in [Positions -> Int]

(* No permitted offset is left unused: what is left of a netted layer and  *)
(* what is left of a short position that may offset it exclude each other. *)
NoOffsetLeft ==
    \A l \in netted, p \in Shorts :
        ShortCanOffset(l, book[p].seniority) => left[l] = 0 \/ remaining[p] = 0

(* The layers down to any rank are offset as far as any netting that the   *)
(* seniority rule permits could offset them.  The longs down to the rank   *)
(* are offset in full, or there is a rank t such that those from t on have *)
(* taken all the shorts from t on, which are all that may offset them, and *)
(* those above t are offset in full by other shorts.                       *)
ScaledOf(group) == SumFunctionOnSet([p \in Positions |-> book[p].scaled], group)
LongsDownTo(r) == {p \in Longs : Rank[book[p].seniority] <= r}
LongsAbove(t) == {p \in Longs : Rank[book[p].seniority] < t}
ShortsFrom(t) == {p \in Shorts : Rank[book[p].seniority] >= t}
Offset(r) == ScaledOf(LongsDownTo(r)) - SumFunctionOnSet(left, {l \in Layers : Rank[l] <= r})
OffsetIsMaximal ==
    Done => \A r \in {Rank[l] : l \in Seniorities} :
        \/ Offset(r) = ScaledOf(LongsDownTo(r))
        \/ \E t \in 0 .. r : Offset(r) = ScaledOf(LongsAbove(t)) + ScaledOf(ShortsFrom(t))

(* "Netting records reconcile to scaled gross JTD": the signed net amounts *)
(* add up to the signed scaled amounts, and what is left of a position     *)
(* keeps its proportion of gross to scaled, however often it was offset.   *)
Signed(record) == IF record.direction = "LONG" THEN record.amount ELSE - record.amount
RecordsReconcile ==
    Done =>
        /\ SumFunction([r \in NetRecords |-> Signed(r)]) = ScaledOf(Longs) - ScaledOf(Shorts)
        /\ \A p \in Shorts : remainingGross[p] * book[p].scaled = book[p].gross * remaining[p]
=============================================================================
