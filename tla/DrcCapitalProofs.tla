--------------------------- MODULE DrcCapitalProofs ---------------------------
(***************************************************************************)
(* Theorems about DrcNetting, for any book, ranking and order of arrival,  *)
(* and about DrcCapital, for any contracts and rates.                      *)
(***************************************************************************)
EXTENDS DrcCapital, InductionLemmas

-----------------------------------------------------------------------------
(* The netting.                                                            *)

(* The gross amount that goes with a consumed amount is an integer.        *)
LEMMA ShareIsInt ==
    ASSUME NEW g \in Int, NEW c \in Nat, NEW n \in Nat, n # 0
    PROVE  (g * c) \div n \in Int
<1>1. \A x \in Int : x \div n \in Int
  OBVIOUS
<1> QED
  BY <1>1

(* Every action gives variables of the types that TypeOK declares.         *)
LEMMA TypeStep == TypeOK /\ [Next]_vars => TypeOK'
<1> SUFFICES ASSUME TypeOK, [Next]_vars PROVE TypeOK'
  OBVIOUS
<1> USE RankAssumption DEF TypeOK
<1>1. ASSUME NEW l \in Seniorities, OpenLayer(l) PROVE TypeOK'
  BY <1>1 DEF OpenLayer, Layers, Longs, Shorts
<1>2. ASSUME NEW p \in Positions, AddLong(p) PROVE TypeOK'
  <2>1. p \in Longs /\ layer \in Seniorities /\ book[p].scaled \in Nat
    BY <1>2 DEF AddLong, LayerOf, Layers, Longs, Exposure
  <2>2. left' \in [Seniorities -> Nat]
    BY <1>2, <2>1 DEF AddLong
  <2> QED
    BY <1>2, <2>1, <2>2 DEF AddLong, Layers, Longs, Shorts
<1>3. ASSUME NEW p \in Positions, ConsumeShort(p) PROVE TypeOK'
  <2> DEFINE c == IF left[layer] < remaining[p] THEN left[layer] ELSE remaining[p]
             g == IF c = 0 THEN 0 ELSE (remainingGross[p] * c) \div remaining[p]
  <2>1. layer \in Seniorities /\ p \in Shorts
    BY <1>3 DEF ConsumeShort, Offers, Layers, Longs, Exposure
  <2>2. left[layer] \in Nat /\ remaining[p] \in Nat /\ remainingGross[p] \in Int
    BY <2>1
  <2>3. c \in Nat /\ c <= left[layer] /\ c <= remaining[p]
    BY <2>2
  <2>4. g \in Int
    BY <2>2, <2>3, ShareIsInt
  <2>5. /\ tried' = tried \cup {p}
        /\ left' = [left EXCEPT ![layer] = @ - c]
        /\ used' = [used EXCEPT ![layer][p] = @ + c]
        /\ usedGross' = [usedGross EXCEPT ![layer] = @ + g]
        /\ remaining' = [remaining EXCEPT ![p] = @ - c]
        /\ remainingGross' = [remainingGross EXCEPT ![p] = @ - g]
        /\ UNCHANGED <<book, arrival, layer, added, netted>>
    BY <1>3 DEF ConsumeShort
  <2> HIDE DEF c, g
  <2>6. left' \in [Seniorities -> Nat] /\ remaining' \in [Positions -> Nat]
    <3>1. left[layer] - c \in Nat /\ remaining[p] - c \in Nat
      BY <2>2, <2>3
    <3> QED
      BY <2>5, <3>1
  <2>7. used' \in [Seniorities -> [Positions -> Nat]]
    BY <2>1, <2>3, <2>5
  <2>8. usedGross' \in [Seniorities -> Int] /\ remainingGross' \in [Positions -> Int]
    <3>1. usedGross[layer] + g \in Int /\ remainingGross[p] - g \in Int
      BY <2>1, <2>2, <2>4
    <3> QED
      BY <2>5, <3>1
  <2> QED
    BY <2>1, <2>5, <2>6, <2>7, <2>8 DEF Layers, Longs, Shorts
<1>4. ASSUME CloseLayer PROVE TypeOK'
  BY <1>4 DEF CloseLayer, Layers, Longs, Shorts
<1>5. ASSUME UNCHANGED vars PROVE TypeOK'
  BY <1>5 DEF vars, Layers, Longs, Shorts
<1> QED
  BY <1>1, <1>2, <1>3, <1>4, <1>5 DEF Next, Finished

(* The typed book of the start has the types of TypeOK.                    *)
LEMMA InitTypeOK == Init => TypeOK
  BY BooksAssumption, ArrivalsAssumption DEF Init, NothingNetted, TypeOK, Exposure, Longs, Shorts

(* The state is of its types and no scaled amount is ever negative.        *)
THEOREM NettingTypeCorrect == Spec => []TypeOK
  BY InitTypeOK, TypeStep, PTL DEF Spec

-----------------------------------------------------------------------------
(* A position the layer has been offered is used up, or the layer is; the  *)
(* longs of the layers that are done stay summed.                          *)
NInv ==
    /\ \A p \in tried : ShortCanOffset(layer, book[p].seniority) /\ layer # NoLayer =>
          left[layer] = 0 \/ remaining[p] = 0
    /\ tried # {} /\ layer # NoLayer => LayerOf(layer) \subseteq added
    /\ \A l \in netted : LayerOf(l) \subseteq added
    /\ layer \notin netted
    /\ NoOffsetLeft

(* A long position joins its layer before any is offset, and a short       *)
(* position that was offered is used up, or the layer is.                  *)
LEMMA NStep == TypeOK /\ NInv /\ [Next]_vars => NInv'
<1> SUFFICES ASSUME TypeOK, NInv, [Next]_vars PROVE NInv'
  OBVIOUS
<1> USE RankAssumption DEF TypeOK, NInv, NoOffsetLeft
<1>1. ASSUME NEW l \in Seniorities, OpenLayer(l) PROVE NInv'
  BY <1>1 DEF OpenLayer, Layers, Longs, Shorts, LayerOf, ShortCanOffset
<1>2. ASSUME NEW p \in Positions, AddLong(p) PROVE NInv'
  <2>1. tried = {} /\ layer \notin netted
    BY <1>2 DEF AddLong
  <2>2. \A l \in netted : left'[l] = left[l]
    BY <1>2, <2>1 DEF AddLong, Layers, Longs
  <2> QED
    BY <1>2, <2>1, <2>2 DEF AddLong, Longs, Shorts, LayerOf, ShortCanOffset
<1>3. ASSUME NEW p \in Positions, ConsumeShort(p) PROVE NInv'
  <2> DEFINE c == IF left[layer] < remaining[p] THEN left[layer] ELSE remaining[p]
  <2>1. layer \in Seniorities /\ p \in Shorts
    BY <1>3 DEF ConsumeShort, Offers, Layers, Longs, Exposure
  <2>2. left[layer] \in Nat /\ remaining[p] \in Nat
    BY <2>1
  <2>3. /\ tried' = tried \cup {p}
        /\ left' = [left EXCEPT ![layer] = @ - c]
        /\ remaining' = [remaining EXCEPT ![p] = @ - c]
        /\ UNCHANGED <<book, arrival, layer, added, netted>>
    BY <1>3 DEF ConsumeShort
  <2>4. left'[layer] = 0 \/ remaining'[p] = 0
    BY <2>1, <2>2, <2>3
  <2>5. \A l \in netted : left'[l] = left[l]
    BY <2>3
  <2>6. \A q \in Positions : remaining[q] = 0 => remaining'[q] = 0
    BY <2>2, <2>3
  <2>7. left[layer] = 0 => left'[layer] = 0
    BY <2>1, <2>2, <2>3
  <2>8. LayerOf(layer) \subseteq added
    BY <1>3 DEF ConsumeShort
  <2>9. tried \subseteq Positions /\ Shorts \subseteq Positions
    BY DEF Shorts
  <2> QED
    BY <2>3, <2>4, <2>5, <2>6, <2>7, <2>8, <2>9 DEF Longs, Shorts, LayerOf, ShortCanOffset
<1>4. ASSUME CloseLayer PROVE NInv'
  <2>1. layer \in Seniorities /\ layer \notin netted
    BY <1>4 DEF CloseLayer, Layers, Longs, Exposure
  <2>2. \A p \in Shorts : ShortCanOffset(layer, book[p].seniority) =>
            left[layer] = 0 \/ remaining[p] = 0
    BY <1>4 DEF CloseLayer, Offers
  <2> QED
    BY <1>4, <2>1, <2>2 DEF CloseLayer, Longs, Shorts, LayerOf, Layers, Exposure, ShortCanOffset
<1>5. ASSUME UNCHANGED vars PROVE NInv'
  BY <1>5 DEF vars, Longs, Shorts, LayerOf, ShortCanOffset
<1> QED
  BY <1>1, <1>2, <1>3, <1>4, <1>5 DEF Next, Finished

(* Before the first layer nothing has been summed.                         *)
LEMMA InitNInv == Init => NInv
  BY DEF Init, NothingNetted, NInv, NoOffsetLeft

(* No offset that the seniority rule permits is left unused.               *)
THEOREM NettingIsExhaustive == Spec => []NoOffsetLeft
<1>1. NInv => NoOffsetLeft
  BY DEF NInv
<1> QED
  BY <1>1, InitNInv, NStep, NettingTypeCorrect, PTL DEF Spec

-----------------------------------------------------------------------------
(* The netting as a flow: what the layers took from the short positions.   *)
FlowAt == [pair \in Seniorities \X Positions |-> used[pair[1]][pair[2]]]
Flow(layers, shorts) == SumFunctionOnSet(FlowAt, layers \X shorts)

(* What a layer has is what was summed of it without what it took, and     *)
(* what is left of a short position is what it was without what was taken. *)
FlowInv ==
    /\ \A ls \in SUBSET Seniorities :
        SumFunctionOnSet(left, ls) + Flow(ls, Positions)
            = ScaledOf({p \in added : book[p].seniority \in ls})
    /\ \A ps \in SUBSET Shorts :
        SumFunctionOnSet(remaining, ps) + Flow(Seniorities, ps) = ScaledOf(ps)

(* The table of what was taken has natural numbers, for each layer and     *)
(* position.                                                               *)
LEMMA FlowTypes ==
    ASSUME TypeOK
    PROVE  /\ \A ls \in SUBSET Seniorities : \A ps \in SUBSET Positions :
                /\ IsFiniteSet(ls) /\ IsFiniteSet(ps) /\ IsFiniteSet(ls \X ps)
                /\ ls \X ps \in SUBSET (Seniorities \X Positions)
           /\ \A pair \in Seniorities \X Positions :
                FlowAt[pair] \in Nat /\ FlowAt[pair] = used[pair[1]][pair[2]]
           /\ \A p \in Positions : book[p].scaled \in Nat /\ book[p].seniority \in Seniorities
<1>1. ASSUME NEW ls \in SUBSET Seniorities, NEW ps \in SUBSET Positions
      PROVE  IsFiniteSet(ls) /\ IsFiniteSet(ps) /\ IsFiniteSet(ls \X ps)
  BY GroupAssumption, FS_Subset, FS_Product
<1>2. ASSUME NEW pair \in Seniorities \X Positions
      PROVE  FlowAt[pair] \in Nat /\ FlowAt[pair] = used[pair[1]][pair[2]]
  <2>1. pair[1] \in Seniorities /\ pair[2] \in Positions
    OBVIOUS
  <2>2. FlowAt[pair] = used[pair[1]][pair[2]]
    BY DEF FlowAt
  <2>3. used[pair[1]] \in [Positions -> Nat]
    BY <2>1 DEF TypeOK
  <2> QED
    BY <2>1, <2>2, <2>3
<1>3. \A p \in Positions : book[p] \in Exposure
  BY DEF TypeOK
<1> QED
  BY <1>1, <1>2, <1>3 DEF Exposure

(* The same in the next state.                                             *)
LEMMA FlowTypesNext ==
    ASSUME TypeOK'
    PROVE  \A pair \in Seniorities \X Positions : FlowAt'[pair] \in Nat
<1> SUFFICES ASSUME NEW pair \in Seniorities \X Positions PROVE FlowAt'[pair] \in Nat
  OBVIOUS
<1>1. pair[1] \in Seniorities /\ pair[2] \in Positions
  OBVIOUS
<1>2. FlowAt'[pair] = used'[pair[1]][pair[2]]
  BY DEF FlowAt
<1>3. used'[pair[1]] \in [Positions -> Nat]
  BY <1>1 DEF TypeOK
<1> QED
  BY <1>1, <1>2, <1>3

(* What a set of positions amounts to is a natural number.                 *)
LEMMA ScaledTypes ==
    ASSUME TypeOK, NEW ps \in SUBSET Positions
    PROVE  /\ IsFiniteSet(ps) /\ ScaledOf(ps) \in Nat
           /\ ScaledOf(ps) = SumFunctionOnSet([p \in Positions |-> book[p].scaled], ps)
           /\ \A p \in ps : [q \in Positions |-> book[q].scaled][p] = book[p].scaled /\ book[p].scaled \in Nat
<1> DEFINE scaled == [p \in Positions |-> book[p].scaled]
<1>1. IsFiniteSet(ps)
  BY GroupAssumption, FS_Subset
<1>2. \A p \in ps : scaled[p] \in Nat /\ scaled[p] = book[p].scaled
  BY FlowTypes
<1>3. ScaledOf(ps) = SumFunctionOnSet(scaled, ps)
  BY DEF ScaledOf
<1> HIDE DEF scaled
<1>4. SumFunctionOnSet(scaled, ps) \in Nat
  BY <1>1, <1>2, SumIsNatural
<1> QED
  BY <1>1, <1>2, <1>3, <1>4 DEF scaled

(* All the sums that the invariants relate are natural numbers.            *)
LEMMA FlowSums ==
    ASSUME TypeOK, NEW ls \in SUBSET Seniorities, NEW ps \in SUBSET Positions
    PROVE  /\ IsFiniteSet(ls) /\ SumFunctionOnSet(left, ls) \in Nat
           /\ IsFiniteSet(ps) /\ SumFunctionOnSet(remaining, ps) \in Nat
           /\ IsFiniteSet(ls \X ps) /\ Flow(ls, ps) \in Nat
<1>1. IsFiniteSet(ls) /\ IsFiniteSet(ps) /\ IsFiniteSet(ls \X ps)
  BY FlowTypes
<1>2. \A l \in ls : left[l] \in Nat
  BY DEF TypeOK
<1>3. \A p \in ps : remaining[p] \in Nat
  BY DEF TypeOK
<1>4. \A pair \in ls \X ps : FlowAt[pair] \in Nat
  <2>1. \A pair \in ls \X ps : pair \in Seniorities \X Positions
    OBVIOUS
  <2> QED
    BY <2>1, FlowTypes
<1> QED
  BY <1>1, <1>2, <1>3, <1>4, SumIsNatural DEF Flow

(* At the start nothing is taken, and all is left.                         *)
LEMMA FlowInit == Init => FlowInv
<1> SUFFICES ASSUME Init PROVE FlowInv
  OBVIOUS
<1>1. TypeOK
  BY InitTypeOK
<1>2. \A pair \in Seniorities \X Positions : FlowAt[pair] = 0
  BY DEF FlowAt, Init, NothingNetted
<1>3. ASSUME NEW ls \in SUBSET Seniorities, NEW ps \in SUBSET Positions PROVE Flow(ls, ps) = 0
  BY <1>1, <1>2, FlowTypes, SumZero DEF Flow
<1>4. ASSUME NEW ls \in SUBSET Seniorities
      PROVE  SumFunctionOnSet(left, ls) = 0 /\ ScaledOf({p \in added : book[p].seniority \in ls}) = 0
  <2>1. IsFiniteSet(ls) /\ \A l \in ls : left[l] = 0
    BY <1>1, FlowTypes DEF Init, NothingNetted
  <2>2. {p \in added : book[p].seniority \in ls} = {}
    BY DEF Init, NothingNetted
  <2> QED
    BY <2>1, <2>2, SumZero, SumEmpty DEF ScaledOf
<1>5. ASSUME NEW ps \in SUBSET Shorts PROVE SumFunctionOnSet(remaining, ps) = ScaledOf(ps)
  <2> DEFINE scaled == [p \in Positions |-> book[p].scaled]
  <2>1. ps \in SUBSET Positions
    BY DEF Shorts
  <2>2. \A p \in ps : remaining[p] = book[p].scaled
    BY <2>1 DEF Init, NothingNetted
  <2>3. /\ IsFiniteSet(ps) /\ \A p \in ps : scaled[p] \in Int /\ remaining[p] = scaled[p]
        /\ ScaledOf(ps) = SumFunctionOnSet(scaled, ps)
    BY <1>1, <2>1, <2>2, ScaledTypes
  <2> HIDE DEF scaled
  <2> QED
    BY <2>3, SumSame
<1>6. ASSUME NEW ps \in SUBSET Shorts PROVE ScaledOf(ps) \in Int /\ ps \in SUBSET Positions
  <2>1. ps \in SUBSET Positions
    BY DEF Shorts
  <2> QED
    <3>1. ScaledOf(ps) \in Nat
      BY <1>1, <2>1, ScaledTypes
    <3> QED
      BY <2>1, <3>1
<1> QED
  BY <1>3, <1>4, <1>5, <1>6 DEF FlowInv

(* A match moves one amount, the same from the layer and from the short    *)
(* position; nothing else moves any.                                       *)
LEMMA FlowStep == TypeOK /\ NInv /\ FlowInv /\ [Next]_vars => FlowInv'
<1> SUFFICES ASSUME TypeOK, NInv, FlowInv, [Next]_vars PROVE FlowInv'
  OBVIOUS
<1>1. TypeOK'
  BY TypeStep
<1>2. ASSUME UNCHANGED <<book, added, left, used, remaining>> PROVE FlowInv'
  BY <1>2 DEF FlowInv, Flow, FlowAt, Shorts, Longs, ScaledOf
<1>3. ASSUME NEW p \in Positions, AddLong(p) PROVE FlowInv'
  <2> DEFINE a == book[p].scaled
             l == layer
  <2>1. /\ l \in Seniorities /\ p \in Positions \ added /\ book[p].seniority = l /\ a \in Nat
        /\ added' = added \cup {p} /\ left' = [left EXCEPT ![l] = @ + a]
        /\ UNCHANGED <<book, used, remaining>>
    BY <1>3, FlowTypes DEF AddLong, LayerOf, Layers, Longs, TypeOK
  <2>2. \A ps \in SUBSET Shorts :
            SumFunctionOnSet(remaining', ps) + Flow(Seniorities, ps)' = ScaledOf(ps)'
    BY <2>1 DEF FlowInv, Flow, FlowAt, Shorts, Longs, ScaledOf
  <2>3. ASSUME NEW ls \in SUBSET Seniorities
        PROVE  SumFunctionOnSet(left', ls) + Flow(ls, Positions)'
                   = ScaledOf({q \in added : book[q].seniority \in ls})'
    <3> DEFINE before == {q \in added : book[q].seniority \in ls}
               after == {q \in added' : book[q].seniority \in ls}
               x == SumFunctionOnSet(left, ls)
               f == Flow(ls, Positions)
               y == SumFunctionOnSet(left', ls)
    <3>1. x + f = ScaledOf(before)
      BY DEF FlowInv
    <3>2. Flow(ls, Positions)' = f /\ ScaledOf({q \in added : book[q].seniority \in ls})' = ScaledOf(after)
      BY <2>1 DEF Flow, FlowAt, ScaledOf
    <3>3. y = IF l \in ls THEN x + a ELSE x
      <4>1. /\ IsFiniteSet(ls) /\ \A m \in ls : left[m] \in Int /\ left'[m] \in Int
            /\ \A m \in ls : m # l => left'[m] = left[m]
            /\ l \in ls => left'[l] = left[l] + a
        <5>1. left \in [Seniorities -> Nat] /\ left' \in [Seniorities -> Nat]
          BY <1>1 DEF TypeOK
        <5>2. IsFiniteSet(ls)
          BY FlowSums
        <5> QED
          BY <2>1, <5>1, <5>2
      <4>2. y = IF l \in ls THEN x + left'[l] - left[l] ELSE x
        BY <4>1, SumOneChange
      <4>3. x \in Int
        BY <4>1, SumIsInt
      <4> HIDE DEF x, y, a, l
      <4> QED
        BY <2>1, <4>1, <4>2, <4>3
    <3>4. ScaledOf(after) = IF l \in ls THEN a + ScaledOf(before) ELSE ScaledOf(before)
      <4>1. CASE l \notin ls
        <5>1. after = before
          BY <2>1, <4>1
        <5> QED
          BY <4>1, <5>1
      <4>2. CASE l \in ls
        <5>1. after = before \cup {p} /\ p \notin before /\ after \in SUBSET Positions
              /\ before \in SUBSET Positions
          BY <2>1, <4>2 DEF TypeOK, Longs
        <5> DEFINE scaled == [q \in Positions |-> book[q].scaled]
        <5>2. /\ IsFiniteSet(before) /\ scaled[p] = a
              /\ ScaledOf(before) = SumFunctionOnSet(scaled, before)
              /\ ScaledOf(after) = SumFunctionOnSet(scaled, after)
              /\ \A q \in after : scaled[q] \in Int
          <6>1. scaled[p] = a /\ \A q \in after : scaled[q] = book[q].scaled /\ book[q].scaled \in Nat
            BY <5>1, FlowTypes
          <6> HIDE DEF scaled, before, after, a
          <6>2. IsFiniteSet(before)
            BY <5>1, FlowSums
          <6> QED
            BY <6>1, <6>2 DEF ScaledOf, scaled
        <5> HIDE DEF scaled, before, after
        <5>3. SumFunctionOnSet(scaled, after) = scaled[p] + SumFunctionOnSet(scaled, before)
          BY <5>1, <5>2, SumOneIn
        <5> QED
          BY <4>2, <5>2, <5>3
      <4> QED
        BY <4>1, <4>2
    <3>5. x \in Nat /\ f \in Nat
      BY FlowSums
    <3> HIDE DEF before, after, x, f, y, a, l
    <3> QED
      BY <2>1, <3>1, <3>2, <3>3, <3>4, <3>5 DEF y
  <2> QED
    BY <2>2, <2>3, <2>1 DEF FlowInv, Shorts, Longs
<1>4. ASSUME NEW p \in Positions, ConsumeShort(p) PROVE FlowInv'
  <2> DEFINE c == IF left[layer] < remaining[p] THEN left[layer] ELSE remaining[p]
             l == layer
             at == <<l, p>>
  <2>1. /\ l \in Seniorities /\ p \in Shorts /\ c \in Nat
        /\ left' = [left EXCEPT ![l] = @ - c]
        /\ used' = [used EXCEPT ![l][p] = @ + c]
        /\ remaining' = [remaining EXCEPT ![p] = @ - c]
        /\ UNCHANGED <<book, added>>
    BY <1>4 DEF ConsumeShort, Offers, Layers, Longs, Exposure, TypeOK
  <2> HIDE DEF c, l
  <2>2. ASSUME NEW ls \in SUBSET Seniorities, NEW ps \in SUBSET Positions
        PROVE  Flow(ls, ps)' = IF l \in ls /\ p \in ps THEN Flow(ls, ps) + c ELSE Flow(ls, ps)
    <3>1. \A pair \in Seniorities \X Positions :
              /\ pair # at => FlowAt'[pair] = FlowAt[pair]
              /\ FlowAt'[at] = FlowAt[at] + c
      <4> TAKE pair \in Seniorities \X Positions
      <4>1. at \in Seniorities \X Positions /\ at[1] = l /\ at[2] = p
        BY <2>1
      <4>2. /\ FlowAt'[at] = used'[l][p] /\ FlowAt[at] = used[l][p]
            /\ FlowAt'[pair] = used'[pair[1]][pair[2]] /\ FlowAt[pair] = used[pair[1]][pair[2]]
        BY <4>1 DEF FlowAt
      <4>3. used'[l][p] = used[l][p] + c
        BY <2>1 DEF TypeOK
      <4>4. pair # at => pair[1] # l \/ pair[2] # p
        OBVIOUS
      <4>5. pair[1] # l \/ pair[2] # p => used'[pair[1]][pair[2]] = used[pair[1]][pair[2]]
        BY <2>1 DEF TypeOK
      <4> QED
        BY <4>2, <4>3, <4>4, <4>5
    <3>2. IsFiniteSet(ls \X ps) /\ \A pair \in ls \X ps : FlowAt[pair] \in Int /\ FlowAt'[pair] \in Int
      <4>1. IsFiniteSet(ls \X ps)
        BY FlowSums
      <4>2. \A pair \in ls \X ps : pair \in Seniorities \X Positions
        OBVIOUS
      <4>3. \A pair \in Seniorities \X Positions : FlowAt[pair] \in Nat
        BY FlowTypes
      <4>4. \A pair \in Seniorities \X Positions : FlowAt'[pair] \in Nat
        BY <1>1, FlowTypesNext
      <4> QED
        BY <4>1, <4>2, <4>3, <4>4
    <3>3. at \in ls \X ps <=> l \in ls /\ p \in ps
      OBVIOUS
    <3> HIDE DEF at
    <3> DEFINE x == SumFunctionOnSet(FlowAt, ls \X ps)
               y == SumFunctionOnSet(FlowAt', ls \X ps)
    <3>4. y = IF at \in ls \X ps THEN x + FlowAt'[at] - FlowAt[at] ELSE x
      <4>1. \A pair \in ls \X ps : pair # at => FlowAt'[pair] = FlowAt[pair]
        BY <3>1
      <4> QED
        BY <3>2, <4>1, SumOneChange
    <3>5. x \in Int
      BY <3>2, SumIsInt
    <3>6. at \in ls \X ps => FlowAt'[at] = FlowAt[at] + c /\ FlowAt[at] \in Int
      BY <3>1, <3>2
    <3>7. Flow(ls, ps) = x /\ Flow(ls, ps)' = y
      BY DEF Flow
    <3> HIDE DEF x, y
    <3>8. y = IF at \in ls \X ps THEN x + c ELSE x
      BY <2>1, <3>4, <3>5, <3>6
    <3> QED
      BY <3>3, <3>7, <3>8
  <2>3. ASSUME NEW ls \in SUBSET Seniorities
        PROVE  SumFunctionOnSet(left', ls) =
                   IF l \in ls THEN SumFunctionOnSet(left, ls) - c ELSE SumFunctionOnSet(left, ls)
    <3>1. /\ IsFiniteSet(ls) /\ \A m \in ls : left[m] \in Int /\ left'[m] \in Int
          /\ \A m \in ls : m # l => left'[m] = left[m]
          /\ l \in ls => left'[l] = left[l] - c
      <4>1. left \in [Seniorities -> Nat] /\ left' \in [Seniorities -> Nat]
        BY <1>1 DEF TypeOK
      <4>2. IsFiniteSet(ls)
        BY FlowSums
      <4> QED
        BY <2>1, <4>1, <4>2
    <3> DEFINE x == SumFunctionOnSet(left, ls)
               y == SumFunctionOnSet(left', ls)
    <3>2. (y = IF l \in ls THEN x + left'[l] - left[l] ELSE x) /\ x \in Int
      BY <3>1, SumOneChange, SumIsInt
    <3> HIDE DEF x, y
    <3>3. y = IF l \in ls THEN x - c ELSE x
      BY <2>1, <3>1, <3>2
    <3> QED
      BY <3>3 DEF x, y
  <2>4. ASSUME NEW ps \in SUBSET Positions
        PROVE  SumFunctionOnSet(remaining', ps) =
                   IF p \in ps THEN SumFunctionOnSet(remaining, ps) - c ELSE SumFunctionOnSet(remaining, ps)
    <3>1. /\ IsFiniteSet(ps) /\ \A q \in ps : remaining[q] \in Int /\ remaining'[q] \in Int
          /\ \A q \in ps : q # p => remaining'[q] = remaining[q]
          /\ p \in ps => remaining'[p] = remaining[p] - c
      <4>1. remaining \in [Positions -> Nat] /\ remaining' \in [Positions -> Nat]
        BY <1>1 DEF TypeOK
      <4>2. IsFiniteSet(ps)
        BY FlowSums
      <4>3. p \in ps => remaining'[p] = remaining[p] - c
        BY <2>1, <4>1
      <4> QED
        BY <2>1, <4>1, <4>2, <4>3
    <3> DEFINE x == SumFunctionOnSet(remaining, ps)
               y == SumFunctionOnSet(remaining', ps)
    <3>2. (y = IF p \in ps THEN x + remaining'[p] - remaining[p] ELSE x) /\ x \in Int
      BY <3>1, SumOneChange, SumIsInt
    <3> HIDE DEF x, y
    <3>3. y = IF p \in ps THEN x - c ELSE x
      BY <2>1, <3>1, <3>2
    <3> QED
      BY <3>3 DEF x, y
  <2>5. ASSUME NEW ls \in SUBSET Seniorities
        PROVE  SumFunctionOnSet(left', ls) + Flow(ls, Positions)'
                   = ScaledOf({q \in added : book[q].seniority \in ls})'
    <3> DEFINE x == SumFunctionOnSet(left, ls)
               f == Flow(ls, Positions)
    <3>1. x + f = ScaledOf({q \in added : book[q].seniority \in ls})
      BY DEF FlowInv
    <3>2. ScaledOf({q \in added : book[q].seniority \in ls})' = ScaledOf({q \in added : book[q].seniority \in ls})
      BY <2>1 DEF ScaledOf
    <3>3. x \in Nat /\ f \in Nat
      BY FlowSums
    <3>4. /\ SumFunctionOnSet(left', ls) = IF l \in ls THEN x - c ELSE x
          /\ Flow(ls, Positions)' = IF l \in ls THEN f + c ELSE f
      BY <2>2, <2>3
    <3> HIDE DEF x, f
    <3> QED
      BY <2>1, <3>1, <3>2, <3>3, <3>4
  <2>6. ASSUME NEW ps \in SUBSET Shorts
        PROVE  SumFunctionOnSet(remaining', ps) + Flow(Seniorities, ps)' = ScaledOf(ps)'
    <3> DEFINE x == SumFunctionOnSet(remaining, ps)
               f == Flow(Seniorities, ps)
    <3>0. ps \in SUBSET Positions
      BY DEF Shorts
    <3>1. x + f = ScaledOf(ps) /\ ScaledOf(ps)' = ScaledOf(ps)
      BY <2>1 DEF FlowInv, ScaledOf
    <3>2. x \in Nat /\ f \in Nat
      BY <3>0, FlowSums
    <3>3. /\ SumFunctionOnSet(remaining', ps) = IF p \in ps THEN x - c ELSE x
          /\ Flow(Seniorities, ps)' = IF p \in ps THEN f + c ELSE f
      BY <2>1, <2>2, <2>4, <3>0
    <3> HIDE DEF x, f
    <3> QED
      BY <2>1, <3>1, <3>2, <3>3
  <2> QED
    BY <2>1, <2>5, <2>6 DEF FlowInv, Shorts, Longs
<1> QED
  BY <1>2, <1>3, <1>4 DEF Next, OpenLayer, CloseLayer, Finished, vars

-----------------------------------------------------------------------------
(* Which short positions are used up when.  The layers come by rank, and a *)
(* layer turns to a more junior short position, or is given up, only when  *)
(* the short positions that come before are used up, from where on no      *)
(* later layer has anything of them.                                       *)
RankOf(p) == Rank[book[p].seniority]

Exhausted(l, p) ==
    remaining[p] = 0 /\ \A m \in Seniorities : Rank[m] > Rank[l] => used[m][p] = 0

GreedyInv ==
    /\ \A l \in Seniorities, p \in Positions : used[l][p] > 0 =>
        l \in netted \cup {layer} /\ p \in Shorts /\ RankOf(p) >= Rank[l]
    /\ \A l \in netted, m \in Layers \ netted : Rank[l] <= Rank[m]
    /\ layer # NoLayer => \A m \in Layers \ netted : Rank[layer] <= Rank[m]
    /\ \A l \in Seniorities, p \in Positions, q \in Shorts :
        used[l][p] > 0 /\ RankOf(q) >= Rank[l] /\ RankOf(q) < RankOf(p) => Exhausted(l, q)
    /\ \A l \in netted, q \in Shorts : left[l] > 0 /\ RankOf(q) >= Rank[l] => Exhausted(l, q)

(* Ranks are numbers, and every position and layer has one.                *)
LEMMA RanksAreNatural ==
    ASSUME TypeOK
    PROVE  /\ Rank \in [Seniorities -> Nat] /\ Layers \subseteq Seniorities
           /\ \A p \in Positions : book[p].seniority \in Seniorities /\ RankOf(p) \in Nat
           /\ Shorts \subseteq Positions /\ Longs \subseteq Positions
           /\ layer # NoLayer => layer \in Seniorities
           /\ netted \subseteq Seniorities
<1>1. \A p \in Positions : book[p].seniority \in Seniorities
  BY FlowTypes
<1> QED
  BY <1>1, RankAssumption DEF TypeOK, Layers, Longs, Shorts, RankOf

(* Nothing is taken by a layer that is not yet its turn.                   *)
LEMMA LaterTakesNothing ==
    ASSUME TypeOK, NInv, GreedyInv, layer # NoLayer, NEW p \in Positions, remaining[p] = 0
    PROVE  Exhausted(layer, p)
<1> SUFFICES ASSUME NEW m \in Seniorities, Rank[m] > Rank[layer], used[m][p] # 0 PROVE FALSE
  BY DEF Exhausted
<1>1. used[m][p] \in Nat
  BY DEF TypeOK
<1>2. m \in netted \cup {layer}
  BY <1>1 DEF GreedyInv
<1>3. layer \in Layers \ netted
  BY DEF TypeOK, NInv
<1>4. Rank[m] <= Rank[layer]
  BY <1>2, <1>3, RanksAreNatural DEF GreedyInv
<1>5. Rank[m] \in Nat /\ Rank[layer] \in Nat
  BY RanksAreNatural
<1> QED
  BY <1>4, <1>5

(* Each step keeps the order in which short positions are used up: the     *)
(* loop only passes one that is, or gives the layer up.                    *)
LEMMA GreedyStep == TypeOK /\ NInv /\ GreedyInv /\ [Next]_vars => GreedyInv'
<1> SUFFICES ASSUME TypeOK, NInv, GreedyInv, [Next]_vars PROVE GreedyInv'
  OBVIOUS
<1>1. ASSUME NEW l \in Seniorities, OpenLayer(l) PROVE GreedyInv'
  <2>1. \A m \in Layers \ netted : Rank[l] <= Rank[m]
    <3> TAKE m \in Layers \ netted
    <3>1. Rank[l] \in Nat /\ Rank[m] \in Nat
      BY RanksAreNatural
    <3>2. m = l \/ SeniorityBefore(Longs, l, m)
      BY <1>1 DEF OpenLayer
    <3> QED
      BY <3>1, <3>2 DEF SeniorityBefore
  <2>2. layer = NoLayer /\ layer' = l
        /\ UNCHANGED <<book, netted, left, used, remaining>>
    BY <1>1 DEF OpenLayer
  <2>3. NoLayer \notin Seniorities
    BY RankAssumption
  <2> QED
    BY <2>1, <2>2, <2>3 DEF GreedyInv, Exhausted, RankOf, Layers, Shorts, Longs
<1>2. ASSUME NEW p \in Positions, AddLong(p) PROVE GreedyInv'
  <2>1. UNCHANGED <<book, layer, netted, used, remaining>>
    BY <1>2 DEF AddLong
  <2>2. \A l \in netted : left'[l] = left[l]
    BY <1>2 DEF AddLong, NInv, TypeOK, Layers, Longs
  <2> QED
    BY <2>1, <2>2 DEF GreedyInv, Exhausted, RankOf, Layers, Shorts, Longs
<1>3. ASSUME NEW p \in Positions, ConsumeShort(p) PROVE GreedyInv'
  <2> DEFINE c == IF left[layer] < remaining[p] THEN left[layer] ELSE remaining[p]
  <2>1. /\ layer \in Seniorities /\ p \in Offers /\ layer \notin netted /\ layer # NoLayer
        /\ left[layer] > 0 /\ \A q \in Offers \ {p} : ShortBefore(p, q)
        /\ left' = [left EXCEPT ![layer] = @ - c]
        /\ used' = [used EXCEPT ![layer][p] = @ + c]
        /\ remaining' = [remaining EXCEPT ![p] = @ - c]
        /\ UNCHANGED <<book, layer, netted>>
    BY <1>3, RanksAreNatural DEF ConsumeShort, NInv
  <2>2. c \in Nat /\ (remaining[p] = 0 => c = 0)
    BY <2>1 DEF TypeOK
  <2> HIDE DEF c
  <2>3. \A l \in Seniorities, q \in Positions :
            /\ q # p \/ l # layer => used'[l][q] = used[l][q]
            /\ remaining[q] = 0 => remaining'[q] = 0 /\ used'[l][q] = used[l][q]
    <3> TAKE l \in Seniorities, q \in Positions
    <3>1. q # p \/ l # layer => used'[l][q] = used[l][q]
      BY <2>1 DEF TypeOK
    <3>2. q = p /\ l = layer => used'[l][q] = used[l][q] + c
      BY <2>1 DEF TypeOK
    <3>3. remaining'[q] = IF q = p THEN remaining[q] - c ELSE remaining[q]
      BY <2>1 DEF TypeOK
    <3>4. used[l][q] \in Nat /\ remaining[q] \in Nat
      BY DEF TypeOK
    <3>5. ASSUME remaining[q] = 0 PROVE remaining'[q] = 0 /\ used'[l][q] = used[l][q]
      <4>1. CASE q = p
        <5>1. c = 0
          BY <2>2, <3>5, <4>1
        <5> QED
          BY <3>1, <3>2, <3>3, <3>4, <3>5, <4>1, <5>1
      <4>2. CASE q # p
        BY <3>1, <3>3, <3>5, <4>2
      <4> QED
        BY <4>1, <4>2
    <3> QED
      BY <3>1, <3>5
  <2>4. ASSUME NEW l \in Seniorities, NEW q \in Positions, Exhausted(l, q) PROVE Exhausted(l, q)'
    BY <2>3, <2>4 DEF Exhausted
  <2>5. /\ Shorts' = Shorts /\ Layers' = Layers /\ \A q : RankOf(q)' = RankOf(q)
    BY <2>1 DEF Shorts, Longs, Layers, RankOf
  <2>6. p \in Shorts /\ RankOf(p) >= Rank[layer]
    BY <2>1 DEF Offers, ShortCanOffset, RankOf
  <2>7. ASSUME NEW q \in Shorts, RankOf(q) >= Rank[layer], RankOf(q) < RankOf(p)
        PROVE  Exhausted(layer, q)
    <3>1. q \in Positions /\ p \in Positions /\ RankOf(p) \in Nat /\ RankOf(q) \in Nat
      BY <2>6, RanksAreNatural
    <3>2. ~ ShortBefore(p, q) /\ q # p
      BY <2>7, <3>1 DEF ShortBefore, SeniorityBefore, RankOf
    <3>3. q \in tried
      BY <2>1, <2>7, <3>2 DEF Offers, ShortCanOffset, RankOf
    <3>4. left[layer] = 0 \/ remaining[q] = 0
      BY <2>1, <2>7, <3>3 DEF NInv, ShortCanOffset, RankOf
    <3>5. remaining[q] = 0
      BY <2>1, <3>4
    <3> QED
      BY <2>1, <3>1, <3>5, LaterTakesNothing
  <2>8. \A l \in netted : left'[l] = left[l]
    BY <2>1, RanksAreNatural DEF TypeOK
  <2>9. ASSUME NEW l \in Seniorities, NEW r \in Positions, used'[l][r] > 0
        PROVE  used[l][r] > 0 \/ (l = layer /\ r = p)
    BY <2>3, <2>9
  <2>10. \A l \in Seniorities, r \in Positions : used'[l][r] > 0 =>
            l \in netted \cup {layer} /\ r \in Shorts /\ RankOf(r) >= Rank[l]
    BY <2>6, <2>9 DEF GreedyInv
  <2>11. ASSUME NEW l \in Seniorities, NEW r \in Positions, NEW q \in Shorts,
                used'[l][r] > 0, RankOf(q) >= Rank[l], RankOf(q) < RankOf(r)
         PROVE  Exhausted(l, q)'
    <3>1. Exhausted(l, q)
      BY <2>7, <2>9, <2>11 DEF GreedyInv
    <3> QED
      BY <2>4, <3>1, RanksAreNatural
  <2>12. ASSUME NEW l \in netted, NEW q \in Shorts, left'[l] > 0, RankOf(q) >= Rank[l]
         PROVE  Exhausted(l, q)'
    <3>1. Exhausted(l, q)
      BY <2>8, <2>12 DEF GreedyInv
    <3> QED
      BY <2>4, <3>1, RanksAreNatural
  <2>13. /\ \A l \in netted, m \in Layers \ netted : Rank[l] <= Rank[m]
         /\ layer # NoLayer => \A m \in Layers \ netted : Rank[layer] <= Rank[m]
    BY DEF GreedyInv
  <2> QED
    BY <2>1, <2>5, <2>10, <2>11, <2>12, <2>13 DEF GreedyInv
<1>4. ASSUME CloseLayer PROVE GreedyInv'
  <2>1. /\ layer # NoLayer /\ netted' = netted \cup {layer} /\ layer' = NoLayer
        /\ left[layer] = 0 \/ Offers = {}
        /\ UNCHANGED <<book, left, used, remaining>>
    BY <1>4 DEF CloseLayer
  <2>2. ASSUME NEW q \in Shorts, left[layer] > 0, RankOf(q) >= Rank[layer]
        PROVE  Exhausted(layer, q)
    <3>1. q \in tried /\ left[layer] # 0
      BY <2>1, <2>2 DEF Offers, ShortCanOffset, RankOf
    <3>2. remaining[q] = 0
      BY <2>1, <2>2, <3>1 DEF NInv, ShortCanOffset, RankOf
    <3> QED
      BY <2>1, <3>2, LaterTakesNothing, RanksAreNatural
  <2>3. \A l \in netted', m \in Layers \ netted' : Rank[l] <= Rank[m]
    BY <2>1 DEF GreedyInv
  <2>4. \A l \in Seniorities : \A q : Exhausted(l, q)' = Exhausted(l, q) /\ RankOf(q)' = RankOf(q)
    BY <2>1 DEF Exhausted, RankOf
  <2>5. Shorts' = Shorts /\ Layers' = Layers
    BY <2>1 DEF Shorts, Longs, Layers
  <2>6. \A l \in Seniorities, p \in Positions : used[l][p] > 0 =>
            l \in netted' \cup {layer'} /\ p \in Shorts /\ RankOf(p) >= Rank[l]
    BY <2>1 DEF GreedyInv
  <2>7. \A l \in netted', q \in Shorts : left[l] > 0 /\ RankOf(q) >= Rank[l] => Exhausted(l, q)
    BY <2>1, <2>2 DEF GreedyInv
  <2>8. netted' \subseteq Seniorities
    BY <2>1, RanksAreNatural
  <2>9. \A l \in Seniorities, p \in Positions, q \in Shorts :
            used[l][p] > 0 /\ RankOf(q) >= Rank[l] /\ RankOf(q) < RankOf(p) => Exhausted(l, q)
    BY DEF GreedyInv
  <2> QED
    BY <2>1, <2>3, <2>4, <2>5, <2>6, <2>7, <2>8, <2>9 DEF GreedyInv
<1>5. ASSUME UNCHANGED vars PROVE GreedyInv'
  BY <1>5 DEF vars, GreedyInv, Exhausted, RankOf, Layers, Shorts, Longs
<1> QED
  BY <1>1, <1>2, <1>3, <1>4, <1>5 DEF Next, Finished

(* Of a flow, what counts is where something was taken.                    *)
LEMMA FlowOfPart ==
    ASSUME TypeOK, NEW ls \in SUBSET Seniorities, NEW ps \in SUBSET Positions,
           NEW ms \in SUBSET ls, NEW qs \in SUBSET ps
    PROVE  /\ Flow(ms, qs) <= Flow(ls, ps)
           /\ (\A l \in ls, p \in ps : used[l][p] > 0 => l \in ms /\ p \in qs)
                 => Flow(ms, qs) = Flow(ls, ps)
<1> DEFINE whole == ls \X ps
           part == ms \X qs
<1>1. IsFiniteSet(whole)
  BY FlowSums
<1>2. part \in SUBSET whole
  OBVIOUS
<1>3. \A pair \in whole : FlowAt[pair] \in Nat
  <2>1. \A pair \in whole : pair \in Seniorities \X Positions
    OBVIOUS
  <2> QED
    BY <2>1, FlowTypes
<1>4. ASSUME \A l \in ls, p \in ps : used[l][p] > 0 => l \in ms /\ p \in qs
      PROVE  \A pair \in whole \ part : FlowAt[pair] = 0
  <2> TAKE pair \in whole \ part
  <2>1. pair[1] \in ls /\ pair[2] \in ps /\ pair \in Seniorities \X Positions
    OBVIOUS
  <2>2. ~ (pair[1] \in ms /\ pair[2] \in qs)
    BY <2>1
  <2>3. FlowAt[pair] = used[pair[1]][pair[2]] /\ FlowAt[pair] \in Nat
    BY <2>1, FlowTypes
  <2> QED
    BY <1>4, <2>1, <2>2, <2>3
<1> HIDE DEF whole, part
<1>5. /\ SumFunctionOnSet(FlowAt, part) <= SumFunctionOnSet(FlowAt, whole)
      /\ (\A pair \in whole \ part : FlowAt[pair] = 0)
            => SumFunctionOnSet(FlowAt, part) = SumFunctionOnSet(FlowAt, whole)
  BY <1>1, <1>2, <1>3, SumOfPart
<1> QED
  BY <1>4, <1>5 DEF Flow, whole, part

(* What two disjoint groups of layers took adds up.                        *)
LEMMA FlowOfBoth ==
    ASSUME TypeOK, NEW ls \in SUBSET Seniorities, NEW ms \in SUBSET Seniorities, ls \cap ms = {},
           NEW ps \in SUBSET Positions
    PROVE  Flow(ls \cup ms, ps) = Flow(ls, ps) + Flow(ms, ps)
<1> DEFINE one == ls \X ps
           other == ms \X ps
<1>1. IsFiniteSet(one) /\ IsFiniteSet(other)
  BY FlowSums
<1>2. one \cap other = {} /\ (ls \cup ms) \X ps = one \cup other
  OBVIOUS
<1>3. \A pair \in one \cup other : FlowAt[pair] \in Int
  <2>1. \A pair \in one \cup other : pair \in Seniorities \X Positions
    OBVIOUS
  <2>2. \A pair \in Seniorities \X Positions : FlowAt[pair] \in Nat
    BY FlowTypes
  <2> QED
    BY <2>1, <2>2
<1>4. SumFunctionOnSet(FlowAt, one \cup other) = SumFunctionOnSet(FlowAt, one) + SumFunctionOnSet(FlowAt, other)
  <2> HIDE DEF one, other
  <2> QED
    BY <1>1, <1>2, <1>3, SumUnion
<1> QED
  BY <1>2, <1>4 DEF Flow

(* What was taken by layers that are done.                                 *)
LEMMA FlowOfLayers ==
    ASSUME TypeOK, NInv, FlowInv, Done, NEW ls \in SUBSET Layers
    PROVE  /\ SumFunctionOnSet(left, ls) + Flow(ls, Positions)
                  = ScaledOf({p \in Longs : book[p].seniority \in ls})
           /\ (\A l \in ls : left[l] = 0)
                 => Flow(ls, Positions) = ScaledOf({p \in Longs : book[p].seniority \in ls})
<1>1. ls \in SUBSET Seniorities
  BY RanksAreNatural
<1>2. {p \in added : book[p].seniority \in ls} = {p \in Longs : book[p].seniority \in ls}
  BY DEF Done, NInv, LayerOf, Layers, TypeOK
<1>3. SumFunctionOnSet(left, ls) + Flow(ls, Positions)
          = ScaledOf({p \in Longs : book[p].seniority \in ls})
  BY <1>1, <1>2 DEF FlowInv
<1>4. IsFiniteSet(ls) /\ Flow(ls, Positions) \in Nat
  BY <1>1, FlowSums
<1>5. (\A l \in ls : left[l] = 0) => SumFunctionOnSet(left, ls) = 0
  BY <1>4, SumZero
<1> QED
  BY <1>3, <1>4, <1>5

(* What was taken of short positions that are used up.                     *)
LEMMA FlowOfShorts ==
    ASSUME TypeOK, FlowInv, NEW ps \in SUBSET Shorts
    PROVE  /\ Flow(Seniorities, ps) <= ScaledOf(ps)
           /\ (\A p \in ps : remaining[p] = 0) => Flow(Seniorities, ps) = ScaledOf(ps)
<1>1. ps \in SUBSET Positions
  BY DEF Shorts
<1>2. /\ IsFiniteSet(ps) /\ SumFunctionOnSet(remaining, ps) \in Nat
      /\ Flow(Seniorities, ps) \in Nat
  BY <1>1, FlowSums
<1>3. SumFunctionOnSet(remaining, ps) + Flow(Seniorities, ps) = ScaledOf(ps)
  BY DEF FlowInv
<1>4. (\A p \in ps : remaining[p] = 0) => SumFunctionOnSet(remaining, ps) = 0
  BY <1>2, SumZero
<1> QED
  BY <1>2, <1>3, <1>4

(* When the netting is done no cut is below what was offset: the layers of *)
(* a rank have used up themselves or the short positions they reach.       *)
LEMMA NettingIsMaximal == TypeOK /\ NInv /\ FlowInv /\ GreedyInv => OffsetIsMaximal
<1> SUFFICES ASSUME TypeOK, NInv, FlowInv, GreedyInv, Done,
                    NEW r \in {Rank[l] : l \in Seniorities}
             PROVE  \/ Offset(r) = ScaledOf(LongsDownTo(r))
                    \/ \E t \in 0 .. r : Offset(r) = ScaledOf(LongsAbove(t)) + ScaledOf(ShortsFrom(t))
  BY DEF OffsetIsMaximal
<1> DEFINE down == {l \in Layers : Rank[l] <= r}
<1>1. r \in Nat /\ down \in SUBSET Layers /\ down \in SUBSET Seniorities
  BY RanksAreNatural
<1>2. LongsDownTo(r) = {p \in Longs : book[p].seniority \in down}
  BY DEF LongsDownTo, Layers
<1>3. SumFunctionOnSet(left, down) + Flow(down, Positions) = ScaledOf(LongsDownTo(r))
  BY <1>1, <1>2, FlowOfLayers
<1>4. SumFunctionOnSet(left, down) \in Nat /\ Flow(down, Positions) \in Nat
  BY <1>1, FlowSums
<1>5. Offset(r) = Flow(down, Positions)
  <2>1. Offset(r) = ScaledOf(LongsDownTo(r)) - SumFunctionOnSet(left, down)
    BY DEF Offset
  <2> QED
    BY <1>3, <1>4, <2>1
<1>6. CASE \A l \in down : left[l] = 0
  <2>1. Flow(down, Positions) = ScaledOf(LongsDownTo(r))
    BY <1>1, <1>2, <1>6, FlowOfLayers
  <2> QED
    BY <1>5, <2>1
<1>7. CASE \E l \in down : left[l] # 0
  <2> DEFINE UsedUp(t) == \A p \in Shorts : RankOf(p) >= t =>
                 remaining[p] = 0 /\ \A m \in Seniorities : Rank[m] > r => used[m][p] = 0
             T == {t \in Nat : t <= r /\ UsedUp(t)}
  <2>1. ASSUME NEW l \in down, left[l] # 0 PROVE Rank[l] \in T
    <3>1. l \in netted /\ left[l] > 0 /\ Rank[l] \in Nat /\ Rank[l] <= r
      BY <1>1, <2>1, RanksAreNatural DEF Done, TypeOK
    <3>2. \A p \in Shorts : RankOf(p) >= Rank[l] => Exhausted(l, p)
      BY <3>1 DEF GreedyInv
    <3>3. \A m \in Seniorities : Rank[m] > r => Rank[m] > Rank[l]
      BY <1>1, <3>1, RanksAreNatural
    <3> QED
      BY <3>1, <3>2, <3>3 DEF Exhausted
  <2>2. PICK t \in T : \A u \in T : t <= u
    <3>1. T \in SUBSET Nat /\ T # {}
      BY <1>7, <2>1
    <3> HIDE DEF T
    <3> QED
      BY <3>1, NatMinimum
  <2> DEFINE above == {l \in down : Rank[l] < t}
             below == {l \in down : Rank[l] >= t}
             from == ShortsFrom(t)
  <2>3. t \in Nat /\ t <= r /\ UsedUp(t)
    OBVIOUS
  <2>4. \A l \in above : left[l] = 0
    <3> SUFFICES ASSUME NEW l \in above, left[l] # 0 PROVE FALSE
      OBVIOUS
    <3>1. Rank[l] \in T /\ Rank[l] < t /\ Rank[l] \in Nat
      BY <2>1
    <3> HIDE DEF T
    <3> QED
      BY <2>2, <2>3, <3>1
  <2>5. \A l \in above, p \in from : ~ (used[l][p] > 0)
    <3> SUFFICES ASSUME NEW l \in above, NEW p \in from, used[l][p] > 0 PROVE FALSE
      OBVIOUS
    <3>1. /\ Rank[l] \in Nat /\ Rank[l] < t /\ p \in Shorts /\ p \in Positions /\ RankOf(p) >= t
          /\ RankOf(p) \in Nat /\ l \in Seniorities
      BY <1>1, RanksAreNatural DEF ShortsFrom, RankOf
    <3>2. ASSUME NEW q \in Shorts, RankOf(q) >= Rank[l], ~ (RankOf(q) >= t) PROVE Exhausted(l, q)
      <4>1. RankOf(q) \in Nat
        BY RanksAreNatural
      <4>2. RankOf(q) < RankOf(p)
        BY <2>3, <3>1, <3>2, <4>1
      <4> QED
        BY <3>1, <3>2, <4>2 DEF GreedyInv
    <3>3. \A m \in Seniorities : Rank[m] > r => Rank[m] > Rank[l]
      BY <1>1, <2>3, <3>1, RanksAreNatural
    <3>4. UsedUp(Rank[l])
      BY <2>3, <3>2, <3>3 DEF Exhausted
    <3>5. Rank[l] \in T
      BY <1>1, <2>3, <3>1, <3>4
    <3> HIDE DEF T
    <3> QED
      BY <2>2, <2>3, <3>1, <3>5
  <2>6. Flow(above, Positions) = ScaledOf(LongsAbove(t))
    <3>1. LongsAbove(t) = {p \in Longs : book[p].seniority \in above}
      BY <1>1, <2>3, RanksAreNatural DEF LongsAbove, Layers
    <3>2. above \in SUBSET Layers
      OBVIOUS
    <3> HIDE DEF above
    <3> QED
      BY <2>4, <3>1, <3>2, FlowOfLayers
  <2>7. Flow(down, Positions) = Flow(above, Positions) + Flow(below, Positions)
    <3>1. /\ above \in SUBSET Seniorities /\ below \in SUBSET Seniorities
          /\ above \cap below = {} /\ above \cup below = down
      BY <1>1, <2>3, RanksAreNatural
    <3> HIDE DEF above, below, down
    <3> QED
      BY <3>1, FlowOfBoth
  <2>8. from \in SUBSET Shorts /\ from \in SUBSET Positions /\ below \in SUBSET Seniorities
    BY <1>1, RanksAreNatural DEF ShortsFrom
  <2>9. Flow(below, from) = Flow(below, Positions)
    <3>1. \A l \in below, p \in Positions : used[l][p] > 0 => l \in below /\ p \in from
      <4> TAKE l \in below, p \in Positions
      <4>1. used[l][p] > 0 => p \in Shorts /\ RankOf(p) >= Rank[l]
        BY <2>8 DEF GreedyInv
      <4>2. Rank[l] \in Nat /\ RankOf(p) \in Nat /\ Rank[l] >= t
        BY <2>8, RanksAreNatural
      <4> QED
        BY <2>3, <4>1, <4>2 DEF ShortsFrom, RankOf
    <3> HIDE DEF below, from
    <3> QED
      BY <2>8, <3>1, FlowOfPart
  <2>10. Flow(below, from) = Flow(Seniorities, from)
    <3>1. \A l \in Seniorities, p \in from : used[l][p] > 0 => l \in below /\ p \in from
      <4> TAKE l \in Seniorities, p \in from
      <4> HAVE used[l][p] > 0
      <4>1. l \in Layers
        <5>1. l \in netted \cup {layer} /\ l # NoLayer
          BY <2>8, RankAssumption DEF GreedyInv
        <5> QED
          BY <5>1 DEF TypeOK
      <4>2. ~ (Rank[l] > r)
        BY <2>3, <2>8 DEF ShortsFrom, RankOf
      <4>3. Rank[l] \in Nat
        BY RanksAreNatural
      <4>4. l \in down
        BY <1>1, <4>1, <4>2, <4>3
      <4>5. l \notin above
        BY <2>5
      <4> QED
        BY <2>3, <4>3, <4>4, <4>5
    <3> HIDE DEF below, from
    <3> QED
      BY <2>8, <3>1, FlowOfPart
  <2>11. Flow(Seniorities, from) = ScaledOf(from)
    <3>1. \A p \in from : remaining[p] = 0
      BY <2>3 DEF ShortsFrom, RankOf
    <3> HIDE DEF from
    <3> QED
      BY <2>8, <3>1, FlowOfShorts
  <2>12. Offset(r) = ScaledOf(LongsAbove(t)) + ScaledOf(ShortsFrom(t)) /\ t \in 0 .. r
    BY <1>1, <1>5, <2>3, <2>6, <2>7, <2>9, <2>10, <2>11
  <2> QED
    BY <2>12
<1> QED
  BY <1>6, <1>7

(* At the start no layer has begun and none has taken anything.            *)
LEMMA GreedyInit == Init => GreedyInv
  BY RankAssumption DEF Init, NothingNetted, GreedyInv

(* The layers down to any rank are offset as far as any netting that the   *)
(* seniority rule permits could offset them.                               *)
THEOREM NettingIsBest == Spec => []OffsetIsMaximal
<1> DEFINE Inv == TypeOK /\ NInv /\ FlowInv /\ GreedyInv
<1>1. Init => Inv
  BY InitTypeOK, InitNInv, FlowInit, GreedyInit
<1>2. Inv /\ [Next]_vars => Inv'
  BY TypeStep, NStep, FlowStep, GreedyStep
<1>3. Inv => OffsetIsMaximal
  BY NettingIsMaximal
<1> QED
  BY <1>1, <1>2, <1>3, PTL DEF Spec

-----------------------------------------------------------------------------
(* The records of a netting that is done.                                  *)
LongRecords == {LongRecord(l) : l \in {m \in Layers : left[m] > 0}}
ShortRecords == {ShortRecord(m) : m \in {n \in Seniorities : ResidualOf(n) # {}}}

(* The records are of the two directions, apart from each other.           *)
LEMMA RecordsByDirection ==
    /\ NetRecords = LongRecords \cup ShortRecords /\ LongRecords \cap ShortRecords = {}
    /\ LongRecords = {r \in NetRecords : r.direction = "LONG"}
    /\ ShortRecords = {r \in NetRecords : r.direction = "SHORT"}
<1>1. NetRecords = LongRecords \cup ShortRecords
  BY DEF NetRecords, LongRecords, ShortRecords
<1>2. \A r \in LongRecords : r.direction = "LONG"
  BY DEF LongRecords, LongRecord
<1>3. \A r \in ShortRecords : r.direction = "SHORT"
  BY DEF ShortRecords, ShortRecord
<1> QED
  BY <1>1, <1>2, <1>3

(* The long records have what the layers are left with.                    *)
LEMMA LongRecordsSum ==
    ASSUME TypeOK, NEW w, \A r \in LongRecords : w[r] = r.amount
    PROVE  IsFiniteSet(LongRecords) /\ SumFunctionOnSet(w, LongRecords) = SumFunctionOnSet(left, Layers)
<1> DEFINE some == {m \in Layers : left[m] > 0}
           f == [l \in some |-> LongRecord(l)]
<1>1. /\ IsFiniteSet(Layers) /\ \A l \in Layers : left[l] \in Nat
      /\ some \in SUBSET Layers /\ IsFiniteSet(some) /\ \A l \in Layers \ some : left[l] = 0
  <2>1. Layers \in SUBSET Seniorities
    BY RanksAreNatural
  <2>2. IsFiniteSet(Layers) /\ \A l \in Layers : left[l] \in Nat
    BY <2>1, FlowSums DEF TypeOK
  <2>3. some \in SUBSET Layers /\ \A l \in Layers \ some : left[l] = 0
    BY <2>2
  <2> HIDE DEF some
  <2>4. IsFiniteSet(some)
    BY <2>2, <2>3, FS_Subset
  <2> QED
    BY <2>2, <2>3, <2>4
<1>2. LongRecords = {f[l] : l \in some}
  BY DEF LongRecords
<1>3. \A l \in some : f[l].seniority = l /\ w[f[l]] = left[l] /\ left[l] \in Int
  <2> TAKE l \in some
  <2>1. f[l] \in LongRecords /\ f[l].amount = left[l] /\ f[l].seniority = l
    BY <1>2 DEF LongRecord
  <2> QED
    BY <1>1, <2>1
<1> HIDE DEF some, f
<1>4. SumFunctionOnSet(w, LongRecords) = SumFunctionOnSet(left, some)
  <2>1. \A l, m \in some : f[l] = f[m] => l = m
    BY <1>3
  <2>2. \A l \in some : left[l] \in Int /\ w[f[l]] = left[l]
    BY <1>3
  <2>3. SumFunctionOnSet(w, {f[l] : l \in some}) = SumFunctionOnSet(left, some)
    BY <1>1, <2>1, <2>2, SumOfImage
  <2> QED
    BY <1>2, <2>3
<1>5. SumFunctionOnSet(left, some) = SumFunctionOnSet(left, Layers)
  BY <1>1, SumOfPart
<1>6. IsFiniteSet(LongRecords)
  BY <1>1, <1>2, ImageIsFinite
<1> QED
  BY <1>4, <1>5, <1>6

(* The short records have what is left of the short positions.             *)
LEMMA ShortRecordsSum ==
    ASSUME TypeOK, NEW w, \A r \in ShortRecords : w[r] = r.amount
    PROVE  /\ IsFiniteSet(ShortRecords)
           /\ \A r \in ShortRecords : r.amount \in Nat
           /\ SumFunctionOnSet(w, ShortRecords) = SumFunctionOnSet(remaining, Shorts)
<1> DEFINE some == {m \in Seniorities : ResidualOf(m) # {}}
           rest == {p \in Shorts : remaining[p] > 0}
           f == [m \in some |-> ShortRecord(m)]
           v == [m \in some |-> SumFunctionOnSet(remaining, ResidualOf(m))]
           part == [m \in some |-> ResidualOf(m)]
<1>1. /\ Shorts \in SUBSET Positions /\ IsFiniteSet(Shorts)
      /\ \A p \in Shorts : remaining[p] \in Nat /\ book[p].seniority \in Seniorities
  <2>1. Shorts \in SUBSET Positions
    BY RanksAreNatural
  <2>2. IsFiniteSet(Shorts)
    BY <2>1, FlowSums
  <2> QED
    BY <2>1, <2>2, RanksAreNatural DEF TypeOK
<1>2. /\ rest \in SUBSET Shorts /\ IsFiniteSet(rest) /\ \A p \in Shorts \ rest : remaining[p] = 0
      /\ \A p \in rest : remaining[p] \in Nat
  <2>1. rest \in SUBSET Shorts /\ \A p \in Shorts \ rest : remaining[p] = 0
    BY <1>1
  <2>2. IsFiniteSet(rest)
    BY <1>1, <2>1, FS_Subset
  <2> QED
    BY <1>1, <2>1, <2>2
<1>3. some \in SUBSET Seniorities /\ IsFiniteSet(some)
  <2>1. some \in SUBSET Seniorities
    OBVIOUS
  <2> HIDE DEF some
  <2> QED
    BY <2>1, FlowSums
<1>4. /\ \A m \in some : part[m] \in SUBSET rest
      /\ \A m, n \in some : m # n => part[m] \cap part[n] = {}
      /\ \A p \in rest : \E m \in some : p \in part[m]
  <2>1. \A p \in rest : p \in ResidualOf(book[p].seniority) /\ book[p].seniority \in some
    BY <1>1 DEF ResidualOf
  <2> QED
    BY <2>1 DEF ResidualOf
<1>5. \A m \in some : v[m] \in Nat /\ v[m] = SumFunctionOnSet(remaining, part[m])
  <2> SUFFICES ASSUME NEW m \in some
               PROVE  v[m] \in Nat /\ v[m] = SumFunctionOnSet(remaining, part[m])
    OBVIOUS
  <2>1. v[m] = SumFunctionOnSet(remaining, part[m])
    OBVIOUS
  <2>2. IsFiniteSet(part[m]) /\ \A p \in part[m] : remaining[p] \in Nat
    BY <1>2, <1>4, FS_Subset
  <2> QED
    BY <2>1, <2>2, SumIsNatural
<1>6. ShortRecords = {f[m] : m \in some}
  BY DEF ShortRecords
<1>7. \A m \in some : f[m].seniority = m /\ f[m].amount = v[m] /\ w[f[m]] = v[m]
  <2> TAKE m \in some
  <2>1. f[m] \in ShortRecords /\ f[m].amount = v[m] /\ f[m].seniority = m
    BY <1>6 DEF ShortRecord
  <2> QED
    BY <2>1
<1> HIDE DEF some, rest, f, v, part
<1>8. SumFunctionOnSet(w, {f[m] : m \in some}) = SumFunctionOnSet(v, some)
  <2>1. \A l, m \in some : f[l] = f[m] => l = m
    BY <1>7
  <2>2. \A m \in some : v[m] \in Int /\ w[f[m]] = v[m]
    <3> TAKE m \in some
    <3>1. v[m] \in Nat
      BY <1>5
    <3> QED
      BY <1>7, <3>1
  <2> QED
    BY <1>3, <2>1, <2>2, SumOfImage
<1>9. SumFunctionOnSet(v, some) = SumFunctionOnSet(remaining, rest)
  <2>1. \A p \in rest : remaining[p] \in Int
    BY <1>2
  <2>2. \A m \in some : v[m] = SumFunctionOnSet(remaining, part[m])
    BY <1>5
  <2> QED
    BY <1>2, <1>3, <1>4, <2>1, <2>2, SumOfParts
<1>10. SumFunctionOnSet(remaining, rest) = SumFunctionOnSet(remaining, Shorts)
  BY <1>1, <1>2, SumOfPart
<1>11. IsFiniteSet(ShortRecords)
  BY <1>3, <1>6, ImageIsFinite
<1>12. \A r \in ShortRecords : r.amount \in Nat
  <2> SUFFICES ASSUME NEW m \in some PROVE f[m].amount \in Nat
    BY <1>6
  <2> QED
    BY <1>5, <1>7
<1> QED
  BY <1>6, <1>8, <1>9, <1>10, <1>11, <1>12

(* What is left on either side is what there was without what was offset.  *)
LEMMA WhatIsLeft ==
    ASSUME TypeOK, NInv, FlowInv, GreedyInv, Done
    PROVE  /\ Flow(Seniorities, Positions) \in Nat
           /\ SumFunctionOnSet(left, Layers) \in Nat /\ SumFunctionOnSet(remaining, Shorts) \in Nat
           /\ SumFunctionOnSet(left, Layers) + Flow(Seniorities, Positions) = ScaledOf(Longs)
           /\ SumFunctionOnSet(remaining, Shorts) + Flow(Seniorities, Positions) = ScaledOf(Shorts)
<1>1. Layers \in SUBSET Seniorities /\ Shorts \in SUBSET Positions
  BY RanksAreNatural
<1>2. ASSUME NEW l \in Seniorities, NEW p \in Positions, used[l][p] > 0
      PROVE  l \in Layers /\ p \in Shorts
  <2>1. l \in netted \cup {layer} /\ p \in Shorts /\ l # NoLayer
    BY <1>2, RankAssumption DEF GreedyInv
  <2> QED
    BY <2>1 DEF TypeOK
<1>3. Flow(Layers, Positions) = Flow(Seniorities, Positions)
  BY <1>1, <1>2, FlowOfPart
<1>4. Flow(Seniorities, Shorts) = Flow(Seniorities, Positions)
  BY <1>1, <1>2, FlowOfPart
<1>5. {p \in Longs : book[p].seniority \in Layers} = Longs
  BY DEF Layers
<1>6. SumFunctionOnSet(left, Layers) + Flow(Layers, Positions) = ScaledOf(Longs)
  BY <1>5, FlowOfLayers
<1>7. SumFunctionOnSet(remaining, Shorts) + Flow(Seniorities, Shorts) = ScaledOf(Shorts)
  BY DEF FlowInv
<1>8. /\ Flow(Seniorities, Positions) \in Nat
      /\ SumFunctionOnSet(left, Layers) \in Nat /\ SumFunctionOnSet(remaining, Shorts) \in Nat
  BY <1>1, FlowSums
<1> QED
  BY <1>3, <1>4, <1>6, <1>7, <1>8

(* The records of a netting that is done add up to the long positions less *)
(* the short ones.                                                         *)
LEMMA SignedSum ==
    ASSUME TypeOK, NInv, FlowInv, GreedyInv, Done
    PROVE  SumFunction([r \in NetRecords |-> Signed(r)]) = ScaledOf(Longs) - ScaledOf(Shorts)
<1> DEFINE w == [r \in NetRecords |-> Signed(r)]
           a == [r \in ShortRecords |-> r.amount]
           total == SumFunctionOnSet(w, NetRecords)
           longs == SumFunctionOnSet(left, Layers)
           shorts == SumFunctionOnSet(remaining, Shorts)
<1>1. SumFunction(w) = total
  BY DEF SumFunction
<1>2. \A r \in LongRecords : w[r] = r.amount
  BY RecordsByDirection DEF Signed
<1>3. \A r \in ShortRecords : w[r] = - r.amount /\ a[r] = r.amount
  BY RecordsByDirection DEF Signed
<1>4. IsFiniteSet(LongRecords) /\ SumFunctionOnSet(w, LongRecords) = longs
  BY <1>2, LongRecordsSum
<1>5. /\ IsFiniteSet(ShortRecords) /\ \A r \in ShortRecords : r.amount \in Nat
      /\ SumFunctionOnSet(a, ShortRecords) = shorts
  BY <1>3, ShortRecordsSum
<1>6. \A r \in LongRecords : r.amount \in Nat
  BY DEF LongRecords, LongRecord, TypeOK, Layers, Longs, Exposure
<1> HIDE DEF w, a
<1>7. SumFunctionOnSet(w, ShortRecords) = - shorts
  <2>1. shorts \in Nat
    BY WhatIsLeft
  <2>2. \A r \in ShortRecords : a[r] \in Int /\ w[r] = a[r] * (-1)
    BY <1>3, <1>5
  <2>3. SumFunctionOnSet(w, ShortRecords) = SumFunctionOnSet(a, ShortRecords) * (-1)
    BY <1>5, <2>2, SumTimes
  <2> HIDE DEF shorts
  <2> QED
    BY <1>5, <2>1, <2>3
<1>8. total = longs + (- shorts)
  <2>1. \A r \in LongRecords \cup ShortRecords : w[r] \in Int
    BY <1>2, <1>3, <1>5, <1>6
  <2>2. SumFunctionOnSet(w, LongRecords \cup ShortRecords)
            = SumFunctionOnSet(w, LongRecords) + SumFunctionOnSet(w, ShortRecords)
    BY <1>4, <1>5, <2>1, RecordsByDirection, SumUnion
  <2> QED
    BY <1>4, <1>7, <2>2, RecordsByDirection
<1> DEFINE offset == Flow(Seniorities, Positions)
<1>9. longs + offset = ScaledOf(Longs) /\ shorts + offset = ScaledOf(Shorts)
      /\ longs \in Nat /\ shorts \in Nat /\ offset \in Nat
  BY WhatIsLeft
<1> HIDE DEF total, longs, shorts, offset
<1>10. total = ScaledOf(Longs) - ScaledOf(Shorts)
  BY <1>8, <1>9
<1> QED
  BY <1>1, <1>10 DEF w

-----------------------------------------------------------------------------
(* The gross amounts.  All scaled amounts are whole numbers of units, and  *)
(* a short position has the same gross amount in each of its units, so     *)
(* that what is taken of it and what is left are in proportion.            *)
Whole(n) == \E i \in Int : n = i * Unit

Proportional(p) ==
    \E k, s, j \in Int :
        /\ book[p].scaled = s * Unit /\ book[p].gross = k * s
        /\ remaining[p] = j * Unit /\ remainingGross[p] = k * j

GrossInv ==
    /\ book \in Books /\ \A l \in Seniorities : Whole(left[l])
    /\ \A p \in Shorts : Proportional(p) \/ (book[p].scaled = 0 /\ remaining[p] = 0)

(* A division without remainder undoes the product.                        *)
LEMMA ExactQuotient == \A a, b \in Int : b > 0 => (a * b) \div b = a
  OBVIOUS

(* A number without remainder is a multiple.                               *)
LEMMA WholeOfRest ==
    ASSUME NEW a \in Int, NEW b \in Int, b > 0, a % b = 0
    PROVE  \E i \in Int : a = i * b
<1>1. a = (a \div b) * b /\ a \div b \in Int
  OBVIOUS
<1> QED
  BY <1>1

(* Equal multiples are of equal numbers.                                   *)
LEMMA Cancel == \A a, b, u \in Int : u > 0 /\ a * u = b * u => a = b
  OBVIOUS

(* Products commute, associate and distribute.                             *)
LEMMA Regroup == \A a, b, c \in Int : a * b \in Int /\ a * b = b * a /\ (a * b) * c = a * (b * c)
                                      /\ (a - b) * c = a * c - b * c /\ (a + b) * c = a * c + b * c
                                      /\ c * (a - b) = c * a - c * b
  OBVIOUS

(* The units of a position.                                                *)
LEMMA UnitsOfPosition ==
    ASSUME NEW b \in Books, NEW p \in Positions
    PROVE  /\ Whole(b[p].scaled)
           /\ b[p].scaled = 0 \/ \E k, s \in Int : b[p].scaled = s * Unit /\ b[p].gross = k * s
<1>1. b[p].scaled \in Nat /\ b[p].gross \in Nat /\ Unit \in Int /\ Unit > 0
  BY BooksAssumption DEF Exposure
<1>2. CASE b[p].scaled = 0
  <2>1. 0 = 0 * Unit
    BY <1>1
  <2> QED
    BY <1>2, <2>1 DEF Whole
<1>3. CASE b[p].scaled > 0
  <2>1. b[p].scaled % Unit = 0 /\ (b[p].gross * Unit) % b[p].scaled = 0
    BY <1>3, BooksAssumption
  <2> DEFINE scaled == b[p].scaled
             product == b[p].gross * Unit
  <2>2. scaled \in Int /\ scaled > 0 /\ product \in Int /\ scaled % Unit = 0 /\ product % scaled = 0
    BY <1>1, <1>3, <2>1, Regroup
  <2> HIDE DEF scaled, product
  <2>3. PICK s \in Int : scaled = s * Unit
    BY <1>1, <2>2, WholeOfRest
  <2>4. PICK k \in Int : product = k * scaled
    BY <1>1, <2>2, WholeOfRest
  <2>5. b[p].gross * Unit = (k * s) * Unit /\ k * s \in Int
    <3>1. product = k * (s * Unit)
      BY <2>3, <2>4
    <3>2. k * s \in Int /\ (k * s) * Unit = k * (s * Unit)
      BY <1>1, Regroup
    <3> QED
      BY <3>1, <3>2, Zenon DEF product
  <2>6. b[p].gross = k * s
    <3> DEFINE g == b[p].gross
               m == k * s
    <3>1. g \in Int /\ m \in Int /\ g * Unit = m * Unit
      BY <1>1, <2>5
    <3> HIDE DEF g, m
    <3>2. g = m
      BY <1>1, <3>1, Cancel
    <3> QED
      BY <3>2 DEF g, m
  <2> QED
    BY <2>3, <2>6 DEF Whole, scaled
<1> QED
  BY <1>1, <1>2, <1>3

(* At the start what is left of a short position is all of it.             *)
LEMMA GrossInit == Init => GrossInv
<1> SUFFICES ASSUME Init PROVE GrossInv
  OBVIOUS
<1>1. book \in Books /\ Unit \in Int
  BY BooksAssumption DEF Init
<1>2. ASSUME NEW l \in Seniorities PROVE Whole(left[l])
  <2>1. left[l] = 0 /\ 0 = 0 * Unit
    BY <1>1 DEF Init, NothingNetted
  <2> QED
    BY <2>1 DEF Whole
<1>3. ASSUME NEW p \in Shorts PROVE Proportional(p) \/ (book[p].scaled = 0 /\ remaining[p] = 0)
  <2>1. p \in Positions /\ remaining[p] = book[p].scaled /\ remainingGross[p] = book[p].gross
    BY DEF Init, NothingNetted, Shorts
  <2> QED
    BY <1>1, <2>1, UnitsOfPosition DEF Proportional
<1> QED
  BY <1>1, <1>2, <1>3 DEF GrossInv

(* A match takes whole units of a short position with their share of its   *)
(* gross amount.                                                           *)
LEMMA GrossStep == TypeOK /\ GrossInv /\ [Next]_vars => GrossInv'
<1> SUFFICES ASSUME TypeOK, GrossInv, [Next]_vars PROVE GrossInv'
  OBVIOUS
<1>0. Unit \in Int /\ Unit > 0
  BY BooksAssumption
<1>1. ASSUME UNCHANGED <<book, left, remaining, remainingGross>> PROVE GrossInv'
  BY <1>1 DEF GrossInv, Proportional, Shorts, Longs
<1>2. ASSUME NEW p \in Positions, AddLong(p) PROVE GrossInv'
  <2>1. /\ layer \in Seniorities /\ left' = [left EXCEPT ![layer] = @ + book[p].scaled]
        /\ UNCHANGED <<book, remaining, remainingGross>>
    BY <1>2, RanksAreNatural DEF AddLong
  <2>2. Whole(left[layer] + book[p].scaled)
    <3>1. PICK i \in Int : left[layer] = i * Unit
      BY <2>1 DEF GrossInv, Whole
    <3>2. PICK j \in Int : book[p].scaled = j * Unit
      BY UnitsOfPosition DEF GrossInv, Whole
    <3>3. left[layer] + book[p].scaled = (i + j) * Unit
      BY <1>0, <3>1, <3>2, Regroup
    <3> QED
      BY <3>3 DEF Whole
  <2>3. \A l \in Seniorities : Whole(left'[l])
    BY <2>1, <2>2 DEF GrossInv, TypeOK
  <2> QED
    BY <2>1, <2>3 DEF GrossInv, Proportional, Shorts, Longs
<1>3. ASSUME NEW p \in Positions, ConsumeShort(p) PROVE GrossInv'
  <2> DEFINE c == IF left[layer] < remaining[p] THEN left[layer] ELSE remaining[p]
             g == IF c = 0 THEN 0 ELSE (remainingGross[p] * c) \div remaining[p]
  <2>1. /\ layer \in Seniorities /\ p \in Shorts
        /\ left' = [left EXCEPT ![layer] = @ - c]
        /\ remaining' = [remaining EXCEPT ![p] = @ - c]
        /\ remainingGross' = [remainingGross EXCEPT ![p] = @ - g]
        /\ book' = book
    BY <1>3, RanksAreNatural DEF ConsumeShort, Offers
  <2>2. /\ left[layer] \in Nat /\ remaining[p] \in Nat
        /\ c \in Nat /\ (remaining[p] = 0 => c = 0) /\ (c = left[layer] \/ c = remaining[p])
    BY <2>1 DEF TypeOK
  <2>3. remaining'[p] = remaining[p] - c /\ remainingGross'[p] = remainingGross[p] - g
    BY <2>1 DEF TypeOK
  <2>4. PICK i \in Int : left[layer] = i * Unit
    BY <2>1 DEF GrossInv, Whole
  <2>5. ASSUME remaining[p] = 0 PROVE left' = left /\ remaining' = remaining /\ remainingGross' = remainingGross
    <3>1. c = 0 /\ g = 0
      BY <2>2, <2>5
    <3> HIDE DEF c, g
    <3>2. left[layer] - 0 = left[layer] /\ remaining[p] - 0 = remaining[p]
          /\ remainingGross[p] - 0 = remainingGross[p]
      BY <2>1 DEF TypeOK
    <3> QED
      BY <2>1, <3>1, <3>2 DEF TypeOK
  <2>6. ASSUME remaining[p] # 0 PROVE Proportional(p)' /\ Whole(left[layer] - c)
    <3>1. PICK k, s, j \in Int : /\ book[p].scaled = s * Unit /\ book[p].gross = k * s
                                 /\ remaining[p] = j * Unit /\ remainingGross[p] = k * j
      BY <2>1, <2>6 DEF GrossInv, Proportional
    <3>2. PICK n \in Int : c = n * Unit
      BY <2>2, <2>4, <3>1
    <3>3. Whole(left[layer] - c)
      <4>1. left[layer] - c = (i - n) * Unit
        BY <1>0, <2>4, <3>2, Regroup
      <4> QED
        BY <4>1 DEF Whole
    <3>4. g = k * n
      <4>1. CASE c = 0
        <5>1. n * Unit = 0 * Unit /\ 0 \in Int
          BY <1>0, <3>2, <4>1
        <5>2. n = 0
          BY <1>0, <5>1, Cancel
        <5> QED
          BY <4>1, <5>2
      <4>2. CASE c # 0
        <5>1. (k * j) * (n * Unit) = (k * n) * (j * Unit) /\ k * n \in Int
          <6>1. (k * j) * (n * Unit) = k * (j * (n * Unit)) /\ (k * n) * (j * Unit) = k * (n * (j * Unit))
            BY <1>0, Regroup
          <6>2. j * (n * Unit) = n * (j * Unit)
            BY <1>0, Regroup
          <6> QED
            BY <6>1, <6>2, Regroup
        <5>2. g = ((k * n) * remaining[p]) \div remaining[p]
          BY <3>1, <3>2, <4>2, <5>1
        <5>3. remaining[p] \in Int /\ remaining[p] > 0
          BY <2>2, <2>6
        <5> QED
          BY <5>1, <5>2, <5>3, ExactQuotient
      <4> QED
        BY <4>1, <4>2
    <3> HIDE DEF c, g
    <3>5. remaining'[p] = (j - n) * Unit /\ remainingGross'[p] = k * (j - n)
      BY <1>0, <2>3, <3>1, <3>2, <3>4, Regroup
    <3>6. j - n \in Int /\ book'[p].scaled = s * Unit /\ book'[p].gross = k * s
      BY <2>1, <3>1
    <3>7. Proportional(p)'
      BY <3>5, <3>6 DEF Proportional
    <3> QED
      BY <3>3, <3>7
  <2> HIDE DEF c, g
  <2>7. \A l \in Seniorities : Whole(left'[l])
    <3> TAKE l \in Seniorities
    <3>1. l # layer => left'[l] = left[l]
      BY <2>1 DEF TypeOK
    <3>2. left'[layer] = left[layer] - c
      BY <2>1 DEF TypeOK
    <3> QED
      BY <2>5, <2>6, <3>1, <3>2 DEF GrossInv
  <2>8. ASSUME NEW q \in Shorts
        PROVE  (Proportional(q) \/ (book[q].scaled = 0 /\ remaining[q] = 0))'
    <3>1. CASE q # p
      <4>1. remaining'[q] = remaining[q] /\ remainingGross'[q] = remainingGross[q]
        BY <2>1, <3>1 DEF TypeOK, Shorts
      <4> QED
        BY <2>1, <4>1 DEF GrossInv, Proportional
    <3>2. CASE remaining[p] = 0
      <4>1. remaining' = remaining /\ remainingGross' = remainingGross /\ book' = book
        BY <2>1, <2>5, <3>2
      <4> QED
        BY <4>1 DEF GrossInv, Proportional
    <3>3. CASE q = p /\ remaining[p] # 0
      BY <2>6, <3>3
    <3> QED
      BY <3>1, <3>2, <3>3
  <2> QED
    BY <2>1, <2>7, <2>8 DEF GrossInv, Shorts, Longs
<1> QED
  BY <1>1, <1>2, <1>3 DEF Next, OpenLayer, CloseLayer, Finished, vars

(* What is left of a short position is to its scaled amount as what is     *)
(* left of its gross amount is to all of that.                             *)
LEMMA GrossInProportion ==
    ASSUME TypeOK, GrossInv, NEW p \in Shorts
    PROVE  remainingGross[p] * book[p].scaled = book[p].gross * remaining[p]
<1>1. Unit \in Int /\ p \in Positions
  BY BooksAssumption, RanksAreNatural
<1>2. CASE book[p].scaled = 0 /\ remaining[p] = 0
  <2>1. remainingGross[p] \in Int /\ book[p].gross \in Int
    BY <1>1 DEF TypeOK, Exposure
  <2>2. \A a \in Int : a * 0 = 0
    OBVIOUS
  <2> QED
    BY <1>2, <2>1, <2>2
<1>3. CASE Proportional(p)
  <2>1. PICK k, s, j \in Int : /\ book[p].scaled = s * Unit /\ book[p].gross = k * s
                               /\ remaining[p] = j * Unit /\ remainingGross[p] = k * j
    BY <1>3 DEF Proportional
  <2>2. (k * j) * (s * Unit) = k * (j * (s * Unit)) /\ (k * s) * (j * Unit) = k * (s * (j * Unit))
    BY <1>1, Regroup
  <2>3. j * (s * Unit) = s * (j * Unit)
    BY <1>1, Regroup
  <2> QED
    BY <2>1, <2>2, <2>3
<1> QED
  BY <1>2, <1>3 DEF GrossInv

(* The records of a netting add up to what was netted, and what is left of *)
(* a short position keeps its proportion of gross to scaled.               *)
THEOREM NettingReconciles == Spec => []RecordsReconcile
<1> DEFINE Inv == TypeOK /\ NInv /\ FlowInv /\ GreedyInv /\ GrossInv
<1>1. Init => Inv
  BY InitTypeOK, InitNInv, FlowInit, GreedyInit, GrossInit
<1>2. Inv /\ [Next]_vars => Inv'
  BY TypeStep, NStep, FlowStep, GreedyStep, GrossStep
<1>3. Inv => RecordsReconcile
  BY SignedSum, GrossInProportion DEF RecordsReconcile
<1> QED
  BY <1>1, <1>2, <1>3, PTL DEF Spec

-----------------------------------------------------------------------------
(* The capital after it.                                                   *)

(* The capital calculation does not disturb the netting, and what enters   *)
(* the netting are books that the contracts give.                          *)
THEOREM CapitalKeepsNetting == CapitalSpec => Spec
<1>1. CapitalInit => Init
  BY BooksOfContracts DEF CapitalInit, Init
<1>2. [CapitalNext]_capitalVars => [Next]_vars
  BY DEF CapitalNext, Net, Charge, capitalVars
<1> QED
  BY <1>1, <1>2, PTL DEF CapitalSpec, Spec

(* No netted layer leaves an offset unused when the charge is calculated.  *)
THEOREM ChargedNettingIsExhaustive == CapitalSpec => []NoOffsetLeft
  BY CapitalKeepsNetting, NettingIsExhaustive, PTL

(* The product of natural numbers is one.                                  *)
LEMMA ProductOfNats == \A a, b \in Nat : a * b \in Nat
  OBVIOUS

(* A contract with a value or a profit has a profit component that is a    *)
(* number.                                                                 *)
LEMMA PnlIsInt ==
    ASSUME NEW c \in Contract, c.value # NoAmount \/ c.pnl # NoAmount
    PROVE  PnlComponent(c) \in Int
  BY DEF Contract, PnlComponent, Abs

(* The jump-to-default of a position is an amount that is not negative.    *)
LEMMA JtdIsNatural ==
    ASSUME NEW c \in Contract, c.value # NoAmount \/ c.pnl # NoAmount
    PROVE  GrossJtd(c) \in Nat
<1>1. PnlComponent(c) \in Int
  BY PnlIsInt
<1>2. LgdRate(c) \in Int
  BY ContractsAssumption DEF LgdRate, Contract
<1>3. Abs(c.notional) \in Int
  BY DEF Contract, Abs
<1>4. \A a, b \in Int : a * b \in Int
  OBVIOUS
<1>5. RawJtd(c) \in Int
  BY <1>1, <1>2, <1>3, <1>4 DEF RawJtd
<1>6. Uncapped(c) \in Nat
  BY <1>5 DEF Uncapped, Most, Least, Abs
<1> QED
  BY <1>6 DEF GrossJtd, Least, Abs, Contract

(* Every book that is netted is one of exposures.                          *)
LEMMA ExposuresOfContracts ==
    ASSUME NEW c \in Contracts, NEW p \in Positions
    PROVE  ExposureOf(c[p]) \in Exposure
<1>1. c[p] \in Contract /\ (c[p].value # NoAmount \/ c[p].pnl # NoAmount)
  BY ContractsAssumption
<1>2. GrossJtd(c[p]) \in Nat
  BY <1>1, JtdIsNatural
<1>3. Full \in Nat /\ MaturityWeight(c[p].maturity) \in Nat
  BY <1>1, ContractsAssumption DEF MaturityWeight, Most, Contract
<1>4. GrossJtd(c[p]) * MaturityWeight(c[p].maturity) \in Nat /\ GrossJtd(c[p]) * Full \in Nat
  BY <1>2, <1>3, ProductOfNats
<1> QED
  BY <1>1, <1>4 DEF ExposureOf, Exposure, Contract

(* A long and a short position on the same terms, whose profits mirror     *)
(* each other, have the same jump-to-default, whatever the terms are.      *)
THEOREM MirroredExposuresAreEqual ==
    ASSUME contracts \in Contracts, NEW l \in Positions, NEW s \in Positions, Mirrors(l, s)
    PROVE  /\ ExposureOf(contracts[l]).scaled = ExposureOf(contracts[s]).scaled
           /\ ExposureOf(contracts[l]).gross = ExposureOf(contracts[s]).gross
<1> DEFINE c == contracts[l]
           d == contracts[s]
<1>1. /\ c \in Contract /\ (c.value # NoAmount \/ c.pnl # NoAmount)
      /\ d \in Contract /\ (d.value # NoAmount \/ d.pnl # NoAmount)
  BY ContractsAssumption
<1>2. /\ c.direction = "LONG" /\ d.direction = "SHORT"
      /\ d.pnl = IF c.pnl = NoAmount THEN NoAmount ELSE - c.pnl
  BY DEF Mirrors
<1>3. DOMAIN c = {"direction", "seniority", "defaulted", "notional", "value", "pnl", "maturity", "quality"}
  BY <1>1 DEF Contract
<1>4. /\ d.seniority = c.seniority /\ d.defaulted = c.defaulted /\ d.notional = c.notional
      /\ d.value = c.value /\ d.maturity = c.maturity
  BY <1>3 DEF Mirrors
<1> HIDE DEF c, d
<1>5. PnlComponent(c) \in Int /\ PnlComponent(d) = - PnlComponent(c)
  <2>1. NoAmount \notin Int
    BY ContractsAssumption
  <2> QED
    BY <1>1, <1>2, <1>4, <2>1 DEF PnlComponent, Contract, Abs
<1>6. LgdRate(c) \in Int /\ LgdRate(d) = LgdRate(c) /\ Abs(c.notional) \in Int
  BY <1>1, <1>4, ContractsAssumption DEF LgdRate, Contract, Abs
<1>7. \A a, n \in Int : a * n \in Int /\ a * (- n) = - (a * n)
  OBVIOUS
<1>8. RawJtd(c) \in Int /\ RawJtd(d) = - RawJtd(c)
  BY <1>2, <1>4, <1>5, <1>6, <1>7 DEF RawJtd
<1>9. Uncapped(d) = Uncapped(c)
  BY <1>2, <1>8 DEF Uncapped, Most, Least, Abs
<1>10. GrossJtd(d) = GrossJtd(c)
  BY <1>4, <1>9 DEF GrossJtd
<1> QED
  BY <1>4, <1>10 DEF ExposureOf, c, d

-----------------------------------------------------------------------------
(* The best netting.  No netting offsets more than a cut, and this one     *)
(* offsets as much as one of them.                                         *)
Ranks == {Rank[m] : m \in Seniorities}
LastCut == Max(Ranks) + 1

(* There is a highest rank, which no seniority exceeds.                    *)
LEMMA HighestRank ==
    ASSUME TypeOK
    PROVE  /\ Max(Ranks) \in Nat /\ Max(Ranks) \in Ranks /\ LastCut \in Nat
           /\ \A m \in Seniorities : Rank[m] <= Max(Ranks)
<1>1. Ranks \in SUBSET Int /\ IsFiniteSet(Ranks) /\ Ranks \in SUBSET Nat
  BY GroupAssumption, RankAssumption, ImageIsFinite DEF Ranks
<1>2. Ranks # {}
  BY GroupAssumption, RanksAreNatural DEF Ranks
<1>3. \E x \in Ranks : \A y \in Ranks : y <= x
  BY <1>1, <1>2, FiniteMaximum
<1>4. \E x \in Ranks : \A y \in Ranks : x >= y
  BY <1>1, <1>3
<1>5. Max(Ranks) \in Ranks /\ \A y \in Ranks : Max(Ranks) >= y
  BY <1>4 DEF Max
<1> DEFINE top == Max(Ranks)
<1>6. top \in Nat /\ top \in Ranks /\ \A m \in Seniorities : Rank[m] \in Ranks /\ Rank[m] \in Nat
  BY <1>1, <1>5, RanksAreNatural DEF Ranks
<1> HIDE DEF top
<1>7. top + 1 \in Nat /\ \A m \in Seniorities : Rank[m] <= top
  BY <1>5, <1>6 DEF top
<1> QED
  BY <1>6, <1>7 DEF LastCut, top

(* A cut amounts to a natural number.                                      *)
LEMMA CutIsNatural ==
    ASSUME TypeOK, NEW group \in SUBSET Positions, NEW t
    PROVE  /\ Cut(group, t) \in Nat
           /\ LongsAbove(t) \cap group \in SUBSET Positions
           /\ ShortsFrom(t) \cap group \in SUBSET Positions
           /\ ScaledOf(LongsAbove(t) \cap group) \in Nat
           /\ ScaledOf(ShortsFrom(t) \cap group) \in Nat
<1>1. LongsAbove(t) \cap group \in SUBSET Positions /\ ShortsFrom(t) \cap group \in SUBSET Positions
  OBVIOUS
<1>2. ScaledOf(LongsAbove(t) \cap group) \in Nat
  BY <1>1, ScaledTypes
<1>3. ScaledOf(ShortsFrom(t) \cap group) \in Nat
  BY <1>1, ScaledTypes
<1> QED
  BY <1>1, <1>2, <1>3 DEF Cut

(* The least cut is the least value of one.                                *)
LEMMA LeastCut ==
    ASSUME TypeOK, NEW group \in SUBSET Positions
    PROVE  /\ BestOffset(group) \in Nat
           /\ \A x \in Nat : /\ \A t \in 0 .. LastCut : x <= Cut(group, t)
                             /\ \E t \in 0 .. LastCut : x = Cut(group, t)
                             => BestOffset(group) = x
           /\ \A t \in 0 .. LastCut : BestOffset(group) <= Cut(group, t)
           /\ \E t \in 0 .. LastCut : BestOffset(group) = Cut(group, t)
<1> DEFINE cuts == {Cut(group, t) : t \in 0 .. LastCut}
<1>1. BestOffset(group) = Min(cuts)
  BY DEF BestOffset, LastCut, Ranks
<1>2. cuts \in SUBSET Nat /\ cuts # {}
  <2>1. \A t \in 0 .. LastCut : Cut(group, t) \in Nat
    BY CutIsNatural
  <2>2. 0 \in 0 .. LastCut
    BY HighestRank
  <2> QED
    BY <2>1, <2>2
<1>3. /\ \A t \in 0 .. LastCut : Cut(group, t) \in cuts
      /\ \A x \in cuts : \E t \in 0 .. LastCut : x = Cut(group, t)
  OBVIOUS
<1> HIDE DEF cuts
<1>4. \E x \in cuts : \A y \in cuts : x =< y
  BY <1>2, NatMinimum
<1>5. Min(cuts) \in cuts /\ \A y \in cuts : Min(cuts) =< y
  BY <1>4 DEF Min
<1>6. ASSUME NEW x \in Nat, \A t \in 0 .. LastCut : x <= Cut(group, t),
             \E t \in 0 .. LastCut : x = Cut(group, t)
      PROVE  BestOffset(group) = x
  <2>1. x \in cuts
    BY <1>3, <1>6
  <2>2. Min(cuts) \in Nat /\ x <= Min(cuts) /\ Min(cuts) <= x
    BY <1>2, <1>3, <1>5, <1>6, <2>1
  <2> QED
    BY <1>1, <2>2
<1> QED
  BY <1>1, <1>2, <1>3, <1>5, <1>6

(* What the netting offset is the least cut: no cut is below it by the     *)
(* netting relation, and one of them it reaches.                           *)
LEMMA OffsetIsBest ==
    ASSUME TypeOK, NInv, FlowInv, GreedyInv, Done
    PROVE  BestOffset(Positions) = Flow(Seniorities, Positions)
<1> DEFINE flow == Flow(Seniorities, Positions)
           top == Max(Ranks)
<1>1. flow \in Nat
  BY WhatIsLeft
<1>2. \A t : LongsAbove(t) \cap Positions = LongsAbove(t) /\ ShortsFrom(t) \cap Positions = ShortsFrom(t)
  BY DEF LongsAbove, ShortsFrom, Longs, Shorts
<1>3. \A t : Cut(Positions, t) = ScaledOf(LongsAbove(t)) + ScaledOf(ShortsFrom(t))
  BY <1>2 DEF Cut
<1>4. ASSUME NEW t \in 0 .. LastCut PROVE flow <= Cut(Positions, t)
  <2> DEFINE above == {l \in Seniorities : Rank[l] < t}
             below == {l \in Seniorities : Rank[l] >= t}
             from == ShortsFrom(t)
             held == {l \in Layers : Rank[l] < t}
  <2>1. t \in Nat
    BY HighestRank
  <2>2. /\ above \in SUBSET Seniorities /\ below \in SUBSET Seniorities
        /\ above \cap below = {} /\ above \cup below = Seniorities
        /\ held \in SUBSET above /\ held \in SUBSET Layers
        /\ from \in SUBSET Shorts /\ from \in SUBSET Positions
    BY <2>1, RanksAreNatural DEF ShortsFrom
  <2>3. \A l \in above, p \in Positions : used[l][p] > 0 => l \in held /\ p \in Positions
    <3> TAKE l \in above, p \in Positions
    <3> HAVE used[l][p] > 0
    <3>1. l \in netted \cup {layer} /\ l # NoLayer
      BY <2>2, RankAssumption DEF GreedyInv
    <3> QED
      BY <3>1 DEF TypeOK
  <2>4. \A l \in below, p \in Positions : used[l][p] > 0 => l \in below /\ p \in from
    <3> TAKE l \in below, p \in Positions
    <3>1. used[l][p] > 0 => p \in Shorts /\ RankOf(p) >= Rank[l]
      BY <2>2 DEF GreedyInv
    <3>2. Rank[l] \in Nat /\ RankOf(p) \in Nat /\ Rank[l] >= t
      BY <2>2, RanksAreNatural
    <3> QED
      BY <2>1, <3>1, <3>2 DEF ShortsFrom, RankOf
  <2>5. LongsAbove(t) = {p \in Longs : book[p].seniority \in held}
    BY DEF LongsAbove, Layers
  <2>6. Positions \in SUBSET Positions
    OBVIOUS
  <2> HIDE DEF above, below, from, held
  <2>7. flow = Flow(above, Positions) + Flow(below, Positions)
    BY <2>2, <2>6, FlowOfBoth
  <2>8. Flow(held, Positions) = Flow(above, Positions)
    BY <2>2, <2>3, <2>6, FlowOfPart
  <2>9. Flow(below, from) = Flow(below, Positions)
    BY <2>2, <2>4, <2>6, FlowOfPart
  <2>10. Flow(below, from) <= Flow(Seniorities, from)
    BY <2>2, FlowOfPart
  <2>11. Flow(Seniorities, from) <= ScaledOf(from)
    BY <2>2, FlowOfShorts
  <2>12. SumFunctionOnSet(left, held) + Flow(held, Positions) = ScaledOf(LongsAbove(t))
    BY <2>2, <2>5, FlowOfLayers
  <2>13. /\ SumFunctionOnSet(left, held) \in Nat /\ Flow(held, Positions) \in Nat
         /\ Flow(below, from) \in Nat /\ Flow(Seniorities, from) \in Nat
    <3>1. held \in SUBSET Seniorities /\ Seniorities \in SUBSET Seniorities
      BY <2>2
    <3> QED
      BY <2>2, <2>6, <3>1, FlowSums
  <2>14. ScaledOf(from) \in Nat
    BY <2>2, ScaledTypes
  <2>15. Cut(Positions, t) = ScaledOf(LongsAbove(t)) + ScaledOf(from)
    BY <1>3 DEF from
  <2> DEFINE a == Flow(held, Positions)
             b == Flow(below, from)
             c == Flow(Seniorities, from)
             d == SumFunctionOnSet(left, held)
             e == ScaledOf(from)
             f == ScaledOf(LongsAbove(t))
  <2>16. /\ flow = a + b /\ b <= c /\ c <= e /\ d + a = f /\ Cut(Positions, t) = f + e
         /\ a \in Nat /\ b \in Nat /\ c \in Nat /\ d \in Nat /\ e \in Nat
    BY <2>7, <2>8, <2>9, <2>10, <2>11, <2>12, <2>13, <2>14, <2>15
  <2> HIDE DEF a, b, c, d, e, f, flow
  <2> QED
    BY <2>16
<1>5. \E t \in 0 .. LastCut : flow = Cut(Positions, t)
  <2>1. top \in Nat /\ top \in Ranks /\ LastCut = top + 1
    BY HighestRank DEF LastCut
  <2>2. \A m \in Seniorities : Rank[m] <= top /\ Rank[m] \in Nat
    BY HighestRank, RanksAreNatural
  <2> HIDE DEF top
  <2>3. LongsDownTo(top) = Longs /\ {l \in Layers : Rank[l] <= top} = Layers
        /\ LongsAbove(top + 1) = Longs /\ ShortsFrom(top + 1) = {}
    <3>1. \A p \in Positions : book[p].seniority \in Seniorities
      BY RanksAreNatural
    <3>2. \A p \in Positions : Rank[book[p].seniority] <= top /\ Rank[book[p].seniority] \in Nat
      BY <2>2, <3>1
    <3> QED
      BY <2>1, <2>2, <3>2, RanksAreNatural DEF LongsDownTo, LongsAbove, ShortsFrom
  <2>4. Offset(top) = flow
    <3> DEFINE a == SumFunctionOnSet(left, Layers)
    <3>1. Offset(top) = ScaledOf(Longs) - a
      BY <2>3 DEF Offset
    <3>2. a \in Nat /\ a + flow = ScaledOf(Longs)
      BY WhatIsLeft
    <3> HIDE DEF a, flow
    <3> QED
      BY <1>1, <3>1, <3>2
  <2>5. \/ Offset(top) = ScaledOf(LongsDownTo(top))
        \/ \E t \in 0 .. top : Offset(top) = ScaledOf(LongsAbove(t)) + ScaledOf(ShortsFrom(t))
    BY <2>1, NettingIsMaximal DEF OffsetIsMaximal, Ranks
  <2>6. CASE Offset(top) = ScaledOf(LongsDownTo(top))
    <3>1. ScaledOf({}) = 0
      BY SumEmpty DEF ScaledOf
    <3>2. flow + 0 = flow
      BY <1>1
    <3>3. flow = Cut(Positions, top + 1)
      BY <1>3, <2>3, <2>4, <2>6, <3>1, <3>2
    <3>4. top + 1 \in 0 .. LastCut
      BY <2>1
    <3> QED
      BY <3>3, <3>4
  <2>7. ASSUME NEW t \in 0 .. top, Offset(top) = ScaledOf(LongsAbove(t)) + ScaledOf(ShortsFrom(t))
        PROVE  \E u \in 0 .. LastCut : flow = Cut(Positions, u)
    <3>1. t \in 0 .. LastCut /\ flow = Cut(Positions, t)
      BY <1>3, <2>1, <2>4, <2>7
    <3> QED
      BY <3>1
  <2> QED
    BY <2>5, <2>6, <2>7
<1> HIDE DEF flow
<1>6. Positions \in SUBSET Positions
  OBVIOUS
<1>7. BestOffset(Positions) = flow
  BY <1>1, <1>4, <1>5, <1>6, LeastCut
<1> QED
  BY <1>7 DEF flow

-----------------------------------------------------------------------------
(* The charge.                                                             *)
ChargeNow ==
    IF \E r \in NetRecords : Cardinality(QualitiesOf(r)) # 1 THEN Refused
    ELSE BucketCapital(NetAmount("LONG"), NetAmount("SHORT"),
                       WeightedAmount("LONG"), WeightedAmount("SHORT"))

(* The charge is of the netting as it is, which does not go on after it.   *)
ChargeInv ==
    /\ contracts \in Contracts /\ others \in Others /\ book = BookOf(contracts)
    /\ charge # NoAmount => Done /\ layer = NoLayer /\ charge = ChargeNow

(* A netting that is done changes nothing more.                            *)
LEMMA DoneIsLast == Done /\ layer = NoLayer /\ [Next]_vars => UNCHANGED vars
  BY DEF Done, Next, OpenLayer, AddLong, ConsumeShort, CloseLayer, Finished, vars

(* The charge depends on the netting, the contracts and the other obligors *)
(* only.                                                                   *)
LEMMA ChargeStays ==
    ASSUME UNCHANGED <<vars, contracts, others>>
    PROVE  ChargeNow' = ChargeNow /\ Done' = Done
<1> USE DEF vars
<1>1. Longs' = Longs /\ Shorts' = Shorts /\ Layers' = Layers /\ Done' = Done
  BY DEF Longs, Shorts, Layers, Done
<1>2. NetRecords' = NetRecords
  BY <1>1 DEF NetRecords, LongRecord, ShortRecord, ResidualOf, LayerOf
<1>3. \A r : QualitiesOf(r)' = QualitiesOf(r) /\ QualityOf(r)' = QualityOf(r)
  BY DEF QualitiesOf, QualityOf
<1>4. \A d : NetAmount(d)' = NetAmount(d)
  BY <1>2 DEF NetAmount, AmountOfOthers, InDirection
<1>5. \A d : WeightedAmount(d)' = WeightedAmount(d)
  BY <1>2, <1>3 DEF WeightedAmount, WeightedOfOthers, InDirection
<1> QED
  BY <1>1, <1>2, <1>3, <1>4, <1>5 DEF ChargeNow

(* The charge, once made, stays that of the records there are.             *)
LEMMA ChargeStep == ChargeInv /\ [CapitalNext]_capitalVars => ChargeInv'
<1> SUFFICES ASSUME ChargeInv, [CapitalNext]_capitalVars PROVE ChargeInv'
  OBVIOUS
<1>1. ASSUME [Next]_vars, UNCHANGED <<contracts, others, charge>> PROVE ChargeInv'
  <2>1. book' = book
    BY <1>1 DEF Next, OpenLayer, AddLong, ConsumeShort, CloseLayer, Finished, vars
  <2>2. BookOf(contracts)' = BookOf(contracts)
    BY <1>1 DEF BookOf, ExposureOf
  <2>3. CASE charge = NoAmount
    BY <1>1, <2>1, <2>2, <2>3 DEF ChargeInv
  <2>4. CASE charge # NoAmount
    <3>1. UNCHANGED vars
      BY <1>1, <2>4, DoneIsLast DEF ChargeInv
    <3>2. ChargeNow' = ChargeNow /\ Done' = Done /\ layer' = layer
      BY <1>1, <3>1, ChargeStays DEF vars
    <3> QED
      BY <1>1, <2>1, <2>2, <3>2 DEF ChargeInv
  <2> QED
    BY <2>3, <2>4
<1>2. ASSUME Charge PROVE ChargeInv'
  <2>1. /\ charge' = ChargeNow /\ Done /\ layer = NoLayer
        /\ UNCHANGED <<vars, contracts, others>>
    BY <1>2 DEF Charge, ChargeNow
  <2>2. ChargeNow' = ChargeNow /\ Done' = Done /\ layer' = layer /\ book' = book
    BY <2>1, ChargeStays DEF vars
  <2>3. BookOf(contracts)' = BookOf(contracts)
    BY <2>1 DEF BookOf, ExposureOf
  <2> QED
    BY <2>1, <2>2, <2>3 DEF ChargeInv
<1> QED
  BY <1>1, <1>2 DEF CapitalNext, Net, capitalVars

(* One quality for all is the quality of every record.                     *)
TheQuality == CHOOSE quality \in Qualities : \E p \in Positions : contracts[p].quality = quality

(* Of an obligor of one quality every contract has that quality.           *)
LEMMA QualityIsOfAll ==
    ASSUME contracts \in Contracts, OneQuality
    PROVE  TheQuality \in Qualities /\ \A p \in Positions : contracts[p].quality = TheQuality
<1>1. PICK p \in Positions : TRUE
  BY GroupAssumption
<1>2. contracts[p].quality \in Qualities
  BY ContractsAssumption DEF Contract
<1>3. /\ TheQuality \in Qualities
      /\ \E q \in Positions : contracts[q].quality = TheQuality
  BY <1>1, <1>2 DEF TheQuality
<1> QED
  BY <1>3 DEF OneQuality

(* The records of such an obligor are never refused for mixed qualities,   *)
(* and have that quality.                                                  *)
LEMMA RecordsAreOfOneQuality ==
    ASSUME TypeOK, contracts \in Contracts, OneQuality, NEW r \in NetRecords
    PROVE  /\ QualitiesOf(r) = {TheQuality} /\ QualityOf(r) = TheQuality
           /\ Cardinality(QualitiesOf(r)) = 1
<1>1. r.positions \in SUBSET Positions /\ r.positions # {}
  <2>1. CASE r \in LongRecords
    <3>1. PICK l \in Layers : r = LongRecord(l)
      BY <2>1 DEF LongRecords
    <3>2. r.positions = LayerOf(l) \cup {p \in Shorts : used[l][p] > 0}
      BY <3>1 DEF LongRecord
    <3> QED
      BY <3>2, RanksAreNatural DEF LayerOf, Layers
  <2>2. CASE r \in ShortRecords
    <3>1. PICK m \in Seniorities : r = ShortRecord(m) /\ ResidualOf(m) # {}
      BY <2>2 DEF ShortRecords
    <3>2. r.positions = ResidualOf(m)
      BY <3>1 DEF ShortRecord
    <3> QED
      BY <3>1, <3>2, RanksAreNatural DEF ResidualOf
  <2> QED
    BY <2>1, <2>2, RecordsByDirection
<1>2. TheQuality \in Qualities /\ \A p \in Positions : contracts[p].quality = TheQuality
  BY QualityIsOfAll
<1>3. QualitiesOf(r) = {TheQuality}
  BY <1>1, <1>2 DEF QualitiesOf
<1>4. QualityOf(r) = TheQuality
  BY <1>2, <1>3 DEF QualityOf
<1> QED
  BY <1>3, <1>4, FS_Singleton

(* The amounts of the records of each direction, and weighted.             *)
LEMMA AmountsOfRecords ==
    ASSUME TypeOK, NInv, FlowInv, GreedyInv, Done, contracts \in Contracts, OneQuality
    PROVE  LET long == ScaledOf(Longs) - BestOffset(Positions)
               short == ScaledOf(Shorts) - BestOffset(Positions)
           IN  /\ long \in Nat /\ short \in Nat
               /\ NetAmount("LONG") = long + AmountOfOthers("LONG")
               /\ NetAmount("SHORT") = short + AmountOfOthers("SHORT")
               /\ WeightedAmount("LONG") = long * RiskWeight[TheQuality] + WeightedOfOthers("LONG")
               /\ WeightedAmount("SHORT") = short * RiskWeight[TheQuality] + WeightedOfOthers("SHORT")
<1> DEFINE long == ScaledOf(Longs) - BestOffset(Positions)
           short == ScaledOf(Shorts) - BestOffset(Positions)
           weight == RiskWeight[TheQuality]
           ofLong == [r \in LongRecords |-> r.amount]
           ofShort == [r \in ShortRecords |-> r.amount]
           weightedLong == [r \in LongRecords |-> r.amount * RiskWeight[QualityOf(r)]]
           weightedShort == [r \in ShortRecords |-> r.amount * RiskWeight[QualityOf(r)]]
<1>1. /\ long = SumFunctionOnSet(left, Layers) /\ short = SumFunctionOnSet(remaining, Shorts)
      /\ long \in Nat /\ short \in Nat
  <2> DEFINE a == SumFunctionOnSet(left, Layers)
             b == SumFunctionOnSet(remaining, Shorts)
             c == Flow(Seniorities, Positions)
             d == ScaledOf(Longs)
             e == ScaledOf(Shorts)
  <2>1. a \in Nat /\ b \in Nat /\ c \in Nat /\ a + c = d /\ b + c = e
    BY WhatIsLeft
  <2>2. BestOffset(Positions) = c
    BY OffsetIsBest
  <2> HIDE DEF a, b, c, d, e
  <2>3. d - c = a /\ e - c = b
    BY <2>1
  <2> QED
    BY <2>1, <2>2, <2>3 DEF a, b, d, e
<1>2. weight \in Int
  BY QualityIsOfAll, ContractsAssumption
<1>3. InDirection(NetRecords, "LONG") = LongRecords /\ InDirection(NetRecords, "SHORT") = ShortRecords
  BY RecordsByDirection DEF InDirection
<1>4. \A r \in LongRecords : ofLong[r] = r.amount /\ weightedLong[r] = ofLong[r] * weight
  BY RecordsByDirection, RecordsAreOfOneQuality
<1>5. \A r \in ShortRecords : ofShort[r] = r.amount /\ weightedShort[r] = ofShort[r] * weight
  BY RecordsByDirection, RecordsAreOfOneQuality
<1>6. /\ NetAmount("LONG") = SumFunctionOnSet(ofLong, LongRecords) + AmountOfOthers("LONG")
      /\ NetAmount("SHORT") = SumFunctionOnSet(ofShort, ShortRecords) + AmountOfOthers("SHORT")
      /\ WeightedAmount("LONG") = SumFunctionOnSet(weightedLong, LongRecords) + WeightedOfOthers("LONG")
      /\ WeightedAmount("SHORT") = SumFunctionOnSet(weightedShort, ShortRecords) + WeightedOfOthers("SHORT")
  BY <1>3 DEF NetAmount, WeightedAmount, SumFunction
<1>7. \A r \in LongRecords : r.amount \in Nat
  BY DEF LongRecords, LongRecord, TypeOK, Layers, Longs, Exposure
<1> HIDE DEF ofLong, ofShort, weightedLong, weightedShort, weight, long, short
<1>8. IsFiniteSet(LongRecords) /\ SumFunctionOnSet(ofLong, LongRecords) = long
  BY <1>1, <1>4, LongRecordsSum
<1>9. /\ IsFiniteSet(ShortRecords) /\ \A r \in ShortRecords : r.amount \in Nat
      /\ SumFunctionOnSet(ofShort, ShortRecords) = short
  BY <1>1, <1>5, ShortRecordsSum
<1>10. SumFunctionOnSet(weightedLong, LongRecords) = long * weight
  <2>1. \A r \in LongRecords : ofLong[r] \in Int /\ weightedLong[r] = ofLong[r] * weight
    BY <1>4, <1>7
  <2> QED
    BY <1>2, <1>8, <2>1, SumTimes
<1>11. SumFunctionOnSet(weightedShort, ShortRecords) = short * weight
  <2>1. \A r \in ShortRecords : ofShort[r] \in Int /\ weightedShort[r] = ofShort[r] * weight
    BY <1>5, <1>9
  <2> QED
    BY <1>2, <1>9, <2>1, SumTimes
<1> QED
  BY <1>1, <1>6, <1>8, <1>9, <1>10, <1>11 DEF long, short, weight

(* The other obligors of the bucket have natural amounts.                  *)
LEMMA OthersAreWhole ==
    ASSUME others \in Others, NEW d
    PROVE  AmountOfOthers(d) \in Nat /\ WeightedOfOthers(d) \in Nat
<1> DEFINE these == InDirection(others, d)
           amounts == [r \in these |-> r.amount]
           weighted == [r \in these |-> r.amount * RiskWeight[r.quality]]
<1>1. IsFiniteSet(these) /\ these \in SUBSET NetRecordOfOther
  <2>1. IsFiniteSet(others) /\ others \in SUBSET NetRecordOfOther
    BY ContractsAssumption
  <2>2. these \in SUBSET others
    BY DEF InDirection
  <2> QED
    BY <2>1, <2>2, FS_Subset
<1>2. \A r \in these : r.amount \in Nat /\ RiskWeight[r.quality] \in Nat
  BY <1>1, ContractsAssumption DEF NetRecordOfOther
<1>3. \A r \in these : amounts[r] \in Nat /\ weighted[r] \in Nat
  BY <1>2, ProductOfNats
<1>4. AmountOfOthers(d) = SumFunctionOnSet(amounts, these) /\ WeightedOfOthers(d) = SumFunctionOnSet(weighted, these)
  BY DEF AmountOfOthers, WeightedOfOthers, SumFunction
<1> HIDE DEF these, amounts, weighted
<1>5. SumFunctionOnSet(amounts, these) \in Nat /\ SumFunctionOnSet(weighted, these) \in Nat
  BY <1>1, <1>3, SumIsNatural
<1> QED
  BY <1>4, <1>5

(* An obligor of one quality is charged as its best netting would be.      *)
LEMMA ChargedAsBest ==
    ASSUME TypeOK, NInv, FlowInv, GreedyInv, ChargeInv, charge # NoAmount, OneQuality
    PROVE  charge = BestCharge(Positions) /\ charge # Refused
<1> DEFINE long == ScaledOf(Longs) - BestOffset(Positions)
           short == ScaledOf(Shorts) - BestOffset(Positions)
           weight == RiskWeight[TheQuality]
           a == long + AmountOfOthers("LONG")
           b == short + AmountOfOthers("SHORT")
           c == long * weight + WeightedOfOthers("LONG")
           d == short * weight + WeightedOfOthers("SHORT")
<1>1. /\ Done /\ contracts \in Contracts /\ others \in Others /\ charge = ChargeNow
  BY DEF ChargeInv
<1>2. charge = BucketCapital(NetAmount("LONG"), NetAmount("SHORT"),
                             WeightedAmount("LONG"), WeightedAmount("SHORT"))
  BY <1>1, RecordsAreOfOneQuality DEF ChargeNow
<1>3. charge = BucketCapital(a, b, c, d) /\ long \in Nat /\ short \in Nat
  BY <1>1, <1>2, AmountsOfRecords
<1>4. BestCharge(Positions) = BucketCapital(a, b, c, d)
  <2>1. Longs \cap Positions = Longs /\ Shorts \cap Positions = Shorts
    BY DEF Longs, Shorts
  <2> QED
    BY <2>1 DEF BestCharge, TheQuality
<1>5. weight \in Nat
  BY <1>1, QualityIsOfAll, ContractsAssumption
<1> HIDE DEF long, short, weight
<1>6. a \in Nat /\ b \in Nat /\ c \in Nat /\ d \in Nat
  <2>1. long * weight \in Nat /\ short * weight \in Nat
    BY <1>3, <1>5, ProductOfNats
  <2> QED
    BY <1>1, <1>3, <2>1, OthersAreWhole
<1> HIDE DEF a, b, c, d
<1>7. BucketCapital(a, b, c, d) \in [num : Int, den : Int]
  <2>1. c * (a + b) \in Nat /\ a * d \in Nat /\ a + b \in Nat
    BY <1>6, ProductOfNats
  <2>2. c * (a + b) - a * d \in Int
    BY <2>1
  <2> QED
    BY <2>1, <2>2 DEF BucketCapital, Most
<1> QED
  BY <1>3, <1>4, <1>7, RefusedAssumption
(* What every state of the capital calculation keeps.                      *)
ChargedInv == TypeOK /\ NInv /\ FlowInv /\ GreedyInv /\ ChargeInv

(* Every state of the capital calculation keeps the invariants of the      *)
(* netting, and of the charge.                                             *)
LEMMA ChargedAlways == CapitalSpec => []ChargedInv
<1>1. CapitalInit => ChargedInv
  <2> SUFFICES ASSUME CapitalInit PROVE ChargedInv
    OBVIOUS
  <2>1. Init
    BY BooksOfContracts DEF CapitalInit, Init
  <2>2. ChargeInv
    BY DEF CapitalInit, ChargeInv
  <2> QED
    BY <2>1, <2>2, InitTypeOK, InitNInv, FlowInit, GreedyInit DEF ChargedInv
<1>2. ChargedInv /\ [CapitalNext]_capitalVars => ChargedInv'
  <2> SUFFICES ASSUME ChargedInv, [CapitalNext]_capitalVars PROVE ChargedInv'
    OBVIOUS
  <2>1. [Next]_vars
    BY DEF CapitalNext, Net, Charge, capitalVars
  <2>2. TypeOK' /\ NInv' /\ FlowInv' /\ GreedyInv'
    BY <2>1, TypeStep, NStep, FlowStep, GreedyStep DEF ChargedInv
  <2>3. ChargeInv'
    BY ChargeStep DEF ChargedInv
  <2> QED
    BY <2>2, <2>3 DEF ChargedInv
<1> QED
  BY <1>1, <1>2, PTL DEF CapitalSpec

(* The order of the positions and the layers of the netting do not move    *)
(* the charge of an obligor of one quality: it is never refused, and costs *)
(* what the best netting of it would cost.                                 *)
THEOREM ChargeOfBestNetting == CapitalSpec => []ChargeIsOfBestNetting
<1>1. ChargedInv => ChargeIsOfBestNetting
  BY ChargedAsBest DEF ChargedInv, ChargeIsOfBestNetting, Equals
<1> QED
  BY <1>1, ChargedAlways, PTL

-----------------------------------------------------------------------------
(* A hedged pair.                                                          *)

(* What a group amounts to without one of its positions.                   *)
LEMMA ScaledWithout ==
    ASSUME TypeOK, NEW group \in SUBSET Positions, NEW p \in group
    PROVE  ScaledOf(group) = book[p].scaled + ScaledOf(group \ {p})
<1> DEFINE scaled == [q \in Positions |-> book[q].scaled]
<1>1. IsFiniteSet(group) /\ \A q \in group : scaled[q] = book[q].scaled /\ scaled[q] \in Int
  <2>1. \A q \in group : book[q].scaled \in Nat /\ scaled[q] = book[q].scaled
    BY FlowTypes
  <2>2. IsFiniteSet(group)
    BY ScaledTypes
  <2> HIDE DEF scaled
  <2> QED
    BY <2>1, <2>2
<1>2. ScaledOf(group) = SumFunctionOnSet(scaled, group) /\ ScaledOf(group \ {p}) = SumFunctionOnSet(scaled, group \ {p})
  BY DEF ScaledOf
<1> HIDE DEF scaled
<1>3. SumFunctionOnSet(scaled, group) = scaled[p] + SumFunctionOnSet(scaled, group \ {p})
  BY <1>1, SumOneOut
<1> QED
  BY <1>1, <1>2, <1>3

(* A long and a short position of one amount and seniority lower each cut, *)
(* and with it the best offset, by that amount.                            *)
LEMMA OffsetWithoutPair ==
    ASSUME TypeOK, NEW l \in Longs, NEW s \in Shorts,
           book[l].scaled = book[s].scaled, book[l].seniority = book[s].seniority
    PROVE  LET rest == Positions \ {l, s} IN
           /\ BestOffset(Positions) = BestOffset(rest) + book[l].scaled
           /\ ScaledOf(Longs) = ScaledOf(Longs \cap rest) + book[l].scaled
           /\ ScaledOf(Shorts) = ScaledOf(Shorts \cap rest) + book[l].scaled
<1> DEFINE rest == Positions \ {l, s}
           a == book[l].scaled
           r == Rank[book[l].seniority]
<1>1. l \in Positions /\ s \in Positions /\ l \notin Shorts /\ s \notin Longs
  BY DEF Longs, Shorts
<1>2. a \in Nat /\ a = book[s].scaled /\ r \in Nat /\ r = Rank[book[s].seniority]
  BY <1>1, FlowTypes, RankAssumption
<1>3. rest \in SUBSET Positions /\ Positions \in SUBSET Positions
  OBVIOUS
<1>4. \A part \in SUBSET Longs : l \in part => ScaledOf(part) = ScaledOf(part \cap rest) + a
  <2> TAKE part \in SUBSET Longs
  <2> HAVE l \in part
  <2>1. part \in SUBSET Positions /\ part \ {l} \in SUBSET Positions /\ part \cap rest = part \ {l}
    BY <1>1 DEF Longs
  <2>2. ScaledOf(part) = a + ScaledOf(part \ {l}) /\ ScaledOf(part \ {l}) \in Nat
    BY <2>1, ScaledWithout, ScaledTypes
  <2> DEFINE n == ScaledOf(part \ {l})
  <2>3. ScaledOf(part) = a + n /\ n \in Nat /\ ScaledOf(part \cap rest) = n
    BY <2>1, <2>2
  <2>4. a + n = n + a
    <3>1. a \in Nat
      BY <1>2
    <3> HIDE DEF n, a
    <3> QED
      BY <2>3, <3>1
  <2> QED
    BY <2>3, <2>4
<1>5. \A part \in SUBSET Shorts : s \in part => ScaledOf(part) = ScaledOf(part \cap rest) + a
  <2> TAKE part \in SUBSET Shorts
  <2> HAVE s \in part
  <2>1. part \in SUBSET Positions /\ part \ {s} \in SUBSET Positions /\ part \cap rest = part \ {s}
    BY <1>1 DEF Shorts
  <2>2. ScaledOf(part) = book[s].scaled + ScaledOf(part \ {s}) /\ ScaledOf(part \ {s}) \in Nat
    BY <2>1, ScaledWithout, ScaledTypes
  <2> DEFINE n == ScaledOf(part \ {s})
  <2>3. ScaledOf(part) = a + n /\ n \in Nat /\ ScaledOf(part \cap rest) = n
    BY <1>2, <2>1, <2>2
  <2>4. a + n = n + a
    <3>1. a \in Nat
      BY <1>2
    <3> HIDE DEF n, a
    <3> QED
      BY <2>3, <3>1
  <2> QED
    BY <2>3, <2>4
<1>6. ASSUME NEW t \in 0 .. LastCut PROVE Cut(Positions, t) = Cut(rest, t) + a
  <2>1. t \in Nat
    BY HighestRank
  <2>2. /\ LongsAbove(t) \in SUBSET Longs /\ ShortsFrom(t) \in SUBSET Shorts
        /\ LongsAbove(t) \cap Positions = LongsAbove(t) /\ ShortsFrom(t) \cap Positions = ShortsFrom(t)
    BY DEF LongsAbove, ShortsFrom, Longs, Shorts
  <2> DEFINE above == ScaledOf(LongsAbove(t) \cap rest)
             from == ScaledOf(ShortsFrom(t) \cap rest)
  <2>3. above \in Nat /\ from \in Nat
    BY <1>3, CutIsNatural
  <2>4. Cut(Positions, t) = ScaledOf(LongsAbove(t)) + ScaledOf(ShortsFrom(t)) /\ Cut(rest, t) = above + from
    BY <2>2 DEF Cut
  <2>5. CASE r < t
    <3>1. l \in LongsAbove(t)
      BY <2>5 DEF LongsAbove
    <3>2. ShortsFrom(t) \cap rest = ShortsFrom(t)
      BY <1>1, <1>2, <2>1, <2>2, <2>5 DEF ShortsFrom
    <3>3. ScaledOf(LongsAbove(t)) = above + a /\ ScaledOf(ShortsFrom(t)) = from
      BY <1>4, <2>2, <3>1, <3>2
    <3> HIDE DEF above, from, a
    <3> QED
      BY <1>2, <2>3, <2>4, <3>3
  <2>6. CASE r >= t
    <3>1. s \in ShortsFrom(t)
      BY <1>2, <2>6 DEF ShortsFrom
    <3>2. LongsAbove(t) \cap rest = LongsAbove(t)
      BY <1>1, <1>2, <2>1, <2>2, <2>6 DEF LongsAbove
    <3>3. ScaledOf(ShortsFrom(t)) = from + a /\ ScaledOf(LongsAbove(t)) = above
      BY <1>5, <2>2, <3>1, <3>2
    <3> HIDE DEF above, from, a
    <3> QED
      BY <1>2, <2>3, <2>4, <3>3
  <2> QED
    BY <1>2, <2>1, <2>5, <2>6
<1>7. Longs \in SUBSET Longs /\ Shorts \in SUBSET Shorts
  OBVIOUS
<1>8. ScaledOf(Longs) = ScaledOf(Longs \cap rest) + a /\ ScaledOf(Shorts) = ScaledOf(Shorts \cap rest) + a
  BY <1>4, <1>5, <1>7
<1>9. BestOffset(Positions) = BestOffset(rest) + a
  <2> DEFINE best == BestOffset(rest)
  <2>1. /\ best \in Nat /\ \A t \in 0 .. LastCut : best <= Cut(rest, t)
        /\ \E t \in 0 .. LastCut : best = Cut(rest, t)
    BY <1>3, LeastCut
  <2>2. \A t \in 0 .. LastCut : Cut(rest, t) \in Nat
    BY <1>3, CutIsNatural
  <2> HIDE DEF best, a, rest
  <2>3. best + a \in Nat /\ \A t \in 0 .. LastCut : best + a <= Cut(Positions, t)
    BY <1>2, <1>6, <2>1, <2>2
  <2>4. \E t \in 0 .. LastCut : best + a = Cut(Positions, t)
    BY <1>6, <2>1
  <2>5. BestOffset(Positions) = best + a
    BY <1>3, <2>3, <2>4, LeastCut
  <2> QED
    BY <2>5 DEF best
<1> QED
  BY <1>8, <1>9

(* A long and a short position on the same terms, whose profits mirror     *)
(* each other, are worth nothing together: the charge is that of the other *)
(* positions of the obligor.                                               *)
THEOREM HedgedPairsAreFree == CapitalSpec => []HedgedPairIsFree
<1>1. ASSUME ChargedInv, charge # NoAmount, OneQuality,
             NEW l \in Positions, NEW s \in Positions, Mirrors(l, s)
      PROVE  charge = BestCharge(Positions \ {l, s})
  <2> DEFINE rest == Positions \ {l, s}
             a == book[l].scaled
             long == ScaledOf(Longs \cap rest) - BestOffset(rest)
             short == ScaledOf(Shorts \cap rest) - BestOffset(rest)
  <2>1. TypeOK /\ contracts \in Contracts /\ book = BookOf(contracts)
    BY <1>1 DEF ChargedInv, ChargeInv
  <2>2. book[l] = ExposureOf(contracts[l]) /\ book[s] = ExposureOf(contracts[s])
    BY <2>1 DEF BookOf
  <2>3. book[l].scaled = book[s].scaled
    BY <1>1, <2>1, <2>2, MirroredExposuresAreEqual
  <2>4. contracts[l].direction = "LONG" /\ contracts[s].direction = "SHORT"
    BY <1>1 DEF Mirrors
  <2>5. contracts[l].seniority = contracts[s].seniority
    <3>1. contracts[l] \in Contract
      BY <2>1, ContractsAssumption
    <3>2. "seniority" \in DOMAIN contracts[l] \ {"direction", "pnl"}
      BY <3>1 DEF Contract
    <3> QED
      BY <1>1, <3>2 DEF Mirrors
  <2>6. /\ l \in Longs /\ s \in Shorts /\ book[l].seniority = book[s].seniority
    BY <2>2, <2>4, <2>5 DEF ExposureOf, Longs, Shorts
  <2>7. /\ BestOffset(Positions) = BestOffset(rest) + a
        /\ ScaledOf(Longs) = ScaledOf(Longs \cap rest) + a
        /\ ScaledOf(Shorts) = ScaledOf(Shorts \cap rest) + a
    BY <2>1, <2>3, <2>6, OffsetWithoutPair
  <2>8. /\ a \in Nat /\ BestOffset(rest) \in Nat
        /\ ScaledOf(Longs \cap rest) \in Nat /\ ScaledOf(Shorts \cap rest) \in Nat
    <3>1. rest \in SUBSET Positions /\ Longs \cap rest \in SUBSET Positions /\ Shorts \cap rest \in SUBSET Positions
      OBVIOUS
    <3> QED
      BY <2>1, <3>1, FlowTypes, ScaledTypes, LeastCut
  <2>9. Longs \cap Positions = Longs /\ Shorts \cap Positions = Shorts
    BY DEF Longs, Shorts
  <2>10. /\ ScaledOf(Longs \cap Positions) - BestOffset(Positions) = long
         /\ ScaledOf(Shorts \cap Positions) - BestOffset(Positions) = short
    <3> DEFINE x == ScaledOf(Longs \cap rest)
               y == ScaledOf(Shorts \cap rest)
               z == BestOffset(rest)
    <3> HIDE DEF a, x, y, z
    <3>1. (x + a) - (z + a) = x - z /\ (y + a) - (z + a) = y - z
      BY <2>8 DEF x, y, z
    <3> QED
      BY <2>7, <2>9, <3>1 DEF x, y, z
  <2>11. BestCharge(rest) = BestCharge(Positions)
    BY <2>10 DEF BestCharge
  <2> QED
    BY <1>1, <2>11, ChargedAsBest DEF ChargedInv
<1>2. ChargedInv => HedgedPairIsFree
  BY <1>1 DEF HedgedPairIsFree, Equals
<1> QED
  BY <1>2, ChargedAlways, PTL
=============================================================================
