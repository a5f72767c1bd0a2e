--------------------------- MODULE NmrfCapitalProofs ---------------------------
(***************************************************************************)
(* Theorems about NmrfCapital, for any factors, prices, policies, evidence *)
(* and artifacts.                                                          *)
(***************************************************************************)
EXTENDS NmrfCapital, InductionLemmas

(* The greater of two numbers.                                             *)
LEMMA MaxOfTwo ==
    ASSUME NEW a \in Nat, NEW b \in Nat
    PROVE  Max({a, b}) \in {a, b} /\ Max({a, b}) >= a /\ Max({a, b}) >= b
<1>1. \E x \in {a, b} : \A y \in {a, b} : x >= y
  <2>1. CASE a >= b
    BY <2>1
  <2>2. CASE b >= a
    BY <2>2
  <2> QED
    BY <2>1, <2>2
<1> QED
  BY <1>1 DEF Max

(* A sequence with one more element is a sequence.                         *)
LEMMA AppendIsSeq ==
    ASSUME NEW S, NEW s \in Seq(S), NEW e \in S
    PROVE  Append(s, e) \in Seq(S)
  OBVIOUS

(* No selected method is the linear one, and the fallback is one only with *)
(* its approval.                                                           *)
LEMMA MethodOfEvidence ==
    ASSUME NEW e \in MethodEvidence
    PROVE  /\ SelectNmrfMethod(e) \in (Methods \ {"LINEAR_SENSITIVITY"}) \cup {None}
           /\ SelectNmrfMethod(e) = "MAX_LOSS_FALLBACK" => e.fallback \/ None = "MAX_LOSS_FALLBACK"
  BY DEF SelectNmrfMethod, FallbackMethod, MethodEvidence, Methods

(* The two tests decide one of the statuses.                               *)
LEMMA ClassificationOfStatuses ==
    ASSUME NEW q, NEW p
    PROVE  StatusFromTests(q, p) \in ModellabilityStatus
  BY DEF StatusFromTests, ModellabilityStatus

(* What was asked of the engine for f.                                     *)
Ordered(f, spec) ==
    /\ spec.evidence \in MethodEvidence
    /\ spec.method = SelectNmrfMethod(spec.evidence)
    /\ spec.method # None
    /\ spec.horizon = EffectiveHorizon(f)

AllOrdered(specs) ==
    /\ DOMAIN specs \subseteq Factors
    /\ \A f \in DOMAIN specs : Ordered(f, specs[f])

(* The inductive invariant: a run has what its request ordered, and its    *)
(* verdict is of its own artifacts; a capital result is as it was made.    *)
ClassifiedInv ==
    /\ today \in Days
    /\ controls \in SomeControls
    /\ DOMAIN prices = Factors /\ \A f \in Factors : prices[f] \in Seq(Feed[f])
    /\ classified # None => classified \in Classifications

RunInv ==
    /\ returned \subseteq Engine /\ IsFiniteSet(returned)
    /\ request # None => AllOrdered(request.specs)
    /\ run # None =>
           /\ run.artifacts \subseteq Engine /\ IsFiniteSet(run.artifacts)
           /\ AllOrdered(run.request.specs)
           /\ run.passed = ReconciliationPassed(run.request.specs, run.artifacts, run.allowPrototype)

CapitalInv ==
    /\ capital # None => capital.imcc \cup DOMAIN capital.ses \subseteq Factors
    /\ FiguresAreOfTheRun
    /\ ApprovalReachesCapital

NInv == ClassifiedInv /\ RunInv /\ CapitalInv

(* At the start there is no run and no capital.                            *)
LEMMA InitNInv == Init => NInv
<1> SUFFICES ASSUME Init PROVE NInv
  OBVIOUS
<1>1. IsFiniteSet(returned)
  BY FS_EmptySet DEF Init
<1> QED
  BY <1>1, RfetAssumption DEF Init, NInv, ClassifiedInv, RunInv, CapitalInv, FiguresAreOfTheRun,
     ApprovalReachesCapital, Days

(* The steps before the capital.                                           *)
LEMMA RequestStep ==
    ASSUME NInv, NEW evidence \in SomeEvidence, NEW payload, NEW period, NEW regime,
           Request(evidence, payload, period, regime)
    PROVE  RunInv'
<1>1. evidence \in [Factors -> MethodEvidence]
  BY NmrfAssumption
<1>2. request'.specs = [f \in SesFactors(classified) |-> ValuationSpec(f, evidence[f], period)]
  BY DEF Request
<1>3. \A f \in SesFactors(classified) : Ordered(f, ValuationSpec(f, evidence[f], period))
  BY <1>1 DEF Request, Ordered, ValuationSpec, SesFactors
<1>4. AllOrdered(request'.specs)
  BY <1>2, <1>3 DEF AllOrdered, SesFactors
<1> QED
  BY <1>4 DEF Request, NInv, RunInv

(* An artifact delivered to the engine does not touch the run.             *)
LEMMA DeliverStep ==
    ASSUME NInv, NEW a \in Engine, Deliver(a)
    PROVE  RunInv'
<1>1. IsFiniteSet(returned \cup {a})
  BY FS_AddElement DEF NInv, RunInv
<1> QED
  BY <1>1 DEF Deliver, NInv, RunInv

(* A run that completes has the artifacts returned so far, and the verdict *)
(* of its own request on them.                                             *)
LEMMA CompleteStep ==
    ASSUME NInv, NEW allowed, CompleteNmrfValuationRun(allowed)
    PROVE  RunInv'
<1>1. /\ run'.request = request /\ run'.artifacts = returned /\ run'.allowPrototype = allowed
      /\ run'.passed = ReconciliationPassed(request.specs, returned, allowed)
  BY DEF CompleteNmrfValuationRun
<1>2. IsFiniteSet(returned')
  BY FS_EmptySet DEF CompleteNmrfValuationRun
<1> QED
  BY <1>1, <1>2 DEF CompleteNmrfValuationRun, NInv, RunInv

(* The figure chosen for a factor is an artifact for it.                   *)
LEMMA FigureIsArtifact ==
    ASSUME NEW artifacts, NEW f, ArtifactsOf(f, artifacts) # {}
    PROVE  (CHOOSE a \in artifacts : a.factor = f) \in ArtifactsOf(f, artifacts)
  BY DEF ArtifactsOf

(* Capital calculated from a run has a figure for a factor only where the  *)
(* run had ordered it, and never without the approval it needs.            *)
LEMMA RunFigures ==
    ASSUME NInv, run # None, NEW regime, NEW linear, CapitalFromRun(regime, linear)
    PROVE  FiguresAreOfTheRun' /\ ApprovalReachesCapital'
<1> DEFINE specs == run.request.specs
           required == [f \in Factors |-> IF f \in DOMAIN specs THEN specs[f] ELSE None]
           figure(f) == CHOOSE a \in run.artifacts : a.factor = f
<1>1. /\ CalculateNmrfCapital(run.artifacts, regime, required, linear, FALSE, run)
      /\ run.passed
  BY DEF CapitalFromRun
<1>2. /\ capital'.status = classified
      /\ capital'.imcc = ImccFactors(classified, regime)
      /\ capital'.ses = [f \in SesFactors(classified) |-> figure(f)]
      /\ capital'.origin = run
  BY <1>1 DEF CalculateNmrfCapital
<1>3. ArtifactsAccepted(classified, run.artifacts, required)
      /\ MethodsApproved(run.artifacts, required, linear, FALSE)
  BY <1>1 DEF CalculateNmrfCapital
<1>4. ReconciliationPassed(specs, run.artifacts, run.allowPrototype) /\ AllOrdered(specs)
      /\ IsFiniteSet(run.artifacts)
  BY <1>1 DEF NInv, RunInv
<1>5. \A f \in DOMAIN specs : ArtifactsOf(f, run.artifacts) = {figure(f)}
  <2> SUFFICES ASSUME NEW f \in DOMAIN specs
               PROVE  ArtifactsOf(f, run.artifacts) = {figure(f)}
    OBVIOUS
  <2>1. IsFiniteSet(ArtifactsOf(f, run.artifacts)) /\ Cardinality(ArtifactsOf(f, run.artifacts)) = 1
    BY <1>4, FS_Subset DEF ArtifactsOf, ReconciliationPassed
  <2>2. PICK x : ArtifactsOf(f, run.artifacts) = {x}
    BY <2>1, FS_Singleton
  <2> QED
    BY <2>2, FigureIsArtifact
<1>6. DOMAIN specs = SesFactors(classified)
  <2>1. \A f \in DOMAIN specs : f \in SesFactors(classified)
    BY <1>3, <1>5 DEF ArtifactsAccepted, SesFactors, ArtifactsOf
  <2>2. ASSUME NEW f \in SesFactors(classified) PROVE f \in DOMAIN specs
    <3>1. PICK a \in ArtifactsOf(f, run.artifacts) : TRUE
      BY <1>3 DEF ArtifactsAccepted
    <3>2. a \in run.artifacts /\ a.factor = f
      BY DEF ArtifactsOf
    <3> QED
      BY <3>2, <1>4 DEF ReconciliationPassed
  <2> QED
    BY <2>1, <2>2
<1>7. \A f \in DOMAIN specs : Reconciles(specs[f], figure(f), run.allowPrototype)
  BY <1>4, <1>5 DEF ReconciliationPassed
<1>8. \A f \in DOMAIN specs : Ordered(f, specs[f])
  BY <1>4 DEF AllOrdered
<1> HIDE DEF specs, figure, required
<1>9. FiguresAreOfTheRun'
  <2>1. capital'.imcc \cup DOMAIN capital'.ses = Factors
    BY <1>2 DEF ImccFactors, SesFactors, IsNmrf
  <2>2. \A f \in DOMAIN specs :
            LET a == capital'.ses[f]
            IN  /\ ArtifactsOf(f, run.artifacts) = {a}
                /\ a.method = specs[f].method /\ a.period = specs[f].period
                /\ a.complete /\ a.horizon >= Max({Horizon[f], 20})
    BY <1>2, <1>5, <1>6, <1>7, <1>8 DEF Reconciles, Ordered, EffectiveHorizon, MinimumHorizon
  <2> QED
    BY <1>2, <1>6, <2>1, <2>2 DEF FiguresAreOfTheRun, specs
<1>10. ApprovalReachesCapital'
  <2>1. \A f \in DOMAIN specs :
            LET a == capital'.ses[f]
            IN  /\ a.method = "MAX_LOSS_FALLBACK" => specs[f].evidence.fallback
                /\ a.method # "LINEAR_SENSITIVITY"
                /\ a.prototype => run.allowPrototype
    BY <1>2, <1>6, <1>7, <1>8, MethodOfEvidence DEF Reconciles, Ordered
  <2> QED
    BY <1>2, <1>6, <2>1 DEF ApprovalReachesCapital, specs
<1> QED
  BY <1>9, <1>10

(* Without a run the caller of the calculation gives the approvals.        *)
LEMMA ArtifactFigures ==
    ASSUME NInv, NEW regime, NEW linear, NEW maxLoss, CapitalFromArtifacts(regime, linear, maxLoss)
    PROVE  FiguresAreOfTheRun' /\ ApprovalReachesCapital'
<1> DEFINE required == [f \in Factors |-> None]
           figure(f) == CHOOSE a \in returned : a.factor = f
<1>1. CalculateNmrfCapital(returned, regime, required, linear, maxLoss, None)
  BY DEF CapitalFromArtifacts
<1>2. /\ capital'.status = classified
      /\ capital'.imcc = ImccFactors(classified, regime)
      /\ capital'.ses = [f \in SesFactors(classified) |-> figure(f)]
      /\ capital'.origin = None /\ capital'.allowLinear = linear /\ capital'.allowMaxLoss = maxLoss
  BY <1>1 DEF CalculateNmrfCapital
<1>3. /\ ArtifactsAccepted(classified, returned, required)
      /\ MethodsApproved(returned, required, linear, maxLoss)
  BY <1>1 DEF CalculateNmrfCapital
<1>4. \A f \in SesFactors(classified) : figure(f) \in returned /\ figure(f).factor = f
  BY <1>3, FigureIsArtifact DEF ArtifactsAccepted, ArtifactsOf
<1>5. \A f \in SesFactors(classified) :
          /\ figure(f).method = "MAX_LOSS_FALLBACK" => maxLoss
          /\ figure(f).method = "LINEAR_SENSITIVITY" => linear
  BY <1>3, <1>4 DEF MethodsApproved, SesFactors
<1>6. capital'.imcc \cup DOMAIN capital'.ses = Factors
  BY <1>2 DEF ImccFactors, SesFactors, IsNmrf
<1> HIDE DEF figure, required
<1> QED
  BY <1>2, <1>5, <1>6 DEF FiguresAreOfTheRun, ApprovalReachesCapital

(* Capital is of the factors there are.                                    *)
LEMMA CapitalOfFactors ==
    ASSUME NEW artifacts, NEW regime, NEW required, NEW linear, NEW maxLoss, NEW origin,
           CalculateNmrfCapital(artifacts, regime, required, linear, maxLoss, origin)
    PROVE  capital'.imcc \cup DOMAIN capital'.ses \subseteq Factors
  BY DEF CalculateNmrfCapital, ImccFactors, SesFactors

(* Capital that stays keeps what was true when it was made.                *)
LEMMA CapitalUnchanged == CapitalInv /\ UNCHANGED capital => CapitalInv'
  BY DEF CapitalInv, FiguresAreOfTheRun, ApprovalReachesCapital

(* Every action keeps the inductive invariant.                             *)
LEMMA NStep == NInv /\ [Next]_vars => NInv'
<1> SUFFICES ASSUME NInv, [Next]_vars PROVE NInv'
  OBVIOUS
<1>1. ASSUME NEW f \in Factors, NEW o \in Feed[f], Observe(f, o) PROVE NInv'
  <2>1. prices[f] \in Seq(Feed[f]) /\ prices' = [prices EXCEPT ![f] = Append(@, o)]
    BY <1>1 DEF Observe, NInv, ClassifiedInv
  <2>2. Append(prices[f], o) \in Seq(Feed[f])
    BY <2>1, AppendIsSeq
  <2>3. DOMAIN prices' = Factors
    BY <2>1 DEF NInv, ClassifiedInv
  <2>4. \A g \in Factors : prices'[g] = IF g = f THEN Append(prices[f], o) ELSE prices[g]
    BY <2>1 DEF NInv, ClassifiedInv
  <2>5. \A g \in Factors : prices'[g] \in Seq(Feed[g])
    BY <2>2, <2>4 DEF NInv, ClassifiedInv
  <2> QED
    BY <1>1, <2>3, <2>5, CapitalUnchanged DEF Observe, NInv, ClassifiedInv, RunInv
<1>2. ASSUME NextDay PROVE NInv'
  BY <1>2, RfetAssumption, CapitalUnchanged DEF NextDay, NInv, ClassifiedInv, RunInv, Days
<1>3. ASSUME Classify PROVE NInv'
  <2>1. classified' \in Classifications
    BY <1>3, ClassificationOfStatuses DEF Classify, Classifications, AssessRfetEvidence
  <2> QED
    BY <1>3, <2>1, CapitalUnchanged DEF Classify, NInv, ClassifiedInv, RunInv
<1>4. ASSUME NEW evidence \in SomeEvidence, NEW payload, NEW period, NEW regime,
             Request(evidence, payload, period, regime)
      PROVE  NInv'
  BY <1>4, RequestStep, CapitalUnchanged DEF Request, NInv, ClassifiedInv
<1>5. ASSUME NEW a \in Engine, Deliver(a) PROVE NInv'
  BY <1>5, DeliverStep, CapitalUnchanged DEF Deliver, NInv, ClassifiedInv
<1>6. ASSUME NEW allowed, CompleteNmrfValuationRun(allowed) PROVE NInv'
  BY <1>6, CompleteStep, CapitalUnchanged DEF CompleteNmrfValuationRun, NInv, ClassifiedInv
<1>7. ASSUME NEW regime, NEW linear, CapitalFromRun(regime, linear) PROVE NInv'
  <2>1. CapitalInv'
    BY <1>7, RunFigures, CapitalOfFactors DEF CapitalInv, CapitalFromRun
  <2> QED
    BY <1>7, <2>1 DEF CapitalFromRun, CalculateNmrfCapital, NInv, ClassifiedInv, RunInv
<1>8. ASSUME NEW regime, NEW linear, NEW maxLoss, CapitalFromArtifacts(regime, linear, maxLoss)
      PROVE  NInv'
  <2>1. CapitalInv'
    BY <1>8, ArtifactFigures, CapitalOfFactors DEF CapitalInv, CapitalFromArtifacts
  <2> QED
    BY <1>8, <2>1 DEF CapitalFromArtifacts, CalculateNmrfCapital, NInv, ClassifiedInv, RunInv
<1>9. ASSUME UNCHANGED vars PROVE NInv'
  BY <1>9, CapitalUnchanged DEF vars, NInv, ClassifiedInv, RunInv
<1> QED
  BY <1>1, <1>2, <1>3, <1>4, <1>5, <1>6, <1>7, <1>8, <1>9 DEF Next, Step, Finished

(* The inductive invariant holds in every state.                           *)
LEMMA NmrfInvariant == Spec => []NInv
  BY InitNInv, NStep, PTL DEF Spec

(* Types and ranges; the horizon asked of the engine is at least 20 days.  *)
THEOREM NmrfTypeCorrect == Spec => []TypeOK
<1>1. NInv => TypeOK
  <2> SUFFICES ASSUME NInv PROVE TypeOK
    OBVIOUS
  <2>1. request # None => \A f \in DOMAIN request.specs :
            /\ request.specs[f].method \in Methods \ {"LINEAR_SENSITIVITY"}
            /\ request.specs[f].horizon >= 20
    <3> SUFFICES ASSUME request # None, NEW f \in DOMAIN request.specs
                 PROVE  /\ request.specs[f].method \in Methods \ {"LINEAR_SENSITIVITY"}
                        /\ request.specs[f].horizon >= 20
      OBVIOUS
    <3>1. Ordered(f, request.specs[f]) /\ f \in Factors
      BY DEF NInv, RunInv, AllOrdered
    <3>2. EffectiveHorizon(f) >= 20
      BY <3>1, RfetAssumption, MaxOfTwo DEF EffectiveHorizon, MinimumHorizon
    <3> QED
      BY <3>1, <3>2, MethodOfEvidence DEF Ordered
  <2>2. run # None => run.passed \in BOOLEAN
    BY DEF NInv, RunInv, ReconciliationPassed
  <2> QED
    BY <2>1, <2>2 DEF TypeOK, NInv, ClassifiedInv, RunInv, CapitalInv
<1> QED
  BY <1>1, NmrfInvariant, PTL

(* Whatever arrives or is classified anew between the order and its use, a *)
(* figure is the one artifact that the run it comes from had ordered.      *)
THEOREM FiguresBelongToTheRun == Spec => []FiguresAreOfTheRun
<1>1. NInv => FiguresAreOfTheRun
  BY DEF NInv, CapitalInv
<1> QED
  BY <1>1, NmrfInvariant, PTL

(* No figure is a fallback, an approximation or a prototype that nobody    *)
(* approved.                                                               *)
THEOREM ApprovalsReachCapital == Spec => []ApprovalReachesCapital
<1>1. NInv => ApprovalReachesCapital
  BY DEF NInv, CapitalInv
<1> QED
  BY <1>1, NmrfInvariant, PTL

-----------------------------------------------------------------------------
(* The counting loops.                                                     *)

(* What is observed: prices with a date and a defect, or none.             *)
Observed(O) == \A o \in O : o.date \in Int /\ o.defect \in Defects

(* The key that is sorted by tells all places apart.                       *)
LEMMA KeysApart ==
    ASSUME NEW L \in Nat, NEW a \in Int, NEW b \in Int, NEW i \in 1 .. L, NEW j \in 1 .. L,
           a * L + i = b * L + j
    PROVE  i = j
<1>1. \A x \in Int : \A d \in Nat : d >= 1 => (x + d) * L >= x * L + L
  <2>1. \A x \in Int : \A d \in Nat : (x + d) * L = x * L + d * L
    OBVIOUS
  <2>2. \A d \in Nat : d >= 1 => d * L >= L
    OBVIOUS
  <2>3. \A x \in Int : x * L \in Int
    OBVIOUS
  <2> QED
    BY <2>1, <2>2, <2>3
<1>2. a * L \in Int /\ b * L \in Int
  OBVIOUS
<1>3. CASE a < b
  <2>1. b - a \in Nat /\ b - a >= 1 /\ a + (b - a) = b
    BY <1>3
  <2>2. b * L >= a * L + L
    BY <1>1, <2>1
  <2> QED
    BY <1>2, <2>2
<1>4. CASE b < a
  <2>1. a - b \in Nat /\ a - b >= 1 /\ b + (a - b) = a
    BY <1>4
  <2>2. a * L >= b * L + L
    BY <1>1, <2>1
  <2> QED
    BY <1>2, <2>2
<1>5. CASE a = b
  BY <1>2, <1>5
<1> QED
  BY <1>3, <1>4, <1>5

(* Sorting loses no observation and adds none.                             *)
LEMMA SortIsRearrangement ==
    ASSUME NEW O, Observed(O), NEW observations \in Seq(O)
    PROVE  /\ DOMAIN SortedByDate(observations) = 1 .. Len(observations)
           /\ \A n \in 1 .. Len(observations) :
                /\ SortedByDate(observations)[n] \in O
                /\ \E i \in 1 .. Len(observations) : SortedByDate(observations)[n] = observations[i]
           /\ \A i \in 1 .. Len(observations) :
                \E n \in 1 .. Len(observations) : SortedByDate(observations)[n] = observations[i]
<1> DEFINE L == Len(observations)
           key == [i \in 1 .. L |-> observations[i].date * L + i]
           place == RankIn(1 .. L, key)
           sorted == [n \in 1 .. L |-> observations[CHOOSE i \in 1 .. L : place[i] = n]]
<1>1. L \in Nat /\ DOMAIN observations = 1 .. L /\ \A i \in 1 .. L : observations[i] \in O
  OBVIOUS
<1> HIDE DEF L
<1>2. IsFiniteSet(1 .. L) /\ Cardinality(1 .. L) = L
  BY <1>1, FS_Interval
<1>3. \A i \in 1 .. L : observations[i].date \in Int /\ observations[i].date * L \in Int
  BY <1>1 DEF Observed
<1>4. key \in [1 .. L -> Int]
  BY <1>1, <1>3
<1>5. \A i, j \in 1 .. L : key[i] = key[j] => i = j
  BY <1>1, <1>3, KeysApart
<1>6. SortedByDate(observations) = sorted
  BY <1>1 DEF SortedByDate, RankIn, L
<1> HIDE DEF key
<1>7. /\ place \in [1 .. L -> 1 .. L]
      /\ \A i, j \in 1 .. L : place[i] < place[j] <=> key[i] < key[j]
      /\ \A n \in 1 .. L : \E i \in 1 .. L : place[i] = n
  <2> DEFINE S == 1 .. L
             n == Cardinality(S)
  <2>1. IsFiniteSet(S) /\ key \in [S -> Int] /\ (\A x, y \in S : key[x] = key[y] => x = y) /\ n = L
    BY <1>2, <1>4, <1>5
  <2>2. place = RankIn(S, key) /\ S = 1 .. L
    OBVIOUS
  <2> HIDE DEF S, place, n
  <2>3. /\ RankIn(S, key) \in [S -> 1 .. n]
        /\ \A x, y \in S : RankIn(S, key)[x] < RankIn(S, key)[y] <=> key[x] < key[y]
        /\ \A i \in 1 .. n : \E x \in S : RankIn(S, key)[x] = i
    BY <2>1, RankIsPlace DEF n
  <2> QED
    BY <2>1, <2>2, <2>3
<1> HIDE DEF place
<1>8. \A i, j \in 1 .. L : place[i] = place[j] => i = j
  <2> SUFFICES ASSUME NEW i \in 1 .. L, NEW j \in 1 .. L, place[i] = place[j] PROVE i = j
    OBVIOUS
  <2>1. place[i] \in Int /\ place[j] \in Int /\ key[i] \in Int /\ key[j] \in Int
    BY <1>1, <1>4, <1>7
  <2>2. ~ (key[i] < key[j]) /\ ~ (key[j] < key[i])
    BY <1>7, <2>1
  <2> QED
    BY <1>5, <2>1, <2>2
<1>9. \A n \in 1 .. L : /\ (CHOOSE i \in 1 .. L : place[i] = n) \in 1 .. L
                        /\ place[CHOOSE i \in 1 .. L : place[i] = n] = n
  BY <1>7
<1>10. \A i \in 1 .. L : place[i] \in 1 .. L /\ (CHOOSE j \in 1 .. L : place[j] = place[i]) = i
  BY <1>7, <1>8, <1>9
<1>11. /\ DOMAIN sorted = 1 .. L
       /\ \A n \in 1 .. L : sorted[n] \in O /\ \E i \in 1 .. L : sorted[n] = observations[i]
       /\ \A i \in 1 .. L : \E n \in 1 .. L : sorted[n] = observations[i]
  <2>1. \A n \in 1 .. L : sorted[n] = observations[CHOOSE i \in 1 .. L : place[i] = n]
    OBVIOUS
  <2>2. \A i \in 1 .. L : sorted[place[i]] = observations[i] /\ place[i] \in 1 .. L
    BY <1>10, <2>1
  <2> HIDE DEF sorted
  <2>3. \A n \in 1 .. L : \E i \in 1 .. L : sorted[n] = observations[i]
    BY <1>9, <2>1
  <2>4. DOMAIN sorted = 1 .. L
    BY DEF sorted
  <2> QED
    BY <1>1, <2>2, <2>3, <2>4
<1> HIDE DEF sorted
<1> QED
  BY <1>6, <1>11 DEF L

(* Why an observation does not count.                                      *)
Reasons == Defects \cup Duplicates
               \cup {"FUTURE_OBSERVATION", "OUTSIDE_LOOKBACK", "NON_BUSINESS_DATE", "NON_REPRESENTATIVE"}

(* The first tests give no reason that is one of duplication, and pass     *)
(* every usable price on to the older counting.                            *)
LEMMA ReasonOfObservation ==
    ASSUME NEW o, o.date \in Int, o.defect \in Defects, NEW asOf \in Int
    PROVE  /\ PreRepresentativenessReason(o, asOf) \in Reasons \ Duplicates
           /\ Usable(o, asOf) => Admitted(o, asOf)
<1>1. LookbackStart(asOf) \in Int
  BY RfetAssumption DEF LookbackStart
<1> QED
  BY <1>1 DEF PreRepresentativenessReason, Reasons, Defects, Duplicates, InWindow, Usable, Admitted

(* What the loop does with one observation.                                *)
LEMMA ReasonOfStage ==
    ASSUME NEW o, o.date \in Int, o.defect \in Defects, NEW asOf \in Int, NEW rep \in BOOLEAN, NEW a
    PROVE  /\ ExclusionReason(a, o, asOf, rep) \in Reasons
           /\ ExclusionReason(a, o, asOf, rep) = "none" <=>
                /\ Usable(o, asOf) /\ rep
                /\ LineageKey(o) \notin a.keys /\ o.date \notin a.dates
           /\ ExclusionReason(a, o, asOf, rep) \in Duplicates <=>
                /\ Usable(o, asOf) /\ rep
                /\ LineageKey(o) \in a.keys \/ o.date \in a.dates
           /\ ExclusionReason(a, o, asOf, rep) = "DUPLICATE_SOURCE_VENDOR" <=>
                Usable(o, asOf) /\ rep /\ LineageKey(o) \in a.keys
<1>1. PreRepresentativenessReason(o, asOf) \in Reasons \ Duplicates
  BY ReasonOfObservation
<1> QED
  BY <1>1 DEF ExclusionReason, Usable, Reasons, Duplicates

(* The values that the loops go through.                                   *)
Stages(O) == [eligible : Seq(O), exclusions : Seq(Reasons),
              keys : SUBSET {LineageKey(o) : o \in O}, dates : SUBSET Int]
Raws(O) == [byLineage : Nat, byDate : Nat, keys : SUBSET {LineageKey(o) : o \in O}, dates : SUBSET Int]
Simples(O) == [keys : SUBSET {LineageKey(o) : o \in O}, dates : SUBSET Int]

(* What the loop does with one observation: it is eligible, with its key   *)
(* and its date remembered, or it is excluded with one reason.             *)
LEMMA CountTypes ==
    ASSUME NEW O, Observed(O), NEW o \in O, NEW asOf \in Int, NEW rep \in BOOLEAN, NEW a \in Stages(O)
    PROVE  /\ Count(a, o, asOf, rep) \in Stages(O)
           /\ ExclusionReason(a, o, asOf, rep) = "none" =>
                /\ Count(a, o, asOf, rep).eligible = Append(a.eligible, o)
                /\ Count(a, o, asOf, rep).exclusions = a.exclusions
                /\ Count(a, o, asOf, rep).keys = a.keys \cup {LineageKey(o)}
                /\ Count(a, o, asOf, rep).dates = a.dates \cup {o.date}
           /\ ExclusionReason(a, o, asOf, rep) # "none" =>
                /\ Count(a, o, asOf, rep).eligible = a.eligible
                /\ Count(a, o, asOf, rep).exclusions = Append(a.exclusions, ExclusionReason(a, o, asOf, rep))
                /\ Count(a, o, asOf, rep).keys = a.keys /\ Count(a, o, asOf, rep).dates = a.dates
<1> DEFINE reason == ExclusionReason(a, o, asOf, rep)
           next == Count(a, o, asOf, rep)
<1>1. o.date \in Int /\ o.defect \in Defects
  BY DEF Observed
<1>2. reason \in Reasons
  BY <1>1, ReasonOfStage
<1>3. /\ a.eligible \in Seq(O) /\ a.exclusions \in Seq(Reasons)
      /\ a.keys \in SUBSET {LineageKey(p) : p \in O} /\ a.dates \in SUBSET Int
      /\ a = [eligible |-> a.eligible, exclusions |-> a.exclusions, keys |-> a.keys, dates |-> a.dates]
  BY DEF Stages
<1>4. Append(a.eligible, o) \in Seq(O) /\ Append(a.exclusions, reason) \in Seq(Reasons)
  BY <1>2, <1>3, AppendIsSeq
<1>5. /\ a.keys \cup {LineageKey(o)} \in SUBSET {LineageKey(p) : p \in O}
      /\ a.dates \cup {o.date} \in SUBSET Int
  BY <1>1, <1>3
<1>6. CASE reason = "none"
  <2>1. next = [eligible |-> Append(a.eligible, o), exclusions |-> a.exclusions,
                keys |-> a.keys \cup {LineageKey(o)}, dates |-> a.dates \cup {o.date}]
    BY <1>3, <1>6 DEF Count
  <2> QED
    BY <1>3, <1>4, <1>5, <1>6, <2>1 DEF Stages
<1>7. CASE reason # "none"
  <2>1. next = [eligible |-> a.eligible, exclusions |-> Append(a.exclusions, reason),
                keys |-> a.keys, dates |-> a.dates]
    BY <1>3, <1>7 DEF Count
  <2> QED
    BY <1>3, <1>4, <1>7, <2>1 DEF Stages
<1> QED
  BY <1>6, <1>7

(* What the loop that counts duplicates does with one observation: it      *)
(* looks at the usable ones only.                                          *)
LEMMA DuplicateTypes ==
    ASSUME NEW O, Observed(O), NEW o \in O, NEW asOf \in Int, NEW b \in Raws(O)
    PROVE  /\ CountDuplicate(b, o, asOf) \in Raws(O)
           /\ ~Usable(o, asOf) => CountDuplicate(b, o, asOf) = b
           /\ Usable(o, asOf) =>
                /\ CountDuplicate(b, o, asOf).keys = b.keys \cup {LineageKey(o)}
                /\ CountDuplicate(b, o, asOf).dates = b.dates \cup {o.date}
                /\ CountDuplicate(b, o, asOf).byLineage =
                     b.byLineage + (IF LineageKey(o) \in b.keys THEN 1 ELSE 0)
                /\ CountDuplicate(b, o, asOf).byDate =
                     b.byDate + (IF LineageKey(o) \notin b.keys /\ o.date \in b.dates THEN 1 ELSE 0)
<1>1. o.date \in Int
  BY DEF Observed
<1>2. /\ b.byLineage \in Nat /\ b.byDate \in Nat
      /\ b.keys \in SUBSET {LineageKey(p) : p \in O} /\ b.dates \in SUBSET Int
      /\ b = [byLineage |-> b.byLineage, byDate |-> b.byDate, keys |-> b.keys, dates |-> b.dates]
  BY DEF Raws
<1>3. CASE Usable(o, asOf)
  <2> DEFINE byLineage == b.byLineage + (IF LineageKey(o) \in b.keys THEN 1 ELSE 0)
             byDate == b.byDate + (IF LineageKey(o) \notin b.keys /\ o.date \in b.dates THEN 1 ELSE 0)
  <2>1. byLineage \in Nat /\ byDate \in Nat
    BY <1>2
  <2>2. b.keys \cup {LineageKey(o)} \in SUBSET {LineageKey(p) : p \in O} /\ b.dates \cup {o.date} \in SUBSET Int
    BY <1>1, <1>2
  <2>3. CountDuplicate(b, o, asOf) =
          [byLineage |-> byLineage, byDate |-> byDate,
           keys |-> b.keys \cup {LineageKey(o)}, dates |-> b.dates \cup {o.date}]
    BY <1>2, <1>3 DEF CountDuplicate
  <2> QED
    BY <1>3, <2>1, <2>2, <2>3 DEF Raws
<1>4. CASE ~Usable(o, asOf)
  BY <1>4 DEF CountDuplicate
<1> QED
  BY <1>3, <1>4

(* What the older counting does with one observation.                      *)
LEMMA SimpleTypes ==
    ASSUME NEW O, Observed(O), NEW o \in O, NEW asOf \in Int, NEW c \in Simples(O)
    PROVE  CountSimply(c, o, asOf) \in Simples(O)
<1>1. o.date \in Int
  BY DEF Observed
<1> QED
  BY <1>1 DEF CountSimply, Simples

(* The loops as the functions that FoldLeft chooses.                       *)
NoDuplicates == [byLineage |-> 0, byDate |-> 0, keys |-> {}, dates |-> {}]
NoneSeen == [keys |-> {}, dates |-> {}]

StageOf(s, asOf, rep) ==
    CHOOSE iter : iter = [p \in SUBSET DOMAIN s |->
        IF p = {} THEN Nothing ELSE Count(iter[p \ {Max(p)}], s[Max(p)], asOf, rep)]
RawOf(s, asOf) ==
    CHOOSE iter : iter = [p \in SUBSET DOMAIN s |->
        IF p = {} THEN NoDuplicates ELSE CountDuplicate(iter[p \ {Max(p)}], s[Max(p)], asOf)]
SimpleOf(s, asOf) ==
    CHOOSE iter : iter = [p \in SUBSET DOMAIN s |->
        IF p = {} THEN NoneSeen ELSE CountSimply(iter[p \ {Max(p)}], s[Max(p)], asOf)]

(* The stage is the fold over the sorted prices, to its end.               *)
LEMMA StageUnfold ==
    ASSUME NEW observations, NEW asOf, NEW rep
    PROVE  QuantitativeStage(observations, asOf, rep) =
               StageOf(SortedByDate(observations), asOf, rep)[DOMAIN SortedByDate(observations)]
  BY DEF QuantitativeStage, FoldLeft, MapThenFoldSet, StageOf

(* So are the duplicates.                                                  *)
LEMMA RawUnfold ==
    ASSUME NEW observations, NEW asOf
    PROVE  RawDuplicateCounts(observations, asOf) =
               RawOf(SortedByDate(observations), asOf)[DOMAIN SortedByDate(observations)]
  BY DEF RawDuplicateCounts, FoldLeft, MapThenFoldSet, RawOf, NoDuplicates

(* And the older counting, over the prices as they came.                   *)
LEMMA SimpleUnfold ==
    ASSUME NEW observations, NEW asOf
    PROVE  CountEligibleObservations(observations, asOf) =
               Cardinality(SimpleOf(observations, asOf)[DOMAIN observations].dates)
  BY DEF CountEligibleObservations, FoldLeft, MapThenFoldSet, SimpleOf, NoneSeen

(* One observation after the other.                                        *)
LEMMA StageSteps ==
    ASSUME NEW O, Observed(O), NEW n \in Nat, NEW s, DOMAIN s = 1 .. n, \A k \in 1 .. n : s[k] \in O,
           NEW asOf \in Int, NEW rep \in BOOLEAN
    PROVE  /\ StageOf(s, asOf, rep)[{}] = Nothing
           /\ \A k \in 1 .. n : StageOf(s, asOf, rep)[1 .. k] =
                Count(StageOf(s, asOf, rep)[1 .. (k - 1)], s[k], asOf, rep)
<1> DEFINE A == Stages(O)
           g == [x \in (1 .. n) \X A |-> Count(x[2], s[x[1]], asOf, rep)]
           Value(f, p) == IF p = {} THEN Nothing ELSE Count(f[p \ {Max(p)}], s[Max(p)], asOf, rep)
           Loop(f) == [p \in SUBSET (1 .. n) |-> Value(f, p)]
           h == StageOf(s, asOf, rep)
<1>1. Nothing \in A
  BY DEF Nothing, Stages
<1>2. /\ \A k \in 1 .. n : \A a \in A : g[<<k, a>>] = Count(a, s[k], asOf, rep)
      /\ g \in [(1 .. n) \X A -> A]
  <2>1. \A x \in (1 .. n) \X A : Count(x[2], s[x[1]], asOf, rep) \in A
    <3> TAKE x \in (1 .. n) \X A
    <3>1. x[1] \in 1 .. n /\ x[2] \in A
      OBVIOUS
    <3> HIDE DEF A
    <3> QED
      BY <3>1, CountTypes DEF A
  <2> QED
    BY <2>1
<1> HIDE DEF g, A
<1>3. PICK f : FoldsFrom(f, Nothing, g, n, A)
  BY <1>1, <1>2, FoldExists
<1>4. \A p \in SUBSET (1 .. n) : p # {} => Max(p) \in 1 .. n /\ f[p \ {Max(p)}] \in A
  BY <1>3, MaximumOfPart DEF FoldsFrom
<1>5. \A p \in SUBSET (1 .. n) : f[p] = Value(f, p)
  BY <1>2, <1>3, <1>4 DEF FoldsFrom
<1>6. f = Loop(f)
  <2>1. \A p \in SUBSET (1 .. n) : Loop(f)[p] = f[p]
    BY <1>5
  <2> QED
    BY <1>3, <2>1 DEF FoldsFrom
<1>7. h = Loop(h)
  BY <1>6 DEF StageOf
<1>8. \A p \in SUBSET (1 .. n) : h[p] = Value(h, p)
  <2>1. \A p \in SUBSET (1 .. n) : Loop(h)[p] = Value(h, p)
    OBVIOUS
  <2> HIDE DEF Loop, Value, h
  <2> QED
    BY <1>7, <2>1
<1> HIDE DEF h
<1>9. \A k \in 1 .. n : h[1 .. k] = Count(h[1 .. (k - 1)], s[k], asOf, rep)
  <2> TAKE k \in 1 .. n
  <2>1. /\ Max(1 .. k) = k /\ (1 .. k) \ {Max(1 .. k)} = 1 .. (k - 1)
        /\ 1 .. k \in SUBSET (1 .. n) /\ 1 .. k # {}
    BY PrefixMaximum
  <2> QED
    BY <1>8, <2>1
<1>10. h[{}] = Nothing
  BY <1>8
<1> QED
  BY <1>9, <1>10 DEF h

(* The loop of the duplicates goes from each place to the next.            *)
LEMMA RawSteps ==
    ASSUME NEW O, Observed(O), NEW n \in Nat, NEW s, DOMAIN s = 1 .. n, \A k \in 1 .. n : s[k] \in O,
           NEW asOf \in Int
    PROVE  /\ RawOf(s, asOf)[{}] = NoDuplicates
           /\ \A k \in 1 .. n : RawOf(s, asOf)[1 .. k] =
                CountDuplicate(RawOf(s, asOf)[1 .. (k - 1)], s[k], asOf)
<1> DEFINE A == Raws(O)
           g == [x \in (1 .. n) \X A |-> CountDuplicate(x[2], s[x[1]], asOf)]
           Value(f, p) == IF p = {} THEN NoDuplicates ELSE CountDuplicate(f[p \ {Max(p)}], s[Max(p)], asOf)
           Loop(f) == [p \in SUBSET (1 .. n) |-> Value(f, p)]
           h == RawOf(s, asOf)
<1>1. NoDuplicates \in A
  BY DEF NoDuplicates, Raws
<1>2. /\ \A k \in 1 .. n : \A a \in A : g[<<k, a>>] = CountDuplicate(a, s[k], asOf)
      /\ g \in [(1 .. n) \X A -> A]
  <2>1. \A x \in (1 .. n) \X A : CountDuplicate(x[2], s[x[1]], asOf) \in A
    <3> TAKE x \in (1 .. n) \X A
    <3>1. x[1] \in 1 .. n /\ x[2] \in A
      OBVIOUS
    <3> HIDE DEF A
    <3> QED
      BY <3>1, DuplicateTypes DEF A
  <2> QED
    BY <2>1
<1> HIDE DEF g, A
<1>3. PICK f : FoldsFrom(f, NoDuplicates, g, n, A)
  BY <1>1, <1>2, FoldExists
<1>4. \A p \in SUBSET (1 .. n) : p # {} => Max(p) \in 1 .. n /\ f[p \ {Max(p)}] \in A
  BY <1>3, MaximumOfPart DEF FoldsFrom
<1>5. \A p \in SUBSET (1 .. n) : f[p] = Value(f, p)
  BY <1>2, <1>3, <1>4 DEF FoldsFrom
<1>6. f = Loop(f)
  <2>1. \A p \in SUBSET (1 .. n) : Loop(f)[p] = f[p]
    BY <1>5
  <2> QED
    BY <1>3, <2>1 DEF FoldsFrom
<1>7. h = Loop(h)
  BY <1>6 DEF RawOf
<1>8. \A p \in SUBSET (1 .. n) : h[p] = Value(h, p)
  <2>1. \A p \in SUBSET (1 .. n) : Loop(h)[p] = Value(h, p)
    OBVIOUS
  <2> HIDE DEF Loop, Value, h
  <2> QED
    BY <1>7, <2>1
<1> HIDE DEF h
<1>9. \A k \in 1 .. n : h[1 .. k] = CountDuplicate(h[1 .. (k - 1)], s[k], asOf)
  <2> TAKE k \in 1 .. n
  <2>1. /\ Max(1 .. k) = k /\ (1 .. k) \ {Max(1 .. k)} = 1 .. (k - 1)
        /\ 1 .. k \in SUBSET (1 .. n) /\ 1 .. k # {}
    BY PrefixMaximum
  <2> QED
    BY <1>8, <2>1
<1>10. h[{}] = NoDuplicates
  BY <1>8
<1> QED
  BY <1>9, <1>10 DEF h

(* So does the older counting.                                             *)
LEMMA SimpleSteps ==
    ASSUME NEW O, Observed(O), NEW n \in Nat, NEW s, DOMAIN s = 1 .. n, \A k \in 1 .. n : s[k] \in O,
           NEW asOf \in Int
    PROVE  /\ SimpleOf(s, asOf)[{}] = NoneSeen
           /\ \A k \in 1 .. n : SimpleOf(s, asOf)[1 .. k] =
                CountSimply(SimpleOf(s, asOf)[1 .. (k - 1)], s[k], asOf)
<1> DEFINE A == Simples(O)
           g == [x \in (1 .. n) \X A |-> CountSimply(x[2], s[x[1]], asOf)]
           Value(f, p) == IF p = {} THEN NoneSeen ELSE CountSimply(f[p \ {Max(p)}], s[Max(p)], asOf)
           Loop(f) == [p \in SUBSET (1 .. n) |-> Value(f, p)]
           h == SimpleOf(s, asOf)
<1>1. NoneSeen \in A
  BY DEF NoneSeen, Simples
<1>2. /\ \A k \in 1 .. n : \A a \in A : g[<<k, a>>] = CountSimply(a, s[k], asOf)
      /\ g \in [(1 .. n) \X A -> A]
  <2>1. \A x \in (1 .. n) \X A : CountSimply(x[2], s[x[1]], asOf) \in A
    <3> TAKE x \in (1 .. n) \X A
    <3>1. x[1] \in 1 .. n /\ x[2] \in A
      OBVIOUS
    <3> HIDE DEF A
    <3> QED
      BY <3>1, SimpleTypes DEF A
  <2> QED
    BY <2>1
<1> HIDE DEF g, A
<1>3. PICK f : FoldsFrom(f, NoneSeen, g, n, A)
  BY <1>1, <1>2, FoldExists
<1>4. \A p \in SUBSET (1 .. n) : p # {} => Max(p) \in 1 .. n /\ f[p \ {Max(p)}] \in A
  BY <1>3, MaximumOfPart DEF FoldsFrom
<1>5. \A p \in SUBSET (1 .. n) : f[p] = Value(f, p)
  BY <1>2, <1>3, <1>4 DEF FoldsFrom
<1>6. f = Loop(f)
  <2>1. \A p \in SUBSET (1 .. n) : Loop(f)[p] = f[p]
    BY <1>5
  <2> QED
    BY <1>3, <2>1 DEF FoldsFrom
<1>7. h = Loop(h)
  BY <1>6 DEF SimpleOf
<1>8. \A p \in SUBSET (1 .. n) : h[p] = Value(h, p)
  <2>1. \A p \in SUBSET (1 .. n) : Loop(h)[p] = Value(h, p)
    OBVIOUS
  <2> HIDE DEF Loop, Value, h
  <2> QED
    BY <1>7, <2>1
<1> HIDE DEF h
<1>9. \A k \in 1 .. n : h[1 .. k] = CountSimply(h[1 .. (k - 1)], s[k], asOf)
  <2> TAKE k \in 1 .. n
  <2>1. /\ Max(1 .. k) = k /\ (1 .. k) \ {Max(1 .. k)} = 1 .. (k - 1)
        /\ 1 .. k \in SUBSET (1 .. n) /\ 1 .. k # {}
    BY PrefixMaximum
  <2> QED
    BY <1>8, <2>1
<1>10. h[{}] = NoneSeen
  BY <1>8
<1> QED
  BY <1>9, <1>10 DEF h

-----------------------------------------------------------------------------
(* What the loops know after the first k observations of s.                *)
UsableTo(s, k, asOf) == {i \in 1 .. k : Usable(s[i], asOf)}
DatesTo(s, k, asOf) == {s[i].date : i \in UsableTo(s, k, asOf)}
KeysTo(s, k, asOf) == {LineageKey(s[i]) : i \in UsableTo(s, k, asOf)}
AdmittedTo(s, k, asOf) == {i \in 1 .. k : Admitted(s[i], asOf)}
Marked(q, reasons) == {i \in DOMAIN q : q[i] \in reasons}

StageInv(a, s, k, asOf, rep) ==
    /\ Len(a.eligible) + Len(a.exclusions) = k
    /\ a.dates = IF rep THEN DatesTo(s, k, asOf) ELSE {}
    /\ IsFiniteSet(a.dates) /\ Cardinality(a.dates) = Len(a.eligible)
    /\ a.keys \in SUBSET KeysTo(s, k, asOf)
    /\ \A o : LineageKey(o) \in a.keys => o.date \in a.dates

RawInv(b, s, k, asOf) ==
    /\ b.dates = DatesTo(s, k, asOf) /\ b.keys = KeysTo(s, k, asOf)
    /\ \A o : LineageKey(o) \in b.keys => o.date \in b.dates

(* The duplicates of both loops, where no bucket is refused as a whole.    *)
PairInv(a, b) ==
    /\ Cardinality(Marked(a.exclusions, Duplicates)) = b.byLineage + b.byDate
    /\ Cardinality(Marked(a.exclusions, {"DUPLICATE_SOURCE_VENDOR"})) <= b.byLineage

SimpleInv(c, s, k, asOf) ==
    /\ c.dates = {s[i].date : i \in AdmittedTo(s, k, asOf)}
    /\ \A o : LineageKey(o) \in c.keys => o.date \in c.dates

(* One observation more adds its place, date and key where it is usable,   *)
(* or is admitted.                                                         *)
LEMMA PrefixGrows ==
    ASSUME NEW s, NEW k \in Nat, NEW asOf
    PROVE  /\ UsableTo(s, k + 1, asOf) =
                UsableTo(s, k, asOf) \cup IF Usable(s[k + 1], asOf) THEN {k + 1} ELSE {}
           /\ DatesTo(s, k + 1, asOf) =
                DatesTo(s, k, asOf) \cup IF Usable(s[k + 1], asOf) THEN {s[k + 1].date} ELSE {}
           /\ KeysTo(s, k + 1, asOf) =
                KeysTo(s, k, asOf) \cup IF Usable(s[k + 1], asOf) THEN {LineageKey(s[k + 1])} ELSE {}
           /\ AdmittedTo(s, k + 1, asOf) =
                AdmittedTo(s, k, asOf) \cup IF Admitted(s[k + 1], asOf) THEN {k + 1} ELSE {}
<1>1. 1 .. (k + 1) = (1 .. k) \cup {k + 1}
  OBVIOUS
<1>2. UsableTo(s, k + 1, asOf) =
          UsableTo(s, k, asOf) \cup IF Usable(s[k + 1], asOf) THEN {k + 1} ELSE {}
  BY <1>1 DEF UsableTo
<1>3. AdmittedTo(s, k + 1, asOf) =
          AdmittedTo(s, k, asOf) \cup IF Admitted(s[k + 1], asOf) THEN {k + 1} ELSE {}
  BY <1>1 DEF AdmittedTo
<1>4. DatesTo(s, k + 1, asOf) =
          DatesTo(s, k, asOf) \cup IF Usable(s[k + 1], asOf) THEN {s[k + 1].date} ELSE {}
  BY <1>2 DEF DatesTo
<1>5. KeysTo(s, k + 1, asOf) =
          KeysTo(s, k, asOf) \cup IF Usable(s[k + 1], asOf) THEN {LineageKey(s[k + 1])} ELSE {}
  BY <1>2 DEF KeysTo
<1> QED
  BY <1>2, <1>3, <1>4, <1>5

(* The key of an observation has its date, so that a repeated key is a     *)
(* repeated date.                                                          *)
LEMMA SameKeySameDate ==
    ASSUME NEW o, NEW p, LineageKey(o) = LineageKey(p)
    PROVE  o.date = p.date
  BY DEF LineageKey

(* A reason more counts once among the reasons that have it.               *)
LEMMA MarkedAppend ==
    ASSUME NEW q \in Seq(Reasons), NEW r \in Reasons, NEW T
    PROVE  /\ Cardinality(Marked(q, T)) \in Nat
           /\ Cardinality(Marked(Append(q, r), T)) = Cardinality(Marked(q, T)) + IF r \in T THEN 1 ELSE 0
<1> DEFINE n == Len(q)
<1>1. /\ n \in Nat /\ DOMAIN q = 1 .. n /\ DOMAIN Append(q, r) = 1 .. (n + 1)
      /\ \A i \in 1 .. n : Append(q, r)[i] = q[i]
      /\ Append(q, r)[n + 1] = r
  OBVIOUS
<1> HIDE DEF n
<1>2. Marked(q, T) \in SUBSET (1 .. n) /\ n + 1 \notin Marked(q, T) /\ IsFiniteSet(Marked(q, T))
  <2>1. IsFiniteSet(1 .. n)
    BY <1>1, FS_Interval
  <2>2. Marked(q, T) \in SUBSET (1 .. n)
    BY <1>1 DEF Marked
  <2> QED
    BY <1>1, <2>1, <2>2, FS_Subset
<1>3. Marked(Append(q, r), T) = Marked(q, T) \cup IF r \in T THEN {n + 1} ELSE {}
  <2>1. 1 .. (n + 1) = (1 .. n) \cup {n + 1}
    BY <1>1
  <2> QED
    BY <1>1, <2>1 DEF Marked
<1>4. Cardinality(Marked(q, T)) \in Nat
  BY <1>2, FS_CardinalityType
<1>5. CASE r \in T
  <2>1. Cardinality(Marked(q, T) \cup {n + 1}) = Cardinality(Marked(q, T)) + 1
    BY <1>2, FS_AddElement
  <2> QED
    BY <1>3, <1>4, <1>5, <2>1
<1>6. CASE r \notin T
  <2>1. Marked(Append(q, r), T) = Marked(q, T)
    BY <1>3, <1>6
  <2> QED
    BY <1>4, <1>6, <2>1
<1> QED
  BY <1>5, <1>6

(* An element more is one more.                                            *)
LEMMA LenAppend ==
    ASSUME NEW S, NEW q \in Seq(S), NEW e \in S
    PROVE  Len(Append(q, e)) = Len(q) + 1 /\ Len(q) \in Nat
  OBVIOUS

(* What is known after k observations is known after the next: a usable    *)
(* one counts if its date is new, and each other is excluded.              *)
LEMMA StageInvStep ==
    ASSUME NEW O, Observed(O), NEW s, NEW k \in Nat, s[k + 1] \in O,
           NEW asOf \in Int, NEW rep \in BOOLEAN, NEW a \in Stages(O), StageInv(a, s, k, asOf, rep)
    PROVE  StageInv(Count(a, s[k + 1], asOf, rep), s, k + 1, asOf, rep)
<1> DEFINE o == s[k + 1]
           reason == ExclusionReason(a, o, asOf, rep)
           next == Count(a, o, asOf, rep)
<1>1. o \in O /\ o.date \in Int /\ o.defect \in Defects
  BY DEF Observed
<1>2. /\ reason = "none" <=> Usable(o, asOf) /\ rep /\ LineageKey(o) \notin a.keys /\ o.date \notin a.dates
      /\ reason \in Reasons
  BY <1>1, ReasonOfStage
<1>3. /\ reason = "none" =>
            /\ next.eligible = Append(a.eligible, o) /\ next.exclusions = a.exclusions
            /\ next.keys = a.keys \cup {LineageKey(o)} /\ next.dates = a.dates \cup {o.date}
      /\ reason # "none" =>
            /\ next.eligible = a.eligible /\ next.exclusions = Append(a.exclusions, reason)
            /\ next.keys = a.keys /\ next.dates = a.dates
  BY <1>1, CountTypes
<1>4. /\ DatesTo(s, k + 1, asOf) = DatesTo(s, k, asOf) \cup IF Usable(o, asOf) THEN {o.date} ELSE {}
      /\ KeysTo(s, k + 1, asOf) = KeysTo(s, k, asOf) \cup IF Usable(o, asOf) THEN {LineageKey(o)} ELSE {}
  BY PrefixGrows
<1>5. a.eligible \in Seq(O) /\ a.exclusions \in Seq(Reasons)
  BY DEF Stages
<1>6. /\ Len(a.eligible) + Len(a.exclusions) = k
      /\ a.dates = IF rep THEN DatesTo(s, k, asOf) ELSE {}
      /\ IsFiniteSet(a.dates) /\ Cardinality(a.dates) = Len(a.eligible)
      /\ a.keys \in SUBSET KeysTo(s, k, asOf)
      /\ \A x : LineageKey(x) \in a.keys => x.date \in a.dates
  BY DEF StageInv
<1> HIDE DEF o, reason, next
<1>7. CASE reason = "none"
  <2>1. Usable(o, asOf) /\ rep /\ LineageKey(o) \notin a.keys /\ o.date \notin a.dates
    BY <1>2, <1>7
  <2>2. Len(next.eligible) + Len(next.exclusions) = k + 1
    <3>1. Len(Append(a.eligible, o)) = Len(a.eligible) + 1 /\ Len(a.eligible) \in Nat /\ Len(a.exclusions) \in Nat
      BY <1>1, <1>5, LenAppend
    <3>2. Len(next.eligible) = Len(a.eligible) + 1 /\ Len(next.exclusions) = Len(a.exclusions)
      BY <1>3, <1>7, <3>1
    <3> DEFINE x == Len(a.eligible)
               y == Len(a.exclusions)
    <3>3. x \in Nat /\ y \in Nat /\ x + y = k
      BY <1>6, <3>1
    <3> HIDE DEF x, y
    <3>4. (x + 1) + y = k + 1
      BY <3>3
    <3> QED
      BY <3>2, <3>4 DEF x, y
  <2>3. next.dates = IF rep THEN DatesTo(s, k + 1, asOf) ELSE {}
    BY <1>3, <1>4, <1>6, <1>7, <2>1
  <2>4. IsFiniteSet(next.dates) /\ Cardinality(next.dates) = Len(next.eligible)
    <3>1. IsFiniteSet(a.dates \cup {o.date}) /\ Cardinality(a.dates \cup {o.date}) = Cardinality(a.dates) + 1
      BY <1>6, <2>1, FS_AddElement
    <3>2. Len(Append(a.eligible, o)) = Len(a.eligible) + 1
      BY <1>1, <1>5, LenAppend
    <3> QED
      BY <1>3, <1>6, <1>7, <3>1, <3>2
  <2>5. next.keys \in SUBSET KeysTo(s, k + 1, asOf)
    BY <1>3, <1>4, <1>6, <1>7, <2>1
  <2>6. \A x : LineageKey(x) \in next.keys => x.date \in next.dates
    BY <1>3, <1>6, <1>7, SameKeySameDate
  <2> QED
    BY <2>2, <2>3, <2>4, <2>5, <2>6 DEF StageInv, next, o
<1>8. CASE reason # "none"
  <2>1. Usable(o, asOf) /\ rep => o.date \in a.dates
    BY <1>2, <1>6, <1>8
  <2>2. Len(next.eligible) + Len(next.exclusions) = k + 1
    <3>1. /\ Len(Append(a.exclusions, reason)) = Len(a.exclusions) + 1
          /\ Len(a.eligible) \in Nat /\ Len(a.exclusions) \in Nat
      BY <1>2, <1>5, LenAppend
    <3>2. Len(next.eligible) = Len(a.eligible) /\ Len(next.exclusions) = Len(a.exclusions) + 1
      BY <1>3, <1>8, <3>1
    <3> DEFINE x == Len(a.eligible)
               y == Len(a.exclusions)
    <3>3. x \in Nat /\ y \in Nat /\ x + y = k
      BY <1>6, <3>1
    <3> HIDE DEF x, y
    <3>4. x + (y + 1) = k + 1
      BY <3>3
    <3> QED
      BY <3>2, <3>4 DEF x, y
  <2>3. next.dates = IF rep THEN DatesTo(s, k + 1, asOf) ELSE {}
    BY <1>3, <1>4, <1>6, <1>8, <2>1
  <2>4. next.keys \in SUBSET KeysTo(s, k + 1, asOf)
    BY <1>3, <1>4, <1>6, <1>8
  <2> QED
    BY <1>3, <1>6, <1>8, <2>2, <2>3, <2>4 DEF StageInv, next, o
<1> QED
  BY <1>7, <1>8

(* The same of the duplicates.                                             *)
LEMMA RawInvStep ==
    ASSUME NEW O, Observed(O), NEW s, NEW k \in Nat, s[k + 1] \in O,
           NEW asOf \in Int, NEW b \in Raws(O), RawInv(b, s, k, asOf)
    PROVE  RawInv(CountDuplicate(b, s[k + 1], asOf), s, k + 1, asOf)
<1> DEFINE o == s[k + 1]
           next == CountDuplicate(b, o, asOf)
<1>1. /\ ~Usable(o, asOf) => next = b
      /\ Usable(o, asOf) => next.keys = b.keys \cup {LineageKey(o)} /\ next.dates = b.dates \cup {o.date}
  BY DuplicateTypes
<1>2. /\ DatesTo(s, k + 1, asOf) = DatesTo(s, k, asOf) \cup IF Usable(o, asOf) THEN {o.date} ELSE {}
      /\ KeysTo(s, k + 1, asOf) = KeysTo(s, k, asOf) \cup IF Usable(o, asOf) THEN {LineageKey(o)} ELSE {}
  BY PrefixGrows
<1> HIDE DEF o, next
<1>3. next.dates = DatesTo(s, k + 1, asOf) /\ next.keys = KeysTo(s, k + 1, asOf)
  BY <1>1, <1>2 DEF RawInv
<1>4. \A x : LineageKey(x) \in next.keys => x.date \in next.dates
  BY <1>1, SameKeySameDate DEF RawInv
<1> QED
  BY <1>3, <1>4 DEF RawInv, next, o

(* The stage excludes an observation with its reason, once, or not at all. *)
LEMMA ExclusionsOfStage ==
    ASSUME NEW O, Observed(O), NEW o \in O, NEW asOf \in Int, NEW rep \in BOOLEAN, NEW a \in Stages(O)
    PROVE  /\ a.exclusions \in Seq(Reasons)
           /\ ExclusionReason(a, o, asOf, rep) = "none" => Count(a, o, asOf, rep).exclusions = a.exclusions
           /\ ExclusionReason(a, o, asOf, rep) # "none" =>
                Count(a, o, asOf, rep).exclusions = Append(a.exclusions, ExclusionReason(a, o, asOf, rep))
<1>1. a.exclusions \in Seq(Reasons)
  BY DEF Stages
<1> QED
  BY <1>1, CountTypes

(* Where the bucket is representative both loops find a duplicate, or      *)
(* neither does.                                                           *)
LEMMA PairInvStep ==
    ASSUME NEW O, Observed(O), NEW s, NEW k \in Nat, s[k + 1] \in O, NEW asOf \in Int, NEW rep \in BOOLEAN,
           NEW a \in Stages(O), StageInv(a, s, k, asOf, rep),
           NEW b \in Raws(O), RawInv(b, s, k, asOf), PairInv(a, b)
    PROVE  rep => PairInv(Count(a, s[k + 1], asOf, rep), CountDuplicate(b, s[k + 1], asOf))
<1> DEFINE o == s[k + 1]
           reason == ExclusionReason(a, o, asOf, rep)
           next == Count(a, o, asOf, rep)
           twin == CountDuplicate(b, o, asOf)
           D(q) == Cardinality(Marked(q, Duplicates))
           V(q) == Cardinality(Marked(q, {"DUPLICATE_SOURCE_VENDOR"}))
<1>1. o \in O /\ o.date \in Int /\ o.defect \in Defects
  BY DEF Observed
<1>2. /\ reason = "none" => next.exclusions = a.exclusions
      /\ reason # "none" => next.exclusions = Append(a.exclusions, reason)
      /\ a.exclusions \in Seq(Reasons)
  BY <1>1, ExclusionsOfStage
<1>3. SUFFICES ASSUME rep PROVE PairInv(next, twin)
  OBVIOUS
<1>4. /\ reason \in Reasons
      /\ reason = "none" <=> Usable(o, asOf) /\ LineageKey(o) \notin a.keys /\ o.date \notin a.dates
      /\ reason \in Duplicates <=> Usable(o, asOf) /\ (LineageKey(o) \in a.keys \/ o.date \in a.dates)
      /\ reason = "DUPLICATE_SOURCE_VENDOR" <=> Usable(o, asOf) /\ LineageKey(o) \in a.keys
  BY <1>1, <1>3, ReasonOfStage
<1>5. /\ ~Usable(o, asOf) => twin = b
      /\ Usable(o, asOf) =>
            /\ twin.byLineage = b.byLineage + (IF LineageKey(o) \in b.keys THEN 1 ELSE 0)
            /\ twin.byDate = b.byDate + (IF LineageKey(o) \notin b.keys /\ o.date \in b.dates THEN 1 ELSE 0)
      /\ b.byLineage \in Nat /\ b.byDate \in Nat
  BY <1>1, DuplicateTypes DEF Raws
<1>6. /\ a.dates = b.dates /\ a.keys \in SUBSET b.keys
      /\ LineageKey(o) \in b.keys => o.date \in b.dates
      /\ D(a.exclusions) = b.byLineage + b.byDate /\ V(a.exclusions) <= b.byLineage
  BY <1>3 DEF StageInv, RawInv, PairInv
<1> HIDE DEF o, reason, next, twin
<1>7. /\ D(a.exclusions) \in Nat /\ V(a.exclusions) \in Nat
      /\ reason # "none" =>
            /\ D(next.exclusions) = D(a.exclusions) + IF reason \in Duplicates THEN 1 ELSE 0
            /\ V(next.exclusions) = V(a.exclusions) + IF reason = "DUPLICATE_SOURCE_VENDOR" THEN 1 ELSE 0
  <2>1. \A T : /\ Cardinality(Marked(a.exclusions, T)) \in Nat
               /\ Cardinality(Marked(Append(a.exclusions, reason), T)) =
                    Cardinality(Marked(a.exclusions, T)) + IF reason \in T THEN 1 ELSE 0
    BY <1>4, <1>2, MarkedAppend
  <2>2. /\ D(Append(a.exclusions, reason)) = D(a.exclusions) + IF reason \in Duplicates THEN 1 ELSE 0
        /\ V(Append(a.exclusions, reason)) = V(a.exclusions) + IF reason \in {"DUPLICATE_SOURCE_VENDOR"} THEN 1 ELSE 0
        /\ D(a.exclusions) \in Nat /\ V(a.exclusions) \in Nat
    BY <2>1
  <2>3. reason \in {"DUPLICATE_SOURCE_VENDOR"} <=> reason = "DUPLICATE_SOURCE_VENDOR"
    OBVIOUS
  <2> HIDE DEF D, V
  <2> QED
    BY <1>2, <2>2, <2>3
<1> HIDE DEF D, V
<1>8. CASE ~Usable(o, asOf)
  <2>1. D(next.exclusions) = D(a.exclusions) /\ V(next.exclusions) = V(a.exclusions)
    BY <1>4, <1>7, <1>8
  <2>2. twin.byLineage = b.byLineage /\ twin.byDate = b.byDate
    BY <1>5, <1>8
  <2> QED
    BY <1>6, <2>1, <2>2 DEF PairInv, next, twin, o, D, V
<1>9. CASE Usable(o, asOf)
  <2>1. D(next.exclusions) = twin.byLineage + twin.byDate
    BY <1>4, <1>2, <1>5, <1>6, <1>7, <1>9
  <2>2. V(next.exclusions) <= twin.byLineage
    BY <1>4, <1>2, <1>5, <1>6, <1>7, <1>9
  <2> QED
    BY <2>1, <2>2 DEF PairInv, next, twin, o, D, V
<1> QED
  BY <1>8, <1>9

(* The older counting has the dates of what it admits.                     *)
LEMMA SimpleInvStep ==
    ASSUME NEW s, NEW k \in Nat, NEW asOf, NEW c, SimpleInv(c, s, k, asOf)
    PROVE  SimpleInv(CountSimply(c, s[k + 1], asOf), s, k + 1, asOf)
<1> DEFINE o == s[k + 1]
           next == CountSimply(c, o, asOf)
<1>1. {s[i].date : i \in AdmittedTo(s, k + 1, asOf)} = c.dates \cup IF Admitted(o, asOf) THEN {o.date} ELSE {}
  BY PrefixGrows DEF SimpleInv
<1>2. \A x : LineageKey(x) \in c.keys => x.date \in c.dates
  BY DEF SimpleInv
<1> HIDE DEF o
<1>3. next.dates = c.dates \cup IF Admitted(o, asOf) THEN {o.date} ELSE {}
  BY <1>2 DEF CountSimply
<1>4. \A x : LineageKey(x) \in next.keys => x.date \in next.dates
  BY <1>2, <1>3, SameKeySameDate DEF CountSimply
<1> QED
  BY <1>1, <1>3, <1>4 DEF SimpleInv, o

(* The whole loops.                                                        *)
LEMMA StageAndRawLoop ==
    ASSUME NEW O, Observed(O), NEW n \in Nat, NEW s, DOMAIN s = 1 .. n, \A k \in 1 .. n : s[k] \in O,
           NEW asOf \in Int, NEW rep \in BOOLEAN
    PROVE  LET a == StageOf(s, asOf, rep)[1 .. n]
               b == RawOf(s, asOf)[1 .. n]
           IN  /\ a \in Stages(O) /\ StageInv(a, s, n, asOf, rep)
               /\ b \in Raws(O) /\ RawInv(b, s, n, asOf) /\ (rep => PairInv(a, b))
<1> DEFINE a(k) == StageOf(s, asOf, rep)[1 .. k]
           b(k) == RawOf(s, asOf)[1 .. k]
           Both(k) == /\ a(k) \in Stages(O) /\ StageInv(a(k), s, k, asOf, rep)
                      /\ b(k) \in Raws(O) /\ RawInv(b(k), s, k, asOf) /\ (rep => PairInv(a(k), b(k)))
           Q == {k \in Nat : k <= n => Both(k)}
<1>1. a(0) = Nothing /\ b(0) = NoDuplicates
  <2>1. 1 .. 0 = {}
    OBVIOUS
  <2>2. StageOf(s, asOf, rep)[{}] = Nothing /\ RawOf(s, asOf)[{}] = NoDuplicates
    BY StageSteps, RawSteps
  <2> QED
    BY <2>1, <2>2
<1>2. ASSUME NEW k \in Nat, k + 1 <= n
      PROVE  a(k + 1) = Count(a(k), s[k + 1], asOf, rep) /\ b(k + 1) = CountDuplicate(b(k), s[k + 1], asOf)
  <2>1. k + 1 \in 1 .. n /\ (k + 1) - 1 = k
    BY <1>2
  <2>2. /\ \A j \in 1 .. n : a(j) = Count(a(j - 1), s[j], asOf, rep)
        /\ \A j \in 1 .. n : b(j) = CountDuplicate(b(j - 1), s[j], asOf)
    <3>1. \A j \in 1 .. n : a(j) = Count(a(j - 1), s[j], asOf, rep)
      BY StageSteps
    <3>2. \A j \in 1 .. n : b(j) = CountDuplicate(b(j - 1), s[j], asOf)
      BY RawSteps
    <3> HIDE DEF a, b
    <3> QED
      BY <3>1, <3>2
  <2> HIDE DEF a, b
  <2> QED
    BY <2>1, <2>2
<1> HIDE DEF a, b
<1>3. 0 \in Q
  <2>1. UsableTo(s, 0, asOf) = {}
    BY DEF UsableTo
  <2>2. DatesTo(s, 0, asOf) = {} /\ KeysTo(s, 0, asOf) = {}
    BY <2>1 DEF DatesTo, KeysTo
  <2>3. IsFiniteSet({}) /\ Cardinality({}) = 0
    BY FS_EmptySet
  <2>4. /\ a(0) \in Stages(O) /\ a(0).eligible = <<>> /\ a(0).exclusions = <<>>
        /\ a(0).keys = {} /\ a(0).dates = {}
    <3>1. /\ a(0).eligible = <<>> /\ a(0).exclusions = <<>>
          /\ a(0).keys = {} /\ a(0).dates = {}
      BY <1>1 DEF Nothing
    <3>2. Nothing \in Stages(O)
      BY DEF Nothing, Stages
    <3> QED
      BY <1>1, <3>1, <3>2
  <2>5. StageInv(a(0), s, 0, asOf, rep)
    <3>1. Len(a(0).eligible) = 0 /\ Len(a(0).exclusions) = 0
      BY <2>4
    <3>2. Len(a(0).eligible) + Len(a(0).exclusions) = 0
      <4> DEFINE x == Len(a(0).eligible)
                 y == Len(a(0).exclusions)
      <4> HIDE DEF x, y
      <4>1. x = 0 /\ y = 0 => x + y = 0
        OBVIOUS
      <4> QED
        BY <3>1, <4>1 DEF x, y
    <3>3. Cardinality(a(0).dates) = Len(a(0).eligible) /\ IsFiniteSet(a(0).dates)
      BY <2>3, <2>4, <3>1
    <3>4. a(0).dates = IF rep THEN DatesTo(s, 0, asOf) ELSE {}
      BY <2>2, <2>4
    <3>5. a(0).keys \in SUBSET KeysTo(s, 0, asOf) /\ \A o : LineageKey(o) \in a(0).keys => o.date \in a(0).dates
      BY <2>4
    <3> QED
      BY <3>2, <3>3, <3>4, <3>5 DEF StageInv
  <2>6. /\ b(0) \in Raws(O) /\ b(0).byLineage = 0 /\ b(0).byDate = 0
        /\ b(0).keys = {} /\ b(0).dates = {}
    BY <1>1 DEF NoDuplicates, Raws
  <2>7. RawInv(b(0), s, 0, asOf)
    BY <2>2, <2>6 DEF RawInv
  <2>8. \A T : Marked(<<>>, T) = {}
    BY DEF Marked
  <2>9. PairInv(a(0), b(0))
    <3>1. Cardinality(Marked(a(0).exclusions, Duplicates)) = 0
      BY <2>3, <2>4, <2>8
    <3>2. Cardinality(Marked(a(0).exclusions, {"DUPLICATE_SOURCE_VENDOR"})) = 0
      BY <2>3, <2>4, <2>8
    <3> QED
      BY <2>6, <3>1, <3>2 DEF PairInv
  <2> QED
    BY <2>4, <2>5, <2>6, <2>7, <2>9
<1>4. ASSUME NEW k \in Q PROVE k + 1 \in Q
  <2> SUFFICES ASSUME k + 1 <= n PROVE Both(k + 1)
    OBVIOUS
  <2>1. k \in Nat /\ k + 1 \in 1 .. n /\ s[k + 1] \in O
    OBVIOUS
  <2>2. Both(k)
    BY <2>1
  <2>3. Count(a(k), s[k + 1], asOf, rep) \in Stages(O) /\ CountDuplicate(b(k), s[k + 1], asOf) \in Raws(O)
    BY <2>1, <2>2, CountTypes, DuplicateTypes
  <2>4. StageInv(Count(a(k), s[k + 1], asOf, rep), s, k + 1, asOf, rep)
    BY <2>1, <2>2, StageInvStep
  <2>5. RawInv(CountDuplicate(b(k), s[k + 1], asOf), s, k + 1, asOf)
    BY <2>1, <2>2, RawInvStep
  <2>6. rep => PairInv(Count(a(k), s[k + 1], asOf, rep), CountDuplicate(b(k), s[k + 1], asOf))
    BY <2>1, <2>2, PairInvStep
  <2> QED
    BY <1>2, <2>1, <2>3, <2>4, <2>5, <2>6
<1>5. n \in Q
  <2>1. Q \in SUBSET Nat
    OBVIOUS
  <2> HIDE DEF Q
  <2>2. Q = Nat
    BY <1>3, <1>4, <2>1, NatAscent
  <2> QED
    BY <2>2
<1> QED
  BY <1>5 DEF a, b

(* The older counting ends with one for each date it admits.               *)
LEMMA SimpleLoop ==
    ASSUME NEW O, Observed(O), NEW n \in Nat, NEW s, DOMAIN s = 1 .. n, \A k \in 1 .. n : s[k] \in O,
           NEW asOf \in Int
    PROVE  SimpleOf(s, asOf)[1 .. n].dates = {s[i].date : i \in AdmittedTo(s, n, asOf)}
<1> DEFINE c(k) == SimpleOf(s, asOf)[1 .. k]
           Q == {k \in Nat : k <= n => SimpleInv(c(k), s, k, asOf)}
<1>1. c(0) = NoneSeen
  <2>1. 1 .. 0 = {}
    OBVIOUS
  <2>2. SimpleOf(s, asOf)[{}] = NoneSeen
    BY SimpleSteps
  <2> QED
    BY <2>1, <2>2
<1>2. ASSUME NEW k \in Nat, k + 1 <= n PROVE c(k + 1) = CountSimply(c(k), s[k + 1], asOf)
  <2>1. k + 1 \in 1 .. n /\ (k + 1) - 1 = k
    BY <1>2
  <2>2. \A j \in 1 .. n : c(j) = CountSimply(c(j - 1), s[j], asOf)
    BY SimpleSteps
  <2> HIDE DEF c
  <2> QED
    BY <2>1, <2>2
<1> HIDE DEF c
<1>3. 0 \in Q
  <2>1. AdmittedTo(s, 0, asOf) = {}
    BY DEF AdmittedTo
  <2> QED
    BY <1>1, <2>1 DEF NoneSeen, SimpleInv
<1>4. ASSUME NEW k \in Q PROVE k + 1 \in Q
  <2>1. ASSUME k + 1 <= n PROVE SimpleInv(c(k + 1), s, k + 1, asOf)
    <3>1. k \in Nat /\ SimpleInv(c(k), s, k, asOf)
      BY <2>1
    <3> QED
      BY <1>2, <2>1, <3>1, SimpleInvStep
  <2> QED
    BY <2>1
<1>5. n \in Q
  <2>1. Q \in SUBSET Nat
    OBVIOUS
  <2> HIDE DEF Q
  <2>2. Q = Nat
    BY <1>3, <1>4, <2>1, NatAscent
  <2> QED
    BY <2>2
<1> QED
  BY <1>5 DEF c, SimpleInv

(* However the prices of a factor arrived, one counts for each date that   *)
(* has a usable one, and each other is excluded once.                      *)
LEMMA CountOfDates ==
    ASSUME NEW O, Observed(O), NEW observations \in Seq(O), NEW asOf \in Int, NEW rep \in BOOLEAN
    PROVE  LET stage == QuantitativeStage(observations, asOf, rep)
               raw == RawDuplicateCounts(observations, asOf)
               usable == {o \in Range(observations) : Usable(o, asOf)}
           IN  /\ Len(stage.eligible) + Len(stage.exclusions) = Len(observations)
               /\ Len(stage.eligible) <= CountEligibleObservations(observations, asOf)
               /\ rep => /\ Len(stage.eligible) = Cardinality({o.date : o \in usable})
                         /\ PairInv(stage, raw)
               /\ ~rep => Len(stage.eligible) = 0
<1> DEFINE s == SortedByDate(observations)
           n == Len(observations)
           stage == QuantitativeStage(observations, asOf, rep)
           raw == RawDuplicateCounts(observations, asOf)
           usable == {o \in Range(observations) : Usable(o, asOf)}
           admitted == {observations[i].date : i \in AdmittedTo(observations, n, asOf)}
<1>1. n \in Nat /\ DOMAIN observations = 1 .. n /\ \A i \in 1 .. n : observations[i] \in O
  OBVIOUS
<1>2. /\ DOMAIN s = 1 .. n
      /\ \A k \in 1 .. n : s[k] \in O /\ \E i \in 1 .. n : s[k] = observations[i]
      /\ \A i \in 1 .. n : \E k \in 1 .. n : s[k] = observations[i]
  BY SortIsRearrangement
<1>3. stage = StageOf(s, asOf, rep)[1 .. n] /\ raw = RawOf(s, asOf)[1 .. n]
  BY <1>2, StageUnfold, RawUnfold
<1>4. CountEligibleObservations(observations, asOf) = Cardinality(SimpleOf(observations, asOf)[1 .. n].dates)
  BY <1>1, SimpleUnfold
<1> HIDE DEF s, n, stage, raw
<1>5. StageInv(stage, s, n, asOf, rep) /\ (rep => PairInv(stage, raw))
  <2>1. /\ StageInv(StageOf(s, asOf, rep)[1 .. n], s, n, asOf, rep)
        /\ rep => PairInv(StageOf(s, asOf, rep)[1 .. n], RawOf(s, asOf)[1 .. n])
    BY <1>1, <1>2, StageAndRawLoop
  <2> QED
    BY <1>3, <2>1
<1>6. SimpleOf(observations, asOf)[1 .. n].dates = admitted
  BY <1>1, SimpleLoop
<1>7. {o.date : o \in usable} = DatesTo(s, n, asOf)
  <2>1. Range(observations) = {s[k] : k \in 1 .. n}
    <3>1. Range(observations) = {observations[i] : i \in 1 .. n}
      BY <1>1 DEF Range
    <3>2. ASSUME NEW x \in Range(observations) PROVE \E k \in 1 .. n : s[k] = x
      <4>1. PICK i \in 1 .. n : x = observations[i]
        BY <3>1
      <4> QED
        BY <1>2, <4>1
    <3>3. \A k \in 1 .. n : s[k] \in Range(observations)
      BY <1>2, <3>1
    <3> QED
      BY <3>2, <3>3
  <2> QED
    BY <2>1 DEF DatesTo, UsableTo
<1>8. DatesTo(s, n, asOf) \in SUBSET admitted
  <2> SUFFICES ASSUME NEW k \in 1 .. n, Usable(s[k], asOf) PROVE s[k].date \in admitted
    BY DEF DatesTo, UsableTo
  <2>1. PICK i \in 1 .. n : s[k] = observations[i]
    BY <1>2
  <2>2. Admitted(observations[i], asOf)
    BY <1>1, <2>1, ReasonOfObservation DEF Observed
  <2> QED
    BY <2>1, <2>2 DEF AdmittedTo
<1>9. IsFiniteSet(admitted)
  <2>1. AdmittedTo(observations, n, asOf) \in SUBSET (1 .. n)
    BY DEF AdmittedTo
  <2>2. IsFiniteSet(1 .. n)
    BY <1>1, FS_Interval
  <2>3. IsFiniteSet(AdmittedTo(observations, n, asOf))
    BY <2>1, <2>2, FS_Subset
  <2> DEFINE date == [i \in 1 .. n |-> observations[i].date]
  <2>4. admitted = {date[i] : i \in AdmittedTo(observations, n, asOf)}
    BY <2>1
  <2> HIDE DEF date
  <2> QED
    BY <2>3, <2>4, ImageIsFinite
<1>10. /\ Len(stage.eligible) + Len(stage.exclusions) = n
       /\ Cardinality(stage.dates) = Len(stage.eligible)
       /\ stage.dates = IF rep THEN DatesTo(s, n, asOf) ELSE {}
  BY <1>5 DEF StageInv
<1>11. stage.dates \in SUBSET admitted
  BY <1>8, <1>10
<1>12. Cardinality(stage.dates) <= Cardinality(admitted)
  BY <1>9, <1>11, FS_Subset
<1>13. ~rep => Len(stage.eligible) = 0
  BY <1>10, FS_EmptySet
<1> QED
  BY <1>4, <1>5, <1>6, <1>7, <1>10, <1>12, <1>13 DEF n, stage, raw

(* However the prices arrive, the count that decides is one of dates; the  *)
(* duplicates excluded are as many as the loop of their own finds; and the *)
(* older counting never finds fewer.                                       *)
THEOREM CountsAreOfDates == Spec => []CountIsOfDates
<1>1. ASSUME NInv PROVE CountIsOfDates
  <2> SUFFICES ASSUME NEW f \in Factors
               PROVE  LET stage == QuantitativeStage(prices[f], today, controls[f].representative)
                          raw == RawDuplicateCounts(prices[f], today)
                          usable == {o \in Range(prices[f]) : Usable(o, today)}
                      IN  /\ Len(stage.eligible) + Len(stage.exclusions) = Len(prices[f])
                          /\ Len(stage.eligible) <= CountEligibleObservations(prices[f], today)
                          /\ controls[f].representative =>
                               /\ Len(stage.eligible) = Cardinality({o.date : o \in usable})
                               /\ PairInv(stage, raw)
    BY DEF CountIsOfDates, PairInv, Marked
  <2>1. today \in Int /\ prices[f] \in Seq(Feed[f]) /\ Observed(Feed[f])
    BY <1>1, NmrfAssumption, RfetAssumption DEF NInv, ClassifiedInv, Days, Observed
  <2>2. controls[f].representative \in BOOLEAN
    <3>1. controls[f] \in Controls
      BY <1>1, NmrfAssumption DEF NInv, ClassifiedInv
    <3> QED
      BY <3>1 DEF Controls
  <2> QED
    BY <2>1, <2>2, CountOfDates
<1> QED
  BY <1>1, NmrfInvariant, PTL

(* What counts for f today.                                                *)
EligibleCount(f) == Len(QuantitativeStage(prices[f], today, controls[f].representative).eligible)
(* Whether that is enough for the test, its qualitative part included.      *)
PassesToday(f) == AssessRfetEvidence(f, prices[f], controls[f], today) = "MODELLABLE"

(* The dates that count are finitely many.                                 *)
LEMMA EligibleIsOfDates ==
    ASSUME NEW O, Observed(O), NEW observations \in Seq(O), NEW asOf \in Int, NEW rep \in BOOLEAN
    PROVE  LET dates == {o.date : o \in {p \in Range(observations) : Usable(p, asOf)}}
           IN  /\ IsFiniteSet(dates) /\ Cardinality(dates) \in Nat
               /\ Len(QuantitativeStage(observations, asOf, rep).eligible) =
                    IF rep THEN Cardinality(dates) ELSE 0
<1> DEFINE n == Len(observations)
           day == [i \in 1 .. n |-> observations[i].date]
           some == {i \in 1 .. n : Usable(observations[i], asOf)}
           dates == {o.date : o \in {p \in Range(observations) : Usable(p, asOf)}}
<1>1. n \in Nat /\ DOMAIN observations = 1 .. n
  OBVIOUS
<1>2. dates = {day[i] : i \in some}
  <2>1. Range(observations) = {observations[i] : i \in 1 .. n}
    BY <1>1 DEF Range
  <2> QED
    BY <2>1
<1>3. IsFiniteSet(some)
  <2>1. IsFiniteSet(1 .. n)
    BY <1>1, FS_Interval
  <2> QED
    BY <2>1, FS_Subset
<1>4. IsFiniteSet(dates)
  <2> HIDE DEF day, some, dates
  <2> QED
    BY <1>2, <1>3, ImageIsFinite
<1>5. Cardinality(dates) \in Nat
  BY <1>4, FS_CardinalityType
<1>6. rep => Len(QuantitativeStage(observations, asOf, rep).eligible) = Cardinality(dates)
  BY CountOfDates, Zenon
<1>7. ~rep => Len(QuantitativeStage(observations, asOf, rep).eligible) = 0
  BY CountOfDates, Zenon
<1> QED
  BY <1>4, <1>5, <1>6, <1>7

(* One observation more does not lower the count.                          *)
LEMMA OneMoreCounts ==
    ASSUME NEW O, Observed(O), NEW few \in Seq(O), NEW o \in O, NEW asOf \in Int, NEW rep \in BOOLEAN
    PROVE  Len(QuantitativeStage(few, asOf, rep).eligible)
             <= Len(QuantitativeStage(Append(few, o), asOf, rep).eligible)
<1> DEFINE many == Append(few, o)
           dates(observations) == {p.date : p \in {q \in Range(observations) : Usable(q, asOf)}}
           count(observations) == Len(QuantitativeStage(observations, asOf, rep).eligible)
<1>1. many \in Seq(O)
  BY AppendIsSeq
<1>2. \A observations \in Seq(O) :
          /\ IsFiniteSet(dates(observations)) /\ Cardinality(dates(observations)) \in Nat
          /\ count(observations) = IF rep THEN Cardinality(dates(observations)) ELSE 0
  BY EligibleIsOfDates
<1>3. dates(few) \subseteq dates(many)
  <2>1. Len(few) \in Nat /\ DOMAIN few = 1 .. Len(few) /\ DOMAIN many = 1 .. Len(few) + 1
    OBVIOUS
  <2>2. \A i \in DOMAIN few : i \in DOMAIN many /\ many[i] = few[i]
    BY <2>1
  <2> HIDE DEF many
  <2>3. Range(few) \subseteq Range(many)
    BY <2>2 DEF Range
  <2> QED
    BY <2>3
<1> HIDE DEF many, dates, count
<1>4. Cardinality(dates(few)) <= Cardinality(dates(many))
  BY <1>1, <1>2, <1>3, FS_Subset
<1>5. count(few) <= count(many)
  BY <1>1, <1>2, <1>4
<1> QED
  BY <1>5 DEF count, many

(* The greater and the lesser of two integers.                             *)
LEMMA ExtremesOfTwo ==
    ASSUME NEW a \in Int, NEW b \in Int
    PROVE  Max({a, b}) \in Int /\ Min({a, b}) \in Int
<1>1. \E x \in {a, b} : \A y \in {a, b} : x >= y
  BY a <= b \/ b <= a
<1>2. \E x \in {a, b} : \A y \in {a, b} : x <= y
  BY a <= b \/ b <= a
<1>3. Max({a, b}) \in {a, b}
  BY <1>1 DEF Max
<1>4. Min({a, b}) \in {a, b}
  BY <1>2 DEF Min
<1> QED
  BY <1>3, <1>4

(* The threshold is a number, prorated or not.                             *)
LEMMA RequiredIsInt ==
    ASSUME NEW f \in Factors, NEW control \in Controls, NEW asOf \in Days
    PROVE  RequiredObservations(f, control, asOf) \in Int
<1> DEFINE base == BaseRequired(f)
           span == asOf - LookbackStart(asOf) + 1
<1>1. base \in Int /\ asOf \in Int /\ LookbackStart(asOf) \in Int /\ span \in Int /\ span > 0
  BY RfetAssumption DEF BaseRequired, LookbackStart, Days
<1>2. ASSUME Prorates(control) PROVE Prorated(base, control.issued, asOf) \in Int
  <2> DEFINE part == base * (asOf - control.issued + 1)
             share == Ceiling(part, span)
  <2>1. control.issued \in Int
    BY <1>2 DEF Prorates, Controls, Days
  <2>2. part \in Int
    BY <1>1, <2>1
  <2> HIDE DEF part, span, base
  <2>3. share \in Int
    BY <1>1, <2>2 DEF Ceiling
  <2> HIDE DEF share
  <2>4. Min({base, share}) \in Int
    BY <1>1, <2>3, ExtremesOfTwo
  <2>5. Max({1, Min({base, share})}) \in Int
    BY <2>4, ExtremesOfTwo
  <2> QED
    BY <1>1, <2>5 DEF Prorated, share, part, span
<1> QED
  BY <1>1, <1>2 DEF RequiredObservations

(* A price more never takes one away: whatever its date, its source and    *)
(* its defect, and wherever the sort puts it, on one day no count falls,   *)
(* and no factor that would pass the test fails it.                        *)
THEOREM PricesNeverTakeAway ==
    Spec => [][UNCHANGED today => \A f \in Factors :
                   EligibleCount(f) <= EligibleCount(f)' /\ (PassesToday(f) => PassesToday(f)')]_vars
<1>1. ASSUME NInv, [Next]_vars, UNCHANGED today, NEW f \in Factors
      PROVE  EligibleCount(f) <= EligibleCount(f)' /\ (PassesToday(f) => PassesToday(f)')
  <2>1. controls' = controls /\ (prices'[f] = prices[f] \/ \E o \in Feed[f] : prices'[f] = Append(prices[f], o))
    <3>1. DOMAIN prices = Factors
      BY <1>1 DEF NInv, ClassifiedInv
    <3>2. CASE \E g \in Factors : \E o \in Feed[g] : Observe(g, o)
      BY <1>1, <3>1, <3>2 DEF Observe
    <3>3. CASE UNCHANGED <<prices, controls>>
      BY <3>3
    <3> QED
      BY <1>1, <3>2, <3>3 DEF Next, Finished, vars, Step, NextDay, Classify, Request, Deliver, CompleteNmrfValuationRun,
                              CapitalFromRun, CapitalFromArtifacts, CalculateNmrfCapital
  <2>2. today \in Int /\ prices[f] \in Seq(Feed[f]) /\ Observed(Feed[f])
    BY <1>1, NmrfAssumption, RfetAssumption DEF NInv, ClassifiedInv, Days, Observed
  <2>3. controls[f] \in Controls /\ controls[f].representative \in BOOLEAN
    <3>1. controls[f] \in Controls
      BY <1>1, NmrfAssumption DEF NInv, ClassifiedInv
    <3> QED
      BY <3>1 DEF Controls
  <2>4. EligibleCount(f) \in Nat /\ EligibleCount(f)' \in Nat /\ EligibleCount(f) <= EligibleCount(f)'
    <3> DEFINE count(observations) ==
                   Len(QuantitativeStage(observations, today, controls[f].representative).eligible)
    <3>1. EligibleCount(f) = count(prices[f]) /\ EligibleCount(f)' = count(prices'[f])
      BY <1>1, <2>1 DEF EligibleCount
    <3>2. \A observations \in Seq(Feed[f]) : count(observations) \in Nat
      BY <2>2, <2>3, EligibleIsOfDates
    <3>3. \A o \in Feed[f] : count(prices[f]) <= count(Append(prices[f], o))
      BY <2>2, <2>3, OneMoreCounts
    <3>4. \A o \in Feed[f] : Append(prices[f], o) \in Seq(Feed[f])
      BY <2>2, AppendIsSeq
    <3> HIDE DEF count
    <3>5. count(prices[f]) \in Nat
      BY <2>2, <3>2
    <3>6. CASE prices'[f] = prices[f]
      BY <3>1, <3>5, <3>6
    <3>7. ASSUME NEW o \in Feed[f], prices'[f] = Append(prices[f], o)
          PROVE  count(prices'[f]) \in Nat /\ count(prices[f]) <= count(prices'[f])
      BY <3>2, <3>3, <3>4, <3>7
    <3> QED
      BY <2>1, <3>1, <3>5, <3>6, <3>7
  <2>5. /\ RequiredObservations(f, controls[f], today) \in Int
        /\ RequiredObservations(f, controls[f], today)' = RequiredObservations(f, controls[f], today)
    <3>1. today \in Days
      BY <1>1 DEF NInv, ClassifiedInv
    <3>2. RequiredObservations(f, controls[f], today) \in Int
      BY <2>3, <3>1, RequiredIsInt
    <3> QED
      BY <1>1, <2>1, <3>2
  <2>6. /\ PassesToday(f) <=>
              controls[f].qualitative /\ EligibleCount(f) >= RequiredObservations(f, controls[f], today)
        /\ PassesToday(f)' <=>
              controls[f].qualitative /\ EligibleCount(f)' >= RequiredObservations(f, controls[f], today)
    BY <1>1, <2>1, <2>5 DEF PassesToday, AssessRfetEvidence, StatusFromTests, EligibleCount
  <2> QED
    BY <2>4, <2>5, <2>6
<1>2. NInv /\ [Next]_vars =>
        [UNCHANGED today => \A f \in Factors :
             EligibleCount(f) <= EligibleCount(f)' /\ (PassesToday(f) => PassesToday(f)')]_vars
  BY <1>1
<1> QED
  BY <1>2, NmrfInvariant, PTL DEF Spec
=============================================================================
