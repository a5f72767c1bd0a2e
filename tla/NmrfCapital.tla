----------------------------- MODULE NmrfCapital -----------------------------
(***************************************************************************)
(* From prices to the capital of risk factors that cannot be modelled      *)
(* (frtb-ima): observations arrive, the factors are classified (Rfet),     *)
(* each that is not modellable gets a stress method and a specification,   *)
(* an engine outside of the package returns artifacts, which are           *)
(* reconciled with the specifications and make the stress-scenario         *)
(* capital (SES).  The engine takes time: prices go on to arrive and the   *)
(* factors may be classified anew before its artifacts are used.           *)
(***************************************************************************)
EXTENDS Rfet

CONSTANTS
    Feed,             \* Feed[f]: the observations that may arrive of f
    MaxObservations,  \* bound on the observations that arrive
    SomeControls,     \* the controls that the factors may have
    SomeEvidence,     \* what may be known of the factors' stress methods
    SomePayloads,     \* the method payloads a caller may supply, by factor
    Periods,          \* stress periods
    Engine,           \* the artifacts the engine may return
    MaxArtifacts,     \* bound on the artifacts it returns
    Regimes,          \* policies, those that use Type A and Type B included
    TypeABRegimes,
    None

(* What is known of the stress methods of a factor: nonlinear, full,       *)
(* stepwise, stepRequired and fallback are flags of NMRFMethodEvidence,    *)
(* direct is a method that is available and well defined, robust a passed  *)
(* robustness diagnostic without pricing failures or proxies.              *)
MethodEvidence == [nonlinear : BOOLEAN, full : BOOLEAN, direct : BOOLEAN, robust : BOOLEAN,
                   stepwise : BOOLEAN, stepRequired : BOOLEAN, fallback : BOOLEAN]

ASSUME NmrfAssumption ==
    /\ TypeABRegimes \subseteq Regimes
    /\ SomeControls \subseteq [Factors -> Controls]
    /\ SomeEvidence \subseteq [Factors -> MethodEvidence]
    /\ \A f \in Factors : \A o \in Feed[f] : o.date \in Int /\ o.defect \in Defects
    /\ {MaxObservations, MaxArtifacts} \subseteq Nat

Methods == {"DIRECT", "STEPWISE", "FULL_REVALUATION", "MAX_LOSS_FALLBACK", "LINEAR_SENSITIVITY"}

VARIABLES
    today,
    prices,        \* prices[f]: the observations of f, as they arrived
    controls,      \* controls[f]: the rest of its evidence
    classified,    \* the classifications last made, or None
    request,       \* the valuation run requested: its specifications and regime, or None
    returned,      \* the artifacts returned so far
    run,           \* the completed valuation run, or None
    capital        \* the last capital result, or None

vars == <<today, prices, controls, classified, request, returned, run, capital>>

Classifications == [Factors -> ModellabilityStatus]
IsNmrf(f, status) == status[f] # "MODELLABLE"
SesFactors(status) == {f \in Factors : IsNmrf(f, status)}

(* Where Type A and Type B are told apart, Type A stays in IMCC as well.   *)
ImccFactors(status, regime) ==
    {f \in Factors : \/ status[f] = "MODELLABLE"
                     \/ regime \in TypeABRegimes /\ status[f] = "TYPE_A_NMRF"}

Init ==
    /\ today = 1
    /\ prices = [f \in Factors |-> <<>>]
    /\ controls \in SomeControls
    /\ classified = None /\ request = None /\ returned = {} /\ run = None /\ capital = None

-----------------------------------------------------------------------------
(* The feed, and the days.                                                 *)
Arrived == FoldSet(LAMBDA f, n : n + Len(prices[f]), 0, Factors)

Observe(f, o) ==
    /\ Arrived < MaxObservations
    /\ prices' = [prices EXCEPT ![f] = Append(@, o)]
    /\ UNCHANGED <<today, controls, classified, request, returned, run, capital>>

NextDay ==
    /\ today < LastDay
    /\ today' = today + 1
    /\ UNCHANGED <<prices, controls, classified, request, returned, run, capital>>

(* classifications_from_fixture: all factors, or an error.                 *)
Classify ==
    /\ \A f \in Factors : Assessable(controls[f], today)
    /\ classified' = [f \in Factors |-> AssessRfetEvidence(f, prices[f], controls[f], today)]
    /\ UNCHANGED <<today, prices, controls, request, returned, run, capital>>

-----------------------------------------------------------------------------
(* Method selection.                                                       *)

(* Mutant of FallbackMethod: without the approval.                         *)
FallbackAlways(e) == "MAX_LOSS_FALLBACK"

FallbackMethod(e) == IF e.fallback THEN "MAX_LOSS_FALLBACK" ELSE None

SelectNmrfMethod(e) ==
    CASE e.nonlinear /\ e.full -> "FULL_REVALUATION"
      [] ~(e.nonlinear /\ e.full) /\ e.stepRequired ->
            IF e.stepwise THEN "STEPWISE" ELSE FallbackMethod(e)
      [] ~(e.nonlinear /\ e.full) /\ ~e.stepRequired ->
            IF e.direct /\ e.robust THEN "DIRECT"
            ELSE IF e.direct /\ e.stepwise THEN "STEPWISE"
            ELSE IF e.full THEN "FULL_REVALUATION"
            ELSE IF e.stepwise THEN "STEPWISE"
            ELSE FallbackMethod(e)

MinimumHorizon == 20

(* Mutant of EffectiveHorizon: no floor.                                   *)
OwnHorizon(f) == Horizon[f]

EffectiveHorizon(f) == Max({Horizon[f], MinimumHorizon})

(* The specification of f; evidence is kept for the properties.            *)
ValuationSpec(f, e, period) ==
    [method |-> SelectNmrfMethod(e), horizon |-> EffectiveHorizon(f), period |-> period, evidence |-> e]

(* select_nmrf_methods, build_nmrf_valuation_specs and the request: each   *)
(* raises for an empty sequence, for a factor without a method, and for    *)
(* payloads other than that of the method.  The caller turns to the new     *)
(* run; one that goes on with an older one is a behaviour without this.    *)
Request(evidence, payload, period, regime) ==
    /\ classified # None
    /\ SesFactors(classified) # {}
    /\ \A f \in SesFactors(classified) :
           /\ SelectNmrfMethod(evidence[f]) # None
           /\ payload[f] = {SelectNmrfMethod(evidence[f])}
    /\ request' = [regime |-> regime,
                   specs |-> [f \in SesFactors(classified) |-> ValuationSpec(f, evidence[f], period)]]
    /\ run' = None
    /\ UNCHANGED <<today, prices, controls, classified, returned, capital>>

(* The engine: an artifact it was asked for, or was asked for earlier, or  *)
(* was not asked for; copy tells two deliveries of one artifact apart.     *)
Deliver(a) ==
    /\ request # None
    /\ Cardinality(returned) < MaxArtifacts
    /\ returned' = returned \cup {a}
    /\ UNCHANGED <<today, prices, controls, classified, request, run, capital>>

-----------------------------------------------------------------------------
(* Reconciliation.                                                         *)
ArtifactsOf(f, artifacts) == {a \in artifacts : a.factor = f}

(* Mutant of Reconciles: the stress period is not compared.                *)
ReconcilesAnyPeriod(spec, a, allowPrototype) ==
    /\ a.method = spec.method
    /\ a.horizon >= spec.horizon
    /\ a.prototype => allowPrototype
    /\ a.complete

(* The artifact is what was specified: complete stands for the number and  *)
(* the identifiers of its scenarios.                                       *)
Reconciles(spec, a, allowPrototype) ==
    /\ a.method = spec.method
    /\ a.horizon >= spec.horizon
    /\ a.period = spec.period
    /\ a.prototype => allowPrototype
    /\ a.complete

(* The result passes if nothing is missing, unexpected or duplicate.       *)
ReconciliationPassed(requested, artifacts, allowPrototype) ==
    /\ \A a \in artifacts : a.factor \in DOMAIN requested
    /\ \A f \in DOMAIN requested :
           /\ Cardinality(ArtifactsOf(f, artifacts)) = 1
           /\ \A a \in ArtifactsOf(f, artifacts) : Reconciles(requested[f], a, allowPrototype)

(* One run is followed at a time: when it is complete, its request and the *)
(* artifacts are behind it.                                                *)
CompleteNmrfValuationRun(allowPrototype) ==
    /\ request # None
    /\ run' = [request |-> request, artifacts |-> returned, allowPrototype |-> allowPrototype,
               passed |-> ReconciliationPassed(request.specs, returned, allowPrototype)]
    /\ request' = None /\ returned' = {}
    /\ UNCHANGED <<today, prices, controls, classified, capital>>

-----------------------------------------------------------------------------
(* Capital.  required[f] is None or what required_methods and              *)
(* required_liquidity_horizons ask of f.                                   *)
ArtifactsAccepted(status, artifacts, required) ==
    /\ \A f \in Factors : Cardinality(ArtifactsOf(f, artifacts)) <= 1
    /\ \A a \in artifacts : a.factor \in Factors /\ IsNmrf(a.factor, status)
    /\ \A f \in SesFactors(status) :
           /\ ArtifactsOf(f, artifacts) # {}
           /\ required[f] # None => \A a \in ArtifactsOf(f, artifacts) :
                  a.method = required[f].method /\ a.horizon >= required[f].horizon

MethodsApproved(artifacts, required, allowLinear, allowMaxLoss) == \A a \in artifacts :
    /\ a.method = "MAX_LOSS_FALLBACK" =>
           \/ allowMaxLoss
           \/ required[a.factor] # None /\ required[a.factor].method = "MAX_LOSS_FALLBACK"
    /\ a.method = "LINEAR_SENSITIVITY" => allowLinear

(* calculate_nmrf_capital_for_policy, or an error that changes nothing.    *)
CalculateNmrfCapital(artifacts, regime, required, allowLinear, allowMaxLoss, origin) ==
    /\ classified # None
    /\ ArtifactsAccepted(classified, artifacts, required)
    /\ MethodsApproved(artifacts, required, allowLinear, allowMaxLoss)
    /\ capital' = [status |-> classified, imcc |-> ImccFactors(classified, regime),
                   ses |-> [f \in SesFactors(classified) |->
                               CHOOSE a \in artifacts : a.factor = f],
                   allowLinear |-> allowLinear, allowMaxLoss |-> allowMaxLoss, origin |-> origin]
    /\ UNCHANGED <<today, prices, controls, classified, request, returned, run>>

(* calculate_nmrf_capital_from_valuation_run.                              *)
CapitalFromRun(regime, allowLinear) ==
    /\ run # None
    /\ run.request.regime = regime
    /\ run.passed
    /\ LET specs    == run.request.specs
           required == [f \in Factors |-> IF f \in DOMAIN specs THEN specs[f] ELSE None]
       IN  CalculateNmrfCapital(run.artifacts, regime, required, allowLinear, FALSE, run)

(* A caller with artifacts and no valuation run.                           *)
CapitalFromArtifacts(regime, allowLinear, allowMaxLoss) ==
    CalculateNmrfCapital(returned, regime, [f \in Factors |-> None], allowLinear, allowMaxLoss, None)

(* The bounds are reached, or there is a result: it feeds nothing back, so *)
(* behaviours are followed up to the first.                                *)
Finished == (capital # None \/ today = LastDay) /\ UNCHANGED vars

Step ==
    \/ \E f \in Factors : \E o \in Feed[f] : Observe(f, o)
    \/ NextDay
    \/ Classify
    \/ \E evidence \in SomeEvidence, payload \in SomePayloads, period \in Periods, regime \in Regimes :
           Request(evidence, payload, period, regime)
    \/ \E a \in Engine : Deliver(a)
    \/ \E allowed \in BOOLEAN : CompleteNmrfValuationRun(allowed)
    \/ \E regime \in Regimes, linear \in BOOLEAN : CapitalFromRun(regime, linear)
    \/ \E regime \in Regimes, linear, maxLoss \in BOOLEAN : CapitalFromArtifacts(regime, linear, maxLoss)

Next == (capital = None /\ Step) \/ Finished

Spec == Init /\ [][Next]_vars
-----------------------------------------------------------------------------
(* Properties.                                                             *)

(* Types and ranges: what is asked of the engine is never below the floor. *)
TypeOK ==
    /\ today \in Days
    /\ \A f \in Factors : prices[f] \in Seq(Feed[f])
    /\ controls \in SomeControls
    /\ classified \in Classifications \cup {None}
    /\ request # None => \A f \in DOMAIN request.specs :
           request.specs[f].method \in Methods \ {"LINEAR_SENSITIVITY"} /\ request.specs[f].horizon >= 20
    /\ returned \subseteq Engine
    /\ run # None => run.artifacts \subseteq Engine /\ run.passed \in BOOLEAN
    /\ capital # None => capital.imcc \cup DOMAIN capital.ses \subseteq Factors

(* However the prices arrive, one counts for each date that has a usable   *)
(* one; each other is excluded, once; the raw duplicates, which a loop of  *)
(* its own counts in another way, are as many as the duplicates excluded;  *)
(* and the older counting of rfet.py never finds fewer.                    *)
CountIsOfDates == \A f \in Factors :
    LET stage  == QuantitativeStage(prices[f], today, controls[f].representative)
        raw    == RawDuplicateCounts(prices[f], today)
        usable == {o \in Range(prices[f]) : Usable(o, today)}
        Excluded(reasons) ==
            Cardinality({i \in DOMAIN stage.exclusions : stage.exclusions[i] \in reasons})
    IN  /\ Len(stage.eligible) + Len(stage.exclusions) = Len(prices[f])
        /\ Len(stage.eligible) <= CountEligibleObservations(prices[f], today)
        /\ controls[f].representative =>
               /\ Len(stage.eligible) = Cardinality({o.date : o \in usable})
               /\ Excluded(Duplicates) = raw.byLineage + raw.byDate
               /\ Excluded({"DUPLICATE_SOURCE_VENDOR"}) <= raw.byLineage

(* Though the factors may have been classified anew since the artifacts    *)
(* were ordered: a result has a figure for each factor that is now not     *)
(* modellable and for no other, every factor is in IMCC or in SES, and a   *)
(* figure from a valuation run is of the one artifact returned for it,     *)
(* of the method, period and scenarios ordered and no shorter horizon.     *)
FiguresAreOfTheRun == capital # None =>
    /\ DOMAIN capital.ses = SesFactors(capital.status)
    /\ capital.imcc \cup DOMAIN capital.ses = Factors
    /\ capital.origin # None =>
           LET specs == capital.origin.request.specs
           IN  /\ DOMAIN capital.ses = DOMAIN specs
               /\ \A f \in DOMAIN specs :
                      LET a == capital.ses[f]
                      IN  /\ ArtifactsOf(f, capital.origin.artifacts) = {a}
                          /\ a.method = specs[f].method /\ a.period = specs[f].period
                          /\ a.complete /\ a.horizon >= Max({Horizon[f], 20})

(* Approvals reach the capital: a maximum-loss figure of a valuation run   *)
(* was approved when the method was selected, any other by the caller of   *)
(* the capital calculation; so was a linear one; a prototype of a run was  *)
(* allowed at its reconciliation.                                          *)
ApprovalReachesCapital == capital # None => \A f \in DOMAIN capital.ses :
    LET a == capital.ses[f]
    IN  /\ a.method = "MAX_LOSS_FALLBACK" =>
               IF capital.origin = None THEN capital.allowMaxLoss
               ELSE capital.origin.request.specs[f].evidence.fallback
        /\ a.method = "LINEAR_SENSITIVITY" => capital.origin = None /\ capital.allowLinear
        /\ a.prototype /\ capital.origin # None => capital.origin.allowPrototype
=============================================================================
