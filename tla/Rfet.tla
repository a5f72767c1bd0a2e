-------------------------------- MODULE Rfet --------------------------------
(***************************************************************************)
(* The risk factor eligibility test of frtb-ima: which real-price          *)
(* observations of a risk factor count on a date, why the others do not,   *)
(* and what the factor is classified as.  The assessment of evidence       *)
(* records (assess_rfet_evidence) and that of columns                      *)
(* (assess_rfet_observation_batch) are one algorithm and both are meant;   *)
(* count_eligible_observations of rfet.py is an older and simpler one.     *)
(*                                                                         *)
(* An observation has a date, a lineage (source, vendor, venue, feed and   *)
(* data pool) and a defect: what its documentation lacks.                  *)
(***************************************************************************)
EXTENDS Integers, FiniteSets, SequencesExt

CONSTANTS
    Factors,         \* risk factors
    Horizon,         \* Horizon[f]: the liquidity horizon of f, in days
    LastDay,         \* the last day that is looked at
    Lookback,        \* rfet_lookback_days, or the days of twelve months
    WithCalendar,    \* whether a business calendar is supplied
    Closed,          \* the days on which it is closed
    ShortMax,        \* rfet_short_lh_max_days
    ShortThreshold,  \* rfet_short_lh_threshold
    LongThreshold,   \* rfet_long_lh_threshold
    NoDay            \* no issue date

Days == 1..LastDay

ASSUME RfetAssumption ==
    /\ Horizon \in [Factors -> Nat] /\ Closed \subseteq Days /\ NoDay \notin Days
    /\ WithCalendar \in BOOLEAN
    /\ {LastDay, Lookback, ShortMax, ShortThreshold, LongThreshold} \subseteq Nat \ {0}

(* "UNDOCUMENTED": no source, no evidence for a date that is not the time- *)
(* stamp's, or a vendor without audit evidence.                            *)
Defects == {"none", "UNVERIFIABLE_PRICE", "UNDOCUMENTED"}

Duplicates == {"DUPLICATE_SOURCE_VENDOR", "DUPLICATE_DATE"}

(* The controls of a factor's evidence: the governance result, whether its *)
(* bucket is represented, and the evidence of a new issue.                 *)
Controls == [qualitative : BOOLEAN, representative : BOOLEAN,
             issued : Days \cup {NoDay}, prorating : BOOLEAN]

LineageKey(o) == <<o.date, o.lineage>>

(* Stable, as sorted() and argsort(kind="stable") are: of one date, the    *)
(* first to come comes first.                                              *)
SortedByDate(observations) ==
    LET places == DOMAIN observations
        key == [i \in places |-> observations[i].date * Len(observations) + i]
        place == [i \in places |-> Cardinality({j \in places : key[j] <= key[i]})]
    IN  [n \in places |-> observations[CHOOSE i \in places : place[i] = n]]

(* Without a calendar the window is a day longer: both ends are inside.    *)
LookbackStart(asOf) == IF WithCalendar THEN asOf - Lookback + 1 ELSE asOf - Lookback

InWindow(o, asOf) == o.date \in LookbackStart(asOf)..asOf

IsClosed(day) == WithCalendar /\ day \in Closed

(* Why an observation does not count, whatever else has been observed.     *)
PreRepresentativenessReason(o, asOf) ==
    CASE o.date > asOf -> "FUTURE_OBSERVATION"
      [] o.date < LookbackStart(asOf) -> "OUTSIDE_LOOKBACK"
      [] InWindow(o, asOf) /\ IsClosed(o.date) -> "NON_BUSINESS_DATE"
      [] InWindow(o, asOf) /\ ~IsClosed(o.date) -> o.defect

Usable(o, asOf) == PreRepresentativenessReason(o, asOf) = "none"

-----------------------------------------------------------------------------
(* The counting loop.  seen_dates and seen_lineage_keys are those of the   *)
(* observations that count so far.                                         *)
Nothing == [eligible |-> <<>>, exclusions |-> <<>>, keys |-> {}, dates |-> {}]

ExclusionReason(seen, o, asOf, representative) ==
    LET reason == PreRepresentativenessReason(o, asOf)
    IN  CASE reason # "none" -> reason
          [] reason = "none" /\ ~representative -> "NON_REPRESENTATIVE"
          [] OTHER -> IF LineageKey(o) \in seen.keys THEN "DUPLICATE_SOURCE_VENDOR"
                      ELSE IF o.date \in seen.dates THEN "DUPLICATE_DATE" ELSE "none"

(* Mutant of Count: what does not count is remembered as seen, too.        *)
CountAndRemember(seen, o, asOf, representative) ==
    LET reason == ExclusionReason(seen, o, asOf, representative)
        known  == [seen EXCEPT !.keys = @ \cup {LineageKey(o)}, !.dates = @ \cup {o.date}]
    IN  IF reason = "none" THEN [known EXCEPT !.eligible = Append(@, o)]
        ELSE [known EXCEPT !.exclusions = Append(@, reason)]

Count(seen, o, asOf, representative) ==
    LET reason == ExclusionReason(seen, o, asOf, representative)
    IN  IF reason = "none"
        THEN [seen EXCEPT !.keys = @ \cup {LineageKey(o)}, !.dates = @ \cup {o.date},
                          !.eligible = Append(@, o)]
        ELSE [seen EXCEPT !.exclusions = Append(@, reason)]

QuantitativeStage(observations, asOf, representative) ==
    FoldLeft(LAMBDA seen, o : Count(seen, o, asOf, representative), Nothing,
             SortedByDate(observations))

(* _raw_duplicate_counts: a loop of its own, which remembers every usable  *)
(* observation, the duplicates among them included.                        *)
CountDuplicate(raw, o, asOf) ==
    IF ~Usable(o, asOf) THEN raw
    ELSE [raw EXCEPT
                !.byLineage = @ + (IF LineageKey(o) \in raw.keys THEN 1 ELSE 0),
                !.byDate = @ + (IF LineageKey(o) \notin raw.keys /\ o.date \in raw.dates THEN 1 ELSE 0),
                !.keys = @ \cup {LineageKey(o)}, !.dates = @ \cup {o.date}]

RawDuplicateCounts(observations, asOf) ==
    FoldLeft(LAMBDA raw, o : CountDuplicate(raw, o, asOf),
             [byLineage |-> 0, byDate |-> 0, keys |-> {}, dates |-> {}], SortedByDate(observations))

(* count_eligible_observations: in the order given, and of the controls    *)
(* only the window, the calendar and verifiability.                        *)
Admitted(o, asOf) ==
    InWindow(o, asOf) /\ ~IsClosed(o.date) /\ o.defect # "UNVERIFIABLE_PRICE"

CountSimply(seen, o, asOf) ==
    IF ~Admitted(o, asOf) \/ LineageKey(o) \in seen.keys \/ o.date \in seen.dates THEN seen
    ELSE [keys |-> seen.keys \cup {LineageKey(o)}, dates |-> seen.dates \cup {o.date}]

CountEligibleObservations(observations, asOf) ==
    Cardinality(FoldLeft(LAMBDA seen, o : CountSimply(seen, o, asOf),
                         [keys |-> {}, dates |-> {}], observations).dates)

-----------------------------------------------------------------------------
(* The threshold.                                                          *)
BaseRequired(f) == IF Horizon[f] <= ShortMax THEN ShortThreshold ELSE LongThreshold

Ceiling(a, b) == (a + b - 1) \div b

(* The share of the window, both ends counted, since a new issue.          *)
Prorated(base, issued, asOf) ==
    IF issued <= LookbackStart(asOf) THEN base
    ELSE LET share == Ceiling(base * (asOf - issued + 1), asOf - LookbackStart(asOf) + 1)
         IN  Max({1, Min({base, share})})

Prorates(control) == control.issued # NoDay /\ control.prorating

(* Refused: an issue date after that of the assessment, and a calendar     *)
(* without a business day in the window.                                   *)
Assessable(control, asOf) ==
    /\ Prorates(control) => control.issued <= asOf
    /\ WithCalendar => \E day \in LookbackStart(asOf)..asOf : ~IsClosed(day)

RequiredObservations(f, control, asOf) ==
    IF Prorates(control) THEN Prorated(BaseRequired(f), control.issued, asOf)
    ELSE BaseRequired(f)

ModellabilityStatus == {"MODELLABLE", "TYPE_A_NMRF", "TYPE_B_NMRF"}

StatusFromTests(qualitative, quantitative) ==
    IF ~qualitative THEN "TYPE_B_NMRF"
    ELSE IF quantitative THEN "MODELLABLE" ELSE "TYPE_A_NMRF"

AssessRfetEvidence(f, observations, control, asOf) ==
    LET stage == QuantitativeStage(observations, asOf, control.representative)
    IN  StatusFromTests(control.qualitative,
            Len(stage.eligible) >= RequiredObservations(f, control, asOf))
=============================================================================
