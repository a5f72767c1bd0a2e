------------------------------ MODULE ImaDesk ------------------------------
(* The daily assessment of one trading desk of frtb-ima: the windows of P&L *)
(* and VaR are cut out of the series its feeds deliver, backtesting counts  *)
(* exceptions, PLA compares hypothetical with risk-theoretical P&L, the two *)
(* decide whether the desk may use its model, and capital is assembled.     *)
(* P&L and VaR are small integers, and thresholds are in percent.           *)
EXTENDS Integers, Sequences, FiniteSets, FiniteSetsExt, SequencesExt

CONSTANTS
    Window, MinimumHistory,         \* of backtesting, in observations
    PlaWindow, PlaMinimumHistory,   \* and of PLA
    Levels, Limits,                 \* confidence levels, exceptions allowed
    KsGreen, KsAmber, RhoGreen, RhoAmber,
    RedZone, Schedule, RedMultiplier,
    Charges,          \* [imcc, ses, imccAvg, sesAvg, sa]: amounts of the desk
    Rows,             \* what a day may report: [apl, hpl, var, holiday]
    PlaFeeds,         \* what PLA is fed: [hpl, rtpl] or NoRow for every day
    Setups,           \* [calendar, plaCalendar, prorated, spearman, compared]
    LastDay, MaxRows, \* bounds: days, and rows that a repeat may bring a series to
    Missing, NoRow, NoCalendar, None

ASSUME ImaDeskAssumption ==
    /\ Window \in Nat \ {0} /\ PlaWindow \in Nat \ {0}
    /\ MinimumHistory \in Nat /\ PlaMinimumHistory \in Nat
    /\ Window <= MinimumHistory /\ PlaWindow <= PlaMinimumHistory
    /\ Limits \in [Levels -> Nat]
    /\ KsGreen <= KsAmber /\ RhoAmber <= RhoGreen
    /\ LastDay \in Nat /\ MaxRows \in Nat /\ IsFiniteSet(Levels)
    /\ \A r \in Rows : r.holiday \in BOOLEAN /\ r.var \in [Levels -> (Nat \ {0}) \cup {Missing}]
    /\ \A su \in Setups : \A cal \in {su.calendar, su.plaCalendar} \ {NoCalendar} :
           cal.business \subseteq Int /\ IsFiniteSet(cal.business)

VARIABLES
    today,      \* the day that the last step brought
    setup, feed,
    series,     \* what backtesting is given: aligned sequences of values
    phase,      \* "assessed", "observed" or "assembled"
    verdict,    \* of the last assessment
    capital     \* of the last assembly

vars == <<today, setup, feed, series, phase, verdict, capital>>

Zones == <<"GREEN", "AMBER", "RED">>

Recent(s, n) == SubSeq(s, Len(s) - n + 1, Len(s))
Least(a, b) == IF a <= b THEN a ELSE b
Greatest(a, b) == IF a >= b THEN a ELSE b

--------------------------------------------------------------------------
(* The window of dates.                                                     *)

(* A set of days as a sequence, the earliest first.                         *)
InOrder(days) ==
    [i \in 1 .. Cardinality(days) |->
        CHOOSE d \in days : Cardinality({e \in days : e <= d}) = i]

(* The n business dates up to the last observation, in order: none if the   *)
(* calendar has too few, or a weekday that it does not explain.             *)
BusinessDays(cal, n, asOf) ==
    LET eligible == InOrder({d \in cal.business : d <= asOf})
        selected == Recent(eligible, n)
    IN  IF \/ Len(eligible) < n
           \/ \E d \in selected[1]..selected[n] :
                  d \notin cal.business \cup cal.holidays \cup cal.weekend
        THEN <<>> ELSE selected

(* Mutant: the calendar must only reach back far enough.                    *)
CalendarReaches(cal, dates, n) ==
    cal = NoCalendar \/ Len(BusinessDays(cal, n, Last(dates))) = n

CalendarAccepts(cal, dates, n) ==
    cal = NoCalendar \/ Recent(dates, n) = BusinessDays(cal, n, Last(dates))

--------------------------------------------------------------------------
(* Backtesting.                                                             *)

(* Mutant: a missing value is no exception.                                 *)
IsExceptionIfPresent(pnl, var, holiday) ==
    pnl # Missing /\ var # Missing /\ -pnl > var /\ ~holiday

IsException(pnl, var, holiday) ==
    /\ \/ pnl = Missing
       \/ var = Missing
       \/ -pnl > var
    /\ ~holiday

(* Mutant: a holiday is not told from another day.                          *)
ReasonOfValues(pnl, var, holiday, exception) ==
    CASE pnl = Missing -> "missing_pnl"
      [] pnl # Missing /\ var = Missing -> "missing_var"
      [] pnl # Missing /\ var # Missing ->
             IF -pnl > var THEN "loss_exceeds_var" ELSE "none"

Reason(pnl, var, holiday, exception) ==
    CASE holiday -> "official_holiday"
      [] ~holiday /\ pnl = Missing /\ var = Missing -> "missing_pnl_and_var"
      [] ~holiday /\ pnl = Missing /\ var # Missing -> "missing_pnl"
      [] ~holiday /\ pnl # Missing /\ var = Missing -> "missing_var"
      [] ~holiday /\ pnl # Missing /\ var # Missing ->
             IF exception THEN "loss_exceeds_var" ELSE "none"

WindowSize(s) == Least(Window, Len(s.dates))

BacktestRefused(s, su) ==
    \/ s.dates = <<>>
    \/ Len(s.dates) < MinimumHistory /\ ~su.prorated
    \/ ~CalendarAccepts(su.calendar, s.dates, WindowSize(s))

(* Mutant: the holidays of the oldest days.                                 *)
OldestHolidays(s, n) == SubSeq(s.holiday, 1, n)

(* Each series is cut on its own, as the code slices its arrays.            *)
HolidayWindow(s, n) == Recent(s.holiday, n)

LevelTrace(s, level) ==
    LET n == WindowSize(s)
        apl == Recent(s.apl, n)
        hpl == Recent(s.hpl, n)
        var == Recent(s.var[level], n)
        holiday == HolidayWindow(s, n)
        dates == Recent(s.dates, n)
    IN  [i \in 1..n |->
            LET aplException == IsException(apl[i], var[i], holiday[i])
                hplException == IsException(hpl[i], var[i], holiday[i])
            IN  [index |-> Len(s.dates) - n + i, date |-> dates[i],
                 apl |-> apl[i], hpl |-> hpl[i], var |-> var[i],
                 holiday |-> holiday[i],
                 aplException |-> aplException, hplException |-> hplException,
                 aplReason |-> Reason(apl[i], var[i], holiday[i], aplException),
                 hplReason |-> Reason(hpl[i], var[i], holiday[i], hplException)]]

(* The limit shrinks with a short window where that is allowed; a product   *)
(* avoids the fraction.                                                     *)
WithinLimit(count, level, n, prorated) ==
    IF prorated /\ n < Window
    THEN count * Window <= Limits[level] * n
    ELSE count <= Limits[level]

LevelResult(s, level, prorated) ==
    LET trace == LevelTrace(s, level)
        apl == Cardinality({i \in DOMAIN trace : trace[i].aplException})
        hpl == Cardinality({i \in DOMAIN trace : trace[i].hplException})
        n == WindowSize(s)
    IN  [apl |-> apl, hpl |-> hpl,
         passed |-> WithinLimit(apl, level, n, prorated)
                        /\ WithinLimit(hpl, level, n, prorated)]

Backtest(s, su) ==
    LET levels == [l \in Levels |-> LevelResult(s, l, su.prorated)]
        dates == Recent(s.dates, WindowSize(s))
    IN  [levels |-> levels,
         eligible |-> \A l \in Levels : levels[l].passed,
         size |-> WindowSize(s), first |-> Len(s.dates) - WindowSize(s) + 1,
         start |-> Head(dates), end |-> Last(dates),
         backed |-> su.calendar # NoCalendar]

(* The count that assembly is handed: the worst of any level.               *)
WorstCount(b) ==
    Max({0} \cup {b.levels[l].apl : l \in Levels} \cup {b.levels[l].hpl : l \in Levels})

--------------------------------------------------------------------------
(* P&L attribution.                                                         *)

(* n times the largest gap of the two empirical distributions.              *)
KsGap(h, r) ==
    LET below(s, v) == Cardinality({i \in DOMAIN s : s[i] <= v})
        gap(v) == IF below(h, v) >= below(r, v)
                  THEN below(h, v) - below(r, v) ELSE below(r, v) - below(h, v)
    IN  Max({gap(v) : v \in Range(h) \cup Range(r)})

KsZone(h, r) ==
    LET ks == 100 * KsGap(h, r)
    IN  IF ks <= KsGreen * Len(h) THEN "GREEN"
        ELSE IF ks <= KsAmber * Len(h) THEN "AMBER" ELSE "RED"

(* Twice the average rank, less its mean: an integer for ties as well.      *)
CentredRanks(s) ==
    [i \in DOMAIN s |->
        2 * Cardinality({j \in DOMAIN s : s[j] < s[i]})
            + Cardinality({j \in DOMAIN s : s[j] = s[i]}) - Len(s)]

Dot(a, b) == MapThenSumSet(LAMBDA i : a[i] * b[i], DOMAIN a)

SpearmanUndefined(h, r) ==
    \/ Len(h) < 2
    \/ Dot(CentredRanks(h), CentredRanks(h)) = 0
    \/ Dot(CentredRanks(r), CentredRanks(r)) = 0

(* rho >= t: compared as squares, thresholds being positive.                *)
RhoAtLeast(h, r, t) ==
    LET a == CentredRanks(h)
        b == CentredRanks(r)
    IN  Dot(a, b) >= 0
        /\ 10000 * Dot(a, b) * Dot(a, b) >= t * t * Dot(a, a) * Dot(b, b)

SpearmanZone(h, r) ==
    IF RhoAtLeast(h, r, RhoGreen) THEN "GREEN"
    ELSE IF RhoAtLeast(h, r, RhoAmber) THEN "AMBER" ELSE "RED"

Severity(zone) == CHOOSE i \in 1..3 : Zones[i] = zone

WorseZone(a, b) == IF Severity(a) >= Severity(b) THEN a ELSE b

(* What PLA has been fed up to a day, as aligned sequences.                 *)
PlaSeries(f, day) ==
    LET dates == InOrder({d \in 1..day : f[d] # NoRow})
    IN  [dates |-> dates,
         hpl |-> [i \in DOMAIN dates |-> f[dates[i]].hpl],
         rtpl |-> [i \in DOMAIN dates |-> f[dates[i]].rtpl]]

PlaSize(p) == Least(PlaWindow, Len(p.dates))

PlaRefused(p, su) ==
    \/ Missing \in Range(p.hpl) \cup Range(p.rtpl)
    \/ Len(p.dates) < PlaMinimumHistory
    \/ ~CalendarAccepts(su.plaCalendar, p.dates, PlaSize(p))
    \/ /\ su.spearman
       /\ SpearmanUndefined(Recent(p.hpl, PlaSize(p)), Recent(p.rtpl, PlaSize(p)))

AssessPla(p, su) ==
    LET h == Recent(p.hpl, PlaSize(p))
        r == Recent(p.rtpl, PlaSize(p))
        dates == Recent(p.dates, PlaSize(p))
    IN  [zone |-> IF su.spearman THEN WorseZone(KsZone(h, r), SpearmanZone(h, r))
                  ELSE KsZone(h, r),
         start |-> Head(dates), end |-> Last(dates),
         backed |-> su.plaCalendar # NoCalendar]

--------------------------------------------------------------------------
(* Eligibility and capital.                                                 *)

(* A caller that has the windows compared: only those that calendars vouch  *)
(* for are.                                                                 *)
Misaligned(z, b) ==
    z.backed /\ b.backed /\ (z.start # b.start \/ z.end # b.end)

(* Mutant: the zone of PLA in place of the status.                          *)
EligibilityByZone(b, zone) == IF ~b.eligible THEN "SA_FALLBACK" ELSE zone

Eligibility(b, zone) ==
    IF ~b.eligible \/ zone = "RED" THEN "SA_FALLBACK" ELSE "IMA_ELIGIBLE"

Refused == [status |-> "refused", backtest |-> None, pla |-> None,
            eligibility |-> None]

Assessment(s, p, su) ==
    IF BacktestRefused(s, su) \/ PlaRefused(p, su) THEN Refused
    ELSE LET b == Backtest(s, su)
             z == AssessPla(p, su)
         IN  IF su.compared /\ Misaligned(z, b) THEN Refused
             ELSE [status |-> "decided", backtest |-> b, pla |-> z,
                   eligibility |-> Eligibility(b, z.zone)]

SupervisoryMultiplier(count) ==
    IF count \in DOMAIN Schedule THEN Schedule[count] ELSE RedMultiplier

(* The averages are not negative; that the multiplier does not fall as the  *)
(* count rises holds of the schedule of every policy, though the code that  *)
(* reads one only asks for the floor.                                       *)
ASSUME CapitalAssumption ==
    /\ {Charges.imcc, Charges.ses, Charges.imccAvg, Charges.sesAvg} \subseteq Nat
    /\ Charges.sa \in Int /\ RedZone \in Nat
    /\ \A m, n \in 0 .. RedZone :
           /\ SupervisoryMultiplier(n) \in Nat
           /\ m <= n => SupervisoryMultiplier(m) <= SupervisoryMultiplier(n)

(* In hundredths, for a population of one desk.                             *)
PlaAddon(zone) ==
    LET benefit == Greatest(Charges.sa - (Charges.imcc + Charges.ses), 0)
    IN  IF zone = "AMBER" THEN 50 * benefit ELSE 0

ModelsBasedCapital(count, zone) ==
    Greatest(100 * (Charges.imcc + Charges.ses),
             SupervisoryMultiplier(count) * Charges.imccAvg + 100 * Charges.sesAvg)
        + PlaAddon(zone)

CapitalOf(v) ==
    IF v.status = "refused" \/ v.eligibility = "SA_FALLBACK"
            \/ WorstCount(v.backtest) >= RedZone
    THEN [status |-> "refused", amount |-> 0]
    ELSE [status |-> "assembled",
          amount |-> ModelsBasedCapital(WorstCount(v.backtest), v.pla.zone)]

NoCapital == [status |-> "refused", amount |-> 0]

--------------------------------------------------------------------------
Init ==
    /\ today = 0
    /\ setup \in Setups
    /\ feed \in PlaFeeds
    /\ series = [apl |-> <<>>, hpl |-> <<>>, holiday |-> <<>>, dates |-> <<>>,
                 var |-> [l \in Levels |-> <<>>]]
    /\ phase = "assembled"
    /\ verdict = Refused
    /\ capital = NoCapital

Appended(s, day, row) ==
    [apl |-> Append(s.apl, row.apl), hpl |-> Append(s.hpl, row.hpl),
     holiday |-> Append(s.holiday, row.holiday), dates |-> Append(s.dates, day),
     var |-> [l \in Levels |-> Append(s.var[l], row.var[l])]]

(* A day passes: the desk reports it, or it is not in its series.           *)
NewDay ==
    /\ phase = "assembled"
    /\ today < LastDay
    /\ today' = today + 1
    /\ \E row \in Rows \cup {NoRow} :
           series' = IF row = NoRow THEN series ELSE Appended(series, today', row)
    /\ phase' = "observed"
    /\ UNCHANGED <<setup, feed, verdict, capital>>

(* The day is reported once more: dates may repeat, though not go back.     *)
RepeatDay ==
    /\ phase = "assembled"
    /\ series.dates # <<>> /\ Last(series.dates) = today
    /\ Len(series.dates) < MaxRows
    /\ \E row \in Rows : series' = Appended(series, today, row)
    /\ phase' = "observed"
    /\ UNCHANGED <<today, setup, feed, verdict, capital>>

(* Backtesting, PLA, the alignment of their windows, and the desk's status. *)
AssessDesk ==
    /\ phase = "observed"
    /\ verdict' = Assessment(series, PlaSeries(feed, today), setup)
    /\ phase' = "assessed"
    /\ UNCHANGED <<today, setup, feed, series, capital>>

AssembleCapital ==
    /\ phase = "assessed"
    /\ capital' = CapitalOf(verdict)
    /\ phase' = "assembled"
    /\ UNCHANGED <<today, setup, feed, series, verdict>>

Next == NewDay \/ RepeatDay \/ AssessDesk \/ AssembleCapital

Spec == Init /\ [][Next]_vars

--------------------------------------------------------------------------
(* Properties.                                                              *)

(* The series of the desk have one length and dates that never go back,     *)
(* the status is one of the two of DeskEligibilityStatus, a zone is one of  *)
(* the three labels, and capital is an amount of money.                     *)
TypeOK ==
    /\ today \in 0..LastDay /\ setup \in Setups /\ feed \in PlaFeeds
    /\ phase \in {"observed", "assessed", "assembled"}
    /\ \A f \in {"apl", "hpl", "holiday"} : Len(series[f]) = Len(series.dates)
    /\ \A l \in Levels : Len(series.var[l]) = Len(series.dates)
    /\ \A i, j \in DOMAIN series.dates : i < j => series.dates[i] <= series.dates[j]
    /\ verdict.status = "decided" =>
           /\ verdict.eligibility \in {"SA_FALLBACK", "IMA_ELIGIBLE"}
           /\ verdict.pla.zone \in Range(Zones)
           /\ verdict.backtest.size \in 1..Window
    /\ capital.status \in {"refused", "assembled"} /\ capital.amount \in Nat

(* Every entry of the audit trace of backtesting is about the day it names: *)
(* the values, the holiday and the date that the index has in the history   *)
(* although each series is cut on its own; and the reasons that the trace   *)
(* gives for a level, found from the values again, are as many exceptions   *)
(* as the level was judged by.                                              *)
TraceMatchesHistory ==
    verdict.status = "decided" /\ phase = "assessed" =>
        \A l \in Levels :
            LET trace == LevelTrace(series, l)
                innocent == {"none", "official_holiday"}
            IN  /\ \A i \in DOMAIN trace :
                       LET day == trace[i].index
                       IN  /\ trace[i].date = series.dates[day]
                           /\ trace[i].apl = series.apl[day]
                           /\ trace[i].hpl = series.hpl[day]
                           /\ trace[i].var = series.var[l][day]
                           /\ trace[i].holiday = series.holiday[day]
                /\ Cardinality({i \in DOMAIN trace : trace[i].aplReason \notin innocent})
                       = verdict.backtest.levels[l].apl
                /\ Cardinality({i \in DOMAIN trace : trace[i].hplReason \notin innocent})
                       = verdict.backtest.levels[l].hpl

(* A desk gains nothing by not reporting: were the APL of any day missing,  *)
(* or the VaR of any level, the desk would not become eligible by it, and   *)
(* its capital would not be less. The step through window, counts, limits,  *)
(* status, red-zone gate and multiplier is monotone as a whole.             *)
WithoutApl(s, i) == [s EXCEPT !.apl[i] = Missing]
WithoutVar(s, l, i) == [s EXCEPT !.var[l][i] = Missing]

NotCheaper(v, w) ==
    LET old == CapitalOf(v)
        new == CapitalOf(w)
    IN  new.status = "assembled" => old.status = "assembled" /\ old.amount <= new.amount

SilenceNeverHelps ==
    phase = "assessed" /\ verdict.status = "decided" =>
        LET p == PlaSeries(feed, today)
            outcome(s) == Assessment(s, p, setup)
        IN  \A i \in DOMAIN series.dates :
                /\ NotCheaper(verdict, outcome(WithoutApl(series, i)))
                /\ \A l \in Levels :
                       NotCheaper(verdict, outcome(WithoutVar(series, l, i)))

(* Where both windows are vouched for by one calendar, an assessment that   *)
(* is not refused has looked at the same days on both sides, although the   *)
(* alignment compares only their first and last: the two feeds may leave    *)
(* out different days, and be late.                                         *)
AlignedMeansSameDays ==
    /\ verdict.status = "decided" /\ phase = "assessed"
    /\ setup.compared
    /\ setup.calendar # NoCalendar /\ setup.calendar = setup.plaCalendar
    => LET p == PlaSeries(feed, today)
       IN  Recent(p.dates, PlaSize(p)) = Recent(series.dates, WindowSize(series))

(* A desk that failed backtesting over a full window passes again only once *)
(* an exception has left the window, by its place in the series and not by  *)
(* its date, which others may share: no later day makes up for one.         *)
RecoveryNeedsAgeing ==
    [][ /\ verdict.status = "decided" /\ verdict'.status = "decided"
        /\ verdict.backtest.size = Window /\ verdict'.backtest.size = Window
        /\ ~verdict.backtest.eligible /\ verdict'.backtest.eligible
        => \E l \in Levels, i \in DOMAIN series.dates :
               /\ verdict.backtest.first <= i /\ i < verdict'.backtest.first
               /\ \/ IsException(series.apl[i], series.var[l][i], series.holiday[i])
                  \/ IsException(series.hpl[i], series.var[l][i], series.holiday[i])
      ]_vars
=============================================================================
