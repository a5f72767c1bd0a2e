--------------------------- MODULE ImaDeskProofs ---------------------------
(* Proofs about ImaDesk.                                                    *)
EXTENDS ImaDesk, InductionLemmas, SequenceTheorems

(* The last n values of a sequence, one by one.                             *)
LEMMA RecentValues ==
    ASSUME NEW S, NEW s \in Seq(S), NEW n \in 1 .. Len(s)
    PROVE  /\ Recent(s, n) \in [1 .. n -> S] /\ Recent(s, n) \in Seq(S)
           /\ Len(Recent(s, n)) = n
           /\ \A i \in 1 .. n : Recent(s, n)[i] = s[Len(s) - n + i]
<1>1. Len(s) - n + 1 \in 1 .. Len(s) + 1 /\ Len(s) \in Nat
  OBVIOUS
<1>2. Recent(s, n) \in Seq(S) /\ Len(Recent(s, n)) = n
  BY <1>1, SubSeqProperties DEF Recent
<1>3. \A i \in 1 .. n : Recent(s, n)[i] = s[Len(s) - n + i]
  BY <1>1, SubSeqProperties DEF Recent
<1> QED
  BY <1>2, <1>3

(* The first and the last of them.                                          *)
LEMMA RecentEnds ==
    ASSUME NEW S, NEW s \in Seq(S), NEW n \in 1 .. Len(s)
    PROVE  /\ Head(Recent(s, n)) = s[Len(s) - n + 1]
           /\ Last(Recent(s, n)) = s[Len(s)]
<1> DEFINE t == Recent(s, n)
<1>1. /\ t \in Seq(S) /\ Len(t) = n /\ \A i \in 1 .. n : t[i] = s[Len(s) - n + i]
  BY RecentValues
<1> HIDE DEF t
<1>2. Len(s) \in Nat /\ n \in Nat /\ n >= 1
  OBVIOUS
<1>3. t[1] = s[Len(s) - n + 1] /\ t[n] = s[Len(s)]
  <2>1. Len(s) - n + n = Len(s) /\ 1 \in 1 .. n /\ n \in 1 .. n
    BY <1>2
  <2> QED
    BY <1>1, <2>1
<1>4. Head(t) = t[1]
  BY <1>1, <1>2
<1> QED
  BY <1>1, <1>3, <1>4 DEF Last, t

(* A set of days in order: each once, the earlier first.                    *)
LEMMA InOrderIsSorted ==
    ASSUME NEW T \in SUBSET Int, IsFiniteSet(T)
    PROVE  /\ Cardinality(T) \in Nat /\ InOrder(T) \in [1 .. Cardinality(T) -> T]
           /\ InOrder(T) \in Seq(T) /\ Len(InOrder(T)) = Cardinality(T)
           /\ \A i, j \in 1 .. Cardinality(T) : i < j => InOrder(T)[i] < InOrder(T)[j]
<1> DEFINE n == Cardinality(T)
           key == [x \in T |-> x]
           rank == RankIn(T, key)
<1>1. /\ n \in Nat
      /\ rank \in [T -> 1 .. n]
      /\ \A x, y \in T : rank[x] < rank[y] <=> key[x] < key[y]
      /\ \A i \in 1 .. n : \E x \in T : rank[x] = i
  <2>1. key \in [T -> Int] /\ \A x, y \in T : key[x] = key[y] => x = y
    OBVIOUS
  <2> HIDE DEF key
  <2> QED
    BY <2>1, RankIsPlace
<1>2. \A x \in T : rank[x] = Cardinality({e \in T : e <= x})
  <2> TAKE x \in T
  <2>1. {y \in T : key[y] <= key[x]} = {e \in T : e <= x}
    OBVIOUS
  <2> QED
    BY <2>1 DEF RankIn
<1>3. \A x, y \in T : rank[x] < rank[y] <=> x < y
  BY <1>1
<1> DEFINE at(i) == CHOOSE d \in T : Cardinality({e \in T : e <= d}) = i
<1>7. InOrder(T) = [i \in 1 .. n |-> at(i)]
  BY DEF InOrder
<1> HIDE DEF rank, key, n
<1>4. \A i \in 1 .. n : InOrder(T)[i] \in T /\ rank[InOrder(T)[i]] = i
  <2> TAKE i \in 1 .. n
  <2>1. \E d \in T : Cardinality({e \in T : e <= d}) = i
    BY <1>1, <1>2
  <2>2. at(i) \in T /\ Cardinality({e \in T : e <= at(i)}) = i
    BY <2>1
  <2> HIDE DEF at
  <2>3. InOrder(T)[i] = at(i)
    BY <1>7
  <2> QED
    BY <1>2, <2>2, <2>3
<1> HIDE DEF at
<1>5. InOrder(T) \in [1 .. n -> T]
  <2>1. \A i \in 1 .. n : InOrder(T)[i] = at(i)
    BY <1>7
  <2>2. \A i \in 1 .. n : at(i) \in T
    BY <1>4, <2>1
  <2> QED
    BY <1>7, <2>2
<1>6. \A i, j \in 1 .. n : i < j => InOrder(T)[i] < InOrder(T)[j]
  BY <1>3, <1>4
<1> QED
  BY <1>1, <1>5, <1>6 DEF n

-----------------------------------------------------------------------------
(* The series of a desk.                                                    *)

Pnls == {Missing} \cup UNION {{r.apl, r.hpl} : r \in Rows}
Vars == {Missing} \cup UNION {{r.var[l] : l \in Levels} : r \in Rows}

Aligned(s) ==
    /\ s \in [apl : Seq(Pnls), hpl : Seq(Pnls), holiday : Seq(BOOLEAN),
              dates : Seq(1 .. LastDay), var : [Levels -> Seq(Vars)]]
    /\ Len(s.apl) = Len(s.dates) /\ Len(s.hpl) = Len(s.dates)
    /\ Len(s.holiday) = Len(s.dates)
    /\ \A l \in Levels : Len(s.var[l]) = Len(s.dates)
    /\ \A i, j \in 1 .. Len(s.dates) : i < j => s.dates[i] <= s.dates[j]

(* The dates are days.                                                      *)
LEMMA DatesAreDays ==
    ASSUME NEW s, Aligned(s)
    PROVE  /\ Len(s.dates) \in Nat
           /\ \A i \in 1 .. Len(s.dates) : s.dates[i] \in 1 .. LastDay /\ s.dates[i] \in Int
<1>1. s.dates \in Seq(1 .. LastDay)
  BY DEF Aligned
<1>2. ASSUME NEW S, NEW q \in Seq(S) PROVE Len(q) \in Nat /\ \A i \in 1 .. Len(q) : q[i] \in S
  BY LenProperties, ElementOfSeq
<1>3. \A d \in 1 .. LastDay : d \in Int
  OBVIOUS
<1> QED
  BY <1>1, <1>2, <1>3

(* What precedes the window.                                                *)
Skipped(s) == Len(s.dates) - WindowSize(s)

(* The trace of a level has the values of the days of the window.           *)
LEMMA TraceOfWindow ==
    ASSUME NEW s, Aligned(s), s.dates # <<>>, NEW l \in Levels
    PROVE  /\ WindowSize(s) \in 1 .. Window /\ WindowSize(s) \in 1 .. Len(s.dates)
           /\ Skipped(s) \in Nat /\ Len(s.dates) = Skipped(s) + WindowSize(s)
           /\ DOMAIN LevelTrace(s, l) = 1 .. WindowSize(s)
           /\ \A i \in 1 .. WindowSize(s) :
                  LET k == Skipped(s) + i
                      entry == LevelTrace(s, l)[i]
                  IN  /\ k \in 1 .. Len(s.dates) /\ entry.index = k
                      /\ entry.date = s.dates[k] /\ entry.apl = s.apl[k]
                      /\ entry.hpl = s.hpl[k] /\ entry.var = s.var[l][k]
                      /\ entry.holiday = s.holiday[k]
                      /\ entry.aplException = IsException(s.apl[k], s.var[l][k], s.holiday[k])
                      /\ entry.hplException = IsException(s.hpl[k], s.var[l][k], s.holiday[k])
                      /\ entry.aplReason = Reason(s.apl[k], s.var[l][k], s.holiday[k],
                                                  entry.aplException)
                      /\ entry.hplReason = Reason(s.hpl[k], s.var[l][k], s.holiday[k],
                                                  entry.hplException)
<1> DEFINE n == WindowSize(s)
           N == Len(s.dates)
<1>1. N \in Nat /\ N # 0
  BY EmptySeq, LenProperties DEF Aligned
<1>2. n \in 1 .. Window /\ n \in 1 .. N
  BY <1>1, ImaDeskAssumption DEF WindowSize, Least
<1>8. /\ s.apl \in Seq(Pnls) /\ Len(s.apl) = N /\ s.hpl \in Seq(Pnls) /\ Len(s.hpl) = N
      /\ s.holiday \in Seq(BOOLEAN) /\ Len(s.holiday) = N
      /\ s.dates \in Seq(1 .. LastDay) /\ Len(s.dates) = N
      /\ s.var[l] \in Seq(Vars) /\ Len(s.var[l]) = N
  BY DEF Aligned
<1>9. Skipped(s) = N - n
  BY DEF Skipped
<1> HIDE DEF n, N
<1>3. Skipped(s) \in Nat /\ N = Skipped(s) + n
  BY <1>1, <1>2 DEF Skipped, n, N
<1>10. ASSUME NEW S, NEW t \in Seq(S), Len(t) = N
       PROVE  \A i \in 1 .. n : Recent(t, n)[i] = t[Skipped(s) + i]
  <2>1. n \in 1 .. Len(t)
    BY <1>2, <1>10
  <2>2. \A i \in 1 .. n : Recent(t, n)[i] = t[Len(t) - n + i]
    BY <2>1, RecentValues
  <2> QED
    BY <2>2, <1>9, <1>10
<1>4. \A i \in 1 .. n : /\ Recent(s.apl, n)[i] = s.apl[Skipped(s) + i]
                        /\ Recent(s.hpl, n)[i] = s.hpl[Skipped(s) + i]
  BY <1>8, <1>10
<1>5. \A i \in 1 .. n : /\ Recent(s.var[l], n)[i] = s.var[l][Skipped(s) + i]
                        /\ HolidayWindow(s, n)[i] = s.holiday[Skipped(s) + i]
                        /\ Recent(s.dates, n)[i] = s.dates[Skipped(s) + i]
  BY <1>8, <1>10 DEF HolidayWindow
<1>6. DOMAIN LevelTrace(s, l) = 1 .. n
  BY DEF LevelTrace, n
<1>7. ASSUME NEW i \in 1 .. n
      PROVE  LET k == Skipped(s) + i
                 entry == LevelTrace(s, l)[i]
             IN  /\ k \in 1 .. N /\ entry.index = k
                 /\ entry.date = s.dates[k] /\ entry.apl = s.apl[k]
                 /\ entry.hpl = s.hpl[k] /\ entry.var = s.var[l][k]
                 /\ entry.holiday = s.holiday[k]
                 /\ entry.aplException = IsException(s.apl[k], s.var[l][k], s.holiday[k])
                 /\ entry.hplException = IsException(s.hpl[k], s.var[l][k], s.holiday[k])
                 /\ entry.aplReason = Reason(s.apl[k], s.var[l][k], s.holiday[k],
                                             entry.aplException)
                 /\ entry.hplReason = Reason(s.hpl[k], s.var[l][k], s.holiday[k],
                                             entry.hplException)
  <2> DEFINE k == Skipped(s) + i
             entry == LevelTrace(s, l)[i]
             a == Recent(s.apl, n)[i]
             h == Recent(s.hpl, n)[i]
             v == Recent(s.var[l], n)[i]
             o == HolidayWindow(s, n)[i]
             d == Recent(s.dates, n)[i]
  <2>1. entry = [index |-> Len(s.dates) - n + i, date |-> d, apl |-> a, hpl |-> h, var |-> v,
                 holiday |-> o, aplException |-> IsException(a, v, o),
                 hplException |-> IsException(h, v, o),
                 aplReason |-> Reason(a, v, o, IsException(a, v, o)),
                 hplReason |-> Reason(h, v, o, IsException(h, v, o))]
    BY DEF LevelTrace, n
  <2>2. k \in 1 .. N
    BY <1>1, <1>2, <1>3
  <2>3. Len(s.dates) - n + i = k
    BY DEF Skipped, n
  <2>4. /\ a = s.apl[k] /\ h = s.hpl[k] /\ v = s.var[l][k] /\ o = s.holiday[k]
        /\ d = s.dates[k]
    BY <1>4, <1>5
  <2> HIDE DEF entry, a, h, v, o, d, k
  <2>5. /\ entry.index = k /\ entry.date = d /\ entry.apl = a /\ entry.hpl = h /\ entry.var = v
        /\ entry.holiday = o
        /\ entry.aplException = IsException(a, v, o) /\ entry.hplException = IsException(h, v, o)
    BY <2>1, <2>3
  <2>6. /\ entry.aplReason = Reason(a, v, o, IsException(a, v, o))
        /\ entry.hplReason = Reason(h, v, o, IsException(h, v, o))
    BY <2>1
  <2>7. /\ entry.aplReason = Reason(s.apl[k], s.var[l][k], s.holiday[k], entry.aplException)
        /\ entry.hplReason = Reason(s.hpl[k], s.var[l][k], s.holiday[k], entry.hplException)
    BY <2>4, <2>5, <2>6
  <2> QED
    BY <2>2, <2>4, <2>5, <2>7 DEF entry, k
<1> QED
  BY <1>2, <1>3, <1>6, <1>7 DEF n, N

(* The days of the window that count as exceptions of a level.              *)
AplDays(s, l) ==
    {k \in Skipped(s) + 1 .. Len(s.dates) : IsException(s.apl[k], s.var[l][k], s.holiday[k])}
HplDays(s, l) ==
    {k \in Skipped(s) + 1 .. Len(s.dates) : IsException(s.hpl[k], s.var[l][k], s.holiday[k])}

(* A level is judged by as many exceptions as the window has.               *)
LEMMA CountsAreDays ==
    ASSUME NEW s, Aligned(s), s.dates # <<>>, NEW l \in Levels, NEW prorated
    PROVE  /\ IsFiniteSet(AplDays(s, l)) /\ IsFiniteSet(HplDays(s, l))
           /\ LevelResult(s, l, prorated).apl = Cardinality(AplDays(s, l))
           /\ LevelResult(s, l, prorated).hpl = Cardinality(HplDays(s, l))
           /\ LevelResult(s, l, prorated).passed =
                  (/\ WithinLimit(Cardinality(AplDays(s, l)), l, WindowSize(s), prorated)
                   /\ WithinLimit(Cardinality(HplDays(s, l)), l, WindowSize(s), prorated))
<1> DEFINE n == WindowSize(s)
           m == Skipped(s)
           trace == LevelTrace(s, l)
           A == {i \in DOMAIN trace : trace[i].aplException}
           H == {i \in DOMAIN trace : trace[i].hplException}
<1>1. n \in Nat /\ m \in Nat /\ Len(s.dates) = m + n /\ DOMAIN trace = 1 .. n
  BY TraceOfWindow
<1>2. /\ \A i \in 1 .. n : trace[i].aplException = IsException(s.apl[m + i], s.var[l][m + i], s.holiday[m + i])
      /\ \A i \in 1 .. n : trace[i].hplException = IsException(s.hpl[m + i], s.var[l][m + i], s.holiday[m + i])
  BY TraceOfWindow
<1> HIDE DEF n, m, trace
<1>3. AplDays(s, l) = {k \in m + 1 .. m + n : k - m \in A}
  <2>1. \A k \in m + 1 .. m + n : k - m \in 1 .. n /\ m + (k - m) = k
    BY <1>1
  <2> QED
    BY <1>1, <1>2, <2>1 DEF AplDays, m
<1>4. HplDays(s, l) = {k \in m + 1 .. m + n : k - m \in H}
  <2>1. \A k \in m + 1 .. m + n : k - m \in 1 .. n /\ m + (k - m) = k
    BY <1>1
  <2> QED
    BY <1>1, <1>2, <2>1 DEF HplDays, m
<1>5. Cardinality(AplDays(s, l)) = Cardinality(A) /\ Cardinality(HplDays(s, l)) = Cardinality(H)
  <2>1. A \in SUBSET (1 .. n) /\ H \in SUBSET (1 .. n)
    BY <1>1
  <2> HIDE DEF A, H
  <2> QED
    BY <1>1, <1>3, <1>4, <2>1, ShiftKeepsCount
<1>6. IsFiniteSet(AplDays(s, l)) /\ IsFiniteSet(HplDays(s, l))
  <2>1. IsFiniteSet(m + 1 .. m + n)
    BY <1>1, FS_Interval
  <2>2. AplDays(s, l) \in SUBSET (m + 1 .. m + n) /\ HplDays(s, l) \in SUBSET (m + 1 .. m + n)
    BY <1>3, <1>4
  <2> QED
    BY <2>1, <2>2, FS_Subset
<1>7. LevelResult(s, l, prorated) =
          [apl |-> Cardinality(A), hpl |-> Cardinality(H),
           passed |-> /\ WithinLimit(Cardinality(A), l, WindowSize(s), prorated)
                      /\ WithinLimit(Cardinality(H), l, WindowSize(s), prorated)]
  BY DEF LevelResult, trace
<1> HIDE DEF A, H
<1> QED
  BY <1>5, <1>6, <1>7

(* What a backtest says of a window.                                        *)
LEMMA BacktestOfWindow ==
    ASSUME NEW s, Aligned(s), s.dates # <<>>, NEW su
    PROVE  LET b == Backtest(s, su)
           IN  /\ \A l \in Levels :
                      /\ b.levels[l].apl = Cardinality(AplDays(s, l))
                      /\ b.levels[l].hpl = Cardinality(HplDays(s, l))
               /\ b.eligible = \A l \in Levels :
                      /\ WithinLimit(Cardinality(AplDays(s, l)), l, WindowSize(s), su.prorated)
                      /\ WithinLimit(Cardinality(HplDays(s, l)), l, WindowSize(s), su.prorated)
               /\ b.size = WindowSize(s) /\ b.first = Skipped(s) + 1
               /\ b.start = s.dates[Skipped(s) + 1] /\ b.end = s.dates[Len(s.dates)]
               /\ b.backed = (su.calendar # NoCalendar)
<1> DEFINE n == WindowSize(s)
           levels == [l \in Levels |-> LevelResult(s, l, su.prorated)]
           dates == Recent(s.dates, n)
<1>1. Backtest(s, su) = [levels |-> levels, eligible |-> \A l \in Levels : levels[l].passed,
                         size |-> n, first |-> Len(s.dates) - n + 1,
                         start |-> Head(dates), end |-> Last(dates),
                         backed |-> su.calendar # NoCalendar]
  BY DEF Backtest
<1>2. \A l \in Levels : /\ levels[l].apl = Cardinality(AplDays(s, l))
                        /\ levels[l].hpl = Cardinality(HplDays(s, l))
                        /\ levels[l].passed =
                               (/\ WithinLimit(Cardinality(AplDays(s, l)), l, WindowSize(s), su.prorated)
                                /\ WithinLimit(Cardinality(HplDays(s, l)), l, WindowSize(s), su.prorated))
  BY CountsAreDays
<1>3. Head(dates) = s.dates[Skipped(s) + 1] /\ Last(dates) = s.dates[Len(s.dates)]
  <2>1. s.dates \in Seq(1 .. LastDay) /\ Len(s.dates) \in Nat /\ Len(s.dates) # 0
    BY EmptySeq, LenProperties DEF Aligned
  <2>2. n \in 1 .. Len(s.dates)
    BY <2>1, ImaDeskAssumption DEF WindowSize, Least
  <2>3. /\ Head(dates) = s.dates[Len(s.dates) - n + 1]
        /\ Last(dates) = s.dates[Len(s.dates)]
    BY <2>1, <2>2, RecentEnds
  <2> QED
    BY <2>3 DEF Skipped
<1> DEFINE b == Backtest(s, su)
<1> HIDE DEF levels, dates, n, b
<1>4. /\ b.levels = levels /\ b.eligible = (\A l \in Levels : levels[l].passed)
      /\ b.size = n /\ b.first = Len(s.dates) - n + 1 /\ b.start = Head(dates) /\ b.end = Last(dates)
      /\ b.backed = (su.calendar # NoCalendar)
  BY <1>1 DEF b
<1>5. b.first = Skipped(s) + 1
  BY <1>4 DEF Skipped, n
<1> QED
  BY <1>2, <1>3, <1>4, <1>5 DEF n, b

-----------------------------------------------------------------------------
(* The verdict and the capital of an assessment.                            *)

(* A decision is made of a backtest and a PLA that were not refused.        *)
LEMMA DecisionIs ==
    ASSUME NEW s, NEW p, NEW su
    PROVE  LET v == Assessment(s, p, su)
               b == Backtest(s, su)
               z == AssessPla(p, su)
           IN  /\ v.status \in {"refused", "decided"}
               /\ v.status = "decided" <=>
                      ~ (\/ BacktestRefused(s, su) \/ PlaRefused(p, su)
                         \/ su.compared /\ Misaligned(z, b))
               /\ v.status = "decided" =>
                      /\ v.backtest = b /\ v.pla = z
                      /\ v.eligibility = Eligibility(b, z.zone)
<1> DEFINE b == Backtest(s, su)
           z == AssessPla(p, su)
           v == Assessment(s, p, su)
           decision == [status |-> "decided", backtest |-> b, pla |-> z,
                        eligibility |-> Eligibility(b, z.zone)]
           refused == \/ BacktestRefused(s, su) \/ PlaRefused(p, su)
                      \/ su.compared /\ Misaligned(z, b)
<1>1. v = IF refused THEN Refused ELSE decision
  BY DEF Assessment
<1>2. Refused.status = "refused"
  BY DEF Refused
<1> HIDE DEF b, z, v, refused
<1>3. CASE refused
  <2>1. v.status = "refused"
    BY <1>1, <1>2, <1>3
  <2> QED
    BY <1>3, <2>1 DEF b, z, v, refused
<1>4. CASE ~refused
  <2>1. v = decision
    BY <1>1, <1>4
  <2>2. v.status = "decided" /\ v.backtest = b /\ v.pla = z /\ v.eligibility = Eligibility(b, z.zone)
    BY <2>1
  <2> QED
    BY <1>4, <2>2 DEF b, z, v, refused
<1> QED
  BY <1>3, <1>4

(* PLA gives one of the three zones, the desk one of the two statuses.      *)
LEMMA LabelsAreKnown ==
    ASSUME NEW p, NEW su, NEW b, NEW zone
    PROVE  /\ AssessPla(p, su).zone \in Range(Zones)
           /\ Eligibility(b, zone) \in {"SA_FALLBACK", "IMA_ELIGIBLE"}
<1>1. Range(Zones) = {"GREEN", "AMBER", "RED"}
  BY DEF Range, Zones
<1>2. \A h, r : KsZone(h, r) \in {"GREEN", "AMBER", "RED"}
  BY DEF KsZone
<1>3. \A h, r : SpearmanZone(h, r) \in {"GREEN", "AMBER", "RED"}
  BY DEF SpearmanZone
<1> DEFINE h == Recent(p.hpl, PlaSize(p))
           r == Recent(p.rtpl, PlaSize(p))
           zone1 == IF su.spearman THEN WorseZone(KsZone(h, r), SpearmanZone(h, r)) ELSE KsZone(h, r)
<1>4. zone1 \in {"GREEN", "AMBER", "RED"}
  BY <1>2, <1>3 DEF WorseZone
<1>5. AssessPla(p, su).zone = zone1
  BY DEF AssessPla
<1> HIDE DEF zone1
<1> QED
  BY <1>1, <1>4, <1>5 DEF Eligibility

(* The numbers of exceptions that a backtest reports.                       *)
Counts(b) == {b.levels[l].apl : l \in Levels} \cup {b.levels[l].hpl : l \in Levels}

(* The worst count is one of the counts, or none, and no less than any.     *)
LEMMA WorstCountIsWorst ==
    ASSUME NEW b, Counts(b) \subseteq Nat
    PROVE  /\ WorstCount(b) \in {0} \cup Counts(b) /\ WorstCount(b) \in Nat
           /\ \A n \in Counts(b) : n <= WorstCount(b)
<1> DEFINE S == {0} \cup Counts(b)
           apl == [l \in Levels |-> b.levels[l].apl]
           hpl == [l \in Levels |-> b.levels[l].hpl]
<1>1. IsFiniteSet(S)
  <2>1. ASSUME NEW f PROVE IsFiniteSet({f[l] : l \in Levels})
    BY ImageIsFinite, ImaDeskAssumption
  <2>2. Counts(b) = {apl[l] : l \in Levels} \cup {hpl[l] : l \in Levels}
    BY DEF Counts
  <2> HIDE DEF apl, hpl
  <2>3. IsFiniteSet({apl[l] : l \in Levels}) /\ IsFiniteSet({hpl[l] : l \in Levels})
    BY <2>1
  <2>4. IsFiniteSet(Counts(b))
    BY <2>2, <2>3, FS_Union
  <2> QED
    BY <2>4, FS_Union, FS_Singleton
<1>2. S \in SUBSET Int /\ S \in SUBSET Nat /\ S # {}
  OBVIOUS
<1>4. WorstCount(b) = Max(S)
  <2>1. {0} \cup {b.levels[l].apl : l \in Levels} \cup {b.levels[l].hpl : l \in Levels} = S
    BY DEF Counts
  <2> QED
    BY <2>1 DEF WorstCount
<1>5. Counts(b) \in SUBSET S
  OBVIOUS
<1>6. S = {0} \cup Counts(b)
  OBVIOUS
<1> HIDE DEF S
<1>3. Max(S) \in S /\ \A y \in S : Max(S) >= y
  <2>1. \E x \in S : \A y \in S : y <= x
    BY <1>1, <1>2, FiniteMaximum
  <2>2. \E x \in S : \A y \in S : x >= y
    BY <2>1, <1>2
  <2> QED
    BY <2>2 DEF Max
<1>7. \A y \in S : y <= WorstCount(b)
  BY <1>2, <1>3, <1>4
<1> QED
  BY <1>2, <1>3, <1>4, <1>5, <1>6, <1>7

(* The multiplier of a count below the red zone.                            *)
LEMMA MultiplierRises ==
    ASSUME NEW m \in 0 .. RedZone, NEW n \in 0 .. RedZone, m <= n
    PROVE  /\ SupervisoryMultiplier(m) \in Nat /\ SupervisoryMultiplier(n) \in Nat
           /\ SupervisoryMultiplier(m) <= SupervisoryMultiplier(n)
  BY CapitalAssumption

(* Capital is an amount, and more exceptions do not make it less.           *)
LEMMA CapitalRises ==
    ASSUME NEW m \in Nat, NEW n \in Nat, m <= n, n < RedZone, NEW zone
    PROVE  /\ ModelsBasedCapital(m, zone) \in Nat /\ ModelsBasedCapital(n, zone) \in Nat
           /\ ModelsBasedCapital(m, zone) <= ModelsBasedCapital(n, zone)
<1> DEFINE a == SupervisoryMultiplier(m)
           c == SupervisoryMultiplier(n)
           x == Charges.imccAvg
           floor == 100 * (Charges.imcc + Charges.ses)
           rest == 100 * Charges.sesAvg
<1>1. a \in Nat /\ c \in Nat /\ a <= c
  BY CapitalAssumption, MultiplierRises
<1>2. x \in Nat /\ floor \in Nat /\ rest \in Nat
  BY CapitalAssumption
<1>3. PlaAddon(zone) \in Nat
  BY CapitalAssumption DEF PlaAddon, Greatest
<1>4. /\ ModelsBasedCapital(m, zone) = Greatest(floor, a * x + rest) + PlaAddon(zone)
      /\ ModelsBasedCapital(n, zone) = Greatest(floor, c * x + rest) + PlaAddon(zone)
  BY DEF ModelsBasedCapital
<1> HIDE DEF a, c, x, floor, rest
<1>5. a * x \in Nat /\ c * x \in Nat /\ a * x <= c * x
  BY <1>1, <1>2
<1> DEFINE u == a * x
           w == c * x
<1>6. u \in Nat /\ w \in Nat /\ u <= w
  BY <1>5
<1> HIDE DEF u, w
<1> QED
  BY <1>2, <1>3, <1>4, <1>6 DEF Greatest, u, w

-----------------------------------------------------------------------------
(* The inductive invariant.                                                 *)

(* A series without its last day.                                           *)
Shortened(s) ==
    [apl |-> Front(s.apl), hpl |-> Front(s.hpl), holiday |-> Front(s.holiday),
     dates |-> Front(s.dates), var |-> [l \in Levels |-> Front(s.var[l])]]

(* The verdict has the backtest of s, and s has grown to the series since.  *)
JudgedBy(s) ==
    /\ Aligned(s) /\ s.dates # <<>>
    /\ verdict.backtest = Backtest(s, setup)
    /\ \/ s = series
       \/ phase = "observed" /\ \E row \in Rows : series = Appended(s, today, row)

(* The series is aligned and of the past; while capital has not been        *)
(* assembled, the verdict is the one of the series; and at any time it      *)
(* comes from the series or, when a day has been reported since, from the   *)
(* series without that day.                                                 *)
IInv ==
    /\ today \in 0 .. LastDay /\ setup \in Setups /\ feed \in PlaFeeds
    /\ phase \in {"observed", "assessed", "assembled"}
    /\ Aligned(series)
    /\ \A i \in 1 .. Len(series.dates) : series.dates[i] <= today
    /\ verdict.status \in {"refused", "decided"}
    /\ phase = "observed" => today > 0
    /\ phase = "assessed" => verdict = Assessment(series, PlaSeries(feed, today), setup)
    /\ verdict.status = "decided" =>
           /\ verdict.eligibility \in {"SA_FALLBACK", "IMA_ELIGIBLE"}
           /\ verdict.pla.zone \in Range(Zones)
           /\ \E s \in {series, Shortened(series)} : JudgedBy(s)
    /\ capital.status \in {"refused", "assembled"} /\ capital.amount \in Nat

(* The last value off again.                                                *)
LEMMA FrontOfAppend ==
    ASSUME NEW S, NEW s \in Seq(S), NEW e \in S
    PROVE  Front(Append(s, e)) = s
<1> DEFINE t == Append(s, e)
<1>1. /\ t \in Seq(S) /\ Len(t) = Len(s) + 1 /\ Len(s) \in Nat
      /\ \A i \in 1 .. Len(s) : t[i] = s[i]
  BY AppendProperties
<1> HIDE DEF t
<1> DEFINE n == Len(s)
<1>2. Len(t) - 1 = n /\ n \in Nat
  BY <1>1
<1>3. Front(t) = SubSeq(t, 1, n)
  BY <1>2 DEF Front
<1>4. \A i \in 1 .. n : t[i] \in S
  BY <1>1
<1> HIDE DEF n
<1>5. /\ SubSeq(t, 1, n) \in Seq(S) /\ Len(SubSeq(t, 1, n)) = n
      /\ \A i \in 1 .. n : SubSeq(t, 1, n)[i] = t[i]
  <2>1. /\ SubSeq(t, 1, n) \in Seq(S)
        /\ Len(SubSeq(t, 1, n)) = IF 1 <= n THEN n - 1 + 1 ELSE 0
        /\ \A i \in 1 .. n - 1 + 1 : SubSeq(t, 1, n)[i] = t[1 + i - 1]
    BY <1>2, <1>4, SubSeqProperties
  <2> QED
    BY <1>2, <2>1
<1>6. SubSeq(t, 1, n) = s
  BY <1>1, <1>5, SeqEqual DEF n
<1> QED
  BY <1>3, <1>6 DEF t

(* A day after the others keeps the series aligned, and comes off again.    *)
LEMMA AppendedIsAligned ==
    ASSUME NEW s, Aligned(s), NEW day \in 1 .. LastDay, NEW row \in Rows
    PROVE  LET t == Appended(s, day, row)
               n == Len(s.dates)
           IN  /\ (\A i \in 1 .. n : s.dates[i] <= day) => Aligned(t)
               /\ Shortened(t) = s /\ n \in Nat
               /\ Len(t.dates) = n + 1 /\ t.dates # <<>> /\ t.dates[n + 1] = day
               /\ \A i \in 1 .. n :
                      /\ t.dates[i] = s.dates[i] /\ t.apl[i] = s.apl[i]
                      /\ t.hpl[i] = s.hpl[i] /\ t.holiday[i] = s.holiday[i]
                      /\ \A l \in Levels : t.var[l][i] = s.var[l][i]
<1> DEFINE t == Appended(s, day, row)
           n == Len(s.dates)
<1>1. /\ s.apl \in Seq(Pnls) /\ s.hpl \in Seq(Pnls) /\ s.holiday \in Seq(BOOLEAN)
      /\ s.dates \in Seq(1 .. LastDay) /\ \A l \in Levels : s.var[l] \in Seq(Vars)
      /\ Len(s.apl) = n /\ Len(s.hpl) = n /\ Len(s.holiday) = n /\ Len(s.dates) = n
      /\ \A l \in Levels : Len(s.var[l]) = n
      /\ s = [apl |-> s.apl, hpl |-> s.hpl, holiday |-> s.holiday, dates |-> s.dates,
              var |-> s.var]
      /\ s.var = [l \in Levels |-> s.var[l]]
      /\ \A i, j \in 1 .. n : i < j => s.dates[i] <= s.dates[j]
  BY DEF Aligned
<1>2. n \in Nat
  BY <1>1, LenProperties
<1>3. /\ row.apl \in Pnls /\ row.hpl \in Pnls /\ row.holiday \in BOOLEAN
      /\ \A l \in Levels : row.var[l] \in Vars
  BY ImaDeskAssumption DEF Pnls, Vars
<1>4. /\ t.apl = Append(s.apl, row.apl) /\ t.hpl = Append(s.hpl, row.hpl)
      /\ t.holiday = Append(s.holiday, row.holiday) /\ t.dates = Append(s.dates, day)
      /\ t.var = [l \in Levels |-> Append(s.var[l], row.var[l])]
      /\ t = [apl |-> t.apl, hpl |-> t.hpl, holiday |-> t.holiday, dates |-> t.dates,
              var |-> t.var]
  BY DEF Appended
<1>5. ASSUME NEW S, NEW q \in Seq(S), NEW e \in S, Len(q) = n
      PROVE  /\ Append(q, e) \in Seq(S) /\ Len(Append(q, e)) = n + 1
             /\ Append(q, e) # <<>> /\ Append(q, e)[n + 1] = e
             /\ \A i \in 1 .. n : Append(q, e)[i] = q[i]
             /\ Front(Append(q, e)) = q
  BY <1>5, AppendProperties, FrontOfAppend
<1> HIDE DEF n, t
<1>6. /\ t.apl \in Seq(Pnls) /\ Len(t.apl) = n + 1 /\ Front(t.apl) = s.apl
      /\ \A i \in 1 .. n : t.apl[i] = s.apl[i]
  BY <1>1, <1>3, <1>4, <1>5
<1>7. /\ t.hpl \in Seq(Pnls) /\ Len(t.hpl) = n + 1 /\ Front(t.hpl) = s.hpl
      /\ \A i \in 1 .. n : t.hpl[i] = s.hpl[i]
  BY <1>1, <1>3, <1>4, <1>5
<1>8. /\ t.holiday \in Seq(BOOLEAN) /\ Len(t.holiday) = n + 1 /\ Front(t.holiday) = s.holiday
      /\ \A i \in 1 .. n : t.holiday[i] = s.holiday[i]
  BY <1>1, <1>3, <1>4, <1>5
<1>9. /\ t.dates \in Seq(1 .. LastDay) /\ Len(t.dates) = n + 1 /\ Front(t.dates) = s.dates
      /\ t.dates # <<>> /\ t.dates[n + 1] = day
      /\ \A i \in 1 .. n : t.dates[i] = s.dates[i]
  <2> DEFINE D == 1 .. LastDay
             q == s.dates
  <2>1. q \in Seq(D) /\ Len(q) = n /\ day \in D
    BY <1>1
  <2>2. t.dates = Append(q, day)
    BY <1>4
  <2> HIDE DEF D, q
  <2>3. /\ Append(q, day) \in Seq(D) /\ Len(Append(q, day)) = n + 1
        /\ Append(q, day) # <<>> /\ Append(q, day)[n + 1] = day
        /\ \A i \in 1 .. n : Append(q, day)[i] = q[i]
        /\ Front(Append(q, day)) = q
    BY <1>5, <2>1
  <2> QED
    BY <2>2, <2>3 DEF D, q
<1>10. \A l \in Levels :
           /\ t.var[l] \in Seq(Vars) /\ Len(t.var[l]) = n + 1 /\ Front(t.var[l]) = s.var[l]
           /\ \A i \in 1 .. n : t.var[l][i] = s.var[l][i]
  <2> TAKE l \in Levels
  <2>1. t.var[l] = Append(s.var[l], row.var[l])
    BY <1>4
  <2> QED
    BY <1>1, <1>3, <1>5, <2>1
<1>11. Shortened(t) = s
  <2>1. [l \in Levels |-> Front(t.var[l])] = [l \in Levels |-> s.var[l]]
    BY <1>10
  <2>2. [l \in Levels |-> Front(t.var[l])] = s.var
    BY <2>1, <1>1
  <2> QED
    BY <1>1, <1>6, <1>7, <1>8, <1>9, <2>2 DEF Shortened
<1>12. ASSUME \A i \in 1 .. n : s.dates[i] <= day
       PROVE  \A i, j \in 1 .. n + 1 : i < j => t.dates[i] <= t.dates[j]
  <2> TAKE i, j \in 1 .. n + 1
  <2>1. CASE j = n + 1
    <3>1. i < n + 1 => i \in 1 .. n
      BY <1>2
    <3>2. i \in 1 .. n => s.dates[i] <= day
      BY <1>12
    <3> QED
      BY <1>9, <2>1, <3>1, <3>2
  <2>2. CASE j \in 1 .. n
    <3>1. i < j => i \in 1 .. n
      BY <1>2, <2>2
    <3> QED
      BY <1>1, <1>9, <2>2, <3>1
  <2> QED
    BY <1>2, <2>1, <2>2
<1>13. ASSUME \A i \in 1 .. n : s.dates[i] <= day PROVE Aligned(t)
  <2>1. t.var \in [Levels -> Seq(Vars)]
    BY <1>4, <1>10
  <2>2. t \in [apl : Seq(Pnls), hpl : Seq(Pnls), holiday : Seq(BOOLEAN),
               dates : Seq(1 .. LastDay), var : [Levels -> Seq(Vars)]]
    BY <1>4, <1>6, <1>7, <1>8, <1>9, <2>1
  <2>3. /\ Len(t.apl) = Len(t.dates) /\ Len(t.hpl) = Len(t.dates) /\ Len(t.holiday) = Len(t.dates)
        /\ \A l \in Levels : Len(t.var[l]) = Len(t.dates)
    BY <1>6, <1>7, <1>8, <1>9, <1>10
  <2>4. \A i, j \in 1 .. Len(t.dates) : i < j => t.dates[i] <= t.dates[j]
    BY <1>9, <1>12, <1>13
  <2> QED
    BY <2>2, <2>3, <2>4 DEF Aligned
<1> QED
  BY <1>2, <1>6, <1>7, <1>8, <1>9, <1>10, <1>11, <1>13 DEF t, n

(* Exceptions are counted.                                                  *)
LEMMA CountsAreNumbers ==
    ASSUME NEW s, Aligned(s), s.dates # <<>>, NEW su
    PROVE  Counts(Backtest(s, su)) \subseteq Nat
<1> DEFINE b == Backtest(s, su)
<1>1. \A l \in Levels : /\ b.levels[l].apl = Cardinality(AplDays(s, l))
                        /\ b.levels[l].hpl = Cardinality(HplDays(s, l))
  BY BacktestOfWindow
<1>2. \A l \in Levels : /\ Cardinality(AplDays(s, l)) \in Nat
                        /\ Cardinality(HplDays(s, l)) \in Nat
  <2> TAKE l \in Levels
  <2>1. IsFiniteSet(AplDays(s, l)) /\ IsFiniteSet(HplDays(s, l))
    BY CountsAreDays
  <2> QED
    BY <2>1, FS_CardinalityType
<1> HIDE DEF b
<1>3. Counts(b) \subseteq Nat
  BY <1>1, <1>2 DEF Counts
<1> QED
  BY <1>3 DEF b

(* What is assembled is an amount.                                          *)
LEMMA CapitalIsAmount ==
    ASSUME NEW v, v.status \in {"refused", "decided"},
           v.status = "decided" => Counts(v.backtest) \subseteq Nat
    PROVE  /\ CapitalOf(v).status \in {"refused", "assembled"} /\ CapitalOf(v).amount \in Nat
           /\ CapitalOf(v).status = "assembled" <=>
                  ~ (v.status = "refused" \/ v.eligibility = "SA_FALLBACK"
                     \/ WorstCount(v.backtest) >= RedZone)
           /\ CapitalOf(v).status = "assembled" =>
                  CapitalOf(v).amount = ModelsBasedCapital(WorstCount(v.backtest), v.pla.zone)
<1> DEFINE n == WorstCount(v.backtest)
           m == ModelsBasedCapital(n, v.pla.zone)
           c == CapitalOf(v)
           refused == v.status = "refused" \/ v.eligibility = "SA_FALLBACK" \/ n >= RedZone
<1>1. c = IF refused THEN [status |-> "refused", amount |-> 0]
          ELSE [status |-> "assembled", amount |-> m]
  BY DEF CapitalOf
<1> HIDE DEF c, m
<1>2. CASE refused
  BY <1>1, <1>2 DEF c
<1>3. CASE ~refused
  <2>1. c = [status |-> "assembled", amount |-> m]
    BY <1>1, <1>3
  <2>2. c.status = "assembled" /\ c.amount = m
    BY <2>1
  <2>3. ASSUME v.status = "decided" PROVE m \in Nat
    <3>1. n \in Nat
      BY <2>3, WorstCountIsWorst
    <3>2. n < RedZone /\ n <= n
      BY <1>3, <3>1, CapitalAssumption
    <3> HIDE DEF n
    <3> QED
      BY <3>1, <3>2, CapitalRises DEF m
  <2> QED
    BY <1>3, <2>2, <2>3 DEF c, m
<1> QED
  BY <1>2, <1>3

(* The invariant of every state.                                            *)
LEMMA InitIInv == Init => IInv
<1> SUFFICES ASSUME Init PROVE IInv
  OBVIOUS
<1>1. \A S : <<>> \in Seq(S) /\ Len(<<>>) = 0
  BY EmptySeq
<1>2. /\ series.apl = <<>> /\ series.hpl = <<>> /\ series.holiday = <<>>
      /\ series.dates = <<>> /\ series.var = [l \in Levels |-> <<>>]
      /\ series \in [apl : Seq(Pnls), hpl : Seq(Pnls), holiday : Seq(BOOLEAN),
                     dates : Seq(1 .. LastDay), var : [Levels -> Seq(Vars)]]
  BY <1>1 DEF Init
<1>3. Aligned(series) /\ \A i \in 1 .. Len(series.dates) : series.dates[i] <= today
  BY <1>1, <1>2 DEF Aligned
<1>4. verdict.status = "refused" /\ capital.status = "refused" /\ capital.amount = 0
  BY DEF Init, Refused, NoCapital
<1>5. /\ today \in 0 .. LastDay /\ setup \in Setups /\ feed \in PlaFeeds
      /\ phase = "assembled"
  BY ImaDeskAssumption DEF Init
<1> QED
  BY <1>3, <1>4, <1>5 DEF IInv

(* A day more is a row more of the series, or none; the verdict stays that *)
(* of the series without it.                                               *)
LEMMA NewDayIInv == IInv /\ NewDay => IInv'
<1> SUFFICES ASSUME IInv, NewDay PROVE IInv'
  OBVIOUS
<1>1. /\ today \in 0 .. LastDay /\ today < LastDay /\ today' = today + 1
      /\ phase = "assembled" /\ phase' = "observed"
      /\ setup' = setup /\ feed' = feed /\ verdict' = verdict /\ capital' = capital
      /\ Aligned(series) /\ \A i \in 1 .. Len(series.dates) : series.dates[i] <= today
  BY DEF IInv, NewDay
<1>2. today' \in 1 .. LastDay /\ \A i \in 1 .. Len(series.dates) : series.dates[i] <= today'
  <2>1. \A i \in 1 .. Len(series.dates) : series.dates[i] \in Int
    BY <1>1, DatesAreDays
  <2> QED
    BY <1>1, <2>1, ImaDeskAssumption
<1>3. ASSUME verdict.status = "decided" PROVE JudgedBy(series)
  BY <1>1, <1>3 DEF IInv, JudgedBy
<1>4. PICK row \in Rows \cup {NoRow} :
          series' = IF row = NoRow THEN series ELSE Appended(series, today', row)
  BY DEF NewDay
<1>5. ASSUME Aligned(series'), \A i \in 1 .. Len(series'.dates) : series'.dates[i] <= today',
             verdict.status = "decided" => \E s \in {series', Shortened(series')} : JudgedBy(s)'
      PROVE  IInv'
  <2>1. /\ verdict'.status \in {"refused", "decided"} /\ setup' \in Setups /\ feed' \in PlaFeeds
        /\ verdict'.status = "decided" => /\ verdict'.eligibility \in {"SA_FALLBACK", "IMA_ELIGIBLE"}
                                          /\ verdict'.pla.zone \in Range(Zones)
        /\ capital'.status \in {"refused", "assembled"} /\ capital'.amount \in Nat
    BY <1>1 DEF IInv
  <2> QED
    BY <1>1, <1>2, <1>5, <2>1 DEF IInv
<1>6. CASE series' = series
  <2>1. ASSUME NEW s, s = series, verdict.status = "decided" PROVE JudgedBy(s)'
    BY <1>1, <1>3, <1>6, <2>1 DEF JudgedBy
  <2>2. \A i \in 1 .. Len(series'.dates) : series'.dates[i] <= today'
    BY <1>1, <1>2, <1>6, DatesAreDays
  <2>3. Aligned(series')
    BY <1>1, <1>6
  <2> QED
    BY <1>5, <1>6, <2>1, <2>2, <2>3
<1>7. CASE row \in Rows /\ series' = Appended(series, today', row)
  <2> DEFINE n == Len(series.dates)
  <2>1. /\ Aligned(series') /\ Shortened(series') = series /\ n \in Nat
        /\ Len(series'.dates) = n + 1 /\ series'.dates[n + 1] = today'
        /\ \A i \in 1 .. n : series'.dates[i] = series.dates[i]
    BY <1>1, <1>2, <1>7, AppendedIsAligned
  <2>2. \A i \in 1 .. n : series.dates[i] \in Int /\ series.dates[i] <= today'
    BY <1>1, <1>2, DatesAreDays
  <2> HIDE DEF n
  <2>3. \A i \in 1 .. n + 1 : series'.dates[i] <= today'
    BY <1>2, <2>1, <2>2
  <2>4. ASSUME NEW s, s = series, verdict.status = "decided" PROVE JudgedBy(s)'
    <3>1. Aligned(s) /\ s.dates # <<>> /\ verdict.backtest = Backtest(s, setup)
      BY <1>3, <2>4 DEF JudgedBy
    <3>2. phase' = "observed" /\ series' = Appended(s, today', row)
      BY <1>1, <1>7, <2>4
    <3> QED
      BY <1>1, <1>7, <3>1, <3>2 DEF JudgedBy
  <2> QED
    BY <1>5, <2>1, <2>3, <2>4
<1> QED
  BY <1>4, <1>6, <1>7

(* Nor does a row change that reports the last day again.                  *)
LEMMA RepeatDayIInv == IInv /\ RepeatDay => IInv'
<1> SUFFICES ASSUME IInv, RepeatDay PROVE IInv'
  OBVIOUS
<1> DEFINE n == Len(series.dates)
<1>1. /\ phase = "assembled" /\ phase' = "observed" /\ today' = today
      /\ setup' = setup /\ feed' = feed /\ verdict' = verdict /\ capital' = capital
      /\ series.dates # <<>> /\ Last(series.dates) = today
      /\ Aligned(series) /\ \A i \in 1 .. n : series.dates[i] <= today
  BY DEF IInv, RepeatDay
<1>2. today \in 1 .. LastDay
  <2>1. n \in Nat /\ n # 0 /\ \A i \in 1 .. n : series.dates[i] \in 1 .. LastDay
    BY <1>1, DatesAreDays, EmptySeq DEF Aligned
  <2>2. today = series.dates[n]
    BY <1>1 DEF Last
  <2> HIDE DEF n
  <2>3. n \in 1 .. n
    BY <2>1
  <2> QED
    BY <2>1, <2>2, <2>3
<1>3. PICK row \in Rows : series' = Appended(series, today, row)
  BY DEF RepeatDay
<1>4. /\ Aligned(series') /\ Shortened(series') = series /\ n \in Nat
      /\ Len(series'.dates) = n + 1 /\ series'.dates[n + 1] = today
      /\ \A i \in 1 .. n : series'.dates[i] = series.dates[i]
  BY <1>1, <1>2, <1>3, AppendedIsAligned
<1> HIDE DEF n
<1>5. \A i \in 1 .. n + 1 : series'.dates[i] <= today'
  <2> TAKE i \in 1 .. n + 1
  <2>1. CASE i = n + 1
    BY <1>1, <1>2, <1>4, <2>1
  <2>2. CASE i \in 1 .. n
    BY <1>1, <1>4, <2>2
  <2> QED
    BY <1>4, <2>1, <2>2
<1>6. ASSUME NEW s, s = series, verdict.status = "decided" PROVE JudgedBy(s)'
  <2>1. JudgedBy(series)
    BY <1>1, <1>6 DEF IInv, JudgedBy
  <2>2. Aligned(s) /\ s.dates # <<>> /\ verdict.backtest = Backtest(s, setup)
    BY <1>6, <2>1 DEF JudgedBy
  <2>3. phase' = "observed" /\ series' = Appended(s, today', row)
    BY <1>1, <1>3, <1>6
  <2> QED
    BY <1>1, <2>2, <2>3 DEF JudgedBy
<1>7. /\ verdict'.status \in {"refused", "decided"} /\ setup' \in Setups /\ feed' \in PlaFeeds
      /\ verdict'.status = "decided" => /\ verdict'.eligibility \in {"SA_FALLBACK", "IMA_ELIGIBLE"}
                                        /\ verdict'.pla.zone \in Range(Zones)
      /\ capital'.status \in {"refused", "assembled"} /\ capital'.amount \in Nat
  BY <1>1 DEF IInv
<1> QED
  BY <1>1, <1>2, <1>4, <1>5, <1>6, <1>7 DEF IInv

(* An assessment judges the series there is, or refuses to.                *)
LEMMA AssessDeskIInv == IInv /\ AssessDesk => IInv'
<1> SUFFICES ASSUME IInv, AssessDesk PROVE IInv'
  OBVIOUS
<1> DEFINE p == PlaSeries(feed, today)
<1>1. /\ verdict' = Assessment(series, p, setup) /\ phase' = "assessed"
      /\ today' = today /\ setup' = setup /\ feed' = feed /\ series' = series
      /\ capital' = capital
  BY DEF AssessDesk
<1>2. verdict' = Assessment(series', PlaSeries(feed', today'), setup')
  BY <1>1
<1> HIDE DEF p
<1>3. /\ verdict'.status \in {"refused", "decided"}
      /\ verdict'.status = "decided" =>
             /\ ~BacktestRefused(series, setup)
             /\ verdict'.backtest = Backtest(series, setup)
             /\ verdict'.pla = AssessPla(p, setup)
             /\ verdict'.eligibility = Eligibility(Backtest(series, setup), verdict'.pla.zone)
  BY <1>1, DecisionIs
<1>4. ASSUME verdict'.status = "decided"
      PROVE  /\ verdict'.eligibility \in {"SA_FALLBACK", "IMA_ELIGIBLE"}
             /\ verdict'.pla.zone \in Range(Zones)
             /\ JudgedBy(series)'
  <2>1. series.dates # <<>>
    BY <1>3, <1>4 DEF BacktestRefused
  <2>2. Aligned(series)
    BY DEF IInv
  <2>3. JudgedBy(series)'
    BY <1>1, <1>3, <1>4, <2>1, <2>2 DEF JudgedBy
  <2> QED
    BY <1>3, <1>4, <2>3, LabelsAreKnown
<1> QED
  BY <1>1, <1>2, <1>3, <1>4 DEF IInv

(* Capital is assembled from the verdict of the desk, which does not       *)
(* change.                                                                 *)
LEMMA AssembleCapitalIInv == IInv /\ AssembleCapital => IInv'
<1> SUFFICES ASSUME IInv, AssembleCapital PROVE IInv'
  OBVIOUS
<1>1. /\ capital' = CapitalOf(verdict) /\ phase = "assessed" /\ phase' = "assembled"
      /\ today' = today /\ setup' = setup /\ feed' = feed /\ series' = series
      /\ verdict' = verdict
  BY DEF AssembleCapital
<1>2. ASSUME verdict.status = "decided" PROVE JudgedBy(series)
  BY <1>1, <1>2 DEF IInv, JudgedBy
<1>3. verdict.status = "decided" => Counts(verdict.backtest) \subseteq Nat
  BY <1>2, CountsAreNumbers DEF JudgedBy
<1>4. capital'.status \in {"refused", "assembled"} /\ capital'.amount \in Nat
  BY <1>1, <1>3, CapitalIsAmount DEF IInv
<1>5. verdict'.status = "decided" => JudgedBy(series)'
  BY <1>1, <1>2 DEF JudgedBy
<1> QED
  BY <1>1, <1>4, <1>5 DEF IInv

(* The inductive invariant of the desk, for any rows, setups and limits:   *)
(* the series is aligned and of the past, capital is an amount, and a      *)
(* verdict that was decided is the one of the series, or of the series     *)
(* before a day was reported.                                              *)
THEOREM Invariance == Spec => []IInv
<1>1. ASSUME IInv, UNCHANGED vars PROVE IInv'
  BY <1>1 DEF IInv, vars, JudgedBy, PlaSeries
<1>2. IInv /\ [Next]_vars => IInv'
  BY <1>1, NewDayIInv, RepeatDayIInv, AssessDeskIInv, AssembleCapitalIInv DEF Next
<1> QED
  BY <1>2, InitIInv, PTL DEF Spec

-----------------------------------------------------------------------------
(* The properties.                                                          *)

(* The verdict of a state that has not gone on since is about its series.   *)
LEMMA VerdictIsOfSeries ==
    ASSUME IInv, verdict.status = "decided", phase = "assessed"
    PROVE  /\ Aligned(series) /\ series.dates # <<>>
           /\ verdict = Assessment(series, PlaSeries(feed, today), setup)
           /\ verdict.backtest = Backtest(series, setup)
  BY DEF IInv, JudgedBy

(* The types of the state, in every reachable state of any desk: the series *)
(* keep one length and dates in order, statuses and zones are the known ones, *)
(* the window is not empty and capital is an amount.                        *)
THEOREM TypeCorrectness == Spec => []TypeOK
<1>1. IInv => TypeOK
  <2> SUFFICES ASSUME IInv PROVE TypeOK
    OBVIOUS
  <2>1. Aligned(series)
    BY DEF IInv
  <2>2. DOMAIN series.dates = 1 .. Len(series.dates)
    BY <2>1, LenProperties DEF Aligned
  <2>3. \A i, j \in DOMAIN series.dates : i < j => series.dates[i] <= series.dates[j]
    BY <2>1, <2>2 DEF Aligned
  <2>4. \A f \in {"apl", "hpl", "holiday"} : Len(series[f]) = Len(series.dates)
    BY <2>1 DEF Aligned
  <2>5. \A l \in Levels : Len(series.var[l]) = Len(series.dates)
    BY <2>1 DEF Aligned
  <2>6. ASSUME verdict.status = "decided" PROVE verdict.backtest.size \in 1 .. Window
    <3>1. PICK s : JudgedBy(s)
      BY <2>6 DEF IInv
    <3>2. verdict.backtest.size = WindowSize(s) /\ Aligned(s) /\ s.dates # <<>>
      BY <3>1, BacktestOfWindow DEF JudgedBy
    <3>3. Len(s.dates) \in Nat /\ Len(s.dates) # 0
      BY <3>2, DatesAreDays, EmptySeq DEF Aligned
    <3>4. WindowSize(s) \in 1 .. Window
      BY <3>3, ImaDeskAssumption DEF WindowSize, Least
    <3> QED
      BY <3>2, <3>4
  <2> QED
    BY <2>3, <2>4, <2>5, <2>6 DEF IInv, TypeOK
<1> QED
  BY <1>1, Invariance, PTL

(* The reason of a day names an exception exactly if it is one.            *)
LEMMA ReasonTells ==
    ASSUME NEW pnl, NEW var, NEW holiday \in BOOLEAN
    PROVE  Reason(pnl, var, holiday, IsException(pnl, var, holiday))
               \notin {"none", "official_holiday"} <=> IsException(pnl, var, holiday)
<1>1. CASE holiday
  BY <1>1 DEF Reason, IsException
<1>2. CASE ~holiday /\ pnl = Missing /\ var = Missing
  BY <1>2 DEF Reason, IsException
<1>3. CASE ~holiday /\ pnl = Missing /\ var # Missing
  BY <1>3 DEF Reason, IsException
<1>4. CASE ~holiday /\ pnl # Missing /\ var = Missing
  BY <1>4 DEF Reason, IsException
<1>5. CASE ~holiday /\ pnl # Missing /\ var # Missing
  BY <1>5 DEF Reason, IsException
<1> QED
  BY <1>1, <1>2, <1>3, <1>4, <1>5

(* The audit trace of a decision is about the days of the history that it   *)
(* names, although each series is cut out on its own, and gives as many     *)
(* reasons for exceptions as the level was judged by.                       *)
THEOREM TraceIsTrue == Spec => []TraceMatchesHistory
<1>1. IInv => TraceMatchesHistory
  <2> SUFFICES ASSUME IInv, verdict.status = "decided", phase = "assessed", NEW l \in Levels
               PROVE  LET trace == LevelTrace(series, l)
                          innocent == {"none", "official_holiday"}
                      IN  /\ \A i \in DOMAIN trace :
                                 LET day == trace[i].index
                                 IN  /\ trace[i].date = series.dates[day]
                                     /\ trace[i].apl = series.apl[day]
                                     /\ trace[i].hpl = series.hpl[day]
                                     /\ trace[i].var = series.var[l][day]
                                     /\ trace[i].holiday = series.holiday[day]
                          /\ Cardinality({i \in DOMAIN trace : trace[i].aplReason \notin innocent})
                                 = verdict.backtest.levels[l].apl
                          /\ Cardinality({i \in DOMAIN trace : trace[i].hplReason \notin innocent})
                                 = verdict.backtest.levels[l].hpl
    BY DEF TraceMatchesHistory
  <2> DEFINE trace == LevelTrace(series, l)
             n == WindowSize(series)
             m == Skipped(series)
             innocent == {"none", "official_holiday"}
  <2>1. Aligned(series) /\ series.dates # <<>> /\ verdict.backtest = Backtest(series, setup)
    BY VerdictIsOfSeries
  <2>2. /\ DOMAIN trace = 1 .. n
        /\ \A i \in 1 .. n :
               LET k == m + i
                   entry == trace[i]
               IN  /\ k \in 1 .. Len(series.dates) /\ entry.index = k
                   /\ entry.date = series.dates[k] /\ entry.apl = series.apl[k]
                   /\ entry.hpl = series.hpl[k] /\ entry.var = series.var[l][k]
                   /\ entry.holiday = series.holiday[k]
                   /\ entry.aplException = IsException(series.apl[k], series.var[l][k], series.holiday[k])
                   /\ entry.hplException = IsException(series.hpl[k], series.var[l][k], series.holiday[k])
                   /\ entry.aplReason = Reason(series.apl[k], series.var[l][k], series.holiday[k],
                                               entry.aplException)
                   /\ entry.hplReason = Reason(series.hpl[k], series.var[l][k], series.holiday[k],
                                               entry.hplException)
    BY <2>1, TraceOfWindow
  <2>3. \A k \in 1 .. Len(series.dates) : series.holiday[k] \in BOOLEAN
    BY <2>1, ElementOfSeq DEF Aligned
  <2>4. verdict.backtest.levels[l] = LevelResult(series, l, setup.prorated)
    <3> DEFINE levels == [k \in Levels |-> LevelResult(series, k, setup.prorated)]
    <3>1. verdict.backtest.levels = levels
      BY <2>1 DEF Backtest
    <3> QED
      BY <3>1
  <2>5. /\ LevelResult(series, l, setup.prorated).apl
               = Cardinality({i \in DOMAIN trace : trace[i].aplException})
        /\ LevelResult(series, l, setup.prorated).hpl
               = Cardinality({i \in DOMAIN trace : trace[i].hplException})
    BY DEF LevelResult
  <2> HIDE DEF trace, n, m, innocent
  <2>6. \A i \in DOMAIN trace : /\ trace[i].aplReason \notin innocent <=> trace[i].aplException
                                /\ trace[i].hplReason \notin innocent <=> trace[i].hplException
    BY <2>2, <2>3, ReasonTells DEF innocent
  <2>7. /\ {i \in DOMAIN trace : trace[i].aplReason \notin innocent}
               = {i \in DOMAIN trace : trace[i].aplException}
        /\ {i \in DOMAIN trace : trace[i].hplReason \notin innocent}
               = {i \in DOMAIN trace : trace[i].hplException}
    BY <2>6
  <2>8. \A i \in DOMAIN trace :
            LET day == trace[i].index
            IN  /\ trace[i].date = series.dates[day]
                /\ trace[i].apl = series.apl[day]
                /\ trace[i].hpl = series.hpl[day]
                /\ trace[i].var = series.var[l][day]
                /\ trace[i].holiday = series.holiday[day]
    BY <2>2
  <2> QED
    BY <2>4, <2>5, <2>7, <2>8 DEF trace, innocent
<1> QED
  BY <1>1, Invariance, PTL

(* Fewer exceptions are within any limit that more are within.              *)
LEMMA LimitIsMonotone ==
    ASSUME NEW m \in Nat, NEW n \in Nat, m <= n, NEW l \in Levels, NEW size \in Nat,
           NEW prorated, WithinLimit(n, l, size, prorated)
    PROVE  WithinLimit(m, l, size, prorated)
<1> DEFINE limit == Limits[l]
<1>1. limit \in Nat /\ Window \in Nat
  BY ImaDeskAssumption
<1>2. m * Window <= n * Window /\ m * Window \in Nat /\ n * Window \in Nat
  BY <1>1
<1> DEFINE a == m * Window
           b == n * Window
           c == limit * size
<1>3. c \in Nat
  BY <1>1
<1> HIDE DEF limit
<1>4. CASE prorated /\ size < Window
  <2>1. a <= b /\ a \in Nat /\ b \in Nat
    BY <1>2
  <2>2. b <= c
    BY <1>4 DEF WithinLimit, limit
  <2> HIDE DEF a, b, c
  <2>3. a <= c
    BY <1>3, <2>1, <2>2
  <2> QED
    BY <1>4, <2>3 DEF WithinLimit, a, c, limit
<1>5. CASE ~(prorated /\ size < Window)
  <2>1. n <= limit
    BY <1>5 DEF WithinLimit, limit
  <2>2. m <= limit
    BY <1>1, <2>1
  <2> QED
    BY <1>5, <2>2 DEF WithinLimit, limit
<1> QED
  BY <1>4, <1>5

(* Whoever has exceptions on no other days is within the limits as well.    *)
LEMMA FewerDaysPass ==
    ASSUME NEW D, NEW E, IsFiniteSet(E), D \subseteq E, NEW l \in Levels,
           NEW size \in Nat, NEW prorated,
           WithinLimit(Cardinality(E), l, size, prorated)
    PROVE  /\ Cardinality(D) \in Nat /\ Cardinality(E) \in Nat
           /\ Cardinality(D) <= Cardinality(E)
           /\ WithinLimit(Cardinality(D), l, size, prorated)
<1>1. /\ Cardinality(D) \in Nat /\ Cardinality(E) \in Nat
      /\ Cardinality(D) <= Cardinality(E)
  BY FS_Subset, FS_CardinalityType
<1> DEFINE m == Cardinality(D)
           n == Cardinality(E)
<1> HIDE DEF m, n
<1>2. m \in Nat /\ n \in Nat /\ m <= n /\ WithinLimit(n, l, size, prorated)
  BY <1>1 DEF m, n
<1>3. WithinLimit(m, l, size, prorated)
  BY <1>2, LimitIsMonotone
<1> QED
  BY <1>1, <1>3 DEF m

(* Over a full window, a day that is added drops the oldest one: if that is *)
(* no exception, then every exception stays.                                *)
LEMMA OldestDayDrops ==
    ASSUME NEW s, Aligned(s), s.dates # <<>>, NEW t, Aligned(t),
           NEW day \in 1 .. LastDay, NEW row \in Rows, t = Appended(s, day, row),
           WindowSize(s) = Window, WindowSize(t) = Window, NEW l \in Levels
    PROVE  LET k == Skipped(s) + 1
           IN  /\ k \in 1 .. Len(t.dates) /\ k + 1 \in 1 .. Len(t.dates)
               /\ k + 1 = Skipped(t) + 1 /\ t.dates[k] = s.dates[k]
               /\ IsException(t.apl[k], t.var[l][k], t.holiday[k])
                  \/ AplDays(s, l) \subseteq AplDays(t, l)
               /\ IsException(t.hpl[k], t.var[l][k], t.holiday[k])
                  \/ HplDays(s, l) \subseteq HplDays(t, l)
<1> DEFINE n == Len(s.dates)
           m == Skipped(s)
           k == Skipped(s) + 1
<1>1. /\ n \in Nat /\ Len(t.dates) = n + 1
      /\ \A i \in 1 .. n :
             /\ t.dates[i] = s.dates[i] /\ t.apl[i] = s.apl[i]
             /\ t.hpl[i] = s.hpl[i] /\ t.holiday[i] = s.holiday[i]
             /\ t.var[l][i] = s.var[l][i]
  BY AppendedIsAligned
<1>2. m \in Nat /\ n = m + Window /\ Window \in Nat /\ Window >= 1
  BY TraceOfWindow, ImaDeskAssumption
<1>3. Skipped(t) = m + 1
  <2> HIDE DEF m, n
  <2>1. Skipped(t) = Len(t.dates) - WindowSize(t)
    BY DEF Skipped
  <2> DEFINE length == Len(t.dates)
             size == WindowSize(t)
  <2>2. length = n + 1 /\ size = Window /\ Skipped(t) = length - size
    BY <1>1, <2>1
  <2> HIDE DEF length, size
  <2>3. Skipped(t) = n + 1 - Window
    BY <1>1, <1>2, <2>2
  <2> QED
    BY <1>2, <2>3
<1>4. /\ AplDays(s, l) = {i \in m + 1 .. n : IsException(s.apl[i], s.var[l][i], s.holiday[i])}
      /\ HplDays(s, l) = {i \in m + 1 .. n : IsException(s.hpl[i], s.var[l][i], s.holiday[i])}
  BY DEF AplDays, HplDays
<1>5. /\ AplDays(t, l) = {i \in m + 2 .. n + 1 : IsException(t.apl[i], t.var[l][i], t.holiday[i])}
      /\ HplDays(t, l) = {i \in m + 2 .. n + 1 : IsException(t.hpl[i], t.var[l][i], t.holiday[i])}
  <2>1. Skipped(t) + 1 = m + 2
    <3> HIDE DEF m
    <3> QED
      BY <1>2, <1>3
  <2> QED
    BY <1>1, <2>1 DEF AplDays, HplDays
<1>6. k = m + 1
  OBVIOUS
<1> HIDE DEF m, n, k
<1>7. \A i \in m + 1 .. n : i # k => i \in m + 2 .. n + 1
  BY <1>1, <1>2, <1>6
<1>8. \A i \in m + 1 .. n : i \in 1 .. n
  BY <1>1, <1>2
<1>9. IsException(t.apl[k], t.var[l][k], t.holiday[k]) \/ AplDays(s, l) \subseteq AplDays(t, l)
  BY <1>1, <1>4, <1>5, <1>7, <1>8
<1>10. IsException(t.hpl[k], t.var[l][k], t.holiday[k]) \/ HplDays(s, l) \subseteq HplDays(t, l)
  BY <1>1, <1>4, <1>5, <1>7, <1>8
<1>11. /\ k \in 1 .. n /\ k \in 1 .. Len(t.dates) /\ k + 1 \in 1 .. Len(t.dates)
       /\ k + 1 = Skipped(t) + 1
  BY <1>1, <1>2, <1>3, <1>6
<1> QED
  BY <1>1, <1>9, <1>10, <1>11 DEF k

(* A desk that failed over a full window passes again only once an exception *)
(* of a place between the starts of the two windows has left: by its place,  *)
(* so whatever dates repeat.                                                 *)
THEOREM RecoveryByAgeing == Spec => RecoveryNeedsAgeing
<1> DEFINE Recovers ==
        /\ verdict.status = "decided" /\ verdict'.status = "decided"
        /\ verdict.backtest.size = Window /\ verdict'.backtest.size = Window
        /\ ~verdict.backtest.eligible /\ verdict'.backtest.eligible
      Aged == \E l \in Levels, i \in DOMAIN series.dates :
               /\ verdict.backtest.first <= i /\ i < verdict'.backtest.first
               /\ \/ IsException(series.apl[i], series.var[l][i], series.holiday[i])
                  \/ IsException(series.hpl[i], series.var[l][i], series.holiday[i])
<1>1. IInv /\ Next /\ Recovers => Aged
  <2> SUFFICES ASSUME IInv, Next, Recovers PROVE Aged
    OBVIOUS
  <2>1. phase = "observed" /\ verdict' = Assessment(series, PlaSeries(feed, today), setup)
    <3>1. CASE NewDay
      BY <3>1 DEF NewDay
    <3>2. CASE RepeatDay
      BY <3>2 DEF RepeatDay
    <3>3. CASE AssembleCapital
      BY <3>3 DEF AssembleCapital
    <3> QED
      BY <3>1, <3>2, <3>3 DEF Next, AssessDesk
  <2>2. /\ verdict'.backtest = Backtest(series, setup) /\ series.dates # <<>>
    BY <2>1, DecisionIs DEF BacktestRefused
  <2>3. Aligned(series) /\ today \in 1 .. LastDay
    BY <2>1 DEF IInv
  <2>4. PICK s \in {series, Shortened(series)} : JudgedBy(s)
    BY DEF IInv
  <2>5. /\ Aligned(s) /\ s.dates # <<>> /\ verdict.backtest = Backtest(s, setup)
    BY <2>4 DEF JudgedBy
  <2>6. s # series
    BY <2>2, <2>5
  <2>7. PICK row \in Rows : series = Appended(s, today, row)
    BY <2>4, <2>6 DEF JudgedBy
  <2> DEFINE t == series
             k == Skipped(s) + 1
  <2>8. WindowSize(s) = Window /\ WindowSize(t) = Window
    <3>1. Backtest(s, setup).size = WindowSize(s) /\ Backtest(t, setup).size = WindowSize(t)
      BY DEF Backtest
    <3>2. Backtest(s, setup).size = Window /\ Backtest(t, setup).size = Window
      BY <2>2, <2>5
    <3> QED
      BY <3>1, <3>2, Zenon
  <2>9. /\ verdict.backtest.first = k
        /\ verdict.backtest.eligible = \A l \in Levels :
               /\ WithinLimit(Cardinality(AplDays(s, l)), l, Window, setup.prorated)
               /\ WithinLimit(Cardinality(HplDays(s, l)), l, Window, setup.prorated)
    <3> DEFINE b == Backtest(s, setup)
    <3>1. /\ b.first = k
          /\ b.eligible = \A l \in Levels :
                 /\ WithinLimit(Cardinality(AplDays(s, l)), l, WindowSize(s), setup.prorated)
                 /\ WithinLimit(Cardinality(HplDays(s, l)), l, WindowSize(s), setup.prorated)
      BY <2>5, BacktestOfWindow
    <3> HIDE DEF b, k
    <3> QED
      BY <2>5, <2>8, <3>1 DEF b
  <2>10. /\ verdict'.backtest.first = Skipped(t) + 1
         /\ verdict'.backtest.eligible = \A l \in Levels :
               /\ WithinLimit(Cardinality(AplDays(t, l)), l, Window, setup.prorated)
               /\ WithinLimit(Cardinality(HplDays(t, l)), l, Window, setup.prorated)
    <3> DEFINE b == Backtest(t, setup)
    <3>1. /\ b.first = Skipped(t) + 1
          /\ b.eligible = \A l \in Levels :
                 /\ WithinLimit(Cardinality(AplDays(t, l)), l, WindowSize(t), setup.prorated)
                 /\ WithinLimit(Cardinality(HplDays(t, l)), l, WindowSize(t), setup.prorated)
      BY <2>2, <2>3, BacktestOfWindow
    <3> HIDE DEF b, t
    <3> QED
      BY <2>2, <2>8, <3>1 DEF b, t
  <2>11. PICK l \in Levels :
             ~ (/\ WithinLimit(Cardinality(AplDays(s, l)), l, Window, setup.prorated)
                /\ WithinLimit(Cardinality(HplDays(s, l)), l, Window, setup.prorated))
    BY <2>9
  <2>12. /\ WithinLimit(Cardinality(AplDays(t, l)), l, Window, setup.prorated)
         /\ WithinLimit(Cardinality(HplDays(t, l)), l, Window, setup.prorated)
    BY <2>10
  <2>13. /\ k \in 1 .. Len(t.dates) /\ k + 1 \in 1 .. Len(t.dates)
         /\ k + 1 = Skipped(t) + 1 /\ t.dates[k] = s.dates[k]
         /\ IsException(t.apl[k], t.var[l][k], t.holiday[k])
            \/ AplDays(s, l) \subseteq AplDays(t, l)
         /\ IsException(t.hpl[k], t.var[l][k], t.holiday[k])
            \/ HplDays(s, l) \subseteq HplDays(t, l)
    BY <2>3, <2>5, <2>7, <2>8, OldestDayDrops
  <2>14. IsFiniteSet(AplDays(t, l)) /\ IsFiniteSet(HplDays(t, l))
    BY <2>2, <2>3, CountsAreDays
  <2> HIDE DEF k
  <2>15. \/ IsException(t.apl[k], t.var[l][k], t.holiday[k])
         \/ IsException(t.hpl[k], t.var[l][k], t.holiday[k])
    <3>1. Window \in Nat
      BY ImaDeskAssumption
    <3>2. AplDays(s, l) \subseteq AplDays(t, l) =>
              WithinLimit(Cardinality(AplDays(s, l)), l, Window, setup.prorated)
      BY <2>12, <2>14, <3>1, FewerDaysPass
    <3>3. HplDays(s, l) \subseteq HplDays(t, l) =>
              WithinLimit(Cardinality(HplDays(s, l)), l, Window, setup.prorated)
      BY <2>12, <2>14, <3>1, FewerDaysPass
    <3> QED
      BY <2>11, <2>13, <3>2, <3>3
  <2>16. DOMAIN t.dates = 1 .. Len(t.dates)
    BY <2>3, LenProperties DEF Aligned
  <2>17. verdict.backtest.first <= k /\ k < verdict'.backtest.first
    <3>1. k \in Int /\ verdict.backtest.first = k /\ verdict'.backtest.first = k + 1
      BY <2>9, <2>10, <2>13
    <3> QED
      BY <3>1
  <2> QED
    BY <2>13, <2>15, <2>16, <2>17
<1>2. UNCHANGED vars /\ Recovers => Aged
  BY DEF vars
<1>3. IInv /\ [Next]_vars => [Recovers => Aged]_vars
  BY <1>1, <1>2
<1> QED
  BY <1>3, Invariance, PTL DEF Spec, RecoveryNeedsAgeing

(* Two windows up to the end of a rising sequence that start at one value   *)
(* have one length.                                                         *)
LEMMA StartFixesWindow ==
    ASSUME NEW e \in Seq(Int), NEW m \in 1 .. Len(e), NEW n \in 1 .. Len(e),
           \A i, j \in 1 .. Len(e) : i < j => e[i] < e[j],
           Head(Recent(e, m)) = Head(Recent(e, n))
    PROVE  m = n
<1> DEFINE i == Len(e) - m + 1
           j == Len(e) - n + 1
<1>1. e[i] = e[j]
  BY RecentEnds
<1>2. i \in 1 .. Len(e) /\ j \in 1 .. Len(e) /\ Len(e) \in Nat
  BY LenProperties
<1>3. \A k \in 1 .. Len(e) : e[k] \in Int
  BY ElementOfSeq
<1> HIDE DEF i, j
<1>4. i = j
  <2>1. ~ (i < j) /\ ~ (j < i)
    <3>1. i \in Int /\ j \in Int /\ e[i] \in Int /\ e[j] \in Int
      BY <1>2, <1>3
    <3>2. ~ (e[i] < e[j]) /\ ~ (e[j] < e[i])
      BY <1>1, <3>1
    <3> QED
      BY <1>2, <3>2
  <2> QED
    BY <1>2, <2>1
<1> QED
  BY <1>2, <1>4 DEF i, j

(* The dates that a calendar accepts are its own last business days.        *)
LEMMA AcceptedDates ==
    ASSUME NEW su \in Setups, NEW cal \in {su.calendar, su.plaCalendar},
           cal # NoCalendar, NEW dates \in Seq(Int), NEW n \in 1 .. Len(dates),
           CalendarAccepts(cal, dates, n)
    PROVE  LET eligible == InOrder({d \in cal.business : d <= Last(dates)})
           IN  /\ eligible \in Seq(Int)
               /\ \A i, j \in 1 .. Len(eligible) : i < j => eligible[i] < eligible[j]
               /\ n \in 1 .. Len(eligible)
               /\ Recent(dates, n) = Recent(eligible, n)
<1> DEFINE days == {d \in cal.business : d <= Last(dates)}
           eligible == InOrder(days)
           selected == Recent(eligible, n)
<1>1. days \in SUBSET Int /\ IsFiniteSet(days)
  <2>1. cal.business \subseteq Int /\ IsFiniteSet(cal.business)
    BY ImaDeskAssumption
  <2> QED
    BY <2>1, FS_Subset
<1> HIDE DEF days
<1>2. /\ eligible \in Seq(days) /\ Len(eligible) = Cardinality(days) /\ Len(eligible) \in Nat
      /\ \A i, j \in 1 .. Len(eligible) : i < j => eligible[i] < eligible[j]
  BY <1>1, InOrderIsSorted
<1>3. eligible \in Seq(Int)
  BY <1>1, <1>2, SeqMonotonic
<1> HIDE DEF eligible
<1>4. Recent(dates, n) = BusinessDays(cal, n, Last(dates))
  BY DEF CalendarAccepts
<1>5. Recent(dates, n) # <<>>
  <2>1. Len(Recent(dates, n)) = n /\ n # 0
    BY RecentValues
  <2> QED
    BY <2>1, EmptySeq
<1>6. ~(Len(eligible) < n) /\ Recent(dates, n) = selected
  BY <1>4, <1>5 DEF BusinessDays, eligible, days
<1>7. n \in 1 .. Len(eligible)
  BY <1>2, <1>6
<1> QED
  BY <1>2, <1>3, <1>6, <1>7 DEF eligible, days

(* Where one calendar vouches for both windows, a decision has looked at    *)
(* the same days on both sides.                                             *)
THEOREM SameDays == Spec => []AlignedMeansSameDays
<1>1. IInv => AlignedMeansSameDays
  <2> DEFINE p == PlaSeries(feed, today)
             m == WindowSize(series)
             n == PlaSize(p)
             cal == setup.calendar
  <2> SUFFICES ASSUME IInv, verdict.status = "decided", phase = "assessed", setup.compared,
                      cal # NoCalendar, cal = setup.plaCalendar
               PROVE  Recent(p.dates, n) = Recent(series.dates, m)
    BY DEF AlignedMeansSameDays
  <2> DEFINE days == {d \in 1 .. today : feed[d] # NoRow}
  <2>1. p.dates \in Seq(Int) /\ Len(p.dates) \in Nat
    <3>1. days \in SUBSET Int /\ IsFiniteSet(days)
      <4>1. today \in Int
        BY DEF IInv
      <4>2. IsFiniteSet(1 .. today) /\ days \in SUBSET (1 .. today)
        BY <4>1, FS_Interval
      <4>3. days \in SUBSET Int
        OBVIOUS
      <4> HIDE DEF days
      <4> QED
        BY <4>2, <4>3, FS_Subset
    <3>2. p.dates = InOrder(days)
      BY DEF PlaSeries
    <3> HIDE DEF days
    <3>3. InOrder(days) \in Seq(days)
      BY <3>1, InOrderIsSorted
    <3> QED
      BY <3>1, <3>2, <3>3, SeqMonotonic, LenProperties
  <2> HIDE DEF days, p
  <2>2. /\ Aligned(series) /\ series.dates # <<>>
        /\ verdict = Assessment(series, p, setup)
    BY VerdictIsOfSeries DEF p
  <2>3. /\ ~BacktestRefused(series, setup) /\ ~PlaRefused(p, setup)
        /\ ~Misaligned(AssessPla(p, setup), Backtest(series, setup))
    BY <2>2, DecisionIs
  <2>4. series.dates \in Seq(Int) /\ m \in 1 .. Len(series.dates)
    <3>1. Len(series.dates) \in Nat /\ Len(series.dates) # 0
      BY <2>2, DatesAreDays, EmptySeq DEF Aligned
    <3>2. m \in 1 .. Len(series.dates)
      BY <3>1, ImaDeskAssumption DEF WindowSize, Least
    <3>3. 1 .. LastDay \subseteq Int /\ series.dates \in Seq(1 .. LastDay)
      BY <2>2 DEF Aligned
    <3>4. series.dates \in Seq(Int)
      BY <3>3, SeqMonotonic
    <3> QED
      BY <3>2, <3>4
  <2>5. n \in 1 .. Len(p.dates)
    <3>1. ~(Len(p.dates) < PlaMinimumHistory)
      BY <2>3 DEF PlaRefused
    <3> QED
      BY <2>1, <3>1, ImaDeskAssumption DEF PlaSize, Least
  <2> HIDE DEF m, n, cal
  <2>6. CalendarAccepts(cal, series.dates, m) /\ CalendarAccepts(cal, p.dates, n)
    BY <2>3 DEF BacktestRefused, PlaRefused, cal, m, n
  <2>7. /\ Head(Recent(p.dates, n)) = Head(Recent(series.dates, m))
        /\ Last(Recent(p.dates, n)) = Last(Recent(series.dates, m))
    <3>1. /\ AssessPla(p, setup).start = Head(Recent(p.dates, n))
          /\ AssessPla(p, setup).end = Last(Recent(p.dates, n))
          /\ AssessPla(p, setup).backed = (setup.plaCalendar # NoCalendar)
      BY DEF AssessPla, n
    <3>2. /\ Backtest(series, setup).start = Head(Recent(series.dates, m))
          /\ Backtest(series, setup).end = Last(Recent(series.dates, m))
          /\ Backtest(series, setup).backed = (setup.calendar # NoCalendar)
      BY DEF Backtest, m
    <3> QED
      BY <2>3, <3>1, <3>2 DEF Misaligned, cal
  <2>8. Last(p.dates) = Last(series.dates)
    <3>1. /\ Last(Recent(p.dates, n)) = p.dates[Len(p.dates)]
          /\ Last(Recent(series.dates, m)) = series.dates[Len(series.dates)]
      BY <2>1, <2>4, <2>5, RecentEnds
    <3> QED
      BY <2>7, <3>1 DEF Last
  <2> DEFINE e == InOrder({d \in cal.business : d <= Last(series.dates)})
  <2>9. setup \in Setups /\ cal \in {setup.calendar, setup.plaCalendar} /\ cal # NoCalendar
    BY DEF IInv, cal
  <2>10. /\ e \in Seq(Int) /\ \A i, j \in 1 .. Len(e) : i < j => e[i] < e[j]
         /\ m \in 1 .. Len(e) /\ Recent(series.dates, m) = Recent(e, m)
    BY <2>4, <2>6, <2>9, AcceptedDates
  <2>11. n \in 1 .. Len(e) /\ Recent(p.dates, n) = Recent(e, n)
    BY <2>1, <2>5, <2>6, <2>8, <2>9, AcceptedDates
  <2> HIDE DEF e
  <2>12. m = n
    BY <2>7, <2>10, <2>11, StartFixesWindow
  <2> QED
    BY <2>10, <2>11, <2>12
<1> QED
  BY <1>1, Invariance, PTL

(* A series with the dates of another, and every exception of it and maybe  *)
(* more, never makes the desk better off.                                   *)
LEMMA MoreExceptionsNeverHelp ==
    ASSUME NEW s, Aligned(s), s.dates # <<>>, NEW t, Aligned(t), t.dates = s.dates,
           \A l \in Levels : /\ AplDays(s, l) \subseteq AplDays(t, l)
                             /\ HplDays(s, l) \subseteq HplDays(t, l),
           NEW p, NEW su, Assessment(s, p, su).status = "decided"
    PROVE  NotCheaper(Assessment(s, p, su), Assessment(t, p, su))
<1> DEFINE v == Assessment(s, p, su)
           w == Assessment(t, p, su)
           b == Backtest(s, su)
           c == Backtest(t, su)
           z == AssessPla(p, su)
           n == WindowSize(s)
<1>1. t.dates # <<>> /\ WindowSize(t) = n /\ Skipped(t) = Skipped(s)
  BY DEF WindowSize, Skipped
<1>2. BacktestRefused(t, su) = BacktestRefused(s, su)
  BY DEF BacktestRefused, WindowSize
<1>3. n \in Nat
  BY DatesAreDays, ImaDeskAssumption DEF WindowSize, Least
<1>4. b.start = c.start /\ b.end = c.end /\ b.backed = c.backed
  <2>1. /\ b.start = s.dates[Skipped(s) + 1] /\ b.end = s.dates[Len(s.dates)]
        /\ b.backed = (su.calendar # NoCalendar)
    BY BacktestOfWindow
  <2>2. /\ c.start = t.dates[Skipped(t) + 1] /\ c.end = t.dates[Len(t.dates)]
        /\ c.backed = (su.calendar # NoCalendar)
    BY <1>1, BacktestOfWindow
  <2> HIDE DEF b, c
  <2> QED
    BY <1>1, <2>1, <2>2
<1>5. \A l \in Levels :
          /\ b.levels[l].apl = Cardinality(AplDays(s, l))
          /\ b.levels[l].hpl = Cardinality(HplDays(s, l))
          /\ c.levels[l].apl = Cardinality(AplDays(t, l))
          /\ c.levels[l].hpl = Cardinality(HplDays(t, l))
  BY <1>1, BacktestOfWindow
<1>6. /\ b.eligible = \A l \in Levels :
             /\ WithinLimit(Cardinality(AplDays(s, l)), l, n, su.prorated)
             /\ WithinLimit(Cardinality(HplDays(s, l)), l, n, su.prorated)
      /\ c.eligible = \A l \in Levels :
             /\ WithinLimit(Cardinality(AplDays(t, l)), l, n, su.prorated)
             /\ WithinLimit(Cardinality(HplDays(t, l)), l, n, su.prorated)
  BY <1>1, BacktestOfWindow
<1>7. /\ Counts(b) \subseteq Nat /\ Counts(c) \subseteq Nat
  BY <1>1, CountsAreNumbers
<1>8. /\ v.status = "decided" /\ v.backtest = b /\ v.pla = z
      /\ v.eligibility = Eligibility(b, z.zone)
      /\ ~ (\/ BacktestRefused(s, su) \/ PlaRefused(p, su)
            \/ su.compared /\ Misaligned(z, b))
  BY DecisionIs
<1>9. /\ w.status = "decided" <=>
             ~ (\/ BacktestRefused(t, su) \/ PlaRefused(p, su)
                \/ su.compared /\ Misaligned(z, c))
      /\ w.status = "decided" =>
             /\ w.backtest = c /\ w.pla = z /\ w.eligibility = Eligibility(c, z.zone)
  BY DecisionIs
<1> HIDE DEF v, w, b, c, z, n
<1>10. w.status = "decided"
  <2>1. Misaligned(z, b) = Misaligned(z, c)
    BY <1>4 DEF Misaligned
  <2> QED
    BY <1>2, <1>8, <1>9, <2>1
<1>11. ASSUME NEW l \in Levels
       PROVE  /\ Cardinality(AplDays(s, l)) <= Cardinality(AplDays(t, l))
              /\ Cardinality(HplDays(s, l)) <= Cardinality(HplDays(t, l))
              /\ WithinLimit(Cardinality(AplDays(t, l)), l, n, su.prorated)
                     => WithinLimit(Cardinality(AplDays(s, l)), l, n, su.prorated)
              /\ WithinLimit(Cardinality(HplDays(t, l)), l, n, su.prorated)
                     => WithinLimit(Cardinality(HplDays(s, l)), l, n, su.prorated)
  <2>1. IsFiniteSet(AplDays(t, l)) /\ IsFiniteSet(HplDays(t, l))
    BY <1>1, CountsAreDays
  <2>2. /\ Cardinality(AplDays(s, l)) <= Cardinality(AplDays(t, l))
        /\ Cardinality(HplDays(s, l)) <= Cardinality(HplDays(t, l))
    BY <2>1, FS_Subset
  <2> QED
    BY <1>3, <2>1, <2>2, FewerDaysPass
<1>12. c.eligible => b.eligible
  BY <1>6, <1>11
<1> DEFINE j == WorstCount(b)
           k == WorstCount(c)
<1>13. j \in Nat /\ k \in Nat
  BY <1>7, WorstCountIsWorst
<1>14. \A l \in Levels : b.levels[l].apl <= k /\ b.levels[l].hpl <= k
  <2> TAKE l \in Levels
  <2>1. /\ c.levels[l].apl \in Counts(c) /\ c.levels[l].hpl \in Counts(c)
        /\ b.levels[l].apl \in Counts(b) /\ b.levels[l].hpl \in Counts(b)
    BY DEF Counts
  <2>2. c.levels[l].apl <= k /\ c.levels[l].hpl <= k
    BY <1>7, <2>1, WorstCountIsWorst
  <2>3. /\ c.levels[l].apl \in Nat /\ c.levels[l].hpl \in Nat
        /\ b.levels[l].apl \in Nat /\ b.levels[l].hpl \in Nat
    BY <1>7, <2>1
  <2>4. b.levels[l].apl <= c.levels[l].apl /\ b.levels[l].hpl <= c.levels[l].hpl
    BY <1>5, <1>11
  <2> HIDE DEF k
  <2> QED
    BY <1>13, <2>2, <2>3, <2>4
<1>15. j <= k
  <2>1. j \in {0} \cup Counts(b)
    BY <1>7, WorstCountIsWorst
  <2> HIDE DEF j, k
  <2>2. \A x \in Counts(b) : x <= k
    BY <1>14 DEF Counts
  <2> QED
    BY <1>13, <2>1, <2>2
<1>16. /\ CapitalOf(v).status = "assembled" <=>
              ~ (v.eligibility = "SA_FALLBACK" \/ j >= RedZone)
       /\ CapitalOf(v).status = "assembled" =>
              CapitalOf(v).amount = ModelsBasedCapital(j, z.zone)
  BY <1>7, <1>8, CapitalIsAmount
<1>17. /\ CapitalOf(w).status = "assembled" <=>
              ~ (w.eligibility = "SA_FALLBACK" \/ k >= RedZone)
       /\ CapitalOf(w).status = "assembled" =>
              CapitalOf(w).amount = ModelsBasedCapital(k, z.zone)
  BY <1>7, <1>9, <1>10, CapitalIsAmount
<1> HIDE DEF j, k
<1>18. ASSUME CapitalOf(w).status = "assembled"
       PROVE  /\ CapitalOf(v).status = "assembled"
              /\ CapitalOf(v).amount <= CapitalOf(w).amount
  <2>1. Eligibility(c, z.zone) # "SA_FALLBACK" /\ ~(k >= RedZone)
    BY <1>9, <1>10, <1>17, <1>18
  <2>2. v.eligibility # "SA_FALLBACK"
    BY <1>8, <1>12, <2>1 DEF Eligibility
  <2>3. k < RedZone /\ ~(j >= RedZone)
    BY <1>13, <1>15, <2>1, CapitalAssumption
  <2>4. ModelsBasedCapital(j, z.zone) <= ModelsBasedCapital(k, z.zone)
    BY <1>13, <1>15, <2>3, CapitalRises
  <2> QED
    BY <1>16, <1>17, <1>18, <2>2, <2>3, <2>4
<1> QED
  BY <1>18 DEF NotCheaper, v, w

(* A value gone missing leaves the series aligned.                          *)
LEMMA MissingIsAligned ==
    ASSUME NEW S, NEW q \in Seq(S \cup {Missing}), NEW i \in 1 .. Len(q)
    PROVE  /\ [q EXCEPT ![i] = Missing] \in Seq(S \cup {Missing})
           /\ Len([q EXCEPT ![i] = Missing]) = Len(q)
           /\ \A k \in 1 .. Len(q) :
                  [q EXCEPT ![i] = Missing][k] = IF k = i THEN Missing ELSE q[k]
<1>1. Missing \in S \cup {Missing}
  OBVIOUS
<1> QED
  BY <1>1, ExceptSeq

(* The days of the window are days of the series.                           *)
LEMMA SkippedIsCount ==
    ASSUME NEW s, Aligned(s)
    PROVE  \A d \in Skipped(s) + 1 .. Len(s.dates) : d \in 1 .. Len(s.dates)
<1> DEFINE n == Len(s.dates)
           size == WindowSize(s)
<1>1. n \in Nat
  BY DatesAreDays
<1>2. size \in Nat /\ size <= n
  BY <1>1, ImaDeskAssumption DEF WindowSize, Least
<1>3. Skipped(s) = n - size
  BY DEF Skipped
<1> HIDE DEF n, size
<1>4. \A d \in Skipped(s) + 1 .. n : d \in 1 .. n
  BY <1>1, <1>2, <1>3
<1> QED
  BY <1>4 DEF n

(* Without the APL of a day, the days that were exceptions still are.       *)
LEMMA MissingAplIsNoExcuse ==
    ASSUME NEW s, Aligned(s), NEW i \in 1 .. Len(s.dates)
    PROVE  /\ Aligned(WithoutApl(s, i)) /\ WithoutApl(s, i).dates = s.dates
           /\ \A l \in Levels : /\ AplDays(s, l) \subseteq AplDays(WithoutApl(s, i), l)
                                /\ HplDays(s, l) \subseteq HplDays(WithoutApl(s, i), l)
<1> DEFINE n == Len(s.dates)
           t == WithoutApl(s, i)
<1>1. /\ s \in [apl : Seq(Pnls), hpl : Seq(Pnls), holiday : Seq(BOOLEAN),
                dates : Seq(1 .. LastDay), var : [Levels -> Seq(Vars)]]
      /\ Len(s.apl) = n /\ Len(s.hpl) = n /\ Len(s.holiday) = n /\ Len(s.dates) = n
      /\ \A l \in Levels : Len(s.var[l]) = n
  BY DEF Aligned
<1>2. t = [s EXCEPT !.apl = [s.apl EXCEPT ![i] = Missing]]
  BY DEF WithoutApl
<1>3. /\ t.apl = [s.apl EXCEPT ![i] = Missing]
      /\ t.hpl = s.hpl /\ t.holiday = s.holiday /\ t.dates = s.dates /\ t.var = s.var
  BY <1>1, <1>2
<1>4. /\ t.apl \in Seq(Pnls) /\ Len(t.apl) = n
      /\ \A d \in 1 .. n : t.apl[d] = IF d = i THEN Missing ELSE s.apl[d]
  <2>1. Pnls = Pnls \cup {Missing}
    BY DEF Pnls
  <2> DEFINE q == s.apl
  <2>2. q \in Seq(Pnls \cup {Missing}) /\ i \in 1 .. Len(q)
    BY <1>1, <2>1
  <2> HIDE DEF q, t
  <2>3. /\ [q EXCEPT ![i] = Missing] \in Seq(Pnls \cup {Missing})
        /\ Len([q EXCEPT ![i] = Missing]) = Len(q)
        /\ \A d \in 1 .. Len(q) : [q EXCEPT ![i] = Missing][d] = IF d = i THEN Missing ELSE q[d]
    BY <2>2, MissingIsAligned
  <2> QED
    BY <1>1, <1>3, <2>1, <2>3 DEF q
<1>5. Aligned(t)
  <2>1. t \in [apl : Seq(Pnls), hpl : Seq(Pnls), holiday : Seq(BOOLEAN),
               dates : Seq(1 .. LastDay), var : [Levels -> Seq(Vars)]]
    BY <1>1, <1>2, <1>3, <1>4
  <2> QED
    BY <1>1, <1>3, <1>4, <2>1 DEF Aligned
<1>6. \A pnl, var, holiday :
          IsException(pnl, var, holiday) => IsException(Missing, var, holiday)
  BY DEF IsException
<1>7. Skipped(t) = Skipped(s)
  BY <1>3 DEF Skipped, WindowSize
<1>8. \A d \in Skipped(s) + 1 .. n : d \in 1 .. n
  BY SkippedIsCount
<1> HIDE DEF t, n
<1>9. \A l \in Levels :
          /\ AplDays(s, l) = {d \in Skipped(s) + 1 .. n : IsException(s.apl[d], s.var[l][d], s.holiday[d])}
          /\ HplDays(s, l) = {d \in Skipped(s) + 1 .. n : IsException(s.hpl[d], s.var[l][d], s.holiday[d])}
          /\ AplDays(t, l) = {d \in Skipped(s) + 1 .. n : IsException(t.apl[d], s.var[l][d], s.holiday[d])}
          /\ HplDays(t, l) = {d \in Skipped(s) + 1 .. n : IsException(s.hpl[d], s.var[l][d], s.holiday[d])}
  BY <1>3, <1>7 DEF AplDays, HplDays, n
<1>10. \A l \in Levels : /\ AplDays(s, l) \subseteq AplDays(t, l)
                         /\ HplDays(s, l) \subseteq HplDays(t, l)
  BY <1>4, <1>6, <1>8, <1>9
<1> QED
  BY <1>3, <1>5, <1>10 DEF t

(* Nor is it an excuse that the VaR of a level is missing.                  *)
LEMMA MissingVarIsNoExcuse ==
    ASSUME NEW s, Aligned(s), NEW i \in 1 .. Len(s.dates), NEW k \in Levels
    PROVE  /\ Aligned(WithoutVar(s, k, i)) /\ WithoutVar(s, k, i).dates = s.dates
           /\ \A l \in Levels : /\ AplDays(s, l) \subseteq AplDays(WithoutVar(s, k, i), l)
                                /\ HplDays(s, l) \subseteq HplDays(WithoutVar(s, k, i), l)
<1> DEFINE n == Len(s.dates)
           t == WithoutVar(s, k, i)
<1>1. /\ s \in [apl : Seq(Pnls), hpl : Seq(Pnls), holiday : Seq(BOOLEAN),
                dates : Seq(1 .. LastDay), var : [Levels -> Seq(Vars)]]
      /\ Len(s.apl) = n /\ Len(s.hpl) = n /\ Len(s.holiday) = n /\ Len(s.dates) = n
      /\ \A l \in Levels : Len(s.var[l]) = n
  BY DEF Aligned
<1>2. t = [s EXCEPT !.var = [s.var EXCEPT ![k] = [s.var[k] EXCEPT ![i] = Missing]]]
  BY DEF WithoutVar
<1>3. /\ t.var = [s.var EXCEPT ![k] = [s.var[k] EXCEPT ![i] = Missing]]
      /\ t.apl = s.apl /\ t.hpl = s.hpl /\ t.holiday = s.holiday /\ t.dates = s.dates
  BY <1>1, <1>2
<1>4. \A l \in Levels :
          /\ t.var[l] \in Seq(Vars) /\ Len(t.var[l]) = n
          /\ \A d \in 1 .. n : t.var[l][d] = IF l = k /\ d = i THEN Missing ELSE s.var[l][d]
  <2>1. Vars = Vars \cup {Missing}
    BY DEF Vars
  <2> DEFINE q == s.var[k]
  <2>2. q \in Seq(Vars \cup {Missing}) /\ i \in 1 .. Len(q) /\ Len(q) = n
    BY <1>1, <2>1
  <2>3. t.var[k] = [q EXCEPT ![i] = Missing] /\ \A l \in Levels : l # k => t.var[l] = s.var[l]
    BY <1>1, <1>3
  <2> HIDE DEF q, t
  <2>4. /\ [q EXCEPT ![i] = Missing] \in Seq(Vars \cup {Missing})
        /\ Len([q EXCEPT ![i] = Missing]) = Len(q)
        /\ \A d \in 1 .. Len(q) : [q EXCEPT ![i] = Missing][d] = IF d = i THEN Missing ELSE q[d]
    BY <2>2, MissingIsAligned
  <2>5. t.var[k] \in Seq(Vars) /\ Len(t.var[k]) = n
        /\ \A d \in 1 .. n : t.var[k][d] = IF d = i THEN Missing ELSE s.var[k][d]
    BY <2>1, <2>2, <2>3, <2>4 DEF q
  <2>6. \A l \in Levels : s.var[l] \in Seq(Vars)
    BY <1>1
  <2> QED
    BY <1>1, <2>3, <2>5, <2>6
<1>5. Aligned(t)
  <2>1. t.var \in [Levels -> Seq(Vars)]
    BY <1>1, <1>3, <1>4
  <2>2. t \in [apl : Seq(Pnls), hpl : Seq(Pnls), holiday : Seq(BOOLEAN),
               dates : Seq(1 .. LastDay), var : [Levels -> Seq(Vars)]]
    BY <1>1, <1>2, <2>1
  <2> QED
    BY <1>1, <1>3, <1>4, <2>2 DEF Aligned
<1>6. \A pnl, var, holiday :
          IsException(pnl, var, holiday) => IsException(pnl, Missing, holiday)
  BY DEF IsException
<1>7. Skipped(t) = Skipped(s)
  BY <1>3 DEF Skipped, WindowSize
<1>8. \A d \in Skipped(s) + 1 .. n : d \in 1 .. n
  BY SkippedIsCount
<1> HIDE DEF t, n
<1>9. \A l \in Levels :
          /\ AplDays(s, l) = {d \in Skipped(s) + 1 .. n : IsException(s.apl[d], s.var[l][d], s.holiday[d])}
          /\ HplDays(s, l) = {d \in Skipped(s) + 1 .. n : IsException(s.hpl[d], s.var[l][d], s.holiday[d])}
          /\ AplDays(t, l) = {d \in Skipped(s) + 1 .. n : IsException(s.apl[d], t.var[l][d], s.holiday[d])}
          /\ HplDays(t, l) = {d \in Skipped(s) + 1 .. n : IsException(s.hpl[d], t.var[l][d], s.holiday[d])}
  BY <1>3, <1>7 DEF AplDays, HplDays, n
<1>10. \A l \in Levels : /\ AplDays(s, l) \subseteq AplDays(t, l)
                         /\ HplDays(s, l) \subseteq HplDays(t, l)
  BY <1>4, <1>6, <1>8, <1>9
<1> QED
  BY <1>3, <1>5, <1>10 DEF t

(* Not reporting a value of any day makes no desk eligible and no desk's    *)
(* capital less, through window, counts, limits, gates and multiplier.      *)
THEOREM SilenceIsNotRewarded == Spec => []SilenceNeverHelps
<1>1. IInv => SilenceNeverHelps
  <2> DEFINE p == PlaSeries(feed, today)
  <2> SUFFICES ASSUME IInv, phase = "assessed", verdict.status = "decided",
                      NEW i \in DOMAIN series.dates
               PROVE  /\ NotCheaper(verdict, Assessment(WithoutApl(series, i), p, setup))
                      /\ \A l \in Levels :
                             NotCheaper(verdict, Assessment(WithoutVar(series, l, i), p, setup))
    BY DEF SilenceNeverHelps
  <2>1. /\ Aligned(series) /\ series.dates # <<>>
        /\ verdict = Assessment(series, p, setup)
    BY VerdictIsOfSeries
  <2>2. i \in 1 .. Len(series.dates)
    BY <2>1, LenProperties DEF Aligned
  <2> HIDE DEF p
  <2>3. ASSUME NEW l \in Levels
        PROVE  NotCheaper(verdict, Assessment(WithoutVar(series, l, i), p, setup))
    BY <2>1, <2>2, MissingVarIsNoExcuse, MoreExceptionsNeverHelp
  <2>4. NotCheaper(verdict, Assessment(WithoutApl(series, i), p, setup))
    BY <2>1, <2>2, MissingAplIsNoExcuse, MoreExceptionsNeverHelp
  <2> QED
    BY <2>3, <2>4
<1> QED
  BY <1>1, Invariance, PTL
============================================================================
