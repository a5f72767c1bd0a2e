----------------------------- MODULE MCImaDesk -----------------------------
(* A small instance of ImaDesk for TLC: windows of three days out of five,  *)
(* two levels, and limits in the order of the policy: the red zone starts   *)
(* below the limit of the looser level.                                     *)
EXTENDS ImaDesk

Row(apl, hpl, loose, strict, holiday) ==
    [apl |-> apl, hpl |-> hpl, holiday |-> holiday,
     var |-> [l \in Levels |-> IF l = 975 THEN loose ELSE strict]]

(* A quiet day, an actual loss beyond the looser VaR only, a hypothetical   *)
(* one beyond the stricter VaR where the other VaR and the APL are missing, *)
(* and a holiday without an APL.                                            *)
SomeRows == {
    Row(5, 5, 2, 4, FALSE),
    Row(-3, 5, 2, 4, FALSE),
    Row(Missing, -9, Missing, 4, FALSE),
    Row(Missing, -9, 2, 4, TRUE)}

Pair(h, r) == [hpl |-> h, rtpl |-> r]

(* Fed every business day and well explained; every day and ever worse,     *)
(* with a value missing at last; and with the holiday in place of a         *)
(* business day.                                                            *)
SomeFeeds == {
    <<Pair(1, 1), Pair(2, 2), NoRow, Pair(3, 3), Pair(4, 4)>>,
    <<Pair(1, 1), Pair(2, 5), Pair(4, 9), Pair(3, 9), Pair(2, Missing)>>,
    <<Pair(1, 2), Pair(2, 3), Pair(3, 3), NoRow, Pair(4, 1)>>}

HomeCalendar == [business |-> {1, 2, 4, 5}, holidays |-> {3}, weekend |-> {}]
OtherCalendar == [business |-> {1, 3, 4, 5}, holidays |-> {2}, weekend |-> {}]

Setting(calendar, plaCalendar, prorated, spearman, compared) ==
    [calendar |-> calendar, plaCalendar |-> plaCalendar, prorated |-> prorated,
     spearman |-> spearman, compared |-> compared]

SomeSetups == {
    Setting(NoCalendar, NoCalendar, FALSE, TRUE, FALSE),
    Setting(NoCalendar, NoCalendar, TRUE, FALSE, TRUE),
    Setting(HomeCalendar, HomeCalendar, TRUE, FALSE, TRUE),
    Setting(OtherCalendar, HomeCalendar, FALSE, FALSE, TRUE)}

SomeLimits == [l \in Levels |-> IF l = 975 THEN 2 ELSE 1]
SomeSchedule == [n \in 0..1 |-> IF n = 0 THEN 150 ELSE 170]
SomeCharges == [imcc |-> 8, ses |-> 2, imccAvg |-> 6, sesAvg |-> 1, sa |-> 14]
=============================================================================
