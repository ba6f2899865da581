------------------------------ MODULE Calendar ------------------------------
(***************************************************************************)
(* Month keys and dates as the client computes with them (domain/          *)
(* aggregation.ts and income-month.ts).  A month key "yyyy-mm" is <<y, m>>, *)
(* a date "yyyy-mm-dd" is <<y, m, d>>; strings of digits of one length      *)
(* compare the way these do.  JavaScript's Date normalises a month or day   *)
(* past its end into the next one, and day 0 into the last of the month     *)
(* before.                                                                 *)
(***************************************************************************)
EXTENDS Integers, FiniteSets, FiniteSetsExt

Before(a, b)   == a[1] < b[1] \/ (a[1] = b[1] /\ a[2] < b[2])
UpTo(a, b)     == a = b \/ Before(a, b)
DateUpTo(a, b) == IF a[1] = b[1] /\ a[2] = b[2] THEN a[3] <= b[3] ELSE Before(a, b)
MinMonth(a, b) == IF Before(a, b) THEN a ELSE b

Leap(y) == y % 4 = 0 /\ (y % 100 # 0 \/ y % 400 = 0)

\* new Date(y, m, 0).getDate()
LastDay(k) ==
    IF k[2] = 2 THEN IF Leap(k[1]) THEN 29 ELSE 28
    ELSE IF k[2] \in {4, 6, 9, 11} THEN 30 ELSE 31

\* resolveDay: a template's day, or the month's last day when it has none such.
ResolveDay_Unclamped(k, day) == <<k[1], k[2], day>>
ResolveDay(k, day) == <<k[1], k[2], IF day > LastDay(k) THEN LastDay(k) ELSE day>>

\* new Date(y, m, 1), where m counts from 1 and the constructor from 0
NextMonth(k) == <<k[1] + k[2] \div 12, (k[2] % 12) + 1>>

\* ym: the month of a date, the next one for a day the month does not have
Ym(date) ==
    LET k == <<date[1], date[2]>>
    IN  IF date[3] > LastDay(k) THEN NextMonth(k) ELSE k

\* while (cursor <= last) { ...; cursor = nextMonth(cursor) }
MonthsWalked(first, last) ==
    LET walk[k \in Nat \X (1..12)] ==
            IF UpTo(k, last) THEN {k} \cup walk[NextMonth(k)] ELSE {}
    IN  walk[first]

\* What such a loop visits, said without the loop.
MonthSpan(first, last) ==
    {k \in (first[1]..last[1]) \X (1..12) : UpTo(first, k) /\ UpTo(k, last)}

MonthDiff(a, b) == (b[1] - a[1]) * 12 + (b[2] - a[2])

\* slice(-n) of a sorted list of months
LastMonths(months, n) ==
    {k \in months : Cardinality({j \in months : Before(k, j)}) < n}

Latest(months) == CHOOSE k \in months : \A j \in months : UpTo(j, k)

\* Days since the first of January of year 1, a Monday; 0 is Sunday, as in getDay.
DaysUpTo(date) ==
    LET y == date[1] - 1
        daysIn(j) == LastDay(<<date[1], j>>)
    IN  365 * y + y \div 4 - y \div 100 + y \div 400
          + MapThenSumSet(daysIn, 1..(date[2] - 1)) + date[3]
WeekdayOf(date) == DaysUpTo(date) % 7

CountWeekdays(k, weekday) ==
    Cardinality({d \in 1..LastDay(k) : WeekdayOf(<<k[1], k[2], d>>) = weekday})
=============================================================================
