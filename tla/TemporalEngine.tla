--------------------------- MODULE TemporalEngine ---------------------------
(* Dates of regulations and what they mean on a day (temporal_engine.py):  *)
(* the tabular Hijri calendar, the written dates that are understood, and  *)
(* the status of a regulation on a day.                                    *)
EXTENDS Integers

-----------------------------------------------------------------------------
(* The Gregorian calendar, as datetime.date knows it.                      *)

Leap(y) == y % 4 = 0 /\ (y % 100 # 0 \/ y % 400 = 0)

DaysOfMonth(y, m) ==
    CASE m = 2 -> IF Leap(y) THEN 29 ELSE 28
      [] m \in {4, 6, 9, 11} -> 30
      [] OTHER -> 31

IsDate(d) == d.m \in 1..12 /\ d.d \in 1..DaysOfMonth(d.y, d.m)

-----------------------------------------------------------------------------
(* Hijri dates, by the Julian day.                                         *)

JulianDayOfLongMonths(y, m, d) ==
    (11 * y + 3) \div 30 + 354 * y + 30 * m - m \div 2 + d + 1948440 - 385

JulianDay(y, m, d) ==
    (11 * y + 3) \div 30 + 354 * y + 30 * m - (m - 1) \div 2 + d + 1948440 - 385

GregorianOfJulianDay(jd) ==
    LET l0 == jd + 68569
        n == (4 * l0) \div 146097
        l1 == l0 - (146097 * n + 3) \div 4
        i == (4000 * (l1 + 1)) \div 1461001
        l2 == l1 - (1461 * i) \div 4 + 31
        j == (80 * l2) \div 2447
    IN  [y |-> 100 * (n - 49) + i + j \div 11,
         m |-> j + 2 - 12 * (j \div 11),
         d |-> l2 - (2447 * j) \div 80]

HijriToGregorian(y, m, d) == GregorianOfJulianDay(JulianDay(y, m, d))

-----------------------------------------------------------------------------
(* A written date is [shape, marked, y, m, d]: year first or day first, in *)
(* figures or with the name of a month of either calendar; the Hijri mark  *)
(* after it is "glued" to its last digit, "apart" from it, or "none".      *)

NoDate == [y |-> 0, m |-> 0, d |-> 0]
Read(calendar, date) == [calendar |-> calendar, date |-> date]
Unknown == Read("unknown", NoDate)

GregorianYear(w) == w.y \in 1900..2099
HijriYear(w) == w.y \in 1300..1499
Written(w) == [y |-> w.y, m |-> w.m, d |-> w.d]

(* Names are looked up after letters are folded, which four of the listed  *)
(* spellings are not: both Jumadas, Dhu al-Qada and Dhu al-Hijja.          *)
Spelled(m) == m \notin {5, 6, 11, 12}

(* A Gregorian pattern that matches an impossible day is passed over; a    *)
(* Hijri one takes any day up to 30. A Hijri date with the day first needs *)
(* the mark, with the year first it does not; the other patterns do not    *)
(* match a number to which the mark is glued.                              *)
ParseDate(w) ==
    LET gregorian == /\ w.shape \in {"y-m-d", "gregorian month", "d/m/y"}
                     /\ w.marked # "glued"
                     /\ GregorianYear(w)
                     /\ IsDate(Written(w))
        hijri == /\ \/ w.shape = "hijri month" /\ Spelled(w.m) /\ w.marked # "glued"
                    \/ w.shape = "y/m/d"
                    \/ w.shape = "d/m/y" /\ w.marked # "none"
                 /\ HijriYear(w)
                 /\ w.d <= 30
    IN  IF hijri THEN Read("hijri", HijriToGregorian(w.y, w.m, w.d))
        ELSE IF gregorian THEN Read("gregorian", Written(w))
        ELSE Unknown

-----------------------------------------------------------------------------
(* The status of a regulation on a day; a date is a day number or Never.   *)
Never == -1

EvaluateFromEffect(publication, effective, repealed, legal_status, grace, day) ==
    IF legal_status = "repealed" THEN "repealed"
    ELSE IF effective # Never /\ day >= effective THEN "currently_effective"
    ELSE IF repealed # Never /\ day >= repealed THEN "repealed"
    ELSE IF publication # Never /\ day < publication THEN "not_yet_published"
    ELSE IF effective # Never /\ day < effective THEN "upcoming_requirement"
    ELSE "currently_effective"

EvaluateTemporalStatus(publication, effective, repealed, legal_status, grace, day) ==
    LET transition == grace > 0 \/ (publication # Never /\ effective > publication)
    IN  IF (repealed # Never /\ day >= repealed) \/ legal_status = "repealed"
        THEN "repealed"
        ELSE IF publication # Never /\ day < publication THEN "not_yet_published"
        ELSE IF effective # Never /\ day < effective
        THEN IF transition THEN "transition_period" ELSE "upcoming_requirement"
        ELSE "currently_effective"

IsApplicable(status) == status = "currently_effective"
=============================================================================
