------------------------------ MODULE Calendar ------------------------------
(***************************************************************************)
(* The dates of the audit log: the code computes them from the days since  *)
(* the epoch itself (days_to_ymd in services/audit_service.rs), counting   *)
(* the days of a year from the first of March.                             *)
(*                                                                         *)
(* Beside it, the Gregorian calendar by its own rules: which years are     *)
(* leap years, and the days before a year, a month and a day.              *)
(***************************************************************************)
EXTENDS Integers

-----------------------------------------------------------------------------
(***************************************************************************)
(* days_to_ymd.  The numbers are unsigned, and no difference below goes    *)
(* under zero (Unsigned).                                                  *)
(***************************************************************************)
March == 719468   \* days from the first of March of the year 0 to the epoch

\* Mutant: the leap day is taken out one day too late.
YearOfEraLate(doe) == (doe - (doe \div 1461) + (doe \div 36524) - (doe \div 146096)) \div 365

YearOfEra(doe) == (doe - (doe \div 1460) + (doe \div 36524) - (doe \div 146096)) \div 365

BeforeYear(yoe) == 365 * yoe + (yoe \div 4) - (yoe \div 100)

MonthDay(y, doy) ==
    LET mp == (5 * doy + 2) \div 153
        m  == IF mp < 10 THEN mp + 3 ELSE mp - 9
    IN  [year  |-> IF m <= 2 THEN y + 1 ELSE y,
         month |-> m,
         day   |-> doy - ((153 * mp + 2) \div 5) + 1]

DaysToYmd(days) ==
    LET z   == days + March
        era == z \div 146097
        doe == z % 146097
        yoe == YearOfEra(doe)
    IN  MonthDay(yoe + era * 400, doe - BeforeYear(yoe))

-----------------------------------------------------------------------------
(***************************************************************************)
(* The calendar.                                                           *)
(***************************************************************************)
Leap(y) == y % 4 = 0 /\ (y % 100 # 0 \/ y % 400 = 0)

Length(y, m) == CASE m \in {4, 6, 9, 11} -> 30
                  [] m = 2 -> IF Leap(y) THEN 29 ELSE 28
                  [] OTHER -> 31

Date == [year : Nat, month : 1..12, day : 1..31]

\* The dates there are: an admin may also ask for the 30th of February.
RealDate == {t \in Date : t.day <= Length(t.year, t.month)}

\* The day after a date.
After(t) ==
    IF t.day < Length(t.year, t.month) THEN [t EXCEPT !.day = t.day + 1]
    ELSE IF t.month < 12 THEN [year |-> t.year, month |-> t.month + 1, day |-> 1]
    ELSE [year |-> t.year + 1, month |-> 1, day |-> 1]

LeapsBefore(y) == ((y - 1) \div 4) - ((y - 1) \div 100) + ((y - 1) \div 400)

\* The days from the epoch to a date.
DayNumber(t) ==
    365 * (t.year - 1970) + LeapsBefore(t.year) - LeapsBefore(1970)
      + <<0, 31, 59, 90, 120, 151, 181, 212, 243, 273, 304, 334>>[t.month]
      + (IF t.month > 2 /\ Leap(t.year) THEN 1 ELSE 0) + t.day - 1

Epoch == [year |-> 1970, month |-> 1, day |-> 1]
=============================================================================
