------------------------------ MODULE MCPages ------------------------------
(***************************************************************************)
(* Instances of Pages for TLC: the end of February of a leap year.         *)
(***************************************************************************)
EXTENDS Pages, TLC

CONSTANTS u1, u2, u3

ThreeUsers == <<u1, u2, u3>>
Actions == {"invite", "disable", "deactivate", "delete"}

Day(y, m, d) == [year |-> y, month |-> m, day |-> d]
LeapStart == Day(2028, 2, 28)
LeapDays == DayNumber(LeapStart)

\* Two entries of the second before.
Was(n, a, u) == [id |-> n, stamp |-> [date |-> Day(2028, 2, 27), part |-> 1], action |-> a,
                 result |-> "success", user |-> u, day |-> Day(2028, 2, 27), at |-> 2 * LeapDays - 1]
TwoEntries == <<Was(10, "disable", u1), Was(11, "invite", u2)>>

NoFilter == [action |-> None, result |-> None, from |-> None, to |-> None]
SomeFilters ==
    {NoFilter, [NoFilter EXCEPT !.from = Day(2028, 2, 29), !.to = Day(2028, 2, 29)],
     [NoFilter EXCEPT !.to = Day(2028, 2, 28), !.result = "failure"],
     [NoFilter EXCEPT !.from = Day(2028, 2, 30), !.action = "disable"]}
=============================================================================
