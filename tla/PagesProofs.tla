----------------------------- MODULE PagesProofs -----------------------------
(***************************************************************************)
(* What the admins read is true: proofs about Pages and the modules under  *)
(* it.                                                                     *)
(*                                                                         *)
(* First the calendar: days_to_ymd is the Gregorian one on every day since *)
(* the epoch.  Its divisions are replaced by what bounds a quotient, which *)
(* leaves linear arithmetic.  Then the order of the log, the types, and    *)
(* the properties one by one.                                              *)
(***************************************************************************)
EXTENDS Pages, FilterProofs, FiniteSetTheorems, TLAPS

-----------------------------------------------------------------------------
(***************************************************************************)
(* The years of an era of 400 years, each from the first of March.         *)
(***************************************************************************)
LEMMA YearBounds ==
    ASSUME NEW doe \in Int, NEW a \in Int, NEW b \in Int, NEW c \in Int, NEW y \in Int,
           NEW e \in Int, NEW f \in Int,
           0 <= doe, doe <= 146096,
           1460 * a <= doe, doe < 1460 * a + 1460,
           36524 * b <= doe, doe < 36524 * b + 36524,
           146096 * c <= doe, doe < 146096 * c + 146096,
           365 * y <= doe - a + b - c, doe - a + b - c < 365 * y + 365,
           4 * e <= y, y < 4 * e + 4,
           100 * f <= y, y < 100 * f + 100
    PROVE  /\ 0 <= y /\ y <= 399
           /\ 365 * y + e - f <= doe /\ doe <= 365 * y + e - f + 365
<1>1. 0 <= y /\ y <= 399  BY Z3T(60)
<1>2. 365 * y + e - f <= doe /\ doe <= 365 * y + e - f + 365  BY Z3T(60)
<1>3. QED  BY <1>1, <1>2

LEMMA LastDay ==
    ASSUME NEW doe \in Int, NEW a \in Int, NEW b \in Int, NEW c \in Int, NEW y \in Int,
           NEW e \in Int, NEW f \in Int, NEW e1 \in Int, NEW f1 \in Int,
           0 <= doe, doe <= 146096,
           1460 * a <= doe, doe < 1460 * a + 1460,
           36524 * b <= doe, doe < 36524 * b + 36524,
           146096 * c <= doe, doe < 146096 * c + 146096,
           365 * y <= doe - a + b - c, doe - a + b - c < 365 * y + 365,
           4 * e <= y, y < 4 * e + 4,
           100 * f <= y, y < 100 * f + 100,
           4 * e1 <= y + 1, y + 1 < 4 * e1 + 4,
           100 * f1 <= y + 1, y + 1 < 100 * f1 + 100,
           doe = 365 * y + e - f + 365
    PROVE  y + 1 = 4 * e1 /\ (y + 1 # 100 * f1 \/ y + 1 = 400)
BY Z3T(90)

\* What a quotient is.
LEMMA Quotient ==
    ASSUME NEW n \in Int, NEW k \in {4, 100, 365, 1460, 36524, 146096}
    PROVE  n \div k \in Int /\ k * (n \div k) <= n /\ n < k * (n \div k) + k
BY SMTT(30)

\* A year with a leap day at its end, within an era.
Long(y) == (y + 1) % 4 = 0 /\ ((y + 1) % 100 # 0 \/ y = 399)

LEMMA Year ==
    ASSUME NEW doe \in Nat, doe <= 146096
    PROVE  /\ YearOfEra(doe) \in Nat /\ YearOfEra(doe) <= 399
           /\ BeforeYear(YearOfEra(doe)) \in Int
           /\ BeforeYear(YearOfEra(doe)) <= doe
           /\ doe <= BeforeYear(YearOfEra(doe)) + 365
           /\ doe = BeforeYear(YearOfEra(doe)) + 365 => Long(YearOfEra(doe))
<1> DEFINE a == doe \div 1460
           b == doe \div 36524
           c == doe \div 146096
           y == (doe - a + b - c) \div 365
           e == y \div 4
           f == y \div 100
           e1 == (y + 1) \div 4
           f1 == (y + 1) \div 100
<1>1. a \in Int /\ 1460 * a <= doe /\ doe < 1460 * a + 1460  BY Quotient
<1>2. b \in Int /\ 36524 * b <= doe /\ doe < 36524 * b + 36524  BY Quotient
<1>3. c \in Int /\ 146096 * c <= doe /\ doe < 146096 * c + 146096  BY Quotient
<1>4. doe - a + b - c \in Int  BY <1>1, <1>2, <1>3
<1>5. y \in Int /\ 365 * y <= doe - a + b - c /\ doe - a + b - c < 365 * y + 365
      BY <1>4, Quotient
<1>6. e \in Int /\ 4 * e <= y /\ y < 4 * e + 4  BY <1>5, Quotient
<1>7. f \in Int /\ 100 * f <= y /\ y < 100 * f + 100  BY <1>5, Quotient
<1>8. e1 \in Int /\ 4 * e1 <= y + 1 /\ y + 1 < 4 * e1 + 4  BY <1>5, Quotient
<1>9. f1 \in Int /\ 100 * f1 <= y + 1 /\ y + 1 < 100 * f1 + 100  BY <1>5, Quotient
<1>10. YearOfEra(doe) = y /\ BeforeYear(y) = 365 * y + e - f  BY DEF YearOfEra, BeforeYear
<1>11. (y + 1 = 4 * e1 => (y + 1) % 4 = 0) /\ (y + 1 # 100 * f1 => (y + 1) % 100 # 0)
       BY <1>5, <1>8, <1>9
<1> HIDE DEF a, b, c, y, e, f, e1, f1
<1>12. /\ 0 <= y /\ y <= 399
       /\ 365 * y + e - f <= doe /\ doe <= 365 * y + e - f + 365
       BY <1>1, <1>2, <1>3, <1>5, <1>6, <1>7, YearBounds
<1>13. ASSUME doe = 365 * y + e - f + 365
       PROVE  y + 1 = 4 * e1 /\ (y + 1 # 100 * f1 \/ y + 1 = 400)
       BY <1>1, <1>2, <1>3, <1>5, <1>6, <1>7, <1>8, <1>9, <1>13, LastDay
<1>14. QED  BY <1>5, <1>6, <1>7, <1>10, <1>11, <1>12, <1>13 DEF Long

LEMMA YearLength ==
    ASSUME NEW y \in Nat, y <= 399
    PROVE  /\ BeforeYear(y) \in Int /\ BeforeYear(y + 1) \in Int
           /\ y < 399 => BeforeYear(y + 1) = BeforeYear(y) + (IF Long(y) THEN 366 ELSE 365)
           /\ y = 399 => BeforeYear(y) = 145731
BY SMTT(30) DEF BeforeYear, Long

LEMMA YearsGrow ==
    ASSUME NEW y \in Nat, NEW z \in Nat, z <= 400, y < z
    PROVE  BeforeYear(y + 1) \in Int /\ BeforeYear(z) \in Int /\ BeforeYear(y + 1) <= BeforeYear(z)
BY SMTT(60) DEF BeforeYear

\* A day later within an era is a day later in the year, or the first of the next.
LEMMA NextInEra ==
    ASSUME NEW doe \in Nat, doe < 146096
    PROVE  LET y == YearOfEra(doe)
               n == doe - BeforeYear(y)
           IN  \/ /\ YearOfEra(doe + 1) = y /\ n < 365
                  /\ n = 364 => Long(y)
               \/ /\ y < 399 /\ YearOfEra(doe + 1) = y + 1
                  /\ doe + 1 = BeforeYear(y + 1)
                  /\ n = IF Long(y) THEN 365 ELSE 364
<1> DEFINE y == YearOfEra(doe)
           z == YearOfEra(doe + 1)
<1>1. /\ y \in Nat /\ y <= 399 /\ BeforeYear(y) \in Int
      /\ BeforeYear(y) <= doe /\ doe <= BeforeYear(y) + 365
      /\ doe = BeforeYear(y) + 365 => Long(y)
      BY Year
<1>2. /\ z \in Nat /\ z <= 399 /\ BeforeYear(z) \in Int
      /\ BeforeYear(z) <= doe + 1 /\ doe + 1 <= BeforeYear(z) + 365
      /\ doe + 1 = BeforeYear(z) + 365 => Long(z)
      BY Year
<1> HIDE DEF y, z
<1>3. /\ BeforeYear(y + 1) \in Int
      /\ y < 399 => BeforeYear(y + 1) = BeforeYear(y) + (IF Long(y) THEN 366 ELSE 365)
      /\ y = 399 => BeforeYear(y) = 145731
      BY <1>1, YearLength
<1>4. /\ BeforeYear(z + 1) \in Int
      /\ z < 399 => BeforeYear(z + 1) = BeforeYear(z) + (IF Long(z) THEN 366 ELSE 365)
      /\ z = 399 => BeforeYear(z) = 145731
      BY <1>2, YearLength
<1>5. ~(z < y)
  <2>1. SUFFICES ASSUME z < y PROVE FALSE  OBVIOUS
  <2>2. BeforeYear(z + 1) <= BeforeYear(y)  BY <1>1, <1>2, <2>1, YearsGrow
  <2>3. doe + 1 < BeforeYear(z + 1)  BY <1>1, <1>2, <1>4, <2>1, SMTT(20)
  <2>4. QED  BY <1>1, <1>4, <2>2, <2>3, SMTT(20)
<1>6. ~(y + 1 < z)
  <2>1. SUFFICES ASSUME y + 1 < z PROVE FALSE  OBVIOUS
  <2>2. BeforeYear(y + 2) <= BeforeYear(z)  BY <1>1, <1>2, <2>1, YearsGrow, SMTT(20)
  <2>3. BeforeYear(y + 1) + 365 <= BeforeYear(y + 2) /\ BeforeYear(y + 2) \in Int
        BY <1>1, <1>2, <2>1, YearLength, SMTT(20)
  <2>4. doe < BeforeYear(y + 1)  BY <1>1, <1>2, <1>3, <2>1, SMTT(20)
  <2>5. QED  BY <1>1, <1>2, <1>3, <2>2, <2>3, <2>4, SMTT(20)
<1>7. CASE z = y
  <2>1. doe - BeforeYear(y) < 365  BY <1>1, <1>2, <1>7, SMTT(20)
  <2>2. doe - BeforeYear(y) = 364 => Long(y)  BY <1>1, <1>2, <1>7, SMTT(20)
  <2>3. QED  BY <1>7, <2>1, <2>2 DEF y, z
<1>8. CASE z = y + 1
  <2>1. y < 399  BY <1>2, <1>8, <1>1, SMTT(20)
  <2>2. doe + 1 = BeforeYear(y + 1)
        BY <1>1, <1>2, <1>3, <1>8, <2>1, SMTT(20)
  <2>3. doe - BeforeYear(y) = IF Long(y) THEN 365 ELSE 364
        BY <1>1, <1>3, <2>1, <2>2, SMTT(20)
  <2>4. QED  BY <1>8, <2>1, <2>2, <2>3 DEF y, z
<1>9. QED  BY <1>1, <1>2, <1>5, <1>6, <1>7, <1>8, SMTT(20)

\* The last day of an era, and the first.
LEMMA EraEnds ==
    /\ YearOfEra(146096) = 399 /\ 146096 - BeforeYear(399) = 365
    /\ YearOfEra(0) = 0 /\ BeforeYear(0) = 0
BY SMTT(30) DEF YearOfEra, BeforeYear

-----------------------------------------------------------------------------
(***************************************************************************)
(* The months of a year from March.                                        *)
(***************************************************************************)
\* The days of a year before its month mp.
Before(mp) == (153 * mp + 2) \div 5

LEMMA Month ==
    ASSUME NEW n \in Nat, n <= 365
    PROVE  LET mp == (5 * n + 2) \div 153 IN
           mp \in 0..11 /\ Before(mp) <= n /\ (mp < 11 => n < Before(mp + 1))
BY SMTT(60) DEF Before

LEMMA Befores ==
    /\ Before(0) = 0 /\ Before(1) = 31 /\ Before(2) = 61 /\ Before(3) = 92
    /\ Before(4) = 122 /\ Before(5) = 153 /\ Before(6) = 184 /\ Before(7) = 214
    /\ Before(8) = 245 /\ Before(9) = 275 /\ Before(10) = 306 /\ Before(11) = 337
BY SMTT(30) DEF Before

\* The number of the month mp, and its year.
Number(mp) == IF mp < 10 THEN mp + 3 ELSE mp - 9
In(y, mp) == IF mp < 10 THEN y ELSE y + 1

LEMMA MonthIs ==
    ASSUME NEW y \in Nat, NEW n \in Nat, NEW q \in 0..11, n <= 365,
           Before(q) <= n, q < 11 => n < Before(q + 1)
    PROVE  MonthDay(y, n) = [year |-> In(y, q), month |-> Number(q), day |-> n - Before(q) + 1]
<1> DEFINE mp == (5 * n + 2) \div 153
<1>1. mp = q  BY SMTT(60) DEF Before
<1>2. MonthDay(y, n) = [year  |-> IF Number(mp) <= 2 THEN y + 1 ELSE y, month |-> Number(mp),
                        day |-> n - Before(mp) + 1]
      BY DEF MonthDay, Number, Before
<1> HIDE DEF mp
<1>3. (IF Number(q) <= 2 THEN y + 1 ELSE y) = In(y, q)  BY SMTT(20) DEF Number, In
<1>4. QED  BY <1>1, <1>2, <1>3

LEMMA Lengths ==
    ASSUME NEW q \in 0..11, NEW y \in Nat
    PROVE  /\ q < 11 => Length(y, Number(q)) = Before(q + 1) - Before(q)
           /\ q = 11 => Length(y, Number(q)) = IF Leap(y) THEN 29 ELSE 28
           /\ Number(q) = 12 => q = 9
           /\ Number(q) \in 1..12
<1>1. CASE q = 11  BY <1>1, SMTT(20) DEF Length, Number
<1>2. CASE q \in 0..10
  <2>1. q \in {0, 1, 2, 3, 4, 5, 6, 7, 8, 9, 10}  BY <1>2
  <2>2. Length(y, Number(q)) = Before(q + 1) - Before(q)
        BY <2>1, Befores, SMTT(30) DEF Length, Number
  <2>3. QED  BY <1>2, <2>2, SMTT(20) DEF Number
<1>3. QED  BY <1>1, <1>2

LEMMA NextInYear ==
    ASSUME NEW y \in Nat, NEW n \in Nat, n < 365, n = 364 => Leap(y + 1)
    PROVE  MonthDay(y, n + 1) = After(MonthDay(y, n))
<1> DEFINE q == (5 * n + 2) \div 153
           t == MonthDay(y, n)
<1>1. q \in 0..11 /\ Before(q) <= n /\ (q < 11 => n < Before(q + 1))  BY Month
<1> HIDE DEF q
<1>2. t = [year |-> In(y, q), month |-> Number(q), day |-> n - Before(q) + 1]  BY <1>1, MonthIs
<1>3. In(y, q) \in Nat /\ Before(q) \in Int /\ Before(q + 1) \in Int
      BY <1>1, SMTT(20) DEF In, Before
<1>4. /\ q < 11 => Length(In(y, q), Number(q)) = Before(q + 1) - Before(q)
      /\ q = 11 => Length(In(y, q), Number(q)) = IF Leap(In(y, q)) THEN 29 ELSE 28
      /\ Number(q) = 12 => q = 9
      /\ Number(q) \in 1..12
      BY <1>1, <1>3, Lengths
<1>5. CASE q = 11 \/ n + 1 < Before(q + 1)
  <2>1. MonthDay(y, n + 1) = [year |-> In(y, q), month |-> Number(q), day |-> n + 1 - Before(q) + 1]
        BY <1>1, <1>3, <1>5, MonthIs, SMTT(30)
  <2>2. q = 11 => Before(q) = 337 /\ In(y, q) = y + 1  BY Befores DEF In
  <2>3. n - Before(q) + 1 < Length(In(y, q), Number(q))  BY <1>1, <1>3, <1>4, <1>5, <2>2, SMTT(30)
  <2>4. After(t) = [t EXCEPT !.day = t.day + 1]  BY <1>2, <2>3 DEF After
  <2>5. n - Before(q) + 1 + 1 = n + 1 - Before(q) + 1  BY <1>3, SMTT(10)
  <2>6. QED  BY <1>2, <2>1, <2>4, <2>5
<1>6. CASE q < 11 /\ n + 1 = Before(q + 1)
  <2>1. q + 1 \in 0..11 /\ (q + 1 < 11 => n + 1 < Before(q + 2))
        BY <1>1, <1>6, SMTT(30) DEF Before
  <2>2. q + 1 + 1 = q + 2  BY <1>1
  <2>3. MonthDay(y, n + 1) =
            [year |-> In(y, q + 1), month |-> Number(q + 1), day |-> n + 1 - Before(q + 1) + 1]
        BY <1>3, <1>6, <2>1, <2>2, MonthIs, SMTT(30)
  <2>4. n + 1 - Before(q + 1) + 1 = 1  BY <1>3, <1>6, SMTT(10)
  <2>5. ~(t.day < Length(t.year, t.month))  BY <1>2, <1>3, <1>4, <1>6, SMTT(20)
  <2>6. CASE q = 9
    <3>1. In(y, q + 1) = In(y, q) + 1 /\ Number(q) = 12 /\ Number(q + 1) = 1  BY <2>6 DEF In, Number
    <3>2. QED  BY <1>2, <2>3, <2>4, <2>5, <3>1, SMTT(20) DEF After
  <2>7. CASE q # 9
    <3>1. In(y, q + 1) = In(y, q) /\ Number(q + 1) = Number(q) + 1
          BY <1>1, <1>6, <2>7, SMTT(20) DEF In, Number
    <3>2. Number(q) < 12  BY <1>4, <2>7
    <3>3. QED  BY <1>2, <2>3, <2>4, <2>5, <3>1, <3>2, SMTT(20) DEF After
  <2>8. QED  BY <2>6, <2>7
<1>7. QED  BY <1>1, <1>3, <1>5, <1>6, SMTT(20)

LEMMA NextYear ==
    ASSUME NEW y \in Nat, NEW n \in Nat, n = IF Leap(y + 1) THEN 365 ELSE 364
    PROVE  MonthDay(y + 1, 0) = After(MonthDay(y, n))
<1>1. MonthDay(y + 1, 0) = [year |-> y + 1, month |-> 3, day |-> 1]
  <2>1. Before(0) = 0 /\ Before(0 + 1) = 31  BY Befores
  <2>2. MonthDay(y + 1, 0) = [year |-> In(y + 1, 0), month |-> Number(0), day |-> 0 - Before(0) + 1]
        BY <2>1, MonthIs, SMTT(20)
  <2>3. In(y + 1, 0) = y + 1 /\ Number(0) = 3 /\ 0 - Before(0) + 1 = 1
        BY <2>1, SMTT(20) DEF In, Number
  <2>4. QED  BY <2>2, <2>3
<1>2. MonthDay(y, n) = [year |-> y + 1, month |-> 2, day |-> n - 337 + 1]
  <2>1. Before(11) = 337 /\ n <= 365 /\ 337 <= n  BY Befores
  <2>2. MonthDay(y, n) = [year |-> In(y, 11), month |-> Number(11), day |-> n - Before(11) + 1]
        BY <2>1, MonthIs, SMTT(20)
  <2>3. In(y, 11) = y + 1 /\ Number(11) = 2 BY SMTT(20) DEF In, Number
  <2>4. QED  BY <2>1, <2>2, <2>3
<1>3. Length(y + 1, 2) = n - 337 + 1  BY SMTT(30) DEF Length
<1>4. QED  BY <1>1, <1>2, <1>3, SMTT(30) DEF After

-----------------------------------------------------------------------------
(***************************************************************************)
(* The calendar.                                                           *)
(***************************************************************************)
LEMMA LongIsLeap ==
    ASSUME NEW y \in Nat, y <= 399, NEW era \in Nat
    PROVE  Long(y) <=> Leap(y + era * 400 + 1)
BY SMTT(60) DEF Long, Leap

LEMMA YmdOf ==
    ASSUME NEW d \in Nat, NEW era \in Nat, NEW doe \in Nat,
           (d + March) \div 146097 = era, (d + March) % 146097 = doe
    PROVE  DaysToYmd(d) =
               MonthDay(YearOfEra(doe) + era * 400, doe - BeforeYear(YearOfEra(doe)))
BY SMTT(20) DEF DaysToYmd

\* The days of an era but the last, and the last.
LEMMA SameEra ==
    ASSUME NEW d \in Nat, NEW e \in Nat, NEW era \in Nat, NEW doe \in Nat, NEW o \in Nat,
           (d + March) \div 146097 = era, (d + March) % 146097 = doe,
           (e + March) \div 146097 = era, (e + March) % 146097 = o,
           doe < 146096, o = doe + 1
    PROVE  DaysToYmd(e) = After(DaysToYmd(d))
<1> DEFINE y == YearOfEra(doe)
           n == doe - BeforeYear(y)
           z == YearOfEra(o)
<1>1. DaysToYmd(d) = MonthDay(y + era * 400, n)  BY YmdOf
<1>2. DaysToYmd(e) = MonthDay(z + era * 400, o - BeforeYear(z))  BY YmdOf
<1>3. y \in Nat /\ y <= 399 /\ BeforeYear(y) \in Int /\ n \in Nat /\ n <= 365  BY Year, SMTT(20)
<1>4. \/ z = y /\ n < 365 /\ (n = 364 => Long(y))
      \/ z = y + 1 /\ o = BeforeYear(y + 1) /\ n = IF Long(y) THEN 365 ELSE 364
      BY NextInEra
<1>5. Long(y) <=> Leap(y + era * 400 + 1)  BY <1>3, LongIsLeap
<1>6. n = doe - BeforeYear(y)  OBVIOUS
<1> HIDE DEF y, n, z
<1>7. y + era * 400 \in Nat  BY <1>3, SMTT(20)
<1>8. CASE z = y /\ n < 365 /\ (n = 364 => Long(y))
  <2>1. o - BeforeYear(z) = n + 1  BY <1>3, <1>6, <1>8, SMTT(20)
  <2>2. MonthDay(y + era * 400, n + 1) = After(MonthDay(y + era * 400, n))
        BY <1>3, <1>5, <1>7, <1>8, NextInYear, SMTT(20)
  <2>3. QED  BY <1>1, <1>2, <1>8, <2>1, <2>2
<1>9. CASE z = y + 1 /\ o = BeforeYear(y + 1) /\ n = IF Long(y) THEN 365 ELSE 364
  <2>1. o - BeforeYear(z) = 0  BY <1>9, SMTT(20)
  <2>2. z + era * 400 = (y + era * 400) + 1  BY <1>3, <1>9, SMTT(20)
  <2>3. MonthDay(y + era * 400 + 1, 0) = After(MonthDay(y + era * 400, n))
        BY <1>3, <1>5, <1>7, <1>9, NextYear, SMTT(20)
  <2>4. QED  BY <1>1, <1>2, <2>1, <2>2, <2>3
<1>10. QED  BY <1>4, <1>8, <1>9

LEMMA NextEra ==
    ASSUME NEW d \in Nat, NEW e \in Nat, NEW era \in Nat, NEW f \in Nat,
           (d + March) \div 146097 = era, (d + March) % 146097 = 146096,
           (e + March) \div 146097 = f, (e + March) % 146097 = 0, f = era + 1
    PROVE  DaysToYmd(e) = After(DaysToYmd(d))
<1>1. DaysToYmd(d) = MonthDay(399 + era * 400, 365)
  <2>1. DaysToYmd(d) =
            MonthDay(YearOfEra(146096) + era * 400, 146096 - BeforeYear(YearOfEra(146096)))
        BY YmdOf, SMTT(20)
  <2>2. QED  BY <2>1, EraEnds, SMTT(20)
<1>2. DaysToYmd(e) = MonthDay(0 + f * 400, 0)
  <2>1. DaysToYmd(e) = MonthDay(YearOfEra(0) + f * 400, 0 - BeforeYear(YearOfEra(0)))
        BY YmdOf, SMTT(20)
  <2>2. QED  BY <2>1, EraEnds, SMTT(20)
<1>3. Leap((399 + era * 400) + 1)  BY SMTT(20) DEF Leap
<1>4. 399 + era * 400 \in Nat  BY SMTT(20)
<1>5. MonthDay((399 + era * 400) + 1, 0) = After(MonthDay(399 + era * 400, 365))
      BY <1>3, <1>4, NextYear, SMTT(20)
<1>6. 0 + f * 400 = (399 + era * 400) + 1  BY SMTT(20)
<1>7. QED  BY <1>1, <1>2, <1>5, <1>6, SMTT(20)

\* days_to_ymd: day zero is the epoch, and every day is followed by the next by the
\* rules of the Gregorian calendar, through every leap year and century.
THEOREM DatesAdvance ==
    /\ DaysToYmd(0) = Epoch
    /\ \A d \in Nat : DaysToYmd(d + 1) = After(DaysToYmd(d))
<1>1. DaysToYmd(0) = Epoch
  <2>1. (0 + March) \div 146097 = 4 /\ (0 + March) % 146097 = 135080  BY SMTT(20) DEF March
  <2>2. YearOfEra(135080) = 369 /\ BeforeYear(369) = 134774  BY SMTT(20) DEF YearOfEra, BeforeYear
  <2>3. MonthDay(1969, 306) = [year |-> 1970, month |-> 1, day |-> 1]
    <3>1. Before(10) = 306 /\ Before(10 + 1) = 337  BY Befores
    <3>2. MonthDay(1969, 306) =
              [year |-> In(1969, 10), month |-> Number(10), day |-> 306 - Before(10) + 1]
          BY <3>1, MonthIs, SMTT(20)
    <3>3. In(1969, 10) = 1970 /\ Number(10) = 1 /\ 306 - Before(10) + 1 = 1
          BY <3>1, SMTT(20) DEF In, Number
    <3>4. QED  BY <3>2, <3>3
  <2>4. DaysToYmd(0) = MonthDay(YearOfEra(135080) + 4 * 400, 135080 - BeforeYear(YearOfEra(135080)))
        BY <2>1, YmdOf, SMTT(20)
  <2>5. YearOfEra(135080) + 4 * 400 = 1969 /\ 135080 - BeforeYear(YearOfEra(135080)) = 306
        BY <2>2, SMTT(20)
  <2>6. QED  BY <2>3, <2>4, <2>5 DEF Epoch
<1>2. ASSUME NEW d \in Nat PROVE DaysToYmd(d + 1) = After(DaysToYmd(d))
  <2>1. PICK era \in Nat, doe \in Nat :
            doe <= 146096 /\ (d + March) \div 146097 = era /\ (d + March) % 146097 = doe
        BY SMTT(30) DEF March
  <2>2. CASE doe < 146096
    <3>1. (d + 1 + March) \div 146097 = era /\ (d + 1 + March) % 146097 = doe + 1
          BY <2>1, <2>2, SMTT(30) DEF March
    <3>2. QED  BY <2>1, <2>2, <3>1, SameEra, SMTT(20)
  <2>3. CASE doe = 146096
    <3>1. (d + 1 + March) \div 146097 = era + 1 /\ (d + 1 + March) % 146097 = 0
          BY <2>1, <2>3, SMTT(30) DEF March
    <3>2. QED  BY <2>1, <2>3, <3>1, NextEra, SMTT(20)
  <2>4. QED  BY <2>1, <2>2, <2>3, SMTT(20)
<1>3. QED  BY <1>1, <1>2

-----------------------------------------------------------------------------
(***************************************************************************)
(* The days from the epoch to a date, by the rules of the calendar.        *)
(***************************************************************************)
LEMMA LeapsStep ==
    ASSUME NEW y \in Nat
    PROVE  LeapsBefore(y) \in Int /\ LeapsBefore(y + 1) = LeapsBefore(y) + (IF Leap(y) THEN 1 ELSE 0)
BY SMTT(60) DEF LeapsBefore, Leap

LEMMA LeapsGrow ==
    ASSUME NEW y \in Nat, NEW z \in Nat, y < z
    PROVE  LeapsBefore(y + 1) <= LeapsBefore(z) /\ LeapsBefore(z) \in Int /\ LeapsBefore(y + 1) \in Int
BY SMTT(60) DEF LeapsBefore

\* The days of a year before the first of a month.
Passed(y, m) ==
    <<0, 31, 59, 90, 120, 151, 181, 212, 243, 273, 304, 334>>[m] + (IF m > 2 /\ Leap(y) THEN 1 ELSE 0)

LEMMA PassedType ==
    ASSUME NEW y \in Nat, NEW m \in 1..12
    PROVE  Passed(y, m) \in Nat /\ Length(y, m) \in 28..31
BY SMTT(60) DEF Passed, Length

LEMMA PassedNext ==
    ASSUME NEW y \in Nat, NEW m \in 1..12, NEW n \in 1..12, n = m + 1
    PROVE  Passed(y, n) = Passed(y, m) + Length(y, m)
BY SMTT(60) DEF Passed, Length

LEMMA PassedEnds ==
    ASSUME NEW y \in Nat
    PROVE  Passed(y, 1) = 0 /\ Passed(y, 12) + Length(y, 12) = IF Leap(y) THEN 366 ELSE 365
BY SMTT(60) DEF Passed, Length

LEMMA PassedGrow ==
    ASSUME NEW y \in Nat, NEW m \in 1..12, NEW n \in 1..12, m < n
    PROVE  Passed(y, m) + Length(y, m) <= Passed(y, n)
BY SMTT(60) DEF Passed, Length

LEMMA PassedAll ==
    ASSUME NEW y \in Nat, NEW m \in 1..12
    PROVE  Passed(y, m) + Length(y, m) <= IF Leap(y) THEN 366 ELSE 365
BY SMTT(60) DEF Passed, Length

\* The days from the epoch to the first of a month.
DaysTo(y, m) == 365 * (y - 1970) + LeapsBefore(y) - LeapsBefore(1970) + Passed(y, m)

Dated(y, m, d) == [year |-> y, month |-> m, day |-> d]

LEMMA DaysToType ==
    ASSUME NEW y \in Nat, NEW m \in 1..12
    PROVE  DaysTo(y, m) \in Int /\ Length(y, m) \in 28..31
<1>1. Passed(y, m) \in Nat /\ Length(y, m) \in 28..31
  BY PassedType
<1>2. LeapsBefore(y) \in Int /\ LeapsBefore(1970) \in Int
  BY LeapsStep
<1>3. QED
  BY <1>1, <1>2 DEF DaysTo

LEMMA DaysToMonth ==
    ASSUME NEW y \in Nat, NEW m \in 1..12, NEW n \in 1..12, n = m + 1
    PROVE  DaysTo(y, n) = DaysTo(y, m) + Length(y, m)
<1>1. Passed(y, m) \in Nat /\ Length(y, m) \in 28..31
  BY PassedType
<1>2. LeapsBefore(y) \in Int /\ LeapsBefore(1970) \in Int
  BY LeapsStep
<1>3. Passed(y, n) = Passed(y, m) + Length(y, m)
  BY PassedNext
<1>4. QED
  BY <1>1, <1>2, <1>3 DEF DaysTo

LEMMA DaysToYear ==
    ASSUME NEW y \in Nat, NEW z \in Nat, z = y + 1
    PROVE  DaysTo(z, 1) = DaysTo(y, 12) + Length(y, 12)
<1>1. 1 \in 1..12 /\ 12 \in 1..12
  OBVIOUS
<1>2. Passed(y, 12) \in Nat /\ Length(y, 12) \in 28..31
  BY <1>1, PassedType
<1>3. LeapsBefore(y) \in Int /\ LeapsBefore(1970) \in Int
  BY LeapsStep
<1>4. LeapsBefore(z) = LeapsBefore(y) + (IF Leap(y) THEN 1 ELSE 0)
  BY LeapsStep
<1>5. Passed(z, 1) = 0
  BY PassedEnds
<1>6. Passed(y, 12) + Length(y, 12) = IF Leap(y) THEN 366 ELSE 365
  BY PassedEnds
<1>7. QED
  BY <1>2, <1>3, <1>4, <1>5, <1>6 DEF DaysTo

LEMMA DaysToGrow ==
    ASSUME NEW y \in Nat, NEW m \in 1..12, NEW z \in Nat, NEW n \in 1..12,
           y < z \/ (y = z /\ m < n)
    PROVE  DaysTo(y, m) + Length(y, m) <= DaysTo(z, n)
<1>1. /\ Passed(y, m) \in Nat /\ Length(y, m) \in 28..31
      /\ Passed(z, n) \in Nat
  BY PassedType
<1>2. LeapsBefore(y) \in Int /\ LeapsBefore(z) \in Int /\ LeapsBefore(1970) \in Int
  BY LeapsStep
<1>3. CASE y < z
  <2>1. LeapsBefore(y + 1) = LeapsBefore(y) + (IF Leap(y) THEN 1 ELSE 0)
    BY LeapsStep
  <2>2. LeapsBefore(y + 1) <= LeapsBefore(z)
    BY <1>3, LeapsGrow
  <2>3. Passed(y, m) + Length(y, m) <= IF Leap(y) THEN 366 ELSE 365
    BY PassedAll
  <2>4. QED
    BY <1>1, <1>2, <1>3, <2>1, <2>2, <2>3 DEF DaysTo
<1>4. CASE y = z /\ m < n
  <2>1. Passed(y, m) + Length(y, m) <= Passed(y, n)
    BY <1>4, PassedGrow
  <2>2. QED
    BY <1>1, <1>2, <1>4, <2>1 DEF DaysTo
<1>5. QED
  BY <1>3, <1>4

\* The dates there are, and the days to them.
LEMMA DateOf ==
    ASSUME NEW y \in Nat, NEW m \in 1..12, NEW d \in 1..31, d <= Length(y, m)
    PROVE  Dated(y, m, d) \in RealDate /\ DayNumber(Dated(y, m, d)) = DaysTo(y, m) + d - 1
<1> DEFINE t == [year |-> y, month |-> m, day |-> d]
<1>1. t \in Date /\ t.year = y /\ t.month = m /\ t.day = d
  BY DEF Date
<1>2. t \in RealDate
  BY <1>1 DEF RealDate
<1>3. LeapsBefore(y) \in Int /\ LeapsBefore(1970) \in Int
  BY LeapsStep
<1>4. <<0, 31, 59, 90, 120, 151, 181, 212, 243, 273, 304, 334>>[m] \in Int
  OBVIOUS
<1> HIDE DEF t
<1>5. DayNumber(t) = DaysTo(y, m) + d - 1
  BY <1>1, <1>3, <1>4 DEF DayNumber, DaysTo, Passed
<1>6. QED
  BY <1>2, <1>5 DEF t, Dated

LEMMA DateIs ==
    ASSUME NEW t \in RealDate
    PROVE  /\ t.year \in Nat /\ t.month \in 1..12 /\ t.day \in 1..31
           /\ t.day <= Length(t.year, t.month)
           /\ t = Dated(t.year, t.month, t.day)
           /\ DayNumber(t) = DaysTo(t.year, t.month) + t.day - 1
<1>1. /\ t.year \in Nat /\ t.month \in 1..12 /\ t.day \in 1..31
      /\ t.day <= Length(t.year, t.month)
      /\ t = Dated(t.year, t.month, t.day)
  BY DEF RealDate, Date, Dated
<1>2. DayNumber(Dated(t.year, t.month, t.day)) = DaysTo(t.year, t.month) + t.day - 1
  BY <1>1, DateOf
<1>3. QED
  BY <1>1, <1>2

\* The day after a date there is.
LEMMA AfterIs ==
    ASSUME NEW t \in RealDate
    PROVE  After(t) \in RealDate /\ DayNumber(After(t)) = DayNumber(t) + 1
<1> DEFINE y == t.year
           m == t.month
           d == t.day
<1>1. /\ y \in Nat /\ m \in 1..12 /\ d \in 1..31 /\ d <= Length(y, m)
      /\ t = Dated(y, m, d) /\ DayNumber(t) = DaysTo(y, m) + d - 1
  BY DateIs
<1>2. DaysTo(y, m) \in Int /\ Length(y, m) \in 28..31
  BY <1>1, DaysToType
<1>3. /\ d < Length(y, m) => After(t) = Dated(y, m, d + 1)
      /\ ~(d < Length(y, m)) /\ m < 12 => After(t) = Dated(y, m + 1, 1)
      /\ ~(d < Length(y, m)) /\ ~(m < 12) => After(t) = Dated(y + 1, 1, 1)
  BY <1>1 DEF After, Dated
<1> HIDE DEF y, m, d
<1>4. CASE d < Length(y, m)
  <2>1. d + 1 \in 1..31 /\ d + 1 <= Length(y, m)
    BY <1>1, <1>2, <1>4
  <2>2. Dated(y, m, d + 1) \in RealDate /\ DayNumber(Dated(y, m, d + 1)) = DaysTo(y, m) + (d + 1) - 1
    BY <1>1, <2>1, DateOf
  <2>3. DaysTo(y, m) + (d + 1) - 1 = DaysTo(y, m) + d - 1 + 1
    BY <1>1, <1>2
  <2>4. QED
    BY <1>1, <1>3, <1>4, <2>2, <2>3
<1>5. CASE ~(d < Length(y, m)) /\ m < 12
  <2>1. m + 1 \in 1..12 /\ d = Length(y, m) /\ 1 \in 1..31
    BY <1>1, <1>2, <1>5
  <2>2. Length(y, m + 1) \in 28..31 /\ DaysTo(y, m + 1) \in Int
    BY <1>1, <2>1, DaysToType
  <2>3. Dated(y, m + 1, 1) \in RealDate /\ DayNumber(Dated(y, m + 1, 1)) = DaysTo(y, m + 1) + 1 - 1
    BY <1>1, <2>1, <2>2, DateOf
  <2>4. DaysTo(y, m + 1) = DaysTo(y, m) + Length(y, m)
    BY <1>1, <2>1, DaysToMonth
  <2>5. DaysTo(y, m + 1) + 1 - 1 = DaysTo(y, m) + d - 1 + 1
    BY <1>1, <1>2, <2>1, <2>2, <2>4
  <2>6. QED
    BY <1>1, <1>3, <1>5, <2>3, <2>5
<1>6. CASE ~(d < Length(y, m)) /\ ~(m < 12)
  <2>1. m = 12 /\ d = Length(y, m) /\ 1 \in 1..31 /\ 1 \in 1..12 /\ y + 1 \in Nat
    BY <1>1, <1>2, <1>6
  <2>2. Length(y + 1, 1) \in 28..31 /\ DaysTo(y + 1, 1) \in Int
    BY <2>1, DaysToType
  <2>3. Dated(y + 1, 1, 1) \in RealDate /\ DayNumber(Dated(y + 1, 1, 1)) = DaysTo(y + 1, 1) + 1 - 1
    BY <2>1, <2>2, DateOf
  <2>4. DaysTo(y + 1, 1) = DaysTo(y, 12) + Length(y, 12)
    BY <1>1, <2>1, DaysToYear
  <2>5. DaysTo(y + 1, 1) + 1 - 1 = DaysTo(y, m) + d - 1 + 1
    BY <1>1, <1>2, <2>1, <2>2, <2>4
  <2>6. QED
    BY <1>1, <1>3, <1>6, <2>3, <2>5
<1>7. QED
  BY <1>4, <1>5, <1>6

LEMMA EpochIs == Epoch \in RealDate /\ DayNumber(Epoch) = 0
<1>1. 1970 \in Nat /\ 1 \in 1..12 /\ 1 \in 1..31
  OBVIOUS
<1>2. Length(1970, 1) \in 28..31
  BY <1>1, DaysToType
<1>3. Dated(1970, 1, 1) \in RealDate /\ DayNumber(Dated(1970, 1, 1)) = DaysTo(1970, 1) + 1 - 1
  BY <1>1, <1>2, DateOf
<1>4. DaysTo(1970, 1) = 0
  <2>1. Passed(1970, 1) = 0 /\ LeapsBefore(1970) \in Int
    BY <1>1, PassedEnds, LeapsStep
  <2>2. QED
    BY <2>1 DEF DaysTo
<1>5. Epoch = Dated(1970, 1, 1)
  BY DEF Epoch, Dated
<1>6. QED
  BY <1>3, <1>4, <1>5

\* Two dates of one day are one.
LEMMA SameDay ==
    ASSUME NEW t \in RealDate, NEW u \in RealDate, DayNumber(t) = DayNumber(u)
    PROVE  t = u
<1> DEFINE B(x, w) == x.year < w.year \/ (x.year = w.year /\ x.month < w.month)
<1>1. ASSUME NEW x \in RealDate, NEW w \in RealDate, B(x, w)
      PROVE  DayNumber(x) < DayNumber(w)
  <2>1. /\ x.year \in Nat /\ x.month \in 1..12 /\ x.day \in 1..31 /\ x.day <= Length(x.year, x.month)
        /\ DayNumber(x) = DaysTo(x.year, x.month) + x.day - 1
    BY DateIs
  <2>2. /\ w.year \in Nat /\ w.month \in 1..12 /\ w.day \in 1..31
        /\ DayNumber(w) = DaysTo(w.year, w.month) + w.day - 1
    BY DateIs
  <2>3. DaysTo(x.year, x.month) + Length(x.year, x.month) <= DaysTo(w.year, w.month)
    BY <1>1, <2>1, <2>2, DaysToGrow
  <2>4. /\ DaysTo(x.year, x.month) \in Int /\ Length(x.year, x.month) \in 28..31
        /\ DaysTo(w.year, w.month) \in Int
    BY <2>1, <2>2, DaysToType
  <2>5. QED
    BY <2>1, <2>2, <2>3, <2>4
<1>2. /\ t.year \in Nat /\ t.month \in 1..12 /\ t.day \in 1..31
      /\ t = Dated(t.year, t.month, t.day)
      /\ DayNumber(t) = DaysTo(t.year, t.month) + t.day - 1
  BY DateIs
<1>3. /\ u.year \in Nat /\ u.month \in 1..12 /\ u.day \in 1..31
      /\ u = Dated(u.year, u.month, u.day)
      /\ DayNumber(u) = DaysTo(u.year, u.month) + u.day - 1
  BY DateIs
<1>4. DaysTo(t.year, t.month) \in Int
  BY <1>2, DaysToType
<1>5. DayNumber(t) \in Int
  BY <1>2, <1>4
<1>6. ~B(t, u) /\ ~B(u, t)
  <2>1. ~(DayNumber(t) < DayNumber(u)) /\ ~(DayNumber(u) < DayNumber(t))
    BY <1>5
  <2>2. QED
    BY <1>1, <2>1
<1>7. t.year = u.year /\ t.month = u.month
  BY <1>2, <1>3, <1>6
<1>8. t.day = u.day
  <2>1. PICK k \in Int : k = DaysTo(t.year, t.month)
    BY <1>4
  <2>2. DaysTo(u.year, u.month) = k
    BY <1>7, <2>1
  <2>3. k + t.day - 1 = k + u.day - 1
    BY <1>2, <1>3, <2>1, <2>2
  <2>4. QED
    BY <1>2, <1>3, <2>1, <2>3
<1>9. QED
  BY <1>2, <1>3, <1>7, <1>8

\* Every day has the date the calendar gives it, and is the day of that date.
LEMMA YmdIsRight ==
    ASSUME NEW n \in Nat
    PROVE  DaysToYmd(n) \in RealDate /\ DayNumber(DaysToYmd(n)) = n
<1> DEFINE S == {i \in 0..n : DaysToYmd(i) \in RealDate /\ DayNumber(DaysToYmd(i)) = i}
<1>1. 0 \in S
  BY DatesAdvance, EpochIs
<1>2. ASSUME NEW i \in 0..n, i < n, i \in S
      PROVE  i + 1 \in S
  <2>1. DaysToYmd(i + 1) = After(DaysToYmd(i))
    BY DatesAdvance
  <2>2. DaysToYmd(i) \in RealDate /\ DayNumber(DaysToYmd(i)) = i
    BY <1>2
  <2>3. After(DaysToYmd(i)) \in RealDate /\ DayNumber(After(DaysToYmd(i))) = i + 1
    BY <2>2, AfterIs
  <2>4. i + 1 \in 0..n
    BY <1>2
  <2>5. QED
    BY <2>1, <2>3, <2>4
<1> HIDE DEF S
<1>3. 0..n \subseteq S
  BY <1>1, <1>2, SetInduction
<1>4. QED
  BY <1>3 DEF S

-----------------------------------------------------------------------------
(***************************************************************************)
(* The order of the log.                                                   *)
(***************************************************************************)
LEMMA TextType ==
    ASSUME NEW d \in Date, NEW p \in Nat
    PROVE  Text(d, p) \in Nat
<1>1. /\ d.year \in Nat /\ d.month \in Nat /\ d.day \in Nat /\ Parts \in Nat
  BY PartsAssumption DEF Date
<1>2. ((d.year * 100 + d.month) * 100 + d.day) * Parts \in Nat
  BY <1>1
<1>3. QED
  BY <1>2 DEF Text

LEMMA WrittenType ==
    ASSUME NEW e \in Entry
    PROVE  Written(e.stamp) \in Nat
<1>1. e.stamp.date \in Date /\ e.stamp.part \in 0..(Parts - 1)
  BY DEF Entry
<1>2. e.stamp.part \in Nat
  BY <1>1, PartsAssumption
<1>3. QED
  BY <1>1, <1>2, TextType DEF Written

\* A strict total order of the rows.
LEMMA LaterOrder ==
    ASSUME log \in Seq(Entry), NEW l \in DOMAIN log, NEW m \in DOMAIN log, NEW n \in DOMAIN log
    PROVE  /\ ~Later(n, n)
           /\ Later(l, m) /\ Later(m, n) => Later(l, n)
           /\ m # n => Later(m, n) \/ Later(n, m)
<1>1. log[l] \in Entry /\ log[m] \in Entry /\ log[n] \in Entry /\ l \in Nat /\ m \in Nat /\ n \in Nat
  OBVIOUS
<1>2. /\ Written(log[l].stamp) \in Nat /\ Written(log[m].stamp) \in Nat
      /\ Written(log[n].stamp) \in Nat
  BY <1>1, WrittenType
<1>3. QED
  BY <1>1, <1>2 DEF Later

\* The rows that come before one.
Ahead(S, n) == {m \in S : Later(m, n)}

LEMMA RowsFinite ==
    ASSUME log \in Seq(Entry)
    PROVE  /\ IsFiniteSet(DOMAIN log) /\ Cardinality(DOMAIN log) = Len(log)
           /\ \A S \in SUBSET DOMAIN log :
                IsFiniteSet(S) /\ Cardinality(S) \in Nat /\ Cardinality(S) <= Len(log)
<1>1. DOMAIN log = 1..Len(log) /\ Len(log) \in Nat
  OBVIOUS
<1>2. IsFiniteSet(1..Len(log)) /\ Cardinality(1..Len(log)) = Len(log)
  BY SMTT(30), <1>1, FS_Interval
<1>3. ASSUME NEW S \in SUBSET DOMAIN log
      PROVE  IsFiniteSet(S) /\ Cardinality(S) \in Nat /\ Cardinality(S) <= Len(log)
  BY <1>1, <1>2, FS_Subset, FS_CardinalityType
<1>4. QED
  BY <1>1, <1>2, <1>3

LEMMA AheadLess ==
    ASSUME log \in Seq(Entry), NEW S \in SUBSET DOMAIN log, NEW n \in S
    PROVE  Cardinality(Ahead(S, n)) \in Nat /\ Cardinality(Ahead(S, n)) < Cardinality(S)
<1>1. Ahead(S, n) \in SUBSET DOMAIN log /\ Ahead(S, n) \in SUBSET S /\ n \in DOMAIN log
  BY DEF Ahead
<1>2. n \notin Ahead(S, n)
  BY <1>1, LaterOrder DEF Ahead
<1>3. IsFiniteSet(S) /\ Cardinality(S) \in Nat /\ Cardinality(Ahead(S, n)) \in Nat
  BY <1>1, RowsFinite
<1>4. Cardinality(Ahead(S, n)) <= Cardinality(S) /\ Cardinality(Ahead(S, n)) # Cardinality(S)
  BY <1>1, <1>2, <1>3, FS_Subset
<1>5. QED
  BY <1>3, <1>4

LEMMA AheadGrows ==
    ASSUME log \in Seq(Entry), NEW S \in SUBSET DOMAIN log, NEW m \in S, NEW n \in S, Later(m, n)
    PROVE  Cardinality(Ahead(S, m)) < Cardinality(Ahead(S, n))
<1>1. m \in DOMAIN log /\ n \in DOMAIN log /\ Ahead(S, m) \in SUBSET DOMAIN log
  BY DEF Ahead
<1>2. Ahead(S, n) \in SUBSET DOMAIN log
  BY DEF Ahead
<1>3. Ahead(S, m) \in SUBSET Ahead(S, n)
  BY <1>1, LaterOrder DEF Ahead
<1>4. m \in Ahead(S, n) /\ m \notin Ahead(S, m)
  BY <1>1, LaterOrder DEF Ahead
<1>5. IsFiniteSet(Ahead(S, n)) /\ Cardinality(Ahead(S, n)) \in Nat /\ Cardinality(Ahead(S, m)) \in Nat
  BY <1>1, <1>2, RowsFinite
<1>6. Cardinality(Ahead(S, m)) <= Cardinality(Ahead(S, n)) /\ Cardinality(Ahead(S, m)) # Cardinality(Ahead(S, n))
  BY <1>3, <1>4, <1>5, FS_Subset
<1>7. QED
  BY <1>5, <1>6

\* Every place has one row, and every row its place.
LEMMA OneRowEach ==
    ASSUME log \in Seq(Entry), NEW S \in SUBSET DOMAIN log
    PROVE  /\ \A m, n \in S : Cardinality(Ahead(S, m)) = Cardinality(Ahead(S, n)) => m = n
           /\ \A k \in 1..Cardinality(S) : \E n \in S : Cardinality(Ahead(S, n)) = k - 1
<1>1. ASSUME NEW m \in S, NEW n \in S, Cardinality(Ahead(S, m)) = Cardinality(Ahead(S, n)), m # n
      PROVE  FALSE
  <2>1. Later(m, n) \/ Later(n, m)
    BY <1>1, LaterOrder
  <2>2. Cardinality(Ahead(S, m)) \in Nat
    BY AheadLess
  <2>3. QED
    BY <1>1, <2>1, <2>2, AheadGrows
<1>2. IsFiniteSet(S) /\ Cardinality(S) \in Nat
  BY RowsFinite
<1> DEFINE T == 1..Cardinality(S)
           place == [n \in S |-> Cardinality(Ahead(S, n)) + 1]
<1>3. IsFiniteSet(T) /\ Cardinality(T) = Cardinality(S)
  BY <1>2, FS_Interval
<1>4. place \in [S -> T]
  BY <1>2, AheadLess
<1>5. ASSUME NEW m \in S, NEW n \in S, place[m] = place[n] PROVE m = n
  <2>1. Cardinality(Ahead(S, m)) \in Nat /\ Cardinality(Ahead(S, n)) \in Nat
    BY AheadLess
  <2>2. Cardinality(Ahead(S, m)) = Cardinality(Ahead(S, n))
    BY <1>5, <2>1
  <2>3. QED
    BY <1>1, <2>2
<1>6. place \in Injection(S, T)
  <2> HIDE DEF place, T
  <2> QED
    BY <1>4, <1>5 DEF Injection, IsInjective
<1>7. place \in Surjection(S, T)
  BY <1>3, <1>6, FS_Injection
<1>8. ASSUME NEW k \in T PROVE \E n \in S : Cardinality(Ahead(S, n)) = k - 1
  <2>1. PICK n \in S : place[n] = k
    BY <1>7 DEF Surjection
  <2>2. Cardinality(Ahead(S, n)) \in Nat
    BY AheadLess
  <2>3. QED
    BY <2>1, <2>2
<1>9. QED
  BY <1>1, <1>8

LEMMA SortedAt ==
    ASSUME log \in Seq(Entry), NEW S \in SUBSET DOMAIN log
    PROVE  /\ Sorted(S) \in Seq(S) /\ Len(Sorted(S)) = Cardinality(S)
           /\ \A n \in S : /\ Cardinality(Ahead(S, n)) + 1 \in 1..Len(Sorted(S))
                           /\ Sorted(S)[Cardinality(Ahead(S, n)) + 1] = n
<1> DEFINE C == Cardinality(S)
           at(k) == CHOOSE n \in S : Cardinality(Ahead(S, n)) = k - 1
<1>1. C \in Nat
  BY RowsFinite
<1>2. Sorted(S) = [k \in 1..C |-> at(k)]
  BY DEF Sorted, Ahead
<1>3. ASSUME NEW k \in 1..C PROVE at(k) \in S /\ Cardinality(Ahead(S, at(k))) = k - 1
  BY OneRowEach
<1> HIDE DEF C, at
<1>4. Sorted(S) \in [1..C -> S]
  BY <1>2, <1>3
<1>5. Sorted(S) \in Seq(S) /\ Len(Sorted(S)) = C
  BY <1>1, <1>4
<1>6. ASSUME NEW n \in S
      PROVE  /\ Cardinality(Ahead(S, n)) + 1 \in 1..C
             /\ Sorted(S)[Cardinality(Ahead(S, n)) + 1] = n
  <2> DEFINE k == Cardinality(Ahead(S, n)) + 1
  <2>1. Cardinality(Ahead(S, n)) \in Nat /\ k \in 1..C
    BY <1>1, AheadLess DEF C
  <2>2. at(k) \in S /\ Cardinality(Ahead(S, at(k))) = k - 1
    BY <1>3, <2>1
  <2>3. k - 1 = Cardinality(Ahead(S, n))
    BY <2>1
  <2>4. at(k) = n
    BY ZenonT(60), <2>2, <2>3, OneRowEach
  <2>5. Sorted(S)[k] = at(k)
    BY <1>2, <2>1
  <2>6. QED
    BY <2>1, <2>4, <2>5
<1>7. QED
  BY <1>5, <1>6 DEF C

LEMMA SortedSet ==
    ASSUME log \in Seq(Entry), NEW S \in SUBSET DOMAIN log
    PROVE  ToSet(Sorted(S)) = S
<1>1. Sorted(S) \in Seq(S)
  BY SortedAt
<1>2. DOMAIN Sorted(S) = 1..Len(Sorted(S))
  BY <1>1
<1>3. ToSet(Sorted(S)) \subseteq S
  BY <1>1, <1>2, ElementOfSeq DEF ToSet
<1>4. ASSUME NEW n \in S PROVE n \in ToSet(Sorted(S))
  BY <1>2, SortedAt DEF ToSet
<1>5. QED
  BY <1>3, <1>4

-----------------------------------------------------------------------------
(***************************************************************************)
(* The clock, the log and the accounts.                                    *)
(***************************************************************************)
\* An entry that says when it was made, and on what day.
TrueEntry ==
    {e \in Entry : e.day \in RealDate /\ e.stamp.date = e.day /\ UnixEpoch(e.stamp) = e.at}

ClockInv == time \in Nat /\ today = DaysToYmd(Now)

LogInv ==
    /\ log \in Seq(TrueEntry) /\ drafts \subseteq TrueEntry
    /\ steps \in Nat /\ steps <= MaxSteps
    /\ IsFiniteSet(drafts) /\ Len(log) + Cardinality(drafts) <= Len(Older) + steps

AcctInv == acct \in [User -> Account] /\ moves \in Nat /\ faults \in Nat

BaseInv == ClockInv /\ LogInv /\ AcctInv

LEMMA Seconds ==
    ASSUME NEW t \in Nat, NEW P \in Nat \ {0}
    PROVE  /\ t \div P \in Nat /\ t % P \in 0..(P - 1)
           /\ t = P * (t \div P) + (t % P)
<1>1. t \div P \in Nat /\ t % P \in 0..(P - 1)
  BY SMTT(30)
<1>2. t = P * (t \div P) + (t % P)
  OBVIOUS
<1>3. QED
  BY <1>1, <1>2

LEMMA NextSecond ==
    ASSUME NEW t \in Nat, NEW P \in Nat \ {0}
    PROVE  (t + 1) \div P = IF (t + 1) % P = 0 THEN t \div P + 1 ELSE t \div P
<1>1. CASE (t + 1) % P = 0
  <2>1. (t + 1) \div P = t \div P + 1
    BY <1>1, SMTT(30)
  <2>2. QED
    BY <1>1, <2>1
<1>2. CASE (t + 1) % P # 0
  <2>1. (t + 1) \div P = t \div P
    BY <1>2, SMTT(30)
  <2>2. QED
    BY <1>2, <2>1
<1>3. QED
  BY <1>1, <1>2

LEMMA ClockInit == Init => ClockInv
<1> SUFFICES ASSUME Init PROVE ClockInv
  OBVIOUS
<1>1. time = Start * Parts /\ today = StartDate
  BY DEF Init, LogInit
<1>2. Start \in Nat /\ StartDate \in RealDate /\ DayNumber(StartDate) = Start /\ Parts \in Nat \ {0}
  BY StartAssumption, PartsAssumption
<1>3. time \in Nat /\ time \div Parts = Start
  BY <1>1, <1>2, SMTT(30)
<1>4. DaysToYmd(Start) \in RealDate /\ DayNumber(DaysToYmd(Start)) = Start
  BY <1>2, YmdIsRight
<1>5. DaysToYmd(Start) = StartDate
  BY <1>2, <1>4, SameDay
<1>6. QED
  BY <1>1, <1>3, <1>5 DEF ClockInv, Now

LEMMA ClockTick == ClockInv /\ Tick => ClockInv'
<1> SUFFICES ASSUME ClockInv, Tick PROVE ClockInv'
  OBVIOUS
<1>1. time \in Nat /\ today = DaysToYmd(time \div Parts) /\ Parts \in Nat \ {0}
  BY PartsAssumption DEF ClockInv, Now
<1>2. time' = time + 1 /\ today' = IF time' % Parts = 0 THEN After(today) ELSE today
  BY DEF Tick
<1>3. time \div Parts \in Nat
  BY <1>1, Seconds
<1>4. time' \div Parts = IF time' % Parts = 0 THEN time \div Parts + 1 ELSE time \div Parts
  BY <1>1, <1>2, NextSecond
<1>5. DaysToYmd(time \div Parts + 1) = After(DaysToYmd(time \div Parts))
  BY <1>3, DatesAdvance
<1>6. today' = DaysToYmd(time' \div Parts)
  <2>1. CASE time' % Parts = 0
    BY <1>1, <1>2, <1>4, <1>5, <2>1
  <2>2. CASE time' % Parts # 0
    BY <1>1, <1>2, <1>4, <2>2
  <2>3. QED
    BY <2>1, <2>2
<1>7. QED
  BY <1>1, <1>2, <1>6 DEF ClockInv, Now

\* What chrono_now writes is the day and the time.
LEMMA DraftIsTrue ==
    ASSUME ClockInv, NEW i \in Nat, NEW a \in Action, NEW res \in {"success", "failure"}, NEW u \in User
    PROVE  [id |-> i, stamp |-> Stamp, action |-> a, result |-> res, user |-> u,
            day |-> today, at |-> time] \in TrueEntry
<1> DEFINE e == [id |-> i, stamp |-> Stamp, action |-> a, result |-> res, user |-> u,
                 day |-> today, at |-> time]
<1>1. time \in Nat /\ today = DaysToYmd(Now) /\ Parts \in Nat \ {0}
  BY PartsAssumption DEF ClockInv
<1>2. Now \in Nat /\ time % Parts \in 0..(Parts - 1) /\ time = Parts * Now + (time % Parts)
  BY <1>1, Seconds DEF Now
<1>3. today \in RealDate /\ DayNumber(today) = Now
  BY <1>1, <1>2, YmdIsRight
<1>4. Stamp = [date |-> today, part |-> time % Parts]
  BY <1>1 DEF Stamp
<1>5. UnixEpoch(Stamp) = time
  <2>1. Stamp.date = today /\ Stamp.part = time % Parts
    BY <1>4
  <2>4. UnixEpoch(Stamp) = DayNumber(today) * Parts + (time % Parts)
    BY <2>1 DEF UnixEpoch
  <2>2. Now * Parts = Parts * Now
    BY <1>1, <1>2
  <2>3. QED
    BY <1>2, <1>3, <2>2, <2>4
<1>6. e \in Entry
  BY <1>1, <1>2, <1>3, <1>4 DEF Entry, RealDate
<1>7. e.day = today /\ e.stamp = Stamp /\ e.at = time /\ e.stamp.date = today
  BY <1>4
<1> HIDE DEF e
<1>8. e \in TrueEntry
  BY <1>3, <1>5, <1>6, <1>7 DEF TrueEntry
<1>9. QED
  BY <1>8 DEF e

LEMMA BaseInit == Init => BaseInv
<1> SUFFICES ASSUME Init PROVE BaseInv
  OBVIOUS
<1>1. ClockInv
  BY ClockInit
<1>2. LogInv
  <2>1. log = Older /\ drafts = {} /\ steps = 0
    BY DEF Init, LogInit
  <2>2. Older \in Seq(TrueEntry)
    <3>1. Older \in Seq(Entry) /\ \A n \in 1..Len(Older) : Older[n] \in TrueEntry
      BY OlderAssumption DEF TrueEntry
    <3>2. QED
      BY <3>1, IsASeq
  <2>3. IsFiniteSet(drafts) /\ Cardinality(drafts) = 0
    BY <2>1, FS_EmptySet
  <2>4. QED
    BY <2>1, <2>2, <2>3, SizesAssumption DEF LogInv
<1>3. AcctInv
  <2>1. Unknown \in Account /\ Member \in Account
    BY DEF Account, Mas, Unknown, Member, Fresh
  <2>2. acct \in [User -> {Unknown, Member}] /\ moves = 0 /\ faults = 0
    BY DEF Init
  <2>3. QED
    BY <2>1, <2>2 DEF AcctInv
<1>4. QED
  BY <1>1, <1>2, <1>3 DEF BaseInv

LEMMA DoesType ==
    ASSUME NEW a \in Action, NEW b \in Account, NEW c \in Does(a, b)
    PROVE  c \in Account
<1>1. Fresh \in Account /\ Unknown \in Account
  BY DEF Account, Mas, Unknown, Fresh
<1>2. a \in {"invite", "disable", "enable", "deactivate", "reactivate", "delete"} => c \in Account
  <2>1. CASE a = "invite"
    BY <1>1, <2>1 DEF Does, Account, Mas
  <2>2. CASE a = "disable" \/ a = "enable"
    BY <2>2 DEF Does, Account
  <2>3. CASE a = "deactivate" \/ a = "reactivate"
    BY <2>3 DEF Does, Account, Mas
  <2>4. CASE a = "delete"
    BY <1>1, <2>4 DEF Does, Account, Mas
  <2>5. QED
    BY <2>1, <2>2, <2>3, <2>4
<1>3. QED
  BY <1>2, ActionAssumption

\* What a step of the world does to the log: at most one entry is added to it.
Grown == log' = log \/ \E e \in TrueEntry : log' = Append(log, e)

LEMMA WorkflowKeeps ==
    ASSUME BaseInv, NEW u \in User, NEW a \in Action, Workflow(u, a), faults' = faults
    PROVE  BaseInv' /\ Grown /\ time' = time
<1>1. /\ steps < MaxSteps /\ steps' = steps + 1 /\ steps \in Nat /\ MaxSteps \in Nat
      /\ time' = time /\ today' = today /\ log' = log /\ moves' = moves
  BY SizesAssumption DEF Workflow, BaseInv, LogInv
<1>2. /\ log \in Seq(TrueEntry) /\ drafts \subseteq TrueEntry /\ IsFiniteSet(drafts)
      /\ Len(log) + Cardinality(drafts) <= Len(Older) + steps
  BY DEF BaseInv, LogInv
<1>3. acct' \in [User -> Account]
  <2>1. acct \in [User -> Account]
    BY DEF BaseInv, AcctInv
  <2>2. CASE acct' = acct
    BY <2>1, <2>2
  <2>3. ASSUME NEW c \in Does(a, acct[u]), acct' = [acct EXCEPT ![u] = c]
        PROVE  acct' \in [User -> Account]
    BY <2>1, <2>3, DoesType
  <2>4. acct' = acct \/ \E c \in Does(a, acct[u]) : acct' = [acct EXCEPT ![u] = c]
    BY DEF Workflow
  <2>5. QED
    BY <2>2, <2>3, <2>4
<1>4. PICK res \in {"success", "failure"} : Draft(Len(Older) + steps, a, res, u)
  BY DEF Workflow
<1>5. Len(Older) \in Nat /\ Len(Older) + steps \in Nat
  BY <1>1, OlderAssumption
<1> DEFINE e == [id |-> Len(Older) + steps, stamp |-> Stamp, action |-> a, result |-> res,
                 user |-> u, day |-> today, at |-> time]
<1>6. e \in TrueEntry
  BY <1>5, DraftIsTrue DEF BaseInv
<1>7. drafts' = drafts \cup {e}
  BY <1>4 DEF Draft
<1> HIDE DEF e
<1>8. /\ drafts' \subseteq TrueEntry /\ IsFiniteSet(drafts')
      /\ Cardinality(drafts) \in Nat /\ Cardinality(drafts') \in Nat
      /\ Cardinality(drafts') <= Cardinality(drafts) + 1
  <2>1. Cardinality(drafts) \in Nat
    BY <1>2, FS_CardinalityType
  <2>2. /\ IsFiniteSet(drafts \cup {e})
        /\ Cardinality(drafts \cup {e}) = IF e \in drafts THEN Cardinality(drafts) ELSE Cardinality(drafts) + 1
    BY <1>2, FS_AddElement
  <2>3. QED
    BY <1>2, <1>6, <1>7, <2>1, <2>2
<1>9. Len(log') + Cardinality(drafts') <= Len(Older) + steps'
  <2>1. Len(log) \in Nat
    BY <1>2
  <2>2. QED
    BY <1>1, <1>2, <1>5, <1>8, <2>1
<1>10. LogInv'
  BY <1>1, <1>2, <1>8, <1>9 DEF LogInv
<1>11. ClockInv' /\ AcctInv'
  BY <1>1, <1>3 DEF BaseInv, ClockInv, AcctInv, Now
<1>12. QED
  BY <1>1, <1>10, <1>11 DEF BaseInv, Grown

LEMMA MoveKeeps ==
    ASSUME BaseInv, NEW u \in User, Move(u), faults' = faults
    PROVE  BaseInv' /\ Grown /\ time' = time
<1>1. /\ moves' = moves + 1 /\ moves \in Nat /\ acct \in [User -> Account]
      /\ time' = time /\ today' = today /\ log' = log /\ drafts' = drafts /\ steps' = steps
  BY DEF Move, logVars, BaseInv, AcctInv
<1>2. acct' \in [User -> Account]
  <2>1. acct[u] \in Account
    BY <1>1
  <2>2. \/ acct' = [acct EXCEPT ![u] = [acct[u] EXCEPT !.pending = FALSE,
                                           !.mas = IF @ = "none" THEN "live" ELSE @]]
        \/ acct' = [acct EXCEPT ![u] = [acct[u] EXCEPT !.renamed = TRUE]]
    BY <1>1 DEF Move
  <2>3. /\ [acct[u] EXCEPT !.pending = FALSE, !.mas = IF @ = "none" THEN "live" ELSE @] \in Account
        /\ [acct[u] EXCEPT !.renamed = TRUE] \in Account
    BY <2>1 DEF Account, Mas
  <2>4. QED
    BY <1>1, <2>2, <2>3
<1>3. QED
  BY <1>1, <1>2 DEF BaseInv, LogInv, ClockInv, AcctInv, Now, Grown

LEMMA TickKeeps ==
    ASSUME BaseInv, Tick, UNCHANGED <<acct, steps, moves, faults>>
    PROVE  BaseInv' /\ Grown /\ time' = time + 1
<1>1. ClockInv'
  BY ClockTick DEF BaseInv
<1>2. time' = time + 1 /\ drafts' = drafts /\ log' = log
  BY DEF Tick
<1>3. QED
  BY <1>1, <1>2 DEF BaseInv, LogInv, AcctInv, Grown

LEMMA InsertKeeps ==
    ASSUME BaseInv, NEW e \in drafts, Insert(e) \/ Lose(e), UNCHANGED <<acct, steps, moves, faults>>
    PROVE  BaseInv' /\ Grown /\ time' = time
<1>1. /\ log \in Seq(TrueEntry) /\ drafts \subseteq TrueEntry /\ IsFiniteSet(drafts)
      /\ Len(log) + Cardinality(drafts) <= Len(Older) + steps
      /\ steps \in Nat /\ steps <= MaxSteps
  BY DEF BaseInv, LogInv
<1>2. /\ drafts' = drafts \ {e} /\ time' = time /\ today' = today
      /\ log' = log \/ log' = Append(log, e)
  BY DEF Insert, Lose
<1>3. e \in TrueEntry
  BY <1>1
<1>4. /\ IsFiniteSet(drafts \ {e}) /\ Cardinality(drafts) \in Nat
      /\ Cardinality(drafts \ {e}) = Cardinality(drafts) - 1
  BY <1>1, FS_RemoveElement, FS_CardinalityType
<1>5. log' \in Seq(TrueEntry) /\ Len(log) \in Nat /\ Len(log') <= Len(log) + 1 /\ Len(log') \in Nat
  BY <1>1, <1>2, <1>3
<1>6. Len(log') + Cardinality(drafts') <= Len(Older) + steps
  <2>1. Len(Older) \in Nat
    BY OlderAssumption
  <2>2. QED
    BY <1>1, <1>2, <1>4, <1>5, <2>1
<1>7. LogInv'
  BY <1>1, <1>2, <1>4, <1>5, <1>6 DEF LogInv
<1>8. ClockInv' /\ AcctInv'
  BY <1>2 DEF BaseInv, ClockInv, AcctInv, Now
<1>9. QED
  BY <1>2, <1>3, <1>7, <1>8 DEF BaseInv, Grown

LEMMA WorldKeeps ==
    ASSUME BaseInv, World
    PROVE  BaseInv' /\ Grown /\ time' \in Nat /\ time <= time'
<1>1. faults' = faults /\ time \in Nat
  BY DEF World, BaseInv, ClockInv
<1>2. CASE \E u \in Touched : Move(u)
  BY <1>1, <1>2, MoveKeeps, TouchedAssumption
<1>3. CASE \E u \in Touched : \E a \in Action : Workflow(u, a)
  BY <1>1, <1>3, WorkflowKeeps, TouchedAssumption
<1>4. CASE Tick /\ UNCHANGED <<acct, steps, moves>>
  BY <1>1, <1>4, TickKeeps
<1>5. CASE (\E e \in drafts : Insert(e) \/ Lose(e)) /\ UNCHANGED <<acct, steps, moves>>
  BY <1>1, <1>5, InsertKeeps
<1>6. QED
  BY <1>2, <1>3, <1>4, <1>5 DEF World

LEMMA ReadKeeps ==
    ASSUME BaseInv, Read
    PROVE  BaseInv' /\ UNCHANGED <<logVars, acct, steps, moves>>
<1>1. UNCHANGED <<logVars, acct, steps, moves>>
  BY DEF Read
<1>2. faults' \in Nat
  <2>1. faults \in Nat
    BY DEF BaseInv, AcctInv
  <2>2. faults' = faults \/ faults' = faults + 1
    BY DEF Read, OpenList, Count, FetchRows, FollowNext, Export, OpenDetail, GetUser, LookUp, ListSessions,
           ReadHistory, OpenDashboard, ReadCounter, ReadRecent, NoFault, Fault, Broken
  <2>3. QED
    BY <2>1, <2>2
<1>3. QED
  BY <1>1, <1>2 DEF BaseInv, ClockInv, LogInv, AcctInv, Now, logVars

-----------------------------------------------------------------------------
(***************************************************************************)
(* The types of the pages.                                                 *)
(***************************************************************************)
LEMMA MinTwo ==
    ASSUME NEW a \in Int, NEW b \in Int
    PROVE  Min({a, b}) = IF a <= b THEN a ELSE b
BY SMTT(20) DEF Min

LEMMA MaxTwo ==
    ASSUME NEW a \in Int, NEW b \in Int
    PROVE  Max({a, b}) = IF a <= b THEN b ELSE a
BY SMTT(20) DEF Max

LEMMA RoundedUp ==
    ASSUME NEW t \in Nat, NEW P \in Nat \ {0}
    PROVE  (t + P - 1) \div P \in Nat /\ t <= ((t + P - 1) \div P) * P
BY SMTT(30)

LEMMA TotalPagesIs ==
    ASSUME NEW t \in Nat
    PROVE  TotalPages(t) \in Nat \ {0} /\ t <= TotalPages(t) * PageSize
<1> DEFINE n == (t + PageSize - 1) \div PageSize
<1>1. PageSize \in Nat \ {0} /\ n \in Nat /\ t <= n * PageSize
  BY SizesAssumption, RoundedUp
<1>2. TotalPages(t) = Max({1, n})
  BY DEF TotalPages
<1> HIDE DEF n
<1>3. TotalPages(t) = IF 1 <= n THEN n ELSE 1
  BY <1>1, <1>2, MaxTwo
<1>4. CASE 1 <= n
  BY <1>1, <1>3, <1>4
<1>5. CASE n = 0
  BY <1>1, <1>3, <1>5
<1>6. QED
  BY <1>1, <1>4, <1>5

\* A page of a sequence holds what lies between its bounds.
LEMMA PageOfSeq ==
    ASSUME NEW S, NEW s \in Seq(S), NEW o \in Nat, NEW P \in Nat
    PROVE  /\ SubSeq(s, o + 1, Min({o + P, Len(s)})) \in Seq(S)
           /\ \A i \in 1..Len(s) : o < i /\ i <= o + P =>
                s[i] \in ToSet(SubSeq(s, o + 1, Min({o + P, Len(s)})))
<1> DEFINE n == Min({o + P, Len(s)})
           q == SubSeq(s, o + 1, n)
<1>1. n = (IF o + P <= Len(s) THEN o + P ELSE Len(s)) /\ n \in Nat /\ n <= Len(s)
  BY MinTwo
<1> HIDE DEF n
<1>2. q \in Seq(S) /\ \A i \in (o + 1)..n : i - o \in 1..Len(q) /\ q[i - o] = s[i]
  <2>1. CASE o + 1 <= n
    BY <1>1, <2>1
  <2>2. CASE n < o + 1
    BY <1>1, <2>2
  <2>3. QED
    BY <1>1, <2>1, <2>2
<1> HIDE DEF q
<1>3. DOMAIN q = 1..Len(q)
  BY <1>2
<1>4. ASSUME NEW i \in 1..Len(s), o < i, i <= o + P PROVE s[i] \in ToSet(q)
  <2>1. i \in (o + 1)..n
    BY <1>1, <1>4
  <2>2. i - o \in DOMAIN q /\ q[i - o] = s[i]
    BY <1>2, <1>3, <2>1
  <2>3. QED
    BY <2>2 DEF ToSet
<1>5. QED
  BY <1>2, <1>4 DEF q, n

LEMMA LogType ==
    ASSUME BaseInv
    PROVE  /\ log \in Seq(Entry) /\ Len(log) \in Nat /\ DOMAIN log = 1..Len(log)
           /\ DOMAIN log \subseteq Row /\ User \subseteq Row
           /\ \A n \in DOMAIN log : log[n] \in TrueEntry
<1>1. log \in Seq(TrueEntry) /\ TrueEntry \subseteq Entry
  BY DEF BaseInv, LogInv, TrueEntry
<1>2. log \in Seq(Entry)
  BY <1>1, SeqMonotonic
<1>3. Len(log) <= Len(Older) + MaxSteps
  <2>1. /\ Len(log) + Cardinality(drafts) <= Len(Older) + steps /\ steps \in Nat /\ steps <= MaxSteps
        /\ Cardinality(drafts) \in Nat
    BY FS_CardinalityType DEF BaseInv, LogInv
  <2>2. Len(log) \in Nat /\ Len(Older) \in Nat /\ MaxSteps \in Nat
    BY <1>2, OlderAssumption, SizesAssumption
  <2>3. QED
    BY <2>1, <2>2
<1>4. Len(Older) \in Nat /\ MaxSteps \in Nat
  BY OlderAssumption, SizesAssumption
<1>5. QED
  BY <1>1, <1>2, <1>3, <1>4, ElementOfSeq DEF Row

LEMMA VisitKinds ==
    ASSUME NEW v \in Visit
    PROVE  /\ v.kind \in Listed => v \in ListVisit
           /\ v.kind = "export" => v \in ExportVisit
           /\ v.kind = "detail" => v \in DetailVisit
           /\ v.kind = "dashboard" => v \in DashboardVisit
BY DEF Visit, ListVisit, ExportVisit, DetailVisit, DashboardVisit, Listed

\* Those Keycloak knows.
Known == {u \in User : acct[u].known}

LEMMA FoundType == Found \in Seq(User) /\ ToSet(Found) \subseteq User
<1>1. Order \in Seq(User)
  BY OrderAssumption
<1>2. Found \in Seq(User \cap {u \in User : acct[u].known})
  BY <1>1, FilterType DEF Found
<1>3. Found \in Seq(User)
  BY <1>2, SeqMonotonic
<1>4. QED
  BY <1>3, ElementOfSeq DEF ToSet

LEMMA RowsType ==
    ASSUME BaseInv, NEW v
    PROVE  Rows(v) \subseteq Row
BY LogType, FoundType DEF Rows, Matching

LEMMA PageRowsType ==
    ASSUME BaseInv, NEW v \in ListVisit
    PROVE  PageRows(v) \in Seq(Row)
<1> DEFINE o == (v.page - 1) * PageSize
<1>1. o \in Nat /\ PageSize \in Nat
  BY SizesAssumption DEF ListVisit
<1> HIDE DEF o
<1>2. CASE v.kind = "list"
  <2> DEFINE S == Matching(v.filter)
  <2>1. S \in SUBSET DOMAIN log /\ log \in Seq(Entry) /\ DOMAIN log \subseteq Row
    BY LogType DEF Matching
  <2> HIDE DEF S
  <2>2. Sorted(S) \in Seq(S)
    BY <2>1, SortedAt
  <2>3. Sorted(S) \in Seq(Row)
    BY <2>1, <2>2, SeqMonotonic
  <2>4. SubSeq(Sorted(S), o + 1, Min({o + PageSize, Len(Sorted(S))})) \in Seq(Row)
    BY <1>1, <2>3, PageOfSeq
  <2>5. QED
    BY <1>2, <2>4 DEF PageRows, PageWithFilter, o, S
<1>3. CASE v.kind # "list"
  <2>1. Found \in Seq(Row)
    BY FoundType, LogType, SeqMonotonic
  <2>2. SubSeq(Found, o + 1, Min({o + PageSize, Len(Found)})) \in Seq(Row)
    BY <1>1, <2>1, PageOfSeq
  <2>3. QED
    BY <1>3, <2>2 DEF PageRows, o
<1>4. QED
  BY <1>2, <1>3

LEMMA NotedType ==
    ASSUME BaseInv', visit \in Visit, Noted
    PROVE  visit' \in Visit
<1>1. CASE visit.kind \in Listed
  <2>1. visit \in ListVisit
    BY <1>1, VisitKinds
  <2>2. PICK a \in BOOLEAN, b \in BOOLEAN : visit' = [visit EXCEPT !.late = a, !.gone = b]
    <3>1. PICK v \in {visit} :
              visit' = CASE v.kind \in Listed ->
                              [v EXCEPT !.late = @ \/ (v.stage = "rows" /\ Rows(v)' # Rows(v)),
                                        !.gone = @ \/ ~(Rows(v) \subseteq Rows(v)')]
                         [] v.kind = "detail" -> [v EXCEPT !.was = @ \cup {acct'[v.user]}]
                         [] OTHER -> v
      BY DEF Noted
    <3> DEFINE a == v.late \/ (v.stage = "rows" /\ Rows(v)' # Rows(v))
               b == v.gone \/ ~(Rows(v) \subseteq Rows(v)')
    <3>2. a \in BOOLEAN /\ b \in BOOLEAN
      BY <2>1 DEF ListVisit
    <3>3. visit' = [visit EXCEPT !.late = a, !.gone = b]
      BY <1>1, <3>1 DEF Listed
    <3> HIDE DEF a, b
    <3>4. QED
      BY <3>2, <3>3
  <2>3. visit' \in ListVisit
    BY <2>1, <2>2 DEF ListVisit
  <2>4. QED
    BY <2>3 DEF Visit
<1>2. CASE visit.kind = "detail"
  <2>1. visit \in DetailVisit /\ visit.kind \notin Listed
    BY <1>2, VisitKinds DEF Listed
  <2>2. visit' = [visit EXCEPT !.was = visit.was \cup {acct'[visit.user]}]
    BY <1>2, <2>1 DEF Noted
  <2>3. acct'[visit.user] \in Account
    BY <2>1 DEF BaseInv, AcctInv, DetailVisit
  <2>4. visit' \in DetailVisit
    BY <2>1, <2>2, <2>3 DEF DetailVisit
  <2>5. QED
    BY <2>4 DEF Visit
<1>3. CASE visit.kind \notin Listed /\ visit.kind # "detail"
  BY <1>3 DEF Noted
<1>4. QED
  BY <1>1, <1>2, <1>3

LEMMA ErrorType == [kind |-> "error"] \in Visit /\ Nothing \in Visit
BY DEF Visit, Nothing

LEMMA ListTypes ==
    ASSUME BaseInv, visit \in Visit, OpenList \/ Count \/ FetchRows \/ FollowNext
    PROVE  visit' \in Visit
<1>1. CASE OpenList
  <2>1. PICK k \in Listed \cap Kinds, n \in 0..MaxPage :
        \E f \in IF k = "list" THEN Filters ELSE {None} :
          LET v == [kind |-> k, filter |-> f, stage |-> "count", page |-> Asked(n), pages |-> 1,
                    rows |-> <<>>, due |-> {}, seen |-> {}, late |-> FALSE, gone |-> FALSE]
          IN  visit' = [v EXCEPT !.due = IF Asked(n) = 1 THEN Rows(v) ELSE {}]
    BY <1>1 DEF OpenList
  <2>2. PICK f \in Filters \cup {None} :
          LET v == [kind |-> k, filter |-> f, stage |-> "count", page |-> Asked(n), pages |-> 1,
                    rows |-> <<>>, due |-> {}, seen |-> {}, late |-> FALSE, gone |-> FALSE]
          IN  visit' = [v EXCEPT !.due = IF Asked(n) = 1 THEN Rows(v) ELSE {}]
    BY <2>1
  <2> DEFINE v == [kind |-> k, filter |-> f, stage |-> "count", page |-> Asked(n), pages |-> 1,
                   rows |-> <<>>, due |-> {}, seen |-> {}, late |-> FALSE, gone |-> FALSE]
             d == IF Asked(n) = 1 THEN Rows(v) ELSE {}
  <2>3. visit' = [v EXCEPT !.due = d]
    BY <2>2
  <2>4. Asked(n) \in Nat \ {0}
    <3>1. Asked(n) = IF n <= 1 THEN 1 ELSE n
      BY MaxTwo DEF Asked
    <3>2. QED
      BY <3>1
  <2>5. d \in SUBSET Row
    BY RowsType
  <2> HIDE DEF d
  <2>6. v \in ListVisit
    <3>1. <<>> \in Seq(Row)
      OBVIOUS
    <3>2. QED
      BY <2>4, <3>1 DEF ListVisit
  <2> HIDE DEF v
  <2>7. visit' \in ListVisit
    BY <2>3, <2>5, <2>6 DEF ListVisit
  <2>8. QED
    BY <2>7 DEF Visit
<1>2. CASE Count
  <2>1. visit \in ListVisit
    BY <1>2, VisitKinds DEF Count
  <2>2. CASE Broken
    BY <2>2, ErrorType DEF Broken
  <2>3. PICK t : /\ t = IF visit.kind = "list" THEN CountWithFilter(visit.filter) ELSE Len(Found)
                 /\ \/ visit' = [visit EXCEPT !.stage = "rows", !.pages = TotalPages(t),
                                              !.page = PageOf(visit, TotalPages(t)), !.late = FALSE]
                    \/ Broken
    BY <1>2 DEF Count
  <2>4. t \in Nat
    <3>1. CASE visit.kind = "list"
      <4>1. Matching(visit.filter) \in SUBSET DOMAIN log /\ log \in Seq(Entry)
        BY LogType DEF Matching
      <4>2. QED
        BY <2>3, <3>1, <4>1, RowsFinite DEF CountWithFilter
    <3>2. CASE visit.kind # "list"
      BY <2>3, <3>2, FoundType
    <3>3. QED
      BY <3>1, <3>2
  <2>5. TotalPages(t) \in Nat \ {0}
    BY <2>4, TotalPagesIs
  <2>6. PICK m : m = TotalPages(t)
    OBVIOUS
  <2>7. PageOf(visit, m) \in Nat \ {0}
    <3>1. visit.page \in Nat \ {0}
      BY <2>1 DEF ListVisit
    <3>2. Min({visit.page, m}) = IF visit.page <= m THEN visit.page ELSE m
      BY <2>5, <2>6, <3>1, MinTwo
    <3>3. QED
      BY <2>5, <2>6, <3>1, <3>2 DEF PageOf
  <2>8. CASE visit' = [visit EXCEPT !.stage = "rows", !.pages = m, !.page = PageOf(visit, m),
                                    !.late = FALSE]
    <3>1. visit' \in ListVisit
      BY <2>1, <2>5, <2>6, <2>7, <2>8 DEF ListVisit
    <3>2. QED
      BY <3>1 DEF Visit
  <2>9. QED
    BY <2>2, <2>3, <2>6, <2>8
<1>3. CASE FetchRows
  <2>1. visit \in ListVisit
    BY <1>3, VisitKinds DEF FetchRows
  <2>2. CASE Broken
    BY <2>2, ErrorType DEF Broken
  <2>3. PICK q : q = PageRows(visit)
    OBVIOUS
  <2>4. q \in Seq(Row) /\ ToSet(q) \subseteq Row
    <3>1. q \in Seq(Row)
      BY <2>1, <2>3, PageRowsType
    <3>2. QED
      BY <3>1, ElementOfSeq DEF ToSet
  <2>5. CASE visit' = [visit EXCEPT !.stage = "shown", !.rows = q, !.seen = visit.seen \cup ToSet(q)]
    <3>1. visit' \in ListVisit
      BY <2>1, <2>4, <2>5 DEF ListVisit
    <3>2. QED
      BY <3>1 DEF Visit
  <2>6. QED
    BY <1>3, <2>2, <2>3, <2>5 DEF FetchRows
<1>4. CASE FollowNext
  <2>1. visit \in ListVisit
    BY <1>4, VisitKinds DEF FollowNext
  <2>2. visit' = [visit EXCEPT !.stage = "count", !.page = visit.page + 1, !.rows = <<>>]
    BY <1>4 DEF FollowNext
  <2>3. visit' \in ListVisit
    <3>1. PICK n \in Nat \ {0}, q \in Seq(Row) : n = visit.page + 1 /\ q = <<>>
      <4>1. visit.page + 1 \in Nat \ {0}
        BY <2>1 DEF ListVisit
      <4>2. <<>> \in Seq(Row)
        OBVIOUS
      <4>3. QED
        BY <4>1, <4>2
    <3>2. visit' = [visit EXCEPT !.stage = "count", !.page = n, !.rows = q]
      BY <2>2, <3>1
    <3>3. QED
      BY <2>1, <3>2 DEF ListVisit
  <2>4. QED
    BY <2>3 DEF Visit
<1>5. QED
  BY <1>1, <1>2, <1>3, <1>4

LEMMA ExportTypes ==
    ASSUME BaseInv, visit \in Visit, Export
    PROVE  visit' \in Visit
<1>1. CASE Broken
  BY <1>1, ErrorType DEF Broken
<1>2. ASSUME NEW f \in Filters, visit' = [kind |-> "export", filter |-> f, rows |-> AllWithFilter(f),
                                          upto |-> Len(log)]
      PROVE  visit' \in Visit
  <2>1. log \in Seq(Entry) /\ Len(log) \in Nat /\ DOMAIN log \subseteq Row
    BY LogType
  <2>2. Matching(f) \in SUBSET DOMAIN log
    BY DEF Matching
  <2>3. AllWithFilter(f) \in Seq(Row)
    <3>1. Sorted(Matching(f)) \in Seq(Matching(f))
      BY <2>1, <2>2, SortedAt
    <3>2. QED
      BY <2>1, <2>2, <3>1, SeqMonotonic DEF AllWithFilter
  <2>4. visit' \in ExportVisit
    BY <1>2, <2>1, <2>3 DEF ExportVisit
  <2>5. QED
    BY <2>4 DEF Visit
<1>3. QED
  BY <1>1, <1>2 DEF Export

\* The entries a query of one person's may give.
LEMMA ForUserType ==
    ASSUME BaseInv, NEW u, NEW l, NEW s \in ForUser(u, l)
    PROVE  s \in Seq(Row)
<1> DEFINE R == {n \in DOMAIN log : log[n].user = u}
<1>1. s \in SetToSeqs(R)
  BY DEF ForUser
<1>2. R \in SUBSET DOMAIN log /\ log \in Seq(Entry) /\ DOMAIN log \subseteq Row
  BY LogType
<1> HIDE DEF R
<1>3. s \in [1..Cardinality(R) -> R] /\ Cardinality(R) \in Nat
  BY <1>1, <1>2, RowsFinite DEF SetToSeqs
<1>4. s \in Seq(R)
  BY <1>3
<1>5. QED
  BY <1>2, <1>4, SeqMonotonic

LEMMA DetailTypes ==
    ASSUME BaseInv, visit \in Visit, OpenDetail \/ GetUser \/ LookUp \/ ListSessions
    PROVE  visit' \in Visit
<1>0. acct \in [User -> Account]
  BY DEF BaseInv, AcctInv
<1>1. CASE Broken
  BY <1>1, ErrorType DEF Broken
<1>2. CASE OpenDetail
  <2>1. PICK u \in Touched :
          visit' = [kind |-> "detail", user |-> u, stage |-> "user", id |-> Unknown, mas |-> "none",
                    failed |-> FALSE, sessions |-> FALSE, entries |-> None, was |-> {acct[u]}]
    BY <1>2 DEF OpenDetail
  <2>2. Unknown \in Account /\ acct[u] \in Account /\ u \in User /\ "none" \in Mas
    BY <1>0, TouchedAssumption DEF Unknown, Fresh, Account, Mas
  <2>3. visit' \in DetailVisit
    BY <2>1, <2>2 DEF DetailVisit
  <2>4. QED
    BY <2>3 DEF Visit
<1>3. ASSUME visit.kind = "detail", NEW w \in DetailVisit, visit' = w PROVE visit' \in Visit
  BY <1>3 DEF Visit
<1>4. CASE GetUser /\ ~Broken
  <2>1. visit \in DetailVisit
    BY <1>4, VisitKinds DEF GetUser
  <2>2. CASE visit' = [kind |-> "error"]
    BY <2>2, ErrorType
  <2>3. CASE visit' = [visit EXCEPT !.stage = "mas", !.id = acct[visit.user]]
    <3>1. acct[visit.user] \in Account
      BY <1>0, <2>1 DEF DetailVisit
    <3>2. visit' \in DetailVisit
      BY <2>1, <2>3, <3>1 DEF DetailVisit
    <3>3. QED
      BY <3>2 DEF Visit
  <2>4. QED
    BY <1>4, <2>2, <2>3 DEF GetUser
<1>5. CASE LookUp
  <2>1. visit \in DetailVisit
    BY <1>5, VisitKinds DEF LookUp
  <2>2. CASE visit' = [visit EXCEPT !.stage = "done", !.failed = TRUE]
    <3>1. visit' \in DetailVisit
      BY <2>1, <2>2 DEF DetailVisit
    <3>2. QED
      BY <3>1 DEF Visit
  <2>3. PICK m : /\ m = IF visit.id.renamed THEN "none" ELSE acct[visit.user].mas
                 /\ \/ visit' = [visit EXCEPT !.stage = IF m = "none" THEN "done" ELSE "sessions",
                                              !.mas = m]
                    \/ visit' = [visit EXCEPT !.stage = "done", !.failed = TRUE]
    BY <1>5 DEF LookUp
  <2>4. m \in Mas
    BY <1>0, <2>1, <2>3 DEF DetailVisit, Account, Mas
  <2>5. CASE visit' = [visit EXCEPT !.stage = IF m = "none" THEN "done" ELSE "sessions", !.mas = m]
    <3>1. visit' \in DetailVisit
      BY <2>1, <2>4, <2>5 DEF DetailVisit
    <3>2. QED
      BY <3>1 DEF Visit
  <2>6. QED
    BY <2>2, <2>3, <2>5
<1>6. CASE ListSessions
  <2>1. visit \in DetailVisit
    BY <1>6, VisitKinds DEF ListSessions
  <2>2. CASE visit' = [visit EXCEPT !.stage = "done"]
    <3>1. visit' \in DetailVisit
      BY <2>1, <2>2 DEF DetailVisit
    <3>2. QED
      BY <3>1 DEF Visit
  <2>3. ASSUME NEW b \in BOOLEAN, visit' = [visit EXCEPT !.stage = "done", !.sessions = b]
        PROVE  visit' \in Visit
    <3>1. visit' \in DetailVisit
      BY <2>1, <2>3 DEF DetailVisit
    <3>2. QED
      BY <3>1 DEF Visit
  <2>4. QED
    BY <1>6, <2>2, <2>3 DEF ListSessions
<1>7. QED
  BY <1>1, <1>2, <1>4, <1>5, <1>6

LEMMA HistoryTypes ==
    ASSUME BaseInv, visit \in Visit, ReadHistory
    PROVE  visit' \in Visit
<1>1. visit \in DetailVisit
  BY VisitKinds DEF ReadHistory
<1>2. PICK s \in Seq(Row) : visit' = [visit EXCEPT !.entries = s]
  <2>1. <<>> \in Seq(Row)
    OBVIOUS
  <2>2. QED
    BY <2>1, ForUserType DEF ReadHistory
<1>3. visit' \in DetailVisit
  BY <1>1, <1>2 DEF DetailVisit
<1>4. QED
  BY <1>3 DEF Visit

LEMMA CountedType ==
    ASSUME BaseInv, NEW S \in SUBSET DOMAIN log
    PROVE  Cardinality(S) \in Nat
BY LogType, RowsFinite

LEMMA DashboardTypes ==
    ASSUME BaseInv, visit \in Visit, OpenDashboard \/ ReadCounter \/ ReadRecent
    PROVE  visit' \in Visit
<1>0. log \in Seq(Entry) /\ Len(log) \in Nat /\ DOMAIN log \subseteq Row /\ time \in Nat
  BY LogType DEF BaseInv, ClockInv
<1>1. CASE Broken
  BY <1>1, ErrorType DEF Broken
<1>2. CASE OpenDashboard
  <2>1. PICK c \in Counter :
          visit' = [kind |-> "dashboard", counter |-> c, stage |-> "open", count |-> 0,
                    recent |-> None, upto |-> Len(log), from |-> time]
    BY <1>2 DEF OpenDashboard
  <2>2. visit' \in DashboardVisit
    BY <1>0, <2>1 DEF DashboardVisit
  <2>3. QED
    BY <2>2 DEF Visit
<1>3. CASE ReadCounter
  <2>1. visit \in DashboardVisit
    BY <1>3, VisitKinds DEF ReadCounter
  <2>2. CASE visit' = [visit EXCEPT !.stage = "zero"]
    <3>1. visit' \in DashboardVisit
      BY <2>1, <2>2 DEF DashboardVisit
    <3>2. QED
      BY <3>1 DEF Visit
  <2>3. CASE visit' = [visit EXCEPT !.stage = "read", !.count = CountOf(visit.counter)]
    <3>1. CountOf(visit.counter) \in Nat
      <4>1. visit.counter \in Counter
        BY <2>1 DEF DashboardVisit
      <4>2. visit.counter[1] \in {"invites", "lifecycle", "failures"}
        BY <4>1 DEF Counter
      <4>3. /\ CountActionsSince(InviteActions, visit.counter[2]) \in Nat
            /\ CountActionsSince(LifecycleActions, visit.counter[2]) \in Nat
            /\ CountFailuresSince(visit.counter[2]) \in Nat
        BY CountedType DEF CountActionsSince, CountFailuresSince
      <4>4. QED
        BY <4>2, <4>3 DEF CountOf
    <3>2. visit' \in DashboardVisit
      BY <2>1, <2>3, <3>1 DEF DashboardVisit
    <3>3. QED
      BY <3>2 DEF Visit
  <2>4. QED
    BY <1>3, <2>2, <2>3 DEF ReadCounter
<1>4. CASE ReadRecent /\ ~Broken
  <2>1. visit \in DashboardVisit
    BY <1>4, VisitKinds DEF ReadRecent
  <2>2. visit' = [visit EXCEPT !.recent = RecentEntries(History)]
    BY <1>4 DEF ReadRecent
  <2>3. RecentEntries(History) \in Seq(Row)
    <3>1. Sorted(DOMAIN log) \in Seq(DOMAIN log)
      BY <1>0, SortedAt
    <3>2. Sorted(DOMAIN log) \in Seq(Row)
      BY <1>0, <3>1, SeqMonotonic
    <3> DEFINE s == Sorted(DOMAIN log)
    <3> HIDE DEF s
    <3>3. SubSeq(s, 0 + 1, Min({0 + History, Len(s)})) \in Seq(Row)
      BY <3>2, PageOfSeq, SizesAssumption DEF s
    <3>4. 0 + 1 = 1 /\ 0 + History = History
      BY SizesAssumption
    <3>5. QED
      BY <3>3, <3>4 DEF RecentEntries, s
  <2>4. visit' \in DashboardVisit
    BY <2>1, <2>2, <2>3 DEF DashboardVisit
  <2>5. QED
    BY <2>4 DEF Visit
<1>5. QED
  BY <1>1, <1>2, <1>3, <1>4

\* What every proof below starts from.
TypeInv == BaseInv /\ visit \in Visit

LEMMA TypeInit == Init => TypeInv
BY BaseInit, ErrorType DEF Init, TypeInv

LEMMA TypeStep == TypeInv /\ [Next]_vars => TypeInv'
<1> SUFFICES ASSUME TypeInv, [Next]_vars PROVE TypeInv'
  OBVIOUS
<1>1. CASE World
  <2>1. BaseInv'
    BY <1>1, WorldKeeps DEF TypeInv
  <2>2. visit' \in Visit
    BY <1>1, <2>1, NotedType DEF World, TypeInv
  <2>3. QED
    BY <2>1, <2>2 DEF TypeInv
<1>2. CASE Read
  <2>1. BaseInv'
    BY <1>2, ReadKeeps DEF TypeInv
  <2>2. visit' \in Visit
    BY <1>2, ListTypes, ExportTypes, DetailTypes, HistoryTypes, DashboardTypes DEF Read, TypeInv
  <2>3. QED
    BY <2>1, <2>2 DEF TypeInv
<1>3. CASE UNCHANGED vars
  BY <1>3 DEF vars, logVars, TypeInv, BaseInv, ClockInv, LogInv, AcctInv, Now
<1>4. QED
  BY <1>1, <1>2, <1>3 DEF Next

LEMMA TypeSpec == Spec => []TypeInv
<1>1. QED
  BY TypeInit, TypeStep, PTL DEF Spec

\* The pages, the accounts, the clock and the log are well typed, for any number of
\* users, entries and steps; a page's rows are rows there are.
THEOREM TypeCorrect == Spec => []TypeOK
<1>1. TypeInv => TypeOK
  <2> SUFFICES ASSUME TypeInv PROVE TypeOK
    OBVIOUS
  <2>1. time \in Nat /\ log \in Seq(Entry) /\ drafts \subseteq Entry
    BY LogType DEF TypeInv, BaseInv, ClockInv, LogInv, TrueEntry
  <2>2. today \in Date
    <3>1. Now \in Nat /\ today = DaysToYmd(Now)
      BY Seconds, PartsAssumption DEF TypeInv, BaseInv, ClockInv, Now
    <3>2. QED
      BY <3>1, YmdIsRight DEF RealDate
  <2>3. QED
    BY <2>1, <2>2 DEF TypeOK, TypeInv, BaseInv, LogInv, AcctInv
<1>2. QED
  BY <1>1, TypeSpec, PTL

-----------------------------------------------------------------------------
(***************************************************************************)
(* The page of a user.                                                     *)
(***************************************************************************)
\* What the calls have brought so far, each from a state the user had.
DetailInv ==
    visit.kind = "detail" =>
        /\ acct[visit.user] \in visit.was
        /\ visit.stage # "user" => visit.id \in visit.was /\ visit.id.known
        /\ visit.stage \in {"user", "mas"} => ~visit.failed /\ visit.mas = "none"
        /\ visit.stage \in {"sessions", "done"} =>
              \/ visit.failed /\ visit.mas = "none"
              \/ ~visit.failed /\ visit.id.renamed /\ visit.mas = "none"
              \/ /\ ~visit.failed /\ ~visit.id.renamed
                 /\ \E m \in visit.was : m.mas = visit.mas

LEMMA NotedDetail ==
    ASSUME Noted, visit \in Visit
    PROVE  /\ visit.kind = "detail" => visit' = [visit EXCEPT !.was = visit.was \cup {acct'[visit.user]}]
           /\ visit.kind # "detail" => visit'.kind = visit.kind
<1>1. CASE visit.kind = "detail"
  BY <1>1 DEF Noted, Listed
<1>2. CASE visit.kind # "detail"
  <2>1. CASE visit.kind \in Listed
    <3>1. PICK v \in {visit} :
              visit' = CASE v.kind \in Listed ->
                              [v EXCEPT !.late = @ \/ (v.stage = "rows" /\ Rows(v)' # Rows(v)),
                                        !.gone = @ \/ ~(Rows(v) \subseteq Rows(v)')]
                         [] v.kind = "detail" -> [v EXCEPT !.was = @ \cup {acct'[v.user]}]
                         [] OTHER -> v
      BY DEF Noted
    <3> DEFINE a == v.late \/ (v.stage = "rows" /\ Rows(v)' # Rows(v))
               b == v.gone \/ ~(Rows(v) \subseteq Rows(v)')
    <3>2. visit' = [visit EXCEPT !.late = a, !.gone = b]
      BY <2>1, <3>1 DEF Listed
    <3> HIDE DEF a, b
    <3>3. visit \in ListVisit
      BY <2>1, VisitKinds
    <3>4. visit'.kind = visit.kind
      BY <3>2, <3>3 DEF ListVisit
    <3>5. QED
      BY <1>2, <3>4
  <2>2. CASE visit.kind \notin Listed
    BY <1>2, <2>2 DEF Noted
  <2>3. QED
    BY <2>1, <2>2
<1>3. QED
  BY <1>1, <1>2

LEMMA DetailWorld ==
    ASSUME TypeInv, DetailInv, World
    PROVE  DetailInv'
<1>1. CASE visit.kind = "detail"
  <2>1. visit \in DetailVisit
    BY <1>1, VisitKinds DEF TypeInv
  <2>2. visit' = [visit EXCEPT !.was = visit.was \cup {acct'[visit.user]}]
    BY <1>1, NotedDetail DEF World, TypeInv
  <2>3. /\ visit'.user = visit.user /\ visit'.stage = visit.stage /\ visit'.id = visit.id
        /\ visit'.failed = visit.failed /\ visit'.mas = visit.mas
        /\ visit'.was = visit.was \cup {acct'[visit.user]}
    BY <2>1, <2>2 DEF DetailVisit
  <2>4. QED
    BY <1>1, <2>3 DEF DetailInv
<1>2. CASE visit.kind # "detail"
  BY <1>2, NotedDetail DEF World, TypeInv, DetailInv
<1>3. QED
  BY <1>1, <1>2

\* What a list is opened with.
RowsOf(k, f) == IF k = "list" THEN Matching(f) ELSE ToSet(Found)

LEMMA OpenListIs ==
    ASSUME OpenList
    PROVE  \E k \in Listed, f \in Filters \cup {None}, n \in 0..MaxPage :
              /\ k = "list" => f \in Filters
              /\ visit'.kind = k /\ visit'.filter = f /\ visit'.stage = "count"
              /\ visit'.page = Asked(n) /\ visit'.seen = {} /\ visit'.gone = FALSE
              /\ visit'.due = IF Asked(n) = 1 THEN RowsOf(k, f) ELSE {}
<1>1. PICK k \in Listed \cap Kinds, n \in 0..MaxPage :
      \E f \in IF k = "list" THEN Filters ELSE {None} :
        LET v == [kind |-> k, filter |-> f, stage |-> "count", page |-> Asked(n), pages |-> 1,
                  rows |-> <<>>, due |-> {}, seen |-> {}, late |-> FALSE, gone |-> FALSE]
        IN  visit' = [v EXCEPT !.due = IF Asked(n) = 1 THEN Rows(v) ELSE {}]
  BY DEF OpenList
<1>2. PICK f \in IF k = "list" THEN Filters ELSE {None} :
        LET v == [kind |-> k, filter |-> f, stage |-> "count", page |-> Asked(n), pages |-> 1,
                  rows |-> <<>>, due |-> {}, seen |-> {}, late |-> FALSE, gone |-> FALSE]
        IN  visit' = [v EXCEPT !.due = IF Asked(n) = 1 THEN Rows(v) ELSE {}]
  BY <1>1
<1> DEFINE v == [kind |-> k, filter |-> f, stage |-> "count", page |-> Asked(n), pages |-> 1,
                 rows |-> <<>>, due |-> {}, seen |-> {}, late |-> FALSE, gone |-> FALSE]
           d == IF Asked(n) = 1 THEN Rows(v) ELSE {}
<1>3. visit' = [v EXCEPT !.due = d]
  BY <1>2
<1>4. d = IF Asked(n) = 1 THEN RowsOf(k, f) ELSE {}
  BY DEF Rows, RowsOf
<1> HIDE DEF d
<1>5. /\ visit'.kind = k /\ visit'.filter = f /\ visit'.stage = "count"
      /\ visit'.page = Asked(n) /\ visit'.seen = {} /\ visit'.gone = FALSE
      /\ visit'.due = d
  BY <1>3
<1>6. f \in Filters \cup {None} /\ (k = "list" => f \in Filters)
  BY <1>2
<1>7. QED
  BY <1>4, <1>5, <1>6

LEMMA DetailRead ==
    ASSUME TypeInv, DetailInv, Read
    PROVE  DetailInv'
<1>0. acct' = acct /\ acct \in [User -> Account]
  BY ReadKeeps DEF TypeInv, BaseInv, AcctInv
<1>1. CASE Broken
  BY <1>1 DEF Broken, DetailInv
<1>2. CASE OpenDetail
  BY <1>0, <1>2 DEF OpenDetail, DetailInv
<1>3. CASE visit.kind = "detail" /\ (GetUser \/ LookUp \/ ListSessions \/ ReadHistory) /\ ~Broken
  <2>1. visit \in DetailVisit
    BY <1>3, VisitKinds DEF TypeInv
  <2>2. CASE GetUser
    <3>1. CASE visit' = [kind |-> "error"]
      BY <3>1 DEF DetailInv
    <3>2. CASE /\ acct[visit.user].known /\ visit.stage = "user"
               /\ visit' = [visit EXCEPT !.stage = "mas", !.id = acct[visit.user]]
      <4>1. /\ visit'.stage = "mas" /\ visit'.id = acct[visit.user] /\ visit'.user = visit.user
            /\ visit'.was = visit.was /\ visit'.failed = visit.failed /\ visit'.mas = visit.mas
        BY <2>1, <3>2 DEF DetailVisit
      <4>2. QED
        BY <1>0, <1>3, <3>2, <4>1 DEF DetailInv
    <3>3. QED
      BY <1>3, <2>2, <3>1, <3>2 DEF GetUser
  <2>3. CASE LookUp
    <3>1. visit.stage = "mas"
      BY <2>3 DEF LookUp
    <3>2. CASE visit' = [visit EXCEPT !.stage = "done", !.failed = TRUE]
      <4>1. /\ visit'.stage = "done" /\ visit'.id = visit.id /\ visit'.user = visit.user
            /\ visit'.was = visit.was /\ visit'.failed /\ visit'.mas = visit.mas
        BY <2>1, <3>2 DEF DetailVisit
      <4>2. QED
        BY <1>0, <1>3, <3>1, <4>1 DEF DetailInv
    <3>3. PICK m : /\ m = IF visit.id.renamed THEN "none" ELSE acct[visit.user].mas
                   /\ \/ visit' = [visit EXCEPT !.stage = IF m = "none" THEN "done" ELSE "sessions",
                                                !.mas = m]
                      \/ visit' = [visit EXCEPT !.stage = "done", !.failed = TRUE]
      BY <2>3 DEF LookUp
    <3>4. CASE visit' = [visit EXCEPT !.stage = IF m = "none" THEN "done" ELSE "sessions", !.mas = m]
      <4>1. /\ visit'.stage \in {"done", "sessions"} /\ visit'.id = visit.id /\ visit'.user = visit.user
            /\ visit'.was = visit.was /\ visit'.failed = visit.failed /\ visit'.mas = m
        BY <2>1, <3>4 DEF DetailVisit
      <4>2. acct[visit.user] \in visit.was /\ ~visit.failed /\ visit.id \in visit.was /\ visit.id.known
        BY <1>3, <3>1 DEF DetailInv
      <4>3. QED
        BY <1>0, <3>3, <4>1, <4>2 DEF DetailInv
    <3>5. QED
      BY <3>2, <3>3, <3>4
  <2>4. CASE ListSessions \/ ReadHistory
    <3>1. \/ \E b \in BOOLEAN : visit' = [visit EXCEPT !.stage = "done", !.sessions = b]
          \/ visit' = [visit EXCEPT !.stage = "done"]
          \/ \E s : visit' = [visit EXCEPT !.entries = s]
      BY <2>4 DEF ListSessions, ReadHistory
    <3>2. ListSessions => visit.stage = "sessions"
      BY DEF ListSessions
    <3>3. /\ visit'.user = visit.user /\ visit'.id = visit.id /\ visit'.was = visit.was
          /\ visit'.failed = visit.failed /\ visit'.mas = visit.mas
      BY <2>1, <3>1 DEF DetailVisit
    <3>4. visit'.stage = visit.stage \/ (visit.stage = "sessions" /\ visit'.stage = "done")
      <4>1. CASE ListSessions
        <5>1. visit'.stage = "done"
          BY <2>1, <4>1 DEF ListSessions, DetailVisit
        <5>2. QED
          BY <3>2, <4>1, <5>1
      <4>2. CASE ReadHistory
        <5>1. PICK s : visit' = [visit EXCEPT !.entries = s]
          BY <4>2 DEF ReadHistory
        <5>2. visit'.stage = visit.stage
          BY <2>1, <5>1 DEF DetailVisit
        <5>3. QED
          BY <5>2
      <4>3. QED
        BY <2>4, <4>1, <4>2
    <3>5. QED
      BY <1>0, <1>3, <3>3, <3>4 DEF DetailInv
  <2>5. QED
    BY <1>3, <2>2, <2>3, <2>4
<1>4. CASE ~Broken /\ (OpenList \/ Count \/ FetchRows \/ FollowNext \/ Export
                        \/ OpenDashboard \/ ReadCounter \/ ReadRecent)
  <2>1. visit'.kind # "detail"
    <3>1. CASE OpenList
      BY <3>1, OpenListIs DEF Listed
    <3>2. CASE Count \/ FetchRows \/ FollowNext
      <4>1. visit \in ListVisit
        BY <3>2, VisitKinds DEF Count, FetchRows, FollowNext, TypeInv
      <4>2. visit'.kind = visit.kind
        BY <1>4, <3>2, <4>1 DEF Count, FetchRows, FollowNext, ListVisit
      <4>3. QED
        BY <4>1, <4>2 DEF ListVisit, Listed
    <3>3. CASE Export \/ OpenDashboard
      BY <1>4, <3>3 DEF Export, OpenDashboard
    <3>4. CASE ReadCounter \/ ReadRecent
      <4>1. visit \in DashboardVisit
        BY <3>4, VisitKinds DEF ReadCounter, ReadRecent, TypeInv
      <4>2. visit'.kind = visit.kind
        BY <1>4, <3>4, <4>1 DEF ReadCounter, ReadRecent, DashboardVisit
      <4>3. QED
        BY <4>1, <4>2 DEF DashboardVisit
    <3>5. QED
      BY <1>4, <3>1, <3>2, <3>3, <3>4
  <2>2. QED
    BY <2>1 DEF DetailInv
<1>5. QED
  BY <1>1, <1>2, <1>3, <1>4 DEF Read, GetUser, LookUp, ListSessions, ReadHistory

LEMMA DetailIsTrue ==
    ASSUME TypeInv, DetailInv
    PROVE  DetailTrue
<1> DEFINE G(k, m) ==
              LET off == m.mas = "off" /\ ~visit.failed /\ ~k.renamed IN
              /\ k.known
              /\ DeriveState(visit.id.enabled, visit.id.pending, visit.mas) =
                    CASE ~k.enabled \/ off -> "Disabled"
                      [] k.enabled /\ ~off /\ k.pending -> "Invited"
                      [] OTHER -> "Active"
              /\ Correlation(visit.mas) = "Confirmed" => m.mas # "none"
<1> SUFFICES ASSUME visit.kind = "detail", visit.stage = "done"
             PROVE  \E k, m \in visit.was : G(k, m)
  BY DEF DetailTrue
<1>1. visit.id \in visit.was /\ visit.id.known /\ visit.was \subseteq Account
  <2>1. visit \in DetailVisit
    BY VisitKinds DEF TypeInv
  <2>2. QED
    BY <2>1 DEF DetailInv, DetailVisit
<1>2. CASE visit.mas = "none" /\ (visit.failed \/ visit.id.renamed)
  <2>1. G(visit.id, visit.id)
    BY <1>1, <1>2 DEF DeriveState, Correlation, Account
  <2> HIDE DEF G
  <2>2. QED
    BY <1>1, <2>1
<1>3. CASE ~visit.failed /\ ~visit.id.renamed /\ \E m \in visit.was : m.mas = visit.mas
  <2>1. PICK m \in visit.was : m.mas = visit.mas
    BY <1>3
  <2>2. G(visit.id, m)
    BY <1>1, <1>3, <2>1 DEF DeriveState, Correlation, Account
  <2> HIDE DEF G
  <2>3. QED
    BY <1>1, <2>1, <2>2
<1>4. QED
  BY <1>2, <1>3 DEF DetailInv

LEMMA DetailSpec == Spec => []DetailInv
<1>1. Init => DetailInv
  BY DEF Init, Nothing, DetailInv
<1>2. TypeInv /\ DetailInv /\ [Next]_vars => DetailInv'
  <2>1. CASE UNCHANGED vars
    BY <2>1 DEF vars, DetailInv
  <2>2. QED
    BY <2>1, DetailWorld, DetailRead DEF Next
<1>3. QED
  BY <1>1, <1>2, TypeSpec, PTL DEF Spec

\* get_detail: however the user's accounts change and whichever call fails while
\* the page is put together, it shows a Keycloak and a MAS state the user had.
THEOREM DetailStaysTrue == Spec => []DetailTrue
BY DetailIsTrue, DetailSpec, TypeSpec, PTL

-----------------------------------------------------------------------------
(***************************************************************************)
(* The counters of the dashboard.                                          *)
(***************************************************************************)
LEMMA GrownIs ==
    ASSUME log \in Seq(TrueEntry), Grown
    PROVE  /\ Len(log) \in Nat /\ Len(log') \in Nat /\ Len(log) <= Len(log') /\ log' \in Seq(TrueEntry)
           /\ \A n \in 1..Len(log) : log'[n] = log[n]
BY DEF Grown

LEMMA NotedOthers ==
    ASSUME Noted, visit.kind \notin Listed, visit.kind # "detail"
    PROVE  visit' = visit
BY DEF Noted

Counts(c, e) ==
    CASE c[1] = "invites" -> e.action = "invite"
      [] c[1] = "lifecycle" -> e.action \in LifecycleActions
      [] c[1] = "failures" -> e.result = "failure"

SpanOf(c, n, now) == {m \in 1..n : Counts(c, log[m]) /\ now - log[m].at < c[2]}

\* The entries that were counted.
CounterInv ==
    visit.kind = "dashboard" =>
        /\ visit.upto <= Len(log) /\ visit.from <= time
        /\ visit.stage = "read" =>
              \E C \in SUBSET (1..Len(log)) :
                  /\ visit.count = Cardinality(C)
                  /\ SpanOf(visit.counter, visit.upto, time) \subseteq C
                  /\ C \subseteq SpanOf(visit.counter, Len(log), visit.from)

\* A counter counts the entries in its span.
LEMMA CountIs ==
    ASSUME BaseInv, NEW c \in Counter
    PROVE  CountOf(c) = Cardinality(SpanOf(c, Len(log), time))
<1>1. /\ log \in Seq(Entry) /\ DOMAIN log = 1..Len(log) /\ time \in Nat
      /\ \A n \in DOMAIN log : log[n] \in TrueEntry
  BY LogType DEF BaseInv, ClockInv
<1>2. c[1] \in {"invites", "lifecycle", "failures"} /\ c[2] \in Nat
  BY SizesAssumption DEF Counter
<1>3. ASSUME NEW n \in DOMAIN log
      PROVE  Within(log[n], c[2]) <=> time - log[n].at < c[2]
  <2>1. UnixEpoch(log[n].stamp) = log[n].at /\ log[n].at \in Nat
    BY <1>1 DEF TrueEntry, Entry
  <2>2. Within(log[n], c[2]) <=> log[n].at > time - c[2]
    BY <2>1 DEF Within
  <2>3. QED
    BY <1>1, <1>2, <2>1, <2>2
<1>4. CASE c[1] = "invites"
  <2>1. {n \in DOMAIN log : log[n].action \in InviteActions /\ Within(log[n], c[2])} = SpanOf(c, Len(log), time)
    BY <1>1, <1>3, <1>4 DEF SpanOf, Counts, InviteActions
  <2>2. CountOf(c) = CountActionsSince(InviteActions, c[2])
    BY <1>4 DEF CountOf
  <2>3. QED
    BY <2>1, <2>2 DEF CountActionsSince
<1>5. CASE c[1] = "lifecycle"
  <2>1. {n \in DOMAIN log : log[n].action \in LifecycleActions /\ Within(log[n], c[2])} = SpanOf(c, Len(log), time)
    BY <1>1, <1>3, <1>5 DEF SpanOf, Counts
  <2>2. CountOf(c) = CountActionsSince(LifecycleActions, c[2])
    BY <1>5 DEF CountOf
  <2>3. QED
    BY <2>1, <2>2 DEF CountActionsSince
<1>6. CASE c[1] = "failures"
  <2>1. {n \in DOMAIN log : log[n].result = "failure" /\ Within(log[n], c[2])} = SpanOf(c, Len(log), time)
    BY <1>1, <1>3, <1>6 DEF SpanOf, Counts
  <2>2. CountOf(c) = CountFailuresSince(c[2])
    BY <1>6 DEF CountOf
  <2>3. QED
    BY <2>1, <2>2 DEF CountFailuresSince
<1>7. QED
  BY <1>2, <1>4, <1>5, <1>6

\* A span ends later for an earlier clock, and holds more of a longer log.
LEMMA SpanGrows ==
    ASSUME BaseInv, NEW c \in Counter, NEW m \in Nat, NEW n \in Nat, m <= n, n <= Len(log),
           NEW t \in Nat, NEW u \in Nat, t <= u
    PROVE  SpanOf(c, m, u) \subseteq SpanOf(c, n, t)
<1>1. /\ DOMAIN log = 1..Len(log) /\ Len(log) \in Nat
      /\ \A k \in DOMAIN log : log[k] \in TrueEntry
  BY LogType
<1>2. c[2] \in Nat
  BY SizesAssumption DEF Counter
<1>3. ASSUME NEW k \in SpanOf(c, m, u) PROVE k \in SpanOf(c, n, t)
  <2>1. k \in 1..m /\ Counts(c, log[k]) /\ u - log[k].at < c[2]
    BY <1>3 DEF SpanOf
  <2>2. log[k].at \in Nat
    BY <1>1, <2>1 DEF TrueEntry, Entry
  <2>3. t - log[k].at < c[2] /\ k \in 1..n
    BY <1>2, <2>1, <2>2
  <2>4. QED
    BY <2>1, <2>3 DEF SpanOf
<1>4. QED
  BY <1>3

LEMMA CounterWorld ==
    ASSUME TypeInv, CounterInv, World
    PROVE  CounterInv'
<1>1. CASE visit.kind = "dashboard"
  <2>1. visit \in DashboardVisit /\ visit' = visit
    BY <1>1, VisitKinds, NotedOthers DEF World, TypeInv, Listed
  <2>2. /\ BaseInv' /\ Grown /\ time \in Nat /\ time' \in Nat /\ time <= time' /\ log \in Seq(TrueEntry)
    BY WorldKeeps DEF TypeInv, BaseInv, ClockInv, LogInv
  <2>3. /\ Len(log) \in Nat /\ Len(log') \in Nat /\ Len(log) <= Len(log')
        /\ \A n \in 1..Len(log) : log'[n] = log[n]
    BY <2>2, GrownIs
  <2>4. /\ visit.upto \in Nat /\ visit.from \in Nat /\ visit.counter \in Counter
        /\ visit.upto <= Len(log) /\ visit.from <= time
    BY <1>1, <2>1 DEF DashboardVisit, CounterInv
  <2>5. visit.upto <= Len(log') /\ visit.from <= time'
    BY <2>2, <2>3, <2>4
  <2>6. ASSUME visit.stage = "read"
        PROVE  \E C \in SUBSET (1..Len(log')) :
                  /\ visit.count = Cardinality(C)
                  /\ SpanOf(visit.counter, visit.upto, time)' \subseteq C
                  /\ C \subseteq SpanOf(visit.counter, Len(log), visit.from)'
    <3>1. PICK C \in SUBSET (1..Len(log)) :
              /\ visit.count = Cardinality(C)
              /\ SpanOf(visit.counter, visit.upto, time) \subseteq C
              /\ C \subseteq SpanOf(visit.counter, Len(log), visit.from)
      BY <1>1, <2>6 DEF CounterInv
    <3>2. C \in SUBSET (1..Len(log'))
      BY <2>3
    <3>3. SpanOf(visit.counter, visit.upto, time)' \subseteq SpanOf(visit.counter, visit.upto, time)
      <4>1. SpanOf(visit.counter, visit.upto, time') \subseteq SpanOf(visit.counter, visit.upto, time)
        BY <2>2, <2>4, SpanGrows DEF TypeInv
      <4>2. SpanOf(visit.counter, visit.upto, time)' = SpanOf(visit.counter, visit.upto, time')
        BY <2>1, <2>3, <2>4 DEF SpanOf
      <4>3. QED
        BY <4>1, <4>2
    <3>4. SpanOf(visit.counter, Len(log), visit.from) \subseteq SpanOf(visit.counter, Len(log), visit.from)'
      BY <2>1, <2>3, <2>4 DEF SpanOf
    <3>5. QED
      BY <3>1, <3>2, <3>3, <3>4
  <2>7. QED
    BY <1>1, <2>1, <2>5, <2>6 DEF CounterInv
<1>2. CASE visit.kind # "dashboard"
  <2>1. visit'.kind = visit.kind
    <3>1. CASE visit.kind = "detail"
      <4>1. visit \in DetailVisit /\ visit' = [visit EXCEPT !.was = visit.was \cup {acct'[visit.user]}]
        BY <3>1, NotedDetail, VisitKinds DEF World, TypeInv
      <4>2. QED
        BY <4>1 DEF DetailVisit
    <3>2. QED
      BY <3>1, NotedDetail DEF World, TypeInv
  <2>2. QED
    BY <1>2, <2>1 DEF CounterInv
<1>3. QED
  BY <1>1, <1>2

\* The page of a user stays one, or fails.
LEMMA DetailStays ==
    ASSUME visit \in Visit, GetUser \/ LookUp \/ ListSessions \/ ReadHistory
    PROVE  visit'.kind \in {"detail", "error"}
<1>1. visit \in DetailVisit /\ visit.kind = "detail"
  BY VisitKinds DEF GetUser, LookUp, ListSessions, ReadHistory
<1>2. CASE Broken
  BY <1>2 DEF Broken
<1>3. CASE GetUser /\ ~Broken
  <2>1. \/ visit' = [kind |-> "error"]
        \/ visit' = [visit EXCEPT !.stage = "mas", !.id = acct[visit.user]]
    BY <1>3 DEF GetUser
  <2>2. CASE visit' = [kind |-> "error"]
    BY <2>2
  <2>3. CASE visit' = [visit EXCEPT !.stage = "mas", !.id = acct[visit.user]]
    BY <1>1, <2>3 DEF DetailVisit
  <2>4. QED
    BY <2>1, <2>2, <2>3
<1>4. CASE LookUp
  BY <1>1, <1>4 DEF LookUp, DetailVisit
<1>5. CASE ListSessions
  BY <1>1, <1>5 DEF ListSessions, DetailVisit
<1>6. CASE ReadHistory
  <2>1. PICK s : visit' = [visit EXCEPT !.entries = s]
    BY <1>6 DEF ReadHistory
  <2>2. QED
    BY <1>1, <2>1 DEF DetailVisit
<1>7. QED
  BY <1>2, <1>3, <1>4, <1>5, <1>6

LEMMA CounterRead ==
    ASSUME TypeInv, CounterInv, Read
    PROVE  CounterInv'
<1>0. /\ log' = log /\ time' = time /\ time \in Nat /\ Len(log) \in Nat
      /\ log \in Seq(Entry)
  BY ReadKeeps, LogType DEF TypeInv, BaseInv, ClockInv, logVars
<1>1. CASE Broken
  BY <1>1 DEF Broken, CounterInv
<1>2. CASE OpenDashboard
  BY <1>0, <1>2 DEF OpenDashboard, CounterInv
<1>3. CASE (ReadCounter \/ ReadRecent) /\ ~Broken
  <2>1. visit \in DashboardVisit /\ visit.kind = "dashboard"
    BY <1>3, VisitKinds DEF TypeInv, ReadCounter, ReadRecent
  <2>2. /\ visit.upto \in Nat /\ visit.from \in Nat /\ visit.counter \in Counter
        /\ visit.upto <= Len(log) /\ visit.from <= time
    BY <2>1 DEF DashboardVisit, CounterInv
  <2>3. CASE visit' = [visit EXCEPT !.stage = "read", !.count = CountOf(visit.counter)]
    <3>1. /\ visit'.upto = visit.upto /\ visit'.from = visit.from /\ visit'.counter = visit.counter
          /\ visit'.count = CountOf(visit.counter)
      BY <2>1, <2>3 DEF DashboardVisit
    <3> DEFINE C == SpanOf(visit.counter, Len(log), time)
    <3>2. CountOf(visit.counter) = Cardinality(C)
      BY <2>2, CountIs DEF TypeInv
    <3>3. C \in SUBSET (1..Len(log))
      BY DEF SpanOf
    <3>4. /\ SpanOf(visit.counter, visit.upto, time) \subseteq C
          /\ C \subseteq SpanOf(visit.counter, Len(log), visit.from)
      BY <1>0, <2>2, SpanGrows DEF TypeInv
    <3>5. /\ SpanOf(visit.counter, visit.upto, time)' = SpanOf(visit.counter, visit.upto, time)
          /\ SpanOf(visit.counter, Len(log), visit.from)' = SpanOf(visit.counter, Len(log), visit.from)
      BY <1>0, <3>1 DEF SpanOf
    <3> HIDE DEF C
    <3>6. QED
      BY <1>0, <2>2, <3>1, <3>2, <3>3, <3>4, <3>5 DEF CounterInv
  <2>4. CASE visit' = [visit EXCEPT !.stage = "zero"] \/ \E s : visit' = [visit EXCEPT !.recent = s]
    <3>1. /\ visit'.upto = visit.upto /\ visit'.from = visit.from /\ visit'.counter = visit.counter
          /\ visit'.count = visit.count /\ (visit'.stage = "zero" \/ visit'.stage = visit.stage)
      BY <2>1, <2>4 DEF DashboardVisit
    <3>2. /\ SpanOf(visit.counter, visit.upto, time)' = SpanOf(visit.counter, visit.upto, time)
          /\ SpanOf(visit.counter, Len(log), visit.from)' = SpanOf(visit.counter, Len(log), visit.from)
      BY <1>0, <3>1 DEF SpanOf
    <3>3. QED
      BY <1>0, <2>1, <2>2, <3>1, <3>2 DEF CounterInv
  <2>5. QED
    BY <1>3, <2>3, <2>4 DEF ReadCounter, ReadRecent
<1>4. CASE ~Broken /\ ~(OpenDashboard \/ ReadCounter \/ ReadRecent)
  <2>1. visit'.kind # "dashboard"
    <3>1. CASE OpenList
      BY <3>1, OpenListIs DEF Listed
    <3>2. CASE Count \/ FetchRows \/ FollowNext
      <4>1. visit \in ListVisit
        BY <3>2, VisitKinds DEF Count, FetchRows, FollowNext, TypeInv
      <4>2. visit'.kind = visit.kind
        BY <1>4, <3>2, <4>1 DEF Count, FetchRows, FollowNext, ListVisit
      <4>3. QED
        BY <4>1, <4>2 DEF ListVisit, Listed
    <3>3. CASE Export \/ OpenDetail
      BY <1>4, <3>3 DEF Export, OpenDetail
    <3>4. CASE GetUser \/ LookUp \/ ListSessions \/ ReadHistory
      BY <3>4, DetailStays DEF TypeInv
    <3>5. QED
      BY <1>4, <3>1, <3>2, <3>3, <3>4 DEF Read
  <2>2. QED
    BY <2>1 DEF CounterInv
<1>5. QED
  BY <1>1, <1>2, <1>3, <1>4

LEMMA CountersAreTrue ==
    ASSUME TypeInv, CounterInv
    PROVE  CountersTrue
<1> SUFFICES ASSUME visit.kind = "dashboard", visit.stage = "read"
             PROVE  visit.count \in Cardinality(SpanOf(visit.counter, visit.upto, time))
                                    .. Cardinality(SpanOf(visit.counter, Len(log), visit.from))
  BY DEF CountersTrue, SpanOf, Counts
<1>1. PICK C \in SUBSET (1..Len(log)) :
          /\ visit.count = Cardinality(C)
          /\ SpanOf(visit.counter, visit.upto, time) \subseteq C
          /\ C \subseteq SpanOf(visit.counter, Len(log), visit.from)
  BY DEF CounterInv
<1>2. log \in Seq(Entry) /\ DOMAIN log = 1..Len(log)
  BY LogType DEF TypeInv
<1> DEFINE S == SpanOf(visit.counter, visit.upto, time)
           T == SpanOf(visit.counter, Len(log), visit.from)
<1>3. T \in SUBSET DOMAIN log /\ C \in SUBSET T /\ S \in SUBSET C
  BY <1>1, <1>2 DEF SpanOf
<1> HIDE DEF S, T
<1>4. IsFiniteSet(T) /\ IsFiniteSet(C) /\ Cardinality(T) \in Nat /\ Cardinality(C) \in Nat
      /\ Cardinality(S) \in Nat
  BY <1>2, <1>3, RowsFinite
<1>5. Cardinality(S) <= Cardinality(C) /\ Cardinality(C) <= Cardinality(T)
  BY <1>3, <1>4, FS_Subset
<1>6. QED
  BY <1>1, <1>4, <1>5 DEF S, T

LEMMA CounterSpec == Spec => []CounterInv
<1>1. Init => CounterInv
  BY DEF Init, Nothing, CounterInv
<1>2. TypeInv /\ CounterInv /\ [Next]_vars => CounterInv'
  <2>1. CASE UNCHANGED vars
    BY <2>1 DEF vars, logVars, CounterInv, SpanOf
  <2>2. QED
    BY <2>1, CounterWorld, CounterRead DEF Next
<1>3. QED
  BY <1>1, <1>2, TypeSpec, PTL DEF Spec

\* count_actions_since, count_failures_since: a counter that could be read lies
\* between what was in the log when the request came and what is by now, for any
\* number of entries drafted, inserted and lost meanwhile and any spans.
THEOREM CountersStayTrue == Spec => []CountersTrue
BY CountersAreTrue, CounterSpec, TypeSpec, PTL

-----------------------------------------------------------------------------
(***************************************************************************)
(* The export between two dates.                                           *)
(***************************************************************************)
\* The days of a stamp and of a bound compare as their texts do.
LEMMA WholeDays ==
    ASSUME NEW a \in Int, NEW b \in Int, NEW P \in Nat \ {0}, NEW p \in 0..(P - 1)
    PROVE  /\ a * P + p >= b * P + 0 <=> a >= b
           /\ a * P + p <= b * P + (P - 1) <=> a <= b
           /\ a * P + 0 <= b * P + 0 <=> a <= b
<1>1. CASE a < b
  <2>1. a * P + P <= b * P
    BY <1>1, SMTT(30)
  <2>2. QED
    BY <1>1, <2>1, SMTT(30)
<1>2. CASE a = b
  BY <1>2, SMTT(30)
<1>3. CASE a > b
  <2>1. b * P + P <= a * P
    BY <1>3, SMTT(30)
  <2>2. QED
    BY <1>3, <2>1, SMTT(30)
<1>4. QED
  BY <1>1, <1>2, <1>3

\* What a filter asks for, by the calendar.
Falls(e, f) ==
    /\ f.action \in {None, e.action} /\ f.result \in {None, e.result}
    /\ f.from # None => Text(f.from, 0) <= Text(e.day, 0)
    /\ f.to # None => Text(e.day, 0) <= Text(f.to, 0)

LEMMA DayBounds ==
    ASSUME NEW e \in TrueEntry, NEW d \in Date
    PROVE  /\ Written(e.stamp) >= Text(d, 0) <=> Text(d, 0) <= Text(e.day, 0)
           /\ Written(e.stamp) <= EndOfDay(d) <=> Text(e.day, 0) <= Text(d, 0)
<1> DEFINE N(t) == (t.year * 100 + t.month) * 100 + t.day
<1>1. /\ e.stamp.date = e.day /\ e.day \in Date /\ e.stamp.part \in 0..(Parts - 1)
      /\ Parts \in Nat \ {0}
  BY PartsAssumption DEF TrueEntry, Entry
<1>2. N(e.day) \in Int /\ N(d) \in Int
  BY <1>1 DEF Date
<1>3. PICK a \in Int, b \in Int : a = N(e.day) /\ b = N(d)
  BY <1>2
<1>4. /\ Text(d, 0) = b * Parts + 0 /\ Text(e.day, 0) = a * Parts + 0
      /\ EndOfDay(d) = b * Parts + (Parts - 1)
  BY <1>3 DEF Text, EndOfDay
<1>5. Written(e.stamp) = a * Parts + e.stamp.part
  BY <1>1, <1>3 DEF Written, Text
<1> HIDE DEF N
<1>6. PICK p \in 0..(Parts - 1) : p = e.stamp.part
  BY <1>1
<1>7. /\ a * Parts + p >= b * Parts + 0 <=> a >= b
      /\ a * Parts + p <= b * Parts + (Parts - 1) <=> a <= b
      /\ a * Parts + 0 <= b * Parts + 0 <=> a <= b
      /\ b * Parts + 0 <= a * Parts + 0 <=> b <= a
  BY <1>1, WholeDays
<1>8. a >= b <=> b <= a
  OBVIOUS
<1>9. QED
  BY <1>4, <1>5, <1>6, <1>7, <1>8

LEMMA MatchesFalls ==
    ASSUME NEW e \in TrueEntry, NEW f \in Filters
    PROVE  Matches(e, f) <=> Falls(e, f)
<1>1. f.from \in Date \cup {None} /\ f.to \in Date \cup {None}
  BY FiltersAssumption
<1>2. (f.from = None \/ Written(e.stamp) >= Text(f.from, 0))
        <=> (f.from # None => Text(f.from, 0) <= Text(e.day, 0))
  BY <1>1, DayBounds
<1>3. (f.to = None \/ Written(e.stamp) <= EndOfDay(f.to))
        <=> (f.to # None => Text(e.day, 0) <= Text(f.to, 0))
  BY <1>1, DayBounds
<1>4. QED
  BY <1>2, <1>3 DEF Matches, Falls

\* The export has what fell into its filter when it was made.
ExportInv ==
    visit.kind = "export" =>
        /\ visit.upto <= Len(log)
        /\ ToSet(visit.rows) = {n \in 1..visit.upto : Falls(log[n], visit.filter)}

LEMMA ExportWorld ==
    ASSUME TypeInv, ExportInv, World
    PROVE  ExportInv'
<1>1. CASE visit.kind = "export"
  <2>1. visit \in ExportVisit /\ visit' = visit
    BY <1>1, VisitKinds, NotedOthers DEF World, TypeInv, Listed
  <2>2. Grown /\ log \in Seq(TrueEntry)
    BY WorldKeeps DEF TypeInv, BaseInv, LogInv
  <2>3. /\ Len(log) \in Nat /\ Len(log') \in Nat /\ Len(log) <= Len(log')
        /\ \A n \in 1..Len(log) : log'[n] = log[n]
    BY <2>2, GrownIs
  <2>4. visit.upto \in Nat /\ visit.upto <= Len(log)
    BY <1>1, <2>1 DEF ExportVisit, ExportInv
  <2>5. \A n \in 1..visit.upto : log'[n] = log[n]
    BY <2>3, <2>4
  <2>6. {n \in 1..visit.upto : Falls(log'[n], visit.filter)} = {n \in 1..visit.upto : Falls(log[n], visit.filter)}
    BY <2>5
  <2>7. QED
    BY <1>1, <2>1, <2>3, <2>4, <2>6 DEF ExportInv
<1>2. CASE visit.kind # "export"
  <2>1. visit'.kind = visit.kind
    <3>1. CASE visit.kind = "detail"
      <4>1. visit \in DetailVisit /\ visit' = [visit EXCEPT !.was = visit.was \cup {acct'[visit.user]}]
        BY <3>1, NotedDetail, VisitKinds DEF World, TypeInv
      <4>2. QED
        BY <4>1 DEF DetailVisit
    <3>2. QED
      BY <3>1, NotedDetail DEF World, TypeInv
  <2>2. QED
    BY <1>2, <2>1 DEF ExportInv
<1>3. QED
  BY <1>1, <1>2

LEMMA ExportRead ==
    ASSUME TypeInv, ExportInv, Read
    PROVE  ExportInv'
<1>0. /\ log' = log /\ log \in Seq(Entry) /\ Len(log) \in Nat /\ DOMAIN log = 1..Len(log)
      /\ \A n \in DOMAIN log : log[n] \in TrueEntry
  BY ReadKeeps, LogType DEF TypeInv, logVars
<1>1. CASE Broken
  BY <1>1 DEF Broken, ExportInv
<1>2. CASE Export /\ ~Broken
  <2>1. PICK f \in Filters : visit' = [kind |-> "export", filter |-> f, rows |-> AllWithFilter(f),
                                       upto |-> Len(log)]
    BY <1>2 DEF Export
  <2>2. ToSet(AllWithFilter(f)) = Matching(f)
    <3>1. Matching(f) \in SUBSET DOMAIN log
      BY DEF Matching
    <3>2. QED
      BY <1>0, <3>1, SortedSet DEF AllWithFilter
  <2>3. Matching(f) = {n \in 1..Len(log) : Falls(log[n], f)}
    BY <1>0, MatchesFalls DEF Matching
  <2>4. QED
    BY <1>0, <2>1, <2>2, <2>3 DEF ExportInv
<1>3. CASE ~Broken /\ ~Export
  <2>1. visit'.kind # "export"
    <3>1. CASE OpenList
      BY <3>1, OpenListIs DEF Listed
    <3>2. CASE Count \/ FetchRows \/ FollowNext
      <4>1. visit \in ListVisit
        BY <3>2, VisitKinds DEF Count, FetchRows, FollowNext, TypeInv
      <4>2. visit'.kind = visit.kind
        BY <1>3, <3>2, <4>1 DEF Count, FetchRows, FollowNext, ListVisit
      <4>3. QED
        BY <4>1, <4>2 DEF ListVisit, Listed
    <3>3. CASE OpenDetail \/ OpenDashboard
      BY <3>3 DEF OpenDetail, OpenDashboard
    <3>4. CASE GetUser \/ LookUp \/ ListSessions \/ ReadHistory
      BY <3>4, DetailStays DEF TypeInv
    <3>5. CASE ReadCounter \/ ReadRecent
      <4>1. visit \in DashboardVisit
        BY <3>5, VisitKinds DEF ReadCounter, ReadRecent, TypeInv
      <4>2. visit'.kind = visit.kind
        BY <1>3, <3>5, <4>1 DEF ReadCounter, ReadRecent, DashboardVisit
      <4>3. QED
        BY <4>1, <4>2 DEF DashboardVisit
    <3>6. QED
      BY <1>3, <3>1, <3>2, <3>3, <3>4, <3>5 DEF Read
  <2>2. QED
    BY <2>1 DEF ExportInv
<1>4. QED
  BY <1>1, <1>2, <1>3

LEMMA ExportSpec == Spec => []ExportInv
<1>1. Init => ExportInv
  BY DEF Init, Nothing, ExportInv
<1>2. TypeInv /\ ExportInv /\ [Next]_vars => ExportInv'
  <2>1. CASE UNCHANGED vars
    BY <2>1 DEF vars, logVars, ExportInv
  <2>2. QED
    BY <2>1, ExportWorld, ExportRead DEF Next
<1>3. QED
  BY <1>1, <1>2, TypeSpec, PTL DEF Spec

\* build_where_clause, chrono_now: an export between two dates has exactly the
\* entries of these days by the calendar, for every clock, log and pair of dates;
\* it rests on the proof that days_to_ymd is the Gregorian calendar.
THEOREM FilterIsByDay == Spec => []FilterByDay
<1>1. ExportInv => FilterByDay
  BY DEF ExportInv, FilterByDay, Falls
<1>2. QED
  BY <1>1, ExportSpec, PTL

-----------------------------------------------------------------------------
(***************************************************************************)
(* The walk through the pages of a list.  As long as no row goes away, a   *)
(* row only moves towards the end: what came in before it cannot bring it  *)
(* back to a page that was shown.                                          *)
(***************************************************************************)
Total(v) == IF v.kind = "list" THEN CountWithFilter(v.filter) ELSE Len(Found)

\* What is due and was not seen has at least b rows before it.
ListBehind(v, b) ==
    v.kind = "list" => \A n \in v.due \ v.seen : Cardinality(Ahead(Matching(v.filter), n)) >= b

SearchBehind(v, b) ==
    v.kind = "search" =>
        \A j \in DOMAIN Order : Order[j] \in v.due \ v.seen => Place(Order, Known, j) > b

Behind(v, b) == ListBehind(v, b) /\ SearchBehind(v, b)

\* The rows the pages so far have gone through.
Through(v) == IF v.stage = "shown" THEN v.page * PageSize ELSE (v.page - 1) * PageSize

WalkOf(v) ==
    v.kind \in Listed =>
        /\ ~v.gone => v.due \subseteq Rows(v) /\ Behind(v, Through(v))
        /\ v.stage = "rows" /\ ~v.late => v.pages = TotalPages(Total(v))
        /\ v.stage = "shown" /\ v.page >= v.pages /\ ~v.late /\ ~v.gone => v.due \subseteq v.seen

WalkInv == WalkOf(visit)

LEMMA FoundIs ==
    /\ ToSet(Found) = Known /\ Found \in Seq(User) /\ Len(Found) \in Nat
    /\ \A j \in DOMAIN Order : Order[j] \in Known =>
          /\ Place(Order, Known, j) \in 1..Len(Found)
          /\ Found[Place(Order, Known, j)] = Order[j]
    /\ \A u \in Known : \E j \in DOMAIN Order : Order[j] = u
<1>1. Order \in Seq(User) /\ User = {Order[n] : n \in DOMAIN Order} /\ DOMAIN Order = 1..Len(Order)
  BY OrderAssumption
<1>2. Found = Filter(Order, Known)
  BY DEF Found, Known
<1>3. {Found[k] : k \in DOMAIN Found} = {Order[j] : j \in DOMAIN Order} \cap Known
  BY <1>1, <1>2, FilterRange
<1>4. ToSet(Found) = Known
  BY <1>1, <1>3 DEF ToSet, Known
<1>5. ASSUME NEW j \in DOMAIN Order, Order[j] \in Known
      PROVE  Place(Order, Known, j) \in 1..Len(Found) /\ Found[Place(Order, Known, j)] = Order[j]
  BY <1>1, <1>2, <1>5, PlaceIn, FilterKeeps
<1>6. Found \in Seq(User)
  BY FoundType
<1>7. QED
  BY SMTT(30), <1>1, <1>4, <1>5, <1>6 DEF Known

LEMMA FoundSet == ToSet(Found) = Known
BY FoundIs

LEMMA FoundSetNext == (ToSet(Found) = Known)'
BY FoundSet, PTL

\* A step of the world takes no row of the audit list away, and moves none forward.
LEMMA ListOnward ==
    ASSUME BaseInv, BaseInv', Grown, NEW f
    PROVE  /\ Matching(f) \subseteq Matching(f)'
           /\ \A n \in Matching(f) : Cardinality(Ahead(Matching(f), n)) <= Cardinality(Ahead(Matching(f), n)')
<1>1. /\ log \in Seq(TrueEntry) /\ log' \in Seq(TrueEntry) /\ Len(log) \in Nat /\ Len(log') \in Nat
      /\ Len(log) <= Len(log') /\ \A n \in 1..Len(log) : log'[n] = log[n]
  BY GrownIs DEF BaseInv, LogInv
<1>2. DOMAIN log = 1..Len(log) /\ DOMAIN log' = 1..Len(log')
  BY <1>1
<1>3. Matching(f) \subseteq 1..Len(log) /\ Matching(f)' \subseteq 1..Len(log')
  BY <1>2 DEF Matching
<1>4. Matching(f) \subseteq Matching(f)'
  BY <1>1, <1>2 DEF Matching
<1>5. ASSUME NEW n \in Matching(f)
      PROVE  Cardinality(Ahead(Matching(f), n)) <= Cardinality(Ahead(Matching(f), n)')
  <2>1. ASSUME NEW m \in Matching(f), Later(m, n) PROVE Later(m, n)'
    BY <1>1, <1>3, <2>1 DEF Later
  <2>2. Ahead(Matching(f), n)' = {m \in Matching(f)' : Later(m, n)'}
    BY DEF Ahead
  <2>3. Ahead(Matching(f), n) \subseteq Ahead(Matching(f), n)'
    BY <1>4, <2>1, <2>2 DEF Ahead
  <2>4. Ahead(Matching(f), n)' \in SUBSET (1..Len(log'))
    BY <1>3, <2>2
  <2>5. IsFiniteSet(Ahead(Matching(f), n)')
    <3>1. IsFiniteSet(1..Len(log'))
      BY <1>1, FS_Interval
    <3>2. PICK A : A = Ahead(Matching(f), n)'
      OBVIOUS
    <3>3. IsFiniteSet(A)
      BY <2>4, <3>1, <3>2, FS_Subset
    <3>4. QED
      BY <3>2, <3>3
  <2>6. QED
    BY <2>3, <2>5, FS_Subset
<1>6. QED
  BY <1>4, <1>5

\* Nor does one that takes no user away, of a search.
LEMMA SearchOnward ==
    ASSUME Known \subseteq Known'
    PROVE  \A j \in DOMAIN Order : Place(Order, Known, j) <= Place(Order, Known', j)
<1>1. Order \in Seq(User) /\ DOMAIN Order = 1..Len(Order)
  BY OrderAssumption
<1>2. PICK T, U : T = Known' /\ U = Known
  OBVIOUS
<1>3. \A i \in 0..Len(Order) : Place(Order, U, i) <= Place(Order, T, i)
  BY <1>1, <1>2, PlaceMonotonic
<1>4. QED
  BY <1>1, <1>2, <1>3

LEMMA NotedLists ==
    ASSUME Noted, visit \in ListVisit, NEW k \in Listed, NEW f, visit.kind = k, visit.filter = f
    PROVE  /\ visit'.kind = k /\ visit'.filter = f /\ visit'.stage = visit.stage
           /\ visit'.page = visit.page /\ visit'.pages = visit.pages
           /\ visit'.due = visit.due /\ visit'.seen = visit.seen
           /\ ~visit'.late => ~visit.late /\ (visit.stage = "rows" => RowsOf(k, f)' = RowsOf(k, f))
           /\ ~visit'.gone => ~visit.gone /\ RowsOf(k, f) \subseteq RowsOf(k, f)'
<1>1. PICK v \in {visit} :
          visit' = CASE v.kind \in Listed ->
                          [v EXCEPT !.late = @ \/ (v.stage = "rows" /\ Rows(v)' # Rows(v)),
                                    !.gone = @ \/ ~(Rows(v) \subseteq Rows(v)')]
                     [] v.kind = "detail" -> [v EXCEPT !.was = @ \cup {acct'[v.user]}]
                     [] OTHER -> v
  BY DEF Noted
<1> DEFINE a == v.late \/ (v.stage = "rows" /\ Rows(v)' # Rows(v))
           b == v.gone \/ ~(Rows(v) \subseteq Rows(v)')
<1>2. visit' = [visit EXCEPT !.late = a, !.gone = b]
  BY <1>1 DEF Listed
<1>3. Rows(v) = RowsOf(k, f) /\ Rows(v)' = RowsOf(k, f)'
  BY DEF Rows, RowsOf
<1>4. a \in BOOLEAN /\ b \in BOOLEAN
  BY DEF ListVisit
<1>5. /\ ~a => ~visit.late /\ (visit.stage = "rows" => RowsOf(k, f)' = RowsOf(k, f))
      /\ ~b => ~visit.gone /\ RowsOf(k, f) \subseteq RowsOf(k, f)'
  BY <1>3
<1> HIDE DEF a, b
<1>6. PICK x \in BOOLEAN, y \in BOOLEAN : x = a /\ y = b
  BY <1>4
<1>7. visit' = [visit EXCEPT !.late = x, !.gone = y]
  BY <1>2, <1>6
<1>8. /\ visit'.kind = k /\ visit'.filter = f /\ visit'.stage = visit.stage
      /\ visit'.page = visit.page /\ visit'.pages = visit.pages
      /\ visit'.due = visit.due /\ visit'.seen = visit.seen
  BY <1>7 DEF ListVisit
<1>9. visit'.late = x /\ visit'.gone = y
  BY <1>7 DEF ListVisit
<1>10. (~visit'.late => ~a) /\ (~visit'.gone => ~b)
  BY <1>6, <1>9
<1>11. QED
  BY <1>5, <1>8, <1>10

LEMMA WalkWorld ==
    ASSUME TypeInv, WalkInv, World
    PROVE  WalkInv'
<1>1. CASE visit.kind \in Listed
  <2>1. visit \in ListVisit
    BY <1>1, VisitKinds DEF TypeInv
  <2>2. BaseInv' /\ Grown /\ BaseInv
    BY WorldKeeps DEF TypeInv
  <2>3. PICK k \in Listed, f \in {visit.filter} : visit.kind = k /\ visit.filter = f
    BY <1>1
  <2>4. /\ visit'.kind = k /\ visit'.filter = f /\ visit'.stage = visit.stage
        /\ visit'.page = visit.page /\ visit'.pages = visit.pages
        /\ visit'.due = visit.due /\ visit'.seen = visit.seen
        /\ ~visit'.late => ~visit.late /\ (visit.stage = "rows" => RowsOf(k, f)' = RowsOf(k, f))
        /\ ~visit'.gone => ~visit.gone /\ RowsOf(k, f) \subseteq RowsOf(k, f)'
    BY <2>1, <2>3, NotedLists DEF World
  <2>5. Rows(visit) = RowsOf(k, f) /\ Rows(visit)' = RowsOf(k, f)'
    BY <2>3, <2>4 DEF Rows, RowsOf
  <2>6. PICK b : b = Through(visit) /\ b = Through(visit)'
    BY <2>4 DEF Through
  <2>7. b \in Int
    BY <2>1, <2>6, SizesAssumption DEF ListVisit, Through
  <2>8. ASSUME ~visit'.gone
        PROVE  visit'.due \subseteq Rows(visit)' /\ Behind(visit, Through(visit))'
    <3>1. visit.due \subseteq Rows(visit) /\ Behind(visit, b)
      BY <1>1, <2>4, <2>6, <2>8 DEF WalkInv, WalkOf
    <3>2. visit'.due \subseteq Rows(visit)'
      BY <2>4, <2>5, <2>8, <3>1
    <3>3. ListBehind(visit, b)'
      <4>1. SUFFICES ASSUME k = "list", NEW n \in visit.due \ visit.seen
                     PROVE  Cardinality(Ahead(Matching(f), n)') >= b
        BY <2>4 DEF ListBehind
      <4>2. n \in Matching(f) /\ Cardinality(Ahead(Matching(f), n)) >= b
        BY <2>3, <3>1, <4>1 DEF Rows, Behind, ListBehind
      <4>3. Cardinality(Ahead(Matching(f), n)) <= Cardinality(Ahead(Matching(f), n)')
        BY <2>2, <4>2, ListOnward
      <4>4. Cardinality(Ahead(Matching(f), n)) \in Nat
        BY <2>2, <4>2, LogType, AheadLess DEF Matching
      <4>5. Cardinality(Ahead(Matching(f), n)') \in Nat
        <5>1. /\ log' \in Seq(TrueEntry) /\ Len(log') \in Nat
          BY <2>2, GrownIs DEF BaseInv, LogInv
        <5>2. IsFiniteSet(1..Len(log'))
          BY <5>1, FS_Interval
        <5>3. Ahead(Matching(f), n)' \in SUBSET (1..Len(log'))
          BY <5>1 DEF Ahead, Matching
        <5>4. PICK A : A = Ahead(Matching(f), n)'
          OBVIOUS
        <5>5. Cardinality(A) \in Nat
          BY <5>2, <5>3, <5>4, FS_Subset, FS_CardinalityType
        <5>6. QED
          BY <5>4, <5>5
      <4>6. QED
        BY <2>7, <4>2, <4>3, <4>4, <4>5
    <3>4. SearchBehind(visit, b)'
      <4>1. SUFFICES ASSUME k = "search", NEW j \in DOMAIN Order, Order[j] \in visit.due \ visit.seen
                     PROVE  Place(Order, Known', j) > b
        BY <2>4 DEF SearchBehind
      <4>2. Known \subseteq Known'
        <5>1. RowsOf(k, f) = ToSet(Found) /\ RowsOf(k, f)' = ToSet(Found)'
          BY <4>1 DEF RowsOf
        <5>2. ToSet(Found) = Known /\ ToSet(Found)' = Known'
          BY FoundSet, FoundSetNext
        <5>3. QED
          BY <2>4, <2>8, <5>1, <5>2
      <4>3. Place(Order, Known, j) <= Place(Order, Known', j) /\ Place(Order, Known, j) > b
        BY <2>3, <3>1, <4>1, <4>2, SearchOnward DEF Behind, SearchBehind
      <4>4. /\ Place(Order, Known, j) \in Nat /\ Place(Order, Known', j) \in Nat
        <5>1. Order \in Seq(User) /\ j \in 0..Len(Order)
          BY OrderAssumption
        <5>2. PICK T : T = Known'
          OBVIOUS
        <5>3. Place(Order, Known, j) \in Nat /\ Place(Order, T, j) \in Nat
          BY <5>1, PlaceGrows
        <5>4. QED
          BY <5>2, <5>3
      <4>5. QED
        BY <2>7, <4>3, <4>4
    <3>5. QED
      BY <2>6, <3>2, <3>3, <3>4 DEF Behind
  <2>9. ASSUME visit'.stage = "rows", ~visit'.late
        PROVE  visit'.pages = TotalPages(Total(visit))'
    <3>1. visit.pages = TotalPages(Total(visit)) /\ RowsOf(k, f)' = RowsOf(k, f)
      BY <1>1, <2>4, <2>9 DEF WalkInv, WalkOf
    <3>2. Total(visit)' = Total(visit)
      <4>1. CASE k = "list"
        BY <2>3, <2>4, <3>1, <4>1 DEF Total, CountWithFilter, RowsOf
      <4>2. CASE k # "list"
        <5>1. ToSet(Found)' = ToSet(Found)
          BY <3>1, <4>2 DEF RowsOf
        <5>2. ToSet(Found) = Known /\ ToSet(Found)' = Known'
          BY FoundSet, FoundSetNext
        <5>3. Known' = Known
          BY <5>1, <5>2
        <5>4. Found = Filter(Order, Known) /\ Found' = Filter(Order, Known')
          BY DEF Found, Known
        <5>5. QED
          BY <2>3, <2>4, <4>2, <5>3, <5>4 DEF Total
      <4>3. QED
        BY <4>1, <4>2
    <3>3. TotalPages(Total(visit))' = TotalPages(Total(visit)')
      BY DEF TotalPages
    <3>4. QED
      BY <2>4, <3>1, <3>2, <3>3
  <2>10. QED
    BY <1>1, <2>3, <2>4, <2>8, <2>9 DEF WalkInv, WalkOf
<1>2. CASE visit.kind \notin Listed
  <2>1. visit'.kind = visit.kind
    <3>1. CASE visit.kind = "detail"
      <4>1. visit \in DetailVisit /\ visit' = [visit EXCEPT !.was = visit.was \cup {acct'[visit.user]}]
        BY <3>1, NotedDetail, VisitKinds DEF World, TypeInv
      <4>2. QED
        BY <4>1 DEF DetailVisit
    <3>2. QED
      BY <3>1, NotedDetail DEF World, TypeInv
  <2>2. QED
    BY <1>2, <2>1 DEF WalkInv, WalkOf
<1>3. QED
  BY <1>1, <1>2

LEMMA Shrinks ==
    ASSUME NEW a \in Nat, NEW b \in Nat, NEW P \in Nat, a <= b
    PROVE  a * P <= b * P /\ a * P \in Nat /\ b * P \in Nat
<1>1. a * P \in Nat /\ b * P \in Nat
  OBVIOUS
<1>2. a * P <= b * P
  BY SMTT(30)
<1>3. QED
  BY <1>1, <1>2

LEMMA BehindLess ==
    ASSUME TypeInv, NEW v \in ListVisit, NEW b \in Int, NEW c \in Int, c <= b, v.due \subseteq Rows(v),
           Behind(v, b)
    PROVE  Behind(v, c)
<1>1. ASSUME v.kind = "list", NEW n \in v.due \ v.seen
      PROVE  Cardinality(Ahead(Matching(v.filter), n)) >= c
  <2>1. n \in Matching(v.filter)
    BY <1>1 DEF Rows
  <2>2. Cardinality(Ahead(Matching(v.filter), n)) \in Nat
    BY <2>1, LogType, AheadLess DEF Matching, TypeInv
  <2>3. Cardinality(Ahead(Matching(v.filter), n)) >= b
    BY <1>1 DEF Behind, ListBehind
  <2>4. QED
    BY <2>2, <2>3
<1>2. ASSUME v.kind = "search", NEW j \in DOMAIN Order, Order[j] \in v.due \ v.seen
      PROVE  Place(Order, Known, j) > c
  <2>1. Place(Order, Known, j) \in Nat
    BY OrderAssumption, PlaceGrows
  <2>2. Place(Order, Known, j) > b
    BY <1>2 DEF Behind, SearchBehind
  <2>3. QED
    BY <2>1, <2>2
<1>3. QED
  BY <1>1, <1>2 DEF Behind, ListBehind, SearchBehind

\* What is not on the page that is fetched lies behind it.
LEMMA PageShows ==
    ASSUME TypeInv, NEW v \in ListVisit, NEW o \in Nat, o = (v.page - 1) * PageSize,
           v.due \subseteq Rows(v), Behind(v, o)
    PROVE  /\ v.kind = "list" => \A n \in v.due \ (v.seen \cup ToSet(PageRows(v))) :
                /\ Cardinality(Ahead(Matching(v.filter), n)) >= o + PageSize
                /\ Cardinality(Ahead(Matching(v.filter), n)) < Total(v)
           /\ v.kind = "search" =>
                \A j \in DOMAIN Order : Order[j] \in v.due \ (v.seen \cup ToSet(PageRows(v))) =>
                    Place(Order, Known, j) > o + PageSize /\ Place(Order, Known, j) <= Total(v)
<1>0. PageSize \in Nat
  BY SizesAssumption
<1>1. ASSUME v.kind = "list", NEW n \in v.due \ (v.seen \cup ToSet(PageRows(v)))
      PROVE  /\ Cardinality(Ahead(Matching(v.filter), n)) >= o + PageSize
             /\ Cardinality(Ahead(Matching(v.filter), n)) < Total(v)
  <2> DEFINE M == Matching(v.filter)
             c == Cardinality(Ahead(M, n))
             s == Sorted(M)
  <2>1. n \in M /\ M \in SUBSET DOMAIN log /\ log \in Seq(Entry)
    BY <1>1, LogType DEF Rows, Matching, TypeInv
  <2>2. c \in Nat /\ c < Cardinality(M)
    BY <2>1, AheadLess
  <2>3. s \in Seq(M) /\ c + 1 \in 1..Len(s) /\ s[c + 1] = n
    BY <2>1, SortedAt
  <2>4. c >= o
    BY <1>1 DEF Behind, ListBehind
  <2>5. PageRows(v) = SubSeq(s, o + 1, Min({o + PageSize, Len(s)}))
    BY <1>1 DEF PageRows, PageWithFilter
  <2>6. n \notin ToSet(PageRows(v))
    BY <1>1
  <2>7. Total(v) = Cardinality(M)
    BY <1>1 DEF Total, CountWithFilter
  <2> HIDE DEF M, c, s
  <2>8. ~(o < c + 1 /\ c + 1 <= o + PageSize)
    <3>1. \A i \in 1..Len(s) : o < i /\ i <= o + PageSize => s[i] \in ToSet(PageRows(v))
      BY <1>0, <2>3, <2>5, PageOfSeq
    <3>2. QED
      BY <2>3, <2>6, <3>1
  <2>9. c >= o + PageSize /\ c < Total(v)
    BY <1>0, <2>2, <2>4, <2>7, <2>8
  <2>10. QED
    BY <2>9 DEF c, M
<1>2. ASSUME v.kind = "search", NEW j \in DOMAIN Order,
             Order[j] \in v.due \ (v.seen \cup ToSet(PageRows(v)))
      PROVE  Place(Order, Known, j) > o + PageSize /\ Place(Order, Known, j) <= Total(v)
  <2>1. Order[j] \in Known
    BY <1>2, FoundIs DEF Rows
  <2>2. PICK i : i = Place(Order, Known, j)
    OBVIOUS
  <2>3. i \in 1..Len(Found) /\ Found[i] = Order[j] /\ Found \in Seq(User) /\ Len(Found) \in Nat
    BY <2>1, <2>2, FoundIs
  <2>4. i > o
    BY <1>2, <2>2 DEF Behind, SearchBehind
  <2>5. PageRows(v) = SubSeq(Found, o + 1, Min({o + PageSize, Len(Found)}))
    BY <1>2 DEF PageRows
  <2>6. ~(i <= o + PageSize)
    <3>1. \A h \in 1..Len(Found) : o < h /\ h <= o + PageSize => Found[h] \in ToSet(PageRows(v))
      BY <1>0, <2>3, <2>5, PageOfSeq
    <3>2. QED
      BY <1>2, <2>3, <2>4, <3>1
  <2>7. Total(v) = Len(Found)
    BY <1>2 DEF Total
  <2>8. i > o + PageSize /\ i <= Total(v)
    BY <1>0, <2>3, <2>6, <2>7
  <2>9. QED
    BY <2>2, <2>8
<1>3. QED
  BY <1>1, <1>2

\* What reading leaves alone.
LEMMA Untouched ==
    ASSUME log' = log, acct' = acct
    PROVE  /\ Known' = Known /\ Found' = Found
           /\ \A f : Matching(f)' = Matching(f)
           /\ \A S, n : Ahead(S, n)' = Ahead(S, n)
           /\ \A k, f : RowsOf(k, f)' = RowsOf(k, f)
BY DEF Known, Matching, RowsOf, Ahead, Found, Later

LEMMA ReadWalk ==
    ASSUME log' = log, acct' = acct, NEW w, visit' = w, WalkOf(w)
    PROVE  WalkInv'
<1>1. /\ Known' = Known /\ Found' = Found /\ \A f : Matching(f)' = Matching(f)
      /\ \A S, n : Ahead(S, n)' = Ahead(S, n)
  BY Untouched
<1>2. Rows(visit)' = Rows(w)
  BY <1>1 DEF Rows
<1>3. ListBehind(visit, Through(visit))' = ListBehind(w, Through(w))
  BY <1>1 DEF ListBehind, Through
<1>4. SearchBehind(visit, Through(visit))' = SearchBehind(w, Through(w))
  BY <1>1 DEF SearchBehind, Through
<1>5. Total(visit)' = Total(w)
  BY <1>1 DEF Total, CountWithFilter
<1>6. TotalPages(Total(visit))' = TotalPages(Total(w))
  BY <1>5 DEF TotalPages
<1>7. Behind(visit, Through(visit))' = Behind(w, Through(w))
  BY <1>3, <1>4 DEF Behind
<1>8. QED
  BY <1>2, <1>6, <1>7 DEF WalkInv, WalkOf

\* The fields that say how far the walk has come.
Alike(v, w) == v.kind = w.kind /\ v.filter = w.filter /\ v.due = w.due /\ v.gone = w.gone

LEMMA AlikeRows ==
    ASSUME NEW v, NEW w, Alike(v, w)
    PROVE  Rows(v) = Rows(w) /\ Total(v) = Total(w)
BY DEF Alike, Rows, Total

LEMMA AlikeBehind ==
    ASSUME NEW v, NEW w, Alike(v, w), v.seen = w.seen, NEW b, Behind(v, b)
    PROVE  Behind(w, b)
BY DEF Alike, Behind, ListBehind, SearchBehind

LEMMA WalkOpens ==
    ASSUME TypeInv, OpenList, NEW w, visit' = w
    PROVE  WalkOf(w)
<1>1. PICK k \in Listed, f \in Filters \cup {None}, n \in 0..MaxPage :
          /\ w.kind = k /\ w.filter = f /\ w.stage = "count"
          /\ w.page = Asked(n) /\ w.seen = {} /\ w.gone = FALSE
          /\ w.due = IF Asked(n) = 1 THEN RowsOf(k, f) ELSE {}
  BY OpenListIs
<1>2. Rows(w) = RowsOf(k, f)
  BY <1>1 DEF Rows, RowsOf
<1>3. w.due \subseteq Rows(w)
  BY <1>1, <1>2
<1>4. w.due # {} => Through(w) = 0
  <2>1. w.due # {} => w.page = 1
    BY <1>1
  <2>2. (1 - 1) * PageSize = 0
    BY SizesAssumption
  <2>3. QED
    BY <1>1, <2>1, <2>2 DEF Through
<1>5. ListBehind(w, Through(w))
  <2>1. SUFFICES ASSUME w.kind = "list", NEW m \in w.due \ w.seen
                 PROVE  Cardinality(Ahead(Matching(w.filter), m)) >= Through(w)
    BY DEF ListBehind
  <2>2. m \in Matching(w.filter) /\ Through(w) = 0
    BY <1>1, <1>4, <2>1 DEF RowsOf
  <2>3. Cardinality(Ahead(Matching(w.filter), m)) \in Nat
    BY <2>2, LogType, AheadLess DEF Matching, TypeInv
  <2>4. QED
    BY <2>2, <2>3
<1>6. SearchBehind(w, Through(w))
  <2>1. SUFFICES ASSUME w.kind = "search", NEW j \in DOMAIN Order, Order[j] \in w.due \ w.seen
                 PROVE  Place(Order, Known, j) > Through(w)
    BY DEF SearchBehind
  <2>2. Order[j] \in Known /\ Through(w) = 0
    BY <1>1, <1>4, <2>1, FoundSet DEF RowsOf
  <2>3. Place(Order, Known, j) \in 1..Len(Found)
    BY <2>2, FoundIs
  <2>4. QED
    BY <2>2, <2>3
<1>7. QED
  BY <1>1, <1>3, <1>5, <1>6 DEF WalkOf, Behind

LEMMA WalkCounts ==
    ASSUME TypeInv, WalkInv, Count, ~Broken, NEW w, visit' = w
    PROVE  WalkOf(w)
<1>1. visit \in ListVisit /\ visit.stage = "count" /\ visit.kind \in Listed
  BY VisitKinds DEF Count, TypeInv
<1>2. w = [visit EXCEPT !.stage = "rows", !.pages = TotalPages(Total(visit)),
                        !.page = PageOf(visit, TotalPages(Total(visit))), !.late = FALSE]
  BY DEF Count, Total
<1>3. /\ w.kind = visit.kind /\ w.filter = visit.filter /\ w.due = visit.due /\ w.seen = visit.seen
      /\ w.gone = visit.gone /\ w.stage = "rows" /\ w.pages = TotalPages(Total(visit))
      /\ w.page = PageOf(visit, TotalPages(Total(visit)))
  BY <1>1, <1>2 DEF ListVisit
<1>4. Alike(visit, w) /\ Rows(w) = Rows(visit) /\ Total(w) = Total(visit)
  BY <1>3, AlikeRows DEF Alike
<1>5. w.page \in Nat \ {0} /\ w.page <= visit.page /\ visit.page \in Nat \ {0}
  <2>1. Total(visit) \in Nat
    <3>1. Matching(visit.filter) \in SUBSET DOMAIN log
      BY DEF Matching
    <3>2. QED
      BY <3>1, CountedType, FoundIs DEF Total, CountWithFilter, TypeInv
  <2>2. PICK m : m = TotalPages(Total(visit))
    OBVIOUS
  <2>3. m \in Nat \ {0}
    BY <2>1, <2>2, TotalPagesIs
  <2>4. visit.page \in Nat \ {0}
    BY <1>1 DEF ListVisit
  <2>5. Min({visit.page, m}) = IF visit.page <= m THEN visit.page ELSE m
    BY <2>3, <2>4, MinTwo
  <2>6. QED
    BY <1>3, <2>2, <2>3, <2>4, <2>5 DEF PageOf
<1>6. PICK b \in Nat, c \in Nat : b = (visit.page - 1) * PageSize /\ c = (w.page - 1) * PageSize /\ c <= b
  <2>1. w.page - 1 \in Nat /\ visit.page - 1 \in Nat /\ w.page - 1 <= visit.page - 1 /\ PageSize \in Nat
    BY <1>5, SizesAssumption
  <2>2. QED
    BY <2>1, Shrinks
<1>7. Through(visit) = b /\ Through(w) = c
  BY <1>1, <1>3, <1>6 DEF Through
<1>8. ASSUME ~w.gone PROVE w.due \subseteq Rows(w) /\ Behind(w, c)
  <2>1. visit.due \subseteq Rows(visit) /\ Behind(visit, b)
    BY <1>1, <1>3, <1>7, <1>8 DEF WalkInv, WalkOf
  <2>2. Behind(visit, c)
    BY <1>1, <1>6, <2>1, BehindLess
  <2>3. QED
    BY <1>3, <1>4, <2>1, <2>2, AlikeBehind
<1>9. QED
  BY <1>3, <1>4, <1>7, <1>8 DEF WalkOf

LEMMA WalkFetches ==
    ASSUME TypeInv, WalkInv, FetchRows, ~Broken, NEW w, visit' = w
    PROVE  WalkOf(w)
<1>1. visit \in ListVisit /\ visit.stage = "rows" /\ visit.kind \in Listed
  BY VisitKinds DEF FetchRows, TypeInv
<1>2. PICK q : q = ToSet(PageRows(visit))
  OBVIOUS
<1>3. /\ w.kind = visit.kind /\ w.filter = visit.filter /\ w.due = visit.due /\ w.seen = visit.seen \cup q
      /\ w.gone = visit.gone /\ w.late = visit.late /\ w.stage = "shown" /\ w.pages = visit.pages
      /\ w.page = visit.page
  <2>1. PICK r : r = PageRows(visit)
    OBVIOUS
  <2>2. w = [visit EXCEPT !.stage = "shown", !.rows = r, !.seen = visit.seen \cup q]
    BY <1>2, <2>1 DEF FetchRows
  <2>3. QED
    BY <1>1, <2>2 DEF ListVisit
<1>4. Alike(visit, w) /\ Rows(w) = Rows(visit) /\ Total(w) = Total(visit)
  BY <1>3, AlikeRows DEF Alike
<1>5. /\ visit.page \in Nat \ {0} /\ visit.pages \in Nat \ {0} /\ PageSize \in Nat
  BY <1>1, SizesAssumption DEF ListVisit
<1>6. PICK o \in Nat, b \in Nat : /\ o = (visit.page - 1) * PageSize /\ b = visit.page * PageSize
                                  /\ b = o + PageSize
  <2>1. /\ (visit.page - 1) * PageSize \in Nat /\ visit.page * PageSize \in Nat
    BY <1>5
  <2>2. visit.page * PageSize = (visit.page - 1) * PageSize + PageSize
    BY <1>5, SMTT(30)
  <2>3. QED
    BY <2>1, <2>2
<1>7. Through(visit) = o /\ Through(w) = b
  BY <1>1, <1>3, <1>6 DEF Through
<1>8. ASSUME ~w.gone
      PROVE  /\ w.due \subseteq Rows(w) /\ Behind(w, b)
             /\ w.kind = "list" => \A n \in w.due \ w.seen :
                  /\ Cardinality(Ahead(Matching(w.filter), n)) >= b
                  /\ Cardinality(Ahead(Matching(w.filter), n)) < Total(w)
             /\ w.kind = "search" =>
                  \A j \in DOMAIN Order : Order[j] \in w.due \ w.seen =>
                     Place(Order, Known, j) > b /\ Place(Order, Known, j) <= Total(w)
  <2>1. visit.due \subseteq Rows(visit) /\ Behind(visit, o)
    BY <1>1, <1>3, <1>7, <1>8 DEF WalkInv, WalkOf
  <2>2. /\ visit.kind = "list" => \A n \in visit.due \ (visit.seen \cup ToSet(PageRows(visit))) :
                /\ Cardinality(Ahead(Matching(visit.filter), n)) >= o + PageSize
                /\ Cardinality(Ahead(Matching(visit.filter), n)) < Total(visit)
        /\ visit.kind = "search" =>
             \A j \in DOMAIN Order : Order[j] \in visit.due \ (visit.seen \cup ToSet(PageRows(visit))) =>
                 Place(Order, Known, j) > o + PageSize /\ Place(Order, Known, j) <= Total(visit)
    BY <1>1, <1>6, <2>1, PageShows
  <2>3. /\ w.kind = "list" => \A n \in w.due \ w.seen :
                  /\ Cardinality(Ahead(Matching(w.filter), n)) >= b
                  /\ Cardinality(Ahead(Matching(w.filter), n)) < Total(w)
        /\ w.kind = "search" =>
                  \A j \in DOMAIN Order : Order[j] \in w.due \ w.seen =>
                     Place(Order, Known, j) > b /\ Place(Order, Known, j) <= Total(w)
    BY <1>2, <1>3, <1>4, <1>6, <2>2
  <2>4. QED
    BY <1>3, <1>4, <2>1, <2>3 DEF Behind, ListBehind, SearchBehind
<1>9. ASSUME w.page >= w.pages, ~w.late, ~w.gone
      PROVE  w.due \subseteq w.seen
  <2>1. visit.pages = TotalPages(Total(visit))
    BY <1>1, <1>3, <1>9 DEF WalkInv, WalkOf
  <2>2. Total(visit) \in Nat
    <3>1. Matching(visit.filter) \in SUBSET DOMAIN log
      BY DEF Matching
    <3>2. QED
      BY <3>1, CountedType, FoundIs DEF Total, CountWithFilter, TypeInv
  <2>3. Total(w) \in Nat /\ Total(w) <= b
    <3>1. Total(visit) <= visit.pages * PageSize
      BY <2>1, <2>2, TotalPagesIs
    <3>2. visit.pages * PageSize <= visit.page * PageSize /\ visit.pages * PageSize \in Nat
      BY <1>3, <1>5, <1>9, Shrinks
    <3>3. QED
      BY <1>4, <1>6, <2>2, <3>1, <3>2
  <2>4. CASE w.kind = "list"
    <3>1. ASSUME NEW n \in w.due \ w.seen PROVE FALSE
      <4>1. /\ Cardinality(Ahead(Matching(w.filter), n)) >= b
            /\ Cardinality(Ahead(Matching(w.filter), n)) < Total(w)
        BY <1>8, <1>9, <2>4, <3>1
      <4>2. n \in Matching(w.filter)
        BY <1>8, <1>9, <2>4, <3>1 DEF Rows
      <4>3. Cardinality(Ahead(Matching(w.filter), n)) \in Nat
        BY <4>2, LogType, AheadLess DEF Matching, TypeInv
      <4>4. QED
        BY <2>3, <4>1, <4>3
    <3>2. QED
      BY <3>1
  <2>5. CASE w.kind = "search"
    <3>1. ASSUME NEW u \in w.due \ w.seen PROVE FALSE
      <4>1. u \in Known
        BY <1>8, <1>9, <2>5, <3>1, FoundSet DEF Rows
      <4>2. PICK j \in DOMAIN Order : Order[j] = u
        BY <4>1, FoundIs
      <4>3. Place(Order, Known, j) > b /\ Place(Order, Known, j) <= Total(w)
        BY <1>8, <1>9, <2>5, <3>1, <4>2
      <4>4. Place(Order, Known, j) \in Nat
        BY OrderAssumption, PlaceGrows
      <4>5. QED
        BY <2>3, <4>3, <4>4
    <3>2. QED
      BY <3>1
  <2>6. QED
    BY <1>1, <1>3, <2>4, <2>5 DEF Listed
<1>10. QED
  BY <1>3, <1>7, <1>8, <1>9 DEF WalkOf

LEMMA WalkFollows ==
    ASSUME TypeInv, WalkInv, FollowNext, NEW w, visit' = w
    PROVE  WalkOf(w)
<1>1. visit \in ListVisit /\ visit.stage = "shown" /\ visit.kind \in Listed
  BY VisitKinds DEF FollowNext, TypeInv
<1>2. w = [visit EXCEPT !.stage = "count", !.page = visit.page + 1, !.rows = <<>>]
  BY DEF FollowNext
<1>3. /\ w.kind = visit.kind /\ w.filter = visit.filter /\ w.due = visit.due /\ w.seen = visit.seen
      /\ w.gone = visit.gone /\ w.stage = "count" /\ w.page = visit.page + 1
  BY <1>1, <1>2 DEF ListVisit
<1>4. Alike(visit, w) /\ Rows(w) = Rows(visit)
  BY <1>3, AlikeRows DEF Alike
<1>5. Through(w) = Through(visit)
  <2>1. visit.page \in Nat /\ visit.page + 1 - 1 = visit.page
    BY <1>1 DEF ListVisit
  <2>2. QED
    BY <1>1, <1>3, <2>1 DEF Through
<1>6. ASSUME ~w.gone PROVE w.due \subseteq Rows(w) /\ Behind(w, Through(w))
  <2>1. visit.due \subseteq Rows(visit) /\ Behind(visit, Through(visit))
    BY <1>1, <1>3, <1>6 DEF WalkInv, WalkOf
  <2>2. QED
    BY <1>3, <1>4, <1>5, <2>1, AlikeBehind
<1>7. QED
  BY <1>3, <1>6 DEF WalkOf

LEMMA WalkRead ==
    ASSUME TypeInv, WalkInv, Read
    PROVE  WalkInv'
<1>0. log' = log /\ acct' = acct
  BY ReadKeeps DEF TypeInv, logVars
<1>1. PICK w : visit' = w
  OBVIOUS
<1>2. WalkOf(w)
  <2>1. CASE OpenList
    BY <1>1, <2>1, WalkOpens
  <2>2. CASE Count /\ ~Broken
    BY <1>1, <2>2, WalkCounts
  <2>3. CASE FetchRows /\ ~Broken
    BY <1>1, <2>3, WalkFetches
  <2>4. CASE FollowNext
    BY <1>1, <2>4, WalkFollows
  <2>5. CASE Broken
    BY <1>1, <2>5 DEF Broken, WalkOf, Listed
  <2>6. CASE ~Broken /\ (Export \/ OpenDetail \/ OpenDashboard)
    BY <1>1, <2>6 DEF Export, OpenDetail, OpenDashboard, WalkOf, Listed
  <2>7. CASE GetUser \/ LookUp \/ ListSessions \/ ReadHistory
    <3>1. visit'.kind \in {"detail", "error"}
      BY <2>7, DetailStays DEF TypeInv
    <3>2. QED
      BY <1>1, <3>1 DEF WalkOf, Listed
  <2>8. CASE ~Broken /\ (ReadCounter \/ ReadRecent)
    <3>1. visit \in DashboardVisit
      BY <2>8, VisitKinds DEF ReadCounter, ReadRecent, TypeInv
    <3>2. visit'.kind = visit.kind
      BY <2>8, <3>1 DEF ReadCounter, ReadRecent, DashboardVisit
    <3>3. QED
      BY <1>1, <3>1, <3>2 DEF DashboardVisit, WalkOf, Listed
  <2>9. QED
    BY <2>1, <2>2, <2>3, <2>4, <2>5, <2>6, <2>7, <2>8 DEF Read
<1>3. QED
  BY <1>0, <1>1, <1>2, ReadWalk

LEMMA WalkSpec == Spec => []WalkInv
<1>1. Init => WalkInv
  BY DEF Init, Nothing, WalkInv, WalkOf, Listed
<1>2. TypeInv /\ WalkInv /\ [Next]_vars => WalkInv'
  <2>1. CASE UNCHANGED vars
    <3>1. SUFFICES ASSUME TypeInv, WalkInv PROVE WalkInv'
      BY <2>1
    <3>2. log' = log /\ acct' = acct /\ visit' = visit
      BY <2>1 DEF vars, logVars
    <3>3. PICK w : w = visit
      OBVIOUS
    <3>4. WalkOf(w)
      BY <3>1, <3>3 DEF WalkInv
    <3>5. QED
      BY <3>2, <3>3, <3>4, ReadWalk
  <2>2. QED
    BY <2>1, WalkWorld, WalkRead DEF Next
<1>3. QED
  BY <1>1, <1>2, TypeSpec, PTL DEF Spec

\* list, search: whoever pages from the first page to the last has seen every row
\* that was there at the start and still is, for any page size, any order and any
\* number of rows that come in meanwhile.
THEOREM WalkStaysWhole == Spec => []WalkSeesAll
<1>1. WalkInv => WalkSeesAll
  BY DEF WalkInv, WalkOf, WalkSeesAll
<1>2. QED
  BY <1>1, WalkSpec, PTL
=============================================================================
