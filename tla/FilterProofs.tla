----------------------------- MODULE FilterProofs -----------------------------
(***************************************************************************)
(* What a filtered sequence holds.  The proofs go by induction over the    *)
(* elements: every property is the set of the indices it holds at, and a   *)
(* set of naturals that lacks one lacks a least one.                       *)
(***************************************************************************)
EXTENDS Filter, SequenceTheorems, WellFoundedInduction, TLAPS

LEMMA LeastNatural ==
    ASSUME NEW T \in SUBSET Nat, T # {}
    PROVE  \E x \in T : \A y \in T : x <= y
<1>1. PICK x \in T : \A y \in T : ~(<<y, x>> \in OpToRel(<,Nat))
  BY NatLessThanWellFounded, WFMin
<1>2. ASSUME NEW y \in T, y < x PROVE FALSE
  <2>1. <<y, x>> \in Nat \X Nat /\ <<y, x>>[1] < <<y, x>>[2]
    BY <1>2
  <2>2. <<y, x>> \in OpToRel(<,Nat)
    BY <2>1 DEF OpToRel
  <2> QED
    BY <2>2, <1>1
<1> QED
  BY <1>2

LEMMA SetInduction ==
    ASSUME NEW n \in Nat, NEW S, 0 \in S, \A i \in 0..n : i < n /\ i \in S => i + 1 \in S
    PROVE  0..n \subseteq S
<1> SUFFICES ASSUME (0..n) \ S # {}
             PROVE  FALSE
  OBVIOUS
<1>0. (0..n) \ S \in SUBSET Nat
  OBVIOUS
<1>1. PICK x \in (0..n) \ S : \A y \in (0..n) \ S : x <= y
  BY <1>0, LeastNatural
<1>2. x # 0 /\ x - 1 \in 0..n /\ x - 1 < x
  BY <1>1
<1>3. x - 1 \in S
  BY <1>1, <1>2
<1> QED
  BY <1>1, <1>2, <1>3

-----------------------------------------------------------------------------
\* The recursion defines a function.
LEMMA KeptStep ==
    ASSUME NEW X, NEW s \in Seq(X), NEW T
    PROVE  Kept(s, T) = [i \in 0..Len(s) |->
                IF i = 0 THEN <<>>
                ELSE IF s[i] \in T THEN Append(Kept(s, T)[i - 1], s[i]) ELSE Kept(s, T)[i - 1]]
<1> DEFINE Rec(g, n) == g = [i \in 0..n |->
                IF i = 0 THEN <<>> ELSE IF s[i] \in T THEN Append(g[i - 1], s[i]) ELSE g[i - 1]]
           S == {n \in 0..Len(s) : \E g : Rec(g, n)}
<1>0. Len(s) \in Nat
  OBVIOUS
<1>1. 0 \in S
  <2>1. Rec([i \in 0..0 |-> <<>>], 0)
    OBVIOUS
  <2> HIDE DEF Rec
  <2> QED
    BY <1>0, <2>1
<1>2. ASSUME NEW n \in 0..Len(s), n < Len(s), n \in S
      PROVE  n + 1 \in S
  <2>1. PICK g : Rec(g, n)
    BY <1>2
  <2> DEFINE m == n + 1
             h == [i \in 0..m |-> IF i = m THEN IF s[m] \in T THEN Append(g[n], s[m]) ELSE g[n]
                                  ELSE g[i]]
  <2>2. ASSUME NEW i \in 0..m
        PROVE  h[i] = IF i = 0 THEN <<>> ELSE IF s[i] \in T THEN Append(h[i - 1], s[i]) ELSE h[i - 1]
    <3>1. CASE i = m
      <4>1. h[i] = IF s[m] \in T THEN Append(g[n], s[m]) ELSE g[n]
        BY <3>1
      <4>2. i # 0 /\ i - 1 = n /\ n \in 0..m /\ n # m
        BY <3>1
      <4>3. h[i - 1] = g[n]
        BY <4>2
      <4> QED
        BY <3>1, <4>1, <4>2, <4>3
    <3>2. CASE i # m /\ i # 0
      <4>1. h[i] = g[i] /\ i \in 0..n
        BY <3>2
      <4>2. i - 1 \in 0..m /\ i - 1 # m
        BY <3>2
      <4>3. h[i - 1] = g[i - 1]
        BY <4>2
      <4> QED
        BY <2>1, <3>2, <4>1, <4>3
    <3>3. CASE i = 0
      BY <2>1, <3>3
    <3> QED
      BY <3>1, <3>2, <3>3
  <2> HIDE DEF h
  <2>3. h = [i \in 0..m |-> h[i]]
    BY DEF h
  <2>4. Rec(h, m)
    BY <2>2, <2>3
  <2>5. m \in 0..Len(s)
    BY <1>0, <1>2
  <2> HIDE DEF Rec
  <2> QED
    BY <2>4, <2>5
<1>3. 0..Len(s) \subseteq S
  <2> HIDE DEF S
  <2> QED
    BY <1>0, <1>1, <1>2, SetInduction
<1>4. \E g : Rec(g, Len(s))
  <2>1. Len(s) \in 0..Len(s)
    BY <1>0
  <2>2. Len(s) \in S
    BY <1>3, <2>1
  <2> HIDE DEF Rec
  <2> QED
    BY <2>2
<1>5. Kept(s, T) = CHOOSE g : Rec(g, Len(s))
  BY DEF Kept
<1> HIDE DEF Rec
<1>6. Rec(Kept(s, T), Len(s))
  BY <1>4, <1>5
<1> QED
  BY <1>6 DEF Rec

LEMMA KeptAt ==
    ASSUME NEW X, NEW s \in Seq(X), NEW T
    PROVE  /\ Kept(s, T)[0] = <<>>
           /\ \A i \in 1..Len(s) : Kept(s, T)[i] =
                 IF s[i] \in T THEN Append(Kept(s, T)[i - 1], s[i]) ELSE Kept(s, T)[i - 1]
<1> DEFINE K == Kept(s, T)
<1>1. K = [i \in 0..Len(s) |->
                IF i = 0 THEN <<>> ELSE IF s[i] \in T THEN Append(K[i - 1], s[i]) ELSE K[i - 1]]
  BY KeptStep
<1> HIDE DEF K
<1>2. Len(s) \in Nat
  OBVIOUS
<1>3. K[0] = <<>>
  BY <1>1, <1>2
<1>4. ASSUME NEW i \in 1..Len(s)
      PROVE  K[i] = IF s[i] \in T THEN Append(K[i - 1], s[i]) ELSE K[i - 1]
  <2>1. i \in 0..Len(s) /\ i # 0
    BY <1>2
  <2> DEFINE e(x) == IF x = 0 THEN <<>>
                     ELSE IF s[x] \in T THEN Append(K[x - 1], s[x]) ELSE K[x - 1]
  <2>2. K = [x \in 0..Len(s) |-> e(x)]
    BY <1>1
  <2> HIDE DEF e
  <2>3. K[i] = e(i)
    BY <2>1, <2>2
  <2> QED
    BY <2>1, <2>3 DEF e
<1> QED
  BY <1>3, <1>4 DEF K

LEMMA KeptType ==
    ASSUME NEW X, NEW s \in Seq(X), NEW T
    PROVE  \A i \in 0..Len(s) : Kept(s, T)[i] \in Seq(X \cap T) /\ Len(Kept(s, T)[i]) <= i
<1> DEFINE K == Kept(s, T)
           S == {i \in 0..Len(s) : K[i] \in Seq(X \cap T) /\ Len(K[i]) <= i}
<1>0. Len(s) \in Nat /\ \A i \in 1..Len(s) : s[i] \in X
  BY ElementOfSeq
<1>1. 0 \in S
  <2>1. K[0] = <<>> /\ <<>> \in Seq(X \cap T) /\ Len(<<>>) = 0
    BY KeptAt, EmptySeq
  <2> HIDE DEF K
  <2>2. K[0] \in Seq(X \cap T) /\ Len(K[0]) <= 0 /\ 0 \in 0..Len(s)
    BY <1>0, <2>1
  <2> QED
    BY <2>2
<1>2. ASSUME NEW i \in 0..Len(s), i < Len(s), i \in S
      PROVE  i + 1 \in S
  <2> DEFINE j == i + 1
  <2>1. j \in 1..Len(s) /\ j - 1 = i /\ j \in 0..Len(s)
    BY <1>0, <1>2
  <2>2. K[j] = IF s[j] \in T THEN Append(K[i], s[j]) ELSE K[i]
    BY <2>1, KeptAt
  <2>3. K[i] \in Seq(X \cap T) /\ Len(K[i]) \in Nat /\ Len(K[i]) <= i
    BY <1>2
  <2> HIDE DEF K
  <2>4. CASE s[j] \in T
    <3>1. s[j] \in X \cap T
      BY <1>0, <2>1, <2>4
    <3>2. K[j] \in Seq(X \cap T) /\ Len(K[j]) = Len(K[i]) + 1
      BY <2>2, <2>3, <2>4, <3>1, AppendProperties
    <3> QED
      BY <2>1, <2>3, <3>2
  <2>5. CASE s[j] \notin T
    BY <2>1, <2>2, <2>3, <2>5
  <2> QED
    BY <2>4, <2>5
<1> HIDE DEF S
<1>3. 0..Len(s) \subseteq S
  BY <1>0, <1>1, <1>2, SetInduction
<1> QED
  BY <1>3 DEF S

\* The place that the filtered sequence gives to the element s[i], if it keeps it.
Place(s, T, i) == Len(Kept(s, T)[i])

\* One more element: it goes to the end, or nothing changes.
LEMMA PlaceNext ==
    ASSUME NEW X, NEW s \in Seq(X), NEW T, NEW i \in 1..Len(s)
    PROVE  /\ Place(s, T, i - 1) \in Nat
           /\ Place(s, T, i) = IF s[i] \in T THEN Place(s, T, i - 1) + 1 ELSE Place(s, T, i - 1)
<1> DEFINE K == Kept(s, T)
<1>1. i - 1 \in 0..Len(s) /\ s[i] \in X
  BY ElementOfSeq
<1>2. K[i - 1] \in Seq(X \cap T)
  BY <1>1, KeptType
<1>3. K[i] = IF s[i] \in T THEN Append(K[i - 1], s[i]) ELSE K[i - 1]
  BY KeptAt
<1> HIDE DEF K
<1>4. CASE s[i] \in T
  <2>1. s[i] \in X \cap T /\ K[i] = Append(K[i - 1], s[i])
    BY <1>1, <1>3, <1>4
  <2>2. Len(K[i]) = Len(K[i - 1]) + 1
    BY <1>2, <2>1, AppendProperties
  <2> QED
    BY <1>2, <1>4, <2>2 DEF Place, K
<1>5. CASE s[i] \notin T
  BY <1>2, <1>3, <1>5 DEF Place, K
<1> QED
  BY <1>4, <1>5

LEMMA KeptLast ==
    ASSUME NEW X, NEW s \in Seq(X), NEW T, NEW i \in 1..Len(s), s[i] \in T
    PROVE  Kept(s, T)[i][Place(s, T, i)] = s[i]
<1> DEFINE K == Kept(s, T)
<1>1. i - 1 \in 0..Len(s) /\ s[i] \in X \cap T
  BY ElementOfSeq
<1>2. K[i - 1] \in Seq(X \cap T)
  BY <1>1, KeptType
<1>3. K[i] = Append(K[i - 1], s[i])
  BY KeptAt
<1> HIDE DEF K
<1>4. Len(K[i]) = Len(K[i - 1]) + 1 /\ K[i][Len(K[i - 1]) + 1] = s[i]
  BY <1>1, <1>2, <1>3, AppendProperties
<1> QED
  BY <1>4 DEF Place, K

LEMMA KeptBefore ==
    ASSUME NEW X, NEW s \in Seq(X), NEW T, NEW i \in 1..Len(s), NEW k \in 1..Place(s, T, i - 1)
    PROVE  Kept(s, T)[i][k] = Kept(s, T)[i - 1][k]
<1> DEFINE K == Kept(s, T)
<1>1. i - 1 \in 0..Len(s) /\ s[i] \in X
  BY ElementOfSeq
<1>2. K[i - 1] \in Seq(X \cap T)
  BY <1>1, KeptType
<1>3. K[i] = IF s[i] \in T THEN Append(K[i - 1], s[i]) ELSE K[i - 1]
  BY KeptAt
<1>4. k \in 1..Len(K[i - 1])
  BY DEF Place
<1> HIDE DEF K
<1>5. CASE s[i] \in T
  <2>1. s[i] \in X \cap T /\ K[i] = Append(K[i - 1], s[i])
    BY <1>1, <1>3, <1>5
  <2>2. K[i][k] = K[i - 1][k]
    BY <1>2, <1>4, <2>1, AppendProperties
  <2> QED
    BY <2>2 DEF K
<1>6. CASE s[i] \notin T
  BY <1>3, <1>6 DEF K
<1> QED
  BY <1>5, <1>6

\* The places grow with the elements.
LEMMA PlaceGrows ==
    ASSUME NEW X, NEW s \in Seq(X), NEW T
    PROVE  \A i \in 0..Len(s) : /\ Place(s, T, i) \in Nat
                                /\ \A j \in 0..i : Place(s, T, j) <= Place(s, T, i)
<1> DEFINE P(j) == Place(s, T, j)
           S == {i \in 0..Len(s) : P(i) \in Nat /\ \A j \in 0..i : P(j) <= P(i)}
<1>0. Len(s) \in Nat
  OBVIOUS
<1>1. 0 \in S
  <2>1. P(0) = 0
    BY KeptAt DEF Place
  <2> QED
    BY <1>0, <2>1
<1>2. ASSUME NEW i \in 0..Len(s), i < Len(s), i \in S
      PROVE  i + 1 \in S
  <2>1. i + 1 \in 1..Len(s) /\ (i + 1) - 1 = i /\ i + 1 \in 0..Len(s)
    BY <1>0, <1>2
  <2>2. P(i + 1) \in Nat /\ P(i) <= P(i + 1)
    <3> DEFINE n == i + 1
    <3> HIDE DEF n
    <3>1. n \in 1..Len(s) /\ n - 1 = i
      BY <2>1 DEF n
    <3>2. /\ Place(s, T, n - 1) \in Nat
          /\ Place(s, T, n) = IF s[n] \in T THEN Place(s, T, n - 1) + 1 ELSE Place(s, T, n - 1)
      BY <3>1, PlaceNext
    <3>3. P(n) \in Nat /\ P(i) <= P(n)
      BY <3>1, <3>2
    <3> QED
      BY <3>3 DEF n
  <2> HIDE DEF P
  <2>3. ASSUME NEW j \in 0..(i + 1) PROVE P(j) <= P(i + 1)
    <3>1. CASE j \in 0..i
      <4>1. P(j) <= P(i) /\ P(i) \in Nat
        BY <1>2, <3>1
      <4>2. P(j) \in Int
        <5>1. CASE j = 0
          BY <5>1, KeptAt DEF P, Place
        <5>2. CASE j # 0
          <6>1. j \in 0..Len(s)
            BY <1>0, <1>2, <3>1
          <6> QED
            BY <6>1, KeptType DEF P, Place
        <5> QED
          BY <5>1, <5>2
      <4> QED
        BY <2>2, <4>1, <4>2
    <3>2. CASE j = i + 1
      BY <2>2, <3>2
    <3> QED
      BY <3>1, <3>2
  <2> QED
    BY <2>1, <2>2, <2>3
<1> HIDE DEF S
<1>3. 0..Len(s) \subseteq S
  BY <1>0, <1>1, <1>2, SetInduction
<1> QED
  BY <1>3 DEF S

\* What is kept of the first i elements is each of them that is in the set, at
\* its place, and nothing else.
LEMMA KeptHolds ==
    ASSUME NEW X, NEW s \in Seq(X), NEW T
    PROVE  \A i \in 0..Len(s) : \A j \in 1..i : s[j] \in T => Kept(s, T)[i][Place(s, T, j)] = s[j]
<1> DEFINE P(j) == Place(s, T, j)
           K == Kept(s, T)
           S == {i \in 0..Len(s) : \A j \in 1..i : s[j] \in T => K[i][P(j)] = s[j]}
<1>0. Len(s) \in Nat
  OBVIOUS
<1>1. 0 \in S
  BY <1>0
<1>2. ASSUME NEW i \in 0..Len(s), i < Len(s), i \in S
      PROVE  i + 1 \in S
  <2> DEFINE n == i + 1
  <2>1. n \in 1..Len(s) /\ n - 1 = i /\ n \in 0..Len(s)
    BY <1>0, <1>2
  <2> HIDE DEF n
  <2>2. s[n] \in T => K[n][P(n)] = s[n]
    BY <2>1, KeptLast
  <2>3. ASSUME NEW k \in 1..P(i) PROVE K[n][k] = K[i][k]
    <3>1. k \in 1..Place(s, T, n - 1)
      BY <2>1
    <3>2. Kept(s, T)[n][k] = Kept(s, T)[n - 1][k]
      BY <2>1, <3>1, KeptBefore
    <3> QED
      BY <2>1, <3>2
  <2>4. ASSUME NEW j \in 1..i, s[j] \in T
        PROVE  P(j) \in 1..P(i)
    <3>1. j \in 1..Len(s) /\ j \in 0..i /\ j - 1 \in 0..Len(s)
      BY <1>0, <1>2
    <3>2. P(j) <= P(i) /\ P(i) \in Nat /\ P(j - 1) \in Nat
      BY <3>1, PlaceGrows
    <3>3. P(j) = P(j - 1) + 1
      BY <2>4, <3>1, PlaceNext
    <3> QED
      BY <3>2, <3>3
  <2> HIDE DEF P, K
  <2>5. ASSUME NEW j \in 1..n, s[j] \in T
        PROVE  K[n][P(j)] = s[j]
    <3>1. CASE j = n
      BY <2>2, <2>5, <3>1
    <3>2. CASE j # n
      <4>1. j \in 1..i
        BY <2>1, <3>2 DEF n
      <4>2. K[i][P(j)] = s[j] /\ P(j) \in 1..P(i)
        BY <1>2, <2>4, <2>5, <4>1
      <4> QED
        BY <2>1, <2>3, <4>2
    <3> QED
      BY <3>1, <3>2
  <2> QED
    BY <2>1, <2>5 DEF n
<1> HIDE DEF S
<1>3. 0..Len(s) \subseteq S
  BY <1>0, <1>1, <1>2, SetInduction
<1> QED
  BY <1>3 DEF S

LEMMA PlacesFilled ==
    ASSUME NEW X, NEW s \in Seq(X), NEW T
    PROVE  \A i \in 0..Len(s) : \A k \in 1..Place(s, T, i) :
                \E j \in 1..i : s[j] \in T /\ k = Place(s, T, j)
<1> DEFINE P(j) == Place(s, T, j)
           S == {i \in 0..Len(s) : \A k \in 1..P(i) : \E j \in 1..i : s[j] \in T /\ k = P(j)}
<1>0. Len(s) \in Nat
  OBVIOUS
<1>1. 0 \in S
  <2>1. P(0) = 0
    BY KeptAt DEF Place
  <2> QED
    BY <1>0, <2>1
<1>2. ASSUME NEW i \in 0..Len(s), i < Len(s), i \in S
      PROVE  i + 1 \in S
  <2> DEFINE n == i + 1
  <2>1. n \in 1..Len(s) /\ n - 1 = i /\ n \in 0..Len(s)
    BY <1>0, <1>2
  <2> HIDE DEF n
  <2>2. P(n - 1) \in Nat /\ P(n) = IF s[n] \in T THEN P(n - 1) + 1 ELSE P(n - 1)
    BY <2>1, PlaceNext
  <2> HIDE DEF P
  <2>3. ASSUME NEW k \in 1..P(n)
        PROVE  \E j \in 1..n : s[j] \in T /\ k = P(j)
    <3>1. CASE k \in 1..P(i)
      <4>1. PICK j \in 1..i : s[j] \in T /\ k = P(j)
        BY <1>2, <3>1
      <4>2. j \in 1..n
        BY <2>1, <4>1
      <4> QED
        BY <4>1, <4>2
    <3>2. CASE k \notin 1..P(i)
      <4>1. s[n] \in T /\ k = P(n) /\ n \in 1..n
        BY <2>1, <2>2, <3>2
      <4> QED
        BY <4>1
    <3> QED
      BY <3>1, <3>2
  <2> QED
    BY <2>1, <2>3 DEF n
<1> HIDE DEF S
<1>3. 0..Len(s) \subseteq S
  BY <1>0, <1>1, <1>2, SetInduction
<1> QED
  BY <1>3 DEF S

-----------------------------------------------------------------------------
(***************************************************************************)
(* The filtered sequence.                                                  *)
(***************************************************************************)
LEMMA FilterType ==
    ASSUME NEW X, NEW s \in Seq(X), NEW T
    PROVE  Filter(s, T) \in Seq(X \cap T)
<1>1. Len(s) \in 0..Len(s)
  OBVIOUS
<1>2. Kept(s, T)[Len(s)] \in Seq(X \cap T)
  BY <1>1, KeptType
<1> QED
  BY <1>2 DEF Filter

LEMMA FilterLen ==
    ASSUME NEW X, NEW s \in Seq(X), NEW T
    PROVE  Len(Filter(s, T)) = Place(s, T, Len(s))
BY DEF Filter, Place

\* Every element that is in the set has its place ...
LEMMA PlaceIn ==
    ASSUME NEW X, NEW s \in Seq(X), NEW T, NEW j \in 1..Len(s), s[j] \in T
    PROVE  Place(s, T, j) \in 1..Len(Filter(s, T))
<1>1. Len(s) \in 0..Len(s) /\ j \in 0..Len(s) /\ j - 1 \in 0..Len(s)
  OBVIOUS
<1>2. Place(s, T, j) <= Place(s, T, Len(s)) /\ Place(s, T, Len(s)) \in Nat
  BY <1>1, PlaceGrows
<1>3. Place(s, T, j) = Place(s, T, j - 1) + 1 /\ Place(s, T, j - 1) \in Nat
  BY <1>1, PlaceNext
<1>4. Len(Filter(s, T)) = Place(s, T, Len(s))
  BY FilterLen
<1> QED
  BY <1>2, <1>3, <1>4

LEMMA FilterKeeps ==
    ASSUME NEW X, NEW s \in Seq(X), NEW T, NEW j \in 1..Len(s), s[j] \in T
    PROVE  Filter(s, T)[Place(s, T, j)] = s[j]
<1>1. Len(s) \in 0..Len(s)
  OBVIOUS
<1>2. Kept(s, T)[Len(s)][Place(s, T, j)] = s[j]
  BY <1>1, KeptHolds
<1> QED
  BY <1>2 DEF Filter

\* ... and every place is that of such an element.
LEMMA FilterFrom ==
    ASSUME NEW X, NEW s \in Seq(X), NEW T, NEW k \in 1..Len(Filter(s, T))
    PROVE  \E j \in 1..Len(s) : /\ s[j] \in T /\ k = Place(s, T, j)
                                /\ Filter(s, T)[k] = s[j]
<1>1. Len(s) \in 0..Len(s) /\ k \in 1..Place(s, T, Len(s))
  BY FilterLen
<1>2. \A i \in 0..Len(s) : \A x \in 1..Place(s, T, i) :
         \E j \in 1..i : s[j] \in T /\ x = Place(s, T, j)
  BY PlacesFilled
<1>3. PICK j \in 1..Len(s) : s[j] \in T /\ k = Place(s, T, j)
  BY <1>1, <1>2
<1>4. Filter(s, T)[Place(s, T, j)] = s[j]
  BY <1>3, FilterKeeps
<1> QED
  BY <1>3, <1>4

\* The order is that of the sequence.
LEMMA FilterOrder ==
    ASSUME NEW X, NEW s \in Seq(X), NEW T, NEW i \in 1..Len(s), NEW j \in 1..Len(s),
           i < j, s[j] \in T
    PROVE  Place(s, T, i) < Place(s, T, j)
<1>1. j - 1 \in 0..Len(s) /\ i \in 0..(j - 1) /\ i \in 0..Len(s)
  OBVIOUS
<1>2. /\ Place(s, T, i) <= Place(s, T, j - 1) /\ Place(s, T, j - 1) \in Nat
      /\ Place(s, T, i) \in Nat
  BY <1>1, PlaceGrows
<1>3. Place(s, T, j) = Place(s, T, j - 1) + 1
  BY PlaceNext
<1> QED
  BY <1>2, <1>3

\* Its elements are those of the sequence that are in the set.
LEMMA FilterRange ==
    ASSUME NEW X, NEW s \in Seq(X), NEW T
    PROVE  {Filter(s, T)[k] : k \in DOMAIN Filter(s, T)} = {s[j] : j \in DOMAIN s} \cap T
<1> DEFINE F == Filter(s, T)
<1>1. ASSUME NEW k \in 1..Len(F) PROVE F[k] \in {s[j] : j \in 1..Len(s)} \cap T
  <2>1. PICK j \in 1..Len(s) : s[j] \in T /\ F[k] = s[j]
    BY FilterFrom
  <2> QED
    BY <2>1
<1>2. ASSUME NEW j \in 1..Len(s), s[j] \in T PROVE \E k \in 1..Len(F) : F[k] = s[j]
  BY <1>2, FilterKeeps, PlaceIn
<1>3. F \in Seq(X \cap T)
  BY FilterType
<1> HIDE DEF F
<1>4. {F[k] : k \in DOMAIN F} = {s[j] : j \in DOMAIN s} \cap T
  BY <1>1, <1>2, <1>3, LenProperties
<1> QED
  BY <1>4 DEF F

\* With a smaller set no element moves to a later place.
LEMMA PlaceMonotonic ==
    ASSUME NEW X, NEW s \in Seq(X), NEW T, NEW U, U \subseteq T
    PROVE  \A i \in 0..Len(s) : Place(s, U, i) <= Place(s, T, i)
<1> DEFINE S == {i \in 0..Len(s) : Place(s, U, i) <= Place(s, T, i)}
<1>0. Len(s) \in Nat
  OBVIOUS
<1>1. 0 \in S
  BY <1>0, KeptAt DEF Place
<1>2. ASSUME NEW i \in 0..Len(s), i < Len(s), i \in S
      PROVE  i + 1 \in S
  <2> DEFINE n == i + 1
  <2>1. n \in 1..Len(s) /\ n - 1 = i /\ n \in 0..Len(s)
    BY <1>0, <1>2
  <2> HIDE DEF n
  <2>2. /\ Place(s, T, n - 1) \in Nat
        /\ Place(s, T, n) = IF s[n] \in T THEN Place(s, T, n - 1) + 1 ELSE Place(s, T, n - 1)
    BY <2>1, PlaceNext
  <2>3. /\ Place(s, U, n - 1) \in Nat
        /\ Place(s, U, n) = IF s[n] \in U THEN Place(s, U, n - 1) + 1 ELSE Place(s, U, n - 1)
    BY <2>1, PlaceNext
  <2>4. Place(s, U, n) <= Place(s, T, n)
    BY <1>2, <2>1, <2>2, <2>3
  <2> QED
    BY <2>1, <2>4 DEF n
<1> HIDE DEF S
<1>3. 0..Len(s) \subseteq S
  BY <1>0, <1>1, <1>2, SetInduction
<1> QED
  BY <1>3 DEF S
=============================================================================
