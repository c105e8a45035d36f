---------------------------- MODULE Ordering_proofs ----------------------------
(***************************************************************************)
(* What ORDER BY returns: every row once, in the order asked for.          *)
(***************************************************************************)
EXTENDS Ordering, Sequences, FiniteSetTheorems, SequenceTheorems, TLAPS

\* R orders the elements of S strictly and totally.
Orders(R, S) ==
  /\ \A x \in S : <<x, x>> \notin R
  /\ \A x, y, z \in S : <<x, y>> \in R /\ <<y, z>> \in R => <<x, z>> \in R
  /\ \A x, y \in S : x = y \/ <<x, y>> \in R \/ <<y, x>> \in R

Below(R, S, x) == {y \in S : <<y, x>> \in R}

\* The number of rows before a row is less than the number of rows, and grows
\* along the order.
LEMMA Places ==
  ASSUME NEW S, IsFiniteSet(S), NEW R, Orders(R, S)
  PROVE  /\ \A x \in S : Cardinality(Below(R, S, x)) \in 0..(Cardinality(S) - 1)
         /\ \A x, y \in S : <<x, y>> \in R
              => Cardinality(Below(R, S, x)) < Cardinality(Below(R, S, y))
<1>1. Cardinality(S) \in Nat
  BY FS_CardinalityType
<1>2. ASSUME NEW x \in S
      PROVE  IsFiniteSet(Below(R, S, x)) /\ Cardinality(Below(R, S, x)) \in Nat
  <2>1. Below(R, S, x) \in SUBSET S
    BY DEF Below
  <2>2. QED
    BY <2>1, FS_Subset, FS_CardinalityType
<1>3. ASSUME NEW x \in S PROVE Cardinality(Below(R, S, x)) < Cardinality(S)
  <2>1. Below(R, S, x) \in SUBSET S /\ x \notin Below(R, S, x)
    BY DEF Below, Orders
  <2>2. /\ Cardinality(Below(R, S, x)) <= Cardinality(S)
        /\ Cardinality(S) = Cardinality(Below(R, S, x)) => S = Below(R, S, x)
    BY <2>1, FS_Subset
  <2>3. QED
    BY <1>1, <1>2, <2>1, <2>2
<1>4. ASSUME NEW x \in S, NEW y \in S, <<x, y>> \in R
      PROVE  Cardinality(Below(R, S, x)) < Cardinality(Below(R, S, y))
  <2>1. /\ Below(R, S, x) \in SUBSET Below(R, S, y)
        /\ x \in Below(R, S, y) /\ x \notin Below(R, S, x)
    BY <1>4 DEF Below, Orders
  <2>2. /\ Cardinality(Below(R, S, x)) <= Cardinality(Below(R, S, y))
        /\ Cardinality(Below(R, S, y)) = Cardinality(Below(R, S, x))
             => Below(R, S, y) = Below(R, S, x)
    BY <1>2, <2>1, FS_Subset
  <2>3. QED
    BY <1>2, <2>1, <2>2
<1>5. QED
  BY <1>1, <1>2, <1>3, <1>4

\* A row for every place: the numbering of the rows is one to one.
LEMMA Placed ==
  ASSUME NEW S, IsFiniteSet(S), NEW R, Orders(R, S), NEW k \in 1..Cardinality(S)
  PROVE  \E x \in S : Cardinality(Below(R, S, x)) = k - 1
<1> DEFINE n == Cardinality(S)
           place == [x \in S |-> Cardinality(Below(R, S, x)) + 1]
<1>1. n \in Nat /\ IsFiniteSet(1..n) /\ Cardinality(1..n) = n
  BY FS_CardinalityType, FS_Interval
<1>2. place \in Injection(S, 1..n)
  <2>1. place \in [S -> 1..n]
    BY <1>1, Places
  <2>2. ASSUME NEW x \in S, NEW y \in S, place[x] = place[y] PROVE x = y
    <3>1. Cardinality(Below(R, S, x)) = Cardinality(Below(R, S, y))
      <4>1. /\ place[x] = Cardinality(Below(R, S, x)) + 1
            /\ place[y] = Cardinality(Below(R, S, y)) + 1
        OBVIOUS
      <4>2. /\ Cardinality(Below(R, S, x)) \in Int
            /\ Cardinality(Below(R, S, y)) \in Int
        BY <1>1, Places
      <4>3. QED
        BY <2>2, <4>1, <4>2
    <3>2. <<x, y>> \notin R /\ <<y, x>> \notin R
      BY <3>1, Places, <1>1
    <3>3. QED
      BY <3>2 DEF Orders
  <2>3. QED
    BY <2>1, <2>2 DEF Injection, IsInjective
<1>3. place \in Surjection(S, 1..n)
  BY <1>1, <1>2, FS_Injection
<1>4. PICK x \in S : place[x] = k
  BY <1>3 DEF Surjection
<1>5. QED
  BY <1>1, <1>4, Places

\* ORDER BY returns each row once, in order.
LEMMA OrderedRows ==
  ASSUME NEW S, IsFiniteSet(S), NEW R, Orders(R, S),
         NEW T, NEW s \in [1..Cardinality(S) -> T],
         \A k \in 1..Cardinality(S), x \in S :
           Cardinality(Below(R, S, x)) = k - 1
             => s[k] \in S /\ Cardinality(Below(R, S, s[k])) = k - 1
  PROVE  /\ s \in Seq(S) /\ Len(s) = Cardinality(S)
         /\ S \subseteq {s[k] : k \in 1..Len(s)}
         /\ \A j, k \in 1..Len(s) : j < k => <<s[j], s[k]>> \in R
<1> DEFINE n == Cardinality(S)
<1>1. n \in Nat
  BY FS_CardinalityType
<1>2. \A k \in 1..n : s[k] \in S /\ Cardinality(Below(R, S, s[k])) = k - 1
  BY Placed
<1>3. s \in Seq(S) /\ Len(s) = n
  BY <1>1, <1>2
<1>4. ASSUME NEW x \in S PROVE \E k \in 1..n : s[k] = x
  <2>1. PICK k \in 1..n : k = Cardinality(Below(R, S, x)) + 1
    BY <1>1, Places
  <2>2. Cardinality(Below(R, S, s[k])) = Cardinality(Below(R, S, x)) /\ s[k] \in S
    BY <1>1, <1>2, <2>1, Places
  <2>3. <<s[k], x>> \notin R /\ <<x, s[k]>> \notin R
    BY <2>2, <1>1, Places
  <2>4. s[k] = x
    BY <2>2, <2>3 DEF Orders
  <2>5. QED
    BY <2>4
<1>5. ASSUME NEW j \in 1..n, NEW k \in 1..n, j < k PROVE <<s[j], s[k]>> \in R
  <2>1. /\ s[j] \in S /\ s[k] \in S
        /\ Cardinality(Below(R, S, s[j])) = j - 1
        /\ Cardinality(Below(R, S, s[k])) = k - 1
    BY <1>2
  <2>2. s[j] # s[k] /\ <<s[k], s[j]>> \notin R
    BY <1>1, <1>5, <2>1, Places
  <2>3. QED
    BY <2>1, <2>2 DEF Orders
<1>6. QED
  BY <1>3, <1>4, <1>5

\* The rows of an interval, when the order is that of their numbers.
LEMMA IntervalRows ==
  ASSUME NEW a \in Nat, NEW b \in Nat, a <= b,
         NEW T, NEW s \in [1..Cardinality(a + 1..b) -> T],
         \A k \in 1..Cardinality(a + 1..b), x \in a + 1..b :
           Cardinality({y \in a + 1..b : y < x}) = k - 1
             => /\ s[k] \in a + 1..b
                /\ Cardinality({y \in a + 1..b : y < s[k]}) = k - 1
  PROVE  s = [k \in 1..b - a |-> a + k]
<1>1. Cardinality(a + 1..b) = b - a
  <2>1. PICK c \in Int : c = a + 1
    OBVIOUS
  <2>2. Cardinality(c..b) = IF c > b THEN 0 ELSE b - c + 1
    BY FS_Interval
  <2>3. QED
    BY <2>1, <2>2
<1>2. ASSUME NEW x \in a + 1..b
      PROVE  Cardinality({y \in a + 1..b : y < x}) = x - a - 1
  <2>1. PICK c \in Int, d \in Int : c = a + 1 /\ d = x - 1
    OBVIOUS
  <2>2. {y \in a + 1..b : y < x} = c..d
    BY <2>1
  <2>3. Cardinality(c..d) = IF c > d THEN 0 ELSE d - c + 1
    BY FS_Interval
  <2>4. Cardinality(c..d) = x - a - 1
    BY <2>1, <2>3
  <2>5. QED
    BY <2>2, <2>4
<1>3. ASSUME NEW k \in 1..b - a PROVE s[k] = a + k
  <2>0. PICK x \in a + 1..b : x = a + k
    OBVIOUS
  <2>1. x \in a + 1..b /\ Cardinality({y \in a + 1..b : y < x}) = k - 1
    BY <1>2, <2>0
  <2>2. s[k] \in a + 1..b /\ Cardinality({y \in a + 1..b : y < s[k]}) = k - 1
    BY <1>1, <2>1
  <2>3. s[k] - a - 1 = k - 1
    BY <1>2, <2>2
  <2>4. QED
    BY <2>2, <2>3
<1>4. s \in [1..b - a -> T]
  BY <1>1
<1>5. QED
  BY <1>3, <1>4

\* Counting on from where the last page ended.
LEMMA CountedOn ==
  ASSUME NEW c \in Nat, NEW m \in Nat,
         NEW s, s = [i \in 1..c |-> i], NEW t, t = [k \in 1..m |-> c + k]
  PROVE  s \o t = [i \in 1..c + m |-> i]
<1>1. /\ s \in Seq(Nat) /\ Len(s) = c
      /\ t \in Seq(Nat) /\ Len(t) = m
  OBVIOUS
<1>2. s \o t \in Seq(Nat) /\ Len(s \o t) = c + m
  BY <1>1
<1>3. ASSUME NEW i \in 1..c + m PROVE (s \o t)[i] = i
  <2>1. CASE i <= c
    BY <1>1, <2>1
  <2>2. CASE i > c
    <3>1. i - c \in 1..m
      BY <2>2
    <3>2. (s \o t)[i] = t[i - c]
      BY <1>1, <2>2
    <3>3. t[i - c] = c + (i - c)
      BY <3>1
    <3>4. QED
      BY <3>2, <3>3
  <2>3. QED
    BY <2>1, <2>2
<1>4. QED
  BY <1>2, <1>3

\* What holds of one row at most counts as none or one.
LEMMA AtMostOne ==
  ASSUME NEW S, \A x, y \in S : x = y
  PROVE  Cardinality(S) = IF S = {} THEN 0 ELSE 1
<1>1. CASE S = {}
  BY <1>1, FS_EmptySet
<1>2. ASSUME NEW x \in S PROVE Cardinality(S) = 1
  <2>1. S = {x}
    OBVIOUS
  <2>2. QED
    BY <2>1, FS_Singleton
<1>3. QED
  BY <1>1, <1>2

================================================================================
