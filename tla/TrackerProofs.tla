---------------------------- MODULE TrackerProofs ----------------------------
(***************************************************************************)
(* Lemmas about the operators of Tracker, for every width of the numbers,  *)
(* which the proofs about the entities that own trackers cite, about the   *)
(* floats that carry a frequency, about induction over a set, about the    *)
(* sets of numbers behind the counters of a tracker, and about queues.     *)
(***************************************************************************)
EXTENDS Tracker, Sequences, FiniteSetTheorems, WellFoundedInduction, TLAPS

-----------------------------------------------------------------------------
(* Induction.  The library's theorems take operators, which the provers    *)
(* cannot instantiate: this one takes the set where the claim holds.       *)

\* The order of the natural numbers, as a relation.
Below == {p \in Nat \X Nat : p[1] < p[2]}

\* It descends nowhere for ever.
LEMMA BelowWF == IsWellFoundedOn(Below, Nat)
<1>1. IsWellFoundedOn(OpToRel(<, Nat), Nat)
  BY NatLessThanWellFounded
<1>2. OpToRel(<, Nat) = Below
  BY DEF OpToRel, Below
<1> QED
  BY <1>1, <1>2

\* A set with 0 that has the successor of each of its numbers has them all.
LEMMA SetInduction ==
  ASSUME NEW S, 0 \in S, \A n \in Nat : n \in S => n + 1 \in S
  PROVE  \A n \in Nat : n \in S
<1> SUFFICES ASSUME NEW k \in Nat, k \notin S PROVE FALSE
  OBVIOUS
<1> DEFINE T == Nat \ S
<1>1. PICK x \in T : \A y \in T : <<y, x>> \notin Below
  BY BelowWF, WFMin
<1>2. x # 0 /\ x - 1 \in Nat
  OBVIOUS
<1>3. x - 1 \in T
  BY <1>2
<1>4. <<x - 1, x>> \in Below
  BY <1>2 DEF Below
<1> QED
  BY <1>1, <1>3, <1>4

-----------------------------------------------------------------------------
(* Floats. *)

\* What the recursion of the powers of two makes of them.
LEMMA PowersOfTwo ==
  /\ PowerOfTwo[0] = 1
  /\ \A k \in 1 .. MaxScale : PowerOfTwo[k] = 2 * PowerOfTwo[k - 1]
<1> DEFINE
  Powers(n, g) == g = [k \in 0 .. n |-> IF k = 0 THEN 1 ELSE 2 * g[k - 1]]
  S == {n \in Nat : n <= MaxScale => \E g : Powers(n, g)}
<1>1. 0 \in S
  <2> DEFINE g == [k \in 0 .. 0 |-> 1]
  <2>1. Powers(0, g)
    OBVIOUS
  <2> QED
    BY <2>1
<1>2. ASSUME NEW n \in Nat, n \in S PROVE n + 1 \in S
  <2>1. CASE n + 1 <= MaxScale
    <3>1. PICK g : Powers(n, g)
      BY <1>2, <2>1, TrackerAssumption
    <3> DEFINE h == [k \in 0 .. n + 1 |->
                       IF k = n + 1 THEN 2 * g[n] ELSE g[k]]
    <3>2. g = [k \in 0 .. n |-> IF k = 0 THEN 1 ELSE 2 * g[k - 1]]
      BY <3>1
    <3>3. ASSUME NEW k \in 0 .. n + 1
          PROVE  h[k] = IF k = 0 THEN 1 ELSE 2 * h[k - 1]
      <4>1. CASE k = n + 1
        BY <4>1
      <4>2. CASE k \in 0 .. n
        <5>1. g[k] = IF k = 0 THEN 1 ELSE 2 * g[k - 1]
          BY <3>2, <4>2
        <5> QED
          BY <4>2, <5>1
      <4> QED
        BY <4>1, <4>2
    <3>4. Powers(n + 1, h)
      BY <3>3
    <3> HIDE DEF Powers, h
    <3> QED
      BY <3>4
  <2>2. CASE ~(n + 1 <= MaxScale)
    BY <2>2
  <2> QED
    BY <2>1, <2>2
<1>3. \A n \in Nat : n \in S
  <2> HIDE DEF S
  <2> QED
    BY <1>1, <1>2, SetInduction
<1>4. PICK g : Powers(MaxScale, g)
  <2> HIDE DEF Powers
  <2> QED
    BY <1>3, TrackerAssumption
<1>5. PowerOfTwo = [k \in 0 .. MaxScale |->
                      IF k = 0 THEN 1 ELSE 2 * PowerOfTwo[k - 1]]
  BY <1>4 DEF PowerOfTwo
<1> QED
  BY <1>5, TrackerAssumption

\* They are positive, and but the first not below 2.
LEMMA PowerType ==
  ASSUME NEW k \in 0 .. MaxScale
  PROVE  PowerOfTwo[k] \in Nat \ {0} /\ (k # 0 => PowerOfTwo[k] >= 2)
<1> DEFINE S == {n \in Nat : n <= MaxScale =>
                   PowerOfTwo[n] \in Nat /\ PowerOfTwo[n] >= 1}
<1>1. 0 \in S
  BY PowersOfTwo
<1>2. ASSUME NEW n \in Nat, n \in S PROVE n + 1 \in S
  <2>1. n + 1 <= MaxScale => PowerOfTwo[n + 1] = 2 * PowerOfTwo[n]
    BY PowersOfTwo, TrackerAssumption
  <2> QED
    BY <1>2, <2>1, TrackerAssumption
<1>3. \A n \in Nat : n \in S
  <2> HIDE DEF S
  <2> QED
    BY <1>1, <1>2, SetInduction
<1>4. PowerOfTwo[k] \in Nat /\ PowerOfTwo[k] >= 1
  BY <1>3, TrackerAssumption
<1>5. k # 0 => /\ PowerOfTwo[k] = 2 * PowerOfTwo[k - 1]
               /\ PowerOfTwo[k - 1] \in Nat /\ PowerOfTwo[k - 1] >= 1
  BY <1>3, PowersOfTwo, TrackerAssumption
<1> QED
  BY <1>4, <1>5

\* The power there is for every scale of a mantissa.
LEMMA LeastPowerIs ==
  ASSUME NEW a \in Nat, NEW b \in Nat
  PROVE  /\ LeastPower(a, b) \in 0 .. MaxScale
         /\ b <= a * PowerOfTwo[LeastPower(a, b)] \/ LeastPower(a, b) = MaxScale
         /\ \/ LeastPower(a, b) = 0
            \/ a * PowerOfTwo[LeastPower(a, b) - 1] < b
<1> DEFINE
  Reached(k) == b <= a * PowerOfTwo[k] \/ k = MaxScale
  Chosen(k) == Reached(k) /\ (k = 0 \/ a * PowerOfTwo[k - 1] < b)
  S == {n \in Nat : n <= MaxScale => ~Reached(n)}
<1>1. ASSUME \A k \in 0 .. MaxScale : ~Chosen(k) PROVE FALSE
  <2>1. 0 \in S
    BY <1>1, TrackerAssumption
  <2>2. ASSUME NEW n \in Nat, n \in S PROVE n + 1 \in S
    <3>1. CASE n + 1 <= MaxScale
      <4>1. n \in 0 .. MaxScale /\ n + 1 \in 0 .. MaxScale
        BY <3>1, TrackerAssumption
      <4>2. PowerOfTwo[n] \in Nat
        BY <4>1, PowerType
      <4>3. a * PowerOfTwo[n] \in Nat
        BY <4>2
      <4>4. a * PowerOfTwo[n] < b
        BY <2>2, <4>1, <4>3
      <4>5. ~Chosen(n + 1)
        BY <1>1, <4>1
      <4> QED
        BY <4>4, <4>5
    <3>2. CASE ~(n + 1 <= MaxScale)
      BY <3>2
    <3> QED
      BY <3>1, <3>2
  <2>3. \A n \in Nat : n \in S
    <3> HIDE DEF S
    <3> QED
      BY <2>1, <2>2, SetInduction
  <2> QED
    BY <2>3, TrackerAssumption
<1>2. \E k \in 0 .. MaxScale : Chosen(k)
  BY <1>1
<1> QED
  BY <1>2 DEF LeastPower

\* Rounding moves a fraction by half at most, and a whole one not at all.
LEMMA Rounded ==
  ASSUME NEW num \in Nat, NEW den \in Nat \ {0}
  PROVE  /\ RoundToEven(num, den) \in Nat
         /\ 2 * (RoundToEven(num, den) * den - num) <= den
         /\ 2 * (num - RoundToEven(num, den) * den) <= den
<1> DEFINE whole == num \div den
           rest == num % den
<1>1. /\ whole \in Nat /\ rest \in Nat /\ rest < den
      /\ num = den * whole + rest
  OBVIOUS
<1>2. \/ RoundToEven(num, den) = whole /\ 2 * rest <= den
      \/ RoundToEven(num, den) = whole + 1 /\ den <= 2 * rest
  BY <1>1 DEF RoundToEven
<1>3. (whole + 1) * den = den * whole + den /\ whole * den = den * whole
  BY <1>1
<1>4. den * whole \in Nat
  BY <1>1
<1> HIDE DEF whole, rest
<1> QED
  BY <1>1, <1>2, <1>3, <1>4

LEMMA RoundedWhole ==
  ASSUME NEW a \in Nat, NEW den \in Nat \ {0}
  PROVE  RoundToEven(a * den, den) = a
<1> DEFINE r == RoundToEven(a * den, den)
<1>1. a * den \in Nat
  OBVIOUS
<1>2. /\ r \in Nat
      /\ 2 * (r * den - a * den) <= den
      /\ 2 * (a * den - r * den) <= den
  BY <1>1, Rounded
<1> HIDE DEF r
<1>3. ASSUME r # a PROVE FALSE
  <2>1. CASE r >= a + 1
    <3>1. r * den >= (a + 1) * den
      BY <1>2, <2>1
    <3>2. (a + 1) * den = a * den + den
      OBVIOUS
    <3> QED
      BY <1>1, <1>2, <3>1, <3>2
  <2>2. CASE a >= r + 1
    <3>1. a * den >= (r + 1) * den
      BY <1>2, <2>2
    <3>2. (r + 1) * den = r * den + den
      BY <1>2
    <3> QED
      BY <1>1, <1>2, <3>1, <3>2
  <2> QED
    BY <1>2, <1>3, <2>1, <2>2
<1> QED
  BY <1>3 DEF r

\* A float is a fraction.
LEMMA FloatType ==
  ASSUME NEW num \in Nat, NEW den \in Nat \ {0}
  PROVE  Float(num, den) \in Frequency
<1> DEFINE up == LeastPower(2 * num, FloatMod * den)
           down == LeastPower(FloatMod * den, num + 1)
<1>1. FloatMod * den \in Nat /\ 2 * num \in Nat /\ num + 1 \in Nat
  BY TrackerAssumption
<1>2. up \in 0 .. MaxScale /\ down \in 0 .. MaxScale
  BY <1>1, LeastPowerIs
<1> HIDE DEF up, down
<1>3. PowerOfTwo[up] \in Nat \ {0} /\ PowerOfTwo[down] \in Nat \ {0}
  BY <1>2, PowerType
<1>4. num * PowerOfTwo[up] \in Nat /\ den * PowerOfTwo[down] \in Nat \ {0}
  BY <1>3
<1>5. RoundToEven(num * PowerOfTwo[up], den * PowerOfTwo[down]) \in Nat
  BY <1>4, Rounded
<1>6. PowerOfTwo[down]
        * RoundToEven(num * PowerOfTwo[up], den * PowerOfTwo[down]) \in Nat
  BY <1>3, <1>5
<1> QED
  BY <1>3, <1>6 DEF Float, Frequency, up, down

\* A fraction below the mantissas is scaled up only.
LEMMA FloatBelow ==
  ASSUME NEW num \in Nat \ {0}, NEW den \in Nat \ {0}, num < FloatMod * den
  PROVE  \E k \in 0 .. MaxScale :
           /\ Float(num, den) = [num |-> RoundToEven(num * PowerOfTwo[k], den),
                                 den |-> PowerOfTwo[k]]
           /\ FloatMod * den <= 2 * num * PowerOfTwo[k] \/ k = MaxScale
<1> DEFINE up == LeastPower(2 * num, FloatMod * den)
           down == LeastPower(FloatMod * den, num + 1)
<1>1. FloatMod * den \in Nat /\ 2 * num \in Nat /\ num + 1 \in Nat
  BY TrackerAssumption
<1>2. /\ up \in 0 .. MaxScale
      /\ FloatMod * den <= 2 * num * PowerOfTwo[up] \/ up = MaxScale
      /\ down \in 0 .. MaxScale
      /\ down = 0 \/ FloatMod * den * PowerOfTwo[down - 1] < num + 1
  BY <1>1, LeastPowerIs
<1> HIDE DEF up, down
<1>3. down = 0
  <2> SUFFICES ASSUME down # 0 PROVE FALSE
    OBVIOUS
  <2>1. down - 1 \in 0 .. MaxScale
    BY <1>2, TrackerAssumption
  <2>2. PowerOfTwo[down - 1] \in Nat \ {0}
    BY <2>1, PowerType
  <2>3. FloatMod * den <= FloatMod * den * PowerOfTwo[down - 1]
    BY <1>1, <2>2
  <2>4. FloatMod * den * PowerOfTwo[down - 1] \in Nat
    BY <1>1, <2>2
  <2> QED
    BY <1>1, <1>2, <2>3, <2>4
<1>4. PowerOfTwo[down] = 1
  BY <1>3, PowersOfTwo
<1>5. PowerOfTwo[up] \in Nat
  BY <1>2, PowerType
<1>6. RoundToEven(num * PowerOfTwo[up], den * PowerOfTwo[down])
        = RoundToEven(num * PowerOfTwo[up], den)
  BY <1>4
<1>7. RoundToEven(num * PowerOfTwo[up], den) \in Nat
  <2>1. num * PowerOfTwo[up] \in Nat
    BY <1>5
  <2> QED
    BY <2>1, Rounded
<1>8. Float(num, den) = [num |-> RoundToEven(num * PowerOfTwo[up], den),
                         den |-> PowerOfTwo[up]]
  BY <1>4, <1>6, <1>7 DEF Float, up, down
<1> QED
  BY <1>2, <1>8

\* A whole number below the mantissas is kept as it is.
LEMMA FloatExact ==
  ASSUME NEW a \in Nat \ {0}, a < FloatMod, NEW den \in Nat \ {0}
  PROVE  /\ Float(a * den, den).den \in Nat \ {0}
         /\ Float(a * den, den).num = a * Float(a * den, den).den
<1>1. a * den \in Nat \ {0} /\ a * den < FloatMod * den
  <2>1. (a + 1) * den <= FloatMod * den
    BY TrackerAssumption
  <2>2. (a + 1) * den = a * den + den /\ a * den >= den
    OBVIOUS
  <2> QED
    BY <2>1, <2>2, TrackerAssumption
<1>2. PICK k \in 0 .. MaxScale :
        Float(a * den, den)
          = [num |-> RoundToEven(a * den * PowerOfTwo[k], den),
             den |-> PowerOfTwo[k]]
  BY <1>1, FloatBelow
<1>3. PowerOfTwo[k] \in Nat \ {0}
  BY PowerType
<1>4. a * den * PowerOfTwo[k] = a * PowerOfTwo[k] * den
  BY <1>3
<1>5. a * PowerOfTwo[k] \in Nat
  BY <1>3
<1>6. RoundToEven(a * PowerOfTwo[k] * den, den) = a * PowerOfTwo[k]
  BY <1>5, RoundedWhole
<1> QED
  BY <1>2, <1>3, <1>4, <1>6

\* The scales are enough for every frequency of a period below a mantissa.
LEMMA ScaleSuffices ==
  ASSUME NEW p \in Nat \ {0}, p <= FloatMod,
         NEW n \in Nat \ {0}, NEW k \in 0 .. MaxScale,
         FloatMod * p <= 2 * n * PowerOfTwo[k] \/ k = MaxScale
  PROVE  FloatMod * p <= 2 * (n * PowerOfTwo[k])
<1> DEFINE A == PowerOfTwo[k]
<1>1. A \in Nat \ {0}
  BY PowerType
<1> HIDE DEF A
<1>2. 2 * n * A = 2 * (n * A) /\ n * A \in Nat /\ A <= n * A
  BY <1>1
<1>3. FloatMod * p <= FloatMod * FloatMod /\ FloatMod * p \in Nat
  BY TrackerAssumption
<1>4. k = MaxScale => FloatMod * FloatMod <= A
  BY TrackerAssumption DEF A
<1>5. FloatMod * FloatMod \in Nat
  BY TrackerAssumption
<1>6. FloatMod * p <= 2 * (n * A)
  BY <1>1, <1>2, <1>3, <1>4, <1>5 DEF A
<1> QED
  BY <1>6 DEF A

\* A period below half the mantissas that is made a frequency and a period again
\* is the same, or one short.
LEMMA FloatPeriod ==
  ASSUME NEW n \in Nat \ {0}, n < FloatMod,
         NEW p \in Nat \ {0}, 2 * p + 2 <= FloatMod
  PROVE  LET f == Float(n, p)
             q == Float(n * f.den, f.num)
         IN /\ f.num \in Nat \ {0}
            /\ f.den \in Nat \ {0}
            /\ q.num \div q.den \in {p - 1, p}
<1>1. n < FloatMod * p
  <2>1. FloatMod <= FloatMod * p /\ FloatMod * p \in Nat
    BY TrackerAssumption
  <2> QED
    BY <2>1, TrackerAssumption
<1>2. PICK k \in 0 .. MaxScale :
        /\ Float(n, p) = [num |-> RoundToEven(n * PowerOfTwo[k], p),
                          den |-> PowerOfTwo[k]]
        /\ FloatMod * p <= 2 * n * PowerOfTwo[k] \/ k = MaxScale
  BY <1>1, FloatBelow
<1> DEFINE A == PowerOfTwo[k]
           x == n * A
           m == RoundToEven(x, p)
<1>3. /\ A \in Nat \ {0} /\ x \in Nat \ {0} /\ m \in Nat
      /\ 2 * (m * p - x) <= p
      /\ 2 * (x - m * p) <= p
  <2>1. A \in Nat \ {0}
    BY PowerType
  <2> HIDE DEF A
  <2>2. x \in Nat \ {0}
    BY <2>1
  <2> HIDE DEF x
  <2> QED
    BY <2>1, <2>2, Rounded
<1>4. FloatMod * p <= 2 * x
  BY <1>2, ScaleSuffices, TrackerAssumption
<1>5. Float(n, p) = [num |-> m, den |-> A]
  BY <1>2
<1> HIDE DEF A, x, m
<1>6. p < m
  <2>1. m * p \in Nat /\ FloatMod * p \in Nat
    BY <1>3, TrackerAssumption
  <2>2. 2 * x <= 2 * (m * p) + p
    BY <1>3, <2>1
  <2>3. (2 * m + 1) * p = 2 * (m * p) + p
    BY <1>3
  <2>4. FloatMod * p <= (2 * m + 1) * p
    BY <1>3, <1>4, <2>1, <2>2, <2>3
  <2>5. FloatMod <= 2 * m + 1
    <3> SUFFICES ASSUME 2 * m + 2 <= FloatMod PROVE FALSE
      BY <1>3, TrackerAssumption
    <3>1. (2 * m + 2) * p <= FloatMod * p
      BY <1>3, TrackerAssumption
    <3>2. (2 * m + 2) * p = (2 * m + 1) * p + p
      BY <1>3
    <3>3. (2 * m + 1) * p \in Nat
      BY <1>3
    <3> QED
      BY <2>1, <2>4, <3>1, <3>2, <3>3
  <2> QED
    BY <1>3, <2>5, TrackerAssumption
<1>7. x < FloatMod * m
  <2>1. m * p \in Nat /\ FloatMod * m \in Nat
    BY <1>3, TrackerAssumption
  <2>2. (p + 1) * m <= FloatMod * m
    BY <1>3, TrackerAssumption
  <2>3. (p + 1) * m = m * p + m
    BY <1>3
  <2> QED
    BY <1>3, <1>6, <2>1, <2>2, <2>3
<1>8. PICK k2 \in 0 .. MaxScale :
        Float(x, m) = [num |-> RoundToEven(x * PowerOfTwo[k2], m),
                       den |-> PowerOfTwo[k2]]
  <2>1. m \in Nat \ {0}
    BY <1>3, <1>6
  <2> QED
    BY <1>3, <1>7, <2>1, FloatBelow
<1> DEFINE B == PowerOfTwo[k2]
           y == x * B
           m2 == RoundToEven(y, m)
<1>9. /\ B \in Nat \ {0} /\ y \in Nat /\ m2 \in Nat
      /\ 2 * (m2 * m - y) <= m
      /\ 2 * (y - m2 * m) <= m
  <2>1. B \in Nat \ {0}
    BY PowerType
  <2> HIDE DEF B
  <2>2. y \in Nat
    BY <1>3, <2>1
  <2> HIDE DEF y
  <2>3. m \in Nat \ {0}
    BY <1>3, <1>6
  <2> QED
    BY <2>1, <2>2, <2>3, Rounded
<1>10. Float(x, m) = [num |-> m2, den |-> B]
  BY <1>8
<1>11. 2 * (y - m * p * B) <= p * B /\ 2 * (m * p * B - y) <= p * B
  <2>1. y = x * B
    OBVIOUS
  <2> HIDE DEF y, B
  <2>2. 2 * (x - m * p) * B <= p * B
    <3>1. x - m * p \in Int /\ 2 * (x - m * p) \in Int
      BY <1>3
    <3> QED
      BY <1>3, <1>9, <3>1
  <2>3. 2 * (m * p - x) * B <= p * B
    <3>1. m * p - x \in Int /\ 2 * (m * p - x) \in Int
      BY <1>3
    <3> QED
      BY <1>3, <1>9, <3>1
  <2>4. /\ 2 * (x - m * p) * B = 2 * (x * B - m * p * B)
        /\ 2 * (m * p - x) * B = 2 * (m * p * B - x * B)
    BY <1>3, <1>9
  <2> QED
    BY <2>1, <2>2, <2>3, <2>4
<1> HIDE DEF B, y, m2
<1>12. p * B <= m * B - B
  <2>1. (p + 1) * B <= m * B
    BY <1>3, <1>6, <1>9
  <2>2. (p + 1) * B = p * B + B
    BY <1>9
  <2> QED
    BY <1>3, <1>9, <2>1, <2>2
<1> DEFINE d == m2 - p * B
<1>13. d \in Int /\ d < B /\ -d < B
  <2>1. d \in Int /\ d * m \in Int
    BY <1>3, <1>9
  <2>2. d * m = m2 * m - m * p * B
    BY <1>3, <1>9
  <2>3. /\ m2 * m \in Int /\ m * p * B \in Int /\ p * B \in Int
        /\ m * B \in Int
    BY <1>3, <1>9
  <2>4. 2 * (d * m) < m + m * B /\ 2 * (-(d * m)) < m + m * B
    BY <1>3, <1>9, <1>11, <1>12, <2>1, <2>2, <2>3
  <2> HIDE DEF d
  <2>5. ASSUME NEW e \in Int, 2 * (e * m) < m + m * B PROVE e < B
    <3> SUFFICES ASSUME B <= e PROVE FALSE
      BY <1>9
    <3>1. B * m <= e * m
      BY <1>3, <1>6, <1>9
    <3>2. m <= B * m
      BY <1>3, <1>9
    <3>3. B * m = m * B
      BY <1>3, <1>9
    <3>4. B * m \in Int /\ e * m \in Int
      BY <1>3, <1>9
    <3> QED
      BY <1>3, <2>5, <3>1, <3>2, <3>3, <3>4
  <2>6. -(d * m) = (-d) * m /\ -d \in Int
    BY <1>3, <2>1
  <2> QED
    BY <2>1, <2>4, <2>5, <2>6
<1>14. m2 \div B \in {p - 1, p}
  <2> DEFINE w == m2 \div B
             r == m2 % B
  <2>1. w \in Nat /\ r \in Nat /\ r < B /\ m2 = B * w + r
    BY <1>9
  <2> HIDE DEF w, r
  <2>2. B * w \in Nat /\ p * B \in Nat
    BY <1>9, <2>1
  <2>3. w < p + 1
    <3> SUFFICES ASSUME p + 1 <= w PROVE FALSE
      BY <2>1
    <3>1. B * (p + 1) <= B * w
      BY <1>9, <2>1
    <3>2. B * (p + 1) = p * B + B
      BY <1>9
    <3> QED
      BY <1>9, <1>13, <2>1, <2>2, <3>1, <3>2
  <2>4. p - 2 < w
    <3> SUFFICES ASSUME w + 2 <= p PROVE FALSE
      BY <2>1
    <3>1. (w + 2) * B <= p * B
      BY <1>9, <2>1
    <3>2. (w + 2) * B = B * w + 2 * B
      BY <1>9, <2>1
    <3> QED
      BY <1>9, <1>13, <2>1, <2>2, <3>1, <3>2
  <2>5. w \in {p - 1, p}
    BY <2>1, <2>3, <2>4
  <2> QED
    BY <2>5 DEF w
<1> QED
  BY <1>3, <1>5, <1>6, <1>10, <1>14 DEF x

-----------------------------------------------------------------------------
(* Lemmas about the operators of Tracker. *)

\* Adding a sample keeps the counters of a tracker.
LEMMA AddSampleType ==
  ASSUME NEW t \in Trackers, NEW sample \in Nat
  PROVE  /\ AddSample(t, sample) \in Trackers
         /\ AddSample(t, sample).tracking_number_count
              = t.tracking_number_count
         /\ AddSample(t, sample).is_enabled = t.is_enabled
         /\ AddSample(t, sample).lost = t.lost
         /\ AddSample(t, sample).received = t.received
         /\ AddSample(t, sample).stat.n = t.stat.n + 1
<1>1. t.stat \in Stats /\ t.delta_stat \in Stats
  BY DEF Trackers
<1>2. /\ StatWith(t.stat, sample) \in Stats
      /\ StatWith(t.delta_stat, sample) \in Stats
      /\ StatWith(t.stat, sample).n = t.stat.n + 1
  BY <1>1 DEF StatWith, Stats
<1> QED
  BY <1>2 DEF AddSample, Trackers

\* get_and_update_tracking_number returns the count and advances it.
LEMMA GetAndUpdateType ==
  ASSUME NEW t \in Trackers
  PROVE  /\ GetAndUpdateTrackingNumber(t).number = t.tracking_number_count
         /\ GetAndUpdateTrackingNumber(t).tracker \in Trackers
         /\ GetAndUpdateTrackingNumber(t).tracker.tracking_number_count
              = NextNumber(t.tracking_number_count)
         /\ GetAndUpdateTrackingNumber(t).tracker.stat = t.stat
  BY TrackerAssumption DEF GetAndUpdateTrackingNumber, NextNumber, Trackers

\* The difference of two tracking numbers is a tracking number.
LEMMA GapType ==
  ASSUME NEW a \in 0 .. TrackingMod - 1, NEW b \in 0 .. TrackingMod - 1
  PROVE  Gap(a, b) \in 0 .. TrackingMod - 1
  BY TrackerAssumption DEF Gap

\* u is what a received message makes of the tracker t.
Received(u, t, number, lost) ==
  /\ u \in Trackers
  /\ u.is_enabled = t.is_enabled
  /\ u.tracking_number_count = number
  /\ u.lost = t.lost + lost
  /\ u.received = t.received + 1

\* Counting a message keeps the other fields of a tracker.
LEMMA CountedType ==
  ASSUME NEW t \in Trackers, NEW number \in 0 .. TrackingMod - 1,
         NEW lost \in Nat, NEW late \in Nat, NEW tooLate \in Nat
  PROVE  Received(Counted(t, number, lost, late, tooLate), t, number, lost)
<1> SUFFICES ASSUME NEW u,
                    u = [t EXCEPT !.tracking_number_count = number,
                                  !.lost = @ + lost,
                                  !.late = @ + late,
                                  !.too_late = @ + tooLate,
                                  !.received = @ + 1,
                                  !.delta_received = @ + 1]
             PROVE  Received(u, t, number, lost)
  BY DEF Counted
<1>1. u = [is_enabled |-> t.is_enabled, tracking_number_count |-> number,
           lost |-> t.lost + lost, late |-> t.late + late,
           too_late |-> t.too_late + tooLate, received |-> t.received + 1,
           delta_received |-> t.delta_received + 1, stat |-> t.stat,
           delta_stat |-> t.delta_stat]
  BY DEF Trackers
<1> QED BY <1>1 DEF Trackers, Received

\* Sampling the latency of a counted message changes none of its counters.
LEMMA CountedSampleType ==
  ASSUME NEW t \in Trackers, NEW number \in 0 .. TrackingMod - 1,
         NEW lost \in Nat, NEW late \in Nat, NEW tooLate \in Nat,
         NEW sample \in Nat
  PROVE  Received(AddSample(Counted(t, number, lost, late, tooLate), sample),
                  t, number, lost)
<1> DEFINE c == Counted(t, number, lost, late, tooLate)
<1>1. Received(c, t, number, lost)
  BY CountedType
<1> HIDE DEF c
<1>2. c \in Trackers
  BY <1>1 DEF Received
<1>3. Received(AddSample(c, sample), t, number, lost)
  BY <1>1, <1>2, AddSampleType DEF Received
<1> QED
  BY <1>3 DEF c

\* A latency in microseconds is natural, that of a message from a clock that is
\* ahead included.
LEMMA LatencyUsType ==
  ASSUME NEW latency \in Int, -LatencyMod < latency
  PROVE  LatencyUs(latency) \in Nat
<1>1. LatencyMod \in Nat \ {0} /\ NanosPerMicro \in Nat \ {0}
  BY TrackerAssumption
<1>2. CASE latency >= 0
  <2>1. latency \div NanosPerMicro \in Nat
    BY <1>1, <1>2
  <2> QED
    BY <1>2, <2>1 DEF LatencyUs, TruncDiv
<1>3. CASE latency < 0
  <2> DEFINE n == -latency
             q == n \div NanosPerMicro
  <2>1. n \in Nat /\ n < LatencyMod
    BY <1>1, <1>3
  <2>2. q \in Nat /\ q * NanosPerMicro <= n
    <3> HIDE DEF n
    <3> QED
      BY <1>1, <2>1
  <2>3. LatencyUs(latency) = IF -q >= 0 THEN -q ELSE -q + LatencyMod
    BY <1>3 DEF LatencyUs, TruncDiv
  <2> HIDE DEF n, q
  <2>4. q <= q * NanosPerMicro
    BY <1>1, <2>2
  <2>5. q < LatencyMod
    <3>1. q * NanosPerMicro \in Nat
      BY <1>1, <2>2
    <3> QED
      BY <1>1, <2>1, <2>2, <2>4, <3>1
  <2> QED
    BY <1>1, <2>2, <2>3, <2>5
<1> QED
  BY <1>2, <1>3

\* What scan does to a tracker, whatever the latency and the period.
LEMMA ScanType ==
  ASSUME NEW t \in Trackers, NEW header,
         header.tracking_number \in 0 .. TrackingMod - 1,
         NEW latency \in Int, -LatencyMod < latency, NEW period
  PROVE  Received(Scan(t, header, latency, period), t,
                  NextExpected(t, header), NewlyLost(t, header))
<1>1. LatencyUs(latency) \in Nat
  BY LatencyUsType
<1>2. NewlyLost(t, header) \in Nat
  BY GapType DEF NewlyLost, Trackers
<1>3. NextExpected(t, header) \in 0 .. TrackingMod - 1
  BY TrackerAssumption DEF NextExpected, NextNumber, Trackers
<1>4. OneIf(t, IsLate(latency, period)) \in Nat
      /\ OneIf(t, IsTooLate(latency, period)) \in Nat
  BY DEF OneIf
<1> QED
  BY <1>1, <1>2, <1>3, <1>4, CountedSampleType DEF Scan

\* A tracker that is enabled keeps its word of how many it counts as lost: the
\* numbers between the one it expects and one that arrives in order.
LEMMA CountInOrder ==
  ASSUME NEW t \in Trackers, t.is_enabled, NEW header,
         header.tracking_number \in 0 .. TrackingMod - 2,
         t.tracking_number_count <= header.tracking_number
  PROVE  /\ NewlyLost(t, header)
              = header.tracking_number - t.tracking_number_count
         /\ NextExpected(t, header) = header.tracking_number + 1
<1>1. t.tracking_number_count \in 0 .. TrackingMod - 1
  BY DEF Trackers
<1> QED
  BY <1>1, TrackerAssumption DEF NewlyLost, Gap, NextExpected, NextNumber

\* u is what a tracker t that is enabled becomes when n arrives in order.
ReceivedInOrder(u, t, n) ==
  /\ u \in Trackers
  /\ u.is_enabled
  /\ u.tracking_number_count = n + 1
  /\ u.lost = t.lost + (n - t.tracking_number_count)
  /\ u.received = t.received + 1

\* What scan does to a tracker when a number arrives in order.
LEMMA ScanInOrder ==
  ASSUME NEW t \in Trackers, t.is_enabled, NEW header,
         header.tracking_number \in 0 .. TrackingMod - 2,
         t.tracking_number_count <= header.tracking_number,
         NEW latency \in Int, -LatencyMod < latency, NEW period
  PROVE  ReceivedInOrder(Scan(t, header, latency, period), t,
                         header.tracking_number)
<1>1. header.tracking_number \in 0 .. TrackingMod - 1
  BY TrackerAssumption
<1>2. Received(Scan(t, header, latency, period), t,
               NextExpected(t, header), NewlyLost(t, header))
  BY <1>1, ScanType
<1> QED
  BY <1>2, CountInOrder DEF Received, ReceivedInOrder

\* A new tracker has counted nothing.
LEMMA NewTrackerType ==
  ASSUME NEW enabled \in BOOLEAN
  PROVE  /\ NewTracker(enabled) \in Trackers
         /\ NewTracker(enabled).is_enabled = enabled
         /\ NewTracker(enabled).tracking_number_count = 0
         /\ NewTracker(enabled).lost = 0
         /\ NewTracker(enabled).received = 0
         /\ NewTracker(enabled).stat.n = 0
  BY TrackerAssumption DEF NewTracker, Trackers, EmptyStat, Stats

-----------------------------------------------------------------------------
(* The numbers behind the counters of a tracker. *)

\* What the arrival of n, when e was expected, makes of the sets of numbers
\* that have arrived (G) and that are missing (M).
SettledUpTo(G, M, e, n) ==
  /\ (G \union {n}) \intersect (M \union (e .. n - 1)) = {}
  /\ (G \union {n}) \union (M \union (e .. n - 1)) = 0 .. n
  /\ Cardinality(G \union {n}) = Cardinality(G) + 1
  /\ Cardinality(M \union (e .. n - 1)) = Cardinality(M) + (n - e)

\* A message n beyond the numbers settled so far settles those below it.
LEMMA Settle ==
  ASSUME NEW G, NEW M, NEW e \in Nat, NEW n \in Nat, e <= n,
         G \intersect M = {}, G \union M = 0 .. e - 1
  PROVE  SettledUpTo(G, M, e, n)
<1>1. IsFiniteSet(G) /\ IsFiniteSet(M)
  <2>1. IsFiniteSet(0 .. e - 1)
    BY FS_Interval
  <2> QED
    BY <2>1, FS_Subset
<1>2. n \notin G /\ M \intersect (e .. n - 1) = {}
  OBVIOUS
<1>3. (G \union {n}) \intersect (M \union (e .. n - 1)) = {}
  OBVIOUS
<1>4. (G \union {n}) \union (M \union (e .. n - 1)) = 0 .. n
  OBVIOUS
<1>5. Cardinality(G \union {n}) = Cardinality(G) + 1
  BY <1>1, <1>2, FS_AddElement
<1>6. IsFiniteSet(e .. n - 1) /\ Cardinality(e .. n - 1) = n - e
  <2>1. PICK last \in Int : last = n - 1
    OBVIOUS
  <2>2. IsFiniteSet(e .. last)
        /\ Cardinality(e .. last) = IF e > last THEN 0 ELSE last - e + 1
    BY FS_Interval
  <2> QED
    BY <2>1, <2>2
<1>7. Cardinality(G) \in Nat /\ Cardinality(M) \in Nat
  BY <1>1, FS_CardinalityType
<1>8. Cardinality(M \union (e .. n - 1)) = Cardinality(M) + (n - e)
  <2> DEFINE L == e .. n - 1
  <2>1. IsFiniteSet(L) /\ M \intersect L = {} /\ Cardinality(L) = n - e
    BY <1>2, <1>6
  <2> HIDE DEF L
  <2>2. Cardinality(M \union L)
          = Cardinality(M) + Cardinality(L) - Cardinality(M \intersect L)
    BY <1>1, <2>1, FS_Union
  <2>3. Cardinality(M \union L) = Cardinality(M) + (n - e)
    BY <1>7, <2>1, <2>2, FS_EmptySet
  <2> QED
    BY <2>3 DEF L
<1> QED
  BY <1>3, <1>4, <1>5, <1>8 DEF SettledUpTo

\* The same when the missing numbers are those settled that have not arrived.
SettledBelow(A, e, n) ==
  /\ A \union {n} \subseteq 0 .. n
  /\ (0 .. n) \ (A \union {n}) = ((0 .. e - 1) \ A) \union (e .. n - 1)
  /\ Cardinality(A \union {n}) = Cardinality(A) + 1
  /\ Cardinality((0 .. n) \ (A \union {n}))
       = Cardinality((0 .. e - 1) \ A) + (n - e)

LEMMA SettleBelow ==
  ASSUME NEW A, NEW e \in Nat, NEW n \in Nat, e <= n, A \subseteq 0 .. e - 1
  PROVE  SettledBelow(A, e, n)
<1> DEFINE M == (0 .. e - 1) \ A
<1>1. A \intersect M = {} /\ A \union M = 0 .. e - 1
  OBVIOUS
<1>2. SettledUpTo(A, M, e, n)
  BY <1>1, Settle
<1>3. (0 .. n) \ (A \union {n}) = M \union (e .. n - 1)
  OBVIOUS
<1> QED
  BY <1>2, <1>3 DEF SettledUpTo, SettledBelow

\* What the accounting of losses asks of the numbers A that have arrived, the
\* number e expected and an arrival n: it is beyond those settled, and misses
\* those below it that have not arrived.
ArrivalAccounted(A, e, n, top) ==
  /\ \A k \in A \union ((0 .. e - 1) \ A) : k < n
  /\ (0 .. n) \ (A \union {n})
       = ((0 .. e - 1) \ A) \union ({k \in 0 .. top - 1 : k < n} \ A)

LEMMA AccountArrival ==
  ASSUME NEW A, NEW e \in Nat, NEW top \in Nat, NEW n \in 0 .. top - 1,
         e <= n, A \subseteq 0 .. e - 1
  PROVE  ArrivalAccounted(A, e, n, top)
<1>1. {k \in 0 .. top - 1 : k < n} = 0 .. n - 1
  OBVIOUS
<1>2. 0 .. n = (0 .. e - 1) \union (e .. n - 1) \union {n}
  OBVIOUS
<1>3. 0 .. n - 1 = (0 .. e - 1) \union (e .. n - 1)
  OBVIOUS
<1>4. (e .. n - 1) \intersect A = {} /\ n \notin A /\ n \notin 0 .. n - 1
  OBVIOUS
<1>5. (0 .. n) \ (A \union {n})
        = ((0 .. e - 1) \ A) \union ((0 .. n - 1) \ A)
  BY <1>2, <1>3, <1>4
<1> QED
  BY <1>1, <1>5 DEF ArrivalAccounted

-----------------------------------------------------------------------------
(* Queues of messages. *)

\* A queue that is not empty has a first message and a rest.
LEMMA QueueType ==
  ASSUME NEW S, NEW queue \in Seq(S), queue # <<>>
  PROVE  /\ Head(queue) \in S
         /\ Tail(queue) \in Seq(S)
         /\ Len(queue) \in Nat \ {0}
         /\ Len(Tail(queue)) = Len(queue) - 1
         /\ Head(queue) = queue[1]
         /\ 1 \in DOMAIN queue
         /\ \A i \in DOMAIN Tail(queue) : /\ i \in Nat \ {0}
                                          /\ i + 1 \in DOMAIN queue
                                          /\ Tail(queue)[i] = queue[i + 1]
  OBVIOUS

\* A message appended to a queue is its last.
LEMMA AppendType ==
  ASSUME NEW S, NEW queue \in Seq(S), NEW n \in S
  PROVE  /\ Append(queue, n) \in Seq(S)
         /\ Len(queue) \in Nat
         /\ Len(Append(queue, n)) = Len(queue) + 1
         /\ DOMAIN queue = 1 .. Len(queue)
         /\ DOMAIN Append(queue, n) = 1 .. Len(queue) + 1
         /\ Append(queue, n)[Len(queue) + 1] = n
         /\ \A i \in DOMAIN queue : Append(queue, n)[i] = queue[i]
  OBVIOUS
=============================================================================
