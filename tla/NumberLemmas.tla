---------------------------- MODULE NumberLemmas ----------------------------
(***************************************************************************)
(* What the proofs about multi-precision arithmetic need of numbers: the   *)
(* principle of induction for a set, powers of two, remainders, and that a *)
(* sum defined by recursion is what its definition says.                   *)
(***************************************************************************)
EXTENDS Integers, FiniteSets, TLAPS, FiniteSetTheorems, FunctionTheorems, WellFoundedInduction

-----------------------------------------------------------------------------
(* Induction.                                                              *)

Below == {p \in Nat \X Nat : p[1] < p[2]}

\* The order of the natural numbers, as a relation, is well-founded.
LEMMA BelowWellFounded == IsWellFoundedOn(Below, Nat)
  BY NatLessThanWellFounded DEF OpToRel, Below

\* A set that contains 0 and the successor of each of its numbers contains all.
LEMMA SetInduction ==
    ASSUME NEW S, 0 \in S, \A n \in Nat : n \in S => n + 1 \in S
    PROVE  Nat \subseteq S
<1> SUFFICES ASSUME Nat \ S # {}
             PROVE  FALSE
  OBVIOUS
<1>1. PICK n \in Nat \ S : \A m \in Nat \ S : <<m, n>> \notin Below
  <2>1. Nat \ S \subseteq Nat
    OBVIOUS
  <2> QED
    BY <2>1, BelowWellFounded, WFMin
<1>2. n # 0 /\ n - 1 \in Nat /\ n - 1 + 1 = n
  BY <1>1
<1>3. n - 1 \notin S
  BY <1>2
<1>4. <<n - 1, n>> \in Below
  BY <1>2 DEF Below
<1> QED
  BY <1>1, <1>2, <1>3, <1>4

-----------------------------------------------------------------------------
(* Powers of two, from the size of a powerset.                             *)

\* A power of two counts the subsets of an interval.
LEMMA PowerSize ==
    ASSUME NEW n \in Nat
    PROVE  IsFiniteSet(SUBSET (1..n)) /\ Cardinality(SUBSET (1..n)) = 2^n
<1>1. IsFiniteSet(1..n) /\ Cardinality(1..n) = n
  BY FS_Interval
<1> QED
  BY <1>1, FS_SUBSET

\* A power of two is a positive number: it counts at least the empty set.
LEMMA PowerPositive == ASSUME NEW n \in Nat PROVE 2^n \in Nat /\ 2^n >= 1
<1>1. Cardinality(SUBSET (1..n)) \in Nat
  BY PowerSize, FS_CardinalityType
<1>2. Cardinality(SUBSET (1..n)) # 0
  <2> DEFINE all == SUBSET (1..n)
  <2>1. all # {}
    OBVIOUS
  <2>2. IsFiniteSet(all)
    BY PowerSize
  <2>3. Cardinality(all) # 0
    <3> HIDE DEF all
    <3> QED
      BY <2>1, <2>2, FS_EmptySet
  <2> QED
    BY <2>3
<1> QED
  BY <1>1, <1>2, PowerSize

\* The first power of two.
LEMMA PowerZero == 2^0 = 1
  OBVIOUS

\* Half of the subsets of 1..(n + 1) have the element n + 1.
LEMMA PowerNext == ASSUME NEW n \in Nat PROVE 2^(n + 1) = 2 * 2^n
<1> DEFINE low == SUBSET (1..n)
           high == {s \cup {n + 1} : s \in low}
           f == [s \in low |-> s \cup {n + 1}]
<1>1. n + 1 \notin 1..n /\ 1..(n + 1) = (1..n) \cup {n + 1}
  OBVIOUS
<1>2. SUBSET (1..(n + 1)) = low \cup high
  <2>1. ASSUME NEW s \in SUBSET (1..(n + 1)), n + 1 \in s
        PROVE  s \in high
    <3>1. s \ {n + 1} \in low /\ s = (s \ {n + 1}) \cup {n + 1}
      BY <1>1, <2>1
    <3> QED
      BY <3>1
  <2>2. ASSUME NEW s \in SUBSET (1..(n + 1)), n + 1 \notin s
        PROVE  s \in low
    BY <1>1, <2>2
  <2>3. low \cup high \subseteq SUBSET (1..(n + 1))
    BY <1>1
  <2> QED
    BY <2>1, <2>2, <2>3
<1>3. low \cap high = {}
  BY <1>1
<1>4. f \in Bijection(low, high)
  <2>1. f \in [low -> high]
    OBVIOUS
  <2>2. ASSUME NEW s \in low, NEW t \in low, f[s] = f[t]
        PROVE  s = t
    <3>1. s = f[s] \ {n + 1} /\ t = f[t] \ {n + 1}
      BY <1>1
    <3> QED
      BY <2>2, <3>1
  <2>3. \A x \in high : \E s \in low : f[s] = x
    OBVIOUS
  <2> QED
    BY <2>1, <2>2, <2>3, Fun_IsBij
<1>5. IsFiniteSet(low) /\ Cardinality(low) = 2^n
  BY PowerSize
<1>6. IsFiniteSet(high) /\ Cardinality(high) = 2^n
  <2>1. ExistsBijection(low, high)
    BY <1>4 DEF ExistsBijection
  <2> QED
    BY <1>5, <2>1, FS_Bijection
<1>7. Cardinality(low \cup high) = Cardinality(low) + Cardinality(high) - Cardinality(low \cap high)
  BY <1>5, <1>6, FS_Union
<1>8. Cardinality(low \cap high) = 0
  BY <1>3, FS_EmptySet
<1> HIDE DEF low, high, f
<1>9. Cardinality(SUBSET (1..(n + 1))) = 2^n + 2^n - 0
  BY <1>2, <1>5, <1>6, <1>7, <1>8
<1>10. Cardinality(SUBSET (1..(n + 1))) = 2^(n + 1)
  BY PowerSize
<1> QED
  BY <1>9, <1>10, PowerPositive

\* Exponents add up.
LEMMA PowerSum ==
    ASSUME NEW m \in Nat, NEW n \in Nat
    PROVE  2^(m + n) = 2^m * 2^n
<1> DEFINE S == {k \in Nat : 2^(m + k) = 2^m * 2^k}
<1>1. 0 \in S
  BY PowerZero, PowerPositive
<1>2. ASSUME NEW k \in Nat, k \in S
      PROVE  k + 1 \in S
  <2>1. 2^(m + (k + 1)) = 2 * 2^(m + k)
    <3>1. m + k \in Nat /\ m + (k + 1) = (m + k) + 1
      OBVIOUS
    <3> QED
      BY <3>1, PowerNext
  <2>2. 2^(k + 1) = 2 * 2^k
    BY PowerNext
  <2>3. 2^m \in Nat /\ 2^k \in Nat /\ 2^(m + k) \in Nat
    BY PowerPositive
  <2>4. 2^(m + k) = 2^m * 2^k
    BY <1>2
  <2> QED
    BY <2>1, <2>2, <2>3, <2>4
<1>3. Nat \subseteq S
  <2> HIDE DEF S
  <2> QED
    BY <1>1, <1>2, SetInduction
<1> QED
  BY <1>3

\* A larger exponent makes no smaller power.
LEMMA PowerMonotone ==
    ASSUME NEW m \in Nat, NEW n \in Nat, m <= n
    PROVE  2^m <= 2^n
<1>1. n - m \in Nat /\ n = m + (n - m)
  OBVIOUS
<1>2. 2^n = 2^m * 2^(n - m)
  BY <1>1, PowerSum
<1> QED
  BY <1>1, <1>2, PowerPositive

-----------------------------------------------------------------------------
(* Quotients and remainders.                                               *)

\* What quotient and remainder are.
LEMMA Division ==
    ASSUME NEW x \in Int, NEW m \in Nat, m >= 1
    PROVE  /\ x \div m \in Int
           /\ (x % m) \in 0..(m - 1)
           /\ x = m * (x \div m) + (x % m)
  OBVIOUS

\* A multiple is zero or at least the modulus.
LEMMA MultipleGap ==
    ASSUME NEW m \in Nat, m >= 1, NEW t \in Int
    PROVE  /\ t >= 1 => m * t >= m
           /\ t <= -1 => m * t <= -m
           /\ m * t \in Int
  OBVIOUS

\* A product with a number that is not negative keeps the order.
LEMMA TimesMonotone ==
    ASSUME NEW x \in Int, NEW y \in Int, NEW p \in Nat, x <= y
    PROVE  x * p <= y * p
<1> PICK d \in Nat : y = x + d
  <2>1. y - x \in Nat /\ y = x + (y - x)
    OBVIOUS
  <2> QED
    BY <2>1
<1>1. (x + d) * p = x * p + d * p
  OBVIOUS
<1>2. d * p \in Nat /\ x * p \in Int
  OBVIOUS
<1> QED
  BY <1>1, <1>2

\* The quotient of a number is a number.
LEMMA DivisionNat ==
    ASSUME NEW x \in Nat, NEW m \in Nat, m >= 1
    PROVE  x \div m \in Nat
<1> PICK y \in Int : y = x
  OBVIOUS
<1>1. y \div m \in Int /\ (y % m) \in 0..(m - 1) /\ y = m * (y \div m) + (y % m)
  BY ONLY y \in Int, m \in Nat, m >= 1, Division
<1> PICK q \in Int, r \in 0..(m - 1) : q = y \div m /\ y = m * q + r
  BY <1>1
<1>2. q <= -1 => m * q <= -m
  BY MultipleGap
<1> PICK z \in Int : z = m * q
  OBVIOUS
<1>3. x = z + r /\ (q <= -1 => z <= -m)
  BY <1>2
<1>4. q >= 0
  BY ONLY <1>3, x \in Nat, z \in Int, q \in Int, m \in Nat, r \in 0..(m - 1)
<1> QED
  BY <1>4

\* Quotient and remainder are the only numbers of that kind.
LEMMA DivisionUnique ==
    ASSUME NEW m \in Nat, m >= 1, NEW q \in Int, NEW r \in 0..(m - 1),
           NEW x \in Int, x = m * q + r
    PROVE  x \div m = q /\ (x % m) = r
<1> DEFINE p == x \div m
           e == x % m
<1>1. p \in Int /\ e \in 0..(m - 1) /\ x = m * p + e
  BY Division
<1>2. m * (p - q) = m * p - m * q
  BY <1>1
<1> HIDE DEF p, e
<1>3. m * (p - q) = r - e
  BY <1>1, <1>2
<1>4. p - q \in Int
  BY <1>1
<1>5. p - q = 0
  BY <1>1, <1>3, <1>4, MultipleGap
<1>6. p = q /\ e = r
  BY <1>1, <1>3, <1>5
<1> QED
  BY <1>6 DEF p, e

\* Two places with the same number are the same place.
LEMMA PairUnique ==
    ASSUME NEW m \in Nat, m >= 1, NEW v \in Int, NEW w \in Int,
           NEW j \in 0..(m - 1), NEW k \in 0..(m - 1),
           v * m + j = w * m + k
    PROVE  v = w /\ j = k
<1>1. m * (v - w) = v * m - w * m
  OBVIOUS
<1>2. m * (v - w) = k - j
  BY <1>1
<1>3. v - w \in Int
  OBVIOUS
<1>4. v - w = 0
  BY <1>2, <1>3, MultipleGap
<1> QED
  BY <1>2, <1>4

\* A number below the modulus is its own remainder.
LEMMA ModSmall ==
    ASSUME NEW m \in Nat, m >= 1, NEW x \in 0..(m - 1)
    PROVE  (x % m) = x /\ x \div m = 0
<1>1. x = m * 0 + x
  OBVIOUS
<1> QED
  BY <1>1, DivisionUnique

\* Adding a multiple of the modulus changes nothing.
LEMMA ModShift ==
    ASSUME NEW m \in Nat, m >= 1, NEW x \in Int, NEW t \in Int
    PROVE  ((x + m * t) % m) = (x % m)
<1>1. x \div m \in Int /\ (x % m) \in 0..(m - 1) /\ x = m * (x \div m) + (x % m)
  BY Division
<1>2. x + m * t = m * (x \div m + t) + (x % m)
  BY <1>1
<1>3. x + m * t \in Int /\ x \div m + t \in Int
  BY <1>1
<1> QED
  BY <1>1, <1>2, <1>3, DivisionUnique

\* A multiple of the modulus moves to the quotient.
LEMMA DivShift ==
    ASSUME NEW m \in Nat, m >= 1, NEW x \in Int, NEW t \in Int
    PROVE  (x + m * t) \div m = x \div m + t
<1>1. x \div m \in Int /\ (x % m) \in 0..(m - 1) /\ x = m * (x \div m) + (x % m)
  BY Division
<1> PICK q \in Int, r \in 0..(m - 1) : q = x \div m /\ r = (x % m)
  BY <1>1
<1>2. x + m * t = m * (q + t) + r
  <2>1. x = m * q + r
    BY <1>1
  <2>2. m * (q + t) = m * q + m * t
    OBVIOUS
  <2> PICK y \in Int, z \in Int : y = m * q /\ z = m * t
    OBVIOUS
  <2> QED
    BY <2>1, <2>2
<1>3. x + m * t \in Int /\ q + t \in Int
  OBVIOUS
<1> PICK z \in Int, p \in Int : z = x + m * t /\ p = q + t
  BY <1>3
<1>5. z = m * p + r
  BY <1>2
<1>4. z \div m = p
  BY ONLY m \in Nat, m >= 1, r \in 0..(m - 1), z \in Int, p \in Int, <1>5, DivisionUnique, Zenon
<1> QED
  BY <1>4

\* A summand may be reduced before the addition.
LEMMA ModAdd ==
    ASSUME NEW m \in Nat, m >= 1, NEW x \in Int, NEW y \in Int
    PROVE  (((x % m) + y) % m) = ((x + y) % m)
<1>1. x \div m \in Int /\ (x % m) \in 0..(m - 1) /\ x = m * (x \div m) + (x % m)
  BY Division
<1>2. x + y = ((x % m) + y) + m * (x \div m)
  BY <1>1
<1>3. (x % m) + y \in Int
  BY <1>1
<1> QED
  BY <1>1, <1>2, <1>3, ModShift

\* A factor may be reduced before the multiplication.
LEMMA ModTimes ==
    ASSUME NEW m \in Nat, m >= 1, NEW x \in Int, NEW y \in Int
    PROVE  (((x % m) * y) % m) = ((x * y) % m)
<1>1. x \div m \in Int /\ (x % m) \in 0..(m - 1) /\ x = m * (x \div m) + (x % m)
  BY Division
<1> DEFINE q == x \div m
           e == x % m
<1>2. q \in Int /\ e \in Int /\ x = m * q + e
  BY <1>1
<1> HIDE DEF q, e
<1>3. (m * q) * y = m * (q * y) /\ q * y \in Int /\ e * y \in Int
  BY <1>2
<1>4. x * y = (m * q) * y + e * y
  BY <1>2
<1>5. x * y = e * y + m * (q * y)
  BY <1>3, <1>4
<1>6. ((x * y) % m) = ((e * y) % m)
  BY <1>3, <1>5, ModShift
<1> QED
  BY <1>6 DEF e

\* Reducing twice is reducing once.
LEMMA ModTwice ==
    ASSUME NEW m \in Nat, m >= 1, NEW x \in Int
    PROVE  ((x % m) % m) = (x % m)
<1> PICK e \in 0..(m - 1) : e = (x % m)
  BY Division
<1>1. (e % m) = e
  BY ONLY m \in Nat, m >= 1, e \in 0..(m - 1), ModSmall
<1> QED
  BY <1>1

\* The negative of a remainder stands for the negative number.
LEMMA ModNegative ==
    ASSUME NEW m \in Nat, m >= 1, NEW y \in Int
    PROVE  ((m - (y % m)) % m) = ((0 - y) % m)
<1> DEFINE e == y % m
<1>1. y \div m \in Int /\ e \in 0..(m - 1) /\ y = m * (y \div m) + e
  BY Division
<1> PICK q \in Int : q = y \div m
  BY <1>1
<1> HIDE DEF e
<1>2. e \in Int /\ y = m * q + e
  BY <1>1
<1>3. m - e = (0 - y) + m * (q + 1)
  <2>1. m * (q + 1) = m * q + m
    OBVIOUS
  <2> QED
    BY <1>2, <2>1
<1>4. 0 - y \in Int /\ q + 1 \in Int
  BY <1>2
<1>5. (((0 - y) + m * (q + 1)) % m) = ((0 - y) % m)
  BY ONLY <1>4, m \in Nat, m >= 1, ModShift
<1> QED
  BY <1>3, <1>5 DEF e

\* The low digits first: what is above them is worth their modulus.
LEMMA ModSplit ==
    ASSUME NEW A \in Nat, A >= 1, NEW B \in Nat, B >= 1, NEW v \in Int
    PROVE  /\ (v % (A * B)) = (v % A) + ((v \div A) % B) * A
           /\ v \div (A * B) = (v \div A) \div B
<1>1. PICK q \in Int, e \in 0..(A - 1) : q = v \div A /\ e = (v % A) /\ v = A * q + e
  BY Division
<1>2. PICK p \in Int, f \in 0..(B - 1) : p = q \div B /\ f = (q % B) /\ q = B * p + f
  BY Division
<1>3. A * q = A * (B * p) + A * f
  <2>1. A * (B * p + f) = A * (B * p) + A * f
    OBVIOUS
  <2> QED
    BY <1>2, <2>1
<1>4. A * (B * p) = (A * B) * p
  OBVIOUS
<1>5. v = (A * B) * p + (A * f + e)
  BY <1>1, <1>3, <1>4
<1>6. A * f + e \in 0..(A * B - 1)
  <2>1. A * f >= 0 /\ A * f \in Int
    OBVIOUS
  <2>2. A * ((B - 1) - f) >= 0
    OBVIOUS
  <2>3. A * ((B - 1) - f) = A * B - A - A * f
    OBVIOUS
  <2> QED
    BY <2>1, <2>2, <2>3
<1>7. A * B \in Nat /\ A * B >= 1
  OBVIOUS
<1>8. v \div (A * B) = p /\ (v % (A * B)) = A * f + e
  BY <1>5, <1>6, <1>7, DivisionUnique
<1> QED
  BY <1>1, <1>2, <1>8

-----------------------------------------------------------------------------
(* Sums.                                                                   *)

\* The running sum of g up to m.
IsSum(f, g, m) ==
    f = [c \in 0..m |-> (IF c = 0 THEN 0 ELSE f[c - 1]) + g[c]]

\* The sums of the numbers of a function, from the first on, exist.
LEMMA SumExists ==
    ASSUME NEW g, NEW m \in Nat
    PROVE  \E f : IsSum(f, g, m)
<1> DEFINE S == {n \in Nat : \E f : IsSum(f, g, n)}
<1>1. 0 \in S
  <2> DEFINE f == [c \in 0..0 |-> 0 + g[c]]
  <2>1. IsSum(f, g, 0)
    BY DEF IsSum
  <2> QED
    BY <2>1
<1>2. ASSUME NEW n \in Nat, n \in S
      PROVE  n + 1 \in S
  <2>1. PICK f : IsSum(f, g, n)
    BY <1>2
  <2> DEFINE h == [c \in 0..(n + 1) |-> IF c = n + 1 THEN f[n] + g[c] ELSE f[c]]
  <2>2. ASSUME NEW c \in 0..(n + 1)
        PROVE  h[c] = (IF c = 0 THEN 0 ELSE h[c - 1]) + g[c]
    <3>1. CASE c = n + 1
      <4>1. h[c] = f[n] + g[c] /\ h[c - 1] = f[n] /\ c # 0
        BY <3>1
      <4> QED
        BY <4>1
    <3>2. CASE c # n + 1
      <4>1. h[c] = f[c] /\ (c # 0 => h[c - 1] = f[c - 1]) /\ c \in 0..n
        BY <3>2
      <4>2. f[c] = (IF c = 0 THEN 0 ELSE f[c - 1]) + g[c]
        BY <2>1, <4>1 DEF IsSum
      <4> QED
        BY <4>1, <4>2
    <3> QED
      BY <3>1, <3>2
  <2>3. h = [c \in 0..(n + 1) |-> (IF c = 0 THEN 0 ELSE h[c - 1]) + g[c]]
    <3>1. h = [c \in 0..(n + 1) |-> h[c]]
      OBVIOUS
    <3> HIDE DEF h
    <3> QED
      BY <2>2, <3>1
  <2>4. IsSum(h, g, n + 1)
    BY <2>3 DEF IsSum
  <2> HIDE DEF h
  <2> QED
    BY <2>4
<1>3. Nat \subseteq S
  <2> HIDE DEF S
  <2> QED
    BY <1>1, <1>2, SetInduction
<1> QED
  BY <1>3

\* A function over 0..m with values in T that begins with b and takes the step G
\* from each of its values to the next.
Recurs(f, T, b, G, m) ==
    f \in [0..m -> T] /\ f[0] = b /\ \A k \in 1..m : f[k] = G[<<k, f[k - 1]>>]

\* Such a function exists.
LEMMA TypedRecursion ==
    ASSUME NEW T, NEW b \in T, NEW G \in [Nat \X T -> T], NEW m \in Nat
    PROVE  \E f : Recurs(f, T, b, G, m)
<1> DEFINE Good(f, n) == f[0] = b /\ \A k \in 1..n : f[k] = G[<<k, f[k - 1]>>]
           S == {n \in Nat : \E f \in [0..n -> T] : Good(f, n)}
<1>1. 0 \in S
  <2> DEFINE f == [k \in 0..0 |-> b]
  <2>1. f \in [0..0 -> T] /\ Good(f, 0)
    OBVIOUS
  <2> QED
    BY <2>1
<1>2. ASSUME NEW n \in Nat, n \in S
      PROVE  n + 1 \in S
  <2>1. PICK f \in [0..n -> T] : Good(f, n)
    BY <1>2
  <2> DEFINE h == [k \in 0..(n + 1) |-> IF k = n + 1 THEN G[<<n + 1, f[n]>>] ELSE f[k]]
  <2>2. h \in [0..(n + 1) -> T]
    OBVIOUS
  <2>3. Good(h, n + 1)
    <3>1. h[0] = b
      BY <2>1
    <3>2. ASSUME NEW k \in 1..(n + 1)
          PROVE  h[k] = G[<<k, h[k - 1]>>]
      <4>1. CASE k = n + 1
        <5>1. h[k] = G[<<n + 1, f[n]>>] /\ h[k - 1] = f[n]
          BY <4>1
        <5> QED
          BY <4>1, <5>1
      <4>2. CASE k # n + 1
        <5>1. h[k] = f[k] /\ h[k - 1] = f[k - 1] /\ k \in 1..n
          BY <4>2
        <5>2. f[k] = G[<<k, f[k - 1]>>]
          BY <2>1, <5>1
        <5> HIDE DEF h
        <5> QED
          BY <5>1, <5>2
      <4> QED
        BY <4>1, <4>2
    <3> HIDE DEF h
    <3> QED
      BY <3>1, <3>2
  <2> HIDE DEF h, Good
  <2> QED
    BY <2>2, <2>3
<1>3. Nat \subseteq S
  <2> HIDE DEF S
  <2> QED
    BY <1>1, <1>2, SetInduction
<1>4. PICK f \in [0..m -> T] : Good(f, m)
  BY <1>3
<1> QED
  BY <1>4, Zenon DEF Recurs

\* The same of numbers.
LEMMA RecursionExists ==
    ASSUME NEW b \in Int, NEW G \in [Nat \X Int -> Int], NEW m \in Nat
    PROVE  \E f \in [0..m -> Int] : f[0] = b /\ \A k \in 1..m : f[k] = G[<<k, f[k - 1]>>]
<1> PICK T : T = Int
  OBVIOUS
<1>1. b \in T /\ G \in [Nat \X T -> T]
  OBVIOUS
<1>2. PICK f : Recurs(f, T, b, G, m)
  BY ONLY <1>1, m \in Nat, TypedRecursion, Zenon
<1> QED
  BY <1>2, Zenon DEF Recurs

\* What holds of 0 and goes on from each number below m to the next holds up to m.
LEMMA UpTo ==
    ASSUME NEW m \in Nat, NEW S, 0 \in S, \A k \in 0..(m - 1) : k \in S => k + 1 \in S
    PROVE  \A k \in 0..m : k \in S
<1> DEFINE T == {k \in Nat : k <= m => k \in S}
<1>1. 0 \in T
  OBVIOUS
<1>2. ASSUME NEW k \in Nat, k \in T
      PROVE  k + 1 \in T
  <2> SUFFICES ASSUME k + 1 <= m
               PROVE  k + 1 \in S
    OBVIOUS
  <2>1. k \in 0..(m - 1) /\ k \in S
    BY <1>2
  <2> QED
    BY <2>1
<1>3. Nat \subseteq T
  <2> HIDE DEF T
  <2> QED
    BY <1>1, <1>2, SetInduction
<1> QED
  BY <1>3

\* A number below so many times the modulus has a quotient below so many.
LEMMA DivBound ==
    ASSUME NEW m \in Nat, m >= 1, NEW y \in Int, NEW K \in Int, y >= 0, y < m * (K + 1)
    PROVE  y \div m \in Nat /\ y \div m <= K
<1>1. (y % m) \in 0..(m - 1) /\ y = m * (y \div m) + (y % m) /\ y \div m \in Int
  BY ONLY m \in Nat, m >= 1, y \in Int, Division
<1> PICK q \in Int, r \in 0..(m - 1) : q = y \div m /\ r = y % m
  BY <1>1
<1>2. y = m * q + r
  BY <1>1
<1>3. ~(q <= -1)
  <2> SUFFICES ASSUME q <= -1
               PROVE  FALSE
    OBVIOUS
  <2>1. m * q <= -m
    BY ONLY m \in Nat, m >= 1, q \in Int, q <= -1, MultipleGap
  <2> PICK z \in Int : z = m * q
    OBVIOUS
  <2>2. y = z + r /\ z <= -m
    BY <1>2, <2>1
  <2> QED
    BY ONLY <2>2, y \in Int, y >= 0, z \in Int, r \in 0..(m - 1), m \in Nat
<1>4. ~(q >= K + 1)
  <2> SUFFICES ASSUME q >= K + 1
               PROVE  FALSE
    OBVIOUS
  <2>1. m * q >= m * (K + 1)
    BY ONLY m \in Nat, m >= 1, q \in Int, K \in Int, q >= K + 1
  <2> PICK z \in Int, v \in Int : z = m * q /\ v = m * (K + 1)
    OBVIOUS
  <2>2. y = z + r /\ z >= v /\ y < v
    BY <1>2, <2>1
  <2> QED
    BY ONLY <2>2, y \in Int, z \in Int, v \in Int, r \in 0..(m - 1), m \in Nat
<1> QED
  BY <1>3, <1>4
============================================================================
