-------------------------- MODULE ScalarLimbsProofs --------------------------
(***************************************************************************)
(* What the code computes on the limbs of scalars is what ScalarElement    *)
(* says of the numbers, for every number of limbs, width and group order   *)
(* that fit: proofs about ScalarLimbs.                                     *)
(***************************************************************************)
EXTENDS ScalarLimbs, NumberLemmas

-----------------------------------------------------------------------------
(* Sizes and places.                                                       *)

\* The constants, by their sizes.
LEMMA Sizes ==
    ASSUME LimbsFit
    PROVE  /\ L \in Nat /\ L >= 4 /\ L <= 8 /\ H \in Nat /\ H >= 2 /\ L = 2 * H /\ Index = 0..(L - 1)
           /\ W \in Nat /\ W >= 2 /\ B \in Nat /\ B >= 4 /\ 2 * L <= B * B
<1>1. L \in {4, 8} /\ W \in Nat \ {0, 1}
  BY Zenon DEF LimbsFit
<1>2. L \in Nat /\ L >= 4 /\ L <= 8 /\ H \in Nat /\ H >= 2 /\ L = 2 * H
  BY <1>1 DEF H
<1>3. W \in Nat /\ W >= 2
  BY <1>1
<1>4. B \in Nat /\ B >= 4
  <2>1. 2^2 = 4 /\ 2 \in Nat
    OBVIOUS
  <2>2. 2^W \in Nat /\ 2^2 <= 2^W
    BY <1>3, <2>1, PowerPositive, PowerMonotone, Zenon
  <2> QED
    BY <2>1, <2>2 DEF B
<1>5. B * B >= 16
  <2>1. B * B >= 4 * B
    BY <1>4
  <2> QED
    BY <1>4, <2>1
<1> QED
  BY <1>2, <1>3, <1>4, <1>5 DEF Index

\* A place is worth B times the one below, whatever the width.
LEMMA PlacesOf ==
    ASSUME W \in Nat, NEW k \in Nat
    PROVE  /\ Place(k) \in Nat /\ Place(k) >= 1 /\ Place(0) = 1 /\ B \in Nat /\ B >= 1
           /\ Place(k + 1) = B * Place(k)
<1>1. W \in Nat /\ W * k \in Nat /\ W * (k + 1) = W + W * k /\ W * 0 = 0
  OBVIOUS
<1>2. 2^(W + W * k) = 2^W * 2^(W * k)
  BY <1>1, PowerSum
<1> QED
  BY <1>1, <1>2, PowerPositive, PowerZero, Zenon DEF Place, B

\* The same of the sizes that fit.
LEMMA Places ==
    ASSUME LimbsFit, NEW k \in Nat
    PROVE  /\ Place(k) \in Nat /\ Place(k) >= 1 /\ Place(0) = 1
           /\ Place(k + 1) = B * Place(k)
  BY Sizes, PlacesOf, Zenon

\* The first places.
LEMMA FirstPlaces ==
    ASSUME LimbsFit
    PROVE  Place(0) = 1 /\ Place(1) = B /\ Place(2) = B * B
<1>1. Place(0) = 1 /\ Place(0 + 1) = B * Place(0) /\ Place(1 + 1) = B * Place(1)
  BY Places
<1> QED
  BY <1>1, Sizes

\* Places multiply.
LEMMA PlaceSum ==
    ASSUME LimbsFit, NEW j \in Nat, NEW k \in Nat
    PROVE  Place(j + k) = Place(j) * Place(k)
<1> PICK w \in Nat : w = W
  BY Sizes
<1>1. w * j \in Nat /\ w * k \in Nat /\ w * (j + k) = w * j + w * k
  OBVIOUS
<1>2. 2^(w * j + w * k) = 2^(w * j) * 2^(w * k)
  BY <1>1, PowerSum
<1> QED
  BY <1>1, <1>2 DEF Place

-----------------------------------------------------------------------------
(* The number of limbs.                                                    *)

\* v has the numbers of the first limbs of a, up to n of them.
IsNumber(v, a, n) ==
    v = [i \in 0..n |-> IF i = 0 THEN 0 ELSE v[i - 1] + a[i - 1] * Place(i - 1)]

\* The numbers of n limbs are their running sum.
LEMMA NumberChosen ==
    ASSUME NEW a, NEW n
    PROVE  Number(a, n) = (CHOOSE v : IsNumber(v, a, n))[n]
  BY Zenon DEF Number, IsNumber

\* Integers that the limbs of a are, up to n of them.
IntLimbs(a, n) == \A i \in 0..(n - 1) : a[i] \in Int

\* Running sums exist.
LEMMA NumberExists ==
    ASSUME W \in Nat, NEW n \in Nat, NEW a, IntLimbs(a, n)
    PROVE  \E v \in [0..n -> Int] : IsNumber(v, a, n)
<1> DEFINE G == [p \in Nat \X Int |-> IF p[1] - 1 \in 0..(n - 1) THEN p[2] + a[p[1] - 1] * Place(p[1] - 1)
                                      ELSE 0]
<1>1. G \in [Nat \X Int -> Int]
  <2>1. ASSUME NEW p \in Nat \X Int, p[1] - 1 \in 0..(n - 1)
        PROVE  p[2] + a[p[1] - 1] * Place(p[1] - 1) \in Int
    <3>1. p[1] - 1 \in Nat /\ a[p[1] - 1] \in Int
      BY <2>1 DEF IntLimbs
    <3>2. Place(p[1] - 1) \in Nat
      BY <3>1, PlacesOf
    <3> QED
      BY <3>1, <3>2
  <2> QED
    BY <2>1
<1>2. PICK f \in [0..n -> Int] : f[0] = 0 /\ \A k \in 1..n : f[k] = G[<<k, f[k - 1]>>]
  <2> HIDE DEF G
  <2> PICK m \in Nat, b \in Int, g \in [Nat \X Int -> Int] : m = n /\ b = 0 /\ g = G
    BY <1>1
  <2>1. \E f \in [0..m -> Int] : f[0] = b /\ \A k \in 1..m : f[k] = g[<<k, f[k - 1]>>]
    BY ONLY m \in Nat, b \in Int, g \in [Nat \X Int -> Int], RecursionExists, ZenonT(20)
  <2> QED
    BY <2>1
<1>3. \A k \in 1..n : f[k] = f[k - 1] + a[k - 1] * Place(k - 1)
  <2> TAKE k \in 1..n
  <2>1. k \in Nat /\ k - 1 \in 0..(n - 1) /\ f[k - 1] \in Int
    OBVIOUS
  <2> QED
    BY <1>2, <2>1, Zenon
<1>4. \A k \in 0..n : f[k] = IF k = 0 THEN 0 ELSE f[k - 1] + a[k - 1] * Place(k - 1)
  BY <1>2, <1>3
<1>5. f = [k \in 0..n |-> f[k]]
  OBVIOUS
<1>6. IsNumber(f, a, n)
  BY <1>4, <1>5 DEF IsNumber
<1> QED
  BY <1>6

\* The first numbers do not depend on how many follow.
LEMMA NumberPrefix ==
    ASSUME NEW n \in Nat, NEW m \in Nat, m <= n, NEW a,
           NEW v, IsNumber(v, a, n), NEW u, IsNumber(u, a, m)
    PROVE  v[m] = u[m]
<1> DEFINE S == {i \in 0..m : v[i] = u[i]}
<1>1. \A i \in 0..m : /\ v[i] = IF i = 0 THEN 0 ELSE v[i - 1] + a[i - 1] * Place(i - 1)
                      /\ u[i] = IF i = 0 THEN 0 ELSE u[i - 1] + a[i - 1] * Place(i - 1)
  <2>1. \A i \in 0..n : v[i] = IF i = 0 THEN 0 ELSE v[i - 1] + a[i - 1] * Place(i - 1)
    BY Zenon DEF IsNumber
  <2>2. \A i \in 0..m : u[i] = IF i = 0 THEN 0 ELSE u[i - 1] + a[i - 1] * Place(i - 1)
    BY Zenon DEF IsNumber
  <2> QED
    BY <2>1, <2>2
<1>2. 0 \in S
  BY <1>1
<1>3. ASSUME NEW k \in 0..(m - 1), k \in S
      PROVE  k + 1 \in S
  <2>1. k + 1 \in 0..m /\ k + 1 # 0 /\ (k + 1) - 1 = k
    OBVIOUS
  <2> QED
    BY <1>1, <1>3, <2>1
<1>4. \A k \in 0..m : k \in S
  <2> HIDE DEF S
  <2> QED
    BY <1>2, <1>3, UpTo
<1> QED
  BY <1>4

\* The number of no limbs is zero; a limb adds what it is worth.
LEMMA NumberRun ==
    ASSUME W \in Nat, NEW k \in Nat, NEW a, IntLimbs(a, k + 1)
    PROVE  /\ Number(a, 0) = 0 /\ Number(a, k) \in Int
           /\ Number(a, k + 1) = Number(a, k) + a[k] * Place(k)
<1>1. k + 1 \in Nat /\ IntLimbs(a, k) /\ IntLimbs(a, 0)
  BY DEF IntLimbs
<1>2. PICK v \in [0..(k + 1) -> Int] : IsNumber(v, a, k + 1)
  BY <1>1, NumberExists
<1>3. ASSUME NEW m \in Nat, m <= k + 1
      PROVE  Number(a, m) = v[m]
  <2>1. IntLimbs(a, m)
    BY <1>3 DEF IntLimbs
  <2>2. IsNumber(CHOOSE u : IsNumber(u, a, m), a, m)
    BY <2>1, NumberExists
  <2>3. v[m] = (CHOOSE u : IsNumber(u, a, m))[m]
    BY <1>1, <1>2, <1>3, <2>2, NumberPrefix
  <2> QED
    BY <2>3, NumberChosen
<1>4. \A i \in 0..(k + 1) : v[i] = IF i = 0 THEN 0 ELSE v[i - 1] + a[i - 1] * Place(i - 1)
  BY <1>2, Zenon DEF IsNumber
<1>5. v[0] = 0 /\ v[k + 1] = v[k] + a[k] * Place(k)
  <2>1. k + 1 \in 0..(k + 1) /\ k + 1 # 0 /\ (k + 1) - 1 = k /\ 0 \in 0..(k + 1)
    OBVIOUS
  <2> QED
    BY <1>4, <2>1
<1>6. Number(a, 0) = v[0] /\ Number(a, k) = v[k] /\ Number(a, k + 1) = v[k + 1]
  BY <1>3
<1> QED
  BY <1>5, <1>6

\* The same of the sizes that fit.
LEMMA NumberStep ==
    ASSUME LimbsFit, NEW k \in Nat, NEW a, IntLimbs(a, k + 1)
    PROVE  /\ Number(a, 0) = 0 /\ Number(a, k) \in Int
           /\ Number(a, k + 1) = Number(a, k) + a[k] * Place(k)
  BY Sizes, NumberRun, Zenon

\* The number of limbs is an integer.
LEMMA NumberInt ==
    ASSUME LimbsFit, NEW n \in Nat, NEW a, IntLimbs(a, n)
    PROVE  Number(a, n) \in Int
<1>1. PICK v \in [0..n -> Int] : IsNumber(v, a, n)
  BY Sizes, NumberExists
<1>2. IsNumber(CHOOSE u : IsNumber(u, a, n), a, n)
  BY <1>1
<1>3. v[n] = (CHOOSE u : IsNumber(u, a, n))[n]
  BY <1>1, <1>2, NumberPrefix
<1> QED
  BY <1>3, NumberChosen

\* No limbs make zero.
LEMMA NumberNone == ASSUME W \in Nat, NEW a PROVE Number(a, 0) = 0
<1>1. IntLimbs(a, 0) /\ 0 \in Nat
  BY DEF IntLimbs
<1>2. IsNumber(CHOOSE u : IsNumber(u, a, 0), a, 0)
  BY <1>1, NumberExists
<1>3. \A i \in 0..0 : (CHOOSE u : IsNumber(u, a, 0))[i] = 0
  <2> DEFINE u == CHOOSE u : IsNumber(u, a, 0)
  <2> HIDE DEF u
  <2>1. IsNumber(u, a, 0)
    BY <1>2 DEF u
  <2>2. \A i \in 0..0 : u[i] = IF i = 0 THEN 0 ELSE u[i - 1] + a[i - 1] * Place(i - 1)
    BY <2>1, Zenon DEF IsNumber
  <2>3. \A i \in 0..0 : u[i] = 0
    BY <2>2
  <2> QED
    BY <2>3 DEF u
<1> QED
  BY <1>3, NumberChosen

\* The same of the sizes that fit.
LEMMA NumberZero == ASSUME LimbsFit, NEW a PROVE Number(a, 0) = 0
  BY Sizes, NumberNone

\* Numbers of equal limbs are equal.
LEMMA NumberSame ==
    ASSUME LimbsFit, NEW n \in Nat, NEW a, NEW c, IntLimbs(a, n), \A i \in 0..(n - 1) : c[i] = a[i]
    PROVE  Number(c, n) = Number(a, n)
<1> DEFINE S == {k \in 0..n : Number(c, k) = Number(a, k)}
<1>1. 0 \in S
  BY NumberZero
<1>2. ASSUME NEW k \in 0..(n - 1), k \in S
      PROVE  k + 1 \in S
  <2>1. k \in Nat /\ k + 1 \in 0..n /\ c[k] = a[k] /\ Number(c, k) = Number(a, k)
    BY <1>2
  <2>2. IntLimbs(a, k + 1) /\ IntLimbs(c, k + 1)
    BY DEF IntLimbs
  <2>3. /\ Number(a, k + 1) = Number(a, k) + a[k] * Place(k)
        /\ Number(c, k + 1) = Number(c, k) + c[k] * Place(k)
    BY <2>1, <2>2, NumberStep, Zenon
  <2> QED
    BY <2>1, <2>3
<1>3. \A k \in 0..n : k \in S
  <2> HIDE DEF S
  <2> QED
    BY <1>1, <1>2, UpTo
<1> QED
  BY <1>3

\* The number of the sums of limbs is the sum of their numbers.
LEMMA NumberPlus ==
    ASSUME LimbsFit, NEW n \in Nat, NEW a, NEW b, NEW c, IntLimbs(a, n), IntLimbs(b, n),
           \A i \in 0..(n - 1) : c[i] = a[i] + b[i]
    PROVE  Number(c, n) = Number(a, n) + Number(b, n)
<1> DEFINE S == {k \in 0..n : Number(c, k) = Number(a, k) + Number(b, k)}
<1>1. 0 \in S
  BY NumberZero
<1>2. ASSUME NEW k \in 0..(n - 1), k \in S
      PROVE  k + 1 \in S
  <2>1. k \in Nat /\ k + 1 \in 0..n /\ c[k] = a[k] + b[k] /\ Number(c, k) = Number(a, k) + Number(b, k)
    BY <1>2
  <2>2. IntLimbs(a, k + 1) /\ IntLimbs(b, k + 1) /\ IntLimbs(c, k + 1)
    BY DEF IntLimbs
  <2>3. /\ Number(a, k + 1) = Number(a, k) + a[k] * Place(k)
        /\ Number(b, k + 1) = Number(b, k) + b[k] * Place(k)
        /\ Number(c, k + 1) = Number(c, k) + c[k] * Place(k)
        /\ Number(a, k) \in Int /\ Number(b, k) \in Int
    BY <2>1, <2>2, NumberStep, Zenon
  <2>4. a[k] \in Int /\ b[k] \in Int /\ Place(k) \in Nat
    BY <2>1, Places DEF IntLimbs
  <2>5. c[k] * Place(k) = a[k] * Place(k) + b[k] * Place(k)
    BY <2>1, <2>4
  <2> QED
    BY <2>1, <2>3, <2>4, <2>5
<1>3. \A k \in 0..n : k \in S
  <2> HIDE DEF S
  <2> QED
    BY <1>1, <1>2, UpTo
<1> QED
  BY <1>3

\* The number of the multiples of limbs is the multiple of their number.
LEMMA NumberTimes ==
    ASSUME LimbsFit, NEW n \in Nat, NEW t \in Int, NEW a, NEW c, IntLimbs(a, n),
           \A i \in 0..(n - 1) : c[i] = t * a[i]
    PROVE  Number(c, n) = t * Number(a, n)
<1> DEFINE S == {k \in 0..n : Number(c, k) = t * Number(a, k)}
<1>1. 0 \in S
  BY NumberZero
<1>2. ASSUME NEW k \in 0..(n - 1), k \in S
      PROVE  k + 1 \in S
  <2>1. k \in Nat /\ k + 1 \in 0..n /\ c[k] = t * a[k] /\ Number(c, k) = t * Number(a, k)
    BY <1>2
  <2>2. IntLimbs(a, k + 1) /\ IntLimbs(c, k + 1)
    BY DEF IntLimbs
  <2>3. /\ Number(a, k + 1) = Number(a, k) + a[k] * Place(k)
        /\ Number(c, k + 1) = Number(c, k) + c[k] * Place(k)
        /\ Number(a, k) \in Int
    BY <2>1, <2>2, NumberStep, Zenon
  <2>4. a[k] \in Int /\ Place(k) \in Nat
    BY <2>1, Places DEF IntLimbs
  <2>5. PICK x \in Int, p \in Int, u \in Int : x = a[k] /\ p = Place(k) /\ u = Number(a, k)
    BY <2>3, <2>4
  <2>6. (t * x) * p = t * (x * p) /\ t * (u + x * p) = t * u + t * (x * p)
    OBVIOUS
  <2>7. Number(c, k + 1) = t * u + (t * x) * p /\ Number(a, k + 1) = u + x * p
    BY <2>1, <2>3, <2>5, Zenon
  <2>8. Number(c, k + 1) = t * Number(a, k + 1)
    BY <2>6, <2>7
  <2> QED
    BY <2>1, <2>8
<1>3. \A k \in 0..n : k \in S
  <2> HIDE DEF S
  <2> QED
    BY <1>1, <1>2, UpTo
<1> QED
  BY <1>3

\* Limbs that are reduced, from the lowest to number n - 1.
Limbs(a, n) == \A i \in 0..(n - 1) : a[i] \in 0..(B - 1)

\* Reduced limbs are integers, and so are the first of them.
LEMMA LimbsInt ==
    ASSUME NEW n \in Nat, NEW m \in Nat, m <= n, NEW a, Limbs(a, n)
    PROVE  Limbs(a, m) /\ IntLimbs(a, m)
  BY DEF Limbs, IntLimbs

\* n reduced limbs make a number below place n, whatever the width.
LEMMA NumberBelow ==
    ASSUME W \in Nat, NEW n \in Nat, NEW a, Limbs(a, n)
    PROVE  Number(a, n) \in Nat /\ Number(a, n) < Place(n)
<1> DEFINE S == {k \in 0..n : Number(a, k) \in Nat /\ Number(a, k) < Place(k)}
<1>1. 0 \in S
  BY NumberNone, PlacesOf
<1>2. ASSUME NEW k \in 0..(n - 1), k \in S
      PROVE  k + 1 \in S
  <2>1. k \in Nat /\ k + 1 \in 0..n /\ a[k] \in 0..(B - 1) /\ Number(a, k) \in Nat /\ Number(a, k) < Place(k)
    BY <1>2 DEF Limbs
  <2>2. IntLimbs(a, k + 1)
    BY LimbsInt
  <2>3. Number(a, k + 1) = Number(a, k) + a[k] * Place(k)
    BY <2>1, <2>2, NumberRun
  <2>9. /\ Place(k) \in Nat /\ Place(k) >= 1 /\ B \in Nat /\ B >= 1
    BY <2>1, PlacesOf
  <2>4. PICK x \in Nat, p \in Nat, u \in Nat, b \in Nat :
             x = a[k] /\ p = Place(k) /\ u = Number(a, k) /\ b = B /\ p >= 1
    BY <2>1, <2>9
  <2>5. Place(k + 1) = b * p
    BY <2>1, <2>4, PlacesOf
  <2>6. x * p \in Nat /\ x * p <= (b - 1) * p /\ (b - 1) * p = b * p - p
    <3>1. x <= b - 1
      BY <2>1, <2>4
    <3> QED
      BY <2>4, <3>1
  <2>7. u + x * p \in Nat /\ u + x * p < b * p
    BY <2>1, <2>4, <2>6
  <2>8. Number(a, k + 1) \in Nat /\ Number(a, k + 1) < Place(k + 1)
    BY <2>3, <2>4, <2>5, <2>7
  <2> QED
    BY <2>1, <2>8
<1>3. \A k \in 0..n : k \in S
  <2> HIDE DEF S
  <2> QED
    BY <1>1, <1>2, UpTo
<1> QED
  BY <1>3

\* The same of the sizes that fit.
LEMMA NumberBound ==
    ASSUME LimbsFit, NEW n \in Nat, NEW a, Limbs(a, n)
    PROVE  Number(a, n) \in Nat /\ Number(a, n) < Place(n)
  BY Sizes, NumberBelow

\* The digits of a number make its remainder.
LEMMA NumberDigits ==
    ASSUME LimbsFit, NEW n \in Nat, NEW v \in Int, NEW a,
           \A i \in 0..(n - 1) : a[i] = (v \div Place(i)) % B
    PROVE  Limbs(a, n) /\ Number(a, n) = v % Place(n)
<1>1. Limbs(a, n)
  <2> SUFFICES ASSUME NEW i \in 0..(n - 1)
               PROVE  (v \div Place(i)) % B \in 0..(B - 1)
    BY DEF Limbs
  <2>1. v \div Place(i) \in Int
    <3> PICK p \in Nat : p = Place(i) /\ p >= 1
      BY Places
    <3> QED
      BY Division
  <2> QED
    BY <2>1, Sizes
<1> DEFINE S == {k \in 0..n : Number(a, k) = v % Place(k)}
<1>2. 0 \in S
  BY NumberZero, Places
<1>3. ASSUME NEW k \in 0..(n - 1), k \in S
      PROVE  k + 1 \in S
  <2>1. k \in Nat /\ k + 1 \in 0..n /\ a[k] = (v \div Place(k)) % B /\ Number(a, k) = v % Place(k)
    BY <1>3
  <2>2. IntLimbs(a, k + 1)
    BY <1>1, LimbsInt
  <2>3. Number(a, k + 1) = Number(a, k) + a[k] * Place(k)
    BY <2>1, <2>2, NumberStep
  <2>4. /\ Place(k) \in Nat /\ Place(k) >= 1 /\ Place(k + 1) = B * Place(k)
        /\ B \in Nat /\ B >= 1
    BY <2>1, Places, Sizes
  <2> PICK p \in Nat, b \in Nat : p = Place(k) /\ b = B /\ p >= 1 /\ b >= 1
    BY <2>4
  <2>5. (v % (p * b)) = (v % p) + ((v \div p) % b) * p
    BY ONLY p \in Nat, b \in Nat, p >= 1, b >= 1, v \in Int, ModSplit, Zenon
  <2>6. Place(k + 1) = p * b
    BY <2>4
  <2>7. Number(a, k + 1) = v % Place(k + 1)
    BY <2>1, <2>3, <2>4, <2>5, <2>6, Zenon
  <2> QED
    BY <2>1, <2>7
<1>4. \A k \in 0..n : k \in S
  <2> HIDE DEF S
  <2> QED
    BY <1>2, <1>3, UpTo
<1> QED
  BY <1>1, <1>4

-----------------------------------------------------------------------------
(* Carries.                                                                *)

\* t has the carries into the limbs of a sum.
IsCarry(t, sum) ==
    t = [i \in 0..L |-> IF i = 0 THEN 0 ELSE (t[i - 1] + sum[i - 1]) \div B]

\* The carries, chosen.
LEMMA CarriedChosen ==
    ASSUME NEW sum
    PROVE  Carried(sum) = [r |-> [i \in Index |-> ((CHOOSE t : IsCarry(t, sum))[i] + sum[i]) % B],
                           out |-> (CHOOSE t : IsCarry(t, sum))[L]]
  BY Zenon DEF Carried, IsCarry

\* Carries exist.
LEMMA CarryExists ==
    ASSUME LimbsFit, NEW sum, IntLimbs(sum, L)
    PROVE  \E t \in [0..L -> Int] : IsCarry(t, sum)
<1> DEFINE G == [p \in Nat \X Int |-> IF p[1] - 1 \in 0..(L - 1) THEN (p[2] + sum[p[1] - 1]) \div B ELSE 0]
<1>1. G \in [Nat \X Int -> Int]
  <2>1. ASSUME NEW p \in Nat \X Int, p[1] - 1 \in 0..(L - 1)
        PROVE  (p[2] + sum[p[1] - 1]) \div B \in Int
    <3>1. sum[p[1] - 1] \in Int
      BY <2>1 DEF IntLimbs
    <3> PICK x \in Int, b \in Nat : x = p[2] + sum[p[1] - 1] /\ b = B /\ b >= 1
      BY <3>1, Sizes
    <3> QED
      BY Division
  <2> QED
    BY <2>1
<1>2. PICK f \in [0..L -> Int] : f[0] = 0 /\ \A k \in 1..L : f[k] = G[<<k, f[k - 1]>>]
  <2> HIDE DEF G
  <2> PICK m \in Nat, b \in Int, g \in [Nat \X Int -> Int] : m = L /\ b = 0 /\ g = G
    BY <1>1, Sizes
  <2>1. \E f \in [0..m -> Int] : f[0] = b /\ \A k \in 1..m : f[k] = g[<<k, f[k - 1]>>]
    BY ONLY m \in Nat, b \in Int, g \in [Nat \X Int -> Int], RecursionExists, ZenonT(20)
  <2> QED
    BY <2>1, Zenon
<1>3. \A k \in 1..L : f[k] = (f[k - 1] + sum[k - 1]) \div B
  <2> TAKE k \in 1..L
  <2>1. k \in Nat /\ k - 1 \in 0..(L - 1) /\ f[k - 1] \in Int
    <3>1. L \in Nat
      BY Sizes
    <3> HIDE DEF G
    <3> QED
      BY <3>1
  <2>2. <<k, f[k - 1]>> \in Nat \X Int /\ f[k] = G[<<k, f[k - 1]>>]
    BY <1>2, <2>1, Zenon
  <2> PICK x \in Int : x = f[k - 1]
    BY <2>1
  <2>3. G[<<k, x>>] = (x + sum[k - 1]) \div B
    BY <2>1
  <2> QED
    BY <2>2, <2>3
<1>4. \A k \in 0..L : f[k] = IF k = 0 THEN 0 ELSE (f[k - 1] + sum[k - 1]) \div B
  BY <1>2, <1>3, Sizes
<1>5. f = [k \in 0..L |-> f[k]]
  OBVIOUS
<1>6. IsCarry(f, sum)
  BY <1>4, <1>5, Zenon DEF IsCarry
<1> QED
  BY <1>6

\* What is carried out at the end, with the limbs, is the number of the sums.
LEMMA CarriedRight ==
    ASSUME LimbsFit, NEW sum, IntLimbs(sum, L)
    PROVE  /\ Carried(sum).r \in [Index -> 0..(B - 1)] /\ Limbs(Carried(sum).r, L)
           /\ Carried(sum).out \in Int
           /\ Number(Carried(sum).r, L) + Carried(sum).out * Place(L) = Number(sum, L)
<1>1. PICK t : t = CHOOSE u : IsCarry(u, sum)
  OBVIOUS
<1>2. IsCarry(t, sum)
  BY <1>1, CarryExists
<1> PICK r : r = [i \in Index |-> (t[i] + sum[i]) % B]
  BY Zenon
<1>3. Carried(sum) = [r |-> r, out |-> t[L]]
  BY <1>1, CarriedChosen
<1>4. \A i \in 0..L : t[i] = IF i = 0 THEN 0 ELSE (t[i - 1] + sum[i - 1]) \div B
  BY <1>2, Zenon DEF IsCarry
<1>5. t[0] = 0
  BY <1>4, Sizes
<1>6. \A i \in 0..(L - 1) : t[i + 1] = (t[i] + sum[i]) \div B
  <2> TAKE i \in 0..(L - 1)
  <2>1. i + 1 \in 0..L /\ i + 1 # 0 /\ (i + 1) - 1 = i
    BY Sizes
  <2> QED
    BY <1>4, <2>1
<1> DEFINE S == {k \in 0..L : t[k] \in Int /\ Number(r, k) + t[k] * Place(k) = Number(sum, k)
                              /\ Limbs(r, k)}
<1>7. 0 \in S
  <2>1. t[0] * Place(0) = 0 /\ 0 \in 0..L
    BY <1>5, Places, Sizes
  <2>2. Limbs(r, 0)
    BY DEF Limbs
  <2>3. Number(r, 0) = 0 /\ Number(sum, 0) = 0
    BY NumberZero
  <2> QED
    BY <1>5, <2>1, <2>2, <2>3
<1>8. ASSUME NEW k \in 0..(L - 1), k \in S
      PROVE  k + 1 \in S
  <2>1. /\ k \in Nat /\ k + 1 \in 0..L /\ t[k] \in Int /\ Limbs(r, k)
        /\ Number(r, k) + t[k] * Place(k) = Number(sum, k) /\ sum[k] \in Int
        /\ k \in Index
    BY <1>8, Sizes DEF IntLimbs, Index
  <2>2. r[k] = (t[k] + sum[k]) % B /\ t[k + 1] = (t[k] + sum[k]) \div B
    BY <1>6, <2>1
  <2> PICK x \in Int, b \in Nat : x = t[k] + sum[k] /\ b = B /\ b >= 1
    BY <2>1, Sizes
  <2>3. x \div b \in Int /\ x % b \in 0..(b - 1) /\ x = b * (x \div b) + (x % b)
    BY ONLY x \in Int, b \in Nat, b >= 1, Division
  <2>4. t[k + 1] \in Int /\ r[k] \in 0..(B - 1) /\ t[k] + sum[k] = B * t[k + 1] + r[k]
    BY <2>2, <2>3
  <2>5. Limbs(r, k + 1)
    BY <2>1, <2>4 DEF Limbs
  <2>6. IntLimbs(r, k + 1) /\ IntLimbs(sum, k + 1)
    <3>1. k + 1 \in Nat /\ k + 1 <= L /\ L \in Nat
      BY <2>1, Sizes
    <3>2. IntLimbs(r, k + 1)
      BY <2>5, <3>1, LimbsInt
    <3> QED
      BY <3>1, <3>2 DEF IntLimbs
  <2>7. /\ Number(r, k + 1) = Number(r, k) + r[k] * Place(k) /\ Number(r, k) \in Int
        /\ Number(sum, k + 1) = Number(sum, k) + sum[k] * Place(k) /\ Number(sum, k) \in Int
    BY <2>1, <2>6, NumberStep, Zenon
  <2>8. Place(k + 1) = B * Place(k) /\ Place(k) \in Nat /\ B \in Nat
    BY <2>1, Places, Sizes
  <2>9. PICK p \in Int, u \in Int, v \in Int, w \in Int : p = Place(k) /\ u = t[k] /\ v = t[k + 1] /\ w = r[k]
    <3>1. t[k] \in Int /\ t[k + 1] \in Int /\ r[k] \in Int /\ Place(k) \in Int
      <4>1. r[k] \in 0..(B - 1) /\ t[k + 1] \in Int
        BY <2>4
      <4> QED
        BY <2>1, <2>8, <4>1
    <3> QED
      BY <3>1, Zenon
  <2>10. PICK y \in Int : y = sum[k]
    BY <2>1
  <2>11. u * p + y * p = v * (b * p) + w * p
    <3>1. u + y = b * v + w
      BY <2>4, <2>9, <2>10, Zenon
    <3>2. (u + y) * p = u * p + y * p /\ (b * v + w) * p = v * (b * p) + w * p
      OBVIOUS
    <3> QED
      BY <3>1, <3>2
  <2>12. Number(r, k + 1) + t[k + 1] * Place(k + 1) = Number(sum, k + 1)
    <3>1. /\ Number(r, k + 1) = Number(r, k) + w * p /\ Number(sum, k + 1) = Number(sum, k) + y * p
          /\ Number(r, k) + u * p = Number(sum, k) /\ t[k + 1] * Place(k + 1) = v * (b * p)
      BY <2>1, <2>7, <2>8, <2>9, <2>10, Zenon
    <3>2. PICK up \in Int, yp \in Int, vbp \in Int, wp \in Int :
              up = u * p /\ yp = y * p /\ vbp = v * (b * p) /\ wp = w * p
      OBVIOUS
    <3> QED
      BY <2>7, <2>11, <3>1, <3>2
  <2> QED
    BY <2>1, <2>4, <2>5, <2>12
<1>9. \A k \in 0..L : k \in S
  <2> HIDE DEF S
  <2> QED
    BY <1>7, <1>8, UpTo, Sizes, Zenon
<1>10. L \in S
  BY <1>9, Sizes
<1>11. r \in [Index -> 0..(B - 1)]
  <2>1. Limbs(r, L)
    BY <1>10
  <2>2. \A i \in Index : r[i] \in 0..(B - 1)
    BY <2>1, Sizes, Zenon DEF Limbs
  <2>3. DOMAIN r = Index /\ r = [i \in Index |-> r[i]]
    OBVIOUS
  <2> QED
    BY <2>2, <2>3
<1> QED
  BY <1>3, <1>10, <1>11

-----------------------------------------------------------------------------
(* The order and comparisons.                                              *)

\* The limbs of a number.
LEMMA LimbsOfRight ==
    ASSUME LimbsFit, NEW v \in Int
    PROVE  /\ LimbsOf(v) \in [Index -> 0..(B - 1)] /\ Limbs(LimbsOf(v), L)
           /\ Number(LimbsOf(v), L) = v % Place(L)
<1>1. L \in Nat /\ Index = 0..(L - 1)
  BY Sizes
<1> PICK a : a = LimbsOf(v)
  OBVIOUS
<1>2. \A i \in Index : a[i] = (v \div Place(i)) % B
  BY DEF LimbsOf
<1>3. \A i \in 0..(L - 1) : a[i] = (v \div Place(i)) % B
  BY <1>1, <1>2
<1>4. Limbs(a, L) /\ Number(a, L) = v % Place(L)
  BY <1>1, <1>3, NumberDigits, Zenon
<1>5. a = [i \in Index |-> (v \div Place(i)) % B]
  BY DEF LimbsOf
<1>6. \A i \in Index : a[i] \in 0..(B - 1)
  BY <1>1, <1>4 DEF Limbs
<1>7. a \in [Index -> 0..(B - 1)]
  BY <1>2, <1>5, <1>6
<1> QED
  BY <1>4, <1>7

\* What the order leaves of the highest place.
Complement == Number(Cs, H + 1)

\* Its size.
LEMMA OrderSize ==
    ASSUME LimbsFit
    PROVE  /\ Limbs(Cs, H + 1) /\ Complement \in Nat /\ OrderN \in Nat
           /\ OrderN + Complement = Place(L) /\ 8 * Complement <= Place(L)
           /\ Complement * Complement <= 2 * Place(L)
           /\ Place(H) <= Complement /\ Complement < 2 * Place(H) /\ Complement >= 16
<1>1. Limbs(Cs, H + 1)
  <2>1. \A i \in 1..H : C[i] \in 0..(B - 1)
    BY Zenon DEF LimbsFit
  <2>2. ASSUME NEW i \in 0..H
        PROVE  Cs[i] \in 0..(B - 1)
    <3>1. i < H => i + 1 \in 1..H
      BY Sizes
    <3>2. 1 \in 0..(B - 1)
      BY Sizes
    <3>3. Cs[i] = IF i < H THEN C[i + 1] ELSE 1
      BY DEF Cs
    <3> QED
      BY <2>1, <3>1, <3>2, <3>3
  <2>3. (H + 1) - 1 = H
    BY Sizes
  <2> QED
    BY <2>2, <2>3 DEF Limbs
<1>2. H \in Nat /\ H + 1 \in Nat /\ H <= H + 1
  BY Sizes
<1>3. Limbs(Cs, H) /\ IntLimbs(Cs, H + 1)
  BY <1>1, <1>2, LimbsInt
<1>4. Complement = Number(Cs, H) + Cs[H] * Place(H)
  BY <1>2, <1>3, NumberStep DEF Complement
<1>5. Cs[H] = 1
  BY <1>2 DEF Cs
<1>6. Number(Cs, H) \in Nat /\ Number(Cs, H) < Place(H)
  BY <1>2, <1>3, NumberBound
<1>7. Place(H) \in Nat /\ Place(L) = Place(H) * Place(H)
  <2>1. H + H = L
    BY Sizes
  <2>2. Place(H + H) = Place(H) * Place(H)
    BY <1>2, PlaceSum
  <2> QED
    BY <1>2, <2>1, <2>2, Places
<1>8. Place(H) >= 16
  <2>1. Place(2) = B * B /\ B >= 4 /\ B \in Nat
    BY FirstPlaces, Sizes
  <2>2. H - 2 \in Nat /\ 2 + (H - 2) = H
    BY Sizes
  <2>3. Place(H) = Place(2) * Place(H - 2) /\ Place(H - 2) \in Nat /\ Place(H - 2) >= 1
    BY <2>2, PlaceSum, Places
  <2>4. Place(2) \in Nat /\ Place(2) >= 16
    <3>1. B * B >= 4 * B /\ B * B \in Nat
      BY <2>1
    <3> QED
      BY <2>1, <3>1
  <2> PICK x \in Nat, y \in Nat : x = Place(2) /\ y = Place(H - 2)
    BY <2>3, <2>4
  <2>5. x * y >= x
    BY <2>3
  <2> QED
    BY <2>3, <2>4, <2>5
<1> PICK p \in Nat, c \in Nat : p = Place(H) /\ c = Complement
  <2>1. Complement \in Nat
    BY <1>4, <1>5, <1>6, <1>7
  <2> QED
    BY <1>7, <2>1
<1>9. p <= c /\ c < 2 * p /\ p >= 16
  BY <1>4, <1>5, <1>6, <1>7, <1>8
<1>10. 8 * c <= p * p
  <2>1. 16 * p <= p * p
    BY <1>9
  <2> QED
    BY <1>9, <2>1
<1>11. Complement * Complement <= 2 * Place(L)
  BY DEF LimbsFit, Complement
<1>12. Place(L) \in Nat /\ OrderN = Place(L) - Complement
  BY <1>7 DEF OrderN, Complement
<1>13. Place(L) = p * p
  BY <1>7
<1>14. PICK q \in Nat : q = Place(L)
  BY <1>12
<1>15. 8 * c <= q /\ OrderN = q - c
  BY <1>10, <1>12, <1>13, <1>14
<1>16. OrderN \in Nat /\ OrderN + c = q
  BY <1>15
<1> QED
  BY <1>1, <1>9, <1>11, <1>14, <1>15, <1>16

\* The limbs of the order and of its half.
LEMMA OrderLimbs ==
    ASSUME LimbsFit
    PROVE  /\ Limbs(N, L) /\ Number(N, L) = OrderN /\ N \in [Index -> 0..(B - 1)]
           /\ Limbs(NH, L) /\ Number(NH, L) = OrderN \div 2 /\ NH \in [Index -> 0..(B - 1)]
<1> PICK v \in Nat, p \in Nat : v = OrderN /\ p = Place(L) /\ v < p /\ p >= 1
  <2>1. OrderN \in Nat /\ OrderN + Complement = Place(L) /\ Complement >= 16 /\ Complement \in Nat
    BY OrderSize
  <2> QED
    BY <2>1
<1>1. v \in Int /\ v \div 2 \in Nat /\ v \div 2 < p
  OBVIOUS
<1>2. v % p = v /\ (v \div 2) % p = v \div 2
  <2>1. v \in 0..(p - 1)
    OBVIOUS
  <2> PICK h \in 0..(p - 1) : h = v \div 2
    BY <1>1
  <2>2. v % p = v /\ h % p = h
    BY <2>1, ModSmall
  <2> QED
    BY <2>2
<1>3. /\ Limbs(LimbsOf(v), L) /\ Number(LimbsOf(v), L) = v % Place(L)
      /\ LimbsOf(v) \in [Index -> 0..(B - 1)]
  BY <1>1, LimbsOfRight
<1>4. /\ Limbs(LimbsOf(v \div 2), L) /\ Number(LimbsOf(v \div 2), L) = (v \div 2) % Place(L)
      /\ LimbsOf(v \div 2) \in [Index -> 0..(B - 1)]
  <2> PICK h \in Int : h = v \div 2
    BY <1>1
  <2>1. /\ Limbs(LimbsOf(h), L) /\ Number(LimbsOf(h), L) = h % Place(L)
        /\ LimbsOf(h) \in [Index -> 0..(B - 1)]
    BY LimbsOfRight
  <2> QED
    BY <2>1
<1> QED
  BY <1>2, <1>3, <1>4 DEF N, NH

\* The highest limb that differs decides a comparison.
LEMMA CompareStep ==
    ASSUME LimbsFit, NEW k \in Nat, NEW a, NEW c, Limbs(a, k + 1), Limbs(c, k + 1)
    PROVE  /\ a[k] < c[k] => Number(a, k + 1) < Number(c, k + 1)
           /\ a[k] > c[k] => Number(a, k + 1) > Number(c, k + 1)
           /\ a[k] = c[k] => Number(a, k + 1) - Number(c, k + 1) = Number(a, k) - Number(c, k)
<1>1. k + 1 \in Nat /\ k <= k + 1 /\ k \in 0..((k + 1) - 1)
  OBVIOUS
<1>2. IntLimbs(a, k + 1) /\ IntLimbs(c, k + 1) /\ Limbs(a, k) /\ Limbs(c, k)
  BY <1>1, LimbsInt
<1>3. /\ Number(a, k + 1) = Number(a, k) + a[k] * Place(k)
      /\ Number(c, k + 1) = Number(c, k) + c[k] * Place(k)
  BY <1>2, NumberStep
<1>4. /\ Number(a, k) \in Nat /\ Number(a, k) < Place(k)
      /\ Number(c, k) \in Nat /\ Number(c, k) < Place(k)
  BY <1>2, NumberBound
<1>5. a[k] \in 0..(B - 1) /\ c[k] \in 0..(B - 1) /\ B \in Nat
  BY <1>1, Sizes, Zenon DEF Limbs
<1>6. Place(k) \in Nat
  BY Places
<1> PICK x \in Nat, y \in Nat, p \in Nat : x = a[k] /\ y = c[k] /\ p = Place(k)
  BY <1>5, <1>6
<1>7. x < y => x * p + p <= y * p
  <2> SUFFICES ASSUME x < y PROVE x * p + p <= y * p
    OBVIOUS
  <2>1. x + 1 <= y
    OBVIOUS
  <2>2. (x + 1) * p <= y * p
    BY <2>1, TimesMonotone
  <2>3. (x + 1) * p = x * p + p
    OBVIOUS
  <2> QED
    BY <2>2, <2>3
<1>8. y < x => y * p + p <= x * p
  <2> SUFFICES ASSUME y < x PROVE y * p + p <= x * p
    OBVIOUS
  <2>1. y + 1 <= x
    OBVIOUS
  <2>2. (y + 1) * p <= x * p
    BY <2>1, TimesMonotone
  <2>3. (y + 1) * p = y * p + p
    OBVIOUS
  <2> QED
    BY <2>2, <2>3
<1>9. PICK xp \in Nat, yp \in Nat : xp = x * p /\ yp = y * p
  OBVIOUS
<1>10. Number(a, k + 1) = Number(a, k) + xp /\ Number(c, k + 1) = Number(c, k) + yp
  BY <1>3, <1>9
<1>11. (x < y => xp + p <= yp) /\ (y < x => yp + p <= xp) /\ (x = y => xp = yp)
  BY <1>7, <1>8, <1>9
<1> QED
  BY <1>4, <1>10, <1>11

\* from has the verdicts of the overflow check of the limbs up to each.
IsFrom(from, a) ==
    from = [i \in Index |-> IF a[i] < N[i] THEN FALSE
                            ELSE IF a[i] > N[i] THEN TRUE
                            ELSE i = 0 \/ from[i - 1]]

\* A scalar overflows when its number is at least the order.
THEOREM ScalarCheckOverflow ==
    ASSUME LimbsFit, NEW a, Limbs(a, L)
    PROVE  /\ scalar_check_overflow(a) \in BOOLEAN
           /\ scalar_check_overflow(a) <=> Number(a, L) >= OrderN
<1> DEFINE F == [i \in Index |-> IF Number(a, i + 1) >= Number(N, i + 1) THEN TRUE ELSE FALSE]
<1>1. ASSUME NEW i \in Index
      PROVE  /\ i \in Nat /\ i + 1 \in Nat /\ i <= L - 1
             /\ a[i] \in Int /\ N[i] \in Int
             /\ a[i] < N[i] => Number(a, i + 1) < Number(N, i + 1)
             /\ a[i] > N[i] => Number(a, i + 1) > Number(N, i + 1)
             /\ a[i] = N[i] => (Number(a, i + 1) >= Number(N, i + 1)) <=> (Number(a, i) >= Number(N, i))
             /\ Number(a, i + 1) \in Int /\ Number(N, i + 1) \in Int
  <2>1. i \in Nat /\ i + 1 \in Nat /\ i + 1 <= L /\ L \in Nat /\ i \in 0..(L - 1) /\ i <= i + 1
    BY Sizes DEF Index
  <2>2. Limbs(a, i + 1) /\ Limbs(N, i + 1) /\ Limbs(a, i) /\ Limbs(N, i)
    BY <2>1, LimbsInt, OrderLimbs
  <2>3. /\ a[i] < N[i] => Number(a, i + 1) < Number(N, i + 1)
        /\ a[i] > N[i] => Number(a, i + 1) > Number(N, i + 1)
        /\ a[i] = N[i] => Number(a, i + 1) - Number(N, i + 1) = Number(a, i) - Number(N, i)
    BY <2>1, <2>2, CompareStep
  <2>4. Number(a, i + 1) \in Nat /\ Number(N, i + 1) \in Nat /\ Number(a, i) \in Nat /\ Number(N, i) \in Nat
    BY <2>1, <2>2, NumberBound
  <2>5. a[i] \in Int /\ N[i] \in Int
    BY <2>1, OrderLimbs DEF Limbs
  <2> QED
    BY <2>1, <2>3, <2>4, <2>5
<1>2. \A i \in Index : F[i] = (IF a[i] < N[i] THEN FALSE
                               ELSE IF a[i] > N[i] THEN TRUE ELSE i = 0 \/ F[i - 1])
  <2> TAKE i \in Index
  <2>1. i = 0 => Number(a, i) = 0 /\ Number(N, i) = 0
    BY NumberZero
  <2>2. i # 0 => i - 1 \in Index /\ (i - 1) + 1 = i
    BY Sizes DEF Index
  <2>3. i # 0 => F[i - 1] = (IF Number(a, i) >= Number(N, i) THEN TRUE ELSE FALSE)
    BY <2>2, Zenon
  <2>4. F[i] = (IF Number(a, i + 1) >= Number(N, i + 1) THEN TRUE ELSE FALSE)
    OBVIOUS
  <2> HIDE DEF F
  <2>5. CASE a[i] < N[i]
    <3>1. ~(Number(a, i + 1) >= Number(N, i + 1))
      BY <1>1, <2>5
    <3> QED
      BY <2>4, <2>5, <3>1, Zenon
  <2>6. CASE a[i] > N[i]
    <3>1. Number(a, i + 1) >= Number(N, i + 1) /\ ~(a[i] < N[i])
      BY <1>1, <2>6
    <3> QED
      BY <2>4, <2>6, <3>1, Zenon
  <2>7. CASE a[i] = N[i]
    <3>1. F[i] = (IF Number(a, i) >= Number(N, i) THEN TRUE ELSE FALSE)
      BY <1>1, <2>4, <2>7, Zenon
    <3>2. ~(a[i] < N[i]) /\ ~(a[i] > N[i])
      BY <1>1, <2>7
    <3>3. CASE i = 0
      <4>1. Number(a, i) >= Number(N, i)
        BY <2>1, <3>3
      <4> QED
        BY <3>1, <3>2, <3>3, <4>1, Zenon
    <3>4. CASE i # 0
      <4>1. (i = 0 \/ F[i - 1]) = F[i - 1]
        <5>1. F[i - 1] \in BOOLEAN
          BY <2>3, <3>4, Zenon
        <5> QED
          BY <3>4, <5>1, Zenon
      <4>2. F[i] = F[i - 1]
        <5>1. F[i - 1] = (IF Number(a, i) >= Number(N, i) THEN TRUE ELSE FALSE)
          BY <2>3, <3>4, Zenon
        <5> QED
          BY <3>1, <5>1, SMT
      <4> QED
        BY <3>2, <4>1, <4>2, Zenon
    <3> QED
      BY <3>3, <3>4, Zenon
  <2>8. a[i] < N[i] \/ a[i] > N[i] \/ a[i] = N[i]
    BY <1>1
  <2> QED
    BY <2>5, <2>6, <2>7, <2>8, Zenon
<1>3. IsFrom(F, a)
  <2>1. F = [i \in Index |-> F[i]]
    OBVIOUS
  <2> QED
    BY <1>2, <2>1, Zenon DEF IsFrom
<1>4. PICK from : from = CHOOSE f : IsFrom(f, a)
  OBVIOUS
<1>5. IsFrom(from, a)
  BY <1>3, <1>4
<1>6. scalar_check_overflow(a) = from[L - 1]
  BY <1>4, Zenon DEF scalar_check_overflow, IsFrom
<1>7. \A i \in Index : from[i] = (IF a[i] < N[i] THEN FALSE
                                  ELSE IF a[i] > N[i] THEN TRUE ELSE i = 0 \/ from[i - 1])
  BY <1>5, Zenon DEF IsFrom
<1> DEFINE S == {k \in Index : from[k] = F[k]}
<1> HIDE DEF F
<1>8. \A k \in 0..(L - 1) : k \in S
  <2>1. 0 \in S
    <3>1. 0 \in Index
      BY Sizes DEF Index
    <3>2. from[0] = F[0]
      BY <1>2, <1>7, <3>1, Zenon
    <3> QED
      BY <3>1, <3>2
  <2>2. ASSUME NEW k \in 0..((L - 1) - 1), k \in S
        PROVE  k + 1 \in S
    <3>1. k + 1 \in Index /\ (k + 1) - 1 = k
      BY Sizes DEF Index
    <3>2. from[k] = F[k]
      BY <2>2
    <3>3. from[k + 1] = F[k + 1]
      <4> PICK j \in Index : j = k + 1
        BY <3>1
      <4>1. from[j - 1] = F[j - 1]
        BY <3>1, <3>2
      <4>2. from[j] = F[j]
        BY <1>2, <1>7, <4>1, Zenon
      <4> QED
        BY <4>2
    <3> QED
      BY <3>1, <3>3
  <2>3. L - 1 \in Nat
    BY Sizes
  <2> HIDE DEF S
  <2> QED
    BY <2>1, <2>2, <2>3, UpTo
<1>9. L - 1 \in Index /\ (L - 1) + 1 = L
  BY Sizes DEF Index
<1>10. from[L - 1] = F[L - 1]
  BY <1>8, <1>9 DEF Index
<1>11. F[L - 1] = (IF Number(a, L) >= OrderN THEN TRUE ELSE FALSE)
  <2>1. F[L - 1] = (IF Number(a, (L - 1) + 1) >= Number(N, (L - 1) + 1) THEN TRUE ELSE FALSE)
    BY <1>9, Zenon DEF F
  <2> QED
    BY <1>9, <2>1, OrderLimbs
<1> QED
  BY <1>6, <1>10, <1>11, Zenon

-----------------------------------------------------------------------------
(* Sums of scalars.                                                        *)

\* Limbs that are zero add nothing.
LEMMA NumberExtend ==
    ASSUME LimbsFit, NEW n \in Nat, NEW m \in Nat, n <= m, NEW a, IntLimbs(a, n),
           \A i \in n..(m - 1) : a[i] = 0
    PROVE  IntLimbs(a, m) /\ Number(a, m) = Number(a, n)
<1>1. IntLimbs(a, m)
  <2> SUFFICES ASSUME NEW i \in 0..(m - 1) PROVE a[i] \in Int
    BY DEF IntLimbs
  <2>1. i \in 0..(n - 1) \/ i \in n..(m - 1)
    OBVIOUS
  <2> QED
    BY <2>1 DEF IntLimbs
<1> DEFINE S == {k \in 0..(m - n) : Number(a, n + k) = Number(a, n)}
<1>2. 0 \in S
  BY n + 0 = n
<1>3. ASSUME NEW k \in 0..((m - n) - 1), k \in S
      PROVE  k + 1 \in S
  <2>1. /\ n + k \in Nat /\ n + k \in n..(m - 1) /\ n + (k + 1) = (n + k) + 1 /\ (n + k) + 1 <= m
        /\ k + 1 \in 0..(m - n) /\ Number(a, n + k) = Number(a, n)
    BY <1>3
  <2>2. IntLimbs(a, (n + k) + 1)
    BY <1>1, <2>1 DEF IntLimbs
  <2>3. /\ Number(a, (n + k) + 1) = Number(a, n + k) + a[n + k] * Place(n + k)
        /\ Number(a, n + k) \in Int
    BY <2>1, <2>2, NumberStep
  <2>4. a[n + k] * Place(n + k) = 0
    <3>1. a[n + k] = 0 /\ Place(n + k) \in Nat
      BY <2>1, Places
    <3> QED
      BY <3>1
  <2> QED
    BY <2>1, <2>3, <2>4
<1>4. \A k \in 0..(m - n) : k \in S
  <2>1. m - n \in Nat
    OBVIOUS
  <2> HIDE DEF S
  <2> QED
    BY <1>2, <1>3, <2>1, UpTo
<1>5. m - n \in S /\ n + (m - n) = m
  BY <1>4
<1> QED
  BY <1>1, <1>5

\* The complement of the order in all limbs, times a small number.
LEMMA ComplementLimbs ==
    ASSUME LimbsFit, NEW t \in Int, NEW a, \A i \in Index : a[i] = (IF i <= H THEN Cs[i] * t ELSE 0)
    PROVE  IntLimbs(a, L) /\ Number(a, L) = t * Complement
<1>1. L \in Nat /\ H \in Nat /\ H + 1 <= L /\ Index = 0..(L - 1)
  BY Sizes
<1>2. Limbs(Cs, H + 1) /\ IntLimbs(Cs, H + 1)
  BY <1>1, OrderSize, LimbsInt
<1>3. ASSUME NEW i \in 0..H
      PROVE  Cs[i] \in Int /\ a[i] = Cs[i] * t /\ a[i] = t * Cs[i]
  <2>1. i \in Index /\ i <= H /\ i \in 0..((H + 1) - 1)
    BY <1>1
  <2>2. Cs[i] \in Int
    BY <1>2, <2>1 DEF IntLimbs
  <2>3. a[i] = Cs[i] * t
    BY <2>1
  <2> QED
    BY <2>2, <2>3
<1>4. \A i \in 0..((H + 1) - 1) : a[i] = t * Cs[i] /\ a[i] \in Int
  BY <1>1, <1>3
<1>5. Number(a, H + 1) = t * Number(Cs, H + 1)
  BY <1>1, <1>2, <1>4, NumberTimes
<1>6. \A i \in (H + 1)..(L - 1) : a[i] = 0
  BY <1>1
<1>7. IntLimbs(a, H + 1)
  BY <1>4 DEF IntLimbs
<1>8. IntLimbs(a, L) /\ Number(a, L) = Number(a, H + 1)
  BY <1>1, <1>6, <1>7, NumberExtend
<1> QED
  BY <1>5, <1>8 DEF Complement

\* The field of a sum: what is known of its limbs.
LEMMA SumLimbs ==
    ASSUME LimbsFit, NEW a, NEW b, NEW c, IntLimbs(a, L), IntLimbs(b, L),
           \A i \in Index : c[i] = a[i] + b[i]
    PROVE  IntLimbs(c, L) /\ Number(c, L) = Number(a, L) + Number(b, L)
<1>1. L \in Nat /\ Index = 0..(L - 1)
  BY Sizes
<1>2. IntLimbs(c, L)
  BY <1>1 DEF IntLimbs
<1> QED
  BY <1>1, <1>2, NumberPlus

\* Adding the complement of the order, up to a carry out of the limbs.
LEMMA ComplementAdded ==
    ASSUME LimbsFit, NEW t \in Int, NEW a, IntLimbs(a, L), NEW c,
           \A i \in Index : c[i] = a[i] + (IF i <= H THEN Cs[i] * t ELSE 0)
    PROVE  /\ Carried(c).r \in [Index -> 0..(B - 1)] /\ Limbs(Carried(c).r, L)
           /\ Carried(c).out \in Int
           /\ Number(Carried(c).r, L) + Carried(c).out * Place(L) = Number(a, L) + t * Complement
<1> DEFINE b == [i \in Index |-> IF i <= H THEN Cs[i] * t ELSE 0]
<1>1. \A i \in Index : b[i] = (IF i <= H THEN Cs[i] * t ELSE 0)
  OBVIOUS
<1>2. \A i \in Index : c[i] = a[i] + b[i]
  OBVIOUS
<1> HIDE DEF b
<1>3. IntLimbs(b, L) /\ Number(b, L) = t * Complement
  BY <1>1, ComplementLimbs
<1>4. IntLimbs(c, L) /\ Number(c, L) = Number(a, L) + Number(b, L)
  BY <1>2, <1>3, SumLimbs
<1> QED
  BY <1>3, <1>4, CarriedRight

\* scalar_reduce adds the complement of the order once, if at all, and forgets
\* what is carried out.
LEMMA ScalarReduceBy ==
    ASSUME LimbsFit, NEW r \in [Index -> 0..(B - 1)], NEW overflow \in {0, 1}
    PROVE  LET s == scalar_reduce(r, overflow)
           IN /\ s.ok /\ s.overflow = overflow
              /\ s.r \in [Index -> 0..(B - 1)] /\ Limbs(s.r, L)
              /\ Number(s.r, L) = (Number(r, L) + overflow * Complement) % Place(L)
<1>1. L \in Nat /\ Index = 0..(L - 1) /\ B \in Nat
  BY Sizes
<1>2. Limbs(r, L) /\ IntLimbs(r, L)
  BY <1>1 DEF Limbs, IntLimbs
<1>3. Number(r, L) \in Nat /\ Number(r, L) < Place(L) /\ Place(L) \in Nat /\ Place(L) >= 1
  BY <1>1, <1>2, NumberBound, Places
<1>4. Complement \in Nat
  BY OrderSize
<1> PICK s : s = scalar_reduce(r, overflow)
  OBVIOUS
<1>5. /\ s.ok = (overflow \in {0, 1}) /\ s.overflow = overflow
      /\ s.r = IF overflow = 0 THEN r
               ELSE Carried([i \in Index |-> r[i] + (IF i <= H THEN Cs[i] ELSE 0)]).r
  BY DEF scalar_reduce
<1>6. CASE overflow = 0
  <2>1. s.r = r
    BY <1>5, <1>6
  <2> PICK n \in Nat, p \in Nat : n = Number(r, L) /\ p = Place(L) /\ n \in 0..(p - 1) /\ p >= 1
    BY <1>3
  <2>2. n % p = n
    BY ModSmall
  <2>3. n + overflow * Complement = n
    BY <1>4, <1>6
  <2> QED
    BY <1>2, <1>5, <2>1, <2>2, <2>3, Zenon
<1>7. CASE overflow = 1
  <2> DEFINE c == [i \in Index |-> r[i] + (IF i <= H THEN Cs[i] ELSE 0)]
  <2>1. \A i \in 0..H : Cs[i] \in Int
    <3>1. Limbs(Cs, H + 1) /\ H \in Nat
      BY OrderSize, Sizes
    <3> QED
      BY <1>1, <3>1 DEF Limbs
  <2> PICK t \in Int : t = 1
    OBVIOUS
  <2>2. \A i \in Index : c[i] = r[i] + (IF i <= H THEN Cs[i] * t ELSE 0)
    <3> TAKE i \in Index
    <3>1. i <= H => Cs[i] * t = Cs[i]
      BY <1>1, <2>1
    <3> QED
      BY <3>1
  <2>3. s.r = Carried(c).r
    BY <1>5, <1>7
  <2> HIDE DEF c
  <2> PICK e : e = Carried(c)
    OBVIOUS
  <2>4. /\ e.r \in [Index -> 0..(B - 1)] /\ Limbs(e.r, L) /\ e.out \in Int
        /\ Number(e.r, L) + e.out * Place(L) = Number(r, L) + t * Complement
    BY <1>2, <2>2, ComplementAdded, Zenon
  <2>5. Number(e.r, L) \in Nat /\ Number(e.r, L) < Place(L)
    BY <1>1, <2>4, NumberBound
  <2> PICK x \in Nat, p \in Nat, o \in Int, y \in Nat :
          x = Number(e.r, L) /\ p = Place(L) /\ o = e.out /\ y = Number(r, L) + overflow * Complement
      /\ x \in 0..(p - 1) /\ p >= 1
    BY <1>3, <1>4, <1>7, <2>4, <2>5
  <2>6. y = p * o + x
    <3>1. x + o * p = Number(r, L) + t * Complement
      BY <2>4, Zenon
    <3>2. t * Complement = overflow * Complement
      BY <1>7
    <3>3. o * p = p * o
      OBVIOUS
    <3> PICK z \in Int, w \in Int : z = o * p /\ w = overflow * Complement
      BY <1>4
    <3> QED
      BY <1>3, <3>1, <3>2, <3>3
  <2>7. y % p = x
    <3>1. y \in Int
      OBVIOUS
    <3> QED
      BY ONLY p \in Nat, p >= 1, o \in Int, x \in 0..(p - 1), <3>1, <2>6, DivisionUnique
  <2> QED
    BY <1>5, <2>3, <2>4, <2>7, Zenon
<1> QED
  BY <1>6, <1>7

\* A number in the limbs that is at least the order and below twice it is
\* reduced by one subtraction; so is one that was carried out of the limbs.
LEMMA ScalarReduceOnce ==
    ASSUME LimbsFit, NEW r \in [Index -> 0..(B - 1)], NEW out \in {0, 1}, NEW v \in Nat,
           v = Number(r, L) + out * Place(L), v < 2 * OrderN
    PROVE  LET o == IF out > 0 \/ scalar_check_overflow(r) THEN 1 ELSE 0
               s == scalar_reduce(r, o)
           IN /\ s.ok /\ s.overflow = o /\ (o = 1) = (v >= OrderN)
              /\ s.r \in [Index -> 0..(B - 1)] /\ Limbs(s.r, L) /\ Number(s.r, L) = v % OrderN
<1>1. L \in Nat /\ Index = 0..(L - 1) /\ B \in Nat
  BY Sizes
<1>2. Limbs(r, L)
  BY <1>1 DEF Limbs
<1>3. Number(r, L) \in Nat /\ Number(r, L) < Place(L) /\ Place(L) \in Nat
  BY <1>1, <1>2, NumberBound, Places
<1>4. /\ Complement \in Nat /\ OrderN \in Nat /\ OrderN + Complement = Place(L) /\ Complement >= 16
      /\ 8 * Complement <= Place(L)
  BY OrderSize
<1>5. scalar_check_overflow(r) <=> Number(r, L) >= OrderN
  BY <1>2, ScalarCheckOverflow
<1> PICK o : o = IF out > 0 \/ scalar_check_overflow(r) THEN 1 ELSE 0
  OBVIOUS
<1> PICK s : s = scalar_reduce(r, o)
  OBVIOUS
<1>6. o \in {0, 1}
  OBVIOUS
<1>7. /\ s.ok /\ s.overflow = o /\ s.r \in [Index -> 0..(B - 1)] /\ Limbs(s.r, L)
      /\ Number(s.r, L) = (Number(r, L) + o * Complement) % Place(L)
  BY <1>6, ScalarReduceBy
<1> PICK x \in Nat, n \in Nat, c \in Nat, p \in Nat :
        x = Number(r, L) /\ n = OrderN /\ c = Complement /\ p = Place(L)
  BY <1>3, <1>4
<1>8. n + c = p /\ x < p /\ c >= 16 /\ 8 * c <= p /\ n >= 1 /\ p >= 1
  BY <1>3, <1>4
<1>9. v = x + out * p
  OBVIOUS
<1>12. v < 2 * n
  OBVIOUS
<1>10. CASE o = 0
  <2>1. out = 0 /\ ~(x >= n)
    BY <1>5, <1>10
  <2>2. v = x /\ x \in 0..(n - 1) /\ x \in 0..(p - 1)
    BY <1>8, <1>9, <2>1
  <2>3. v % n = x /\ x % p = x
    BY <1>8, <2>2, ModSmall, Zenon
  <2>4. x + o * c = x
    BY <1>10
  <2>5. (o = 1) = (v >= OrderN)
    BY <1>10, <2>1, <2>2
  <2> QED
    BY <1>7, <2>3, <2>4, <2>5
<1>11. CASE o = 1
  <2>1. out = 1 \/ x >= n
    BY <1>5, <1>11
  <2>2. PICK d \in Nat : d = v - n /\ d < n /\ d < p /\ (x + o * c = d \/ x + o * c = p + d)
    <3>1. out = 0 => v = x
      BY <1>9
    <3>2. out = 1 => v = x + p
      BY <1>9
    <3>3. v >= n /\ v - n \in Nat /\ v - n < n /\ v - n < p
      <4>1. out = 0 \/ out = 1
        OBVIOUS
      <4>2. v >= n
        BY ONLY <1>8, <2>1, <3>1, <3>2, <4>1, v \in Nat, x \in Nat, n \in Nat, c \in Nat, p \in Nat
      <4> QED
        BY ONLY <1>8, <1>12, <4>2, v \in Nat, n \in Nat, c \in Nat, p \in Nat
    <3>5. o * c = c
      BY <1>11
    <3>4. x + o * c = v - n \/ x + o * c = p + (v - n)
      BY <1>8, <2>1, <3>1, <3>2, <3>5
    <3> QED
      BY <3>3, <3>4
  <2>3. v % n = d
    <3> PICK q \in Int : q = 1
      OBVIOUS
    <3>1. v = n * q + d /\ d \in 0..(n - 1) /\ v \in Int /\ n >= 1
      BY <1>8, <2>2
    <3> QED
      BY ONLY n \in Nat, q \in Int, <3>1, DivisionUnique, Zenon
  <2>4. (x + o * c) % p = d
    <3>1. d \in 0..(p - 1) /\ x + o * c \in Int
      BY <2>2
    <3> PICK q \in Int : x + o * c = p * q + d
      <4>1. x + o * c = p * 0 + d \/ x + o * c = p * 1 + d
        BY <2>2
      <4> QED
        BY <4>1
    <3>2. p >= 1
      BY <1>8
    <3> QED
      BY ONLY p \in Nat, q \in Int, <3>1, <3>2, x + o * c = p * q + d, DivisionUnique, ZenonT(60)
  <2>5. (o = 1) = (v >= OrderN)
    BY <1>11, <2>2
  <2> QED
    BY <1>7, <2>3, <2>4, <2>5, Zenon
<1> QED
  BY <1>6, <1>10, <1>11, Zenon

\* scalar_add is the sum modulo the order, and says whether it had to be
\* reduced.
THEOREM ScalarAdd ==
    ASSUME LimbsFit, NEW a, NEW b, Limbs(a, L), Limbs(b, L),
           Number(a, L) < OrderN, Number(b, L) < OrderN
    PROVE  LET s == scalar_add(a, b)
               v == Number(a, L) + Number(b, L)
           IN /\ s.ok /\ s.r \in [Index -> 0..(B - 1)] /\ Limbs(s.r, L)
              /\ Number(s.r, L) = v % OrderN /\ (s.overflow = 1) = (v >= OrderN)
<1>1. L \in Nat /\ Index = 0..(L - 1) /\ B \in Nat
  BY Sizes
<1>2. IntLimbs(a, L) /\ IntLimbs(b, L)
  BY <1>1, LimbsInt
<1> DEFINE c == [i \in Index |-> a[i] + b[i]]
<1>3. \A i \in Index : c[i] = a[i] + b[i]
  OBVIOUS
<1> PICK t : t = Carried(c)
  OBVIOUS
<1>4. scalar_add(a, b) = scalar_reduce(t.r, IF t.out > 0 \/ scalar_check_overflow(t.r) THEN 1 ELSE 0)
  BY Zenon DEF scalar_add
<1> HIDE DEF c
<1>5. IntLimbs(c, L) /\ Number(c, L) = Number(a, L) + Number(b, L)
  BY <1>2, <1>3, SumLimbs
<1>6. /\ t.r \in [Index -> 0..(B - 1)] /\ Limbs(t.r, L) /\ t.out \in Int
      /\ Number(t.r, L) + t.out * Place(L) = Number(c, L)
  BY <1>5, CarriedRight
<1>7. /\ Number(a, L) \in Nat /\ Number(b, L) \in Nat
      /\ Number(t.r, L) \in Nat /\ Number(t.r, L) < Place(L) /\ Place(L) \in Nat
  BY <1>1, <1>6, NumberBound, Places
<1>8. OrderN \in Nat /\ OrderN < Place(L)
  <2>1. OrderN \in Nat /\ OrderN + Complement = Place(L) /\ Complement >= 16 /\ Complement \in Nat
    BY OrderSize
  <2> QED
    BY <2>1
<1> PICK v \in Nat, p \in Nat, o \in Int, x \in Nat :
        v = Number(a, L) + Number(b, L) /\ p = Place(L) /\ o = t.out /\ x = Number(t.r, L)
  BY <1>6, <1>7
<1>9. v < 2 * OrderN /\ x < p /\ x + o * p = v /\ v < 2 * p /\ p >= 1
  BY <1>5, <1>6, <1>7, <1>8
<1>10. o \in {0, 1}
  <2>1. o <= -1 => p * o <= -p
    BY <1>9, MultipleGap
  <2>2. o - 2 >= 0 => p * (o - 2) >= 0
    BY <1>9
  <2>3. p * (o - 2) = p * o - 2 * p /\ p * o = o * p
    OBVIOUS
  <2> PICK z \in Int : z = o * p
    OBVIOUS
  <2>4. x + z = v /\ (o <= -1 => z <= -p) /\ (o >= 2 => z >= 2 * p)
    BY <1>9, <2>1, <2>2, <2>3
  <2> QED
    BY <1>9, <2>4
<1>11. t.out \in {0, 1} /\ v = Number(t.r, L) + t.out * Place(L)
  BY <1>9, <1>10
<1>12. LET u == IF t.out > 0 \/ scalar_check_overflow(t.r) THEN 1 ELSE 0
           s == scalar_reduce(t.r, u)
       IN /\ s.ok /\ s.overflow = u /\ (u = 1) = (v >= OrderN)
          /\ s.r \in [Index -> 0..(B - 1)] /\ Limbs(s.r, L) /\ Number(s.r, L) = v % OrderN
  BY ONLY LimbsFit, v \in Nat, <1>6, <1>9, <1>11, ScalarReduceOnce, Zenon
<1> QED
  BY <1>4, <1>12, Zenon

-----------------------------------------------------------------------------
(* Negation.                                                               *)

\* One limb that is not zero.
LEMMA NumberAt ==
    ASSUME LimbsFit, NEW n \in Nat, NEW j \in 0..(n - 1), NEW x \in Int, NEW u,
           \A i \in 0..(n - 1) : u[i] = (IF i = j THEN x ELSE 0)
    PROVE  IntLimbs(u, n) /\ Number(u, n) = x * Place(j)
<1>1. IntLimbs(u, n)
  BY DEF IntLimbs
<1>2. j \in Nat /\ j + 1 \in Nat /\ j + 1 <= n
  OBVIOUS
<1>3. IntLimbs(u, 0) /\ IntLimbs(u, j + 1)
  BY <1>1, <1>2 DEF IntLimbs
<1>4. \A i \in 0..(j - 1) : u[i] = 0
  OBVIOUS
<1>5. Number(u, j) = Number(u, 0)
  <2> PICK z \in Nat : z = 0
    OBVIOUS
  <2>1. \A i \in z..(j - 1) : u[i] = 0
    BY <1>4
  <2>2. z <= j /\ IntLimbs(u, z)
    BY <1>2, <1>3
  <2>3. Number(u, j) = Number(u, z)
    BY ONLY LimbsFit, z \in Nat, <1>2, <2>1, <2>2, NumberExtend, Zenon
  <2> QED
    BY <2>3
<1>6. Number(u, j + 1) = Number(u, j) + u[j] * Place(j) /\ Number(u, j) \in Int
  BY <1>2, <1>3, NumberStep
<1>7. \A i \in (j + 1)..(n - 1) : u[i] = 0
  BY <1>2
<1>8. Number(u, n) = Number(u, j + 1)
  BY ONLY LimbsFit, n \in Nat, <1>2, <1>3, <1>7, NumberExtend, Zenon
<1>9. Number(u, 0) = 0
  BY NumberZero
<1>10. u[j] = x /\ Place(j) \in Nat
  BY <1>2, Places
<1>11. x * Place(j) \in Int
  BY <1>10
<1> QED
  BY <1>1, <1>5, <1>6, <1>8, <1>9, <1>10, <1>11

\* Limbs of ones make the last number below the place.
LEMMA NumberOnes ==
    ASSUME LimbsFit, NEW n \in Nat, NEW a, \A i \in 0..(n - 1) : a[i] = B - 1
    PROVE  IntLimbs(a, n) /\ Number(a, n) = Place(n) - 1
<1>1. IntLimbs(a, n)
  BY Sizes DEF IntLimbs
<1> DEFINE S == {k \in 0..n : Number(a, k) = Place(k) - 1}
<1>2. 0 \in S
  BY NumberZero, Places
<1>3. ASSUME NEW k \in 0..(n - 1), k \in S
      PROVE  k + 1 \in S
  <2>1. k \in Nat /\ k + 1 \in 0..n /\ a[k] = B - 1 /\ Number(a, k) = Place(k) - 1
    BY <1>3
  <2>2. IntLimbs(a, k + 1)
    BY <1>1, <2>1 DEF IntLimbs
  <2>3. Number(a, k + 1) = Number(a, k) + a[k] * Place(k)
    BY <2>1, <2>2, NumberStep
  <2>4. Place(k) \in Nat /\ B \in Nat /\ Place(k + 1) = B * Place(k)
    BY <2>1, Places, Sizes
  <2> PICK p \in Nat, b \in Nat : p = Place(k) /\ b = B
    BY <2>4
  <2>5. (b - 1) * p = b * p - p /\ b * p \in Nat
    OBVIOUS
  <2>6. Number(a, k + 1) = (p - 1) + (b - 1) * p
    BY <2>1, <2>3
  <2> QED
    BY <2>1, <2>4, <2>5, <2>6
<1>4. \A k \in 0..n : k \in S
  <2> HIDE DEF S
  <2> QED
    BY <1>2, <1>3, UpTo
<1> QED
  BY <1>1, <1>4

\* Reduced limbs with the same number are the same.
LEMMA NumberUnique ==
    ASSUME LimbsFit, NEW n \in Nat, NEW a, NEW c, Limbs(a, n), Limbs(c, n), Number(a, n) = Number(c, n)
    PROVE  \A i \in 0..(n - 1) : a[i] = c[i]
<1> DEFINE Same(k) == \A i \in 0..(k - 1) : a[i] = c[i]
           S == {k \in 0..n : Number(a, k) = Number(c, k) => Same(k)}
<1>1. 0 \in S
  OBVIOUS
<1>2. ASSUME NEW k \in 0..(n - 1), k \in S
      PROVE  k + 1 \in S
  <2>1. k \in Nat /\ k + 1 \in 0..n /\ k + 1 \in Nat /\ k + 1 <= n /\ k <= n
    OBVIOUS
  <2>2. Limbs(a, k + 1) /\ Limbs(c, k + 1) /\ Limbs(a, k) /\ Limbs(c, k)
    BY <2>1, LimbsInt
  <2>3. /\ a[k] < c[k] => Number(a, k + 1) < Number(c, k + 1)
        /\ a[k] > c[k] => Number(a, k + 1) > Number(c, k + 1)
        /\ a[k] = c[k] => Number(a, k + 1) - Number(c, k + 1) = Number(a, k) - Number(c, k)
    BY <2>1, <2>2, CompareStep
  <2>4. /\ Number(a, k + 1) \in Nat /\ Number(c, k + 1) \in Nat
        /\ Number(a, k) \in Nat /\ Number(c, k) \in Nat
    BY <2>1, <2>2, NumberBound
  <2>5. a[k] \in Int /\ c[k] \in Int
    BY <2>1, <2>2, Sizes DEF Limbs
  <2>6. ASSUME Number(a, k + 1) = Number(c, k + 1)
        PROVE  Same(k + 1)
    <3>1. a[k] = c[k]
      BY <2>3, <2>4, <2>5, <2>6
    <3>2. Number(a, k) = Number(c, k)
      BY <2>3, <2>4, <2>6, <3>1
    <3>3. Same(k)
      BY <1>2, <3>2
    <3>4. \A i \in 0..((k + 1) - 1) : i = k \/ i \in 0..(k - 1)
      OBVIOUS
    <3> QED
      BY <3>1, <3>3, <3>4
  <2> QED
    BY <2>1, <2>6
<1>3. \A k \in 0..n : k \in S
  <2> HIDE DEF S
  <2> QED
    BY <1>1, <1>2, UpTo
<1>4. n \in S
  BY <1>3
<1> QED
  BY <1>4

\* Limbs of zeros make zero.
LEMMA NumberNothing ==
    ASSUME LimbsFit, NEW n \in Nat, NEW a, \A i \in 0..(n - 1) : a[i] = 0
    PROVE  IntLimbs(a, n) /\ Number(a, n) = 0
<1>1. IntLimbs(a, n) /\ IntLimbs(a, 0)
  BY DEF IntLimbs
<1> PICK z \in Nat : z = 0
  OBVIOUS
<1>2. z <= n /\ IntLimbs(a, z) /\ \A i \in z..(n - 1) : a[i] = 0
  BY <1>1
<1>3. Number(a, n) = Number(a, z)
  BY ONLY LimbsFit, n \in Nat, z \in Nat, <1>2, NumberExtend, Zenon
<1> QED
  BY <1>1, <1>3, NumberZero

\* scalar_is_zero knows zero.
LEMMA ScalarIsZero ==
    ASSUME LimbsFit, NEW a, Limbs(a, L)
    PROVE  scalar_is_zero(a) <=> Number(a, L) = 0
<1>1. L \in Nat /\ Index = 0..(L - 1)
  BY Sizes
<1>2. ASSUME scalar_is_zero(a)
      PROVE  Number(a, L) = 0
  BY <1>1, <1>2, NumberNothing DEF scalar_is_zero
<1>3. ASSUME Number(a, L) = 0
      PROVE  scalar_is_zero(a)
  <2> DEFINE z == [i \in Index |-> 0]
  <2>1. \A i \in 0..(L - 1) : z[i] = 0
    BY <1>1
  <2> HIDE DEF z
  <2>2. Number(z, L) = 0
    BY <1>1, <2>1, NumberNothing
  <2>3. Limbs(z, L)
    BY <2>1, Sizes DEF Limbs
  <2>4. \A i \in 0..(L - 1) : a[i] = z[i]
    BY <1>1, <1>3, <2>2, <2>3, NumberUnique
  <2> QED
    BY <1>1, <2>1, <2>4 DEF scalar_is_zero
<1> QED
  BY <1>2, <1>3

\* scalar_negate gives the additive inverse modulo the order.
THEOREM ScalarNegate ==
    ASSUME LimbsFit, NEW a, Limbs(a, L), Number(a, L) < OrderN
    PROVE  LET r == scalar_negate(a, a)
           IN Limbs(r, L) /\ Number(r, L) = (OrderN - Number(a, L)) % OrderN
<1>1. L \in Nat /\ L >= 1 /\ Index = 0..(L - 1) /\ B \in Nat
  BY Sizes
<1>2. Number(a, L) \in Nat /\ Place(L) \in Nat
  BY <1>1, NumberBound, Places
<1>3. OrderN \in Nat /\ OrderN < Place(L) /\ OrderN >= 1
  <2>1. /\ OrderN \in Nat /\ OrderN + Complement = Place(L) /\ Complement >= 16 /\ Complement \in Nat
        /\ 8 * Complement <= Place(L)
    BY OrderSize
  <2> QED
    BY <1>2, <2>1
<1>4. scalar_is_zero(a) <=> Number(a, L) = 0
  BY ScalarIsZero
<1> PICK n \in Nat, v \in Nat, p \in Nat : n = OrderN /\ v = Number(a, L) /\ p = Place(L)
  BY <1>2, <1>3
<1>5. n >= 1 /\ v < n /\ n < p
  BY <1>3
<1>6. CASE scalar_is_zero(a)
  <2>1. scalar_negate(a, a) = a /\ v = 0
    BY <1>4, <1>6 DEF scalar_negate
  <2>2. (n - v) % n = v
    <3> PICK q \in Int, x \in Int : q = 1 /\ x = n - v
      OBVIOUS
    <3>1. x = n * q + v /\ v \in 0..(n - 1)
      BY <1>5, <2>1
    <3>2. x % n = v
      BY ONLY n \in Nat, <1>5, q \in Int, x \in Int, <3>1, DivisionUnique, Zenon
    <3> QED
      BY <3>2
  <2> QED
    BY <2>1, <2>2
<1>7. CASE ~scalar_is_zero(a)
  <2> PICK t \in Int : t = 0 - 1
    OBVIOUS
  <2> DEFINE c == [i \in Index |-> (B - 1 - a[i]) + N[i] + (IF i = 0 THEN 1 ELSE 0)]
             m == [i \in Index |-> B - 1]
             u == [i \in Index |-> IF i = 0 THEN 1 ELSE 0]
             g == [i \in Index |-> t * a[i]]
             d == [i \in Index |-> m[i] + g[i]]
             e == [i \in Index |-> d[i] + N[i]]
  <2>1. scalar_negate(a, a) = Carried(c).r
    BY <1>7 DEF scalar_negate
  <2>2. \A i \in Index : a[i] \in Int /\ N[i] \in Int
    BY <1>1, OrderLimbs DEF Limbs
  <2>3. \A i \in Index : c[i] = e[i] + u[i]
    <3> TAKE i \in Index
    <3>1. a[i] \in Int /\ N[i] \in Int
      BY <2>2
    <3>2. /\ c[i] = (B - 1 - a[i]) + N[i] + (IF i = 0 THEN 1 ELSE 0) /\ u[i] = (IF i = 0 THEN 1 ELSE 0)
          /\ e[i] = ((B - 1) + t * a[i]) + N[i]
      OBVIOUS
    <3>3. t * a[i] = 0 - a[i]
      BY <3>1
    <3> QED
      BY <1>1, <3>1, <3>2, <3>3
  <2>4. /\ \A i \in Index : e[i] = d[i] + N[i]
        /\ \A i \in Index : d[i] = m[i] + g[i]
        /\ \A i \in 0..(L - 1) : m[i] = B - 1
        /\ \A i \in 0..(L - 1) : u[i] = (IF i = 0 THEN 1 ELSE 0)
        /\ \A i \in 0..(L - 1) : g[i] = t * a[i]
    BY <1>1
  <2>5. IntLimbs(a, L) /\ IntLimbs(N, L) /\ IntLimbs(g, L)
    <3>1. \A i \in 0..(L - 1) : g[i] \in Int
      BY <1>1, <2>2, <2>4
    <3> QED
      BY <1>1, <2>2, <3>1 DEF IntLimbs
  <2> HIDE DEF c, m, u, g, d, e
  <2>6. IntLimbs(m, L) /\ Number(m, L) = p - 1
    BY <1>1, <2>4, NumberOnes
  <2>7. Number(g, L) = 0 - v
    <3>1. \A i \in 0..(L - 1) : g[i] = t * a[i]
      BY <2>4
    <3>2. Number(g, L) = t * Number(a, L)
      BY ONLY LimbsFit, <1>1, t \in Int, <2>5, <3>1, NumberTimes, Zenon
    <3> QED
      BY <3>2
  <2>8. IntLimbs(u, L) /\ Number(u, L) = 1
    <3> PICK j \in Int, x \in Int : j = 0 /\ x = 1
      OBVIOUS
    <3>1. j \in 0..(L - 1) /\ \A i \in 0..(L - 1) : u[i] = (IF i = j THEN x ELSE 0)
      BY <1>1, <2>4
    <3>2. IntLimbs(u, L) /\ Number(u, L) = x * Place(j)
      BY ONLY LimbsFit, <1>1, x \in Int, <3>1, NumberAt, Zenon
    <3>3. Place(j) = 1
      BY FirstPlaces
    <3> QED
      BY <3>2, <3>3
  <2>9. IntLimbs(d, L) /\ Number(d, L) = Number(m, L) + Number(g, L)
    BY <2>4, <2>5, <2>6, SumLimbs, ZenonT(60)
  <2>10. IntLimbs(e, L) /\ Number(e, L) = Number(d, L) + Number(N, L)
    BY <2>4, <2>5, <2>9, SumLimbs
  <2>11. IntLimbs(c, L) /\ Number(c, L) = Number(e, L) + Number(u, L)
    BY <2>3, <2>8, <2>10, SumLimbs
  <2>12. Number(c, L) = p + (n - v)
    <3>1. Number(N, L) = n
      BY OrderLimbs
    <3> QED
      BY <2>6, <2>7, <2>8, <2>9, <2>10, <2>11, <3>1
  <2>13. /\ Limbs(Carried(c).r, L) /\ Carried(c).out \in Int
         /\ Number(Carried(c).r, L) + Carried(c).out * Place(L) = Number(c, L)
    BY <2>11, CarriedRight
  <2>14. Number(Carried(c).r, L) \in Nat /\ Number(Carried(c).r, L) < Place(L)
    BY <1>1, <2>13, NumberBound
  <2>15. n - v \in 1..(n - 1) /\ n - v \in 0..(p - 1)
    <3>1. v # 0
      BY <1>4, <1>7
    <3> QED
      BY <1>5, <3>1
  <2> PICK x \in Nat, o \in Int : x = Number(Carried(c).r, L) /\ o = Carried(c).out
    BY <2>13, <2>14
  <2>16. x = n - v
    <3>1. o * p + x = 1 * p + (n - v)
      <4>1. x + o * p = p + (n - v)
        BY <2>12, <2>13, Zenon
      <4> PICK z \in Int : z = o * p
        OBVIOUS
      <4> QED
        BY <4>1
    <3>2. x \in 0..(p - 1) /\ p >= 1
      BY <1>5, <2>14
    <3> PICK w \in Int, y \in 0..(p - 1) : w = 1 /\ y = n - v
      BY <2>15
    <3>3. o * p + x = w * p + y
      BY <3>1
    <3> QED
      <4>1. x = y
        BY ONLY p \in Nat, <3>2, o \in Int, w \in Int, y \in 0..(p - 1), <3>3, PairUnique, ZenonT(30)
      <4> QED
        BY <4>1
  <2>17. (n - v) % n = n - v
    <3> PICK y \in 0..(n - 1) : y = n - v
      BY <2>15
    <3>1. y % n = y
      BY <1>5, ModSmall
    <3> QED
      BY <3>1
  <2> QED
    BY <2>1, <2>13, <2>16, <2>17
<1> QED
  BY <1>6, <1>7

-----------------------------------------------------------------------------
(* The comparison with half the order.                                     *)

\* scan has the verdicts of the limbs from each to the highest.
IsScan(scan, a) ==
    scan = [i \in 1..L |->
               IF i = L THEN [yes |-> FALSE, no |-> FALSE]
               ELSE LET s == scan[i + 1]
                        no == s.no \/ (a[i] < NH[i] /\ ~s.yes)
                    IN [yes |-> s.yes \/ (a[i] > NH[i] /\ ~no), no |-> no]]

\* Pairs of verdicts.
Verdicts == [yes : BOOLEAN, no : BOOLEAN]

\* Verdicts exist.
LEMMA ScanExists ==
    ASSUME LimbsFit, NEW a
    PROVE  \E scan : IsScan(scan, a)
<1> DEFINE Next1(i, s) == LET no == s.no \/ (a[i] < NH[i] /\ ~s.yes)
                          IN [yes |-> s.yes \/ (a[i] > NH[i] /\ ~no), no |-> no]
           G == [p \in Nat \X Verdicts |-> Next1(L - p[1], p[2])]
           b == [yes |-> FALSE, no |-> FALSE]
<1>1. b \in Verdicts
  BY DEF Verdicts
<1>2. G \in [Nat \X Verdicts -> Verdicts]
  <2>1. ASSUME NEW p \in Nat \X Verdicts
        PROVE  Next1(L - p[1], p[2]) \in Verdicts
    BY DEF Verdicts
  <2> HIDE DEF Next1
  <2> QED
    BY <2>1
<1>3. L \in Nat /\ L >= 1 /\ L - 1 \in Nat
  BY Sizes
<1>4. PICK f \in [0..(L - 1) -> Verdicts] : f[0] = b /\ \A k \in 1..(L - 1) : f[k] = G[<<k, f[k - 1]>>]
  <2> HIDE DEF G, b
  <2> PICK m \in Nat : m = L - 1
    BY <1>3
  <2> PICK T : T = Verdicts
    OBVIOUS
  <2>1. b \in T /\ G \in [Nat \X T -> T]
    BY <1>1, <1>2
  <2>2. \E f : Recurs(f, T, b, G, m)
    BY ONLY m \in Nat, <2>1, TypedRecursion, Zenon
  <2> QED
    BY <2>2, Zenon DEF Recurs
<1> DEFINE scan == [i \in 1..L |-> f[L - i]]
<1>5. ASSUME NEW i \in 1..L
      PROVE  scan[i] = IF i = L THEN b ELSE Next1(i, scan[i + 1])
  <2>1. CASE i = L
    <3>1. L - i = 0
      BY <1>3, <2>1
    <3> QED
      BY <1>4, <2>1, <3>1, Zenon
  <2>2. CASE i # L
    <3>1. /\ i + 1 \in 1..L /\ L - i \in 1..(L - 1) /\ (L - i) - 1 = L - (i + 1)
          /\ L - (i + 1) \in 0..(L - 1) /\ L - i \in Nat /\ L - (L - i) = i
      BY <1>3, <2>2
    <3> HIDE DEF Next1, b
    <3>2. scan[i] = f[L - i] /\ scan[i + 1] = f[L - (i + 1)]
      BY <3>1
    <3>3. f[L - i] = G[<<L - i, f[(L - i) - 1]>>]
      BY <1>4, <3>1, Zenon
    <3>4. f[L - (i + 1)] \in Verdicts
      BY <1>4, <3>1, Zenon
    <3> PICK k \in Nat, v \in Verdicts : k = L - i /\ v = f[L - (i + 1)]
      BY <3>1, <3>4
    <3>5. G[<<k, v>>] = Next1(L - k, v)
      OBVIOUS
    <3> HIDE DEF scan, G
    <3>6. scan[i] = G[<<k, v>>] /\ v = scan[i + 1]
      BY <3>1, <3>2, <3>3, Zenon
    <3>7. L - k = i
      BY <3>1
    <3> QED
      BY <2>2, <3>5, <3>6, <3>7
  <2> QED
    BY <2>1, <2>2
<1>6. scan = [i \in 1..L |-> scan[i]]
  OBVIOUS
<1>7. IsScan(scan, a)
  BY <1>5, <1>6, Zenon DEF IsScan
<1> QED
  BY <1>7

\* scalar_is_high says whether a scalar is above half the order, though the
\* lowest limb of the half is compared by the code only if it has to be.
THEOREM ScalarIsHigh ==
    ASSUME LimbsFit, NEW a, Limbs(a, L)
    PROVE  scalar_is_high(a) <=> Number(a, L) > OrderN \div 2
<1>1. L \in Nat /\ L >= 4 /\ Index = 0..(L - 1)
  BY Sizes
<1>2. Limbs(NH, L) /\ Number(NH, L) = OrderN \div 2
  BY OrderLimbs
<1>3. PICK scan : scan = CHOOSE s : IsScan(s, a)
  OBVIOUS
<1>4. IsScan(scan, a)
  BY <1>3, ScanExists, Zenon
<1>5. scalar_is_high(a) = (scan[1].yes \/ (a[0] > NH[0] /\ ~scan[1].no))
  BY <1>3, Zenon DEF scalar_is_high, IsScan
<1> DEFINE Next1(i, s) == LET no == s.no \/ (a[i] < NH[i] /\ ~s.yes)
                          IN [yes |-> s.yes \/ (a[i] > NH[i] /\ ~no), no |-> no]
<1>6. \A i \in 1..L : scan[i] = IF i = L THEN [yes |-> FALSE, no |-> FALSE] ELSE Next1(i, scan[i + 1])
  BY <1>4, Zenon DEF IsScan
<1> PICK n \in Nat, h \in Nat : n = Number(a, L) /\ h = Number(NH, L)
  BY <1>1, <1>2, NumberBound
<1> DEFINE Right(i) == /\ scan[i].yes \in BOOLEAN /\ scan[i].no \in BOOLEAN
                       /\ scan[i].yes => n > h
                       /\ scan[i].no => n < h
                       /\ ~scan[i].yes /\ ~scan[i].no => n - h = Number(a, i) - Number(NH, i)
           S == {k \in 0..(L - 1) : Right(L - k)}
<1>7. ASSUME NEW i \in 0..(L - 1)
      PROVE  /\ a[i] < NH[i] => Number(a, i + 1) < Number(NH, i + 1)
             /\ a[i] > NH[i] => Number(a, i + 1) > Number(NH, i + 1)
             /\ a[i] = NH[i] => Number(a, i + 1) - Number(NH, i + 1) = Number(a, i) - Number(NH, i)
             /\ Number(a, i + 1) \in Nat /\ Number(NH, i + 1) \in Nat
             /\ Number(a, i) \in Nat /\ Number(NH, i) \in Nat
             /\ a[i] \in Int /\ NH[i] \in Int
  <2>1. i \in Nat /\ i + 1 \in Nat /\ i + 1 <= L /\ i <= L
    BY <1>1
  <2>2. Limbs(a, i + 1) /\ Limbs(NH, i + 1) /\ Limbs(a, i) /\ Limbs(NH, i)
    BY <1>1, <1>2, <2>1, LimbsInt
  <2>3. a[i] \in Int /\ NH[i] \in Int
    BY <1>2, Sizes DEF Limbs
  <2> QED
    BY <2>1, <2>2, <2>3, CompareStep, NumberBound
<1>8. 0 \in S
  <2>1. scan[L] = [yes |-> FALSE, no |-> FALSE]
    <3>1. L \in 1..L
      BY <1>1
    <3> HIDE DEF Next1
    <3> QED
      BY <1>6, <3>1, Zenon
  <2>2. L - 0 = L /\ 0 \in 0..(L - 1)
    BY <1>1
  <2>3. scan[L].yes = FALSE /\ scan[L].no = FALSE
    BY <2>1
  <2>4. n - h = Number(a, L) - Number(NH, L)
    OBVIOUS
  <2>5. Right(L)
    BY <2>3, <2>4, Zenon
  <2> QED
    BY <2>2, <2>5
<1>9. ASSUME NEW k \in 0..((L - 1) - 1), k \in S
      PROVE  k + 1 \in S
  <2> PICK i \in 1..(L - 1) : i = L - (k + 1) /\ i + 1 = L - k /\ k + 1 \in 0..(L - 1)
    <3>1. /\ L - (k + 1) \in 1..(L - 1) /\ (L - (k + 1)) + 1 = L - k /\ k + 1 \in 0..(L - 1)
      BY <1>1
    <3> QED
      BY <3>1
  <2>1. Right(i + 1)
    BY <1>9
  <2>2. scan[i] = Next1(i, scan[i + 1])
    <3>1. i \in 1..L /\ i # L
      BY <1>1
    <3> QED
      BY <1>6, <3>1, Zenon
  <2> PICK y \in BOOLEAN, z \in BOOLEAN : y = scan[i + 1].yes /\ z = scan[i + 1].no
    BY <2>1
  <2>3. /\ scan[i].no = (z \/ (a[i] < NH[i] /\ ~y))
        /\ scan[i].yes = (y \/ (a[i] > NH[i] /\ ~(z \/ (a[i] < NH[i] /\ ~y))))
    BY <2>2
  <2>4. /\ y => n > h
        /\ z => n < h
        /\ ~y /\ ~z => n - h = Number(a, i + 1) - Number(NH, i + 1)
    BY <2>1
  <2>5. /\ a[i] < NH[i] => Number(a, i + 1) < Number(NH, i + 1)
        /\ a[i] > NH[i] => Number(a, i + 1) > Number(NH, i + 1)
        /\ a[i] = NH[i] => Number(a, i + 1) - Number(NH, i + 1) = Number(a, i) - Number(NH, i)
        /\ Number(a, i + 1) \in Nat /\ Number(NH, i + 1) \in Nat
        /\ Number(a, i) \in Nat /\ Number(NH, i) \in Nat
        /\ a[i] \in Int /\ NH[i] \in Int
    <3>1. i \in 0..(L - 1)
      BY <1>1
    <3> QED
      BY <1>7, <3>1
  <2>6. Right(i)
    <3> HIDE DEF Next1
    <3>1. scan[i].yes \in BOOLEAN /\ scan[i].no \in BOOLEAN
      BY <2>3, Zenon
    <3>2. scan[i].yes <=> (y \/ (a[i] > NH[i] /\ ~(z \/ (a[i] < NH[i] /\ ~y))))
      BY <2>3, Zenon
    <3>3. scan[i].no <=> (z \/ (a[i] < NH[i] /\ ~y))
      BY <2>3, Zenon
    <3>4. scan[i].yes => n > h
      BY <2>4, <2>5, <3>2
    <3>5. scan[i].no => n < h
      BY <2>4, <2>5, <3>3
    <3>6. ~scan[i].yes /\ ~scan[i].no => n - h = Number(a, i) - Number(NH, i)
      BY <2>4, <2>5, <3>2, <3>3
    <3> QED
      BY <3>1, <3>4, <3>5, <3>6
  <2> QED
    BY <2>6
<1>10. \A k \in 0..(L - 1) : k \in S
  <2>1. L - 1 \in Nat
    BY <1>1
  <2> HIDE DEF S
  <2> QED
    BY <1>8, <1>9, <2>1, UpTo
<1>11. Right(1)
  <2>1. L - 1 \in S /\ L - (L - 1) = 1
    BY <1>1, <1>10
  <2> QED
    BY <2>1
<1>12. /\ a[0] < NH[0] => Number(a, 1) < Number(NH, 1)
       /\ a[0] > NH[0] => Number(a, 1) > Number(NH, 1)
       /\ a[0] = NH[0] => Number(a, 1) - Number(NH, 1) = Number(a, 0) - Number(NH, 0)
       /\ Number(a, 1) \in Nat /\ Number(NH, 1) \in Nat
       /\ a[0] \in Int /\ NH[0] \in Int
  <2>1. 0 \in 0..(L - 1) /\ 0 + 1 = 1
    BY <1>1
  <2> QED
    BY <1>7, <2>1
<1>13. Number(a, 0) = 0 /\ Number(NH, 0) = 0
  BY NumberZero
<1> PICK y \in BOOLEAN, z \in BOOLEAN : y = scan[1].yes /\ z = scan[1].no
  BY <1>11
<1>14. /\ y => n > h
       /\ z => n < h
       /\ ~y /\ ~z => n - h = Number(a, 1) - Number(NH, 1)
  BY <1>11
<1>15. scalar_is_high(a) <=> (y \/ (a[0] > NH[0] /\ ~z))
  BY <1>5, Zenon
<1>16. (y \/ (a[0] > NH[0] /\ ~z)) <=> n > h
  BY <1>12, <1>13, <1>14
<1>17. h = OrderN \div 2
  BY <1>2
<1> QED
  BY <1>15, <1>16, <1>17

-----------------------------------------------------------------------------
(* Halves, shifts and bits.                                                *)

\* A number is its lower limbs and the upper ones, moved up.
LEMMA NumberSplit ==
    ASSUME LimbsFit, NEW n \in Nat, NEW m \in Nat, NEW a, IntLimbs(a, n + m), NEW b,
           \A i \in 0..(m - 1) : b[i] = a[i + n]
    PROVE  /\ IntLimbs(b, m) /\ Number(b, m) \in Int /\ Number(a, n) \in Int
           /\ Number(a, n + m) = Number(a, n) + Place(n) * Number(b, m)
<1>1. IntLimbs(b, m)
  <2> SUFFICES ASSUME NEW i \in 0..(m - 1) PROVE a[i + n] \in Int
    BY DEF IntLimbs
  <2>1. i + n \in 0..((n + m) - 1)
    OBVIOUS
  <2> QED
    BY <2>1 DEF IntLimbs
<1>2. IntLimbs(a, n)
  BY DEF IntLimbs
<1> DEFINE S == {k \in 0..m : Number(a, n + k) = Number(a, n) + Place(n) * Number(b, k)}
<1>3. 0 \in S
  <2>1. n + 0 = n /\ Number(b, 0) = 0 /\ Place(n) * 0 = 0 /\ Number(a, n) \in Int
    BY <1>2, NumberZero, NumberInt, Places
  <2> QED
    BY <2>1
<1>4. ASSUME NEW k \in 0..(m - 1), k \in S
      PROVE  k + 1 \in S
  <2>1. /\ k \in Nat /\ n + k \in Nat /\ n + (k + 1) = (n + k) + 1 /\ k + 1 \in 0..m /\ b[k] = a[n + k]
        /\ Number(a, n + k) = Number(a, n) + Place(n) * Number(b, k)
    BY <1>4
  <2>2. IntLimbs(a, (n + k) + 1) /\ IntLimbs(b, k + 1)
    BY <1>1 DEF IntLimbs
  <2>3. /\ Number(a, (n + k) + 1) = Number(a, n + k) + a[n + k] * Place(n + k)
        /\ Number(b, k + 1) = Number(b, k) + b[k] * Place(k) /\ Number(b, k) \in Int
        /\ Number(a, n) \in Int
    BY <1>2, <2>1, <2>2, NumberStep, NumberInt
  <2>4. Place(n + k) = Place(n) * Place(k) /\ Place(n) \in Nat /\ Place(k) \in Nat
    BY <2>1, PlaceSum, Places
  <2> PICK p \in Nat, q \in Nat, x \in Int, u \in Int, v \in Int :
          p = Place(n) /\ q = Place(k) /\ x = b[k] /\ u = Number(a, n) /\ v = Number(b, k)
    <3>1. b[k] \in Int
      BY <1>1, <2>1 DEF IntLimbs
    <3> QED
      BY <2>3, <2>4, <3>1, Zenon
  <2>5. x * (p * q) = p * (x * q) /\ p * (v + x * q) = p * v + p * (x * q)
    OBVIOUS
  <2>6. Number(a, n + (k + 1)) = (u + p * v) + x * (p * q)
    BY <2>1, <2>3, <2>4
  <2>7. Number(b, k + 1) = v + x * q
    BY <2>3
  <2>8. (u + p * v) + x * (p * q) = u + p * (v + x * q)
    <3> PICK y \in Int, z \in Int : y = p * (x * q) /\ z = p * v
      OBVIOUS
    <3> QED
      BY <2>5
  <2> QED
    BY <2>1, <2>6, <2>7, <2>8
<1>5. \A k \in 0..m : k \in S
  <2> HIDE DEF S
  <2> QED
    BY <1>3, <1>4, UpTo
<1>6. m \in S
  BY <1>5
<1> QED
  BY <1>1, <1>2, <1>6, NumberInt

\* scalar_split_128 gives the lower and the upper half.
THEOREM ScalarSplit128 ==
    ASSUME LimbsFit, NEW a, Limbs(a, L)
    PROVE  LET s == scalar_split_128(a)
           IN /\ Limbs(s.r1, L) /\ Limbs(s.r2, L) /\ Number(s.r1, L) < Place(H) /\ Number(s.r2, L) < Place(H)
              /\ Number(a, L) = Number(s.r1, L) + Place(H) * Number(s.r2, L)
<1>1. /\ L \in Nat /\ H \in Nat /\ L = H + H /\ H <= L /\ Index = 0..(L - 1) /\ B \in Nat /\ B >= 1
  BY Sizes
<1> PICK r1, r2 : r1 = [i \in Index |-> IF i < H THEN a[i] ELSE 0]
               /\ r2 = [i \in Index |-> IF i < H THEN a[i + H] ELSE 0]
  BY Zenon
<1>2. scalar_split_128(a) = [r1 |-> r1, r2 |-> r2]
  BY DEF scalar_split_128
<1>3. /\ \A i \in 0..(H - 1) : r1[i] = a[i] /\ r2[i] = a[i + H]
      /\ \A i \in H..(L - 1) : r1[i] = 0 /\ r2[i] = 0
  BY <1>1
<1>4. IntLimbs(a, L) /\ IntLimbs(a, H + H)
  BY <1>1, LimbsInt
<1>5. Limbs(r1, H) /\ Limbs(r2, H)
  <2>1. \A i \in 0..(H - 1) : i \in 0..(L - 1) /\ i + H \in 0..(L - 1)
    BY <1>1
  <2> QED
    BY <1>3, <2>1, Zenon DEF Limbs
<1>6. Limbs(r1, L) /\ Limbs(r2, L)
  <2>1. \A i \in 0..(L - 1) : i \in 0..(H - 1) \/ i \in H..(L - 1)
    BY <1>1
  <2>2. 0 \in 0..(B - 1)
    BY <1>1
  <2> QED
    BY <1>3, <1>5, <2>1, <2>2 DEF Limbs
<1>7. IntLimbs(r1, H) /\ IntLimbs(r2, H) /\ IntLimbs(a, H)
  <2>1. IntLimbs(a, H)
    BY <1>1, LimbsInt
  <2> QED
    BY <1>1, <1>5, <2>1, LimbsInt
<1>8. Number(r1, L) = Number(r1, H) /\ Number(r2, L) = Number(r2, H)
  BY <1>1, <1>3, <1>7, NumberExtend
<1>9. Number(r1, H) = Number(a, H)
  BY <1>1, <1>3, <1>7, NumberSame, Zenon
<1>10. Number(a, H + H) = Number(a, H) + Place(H) * Number(r2, H)
  <2>1. \A i \in 0..(H - 1) : r2[i] = a[i + H]
    BY <1>3
  <2>2. IntLimbs(a, H + H) /\ H \in Nat
    BY <1>1, <1>4
  <2> QED
    BY ONLY LimbsFit, <2>1, <2>2, NumberSplit, ZenonT(60)
<1>11. Number(r1, H) < Place(H) /\ Number(r2, H) < Place(H)
  BY <1>1, <1>5, NumberBound
<1> QED
  BY <1>1, <1>2, <1>6, <1>8, <1>9, <1>10, <1>11

\* The upper bits that a left shift keeps in a limb are its lower ones.
LEMMA ShiftedUp ==
    ASSUME LimbsFit, NEW n \in 0..W, NEW x \in Nat
    PROVE  /\ 2^n \in Nat /\ 2^n >= 1 /\ 2^(W - n) \in Nat /\ 2^n * 2^(W - n) = B
           /\ (x * 2^(W - n)) % B = (x % 2^n) * 2^(W - n)
<1>1. n \in Nat /\ W - n \in Nat /\ n + (W - n) = W /\ W \in Nat
  BY Sizes
<1>2. 2^n * 2^(W - n) = B
  BY <1>1, PowerSum DEF B
<1>3. 2^n \in Nat /\ 2^n >= 1 /\ 2^(W - n) \in Nat /\ 2^(W - n) >= 1 /\ B \in Nat /\ B >= 1
  BY <1>1, PowerPositive, Sizes
<1> PICK p \in Nat, q \in Nat, b \in Nat : p = 2^n /\ q = 2^(W - n) /\ b = B /\ p >= 1 /\ q >= 1 /\ b >= 1
  BY <1>3
<1>4. x \in Int
  OBVIOUS
<1>5. x \div p \in Int /\ x % p \in 0..(p - 1) /\ x = p * (x \div p) + (x % p)
  BY ONLY p \in Nat, p >= 1, <1>4, Division
<1> PICK t \in Int, e \in 0..(p - 1) : t = x \div p /\ e = x % p
  BY <1>5
<1>6. x = p * t + e
  BY <1>5
<1>7. x * q = b * t + e * q
  <2>1. (p * t + e) * q = (p * q) * t + e * q
    OBVIOUS
  <2> QED
    BY <1>2, <1>6, <2>1, Zenon
<1>8. e * q \in 0..(b - 1)
  <2>1. e + 1 <= p /\ e + 1 \in Int /\ p \in Int
    OBVIOUS
  <2>2. (e + 1) * q <= p * q
    BY <2>1, TimesMonotone
  <2>3. (e + 1) * q = e * q + q /\ e * q \in Nat
    OBVIOUS
  <2> QED
    BY <1>2, <2>2, <2>3
<1>9. (x * q) % b = e * q
  <2> PICK z \in Int, y \in 0..(b - 1) : z = x * q /\ y = e * q
    BY <1>8
  <2>1. z = b * t + y
    BY <1>7
  <2>2. z % b = y
    BY ONLY b \in Nat, b >= 1, t \in Int, y \in 0..(b - 1), z \in Int, <2>1, DivisionUnique, Zenon
  <2> QED
    BY <2>2
<1> QED
  BY <1>2, <1>3, <1>9

\* What the shifted limbs are worth, up to the next one, and how large one is.
LEMMA ShiftStep ==
    ASSUME NEW p \in Nat, NEW q \in Nat, NEW h \in Nat, NEW e \in Nat, NEW f \in Nat, NEW g \in Nat,
           NEW w \in Nat, NEW u \in Int, NEW v \in Int, p * u + g = v + e * w
    PROVE  p * (u + (h + f * q) * w) + g = (v + (p * h + e) * w) + f * ((p * q) * w)
<1>1. p * (u + (h + f * q) * w) = p * u + p * (h * w) + f * ((p * q) * w)
  OBVIOUS
<1>2. (p * h + e) * w = p * (h * w) + e * w
  OBVIOUS
<1>3. p * u \in Int /\ p * (h * w) \in Int /\ f * ((p * q) * w) \in Int /\ e * w \in Int
  OBVIOUS
<1> PICK x1 \in Int, x2 \in Int, x3 \in Int, x4 \in Int :
        x1 = p * u /\ x2 = p * (h * w) /\ x3 = f * ((p * q) * w) /\ x4 = e * w
  BY <1>3
<1> QED
  BY <1>1, <1>2

\* How large a shifted limb is, with the bits that come from the next one.
LEMMA ShiftSize ==
    ASSUME NEW p \in Nat, NEW q \in Nat, NEW t \in Nat, NEW e \in Nat, NEW f \in 0..(p - 1),
           p >= 1, p * t + e <= p * q - 1
    PROVE  t + f * q \in 0..(p * q - 1)
<1>1. t + 1 <= q
  <2> SUFFICES ASSUME q <= t PROVE FALSE
    OBVIOUS
  <2>1. q * p <= t * p
    BY TimesMonotone
  <2>2. q * p = p * q /\ t * p = p * t
    OBVIOUS
  <2> PICK z \in Nat, y \in Nat : z = p * t /\ y = p * q
    OBVIOUS
  <2>3. y <= z /\ z + e <= y - 1
    BY <2>1, <2>2
  <2> QED
    BY <2>3
<1>2. (f + 1) * q <= p * q
  <2>1. f + 1 <= p /\ f + 1 \in Int /\ p \in Int
    OBVIOUS
  <2> QED
    BY <2>1, TimesMonotone
<1>3. (f + 1) * q = f * q + q /\ f * q \in Nat
  OBVIOUS
<1> PICK y \in Nat, z \in Nat : y = f * q /\ z = p * q
  BY <1>3
<1>4. y + q <= z
  BY <1>2, <1>3
<1>5. t + y \in Nat /\ t + y <= z - 1
  BY ONLY <1>1, <1>4, t \in Nat, y \in Nat, z \in Nat, q \in Nat
<1> QED
  BY <1>5

\* scalar_shr_int gives the quotient by a power of two in the limbs, and the
\* remainder.
THEOREM ScalarShrInt ==
    ASSUME LimbsFit, NEW a, Limbs(a, L), NEW n \in 1..(W - 1)
    PROVE  LET s == scalar_shr_int(a, n)
           IN Limbs(s.r, L) /\ Number(s.r, L) = Number(a, L) \div 2^n /\ s.ret = Number(a, L) % 2^n
<1>1. L \in Nat /\ L >= 4 /\ Index = 0..(L - 1) /\ B \in Nat /\ B >= 4
  BY Sizes
<1>2. n \in 0..W /\ n \in Nat /\ n >= 1
  BY Sizes
<1>3. /\ 2^n \in Nat /\ 2^n >= 1 /\ 2^(W - n) \in Nat /\ 2^n * 2^(W - n) = B
      /\ \A x \in Nat : (x * 2^(W - n)) % B = (x % 2^n) * 2^(W - n)
  BY ONLY LimbsFit, <1>2, ShiftedUp, Zenon
<1> PICK p \in Nat, q \in Nat : p = 2^n /\ q = 2^(W - n) /\ p >= 1 /\ p * q = B
  BY <1>3, Zenon
<1> DEFINE r == [i \in Index |-> a[i] \div p + (IF i = L - 1 THEN 0 ELSE (a[i + 1] * q) % B)]
           lo(i) == IF i = L THEN 0 ELSE a[i] % p
<1>4. scalar_shr_int(a, n) = [ret |-> a[0] % p, r |-> r]
  BY DEF scalar_shr_int
<1>5. ASSUME NEW i \in 0..(L - 1)
      PROVE  /\ a[i] \in Nat /\ a[i] <= B - 1 /\ a[i] \div p \in Nat /\ lo(i) \in 0..(p - 1)
             /\ lo(i + 1) \in 0..(p - 1)
             /\ a[i] = p * (a[i] \div p) + lo(i)
             /\ r[i] = a[i] \div p + lo(i + 1) * q
  <2>1. a[i] \in 0..(B - 1) /\ (i # L - 1 => a[i + 1] \in 0..(B - 1)) /\ i # L
    BY <1>1 DEF Limbs
  <2> PICK x \in Nat : x = a[i] /\ x <= B - 1
    BY <1>1, <2>1
  <2>2. x \div p \in Int /\ x % p \in 0..(p - 1) /\ x = p * (x \div p) + (x % p) /\ x \in Int
    <3>1. x \in Int
      OBVIOUS
    <3> QED
      BY ONLY <3>1, p \in Nat, p >= 1, Division
  <2>3. x \div p \in Nat
    BY ONLY x \in Nat, p \in Nat, p >= 1, DivisionNat
  <2>4. r[i] = a[i] \div p + (IF i = L - 1 THEN 0 ELSE (a[i + 1] * q) % B)
    BY <1>1
  <2>5. (IF i = L - 1 THEN 0 ELSE (a[i + 1] * q) % B) = lo(i + 1) * q
    <3>1. CASE i = L - 1
      BY <1>1, <3>1
    <3>2. CASE i # L - 1
      <4> PICK y \in Nat : y = a[i + 1]
        BY <1>1, <2>1, <3>2
      <4>1. (y * q) % B = (y % p) * q
        BY <1>3, Zenon
      <4>2. i + 1 # L
        BY <1>1, <3>2
      <4> QED
        BY <3>2, <4>1, <4>2
    <3> QED
      BY <3>1, <3>2
  <2>6. lo(i + 1) \in 0..(p - 1)
    <3>1. CASE i = L - 1
      BY <1>1, <3>1
    <3>2. CASE i # L - 1
      <4> PICK y \in Int : y = a[i + 1]
        BY <1>1, <2>1, <3>2
      <4>1. y % p \in 0..(p - 1)
        BY ONLY y \in Int, p \in Nat, p >= 1, Division
      <4>2. i + 1 # L
        BY <1>1, <3>2
      <4> QED
        BY <4>1, <4>2
    <3> QED
      BY <3>1, <3>2
  <2> QED
    BY <1>1, <2>1, <2>2, <2>3, <2>4, <2>5, <2>6
<1> HIDE DEF r, lo
<1>6. Limbs(r, L)
  <2> SUFFICES ASSUME NEW i \in 0..(L - 1) PROVE r[i] \in 0..(B - 1)
    BY DEF Limbs
  <2>1. PICK x \in Nat, t \in Nat, e \in 0..(p - 1), f \in 0..(p - 1) :
             /\ x = a[i] /\ t = a[i] \div p /\ e = lo(i) /\ f = lo(i + 1)
             /\ x <= B - 1 /\ x = p * t + e /\ r[i] = t + f * q
    BY <1>5, ZenonT(60)
  <2>2. e \in Nat /\ p * t + e <= p * q - 1
    BY <2>1
  <2>3. t + f * q \in 0..(p * q - 1)
    BY ONLY p \in Nat, p >= 1, q \in Nat, t \in Nat, f \in 0..(p - 1), <2>2, ShiftSize, Zenon
  <2> QED
    BY <2>1, <2>3, Zenon
<1>7. IntLimbs(a, L) /\ IntLimbs(r, L)
  BY <1>1, <1>6, LimbsInt
<1> DEFINE S == {k \in 0..L : p * Number(r, k) + lo(0) = Number(a, k) + lo(k) * Place(k)}
<1>8. 0 \in S
  <2>1. Number(r, 0) = 0 /\ Number(a, 0) = 0 /\ Place(0) = 1
    BY NumberZero, Places, Zenon
  <2>2. lo(0) \in Nat /\ 0 \in 0..L
    <3>1. lo(0) \in 0..(p - 1)
      BY <1>1, <1>5
    <3> QED
      BY <1>1, <3>1
  <2> QED
    BY <2>1, <2>2
<1>9. ASSUME NEW k \in 0..(L - 1), k \in S
      PROVE  k + 1 \in S
  <2>1. /\ k \in Nat /\ k + 1 \in 0..L /\ k + 1 \in Nat /\ k + 1 <= L
        /\ p * Number(r, k) + lo(0) = Number(a, k) + lo(k) * Place(k)
    BY <1>1, <1>9
  <2>2. IntLimbs(a, k + 1) /\ IntLimbs(r, k + 1)
    BY <1>7, <2>1, <1>1 DEF IntLimbs
  <2>3. /\ Number(r, k + 1) = Number(r, k) + r[k] * Place(k) /\ Number(r, k) \in Int
        /\ Number(a, k + 1) = Number(a, k) + a[k] * Place(k) /\ Number(a, k) \in Int
    BY <2>1, <2>2, NumberStep
  <2>4. Place(k) \in Nat /\ Place(k + 1) = B * Place(k)
    BY <2>1, Places
  <2>5. /\ a[k] \in Nat /\ a[k] \div p \in Nat /\ lo(k) \in 0..(p - 1) /\ lo(k + 1) \in 0..(p - 1)
        /\ a[k] = p * (a[k] \div p) + lo(k)
        /\ r[k] = a[k] \div p + lo(k + 1) * q
    BY <1>5
  <2> PICK h \in Nat, e \in Nat, f \in Nat, g \in Nat, w \in Nat, u \in Int, v \in Int :
          /\ h = a[k] \div p /\ e = lo(k) /\ f = lo(k + 1) /\ g = lo(0) /\ w = Place(k)
          /\ u = Number(r, k) /\ v = Number(a, k)
    <3>1. lo(0) \in 0..(p - 1)
      BY <1>1, <1>5
    <3>2. a[k] \div p \in Nat /\ lo(k) \in Nat /\ lo(k + 1) \in Nat /\ lo(0) \in Nat
      BY <2>5, <3>1
    <3> QED
      BY ONLY <2>3, <2>4, <3>2, Zenon
  <2>6. /\ Number(r, k + 1) = u + (h + f * q) * w /\ Number(a, k + 1) = v + (p * h + e) * w
        /\ Place(k + 1) = (p * q) * w /\ p * u + g = v + e * w
    BY <2>1, <2>3, <2>4, <2>5
  <2>9. p * (u + (h + f * q) * w) + g = (v + (p * h + e) * w) + f * ((p * q) * w)
    BY <2>6, ShiftStep
  <2>10. p * Number(r, k + 1) + lo(0) = Number(a, k + 1) + lo(k + 1) * Place(k + 1)
    BY <2>6, <2>9, Zenon
  <2> QED
    BY <2>1, <2>10
<1>10. \A k \in 0..L : k \in S
  <2> HIDE DEF S
  <2> QED
    BY <1>1, <1>8, <1>9, UpTo, Zenon
<1>11. p * Number(r, L) + lo(0) = Number(a, L) + lo(L) * Place(L)
  BY <1>1, <1>10
<1>12. lo(L) = 0 /\ lo(0) = a[0] % p /\ lo(0) \in 0..(p - 1)
  <2>1. lo(0) \in 0..(p - 1)
    BY <1>1, <1>5
  <2> QED
    BY <1>1, <2>1 DEF lo
<1>13. Number(r, L) \in Nat /\ Number(a, L) \in Nat /\ Place(L) \in Nat
  BY <1>1, <1>6, NumberBound, Places
<1> PICK x \in Int, y \in Int, e \in 0..(p - 1) : x = Number(a, L) /\ y = Number(r, L) /\ e = lo(0)
  BY <1>12, <1>13
<1>14. x = p * y + e
  <2>1. lo(L) * Place(L) = 0
    BY <1>12, <1>13
  <2>2. x + 0 = p * y + e
    BY <1>11, <2>1
  <2> QED
    BY <2>2
<1>15. x \div p = y /\ x % p = e
  BY ONLY p \in Nat, p >= 1, x \in Int, y \in Int, e \in 0..(p - 1), <1>14, DivisionUnique, Zenon
<1> QED
  BY <1>4, <1>6, <1>12, <1>15

\* What a scalar is above the first limbs.
Tail(a, k) == Number(a, L) \div Place(k)

\* A limb is a digit of the number; below it is the tail of the next.
LEMMA Tails ==
    ASSUME LimbsFit, NEW a, Limbs(a, L), NEW k \in Index
    PROVE  /\ Tail(a, k) \in Nat /\ Tail(a, k + 1) \in Nat /\ a[k] \in 0..(B - 1)
           /\ Tail(a, k) = a[k] + B * Tail(a, k + 1)
<1>1. L \in Nat /\ Index = 0..(L - 1) /\ B \in Nat /\ B >= 1 /\ k \in Nat /\ k + 1 \in Nat
  BY Sizes
<1>2. Number(a, L) \in Nat /\ Number(a, L) < Place(L)
  BY <1>1, NumberBound
<1> PICK v \in Nat : v = Number(a, L)
  BY <1>2
<1>3. a[k] = (v \div Place(k)) % B
  <2> PICK c : c = LimbsOf(v)
    OBVIOUS
  <2>1. v \in Int
    OBVIOUS
  <2>2. Limbs(c, L) /\ Number(c, L) = v % Place(L)
    BY <2>1, LimbsOfRight
  <2>3. v % Place(L) = v
    <3>1. Place(L) \in Nat /\ Place(L) >= 1
      BY <1>1, Places
    <3> PICK p \in Nat : p = Place(L) /\ v \in 0..(p - 1) /\ p >= 1
      BY <1>2, <3>1
    <3> QED
      BY ModSmall
  <2>4. \A i \in 0..(L - 1) : a[i] = c[i]
    BY <1>1, <2>2, <2>3, NumberUnique
  <2>5. c[k] = (v \div Place(k)) % B
    BY DEF LimbsOf
  <2> QED
    BY <1>1, <2>4, <2>5
<1>4. Place(k) \in Nat /\ Place(k) >= 1 /\ Place(k + 1) = B * Place(k)
  BY <1>1, Places, Zenon
<1> PICK p \in Nat, b \in Nat : p = Place(k) /\ b = B /\ p >= 1 /\ b >= 1
  BY <1>1, <1>4
<1>5. v \div (p * b) = (v \div p) \div b
  <2>1. v \in Int
    OBVIOUS
  <2> QED
    BY ONLY p \in Nat, b \in Nat, p >= 1, b >= 1, <2>1, ModSplit, Zenon
<1>6. Place(k + 1) = p * b
  <2>1. b * p = p * b
    OBVIOUS
  <2> QED
    BY <1>4, <2>1
<1>7. v \div p \in Nat
  BY DivisionNat
<1> PICK t \in Nat : t = v \div p
  BY <1>7
<1>8. t \div b \in Nat
  BY DivisionNat
<1>9. t % b \in 0..(b - 1) /\ t = b * (t \div b) + (t % b)
  <2>1. t \in Int
    OBVIOUS
  <2> QED
    BY ONLY <2>1, b \in Nat, b >= 1, Division
<1> PICK y \in Nat, e \in 0..(b - 1) : y = t \div b /\ e = t % b
  BY <1>8, <1>9
<1>10. Tail(a, k) = t /\ Tail(a, k + 1) = y /\ a[k] = e
  BY <1>3, <1>5, <1>6 DEF Tail
<1>11. t = e + b * y
  <2>1. t = b * y + e
    BY <1>9
  <2> PICK z \in Int : z = b * y
    OBVIOUS
  <2> QED
    BY <2>1
<1> QED
  BY <1>10, <1>11

\* Above the last limb there is nothing.
LEMMA LastTail ==
    ASSUME LimbsFit, NEW a, Limbs(a, L)
    PROVE  Tail(a, 0) = Number(a, L) /\ Tail(a, L) = 0
<1>1. L \in Nat
  BY Sizes
<1>2. Number(a, L) \in Nat /\ Number(a, L) < Place(L) /\ Place(L) \in Nat /\ Place(L) >= 1
  BY <1>1, NumberBound, Places
<1> PICK v \in Nat, p \in Nat : v = Number(a, L) /\ p = Place(L) /\ v \in 0..(p - 1) /\ p >= 1
  BY <1>2
<1>3. v \div p = 0
  BY ModSmall
<1>4. v \div 1 = v
  OBVIOUS
<1> QED
  BY <1>3, <1>4, FirstPlaces DEF Tail

\* The bits of a tail from a place in its lowest limb on.
LEMMA TailBits ==
    ASSUME LimbsFit, NEW s \in 0..W, NEW x \in Int, NEW t \in Int
    PROVE  (x + B * t) \div 2^s = x \div 2^s + 2^(W - s) * t
<1>1. s \in 0..W /\ 0 \in Nat
  OBVIOUS
<1>2. 2^s \in Nat /\ 2^s >= 1 /\ 2^(W - s) \in Nat /\ 2^s * 2^(W - s) = B
  BY ONLY LimbsFit, <1>1, ShiftedUp, Zenon
<1> PICK p \in Nat, q \in Nat : p = 2^s /\ q = 2^(W - s) /\ p >= 1 /\ B = p * q
  BY <1>2
<1>3. (p * q) * t = p * (q * t) /\ q * t \in Int
  OBVIOUS
<1> PICK y \in Int : y = q * t
  BY <1>3
<1>4. (x + p * y) \div p = x \div p + y
  BY ONLY p \in Nat, p >= 1, x \in Int, y \in Int, DivShift
<1> QED
  BY <1>3, <1>4

\* A power of two that is a multiple of another leaves its remainders.
LEMMA PowerMod ==
    ASSUME NEW m \in Nat, NEW n \in Nat, m <= n, NEW x \in Int, NEW t \in Int
    PROVE  (x + 2^n * t) % 2^m = x % 2^m
<1>1. n - m \in Nat /\ m + (n - m) = n
  OBVIOUS
<1>2. 2^n = 2^m * 2^(n - m) /\ 2^m \in Nat /\ 2^m >= 1 /\ 2^(n - m) \in Nat
  BY <1>1, PowerSum, PowerPositive
<1> PICK p \in Nat, q \in Nat : p = 2^m /\ q = 2^(n - m) /\ p >= 1 /\ 2^n = p * q
  BY <1>2
<1>3. (p * q) * t = p * (q * t) /\ q * t \in Int
  OBVIOUS
<1> PICK y \in Int : y = q * t
  BY <1>3
<1>4. (x + p * y) % p = x % p
  BY ONLY p \in Nat, p >= 1, x \in Int, y \in Int, ModShift, Zenon
<1> QED
  BY <1>3, <1>4

\* Bits from an offset on start in the limb of the offset.
LEMMA OffsetTail ==
    ASSUME LimbsFit, NEW a, Limbs(a, L), NEW k \in Nat, NEW s \in Nat
    PROVE  Number(a, L) \div 2^(W * k + s) = Tail(a, k) \div 2^s
<1>1. L \in Nat /\ W \in Nat /\ W * k \in Nat
  BY Sizes
<1>2. Number(a, L) \in Nat
  BY <1>1, NumberBound
<1>3. 2^(W * k + s) = Place(k) * 2^s /\ Place(k) \in Nat /\ Place(k) >= 1 /\ 2^s \in Nat /\ 2^s >= 1
  BY <1>1, PowerSum, PowerPositive, Places DEF Place
<1> PICK v \in Int, p \in Nat, q \in Nat : v = Number(a, L) /\ p = Place(k) /\ q = 2^s /\ p >= 1 /\ q >= 1
  BY <1>2, <1>3
<1>4. v \div (p * q) = (v \div p) \div q
  BY ONLY p \in Nat, q \in Nat, p >= 1, q >= 1, v \in Int, ModSplit
<1> QED
  BY <1>3, <1>4 DEF Tail

\* An offset in the limbs, and whether the bits from it on are in one limb.
LEMMA OffsetFits ==
    ASSUME NEW l \in Nat, NEW w \in Nat, NEW k \in Nat, NEW s \in 0..(w - 1), NEW n \in 1..w,
           w * k + s + n <= l * w
    PROVE  k + 1 <= l /\ (w <= s + n - 1 => k + 2 <= l)
<1> PICK y \in Nat, z \in Nat : y = w * k /\ z = l * w
  OBVIOUS
<1>1. k + 1 <= l
  <2> SUFFICES ASSUME l <= k PROVE FALSE
    OBVIOUS
  <2>1. l * w <= k * w
    BY TimesMonotone
  <2>2. k * w = w * k
    OBVIOUS
  <2>3. z <= y
    BY <2>1, <2>2
  <2> QED
    BY <2>3
<1>2. w <= s + n - 1 => k + 2 <= l
  <2> SUFFICES ASSUME w <= s + n - 1, l <= k + 1 PROVE FALSE
    OBVIOUS
  <2>1. l * w <= (k + 1) * w
    BY TimesMonotone
  <2>2. (k + 1) * w = w * k + w
    OBVIOUS
  <2>3. z <= y + w
    BY <2>1, <2>2
  <2> QED
    BY <2>3
<1> QED
  BY <1>1, <1>2

\* The last bit is in the limb of the first one just when they all fit above the
\* offset.
LEMMA SameLimb ==
    ASSUME NEW w \in Nat, NEW k \in Nat, NEW s \in 0..(w - 1), NEW n \in 1..w, NEW z \in Int,
           z = w * k + s + n - 1
    PROVE  z \div w = k <=> s + n <= w
<1>1. w >= 1
  OBVIOUS
<1>2. ASSUME s + n <= w
      PROVE  z \div w = k
  <2> PICK e \in 0..(w - 1) : e = s + n - 1
    BY <1>2
  <2>1. z = w * k + e
    <3> PICK y \in Nat : y = w * k
      OBVIOUS
    <3> QED
      OBVIOUS
  <2> QED
    BY ONLY w \in Nat, <1>1, z \in Int, k \in Nat, e \in 0..(w - 1), <2>1, DivisionUnique
<1>3. ASSUME z \div w = k
      PROVE  s + n <= w
  <2>1. z % w \in 0..(w - 1) /\ z = w * (z \div w) + (z % w)
    BY ONLY w \in Nat, <1>1, z \in Int, Division
  <2>2. PICK e \in 0..(w - 1) : z = w * k + e
    BY <1>3, <2>1
  <2>3. PICK y \in Nat : y = w * k
    OBVIOUS
  <2>4. y + e = y + s + n - 1
    BY <2>2, <2>3
  <2> QED
    BY <2>4
<1> QED
  BY <1>2, <1>3

\* scalar_get_bits_var gives the bits of a scalar, also across two limbs.
THEOREM ScalarGetBitsVar ==
    ASSUME LimbsFit, NEW a, Limbs(a, L), NEW offset \in Nat, NEW count \in 1..W, offset + count <= L * W
    PROVE  scalar_get_bits_var(a, offset, count) = (Number(a, L) \div 2^offset) % 2^count
<1>1. L \in Nat /\ W \in Nat /\ W >= 2 /\ Index = 0..(L - 1) /\ B = 2^W /\ B \in Nat
  BY Sizes DEF B
<1>9. \A g, h \in Int : (g + 2^W * h) % 2^count = g % 2^count
  <2> TAKE g \in Int, h \in Int
  <2>1. count \in Nat /\ W \in Nat /\ count <= W
    BY <1>1
  <2> QED
    BY ONLY <2>1, PowerMod, Zenon
<1>2. PICK k \in Nat, s \in 0..(W - 1) : k = offset \div W /\ s = offset % W /\ offset = W * k + s
  <2> PICK w \in Nat : w = W /\ w >= 1
    BY <1>1
  <2>1. offset \in Int
    OBVIOUS
  <2>2. offset % w \in 0..(w - 1) /\ offset = w * (offset \div w) + (offset % w)
    BY ONLY <2>1, w \in Nat, w >= 1, Division
  <2>3. offset \div w \in Nat
    BY ONLY offset \in Nat, w \in Nat, w >= 1, DivisionNat
  <2> QED
    BY <2>2, <2>3
<1>3. k + 1 <= L /\ (W <= s + count - 1 => k + 2 <= L)
  <2>1. W * k + s + count <= L * W
    BY <1>2
  <2> QED
    BY ONLY <1>1, k \in Nat, s \in 0..(W - 1), count \in 1..W, <2>1, OffsetFits, Zenon
<1>4. s \in Nat /\ s \in 0..W /\ W - s \in Nat /\ count \in Nat /\ k \in Index
  BY <1>1, <1>3
<1>5. /\ Tail(a, k + 1) \in Nat /\ a[k] \in 0..(B - 1)
      /\ Tail(a, k) = a[k] + B * Tail(a, k + 1)
  BY <1>4, Tails
<1>6. PICK x \in Nat, t \in Nat, q \in Nat, z \in Int :
          /\ x = a[k] /\ t = Tail(a, k + 1) /\ q = 2^(W - s) /\ z = x \div 2^s
  <2>1. a[k] \in Nat
    BY <1>1, <1>5
  <2>2. 2^s \in Nat /\ 2^s >= 1 /\ 2^(W - s) \in Nat
    BY <1>4, PowerPositive
  <2>3. a[k] \div 2^s \in Nat
    <3> PICK p \in Nat, x \in Nat : p = 2^s /\ x = a[k] /\ p >= 1
      BY <2>1, <2>2
    <3>1. x \div p \in Nat
      BY ONLY x \in Nat, p \in Nat, p >= 1, DivisionNat
    <3> QED
      BY <3>1
  <2> QED
    BY <1>5, <2>1, <2>2, <2>3
<1>7. Tail(a, k) \div 2^s = z + q * t
  <2>1. Tail(a, k) = x + B * t /\ x \in Int /\ t \in Int
    BY <1>5, <1>6
  <2>2. (x + B * t) \div 2^s = x \div 2^s + 2^(W - s) * t
    BY ONLY LimbsFit, <1>4, <2>1, TailBits, Zenon
  <2> QED
    BY <1>6, <2>1, <2>2
<1>8. Number(a, L) \div 2^offset = z + q * t
  <2>1. Number(a, L) \div 2^(W * k + s) = Tail(a, k) \div 2^s
    BY <1>4, OffsetTail
  <2>2. offset = W * k + s
    BY <1>2
  <2> QED
    BY <1>7, <2>1, <2>2, Zenon
<1>10. (offset + count - 1) \div W = offset \div W <=> s + count <= W
  <2>1. PICK e \in Int : e = offset + count - 1
    OBVIOUS
  <2>2. e = W * k + s + count - 1
    BY <1>2, <2>1
  <2>3. e \div W = k <=> s + count <= W
    BY ONLY <1>1, k \in Nat, s \in 0..(W - 1), count \in 1..W, e \in Int, <2>2, SameLimb
  <2>4. k = offset \div W
    BY <1>2
  <2> QED
    BY <2>1, <2>3, <2>4, Zenon
<1>11. CASE s + count <= W
  <2>1. scalar_get_bits_var(a, offset, count) = z % 2^count
    <3>1. (offset + count - 1) \div W = offset \div W
      BY <1>10, <1>11
    <3>2. scalar_get_bits_var(a, offset, count) = (a[offset \div W] \div 2^(offset % W)) % 2^count
      BY <3>1, Zenon DEF scalar_get_bits_var, scalar_get_bits
    <3> QED
      BY <1>2, <1>6, <3>2, Zenon
  <2>2. count <= W - s
    BY <1>1, <1>11
  <2>3. (z + 2^(W - s) * t) % 2^count = z % 2^count
    BY ONLY <1>4, z \in Int, t \in Nat, <2>2, PowerMod
  <2> QED
    BY <1>6, <1>8, <2>1, <2>3, Zenon
<1>12. CASE ~(s + count <= W)
  <2>1. k + 1 \in Index
    BY <1>1, <1>3, <1>12
  <2>3. /\ Tail(a, (k + 1) + 1) \in Nat /\ a[k + 1] \in 0..(B - 1)
        /\ t = a[k + 1] + B * Tail(a, (k + 1) + 1)
    BY <1>6, <2>1, Tails
  <2>4. PICK y \in Nat, u \in Nat : y = a[k + 1] /\ u = Tail(a, (k + 1) + 1)
    BY <1>1, <2>3
  <2>2. scalar_get_bits_var(a, offset, count) = (z + y * q) % 2^count
    <3>1. ~((offset + count - 1) \div W = offset \div W)
      BY <1>10, <1>12
    <3>2. scalar_get_bits_var(a, offset, count)
             = (a[offset \div W] \div 2^(offset % W) + a[offset \div W + 1] * 2^(W - (offset % W))) % 2^count
      BY <3>1 DEF scalar_get_bits_var
    <3>3. a[offset \div W + 1] = y
      BY <1>2, <2>4, Zenon
    <3> QED
      BY <1>2, <1>6, <3>2, <3>3, Zenon
  <2>5. PICK g \in Int, h \in Int : g = z + y * q /\ h = q * u
    OBVIOUS
  <2>6. z + q * t = g + B * h
    <3>1. t = y + B * u
      BY <2>3, <2>4
    <3>2. PICK b \in Nat : b = B
      BY <1>1
    <3>3. q * (y + b * u) = y * q + b * (q * u)
      OBVIOUS
    <3>4. PICK m \in Int, n \in Int : m = y * q /\ n = b * (q * u)
      OBVIOUS
    <3> QED
      BY <2>5, <3>1, <3>2, <3>3, <3>4
  <2>7. (g + 2^W * h) % 2^count = g % 2^count
    BY <1>9
  <2> QED
    BY <1>1, <1>8, <2>2, <2>5, <2>6, <2>7, Zenon
<1> QED
  BY <1>11, <1>12

\* Limbs with their carries are the remainder by the place above them, and what
\* is carried out is the quotient.
LEMMA CarriedDivides ==
    ASSUME LimbsFit, NEW sum, IntLimbs(sum, L)
    PROVE  /\ Carried(sum).out = Number(sum, L) \div Place(L)
           /\ Number(Carried(sum).r, L) = Number(sum, L) % Place(L)
<1>1. L \in Nat
  BY Sizes
<1>2. /\ Limbs(Carried(sum).r, L) /\ Carried(sum).out \in Int
      /\ Number(Carried(sum).r, L) + Carried(sum).out * Place(L) = Number(sum, L)
  BY CarriedRight
<1>3. Number(Carried(sum).r, L) \in Nat /\ Number(Carried(sum).r, L) < Place(L)
  BY <1>1, <1>2, NumberBound
<1>4. Number(sum, L) \in Int /\ Place(L) \in Nat /\ Place(L) >= 1
  BY <1>1, NumberInt, Places
<1>5. PICK p \in Nat, v \in Int, o \in Int : p = Place(L) /\ v = Number(sum, L) /\ o = Carried(sum).out
  BY <1>2, <1>4
<1>6. PICK x \in 0..(p - 1) : x = Number(Carried(sum).r, L)
  BY <1>3, <1>5
<1>7. v = p * o + x
  <2>1. x + o * p = v
    BY <1>2, <1>5, <1>6
  <2>2. o * p = p * o
    OBVIOUS
  <2> PICK z \in Int : z = o * p
    OBVIOUS
  <2> QED
    BY <2>1, <2>2
<1>8. p >= 1
  BY <1>4, <1>5
<1>9. v \div p = o /\ v % p = x
  BY ONLY p \in Nat, <1>8, v \in Int, o \in Int, x \in 0..(p - 1), <1>7, DivisionUnique, Zenon
<1> QED
  BY <1>5, <1>6, <1>9

\* The bit that scalar_cadd_bit adds: beyond the limbs without the flag.
LEMMA BitLimb ==
    ASSUME LimbsFit, NEW bit \in 0..(L * W - 1), NEW flag \in BOOLEAN, NEW u,
           \A i \in Index : u[i] = LET at == IF flag THEN bit ELSE bit + L * W
                                   IN IF at \div W = i THEN 2^(at % W) ELSE 0
    PROVE  IntLimbs(u, L) /\ Number(u, L) = (IF flag THEN 2^bit ELSE 0)
<1>1. L \in Nat /\ W \in Nat /\ W >= 1 /\ Index = 0..(L - 1)
  BY Sizes
<1>2. bit \in Nat
  <2> PICK z \in Int : z = L * W
    BY <1>1
  <2> QED
    OBVIOUS
<1>3. PICK k \in Nat, s \in 0..(W - 1) : k = bit \div W /\ s = bit % W /\ bit = W * k + s
  <2> PICK w \in Nat : w = W /\ w >= 1
    BY <1>1
  <2>1. bit \in Int
    BY <1>2
  <2>2. bit % w \in 0..(w - 1) /\ bit = w * (bit \div w) + (bit % w)
    BY ONLY <2>1, w \in Nat, w >= 1, Division
  <2>3. bit \div w \in Nat
    BY ONLY <1>2, w \in Nat, w >= 1, DivisionNat
  <2> QED
    BY <2>2, <2>3
<1>4. k + 1 <= L
  <2>1. PICK n \in Nat : n = 1 /\ n \in 1..W
    BY <1>1
  <2>2. W * k + s + n <= L * W
    <3>1. bit + 1 <= L * W
      <4> PICK z \in Int : z = L * W
        BY <1>1
      <4> QED
        OBVIOUS
    <3> QED
      BY <1>3, <2>1, <3>1
  <2> QED
    BY ONLY <1>1, k \in Nat, s \in 0..(W - 1), <2>1, <2>2, OffsetFits
<1>5. CASE flag
  <2>1. PICK x \in Int : x = 2^s
    BY PowerPositive
  <2>2. k \in 0..(L - 1) /\ \A i \in 0..(L - 1) : u[i] = (IF i = k THEN x ELSE 0)
    BY <1>1, <1>3, <1>4, <1>5, <2>1
  <2>3. IntLimbs(u, L) /\ Number(u, L) = x * Place(k)
    BY ONLY LimbsFit, <1>1, <2>2, x \in Int, NumberAt, Zenon
  <2>4. 2^s * Place(k) = 2^bit
    <3>1. s \in Nat /\ W * k \in Nat /\ bit = s + W * k
      <4> PICK w \in Nat : w = W
        BY <1>1
      <4>1. w * k \in Nat
        OBVIOUS
      <4> QED
        BY <1>3, <4>1
    <3>2. 2^(s + W * k) = 2^s * 2^(W * k)
      BY <3>1, PowerSum, Zenon
    <3> QED
      BY <3>1, <3>2 DEF Place
  <2> QED
    BY <1>5, <2>1, <2>3, <2>4
<1>6. CASE ~flag
  <2>1. PICK at \in Int : at = bit + L * W
    BY <1>1, <1>2
  <2>2. at \div W = k + L
    <3>1. at = W * (k + L) + s
      <4>1. PICK w \in Nat : w = W
        BY <1>1
      <4>2. w * (k + L) = w * k + L * w
        BY <1>1
      <4>3. PICK y \in Int, z \in Int : y = w * k /\ z = L * w
        BY <1>1
      <4>4. at = (y + s) + z
        BY <1>3, <2>1, <4>1, <4>3
      <4>5. w * (k + L) = y + z
        BY <4>2, <4>3
      <4> QED
        BY <4>1, <4>4, <4>5
    <3>2. k + L \in Int
      BY <1>1
    <3> QED
      BY ONLY <1>1, <3>1, <3>2, at \in Int, s \in 0..(W - 1), DivisionUnique, Zenon
  <2>3. \A i \in 0..(L - 1) : u[i] = 0
    <3> TAKE i \in 0..(L - 1)
    <3>1. u[i] = (IF at \div W = i THEN 2^(at % W) ELSE 0)
      BY <1>1, <1>6, <2>1
    <3>2. k + L # i
      BY <1>1
    <3> QED
      BY <2>2, <3>1, <3>2
  <2> QED
    BY <1>1, <1>6, <2>3, NumberNothing
<1> QED
  BY <1>5, <1>6

\* scalar_cadd_bit adds the bit if the flag is set, when the caller sees to it
\* that the sum stays below the order.
THEOREM ScalarCaddBit ==
    ASSUME LimbsFit, NEW r, Limbs(r, L), NEW bit \in 0..(L * W - 1), NEW flag \in BOOLEAN,
           Number(r, L) + (IF flag THEN 2^bit ELSE 0) < OrderN
    PROVE  LET s == scalar_cadd_bit(r, bit, flag)
           IN s.ok /\ Limbs(s.r, L) /\ Number(s.r, L) = Number(r, L) + (IF flag THEN 2^bit ELSE 0)
<1>1. L \in Nat /\ Index = 0..(L - 1)
  BY Sizes
<1> DEFINE at == IF flag THEN bit ELSE bit + L * W
           u == [i \in Index |-> IF at \div W = i THEN 2^(at % W) ELSE 0]
           c == [i \in Index |-> r[i] + (IF at \div W = i THEN 2^(at % W) ELSE 0)]
<1>2. scalar_cadd_bit(r, bit, flag)
         = [r |-> Carried(c).r, ok |-> Carried(c).out = 0 /\ ~scalar_check_overflow(Carried(c).r)]
  BY DEF scalar_cadd_bit
<1>3. /\ \A i \in Index : u[i] = LET x == IF flag THEN bit ELSE bit + L * W
                                 IN IF x \div W = i THEN 2^(x % W) ELSE 0
      /\ \A i \in Index : c[i] = r[i] + u[i]
  OBVIOUS
<1> HIDE DEF at, u, c
<1>4. IntLimbs(u, L) /\ Number(u, L) = (IF flag THEN 2^bit ELSE 0)
  BY ONLY LimbsFit, bit \in 0..(L * W - 1), flag \in BOOLEAN, <1>3, BitLimb, Zenon
<1>5. IntLimbs(r, L)
  BY <1>1, LimbsInt
<1>6. IntLimbs(c, L) /\ Number(c, L) = Number(r, L) + Number(u, L)
  BY <1>3, <1>4, <1>5, SumLimbs
<1>7. /\ Limbs(Carried(c).r, L) /\ Carried(c).out = Number(c, L) \div Place(L)
      /\ Number(Carried(c).r, L) = Number(c, L) % Place(L)
  BY <1>6, CarriedRight, CarriedDivides
<1>8. Number(c, L) \in Nat /\ Number(c, L) < OrderN
  <2>1. Number(r, L) \in Nat
    BY <1>1, NumberBound
  <2>2. Number(u, L) \in Nat
    <3>1. 2^bit \in Nat
      <4> PICK z \in Int : z = L * W
        BY Sizes
      <4>1. bit \in Nat
        OBVIOUS
      <4> QED
        BY <4>1, PowerPositive
    <3> QED
      BY <1>4, <3>1
  <2> QED
    BY <1>4, <1>6, <2>1, <2>2
<1>9. OrderN \in Nat /\ OrderN < Place(L) /\ Place(L) \in Nat
  <2>1. /\ OrderN \in Nat /\ OrderN + Complement = Place(L) /\ Complement >= 16 /\ Complement \in Nat
        /\ Place(L) \in Nat
    BY <1>1, OrderSize, Places
  <2> QED
    BY <2>1
<1>10. PICK p \in Nat, v \in Nat : p = Place(L) /\ v = Number(c, L) /\ v \in 0..(p - 1) /\ p >= 1
  BY <1>8, <1>9
<1>11. v \div p = 0 /\ v % p = v
  BY <1>10, ModSmall
<1>12. Carried(c).out = 0 /\ Number(Carried(c).r, L) = Number(c, L)
  BY <1>7, <1>10, <1>11
<1>13. ~scalar_check_overflow(Carried(c).r)
  BY <1>7, <1>8, <1>9, <1>12, ScalarCheckOverflow
<1>14. PICK s : s = scalar_cadd_bit(r, bit, flag)
  OBVIOUS
<1>15. s.r = Carried(c).r /\ s.ok = (Carried(c).out = 0 /\ ~scalar_check_overflow(Carried(c).r))
  BY <1>2, <1>14
<1>16. Number(s.r, L) = Number(r, L) + (IF flag THEN 2^bit ELSE 0)
  BY <1>4, <1>6, <1>12, <1>15, Zenon
<1> QED
  BY <1>7, <1>12, <1>13, <1>14, <1>15, <1>16, Zenon

-----------------------------------------------------------------------------
(* Bytes.                                                                  *)

\* The bytes of a number, the highest first.
BytesOf(v) ==
    [k \in 0..(L * PerLimb - 1) |-> (v \div 2^(ByteBits * (L * PerLimb - 1 - k))) % 2^ByteBits]

\* A limb is a whole number of bytes.
LEMMA ByteSizes ==
    ASSUME LimbsFit
    PROVE  /\ ByteBits \in Nat /\ ByteBits >= 1 /\ PerLimb \in Nat /\ PerLimb >= 1
           /\ W = ByteBits * PerLimb
<1>1. ByteBits \in Nat /\ ByteBits >= 1 /\ W % ByteBits = 0 /\ W \in Nat /\ W >= 2
  <2>1. ByteBits \in Nat \ {0} /\ W % ByteBits = 0
    BY Zenon DEF LimbsFit
  <2> QED
    BY <2>1, Sizes
<1>2. PICK w \in Nat, b \in Nat : w = W /\ b = ByteBits
  BY <1>1
<1>3. b >= 1 /\ w \in Int /\ w >= 2
  BY <1>1, <1>2
<1>4. w = b * (w \div b) + (w % b)
  BY ONLY <1>3, b \in Nat, Division
<1>5. w \div b \in Nat
  BY ONLY <1>3, w \in Nat, b \in Nat, DivisionNat
<1>6. PICK q \in Nat : q = PerLimb /\ w = b * q
  BY <1>1, <1>2, <1>4, <1>5 DEF PerLimb
<1>7. q >= 1
  <2> SUFFICES ASSUME q = 0 PROVE FALSE
    OBVIOUS
  <2>1. b * q = 0
    OBVIOUS
  <2> QED
    BY <1>3, <1>6, <2>1
<1> QED
  BY <1>1, <1>2, <1>6, <1>7

\* Bits that are in one limb are those of the number.
LEMMA LimbBits ==
    ASSUME LimbsFit, NEW a, Limbs(a, L), NEW i \in Index, NEW s \in Nat, NEW n \in Nat, s + n <= W
    PROVE  (a[i] \div 2^s) % 2^n = (Number(a, L) \div 2^(W * i + s)) % 2^n
<1>1. s \in 0..W /\ W - s \in Nat /\ n <= W - s /\ B \in Nat /\ i \in Nat
  BY Sizes, SMTT(30)
<1>2. \A g, t \in Int : (g + 2^(W - s) * t) % 2^n = g % 2^n
  <2> TAKE g \in Int, t \in Int
  <2> QED
    BY ONLY <1>1, n \in Nat, PowerMod, ZenonT(60)
<1>3. /\ Tail(a, i + 1) \in Nat /\ a[i] \in 0..(B - 1) /\ Tail(a, i) = a[i] + B * Tail(a, i + 1)
  BY Tails
<1>4. PICK x \in Nat, t \in Nat : x = a[i] /\ t = Tail(a, i + 1)
  BY <1>1, <1>3
<1>5. x \in Int /\ t \in Int /\ x \div 2^s \in Int
  <2>1. PICK p \in Nat : p = 2^s /\ p >= 1
    BY PowerPositive
  <2>2. x \div p \in Nat
    BY ONLY x \in Nat, p \in Nat, <2>1, DivisionNat
  <2> QED
    BY <2>1, <2>2
<1>6. (x + B * t) \div 2^s = x \div 2^s + 2^(W - s) * t
  BY ONLY LimbsFit, <1>1, <1>5, TailBits, Zenon
<1>7. Number(a, L) \div 2^(W * i + s) = Tail(a, i) \div 2^s
  BY <1>1, OffsetTail
<1>8. Tail(a, i) = x + B * t
  BY <1>3, <1>4
<1>9. (x \div 2^s + 2^(W - s) * t) % 2^n = (x \div 2^s) % 2^n
  BY <1>2, <1>5, Zenon
<1> QED
  BY <1>4, <1>6, <1>7, <1>8, <1>9, Zenon

\* The bits of a byte, counted in the limbs.
LEMMA ByteIndex ==
    ASSUME NEW l \in Nat, NEW per \in Nat, NEW b \in Nat, per >= 1, NEW j \in Nat, j < l * per
    PROVE  /\ j \div per \in Nat /\ j \div per < l /\ (j % per) \in 0..(per - 1)
           /\ b * j = (b * per) * (j \div per) + b * (j % per)
           /\ b * (j % per) \in Nat /\ b * (j % per) + b <= b * per
<1>1. j \in Int /\ j \div per \in Nat
  BY DivisionNat
<1>2. (j % per) \in 0..(per - 1) /\ j = per * (j \div per) + (j % per)
  BY ONLY <1>1, per \in Nat, per >= 1, Division
<1>3. PICK q \in Nat, m \in Nat : q = j \div per /\ m = j % per
  BY <1>1, <1>2
<1>4. m < per /\ j = per * q + m
  BY <1>2, <1>3
<1>5. q < l
  <2> SUFFICES ASSUME l <= q PROVE FALSE
    OBVIOUS
  <2>1. l * per <= q * per /\ q * per = per * q
    BY TimesMonotone
  <2>2. PICK x \in Nat, y \in Nat : x = l * per /\ y = per * q
    OBVIOUS
  <2>3. x <= y /\ j < x /\ j = y + m
    BY <1>4, <2>1, <2>2
  <2> QED
    BY <2>3
<1>6. b * j = (b * per) * q + b * m
  BY <1>4
<1>7. b * m \in Nat /\ b * m + b <= b * per
  <2>1. (m + 1) * b <= per * b
    <3>1. m + 1 <= per /\ m + 1 \in Int /\ per \in Int
      BY <1>4
    <3> QED
      BY <3>1, TimesMonotone
  <2>2. (m + 1) * b = b * m + b /\ per * b = b * per /\ b * m \in Nat /\ b * per \in Nat
    OBVIOUS
  <2> QED
    BY <2>1, <2>2
<1> QED
  BY <1>2, <1>3, <1>5, <1>6, <1>7

\* scalar_get_b32 gives the bytes of the number.
THEOREM ScalarGetB32 ==
    ASSUME LimbsFit, NEW a, Limbs(a, L)
    PROVE  scalar_get_b32(a) = BytesOf(Number(a, L))
<1>1. L \in Nat /\ Index = 0..(L - 1)
  BY Sizes
<1>2. ByteBits \in Nat /\ ByteBits >= 1 /\ PerLimb \in Nat /\ PerLimb >= 1 /\ W = ByteBits * PerLimb
  BY ByteSizes
<1>4. ASSUME NEW j \in Nat, j < L * PerLimb
      PROVE  /\ j \div PerLimb \in Nat /\ j \div PerLimb < L /\ (j % PerLimb) \in 0..(PerLimb - 1)
             /\ ByteBits * j = (ByteBits * PerLimb) * (j \div PerLimb) + ByteBits * (j % PerLimb)
             /\ ByteBits * (j % PerLimb) \in Nat
             /\ ByteBits * (j % PerLimb) + ByteBits <= ByteBits * PerLimb
  <2>1. PICK l \in Nat, per \in Nat, b \in Nat : l = L /\ per = PerLimb /\ b = ByteBits
    BY <1>1, <1>2
  <2>2. per >= 1 /\ j < l * per
    BY <1>2, <1>4, <2>1
  <2>3. /\ j \div per \in Nat /\ j \div per < l /\ (j % per) \in 0..(per - 1)
        /\ b * j = (b * per) * (j \div per) + b * (j % per)
        /\ b * (j % per) \in Nat /\ b * (j % per) + b <= b * per
    BY ONLY <2>2, l \in Nat, per \in Nat, b \in Nat, j \in Nat, ByteIndex, Zenon
  <2> QED
    BY <2>1, <2>3, Zenon
<1>3. ASSUME NEW k \in 0..(L * PerLimb - 1)
      PROVE  LET j == L * PerLimb - 1 - k
             IN (a[j \div PerLimb] \div 2^(ByteBits * (j % PerLimb))) % 2^ByteBits
                   = (Number(a, L) \div 2^(ByteBits * j)) % 2^ByteBits
  <2>1. PICK j \in Nat : j = L * PerLimb - 1 - k /\ j < L * PerLimb
    <3>1. PICK z \in Nat : z = L * PerLimb
      BY <1>1, <1>2
    <3>2. z - 1 - k \in Nat /\ z - 1 - k < z
      BY <3>1
    <3> QED
      BY <3>1, <3>2
  <2>2. PICK i \in Nat, m \in Nat, s \in Nat :
            i = j \div PerLimb /\ m = j % PerLimb /\ s = ByteBits * m
    <3>1. j \div PerLimb \in Nat /\ j % PerLimb \in 0..(PerLimb - 1) /\ ByteBits * (j % PerLimb) \in Nat
      BY <1>4, <2>1, Zenon
    <3>2. j % PerLimb \in Nat
      BY <1>2, <3>1
    <3> QED
      BY <3>1, <3>2
  <2>3. i < L /\ ByteBits * j = W * i + s /\ s + ByteBits <= W
    <3>1. /\ j \div PerLimb < L
          /\ ByteBits * j = (ByteBits * PerLimb) * (j \div PerLimb) + ByteBits * (j % PerLimb)
          /\ ByteBits * (j % PerLimb) + ByteBits <= ByteBits * PerLimb
      BY <1>4, <2>1, Zenon
    <3> QED
      BY <1>2, <2>2, <3>1, Zenon
  <2>4. i \in Index
    BY <1>1, <2>3
  <2>5. (a[i] \div 2^s) % 2^ByteBits = (Number(a, L) \div 2^(W * i + s)) % 2^ByteBits
    BY <1>2, <2>3, <2>4, LimbBits
  <2> QED
    BY <2>1, <2>2, <2>3, <2>5, Zenon
<1> QED
  BY <1>3, Zenon DEF scalar_get_b32, BytesOf

\* sum has the numbers of the lower bytes of a limb.
IsByteSum(sum, b, i) ==
    sum = [k \in 0..PerLimb |->
              IF k = 0 THEN 0
              ELSE sum[k - 1] + b[L * PerLimb - k - i * PerLimb] * 2^(ByteBits * (k - 1))]

\* The limbs that scalar_set_b32 puts together.
Gathered(b) == [i \in Index |-> (CHOOSE sum : IsByteSum(sum, b, i))[PerLimb]]

\* scalar_set_b32 gathers the limbs and takes the order away once.
LEMMA SetChosen ==
    ASSUME NEW b
    PROVE  scalar_set_b32(b)
              = scalar_reduce(Gathered(b), IF scalar_check_overflow(Gathered(b)) THEN 1 ELSE 0)
  BY Zenon DEF scalar_set_b32, Gathered, IsByteSum

\* The place of a byte in the array: byte k - 1 of limb i, from the lowest.
LEMMA BytePlace ==
    ASSUME LimbsFit, NEW i \in Index, NEW k \in 1..PerLimb
    PROVE  LET at == L * PerLimb - k - i * PerLimb
           IN /\ at \in 0..(L * PerLimb - 1)
              /\ ByteBits * (L * PerLimb - 1 - at) = W * i + ByteBits * (k - 1)
<1>1. L \in Nat /\ Index = 0..(L - 1) /\ i \in Nat /\ i + 1 <= L
  BY Sizes
<1>2. ByteBits \in Nat /\ PerLimb \in Nat /\ PerLimb >= 1 /\ W = ByteBits * PerLimb
  BY ByteSizes
<1>3. PICK per \in Nat, b \in Nat, l \in Nat : per = PerLimb /\ b = ByteBits /\ l = L
  BY <1>1, <1>2
<1>4. (i + 1) * per <= l * per /\ (i + 1) * per = i * per + per
  <2>1. i + 1 <= l /\ i + 1 \in Int /\ l \in Int
    BY <1>1, <1>3
  <2>2. (i + 1) * per <= l * per
    BY <2>1, TimesMonotone
  <2> QED
    BY <1>1, <2>2
<1>5. PICK x \in Nat, y \in Nat : x = i * per /\ y = l * per
  BY <1>1
<1>6. k \in Nat /\ k >= 1 /\ k <= per
  BY <1>2, <1>3
<1>7. y - k - x \in 0..(y - 1) /\ y - 1 - (y - k - x) = x + (k - 1)
  BY <1>4, <1>5, <1>6
<1>8. b * (x + (k - 1)) = (b * per) * i + b * (k - 1)
  <2>1. PICK m \in Nat : m = k - 1
    BY <1>6
  <2>2. b * (i * per + m) = (b * per) * i + b * m
    BY <1>1
  <2> QED
    BY <1>5, <2>1, <2>2
<1>9. PICK at \in Int : at = L * PerLimb - k - i * PerLimb /\ at = y - k - x
  BY <1>3, <1>5, <1>7
<1>10. at \in 0..(L * PerLimb - 1)
  BY <1>3, <1>5, <1>7, <1>9
<1>11. L * PerLimb - 1 - at = x + (k - 1)
  BY <1>3, <1>5, <1>7, <1>9
<1> QED
  BY <1>2, <1>3, <1>8, <1>9, <1>10, <1>11, Zenon

\* The bytes of a number are gathered to its limbs.
LEMMA GatheredRight ==
    ASSUME LimbsFit, NEW v \in Nat
    PROVE  Gathered(BytesOf(v)) = LimbsOf(v)
<1>1. L \in Nat /\ Index = 0..(L - 1) /\ B \in Nat /\ B = 2^W
  BY Sizes DEF B
<1>2. ByteBits \in Nat /\ PerLimb \in Nat /\ PerLimb >= 1 /\ W = ByteBits * PerLimb
  BY ByteSizes
<1>3. ASSUME NEW i \in Index
      PROVE  (CHOOSE sum : IsByteSum(sum, BytesOf(v), i))[PerLimb] = (v \div Place(i)) % B
  <2>0. i \in Nat /\ W * i \in Nat
    <3>1. i \in Nat /\ W \in Nat
      BY <1>1, Sizes
    <3>2. PICK w \in Nat : w = W
      BY <3>1
    <3>3. w * i \in Nat
      BY <3>1
    <3> QED
      BY <3>1, <3>2, <3>3
  <2>1. PICK t \in Nat : t = v \div Place(i)
    <3>1. Place(i) \in Nat /\ Place(i) >= 1
      BY <2>0, Places
    <3>a. PICK p \in Nat : p = Place(i) /\ p >= 1
      BY <3>1
    <3>2. v \div p \in Nat
      BY ONLY <3>a, v \in Nat, p \in Nat, DivisionNat
    <3> QED
      BY <3>a, <3>2
  <2> DEFINE F == [k \in 0..PerLimb |-> t % 2^(ByteBits * k)]
  <2>2. ASSUME NEW k \in 1..PerLimb
        PROVE  /\ BytesOf(v)[L * PerLimb - k - i * PerLimb] = (t \div 2^(ByteBits * (k - 1))) % 2^ByteBits
               /\ t % 2^(ByteBits * k)
                     = (t % 2^(ByteBits * (k - 1)))
                       + ((t \div 2^(ByteBits * (k - 1))) % 2^ByteBits) * 2^(ByteBits * (k - 1))
    <3>1. PICK m \in Nat, s \in Nat : m = k - 1 /\ s = ByteBits * (k - 1) /\ s = ByteBits * m
      <4>1. PICK b \in Nat, m \in Nat : b = ByteBits /\ m = k - 1
        BY <1>2
      <4>2. b * m \in Nat
        OBVIOUS
      <4> QED
        BY <4>1, <4>2
    <3>2. PICK at : at = L * PerLimb - k - i * PerLimb
      OBVIOUS
    <3>3. at \in 0..(L * PerLimb - 1) /\ ByteBits * (L * PerLimb - 1 - at) = W * i + ByteBits * (k - 1)
      BY <3>2, BytePlace
    <3>4. BytesOf(v)[at] = (v \div 2^(W * i + s)) % 2^ByteBits
      BY <3>1, <3>3, Zenon DEF BytesOf
    <3>5. i \in Nat /\ W * i \in Nat
      BY <2>0
    <3>6. 2^(W * i + s) = Place(i) * 2^s /\ 2^s \in Nat /\ 2^s >= 1 /\ Place(i) \in Nat /\ Place(i) >= 1
      BY <3>1, <3>5, PowerSum, PowerPositive, Places, Zenon DEF Place
    <3>7. v \div (Place(i) * 2^s) = t \div 2^s
      <4>1. PICK p \in Nat, q \in Nat : p = Place(i) /\ q = 2^s /\ p >= 1 /\ q >= 1
        BY <3>6
      <4>2. v \in Int
        OBVIOUS
      <4>3. v \div (p * q) = (v \div p) \div q
        BY ONLY <4>1, <4>2, p \in Nat, q \in Nat, ModSplit, Zenon
      <4> QED
        BY <2>1, <4>1, <4>3
    <3>8. t % 2^(ByteBits * k) = (t % 2^s) + ((t \div 2^s) % 2^ByteBits) * 2^s
      <4>1. ByteBits * k = s + ByteBits
        <5>1. PICK b \in Nat, n \in Nat : b = ByteBits /\ n = k /\ n = m + 1
          BY <1>2, <3>1
        <5>2. b * (m + 1) = b * m + b
          OBVIOUS
        <5> QED
          BY <3>1, <5>1, <5>2
      <4>2. 2^(s + ByteBits) = 2^s * 2^ByteBits /\ 2^ByteBits \in Nat /\ 2^ByteBits >= 1
        BY <1>2, PowerSum, PowerPositive
      <4>3. PICK p \in Nat, q \in Nat : p = 2^s /\ q = 2^ByteBits /\ p >= 1 /\ q >= 1
        BY <3>6, <4>2, Zenon
      <4>4. t \in Int
        OBVIOUS
      <4>5. t % (p * q) = (t % p) + ((t \div p) % q) * p
        BY ONLY <4>3, <4>4, p \in Nat, q \in Nat, ModSplit, Zenon
      <4> QED
        BY <4>1, <4>2, <4>3, <4>5
    <3> QED
      BY <3>1, <3>2, <3>4, <3>6, <3>7, <3>8, Zenon
  <2>3. t % 2^(ByteBits * 0) = 0
    <3>1. ByteBits * 0 = 0 /\ 2^0 = 1 /\ t % 1 = 0
      BY <1>2, PowerZero
    <3> QED
      BY <3>1, Zenon
  <2>4. \A k \in 0..PerLimb :
            F[k] = IF k = 0 THEN 0
                   ELSE F[k - 1] + BytesOf(v)[L * PerLimb - k - i * PerLimb] * 2^(ByteBits * (k - 1))
    <3> TAKE k \in 0..PerLimb
    <3>1. CASE k = 0
      BY <2>3, <3>1
    <3>2. CASE k # 0
      <4>1. k \in 1..PerLimb /\ k - 1 \in 0..PerLimb
        BY <1>2, <3>2
      <4>2. F[k] = t % 2^(ByteBits * k) /\ F[k - 1] = t % 2^(ByteBits * (k - 1))
        BY <4>1, Zenon
      <4> HIDE DEF F
      <4>3. F[k] = F[k - 1] + BytesOf(v)[L * PerLimb - k - i * PerLimb] * 2^(ByteBits * (k - 1))
        BY <2>2, <4>1, <4>2, Zenon
      <4> QED
        BY <3>2, <4>3, Zenon
    <3> QED
      BY <3>1, <3>2
  <2>5. F = [k \in 0..PerLimb |-> F[k]]
    OBVIOUS
  <2>6. F[PerLimb] = t % B
    BY <1>1, <1>2
  <2> HIDE DEF F
  <2>7. IsByteSum(F, BytesOf(v), i)
    BY <2>4, <2>5, Zenon DEF IsByteSum
  <2>8. PICK g : g = CHOOSE sum : IsByteSum(sum, BytesOf(v), i)
    OBVIOUS
  <2>9. IsByteSum(g, BytesOf(v), i)
    BY <2>7, <2>8, Zenon
  <2>10. \A k \in 0..PerLimb :
            g[k] = IF k = 0 THEN 0
                   ELSE g[k - 1] + BytesOf(v)[L * PerLimb - k - i * PerLimb] * 2^(ByteBits * (k - 1))
    BY <2>9, Zenon DEF IsByteSum
  <2> DEFINE S == {k \in 0..PerLimb : g[k] = F[k]}
  <2>11. 0 \in S
    BY <1>2, <2>4, <2>10
  <2>12. ASSUME NEW k \in 0..(PerLimb - 1), k \in S
         PROVE  k + 1 \in S
    <3>1. PICK n \in 0..PerLimb : n = k + 1 /\ n # 0 /\ n - 1 = k
      BY <1>2
    <3>2. g[n - 1] = F[n - 1]
      BY <2>12, <3>1
    <3>3. g[n] = F[n]
      BY <2>4, <2>10, <3>1, <3>2, Zenon
    <3> QED
      BY <3>1, <3>3
  <2>13. \A k \in 0..PerLimb : k \in S
    <3> HIDE DEF S
    <3> QED
      BY <1>2, <2>11, <2>12, UpTo
  <2>14. g[PerLimb] = F[PerLimb]
    BY <1>2, <2>13
  <2> QED
    BY <2>1, <2>6, <2>8, <2>14
<1> QED
  BY <1>3, Zenon DEF Gathered, LimbsOf

\* scalar_set_b32 takes the bytes of a number to the number modulo the order,
\* and says whether it had to be reduced.
THEOREM ScalarSetB32 ==
    ASSUME LimbsFit, NEW v \in Nat, v < Place(L)
    PROVE  LET s == scalar_set_b32(BytesOf(v))
           IN /\ s.ok /\ Limbs(s.r, L) /\ Number(s.r, L) = v % OrderN
              /\ (s.overflow = 1) = (v >= OrderN)
<1>1. L \in Nat
  BY Sizes
<1>2. v \in Int /\ Place(L) \in Nat /\ Place(L) >= 1
  BY <1>1, Places
<1>3. PICK d : d = LimbsOf(v)
  OBVIOUS
<1>4. d \in [Index -> 0..(B - 1)] /\ Number(d, L) = v
  <2>1. d \in [Index -> 0..(B - 1)] /\ Number(d, L) = v % Place(L)
    BY <1>2, <1>3, LimbsOfRight
  <2>2. PICK p \in Nat : p = Place(L) /\ v \in 0..(p - 1) /\ p >= 1
    BY <1>2
  <2>3. v % p = v
    BY <2>2, ModSmall
  <2> QED
    BY <2>1, <2>2, <2>3
<1>5. v < 2 * OrderN
  <2>1. OrderN \in Nat /\ OrderN + Complement = Place(L) /\ 8 * Complement <= Place(L) /\ Complement \in Nat
    BY OrderSize
  <2> QED
    BY <1>2, <2>1
<1>6. PICK out \in {0, 1} : out = 0
  OBVIOUS
<1>7. v = Number(d, L) + out * Place(L)
  BY <1>2, <1>4, <1>6
<1>8. LET o == IF out > 0 \/ scalar_check_overflow(d) THEN 1 ELSE 0
          s == scalar_reduce(d, o)
      IN /\ s.ok /\ s.overflow = o /\ (o = 1) = (v >= OrderN)
         /\ s.r \in [Index -> 0..(B - 1)] /\ Limbs(s.r, L) /\ Number(s.r, L) = v % OrderN
  BY ONLY LimbsFit, <1>4, <1>5, <1>7, v \in Nat, out \in {0, 1}, ScalarReduceOnce, Zenon
<1>9. (IF out > 0 \/ scalar_check_overflow(d) THEN 1 ELSE 0) = (IF scalar_check_overflow(d) THEN 1 ELSE 0)
  <2>1. ~(out > 0)
    BY <1>6
  <2> QED
    BY <2>1, Zenon
<1>10. scalar_set_b32(BytesOf(v)) = scalar_reduce(d, IF scalar_check_overflow(d) THEN 1 ELSE 0)
  BY <1>3, GatheredRight, SetChosen
<1> QED
  BY <1>8, <1>9, <1>10

-----------------------------------------------------------------------------
(* The accumulator of three limbs.                                         *)

\* What an accumulator is, and what it holds.
Accs == [c0 : 0..(B - 1), c1 : 0..(B - 1), c2 : 0..(B - 1), ok : BOOLEAN]
Held(s) == s.c0 + B * s.c1 + (B * B) * s.c2

\* A sum of two limbs is carried just when what is left of it is below a
\* summand.
LEMMA SumCarry ==
    ASSUME NEW b \in Nat, b >= 1, NEW x \in 0..(b - 1), NEW y \in 0..(b - 1),
           NEW z, z = (x + y) % b
    PROVE  z \in 0..(b - 1) /\ Bit(z < y) \in {0, 1} /\ x + y = z + b * Bit(z < y)
<1>1. CASE x + y < b
  <2>1. x + y \in 0..(b - 1)
    BY <1>1
  <2>2. z = x + y
    BY <2>1, ModSmall
  <2>3. ~(z < y)
    BY <2>2
  <2> QED
    BY <1>1, <2>2, <2>3 DEF Bit
<1>2. CASE x + y >= b
  <2>1. PICK w \in 0..(b - 1) : w = x + y - b
    BY <1>2
  <2>2. x + y = b * 1 + w /\ x + y \in Int /\ 1 \in Int
    BY <2>1
  <2>3. z = w
    BY <2>2, DivisionUnique
  <2>4. z < y
    BY <2>1, <2>3
  <2> QED
    BY <2>1, <2>3, <2>4 DEF Bit
<1> QED
  BY <1>1, <1>2

\* The same, for all limbs.
CarriesSeen(b) ==
    \A u \in 0..(b - 1) : \A v \in 0..(b - 1) :
        \E z \in 0..(b - 1) : \E k \in {0, 1} :
            z = (u + v) % b /\ k = Bit(z < v) /\ u + v = z + b * k

\* The macros see the carry of every sum of two limbs.
LEMMA SumCarries == ASSUME NEW b \in Nat, b >= 1 PROVE CarriesSeen(b)
<1> SUFFICES ASSUME NEW u \in 0..(b - 1), NEW v \in 0..(b - 1)
             PROVE  \E z \in 0..(b - 1) : \E k \in {0, 1} :
                        z = (u + v) % b /\ k = Bit(z < v) /\ u + v = z + b * k
  BY Zenon DEF CarriesSeen
<1>1. PICK z : z = (u + v) % b
  OBVIOUS
<1>2. z \in 0..(b - 1) /\ Bit(z < v) \in {0, 1} /\ u + v = z + b * Bit(z < v)
  BY <1>1, SumCarry, ZenonT(60)
<1> QED
  BY <1>1, <1>2, Zenon

\* The two sums with their carries make the sum with the whole product.
LEMMA TwoSums ==
    ASSUME NEW b \in Int, NEW s0 \in Int, NEW s1 \in Int, NEW s2 \in Int, NEW hi \in Int, NEW tl \in Int,
           NEW c0 \in Int, NEW k0 \in Int, NEW c1 \in Int, NEW k1 \in Int,
           s0 + tl = c0 + b * k0, s1 + (hi + k0) = c1 + b * k1
    PROVE  s0 + b * s1 + (b * b) * s2 + (b * hi + tl) = c0 + b * c1 + (b * b) * (s2 + k1)
<1>1. b * (s1 + (hi + k0)) = b * s1 + b * hi + b * k0
  OBVIOUS
<1>2. b * (c1 + b * k1) = b * c1 + (b * b) * k1
  OBVIOUS
<1>3. (b * b) * (s2 + k1) = (b * b) * s2 + (b * b) * k1
  OBVIOUS
<1>4. b * s1 + b * hi + b * k0 = b * c1 + (b * b) * k1
  BY <1>1, <1>2
<1> PICK bs \in Int, bh \in Int, bk \in Int, bc \in Int, q2 \in Int, q1 \in Int :
        bs = b * s1 /\ bh = b * hi /\ bk = b * k0 /\ bc = b * c1 /\ q2 = (b * b) * s2 /\ q1 = (b * b) * k1
  OBVIOUS
<1> QED
  BY <1>3, <1>4

\* The third limb of a number that three limbs, or two, can hold.
LEMMA ThirdLimb ==
    ASSUME NEW b \in Nat, b >= 1, NEW x \in Nat, NEW c \in Nat
    PROVE  /\ x + (b * b) * c < (b * b) * b => c < b
           /\ x + (b * b) * c < b * b => c = 0
<1> PICK q \in Nat : q = b * b
  OBVIOUS
<1>1. c >= b => b * q <= c * q
  BY TimesMonotone
<1>2. c >= 1 => 1 * q <= c * q
  BY TimesMonotone
<1> QED
  BY <1>1, <1>2

\* A product of two limbs leaves room for a carry in its upper half.
LEMMA ProductHalves ==
    ASSUME NEW b \in Nat, b >= 2, NEW x \in 0..(b - 1), NEW y \in 0..(b - 1)
    PROVE  /\ x * y \in Nat /\ x * y <= (b - 1) * (b - 1)
           /\ (x * y) \div b \in 0..(b - 2) /\ ((x * y) % b) \in 0..(b - 1)
           /\ x * y = b * ((x * y) \div b) + ((x * y) % b)
<1>1. x * y \in Nat
  OBVIOUS
<1>2. x * y <= (b - 1) * y
  BY TimesMonotone
<1>3. y * (b - 1) <= (b - 1) * (b - 1)
  BY TimesMonotone
<1> PICK p \in Nat : p = x * y
  BY <1>1
<1>4. p <= (b - 1) * (b - 1)
  <2> PICK u \in Int : u = (b - 1) * (b - 1)
    OBVIOUS
  <2> PICK w \in Int : w = (b - 1) * y
    OBVIOUS
  <2>1. y * (b - 1) = w
    OBVIOUS
  <2> QED
    BY <1>2, <1>3, <2>1
<1>5. p \div b \in Int /\ p % b \in 0..(b - 1) /\ p = b * (p \div b) + (p % b)
  BY Division
<1>6. (b - 1) * (b - 1) < b * ((b - 2) + 1)
  OBVIOUS
<1>7. p < b * ((b - 2) + 1)
  <2> PICK u \in Int : u = (b - 1) * (b - 1)
    OBVIOUS
  <2> PICK w \in Int : w = b * ((b - 2) + 1)
    OBVIOUS
  <2> QED
    BY <1>4, <1>6
<1>8. p \div b \in Nat /\ p \div b <= b - 2
  BY ONLY <1>7, p \in Nat, b \in Nat, b >= 2, DivBound
<1> QED
  BY <1>4, <1>5, <1>8

\* An accumulator and the base, as numbers.
LEMMA AccParts ==
    ASSUME LimbsFit, NEW s \in Accs
    PROVE  /\ s.c0 \in 0..(B - 1) /\ s.c1 \in 0..(B - 1) /\ s.c2 \in 0..(B - 1) /\ s.ok \in BOOLEAN
           /\ s.c0 \in Nat /\ s.c1 \in Nat /\ s.c2 \in Nat
           /\ B \in Nat /\ B >= 4 /\ Held(s) \in Nat
<1>1. /\ s.c0 \in 0..(B - 1) /\ s.c1 \in 0..(B - 1) /\ s.c2 \in 0..(B - 1) /\ s.ok \in BOOLEAN
  BY DEF Accs
<1>2. B \in Nat /\ B >= 4
  BY Sizes
<1>3. s.c0 \in Nat /\ s.c1 \in Nat /\ s.c2 \in Nat
  BY <1>1, <1>2
<1>4. Held(s) \in Nat
  <2> PICK b \in Nat, x \in Nat, y \in Nat, z \in Nat : b = B /\ x = s.c0 /\ y = s.c1 /\ z = s.c2
    BY <1>2, <1>3
  <2>1. x + b * y + (b * b) * z \in Nat
    OBVIOUS
  <2> QED
    BY <2>1 DEF Held
<1> QED
  BY <1>1, <1>2, <1>3, <1>4

\* What the accumulator has room for.
Room(fast) == IF fast THEN B * B ELSE (B * B) * B

\* muladd and muladd_fast add the product, whichever of the carries there are.
LEMMA MuladdRight ==
    ASSUME LimbsFit, NEW s \in Accs, s.ok, NEW x \in 0..(B - 1), NEW y \in 0..(B - 1),
           NEW fast \in BOOLEAN, Held(s) + x * y < Room(fast)
    PROVE  LET r == muladd(s, x, y, fast)
           IN r \in Accs /\ r.ok /\ Held(r) = Held(s) + x * y
<1>1. /\ s.c0 \in 0..(B - 1) /\ s.c1 \in 0..(B - 1) /\ s.c2 \in 0..(B - 1)
      /\ B \in Nat /\ B >= 4
  BY AccParts
<1>2. PICK b \in Nat : b = B /\ b >= 4
  BY <1>1
<1>3. PICK s0 \in 0..(b - 1), s1 \in 0..(b - 1), s2 \in 0..(b - 1) : s0 = s.c0 /\ s1 = s.c1 /\ s2 = s.c2
  BY <1>1, <1>2
<1>4. x \in 0..(b - 1) /\ y \in 0..(b - 1) /\ b >= 2 /\ b >= 1
  BY <1>2
<1>5. /\ x * y \in Nat /\ (x * y) \div b \in 0..(b - 2) /\ ((x * y) % b) \in 0..(b - 1)
      /\ x * y = b * ((x * y) \div b) + ((x * y) % b)
  BY ONLY <1>4, b \in Nat, ProductHalves, Zenon
<1>6. PICK p \in Nat, hi \in 0..(b - 2), tl \in 0..(b - 1) :
          p = x * y /\ hi = (x * y) \div b /\ tl = (x * y) % b /\ p = b * hi + tl
  BY <1>5, Zenon
<1>7. CarriesSeen(b)
  BY ONLY <1>4, b \in Nat, SumCarries
<1>8. PICK c0 \in 0..(b - 1), k0 \in {0, 1} : c0 = (s0 + tl) % b /\ k0 = Bit(c0 < tl) /\ s0 + tl = c0 + b * k0
  BY ONLY <1>7, s0 \in 0..(b - 1), tl \in 0..(b - 1), Zenon DEF CarriesSeen
<1>10. PICK th \in 0..(b - 1) : th = hi + k0
  BY <1>2
<1>12. PICK c1 \in 0..(b - 1), k1 \in {0, 1} : c1 = (s1 + th) % b /\ k1 = Bit(c1 < th) /\ s1 + th = c1 + b * k1
  BY ONLY <1>7, s1 \in 0..(b - 1), th \in 0..(b - 1), Zenon DEF CarriesSeen
<1>14. s0 + b * s1 + (b * b) * s2 + p = c0 + b * c1 + (b * b) * (s2 + k1)
  <2>1. /\ s0 + tl = c0 + b * k0 /\ s1 + (hi + k0) = c1 + b * k1
    BY ONLY <1>8, <1>10, <1>12, <1>2, Zenon
  <2>3. /\ b \in Int /\ s0 \in Int /\ s1 \in Int /\ s2 \in Int /\ hi \in Int /\ tl \in Int
        /\ c0 \in Int /\ k0 \in Int /\ c1 \in Int /\ k1 \in Int
    BY ONLY b \in Nat, s0 \in 0..(b - 1), s1 \in 0..(b - 1), s2 \in 0..(b - 1), hi \in 0..(b - 2),
            tl \in 0..(b - 1), c0 \in 0..(b - 1), k0 \in {0, 1}, c1 \in 0..(b - 1), k1 \in {0, 1}
  <2>2. s0 + b * s1 + (b * b) * s2 + (b * hi + tl) = c0 + b * c1 + (b * b) * (s2 + k1)
    BY ONLY <2>1, <2>3, TwoSums
  <2> QED
    BY <1>6, <2>2
<1>15. PICK low \in Nat : low = c0 + b * c1
  <2>1. c0 + b * c1 \in Nat
    BY ONLY b \in Nat, c0 \in 0..(b - 1), c1 \in 0..(b - 1)
  <2> QED
    BY <2>1
<1>16. PICK n2 \in Nat : n2 = s2 + k1
  OBVIOUS
<1>17. low + (b * b) * n2 < Room(fast) /\ (low + (b * b) * n2 = Held(s) + x * y)
  BY <1>2, <1>3, <1>6, <1>14, <1>15, <1>16, Zenon DEF Held
<1>18. /\ low + (b * b) * n2 < (b * b) * b => n2 < b
       /\ low + (b * b) * n2 < b * b => n2 = 0
  BY ONLY <1>4, b \in Nat, low \in Nat, n2 \in Nat, ThirdLimb, Zenon
<1>19. n2 < b /\ (fast => n2 = 0)
  BY <1>2, <1>17, <1>18 DEF Room
<1>20. /\ fast => s2 = 0 /\ k1 = 0
       /\ n2 % b = n2
  <2>1. n2 \in 0..(b - 1)
    BY <1>19
  <2>2. n2 % b = n2
    BY ONLY <1>4, <2>1, b \in Nat, ModSmall
  <2>3. fast => s2 = 0 /\ k1 = 0
    BY ONLY <1>16, <1>19, b \in Nat, s2 \in 0..(b - 1), k1 \in {0, 1}
  <2> QED
    BY <2>2, <2>3
<1>21. PICK c2 \in 0..(b - 1) : c2 = n2 /\ c2 = IF fast THEN s2 ELSE (s2 + k1) % b
  BY <1>16, <1>19, <1>20
<1>22. th < b /\ (c1 >= th \/ (~fast /\ c2 # 0))
  <2>1. k1 = 0 => c1 >= th
    BY <1>12 DEF Bit
  <2>2. k1 = 1 => ~fast /\ c2 # 0
    BY <1>16, <1>20, <1>21
  <2> QED
    BY <2>1, <2>2
<1>23. muladd(s, x, y, fast)
          = [c0 |-> c0, c1 |-> c1, c2 |-> c2,
             ok |-> s.ok /\ th < B /\ (c1 >= th \/ (~fast /\ c2 # 0))]
  BY <1>2, <1>3, <1>6, <1>8, <1>10, <1>12, <1>21, Zenon DEF muladd
<1>24. PICK r : r = muladd(s, x, y, fast)
  OBVIOUS
<1>28. muladd(s, x, y, fast) = [c0 |-> c0, c1 |-> c1, c2 |-> c2, ok |-> TRUE]
  BY ONLY <1>2, <1>22, <1>23, s.ok, Zenon
<1>25. r.c0 = c0 /\ r.c1 = c1 /\ r.c2 = c2 /\ r.ok = TRUE /\ r = [c0 |-> c0, c1 |-> c1, c2 |-> c2, ok |-> TRUE]
  BY ONLY <1>24, <1>28
<1>26. r \in Accs
  BY <1>2, <1>8, <1>12, <1>25 DEF Accs
<1>27. Held(r) = Held(s) + x * y
  BY <1>2, <1>15, <1>17, <1>21, <1>25, Zenon DEF Held
<1> QED
  BY <1>24, <1>25, <1>26, <1>27, Zenon

\* sumadd and sumadd_fast add the limb.
LEMMA SumaddRight ==
    ASSUME LimbsFit, NEW s \in Accs, s.ok, NEW x \in 0..(B - 1),
           NEW fast \in BOOLEAN, Held(s) + x < Room(fast)
    PROVE  LET r == sumadd(s, x, fast)
           IN r \in Accs /\ r.ok /\ Held(r) = Held(s) + x
<1>1. /\ s.c0 \in 0..(B - 1) /\ s.c1 \in 0..(B - 1) /\ s.c2 \in 0..(B - 1)
      /\ B \in Nat /\ B >= 4
  BY AccParts
<1>2. PICK b \in Nat : b = B /\ b >= 4
  BY <1>1
<1>3. PICK s0 \in 0..(b - 1), s1 \in 0..(b - 1), s2 \in 0..(b - 1) : s0 = s.c0 /\ s1 = s.c1 /\ s2 = s.c2
  BY <1>1, <1>2
<1>4. x \in 0..(b - 1) /\ b >= 1
  BY <1>2
<1>5. CarriesSeen(b)
  BY ONLY <1>4, b \in Nat, SumCarries
<1>6. PICK c0 \in 0..(b - 1), k0 \in {0, 1} : c0 = (s0 + x) % b /\ k0 = Bit(c0 < x) /\ s0 + x = c0 + b * k0
  BY ONLY <1>4, <1>5, s0 \in 0..(b - 1), Zenon DEF CarriesSeen
<1>7. k0 \in 0..(b - 1)
  BY <1>2
<1>8. PICK c1 \in 0..(b - 1), k1 \in {0, 1} : c1 = (s1 + k0) % b /\ k1 = Bit(c1 < k0) /\ s1 + k0 = c1 + b * k1
  BY ONLY <1>5, <1>7, s1 \in 0..(b - 1), Zenon DEF CarriesSeen
<1>9. s0 + b * s1 + (b * b) * s2 + x = c0 + b * c1 + (b * b) * (s2 + k1)
  <2>1. PICK hi \in Int : hi = 0
    OBVIOUS
  <2>2. s0 + x = c0 + b * k0 /\ s1 + (hi + k0) = c1 + b * k1
    <3>1. hi + k0 = k0
      BY <2>1
    <3> QED
      BY ONLY <1>6, <1>8, <3>1, Zenon
  <2>3. /\ b \in Int /\ s0 \in Int /\ s1 \in Int /\ s2 \in Int /\ x \in Int
        /\ c0 \in Int /\ k0 \in Int /\ c1 \in Int /\ k1 \in Int
    BY ONLY b \in Nat, s0 \in 0..(b - 1), s1 \in 0..(b - 1), s2 \in 0..(b - 1), <1>4,
            c0 \in 0..(b - 1), k0 \in {0, 1}, c1 \in 0..(b - 1), k1 \in {0, 1}
  <2>4. s0 + b * s1 + (b * b) * s2 + (b * hi + x) = c0 + b * c1 + (b * b) * (s2 + k1)
    BY ONLY <2>2, <2>3, hi \in Int, TwoSums
  <2>5. b * hi + x = x
    BY ONLY <2>1, <2>3
  <2> QED
    BY <2>4, <2>5, Zenon
<1>10. PICK low \in Nat : low = c0 + b * c1
  <2>1. c0 + b * c1 \in Nat
    BY ONLY b \in Nat, c0 \in 0..(b - 1), c1 \in 0..(b - 1)
  <2> QED
    BY <2>1
<1>11. PICK n2 \in Nat : n2 = s2 + k1
  OBVIOUS
<1>12. low + (b * b) * n2 < Room(fast) /\ (low + (b * b) * n2 = Held(s) + x)
  BY <1>2, <1>3, <1>9, <1>10, <1>11, Zenon DEF Held
<1>13. /\ low + (b * b) * n2 < (b * b) * b => n2 < b
       /\ low + (b * b) * n2 < b * b => n2 = 0
  BY ONLY <1>4, b \in Nat, low \in Nat, n2 \in Nat, ThirdLimb, Zenon
<1>14. n2 < b /\ (fast => n2 = 0)
  BY <1>2, <1>12, <1>13 DEF Room
<1>15. /\ fast => s2 = 0 /\ k1 = 0
       /\ n2 % b = n2
  <2>1. n2 \in 0..(b - 1)
    BY <1>14
  <2>2. n2 % b = n2
    BY ONLY <1>4, <2>1, b \in Nat, ModSmall
  <2>3. fast => s2 = 0 /\ k1 = 0
    BY ONLY <1>11, <1>14, b \in Nat, s2 \in 0..(b - 1), k1 \in {0, 1}
  <2> QED
    BY <2>2, <2>3
<1>16. PICK c2 \in 0..(b - 1) : c2 = n2 /\ c2 = IF fast THEN s2 ELSE (s2 + k1) % b
  BY <1>11, <1>14, <1>15
<1>17. fast => s2 = 0 /\ (c1 # 0 \/ c0 >= x)
  <2>1. k0 = 0 => c0 >= x
    BY <1>4, <1>6 DEF Bit
  <2>2. k0 = 1 /\ k1 = 0 => c1 # 0
    BY <1>8 DEF Bit
  <2> QED
    BY <1>15, <2>1, <2>2
<1>18. sumadd(s, x, fast)
          = [c0 |-> c0, c1 |-> c1, c2 |-> c2,
             ok |-> s.ok /\ (fast => s2 = 0 /\ (c1 # 0 \/ c0 >= x))]
  BY <1>2, <1>3, <1>6, <1>8, <1>16, Zenon DEF sumadd
<1>19. sumadd(s, x, fast) = [c0 |-> c0, c1 |-> c1, c2 |-> c2, ok |-> TRUE]
  BY ONLY <1>17, <1>18, s.ok, Zenon
<1>20. PICK r : r = sumadd(s, x, fast)
  OBVIOUS
<1>21. r.c0 = c0 /\ r.c1 = c1 /\ r.c2 = c2 /\ r.ok = TRUE /\ r = [c0 |-> c0, c1 |-> c1, c2 |-> c2, ok |-> TRUE]
  BY ONLY <1>19, <1>20
<1>22. r \in Accs
  BY <1>2, <1>21 DEF Accs
<1>23. Held(r) = Held(s) + x
  BY <1>2, <1>10, <1>12, <1>16, <1>21, Zenon DEF Held
<1> QED
  BY <1>20, <1>21, <1>22, <1>23, Zenon

\* A number below the third power of the base is its three digits.
LEMMA ThreeDigits ==
    ASSUME NEW b \in Nat, b >= 1, NEW v \in Nat
    PROVE  /\ (v % b) \in 0..(b - 1) /\ ((v \div b) % b) \in 0..(b - 1)
           /\ v \div (b * b) \in Nat
           /\ v = (v % b) + b * ((v \div b) % b) + (b * b) * (v \div (b * b))
<1>1. v \in Int /\ v \div b \in Int
  BY Division
<1>2. (v % b) \in 0..(b - 1)
  BY <1>1, Division
<1>3. ((v \div b) % b) \in 0..(b - 1)
  <2>1. PICK w \in Int : w = v \div b
    BY <1>1
  <2>2. (w % b) \in 0..(b - 1)
    BY Division
  <2> QED
    BY <2>1, <2>2
<1>4. (v % (b * b)) = (v % b) + ((v \div b) % b) * b
  BY ONLY <1>1, b \in Nat, b >= 1, ModSplit, Zenon
<1>5. PICK q \in Nat : q = b * b /\ q >= 1
  <2>1. b * b \in Nat /\ b * b >= 1
    OBVIOUS
  <2> QED
    BY <2>1
<1>6. v = q * (v \div q) + (v % q)
  BY ONLY <1>1, <1>5, q \in Nat, Division, Zenon
<1>7. v \div q \in Nat
  BY ONLY <1>5, v \in Nat, q \in Nat, DivisionNat
<1>8. ((v \div b) % b) * b = b * ((v \div b) % b)
  <2>1. PICK w \in Int : w = (v \div b) % b
    BY <1>3
  <2>2. w * b = b * w
    OBVIOUS
  <2> QED
    BY <2>1, <2>2
<1>9. PICK x \in Int, y \in Int, z \in Int, t \in Int :
          x = v % b /\ y = ((v \div b) % b) * b /\ z = q * (v \div q) /\ t = v % q
  <2>1. PICK w \in Int, u \in Int : w = (v \div b) % b /\ u = v \div q
    BY <1>3, <1>7
  <2>2. w * b \in Int /\ q * u \in Int
    OBVIOUS
  <2>3. v % q \in Int
    BY ONLY <1>1, <1>5, q \in Nat, Division
  <2>4. v % b \in Int
    BY <1>2
  <2>5. ((v \div b) % b) * b \in Int /\ q * (v \div q) \in Int
    BY ONLY <2>1, <2>2, Zenon
  <2> QED
    BY ONLY <2>3, <2>4, <2>5, Zenon
<1>10. v = x + y + z
  BY <1>4, <1>5, <1>6, <1>9
<1> QED
  BY <1>2, <1>3, <1>5, <1>7, <1>8, <1>9, <1>10

\* In a fast form the third limb is zero.
LEMMA FastHeld ==
    ASSUME LimbsFit, NEW s \in Accs, Held(s) < B * B
    PROVE  s.c2 = 0
<1>1. PICK b \in Nat, x \in Nat, y \in Nat, z \in Nat : b = B /\ x = s.c0 /\ y = s.c1 /\ z = s.c2 /\ b >= 1
  BY AccParts
<1>2. PICK low \in Nat : low = x + b * y
  OBVIOUS
<1>3. low + (b * b) * z < b * b
  BY <1>1, <1>2 DEF Held
<1> QED
  BY <1>1, <1>3, ThirdLimb

\* An addition with the carry into the second limb and the third.
LEMMA AdcRight ==
    ASSUME LimbsFit, NEW s \in Accs, s.ok, NEW x \in Nat,
           NEW fast \in BOOLEAN, Held(s) + x < Room(fast)
    PROVE  LET r == adc(s, x, fast)
           IN r \in Accs /\ r.ok /\ Held(r) = Held(s) + x
<1>1. /\ s.c0 \in Nat /\ s.c1 \in Nat /\ s.c2 \in Nat /\ Held(s) \in Nat
      /\ B \in Nat /\ B >= 4
  BY AccParts
<1>2. PICK b \in Nat : b = B /\ b >= 4
  BY <1>1
<1>3. PICK s0 \in Nat, s1 \in Nat, s2 \in Nat : s0 = s.c0 /\ s1 = s.c1 /\ s2 = s.c2
  BY <1>1
<1>4. fast => s2 = 0
  <2>1. fast => Held(s) < B * B
    BY <1>1 DEF Room
  <2> QED
    BY <1>3, <2>1, FastHeld
<1>5. PICK v \in Nat : v = Held(s) + x
  BY <1>1
<1>6. v = s0 + b * s1 + x + (IF fast THEN 0 ELSE b * b * s2)
  <2>1. Held(s) = s0 + b * s1 + b * b * s2
    BY <1>2, <1>3 DEF Held
  <2>2. PICK y \in Nat, z \in Nat : y = b * s1 /\ z = b * b * s2
    OBVIOUS
  <2>3. fast => z = 0
    BY <1>4, <2>2
  <2> QED
    BY <1>5, <2>1, <2>2, <2>3
<1>7. /\ (v % b) \in 0..(b - 1) /\ ((v \div b) % b) \in 0..(b - 1)
      /\ v \div (b * b) \in Nat
      /\ v = (v % b) + b * ((v \div b) % b) + (b * b) * (v \div (b * b))
  <2>1. b >= 1
    BY <1>2
  <2> QED
    BY ONLY <2>1, v \in Nat, b \in Nat, ThreeDigits, Zenon
<1>8. PICK c0 \in 0..(b - 1), c1 \in 0..(b - 1), n2 \in Nat :
          c0 = v % b /\ c1 = (v \div b) % b /\ n2 = v \div (b * b) /\ v = c0 + b * c1 + (b * b) * n2
  BY ONLY <1>7, Zenon
<1>9. PICK low \in Nat : low = c0 + b * c1
  <2>1. c0 + b * c1 \in Nat
    BY ONLY b \in Nat, c0 \in 0..(b - 1), c1 \in 0..(b - 1)
  <2> QED
    BY <2>1
<1>10. /\ low + (b * b) * n2 < (b * b) * b => n2 < b
       /\ low + (b * b) * n2 < b * b => n2 = 0
  BY ONLY <1>2, b \in Nat, low \in Nat, n2 \in Nat, ThirdLimb
<1>11. v < Room(fast)
  BY <1>5
<1>12. n2 < b /\ (fast => n2 = 0)
  <2>1. v = low + (b * b) * n2
    BY ONLY <1>8, <1>9, Zenon
  <2>2. fast => low + (b * b) * n2 < b * b
    BY ONLY <1>2, <1>11, <2>1, Zenon DEF Room
  <2>3. ~fast => low + (b * b) * n2 < (b * b) * b
    BY ONLY <1>2, <1>11, <2>1, Zenon DEF Room
  <2>4. fast => n2 = 0
    BY ONLY <1>10, <2>2, Zenon
  <2>5. fast \/ n2 < b
    BY ONLY <1>10, <2>3, Zenon
  <2> QED
    BY <1>2, <2>4, <2>5
<1>13. n2 % b = n2 /\ n2 \in 0..(b - 1)
  <2>1. n2 \in 0..(b - 1)
    BY <1>12
  <2>2. n2 % b = n2
    BY ONLY <1>2, <2>1, b \in Nat, ModSmall
  <2> QED
    BY <2>1, <2>2
<1>14. n2 = IF fast THEN s2 ELSE (v \div (b * b)) % b
  BY <1>4, <1>8, <1>12, <1>13, Zenon
<1>15. v < IF fast THEN b * b ELSE b * b * b
  BY <1>2, <1>11 DEF Room
<1>16. adc(s, x, fast)
           = [c0 |-> c0, c1 |-> c1, c2 |-> n2, ok |-> s.ok /\ v < (IF fast THEN b * b ELSE b * b * b)]
  BY <1>2, <1>3, <1>6, <1>8, <1>14, Zenon DEF adc
<1>17. adc(s, x, fast) = [c0 |-> c0, c1 |-> c1, c2 |-> n2, ok |-> TRUE]
  BY ONLY <1>15, <1>16, s.ok, Zenon
<1>18. PICK r : r = adc(s, x, fast)
  OBVIOUS
<1>19. r.c0 = c0 /\ r.c1 = c1 /\ r.c2 = n2 /\ r.ok = TRUE /\ r = [c0 |-> c0, c1 |-> c1, c2 |-> n2, ok |-> TRUE]
  BY ONLY <1>17, <1>18
<1>20. r \in Accs
  BY <1>2, <1>13, <1>19 DEF Accs
<1>21. Held(r) = Held(s) + x
  BY <1>2, <1>5, <1>8, <1>19, Zenon DEF Held
<1> QED
  BY <1>18, <1>19, <1>20, <1>21, Zenon

\* A base of four or more is even.
LEMMA BaseEven == ASSUME LimbsFit PROVE \E h \in Nat : B = 2 * h
<1>1. W - 1 \in Nat /\ (W - 1) + 1 = W
  BY Sizes
<1>2. 2^((W - 1) + 1) = 2 * 2^(W - 1) /\ 2^(W - 1) \in Nat
  BY <1>1, PowerNext, PowerPositive
<1> QED
  BY <1>1, <1>2 DEF B

\* An even base has room for a carry beside the double of an upper half.
LEMMA DoubledUpper ==
    ASSUME NEW b \in Nat, b >= 4, NEW h \in Nat, b = 2 * h, NEW hi \in 0..(b - 2),
           NEW ha \in 0..(b - 1), NEW ka \in {0, 1}, hi + hi = ha + b * ka
    PROVE  ha <= b - 2
<1>1. CASE ka = 0
  <2>1. hi + hi = ha
    BY <1>1
  <2> QED
    BY <2>1
<1>2. CASE ka = 1
  <2>1. hi + hi = ha + b
    BY <1>2
  <2> QED
    BY <2>1
<1> QED
  BY <1>1, <1>2

\* The carry out of a sum with one is there when the sum is zero.
OnesCarried(b) ==
    \A x \in 0..(b - 1) : \A k \in {0, 1} :
        LET z == (x + k) % b
        IN /\ z \in 0..(b - 1) /\ Bit(k = 1 /\ z = 0) \in {0, 1}
           /\ x + k = z + b * Bit(k = 1 /\ z = 0)

\* A carry into a limb comes out of it just when it leaves zero.
LEMMA OnesCarriedRight == ASSUME NEW b \in Nat, b >= 4 PROVE OnesCarried(b)
<1> SUFFICES ASSUME NEW x \in 0..(b - 1), NEW k \in {0, 1}
             PROVE  LET z == (x + k) % b
                    IN /\ z \in 0..(b - 1) /\ Bit(k = 1 /\ z = 0) \in {0, 1}
                       /\ x + k = z + b * Bit(k = 1 /\ z = 0)
  BY Zenon DEF OnesCarried
<1>1. PICK z : z = (x + k) % b
  OBVIOUS
<1>2. CASE x + k < b
  <2>1. x + k \in 0..(b - 1) /\ b >= 1
    BY <1>2
  <2>2. z = x + k
    BY ONLY <1>1, <2>1, b \in Nat, ModSmall
  <2>3. ~(k = 1 /\ z = 0)
    BY <2>2
  <2> QED
    BY <1>1, <2>1, <2>2, <2>3 DEF Bit
<1>3. CASE x + k >= b
  <2>1. x + k = b /\ k = 1
    BY <1>3
  <2>2. b = b * 1 + 0 /\ b \in Int /\ 1 \in Int /\ 0 \in 0..(b - 1) /\ b >= 1
    OBVIOUS
  <2>3. b % b = 0
    BY ONLY <2>2, b \in Nat, DivisionUnique
  <2>4. z = 0
    BY <1>1, <2>1, <2>3
  <2> QED
    BY <1>1, <2>1, <2>4 DEF Bit
<1> QED
  BY <1>2, <1>3

\* muladd2 adds the double of the product.
LEMMA Muladd2Right ==
    ASSUME LimbsFit, NEW s \in Accs, s.ok, NEW x \in 0..(B - 1), NEW y \in 0..(B - 1),
           Held(s) + (x * y + x * y) < Room(FALSE)
    PROVE  LET r == muladd2(s, x, y)
           IN r \in Accs /\ r.ok /\ Held(r) = Held(s) + (x * y + x * y)
<1>1. /\ s.c0 \in 0..(B - 1) /\ s.c1 \in 0..(B - 1) /\ s.c2 \in 0..(B - 1)
      /\ B \in Nat /\ B >= 4
  BY AccParts
<1>2. PICK b \in Nat : b = B /\ b >= 4
  BY <1>1
<1>3. PICK s0 \in 0..(b - 1), s1 \in 0..(b - 1), s2 \in 0..(b - 1) : s0 = s.c0 /\ s1 = s.c1 /\ s2 = s.c2
  BY <1>1, <1>2
<1>4. x \in 0..(b - 1) /\ y \in 0..(b - 1) /\ b >= 2 /\ b >= 1
  BY <1>2
<1>5. /\ x * y \in Nat /\ (x * y) \div b \in 0..(b - 2) /\ ((x * y) % b) \in 0..(b - 1)
      /\ x * y = b * ((x * y) \div b) + ((x * y) % b)
  BY ONLY <1>4, b \in Nat, ProductHalves, Zenon
<1>6. PICK p \in Nat, hi \in 0..(b - 2), tl \in 0..(b - 1) :
          p = x * y /\ hi = (x * y) \div b /\ tl = (x * y) % b /\ p = b * hi + tl
  BY <1>5, Zenon
<1>7. CarriesSeen(b)
  BY ONLY <1>4, b \in Nat, SumCarries
<1>8. hi \in 0..(b - 1) /\ 2 * hi = hi + hi /\ 2 * tl = tl + tl
  BY ONLY b \in Nat, hi \in 0..(b - 2), tl \in 0..(b - 1)
<1>9. PICK ha \in 0..(b - 1), ka \in {0, 1} : ha = (hi + hi) % b /\ ka = Bit(ha < hi) /\ hi + hi = ha + b * ka
  BY ONLY <1>7, <1>8, Zenon DEF CarriesSeen
<1>10. PICK t2 \in 0..(b - 1), kb \in {0, 1} : t2 = (tl + tl) % b /\ kb = Bit(t2 < tl) /\ tl + tl = t2 + b * kb
  BY ONLY <1>7, tl \in 0..(b - 1), Zenon DEF CarriesSeen
<1>11. PICK hb \in 0..(b - 1) : hb = ha + kb
  <2>1. PICK h \in Nat : b = 2 * h
    BY <1>2, BaseEven
  <2>2. ha <= b - 2
    BY ONLY <1>2, <1>9, <2>1, b \in Nat, h \in Nat, hi \in 0..(b - 2), ha \in 0..(b - 1), ka \in {0, 1},
            DoubledUpper, Zenon
  <2>3. ha + kb \in 0..(b - 1)
    BY ONLY <2>2, b \in Nat, ha \in 0..(b - 1), kb \in {0, 1}
  <2> QED
    BY <2>3
<1>12. PICK c0 \in 0..(b - 1), k0 \in {0, 1} : c0 = (s0 + t2) % b /\ k0 = Bit(c0 < t2) /\ s0 + t2 = c0 + b * k0
  BY ONLY <1>7, s0 \in 0..(b - 1), t2 \in 0..(b - 1), ZenonT(60) DEF CarriesSeen
<1>13. PICK h2 : h2 = (hb + k0) % b
  OBVIOUS
<1>14. /\ h2 \in 0..(b - 1) /\ Bit(k0 = 1 /\ h2 = 0) \in {0, 1}
       /\ hb + k0 = h2 + b * Bit(k0 = 1 /\ h2 = 0)
  <2>1. b >= 4
    BY <1>2
  <2>2. OnesCarried(b)
    BY ONLY <2>1, b \in Nat, OnesCarriedRight
  <2> QED
    BY ONLY <1>13, <2>2, hb \in 0..(b - 1), k0 \in {0, 1}, Zenon DEF OnesCarried
<1>15. (k0 = 1) = (c0 < t2)
  BY ONLY <1>12 DEF Bit
<1>16. PICK kc \in {0, 1} : kc = Bit(c0 < t2 /\ h2 = 0) /\ hb + k0 = h2 + b * kc
  BY ONLY <1>14, <1>15, Zenon
<1>17. PICK c1 \in 0..(b - 1), k1 \in {0, 1} : c1 = (s1 + h2) % b /\ k1 = Bit(c1 < h2) /\ s1 + h2 = c1 + b * k1
  BY ONLY <1>7, <1>14, s1 \in 0..(b - 1), Zenon DEF CarriesSeen
<1>18. s0 + b * s1 + (b * b) * s2 + (p + p) = c0 + b * c1 + (b * b) * (((s2 + ka) + kc) + k1)
  <2>1. b \in Int
    OBVIOUS
  <2>2. b * hi + b * hi = b * ha + (b * b) * ka
    <3>1. hi \in Int /\ ha \in Int /\ ka \in Int
      BY ONLY b \in Nat, hi \in 0..(b - 2), ha \in 0..(b - 1), ka \in {0, 1}
    <3>2. b * (hi + hi) = b * (ha + b * ka)
      BY ONLY <1>9, Zenon
    <3>3. b * (hi + hi) = b * hi + b * hi /\ b * (ha + b * ka) = b * ha + (b * b) * ka
      BY ONLY <2>1, <3>1
    <3> QED
      BY ONLY <3>2, <3>3, Zenon
  <2>3. b * hb + b * k0 = b * h2 + (b * b) * kc
    <3>1. hb \in Int /\ k0 \in Int /\ h2 \in Int /\ kc \in Int
      BY ONLY <1>14, b \in Nat, hb \in 0..(b - 1), k0 \in {0, 1}, kc \in {0, 1}
    <3>2. b * (hb + k0) = b * (h2 + b * kc)
      BY ONLY <1>16, Zenon
    <3>3. b * (hb + k0) = b * hb + b * k0 /\ b * (h2 + b * kc) = b * h2 + (b * b) * kc
      BY ONLY <2>1, <3>1
    <3> QED
      BY ONLY <3>2, <3>3, Zenon
  <2>4. b * s1 + b * h2 = b * c1 + (b * b) * k1
    <3>1. s1 \in Int /\ h2 \in Int /\ c1 \in Int /\ k1 \in Int
      BY ONLY <1>14, b \in Nat, s1 \in 0..(b - 1), c1 \in 0..(b - 1), k1 \in {0, 1}
    <3>2. b * (s1 + h2) = b * (c1 + b * k1)
      BY ONLY <1>17, Zenon
    <3>3. b * (s1 + h2) = b * s1 + b * h2 /\ b * (c1 + b * k1) = b * c1 + (b * b) * k1
      BY ONLY <2>1, <3>1
    <3> QED
      BY ONLY <3>2, <3>3, Zenon
  <2>5. b * hb = b * ha + b * kb
    BY ONLY <1>11, b \in Nat, ha \in 0..(b - 1), kb \in {0, 1}
  <2>6. (b * b) * (((s2 + ka) + kc) + k1) = (b * b) * s2 + (b * b) * ka + (b * b) * kc + (b * b) * k1
    <3>1. PICK q \in Nat : q = b * b
      OBVIOUS
    <3>2. q * (((s2 + ka) + kc) + k1) = q * s2 + q * ka + q * kc + q * k1
      BY ONLY q \in Nat, b \in Nat, s2 \in 0..(b - 1), ka \in {0, 1}, kc \in {0, 1}, k1 \in {0, 1}
    <3> QED
      BY ONLY <3>1, <3>2, Zenon
  <2>7. /\ b * hi \in Int /\ b * ha \in Int /\ b * hb \in Int /\ b * kb \in Int /\ b * k0 \in Int
        /\ b * h2 \in Int /\ b * s1 \in Int /\ b * c1 \in Int
    BY ONLY <1>14, b \in Nat, hi \in 0..(b - 2), ha \in 0..(b - 1), hb \in 0..(b - 1), kb \in {0, 1},
            k0 \in {0, 1}, s1 \in 0..(b - 1), c1 \in 0..(b - 1)
  <2>8. (b * b) * s2 \in Int /\ (b * b) * ka \in Int /\ (b * b) * kc \in Int /\ (b * b) * k1 \in Int
    BY ONLY b \in Nat, s2 \in 0..(b - 1), ka \in {0, 1}, kc \in {0, 1}, k1 \in {0, 1}
  <2>9. s0 \in Int /\ tl \in Int /\ t2 \in Int /\ c0 \in Int
    BY ONLY b \in Nat, s0 \in 0..(b - 1), tl \in 0..(b - 1), t2 \in 0..(b - 1), c0 \in 0..(b - 1)
  <2>a. PICK bhi \in Int, bha \in Int, bhb \in Int, bkb \in Int, bk0 \in Int, bh2 \in Int, bs1 \in Int, bc1 \in Int :
           /\ bhi = b * hi /\ bha = b * ha /\ bhb = b * hb /\ bkb = b * kb /\ bk0 = b * k0
           /\ bh2 = b * h2 /\ bs1 = b * s1 /\ bc1 = b * c1
    BY ONLY <2>7, Zenon
  <2>b. PICK q2 \in Int, qa \in Int, qc \in Int, q1 \in Int :
           q2 = (b * b) * s2 /\ qa = (b * b) * ka /\ qc = (b * b) * kc /\ q1 = (b * b) * k1
    BY ONLY <2>8, Zenon
  <2>c. /\ bhi + bhi = bha + qa /\ bhb + bk0 = bh2 + qc /\ bs1 + bh2 = bc1 + q1 /\ bhb = bha + bkb
        /\ tl + tl = t2 + bkb /\ s0 + t2 = c0 + bk0
    BY ONLY <1>10, <1>12, <2>2, <2>3, <2>4, <2>5, <2>a, <2>b, Zenon
  <2>d. s0 + bs1 + q2 + ((bhi + tl) + (bhi + tl)) = c0 + bc1 + (q2 + qa + qc + q1)
    BY ONLY <2>9, <2>c, bhi \in Int, bha \in Int, bhb \in Int, bkb \in Int, bk0 \in Int, bh2 \in Int, bs1 \in Int,
            bc1 \in Int, q2 \in Int, qa \in Int, qc \in Int, q1 \in Int
  <2> QED
    BY ONLY <1>6, <2>6, <2>a, <2>b, <2>d, Zenon
<1>19. PICK low \in Nat : low = c0 + b * c1
  <2>1. c0 + b * c1 \in Nat
    BY ONLY b \in Nat, c0 \in 0..(b - 1), c1 \in 0..(b - 1)
  <2> QED
    BY <2>1
<1>20. PICK ca \in Nat, cb \in Nat, n2 \in Nat : ca = s2 + ka /\ cb = ca + kc /\ n2 = cb + k1
  <2>1. s2 + ka \in Nat /\ (s2 + ka) + kc \in Nat /\ ((s2 + ka) + kc) + k1 \in Nat
    BY ONLY b \in Nat, s2 \in 0..(b - 1), ka \in {0, 1}, kc \in {0, 1}, k1 \in {0, 1}
  <2> QED
    BY <2>1
<1>21. low + (b * b) * n2 < (b * b) * b /\ low + (b * b) * n2 = Held(s) + (x * y + x * y)
  <2>1. low + (b * b) * n2 = Held(s) + (x * y + x * y)
    BY ONLY <1>2, <1>3, <1>6, <1>18, <1>19, <1>20, Zenon DEF Held
  <2> QED
    BY <1>2, <2>1, Zenon DEF Room
<1>22. n2 < b
  BY ONLY <1>4, <1>21, b \in Nat, low \in Nat, n2 \in Nat, ThirdLimb, Zenon
<1>23. n2 % b = n2 /\ n2 \in 0..(b - 1)
  <2>1. n2 \in 0..(b - 1)
    BY <1>22
  <2>2. n2 % b = n2
    BY ONLY <1>4, <2>1, b \in Nat, ModSmall
  <2> QED
    BY <2>1, <2>2
<1>24. (ha >= hi \/ ca # 0) /\ (c0 >= t2 \/ h2 # 0 \/ cb # 0) /\ (c1 >= h2 \/ n2 # 0)
  <2>1. ka = 1 \/ ha >= hi
    BY ONLY <1>9, b \in Nat, ha \in 0..(b - 1), hi \in 0..(b - 2) DEF Bit
  <2>2. kc = 1 \/ c0 >= t2 \/ h2 # 0
    BY ONLY <1>16, b \in Nat, c0 \in 0..(b - 1), t2 \in 0..(b - 1) DEF Bit
  <2>3. k1 = 1 \/ c1 >= h2
    BY ONLY <1>14, <1>17, b \in Nat, c1 \in 0..(b - 1) DEF Bit
  <2>4. (ka = 1 => ca # 0) /\ (kc = 1 => cb # 0) /\ (k1 = 1 => n2 # 0)
    BY ONLY <1>20, b \in Nat, s2 \in 0..(b - 1), ca \in Nat, cb \in Nat, ka \in {0, 1}, kc \in {0, 1}
  <2> QED
    BY ONLY <2>1, <2>2, <2>3, <2>4
<1>25. muladd2(s, x, y)
          = [c0 |-> c0, c1 |-> c1, c2 |-> n2,
             ok |-> /\ s.ok /\ n2 < b /\ (ha >= hi \/ ca # 0)
                    /\ (c0 >= t2 \/ h2 # 0 \/ cb # 0) /\ (c1 >= h2 \/ n2 # 0)]
  <2>1. (2 * hi) % b = ha /\ (2 * tl) % b = t2
    BY ONLY <1>8, <1>9, <1>10, Zenon
  <2>2. (x * y) \div B = hi /\ (x * y) % B = tl /\ (2 * hi) % B = ha /\ (2 * tl) % B = t2
    BY ONLY <1>2, <1>6, <2>1, Zenon
  <2>3. s.c2 + Bit(ha < hi) = ca /\ ha + Bit(t2 < tl) = hb
    BY ONLY <1>3, <1>9, <1>10, <1>11, <1>20, Zenon
  <2>4. (s.c0 + t2) % B = c0 /\ (hb + Bit(c0 < t2)) % B = h2 /\ ca + Bit(c0 < t2 /\ h2 = 0) = cb
    BY ONLY <1>2, <1>3, <1>12, <1>13, <1>16, <1>20, Zenon
  <2>5. (s.c1 + h2) % B = c1 /\ cb + Bit(c1 < h2) = n2 /\ n2 % B = n2
    BY ONLY <1>2, <1>3, <1>17, <1>20, <1>23, Zenon
  <2> QED
    BY ONLY <1>2, <2>2, <2>3, <2>4, <2>5, ZenonT(60) DEF muladd2
<1>26. muladd2(s, x, y) = [c0 |-> c0, c1 |-> c1, c2 |-> n2, ok |-> TRUE]
  BY ONLY <1>22, <1>24, <1>25, s.ok, Zenon
<1>27. PICK r : r = muladd2(s, x, y)
  OBVIOUS
<1>28. r.c0 = c0 /\ r.c1 = c1 /\ r.c2 = n2 /\ r.ok = TRUE /\ r = [c0 |-> c0, c1 |-> c1, c2 |-> n2, ok |-> TRUE]
  BY ONLY <1>26, <1>27
<1>29. r \in Accs
  BY ONLY <1>2, <1>23, <1>28, c0 \in 0..(b - 1), c1 \in 0..(b - 1) DEF Accs
<1>30. Held(r) = Held(s) + (x * y + x * y)
  BY ONLY <1>2, <1>19, <1>21, <1>28, Zenon DEF Held
<1> QED
  BY <1>27, <1>28, <1>29, <1>30, Zenon

\* What is added to a column, and what it is worth.
Terms == [op : {"muladd", "muladd2", "sumadd", "none"}, x : 0..(B - 1), y : 0..(B - 1), fast : BOOLEAN]
Worth(t) == IF t.op = "muladd" THEN t.x * t.y
            ELSE IF t.op = "muladd2" THEN t.x * t.y + t.x * t.y
            ELSE IF t.op = "sumadd" THEN t.x
            ELSE 0

\* The limbs of a term, and that it is worth a natural number.
LEMMA WorthNat ==
    ASSUME LimbsFit, NEW t \in Terms
    PROVE  Worth(t) \in Nat /\ t.x \in 0..(B - 1) /\ t.y \in 0..(B - 1) /\ t.fast \in BOOLEAN
<1>1. t.x \in 0..(B - 1) /\ t.y \in 0..(B - 1) /\ t.fast \in BOOLEAN /\ B \in Nat
  BY Sizes DEF Terms
<1>2. PICK x \in Nat, y \in Nat : x = t.x /\ y = t.y
  BY <1>1
<1>3. x * y \in Nat
  OBVIOUS
<1> QED
  BY <1>1, <1>2, <1>3 DEF Worth

\* The macros of C and the assembler add what the term is worth.
LEMMA AddedRight ==
    ASSUME LimbsFit, NEW s \in Accs, s.ok, NEW t \in Terms, NEW asm \in BOOLEAN,
           t.op = "muladd2" => ~t.fast, Held(s) + Worth(t) < Room(t.fast)
    PROVE  LET r == Added(s, t, asm)
           IN r \in Accs /\ r.ok /\ Held(r) = Held(s) + Worth(t)
<1>1. /\ t.x \in 0..(B - 1) /\ t.y \in 0..(B - 1) /\ t.fast \in BOOLEAN
      /\ t.op \in {"muladd", "muladd2", "sumadd", "none"}
  BY WorthNat DEF Terms
<1>2. PICK x, y, fast : x = t.x /\ y = t.y /\ fast = t.fast
  OBVIOUS
<1>3. x \in 0..(B - 1) /\ y \in 0..(B - 1) /\ fast \in BOOLEAN
  BY <1>1, <1>2
<1>4. x \in Nat /\ y \in Nat /\ x * y \in Nat /\ Held(s) \in Nat
  <2>1. B \in Nat /\ Held(s) \in Nat
    BY AccParts
  <2>2. x \in Nat /\ y \in Nat
    BY <1>3, <2>1
  <2>3. PICK u \in Nat, v \in Nat : u = x /\ v = y
    BY <2>2
  <2>4. u * v \in Nat
    OBVIOUS
  <2> QED
    BY <2>1, <2>2, <2>3, <2>4
<1>5. CASE t.op = "muladd"
  <2>1. Worth(t) = x * y /\ Held(s) + x * y < Room(fast)
    BY <1>2, <1>5 DEF Worth
  <2>2. CASE asm
    <3>1. Added(s, t, asm) = adc(s, x * y, fast)
      BY <1>2, <1>5, <2>2 DEF Added, adc_mul
    <3> QED
      BY <1>3, <1>4, <2>1, <3>1, AdcRight, ZenonT(60)
  <2>3. CASE ~asm
    <3>1. Added(s, t, asm) = muladd(s, x, y, fast)
      BY <1>2, <1>5, <2>3 DEF Added
    <3>2. x \in 0..(B - 1) /\ y \in 0..(B - 1) /\ fast \in BOOLEAN /\ Held(s) + x * y < Room(fast)
      BY <1>3, <2>1
    <3>3. PICK r : r = muladd(s, x, y, fast)
      OBVIOUS
    <3>4. r \in Accs /\ r.ok /\ Held(r) = Held(s) + x * y
      BY ONLY <3>2, <3>3, LimbsFit, s \in Accs, s.ok, MuladdRight
    <3> QED
      BY <2>1, <3>1, <3>3, <3>4, Zenon
  <2> QED
    BY <2>2, <2>3
<1>6. CASE t.op = "muladd2"
  <2>1. Worth(t) = x * y + x * y /\ Held(s) + (x * y + x * y) < Room(FALSE)
    BY <1>1, <1>2, <1>6, Zenon DEF Worth
  <2>2. CASE asm
    <3>1. Added(s, t, asm) = adc(adc(s, x * y, FALSE), x * y, FALSE)
      BY <1>2, <1>6, <2>2 DEF Added, adc_mul2
    <3>a. PICK p \in Nat, h \in Nat : p = x * y /\ h = Held(s)
      BY <1>4, Zenon
    <3>b. PICK m : m = Room(FALSE)
      BY Zenon
    <3>2. p = x * y /\ h = Held(s) /\ m = Room(FALSE)
      BY <3>a, <3>b, Zenon
    <3>3. m \in Nat
      <4>1. PICK b \in Nat : b = B
        BY Sizes
      <4>2. (b * b) * b \in Nat
        OBVIOUS
      <4> QED
        BY <3>2, <4>1, <4>2 DEF Room
    <3>4. h + p < m /\ (h + p) + p < m /\ (h + p) + p = h + (p + p)
      <4>1. h + (p + p) < m
        BY <2>1, <3>2, Zenon
      <4> QED
        BY ONLY <3>3, <4>1, p \in Nat, h \in Nat
    <3>5. PICK r : r = adc(s, p, FALSE)
      BY Zenon
    <3>6. r \in Accs /\ r.ok /\ Held(r) = h + p
      <4>1. Held(s) + p < Room(FALSE)
        BY ONLY <3>2, <3>4, Zenon
      <4> QED
        BY <3>2, <3>5, <4>1, AdcRight, Zenon
    <3>7. PICK q : q = adc(r, p, FALSE)
      BY Zenon
    <3>8. q \in Accs /\ q.ok /\ Held(q) = (h + p) + p
      <4>1. Held(r) + p < Room(FALSE)
        BY ONLY <3>2, <3>4, <3>6, Zenon
      <4> QED
        BY <3>6, <3>7, <4>1, AdcRight, Zenon
    <3> QED
      BY <2>1, <3>1, <3>2, <3>4, <3>5, <3>7, <3>8, Zenon
  <2>3. CASE ~asm
    <3>1. Added(s, t, asm) = muladd2(s, x, y)
      BY <1>2, <1>6, <2>3 DEF Added
    <3>2. x \in 0..(B - 1) /\ y \in 0..(B - 1) /\ fast \in BOOLEAN /\ Held(s) + (x * y + x * y) < Room(FALSE)
      BY <1>3, <2>1, Zenon
    <3>3. PICK r : r = muladd2(s, x, y)
      OBVIOUS
    <3>4. r \in Accs /\ r.ok /\ Held(r) = Held(s) + (x * y + x * y)
      BY ONLY <3>2, <3>3, LimbsFit, s \in Accs, s.ok, Muladd2Right, Zenon
    <3> QED
      BY <2>1, <3>1, <3>3, <3>4, Zenon
  <2> QED
    BY <2>2, <2>3
<1>7. CASE t.op = "sumadd"
  <2>1. Worth(t) = x /\ Held(s) + x < Room(fast)
    BY <1>2, <1>7 DEF Worth
  <2>2. CASE asm
    <3>1. Added(s, t, asm) = adc(s, x, fast)
      BY <1>2, <1>7, <2>2 DEF Added
    <3> QED
      BY <1>3, <1>4, <2>1, <3>1, AdcRight, Zenon
  <2>3. CASE ~asm
    <3>1. Added(s, t, asm) = sumadd(s, x, fast)
      BY <1>2, <1>7, <2>3 DEF Added
    <3> QED
      BY <1>3, <2>1, <3>1, SumaddRight, Zenon
  <2> QED
    BY <2>2, <2>3
<1>8. CASE t.op = "none"
  <2>1. Worth(t) = 0 /\ Added(s, t, asm) = s
    BY <1>8 DEF Worth, Added
  <2> QED
    BY <1>4, <2>1
<1> QED
  BY <1>1, <1>5, <1>6, <1>7, <1>8, Zenon

\* v[i] is what the first i of n terms are worth.
IsWorth(v, terms, n) ==
    v \in [0..n -> Nat] /\ v[0] = 0 /\ \A i \in 0..(n - 1) : v[i + 1] = v[i] + Worth(terms[i])

\* n terms of a column; a fast form of a product that is there twice is not used.
AreTerms(terms, n) ==
    \A i \in 0..(n - 1) : terms[i] \in Terms /\ (terms[i].op = "muladd2" => ~terms[i].fast)

\* The terms have such sums.
LEMMA WorthExists ==
    ASSUME LimbsFit, NEW n \in Nat, NEW terms, AreTerms(terms, n)
    PROVE  \E v : IsWorth(v, terms, n)
<1> DEFINE G == [p \in Nat \X Nat |-> IF p[1] - 1 \in 0..(n - 1) THEN p[2] + Worth(terms[p[1] - 1]) ELSE 0]
<1>1. G \in [Nat \X Nat -> Nat]
  <2>1. ASSUME NEW p \in Nat \X Nat, p[1] - 1 \in 0..(n - 1)
        PROVE  p[2] + Worth(terms[p[1] - 1]) \in Nat
    <3>1. terms[p[1] - 1] \in Terms
      BY <2>1 DEF AreTerms
    <3>2. Worth(terms[p[1] - 1]) \in Nat
      BY <3>1, WorthNat, Zenon
    <3> QED
      BY <3>2
  <2> QED
    BY <2>1
<1>2. PICK f \in [0..n -> Nat] : f[0] = 0 /\ \A k \in 1..n : f[k] = G[<<k, f[k - 1]>>]
  <2> HIDE DEF G
  <2> PICK b, T : b = 0 /\ T = Nat
    BY Zenon
  <2>1. b \in T /\ G \in [Nat \X T -> T]
    BY <1>1
  <2>2. \E f : Recurs(f, T, b, G, n)
    BY ONLY n \in Nat, <2>1, TypedRecursion, Zenon
  <2> QED
    BY <2>2, Zenon DEF Recurs
<1>3. ASSUME NEW i \in 0..(n - 1)
      PROVE  f[i + 1] = f[i] + Worth(terms[i])
  <2>1. i + 1 \in 1..n /\ (i + 1) - 1 = i /\ f[i] \in Nat /\ i + 1 \in Nat
    BY <1>2
  <2> QED
    BY <1>2, <2>1, Zenon
<1> QED
  BY <1>2, <1>3 DEF IsWorth

\* The accumulator has room for each of the terms after those before it.
HasRoom(s, v, terms, n) == \A i \in 0..(n - 1) : Held(s) + v[i + 1] < Room(terms[i].fast)

\* The sums of a column, as long as they are accumulators.
Follows(g, s, terms, n, asm) ==
    /\ g[0] = s
    /\ \A i \in 0..(n - 1) :
          Added(g[i], terms[i], asm) \in Accs => g[i + 1] = Added(g[i], terms[i], asm)

\* Where there is room, the accumulator is right after every term.
LEMMA FollowsRight ==
    ASSUME LimbsFit, NEW s \in Accs, s.ok, NEW n \in Nat, NEW terms, AreTerms(terms, n),
           NEW asm \in BOOLEAN, NEW v, IsWorth(v, terms, n),
           HasRoom(s, v, terms, n), NEW g, Follows(g, s, terms, n, asm)
    PROVE  \A i \in 0..n : g[i] \in Accs /\ g[i].ok /\ Held(g[i]) = Held(s) + v[i]
<1> DEFINE S == {i \in 0..n : g[i] \in Accs /\ g[i].ok /\ Held(g[i]) = Held(s) + v[i]}
<1>1. 0 \in S
  <2>1. Held(s) \in Nat
    BY AccParts
  <2>2. g[0] = s /\ v[0] = 0
    BY DEF Follows, IsWorth
  <2> QED
    BY <2>1, <2>2
<1>2. ASSUME NEW i \in 0..(n - 1), i \in S
      PROVE  i + 1 \in S
  <2>1. /\ g[i] \in Accs /\ g[i].ok /\ Held(g[i]) = Held(s) + v[i] /\ i + 1 \in 0..n
        /\ v[i] \in Nat /\ v[i + 1] = v[i] + Worth(terms[i])
        /\ terms[i] \in Terms /\ (terms[i].op = "muladd2" => ~terms[i].fast)
    BY <1>2 DEF IsWorth, AreTerms
  <2>2. Worth(terms[i]) \in Nat /\ Held(s) \in Nat
    BY <2>1, WorthNat, AccParts
  <2>3. Held(g[i]) + Worth(terms[i]) = Held(s) + v[i + 1]
    BY <2>1, <2>2
  <2>4. Held(g[i]) + Worth(terms[i]) < Room(terms[i].fast)
    BY <2>3, Zenon DEF HasRoom
  <2>5. PICK r : r = Added(g[i], terms[i], asm)
    OBVIOUS
  <2>6. r \in Accs /\ r.ok /\ Held(r) = Held(g[i]) + Worth(terms[i])
    BY ONLY LimbsFit, asm \in BOOLEAN, <2>1, <2>4, <2>5, AddedRight, Zenon
  <2>7. g[i + 1] = r
    BY ONLY <2>5, <2>6, i \in 0..(n - 1), Follows(g, s, terms, n, asm), Zenon DEF Follows
  <2> QED
    BY <2>1, <2>3, <2>6, <2>7, Zenon
<1>3. \A i \in 0..n : i \in S
  <2> HIDE DEF S
  <2> QED
    BY <1>1, <1>2, UpTo
<1> QED
  BY <1>3

\* sum has the accumulator after each term of a column.
IsColumn(sum, s, terms, n, asm) ==
    sum = [i \in 0..n |-> IF i = 0 THEN s
                          ELSE IF s.ok THEN Added(sum[i - 1], terms[i - 1], asm) ELSE s]

\* The accumulator after the terms of a column, chosen.
LEMMA ColumnChosen ==
    ASSUME NEW s, NEW terms, NEW n, NEW asm
    PROVE  Column(s, terms, n, asm) = (CHOOSE sum : IsColumn(sum, s, terms, n, asm))[n]
  BY Zenon DEF Column, IsColumn

\* The terms of a column are all added.
LEMMA ColumnRight ==
    ASSUME LimbsFit, NEW s \in Accs, s.ok, NEW n \in Nat, NEW terms, AreTerms(terms, n),
           NEW asm \in BOOLEAN, NEW v, IsWorth(v, terms, n),
           HasRoom(s, v, terms, n)
    PROVE  LET r == Column(s, terms, n, asm)
           IN r \in Accs /\ r.ok /\ Held(r) = Held(s) + v[n]
<1> DEFINE Next1(k, x) == Added(x, terms[k - 1], asm)
           G == [p \in Nat \X Accs |-> IF Next1(p[1], p[2]) \in Accs THEN Next1(p[1], p[2]) ELSE p[2]]
<1>1. G \in [Nat \X Accs -> Accs]
  <2> HIDE DEF Next1
  <2> QED
    OBVIOUS
<1>2. PICK f : Recurs(f, Accs, s, G, n)
  <2> HIDE DEF G
  <2> PICK T : T = Accs
    OBVIOUS
  <2>1. s \in T /\ G \in [Nat \X T -> T]
    BY <1>1
  <2>2. \E f : Recurs(f, T, s, G, n)
    BY ONLY n \in Nat, <2>1, TypedRecursion, Zenon
  <2> QED
    BY <2>2
<1>3. f \in [0..n -> Accs] /\ f[0] = s /\ \A k \in 1..n : f[k] = G[<<k, f[k - 1]>>]
  BY <1>2, Zenon DEF Recurs
<1>4. ASSUME NEW i \in 0..(n - 1)
      PROVE  f[i + 1] = IF Added(f[i], terms[i], asm) \in Accs THEN Added(f[i], terms[i], asm) ELSE f[i]
  <2>1. i + 1 \in 1..n /\ (i + 1) - 1 = i /\ f[i] \in Accs /\ i + 1 \in Nat
    BY <1>3
  <2>2. f[i + 1] = G[<<i + 1, f[i]>>]
    BY <1>3, <2>1, Zenon
  <2>3. G[<<i + 1, f[i]>>] = IF Next1(i + 1, f[i]) \in Accs THEN Next1(i + 1, f[i]) ELSE f[i]
    <3> HIDE DEF Next1
    <3> QED
      BY <2>1
  <2>4. Next1(i + 1, f[i]) = Added(f[i], terms[i], asm)
    BY <2>1
  <2> QED
    BY <2>2, <2>3, <2>4, Zenon
<1> HIDE DEF G
<1>5. Follows(f, s, terms, n, asm)
  BY <1>3, <1>4, Zenon DEF Follows
<1>6. \A i \in 0..n : f[i] \in Accs /\ f[i].ok /\ Held(f[i]) = Held(s) + v[i]
  BY ONLY <1>5, LimbsFit, s \in Accs, s.ok, n \in Nat, AreTerms(terms, n), asm \in BOOLEAN,
          IsWorth(v, terms, n), HasRoom(s, v, terms, n), FollowsRight
<1>7. \A i \in 0..n : f[i] = IF i = 0 THEN s ELSE IF s.ok THEN Added(f[i - 1], terms[i - 1], asm) ELSE s
  <2> SUFFICES ASSUME NEW i \in 0..n, i # 0
               PROVE  f[i] = Added(f[i - 1], terms[i - 1], asm)
    BY <1>3, Zenon
  <2>1. PICK j \in 0..(n - 1) : j = i - 1 /\ j + 1 = i
    <3>1. i - 1 \in 0..(n - 1) /\ (i - 1) + 1 = i
      OBVIOUS
    <3> QED
      BY <3>1
  <2>2. Added(f[j], terms[j], asm) \in Accs
    <3>1. f[j] \in Accs /\ f[j].ok /\ Held(f[j]) = Held(s) + v[j]
      BY <1>6, <2>1
    <3>2. terms[j] \in Terms /\ (terms[j].op = "muladd2" => ~terms[j].fast)
      BY DEF AreTerms
    <3>3. v[j + 1] = v[j] + Worth(terms[j]) /\ v[j] \in Nat
      <4>1. j \in 0..n
        OBVIOUS
      <4> QED
        BY <4>1 DEF IsWorth
    <3>4. Held(s) \in Nat /\ Worth(terms[j]) \in Nat
      BY <3>2, AccParts, WorthNat
    <3>5. Held(f[j]) + Worth(terms[j]) = Held(s) + v[j + 1]
      BY <3>1, <3>3, <3>4
    <3>6. Held(f[j]) + Worth(terms[j]) < Room(terms[j].fast)
      BY <3>5, Zenon DEF HasRoom
    <3> QED
      BY ONLY LimbsFit, asm \in BOOLEAN, <3>1, <3>2, <3>6, AddedRight, Zenon
  <2> QED
    BY <1>4, <2>1, <2>2, Zenon
<1>8. IsColumn(f, s, terms, n, asm)
  <2>1. f = [i \in 0..n |-> f[i]]
    BY <1>3
  <2> QED
    BY <1>7, <2>1, Zenon DEF IsColumn
<1>9. PICK g : g = CHOOSE sum : IsColumn(sum, s, terms, n, asm)
  OBVIOUS
<1>10. IsColumn(g, s, terms, n, asm)
  BY <1>8, <1>9, Zenon
<1>11. \A i \in 0..n : g[i] = IF i = 0 THEN s ELSE IF s.ok THEN Added(g[i - 1], terms[i - 1], asm) ELSE s
  BY <1>10, Zenon DEF IsColumn
<1>12. Follows(g, s, terms, n, asm)
  <2>1. g[0] = s
    BY <1>11
  <2>2. ASSUME NEW i \in 0..(n - 1)
        PROVE  g[i + 1] = Added(g[i], terms[i], asm)
    <3>1. i + 1 \in 0..n /\ i + 1 # 0 /\ (i + 1) - 1 = i
      OBVIOUS
    <3> QED
      BY <1>11, <3>1
  <2> QED
    BY <2>1, <2>2, Zenon DEF Follows
<1>13. \A i \in 0..n : g[i] \in Accs /\ g[i].ok /\ Held(g[i]) = Held(s) + v[i]
  BY ONLY <1>12, LimbsFit, s \in Accs, s.ok, n \in Nat, AreTerms(terms, n), asm \in BOOLEAN,
          IsWorth(v, terms, n), HasRoom(s, v, terms, n), FollowsRight
<1>14. n \in 0..n
  OBVIOUS
<1> QED
  BY <1>9, <1>13, <1>14, ColumnChosen, Zenon

\* Terms are worth no less when there are more of them.
LEMMA WorthGrows ==
    ASSUME LimbsFit, NEW n \in Nat, NEW terms, AreTerms(terms, n), NEW v, IsWorth(v, terms, n)
    PROVE  \A i \in 0..n : v[i] \in Nat /\ v[i] <= v[n]
<1>1. v \in [0..n -> Nat] /\ \A i \in 0..(n - 1) : v[i + 1] = v[i] + Worth(terms[i])
  BY DEF IsWorth
<1> DEFINE S == {j \in 0..n : v[n - j] <= v[n]}
<1>2. 0 \in S
  BY <1>1
<1>3. ASSUME NEW j \in 0..(n - 1), j \in S
      PROVE  j + 1 \in S
  <2>1. PICK i \in 0..(n - 1) : i = n - (j + 1) /\ i + 1 = n - j
    <3>1. n - (j + 1) \in 0..(n - 1) /\ (n - (j + 1)) + 1 = n - j
      OBVIOUS
    <3> QED
      BY <3>1
  <2>2. terms[i] \in Terms
    BY DEF AreTerms
  <2>3. Worth(terms[i]) \in Nat
    BY <2>2, WorthNat, Zenon
  <2>4. v[i] \in Nat /\ v[n] \in Nat /\ v[i + 1] \in Nat /\ j + 1 \in 0..n
    BY <1>1
  <2>5. v[i + 1] = v[i] + Worth(terms[i])
    BY <1>1
  <2>6. v[i + 1] <= v[n]
    BY <1>3, <2>1
  <2> QED
    BY <2>1, <2>3, <2>4, <2>5, <2>6
<1>4. \A j \in 0..n : j \in S
  <2> HIDE DEF S
  <2> QED
    BY <1>2, <1>3, UpTo
<1> QED
  <2> TAKE i \in 0..n
  <2>1. n - i \in 0..n /\ n - (n - i) = i
    OBVIOUS
  <2> QED
    BY <1>1, <1>4, <2>1, Zenon

\* What a column holds with a part that was carried to it.
LEMMA ColumnBound ==
    ASSUME NEW b \in Nat, b >= 4, NEW l \in Nat, l <= b, NEW h \in Nat, NEW v \in Nat,
           h <= l * (b - 1), v <= l * ((b - 1) * (b - 1))
    PROVE  h + v <= (l * (b - 1)) * b /\ h + v < (b * b) * b
<1>1. PICK m \in Nat : m = b - 1
  OBVIOUS
<1>2. l * m + l * (m * m) = (l * m) * (m + 1)
  OBVIOUS
<1>3. l * m <= b * m
  BY TimesMonotone
<1>4. PICK x \in Nat, y \in Nat : x = l * m /\ y = b * m
  OBVIOUS
<1>5. x * b <= y * b
  BY <1>3, <1>4, TimesMonotone
<1>6. (b * m) * b < (b * b) * b
  <2>1. (b * b) * b = (b * m) * b + b * b
    <3>1. (b * (m + 1)) * b = (b * m) * b + b * b
      OBVIOUS
    <3>2. b = m + 1
      BY <1>1
    <3> QED
      BY <3>1, <3>2
  <2>2. b * b > 0 /\ b * b \in Nat /\ (b * m) * b \in Nat
    OBVIOUS
  <2> QED
    BY <2>1, <2>2
<1>7. m + 1 = b
  BY <1>1
<1>8. h + v <= x * b
  <2>1. h <= l * m /\ v <= l * (m * m)
    BY <1>1
  <2>2. PICK z \in Nat : z = l * (m * m)
    OBVIOUS
  <2>3. x + z = x * b
    BY <1>2, <1>4, <1>7, <2>2
  <2> QED
    BY <1>4, <2>1, <2>2, <2>3
<1>9. x * b \in Nat /\ y * b \in Nat /\ y * b < (b * b) * b /\ (b * b) * b \in Nat
  BY <1>4, <1>6
<1>10. h + v <= x * b /\ h + v < (b * b) * b
  BY <1>5, <1>8, <1>9
<1> QED
  BY <1>1, <1>4, <1>10

\* What is carried on is at most what was there, a place lower.
LEMMA CarriedOn ==
    ASSUME NEW b \in Nat, b >= 1, NEW c \in Nat, NEW h \in Nat, NEW x \in Nat
    PROVE  /\ c + b * h <= x * b => h <= x
           /\ c + b * h < x * b => h < x
<1>1. h >= x + 1 => (x + 1) * b <= h * b
  BY TimesMonotone
<1>2. h >= x => x * b <= h * b
  BY TimesMonotone
<1>3. (x + 1) * b = x * b + b /\ h * b = b * h
  OBVIOUS
<1>4. PICK p \in Nat, q \in Nat : p = x * b /\ q = b * h
  OBVIOUS
<1> QED
  BY <1>1, <1>2, <1>3, <1>4

\* A limb is taken out of an accumulator.
LEMMA ExtractRight ==
    ASSUME LimbsFit, NEW s \in Accs, s.ok, NEW fast \in BOOLEAN, fast => Held(s) < B * B
    PROVE  LET r == extract(s, fast)
           IN /\ r \in Accs /\ r.ok /\ r.c2 = 0 /\ (fast => r.c1 = 0)
              /\ Held(s) = s.c0 + B * Held(r)
<1>1. /\ s.c0 \in 0..(B - 1) /\ s.c1 \in 0..(B - 1) /\ s.c2 \in 0..(B - 1)
      /\ B \in Nat /\ B >= 4
  BY AccParts
<1>2. fast => s.c2 = 0
  BY FastHeld
<1>3. PICK r : r = extract(s, fast)
  OBVIOUS
<1>4. r = [c0 |-> s.c1, c1 |-> s.c2, c2 |-> 0, ok |-> TRUE]
  BY <1>2, <1>3, Zenon DEF extract
<1>5. r.c0 = s.c1 /\ r.c1 = s.c2 /\ r.c2 = 0 /\ r.ok = TRUE
  BY ONLY <1>4
<1>6. r \in Accs
  BY <1>1, <1>4 DEF Accs
<1>7. Held(s) = s.c0 + B * Held(r)
  <2>1. PICK b \in Nat, x \in Nat, y \in Nat, z \in Nat : b = B /\ x = s.c0 /\ y = s.c1 /\ z = s.c2
    BY <1>1
  <2>2. x + b * y + (b * b) * z = x + b * (y + b * z + (b * b) * 0)
    OBVIOUS
  <2> QED
    BY <1>5, <2>1, <2>2, Zenon DEF Held
<1> QED
  BY <1>2, <1>3, <1>5, <1>6, <1>7, Zenon

\* What the columns 0 to last have to be: V[k][i] is what the first i terms of
\* column k are worth, T[k] what all of its n terms are.
TermsFit(last, terms, n, V, T) ==
    \A k \in 0..last : /\ AreTerms(terms[k], n) /\ IsWorth(V[k], terms[k], n) /\ T[k] = V[k][n]
                       /\ T[k] <= L * ((B - 1) * (B - 1))
\* Fast terms are in the first column and in the last, and one limb in column 1.
FastFit(last, terms, n) ==
    \A k \in 0..last : \A i \in 0..(n - 1) :
        terms[k][i].fast => k \in {0, last} \/ (k = 1 /\ i = 0 /\ Worth(terms[k][i]) <= B - 1)
ColumnsFit(c0, last, terms, n, V, T) ==
    /\ last \in Nat /\ last >= 1 /\ n \in Nat /\ c0 \in 0..(B - 1)
    /\ TermsFit(last, terms, n, V, T) /\ FastFit(last, terms, n)
    /\ c0 + T[0] < B * B
    /\ c0 + Number(T, last + 1) < Place(last + 2)

\* The columns done, and the next one.
ColStates(last) == [over : Accs, limb : [0..last -> 0..(B - 1)]]
NextColumn(d, k, last, terms, n, asm) ==
    LET s == Column(d.over, terms[k], n, asm)
    IN [over |-> extract(s, k \in {0, last}), limb |-> [d.limb EXCEPT ![k] = s.c0]]
ColumnsInv(d, k, c0, last, T) ==
    /\ d \in ColStates(last) /\ d.over.ok /\ d.over.c2 = 0 /\ (k = last + 1 => d.over.c1 = 0)
    /\ Held(d.over) <= L * (B - 1) /\ (k <= 1 => Held(d.over) <= B - 1)
    /\ Number(d.limb, k) + Held(d.over) * Place(k) = c0 + Number(T, k)

\* The worths of the columns are numbers.
LEMMA TopsNat ==
    ASSUME LimbsFit, NEW c0, NEW last, NEW terms, NEW n, NEW V, NEW T, ColumnsFit(c0, last, terms, n, V, T)
    PROVE  /\ \A k \in 0..last : /\ T[k] \in Nat /\ T[k] = V[k][n] /\ AreTerms(terms[k], n)
                                 /\ IsWorth(V[k], terms[k], n) /\ T[k] <= L * ((B - 1) * (B - 1))
           /\ last \in Nat /\ last >= 1 /\ n \in Nat /\ c0 \in 0..(B - 1) /\ c0 \in Nat
           /\ IntLimbs(T, last + 1)
<1>1. last \in Nat /\ last >= 1 /\ n \in Nat /\ c0 \in 0..(B - 1)
  BY Zenon DEF ColumnsFit
<1>2. ASSUME NEW k \in 0..last
      PROVE  /\ T[k] \in Nat /\ T[k] = V[k][n] /\ AreTerms(terms[k], n)
             /\ IsWorth(V[k], terms[k], n) /\ T[k] <= L * ((B - 1) * (B - 1))
  <2>1. /\ AreTerms(terms[k], n) /\ IsWorth(V[k], terms[k], n) /\ T[k] = V[k][n]
        /\ T[k] <= L * ((B - 1) * (B - 1))
    BY Zenon DEF ColumnsFit, TermsFit
  <2>2. V[k][n] \in Nat
    BY <1>1, <2>1 DEF IsWorth
  <2> QED
    BY <2>1, <2>2
<1>3. IntLimbs(T, last + 1)
  BY <1>1, <1>2 DEF IntLimbs
<1>4. c0 \in Nat
  BY <1>1, Sizes
<1> QED
  BY <1>1, <1>2, <1>3, <1>4, Zenon

\* The numbers of the first limbs of what is not negative grow.
LEMMA NumberGrows ==
    ASSUME LimbsFit, NEW n \in Nat, NEW T, \A k \in 0..(n - 1) : T[k] \in Nat
    PROVE  \A k \in 0..n : Number(T, k) \in Nat /\ Number(T, k) <= Number(T, n)
<1>1. IntLimbs(T, n)
  BY DEF IntLimbs
<1>2. ASSUME NEW k \in 0..(n - 1)
      PROVE  /\ k \in Nat /\ Number(T, k + 1) = Number(T, k) + T[k] * Place(k) /\ T[k] * Place(k) \in Nat
             /\ Number(T, k) \in Int
  <2>1. IntLimbs(T, k + 1) /\ k \in Nat
    BY <1>1 DEF IntLimbs
  <2>2. PICK t \in Nat, p \in Nat : t = T[k] /\ p = Place(k)
    <3>1. T[k] \in Nat /\ Place(k) \in Nat
      BY <2>1, Places
    <3> QED
      BY <3>1
  <2>3. t * p \in Nat
    OBVIOUS
  <2> QED
    BY <2>1, <2>2, <2>3, NumberStep
<1> DEFINE S == {k \in 0..n : Number(T, k) \in Nat}
<1>3. \A k \in 0..n : k \in S
  <2>1. 0 \in S
    BY NumberZero
  <2>2. ASSUME NEW k \in 0..(n - 1), k \in S
        PROVE  k + 1 \in S
    <3>1. Number(T, k) \in Nat /\ k + 1 \in 0..n
      BY <2>2
    <3>2. PICK x \in Nat : x = T[k] * Place(k)
      BY <1>2
    <3> QED
      BY <1>2, <3>1, <3>2
  <2> HIDE DEF S
  <2> QED
    BY <2>1, <2>2, UpTo
<1> DEFINE R == {j \in 0..n : Number(T, n - j) <= Number(T, n)}
<1>4. \A j \in 0..n : j \in R
  <2>1. 0 \in R
    BY <1>3
  <2>2. ASSUME NEW j \in 0..(n - 1), j \in R
        PROVE  j + 1 \in R
    <3>1. PICK i \in 0..(n - 1) : i = n - (j + 1) /\ i + 1 = n - j
      <4>1. n - (j + 1) \in 0..(n - 1) /\ (n - (j + 1)) + 1 = n - j
        OBVIOUS
      <4> QED
        BY <4>1
    <3>2. PICK x \in Nat, y \in Nat, z \in Nat : x = T[i] * Place(i) /\ y = Number(T, i) /\ z = Number(T, n)
      BY <1>2, <1>3
    <3>3. Number(T, i + 1) = y + x /\ Number(T, i + 1) <= z
      BY <1>2, <2>2, <3>1, <3>2
    <3> QED
      BY <3>1, <3>2, <3>3
  <2> HIDE DEF R
  <2> QED
    BY <2>1, <2>2, UpTo
<1> QED
  <2> TAKE k \in 0..n
  <2>1. n - k \in 0..n /\ n - (n - k) = k
    OBVIOUS
  <2> QED
    BY <1>3, <1>4, <2>1, Zenon

\* The parts of the invariant.
LEMMA InvParts ==
    ASSUME LimbsFit, NEW last \in Nat, NEW k \in 0..(last + 1), NEW c0, NEW T, NEW d,
           ColumnsInv(d, k, c0, last, T)
    PROVE  /\ d.over \in Accs /\ d.over.ok /\ d.over.c2 = 0 /\ Held(d.over) \in Nat
           /\ d.limb \in [0..last -> 0..(B - 1)]
           /\ Limbs(d.limb, k) /\ Number(d.limb, k) \in Nat
<1>1. d \in ColStates(last) /\ d.over.ok /\ d.over.c2 = 0
  BY Zenon DEF ColumnsInv
<1>2. d.over \in Accs /\ d.limb \in [0..last -> 0..(B - 1)]
  BY <1>1 DEF ColStates
<1>3. k \in Nat /\ 0..(k - 1) \subseteq 0..last
  OBVIOUS
<1>4. Limbs(d.limb, k)
  BY <1>2, <1>3 DEF Limbs
<1>5. Number(d.limb, k) \in Nat
  BY <1>3, <1>4, NumberBound
<1>6. Held(d.over) \in Nat
  BY <1>2, AccParts
<1> QED
  BY <1>1, <1>2, <1>4, <1>5, <1>6

\* A column has room for its terms.
LEMMA ColumnRoom ==
    ASSUME LimbsFit, NEW c0, NEW last, NEW terms, NEW n, NEW V, NEW T, ColumnsFit(c0, last, terms, n, V, T),
           NEW k \in 0..last, NEW d, ColumnsInv(d, k, c0, last, T)
    PROVE  /\ HasRoom(d.over, V[k], terms[k], n)
           /\ k \in {0, last} => Held(d.over) + T[k] < B * B
           /\ Held(d.over) + T[k] <= (L * (B - 1)) * B
<1>1. /\ T[k] \in Nat /\ T[k] = V[k][n] /\ AreTerms(terms[k], n)
      /\ IsWorth(V[k], terms[k], n) /\ T[k] <= L * ((B - 1) * (B - 1))
      /\ last \in Nat /\ last >= 1 /\ n \in Nat /\ c0 \in Nat /\ IntLimbs(T, last + 1)
  BY TopsNat
<1>2. Held(d.over) \in Nat /\ Number(d.limb, k) \in Nat /\ k \in Nat
  BY <1>1, InvParts
<1>3. PICK h \in Nat, t \in Nat, b \in Nat, l \in Nat :
          h = Held(d.over) /\ t = T[k] /\ b = B /\ l = L /\ b >= 4 /\ l <= b
  <2>1. L <= B
    BY Zenon DEF LimbsFit
  <2>2. L \in Nat /\ B \in Nat /\ B >= 4
    BY Sizes
  <2> QED
    BY <1>1, <1>2, <2>1, <2>2
<1>4. /\ h <= L * (B - 1) /\ (k <= 1 => h <= B - 1)
      /\ Number(d.limb, k) + h * Place(k) = c0 + Number(T, k)
  BY <1>3, Zenon DEF ColumnsInv
<1>5. h <= l * (b - 1) /\ t <= l * ((b - 1) * (b - 1))
  BY <1>1, <1>3, <1>4, Zenon
<1>6. h + t <= (l * (b - 1)) * b /\ h + t < (b * b) * b
  BY ONLY <1>3, <1>5, h \in Nat, t \in Nat, b \in Nat, l \in Nat, ColumnBound
<1>7. k = 0 => h + t < b * b
  <2> SUFFICES ASSUME k = 0
               PROVE  h + t < b * b
    OBVIOUS
  <2>1. c0 + T[0] < B * B
    BY Zenon DEF ColumnsFit
  <2>2. Number(d.limb, 0) = 0 /\ Number(T, 0) = 0 /\ Place(0) = 1
    BY NumberZero, FirstPlaces
  <2>3. h * Place(k) = h
    BY <2>2
  <2>4. h = c0
    BY <1>1, <1>4, <2>2, <2>3
  <2> QED
    BY <1>3, <2>1, <2>4
<1>8. k = last => h + t < b * b
  <2> SUFFICES ASSUME k = last
               PROVE  h + t < b * b
    OBVIOUS
  <2>1. c0 + Number(T, k + 1) < Place(k + 2)
    BY Zenon DEF ColumnsFit
  <2>2. Number(T, k + 1) = Number(T, k) + T[k] * Place(k) /\ Number(T, k) \in Int
    <3>1. IntLimbs(T, k + 1)
      BY <1>1
    <3> QED
      BY <1>2, <3>1, NumberStep
  <2>3. Place(k + 2) = B * (B * Place(k)) /\ Place(k) \in Nat /\ Place(k) >= 1
    <3>1. k + 1 \in Nat /\ (k + 1) + 1 = k + 2
      BY <1>2
    <3> QED
      BY <1>2, <3>1, Places
  <2>4. PICK p \in Nat, x \in Nat, y \in Int : p = Place(k) /\ x = Number(d.limb, k) /\ y = Number(T, k) /\ p >= 1
    BY <1>2, <2>2, <2>3
  <2>5. PICK u \in Nat, v \in Nat, w \in Nat : u = h * p /\ v = t * p /\ w = b * (b * p)
    OBVIOUS
  <2>6. x + u = c0 + y /\ c0 + (y + v) < w
    BY <1>3, <1>4, <2>1, <2>2, <2>3, <2>4, <2>5, Zenon
  <2>7. u + v < w
    BY <1>1, <2>6
  <2>8. 0 + p * (h + t) < (b * b) * p
    <3>1. p * (h + t) = u + v /\ (b * b) * p = w
      <4>1. p * (h + t) = h * p + t * p /\ (b * b) * p = b * (b * p)
        OBVIOUS
      <4> QED
        BY <2>5, <4>1
    <3> QED
      BY <2>7, <3>1
  <2>9. b * b \in Nat /\ h + t \in Nat /\ 0 \in Nat
    OBVIOUS
  <2> QED
    BY ONLY <2>4, <2>8, <2>9, p \in Nat, CarriedOn
<1>9. HasRoom(d.over, V[k], terms[k], n)
  <2> SUFFICES ASSUME NEW i \in 0..(n - 1)
               PROVE  Held(d.over) + V[k][i + 1] < Room(terms[k][i].fast)
    BY DEF HasRoom
  <2>1. V[k][i + 1] \in Nat /\ V[k][i + 1] <= t
    <3>1. \A j \in 0..n : V[k][j] \in Nat /\ V[k][j] <= V[k][n]
      BY <1>1, WorthGrows
    <3>2. i + 1 \in 0..n
      BY <1>1
    <3> QED
      BY <1>1, <1>3, <3>1, <3>2
  <2>2. PICK y \in Nat : y = V[k][i + 1] /\ y <= t
    BY <2>1
  <2>3. terms[k][i].fast \in BOOLEAN
    <3>1. terms[k][i] \in Terms
      BY <1>1 DEF AreTerms
    <3> QED
      BY <3>1, WorthNat
  <2>4. CASE ~terms[k][i].fast
    <3>1. Room(terms[k][i].fast) = (b * b) * b
      BY <1>3, <2>4 DEF Room
    <3>2. PICK z \in Nat : z = (b * b) * b
      OBVIOUS
    <3>3. h + y < z
      BY <1>6, <2>2, <3>2
    <3> QED
      BY <1>3, <2>2, <3>1, <3>2, <3>3
  <2>5. CASE terms[k][i].fast
    <3>1. Room(terms[k][i].fast) = b * b
      BY <1>3, <2>5 DEF Room
    <3>2. k \in {0, last} \/ (k = 1 /\ i = 0 /\ Worth(terms[k][i]) <= B - 1)
      BY <2>5, Zenon DEF ColumnsFit, FastFit
    <3>3. PICK z \in Nat : z = b * b
      OBVIOUS
    <3>4. h + y < z
      <4>1. CASE k \in {0, last}
        <5>1. h + t < z
          BY <1>7, <1>8, <3>3, <4>1
        <5> QED
          BY <2>2, <5>1
      <4>2. CASE k = 1 /\ i = 0 /\ Worth(terms[k][i]) <= B - 1
        <5>1. V[k][0] = 0 /\ V[k][0 + 1] = V[k][0] + Worth(terms[k][0])
          BY <1>1, <4>2, Zenon DEF IsWorth
        <5>4. PICK w \in Nat : w = Worth(terms[k][i])
          <6>1. terms[k][i] \in Terms
            BY <1>1 DEF AreTerms
          <6> QED
            BY <6>1, WorthNat
        <5>5. y = 0 + w /\ w <= b - 1
          BY ONLY <1>3, <2>2, <4>2, <5>1, <5>4, Zenon
        <5>6. k <= 1
          BY ONLY <4>2
        <5>7. h <= b - 1
          BY ONLY <1>3, <1>4, <5>6, Zenon
        <5>2. y <= b - 1 /\ h <= b - 1
          BY ONLY <5>5, <5>7, w \in Nat, y \in Nat, h \in Nat, b \in Nat
        <5>3. (b - 1) + (b - 1) < b * b
          BY <1>3
        <5> QED
          BY <3>3, <5>2, <5>3
      <4> QED
        BY <3>2, <4>1, <4>2
    <3> QED
      BY <1>3, <2>2, <3>1, <3>3, <3>4
  <2> QED
    BY <2>3, <2>4, <2>5
<1> QED
  BY <1>3, <1>6, <1>7, <1>8, <1>9, Zenon

\* One column more.
LEMMA ColumnsStep ==
    ASSUME LimbsFit, NEW c0, NEW last, NEW terms, NEW n, NEW V, NEW T, ColumnsFit(c0, last, terms, n, V, T),
           NEW asm \in BOOLEAN, NEW k \in 0..last, NEW d, ColumnsInv(d, k, c0, last, T)
    PROVE  ColumnsInv(NextColumn(d, k, last, terms, n, asm), k + 1, c0, last, T)
<1>1. /\ T[k] \in Nat /\ T[k] = V[k][n] /\ AreTerms(terms[k], n)
      /\ IsWorth(V[k], terms[k], n)
      /\ last \in Nat /\ last >= 1 /\ n \in Nat /\ c0 \in Nat /\ IntLimbs(T, last + 1)
  BY TopsNat
<1>2. /\ d.over \in Accs /\ d.over.ok /\ d.over.c2 = 0 /\ Held(d.over) \in Nat
      /\ d.limb \in [0..last -> 0..(B - 1)]
      /\ Limbs(d.limb, k) /\ Number(d.limb, k) \in Nat
  BY <1>1, InvParts
<1>3. /\ HasRoom(d.over, V[k], terms[k], n)
      /\ k \in {0, last} => Held(d.over) + T[k] < B * B
      /\ Held(d.over) + T[k] <= (L * (B - 1)) * B
  BY ColumnRoom
<1>4. PICK s : s = Column(d.over, terms[k], n, asm)
  OBVIOUS
<1>5. s \in Accs /\ s.ok /\ Held(s) = Held(d.over) + T[k]
  <2>1. PICK o, t, v : o = d.over /\ t = terms[k] /\ v = V[k]
    OBVIOUS
  <2>2. /\ LimbsFit /\ o \in Accs /\ o.ok /\ n \in Nat /\ AreTerms(t, n) /\ asm \in BOOLEAN
        /\ IsWorth(v, t, n) /\ HasRoom(o, v, t, n) /\ s = Column(o, t, n, asm)
    BY <1>1, <1>2, <1>3, <1>4, <2>1
  <2>3. s \in Accs /\ s.ok /\ Held(s) = Held(o) + v[n]
    BY ONLY <2>2, ColumnRight
  <2> QED
    BY <1>1, <2>1, <2>3
<1>6. PICK fast : fast = (k \in {0, last}) /\ fast \in BOOLEAN
  <2>1. CASE k \in {0, last}
    <3>1. (k \in {0, last}) = TRUE
      BY <2>1, Zenon
    <3> QED
      BY <3>1, Zenon
  <2>2. CASE k \notin {0, last}
    <3>1. (k \in {0, last}) = FALSE
      BY <2>2
    <3> QED
      BY <3>1, Zenon
  <2> QED
    BY <2>1, <2>2, Zenon
<1>7. PICK r : r = extract(s, fast)
  OBVIOUS
<1>8. /\ r \in Accs /\ r.ok /\ r.c2 = 0 /\ (fast => r.c1 = 0)
      /\ Held(s) = s.c0 + B * Held(r)
  <2>1. fast => Held(s) < B * B
    BY <1>3, <1>5, <1>6, Zenon
  <2> QED
    BY ONLY LimbsFit, <1>5, <1>6, <1>7, <2>1, ExtractRight, Zenon
<1>9. PICK limb : limb = [d.limb EXCEPT ![k] = s.c0]
  BY Zenon
<1>10. NextColumn(d, k, last, terms, n, asm) = [over |-> r, limb |-> limb]
  BY <1>4, <1>6, <1>7, <1>9, Zenon DEF NextColumn
<1>11. PICK e : e = NextColumn(d, k, last, terms, n, asm)
  OBVIOUS
<1>12. e.over = r /\ e.limb = limb /\ e = [over |-> r, limb |-> limb]
  BY ONLY <1>10, <1>11
<1>13. s.c0 \in 0..(B - 1) /\ s.c0 \in Nat /\ Held(s) \in Nat /\ Held(r) \in Nat /\ B \in Nat /\ B >= 4
  BY <1>5, <1>8, AccParts
<1>14. limb \in [0..last -> 0..(B - 1)] /\ limb[k] = s.c0 /\ \A i \in 0..(k - 1) : limb[i] = d.limb[i]
  <2>1. \A i \in 0..(k - 1) : i \in 0..last /\ i # k
    BY <1>1
  <2> QED
    BY <1>2, <1>9, <1>13, <2>1, Zenon
<1>15. e \in ColStates(last)
  BY <1>8, <1>12, <1>14 DEF ColStates
<1>16. PICK b \in Nat, l \in Nat, c \in Nat, h \in Nat, g \in Nat, t \in Nat :
           /\ b = B /\ l = L /\ c = s.c0 /\ h = Held(r) /\ g = Held(d.over) /\ t = T[k] /\ b >= 4
  BY <1>1, <1>2, <1>13, Sizes, Zenon
<1>17. c + b * h = g + t
  BY <1>5, <1>8, <1>16, Zenon
<1>18. h <= L * (B - 1)
  <2>1. l * (b - 1) \in Nat
    BY <1>16
  <2>2. PICK x \in Nat : x = l * (b - 1)
    BY <2>1
  <2>3. c + b * h <= x * b /\ b >= 1
    BY <1>3, <1>16, <1>17, <2>2
  <2>4. h <= x
    BY ONLY <2>3, b \in Nat, c \in Nat, h \in Nat, x \in Nat, CarriedOn
  <2> QED
    BY <1>16, <2>2, <2>4
<1>19. k + 1 <= 1 => h <= B - 1
  <2> SUFFICES ASSUME k + 1 <= 1
               PROVE  h <= b - 1
    BY <1>16
  <2>1. k = 0
    OBVIOUS
  <2>2. c + b * h < b * b /\ b >= 1
    BY <1>3, <1>16, <1>17, <2>1
  <2>3. h < b
    BY ONLY <2>2, b \in Nat, c \in Nat, h \in Nat, CarriedOn
  <2> QED
    BY <2>3
<1>20. k + 1 = last + 1 => r.c1 = 0
  <2>1. k + 1 = last + 1 => k = last
    BY <1>1
  <2> QED
    BY <1>6, <1>8, <2>1, Zenon
<1>21. Number(limb, k + 1) + h * Place(k + 1) = c0 + Number(T, k + 1)
  <2>1. k \in Nat /\ IntLimbs(T, k + 1)
    BY <1>1 DEF IntLimbs
  <2>2. Number(T, k + 1) = Number(T, k) + T[k] * Place(k) /\ Number(T, k) \in Int
    BY <2>1, NumberStep
  <2>3. IntLimbs(d.limb, k) /\ IntLimbs(limb, k + 1)
    <3>1. k <= k /\ 0..k \subseteq 0..last
      BY ONLY <1>1, k \in 0..last
    <3>2. \A i \in 0..k : limb[i] \in Int
      BY <1>13, <1>14, <3>1
    <3>3. IntLimbs(d.limb, k)
      BY <1>2, <2>1, <3>1, LimbsInt
    <3>4. (k + 1) - 1 = k
      BY <2>1
    <3> QED
      BY <3>2, <3>3, <3>4 DEF IntLimbs
  <2>4. Number(limb, k + 1) = Number(limb, k) + c * Place(k)
    BY <1>14, <1>16, <2>1, <2>3, NumberStep, Zenon
  <2>5. Number(limb, k) = Number(d.limb, k)
    BY <1>14, <2>1, <2>3, NumberSame, Zenon
  <2>6. Place(k + 1) = b * Place(k) /\ Place(k) \in Nat
    BY <1>16, <2>1, Places
  <2>7. PICK p \in Nat, x \in Nat, y \in Int : p = Place(k) /\ x = Number(d.limb, k) /\ y = Number(T, k)
    BY <1>2, <2>2, <2>6
  <2>8. x + g * p = c0 + y
    BY <1>16, <2>7, Zenon DEF ColumnsInv
  <2>9. c * p + h * (b * p) = g * p + t * p
    <3>1. (c + b * h) * p = c * p + h * (b * p) /\ (g + t) * p = g * p + t * p
      OBVIOUS
    <3> QED
      BY <1>17, <3>1
  <2>10. PICK u \in Nat, v \in Nat, w \in Nat, z \in Nat : u = c * p /\ v = h * (b * p) /\ w = g * p /\ z = t * p
    OBVIOUS
  <2>11. (x + u) + v = c0 + (y + z)
    BY <1>1, <2>8, <2>9, <2>10
  <2> QED
    BY <1>16, <2>2, <2>4, <2>5, <2>6, <2>7, <2>10, <2>11, Zenon
<1>22. ColumnsInv(e, k + 1, c0, last, T)
  BY <1>8, <1>12, <1>15, <1>16, <1>18, <1>19, <1>20, <1>21, Zenon DEF ColumnsInv
<1> QED
  BY <1>11, <1>22

\* The columns, as long as they keep their bounds.
Columned(g, c0, last, terms, n, asm, T) ==
    /\ g[0] = [over |-> Acc(c0), limb |-> [i \in 0..last |-> 0]]
    /\ \A k \in 0..last :
          ColumnsInv(NextColumn(g[k], k, last, terms, n, asm), k + 1, c0, last, T)
             => g[k + 1] = NextColumn(g[k], k, last, terms, n, asm)

\* The bounds hold before the first column.
LEMMA ColumnsBegin ==
    ASSUME LimbsFit, NEW c0, NEW last, NEW terms, NEW n, NEW V, NEW T, ColumnsFit(c0, last, terms, n, V, T)
    PROVE  ColumnsInv([over |-> Acc(c0), limb |-> [i \in 0..last |-> 0]], 0, c0, last, T)
<1>1. last \in Nat /\ last >= 1 /\ c0 \in 0..(B - 1) /\ c0 \in Nat
  BY TopsNat
<1>2. PICK limb : limb = [i \in 0..last |-> 0]
  BY Zenon
<1>3. PICK o : o = [c0 |-> c0, c1 |-> 0, c2 |-> 0, ok |-> TRUE]
  BY Zenon
<1>4. o.c0 = c0 /\ o.c1 = 0 /\ o.c2 = 0 /\ o.ok = TRUE /\ o = Acc(c0)
  BY ONLY <1>3 DEF Acc
<1>5. B \in Nat /\ B >= 4 /\ L \in Nat /\ L >= 4
  BY Sizes
<1>6. o \in Accs /\ limb \in [0..last -> 0..(B - 1)]
  BY ONLY <1>1, <1>2, <1>3, <1>5 DEF Accs
<1>7. Held(o) = c0
  <2>1. PICK b \in Nat : b = B
    BY <1>5
  <2>2. c0 + b * 0 + (b * b) * 0 = c0
    BY <1>1
  <2> QED
    BY <1>4, <2>1, <2>2, Zenon DEF Held
<1>8. PICK d : d = [over |-> o, limb |-> limb]
  BY Zenon
<1>9. d.over = o /\ d.limb = limb /\ d = [over |-> Acc(c0), limb |-> [i \in 0..last |-> 0]]
  BY ONLY <1>2, <1>4, <1>8
<1>10. d \in ColStates(last)
  BY ONLY <1>6, <1>8 DEF ColStates
<1>11. c0 <= L * (B - 1) /\ c0 <= B - 1
  <2>1. PICK m \in Nat, l \in Nat : m = B - 1 /\ l = L /\ l >= 1
    BY <1>5
  <2>2. 1 * m <= l * m
    BY <2>1, TimesMonotone
  <2> QED
    BY <1>1, <2>1, <2>2
<1>12. Number(limb, 0) + c0 * Place(0) = c0 + Number(T, 0)
  <2>1. Number(limb, 0) = 0 /\ Number(T, 0) = 0 /\ Place(0) = 1
    BY NumberZero, FirstPlaces
  <2>2. c0 * Place(0) = c0
    BY <1>1, <2>1
  <2> QED
    BY <1>1, <2>1, <2>2
<1>13. ~(0 = last + 1)
  BY <1>1
<1>14. ColumnsInv(d, 0, c0, last, T)
  BY ONLY <1>4, <1>7, <1>9, <1>10, <1>11, <1>12, <1>13, Zenon DEF ColumnsInv
<1> QED
  BY <1>9, <1>14

\* The bounds hold after every column.
LEMMA ColumnedRight ==
    ASSUME LimbsFit, NEW c0, NEW last, NEW terms, NEW n, NEW V, NEW T, ColumnsFit(c0, last, terms, n, V, T),
           NEW asm \in BOOLEAN, NEW g, Columned(g, c0, last, terms, n, asm, T)
    PROVE  \A k \in 0..(last + 1) : ColumnsInv(g[k], k, c0, last, T)
<1>1. last \in Nat
  BY TopsNat
<1> DEFINE S == {k \in 0..(last + 1) : ColumnsInv(g[k], k, c0, last, T)}
<1>2. 0 \in S
  <2>1. ColumnsInv(g[0], 0, c0, last, T)
    BY ColumnsBegin DEF Columned
  <2> QED
    BY <1>1, <2>1
<1>3. ASSUME NEW k \in 0..((last + 1) - 1), k \in S
      PROVE  k + 1 \in S
  <2>1. k \in 0..last /\ k + 1 \in 0..(last + 1) /\ ColumnsInv(g[k], k, c0, last, T)
    BY <1>1, <1>3
  <2>2. PICK d : d = g[k]
    OBVIOUS
  <2>3. ColumnsInv(NextColumn(d, k, last, terms, n, asm), k + 1, c0, last, T)
    BY <2>1, <2>2, ColumnsStep
  <2>4. g[k + 1] = NextColumn(d, k, last, terms, n, asm)
    BY ONLY <2>1, <2>2, <2>3, Columned(g, c0, last, terms, n, asm, T), Zenon DEF Columned
  <2> QED
    BY <2>1, <2>3, <2>4, Zenon
<1>4. \A k \in 0..(last + 1) : k \in S
  <2>1. last + 1 \in Nat
    BY <1>1
  <2> HIDE DEF S
  <2> QED
    BY <1>2, <1>3, <2>1, UpTo
<1> QED
  BY <1>4

\* done has the accumulator and the limbs after each column.
IsColumns(done, c0, last, terms, n, asm) ==
    done = [k \in 0..(last + 1) |->
               IF k = 0 THEN [over |-> Acc(c0), limb |-> [i \in 0..last |-> 0]]
               ELSE LET before == done[k - 1]
                        s == Column(before.over, terms[k - 1], n, asm)
                    IN [over |-> extract(s, k - 1 \in {0, last}),
                        limb |-> [before.limb EXCEPT ![k - 1] = s.c0]]]

\* The columns, chosen.
LEMMA ColumnsChosen ==
    ASSUME NEW c0, NEW last, NEW terms, NEW n, NEW asm
    PROVE  Columns(c0, last, terms, n, asm) = (CHOOSE done : IsColumns(done, c0, last, terms, n, asm))[last + 1]
  BY Zenon DEF Columns, IsColumns, Extracted

\* The limbs and what is over are the number of the columns.
LEMMA ColumnsRight ==
    ASSUME LimbsFit, NEW c0, NEW last, NEW terms, NEW n, NEW V, NEW T, ColumnsFit(c0, last, terms, n, V, T),
           NEW asm \in BOOLEAN
    PROVE  ColumnsInv(Columns(c0, last, terms, n, asm), last + 1, c0, last, T)
<1>1. last \in Nat
  BY TopsNat
<1> DEFINE D == ColStates(last)
           d0 == [over |-> Acc(c0), limb |-> [i \in 0..last |-> 0]]
           Next1(k, x) == NextColumn(x, k - 1, last, terms, n, asm)
           G == [p \in Nat \X D |-> IF Next1(p[1], p[2]) \in D THEN Next1(p[1], p[2]) ELSE p[2]]
<1>2. G \in [Nat \X D -> D]
  <2> HIDE DEF Next1, D
  <2> QED
    OBVIOUS
<1>3. d0 \in D
  <2>1. ColumnsInv(d0, 0, c0, last, T)
    BY ColumnsBegin
  <2> QED
    BY <2>1, Zenon DEF ColumnsInv
<1>4. PICK f : Recurs(f, D, d0, G, last + 1)
  <2> HIDE DEF G, D, d0
  <2> PICK U, b : U = D /\ b = d0
    OBVIOUS
  <2> PICK m \in Nat : m = last + 1
    BY <1>1
  <2>1. b \in U /\ G \in [Nat \X U -> U]
    BY <1>2, <1>3
  <2>2. \E f : Recurs(f, U, b, G, m)
    BY ONLY m \in Nat, <2>1, TypedRecursion, Zenon
  <2> QED
    BY <2>2
<1>5. f \in [0..(last + 1) -> D] /\ f[0] = d0 /\ \A k \in 1..(last + 1) : f[k] = G[<<k, f[k - 1]>>]
  BY <1>4, Zenon DEF Recurs
<1>6. ASSUME NEW k \in 0..last
      PROVE  f[k + 1] = IF NextColumn(f[k], k, last, terms, n, asm) \in D
                        THEN NextColumn(f[k], k, last, terms, n, asm) ELSE f[k]
  <2>1. k + 1 \in 1..(last + 1) /\ (k + 1) - 1 = k /\ f[k] \in D /\ k + 1 \in Nat
    BY <1>1, <1>5
  <2>2. f[k + 1] = G[<<k + 1, f[k]>>]
    BY <1>5, <2>1, Zenon
  <2>3. G[<<k + 1, f[k]>>] = IF Next1(k + 1, f[k]) \in D THEN Next1(k + 1, f[k]) ELSE f[k]
    <3> HIDE DEF Next1, D
    <3> QED
      BY <2>1
  <2>4. Next1(k + 1, f[k]) = NextColumn(f[k], k, last, terms, n, asm)
    BY <2>1
  <2> QED
    BY <2>2, <2>3, <2>4, Zenon
<1> HIDE DEF G
<1>7. Columned(f, c0, last, terms, n, asm, T)
  <2>1. ASSUME NEW k \in 0..last,
               ColumnsInv(NextColumn(f[k], k, last, terms, n, asm), k + 1, c0, last, T)
        PROVE  f[k + 1] = NextColumn(f[k], k, last, terms, n, asm)
    <3>1. NextColumn(f[k], k, last, terms, n, asm) \in D
      BY <2>1, Zenon DEF ColumnsInv
    <3> QED
      BY <1>6, <3>1, Zenon
  <2> QED
    BY <1>5, <2>1, Zenon DEF Columned
<1>8. \A k \in 0..(last + 1) : ColumnsInv(f[k], k, c0, last, T)
  BY <1>7, ColumnedRight
<1>9. ASSUME NEW k \in 0..last
      PROVE  f[k + 1] = NextColumn(f[k], k, last, terms, n, asm)
  <2>1. k \in 0..(last + 1)
    BY <1>1
  <2>2. ColumnsInv(f[k], k, c0, last, T)
    BY <1>8, <2>1
  <2>3. PICK d : d = f[k]
    OBVIOUS
  <2>4. ColumnsInv(NextColumn(d, k, last, terms, n, asm), k + 1, c0, last, T)
    BY <2>2, <2>3, ColumnsStep
  <2>5. NextColumn(f[k], k, last, terms, n, asm) \in D
    BY <2>3, <2>4, Zenon DEF ColumnsInv
  <2> QED
    BY <1>6, <2>5, Zenon
<1>10. IsColumns(f, c0, last, terms, n, asm)
  <2>1. f = [k \in 0..(last + 1) |-> f[k]]
    BY <1>5
  <2>2. ASSUME NEW k \in 0..(last + 1), k # 0
        PROVE  f[k] = LET before == f[k - 1]
                          s == Column(before.over, terms[k - 1], n, asm)
                      IN [over |-> extract(s, k - 1 \in {0, last}),
                          limb |-> [before.limb EXCEPT ![k - 1] = s.c0]]
    <3>1. PICK j \in 0..last : j = k - 1 /\ j + 1 = k
      <4>1. k - 1 \in 0..last /\ (k - 1) + 1 = k
        BY <1>1, <2>2
      <4> QED
        BY <4>1
    <3>2. f[j + 1] = NextColumn(f[j], j, last, terms, n, asm)
      BY <1>9
    <3> QED
      BY <3>1, <3>2, Zenon DEF NextColumn
  <2>3. \A k \in 0..(last + 1) :
           f[k] = IF k = 0 THEN d0
                  ELSE LET before == f[k - 1]
                           s == Column(before.over, terms[k - 1], n, asm)
                       IN [over |-> extract(s, k - 1 \in {0, last}),
                           limb |-> [before.limb EXCEPT ![k - 1] = s.c0]]
    BY <1>5, <2>2, Zenon
  <2> QED
    BY <2>1, <2>3, Zenon DEF IsColumns
<1>11. PICK g : g = CHOOSE done : IsColumns(done, c0, last, terms, n, asm)
  OBVIOUS
<1>12. IsColumns(g, c0, last, terms, n, asm)
  BY <1>10, <1>11, Zenon
<1>13. Columned(g, c0, last, terms, n, asm, T)
  <2>1. \A k \in 0..(last + 1) :
           g[k] = IF k = 0 THEN d0
                  ELSE LET before == g[k - 1]
                           s == Column(before.over, terms[k - 1], n, asm)
                       IN [over |-> extract(s, k - 1 \in {0, last}),
                           limb |-> [before.limb EXCEPT ![k - 1] = s.c0]]
    BY <1>12, Zenon DEF IsColumns
  <2>2. ASSUME NEW k \in 0..last
        PROVE  g[k + 1] = NextColumn(g[k], k, last, terms, n, asm)
    <3>1. k + 1 \in 0..(last + 1) /\ k + 1 # 0 /\ (k + 1) - 1 = k
      BY <1>1
    <3> QED
      BY <2>1, <3>1, Zenon DEF NextColumn
  <2>3. 0 \in 0..(last + 1)
    BY <1>1
  <2>4. g[0] = d0
    BY <2>1, <2>3, Zenon
  <2> QED
    BY <2>2, <2>4, Zenon DEF Columned
<1>14. \A k \in 0..(last + 1) : ColumnsInv(g[k], k, c0, last, T)
  BY <1>13, ColumnedRight
<1>15. last + 1 \in 0..(last + 1)
  BY <1>1
<1> QED
  BY <1>11, <1>14, <1>15, ColumnsChosen, Zenon

\* The number of the columns, with the limb they leave and what is over.
LEMMA ColumnsTotal ==
    ASSUME LimbsFit, NEW c0, NEW last, NEW terms, NEW n, NEW V, NEW T, ColumnsFit(c0, last, terms, n, V, T),
           NEW asm \in BOOLEAN
    PROVE  LET cs == Columns(c0, last, terms, n, asm)
           IN /\ cs.over.ok /\ cs.over.c1 = 0 /\ cs.over.c2 = 0 /\ cs.over.c0 \in 0..(B - 1)
              /\ cs.limb \in [0..last -> 0..(B - 1)] /\ Limbs(cs.limb, last + 1)
              /\ Number(cs.limb, last + 1) + cs.over.c0 * Place(last + 1) = c0 + Number(T, last + 1)
<1>1. last \in Nat /\ last + 1 \in 0..(last + 1)
  <2>1. last \in Nat
    BY TopsNat
  <2> QED
    BY <2>1
<1>2. PICK cs : cs = Columns(c0, last, terms, n, asm)
  OBVIOUS
<1>3. ColumnsInv(cs, last + 1, c0, last, T)
  BY <1>2, ColumnsRight
<1>4. PICK k \in 0..(last + 1) : k = last + 1
  BY <1>1
<1>5. /\ cs.over \in Accs /\ cs.over.ok /\ cs.over.c2 = 0
      /\ cs.limb \in [0..last -> 0..(B - 1)] /\ Limbs(cs.limb, last + 1)
  <2>1. ColumnsInv(cs, k, c0, last, T)
    BY <1>3, <1>4
  <2> QED
    BY ONLY LimbsFit, <1>1, <1>4, <2>1, InvParts, Zenon
<1>6. cs.over.c1 = 0 /\ Number(cs.limb, last + 1) + Held(cs.over) * Place(last + 1) = c0 + Number(T, last + 1)
  BY <1>3, Zenon DEF ColumnsInv
<1>7. Held(cs.over) = cs.over.c0 /\ cs.over.c0 \in 0..(B - 1)
  <2>1. /\ cs.over.c0 \in 0..(B - 1) /\ B \in Nat
    BY <1>5, AccParts
  <2>2. PICK b \in Nat, x \in Nat : b = B /\ x = cs.over.c0
    BY <2>1
  <2>3. x + b * 0 + (b * b) * 0 = x
    OBVIOUS
  <2> QED
    BY <1>5, <1>6, <2>1, <2>2, <2>3, Zenon DEF Held
<1> QED
  BY <1>2, <1>5, <1>6, <1>7, Zenon

\* The worth of the columns, counted row by row: R[j] is what the first j terms
\* of all of the columns are worth.
Worths(terms, last, j) == [k \in 0..last |-> Worth(terms[k][j])]
AreRows(R, terms, last, n) ==
    /\ R[0] = 0
    /\ \A j \in 0..(n - 1) : R[j + 1] = R[j] + Number(Worths(terms, last, j), last + 1)

AllTerms(terms, last, n) == \A k \in 0..last : AreTerms(terms[k], n)
Tops(terms, last, n, V, T) == \A k \in 0..last : IsWorth(V[k], terms[k], n) /\ T[k] = V[k][n]

\* The columns together are worth what the rows together are.
LEMMA RowsRight ==
    ASSUME LimbsFit, NEW last \in Nat, NEW n \in Nat, NEW terms, NEW V, NEW T, NEW R,
           AllTerms(terms, last, n), Tops(terms, last, n, V, T), AreRows(R, terms, last, n)
    PROVE  Number(T, last + 1) = R[n]
<1> USE DEF AllTerms, Tops
<1> DEFINE U(j) == [k \in 0..last |-> V[k][j]]
           S == {j \in 0..n : Number(U(j), last + 1) = R[j]}
<1>1. last + 1 \in Nat /\ (last + 1) - 1 = last
  OBVIOUS
<1>2. \A k \in 0..last : \A j \in 0..n : V[k][j] \in Nat
  BY DEF IsWorth
<1>3. \A j \in 0..n : IntLimbs(U(j), last + 1)
  BY <1>2 DEF IntLimbs
<1>4. 0 \in S
  <2>1. \A k \in 0..((last + 1) - 1) : U(0)[k] = 0
    BY DEF IsWorth
  <2>2. Number(U(0), last + 1) = 0
    <3>1. PICK u : u = U(0)
      BY Zenon
    <3>2. \A k \in 0..((last + 1) - 1) : u[k] = 0
      BY <2>1, <3>1, Zenon
    <3>3. Number(u, last + 1) = 0
      BY ONLY LimbsFit, <1>1, <3>2, NumberNothing
    <3> QED
      BY <3>1, <3>3
  <2> QED
    BY <2>2 DEF AreRows
<1>5. ASSUME NEW j \in 0..(n - 1), j \in S
      PROVE  j + 1 \in S
  <2>1. j \in 0..n /\ j + 1 \in 0..n /\ Number(U(j), last + 1) = R[j]
    BY <1>5
  <2>2. PICK u, w, x : u = U(j) /\ w = Worths(terms, last, j) /\ x = U(j + 1)
    BY Zenon
  <2>3. IntLimbs(u, last + 1)
    BY <1>3, <2>1, <2>2
  <2>4. \A k \in 0..last : w[k] = Worth(terms[k][j]) /\ w[k] \in Nat
    <3> TAKE k \in 0..last
    <3>1. terms[k][j] \in Terms
      BY DEF AreTerms
    <3> QED
      BY <2>2, <3>1, WorthNat DEF Worths
  <2>5. IntLimbs(w, last + 1)
    BY <2>4 DEF IntLimbs
  <2>6. \A k \in 0..((last + 1) - 1) : x[k] = u[k] + w[k]
    <3> TAKE k \in 0..((last + 1) - 1)
    <3>1. k \in 0..last
      OBVIOUS
    <3>2. V[k][j + 1] = V[k][j] + Worth(terms[k][j])
      BY <3>1 DEF IsWorth
    <3> QED
      BY <2>2, <2>4, <3>1, <3>2
  <2>7. Number(x, last + 1) = Number(u, last + 1) + Number(w, last + 1)
    BY ONLY LimbsFit, <1>1, <2>3, <2>5, <2>6, NumberPlus
  <2>8. R[j + 1] = R[j] + Number(w, last + 1)
    BY <2>2 DEF AreRows
  <2> QED
    BY <2>1, <2>2, <2>7, <2>8
<1>6. \A j \in 0..n : j \in S
  <2> HIDE DEF S
  <2> QED
    BY <1>4, <1>5, UpTo
<1>7. Number(U(n), last + 1) = R[n] /\ n \in 0..n
  BY <1>6
<1>8. Number(T, last + 1) = Number(U(n), last + 1)
  <2>1. PICK u : u = U(n)
    BY Zenon
  <2>2. IntLimbs(u, last + 1) /\ \A k \in 0..((last + 1) - 1) : T[k] = u[k]
    BY <1>3, <2>1
  <2>3. Number(T, last + 1) = Number(u, last + 1)
    BY ONLY LimbsFit, <1>1, <2>2, NumberSame
  <2> QED
    BY <2>1, <2>3
<1> QED
  BY <1>7, <1>8

\* The limbs of g, times c and m places higher.
IsShifted(u, n, c, m, g, q) ==
    \A k \in 0..(n - 1) : u[k] = IF k - m \in 0..(q - 1) THEN c * g[k - m] ELSE 0

\* The number of such a row.
RowNumber(c, m, g, q) == (c * Place(m)) * Number(g, q)

\* Such a row has that number.
LEMMA ShiftedRow ==
    ASSUME LimbsFit, NEW m \in Nat, NEW q \in Nat, NEW n \in Nat, m + q <= n, NEW c \in Int, NEW g, IntLimbs(g, q),
           NEW u, IsShifted(u, n, c, m, g, q)
    PROVE  IntLimbs(u, n) /\ Number(u, n) = RowNumber(c, m, g, q)
<1> USE DEF IsShifted, RowNumber
<1>1. \A k \in 0..(m - 1) : u[k] = 0
  <2> TAKE k \in 0..(m - 1)
  <2>1. k \in 0..(n - 1) /\ k - m \notin 0..(q - 1)
    OBVIOUS
  <2> QED
    BY <2>1
<1>2. Number(u, m) = 0
  BY <1>1, NumberNothing
<1> DEFINE w == [i \in 0..(q - 1) |-> u[i + m]]
<1>3. \A i \in 0..(q - 1) : w[i] = u[i + m] /\ w[i] = c * g[i] /\ w[i] \in Int
  <2> TAKE i \in 0..(q - 1)
  <2>1. i + m \in 0..(n - 1) /\ (i + m) - m = i
    OBVIOUS
  <2>2. g[i] \in Int
    BY DEF IntLimbs
  <2>3. u[i + m] = c * g[i]
    BY <2>1
  <2>4. PICK y \in Int : y = g[i]
    BY <2>2
  <2>5. c * y \in Int
    OBVIOUS
  <2> QED
    BY <2>3, <2>4, <2>5
<1>4. IntLimbs(u, m + q)
  <2>1. \A k \in 0..(m + q - 1) : u[k] \in Int
    <3> TAKE k \in 0..(m + q - 1)
    <3>1. CASE k < m
      BY <1>1, <3>1
    <3>2. CASE k >= m
      <4>1. PICK i \in 0..(q - 1) : i = k - m /\ k = i + m
        <5>1. k - m \in 0..(q - 1) /\ k = (k - m) + m
          BY <3>2
        <5> QED
          BY <5>1
      <4> QED
        BY <1>3, <4>1
    <3> QED
      BY <3>1, <3>2
  <2> QED
    BY <2>1 DEF IntLimbs
<1>5. Number(u, m + q) = Number(u, m) + Place(m) * Number(w, q) /\ Number(w, q) \in Int
  <2> HIDE DEF w
  <2>1. \A i \in 0..(q - 1) : w[i] = u[i + m]
    BY <1>3
  <2> QED
    BY <1>4, <2>1, NumberSplit
<1>6. Number(w, q) = c * Number(g, q) /\ Number(g, q) \in Int
  <2> HIDE DEF w
  <2> QED
    BY <1>3, NumberTimes, NumberInt
<1>7. \A k \in (m + q)..(n - 1) : u[k] = 0
  <2> TAKE k \in (m + q)..(n - 1)
  <2>1. k \in 0..(n - 1) /\ k - m \notin 0..(q - 1)
    OBVIOUS
  <2> QED
    BY <2>1
<1>8. IntLimbs(u, n) /\ Number(u, n) = Number(u, m + q)
  <2>1. m + q \in Nat
    OBVIOUS
  <2> QED
    BY <1>4, <1>7, <2>1, NumberExtend
<1>9. PICK p \in Nat, x \in Int : p = Place(m) /\ x = Number(g, q)
  BY <1>6, Places, Zenon
<1>10. 0 + p * (c * x) = (c * p) * x
  OBVIOUS
<1> QED
  BY <1>2, <1>5, <1>6, <1>8, <1>9, <1>10, Zenon

\* A column of products of limbs.
LEMMA WorthBounded ==
    ASSUME LimbsFit, NEW n \in Nat, NEW terms, AreTerms(terms, n), NEW v, IsWorth(v, terms, n),
           \A i \in 0..(n - 1) : Worth(terms[i]) <= (B - 1) * (B - 1)
    PROVE  v[n] <= n * ((B - 1) * (B - 1))
<1>1. PICK m \in Nat : m = (B - 1) * (B - 1)
  <2>1. PICK b \in Nat : b = B - 1
    BY Sizes
  <2>2. b * b \in Nat
    OBVIOUS
  <2> QED
    BY <2>1, <2>2
<1> DEFINE S == {i \in 0..n : v[i] <= i * m}
<1>2. 0 \in S
  BY DEF IsWorth
<1>3. ASSUME NEW i \in 0..(n - 1), i \in S
      PROVE  i + 1 \in S
  <2>1. terms[i] \in Terms
    BY DEF AreTerms
  <2>2. PICK w \in Nat : w = Worth(terms[i])
    BY <2>1, WorthNat
  <2>3. w <= m
    BY <1>1, <2>2
  <2>4. v[i + 1] = v[i] + w /\ v[i] \in Nat /\ v[i] <= i * m /\ i + 1 \in 0..n
    BY <1>3, <2>2 DEF IsWorth
  <2>5. (i + 1) * m = i * m + m
    OBVIOUS
  <2>6. PICK x \in Nat : x = i * m
    OBVIOUS
  <2> QED
    BY <2>3, <2>4, <2>5, <2>6
<1>4. \A i \in 0..n : i \in S
  <2> HIDE DEF S
  <2> QED
    BY <1>2, <1>3, UpTo
<1> QED
  BY <1>1, <1>4

\* A column with one term only.
LEMMA OnlyOne ==
    ASSUME LimbsFit, NEW n \in Nat, NEW terms, AreTerms(terms, n), NEW v, IsWorth(v, terms, n),
           NEW e \in 0..(n - 1), \A i \in 0..(n - 1) : i # e => Worth(terms[i]) = 0
    PROVE  v[n] = Worth(terms[e])
<1>1. terms[e] \in Terms
  BY DEF AreTerms
<1>2. PICK w \in Nat : w = Worth(terms[e])
  BY <1>1, WorthNat
<1> DEFINE S == {i \in 0..n : v[i] = IF i <= e THEN 0 ELSE w}
<1>3. 0 \in S
  BY DEF IsWorth
<1>4. ASSUME NEW i \in 0..(n - 1), i \in S
      PROVE  i + 1 \in S
  <2>1. v[i + 1] = v[i] + Worth(terms[i]) /\ i + 1 \in 0..n
    BY DEF IsWorth
  <2>2. v[i] = IF i <= e THEN 0 ELSE w
    BY <1>4
  <2>3. CASE i = e
    <3>1. v[i + 1] = 0 + w
      BY <1>2, <2>1, <2>2, <2>3
    <3> QED
      BY <2>1, <2>3, <3>1
  <2>4. CASE i # e
    <3>1. Worth(terms[i]) = 0
      BY <2>4
    <3>2. v[i + 1] = v[i]
      BY <2>1, <2>2, <3>1
    <3> QED
      BY <2>1, <2>2, <2>4, <3>2
  <2> QED
    BY <2>3, <2>4
<1>5. \A i \in 0..n : i \in S
  <2> HIDE DEF S
  <2> QED
    BY <1>3, <1>4, UpTo
<1> QED
  BY <1>2, <1>5

\* The worths of all columns.
LEMMA AllWorths ==
    ASSUME LimbsFit, NEW last \in Nat, NEW n \in Nat, NEW terms, AllTerms(terms, last, n)
    PROVE  \E V, T : Tops(terms, last, n, V, T)
<1> USE DEF AllTerms, Tops
<1> DEFINE V == [k \in 0..last |-> CHOOSE v : IsWorth(v, terms[k], n)]
           T == [k \in 0..last |-> V[k][n]]
<1>1. \A k \in 0..last : IsWorth(V[k], terms[k], n)
  <2> TAKE k \in 0..last
  <2>1. \E v : IsWorth(v, terms[k], n)
    BY WorthExists
  <2> QED
    BY <2>1
<1>2. \A k \in 0..last : T[k] = V[k][n]
  OBVIOUS
<1> HIDE DEF V, T
<1> QED
  BY <1>1, <1>2

\* The limbs of a product of scalars, and what it is.
LEMMA ProductRight ==
    ASSUME LimbsFit, NEW terms, NEW V, NEW T, ColumnsFit(0, 2 * L - 2, terms, L, V, T), NEW asm \in BOOLEAN
    PROVE  LET p == Product512(terms, asm)
           IN p.ok /\ Limbs(p.l, 2 * L) /\ Number(p.l, 2 * L) = Number(T, 2 * L - 1)
<1>1. PICK last \in Nat : last = 2 * L - 2 /\ last + 1 = 2 * L - 1 /\ last + 2 = 2 * L
  BY Sizes
<1>2. PICK cs : cs = Columns(0, last, terms, L, asm)
  OBVIOUS
<1>3. /\ cs.over.ok /\ cs.over.c1 = 0 /\ cs.over.c0 \in 0..(B - 1)
      /\ cs.limb \in [0..last -> 0..(B - 1)] /\ Limbs(cs.limb, last + 1)
      /\ Number(cs.limb, last + 1) + cs.over.c0 * Place(last + 1) = 0 + Number(T, last + 1)
  <2>1. PICK c0, n : c0 = 0 /\ n = L
    OBVIOUS
  <2>2. ColumnsFit(c0, last, terms, n, V, T) /\ cs = Columns(c0, last, terms, n, asm)
    BY <1>1, <1>2, <2>1
  <2>3. /\ cs.over.ok /\ cs.over.c1 = 0 /\ cs.over.c0 \in 0..(B - 1)
        /\ cs.limb \in [0..last -> 0..(B - 1)] /\ Limbs(cs.limb, last + 1)
        /\ Number(cs.limb, last + 1) + cs.over.c0 * Place(last + 1) = c0 + Number(T, last + 1)
    BY ONLY LimbsFit, asm \in BOOLEAN, <2>2, ColumnsTotal
  <2> QED
    BY <2>1, <2>3
<1>4. PICK l : l = [k \in 0..(2 * L - 1) |-> IF k < 2 * L - 1 THEN cs.limb[k] ELSE cs.over.c0]
  BY Zenon
<1>5. PICK p : p = Product512(terms, asm)
  OBVIOUS
<1>6. p.l = l /\ p.ok = (cs.over.ok /\ cs.over.c1 = 0)
  <2>1. p = [l |-> l, ok |-> cs.over.ok /\ cs.over.c1 = 0]
    BY <1>1, <1>2, <1>4, <1>5 DEF Product512, Closed
  <2> QED
    BY ONLY <2>1
<1>7. /\ \A k \in 0..last : l[k] = cs.limb[k] /\ l[k] \in 0..(B - 1)
      /\ l[last + 1] = cs.over.c0
  <2>1. L \in Nat /\ 2 * L - 1 = last + 1
    BY <1>1, Sizes
  <2>2. l = [k \in 0..(last + 1) |-> IF k < last + 1 THEN cs.limb[k] ELSE cs.over.c0]
    BY <1>4, <2>1, Zenon
  <2> QED
    BY <1>3, <2>2
<1>8. Limbs(l, last + 2)
  <2>1. \A k \in 0..((last + 2) - 1) : l[k] \in 0..(B - 1)
    BY <1>3, <1>7
  <2> QED
    BY <2>1 DEF Limbs
<1>9. Number(l, last + 2) = Number(l, last + 1) + l[last + 1] * Place(last + 1)
  <2>1. last + 2 \in Nat /\ last + 1 \in Nat /\ (last + 1) + 1 = last + 2 /\ last + 2 <= last + 2
    OBVIOUS
  <2>2. IntLimbs(l, last + 2)
    BY ONLY LimbsFit, <1>8, <2>1, LimbsInt
  <2> QED
    BY <2>1, <2>2, NumberStep
<1>10. Number(l, last + 1) = Number(cs.limb, last + 1)
  <2>1. last + 1 \in Nat /\ last + 1 <= last + 1 /\ (last + 1) - 1 = last
    OBVIOUS
  <2>2. IntLimbs(cs.limb, last + 1)
    BY ONLY LimbsFit, <1>3, <2>1, LimbsInt
  <2> QED
    BY <1>7, <2>1, <2>2, NumberSame
<1>11. Number(T, last + 1) \in Int
  <2>1. IntLimbs(T, last + 1)
    BY <1>1, TopsNat
  <2> QED
    BY <2>1, NumberInt
<1>12. Number(l, last + 2) = Number(T, last + 1)
  BY <1>3, <1>7, <1>9, <1>10, <1>11
<1> QED
  BY <1>1, <1>3, <1>5, <1>6, <1>8, <1>12, Zenon

\* A product of two limbs, and of two numbers of limbs.
LEMMA LimbProduct ==
    ASSUME LimbsFit, NEW x \in 0..(B - 1), NEW y \in 0..(B - 1)
    PROVE  x \in Nat /\ y \in Nat /\ x * y \in Nat /\ x * y <= (B - 1) * (B - 1)
<1>1. PICK b \in Nat : b = B /\ b >= 2
  BY Sizes
<1>2. x \in 0..(b - 1) /\ y \in 0..(b - 1)
  BY <1>1
<1>3. x * y \in Nat /\ x * y <= (b - 1) * (b - 1)
  BY ONLY <1>1, <1>2, b \in Nat, ProductHalves, Zenon
<1> QED
  BY <1>1, <1>2, <1>3

\* Products of smaller numbers are smaller.
LEMMA SmallerProduct ==
    ASSUME NEW x \in Nat, NEW y \in Nat, NEW p \in Nat, NEW q \in Nat, x < p, y < q
    PROVE  x * y \in Nat /\ x * y < p * q
<1>1. x * y <= x * q
  <2>1. y * x <= q * x
    BY TimesMonotone
  <2>2. y * x = x * y /\ q * x = x * q
    OBVIOUS
  <2> QED
    BY <2>1, <2>2
<1>2. (x + 1) * q <= p * q
  BY TimesMonotone
<1>3. (x + 1) * q = x * q + q /\ x * q \in Nat /\ x * y \in Nat /\ p * q \in Nat
  OBVIOUS
<1> PICK u \in Nat, v \in Nat, w \in Nat : u = x * y /\ v = x * q /\ w = p * q
  BY <1>3
<1> QED
  BY <1>1, <1>2, <1>3

\* The four kinds of term, and what each is worth.
LEMMA TermsTyped ==
    ASSUME LimbsFit, NEW x \in 0..(B - 1), NEW y \in 0..(B - 1), NEW fast \in BOOLEAN
    PROVE  /\ Product(x, y, fast) \in Terms /\ Product(x, y, fast).op = "muladd"
           /\ Product(x, y, fast).fast = fast /\ Worth(Product(x, y, fast)) = x * y
           /\ Twice(x, y) \in Terms /\ Twice(x, y).op = "muladd2" /\ Twice(x, y).fast = FALSE
           /\ Worth(Twice(x, y)) = x * y + x * y
           /\ Single(x, fast) \in Terms /\ Single(x, fast).op = "sumadd"
           /\ Single(x, fast).fast = fast /\ Worth(Single(x, fast)) = x
           /\ Nothing \in Terms /\ Nothing.op = "none" /\ Nothing.fast = FALSE /\ Worth(Nothing) = 0
<1>1. 0 \in 0..(B - 1) /\ 1 \in 0..(B - 1)
  BY Sizes
<1>2. Nothing \in Terms /\ Nothing.op = "none" /\ Nothing.fast = FALSE /\ Worth(Nothing) = 0
  BY <1>1 DEF Nothing, Terms, Worth
<1>3. /\ Product(x, y, fast) \in Terms /\ Product(x, y, fast).op = "muladd"
      /\ Product(x, y, fast).fast = fast /\ Worth(Product(x, y, fast)) = x * y
  BY DEF Product, Terms, Worth
<1>4. /\ Twice(x, y) \in Terms /\ Twice(x, y).op = "muladd2" /\ Twice(x, y).fast = FALSE
      /\ Worth(Twice(x, y)) = x * y + x * y
  BY DEF Twice, Terms, Worth
<1>5. /\ Single(x, fast) \in Terms /\ Single(x, fast).op = "sumadd"
      /\ Single(x, fast).fast = fast /\ Worth(Single(x, fast)) = x
  BY <1>1 DEF Single, Terms, Worth
<1> QED
  BY <1>2, <1>3, <1>4, <1>5, Zenon

\* The terms of a product of two scalars.
LEMMA MulTermsFit ==
    ASSUME LimbsFit, NEW a, NEW b, Limbs(a, L), Limbs(b, L)
    PROVE  \E V, T : /\ ColumnsFit(0, 2 * L - 2, MulTerms(a, b), L, V, T)
                     /\ Number(T, 2 * L - 1) = Number(a, L) * Number(b, L)
<1>1. PICK last \in Nat : last = 2 * L - 2 /\ last + 1 = 2 * L - 1 /\ last + 2 = 2 * L /\ last >= 1
  BY Sizes, SMTT(30)
<1>2. L \in Nat /\ L >= 4 /\ Index = 0..(L - 1)
  BY Sizes
<1>3. PICK terms : terms = MulTerms(a, b)
  OBVIOUS
<1>4. ASSUME NEW k \in 0..last, NEW i \in 0..(L - 1)
      PROVE  terms[k][i] = IF k - i \in 0..(L - 1) THEN Product(a[i], b[k - i], k \in {0, last}) ELSE Nothing
  <2>1. k \in 0..(2 * L - 2) /\ i \in Index
    BY <1>1, <1>2
  <2> QED
    BY <1>1, <1>2, <1>3, <2>1, Zenon DEF MulTerms
<1>5. ASSUME NEW k \in 0..last, NEW i \in 0..(L - 1)
      PROVE  /\ terms[k][i] \in Terms /\ terms[k][i].op # "muladd2"
             /\ Worth(terms[k][i]) = IF k - i \in 0..(L - 1) THEN a[i] * b[k - i] ELSE 0
             /\ Worth(terms[k][i]) <= (B - 1) * (B - 1)
             /\ terms[k][i].fast => k \in {0, last}
  <2>1. CASE k - i \in 0..(L - 1)
    <3>1. a[i] \in 0..(B - 1) /\ b[k - i] \in 0..(B - 1)
      BY <2>1 DEF Limbs
    <3>2. PICK x \in 0..(B - 1), y \in 0..(B - 1) : x = a[i] /\ y = b[k - i]
      BY <3>1
    <3>3. PICK fast \in BOOLEAN : fast = IF k \in {0, last} THEN TRUE ELSE FALSE
      BY Zenon
    <3>4. terms[k][i] = Product(x, y, fast)
      <4>1. CASE k \in {0, last}
        <5>1. (k \in {0, last}) = TRUE /\ fast = TRUE
          BY <3>3, <4>1
        <5> QED
          BY <1>4, <2>1, <3>2, <5>1, Zenon
      <4>2. CASE k \notin {0, last}
        <5>1. (k \in {0, last}) = FALSE /\ fast = FALSE
          BY <3>3, <4>2
        <5> QED
          BY <1>4, <2>1, <3>2, <5>1, Zenon
      <4> QED
        BY <4>1, <4>2
    <3>5. PICK t : t = Product(x, y, fast)
      OBVIOUS
    <3>6. t \in Terms /\ t.op = "muladd" /\ t.fast = fast /\ Worth(t) = x * y
      BY ONLY <3>5, LimbsFit, x \in 0..(B - 1), y \in 0..(B - 1), fast \in BOOLEAN, TermsTyped, ZenonT(60)
    <3>7. x * y <= (B - 1) * (B - 1)
      BY LimbProduct
    <3> QED
      BY <2>1, <3>2, <3>3, <3>4, <3>5, <3>6, <3>7, Zenon
  <2>2. CASE k - i \notin 0..(L - 1)
    <3>1. terms[k][i] = Nothing
      BY <1>4, <2>2, Zenon
    <3>2. PICK x \in 0..(B - 1) : x = 0
      BY Sizes
    <3>3. Nothing \in Terms /\ Nothing.op = "none" /\ Nothing.fast = FALSE /\ Worth(Nothing) = 0
      BY ONLY LimbsFit, x \in 0..(B - 1), TermsTyped, Zenon
    <3>4. x * x <= (B - 1) * (B - 1)
      BY LimbProduct
    <3>5. 0 <= (B - 1) * (B - 1)
      BY <3>2, <3>4
    <3> QED
      BY <2>2, <3>1, <3>3, <3>5
  <2> QED
    BY <2>1, <2>2
<1>6. AllTerms(terms, last, L)
  <2> SUFFICES ASSUME NEW k \in 0..last, NEW i \in 0..(L - 1)
               PROVE  terms[k][i] \in Terms /\ (terms[k][i].op = "muladd2" => ~terms[k][i].fast)
    BY Zenon DEF AllTerms, AreTerms
  <2> PICK t : t = terms[k][i]
    OBVIOUS
  <2>1. t \in Terms /\ t.op # "muladd2"
    BY <1>5, Zenon
  <2> QED
    BY <2>1
<1>7. PICK V, T : Tops(terms, last, L, V, T)
  <2> PICK n \in Nat : n = L
    BY <1>2
  <2>1. AllTerms(terms, last, n)
    BY <1>6
  <2>2. \E V, T : Tops(terms, last, n, V, T)
    BY ONLY LimbsFit, last \in Nat, n \in Nat, <2>1, AllWorths
  <2> QED
    BY <2>2
<1>8. TermsFit(last, terms, L, V, T)
  <2> SUFFICES ASSUME NEW k \in 0..last
               PROVE  T[k] <= L * ((B - 1) * (B - 1))
    BY <1>6, <1>7, Zenon DEF TermsFit, AllTerms, Tops
  <2>1. PICK t, v : t = terms[k] /\ v = V[k]
    OBVIOUS
  <2>2. AreTerms(t, L) /\ IsWorth(v, t, L) /\ \A i \in 0..(L - 1) : Worth(t[i]) <= (B - 1) * (B - 1)
    BY <1>5, <1>6, <1>7, <2>1, Zenon DEF AllTerms, Tops
  <2>3. v[L] <= L * ((B - 1) * (B - 1))
    BY ONLY <1>2, <2>2, LimbsFit, WorthBounded
  <2> QED
    BY <1>7, <2>1, <2>3 DEF Tops
<1>9. FastFit(last, terms, L)
  BY <1>5, Zenon DEF FastFit
<1>10. 0 + T[0] < B * B
  <2>1. 0 \in 0..last /\ 0 \in 0..(L - 1)
    BY <1>1, <1>2
  <2>2. \A i \in 0..(L - 1) : i # 0 => Worth(terms[0][i]) = 0
    <3> TAKE i \in 0..(L - 1)
    <3>1. i # 0 => 0 - i \notin 0..(L - 1)
      BY <1>2
    <3> QED
      BY <1>5, <2>1, <3>1
  <2>3. PICK t, v : t = terms[0] /\ v = V[0]
    OBVIOUS
  <2>4. AreTerms(t, L) /\ IsWorth(v, t, L) /\ \A i \in 0..(L - 1) : i # 0 => Worth(t[i]) = 0
    BY <1>6, <1>7, <2>1, <2>2, <2>3, Zenon DEF AllTerms, Tops
  <2>5. v[L] = Worth(t[0])
    BY ONLY <1>2, <2>1, <2>4, LimbsFit, OnlyOne
  <2>6. Worth(t[0]) <= (B - 1) * (B - 1) /\ Worth(t[0]) \in Nat
    BY <1>5, <2>1, <2>3, WorthNat
  <2>7. PICK m \in Nat, c \in Nat : m = B /\ c = T[0] /\ c <= (m - 1) * (m - 1) /\ m >= 1
    <3>1. B \in Nat /\ B >= 4 /\ T[0] = Worth(t[0])
      BY <1>7, <2>1, <2>3, <2>5, Sizes DEF Tops
    <3> QED
      BY <2>6, <3>1
  <2>8. (m - 1) * (m - 1) < m * m
    BY <2>7
  <2>9. c < m * m
    <3> PICK x \in Int, y \in Int : x = (m - 1) * (m - 1) /\ y = m * m
      OBVIOUS
    <3> QED
      BY <2>7, <2>8
  <2> QED
    BY <2>7, <2>9
<1>11. IntLimbs(a, L) /\ IntLimbs(b, L) /\ Number(b, L) \in Nat /\ Number(a, L) \in Nat
       /\ Number(a, L) < Place(L) /\ Number(b, L) < Place(L)
  BY <1>2, LimbsInt, NumberBound
<1>12. PICK y \in Nat : y = Number(b, L)
  BY <1>11
<1> DEFINE R == [j \in 0..L |-> Number(a, j) * y]
<1>13. AreRows(R, terms, last, L)
  <2>1. R[0] = 0
    <3>1. Number(a, 0) = 0 /\ 0 \in 0..L
      BY <1>2, NumberZero
    <3> QED
      BY <3>1
  <2>2. ASSUME NEW j \in 0..(L - 1)
        PROVE  R[j + 1] = R[j] + Number(Worths(terms, last, j), last + 1)
    <3>1. j \in Nat /\ j + L <= last + 1 /\ j \in 0..L /\ j + 1 \in 0..L /\ last + 1 \in Nat /\ (last + 1) - 1 = last
      BY <1>1, <1>2
    <3>2. PICK u : u = Worths(terms, last, j)
      OBVIOUS
    <3>3. a[j] \in 0..(B - 1)
      BY DEF Limbs
    <3>4. PICK c \in Int : c = a[j]
      BY <3>3
    <3>5. \A k \in 0..((last + 1) - 1) : u[k] = IF k - j \in 0..(L - 1) THEN c * b[k - j] ELSE 0
      <4> TAKE k \in 0..((last + 1) - 1)
      <4>1. k \in 0..last
        BY <3>1
      <4>2. u[k] = Worth(terms[k][j])
        BY <3>2, <4>1 DEF Worths
      <4> QED
        BY <1>5, <3>4, <4>1, <4>2, Zenon
    <3>6. Number(u, last + 1) = (c * Place(j)) * Number(b, L)
      <4> PICK n \in Nat : n = last + 1
        BY <3>1
      <4>1. IsShifted(u, n, c, j, b, L)
        BY <3>5, Zenon DEF IsShifted
      <4> PICK m \in Nat, q \in Nat : m = j /\ q = L
        BY <1>2, <3>1
      <4>2. m + q <= n
        BY <3>1
      <4>3. IntLimbs(b, q)
        BY <1>11
      <4>4. IsShifted(u, n, c, m, b, q)
        BY <4>1
      <4>5. Number(u, n) = RowNumber(c, m, b, q)
        BY ONLY LimbsFit, n \in Nat, m \in Nat, q \in Nat, c \in Int, <4>2, <4>3, <4>4, ShiftedRow
      <4> QED
        BY <4>5, Zenon DEF RowNumber
    <3>7. Number(a, j + 1) = Number(a, j) + c * Place(j) /\ Number(a, j) \in Int /\ Place(j) \in Nat
      <4>1. IntLimbs(a, j + 1)
        <5>1. j + 1 \in Nat /\ j + 1 <= L /\ L \in Nat
          BY <1>2
        <5> PICK q \in Nat : q = j + 1
          BY <5>1
        <5>2. q <= L
          BY <5>1
        <5>3. IntLimbs(a, q)
          BY ONLY LimbsFit, q \in Nat, <5>1, <5>2, Limbs(a, L), LimbsInt
        <5> QED
          BY <5>3
      <4> QED
        BY <3>1, <3>4, <4>1, NumberStep, Places
    <3>8. PICK x \in Int, p \in Nat : x = Number(a, j) /\ p = Place(j)
      BY <3>7
    <3>9. (x + c * p) * y = x * y + (c * p) * y
      OBVIOUS
    <3>10. R[j + 1] = (x + c * p) * y /\ R[j] = x * y
      BY <3>1, <3>7, <3>8
    <3> QED
      BY <1>12, <3>2, <3>6, <3>8, <3>9, <3>10, Zenon
  <2> HIDE DEF R
  <2> QED
    BY <2>1, <2>2 DEF AreRows
<1>14. R[L] = Number(a, L) * y
  BY <1>2
<1> HIDE DEF R
<1>15. Number(T, last + 1) = R[L]
  <2> PICK n \in Nat : n = L
    BY <1>2
  <2> PICK r : r = R
    OBVIOUS
  <2>1. AllTerms(terms, last, n)
    BY <1>6, Zenon
  <2>2. Tops(terms, last, n, V, T)
    BY <1>7, Zenon
  <2>3. AreRows(r, terms, last, n)
    BY <1>13, Zenon
  <2>4. Number(T, last + 1) = r[n]
    BY ONLY LimbsFit, last \in Nat, n \in Nat, <2>1, <2>2, <2>3, RowsRight
  <2> QED
    BY <2>4, Zenon
<1>16. 0 + Number(T, last + 1) < Place(last + 2)
  <2>1. PICK x \in Nat, p \in Nat : x = Number(a, L) /\ p = Place(L) /\ x < p /\ y < p
    <3>1. Place(L) \in Nat
      BY <1>2, Places
    <3> QED
      BY <1>11, <1>12, <3>1
  <2>2. x * y \in Nat /\ x * y < p * p
    BY ONLY x \in Nat, y \in Nat, p \in Nat, <2>1, SmallerProduct
  <2>3. Place(L + L) = Place(L) * Place(L)
    BY <1>2, PlaceSum
  <2>4. last + 2 = L + L
    BY <1>1, <1>2
  <2>5. Number(T, last + 1) = x * y /\ Place(last + 2) = p * p
    BY <1>14, <1>15, <2>1, <2>3, <2>4, Zenon
  <2> QED
    BY <2>2, <2>5
<1>17. ColumnsFit(0, last, terms, L, V, T)
  <2>1. 0 \in 0..(B - 1)
    BY Sizes
  <2> QED
    BY <1>1, <1>2, <1>8, <1>9, <1>10, <1>16, <2>1 DEF ColumnsFit
<1> QED
  BY <1>1, <1>3, <1>12, <1>14, <1>15, <1>17, Zenon

\* No check of the code fails, and the 2 L limbs are those of v.
IsProduct512(p, v) == p.ok /\ Limbs(p.l, 2 * L) /\ Number(p.l, 2 * L) = v

\* scalar_mul_512, by the macros of C and in assembler: the accumulator of three
\* limbs never runs over, in the fast forms either, and the 2 L limbs it leaves
\* are the product of the numbers.
THEOREM ScalarMul512 ==
    ASSUME LimbsFit, NEW a, NEW b, Limbs(a, L), Limbs(b, L)
    PROVE  /\ IsProduct512(scalar_mul_512(a, b), Number(a, L) * Number(b, L))
           /\ IsProduct512(scalar_mul_512_asm(a, b), Number(a, L) * Number(b, L))
<1> PICK terms : terms = MulTerms(a, b)
  OBVIOUS
<1>1. PICK V, T : /\ ColumnsFit(0, 2 * L - 2, terms, L, V, T)
                  /\ Number(T, 2 * L - 1) = Number(a, L) * Number(b, L)
  BY MulTermsFit
<1>2. ASSUME NEW asm \in BOOLEAN
      PROVE  IsProduct512(Product512(terms, asm), Number(a, L) * Number(b, L))
  <2>1. LET p == Product512(terms, asm)
        IN p.ok /\ Limbs(p.l, 2 * L) /\ Number(p.l, 2 * L) = Number(T, 2 * L - 1)
    BY ONLY LimbsFit, asm \in BOOLEAN, <1>1, ProductRight
  <2> QED
    BY <1>1, <2>1, Zenon DEF IsProduct512
<1>3. IsProduct512(Product512(terms, TRUE), Number(a, L) * Number(b, L))
  BY <1>2, Zenon
<1>4. IsProduct512(Product512(terms, FALSE), Number(a, L) * Number(b, L))
  BY <1>2, Zenon
<1> QED
  BY <1>3, <1>4, Zenon DEF scalar_mul_512, scalar_mul_512_asm

-----------------------------------------------------------------------------
(* The square: a product of two different limbs is there twice.            *)

\* In every column, the terms of a row are the limbs of one number, times c and
\* m places higher.
IsRow(terms, last, j, c, m, g, q) ==
    \A k \in 0..last : Worth(terms[k][j]) = IF k - m \in 0..(q - 1) THEN c * g[k - m] ELSE 0

\* The number of such a row.
LEMMA RowRight ==
    ASSUME LimbsFit, NEW last \in Nat, NEW terms, NEW j, NEW c \in Int, NEW m \in Nat, NEW q \in Nat,
           m + q <= last + 1, NEW g, IntLimbs(g, q), IsRow(terms, last, j, c, m, g, q)
    PROVE  Number(Worths(terms, last, j), last + 1) = RowNumber(c, m, g, q)
<1>a. PICK n \in Nat : n = last + 1
  OBVIOUS
<1>b. PICK u : u = Worths(terms, last, j)
  OBVIOUS
<1>1. n = last + 1 /\ u = Worths(terms, last, j)
  BY <1>a, <1>b, Zenon
<1>2. m + q <= n /\ n - 1 = last
  BY <1>1
<1>3. \A k \in 0..last : u[k] = Worth(terms[k][j])
  BY <1>1, Zenon DEF Worths
<1>4. IsShifted(u, n, c, m, g, q)
  BY <1>2, <1>3, Zenon DEF IsShifted, IsRow
<1>5. Number(u, n) = RowNumber(c, m, g, q)
  BY ONLY LimbsFit, n \in Nat, m \in Nat, q \in Nat, c \in Int, <1>2, <1>4, IntLimbs(g, q), ShiftedRow
<1> QED
  BY <1>1, <1>5, Zenon

\* c counts the products of a column: m bounds one of them.
Counts(c, terms, n, m) ==
    /\ c \in [0..n -> Nat]
    /\ \A i \in 0..(n - 1) : \/ Worth(terms[i]) = 0 /\ c[i + 1] >= c[i]
                             \/ Worth(terms[i]) <= m /\ c[i + 1] >= c[i] + 1
                             \/ Worth(terms[i]) <= m + m /\ c[i + 1] >= c[i] + 2

\* What a column is worth, by the count of its products.
LEMMA WorthCounted ==
    ASSUME LimbsFit, NEW n \in Nat, NEW terms, AreTerms(terms, n), NEW v, IsWorth(v, terms, n),
           NEW m \in Nat, NEW c, Counts(c, terms, n, m)
    PROVE  v[n] <= c[n] * m
<1> DEFINE S == {i \in 0..n : v[i] <= c[i] * m}
<1>1. 0 \in S
  <2>1. PICK x \in Nat : x = c[0]
    BY DEF Counts
  <2>2. x * m >= 0
    OBVIOUS
  <2>3. v[0] = 0 /\ 0 \in 0..n
    BY DEF IsWorth
  <2> QED
    BY <2>1, <2>2, <2>3
<1>2. ASSUME NEW i \in 0..(n - 1), i \in S
      PROVE  i + 1 \in S
  <2>1. terms[i] \in Terms
    BY DEF AreTerms
  <2>2. PICK w \in Nat : w = Worth(terms[i])
    BY <2>1, WorthNat
  <2>3. i \in 0..n /\ i + 1 \in 0..n
    OBVIOUS
  <2>4. PICK p \in Nat, q \in Nat : p = c[i] /\ q = c[i + 1]
    BY <2>3 DEF Counts
  <2>5. v[i + 1] = v[i] + w /\ v[i] \in Nat /\ v[i] <= p * m
    BY <1>2, <2>2, <2>3, <2>4 DEF IsWorth
  <2>6. \/ w = 0 /\ q >= p
        \/ w <= m /\ q >= p + 1
        \/ w <= m + m /\ q >= p + 2
    BY <2>2, <2>4, Zenon DEF Counts
  <2>7. ASSUME NEW e \in 0..2, q >= p + e, w <= e * m
        PROVE  v[i + 1] <= q * m
    <3>1. p + e \in Nat /\ p + e <= q
      BY <2>7
    <3>2. (p + e) * m <= q * m
      BY <3>1, TimesMonotone
    <3>3. (p + e) * m = p * m + e * m
      OBVIOUS
    <3> PICK x \in Nat, y \in Nat, z \in Nat : x = p * m /\ y = e * m /\ z = q * m
      OBVIOUS
    <3> QED
      BY <2>5, <2>7, <3>2, <3>3
  <2>8. 0 * m = 0 /\ 1 * m = m /\ 2 * m = m + m
    OBVIOUS
  <2>9. v[i + 1] <= q * m
    <3>1. CASE w = 0 /\ q >= p
      <4>1. 0 \in 0..2 /\ q >= p + 0 /\ w <= 0 * m
        BY <2>8, <3>1
      <4> QED
        BY <2>7, <4>1, Zenon
    <3>2. CASE w <= m /\ q >= p + 1
      <4>1. 1 \in 0..2 /\ q >= p + 1 /\ w <= 1 * m
        BY <2>8, <3>2
      <4> QED
        BY <2>7, <4>1, Zenon
    <3>3. CASE w <= m + m /\ q >= p + 2
      <4>1. 2 \in 0..2 /\ q >= p + 2 /\ w <= 2 * m
        BY <2>8, <3>3
      <4> QED
        BY <2>7, <4>1, Zenon
    <3> QED
      BY <2>6, <3>1, <3>2, <3>3
  <2> QED
    BY <2>3, <2>4, <2>9
<1>3. \A i \in 0..n : i \in S
  <2> HIDE DEF S
  <2> QED
    BY <1>1, <1>2, UpTo
<1> QED
  BY <1>3

\* The limbs that the row of limb i has in the square, as a number.
HalfSquare(a, i) == [e \in Index |-> IF e < i THEN 0 ELSE IF e = i THEN a[i] ELSE 2 * a[e]]

\* Its number: twice that of the limbs from i on, less limb i itself.
LEMMA HalfSquareRight ==
    ASSUME LimbsFit, NEW a, IntLimbs(a, L), NEW i \in Index
    PROVE  /\ IntLimbs(HalfSquare(a, i), L)
           /\ Number(HalfSquare(a, i), L) = 2 * Number(a, L) - Number(a, i) - Number(a, i + 1)
<1>1. L \in Nat /\ L >= 4 /\ Index = 0..(L - 1)
  BY Sizes
<1>2. PICK n \in Nat : n = L
  BY <1>1
<1>3. PICK g, h, d : /\ g = HalfSquare(a, i)
                     /\ h = [e \in Index |-> IF e < i THEN 2 * a[e] ELSE IF e = i THEN a[i] ELSE 0]
                     /\ d = [e \in Index |-> 2 * a[e]]
  BY Zenon
<1>4. \A e \in 0..(n - 1) : a[e] \in Int
  BY <1>2 DEF IntLimbs
<1>5. \A e \in 0..(n - 1) : g[e] = IF e < i THEN 0 ELSE IF e = i THEN a[i] ELSE 2 * a[e]
  BY <1>1, <1>2, <1>3, Zenon DEF HalfSquare
<1>6. \A e \in 0..(n - 1) : h[e] = IF e < i THEN 2 * a[e] ELSE IF e = i THEN a[i] ELSE 0
  BY <1>1, <1>2, <1>3, Zenon
<1>7. \A e \in 0..(n - 1) : d[e] = 2 * a[e]
  BY <1>1, <1>2, <1>3, Zenon
<1>8. i \in 0..(n - 1) /\ i \in Nat /\ i + 1 \in Nat /\ i + 1 <= n /\ a[i] \in Int
  BY <1>1, <1>2, <1>4
<1>9. IntLimbs(a, n) /\ IntLimbs(g, n) /\ IntLimbs(h, n) /\ IntLimbs(h, i + 1) /\ IntLimbs(h, i)
      /\ IntLimbs(a, i) /\ IntLimbs(a, i + 1)
  <2>1. \A e \in 0..(n - 1) : g[e] \in Int /\ h[e] \in Int
    BY <1>4, <1>5, <1>6, <1>8
  <2> QED
    BY <1>4, <1>8, <2>1 DEF IntLimbs
<1>10. Number(d, n) = 2 * Number(a, n)
  BY <1>7, <1>9, NumberTimes
<1>11. Number(d, n) = Number(g, n) + Number(h, n)
  <2>1. \A e \in 0..(n - 1) : d[e] = g[e] + h[e]
    BY <1>4, <1>5, <1>6, <1>7, <1>8
  <2> QED
    BY ONLY LimbsFit, n \in Nat, <1>9, <2>1, NumberPlus
<1>12. Number(h, n) = Number(h, i + 1)
  <2>1. \A e \in (i + 1)..(n - 1) : h[e] = 0
    BY <1>6, <1>8
  <2> PICK m \in Nat : m = i + 1
    BY <1>8
  <2>2. m <= n /\ IntLimbs(h, m) /\ \A e \in m..(n - 1) : h[e] = 0
    BY <1>8, <1>9, <2>1
  <2>3. Number(h, n) = Number(h, m)
    BY ONLY LimbsFit, n \in Nat, m \in Nat, <2>2, NumberExtend
  <2> QED
    BY <2>3
<1>13. Number(h, i + 1) = Number(h, i) + a[i] * Place(i)
  <2>1. h[i] = a[i]
    BY <1>6, <1>8
  <2> QED
    BY <1>8, <1>9, <2>1, NumberStep
<1>14. Number(h, i) = 2 * Number(a, i)
  <2>1. \A e \in 0..(i - 1) : h[e] = 2 * a[e]
    BY <1>6, <1>8
  <2> QED
    BY <1>8, <1>9, <2>1, NumberTimes
<1>15. Number(a, i + 1) = Number(a, i) + a[i] * Place(i)
  BY <1>8, <1>9, NumberStep
<1>16. PICK x \in Int, y \in Int, z \in Int, u \in Int, p \in Int :
           /\ x = Number(a, n) /\ y = Number(a, i) /\ z = Number(a, i + 1) /\ u = Number(g, n)
           /\ p = a[i] * Place(i)
  <2>1. Number(a, n) \in Int /\ Number(a, i) \in Int /\ Number(a, i + 1) \in Int /\ Number(g, n) \in Int
    BY <1>8, <1>9, NumberInt
  <2>2. Place(i) \in Nat
    BY <1>8, Places
  <2>3. a[i] * Place(i) \in Int
    BY <1>8, <2>2
  <2> QED
    BY <2>1, <2>3
<1>17. 2 * x = u + (2 * y + p) /\ z = y + p
  BY <1>10, <1>11, <1>12, <1>13, <1>14, <1>15, <1>16, Zenon
<1>18. u = 2 * x - y - z
  BY <1>17
<1> QED
  BY <1>2, <1>3, <1>9, <1>16, <1>18, Zenon

\* The terms of a square, with what they are worth; m bounds a product.
IsTerm(t, k) ==
    t \in Terms /\ (t.op = "muladd2" => ~t.fast) /\ (t.fast => k \in {0, 2 * L - 2})
SqrWorth(t, a, k, i, m) ==
    \/ 2 * i = k /\ Worth(t) = a[i] * a[i] /\ Worth(t) <= m
    \/ 2 * i < k /\ k - i \in Index /\ Worth(t) = a[i] * a[k - i] + a[i] * a[k - i] /\ Worth(t) <= m + m
    \/ (2 * i > k \/ (2 * i < k /\ k - i \notin Index)) /\ Worth(t) = 0

\* Every term of a square is one of them.
LEMMA SqrTermIs ==
    ASSUME LimbsFit, NEW a, Limbs(a, L), NEW k \in 0..(2 * L - 2), NEW i \in Index, NEW t, t = SqrTerms(a)[k][i],
           NEW m \in Nat, m = (B - 1) * (B - 1)
    PROVE  IsTerm(t, k) /\ SqrWorth(t, a, k, i, m)
<1>1. L \in Nat /\ L >= 4 /\ Index = 0..(L - 1)
  BY Sizes
<1>2. t = IF 2 * i = k THEN Product(a[i], a[i], k \in {0, 2 * L - 2})
          ELSE IF 2 * i < k /\ k - i \in Index THEN Twice(a[i], a[k - i])
          ELSE Nothing
  BY Zenon DEF SqrTerms
<1>3. PICK x \in 0..(B - 1) : x = a[i]
  BY <1>1, Zenon DEF Limbs
<1>5. CASE 2 * i = k
  <2>1. PICK fast \in BOOLEAN : /\ fast = (k \in {0, 2 * L - 2})
                                /\ fast => k \in {0, 2 * L - 2}
    <3>1. CASE k \in {0, 2 * L - 2}
      <4>1. (k \in {0, 2 * L - 2}) = TRUE
        BY <3>1
      <4> QED
        BY <3>1, <4>1, Zenon
    <3>2. CASE k \notin {0, 2 * L - 2}
      <4>1. (k \in {0, 2 * L - 2}) = FALSE
        BY <3>2
      <4> QED
        BY <3>2, <4>1, Zenon
    <3> QED
      BY <3>1, <3>2
  <2>2. t = Product(x, x, fast)
    BY <1>2, <1>3, <1>5, <2>1, Zenon
  <2>3. t \in Terms /\ t.op = "muladd" /\ t.fast = fast /\ Worth(t) = x * x
    BY ONLY <2>2, LimbsFit, x \in 0..(B - 1), fast \in BOOLEAN, TermsTyped, Zenon
  <2>4. x * x <= m
    BY LimbProduct
  <2>5. IsTerm(t, k)
    <3>1. "muladd" # "muladd2"
      OBVIOUS
    <3> QED
      BY <2>1, <2>3, <3>1, Zenon DEF IsTerm
  <2> QED
    BY <1>3, <1>5, <2>3, <2>4, <2>5, Zenon DEF SqrWorth
<1>6. CASE 2 * i < k /\ k - i \in Index
  <2>1. PICK y \in 0..(B - 1) : y = a[k - i]
    BY <1>1, <1>6 DEF Limbs
  <2>2. t = Twice(x, y)
    BY <1>2, <1>3, <1>6, <2>1
  <2>3. PICK fast \in BOOLEAN : fast = TRUE
    BY Zenon
  <2>4. t \in Terms /\ t.op = "muladd2" /\ t.fast = FALSE /\ Worth(t) = x * y + x * y
    BY ONLY <2>2, LimbsFit, x \in 0..(B - 1), y \in 0..(B - 1), fast \in BOOLEAN, TermsTyped, Zenon
  <2>5. x * y <= m /\ x * y \in Nat
    BY LimbProduct
  <2>6. x * y + x * y <= m + m
    <3> PICK z \in Nat : z = x * y
      BY <2>5
    <3> QED
      BY <2>5
  <2>7. IsTerm(t, k)
    BY <2>4, Zenon DEF IsTerm
  <2> QED
    BY <1>3, <1>6, <2>1, <2>4, <2>6, <2>7, Zenon DEF SqrWorth
<1>7. CASE 2 * i > k \/ (2 * i < k /\ k - i \notin Index)
  <2>1. t = Nothing
    <3>1. 2 * i # k
      <4> PICK x1 \in Int, y1 \in Int : x1 = 2 * i /\ y1 = k
        BY <1>1
      <4> QED
        BY <1>7
    <3>2. ~(2 * i < k /\ k - i \in Index)
      <4> PICK x1 \in Int, y1 \in Int : x1 = 2 * i /\ y1 = k
        BY <1>1
      <4> QED
        BY <1>7
    <3> QED
      BY <1>2, <3>1, <3>2, Zenon
  <2>2. PICK fast \in BOOLEAN : fast = TRUE
    BY Zenon
  <2>3. Nothing \in Terms /\ Nothing.op = "none" /\ Nothing.fast = FALSE /\ Worth(Nothing) = 0
    BY ONLY LimbsFit, x \in 0..(B - 1), fast \in BOOLEAN, TermsTyped, Zenon
  <2>4. "none" # "muladd2"
    OBVIOUS
  <2>5. IsTerm(t, k)
    BY <2>1, <2>3, <2>4, Zenon DEF IsTerm
  <2> QED
    BY <1>7, <2>1, <2>3, <2>5, Zenon DEF SqrWorth
<1>8. 2 * i = k \/ 2 * i < k \/ 2 * i > k
  <2> PICK l \in Nat, e \in Int, j \in Int : l = L /\ e = k /\ j = i
    BY <1>1
  <2> QED
    OBVIOUS
<1> QED
  BY <1>5, <1>6, <1>7, <1>8, Zenon

\* The products of the first j terms of column k of a square: from the first pair
\* of limbs that the column has, two for each, and no more than the column has.
SquareFirst(k) == IF k < L THEN 0 ELSE k - (L - 1)
SquareCount(k) ==
    [j \in 0..L |-> LET n == k + 1 - 2 * SquareFirst(k)
                    IN IF j <= SquareFirst(k) THEN 0
                       ELSE IF 2 * (j - SquareFirst(k)) <= n THEN 2 * (j - SquareFirst(k)) ELSE n]

\* The count of a term is at most l, and the next one has the products of it.
LEMMA SquareCountIs ==
    ASSUME NEW l \in Nat, l >= 4, NEW k \in 0..(2 * l - 2), NEW lo \in Nat, NEW n \in Int,
           lo = IF k < l THEN 0 ELSE k - (l - 1), n = k + 1 - 2 * lo,
           NEW i \in 0..(l - 1), NEW p, NEW q,
           p = (IF i <= lo THEN 0 ELSE IF 2 * (i - lo) <= n THEN 2 * (i - lo) ELSE n),
           q = (IF i + 1 <= lo THEN 0 ELSE IF 2 * (i + 1 - lo) <= n THEN 2 * (i + 1 - lo) ELSE n)
    PROVE  /\ p \in Nat /\ q \in Nat /\ p <= q /\ p <= l /\ q <= l
           /\ 2 * i = k => q >= p + 1
           /\ 2 * i < k /\ k - i \in 0..(l - 1) => q >= p + 2
<1>1. n >= 1 /\ n <= l
  OBVIOUS
<1>2. CASE i <= lo
  <2>1. p = 0
    BY <1>2
  <2> QED
    BY <1>1, <1>2, <2>1
<1>3. CASE i > lo
  BY <1>1, <1>3
<1> QED
  BY <1>2, <1>3

\* SquareCount counts the products of the terms, and a column never has more than L.
LEMMA SquareCounted ==
    ASSUME LimbsFit, NEW a, Limbs(a, L), NEW k \in 0..(2 * L - 2), NEW m \in Nat, m = (B - 1) * (B - 1)
    PROVE  Counts(SquareCount(k), SqrTerms(a)[k], L, m) /\ SquareCount(k)[L] <= L
<1>1. L \in Nat /\ L >= 4 /\ Index = 0..(L - 1)
  BY Sizes
<1>2. PICK l \in Nat, lo \in Nat, n \in Int :
           l = L /\ lo = SquareFirst(k) /\ n = k + 1 - 2 * lo /\ lo = IF k < l THEN 0 ELSE k - (l - 1)
  <2>1. PICK l \in Nat, e \in Nat : l = L /\ e = k
    BY <1>1
  <2>2. PICK lo : lo = IF e < l THEN 0 ELSE e - (l - 1)
    OBVIOUS
  <2>3. lo \in Nat
    BY <2>2
  <2>4. lo = SquareFirst(k)
    BY <2>1, <2>2, Zenon DEF SquareFirst
  <2>5. PICK n : n = e + 1 - 2 * lo
    OBVIOUS
  <2>6. n \in Int
    BY <2>3, <2>5
  <2> QED
    BY <2>1, <2>2, <2>3, <2>4, <2>5, <2>6, Zenon
<1>3. PICK c : c = SquareCount(k)
  OBVIOUS
<1>4. /\ DOMAIN c = 0..L
      /\ \A j \in 0..L : c[j] = IF j <= lo THEN 0 ELSE IF 2 * (j - lo) <= n THEN 2 * (j - lo) ELSE n
      /\ c = [j \in 0..L |-> c[j]]
  BY <1>2, <1>3, Zenon DEF SquareCount
<1>5. ASSUME NEW i \in 0..(L - 1)
      PROVE  /\ c[i] \in Nat /\ c[i + 1] \in Nat /\ c[i] <= c[i + 1] /\ c[i] <= L /\ c[i + 1] <= L
             /\ 2 * i = k => c[i + 1] >= c[i] + 1
             /\ 2 * i < k /\ k - i \in Index => c[i + 1] >= c[i] + 2
  <2>1. i \in 0..L /\ i + 1 \in 0..L /\ i \in 0..(l - 1) /\ k \in 0..(2 * l - 2) /\ l >= 4
    BY <1>1, <1>2
  <2>2. PICK p, q : p = c[i] /\ q = c[i + 1]
    OBVIOUS
  <2>3. p = (IF i <= lo THEN 0 ELSE IF 2 * (i - lo) <= n THEN 2 * (i - lo) ELSE n)
    BY <1>4, <2>1, <2>2, Zenon
  <2>4. q = (IF i + 1 <= lo THEN 0 ELSE IF 2 * (i + 1 - lo) <= n THEN 2 * (i + 1 - lo) ELSE n)
    <3>1. PICK j \in 0..L : j = i + 1
      BY <2>1
    <3>2. c[j] = IF j <= lo THEN 0 ELSE IF 2 * (j - lo) <= n THEN 2 * (j - lo) ELSE n
      BY <1>4, Zenon
    <3>3. i \in Int
      OBVIOUS
    <3> QED
      BY ONLY n \in Int, lo \in Nat, <2>2, <3>1, <3>2, <3>3
  <2>5. /\ p \in Nat /\ q \in Nat /\ p <= q /\ p <= l /\ q <= l
        /\ 2 * i = k => q >= p + 1
        /\ 2 * i < k /\ k - i \in 0..(l - 1) => q >= p + 2
    <3>1. PICK e \in 0..(2 * l - 2), j \in 0..(l - 1) : e = k /\ j = i
      BY <2>1
    <3>2. l >= 4
      BY <2>1
    <3>3. lo = IF e < l THEN 0 ELSE e - (l - 1)
      BY <1>2, <3>1, Zenon
    <3>4. n = e + 1 - 2 * lo
      BY <1>2, <3>1, Zenon
    <3>5. p = (IF j <= lo THEN 0 ELSE IF 2 * (j - lo) <= n THEN 2 * (j - lo) ELSE n)
      BY <2>3, <3>1, Zenon
    <3>6. q = (IF j + 1 <= lo THEN 0 ELSE IF 2 * (j + 1 - lo) <= n THEN 2 * (j + 1 - lo) ELSE n)
      BY <2>4, <3>1, Zenon
    <3>7. /\ p \in Nat /\ q \in Nat /\ p <= q /\ p <= l /\ q <= l
          /\ 2 * j = e => q >= p + 1
          /\ 2 * j < e /\ e - j \in 0..(l - 1) => q >= p + 2
      BY ONLY l \in Nat, lo \in Nat, n \in Int, e \in 0..(2 * l - 2), j \in 0..(l - 1), <3>2, <3>3, <3>4, <3>5, <3>6, SquareCountIs
    <3> QED
      BY <3>1, <3>7, Zenon
  <2> QED
    BY <1>1, <1>2, <2>2, <2>5, Zenon
<1>6. c \in [0..L -> Nat] /\ c[L] <= L
  <2>1. \A j \in 0..L : c[j] \in Nat
    <3> TAKE j \in 0..L
    <3>1. CASE j = L
      <4>1. PICK i \in 0..(L - 1) : i + 1 = L
        <5>1. L - 1 \in 0..(L - 1) /\ (L - 1) + 1 = L
          BY <1>1
        <5> QED
          BY <5>1
      <4> QED
        BY <1>5, <3>1, <4>1, Zenon
    <3>2. CASE j # L
      <4>1. j \in 0..(L - 1)
        BY <1>1, <3>2
      <4> QED
        BY <1>5, <4>1
    <3> QED
      BY <3>1, <3>2
  <2>2. PICK i \in 0..(L - 1) : i + 1 = L
    <3>1. L - 1 \in 0..(L - 1) /\ (L - 1) + 1 = L
      BY <1>1
    <3> QED
      BY <3>1
  <2>3. c[L] <= L
    BY <1>5, <2>2
  <2> QED
    BY <1>4, <2>1, <2>3
<1>7. ASSUME NEW i \in 0..(L - 1)
      PROVE  \/ Worth(SqrTerms(a)[k][i]) = 0 /\ c[i + 1] >= c[i]
             \/ Worth(SqrTerms(a)[k][i]) <= m /\ c[i + 1] >= c[i] + 1
             \/ Worth(SqrTerms(a)[k][i]) <= m + m /\ c[i + 1] >= c[i] + 2
  <2>1. PICK t : t = SqrTerms(a)[k][i]
    OBVIOUS
  <2>2. i \in Index
    BY <1>1
  <2>3. SqrWorth(t, a, k, i, m)
    BY ONLY LimbsFit, Limbs(a, L), k \in 0..(2 * L - 2), m \in Nat, m = (B - 1) * (B - 1), <2>1, <2>2, SqrTermIs
  <2>4. c[i + 1] >= c[i]
    <3>1. PICK p \in Nat, q \in Nat : p = c[i] /\ q = c[i + 1] /\ p <= q
      BY <1>5
    <3> QED
      BY <3>1
  <2> QED
    BY <1>5, <2>1, <2>3, <2>4, Zenon DEF SqrWorth
<1> QED
  BY <1>3, <1>6, <1>7, Zenon DEF Counts

\* The terms of a square, in columns that have room for them.
LEMMA SqrTermsFit ==
    ASSUME LimbsFit, NEW a, Limbs(a, L)
    PROVE  \E V, T : /\ ColumnsFit(0, 2 * L - 2, SqrTerms(a), L, V, T)
                     /\ Number(T, 2 * L - 1) = Number(a, L) * Number(a, L)
<1>1. PICK last \in Nat : last = 2 * L - 2 /\ last + 1 = 2 * L - 1 /\ last + 2 = 2 * L /\ last >= 1
  BY Sizes
<1>2. L \in Nat /\ L >= 4 /\ Index = 0..(L - 1)
  BY Sizes
<1>3. PICK terms : terms = SqrTerms(a)
  OBVIOUS
<1>4. PICK m \in Nat : m = (B - 1) * (B - 1)
  <2>1. PICK b \in Nat : b = B - 1
    BY Sizes
  <2>2. b * b \in Nat
    OBVIOUS
  <2> QED
    BY <2>1, <2>2
<1>5. ASSUME NEW k \in 0..last, NEW i \in 0..(L - 1)
      PROVE  IsTerm(terms[k][i], k) /\ SqrWorth(terms[k][i], a, k, i, m)
  <2>a. PICK e \in 0..(2 * L - 2), j \in Index : e = k /\ j = i
    BY <1>1, <1>2
  <2>b. PICK t : t = terms[k][i]
    OBVIOUS
  <2>1. e = k /\ j = i /\ t = SqrTerms(a)[e][j] /\ t = terms[k][i]
    BY <1>3, <2>a, <2>b, Zenon
  <2>2. t = SqrTerms(a)[e][j]
    BY <2>1
  <2>3. IsTerm(t, e) /\ SqrWorth(t, a, e, j, m)
    BY ONLY LimbsFit, Limbs(a, L), e \in 0..(2 * L - 2), j \in Index, m \in Nat, <1>4, <2>2, SqrTermIs
  <2> QED
    BY <2>1, <2>3, Zenon
<1>6. AllTerms(terms, last, L)
  BY <1>5, Zenon DEF AllTerms, AreTerms, IsTerm
<1>7. PICK V, T : Tops(terms, last, L, V, T)
  <2> PICK n \in Nat : n = L
    BY <1>2
  <2>1. AllTerms(terms, last, n)
    BY <1>6
  <2>2. \E V, T : Tops(terms, last, n, V, T)
    BY ONLY LimbsFit, last \in Nat, n \in Nat, <2>1, AllWorths
  <2> QED
    BY <2>2
<1>8. \A k \in 0..last : AreTerms(terms[k], L) /\ IsWorth(V[k], terms[k], L) /\ T[k] = V[k][L]
  BY <1>6, <1>7, Zenon DEF AllTerms, Tops
<1>9. TermsFit(last, terms, L, V, T)
  <2> SUFFICES ASSUME NEW k \in 0..last
               PROVE  T[k] <= L * ((B - 1) * (B - 1))
    BY <1>8, Zenon DEF TermsFit
  <2>a. PICK e \in 0..(2 * L - 2) : e = k
    BY <1>1
  <2>b. PICK t, v, c : t = terms[k] /\ v = V[k] /\ c = SquareCount(e)
    OBVIOUS
  <2>1. e = k /\ t = terms[k] /\ v = V[k] /\ c = SquareCount(e)
    BY <2>a, <2>b, Zenon
  <2>2. t = SqrTerms(a)[e]
    BY <1>3, <2>1, Zenon
  <2>3. Counts(c, t, L, m) /\ c[L] <= L
    <3>1. Counts(SquareCount(e), SqrTerms(a)[e], L, m) /\ SquareCount(e)[L] <= L
      BY ONLY LimbsFit, Limbs(a, L), e \in 0..(2 * L - 2), m \in Nat, <1>4, SquareCounted
    <3> QED
      BY <2>1, <2>2, <3>1, Zenon
  <2>4. AreTerms(t, L) /\ IsWorth(v, t, L) /\ T[k] = v[L]
    BY <1>8, <2>1, Zenon
  <2>5. v[L] <= c[L] * m
    <3> PICK n \in Nat : n = L
      BY <1>2
    <3>1. AreTerms(t, n)
      BY <2>4
    <3>2. IsWorth(v, t, n)
      BY <2>4
    <3>3. Counts(c, t, n, m)
      BY <2>3
    <3>4. v[n] <= c[n] * m
      BY ONLY LimbsFit, n \in Nat, m \in Nat, <3>1, <3>2, <3>3, WorthCounted
    <3> QED
      BY <3>4, Zenon
  <2>6. PICK x \in Int, l \in Nat : x = c[L] /\ l = L /\ x <= l
    <3>1. c[L] \in Nat
      BY <1>2, <2>3 DEF Counts
    <3> QED
      BY <1>2, <2>3, <3>1
  <2>7. x * m <= l * m
    BY <2>6, TimesMonotone
  <2>8. PICK y \in Nat : y = v[L]
    BY <1>2, <2>4 DEF IsWorth
  <2>9. y <= x * m
    BY <2>5, <2>6, <2>8, Zenon
  <2>10. y <= l * m
    <3> PICK p \in Int, q \in Int : p = x * m /\ q = l * m
      OBVIOUS
    <3> QED
      BY <2>7, <2>9
  <2> QED
    BY <1>4, <2>4, <2>6, <2>8, <2>10, Zenon
<1>10. FastFit(last, terms, L)
  <2> SUFFICES ASSUME NEW k \in 0..last, NEW i \in 0..(L - 1), terms[k][i].fast
               PROVE  k \in {0, last}
    BY Zenon DEF FastFit
  <2>1. IsTerm(terms[k][i], k)
    BY <1>5
  <2> QED
    BY <1>1, <2>1, Zenon DEF IsTerm
<1>11. 0 + T[0] < B * B
  <2>1. 0 \in 0..last /\ 0 \in 0..(L - 1)
    BY <1>1, <1>2
  <2>2. \A i \in 0..(L - 1) : i # 0 => Worth(terms[0][i]) = 0
    <3> TAKE i \in 0..(L - 1)
    <3>1. i # 0 => ~(2 * i = 0) /\ ~(2 * i < 0)
      BY <1>2
    <3>2. SqrWorth(terms[0][i], a, 0, i, m)
      BY <1>5, <2>1
    <3> QED
      BY <3>1, <3>2, Zenon DEF SqrWorth
  <2>3. PICK t, v : t = terms[0] /\ v = V[0]
    OBVIOUS
  <2>4. AreTerms(t, L) /\ IsWorth(v, t, L) /\ (\A i \in 0..(L - 1) : i # 0 => Worth(t[i]) = 0) /\ T[0] = v[L]
    BY <1>8, <2>1, <2>2, <2>3, Zenon
  <2>5. v[L] = Worth(t[0])
    BY ONLY <1>2, <2>1, <2>4, LimbsFit, OnlyOne
  <2>6. Worth(t[0]) <= m /\ Worth(t[0]) \in Nat
    <3>1. SqrWorth(t[0], a, 0, 0, m) /\ t[0] \in Terms
      BY <1>5, <2>1, <2>3, <2>4 DEF AreTerms
    <3>2. Worth(t[0]) \in Nat
      BY <3>1, WorthNat
    <3>3. 2 * 0 = 0 /\ ~(2 * 0 < 0) /\ ~(2 * 0 > 0)
      OBVIOUS
    <3>4. Worth(t[0]) <= m
      BY <3>1, <3>3, Zenon DEF SqrWorth
    <3> QED
      BY <3>2, <3>4
  <2>7. PICK b \in Nat, c \in Nat : b = B /\ c = T[0] /\ c <= m /\ b >= 1
    <3>1. B \in Nat /\ B >= 4 /\ T[0] = Worth(t[0])
      BY <2>4, <2>5, Sizes, Zenon
    <3> QED
      BY <2>6, <3>1
  <2>8. (b - 1) * (b - 1) < b * b
    BY <2>7
  <2>9. c < b * b
    <3>1. m = (b - 1) * (b - 1)
      BY <1>4, <2>7, Zenon
    <3> PICK x \in Int, y \in Int : x = (b - 1) * (b - 1) /\ y = b * b
      OBVIOUS
    <3> QED
      BY <2>7, <2>8, <3>1
  <2> QED
    BY <2>7, <2>9
<1>12. IntLimbs(a, L) /\ Number(a, L) \in Nat /\ Number(a, L) < Place(L)
  BY <1>2, LimbsInt, NumberBound
<1>13. PICK y \in Nat : y = Number(a, L)
  BY <1>12
<1> DEFINE R == [j \in 0..L |-> Number(a, j) * (2 * y - Number(a, j))]
<1>14. AreRows(R, terms, last, L)
  <2>1. R[0] = 0
    <3>1. Number(a, 0) = 0 /\ 0 \in 0..L
      BY <1>2, NumberZero
    <3>2. R[0] = 0 * (2 * y - 0)
      BY <3>1, Zenon
    <3>3. 0 * (2 * y - 0) = 0
      OBVIOUS
    <3> QED
      BY <3>2, <3>3, Zenon
  <2>2. ASSUME NEW j \in 0..(L - 1)
        PROVE  R[j + 1] = R[j] + Number(Worths(terms, last, j), last + 1)
    <3>1. j \in Nat /\ j + L <= last + 1 /\ j \in 0..L /\ j + 1 \in 0..L /\ j \in Index
      BY <1>1, <1>2
    <3>2. PICK c \in 0..(B - 1) : c = a[j]
      BY DEF Limbs
    <3>3. c \in Int
      BY <3>2, Sizes
    <3>40. PICK q \in Nat : q = L
      BY <1>2
    <3>4. PICK g : g = HalfSquare(a, j) /\ q = L
      BY <3>40
    <3>5. IntLimbs(g, q) /\ Number(g, q) = 2 * Number(a, L) - Number(a, j) - Number(a, j + 1)
      BY <1>12, <3>1, <3>4, HalfSquareRight
    <3>6. \A e \in 0..(q - 1) : g[e] = IF e < j THEN 0 ELSE IF e = j THEN a[j] ELSE 2 * a[e]
      BY <1>2, <3>4, Zenon DEF HalfSquare
    <3>7. IsRow(terms, last, j, c, j, g, q)
      <4> SUFFICES ASSUME NEW k \in 0..last
                   PROVE  Worth(terms[k][j]) = IF k - j \in 0..(q - 1) THEN c * g[k - j] ELSE 0
        BY Zenon DEF IsRow
      <4>1. PICK t : t = terms[k][j]
        OBVIOUS
      <4>2. SqrWorth(t, a, k, j, m)
        BY <1>5, <4>1
      <4>3. PICK x \in Int, e \in Int : x = k /\ e = k - j
        BY <3>1
      <4>4. CASE 2 * j = k
        <5>1. e = j /\ e \in 0..(q - 1)
          BY <3>1, <3>4, <4>3, <4>4
        <5>2. ~(2 * j < k) /\ ~(2 * j > k)
          BY <3>1, <4>3, <4>4
        <5>3. Worth(t) = a[j] * a[j]
          BY <4>2, <5>2, Zenon DEF SqrWorth
        <5>4. ~(j < j)
          BY <3>1
        <5>5. g[j] = a[j]
          BY <3>6, <5>1, <5>4, Zenon
        <5> QED
          BY <3>2, <4>1, <4>3, <5>1, <5>3, <5>5, Zenon
      <4>5. CASE 2 * j < k
        <5>1. e # j /\ ~(e < j) /\ ~(2 * j = k) /\ ~(2 * j > k)
          BY <3>1, <4>3, <4>5
        <5>2. CASE e \in 0..(q - 1)
          <6>1. k - j \in Index
            BY <1>2, <3>4, <4>3, <5>2, Zenon
          <6>2. Worth(t) = a[j] * a[k - j] + a[j] * a[k - j]
            BY <4>2, <5>1, <6>1, Zenon DEF SqrWorth
          <6>3. g[e] = 2 * a[e]
            BY <3>6, <5>1, <5>2, Zenon
          <6>4. PICK z \in Int : z = a[e]
            <7>1. a[e] \in 0..(B - 1)
              BY <3>4, <5>2 DEF Limbs
            <7> QED
              BY <7>1, Sizes
          <6>5. c * z + c * z = c * (2 * z)
            BY <3>3
          <6> QED
            BY <3>2, <4>1, <4>3, <5>2, <6>2, <6>3, <6>4, <6>5, Zenon
        <5>3. CASE e \notin 0..(q - 1)
          <6>1. k - j \notin Index
            BY <1>2, <3>4, <4>3, <5>3, Zenon
          <6>2. Worth(t) = 0
            BY <4>2, <5>1, <6>1, Zenon DEF SqrWorth
          <6> QED
            BY <4>1, <4>3, <5>3, <6>2, Zenon
        <5> QED
          BY <5>2, <5>3
      <4>6. CASE 2 * j > k
        <5>1. e < j /\ ~(2 * j = k) /\ ~(2 * j < k)
          BY <3>1, <4>3, <4>6
        <5>2. Worth(t) = 0
          BY <4>2, <5>1, Zenon DEF SqrWorth
        <5>3. e \in 0..(q - 1) => g[e] = 0
          BY <3>6, <5>1, Zenon
        <5>4. c * 0 = 0
          BY <3>3
        <5> QED
          BY <4>1, <4>3, <5>2, <5>3, <5>4, Zenon
      <4>7. 2 * j = k \/ 2 * j < k \/ 2 * j > k
        BY <3>1, <4>3
      <4> QED
        BY <4>4, <4>5, <4>6, <4>7, Zenon
    <3>8. Number(Worths(terms, last, j), last + 1) = RowNumber(c, j, g, q)
      <4> PICK s \in Nat, d \in Int : s = j /\ d = c
        BY <3>1, <3>3
      <4>1. IsRow(terms, last, s, d, s, g, q)
        BY <3>7
      <4>2. s + q <= last + 1
        BY <3>1, <3>4
      <4>3. IntLimbs(g, q)
        BY <3>5
      <4>4. Number(Worths(terms, last, s), last + 1) = RowNumber(d, s, g, q)
        BY ONLY LimbsFit, last \in Nat, s \in Nat, q \in Nat, d \in Int, <4>1, <4>2, <4>3, RowRight
      <4> QED
        BY <4>4
    <3>9. PICK u \in Int, w \in Int, p \in Nat : u = Number(a, j) /\ w = Number(a, j + 1) /\ p = Place(j)
                                                 /\ w = u + c * p
      <4> PICK s \in Nat : s = j + 1
        BY <3>1
      <4>1. s <= L
        BY <1>2, <3>1
      <4>2. IntLimbs(a, s)
        BY ONLY LimbsFit, s \in Nat, <1>2, <4>1, Limbs(a, L), LimbsInt
      <4>3. Number(a, j) \in Int /\ Number(a, j + 1) = Number(a, j) + a[j] * Place(j)
        BY <3>1, <4>2, NumberStep
      <4>4. Place(j) \in Nat
        BY <3>1, Places
      <4>5. Number(a, s) \in Int
        BY <4>2, NumberInt
      <4> QED
        BY <3>2, <4>3, <4>4, <4>5
    <3>10. RowNumber(c, j, g, q) = (c * p) * (2 * y - u - w)
      BY <1>13, <3>5, <3>9, Zenon DEF RowNumber
    <3>11. R[j + 1] = w * (2 * y - w) /\ R[j] = u * (2 * y - u)
      BY <3>1, <3>9, Zenon
    <3>12. w * (2 * y - w) = u * (2 * y - u) + (c * p) * (2 * y - u - w)
      <4> PICK d \in Int : d = c * p
        BY <3>3
      <4>1. w = u + d
        BY <3>9
      <4>2. (u + d) * (2 * y - (u + d)) = u * (2 * y - u) + d * (2 * y - u - (u + d))
        OBVIOUS
      <4> QED
        BY <4>1, <4>2, Zenon
    <3> QED
      BY <3>8, <3>10, <3>11, <3>12, Zenon
  <2> HIDE DEF R
  <2> QED
    BY <2>1, <2>2 DEF AreRows
<1>15. R[L] = y * y
  <2>1. L \in 0..L
    BY <1>2
  <2>2. R[L] = y * (2 * y - y)
    BY <1>13, <2>1, Zenon
  <2>3. y * (2 * y - y) = y * y
    OBVIOUS
  <2> QED
    BY <2>2, <2>3, Zenon
<1> HIDE DEF R
<1>16. Number(T, last + 1) = y * y
  <2> PICK n \in Nat : n = L
    BY <1>2
  <2> PICK r : r = R
    OBVIOUS
  <2>1. AllTerms(terms, last, n)
    BY <1>6, Zenon
  <2>2. Tops(terms, last, n, V, T)
    BY <1>7, Zenon
  <2>3. AreRows(r, terms, last, n)
    BY <1>14, Zenon
  <2>4. Number(T, last + 1) = r[n]
    BY ONLY LimbsFit, last \in Nat, n \in Nat, <2>1, <2>2, <2>3, RowsRight
  <2> QED
    BY <1>15, <2>4, Zenon
<1>17. 0 + Number(T, last + 1) < Place(last + 2)
  <2>1. PICK p \in Nat : p = Place(L) /\ y < p
    <3>1. Place(L) \in Nat
      BY <1>2, Places
    <3> QED
      BY <1>12, <1>13, <3>1
  <2>2. y * y \in Nat /\ y * y < p * p
    BY ONLY y \in Nat, p \in Nat, <2>1, SmallerProduct
  <2>3. Place(L + L) = Place(L) * Place(L)
    BY <1>2, PlaceSum
  <2>4. last + 2 = L + L
    BY <1>1, <1>2
  <2>5. Place(last + 2) = p * p
    BY <2>1, <2>3, <2>4, Zenon
  <2> QED
    BY <1>16, <2>2, <2>5
<1>18. ColumnsFit(0, last, terms, L, V, T)
  <2>1. 0 \in 0..(B - 1)
    BY Sizes
  <2> QED
    BY <1>1, <1>2, <1>9, <1>10, <1>11, <1>17, <2>1 DEF ColumnsFit
<1> QED
  BY <1>1, <1>3, <1>13, <1>16, <1>18, Zenon

\* The same of the square.
THEOREM ScalarSqr512 ==
    ASSUME LimbsFit, NEW a, Limbs(a, L)
    PROVE  /\ IsProduct512(scalar_sqr_512(a), Number(a, L) * Number(a, L))
           /\ IsProduct512(scalar_sqr_512_asm(a), Number(a, L) * Number(a, L))
<1> PICK terms : terms = SqrTerms(a)
  OBVIOUS
<1>1. PICK V, T : /\ ColumnsFit(0, 2 * L - 2, terms, L, V, T)
                  /\ Number(T, 2 * L - 1) = Number(a, L) * Number(a, L)
  BY SqrTermsFit
<1>2. ASSUME NEW asm \in BOOLEAN
      PROVE  IsProduct512(Product512(terms, asm), Number(a, L) * Number(a, L))
  <2>1. LET p == Product512(terms, asm)
        IN p.ok /\ Limbs(p.l, 2 * L) /\ Number(p.l, 2 * L) = Number(T, 2 * L - 1)
    BY ONLY LimbsFit, asm \in BOOLEAN, <1>1, ProductRight
  <2> QED
    BY <1>1, <2>1, Zenon DEF IsProduct512
<1>3. IsProduct512(Product512(terms, TRUE), Number(a, L) * Number(a, L))
  BY <1>2, Zenon
<1>4. IsProduct512(Product512(terms, FALSE), Number(a, L) * Number(a, L))
  BY <1>2, Zenon
<1> QED
  BY <1>3, <1>4, Zenon DEF scalar_sqr_512, scalar_sqr_512_asm

-----------------------------------------------------------------------------
(* The number reduced: the limbs above L, times the complement, are added. *)

\* Two numbers in limbs that a pass can add: q limbs of the upper one are within
\* the columns of the last row.
FoldFits(low, high, n, q, last) ==
    /\ n \in Nat /\ q \in Nat /\ last \in Nat /\ n >= 1 /\ q >= 1 /\ q <= n
    /\ n + H <= last + 2 /\ H + q = last + 1 /\ last >= L - 1
    /\ Limbs(low, L) /\ Limbs(high, n)

\* What every term of a pass is.
FoldTerm(t, k, i, last, m) ==
    /\ t \in Terms /\ t.op # "muladd2" /\ Worth(t) <= m
    /\ t.fast => k \in {0, last} \/ (k = 1 /\ i = 0)

\* The first term of a column: the limb of the lower number, but for limb 0,
\* that the accumulator starts with.
LEMMA FoldLow ==
    ASSUME LimbsFit, NEW low, NEW high, NEW n, NEW q, NEW last, FoldFits(low, high, n, q, last),
           NEW m \in Nat, B - 1 <= m,
           NEW k \in 0..last, NEW t, t = FoldTerms(low, high, n, last)[k][0]
    PROVE  /\ FoldTerm(t, k, 0, last, m) /\ Worth(t) <= B - 1
           /\ Worth(t) = IF k \in 1..(L - 1) THEN low[k] ELSE 0
<1>1. L \in Nat /\ L >= 4 /\ H \in Nat /\ B \in Nat /\ B >= 4
  BY Sizes
<1>2. PICK fast \in BOOLEAN : /\ fast = (k \in {0, last} \/ k = 1)
                              /\ fast => k \in {0, last} \/ k = 1
  <2>1. CASE k \in {0, last} \/ k = 1
    <3>1. (k \in {0, last} \/ k = 1) = TRUE
      BY <2>1
    <3> QED
      BY <2>1, <3>1, Zenon
  <2>2. CASE ~(k \in {0, last} \/ k = 1)
    <3>1. (k \in {0, last} \/ k = 1) = FALSE
      BY <2>2
    <3> QED
      BY <2>2, <3>1, Zenon
  <2> QED
    BY <2>1, <2>2
<1>3. t = IF k \in 1..(L - 1) THEN Single(low[k], fast) ELSE Nothing
  <2>1. 0 \in 0..(H + 1)
    BY <1>1
  <2> QED
    BY <1>2, <2>1, Zenon DEF FoldTerms
<1>4. "sumadd" # "muladd2" /\ "none" # "muladd2"
  OBVIOUS
<1>5. CASE k \in 1..(L - 1)
  <2>1. low[k] \in 0..(B - 1)
    <3>1. k \in 0..(L - 1) /\ Limbs(low, L)
      BY <1>1, <1>5 DEF FoldFits
    <3> QED
      BY <3>1 DEF Limbs
  <2>2. PICK x \in 0..(B - 1) : x = low[k]
    BY <2>1
  <2>3. t = Single(x, fast)
    BY <1>3, <1>5, <2>2, Zenon
  <2>4. t \in Terms /\ t.op = "sumadd" /\ t.fast = fast /\ Worth(t) = x
    BY ONLY <2>3, LimbsFit, x \in 0..(B - 1), fast \in BOOLEAN, TermsTyped, Zenon
  <2>5. x <= B - 1 /\ x <= m
    BY <1>1
  <2> QED
    BY <1>2, <1>4, <1>5, <2>2, <2>4, <2>5, Zenon DEF FoldTerm
<1>6. CASE k \notin 1..(L - 1)
  <2>1. t = Nothing
    BY <1>3, <1>6, Zenon
  <2>2. PICK x \in 0..(B - 1) : x = 0
    BY <1>1
  <2>3. Nothing \in Terms /\ Nothing.op = "none" /\ Nothing.fast = FALSE /\ Worth(Nothing) = 0
    BY ONLY LimbsFit, x \in 0..(B - 1), fast \in BOOLEAN, TermsTyped, Zenon
  <2>4. 0 <= B - 1 /\ 0 <= m
    BY <1>1
  <2> QED
    BY <1>4, <1>6, <2>1, <2>3, <2>4, Zenon DEF FoldTerm
<1> QED
  BY <1>5, <1>6

\* The other terms: the products of the complement and the upper number.
LEMMA FoldHigh ==
    ASSUME LimbsFit, NEW low, NEW high, NEW n, NEW q, NEW last, FoldFits(low, high, n, q, last),
           NEW m \in Nat, (B - 1) * (B - 1) = m,
           NEW k \in 0..last, NEW e \in 0..H, NEW t, t = FoldTerms(low, high, n, last)[k][e + 1]
    PROVE  /\ FoldTerm(t, k, e + 1, last, m)
           /\ Worth(t) = IF k - e \in 0..(n - 1) THEN Cs[e] * high[k - e] ELSE 0
<1>1. L \in Nat /\ L >= 4 /\ H \in Nat
  BY Sizes
<1>2. PICK fast \in BOOLEAN : /\ fast = (k \in {0, last})
                              /\ fast => k \in {0, last}
  <2>1. CASE k \in {0, last}
    <3>1. (k \in {0, last}) = TRUE
      BY <2>1
    <3> QED
      BY <2>1, <3>1, Zenon
  <2>2. CASE k \notin {0, last}
    <3>1. (k \in {0, last}) = FALSE
      BY <2>2
    <3> QED
      BY <2>2, <3>1, Zenon
  <2> QED
    BY <2>1, <2>2
<1>3. PICK j : j = k - e
  OBVIOUS
<1>4. t = IF j \notin 0..(n - 1) THEN Nothing
          ELSE IF e = H THEN Single(high[j], fast)
          ELSE Product(high[j], Cs[e], fast)
  <2>1. PICK i \in 0..(H + 1) : i = e + 1 /\ i # 0 /\ i - 1 = e
    BY <1>1
  <2>2. t = FoldTerms(low, high, n, last)[k][i]
    BY <2>1
  <2>3. t = IF k - (i - 1) \notin 0..(n - 1) THEN Nothing
            ELSE IF i - 1 = H THEN Single(high[k - (i - 1)], k \in {0, last})
            ELSE Product(high[k - (i - 1)], Cs[i - 1], k \in {0, last})
    BY <2>1, <2>2, Zenon DEF FoldTerms
  <2> QED
    BY <1>2, <1>3, <2>1, <2>3, Zenon
<1>5. "sumadd" # "muladd2" /\ "none" # "muladd2" /\ "muladd" # "muladd2"
  OBVIOUS
<1>6. Cs[e] \in 0..(B - 1) /\ (e = H => Cs[e] = 1)
  <2>1. Limbs(Cs, H + 1) /\ e \in 0..((H + 1) - 1)
    BY <1>1, OrderSize
  <2>2. Cs[e] \in 0..(B - 1)
    BY <2>1 DEF Limbs
  <2>3. Cs[H] = 1
    <3>1. H \in 0..H
      BY <1>1
    <3>2. ~(H < H)
      BY <1>1
    <3> QED
      BY <3>1, <3>2, Zenon DEF Cs
  <2> QED
    BY <2>2, <2>3
<1>7. CASE j \in 0..(n - 1)
  <2>1. high[j] \in 0..(B - 1)
    BY <1>7 DEF Limbs, FoldFits
  <2>2. PICK x \in 0..(B - 1), y \in 0..(B - 1) : x = high[j] /\ y = Cs[e]
    BY <1>6, <2>1
  <2>3. x * y <= m
    BY LimbProduct
  <2>4. x * y = y * x /\ x * 1 = x /\ 1 * x = x
    <3> PICK u \in Int, v \in Int : u = x /\ v = y
      <4>1. B \in Nat
        BY Sizes
      <4> QED
        BY <4>1
    <3> QED
      OBVIOUS
  <2>5. CASE e = H
    <3>1. t = Single(x, fast)
      BY <1>4, <1>7, <2>2, <2>5, Zenon
    <3>2. t \in Terms /\ t.op = "sumadd" /\ t.fast = fast /\ Worth(t) = x
      BY ONLY <3>1, LimbsFit, x \in 0..(B - 1), fast \in BOOLEAN, TermsTyped, ZenonT(60)
    <3>3. y = 1
      BY <1>6, <2>2, <2>5
    <3>4. x = y * x /\ x <= m
      BY <2>3, <2>4, <3>3, Zenon
    <3> QED
      BY <1>2, <1>3, <1>5, <1>7, <2>2, <3>2, <3>4, Zenon DEF FoldTerm
  <2>6. CASE e # H
    <3>1. t = Product(x, y, fast)
      BY <1>4, <1>7, <2>2, <2>6, Zenon
    <3>2. t \in Terms /\ t.op = "muladd" /\ t.fast = fast /\ Worth(t) = x * y
      BY ONLY <3>1, LimbsFit, x \in 0..(B - 1), y \in 0..(B - 1), fast \in BOOLEAN, TermsTyped, ZenonT(60)
    <3> QED
      BY <1>2, <1>3, <1>5, <1>7, <2>2, <2>3, <2>4, <3>2, Zenon DEF FoldTerm
  <2> QED
    BY <2>5, <2>6
<1>8. CASE j \notin 0..(n - 1)
  <2>1. t = Nothing
    BY <1>4, <1>8, Zenon
  <2>2. PICK x \in 0..(B - 1) : x = Cs[e]
    BY <1>6
  <2>3. Nothing \in Terms /\ Nothing.op = "none" /\ Nothing.fast = FALSE /\ Worth(Nothing) = 0
    BY ONLY LimbsFit, x \in 0..(B - 1), fast \in BOOLEAN, TermsTyped, Zenon
  <2>4. 0 <= m
    BY ONLY m \in Nat
  <2> QED
    BY <1>3, <1>5, <1>8, <2>1, <2>3, <2>4, Zenon DEF FoldTerm
<1> QED
  BY <1>7, <1>8

\* What a pass adds up to.
FoldTotal(low, high, n, q) ==
    Number(low, L) + (Number(Cs, H) * Number(high, n) + Place(H) * Number(high, q))

\* Its columns have room for it.
LEMMA FoldTermsFit ==
    ASSUME LimbsFit, NEW low, NEW high, NEW n \in Nat, NEW q \in Nat, NEW last \in Nat, FoldFits(low, high, n, q, last),
           FoldTotal(low, high, n, q) < Place(last + 2)
    PROVE  \E V, T : /\ ColumnsFit(low[0], last, FoldTerms(low, high, n, last), H + 2, V, T)
                     /\ low[0] + Number(T, last + 1) = FoldTotal(low, high, n, q)
<1>1. /\ L \in Nat /\ L >= 4 /\ Index = 0..(L - 1) /\ H \in Nat /\ H >= 2 /\ L = 2 * H /\ B \in Nat /\ B >= 4
      /\ H + 2 \in Nat /\ H + 2 <= L
  BY Sizes
<1>2. /\ n \in Nat /\ q \in Nat /\ last \in Nat /\ n >= 1 /\ q >= 1 /\ q <= n
      /\ n + H <= last + 2 /\ H + q = last + 1 /\ last >= L - 1 /\ last >= 1
      /\ Limbs(low, L) /\ Limbs(high, n)
  BY <1>1 DEF FoldFits
<1>3. PICK terms : terms = FoldTerms(low, high, n, last)
  OBVIOUS
<1>4. PICK m \in Nat : m = (B - 1) * (B - 1) /\ B - 1 <= m
  <2>1. PICK b \in Nat : b = B - 1 /\ b >= 3
    BY <1>1
  <2>2. b * b \in Nat /\ b <= b * b
    <3>1. b * b = b + b * (b - 1) /\ b * (b - 1) >= 0
      BY <2>1
    <3> PICK x \in Int, y \in Int : x = b * b /\ y = b * (b - 1)
      OBVIOUS
    <3> QED
      BY <3>1
  <2> QED
    BY <2>1, <2>2
<1>5. ASSUME NEW k \in 0..last
      PROVE  /\ FoldTerm(terms[k][0], k, 0, last, m) /\ Worth(terms[k][0]) <= B - 1
             /\ Worth(terms[k][0]) = IF k \in 1..(L - 1) THEN low[k] ELSE 0
  <2>1. PICK t : t = FoldTerms(low, high, n, last)[k][0]
    OBVIOUS
  <2>2. /\ FoldTerm(t, k, 0, last, m) /\ Worth(t) <= B - 1
        /\ Worth(t) = IF k \in 1..(L - 1) THEN low[k] ELSE 0
    BY ONLY LimbsFit, FoldFits(low, high, n, q, last), m \in Nat, k \in 0..last, <1>4, <2>1, FoldLow
  <2> QED
    BY <1>3, <2>1, <2>2, Zenon
<1>6. ASSUME NEW k \in 0..last, NEW e \in 0..H
      PROVE  /\ FoldTerm(terms[k][e + 1], k, e + 1, last, m)
             /\ Worth(terms[k][e + 1]) = IF k - e \in 0..(n - 1) THEN Cs[e] * high[k - e] ELSE 0
  <2>1. PICK t : t = FoldTerms(low, high, n, last)[k][e + 1]
    OBVIOUS
  <2>2. /\ FoldTerm(t, k, e + 1, last, m)
        /\ Worth(t) = IF k - e \in 0..(n - 1) THEN Cs[e] * high[k - e] ELSE 0
    BY ONLY LimbsFit, FoldFits(low, high, n, q, last), m \in Nat, k \in 0..last, e \in 0..H, <1>4, <2>1, FoldHigh
  <2> QED
    BY <1>3, <2>1, <2>2, Zenon
<1>7. PICK z \in Nat : z = H + 2 /\ z - 1 = H + 1
  BY <1>1
<1>8. \A k \in 0..last : \A i \in 0..(z - 1) : FoldTerm(terms[k][i], k, i, last, m)
  <2> TAKE k \in 0..last
  <2> TAKE i \in 0..(z - 1)
  <2>1. CASE i = 0
    BY <1>5, <2>1
  <2>2. CASE i # 0
    <3>1. i - 1 \in 0..H /\ (i - 1) + 1 = i
      BY <1>1, <1>7, <2>2
    <3> QED
      BY <1>6, <3>1
  <2> QED
    BY <2>1, <2>2
<1>9. AllTerms(terms, last, z)
  BY <1>8, Zenon DEF AllTerms, AreTerms, FoldTerm
<1>10. PICK V, T : Tops(terms, last, z, V, T)
  BY ONLY LimbsFit, last \in Nat, z \in Nat, <1>9, AllWorths
<1>11. \A k \in 0..last : AreTerms(terms[k], z) /\ IsWorth(V[k], terms[k], z) /\ T[k] = V[k][z]
  BY <1>9, <1>10, Zenon DEF AllTerms, Tops
<1>12. TermsFit(last, terms, z, V, T)
  <2> SUFFICES ASSUME NEW k \in 0..last
               PROVE  T[k] <= L * ((B - 1) * (B - 1))
    BY <1>11, Zenon DEF TermsFit
  <2>1. PICK t, v : t = terms[k] /\ v = V[k]
    OBVIOUS
  <2>2. AreTerms(t, z) /\ IsWorth(v, t, z) /\ T[k] = v[z]
    BY <1>11, <2>1, Zenon
  <2>3. \A i \in 0..(z - 1) : Worth(t[i]) <= (B - 1) * (B - 1)
    BY <1>4, <1>8, <2>1, Zenon DEF FoldTerm
  <2>4. v[z] <= z * ((B - 1) * (B - 1))
    BY ONLY LimbsFit, z \in Nat, <2>2, <2>3, WorthBounded
  <2>5. PICK y \in Nat, l \in Nat : y = v[z] /\ l = L /\ z <= l
    <3>1. z \in 0..z
      OBVIOUS
    <3>2. v[z] \in Nat
      BY <2>2, <3>1 DEF IsWorth
    <3> QED
      BY <1>1, <1>7, <3>2
  <2>6. z * m <= l * m
    BY <2>5, TimesMonotone
  <2>7. y <= z * m
    BY <1>4, <2>4, <2>5, Zenon
  <2>8. y <= l * m
    <3> PICK p \in Int, r \in Int : p = z * m /\ r = l * m
      OBVIOUS
    <3> QED
      BY <2>6, <2>7
  <2> QED
    BY <1>4, <2>2, <2>5, <2>8, Zenon
<1>13. FastFit(last, terms, z)
  <2> SUFFICES ASSUME NEW k \in 0..last, NEW i \in 0..(z - 1), terms[k][i].fast
               PROVE  k \in {0, last} \/ (k = 1 /\ i = 0 /\ Worth(terms[k][i]) <= B - 1)
    BY Zenon DEF FastFit
  <2>1. k \in {0, last} \/ (k = 1 /\ i = 0)
    BY <1>8, Zenon DEF FoldTerm
  <2>2. i = 0 => Worth(terms[k][i]) <= B - 1
    BY <1>5
  <2> QED
    BY <2>1, <2>2, Zenon
<1>14. low[0] \in 0..(B - 1)
  BY <1>1, <1>2 DEF Limbs
<1>15. low[0] + T[0] < B * B
  <2>1. 0 \in 0..last /\ 1 \in 0..(z - 1) /\ 0 \in 0..H /\ 0 + 1 = 1
    BY <1>1, <1>2, <1>7
  <2>2. \A i \in 0..(z - 1) : i # 1 => Worth(terms[0][i]) = 0
    <3> TAKE i \in 0..(z - 1)
    <3>1. CASE i = 0
      <4>1. 0 \notin 1..(L - 1)
        BY <1>1
      <4> QED
        BY <1>5, <2>1, <3>1, <4>1, Zenon
    <3>2. CASE i # 0
      <4>1. i - 1 \in 0..H /\ (i - 1) + 1 = i
        BY <1>1, <1>7, <3>2
      <4>2. PICK e \in 0..H : e + 1 = i
        BY <4>1
      <4>3. i # 1 => 0 - e \notin 0..(n - 1)
        BY <1>1, <1>2, <4>2
      <4> QED
        BY <1>6, <2>1, <4>2, <4>3, Zenon
    <3> QED
      BY <3>1, <3>2
  <2>3. PICK t, v : t = terms[0] /\ v = V[0]
    OBVIOUS
  <2>4. AreTerms(t, z) /\ IsWorth(v, t, z) /\ T[0] = v[z] /\ \A i \in 0..(z - 1) : i # 1 => Worth(t[i]) = 0
    BY <1>11, <2>1, <2>2, <2>3, Zenon
  <2>5. v[z] = Worth(t[1])
    <3> PICK e \in 0..(z - 1) : e = 1
      BY <2>1
    <3>1. AreTerms(t, z)
      BY <2>4
    <3>2. IsWorth(v, t, z)
      BY <2>4
    <3>3. \A i \in 0..(z - 1) : i # e => Worth(t[i]) = 0
      BY <2>4
    <3>4. v[z] = Worth(t[e])
      BY ONLY LimbsFit, z \in Nat, e \in 0..(z - 1), <3>1, <3>2, <3>3, OnlyOne
    <3> QED
      BY <3>4
  <2>6. Worth(t[1]) <= m
    BY <1>8, <2>1, <2>3, Zenon DEF FoldTerm
  <2>7. T[0] \in Nat
    <3>1. z \in 0..z
      OBVIOUS
    <3> QED
      BY <2>4, <3>1 DEF IsWorth
  <2>8. PICK b \in Nat, c \in Nat, x \in Nat : b = B /\ c = T[0] /\ x = low[0] /\ c <= m /\ x <= b - 1 /\ b >= 1
    <3>1. PICK b \in Nat : b = B
      BY <1>1
    <3>2. PICK c \in Nat : c = T[0]
      BY <2>7
    <3>3. PICK x \in Nat : x = low[0]
      BY <1>14
    <3>4. c <= m
      BY <2>4, <2>5, <2>6, <3>2
    <3>5. x <= b - 1 /\ b >= 1
      BY <1>1, <1>14, <3>1, <3>3
    <3> QED
      BY <3>1, <3>2, <3>3, <3>4, <3>5, Zenon
  <2>9. (b - 1) * (b - 1) + (b - 1) < b * b
    BY <2>8
  <2>10. x + c < b * b
    <3>1. m = (b - 1) * (b - 1)
      BY <1>4, <2>8, Zenon
    <3> PICK u \in Int, w \in Int : u = (b - 1) * (b - 1) /\ w = b * b
      OBVIOUS
    <3> QED
      BY <2>8, <2>9, <3>1
  <2> QED
    BY <2>8, <2>10
<1>16. PICK g : g = [i \in 0..(L - 1) |-> IF i = 0 THEN 0 ELSE low[i]]
  BY Zenon
<1>17. IntLimbs(low, L) /\ IntLimbs(g, L) /\ Number(g, L) \in Int /\ Number(low, L) = low[0] + Number(g, L)
  <2>1. IntLimbs(low, L)
    BY <1>1, <1>2, LimbsInt
  <2>20. PICK l \in Nat : l = L
    BY <1>1
  <2>2. PICK h : l = L /\ h = [i \in 0..(L - 1) |-> IF i = 0 THEN low[0] ELSE 0]
    BY <2>20, Zenon
  <2>3. \A i \in 0..(l - 1) : low[i] \in Int
    BY <2>1, <2>2 DEF IntLimbs
  <2>4. 0 \in 0..(l - 1)
    BY <1>1, <2>2
  <2>5. \A i \in 0..(l - 1) : g[i] \in Int /\ h[i] \in Int /\ low[i] = h[i] + g[i] /\ h[i] = IF i = 0 THEN low[0] ELSE 0
    BY <1>16, <2>2, <2>3, <2>4
  <2>6. IntLimbs(g, l) /\ IntLimbs(h, l)
    BY <2>5 DEF IntLimbs
  <2>7. \A i \in 0..(l - 1) : low[i] = h[i] + g[i]
    BY <2>5
  <2>8. Number(low, l) = Number(h, l) + Number(g, l)
    BY ONLY LimbsFit, l \in Nat, <2>6, <2>7, NumberPlus
  <2>9. Number(h, l) = low[0] * Place(0)
    <3> PICK j \in 0..(l - 1), x \in Int : j = 0 /\ x = low[0]
      BY <2>3, <2>4
    <3>1. \A i \in 0..(l - 1) : h[i] = (IF i = j THEN x ELSE 0)
      BY <2>5
    <3>2. Number(h, l) = x * Place(j)
      BY ONLY LimbsFit, l \in Nat, j \in 0..(l - 1), x \in Int, <3>1, NumberAt
    <3> QED
      BY <3>2
  <2>10. Place(0) = 1 /\ low[0] * 1 = low[0]
    <3>1. 0 \in Nat
      OBVIOUS
    <3> QED
      BY <2>3, <2>4, <3>1, Places
  <2>11. Number(g, l) \in Int
    BY <2>6, NumberInt
  <2> QED
    BY <2>1, <2>2, <2>6, <2>8, <2>9, <2>10, <2>11, Zenon
<1>18. /\ Limbs(Cs, H + 1) /\ IntLimbs(Cs, H + 1) /\ IntLimbs(Cs, H) /\ IntLimbs(high, n) /\ IntLimbs(high, q)
       /\ Number(high, n) \in Int /\ Number(high, q) \in Int
  <2>1. Limbs(Cs, H + 1) /\ H + 1 \in Nat /\ H <= H + 1 /\ H + 1 <= H + 1
    BY <1>1, OrderSize
  <2>2. IntLimbs(Cs, H + 1) /\ IntLimbs(Cs, H)
    BY <1>1, <2>1, LimbsInt
  <2>3. IntLimbs(high, n) /\ IntLimbs(high, q)
    BY <1>2, LimbsInt
  <2> QED
    BY <1>2, <2>1, <2>2, <2>3, NumberInt
<1>19. PICK s \in Int, y \in Int, w \in Int : s = Number(g, L) /\ y = Number(high, n) /\ w = Number(high, q)
  BY <1>17, <1>18
<1> DEFINE R == [j \in 0..z |-> IF j = 0 THEN 0
                               ELSE IF j = z THEN s + (Number(Cs, H) * y + Place(H) * w)
                               ELSE s + Number(Cs, j - 1) * y]
<1>20. AreRows(R, terms, last, z)
  <2>1. R[0] = 0
    OBVIOUS
  <2>2. R[0 + 1] = R[0] + Number(Worths(terms, last, 0), last + 1)
    <3>1. IsRow(terms, last, 0, 1, 0, g, L)
      <4> SUFFICES ASSUME NEW k \in 0..last
                   PROVE  Worth(terms[k][0]) = IF k - 0 \in 0..(L - 1) THEN 1 * g[k - 0] ELSE 0
        BY Zenon DEF IsRow
      <4>1. k - 0 = k /\ (k \in 0..(L - 1) => g[k] = IF k = 0 THEN 0 ELSE low[k])
        BY <1>16
      <4>2. k \in 0..(L - 1) => g[k] \in Int /\ 1 * g[k] = g[k]
        <5>1. k \in 0..(L - 1) => g[k] \in Int
          BY <1>17 DEF IntLimbs
        <5> QED
          BY <5>1
      <4>3. k \in 1..(L - 1) <=> (k \in 0..(L - 1) /\ k # 0)
        BY <1>1
      <4> QED
        BY <1>5, <4>1, <4>2, <4>3
    <3>2. PICK c \in Int, j \in Nat, l \in Nat : c = 1 /\ j = 0 /\ l = L
      BY <1>1
    <3>3. IsRow(terms, last, j, c, j, g, l)
      BY <3>1, <3>2
    <3>4. j + l <= last + 1
      BY <1>2, <3>2
    <3>5. IntLimbs(g, l)
      BY <1>17, <3>2
    <3>6. Number(Worths(terms, last, j), last + 1) = RowNumber(c, j, g, l)
      BY ONLY LimbsFit, last \in Nat, j \in Nat, l \in Nat, c \in Int, <3>3, <3>4, <3>5, RowRight
    <3>7. Place(0) = 1 /\ Number(Cs, 0) = 0
      <4>1. 0 \in Nat
        OBVIOUS
      <4> QED
        BY <4>1, Places, NumberZero
    <3>8. RowNumber(c, j, g, l) = (1 * 1) * s
      BY <1>19, <3>2, <3>7, Zenon DEF RowNumber
    <3>9. R[1] = s + 0 * y
      <4>1. 1 \in 0..z /\ 1 # 0 /\ 1 # z /\ 1 - 1 = 0
        BY <1>1, <1>7
      <4> QED
        BY <3>7, <4>1, Zenon
    <3>10. s + 0 * y = 0 + (1 * 1) * s /\ 0 + 1 = 1
      OBVIOUS
    <3> QED
      BY <2>1, <3>2, <3>6, <3>8, <3>9, <3>10, Zenon
  <2>3. ASSUME NEW j \in 0..(z - 1), j # 0
        PROVE  R[j + 1] = R[j] + Number(Worths(terms, last, j), last + 1)
    <3>1. PICK e \in Nat : e + 1 = j /\ e = j - 1 /\ e \in 0..H /\ (e = H <=> j + 1 = z) /\ e < z
      <4>1. PICK e \in Nat : e = j - 1
        BY <2>3
      <4>2. e + 1 = j /\ e \in 0..H /\ (e = H <=> j + 1 = z) /\ e < z
        BY <1>1, <1>7, <2>3, <4>1
      <4> QED
        BY <4>1, <4>2, Zenon
    <3>2. PICK c \in Int : c = Cs[e]
      <4>1. e \in 0..((H + 1) - 1)
        BY <1>1, <3>1
      <4> QED
        BY <1>18, <4>1 DEF IntLimbs
    <3>3. PICK r \in Nat : r = IF e = H THEN q ELSE n
      BY <1>2
    <3>4. e + r <= last + 1 /\ r <= n
      BY <1>1, <1>2, <3>1, <3>3
    <3>5. IntLimbs(high, r)
      BY <1>18, <3>3
    <3>6. IsRow(terms, last, j, c, e, high, r)
      <4> SUFFICES ASSUME NEW k \in 0..last
                   PROVE  Worth(terms[k][j]) = IF k - e \in 0..(r - 1) THEN c * high[k - e] ELSE 0
        BY Zenon DEF IsRow
      <4>1. Worth(terms[k][j]) = IF k - e \in 0..(n - 1) THEN Cs[e] * high[k - e] ELSE 0
        BY <1>6, <3>1, Zenon
      <4>2. k - e \in 0..(n - 1) <=> k - e \in 0..(r - 1)
        BY <1>1, <1>2, <3>1, <3>3
      <4> QED
        BY <3>2, <4>1, <4>2, Zenon
    <3>7. Number(Worths(terms, last, j), last + 1) = RowNumber(c, e, high, r)
      <4>1. e + r <= last + 1
        BY <3>4
      <4>2. Number(Worths(terms, last, j), last + 1) = RowNumber(c, e, high, r)
        BY ONLY LimbsFit, last \in Nat, e \in Nat, r \in Nat, c \in Int, <4>1, <3>5, <3>6, RowRight
      <4> QED
        BY <4>2
    <3>8. Number(Cs, e) \in Int /\ Place(e) \in Nat /\ Number(Cs, e + 1) = Number(Cs, e) + c * Place(e)
      <4>1. IntLimbs(Cs, e + 1)
        <5>1. PICK h \in Nat, f \in Nat : h = H + 1 /\ f = e + 1 /\ f <= h
          BY <1>1, <3>1
        <5>2. IntLimbs(Cs, h)
          BY <1>18, <5>1, Zenon
        <5>3. IntLimbs(Cs, f)
          BY <5>1, <5>2 DEF IntLimbs
        <5> QED
          BY <5>1, <5>3, Zenon
      <4> QED
        BY <3>1, <3>2, <4>1, NumberStep, Places
    <3>9. PICK u \in Int, p \in Nat : u = Number(Cs, e) /\ p = Place(e)
      BY <3>8
    <3>10. R[j] = s + u * y
      <4>1. j \in 0..z /\ j # 0 /\ j # z /\ j - 1 = e
        BY <2>3, <3>1
      <4> QED
        BY <3>9, <4>1, Zenon
    <3>11. CASE e = H
      <4>1. j + 1 \in 0..z /\ j + 1 # 0 /\ j + 1 = z
        BY <3>1, <3>11
      <4>2. R[j + 1] = s + (u * y + p * w)
        BY <3>9, <3>11, <4>1, Zenon
      <4>3. c = 1
        <5>1. H \in 0..H /\ ~(H < H)
          BY <1>1
        <5>2. Cs[H] = 1
          BY <5>1, Zenon DEF Cs
        <5> QED
          BY <3>2, <3>11, <5>2
      <4>4. RowNumber(c, e, high, r) = (1 * p) * w
        BY <1>19, <3>3, <3>9, <3>11, <4>3, Zenon DEF RowNumber
      <4>5. s + (u * y + p * w) = s + u * y + (1 * p) * w
        <5> PICK a1 \in Int, a2 \in Int : a1 = u * y /\ a2 = p * w
          OBVIOUS
        <5>1. (1 * p) * w = a2
          OBVIOUS
        <5> QED
          BY <5>1
      <4> QED
        BY <3>7, <3>10, <4>2, <4>4, <4>5, Zenon
    <3>12. CASE e # H
      <4>1. j + 1 \in 0..z /\ j + 1 # 0 /\ j + 1 # z /\ (j + 1) - 1 = e + 1
        BY <3>1, <3>12
      <4>2. R[j + 1] = s + (u + c * p) * y
        BY <3>8, <3>9, <4>1, Zenon
      <4>3. RowNumber(c, e, high, r) = (c * p) * y
        BY <1>19, <3>3, <3>9, <3>12, Zenon DEF RowNumber
      <4>4. s + (u + c * p) * y = s + u * y + (c * p) * y
        OBVIOUS
      <4> QED
        BY <3>7, <3>10, <4>2, <4>3, <4>4, Zenon
    <3> QED
      BY <3>11, <3>12
  <2> HIDE DEF R
  <2>4. \A j \in 0..(z - 1) : R[j + 1] = R[j] + Number(Worths(terms, last, j), last + 1)
    BY <2>2, <2>3, Zenon
  <2> QED
    BY <2>1, <2>4 DEF AreRows
<1>21. R[z] = s + (Number(Cs, H) * y + Place(H) * w)
  <2>1. z \in 0..z /\ z # 0
    BY <1>1, <1>7
  <2> QED
    BY <2>1, Zenon
<1> HIDE DEF R
<1>22. Number(T, last + 1) = s + (Number(Cs, H) * y + Place(H) * w)
  <2> PICK r : r = R
    OBVIOUS
  <2>1. AreRows(r, terms, last, z)
    BY <1>20, Zenon
  <2>2. Number(T, last + 1) = r[z]
    BY ONLY LimbsFit, last \in Nat, z \in Nat, <1>9, <1>10, <2>1, RowsRight
  <2> QED
    BY <1>21, <2>2, Zenon
<1>23. low[0] + Number(T, last + 1) = FoldTotal(low, high, n, q)
  <2>1. Number(Cs, H) \in Int /\ Place(H) \in Nat
    BY <1>1, <1>18, NumberInt, Places
  <2>2. PICK x \in Int, o \in Int : x = Number(Cs, H) * y + Place(H) * w /\ o = low[0]
    <3> PICK a1 \in Int, a2 \in Int : a1 = Number(Cs, H) /\ a2 = Place(H)
      BY <2>1
    <3>1. a1 * y + a2 * w \in Int
      OBVIOUS
    <3>2. low[0] \in Int
      BY <1>1, <1>14
    <3> QED
      BY <3>1, <3>2
  <2>3. o + (s + x) = (o + s) + x
    OBVIOUS
  <2> QED
    BY <1>17, <1>19, <1>22, <2>2, <2>3, Zenon DEF FoldTotal
<1>24. ColumnsFit(low[0], last, terms, z, V, T)
  <2>1. low[0] + Number(T, last + 1) < Place(last + 2)
    BY <1>23
  <2> QED
    BY <1>2, <1>12, <1>13, <1>14, <1>15, <2>1, Zenon DEF ColumnsFit
<1> QED
  BY <1>3, <1>7, <1>23, <1>24, Zenon

\* A pass leaves the sum, in its columns and the accumulator.
LEMMA FoldRight ==
    ASSUME LimbsFit, NEW low, NEW high, NEW n \in Nat, NEW q \in Nat, NEW last \in Nat,
           FoldFits(low, high, n, q, last), FoldTotal(low, high, n, q) < Place(last + 2), NEW asm \in BOOLEAN
    PROVE  LET cs == Fold(low, high, n, last, asm)
           IN /\ cs.over.ok /\ cs.over.c0 \in 0..(B - 1) /\ Limbs(cs.limb, last + 1)
              /\ Number(cs.limb, last + 1) + cs.over.c0 * Place(last + 1) = FoldTotal(low, high, n, q)
<1>1. PICK terms, z, c0 : terms = FoldTerms(low, high, n, last) /\ z = H + 2 /\ c0 = low[0]
  OBVIOUS
<1>2. PICK V, T : /\ ColumnsFit(low[0], last, FoldTerms(low, high, n, last), H + 2, V, T)
                  /\ low[0] + Number(T, last + 1) = FoldTotal(low, high, n, q)
  BY FoldTermsFit
<1>3. ColumnsFit(c0, last, terms, z, V, T)
  BY <1>1, <1>2, Zenon
<1>4. PICK cs : cs = Columns(c0, last, terms, z, asm)
  OBVIOUS
<1>5. /\ cs.over.ok /\ cs.over.c0 \in 0..(B - 1) /\ Limbs(cs.limb, last + 1)
      /\ Number(cs.limb, last + 1) + cs.over.c0 * Place(last + 1) = c0 + Number(T, last + 1)
  BY ONLY LimbsFit, asm \in BOOLEAN, <1>3, <1>4, ColumnsTotal
<1>6. cs = Fold(low, high, n, last, asm)
  BY <1>1, <1>4, Zenon DEF Fold
<1> QED
  BY <1>1, <1>2, <1>5, <1>6, Zenon

\* The complement is its lower limbs and the 1 above them.
LEMMA ComplementSplit ==
    ASSUME LimbsFit
    PROVE  Number(Cs, H) \in Int /\ Place(H) \in Nat /\ Complement = Number(Cs, H) + Place(H)
<1>1. H \in Nat /\ H + 1 \in Nat /\ H <= H + 1 /\ H + 1 <= H + 1 /\ H \in 0..H /\ ~(H < H)
  BY Sizes
<1>2. Limbs(Cs, H + 1)
  BY OrderSize
<1>3. IntLimbs(Cs, H + 1)
  BY <1>1, <1>2, LimbsInt
<1>4. Number(Cs, H) \in Int /\ Number(Cs, H + 1) = Number(Cs, H) + Cs[H] * Place(H)
  BY <1>1, <1>3, NumberStep
<1>5. Cs[H] = 1
  BY <1>1, Zenon DEF Cs
<1>6. PICK p \in Nat : p = Place(H)
  BY <1>1, Places
<1>7. 1 * p = p
  OBVIOUS
<1> QED
  BY <1>4, <1>5, <1>6, <1>7, Zenon DEF Complement

\* The size of what the first pass adds up to.
LEMMA FirstTotal ==
    ASSUME NEW p \in Nat, NEW h \in Nat, NEW c \in Nat, NEW x \in Nat, NEW y \in Nat,
           x < p, y < p, c < 2 * h
    PROVE  /\ x + c * y \in Nat /\ x + c * y < (p * h) + (p * h) /\ x + c * y < (c + 1) * p
<1>1. c * y <= c * (p - 1)
  <2>1. y <= p - 1 /\ p - 1 \in Int
    OBVIOUS
  <2>2. y * c <= (p - 1) * c
    BY <2>1, TimesMonotone
  <2>3. y * c = c * y /\ (p - 1) * c = c * (p - 1)
    OBVIOUS
  <2> QED
    BY <2>2, <2>3
<1>2. c * (p - 1) = c * p - c /\ (c + 1) * p = c * p + p /\ c * y \in Nat /\ c * p \in Nat
  OBVIOUS
<1>3. (c + 1) * p <= (2 * h) * p
  BY TimesMonotone
<1>4. (2 * h) * p = (p * h) + (p * h) /\ p * h \in Nat
  OBVIOUS
<1> PICK u \in Nat, v \in Nat, w \in Nat : u = c * y /\ v = c * p /\ w = p * h
  BY <1>2, <1>4
<1>5. u <= v - c /\ v + p <= w + w
  BY <1>1, <1>2, <1>3, <1>4
<1> QED
  BY <1>2, <1>5

\* The first pass: what is left above L limbs is at most the complement.
IsFirst(l, asm, up, f, high) ==
    /\ up = [i \in Index |-> l[i + L]]
    /\ f = Fold(l, up, L, L + H - 1, asm)
    /\ high = [i \in 0..H |-> IF i < H THEN f.limb[L + i] ELSE f.over.c0]

\* It leaves the lower number and the complement times the upper one.
LEMMA FirstPassRight ==
    ASSUME LimbsFit, NEW l, Limbs(l, 2 * L), NEW asm \in BOOLEAN, NEW up, NEW f, NEW high,
           IsFirst(l, asm, up, f, high)
    PROVE  /\ f.over.ok /\ f.over.c0 \in {0, 1} /\ Limbs(f.limb, L) /\ Limbs(high, H + 1)
           /\ high[H] = f.over.c0 /\ Number(high, H + 1) <= Complement
           /\ Number(l, L) \in Nat /\ Number(up, L) \in Nat
           /\ Number(l, 2 * L) = Number(l, L) + Place(L) * Number(up, L)
           /\ Number(f.limb, L) + Place(L) * Number(high, H + 1) = Number(l, L) + Complement * Number(up, L)
<1>1. /\ L \in Nat /\ L >= 4 /\ Index = 0..(L - 1) /\ H \in Nat /\ H >= 2 /\ L = 2 * H /\ B \in Nat /\ B >= 4
      /\ 2 * L \in Nat /\ L <= 2 * L /\ L + L = 2 * L
  BY Sizes
<1>2. PICK last \in Nat, n \in Nat : last = L + H - 1 /\ last + 1 = L + H /\ last + 2 = L + H + 1 /\ n = L /\ last >= n
  BY <1>1
<1>3. Limbs(l, L) /\ Limbs(up, L)
  <2>1. \A i \in 0..(L - 1) : l[i] \in 0..(B - 1) /\ l[i + L] \in 0..(B - 1)
    <3> TAKE i \in 0..(L - 1)
    <3>1. i \in 0..(2 * L - 1) /\ i + L \in 0..(2 * L - 1)
      BY <1>1
    <3> QED
      BY <3>1 DEF Limbs
  <2>2. \A i \in 0..(L - 1) : up[i] = l[i + L]
    BY <1>1, Zenon DEF IsFirst
  <2> QED
    BY <1>1, <2>1, <2>2 DEF Limbs
<1>4. Number(l, 2 * L) = Number(l, L) + Place(L) * Number(up, L)
  <2> PICK m \in Nat : m = L
    BY <1>1
  <2>1. IntLimbs(l, m + m)
    <3>1. IntLimbs(l, 2 * L)
      BY <1>1, LimbsInt
    <3> QED
      BY <1>1, <3>1
  <2>2. \A i \in 0..(m - 1) : up[i] = l[i + m]
    BY <1>1, Zenon DEF IsFirst
  <2>3. Number(l, m + m) = Number(l, m) + Place(m) * Number(up, m)
    BY ONLY LimbsFit, m \in Nat, <2>1, <2>2, NumberSplit
  <2> QED
    BY <1>1, <2>3
<1>5. /\ Number(l, L) \in Nat /\ Number(l, L) < Place(L) /\ Number(up, L) \in Nat /\ Number(up, L) < Place(L)
      /\ Place(L) \in Nat
  BY <1>1, <1>3, NumberBound, Places
<1>6. /\ Complement \in Nat /\ Complement < 2 * Place(H) /\ Number(Cs, H) \in Int /\ Place(H) \in Nat
      /\ Complement = Number(Cs, H) + Place(H)
  BY OrderSize, ComplementSplit
<1>7. PICK p \in Nat, h \in Nat, c \in Nat, x \in Nat, y \in Nat :
          /\ p = Place(L) /\ h = Place(H) /\ c = Complement /\ x = Number(l, L) /\ y = Number(up, L)
          /\ x < p /\ y < p /\ c < 2 * h
  BY <1>5, <1>6
<1>8. /\ x + c * y \in Nat /\ x + c * y < (p * h) + (p * h) /\ x + c * y < (c + 1) * p
  <2>1. x < p /\ y < p /\ c < 2 * h
    BY <1>7
  <2> QED
    BY ONLY p \in Nat, h \in Nat, c \in Nat, x \in Nat, y \in Nat, <2>1, FirstTotal
<1>9. FoldTotal(l, up, n, n) = x + c * y
  <2>1. PICK d \in Int : d = Number(Cs, H) /\ c = d + h
    BY <1>6, <1>7
  <2>2. x + (d * y + h * y) = x + (d + h) * y
    OBVIOUS
  <2> QED
    BY <1>2, <1>7, <2>1, <2>2, Zenon DEF FoldTotal
<1>10. PICK s \in Nat : s = p * h /\ Place(last + 1) = s /\ Place(last + 2) = B * s /\ x + c * y < s + s
  <2>1. Place(L + H) = Place(L) * Place(H)
    BY <1>1, PlaceSum
  <2>2. L + H \in Nat
    BY <1>1
  <2>3. Place(L + H) \in Nat /\ Place((L + H) + 1) = B * Place(L + H)
    BY <2>2, Places
  <2>4. last + 2 = (L + H) + 1
    BY <1>1, <1>2
  <2> QED
    BY <1>2, <1>7, <1>8, <2>1, <2>3, <2>4, Zenon
<1>11. x + c * y < Place(last + 2)
  <2>1. PICK b \in Nat : b = B /\ b >= 4
    BY <1>1
  <2>2. 4 * s <= b * s
    BY <2>1, TimesMonotone
  <2> PICK t \in Nat, u \in Int : t = x + c * y /\ u = b * s
    BY <1>8
  <2>3. t < u
    BY <1>10, <2>2
  <2> QED
    BY <1>10, <2>1, <2>3, Zenon
<1>12. FoldFits(l, up, n, n, last)
  <2>1. /\ n >= 1 /\ n <= n /\ n + H <= last + 2 /\ H + n = last + 1 /\ last >= L - 1
        /\ Limbs(l, L) /\ Limbs(up, n)
    BY <1>1, <1>2, <1>3
  <2> QED
    BY <2>1 DEF FoldFits
<1>13. /\ f.over.ok /\ f.over.c0 \in 0..(B - 1) /\ Limbs(f.limb, last + 1)
       /\ Number(f.limb, last + 1) + f.over.c0 * s = x + c * y
  <2>1. FoldTotal(l, up, n, n) < Place(last + 2)
    BY <1>9, <1>11, Zenon
  <2>2. LET cs == Fold(l, up, n, last, asm)
        IN /\ cs.over.ok /\ cs.over.c0 \in 0..(B - 1) /\ Limbs(cs.limb, last + 1)
           /\ Number(cs.limb, last + 1) + cs.over.c0 * Place(last + 1) = FoldTotal(l, up, n, n)
    BY ONLY LimbsFit, n \in Nat, last \in Nat, asm \in BOOLEAN, <1>12, <2>1, FoldRight
  <2>3. f = Fold(l, up, n, last, asm)
    BY <1>2, Zenon DEF IsFirst
  <2> QED
    BY <1>9, <1>10, <2>2, <2>3, Zenon
<1>140. PICK e \in Nat : e = f.over.c0 /\ e <= 1
  <2>1. PICK e \in Nat : e = f.over.c0
    BY <1>1, <1>13
  <2>2. Number(f.limb, last + 1) \in Nat
    BY <1>13, NumberBound
  <2>3. PICK u \in Nat : u = Number(f.limb, last + 1)
    BY <2>2
  <2>4. u + e * s < s + s
    BY <1>10, <1>13, <2>1, <2>3, Zenon
  <2>5. e <= 1
    <3> SUFFICES ASSUME e >= 2
                 PROVE  FALSE
      OBVIOUS
    <3>1. 2 * s <= e * s
      BY TimesMonotone
    <3> PICK w \in Int : w = e * s
      OBVIOUS
    <3> QED
      BY <2>4, <3>1
  <2> QED
    BY <2>1, <2>5
<1>14. PICK g : g = f.limb /\ e = f.over.c0 /\ e <= 1
  BY <1>140
<1>15. Limbs(g, last + 1) /\ IntLimbs(g, L + H) /\ Limbs(g, L)
  <2>1. Limbs(g, last + 1)
    BY <1>13, <1>14
  <2>2. L + H \in Nat /\ last + 1 = L + H /\ L <= L + H
    BY <1>1, <1>2
  <2> QED
    BY <1>1, <2>1, <2>2, LimbsInt
<1>16. /\ \A i \in 0..(H - 1) : high[i] = g[i + L]
       /\ high[H] = e
  <2>1. PICK k \in Nat, z \in Nat : k = H /\ z = L
    BY <1>1
  <2>2. high = [i \in 0..k |-> IF i < k THEN g[z + i] ELSE e]
    BY <1>14, <2>1, Zenon DEF IsFirst
  <2>3. \A i \in 0..(k - 1) : high[i] = g[i + z]
    <3> TAKE i \in 0..(k - 1)
    <3>1. i \in 0..k /\ i < k /\ z + i = i + z
      OBVIOUS
    <3> QED
      BY <2>2, <3>1, Zenon
  <2>4. k \in 0..k /\ ~(k < k)
    OBVIOUS
  <2> QED
    BY <2>1, <2>2, <2>3, <2>4, Zenon
<1>17. Limbs(high, H + 1) /\ IntLimbs(high, H + 1)
  <2>1. \A i \in 0..((H + 1) - 1) : high[i] \in 0..(B - 1)
    <3> TAKE i \in 0..((H + 1) - 1)
    <3>1. CASE i = H
      <4>1. e \in 0..(B - 1)
        BY <1>1, <1>14
      <4> QED
        BY <1>16, <3>1, <4>1
    <3>2. CASE i # H
      <4>1. i \in 0..(H - 1) /\ i + L \in 0..((last + 1) - 1)
        BY <1>1, <1>2, <3>2
      <4>2. g[i + L] \in 0..(B - 1)
        BY <1>15, <4>1 DEF Limbs
      <4> QED
        BY <1>16, <4>1, <4>2
    <3> QED
      BY <3>1, <3>2
  <2>2. Limbs(high, H + 1)
    BY <2>1 DEF Limbs
  <2>3. H + 1 \in Nat /\ H + 1 <= H + 1
    BY <1>1
  <2> QED
    BY <2>2, <2>3, LimbsInt
<1>18. Number(g, L) + p * Number(high, H + 1) = x + c * y /\ Number(g, L) \in Nat /\ Number(high, H + 1) \in Nat
  <2>1. PICK k \in Nat, z \in Nat : k = H /\ z = L
    BY <1>1
  <2>2. IntLimbs(g, z + k)
    BY <1>15, <2>1
  <2>3. \A i \in 0..(k - 1) : high[i] = g[i + z]
    BY <1>16, <2>1
  <2>4. Number(g, z + k) = Number(g, z) + Place(z) * Number(high, k) /\ Number(high, k) \in Int
    BY ONLY LimbsFit, k \in Nat, z \in Nat, <2>2, <2>3, NumberSplit
  <2>5. Number(high, k + 1) = Number(high, k) + high[k] * Place(k)
    BY <1>17, <2>1, NumberStep
  <2>6. Number(g, L) \in Nat /\ Number(high, H + 1) \in Nat
    <3>1. H + 1 \in Nat
      BY <1>1
    <3> QED
      BY <1>1, <1>15, <1>17, <3>1, NumberBound
  <2>7. PICK u \in Int, w \in Int, r \in Int : u = Number(g, L) /\ w = Number(high, k) /\ r = Number(high, H + 1)
    BY <2>4, <2>6
  <2>8. r = w + e * h
    BY <1>7, <1>16, <2>1, <2>5, <2>7, Zenon
  <2>9. (u + p * w) + e * s = x + c * y
    <3>1. last + 1 = z + k
      BY <1>1, <1>2, <2>1
    <3>2. Number(g, last + 1) = u + p * w
      BY <1>7, <2>1, <2>4, <2>7, <3>1, Zenon
    <3> QED
      BY <1>13, <1>14, <3>2, Zenon
  <2>10. p * (w + e * h) = p * w + e * (p * h)
    OBVIOUS
  <2>11. u + p * r = x + c * y
    <3>1. p * r = p * w + e * s
      BY <1>10, <2>8, <2>10, Zenon
    <3> PICK a1 \in Int, a2 \in Int, a3 \in Int : a1 = p * w /\ a2 = e * s /\ a3 = c * y
      OBVIOUS
    <3>2. u + (a1 + a2) = (u + a1) + a2
      OBVIOUS
    <3> QED
      BY <2>9, <3>1, <3>2, Zenon
  <2> QED
    BY <2>6, <2>7, <2>11, Zenon
<1>19. Number(high, H + 1) <= c
  <2>1. PICK u \in Nat, r \in Nat : u = Number(g, L) /\ r = Number(high, H + 1)
    BY <1>18
  <2>2. u + p * r < (c + 1) * p
    BY <1>8, <1>18, <2>1, Zenon
  <2> SUFFICES ASSUME r >= c + 1
               PROVE  FALSE
    BY <2>1
  <2>3. (c + 1) * p <= r * p
    BY TimesMonotone
  <2>4. r * p = p * r
    OBVIOUS
  <2> PICK a1 \in Int, a2 \in Int : a1 = p * r /\ a2 = (c + 1) * p
    OBVIOUS
  <2> QED
    BY <2>2, <2>3, <2>4
<1>20. e \in {0, 1}
  BY <1>14
<1> QED
  BY <1>4, <1>5, <1>7, <1>13, <1>14, <1>15, <1>16, <1>17, <1>18, <1>19, <1>20, Zenon

\* The size of what the second pass adds up to, with the limb that is not added.
LEMMA SecondTotal ==
    ASSUME NEW p \in Nat, NEW c \in Nat, NEW x \in Nat, NEW y \in Nat, x < p, y <= c, c * c <= 2 * p
    PROVE  x + c * y \in Nat /\ x + c * y < 3 * p
<1>1. y * c <= c * c
  BY TimesMonotone
<1>2. y * c = c * y /\ c * y \in Nat
  OBVIOUS
<1> PICK u \in Nat, v \in Int : u = c * y /\ v = c * c
  BY <1>2
<1> QED
  BY <1>1, <1>2

\* The second pass: what is left is a number of L limbs, and at most 2 above it.
IsSecond(low, high, asm, r) == r = Fold(low, high, H + 1, L - 1, asm)

\* It leaves the lower number and the complement times the rest.
LEMMA SecondPassRight ==
    ASSUME LimbsFit, NEW low, NEW high, Limbs(low, L), Limbs(high, H + 1), high[H] \in {0, 1},
           Number(high, H + 1) <= Complement, NEW asm \in BOOLEAN, NEW r, IsSecond(low, high, asm, r)
    PROVE  /\ r.over.ok /\ Limbs(r.limb, L) /\ r.over.c0 + high[H] \in {0, 1, 2}
           /\ Number(r.limb, L) + (r.over.c0 + high[H]) * Place(L)
                  = Number(low, L) + Complement * Number(high, H + 1)
<1>1. /\ L \in Nat /\ L >= 4 /\ H \in Nat /\ H >= 2 /\ L = 2 * H /\ H + H = L /\ B \in Nat /\ B >= 4
      /\ H + 1 \in Nat /\ H <= H + 1 /\ H + 1 <= H + 1
  BY Sizes
<1>2. PICK last \in Nat, n \in Nat, q \in Nat :
          last = L - 1 /\ last + 1 = L /\ last + 2 = L + 1 /\ n = H + 1 /\ q = H
  BY <1>1
<1>3. /\ IntLimbs(high, H + 1) /\ Number(low, L) \in Nat /\ Number(low, L) < Place(L)
      /\ Number(high, H + 1) \in Nat /\ Place(L) \in Nat /\ Place(L) >= 1
  BY <1>1, LimbsInt, NumberBound, Places
<1>4. Number(high, H) \in Int /\ Number(high, H + 1) = Number(high, H) + high[H] * Place(H)
  BY <1>1, <1>3, NumberStep
<1>5. /\ Complement \in Nat /\ Complement * Complement <= 2 * Place(L)
      /\ Number(Cs, H) \in Int /\ Place(H) \in Nat /\ Complement = Number(Cs, H) + Place(H)
  BY OrderSize, ComplementSplit
<1>6. PICK e \in Nat : e = high[H] /\ e <= 1
  OBVIOUS
<1>7. PICK p \in Nat, h \in Nat, c \in Nat, x \in Nat, y \in Nat, w \in Int, d \in Int :
          /\ p = Place(L) /\ h = Place(H) /\ c = Complement /\ x = Number(low, L) /\ y = Number(high, H + 1)
          /\ w = Number(high, H) /\ d = Number(Cs, H)
          /\ x < p /\ y <= c /\ c * c <= 2 * p /\ c = d + h /\ y = w + e * h /\ p >= 1
  BY <1>3, <1>4, <1>5, <1>6, Zenon
<1>8. x + c * y \in Nat /\ x + c * y < 3 * p
  <2>1. x < p /\ y <= c /\ c * c <= 2 * p
    BY <1>7
  <2> QED
    BY ONLY p \in Nat, c \in Nat, x \in Nat, y \in Nat, <2>1, SecondTotal
<1>9. PICK t \in Int : t = FoldTotal(low, high, n, q) /\ t + e * p = x + c * y
  <2>1. h * h = p
    <3>1. Place(H + H) = Place(H) * Place(H)
      BY <1>1, PlaceSum
    <3> QED
      BY <1>1, <1>7, <3>1, Zenon
  <2>2. FoldTotal(low, high, n, q) = x + (d * y + h * w)
    BY <1>2, <1>7, Zenon DEF FoldTotal
  <2>3. (x + (d * y + h * w)) + e * (h * h) = x + (d * y + h * (w + e * h))
    OBVIOUS
  <2>4. d * y + h * y = (d + h) * y
    OBVIOUS
  <2>5. (x + (d * y + h * w)) + e * p = x + c * y
    BY <1>7, <2>1, <2>3, <2>4, Zenon
  <2>6. x + (d * y + h * w) \in Int
    OBVIOUS
  <2> QED
    BY <2>2, <2>5, <2>6
<1>10. PICK v \in Nat : v = x + c * y /\ v < 3 * p
  BY <1>8
<1>11. t <= v
  <2>1. e * p >= 0
    BY <1>6
  <2> PICK z \in Int : z = e * p
    OBVIOUS
  <2>2. t + z = v
    BY <1>9, <1>10
  <2> QED
    BY <2>1, <2>2
<1>12. FoldTotal(low, high, n, q) < Place(last + 2)
  <2>1. Place(L + 1) = B * Place(L)
    BY <1>1, Places
  <2>2. PICK b \in Nat : b = B /\ b >= 4
    BY <1>1
  <2>3. 4 * p <= b * p
    BY <2>2, TimesMonotone
  <2> PICK u \in Int : u = b * p
    OBVIOUS
  <2>4. t < u
    BY <1>7, <1>10, <1>11, <2>3
  <2> QED
    BY <1>2, <1>7, <1>9, <2>1, <2>2, <2>4, Zenon
<1>13. FoldFits(low, high, n, q, last)
  <2>1. /\ n >= 1 /\ q >= 1 /\ q <= n /\ n + H <= last + 2 /\ H + q = last + 1 /\ last >= L - 1
        /\ Limbs(low, L) /\ Limbs(high, n)
    BY <1>1, <1>2
  <2> QED
    BY <2>1 DEF FoldFits
<1>14. /\ r.over.ok /\ r.over.c0 \in 0..(B - 1) /\ Limbs(r.limb, L)
       /\ Number(r.limb, L) + r.over.c0 * p = t
  <2>1. LET cs == Fold(low, high, n, last, asm)
        IN /\ cs.over.ok /\ cs.over.c0 \in 0..(B - 1) /\ Limbs(cs.limb, last + 1)
           /\ Number(cs.limb, last + 1) + cs.over.c0 * Place(last + 1) = FoldTotal(low, high, n, q)
    BY ONLY LimbsFit, n \in Nat, q \in Nat, last \in Nat, asm \in BOOLEAN, <1>12, <1>13, FoldRight
  <2>2. r = Fold(low, high, n, last, asm)
    BY <1>2, Zenon DEF IsSecond
  <2> QED
    BY <1>2, <1>7, <1>9, <2>1, <2>2, Zenon
<1>15. PICK o \in Nat, u \in Nat : o = r.over.c0 /\ u = Number(r.limb, L)
  <2>1. Number(r.limb, L) \in Nat
    BY <1>1, <1>14, NumberBound
  <2> QED
    BY <1>1, <1>14, <2>1
<1>16. PICK g \in Nat : g = o + e
  OBVIOUS
<1>17. u + g * p = v
  <2>1. u + o * p = t
    BY <1>14, <1>15, Zenon
  <2>2. g * p = o * p + e * p
    <3>1. (o + e) * p = o * p + e * p
      OBVIOUS
    <3> QED
      BY <1>16, <3>1, Zenon
  <2>3. t + e * p = v
    BY <1>9, <1>10, Zenon
  <2> PICK a1 \in Int, a2 \in Int, a3 \in Int : a1 = o * p /\ a2 = e * p /\ a3 = g * p
    OBVIOUS
  <2> QED
    BY <2>1, <2>2, <2>3
<1>18. g \in {0, 1, 2}
  <2> SUFFICES ASSUME g >= 3
               PROVE  FALSE
    OBVIOUS
  <2>1. 3 * p <= g * p
    BY TimesMonotone
  <2> PICK z \in Int : z = g * p
    OBVIOUS
  <2> QED
    BY <1>10, <1>17, <2>1
<1> QED
  BY <1>6, <1>7, <1>10, <1>14, <1>15, <1>16, <1>17, <1>18, Zenon

\* Adding the complement for the order's power leaves the rest modulo the order.
LEMMA FoldMod ==
    ASSUME NEW p \in Nat, NEW c \in Nat, NEW m \in Nat, m >= 1, m + c = p, NEW x \in Int, NEW y \in Int
    PROVE  ((x + c * y) % m) = ((x + p * y) % m)
<1>1. x + p * y = (x + c * y) + m * y
  <2>1. (m + c) * y = m * y + c * y
    OBVIOUS
  <2> PICK u \in Int, v \in Int, w \in Int : u = c * y /\ v = m * y /\ w = p * y
    OBVIOUS
  <2>2. w = v + u
    BY <2>1
  <2> QED
    BY <2>2
<1>2. PICK z \in Int : z = x + c * y
  OBVIOUS
<1>3. ((z + m * y) % m) = (z % m)
  BY ModShift, Zenon
<1> QED
  BY <1>1, <1>2, <1>3, Zenon

\* The last pass: the rest times the complement is added, and the order is taken
\* away once if it has to be.
LEMMA ThirdPassRight ==
    ASSUME LimbsFit, NEW r, Limbs(r, L), NEW top \in {0, 1, 2},
           NEW sum, \A i \in Index : sum[i] = r[i] + (IF i <= H THEN Cs[i] * top ELSE 0),
           NEW c, c = Carried(sum), NEW s, s = scalar_reduce(c.r, c.out + Bit(scalar_check_overflow(c.r)))
    PROVE  /\ s.ok /\ s.r \in [Index -> 0..(B - 1)] /\ Limbs(s.r, L)
           /\ Number(s.r, L) = (Number(r, L) + top * Complement) % OrderN
<1>1. L \in Nat /\ top \in Int
  BY Sizes
<1>2. IntLimbs(r, L)
  BY <1>1, LimbsInt
<1>3. /\ c.r \in [Index -> 0..(B - 1)] /\ Limbs(c.r, L) /\ c.out \in Int
      /\ Number(c.r, L) + c.out * Place(L) = Number(r, L) + top * Complement
  BY <1>1, <1>2, ComplementAdded, Zenon
<1>4. /\ Number(r, L) \in Nat /\ Number(r, L) < Place(L) /\ Number(c.r, L) \in Nat /\ Number(c.r, L) < Place(L)
      /\ Place(L) \in Nat
  BY <1>1, <1>3, NumberBound, Places
<1>5. Complement \in Nat /\ OrderN \in Nat /\ OrderN + Complement = Place(L) /\ 8 * Complement <= Place(L)
      /\ Complement >= 16
  BY OrderSize
<1>60. PICK p \in Nat, m \in Nat, d \in Nat, x \in Nat, y \in Nat, o \in Int, z \in Nat :
           /\ p = Place(L) /\ m = OrderN /\ d = Complement /\ x = Number(r, L) /\ y = Number(c.r, L)
           /\ o = c.out /\ z = top * Complement /\ z <= 2 * d
           /\ x < p /\ y < p /\ m + d = p /\ 8 * d <= p /\ d >= 16
  <2>1. top * Complement \in Nat /\ top * Complement <= 2 * Complement
    BY <1>5
  <2> QED
    BY <1>3, <1>4, <1>5, <2>1, Zenon
<1>61. PICK v \in Nat : v = x + z /\ v < 2 * m
  <2>1. x + z \in Nat /\ x + z < 2 * m
    BY <1>60
  <2> QED
    BY <2>1
<1>6. /\ p = Place(L) /\ m = OrderN /\ d = Complement /\ x = Number(r, L) /\ y = Number(c.r, L) /\ o = c.out
      /\ x < p /\ y < p /\ m + d = p /\ 8 * d <= p /\ d >= 16
      /\ v = x + top * d /\ v < 2 * m /\ y + o * p = v
  <2>1. y + o * p = v /\ v = x + top * d
    BY <1>3, <1>60, <1>61, Zenon
  <2> QED
    BY <1>60, <1>61, <2>1, Zenon
<1>7. o \in {0, 1}
  <2>1. o <= -1 => p * o <= -p
    BY <1>6, MultipleGap
  <2>2. o - 2 >= 0 => p * (o - 2) >= 0
    BY <1>6
  <2>3. p * (o - 2) = p * o - 2 * p /\ p * o = o * p
    OBVIOUS
  <2> PICK w \in Int : w = o * p
    OBVIOUS
  <2>4. y + w = v /\ (o <= -1 => w <= -p) /\ (o >= 2 => w >= 2 * p)
    BY <1>6, <2>1, <2>2, <2>3
  <2> QED
    BY <1>6, <2>4
<1>8. scalar_check_overflow(c.r) \in BOOLEAN /\ (scalar_check_overflow(c.r) <=> Number(c.r, L) >= OrderN)
  BY <1>3, ScalarCheckOverflow
<1>9. o = 1 => y < m
  <2>1. o = 1 => y + p = v
    <3>1. 1 * p = p
      OBVIOUS
    <3> QED
      BY <1>6, <3>1, Zenon
  <2> QED
    BY <1>6, <2>1
<1>10. c.out + Bit(scalar_check_overflow(c.r)) = IF c.out > 0 \/ scalar_check_overflow(c.r) THEN 1 ELSE 0
  <2>1. CASE o = 1
    <3>1. ~scalar_check_overflow(c.r)
      BY <1>6, <1>8, <1>9, <2>1
    <3>2. Bit(scalar_check_overflow(c.r)) = 0
      BY <3>1, Zenon DEF Bit
    <3> QED
      BY <1>6, <2>1, <3>2
  <2>2. CASE o = 0
    <3>1. CASE scalar_check_overflow(c.r)
      <4>1. Bit(scalar_check_overflow(c.r)) = 1
        BY <3>1, Zenon DEF Bit
      <4>2. c.out + Bit(scalar_check_overflow(c.r)) = 0 + 1
        BY <1>6, <2>2, <4>1, Zenon
      <4>3. 0 + 1 = 1
        OBVIOUS
      <4> QED
        BY <3>1, <4>2, <4>3, Zenon
    <3>2. CASE ~scalar_check_overflow(c.r)
      <4>1. Bit(scalar_check_overflow(c.r)) = 0
        BY <3>2, Zenon DEF Bit
      <4> QED
        BY <1>6, <2>2, <3>2, <4>1
    <3> QED
      BY <3>1, <3>2
  <2> QED
    BY <1>7, <2>1, <2>2
<1>11. PICK a, out : a = c.r /\ out = c.out
  OBVIOUS
<1>12. a \in [Index -> 0..(B - 1)] /\ out \in {0, 1} /\ v = Number(a, L) + out * Place(L) /\ v < 2 * OrderN
  BY <1>3, <1>6, <1>7, <1>11, Zenon
<1>13. LET u == IF out > 0 \/ scalar_check_overflow(a) THEN 1 ELSE 0
           q == scalar_reduce(a, u)
       IN /\ q.ok /\ q.overflow = u /\ (u = 1) = (v >= OrderN)
          /\ q.r \in [Index -> 0..(B - 1)] /\ Limbs(q.r, L) /\ Number(q.r, L) = v % OrderN
  BY ONLY LimbsFit, v \in Nat, <1>12, ScalarReduceOnce, ZenonT(60)
<1>14. s = scalar_reduce(a, IF out > 0 \/ scalar_check_overflow(a) THEN 1 ELSE 0)
  BY <1>10, <1>11, Zenon
<1> QED
  BY <1>6, <1>13, <1>14, Zenon

\* What a reduction holds: no check of the code fails, and the limbs are the
\* rest modulo the order.
IsReduced(s, v) == /\ s.ok /\ s.r \in [Index -> 0..(B - 1)] /\ Limbs(s.r, L) /\ Number(s.r, L) = v % OrderN

\* The three passes together.
LEMMA ReducedRight ==
    ASSUME LimbsFit, NEW l, Limbs(l, 2 * L), NEW asm \in BOOLEAN
    PROVE  IsReduced(Reduced512(l, asm), Number(l, 2 * L))
<1> DEFINE up == [i \in Index |-> l[i + L]]
           m == Fold(l, up, L, L + H - 1, asm)
           high == [i \in 0..H |-> IF i < H THEN m.limb[L + i] ELSE m.over.c0]
           q == Fold(m.limb, high, H + 1, L - 1, asm)
           top == q.over.c0 + high[H]
           sum == [i \in Index |-> q.limb[i] + (IF i <= H THEN Cs[i] * top ELSE 0)]
           c == Carried(sum)
           s == scalar_reduce(c.r, c.out + Bit(scalar_check_overflow(c.r)))
<1>1. IsFirst(l, asm, up, m, high)
  BY Zenon DEF IsFirst
<1>2. IsSecond(m.limb, high, asm, q) /\ top = q.over.c0 + high[H]
  BY Zenon DEF IsSecond
<1>3. /\ \A i \in Index : sum[i] = q.limb[i] + (IF i <= H THEN Cs[i] * top ELSE 0)
      /\ c = Carried(sum)
      /\ s = scalar_reduce(c.r, c.out + Bit(scalar_check_overflow(c.r)))
  <2> HIDE DEF q, top
  <2> QED
    BY Zenon
<1>4. PICK z : z = Reduced512(l, asm)
  OBVIOUS
<1>5. z = [r |-> s.r, ok |-> s.ok /\ m.over.ok /\ q.over.ok /\ m.over.c0 <= 1 /\ top <= 2]
  BY ONLY <1>4, Zenon DEF Reduced512, SecondPass, ThirdPass, Upper
<1> HIDE DEF up, m, high, q, top, sum, c, s
<1>6. /\ m.over.ok /\ m.over.c0 \in {0, 1} /\ Limbs(m.limb, L) /\ Limbs(high, H + 1)
      /\ high[H] = m.over.c0 /\ Number(high, H + 1) <= Complement
      /\ Number(l, L) \in Nat /\ Number(up, L) \in Nat
      /\ Number(l, 2 * L) = Number(l, L) + Place(L) * Number(up, L)
      /\ Number(m.limb, L) + Place(L) * Number(high, H + 1) = Number(l, L) + Complement * Number(up, L)
  <2>1. PICK u, f, h : u = up /\ f = m /\ h = high
    OBVIOUS
  <2>2. IsFirst(l, asm, u, f, h)
    BY <1>1, <2>1, Zenon
  <2>3. /\ f.over.ok /\ f.over.c0 \in {0, 1} /\ Limbs(f.limb, L) /\ Limbs(h, H + 1)
        /\ h[H] = f.over.c0 /\ Number(h, H + 1) <= Complement
        /\ Number(l, L) \in Nat /\ Number(u, L) \in Nat
        /\ Number(l, 2 * L) = Number(l, L) + Place(L) * Number(u, L)
        /\ Number(f.limb, L) + Place(L) * Number(h, H + 1) = Number(l, L) + Complement * Number(u, L)
    BY ONLY LimbsFit, Limbs(l, 2 * L), asm \in BOOLEAN, <2>2, FirstPassRight
  <2> QED
    BY <2>1, <2>3, Zenon
<1>7. /\ q.over.ok /\ Limbs(q.limb, L) /\ top \in {0, 1, 2}
      /\ Number(q.limb, L) + top * Place(L) = Number(m.limb, L) + Complement * Number(high, H + 1)
  <2>1. PICK low, h, g : low = m.limb /\ h = high /\ g = q
    OBVIOUS
  <2>2. Limbs(low, L) /\ Limbs(h, H + 1) /\ h[H] \in {0, 1} /\ Number(h, H + 1) <= Complement
    BY <1>6, <2>1, Zenon
  <2>3. IsSecond(low, h, asm, g)
    BY <1>2, <2>1, Zenon
  <2>4. /\ g.over.ok /\ Limbs(g.limb, L) /\ g.over.c0 + h[H] \in {0, 1, 2}
        /\ Number(g.limb, L) + (g.over.c0 + h[H]) * Place(L)
               = Number(low, L) + Complement * Number(h, H + 1)
    BY ONLY LimbsFit, asm \in BOOLEAN, <2>2, <2>3, SecondPassRight
  <2> QED
    BY <1>2, <2>1, <2>4, Zenon
<1>8. /\ s.ok /\ s.r \in [Index -> 0..(B - 1)] /\ Limbs(s.r, L)
      /\ Number(s.r, L) = (Number(q.limb, L) + top * Complement) % OrderN
  <2>1. PICK r, a, d, e : r = q.limb /\ a = sum /\ d = c /\ e = s
    OBVIOUS
  <2>2. PICK t \in {0, 1, 2} : t = top
    BY <1>7
  <2>3. \A i \in Index : a[i] = r[i] + (IF i <= H THEN Cs[i] * t ELSE 0)
    BY <1>3, <2>1, <2>2, Zenon
  <2>4. Limbs(r, L)
    BY <1>7, <2>1, Zenon
  <2>5. d = Carried(a)
    BY <1>3, <2>1, Zenon
  <2>6. e = scalar_reduce(d.r, d.out + Bit(scalar_check_overflow(d.r)))
    BY <1>3, <2>1, Zenon
  <2>7. /\ e.ok /\ e.r \in [Index -> 0..(B - 1)] /\ Limbs(e.r, L)
        /\ Number(e.r, L) = (Number(r, L) + t * Complement) % OrderN
    BY ONLY LimbsFit, t \in {0, 1, 2}, <2>3, <2>4, <2>5, <2>6, ThirdPassRight, ZenonT(60)
  <2> QED
    BY <2>1, <2>2, <2>7, Zenon
<1>9. Number(s.r, L) = Number(l, 2 * L) % OrderN
  <2>1. /\ L \in Nat /\ H + 1 \in Nat
    BY Sizes
  <2>2. /\ Number(m.limb, L) \in Nat /\ Number(high, H + 1) \in Nat /\ Number(q.limb, L) \in Nat
        /\ Place(L) \in Nat
    BY <1>6, <1>7, <2>1, NumberBound, Places
  <2>3. OrderN \in Nat /\ Complement \in Nat /\ OrderN + Complement = Place(L) /\ 8 * Complement <= Place(L)
        /\ Complement >= 16
    BY OrderSize
  <2>4. PICK p \in Nat, e \in Nat, n \in Nat : p = Place(L) /\ e = Complement /\ n = OrderN /\ n + e = p /\ n >= 1
    BY <2>2, <2>3
  <2>5. PICK a \in Nat, b \in Nat, u \in Nat, h \in Nat, w \in Nat, t \in Int :
            /\ a = Number(l, L) /\ b = Number(up, L) /\ u = Number(m.limb, L) /\ h = Number(high, H + 1)
            /\ w = Number(q.limb, L) /\ t = top
    <3>1. top \in Int
      BY <1>7
    <3> QED
      BY <1>6, <2>2, <3>1, Zenon
  <2>6. n >= 1 /\ n + e = p
    BY <2>4
  <2>7. ((a + e * b) % n) = ((a + p * b) % n)
    BY ONLY p \in Nat, e \in Nat, n \in Nat, a \in Nat, b \in Nat, <2>6, FoldMod
  <2>8. ((u + e * h) % n) = ((u + p * h) % n)
    BY ONLY p \in Nat, e \in Nat, n \in Nat, u \in Nat, h \in Nat, <2>6, FoldMod
  <2>9. ((w + e * t) % n) = ((w + p * t) % n)
    BY ONLY p \in Nat, e \in Nat, n \in Nat, w \in Nat, t \in Int, <2>6, FoldMod
  <2>10. e * t = t * e /\ p * t = t * p
    OBVIOUS
  <2>11. u + p * h = a + e * b /\ w + t * p = u + e * h
    BY <1>6, <1>7, <2>4, <2>5, Zenon
  <2>12. Number(s.r, L) = ((w + t * e) % n)
    BY <1>8, <2>4, <2>5, Zenon
  <2>13. Number(l, 2 * L) = a + p * b
    BY <1>6, <2>4, <2>5, Zenon
  <2> QED
    BY <2>4, <2>7, <2>8, <2>9, <2>10, <2>11, <2>12, <2>13, Zenon
<1>10. z.ok /\ z.r = s.r
  <2>1. PICK k : k = m.over.c0
    OBVIOUS
  <2>2. k <= 1
    <3>1. k \in {0, 1}
      BY <1>6, <2>1, Zenon
    <3> QED
      BY <3>1
  <2>3. top <= 2
    <3>1. top \in {0, 1, 2}
      BY <1>7
    <3> QED
      BY <3>1
  <2>4. z.r = s.r /\ z.ok = (s.ok /\ m.over.ok /\ q.over.ok /\ m.over.c0 <= 1 /\ top <= 2)
    BY ONLY <1>5
  <2> QED
    BY <1>6, <1>7, <1>8, <2>1, <2>2, <2>3, <2>4, Zenon
<1> QED
  BY <1>4, <1>8, <1>9, <1>10, Zenon DEF IsReduced

\* scalar_reduce_512, in C and in assembler: the number of 2 L limbs modulo the
\* order; both leave the same limbs.
THEOREM ScalarReduce512 ==
    ASSUME LimbsFit, NEW l, Limbs(l, 2 * L)
    PROVE  /\ IsReduced(scalar_reduce_512(l), Number(l, 2 * L))
           /\ IsReduced(scalar_reduce_512_asm(l), Number(l, 2 * L))
  BY ReducedRight, Zenon DEF scalar_reduce_512, scalar_reduce_512_asm

\* The assembler of scalar_4x64_impl.h leaves the limbs that the C leaves: those of a
\* product, of a square and of a reduction.
THEOREM AssemblerAgrees ==
    ASSUME LimbsFit, NEW a, NEW b, Limbs(a, L), Limbs(b, L), NEW l, Limbs(l, 2 * L)
    PROVE  /\ \A i \in 0..(2 * L - 1) : scalar_mul_512_asm(a, b).l[i] = scalar_mul_512(a, b).l[i]
           /\ \A i \in 0..(2 * L - 1) : scalar_sqr_512_asm(a).l[i] = scalar_sqr_512(a).l[i]
           /\ scalar_reduce_512_asm(l).r = scalar_reduce_512(l).r
<1>1. L \in Nat /\ 2 * L \in Nat /\ Index = 0..(L - 1)
  BY Sizes
<1>2. ASSUME NEW p, NEW q, NEW v, IsProduct512(p, v), IsProduct512(q, v)
      PROVE  \A i \in 0..(2 * L - 1) : p.l[i] = q.l[i]
  <2>1. PICK f, g : f = p.l /\ g = q.l
    OBVIOUS
  <2>2. Limbs(f, 2 * L) /\ Limbs(g, 2 * L) /\ Number(f, 2 * L) = Number(g, 2 * L)
    BY <1>2, <2>1, Zenon DEF IsProduct512
  <2>3. \A i \in 0..(2 * L - 1) : f[i] = g[i]
    BY <1>1, <2>2, NumberUnique
  <2> QED
    BY <2>1, <2>3, Zenon
<1>3. ASSUME NEW s, NEW t, NEW v, IsReduced(s, v), IsReduced(t, v)
      PROVE  s.r = t.r
  <2>1. PICK f, g : f = s.r /\ g = t.r
    OBVIOUS
  <2>2. /\ f \in [Index -> 0..(B - 1)] /\ g \in [Index -> 0..(B - 1)]
        /\ Limbs(f, L) /\ Limbs(g, L) /\ Number(f, L) = Number(g, L)
    BY <1>3, <2>1, Zenon DEF IsReduced
  <2>3. \A i \in Index : f[i] = g[i]
    BY <1>1, <2>2, NumberUnique
  <2>4. f = g
    BY <2>2, <2>3
  <2> QED
    BY <2>1, <2>4, Zenon
<1>4. \A i \in 0..(2 * L - 1) : scalar_mul_512_asm(a, b).l[i] = scalar_mul_512(a, b).l[i]
  <2>1. /\ IsProduct512(scalar_mul_512(a, b), Number(a, L) * Number(b, L))
        /\ IsProduct512(scalar_mul_512_asm(a, b), Number(a, L) * Number(b, L))
    BY ScalarMul512
  <2> QED
    BY <1>2, <2>1, Zenon
<1>5. \A i \in 0..(2 * L - 1) : scalar_sqr_512_asm(a).l[i] = scalar_sqr_512(a).l[i]
  <2>1. /\ IsProduct512(scalar_sqr_512(a), Number(a, L) * Number(a, L))
        /\ IsProduct512(scalar_sqr_512_asm(a), Number(a, L) * Number(a, L))
    BY ScalarSqr512
  <2> QED
    BY <1>2, <2>1, Zenon
<1>6. scalar_reduce_512_asm(l).r = scalar_reduce_512(l).r
  <2>1. /\ IsReduced(scalar_reduce_512(l), Number(l, 2 * L))
        /\ IsReduced(scalar_reduce_512_asm(l), Number(l, 2 * L))
    BY ScalarReduce512
  <2> QED
    BY <1>3, <2>1, Zenon
<1> QED
  BY <1>4, <1>5, <1>6, Zenon

\* scalar_mul is the product modulo the order.
THEOREM ScalarMul ==
    ASSUME LimbsFit, NEW a, NEW b, Limbs(a, L), Limbs(b, L)
    PROVE  IsReduced(scalar_mul(a, b), Number(a, L) * Number(b, L))
<1>1. PICK l : l = scalar_mul_512(a, b).l
  OBVIOUS
<1>2. Limbs(l, 2 * L) /\ Number(l, 2 * L) = Number(a, L) * Number(b, L)
  BY <1>1, ScalarMul512, Zenon DEF IsProduct512
<1>3. IsReduced(scalar_reduce_512(l), Number(l, 2 * L))
  BY <1>2, ScalarReduce512
<1> QED
  BY <1>1, <1>2, <1>3, Zenon DEF scalar_mul

\* scalar_sqr is the square modulo the order.
THEOREM ScalarSqr ==
    ASSUME LimbsFit, NEW a, Limbs(a, L)
    PROVE  IsReduced(scalar_sqr(a), Number(a, L) * Number(a, L))
<1>1. PICK l : l = scalar_sqr_512(a).l
  OBVIOUS
<1>2. Limbs(l, 2 * L) /\ Number(l, 2 * L) = Number(a, L) * Number(a, L)
  BY <1>1, ScalarSqr512, Zenon DEF IsProduct512
<1>3. IsReduced(scalar_reduce_512(l), Number(l, 2 * L))
  BY <1>2, ScalarReduce512
<1> QED
  BY <1>1, <1>2, <1>3, Zenon DEF scalar_sqr

-----------------------------------------------------------------------------
(* The shifted product.                                                    *)

\* Limbs are the digits of their number.
LEMMA LimbDigits ==
    ASSUME LimbsFit, NEW n \in Nat, NEW a, Limbs(a, n)
    PROVE  \A i \in 0..(n - 1) : a[i] = (Number(a, n) \div Place(i)) % B
<1>1. Number(a, n) \in Nat /\ Number(a, n) < Place(n) /\ Place(n) \in Nat /\ Place(n) >= 1
  BY NumberBound, Places
<1> PICK v \in Int, p \in Nat : v = Number(a, n) /\ p = Place(n) /\ p >= 1 /\ v \in 0..(p - 1)
  BY <1>1
<1>2. PICK c : c = [i \in 0..(n - 1) |-> (v \div Place(i)) % B]
  BY Zenon
<1>3. \A i \in 0..(n - 1) : c[i] = (v \div Place(i)) % B
  BY <1>2
<1>4. Limbs(c, n) /\ Number(c, n) = v % Place(n)
  BY ONLY LimbsFit, n \in Nat, v \in Int, <1>3, NumberDigits, Zenon
<1>5. v % p = v
  BY ModSmall
<1>6. Number(a, n) = Number(c, n)
  BY <1>4, <1>5
<1>7. \A i \in 0..(n - 1) : a[i] = c[i]
  BY ONLY LimbsFit, n \in Nat, Limbs(a, n), <1>4, <1>6, NumberUnique
<1> QED
  BY <1>3, <1>7, Zenon

\* A limb of t moved down by p, and of the next one what takes its place.
MovedDown(t, b, p, q) == (t % b) \div p + ((((t \div b) % b) * q) % b)

\* It is the limb of what is left of t.
LEMMA ShiftedDigit ==
    ASSUME NEW p \in Nat, NEW q \in Nat, p >= 1, q >= 1, NEW b \in Nat, b = p * q, NEW t \in Nat
    PROVE  MovedDown(t, b, p, q) = (t \div p) % b
<1>1. b >= 1 
  <2>1. 1 * q <= p * q
    BY TimesMonotone
  <2> QED
    BY <2>1
<1>2. PICK d \in Int, e \in 0..(b - 1) : d = t \div b /\ e = t % b /\ t = b * d + e
  <2>1. t \in Int
    OBVIOUS
  <2> QED
    BY ONLY <2>1, b \in Nat, <1>1, Division, Zenon
<1>3. PICK d2 \in Int, d1 \in 0..(b - 1) : d2 = d \div b /\ d1 = d % b /\ d = b * d2 + d1
  BY ONLY d \in Int, b \in Nat, <1>1, Division
<1>4. PICK f \in Int, g \in 0..(p - 1) : f = e \div p /\ g = e % p /\ e = p * f + g
  <2>1. e \in Int
    OBVIOUS
  <2> QED
    BY ONLY <2>1, p \in Nat, p >= 1, Division
<1>5. PICK h \in Int, c \in 0..(p - 1) : h = d1 \div p /\ c = d1 % p /\ d1 = p * h + c
  <2>1. d1 \in Int
    OBVIOUS
  <2> QED
    BY ONLY <2>1, p \in Nat, p >= 1, Division
<1>6. f \in Nat
  <2>1. e \in Nat
    OBVIOUS
  <2> QED
    BY ONLY <2>1, <1>4, p \in Nat, p >= 1, DivisionNat
<1>7. f + c * q \in 0..(b - 1)
  <2>1. g \in Nat /\ p * f + g <= p * q - 1
    BY <1>4
  <2>2. f + c * q \in 0..(p * q - 1)
    BY ONLY p \in Nat, p >= 1, q \in Nat, <1>6, <2>1, c \in 0..(p - 1), ShiftSize
  <2> QED
    BY <2>2
<1>8. c * q \in 0..(b - 1)
  <2>1. c * q \in Nat
    OBVIOUS
  <2> PICK y \in Nat : y = c * q
    BY <2>1
  <2> QED
    BY ONLY <1>6, <1>7, y \in Nat, y = c * q, b \in Nat
<1>9. (d1 * q) % b = c * q
  <2>1. d1 * q = b * h + c * q
    <3>1. (p * h + c) * q = (p * q) * h + c * q
      OBVIOUS
    <3> QED
      BY <1>5, <3>1, Zenon
  <2> PICK z \in Int, y \in 0..(b - 1) : z = d1 * q /\ y = c * q
    BY <1>8
  <2>2. z = b * h + y
    BY <2>1
  <2>4. b >= 1
    BY <1>1
  <2>3. z \div b = h /\ (z % b) = y
    BY ONLY b \in Nat, <2>4, h \in Int, y \in 0..(b - 1), z \in Int, <2>2, DivisionUnique
  <2> QED
    BY <2>3
<1>10. t \div p = q * d + f
  <2>1. t = p * (q * d + f) + g
    <3>1. (p * q) * d + (p * f + g) = p * (q * d + f) + g
      OBVIOUS
    <3> QED
      BY <1>2, <1>4, <3>1, Zenon
  <2> PICK x \in Int : x = q * d + f
    OBVIOUS
  <2>2. t = p * x + g /\ t \in Int
    BY <2>1
  <2>3. t \div p = x
    BY ONLY p \in Nat, p >= 1, x \in Int, g \in 0..(p - 1), <2>2, DivisionUnique
  <2> QED
    BY <2>3
<1>11. q * d + f = b * (q * d2 + h) + (f + c * q)
  <2>1. q * ((p * q) * d2 + (p * h + c)) + f = (p * q) * (q * d2 + h) + (f + c * q)
    OBVIOUS
  <2> QED
    BY <1>3, <1>5, <2>1, Zenon
<1>12. (t \div p) % b = f + c * q
  <2> PICK x \in Int, z \in Int, y \in 0..(b - 1) : x = q * d2 + h /\ z = t \div p /\ y = f + c * q
    BY <1>7, <1>10
  <2>1. z = b * x + y
    BY <1>10, <1>11
  <2>4. b >= 1
    BY <1>1
  <2>2. z \div b = x /\ (z % b) = y
    BY ONLY b \in Nat, <2>4, x \in Int, y \in 0..(b - 1), z \in Int, <2>1, DivisionUnique
  <2> QED
    BY <2>2
<1> QED
  BY <1>2, <1>3, <1>4, <1>9, <1>12, Zenon DEF MovedDown

\* The limbs above a bit are those of what is left above it.
LEMMA ShiftedLimb ==
    ASSUME LimbsFit, NEW n \in Nat, NEW l, Limbs(l, n), NEW j \in 0..(n - 1), NEW low \in 0..(W - 1)
    PROVE  l[j] \div 2^low + (IF j + 1 < n /\ low > 0 THEN (l[j + 1] * 2^(W - low)) % B ELSE 0)
               = (Number(l, n) \div 2^(W * j + low)) % B
<1>1. Number(l, n) \in Nat /\ Number(l, n) < Place(n) /\ Place(n) \in Nat /\ Place(n) >= 1
  BY NumberBound, Places
<1>2. j \in Nat /\ low \in Nat /\ low \in 0..W /\ W \in Nat /\ W * j \in Nat /\ B \in Nat /\ B >= 4
  BY Sizes
<1>3. 2^low \in Nat /\ 2^low >= 1 /\ 2^(W - low) \in Nat /\ 2^low * 2^(W - low) = B
  <2>1. 0 \in Nat
    OBVIOUS
  <2> QED
    BY ONLY LimbsFit, <1>2, <2>1, ShiftedUp, Zenon
<1>4. Place(j) \in Nat /\ Place(j) >= 1 /\ Place(j + 1) = B * Place(j)
  BY <1>2, Places, Zenon
<1> PICK v \in Nat, b \in Nat, p \in Nat, q \in Nat, w \in Nat :
        v = Number(l, n) /\ b = B /\ p = 2^low /\ q = 2^(W - low) /\ w = Place(j) /\ p >= 1 /\ w >= 1
  BY <1>1, <1>2, <1>3, <1>4, Zenon
<1>5. b = p * q /\ b >= 4
  BY <1>2, <1>3
<1>6. q >= 1
  <2> SUFFICES ASSUME q = 0 PROVE FALSE
    OBVIOUS
  <2>1. p * 0 = 0
    OBVIOUS
  <2> QED
    BY <1>5, <2>1
<1>7. v \div w \in Nat
  BY DivisionNat
<1> PICK t \in Nat : t = v \div w
  BY <1>7
<1>8. \A i \in 0..(n - 1) : l[i] = (v \div Place(i)) % b
  BY LimbDigits
<1>9. l[j] = t % b
  BY <1>8
<1>10. v \in Int /\ b >= 1
  BY <1>5
<1>11. v \div Place(j + 1) = t \div b
  <2>1. v \div (w * b) = (v \div w) \div b
    BY ONLY w \in Nat, w >= 1, b \in Nat, <1>10, ModSplit, Zenon
  <2>2. w * b = b * w
    OBVIOUS
  <2> QED
    BY <1>4, <2>1, <2>2
<1>12. Number(l, n) \div 2^(W * j + low) = t \div p
  <2>1. 2^(W * j + low) = w * p
    BY <1>2, PowerSum DEF Place
  <2>2. v \div (w * p) = (v \div w) \div p
    BY ONLY w \in Nat, w >= 1, p \in Nat, p >= 1, <1>10, ModSplit, Zenon
  <2> QED
    BY <2>1, <2>2
<1>13. (t % b) \div p + ((((t \div b) % b) * q) % b) = (t \div p) % b
  <2>1. b = p * q
    BY <1>5
  <2>2. MovedDown(t, b, p, q) = (t \div p) % b
    BY ONLY p \in Nat, p >= 1, q \in Nat, <1>6, b \in Nat, <2>1, t \in Nat, ShiftedDigit
  <2> QED
    BY <2>2, Zenon DEF MovedDown
<1>14. CASE j + 1 < n /\ low > 0
  <2>1. l[j + 1] = (t \div b) % b
    BY <1>2, <1>8, <1>11, <1>14
  <2> QED
    BY <1>9, <1>12, <1>13, <1>14, <2>1, Zenon
<1>15. CASE low = 0
  <2>1. p = 1
    BY <1>15, PowerZero
  <2>2. (t % b) \div 1 = t % b /\ t \div 1 = t /\ (t % b) + 0 = t % b
    BY <1>10
  <2>3. l[j] \div 2^low = t % b
    BY <1>9, <2>1, <2>2
  <2>4. Number(l, n) \div 2^(W * j + low) = t
    BY <1>12, <2>1, <2>2
  <2>5. (IF j + 1 < n /\ low > 0 THEN (l[j + 1] * 2^(W - low)) % B ELSE 0) = 0
    BY <1>15
  <2> QED
    BY <2>2, <2>3, <2>4, <2>5
<1>16. CASE ~(j + 1 < n)
  <2>1. j + 1 = n
    BY <1>16
  <2>2. v \div Place(n) = 0
    <3> PICK z \in Nat : z = Place(n) /\ z >= 1 /\ v \in 0..(z - 1)
      BY <1>1
    <3> QED
      BY ModSmall
  <2>3. t \div b = 0
    BY <1>11, <2>1, <2>2, Zenon
  <2>4. (0 % b) = 0 /\ 0 * q = 0
    BY <1>10
  <2>5. (t % b) \div p + 0 = (t \div p) % b
    BY <1>13, <2>3, <2>4, Zenon
  <2> QED
    BY <1>9, <1>12, <1>16, <2>5, Zenon
<1> QED
  BY <1>2, <1>14, <1>15, <1>16

\* A bit of the limbs is that bit of their number.
LEMMA LimbBit ==
    ASSUME LimbsFit, NEW n \in Nat, NEW l, Limbs(l, n), NEW j \in 0..(n - 1), NEW s \in 0..(W - 1)
    PROVE  (l[j] \div 2^s) % 2 = (Number(l, n) \div 2^(W * j + s)) % 2
<1>1. j \in Nat /\ s \in Nat /\ s \in 0..W /\ W \in Nat /\ W * j \in Nat /\ B \in Nat /\ B >= 4
  BY Sizes
<1>2. Place(j) \in Nat /\ Place(j) >= 1 /\ Number(l, n) \in Nat
  BY <1>1, Places, NumberBound, Zenon
<1>3. 2^s \in Nat /\ 2^s >= 1 /\ 2^(W - s) \in Nat /\ 2^s * 2^(W - s) = B
  <2>1. 0 \in Nat
    OBVIOUS
  <2> QED
    BY ONLY LimbsFit, <1>1, <2>1, ShiftedUp, Zenon
<1>4. PICK h \in Nat : 2^(W - s) = 2 * h
  <2>1. W - s - 1 \in Nat /\ (W - s - 1) + 1 = W - s
    BY <1>1
  <2>2. 2^((W - s - 1) + 1) = 2 * 2^(W - s - 1) /\ 2^(W - s - 1) \in Nat
    BY <2>1, PowerNext, PowerPositive
  <2> QED
    BY <2>1, <2>2
<1> PICK v \in Nat, b \in Nat, p \in Nat, w \in Nat :
        v = Number(l, n) /\ b = B /\ p = 2^s /\ w = Place(j) /\ p >= 1 /\ w >= 1
  BY <1>1, <1>2, <1>3
<1>14. v \in Int
  OBVIOUS
<1>5. b >= 1 /\ b = p * (2 * h)
  BY <1>1, <1>3, <1>4
<1>6. l[j] = (v \div w) % b
  BY LimbDigits
<1>7. v \div w \in Int
  <2>1. v \div w \in Nat
    BY <1>2, DivisionNat
  <2> QED
    BY <2>1
<1> PICK t \in Int : t = v \div w
  BY <1>7
<1>8. PICK d \in Int, e \in 0..(b - 1) : d = t \div b /\ e = t % b /\ t = b * d + e
  BY ONLY t \in Int, b \in Nat, <1>5, Division, ZenonT(60)
<1>9. t \div p = e \div p + 2 * (h * d)
  <2> PICK y \in Int : y = 2 * (h * d)
    OBVIOUS
  <2>1. t = e + p * y
    <3>1. (p * (2 * h)) * d + e = e + p * (2 * (h * d))
      OBVIOUS
    <3> QED
      BY <1>5, <1>8, <3>1
  <2>2. e \in Int
    OBVIOUS
  <2>3. (e + p * y) \div p = e \div p + y
    BY ONLY p \in Nat, p >= 1, <2>2, y \in Int, DivShift
  <2> QED
    BY <2>1, <2>3
<1>10. (t \div p) % 2 = (e \div p) % 2
  <2>1. e \div p \in Int
    <3>1. e \in Int
      OBVIOUS
    <3> QED
      BY ONLY <3>1, p \in Nat, p >= 1, Division
  <2> PICK x \in Int, y \in Int, m \in Nat : x = e \div p /\ y = h * d /\ m = 2
    BY <2>1
  <2>2. m >= 1
    OBVIOUS
  <2>3. ((x + m * y) % m) = (x % m)
    BY ONLY m \in Nat, <2>2, x \in Int, y \in Int, ModShift, Zenon
  <2> QED
    BY <1>9, <2>3
<1>11. Number(l, n) \div 2^(W * j + s) = t \div p
  <2>1. 2^(W * j + s) = w * p
    BY <1>1, PowerSum DEF Place
  <2>2. v \div (w * p) = (v \div w) \div p
    BY ONLY w \in Nat, w >= 1, p \in Nat, p >= 1, <1>14, ModSplit, Zenon
  <2> QED
    BY <2>1, <2>2
<1> QED
  BY <1>6, <1>8, <1>10, <1>11

\* Bits against limbs.
LEMMA BitsAndLimbs ==
    ASSUME NEW w \in Nat, NEW k \in Nat, NEW s \in 0..(w - 1), NEW m \in Int
    PROVE  w * k + s >= m * w <=> k >= m
<1>1. w * k = k * w /\ k * w \in Int /\ m * w \in Int /\ (k + 1) * w = k * w + w
  OBVIOUS
<1>2. ASSUME k >= m PROVE w * k + s >= m * w
  <2>1. m * w <= k * w
    BY <1>2, TimesMonotone
  <2> QED
    BY <1>1, <2>1
<1>3. ASSUME ~(k >= m) PROVE ~(w * k + s >= m * w)
  <2>1. k + 1 <= m /\ k + 1 \in Int
    BY <1>3
  <2>2. (k + 1) * w <= m * w
    BY ONLY <2>1, k + 1 \in Int, m \in Int, w \in Nat, TimesMonotone
  <2> PICK y \in Int, z \in Int : y = k * w /\ z = m * w
    BY <1>1
  <2>3. y + w <= z /\ w * k = y
    BY <1>1, <2>2
  <2> QED
    BY <2>3
<1> QED
  BY <1>2, <1>3

\* A limb of the shifted product, and what it stands for.
ShiftLimb(l, shift, i) ==
    IF shift >= (2 * L - i) * W THEN 0
    ELSE l[i + shift \div W] \div 2^(shift % W)
         + (IF shift < (2 * L - 1 - i) * W /\ shift % W > 0
            THEN (l[i + 1 + shift \div W] * 2^(W - (shift % W))) % B ELSE 0)

\* It is limb i of what is left of the product below the shift.
LEMMA ShiftLimbRight ==
    ASSUME LimbsFit, NEW l, Limbs(l, 2 * L), NEW shift \in Nat, NEW i \in Index
    PROVE  ShiftLimb(l, shift, i) = LimbsOf(Number(l, 2 * L) \div 2^shift)[i]
<1>1. /\ L \in Nat /\ L >= 4 /\ 2 * L \in Nat /\ W \in Nat /\ W >= 2 /\ Index = 0..(L - 1) /\ B \in Nat /\ B >= 4
      /\ i \in Nat /\ i <= L - 1
  BY Sizes
<1>2. PICK k \in Nat, s \in 0..(W - 1) : k = shift \div W /\ s = shift % W /\ shift = W * k + s
  <2> PICK w \in Nat : w = W /\ w >= 1
    BY <1>1
  <2>1. shift \in Int
    OBVIOUS
  <2>2. shift % w \in 0..(w - 1) /\ shift = w * (shift \div w) + (shift % w)
    BY ONLY <2>1, w \in Nat, w >= 1, Division
  <2>3. shift \div w \in Nat
    BY ONLY shift \in Nat, w \in Nat, w >= 1, DivisionNat
  <2> QED
    BY <2>2, <2>3
<1>3. PICK j \in Nat : j = i + k /\ j = k + i
  BY <1>1
<1>4. s \in Nat /\ j + s \in Nat /\ W * j \in Nat /\ W * j + s \in Nat /\ W * i \in Nat
  BY <1>1, <1>2
<1>5. PICK v \in Nat : v = Number(l, 2 * L) /\ v < Place(2 * L)
  BY <1>1, NumberBound
<1>6. 2^shift \in Nat /\ 2^shift >= 1 /\ Place(i) \in Nat /\ Place(i) >= 1 /\ 2^shift * Place(i) = 2^(W * j + s)
  <2>1. shift + W * i = W * j + s
    <3>1. W * (k + i) = W * k + W * i
      BY <1>1
    <3> QED
      BY <1>1, <1>2, <1>3, <3>1, SMTT(30)
  <2>2. 2^(shift + W * i) = 2^shift * 2^(W * i)
    BY <1>4, PowerSum, Zenon
  <2> QED
    BY <1>1, <2>1, <2>2, PowerPositive, Places DEF Place
<1>7. LimbsOf(v \div 2^shift)[i] = (v \div 2^(W * j + s)) % B
  <2> PICK p \in Nat, q \in Nat : p = 2^shift /\ q = Place(i) /\ p >= 1 /\ q >= 1 /\ p * q = 2^(W * j + s)
    BY <1>6
  <2> PICK b \in Nat : b = B
    BY <1>1
  <2>1. v \in Int
    OBVIOUS
  <2>2. v \div (p * q) = (v \div p) \div q
    BY ONLY p \in Nat, p >= 1, q \in Nat, q >= 1, <2>1, ModSplit, Zenon
  <2>3. LimbsOf(v \div p)[i] = ((v \div p) \div q) % b
    BY Zenon DEF LimbsOf
  <2> QED
    BY <2>2, <2>3
<1>8. shift >= (2 * L - i) * W <=> j >= 2 * L
  <2>a. 2 * L - i \in Int
    BY <1>1
  <2>1. PICK m \in Int, w \in Nat : m = 2 * L - i /\ w = W
    BY <1>1, <2>a, Zenon
  <2>2. w * k + s >= m * w <=> k >= m
    BY <1>2, <2>1, BitsAndLimbs
  <2>3. k >= m <=> j >= 2 * L
    BY <1>1, <1>3, <2>1
  <2>4. shift = w * k + s
    BY <1>2, <2>1
  <2> QED
    BY <2>1, <2>2, <2>3, <2>4, Zenon
<1>9. shift < (2 * L - 1 - i) * W <=> j + 1 < 2 * L
  <2>1. PICK m \in Int, w \in Nat : m = 2 * L - 1 - i /\ w = W
    BY <1>1
  <2>2. w * k + s >= m * w <=> k >= m
    BY <1>2, <2>1, BitsAndLimbs
  <2>3. k >= m <=> ~(j + 1 < 2 * L)
    BY <1>1, <1>3, <2>1
  <2>4. shift = w * k + s
    BY <1>2, <2>1
  <2>5. PICK z \in Int : z = m * w
    OBVIOUS
  <2>6. shift < z <=> ~(shift >= z)
    OBVIOUS
  <2> QED
    BY <2>1, <2>2, <2>3, <2>4, <2>5, <2>6, Zenon
<1>10. CASE j >= 2 * L
  <2>1. ShiftLimb(l, shift, i) = 0
    BY <1>8, <1>10, Zenon DEF ShiftLimb
  <2>2. v \div 2^(W * j + s) = 0
    <3>1. W * (2 * L) \in Nat /\ W * (2 * L) <= W * j + s
      <4> PICK w \in Nat, m \in Nat : w = W /\ m = 2 * L
        BY <1>1
      <4>1. m * w <= j * w
        BY <1>10, TimesMonotone
      <4>2. m * w = w * m /\ j * w = w * j /\ w * m \in Nat /\ w * j \in Nat
        OBVIOUS
      <4> QED
        BY <1>4, <4>1, <4>2
    <3>2. 2^(W * (2 * L)) <= 2^(W * j + s)
      BY <1>4, <3>1, PowerMonotone
    <3>3. 2^(W * j + s) \in Nat /\ Place(2 * L) \in Nat
      BY <1>1, <1>4, PowerPositive, Places
    <3> PICK q \in Nat : q = 2^(W * j + s) /\ v \in 0..(q - 1) /\ q >= 1
      BY <1>5, <3>2, <3>3 DEF Place
    <3> QED
      BY ModSmall
  <2>3. (0 % B) = 0
    BY <1>1
  <2> QED
    BY <1>5, <1>7, <2>1, <2>2, <2>3, Zenon
<1>11. CASE ~(j >= 2 * L)
  <2>1. PICK n \in Nat : n = 2 * L
    BY <1>1
  <2>2. j \in 0..(n - 1) /\ Limbs(l, n)
    BY <1>11, <2>1
  <2>3. l[j] \div 2^s + (IF j + 1 < n /\ s > 0 THEN (l[j + 1] * 2^(W - s)) % B ELSE 0)
            = (Number(l, n) \div 2^(W * j + s)) % B
    BY ONLY LimbsFit, n \in Nat, <2>2, s \in 0..(W - 1), ShiftedLimb
  <2>4. i + k = j /\ i + 1 + k = j + 1
    BY <1>1, <1>3
  <2>5. ShiftLimb(l, shift, i) = l[j] \div 2^s + (IF j + 1 < n /\ s > 0 THEN (l[j + 1] * 2^(W - s)) % B ELSE 0)
    BY <1>2, <1>8, <1>9, <1>11, <2>1, <2>4, Zenon DEF ShiftLimb
  <2> QED
    BY <1>5, <1>7, <2>1, <2>3, <2>5, Zenon
<1> QED
  BY <1>10, <1>11

\* The bit that is rounded.
HalfBit(l, shift) == (l[(shift - 1) \div W] \div 2^((shift - 1) % W)) % 2

\* The bit is added to the shifted limbs.
LEMMA ShiftChosen ==
    ASSUME NEW a, NEW b, NEW shift
    PROVE  scalar_mul_shift_var(a, b, shift)
              = scalar_cadd_bit([i \in Index |-> ShiftLimb(scalar_mul_512(a, b).l, shift, i)], 0,
                                HalfBit(scalar_mul_512(a, b).l, shift) = 1)
  BY Zenon DEF scalar_mul_shift_var, ShiftLimb, HalfBit

\* The bit of the number that is rounded.
LEMMA HalfBitRight ==
    ASSUME LimbsFit, NEW l, Limbs(l, 2 * L), NEW m \in Nat, m < (2 * L) * W
    PROVE  HalfBit(l, m + 1) = (Number(l, 2 * L) \div 2^m) % 2
<1>1. L \in Nat /\ 2 * L \in Nat /\ W \in Nat /\ W >= 2
  BY Sizes
<1>2. PICK k \in Nat, s \in 0..(W - 1) : k = m \div W /\ s = m % W /\ m = W * k + s
  <2> PICK w \in Nat : w = W /\ w >= 1
    BY <1>1
  <2>1. m \in Int
    OBVIOUS
  <2>2. m % w \in 0..(w - 1) /\ m = w * (m \div w) + (m % w)
    BY ONLY <2>1, w \in Nat, w >= 1, Division
  <2>3. m \div w \in Nat
    BY ONLY m \in Nat, w \in Nat, w >= 1, DivisionNat
  <2> QED
    BY <2>2, <2>3
<1>3. PICK n \in Nat : n = 2 * L
  BY <1>1
<1>4. k \in 0..(n - 1)
  <2> PICK w \in Nat : w = W /\ w >= 1
    BY <1>1
  <2>1. s \in 0..(w - 1) /\ n \in Int
    BY <1>2
  <2>2. w * k + s >= n * w <=> k >= n
    BY ONLY w \in Nat, k \in Nat, <2>1, BitsAndLimbs
  <2>3. PICK z \in Int : z = n * w
    OBVIOUS
  <2>4. w * k + s < z
    BY <1>2, <1>3, <2>3
  <2>5. ~(w * k + s >= z)
    <3> PICK y \in Int : y = w * k
      OBVIOUS
    <3> QED
      BY <2>4
  <2>6. ~(k >= n)
    BY <2>2, <2>3, <2>5, Zenon
  <2> QED
    BY <2>6
<1>5. (l[k] \div 2^s) % 2 = (Number(l, n) \div 2^(W * k + s)) % 2
  <2>1. Limbs(l, n)
    BY <1>3
  <2> QED
    BY ONLY LimbsFit, n \in Nat, <2>1, <1>4, s \in 0..(W - 1), LimbBit
<1>6. (m + 1) - 1 = m
  OBVIOUS
<1>7. HalfBit(l, m + 1) = (l[k] \div 2^s) % 2
  BY <1>2, <1>6, Zenon DEF HalfBit
<1> QED
  BY <1>2, <1>3, <1>5, <1>7, Zenon

\* The size of what is left of a product above a scalar.
LEMMA ShiftedSize ==
    ASSUME NEW p \in Nat, NEW m \in Nat, m >= 2, m <= p, NEW x \in Nat, NEW y \in Nat, x < m, y < m,
           NEW d \in Nat, p <= d
    PROVE  (x * y) \div d \in Nat /\ (x * y) \div d <= m - 2
<1>1. x <= m - 1 /\ y <= p - 1 /\ y <= d - 1 /\ d >= 1 /\ m >= 1 /\ d - 1 \in Nat
  OBVIOUS
<1>2. PICK z \in Nat : z = x * y
  OBVIOUS
<1>3. z <= (m - 1) * (d - 1)
  <2>1. x * y <= (m - 1) * y
    BY <1>1, TimesMonotone
  <2>2. y * (m - 1) <= (d - 1) * (m - 1)
    BY <1>1, TimesMonotone
  <2>3. y * (m - 1) = (m - 1) * y /\ (d - 1) * (m - 1) = (m - 1) * (d - 1)
    OBVIOUS
  <2> PICK u \in Int, v \in Int : u = (m - 1) * y /\ v = (m - 1) * (d - 1)
    OBVIOUS
  <2> QED
    BY <1>2, <2>1, <2>2, <2>3
<1>4. z < d * ((m - 2) + 1)
  <2>1. (m - 1) * (d - 1) = d * (m - 1) - (m - 1) /\ (m - 2) + 1 = m - 1
    OBVIOUS
  <2> PICK u \in Int, v \in Int : u = (m - 1) * (d - 1) /\ v = d * (m - 1)
    OBVIOUS
  <2> QED
    BY <1>3, <2>1
<1>5. z \div d \in Nat /\ z \div d <= m - 2
  <2> PICK e \in Int, u \in Int : e = m - 2 /\ u = z
    OBVIOUS
  <2>1. u >= 0 /\ u < d * (e + 1) /\ d >= 1
    BY <1>1, <1>4
  <2>2. u \div d \in Nat /\ u \div d <= e
    BY ONLY d \in Nat, u \in Int, e \in Int, <2>1, DivBound
  <2> QED
    BY <2>2
<1> QED
  BY <1>2, <1>5

\* scalar_mul_shift_var: the product divided by a power of two that leaves a
\* scalar of it, to the nearest number; the rounding never carries out.
THEOREM ScalarMulShiftVar ==
    ASSUME LimbsFit, NEW a, NEW b, Limbs(a, L), Limbs(b, L), Number(a, L) < OrderN, Number(b, L) < OrderN,
           NEW shift \in Nat, shift >= L * W, shift <= (2 * L) * W
    PROVE  LET s == scalar_mul_shift_var(a, b, shift)
           IN /\ s.ok /\ Limbs(s.r, L)
              /\ Number(s.r, L) = ((Number(a, L) * Number(b, L)) \div 2^(shift - 1) + 1) \div 2
<1>1. /\ L \in Nat /\ L >= 4 /\ 2 * L \in Nat /\ W \in Nat /\ W >= 2 /\ Index = 0..(L - 1) /\ L * W \in Nat
      /\ L * W >= 1 /\ W * L = L * W
  BY Sizes, SMTT(30)
<1>2. PICK l : l = scalar_mul_512(a, b).l
  OBVIOUS
<1>3. Limbs(l, 2 * L) /\ Number(l, 2 * L) = Number(a, L) * Number(b, L)
  BY <1>2, ScalarMul512, Zenon DEF IsProduct512
<1>4. Number(a, L) \in Nat /\ Number(b, L) \in Nat
  BY <1>1, NumberBound
<1>5. /\ OrderN \in Nat /\ OrderN >= 2 /\ OrderN <= Place(L) /\ Place(L) \in Nat
  <2>1. Complement \in Nat /\ OrderN \in Nat /\ OrderN + Complement = Place(L) /\ 8 * Complement <= Place(L)
        /\ Complement >= 16
    BY OrderSize
  <2> QED
    BY <2>1
<1>6. PICK m \in Nat : shift = m + 1 /\ m = shift - 1 /\ m < (2 * L) * W
  <2> PICK z \in Int : z = (2 * L) * W
    BY <1>1
  <2>1. shift - 1 \in Nat
    BY <1>1
  <2> QED
    BY <1>1, <2>1
<1>7. PICK v \in Nat, d \in Nat, h \in Nat : v = Number(a, L) * Number(b, L) /\ d = 2^shift /\ h = 2^m /\ d = 2 * h /\ h >= 1
  <2>1. Number(a, L) * Number(b, L) \in Nat
    BY <1>4
  <2> QED
    BY <1>6, <2>1, PowerNext, PowerPositive
<1>8. v \div d \in Nat /\ v \div d <= OrderN - 2
  <2> PICK p \in Nat, n \in Nat, x \in Nat, y \in Nat :
          p = Place(L) /\ n = OrderN /\ x = Number(a, L) /\ y = Number(b, L) /\ n >= 2 /\ n <= p /\ x < n /\ y < n
    BY <1>4, <1>5
  <2>1. p <= d
    <3>1. 2^(L * W) <= 2^shift
      BY <1>1, PowerMonotone
    <3> QED
      BY <1>1, <1>7, <3>1, Zenon DEF Place
  <2>2. (x * y) \div d \in Nat /\ (x * y) \div d <= n - 2
    BY ONLY p \in Nat, n \in Nat, n >= 2, n <= p, x \in Nat, y \in Nat, x < n, y < n, d \in Nat, <2>1, ShiftedSize
  <2> QED
    BY <1>7, <2>2
<1>9. PICK x \in Nat : x = v \div d /\ x <= OrderN - 2
  BY <1>8
<1>10. PICK r : r = LimbsOf(x)
  OBVIOUS
<1>11. Limbs(r, L) /\ Number(r, L) = x /\ r \in [Index -> 0..(B - 1)]
  <2>1. x \in Int
    OBVIOUS
  <2>2. Limbs(r, L) /\ Number(r, L) = x % Place(L) /\ r \in [Index -> 0..(B - 1)]
    BY ONLY LimbsFit, <1>10, <2>1, LimbsOfRight
  <2> PICK p \in Nat : p = Place(L) /\ x \in 0..(p - 1) /\ p >= 1
    BY <1>5, <1>9
  <2>3. x % p = x
    BY ModSmall
  <2> QED
    BY <2>2, <2>3
<1>12. [i \in Index |-> ShiftLimb(l, shift, i)] = r
  <2>1. ASSUME NEW i \in Index
        PROVE  ShiftLimb(l, shift, i) = r[i]
    <3>1. ShiftLimb(l, shift, i) = LimbsOf(Number(l, 2 * L) \div 2^shift)[i]
      BY <1>3, ShiftLimbRight
    <3> QED
      BY <1>3, <1>7, <1>9, <1>10, <3>1, Zenon
  <2> QED
    BY <1>11, <2>1
<1>13. PICK f \in BOOLEAN : f = (HalfBit(l, shift) = 1)
  BY Zenon
<1>14. scalar_mul_shift_var(a, b, shift) = scalar_cadd_bit(r, 0, f)
  BY <1>2, <1>12, <1>13, ShiftChosen, Zenon
<1>15. HalfBit(l, shift) = (v \div h) % 2
  BY <1>3, <1>6, <1>7, HalfBitRight, Zenon
<1>16. v \div h \in Nat /\ (v \div h) \div 2 = x
  <2>1. v \in Int
    OBVIOUS
  <2>2. v \div (h * 2) = (v \div h) \div 2
    <3> PICK two \in Nat : two = 2 /\ two >= 1
      OBVIOUS
    <3>1. v \div (h * two) = (v \div h) \div two
      BY ONLY h \in Nat, <1>7, two \in Nat, two >= 1, <2>1, ModSplit
    <3> QED
      BY <3>1
  <2>3. v \div h \in Nat
    BY ONLY v \in Nat, h \in Nat, <1>7, DivisionNat
  <2> QED
    BY <1>7, <1>9, <2>2, <2>3
<1>17. PICK y \in Nat, e \in {0, 1} : y = v \div h /\ e = (v \div h) % 2 /\ y = 2 * x + e
  <2>1. PICK y \in Nat : y = v \div h /\ y \div 2 = x
    BY <1>16, Zenon
  <2>2. (y % 2) \in {0, 1} /\ y = 2 * (y \div 2) + (y % 2)
    OBVIOUS
  <2> QED
    BY ONLY <2>1, <2>2, y \in Nat, Zenon
<1>18. f = (e = 1)
  BY <1>13, <1>15, <1>17, Zenon
<1>19. (IF f THEN 2^0 ELSE 0) = e
  <2>1. CASE f
    BY <1>18, <2>1, PowerZero, Zenon
  <2>2. CASE ~f
    <3>1. e = 0
      BY <1>18, <2>2, Zenon
    <3> QED
      BY <2>2, <3>1
  <2> QED
    BY <2>1, <2>2
<1>20. x + e < OrderN /\ (y + 1) \div 2 = x + e
  <2>1. x + e < OrderN
    <3> PICK n \in Nat : n = OrderN /\ x <= n - 2
      BY <1>5, <1>9
    <3> QED
      OBVIOUS
  <2>2. (2 * x + e + 1) \div 2 = x + e
    BY ONLY x \in Nat, e \in {0, 1}
  <2> QED
    BY <1>17, <2>1, <2>2, Zenon
<1>21. 0 \in 0..(L * W - 1)
  BY <1>1
<1>22. LET s == scalar_cadd_bit(r, 0, f) IN s.ok /\ Limbs(s.r, L) /\ Number(s.r, L) = x + e
  <2>1. Number(r, L) + (IF f THEN 2^0 ELSE 0) = x + e
    BY <1>11, <1>19, Zenon
  <2>2. Number(r, L) + (IF f THEN 2^0 ELSE 0) < OrderN
    BY <1>20, <2>1, Zenon
  <2>3. LET s == scalar_cadd_bit(r, 0, f)
        IN s.ok /\ Limbs(s.r, L) /\ Number(s.r, L) = Number(r, L) + (IF f THEN 2^0 ELSE 0)
    BY ONLY LimbsFit, <1>11, <1>21, f \in BOOLEAN, <2>2, ScalarCaddBit, Zenon
  <2> QED
    BY <2>1, <2>3, Zenon
<1>23. ((Number(a, L) * Number(b, L)) \div 2^(shift - 1) + 1) \div 2 = x + e
  BY <1>6, <1>7, <1>17, <1>20, Zenon
<1> QED
  BY <1>14, <1>22, <1>23, Zenon

-----------------------------------------------------------------------------
(* The layouts of the program.                                             *)

\* A layout fits when the highest limb of the complement, below its 1, is less
\* than a third of a limb.
LEMMA LayoutFits ==
    ASSUME L \in {4, 8}, W \in Nat \ {0, 1}, L <= B, ByteBits \in Nat \ {0}, (W % ByteBits) = 0,
           \A i \in 1..H : C[i] \in 0..(B - 1), (C[1] % 2) = 1, 3 * (C[H] + 1) <= B
    PROVE  LimbsFit
<1>1. W \in Nat /\ H \in Nat /\ H >= 2 /\ L = 2 * H /\ H - 1 \in Nat /\ (H - 1) + 1 = H /\ H + 1 \in Nat
  BY DEF H
<1>2. /\ \A i \in 0..(H - 1) : Cs[i] = C[i + 1]
      /\ Cs[H] = 1
  BY <1>1 DEF Cs
<1>3. Limbs(Cs, H) /\ Limbs(Cs, H - 1) /\ IntLimbs(Cs, H + 1) /\ IntLimbs(Cs, H)
  <2>1. ASSUME NEW i \in 0..(H - 1)
        PROVE  Cs[i] \in 0..(B - 1)
    <3>1. i + 1 \in 1..H
      BY <1>1
    <3> QED
      BY <1>2, <3>1
  <2>2. Limbs(Cs, H) /\ Limbs(Cs, H - 1)
    BY <1>1, <2>1 DEF Limbs
  <2>3. \A i \in 0..H : Cs[i] \in Int
    BY <1>1, <1>2, <2>1
  <2> QED
    BY <1>1, <2>2, <2>3 DEF IntLimbs
<1>4. /\ Number(Cs, H - 1) \in Nat /\ Number(Cs, H - 1) < Place(H - 1)
      /\ Number(Cs, H) = Number(Cs, H - 1) + Cs[H - 1] * Place(H - 1)
      /\ Number(Cs, H + 1) = Number(Cs, H) + Cs[H] * Place(H)
  BY <1>1, <1>3, NumberBelow, NumberRun
<1>5. Place(H - 1) \in Nat /\ B \in Nat /\ Place(H) = B * Place(H - 1) /\ Place(H) \in Nat
  BY <1>1, PlacesOf, Zenon
<1>6. Place(L) = Place(H) * Place(H)
  <2> PICK w \in Nat, h \in Nat : w = W /\ h = H
    BY <1>1
  <2>1. w * h \in Nat /\ w * (2 * h) = w * h + w * h
    OBVIOUS
  <2>2. 2^(w * h + w * h) = 2^(w * h) * 2^(w * h)
    BY <2>1, PowerSum
  <2> QED
    BY <1>1, <2>1, <2>2 DEF Place
<1>7. Cs[H - 1] = C[H] /\ C[H] \in Nat
  BY <1>1, <1>2
<1>8. PICK u \in Nat, p \in Nat, c \in Nat, b \in Nat, v \in Nat :
           /\ u = Number(Cs, H - 1) /\ p = Place(H - 1) /\ c = C[H] /\ b = B /\ v = Number(Cs, H + 1)
           /\ u < p /\ v = u + c * p + b * p /\ 3 * (c + 1) <= b /\ Place(H) = b * p
  <2>1. PICK u \in Nat, p \in Nat, c \in Nat, b \in Nat :
             u = Number(Cs, H - 1) /\ p = Place(H - 1) /\ c = C[H] /\ b = B /\ u < p
    BY <1>4, <1>5, <1>7
  <2>2. Number(Cs, H + 1) = u + c * p + b * p
    BY <1>2, <1>4, <1>5, <1>7, <2>1
  <2>3. u + c * p + b * p \in Nat
    OBVIOUS
  <2> QED
    BY <1>5, <2>1, <2>2, <2>3
<1>9. PICK q \in Nat : q = b * p
  OBVIOUS
<1>10. 3 * v <= 4 * q
  <2>1. (3 * (c + 1)) * p <= b * p
    <3>1. PICK d \in Nat : b = 3 * (c + 1) + d
      <4>1. b - 3 * (c + 1) \in Nat
        BY <1>8
      <4> QED
        BY <4>1
    <3>2. b * p = (3 * (c + 1)) * p + d * p /\ d * p \in Nat
      BY <3>1
    <3> QED
      BY <3>2
  <2>2. (3 * (c + 1)) * p = 3 * (c * p) + 3 * p
    OBVIOUS
  <2>3. PICK x \in Nat : x = c * p
    OBVIOUS
  <2> QED
    BY <1>8, <1>9, <2>1, <2>2, <2>3
<1>11. v * v <= 2 * (q * q)
  <2>1. PICK x \in Nat, y \in Nat : x = 3 * v /\ y = 4 * q /\ x <= y
    BY <1>10
  <2>2. x * x <= y * y
    <3>1. x * x <= x * y /\ x * y <= y * y
      BY <2>1
    <3> QED
      BY <3>1
  <2>3. x * x = 9 * (v * v) /\ y * y = 16 * (q * q)
    BY <2>1
  <2>4. PICK f \in Nat, g \in Nat : f = v * v /\ g = q * q
    OBVIOUS
  <2> QED
    BY <2>2, <2>3, <2>4
<1>12. Number(Cs, H + 1) * Number(Cs, H + 1) <= 2 * Place(L)
  BY <1>6, <1>8, <1>9, <1>11
<1> QED
  BY <1>12 DEF LimbsFit

\* The order of the group, scalar_4x64_impl.h:10.
SECP256K1_N ==    \* FFFFFFFF FFFFFFFF FFFFFFFF FFFFFFFE BAAEDCE6 AF48A03B BFD25E8C D0364141
    115792089237316195423570985008687907852837564279074904382605163141518161494337

\* The powers of two of the layouts.
LEMMA SmallPowers == 2^32 = 4294967296 /\ 2^64 = 18446744073709551616
<1>1. 2^0 = 1 /\ 2^1 = 2 /\ 2^2 = 4 /\ 2^3 = 8 /\ 2^4 = 16
  OBVIOUS
<1>2. PICK k4 \in Nat, k8 \in Nat, k16 \in Nat, k32 \in Nat, k64 \in Nat :
          k4 = 4 /\ k8 = 8 /\ k16 = 16 /\ k32 = 32 /\ k64 = 64
  BY SMT
<1>3. 2^k4 = 16
  BY <1>1, <1>2
<1>4. 2^k8 = 256
  <2>1. k8 = k4 + k4
    BY ONLY <1>2, SMT
  <2>2. 2^k8 = 2^k4 * 2^k4
    BY ONLY <2>1, k4 \in Nat, PowerSum, Zenon
  <2> QED
    BY ONLY <2>2, <1>3, SMT
<1>5. 2^k16 = 65536
  <2>1. k16 = k8 + k8
    BY ONLY <1>2, SMT
  <2>2. 2^k16 = 2^k8 * 2^k8
    BY ONLY <2>1, k8 \in Nat, PowerSum, Zenon
  <2> QED
    BY ONLY <2>2, <1>4, SMT
<1>6. 2^k32 = 4294967296
  <2>1. k32 = k16 + k16
    BY ONLY <1>2, SMT
  <2>2. 2^k32 = 2^k16 * 2^k16
    BY ONLY <2>1, k16 \in Nat, PowerSum, Zenon
  <2> QED
    BY ONLY <2>2, <1>5, SMT
<1>7. 2^k64 = 18446744073709551616
  <2>1. k64 = k32 + k32
    BY ONLY <1>2, SMT
  <2>2. 2^k64 = 2^k32 * 2^k32
    BY ONLY <2>1, k32 \in Nat, PowerSum, Zenon
  <2> QED
    BY ONLY <2>2, <1>6, SMT
<1> QED
  BY ONLY <1>2, <1>6, <1>7, SMT

\* Four limbs of 64 bits, scalar_4x64_impl.h: the complement fits, it is that of the
\* order of secp256k1, and the limbs of the order are the SECP256K1_N_* of the file.
THEOREM Layout4x64 ==
    ASSUME L = 4, W = 64, ByteBits = 8,
           C = <<4624529908474429119, 4994812053365940164>>
    PROVE  /\ LimbsFit
           /\ OrderN = SECP256K1_N
           /\ N[0] = 13822214165235122497 /\ N[1] = 13451932020343611451
           /\ N[2] = 18446744073709551614 /\ N[3] = 18446744073709551615
<1>1. B = 18446744073709551616 /\ H = 2 /\ W \in Nat
  BY SmallPowers, SMT DEF B, H
<1>2. PICK b \in Nat : b = B /\ b = 18446744073709551616
  BY <1>1, SMT
<1>3. /\ Place(0) = 1 /\ Place(0 + 1) = b * Place(0)
      /\ Place(1 + 1) = b * Place(1) /\ Place(2 + 1) = b * Place(2)
      /\ Place(3 + 1) = b * Place(3)
  BY <1>1, <1>2, PlacesOf
<1>4. /\ Place(1) = 18446744073709551616
      /\ Place(2) = 340282366920938463463374607431768211456
      /\ Place(3) = 6277101735386680763835789423207666416102355444464034512896
      /\ Place(4) = 115792089237316195423570985008687907853269984665640564039457584007913129639936
  BY ONLY <1>2, <1>3, b \in Nat, SMT
<1>5. C[1] = 4624529908474429119 /\ C[2] = 4994812053365940164
  BY SMT
<1>6. LimbsFit
  <2>1. \A i \in 1..H : C[i] \in 0..(B - 1)
    BY ONLY <1>1, <1>5, SMT
  <2>2. (C[1] % 2) = 1 /\ 3 * (C[H] + 1) <= B
    BY ONLY <1>1, <1>5, SMT
  <2>3. L \in {4, 8} /\ W \in Nat \ {0, 1} /\ L <= B /\ ByteBits \in Nat \ {0} /\ (W % ByteBits) = 0
    BY <1>1, SMT
  <2> QED
    BY ONLY <2>1, <2>2, <2>3, LayoutFits
<1>7. Cs[0] = C[1] /\ Cs[1] = C[2] /\ Cs[2] = 1
  BY ONLY <1>1, SMT DEF Cs
<1>8. IntLimbs(Cs, 3)
  <2>1. \A i \in 0..2 : Cs[i] \in Int
    BY ONLY <1>5, <1>7, SMT
  <2> QED
    BY <2>1, SMT DEF IntLimbs
<1>9. IntLimbs(Cs, 0 + 1) /\ IntLimbs(Cs, 1 + 1) /\ IntLimbs(Cs, 2 + 1)
  BY <1>8, SMT DEF IntLimbs
<1>10. Number(Cs, 0) = 0 /\ Number(Cs, 0 + 1) = Number(Cs, 0) + Cs[0] * Place(0)
       /\ Number(Cs, 1 + 1) = Number(Cs, 1) + Cs[1] * Place(1)
       /\ Number(Cs, 2 + 1) = Number(Cs, 2) + Cs[2] * Place(2)
  BY <1>1, <1>9, NumberRun
<1>11. Number(Cs, H + 1) = 432420386565659656852420866394968145599
  BY ONLY <1>1, <1>3, <1>4, <1>5, <1>7, <1>10, SMT
<1>12. OrderN = 115792089237316195423570985008687907852837564279074904382605163141518161494337
  BY ONLY <1>4, <1>11, L = 4, SMT DEF OrderN
<1>13. \A i \in 0..3 : N[i] = (OrderN \div Place(i)) % B
  BY SMT DEF N, LimbsOf, Index
<1>14. /\ N[0] = 13822214165235122497
       /\ N[1] = 13451932020343611451
       /\ N[2] = 18446744073709551614
       /\ N[3] = 18446744073709551615
  BY ONLY <1>1, <1>3, <1>4, <1>12, <1>13, SMT
<1> QED
  BY ONLY <1>6, <1>12, <1>14, SMT DEF SECP256K1_N

\* Eight limbs of 32 bits, scalar_8x32_impl.h: the same.
THEOREM Layout8x32 ==
    ASSUME L = 8, W = 32, ByteBits = 8,
           C = <<801750719, 1076732275, 1354194884, 1162945305>>
    PROVE  /\ LimbsFit
           /\ OrderN = SECP256K1_N
           /\ N[0] = 3493216577 /\ N[1] = 3218235020
           /\ N[2] = 2940772411 /\ N[3] = 3132021990
           /\ N[4] = 4294967294 /\ N[5] = 4294967295
           /\ N[6] = 4294967295 /\ N[7] = 4294967295
<1>1. B = 4294967296 /\ H = 4 /\ W \in Nat
  BY SmallPowers, SMT DEF B, H
<1>2. PICK b \in Nat : b = B /\ b = 4294967296
  BY <1>1, SMT
<1>3. /\ Place(0) = 1 /\ Place(0 + 1) = b * Place(0)
      /\ Place(1 + 1) = b * Place(1) /\ Place(2 + 1) = b * Place(2)
      /\ Place(3 + 1) = b * Place(3) /\ Place(4 + 1) = b * Place(4)
      /\ Place(5 + 1) = b * Place(5) /\ Place(6 + 1) = b * Place(6)
      /\ Place(7 + 1) = b * Place(7)
  BY <1>1, <1>2, PlacesOf
<1>4. /\ Place(1) = 4294967296
      /\ Place(2) = 18446744073709551616
      /\ Place(3) = 79228162514264337593543950336
      /\ Place(4) = 340282366920938463463374607431768211456
      /\ Place(5) = 1461501637330902918203684832716283019655932542976
      /\ Place(6) = 6277101735386680763835789423207666416102355444464034512896
      /\ Place(7) = 26959946667150639794667015087019630673637144422540572481103610249216
      /\ Place(8) = 115792089237316195423570985008687907853269984665640564039457584007913129639936
  BY ONLY <1>2, <1>3, b \in Nat, SMT
<1>5. C[1] = 801750719 /\ C[2] = 1076732275 /\ C[3] = 1354194884 /\ C[4] = 1162945305
  BY SMT
<1>6. LimbsFit
  <2>1. ASSUME NEW i \in 1..H
        PROVE  C[i] \in 0..(B - 1)
    <3>1. i = 1 \/ i = 2 \/ i = 3 \/ i = 4
      BY ONLY <1>1, i \in 1..H, SMT
    <3>2. C[i] = C[1] \/ C[i] = C[2] \/ C[i] = C[3] \/ C[i] = C[4]
      BY ONLY <3>1, Zenon
    <3>3. /\ C[1] \in 0..(B - 1) /\ C[2] \in 0..(B - 1)
          /\ C[3] \in 0..(B - 1) /\ C[4] \in 0..(B - 1)
      <4>0. PICK e1 \in Nat, e2 \in Nat, e3 \in Nat, e4 \in Nat :
               /\ e1 = C[1] /\ e2 = C[2] /\ e3 = C[3] /\ e4 = C[4]
               /\ e1 < 4294967296 /\ e2 < 4294967296 /\ e3 < 4294967296 /\ e4 < 4294967296
        BY ONLY <1>5, SMT
      <4>1. e1 <= b - 1 /\ e2 <= b - 1 /\ e3 <= b - 1 /\ e4 <= b - 1
        BY ONLY <1>2, <4>0, e1 \in Nat, e2 \in Nat, e3 \in Nat, e4 \in Nat, b \in Nat, SMT
      <4>2. b = B
        BY <1>2, SMT
      <4> QED
        BY ONLY <4>1, <4>2, <4>0, e1 \in Nat, e2 \in Nat, e3 \in Nat, e4 \in Nat, b \in Nat, SMT
    <3> QED
      BY ONLY <3>2, <3>3, Zenon
  <2>2. (C[1] % 2) = 1 /\ 3 * (C[H] + 1) <= B
    BY ONLY <1>1, <1>5, SMT
  <2>3. L \in {4, 8} /\ W \in Nat \ {0, 1} /\ L <= B /\ ByteBits \in Nat \ {0} /\ (W % ByteBits) = 0
    BY <1>1, SMT
  <2> QED
    BY ONLY <2>1, <2>2, <2>3, LayoutFits
<1>7. Cs[0] = C[1] /\ Cs[1] = C[2] /\ Cs[2] = C[3] /\ Cs[3] = C[4] /\ Cs[4] = 1
  BY ONLY <1>1, SMT DEF Cs
<1>8. IntLimbs(Cs, 5)
  <2>1. \A i \in 0..4 : Cs[i] \in Int
    BY ONLY <1>5, <1>7, SMT
  <2> QED
    BY <2>1, SMT DEF IntLimbs
<1>9. /\ IntLimbs(Cs, 0 + 1) /\ IntLimbs(Cs, 1 + 1) /\ IntLimbs(Cs, 2 + 1) /\ IntLimbs(Cs, 3 + 1)
      /\ IntLimbs(Cs, 4 + 1)
  BY <1>8, SMT DEF IntLimbs
<1>10. Number(Cs, 0) = 0 /\ Number(Cs, 0 + 1) = Number(Cs, 0) + Cs[0] * Place(0)
       /\ Number(Cs, 1 + 1) = Number(Cs, 1) + Cs[1] * Place(1)
       /\ Number(Cs, 2 + 1) = Number(Cs, 2) + Cs[2] * Place(2)
       /\ Number(Cs, 3 + 1) = Number(Cs, 3) + Cs[3] * Place(3)
       /\ Number(Cs, 4 + 1) = Number(Cs, 4) + Cs[4] * Place(4)
  BY <1>1, <1>9, NumberRun
<1>11. Number(Cs, H + 1) = 432420386565659656852420866394968145599
  BY ONLY <1>1, <1>3, <1>4, <1>5, <1>7, <1>10, SMT
<1>12. OrderN = 115792089237316195423570985008687907852837564279074904382605163141518161494337
  BY ONLY <1>4, <1>11, L = 8, SMT DEF OrderN
<1>13. \A i \in 0..7 : N[i] = (OrderN \div Place(i)) % B
  BY SMT DEF N, LimbsOf, Index
<1>14. /\ N[0] = 3493216577
       /\ N[1] = 3218235020
       /\ N[2] = 2940772411
       /\ N[3] = 3132021990
       /\ N[4] = 4294967294
       /\ N[5] = 4294967295
       /\ N[6] = 4294967295
       /\ N[7] = 4294967295
  BY ONLY <1>1, <1>3, <1>4, <1>12, <1>13, SMT
<1> QED
  BY ONLY <1>6, <1>12, <1>14, SMT DEF SECP256K1_N

=============================================================================
