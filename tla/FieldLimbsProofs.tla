-------------------------- MODULE FieldLimbsProofs --------------------------
(***************************************************************************)
(* Limbs are the number they stand for, for every layout with LimbsFit and *)
(* every value of the limbs that a magnitude allows: normalizations below  *)
(* the largest magnitude, at which full limbs wrap, sums up to it, the     *)
(* products of five limbs with ProductsFit and of ten with Products10Fit.  *)
(* These hold of the layouts of the program: proofs about FieldLimbs.      *)
(***************************************************************************)
EXTENDS FieldLimbs, NumberLemmas

-----------------------------------------------------------------------------
(* The number of limbs.                                                    *)

\* What limb k is worth.
Weight(k) == 2^(Bits * k)

\* The number of the lowest limbs, by how many they are.
Worth(n) ==
    LET w[k \in 0..L] == IF k = 0 THEN 0 ELSE w[k - 1] + n[k - 1] * Weight(k - 1)
    IN w

Value(n) == Worth(n)[L]

\* The power of two, and the prime below it.
CLimbs == [i \in Index |-> Cof(i)]
Power  == Top1 * Weight(L - 1)
Prime  == Power - Value(CLimbs)

\* An element that has passed its checks.
Element(e) ==
    /\ e.n \in [Index -> Nat] /\ e.normalized \in BOOLEAN
    /\ e.ok /\ fe_verify(e.n, e.magnitude, e.normalized)
    /\ \A i \in Index : e.n[i] <= 2 * e.magnitude * Mask(i)

-----------------------------------------------------------------------------
(* The sizes.                                                              *)

\* The numbers a layout is made of.
LEMMA Sizes ==
    ASSUME LimbsFit
    PROVE  /\ L \in Nat /\ L >= 5 /\ Bits \in Nat /\ Slack \in Nat /\ Slack < Bits /\ Bits >= 1
           /\ M1 \in Nat /\ M1 >= 2 /\ Top1 \in Nat /\ Top1 >= 8 /\ Top1 <= M1
           /\ MaxMagnitude \in Nat /\ MaxMagnitude >= 1 /\ 8 * MaxMagnitude <= Top1
           /\ Len(C) \in Nat /\ Len(C) >= 1 /\ Len(C) <= 2 /\ Len(C) < L
<1>1. L \in {5, 10} /\ Bits \in Nat /\ Slack \in Nat /\ Slack < Bits
      /\ MaxMagnitude \in Nat /\ MaxMagnitude >= 1 /\ 8 * MaxMagnitude <= Top1
      /\ Len(C) = L \div 5
  BY DEF LimbsFit
<1>2. Bits - Slack \in Nat /\ Bits - Slack <= Bits
  BY <1>1
<1>3. Top1 \in Nat /\ M1 \in Nat /\ Top1 <= M1
  BY <1>1, <1>2, PowerPositive, PowerMonotone DEF Top1, M1
<1>4. Top1 >= 8
  BY <1>1, <1>3
<1>5. L \div 5 \in Nat /\ L \div 5 >= 1 /\ L \div 5 <= 2 /\ L \div 5 < L
  <2>1. 5 \div 5 = 1 /\ 10 \div 5 = 2
    OBVIOUS
  <2> QED
    BY <1>1, <2>1
<1> QED
  BY <1>1, <1>3, <1>4, <1>5

\* The masks, the limbs of C and those of the prime.
LEMMA LimbSizes ==
    ASSUME LimbsFit, NEW i \in Index
    PROVE  /\ Mask(i) \in Nat /\ Mask(i) <= M1 - 1
           /\ Cof(i) \in Nat /\ Cof(i) <= M1 - 1 /\ Cof(i) * (MaxMagnitude + 1) < M1
           /\ i = L - 1 => Mask(i) = Top1 - 1 /\ Cof(i) = 0
           /\ i # L - 1 => Mask(i) = M1 - 1
           /\ i >= Len(C) => Cof(i) = 0
           /\ PLimb(i) \in Nat /\ PLimb(i) <= M1
<1>1. i \in Int /\ i >= 0 /\ i <= L - 1
  BY Sizes DEF Index
<1>2. Mask(i) \in Nat /\ Mask(i) <= M1 - 1
      /\ (i = L - 1 => Mask(i) = Top1 - 1)
      /\ (i # L - 1 => Mask(i) = M1 - 1)
  BY Sizes DEF Mask
<1>3. CASE i < Len(C)
  <2>1. i + 1 \in 1..Len(C)
    BY <1>1, <1>3, Sizes
  <2>2. C[i + 1] \in 1..(M1 - 1) /\ C[i + 1] * (MaxMagnitude + 1) < M1
    <3>1. \A j \in 1..Len(C) : C[j] \in 1..(M1 - 1) /\ C[j] * (MaxMagnitude + 1) < M1
      BY DEF LimbsFit
    <3> QED
      BY <2>1, <3>1
  <2>3. Cof(i) = C[i + 1]
    BY <1>3 DEF Cof
  <2>4. i # L - 1
    BY <1>3, Sizes, <2>1 DEF LimbsFit
  <2>5. Cof(i) \in 1..(M1 - 1) /\ Mask(i) = M1 - 1
    BY <1>2, <2>2, <2>3, <2>4
  <2>6. PLimb(i) \in Nat /\ PLimb(i) <= M1
    BY <2>5, Sizes DEF PLimb
  <2>7. Cof(i) * (MaxMagnitude + 1) < M1
    BY <2>2, <2>3
  <2> QED
    BY <1>1, <1>2, <1>3, <2>4, <2>5, <2>6, <2>7, Sizes, SMTT(20)
<1>4. CASE ~(i < Len(C))
  <2>1. Cof(i) = 0
    BY <1>4 DEF Cof
  <2> QED
    BY <1>1, <1>2, <2>1, <1>4, Sizes, SMTT(20) DEF PLimb
<1> QED
  BY <1>3, <1>4

\* The weight of a limb is M1 times that of the one below.
LEMMA Weights ==
    ASSUME LimbsFit, NEW k \in Nat
    PROVE  /\ Weight(k) \in Nat /\ Weight(k) >= 1 /\ Weight(0) = 1
           /\ Weight(k + 1) = M1 * Weight(k)
<1>1. Bits \in Nat /\ Bits * k \in Nat /\ Bits * (k + 1) = Bits + Bits * k /\ Bits * 0 = 0
  BY Sizes
<1>2. 2^(Bits + Bits * k) = 2^Bits * 2^(Bits * k)
  BY <1>1, PowerSum
<1> QED
  BY <1>1, <1>2, PowerPositive, PowerZero, Zenon DEF Weight, M1

\* The number of the limbs is the sum of what they are worth.
LEMMA WorthSteps ==
    ASSUME LimbsFit, NEW n \in [Index -> Int]
    PROVE  /\ Worth(n) \in [0..L -> Int]
           /\ Worth(n)[0] = 0
           /\ \A k \in Index : Worth(n)[k + 1] = Worth(n)[k] + n[k] * Weight(k)
<1> DEFINE Is(w) == w = [k \in 0..L |-> IF k = 0 THEN 0 ELSE w[k - 1] + n[k - 1] * Weight(k - 1)]
           G == [p \in Nat \X Int |-> IF p[1] - 1 \in Index THEN p[2] + n[p[1] - 1] * Weight(p[1] - 1)
                                      ELSE 0]
<1>0. L \in Nat /\ L >= 5 /\ Index = 0..(L - 1)
  BY Sizes DEF Index
<1>1. G \in [Nat \X Int -> Int]
  <2>1. ASSUME NEW p \in Nat \X Int, p[1] - 1 \in Index
        PROVE  p[2] + n[p[1] - 1] * Weight(p[1] - 1) \in Int
    <3>1. p[1] - 1 \in Nat /\ n[p[1] - 1] \in Int
      BY <1>0, <2>1
    <3>2. Weight(p[1] - 1) \in Nat
      BY <3>1, Weights
    <3> QED
      BY <3>1, <3>2
  <2> QED
    BY <2>1
<1>2. PICK f \in [0..L -> Int] : f[0] = 0 /\ \A k \in 1..L : f[k] = G[<<k, f[k - 1]>>]
  <2> HIDE DEF G
  <2> PICK m \in Nat, b \in Int, g \in [Nat \X Int -> Int] : m = L /\ b = 0 /\ g = G
    BY <1>0, <1>1
  <2>1. \E f \in [0..m -> Int] : f[0] = b /\ \A k \in 1..m : f[k] = g[<<k, f[k - 1]>>]
    BY ONLY m \in Nat, b \in Int, g \in [Nat \X Int -> Int], RecursionExists, ZenonT(20)
  <2> QED
    BY <2>1, Zenon
<1>3. \A k \in 1..L : f[k] = f[k - 1] + n[k - 1] * Weight(k - 1)
  <2> TAKE k \in 1..L
  <2>1. k \in Nat /\ k - 1 \in Index /\ f[k - 1] \in Int
    BY <1>0
  <2> QED
    BY <1>2, <2>1, Zenon
<1>4. Is(f)
  <2>1. f = [k \in 0..L |-> f[k]]
    OBVIOUS
  <2>2. \A k \in 0..L : f[k] = IF k = 0 THEN 0 ELSE f[k - 1] + n[k - 1] * Weight(k - 1)
    <3> SUFFICES ASSUME NEW k \in 0..L, k # 0
                 PROVE  f[k] = f[k - 1] + n[k - 1] * Weight(k - 1)
      BY <1>2
    <3>1. k \in 1..L
      BY <1>0
    <3> QED
      BY <1>3, <3>1
  <2> QED
    BY <2>1, <2>2, Zenon
<1> DEFINE w == CHOOSE g : Is(g)
<1>5. Worth(n) = w
  BY DEF Worth
<1>6. Is(w)
  <2> HIDE DEF Is
  <2> QED
    BY <1>4
<1>7. \A k \in 0..L : w[k] = IF k = 0 THEN 0 ELSE w[k - 1] + n[k - 1] * Weight(k - 1)
  <2> HIDE DEF w
  <2> QED
    BY <1>6, Zenon
<1> HIDE DEF w, Is, G
<1>8. w[0] = 0 /\ \A k \in Index : w[k + 1] = w[k] + n[k] * Weight(k)
  <2>1. w[0] = 0
    BY <1>0, <1>7, SMTT(20)
  <2>2. ASSUME NEW k \in Index
        PROVE  w[k + 1] = w[k] + n[k] * Weight(k)
    <3>1. k + 1 \in 0..L /\ k + 1 # 0 /\ (k + 1) - 1 = k
      BY <1>0
    <3> QED
      BY <1>7, <3>1
  <2> QED
    BY <2>1, <2>2
<1>9. w \in [0..L -> Int]
  <2>1. w = [k \in 0..L |-> w[k]]
    BY <1>6 DEF Is
  <2> DEFINE S == {k \in Nat : k <= L => w[k] \in Int}
  <2>2. 0 \in S
    BY <1>8
  <2>3. ASSUME NEW k \in Nat, k \in S
        PROVE  k + 1 \in S
    <3> SUFFICES ASSUME k + 1 <= L
                 PROVE  w[k + 1] \in Int
      OBVIOUS
    <3>1. k \in Index /\ w[k] \in Int /\ n[k] \in Int
      BY <1>0, <2>3
    <3>2. Weight(k) \in Nat
      BY Weights, Zenon
    <3> QED
      BY <1>8, <3>1, <3>2
  <2>4. Nat \subseteq S
    <3> HIDE DEF S
    <3> QED
      BY <2>2, <2>3, SetInduction
  <2>5. \A k \in 0..L : w[k] \in Int
    BY <1>0, <2>4
  <2> HIDE DEF S
  <2> QED
    BY <2>1, <2>5
<1> QED
  BY <1>5, <1>8, <1>9

\* What holds without limbs and goes on from limb to limb holds for all of them.
LEMMA LimbInduction ==
    ASSUME LimbsFit, NEW S, 0 \in S, \A k \in Index : k \in S => k + 1 \in S
    PROVE  \A k \in 0..L : k \in S
<1> DEFINE T == {k \in Nat : k <= L => k \in S}
<1>1. 0 \in T
  OBVIOUS
<1>2. ASSUME NEW k \in Nat, k \in T
      PROVE  k + 1 \in T
  <2> SUFFICES ASSUME k + 1 <= L
               PROVE  k + 1 \in S
    OBVIOUS
  <2>1. k \in Index /\ k \in S
    BY <1>2, Sizes DEF Index
  <2> QED
    BY <2>1
<1>3. Nat \subseteq T
  <2> HIDE DEF T
  <2> QED
    BY <1>1, <1>2, SetInduction
<1> QED
  BY <1>3, Sizes

\* Numbers add up limb by limb, and so do their multiples.
LEMMA WorthLinear ==
    ASSUME LimbsFit, NEW a \in [Index -> Int], NEW b \in [Index -> Int], NEW x \in Int, NEW y \in Int
    PROVE  \A k \in 0..L : Worth([i \in Index |-> x * a[i] + y * b[i]])[k]
                                = x * Worth(a)[k] + y * Worth(b)[k]
<1> PICK s \in [Index -> Int] :
        s = [i \in Index |-> x * a[i] + y * b[i]] /\ \A i \in Index : s[i] = x * a[i] + y * b[i]
  <2> DEFINE s == [i \in Index |-> x * a[i] + y * b[i]]
  <2>1. s \in [Index -> Int]
    OBVIOUS
  <2> QED
    BY <2>1, Zenon
<1> DEFINE S == {k \in 0..L : Worth(s)[k] = x * Worth(a)[k] + y * Worth(b)[k]}
<1>0. L \in Nat /\ L >= 5 /\ Index = 0..(L - 1)
  BY Sizes DEF Index
<1>1. 0 \in S
  <2>1. Worth(s)[0] = 0 /\ Worth(a)[0] = 0 /\ Worth(b)[0] = 0 /\ 0 \in 0..L
    BY <1>0, WorthSteps
  <2>2. x * 0 + y * 0 = 0
    OBVIOUS
  <2> QED
    BY <2>1, <2>2
<1>2. ASSUME NEW k \in Index, k \in S
      PROVE  k + 1 \in S
  <2>1. k \in Nat /\ k \in 0..L /\ k + 1 \in 0..L
    BY <1>0
  <2>0. Weight(k) \in Int /\ Worth(a)[k] \in Int /\ Worth(b)[k] \in Int /\ a[k] \in Int /\ b[k] \in Int
    <3>1. Weight(k) \in Int
      BY <2>1, Weights
    <3>2. Worth(a) \in [0..L -> Int] /\ Worth(b) \in [0..L -> Int]
      BY WorthSteps, Zenon
    <3> QED
      BY <2>1, <3>1, <3>2, Zenon
  <2> PICK w \in Int, u \in Int, v \in Int, p \in Int, q \in Int :
          w = Weight(k) /\ u = Worth(a)[k] /\ v = Worth(b)[k] /\ p = a[k] /\ q = b[k]
    BY <2>0, Zenon
  <2>2. Worth(a)[k + 1] = u + p * w
    BY WorthSteps, Zenon
  <2>3. Worth(b)[k + 1] = v + q * w
    BY WorthSteps, Zenon
  <2>4. Worth(s)[k + 1] = (x * u + y * v) + (x * p + y * q) * w
    BY <1>2, WorthSteps, Zenon
  <2>5. (x * u + y * v) + (x * p + y * q) * w = x * (u + p * w) + y * (v + q * w)
    BY ONLY x \in Int, y \in Int, u \in Int, v \in Int, p \in Int, q \in Int, w \in Int
  <2> QED
    BY <2>1, <2>2, <2>3, <2>4, <2>5
<1>3. \A k \in 0..L : k \in S
  <2> HIDE DEF S
  <2> QED
    BY <1>1, <1>2, LimbInduction
<1> QED
  BY <1>3

\* Limbs that are no larger than their share make a number below the weight of
\* the next limb.
LEMMA WorthBound ==
    ASSUME LimbsFit, NEW n \in [Index -> Nat], NEW m \in 0..L,
           \A i \in Index : i < m => n[i] <= M1 - 1
    PROVE  \A k \in 0..L : k <= m => Worth(n)[k] >= 0 /\ Worth(n)[k] <= Weight(k) - 1
<1> DEFINE S == {k \in 0..L : k <= m => Worth(n)[k] >= 0 /\ Worth(n)[k] <= Weight(k) - 1}
<1>0. L \in Nat /\ L >= 5 /\ Index = 0..(L - 1) /\ M1 \in Nat /\ n \in [Index -> Int]
  BY Sizes DEF Index
<1>1. 0 \in S
  <2>1. Weight(0) = 1 /\ Worth(n)[0] = 0
    BY <1>0, WorthSteps, Weights
  <2> QED
    BY <1>0, <2>1
<1>2. ASSUME NEW k \in Index, k \in S
      PROVE  k + 1 \in S
  <2>0. k \in Nat /\ k \in 0..L /\ k + 1 \in 0..L
    BY <1>0
  <2> SUFFICES ASSUME k + 1 <= m
               PROVE  Worth(n)[k + 1] >= 0 /\ Worth(n)[k + 1] <= Weight(k + 1) - 1
    BY <2>0
  <2> PICK w \in Nat, u \in Int, d \in Nat : w = Weight(k) /\ u = Worth(n)[k] /\ d = n[k]
    BY <1>0, <2>0, Weights, WorthSteps, Zenon
  <2>1. Worth(n)[k + 1] = u + d * w
    BY <1>0, WorthSteps, Zenon
  <2>2. Weight(k + 1) = M1 * w
    BY <2>0, Weights
  <2>3. u >= 0 /\ u <= w - 1 /\ d <= M1 - 1
    BY <1>2, <2>0, <1>0
  <2> PICK M \in Nat : M = M1
    BY <1>0
  <2>4. d * w <= (M - 1) * w /\ d * w >= 0 /\ (M - 1) * w = M * w - w
    BY ONLY d \in Nat, w \in Nat, M \in Nat, M = M1, <2>3
  <2> PICK z \in Int, v \in Int : z = d * w /\ v = M * w
    OBVIOUS
  <2>5. z >= 0 /\ z <= v - w /\ Worth(n)[k + 1] = u + z /\ Weight(k + 1) = v
    BY <2>1, <2>2, <2>4, <1>0
  <2> QED
    BY ONLY <2>3, <2>5, z \in Int, v \in Int, u \in Int, w \in Nat
<1>3. \A k \in 0..L : k \in S
  <2> HIDE DEF S
  <2> QED
    BY <1>1, <1>2, LimbInduction
<1> QED
  BY <1>3

-----------------------------------------------------------------------------
(* A pass over the limbs.                                                  *)

\* A limb's integer has room for twice the limbs of the largest magnitude.
LEMMA WordRoom ==
    ASSUME LimbsFit
    PROVE  /\ 2^Word \in Nat /\ 2^Word >= 1
           /\ 2 * MaxMagnitude * M1 <= 2^Word /\ 2 * M1 <= 2^Word
<1>1. Word \in Nat /\ 2 * MaxMagnitude * M1 <= 2^Word
  BY DEF LimbsFit
<1>2. 2^Word \in Nat /\ 2^Word >= 1
  BY <1>1, PowerPositive
<1> PICK G \in Nat, M \in Nat, W \in Nat : G = MaxMagnitude /\ G >= 1 /\ M = M1 /\ W = 2^Word
  BY <1>2, Sizes
<1>3. 2 * M <= 2 * G * M
  BY ONLY G \in Nat, G >= 1, M \in Nat
<1> PICK z \in Int : z = 2 * G * M
  OBVIOUS
<1> QED
  BY <1>1, <1>2, <1>3

\* In the pass that adds x times C to the limbs n, no limb hands on more than K, and
\* none outgrows its integer.
Carries(n, x, K) ==
    /\ n \in [Index -> Nat] /\ x \in Nat /\ K \in Nat
    /\ \A i \in Index : n[i] + x * Cof(i) + K < 2^Word
    /\ \A i \in Index : i # L - 1 => n[i] + x * Cof(i) + K < M1 * (K + 1)

\* The sums that a pass takes its limbs and its carries from.
LEMMA WrappedSteps ==
    ASSUME LimbsFit, NEW n \in [Index -> Int], NEW x \in Int
    PROVE  \E t \in [Index -> Int] :
               /\ t[0] = (n[0] + x * Cof(0)) % 2^Word
               /\ \A i \in 1..(L - 1) : t[i] = (n[i] + x * Cof(i) + (t[i - 1] \div M1)) % 2^Word
               /\ Pass(n, x) = [i \in Index |-> IF i = L - 1 THEN t[i] ELSE t[i] % M1]
<1> DEFINE Is(t) == t = [i \in Index |->
                            (n[i] + x * Cof(i) + (IF i = 0 THEN 0 ELSE t[i - 1] \div M1)) % 2^Word]
<1> PICK W \in Nat : W = 2^Word /\ W >= 1
  BY WordRoom
<1>0. L \in Nat /\ L >= 5 /\ Index = 0..(L - 1) /\ M1 \in Nat /\ M1 >= 1 /\ 0 \in Index
  BY Sizes DEF Index
<1>1. PICK e \in [Index -> Int] : \A i \in Index : n[i] + x * Cof(i) = e[i]
  <2> DEFINE e == [i \in Index |-> n[i] + x * Cof(i)]
  <2>1. e \in [Index -> Int]
    BY LimbSizes
  <2> QED
    BY <2>1, Zenon
<1> DEFINE G == [p \in Nat \X Int |-> IF p[1] \in Index THEN (e[p[1]] + (p[2] \div M1)) % W ELSE 0]
<1>2. G \in [Nat \X Int -> Int]
  <2>1. ASSUME NEW p \in Nat \X Int, p[1] \in Index
        PROVE  (e[p[1]] + (p[2] \div M1)) % W \in Int
    <3>1. e[p[1]] \in Int
      BY <1>1, <2>1
    <3>2. p[2] \div M1 \in Int
      BY <1>0
    <3> QED
      BY <3>1, <3>2
  <2> QED
    BY <2>1
<1>3. PICK f \in [0..(L - 1) -> Int] :
          f[0] = e[0] % W /\ \A k \in 1..(L - 1) : f[k] = G[<<k, f[k - 1]>>]
  <2> HIDE DEF G
  <2> PICK m \in Nat, b \in Int, g \in [Nat \X Int -> Int] : m = L - 1 /\ b = e[0] % W /\ g = G
    <3>1. L - 1 \in Nat /\ e[0] % W \in Int
      BY <1>0
    <3> QED
      BY <1>2, <3>1
  <2>1. \E f \in [0..m -> Int] : f[0] = b /\ \A k \in 1..m : f[k] = g[<<k, f[k - 1]>>]
    BY ONLY m \in Nat, b \in Int, g \in [Nat \X Int -> Int], RecursionExists, ZenonT(30)
  <2> QED
    BY <2>1, Zenon
<1>4. \A k \in 1..(L - 1) : f[k] = (e[k] + (f[k - 1] \div M1)) % W
  <2> TAKE k \in 1..(L - 1)
  <2>1. k \in Nat /\ k \in Index /\ f[k - 1] \in Int
    BY <1>0
  <2> QED
    BY <1>3, <2>1, ZenonT(20)
<1>5. Is(f)
  <2>1. f = [i \in Index |-> f[i]]
    BY <1>0
  <2>2. \A i \in Index : f[i] = (n[i] + x * Cof(i) + (IF i = 0 THEN 0 ELSE f[i - 1] \div M1)) % 2^Word
    <3> TAKE i \in Index
    <3>0. n[i] + x * Cof(i) = e[i] /\ e[i] \in Int
      BY <1>1
    <3>1. CASE i = 0
      <4>1. f[i] = e[i] % W
        <5> HIDE DEF G
        <5> QED
          BY <1>3, <3>1, Zenon
      <4> QED
        BY <3>0, <3>1, <4>1
    <3>2. CASE i # 0
      <4>1. i \in 1..(L - 1)
        BY <1>0, <3>2
      <4>2. f[i] = (e[i] + (f[i - 1] \div M1)) % W
        BY <1>4, <4>1
      <4> QED
        BY <3>0, <3>2, <4>2
    <3> QED
      BY <3>1, <3>2
  <2> QED
    BY <2>1, <2>2, Zenon
<1> DEFINE t == CHOOSE g : Is(g)
<1>6. Is(t)
  <2> HIDE DEF Is
  <2> QED
    BY <1>5
<1>7. \A i \in Index : t[i] = (n[i] + x * Cof(i) + (IF i = 0 THEN 0 ELSE t[i - 1] \div M1)) % 2^Word
  <2> HIDE DEF t
  <2> QED
    BY <1>6, Zenon
<1>8. Pass(n, x) = [i \in Index |-> IF i = L - 1 THEN t[i] ELSE t[i] % M1]
  BY DEF Pass
<1>9. t = [i \in Index |-> t[i]]
  <2> HIDE DEF t
  <2> QED
    BY <1>6
<1> HIDE DEF t, Is, G
<1>10. t[0] = (n[0] + x * Cof(0)) % 2^Word /\ t[0] \in Int
  <2>1. n[0] + x * Cof(0) = e[0] /\ e[0] \in Int
    BY <1>0, <1>1
  <2>2. t[0] = (e[0] + 0) % W
    BY <1>0, <1>7, <2>1
  <2> QED
    BY <2>1, <2>2
<1>11. \A i \in 1..(L - 1) : t[i] = (n[i] + x * Cof(i) + (t[i - 1] \div M1)) % 2^Word
  <2> TAKE i \in 1..(L - 1)
  <2>1. i \in Index /\ i # 0
    BY <1>0
  <2> QED
    BY <1>7, <2>1
<1>12. t \in [Index -> Int]
  <2> DEFINE S == {k \in 0..L : k # 0 => t[k - 1] \in Int}
  <2>1. 0 \in S
    BY <1>0
  <2>2. ASSUME NEW k \in Index, k \in S
        PROVE  k + 1 \in S
    <3>1. CASE k = 0
      BY <1>0, <1>10, <3>1
    <3>2. CASE k # 0
      <4>1. k \in 1..(L - 1) /\ t[k - 1] \in Int /\ k + 1 \in 0..L
        BY <1>0, <2>2, <3>2
      <4>2. n[k] + x * Cof(k) \in Int
        BY <1>1
      <4>4. t[k - 1] \div M1 \in Int
        <5> PICK y \in Int, M \in Nat : y = t[k - 1] /\ M = M1 /\ M >= 1
          BY <1>0, <4>1, Zenon
        <5>1. y \div M \in Int
          BY ONLY y \in Int, M \in Nat, M >= 1
        <5> QED
          BY <5>1
      <4>3. t[k] \in Int
        <5> PICK y \in Int, q \in Int : y = n[k] + x * Cof(k) /\ q = t[k - 1] \div M1
          BY <4>2, <4>4, Zenon
        <5> PICK z \in Int : z = y + q
          OBVIOUS
        <5>1. (z % W) \in Int
          BY ONLY z \in Int, W \in Nat, W >= 1
        <5> QED
          BY <1>11, <4>1, <5>1
      <4> QED
        BY <4>1, <4>3
    <3> QED
      BY <3>1, <3>2
  <2>3. \A k \in 0..L : k \in S
    <3> HIDE DEF S
    <3> QED
      BY <2>1, <2>2, LimbInduction
  <2>4. \A i \in Index : t[i] \in Int
    <3> TAKE i \in Index
    <3>1. i + 1 \in 0..L /\ i + 1 # 0 /\ (i + 1) - 1 = i
      BY <1>0
    <3> QED
      BY <2>3, <3>1
  <2> HIDE DEF S
  <2> QED
    BY <1>9, <2>4
<1> QED
  BY <1>8, <1>10, <1>11, <1>12, Zenon

\* What the limbs are that a pass hands on from one to the next, when none of them
\* wraps.
LEMMA PassSteps ==
    ASSUME LimbsFit, NEW n, NEW x, NEW K, Carries(n, x, K)
    PROVE  \E t \in [Index -> Int] :
               /\ t[0] = n[0] + x * Cof(0)
               /\ \A i \in 1..(L - 1) : t[i] = n[i] + x * Cof(i) + (t[i - 1] \div M1)
               /\ Pass(n, x) = [i \in Index |-> IF i = L - 1 THEN t[i] ELSE t[i] % M1]
<1>0. L \in Nat /\ L >= 5 /\ Index = 0..(L - 1) /\ M1 \in Nat /\ M1 >= 2 /\ 0 \in Index
  BY Sizes DEF Index
<1> PICK M \in Nat, W \in Nat : M = M1 /\ M >= 2 /\ W = 2^Word /\ W >= 1
  BY <1>0, WordRoom
<1>1. n \in [Index -> Nat] /\ n \in [Index -> Int] /\ x \in Nat /\ x \in Int /\ K \in Nat
  BY DEF Carries
<1>2. PICK e \in [Index -> Nat] : \A i \in Index : e[i] = n[i] + x * Cof(i)
  <2> DEFINE e == [i \in Index |-> n[i] + x * Cof(i)]
  <2>1. ASSUME NEW i \in Index
        PROVE  n[i] + x * Cof(i) \in Nat
    <3>1. Cof(i) \in Nat /\ n[i] \in Nat
      BY <1>1, LimbSizes
    <3> QED
      BY <1>1, <3>1
  <2>2. e \in [Index -> Nat]
    BY <2>1
  <2> QED
    BY <2>2, Zenon
<1>3. \A i \in Index : e[i] + K < W /\ (i # L - 1 => e[i] + K < M * (K + 1))
  BY <1>2 DEF Carries
<1>4. PICK t \in [Index -> Int] :
          /\ t[0] = (n[0] + x * Cof(0)) % 2^Word
          /\ \A i \in 1..(L - 1) : t[i] = (n[i] + x * Cof(i) + (t[i - 1] \div M1)) % 2^Word
          /\ Pass(n, x) = [i \in Index |-> IF i = L - 1 THEN t[i] ELSE t[i] % M1]
  BY <1>1, WrappedSteps, Zenon
<1>5. t[0] = e[0] % W /\ \A i \in 1..(L - 1) : t[i] = (e[i] + (t[i - 1] \div M)) % W
  <2>1. t[0] = e[0] % W
    BY <1>0, <1>2, <1>4
  <2>2. ASSUME NEW i \in 1..(L - 1)
        PROVE  t[i] = (e[i] + (t[i - 1] \div M)) % W
    <3>1. i \in Index
      BY <1>0
    <3> QED
      BY <1>2, <1>4, <3>1
  <2> QED
    BY <2>1, <2>2
<1>6. t[0] = e[0]
  <2>1. e[0] \in 0..(W - 1)
    <3>1. e[0] \in Nat /\ e[0] + K < W
      BY <1>0, <1>3
    <3> QED
      BY <1>1, <3>1
  <2>2. (e[0] % W) = e[0]
    BY ONLY W \in Nat, W >= 1, <2>1, ModSmall
  <2> QED
    BY <1>5, <2>2
<1> DEFINE S == {k \in 0..L : k # 0 =>
                     /\ t[k - 1] >= e[k - 1] /\ t[k - 1] <= e[k - 1] + K
                     /\ k # 1 => t[k - 1] = e[k - 1] + (t[k - 2] \div M)}
<1>7. \A k \in 0..L : k \in S
  <2>1. 0 \in S
    BY <1>0
  <2>2. ASSUME NEW k \in Index, k \in S
        PROVE  k + 1 \in S
    <3>1. k + 1 \in 0..L /\ (k + 1) - 1 = k /\ (k + 1) - 2 = k - 1 /\ k \in 0..L /\ t[k] \in Int /\ e[k] \in Nat
      BY <1>0
    <3>2. CASE k = 0
      <4>1. t[k] = e[k]
        BY <1>6, <3>2
      <4> QED
        BY <1>1, <3>1, <3>2, <4>1
    <3>3. CASE k # 0
      <4>1. k \in 1..(L - 1) /\ k - 1 \in Index /\ k - 1 # L - 1
        BY <1>0, <3>3
      <4> PICK y \in Int, d \in Nat : y = t[k - 1] /\ d = e[k - 1]
        BY <4>1
      <4>2. y >= d /\ y <= d + K /\ d + K < M * (K + 1)
        BY <1>3, <2>2, <3>3, <4>1
      <4>3. y \div M >= 0 /\ y \div M <= K /\ y \div M \in Int
        BY ONLY M \in Nat, M >= 2, y \in Int, d \in Nat, <1>1, <4>2, DivBound
      <4> PICK q \in Int : q = y \div M
        BY <4>3
      <4>4. e[k] + q \in 0..(W - 1)
        <5>1. e[k] + K < W
          BY <1>3
        <5> QED
          BY <1>1, <3>1, <4>3, <5>1
      <4>5. ((e[k] + q) % W) = e[k] + q
        <5> PICK z \in 0..(W - 1) : z = e[k] + q
          BY <4>4
        <5>1. (z % W) = z
          BY ONLY W \in Nat, W >= 1, z \in 0..(W - 1), ModSmall
        <5> QED
          BY <5>1
      <4>6. t[k] = e[k] + q
        BY <1>5, <4>1, <4>5
      <4> QED
        BY <1>1, <3>1, <4>3, <4>6
    <3> QED
      BY <3>2, <3>3
  <2> HIDE DEF S
  <2> QED
    BY <2>1, <2>2, LimbInduction
<1>8. \A i \in 1..(L - 1) : t[i] = n[i] + x * Cof(i) + (t[i - 1] \div M1)
  <2> TAKE i \in 1..(L - 1)
  <2>1. i \in Index /\ i + 1 \in 0..L /\ i + 1 # 0 /\ i + 1 # 1 /\ (i + 1) - 1 = i /\ (i + 1) - 2 = i - 1
    BY <1>0
  <2>2. t[i] = e[i] + (t[i - 1] \div M)
    BY <1>7, <2>1
  <2> QED
    BY <1>2, <2>1, <2>2
<1>9. t[0] = n[0] + x * Cof(0)
  BY <1>0, <1>2, <1>6
<1> QED
  BY <1>4, <1>8, <1>9, Zenon

\* A pass changes the number by the multiple of C that it adds, and leaves every
\* limb but the highest no larger than its share.
LEMMA PassValue ==
    ASSUME LimbsFit, NEW n \in [Index -> Int], NEW x \in Int, NEW K, Carries(n, x, K)
    PROVE  /\ Pass(n, x) \in [Index -> Int]
           /\ \A i \in Index : i # L - 1 => Pass(n, x)[i] \in 0..(M1 - 1)
           /\ Value(Pass(n, x)) = Value(n) + x * Value(CLimbs)
           /\ Pass(n, x)[0] = (n[0] + x * Cof(0)) % M1
<1>0. L \in Nat /\ L >= 5 /\ Index = 0..(L - 1) /\ M1 \in Nat /\ M1 >= 1 /\ 0 \in Index
  BY Sizes DEF Index
<1> PICK M \in Nat : M = M1
  BY <1>0
<1>1. CLimbs \in [Index -> Int] /\ \A i \in Index : CLimbs[i] = Cof(i)
  BY LimbSizes DEF CLimbs
<1>2. PICK e \in [Index -> Int] : \A i \in Index : e[i] = n[i] + x * Cof(i)
  <2> DEFINE e == [i \in Index |-> n[i] + x * Cof(i)]
  <2>1. e \in [Index -> Int]
    BY LimbSizes
  <2> QED
    BY <2>1, Zenon
<1>3. PICK t \in [Index -> Int] :
          /\ t[0] = n[0] + x * Cof(0)
          /\ \A i \in 1..(L - 1) : t[i] = n[i] + x * Cof(i) + (t[i - 1] \div M1)
          /\ Pass(n, x) = [i \in Index |-> IF i = L - 1 THEN t[i] ELSE t[i] % M1]
  BY PassSteps
<1>4. t[0] = e[0] /\ \A i \in 1..(L - 1) : t[i] = e[i] + (t[i - 1] \div M)
  <2>1. t[0] = e[0]
    BY <1>0, <1>2, <1>3
  <2>2. ASSUME NEW i \in 1..(L - 1)
        PROVE  t[i] = e[i] + (t[i - 1] \div M)
    <3>1. i \in Index
      BY <1>0
    <3> QED
      BY <1>2, <1>3, <3>1
  <2> QED
    BY <2>1, <2>2
<1> DEFINE s == Pass(n, x)
<1>5. s \in [Index -> Int] /\ s[L - 1] = t[L - 1]
      /\ \A i \in Index : i # L - 1 => s[i] = (t[i] % M) /\ s[i] \in 0..(M1 - 1)
  <2>1. ASSUME NEW i \in Index
        PROVE  t[i] \in Int /\ (t[i] % M) \in 0..(M - 1)
    BY <1>0
  <2>2. s = [i \in Index |-> IF i = L - 1 THEN t[i] ELSE t[i] % M1]
    BY <1>3
  <2> HIDE DEF s
  <2>3. \A i \in Index : s[i] = IF i = L - 1 THEN t[i] ELSE t[i] % M
    BY <2>2
  <2>4. s[L - 1] = t[L - 1]
    BY <1>0, <2>3
  <2>5. \A i \in Index : i # L - 1 => s[i] = (t[i] % M) /\ s[i] \in 0..(M1 - 1)
    BY <2>1, <2>3
  <2>6. \A i \in Index : s[i] \in Int
    BY <1>0, <2>1, <2>4, <2>5, SMTT(20)
  <2>7. s = [i \in Index |-> s[i]]
    BY <2>2
  <2> QED
    BY <2>4, <2>5, <2>6, <2>7
<1> HIDE DEF s
<1> DEFINE S == {k \in 0..L : k # 0 /\ k # L =>
                     Worth(s)[k] + (t[k - 1] \div M) * Weight(k) = Worth(e)[k]}
<1>6. \A k \in 0..L : k \in S
  <2>1. 0 \in S
    BY <1>0
  <2>2. ASSUME NEW k \in Index, k \in S
        PROVE  k + 1 \in S
    <3>1. k \in Nat /\ k + 1 \in 0..L /\ k \in 0..L /\ (k + 1) - 1 = k
      BY <1>0
    <3> SUFFICES ASSUME k + 1 # L
                 PROVE  Worth(s)[k + 1] + (t[k] \div M) * Weight(k + 1) = Worth(e)[k + 1]
      BY <3>1
    <3>2. k # L - 1
      BY <1>0
    <3>3. Worth(s)[k + 1] = Worth(s)[k] + s[k] * Weight(k)
          /\ Worth(e)[k + 1] = Worth(e)[k] + e[k] * Weight(k)
      BY <1>5, WorthSteps, Zenon
    <3>4. Worth(s)[k] \in Int /\ Worth(e)[k] \in Int /\ Weight(k) \in Nat /\ Weight(k + 1) = M * Weight(k)
      BY <1>5, <3>1, WorthSteps, Weights, Zenon
    <3> PICK p \in Int : t[k] = e[k] + p /\ Worth(s)[k] + p * Weight(k) = Worth(e)[k]
      <4>1. CASE k = 0
        <5>1. Worth(s)[k] = 0 /\ Worth(e)[k] = 0
          BY <1>5, <4>1, WorthSteps
        <5>2. 0 * Weight(k) = 0
          BY <3>4
        <5>3. e[k] \in Int /\ t[k] = e[k]
          BY <1>4, <4>1
        <5> QED
          BY <5>1, <5>2, <5>3
      <4>2. CASE k # 0
        <5>1. k \in 1..(L - 1) /\ t[k - 1] \in Int
          BY <1>0, <4>2
        <5>2. t[k] = e[k] + (t[k - 1] \div M)
          BY <1>4, <5>1
        <5>3. t[k - 1] \div M \in Int
          BY <1>0, <5>1
        <5>4. Worth(s)[k] + (t[k - 1] \div M) * Weight(k) = Worth(e)[k]
          BY <1>0, <2>2, <4>2
        <5> QED
          BY <5>2, <5>3, <5>4
      <4> QED
        BY <4>1, <4>2
    <3> PICK w \in Int, u \in Int, v \in Int, d \in Int, q \in Int, z \in Int :
            w = Weight(k) /\ u = Worth(s)[k] /\ v = Worth(e)[k] /\ d = e[k] /\ q = t[k] \div M
            /\ z = s[k]
      <4>1. t[k] \div M \in Int
        BY <1>0
      <4>2. e[k] \in Int /\ s[k] \in Int
        BY <1>5
      <4>3. Weight(k) \in Int
        BY <3>4
      <4> QED
        BY <3>4, <4>1, <4>2, <4>3, Zenon
    <3>5. d + p = M * q + z
      <4>1. t[k] = M * (t[k] \div M) + (t[k] % M)
        BY <1>0, Division, Zenon
      <4> QED
        BY <1>5, <3>2, <4>1
    <3>6. u + p * w = v
      OBVIOUS
    <3>7. (u + z * w) + q * (M * w) = (u + p * w) + d * w
      <4>1. (u + z * w) + q * (M * w) = u + (M * q + z) * w
        BY ONLY u \in Int, z \in Int, w \in Int, q \in Int, M \in Nat
      <4>2. u + (d + p) * w = (u + p * w) + d * w
        BY ONLY u \in Int, d \in Int, p \in Int, w \in Int
      <4> QED
        BY <3>5, <4>1, <4>2
    <3> QED
      BY <3>3, <3>4, <3>6, <3>7
  <2> HIDE DEF S
  <2> QED
    BY <2>1, <2>2, LimbInduction
<1>7. Value(s) = Value(e)
  <2>1. L - 1 \in Index /\ L - 1 \in 1..(L - 1) /\ L - 1 \in 0..L /\ (L - 1) + 1 = L /\ L - 1 \in Nat
    BY <1>0
  <2>2. Worth(s)[L - 1] + (t[L - 2] \div M) * Weight(L - 1) = Worth(e)[L - 1]
    BY <1>0, <1>6, <2>1
  <2>3. t[L - 1] = e[L - 1] + (t[L - 2] \div M)
    BY <1>0, <1>4, <2>1
  <2>4. Worth(s)[L] = Worth(s)[L - 1] + s[L - 1] * Weight(L - 1)
        /\ Worth(e)[L] = Worth(e)[L - 1] + e[L - 1] * Weight(L - 1)
    BY <1>5, <2>1, WorthSteps, Zenon
  <2> PICK w \in Int, u \in Int, v \in Int, d \in Int, q \in Int :
          w = Weight(L - 1) /\ u = Worth(s)[L - 1] /\ v = Worth(e)[L - 1] /\ d = e[L - 1]
          /\ q = t[L - 2] \div M
    <3>1. L - 2 \in Index
      BY <1>0
    <3>2. t[L - 2] \div M \in Int
      BY <1>0, <3>1
    <3>3. Weight(L - 1) \in Int
      BY <2>1, Weights
    <3>4. Worth(s)[L - 1] \in Int /\ Worth(e)[L - 1] \in Int
      BY <1>5, <2>1, WorthSteps, Zenon
    <3> QED
      BY <2>1, <3>2, <3>3, <3>4, Zenon
  <2>5. u + (d + q) * w = (u + q * w) + d * w
    BY ONLY u \in Int, d \in Int, q \in Int, w \in Int
  <2> QED
    BY <1>5, <2>2, <2>3, <2>4, <2>5 DEF Value
<1>8. Value(e) = Value(n) + x * Value(CLimbs)
  <2>1. \A i \in Index : e[i] = 1 * n[i] + x * CLimbs[i]
    <3> TAKE i \in Index
    <3>1. n[i] \in Int /\ 1 * n[i] = n[i]
      OBVIOUS
    <3> QED
      BY <1>1, <1>2, <3>1
  <2>2. Worth(e)[L] = 1 * Worth(n)[L] + x * Worth(CLimbs)[L]
    <3>1. L \in 0..L
      BY <1>0
    <3> PICK y \in Int, c \in [Index -> Int] : y = 1 /\ c = CLimbs
      BY <1>1
    <3>2. e = [i \in Index |-> y * n[i] + x * c[i]]
      BY <2>1
    <3>3. \A k \in 0..L : Worth([i \in Index |-> y * n[i] + x * c[i]])[k] = y * Worth(n)[k] + x * Worth(c)[k]
      BY ONLY LimbsFit, n \in [Index -> Int], c \in [Index -> Int], x \in Int, y \in Int, WorthLinear, ZenonT(60)
    <3> QED
      BY <3>1, <3>2, <3>3
  <2>3. Worth(n)[L] \in Int
    BY <1>0, WorthSteps
  <2> QED
    BY <2>2, <2>3 DEF Value
<1>9. s[0] = (n[0] + x * Cof(0)) % M1
  <2>1. 0 # L - 1
    BY <1>0
  <2> QED
    BY <1>0, <1>3, <1>5, <2>1
<1> QED
  BY <1>5, <1>7, <1>8, <1>9 DEF s

-----------------------------------------------------------------------------
(* The prime.                                                              *)

\* A weight is no larger than a higher one.
LEMMA WeightGrows ==
    ASSUME LimbsFit, NEW j \in Nat, NEW k \in Nat, j <= k
    PROVE  Weight(j) <= Weight(k)
<1>1. Bits \in Nat /\ Bits * j \in Nat /\ Bits * k \in Nat /\ Bits * j <= Bits * k
  <2> PICK b \in Nat : b = Bits
    BY Sizes
  <2>1. b * j \in Nat /\ b * k \in Nat /\ b * j <= b * k
    BY ONLY b \in Nat, j \in Nat, k \in Nat, j <= k
  <2> QED
    BY <2>1
<1> QED
  BY <1>1, PowerMonotone DEF Weight

\* Limbs that are not negative make a number that grows with every limb, ...
LEMMA WorthGrows ==
    ASSUME LimbsFit, NEW n \in [Index -> Nat], NEW j \in 0..L
    PROVE  \A k \in 0..L : k >= j => Worth(n)[j] <= Worth(n)[k]
<1> DEFINE S == {k \in 0..L : k >= j => Worth(n)[j] <= Worth(n)[k]}
<1>0. L \in Nat /\ L >= 5 /\ Index = 0..(L - 1) /\ n \in [Index -> Int]
  BY Sizes DEF Index
<1>1. 0 \in S
  <2>1. Worth(n)[0] \in Int
    BY <1>0, WorthSteps
  <2> QED
    BY <1>0, <2>1
<1>2. ASSUME NEW k \in Index, k \in S
      PROVE  k + 1 \in S
  <2>1. k \in Nat /\ k \in 0..L /\ k + 1 \in 0..L
    BY <1>0
  <2>2. Worth(n)[k + 1] = Worth(n)[k] + n[k] * Weight(k)
    BY <1>0, WorthSteps, Zenon
  <2>3. Worth(n)[k] \in Int /\ Worth(n)[j] \in Int /\ Worth(n)[k + 1] \in Int
    BY <1>0, <2>1, WorthSteps, Zenon
  <2> PICK d \in Nat, w \in Nat : d = n[k] /\ w = Weight(k)
    BY <2>1, Weights
  <2>4. d * w \in Nat
    BY ONLY d \in Nat, w \in Nat
  <2>5. Worth(n)[k + 1] >= Worth(n)[k]
    BY <2>2, <2>3, <2>4
  <2>6. CASE k >= j
    BY <1>2, <2>1, <2>3, <2>5, <2>6
  <2>7. CASE ~(k >= j)
    <3>1. k + 1 >= j => k + 1 = j
      BY <2>1, <2>7
    <3> QED
      BY <2>1, <2>3, <3>1
  <2> QED
    BY <2>6, <2>7
<1>3. \A k \in 0..L : k \in S
  <2> HIDE DEF S
  <2> QED
    BY <1>1, <1>2, LimbInduction
<1> QED
  BY <1>3

\* ... and does not change with a limb that is zero.
LEMMA WorthZeros ==
    ASSUME LimbsFit, NEW n \in [Index -> Int], NEW j \in 0..L, \A i \in Index : i >= j => n[i] = 0
    PROVE  Value(n) = Worth(n)[j]
<1> DEFINE S == {k \in 0..L : k >= j => Worth(n)[j] = Worth(n)[k]}
<1>0. L \in Nat /\ L >= 5 /\ Index = 0..(L - 1)
  BY Sizes DEF Index
<1>1. 0 \in S
  BY <1>0
<1>2. ASSUME NEW k \in Index, k \in S
      PROVE  k + 1 \in S
  <2>1. k \in Nat /\ k \in 0..L /\ k + 1 \in 0..L
    BY <1>0
  <2>2. CASE k >= j
    <3>1. Worth(n)[k + 1] = Worth(n)[k] + 0 * Weight(k)
      BY <2>2, WorthSteps
    <3>2. 0 * Weight(k) = 0
      BY <2>1, Weights
    <3>3. Worth(n)[k] \in Int
      BY <2>1, WorthSteps, Zenon
    <3> QED
      BY <1>2, <2>1, <2>2, <3>1, <3>2, <3>3
  <2>3. CASE ~(k >= j)
    <3>1. k + 1 >= j => k + 1 = j
      BY <2>1, <2>3
    <3> QED
      BY <2>1, <3>1
  <2> QED
    BY <2>2, <2>3
<1>3. \A k \in 0..L : k \in S
  <2> HIDE DEF S
  <2> QED
    BY <1>1, <1>2, LimbInduction
<1> QED
  BY <1>0, <1>3 DEF Value

\* The numbers of C, of the power of two and of the prime.
LEMMA PrimeSize ==
    ASSUME LimbsFit
    PROVE  /\ CLimbs \in [Index -> Nat] /\ \A i \in Index : CLimbs[i] = Cof(i)
           /\ Value(CLimbs) \in Nat /\ Value(CLimbs) >= 1
           /\ Value(CLimbs) = Worth(CLimbs)[Len(C)] /\ Value(CLimbs) <= Weight(Len(C)) - 1
           /\ Power \in Nat /\ Prime \in Nat /\ Prime >= 1 /\ Power = Prime + Value(CLimbs)
           /\ Weight(L - 1) \in Nat /\ Weight(L - 1) >= 1
           /\ Value(CLimbs) <= Weight(L - 1) - 1 /\ 8 * Weight(L - 1) <= Power
<1>0. L \in Nat /\ L >= 5 /\ Index = 0..(L - 1) /\ Len(C) \in 0..L /\ Len(C) <= 2 /\ Len(C) >= 1
      /\ M1 \in Nat /\ M1 >= 2 /\ Top1 \in Nat /\ Top1 >= 8 /\ 0 \in Index
  BY Sizes DEF Index
<1>1. CLimbs \in [Index -> Nat] /\ \A i \in Index : CLimbs[i] = Cof(i) /\ CLimbs[i] <= M1 - 1
  BY LimbSizes DEF CLimbs
<1>2. CLimbs \in [Index -> Int]
  BY <1>1
<1>3. Value(CLimbs) = Worth(CLimbs)[Len(C)]
  <2>1. \A i \in Index : i >= Len(C) => CLimbs[i] = 0
    BY <1>1, LimbSizes
  <2> QED
    BY <1>0, <1>2, <2>1, WorthZeros, Zenon
<1>4. Worth(CLimbs)[Len(C)] >= 0 /\ Worth(CLimbs)[Len(C)] <= Weight(Len(C)) - 1
  BY <1>0, <1>1, WorthBound, SMTT(20)
<1>5. Value(CLimbs) >= 1
  <2>1. Cof(0) \in Nat /\ Cof(0) >= 1
    <3>1. Cof(0) = C[1]
      BY <1>0 DEF Cof
    <3>2. C[1] \in 1..(M1 - 1)
      BY <1>0 DEF LimbsFit
    <3> QED
      BY <1>0, <3>1, <3>2
  <2>2. Worth(CLimbs)[0 + 1] = Worth(CLimbs)[0] + CLimbs[0] * Weight(0)
    BY <1>0, <1>2, WorthSteps, Zenon
  <2>3. Worth(CLimbs)[0] = 0
    BY <1>2, WorthSteps
  <2>4. Weight(0) = 1
    BY Weights
  <2>5. Worth(CLimbs)[1] = Cof(0)
    BY <1>0, <1>1, <2>1, <2>2, <2>3, <2>4
  <2>6. Worth(CLimbs)[1] <= Worth(CLimbs)[L]
    BY <1>0, <1>1, WorthGrows
  <2>7. Worth(CLimbs)[L] \in Int
    BY <1>0, <1>2, WorthSteps
  <2> QED
    BY <2>1, <2>5, <2>6, <2>7 DEF Value
<1>6. Worth(CLimbs)[Len(C)] \in Int
  BY <1>0, <1>2, WorthSteps, Zenon
<1>7. Weight(Len(C)) <= Weight(L - 1) /\ Weight(Len(C)) \in Nat /\ Weight(L - 1) \in Nat
  BY <1>0, WeightGrows, Weights
<1> PICK v \in Int, w \in Nat, T \in Nat :
        v = Value(CLimbs) /\ w = Weight(L - 1) /\ T = Top1
  BY <1>0, <1>3, <1>6, <1>7
<1>8. T * w \in Nat /\ T * w >= 8 * w
  <2>1. T >= 8
    BY <1>0
  <2> QED
    BY ONLY T \in Nat, w \in Nat, <2>1
<1>9. v >= 1 /\ v <= w - 1
  BY <1>3, <1>4, <1>5, <1>6, <1>7
<1>10. Power = T * w /\ Prime = Power - v
  BY DEF Power, Prime
<1> PICK p \in Nat : p = T * w
  BY <1>8
<1>11. p >= 8 * w /\ Power = p /\ Prime = p - v /\ Value(CLimbs) = v
  BY <1>8, <1>10
<1>12. v \in Nat /\ p - v \in Nat /\ p - v >= 1 /\ p = (p - v) + v /\ w >= 1
  BY ONLY <1>9, p \in Nat, v \in Int, w \in Nat, <1>11
<1> QED
  BY <1>1, <1>3, <1>4, <1>9, <1>11, <1>12, Zenon

\* Limbs that are full make the number below the next limb's weight.
LEMMA MaskValue ==
    ASSUME LimbsFit
    PROVE  /\ Value([i \in Index |-> Mask(i)]) = Power - 1
           /\ \A k \in 0..(L - 1) : Worth([i \in Index |-> Mask(i)])[k] = Weight(k) - 1
<1> DEFINE f == [i \in Index |-> Mask(i)]
           S == {k \in 0..L : k # L => Worth(f)[k] = Weight(k) - 1}
<1>0. L \in Nat /\ L >= 5 /\ Index = 0..(L - 1) /\ M1 \in Nat /\ Top1 \in Nat
  BY Sizes DEF Index
<1> PICK M \in Nat, T \in Nat : M = M1 /\ T = Top1
  BY <1>0
<1>1. f \in [Index -> Int] /\ \A i \in Index : f[i] = IF i = L - 1 THEN T - 1 ELSE M - 1
  <2>1. \A i \in Index : Mask(i) = IF i = L - 1 THEN T - 1 ELSE M - 1
    BY LimbSizes
  <2>2. \A i \in Index : Mask(i) \in Int
    BY LimbSizes
  <2> QED
    BY <2>1, <2>2
<1> HIDE DEF f
<1>2. 0 \in S
  <2>1. Worth(f)[0] = 0 /\ Weight(0) = 1
    BY <1>1, WorthSteps, Weights
  <2> QED
    BY <1>0, <2>1
<1>3. ASSUME NEW k \in Index, k \in S
      PROVE  k + 1 \in S
  <2>1. k \in Nat /\ k \in 0..L /\ k + 1 \in 0..L /\ k # L
    BY <1>0
  <2> SUFFICES ASSUME k + 1 # L
               PROVE  Worth(f)[k + 1] = Weight(k + 1) - 1
    BY <2>1
  <2> PICK w \in Nat : w = Weight(k)
    BY <2>1, Weights
  <2>2. f[k] = M - 1
    <3>1. k # L - 1
      BY <1>0, <2>1
    <3> QED
      BY <1>1, <3>1
  <2>3. Worth(f)[k + 1] = (w - 1) + (M - 1) * w
    BY <1>1, <1>3, <2>1, <2>2, WorthSteps, Zenon
  <2>4. Weight(k + 1) = M * w
    BY <2>1, Weights
  <2>5. (w - 1) + (M - 1) * w = M * w - 1
    BY ONLY w \in Nat, M \in Nat
  <2> QED
    BY <2>3, <2>4, <2>5
<1>4. \A k \in 0..L : k \in S
  <2> HIDE DEF S
  <2> QED
    BY <1>2, <1>3, LimbInduction
<1>5. L - 1 \in Index /\ L - 1 \in 0..L /\ L - 1 # L /\ (L - 1) + 1 = L /\ L - 1 \in Nat
  BY <1>0
<1> PICK w \in Nat : w = Weight(L - 1)
  BY <1>5, Weights
<1>6. Worth(f)[L] = (w - 1) + (T - 1) * w
  <2>1. Worth(f)[L] = Worth(f)[L - 1] + f[L - 1] * w
    BY <1>1, <1>5, WorthSteps, Zenon
  <2>2. Worth(f)[L - 1] = w - 1 /\ f[L - 1] = T - 1
    BY <1>1, <1>4, <1>5
  <2> QED
    BY <2>1, <2>2
<1>7. (w - 1) + (T - 1) * w = T * w - 1
  BY ONLY w \in Nat, T \in Nat
<1>8. \A k \in 0..(L - 1) : Worth(f)[k] = Weight(k) - 1
  <2> TAKE k \in 0..(L - 1)
  <2>1. k \in 0..L /\ k # L
    BY <1>0
  <2> QED
    BY <1>4, <2>1
<1> QED
  BY <1>6, <1>7, <1>8 DEF Value, Power, f

\* The limbs of the prime are the prime.
LEMMA PrimeLimbs ==
    ASSUME LimbsFit
    PROVE  /\ [i \in Index |-> PLimb(i)] \in [Index -> Nat]
           /\ \A i \in Index : PLimb(i) <= Mask(i)
           /\ Value([i \in Index |-> PLimb(i)]) = Prime
<1>0. L \in Nat /\ L >= 5 /\ Index = 0..(L - 1) /\ 0 \in Index /\ L \in 0..L /\ Len(C) >= 1
  BY Sizes DEF Index
<1>1. \A i \in Index : PLimb(i) \in Nat /\ Mask(i) \in Nat /\ Cof(i) \in Nat
  BY LimbSizes
<1>2. PICK f \in [Index -> Int], c \in [Index -> Int] :
          f = [i \in Index |-> Mask(i)] /\ c = CLimbs /\ \A i \in Index : f[i] = Mask(i) /\ c[i] = Cof(i)
  <2>1. CLimbs \in [Index -> Int] /\ \A i \in Index : CLimbs[i] = Cof(i)
    BY PrimeSize
  <2>2. [i \in Index |-> Mask(i)] \in [Index -> Int]
    BY <1>1
  <2> QED
    BY <2>1, <2>2, Zenon
<1> PICK o \in [Index -> Int] : \A i \in Index : o[i] = IF i = 0 THEN 1 ELSE 0
  <2> DEFINE o == [i \in Index |-> IF i = 0 THEN 1 ELSE 0]
  <2>1. o \in [Index -> Int]
    OBVIOUS
  <2> QED
    BY <2>1, Zenon
<1>3. Value(o) = 1
  <2>1. Worth(o)[0 + 1] = Worth(o)[0] + o[0] * Weight(0)
    BY <1>0, WorthSteps, Zenon
  <2>2. Worth(o)[0] = 0 /\ Weight(0) = 1 /\ o[0] = 1
    BY <1>0, WorthSteps, Weights
  <2>3. Worth(o)[1] = 1
    BY <2>1, <2>2
  <2>4. 1 \in 0..L /\ \A i \in Index : i >= 1 => o[i] = 0
    BY <1>0
  <2> QED
    BY <2>3, <2>4, WorthZeros
<1> PICK p \in Int, q \in Int : p = 1 /\ q = -1
  OBVIOUS
<1> PICK g \in [Index -> Int] : g = [i \in Index |-> p * f[i] + q * c[i]]
  <2>1. [i \in Index |-> p * f[i] + q * c[i]] \in [Index -> Int]
    OBVIOUS
  <2> QED
    BY <2>1, Zenon
<1>4. \A k \in 0..L : Worth([i \in Index |-> p * f[i] + q * c[i]])[k] = p * Worth(f)[k] + q * Worth(c)[k]
  BY ONLY LimbsFit, f \in [Index -> Int], c \in [Index -> Int], p \in Int, q \in Int, WorthLinear, ZenonT(60)
<1>5. \A k \in 0..L : Worth([i \in Index |-> p * g[i] + p * o[i]])[k] = p * Worth(g)[k] + p * Worth(o)[k]
  BY ONLY LimbsFit, g \in [Index -> Int], o \in [Index -> Int], p \in Int, WorthLinear, ZenonT(60)
<1>6. [i \in Index |-> PLimb(i)] = [i \in Index |-> p * g[i] + p * o[i]]
  <2>1. ASSUME NEW i \in Index
        PROVE  PLimb(i) = p * g[i] + p * o[i]
    <3>1. g[i] = f[i] - c[i] /\ f[i] \in Int /\ c[i] \in Int
      OBVIOUS
    <3>2. p * g[i] + p * o[i] = (f[i] - c[i]) + o[i]
      BY <3>1
    <3>3. PLimb(i) = (f[i] - c[i]) + o[i]
      BY <1>2, <3>1 DEF PLimb
    <3> QED
      BY <3>2, <3>3
  <2> QED
    BY <2>1
<1>7. Value([i \in Index |-> PLimb(i)]) = Prime
  <2>1. Worth(f)[L] = Power - 1
    BY <1>2, MaskValue DEF Value
  <2>2. Worth(c)[L] = Value(CLimbs) /\ Worth(o)[L] = 1
    BY <1>2, <1>3 DEF Value
  <2>3. Worth(g)[L] = p * Worth(f)[L] + q * Worth(c)[L]
    BY <1>0, <1>4, Zenon
  <2>4. Value([i \in Index |-> PLimb(i)]) = p * Worth(g)[L] + p * Worth(o)[L]
    BY <1>0, <1>5, <1>6, Zenon DEF Value
  <2>5. Power \in Nat /\ Value(CLimbs) \in Nat /\ Power = Prime + Value(CLimbs) /\ Prime \in Nat
    BY PrimeSize
  <2>6. Worth(g)[L] = (Power - 1) - Value(CLimbs)
    BY <2>1, <2>2, <2>3, <2>5
  <2> QED
    BY <2>2, <2>4, <2>5, <2>6
<1>8. \A i \in Index : PLimb(i) <= Mask(i)
  <2> TAKE i \in Index
  <2>1. CASE i = 0
    <3>1. Cof(0) = C[1] /\ C[1] \in 1..(M1 - 1)
      BY <1>0 DEF Cof, LimbsFit
    <3>2. PLimb(0) = Mask(0) - Cof(0) + 1
      BY DEF PLimb
    <3>3. Mask(0) \in Nat /\ C[1] \in Int /\ C[1] >= 1
      BY <1>0, <1>1, <3>1, Sizes
    <3>4. PLimb(0) <= Mask(0)
      BY <3>1, <3>2, <3>3
    <3> QED
      BY <2>1, <3>4
  <2>2. CASE i # 0
    BY <1>1, <2>2 DEF PLimb
  <2> QED
    BY <2>1, <2>2
<1> QED
  BY <1>1, <1>7, <1>8

-----------------------------------------------------------------------------
(* The highest limb, and the only limbs of a number.                       *)

\* The number of the lowest limbs is the same if they are.
LEMMA WorthSame ==
    ASSUME LimbsFit, NEW a \in [Index -> Int], NEW b \in [Index -> Int], NEW j \in 0..L,
           \A i \in Index : i < j => a[i] = b[i]
    PROVE  Worth(a)[j] = Worth(b)[j]
<1> DEFINE S == {k \in 0..L : k <= j => Worth(a)[k] = Worth(b)[k]}
<1>0. L \in Nat /\ Index = 0..(L - 1)
  BY Sizes DEF Index
<1>1. 0 \in S
  <2>1. Worth(a)[0] = 0 /\ Worth(b)[0] = 0
    BY WorthSteps
  <2> QED
    BY <1>0, <2>1
<1>2. ASSUME NEW k \in Index, k \in S
      PROVE  k + 1 \in S
  <2>1. k \in 0..L /\ k + 1 \in 0..L /\ (k + 1 <= j => k <= j /\ k < j)
    BY <1>0
  <2>2. Worth(a)[k + 1] = Worth(a)[k] + a[k] * Weight(k) /\ Worth(b)[k + 1] = Worth(b)[k] + b[k] * Weight(k)
    BY WorthSteps
  <2> QED
    BY <1>2, <2>1, <2>2
<1>3. \A k \in 0..L : k \in S
  <2> HIDE DEF S
  <2> QED
    BY <1>1, <1>2, LimbInduction
<1> QED
  BY <1>0, <1>3

\* Below the highest limb is what the weight of that limb does not divide.
LEMMA ValueTop ==
    ASSUME LimbsFit, NEW n \in [Index -> Int], \A i \in Index : i # L - 1 => n[i] \in 0..(M1 - 1)
    PROVE  /\ Value(n) \in Int /\ Weight(L - 1) \in Nat /\ Weight(L - 1) >= 1
           /\ Worth(n)[L - 1] \in 0..(Weight(L - 1) - 1)
           /\ Value(n) = Weight(L - 1) * n[L - 1] + Worth(n)[L - 1]
<1>0. L \in Nat /\ L >= 5 /\ Index = 0..(L - 1) /\ M1 \in Nat /\ M1 >= 2
      /\ L - 1 \in Index /\ L - 1 \in 0..L /\ (L - 1) + 1 = L /\ L - 1 \in Nat
  <2>1. L \in Nat /\ L >= 5 /\ Index = 0..(L - 1) /\ M1 \in Nat /\ M1 >= 2
    BY Sizes DEF Index
  <2> QED
    BY <2>1
<1>1. Worth(n)[L - 1] \in Int /\ Worth(n)[L] \in Int
  <2>1. Worth(n) \in [0..L -> Int] /\ L \in 0..L
    BY <1>0, WorthSteps
  <2> QED
    BY <1>0, <2>1
<1>2. Worth(n)[L] = Worth(n)[L - 1] + n[L - 1] * Weight(L - 1)
  BY <1>0, WorthSteps, Zenon
<1>3. Weight(L - 1) \in Nat /\ Weight(L - 1) >= 1
  BY <1>0, Weights
<1> PICK low \in [Index -> Nat] : \A i \in Index : low[i] = IF i = L - 1 THEN 0 ELSE n[i]
  <2> DEFINE low == [i \in Index |-> IF i = L - 1 THEN 0 ELSE n[i]]
  <2>1. low \in [Index -> Nat]
    BY <1>0
  <2> QED
    BY <2>1, Zenon
<1>4. \A i \in Index : low[i] <= M1 - 1
  BY <1>0
<1>5. Worth(low)[L - 1] = Worth(n)[L - 1]
  <2>1. low \in [Index -> Int] /\ \A i \in Index : i < L - 1 => low[i] = n[i]
    BY <1>0
  <2> QED
    BY <1>0, <2>1, WorthSame, Zenon
<1>6. Worth(low)[L - 1] >= 0 /\ Worth(low)[L - 1] <= Weight(L - 1) - 1
  BY <1>0, <1>4, WorthBound
<1>7. Worth(n)[L - 1] \in 0..(Weight(L - 1) - 1)
  BY <1>0, <1>1, <1>3, <1>5, <1>6
<1> QED
  BY <1>0, <1>1, <1>2, <1>3, <1>7 DEF Value

\* Limbs that carry nothing are the only ones of their number.
LEMMA ValueUnique ==
    ASSUME LimbsFit, NEW a \in [Index -> Nat], NEW b \in [Index -> Nat],
           \A i \in Index : i # L - 1 => a[i] \in 0..(M1 - 1) /\ b[i] \in 0..(M1 - 1),
           Value(a) = Value(b)
    PROVE  a = b
<1> DEFINE S == {j \in 0..L : Worth(a)[L - j] = Worth(b)[L - j] /\ \A i \in Index : i >= L - j => a[i] = b[i]}
<1>0. L \in Nat /\ L >= 5 /\ Index = 0..(L - 1) /\ M1 \in Nat /\ M1 >= 2
      /\ a \in [Index -> Int] /\ b \in [Index -> Int] /\ L - 1 \in 0..L
  <2>1. L \in Nat /\ L >= 5 /\ Index = 0..(L - 1) /\ M1 \in Nat /\ M1 >= 2
    BY Sizes DEF Index
  <2> QED
    BY <2>1
<1>1. \A k \in 0..(L - 1) : Worth(a)[k] \in 0..(Weight(k) - 1) /\ Worth(b)[k] \in 0..(Weight(k) - 1)
  <2>1. \A i \in Index : i < L - 1 => a[i] <= M1 - 1
    BY <1>0
  <2>2. \A i \in Index : i < L - 1 => b[i] <= M1 - 1
    BY <1>0
  <2>3. \A k \in 0..L : k <= L - 1 => Worth(a)[k] >= 0 /\ Worth(a)[k] <= Weight(k) - 1
    BY <1>0, <2>1, WorthBound, Zenon
  <2>4. \A k \in 0..L : k <= L - 1 => Worth(b)[k] >= 0 /\ Worth(b)[k] <= Weight(k) - 1
    BY <1>0, <2>2, WorthBound, Zenon
  <2> TAKE k \in 0..(L - 1)
  <2>5. k \in Nat /\ k \in 0..L /\ k <= L - 1
    BY <1>0
  <2>6. Worth(a)[k] \in Int /\ Worth(b)[k] \in Int /\ Weight(k) \in Nat
    BY <1>0, <2>5, WorthSteps, Weights, Zenon
  <2>7. Worth(a)[k] >= 0 /\ Worth(a)[k] <= Weight(k) - 1
    BY <2>3, <2>5
  <2>8. Worth(b)[k] >= 0 /\ Worth(b)[k] <= Weight(k) - 1
    BY <2>4, <2>5
  <2> QED
    BY <2>6, <2>7, <2>8
<1>2. 0 \in S
  <2>1. L - 0 = L /\ \A i \in Index : ~(i >= L)
    BY <1>0
  <2> QED
    BY <1>0, <2>1 DEF Value
<1>3. ASSUME NEW j \in Index, j \in S
      PROVE  j + 1 \in S
  <2> DEFINE k == L - (j + 1)
  <2>1. k \in 0..(L - 1) /\ k \in Index /\ k \in Nat /\ k + 1 = L - j /\ j + 1 \in 0..L
    BY <1>0
  <2>0. k = L - (j + 1)
    OBVIOUS
  <2> HIDE DEF k
  <2>2. Worth(a)[k + 1] = Worth(a)[k] + a[k] * Weight(k) /\ Worth(b)[k + 1] = Worth(b)[k] + b[k] * Weight(k)
    BY <1>0, <2>1, WorthSteps, Zenon
  <2>3. Worth(a)[k + 1] = Worth(b)[k + 1]
    BY <1>3, <2>1
  <2>4. Weight(k) \in Nat /\ Weight(k) >= 1
    BY <2>1, Weights
  <2>5. Worth(a)[k] \in 0..(Weight(k) - 1) /\ Worth(b)[k] \in 0..(Weight(k) - 1)
    BY <1>1, <2>1
  <2>6. Worth(a)[k] = Worth(b)[k] /\ a[k] = b[k]
    <3> PICK w \in Nat, d \in Int, e \in Int, u \in Int, v \in Int :
            w = Weight(k) /\ d = a[k] /\ e = b[k] /\ u = Worth(a)[k] /\ v = Worth(b)[k]
      <4>1. Weight(k) \in Nat /\ a[k] \in Int /\ b[k] \in Int
        BY <1>0, <2>1, <2>4
      <4>2. Worth(a)[k] \in Int /\ Worth(b)[k] \in Int
        BY <2>4, <2>5
      <4> QED
        BY <4>1, <4>2
    <3>1. w >= 1 /\ u \in 0..(w - 1) /\ v \in 0..(w - 1)
      BY <2>4, <2>5
    <3>2. d * w + u = e * w + v
      <4>1. u + d * w = v + e * w
        BY <2>2, <2>3
      <4> QED
        BY ONLY <4>1, u \in Int, v \in Int, d \in Int, e \in Int, w \in Nat
    <3>3. d = e /\ u = v
      BY ONLY <3>1, <3>2, d \in Int, e \in Int, w \in Nat, PairUnique
    <3> QED
      BY <3>3
  <2>7. \A i \in Index : i >= k => a[i] = b[i]
    <3> TAKE i \in Index
    <3>1. i >= k => i = k \/ i >= L - j
      BY <1>0, <2>1
    <3> QED
      BY <1>3, <2>6, <3>1
  <2> QED
    BY <2>0, <2>1, <2>6, <2>7
<1>4. \A j \in 0..L : j \in S
  <2> HIDE DEF S
  <2> QED
    BY <1>2, <1>3, LimbInduction
<1>5. \A i \in Index : a[i] = b[i]
  <2>1. L \in S
    <3>1. L \in 0..L
      BY <1>0
    <3> HIDE DEF S
    <3> QED
      BY <1>4, <3>1
  <2>2. \A i \in Index : i >= L - L
    BY <1>0
  <2> QED
    BY <2>1, <2>2
<1> QED
  BY <1>5

\* What a pass brings to the highest limb is at most K, if K is more than any
\* limb hands on.
LEMMA PassCarry ==
    ASSUME LimbsFit, NEW n \in [Index -> Nat], NEW x \in Nat, NEW K \in Nat, Carries(n, x, K)
    PROVE  /\ Pass(n, x) \in [Index -> Nat]
           /\ n[L - 1] <= Pass(n, x)[L - 1] /\ Pass(n, x)[L - 1] <= n[L - 1] + K
<1>0. L \in Nat /\ L >= 5 /\ Index = 0..(L - 1) /\ M1 \in Nat /\ M1 >= 2 /\ n \in [Index -> Int] /\ x \in Int
  BY Sizes DEF Index
<1> PICK M \in Nat : M = M1 /\ M >= 2
  BY <1>0
<1>1. PICK t \in [Index -> Int] :
          /\ t[0] = n[0] + x * Cof(0)
          /\ \A i \in 1..(L - 1) : t[i] = n[i] + x * Cof(i) + (t[i - 1] \div M1)
          /\ Pass(n, x) = [i \in Index |-> IF i = L - 1 THEN t[i] ELSE t[i] % M1]
  BY ONLY LimbsFit, Carries(n, x, K), PassSteps
<1>2. PICK e \in [Index -> Nat] : \A i \in Index : e[i] = n[i] + x * Cof(i)
  <2> DEFINE e == [i \in Index |-> n[i] + x * Cof(i)]
  <2>1. ASSUME NEW i \in Index
        PROVE  n[i] + x * Cof(i) \in Nat
    <3>1. Cof(i) \in Nat /\ n[i] \in Nat
      BY LimbSizes
    <3> QED
      BY <3>1
  <2>2. e \in [Index -> Nat]
    BY <2>1
  <2> QED
    BY <2>2, Zenon
<1>3. \A i \in Index : i # L - 1 => e[i] + K < M * (K + 1)
  BY <1>2 DEF Carries
<1>4. t[0] = e[0] /\ \A i \in 1..(L - 1) : t[i] = e[i] + (t[i - 1] \div M)
  <2>1. t[0] = e[0]
    BY <1>0, <1>1, <1>2
  <2>2. ASSUME NEW i \in 1..(L - 1)
        PROVE  t[i] = e[i] + (t[i - 1] \div M)
    <3>1. i \in Index
      BY <1>0
    <3> QED
      BY <1>1, <1>2, <3>1
  <2> QED
    BY <2>1, <2>2
<1> DEFINE S == {k \in 0..L : k # 0 => t[k - 1] >= e[k - 1] /\ t[k - 1] <= e[k - 1] + K}
<1>5. \A k \in 0..L : k \in S
  <2>1. 0 \in S
    BY <1>0
  <2>2. ASSUME NEW k \in Index, k \in S
        PROVE  k + 1 \in S
    <3>1. k + 1 \in 0..L /\ (k + 1) - 1 = k /\ k \in 0..L /\ t[k] \in Int /\ e[k] \in Nat
      BY <1>0
    <3>2. CASE k = 0
      <4>1. t[k] = e[k]
        BY <1>4, <3>2
      <4> QED
        BY <3>1, <4>1
    <3>3. CASE k # 0
      <4>1. k \in 1..(L - 1) /\ k - 1 \in Index /\ k - 1 # L - 1
        BY <1>0, <3>3
      <4> PICK y \in Int, d \in Nat : y = t[k - 1] /\ d = e[k - 1]
        BY <4>1
      <4>2. y >= d /\ y <= d + K /\ d + K < M * (K + 1)
        BY <1>3, <2>2, <3>3, <4>1
      <4>3. y \div M >= 0 /\ y \div M <= K /\ y \div M \in Int
        BY ONLY M \in Nat, M >= 2, y \in Int, d \in Nat, K \in Nat, <4>2, DivBound
      <4>4. t[k] = e[k] + (y \div M)
        BY <1>4, <4>1
      <4> PICK q \in Int : q = y \div M
        BY <4>3
      <4> QED
        BY <3>1, <4>3, <4>4
    <3> QED
      BY <3>2, <3>3
  <2> HIDE DEF S
  <2> QED
    BY <2>1, <2>2, LimbInduction
<1>6. t[L - 1] >= e[L - 1] /\ t[L - 1] <= e[L - 1] + K
  BY <1>0, <1>5
<1>7. e[L - 1] = n[L - 1] /\ L - 1 \in Index
  <2>1. L - 1 \in Index
    BY <1>0
  <2>2. Cof(L - 1) = 0 /\ x * 0 = 0 /\ n[L - 1] \in Nat
    BY <2>1, LimbSizes
  <2> QED
    BY <1>2, <2>1, <2>2
<1>8. Pass(n, x)[L - 1] = t[L - 1]
  BY <1>1, <1>7
<1>9. Pass(n, x) \in [Index -> Nat]
  <2>1. ASSUME NEW i \in Index
        PROVE  (IF i = L - 1 THEN t[i] ELSE t[i] % M) \in Nat
    <3>1. t[L - 1] \in Nat
      BY <1>6, <1>7
    <3>2. t[i] % M \in Nat
      BY Division
    <3> QED
      BY <3>1, <3>2
  <2> QED
    BY <1>1, <2>1
<1> QED
  BY <1>6, <1>7, <1>8, <1>9

-----------------------------------------------------------------------------
(* Is a number the prime or above it?                                      *)

\* What AtLeastP computes for a C of one limb and for one of two.
LEMMA OverSteps ==
    ASSUME LimbsFit, NEW t \in [Index -> Nat]
    PROVE  AtLeastP(t) <=>
               /\ \A i \in Len(C)..(L - 1) : t[i] = Mask(i)
               /\ (IF Len(C) = 1 THEN t[0] + Cof(0) ELSE t[1] + Cof(1) + ((t[0] + Cof(0)) \div M1)) >= M1
<1> DEFINE Is(f) == f = [i \in 0..(Len(C) - 1) |->
                            t[i] + Cof(i) + (IF i = 0 THEN 0 ELSE f[i - 1] \div M1)]
           h == [i \in 0..(Len(C) - 1) |->
                    IF i = 0 THEN t[0] + Cof(0) ELSE t[1] + Cof(1) + ((t[0] + Cof(0)) \div M1)]
           over == CHOOSE f : Is(f)
           top == over[Len(C) - 1]
<1>0. L \in Nat /\ L >= 5 /\ Index = 0..(L - 1) /\ Len(C) \in {1, 2} /\ M1 \in Nat /\ M1 >= 1
  BY Sizes DEF Index
<1>1. t[0] \in Nat /\ t[1] \in Nat /\ Cof(0) \in Nat /\ Cof(1) \in Nat
  <2>1. 0 \in Index /\ 1 \in Index
    BY <1>0
  <2> QED
    BY <2>1, LimbSizes
<1>2. (t[0] + Cof(0)) \div M1 \in Int
  BY <1>0, <1>1
<1>3. Is(h)
  <2>1. ASSUME NEW i \in 0..(Len(C) - 1)
        PROVE  h[i] = t[i] + Cof(i) + (IF i = 0 THEN 0 ELSE h[i - 1] \div M1)
    <3>1. CASE i = 0
      BY <1>1, <3>1
    <3>2. CASE i # 0
      <4>1. i = 1 /\ 0 \in 0..(Len(C) - 1)
        BY <1>0, <3>2
      <4>2. h[0] = t[0] + Cof(0) /\ h[1] = t[1] + Cof(1) + ((t[0] + Cof(0)) \div M1)
        BY <4>1
      <4> HIDE DEF h
      <4> QED
        BY <4>1, <4>2
    <3> QED
      BY <3>1, <3>2
  <2>2. h = [i \in 0..(Len(C) - 1) |-> h[i]]
    OBVIOUS
  <2> HIDE DEF h
  <2> QED
    BY <2>1, <2>2, Zenon
<1>4. Is(over)
  <2> HIDE DEF Is
  <2> QED
    BY <1>3
<1>5. \A i \in 0..(Len(C) - 1) : over[i] = t[i] + Cof(i) + (IF i = 0 THEN 0 ELSE over[i - 1] \div M1)
  <2> HIDE DEF over
  <2> QED
    BY <1>4, Zenon
<1>6. AtLeastP(t) <=> (\A i \in Len(C)..(L - 1) : t[i] = Mask(i)) /\ over[Len(C) - 1] > M1 - 1
  BY DEF AtLeastP
<1> HIDE DEF over, Is, h
<1>7. over[0] = t[0] + Cof(0)
  <2>1. 0 \in 0..(Len(C) - 1)
    BY <1>0
  <2> QED
    BY <1>1, <1>5, <2>1
<1>8. CASE Len(C) = 1
  <2>1. over[Len(C) - 1] = t[0] + Cof(0)
    BY <1>7, <1>8
  <2> QED
    BY <1>0, <1>1, <1>6, <1>8, <2>1
<1>9. CASE Len(C) = 2
  <2>1. 1 \in 0..(Len(C) - 1) /\ Len(C) - 1 = 1
    BY <1>9
  <2>2. over[1] = t[1] + Cof(1) + (over[0] \div M1)
    BY <1>5, <2>1
  <2> PICK v \in Int : v = (t[0] + Cof(0)) \div M1
    BY <1>2
  <2>3. over[Len(C) - 1] = t[1] + Cof(1) + v
    BY <1>7, <2>1, <2>2, Zenon
  <2>4. over[Len(C) - 1] > M1 - 1 <=> t[1] + Cof(1) + v >= M1
    BY <1>0, <1>1, <2>3
  <2> QED
    BY <1>6, <1>9, <2>4
<1> QED
  BY <1>0, <1>8, <1>9

\* The lowest limbs and those of C carry into the limb above exactly if their
\* numbers reach its weight.
LEMMA OverWorth ==
    ASSUME LimbsFit, NEW t \in [Index -> Nat]
    PROVE  (IF Len(C) = 1 THEN t[0] + Cof(0) ELSE t[1] + Cof(1) + ((t[0] + Cof(0)) \div M1)) >= M1
           <=> Worth(t)[Len(C)] + Worth(CLimbs)[Len(C)] >= Weight(Len(C))
<1>0. L \in Nat /\ L >= 5 /\ Index = 0..(L - 1) /\ Len(C) \in {1, 2} /\ M1 \in Nat /\ M1 >= 2
      /\ 0 \in Index /\ 1 \in Index /\ t \in [Index -> Int]
  <2>1. L \in Nat /\ L >= 5 /\ Index = 0..(L - 1) /\ Len(C) \in {1, 2} /\ M1 \in Nat /\ M1 >= 2
    BY Sizes DEF Index
  <2> QED
    BY <2>1
<1> PICK M \in Nat, a \in Nat, b \in Nat, c \in Nat, d \in Nat :
        M = M1 /\ a = t[0] /\ b = t[1] /\ c = Cof(0) /\ d = Cof(1)
  BY <1>0, LimbSizes, Zenon
<1>1. Worth(t)[1] = a /\ Worth(CLimbs)[1] = c /\ Weight(1) = M
  <2>1. CLimbs \in [Index -> Int] /\ CLimbs[0] = c
    BY <1>0, PrimeSize
  <2>2. Worth(t)[0 + 1] = Worth(t)[0] + t[0] * Weight(0)
    BY <1>0, WorthSteps, Zenon
  <2>3. Worth(CLimbs)[0 + 1] = Worth(CLimbs)[0] + CLimbs[0] * Weight(0)
    BY <1>0, <2>1, WorthSteps, Zenon
  <2>4. Worth(t)[0] = 0 /\ Worth(CLimbs)[0] = 0
    BY <1>0, <2>1, WorthSteps, Zenon
  <2>5. Weight(0) = 1 /\ Weight(0 + 1) = M1 * Weight(0)
    BY Weights
  <2> QED
    BY <1>0, <2>1, <2>2, <2>3, <2>4, <2>5
<1>2. CASE Len(C) = 1
  BY <1>1, <1>2
<1>3. CASE Len(C) = 2
  <2>1. CLimbs \in [Index -> Int] /\ CLimbs[1] = d
    BY <1>0, PrimeSize
  <2>2. Worth(t)[1 + 1] = a + b * M
    BY <1>0, <1>1, WorthSteps, ZenonT(30)
  <2>3. Worth(CLimbs)[1 + 1] = c + d * M
    BY <1>0, <1>1, <2>1, WorthSteps, ZenonT(30)
  <2>4. Weight(1 + 1) = M * M
    BY <1>1, Weights
  <2> PICK s \in Nat, q \in Int, r \in 0..(M - 1) :
          s = a + c /\ q = s \div M /\ s = M * q + r
    <3>1. a + c \in Nat
      OBVIOUS
    <3> PICK s \in Nat : s = a + c
      BY <3>1
    <3>2. s \div M \in Int /\ (s % M) \in 0..(M - 1) /\ s = M * (s \div M) + (s % M)
      <4>1. M >= 1
        BY <1>0
      <4> QED
        BY ONLY s \in Nat, M \in Nat, <4>1, Division
    <3> QED
      BY <3>2
  <2>5. (a + b * M) + (c + d * M) = M * (b + d + q) + r
    <3>1. M * (b + d + q) + r = b * M + d * M + (M * q + r)
      BY ONLY M \in Nat, b \in Nat, d \in Nat, q \in Int, r \in 0..(M - 1)
    <3> PICK x \in Int, y \in Int, z \in Int : x = b * M /\ y = d * M /\ z = M * q + r
      OBVIOUS
    <3> QED
      BY <3>1
  <2> PICK g \in Int : g = b + d + q
    OBVIOUS
  <2>6. M * g + r >= M * M <=> g >= M
    <3>1. CASE g >= M
      <4>1. M * g >= M * M
        BY ONLY <3>1, M \in Nat, g \in Int
      <4> PICK x \in Int, y \in Int : x = M * g /\ y = M * M
        OBVIOUS
      <4> QED
        BY <3>1, <4>1
    <3>2. CASE ~(g >= M)
      <4>1. M * g <= M * M - M
        <5>1. M * g <= M * (M - 1)
          BY ONLY <3>2, M \in Nat, g \in Int
        <5>2. M * (M - 1) = M * M - M
          BY ONLY M \in Nat
        <5> QED
          BY <5>1, <5>2
      <4> PICK x \in Int, y \in Int : x = M * g /\ y = M * M
        OBVIOUS
      <4>2. x <= y - M /\ r < M
        BY <4>1
      <4>3. ~(x + r >= y)
        BY ONLY <4>2, x \in Int, y \in Int, r \in 0..(M - 1), M \in Nat
      <4> QED
        BY <3>2, <4>3
    <3> QED
      BY <3>1, <3>2
  <2>7. t[1] + Cof(1) + ((t[0] + Cof(0)) \div M1) = g
    OBVIOUS
  <2>8. Worth(t)[2] + Worth(CLimbs)[2] = M * g + r /\ Weight(2) = M * M
    BY <2>2, <2>3, <2>4, <2>5
  <2> QED
    BY <1>3, <2>6, <2>7, <2>8
<1> QED
  BY <1>0, <1>2, <1>3

\* For limbs below the power of two, AtLeastP compares their number with the prime.
LEMMA AtLeastPRight ==
    ASSUME LimbsFit, NEW t \in [Index -> Nat], \A i \in Index : t[i] <= Mask(i)
    PROVE  AtLeastP(t) <=> Value(t) >= Prime
<1> DEFINE k == Len(C)
<1>0. L \in Nat /\ L >= 5 /\ Index = 0..(L - 1) /\ k \in {1, 2} /\ t \in [Index -> Int]
      /\ k \in 0..(L - 1) /\ k \in 0..L /\ k \in Nat /\ L \in 0..L
  <2>1. L \in Nat /\ L >= 5 /\ Len(C) \in Nat /\ Len(C) >= 1 /\ Len(C) <= 2
    BY ONLY LimbsFit, Sizes
  <2>3. Index = 0..(L - 1) /\ t \in [Index -> Int]
    BY DEF Index
  <2>2. k = Len(C)
    OBVIOUS
  <2> HIDE DEF k
  <2> QED
    BY <2>1, <2>2, <2>3
<1> HIDE DEF k
<1>1. PICK f \in [Index -> Int] : f = [i \in Index |-> Mask(i)] /\ \A i \in Index : f[i] = Mask(i)
  <2>1. [i \in Index |-> Mask(i)] \in [Index -> Int]
    BY LimbSizes
  <2> QED
    BY <2>1, Zenon
<1> PICK p \in Int, q \in Int : p = 1 /\ q = -1
  OBVIOUS
<1>2. PICK u \in [Index -> Nat] :
          u = [i \in Index |-> p * f[i] + q * t[i]] /\ \A i \in Index : u[i] = Mask(i) - t[i]
  <2>1. ASSUME NEW i \in Index
        PROVE  p * f[i] + q * t[i] = Mask(i) - t[i] /\ Mask(i) - t[i] \in Nat
    <3>1. Mask(i) \in Nat /\ t[i] \in Nat /\ t[i] <= Mask(i) /\ f[i] = Mask(i)
      BY <1>1, LimbSizes
    <3> QED
      BY <3>1
  <2> DEFINE u == [i \in Index |-> p * f[i] + q * t[i]]
  <2>2. u \in [Index -> Nat]
    BY <2>1
  <2>3. \A i \in Index : u[i] = Mask(i) - t[i]
    BY <2>1
  <2> QED
    BY <2>2, <2>3, Zenon
<1>3. \A j \in 0..L : Worth(u)[j] = p * Worth(f)[j] + q * Worth(t)[j]
  <2>1. \A j \in 0..L : Worth([i \in Index |-> p * f[i] + q * t[i]])[j] = p * Worth(f)[j] + q * Worth(t)[j]
    BY ONLY LimbsFit, f \in [Index -> Int], t \in [Index -> Int], <1>0, p \in Int, q \in Int, WorthLinear, ZenonT(60)
  <2> QED
    BY <1>2, <2>1
<1>4. Worth(f)[L] = Power - 1 /\ Worth(f)[k] = Weight(k) - 1
  BY <1>0, <1>1, MaskValue, Zenon DEF Value
<1> PICK v \in Int, w \in Nat, y \in Int, P \in Nat, A \in Nat, c \in Nat :
        v = Value(t) /\ w = Weight(k) /\ y = Worth(t)[k] /\ P = Prime /\ A = Power /\ c = Value(CLimbs)
  <2>1. Worth(t)[k] \in Int /\ Worth(t)[L] \in Int
    BY <1>0, WorthSteps, Zenon
  <2>2. Weight(k) \in Nat
    BY <1>0, Weights, Zenon
  <2>3. Value(t) \in Int
    BY <2>1 DEF Value
  <2> QED
    BY <2>1, <2>2, <2>3, PrimeSize, Zenon
<1>5. A = P + c /\ Worth(CLimbs)[k] = c /\ c <= w - 1
  BY PrimeSize, Zenon DEF k
<1>6. Value(u) = (A - 1) - v /\ Worth(u)[k] = (w - 1) - y
  <2>1. Worth(u)[L] = p * Worth(f)[L] + q * Worth(t)[L]
    BY <1>0, <1>3
  <2>2. Worth(u)[k] = p * Worth(f)[k] + q * Worth(t)[k]
    BY <1>0, <1>3
  <2>3. v = Worth(t)[L] /\ Value(u) = Worth(u)[L]
    BY DEF Value
  <2> QED
    BY <1>4, <2>1, <2>2, <2>3
<1>7. AtLeastP(t) <=> (\A i \in k..(L - 1) : t[i] = Mask(i)) /\ y + c >= w
  <2>1. (IF k = 1 THEN t[0] + Cof(0) ELSE t[1] + Cof(1) + ((t[0] + Cof(0)) \div M1)) >= M1 <=> y + c >= w
    BY <1>5, OverWorth, Zenon DEF k
  <2> QED
    BY <2>1, OverSteps, Zenon DEF k
<1>8. ASSUME \A i \in k..(L - 1) : t[i] = Mask(i)
      PROVE  Value(u) = Worth(u)[k]
  <2>1. ASSUME NEW i \in Index, i >= k
        PROVE  u[i] = 0
    <3>1. Mask(i) \in Nat
      BY LimbSizes
    <3>4. i \in k..(L - 1)
      BY <1>0, <2>1
    <3>2. t[i] = Mask(i)
      BY <1>8, <3>4
    <3>3. u[i] = Mask(i) - t[i]
      BY <1>2
    <3> QED
      BY <3>1, <3>2, <3>3
  <2>2. u \in [Index -> Int]
    OBVIOUS
  <2> QED
    BY <1>0, <2>1, <2>2, WorthZeros, Zenon
<1>9. ASSUME AtLeastP(t)
      PROVE  Value(t) >= Prime
  <2>1. (A - 1) - v = (w - 1) - y /\ y + c >= w
    BY <1>6, <1>7, <1>8, <1>9
  <2> QED
    BY ONLY <2>1, <1>5, v \in Int, w \in Nat, y \in Int, P \in Nat, A \in Nat, c \in Nat, v = Value(t), P = Prime
<1>10. ASSUME Value(t) >= Prime
       PROVE  AtLeastP(t)
  <2>1. Value(u) <= c - 1
    <3>1. v >= P
      BY <1>10
    <3> QED
      BY <1>5, <1>6, <3>1
  <2>2. ASSUME NEW i \in k..(L - 1), t[i] # Mask(i)
        PROVE  FALSE
    <3>1. i \in Index /\ i \in Nat /\ i \in 0..L /\ i + 1 \in 0..L /\ i >= k
      BY <1>0
    <3>2. u[i] \in Nat /\ u[i] >= 1
      <4>1. u[i] = Mask(i) - t[i] /\ u[i] \in Nat /\ Mask(i) \in Nat /\ t[i] \in Nat
        BY <1>2, <3>1, LimbSizes
      <4> QED
        BY <2>2, <4>1
    <3>3. Worth(u)[i + 1] = Worth(u)[i] + u[i] * Weight(i)
      <4>1. u \in [Index -> Int]
        OBVIOUS
      <4> QED
        BY <3>1, <4>1, WorthSteps, Zenon
    <3>4. Worth(u)[0] = 0 /\ Worth(u)[i] \in Int /\ Worth(u)[L] \in Int
      <4>1. u \in [Index -> Int]
        OBVIOUS
      <4> QED
        BY <1>0, <3>1, <4>1, WorthSteps, Zenon
    <3>5. Worth(u)[0] <= Worth(u)[i] /\ Worth(u)[i + 1] <= Worth(u)[L]
      <4>1. 0 \in 0..L /\ i >= 0 /\ L >= i + 1
        BY <1>0, <3>1
      <4>2. Worth(u)[0] <= Worth(u)[i]
        BY <3>1, <4>1, WorthGrows
      <4>3. Worth(u)[i + 1] <= Worth(u)[L]
        BY <1>0, <3>1, <4>1, WorthGrows, Zenon
      <4> QED
        BY <4>2, <4>3
    <3>6. Weight(i) >= w /\ Weight(i) \in Nat
      BY <1>0, <3>1, WeightGrows, Weights, Zenon
    <3> PICK d \in Nat, x \in Nat : d = u[i] /\ x = Weight(i)
      BY <3>2, <3>6
    <3>7. d >= 1 /\ x >= w
      BY <3>2, <3>6
    <3>8. d * x >= x
      BY ONLY <3>7, d \in Nat, x \in Nat
    <3> PICK z \in Nat, s \in Int, W \in Int : z = d * x /\ s = Worth(u)[i] /\ W = Worth(u)[L]
      BY <3>4
    <3>9. s >= 0 /\ s + z <= W /\ z >= x /\ W <= c - 1
      BY <2>1, <3>3, <3>4, <3>5, <3>8 DEF Value
    <3> QED
      BY ONLY <1>5, <3>7, <3>9, s \in Int, W \in Int, z \in Nat, c \in Nat, w \in Nat, x \in Nat
  <2>3. \A i \in k..(L - 1) : t[i] = Mask(i)
    BY <2>2
  <2>4. (w - 1) - y <= c - 1
    BY <1>6, <1>8, <2>1, <2>3
  <2>5. y + c >= w
    BY ONLY <2>4, w \in Nat, y \in Int, c \in Nat
  <2> QED
    BY <1>7, <2>3, <2>5
<1> QED
  BY <1>9, <1>10

-----------------------------------------------------------------------------
(* Normal forms.                                                           *)

\* Leaving multiples of the power of two out of the highest limb.
LEMMA ValueTopOff ==
    ASSUME LimbsFit, NEW n \in [Index -> Nat], NEW b \in [Index -> Nat], NEW x \in Int,
           \A i \in Index : i # L - 1 => b[i] = n[i],
           b[L - 1] = n[L - 1] - x * Top1
    PROVE  Value(b) = Value(n) - x * Power
<1>0. L \in Nat /\ L >= 5 /\ Index = 0..(L - 1) /\ Top1 \in Nat
      /\ L - 1 \in Index /\ L - 1 \in 0..L /\ (L - 1) + 1 = L /\ L - 1 \in Nat
  <2>1. L \in Nat /\ L >= 5 /\ Index = 0..(L - 1) /\ Top1 \in Nat
    BY Sizes DEF Index
  <2> QED
    BY <2>1
<1>1. n \in [Index -> Int] /\ b \in [Index -> Int] /\ \A i \in Index : i < L - 1 => b[i] = n[i]
  BY <1>0
<1>2. Worth(b)[L - 1] = Worth(n)[L - 1]
  BY <1>0, <1>1, WorthSame, Zenon
<1>3. Worth(n)[L] = Worth(n)[L - 1] + n[L - 1] * Weight(L - 1)
      /\ Worth(b)[L] = Worth(b)[L - 1] + b[L - 1] * Weight(L - 1)
  BY <1>0, <1>1, WorthSteps, Zenon
<1> PICK u \in Int, w \in Nat, d \in Nat, T \in Nat :
        u = Worth(n)[L - 1] /\ w = Weight(L - 1) /\ d = n[L - 1] /\ T = Top1
  <2>1. Worth(n)[L - 1] \in Int
    BY <1>0, <1>1, WorthSteps, Zenon
  <2>2. Weight(L - 1) \in Nat
    BY <1>0, Weights
  <2> QED
    BY <1>0, <2>1, <2>2
<1>4. u + (d - x * T) * w = (u + d * w) - x * (T * w)
  BY ONLY u \in Int, w \in Nat, d \in Nat, T \in Nat, x \in Int
<1> QED
  BY <1>2, <1>3, <1>4 DEF Value, Power

\* What the first pass leaves of limbs that are not above the largest magnitude:
\* a number that differs by a multiple of the prime and is below two primes, in
\* limbs of which only the highest may be larger than its share.
LEMMA FirstPassRight ==
    ASSUME LimbsFit, NEW n \in [Index -> Nat], \A i \in Index : n[i] <= 2 * (MaxMagnitude - 1) * Mask(i)
    PROVE  /\ FirstPass(n) \in [Index -> Nat]
           /\ \A i \in Index : i # L - 1 => FirstPass(n)[i] \in 0..(M1 - 1)
           /\ 2 * FirstPass(n)[L - 1] <= 3 * Top1
           /\ n[L - 1] \div Top1 \in Nat
           /\ Value(FirstPass(n)) = Value(n) - (n[L - 1] \div Top1) * Prime
           /\ FirstPass(n)[0] = (n[0] + (n[L - 1] \div Top1) * Cof(0)) % M1
<1> PICK M \in Nat, T \in Nat, G \in Nat :
        M = M1 /\ T = Top1 /\ G = MaxMagnitude /\ M >= 8 /\ T >= 8 /\ T <= M /\ G >= 1 /\ 8 * G <= T
  <2>1. M1 \in Nat /\ Top1 \in Nat /\ MaxMagnitude \in Nat /\ M1 >= 8
    BY Sizes
  <2> QED
    BY <2>1, Sizes, Zenon
<1>0. L \in Nat /\ L >= 5 /\ Index = 0..(L - 1) /\ L - 1 \in Index /\ 0 \in Index /\ 0 # L - 1
  <2>1. L \in Nat /\ L >= 5 /\ Index = 0..(L - 1)
    BY Sizes DEF Index
  <2> QED
    BY <2>1
<1> PICK top \in Nat : top = n[L - 1]
  BY <1>0
<1>1. top <= 2 * G * (T - 1)
  <2>1. top <= 2 * (G - 1) * (T - 1)
    BY <1>0, LimbSizes
  <2>2. 2 * (G - 1) * (T - 1) = 2 * G * (T - 1) - 2 * (T - 1)
    BY ONLY T \in Nat, G \in Nat
  <2> PICK y \in Int : y = 2 * G * (T - 1)
    OBVIOUS
  <2> QED
    BY <2>1, <2>2
<1> PICK x \in Nat, r \in Nat : x = top \div T /\ r = top % T /\ x <= 2 * G - 1 /\ r <= T - 1 /\ r = top - x * T
  <2>1. top < T * ((2 * G - 1) + 1)
    <3>1. T * ((2 * G - 1) + 1) = 2 * G * T /\ 2 * G * (T - 1) = 2 * G * T - 2 * G
      BY ONLY T \in Nat, G \in Nat
    <3> PICK z \in Int : z = 2 * G * T
      OBVIOUS
    <3> QED
      BY <1>1, <3>1
  <2>2. 2 * G - 1 \in Int /\ T >= 1
    OBVIOUS
  <2> PICK K \in Int : K = 2 * G - 1
    BY <2>2
  <2>3. top < T * (K + 1)
    BY <2>1
  <2>4. top \div T \in Nat /\ top \div T <= K
    BY ONLY T \in Nat, <2>2, top \in Nat, K \in Int, <2>3, DivBound
  <2>5. (top % T) \in 0..(T - 1) /\ top = T * (top \div T) + (top % T)
    BY ONLY T \in Nat, <2>2, top \in Nat, Division
  <2> PICK x \in Nat, r \in Nat : x = top \div T /\ r = top % T
    BY <2>4, <2>5
  <2>6. top = T * x + r /\ r <= T - 1
    BY <2>5
  <2>7. T * x = x * T
    BY ONLY T \in Nat, x \in Nat
  <2> QED
    BY <2>4, <2>6, <2>7
<1> PICK b \in [Index -> Nat] :
        b = [n EXCEPT ![L - 1] = @ % Top1] /\ b[L - 1] = r /\ \A i \in Index : i # L - 1 => b[i] = n[i]
  <2> DEFINE b == [n EXCEPT ![L - 1] = @ % Top1]
  <2>1. b[L - 1] = r /\ \A i \in Index : i # L - 1 => b[i] = n[i]
    BY <1>0
  <2>2. b = [i \in Index |-> b[i]]
    BY Zenon
  <2>3. \A i \in Index : b[i] \in Nat
    BY <2>1
  <2> HIDE DEF b
  <2>4. b \in [Index -> Nat]
    BY <2>2, <2>3
  <2> QED
    BY <2>1, <2>4, Zenon DEF b
<1>2. FirstPass(n) = Pass(b, x)
  BY DEF FirstPass
<1> PICK K \in Nat : K = 2 * G + 2
  OBVIOUS
<1>3. ASSUME NEW i \in Index, i # L - 1
      PROVE  b[i] + x * Cof(i) + K < M1 * (K + 1) /\ b[i] + x * Cof(i) + K < 2^Word
  <2> PICK c \in Nat, d \in Nat : c = Cof(i) /\ d = n[i]
    BY LimbSizes, Zenon
  <2>1. c * (G + 1) < M /\ d <= 2 * (G - 1) * (M - 1)
    <3>1. Mask(i) = M1 - 1
      BY <1>3, LimbSizes
    <3> QED
      BY <3>1, LimbSizes
  <2>2. x * c <= 2 * (c * (G + 1)) - 3 * c
    <3>1. x <= 2 * (G + 1) - 3
      OBVIOUS
    <3>2. x * c <= (2 * (G + 1) - 3) * c
      BY ONLY <3>1, x \in Nat, c \in Nat, G \in Nat
    <3>3. (2 * (G + 1) - 3) * c = 2 * (c * (G + 1)) - 3 * c
      BY ONLY c \in Nat, G \in Nat
    <3> QED
      BY <3>2, <3>3
  <2>3. 2 * (G - 1) * (M - 1) = 2 * (G * M) - 2 * G - 2 * M + 2 /\ M * (K + 1) = 2 * (G * M) + 3 * M
        /\ 2 * G * M = 2 * (G * M)
    BY ONLY M \in Nat, G \in Nat, K \in Nat, K = 2 * G + 2
  <2> PICK z \in Int, v \in Int, s \in Int : z = x * c /\ v = c * (G + 1) /\ s = G * M
    OBVIOUS
  <2>4. z <= 2 * v - 3 * c /\ v < M /\ d <= 2 * s - 2 * G - 2 * M + 2 /\ (c = 0 => z = 0)
    <3>1. c = 0 => x * c = 0
      BY ONLY c \in Nat, x \in Nat
    <3> QED
      BY <2>1, <2>2, <2>3, <3>1
  <2>5. d + z + K < 2 * s /\ d + z + K < 2 * s + 3 * M
    BY ONLY <2>4, z \in Int, v \in Int, s \in Int, d \in Nat, c \in Nat, K \in Nat, K = 2 * G + 2, G \in Nat,
            M \in Nat, M >= 8
  <2>6. 2 * s <= 2^Word /\ 2^Word \in Nat
    <3>1. 2 * MaxMagnitude * M1 <= 2^Word /\ 2^Word \in Nat
      BY WordRoom
    <3>2. 2 * MaxMagnitude * M1 = 2 * G * M
      OBVIOUS
    <3> QED
      BY <2>3, <3>1, <3>2
  <2>7. b[i] + x * Cof(i) + K = d + z + K
    BY <1>3
  <2> QED
    BY <2>3, <2>5, <2>6, <2>7
<1>11. b[L - 1] + x * Cof(L - 1) + K < 2^Word
  <2>1. Cof(L - 1) = 0 /\ x * 0 = 0
    BY <1>0, LimbSizes
  <2>2. 2 * M <= 2^Word /\ 2^Word \in Nat
    BY WordRoom
  <2>3. r + 0 + K < 2 * M
    OBVIOUS
  <2> QED
    BY <2>1, <2>2, <2>3
<1>12. Carries(b, x, K)
  <2>1. \A i \in Index : b[i] + x * Cof(i) + K < 2^Word
    BY <1>3, <1>11, Zenon
  <2>2. \A i \in Index : i # L - 1 => b[i] + x * Cof(i) + K < M1 * (K + 1)
    BY <1>3, Zenon
  <2> QED
    BY <2>1, <2>2, Zenon DEF Carries
<1>4. Pass(b, x) \in [Index -> Nat] /\ b[L - 1] <= Pass(b, x)[L - 1] /\ Pass(b, x)[L - 1] <= b[L - 1] + K
  BY <1>12, PassCarry, Zenon
<1>5. 2 * FirstPass(n)[L - 1] <= 3 * Top1
  <2> PICK s \in Nat : s = Pass(b, x)[L - 1]
    BY <1>0, <1>4, Zenon
  <2>1. s <= r + K
    BY <1>4
  <2>2. 2 * s <= 3 * T
    BY <2>1
  <2> QED
    BY <1>2, <2>2
<1>6. b \in [Index -> Int] /\ x \in Int
  OBVIOUS
<1>7. (\A i \in Index : i # L - 1 => Pass(b, x)[i] \in 0..(M1 - 1))
      /\ Value(Pass(b, x)) = Value(b) + x * Value(CLimbs)
  BY <1>6, <1>12, PassValue, Zenon
<1>8. Value(b) = Value(n) - x * Power
  <2>1. b[L - 1] = n[L - 1] - x * Top1
    OBVIOUS
  <2> QED
    BY <1>6, <2>1, ValueTopOff, ZenonT(60)
<1>9. Value(FirstPass(n)) = Value(n) - x * Prime
  <2> PICK v \in Int, A \in Nat, P \in Nat, c \in Nat :
          v = Value(n) /\ A = Power /\ P = Prime /\ c = Value(CLimbs) /\ A = P + c
    <3>1. n \in [Index -> Int] /\ L \in 0..L
      BY <1>0
    <3>2. Value(n) \in Int
      BY <3>1, WorthSteps, Zenon DEF Value
    <3> QED
      BY <3>2, PrimeSize, ZenonT(20)
  <2>1. (v - x * A) + x * c = v - x * P
    BY ONLY v \in Int, A \in Nat, P \in Nat, c \in Nat, x \in Nat, A = P + c
  <2> QED
    BY <1>2, <1>7, <1>8, <2>1
<1>10. FirstPass(n)[0] = (n[0] + (n[L - 1] \div Top1) * Cof(0)) % M1
  <2>1. Pass(b, x)[0] = (b[0] + x * Cof(0)) % M1
    BY <1>6, <1>12, PassValue, Zenon
  <2> QED
    BY <1>0, <1>2, <2>1
<1> QED
  BY <1>2, <1>4, <1>5, <1>7, <1>9, <1>10, Zenon

\* Limbs without a carry whose number is below the next multiple of the power of
\* two have that multiple in the highest limb.
LEMMA TopRange ==
    ASSUME LimbsFit, NEW s \in [Index -> Int], \A i \in Index : i # L - 1 => s[i] \in 0..(M1 - 1),
           NEW x \in Nat, x * Power <= Value(s), Value(s) < (x + 1) * Power
    PROVE  /\ s[L - 1] \div Top1 = x /\ s[L - 1] % Top1 = s[L - 1] - x * Top1
           /\ s[L - 1] - x * Top1 \in 0..(Top1 - 1)
<1> PICK w \in Nat, T \in Nat, d \in Int, v \in Int :
        w = Weight(L - 1) /\ T = Top1 /\ d = s[L - 1] /\ v = Value(s) /\ w >= 1 /\ T >= 8
  <2>1. L - 1 \in Index
    BY Sizes DEF Index
  <2>2. Weight(L - 1) \in Nat /\ Weight(L - 1) >= 1 /\ Value(s) \in Int
    BY ValueTop
  <2>3. Top1 \in Nat /\ Top1 >= 8 /\ s[L - 1] \in Int
    BY <2>1, Sizes
  <2> QED
    BY <2>2, <2>3
<1>1. Worth(s)[L - 1] \in 0..(w - 1) /\ v = w * d + Worth(s)[L - 1]
  BY ValueTop
<1> PICK l \in 0..(w - 1) : v = w * d + l
  BY <1>1
<1>2. x * (T * w) <= w * d + l /\ w * d + l < (x + 1) * (T * w)
  BY DEF Power
<1> PICK g \in Int : g = d - x * T
  OBVIOUS
<1>3. w * g + l >= 0 /\ w * g + l < w * T
  <2>1. w * g = w * d - x * (T * w) /\ (x + 1) * (T * w) = x * (T * w) + w * T
    BY ONLY w \in Nat, T \in Nat, x \in Nat, d \in Int, g \in Int, g = d - x * T
  <2> PICK p \in Int, q \in Int, m \in Int, o \in Int :
          p = w * g /\ q = w * d /\ m = x * (T * w) /\ o = w * T
    <3>1. w * g \in Int /\ w * d \in Int /\ x * (T * w) \in Int /\ w * T \in Int
      BY ONLY w \in Nat, T \in Nat, x \in Nat, d \in Int, g \in Int
    <3> QED
      BY <3>1, Zenon
  <2>2. m <= q + l /\ q + l < m + o /\ p = q - m
    BY <1>2, <2>1
  <2>3. p + l >= 0 /\ p + l < o
    BY ONLY <2>2, p \in Int, q \in Int, m \in Int, o \in Int, l \in 0..(w - 1), w \in Nat
  <2> QED
    BY <2>3
<1>4. g >= 0 /\ g <= T - 1
  <2> PICK y \in Int, K \in Int : y = w * g + l /\ K = T - 1
    OBVIOUS
  <2>1. y >= 0 /\ y < w * (K + 1)
    BY <1>3
  <2>2. y \div w \in Nat /\ y \div w <= K
    BY ONLY w \in Nat, w >= 1, y \in Int, K \in Int, <2>1, DivBound
  <2>3. y \div w = g
    BY ONLY w \in Nat, w >= 1, g \in Int, l \in 0..(w - 1), y \in Int, y = w * g + l, DivisionUnique
  <2> QED
    BY <2>2, <2>3
<1>5. d = T * x + g
  <2>1. x * T = T * x
    BY ONLY x \in Nat, T \in Nat
  <2> QED
    BY <2>1
<1>6. T >= 1 /\ x \in Int /\ g \in 0..(T - 1)
  BY <1>4
<1>7. d \div T = x /\ (d % T) = g
  BY ONLY T \in Nat, x \in Int, d \in Int, <1>5, <1>6, DivisionUnique
<1> QED
  BY <1>6, <1>7

\* A pass that has nothing to add and nothing to carry changes nothing.
LEMMA PassNothing ==
    ASSUME LimbsFit, NEW t \in [Index -> Nat], \A i \in Index : i # L - 1 => t[i] \in 0..(M1 - 1),
           t[L - 1] < 2 * Top1
    PROVE  Pass(t, 0) = t
<1> PICK x \in Nat, K \in Nat : x = 0 /\ K = 0
  OBVIOUS
<1>1. Carries(t, x, K)
  <2>0. M1 \in Nat /\ Top1 \in Nat /\ Top1 <= M1 /\ 2^Word \in Nat /\ 2 * M1 <= 2^Word
    BY WordRoom, Sizes
  <2>1. ASSUME NEW i \in Index
        PROVE  t[i] + x * Cof(i) + K = t[i] /\ t[i] \in Nat
    <3>1. Cof(i) \in Nat /\ 0 * Cof(i) = 0
      BY LimbSizes
    <3> QED
      BY <3>1
  <2>2. \A i \in Index : i # L - 1 => t[i] < M1 * (K + 1)
    BY <2>0
  <2>3. \A i \in Index : t[i] < 2^Word
    <3> TAKE i \in Index
    <3>1. CASE i = L - 1
      BY <2>0, <2>1, <3>1
    <3>2. CASE i # L - 1
      BY <2>0, <2>1, <3>2
    <3> QED
      BY <3>1, <3>2
  <2> QED
    BY <2>1, <2>2, <2>3, Zenon DEF Carries
<1>2. Pass(t, x) \in [Index -> Nat]
  BY <1>1, PassCarry
<1>3. t \in [Index -> Int] /\ x \in Int
  OBVIOUS
<1>4. (\A i \in Index : i # L - 1 => Pass(t, x)[i] \in 0..(M1 - 1))
      /\ Value(Pass(t, x)) = Value(t) + x * Value(CLimbs)
  BY <1>1, <1>3, PassValue, Zenon
<1>5. Value(Pass(t, x)) = Value(t)
  <2>1. Value(t) \in Int
    BY <1>3, ValueTop
  <2>2. Value(CLimbs) \in Nat
    BY PrimeSize
  <2> QED
    BY <1>4, <2>1, <2>2
<1>6. Pass(t, x) = t
  BY <1>2, <1>4, <1>5, ValueUnique
<1> QED
  BY <1>6

\* What is left after the first pass is not negative and below two primes.
LEMMA FirstPassSize ==
    ASSUME LimbsFit, NEW t \in [Index -> Nat], \A i \in Index : i # L - 1 => t[i] \in 0..(M1 - 1),
           2 * t[L - 1] <= 3 * Top1
    PROVE  Value(t) \in Nat /\ Value(t) < 2 * Prime
<1>0. L - 1 \in Index /\ t \in [Index -> Int] /\ Top1 \in Nat
  BY Sizes DEF Index
<1>1. Value(t) \in Int /\ Worth(t)[L - 1] \in 0..(Weight(L - 1) - 1)
      /\ Value(t) = Weight(L - 1) * t[L - 1] + Worth(t)[L - 1]
  BY <1>0, ValueTop
<1> PICK w \in Nat, T \in Nat, d \in Nat, v \in Int, A \in Nat, P \in Nat, c \in Nat, l \in Nat :
        w = Weight(L - 1) /\ T = Top1 /\ d = t[L - 1] /\ v = Value(t) /\ A = Power /\ P = Prime
        /\ c = Value(CLimbs) /\ A = P + c /\ c <= w - 1 /\ 8 * w <= A /\ l = Worth(t)[L - 1] /\ l <= w - 1
  <2>1. Worth(t)[L - 1] \in Nat /\ Worth(t)[L - 1] <= Weight(L - 1) - 1
    BY <1>1, PrimeSize
  <2> QED
    BY <1>0, <1>1, <2>1, PrimeSize, Zenon
<1>2. v = w * d + l /\ A = T * w
  BY <1>1 DEF Power
<1>3. w * (2 * d) <= w * (3 * T) /\ w * (2 * d) = 2 * (w * d) /\ w * (3 * T) = 3 * (T * w) /\ w * d >= 0
  <2>1. 2 * d <= 3 * T
    OBVIOUS
  <2> QED
    BY ONLY <2>1, w \in Nat, d \in Nat, T \in Nat
<1> PICK z \in Int : z = w * d
  OBVIOUS
<1>4. v = z + l /\ 2 * z <= 3 * A /\ z >= 0 /\ A = P + c /\ c <= w - 1 /\ 8 * w <= A /\ l <= w - 1
  BY <1>2, <1>3
<1>5. v \in Nat /\ v < 2 * P
  BY ONLY <1>4, v \in Int, z \in Int, A \in Nat, P \in Nat, c \in Nat, w \in Nat, l \in Nat
<1> QED
  BY <1>5

\* What an operation has to return to return an element.
LEMMA ElementFe ==
    ASSUME LimbsFit, NEW n \in [Index -> Nat], NEW m \in 0..MaxMagnitude, NEW normalized \in BOOLEAN,
           NEW ok \in BOOLEAN, ok,
           \A i \in Index : n[i] <= 2 * m * Mask(i),
           normalized => m = 1 /\ (\A i \in Index : n[i] <= Mask(i)) /\ Value(n) < Prime
    PROVE  Element(Fe(n, m, normalized, ok))
<1> DEFINE e == Fe(n, m, normalized, ok)
<1>0. L \in Nat /\ MaxMagnitude \in Nat
  BY Sizes
<1>1. e.n = n /\ e.magnitude = m /\ e.normalized = normalized /\ e.ok = (ok /\ fe_verify(n, m, normalized))
  <2> HIDE DEF fe_verify
  <2> QED
    BY Zenon DEF Fe
<1>2. \A i \in Index : Mask(i) \in Nat
  BY LimbSizes
<1>3. fe_verify(n, m, normalized)
  <2>1. CASE normalized
    <3>1. ~AtLeastP(n)
      <4>1. \A i \in Index : n[i] <= Mask(i)
        BY <2>1
      <4>2. AtLeastP(n) <=> Value(n) >= Prime
        BY <4>1, AtLeastPRight
      <4>3. Value(n) \in Int /\ Prime \in Nat
        <5>1. n \in [Index -> Int] /\ L \in 0..L
          BY <1>0
        <5> QED
          BY <5>1, WorthSteps, PrimeSize, Zenon DEF Value
      <4> QED
        BY <2>1, <4>2, <4>3
    <3>2. ASSUME NEW i \in Index
          PROVE  n[i] \in 0..(1 * Mask(i))
      BY <1>2, <2>1
    <3> QED
      BY <2>1, <3>1, <3>2 DEF fe_verify
  <2>2. CASE ~normalized
    <3>1. ASSUME NEW i \in Index
          PROVE  n[i] \in 0..((2 * m) * Mask(i))
      <4> PICK k \in Nat, d \in Nat : k = Mask(i) /\ d = n[i]
        BY <1>2
      <4>1. (2 * m) * k \in Nat /\ d <= (2 * m) * k
        <5>1. m \in Nat
          BY <1>0
        <5>2. (2 * m) * k \in Nat
          BY ONLY <5>1, k \in Nat
        <5> QED
          BY <5>2
      <4> QED
        BY <4>1
    <3> QED
      BY <2>2, <3>1 DEF fe_verify
  <2> QED
    BY <2>1, <2>2
<1> HIDE DEF e
<1>4. Element(e)
  BY <1>1, <1>3, Zenon DEF Element
<1> QED
  BY <1>4, Zenon DEF e

\* The limbs of an element are no larger than those of the largest magnitude.
LEMMA ElementSize ==
    ASSUME LimbsFit, NEW e, Element(e)
    PROVE  /\ e.n \in [Index -> Nat] /\ e.magnitude \in 0..MaxMagnitude /\ e.normalized \in BOOLEAN
           /\ e.ok = TRUE
           /\ \A i \in Index : e.n[i] <= 2 * MaxMagnitude * Mask(i)
           /\ e.normalized => \A i \in Index : e.n[i] <= Mask(i)
<1>1. e.n \in [Index -> Nat] /\ e.magnitude \in 0..MaxMagnitude /\ e.normalized \in BOOLEAN
  BY DEF Element, fe_verify
<1>2. ASSUME NEW i \in Index
      PROVE  e.n[i] <= 2 * MaxMagnitude * Mask(i)
  <2> PICK k \in Nat, d \in Nat, G \in Nat, m \in Nat :
          k = Mask(i) /\ d = e.n[i] /\ G = MaxMagnitude /\ m = e.magnitude /\ m <= G
    <3>1. Mask(i) \in Nat
      BY LimbSizes
    <3>2. MaxMagnitude \in Nat
      BY Sizes
    <3>3. e.n[i] \in Nat /\ e.magnitude \in Nat /\ e.magnitude <= MaxMagnitude
      BY <1>1, <3>2
    <3> QED
      BY <3>1, <3>2, <3>3
  <2>1. d <= 2 * m * k
    BY DEF Element
  <2>2. 2 * m * k <= 2 * G * k
    BY ONLY m \in Nat, G \in Nat, k \in Nat, m <= G
  <2> PICK x \in Int, y \in Int : x = 2 * m * k /\ y = 2 * G * k
    OBVIOUS
  <2>3. d <= y
    BY <2>1, <2>2
  <2> QED
    BY <2>3
<1>3. ASSUME e.normalized, NEW i \in Index
      PROVE  e.n[i] <= Mask(i)
  <2>1. Mask(i) \in Nat
    BY LimbSizes
  <2>2. e.n[i] \in 0..(1 * Mask(i))
    BY <1>3 DEF Element, fe_verify
  <2> QED
    BY <2>1, <2>2
<1>4. e.ok = TRUE
  BY DEF Element, fe_verify
<1> QED
  BY <1>1, <1>2, <1>3, <1>4

\* The first pass of an element, in the terms of the theorems below.
LEMMA ElementPass ==
    ASSUME LimbsFit, NEW a, Element(a), a.magnitude < MaxMagnitude
    PROVE  \E t \in [Index -> Nat], q \in Nat :
               /\ t = FirstPass(a.n) /\ q = a.n[L - 1] \div Top1
               /\ \A i \in Index : i # L - 1 => t[i] \in 0..(M1 - 1)
               /\ t[L - 1] \in Nat /\ 2 * t[L - 1] <= 3 * Top1 /\ SingleCarry(t)
               /\ Value(t) \in Nat /\ Value(t) < 2 * Prime
               /\ Value(t) = Value(a.n) - q * Prime
               /\ t[0] = (a.n[0] + q * Cof(0)) % M1
               /\ Value(a.n) \in Int /\ Value(t) = (Value(t) % Prime) + (IF Value(t) >= Prime THEN Prime ELSE 0)
               /\ (Value(t) % Prime) = (Value(a.n) % Prime)
<1>1. a.n \in [Index -> Nat] /\ a.magnitude \in 0..MaxMagnitude
  BY ElementSize, Zenon
<1> PICK n \in [Index -> Nat] : n = a.n
  BY <1>1
<1>2. \A i \in Index : n[i] <= 2 * (MaxMagnitude - 1) * Mask(i)
  <2> TAKE i \in Index
  <2> PICK k \in Nat, d \in Nat, g \in Nat, m \in Nat :
          k = Mask(i) /\ d = n[i] /\ g = MaxMagnitude - 1 /\ m = a.magnitude /\ m <= g
    <3>1. Mask(i) \in Nat
      BY LimbSizes
    <3>2. MaxMagnitude \in Nat /\ MaxMagnitude >= 1
      BY Sizes
    <3>3. MaxMagnitude - 1 \in Nat /\ a.magnitude \in Nat /\ a.magnitude <= MaxMagnitude - 1
      BY <1>1, <3>2
    <3> QED
      BY <3>1, <3>3
  <2>1. d <= 2 * m * k
    BY DEF Element
  <2>2. 2 * m * k <= 2 * g * k
    BY ONLY m \in Nat, g \in Nat, k \in Nat, m <= g
  <2> PICK x \in Int, y \in Int : x = 2 * m * k /\ y = 2 * g * k
    OBVIOUS
  <2>3. d <= y
    BY <2>1, <2>2
  <2> QED
    BY <2>3
<1>3. /\ FirstPass(n) \in [Index -> Nat]
      /\ \A i \in Index : i # L - 1 => FirstPass(n)[i] \in 0..(M1 - 1)
      /\ 2 * FirstPass(n)[L - 1] <= 3 * Top1
      /\ n[L - 1] \div Top1 \in Nat
      /\ Value(FirstPass(n)) = Value(n) - (n[L - 1] \div Top1) * Prime
      /\ FirstPass(n)[0] = (n[0] + (n[L - 1] \div Top1) * Cof(0)) % M1
  BY <1>2, FirstPassRight
<1> PICK t \in [Index -> Nat], q \in Nat : t = FirstPass(n) /\ q = n[L - 1] \div Top1
  BY <1>3
<1>4. Value(t) \in Nat /\ Value(t) < 2 * Prime
  BY <1>3, FirstPassSize
<1>5. t[L - 1] \in Nat /\ SingleCarry(t)
  <2>1. L - 1 \in Index /\ Top1 \in Nat /\ Top1 >= 8
    <3>1. L \in Nat /\ L >= 5
      BY Sizes
    <3> QED
      BY <3>1, Sizes DEF Index
  <2>2. t[L - 1] \in Nat
    BY <2>1
  <2>3. t[L - 1] < 2 * Top1
    BY <1>3, <2>1, <2>2
  <2> QED
    BY <2>2, <2>3 DEF SingleCarry
<1>6. Value(n) \in Int
  <2>1. n \in [Index -> Int] /\ L \in 0..L
    BY Sizes, SMTT(20)
  <2> QED
    BY <2>1, WorthSteps DEF Value
<1> PICK v \in Nat, P \in Nat, z \in Int : v = Value(t) /\ P = Prime /\ P >= 1 /\ z = Value(n)
  BY <1>4, <1>6, PrimeSize, Zenon
<1>7. v < 2 * P /\ v = z - q * P
  BY <1>3, <1>4
<1>8. v = (v % P) + (IF v >= P THEN P ELSE 0)
  <2>1. CASE v >= P
    <3>1. v = P * 1 + (v - P) /\ v - P \in 0..(P - 1) /\ 1 \in Int
      BY <1>7, <2>1
    <3> PICK o \in Int, e \in 0..(P - 1) : o = 1 /\ e = v - P
      BY <3>1
    <3>2. v = P * o + e
      BY <3>1
    <3>3. (v % P) = e
      BY ONLY P \in Nat, P >= 1, v \in Nat, o \in Int, e \in 0..(P - 1), <3>2, DivisionUnique
    <3> QED
      BY <2>1, <3>3
  <2>2. CASE ~(v >= P)
    <3>1. v \in 0..(P - 1)
      BY <2>2
    <3>2. (v % P) = v
      BY ONLY P \in Nat, P >= 1, <3>1, ModSmall
    <3> QED
      BY <2>2, <3>2
  <2> QED
    BY <2>1, <2>2
<1>9. (v % P) = (z % P)
  <2> PICK m \in Int : m = 0 - q
    OBVIOUS
  <2>1. v = z + P * m
    <3>1. P * m = 0 - q * P
      BY ONLY m \in Int, q \in Nat, P \in Nat, m = 0 - q
    <3> PICK y \in Int : y = q * P
      OBVIOUS
    <3> QED
      BY <1>7, <3>1
  <2>2. ((z + P * m) % P) = (z % P)
    BY ONLY P \in Nat, P >= 1, z \in Int, m \in Int, ModShift, Zenon
  <2> QED
    BY <2>1, <2>2
<1> QED
  BY <1>3, <1>4, <1>5, <1>6, <1>8, <1>9

\* The second pass of fe_normalize takes the prime away if it is there: what is
\* above the highest limb is x, and what stays below is the remainder.
LEMMA SecondPass ==
    ASSUME LimbsFit, NEW t \in [Index -> Nat], \A i \in Index : i # L - 1 => t[i] \in 0..(M1 - 1),
           2 * t[L - 1] <= 3 * Top1, Value(t) \in Nat, Value(t) < 2 * Prime
    PROVE  LET x == FinalX(t)
               s == Pass(t, x)
           IN /\ x = IF Value(t) >= Prime THEN 1 ELSE 0
              /\ s[L - 1] \div Top1 = x
              /\ TopOff(s) \in [Index -> Nat] /\ \A i \in Index : TopOff(s)[i] <= Mask(i)
              /\ Value(TopOff(s)) = Value(t) - x * Prime
<1> DEFINE x == FinalX(t)
           s == Pass(t, x)
<1>0. L \in Nat /\ L >= 5 /\ L - 1 \in Index /\ M1 \in Nat /\ Top1 \in Nat /\ Top1 >= 8
      /\ t \in [Index -> Int] /\ t[L - 1] \in Nat
  <2>1. L \in Nat /\ L >= 5 /\ M1 \in Nat /\ Top1 \in Nat /\ Top1 >= 8
    BY Sizes
  <2>2. L - 1 \in Index
    BY <2>1 DEF Index
  <2> QED
    BY <2>1, <2>2
<1> PICK v \in Nat, P \in Nat, A \in Nat, c \in Nat :
        v = Value(t) /\ P = Prime /\ A = Power /\ c = Value(CLimbs) /\ A = P + c
  BY PrimeSize
<1>1. x = IF v >= P THEN 1 ELSE 0
  <2>1. CASE t[L - 1] >= Top1
    <3>1. v = Weight(L - 1) * t[L - 1] + Worth(t)[L - 1] /\ Worth(t)[L - 1] \in 0..(Weight(L - 1) - 1)
          /\ Weight(L - 1) \in Nat
      BY <1>0, ValueTop
    <3> PICK w \in Nat, d \in Nat, l \in Nat, T \in Nat :
            w = Weight(L - 1) /\ d = t[L - 1] /\ l = Worth(t)[L - 1] /\ T = Top1
      BY <1>0, <3>1
    <3>2. w * d >= w * T /\ w * T = T * w
      BY ONLY w \in Nat, d \in Nat, T \in Nat, <2>1, d = t[L - 1], T = Top1
    <3> PICK y \in Int : y = w * d
      OBVIOUS
    <3>3. v = y + l /\ y >= A
      BY <3>1, <3>2 DEF Power
    <3> QED
      BY <2>1, <3>3 DEF FinalX
  <2>2. CASE ~(t[L - 1] >= Top1)
    <3>1. \A i \in Index : t[i] <= Mask(i)
      <4> TAKE i \in Index
      <4>1. CASE i = L - 1
        <5>1. Mask(i) = Top1 - 1
          BY <4>1, LimbSizes
        <5> QED
          BY <1>0, <2>2, <4>1, <5>1
      <4>2. CASE i # L - 1
        <5>1. Mask(i) = M1 - 1 /\ t[i] \in 0..(M1 - 1)
          BY <4>2, LimbSizes
        <5> QED
          BY <1>0, <5>1
      <4> QED
        BY <4>1, <4>2
    <3>2. AtLeastP(t) <=> v >= P
      BY <3>1, AtLeastPRight
    <3> QED
      BY <2>2, <3>2 DEF FinalX
  <2> QED
    BY <2>1, <2>2
<1> HIDE DEF x
<1>2. x \in Nat /\ x \in Int
  BY <1>1
<1> PICK K \in Nat : K = 1
  OBVIOUS
<1>8. Carries(t, x, K)
  <2>0. 2^Word \in Nat /\ 2 * M1 <= 2^Word /\ Top1 <= M1 /\ x <= 1
    BY <1>1, WordRoom, Sizes
  <2>1. ASSUME NEW i \in Index, i # L - 1
        PROVE  t[i] + x * Cof(i) + K < M1 * (K + 1) /\ t[i] + x * Cof(i) + K < 2^Word
    <3> PICK f \in Nat : f = Cof(i) /\ f <= M1 - 1
      BY LimbSizes
    <3>1. x * f <= f
      BY ONLY <2>0, <1>2, f \in Nat
    <3>2. t[i] \in Nat /\ t[i] <= M1 - 1
      BY <1>0, <2>1
    <3> PICK z \in Int : z = x * f
      BY <1>2
    <3>3. t[i] + z + K < 2 * M1
      BY <1>0, <3>1, <3>2
    <3> QED
      BY <1>0, <2>0, <3>3
  <2>2. t[L - 1] + x * Cof(L - 1) + K < 2^Word
    <3>1. Cof(L - 1) = 0 /\ x * 0 = 0
      BY <1>0, <1>2, LimbSizes
    <3>2. t[L - 1] + 0 + K < 2 * Top1
      BY <1>0
    <3> QED
      BY <1>0, <2>0, <3>1, <3>2
  <2>3. \A i \in Index : t[i] + x * Cof(i) + K < 2^Word
    BY <2>1, <2>2, Zenon
  <2>4. \A i \in Index : i # L - 1 => t[i] + x * Cof(i) + K < M1 * (K + 1)
    BY <2>1, Zenon
  <2> QED
    BY <1>2, <2>3, <2>4, Zenon DEF Carries
<1>3. s \in [Index -> Int] /\ (\A i \in Index : i # L - 1 => s[i] \in 0..(M1 - 1))
      /\ Value(s) = v + x * c
  BY <1>0, <1>2, <1>8, PassValue, Zenon
<1> HIDE DEF s
<1>4. x * A <= Value(s) /\ Value(s) < (x + 1) * A
  <2>1. CASE v >= P
    <3>1. x = 1
      BY <1>1, <2>1
    <3> QED
      BY <1>3, <2>1, <3>1
  <2>2. CASE ~(v >= P)
    <3>1. x = 0
      BY <1>1, <2>2
    <3> QED
      BY <1>3, <2>2, <3>1
  <2> QED
    BY <2>1, <2>2
<1>5. s[L - 1] \div Top1 = x /\ s[L - 1] % Top1 = s[L - 1] - x * Top1
      /\ s[L - 1] - x * Top1 \in 0..(Top1 - 1)
  BY <1>2, <1>3, <1>4, TopRange
<1> PICK n \in [Index -> Nat], b \in [Index -> Nat] :
        /\ b = TopOff(s) /\ b[L - 1] = s[L - 1] - x * Top1 /\ n[L - 1] = s[L - 1]
        /\ n = s /\ \A i \in Index : i # L - 1 => b[i] = s[i]
  <2>1. s[L - 1] \in Nat
    <3>1. x = 0 \/ x = 1
      BY <1>1
    <3>2. s[L - 1] \in Int
      BY <1>0, <1>3
    <3>3. CASE x = 0
      BY <1>0, <1>5, <3>2, <3>3
    <3>4. CASE x = 1
      BY <1>0, <1>5, <3>2, <3>4
    <3> QED
      BY <3>1, <3>3, <3>4
  <2>2. \A i \in Index : s[i] \in Nat
    BY <1>0, <1>3, <2>1
  <2>3. s \in [Index -> Nat]
    BY <1>3, <2>2
  <2> DEFINE b == [s EXCEPT ![L - 1] = @ % Top1]
  <2>4. b[L - 1] = s[L - 1] - x * Top1 /\ \A i \in Index : i # L - 1 => b[i] = s[i]
    BY <1>0, <1>3, <1>5
  <2>5. b = [i \in Index |-> b[i]]
    BY <1>3, Zenon
  <2> HIDE DEF b
  <2>6. \A i \in Index : b[i] \in Nat
    BY <1>0, <1>5, <2>2, <2>4
  <2>7. b \in [Index -> Nat]
    BY <2>5, <2>6
  <2>8. b = TopOff(s)
    BY DEF b, TopOff
  <2> QED
    BY <2>3, <2>4, <2>7, <2>8
<1>6. Value(b) = v - x * P
  <2>1. Value(b) = Value(n) - x * Power
    BY <1>2, ValueTopOff
  <2>2. Value(n) = v + x * c
    BY <1>3
  <2>3. (v + x * c) - x * A = v - x * P
    BY ONLY v \in Nat, c \in Nat, A \in Nat, P \in Nat, <1>2, A = P + c
  <2> QED
    BY <2>1, <2>2, <2>3, Zenon
<1>7. \A i \in Index : b[i] <= Mask(i)
  <2> TAKE i \in Index
  <2>1. CASE i = L - 1
    <3>1. Mask(i) = Top1 - 1
      BY <2>1, LimbSizes
    <3> QED
      BY <1>0, <1>5, <2>1, <3>1
  <2>2. CASE i # L - 1
    <3>1. Mask(i) = M1 - 1 /\ s[i] \in 0..(M1 - 1)
      BY <1>3, <2>2, LimbSizes
    <3> QED
      BY <1>0, <2>2, <3>1
  <2> QED
    BY <2>1, <2>2
<1> QED
  BY <1>1, <1>5, <1>6, <1>7 DEF s, x

-----------------------------------------------------------------------------
(* The operations.                                                         *)

\* Of limbs below the largest magnitude, none of which wraps when x times C and
\* the carries are added to it, fe_normalize returns the only normal form of the
\* number that the limbs stood for, its remainder after the division by the
\* prime, and no VERIFY_CHECK of it fails: one carry out of the highest limb is
\* the most there is after the first pass, and the second has the carry that was
\* expected.  fe_normalize_var, which leaves the second pass out if it is not
\* needed, returns the same limbs.
THEOREM NormalizeRight ==
    ASSUME LimbsFit, NEW a, Element(a), a.magnitude < MaxMagnitude
    PROVE  /\ Element(fe_normalize(a)) /\ fe_normalize(a).normalized
           /\ Value(fe_normalize(a).n) = Value(a.n) % Prime
           /\ fe_normalize_var(a) = fe_normalize(a)
<1> PICK t \in [Index -> Nat], q \in Nat :
        /\ t = FirstPass(a.n)
        /\ \A i \in Index : i # L - 1 => t[i] \in 0..(M1 - 1)
        /\ 2 * t[L - 1] <= 3 * Top1 /\ SingleCarry(t)
        /\ Value(t) \in Nat /\ Value(t) < 2 * Prime
        /\ Value(t) = (Value(t) % Prime) + (IF Value(t) >= Prime THEN Prime ELSE 0)
        /\ (Value(t) % Prime) = (Value(a.n) % Prime)
  BY ElementPass
<1> DEFINE x == FinalX(t)
           s == Pass(t, x)
           ok == a.ok /\ SingleCarry(t) /\ s[L - 1] \div Top1 = x
           r == Fe(TopOff(s), 1, TRUE, ok)
<1>1. /\ x = IF Value(t) >= Prime THEN 1 ELSE 0
      /\ s[L - 1] \div Top1 = x
      /\ TopOff(s) \in [Index -> Nat] /\ \A i \in Index : TopOff(s)[i] <= Mask(i)
      /\ Value(TopOff(s)) = Value(t) - x * Prime
  BY SecondPass
<1>2. fe_normalize(a) = r
  BY Zenon DEF fe_normalize
<1>3. ok
  <2>1. a.ok
    BY DEF Element
  <2> QED
    BY <1>1, <2>1
<1> HIDE DEF x, s
<1>4. Value(TopOff(s)) = Value(a.n) % Prime
  <2> PICK v \in Nat, P \in Nat, e \in Int : v = Value(t) /\ P = Prime /\ P >= 1 /\ e = v % P
    <3>1. \A v, P \in Nat : P >= 1 => (v % P) \in Int
      OBVIOUS
    <3> QED
      BY <3>1, PrimeSize, Zenon
  <2>1. v = e + (IF v >= P THEN P ELSE 0)
    OBVIOUS
  <2>2. v - x * P = e
    <3>1. CASE v >= P
      <4>1. x = 1
        BY <1>1, <3>1
      <4> QED
        BY <2>1, <3>1, <4>1
    <3>2. CASE ~(v >= P)
      <4>1. x = 0
        BY <1>1, <3>2
      <4> QED
        BY <2>1, <3>2, <4>1
    <3> QED
      BY <3>1, <3>2
  <2> QED
    BY <1>1, <2>2
<1>5. Element(r)
  <2> DEFINE n == TopOff(s)
  <2>1. n \in [Index -> Nat] /\ Value(n) < Prime
    <3>1. \A z \in Int, P \in Nat : P >= 1 => (z % P) < P
      OBVIOUS
    <3>2. Value(a.n) \in Int
      BY ElementPass
    <3> QED
      BY <1>1, <1>4, <3>1, <3>2, PrimeSize, Zenon
  <2>2. ASSUME NEW i \in Index
        PROVE  n[i] <= Mask(i) /\ n[i] <= 2 * 1 * Mask(i)
    <3>1. n[i] <= Mask(i) /\ n[i] \in Nat /\ Mask(i) \in Nat
      BY <1>1, LimbSizes
    <3> QED
      BY <3>1
  <2>3. 1 \in 0..MaxMagnitude
    BY Sizes
  <2> HIDE DEF n, ok
  <2> PICK m \in 0..MaxMagnitude : m = 1
    BY <2>3
  <2> PICK o \in BOOLEAN : o = ok /\ o
    BY <1>3, Zenon DEF ok
  <2> PICK y \in BOOLEAN : y
    BY Zenon
  <2> PICK l \in [Index -> Nat] : l = n
    BY <2>1
  <2>4. \A i \in Index : l[i] <= 2 * m * Mask(i)
    BY <2>2
  <2>5. y => m = 1 /\ (\A i \in Index : l[i] <= Mask(i)) /\ Value(l) < Prime
    BY <2>1, <2>2
  <2>6. Element(Fe(l, m, y, o))
    BY <2>4, <2>5, ElementFe, Zenon
  <2> QED
    BY <2>6, Zenon DEF n
<1>6. r.n = TopOff(s) /\ r.normalized = TRUE
  BY DEF Fe
<1>7. fe_normalize_var(a) = r
  <2> DEFINE z == IF FinalX(t) = 1 THEN Pass(t, 1) ELSE t
  <2>1. z = s
    <3>1. CASE x = 1
      BY <3>1 DEF s, x
    <3>2. CASE x # 1
      <4>1. x = 0
        BY <1>1, <3>2
      <4>2. Pass(t, 0) = t
        <5>1. t[L - 1] < 2 * Top1
          BY DEF SingleCarry
        <5> QED
          BY <5>1, PassNothing
      <4> QED
        BY <4>1, <4>2 DEF s, x
    <3> QED
      BY <3>1, <3>2
  <2>2. fe_normalize_var(a)
            = Fe(TopOff(z), 1, TRUE, a.ok /\ SingleCarry(t) /\ z[L - 1] \div Top1 = FinalX(t))
    BY Zenon DEF fe_normalize_var
  <2> HIDE DEF z
  <2>3. fe_normalize_var(a)
            = Fe(TopOff(s), 1, TRUE, a.ok /\ SingleCarry(t) /\ s[L - 1] \div Top1 = FinalX(t))
    BY <2>1, <2>2, Zenon
  <2> QED
    BY <2>3, Zenon DEF x
<1> HIDE DEF r
<1> QED
  BY <1>2, <1>4, <1>5, <1>6, <1>7

\* Below the largest magnitude, fe_normalize_weak keeps the number but for
\* multiples of the prime and gives it magnitude 1; limbs that were normal stay
\* as they are.
THEOREM WeakRight ==
    ASSUME LimbsFit, NEW a, Element(a), a.magnitude < MaxMagnitude
    PROVE  /\ Element(fe_normalize_weak(a)) /\ fe_normalize_weak(a).magnitude = 1
           /\ Value(fe_normalize_weak(a).n) % Prime = Value(a.n) % Prime
           /\ a.normalized => fe_normalize_weak(a).n = a.n
<1>0. L \in Nat /\ L >= 5 /\ L - 1 \in Index /\ M1 \in Nat /\ M1 >= 2 /\ Top1 \in Nat /\ Top1 >= 8
      /\ MaxMagnitude \in Nat /\ MaxMagnitude >= 1
  <2>1. L \in Nat /\ L >= 5 /\ M1 \in Nat /\ M1 >= 2 /\ Top1 \in Nat /\ Top1 >= 8
        /\ MaxMagnitude \in Nat /\ MaxMagnitude >= 1
    BY Sizes
  <2>2. L - 1 \in Index
    BY <2>1 DEF Index
  <2> QED
    BY <2>1, <2>2
<1> PICK t \in [Index -> Nat] :
        /\ t = FirstPass(a.n)
        /\ \A i \in Index : i # L - 1 => t[i] \in 0..(M1 - 1)
        /\ 2 * t[L - 1] <= 3 * Top1 /\ SingleCarry(t)
        /\ (Value(t) % Prime) = (Value(a.n) % Prime)
  BY ElementPass
<1> DEFINE r == Fe(t, 1, a.normalized, a.ok /\ SingleCarry(t))
<1>1. fe_normalize_weak(a) = r
  BY DEF fe_normalize_weak
<1>2. a.n \in [Index -> Nat] /\ a.normalized \in BOOLEAN /\ a.ok
  BY DEF Element
<1>3. ASSUME a.normalized
      PROVE  t = a.n
  <2> PICK n \in [Index -> Nat] : n = a.n
    BY <1>2
  <2>1. \A i \in Index : n[i] <= Mask(i)
    BY <1>3, ElementSize, Zenon
  <2>2. n[L - 1] \in 0..(Top1 - 1)
    <3>1. Mask(L - 1) = Top1 - 1
      BY <1>0, LimbSizes
    <3> QED
      BY <1>0, <2>1, <3>1
  <2>3. n[L - 1] % Top1 = n[L - 1] /\ n[L - 1] \div Top1 = 0
    <3> PICK T \in Nat, d \in Int : T = Top1 /\ d = n[L - 1] /\ T >= 1 /\ d \in 0..(T - 1)
      BY <1>0, <2>2
    <3>1. (d % T) = d /\ d \div T = 0
      BY ONLY T \in Nat, T >= 1, d \in 0..(T - 1), ModSmall
    <3> QED
      BY <3>1
  <2>4. [n EXCEPT ![L - 1] = @ % Top1] = n
    BY <1>0, <2>3
  <2>5. t = Pass(n, 0)
    BY <2>3, <2>4 DEF FirstPass
  <2>6. ASSUME NEW i \in Index, i # L - 1
        PROVE  n[i] \in 0..(M1 - 1)
    <3>1. Mask(i) = M1 - 1 /\ n[i] <= Mask(i)
      BY <2>1, <2>6, LimbSizes
    <3> QED
      BY <1>0, <3>1
  <2>8. n[L - 1] < 2 * Top1
    BY <1>0, <2>2
  <2>7. Pass(n, 0) = n
    BY <2>6, <2>8, PassNothing
  <2> QED
    BY <2>5, <2>7
<1>4. Element(r)
  <2>1. ASSUME NEW i \in Index
        PROVE  t[i] <= 2 * 1 * Mask(i)
    <3>1. CASE i = L - 1
      <4>1. Mask(i) = Top1 - 1
        BY <3>1, LimbSizes
      <4> PICK d \in Nat, T \in Nat : d = t[i] /\ T = Top1 /\ T >= 8 /\ 2 * d <= 3 * T
        BY <1>0, <3>1
      <4>2. d <= 2 * 1 * (T - 1)
        OBVIOUS
      <4> QED
        BY <4>1, <4>2
    <3>2. CASE i # L - 1
      <4>1. Mask(i) = M1 - 1 /\ t[i] \in 0..(M1 - 1)
        BY <3>2, LimbSizes
      <4> QED
        BY <1>0, <4>1
    <3> QED
      BY <3>1, <3>2
  <2>2. ASSUME a.normalized
        PROVE  (\A i \in Index : t[i] <= Mask(i)) /\ Value(t) < Prime
    <3>1. t = a.n
      BY <1>3, <2>2
    <3>2. \A i \in Index : t[i] <= Mask(i)
      BY <2>2, <3>1, ElementSize, Zenon
    <3>3. ~AtLeastP(t)
      BY <2>2, <3>1 DEF Element, fe_verify
    <3>4. AtLeastP(t) <=> Value(t) >= Prime
      BY <3>2, AtLeastPRight
    <3>5. Value(t) \in Int /\ Prime \in Nat
      <4>1. t \in [Index -> Int]
        OBVIOUS
      <4> QED
        BY <4>1, ValueTop, PrimeSize, Zenon
    <3> QED
      BY <3>2, <3>3, <3>4, <3>5
  <2> PICK m \in 0..MaxMagnitude, o \in BOOLEAN, y \in BOOLEAN :
          m = 1 /\ o = (a.ok /\ SingleCarry(t)) /\ o /\ y = a.normalized
    <3>1. 1 \in 0..MaxMagnitude
      BY <1>0
    <3> QED
      BY <1>2, <3>1, Zenon
  <2>3. \A i \in Index : t[i] <= 2 * m * Mask(i)
    BY <2>1
  <2>4. y => m = 1 /\ (\A i \in Index : t[i] <= Mask(i)) /\ Value(t) < Prime
    BY <2>2
  <2>5. Element(Fe(t, m, y, o))
    BY <2>3, <2>4, ElementFe, Zenon
  <2> QED
    BY <2>5, Zenon
<1>5. r.n = t /\ r.magnitude = 1
  BY DEF Fe
<1> HIDE DEF r
<1> QED
  BY <1>1, <1>3, <1>4, <1>5

\* fe_normalizes_to_zero is right for every element below the largest magnitude,
\* and so is fe_normalizes_to_zero_var, whose look at the lowest limb never says
\* no to a multiple of the prime.
THEOREM ZeroRight ==
    ASSUME LimbsFit, NEW a, Element(a), a.magnitude < MaxMagnitude
    PROVE  /\ fe_normalizes_to_zero(a) <=> (Value(a.n) % Prime) = 0
           /\ fe_normalizes_to_zero_var(a) <=> (Value(a.n) % Prime) = 0
<1>0. L \in Nat /\ L >= 5 /\ L - 1 \in Index /\ 0 \in Index /\ 0 \in 0..L
  <2>1. L \in Nat /\ L >= 5
    BY Sizes
  <2> QED
    BY <2>1 DEF Index
<1> PICK t \in [Index -> Nat], q \in Nat :
        /\ t = FirstPass(a.n) /\ q = a.n[L - 1] \div Top1
        /\ \A i \in Index : i # L - 1 => t[i] \in 0..(M1 - 1)
        /\ Value(t) \in Nat
        /\ Value(t) = (Value(t) % Prime) + (IF Value(t) >= Prime THEN Prime ELSE 0)
        /\ t[0] = (a.n[0] + q * Cof(0)) % M1
        /\ (Value(t) % Prime) = (Value(a.n) % Prime)
  BY ElementPass
<1> PICK z \in [Index -> Nat], p \in [Index -> Nat] :
        /\ \A i \in Index : z[i] = 0 /\ p[i] = PLimb(i) /\ p[i] <= Mask(i)
        /\ p = [i \in Index |-> PLimb(i)]
  <2>1. [i \in Index |-> 0] \in [Index -> Nat]
    OBVIOUS
  <2> PICK z \in [Index -> Nat] : \A i \in Index : z[i] = 0
    BY <2>1, Zenon
  <2> PICK p \in [Index -> Nat] : p = [i \in Index |-> PLimb(i)]
    BY PrimeLimbs
  <2> QED
    BY PrimeLimbs
<1>1. Value(z) = 0 /\ Value(p) = Prime
  <2>1. z \in [Index -> Int] /\ \A i \in Index : i >= 0 => z[i] = 0
    OBVIOUS
  <2>2. Value(z) = Worth(z)[0]
    BY <1>0, <2>1, WorthZeros
  <2>3. Worth(z)[0] = 0
    BY <2>1, WorthSteps
  <2> QED
    BY <2>2, <2>3, PrimeLimbs
<1>2. \A i \in Index : i # L - 1 => z[i] \in 0..(M1 - 1) /\ p[i] \in 0..(M1 - 1)
  <2> TAKE i \in Index
  <2>1. Mask(i) \in Nat /\ Mask(i) <= M1 - 1 /\ M1 \in Nat /\ M1 >= 2 /\ p[i] \in Nat
    BY LimbSizes, Sizes
  <2> QED
    BY <2>1
<1>3. fe_normalizes_to_zero(a) <=> t = z \/ t = p
  <2>1. (\A i \in Index : t[i] = 0) <=> t = z
    OBVIOUS
  <2>2. (\A i \in Index : t[i] = PLimb(i)) <=> t = p
    OBVIOUS
  <2> QED
    BY <2>1, <2>2 DEF fe_normalizes_to_zero
<1>4. t = z <=> Value(t) = 0
  <2>1. ASSUME Value(t) = Value(z)
        PROVE  t = z
    BY <1>2, <2>1, ValueUnique
  <2> QED
    BY <1>1, <2>1
<1>5. t = p <=> Value(t) = Prime
  <2>1. ASSUME Value(t) = Value(p)
        PROVE  t = p
    BY <1>2, <2>1, ValueUnique
  <2> QED
    BY <1>1, <2>1
<1>6. Value(t) = 0 \/ Value(t) = Prime <=> (Value(t) % Prime) = 0
  <2> PICK v \in Nat, P \in Nat : v = Value(t) /\ P = Prime /\ P >= 1
    BY PrimeSize
  <2> PICK e \in 0..(P - 1) : e = v % P
    <3>1. (v % P) \in 0..(P - 1)
      BY ONLY v \in Nat, P \in Nat, P >= 1, Division
    <3> QED
      BY <3>1
  <2>1. v = e + (IF v >= P THEN P ELSE 0)
    OBVIOUS
  <2>2. CASE v >= P
    BY <2>1, <2>2
  <2>3. CASE ~(v >= P)
    BY <2>1, <2>3
  <2> QED
    BY <2>2, <2>3
<1>7. fe_normalizes_to_zero(a) <=> (Value(a.n) % Prime) = 0
  BY <1>3, <1>4, <1>5, <1>6
<1>8. fe_normalizes_to_zero(a) => (a.n[0] + (a.n[L - 1] \div Top1) * Cof(0)) % M1 \in {0, PLimb(0)}
  <2>1. t = z \/ t = p => t[0] \in {0, PLimb(0)}
    BY <1>0
  <2> QED
    BY <1>3, <2>1
<1>9. fe_normalizes_to_zero_var(a) <=> fe_normalizes_to_zero(a)
  BY <1>8 DEF fe_normalizes_to_zero_var
<1> QED
  BY <1>7, <1>9

\* No sum of limbs, and no small multiple of a limb, outgrows its word.
LEMMA WordSize ==
    ASSUME LimbsFit, NEW i \in Index, NEW m \in 0..MaxMagnitude, NEW d \in Nat, d <= 2 * m * Mask(i)
    PROVE  d % 2^Word = d
<1> PICK G \in Nat, M \in Nat, k \in Nat : G = MaxMagnitude /\ M = M1 /\ k = Mask(i) /\ M >= 2 /\ k <= M - 1 /\ G >= 1
  BY LimbSizes, Sizes, Zenon
<1>1. Word \in Nat /\ 2 * G * M <= 2^Word
  BY DEF LimbsFit
<1> PICK W \in Nat : W = 2^Word /\ W >= 1
  BY <1>1, PowerPositive
<1>2. m \in Nat /\ m <= G
  OBVIOUS
<1>3. 2 * m * k <= 2 * G * k
  BY ONLY <1>2, G \in Nat, k \in Nat
<1>4. 2 * G * k <= 2 * G * M - 2 * G
  <2>1. k <= M - 1
    OBVIOUS
  <2>2. 2 * G * k <= 2 * G * (M - 1)
    BY ONLY <2>1, G \in Nat, k \in Nat, M \in Nat
  <2>3. 2 * G * (M - 1) = 2 * G * M - 2 * G
    BY ONLY G \in Nat, M \in Nat
  <2> QED
    BY <2>2, <2>3
<1> PICK x \in Int, y \in Int, z \in Int : x = 2 * m * k /\ y = 2 * G * k /\ z = 2 * G * M
  BY <1>2
<1>5. d <= x /\ x <= y /\ y <= z - 2 * G /\ z <= W /\ G >= 1
  BY <1>1, <1>3, <1>4
<1>6. d \in 0..(W - 1)
  BY ONLY <1>5, d \in Nat, x \in Int, y \in Int, z \in Int, W \in Nat, G \in Nat
<1>7. (d % W) = d
  BY ONLY W \in Nat, W >= 1, <1>6, ModSmall
<1> QED
  BY <1>7

\* The number of an element is a number.
LEMMA ValueType ==
    ASSUME LimbsFit, NEW n \in [Index -> Int]
    PROVE  Value(n) \in Int /\ Worth(n)[L] = Value(n) /\ L \in 0..L
<1>1. L \in 0..L
  BY Sizes
<1> QED
  BY <1>1, WorthSteps DEF Value

\* The number of a sum of multiples is the sum of the multiples of the numbers.
IsLinear(s, u, v, x, y) == Value(s) = x * Value(u) + y * Value(v)

LEMMA ValueLinear ==
    ASSUME LimbsFit, NEW u \in [Index -> Int], NEW v \in [Index -> Int], NEW x \in Int, NEW y \in Int,
           NEW s, s = [i \in Index |-> x * u[i] + y * v[i]]
    PROVE  IsLinear(s, u, v, x, y)
<1>1. \A k \in 0..L : Worth([i \in Index |-> x * u[i] + y * v[i]])[k] = x * Worth(u)[k] + y * Worth(v)[k]
  BY ONLY LimbsFit, u \in [Index -> Int], v \in [Index -> Int], x \in Int, y \in Int, WorthLinear, ZenonT(60)
<1>2. L \in 0..L
  BY Sizes
<1> QED
  BY <1>1, <1>2, Zenon DEF Value, IsLinear

\* Limbs that are not too large are an element, and nothing of them is lost.
LEMMA WordElement ==
    ASSUME LimbsFit, NEW s \in [Index -> Nat], NEW m \in 0..MaxMagnitude,
           \A i \in Index : s[i] <= 2 * m * Mask(i)
    PROVE  /\ \A i \in Index : s[i] % 2^Word = s[i]
           /\ Element(Fe(s, m, FALSE, TRUE))
<1>1. \A i \in Index : s[i] <= 2 * m * Mask(i)
  OBVIOUS
<1>2. \A i \in Index : s[i] % 2^Word = s[i]
  BY <1>1, WordSize
<1>3. Element(Fe(s, m, FALSE, TRUE))
  <2> PICK o \in BOOLEAN, b \in BOOLEAN : o = TRUE /\ b = FALSE
    BY Zenon
  <2>1. Element(Fe(s, m, b, o))
    BY <1>1, ElementFe, Zenon
  <2> QED
    BY <2>1, Zenon
<1> QED
  BY <1>2, <1>3, Zenon

\* fe_add adds the numbers, as long as the magnitudes are not too large together.
THEOREM AddRight ==
    ASSUME LimbsFit, NEW r, Element(r), NEW a, Element(a), r.magnitude + a.magnitude <= MaxMagnitude
    PROVE  /\ Element(fe_add(r, a))
           /\ Value(fe_add(r, a).n) = Value(r.n) + Value(a.n)
<1>1. /\ r.n \in [Index -> Nat] /\ r.magnitude \in 0..MaxMagnitude /\ r.ok = TRUE
      /\ a.n \in [Index -> Nat] /\ a.magnitude \in 0..MaxMagnitude /\ a.ok = TRUE
  BY ElementSize, Zenon
<1> PICK u \in [Index -> Int], v \in [Index -> Int], x \in Int, y \in Int, m \in 0..MaxMagnitude :
        u = r.n /\ v = a.n /\ x = 1 /\ y = 1 /\ m = r.magnitude + a.magnitude
  <2>1. r.magnitude + a.magnitude \in 0..MaxMagnitude
    BY <1>1, Sizes, SMTT(20)
  <2>2. r.n \in [Index -> Int] /\ a.n \in [Index -> Int]
    BY <1>1
  <2> QED
    BY <2>1, <2>2
<1>2. ASSUME NEW i \in Index
      PROVE  x * u[i] + y * v[i] = r.n[i] + a.n[i] /\ x * u[i] + y * v[i] \in Nat
             /\ x * u[i] + y * v[i] <= 2 * m * Mask(i)
  <2> PICK d \in Nat, e \in Nat, j \in Nat, l \in Nat, k \in Nat :
          d = r.n[i] /\ e = a.n[i] /\ j = r.magnitude /\ l = a.magnitude /\ k = Mask(i)
    <3>1. Mask(i) \in Nat
      BY LimbSizes
    <3>2. r.n[i] \in Nat /\ a.n[i] \in Nat /\ r.magnitude \in Nat /\ a.magnitude \in Nat
      BY <1>1, Sizes, SMTT(20)
    <3> QED
      BY <3>1, <3>2, Zenon
  <2>1. d <= 2 * j * k /\ e <= 2 * l * k
    BY DEF Element
  <2>2. 2 * (j + l) * k = 2 * j * k + 2 * l * k
    BY ONLY j \in Nat, l \in Nat, k \in Nat
  <2> PICK p \in Int, q \in Int : p = 2 * j * k /\ q = 2 * l * k
    OBVIOUS
  <2>3. d + e <= 2 * (j + l) * k
    BY <2>1, <2>2
  <2>4. x * u[i] + y * v[i] = d + e
    OBVIOUS
  <2> QED
    BY <2>3, <2>4
<1> PICK s \in [Index -> Nat] :
        s = [i \in Index |-> x * u[i] + y * v[i]] /\ \A i \in Index : s[i] = r.n[i] + a.n[i]
  <2> DEFINE s == [i \in Index |-> x * u[i] + y * v[i]]
  <2>1. s \in [Index -> Nat] /\ \A i \in Index : s[i] = r.n[i] + a.n[i]
    BY <1>2
  <2> QED
    BY <2>1, Zenon
<1>3. \A i \in Index : s[i] <= 2 * m * Mask(i)
  BY <1>2
<1>7. (\A i \in Index : s[i] % 2^Word = s[i]) /\ Element(Fe(s, m, FALSE, TRUE))
  BY <1>3, WordElement, Zenon
<1>8. Value(s) = x * Value(u) + y * Value(v)
  <2>1. IsLinear(s, u, v, x, y)
    BY ValueLinear, Zenon
  <2> QED
    BY <2>1, Zenon DEF IsLinear
<1>4. fe_add(r, a) = Fe(s, m, FALSE, TRUE)
  <2>1. [i \in Index |-> (r.n[i] + a.n[i]) % 2^Word] = s
    <3>1. [i \in Index |-> s[i] % 2^Word] = [i \in Index |-> s[i]]
      BY <1>7
    <3> QED
      BY <3>1
  <2>2. fe_add(r, a) = Fe([i \in Index |-> (r.n[i] + a.n[i]) % 2^Word], r.magnitude + a.magnitude, FALSE,
                          r.ok /\ a.ok)
    BY DEF fe_add
  <2>3. (r.ok /\ a.ok) = TRUE
    BY <1>1
  <2> QED
    BY <2>1, <2>2, <2>3, Zenon
<1>5. Fe(s, m, FALSE, TRUE).n = s
  BY DEF Fe
<1>6. x * Value(u) + y * Value(v) = Value(r.n) + Value(a.n)
  <2>1. Value(u) \in Int /\ Value(v) \in Int
    BY ValueType
  <2> QED
    BY <2>1
<1> QED
  BY <1>4, <1>5, <1>6, <1>7, <1>8, Zenon

\* fe_mul_int multiplies the number, as long as the magnitude does not become too
\* large.
THEOREM MulIntRight ==
    ASSUME LimbsFit, NEW r, Element(r), NEW k \in Nat, r.magnitude * k <= MaxMagnitude
    PROVE  /\ Element(fe_mul_int(r, k))
           /\ Value(fe_mul_int(r, k).n) = Value(r.n) * k
<1>1. r.n \in [Index -> Nat] /\ r.magnitude \in 0..MaxMagnitude /\ r.ok = TRUE
  BY ElementSize, Zenon
<1> PICK u \in [Index -> Int], x \in Int, y \in Int, m \in 0..MaxMagnitude :
        u = r.n /\ x = k /\ y = 0 /\ m = r.magnitude * k
  <2>1. r.magnitude * k \in 0..MaxMagnitude
    <3> PICK j \in Nat, G \in Nat : j = r.magnitude /\ G = MaxMagnitude
      BY <1>1, Sizes
    <3>1. j * k \in Nat
      BY ONLY j \in Nat, k \in Nat
    <3> QED
      BY <3>1
  <2>2. r.n \in [Index -> Int]
    BY <1>1
  <2> QED
    BY <2>1, <2>2
<1>2. ASSUME NEW i \in Index
      PROVE  x * u[i] + y * u[i] = r.n[i] * k /\ x * u[i] + y * u[i] \in Nat
             /\ x * u[i] + y * u[i] <= 2 * m * Mask(i)
  <2> PICK d \in Nat, j \in Nat, c \in Nat :
          d = r.n[i] /\ j = r.magnitude /\ c = Mask(i)
    <3>1. Mask(i) \in Nat
      BY LimbSizes
    <3>2. r.n[i] \in Nat /\ r.magnitude \in Nat
      BY <1>1, Sizes
    <3> QED
      BY <3>1, <3>2
  <2>1. d <= 2 * j * c
    BY DEF Element
  <2>2. d * k <= (2 * j * c) * k
    BY ONLY <2>1, d \in Nat, k \in Nat, j \in Nat, c \in Nat
  <2>3. (2 * j * c) * k = 2 * (j * k) * c
    BY ONLY k \in Nat, j \in Nat, c \in Nat
  <2>4. x * u[i] + y * u[i] = d * k /\ d * k \in Nat
    <3>1. k * d + 0 * d = d * k /\ d * k \in Nat
      BY ONLY d \in Nat, k \in Nat
    <3> QED
      BY <3>1
  <2> QED
    BY <2>2, <2>3, <2>4
<1> PICK s \in [Index -> Nat] :
        s = [i \in Index |-> x * u[i] + y * u[i]] /\ \A i \in Index : s[i] = r.n[i] * k
  <2> DEFINE s == [i \in Index |-> x * u[i] + y * u[i]]
  <2>1. s \in [Index -> Nat] /\ \A i \in Index : s[i] = r.n[i] * k
    BY <1>2
  <2> QED
    BY <2>1, Zenon
<1>3. \A i \in Index : s[i] <= 2 * m * Mask(i)
  BY <1>2
<1>7. (\A i \in Index : s[i] % 2^Word = s[i]) /\ Element(Fe(s, m, FALSE, TRUE))
  BY <1>3, WordElement, Zenon
<1>8. Value(s) = x * Value(u) + y * Value(u)
  <2>1. IsLinear(s, u, u, x, y)
    BY ValueLinear, Zenon
  <2> QED
    BY <2>1, Zenon DEF IsLinear
<1>4. fe_mul_int(r, k) = Fe(s, m, FALSE, TRUE)
  <2>1. [i \in Index |-> (r.n[i] * k) % 2^Word] = s
    <3>1. [i \in Index |-> s[i] % 2^Word] = [i \in Index |-> s[i]]
      BY <1>7
    <3> QED
      BY <3>1
  <2>2. fe_mul_int(r, k) = Fe([i \in Index |-> (r.n[i] * k) % 2^Word], r.magnitude * k, FALSE, r.ok)
    BY DEF fe_mul_int
  <2> QED
    BY <1>1, <2>1, <2>2, Zenon
<1>5. Fe(s, m, FALSE, TRUE).n = s
  BY DEF Fe
<1>6. x * Value(u) + y * Value(u) = Value(r.n) * k
  <2> PICK d \in Int : d = Value(u)
    BY ValueType
  <2>1. k * d + 0 * d = d * k
    BY ONLY d \in Int, k \in Nat
  <2> QED
    BY <2>1
<1> QED
  BY <1>4, <1>5, <1>6, <1>7, <1>8, Zenon

\* fe_negate returns what is missing to a multiple of the prime: that multiple is
\* large enough in every limb for the magnitude that the caller names.
THEOREM NegateRight ==
    ASSUME LimbsFit, NEW a, Element(a), NEW m \in Nat, a.magnitude <= m, m < MaxMagnitude
    PROVE  /\ Element(fe_negate(a, m))
           /\ Value(fe_negate(a, m).n) = 2 * (m + 1) * Prime - Value(a.n)
<1>1. a.n \in [Index -> Nat] /\ a.magnitude \in 0..MaxMagnitude /\ a.ok = TRUE
  BY ElementSize, Zenon
<1> PICK p \in [Index -> Int], u \in [Index -> Int], x \in Int, y \in Int, g \in 0..MaxMagnitude :
        /\ p = [i \in Index |-> PLimb(i)] /\ \A i \in Index : p[i] = PLimb(i)
        /\ u = a.n /\ x = 2 * (m + 1) /\ y = -1 /\ g = m + 1
  <2>1. m + 1 \in 0..MaxMagnitude
    BY Sizes
  <2>2. a.n \in [Index -> Int]
    BY <1>1
  <2>3. [i \in Index |-> PLimb(i)] \in [Index -> Int]
    BY PrimeLimbs
  <2> PICK p \in [Index -> Int] : p = [i \in Index |-> PLimb(i)]
    BY <2>3, Zenon
  <2>4. \A i \in Index : p[i] = PLimb(i)
    OBVIOUS
  <2>5. 2 * (m + 1) \in Int /\ -1 \in Int
    OBVIOUS
  <2> QED
    BY <2>1, <2>2, <2>4, <2>5
<1>2. ASSUME NEW i \in Index
      PROVE  x * p[i] + y * u[i] = PLimb(i) * 2 * (m + 1) - a.n[i] /\ x * p[i] + y * u[i] \in Nat
             /\ x * p[i] + y * u[i] <= 2 * g * Mask(i)
  <2> PICK d \in Nat, j \in Nat, k \in Nat, c \in Nat, e \in Nat, G \in Nat, M \in Nat :
          /\ d = a.n[i] /\ j = a.magnitude /\ k = Mask(i) /\ c = Cof(i) /\ e = PLimb(i)
          /\ G = MaxMagnitude /\ M = M1
    <3>1. Mask(i) \in Nat /\ Cof(i) \in Nat /\ PLimb(i) \in Nat
      BY LimbSizes
    <3>2. MaxMagnitude \in Nat /\ M1 \in Nat
      BY Sizes
    <3>3. a.n[i] \in Nat
      BY <1>1, Zenon
    <3>4. a.magnitude \in Nat
      <4>1. a.magnitude \in 0..MaxMagnitude
        BY <1>1, Zenon
      <4> QED
        BY ONLY <3>2, <4>1
    <3> QED
      BY <3>1, <3>2, <3>3, <3>4, Zenon
  <2>1. d <= 2 * m * k
    <3>1. d <= 2 * j * k
      BY DEF Element
    <3>2. 2 * j * k <= 2 * m * k
      BY ONLY j \in Nat, m \in Nat, k \in Nat, j = a.magnitude, a.magnitude <= m
    <3> PICK z \in Int, w \in Int : z = 2 * j * k /\ w = 2 * m * k
      OBVIOUS
    <3> QED
      BY <3>1, <3>2
  <2>2. e <= k /\ e >= k - c
    BY PrimeLimbs DEF PLimb
  <2>3. c * (m + 1) <= k
    <3>1. CASE i = L - 1
      <4>1. c = 0
        BY <3>1, LimbSizes
      <4>2. 0 * (m + 1) = 0
        OBVIOUS
      <4> QED
        BY <4>1, <4>2
    <3>2. CASE i # L - 1
      <4>1. k = M - 1 /\ c * (G + 1) < M
        BY <3>2, LimbSizes
      <4>2. c * (m + 1) <= c * (G + 1)
        <5>1. m <= G
          OBVIOUS
        <5> QED
          BY ONLY <5>1, c \in Nat, m \in Nat, G \in Nat
      <4> PICK z \in Int, w \in Int : z = c * (m + 1) /\ w = c * (G + 1)
        OBVIOUS
      <4> QED
        BY <4>1, <4>2
    <3> QED
      BY <3>1, <3>2
  <2>4. e * (2 * (m + 1)) >= 2 * m * k
    <3>1. e * (2 * (m + 1)) >= (k - c) * (2 * (m + 1))
      BY ONLY <2>2, e \in Nat, k \in Nat, c \in Nat, m \in Nat
    <3>2. (k - c) * (2 * (m + 1)) = 2 * m * k + 2 * k - 2 * (c * (m + 1))
      BY ONLY k \in Nat, c \in Nat, m \in Nat
    <3> PICK z \in Int, w \in Int, s \in Int :
            z = c * (m + 1) /\ w = 2 * m * k /\ s = e * (2 * (m + 1))
      OBVIOUS
    <3> QED
      BY <2>3, <3>1, <3>2
  <2>5. e * (2 * (m + 1)) <= 2 * (m + 1) * k
    BY ONLY <2>2, e \in Nat, k \in Nat, c \in Nat, m \in Nat
  <2>6. PLimb(i) * 2 * (m + 1) = e * (2 * (m + 1)) /\ x * p[i] = e * (2 * (m + 1))
    <3>1. e * 2 * (m + 1) = e * (2 * (m + 1)) /\ (2 * (m + 1)) * e = e * (2 * (m + 1))
      BY ONLY e \in Nat, m \in Nat
    <3> QED
      BY <3>1
  <2> PICK s \in Int, w \in Int, z \in Int :
          s = e * (2 * (m + 1)) /\ w = 2 * m * k /\ z = 2 * (m + 1) * k
    OBVIOUS
  <2>7. s >= w /\ s <= z /\ d <= w
    BY <2>1, <2>4, <2>5
  <2>8. s - d \in Nat /\ s - d <= z
    BY ONLY <2>7, s \in Int, w \in Int, z \in Int, d \in Nat
  <2>9. x * p[i] + y * u[i] = s - d
    BY <2>6
  <2> QED
    BY <2>6, <2>8, <2>9
<1> PICK s \in [Index -> Nat] :
        s = [i \in Index |-> x * p[i] + y * u[i]] /\ \A i \in Index : s[i] = PLimb(i) * 2 * (m + 1) - a.n[i]
  <2> DEFINE s == [i \in Index |-> x * p[i] + y * u[i]]
  <2>1. s \in [Index -> Nat] /\ \A i \in Index : s[i] = PLimb(i) * 2 * (m + 1) - a.n[i]
    BY <1>2
  <2> QED
    BY <2>1, Zenon
<1>3. \A i \in Index : s[i] <= 2 * g * Mask(i)
  BY <1>2
<1>7. (\A i \in Index : s[i] % 2^Word = s[i]) /\ Element(Fe(s, g, FALSE, TRUE))
  BY <1>3, WordElement, Zenon
<1>8. Value(s) = x * Value(p) + y * Value(u)
  <2>1. IsLinear(s, p, u, x, y)
    BY ValueLinear, Zenon
  <2> QED
    BY <2>1, Zenon DEF IsLinear
<1>4. fe_negate(a, m) = Fe(s, g, FALSE, TRUE)
  <2>1. [i \in Index |-> (PLimb(i) * 2 * (m + 1) - a.n[i]) % 2^Word] = s
    <3>1. [i \in Index |-> s[i] % 2^Word] = [i \in Index |-> s[i]]
      BY <1>7
    <3> QED
      BY <3>1
  <2>2. fe_negate(a, m) = Fe([i \in Index |-> (PLimb(i) * 2 * (m + 1) - a.n[i]) % 2^Word], m + 1, FALSE,
                             a.ok /\ a.magnitude <= m)
    BY DEF fe_negate
  <2>3. (a.ok /\ a.magnitude <= m) = TRUE
    BY <1>1
  <2> QED
    BY <2>1, <2>2, <2>3, Zenon
<1>5. Fe(s, g, FALSE, TRUE).n = s
  BY DEF Fe
<1>6. x * Value(p) + y * Value(u) = 2 * (m + 1) * Prime - Value(a.n)
  <2> PICK d \in Int, e \in Int : d = Value(p) /\ e = Value(u)
    BY ValueType, Zenon
  <2>1. d = Prime
    BY PrimeLimbs
  <2>2. (2 * (m + 1)) * d + (-1) * e = 2 * (m + 1) * d - e
    BY ONLY d \in Int, e \in Int, m \in Nat
  <2> QED
    BY <2>1, <2>2
<1> QED
  BY <1>4, <1>5, <1>6, <1>7, <1>8, Zenon

-----------------------------------------------------------------------------
(* The columns of a product.                                               *)

\* Sums of any terms, from the empty one on.
LEMMA SumsExist ==
    ASSUME NEW m \in Nat, NEW e \in [0..m -> Int]
    PROVE  \E s \in [-1..m -> Int] : s[-1] = 0 /\ \A i \in 0..m : s[i] = s[i - 1] + e[i]
<1> DEFINE G == [p \in Nat \X Int |-> IF p[1] \in 1..(m + 1) THEN p[2] + e[p[1] - 1] ELSE 0]
<1>1. G \in [Nat \X Int -> Int]
  OBVIOUS
<1>2. PICK f \in [0..(m + 1) -> Int] : f[0] = 0 /\ \A k \in 1..(m + 1) : f[k] = G[<<k, f[k - 1]>>]
  <2> HIDE DEF G
  <2> PICK n \in Nat, g \in [Nat \X Int -> Int] : n = m + 1 /\ g = G
    BY <1>1
  <2>1. \E f \in [0..n -> Int] : f[0] = 0 /\ \A k \in 1..n : f[k] = g[<<k, f[k - 1]>>]
    BY ONLY n \in Nat, 0 \in Int, g \in [Nat \X Int -> Int], RecursionExists, ZenonT(30)
  <2> QED
    BY <2>1, Zenon
<1>3. \A k \in 1..(m + 1) : f[k] = f[k - 1] + e[k - 1]
  <2> TAKE k \in 1..(m + 1)
  <2>1. k \in Nat /\ f[k - 1] \in Int
    OBVIOUS
  <2> QED
    BY <1>2, <2>1, Zenon
<1> DEFINE s == [i \in -1..m |-> f[i + 1]]
<1>4. s \in [-1..m -> Int]
  OBVIOUS
<1>5. s[-1] = 0
  BY <1>2
<1>6. \A i \in 0..m : s[i] = s[i - 1] + e[i]
  <2> TAKE i \in 0..m
  <2>1. i + 1 \in 1..(m + 1) /\ i - 1 \in -1..m
    OBVIOUS
  <2>2. f[i + 1] = f[(i + 1) - 1] + e[(i + 1) - 1]
    BY <1>3, <2>1
  <2> QED
    BY <2>1, <2>2
<1> HIDE DEF s
<1> QED
  BY <1>4, <1>5, <1>6, Zenon

\* A column is the sum of its products, one after the other.
LEMMA ColumnSteps ==
    ASSUME LimbsFit, NEW a \in [Index -> Int], NEW b \in [Index -> Int], NEW k \in Int
    PROVE  \E s : /\ s[-1] = 0
                  /\ \A i \in Index : s[i] = s[i - 1] + (IF k - i \in Index THEN a[i] * b[k - i] ELSE 0)
                  /\ MulColumn(a, b, k) = s[L - 1]
<1> DEFINE Is(s) == s = [i \in -1..(L - 1) |->
                            IF i = -1 THEN 0
                            ELSE s[i - 1] + (IF k - i \in Index THEN a[i] * b[k - i] ELSE 0)]
<1>0. L \in Nat /\ L >= 5 /\ Index = 0..(L - 1)
  BY Sizes DEF Index
<1> DEFINE e == [i \in 0..(L - 1) |-> IF k - i \in Index THEN a[i] * b[k - i] ELSE 0]
<1>1. e \in [0..(L - 1) -> Int]
  <2>1. ASSUME NEW i \in 0..(L - 1), k - i \in Index
        PROVE  a[i] * b[k - i] \in Int
    <3>1. a[i] \in Int /\ b[k - i] \in Int
      BY <1>0, <2>1
    <3> QED
      BY <3>1
  <2> QED
    BY <2>1
<1>2. PICK f \in [-1..(L - 1) -> Int] : f[-1] = 0 /\ \A i \in 0..(L - 1) : f[i] = f[i - 1] + e[i]
  <2> HIDE DEF e
  <2>1. L - 1 \in Nat
    BY <1>0
  <2> QED
    BY <1>1, <2>1, SumsExist, Zenon
<1>3. Is(f)
  <2>1. f = [i \in -1..(L - 1) |-> f[i]]
    OBVIOUS
  <2>2. \A i \in -1..(L - 1) :
            f[i] = IF i = -1 THEN 0
                   ELSE f[i - 1] + (IF k - i \in Index THEN a[i] * b[k - i] ELSE 0)
    <3> TAKE i \in -1..(L - 1)
    <3>1. CASE i = -1
      BY <1>2, <3>1
    <3>2. CASE i # -1
      <4>1. i \in 0..(L - 1)
        BY <1>0, <3>2
      <4>2. f[i] = f[i - 1] + e[i] /\ e[i] = IF k - i \in Index THEN a[i] * b[k - i] ELSE 0
        BY <1>2, <4>1
      <4> HIDE DEF e
      <4> QED
        BY <3>2, <4>2
    <3> QED
      BY <3>1, <3>2
  <2> HIDE DEF e
  <2> QED
    BY <2>1, <2>2, Zenon
<1> DEFINE t == CHOOSE s : Is(s)
<1>4. Is(t)
  <2> HIDE DEF Is
  <2> QED
    BY <1>3
<1>5. \A i \in -1..(L - 1) :
          t[i] = IF i = -1 THEN 0
                 ELSE t[i - 1] + (IF k - i \in Index THEN a[i] * b[k - i] ELSE 0)
  <2> HIDE DEF t
  <2> QED
    BY <1>4, Zenon
<1>6. MulColumn(a, b, k) = t[L - 1]
  BY DEF MulColumn
<1> HIDE DEF t, Is, e
<1>7. t[-1] = 0
  BY <1>0, <1>5
<1>8. \A i \in Index : t[i] = t[i - 1] + (IF k - i \in Index THEN a[i] * b[k - i] ELSE 0)
  <2> TAKE i \in Index
  <2>1. i \in -1..(L - 1) /\ i # -1
    BY <1>0
  <2> QED
    BY <1>5, <2>1
<1> QED
  BY <1>6, <1>7, <1>8

\* The columns of five limbs.
LEMMA Columns5 ==
    ASSUME LimbsFit, L = 5, NEW a \in [Index -> Int], NEW b \in [Index -> Int]
    PROVE  /\ MulColumn(a, b, 0) = a[0] * b[0]
           /\ MulColumn(a, b, 1) = a[0] * b[1] + a[1] * b[0]
           /\ MulColumn(a, b, 2) = a[0] * b[2] + a[1] * b[1] + a[2] * b[0]
           /\ MulColumn(a, b, 3) = a[0] * b[3] + a[1] * b[2] + a[2] * b[1] + a[3] * b[0]
           /\ MulColumn(a, b, 4) = a[0] * b[4] + a[1] * b[3] + a[2] * b[2] + a[3] * b[1] + a[4] * b[0]
           /\ MulColumn(a, b, 5) = a[1] * b[4] + a[2] * b[3] + a[3] * b[2] + a[4] * b[1]
           /\ MulColumn(a, b, 6) = a[2] * b[4] + a[3] * b[3] + a[4] * b[2]
           /\ MulColumn(a, b, 7) = a[3] * b[4] + a[4] * b[3]
           /\ MulColumn(a, b, 8) = a[4] * b[4]
<1>0. Index = 0..4
  BY DEF Index
<1> DEFINE Term(k, i) == IF k - i \in Index THEN a[i] * b[k - i] ELSE 0
<1>1. ASSUME NEW k \in Int
      PROVE  MulColumn(a, b, k) = 0 + Term(k, 0) + Term(k, 1) + Term(k, 2) + Term(k, 3) + Term(k, 4)
  <2> PICK s : /\ s[-1] = 0
               /\ \A i \in Index : s[i] = s[i - 1] + Term(k, i)
               /\ MulColumn(a, b, k) = s[L - 1]
    BY ColumnSteps
  <2>1. \A i \in Index : s[i] = s[i - 1] + Term(k, i)
    OBVIOUS
  <2> HIDE DEF Term
  <2>2. s[0] = s[0 - 1] + Term(k, 0) /\ s[1] = s[1 - 1] + Term(k, 1) /\ s[2] = s[2 - 1] + Term(k, 2)
        /\ s[3] = s[3 - 1] + Term(k, 3) /\ s[4] = s[4 - 1] + Term(k, 4)
    BY <1>0, <2>1
  <2>3. 0 - 1 = -1 /\ 1 - 1 = 0 /\ 2 - 1 = 1 /\ 3 - 1 = 2 /\ 4 - 1 = 3 /\ L - 1 = 4
    OBVIOUS
  <2> QED
    BY <2>2, <2>3
<1>2. \A i, j \in Index : a[i] * b[j] \in Int
  BY <1>0
<1>3. 0 \in Index /\ 1 \in Index /\ 2 \in Index /\ 3 \in Index /\ 4 \in Index
  BY <1>0
<1>4. MulColumn(a, b, 0) = a[0] * b[0]
  BY <1>0, <1>1
<1>5. MulColumn(a, b, 1) = a[0] * b[1] + a[1] * b[0]
  BY <1>0, <1>1
<1>6. MulColumn(a, b, 2) = a[0] * b[2] + a[1] * b[1] + a[2] * b[0]
  BY <1>0, <1>1
<1>7. MulColumn(a, b, 3) = a[0] * b[3] + a[1] * b[2] + a[2] * b[1] + a[3] * b[0]
  BY <1>0, <1>1
<1>8. MulColumn(a, b, 4) = a[0] * b[4] + a[1] * b[3] + a[2] * b[2] + a[3] * b[1] + a[4] * b[0]
  BY <1>0, <1>1
<1>9. MulColumn(a, b, 5) = a[1] * b[4] + a[2] * b[3] + a[3] * b[2] + a[4] * b[1]
  BY <1>0, <1>1
<1>10. MulColumn(a, b, 6) = a[2] * b[4] + a[3] * b[3] + a[4] * b[2]
  BY <1>0, <1>1
<1>11. MulColumn(a, b, 7) = a[3] * b[4] + a[4] * b[3]
  BY <1>0, <1>1
<1>12. MulColumn(a, b, 8) = a[4] * b[4]
  BY <1>0, <1>1
<1> QED
  BY <1>4, <1>5, <1>6, <1>7, <1>8, <1>9, <1>10, <1>11, <1>12

\* Weights multiply.
LEMMA WeightSum ==
    ASSUME LimbsFit, NEW j \in Nat, NEW k \in Nat
    PROVE  Weight(j + k) = Weight(j) * Weight(k)
<1> PICK b \in Nat : b = Bits
  BY Sizes
<1>1. b * j \in Nat /\ b * k \in Nat /\ b * (j + k) = b * j + b * k
  OBVIOUS
<1>2. 2^(b * j + b * k) = 2^(b * j) * 2^(b * k)
  BY <1>1, PowerSum
<1> QED
  BY <1>1, <1>2 DEF Weight

\* What limb i adds to a column of a square.
SqrTerm(a, k, i) ==
    IF k - i \notin Index THEN 0
    ELSE IF 2 * i = k THEN a[i] * a[i]
    ELSE ((a[i] * 2) % 2^Word) * a[k - i]

\* A column of a square is the sum of its products, one after the other.
LEMMA SqrSteps ==
    ASSUME LimbsFit, NEW a \in [Index -> Int], NEW k \in Nat, NEW m \in Nat, m = k \div 2,
           m \in Index
    PROVE  \E s : /\ s[-1] = 0
                  /\ \A i \in 0..m : s[i] = s[i - 1] + SqrTerm(a, k, i)
                  /\ SqrColumn(a, k) = s[m]
<1> DEFINE Term(i) == SqrTerm(a, k, i)
           Is(s) == s = [i \in -1..m |-> IF i = -1 THEN 0 ELSE s[i - 1] + Term(i)]
<1>0. Index = 0..(L - 1) /\ L \in Nat
  BY Sizes DEF Index
<1> DEFINE e == [i \in 0..m |-> Term(i)]
<1>1. e \in [0..m -> Int]
  <2>1. ASSUME NEW i \in 0..m
        PROVE  Term(i) \in Int
    <3>1. i \in Index /\ a[i] \in Int
      BY <1>0
    <3>2. 2^Word \in Nat /\ 2^Word >= 1
      BY PowerPositive, Zenon DEF LimbsFit
    <3> PICK W \in Nat, x \in Int : W = 2^Word /\ W >= 1 /\ x = a[i]
      BY <3>1, <3>2
    <3>3. ((x * 2) % W) \in Int
      OBVIOUS
    <3>4. x * x \in Int
      OBVIOUS
    <3>5. ASSUME k - i \in Index
          PROVE  ((x * 2) % W) * a[k - i] \in Int
      <4>1. a[k - i] \in Int
        BY <3>5
      <4> QED
        BY <3>3, <4>1
    <3> QED
      BY <3>4, <3>5 DEF SqrTerm
  <2> HIDE DEF Term
  <2> QED
    BY <2>1
<1>2. PICK f \in [-1..m -> Int] : f[-1] = 0 /\ \A i \in 0..m : f[i] = f[i - 1] + e[i]
  <2> HIDE DEF e
  <2> QED
    BY ONLY <1>1, m \in Nat, SumsExist, Zenon
<1> HIDE DEF Term
<1>3. Is(f)
  <2>1. f = [i \in -1..m |-> f[i]]
    OBVIOUS
  <2>2. \A i \in -1..m : f[i] = IF i = -1 THEN 0 ELSE f[i - 1] + Term(i)
    <3> TAKE i \in -1..m
    <3>1. CASE i = -1
      BY <1>2, <3>1
    <3>2. CASE i # -1
      <4>1. i \in 0..m
        BY <3>2
      <4> QED
        BY <1>2, <3>2, <4>1
    <3> QED
      BY <3>1, <3>2
  <2> QED
    BY <2>1, <2>2
<1> DEFINE t == CHOOSE s : Is(s)
<1>4. Is(t)
  <2> HIDE DEF Is
  <2> QED
    BY <1>3
<1>5. \A i \in -1..m : t[i] = IF i = -1 THEN 0 ELSE t[i - 1] + Term(i)
  <2> HIDE DEF t
  <2> QED
    BY <1>4
<1>6. SqrColumn(a, k) = t[m]
  BY DEF SqrColumn, Term, SqrTerm
<1> HIDE DEF t, Is, e
<1>7. t[-1] = 0
  BY <1>5
<1>8. \A i \in 0..m : t[i] = t[i - 1] + Term(i)
  <2> TAKE i \in 0..m
  <2>1. i \in -1..m /\ i # -1
    OBVIOUS
  <2> QED
    BY <1>5, <2>1
<1> QED
  BY <1>6, <1>7, <1>8 DEF Term

-----------------------------------------------------------------------------
(* The columns of a product of any number of limbs.                        *)

\* What limb i of a adds to column k, and what the limbs up to each add.
MulTerm(a, b, k, i) == IF k - i \in Index THEN a[i] * b[k - i] ELSE 0
IsPart(s, a, b, k) ==
    /\ s[-1] = 0 /\ \A i \in Index : s[i] = s[i - 1] + MulTerm(a, b, k, i)
    /\ MulColumn(a, b, k) = s[L - 1]
Part(a, b, k) == CHOOSE s : IsPart(s, a, b, k)

\* They are integers.
LEMMA PartSteps ==
    ASSUME LimbsFit, NEW a \in [Index -> Int], NEW b \in [Index -> Int], NEW k \in Int
    PROVE  /\ IsPart(Part(a, b, k), a, b, k)
           /\ \A i \in -1..(L - 1) : Part(a, b, k)[i] \in Int
           /\ \A i \in Index : MulTerm(a, b, k, i) \in Int
<1>0. L \in Nat /\ L >= 5 /\ Index = 0..(L - 1)
  BY Sizes DEF Index
<1>1. IsPart(Part(a, b, k), a, b, k)
  <2>1. \E s : IsPart(s, a, b, k)
    <3>1. PICK s : /\ s[-1] = 0
                   /\ \A i \in Index : s[i] = s[i - 1] + (IF k - i \in Index THEN a[i] * b[k - i] ELSE 0)
                   /\ MulColumn(a, b, k) = s[L - 1]
      BY ColumnSteps, Zenon
    <3>2. IsPart(s, a, b, k)
      BY <3>1, Zenon DEF IsPart, MulTerm
    <3> QED
      BY <3>2
  <2> QED
    BY <2>1, Zenon DEF Part
<1>2. \A i \in Index : MulTerm(a, b, k, i) \in Int
  <2> TAKE i \in Index
  <2>1. CASE k - i \in Index
    <3>1. a[i] \in Int /\ b[k - i] \in Int
      BY <2>1
    <3>2. a[i] * b[k - i] \in Int
      BY <3>1
    <3> QED
      BY <2>1, <3>2 DEF MulTerm
  <2>2. CASE k - i \notin Index
    BY <2>2 DEF MulTerm
  <2> QED
    BY <2>1, <2>2
<1> PICK s : s = Part(a, b, k)
  OBVIOUS
<1> DEFINE T == {j \in 0..L : s[j - 1] \in Int}
<1>3. 0 \in T
  BY <1>0, <1>1, SMTT(30) DEF IsPart
<1>4. \A j \in Index : j \in T => j + 1 \in T
  <2> TAKE j \in Index
  <2> HAVE j \in T
  <2>1. s[j] = s[j - 1] + MulTerm(a, b, k, j) /\ s[j - 1] \in Int /\ MulTerm(a, b, k, j) \in Int
    BY <1>1, <1>2 DEF IsPart
  <2>2. (j + 1) - 1 = j /\ j + 1 \in 0..L
    BY <1>0
  <2> QED
    BY <2>1, <2>2
<1>5. \A j \in 0..L : j \in T
  <2> HIDE DEF T
  <2> QED
    BY <1>3, <1>4, LimbInduction
<1>6. \A i \in -1..(L - 1) : s[i] \in Int
  <2> TAKE i \in -1..(L - 1)
  <2>1. i + 1 \in 0..L /\ (i + 1) - 1 = i
    BY <1>0
  <2> QED
    BY <1>5, <2>1
<1> QED
  BY <1>1, <1>2, <1>6

\* f has the sums of what the first m limbs of a add to the columns.
IsTotal(f, a, b, m) ==
    /\ f \in [0..(2 * L - 1) -> Int] /\ f[0] = 0
    /\ \A k \in 0..(2 * L - 2) : f[k + 1] = f[k] + Part(a, b, k)[m - 1] * Weight(k)

\* How many limbs of b limb m of a has met below column k.
Met(m, k) == IF k < m THEN 0 ELSE IF k - m > L THEN L ELSE k - m

\* What limb m of a adds to a column is its product with the next of them.
LEMMA MetNext ==
    ASSUME LimbsFit, NEW a \in [Index -> Int], NEW b \in [Index -> Int],
           NEW m \in Index, NEW k \in Nat
    PROVE  /\ Met(m, k) \in 0..L /\ Met(m, k + 1) \in 0..L
           /\ Worth(b)[Met(m, k)] \in Int /\ Worth(b)[Met(m, k + 1)] \in Int
           /\ MulTerm(a, b, k, m) * Weight(k)
                  = a[m] * Weight(m) * Worth(b)[Met(m, k + 1)] - a[m] * Weight(m) * Worth(b)[Met(m, k)]
<1>0. L \in Nat /\ L >= 5 /\ Index = 0..(L - 1) /\ m \in Nat /\ m <= L - 1
  BY Sizes DEF Index
<1>1. Met(m, k) \in 0..L /\ Met(m, k + 1) \in 0..L
  BY <1>0 DEF Met
<1>2. Worth(b) \in [0..L -> Int] /\ Worth(b)[0] = 0
      /\ \A i \in Index : Worth(b)[i + 1] = Worth(b)[i] + b[i] * Weight(i)
  BY WorthSteps
<1>3. Worth(b)[Met(m, k)] \in Int /\ Worth(b)[Met(m, k + 1)] \in Int /\ a[m] \in Int
  BY <1>1, <1>2
<1>4. Weight(m) \in Nat /\ Weight(k) \in Nat
  BY <1>0, Weights, Zenon
<1>5. PICK x \in Int, w \in Int, u \in Int, v \in Int, y \in Int :
          x = a[m] /\ w = Weight(m) /\ u = Worth(b)[Met(m, k)] /\ v = Worth(b)[Met(m, k + 1)] /\ y = Weight(k)
  BY <1>3, <1>4
<1>6. CASE k - m \in Index
  <2>1. PICK j \in Index : j = k - m /\ k = m + j
    BY <1>0, <1>6
  <2>2. Met(m, k) = j /\ Met(m, k + 1) = j + 1
    BY <1>0, <2>1 DEF Met
  <2>3. PICK c \in Int, z \in Int : c = b[j] /\ z = Weight(j)
    <3>1. j \in Nat
      BY <1>0
    <3> QED
      BY <3>1, Weights
  <2>4. v = u + c * z
    BY <1>2, <1>5, <2>2, <2>3, Zenon
  <2>5. y = w * z
    <3>1. j \in Nat /\ k = m + j
      BY <1>0, <2>1
    <3>2. Weight(m + j) = Weight(m) * Weight(j)
      BY ONLY LimbsFit, <1>0, <3>1, WeightSum
    <3> QED
      BY <1>5, <2>3, <3>1, <3>2, Zenon
  <2>6. MulTerm(a, b, k, m) = x * c
    BY <1>5, <1>6, <2>1, <2>3, Zenon DEF MulTerm
  <2>7. (x * c) * (w * z) = x * w * (u + c * z) - x * w * u
    BY ONLY x \in Int, c \in Int, w \in Int, z \in Int, u \in Int
  <2> QED
    BY <1>1, <1>3, <1>5, <2>4, <2>5, <2>6, <2>7, Zenon
<1>7. CASE k - m \notin Index
  <2>1. Met(m, k + 1) = Met(m, k)
    BY <1>0, <1>7 DEF Met
  <2>2. MulTerm(a, b, k, m) = 0
    BY <1>7 DEF MulTerm
  <2>3. 0 * y = x * w * u - x * w * u
    OBVIOUS
  <2> QED
    BY <1>1, <1>3, <1>5, <2>1, <2>2, <2>3, Zenon
<1> QED
  BY <1>6, <1>7

\* They come to the number of these limbs times the other.
LEMMA Totals ==
    ASSUME LimbsFit, NEW a \in [Index -> Int], NEW b \in [Index -> Int]
    PROVE  \A m \in 0..L : \A f : IsTotal(f, a, b, m) => f[2 * L - 1] = Worth(a)[m] * Value(b)
<1>0. L \in Nat /\ L >= 5 /\ Index = 0..(L - 1)
  BY Sizes DEF Index
<1> PICK n \in Nat : n = 2 * L - 1 /\ n >= 1
  BY <1>0
<1>1. Worth(a) \in [0..L -> Int] /\ Worth(a)[0] = 0
      /\ \A i \in Index : Worth(a)[i + 1] = Worth(a)[i] + a[i] * Weight(i)
  BY WorthSteps
<1>2. Value(b) \in Int /\ Worth(b)[L] = Value(b) /\ Worth(b)[0] = 0
  BY ValueType, WorthSteps
<1> DEFINE S == {m \in 0..L : \A f : IsTotal(f, a, b, m) => f[2 * L - 1] = Worth(a)[m] * Value(b)}
<1>3. 0 \in S
  <2>1. ASSUME NEW f, IsTotal(f, a, b, 0)
        PROVE  f[2 * L - 1] = Worth(a)[0] * Value(b)
    <3> DEFINE T == {k \in 0..n : f[k] = 0}
    <3>1. 0 \in T
      BY <2>1 DEF IsTotal
    <3>2. \A k \in 0..(n - 1) : k \in T => k + 1 \in T
      <4> TAKE k \in 0..(n - 1)
      <4> HAVE k \in T
      <4>1. k \in 0..(2 * L - 2) /\ k \in Int /\ k \in Nat /\ k + 1 \in 0..n
        BY <1>0
      <4>2. f[k + 1] = f[k] + Part(a, b, k)[0 - 1] * Weight(k)
        BY <2>1, <4>1, Zenon DEF IsTotal
      <4>3. Part(a, b, k)[-1] = 0
        BY <4>1, PartSteps, Zenon DEF IsPart
      <4>4. Weight(k) \in Nat
        BY <4>1, Weights
      <4>5. f[k + 1] = 0 + 0 * Weight(k)
        BY <4>2, <4>3
      <4> QED
        BY <4>1, <4>4, <4>5
    <3>3. \A k \in 0..n : k \in T
      <4> HIDE DEF T
      <4> QED
        BY <3>1, <3>2, UpTo
    <3>4. f[n] = 0
      <4>1. n \in 0..n
        OBVIOUS
      <4> QED
        BY <3>3, <4>1
    <3>5. Worth(a)[0] * Value(b) = 0
      BY <1>1, <1>2
    <3> QED
      BY <3>4, <3>5
  <2> QED
    BY <1>0, <2>1
<1>4. \A m \in Index : m \in S => m + 1 \in S
  <2> TAKE m \in Index
  <2> HAVE m \in S
  <2>0. m \in Nat /\ m + 1 \in 0..L /\ m \in 0..L /\ (m + 1) - 1 = m
    BY <1>0
  <2>1. ASSUME NEW f, IsTotal(f, a, b, m + 1)
        PROVE  f[2 * L - 1] = Worth(a)[m + 1] * Value(b)
    <3>1. f \in [0..n -> Int] /\ f[0] = 0
      BY <2>1 DEF IsTotal
    <3>2. \A k \in 0..(n - 1) : f[k + 1] = f[k] + Part(a, b, k)[m] * Weight(k)
      <4> TAKE k \in 0..(n - 1)
      <4>1. k \in 0..(2 * L - 2)
        BY <1>0
      <4> QED
        BY <2>0, <2>1, <4>1, Zenon DEF IsTotal
    <3>3. PICK c \in Int : c = a[m] * Weight(m)
      BY <2>0, Weights
    <3> DEFINE h(k) == c * Worth(b)[Met(m, k)]
               g == [k \in 0..n |-> f[k] - h(k)]
    <3>4. \A k \in Nat : /\ h(k) \in Int /\ h(k + 1) \in Int
                         /\ MulTerm(a, b, k, m) * Weight(k) = h(k + 1) - h(k)
      <4> TAKE k \in Nat
      <4>1. /\ Worth(b)[Met(m, k)] \in Int /\ Worth(b)[Met(m, k + 1)] \in Int
            /\ MulTerm(a, b, k, m) * Weight(k)
                  = a[m] * Weight(m) * Worth(b)[Met(m, k + 1)] - a[m] * Weight(m) * Worth(b)[Met(m, k)]
        BY MetNext
      <4> QED
        BY <3>3, <4>1
    <3> HIDE DEF h
    <3>5. IsTotal(g, a, b, m)
      <4>1. g \in [0..(2 * L - 1) -> Int]
        <5>1. \A k \in 0..n : f[k] - h(k) \in Int
          <6> TAKE k \in 0..n
          <6>1. k \in Nat /\ f[k] \in Int
            BY <3>1
          <6>2. h(k) \in Int
            BY <3>4, <6>1, Zenon
          <6> QED
            BY <6>1, <6>2
        <5> QED
          BY <5>1
      <4>2. g[0] = 0
        <5>1. Met(m, 0) = 0 \/ Met(m, 0) = 0 - m
          BY <1>0, <2>0 DEF Met
        <5>2. Met(m, 0) = 0
          BY <1>0, <2>0 DEF Met
        <5>3. h(0) = c * 0
          BY <1>2, <5>2 DEF h
        <5> QED
          BY <3>1, <5>3
      <4>3. \A k \in 0..(2 * L - 2) : g[k + 1] = g[k] + Part(a, b, k)[m - 1] * Weight(k)
        <5> TAKE k \in 0..(2 * L - 2)
        <5>1. k \in Nat /\ k \in 0..(n - 1) /\ k \in 0..n /\ k + 1 \in 0..n
          BY <1>0
        <5>2. f[k + 1] = f[k] + Part(a, b, k)[m] * Weight(k)
          BY <3>2, <5>1
        <5>3. Part(a, b, k)[m] = Part(a, b, k)[m - 1] + MulTerm(a, b, k, m)
              /\ Part(a, b, k)[m - 1] \in Int /\ MulTerm(a, b, k, m) \in Int
          <6>1. m - 1 \in -1..(L - 1) /\ k \in Int
            BY <1>0, <5>1
          <6> QED
            BY <6>1, PartSteps DEF IsPart
        <5>4. MulTerm(a, b, k, m) * Weight(k) = h(k + 1) - h(k) /\ h(k) \in Int /\ h(k + 1) \in Int
          BY <3>4, <5>1
        <5>5. Weight(k) \in Nat /\ f[k] \in Int /\ f[k + 1] \in Int
          BY <3>1, <5>1, Weights, Zenon
        <5>6. g[k + 1] = f[k + 1] - h(k + 1) /\ g[k] = f[k] - h(k)
          BY <5>1
        <5>7. PICK w \in Int, p \in Int, t \in Int : w = Weight(k) /\ p = Part(a, b, k)[m - 1] /\ t = MulTerm(a, b, k, m)
          BY <5>3, <5>5
        <5>8. (p + t) * w = p * w + t * w
          OBVIOUS
        <5> HIDE DEF g
        <5>9. f[k + 1] = f[k] + (p + t) * w
          BY <5>2, <5>3, <5>7, Zenon
        <5>10. g[k + 1] = g[k] + p * w
          BY <5>4, <5>5, <5>6, <5>7, <5>8, <5>9
        <5> QED
          BY <5>7, <5>10, Zenon
      <4> HIDE DEF g
      <4> QED
        BY <4>1, <4>2, <4>3 DEF IsTotal
    <3>6. g[n] = Worth(a)[m] * Value(b)
      <4> HIDE DEF g
      <4> QED
        BY <3>5
    <3>7. h(n) = c * Value(b)
      <4>1. Met(m, n) = L
        BY <1>0, <2>0 DEF Met
      <4> QED
        BY <1>2, <4>1 DEF h
    <3>8. f[n] = Worth(a)[m] * Value(b) + c * Value(b)
      <4>1. g[n] = f[n] - h(n) /\ f[n] \in Int
        <5>1. n \in 0..n
          OBVIOUS
        <5> QED
          BY <3>1, <5>1
      <4>2. Worth(a)[m] \in Int
        BY <1>1, <2>0
      <4>3. PICK x \in Int, y \in Int : x = Worth(a)[m] * Value(b) /\ y = c * Value(b)
        BY <1>2, <4>2
      <4> HIDE DEF g
      <4> QED
        BY <3>6, <3>7, <4>1, <4>3
    <3>9. Worth(a)[m + 1] = Worth(a)[m] + c
      BY <1>1, <3>3, Zenon
    <3>10. PICK x \in Int, y \in Int : x = Worth(a)[m] /\ y = Value(b)
      BY <1>1, <1>2, <2>0, Zenon
    <3>11. (x + c) * y = x * y + c * y
      OBVIOUS
    <3> QED
      BY <3>8, <3>9, <3>10, <3>11, Zenon
  <2> QED
    BY <2>0, <2>1
<1>5. \A m \in 0..L : m \in S
  <2> HIDE DEF S
  <2> QED
    BY <1>3, <1>4, LimbInduction
<1> QED
  BY <1>5

\* The columns of a product add up to it.
LEMMA Convolution ==
    ASSUME LimbsFit, NEW a \in [Index -> Int], NEW b \in [Index -> Int],
           NEW f \in [0..(2 * L - 1) -> Int], f[0] = 0,
           \A k \in 0..(2 * L - 2) : f[k + 1] = f[k] + MulColumn(a, b, k) * Weight(k)
    PROVE  f[2 * L - 1] = Value(a) * Value(b)
<1>0. L \in Nat /\ L >= 5 /\ L \in 0..L
  BY Sizes
<1>1. \A k \in 0..(2 * L - 2) : MulColumn(a, b, k) = Part(a, b, k)[L - 1]
  <2> TAKE k \in 0..(2 * L - 2)
  <2>1. k \in Int
    OBVIOUS
  <2> QED
    BY <2>1, PartSteps, Zenon DEF IsPart
<1>2. IsTotal(f, a, b, L)
  BY <1>1, Zenon DEF IsTotal
<1> QED
  BY <1>0, <1>2, Totals, Zenon DEF Value

\* What limb i adds to column k, and nothing if there is no such limb.
ETerm(a, k, i) == IF i \in Index THEN MulTerm(a, a, k, i) ELSE 0

\* What the limbs up to i add to it.
Ext(a, k, i) == Part(a, a, k)[IF i > L - 1 THEN L - 1 ELSE i]

\* The columns of a square with a doubled limb are those of the product with itself,
\* if no doubled limb is too large for its word.
LEMMA SqrColumns ==
    ASSUME LimbsFit, NEW a \in [Index -> Int], \A i \in Index : (a[i] * 2) % 2^Word = 2 * a[i],
           NEW k \in 0..(2 * L - 2)
    PROVE  SqrColumn(a, k) = MulColumn(a, a, k)
<1>0. L \in Nat /\ L >= 5 /\ Index = 0..(L - 1) /\ k \in Nat /\ k \in Int
  BY Sizes DEF Index
<1>1. PICK m \in Nat : m = k \div 2 /\ (k = 2 * m \/ k = 2 * m + 1)
  <2>1. k \div 2 \in Nat /\ (k = 2 * (k \div 2) \/ k = 2 * (k \div 2) + 1)
    BY ONLY k \in 0..(2 * L - 2)
  <2> QED
    BY <2>1
<1>2. m \in Index /\ m \in Nat /\ m <= L - 1
  BY ONLY <1>0, <1>1, k \in 0..(2 * L - 2)
<1>3. PICK s : s[-1] = 0 /\ (\A i \in 0..m : s[i] = s[i - 1] + SqrTerm(a, k, i)) /\ SqrColumn(a, k) = s[m]
  <2>1. m = k \div 2
    BY <1>1
  <2>2. k \in Nat
    BY <1>0
  <2>3. m \in Nat /\ m \in Index
    BY <1>2
  <2> QED
    BY ONLY <2>1, <2>2, <2>3, LimbsFit, a \in [Index -> Int], SqrSteps
<1>4. PICK t : t = Part(a, a, k)
  OBVIOUS
<1>5. /\ t[-1] = 0 /\ \A i \in Index : t[i] = t[i - 1] + MulTerm(a, a, k, i)
      /\ MulColumn(a, a, k) = t[L - 1] /\ \A i \in -1..(L - 1) : t[i] \in Int
      /\ \A i \in Index : MulTerm(a, a, k, i) \in Int
  <2>1. IsPart(t, a, a, k) /\ (\A i \in -1..(L - 1) : t[i] \in Int) /\ \A i \in Index : MulTerm(a, a, k, i) \in Int
    BY <1>0, <1>4, PartSteps, Zenon
  <2> QED
    BY <2>1, Zenon DEF IsPart
<1>6. ASSUME NEW i \in Nat
      PROVE  /\ ETerm(a, k, i) \in Int /\ Ext(a, k, i) \in Int /\ Ext(a, k, i - 1) \in Int
             /\ Ext(a, k, i) = Ext(a, k, i - 1) + ETerm(a, k, i)
  <2>1. CASE i \in Index
    <3>1. i <= L - 1 /\ i - 1 <= L - 1 /\ i \in -1..(L - 1) /\ i - 1 \in -1..(L - 1)
      BY <1>0, <2>1
    <3>2. Ext(a, k, i) = t[i] /\ Ext(a, k, i - 1) = t[i - 1] /\ ETerm(a, k, i) = MulTerm(a, a, k, i)
      BY <1>0, <1>4, <2>1, <3>1 DEF Ext, ETerm
    <3> QED
      BY <1>5, <2>1, <3>1, <3>2
  <2>2. CASE i \notin Index
    <3>1. i > L - 1 /\ (i - 1 > L - 1 \/ i - 1 = L - 1) /\ L - 1 \in -1..(L - 1)
      BY <1>0, <2>2
    <3>2. Ext(a, k, i) = t[L - 1] /\ Ext(a, k, i - 1) = t[L - 1] /\ ETerm(a, k, i) = 0
      BY <1>0, <1>4, <2>2, <3>1 DEF Ext, ETerm
    <3>3. t[L - 1] \in Int
      BY <1>5, <3>1
    <3> QED
      BY <3>2, <3>3
  <2> QED
    BY <2>1, <2>2
<1>7. Ext(a, k, k) = t[L - 1]
  <2>1. CASE k > L - 1
    BY <1>4, <2>1 DEF Ext
  <2>2. CASE ~(k > L - 1)
    <3>1. PICK n \in Nat : n = (L - 1) - k
      BY <1>0, <2>2
    <3> DEFINE V == {j \in 0..n : t[k + j] = t[k]}
    <3>2. 0 \in V
      BY <1>0
    <3>3. \A j \in 0..(n - 1) : j \in V => j + 1 \in V
      <4> TAKE j \in 0..(n - 1)
      <4> HAVE j \in V
      <4>1. PICK i \in Index : i = k + (j + 1) /\ i - 1 = k + j /\ k - i \notin Index
        BY <1>0, <2>2, <3>1
      <4>2. t[i] = t[i - 1] + 0
        BY <1>5, <4>1 DEF MulTerm
      <4>3. i - 1 \in -1..(L - 1)
        BY <1>0, <4>1
      <4>4. t[i - 1] \in Int /\ j + 1 \in 0..n
        BY <1>5, <4>3
      <4> QED
        BY <4>1, <4>2, <4>4
    <3>4. \A j \in 0..n : j \in V
      <4> HIDE DEF V
      <4> QED
        BY <3>2, <3>3, UpTo
    <3>5. n \in V /\ k + n = L - 1
      <4>1. n \in 0..n
        OBVIOUS
      <4>2. n \in V
        <5> HIDE DEF V
        <5> QED
          BY <3>4, <4>1
      <4>3. k + n = L - 1
        BY ONLY <1>0, <3>1
      <4> QED
        BY ONLY <4>2, <4>3
    <3>6. Ext(a, k, k) = t[k]
      BY <1>4, <2>2 DEF Ext
    <3> QED
      BY <3>5, <3>6
  <2> QED
    BY <2>1, <2>2
<1>8. ASSUME NEW j \in 0..m
      PROVE  /\ SqrTerm(a, k, j) \in Int
             /\ 2 * j # k => SqrTerm(a, k, j) = ETerm(a, k, j) + ETerm(a, k, k - j)
             /\ 2 * j = k => SqrTerm(a, k, j) = ETerm(a, k, j)
  <2>1. j \in Index /\ k - j \in Nat
    BY <1>0, <1>1, <1>2
  <2>2. CASE k - j \in Index
    <3>1. PICK x \in Int, y \in Int : x = a[j] /\ y = a[k - j]
      BY <2>1, <2>2
    <3>2. ETerm(a, k, j) = x * y
      BY <2>1, <2>2, <3>1 DEF ETerm, MulTerm
    <3>3. ETerm(a, k, k - j) = y * x
      <4>1. k - (k - j) = j
        BY <1>0
      <4> QED
        BY <2>1, <2>2, <3>1, <4>1 DEF ETerm, MulTerm
    <3>4. 2 * j = k => k - j = j
      BY <1>0
    <3>5. 2 * j = k => SqrTerm(a, k, j) = x * x /\ x = y
      BY <2>2, <3>1, <3>4 DEF SqrTerm
    <3>6. 2 * j # k => SqrTerm(a, k, j) = (2 * x) * y
      <4>1. ((a[j] * 2) % 2^Word) = 2 * a[j]
        BY <2>1
      <4> QED
        BY <2>2, <3>1, <4>1 DEF SqrTerm
    <3>7. (2 * x) * y = x * y + y * x /\ (2 * x) * y \in Int /\ x * x \in Int
      BY ONLY x \in Int, y \in Int
    <3> QED
      BY ONLY <3>2, <3>3, <3>5, <3>6, <3>7, Zenon
  <2>3. CASE k - j \notin Index
    <3>1. SqrTerm(a, k, j) = 0 /\ ETerm(a, k, j) = 0 /\ ETerm(a, k, k - j) = 0
      BY <2>3 DEF SqrTerm, ETerm, MulTerm
    <3> QED
      BY ONLY <3>1
  <2> QED
    BY <2>2, <2>3
<1>9. PICK n \in Nat : (k = 2 * m => n = m) /\ (k # 2 * m => n = m + 1)
  OBVIOUS
<1> DEFINE V == {j \in 0..n : /\ s[j - 1] \in Int
                              /\ s[j - 1] = Ext(a, k, j - 1) + (Ext(a, k, k) - Ext(a, k, k - j))}
<1>10. 0 \in V
  <2>1. Ext(a, k, -1) = 0 /\ Ext(a, k, k) \in Int
    <3>1. ~(-1 > L - 1)
      BY <1>0
    <3>2. Ext(a, k, -1) = t[-1]
      BY <1>4, <3>1 DEF Ext
    <3> QED
      BY <1>0, <1>5, <1>6, <3>2
  <2>2. 0 - 1 = -1 /\ k - 0 = k /\ 0 \in 0..n
    BY <1>0
  <2>3. 0 = 0 + (Ext(a, k, k) - Ext(a, k, k)) /\ 0 \in Int
    BY <2>1
  <2> QED
    BY ONLY <1>3, <2>1, <2>2, <2>3, Zenon
<1>11. \A j \in 0..(n - 1) : j \in V => j + 1 \in V
  <2> TAKE j \in 0..(n - 1)
  <2> HAVE j \in V
  <2>1. j \in 0..m /\ 2 * j # k /\ j \in Nat /\ k - j \in Nat /\ j + 1 \in 0..n /\ (j + 1) - 1 = j
        /\ k - (j + 1) = (k - j) - 1
    BY <1>0, <1>1, <1>9
  <2>2. s[j] = s[j - 1] + SqrTerm(a, k, j)
    BY <1>3, <2>1
  <2>3. SqrTerm(a, k, j) = ETerm(a, k, j) + ETerm(a, k, k - j)
    BY <1>8, <2>1
  <2>4. s[j - 1] \in Int /\ s[j - 1] = Ext(a, k, j - 1) + (Ext(a, k, k) - Ext(a, k, k - j))
    OBVIOUS
  <2>5. ETerm(a, k, j) \in Int /\ Ext(a, k, j) \in Int /\ Ext(a, k, j - 1) \in Int
        /\ Ext(a, k, j) = Ext(a, k, j - 1) + ETerm(a, k, j)
    BY <1>6, <2>1
  <2>6. PICK i \in Nat : i = k - j
    BY <2>1
  <2>7. ETerm(a, k, i) \in Int /\ Ext(a, k, i) \in Int /\ Ext(a, k, i - 1) \in Int
        /\ Ext(a, k, i) = Ext(a, k, i - 1) + ETerm(a, k, i)
    BY <1>6
  <2>8. Ext(a, k, k) \in Int
    BY <1>0, <1>6
  <2>9. s[j] \in Int /\ s[j] = Ext(a, k, j) + (Ext(a, k, k) - Ext(a, k, i - 1))
    BY ONLY <2>2, <2>3, <2>4, <2>5, <2>6, <2>7, <2>8
  <2> QED
    BY ONLY <2>1, <2>6, <2>9, Zenon DEF V
<1>12. \A j \in 0..n : j \in V
  <2> HIDE DEF V
  <2> QED
    BY <1>10, <1>11, UpTo
<1>13. s[n - 1] \in Int /\ s[n - 1] = Ext(a, k, n - 1) + (Ext(a, k, k) - Ext(a, k, k - n))
  <2>1. n \in V
    BY <1>12
  <2> QED
    BY <2>1
<1>14. Ext(a, k, k) \in Int /\ Ext(a, k, m) \in Int /\ Ext(a, k, m - 1) \in Int /\ ETerm(a, k, m) \in Int
       /\ Ext(a, k, m) = Ext(a, k, m - 1) + ETerm(a, k, m)
  BY <1>0, <1>6, Zenon
<1>15. s[m] = Ext(a, k, k)
  <2>1. CASE k = 2 * m
    <3>1. n = m /\ k - n = m /\ 2 * m = k /\ m \in 0..m
      BY <1>0, <1>9, <2>1
    <3>2. s[m] = s[m - 1] + SqrTerm(a, k, m) /\ SqrTerm(a, k, m) = ETerm(a, k, m)
      BY <1>3, <1>8, <3>1
    <3> QED
      BY ONLY <1>13, <1>14, <3>1, <3>2
  <2>2. CASE k # 2 * m
    <3>1. n - 1 = m /\ k - n = m
      BY <1>0, <1>1, <1>9, <2>2
    <3> QED
      BY ONLY <1>13, <1>14, <3>1
  <2> QED
    BY <2>1, <2>2
<1> QED
  BY ONLY <1>3, <1>5, <1>7, <1>15, Zenon

-----------------------------------------------------------------------------
(* Five limbs.                                                             *)

\* Quotient and remainder of a number that is at most K times the modulus.
LEMMA Parts ==
    ASSUME NEW m \in Nat, m >= 1, NEW x \in Int, NEW K \in Nat, 0 <= x, x <= m * K
    PROVE  \E q \in 0..K, r \in 0..(m - 1) : q = x \div m /\ r = (x % m) /\ x = m * q + r
<1>1. (x % m) \in 0..(m - 1) /\ x = m * (x \div m) + (x % m) /\ x \div m \in Int
  BY ONLY m \in Nat, m >= 1, x \in Int, Division
<1>2. x < m * (K + 1)
  OBVIOUS
<1>3. x \div m \in Nat /\ x \div m <= K
  BY ONLY m \in Nat, m >= 1, x \in Int, 0 <= x, K \in Nat, K \in Int, <1>2, DivBound
<1> QED
  BY <1>1, <1>3

\* The sums of Product5, by the columns p, and what they come to.
R5    == C[1] * 2^Slack
D3(p) == p[3] + (p[8] % M1) * R5
D4(p) == (D3(p) \div M1) + p[4] + (p[8] \div M1) * R5
T4(p) == D4(p) % M1
D5(p) == (D4(p) \div M1) + p[5]
U0(p) == (D5(p) % M1) * 2^Slack + (T4(p) \div Top1)
D6(p) == (D5(p) \div M1) + p[6]
D7(p) == (D6(p) \div M1) + p[7]
C0(p) == p[0] + U0(p) * C[1]
C1(p) == (C0(p) \div M1) + p[1] + (D6(p) % M1) * R5
C2(p) == (C1(p) \div M1) + p[2] + (D7(p) % M1) * R5
C3(p) == (C2(p) \div M1) + (D7(p) \div M1) * R5 + (D3(p) % M1)
C4(p) == (C3(p) \div M1) + (T4(p) % Top1)

\* The largest product of two limbs.
LimbProduct == (Factor * Factor) * M1 * M1

\* Columns of five products or less.
ColumnsFit(p) ==
    /\ p \in [0..8 -> Nat]
    /\ \A k \in 0..8 : p[k] <= 5 * LimbProduct
    /\ p[7] <= 2 * ((Factor * Factor) * M1 * Top1)

\* The number of the columns.
ColumnSum(p) ==
    p[0] + M1 * (p[1] + M1 * (p[2] + M1 * (p[3] + M1 * (p[4] + M1 * (p[5]
         + M1 * (p[6] + M1 * (p[7] + M1 * p[8])))))))

\* The sizes, in the form that the sums need.
LEMMA Sizes5 ==
    ASSUME LimbsFit, ProductsFit, L = 5
    PROVE  /\ M1 \in Nat /\ Top1 \in Nat /\ 2^Slack \in Nat /\ C[1] \in Nat /\ Factor * Factor \in Nat
           /\ M1 = 2^Slack * Top1 /\ 2^Slack >= 1 /\ Factor * Factor >= 4
           /\ 8 * (Factor * Factor) * M1 <= 2^Word
           /\ 6 * (Factor * Factor) * R5 <= M1 /\ 2 * (8 * (Factor * Factor) + 1) <= Top1
<1>1. /\ M1 \in Nat /\ Top1 \in Nat /\ Slack \in Nat /\ Bits \in Nat /\ Slack < Bits
      /\ 2^Slack \in Nat /\ 2^Slack >= 1 /\ C[1] \in Nat
  <2>1. Len(C) = 1 /\ \A i \in 1..Len(C) : C[i] \in 1..(M1 - 1)
    BY 5 \div 5 = 1 DEF LimbsFit
  <2> QED
    BY <2>1, Sizes, PowerPositive
<1>2. M1 = 2^Slack * Top1
  <2>1. Bits - Slack \in Nat /\ Slack + (Bits - Slack) = Bits
    BY <1>1
  <2> QED
    BY <1>1, <2>1, PowerSum DEF M1, Top1
<1>3. MulMagnitude \in Nat /\ MulMagnitude >= 1
  BY DEF LimbsFit
<1> PICK F \in Nat : F = Factor /\ F >= 2
  BY <1>3 DEF Factor
<1>4. F * F >= 4 /\ F * F \in Nat
  <2>1. F * F >= 2 * F
    BY ONLY F \in Nat, F >= 2
  <2> QED
    BY ONLY <2>1, F \in Nat, F >= 2
<1> QED
  BY <1>1, <1>2, <1>4 DEF ProductsFit, R5

\* The numbers on the way: each is at most seven times the largest product of two
\* limbs, and what is added to the highest limb at the end is below the weight of
\* that limb.  The number of the limbs is that of the columns but for a multiple
\* of the prime.
LEMMA Sums5 ==
    ASSUME LimbsFit, ProductsFit, L = 5, NEW p, ColumnsFit(p)
    PROVE  /\ \A x \in {p[8], D3(p), D4(p), D5(p), D6(p), D7(p), C0(p), C1(p), C2(p), C3(p), C4(p)} :
                  x \in 0..(7 * LimbProduct)
           /\ C4(p) \in 0..(2 * (Top1 - 1))
           /\ \E k \in Int :
                 (C0(p) % M1) + M1 * ((C1(p) % M1) + M1 * ((C2(p) % M1) + M1 * ((C3(p) % M1) + M1 * C4(p))))
                 = ColumnSum(p) - (Top1 * (M1 * (M1 * (M1 * M1))) - C[1]) * k
<1>1. PICK M \in Nat, S \in Nat, T \in Nat, c \in Nat, X \in Nat :
          M = M1 /\ S = 2^Slack /\ T = Top1 /\ c = C[1] /\ X = Factor * Factor
  BY Sizes5, Zenon
<1>2. PICK R \in Nat, y \in Nat : R = c * S /\ y = X * M
  OBVIOUS
<1>3. PICK Q \in Nat : Q = y * M
  OBVIOUS
<1>4. R = R5 /\ Q = LimbProduct /\ M = S * T /\ S >= 1 /\ X >= 4 /\ 2 * (8 * X + 1) <= T
  BY <1>1, <1>2, <1>3, Sizes5 DEF R5, LimbProduct
<1>5. 6 * (X * R) <= M
  <2>1. 6 * X * R <= M
    BY <1>1, <1>4, Sizes5
  <2> QED
    BY <2>1
<1>6. T >= 66 /\ T <= M /\ M >= 66 /\ R <= M
  <2>1. T >= 66
    BY <1>4
  <2>2. T <= S * T
    BY <1>4, <2>1
  <2>3. R <= X * R
    BY <1>4
  <2> QED
    BY <1>4, <1>5, <2>1, <2>2, <2>3
<1>7. 7 * y <= Q /\ M * M <= Q /\ 6 * (y * R) <= Q /\ M * R <= Q
  <2>1. y * M >= 7 * y
    BY <1>6
  <2>2. y >= M
    BY <1>2, <1>4
  <2>3. y * M >= M * M
    BY <2>2
  <2>4. y * R = M * (X * R)
    BY <1>2
  <2>5. M * (6 * (X * R)) <= M * M
    BY <1>5
  <2>6. M * R <= M * M
    BY <1>6
  <2>7. M * (6 * (X * R)) = 6 * (M * (X * R))
    OBVIOUS
  <2> QED
    BY <1>3, <2>1, <2>3, <2>4, <2>5, <2>6, <2>7
<1>8. ASSUME NEW r \in 0..(M - 1)
      PROVE  r * R \in 0..Q
  <2>1. r * R <= M * R /\ r * R >= 0 /\ r * R \in Int
    OBVIOUS
  <2> QED
    BY <1>7, <2>1
<1>9. ASSUME NEW x \in 0..(7 * Q)
      PROVE  \E q \in 0..(7 * y), r \in 0..(M - 1) : q = x \div M /\ r = (x % M) /\ x = M * q + r
  <2>1. 7 * y \in Nat /\ x \in Int /\ 0 <= x
    OBVIOUS
  <2>2. 7 * Q = M * (7 * y)
    BY <1>3
  <2>3. x <= M * (7 * y) /\ M >= 1
    BY <1>6, <2>2
  <2> QED
    BY ONLY <2>1, <2>3, M \in Nat, Parts
<1>10. PICK p0 \in 0..(5 * Q), p1 \in 0..(5 * Q), p2 \in 0..(5 * Q) : p0 = p[0] /\ p1 = p[1] /\ p2 = p[2]
  BY <1>4 DEF ColumnsFit
<1>11. PICK p3 \in 0..(5 * Q), p4 \in 0..(5 * Q), p5 \in 0..(5 * Q) : p3 = p[3] /\ p4 = p[4] /\ p5 = p[5]
  BY <1>4 DEF ColumnsFit
<1>12. PICK p6 \in 0..(5 * Q), p7 \in 0..(5 * Q), p8 \in 0..(5 * Q) :
           p6 = p[6] /\ p7 = p[7] /\ p8 = p[8] /\ p7 <= 2 * (y * T)
  <2>1. p[7] <= 2 * (y * T)
    BY <1>1, <1>2 DEF ColumnsFit
  <2> QED
    BY <1>4, <2>1 DEF ColumnsFit
<1>13. PICK h8 \in 0..(7 * y), r8 \in 0..(M - 1) : h8 = p8 \div M /\ r8 = (p8 % M) /\ p8 = M * h8 + r8
  BY <1>9, p8 \in 0..(7 * Q)
<1>14. 6 * (h8 * R) <= 5 * Q /\ h8 * R \in Nat
  <2>1. M * h8 <= M * (5 * y)
    BY <1>3, <1>13
  <2> PICK z \in Nat : z = 5 * y
    OBVIOUS
  <2>2. M >= 1 /\ M * h8 <= M * z
    BY <1>6, <2>1
  <2>3. h8 <= z
    BY ONLY M \in Nat, h8 \in 0..(7 * y), h8 \in Int, z \in Nat, <2>2
  <2>4. h8 * R <= (5 * y) * R
    BY <2>3
  <2>5. (5 * y) * R = 5 * (y * R)
    OBVIOUS
  <2> QED
    BY <1>7, <2>4, <2>5
<1>15. PICK d3 \in 0..(7 * Q) : d3 = D3(p) /\ d3 = p3 + r8 * R
  <2>1. r8 * R \in 0..Q
    BY <1>8
  <2>2. p3 + r8 * R \in 0..(7 * Q)
    BY ONLY Q \in Nat, p3 \in 0..(5 * Q), <2>1
  <2>3. D3(p) = p3 + r8 * R
    BY <1>1, <1>4, <1>11, <1>12, <1>13 DEF D3
  <2> QED
    BY ONLY <2>2, <2>3
<1>16. PICK s3 \in 0..(7 * y), r3 \in 0..(M - 1) : s3 = d3 \div M /\ r3 = (d3 % M) /\ d3 = M * s3 + r3
  BY <1>9, Zenon
<1>17. PICK d4 \in 0..(7 * Q) : d4 = D4(p) /\ d4 = s3 + p4 + h8 * R
  <2>1. s3 + p4 + h8 * R \in 0..(7 * Q)
    BY ONLY <1>7, <1>14, Q \in Nat, y \in Nat, p4 \in 0..(5 * Q), s3 \in 0..(7 * y)
  <2>2. D4(p) = s3 + p4 + h8 * R
    BY <1>1, <1>4, <1>11, <1>12, <1>13, <1>15, <1>16 DEF D4
  <2> QED
    BY ONLY <2>1, <2>2
<1>18. PICK s4 \in 0..(7 * y), t4 \in 0..(M - 1) : s4 = d4 \div M /\ t4 = (d4 % M) /\ d4 = M * s4 + t4
  BY <1>9, Zenon
<1>19. PICK tx \in 0..S, t \in 0..(T - 1) : tx = t4 \div T /\ t = (t4 % T) /\ t4 = T * tx + t
  <2>1. t4 \in Int /\ 0 <= t4 /\ t4 <= T * S /\ T >= 1
    BY <1>4, <1>6
  <2> QED
    BY ONLY <2>1, T \in Nat, S \in Nat, Parts
<1>20. tx <= S - 1
  <2>1. T * tx <= t4
    BY <1>19
  <2>2. t4 < T * S
    BY <1>4
  <2>3. ASSUME tx >= S PROVE T * tx >= T * S
    BY <2>3
  <2> PICK f \in Int, g \in Int : f = T * tx /\ g = T * S
    OBVIOUS
  <2> QED
    BY <2>1, <2>2, <2>3
<1>21. T4(p) = t4
  BY <1>1, <1>17, <1>18 DEF T4
<1>22. PICK d5 \in 0..(7 * Q) : d5 = D5(p) /\ d5 = s4 + p5
  <2>1. s4 + p5 \in 0..(7 * Q)
    BY ONLY <1>7, s4 \in 0..(7 * y), p5 \in 0..(5 * Q), y \in Nat, Q \in Nat
  <2>2. D5(p) = s4 + p5
    BY <1>1, <1>11, <1>17, <1>18 DEF D5
  <2> QED
    BY ONLY <2>1, <2>2
<1>23. PICK s5 \in 0..(7 * y), r5 \in 0..(M - 1) : s5 = d5 \div M /\ r5 = (d5 % M) /\ d5 = M * s5 + r5
  BY <1>9, Zenon
<1>24. PICK d6 \in 0..(7 * Q) : d6 = D6(p) /\ d6 = s5 + p6
  <2>1. s5 + p6 \in 0..(7 * Q)
    BY ONLY <1>7, s5 \in 0..(7 * y), p6 \in 0..(5 * Q), y \in Nat, Q \in Nat
  <2>2. D6(p) = s5 + p6
    BY <1>1, <1>12, <1>22, <1>23 DEF D6
  <2> QED
    BY ONLY <2>1, <2>2
<1>25. PICK s6 \in 0..(7 * y), r6 \in 0..(M - 1) : s6 = d6 \div M /\ r6 = (d6 % M) /\ d6 = M * s6 + r6
  BY <1>9, Zenon
<1>26. PICK d7 \in 0..(7 * Q) : d7 = D7(p) /\ d7 = s6 + p7
  <2>1. s6 + p7 \in 0..(7 * Q)
    BY ONLY <1>7, s6 \in 0..(7 * y), p7 \in 0..(5 * Q), y \in Nat, Q \in Nat
  <2>2. D7(p) = s6 + p7
    BY <1>1, <1>12, <1>24, <1>25 DEF D7
  <2> QED
    BY ONLY <2>1, <2>2
<1>27. PICK s7 \in 0..(7 * y), r7 \in 0..(M - 1) : s7 = d7 \div M /\ r7 = (d7 % M) /\ d7 = M * s7 + r7
  BY <1>9, Zenon
<1>28. PICK u \in Nat : u = U0(p) /\ u = r5 * S + tx /\ u <= M * S
  <2>1. r5 * S + tx \in Nat
    OBVIOUS
  <2>2. r5 * S + tx <= (M - 1) * S + S
    <3>1. r5 * S <= (M - 1) * S
      BY ONLY r5 \in 0..(M - 1), M \in Nat, S \in Nat
    <3> QED
      BY <3>1
  <2>3. (M - 1) * S + S = M * S
    OBVIOUS
  <2>4. U0(p) = r5 * S + tx
    BY <1>1, <1>19, <1>21, <1>22, <1>23 DEF U0
  <2> QED
    BY <2>1, <2>2, <2>3, <2>4
<1>29. u * c \in 0..Q
  <2>1. u * c <= (M * S) * c /\ u * c \in Nat
    BY <1>28
  <2>2. (M * S) * c = M * R
    BY <1>2
  <2> QED
    BY <1>7, <2>1, <2>2
<1>30. PICK c0 \in 0..(7 * Q) : c0 = C0(p) /\ c0 = p0 + u * c
  <2>1. p0 + u * c \in 0..(7 * Q)
    BY ONLY <1>29, p0 \in 0..(5 * Q), Q \in Nat
  <2>2. C0(p) = p0 + u * c
    BY <1>1, <1>10, <1>28 DEF C0
  <2> QED
    BY ONLY <2>1, <2>2
<1>31. PICK e0 \in 0..(7 * y), n0 \in 0..(M - 1) : e0 = c0 \div M /\ n0 = (c0 % M) /\ c0 = M * e0 + n0
  BY <1>9, Zenon
<1>32. PICK c1 \in 0..(7 * Q) : c1 = C1(p) /\ c1 = e0 + p1 + r6 * R
  <2>1. r6 * R \in 0..Q
    BY <1>8
  <2>2. e0 + p1 + r6 * R \in 0..(7 * Q)
    BY ONLY <1>7, e0 \in 0..(7 * y), p1 \in 0..(5 * Q), <2>1, y \in Nat, Q \in Nat
  <2>3. C1(p) = e0 + p1 + r6 * R
    BY <1>1, <1>4, <1>10, <1>24, <1>25, <1>30, <1>31 DEF C1
  <2> QED
    BY ONLY <2>2, <2>3
<1>33. PICK e1 \in 0..(7 * y), n1 \in 0..(M - 1) : e1 = c1 \div M /\ n1 = (c1 % M) /\ c1 = M * e1 + n1
  BY <1>9, Zenon
<1>34. PICK c2 \in 0..(7 * Q) : c2 = C2(p) /\ c2 = e1 + p2 + r7 * R
  <2>1. r7 * R \in 0..Q
    BY <1>8
  <2>2. e1 + p2 + r7 * R \in 0..(7 * Q)
    BY ONLY <1>7, e1 \in 0..(7 * y), p2 \in 0..(5 * Q), <2>1, y \in Nat, Q \in Nat
  <2>3. C2(p) = e1 + p2 + r7 * R
    BY <1>1, <1>4, <1>10, <1>26, <1>27, <1>32, <1>33 DEF C2
  <2> QED
    BY ONLY <2>2, <2>3
<1>35. PICK e2 \in 0..(7 * y), n2 \in 0..(M - 1) : e2 = c2 \div M /\ n2 = (c2 % M) /\ c2 = M * e2 + n2
  BY <1>9, Zenon
<1>36. s7 <= 7 * X + 2 * (X * T)
  <2>1. 7 * y + 2 * (y * T) = M * (7 * X + 2 * (X * T))
    BY <1>2
  <2>2. M * s7 <= 7 * y + 2 * (y * T)
    BY ONLY <1>12, <1>26, <1>27, M \in Nat, s7 \in 0..(7 * y), r7 \in 0..(M - 1), y \in Nat, T \in Nat,
            p7 \in Int, s6 \in 0..(7 * y), d7 \in Int
  <2> PICK z \in Nat : z = 7 * X + 2 * (X * T)
    OBVIOUS
  <2>3. M * s7 <= M * z /\ M >= 1
    BY <1>6, <2>1, <2>2
  <2>4. s7 <= z
    BY ONLY M \in Nat, s7 \in 0..(7 * y), s7 \in Int, z \in Nat, <2>3
  <2> QED
    BY <2>4
<1>37. 6 * (s7 * R) <= (7 + 2 * T) * M /\ s7 * R \in Nat
  <2>1. s7 * R <= (7 * X + 2 * (X * T)) * R
    BY <1>36
  <2>2. 6 * ((7 * X + 2 * (X * T)) * R) = (7 + 2 * T) * (6 * (X * R))
    OBVIOUS
  <2>3. (7 + 2 * T) * (6 * (X * R)) <= (7 + 2 * T) * M
    BY <1>5
  <2> QED
    BY <2>1, <2>2, <2>3
<1>38. PICK c3 \in Nat : c3 = C3(p) /\ c3 = e2 + s7 * R + r3 /\ c3 <= M * (T - 1)
  <2>1. e2 + s7 * R + r3 \in Nat
    BY <1>37
  <2>2. 6 * e2 <= 42 * (X * M)
    BY <1>2
  <2>3. M * (42 * X + 2 * T + 13) = 42 * (X * M) + (7 + 2 * T) * M + 6 * M
    OBVIOUS
  <2>4. 6 * (e2 + s7 * R + r3) <= M * (42 * X + 2 * T + 13)
    BY <1>37, <2>2, <2>3
  <2>5. 42 * X + 2 * T + 13 <= 6 * (T - 1)
    BY <1>4
  <2>6. M * (42 * X + 2 * T + 13) <= M * (6 * (T - 1))
    BY <2>5
  <2>7. M * (6 * (T - 1)) = 6 * (M * (T - 1))
    OBVIOUS
  <2>8. C3(p) = e2 + s7 * R + r3
    BY <1>1, <1>4, <1>15, <1>16, <1>26, <1>27, <1>34, <1>35 DEF C3
  <2> QED
    BY <2>1, <2>4, <2>6, <2>7, <2>8
<1>39. PICK e3 \in 0..(T - 1), n3 \in 0..(M - 1) : e3 = c3 \div M /\ n3 = (c3 % M) /\ c3 = M * e3 + n3
  <2>1. M >= 1 /\ T - 1 \in Nat /\ c3 \in Int /\ 0 <= c3
    BY <1>6
  <2> QED
    BY ONLY <1>38, <2>1, M \in Nat, Parts
<1>40. c3 \in 0..(7 * Q)
  <2>1. M * (T - 1) <= M * M
    BY <1>6
  <2> QED
    BY <1>7, <1>38, <2>1
<1>41. PICK c4 \in 0..(2 * (T - 1)) : c4 = C4(p) /\ c4 = e3 + t /\ c4 \in 0..(7 * Q)
  <2>1. e3 + t \in 0..(2 * (T - 1))
    BY <1>6
  <2>2. M * M >= 2 * M
    BY <1>6
  <2>3. 2 * (T - 1) <= Q
    BY <1>6, <1>7, <2>2
  <2>4. C4(p) = e3 + t
    BY <1>1, <1>19, <1>21, <1>38, <1>39 DEF C4
  <2> QED
    BY <2>1, <2>3, <2>4
<1>42. n0 + M * (n1 + M * (n2 + M * (n3 + M * c4)))
       = p0 + M * (p1 + M * (p2 + M * (p3 + M * (p4 + M * (p5 + M * (p6 + M * (p7 + M * p8)))))))
         - (T * (M * (M * (M * M))) - c)
           * (u + S * (M * (r6 + M * (r7 + M * (s7 + r8 + M * h8)))))
  <2>1. p3 + r8 * R = M * s3 + r3
    BY <1>15, <1>16
  <2>2. s3 + p4 + h8 * R = M * s4 + (T * tx + t)
    BY <1>17, <1>18, <1>19
  <2>3. s4 + p5 = M * s5 + r5 /\ s5 + p6 = M * s6 + r6 /\ s6 + p7 = M * s7 + r7
    BY <1>22, <1>23, <1>24, <1>25, <1>26, <1>27
  <2>4. p0 + u * c = M * e0 + n0 /\ e0 + p1 + r6 * R = M * e1 + n1 /\ e1 + p2 + r7 * R = M * e2 + n2
    BY <1>30, <1>31, <1>32, <1>33, <1>34, <1>35
  <2>5. e2 + s7 * R + r3 = M * e3 + n3 /\ c4 = e3 + t /\ p8 = M * h8 + r8 /\ u = r5 * S + tx
    BY <1>13, <1>28, <1>38, <1>39, <1>41
  <2>6. /\ M \in Int /\ S \in Int /\ T \in Int /\ c \in Int /\ R \in Int
        /\ p0 \in Int /\ p1 \in Int /\ p2 \in Int /\ p3 \in Int /\ p4 \in Int /\ p5 \in Int /\ p6 \in Int
        /\ p7 \in Int /\ p8 \in Int /\ h8 \in Int /\ r8 \in Int /\ s3 \in Int /\ r3 \in Int /\ s4 \in Int
        /\ tx \in Int /\ t \in Int /\ s5 \in Int /\ r5 \in Int /\ s6 \in Int /\ r6 \in Int /\ s7 \in Int
        /\ r7 \in Int /\ u \in Int /\ e0 \in Int /\ n0 \in Int /\ e1 \in Int /\ n1 \in Int /\ e2 \in Int
        /\ n2 \in Int /\ e3 \in Int /\ n3 \in Int /\ c4 \in Int
    OBVIOUS
  <2>7. /\ p0 = M * e0 + n0 - u * c
        /\ p1 = M * e1 + n1 - e0 - r6 * R
        /\ p2 = M * e2 + n2 - e1 - r7 * R
        /\ r3 = M * e3 + n3 - e2 - s7 * R
        /\ p3 = M * s3 + r3 - r8 * R
        /\ p4 = M * s4 + (T * tx + t) - s3 - h8 * R
        /\ p5 = M * s5 + r5 - s4
        /\ p6 = M * s6 + r6 - s5
        /\ p7 = M * s7 + r7 - s6
    BY ONLY <2>1, <2>2, <2>3, <2>4, <2>5, <2>6
  <2>8. p0 + M * (p1 + M * (p2 + M * (p3 + M * (p4 + M * (p5 + M * (p6 + M * (p7 + M * p8)))))))
        = (M * e0 + n0 - (r5 * S + tx) * c)
          + M * ((M * e1 + n1 - e0 - r6 * (c * S))
          + M * ((M * e2 + n2 - e1 - r7 * (c * S))
          + M * ((M * s3 + (M * e3 + n3 - e2 - s7 * (c * S)) - r8 * (c * S))
          + M * ((M * s4 + (T * tx + t) - s3 - h8 * (c * S))
          + M * ((M * s5 + r5 - s4) + M * ((M * s6 + r6 - s5) + M * ((M * s7 + r7 - s6) + M * (M * h8 + r8))))))))
    BY ONLY <1>2, <2>5, <2>6, <2>7
  <2>9. @ = n0 + M * (n1 + M * (n2 + M * (n3 + M * (e3 + t))))
            + ((T * (M * (M * (M * M))) - c) * (r5 * S + tx)
               + (M * (M * (M * (M * M))) - c * S) * (M * (r6 + M * (r7 + M * (s7 + r8 + M * h8)))))
    BY ONLY <1>4, <2>6
  <2>10. (M * (M * (M * (M * M))) - c * S) = (T * (M * (M * (M * M))) - c) * S
    BY ONLY <1>4, <2>6
  <2> QED
    BY ONLY <2>5, <2>6, <2>8, <2>9, <2>10
<1>43. PICK k \in Int : k = u + S * (M * (r6 + M * (r7 + M * (s7 + r8 + M * h8))))
  OBVIOUS
<1>44. C0(p) % M1 = n0 /\ C1(p) % M1 = n1 /\ C2(p) % M1 = n2 /\ C3(p) % M1 = n3
  BY <1>1, <1>30, <1>31, <1>32, <1>33, <1>34, <1>35, <1>38, <1>39, Zenon
<1>45. \A x \in {p[8], D3(p), D4(p), D5(p), D6(p), D7(p), C0(p), C1(p), C2(p), C3(p), C4(p)} :
           x \in 0..(7 * LimbProduct)
  <2>1. p8 \in 0..(7 * Q)
    OBVIOUS
  <2> QED
    BY <1>4, <1>12, <1>15, <1>17, <1>22, <1>24, <1>26, <1>30, <1>32, <1>34, <1>38, <1>40, <1>41, <2>1
<1>46. (C0(p) % M1) + M1 * ((C1(p) % M1) + M1 * ((C2(p) % M1) + M1 * ((C3(p) % M1) + M1 * C4(p))))
       = ColumnSum(p) - (Top1 * (M1 * (M1 * (M1 * M1))) - C[1]) * k
  <2> DEFINE h == p0 + M * (p1 + M * (p2 + M * (p3 + M * (p4 + M * (p5 + M * (p6 + M * (p7 + M * p8)))))))
  <2>1. ColumnSum(p) = h
    BY <1>1, <1>10, <1>11, <1>12, Zenon DEF ColumnSum
  <2>2. n0 + M * (n1 + M * (n2 + M * (n3 + M * c4))) = h - (T * (M * (M * (M * M))) - c) * k
    <3> DEFINE z == n0 + M * (n1 + M * (n2 + M * (n3 + M * c4)))
               q == T * (M * (M * (M * M))) - c
               w == u + S * (M * (r6 + M * (r7 + M * (s7 + r8 + M * h8))))
    <3>1. z = h - q * w
      BY ONLY <1>42
    <3>2. k = w
      BY ONLY <1>43
    <3> HIDE DEF z, q, w, h
    <3>3. z = h - q * k
      BY ONLY <3>1, <3>2
    <3> QED
      BY ONLY <3>3 DEF z, q
  <2> HIDE DEF h
  <2> QED
    BY ONLY <1>1, <1>41, <1>44, <2>1, <2>2, Zenon
<1>47. C4(p) \in 0..(2 * (Top1 - 1))
  BY <1>1, <1>41
<1> QED
  BY <1>45, <1>46, <1>47

\* The product from its columns.
Five(p) ==
    LET limbs == <<C0(p) % M1, C1(p) % M1, C2(p) % M1, C3(p) % M1, C4(p)>>
    IN [n |-> [i \in Index |-> limbs[i + 1]],
        ok |-> Fits(<<D3(p), D4(p), D5(p), D6(p), D7(p), C0(p), C1(p), C2(p), C3(p), C4(p)>>)]

\* A sum that is shifted into a register keeps all its bits, and none is larger
\* than two words.
LEMMA Registers5 ==
    ASSUME LimbsFit, ProductsFit, L = 5, NEW x \in 0..(7 * LimbProduct)
    PROVE  ShrToWord(x) = x \div M1 /\ Shr(x) = x \div M1 /\ x \in 0..(Wide - 1)
<1>1. PICK M \in Nat, X \in Nat : M = M1 /\ X = Factor * Factor
  BY Sizes5
<1>2. PICK y \in Nat : y = X * M
  OBVIOUS
<1>3. PICK Q \in Nat : Q = y * M
  OBVIOUS
<1>4. PICK W \in Nat : W = 2^Word
  BY PowerPositive DEF LimbsFit
<1>5. Q = LimbProduct /\ M >= 66 /\ X >= 4 /\ 8 * y <= W
  <2>1. 8 * X * M <= W
    BY <1>1, <1>4, Sizes5
  <2>2. M >= 66 /\ X >= 4
    <3> PICK T \in Nat : T = Top1
      BY Sizes5
    <3>1. X >= 4 /\ 2 * (8 * X + 1) <= T /\ T <= M
      <4>1. T <= M
        BY <1>1, Sizes
      <4> QED
        BY <1>1, <4>1, Sizes5
    <3> QED
      BY ONLY <3>1, X \in Nat, T \in Nat, M \in Nat
  <2> QED
    BY <1>1, <1>2, <1>3, <2>1, <2>2, Sizes5 DEF LimbProduct
<1>6. x \in Int /\ 0 <= x /\ x <= M * (7 * y)
  BY <1>3, <1>5
<1>7. PICK q \in 0..(7 * y) : q = x \div M
  <2>1. 7 * y \in Nat /\ M >= 1
    BY <1>5
  <2> QED
    BY ONLY <1>6, <2>1, M \in Nat, Parts
<1>8. (q % W) = q
  <2>1. y >= 1
    <3>1. X * M >= 4 * M
      BY <1>5
    <3> QED
      BY <1>2, <1>5, <3>1
  <2>2. q \in 0..(W - 1) /\ W >= 1
    BY <1>5, <2>1
  <2> QED
    BY ONLY <2>2, W \in Nat, ModSmall
<1>9. Wide = W * W
  <2>1. Word \in Nat /\ 2 * Word = Word + Word
    BY DEF LimbsFit
  <2> QED
    BY <1>4, <2>1, PowerSum DEF Wide
<1>10. 7 * Q < W * W
  <2>1. y >= M /\ y >= 1
    <3>1. X * M >= 4 * M
      BY <1>5
    <3> QED
      BY <1>2, <1>5, <3>1
  <2>2. y * M <= y * y /\ y * y >= 1
    BY <2>1
  <2>3. (8 * y) * (8 * y) <= W * W
    BY <1>5
  <2>4. (8 * y) * (8 * y) = 64 * (y * y)
    OBVIOUS
  <2> QED
    BY <1>3, <2>2, <2>3, <2>4
<1> QED
  BY <1>1, <1>4, <1>5, <1>6, <1>7, <1>8, <1>9, <1>10 DEF ShrToWord, Shr

\* The product in C, which shifts the sum as a whole.
LEMMA Five5 ==
    ASSUME NEW p
    PROVE  Product5(LAMBDA k : p[k], Shr) = Five(p)
  BY Zenon DEF Product5, Shr, Five, C0, C1, C2, C3, C4, D3, D4, D5, D6, D7, T4, U0, R5

\* The register of the assembler loses nothing of a sum that is shifted into it.
LEMMA Assembler5 ==
    ASSUME LimbsFit, ProductsFit, L = 5, NEW p, ColumnsFit(p)
    PROVE  Product5(LAMBDA k : p[k], ShrToWord) = Five(p)
<1>1. \A x \in {p[8], D3(p), D4(p), D5(p), D6(p), D7(p), C0(p), C1(p), C2(p), C3(p), C4(p)} :
          ShrToWord(x) = x \div M1
  BY Sums5, Registers5
<1> DEFINE d4 == ShrToWord(D3(p)) + p[4] + ShrToWord(p[8]) * R5
<1>2. d4 = D4(p)
  BY <1>1, Zenon DEF D4
<1> DEFINE t4 == d4 % M1
<1>3. t4 = T4(p)
  BY <1>2, Zenon DEF T4
<1> DEFINE d5 == ShrToWord(d4) + p[5]
<1> HIDE DEF d4
<1>4. d5 = D5(p)
  BY <1>1, <1>2, Zenon DEF D5
<1> DEFINE u == (d5 % M1) * 2^Slack + (t4 \div Top1)
<1> HIDE DEF t4
<1>5. u = U0(p)
  BY <1>3, <1>4, Zenon DEF U0
<1> DEFINE d6 == ShrToWord(d5) + p[6]
<1> HIDE DEF d5, u
<1>6. d6 = D6(p)
  BY <1>1, <1>4, Zenon DEF D6
<1> DEFINE d7 == ShrToWord(d6) + p[7]
<1> HIDE DEF d6
<1>7. d7 = D7(p)
  BY <1>1, <1>6, Zenon DEF D7
<1> HIDE DEF d7
<1> DEFINE c0 == p[0] + u * C[1]
<1>8. c0 = C0(p)
  BY <1>5, Zenon DEF C0
<1> HIDE DEF c0
<1> DEFINE c1 == ShrToWord(c0) + p[1] + (d6 % M1) * R5
<1>9. c1 = C1(p)
  BY <1>1, <1>6, <1>8, Zenon DEF C1
<1> HIDE DEF c1
<1> DEFINE c2 == ShrToWord(c1) + p[2] + (d7 % M1) * R5
<1>10. c2 = C2(p)
  BY <1>1, <1>7, <1>9, Zenon DEF C2
<1> HIDE DEF c2
<1> DEFINE c3 == ShrToWord(c2) + ShrToWord(d7) * R5 + (D3(p) % M1)
<1>11. c3 = C3(p)
  BY <1>1, <1>7, <1>10, Zenon DEF C3
<1> HIDE DEF c3
<1> DEFINE c4 == ShrToWord(c3) + (t4 % Top1)
<1>12. c4 = C4(p)
  BY <1>1, <1>3, <1>11, Zenon DEF C4
<1> HIDE DEF c4
<1> DEFINE limbs == <<c0 % M1, c1 % M1, c2 % M1, c3 % M1, c4>>
<1>13. Product5(LAMBDA k : p[k], ShrToWord)
       = [n |-> [i \in Index |-> limbs[i + 1]],
          ok |-> Fits(<<D3(p), d4, d5, d6, d7, c0, c1, c2, c3, c4>>)]
  BY Zenon DEF Product5, D3, R5, d4, t4, d5, u, d6, d7, c0, c1, c2, c3, c4
<1> QED
  BY <1>2, <1>4, <1>6, <1>7, <1>8, <1>9, <1>10, <1>11, <1>12, <1>13 DEF Five

\* The number of five limbs.
LEMMA Value5 ==
    ASSUME LimbsFit, L = 5, NEW n \in [Index -> Int]
    PROVE  Value(n) = n[0] + M1 * (n[1] + M1 * (n[2] + M1 * (n[3] + M1 * n[4])))
<1>1. 0 \in Index /\ 1 \in Index /\ 2 \in Index /\ 3 \in Index /\ 4 \in Index
  BY DEF Index
<1> PICK M \in Nat, n0 \in Int, n1 \in Int, n2 \in Int, n3 \in Int, n4 \in Int :
        M = M1 /\ n0 = n[0] /\ n1 = n[1] /\ n2 = n[2] /\ n3 = n[3] /\ n4 = n[4]
  BY <1>1, Sizes, Zenon
<1>2. Weight(0) = 1 /\ Weight(1) = M /\ Weight(2) = M * M /\ Weight(3) = M * (M * M)
      /\ Weight(4) = M * (M * (M * M))
  <2>1. \A k \in Nat : Weight(k + 1) = M1 * Weight(k) /\ Weight(0) = 1
    BY Weights
  <2>2. Weight(0) = 1 /\ Weight(0 + 1) = M1 * Weight(0) /\ Weight(1 + 1) = M1 * Weight(1)
        /\ Weight(2 + 1) = M1 * Weight(2) /\ Weight(3 + 1) = M1 * Weight(3)
    BY <2>1
  <2> QED
    BY <2>2
<1>3. /\ Worth(n)[0] = 0
      /\ Worth(n)[1] = 0 + n0 * 1
      /\ Worth(n)[2] = 0 + n0 * 1 + n1 * M
      /\ Worth(n)[3] = 0 + n0 * 1 + n1 * M + n2 * (M * M)
      /\ Worth(n)[4] = 0 + n0 * 1 + n1 * M + n2 * (M * M) + n3 * (M * (M * M))
      /\ Worth(n)[5] = 0 + n0 * 1 + n1 * M + n2 * (M * M) + n3 * (M * (M * M)) + n4 * (M * (M * (M * M)))
  <2>1. Worth(n)[0] = 0 /\ \A k \in Index : Worth(n)[k + 1] = Worth(n)[k] + n[k] * Weight(k)
    BY WorthSteps
  <2>2. /\ Worth(n)[0] = 0
        /\ Worth(n)[0 + 1] = Worth(n)[0] + n[0] * Weight(0)
        /\ Worth(n)[1 + 1] = Worth(n)[1] + n[1] * Weight(1)
        /\ Worth(n)[2 + 1] = Worth(n)[2] + n[2] * Weight(2)
        /\ Worth(n)[3 + 1] = Worth(n)[3] + n[3] * Weight(3)
        /\ Worth(n)[4 + 1] = Worth(n)[4] + n[4] * Weight(4)
    BY <1>1, <2>1
  <2>3. 0 + 1 = 1 /\ 1 + 1 = 2 /\ 2 + 1 = 3 /\ 3 + 1 = 4 /\ 4 + 1 = 5
    OBVIOUS
  <2> QED
    BY <1>2, <2>2, <2>3, Zenon
<1>4. 0 + n0 * 1 + n1 * M + n2 * (M * M) + n3 * (M * (M * M)) + n4 * (M * (M * (M * M)))
      = n0 + M * (n1 + M * (n2 + M * (n3 + M * n4)))
  BY ONLY M \in Nat, n0 \in Int, n1 \in Int, n2 \in Int, n3 \in Int, n4 \in Int
<1>5. Value(n) = Worth(n)[5]
  BY DEF Value
<1> QED
  BY <1>3, <1>4, <1>5, Zenon

\* The prime of five limbs.
LEMMA Prime5 ==
    ASSUME LimbsFit, L = 5
    PROVE  Prime = Top1 * (M1 * (M1 * (M1 * M1))) - C[1]
<1>1. Len(C) = 1
  BY 5 \div 5 = 1 DEF LimbsFit
<1>2. Index = 0..4
  BY DEF Index
<1>3. CLimbs \in [Index -> Int] /\ CLimbs[0] = C[1] /\ CLimbs[1] = 0 /\ CLimbs[2] = 0
      /\ CLimbs[3] = 0 /\ CLimbs[4] = 0
  <2>1. CLimbs \in [Index -> Int] /\ \A i \in Index : CLimbs[i] = Cof(i)
    BY PrimeSize
  <2> QED
    BY <1>1, <1>2, <2>1 DEF Cof
<1>4. M1 \in Nat /\ C[1] \in Int
  <2>1. C[1] = CLimbs[0] /\ 0 \in Index
    BY <1>2, <1>3
  <2> QED
    BY <1>3, <2>1, Sizes, Zenon
<1>5. Value(CLimbs) = C[1]
  <2> PICK M \in Nat, c \in Int : M = M1 /\ c = C[1]
    BY <1>4
  <2>1. Value(CLimbs) = c + M * (0 + M * (0 + M * (0 + M * 0)))
    BY <1>3, Value5, Zenon
  <2>2. c + M * (0 + M * (0 + M * (0 + M * 0))) = c
    BY ONLY M \in Nat, c \in Int
  <2> QED
    BY <2>1, <2>2
<1>6. Weight(4) = M1 * (M1 * (M1 * M1))
  <2>1. \A k \in Nat : Weight(k + 1) = M1 * Weight(k) /\ Weight(0) = 1
    BY Weights
  <2>2. Weight(0) = 1 /\ Weight(0 + 1) = M1 * Weight(0) /\ Weight(1 + 1) = M1 * Weight(1)
        /\ Weight(2 + 1) = M1 * Weight(2) /\ Weight(3 + 1) = M1 * Weight(3)
    BY <2>1
  <2> QED
    BY <1>4, <2>2
<1> QED
  BY <1>5, <1>6 DEF Prime, Power

\* Limbs that the products accept.
FactorFits(n) ==
    /\ n \in [Index -> Nat]
    /\ \A i \in Index : n[i] <= Factor * Mask(i)

\* Those of an element of a magnitude that the products accept.
LEMMA FactorElement ==
    ASSUME LimbsFit, NEW e, Element(e), e.magnitude <= MulMagnitude
    PROVE  FactorFits(e.n)
<1>1. e.n \in [Index -> Nat] /\ e.magnitude \in 0..MaxMagnitude
  BY ElementSize, Zenon
<1>2. ASSUME NEW i \in Index
      PROVE  e.n[i] <= Factor * Mask(i)
  <2> PICK k \in Nat, m \in Nat, F \in Nat : k = Mask(i) /\ m = e.magnitude /\ F = MulMagnitude
    <3>1. Mask(i) \in Nat
      BY LimbSizes
    <3>2. MulMagnitude \in Nat /\ MaxMagnitude \in Nat
      BY DEF LimbsFit
    <3> QED
      BY <1>1, <3>1, <3>2
  <2>1. e.n[i] <= 2 * m * k
    BY DEF Element
  <2>2. 2 * m * k <= 2 * F * k
    <3>1. m <= F
      OBVIOUS
    <3> QED
      BY ONLY <3>1, m \in Nat, F \in Nat, k \in Nat
  <2> PICK x \in Int, y \in Int : x = 2 * m * k /\ y = 2 * F * k
    OBVIOUS
  <2>3. e.n[i] \in Nat
    BY <1>1
  <2>4. e.n[i] <= y
    BY <2>1, <2>2, <2>3
  <2> QED
    BY <2>4 DEF Factor
<1> QED
  BY <1>1, <1>2 DEF FactorFits

\* Five limbs: no product is larger than LimbProduct.
LEMMA FactorProducts ==
    ASSUME LimbsFit, ProductsFit, L = 5, NEW a, NEW b, FactorFits(a), FactorFits(b)
    PROVE  /\ \A i, j \in Index : a[i] * b[j] \in 0..LimbProduct
           /\ a[3] * b[4] + a[4] * b[3] <= 2 * ((Factor * Factor) * M1 * Top1)
<1> PICK F \in Nat, M \in Nat, T \in Nat : F = Factor /\ M = M1 /\ T = Top1 /\ T <= M
  <2>1. MulMagnitude \in Nat
    BY DEF LimbsFit
  <2>2. Factor \in Nat
    BY <2>1 DEF Factor
  <2>3. M1 \in Nat /\ Top1 \in Nat /\ Top1 <= M1
    BY Sizes
  <2> QED
    BY <2>2, <2>3
<1>0. Index = 0..4
  BY DEF Index
<1>1. ASSUME NEW n, FactorFits(n), NEW i \in Index
      PROVE  n[i] \in Nat /\ n[i] <= F * M
  <2> PICK k \in Nat : k = Mask(i) /\ k <= M
    BY LimbSizes, Sizes
  <2>1. F * k <= F * M
    BY ONLY F \in Nat, k \in Nat, M \in Nat, k <= M
  <2>2. n[i] \in Nat /\ n[i] <= F * k
    BY <1>1 DEF FactorFits
  <2> QED
    BY <2>1, <2>2
<1>2. ASSUME NEW n, FactorFits(n)
      PROVE  n[4] \in Nat /\ n[4] <= F * T
  <2>1. 4 \in Index /\ Mask(4) = T - 1 /\ n[4] \in Nat
    BY <1>0, <1>2 DEF FactorFits, Mask
  <2>2. n[4] <= F * (T - 1)
    BY <1>2, <2>1 DEF FactorFits
  <2>3. F * (T - 1) = F * T - F
    OBVIOUS
  <2> QED
    BY <2>1, <2>2, <2>3
<1> PICK A \in Nat, B \in Nat : A = F * M /\ B = F * T
  OBVIOUS
<1>3. A * A = LimbProduct
  <2>1. (F * M) * (F * M) = (F * F) * M * M
    BY ONLY F \in Nat, M \in Nat
  <2> QED
    BY <2>1 DEF LimbProduct
<1>4. A * B = (F * F) * M * T
  BY ONLY F \in Nat, M \in Nat, T \in Nat, A = F * M, B = F * T
<1>5. ASSUME NEW x \in Nat, NEW y \in Nat, NEW X \in Nat, NEW Y \in Nat, x <= X, y <= Y
      PROVE  x * y \in Nat /\ x * y <= X * Y
  BY ONLY <1>5, x \in Nat, y \in Nat, X \in Nat, Y \in Nat
<1>6. ASSUME NEW i \in Index, NEW j \in Index
      PROVE  a[i] * b[j] \in 0..LimbProduct
  <2> PICK x \in Nat, y \in Nat : x = a[i] /\ y = b[j] /\ x <= A /\ y <= A
    BY <1>1
  <2>1. x * y \in Nat /\ x * y <= A * A
    BY <1>5
  <2> QED
    BY <1>3, <2>1
<1>7. a[3] * b[4] + a[4] * b[3] <= 2 * ((F * F) * M * T)
  <2>1. 3 \in Index
    BY <1>0
  <2> PICK x \in Nat, y \in Nat, z \in Nat, w \in Nat :
          x = a[3] /\ y = b[4] /\ z = a[4] /\ w = b[3] /\ x <= A /\ w <= A /\ y <= B /\ z <= B
    BY <1>1, <1>2, <2>1
  <2>2. x * y \in Nat /\ x * y <= A * B
    BY <1>5
  <2>3. w * z \in Nat /\ w * z <= A * B
    BY <1>5
  <2>4. z * w = w * z
    OBVIOUS
  <2> QED
    BY <1>4, <2>2, <2>3, <2>4
<1> QED
  BY <1>6, <1>7

\* Sums of five products or less.
LEMMA ProductColumns ==
    ASSUME LimbsFit, ProductsFit, L = 5, NEW a, NEW b, FactorFits(a), FactorFits(b),
           NEW p, p = [k \in 0..8 |-> MulColumn(a, b, k)]
    PROVE  /\ ColumnsFit(p)
           /\ ColumnSum(p) = Value(a) * Value(b)
<1>0. Index = 0..4 /\ 0 \in Index /\ 1 \in Index /\ 2 \in Index /\ 3 \in Index /\ 4 \in Index
  BY DEF Index
<1>1. a \in [Index -> Nat] /\ b \in [Index -> Nat]
  BY DEF FactorFits
<1>2. a \in [Index -> Int] /\ b \in [Index -> Int]
  BY <1>1
<1>3. /\ p[0] = a[0] * b[0]
      /\ p[1] = a[0] * b[1] + a[1] * b[0]
      /\ p[2] = a[0] * b[2] + a[1] * b[1] + a[2] * b[0]
      /\ p[3] = a[0] * b[3] + a[1] * b[2] + a[2] * b[1] + a[3] * b[0]
      /\ p[4] = a[0] * b[4] + a[1] * b[3] + a[2] * b[2] + a[3] * b[1] + a[4] * b[0]
      /\ p[5] = a[1] * b[4] + a[2] * b[3] + a[3] * b[2] + a[4] * b[1]
      /\ p[6] = a[2] * b[4] + a[3] * b[3] + a[4] * b[2]
      /\ p[7] = a[3] * b[4] + a[4] * b[3]
      /\ p[8] = a[4] * b[4]
  <2>1. p[0] = MulColumn(a, b, 0) /\ p[1] = MulColumn(a, b, 1) /\ p[2] = MulColumn(a, b, 2)
        /\ p[3] = MulColumn(a, b, 3) /\ p[4] = MulColumn(a, b, 4) /\ p[5] = MulColumn(a, b, 5)
        /\ p[6] = MulColumn(a, b, 6) /\ p[7] = MulColumn(a, b, 7) /\ p[8] = MulColumn(a, b, 8)
    OBVIOUS
  <2> QED
    BY <1>2, <2>1, Columns5, Zenon
<1>4. DOMAIN p = 0..8 /\ p = [k \in 0..8 |-> p[k]]
  OBVIOUS
<1>5. \A i, j \in Index : a[i] * b[j] \in 0..LimbProduct
  BY FactorProducts
<1> PICK Q \in Nat : Q = LimbProduct
  <2>1. a[0] * b[0] \in 0..LimbProduct
    BY <1>0, <1>5
  <2> PICK x \in Nat, M \in Nat : x = Factor * Factor /\ M = M1
    BY Sizes5
  <2>2. x * M * M \in Nat
    OBVIOUS
  <2> QED
    BY <2>2 DEF LimbProduct
<1>6. ColumnsFit(p)
  <2>1. \A k \in 0..8 : p[k] \in Nat /\ p[k] <= 5 * Q
    <3> DEFINE f(i, j) == a[i] * b[j]
    <3>1. \A i, j \in Index : f(i, j) \in 0..Q
      BY <1>5
    <3>2. /\ p[0] = f(0, 0)
          /\ p[1] = f(0, 1) + f(1, 0)
          /\ p[2] = f(0, 2) + f(1, 1) + f(2, 0)
          /\ p[3] = f(0, 3) + f(1, 2) + f(2, 1) + f(3, 0)
          /\ p[4] = f(0, 4) + f(1, 3) + f(2, 2) + f(3, 1) + f(4, 0)
          /\ p[5] = f(1, 4) + f(2, 3) + f(3, 2) + f(4, 1)
          /\ p[6] = f(2, 4) + f(3, 3) + f(4, 2)
          /\ p[7] = f(3, 4) + f(4, 3)
          /\ p[8] = f(4, 4)
      BY <1>3, Zenon
    <3> HIDE DEF f
    <3> QED
      BY ONLY <1>0, <3>1, <3>2, Q \in Nat
  <2>2. p[7] <= 2 * ((Factor * Factor) * M1 * Top1)
    BY <1>3, FactorProducts, Zenon
  <2>3. p \in [0..8 -> Nat]
    BY <1>4, <2>1
  <2> QED
    BY <2>1, <2>2, <2>3 DEF ColumnsFit
<1> PICK M \in Int, a0 \in Int, a1 \in Int, a2 \in Int, a3 \in Int, a4 \in Int :
        M = M1 /\ a0 = a[0] /\ a1 = a[1] /\ a2 = a[2] /\ a3 = a[3] /\ a4 = a[4]
  <2>1. M1 \in Int
    BY Sizes
  <2>2. a[0] \in Int /\ a[1] \in Int /\ a[2] \in Int /\ a[3] \in Int /\ a[4] \in Int
    BY ONLY <1>0, <1>2
  <2> QED
    BY ONLY <2>1, <2>2, Zenon
<1> PICK b0 \in Int, b1 \in Int, b2 \in Int, b3 \in Int, b4 \in Int :
        b0 = b[0] /\ b1 = b[1] /\ b2 = b[2] /\ b3 = b[3] /\ b4 = b[4]
  BY <1>0, <1>2, Zenon
<1>7. Value(a) = a0 + M * (a1 + M * (a2 + M * (a3 + M * a4)))
      /\ Value(b) = b0 + M * (b1 + M * (b2 + M * (b3 + M * b4)))
  BY <1>2, Value5, Zenon
<1>8. (a0 + M * (a1 + M * (a2 + M * (a3 + M * a4)))) * (b0 + M * (b1 + M * (b2 + M * (b3 + M * b4))))
      = a0 * b0
        + M * ((a0 * b1 + a1 * b0)
        + M * ((a0 * b2 + a1 * b1 + a2 * b0)
        + M * ((a0 * b3 + a1 * b2 + a2 * b1 + a3 * b0)
        + M * ((a0 * b4 + a1 * b3 + a2 * b2 + a3 * b1 + a4 * b0)
        + M * ((a1 * b4 + a2 * b3 + a3 * b2 + a4 * b1)
        + M * ((a2 * b4 + a3 * b3 + a4 * b2)
        + M * ((a3 * b4 + a4 * b3) + M * (a4 * b4))))))))
  BY ONLY M \in Int, a0 \in Int, a1 \in Int, a2 \in Int, a3 \in Int, a4 \in Int,
          b0 \in Int, b1 \in Int, b2 \in Int, b3 \in Int, b4 \in Int, SMTT(60)
<1>9. ColumnSum(p) = Value(a) * Value(b)
  <2>1. p[0] + M * (p[1] + M * (p[2] + M * (p[3] + M * (p[4] + M * (p[5] + M * (p[6] + M * (p[7] + M * p[8])))))))
        = Value(a) * Value(b)
    BY <1>3, <1>7, <1>8, Zenon
  <2>2. ColumnSum(p)
        = p[0] + M * (p[1] + M * (p[2] + M * (p[3] + M * (p[4] + M * (p[5] + M * (p[6] + M * (p[7] + M * p[8])))))))
    BY Zenon DEF ColumnSum
  <2> QED
    BY ONLY <2>1, <2>2, Zenon
<1> QED
  BY <1>6, <1>9

\* What the product of the build and that in C return for five limbs: the same,
\* no sum too large for its integer, and the product but for a multiple of the
\* prime.
LEMMA FiveRight ==
    ASSUME LimbsFit, ProductsFit, L = 5, NEW p, ColumnsFit(p)
    PROVE  /\ Five(p).n \in [Index -> Nat] /\ Five(p).ok = TRUE
           /\ \A i \in Index : Five(p).n[i] <= 2 * 1 * Mask(i)
           /\ \E k \in Int : Value(Five(p).n) = ColumnSum(p) - Prime * k
<1> DEFINE limbs == <<C0(p) % M1, C1(p) % M1, C2(p) % M1, C3(p) % M1, C4(p)>>
           sums  == <<D3(p), D4(p), D5(p), D6(p), D7(p), C0(p), C1(p), C2(p), C3(p), C4(p)>>
<1>0. Index = 0..4
  BY DEF Index
<1>1. Five(p).n = [i \in Index |-> limbs[i + 1]] /\ Five(p).ok = Fits(sums)
  BY Zenon DEF Five
<1>2. \A x \in {p[8], D3(p), D4(p), D5(p), D6(p), D7(p), C0(p), C1(p), C2(p), C3(p), C4(p)} :
          x \in 0..(7 * LimbProduct)
  BY Sums5
<1>3. \A x \in 0..(7 * LimbProduct) : x \in 0..(Wide - 1)
  BY Registers5
<1>4. Fits(sums)
  <2>1. \A i \in DOMAIN sums :
            sums[i] \in {p[8], D3(p), D4(p), D5(p), D6(p), D7(p), C0(p), C1(p), C2(p), C3(p), C4(p)}
    <3> TAKE i \in DOMAIN sums
    <3>1. i \in 1..10
      OBVIOUS
    <3>2. i = 1 \/ i = 2 \/ i = 3 \/ i = 4 \/ i = 5 \/ i = 6 \/ i = 7 \/ i = 8 \/ i = 9 \/ i = 10
      BY <3>1
    <3>3. sums[1] = D3(p) /\ sums[2] = D4(p) /\ sums[3] = D5(p) /\ sums[4] = D6(p) /\ sums[5] = D7(p)
          /\ sums[6] = C0(p) /\ sums[7] = C1(p) /\ sums[8] = C2(p) /\ sums[9] = C3(p) /\ sums[10] = C4(p)
      OBVIOUS
    <3> HIDE DEF sums
    <3> QED
      BY <3>2, <3>3, Zenon
  <2> HIDE DEF sums
  <2> QED
    BY <1>2, <1>3, <2>1 DEF Fits
<1>5. limbs[1] = C0(p) % M1 /\ limbs[2] = C1(p) % M1 /\ limbs[3] = C2(p) % M1 /\ limbs[4] = C3(p) % M1
      /\ limbs[5] = C4(p)
  OBVIOUS
<1> HIDE DEF limbs, sums
<1> DEFINE n == Five(p).n
<1>6. n[0] = C0(p) % M1 /\ n[1] = C1(p) % M1 /\ n[2] = C2(p) % M1 /\ n[3] = C3(p) % M1 /\ n[4] = C4(p)
  <2>1. n[0] = limbs[0 + 1] /\ n[1] = limbs[1 + 1] /\ n[2] = limbs[2 + 1] /\ n[3] = limbs[3 + 1]
        /\ n[4] = limbs[4 + 1]
    BY <1>0, <1>1
  <2>2. 0 + 1 = 1 /\ 1 + 1 = 2 /\ 2 + 1 = 3 /\ 3 + 1 = 4 /\ 4 + 1 = 5
    OBVIOUS
  <2> QED
    BY <1>5, <2>1, <2>2, Zenon
<1> PICK M \in Nat, T \in Nat : M = M1 /\ T = Top1 /\ M >= 2 /\ T >= 8
  BY Sizes
<1>7. C0(p) \in Int /\ C1(p) \in Int /\ C2(p) \in Int /\ C3(p) \in Int /\ C4(p) \in 0..(2 * (T - 1))
  BY <1>2, Sums5
<1>8. \A i \in Index : n[i] \in Nat /\ n[i] <= 2 * 1 * Mask(i)
  <2>1. \A x \in Int : (x % M) \in 0..(M - 1)
    BY Division
  <2>2. /\ n[0] \in 0..(M - 1) /\ n[1] \in 0..(M - 1) /\ n[2] \in 0..(M - 1) /\ n[3] \in 0..(M - 1)
        /\ n[4] \in 0..(2 * (T - 1))
    BY <1>6, <1>7, <2>1, Zenon
  <2> HIDE DEF n
  <2> TAKE i \in Index
  <2>3. CASE i = 4
    BY <2>2, <2>3 DEF Mask
  <2>4. CASE i # 4
    <3>1. n[i] \in 0..(M - 1) /\ Mask(i) = M - 1
      BY <1>0, <2>2, <2>4 DEF Mask
    <3> QED
      BY <3>1
  <2> QED
    BY <2>3, <2>4
<1>9. n \in [Index -> Nat]
  <2>1. n = [i \in Index |-> n[i]]
    BY <1>1
  <2> QED
    BY <1>8, <2>1
<1>10. Value(n) = n[0] + M1 * (n[1] + M1 * (n[2] + M1 * (n[3] + M1 * n[4])))
  <2>1. n \in [Index -> Int]
    BY <1>9
  <2> HIDE DEF n
  <2> QED
    BY <2>1, Value5
<1>11. \E k \in Int : Value(n) = ColumnSum(p) - Prime * k
  <2> DEFINE x == (C0(p) % M1) + M1 * ((C1(p) % M1) + M1 * ((C2(p) % M1) + M1 * ((C3(p) % M1) + M1 * C4(p))))
             q == Top1 * (M1 * (M1 * (M1 * M1))) - C[1]
  <2>1. \E k \in Int : x = ColumnSum(p) - q * k
    BY Sums5
  <2>2. Prime = q
    BY Prime5
  <2>3. Value(n) = x
    <3> HIDE DEF n
    <3> QED
      BY ONLY <1>6, <1>10, Zenon
  <2> HIDE DEF n, x, q
  <2> QED
    BY ONLY <2>1, <2>2, <2>3
<1> QED
  BY <1>1, <1>4, <1>8, <1>9, <1>11

\* An element that stands for the product of two numbers.
LEMMA ProductElement ==
    ASSUME LimbsFit, ProductsFit, L = 5, NEW a, NEW b, FactorFits(a), FactorFits(b),
           NEW p, p = [k \in 0..8 |-> MulColumn(a, b, k)]
    PROVE  /\ Element(Fe(Five(p).n, 1, FALSE, TRUE)) /\ Five(p).ok = TRUE
           /\ Value(Five(p).n) % Prime = (Value(a) * Value(b)) % Prime
<1>1. ColumnsFit(p)
  BY ProductColumns
<1>2. Five(p).n \in [Index -> Nat] /\ Five(p).ok = TRUE /\ \A i \in Index : Five(p).n[i] <= 2 * 1 * Mask(i)
  BY <1>1, FiveRight, Zenon
<1>3. Element(Fe(Five(p).n, 1, FALSE, TRUE))
  <2>1. 1 \in 0..MaxMagnitude
    BY Sizes
  <2> PICK n \in [Index -> Nat], m \in 0..MaxMagnitude : n = Five(p).n /\ m = 1
    BY <1>2, <2>1, Zenon
  <2>2. \A i \in Index : n[i] <= 2 * m * Mask(i)
    BY <1>2
  <2>3. Element(Fe(n, m, FALSE, TRUE))
    BY <2>2, WordElement, Zenon
  <2> QED
    BY <2>3, Zenon
<1>4. PICK k \in Int : Value(Five(p).n) = Value(a) * Value(b) - Prime * k
  <2>1. ColumnSum(p) = Value(a) * Value(b)
    BY ProductColumns
  <2> QED
    BY <1>1, <2>1, FiveRight, Zenon
<1>5. Value(a) \in Int /\ Value(b) \in Int
  <2>1. a \in [Index -> Int] /\ b \in [Index -> Int]
    BY DEF FactorFits
  <2> QED
    BY <2>1, ValueType
<1>6. Prime \in Nat /\ Prime >= 1
  BY PrimeSize
<1>7. Value(Five(p).n) % Prime = (Value(a) * Value(b)) % Prime
  <2> PICK m \in Nat, u \in Int, v \in Int, w \in Int, x \in Int :
          m = Prime /\ m >= 1 /\ u = Value(a) /\ v = Value(b) /\ w = u * v /\ x = -k
    BY <1>5, <1>6
  <2>1. ((w + m * x) % m) = (w % m)
    BY ModShift, ZenonT(30)
  <2>2. Value(Five(p).n) = w + m * x
    BY <1>4
  <2> QED
    BY <2>1, <2>2
<1> QED
  BY <1>2, <1>3, <1>7, Zenon

\* Columns by which a product is made, in the C and in the assembler.
LEMMA MulColumns ==
    ASSUME LimbsFit, ProductsFit, L = 5, NEW a, NEW b, FactorFits(a), FactorFits(b),
           NEW p, p = [k \in 0..8 |-> MulColumn(a, b, k)]
    PROVE  fe_mul_inner5(a, b) = Five(p) /\ fe_mul_inner5_asm(a, b) = Five(p)
<1>1. MulColumn(a, b, 0) = p[0] /\ MulColumn(a, b, 1) = p[1] /\ MulColumn(a, b, 2) = p[2]
      /\ MulColumn(a, b, 3) = p[3] /\ MulColumn(a, b, 4) = p[4] /\ MulColumn(a, b, 5) = p[5]
      /\ MulColumn(a, b, 6) = p[6] /\ MulColumn(a, b, 7) = p[7] /\ MulColumn(a, b, 8) = p[8]
  OBVIOUS
<1>2. ColumnsFit(p)
  BY ProductColumns
<1>3. fe_mul_inner5(a, b) = Product5(LAMBDA k : p[k], Shr)
  BY ONLY <1>1, ZenonT(60) DEF fe_mul_inner5, Product5
<1>4. fe_mul_inner5_asm(a, b) = Product5(LAMBDA k : p[k], ShrToWord)
  BY ONLY <1>1, ZenonT(60) DEF fe_mul_inner5_asm, Product5
<1>5. Product5(LAMBDA k : p[k], Shr) = Five(p)
  BY ONLY Five5, Zenon
<1>6. Product5(LAMBDA k : p[k], ShrToWord) = Five(p)
  BY ONLY <1>2, LimbsFit, ProductsFit, L = 5, Assembler5, Zenon
<1> QED
  BY ONLY <1>3, <1>4, <1>5, <1>6, Zenon

\* fe_mul of five limbs, in C and in assembler, multiplies the numbers modulo the
\* prime, for elements of a magnitude that it accepts: no sum outgrows two words,
\* nothing is lost of a sum that the assembler keeps in one, and the product has
\* magnitude one.
LEMMA MulRight5 ==
    ASSUME LimbsFit, ProductsFit, L = 5, NEW a, Element(a), NEW b, Element(b),
           a.magnitude <= MulMagnitude, b.magnitude <= MulMagnitude
    PROVE  /\ Element(fe_mul(a, b)) /\ fe_mul(a, b).magnitude = 1
           /\ Value(fe_mul(a, b).n) % Prime = (Value(a.n) * Value(b.n)) % Prime
           /\ fe_mul_inner5(a.n, b.n) = fe_mul_inner5_asm(a.n, b.n)
<1>1. FactorFits(a.n) /\ FactorFits(b.n)
  BY FactorElement
<1> PICK p : p = [k \in 0..8 |-> MulColumn(a.n, b.n, k)]
  BY Zenon
<1>2. fe_mul_inner5(a.n, b.n) = Five(p) /\ fe_mul_inner5_asm(a.n, b.n) = Five(p)
  BY <1>1, MulColumns
<1>3. Element(Fe(Five(p).n, 1, FALSE, TRUE)) /\ Five(p).ok = TRUE
      /\ Value(Five(p).n) % Prime = (Value(a.n) * Value(b.n)) % Prime
  BY <1>1, ProductElement, Zenon
<1>4. fe_mul(a, b) = Fe(Five(p).n, 1, FALSE, TRUE)
  <2>1. fe_mul(a, b) = Fe(Five(p).n, 1, FALSE,
                          a.ok /\ b.ok /\ Five(p).ok /\ {a.magnitude, b.magnitude} \subseteq 0..MulMagnitude)
    <3>1. ~(L = 10)
      OBVIOUS
    <3> QED
      BY <1>2, <3>1, Zenon DEF fe_mul
  <2>2. a.ok = TRUE /\ b.ok = TRUE /\ a.magnitude \in 0..MaxMagnitude /\ b.magnitude \in 0..MaxMagnitude
    BY ElementSize, Zenon
  <2>3. {a.magnitude, b.magnitude} \subseteq 0..MulMagnitude
    <3>1. MulMagnitude \in Nat /\ MaxMagnitude \in Nat
      BY DEF LimbsFit
    <3> QED
      BY <2>2, <3>1
  <2> QED
    BY <1>3, <2>1, <2>2, <2>3, Zenon
<1>5. Fe(Five(p).n, 1, FALSE, TRUE).n = Five(p).n /\ Fe(Five(p).n, 1, FALSE, TRUE).magnitude = 1
  BY DEF Fe
<1> QED
  BY <1>2, <1>3, <1>4, <1>5, Zenon

\* The doubled limb of a square is not too large for its word, so that the columns
\* of a square are those of the product of an element with itself.
LEMMA SqrColumns5 ==
    ASSUME LimbsFit, ProductsFit, L = 5, NEW a, FactorFits(a)
    PROVE  \A k \in 0..8 : SqrColumn(a, k) = MulColumn(a, a, k)
<1>0. Index = 0..4
  BY DEF Index
<1>1. a \in [Index -> Int] /\ \A i \in Index : a[i] \in Int
  BY DEF FactorFits
<1>2. \A i \in Index : (a[i] * 2) % 2^Word = 2 * a[i]
  <2> TAKE i \in Index
  <2> PICK F \in Nat, M \in Nat, X \in Nat, K \in Nat :
          F = Factor /\ M = M1 /\ X = Factor * Factor /\ K = Mask(i) /\ K <= M - 1 /\ M >= 1 /\ F >= 1
    <3>1. MulMagnitude \in Nat /\ MulMagnitude >= 1
      BY DEF LimbsFit
    <3>2. Factor \in Nat /\ Factor >= 1
      BY <3>1 DEF Factor
    <3>3. M1 \in Nat /\ M1 >= 1 /\ Mask(i) \in Nat /\ Mask(i) <= M1 - 1
      BY Sizes, LimbSizes
    <3>4. Factor * Factor \in Nat
      BY <3>2
    <3> QED
      BY <3>2, <3>3, <3>4, Zenon
  <2> PICK W \in Nat : W = 2^Word
    BY PowerPositive DEF LimbsFit
  <2>1. 8 * X * M <= W
    BY Sizes5
  <2>2. a[i] \in Nat /\ a[i] <= F * K
    BY DEF FactorFits
  <2>3. F * K <= F * (M - 1)
    BY ONLY F \in Nat, K \in Nat, M \in Nat, K <= M - 1
  <2>4. F * (M - 1) = F * M - F
    BY ONLY F \in Nat, M \in Nat
  <2>5. F * M <= X * M
    <3>1. F <= F * F
      BY ONLY F \in Nat, F >= 1
    <3>2. F <= X
      BY <3>1
    <3> QED
      BY ONLY <3>2, F \in Nat, X \in Nat, M \in Nat
  <2> PICK x \in Nat, f \in Nat, g \in Nat : x = a[i] /\ f = F * M /\ g = X * M
    BY <2>2
  <2>6. x <= f - F /\ f <= g /\ 8 * g <= W
    <3>1. 8 * X * M = 8 * g
      BY ONLY X \in Nat, M \in Nat, g = X * M
    <3> QED
      BY <2>1, <2>2, <2>3, <2>4, <2>5, <3>1
  <2>7. x * 2 \in 0..(W - 1) /\ W >= 1
    BY ONLY <2>6, x \in Nat, f \in Nat, g \in Nat, F \in Nat, F >= 1, W \in Nat
  <2>8. ((x * 2) % W) = x * 2
    BY ONLY <2>7, W \in Nat, ModSmall
  <2> QED
    BY <2>8
<1> TAKE k \in 0..8
<1>3. a \in [Index -> Int] /\ k \in 0..(2 * L - 2)
  BY <1>1
<1> QED
  BY ONLY <1>2, <1>3, LimbsFit, SqrColumns

\* fe_sqr of five limbs, in C and in assembler, squares the number modulo the prime,
\* as fe_mul multiplies it with itself.
LEMMA SqrRight5 ==
    ASSUME LimbsFit, ProductsFit, L = 5, NEW a, Element(a), a.magnitude <= MulMagnitude
    PROVE  /\ Element(fe_sqr(a)) /\ fe_sqr(a).magnitude = 1
           /\ Value(fe_sqr(a).n) % Prime = (Value(a.n) * Value(a.n)) % Prime
           /\ fe_sqr_inner5(a.n) = fe_sqr_inner5_asm(a.n)
           /\ fe_sqr_inner5(a.n) = fe_mul_inner5(a.n, a.n)
<1>1. FactorFits(a.n)
  BY FactorElement
<1> PICK p : p = [k \in 0..8 |-> MulColumn(a.n, a.n, k)]
  BY Zenon
<1>2. fe_mul_inner5(a.n, a.n) = Five(p) /\ ColumnsFit(p)
  BY <1>1, MulColumns, ProductColumns
<1>3. Element(Fe(Five(p).n, 1, FALSE, TRUE)) /\ Five(p).ok = TRUE
      /\ Value(Five(p).n) % Prime = (Value(a.n) * Value(a.n)) % Prime
  BY <1>1, ProductElement, Zenon
<1>4. SqrColumn(a.n, 0) = p[0] /\ SqrColumn(a.n, 1) = p[1] /\ SqrColumn(a.n, 2) = p[2]
      /\ SqrColumn(a.n, 3) = p[3] /\ SqrColumn(a.n, 4) = p[4] /\ SqrColumn(a.n, 5) = p[5]
      /\ SqrColumn(a.n, 6) = p[6] /\ SqrColumn(a.n, 7) = p[7] /\ SqrColumn(a.n, 8) = p[8]
  <2>1. \A k \in 0..8 : SqrColumn(a.n, k) = MulColumn(a.n, a.n, k)
    BY <1>1, SqrColumns5
  <2> QED
    BY <2>1
<1>5. fe_sqr_inner5(a.n) = Product5(LAMBDA k : p[k], Shr)
  BY ONLY <1>4, ZenonT(60) DEF fe_sqr_inner5, Product5
<1>6. fe_sqr_inner5_asm(a.n) = Product5(LAMBDA k : p[k], ShrToWord)
  BY ONLY <1>4, ZenonT(60) DEF fe_sqr_inner5_asm, Product5
<1>7. Product5(LAMBDA k : p[k], Shr) = Five(p)
  BY ONLY Five5, Zenon
<1>8. Product5(LAMBDA k : p[k], ShrToWord) = Five(p)
  BY ONLY <1>2, LimbsFit, ProductsFit, L = 5, Assembler5, Zenon
<1>9. fe_sqr_inner5(a.n) = Five(p) /\ fe_sqr_inner5_asm(a.n) = Five(p)
  BY ONLY <1>5, <1>6, <1>7, <1>8, Zenon
<1>10. fe_sqr(a) = Fe(Five(p).n, 1, FALSE, TRUE)
  <2>1. fe_sqr(a) = Fe(Five(p).n, 1, FALSE, a.ok /\ Five(p).ok /\ a.magnitude <= MulMagnitude)
    <3>1. ~(L = 10)
      OBVIOUS
    <3> QED
      BY <1>9, <3>1, Zenon DEF fe_sqr
  <2>2. a.ok = TRUE
    BY ElementSize, Zenon
  <2> QED
    BY <1>3, <2>1, <2>2, Zenon
<1>11. Fe(Five(p).n, 1, FALSE, TRUE).n = Five(p).n /\ Fe(Five(p).n, 1, FALSE, TRUE).magnitude = 1
  BY DEF Fe
<1> QED
  BY <1>2, <1>3, <1>9, <1>10, <1>11, Zenon

-----------------------------------------------------------------------------
(* Ten limbs.                                                              *)

\* What one limb above the power of two is worth in the limbs, times that of the
\* highest limb.
R10(i) == C[i] * 2^Slack

\* The sizes, in the form that the sums need.
LEMMA Sizes10 ==
    ASSUME LimbsFit, Products10Fit, L = 10
    PROVE  /\ M1 \in Nat /\ Top1 \in Nat /\ 2^Slack \in Nat /\ C[1] \in Nat /\ C[2] \in Nat
           /\ Factor \in Nat /\ Factor >= 2 /\ Factor * Factor \in Nat /\ Factor * Factor >= 4
           /\ M1 = 2^Slack * Top1 /\ 2^Slack >= 1 /\ Len(C) = 2 /\ 2^Word \in Nat
           /\ LimbProduct \in Nat /\ 12 * LimbProduct <= Wide /\ Wide = 2^Word * 2^Word
           /\ Factor * Top1 <= M1
           /\ 2^Slack * (12 * (Factor * Factor) + (2 * C[1] + C[2]) * 2^Slack + 1) <= M1
           /\ (2 * C[2] * (2^Slack * 2^Slack) + 1) * C[1] + 1 <= M1
           /\ (2 * C[2] * (2^Slack * 2^Slack) + 1) * C[2] + 3 <= M1
<1>1. /\ M1 \in Nat /\ Top1 \in Nat /\ Slack \in Nat /\ Bits \in Nat /\ Slack < Bits
      /\ 2^Slack \in Nat /\ 2^Slack >= 1 /\ C[1] \in Nat /\ C[2] \in Nat /\ Len(C) = 2
  <2>1. Len(C) = 2 /\ \A i \in 1..Len(C) : C[i] \in 1..(M1 - 1)
    BY 10 \div 5 = 2 DEF LimbsFit
  <2> QED
    BY <2>1, Sizes, PowerPositive
<1>2. M1 = 2^Slack * Top1
  <2>1. Bits - Slack \in Nat /\ Slack + (Bits - Slack) = Bits
    BY <1>1
  <2> QED
    BY <1>1, <2>1, PowerSum DEF M1, Top1
<1>3. MulMagnitude \in Nat /\ MulMagnitude >= 1
  BY DEF LimbsFit
<1> PICK F \in Nat : F = Factor /\ F >= 2
  BY <1>3 DEF Factor
<1>4. F * F >= 4 /\ F * F \in Nat
  <2>1. F * F >= 2 * F
    BY ONLY F \in Nat, F >= 2
  <2> QED
    BY ONLY <2>1, F \in Nat, F >= 2
<1>5. 2^Word \in Nat /\ Wide = 2^Word * 2^Word
  <2>1. Word \in Nat /\ 2 * Word = Word + Word
    BY DEF LimbsFit
  <2>2. 2^(Word + Word) = 2^Word * 2^Word
    BY <2>1, PowerSum
  <2> QED
    BY <2>1, <2>2, PowerPositive DEF Wide
<1>6. LimbProduct \in Nat /\ 12 * LimbProduct <= Wide
  <2> PICK X \in Nat, M \in Nat : X = Factor * Factor /\ M = M1
    BY <1>1, <1>4
  <2>1. 12 * X * (M * M) <= Wide
    BY DEF Products10Fit, Wide
  <2>2. LimbProduct = X * M * M
    BY DEF LimbProduct
  <2>3. X * M * M \in Nat /\ 12 * X * (M * M) = 12 * (X * M * M)
    OBVIOUS
  <2> QED
    BY <2>1, <2>2, <2>3
<1>7. /\ Factor * Top1 <= M1
      /\ 2^Slack * (12 * (Factor * Factor) + (2 * C[1] + C[2]) * 2^Slack + 1) <= M1
      /\ (2 * C[2] * (2^Slack * 2^Slack) + 1) * C[1] + 1 <= M1
      /\ (2 * C[2] * (2^Slack * 2^Slack) + 1) * C[2] + 3 <= M1
  BY Zenon DEF Products10Fit
<1> QED
  BY ONLY <1>1, <1>2, <1>4, <1>5, <1>6, <1>7, F \in Nat, F = Factor, F >= 2

\* The power of two is the prime and C, and the weight of a limb above the highest
\* is 2^Slack times that power.
LEMMA Prime10 ==
    ASSUME LimbsFit, L = 10
    PROVE  /\ Power = Prime + (C[1] + C[2] * M1) /\ Power = Top1 * Weight(9)
           /\ Weight(10) = 2^Slack * Power /\ Weight(10) = M1 * Weight(9)
           /\ Prime \in Nat /\ Power \in Nat /\ Weight(9) \in Nat /\ C[1] \in Nat /\ C[2] \in Nat
<1>1. Len(C) = 2 /\ C[1] \in Nat /\ C[2] \in Nat
  <2>1. Len(C) = 2 /\ \A i \in 1..Len(C) : C[i] \in 1..(M1 - 1)
    BY 10 \div 5 = 2 DEF LimbsFit
  <2> QED
    BY <2>1, Sizes
<1>2. Index = 0..9
  BY DEF Index
<1>3. /\ CLimbs \in [Index -> Int] /\ CLimbs[0] = C[1] /\ CLimbs[1] = C[2]
      /\ Value(CLimbs) = Worth(CLimbs)[2] /\ Prime \in Nat /\ Power \in Nat /\ Power = Prime + Value(CLimbs)
  <2>1. CLimbs \in [Index -> Int] /\ (\A i \in Index : CLimbs[i] = Cof(i)) /\ Value(CLimbs) = Worth(CLimbs)[Len(C)]
        /\ Prime \in Nat /\ Power \in Nat /\ Power = Prime + Value(CLimbs)
    BY PrimeSize
  <2>2. 0 \in Index /\ 1 \in Index /\ 0 < Len(C) /\ 1 < Len(C)
    BY <1>1, <1>2
  <2>3. CLimbs[0] = C[0 + 1] /\ CLimbs[1] = C[1 + 1]
    BY <2>1, <2>2 DEF Cof
  <2> QED
    BY <1>1, <2>1, <2>3
<1>4. M1 \in Nat /\ Weight(0) = 1 /\ Weight(1) = M1
  <2>1. Weight(0) = 1 /\ Weight(0 + 1) = M1 * Weight(0) /\ M1 \in Nat
    BY Weights, Sizes
  <2> QED
    BY <2>1
<1>5. Worth(CLimbs)[2] = C[1] + C[2] * M1
  <2>1. /\ Worth(CLimbs)[0] = 0
        /\ Worth(CLimbs)[0 + 1] = Worth(CLimbs)[0] + CLimbs[0] * Weight(0)
        /\ Worth(CLimbs)[1 + 1] = Worth(CLimbs)[1] + CLimbs[1] * Weight(1)
    BY <1>2, <1>3, WorthSteps
  <2> QED
    BY <1>1, <1>3, <1>4, <2>1
<1>6. Power = Top1 * Weight(9) /\ Weight(9) \in Nat /\ Weight(9 + 1) = M1 * Weight(9)
  BY Weights DEF Power
<1>7. M1 = 2^Slack * Top1 /\ 2^Slack \in Nat /\ Top1 \in Nat
  <2>0. Slack \in Nat /\ Bits \in Nat /\ Slack < Bits /\ Top1 \in Nat
    BY Sizes
  <2>1. Bits - Slack \in Nat /\ Slack + (Bits - Slack) = Bits
    BY <2>0
  <2> QED
    BY <2>0, <2>1, PowerSum, PowerPositive DEF M1, Top1
<1>8. Weight(10) = 2^Slack * Power
  <2> PICK S \in Nat, T \in Nat, w \in Nat : S = 2^Slack /\ T = Top1 /\ w = Weight(9)
    BY <1>6, <1>7, Zenon
  <2>1. (S * T) * w = S * (T * w)
    OBVIOUS
  <2> QED
    BY <1>6, <1>7, <2>1
<1> QED
  BY <1>1, <1>3, <1>5, <1>6, <1>8

\* Limbs that are there so far, and zeros.
Padded(t) == [i \in Index |-> IF i < Len(t) THEN t[i + 1] ELSE 0]

\* One more.
LEMMA Appended ==
    ASSUME LimbsFit, NEW t \in Seq(0..(M1 - 1)), NEW k \in Index, Len(t) = k, NEW x \in 0..(M1 - 1),
           NEW q, q = Append(t, x)
    PROVE  /\ q \in Seq(0..(M1 - 1)) /\ Len(q) = k + 1
           /\ Padded(t) \in [Index -> Int] /\ Padded(q) \in [Index -> Int]
           /\ Worth(Padded(t))[k] \in Int
           /\ Worth(Padded(q))[k + 1] = Worth(Padded(t))[k] + x * Weight(k)
<1>0. L \in Nat /\ Index = 0..(L - 1) /\ k \in Nat /\ k \in 0..L /\ k + 1 \in 0..L /\ M1 \in Nat
  BY Sizes DEF Index
<1>1. q \in Seq(0..(M1 - 1)) /\ Len(q) = k + 1 /\ q[k + 1] = x /\ \A i \in 1..k : q[i] = t[i]
  BY <1>0
<1>2. ASSUME NEW s \in Seq(0..(M1 - 1))
      PROVE  Padded(s) \in [Index -> Int]
  <2>1. \A i \in Index : i < Len(s) => s[i + 1] \in Int
    <3> TAKE i \in Index
    <3>1. i < Len(s) => i + 1 \in 1..Len(s)
      BY <1>0
    <3>2. \A j \in 1..Len(s) : s[j] \in 0..(M1 - 1)
      <4> PICK T : T = 0..(M1 - 1)
        OBVIOUS
      <4>1. s \in Seq(T)
        OBVIOUS
      <4>2. \A j \in 1..Len(s) : s[j] \in T
        BY ONLY <4>1
      <4> QED
        BY <4>2
    <3> QED
      BY <1>0, <3>1, <3>2
  <2> QED
    BY <2>1 DEF Padded
<1>3. Padded(t) \in [Index -> Int] /\ Padded(q) \in [Index -> Int]
  BY <1>1, <1>2, Zenon
<1>4. \A i \in Index : i < k => Padded(t)[i] = Padded(q)[i]
  <2> TAKE i \in Index
  <2> HAVE i < k
  <2>1. i + 1 \in 1..k /\ i < k + 1
    BY <1>0
  <2> QED
    BY <1>1, <2>1 DEF Padded
<1>5. Worth(Padded(q))[k] = Worth(Padded(t))[k]
  <2> PICK y \in [Index -> Int], z \in [Index -> Int] : y = Padded(t) /\ z = Padded(q)
    BY <1>3
  <2>1. Worth(y)[k] = Worth(z)[k]
    BY <1>0, <1>4, WorthSame, ZenonT(60)
  <2> QED
    BY <2>1
<1>6. Padded(q)[k] = x
  BY <1>0, <1>1 DEF Padded
<1>7. Worth(Padded(q))[k + 1] = Worth(Padded(q))[k] + Padded(q)[k] * Weight(k)
  BY <1>3, WorthSteps
<1>8. Worth(Padded(t))[k] \in Int
  BY <1>0, <1>3, WorthSteps, Zenon
<1> QED
  BY <1>1, <1>3, <1>5, <1>6, <1>7, <1>8

-----------------------------------------------------------------------------
(* The columns of ten limbs.                                               *)

\* No product of two limbs is larger than LimbProduct, and that of the highest two
\* is smaller.
LEMMA FactorProducts10 ==
    ASSUME LimbsFit, Products10Fit, L = 10, NEW a, NEW b, FactorFits(a), FactorFits(b)
    PROVE  /\ \A i, j \in Index : a[i] * b[j] \in 0..LimbProduct
           /\ a[9] * b[9] \in 0..(M1 * M1)
<1> PICK F \in Nat, M \in Nat, T \in Nat : F = Factor /\ M = M1 /\ T = Top1 /\ T <= M /\ F * T <= M
  BY Sizes10, Sizes, Zenon
<1>0. Index = 0..9
  BY DEF Index
<1>1. ASSUME NEW n, FactorFits(n), NEW i \in Index
      PROVE  n[i] \in Nat /\ n[i] <= F * M
  <2> PICK k \in Nat : k = Mask(i) /\ k <= M
    BY LimbSizes, Sizes
  <2>1. F * k <= F * M
    BY ONLY F \in Nat, k \in Nat, M \in Nat, k <= M
  <2>2. n[i] \in Nat /\ n[i] <= F * k
    BY <1>1 DEF FactorFits
  <2> QED
    BY <2>1, <2>2
<1>2. ASSUME NEW n, FactorFits(n)
      PROVE  n[9] \in Nat /\ n[9] <= M
  <2>1. 9 \in Index /\ Mask(9) = T - 1 /\ n[9] \in Nat
    BY <1>0, <1>2 DEF FactorFits, Mask
  <2>2. n[9] <= F * (T - 1)
    BY <1>2, <2>1 DEF FactorFits
  <2>3. F * (T - 1) = F * T - F
    OBVIOUS
  <2> QED
    BY <2>1, <2>2, <2>3
<1> PICK A \in Nat : A = F * M
  OBVIOUS
<1>3. A * A = LimbProduct
  <2>1. (F * M) * (F * M) = (F * F) * M * M
    BY ONLY F \in Nat, M \in Nat
  <2> QED
    BY <2>1 DEF LimbProduct
<1>4. ASSUME NEW x \in Nat, NEW y \in Nat, NEW X \in Nat, x <= X, y <= X
      PROVE  x * y \in Nat /\ x * y <= X * X
  BY ONLY <1>4, x \in Nat, y \in Nat, X \in Nat
<1>5. ASSUME NEW i \in Index, NEW j \in Index
      PROVE  a[i] * b[j] \in 0..LimbProduct
  <2> PICK x \in Nat, y \in Nat : x = a[i] /\ y = b[j] /\ x <= A /\ y <= A
    BY <1>1
  <2>1. x * y \in Nat /\ x * y <= A * A
    BY <1>4
  <2> QED
    BY <1>3, <2>1
<1>6. a[9] * b[9] \in 0..(M1 * M1)
  <2> PICK x \in Nat, y \in Nat : x = a[9] /\ y = b[9] /\ x <= M /\ y <= M
    BY <1>2
  <2>1. x * y \in Nat /\ x * y <= M * M
    BY <1>4
  <2> QED
    BY <2>1
<1> QED
  BY <1>5, <1>6

\* The sums from which the product of ten limbs is made.
Columns10Fit(p) ==
    /\ p \in [0..18 -> Nat] /\ \A k \in 0..18 : p[k] <= 10 * LimbProduct
    /\ p[18] <= M1 * M1

\* They are sums of ten products or less, the last one of a single one.
LEMMA ProductColumns10 ==
    ASSUME LimbsFit, Products10Fit, L = 10, NEW a, NEW b, FactorFits(a), FactorFits(b),
           NEW p, p = [k \in 0..18 |-> MulColumn(a, b, k)]
    PROVE  Columns10Fit(p)
<1>0. Index = 0..9 /\ a \in [Index -> Int] /\ b \in [Index -> Int]
  BY DEF Index, FactorFits
<1>1. \A i, j \in Index : a[i] * b[j] \in 0..LimbProduct
  BY FactorProducts10
<1> PICK Q \in Nat : Q = LimbProduct
  BY Sizes10
<1>2. ASSUME NEW k \in 0..18
      PROVE  p[k] \in Nat /\ p[k] <= 10 * Q
  <2>0. k \in Int
    OBVIOUS
  <2>1. \A i \in Index : MulTerm(a, b, k, i) \in 0..Q
    <3> TAKE i \in Index
    <3>1. k - i \in Index => a[i] * b[k - i] \in 0..Q
      BY <1>1
    <3> QED
      BY <3>1 DEF MulTerm
  <2> PICK s : s = Part(a, b, k)
    OBVIOUS
  <2>2. s[-1] = 0 /\ (\A i \in Index : s[i] = s[i - 1] + MulTerm(a, b, k, i)) /\ MulColumn(a, b, k) = s[9]
    <3>1. IsPart(s, a, b, k)
      BY <1>0, <2>0, PartSteps
    <3>2. L - 1 = 9
      OBVIOUS
    <3> QED
      BY <3>1, <3>2, Zenon DEF IsPart
  <2> DEFINE T == {j \in 0..L : s[j - 1] \in Nat /\ s[j - 1] <= j * Q}
  <2>3. 0 \in T
    BY <2>2
  <2>4. \A j \in Index : j \in T => j + 1 \in T
    <3> TAKE j \in Index
    <3> HAVE j \in T
    <3>1. s[j] = s[j - 1] + MulTerm(a, b, k, j) /\ MulTerm(a, b, k, j) \in 0..Q
      BY <2>1, <2>2
    <3>2. s[j - 1] \in Nat /\ s[j - 1] <= j * Q
      OBVIOUS
    <3>3. j \in Nat /\ j + 1 \in 0..L /\ (j + 1) - 1 = j
      BY <1>0
    <3>4. (j + 1) * Q = j * Q + Q
      BY ONLY <3>3, Q \in Nat
    <3>5. PICK x \in Nat, y \in 0..Q, z \in Int, w \in Int : x = s[j - 1] /\ y = MulTerm(a, b, k, j) /\ z = j * Q /\ w = (j + 1) * Q
      BY <3>1, <3>2, <3>3
    <3>6. s[j] = x + y /\ x + y \in Nat /\ x + y <= w
      BY ONLY <3>1, <3>2, <3>4, <3>5, Q \in Nat
    <3> QED
      BY <3>3, <3>5, <3>6
  <2>5. \A j \in 0..L : j \in T
    <3> HIDE DEF T
    <3> QED
      BY <2>3, <2>4, LimbInduction
  <2>6. 10 \in T
    <3>1. 10 \in 0..L
      OBVIOUS
    <3> HIDE DEF T
    <3> QED
      BY <2>5, <3>1
  <2> QED
    BY <2>2, <2>6
<1>3. p[18] <= M1 * M1
  <2> PICK s : s = Part(a, b, 18)
    OBVIOUS
  <2>1. s[-1] = 0 /\ (\A i \in Index : s[i] = s[i - 1] + MulTerm(a, b, 18, i)) /\ MulColumn(a, b, 18) = s[9]
    <3>1. IsPart(s, a, b, 18)
      BY <1>0, PartSteps
    <3>2. L - 1 = 9
      OBVIOUS
    <3> QED
      BY <3>1, <3>2, Zenon DEF IsPart
  <2>2. \A i \in 0..8 : MulTerm(a, b, 18, i) = 0
    BY <1>0 DEF MulTerm
  <2>3. \A i \in 0..8 : i \in Index
    BY <1>0
  <2> DEFINE T == {j \in 0..9 : s[j - 1] = 0}
  <2>4. 0 \in T
    BY <2>1
  <2>5. \A j \in 0..(9 - 1) : j \in T => j + 1 \in T
    BY <2>1, <2>2, <2>3
  <2>6. \A j \in 0..9 : j \in T
    <3> PICK n \in Nat : n = 9
      OBVIOUS
    <3>1. \A j \in 0..(n - 1) : j \in T => j + 1 \in T
      BY <2>5
    <3> HIDE DEF T
    <3>2. \A j \in 0..n : j \in T
      BY <2>4, <3>1, UpTo
    <3> QED
      BY <3>2
  <2>7. s[8] = 0
    <3>1. 9 \in T
      BY <2>6
    <3> QED
      BY <3>1
  <2>8. MulTerm(a, b, 18, 9) = a[9] * b[9]
    BY <1>0 DEF MulTerm
  <2>9. a[9] * b[9] \in 0..(M1 * M1)
    BY FactorProducts10
  <2>10. s[9] = a[9] * b[9]
    BY <1>0, <2>1, <2>7, <2>8, <2>9
  <2> QED
    BY <2>1, <2>9, <2>10
<1> QED
  BY <1>2, <1>3 DEF Columns10Fit

-----------------------------------------------------------------------------
(* The rounds of ten limbs.                                                *)

\* The bounds of the sums: what a round and the last fold add is small beside a
\* product of two limbs.
LEMMA Bounds10 ==
    ASSUME LimbsFit, Products10Fit, L = 10
    PROVE  \E M \in Nat, S \in Nat, T \in Nat, X \in Nat, y \in Nat, Q \in Nat, r0 \in Nat, r1 \in Nat, W \in Nat :
               /\ M = M1 /\ S = 2^Slack /\ T = Top1 /\ X = Factor * Factor /\ y = X * M /\ Q = y * M
               /\ Q = LimbProduct /\ r0 = R10(1) /\ r1 = R10(2) /\ W = Wide
               /\ X >= 4 /\ S >= 1 /\ M = S * T /\ 12 * Q <= W /\ 4 * (M * M) <= Q
               /\ S * (12 * X + 2 * r0 + r1 + 1) <= M
               /\ 12 * X + 2 * r0 + r1 + 1 <= M
<1> PICK M \in Nat, S \in Nat, T \in Nat, X \in Nat, p \in Nat, q \in Nat, Q \in Nat, W \in Nat :
        /\ M = M1 /\ S = 2^Slack /\ T = Top1 /\ X = Factor * Factor /\ X >= 4 /\ p = C[1] /\ q = C[2]
        /\ Q = LimbProduct /\ W = Wide /\ S >= 1 /\ M = S * T /\ 12 * Q <= W
        /\ S * (12 * X + (2 * p + q) * S + 1) <= M
  <2>1. Wide \in Nat
    <3>1. 2^Word \in Nat /\ Wide = 2^Word * 2^Word
      BY Sizes10
    <3> QED
      BY <3>1
  <2> QED
    BY <2>1, Sizes10, Zenon
<1> PICK y \in Nat, r0 \in Nat, r1 \in Nat : y = X * M /\ r0 = p * S /\ r1 = q * S
  OBVIOUS
<1>1. r0 = R10(1) /\ r1 = R10(2)
  BY DEF R10
<1>2. Q = y * M
  BY DEF LimbProduct
<1>3. (2 * p + q) * S = 2 * r0 + r1
  BY ONLY p \in Nat, q \in Nat, S \in Nat, r0 = p * S, r1 = q * S
<1> PICK K \in Nat : K = 12 * X + 2 * r0 + r1 + 1
  OBVIOUS
<1>4. S * K <= M
  <2>1. 12 * X + (2 * p + q) * S + 1 = K
    BY <1>3
  <2> QED
    BY <2>1
<1>5. K <= S * K
  BY ONLY S \in Nat, S >= 1, K \in Nat
<1>6. 4 * (M * M) <= Q
  <2> PICK m \in Nat : m = M * M
    OBVIOUS
  <2>1. Q = X * m
    <3>1. (X * M) * M = X * (M * M)
      BY ONLY X \in Nat, M \in Nat
    <3> QED
      BY <1>2, <3>1
  <2>2. 4 * m <= X * m
    BY ONLY X \in Nat, X >= 4, m \in Nat
  <2> QED
    BY <2>1, <2>2
<1>7. S * (12 * X + 2 * r0 + r1 + 1) <= M
  BY <1>4
<1>8. K <= M
  BY <1>4, <1>5
<1> QED
  BY <1>1, <1>2, <1>6, <1>7, <1>8, ZenonT(60)

\* A round over columns that are a function: the two sums, what is due of the
\* higher one, and the state after it.
D10(s, p, m) == s.d + p[10 + m]
U10(s, p, m) == D10(s, p, m) % M1
C10(s, p, m) == s.c + p[m] + U10(s, p, m) * R10(1)
Next10(s, p, m) ==
    [c |-> (C10(s, p, m) \div M1) + U10(s, p, m) * R10(2), d |-> D10(s, p, m) \div M1,
     t |-> Append(s.t, C10(s, p, m) % M1), ok |-> s.ok /\ Fits(<<C10(s, p, m), D10(s, p, m)>>)]

\* The state after m rounds: limbs that are there, sums that fit, ...
State10(s, m) ==
    /\ s.t \in Seq(0..(M1 - 1)) /\ Len(s.t) = m /\ s.ok = TRUE
    /\ s.c \in Nat /\ s.c <= 12 * (Factor * Factor * M1) + M1 * R10(2)
    /\ s.d \in Nat /\ s.d <= 11 * (Factor * Factor * M1) /\ (m = 9 => s.d <= 2 * M1)

\* Two sums that fit.
LEMMA TwoFit ==
    ASSUME NEW x, NEW y, x \in 0..(Wide - 1), y \in 0..(Wide - 1)
    PROVE  Fits(<<x, y>>)
<1> DEFINE s == <<x, y>>
<1>1. \A i \in DOMAIN s : s[i] = x \/ s[i] = y
  <2>1. DOMAIN s = 1..2 /\ s[1] = x /\ s[2] = y
    OBVIOUS
  <2> HIDE DEF s
  <2> TAKE i \in DOMAIN s
  <2>2. i = 1 \/ i = 2
    BY <2>1
  <2> QED
    BY <2>1, <2>2
<1>2. Fits(s)
  <2> HIDE DEF s
  <2> QED
    BY <1>1 DEF Fits
<1> QED
  BY <1>2

\* ... and which every round keeps.
LEMMA RoundFits ==
    ASSUME LimbsFit, Products10Fit, L = 10, NEW p, Columns10Fit(p), NEW m \in 0..8,
           NEW s, State10(s, m)
    PROVE  /\ State10(Next10(s, p, m), m + 1)
           /\ D10(s, p, m) \in Nat /\ U10(s, p, m) \in 0..(M1 - 1) /\ C10(s, p, m) \in Nat
           /\ D10(s, p, m) = M1 * (D10(s, p, m) \div M1) + U10(s, p, m)
           /\ C10(s, p, m) = M1 * (C10(s, p, m) \div M1) + (C10(s, p, m) % M1)
           /\ C10(s, p, m) \div M1 \in Nat /\ D10(s, p, m) \div M1 \in Nat
           /\ C10(s, p, m) % M1 \in 0..(M1 - 1)
<1>1. PICK M \in Nat, S \in Nat, T \in Nat, X \in Nat, y \in Nat, Q \in Nat, r0 \in Nat, r1 \in Nat, W \in Nat :
               /\ M = M1 /\ S = 2^Slack /\ T = Top1 /\ X = Factor * Factor /\ y = X * M /\ Q = y * M
               /\ Q = LimbProduct /\ r0 = R10(1) /\ r1 = R10(2) /\ W = Wide
               /\ X >= 4 /\ S >= 1 /\ M = S * T /\ 12 * Q <= W /\ 4 * (M * M) <= Q
               /\ S * (12 * X + 2 * r0 + r1 + 1) <= M
               /\ 12 * X + 2 * r0 + r1 + 1 <= M
  BY Bounds10
<1>2. M >= 49
  BY ONLY <1>1
<1>3. PICK n \in Nat : n = M * M /\ n >= M /\ 4 * n <= Q
  <2>1. M * M >= M
    BY ONLY M \in Nat
  <2> QED
    BY <1>1, <2>1
<1>4. 11 * y <= Q /\ y >= 1 /\ Q >= 1
  <2>1. y * M >= 11 * y
    BY ONLY y \in Nat, M \in Nat, <1>2
  <2>2. X * M >= M
    BY ONLY X \in Nat, M \in Nat, <1>1
  <2> QED
    BY <1>1, <1>2, <2>1, <2>2
<1>5. PICK p0 \in Nat, p1 \in Nat : p0 = p[m] /\ p1 = p[10 + m] /\ p0 <= 10 * Q /\ p1 <= 10 * Q /\ (m = 8 => p1 <= n)
  <2>1. m \in 0..18 /\ 10 + m \in 0..18 /\ (m = 8 => 10 + m = 18)
    OBVIOUS
  <2> QED
    BY <1>1, <1>3, <2>1 DEF Columns10Fit
<1>6. PICK sc \in Nat, sd \in Nat, mr \in Nat : sc = s.c /\ sd = s.d /\ mr = M * r1 /\ sc <= 12 * y + mr /\ sd <= 11 * y
  <2>1. s.c \in Nat /\ s.d \in Nat /\ s.c <= 12 * (Factor * Factor * M1) + M1 * R10(2) /\ s.d <= 11 * (Factor * Factor * M1)
    BY DEF State10
  <2>2. M * r1 \in Nat
    OBVIOUS
  <2> QED
    BY <1>1, <2>1, <2>2, Zenon
<1>7. PICK d \in Nat : d = D10(s, p, m) /\ d = sd + p1
  BY <1>5, <1>6 DEF D10
<1>8. d <= 11 * Q
  BY ONLY <1>4, <1>5, <1>6, <1>7
<1>9. PICK u \in 0..(M - 1), dq \in Int : u = U10(s, p, m) /\ dq = d \div M /\ d = M * dq + u
  <2>1. (d % M) \in 0..(M - 1) /\ d \div M \in Int /\ d = M * (d \div M) + (d % M)
    BY ONLY d \in Nat, M \in Nat, <1>2, Division
  <2> QED
    BY <1>1, <1>7, <2>1 DEF U10
<1>10. dq \in Nat /\ dq <= 11 * y
  <2>1. M * (11 * y + 1) = 11 * Q + M
    <3>1. M * (11 * y + 1) = 11 * (y * M) + M
      BY ONLY M \in Nat, y \in Nat
    <3> QED
      BY <1>1, <3>1
  <2>2. d < M * (11 * y + 1)
    BY ONLY <1>2, <1>8, <2>1, d \in Nat, Q \in Nat, M \in Nat
  <2>3. M >= 1 /\ d \in Int /\ 11 * y \in Int /\ d >= 0
    BY <1>2
  <2> QED
    BY ONLY <1>9, <2>2, <2>3, M \in Nat, DivBound
<1>11. m = 8 => dq <= 2 * M
  <2> HAVE m = 8
  <2>1. d <= n + 11 * y
    BY ONLY <1>5, <1>6, <1>7, m = 8
  <2>2. M * ((M + 11 * X) + 1) = n + 11 * y + M
    <3>1. M * ((M + 11 * X) + 1) = M * M + 11 * (X * M) + M
      BY ONLY M \in Nat, X \in Nat
    <3> QED
      BY <1>1, <1>3, <3>1
  <2>3. d < M * ((M + 11 * X) + 1)
    BY ONLY <1>2, <2>1, <2>2, d \in Nat, M \in Nat, n \in Nat, y \in Nat
  <2>4. M >= 1 /\ d \in Int /\ M + 11 * X \in Int /\ d >= 0
    BY <1>2
  <2>5. dq <= M + 11 * X
    BY ONLY <1>9, <2>3, <2>4, M \in Nat, DivBound, Zenon
  <2>6. 11 * X <= M
    BY ONLY <1>1
  <2> QED
    BY ONLY <2>5, <2>6, dq \in Int, M \in Nat, X \in Nat
<1>12. PICK ur \in Nat, us \in Nat : ur = u * r0 /\ us = u * r1 /\ ur <= M * r0 /\ us <= mr
  <2>1. u \in Nat /\ u <= M
    BY <1>2
  <2>2. u * r0 \in Nat /\ u * r0 <= M * r0
    BY ONLY <2>1, M \in Nat, r0 \in Nat
  <2>3. u * r1 \in Nat /\ u * r1 <= M * r1
    BY ONLY <2>1, M \in Nat, r1 \in Nat
  <2> QED
    BY <1>6, <2>2, <2>3
<1>13. PICK c \in Nat : c = C10(s, p, m) /\ c = sc + p0 + ur
  BY <1>1, <1>5, <1>6, <1>9, <1>12 DEF C10
<1>14. c <= 11 * Q
  <2>1. 12 * y + mr + M * r0 <= n
    <3>1. 12 * X + r1 + r0 <= M
      BY ONLY <1>1
    <3>2. M * (12 * X + r1 + r0) <= M * M
      BY ONLY <3>1, M \in Nat, X \in Nat, r1 \in Nat, r0 \in Nat
    <3>3. M * (12 * X + r1 + r0) = 12 * (X * M) + M * r1 + M * r0
      BY ONLY M \in Nat, X \in Nat, r1 \in Nat, r0 \in Nat
    <3> QED
      BY <1>1, <1>3, <1>6, <3>2, <3>3
  <2>2. M * r0 \in Nat
    OBVIOUS
  <2> QED
    BY ONLY <1>3, <1>5, <1>6, <1>12, <1>13, <2>1, <2>2, Q \in Nat, y \in Nat
<1>15. PICK ce \in 0..(M - 1), cq \in Int : ce = (c % M) /\ cq = c \div M /\ c = M * cq + ce
  <2>1. (c % M) \in 0..(M - 1) /\ c \div M \in Int /\ c = M * (c \div M) + (c % M)
    BY ONLY c \in Nat, M \in Nat, <1>2, Division
  <2> QED
    BY <2>1
<1>16. cq \in Nat /\ cq <= 11 * y
  <2>1. M * (11 * y + 1) = 11 * Q + M
    <3>1. M * (11 * y + 1) = 11 * (y * M) + M
      BY ONLY M \in Nat, y \in Nat
    <3> QED
      BY <1>1, <3>1
  <2>2. c < M * (11 * y + 1)
    BY ONLY <1>2, <1>14, <2>1, c \in Nat, Q \in Nat, M \in Nat
  <2>3. M >= 1 /\ c \in Int /\ 11 * y \in Int /\ c >= 0
    BY <1>2
  <2> QED
    BY ONLY <1>15, <2>2, <2>3, M \in Nat, DivBound
<1>17. Fits(<<c, d>>)
  <2>1. c \in 0..(W - 1) /\ d \in 0..(W - 1)
    BY ONLY <1>1, <1>4, <1>8, <1>14, c \in Nat, d \in Nat, Q \in Nat, W \in Nat
  <2> QED
    BY <1>1, <2>1, TwoFit
<1> PICK r : r = Next10(s, p, m)
  OBVIOUS
<1>18. r = [c |-> cq + us, d |-> dq, t |-> Append(s.t, ce), ok |-> s.ok /\ Fits(<<c, d>>)]
  BY <1>1, <1>7, <1>9, <1>12, <1>13, <1>15 DEF Next10
<1>19. State10(r, m + 1)
  <2>1. s.t \in Seq(0..(M1 - 1)) /\ Len(s.t) = m /\ s.ok = TRUE
    BY DEF State10
  <2>2. r.c = cq + us /\ r.d = dq /\ r.t = Append(s.t, ce) /\ r.ok = (s.ok /\ Fits(<<c, d>>))
    BY ONLY <1>18
  <2>3. r.t \in Seq(0..(M1 - 1)) /\ Len(r.t) = m + 1
    <3> PICK V, q : V = 0..(M1 - 1) /\ q = s.t
      OBVIOUS
    <3>1. q \in Seq(V) /\ ce \in V /\ Len(q) = m
      BY <1>1, <1>15, <2>1
    <3>2. Append(q, ce) \in Seq(V) /\ Len(Append(q, ce)) = m + 1
      BY ONLY <3>1
    <3> QED
      BY <2>2, <3>2
  <2>4. r.ok = TRUE
    BY ONLY <1>17, <2>1, <2>2, Zenon
  <2>5. cq + us \in Nat /\ cq + us <= 12 * y + mr
    BY ONLY <1>12, <1>16, mr \in Nat, y \in Nat
  <2>6. m + 1 = 9 => m = 8
    OBVIOUS
  <2>7. y = Factor * Factor * M1 /\ mr = M1 * R10(2)
    BY <1>1, <1>6
  <2> QED
    BY <1>1, <1>10, <1>11, <2>2, <2>3, <2>4, <2>5, <2>6, <2>7, Zenon DEF State10
<1> QED
  BY <1>1, <1>7, <1>9, <1>10, <1>13, <1>15, <1>16, <1>19, Zenon

\* f has the sums of the columns at their weights.
Sums10(f, p) ==
    /\ f \in [0..19 -> Int] /\ f[0] = 0
    /\ \A k \in 0..18 : f[k + 1] = f[k] + p[k] * Weight(k)

\* The weight of a limb above the highest, but for a multiple of the prime.
LEMMA Weight10 ==
    ASSUME LimbsFit, Products10Fit, L = 10
    PROVE  Weight(10) = R10(1) + R10(2) * M1 + 2^Slack * Prime
<1> PICK S \in Nat, p \in Nat, q \in Nat, M \in Nat, P \in Nat :
        S = 2^Slack /\ p = C[1] /\ q = C[2] /\ M = M1 /\ P = Prime
  BY Sizes10, Prime10, Zenon
<1>1. Weight(10) = S * (P + (p + q * M))
  BY Prime10
<1>2. S * (P + (p + q * M)) = p * S + (q * S) * M + S * P
  BY ONLY S \in Nat, p \in Nat, q \in Nat, M \in Nat, P \in Nat
<1> QED
  BY <1>1, <1>2 DEF R10

\* After m rounds the limbs and the two sums are worth what the columns so far
\* are, but for a multiple of the prime.
Worth10(s, f, p, m) ==
    \E z \in Int :
        Worth(Padded(s.t))[m] + s.c * Weight(m) + s.d * Weight(10 + m)
        = f[m] + (f[10 + m] - f[10]) + (p[9] \div M1) * Weight(10) - Prime * z

LEMMA RoundWorth ==
    ASSUME LimbsFit, Products10Fit, L = 10, NEW p, Columns10Fit(p), NEW f, Sums10(f, p),
           NEW m \in 0..8, NEW s, State10(s, m), Worth10(s, f, p, m)
    PROVE  Worth10(Next10(s, p, m), f, p, m + 1)
<1>0. m \in Nat /\ m \in 0..18 /\ 10 + m \in 0..18 /\ m \in 0..19 /\ 10 + m \in 0..19
      /\ 10 \in 0..19 /\ m + 1 \in 0..19 /\ 10 + (m + 1) = (10 + m) + 1 /\ m \in Index
  BY DEF Index
<1>1. PICK M \in Int, S \in Int, r0 \in Int, r1 \in Int, P \in Int, X \in Int :
          M = M1 /\ S = 2^Slack /\ r0 = R10(1) /\ r1 = R10(2) /\ P = Prime /\ X = Weight(10)
  <2>1. M1 \in Int /\ 2^Slack \in Int
    BY Sizes10
  <2>2. R10(1) \in Int /\ R10(2) \in Int
    BY Bounds10
  <2>3. Prime \in Int /\ Weight(10) \in Int
    BY Prime10, Weights
  <2> QED
    BY ONLY <2>1, <2>2, <2>3
<1>2. X = r0 + r1 * M + S * P
  BY <1>1, Weight10
<1>3. PICK w \in Int : w = Weight(m) /\ Weight(m + 1) = M * w /\ Weight(10 + m) = X * w
                       /\ Weight(10 + (m + 1)) = M * (X * w)
  <2>1. Weight(m) \in Int /\ Weight(m + 1) = M1 * Weight(m)
    BY <1>0, Weights
  <2>2. Weight(10 + m) = Weight(10) * Weight(m)
    BY <1>0, WeightSum
  <2>3. Weight((10 + m) + 1) = M1 * Weight(10 + m)
    BY <1>0, Weights
  <2> QED
    BY <1>0, <1>1, <2>1, <2>2, <2>3
<1>4. PICK p0 \in Int, p1 \in Int, p9 \in Int : p0 = p[m] /\ p1 = p[10 + m] /\ p9 = p[9] \div M1
  <2>1. p[m] \in Nat /\ p[10 + m] \in Nat /\ p[9] \in Nat
    BY <1>0 DEF Columns10Fit
  <2>2. p[9] \div M1 \in Int
    <3> PICK y \in Int, k \in Nat : y = p[9] /\ k = M1 /\ k >= 1
      BY <2>1, Sizes
    <3>1. y \div k \in Int
      BY ONLY y \in Int, k \in Nat, k >= 1, Division
    <3> QED
      BY <3>1
  <2> QED
    BY ONLY <2>1, <2>2
<1>5. PICK f0 \in Int, f1 \in Int, f10 \in Int : f0 = f[m] /\ f1 = f[10 + m] /\ f10 = f[10]
  BY <1>0 DEF Sums10
<1>6. f[m + 1] = f0 + p0 * w /\ f[10 + (m + 1)] = f1 + p1 * (X * w)
  BY <1>0, <1>3, <1>4, <1>5 DEF Sums10
<1>7. PICK sc \in Int, sd \in Int : sc = s.c /\ sd = s.d
  BY DEF State10
<1>8. /\ D10(s, p, m) \in Nat /\ U10(s, p, m) \in 0..(M1 - 1) /\ C10(s, p, m) \in Nat
       /\ D10(s, p, m) = M1 * (D10(s, p, m) \div M1) + U10(s, p, m)
       /\ C10(s, p, m) = M1 * (C10(s, p, m) \div M1) + (C10(s, p, m) % M1)
       /\ C10(s, p, m) \div M1 \in Nat /\ D10(s, p, m) \div M1 \in Nat
       /\ C10(s, p, m) % M1 \in 0..(M1 - 1)
  BY RoundFits
<1>9. PICK u \in Int, dq \in Int, cq \in Int, ce \in Int :
           /\ u = U10(s, p, m) /\ dq = D10(s, p, m) \div M1 /\ cq = C10(s, p, m) \div M1
           /\ ce = (C10(s, p, m) % M1)
  BY ONLY <1>8
<1>10. ce \in 0..(M1 - 1) /\ sd + p1 = M * dq + u /\ sc + p0 + u * r0 = M * cq + ce
  <2>1. D10(s, p, m) = sd + p1 /\ C10(s, p, m) = sc + p0 + U10(s, p, m) * r0
    BY <1>1, <1>4, <1>7 DEF D10, C10
  <2> QED
    BY ONLY <1>1, <1>8, <1>9, <2>1, Zenon
<1>11. PICK x \in Int : x = Worth(Padded(s.t))[m]
                       /\ Worth(Padded(Append(s.t, ce)))[m + 1] = x + ce * w
  <2>1. s.t \in Seq(0..(M1 - 1)) /\ Len(s.t) = m
    BY DEF State10
  <2> PICK t, q : t = s.t /\ q = Append(t, ce)
    BY Zenon
  <2>2. Worth(Padded(t))[m] \in Int /\ Worth(Padded(q))[m + 1] = Worth(Padded(t))[m] + ce * Weight(m)
    BY <1>0, <1>10, <2>1, Appended, Zenon
  <2> QED
    BY <1>3, <2>2, Zenon
<1>12. PICK z \in Int : x + sc * w + sd * (X * w) = f0 + (f1 - f10) + p9 * X - P * z
  <2>1. PICK z \in Int : Worth(Padded(s.t))[m] + s.c * Weight(m) + s.d * Weight(10 + m)
                         = f[m] + (f[10 + m] - f[10]) + (p[9] \div M1) * Weight(10) - Prime * z
    BY DEF Worth10
  <2> QED
    BY <1>1, <1>3, <1>4, <1>5, <1>7, <1>11, <2>1, Zenon
<1>13. (x + ce * w) + (cq + u * r1) * (M * w) + dq * (M * (X * w))
       = (f0 + p0 * w) + ((f1 + p1 * (X * w)) - f10) + p9 * X - P * (z + u * S * w)
  <2>1. ce * w + (cq + u * r1) * (M * w) + dq * (M * (X * w))
        = (M * cq + ce) * w + u * r1 * M * w + (M * dq) * (X * w)
    BY ONLY ce \in Int, w \in Int, cq \in Int, u \in Int, r1 \in Int, M \in Int, dq \in Int, X \in Int
  <2>0. PICK A \in Int, B \in Int : A = M * cq + ce /\ B = M * dq
    OBVIOUS
  <2>2. A = sc + p0 + u * r0 /\ B = sd + p1 - u
    <3>1. A = sc + p0 + u * r0
      BY ONLY <1>10, <2>0, Zenon
    <3>2. sd + p1 = B + u
      BY ONLY <1>10, <2>0, Zenon
    <3> QED
      BY ONLY <3>1, <3>2, sd \in Int, p1 \in Int, u \in Int, B \in Int
  <2>3. (sc + p0 + u * r0) * w = sc * w + p0 * w + u * r0 * w
    BY ONLY sc \in Int, p0 \in Int, u \in Int, r0 \in Int, w \in Int
  <2>4. (sd + p1 - u) * (X * w) = sd * (X * w) + p1 * (X * w) - u * (X * w)
    BY ONLY sd \in Int, p1 \in Int, u \in Int, X \in Int, w \in Int
  <2>5. u * (X * w) = u * r0 * w + u * r1 * M * w + P * (u * S * w)
    <3>1. u * ((r0 + r1 * M + S * P) * w) = u * r0 * w + u * r1 * M * w + P * (u * S * w)
      BY ONLY u \in Int, r0 \in Int, r1 \in Int, M \in Int, S \in Int, P \in Int, w \in Int
    <3> QED
      BY <1>2, <3>1
  <2>6. P * (z + u * S * w) = P * z + P * (u * S * w)
    BY ONLY P \in Int, z \in Int, u \in Int, S \in Int, w \in Int
  <2>7. PICK a1 \in Int, a2 \in Int, a3 \in Int, a4 \in Int, a5 \in Int, a6 \in Int, a7 \in Int, a8 \in Int :
            /\ a1 = sc * w /\ a2 = p0 * w /\ a3 = u * r0 * w /\ a4 = sd * (X * w) /\ a5 = p1 * (X * w)
            /\ a6 = u * (X * w) /\ a7 = u * r1 * M * w /\ a8 = P * (u * S * w)
    OBVIOUS
  <2>8. PICK b1 \in Int, b2 \in Int, b3 \in Int, b4 \in Int, b5 \in Int, b6 \in Int, b7 \in Int :
            /\ b1 = ce * w /\ b2 = (cq + u * r1) * (M * w) /\ b3 = dq * (M * (X * w))
            /\ b4 = p9 * X /\ b5 = P * z /\ b6 = P * (z + u * S * w) /\ b7 = 0
    OBVIOUS
  <2>9. b1 + b2 + b3 = A * w + a7 + B * (X * w)
    BY ONLY <2>0, <2>1, <2>7, <2>8, Zenon
  <2>10. A * w = a1 + a2 + a3 /\ B * (X * w) = a4 + a5 - a6
    BY ONLY <2>2, <2>3, <2>4, <2>7, Zenon
  <2>11. a6 = a3 + a7 + a8 /\ b6 = b5 + a8 /\ x + a1 + a4 = f0 + (f1 - f10) + b4 - b5
    BY ONLY <1>12, <2>5, <2>6, <2>7, <2>8, Zenon
  <2>12. (x + b1) + b2 + b3 = (f0 + a2) + ((f1 + a5) - f10) + b4 - b6
    BY ONLY <2>7, <2>8, <2>9, <2>10, <2>11, A \in Int, B \in Int, x \in Int, f0 \in Int, f1 \in Int, f10 \in Int
  <2> QED
    BY ONLY <2>7, <2>8, <2>12, Zenon
<1>14. PICK r : r = Next10(s, p, m)
  OBVIOUS
<1>15. r.c = cq + u * r1 /\ r.d = dq /\ r.t = Append(s.t, ce)
  BY ONLY <1>1, <1>9, <1>14, Zenon DEF Next10
<1>16. Worth(Padded(r.t))[m + 1] + r.c * Weight(m + 1) + r.d * Weight(10 + (m + 1))
       = f[m + 1] + (f[10 + (m + 1)] - f[10]) + (p[9] \div M1) * Weight(10) - Prime * (z + u * S * w)
  BY ONLY <1>1, <1>3, <1>4, <1>5, <1>6, <1>11, <1>13, <1>15, Zenon
<1>17. z + u * S * w \in Int
  OBVIOUS
<1> QED
  BY ONLY <1>16, <1>17, <1>14, Zenon DEF Worth10

-----------------------------------------------------------------------------
(* The fold of ten limbs.                                                  *)

\* The sums of the last fold.
E10(s, low)  == s.c + s.d * R10(1) + low
Up10(s, low) == (E10(s, low) \div Top1) + s.d * (C[2] * 2^(2 * Slack))
F0(s, low)   == Up10(s, low) * C[1] + s.t[1]
F1(s, low)   == (F0(s, low) \div M1) + Up10(s, low) * C[2] + s.t[2]
F2(s, low)   == (F1(s, low) \div M1) + s.t[3]
Limb10(s, low, i) ==
    CASE i = 0 -> F0(s, low) % M1
      [] i = 1 -> F1(s, low) % M1
      [] i = 2 -> F2(s, low)
      [] i = L - 1 -> E10(s, low) % Top1
      [] OTHER -> s.t[i + 1]

LEMMA FoldSums ==
    ASSUME NEW s, NEW low
    PROVE  Fold10(s, low) = [n |-> [i \in Index |-> Limb10(s, low, i)],
                             ok |-> s.ok /\ Fits(<<E10(s, low), Up10(s, low), F0(s, low), F1(s, low)>>)]
  BY Zenon DEF Fold10, Limb10, E10, Up10, F0, F1, F2, R10

\* Four sums that fit.
LEMMA FourFit ==
    ASSUME NEW x, NEW y, NEW z, NEW w,
           x \in 0..(Wide - 1), y \in 0..(Wide - 1), z \in 0..(Wide - 1), w \in 0..(Wide - 1)
    PROVE  Fits(<<x, y, z, w>>)
<1> DEFINE s == <<x, y, z, w>>
<1>1. \A i \in DOMAIN s : s[i] = x \/ s[i] = y \/ s[i] = z \/ s[i] = w
  <2>1. DOMAIN s = 1..4 /\ s[1] = x /\ s[2] = y /\ s[3] = z /\ s[4] = w
    OBVIOUS
  <2> HIDE DEF s
  <2> TAKE i \in DOMAIN s
  <2>2. i = 1 \/ i = 2 \/ i = 3 \/ i = 4
    BY <2>1
  <2> QED
    BY <2>1, <2>2
<1>2. Fits(s)
  <2> HIDE DEF s
  <2> QED
    BY <1>1 DEF Fits
<1> QED
  BY <1>2

\* No sum of the fold is too large, and the limbs are those of magnitude one.
LEMMA FoldFits ==
    ASSUME LimbsFit, Products10Fit, L = 10, NEW s, State10(s, 9), NEW low \in 0..(M1 - 1)
    PROVE  /\ Fold10(s, low).ok = TRUE /\ Fold10(s, low).n \in [Index -> Nat]
           /\ \A i \in Index : Fold10(s, low).n[i] <= 2 * 1 * Mask(i)
           /\ E10(s, low) \in Nat /\ Up10(s, low) \in Nat /\ F0(s, low) \in Nat /\ F1(s, low) \in Nat
           /\ F2(s, low) \in Nat
<1>1. PICK M \in Nat, S \in Nat, T \in Nat, X \in Nat, y \in Nat, Q \in Nat, r0 \in Nat, r1 \in Nat, W \in Nat :
               /\ M = M1 /\ S = 2^Slack /\ T = Top1 /\ X = Factor * Factor /\ y = X * M /\ Q = y * M
               /\ Q = LimbProduct /\ r0 = R10(1) /\ r1 = R10(2) /\ W = Wide
               /\ X >= 4 /\ S >= 1 /\ M = S * T /\ 12 * Q <= W /\ 4 * (M * M) <= Q
               /\ S * (12 * X + 2 * r0 + r1 + 1) <= M
               /\ 12 * X + 2 * r0 + r1 + 1 <= M
  BY Bounds10
<1>2. M >= 49 /\ T >= 8 /\ S >= 1
  <2>1. M >= 49 /\ T = Top1 /\ S >= 1
    BY ONLY <1>1
  <2>2. Top1 >= 8
    BY Sizes
  <2> QED
    BY ONLY <2>1, <2>2
<1>3. PICK p1 \in Nat, q1 \in Nat, g \in Nat, H \in Nat :
          /\ p1 = C[1] /\ q1 = C[2] /\ g = q1 * (S * S) /\ g = C[2] * 2^(2 * Slack) /\ H = 2 * g + 1
          /\ H * p1 + 1 <= M /\ H * q1 + 3 <= M /\ p1 >= 1
  <2>1. /\ C[1] \in Nat /\ C[2] \in Nat /\ (2 * C[2] * (S * S) + 1) * C[1] + 1 <= M
        /\ (2 * C[2] * (S * S) + 1) * C[2] + 3 <= M
    BY <1>1, Sizes10
  <2>2. C[1] >= 1
    <3>1. Len(C) = 2 /\ \A i \in 1..Len(C) : C[i] \in 1..(M1 - 1)
      BY 10 \div 5 = 2 DEF LimbsFit
    <3> QED
      BY <3>1, Sizes
  <2>3. 2^(2 * Slack) = S * S
    <3>1. Slack \in Nat /\ 2 * Slack = Slack + Slack
      BY Sizes
    <3>2. 2^(Slack + Slack) = 2^Slack * 2^Slack
      BY <3>1, PowerSum
    <3> QED
      BY <1>1, <3>1, <3>2
  <2>4. PICK p1 \in Nat, q1 \in Nat : p1 = C[1] /\ q1 = C[2]
    BY <2>1
  <2>5. PICK g \in Nat : g = q1 * (S * S)
    OBVIOUS
  <2>6. 2 * q1 * (S * S) = 2 * g
    BY <2>5
  <2> QED
    BY <2>1, <2>2, <2>3, <2>4, <2>5, <2>6
<1>4. PICK n \in Nat : n = M * M /\ n >= M /\ n < W
  <2>1. M * M >= M
    BY ONLY M \in Nat
  <2> QED
    BY <1>1, <1>2, <2>1
<1>5. PICK sc \in Nat, sd \in Nat, mr \in Nat : sc = s.c /\ sd = s.d /\ mr = M * r1 /\ sc <= 12 * y + mr /\ sd <= 2 * M
  <2>1. s.c \in Nat /\ s.d \in Nat /\ s.c <= 12 * (Factor * Factor * M1) + M1 * R10(2) /\ s.d <= 2 * M1
    BY DEF State10
  <2>2. M * r1 \in Nat
    OBVIOUS
  <2> QED
    BY <1>1, <2>1, <2>2, Zenon
<1>6. PICK t1 \in 0..(M - 1), t2 \in 0..(M - 1), t3 \in 0..(M - 1) : t1 = s.t[1] /\ t2 = s.t[2] /\ t3 = s.t[3]
  <2> PICK V, q : V = 0..(M - 1) /\ q = s.t
    OBVIOUS
  <2>1. q \in Seq(V) /\ Len(q) = 9
    BY <1>1 DEF State10
  <2>2. q[1] \in V /\ q[2] \in V /\ q[3] \in V
    BY ONLY <2>1
  <2> QED
    BY <2>2
<1>7. PICK e \in Nat : e = E10(s, low) /\ e = sc + sd * r0 + low
  <2>1. sd * r0 \in Nat
    OBVIOUS
  <2> QED
    BY <1>1, <1>5, <2>1 DEF E10
<1>8. PICK K \in Nat, N \in Nat : K = 12 * X + 2 * r0 + r1 + 1 /\ N = S * K /\ N <= M /\ N >= 1
  <2>1. PICK K \in Nat : K = 12 * X + 2 * r0 + r1 + 1 /\ K >= 1
    OBVIOUS
  <2>2. S * K \in Nat /\ S * K >= K
    BY ONLY <1>2, S \in Nat, K \in Nat
  <2>3. S * K <= M
    BY ONLY <1>1, <2>1, Zenon
  <2>4. K <= M
    BY ONLY <1>1, <2>1, Zenon
  <2> QED
    BY ONLY <2>1, <2>2, <2>3, <2>4, M \in Nat
<1>9. e < M * K /\ e < T * N /\ M * K <= n
  <2>1. sd * r0 <= 2 * (M * r0)
    <3>1. sd * r0 <= (2 * M) * r0
      BY ONLY <1>5, sd \in Nat, M \in Nat, r0 \in Nat
    <3> QED
      BY <3>1
  <2>2. M * K = 12 * y + 2 * (M * r0) + mr + M
    <3>1. M * (12 * X + 2 * r0 + r1 + 1) = 12 * (X * M) + 2 * (M * r0) + M * r1 + M
      BY ONLY M \in Nat, X \in Nat, r0 \in Nat, r1 \in Nat
    <3> QED
      BY <1>1, <1>5, <1>8, <3>1
  <2>3. low <= M - 1 /\ low \in Nat
    BY <1>1
  <2>4. e < M * K
    <3> PICK v \in Nat, w \in Nat, x \in Nat : v = sd * r0 /\ w = M * r0 /\ x = M * K
      OBVIOUS
    <3> QED
      BY <1>5, <1>7, <2>1, <2>2, <2>3
  <2>5. M * K = T * N
    <3>1. (S * T) * K = T * (S * K)
      BY ONLY S \in Nat, T \in Nat, K \in Nat
    <3> QED
      BY <1>1, <1>8, <3>1
  <2>6. M * K <= M * M
    BY ONLY <1>1, <1>8, M \in Nat, K \in Nat
  <2> QED
    BY <1>4, <2>4, <2>5, <2>6
<1>10. PICK eq \in Nat : eq = e \div T /\ eq <= M
  <2>1. T >= 1 /\ N - 1 \in Int /\ e < T * ((N - 1) + 1) /\ e \in Int /\ e >= 0
    BY <1>2, <1>8, <1>9
  <2>2. e \div T \in Nat /\ e \div T <= N - 1
    BY ONLY <2>1, T \in Nat, DivBound
  <2> QED
    BY <1>8, <2>2
<1>11. PICK u \in Nat : u = Up10(s, low) /\ u <= M * H
  <2>1. sd * g \in Nat /\ sd * g <= (2 * M) * g
    BY ONLY <1>5, sd \in Nat, M \in Nat, g \in Nat
  <2>2. M * H = (2 * M) * g + M
    BY ONLY <1>3, M \in Nat, g \in Nat, H \in Nat
  <2>3. Up10(s, low) = eq + sd * g
    BY <1>1, <1>3, <1>5, <1>7, <1>10 DEF Up10
  <2> QED
    BY <1>10, <2>1, <2>2, <2>3
<1>12. H <= M /\ H >= 1
  <2>0. p1 >= 1
    BY <1>3
  <2>1. H * p1 >= H
    BY ONLY <2>0, H \in Nat, p1 \in Nat
  <2> QED
    BY <1>3, <2>1
<1>13. u <= n
  <2>1. M * H <= M * M
    BY ONLY <1>12, M \in Nat, H \in Nat
  <2> QED
    BY <1>4, <1>11, <2>1
<1>14. PICK hp \in Nat, hq \in Nat : hp = H * p1 /\ hq = H * q1 /\ hp + 1 <= M /\ hq + 3 <= M
  BY <1>3
<1>15. PICK d0 \in Nat : d0 = F0(s, low) /\ d0 < M * (hp + 1)
  <2>1. u * p1 \in Nat /\ u * p1 <= M * H * p1
    BY ONLY <1>11, u \in Nat, p1 \in Nat, M \in Nat, H \in Nat
  <2>2. M * H * p1 = M * hp /\ M * (hp + 1) = M * hp + M
    BY ONLY <1>14, M \in Nat, H \in Nat, p1 \in Nat, hp \in Nat
  <2>3. F0(s, low) = u * p1 + t1
    BY <1>3, <1>6, <1>11 DEF F0
  <2> QED
    BY <1>6, <2>1, <2>2, <2>3
<1>16. PICK q0 \in Nat : q0 = d0 \div M /\ q0 <= hp /\ q0 <= M - 1
  <2>1. M >= 1 /\ d0 \in Int /\ hp \in Int /\ d0 >= 0
    BY <1>2
  <2>2. d0 \div M \in Nat /\ d0 \div M <= hp
    BY ONLY <1>15, <2>1, M \in Nat, DivBound
  <2> QED
    BY <1>14, <2>2
<1>17. PICK d1 \in Nat : d1 = F1(s, low) /\ d1 < M * (hq + 2)
  <2>1. u * q1 \in Nat /\ u * q1 <= M * H * q1
    BY ONLY <1>11, u \in Nat, q1 \in Nat, M \in Nat, H \in Nat
  <2>2. M * H * q1 = M * hq /\ M * (hq + 2) = M * hq + 2 * M
    BY ONLY <1>14, M \in Nat, H \in Nat, q1 \in Nat, hq \in Nat
  <2>3. F1(s, low) = q0 + u * q1 + t2
    BY <1>1, <1>3, <1>6, <1>11, <1>15, <1>16 DEF F1
  <2> QED
    BY <1>6, <1>16, <2>1, <2>2, <2>3
<1>18. PICK q2 \in Nat : q2 = d1 \div M /\ q2 <= M - 2
  <2>1. M >= 1 /\ d1 \in Int /\ hq + 1 \in Int /\ d1 >= 0 /\ d1 < M * ((hq + 1) + 1)
    BY <1>2, <1>17
  <2>2. d1 \div M \in Nat /\ d1 \div M <= hq + 1
    BY ONLY <2>1, M \in Nat, DivBound
  <2> QED
    BY <1>14, <2>2
<1>19. F2(s, low) = q2 + t3
  BY <1>1, <1>6, <1>17, <1>18 DEF F2
<1>20. Fits(<<E10(s, low), Up10(s, low), F0(s, low), F1(s, low)>>)
  <2>1. e < W /\ u < W
    BY <1>4, <1>9, <1>13
  <2>2. d0 < W
    <3>1. M * (hp + 1) <= M * M
      BY ONLY <1>14, M \in Nat, hp \in Nat
    <3> QED
      BY <1>4, <1>15, <3>1
  <2>3. d1 < W
    <3>1. M * (hq + 2) <= M * M
      BY ONLY <1>14, M \in Nat, hq \in Nat
    <3> QED
      BY <1>4, <1>17, <3>1
  <2>4. /\ E10(s, low) \in 0..(Wide - 1) /\ Up10(s, low) \in 0..(Wide - 1)
        /\ F0(s, low) \in 0..(Wide - 1) /\ F1(s, low) \in 0..(Wide - 1)
    BY <1>1, <1>7, <1>11, <1>15, <1>17, <2>1, <2>2, <2>3
  <2> QED
    BY <2>4, FourFit
<1>21. s.ok = TRUE /\ s.t \in Seq(0..(M1 - 1)) /\ Len(s.t) = 9
  BY DEF State10
<1>22. \A i \in Index : Limb10(s, low, i) \in Nat /\ Limb10(s, low, i) <= 2 * 1 * Mask(i)
  <2> TAKE i \in Index
  <2>0. Index = 0..9 /\ L - 1 = 9
    BY DEF Index
  <2>1. i \in 0..8 => Mask(i) = M - 1
    BY <1>1, <2>0 DEF Mask
  <2>2. Mask(9) = T - 1
    BY <1>1, <2>0 DEF Mask
  <2>3. CASE i = 0
    <3>1. Limb10(s, low, i) = (d0 % M)
      BY <1>1, <1>15, <2>3 DEF Limb10
    <3>2. (d0 % M) \in 0..(M - 1)
      BY ONLY <1>2, d0 \in Nat, M \in Nat, Division
    <3> QED
      BY <2>1, <2>3, <3>1, <3>2
  <2>4. CASE i = 1
    <3>1. Limb10(s, low, i) = (d1 % M)
      BY <1>1, <1>17, <2>4 DEF Limb10
    <3>2. (d1 % M) \in 0..(M - 1)
      BY ONLY <1>2, d1 \in Nat, M \in Nat, Division
    <3> QED
      BY <2>1, <2>4, <3>1, <3>2
  <2>5. CASE i = 2
    <3>1. Limb10(s, low, i) = q2 + t3
      BY <1>19, <2>5 DEF Limb10
    <3> QED
      BY <1>6, <1>18, <2>1, <2>5, <3>1
  <2>6. CASE i = 9
    <3>1. Limb10(s, low, i) = (e % T)
      BY <1>1, <1>7, <2>0, <2>6 DEF Limb10
    <3>2. (e % T) \in 0..(T - 1)
      BY ONLY <1>2, e \in Nat, T \in Nat, Division
    <3> QED
      BY <2>2, <2>6, <3>1, <3>2
  <2>7. CASE i \in 3..8
    <3>1. Limb10(s, low, i) = s.t[i + 1]
      BY <2>0, <2>7 DEF Limb10
    <3>0. PICK V, q : V = 0..(M - 1) /\ q = s.t
      OBVIOUS
    <3>2. q \in Seq(V)
      BY <1>1, <1>21, <3>0
    <3>3. \A k \in 1..Len(q) : q[k] \in V
      BY ONLY <3>2
    <3>4. Len(q) = 9 /\ i + 1 \in 1..9
      BY ONLY <1>21, <2>7, <3>0
    <3>5. q[i + 1] \in V
      BY ONLY <3>3, <3>4
    <3> QED
      BY <2>1, <2>7, <3>0, <3>1, <3>5
  <2> QED
    BY ONLY <2>0, <2>3, <2>4, <2>5, <2>6, <2>7, i \in Index
<1>23. Fold10(s, low).n = [i \in Index |-> Limb10(s, low, i)] /\ Fold10(s, low).ok = TRUE
  BY <1>20, <1>21, FoldSums, Zenon
<1> QED
  BY <1>7, <1>11, <1>15, <1>17, <1>18, <1>19, <1>22, <1>23

\* Three limbs changed, and those above them as they were.
LEMMA LowChange ==
    ASSUME LimbsFit, L = 10, NEW n \in [Index -> Int], NEW b \in [Index -> Int],
           \A i \in 3..8 : n[i] = b[i]
    PROVE  /\ Worth(b)[9] \in Int /\ Worth(n)[9] \in Int
           /\ Worth(n)[9] = Worth(b)[9] + (n[0] - b[0]) + (n[1] - b[1]) * M1 + (n[2] - b[2]) * (M1 * M1)
<1>0. Index = 0..9 /\ \A i \in 0..10 : i \in 0..L
  BY DEF Index
<1>1. PICK M \in Int : M = M1 /\ Weight(0) = 1 /\ Weight(1) = M /\ Weight(2) = M * M
  <2>1. M1 \in Nat /\ Weight(0) = 1 /\ Weight(0 + 1) = M1 * Weight(0) /\ Weight(1 + 1) = M1 * Weight(1)
    BY Sizes, Weights
  <2>2. 0 + 1 = 1 /\ 1 + 1 = 2
    OBVIOUS
  <2> QED
    BY <2>1, <2>2
<1>2. PICK x, y : x = Worth(n) /\ y = Worth(b)
  OBVIOUS
<1>3. /\ x \in [0..L -> Int] /\ x[0] = 0 /\ \A k \in Index : x[k + 1] = x[k] + n[k] * Weight(k)
      /\ y \in [0..L -> Int] /\ y[0] = 0 /\ \A k \in Index : y[k + 1] = y[k] + b[k] * Weight(k)
  BY <1>2, WorthSteps
<1>4. ASSUME NEW k \in 3..8
      PROVE  x[k + 1] - y[k + 1] = x[k] - y[k]
  <2>1. k \in Index /\ k \in Nat /\ k \in 0..L /\ k + 1 \in 0..L
    BY <1>0
  <2>2. x[k + 1] = x[k] + n[k] * Weight(k) /\ y[k + 1] = y[k] + b[k] * Weight(k) /\ n[k] = b[k]
    BY <1>3, <2>1
  <2>3. PICK z \in Int : z = b[k] * Weight(k)
    BY <2>1, Weights
  <2>4. x[k] \in Int /\ y[k] \in Int
    BY <1>3, <2>1
  <2> QED
    BY ONLY <2>2, <2>3, <2>4
<1>5. /\ x[9] \in Int /\ y[9] \in Int /\ x[8] \in Int /\ y[8] \in Int /\ x[7] \in Int /\ y[7] \in Int
      /\ x[6] \in Int /\ y[6] \in Int /\ x[5] \in Int /\ y[5] \in Int /\ x[4] \in Int /\ y[4] \in Int
      /\ x[3] \in Int /\ y[3] \in Int /\ x[2] \in Int /\ y[2] \in Int /\ x[1] \in Int /\ y[1] \in Int
  BY <1>0, <1>3
<1>6. x[9] - y[9] = x[3] - y[3]
  <2>1. /\ x[8 + 1] - y[8 + 1] = x[8] - y[8] /\ x[7 + 1] - y[7 + 1] = x[7] - y[7]
        /\ x[6 + 1] - y[6 + 1] = x[6] - y[6] /\ x[5 + 1] - y[5 + 1] = x[5] - y[5]
        /\ x[4 + 1] - y[4 + 1] = x[4] - y[4] /\ x[3 + 1] - y[3 + 1] = x[3] - y[3]
    BY <1>4
  <2> QED
    BY ONLY <1>5, <2>1
<1>7. PICK n0 \in Int, n1 \in Int, n2 \in Int, b0 \in Int, b1 \in Int, b2 \in Int :
          n0 = n[0] /\ n1 = n[1] /\ n2 = n[2] /\ b0 = b[0] /\ b1 = b[1] /\ b2 = b[2]
  <2>1. 0 \in Index /\ 1 \in Index /\ 2 \in Index
    BY <1>0
  <2>2. n[0] \in Int /\ n[1] \in Int /\ n[2] \in Int
    BY <2>1
  <2>3. b[0] \in Int /\ b[1] \in Int /\ b[2] \in Int
    BY <2>1
  <2> QED
    BY ONLY <2>2, <2>3, Zenon
<1>8. /\ x[0 + 1] = x[0] + n[0] * Weight(0) /\ x[1 + 1] = x[1] + n[1] * Weight(1)
      /\ x[2 + 1] = x[2] + n[2] * Weight(2) /\ y[0 + 1] = y[0] + b[0] * Weight(0)
      /\ y[1 + 1] = y[1] + b[1] * Weight(1) /\ y[2 + 1] = y[2] + b[2] * Weight(2)
  BY <1>0, <1>3
<1>9. x[3] = n0 * 1 + n1 * M + n2 * (M * M) /\ y[3] = b0 * 1 + b1 * M + b2 * (M * M)
  <2>1. 0 + 1 = 1 /\ 1 + 1 = 2 /\ 2 + 1 = 3
    OBVIOUS
  <2>2. PICK m \in Int : m = M * M
    OBVIOUS
  <2>3. /\ x[1] = 0 + n0 * 1 /\ x[2] = x[1] + n1 * M /\ x[3] = x[2] + n2 * m
        /\ y[1] = 0 + b0 * 1 /\ y[2] = y[1] + b1 * M /\ y[3] = y[2] + b2 * m
    BY ONLY <1>1, <1>3, <1>7, <1>8, <2>1, <2>2, Zenon
  <2>4. PICK v1 \in Int, v2 \in Int, v3 \in Int, v4 \in Int :
            v1 = n1 * M /\ v2 = n2 * m /\ v3 = b1 * M /\ v4 = b2 * m
    OBVIOUS
  <2>5. x[3] = n0 * 1 + v1 + v2 /\ y[3] = b0 * 1 + v3 + v4
    BY ONLY <2>3, <2>4, n0 \in Int, b0 \in Int
  <2> QED
    BY ONLY <2>2, <2>4, <2>5, Zenon
<1>10. x[3] - y[3] = (n0 - b0) + (n1 - b1) * M + (n2 - b2) * (M * M)
  <2>1. (n0 * 1 + n1 * M + n2 * (M * M)) - (b0 * 1 + b1 * M + b2 * (M * M))
        = (n0 - b0) + (n1 - b1) * M + (n2 - b2) * (M * M)
    BY ONLY n0 \in Int, n1 \in Int, n2 \in Int, b0 \in Int, b1 \in Int, b2 \in Int, M \in Int
  <2> QED
    BY ONLY <1>9, <2>1
<1>11. PICK v \in Int : v = (n1 - b1) * M + (n2 - b2) * (M * M)
  OBVIOUS
<1>12. x[3] - y[3] = (n0 - b0) + v
  BY ONLY <1>10, <1>11, n0 \in Int, b0 \in Int, n1 \in Int, b1 \in Int, n2 \in Int, b2 \in Int, M \in Int
<1>13. x[9] = y[9] + (n0 - b0) + v
  BY ONLY <1>5, <1>6, <1>12, n0 \in Int, b0 \in Int, v \in Int
<1>14. x[9] = y[9] + (n0 - b0) + (n1 - b1) * M + (n2 - b2) * (M * M)
  <2> PICK v1 \in Int, v2 \in Int : v1 = (n1 - b1) * M /\ v2 = (n2 - b2) * (M * M)
    OBVIOUS
  <2>1. x[9] = y[9] + (n0 - b0) + v1 + v2
    BY <1>5, <1>11, <1>13
  <2> QED
    BY <2>1
<1> QED
  BY ONLY <1>1, <1>2, <1>5, <1>7, <1>14, Zenon

\* The limbs that the fold leaves are worth the product of the columns, but for a
\* multiple of the prime.
LEMMA FoldWorth ==
    ASSUME LimbsFit, Products10Fit, L = 10, NEW p, Columns10Fit(p), NEW f, Sums10(f, p),
           NEW s, State10(s, 9), Worth10(s, f, p, 9), NEW low, low = p[9] % M1
    PROVE  \E k \in Int : Value(Fold10(s, low).n) = f[19] - Prime * k
<1>0. Index = 0..9
  BY DEF Index
<1>1. PICK M \in Nat, S \in Int, T \in Nat, r0 \in Int, r1 \in Int, P \in Int, X \in Int :
          /\ M = M1 /\ S = 2^Slack /\ T = Top1 /\ r0 = R10(1) /\ r1 = R10(2) /\ P = Prime
          /\ X = Weight(10) /\ M = S * T /\ M >= 1 /\ T >= 1
  <2>1. M1 \in Nat /\ 2^Slack \in Int /\ Top1 \in Nat /\ M1 >= 1 /\ Top1 >= 1 /\ M1 = 2^Slack * Top1
    <3>1. M1 \in Nat /\ 2^Slack \in Nat /\ Top1 \in Nat /\ M1 = 2^Slack * Top1
      BY Sizes10, Zenon
    <3>2. M1 >= 2 /\ Top1 >= 8
      BY Sizes
    <3> QED
      BY ONLY <3>1, <3>2
  <2>2. R10(1) \in Int /\ R10(2) \in Int
    BY Bounds10
  <2>3. Prime \in Int /\ Weight(10) \in Int
    BY Prime10, Weights
  <2> QED
    BY ONLY <2>1, <2>2, <2>3, Zenon
<1>2. PICK c1 \in Int, c2 \in Int, w \in Int :
          /\ c1 = C[1] /\ c2 = C[2] /\ w = Weight(9) /\ X = M * w /\ Weight(19) = X * w
          /\ r0 = c1 * S /\ r1 = c2 * S /\ T * w = P + (c1 + c2 * M)
          /\ X = r0 + r1 * M + S * P
  <2>1. C[1] \in Int /\ C[2] \in Int
    BY Sizes10
  <2>2. Weight(9) \in Int /\ Weight(10) = M1 * Weight(9) /\ Power = Top1 * Weight(9)
        /\ Power = Prime + (C[1] + C[2] * M1)
    BY Prime10
  <2>3. Weight(10 + 9) = Weight(10) * Weight(9)
    BY WeightSum
  <2>4. 10 + 9 = 19
    OBVIOUS
  <2>5. Weight(10) = R10(1) + R10(2) * M1 + 2^Slack * Prime
    BY Weight10
  <2>6. R10(1) = C[1] * 2^Slack /\ R10(2) = C[2] * 2^Slack
    BY Zenon DEF R10
  <2> QED
    BY ONLY <1>1, <2>1, <2>2, <2>3, <2>4, <2>5, <2>6, Zenon
<1>3. PICK p9 \in Int, pq \in Int : p9 = p[9] /\ pq = p[9] \div M1 /\ p9 = M * pq + low /\ low \in 0..(M1 - 1)
  <2>1. PICK y \in Int : y = p[9]
    BY DEF Columns10Fit
  <2>2. (y % M) \in 0..(M - 1) /\ y \div M \in Int /\ y = M * (y \div M) + (y % M)
    BY ONLY <1>1, y \in Int, M \in Nat, Division, Zenon
  <2> QED
    BY <1>1, <2>1, <2>2, Zenon
<1>4. /\ Fold10(s, low).n \in [Index -> Nat]
      /\ E10(s, low) \in Nat /\ Up10(s, low) \in Nat /\ F0(s, low) \in Nat /\ F1(s, low) \in Nat
      /\ F2(s, low) \in Nat
  BY <1>3, FoldFits, Zenon
<1>5. PICK e \in Nat, u \in Nat, d0 \in Nat, d1 \in Nat, d2 \in Nat :
          e = E10(s, low) /\ u = Up10(s, low) /\ d0 = F0(s, low) /\ d1 = F1(s, low) /\ d2 = F2(s, low)
  BY ONLY <1>4
<1>6. PICK sc \in Int, sd \in Int : sc = s.c /\ sd = s.d
  BY DEF State10
<1>7. PICK n, t, b : n = Fold10(s, low).n /\ t = s.t /\ b = Padded(t)
  OBVIOUS
<1>8. t \in Seq(0..(M1 - 1)) /\ Len(t) = 9
  BY <1>7 DEF State10
<1>9. n \in [Index -> Int]
  BY ONLY <1>4, <1>7
<1>10. b \in [Index -> Int] /\ \A i \in 0..8 : b[i] = t[i + 1] /\ t[i + 1] \in Int
  <2>1. PICK V : V = 0..(M1 - 1)
    OBVIOUS
  <2>2. t \in Seq(V)
    BY <1>8, <2>1
  <2>3. \A k \in 1..Len(t) : t[k] \in V
    BY ONLY <2>2
  <2>4. \A i \in 0..8 : t[i + 1] \in Int
    <3> TAKE i \in 0..8
    <3>1. i + 1 \in 1..Len(t)
      BY <1>8
    <3>2. t[i + 1] \in V
      BY ONLY <2>3, <3>1
    <3> QED
      BY ONLY <2>1, <3>2
  <2>5. \A i \in Index : b[i] = IF i < 9 THEN t[i + 1] ELSE 0
    BY <1>7, <1>8 DEF Padded
  <2>6. b = [i \in Index |-> b[i]]
    BY <1>7 DEF Padded
  <2>7. \A i \in Index : b[i] \in Int
    BY <1>0, <2>4, <2>5
  <2>8. b \in [Index -> Int]
    BY ONLY <2>6, <2>7
  <2> QED
    BY <1>0, <2>4, <2>5, <2>8
<1>11. /\ n[0] = (d0 % M) /\ n[1] = (d1 % M) /\ n[2] = d2 /\ n[9] = (e % T)
       /\ \A i \in 3..8 : n[i] = b[i]
  <2>1. n = [i \in Index |-> Limb10(s, low, i)]
    BY <1>7, FoldSums, Zenon
  <2>2. \A i \in Index : n[i] = Limb10(s, low, i)
    BY <2>1
  <2>3. L - 1 = 9
    OBVIOUS
  <2>4. Limb10(s, low, 0) = (d0 % M) /\ Limb10(s, low, 1) = (d1 % M) /\ Limb10(s, low, 2) = d2
        /\ Limb10(s, low, 9) = (e % T)
    <3>1. Limb10(s, low, 0) = F0(s, low) % M1
      BY DEF Limb10
    <3>2. Limb10(s, low, 1) = F1(s, low) % M1
      BY DEF Limb10
    <3>3. Limb10(s, low, 2) = F2(s, low)
      BY DEF Limb10
    <3>4. Limb10(s, low, 9) = E10(s, low) % Top1
      BY <2>3 DEF Limb10
    <3> QED
      BY ONLY <1>1, <1>5, <3>1, <3>2, <3>3, <3>4, Zenon
  <2>5. \A i \in 3..8 : Limb10(s, low, i) = t[i + 1]
    BY <1>7, <2>3 DEF Limb10
  <2> QED
    BY <1>0, <1>10, <2>2, <2>4, <2>5
<1>12. PICK t1 \in Int, t2 \in Int, t3 \in Int : t1 = b[0] /\ t2 = b[1] /\ t3 = b[2]
                                                  /\ t1 = t[1] /\ t2 = t[2] /\ t3 = t[3]
  <2>1. b[0] = t[0 + 1] /\ b[1] = t[1 + 1] /\ b[2] = t[2 + 1] /\ t[0 + 1] \in Int /\ t[1 + 1] \in Int /\ t[2 + 1] \in Int
    BY <1>10
  <2>2. 0 + 1 = 1 /\ 1 + 1 = 2 /\ 2 + 1 = 3
    OBVIOUS
  <2> QED
    BY ONLY <2>1, <2>2
<1>13. PICK e0 \in Int, eq \in Int, h0 \in Int, q0 \in Int, h1 \in Int, q1 \in Int :
           /\ e0 = (e % T) /\ eq = e \div T /\ e = T * eq + e0
           /\ h0 = (d0 % M) /\ q0 = d0 \div M /\ d0 = M * q0 + h0
           /\ h1 = (d1 % M) /\ q1 = d1 \div M /\ d1 = M * q1 + h1
  <2>0. M >= 1 /\ T >= 1
    BY ONLY <1>1
  <2>1. (e % T) \in Int /\ e \div T \in Int /\ e = T * (e \div T) + (e % T)
    BY ONLY <2>0, e \in Nat, T \in Nat, Division
  <2>2. (d0 % M) \in Int /\ d0 \div M \in Int /\ d0 = M * (d0 \div M) + (d0 % M)
    BY ONLY <2>0, d0 \in Nat, M \in Nat, Division
  <2>3. (d1 % M) \in Int /\ d1 \div M \in Int /\ d1 = M * (d1 \div M) + (d1 % M)
    BY ONLY <2>0, d1 \in Nat, M \in Nat, Division
  <2> QED
    BY ONLY <2>1, <2>2, <2>3, Zenon
<1>14. PICK g \in Int : g = c2 * (S * S) /\ u = eq + sd * g
  <2>1. 2^(2 * Slack) = S * S
    <3>1. Slack \in Nat /\ 2 * Slack = Slack + Slack
      BY Sizes
    <3>2. 2^(Slack + Slack) = 2^Slack * 2^Slack
      BY <3>1, PowerSum
    <3> QED
      BY <1>1, <3>1, <3>2
  <2>2. u = eq + sd * (c2 * (S * S))
    BY ONLY <1>1, <1>2, <1>5, <1>6, <1>13, <2>1, Zenon DEF Up10
  <2> QED
    BY <2>2
<1>15. /\ e = sc + sd * r0 + low /\ d0 = u * c1 + t1 /\ d1 = q0 + u * c2 + t2 /\ d2 = q1 + t3
  <2>1. e = sc + sd * r0 + low
    BY ONLY <1>1, <1>5, <1>6, Zenon DEF E10
  <2>2. d0 = u * c1 + t1
    BY ONLY <1>2, <1>5, <1>7, <1>12, Zenon DEF F0
  <2>3. d1 = q0 + u * c2 + t2
    BY ONLY <1>1, <1>2, <1>5, <1>7, <1>12, <1>13, Zenon DEF F1
  <2>4. d2 = q1 + t3
    BY ONLY <1>1, <1>5, <1>7, <1>12, <1>13, Zenon DEF F2
  <2> QED
    BY ONLY <2>1, <2>2, <2>3, <2>4
<1>16. PICK x \in Int, v \in Int : x = Worth(b)[9] /\ v = Value(n)
           /\ v = x + (h0 - t1) + (h1 - t2) * M + (d2 - t3) * (M * M) + e0 * w
  <2>1. /\ Worth(b)[9] \in Int /\ Worth(n)[9] \in Int
        /\ Worth(n)[9] = Worth(b)[9] + (n[0] - b[0]) + (n[1] - b[1]) * M1 + (n[2] - b[2]) * (M1 * M1)
    BY <1>9, <1>10, <1>11, LowChange
  <2>2. Worth(n)[9 + 1] = Worth(n)[9] + n[9] * Weight(9)
    BY <1>0, <1>9, WorthSteps
  <2>3. Value(n) \in Int /\ Worth(n)[L] = Value(n)
    BY <1>9, ValueType
  <2>4. 9 + 1 = L
    OBVIOUS
  <2>5. Value(n) = Worth(b)[9] + (h0 - t1) + (h1 - t2) * M + (d2 - t3) * (M * M) + e0 * w
    BY ONLY <1>1, <1>2, <1>11, <1>12, <1>13, <2>1, <2>2, <2>3, <2>4, Zenon
  <2> QED
    BY ONLY <2>1, <2>3, <2>5
<1>17. PICK f9 \in Int, f10 \in Int, f19 \in Int : f9 = f[9] /\ f10 = f[10] /\ f19 = f[19] /\ f10 = f9 + p9 * w
  <2>1. f[9] \in Int /\ f[10] \in Int /\ f[19] \in Int /\ f[9 + 1] = f[9] + p[9] * Weight(9)
    BY DEF Sums10
  <2>2. 9 + 1 = 10
    OBVIOUS
  <2> QED
    BY ONLY <1>2, <1>3, <2>1, <2>2, Zenon
<1>18. PICK z \in Int : x + sc * w + sd * (X * w) = f9 + (f19 - f10) + pq * X - P * z
  <2>1. PICK z \in Int : Worth(Padded(s.t))[9] + s.c * Weight(9) + s.d * Weight(10 + 9)
                         = f[9] + (f[10 + 9] - f[10]) + (p[9] \div M1) * Weight(10) - Prime * z
    BY DEF Worth10
  <2>2. 10 + 9 = 19
    OBVIOUS
  <2> QED
    BY ONLY <1>1, <1>2, <1>3, <1>6, <1>7, <1>16, <1>17, <2>1, <2>2, ZenonT(60)
<1>19. v = f19 - P * (z + u + sd * S * w)
  <2>1. PICK V \in Int, k1 \in Int, k2 \in Int : V = c1 + c2 * M /\ k1 = T * w /\ k2 = X * w /\ k1 = P + V
    BY ONLY <1>2, c1 \in Int, c2 \in Int, M \in Nat, T \in Nat, w \in Int, X \in Int
  <2>2. v = x + u * V + e0 * w
    <3>1. h0 - t1 = u * c1 - M * q0 /\ h1 - t2 = q0 + u * c2 - M * q1 /\ d2 - t3 = q1
      <4> PICK a1 \in Int, a2 \in Int, a3 \in Int, a4 \in Int :
              a1 = u * c1 /\ a2 = M * q0 /\ a3 = u * c2 /\ a4 = M * q1
        OBVIOUS
      <4>1. a2 + h0 = a1 + t1 /\ a4 + h1 = q0 + a3 + t2 /\ d2 = q1 + t3
        BY <1>13, <1>15, Zenon
      <4>2. h0 - t1 = a1 - a2 /\ h1 - t2 = q0 + a3 - a4 /\ d2 - t3 = q1
        BY ONLY <4>1, a1 \in Int, a2 \in Int, a3 \in Int, a4 \in Int, h0 \in Int, t1 \in Int, h1 \in Int,
                t2 \in Int, q0 \in Int, q1 \in Int, d2 \in Nat, t3 \in Int
      <4> QED
        BY <4>2
    <3>2. x + (u * c1 - M * q0) + (q0 + u * c2 - M * q1) * M + q1 * (M * M) + e0 * w
          = x + u * (c1 + c2 * M) + e0 * w
      BY ONLY x \in Int, u \in Nat, c1 \in Int, M \in Nat, q0 \in Int, c2 \in Int, q1 \in Int,
              e0 \in Int, w \in Int
    <3> QED
      BY ONLY <1>16, <2>1, <3>1, <3>2, Zenon
  <2>3. e0 * w = sc * w + sd * r0 * w + low * w - eq * k1
    <3>0. low \in Int
      BY <1>3
    <3>1. e0 = sc + sd * r0 + low - T * eq
      <4> PICK a1 \in Int, a2 \in Int : a1 = sd * r0 /\ a2 = T * eq
        OBVIOUS
      <4>1. a2 + e0 = sc + a1 + low
        BY <1>13, <1>15, Zenon
      <4>2. e0 = sc + a1 + low - a2
        BY ONLY <3>0, <4>1, a1 \in Int, a2 \in Int, sc \in Int, e0 \in Int
      <4> QED
        BY <4>2
    <3>2. (sc + sd * r0 + low - T * eq) * w = sc * w + sd * r0 * w + low * w - eq * (T * w)
      BY ONLY <3>0, sc \in Int, sd \in Int, r0 \in Int, T \in Nat, eq \in Int, w \in Int
    <3> QED
      BY ONLY <2>1, <3>1, <3>2, Zenon
  <2>4. u * V = eq * V + sd * g * V
    <3>1. (eq + sd * g) * V = eq * V + sd * g * V
      BY ONLY eq \in Int, sd \in Int, g \in Int, V \in Int
    <3> QED
      BY ONLY <1>14, <3>1, Zenon
  <2>5. eq * k1 = eq * P + eq * V /\ sd * g * k1 = sd * g * P + sd * g * V
    <3>1. eq * (P + V) = eq * P + eq * V
      BY ONLY eq \in Int, P \in Int, V \in Int
    <3>2. sd * g * (P + V) = sd * g * P + sd * g * V
      BY ONLY sd \in Int, g \in Int, P \in Int, V \in Int
    <3> QED
      BY ONLY <2>1, <3>1, <3>2, Zenon
  <2>6. sd * g * k1 = sd * r1 * M * w
    <3>1. sd * (c2 * (S * S)) * (T * w) = sd * (c2 * S) * (S * T) * w
      BY ONLY sd \in Int, c2 \in Int, S \in Int, T \in Nat, w \in Int
    <3> QED
      BY ONLY <1>1, <1>2, <1>14, <2>1, <3>1, Zenon
  <2>7. sd * r0 * w + sd * r1 * M * w = sd * k2 - P * (sd * S * w)
    <3>1. sd * ((r0 + r1 * M + S * P) * w) = sd * r0 * w + sd * r1 * M * w + P * (sd * S * w)
      BY ONLY sd \in Int, r0 \in Int, r1 \in Int, M \in Nat, S \in Int, P \in Int, w \in Int
    <3>2. sd * k2 = sd * r0 * w + sd * r1 * M * w + P * (sd * S * w)
      BY ONLY <1>2, <2>1, <3>1, Zenon
    <3> PICK a1 \in Int, a2 \in Int, a3 \in Int, a4 \in Int :
            a1 = sd * k2 /\ a2 = sd * r0 * w /\ a3 = sd * r1 * M * w /\ a4 = P * (sd * S * w)
      OBVIOUS
    <3>3. a2 + a3 = a1 - a4
      BY <3>2
    <3> QED
      BY <3>3
  <2>8. P * (z + u + sd * S * w) = P * z + eq * P + sd * g * P + P * (sd * S * w)
    <3>1. P * (z + (eq + sd * g) + sd * S * w) = P * z + eq * P + sd * g * P + P * (sd * S * w)
      BY ONLY P \in Int, z \in Int, eq \in Int, sd \in Int, g \in Int, S \in Int, w \in Int
    <3> QED
      BY ONLY <1>14, <3>1, Zenon
  <2>9. p9 * w = pq * X + low * w
    <3>0. low \in Int
      BY <1>3
    <3>1. (M * pq + low) * w = pq * (M * w) + low * w
      BY ONLY <3>0, M \in Nat, pq \in Int, w \in Int
    <3> QED
      BY ONLY <1>2, <1>3, <3>1, Zenon
  <2>10. low \in Int
    BY <1>3
  <2>11. PICK a1 \in Int, a2 \in Int, a3 \in Int, a4 \in Int, a5 \in Int, a6 \in Int, a7 \in Int, a8 \in Int :
             /\ a1 = u * V /\ a2 = e0 * w /\ a3 = sc * w /\ a4 = sd * r0 * w /\ a5 = low * w
             /\ a6 = eq * k1 /\ a7 = eq * V /\ a8 = sd * g * V
    BY ONLY <2>10, u \in Nat, V \in Int, e0 \in Int, w \in Int, sc \in Int, sd \in Int, r0 \in Int,
            eq \in Int, k1 \in Int, g \in Int
  <2>12. PICK b1 \in Int, b2 \in Int, b3 \in Int, b4 \in Int, b5 \in Int, b6 \in Int, b7 \in Int, b8 \in Int :
             /\ b1 = eq * P /\ b2 = sd * g * k1 /\ b3 = sd * g * P /\ b4 = sd * r1 * M * w
             /\ b5 = sd * k2 /\ b6 = P * (sd * S * w) /\ b7 = P * (z + u + sd * S * w) /\ b8 = P * z
    OBVIOUS
  <2>13. PICK l1 \in Int, l2 \in Int : l1 = pq * X /\ l2 = p9 * w
    OBVIOUS
  <2>14. /\ v = x + a1 + a2 /\ a2 = a3 + a4 + a5 - a6 /\ a1 = a7 + a8 /\ a6 = b1 + a7 /\ b2 = b3 + a8
         /\ b2 = b4 /\ a4 + b4 = b5 - b6 /\ b7 = b8 + b1 + b3 + b6 /\ l2 = l1 + a5
         /\ x + a3 + b5 = f9 + (f19 - f10) + l1 - b8 /\ f10 = f9 + l2
    BY ONLY <1>17, <1>18, <2>1, <2>2, <2>3, <2>4, <2>5, <2>6, <2>7, <2>8, <2>9, <2>11, <2>12, <2>13, Zenon
  <2>15. v = f19 - b7
    <3>1. v \in Int /\ x \in Int /\ f9 \in Int /\ f10 \in Int /\ f19 \in Int
      OBVIOUS
    <3>2. a1 \in Int /\ a2 \in Int /\ a3 \in Int /\ a4 \in Int /\ a5 \in Int /\ a6 \in Int /\ a7 \in Int /\ a8 \in Int
      OBVIOUS
    <3>3. b1 \in Int /\ b2 \in Int /\ b3 \in Int /\ b4 \in Int /\ b5 \in Int /\ b6 \in Int /\ b7 \in Int /\ b8 \in Int
          /\ l1 \in Int /\ l2 \in Int
      OBVIOUS
    <3> QED
      BY ONLY <2>14, <3>1, <3>2, <3>3
  <2> QED
    BY ONLY <2>12, <2>15, Zenon
<1> QED
  <2>1. z + u + sd * S * w \in Int
    OBVIOUS
  <2> QED
    BY ONLY <1>1, <1>7, <1>16, <1>17, <1>19, <2>1, Zenon

-----------------------------------------------------------------------------
(* The products of ten limbs.                                              *)

\* t has the states of the rounds, from the first on.
Start10(p) == [c |-> 0, d |-> p[9] \div M1, t |-> <<>>, ok |-> Fits(<<p[9]>>)]
Rounds10(t, p) == t[-1] = Start10(p) /\ \A k \in 0..8 : t[k] = Next10(t[k - 1], p, k)

LEMMA Rounds10Exist ==
    ASSUME NEW p
    PROVE  \E t : t = [k \in -1..8 |-> t[k]] /\ Rounds10(t, p)
<1> PICK i : i = Start10(p)
  OBVIOUS
<1> PICK s0, s1, s2, s3, s4, s5, s6, s7, s8 :
        /\ s0 = Next10(i, p, 0) /\ s1 = Next10(s0, p, 1) /\ s2 = Next10(s1, p, 2) /\ s3 = Next10(s2, p, 3)
        /\ s4 = Next10(s3, p, 4) /\ s5 = Next10(s4, p, 5) /\ s6 = Next10(s5, p, 6) /\ s7 = Next10(s6, p, 7)
        /\ s8 = Next10(s7, p, 8)
  OBVIOUS
<1> DEFINE g(k) == CASE k = -1 -> i [] k = 0 -> s0 [] k = 1 -> s1 [] k = 2 -> s2 [] k = 3 -> s3
                     [] k = 4 -> s4 [] k = 5 -> s5 [] k = 6 -> s6 [] k = 7 -> s7 [] OTHER -> s8
           t == [k \in -1..8 |-> g(k)]
<1>1. g(-1) = i /\ g(0) = s0 /\ g(1) = s1 /\ g(2) = s2 /\ g(3) = s3 /\ g(4) = s4 /\ g(5) = s5 /\ g(6) = s6
      /\ g(7) = s7 /\ g(8) = s8
  OBVIOUS
<1> HIDE DEF g
<1>2. t[-1] = i /\ t[0] = s0 /\ t[1] = s1 /\ t[2] = s2 /\ t[3] = s3 /\ t[4] = s4 /\ t[5] = s5 /\ t[6] = s6
      /\ t[7] = s7 /\ t[8] = s8
  BY <1>1
<1>3. t = [k \in -1..8 |-> t[k]]
  OBVIOUS
<1> HIDE DEF t
<1>4. \A k \in 0..8 : t[k] = Next10(t[k - 1], p, k)
  <2> TAKE k \in 0..8
  <2>1. k = 0 \/ k = 1 \/ k = 2 \/ k = 3 \/ k = 4 \/ k = 5 \/ k = 6 \/ k = 7 \/ k = 8
    OBVIOUS
  <2>2. 0 - 1 = -1 /\ 1 - 1 = 0 /\ 2 - 1 = 1 /\ 3 - 1 = 2 /\ 4 - 1 = 3 /\ 5 - 1 = 4 /\ 6 - 1 = 5 /\ 7 - 1 = 6
        /\ 8 - 1 = 7
    OBVIOUS
  <2> QED
    BY <1>2, <2>1, <2>2, ZenonT(60)
<1>5. t[-1] = Start10(p)
  BY <1>2
<1>6. Rounds10(t, p)
  BY <1>4, <1>5, Zenon DEF Rounds10
<1> QED
  BY <1>3, <1>6

\* The states fit and are worth what the columns so far are.
LEMMA RoundsRight ==
    ASSUME LimbsFit, Products10Fit, L = 10, NEW p, Columns10Fit(p), NEW f, Sums10(f, p),
           NEW t, Rounds10(t, p)
    PROVE  State10(t[8], 9) /\ Worth10(t[8], f, p, 9)
<1> DEFINE V == {k \in 0..9 : State10(t[k - 1], k) /\ Worth10(t[k - 1], f, p, k)}
<1>1. State10(Start10(p), 0)
  <2>1. PICK M \in Nat, S \in Nat, T \in Nat, X \in Nat, y \in Nat, Q \in Nat, r0 \in Nat, r1 \in Nat, W \in Nat :
               /\ M = M1 /\ S = 2^Slack /\ T = Top1 /\ X = Factor * Factor /\ y = X * M /\ Q = y * M
               /\ Q = LimbProduct /\ r0 = R10(1) /\ r1 = R10(2) /\ W = Wide
               /\ X >= 4 /\ S >= 1 /\ M = S * T /\ 12 * Q <= W /\ 4 * (M * M) <= Q
               /\ S * (12 * X + 2 * r0 + r1 + 1) <= M
               /\ 12 * X + 2 * r0 + r1 + 1 <= M
    BY Bounds10
  <2>2. M >= 1
    BY <2>1, Sizes
  <2>3. PICK p9 \in Nat : p9 = p[9] /\ p9 <= 10 * Q
    BY <2>1 DEF Columns10Fit
  <2>4. y \in Nat /\ y >= M /\ Q >= y
    <3>1. X * M >= M
      <4>1. X >= 1
        BY ONLY <2>1
      <4> QED
        BY ONLY <4>1, X \in Nat, M \in Nat
    <3>2. y * M >= y
      BY ONLY <2>2, y \in Nat, M \in Nat
    <3> QED
      BY <2>1, <3>1, <3>2
  <2>5. p9 \div M \in Nat /\ p9 \div M <= 10 * y
    <3>1. M * (10 * y + 1) = 10 * Q + M
      <4>1. M * (10 * y + 1) = 10 * (y * M) + M
        BY ONLY M \in Nat, y \in Nat
      <4> QED
        BY <2>1, <4>1
    <3>2. p9 < M * (10 * y + 1) /\ p9 \in Int /\ p9 >= 0 /\ 10 * y \in Int
      BY ONLY <2>2, <2>3, <3>1, p9 \in Nat, M \in Nat, Q \in Nat, y \in Nat
    <3> QED
      BY ONLY <2>2, <3>2, M \in Nat, DivBound
  <2>6. Fits(<<p9>>)
    <3>1. p9 \in 0..(W - 1)
      BY ONLY <2>1, <2>2, <2>3, <2>4, p9 \in Nat, W \in Nat, Q \in Nat, y \in Nat, M \in Nat
    <3> QED
      BY <2>1, <3>1 DEF Fits
  <2>7. PICK s : s = Start10(p) /\ s.c = 0 /\ s.d = p9 \div M /\ s.t = <<>> /\ s.ok = TRUE
    <3>1. Start10(p) = [c |-> 0, d |-> p9 \div M, t |-> <<>>, ok |-> Fits(<<p9>>)]
      BY <2>1, <2>3, Zenon DEF Start10
    <3>2. PICK s : s = Start10(p)
      OBVIOUS
    <3>3. s.c = 0 /\ s.d = p9 \div M /\ s.t = <<>> /\ s.ok = Fits(<<p9>>)
      BY ONLY <3>1, <3>2
    <3>4. s.ok = TRUE
      BY ONLY <2>6, <3>3
    <3> QED
      BY ONLY <3>2, <3>3, <3>4, Zenon
  <2>8. s.t \in Seq(0..(M1 - 1)) /\ Len(s.t) = 0
    BY <2>7
  <2>9. 0 <= 12 * y + M * r1
    BY ONLY y \in Nat, M \in Nat, r1 \in Nat
  <2>10. y = Factor * Factor * M1
    BY <2>1
  <2>11. s.d \in Nat /\ s.d <= 11 * (Factor * Factor * M1)
    BY ONLY <2>4, <2>5, <2>7, <2>10, y \in Nat
  <2>12. s.c \in Nat /\ s.c <= 12 * (Factor * Factor * M1) + M1 * R10(2)
    BY ONLY <2>1, <2>7, <2>9, <2>10
  <2> QED
    BY ONLY <2>7, <2>8, <2>11, <2>12 DEF State10
<1>2. Worth10(Start10(p), f, p, 0)
  <2>1. PICK s, b : s = Start10(p) /\ b = Padded(s.t)
    OBVIOUS
  <2>2. s.c = 0 /\ s.d = p[9] \div M1 /\ s.t = <<>>
    BY <2>1 DEF Start10
  <2>3. b \in [Index -> Int]
    <3>1. \A i \in Index : ~(i < Len(s.t))
      BY <2>2 DEF Index
    <3> QED
      BY <2>1, <3>1 DEF Padded
  <2>4. Worth(b)[0] = 0
    BY <2>3, WorthSteps
  <2>5. Weight(0) = 1 /\ Weight(10) \in Int
    BY Weights
  <2>6. PICK f10 \in Int, d \in Int, w \in Int, P \in Int :
            f10 = f[10] /\ d = p[9] \div M1 /\ w = Weight(10) /\ P = Prime /\ f[0] = 0
    <3>1. f[10] \in Int /\ f[0] = 0 /\ p[9] \in Nat
      BY DEF Sums10, Columns10Fit
    <3>2. p[9] \div M1 \in Int
      <4> PICK y \in Int, k \in Nat : y = p[9] /\ k = M1 /\ k >= 1
        BY <3>1, Sizes
      <4>1. y \div k \in Int
        BY ONLY y \in Int, k \in Nat, k >= 1, Division
      <4> QED
        BY <4>1
    <3>3. Prime \in Int
      BY Prime10
    <3> QED
      BY ONLY <2>5, <3>1, <3>2, <3>3
  <2>7. 0 + 0 * 1 + d * w = 0 + (f10 - f10) + d * w - P * 0
    BY ONLY d \in Int, w \in Int, f10 \in Int, P \in Int
  <2>8. 10 + 0 = 10 /\ 0 \in Int
    OBVIOUS
  <2>9. Worth(Padded(s.t))[0] + s.c * Weight(0) + s.d * Weight(10 + 0)
        = f[0] + (f[10 + 0] - f[10]) + (p[9] \div M1) * Weight(10) - Prime * 0
    BY ONLY <2>1, <2>2, <2>4, <2>5, <2>6, <2>7, <2>8, Zenon
  <2> QED
    BY ONLY <2>1, <2>8, <2>9, Zenon DEF Worth10
<1>3. 0 \in V
  <2>1. 0 - 1 = -1 /\ 0 \in 0..9
    OBVIOUS
  <2> QED
    BY <1>1, <1>2, <2>1, Zenon DEF Rounds10
<1>4. \A k \in 0..8 : k \in V => k + 1 \in V
  <2> TAKE k \in 0..8
  <2> HAVE k \in V
  <2>1. PICK s, r : s = t[k - 1] /\ r = Next10(s, p, k) /\ r = t[k]
    BY DEF Rounds10
  <2>2. State10(s, k) /\ Worth10(s, f, p, k)
    BY <2>1
  <2>3. State10(r, k + 1)
    BY ONLY <2>1, <2>2, LimbsFit, Products10Fit, L = 10, Columns10Fit(p), k \in 0..8, RoundFits, Zenon
  <2>4. Worth10(r, f, p, k + 1)
    BY ONLY <2>1, <2>2, LimbsFit, Products10Fit, L = 10, Columns10Fit(p), Sums10(f, p), k \in 0..8,
            RoundWorth, Zenon
  <2>5. (k + 1) - 1 = k /\ k + 1 \in 0..9
    OBVIOUS
  <2> QED
    BY ONLY <2>1, <2>3, <2>4, <2>5, Zenon DEF V
<1>5. \A k \in 0..9 : k \in V
  <2> PICK n \in Nat : n = 9
    OBVIOUS
  <2>1. \A k \in 0..(n - 1) : k \in V => k + 1 \in V
    BY <1>4
  <2> HIDE DEF V
  <2>2. \A k \in 0..n : k \in V
    BY <1>3, <2>1, UpTo
  <2> QED
    BY <2>2
<1>6. 9 \in V /\ 9 - 1 = 8
  BY <1>5
<1> QED
  BY <1>6, Zenon

\* The product returns what the fold makes of the last of such states, ...
LEMMA MulRounds ==
    ASSUME L = 10, NEW a, NEW b, NEW p, p = [k \in 0..18 |-> MulColumn(a, b, k)]
    PROVE  \E t : Rounds10(t, p) /\ fe_mul_inner10(a, b) = Fold10(t[8], p[9] % M1)
<1> DEFINE Due(s, k) == (s.d + MulColumn(a, b, L + k)) % M1
           Sum(s, k) == s.c + MulColumn(a, b, k) + Due(s, k) * (C[1] * 2^Slack)
           Body(s) == [k \in -1..(L - 2) |->
                          IF k = -1 THEN [c |-> 0, d |-> MulColumn(a, b, 9) \div M1, t |-> <<>>,
                                          ok |-> Fits(<<MulColumn(a, b, 9)>>)]
                          ELSE [c |-> (Sum(s[k - 1], k) \div M1) + Due(s[k - 1], k) * (C[2] * 2^Slack),
                                d |-> (s[k - 1].d + MulColumn(a, b, L + k)) \div M1,
                                t |-> Append(s[k - 1].t, Sum(s[k - 1], k) % M1),
                                ok |-> s[k - 1].ok /\ Fits(<<Sum(s[k - 1], k),
                                                             s[k - 1].d + MulColumn(a, b, L + k)>>)]]
           Is(s) == s = Body(s)
<1>1. fe_mul_inner10(a, b) = Fold10((CHOOSE s : Is(s))[L - 2], MulColumn(a, b, 9) % M1)
  BY Zenon DEF fe_mul_inner10, Product10, Round10
<1>2. ASSUME NEW s, NEW k \in 0..8
      PROVE  Next10(s, p, k)
             = [c |-> (Sum(s, k) \div M1) + Due(s, k) * (C[2] * 2^Slack),
                d |-> (s.d + MulColumn(a, b, L + k)) \div M1,
                t |-> Append(s.t, Sum(s, k) % M1),
                ok |-> s.ok /\ Fits(<<Sum(s, k), s.d + MulColumn(a, b, L + k)>>)]
  <2>1. L + k = 10 + k /\ k \in 0..18 /\ 10 + k \in 0..18
    OBVIOUS
  <2>2. p[k] = MulColumn(a, b, k) /\ p[10 + k] = MulColumn(a, b, L + k)
    BY <2>1
  <2> QED
    BY ONLY <2>2, Zenon DEF Next10, C10, D10, U10, R10
<1>3. Start10(p) = [c |-> 0, d |-> MulColumn(a, b, 9) \div M1, t |-> <<>>, ok |-> Fits(<<MulColumn(a, b, 9)>>)]
  <2>1. p[9] = MulColumn(a, b, 9)
    OBVIOUS
  <2> QED
    BY ONLY <2>1, Zenon DEF Start10
<1> HIDE DEF Due, Sum
<1>4. -1..(L - 2) = -1..8 /\ L - 2 = 8
  OBVIOUS
<1>5. PICK r : r = [k \in -1..8 |-> r[k]] /\ Rounds10(r, p)
  BY Rounds10Exist, Zenon
<1>6. Is(r)
  <2>1. \A k \in -1..8 : r[k] = Body(r)[k]
    <3> TAKE k \in -1..8
    <3>1. CASE k = -1
      <4>1. r[-1] = Start10(p)
        BY <1>5, Zenon DEF Rounds10
      <4>2. Body(r)[-1] = [c |-> 0, d |-> MulColumn(a, b, 9) \div M1, t |-> <<>>, ok |-> Fits(<<MulColumn(a, b, 9)>>)]
        BY <1>4
      <4> QED
        BY <1>3, <3>1, <4>1, <4>2
    <3>2. CASE k # -1
      <4>1. k \in 0..8
        BY <3>2
      <4>2. r[k] = Next10(r[k - 1], p, k)
        BY <1>5, <4>1 DEF Rounds10
      <4>3. PICK s : s = r[k - 1]
        OBVIOUS
      <4>4. Body(r)[k] = [c |-> (Sum(s, k) \div M1) + Due(s, k) * (C[2] * 2^Slack),
                d |-> (s.d + MulColumn(a, b, L + k)) \div M1,
                t |-> Append(s.t, Sum(s, k) % M1),
                ok |-> s.ok /\ Fits(<<Sum(s, k), s.d + MulColumn(a, b, L + k)>>)]
        BY ONLY <1>4, <3>2, <4>1, <4>3, Zenon
      <4> HIDE DEF Body
      <4> QED
        BY ONLY <1>2, <4>1, <4>2, <4>3, <4>4, Zenon
    <3> QED
      BY <3>1, <3>2
  <2>2. Body(r) = [k \in -1..8 |-> Body(r)[k]]
    BY <1>4
  <2> HIDE DEF Body
  <2> QED
    BY ONLY <1>5, <2>1, <2>2, Zenon
<1>7. PICK t : t = CHOOSE s : Is(s)
  BY Zenon
<1>8. t = Body(t)
  <2> HIDE DEF Body
  <2> QED
    BY <1>6, <1>7
<1>9. \A k \in -1..8 : t[k] = Body(t)[k]
  BY <1>8, Zenon
<1>10. Rounds10(t, p)
  <2>1. t[-1] = Start10(p)
    BY ONLY <1>3, <1>4, <1>9
  <2>2. \A k \in 0..8 : t[k] = Next10(t[k - 1], p, k)
    <3> TAKE k \in 0..8
    <3>1. k \in -1..8 /\ k # -1
      OBVIOUS
    <3>2. t[k] = Body(t)[k]
      BY <1>9, <3>1, Zenon
    <3>3. PICK s : s = t[k - 1]
      OBVIOUS
    <3>4. Body(t)[k] = [c |-> (Sum(s, k) \div M1) + Due(s, k) * (C[2] * 2^Slack),
              d |-> (s.d + MulColumn(a, b, L + k)) \div M1,
              t |-> Append(s.t, Sum(s, k) % M1),
              ok |-> s.ok /\ Fits(<<Sum(s, k), s.d + MulColumn(a, b, L + k)>>)]
      BY ONLY <1>4, <3>1, <3>3, Zenon
    <3> HIDE DEF Body
    <3> QED
      BY ONLY <1>2, <3>2, <3>3, <3>4, Zenon
  <2> QED
    BY ONLY <2>1, <2>2, Zenon DEF Rounds10
<1>11. fe_mul_inner10(a, b) = Fold10(t[8], p[9] % M1)
  <2>1. p[9] = MulColumn(a, b, 9)
    OBVIOUS
  <2> QED
    BY ONLY <1>1, <1>4, <1>7, <2>1, Zenon
<1> QED
  BY <1>10, <1>11, Zenon

\* ... and so does the square.
LEMMA SqrRounds ==
    ASSUME L = 10, NEW a, NEW p, p = [k \in 0..18 |-> SqrColumn(a, k)]
    PROVE  \E t : Rounds10(t, p) /\ fe_sqr_inner10(a) = Fold10(t[8], p[9] % M1)
<1> DEFINE Due(s, k) == (s.d + SqrColumn(a, L + k)) % M1
           Sum(s, k) == s.c + SqrColumn(a, k) + Due(s, k) * (C[1] * 2^Slack)
           Body(s) == [k \in -1..(L - 2) |->
                          IF k = -1 THEN [c |-> 0, d |-> SqrColumn(a, 9) \div M1, t |-> <<>>,
                                          ok |-> Fits(<<SqrColumn(a, 9)>>)]
                          ELSE [c |-> (Sum(s[k - 1], k) \div M1) + Due(s[k - 1], k) * (C[2] * 2^Slack),
                                d |-> (s[k - 1].d + SqrColumn(a, L + k)) \div M1,
                                t |-> Append(s[k - 1].t, Sum(s[k - 1], k) % M1),
                                ok |-> s[k - 1].ok /\ Fits(<<Sum(s[k - 1], k),
                                                             s[k - 1].d + SqrColumn(a, L + k)>>)]]
           Is(s) == s = Body(s)
<1>1. fe_sqr_inner10(a) = Fold10((CHOOSE s : Is(s))[L - 2], SqrColumn(a, 9) % M1)
  BY Zenon DEF fe_sqr_inner10, Product10, Round10
<1>2. ASSUME NEW s, NEW k \in 0..8
      PROVE  Next10(s, p, k)
             = [c |-> (Sum(s, k) \div M1) + Due(s, k) * (C[2] * 2^Slack),
                d |-> (s.d + SqrColumn(a, L + k)) \div M1,
                t |-> Append(s.t, Sum(s, k) % M1),
                ok |-> s.ok /\ Fits(<<Sum(s, k), s.d + SqrColumn(a, L + k)>>)]
  <2>1. L + k = 10 + k /\ k \in 0..18 /\ 10 + k \in 0..18
    OBVIOUS
  <2>2. p[k] = SqrColumn(a, k) /\ p[10 + k] = SqrColumn(a, L + k)
    BY <2>1
  <2> QED
    BY ONLY <2>2, Zenon DEF Next10, C10, D10, U10, R10
<1>3. Start10(p) = [c |-> 0, d |-> SqrColumn(a, 9) \div M1, t |-> <<>>, ok |-> Fits(<<SqrColumn(a, 9)>>)]
  <2>1. p[9] = SqrColumn(a, 9)
    OBVIOUS
  <2> QED
    BY ONLY <2>1, Zenon DEF Start10
<1> HIDE DEF Due, Sum
<1>4. -1..(L - 2) = -1..8 /\ L - 2 = 8
  OBVIOUS
<1>5. PICK r : r = [k \in -1..8 |-> r[k]] /\ Rounds10(r, p)
  BY Rounds10Exist
<1>6. Is(r)
  <2>1. \A k \in -1..8 : r[k] = Body(r)[k]
    <3> TAKE k \in -1..8
    <3>1. CASE k = -1
      <4>1. r[-1] = Start10(p)
        BY <1>5, Zenon DEF Rounds10
      <4>2. Body(r)[-1] = [c |-> 0, d |-> SqrColumn(a, 9) \div M1, t |-> <<>>, ok |-> Fits(<<SqrColumn(a, 9)>>)]
        BY <1>4
      <4> QED
        BY <1>3, <3>1, <4>1, <4>2
    <3>2. CASE k # -1
      <4>1. k \in 0..8
        BY <3>2
      <4>2. r[k] = Next10(r[k - 1], p, k)
        BY <1>5, <4>1 DEF Rounds10
      <4>3. PICK s : s = r[k - 1]
        OBVIOUS
      <4>4. Body(r)[k] = [c |-> (Sum(s, k) \div M1) + Due(s, k) * (C[2] * 2^Slack),
                d |-> (s.d + SqrColumn(a, L + k)) \div M1,
                t |-> Append(s.t, Sum(s, k) % M1),
                ok |-> s.ok /\ Fits(<<Sum(s, k), s.d + SqrColumn(a, L + k)>>)]
        BY ONLY <1>4, <3>2, <4>1, <4>3, Zenon
      <4> HIDE DEF Body
      <4> QED
        BY ONLY <1>2, <4>1, <4>2, <4>3, <4>4, Zenon
    <3> QED
      BY <3>1, <3>2
  <2>2. Body(r) = [k \in -1..8 |-> Body(r)[k]]
    BY <1>4
  <2> HIDE DEF Body
  <2> QED
    BY ONLY <1>5, <2>1, <2>2, Zenon
<1>7. PICK t : t = CHOOSE s : Is(s)
  BY Zenon
<1>8. t = Body(t)
  <2> HIDE DEF Body
  <2> QED
    BY <1>6, <1>7
<1>9. \A k \in -1..8 : t[k] = Body(t)[k]
  BY <1>8, Zenon
<1>10. Rounds10(t, p)
  <2>1. t[-1] = Start10(p)
    BY ONLY <1>3, <1>4, <1>9
  <2>2. \A k \in 0..8 : t[k] = Next10(t[k - 1], p, k)
    <3> TAKE k \in 0..8
    <3>1. k \in -1..8 /\ k # -1
      OBVIOUS
    <3>2. t[k] = Body(t)[k]
      BY <1>9, <3>1, Zenon
    <3>3. PICK s : s = t[k - 1]
      OBVIOUS
    <3>4. Body(t)[k] = [c |-> (Sum(s, k) \div M1) + Due(s, k) * (C[2] * 2^Slack),
              d |-> (s.d + SqrColumn(a, L + k)) \div M1,
              t |-> Append(s.t, Sum(s, k) % M1),
              ok |-> s.ok /\ Fits(<<Sum(s, k), s.d + SqrColumn(a, L + k)>>)]
      BY ONLY <1>4, <3>1, <3>3, Zenon
    <3> HIDE DEF Body
    <3> QED
      BY ONLY <1>2, <3>2, <3>3, <3>4, Zenon
  <2> QED
    BY ONLY <2>1, <2>2, Zenon DEF Rounds10
<1>11. fe_sqr_inner10(a) = Fold10(t[8], p[9] % M1)
  <2>1. p[9] = SqrColumn(a, 9)
    OBVIOUS
  <2> QED
    BY ONLY <1>1, <1>4, <1>7, <2>1, Zenon
<1> QED
  BY <1>10, <1>11, Zenon

\* Ten limbs: a doubled limb keeps its word.
LEMMA Doubles10 ==
    ASSUME LimbsFit, Products10Fit, L = 10, NEW a, FactorFits(a)
    PROVE  \A i \in Index : (a[i] * 2) % 2^Word = 2 * a[i]
<1> PICK F \in Nat, M \in Nat, W \in Nat, Q \in Nat :
        F = Factor /\ M = M1 /\ W = 2^Word /\ Q = LimbProduct /\ F >= 2 /\ 12 * Q <= W * W /\ M >= 1
  <2>1. M1 >= 1
    BY Sizes
  <2> QED
    BY <2>1, Sizes10, Zenon
<1> PICK A \in Nat : A = F * M
  OBVIOUS
<1>1. A >= 1
  BY ONLY A = F * M, F \in Nat, M \in Nat, F >= 2, M >= 1
<1>2. A * A = Q
  <2>1. Q = F * F * M * M
    BY DEF LimbProduct
  <2>2. (F * M) * (F * M) = F * F * M * M
    BY ONLY F \in Nat, M \in Nat
  <2> QED
    BY <2>1, <2>2
<1>3. 3 * A <= W
  <2> SUFFICES ASSUME W <= 3 * A - 1
               PROVE  FALSE
    OBVIOUS
  <2> PICK y \in Nat : y = A * A
    OBVIOUS
  <2>1. W * W <= (3 * A) * W
    BY ONLY W \in Nat, A \in Nat, W <= 3 * A - 1
  <2>2. (3 * A) * W <= (3 * A) * (3 * A)
    BY ONLY W \in Nat, A \in Nat, W <= 3 * A - 1
  <2>3. (3 * A) * (3 * A) = 9 * y
    BY ONLY A \in Nat, y = A * A
  <2>4. y >= 1
    BY ONLY A \in Nat, A >= 1, y = A * A
  <2> PICK u \in Nat, v \in Nat : u = W * W /\ v = (3 * A) * W
    OBVIOUS
  <2>5. 12 * y <= u
    BY <1>2
  <2> QED
    BY ONLY <2>1, <2>2, <2>3, <2>4, <2>5, u \in Nat, v \in Nat, y \in Nat, u = W * W, v = (3 * A) * W
<1> TAKE i \in Index
<1>4. a[i] \in Nat /\ a[i] <= A
  <2> PICK k \in Nat : k = Mask(i) /\ k <= M
    BY LimbSizes, Sizes, SMTT(30)
  <2>1. F * k <= F * M
    BY ONLY F \in Nat, k \in Nat, M \in Nat, k <= M
  <2>2. a[i] \in Nat /\ a[i] <= F * k
    BY DEF FactorFits
  <2> QED
    BY <2>1, <2>2
<1> PICK x \in Nat : x = a[i] /\ x <= A
  BY <1>4
<1>5. x * 2 \in 0..(W - 1) /\ W >= 1
  BY ONLY <1>1, <1>3, x \in Nat, A \in Nat, W \in Nat, x <= A
<1>6. ((x * 2) % W) = x * 2
  BY ONLY <1>5, W \in Nat, ModSmall
<1> QED
  BY <1>6

\* The columns of a square are those of the product with itself, ...
LEMMA SqrColumns10 ==
    ASSUME LimbsFit, Products10Fit, L = 10, NEW a, FactorFits(a)
    PROVE  \A k \in 0..18 : SqrColumn(a, k) = MulColumn(a, a, k)
<1>1. a \in [Index -> Int]
  BY DEF FactorFits
<1>2. \A i \in Index : (a[i] * 2) % 2^Word = 2 * a[i]
  BY Doubles10
<1> TAKE k \in 0..18
<1>3. k \in 0..(2 * L - 2)
  OBVIOUS
<1> QED
  BY ONLY <1>1, <1>2, <1>3, LimbsFit, SqrColumns

\* ... and a sum of the columns, by their weights, exists.
LEMMA Sums10Exist ==
    ASSUME LimbsFit, NEW p \in [0..18 -> Nat]
    PROVE  \E f : Sums10(f, p)
<1> DEFINE e == [k \in 0..18 |-> p[k] * Weight(k)]
<1>1. e \in [0..18 -> Int]
  <2>1. ASSUME NEW k \in 0..18
        PROVE  p[k] * Weight(k) \in Int
    <3>1. k \in Nat
      OBVIOUS
    <3>2. Weight(k) \in Nat
      BY <3>1, Weights
    <3>3. p[k] \in Nat
      OBVIOUS
    <3> QED
      BY <3>2, <3>3
  <2> QED
    BY <2>1
<1>2. PICK s \in [-1..18 -> Int] : s[-1] = 0 /\ \A i \in 0..18 : s[i] = s[i - 1] + e[i]
  <2> HIDE DEF e
  <2>1. 18 \in Nat
    OBVIOUS
  <2> QED
    BY ONLY <1>1, <2>1, SumsExist, Zenon
<1>3. \A k \in 0..18 : s[k] = s[k - 1] + p[k] * Weight(k)
  BY <1>2
<1> DEFINE f == [k \in 0..19 |-> s[k - 1]]
<1>4. f \in [0..19 -> Int] /\ f[0] = 0
  BY <1>2
<1>5. \A k \in 0..18 : f[k + 1] = f[k] + p[k] * Weight(k)
  <2> TAKE k \in 0..18
  <2>1. k \in 0..19 /\ k + 1 \in 0..19 /\ (k + 1) - 1 = k
    OBVIOUS
  <2>2. f[k + 1] = s[k] /\ f[k] = s[k - 1]
    BY <2>1
  <2> HIDE DEF f
  <2> QED
    BY <1>3, <2>2
<1> HIDE DEF f
<1> QED
  BY <1>4, <1>5 DEF Sums10

\* Modulo the prime, limbs n have the product of two others.
IsProduct(n, a, b) == Value(n) % Prime = (Value(a) * Value(b)) % Prime

\* Ten limbs: what the rounds leave, brought down, is the product.
LEMMA ProductElement10 ==
    ASSUME LimbsFit, Products10Fit, L = 10, NEW a, NEW b, FactorFits(a), FactorFits(b),
           NEW p, p = [k \in 0..18 |-> MulColumn(a, b, k)], NEW t, Rounds10(t, p),
           NEW r, r = Fold10(t[8], p[9] % M1)
    PROVE  Element(Fe(r.n, 1, FALSE, TRUE)) /\ r.ok = TRUE /\ IsProduct(r.n, a, b)
<1>1. Columns10Fit(p)
  BY ProductColumns10
<1>2. PICK f : Sums10(f, p)
  <2>1. p \in [0..18 -> Nat]
    BY <1>1 DEF Columns10Fit
  <2> QED
    BY <2>1, Sums10Exist
<1>3. a \in [Index -> Int] /\ b \in [Index -> Int]
  BY DEF FactorFits
<1>4. f[19] = Value(a) * Value(b)
  <2>1. f \in [0..(2 * L - 1) -> Int] /\ f[0] = 0
    BY <1>2 DEF Sums10
  <2>2. \A k \in 0..(2 * L - 2) : f[k + 1] = f[k] + MulColumn(a, b, k) * Weight(k)
    <3> TAKE k \in 0..(2 * L - 2)
    <3>1. k \in 0..18
      OBVIOUS
    <3>2. f[k + 1] = f[k] + p[k] * Weight(k) /\ p[k] = MulColumn(a, b, k)
      BY <1>2, <3>1 DEF Sums10
    <3> QED
      BY <3>2
  <2>3. f[2 * L - 1] = Value(a) * Value(b)
    BY ONLY <1>3, <2>1, <2>2, LimbsFit, Convolution, Zenon
  <2> QED
    BY <2>3
<1>5. State10(t[8], 9) /\ Worth10(t[8], f, p, 9)
  BY <1>1, <1>2, RoundsRight
<1> PICK low \in 0..(M1 - 1) : low = p[9] % M1
  <2>1. p[9] \in Nat
    BY <1>1 DEF Columns10Fit
  <2>2. M1 \in Nat /\ M1 >= 1
    BY Sizes, SMTT(30)
  <2> QED
    BY <2>1, <2>2
<1> PICK s : s = t[8]
  OBVIOUS
<1>6. r.ok = TRUE /\ r.n \in [Index -> Nat] /\ \A i \in Index : r.n[i] <= 2 * 1 * Mask(i)
  BY <1>5, FoldFits, Zenon
<1>7. PICK k \in Int : Value(r.n) = Value(a) * Value(b) - Prime * k
  BY <1>1, <1>2, <1>4, <1>5, FoldWorth
<1>8. Element(Fe(r.n, 1, FALSE, TRUE))
  <2>1. 1 \in 0..MaxMagnitude
    BY Sizes
  <2> PICK n \in [Index -> Nat], m \in 0..MaxMagnitude : n = r.n /\ m = 1
    BY <1>6, <2>1
  <2>2. \A i \in Index : n[i] <= 2 * m * Mask(i)
    BY <1>6
  <2>3. Element(Fe(n, m, FALSE, TRUE))
    BY <2>2, WordElement, Zenon
  <2> QED
    BY <2>3, Zenon
<1>9. Value(a) \in Int /\ Value(b) \in Int
  BY <1>3, ValueType
<1>10. Prime \in Nat /\ Prime >= 1
  BY PrimeSize
<1>11. Value(r.n) % Prime = (Value(a) * Value(b)) % Prime
  <2> PICK m \in Nat, u \in Int, v \in Int, w \in Int, x \in Int :
          m = Prime /\ m >= 1 /\ u = Value(a) /\ v = Value(b) /\ w = u * v /\ x = -k
    BY <1>9, <1>10
  <2>1. ((w + m * x) % m) = (w % m)
    BY ModShift, ZenonT(30)
  <2>2. Value(r.n) = w + m * x
    BY <1>7
  <2> QED
    BY <2>1, <2>2
<1> QED
  BY <1>6, <1>8, <1>11, Zenon DEF IsProduct

\* The rounds are determined by the columns.
LEMMA RoundsSame ==
    ASSUME NEW p, NEW t, NEW u, Rounds10(t, p), Rounds10(u, p)
    PROVE  t[8] = u[8]
<1> DEFINE V == {k \in 0..9 : t[k - 1] = u[k - 1]}
<1>1. 0 \in V
  BY DEF Rounds10
<1>2. \A k \in 0..(9 - 1) : k \in V => k + 1 \in V
  <2> TAKE k \in 0..(9 - 1)
  <2> HAVE k \in V
  <2>1. k \in 0..8 /\ (k + 1) - 1 = k /\ k + 1 \in 0..9
    OBVIOUS
  <2>2. t[k] = Next10(t[k - 1], p, k) /\ u[k] = Next10(u[k - 1], p, k) /\ t[k - 1] = u[k - 1]
    BY <2>1 DEF Rounds10
  <2> QED
    BY <2>1, <2>2
<1>3. \A k \in 0..9 : k \in V
  <2> HIDE DEF V
  <2>1. 9 \in Nat
    OBVIOUS
  <2> QED
    BY ONLY <1>1, <1>2, <2>1, UpTo
<1>4. 9 \in V /\ 9 - 1 = 8
  <2> HIDE DEF V
  <2> QED
    BY <1>3
<1> QED
  BY <1>4

\* Of ten limbs fe_mul multiplies ...
LEMMA MulRight10 ==
    ASSUME LimbsFit, Products10Fit, L = 10, NEW a, Element(a), NEW b, Element(b),
           a.magnitude <= MulMagnitude, b.magnitude <= MulMagnitude
    PROVE  /\ Element(fe_mul(a, b)) /\ fe_mul(a, b).magnitude = 1
           /\ Value(fe_mul(a, b).n) % Prime = (Value(a.n) * Value(b.n)) % Prime
<1>1. FactorFits(a.n) /\ FactorFits(b.n)
  BY FactorElement
<1> PICK p : p = [k \in 0..18 |-> MulColumn(a.n, b.n, k)]
  BY Zenon
<1>2. PICK t : Rounds10(t, p) /\ fe_mul_inner10(a.n, b.n) = Fold10(t[8], p[9] % M1)
  BY MulRounds, Zenon
<1> PICK r : r = Fold10(t[8], p[9] % M1)
  OBVIOUS
<1>3. /\ Element(Fe(r.n, 1, FALSE, TRUE)) /\ r.ok = TRUE
      /\ Value(r.n) % Prime = (Value(a.n) * Value(b.n)) % Prime
  <2> PICK x, y : x = a.n /\ y = b.n
    OBVIOUS
  <2>1. FactorFits(x) /\ FactorFits(y)
    BY <1>1
  <2>2. p = [k \in 0..18 |-> MulColumn(x, y, k)]
    OBVIOUS
  <2>3. Rounds10(t, p)
    BY <1>2
  <2>4. r = Fold10(t[8], p[9] % M1)
    OBVIOUS
  <2>5. Element(Fe(r.n, 1, FALSE, TRUE)) /\ r.ok = TRUE /\ IsProduct(r.n, x, y)
    BY ONLY <2>1, <2>2, <2>3, <2>4, LimbsFit, Products10Fit, L = 10, ProductElement10, Zenon
  <2> QED
    BY <2>5, Zenon DEF IsProduct
<1>4. fe_mul(a, b) = Fe(r.n, 1, FALSE, TRUE)
  <2>1. fe_mul(a, b) = Fe(r.n, 1, FALSE,
                          a.ok /\ b.ok /\ r.ok /\ {a.magnitude, b.magnitude} \subseteq 0..MulMagnitude)
    BY <1>2, Zenon DEF fe_mul
  <2>2. a.ok = TRUE /\ b.ok = TRUE /\ a.magnitude \in 0..MaxMagnitude /\ b.magnitude \in 0..MaxMagnitude
    BY ElementSize, Zenon
  <2>3. {a.magnitude, b.magnitude} \subseteq 0..MulMagnitude
    <3>1. MulMagnitude \in Nat /\ MaxMagnitude \in Nat
      BY DEF LimbsFit
    <3> QED
      BY <2>2, <3>1
  <2> QED
    BY <1>3, <2>1, <2>2, <2>3, Zenon
<1>5. Fe(r.n, 1, FALSE, TRUE).n = r.n /\ Fe(r.n, 1, FALSE, TRUE).magnitude = 1
  BY DEF Fe
<1> QED
  BY <1>3, <1>4, <1>5, Zenon

\* ... and fe_sqr as fe_mul of an element and itself.
LEMMA SqrRight10 ==
    ASSUME LimbsFit, Products10Fit, L = 10, NEW a, Element(a), a.magnitude <= MulMagnitude
    PROVE  /\ Element(fe_sqr(a)) /\ fe_sqr(a).magnitude = 1
           /\ Value(fe_sqr(a).n) % Prime = (Value(a.n) * Value(a.n)) % Prime
           /\ fe_sqr_inner10(a.n) = fe_mul_inner10(a.n, a.n)
<1>1. FactorFits(a.n)
  BY FactorElement
<1> PICK p : p = [k \in 0..18 |-> MulColumn(a.n, a.n, k)]
  BY Zenon
<1>2. p = [k \in 0..18 |-> SqrColumn(a.n, k)]
  BY <1>1, SqrColumns10
<1>3. PICK t : Rounds10(t, p) /\ fe_sqr_inner10(a.n) = Fold10(t[8], p[9] % M1)
  BY <1>2, SqrRounds, Zenon
<1> PICK r : r = Fold10(t[8], p[9] % M1)
  OBVIOUS
<1>4. /\ Element(Fe(r.n, 1, FALSE, TRUE)) /\ r.ok = TRUE
      /\ Value(r.n) % Prime = (Value(a.n) * Value(a.n)) % Prime
  <2> PICK x, y : x = a.n /\ y = a.n
    OBVIOUS
  <2>1. FactorFits(x) /\ FactorFits(y)
    BY <1>1
  <2>2. p = [k \in 0..18 |-> MulColumn(x, y, k)]
    OBVIOUS
  <2>3. Rounds10(t, p)
    BY <1>3
  <2>4. r = Fold10(t[8], p[9] % M1)
    OBVIOUS
  <2>5. Element(Fe(r.n, 1, FALSE, TRUE)) /\ r.ok = TRUE /\ IsProduct(r.n, x, y)
    BY ONLY <2>1, <2>2, <2>3, <2>4, LimbsFit, Products10Fit, L = 10, ProductElement10, Zenon
  <2> QED
    BY <2>5, Zenon DEF IsProduct
<1>5. fe_sqr(a) = Fe(r.n, 1, FALSE, TRUE)
  <2>1. fe_sqr(a) = Fe(r.n, 1, FALSE, a.ok /\ r.ok /\ a.magnitude <= MulMagnitude)
    BY <1>3, Zenon DEF fe_sqr
  <2>2. a.ok = TRUE
    BY ElementSize, Zenon
  <2> QED
    BY <1>4, <2>1, <2>2, Zenon
<1>6. Fe(r.n, 1, FALSE, TRUE).n = r.n /\ Fe(r.n, 1, FALSE, TRUE).magnitude = 1
  BY DEF Fe
<1>7. fe_sqr_inner10(a.n) = fe_mul_inner10(a.n, a.n)
  <2>1. PICK u : Rounds10(u, p) /\ fe_mul_inner10(a.n, a.n) = Fold10(u[8], p[9] % M1)
    BY MulRounds, Zenon
  <2>2. t[8] = u[8]
    BY <1>3, <2>1, RoundsSame
  <2> QED
    BY <1>3, <2>1, <2>2
<1> QED
  BY <1>4, <1>5, <1>6, <1>7, Zenon

-----------------------------------------------------------------------------
(* The products of a build.                                               *)

\* fe_mul multiplies the numbers modulo the prime, of either layout and for elements
\* of a magnitude that it accepts: no sum outgrows two words, the product has
\* magnitude one, and of five limbs nothing is lost of a sum that the assembler
\* keeps in one word.
THEOREM MulRight ==
    ASSUME LimbsFit, L = 5 => ProductsFit, L = 10 => Products10Fit,
           NEW a, Element(a), NEW b, Element(b),
           a.magnitude <= MulMagnitude, b.magnitude <= MulMagnitude
    PROVE  /\ Element(fe_mul(a, b)) /\ fe_mul(a, b).magnitude = 1
           /\ Value(fe_mul(a, b).n) % Prime = (Value(a.n) * Value(b.n)) % Prime
           /\ L = 5 => fe_mul_inner5(a.n, b.n) = fe_mul_inner5_asm(a.n, b.n)
<1>1. CASE L = 5
  BY <1>1, MulRight5
<1>2. CASE L = 10
  BY <1>2, MulRight10
<1> QED
  BY <1>1, <1>2 DEF LimbsFit

\* fe_sqr squares modulo the prime, in the same way, and leaves the limbs that
\* the product of the element with itself has.
THEOREM SqrRight ==
    ASSUME LimbsFit, L = 5 => ProductsFit, L = 10 => Products10Fit,
           NEW a, Element(a), a.magnitude <= MulMagnitude
    PROVE  /\ Element(fe_sqr(a)) /\ fe_sqr(a).magnitude = 1
           /\ Value(fe_sqr(a).n) % Prime = (Value(a.n) * Value(a.n)) % Prime
           /\ L = 10 => fe_sqr_inner10(a.n) = fe_mul_inner10(a.n, a.n)
           /\ L = 5 => /\ fe_sqr_inner5(a.n) = fe_sqr_inner5_asm(a.n)
                       /\ fe_sqr_inner5(a.n) = fe_mul_inner5(a.n, a.n)
<1>1. CASE L = 5
  BY <1>1, SqrRight5
<1>2. CASE L = 10
  BY <1>2, SqrRight10
<1> QED
  BY <1>1, <1>2 DEF LimbsFit

-----------------------------------------------------------------------------
(* The comparison.                                                         *)

\* The sign of a difference.
Sign(x, y) == IF x > y THEN 1 ELSE IF x < y THEN -1 ELSE 0

\* from has the verdicts on the limbs up to each.
IsVerdict(from, a, b) ==
    from = [i \in -1..(L - 1) |->
                IF i = -1 THEN 0
                ELSE IF a.n[i] > b.n[i] THEN 1
                ELSE IF a.n[i] < b.n[i] THEN -1
                ELSE from[i - 1]]

\* The verdict of one digit over that of the lower ones.
Decided(d, e, below) == IF d > e THEN 1 ELSE IF d < e THEN -1 ELSE below

\* s has the digit d above u, which is smaller than the digit's weight.
IsAbove(w, u, d, s) == w \in Nat /\ w >= 1 /\ u \in 0..(w - 1) /\ d \in Int /\ s = u + d * w

\* A higher digit decides over the lower ones.
LEMMA HigherDecides ==
    ASSUME NEW w, NEW u, NEW v, NEW d, NEW e, NEW s, NEW t, IsAbove(w, u, d, s), IsAbove(w, v, e, t)
    PROVE  Sign(s, t) = Decided(d, e, Sign(u, v))
<1>0. /\ w \in Nat /\ w >= 1 /\ u \in 0..(w - 1) /\ d \in Int /\ s = u + d * w
      /\ v \in 0..(w - 1) /\ e \in Int /\ t = v + e * w
  BY Zenon DEF IsAbove
<1> PICK x \in Int, y \in Int : x = d * w /\ y = e * w
  BY <1>0
<1>1. ASSUME NEW p \in Int, NEW q \in Int, p < q
      PROVE  p * w + w <= q * w
  <2>1. p + 1 \in Int /\ p + 1 <= q
    BY <1>1
  <2>2. (p + 1) * w <= q * w
    BY ONLY <1>0, <2>1, p \in Int, q \in Int, TimesMonotone
  <2>3. (p + 1) * w = p * w + w
    BY <1>0
  <2> QED
    BY <2>2, <2>3
<1>2. CASE d > e
  <2>1. y + w <= x
    BY <1>0, <1>1, <1>2
  <2> QED
    BY <1>0, <1>2, <2>1 DEF Sign, Decided
<1>3. CASE d < e
  <2>1. x + w <= y
    BY <1>0, <1>1, <1>3
  <2> QED
    BY <1>0, <1>3, <2>1 DEF Sign, Decided
<1>4. CASE d = e
  BY <1>0, <1>4 DEF Sign, Decided
<1> QED
  BY <1>0, <1>2, <1>3, <1>4

\* The verdict goes up with the limbs.
LEMMA SignStep ==
    ASSUME LimbsFit, NEW a \in [Index -> Nat], NEW b \in [Index -> Nat],
           \A i \in Index : a[i] <= Mask(i) /\ b[i] <= Mask(i), NEW k \in Index
    PROVE  Sign(Worth(a)[k + 1], Worth(b)[k + 1])
               = Decided(a[k], b[k], Sign(Worth(a)[k], Worth(b)[k]))
<1>1. L \in Nat /\ Index = 0..(L - 1) /\ M1 \in Nat
  BY Sizes DEF Index
<1>2. k \in Nat /\ k \in 0..L /\ k <= L - 1
  BY <1>1
<1>3. \A i \in Index : i < k => a[i] <= M1 - 1 /\ b[i] <= M1 - 1
  <2> TAKE i \in Index
  <2>1. i < k => i # L - 1
    BY <1>1, <1>2
  <2>2. i # L - 1 => Mask(i) = M1 - 1
    BY LimbSizes
  <2> QED
    BY <2>1, <2>2
<1>4. /\ Worth(a)[k] >= 0 /\ Worth(a)[k] <= Weight(k) - 1
      /\ Worth(b)[k] >= 0 /\ Worth(b)[k] <= Weight(k) - 1
  <2>1. Worth(a)[k] >= 0 /\ Worth(a)[k] <= Weight(k) - 1
    BY <1>2, <1>3, WorthBound
  <2>2. Worth(b)[k] >= 0 /\ Worth(b)[k] <= Weight(k) - 1
    BY <1>2, <1>3, WorthBound
  <2> QED
    BY <2>1, <2>2
<1>5. /\ Worth(a)[k + 1] = Worth(a)[k] + a[k] * Weight(k) /\ Worth(a)[k] \in Int
      /\ Worth(b)[k + 1] = Worth(b)[k] + b[k] * Weight(k) /\ Worth(b)[k] \in Int
  <2>1. a \in [Index -> Int] /\ b \in [Index -> Int]
    OBVIOUS
  <2>2. Worth(a) \in [0..L -> Int] /\ \A j \in Index : Worth(a)[j + 1] = Worth(a)[j] + a[j] * Weight(j)
    BY <2>1, WorthSteps
  <2>3. Worth(b) \in [0..L -> Int] /\ \A j \in Index : Worth(b)[j + 1] = Worth(b)[j] + b[j] * Weight(j)
    BY <2>1, WorthSteps
  <2> QED
    BY <1>2, <2>2, <2>3
<1>6. PICK w \in Nat, u \in Int, v \in Int, d \in Int, e \in Int :
           w = Weight(k) /\ u = Worth(a)[k] /\ v = Worth(b)[k] /\ d = a[k] /\ e = b[k] /\ w >= 1
  <2>1. a[k] \in Int /\ b[k] \in Int
    OBVIOUS
  <2> QED
    BY <1>2, <1>5, <2>1, Weights, Zenon
<1>7. u \in 0..(w - 1) /\ v \in 0..(w - 1)
  BY <1>4, <1>6
<1>8. w >= 1
  BY <1>6
<1>9. PICK s, t : s = u + d * w /\ t = v + e * w
  OBVIOUS
<1>10. s = Worth(a)[k + 1] /\ t = Worth(b)[k + 1]
  BY <1>5, <1>6, <1>9, Zenon
<1>11. IsAbove(w, u, d, s) /\ IsAbove(w, v, e, t)
  BY <1>7, <1>8, <1>9, Zenon DEF IsAbove
<1>12. Sign(s, t) = Decided(d, e, Sign(u, v))
  BY ONLY <1>11, HigherDecides, SMT
<1> QED
  BY <1>6, <1>10, <1>12, Zenon

\* fe_cmp_var compares the numbers of two normalized elements.
THEOREM CompareRight ==
    ASSUME LimbsFit, NEW a, Element(a), a.normalized, NEW b, Element(b), b.normalized
    PROVE  fe_cmp_var(a, b) = Sign(Value(a.n), Value(b.n))
<1>1. L \in Nat /\ L >= 5 /\ Index = 0..(L - 1)
  BY Sizes DEF Index
<1> PICK x, y : x = a.n /\ y = b.n
  OBVIOUS
<1>2. x \in [Index -> Nat] /\ y \in [Index -> Nat] /\ \A i \in Index : x[i] <= Mask(i) /\ y[i] <= Mask(i)
  BY ElementSize, Zenon
<1>3. \A k \in Index : Sign(Worth(x)[k + 1], Worth(y)[k + 1])
          = Decided(x[k], y[k], Sign(Worth(x)[k], Worth(y)[k]))
  BY <1>2, SignStep
<1>4. Sign(Worth(x)[0], Worth(y)[0]) = 0
  <2>1. x \in [Index -> Int] /\ y \in [Index -> Int]
    BY <1>2
  <2>2. Worth(x)[0] = 0 /\ Worth(y)[0] = 0
    BY <2>1, WorthSteps
  <2> QED
    BY <2>2 DEF Sign
<1> DEFINE F == [i \in -1..(L - 1) |-> Sign(Worth(x)[i + 1], Worth(y)[i + 1])]
<1>5. IsVerdict(F, a, b)
  <2>1. ASSUME NEW i \in -1..(L - 1)
        PROVE  F[i] = IF i = -1 THEN 0
                      ELSE IF a.n[i] > b.n[i] THEN 1
                      ELSE IF a.n[i] < b.n[i] THEN -1
                      ELSE F[i - 1]
    <3>1. CASE i = -1
      <4>1. i + 1 = 0
        BY <3>1
      <4> QED
        BY <1>4, <3>1, <4>1
    <3>2. CASE i # -1
      <4>1. i \in Index /\ i - 1 \in -1..(L - 1) /\ (i - 1) + 1 = i
        BY <1>1, <3>2
      <4>2. F[i - 1] = Sign(Worth(x)[i], Worth(y)[i])
        BY <4>1
      <4>3. F[i] = Sign(Worth(x)[i + 1], Worth(y)[i + 1])
        OBVIOUS
      <4> HIDE DEF F
      <4> QED
        BY <1>3, <3>2, <4>1, <4>2, <4>3 DEF Decided
    <3> QED
      BY <3>1, <3>2
  <2> QED
    BY <2>1, Zenon DEF IsVerdict
<1> HIDE DEF F
<1> PICK f : f = CHOOSE g : IsVerdict(g, a, b)
  OBVIOUS
<1>6. IsVerdict(f, a, b) /\ fe_cmp_var(a, b) = f[L - 1]
  <2>1. IsVerdict(CHOOSE g : IsVerdict(g, a, b), a, b)
    BY <1>5, Zenon
  <2>2. fe_cmp_var(a, b) = (CHOOSE g : IsVerdict(g, a, b))[L - 1]
    BY Zenon DEF fe_cmp_var, IsVerdict
  <2> QED
    BY <2>1, <2>2, Zenon
<1>7. \A i \in -1..(L - 1) : f[i] = IF i = -1 THEN 0
                                    ELSE IF x[i] > y[i] THEN 1
                                    ELSE IF x[i] < y[i] THEN -1
                                    ELSE f[i - 1]
  <2>1. \A i \in -1..(L - 1) : f[i] = IF i = -1 THEN 0
                                      ELSE IF a.n[i] > b.n[i] THEN 1
                                      ELSE IF a.n[i] < b.n[i] THEN -1
                                      ELSE f[i - 1]
    BY <1>6, Zenon DEF IsVerdict
  <2> QED
    BY <2>1
<1> DEFINE S == {k \in 0..L : f[k - 1] = Sign(Worth(x)[k], Worth(y)[k])}
<1>8. 0 \in S
  <2>1. 0 - 1 = -1 /\ -1 \in -1..(L - 1) /\ 0 \in 0..L
    BY <1>1
  <2> QED
    BY <1>4, <1>7, <2>1
<1>9. \A k \in Index : k \in S => k + 1 \in S
  <2> TAKE k \in Index
  <2> HAVE k \in S
  <2>1. k + 1 \in 0..L /\ (k + 1) - 1 = k /\ k \in -1..(L - 1) /\ k # -1
    BY <1>1
  <2>2. f[k] = Decided(x[k], y[k], f[k - 1])
    BY <1>7, <2>1 DEF Decided
  <2>3. f[k - 1] = Sign(Worth(x)[k], Worth(y)[k])
    OBVIOUS
  <2>4. f[(k + 1) - 1] = Sign(Worth(x)[k + 1], Worth(y)[k + 1])
    BY <1>3, <2>1, <2>2, <2>3, Zenon
  <2> QED
    BY <2>1, <2>4
<1>10. \A k \in 0..L : k \in S
  <2> HIDE DEF S
  <2> QED
    BY <1>8, <1>9, LimbInduction
<1>11. L \in 0..L
  BY <1>1
<1> QED
  BY <1>6, <1>10, <1>11 DEF Value

-----------------------------------------------------------------------------
(* Groups of bits.                                                         *)

\* Digit i of a number, in groups of w bits.
Digit(v, w, i) == (v \div 2^(w * i)) % 2^w

\* The remainder by a power of two is that by half of it, with one bit more.
LEMMA NextBit ==
    ASSUME NEW x \in Nat, NEW m \in Nat
    PROVE  (x % 2^m) + ((x \div 2^m) % 2) * 2^m = x % 2^(m + 1)
<1> PICK p \in Nat, q \in Nat : p = 2^m /\ q = 2 /\ p >= 1 /\ q >= 1
  BY PowerPositive
<1>1. p * q = 2^(m + 1)
  <2>1. 2^(m + 1) = 2 * 2^m
    BY PowerNext
  <2> QED
    BY <2>1
<1>2. x \in Int /\ p >= 1 /\ q >= 1
  OBVIOUS
<1>3. x % (p * q) = (x % p) + ((x \div p) % q) * p
  BY ONLY <1>2, p \in Nat, q \in Nat, ModSplit, Zenon
<1> QED
  BY <1>1, <1>3

\* Shifts add up.
IsShiftTwice(v, m, n, k) == (v \div 2^m) \div 2^n = v \div 2^k /\ v \div 2^m \in Nat

\* A shift by m and one by n are one by both.
LEMMA ShiftTwice ==
    ASSUME NEW v \in Nat, NEW m \in Nat, NEW n \in Nat, NEW k, k = m + n
    PROVE  IsShiftTwice(v, m, n, k)
<1> PICK p \in Nat, q \in Nat : p = 2^m /\ q = 2^n /\ p >= 1 /\ q >= 1
  BY PowerPositive
<1>1. p * q = 2^(m + n)
  BY PowerSum
<1>2. v \in Int /\ p >= 1 /\ q >= 1
  OBVIOUS
<1>3. v \div (p * q) = (v \div p) \div q
  BY ONLY <1>2, p \in Nat, q \in Nat, ModSplit, Zenon
<1>4. v \div p \in Nat
  BY ONLY <1>2, v \in Nat, p \in Nat, DivisionNat
<1> QED
  BY <1>1, <1>3, <1>4, Zenon DEF IsShiftTwice

\* A bit of a remainder is that bit of the number.
LEMMA RemainderBit ==
    ASSUME NEW x \in Nat, NEW w \in Nat, NEW s \in 0..(w - 1)
    PROVE  ((x % 2^w) \div 2^s) % 2 = (x \div 2^s) % 2
<1>1. s \in Nat /\ w - s - 1 \in Nat /\ s + 1 + (w - s - 1) = w /\ s + 1 \in Nat
  OBVIOUS
<1>2. 2^w = 2^(s + 1) * 2^(w - s - 1) /\ 2^(s + 1) = 2 * 2^s
  <2>1. 2^((s + 1) + (w - s - 1)) = 2^(s + 1) * 2^(w - s - 1)
    BY <1>1, PowerSum
  <2>2. (s + 1) + (w - s - 1) = w
    BY <1>1
  <2> QED
    BY <1>1, <2>1, <2>2, PowerNext
<1>3. PICK p \in Nat, h \in Nat : p = 2^s /\ h = 2^(w - s - 1)
  BY <1>1, PowerPositive
<1>4. p >= 1 /\ h >= 1 /\ 2^w = p * (2 * h) /\ p * (2 * h) \in Nat /\ p * (2 * h) >= 1
  <2>1. p >= 1 /\ h >= 1
    BY <1>1, <1>3, PowerPositive
  <2>2. 2^w = (2 * p) * h
    BY <1>2, <1>3
  <2>3. (2 * p) * h = p * (2 * h)
    OBVIOUS
  <2>4. p * (2 * h) >= 1
    <3>1. 2 * h >= 1 /\ 2 * h \in Nat /\ 1 * (2 * h) = 2 * h
      BY <2>1
    <3>2. 1 * (2 * h) <= p * (2 * h)
      BY ONLY <2>1, <3>1, p \in Nat, 1 \in Int, TimesMonotone
    <3> QED
      BY <3>1, <3>2
  <2> QED
    BY <2>1, <2>2, <2>3, <2>4
<1>5. PICK b \in Nat : b = p * (2 * h) /\ b >= 1 /\ b = 2^w
  BY <1>4
<1>6. x \in Int
  OBVIOUS
<1>7. PICK d \in Int, e \in 0..(b - 1) : d = x \div b /\ e = (x % b) /\ x = b * d + e
  BY ONLY <1>5, <1>6, b \in Nat, Division, Zenon
<1>8. PICK t \in Int : t = 2 * (h * d)
  OBVIOUS
<1>9. x = e + p * t
  <2>1. (p * (2 * h)) * d = p * (2 * (h * d))
    OBVIOUS
  <2>2. b * d = (p * (2 * h)) * d
    BY <1>5
  <2>3. p * t = p * (2 * (h * d))
    BY <1>8
  <2>4. PICK y \in Int : y = b * d /\ y = p * t
    BY <2>1, <2>2, <2>3
  <2> QED
    BY <1>7, <2>4
<1>10. e \in Int /\ p >= 1
  BY <1>4, <1>7
<1>11. (e + p * t) \div p = e \div p + t
  BY ONLY <1>10, p \in Nat, t \in Int, DivShift
<1>12. e \div p \in Int
  BY ONLY <1>10, p \in Nat, Division
<1>13. PICK f \in Int, g \in Int, u \in Int : f = e \div p /\ g = x \div p /\ u = h * d
  BY <1>9, <1>11, <1>12
<1>14. g = f + 2 * u
  BY <1>8, <1>9, <1>11, <1>13
<1>15. g % 2 = f % 2
  BY ONLY <1>14, f \in Int, u \in Int
<1> QED
  BY <1>3, <1>5, <1>7, <1>13, <1>15, Zenon

\* A bit of a digit is a bit of the number.
LEMMA DigitBit ==
    ASSUME NEW v \in Nat, NEW w \in Nat, w >= 1, NEW k \in Nat
    PROVE  (Digit(v, w, k \div w) \div 2^(k % w)) % 2 = (v \div 2^k) % 2
<1>1. k \in Int
  OBVIOUS
<1>2. k \div w \in Nat /\ (k % w) \in 0..(w - 1) /\ k = w * (k \div w) + (k % w)
  <2>1. k \div w \in Nat
    BY ONLY w \in Nat, w >= 1, k \in Nat, DivisionNat
  <2>2. (k % w) \in 0..(w - 1) /\ k = w * (k \div w) + (k % w)
    BY ONLY w \in Nat, w >= 1, <1>1, Division
  <2> QED
    BY <2>1, <2>2
<1>3. PICK j \in Nat, s \in 0..(w - 1) : j = k \div w /\ s = (k % w) /\ k = w * j + s
  BY <1>2
<1>4. w * j \in Nat /\ s \in Nat
  OBVIOUS
<1>5. PICK x : x = v \div 2^(w * j)
  OBVIOUS
<1>6. x \div 2^s = v \div 2^(w * j + s) /\ x \in Nat
  <2>1. (v \div 2^(w * j)) \div 2^s = v \div 2^(w * j + s) /\ v \div 2^(w * j) \in Nat
    <3>1. PICK m \in Nat, n \in Nat : m = w * j /\ n = w * j + s /\ n = m + s
      BY <1>4
    <3>2. s \in Nat /\ n = m + s
      BY <1>4, <3>1
    <3>3. IsShiftTwice(v, m, s, n)
      BY ONLY v \in Nat, m \in Nat, <3>2, ShiftTwice
    <3> QED
      BY <3>1, <3>3, Zenon DEF IsShiftTwice
  <2> QED
    BY <1>5, <2>1, Zenon
<1>7. ((x % 2^w) \div 2^s) % 2 = (x \div 2^s) % 2
  BY ONLY <1>6, w \in Nat, s \in 0..(w - 1), RemainderBit, Zenon
<1>8. Digit(v, w, j) = x % 2^w
  BY <1>5, Zenon DEF Digit
<1> QED
  BY <1>3, <1>6, <1>7, <1>8, Zenon

\* The bits of group i among the first k.
Taken(k, to, i) == IF k < to * i THEN 0 ELSE IF k - to * i > to THEN to ELSE k - to * i

\* The groups after k bits.
Groups(v, to, count, k) == [i \in 0..(count - 1) |-> (v \div 2^(to * i)) % 2^Taken(k, to, i)]

\* Where a bit falls: into one group, above those that are full and below the empty.
LEMMA TakenNext ==
    ASSUME NEW to \in Nat, to >= 1, NEW j \in Nat, NEW s \in 0..(to - 1), NEW i \in Nat,
           NEW k, k = to * j + s
    PROVE  /\ i = j => Taken(k, to, i) = s /\ Taken(k + 1, to, i) = s + 1
           /\ i # j => Taken(k + 1, to, i) = Taken(k, to, i)
<1>1. PICK x \in Nat, y \in Nat : x = to * j /\ y = to * i
  OBVIOUS
<1>2. CASE i = j
  BY <1>1, <1>2 DEF Taken
<1>3. CASE i < j
  <2>1. y + to <= x
    <3>1. i + 1 \in Int /\ j \in Int /\ i + 1 <= j
      BY <1>3
    <3>2. (i + 1) * to <= j * to
      BY ONLY <3>1, to \in Nat, TimesMonotone
    <3>3. (i + 1) * to = to * i + to /\ j * to = to * j
      OBVIOUS
    <3> QED
      BY <1>1, <3>2, <3>3
  <2> QED
    BY <1>1, <1>3, <2>1 DEF Taken
<1>4. CASE i > j
  <2>1. x + to <= y
    <3>1. j + 1 \in Int /\ i \in Int /\ j + 1 <= i
      BY <1>4
    <3>2. (j + 1) * to <= i * to
      BY ONLY <3>1, to \in Nat, TimesMonotone
    <3>3. (j + 1) * to = to * j + to /\ i * to = to * i
      OBVIOUS
    <3> QED
      BY <1>1, <3>2, <3>3
  <2> QED
    BY <1>1, <1>4, <2>1 DEF Taken
<1> QED
  BY <1>2, <1>3, <1>4

\* One more bit.
OneMore(v, to, count, k) ==
    Groups(v, to, count, k + 1)
        = [Groups(v, to, count, k) EXCEPT ![k \div to] = @ + ((v \div 2^k) % 2) * 2^(k % to)]

\* It is the bit of the number.
LEMMA GroupsNext ==
    ASSUME NEW v \in Nat, NEW to \in Nat, to >= 1, NEW count, NEW k \in Nat
    PROVE  OneMore(v, to, count, k)
<1>1. k \in Nat /\ k \in Int /\ to \in Int
  OBVIOUS
<1>2. PICK j \in Nat, s \in 0..(to - 1) : j = k \div to /\ s = (k % to) /\ k = to * j + s
  <2>1. k \div to \in Nat
    BY ONLY to \in Nat, to >= 1, <1>1, DivisionNat
  <2>2. (k % to) \in 0..(to - 1) /\ k = to * (k \div to) + (k % to)
    BY ONLY to \in Nat, to >= 1, <1>1, Division
  <2> QED
    BY <2>1, <2>2
<1>3. s \in Nat /\ to * j \in Nat
  OBVIOUS
<1> DEFINE G == Groups(v, to, count, k)
           E == [G EXCEPT ![j] = @ + ((v \div 2^k) % 2) * 2^s]
           N == Groups(v, to, count, k + 1)
<1>4. G = [i \in 0..(count - 1) |-> (v \div 2^(to * i)) % 2^Taken(k, to, i)]
  BY DEF Groups
<1>5. N = [i \in 0..(count - 1) |-> (v \div 2^(to * i)) % 2^Taken(k + 1, to, i)]
  BY DEF Groups
<1> HIDE DEF G, N
<1>6. E = [i \in 0..(count - 1) |-> IF i = j THEN G[i] + ((v \div 2^k) % 2) * 2^s ELSE G[i]]
  BY <1>4, Zenon
<1>7. ASSUME NEW i \in 0..(count - 1)
      PROVE  N[i] = IF i = j THEN G[i] + ((v \div 2^k) % 2) * 2^s ELSE G[i]
  <2>1. i \in Nat
    OBVIOUS
  <2>2. /\ i = j => Taken(k, to, i) = s /\ Taken(k + 1, to, i) = s + 1
        /\ i # j => Taken(k + 1, to, i) = Taken(k, to, i)
    <3>1. k = to * j + s
      BY <1>2
    <3> QED
      BY ONLY to \in Nat, to >= 1, j \in Nat, s \in 0..(to - 1), <2>1, <3>1, TakenNext
  <2>3. N[i] = (v \div 2^(to * i)) % 2^Taken(k + 1, to, i) /\ G[i] = (v \div 2^(to * i)) % 2^Taken(k, to, i)
    BY <1>4, <1>5, Zenon
  <2>4. CASE i # j
    BY <2>2, <2>3, <2>4, Zenon
  <2>5. CASE i = j
    <3>1. PICK x : x = v \div 2^(to * j)
      OBVIOUS
    <3>2. x \div 2^s = v \div 2^(to * j + s) /\ x \in Nat
      <4>1. (v \div 2^(to * j)) \div 2^s = v \div 2^(to * j + s) /\ v \div 2^(to * j) \in Nat
        <5>1. PICK m \in Nat, n \in Nat : m = to * j /\ n = to * j + s /\ n = m + s
          BY <1>3
        <5>2. s \in Nat /\ n = m + s
          BY <1>3, <5>1
        <5>3. IsShiftTwice(v, m, s, n)
          BY ONLY v \in Nat, m \in Nat, <5>2, ShiftTwice
        <5> QED
          BY <5>1, <5>3, Zenon DEF IsShiftTwice
      <4> QED
        BY <3>1, <4>1, Zenon
    <3>3. (x % 2^s) + ((x \div 2^s) % 2) * 2^s = x % 2^(s + 1)
      BY ONLY <3>2, <1>3, NextBit
    <3>4. N[i] = x % 2^(s + 1) /\ G[i] = x % 2^s
      BY <2>2, <2>3, <2>5, <3>1, Zenon
    <3>5. (x \div 2^s) % 2 = (v \div 2^k) % 2
      BY <1>2, <3>2, Zenon
    <3> QED
      BY <2>5, <3>3, <3>4, <3>5, Zenon
  <2> QED
    BY <2>4, <2>5
<1>8. N = E
  <2>1. N = [i \in 0..(count - 1) |-> N[i]]
    BY <1>5
  <2> HIDE DEF E
  <2> QED
    BY <1>6, <1>7, <2>1
<1> QED
  BY <1>2, <1>8, Zenon DEF OneMore, G, E, N

\* g has the groups after each number of bits.
IsGroups(g, n, width, to, count) ==
    g = [k \in 0..(count * to) |->
            IF k = 0 THEN [i \in 0..(count - 1) |-> 0]
            ELSE [g[k - 1] EXCEPT ![(k - 1) \div to] =
                      @ + ((n[(k - 1) \div width] \div 2^((k - 1) % width)) % 2) * 2^((k - 1) % to)]]

\* The digits a number of bits is taken from, and what becomes of them.
HasDigits(n, v, width, top) == \A k \in 0..(top - 1) : n[k \div width] = Digit(v, width, k \div width)
IsRegrouped(n, width, to, count, v) == Regroup(n, width, to, count) = [i \in 0..(count - 1) |-> Digit(v, to, i)]

\* Regroup makes the digits of a number in one width from those in another.
LEMMA RegroupRight ==
    ASSUME NEW v \in Nat, NEW width \in Nat, width >= 1, NEW to \in Nat, to >= 1, NEW count \in Nat, NEW n,
           NEW top, top = count * to, HasDigits(n, v, width, top)
    PROVE  IsRegrouped(n, width, to, count, v)
<1> top \in Nat
  OBVIOUS
<1>1. Groups(v, to, count, 0) = [i \in 0..(count - 1) |-> 0]
  <2>1. ASSUME NEW i \in 0..(count - 1)
        PROVE  (v \div 2^(to * i)) % 2^Taken(0, to, i) = 0
    <3>1. i \in Nat /\ to * i \in Nat
      OBVIOUS
    <3>2. Taken(0, to, i) = 0
      BY <3>1 DEF Taken
    <3>3. v \div 2^(to * i) \in Nat
      <4>1. PICK m \in Nat : m = to * i /\ m = m + 0
        BY <3>1
      <4>2. m = m + 0 /\ 0 \in Nat
        OBVIOUS
      <4>3. IsShiftTwice(v, m, 0, m)
        BY ONLY v \in Nat, m \in Nat, <4>2, ShiftTwice
      <4> QED
        BY <4>1, <4>3, Zenon DEF IsShiftTwice
    <3>4. PICK x \in Nat : x = v \div 2^(to * i)
      BY <3>3
    <3>5. x % 1 = 0
      OBVIOUS
    <3> QED
      BY <3>2, <3>4, <3>5, PowerZero, Zenon
  <2> QED
    BY <2>1 DEF Groups
<1>2. ASSUME NEW k \in 0..(top - 1)
      PROVE  Groups(v, to, count, k + 1)
                 = [Groups(v, to, count, k) EXCEPT ![k \div to] =
                       @ + ((n[k \div width] \div 2^(k % width)) % 2) * 2^(k % to)]
  <2>1. k \in 0..(top - 1) /\ k \in Nat
    OBVIOUS
  <2>2. Groups(v, to, count, k + 1)
            = [Groups(v, to, count, k) EXCEPT ![k \div to] = @ + ((v \div 2^k) % 2) * 2^(k % to)]
    <3>1. OneMore(v, to, count, k)
      BY ONLY <2>1, v \in Nat, to \in Nat, to >= 1, GroupsNext
    <3> QED
      BY <3>1, Zenon DEF OneMore
  <2>3. n[k \div width] = Digit(v, width, k \div width)
    BY <2>1, Zenon DEF HasDigits
  <2>4. (Digit(v, width, k \div width) \div 2^(k % width)) % 2 = (v \div 2^k) % 2
    BY ONLY <2>1, v \in Nat, width \in Nat, width >= 1, DigitBit
  <2>5. (n[k \div width] \div 2^(k % width)) % 2 = (v \div 2^k) % 2
    BY <2>3, <2>4, Zenon
  <2> QED
    BY <2>2, <2>5, Zenon
<1> DEFINE G == [k \in 0..top |-> Groups(v, to, count, k)]
           Next(h, k) == [h EXCEPT ![k \div to] = @ + ((n[k \div width] \div 2^(k % width)) % 2) * 2^(k % to)]
<1>3. IsGroups(G, n, width, to, count)
  <2>1. ASSUME NEW k \in 0..top
        PROVE  G[k] = IF k = 0 THEN [i \in 0..(count - 1) |-> 0] ELSE Next(G[k - 1], k - 1)
    <3>1. CASE k = 0
      BY <1>1, <3>1
    <3>2. CASE k # 0
      <4>1. k - 1 \in 0..(top - 1) /\ (k - 1) + 1 = k /\ k - 1 \in 0..top
        BY <3>2
      <4>2. G[k - 1] = Groups(v, to, count, k - 1) /\ G[k] = Groups(v, to, count, k)
        BY <4>1
      <4>3. Groups(v, to, count, (k - 1) + 1) = Next(Groups(v, to, count, k - 1), k - 1)
        BY <1>2, <4>1, Zenon
      <4> HIDE DEF G, Next
      <4> QED
        BY <3>2, <4>1, <4>2, <4>3, Zenon
    <3> QED
      BY <3>1, <3>2, Zenon
  <2> QED
    BY <2>1, Zenon DEF IsGroups
<1> HIDE DEF G
<1> PICK g : g = CHOOSE f : IsGroups(f, n, width, to, count)
  OBVIOUS
<1>4. IsGroups(g, n, width, to, count) /\ Regroup(n, width, to, count) = g[count * to]
  <2>1. IsGroups(CHOOSE f : IsGroups(f, n, width, to, count), n, width, to, count)
    BY <1>3, Zenon
  <2>2. Regroup(n, width, to, count) = (CHOOSE f : IsGroups(f, n, width, to, count))[count * to]
    BY Zenon DEF Regroup, IsGroups
  <2> QED
    BY <2>1, <2>2, Zenon
<1>5. \A k \in 0..top : g[k] = IF k = 0 THEN [i \in 0..(count - 1) |-> 0] ELSE Next(g[k - 1], k - 1)
  BY <1>4, Zenon DEF IsGroups
<1> DEFINE S == {k \in 0..top : g[k] = Groups(v, to, count, k)}
<1>6. 0 \in S
  <2>1. 0 \in 0..top
    OBVIOUS
  <2> QED
    BY <1>1, <1>5, <2>1, Zenon
<1>7. \A k \in 0..(top - 1) : k \in S => k + 1 \in S
  <2> TAKE k \in 0..(top - 1)
  <2> HAVE k \in S
  <2>1. k + 1 \in 0..top /\ (k + 1) - 1 = k /\ k + 1 # 0 /\ k \in 0..top
    OBVIOUS
  <2>2. g[k] = Groups(v, to, count, k)
    OBVIOUS
  <2>3. g[k + 1] = Next(g[(k + 1) - 1], (k + 1) - 1)
    BY <1>5, <2>1, Zenon
  <2>4. Groups(v, to, count, k + 1) = Next(Groups(v, to, count, k), k)
    BY <1>2, Zenon
  <2> HIDE DEF Next
  <2>5. g[k + 1] = Groups(v, to, count, k + 1)
    BY <2>1, <2>2, <2>3, <2>4, Zenon
  <2> QED
    BY <2>1, <2>5
<1>8. \A k \in 0..top : k \in S
  <2> HIDE DEF S
  <2> QED
    BY <1>6, <1>7, UpTo
<1>9. g[top] = Groups(v, to, count, top)
  <2>1. top \in 0..top
    OBVIOUS
  <2> QED
    BY <1>8, <2>1
<1>10. ASSUME NEW i \in 0..(count - 1)
       PROVE  Taken(top, to, i) = to
  <2>1. i + 1 \in Int /\ count \in Int /\ i + 1 <= count
    OBVIOUS
  <2>2. (i + 1) * to <= count * to
    BY ONLY <2>1, to \in Nat, TimesMonotone
  <2>3. (i + 1) * to = to * i + to /\ to * i \in Nat
    OBVIOUS
  <2> QED
    BY <2>2, <2>3 DEF Taken
<1>11. Groups(v, to, count, top) = [i \in 0..(count - 1) |-> Digit(v, to, i)]
  <2>1. ASSUME NEW i \in 0..(count - 1)
        PROVE  (v \div 2^(to * i)) % 2^Taken(top, to, i) = Digit(v, to, i)
    BY <1>10, Zenon DEF Digit
  <2> QED
    BY <2>1, Zenon DEF Groups
<1> QED
  BY <1>4, <1>9, <1>11, Zenon DEF IsRegrouped

-----------------------------------------------------------------------------
(* The limbs as digits.                                                    *)

\* Above a limb everything is a multiple of the weight there.
LEMMA UpperLimbs ==
    ASSUME LimbsFit, NEW n \in [Index -> Nat], NEW j \in Index
    PROVE  \E q \in Nat : Value(n) = Worth(n)[j + 1] + Weight(j + 1) * q
<1> DEFINE S == {m \in 0..L : m >= j + 1 => \E q \in Nat : Worth(n)[m] = Worth(n)[j + 1] + Weight(j + 1) * q}
<1>1. L \in Nat /\ L >= 5 /\ Index = 0..(L - 1)
  BY Sizes DEF Index
<1>2. j \in Nat /\ j + 1 \in Nat /\ j + 1 <= L /\ j + 1 \in 0..L
  BY <1>1
<1>3. n \in [Index -> Int]
  OBVIOUS
<1>4. Worth(n) \in [0..L -> Int] /\ \A k \in Index : Worth(n)[k + 1] = Worth(n)[k] + n[k] * Weight(k)
  BY <1>3, WorthSteps
<1>5. 0 \in S
  BY <1>1, <1>2
<1>6. \A m \in Index : m \in S => m + 1 \in S
  <2> TAKE m \in Index
  <2> HAVE m \in S
  <2>1. m \in Nat /\ m + 1 \in 0..L
    BY <1>1
  <2>2. CASE m + 1 >= j + 1 /\ m >= j + 1
    <3>1. PICK q \in Nat : Worth(n)[m] = Worth(n)[j + 1] + Weight(j + 1) * q
      BY <2>2
    <3>2. PICK d \in Nat : m = (j + 1) + d
      <4>1. m - (j + 1) \in Nat /\ m = (j + 1) + (m - (j + 1))
        BY <1>2, <2>1, <2>2
      <4> QED
        BY <4>1
    <3>3. Weight(m) = Weight(j + 1) * Weight(d) /\ Weight(d) \in Nat /\ Weight(j + 1) \in Nat
      BY <1>2, <3>2, WeightSum, Weights, Zenon
    <3>4. PICK w \in Nat, x \in Nat, y \in Nat, u \in Int :
               w = Weight(j + 1) /\ x = Weight(d) /\ y = n[m] /\ u = Worth(n)[j + 1]
      BY <1>2, <1>4, <3>3, Zenon
    <3>5. Worth(n)[m + 1] = (u + w * q) + y * (w * x)
      BY <1>4, <3>1, <3>3, <3>4
    <3>6. (u + w * q) + y * (w * x) = u + w * (q + y * x) /\ q + y * x \in Nat
      OBVIOUS
    <3>7. \E r \in Nat : Worth(n)[m + 1] = Worth(n)[j + 1] + Weight(j + 1) * r
      BY <3>4, <3>5, <3>6
    <3> QED
      BY <2>1, <3>7
  <2>3. CASE m + 1 >= j + 1 /\ ~(m >= j + 1)
    <3>1. m = j
      BY <1>2, <2>1, <2>3
    <3>2. Weight(j + 1) \in Nat /\ Worth(n)[j + 1] \in Int
      BY <1>2, <1>4, Weights, Zenon
    <3>3. Worth(n)[m + 1] = Worth(n)[j + 1] + Weight(j + 1) * 0
      BY <3>1, <3>2
    <3> QED
      BY <2>1, <3>3
  <2>4. CASE ~(m + 1 >= j + 1)
    BY <2>1, <2>4
  <2> QED
    BY <2>2, <2>3, <2>4
<1>7. \A m \in 0..L : m \in S
  <2> HIDE DEF S
  <2> QED
    BY <1>5, <1>6, LimbInduction
<1>8. L \in S /\ L >= j + 1
  BY <1>1, <1>2, <1>7
<1> QED
  BY <1>8 DEF Value

\* Limbs within their share are the digits of their number.
LEMMA LimbDigit ==
    ASSUME LimbsFit, NEW n \in [Index -> Nat], \A i \in Index : n[i] <= Mask(i), NEW j \in Index
    PROVE  n[j] = Digit(Value(n), Bits, j)
<1>1. L \in Nat /\ L >= 5 /\ Index = 0..(L - 1) /\ M1 \in Nat /\ M1 >= 2
  BY Sizes DEF Index
<1>2. j \in Nat /\ j \in 0..L /\ j <= L - 1
  BY <1>1
<1>3. PICK q \in Nat : Value(n) = Worth(n)[j + 1] + Weight(j + 1) * q
  BY UpperLimbs
<1>4. n \in [Index -> Int]
  OBVIOUS
<1>5. Worth(n) \in [0..L -> Int] /\ Worth(n)[j + 1] = Worth(n)[j] + n[j] * Weight(j)
  BY <1>4, WorthSteps
<1>6. \A i \in Index : i < j => n[i] <= M1 - 1
  <2> TAKE i \in Index
  <2>1. i < j => i # L - 1
    BY <1>1, <1>2
  <2>2. i # L - 1 => Mask(i) = M1 - 1
    BY LimbSizes
  <2> QED
    BY <2>1, <2>2
<1>7. Worth(n)[j] >= 0 /\ Worth(n)[j] <= Weight(j) - 1
  BY <1>2, <1>6, WorthBound
<1>8. Weight(j) \in Nat /\ Weight(j) >= 1 /\ Weight(j + 1) = M1 * Weight(j)
  BY <1>2, Weights
<1>9. n[j] \in 0..(M1 - 1)
  <2>1. Mask(j) <= M1 - 1 /\ Mask(j) \in Nat
    BY LimbSizes
  <2>2. n[j] \in Nat /\ n[j] <= Mask(j)
    OBVIOUS
  <2> QED
    BY <1>1, <2>1, <2>2
<1>10. PICK w \in Nat, b \in Nat, u \in Int, d \in Int, v \in Int :
            w = Weight(j) /\ b = M1 /\ u = Worth(n)[j] /\ d = n[j] /\ v = u + d * w + (b * w) * q
  <2>1. Worth(n)[j] \in Int /\ n[j] \in Int /\ Weight(j) \in Nat /\ M1 \in Nat
    BY <1>1, <1>2, <1>5, <1>8, <1>9
  <2>2. PICK w \in Nat, b \in Nat, u \in Int, d \in Int :
             w = Weight(j) /\ b = M1 /\ u = Worth(n)[j] /\ d = n[j]
    BY ONLY <2>1
  <2>3. PICK v \in Int : v = u + d * w + (b * w) * q
    BY ONLY w \in Nat, b \in Nat, u \in Int, d \in Int, q \in Nat
  <2> QED
    BY <2>2, <2>3, Zenon
<1>11. w >= 1 /\ b >= 1 /\ u \in 0..(w - 1) /\ d \in 0..(b - 1) /\ Value(n) = v
  BY <1>1, <1>3, <1>5, <1>7, <1>8, <1>9, <1>10
<1>12. PICK e \in Int : e = d + b * q
  OBVIOUS
<1>13. v = w * e + u
  <2>1. u + d * w + (b * w) * q = w * (d + b * q) + u
    OBVIOUS
  <2> QED
    BY <1>10, <1>12, <2>1
<1>14. v \div w = e
  BY ONLY <1>11, <1>13, w \in Nat, e \in Int, v \in Int, DivisionUnique
<1>15. e = b * q + d /\ q \in Int
  BY <1>12
<1>16. e % b = d
  BY ONLY <1>11, <1>15, b \in Nat, e \in Int, DivisionUnique
<1>17. Digit(Value(n), Bits, j) = (v \div w) % b
  BY <1>10, <1>11, Zenon DEF Digit, Weight, M1
<1> QED
  BY <1>10, <1>14, <1>16, <1>17, Zenon

\* The digits of a number below the power of two are limbs within their share.
LEMMA DigitLimbs ==
    ASSUME LimbsFit, NEW v \in Nat, v < Power, NEW r, r = [i \in Index |-> Digit(v, Bits, i)]
    PROVE  r \in [Index -> Nat] /\ (\A i \in Index : r[i] <= Mask(i)) /\ Value(r) = v
<1>1. L \in Nat /\ L >= 5 /\ Index = 0..(L - 1) /\ M1 \in Nat /\ M1 >= 2 /\ Top1 \in Nat /\ Top1 <= M1
  BY Sizes DEF Index
<1>2. ASSUME NEW i \in Index
      PROVE  r[i] = (v \div Weight(i)) % M1 /\ r[i] \in 0..(M1 - 1)
  <2>1. r[i] = (v \div Weight(i)) % M1
    BY Zenon DEF Digit, Weight, M1
  <2>2. i \in Nat
    BY <1>1
  <2>3. Weight(i) \in Nat /\ Weight(i) >= 1
    BY <2>2, Weights
  <2>4. PICK w \in Nat : w = Weight(i) /\ w >= 1
    BY <2>3
  <2>5. v \div w \in Nat
    BY ONLY <2>4, v \in Nat, w \in Nat, DivisionNat
  <2>6. PICK x \in Int, b \in Nat : x = v \div w /\ b = M1 /\ b >= 1
    BY <1>1, <2>5
  <2>7. (x % b) \in 0..(b - 1)
    BY ONLY <2>6, x \in Int, b \in Nat, Division, Zenon
  <2> QED
    BY <2>1, <2>4, <2>6, <2>7
<1>3. r \in [Index -> Int] /\ r \in [Index -> Nat]
  <2>1. \A i \in Index : r[i] \in Nat
    BY <1>1, <1>2
  <2>2. r = [i \in Index |-> r[i]]
    OBVIOUS
  <2> QED
    BY <2>1, <2>2
<1>4. Worth(r) \in [0..L -> Int] /\ Worth(r)[0] = 0
      /\ \A k \in Index : Worth(r)[k + 1] = Worth(r)[k] + r[k] * Weight(k)
  BY <1>3, WorthSteps
<1> DEFINE S == {k \in 0..L : Worth(r)[k] = v % Weight(k)}
<1>5. 0 \in S
  <2>1. Weight(0) = 1
    BY Weights
  <2>2. v % 1 = 0
    OBVIOUS
  <2>3. Worth(r)[0] = v % Weight(0)
    BY <1>4, <2>1, <2>2, Zenon
  <2>4. 0 \in 0..L
    BY <1>1
  <2> QED
    BY <2>3, <2>4
<1>6. \A k \in Index : k \in S => k + 1 \in S
  <2> TAKE k \in Index
  <2> HAVE k \in S
  <2>1. k \in Nat /\ k + 1 \in 0..L
    BY <1>1
  <2>2. Weight(k) \in Nat /\ Weight(k) >= 1 /\ Weight(k + 1) = M1 * Weight(k)
    BY <2>1, Weights
  <2>3. PICK w \in Nat, b \in Nat : w = Weight(k) /\ b = M1 /\ w >= 1 /\ b >= 1
    BY <1>1, <2>2
  <2>4. v \in Int
    OBVIOUS
  <2>5. v % (w * b) = (v % w) + ((v \div w) % b) * w
    BY ONLY <2>3, <2>4, w \in Nat, b \in Nat, ModSplit, Zenon
  <2>6. w * b = b * w
    OBVIOUS
  <2>7. Worth(r)[k + 1] = (v % w) + ((v \div w) % b) * w
    BY <1>2, <1>4, <2>3, Zenon
  <2>8. Worth(r)[k + 1] = v % Weight(k + 1)
    BY <2>2, <2>3, <2>5, <2>6, <2>7, Zenon
  <2> QED
    BY <2>1, <2>8
<1>7. \A k \in 0..L : k \in S
  <2> HIDE DEF S
  <2> QED
    BY <1>5, <1>6, LimbInduction
<1>8. Worth(r)[L] = v % Weight(L)
  <2>1. L \in 0..L
    BY <1>1
  <2> QED
    BY <1>7, <2>1
<1>9. v < Weight(L) /\ Weight(L) \in Nat /\ Weight(L) >= 1
  <2>1. Weight(L) \in Nat /\ Weight(L) >= 1 /\ L - 1 \in Nat /\ (L - 1) + 1 = L
    BY <1>1, Weights
  <2>2. Weight((L - 1) + 1) = M1 * Weight(L - 1) /\ Weight(L - 1) \in Nat
    BY <2>1, Weights
  <2>3. Power = Top1 * Weight(L - 1)
    BY DEF Power
  <2>4. PICK w \in Nat, t \in Int, b \in Int : w = Weight(L - 1) /\ t = Top1 /\ b = M1 /\ t <= b
    BY <1>1, <2>2
  <2>5. t * w <= b * w
    BY ONLY <2>4, w \in Nat, t \in Int, b \in Int, TimesMonotone
  <2>6. Weight(L) = b * w /\ Power = t * w
    BY <2>1, <2>2, <2>3, <2>4, Zenon
  <2> QED
    BY <2>1, <2>5, <2>6
<1>10. Value(r) = v
  <2>1. PICK w \in Nat : w = Weight(L) /\ w >= 1 /\ v \in 0..(w - 1)
    BY <1>9
  <2>2. v % w = v
    BY ONLY <2>1, w \in Nat, ModSmall
  <2> QED
    BY <1>8, <2>1, <2>2, Zenon DEF Value
<1>11. r[L - 1] <= Top1 - 1
  <2>1. \A i \in Index : i # L - 1 => r[i] \in 0..(M1 - 1)
    BY <1>2
  <2>2. Weight(L - 1) \in Nat /\ Weight(L - 1) >= 1 /\ Worth(r)[L - 1] \in 0..(Weight(L - 1) - 1)
        /\ Value(r) = Weight(L - 1) * r[L - 1] + Worth(r)[L - 1]
    BY <1>3, <2>1, ValueTop
  <2>3. L - 1 \in Index
    BY <1>1
  <2>4. PICK w \in Nat, t \in Nat, d \in Nat, u \in Nat :
             w = Weight(L - 1) /\ t = Top1 /\ d = r[L - 1] /\ u = Worth(r)[L - 1] /\ w >= 1
    <3>1. Top1 \in Nat
      BY <1>1
    <3>2. r[L - 1] \in Nat
      BY <1>3, <2>3, Zenon
    <3>3. Worth(r)[L - 1] \in Nat
      <4>1. PICK w \in Nat : w = Weight(L - 1)
        BY <2>2
      <4>2. Worth(r)[L - 1] \in 0..(w - 1)
        BY <2>2, <4>1, Zenon
      <4> QED
        BY ONLY <4>2, w \in Nat
    <3>4. Weight(L - 1) \in Nat /\ Weight(L - 1) >= 1
      BY <2>2, Zenon
    <3> QED
      BY ONLY <3>1, <3>2, <3>3, <3>4
  <2>5. w * d + u < t * w
    <3>1. w * d + u = v
      BY <1>10, <2>2, <2>4, Zenon
    <3>2. v < t * w
      BY <2>4, Zenon DEF Power
    <3> QED
      BY <3>1, <3>2
  <2>6. SUFFICES ASSUME t <= d
                 PROVE  FALSE
    BY <2>4
  <2>7. t \in Int /\ d \in Int
    OBVIOUS
  <2>8. t * w <= d * w
    BY ONLY <2>6, <2>7, w \in Nat, TimesMonotone
  <2>9. d * w = w * d
    OBVIOUS
  <2>10. PICK x \in Int, y \in Int : x = t * w /\ y = w * d
    OBVIOUS
  <2> QED
    BY <2>5, <2>8, <2>9, <2>10
<1>12. \A i \in Index : r[i] <= Mask(i)
  <2> TAKE i \in Index
  <2>1. (i = L - 1 => Mask(i) = Top1 - 1) /\ (i # L - 1 => Mask(i) = M1 - 1)
    BY LimbSizes
  <2>2. r[i] \in 0..(M1 - 1)
    BY <1>2
  <2> QED
    BY <1>1, <1>11, <2>1, <2>2
<1> QED
  BY <1>3, <1>10, <1>12

\* The power of two is that of the bits of an element.
LEMMA PowerBits ==
    ASSUME LimbsFit
    PROVE  BitLength \in Nat /\ BitLength <= L * Bits /\ L * Bits \in Nat /\ Power = 2^BitLength
<1>1. L \in Nat /\ L >= 5 /\ Bits \in Nat /\ Slack \in Nat /\ Slack < Bits
  BY Sizes
<1>2. Bits - Slack \in Nat /\ Bits * (L - 1) \in Nat /\ L * Bits \in Nat
  BY <1>1
<1>3. (Bits - Slack) + Bits * (L - 1) = L * Bits - Slack
  BY <1>1
<1>4. 2^((Bits - Slack) + Bits * (L - 1)) = 2^(Bits - Slack) * 2^(Bits * (L - 1))
  BY <1>2, PowerSum, Zenon
<1>5. Power = 2^BitLength
  BY <1>3, <1>4, Zenon DEF Power, Top1, Weight, BitLength
<1>6. PICK x \in Nat, y \in Nat : x = Bits - Slack /\ y = Bits * (L - 1)
  BY <1>2
<1>7. x + y = BitLength
  BY <1>3, <1>6, Zenon DEF BitLength
<1> QED
  BY <1>1, <1>2, <1>5, <1>6, <1>7 DEF BitLength

\* A number has no digits above its bits.
LEMMA NoDigit ==
    ASSUME NEW v \in Nat, NEW w \in Nat, NEW m \in Nat, v < 2^m, NEW i \in Nat, m <= w * i
    PROVE  Digit(v, w, i) = 0
<1>1. PICK k \in Nat : k = w * i
  OBVIOUS
<1>2. 2^m <= 2^k /\ 2^m \in Nat
  BY <1>1, PowerMonotone, PowerPositive
<1>3. PICK p \in Nat : p = 2^k /\ p >= 1
  BY PowerPositive
<1>4. v \in 0..(p - 1)
  BY <1>2, <1>3
<1>5. v \div p = 0
  BY ONLY <1>3, <1>4, p \in Nat, ModSmall
<1>6. PICK b \in Nat : b = 2^w /\ b >= 1
  BY PowerPositive
<1>7. 0 \in 0..(b - 1)
  BY <1>6
<1>8. 0 % b = 0
  BY ONLY <1>6, <1>7, b \in Nat, ModSmall
<1> QED
  BY <1>1, <1>3, <1>5, <1>6, <1>8, Zenon DEF Digit

-----------------------------------------------------------------------------
(* The storage form and the bytes.                                         *)

\* The number in words of w bits, from the lowest, and in bytes from the highest.
Words(v, w) == [i \in 0..(BitLength \div w - 1) |-> Digit(v, w, i)]
BytesOf(v)  == [i \in 0..(BitLength \div ByteBits - 1) |->
                    Digit(v, ByteBits, BitLength \div ByteBits - 1 - i)]

\* Words that an element is made of.
IsWidth(w) == w \in Nat /\ w >= 1 /\ BitLength % w = 0

\* The words of the storage form and the bytes are such.
LEMMA Widths ==
    ASSUME LimbsFit
    PROVE  IsWidth(Store) /\ IsWidth(ByteBits)
<1>1. Store \in Nat \ {0} /\ ByteBits \in Nat \ {0}
  BY Zenon DEF LimbsFit
<1>2. (L * Bits - Slack) % Store = 0 /\ (L * Bits - Slack) % ByteBits = 0
  BY Zenon DEF LimbsFit
<1>3. Store \in Nat /\ Store >= 1 /\ ByteBits \in Nat /\ ByteBits >= 1
  BY ONLY <1>1
<1> QED
  BY <1>2, <1>3, Zenon DEF IsWidth, BitLength

\* As many words as the bits need.
LEMMA WordCount ==
    ASSUME LimbsFit, NEW w, IsWidth(w)
    PROVE  BitLength \div w \in Nat /\ (BitLength \div w) * w = BitLength
<1>1. PICK n \in Nat, m \in Nat : n = BitLength /\ m = w /\ m >= 1 /\ n % m = 0
  BY PowerBits DEF IsWidth
<1>2. n \in Int
  OBVIOUS
<1>3. n = m * (n \div m) + (n % m) /\ n \div m \in Int
  BY ONLY <1>1, <1>2, m \in Nat, Division
<1>4. n \div m \in Nat
  BY ONLY <1>1, n \in Nat, m \in Nat, DivisionNat
<1>5. PICK q \in Nat : q = n \div m
  BY <1>4
<1>6. n = m * q
  BY <1>1, <1>3, <1>5
<1>7. q * m = m * q
  OBVIOUS
<1> QED
  BY <1>1, <1>5, <1>6, <1>7

\* Limbs within their share regrouped are the words of their number.
LEMMA LimbWords ==
    ASSUME LimbsFit, NEW n \in [Index -> Nat], \A i \in Index : n[i] <= Mask(i), NEW w, IsWidth(w)
    PROVE  Regroup(n, Bits, w, BitLength \div w) = Words(Value(n), w)
<1>1. L \in Nat /\ L >= 5 /\ Index = 0..(L - 1) /\ Bits \in Nat /\ Bits >= 1
  BY Sizes DEF Index
<1>2. w \in Nat /\ w >= 1
  BY DEF IsWidth
<1>3. PICK count \in Nat : count = BitLength \div w /\ count * w = BitLength
  BY WordCount
<1>4. PICK v \in Nat : v = Value(n)
  <2>1. n \in [Index -> Int]
    OBVIOUS
  <2>2. L \in 0..L
    BY <1>1
  <2>3. Worth(n)[0] = 0 /\ Worth(n) \in [0..L -> Int]
    BY <2>1, WorthSteps
  <2>4. 0 \in Index
    BY <1>1
  <2>5. PICK q \in Nat : Value(n) = Worth(n)[0 + 1] + Weight(0 + 1) * q
    BY <2>4, UpperLimbs
  <2>6. Worth(n)[0 + 1] = Worth(n)[0] + n[0] * Weight(0)
    BY <2>1, <2>4, WorthSteps
  <2>7. Weight(0) = 1 /\ Weight(0 + 1) \in Nat /\ n[0] \in Nat
    BY <2>4, Weights
  <2>8. PICK x \in Nat, y \in Nat, z \in Int : x = Weight(0 + 1) /\ y = n[0] /\ z = Value(n) /\ z = y + x * q
    BY <2>3, <2>5, <2>6, <2>7
  <2>9. x * q \in Nat
    OBVIOUS
  <2> QED
    BY <2>8, <2>9
<1>5. ASSUME NEW k \in 0..(count * w - 1)
      PROVE  n[k \div Bits] = Digit(v, Bits, k \div Bits)
  <2>1. BitLength <= L * Bits /\ BitLength \in Nat /\ L * Bits \in Nat
    BY PowerBits
  <2>2. k \in Nat /\ k < L * Bits
    BY <1>3, <2>1
  <2>3. PICK m \in Nat, b \in Nat : m = L - 1 /\ b = Bits /\ b >= 1 /\ L = m + 1
    <3>1. L - 1 \in Nat /\ L = (L - 1) + 1 /\ Bits \in Nat /\ Bits >= 1
      BY <1>1
    <3> QED
      BY ONLY <3>1, Zenon
  <2>4. k < b * (m + 1)
    <3>1. L * Bits = b * (m + 1)
      BY <2>3
    <3> QED
      BY <2>1, <2>2, <3>1
  <2>5. k \in Int /\ k >= 0 /\ m \in Int
    BY <2>2
  <2>6. k \div b \in Nat /\ k \div b <= m
    BY ONLY <2>3, <2>4, <2>5, b \in Nat, DivBound
  <2>7. PICK j \in Index : j = k \div Bits
    BY <1>1, <2>3, <2>6
  <2>8. n[j] = Digit(Value(n), Bits, j)
    BY LimbDigit
  <2> QED
    BY <1>4, <2>7, <2>8, Zenon
<1>6. IsRegrouped(n, Bits, w, count, v)
  <2>1. PICK top : top = count * w
    OBVIOUS
  <2>2. HasDigits(n, v, Bits, top)
    BY <1>5, <2>1, Zenon DEF HasDigits
  <2> QED
    BY ONLY <1>1, <1>2, <2>1, <2>2, v \in Nat, count \in Nat, RegroupRight
<1> QED
  BY <1>3, <1>4, <1>6, Zenon DEF Words, IsRegrouped

\* The words of a number regrouped are its limbs.
LEMMA WordLimbs ==
    ASSUME LimbsFit, NEW v \in Nat, v < Power, NEW w, IsWidth(w)
    PROVE  ToLimbs(Words(v, w), w) = [i \in Index |-> Digit(v, Bits, i)]
<1>1. L \in Nat /\ L >= 5 /\ Index = 0..(L - 1) /\ Bits \in Nat /\ Bits >= 1
  BY Sizes DEF Index
<1>2. w \in Nat /\ w >= 1
  BY DEF IsWidth
<1>3. PICK count \in Nat : count = BitLength \div w /\ count * w = BitLength
  BY WordCount
<1>4. PICK top \in Nat : top = L * Bits /\ BitLength <= top
  BY PowerBits
<1> DEFINE W == Words(v, w)
           f == [i \in 0..((L * Bits) \div w) |-> IF i < BitLength \div w THEN W[i] ELSE 0]
<1>5. ASSUME NEW i \in 0..((L * Bits) \div w), i \in Nat
      PROVE  f[i] = Digit(v, w, i)
  <2>1. f[i] = IF i < count THEN W[i] ELSE 0
    BY <1>3, Zenon
  <2>2. CASE i < count
    <3>1. i \in 0..(count - 1)
      BY <1>5, <2>2
    <3>2. W = [j \in 0..(count - 1) |-> Digit(v, w, j)]
      BY <1>3, Zenon DEF Words
    <3> HIDE DEF W
    <3>3. W[i] = Digit(v, w, i)
      BY <3>1, <3>2
    <3> HIDE DEF f
    <3> QED
      BY <2>1, <2>2, <3>3
  <2>3. CASE ~(i < count)
    <3>1. BitLength <= w * i
      <4>1. count \in Int /\ i \in Int /\ count <= i
        BY <1>5, <2>3
      <4>2. count * w <= i * w
        BY ONLY <1>2, <4>1, TimesMonotone
      <4>3. i * w = w * i
        BY <1>2, <1>5
      <4> QED
        BY <1>3, <4>2, <4>3
    <3>2. PICK m \in Nat : m = BitLength /\ v < 2^m /\ m <= w * i
      BY <3>1, PowerBits
    <3>3. Digit(v, w, i) = 0
      BY ONLY <1>2, <1>5, <3>2, v \in Nat, m \in Nat, NoDigit
    <3> HIDE DEF f, W
    <3> QED
      BY <2>1, <2>3, <3>3
  <2> QED
    BY <2>2, <2>3
<1> HIDE DEF W, f
<1>6. ASSUME NEW k \in 0..(L * Bits - 1)
      PROVE  f[k \div w] = Digit(v, w, k \div w)
  <2>1. PICK b \in Nat : b = w /\ b >= 1
    BY <1>2
  <2>2. k \in Nat /\ k <= top
    BY <1>4
  <2>3. k \div b \in Nat
    BY ONLY <2>1, <2>2, b \in Nat, DivisionNat
  <2>4. top \div b \in Nat
    BY ONLY <2>1, top \in Nat, b \in Nat, DivisionNat
  <2>5. top \in Int /\ top = b * (top \div b) + (top % b) /\ (top % b) \in 0..(b - 1)
    <3>1. top \in Int
      OBVIOUS
    <3> QED
      BY ONLY <2>1, <3>1, b \in Nat, Division
  <2>6. PICK q \in Nat, e \in 0..(b - 1) : q = top \div b /\ top = b * q + e
    BY <2>4, <2>5
  <2>7. k < b * (q + 1)
    <3>1. b * (q + 1) = b * q + b
      OBVIOUS
    <3>2. PICK x \in Nat : x = b * q
      OBVIOUS
    <3> QED
      BY <2>2, <2>6, <3>1, <3>2
  <2>8. k \in Int /\ k >= 0 /\ q \in Int
    BY <2>2
  <2>9. k \div b \in Nat /\ k \div b <= q
    BY ONLY <2>1, <2>7, <2>8, b \in Nat, DivBound
  <2>10. PICK i \in Nat : i = k \div w /\ i \in 0..((L * Bits) \div w)
    BY <1>4, <2>1, <2>3, <2>6, <2>9
  <2>11. f[i] = Digit(v, w, i)
    BY <1>5, <2>10
  <2> QED
    BY <2>10, <2>11, Zenon
<1>7. IsRegrouped(f, w, Bits, L, v)
  <2>1. PICK t : t = L * Bits
    OBVIOUS
  <2>2. HasDigits(f, v, w, t)
    BY <1>6, <2>1, Zenon DEF HasDigits
  <2> QED
    BY ONLY <1>1, <1>2, <2>1, <2>2, v \in Nat, RegroupRight
<1>8. ToLimbs(Words(v, w), w) = Regroup(f, w, Bits, L)
  BY Zenon DEF ToLimbs, W, f
<1> QED
  BY <1>1, <1>7, <1>8, Zenon DEF IsRegrouped

\* fe_to_storage of a normalized element holds its value in the words of the
\* storage form, and fe_from_storage makes of the words of a value below the
\* prime the normalized element with that value.
THEOREM StorageRight ==
    ASSUME LimbsFit
    PROVE  /\ \A a : Element(a) /\ a.normalized => fe_to_storage(a) = Words(Value(a.n), Store)
           /\ \A v \in Nat : v < Prime =>
                  LET r == fe_from_storage(Words(v, Store))
                  IN Element(r) /\ r.normalized /\ r.magnitude = 1 /\ Value(r.n) = v
<1>1. ASSUME NEW a, Element(a), a.normalized
      PROVE  fe_to_storage(a) = Words(Value(a.n), Store)
  <2>1. a.n \in [Index -> Nat] /\ \A i \in Index : a.n[i] <= Mask(i)
    BY <1>1, ElementSize, Zenon
  <2>2. IsWidth(Store)
    BY Widths
  <2>3. Regroup(a.n, Bits, Store, BitLength \div Store) = Words(Value(a.n), Store)
    BY ONLY LimbsFit, <2>1, <2>2, LimbWords
  <2> QED
    BY <2>3, Zenon DEF fe_to_storage
<1>2. ASSUME NEW v \in Nat, v < Prime
      PROVE  LET r == fe_from_storage(Words(v, Store))
             IN Element(r) /\ r.normalized /\ r.magnitude = 1 /\ Value(r.n) = v
  <2>1. v < Power
    BY <1>2, PrimeSize
  <2>2. PICK n : n = [i \in Index |-> Digit(v, Bits, i)]
    BY Zenon
  <2>3. ToLimbs(Words(v, Store), Store) = n
    BY <2>1, <2>2, Widths, WordLimbs
  <2>4. n \in [Index -> Nat] /\ (\A i \in Index : n[i] <= Mask(i)) /\ Value(n) = v
    BY ONLY LimbsFit, <2>1, <2>2, v \in Nat, DigitLimbs
  <2>5. 1 \in 0..MaxMagnitude /\ TRUE \in BOOLEAN
    BY Sizes
  <2>6. \A i \in Index : n[i] <= 2 * 1 * Mask(i)
    <3> TAKE i \in Index
    <3>1. Mask(i) \in Nat /\ n[i] <= Mask(i) /\ n[i] \in Nat
      BY <2>4, LimbSizes
    <3> QED
      BY <3>1
  <2>7. Value(n) < Prime
    BY <1>2, <2>4
  <2>8. Element(Fe(n, 1, TRUE, TRUE))
    BY <2>4, <2>5, <2>6, <2>7, ElementFe, Zenon
  <2>9. fe_from_storage(Words(v, Store)) = Fe(n, 1, TRUE, TRUE)
    BY <2>3, Zenon DEF fe_from_storage
  <2>10. Fe(n, 1, TRUE, TRUE).n = n /\ Fe(n, 1, TRUE, TRUE).magnitude = 1 /\ Fe(n, 1, TRUE, TRUE).normalized
    BY DEF Fe
  <2> QED
    BY <2>4, <2>8, <2>9, <2>10, Zenon
<1> QED
  BY <1>1, <1>2, Zenon

\* fe_get_b32 of a normalized element gives the bytes of its value; fe_set_b32 of
\* the bytes of any number below the power of two makes the limbs of it, and says
\* that it is an element exactly when it is below the prime.
THEOREM BytesRight ==
    ASSUME LimbsFit
    PROVE  /\ \A a : Element(a) /\ a.normalized => fe_get_b32(a) = BytesOf(Value(a.n))
           /\ \A v \in Nat : v < Power =>
                  LET r == fe_set_b32(BytesOf(v))
                  IN /\ r.n \in [Index -> Nat] /\ (\A i \in Index : r.n[i] <= Mask(i))
                     /\ Value(r.n) = v /\ (r.ret <=> v < Prime)
<1>1. PICK count \in Nat : count = BitLength \div ByteBits
  BY Widths, WordCount
<1> DEFINE Back(f) == [i \in 0..(count - 1) |-> f[count - 1 - i]]
<1>2. ASSUME NEW v
      PROVE  /\ Words(v, ByteBits) = [i \in 0..(count - 1) |-> Digit(v, ByteBits, i)]
             /\ BytesOf(v) = [i \in 0..(count - 1) |-> Digit(v, ByteBits, count - 1 - i)]
  BY <1>1, Zenon DEF Words, BytesOf
<1>3. ASSUME NEW v
      PROVE  Back(Words(v, ByteBits)) = BytesOf(v) /\ Back(BytesOf(v)) = Words(v, ByteBits)
  <2>1. PICK W, B : W = Words(v, ByteBits) /\ B = BytesOf(v)
    OBVIOUS
  <2>2. \A i \in 0..(count - 1) : W[i] = Digit(v, ByteBits, i) /\ B[i] = Digit(v, ByteBits, count - 1 - i)
    BY <1>2, <2>1, Zenon
  <2>3. \A i \in 0..(count - 1) : count - 1 - i \in 0..(count - 1) /\ count - 1 - (count - 1 - i) = i
    OBVIOUS
  <2>4. \A i \in 0..(count - 1) : W[count - 1 - i] = Digit(v, ByteBits, count - 1 - i)
    BY <2>2, <2>3, Zenon
  <2>5. \A i \in 0..(count - 1) : B[count - 1 - i] = Digit(v, ByteBits, i)
    <3> TAKE i \in 0..(count - 1)
    <3>1. B[count - 1 - i] = Digit(v, ByteBits, count - 1 - (count - 1 - i))
      BY <2>2, <2>3, Zenon
    <3> QED
      BY <2>3, <3>1, Zenon
  <2>6. Back(W) = B
    <3>1. Back(W) = [i \in 0..(count - 1) |-> Digit(v, ByteBits, count - 1 - i)]
      BY <2>4, Zenon
    <3> QED
      BY <1>2, <2>1, <3>1, Zenon
  <2>7. Back(B) = W
    <3>1. Back(B) = [i \in 0..(count - 1) |-> Digit(v, ByteBits, i)]
      BY <2>5, Zenon
    <3> QED
      BY <1>2, <2>1, <3>1, Zenon
  <2> QED
    BY <2>1, <2>6, <2>7, Zenon
<1>4. ASSUME NEW a, Element(a), a.normalized
      PROVE  fe_get_b32(a) = BytesOf(Value(a.n))
  <2>1. a.n \in [Index -> Nat] /\ \A i \in Index : a.n[i] <= Mask(i)
    BY <1>4, ElementSize, Zenon
  <2>2. IsWidth(ByteBits)
    BY Widths
  <2>3. Regroup(a.n, Bits, ByteBits, BitLength \div ByteBits) = Words(Value(a.n), ByteBits)
    BY ONLY LimbsFit, <2>1, <2>2, LimbWords
  <2>4. fe_get_b32(a) = Back(Words(Value(a.n), ByteBits))
    BY <1>1, <2>3, Zenon DEF fe_get_b32
  <2> QED
    BY <1>3, <2>4, Zenon
<1>5. ASSUME NEW v \in Nat, v < Power
      PROVE  LET r == fe_set_b32(BytesOf(v))
             IN /\ r.n \in [Index -> Nat] /\ (\A i \in Index : r.n[i] <= Mask(i))
                /\ Value(r.n) = v /\ (r.ret <=> v < Prime)
  <2>1. PICK n : n = [i \in Index |-> Digit(v, Bits, i)]
    BY Zenon
  <2>2. ToLimbs(Words(v, ByteBits), ByteBits) = n
    BY <1>5, <2>1, Widths, WordLimbs
  <2>3. n \in [Index -> Nat] /\ (\A i \in Index : n[i] <= Mask(i)) /\ Value(n) = v
    BY ONLY LimbsFit, <1>5, <2>1, DigitLimbs
  <2>4. fe_set_b32(BytesOf(v)) = [ret |-> ~AtLeastP(n), n |-> n]
    <3>1. ToLimbs(Back(BytesOf(v)), ByteBits) = n
      BY <1>3, <2>2, Zenon
    <3>2. fe_set_b32(BytesOf(v)) = [ret |-> ~AtLeastP(ToLimbs(Back(BytesOf(v)), ByteBits)),
                                    n |-> ToLimbs(Back(BytesOf(v)), ByteBits)]
      BY <1>1, Zenon DEF fe_set_b32
    <3> QED
      BY <3>1, <3>2, Zenon
  <2>5. AtLeastP(n) <=> Value(n) >= Prime
    BY ONLY LimbsFit, <2>3, AtLeastPRight
  <2>6. Prime \in Nat
    BY PrimeSize
  <2>7. ~AtLeastP(n) <=> v < Prime
    BY <1>5, <2>3, <2>5, <2>6
  <2>8. PICK r : r = [ret |-> ~AtLeastP(n), n |-> n]
    BY Zenon
  <2>9. r.n = n /\ r.ret = ~AtLeastP(n)
    BY <2>8
  <2> QED
    BY <2>3, <2>4, <2>7, <2>8, <2>9, Zenon
<1> QED
  BY <1>4, <1>5, Zenon

-----------------------------------------------------------------------------
(* The layouts of the program.                                             *)

\* The powers of two of the layouts.
LEMMA Powers ==
    /\ 2^4 = 16 /\ 2^22 = 64 * 65536 /\ 2^26 = 1024 * 65536 /\ 2^32 = 65536 * 65536
    /\ 2^48 = 65536 * 2^32 /\ 2^52 = (16 * 65536) * 2^32 /\ 2^64 = 2^32 * 2^32
<1>1. ASSUME NEW n \in Nat, NEW m \in Nat
      PROVE  2^(n + m) = 2^n * 2^m
  BY PowerSum
<1>2. 2^1 = 2 /\ 2^2 = 4 /\ 2^4 = 16
  <2>1. 2^0 = 1 /\ 2^(0 + 1) = 2 * 2^0
    BY PowerZero, PowerNext
  <2>2. 2^(1 + 1) = 2^1 * 2^1
    BY <1>1
  <2>3. 2^(2 + 2) = 2^2 * 2^2
    BY <1>1
  <2> QED
    BY <2>1, <2>2, <2>3
<1>3. 2^6 = 64 /\ 2^10 = 1024
  <2>1. 2^(4 + 2) = 2^4 * 2^2 /\ 2^(6 + 4) = 2^6 * 2^4
    BY <1>1
  <2> QED
    BY <1>2, <2>1
<1>4. 2^16 = 65536
  <2>1. 2^(10 + 6) = 2^10 * 2^6
    BY <1>1
  <2> QED
    BY <1>3, <2>1, SMT
<1>5. 2^22 = 64 * 65536 /\ 2^26 = 1024 * 65536 /\ 2^32 = 65536 * 65536
  <2>1. 2^(16 + 6) = 2^16 * 2^6 /\ 2^(16 + 10) = 2^16 * 2^10 /\ 2^(16 + 16) = 2^16 * 2^16
    BY <1>1
  <2> QED
    BY <1>3, <1>4, <2>1, SMT
<1>6. 2^20 = 16 * 65536
  <2>1. 2^(16 + 4) = 2^16 * 2^4
    BY <1>1
  <2> QED
    BY <1>2, <1>4, <2>1, SMT
<1>7. 2^48 = 2^16 * 2^32 /\ 2^52 = 2^20 * 2^32 /\ 2^64 = 2^32 * 2^32
  <2>1. 2^(16 + 32) = 2^16 * 2^32
    BY <1>1, Zenon
  <2>2. 2^(20 + 32) = 2^20 * 2^32
    BY <1>1, Zenon
  <2>3. 2^(32 + 32) = 2^32 * 2^32
    BY <1>1, Zenon
  <2> QED
    BY ONLY <2>1, <2>2, <2>3, SMT
<1> QED
  BY ONLY <1>2, <1>4, <1>5, <1>6, <1>7, SMT

\* Five limbs of 52 bits, field_5x52.h: the layout has the sizes that the theorems
\* ask for, those of the products included.
THEOREM Layout5x52 ==
    ASSUME L = 5, Bits = 52, Slack = 4, C = <<2^32 + 977>>, Word = 64, Store = 64, ByteBits = 8,
           MaxMagnitude = 2048, MulMagnitude = 8
    PROVE  LimbsFit /\ ProductsFit
<1>1. PICK x \in Nat : x = 2^32
  BY PowerPositive
<1>2. x = 65536 * 65536
  BY <1>1, Powers, SMT
<1>3. M1 = (16 * 65536) * x /\ Top1 = 65536 * x /\ 2^Word = x * x /\ 2^Slack = 16
  <2>1. Bits - Slack = 48
    OBVIOUS
  <2> QED
    BY <1>1, <2>1, Powers, SMT DEF M1, Top1
<1>4. Len(C) = 1 /\ C[1] = x + 977
  BY <1>1, SMT
<1>5. (L * Bits - Slack) = 256 /\ (256 % 64) = 0 /\ (256 % 8) = 0 /\ 5 \div 5 = 1
  BY SMT
<1>6. \A i \in 1..Len(C) : C[i] \in 1..(M1 - 1) /\ C[i] * (MaxMagnitude + 1) < M1
  <2> TAKE i \in 1..Len(C)
  <2>1. x + 977 \in 1..((16 * 65536) * x - 1) /\ (x + 977) * 2049 < (16 * 65536) * x
    <3>1. x >= 65536
      BY ONLY <1>2, x \in Nat, SMT
    <3>2. (16 * 65536) * x >= 3000 * x
      BY ONLY x \in Nat, SMT
    <3>3. (x + 977) * 2049 = 2049 * x + 977 * 2049
      BY ONLY x \in Nat, SMT
    <3>4. x + 977 <= (x + 977) * 2049
      BY ONLY x \in Nat, SMT
    <3>5. 977 * 2049 < 900 * 65536
      BY SMT
    <3>6. (16 * 65536) * x \in Nat
      BY ONLY x \in Nat, SMT
    <3> QED
      BY ONLY <3>1, <3>2, <3>3, <3>4, <3>5, <3>6, x \in Nat, SMT
  <2>2. i = 1 /\ MaxMagnitude + 1 = 2049
    BY <1>4, SMT
  <2>3. C[i] = x + 977
    BY ONLY <1>4, <2>2, SMT
  <2> QED
    BY ONLY <1>3, <2>1, <2>2, <2>3, SMT
<1>7. LimbsFit
  <2>1. {Bits, Slack, Word} \subseteq Nat /\ {Store, ByteBits} \subseteq Nat \ {0}
    BY SMT
  <2>2. {MaxMagnitude, MulMagnitude} \subseteq Nat \ {0} /\ MulMagnitude <= MaxMagnitude
    BY SMT
  <2>3. L \in {5, 10} /\ Len(C) = L \div 5 /\ Slack < Bits /\ Bits < Word
    BY <1>4, <1>5, SMT
  <2>4. (L * Bits - Slack) % Store = 0 /\ (L * Bits - Slack) % ByteBits = 0
    BY <1>5, SMT
  <2>5. 2 * MaxMagnitude * M1 <= 2^Word /\ 8 * MaxMagnitude <= Top1
    BY <1>2, <1>3, SMT
  <2> QED
    BY ONLY <1>6, <2>1, <2>2, <2>3, <2>4, <2>5 DEF LimbsFit
<1>8. ProductsFit
  <2>1. Factor = 16
    BY SMT DEF Factor
  <2>2. 8 * (16 * 16) * M1 <= 2^Word
    BY <1>2, <1>3, SMT
  <2>3. 6 * (16 * 16) * (C[1] * 2^Slack) <= M1
    BY <1>2, <1>3, <1>4, SMT
  <2>4. 2 * (8 * (16 * 16) + 1) <= Top1
    BY <1>2, <1>3, SMT
  <2> QED
    BY ONLY <2>1, <2>2, <2>3, <2>4, SMT DEF ProductsFit
<1> QED
  BY <1>7, <1>8

\* Ten limbs of 26 bits, field_10x26.h: the same, with the sizes of its products.
THEOREM Layout10x26 ==
    ASSUME L = 10, Bits = 26, Slack = 4, C = <<977, 64>>, Word = 32, Store = 32, ByteBits = 8,
           MaxMagnitude = 32, MulMagnitude = 8
    PROVE  LimbsFit /\ Products10Fit
<1>1. M1 = 1024 * 65536 /\ Top1 = 64 * 65536 /\ 2^Word = 65536 * 65536
  <2>1. Bits - Slack = 22
    OBVIOUS
  <2> QED
    BY <2>1, Powers, SMT DEF M1, Top1
<1>2. Len(C) = 2 /\ C[1] = 977 /\ C[2] = 64
  BY SMT
<1>3. (L * Bits - Slack) = 256 /\ (256 % 32) = 0 /\ (256 % 8) = 0 /\ 10 \div 5 = 2
  BY SMT
<1>4. \A i \in 1..Len(C) : C[i] \in 1..(M1 - 1) /\ C[i] * (MaxMagnitude + 1) < M1
  <2> TAKE i \in 1..Len(C)
  <2>1. i = 1 \/ i = 2
    BY <1>2, SMT
  <2>2. C[i] = 977 \/ C[i] = 64
    BY ONLY <1>2, <2>1, SMT
  <2>3. M1 \in Nat /\ M1 - 1 >= 1000 /\ 33 * 977 < M1 /\ MaxMagnitude + 1 = 33
    BY <1>1, SMT
  <2> QED
    BY ONLY <2>2, <2>3, SMT
<1>5. {Bits, Slack, Word} \subseteq Nat /\ {Store, ByteBits} \subseteq Nat \ {0}
  BY SMT
<1>6. {MaxMagnitude, MulMagnitude} \subseteq Nat \ {0} /\ MulMagnitude <= MaxMagnitude
  BY SMT
<1>7. L \in {5, 10} /\ Len(C) = L \div 5 /\ Slack < Bits /\ Bits < Word
  BY <1>2, <1>3, SMT
<1>8. (L * Bits - Slack) % Store = 0 /\ (L * Bits - Slack) % ByteBits = 0
  BY <1>3, SMT
<1>9. 2 * MaxMagnitude * M1 <= 2^Word /\ 8 * MaxMagnitude <= Top1
  BY <1>1, SMT
<1>10. LimbsFit
  BY <1>4, <1>5, <1>6, <1>7, <1>8, <1>9, SMT DEF LimbsFit
<1>11. Products10Fit
  <2>1. Factor = 16
    BY SMT DEF Factor
  <2>2. 12 * (16 * 16) * (M1 * M1) <= 2^(2 * Word)
    <3>1. 2 * Word = 64
      BY SMT
    <3>2. 2^64 = (65536 * 65536) * (65536 * 65536)
      BY Powers, SMT
    <3> QED
      BY <1>1, <3>1, <3>2, SMT
  <2>3. 2^Slack = 16
    BY Powers, SMT
  <2>4. 16 * Top1 <= M1
    BY <1>1, SMT
  <2>5. 16 * (12 * (16 * 16) + (2 * C[1] + C[2]) * 16 + 1) <= M1
    BY <1>1, <1>2, SMT
  <2>6. (2 * C[2] * (16 * 16) + 1) * C[1] + 1 <= M1
    BY <1>1, <1>2, SMT
  <2>7. (2 * C[2] * (16 * 16) + 1) * C[2] + 3 <= M1
    BY <1>1, <1>2, SMT
  <2> QED
    BY ONLY <2>1, <2>2, <2>3, <2>4, <2>5, <2>6, <2>7, SMT DEF Products10Fit
<1> QED
  BY <1>10, <1>11

=============================================================================
