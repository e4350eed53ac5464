--------------------------- MODULE PointWalkProofs ---------------------------
(***************************************************************************)
(* Proofs about Ecmult and the walk of PointWalk.  The signed digits of    *)
(* secp256k1_ecmult_wnaf and the two splits of a scalar are right, for     *)
(* every group order, scalar, window and length; and the magnitudes of     *)
(* field elements stay within what the functions of the library check or   *)
(* rely on, whatever a point goes through and whatever the scalars, on     *)
(* every curve and for every window.                                       *)
(***************************************************************************)
EXTENDS PointWalk, NumberLemmas

-----------------------------------------------------------------------------
(* Digits and the places of a table.                                       *)

\* A digit that a table of len odd multiples has.
TablePlaces(len, digit) ==
    digit \in Int /\ digit % 2 = 1 /\ digit <= 2 * len - 1 /\ -digit <= 2 * len - 1

\* Where the entry of such a digit, or of its negative, stands.
LEMMA PlaceInTable ==
    ASSUME NEW len \in Nat, NEW digit, TablePlaces(len, digit)
    PROVE  /\ digit # 0
           /\ digit > 0 => (digit + 1) \div 2 \in 1..len
           /\ digit < 0 => (1 - digit) \div 2 \in 1..len
  BY DEF TablePlaces

-----------------------------------------------------------------------------
(* The scan of a scalar, from a position on.                               *)

\* How many bits a digit takes, the word they make with the carry, and the digit.
ScanWidth(len, w, bit) == IF w > len - bit THEN len - bit ELSE w

ScanWord(s, w, len, bit, carry) == scalar_get_bits(s, bit, ScanWidth(len, w, bit)) + carry

ScanDigit(s, w, len, negative, bit, carry) ==
    (IF negative THEN -1 ELSE 1)
        * (ScanWord(s, w, len, bit, carry) - wnaf_carry(ScanWord(s, w, len, bit, carry), w) * 2^w)

\* later and beyond are what follows when the bit is passed over, and when the
\* digit is taken off.
ScanBody(s, w, len, negative, bit, carry, later, beyond) ==
    IF bit = len THEN <<>>
    ELSE IF scalar_get_bits(s, bit, 1) = carry THEN later
    ELSE WithDigit(bit, ScanDigit(s, w, len, negative, bit, carry), beyond)

\* f is the scan of s, from position low on.
IsScan(f, s, w, len, negative, low) ==
    f = [bit \in low..len |-> [carry \in 0..1 |->
            ScanBody(s, w, len, negative, bit, carry, f[bit + 1][carry],
                     f[bit + ScanWidth(len, w, bit)]
                      [wnaf_carry(ScanWord(s, w, len, bit, carry), w)])]]

\* ecmult_wnaf is the scan from the lowest bit, without a carry.
LEMMA WnafIsScan ==
    ASSUME NEW len, NEW a, NEW w
    PROVE  LET negative == scalar_get_bits(a, Bits - 1, 1) = 1
               s == IF negative THEN scalar_negate(a, a) ELSE a
           IN ecmult_wnaf(len, a, w) = (CHOOSE f : IsScan(f, s, w, len, negative, 0))[0][0]
  BY SMTT(60) DEF ecmult_wnaf, IsScan, ScanBody, ScanDigit, ScanWord, ScanWidth

\* What a step reads and writes.
LEMMA ScanNumbers ==
    ASSUME NEW s \in Nat, NEW w \in Nat, w >= 2, NEW len \in Nat,
           NEW bit \in Nat, bit < len, NEW carry \in 0..1
    PROVE  /\ ScanWidth(len, w, bit) \in 1..w /\ bit + ScanWidth(len, w, bit) \in 0..len
           /\ ScanWord(s, w, len, bit, carry) \in 0..2^w
           /\ wnaf_carry(ScanWord(s, w, len, bit, carry), w) \in 0..1
<1> DEFINE now == ScanWidth(len, w, bit)
           word == ScanWord(s, w, len, bit, carry)
<1>1. now \in 1..w /\ bit + now \in 0..len
  BY DEF ScanWidth
<1>2. 2^bit \in Nat /\ 2^bit >= 1 /\ 2^now \in Nat /\ 2^now >= 1 /\ 2^now <= 2^w
      /\ 2^w \in Nat /\ 2^(w - 1) \in Nat /\ 2^(w - 1) >= 1
  BY <1>1, PowerPositive, PowerMonotone
<1>3. s \div 2^bit \in Int
  BY <1>2, Division
<1>4. ((s \div 2^bit) % 2^now) \in 0..(2^now - 1)
  BY <1>2, <1>3, Division
<1> HIDE DEF now
<1>5. word \in 0..2^w
  <2>1. word = ((s \div 2^bit) % 2^now) + carry
    BY DEF ScanWord, scalar_get_bits, now
  <2> HIDE DEF word
  <2> PICK r \in 0..(2^now - 1) : r = (s \div 2^bit) % 2^now
    BY <1>4
  <2> QED
    BY <1>2, <2>1
<1> HIDE DEF word
<1>6. wnaf_carry(word, w) \in 0..1
  <2>1. word \div 2^(w - 1) \in Int
    BY <1>2, <1>5, Division
  <2> QED
    BY <2>1 DEF wnaf_carry
<1> QED
  BY <1>1, <1>5, <1>6 DEF now, word

\* Where a step goes on.
Later(f, bit, carry) == f[bit + 1][carry]

Beyond(f, s, w, len, bit, carry) ==
    f[bit + ScanWidth(len, w, bit)][wnaf_carry(ScanWord(s, w, len, bit, carry), w)]

\* What the scan is at a position, by the positions above it.
LEMMA ScanStep ==
    ASSUME NEW f, NEW s, NEW w, NEW len, NEW negative, NEW low, IsScan(f, s, w, len, negative, low),
           NEW bit \in low..len, NEW carry \in 0..1
    PROVE  f[bit][carry] = ScanBody(s, w, len, negative, bit, carry, Later(f, bit, carry),
                                    Beyond(f, s, w, len, bit, carry))
  BY DEF IsScan, Later, Beyond

\* The scan exists: a digit takes a bit at least, so that it is read from the top.
LEMMA ScanExists ==
    ASSUME NEW s \in Nat, NEW w \in Nat, w >= 2, NEW len \in Nat, NEW negative
    PROVE  \E f : IsScan(f, s, w, len, negative, 0)
<1> DEFINE S == {n \in Nat : n <= len => \E f : IsScan(f, s, w, len, negative, len - n)}
           Body(bit, carry, p, q) == ScanBody(s, w, len, negative, bit, carry, p, q)
           Row(f, bit) == [carry \in 0..1 |->
               Body(bit, carry, Later(f, bit, carry), Beyond(f, s, w, len, bit, carry))]
<1>1. ASSUME NEW f, NEW low, f = [bit \in low..len |-> Row(f, bit)]
      PROVE  IsScan(f, s, w, len, negative, low)
  BY <1>1, Zenon DEF IsScan, Later, Beyond
<1>2. ASSUME NEW f, NEW low, IsScan(f, s, w, len, negative, low)
      PROVE  f = [bit \in low..len |-> Row(f, bit)]
  BY <1>2, Zenon DEF IsScan, Later, Beyond
<1>3. ASSUME NEW f, NEW g PROVE Row(f, len) = Row(g, len)
  BY DEF ScanBody
<1>4. ASSUME NEW f, NEW g, NEW low \in Nat, low < len, NEW bit \in low..(len - 1),
             \A i \in (low + 1)..len : f[i] = g[i]
      PROVE  Row(f, bit) = Row(g, bit)
  <2>1. ASSUME NEW carry \in 0..1
        PROVE  /\ Later(f, bit, carry) = Later(g, bit, carry)
               /\ Beyond(f, s, w, len, bit, carry) = Beyond(g, s, w, len, bit, carry)
    <3>1. /\ bit \in Nat /\ bit < len /\ bit + 1 \in (low + 1)..len
      BY <1>4
    <3>2. /\ ScanWidth(len, w, bit) \in 1..w /\ bit + ScanWidth(len, w, bit) \in 0..len
      BY <3>1, ScanNumbers
    <3>3. bit + ScanWidth(len, w, bit) \in (low + 1)..len
      BY <1>4, <3>1, <3>2
    <3> QED
      BY <1>4, <3>1, <3>3, Zenon DEF Later, Beyond
  <2> HIDE DEF Body
  <2> QED
    BY <2>1
<1>5. 0 \in S
  <2> DEFINE f == [bit \in (len - 0)..len |-> Row(<<>>, len)]
  <2>1. ASSUME NEW bit \in (len - 0)..len
        PROVE  bit = len /\ Row(f, bit) = Row(<<>>, len)
    <3>1. bit = len
      OBVIOUS
    <3> HIDE DEF f, Row
    <3> QED
      BY <1>3, <3>1, Zenon
  <2> HIDE DEF Row
  <2>2. f = [bit \in (len - 0)..len |-> Row(f, bit)]
    BY <2>1, Zenon
  <2> HIDE DEF f
  <2>3. IsScan(f, s, w, len, negative, len - 0)
    BY <1>1, <2>2
  <2> QED
    BY <2>3
<1> HIDE DEF Row
<1>6. ASSUME NEW n \in Nat, n \in S
      PROVE  n + 1 \in S
  <2> SUFFICES ASSUME n + 1 <= len
               PROVE  \E f : IsScan(f, s, w, len, negative, len - (n + 1))
    OBVIOUS
  <2>1. PICK f : IsScan(f, s, w, len, negative, len - n)
    BY <1>6
  <2> DEFINE low == len - (n + 1)
             h == [bit \in low..len |-> IF bit = low THEN Row(f, bit) ELSE f[bit]]
  <2>2. low \in Nat /\ low < len /\ len - n = low + 1
    OBVIOUS
  <2> HIDE DEF low
  <2>3. \A bit \in (low + 1)..len : h[bit] = f[bit] /\ f[bit] = h[bit]
    BY <2>2
  <2>4. h[low] = Row(f, low)
    BY <2>2
  <2>5. ASSUME NEW bit \in low..(len - 1)
        PROVE  Row(h, bit) = Row(f, bit)
    <3> HIDE DEF h
    <3> QED
      BY <1>4, <2>2, <2>3
  <2>6. ASSUME NEW bit \in low..len
        PROVE  h[bit] = Row(h, bit)
    <3> HIDE DEF h
    <3>1. CASE bit = low
      <4>1. bit \in low..(len - 1)
        BY <2>2, <3>1
      <4> QED
        BY <2>4, <2>5, <3>1, <4>1
    <3>2. CASE bit # low
      <4>1. bit \in (low + 1)..len /\ (bit = len \/ bit \in low..(len - 1))
        BY <2>2, <3>2
      <4>2. f = [i \in (low + 1)..len |-> Row(f, i)]
        BY <1>2, <2>1, <2>2
      <4>3. h[bit] = Row(f, bit)
        BY <2>3, <4>1, <4>2
      <4> QED
        BY <1>3, <2>5, <4>1, <4>3
    <3> QED
      BY <3>1, <3>2
  <2>7. h = [bit \in low..len |-> Row(h, bit)]
    <3>1. h = [bit \in low..len |-> h[bit]]
      OBVIOUS
    <3> HIDE DEF h
    <3> QED
      BY <2>6, <3>1
  <2>8. IsScan(h, s, w, len, negative, low)
    <3> HIDE DEF h
    <3> QED
      BY <1>1, <2>7
  <2> HIDE DEF h
  <2> QED
    BY <2>8 DEF low
<1>7. Nat \subseteq S
  <2> HIDE DEF S
  <2> QED
    BY <1>5, <1>6, SetInduction
<1>8. len \in S /\ len - len = 0
  BY <1>7
<1> QED
  BY <1>8

\* A digit is taken off where the number that is left is odd.
LEMMA ScanDigitPlace ==
    ASSUME NEW s \in Nat, NEW w \in Nat, w >= 2, NEW len \in Nat,
           NEW bit \in Nat, bit < len, NEW carry \in 0..1, NEW negative,
           scalar_get_bits(s, bit, 1) # carry
    PROVE  TablePlaces(2^(w - 2), ScanDigit(s, w, len, negative, bit, carry))
<1> DEFINE now == ScanWidth(len, w, bit)
           word == ScanWord(s, w, len, bit, carry)
           up == wnaf_carry(word, w)
<1>1. now \in 1..w /\ word \in 0..2^w /\ up \in 0..1
  BY ScanNumbers
<1>2. /\ 2^bit \in Nat /\ 2^bit >= 1 /\ 2^now \in Nat /\ 2^(now - 1) \in Nat /\ 2^(now - 1) >= 1
      /\ 2^now = 2 * 2^(now - 1)
  <2>1. now \in Nat /\ now - 1 \in Nat /\ now - 1 + 1 = now
    BY <1>1
  <2> HIDE DEF now
  <2> QED
    BY <2>1, PowerPositive, PowerNext
<1>3. PICK h \in Nat : h >= 1 /\ 2^(w - 2) = h /\ 2^(w - 1) = 2 * h /\ 2^w = 4 * h
  <2>1. w - 2 \in Nat /\ w - 1 \in Nat /\ w - 2 + 1 = w - 1 /\ w - 1 + 1 = w
    OBVIOUS
  <2>2. 2^(w - 2) \in Nat /\ 2^(w - 2) >= 1 /\ 2^(w - 1) = 2 * 2^(w - 2) /\ 2^w = 2 * 2^(w - 1)
    BY <2>1, PowerPositive, PowerNext
  <2> QED
    BY <2>2
<1>4. PICK x \in Int : x = s \div 2^bit
  <2>1. s \div 2^bit \in Int
    BY <1>2, Division
  <2> QED
    BY <2>1
<1>5. word % 2 = 1
  <2>1. (x % 2) # carry /\ word = (x % 2^now) + carry
    <3>1. 2^1 = 2
      OBVIOUS
    <3> QED
      BY <1>4, <3>1 DEF scalar_get_bits, ScanWord
  <2>2. PICK k \in Int : x % 2^now = (x % 2) + k * 2
    <3>1. PICK b \in Nat : b = 2^(now - 1) /\ b >= 1 /\ 2^now = 2 * b
      BY <1>2
    <3>2. 2 \in Nat /\ 2 >= 1
      OBVIOUS
    <3>3. (x % (2 * b)) = (x % 2) + ((x \div 2) % b) * 2
      BY ONLY <3>1, <3>2, x \in Int, b \in Nat, ModSplit
    <3>4. PICK y \in Int : y = x \div 2
      OBVIOUS
    <3>5. (y % b) \in Int
      BY <3>1
    <3> QED
      BY <3>1, <3>3, <3>4, <3>5
  <2>3. (x % 2) \in 0..1
    OBVIOUS
  <2>4. word = 1 + 2 * k
    BY <2>1, <2>2, <2>3
  <2> HIDE DEF word
  <2> QED
    BY <2>4
<1>6. up = (word \div (2 * h)) % 2 /\ word \in 0..(4 * h)
  BY <1>1, <1>3 DEF wnaf_carry
<1> PICK v \in Int, u \in 0..1 : v = word /\ u = up
  BY <1>1
<1>7. v % 2 = 1 /\ v \in 0..(4 * h) /\ u = (v \div (2 * h)) % 2
  BY <1>5, <1>6
<1> HIDE DEF now, word, up
<1>8. PICK q \in Int, r \in 0..(2 * h - 1) : v = (2 * h) * q + r /\ q = v \div (2 * h)
  <2>1. 2 * h \in Nat /\ 2 * h >= 1
    BY <1>3
  <2> QED
    BY <2>1, Division
<1>9. v - u * (4 * h) <= 2 * h - 1 /\ u * (4 * h) - v <= 2 * h - 1
  <2>1. v # 2 * h /\ v # 4 * h
    BY <1>7
  <2>2. CASE v < 2 * h
    <3>1. q = 0
      <4>1. 2 * h \in Nat /\ 2 * h >= 1 /\ v \in 0..(2 * h - 1)
        BY <1>3, <1>7, <2>2
      <4> QED
        BY <1>8, <4>1, ModSmall
    <3> QED
      BY <1>7, <1>8, <2>2, <3>1
  <2>3. CASE v > 2 * h
    <3>1. q = 1
      <4>1. PICK m \in Nat, e \in Nat : m = 2 * h /\ m >= 1 /\ e \in 0..(m - 1) /\ v = m * 1 + e
        <5>1. 2 * h \in Nat /\ 2 * h >= 1 /\ v - 2 * h \in 0..(2 * h - 1)
          BY <1>3, <1>7, <2>1, <2>3
        <5>2. v = (2 * h) * 1 + (v - 2 * h)
          BY <1>3
        <5> QED
          BY <5>1, <5>2
      <4>2. v \div m = 1
        BY ONLY <4>1, m \in Nat, v \in Int, 1 \in Int, DivisionUnique
      <4> QED
        BY <1>8, <4>1, <4>2
    <3>2. u = 1
      BY <1>7, <1>8, <3>1
    <3> QED
      BY <1>7, <2>1, <2>3, <3>2
  <2> QED
    BY <1>7, <2>1, <2>2, <2>3
<1>10. ScanDigit(s, w, len, negative, bit, carry) = (IF negative THEN -1 ELSE 1) * (v - u * (4 * h))
  BY <1>3 DEF ScanDigit, word, up
<1>11. PICK d \in Int : d = v - u * (4 * h)
  OBVIOUS
<1>12. d % 2 = 1 /\ (-d) % 2 = 1 /\ d <= 2 * h - 1 /\ -d <= 2 * h - 1
  <2>1. d = v - 2 * (u * (2 * h)) /\ u * (2 * h) \in Int
    BY <1>3, <1>11
  <2> PICK t \in Int : t = u * (2 * h)
    BY <2>1
  <2> QED
    BY <1>7, <1>9, <1>11, <2>1
<1>13. \/ ScanDigit(s, w, len, negative, bit, carry) = d
       \/ ScanDigit(s, w, len, negative, bit, carry) = -d
  BY <1>10, <1>11
<1> QED
  BY <1>3, <1>12, <1>13 DEF TablePlaces

\* Digits from a position on: odd and in the table, and far enough apart.
Placed(digits, len, w, bit) ==
    /\ \A i \in DOMAIN digits : i \in bit..(len - 1) /\ TablePlaces(2^(w - 2), digits[i])
    /\ \A i, j \in DOMAIN digits : i < j => j - i >= w

\* A digit put below others that start w places above it, or past the end.
LEMMA WithDigitPlaced ==
    ASSUME NEW len \in Nat, NEW w \in Nat, NEW bit \in Nat, bit < len, NEW next \in Nat,
           bit < next, next - bit >= w \/ next = len,
           NEW d, TablePlaces(2^(w - 2), d), NEW beyond, Placed(beyond, len, w, next)
    PROVE  Placed(WithDigit(bit, d, beyond), len, w, bit)
<1> DEFINE all == WithDigit(bit, d, beyond)
<1>1. DOMAIN all = {bit} \cup DOMAIN beyond
  BY Zenon DEF WithDigit
<1>2. \A i \in DOMAIN beyond : i \in next..(len - 1) /\ i # bit /\ i \in Int
  BY DEF Placed
<1>3. all[bit] = d /\ \A i \in DOMAIN beyond : all[i] = beyond[i]
  BY <1>2, Zenon DEF WithDigit
<1> HIDE DEF all
<1>4. ASSUME NEW i \in DOMAIN all
      PROVE  i \in bit..(len - 1) /\ TablePlaces(2^(w - 2), all[i])
  <2>1. CASE i = bit
    <3>1. bit \in bit..(len - 1)
      OBVIOUS
    <3> QED
      BY <1>3, <2>1, <3>1, Zenon
  <2>2. CASE i \in DOMAIN beyond
    <3>1. i \in bit..(len - 1)
      BY <1>2, <2>2
    <3> QED
      BY <1>3, <2>2, <3>1, Zenon DEF Placed
  <2> QED
    BY <1>1, <2>1, <2>2
<1>5. ASSUME NEW i \in DOMAIN all, NEW j \in DOMAIN all, i < j
      PROVE  j - i >= w
  <2>1. CASE i \in DOMAIN beyond /\ j \in DOMAIN beyond
    BY <1>5, <2>1 DEF Placed
  <2>2. CASE i = bit /\ j \in DOMAIN beyond
    BY <1>2, <2>2
  <2>3. CASE j = bit
    BY <1>1, <1>2, <1>5, <2>3
  <2> QED
    BY <1>1, <2>1, <2>2, <2>3
<1> QED
  BY <1>4, <1>5, Zenon DEF Placed, all

\* Every digit of a scan is in its table, within the length, and w places from the next.
LEMMA ScanPlaced ==
    ASSUME NEW s \in Nat, NEW w \in Nat, w >= 2, NEW len \in Nat, NEW negative,
           NEW f, IsScan(f, s, w, len, negative, 0)
    PROVE  \A bit \in 0..len, carry \in 0..1 : Placed(f[bit][carry], len, w, bit)
<1> DEFINE Good(bit) == \A carry \in 0..1 : Placed(f[bit][carry], len, w, bit)
           S == {n \in Nat : \A bit \in 0..len : bit >= len - n => Good(bit)}
<1>1. ASSUME NEW carry \in 0..1
      PROVE  f[len][carry] = <<>>
  <2>1. f[len][carry] = ScanBody(s, w, len, negative, len, carry, Later(f, len, carry),
                                 Beyond(f, s, w, len, len, carry))
    BY ScanStep
  <2> QED
    BY <2>1, Zenon DEF ScanBody
<1>2. Good(len)
  BY <1>1 DEF Placed
<1>3. 0 \in S
  BY <1>2
<1>4. ASSUME NEW n \in Nat, n \in S
      PROVE  n + 1 \in S
  <2> SUFFICES ASSUME NEW bit \in 0..len, bit = len - (n + 1)
               PROVE  Good(bit)
    BY <1>4
  <2> SUFFICES ASSUME NEW carry \in 0..1
               PROVE  Placed(f[bit][carry], len, w, bit)
    OBVIOUS
  <2> DEFINE now == ScanWidth(len, w, bit)
             up == wnaf_carry(ScanWord(s, w, len, bit, carry), w)
             d == ScanDigit(s, w, len, negative, bit, carry)
  <2>1. bit \in Nat /\ bit < len /\ bit + 1 \in 0..len /\ bit + 1 >= len - n
    OBVIOUS
  <2>2. now \in 1..w /\ bit + now \in 0..len /\ up \in 0..1
    BY <2>1, ScanNumbers
  <2>3. now = w \/ bit + now = len
    BY DEF ScanWidth
  <2>4. f[bit][carry] = IF scalar_get_bits(s, bit, 1) = carry THEN f[bit + 1][carry]
                        ELSE WithDigit(bit, d, f[bit + now][up])
    <3>1. f[bit][carry] = ScanBody(s, w, len, negative, bit, carry, Later(f, bit, carry),
                                   Beyond(f, s, w, len, bit, carry))
      BY ScanStep
    <3>2. bit # len
      BY <2>1
    <3> QED
      BY <3>1, <3>2, Zenon DEF ScanBody, Later, Beyond
  <2> HIDE DEF now, up, d
  <2>5. CASE scalar_get_bits(s, bit, 1) = carry
    <3>1. Placed(f[bit + 1][carry], len, w, bit + 1)
      BY <1>4, <2>1
    <3>2. Placed(f[bit + 1][carry], len, w, bit)
      BY <2>1, <3>1 DEF Placed
    <3> QED
      BY <2>4, <2>5, <3>2, Zenon
  <2>6. CASE scalar_get_bits(s, bit, 1) # carry
    <3>1. bit + now >= len - n /\ bit + now \in Nat /\ bit < bit + now
          /\ (bit + now - bit >= w \/ bit + now = len)
      BY <2>1, <2>2, <2>3
    <3>2. Placed(f[bit + now][up], len, w, bit + now)
      BY <1>4, <2>2, <3>1
    <3>3. TablePlaces(2^(w - 2), d)
      BY <2>1, <2>6, ScanDigitPlace DEF d
    <3>4. Placed(WithDigit(bit, d, f[bit + now][up]), len, w, bit)
      <4> PICK next, beyond : next \in Nat /\ next = bit + now /\ beyond = f[bit + now][up]
        BY <3>1
      <4>1. /\ next \in Nat /\ bit < next /\ (next - bit >= w \/ next = len)
            /\ Placed(beyond, len, w, next)
        <5>1. Placed(beyond, len, w, next)
          BY <3>2, Zenon
        <5> QED
          BY <2>2, <2>3, <3>1, <5>1
      <4>2. Placed(WithDigit(bit, d, beyond), len, w, bit)
        BY ONLY <2>1, <3>3, <4>1, w \in Nat, len \in Nat, WithDigitPlaced
      <4> QED
        BY <4>2
    <3> QED
      BY <2>4, <2>6, <3>4, Zenon
  <2> QED
    BY <2>5, <2>6
<1>5. Nat \subseteq S
  <2> HIDE DEF S
  <2> QED
    BY <1>3, <1>4, SetInduction
<1>6. ASSUME NEW bit \in 0..len PROVE Good(bit)
  <2>1. len \in S
    BY <1>5
  <2> QED
    BY <2>1
<1> QED
  BY <1>6, Zenon

-----------------------------------------------------------------------------
(* What digits add up to.                                                  *)

\* What a place adds to the sum.
Term(digits, k) == IF k \in DOMAIN digits THEN digits[k] * 2^k ELSE 0

\* f sums the terms up, as a function and by its cells.
IsDigitSum(f, digits, len) ==
    f = [i \in 0..len |-> IF i = 0 THEN 0 ELSE f[i - 1] + Term(digits, i - 1)]

Sums(f, digits, len) ==
    /\ f \in [0..len -> Int] /\ f[0] = 0
    /\ \A i \in 1..len : f[i] = f[i - 1] + Term(digits, i - 1)

\* Digits are integers, at positions from bit on.
DigitsFrom(digits, bit) == \A i \in DOMAIN digits : i \in Nat /\ i >= bit /\ digits[i] \in Int

\* A term is an integer.
LEMMA TermInt ==
    ASSUME NEW digits, DigitsFrom(digits, 0), NEW k \in Int
    PROVE  Term(digits, k) \in Int
<1>1. CASE k \in DOMAIN digits
  <2>1. k \in Nat /\ digits[k] \in Int
    BY <1>1 DEF DigitsFrom
  <2>2. 2^k \in Nat
    BY <2>1, PowerPositive
  <2>3. digits[k] * 2^k \in Int
    BY <2>1, <2>2
  <2> QED
    BY <1>1, <2>3, Zenon DEF Term
<1>2. CASE k \notin DOMAIN digits
  BY <1>2 DEF Term
<1> QED
  BY <1>1, <1>2

\* The sums exist, and DigitSum is the last of them.
LEMMA DigitSumExists ==
    ASSUME NEW len \in Nat, NEW digits, DigitsFrom(digits, 0)
    PROVE  \E f : Sums(f, digits, len) /\ DigitSum(digits, len) = f[len]
<1> DEFINE G == [p \in Nat \X Int |-> p[2] + Term(digits, p[1] - 1)]
<1>1. G \in [Nat \X Int -> Int]
  BY TermInt
<1>2. \E f \in [0..len -> Int] : f[0] = 0 /\ \A k \in 1..len : f[k] = G[<<k, f[k - 1]>>]
  <2> HIDE DEF G
  <2>1. 0 \in Int
    OBVIOUS
  <2> QED
    BY <1>1, <2>1, RecursionExists, Zenon
<1>3. PICK f \in [0..len -> Int] : f[0] = 0 /\ \A k \in 1..len : f[k] = G[<<k, f[k - 1]>>]
  BY <1>2
<1>4. ASSUME NEW k \in 1..len PROVE f[k] = f[k - 1] + Term(digits, k - 1)
  <2>1. k \in Nat /\ k - 1 \in 0..len /\ f[k - 1] \in Int
    OBVIOUS
  <2>2. G[<<k, f[k - 1]>>] = f[k - 1] + Term(digits, k - 1)
    BY <2>1
  <2> HIDE DEF G
  <2> QED
    BY <1>3, <2>2
<1> HIDE DEF G
<1>5. IsDigitSum(f, digits, len)
  <2>1. ASSUME NEW i \in 0..len
        PROVE  f[i] = IF i = 0 THEN 0 ELSE f[i - 1] + Term(digits, i - 1)
    BY <1>3, <1>4
  <2>2. f = [i \in 0..len |-> f[i]]
    OBVIOUS
  <2> QED
    BY <2>1, <2>2 DEF IsDigitSum
<1>6. PICK g : IsDigitSum(g, digits, len) /\ DigitSum(digits, len) = g[len]
  <2> DEFINE g == CHOOSE g : IsDigitSum(g, digits, len)
  <2>1. IsDigitSum(g, digits, len)
    BY <1>5, Zenon
  <2>2. DigitSum(digits, len) = g[len]
    BY Zenon DEF DigitSum, IsDigitSum, Term
  <2> HIDE DEF g
  <2> QED
    BY <2>1, <2>2
<1>7. g[len] = f[len]
  <2> DEFINE S == {n \in Nat : n <= len => g[n] = f[n]}
  <2>1. 0 \in S
    BY <1>3, <1>6 DEF IsDigitSum
  <2>2. ASSUME NEW n \in Nat, n \in S PROVE n + 1 \in S
    <3> SUFFICES ASSUME n + 1 <= len PROVE g[n + 1] = f[n + 1]
      OBVIOUS
    <3>1. n + 1 \in 1..len /\ n + 1 \in 0..len /\ n + 1 # 0 /\ n + 1 - 1 = n
      OBVIOUS
    <3>2. g[n + 1] = g[n] + Term(digits, n)
      BY <1>6, <3>1 DEF IsDigitSum
    <3>3. f[n + 1] = f[n] + Term(digits, n)
      BY <1>4, <3>1
    <3> QED
      BY <2>2, <3>2, <3>3
  <2>3. Nat \subseteq S
    <3> HIDE DEF S
    <3> QED
      BY <2>1, <2>2, SetInduction
  <2> QED
    BY <2>3
<1>8. Sums(f, digits, len)
  BY <1>3, <1>4, Zenon DEF Sums
<1> QED
  BY <1>6, <1>7, <1>8

\* Positions from bit on are positions.
LEMMA DigitsFromZero ==
    ASSUME NEW digits, NEW bit \in Nat, DigitsFrom(digits, bit)
    PROVE  DigitsFrom(digits, 0)
  BY DEF DigitsFrom

\* Nothing is added below the first digit.
LEMMA SumBelow ==
    ASSUME NEW len \in Nat, NEW digits, NEW bit \in 0..len, DigitsFrom(digits, bit),
           NEW f, Sums(f, digits, len)
    PROVE  f[bit] = 0
<1> DEFINE S == {n \in Nat : n <= bit => f[n] = 0}
<1>1. 0 \in S
  BY DEF Sums
<1>2. ASSUME NEW n \in Nat, n \in S PROVE n + 1 \in S
  <2> SUFFICES ASSUME n + 1 <= bit PROVE f[n + 1] = 0
    OBVIOUS
  <2>1. n + 1 \in 1..len /\ n + 1 - 1 = n /\ f[n] = 0
    BY <1>2
  <2>2. n \notin DOMAIN digits
    BY DEF DigitsFrom
  <2>3. f[n + 1] = f[n] + Term(digits, n)
    BY <2>1 DEF Sums
  <2> QED
    BY <2>1, <2>2, <2>3 DEF Term
<1>3. Nat \subseteq S
  <2> HIDE DEF S
  <2> QED
    BY <1>1, <1>2, SetInduction
<1> QED
  BY <1>3

\* No digits add up to zero.
LEMMA SumOfNone ==
    ASSUME NEW len \in Nat, NEW digits, DOMAIN digits = {}
    PROVE  DigitSum(digits, len) = 0
<1>1. DigitsFrom(digits, len) /\ DigitsFrom(digits, 0)
  BY DEF DigitsFrom
<1>2. PICK f : Sums(f, digits, len) /\ DigitSum(digits, len) = f[len]
  BY <1>1, DigitSumExists
<1>3. len \in 0..len
  OBVIOUS
<1>4. f[len] = 0
  BY <1>1, <1>2, <1>3, SumBelow, Zenon
<1> QED
  BY <1>2, <1>4

\* A digit below the others adds its own worth.
LEMMA SumWithDigit ==
    ASSUME NEW len \in Nat, NEW bit \in Nat, bit < len, NEW d \in Int,
           NEW beyond, DigitsFrom(beyond, bit + 1)
    PROVE  /\ DigitsFrom(WithDigit(bit, d, beyond), bit)
           /\ DigitSum(WithDigit(bit, d, beyond), len) = d * 2^bit + DigitSum(beyond, len)
           /\ DigitSum(beyond, len) \in Int
<1> DEFINE all == WithDigit(bit, d, beyond)
<1>1. DOMAIN all = {bit} \cup DOMAIN beyond
  BY Zenon DEF WithDigit
<1>2. ASSUME NEW i \in DOMAIN beyond PROVE i \in Nat /\ i >= bit + 1 /\ i # bit /\ beyond[i] \in Int
  BY DEF DigitsFrom
<1>3. all[bit] = d /\ \A i \in DOMAIN beyond : all[i] = beyond[i]
  BY <1>2, Zenon DEF WithDigit
<1> HIDE DEF all
<1>4. DigitsFrom(all, bit)
  BY <1>1, <1>2, <1>3 DEF DigitsFrom
<1>5. DigitsFrom(all, 0) /\ DigitsFrom(beyond, 0) /\ DigitsFrom(beyond, bit)
  BY <1>4 DEF DigitsFrom
<1>6. PICK f : Sums(f, all, len) /\ DigitSum(all, len) = f[len]
  BY <1>5, DigitSumExists
<1>7. PICK g : Sums(g, beyond, len) /\ DigitSum(beyond, len) = g[len]
  BY <1>5, DigitSumExists
<1>8. f[bit] = 0 /\ g[bit] = 0
  <2>1. bit \in 0..len
    OBVIOUS
  <2>2. f[bit] = 0
    BY <1>4, <1>6, <2>1, SumBelow, Zenon
  <2>3. g[bit] = 0
    BY <1>5, <1>7, <2>1, SumBelow, Zenon
  <2> QED
    BY <2>2, <2>3
<1>9. PICK t \in Int : t = d * 2^bit
  <2>1. 2^bit \in Nat
    BY PowerPositive
  <2> QED
    BY <2>1
<1> DEFINE S == {n \in Nat : n > bit /\ n <= len => f[n] = t + g[n]}
<1>10. 0 \in S
  OBVIOUS
<1>11. ASSUME NEW n \in Nat, n \in S PROVE n + 1 \in S
  <2> SUFFICES ASSUME n + 1 > bit, n + 1 <= len PROVE f[n + 1] = t + g[n + 1]
    OBVIOUS
  <2>1. n + 1 \in 1..len /\ n + 1 - 1 = n /\ n \in 0..len /\ f[n] \in Int /\ g[n] \in Int
    BY <1>6, <1>7 DEF Sums
  <2>2. f[n + 1] = f[n] + Term(all, n) /\ g[n + 1] = g[n] + Term(beyond, n)
    BY <1>6, <1>7, <2>1 DEF Sums
  <2>3. CASE n = bit
    <3>1. Term(all, n) = t
      BY <1>1, <1>3, <1>9, <2>3 DEF Term
    <3>2. Term(beyond, n) = 0
      BY <1>2, <2>3 DEF Term
    <3> QED
      BY <1>8, <2>2, <2>3, <3>1, <3>2
  <2>4. CASE n # bit
    <3>1. f[n] = t + g[n]
      BY <1>11, <2>4
    <3>2. Term(all, n) = Term(beyond, n)
      BY <1>1, <1>3, <2>4, Zenon DEF Term
    <3>3. Term(beyond, n) \in Int
      BY <1>5, TermInt
    <3> QED
      BY <2>1, <2>2, <3>1, <3>2, <3>3
  <2> QED
    BY <2>3, <2>4
<1>12. Nat \subseteq S
  <2> HIDE DEF S
  <2> QED
    BY <1>10, <1>11, SetInduction
<1>13. f[len] = t + g[len] /\ g[len] \in Int
  BY <1>7, <1>12 DEF Sums
<1> QED
  BY <1>4, <1>6, <1>7, <1>9, <1>13 DEF all

-----------------------------------------------------------------------------
(* What the scan adds up to.                                               *)

\* A quotient is a natural number.
LEMMA DivNat ==
    ASSUME NEW x \in Nat, NEW m \in Nat, m >= 1
    PROVE  x \div m \in Nat
<1>1. x \div m \in Int /\ (x % m) \in 0..(m - 1) /\ x = m * (x \div m) + (x % m)
  BY Division
<1> PICK q \in Int, r \in 0..(m - 1) : q = x \div m /\ x = m * q + r
  BY <1>1
<1>2. q >= 0
  BY MultipleGap
<1> QED
  BY <1>2

\* To divide by a product is to divide twice.
LEMMA DivTwice ==
    ASSUME NEW x \in Nat, NEW k \in Nat, k >= 1, NEW m \in Nat, m >= 1
    PROVE  x \div (k * m) = (x \div k) \div m
<1>1. x \in Int
  OBVIOUS
<1> QED
  BY ONLY <1>1, k \in Nat, k >= 1, m \in Nat, m >= 1, ModSplit

\* The number that is left fits what is left of the array.
Fits(v, len, bit) == IF bit = len THEN v = 0 ELSE v <= 2^(len - bit - 1)

\* The digits from a position on are worth the number that is left there, with
\* what is carried.
LEMMA ScanWorth ==
    ASSUME NEW s \in Nat, NEW w \in Nat, w >= 2, NEW len \in Nat, NEW negative,
           NEW f, IsScan(f, s, w, len, negative, 0)
    PROVE  \A bit \in 0..len, carry \in 0..1 :
               Fits(s \div 2^bit + carry, len, bit) =>
                   DigitSum(f[bit][carry], len)
                       = (IF negative THEN -1 ELSE 1) * (2^bit * (s \div 2^bit + carry))
<1> DEFINE sign == IF negative THEN -1 ELSE 1
           Worth(bit, carry) == sign * (2^bit * (s \div 2^bit + carry))
           Good(bit) == \A carry \in 0..1 :
               Fits(s \div 2^bit + carry, len, bit) =>
                   DigitSum(f[bit][carry], len) = Worth(bit, carry)
           S == {n \in Nat : \A bit \in 0..len : bit >= len - n => Good(bit)}
<1>1. sign \in {-1, 1}
  OBVIOUS
<1>2. Good(len)
  <2> SUFFICES ASSUME NEW carry \in 0..1, Fits(s \div 2^len + carry, len, len)
               PROVE  DigitSum(f[len][carry], len) = Worth(len, carry)
    OBVIOUS
  <2>1. f[len][carry] = ScanBody(s, w, len, negative, len, carry, Later(f, len, carry),
                                 Beyond(f, s, w, len, len, carry))
    BY ScanStep
  <2>2. f[len][carry] = <<>>
    BY <2>1, Zenon DEF ScanBody
  <2>3. DigitSum(f[len][carry], len) = 0
    BY <2>2, SumOfNone
  <2>4. s \div 2^len + carry = 0
    BY Zenon DEF Fits
  <2>5. 2^len \in Nat
    BY PowerPositive
  <2>6. Worth(len, carry) = sign * (2^len * 0)
    BY <2>4, Zenon
  <2>7. sign * (2^len * 0) = 0
    BY <1>1, <2>5
  <2> HIDE DEF Worth
  <2> QED
    BY <2>3, <2>6, <2>7
<1>3. 0 \in S
  <2> HIDE DEF Good
  <2> QED
    BY <1>2
<1> HIDE DEF sign
<1>4. ASSUME NEW n \in Nat, n \in S
      PROVE  n + 1 \in S
  <2> SUFFICES ASSUME NEW bit \in 0..len, bit = len - (n + 1)
               PROVE  Good(bit)
    BY <1>4
  <2> SUFFICES ASSUME NEW carry \in 0..1, Fits(s \div 2^bit + carry, len, bit)
               PROVE  DigitSum(f[bit][carry], len) = Worth(bit, carry)
    OBVIOUS
  <2> DEFINE now == ScanWidth(len, w, bit)
             word == ScanWord(s, w, len, bit, carry)
             up == wnaf_carry(word, w)
             d == ScanDigit(s, w, len, negative, bit, carry)
  <2>1. bit \in Nat /\ bit < len /\ bit + 1 \in 0..len /\ bit + 1 >= len - n
    OBVIOUS
  <2>2. now \in 1..w /\ bit + now \in 0..len /\ word \in 0..2^w /\ up \in 0..1
    BY <2>1, ScanNumbers
  <2>3. now = w \/ bit + now = len
    BY DEF ScanWidth
  <2>4. f[bit][carry] = IF scalar_get_bits(s, bit, 1) = carry THEN f[bit + 1][carry]
                        ELSE WithDigit(bit, d, f[bit + now][up])
    <3>1. f[bit][carry] = ScanBody(s, w, len, negative, bit, carry, Later(f, bit, carry),
                                   Beyond(f, s, w, len, bit, carry))
      BY ScanStep
    <3>2. bit # len
      BY <2>1
    <3> QED
      BY <3>1, <3>2, Zenon DEF ScanBody, Later, Beyond
  <2>5. PICK B \in Nat : B = 2^bit /\ B >= 1
    BY <2>1, PowerPositive
  <2>6. PICK x \in Nat : x = s \div B
    <3>1. s \div B \in Nat
      BY <2>5, DivNat
    <3> QED
      BY <3>1
  <2>7. PICK K \in Nat : K = 2^(len - bit - 1) /\ K >= 1 /\ x + carry <= K
    <3>1. len - bit - 1 \in Nat /\ bit # len
      BY <2>1
    <3>2. 2^(len - bit - 1) \in Nat /\ 2^(len - bit - 1) >= 1
      BY <3>1, PowerPositive
    <3>3. x + carry <= 2^(len - bit - 1)
      BY <2>5, <2>6, <3>1, Zenon DEF Fits
    <3> QED
      BY <3>2, <3>3
  <2>8. Worth(bit, carry) = sign * (B * (x + carry))
    BY <2>5, <2>6, Zenon
  <2>9. scalar_get_bits(s, bit, 1) = x % 2
    <3>1. 2^1 = 2
      OBVIOUS
    <3> QED
      BY <2>5, <2>6, <3>1 DEF scalar_get_bits
  <2>10. DigitsFrom(f[bit + 1][carry], bit + 1)
    <3>1. Placed(f[bit + 1][carry], len, w, bit + 1)
      BY <2>1, ScanPlaced
    <3> QED
      BY <2>1, <3>1 DEF Placed, DigitsFrom, TablePlaces
  <2> HIDE DEF now, word, up, d, Worth
  <2>11. CASE scalar_get_bits(s, bit, 1) = carry
    <3>1. PICK y \in Nat : y = x \div 2 /\ x = 2 * y + carry
      BY <2>9, <2>11
    <3>2. 2^(bit + 1) = 2 * B /\ s \div 2^(bit + 1) = y
      <4>1. 2^(bit + 1) = B * 2
        BY <2>1, <2>5, PowerNext
      <4>2. B * 2 = 2 * B
        OBVIOUS
      <4>3. s \div (B * 2) = (s \div B) \div 2
        <5>1. PICK m \in Nat : m >= 1 /\ m = 2
          OBVIOUS
        <5>2. s \div (B * m) = (s \div B) \div m
          <6>1. m >= 1
            BY <5>1
          <6> QED
            BY ONLY <2>5, <6>1, B \in Nat, m \in Nat, s \in Nat, DivTwice
        <5> QED
          BY <5>1, <5>2, Zenon
      <4>4. s \div 2^(bit + 1) = x \div 2
        BY <2>6, <4>1, <4>3, Zenon
      <4> QED
        BY <3>1, <4>1, <4>2, <4>4, Zenon
    <3>3. Fits(y + carry, len, bit + 1)
      <4>1. CASE bit + 1 = len
        <5>1. K = 1
          <6>1. len - bit - 1 = 0
            BY <4>1
          <6> QED
            BY <2>7, <6>1, PowerZero, Zenon
        <5> QED
          BY <2>7, <3>1, <4>1, <5>1 DEF Fits
      <4>2. CASE bit + 1 # len
        <5>1. len - (bit + 1) - 1 \in Nat /\ len - bit - 1 = len - (bit + 1) - 1 + 1
          BY <2>1, <4>2
        <5>2. K = 2 * 2^(len - (bit + 1) - 1)
          BY <2>7, <5>1, PowerNext
        <5>3. 2^(len - (bit + 1) - 1) \in Nat
          BY <5>1, PowerPositive
        <5>4. y + carry <= 2^(len - (bit + 1) - 1)
          BY <2>7, <3>1, <5>2, <5>3
        <5> QED
          BY <4>2, <5>4, Zenon DEF Fits
      <4> QED
        BY <4>1, <4>2
    <3>4. DigitSum(f[bit + 1][carry], len) = sign * ((2 * B) * (y + carry))
      <4>1. Good(bit + 1)
        BY <1>4, <2>1
      <4> QED
        BY <3>2, <3>3, <4>1, Zenon DEF Worth
    <3>5. (2 * B) * (y + carry) = B * (x + carry)
      BY <3>1
    <3> QED
      BY <2>4, <2>8, <2>11, <3>4, <3>5, Zenon
  <2>12. CASE scalar_get_bits(s, bit, 1) # carry
    <3>1. PICK N \in Nat, M \in Nat : N = 2^now /\ N >= 1 /\ M = 2^(bit + now) /\ M = B * N
      <4>1. now \in Nat
        BY <2>2
      <4>2. 2^now \in Nat /\ 2^now >= 1 /\ 2^(bit + now) = 2^bit * 2^now
        BY <2>1, <4>1, PowerPositive, PowerSum
      <4> QED
        BY <2>5, <4>2
    <3>2. PICK h \in Nat : h >= 1 /\ 2^(w - 2) = h /\ 2^(w - 1) = 2 * h /\ 2^w = 4 * h
      <4>1. w - 2 \in Nat /\ w - 1 \in Nat /\ w - 2 + 1 = w - 1 /\ w - 1 + 1 = w
        OBVIOUS
      <4>2. 2^(w - 2) \in Nat /\ 2^(w - 2) >= 1 /\ 2^(w - 1) = 2 * 2^(w - 2) /\ 2^w = 2 * 2^(w - 1)
        BY <4>1, PowerPositive, PowerNext
      <4> QED
        BY <4>2
    <3>3. PICK v \in Nat, u \in 0..1 : v = word /\ u = up
      BY <2>2
    <3>4. d = sign * (v - u * (4 * h)) /\ u = (v \div (2 * h)) % 2
      BY <3>2, <3>3 DEF d, up, word, sign, ScanDigit, wnaf_carry
    <3>5. PICK e \in Int : e = v - u * (4 * h) /\ d = sign * e
      BY <3>4
    <3>6. e % 2 = 1 /\ e <= 2 * h - 1 /\ -e <= 2 * h - 1
      <4>1. TablePlaces(h, d)
        BY <2>1, <2>12, <3>2, ScanDigitPlace DEF d
      <4> QED
        BY <1>1, <3>5, <4>1 DEF TablePlaces
    <3>7. PICK y \in Nat : y = x \div N /\ x + carry = N * y + v
      <4>1. v = (x % N) + carry
        BY ONLY <2>5, <2>6, <3>1, <3>3 DEF word, ScanWord, scalar_get_bits, now
      <4>2. x \div N \in Nat
        BY <3>1, DivNat, Zenon
      <4>3. x = N * (x \div N) + (x % N) /\ (x % N) \in 0..(N - 1)
        <5>1. x \in Int
          OBVIOUS
        <5> QED
          BY <3>1, <5>1, Division, Zenon
      <4> PICK y \in Nat, r \in 0..(N - 1) : y = x \div N /\ r = x % N
        BY <4>2, <4>3
      <4>4. x + carry = N * y + v
        BY <4>1, <4>3
      <4> QED
        BY <4>4
    <3>8. s \div M = y
      <4>1. s \div (B * N) = (s \div B) \div N
        BY ONLY <2>5, <3>1, B \in Nat, N \in Nat, s \in Nat, DivTwice
      <4> QED
        BY <2>6, <3>1, <3>7, <4>1, Zenon
    <3>9. Fits(y + u, len, bit + now) /\ (bit + now = len => y = 0 /\ u = 0)
      <4>1. v % 2 = 1
        <5>1. PICK t \in Int : t = u * (2 * h) /\ e = v - 2 * t
          BY <3>2, <3>5
        <5> QED
          BY <3>6, <5>1
      <4>2. CASE bit + now = len
        <5>1. N = 2 * K
          <6>1. len - bit - 1 \in Nat /\ now = len - bit - 1 + 1
            BY <2>1, <2>2, <4>2
          <6> QED
            BY <2>7, <3>1, <6>1, PowerNext
        <5>2. N <= 4 * h
          <6>1. now \in Nat /\ now <= w
            BY <2>2
          <6> QED
            BY <3>1, <3>2, <6>1, PowerMonotone
        <5>3. y = 0
          <6>1. N * y + v <= K
            BY <2>7, <3>7
          <6>2. y >= 1 => N * y >= N
            BY <3>1, MultipleGap
          <6> QED
            BY <2>7, <5>1, <6>1, <6>2
        <5>4. v < 2 * h
          BY <2>7, <3>7, <4>1, <5>1, <5>2, <5>3
        <5>5. u = 0
          <6>1. 2 * h \in Nat /\ 2 * h >= 1 /\ v \in 0..(2 * h - 1)
            BY <3>2, <5>4
          <6>2. v \div (2 * h) = 0
            BY <6>1, ModSmall
          <6>3. 0 % 2 = 0
            OBVIOUS
          <6> QED
            BY <3>4, <6>2, <6>3, Zenon
        <5> QED
          BY <4>2, <5>3, <5>5 DEF Fits
      <4>3. CASE bit + now # len
        <5>1. now = w /\ N = 4 * h
          BY <2>3, <3>1, <3>2, <4>3
        <5>2. PICK K2 \in Nat : K2 = 2^(len - (bit + now) - 1) /\ K = N * K2
          <6>1. len - (bit + now) - 1 \in Nat /\ now \in Nat
                /\ len - bit - 1 = now + (len - (bit + now) - 1)
            BY <2>1, <2>2, <4>3
          <6>2. 2^(len - (bit + now) - 1) \in Nat
            BY <6>1, PowerPositive
          <6>3. 2^(len - bit - 1) = 2^now * 2^(len - (bit + now) - 1)
            BY <6>1, PowerSum
          <6> QED
            BY <2>7, <3>1, <6>2, <6>3
        <5>3. u = 1 => v >= 1
          BY <4>1
        <5>4. y + u <= K2
          <6>1. N * y + v <= N * K2
            BY <2>7, <3>7, <5>2
          <6>2. PICK t \in Int : t = K2 - y /\ N * t >= v
            <7>1. N * (K2 - y) = N * K2 - N * y
              OBVIOUS
            <7> QED
              BY <6>1, <7>1
          <6>3. t <= -1 => N * t <= -N
            BY <3>1, MultipleGap
          <6>4. t >= 0 /\ (t = 0 => v = 0)
            BY <3>1, <6>2, <6>3
          <6> QED
            BY <5>3, <6>2, <6>4
        <5> QED
          BY <4>3, <5>2, <5>4, Zenon DEF Fits
      <4> QED
        BY <4>2, <4>3
    <3>10. DigitSum(f[bit + now][up], len) = sign * (M * (y + u))
      <4>1. Good(bit + now)
        BY <1>4, <2>1, <2>2
      <4> QED
        BY <2>2, <3>1, <3>3, <3>8, <3>9, <4>1, Zenon DEF Worth
    <3>11. DigitsFrom(f[bit + now][up], bit + 1) /\ d \in Int
      <4>1. Placed(f[bit + now][up], len, w, bit + now)
        BY <2>2, ScanPlaced
      <4>2. bit + now \in Nat /\ bit + now >= bit + 1
        BY <2>1, <2>2
      <4>3. DigitsFrom(f[bit + now][up], bit + 1)
        BY <2>1, <4>1, <4>2 DEF Placed, DigitsFrom, TablePlaces
      <4> QED
        BY <1>1, <3>5, <4>3
    <3>12. DigitSum(f[bit][carry], len) = d * B + sign * (M * (y + u))
      <4>1. DigitSum(WithDigit(bit, d, f[bit + now][up]), len)
                = d * 2^bit + DigitSum(f[bit + now][up], len)
        BY <2>1, <3>11, SumWithDigit
      <4> QED
        BY <2>4, <2>5, <2>12, <3>10, <4>1, Zenon
    <3>13. e * B + M * (y + u) = B * (x + carry)
      <4>1. N * u = u * (4 * h) /\ (now # w => y = 0 /\ u = 0)
        BY <2>3, <3>1, <3>2, <3>9
      <4>2. N * (y + u) = N * y + N * u
        OBVIOUS
      <4>3. e + N * (y + u) = x + carry
        BY <3>5, <3>7, <4>1, <4>2
      <4> PICK t \in Int : t = N * (y + u)
        OBVIOUS
      <4>4. M * (y + u) = B * t
        BY <3>1
      <4> QED
        BY <4>3, <4>4
    <3>14. d * B + sign * (M * (y + u)) = sign * (B * (x + carry))
      <4> PICK t \in Int : t = M * (y + u)
        OBVIOUS
      <4>1. sign * (e * B) + sign * t = sign * (e * B + t) /\ d * B = sign * (e * B)
        BY <1>1, <3>5
      <4> QED
        BY <3>13, <4>1
    <3> QED
      BY <2>8, <3>12, <3>14, Zenon
  <2> QED
    BY <2>11, <2>12
<1>5. Nat \subseteq S
  <2> HIDE DEF S
  <2> QED
    BY <1>3, <1>4, SetInduction
<1>6. ASSUME NEW bit \in 0..len PROVE Good(bit)
  <2>1. len \in S
    BY <1>5
  <2> HIDE DEF Good
  <2> QED
    BY <2>1
<1> QED
  BY <1>6, Zenon DEF sign

\* The number that a scalar stands for: the top bit says that it is negative.
SignedByTop(a) == IF scalar_get_bits(a, Bits - 1, 1) = 1 THEN a - Order ELSE a

\* The top bit of a scalar tells whether it is at least half the power of two.
LEMMA TopBit ==
    ASSUME NEW a \in Scalar
    PROVE  /\ scalar_get_bits(a, Bits - 1, 1) = 1 <=> a >= 2^(Bits - 1)
           /\ Bits - 1 \in Nat /\ 2^(Bits - 1) \in Nat /\ 2^(Bits - 1) >= 1
           /\ 2^Bits = 2 * 2^(Bits - 1)
<1>1. Bits - 1 \in Nat /\ Bits - 1 + 1 = Bits /\ Order \in Nat /\ Order < 2^Bits
  BY OrderAssumption
<1>2. PICK t \in Nat : t = 2^(Bits - 1) /\ t >= 1 /\ 2^Bits = 2 * t
  <2>1. 2^(Bits - 1) \in Nat /\ 2^(Bits - 1) >= 1
    BY <1>1, PowerPositive
  <2>2. 2^(Bits - 1 + 1) = 2 * 2^(Bits - 1)
    BY <1>1, PowerNext
  <2> QED
    BY <1>1, <2>1, <2>2
<1>3. a \in Nat /\ a < 2 * t
  BY <1>1, <1>2 DEF Scalar
<1>4. PICK q \in Int, r \in 0..(t - 1) : q = a \div t /\ a = t * q + r
  <2>1. a \div t \in Int /\ (a % t) \in 0..(t - 1) /\ a = t * (a \div t) + (a % t)
    <3>1. a \in Int /\ t >= 1
      BY <1>2, <1>3
    <3> QED
      BY ONLY <3>1, t \in Nat, Division
  <2> QED
    BY <2>1
<1>5. (a < t => q = 0) /\ (a >= t => q = 1)
  <2>1. q >= 0 /\ q <= 1
    <3>1. (q <= -1 => t * q <= -t) /\ (q - 2 >= 0 => t * (q - 2) >= 0)
      BY <1>2, MultipleGap
    <3>2. t * (q - 2) = t * q - 2 * t
      BY <1>2
    <3> QED
      BY <1>2, <1>3, <1>4, <3>1, <3>2
  <2> QED
    BY <1>2, <1>3, <1>4, <2>1
<1>6. scalar_get_bits(a, Bits - 1, 1) = q % 2
  <2>1. 2^1 = 2
    OBVIOUS
  <2> QED
    BY <1>2, <1>4, <2>1 DEF scalar_get_bits
<1>7. scalar_get_bits(a, Bits - 1, 1) = 1 <=> a >= t
  BY <1>2, <1>3, <1>5, <1>6
<1> QED
  BY <1>1, <1>2, <1>7

\* secp256k1_ecmult_wnaf writes, for every scalar, window and length, digits of
\* the number that the scalar stands for: they add up to it, are odd, smaller than
\* the window allows and at least a window apart.
THEOREM WnafRight ==
    ASSUME NEW a \in Scalar, NEW w \in Nat, w >= 2, NEW len \in Nat, len >= 1,
           SignedByTop(a) \in (-(2^(len - 1)))..2^(len - 1)
    PROVE  DigitsRight(ecmult_wnaf(len, a, w), SignedByTop(a), len, w)
<1> DEFINE negative == scalar_get_bits(a, Bits - 1, 1) = 1
           s == IF negative THEN scalar_negate(a, a) ELSE a
<1>1. Order \in Nat /\ a \in Nat /\ a < Order
  BY OrderAssumption DEF Scalar
<1>2. s \in Nat /\ (IF negative THEN -1 ELSE 1) * s = SignedByTop(a) /\ s <= 2^(len - 1)
  <2>1. len - 1 \in Nat /\ 2^(len - 1) \in Nat
    BY PowerPositive
  <2>2. CASE negative
    <3>1. a >= 1
      BY <2>2, TopBit, <1>1
    <3>2. s = Order - a
      BY <2>2, <3>1 DEF scalar_negate, scalar_is_zero
    <3>3. SignedByTop(a) = a - Order
      BY <2>2 DEF SignedByTop
    <3> QED
      BY <1>1, <2>1, <2>2, <3>2, <3>3
  <2>3. CASE ~negative
    BY <1>1, <2>1, <2>3 DEF SignedByTop
  <2> QED
    BY <2>2, <2>3
<1>3. ecmult_wnaf(len, a, w) = (CHOOSE f : IsScan(f, s, w, len, negative, 0))[0][0]
  BY WnafIsScan, Zenon
<1> HIDE DEF s, negative
<1>4. PICK f : IsScan(f, s, w, len, negative, 0) /\ ecmult_wnaf(len, a, w) = f[0][0]
  <2>1. \E f : IsScan(f, s, w, len, negative, 0)
    BY <1>2, ScanExists
  <2> DEFINE f == CHOOSE f : IsScan(f, s, w, len, negative, 0)
  <2>2. IsScan(f, s, w, len, negative, 0)
    BY <2>1, Zenon
  <2> QED
    BY <1>3, <2>2, Zenon
<1>5. 0 \in 0..len /\ 0 \in 0..1
  OBVIOUS
<1>6. Placed(f[0][0], len, w, 0)
  BY <1>2, <1>4, <1>5, ScanPlaced
<1>7. DigitSum(f[0][0], len) = SignedByTop(a)
  <2>1. s \div 2^0 + 0 = s
    BY <1>2, PowerZero
  <2>2. 2^0 * (s \div 2^0 + 0) = s
    BY <1>2, <2>1, PowerZero
  <2>3. Fits(s \div 2^0 + 0, len, 0)
    <3>1. len # 0 /\ len - 0 - 1 = len - 1
      OBVIOUS
    <3> QED
      BY <1>2, <2>1, <3>1, Zenon DEF Fits
  <2>4. DigitSum(f[0][0], len) = (IF negative THEN -1 ELSE 1) * (2^0 * (s \div 2^0 + 0))
    <3>1. \A bit \in 0..len, carry \in 0..1 :
               Fits(s \div 2^bit + carry, len, bit) =>
                   DigitSum(f[bit][carry], len)
                       = (IF negative THEN -1 ELSE 1) * (2^bit * (s \div 2^bit + carry))
      BY <1>2, <1>4, ScanWorth
    <3> QED
      BY <1>5, <2>3, <3>1, Zenon
  <2> QED
    BY <1>2, <2>2, <2>4, Zenon
<1>8. ASSUME NEW i \in DOMAIN f[0][0]
      PROVE  /\ i \in 0..(len - 1) /\ f[0][0][i] % 2 = 1
             /\ f[0][0][i] \in (1 - 2^(w - 1))..(2^(w - 1) - 1)
  <2>1. w - 2 \in Nat /\ w - 2 + 1 = w - 1
    OBVIOUS
  <2>2. 2^(w - 1) = 2 * 2^(w - 2) /\ 2^(w - 2) \in Nat
    BY <2>1, PowerNext, PowerPositive
  <2>3. TablePlaces(2^(w - 2), f[0][0][i]) /\ i \in 0..(len - 1)
    BY <1>6, Zenon DEF Placed
  <2> QED
    BY <2>2, <2>3 DEF TablePlaces
<1> QED
  BY <1>4, <1>6, <1>7, <1>8, Zenon DEF DigitsRight, Placed
-----------------------------------------------------------------------------
(* The parts of a scalar.                                                  *)

\* The parts that scalar_split_lambda leaves are short.
PartsShort ==
    \A a \in Scalar : Short(scalar_split_lambda(a).r1) /\ Short(scalar_split_lambda(a).r2)

\* The constants of the scalars are numbers, of these sizes.
LEMMA OrderSizes ==
    /\ Order \in Nat /\ Order >= 1 /\ Half \in Nat /\ Half >= 1 /\ Half <= Bits /\ Bits \in Nat
    /\ Order < 2^Bits /\ 2 * Order > 2^Bits /\ 2^Half \in Nat /\ 2^Half >= 1
    /\ lambda \in Nat /\ MinusLambda \in Nat /\ lambda = Order - MinusLambda
<1>1. Bits \in Nat /\ Half \in Nat /\ Half >= 1 /\ Half <= Bits /\ Order \in Nat
      /\ Order < 2^Bits /\ 2 * Order > 2^Bits
  BY OrderAssumption
<1>2. 2^Half \in Nat /\ 2^Half >= 1 /\ 2^Bits \in Nat /\ 2^Bits >= 1
  BY <1>1, PowerPositive
<1>3. MinusLambda \in 0..(Order - 1)
  BY LambdaAssumption, Zenon
<1> QED
  BY <1>1, <1>2, <1>3 DEF lambda

\* The parts and the top bit of a scalar have these sizes.
LEMMA HalfSizes == 2 * Half >= Bits /\ 2^(Bits - 1) + 2^Half <= Order
  BY HalfAssumption DEF HalvesFit

\* A remainder by the order is a scalar.
LEMMA RemainderScalar == \A x \in Int : (x % Order) \in Scalar
<1> SUFFICES ASSUME NEW x \in Int PROVE (x % Order) \in Scalar
  OBVIOUS
<1>1. Order \in Nat /\ Order >= 1
  BY OrderSizes
<1> QED
  BY <1>1, Division DEF Scalar

\* The top bit and half the order part the scalars the same way, where the
\* number is short.
LEMMA ShortSigned ==
    ASSUME NEW a \in Scalar, Short(a)
    PROVE  SignedByTop(a) = Signed(a)
<1>1. PICK t \in Nat : t = 2^(Bits - 1) /\ 2^Bits = 2 * t
  BY TopBit
<1>2. PICK h \in Nat : h = 2^Half
  BY OrderSizes
<1>3. Order \in Nat /\ a \in Nat /\ a < Order /\ Order < 2 * t /\ t + h <= Order
  BY <1>1, <1>2, OrderSizes, HalfSizes DEF Scalar
<1>4. Signed(a) >= -h
  BY <1>2 DEF Short
<1>5. scalar_get_bits(a, Bits - 1, 1) = 1 <=> a >= t
  BY <1>1, TopBit
<1>6. CASE a > Order \div 2
  <2>1. Signed(a) = a - Order
    BY <1>6 DEF Signed
  <2> QED
    BY <1>3, <1>4, <1>5, <2>1 DEF SignedByTop
<1>7. CASE ~(a > Order \div 2)
  <2>1. a < t
    BY <1>3, <1>7
  <2> QED
    BY <1>3, <1>5, <1>7, <2>1 DEF SignedByTop, Signed
<1> QED
  BY <1>6, <1>7

\* So a short part is recoded right, by its own sign.
LEMMA ShortRecoded ==
    ASSUME NEW a \in Scalar, Short(a), NEW w \in Nat, w >= 2,
           NEW len \in Nat, len >= Half + 1
    PROVE  DigitsRight(ecmult_wnaf(len, a, w), Signed(a), len, w)
<1>1. Half \in Nat /\ len - 1 \in Nat /\ Half <= len - 1 /\ len >= 1
  BY OrderSizes
<1>2. 2^Half <= 2^(len - 1) /\ 2^Half \in Nat /\ 2^(len - 1) \in Nat
  BY <1>1, PowerMonotone, PowerPositive
<1>3. SignedByTop(a) = Signed(a) /\ Signed(a) \in (-(2^Half))..2^Half
  BY ShortSigned DEF Short
<1>4. SignedByTop(a) \in (-(2^(len - 1)))..2^(len - 1)
  BY <1>2, <1>3
<1> QED
  BY <1>1, <1>3, <1>4, WnafRight

\* Half of the bits of a scalar are short.
LEMMA SmallShort ==
    ASSUME NEW a \in Nat, a <= 2^Half
    PROVE  a \in Scalar /\ Short(a)
<1>1. PICK t \in Nat : t = 2^(Bits - 1) /\ 2^Bits = 2 * t
  BY OrderSizes, TopBit, 0 \in Scalar DEF Scalar
<1>2. PICK h \in Nat : h = 2^Half
  BY OrderSizes
<1>3. Order \in Nat /\ Order < 2 * t /\ t + h <= Order
  BY <1>1, <1>2, OrderSizes, HalfSizes
<1>4. a <= Order \div 2 /\ a < Order
  BY <1>2, <1>3
<1>5. Signed(a) = a
  BY <1>3, <1>4 DEF Signed
<1> QED
  BY <1>2, <1>3, <1>4, <1>5 DEF Scalar, Short

\* The two halves of a scalar.
LEMMA HalvesRight ==
    ASSUME NEW a \in Scalar
    PROVE  LET pow == scalar_split_128(a)
           IN /\ pow.r1 + pow.r2 * 2^Half = a
              /\ pow.r1 \in Nat /\ pow.r1 <= 2^Half /\ pow.r2 \in Nat /\ pow.r2 <= 2^Half
<1>1. PICK h \in Nat : h = 2^Half /\ h >= 1
  BY OrderSizes
<1>2. a < h * h
  <2>1. 2^Bits <= 2^(Half + Half) /\ 2^(Half + Half) = h * h
    <3>1. Bits \in Nat /\ Half \in Nat /\ Half + Half \in Nat /\ Bits <= Half + Half
      BY OrderSizes, HalfSizes
    <3>2. 2^(Half + Half) = 2^Half * 2^Half
      BY <3>1, PowerSum
    <3> QED
      BY <1>1, <3>1, <3>2, PowerMonotone
  <2>2. 2^Bits \in Nat
    BY OrderSizes, PowerPositive
  <2> PICK hh \in Nat : hh = h * h
    OBVIOUS
  <2> QED
    BY <2>1, <2>2, OrderSizes DEF Scalar
<1>3. a \in Int /\ a >= 0
  BY OrderSizes DEF Scalar
<1>4. PICK q \in Int, r \in 0..(h - 1) : q = a \div h /\ r = a % h /\ a = h * q + r
  <2>1. a \div h \in Int /\ (a % h) \in 0..(h - 1) /\ a = h * (a \div h) + (a % h)
    BY ONLY <1>1, <1>3, h \in Nat, Division
  <2> QED
    BY <2>1
<1>5. q \in Nat /\ q <= h - 1
  <2>1. a < h * (h - 1 + 1) /\ h - 1 \in Int
    BY <1>2
  <2>2. a \div h \in Nat /\ a \div h <= h - 1
    BY ONLY <1>1, <1>3, <2>1, h \in Nat, DivBound
  <2> QED
    BY <1>4, <2>2
<1>6. scalar_split_128(a).r1 = r /\ scalar_split_128(a).r2 = q
  BY <1>1, <1>4 DEF scalar_split_128
<1>7. r + q * h = a
  BY <1>4
<1>8. r <= 2^Half /\ q <= 2^Half /\ r + q * 2^Half = a /\ r \in Nat
  BY <1>1, <1>5, <1>7
<1> QED
  BY <1>5, <1>6, <1>8, Zenon

\* scalar_mul_shift_var leaves a natural number.
LEMMA ShiftNat ==
    ASSUME NEW a \in Nat, NEW b \in Nat, NEW k \in Nat \ {0}
    PROVE  scalar_mul_shift_var(a, b, k) \in Nat
<1>1. 2^k \in Nat /\ 2^k >= 1 /\ 2^(k - 1) \in Nat /\ 2^(k - 1) >= 1 /\ a * b \in Nat
  BY PowerPositive
<1>2. (a * b) \div 2^k \in Nat /\ (a * b) \div 2^(k - 1) \in Nat
  BY <1>1, DivNat
<1> QED
  BY <1>2 DEF scalar_mul_shift_var

\* Whatever the constants, the parts of split_lambda add up to the scalar.
LEMMA LambdaParts ==
    ASSUME NEW a \in Scalar
    PROVE  LET lam == scalar_split_lambda(a)
           IN /\ lam.r1 \in Scalar /\ lam.r2 \in Scalar
              /\ (lam.r1 + lam.r2 * lambda) % Order = a
<1> DEFINE c1 == scalar_mul(scalar_mul_shift_var(a, G1, LambdaShift), MinusB1)
           c2 == scalar_mul(scalar_mul_shift_var(a, G2, LambdaShift), MinusB2)
<1>1. a \in Nat /\ a < Order /\ Order \in Nat /\ Order >= 1
  BY OrderSizes DEF Scalar
<1>2. G1 \in Nat /\ G2 \in Nat /\ LambdaShift \in Nat \ {0} /\ MinusB1 \in Int /\ MinusB2 \in Int
  <2>1. MinusB1 \in 0..(Order - 1) /\ MinusB2 \in 0..(Order - 1)
    BY LambdaAssumption, Zenon
  <2>2. G1 \in Nat /\ G2 \in Nat /\ LambdaShift \in Nat \ {0}
    BY LambdaAssumption, Zenon
  <2> QED
    BY <2>1, <2>2
<1>3. c1 \in Scalar /\ c2 \in Scalar
  <2>1. scalar_mul_shift_var(a, G1, LambdaShift) \in Nat /\ scalar_mul_shift_var(a, G2, LambdaShift) \in Nat
    BY <1>1, <1>2, ShiftNat
  <2> QED
    BY <1>2, <2>1, RemainderScalar DEF scalar_mul
<1> HIDE DEF c1, c2
<1>4. PICK r2 \in Scalar : r2 = scalar_add(c1, c2).r
  <2>1. (c1 + c2) % Order \in Scalar
    <3>1. c1 + c2 \in Int
      BY <1>3 DEF Scalar
    <3> QED
      BY <3>1, RemainderScalar
  <2>2. scalar_add(c1, c2).r = (c1 + c2) % Order
    BY Zenon DEF scalar_add
  <2> QED
    BY <2>1, <2>2
<1>5. PICK m \in Int : m = r2 * MinusLambda
  BY OrderSizes, <1>1 DEF Scalar
<1>6. (m % Order) \in Scalar /\ (m % Order) \in Int
  BY <1>5, RemainderScalar DEF Scalar
<1>7. PICK x \in Int : x = (m % Order) + a
  BY <1>6, <1>1
<1>8. PICK r1 \in Scalar : r1 = x % Order
  BY <1>7, RemainderScalar
<1>9. scalar_split_lambda(a) = [r1 |-> r1, r2 |-> r2]
  <2>1. scalar_add(scalar_mul(r2, MinusLambda), a).r = r1
    BY <1>5, <1>7, <1>8, Zenon DEF scalar_add, scalar_mul
  <2>2. scalar_split_lambda(a)
          = [r1 |-> scalar_add(scalar_mul(scalar_add(c1, c2).r, MinusLambda), a).r,
             r2 |-> scalar_add(c1, c2).r]
    BY Zenon DEF scalar_split_lambda, c1, c2
  <2> QED
    BY <1>4, <2>1, <2>2, Zenon
<1>10. PICK k \in Int : k = r2 * lambda
  BY OrderSizes, <1>1 DEF Scalar
<1>11. (r1 + k) % Order = a
  <2>1. ((x % Order) + k) % Order = (x + k) % Order
    BY ONLY <1>1, x \in Int, k \in Int, ModAdd
  <2>2. ((m % Order) + (a + k)) % Order = (m + (a + k)) % Order
    <3>1. a + k \in Int
      BY <1>1
    <3> QED
      BY ONLY <1>1, <3>1, m \in Int, ModAdd
  <2>3. m + (a + k) = a + Order * r2 /\ r2 \in Int
    <3>1. r2 \in Int
      BY <1>1 DEF Scalar
    <3>2. PICK l \in Int : l = MinusLambda /\ lambda = Order - l
      BY OrderSizes
    <3>3. m + k = Order * r2
      BY <1>1, <1>5, <1>10, <3>1, <3>2
    <3> QED
      BY <1>1, <3>1, <3>3
  <2>4. (a + Order * r2) % Order = a % Order
    <3>1. a \in Int
      BY <1>1
    <3> QED
      BY ONLY <1>1, <2>3, <3>1, ModShift
  <2>5. a % Order = a
    <3>1. a \in 0..(Order - 1)
      BY <1>1
    <3> QED
      BY ONLY <1>1, <3>1, ModSmall
  <2>6. x + k = (m % Order) + (a + k)
    BY <1>1, <1>6, <1>7
  <2> QED
    BY <1>8, <2>1, <2>2, <2>3, <2>4, <2>5, <2>6, Zenon
<1>12. scalar_split_lambda(a).r1 = r1 /\ scalar_split_lambda(a).r2 = r2
  BY <1>9
<1> QED
  BY <1>10, <1>11, <1>12, Zenon

\* The distance of k from the quotient a * b / order, times the order.
Off(k, a, b) == Order * k - a * b

\* scalar_mul_shift_var by a rounded quotient is as far from the quotient as the
\* two roundings make it.
LEMMA RoundedProduct ==
    ASSUME NEW g \in Nat, NEW b \in Nat, NEW shift \in Nat \ {0},
           Rounded(Order, shift, g, b), NEW a \in Scalar
    PROVE  LET k == scalar_mul_shift_var(a, g, shift)
               unit == 2^shift
           IN /\ k \in Nat /\ unit \in Nat /\ unit >= 1
              /\ 2 * unit * Off(k, a, b) <= Order * (unit + Order)
              /\ -(2 * unit * Off(k, a, b)) <= Order * (unit + Order)
<1>1. PICK n \in Nat : n = Order /\ n >= 1
  BY OrderSizes
<1>2. PICK u \in Nat : u >= 1 /\ u = 2^(shift - 1) /\ 2^shift = 2 * u
  <2>1. shift - 1 \in Nat /\ shift - 1 + 1 = shift
    OBVIOUS
  <2> QED
    BY <2>1, PowerPositive, PowerNext
<1>3. a \in Nat /\ a <= n - 1
  BY <1>1 DEF Scalar
<1>4. PICK p \in Nat : p = a * g
  BY <1>3
<1>5. PICK q \in Int, r \in 0..(u - 1) : q = p \div u /\ p = u * q + r
  <2>1. p \div u \in Int /\ (p % u) \in 0..(u - 1) /\ p = u * (p \div u) + (p % u)
    BY ONLY <1>2, u \in Nat, p \in Nat, p \in Int, Division
  <2> QED
    BY <2>1
<1>6. p \div (2 * u) = q \div 2
  <2>1. PICK two \in Nat : two = 2 /\ two >= 1
    OBVIOUS
  <2>2. p \div (u * two) = (p \div u) \div two
    BY ONLY <1>2, <2>1, u \in Nat, two \in Nat, p \in Int, p \in Nat, ModSplit
  <2>3. 2 * u = u * 2
    OBVIOUS
  <2> QED
    BY <1>5, <2>1, <2>2, <2>3
<1>7. PICK k \in Nat : k = scalar_mul_shift_var(a, g, shift)
  BY <1>3, ShiftNat
<1>8. 2 * k = q + (q % 2)
  <2>1. k = (q \div 2) + (q % 2)
    BY <1>2, <1>4, <1>5, <1>6, <1>7 DEF scalar_mul_shift_var
  <2> QED
    BY <2>1
<1>9. PICK e \in Int : e = 2 * u * k - p /\ e <= u /\ -e <= u
  <2>1. PICK d \in 0..1 : d = q % 2
    OBVIOUS
  <2>2. 2 * u * k = u * (q + d)
    BY <1>8, <2>1
  <2>3. PICK uq \in Int, ud \in 0..u : uq = u * q /\ ud = u * d /\ u * (q + d) = uq + ud
    BY <2>1
  <2>4. PICK uk \in Int : uk = 2 * u * k
    OBVIOUS
  <2>5. uk - p = ud - r
    BY <1>5, <2>2, <2>3, <2>4
  <2>6. uk - p \in Int /\ uk - p <= u /\ -(uk - p) <= u
    BY <2>3, <2>5
  <2> QED
    BY <2>4, <2>6
<1>10. PICK off \in Int : off = 2 * (g * n - 2 * u * b) /\ off <= n /\ -off <= n
  BY <1>1, <1>2 DEF Rounded
<1>11. 2 * (2 * u) * (n * k - a * b) = 2 * (n * e) + a * off
  <2>1. 2 * (2 * u) * (n * k - a * b) = 2 * n * (2 * u * k) - 2 * a * (2 * u * b)
    BY <1>3
  <2>2. 2 * n * (2 * u * k) = 2 * n * p + 2 * (n * e)
    <3>1. 2 * u * k = p + e
      BY <1>9
    <3> QED
      BY <3>1
  <2>3. 2 * a * (2 * u * b) = 2 * n * p - a * off
    <3>1. 2 * (2 * u * b) = 2 * (g * n) - off
      BY <1>10
    <3>2. a * (2 * (g * n)) = 2 * n * p
      BY <1>3, <1>4
    <3>3. a * (2 * (g * n) - off) = a * (2 * (g * n)) - a * off
      BY <1>3
    <3>4. 2 * a * (2 * u * b) = a * (2 * (2 * u * b))
      BY <1>3
    <3> QED
      BY <3>1, <3>2, <3>3, <3>4
  <2>4. PICK all \in Int, x \in Int, y \in Int, z \in Int, v \in Int, w \in Int :
           /\ all = 2 * (2 * u) * (n * k - a * b) /\ w = 2 * (n * e) /\ z = 2 * n * p
           /\ x = 2 * n * (2 * u * k) /\ y = 2 * a * (2 * u * b) /\ v = a * off
    BY <1>3
  <2>5. all = x - y /\ x = z + w /\ y = z - v
    BY <2>1, <2>2, <2>3, <2>4, Zenon
  <2>6. all = w + v
    BY ONLY <2>5, x \in Int, y \in Int, z \in Int, v \in Int, w \in Int
  <2> QED
    BY <2>4, <2>6, Zenon
<1>12. n * e <= n * u /\ -(n * e) <= n * u
  BY <1>9
<1>13. a * off <= n * n /\ -(a * off) <= n * n
  <2>1. a * off <= a * n /\ -(a * off) <= a * n
    BY <1>3, <1>10
  <2>2. a * n <= n * n
    BY <1>3
  <2> QED
    BY <1>3, <2>1, <2>2
<1>14. n * (2 * u + n) = 2 * (n * u) + n * n
  OBVIOUS
<1>15. /\ 2 * (2 * u) * (n * k - a * b) <= n * (2 * u + n)
       /\ -(2 * (2 * u) * (n * k - a * b)) <= n * (2 * u + n)
  BY <1>3, <1>11, <1>12, <1>13, <1>14
<1>16. /\ 2 * 2^shift * Off(k, a, b) <= Order * (2^shift + Order)
       /\ -(2 * 2^shift * Off(k, a, b)) <= Order * (2^shift + Order)
  BY <1>1, <1>2, <1>15, Zenon DEF Off
<1>17. 2^shift \in Nat /\ 2^shift >= 1
  BY <1>2
<1> QED
  BY <1>7, <1>16, <1>17, Zenon

\* Two such distances leave a short part.
LEMMA ShortSum ==
    ASSUME NEW n \in Nat, n >= 1, NEW unit \in Nat, unit >= 1, NEW h \in Nat,
           NEW x \in Nat, NEW y \in Nat, (x + y) * (unit + n) <= 2 * h * unit,
           NEW d \in Int, 2 * unit * d <= n * (unit + n), -(2 * unit * d) <= n * (unit + n),
           NEW e \in Int, 2 * unit * e <= n * (unit + n), -(2 * unit * e) <= n * (unit + n),
           NEW r \in Int, n * r = d * x + e * y \/ n * r = d * x - e * y
    PROVE  r <= h /\ -r <= h
<1>1. PICK m \in Nat : m = n * (unit + n)
  OBVIOUS
<1>2. PICK d2 \in Int, e2 \in Int : d2 = 2 * unit * d /\ e2 = 2 * unit * e
  OBVIOUS
<1>3. d2 <= m /\ -d2 <= m /\ e2 <= m /\ -e2 <= m
  BY <1>1, <1>2
<1>4. d2 * x <= m * x /\ -(d2 * x) <= m * x /\ e2 * y <= m * y /\ -(e2 * y) <= m * y
  BY <1>3
<1>5. PICK v \in Nat : v = 2 * unit * n /\ v >= 1
  <2>1. unit * n >= 1 /\ unit * n \in Nat
    OBVIOUS
  <2> QED
    BY <2>1
<1>6. v * r = d2 * x + e2 * y \/ v * r = d2 * x - e2 * y
  <2>1. v * r = 2 * unit * (n * r)
    BY <1>5
  <2>2. CASE n * r = d * x + e * y
    <3>1. v * r = 2 * unit * (d * x + e * y)
      BY <2>1, <2>2
    <3> QED
      BY <1>2, <3>1
  <2>3. CASE n * r = d * x - e * y
    <3>1. v * r = 2 * unit * (d * x - e * y)
      BY <2>1, <2>3
    <3> QED
      BY <1>2, <3>1
  <2> QED
    BY <2>2, <2>3
<1>7. m * x + m * y <= v * h
  <2>1. m * x + m * y = n * ((x + y) * (unit + n))
    BY <1>1
  <2>2. n * ((x + y) * (unit + n)) <= n * (2 * h * unit)
    <3> PICK lo \in Nat : lo = (x + y) * (unit + n)
      OBVIOUS
    <3> PICK hi \in Nat : hi = 2 * h * unit
      OBVIOUS
    <3>1. lo <= hi
      OBVIOUS
    <3>2. n * lo <= n * hi
      BY <3>1
    <3> QED
      BY <3>2
  <2>3. n * (2 * h * unit) = v * h
    BY <1>5
  <2> QED
    BY <2>1, <2>2, <2>3
<1>8. v * r <= v * h /\ -(v * r) <= v * h
  <2> PICK dx \in Int, ey \in Int, mx \in Int, my \in Int, vr \in Int, vh \in Int :
         dx = d2 * x /\ ey = e2 * y /\ mx = m * x /\ my = m * y /\ vr = v * r /\ vh = v * h
    OBVIOUS
  <2> QED
    BY <1>4, <1>6, <1>7
<1>9. v * (r - h) <= 0 /\ v * (-r - h) <= 0
  BY <1>8
<1>10. \A t \in Int : v * t <= 0 => t <= 0
  <2> TAKE t \in Int
  <2>1. t >= 1 => v * t >= v
    BY <1>5, MultipleGap
  <2> QED
    BY <1>5, <2>1
<1> QED
  BY <1>9, <1>10

\* A scalar that is a short number, up to the order, is short.
LEMMA ShortByNumber ==
    ASSUME NEW x \in Scalar, NEW r \in Int, r <= 2^Half, -r <= 2^Half,
           NEW t \in Int, x = r + Order * t
    PROVE  Short(x)
<1>1. PICK top \in Nat : top = 2^(Bits - 1) /\ 2^Bits = 2 * top
  BY OrderSizes, TopBit, 0 \in Scalar DEF Scalar
<1>2. PICK h \in Nat : h = 2^Half
  BY OrderSizes
<1>3. PICK n \in Nat : n = Order /\ 2 * h < n /\ n >= 1
  BY <1>1, <1>2, OrderSizes, HalfSizes
<1>4. x \in 0..(n - 1) /\ r <= h /\ -r <= h /\ x = r + n * t
  BY <1>2, <1>3 DEF Scalar
<1>5. t \in {0, 1}
  <2>1. t >= 2 => n * (t - 1) >= n
    BY <1>3, MultipleGap
  <2>2. t <= -1 => n * t <= -n
    BY <1>3, MultipleGap
  <2>3. n * (t - 1) = n * t - n
    OBVIOUS
  <2> QED
    BY <1>3, <1>4, <2>1, <2>2, <2>3
<1>6. Signed(x) = r
  <2>1. CASE t = 0
    <3>1. x = r /\ ~(x > n \div 2)
      BY <1>3, <1>4, <2>1
    <3> QED
      BY <1>3, <3>1 DEF Signed
  <2>2. CASE t = 1
    <3>1. x = r + n /\ x > n \div 2
      BY <1>3, <1>4, <2>2
    <3> QED
      BY <1>3, <3>1 DEF Signed
  <2> QED
    BY <1>5, <2>1, <2>2
<1> QED
  BY <1>2, <1>4, <1>6 DEF Short

\* A number less its remainder is a multiple of the order.
LEMMA RemainderMultiple ==
    ASSUME NEW x \in Int
    PROVE  \E t \in Int : x % Order = x + Order * t
<1>1. PICK n \in Nat : n = Order /\ n >= 1
  BY OrderSizes
<1>2. x \div n \in Int /\ (x % n) \in 0..(n - 1) /\ x = n * (x \div n) + (x % n)
  BY ONLY <1>1, n \in Nat, x \in Int, Division
<1>3. PICK q \in Int, e \in Int : e = x % n /\ x = n * q + e
  <2>1. x % n \in Int
    BY <1>2
  <2> QED
    BY <1>2, <2>1, Zenon
<1>4. e = x + n * (-q) /\ -q \in Int
  BY <1>3
<1> QED
  BY <1>1, <1>3, <1>4

\* The parts that secp256k1_scalar_split_lambda leaves are short, whatever the
\* scalar: what secp256k1_ecmult relies on where it recodes them ("~128 bit").
THEOREM PartsAreShort == PartsShort
<1> SUFFICES ASSUME NEW a \in Scalar
             PROVE  Short(scalar_split_lambda(a).r1) /\ Short(scalar_split_lambda(a).r2)
  BY DEF PartsShort
<1>1. PICK n \in Nat : n = Order /\ n >= 1
  BY OrderSizes
<1>2. a \in Int /\ a \in Nat
  BY OrderSizes DEF Scalar
<1>3. PICK b1 \in Nat, b2 \in Nat, mb2 \in Nat, ml \in Nat, lam \in Nat :
         b1 = MinusB1 /\ mb2 = MinusB2 /\ b2 = n - mb2 /\ ml = MinusLambda /\ lam = n - ml
  <2>1. MinusB1 \in 0..(Order - 1) /\ MinusB2 \in 0..(Order - 1) /\ MinusLambda \in 0..(Order - 1)
    BY LambdaAssumption, Zenon
  <2>2. Order - MinusB2 \in Nat /\ Order - MinusLambda \in Nat
    BY <1>1, <2>1
  <2> QED
    BY <1>1, <2>1, <2>2
<1>4. G1 \in Nat /\ G2 \in Nat /\ LambdaShift \in Nat \ {0}
  BY LambdaAssumption, Zenon
<1>5. PICK unit \in Nat, h \in Nat : unit = 2^LambdaShift /\ h = 2^Half /\ unit >= 1
  BY <1>4, PowerPositive, OrderSizes
<1>6. PICK a1 \in Nat, a2 \in Nat :
         /\ (a1 - b1 * lam) % n = 0 /\ (a2 + b2 * lam) % n = 0
         /\ a1 * b2 + a2 * b1 = n
         /\ (b1 + b2) * (unit + n) <= 2 * h * unit
         /\ (a1 + a2) * (unit + n) <= 2 * h * unit
  <2>1. PICK a1 \in 0..(Order - 1), a2 \in 0..(Order - 1) :
           /\ (a1 - MinusB1 * (Order - MinusLambda)) % Order = 0
           /\ (a2 + (Order - MinusB2) * (Order - MinusLambda)) % Order = 0
           /\ a1 * (Order - MinusB2) + a2 * MinusB1 = Order
           /\ \A side \in {MinusB1 + (Order - MinusB2), a1 + a2} :
                 side * (2^LambdaShift + Order) <= 2 * 2^Half * 2^LambdaShift
    BY LatticeAssumption, Zenon DEF LatticeFits
  <2>2. a1 \in Nat /\ a2 \in Nat
    BY <1>1, <2>1
  <2> QED
    BY <1>1, <1>3, <1>5, <2>1, <2>2
<1>7. Rounded(Order, LambdaShift, G1, b2) /\ Rounded(Order, LambdaShift, G2, b1)
  <2>1. /\ Rounded(Order, LambdaShift, G1, Order - MinusB2)
        /\ Rounded(Order, LambdaShift, G2, MinusB1)
    BY LatticeAssumption, Zenon DEF LatticeFits
  <2> QED
    BY <1>1, <1>3, <2>1
<1>8. PICK k1 \in Nat, d1 \in Int :
         /\ k1 = scalar_mul_shift_var(a, G1, LambdaShift) /\ d1 = n * k1 - a * b2
         /\ 2 * unit * d1 <= n * (unit + n) /\ -(2 * unit * d1) <= n * (unit + n)
  <2>1. LET k == scalar_mul_shift_var(a, G1, LambdaShift)
        IN /\ k \in Nat
           /\ 2 * 2^LambdaShift * Off(k, a, b2) <= Order * (2^LambdaShift + Order)
           /\ -(2 * 2^LambdaShift * Off(k, a, b2)) <= Order * (2^LambdaShift + Order)
    BY <1>4, <1>7, RoundedProduct, Zenon
  <2>2. PICK k1 \in Nat : k1 = scalar_mul_shift_var(a, G1, LambdaShift)
    BY <2>1
  <2>3. n * k1 - a * b2 \in Int /\ Off(k1, a, b2) = n * k1 - a * b2
    BY <1>1, <1>2 DEF Off
  <2> QED
    BY <1>1, <1>5, <2>1, <2>2, <2>3, Zenon
<1>9. PICK k2 \in Nat, d2 \in Int :
         /\ k2 = scalar_mul_shift_var(a, G2, LambdaShift) /\ d2 = n * k2 - a * b1
         /\ 2 * unit * d2 <= n * (unit + n) /\ -(2 * unit * d2) <= n * (unit + n)
  <2>1. LET k == scalar_mul_shift_var(a, G2, LambdaShift)
        IN /\ k \in Nat
           /\ 2 * 2^LambdaShift * Off(k, a, b1) <= Order * (2^LambdaShift + Order)
           /\ -(2 * 2^LambdaShift * Off(k, a, b1)) <= Order * (2^LambdaShift + Order)
    BY <1>4, <1>7, RoundedProduct, Zenon
  <2>2. PICK k2 \in Nat : k2 = scalar_mul_shift_var(a, G2, LambdaShift)
    BY <2>1
  <2>3. n * k2 - a * b1 \in Int /\ Off(k2, a, b1) = n * k2 - a * b1
    BY <1>1, <1>2 DEF Off
  <2> QED
    BY <1>1, <1>5, <2>1, <2>2, <2>3, Zenon
\* What the parts are as numbers, and that those are short.
<1>10. PICK v2 \in Int : v2 = k1 * b1 - k2 * b2 /\ v2 <= h /\ -v2 <= h
  <2>1. PICK v2 \in Int : v2 = k1 * b1 - k2 * b2
    OBVIOUS
  <2>2. n * v2 = d1 * b1 - d2 * b2
    <3>1. n * v2 = (n * k1) * b1 - (n * k2) * b2
      BY <2>1
    <3>2. n * k1 = d1 + a * b2 /\ n * k2 = d2 + a * b1
      BY <1>2, <1>8, <1>9
    <3>3. (d1 + a * b2) * b1 - (d2 + a * b1) * b2 = d1 * b1 - d2 * b2
      BY <1>2
    <3> QED
      BY <3>1, <3>2, <3>3
  <2>3. v2 <= h /\ -v2 <= h
    <3>1. n >= 1 /\ unit >= 1 /\ (b1 + b2) * (unit + n) <= 2 * h * unit
      BY <1>1, <1>5, <1>6
    <3>2. /\ 2 * unit * d1 <= n * (unit + n) /\ -(2 * unit * d1) <= n * (unit + n)
          /\ 2 * unit * d2 <= n * (unit + n) /\ -(2 * unit * d2) <= n * (unit + n)
      BY <1>8, <1>9
    <3> QED
      BY ONLY <3>1, <3>2, <2>2, n \in Nat, unit \in Nat, h \in Nat, b1 \in Nat,
              b2 \in Nat, d1 \in Int, d2 \in Int, v2 \in Int, ShortSum, Zenon
  <2> QED
    BY <2>1, <2>3
<1>11. PICK v1 \in Int : v1 = a - k1 * a1 - k2 * a2 /\ v1 <= h /\ -v1 <= h
  <2>1. PICK v1 \in Int : v1 = a - k1 * a1 - k2 * a2
    BY <1>2
  <2>2. PICK e1 \in Int : e1 = -d1 /\ 2 * unit * e1 <= n * (unit + n) /\ -(2 * unit * e1) <= n * (unit + n)
    <3>1. -d1 \in Int /\ 2 * unit * (-d1) = -(2 * unit * d1) /\ -(2 * unit * (-d1)) = 2 * unit * d1
      OBVIOUS
    <3> QED
      BY <1>8, <3>1
  <2>3. n * v1 = e1 * a1 - d2 * a2
    <3>1. n * v1 = n * a - (n * k1) * a1 - (n * k2) * a2
      BY <1>2, <2>1
    <3>2. n * k1 = d1 + a * b2 /\ n * k2 = d2 + a * b1
      BY <1>2, <1>8, <1>9
    <3>3. n * a = (a1 * b2 + a2 * b1) * a
      BY <1>6
    <3>4. (a1 * b2 + a2 * b1) * a - (d1 + a * b2) * a1 - (d2 + a * b1) * a2 = -(d1 * a1) - d2 * a2
      BY <1>2
    <3> QED
      BY <2>2, <3>1, <3>2, <3>3, <3>4
  <2>4. v1 <= h /\ -v1 <= h
    <3>1. n >= 1 /\ unit >= 1 /\ (a1 + a2) * (unit + n) <= 2 * h * unit
      BY <1>1, <1>5, <1>6
    <3>2. 2 * unit * d2 <= n * (unit + n) /\ -(2 * unit * d2) <= n * (unit + n)
      BY <1>9
    <3> QED
      BY ONLY <3>1, <3>2, <2>2, <2>3, n \in Nat, unit \in Nat, h \in Nat, a1 \in Nat,
              a2 \in Nat, e1 \in Int, d2 \in Int, v1 \in Int, ShortSum, Zenon
  <2> QED
    BY <2>1, <2>4
\* The scalars are those numbers, up to the order.
<1>12. PICK c1 \in Int, t1 \in Int :
          c1 = scalar_mul(k1, MinusB1) /\ c1 = k1 * b1 + n * t1 /\ c1 \in Scalar
  <2>1. PICK x \in Int : x = k1 * b1
    OBVIOUS
  <2>2. PICK t \in Int : x % Order = x + Order * t
    BY RemainderMultiple
  <2>3. x % Order \in Scalar /\ x % Order \in Int
    BY RemainderScalar DEF Scalar
  <2>4. scalar_mul(k1, MinusB1) = x % Order
    BY <1>3, <2>1 DEF scalar_mul
  <2> QED
    BY <1>1, <2>1, <2>2, <2>3, <2>4
<1>13. PICK c2 \in Int, t2 \in Int :
          c2 = scalar_mul(k2, MinusB2) /\ c2 = k2 * mb2 + n * t2 /\ c2 \in Scalar
  <2>1. PICK x \in Int : x = k2 * mb2
    OBVIOUS
  <2>2. PICK t \in Int : x % Order = x + Order * t
    BY RemainderMultiple
  <2>3. x % Order \in Scalar /\ x % Order \in Int
    BY RemainderScalar DEF Scalar
  <2>4. scalar_mul(k2, MinusB2) = x % Order
    BY <1>3, <2>1 DEF scalar_mul
  <2> QED
    BY <1>1, <2>1, <2>2, <2>3, <2>4
<1>14. PICK r2 \in Int, t3 \in Int :
          r2 = scalar_add(c1, c2).r /\ r2 = c1 + c2 + n * t3 /\ r2 \in Scalar
  <2>1. PICK x \in Int : x = c1 + c2
    OBVIOUS
  <2>2. PICK t \in Int : x % Order = x + Order * t
    BY RemainderMultiple
  <2>3. x % Order \in Scalar /\ x % Order \in Int
    BY RemainderScalar DEF Scalar
  <2>4. scalar_add(c1, c2).r = x % Order
    BY <2>1, Zenon DEF scalar_add
  <2> QED
    BY <1>1, <2>1, <2>2, <2>3, <2>4
<1>15. PICK u2 \in Int : r2 = v2 + n * u2
  <2>1. k2 * mb2 = n * k2 - k2 * b2
    <3>1. mb2 = n - b2
      BY <1>3
    <3> QED
      BY <3>1
  <2>2. k2 + t1 + t2 + t3 \in Int /\ n * (k2 + t1 + t2 + t3) = n * k2 + n * t1 + n * t2 + n * t3
    OBVIOUS
  <2>3. r2 = v2 + n * (k2 + t1 + t2 + t3)
    <3> PICK p1 \in Int, p2 \in Int, p3 \in Int, q1 \in Int, q2 \in Int, q3 \in Int, q4 \in Int :
           p1 = k1 * b1 /\ p2 = k2 * b2 /\ p3 = k2 * mb2 /\ q1 = n * k2 /\ q2 = n * t1
           /\ q3 = n * t2 /\ q4 = n * t3
      OBVIOUS
    <3> QED
      BY <1>10, <1>12, <1>13, <1>14, <2>1, <2>2
  <2> QED
    BY <2>2, <2>3
<1>16. PICK m \in Int, t4 \in Int :
          m = scalar_mul(r2, MinusLambda) /\ m = r2 * ml + n * t4
  <2>1. PICK x \in Int : x = r2 * ml
    OBVIOUS
  <2>2. PICK t \in Int : x % Order = x + Order * t
    BY RemainderMultiple
  <2>3. x % Order \in Int
    BY RemainderScalar DEF Scalar
  <2>4. scalar_mul(r2, MinusLambda) = x % Order
    BY <1>3, <2>1 DEF scalar_mul
  <2> QED
    BY <1>1, <2>1, <2>2, <2>3, <2>4
<1>17. PICK r1 \in Int, t5 \in Int :
          r1 = scalar_add(m, a).r /\ r1 = m + a + n * t5 /\ r1 \in Scalar
  <2>1. PICK x \in Int : x = m + a
    BY <1>2
  <2>2. PICK t \in Int : x % Order = x + Order * t
    BY RemainderMultiple
  <2>3. x % Order \in Scalar /\ x % Order \in Int
    BY RemainderScalar DEF Scalar
  <2>4. scalar_add(m, a).r = x % Order
    BY <2>1, Zenon DEF scalar_add
  <2> QED
    BY <1>1, <2>1, <2>2, <2>3, <2>4
<1>18. PICK u1 \in Int : r1 = v1 + n * u1
  <2>1. PICK w1 \in Int, w2 \in Int : a1 - b1 * lam = n * w1 /\ a2 + b2 * lam = n * w2
    <3>1. ASSUME NEW x \in Int, x % n = 0 PROVE \E w \in Int : x = n * w
      <4>1. x \div n \in Int /\ x = n * (x \div n) + (x % n)
        BY <1>1, Division
      <4>2. x = n * (x \div n)
        BY <3>1, <4>1
      <4> QED
        BY <4>1, <4>2
    <3>2. a1 - b1 * lam \in Int /\ a2 + b2 * lam \in Int
      OBVIOUS
    <3>3. PICK w1 \in Int : a1 - b1 * lam = n * w1
      BY <1>6, <3>1, <3>2
    <3>4. PICK w2 \in Int : a2 + b2 * lam = n * w2
      BY <1>6, <3>1, <3>2
    <3> QED
      BY <3>3, <3>4
  <2>2. r2 * ml = n * r2 - r2 * lam
    <3>1. ml = n - lam
      BY <1>3
    <3> QED
      BY <3>1
  <2>3. r2 * lam = v2 * lam + n * (u2 * lam)
    BY <1>15
  <2>4. v2 * lam = k1 * (b1 * lam) - k2 * (b2 * lam)
    BY <1>10
  <2>5. k1 * (b1 * lam) = k1 * a1 - n * (k1 * w1) /\ k2 * (b2 * lam) = n * (k2 * w2) - k2 * a2
    <3>1. b1 * lam = a1 - n * w1 /\ b2 * lam = n * w2 - a2
      BY <2>1
    <3> QED
      BY <3>1
  <2>6. PICK u1 \in Int : u1 = r2 - u2 * lam + k1 * w1 + k2 * w2 + t4 + t5
    OBVIOUS
  <2>7. n * u1 = n * r2 - n * (u2 * lam) + n * (k1 * w1) + n * (k2 * w2) + n * t4 + n * t5
    BY <2>6
  <2>8. r1 = v1 + n * u1
    <3> PICK p1 \in Int, p2 \in Int, p3 \in Int, p4 \in Int, p5 \in Int, p6 \in Int, p7 \in Int :
           /\ p1 = r2 * ml /\ p2 = r2 * lam /\ p3 = v2 * lam /\ p4 = k1 * (b1 * lam)
           /\ p5 = k2 * (b2 * lam) /\ p6 = k1 * a1 /\ p7 = k2 * a2
      OBVIOUS
    <3> PICK q1 \in Int, q2 \in Int, q3 \in Int, q4 \in Int, q5 \in Int, q6 \in Int, q7 \in Int :
           /\ q1 = n * r2 /\ q2 = n * (u2 * lam) /\ q3 = n * (k1 * w1) /\ q4 = n * (k2 * w2)
           /\ q5 = n * t4 /\ q6 = n * t5 /\ q7 = n * u1
      OBVIOUS
    <3> QED
      BY <1>2, <1>11, <1>16, <1>17, <2>2, <2>3, <2>4, <2>5, <2>7
  <2> QED
    BY <2>8
<1>19. Short(r1) /\ Short(r2)
  <2>1. r1 = v1 + Order * u1 /\ r2 = v2 + Order * u2
    BY <1>1, <1>15, <1>18
  <2>2. v1 <= 2^Half /\ -v1 <= 2^Half /\ v2 <= 2^Half /\ -v2 <= 2^Half
    BY <1>5, <1>10, <1>11
  <2> QED
    BY <1>14, <1>17, <2>1, <2>2, ShortByNumber
<1>20. scalar_split_lambda(a).r1 = r1 /\ scalar_split_lambda(a).r2 = r2
  <2>1. scalar_split_lambda(a) = [r1 |-> r1, r2 |-> r2]
    BY <1>8, <1>9, <1>12, <1>13, <1>14, <1>16, <1>17, Zenon DEF scalar_split_lambda
  <2> QED
    BY <2>1
<1> QED
  BY <1>19, <1>20

\* The logarithm is a scalar, whatever the walk.
LogTypeOK == log \in Scalar

\* The logarithm of the walk is always a scalar.
LEMMA LogType == Spec => []LogTypeOK
<1>1. Init => LogTypeOK
  BY OrderSizes DEF Init, LogTypeOK, Scalar
<1>2. LogTypeOK /\ [Next]_vars => LogTypeOK'
  <2> SUFFICES ASSUME LogTypeOK, [Next]_vars
               PROVE  LogTypeOK'
    OBVIOUS
  <2>1. log \in Int /\ lambda \in Int
    BY OrderSizes DEF LogTypeOK, Scalar
  <2>2. \A i \in Operands \cup Multipliers : i \in Int
    BY WalkAssumption, OrderSizes DEF Scalar
  <2>3. ASSUME NEW r, NEW k \in Int, Becomes(r, k) PROVE LogTypeOK'
    BY <2>3, RemainderScalar DEF Becomes, LogTypeOK
  <2>4. CASE Double
    BY <2>1, <2>3, <2>4, 2 * log \in Int DEF Double
  <2>5. CASE Negate
    BY <2>1, <2>3, <2>5, -log \in Int DEF Negate
  <2>6. CASE ToAffine \/ Store
    BY <2>1, <2>3, <2>6 DEF ToAffine, Store
  <2>7. CASE MulLambda
    BY <2>1, <2>3, <2>7, lambda * log \in Int DEF MulLambda
  <2>8. ASSUME NEW i \in Operands, Start(i) \/ AddGeVar(i) \/ AddGe(i) PROVE LogTypeOK'
    <3>1. i \in Int /\ log + i \in Int
      BY <2>1, <2>2
    <3> QED
      BY <2>3, <2>8, <3>1 DEF Start, AddGeVar, AddGe
  <2>9. ASSUME NEW i \in Operands, NEW z \in Scales,
               AddVar(i, z) \/ AddToOperand(i, z) \/ AddZinvVar(i, z)
        PROVE  LogTypeOK'
    <3>1. log + i \in Int
      BY <2>1, <2>2
    <3> QED
      BY <2>3, <2>9, <3>1 DEF AddVar, AddToOperand, AddZinvVar
  <2>10. ASSUME NEW z \in Scales, Rescale(z) PROVE LogTypeOK'
    BY <2>1, <2>3, <2>10 DEF Rescale
  <2>11. ASSUME NEW na \in Multipliers, NEW ng \in Multipliers, Multiply(na, ng) PROVE LogTypeOK'
    <3>1. na * log + ng \in Int
      BY <2>1, <2>2
    <3> QED
      BY <2>3, <2>11, <3>1 DEF Multiply
  <2>12. ASSUME NEW q \in Multipliers, MultiplyConst(q) PROVE LogTypeOK'
    <3>1. q * log \in Int
      BY <2>1, <2>2
    <3> QED
      BY <2>3, <2>12, <3>1 DEF MultiplyConst
  <2>13. CASE UNCHANGED vars
    BY <2>13 DEF vars, LogTypeOK
  <2> QED
    BY <2>4, <2>5, <2>6, <2>7, <2>8, <2>9, <2>10, <2>11, <2>12, <2>13 DEF Next
<1> QED
  BY <1>1, <1>2, PTL DEF Spec

\* Both splits of every scalar add up to it, in short parts, and
\* secp256k1_ecmult_wnaf recodes each part in the array that secp256k1_ecmult has
\* for it.
THEOREM RecodingIsRight == Spec => []RecodingRight
<1>1. LogTypeOK => RecodingRight
  <2> SUFFICES ASSUME log \in Scalar
               PROVE  RecodingRight
    BY DEF LogTypeOK
  <2> DEFINE lam == scalar_split_lambda(log)
             pow == scalar_split_128(log)
  <2>1. lam.r1 \in Scalar /\ lam.r2 \in Scalar /\ (lam.r1 + lam.r2 * lambda) % Order = log
    BY LambdaParts, Zenon
  <2>2. /\ pow.r1 + pow.r2 * 2^Half = log
        /\ pow.r1 \in Nat /\ pow.r1 <= 2^Half /\ pow.r2 \in Nat /\ pow.r2 <= 2^Half
    BY HalvesRight, Zenon
  <2>3. Short(lam.r1) /\ Short(lam.r2)
    BY PartsAreShort, Zenon DEF PartsShort
  <2>4. pow.r1 \in Scalar /\ Short(pow.r1) /\ pow.r2 \in Scalar /\ Short(pow.r2)
    BY <2>2, SmallShort
  <2> HIDE DEF lam, pow
  <2>5. ASSUME NEW a \in {lam.r1, lam.r2}, NEW w \in 2..4
        PROVE  DigitsRight(ecmult_wnaf(Half + 2, a, w), Signed(a), Half + 2, w)
    <3>1. a \in Scalar /\ Short(a)
      BY <2>1, <2>3
    <3>2. w \in Nat /\ w >= 2 /\ Half + 2 \in Nat /\ Half + 2 >= Half + 1
      BY OrderSizes
    <3> QED
      BY <3>1, <3>2, ShortRecoded
  <2>6. ASSUME NEW a \in {pow.r1, pow.r2}, NEW w \in 2..4
        PROVE  DigitsRight(ecmult_wnaf(Half + 1, a, w), Signed(a), Half + 1, w)
    <3>1. a \in Scalar /\ Short(a)
      BY <2>4
    <3>2. w \in Nat /\ w >= 2 /\ Half + 1 \in Nat /\ Half + 1 >= Half + 1
      BY OrderSizes
    <3> QED
      BY <3>1, <3>2, ShortRecoded
  <2>7. \A a \in {lam.r1, lam.r2} : Short(a)
    BY <2>3
  <2> QED
    BY <2>1, <2>2, <2>5, <2>6, <2>7, Zenon DEF RecodingRight, lam, pow
<1>2. Spec => []LogTypeOK
  BY LogType
<1> QED
  BY <1>1, <1>2, PTL

-----------------------------------------------------------------------------
(* Field elements.                                                         *)

\* A field element of which nothing was asked too much, of magnitude k at most.
Bounded(a, k) == a.ok /\ a.m \in 0..k

\* An element remembers a check that failed, and its own is one.
LEMMA FeFields ==
    ASSUME NEW v, NEW m, NEW n, NEW ok
    PROVE  /\ Fe(v, m, n, ok).ok <=> (ok /\ m <= MaxMagnitude)
           /\ Fe(v, m, n, ok).m = m
  BY Zenon DEF Fe

\* An element of magnitude 8 or less passes its check.
LEMMA FeBounded ==
    ASSUME NEW v, NEW m \in 0..8, NEW n, NEW ok, ok
    PROVE  Bounded(Fe(v, m, n, ok), m)
<1>1. m <= MaxMagnitude /\ m \in 0..m
  <2>1. MaxMagnitude \in Nat /\ MaxMagnitude >= 8
    BY PrimeAssumption, Zenon
  <2> QED
    BY <2>1
<1>2. Fe(v, m, n, ok).ok
  BY <1>1, FeFields, Zenon
<1>3. Fe(v, m, n, ok).m \in 0..m
  <2>1. Fe(v, m, n, ok).m = m
    BY Zenon DEF Fe
  <2> QED
    BY <1>1, <2>1
<1> QED
  BY <1>2, <1>3, Zenon DEF Bounded

\* A product, or what was normalized, has magnitude 1.
LEMMA FreshBounded ==
    ASSUME NEW v, NEW n, NEW ok, ok
    PROVE  Bounded(Fe(v, 1, n, ok), 1)
<1>1. 1 \in 0..8
  OBVIOUS
<1> QED
  BY <1>1, FeBounded, Zenon

\* A bound may be given away.
LEMMA BoundedMonotone ==
    ASSUME NEW a, NEW i \in Nat, NEW j \in Nat, Bounded(a, i), i <= j
    PROVE  Bounded(a, j)
<1>1. a.m \in 0..j
  BY DEF Bounded
<1> QED
  BY <1>1, Zenon DEF Bounded

\* fe_mul takes magnitudes up to 8 and leaves 1.
LEMMA MulBounded ==
    ASSUME NEW a, NEW b, NEW i \in 0..8, NEW j \in 0..8, Bounded(a, i), Bounded(b, j)
    PROVE  Bounded(fe_mul(a, b), 1)
<1>1. a.m <= 8 /\ b.m <= 8
  BY DEF Bounded
<1>2. a.ok /\ b.ok /\ a.m <= 8 /\ b.m <= 8
  BY <1>1, Zenon DEF Bounded
<1> QED
  BY <1>2, FreshBounded, Zenon DEF fe_mul

\* fe_add adds the magnitudes.
LEMMA AddBounded ==
    ASSUME NEW a, NEW b, NEW i \in Nat, NEW j \in Nat, Bounded(a, i), Bounded(b, j), i + j <= 8
    PROVE  Bounded(fe_add(a, b), i + j)
<1>1. a.m + b.m \in 0..8 /\ a.m + b.m <= i + j /\ a.m + b.m \in Nat /\ i + j \in Nat
  BY DEF Bounded
<1>2. a.ok /\ b.ok
  BY Zenon DEF Bounded
<1>3. Bounded(fe_add(a, b), a.m + b.m)
  BY <1>1, <1>2, FeBounded, Zenon DEF fe_add
<1> QED
  BY <1>1, <1>3, BoundedMonotone, Zenon

\* fe_negate, told a magnitude, leaves one more.
LEMMA NegateBounded ==
    ASSUME NEW a, NEW i \in 0..7, Bounded(a, i)
    PROVE  Bounded(fe_negate(a, i), i + 1)
<1>1. i + 1 \in 0..8 /\ a.m <= i
  BY DEF Bounded
<1>2. a.ok /\ a.m <= i
  BY <1>1, Zenon DEF Bounded
<1> QED
  BY <1>1, <1>2, FeBounded, Zenon DEF fe_negate

\* fe_mul_int multiplies the magnitude.
LEMMA MulIntBounded ==
    ASSUME NEW a, NEW i \in Nat, NEW k \in Nat, Bounded(a, i), i * k <= 8
    PROVE  Bounded(fe_mul_int(a, k), i * k)
<1>1. a.m * k \in 0..8 /\ a.m * k <= i * k /\ i * k \in Nat /\ a.m * k \in Nat
  <2>1. a.m \in Nat /\ a.m <= i
    BY DEF Bounded
  <2>2. PICK m \in Nat : m = a.m
    BY <2>1
  <2>3. PICK d \in Nat : i = m + d
    <3>1. i - m \in Nat /\ i = m + (i - m)
      BY <2>1, <2>2
    <3> QED
      BY <3>1
  <2>4. i * k = m * k + d * k /\ m * k \in Nat /\ d * k \in Nat
    BY <2>3
  <2> QED
    BY <2>2, <2>4
<1>2. a.ok
  BY Zenon DEF Bounded
<1>3. Bounded(fe_mul_int(a, k), a.m * k)
  BY <1>1, <1>2, FeBounded, Zenon DEF fe_mul_int
<1> QED
  BY <1>1, <1>3, BoundedMonotone, Zenon

\* Both normalizations leave magnitude 1.
LEMMA NormalizeBounded ==
    ASSUME NEW a, NEW i, Bounded(a, i)
    PROVE  Bounded(fe_normalize_var(a), 1) /\ Bounded(fe_normalize_weak(a), 1)
<1>1. a.ok
  BY Zenon DEF Bounded
<1> QED
  BY <1>1, FreshBounded, Zenon DEF fe_normalize_var, fe_normalize_weak

\* fe_cmov leaves one of two magnitudes.
LEMMA CmovBounded ==
    ASSUME NEW a, NEW r, NEW flag, NEW k \in 0..8, Bounded(r, k), Bounded(a, k)
    PROVE  Bounded(fe_cmov(r, a, flag), k)
<1> DEFINE m == IF a.m > r.m THEN a.m ELSE r.m
<1>1. m \in 0..8 /\ m \in Nat /\ m <= k /\ k \in Nat
  BY DEF Bounded
<1>2. a.ok /\ r.ok
  BY Zenon DEF Bounded
<1>3. Bounded(fe_cmov(r, a, flag), m)
  <2> DEFINE v == IF flag THEN a.v ELSE r.v
             n == a.n /\ r.n
  <2>1. fe_cmov(r, a, flag) = Fe(v, m, n, a.ok /\ r.ok)
    BY Zenon DEF fe_cmov
  <2> HIDE DEF m, v, n
  <2> QED
    BY <1>1, <1>2, <2>1, FeBounded, Zenon
<1> HIDE DEF m
<1> QED
  BY <1>1, <1>3, BoundedMonotone, Zenon

\* fe_sqr takes magnitudes up to 8 and leaves 1.
LEMMA SqrBounded ==
    ASSUME NEW a, NEW i \in 0..8, Bounded(a, i)
    PROVE  Bounded(fe_sqr(a), 1)
  BY MulBounded, Zenon DEF fe_sqr

\* fe_inv_var takes any magnitude up to 8 and leaves 1.
LEMMA InverseBounded ==
    ASSUME NEW a, NEW i \in 0..8, Bounded(a, i)
    PROVE  Bounded(fe_inv_var(a), 1)
<1>1. a.m <= 8
  BY DEF Bounded
<1>2. a.ok /\ a.m <= 8
  BY <1>1, Zenon DEF Bounded
<1> QED
  BY <1>2, FreshBounded, Zenon DEF fe_inv_var, FePow

\* A small number is an element of magnitude 1.
LEMMA SetIntBounded ==
    ASSUME NEW k PROVE Bounded(fe_set_int(k), 1)
  BY FreshBounded, Zenon DEF fe_set_int

-----------------------------------------------------------------------------
(* Points.                                                                 *)

\* What is kept of an affine point: bounds that every formula of group_impl.h takes.
GeKept(b) ==
    DOMAIN b = {"x", "y", "infinity"} /\ Bounded(b.x, 6) /\ Bounded(b.y, 4)

\* The same of a Jacobian point, and what every formula leaves.
GejKept(a) ==
    /\ DOMAIN a = {"x", "y", "z", "infinity"}
    /\ Bounded(a.x, 6) /\ Bounded(a.y, 4) /\ Bounded(a.z, 2)

\* The fields of a point.
LEMMA PointFields ==
    ASSUME NEW x, NEW y, NEW z, NEW f
    PROVE  /\ DOMAIN [x |-> x, y |-> y, infinity |-> f] = {"x", "y", "infinity"}
           /\ DOMAIN [x |-> x, y |-> y, z |-> z, infinity |-> f] = {"x", "y", "z", "infinity"}
  OBVIOUS

\* An affine point with bounded coordinates is kept.
LEMMA GeFinite ==
    ASSUME NEW x, NEW y, NEW f, Bounded(x, 6), Bounded(y, 4)
    PROVE  GeKept([x |-> x, y |-> y, infinity |-> f])
  BY PointFields, Zenon DEF GeKept

\* A Jacobian point with bounded coordinates is kept.
LEMMA GejFinite ==
    ASSUME NEW x, NEW y, NEW z, NEW f, Bounded(x, 6), Bounded(y, 4), Bounded(z, 2)
    PROVE  GejKept([x |-> x, y |-> y, z |-> z, infinity |-> f])
  BY PointFields, Zenon DEF GejKept

\* What Gej makes of bounded coordinates is kept, and finite.
LEMMA GejFields ==
    ASSUME NEW x, NEW y, NEW z, Bounded(x, 6), Bounded(y, 4), Bounded(z, 2)
    PROVE  GejKept(Gej(x, y, z)) /\ Gej(x, y, z).infinity = FALSE
  BY GejFinite, Zenon DEF Gej

\* The doubling formula keeps the bounds.
LEMMA DoubledKept ==
    ASSUME NEW a, GejKept(a)
    PROVE  GejKept(Doubled(a))
<1> DEFINE t1 == fe_mul_int(fe_sqr(a.x), 3)
           t2 == fe_sqr(t1)
           t3 == fe_mul_int(fe_sqr(a.y), 2)
           t4 == fe_mul_int(fe_sqr(t3), 2)
           t5 == fe_mul(t3, a.x)
           t6 == fe_add(fe_mul_int(t5, 6), fe_negate(t2, 1))
           x  == fe_add(fe_negate(fe_mul_int(t5, 4), 4), t2)
           y  == fe_add(fe_mul(t1, t6), fe_negate(t4, 2))
           z  == fe_mul_int(fe_mul(a.z, a.y), 2)
<1>1. Doubled(a) = Gej(x, y, z)
  BY Zenon DEF Doubled
<1>2. Bounded(a.x, 6) /\ Bounded(a.y, 4) /\ Bounded(a.z, 2)
  BY Zenon DEF GejKept
<1> HIDE DEF t1, t2, t3, t4, t5, t6, x, y, z
<1>3. Bounded(t1, 3)
  BY <1>2, SqrBounded, MulIntBounded DEF t1
<1>4. Bounded(t2, 1)
  BY <1>3, SqrBounded DEF t2
<1>5. Bounded(t3, 2)
  BY <1>2, SqrBounded, MulIntBounded DEF t3
<1>6. Bounded(t4, 2)
  BY <1>5, SqrBounded, MulIntBounded DEF t4
<1>7. Bounded(t5, 1)
  BY <1>2, <1>5, MulBounded DEF t5
<1>8. Bounded(t6, 8)
  BY <1>4, <1>7, MulIntBounded, NegateBounded, AddBounded DEF t6
<1>9. Bounded(x, 6)
  BY <1>4, <1>7, MulIntBounded, NegateBounded, AddBounded DEF x
<1>10. Bounded(y, 4)
  BY <1>3, <1>6, <1>8, MulBounded, NegateBounded, AddBounded DEF y
<1>11. Bounded(z, 2)
  BY <1>2, MulBounded, MulIntBounded DEF z
<1> QED
  BY <1>1, <1>9, <1>10, <1>11, GejFields, Zenon

\* gej_set_ge keeps the bounds.
LEMMA SetGeKept ==
    ASSUME NEW b, GeKept(b)
    PROVE  GejKept(gej_set_ge(b))
<1>1. Bounded(FeOne, 2)
  BY SetIntBounded, BoundedMonotone DEF FeOne
<1> QED
  BY <1>1, GejFinite, Zenon DEF gej_set_ge, GeKept

\* gej_double_var keeps them, at infinity too.
LEMMA DoubleKept ==
    ASSUME NEW a, GejKept(a)
    PROVE  GejKept(gej_double_var(a))
  BY DoubledKept, Zenon DEF gej_double_var, gej_double_rzr

\* What is marked as infinity keeps its coordinates.
LEMMA InfiniteKept ==
    ASSUME NEW a, GejKept(a)
    PROVE  GejKept(Infinite(a))
<1>1. /\ Infinite(a).x = a.x /\ Infinite(a).y = a.y /\ Infinite(a).z = a.z
      /\ DOMAIN Infinite(a) = DOMAIN a
  BY DEF Infinite, GejKept
<1> QED
  BY <1>1, Zenon DEF GejKept

\* The end of the three additions keeps the bounds.
LEMMA AddTailKept ==
    ASSUME NEW a, NEW u1, NEW s1, NEW h, NEW i, NEW hz,
           GejKept(a), Bounded(u1, 1), Bounded(s1, 1), Bounded(h, 3), Bounded(i, 3), Bounded(hz, 3)
    PROVE  GejKept(AddTail(a, u1, s1, h, i, hz).r)
<1> DEFINE h2 == fe_sqr(h)
           h3 == fe_mul(h, h2)
           t  == fe_mul(u1, h2)
           x  == fe_add(fe_negate(fe_add(fe_mul_int(t, 2), h3), 3), fe_sqr(i))
           y  == fe_mul(fe_add(fe_negate(x, 5), t), i)
           sum == Gej(x, fe_add(y, fe_negate(fe_mul(h3, s1), 1)), fe_mul(a.z, hz))
<1>1. \/ AddTail(a, u1, s1, h, i, hz).r = sum
      \/ AddTail(a, u1, s1, h, i, hz).r = gej_double_var(a)
      \/ AddTail(a, u1, s1, h, i, hz).r = Infinite(a)
  BY Zenon DEF AddTail, gej_double_var
<1>2. Bounded(a.x, 6) /\ Bounded(a.y, 4) /\ Bounded(a.z, 2)
  BY Zenon DEF GejKept
<1>3. GejKept(sum)
  <2> HIDE DEF h2, h3, t, x, y
  <2>1. Bounded(h2, 1)
    BY SqrBounded DEF h2
  <2>2. Bounded(h3, 1)
    BY <2>1, MulBounded DEF h3
  <2>3. Bounded(t, 1)
    BY <2>1, MulBounded DEF t
  <2>4. Bounded(x, 5)
    <3>1. Bounded(fe_negate(fe_add(fe_mul_int(t, 2), h3), 3), 4)
      BY <2>2, <2>3, MulIntBounded, AddBounded, NegateBounded
    <3> QED
      BY <3>1, SqrBounded, AddBounded DEF x
  <2>5. Bounded(y, 1)
    <3>1. Bounded(fe_add(fe_negate(x, 5), t), 7)
      BY <2>3, <2>4, AddBounded, NegateBounded
    <3> QED
      BY <3>1, MulBounded DEF y
  <2>6. Bounded(fe_add(y, fe_negate(fe_mul(h3, s1), 1)), 3)
    BY <2>2, <2>5, MulBounded, NegateBounded, AddBounded
  <2>7. Bounded(fe_mul(a.z, hz), 1)
    BY <1>2, MulBounded
  <2>8. /\ Bounded(x, 6) /\ Bounded(fe_add(y, fe_negate(fe_mul(h3, s1), 1)), 4)
        /\ Bounded(fe_mul(a.z, hz), 2)
    BY <2>4, <2>6, <2>7, BoundedMonotone
  <2> QED
    BY <2>8, GejFields, Zenon
<1> QED
  BY <1>1, <1>3, DoubleKept, InfiniteKept, Zenon

\* A difference of two products has magnitude 3.
LEMMA DiffBounded ==
    ASSUME NEW a, NEW b, Bounded(a, 1), Bounded(b, 1)
    PROVE  Bounded(Diff(a, b), 3)
  BY NegateBounded, AddBounded DEF Diff

\* gej_add_var keeps the bounds, in each of its cases.
LEMMA AddKept ==
    ASSUME NEW a, NEW b, GejKept(a), GejKept(b)
    PROVE  GejKept(gej_add_var(a, b))
<1> DEFINE z22 == fe_sqr(b.z)
           z12 == fe_sqr(a.z)
           u1 == fe_mul(a.x, z22)
           u2 == fe_mul(b.x, z12)
           s1 == fe_mul(fe_mul(a.y, z22), b.z)
           s2 == fe_mul(fe_mul(b.y, z12), a.z)
           h  == Diff(u1, u2)
           hz == fe_mul(h, b.z)
<1>1. \/ gej_add_var(a, b) = b
      \/ gej_add_var(a, b) = a
      \/ gej_add_var(a, b) = AddTail(a, u1, s1, h, Diff(s1, s2), hz).r
  BY Zenon DEF gej_add_var, gej_add_rzr
<1>2. /\ Bounded(a.x, 6) /\ Bounded(a.y, 4) /\ Bounded(a.z, 2)
      /\ Bounded(b.x, 6) /\ Bounded(b.y, 4) /\ Bounded(b.z, 2)
  BY Zenon DEF GejKept
<1> HIDE DEF z22, z12, u1, u2, s1, s2, h, hz
<1>3. Bounded(z22, 1) /\ Bounded(z12, 1)
  BY <1>2, SqrBounded DEF z22, z12
<1>4. Bounded(u1, 1) /\ Bounded(u2, 1)
  BY <1>2, <1>3, MulBounded DEF u1, u2
<1>5. Bounded(s1, 1) /\ Bounded(s2, 1)
  BY <1>2, <1>3, MulBounded DEF s1, s2
<1>6. Bounded(h, 3) /\ Bounded(Diff(s1, s2), 3)
  BY <1>4, <1>5, DiffBounded, Zenon DEF h
<1>7. Bounded(hz, 3)
  BY <1>2, <1>6, MulBounded, BoundedMonotone DEF hz
<1> QED
  BY <1>1, <1>4, <1>5, <1>6, <1>7, AddTailKept, Zenon

\* The sum with an affine point over some Z keeps the bounds.
LEMMA AddAffineKept ==
    ASSUME NEW a, NEW b, NEW az,
           GejKept(a), Bounded(b.x, 6), Bounded(b.y, 4), Bounded(az, 2)
    PROVE  GejKept(AddAffine(a, b, az).r)
<1> DEFINE z12 == fe_sqr(az)
           u1 == fe_normalize_weak(a.x)
           u2 == fe_mul(b.x, z12)
           s1 == fe_normalize_weak(a.y)
           s2 == fe_mul(fe_mul(b.y, z12), az)
           h  == Diff(u1, u2)
<1>1. AddAffine(a, b, az) = AddTail(a, u1, s1, h, Diff(s1, s2), h)
  BY Zenon DEF AddAffine
<1>2. Bounded(a.x, 6) /\ Bounded(a.y, 4)
  BY Zenon DEF GejKept
<1> HIDE DEF z12, u1, u2, s1, s2, h
<1>3. Bounded(z12, 1) /\ Bounded(u1, 1) /\ Bounded(s1, 1)
  BY <1>2, SqrBounded, NormalizeBounded DEF z12, u1, s1
<1>4. Bounded(u2, 1) /\ Bounded(s2, 1)
  BY <1>3, MulBounded DEF u2, s2
<1>5. Bounded(h, 3) /\ Bounded(Diff(s1, s2), 3)
  BY <1>3, <1>4, DiffBounded, Zenon DEF h
<1> QED
  BY <1>1, <1>3, <1>5, AddTailKept, Zenon

\* gej_add_ge_var keeps them.
LEMMA AddGeVarKept ==
    ASSUME NEW a, NEW b, GejKept(a), GeKept(b)
    PROVE  GejKept(gej_add_ge_var(a, b))
<1>1. \/ gej_add_ge_var(a, b) = gej_set_ge(b)
      \/ gej_add_ge_var(a, b) = a
      \/ gej_add_ge_var(a, b) = AddAffine(a, b, a.z).r
  BY Zenon DEF gej_add_ge_var, gej_add_ge_rzr
<1>2. Bounded(b.x, 6) /\ Bounded(b.y, 4) /\ Bounded(a.z, 2)
  BY Zenon DEF GejKept, GeKept
<1> QED
  BY <1>1, <1>2, SetGeKept, AddAffineKept, Zenon

\* With the inverse of Z at hand.
LEMMA SetZinvKept ==
    ASSUME NEW a, NEW zi, Bounded(a.x, 6), Bounded(a.y, 4), Bounded(zi, 3)
    PROVE  GeKept(ge_set_gej_zinv(a, zi))
<1>1. Bounded(fe_sqr(zi), 1)
  BY SqrBounded
<1>2. Bounded(fe_mul(fe_sqr(zi), zi), 1)
  BY <1>1, MulBounded
<1>3. /\ Bounded(fe_mul(a.x, fe_sqr(zi)), 6)
      /\ Bounded(fe_mul(a.y, fe_mul(fe_sqr(zi), zi)), 4)
  BY <1>1, <1>2, MulBounded, BoundedMonotone
<1> QED
  BY <1>3, GeFinite, Zenon DEF ge_set_gej_zinv

\* ge_set_gej leaves an affine point within its bounds.
LEMMA SetGejKept ==
    ASSUME NEW a, GejKept(a)
    PROVE  GeKept(ge_set_gej(a))
<1>1. Bounded(a.x, 6) /\ Bounded(a.y, 4) /\ Bounded(a.z, 2)
  BY Zenon DEF GejKept
<1>2. Bounded(fe_inv_var(a.z), 3)
  BY <1>1, InverseBounded, BoundedMonotone
<1> QED
  BY <1>1, <1>2, SetZinvKept, Zenon DEF ge_set_gej

\* gej_add_zinv_var keeps the bounds.
LEMMA AddZinvKept ==
    ASSUME NEW a, NEW b, NEW bzinv, GejKept(a), GeKept(b), Bounded(bzinv, 2)
    PROVE  GejKept(gej_add_zinv_var(a, b, bzinv))
<1> DEFINE q == ge_set_gej_zinv(b, bzinv)
           az == fe_mul(a.z, bzinv)
<1>1. \/ gej_add_zinv_var(a, b, bzinv) = a
      \/ gej_add_zinv_var(a, b, bzinv) = gej_set_ge(q)
      \/ gej_add_zinv_var(a, b, bzinv) = AddAffine(a, b, az).r
  BY Zenon DEF gej_add_zinv_var
<1>2. Bounded(b.x, 6) /\ Bounded(b.y, 4) /\ Bounded(a.z, 2)
  BY Zenon DEF GejKept, GeKept
<1>3. GeKept(q)
  BY <1>2, SetZinvKept, BoundedMonotone
<1>4. Bounded(az, 2)
  BY <1>2, MulBounded, BoundedMonotone
<1> HIDE DEF q, az
<1> QED
  BY <1>1, <1>2, <1>3, <1>4, SetGeKept, AddAffineKept, Zenon

\* The ordinate is freed of its carries first, so that it may be negated
\* whatever its magnitude was.
LEMMA NegatedOrdinate ==
    ASSUME NEW y, Bounded(y, 4)
    PROVE  Bounded(fe_negate(fe_normalize_weak(y), 1), 4)
  BY NormalizeBounded, NegateBounded, BoundedMonotone

\* gej_neg keeps the bounds: it normalizes y before it negates it.
LEMMA NegKept ==
    ASSUME NEW a, GejKept(a)
    PROVE  GejKept(gej_neg(a))
<1>1. /\ gej_neg(a).x = a.x /\ gej_neg(a).z = a.z /\ DOMAIN gej_neg(a) = DOMAIN a
      /\ gej_neg(a).y = fe_negate(fe_normalize_weak(a.y), 1)
  BY DEF gej_neg, GejKept
<1> QED
  BY <1>1, NegatedOrdinate, Zenon DEF GejKept

\* ge_neg keeps the bounds.
LEMMA GeNegKept ==
    ASSUME NEW b, GeKept(b)
    PROVE  GeKept(ge_neg(b))
<1>1. /\ ge_neg(b).x = b.x /\ DOMAIN ge_neg(b) = DOMAIN b
      /\ ge_neg(b).y = fe_negate(fe_normalize_weak(b.y), 1)
  BY DEF ge_neg, GeKept
<1> QED
  BY <1>1, NegatedOrdinate, Zenon DEF GeKept

\* gej_rescale keeps the bounds.
LEMMA RescaleKept ==
    ASSUME NEW a, NEW s, GejKept(a), Bounded(s, 1)
    PROVE  GejKept(gej_rescale(a, s))
<1> DEFINE r == gej_rescale(a, s)
<1>1. /\ r.x = fe_mul(a.x, fe_sqr(s)) /\ r.y = fe_mul(fe_mul(a.y, fe_sqr(s)), s)
      /\ r.z = fe_mul(a.z, s) /\ DOMAIN r = DOMAIN a
  BY DEF gej_rescale, GejKept
<1>2. Bounded(a.x, 6) /\ Bounded(a.y, 4) /\ Bounded(a.z, 2)
  BY Zenon DEF GejKept
<1>3. Bounded(fe_sqr(s), 1)
  BY SqrBounded
<1>4. Bounded(fe_mul(a.y, fe_sqr(s)), 1)
  BY <1>2, <1>3, MulBounded
<1> HIDE DEF r
<1>5. Bounded(r.x, 6) /\ Bounded(r.y, 4) /\ Bounded(r.z, 2)
  BY <1>1, <1>2, <1>3, <1>4, MulBounded, BoundedMonotone
<1> QED
  BY <1>1, <1>5, Zenon DEF GejKept, r

\* ge_mul_lambda keeps the bounds.
LEMMA MulLambdaKept ==
    ASSUME NEW b, GeKept(b)
    PROVE  GeKept(ge_mul_lambda(b))
<1>1. /\ ge_mul_lambda(b).x = fe_mul(b.x, fe_set_int(Beta))
      /\ ge_mul_lambda(b).y = b.y /\ DOMAIN ge_mul_lambda(b) = DOMAIN b
  BY DEF ge_mul_lambda, GeKept
<1>2. Bounded(b.x, 6) /\ Bounded(fe_set_int(Beta), 1)
  BY SetIntBounded, Zenon DEF GeKept
<1>3. Bounded(fe_mul(b.x, fe_set_int(Beta)), 6)
  BY <1>2, MulBounded, BoundedMonotone
<1> QED
  BY <1>1, <1>3, Zenon DEF GeKept

\* What comes out of the form for storage is within the bounds.
LEMMA StorageKept ==
    ASSUME NEW s PROVE GeKept(ge_from_storage(s))
<1>1. ASSUME NEW k PROVE Bounded(fe_from_storage(k), 1)
  <2>1. 1 \in 0..1
    OBVIOUS
  <2> QED
    BY <2>1, Zenon DEF Bounded, fe_from_storage
<1>2. Bounded(fe_from_storage(s.x), 6) /\ Bounded(fe_from_storage(s.y), 4)
  BY <1>1, BoundedMonotone
<1> QED
  BY <1>2, GeFinite, Zenon DEF ge_from_storage, Ge

\* The addition whose steps are always the same.
LEMMA AddGeKept ==
    ASSUME NEW a, NEW b, GejKept(a), GeKept(b)
    PROVE  GejKept(gej_add_ge(a, b))
<1> DEFINE zz == fe_sqr(a.z)
           u1 == fe_normalize_weak(a.x)
           u2 == fe_mul(b.x, zz)
           s1 == fe_normalize_weak(a.y)
           s2 == fe_mul(fe_mul(b.y, zz), a.z)
           t  == fe_add(u1, u2)
           m  == fe_add(s1, s2)
           m_neg == fe_negate(u2, 1)
           rr == fe_add(fe_sqr(t), fe_mul(u1, m_neg))
           degenerate == fe_normalizes_to_zero_var(m) /\ fe_normalizes_to_zero_var(rr)
           rr_alt == fe_cmov(fe_mul_int(s1, 2), rr, ~degenerate)
           m_alt  == fe_cmov(fe_add(m_neg, u1), m, ~degenerate)
           n  == fe_sqr(m_alt)
           q  == fe_negate(fe_mul(n, t), 1)
           n2 == fe_cmov(fe_sqr(n), m, degenerate)
           z  == fe_mul(a.z, m_alt)
           x  == fe_normalize_weak(fe_add(fe_sqr(rr_alt), q))
           t2 == fe_add(fe_mul(fe_add(fe_mul_int(x, 2), q), rr_alt), n2)
           y  == fe_normalize_weak(fe_negate(t2, 3))
           rx == fe_cmov(fe_mul_int(x, 4), b.x, a.infinity)
           ry == fe_cmov(fe_mul_int(y, 4), b.y, a.infinity)
           rz == fe_cmov(fe_mul_int(z, 2), FeOne, a.infinity)
           infinity == fe_normalizes_to_zero_var(z) /\ ~a.infinity
<1>1. gej_add_ge(a, b) = [x |-> rx, y |-> ry, z |-> rz, infinity |-> infinity]
  BY Zenon DEF gej_add_ge
<1>2. /\ Bounded(a.x, 6) /\ Bounded(a.y, 4) /\ Bounded(a.z, 2)
      /\ Bounded(b.x, 6) /\ Bounded(b.y, 4)
  BY Zenon DEF GejKept, GeKept
<1> HIDE DEF zz, u1, u2, s1, s2, t, m, m_neg, rr, degenerate, rr_alt, m_alt, n, q, n2,
             z, x, t2, y, rx, ry, rz, infinity
<1>3. Bounded(zz, 1) /\ Bounded(u1, 1) /\ Bounded(s1, 1)
  BY <1>2, SqrBounded, NormalizeBounded DEF zz, u1, s1
<1>4. Bounded(u2, 1) /\ Bounded(s2, 1)
  BY <1>2, <1>3, MulBounded DEF u2, s2
<1>5. Bounded(t, 2) /\ Bounded(m, 2) /\ Bounded(m_neg, 2)
  BY <1>3, <1>4, AddBounded, NegateBounded DEF t, m, m_neg
<1>6. Bounded(rr, 2)
  BY <1>3, <1>5, SqrBounded, MulBounded, AddBounded DEF rr
<1>7. Bounded(rr_alt, 2)
  BY <1>3, <1>6, MulIntBounded, CmovBounded DEF rr_alt
<1>8. Bounded(m_alt, 3)
  <2>1. Bounded(fe_add(m_neg, u1), 3) /\ Bounded(m, 3)
    BY <1>3, <1>5, AddBounded, BoundedMonotone
  <2> QED
    BY <2>1, CmovBounded DEF m_alt
<1>9. Bounded(n, 1) /\ Bounded(z, 1)
  BY <1>2, <1>8, SqrBounded, MulBounded DEF n, z
<1>10. Bounded(q, 2)
  BY <1>5, <1>9, MulBounded, NegateBounded DEF q
<1>11. Bounded(n2, 2)
  <2>1. Bounded(fe_sqr(n), 2)
    BY <1>9, SqrBounded, BoundedMonotone
  <2> QED
    BY <1>5, <2>1, CmovBounded DEF n2
<1>12. Bounded(x, 1)
  <2>1. Bounded(fe_add(fe_sqr(rr_alt), q), 3)
    BY <1>7, <1>10, SqrBounded, AddBounded
  <2> QED
    BY <2>1, NormalizeBounded DEF x
<1>13. Bounded(t2, 3)
  <2>1. Bounded(fe_add(fe_mul_int(x, 2), q), 4)
    BY <1>10, <1>12, MulIntBounded, AddBounded
  <2>2. Bounded(fe_mul(fe_add(fe_mul_int(x, 2), q), rr_alt), 1)
    BY <1>7, <2>1, MulBounded
  <2> QED
    BY <1>11, <2>2, AddBounded DEF t2
<1>14. Bounded(y, 1)
  BY <1>13, NegateBounded, NormalizeBounded DEF y
<1>15. Bounded(rx, 6)
  <2>1. Bounded(fe_mul_int(x, 4), 6)
    BY <1>12, MulIntBounded, BoundedMonotone
  <2> QED
    BY <1>2, <2>1, CmovBounded DEF rx
<1>16. Bounded(ry, 4)
  <2>1. Bounded(fe_mul_int(y, 4), 4)
    BY <1>14, MulIntBounded
  <2> QED
    BY <1>2, <2>1, CmovBounded DEF ry
<1>17. Bounded(rz, 2)
  <2>1. Bounded(fe_mul_int(z, 2), 2)
    BY <1>9, MulIntBounded
  <2>2. Bounded(FeOne, 2)
    BY SetIntBounded, BoundedMonotone DEF FeOne
  <2> QED
    BY <2>1, <2>2, CmovBounded DEF rz
<1> QED
  BY <1>1, <1>15, <1>16, <1>17, GejFinite, Zenon

\* The operands of the walk are within the bounds.
LEMMA OperandsKept ==
    ASSUME NEW i, NEW z
    PROVE  GeKept(AffineOf(i)) /\ GejKept(JacobianOf(i, z)) /\ GejKept(gej_infinity)
<1>1. ASSUME NEW k PROVE Bounded(fe_set_int(k), 6) /\ Bounded(fe_set_int(k), 4) /\ Bounded(fe_set_int(k), 2)
  BY SetIntBounded, BoundedMonotone
<1>2. GeKept(AffineOf(i))
  BY <1>1, GeFinite, Zenon DEF AffineOf, Ge, FeZero
<1>3. GejKept(gej_infinity)
  BY <1>1, GejFinite, Zenon DEF gej_infinity, FeZero
<1>4. GejKept(JacobianOf(i, z))
  BY <1>2, <1>3, SetGeKept, SetIntBounded, RescaleKept, Zenon DEF JacobianOf
<1> QED
  BY <1>2, <1>3, <1>4
-----------------------------------------------------------------------------
(* Tables of odd multiples.                                                *)

\* A row of Multiples as an equation, one cell from the one before it.
RowStep(a, a_ge, d, i, p) ==
    IF i = 1 THEN [r |-> Gej(a_ge.x, a_ge.y, a.z), rzr |-> d.z]
    ELSE gej_add_ge_rzr(p.r, Ge(d.x, d.y))

\* f is that row.
IsRow(f, len, a, a_ge, d) == f = [i \in 1..len |-> RowStep(a, a_ge, d, i, f[i - 1])]

\* The row exists.
LEMMA RowExists ==
    ASSUME NEW len \in Nat, NEW a, NEW a_ge, NEW d
    PROVE  \E f : IsRow(f, len, a, a_ge, d)
<1> DEFINE S == {n \in Nat : \E f : IsRow(f, n, a, a_ge, d)}
<1>1. ASSUME NEW p, NEW q PROVE RowStep(a, a_ge, d, 1, p) = RowStep(a, a_ge, d, 1, q)
  BY Zenon DEF RowStep
<1>2. 0 \in S
  <2> DEFINE f == [i \in 1..0 |-> 0]
  <2>1. IsRow(f, 0, a, a_ge, d)
    BY DEF IsRow
  <2> QED
    BY <2>1
<1>3. ASSUME NEW n \in Nat, n \in S
      PROVE  n + 1 \in S
  <2>1. PICK f : IsRow(f, n, a, a_ge, d)
    BY <1>3
  <2> DEFINE h == [i \in 1..(n + 1) |->
                     IF i = n + 1 THEN RowStep(a, a_ge, d, i, f[n]) ELSE f[i]]
  <2>2. ASSUME NEW i \in 1..(n + 1)
        PROVE  h[i] = RowStep(a, a_ge, d, i, h[i - 1])
    <3>1. CASE i = n + 1 /\ i # 1
      <4>1. h[i] = RowStep(a, a_ge, d, i, f[n]) /\ h[i - 1] = f[n]
        BY <3>1
      <4> QED
        BY <4>1
    <3>2. CASE i # n + 1 /\ i # 1
      <4>1. h[i] = f[i] /\ h[i - 1] = f[i - 1] /\ i \in 1..n
        BY <3>2
      <4>2. f[i] = RowStep(a, a_ge, d, i, f[i - 1])
        BY <2>1, <4>1 DEF IsRow
      <4> QED
        BY <4>1, <4>2
    <3>3. CASE i = 1
      <4>1. CASE n = 0
        BY <1>1, <3>3, <4>1
      <4>2. CASE n # 0
        <5>1. h[i] = f[i] /\ i \in 1..n
          BY <3>3, <4>2
        <5>2. f[i] = RowStep(a, a_ge, d, i, f[i - 1])
          BY <2>1, <5>1 DEF IsRow
        <5> HIDE DEF h
        <5> QED
          BY <1>1, <3>3, <5>1, <5>2
      <4> QED
        BY <4>1, <4>2
    <3> QED
      BY <3>1, <3>2, <3>3
  <2>3. h = [i \in 1..(n + 1) |-> RowStep(a, a_ge, d, i, h[i - 1])]
    <3>1. h = [i \in 1..(n + 1) |-> h[i]]
      OBVIOUS
    <3> HIDE DEF h
    <3> QED
      BY <2>2, <3>1
  <2> HIDE DEF h
  <2> QED
    BY <2>3 DEF IsRow
<1>4. Nat \subseteq S
  <2> HIDE DEF S
  <2> QED
    BY <1>2, <1>3, SetInduction
<1> QED
  BY <1>4
\* Multiples is the row.
LEMMA MultiplesRow ==
    ASSUME NEW len \in Nat, NEW a, NEW a_ge, NEW d
    PROVE  IsRow(Multiples(len, a, a_ge, d), len, a, a_ge, d)
<1>1. Multiples(len, a, a_ge, d) = CHOOSE f : IsRow(f, len, a, a_ge, d)
  BY Zenon DEF Multiples, IsRow, RowStep
<1> QED
  BY <1>1, RowExists, Zenon

\* The ratio that an addition to a finite point hands out is bounded.
LEMMA RatioBounded ==
    ASSUME NEW a, NEW b, GejKept(a), Bounded(b.x, 6), Bounded(b.y, 4), ~a.infinity
    PROVE  Bounded(gej_add_ge_rzr(a, b).rzr, 3)
<1>1. Bounded(a.x, 6) /\ Bounded(a.y, 4) /\ Bounded(a.z, 2)
  BY Zenon DEF GejKept
<1>2. Bounded(FeOne, 3) /\ Bounded(FeZero, 3)
  BY SetIntBounded, BoundedMonotone DEF FeOne, FeZero
<1>3. Bounded(gej_double_rzr(a).rzr, 3)
  <2>1. Bounded(fe_mul_int(fe_normalize_weak(a.y), 2), 3)
    BY <1>1, NormalizeBounded, MulIntBounded, BoundedMonotone
  <2> QED
    BY <1>2, <2>1, Zenon DEF gej_double_rzr
<1>4. Bounded(AddAffine(a, b, a.z).rzr, 3)
  <2> DEFINE z12 == fe_sqr(a.z)
             u1 == fe_normalize_weak(a.x)
             u2 == fe_mul(b.x, z12)
             s1 == fe_normalize_weak(a.y)
             s2 == fe_mul(fe_mul(b.y, z12), a.z)
             h  == Diff(u1, u2)
  <2>1. \/ AddAffine(a, b, a.z).rzr = h
        \/ AddAffine(a, b, a.z).rzr = gej_double_rzr(a).rzr
        \/ AddAffine(a, b, a.z).rzr = FeZero
    BY Zenon DEF AddAffine, AddTail
  <2> HIDE DEF z12, u1, u2, h
  <2>2. Bounded(z12, 1) /\ Bounded(u1, 1)
    BY <1>1, SqrBounded, NormalizeBounded DEF z12, u1
  <2>3. Bounded(u2, 1)
    BY <2>2, MulBounded DEF u2
  <2>4. Bounded(h, 3)
    BY <2>2, <2>3, DiffBounded, Zenon DEF h
  <2> QED
    BY <1>2, <1>3, <2>1, <2>4, Zenon
<1>5. gej_add_ge_rzr(a, b).rzr = FeOne \/ gej_add_ge_rzr(a, b).rzr = AddAffine(a, b, a.z).rzr
  BY Zenon DEF gej_add_ge_rzr
<1> QED
  BY <1>2, <1>4, <1>5, Zenon

\* A table of odd multiples: every entry is in bounds, and so is its ratio to
\* the entry before it unless that one is at infinity.
RowKept(f, len) ==
    \A i \in 1..len :
        /\ GejKept(f[i].r)
        /\ (i = 1 \/ ~f[i - 1].r.infinity) => Bounded(f[i].rzr, 3)

\* Every multiple keeps the bounds, and every ratio that there is.
LEMMA MultiplesKept ==
    ASSUME NEW len \in Nat, NEW a, NEW a_ge, NEW d,
           GejKept(a), GejKept(d), GeKept(a_ge)
    PROVE  RowKept(Multiples(len, a, a_ge, d), len)
<1> DEFINE f == Multiples(len, a, a_ge, d)
           Kept(i) == /\ GejKept(f[i].r)
                      /\ (i = 1 \/ ~f[i - 1].r.infinity) => Bounded(f[i].rzr, 3)
           S == {n \in Nat : n \in 1..len => Kept(n)}
<1>1. ASSUME NEW i \in 1..len
      PROVE  f[i] = RowStep(a, a_ge, d, i, f[i - 1])
  BY MultiplesRow DEF IsRow
<1>2. Bounded(d.x, 6) /\ Bounded(d.y, 4) /\ Bounded(d.z, 2) /\ Bounded(d.z, 3)
  BY BoundedMonotone DEF GejKept
<1>3. Bounded(a_ge.x, 6) /\ Bounded(a_ge.y, 4) /\ Bounded(a.z, 2)
  BY Zenon DEF GejKept, GeKept
<1>4. GeKept(Ge(d.x, d.y)) /\ Ge(d.x, d.y).x = d.x /\ Ge(d.x, d.y).y = d.y
  BY <1>2, GeFinite, Zenon DEF Ge
<1> HIDE DEF f
<1>5. 0 \in S
  OBVIOUS
<1>6. ASSUME 1 \in 1..len
      PROVE  Kept(1)
  <2>1. /\ f[1].r = Gej(a_ge.x, a_ge.y, a.z)
        /\ f[1].rzr = d.z
    <3>1. f[1] = RowStep(a, a_ge, d, 1, f[1 - 1])
      BY <1>1, <1>6
    <3>2. f[1] = [r |-> Gej(a_ge.x, a_ge.y, a.z), rzr |-> d.z]
      BY <3>1, Zenon DEF RowStep
    <3> QED
      BY <3>2
  <2> QED
    BY <1>2, <1>3, <2>1, GejFields, Zenon
<1>7. ASSUME NEW n \in Nat, n \in S
      PROVE  n + 1 \in S
  <2>1. CASE n = 0
    BY <1>6, <2>1
  <2>2. CASE n # 0 /\ n + 1 \in 1..len
    <3>1. n \in 1..len /\ n + 1 # 1 /\ n + 1 - 1 = n
      BY <2>2
    <3>2. GejKept(f[n].r)
      BY <1>7, <3>1
    <3>3. f[n + 1] = gej_add_ge_rzr(f[n].r, Ge(d.x, d.y))
      BY <1>1, <2>2, <3>1 DEF RowStep
    <3>4. GejKept(f[n + 1].r)
      BY <1>4, <3>2, <3>3, AddGeVarKept, Zenon DEF gej_add_ge_var
    <3>5. ~f[n].r.infinity => Bounded(f[n + 1].rzr, 3)
      BY <1>2, <1>4, <3>2, <3>3, RatioBounded, Zenon
    <3>6. Kept(n + 1)
      BY <3>1, <3>4, <3>5
    <3> QED
      BY <3>6
  <2>3. CASE n + 1 \notin 1..len
    BY <2>3
  <2> QED
    BY <2>1, <2>2, <2>3
<1>8. Nat \subseteq S
  <2> HIDE DEF S
  <2> QED
    BY <1>5, <1>7, SetInduction
<1>9. \A i \in 1..len : Kept(i)
  BY <1>8
<1> QED
  BY <1>9, Zenon DEF RowKept, f
\* A sequence given by its elements has their number.
LEMMA LengthOf ==
    ASSUME NEW len \in Nat, NEW g
    PROVE  Len([i \in 1..len |-> g[i]]) = len
  OBVIOUS

\* The same of a sequence that is equal to one.
LEMMA LengthFrom ==
    ASSUME NEW len \in Nat, NEW g, NEW h, g = [i \in 1..len |-> h[i]]
    PROVE  Len(g) = len
  BY LengthOf

\* The ratios multiplied from the last one down.
ZsStep(zr, len, i, p) == IF i = len - 1 THEN zr[len] ELSE fe_mul(p, zr[i + 1])

\* f is that chain, from low on.
IsZs(f, zr, len, low) == f = [i \in low..(len - 1) |-> ZsStep(zr, len, i, f[i + 1])]

\* The chain exists.
LEMMA ZsExists ==
    ASSUME NEW zr, NEW len \in Nat
    PROVE  \E f : IsZs(f, zr, len, 1)
<1> DEFINE S == {n \in Nat : \E f : IsZs(f, zr, len, len - n)}
<1>1. ASSUME NEW p, NEW q PROVE ZsStep(zr, len, len - 1, p) = ZsStep(zr, len, len - 1, q)
  BY Zenon DEF ZsStep
<1>2. 0 \in S
  <2> DEFINE f == [i \in (len - 0)..(len - 1) |-> 0]
  <2>1. IsZs(f, zr, len, len - 0)
    BY DEF IsZs
  <2> QED
    BY <2>1
<1>3. ASSUME NEW n \in Nat, n \in S
      PROVE  n + 1 \in S
  <2>1. PICK f : IsZs(f, zr, len, len - n)
    BY <1>3
  <2> DEFINE low == len - (n + 1)
             h == [i \in low..(len - 1) |->
                     IF i = low THEN ZsStep(zr, len, i, f[i + 1]) ELSE f[i]]
  <2>2. ASSUME NEW i \in low..(len - 1)
        PROVE  h[i] = ZsStep(zr, len, i, h[i + 1])
    <3>1. CASE i = low /\ i # len - 1
      <4>1. h[i] = ZsStep(zr, len, i, f[i + 1]) /\ h[i + 1] = f[i + 1]
        BY <3>1
      <4> QED
        BY <4>1
    <3>2. CASE i # low /\ i # len - 1
      <4>1. h[i] = f[i] /\ h[i + 1] = f[i + 1] /\ i \in (len - n)..(len - 1)
        BY <3>2
      <4>2. f[i] = ZsStep(zr, len, i, f[i + 1])
        BY <2>1, <4>1 DEF IsZs
      <4> QED
        BY <4>1, <4>2
    <3>3. CASE i = len - 1
      <4>1. CASE i = low
        <5>1. h[i] = ZsStep(zr, len, i, f[i + 1])
          BY <4>1
        <5> HIDE DEF h
        <5> QED
          BY <1>1, <3>3, <5>1
      <4>2. CASE i # low
        <5>1. h[i] = f[i] /\ i \in (len - n)..(len - 1)
          BY <3>3, <4>2
        <5>2. f[i] = ZsStep(zr, len, i, f[i + 1])
          BY <2>1, <5>1 DEF IsZs
        <5> HIDE DEF h
        <5> QED
          BY <1>1, <3>3, <5>1, <5>2
      <4> QED
        BY <4>1, <4>2
    <3> QED
      BY <3>1, <3>2, <3>3
  <2>3. h = [i \in low..(len - 1) |-> ZsStep(zr, len, i, h[i + 1])]
    <3>1. h = [i \in low..(len - 1) |-> h[i]]
      OBVIOUS
    <3> HIDE DEF h
    <3> QED
      BY <2>2, <3>1
  <2>4. IsZs(h, zr, len, len - (n + 1))
    <3> HIDE DEF h
    <3> QED
      BY <2>3 DEF IsZs
  <2> HIDE DEF h
  <2> QED
    BY <2>4
<1>4. Nat \subseteq S
  <2> HIDE DEF S
  <2> QED
    BY <1>2, <1>3, SetInduction
<1>5. CASE len >= 1
  <2>1. len - 1 \in Nat /\ len - (len - 1) = 1
    BY <1>5
  <2>2. len - 1 \in S
    BY <1>4, <2>1
  <2> QED
    BY <2>1, <2>2
<1>6. CASE len = 0
  <2> DEFINE f == [i \in 1..(len - 1) |-> 0]
  <2>1. IsZs(f, zr, len, 1)
    BY <1>6 DEF IsZs
  <2> QED
    BY <2>1
<1> QED
  BY <1>5, <1>6

\* The chain that ge_globalz_set_table_gej multiplies up.
GlobalZs(zr, len) == CHOOSE f : IsZs(f, zr, len, 1)

\* Its factors are bounded where the ratios are.
LEMMA GlobalZsBounded ==
    ASSUME NEW zr, NEW len \in Nat, \A i \in 1..len : Bounded(zr[i], 3)
    PROVE  \A i \in 1..(len - 1) : Bounded(GlobalZs(zr, len)[i], 3)
<1> DEFINE f == GlobalZs(zr, len)
           S == {n \in Nat : len - 1 - n \in 1..(len - 1) => Bounded(f[len - 1 - n], 3)}
<1>1. ASSUME NEW i \in 1..(len - 1)
      PROVE  f[i] = ZsStep(zr, len, i, f[i + 1])
  <2>1. IsZs(f, zr, len, 1)
    BY ZsExists, Zenon DEF GlobalZs
  <2> HIDE DEF f
  <2> QED
    BY <2>1 DEF IsZs
<1> HIDE DEF f
<1>2. 0 \in S
  <2>1. ASSUME len - 1 \in 1..(len - 1) PROVE Bounded(f[len - 1], 3)
    <3>1. f[len - 1] = zr[len]
      BY <1>1, <2>1 DEF ZsStep
    <3> QED
      BY <2>1, <3>1
  <2> QED
    BY <2>1
<1>3. ASSUME NEW n \in Nat, n \in S
      PROVE  n + 1 \in S
  <2> DEFINE i == len - 1 - (n + 1)
  <2>1. ASSUME i \in 1..(len - 1) PROVE Bounded(f[i], 3)
    <3>1. Bounded(f[i + 1], 3)
      <4>1. i + 1 = len - 1 - n /\ len - 1 - n \in 1..(len - 1)
        BY <2>1
      <4> QED
        BY <1>3, <4>1
    <3>2. f[i] = fe_mul(f[i + 1], zr[i + 1]) /\ i + 1 \in 1..len
      BY <1>1, <2>1 DEF ZsStep
    <3> HIDE DEF i
    <3> QED
      BY <3>1, <3>2, MulBounded, BoundedMonotone
  <2> QED
    BY <2>1
<1>4. Nat \subseteq S
  <2> HIDE DEF S
  <2> QED
    BY <1>2, <1>3, SetInduction
<1>5. ASSUME NEW i \in 1..(len - 1) PROVE Bounded(f[i], 3)
  <2>1. len - 1 - i \in S /\ len - 1 - (len - 1 - i) = i
    BY <1>4
  <2> QED
    BY <2>1
<1> QED
  BY <1>5, Zenon DEF f

\* ge_globalz_set_table_gej leaves a table within the bounds, over a Z within its
\* own, where the ratios that it reads are bounded.
LEMMA OverOneZKept ==
    ASSUME NEW a, NEW zr, NEW len \in Nat, len >= 1, Len(a) = len,
           \A i \in 1..len : GejKept(a[i]) /\ Bounded(zr[i], 3)
    PROVE  LET t == ge_globalz_set_table_gej(a, zr)
           IN Bounded(t.globalz, 2) /\ Len(t.r) = len /\ \A i \in 1..len : GeKept(t.r[i])
<1> DEFINE zs == GlobalZs(zr, Len(a))
           t == ge_globalz_set_table_gej(a, zr)
           entry(i) == IF i = Len(a) THEN Ge(a[Len(a)].x, a[Len(a)].y)
                       ELSE ge_set_gej_zinv(a[i], zs[i])
<1>1. t = [globalz |-> a[Len(a)].z, r |-> [i \in 1..Len(a) |-> entry(i)]]
  BY Zenon DEF ge_globalz_set_table_gej, GlobalZs, IsZs, ZsStep
<1>2. \A i \in 1..(len - 1) : Bounded(zs[i], 3)
  BY GlobalZsBounded
<1> HIDE DEF zs, t
<1>3. ASSUME NEW i \in 1..len
      PROVE  GeKept(entry(i))
  <2>1. Bounded(a[i].x, 6) /\ Bounded(a[i].y, 4)
    BY Zenon DEF GejKept
  <2>2. CASE i = len
    BY <2>1, <2>2, GeFinite, Zenon DEF Ge
  <2>3. CASE i # len
    <3>1. Bounded(zs[i], 3) /\ entry(i) = ge_set_gej_zinv(a[i], zs[i])
      BY <1>2, <2>3
    <3> HIDE DEF entry
    <3> QED
      BY <2>1, <3>1, SetZinvKept, Zenon
  <2> QED
    BY <2>2, <2>3
<1> HIDE DEF entry
<1>4. t.globalz = a[len].z /\ t.r = [i \in 1..len |-> entry(i)]
  <2>1. t.globalz = a[Len(a)].z /\ t.r = [i \in 1..Len(a) |-> entry(i)]
    BY ONLY <1>1
  <2> QED
    BY <2>1, Zenon
<1>5. Bounded(a[len].z, 2)
  <2>1. len \in 1..len
    OBVIOUS
  <2> QED
    BY <2>1, Zenon DEF GejKept
<1>6. Len(t.r) = len /\ \A i \in 1..len : t.r[i] = entry(i)
  BY <1>4
<1> QED
  BY <1>3, <1>4, <1>5, <1>6, Zenon DEF t

\* The table of a as OverOneZ and TableToStorage get it.
LEMMA OddMultiplesKept ==
    ASSUME NEW len \in Nat, NEW a, GejKept(a)
    PROVE  LET t == odd_multiples_table(len, a)
           IN /\ Len(t.prej) = len
              /\ \A i \in 1..len : GejKept(t.prej[i])
              /\ (\A i \in 1..len : ~t.prej[i].infinity) => \A i \in 1..len : Bounded(t.zr[i], 3)
<1> DEFINE d == gej_double_var(a)
           a_ge == ge_set_gej_zinv(a, d.z)
           row == Multiples(len, a, a_ge, d)
           t == odd_multiples_table(len, a)
           entry(i) == IF i < len THEN row[i].r ELSE [row[i].r EXCEPT !.z = fe_mul(@, d.z)]
<1>1. t = [prej |-> [i \in 1..len |-> entry(i)], zr |-> [i \in 1..len |-> row[i].rzr]]
  BY Zenon DEF odd_multiples_table, MultiplesBy, WithRatios
<1>2. GejKept(d)
  BY DoubleKept
<1> HIDE DEF d
<1>3. GeKept(a_ge)
  <2>1. Bounded(a.x, 6) /\ Bounded(a.y, 4) /\ Bounded(d.z, 3)
    BY <1>2, BoundedMonotone DEF GejKept
  <2> QED
    BY <2>1, SetZinvKept, Zenon
<1> HIDE DEF a_ge
<1>4. RowKept(row, len)
  BY <1>2, <1>3, MultiplesKept, Zenon
<1> HIDE DEF row, t
<1>5. ASSUME NEW i \in 1..len
      PROVE  GejKept(entry(i)) /\ entry(i).infinity = row[i].r.infinity
  <2>1. GejKept(row[i].r)
    BY <1>4, Zenon DEF RowKept
  <2> DEFINE e == [row[i].r EXCEPT !.z = fe_mul(@, d.z)]
  <2>2. /\ e.x = row[i].r.x /\ e.y = row[i].r.y /\ e.z = fe_mul(row[i].r.z, d.z)
        /\ e.infinity = row[i].r.infinity /\ DOMAIN e = DOMAIN row[i].r
    BY <2>1 DEF GejKept
  <2> HIDE DEF e
  <2>3. Bounded(fe_mul(row[i].r.z, d.z), 2)
    BY <1>2, <2>1, MulBounded, BoundedMonotone DEF GejKept
  <2>4. GejKept(e)
    BY <2>1, <2>2, <2>3, Zenon DEF GejKept
  <2>5. entry(i) = row[i].r \/ entry(i) = e
    BY Zenon DEF e
  <2> HIDE DEF entry
  <2> QED
    BY <2>1, <2>2, <2>4, <2>5, Zenon
<1> HIDE DEF entry
<1>6. t.prej = [i \in 1..len |-> entry(i)] /\ t.zr = [i \in 1..len |-> row[i].rzr]
  BY ONLY <1>1
<1>7. Len(t.prej) = len
  BY <1>6
<1>8. \A i \in 1..len : t.prej[i] = entry(i) /\ t.zr[i] = row[i].rzr
  BY <1>6, Zenon
<1>9. ASSUME \A i \in 1..len : ~t.prej[i].infinity, NEW i \in 1..len
      PROVE  Bounded(t.zr[i], 3)
  <2>1. i = 1 \/ i - 1 \in 1..len
    OBVIOUS
  <2>2. i = 1 \/ ~row[i - 1].r.infinity
    BY <1>5, <1>8, <1>9, <2>1, Zenon
  <2> QED
    BY <1>4, <1>8, <2>2, Zenon DEF RowKept
<1> QED
  BY <1>5, <1>7, <1>8, <1>9, Zenon DEF t

\* A digit of the table finds an entry within the bounds.
LEMMA TableGetKept ==
    ASSUME NEW pre, NEW len \in Nat, Len(pre) = len, NEW digit, TablePlaces(len, digit),
           \A i \in 1..len : GeKept(pre[i])
    PROVE  GeKept(TableGet(pre, digit))
<1>1. InTable(pre, digit)
  BY DEF InTable, TablePlaces
<1>2. digit \in Int
  BY DEF TablePlaces
<1>3. CASE digit > 0
  <2>1. TableGet(pre, digit) = pre[(digit + 1) \div 2]
    BY <1>1, <1>3, Zenon DEF TableGet
  <2>2. (digit + 1) \div 2 \in 1..len
    BY <1>3, PlaceInTable
  <2> QED
    BY <2>1, <2>2, Zenon
<1>4. CASE ~(digit > 0)
  <2>1. TableGet(pre, digit) = ge_neg(pre[(1 - digit) \div 2])
    BY <1>1, <1>4, Zenon DEF TableGet
  <2>2. digit < 0
    BY <1>2, <1>4, PlaceInTable
  <2>3. (1 - digit) \div 2 \in 1..len
    BY <2>2, PlaceInTable
  <2> QED
    BY <2>1, <2>3, GeNegKept, Zenon
<1> QED
  BY <1>3, <1>4

\* So it does in a table in the form for storage.
LEMMA TableGetStorageKept ==
    ASSUME NEW pre, NEW len \in Nat, Len(pre) = len, NEW digit, TablePlaces(len, digit)
    PROVE  GeKept(TableGetStorage(pre, digit))
<1>1. InTable(pre, digit)
  BY DEF InTable, TablePlaces
<1> QED
  BY <1>1, StorageKept, GeNegKept, Zenon DEF TableGetStorage

-----------------------------------------------------------------------------
(* secp256k1_ecmult.                                                       *)

\* A row of EcmultDown as an equation, one cell from the one above it.
DownRow(ctx, t, lam, wnaf, i, p) ==
    IF i = Half + 2 THEN gej_infinity ELSE EcmultStep(ctx, t, lam, wnaf, i, p)

\* f is that row, from low on.
IsDown(f, ctx, t, lam, wnaf, low) ==
    f = [i \in low..(Half + 2) |-> DownRow(ctx, t, lam, wnaf, i, f[i + 1])]

\* The row exists.
LEMMA DownExists ==
    ASSUME NEW ctx, NEW t, NEW lam, NEW wnaf
    PROVE  \E f : IsDown(f, ctx, t, lam, wnaf, 0)
<1> DEFINE Row(i, p) == DownRow(ctx, t, lam, wnaf, i, p)
<1>1. ASSUME NEW f, NEW low
      PROVE  IsDown(f, ctx, t, lam, wnaf, low) <=> f = [i \in low..(Half + 2) |-> Row(i, f[i + 1])]
  BY DEF IsDown
<1>2. ASSUME NEW p, NEW q PROVE Row(Half + 2, p) = Row(Half + 2, q)
  BY Zenon DEF DownRow
<1> HIDE DEF Row
<1> PICK n \in Nat : n = Half + 2
  BY OrderSizes
<1> DEFINE S == {k \in Nat : k <= n => \E f : f = [i \in (n - k)..n |-> Row(i, f[i + 1])]}
<1>3. 0 \in S
  <2> DEFINE f == [i \in (n - 0)..n |-> Row(i, 0)]
  <2>1. ASSUME NEW i \in (n - 0)..n PROVE Row(i, 0) = Row(i, f[i + 1])
    <3>1. i = Half + 2
      OBVIOUS
    <3> HIDE DEF f
    <3> QED
      BY <1>2, <3>1
  <2>2. f = [i \in (n - 0)..n |-> Row(i, f[i + 1])]
    <3>1. \A i \in (n - 0)..n : f[i] = Row(i, f[i + 1])
      BY <2>1
    <3>2. f = [i \in (n - 0)..n |-> f[i]]
      OBVIOUS
    <3> HIDE DEF f
    <3> QED
      BY <3>1, <3>2
  <2> HIDE DEF f
  <2> QED
    BY <2>2
<1>4. ASSUME NEW k \in Nat, k \in S PROVE k + 1 \in S
  <2> SUFFICES ASSUME k + 1 <= n
               PROVE  \E f : f = [i \in (n - (k + 1))..n |-> Row(i, f[i + 1])]
    OBVIOUS
  <2>1. PICK f : f = [i \in (n - k)..n |-> Row(i, f[i + 1])]
    BY <1>4
  <2> PICK low \in Nat : low = n - (k + 1)
    OBVIOUS
  <2> DEFINE h == [i \in low..n |-> IF i = low THEN Row(i, f[i + 1]) ELSE f[i]]
  <2>2. ASSUME NEW i \in low..n PROVE h[i] = Row(i, h[i + 1])
    <3>1. CASE i = low
      <4>1. h[i] = Row(i, f[i + 1]) /\ h[i + 1] = f[i + 1]
        BY <3>1
      <4> QED
        BY <4>1
    <3>2. CASE i # low /\ i # n
      <4>1. h[i] = f[i] /\ h[i + 1] = f[i + 1] /\ i \in (n - k)..n
        BY <3>2
      <4>2. f[i] = Row(i, f[i + 1])
        BY <2>1, <4>1
      <4> QED
        BY <4>1, <4>2
    <3>3. CASE i # low /\ i = n
      <4>1. h[i] = f[i] /\ i \in (n - k)..n /\ i = Half + 2
        BY <3>3
      <4>2. f[i] = Row(i, f[i + 1])
        BY <2>1, <4>1
      <4> HIDE DEF h
      <4> QED
        BY <1>2, <4>1, <4>2
    <3> QED
      BY <3>1, <3>2, <3>3
  <2>3. h = [i \in low..n |-> Row(i, h[i + 1])]
    <3>1. h = [i \in low..n |-> h[i]]
      OBVIOUS
    <3> HIDE DEF h
    <3> QED
      BY <2>2, <3>1
  <2> HIDE DEF h
  <2> QED
    BY <2>3
<1>5. Nat \subseteq S
  <2> HIDE DEF S
  <2> QED
    BY <1>3, <1>4, SetInduction
<1>6. n \in S /\ n - n = 0
  BY <1>5
<1>7. PICK f : f = [i \in 0..n |-> Row(i, f[i + 1])]
  BY <1>6
<1>8. IsDown(f, ctx, t, lam, wnaf, 0)
  BY <1>1, <1>7, Zenon
<1> QED
  BY <1>8

\* EcmultDown is its lowest cell.
LEMMA DownIsDown ==
    ASSUME NEW ctx, NEW t, NEW lam, NEW wnaf
    PROVE  \E f : IsDown(f, ctx, t, lam, wnaf, 0) /\ EcmultDown(ctx, t, lam, wnaf) = f[0]
<1> DEFINE f == CHOOSE f : IsDown(f, ctx, t, lam, wnaf, 0)
<1>1. EcmultDown(ctx, t, lam, wnaf) = f[0]
  BY Zenon DEF EcmultDown, IsDown, DownRow
<1>2. IsDown(f, ctx, t, lam, wnaf, 0)
  BY DownExists, Zenon
<1> QED
  BY <1>1, <1>2, Zenon

\* ecmult_wnaf leaves digits of the table only, whatever the scalar.
LEMMA WnafPlaced ==
    ASSUME NEW a \in Scalar, NEW w \in Nat, w >= 2, NEW len \in Nat
    PROVE  Placed(ecmult_wnaf(len, a, w), len, w, 0)
<1> DEFINE negative == scalar_get_bits(a, Bits - 1, 1) = 1
           s == IF negative THEN scalar_negate(a, a) ELSE a
<1>1. s \in Nat
  BY OrderSizes DEF Scalar, scalar_negate
<1>2. ecmult_wnaf(len, a, w) = (CHOOSE f : IsScan(f, s, w, len, negative, 0))[0][0]
  BY WnafIsScan, Zenon
<1> HIDE DEF s, negative
<1>3. PICK f : IsScan(f, s, w, len, negative, 0) /\ ecmult_wnaf(len, a, w) = f[0][0]
  <2>1. \E f : IsScan(f, s, w, len, negative, 0)
    BY <1>1, ScanExists
  <2> DEFINE f == CHOOSE f : IsScan(f, s, w, len, negative, 0)
  <2>2. IsScan(f, s, w, len, negative, 0)
    BY <2>1, Zenon
  <2> QED
    BY <1>2, <2>2, Zenon
<1>4. 0 \in 0..len /\ 0 \in 0..1
  OBVIOUS
<1>5. Placed(f[0][0], len, w, 0)
  BY <1>1, <1>3, <1>4, ScanPlaced
<1> QED
  BY <1>3, <1>5

\* The halves of split_128 are scalars.
LEMMA PartsScalar ==
    ASSUME NEW a \in Scalar
    PROVE  scalar_split_128(a).r1 \in Scalar /\ scalar_split_128(a).r2 \in Scalar
<1>1. PICK h \in Nat : h = 2^Half /\ h >= 1
  BY OrderSizes
<1>2. a \in Int /\ a >= 0
  BY OrderSizes DEF Scalar
<1>3. PICK q \in Int, r \in 0..(h - 1) : q = a \div h /\ r = a % h /\ a = h * q + r
  <2>1. a \div h \in Int /\ (a % h) \in 0..(h - 1) /\ a = h * (a \div h) + (a % h)
    BY ONLY <1>1, <1>2, h \in Nat, Division
  <2> QED
    BY <2>1
<1>4. q >= 0 /\ q <= a /\ r <= a
  <2>1. a \in Nat
    BY <1>2
  <2>2. q >= 0
    BY <1>1, <1>3, <2>1, DivNat
  <2>3. h * q >= q
    <3>1. (h - 1) * q >= 0
      BY <1>1, <2>2
    <3>2. (h - 1) * q = h * q - q
      OBVIOUS
    <3> QED
      BY <3>1, <3>2
  <2> QED
    BY <1>2, <1>3, <2>2, <2>3
<1>5. q \in Scalar /\ r \in Scalar
  BY <1>3, <1>4, OrderSizes DEF Scalar
<1>6. scalar_split_128(a).r1 = r /\ scalar_split_128(a).r2 = q
  BY <1>1, <1>3 DEF scalar_split_128
<1> QED
  BY <1>5, <1>6

\* A table in bounds, with the places for the digits of a window.
TableKept(pre, w) ==
    Len(pre) = TableSize(w) /\ \A i \in 1..TableSize(w) : GeKept(pre[i])

\* A table has an entry at least.
LEMMA TableSizeNat ==
    ASSUME NEW w \in Nat, w >= 2
    PROVE  TableSize(w) = 2^(w - 2) /\ TableSize(w) \in Nat /\ TableSize(w) >= 1
<1>1. w - 2 \in Nat
  OBVIOUS
<1> QED
  BY <1>1, PowerPositive DEF TableSize

\* Adding an odd multiple of the point keeps the bounds.
LEMMA AddOwnKept ==
    ASSUME NEW wnaf, NEW len, NEW w \in Nat, w >= 2, Placed(wnaf, len, w, 0),
           NEW pre, TableKept(pre, w), NEW i, NEW r, GejKept(r)
    PROVE  GejKept(AddOwn(wnaf, pre, i, r))
<1>1. CASE i \in DOMAIN wnaf
  <2>1. TablePlaces(TableSize(w), wnaf[i])
    BY <1>1, TableSizeNat, Zenon DEF Placed
  <2>2. GeKept(TableGet(pre, wnaf[i]))
    <3>1. TableSize(w) \in Nat /\ Len(pre) = TableSize(w) /\ \A k \in 1..TableSize(w) : GeKept(pre[k])
      BY TableSizeNat DEF TableKept
    <3> QED
      BY <2>1, <3>1, TableGetKept, Zenon
  <2>3. GejKept(gej_add_ge_var(r, TableGet(pre, wnaf[i])))
    BY <2>2, AddGeVarKept
  <2> QED
    BY <1>1, <2>3, Zenon DEF AddOwn
<1>2. CASE i \notin DOMAIN wnaf
  BY <1>2, Zenon DEF AddOwn
<1> QED
  BY <1>1, <1>2

\* So does adding one of the generator, over the Z of the table.
LEMMA AddFixedKept ==
    ASSUME NEW wnaf, NEW len, NEW w \in Nat, w >= 2, Placed(wnaf, len, w, 0),
           NEW pre, Len(pre) = TableSize(w), NEW globalz, Bounded(globalz, 2),
           NEW i, NEW r, GejKept(r)
    PROVE  GejKept(AddFixed(wnaf, pre, globalz, i, r))
<1>1. CASE i \in DOMAIN wnaf
  <2>1. TablePlaces(TableSize(w), wnaf[i])
    BY <1>1, TableSizeNat, Zenon DEF Placed
  <2>2. GeKept(TableGetStorage(pre, wnaf[i]))
    BY <2>1, TableSizeNat, TableGetStorageKept, Zenon
  <2>3. GejKept(gej_add_zinv_var(r, TableGetStorage(pre, wnaf[i]), globalz))
    BY <2>2, AddZinvKept
  <2> QED
    BY <1>1, <2>3, Zenon DEF AddFixed
<1>2. CASE i \notin DOMAIN wnaf
  BY <1>2, Zenon DEF AddFixed
<1> QED
  BY <1>1, <1>2

\* The four arrays of digits of ecmult have room and entries for their digits.
WnafKept(wnaf) ==
    /\ Placed(wnaf.na_1, Half + 2, WindowA, 0) /\ Placed(wnaf.na_lam, Half + 2, WindowA, 0)
    /\ Placed(wnaf.ng_1, Half + 1, WindowG, 0) /\ Placed(wnaf.ng_128, Half + 1, WindowG, 0)

\* The windows are numbers, of two bits at least.
LEMMA Windows == WindowA \in Nat /\ WindowA >= 2 /\ WindowG \in Nat /\ WindowG >= 2
  BY WindowAssumption

\* ecmult recodes its four parts so.
LEMMA EcmultWnafKept ==
    ASSUME NEW na \in Scalar, NEW ng \in Scalar
    PROVE  WnafKept(EcmultWnaf(scalar_split_lambda(na), scalar_split_128(ng)))
<1> DEFINE sa == scalar_split_lambda(na)
           sg == scalar_split_128(ng)
<1>1. sa.r1 \in Scalar /\ sa.r2 \in Scalar
  BY LambdaParts, Zenon
<1>2. sg.r1 \in Scalar /\ sg.r2 \in Scalar
  BY PartsScalar, Zenon
<1> HIDE DEF sa, sg
<1>3. Half + 2 \in Nat /\ Half + 1 \in Nat
  BY OrderSizes
<1>4. /\ Placed(ecmult_wnaf(Half + 2, sa.r1, WindowA), Half + 2, WindowA, 0)
      /\ Placed(ecmult_wnaf(Half + 2, sa.r2, WindowA), Half + 2, WindowA, 0)
      /\ Placed(ecmult_wnaf(Half + 1, sg.r1, WindowG), Half + 1, WindowG, 0)
      /\ Placed(ecmult_wnaf(Half + 1, sg.r2, WindowG), Half + 1, WindowG, 0)
  BY <1>1, <1>2, <1>3, Windows, WnafPlaced, Zenon
<1> QED
  BY <1>4 DEF EcmultWnaf, WnafKept, sa, sg

\* A round of the loop of ecmult keeps the bounds.
LEMMA EcmultStepKept ==
    ASSUME NEW ctx, Len(ctx.pre_g) = TableSize(WindowG), Len(ctx.pre_g_128) = TableSize(WindowG),
           NEW t, TableKept(t.r, WindowA), Bounded(t.globalz, 2),
           NEW lam, TableKept(lam, WindowA), NEW wnaf, WnafKept(wnaf),
           NEW i, NEW r, GejKept(r)
    PROVE  GejKept(EcmultStep(ctx, t, lam, wnaf, i, r))
<1> DEFINE r1 == gej_double_var(r)
           r2 == AddOwn(wnaf.na_1, t.r, i, r1)
           r3 == AddOwn(wnaf.na_lam, lam, i, r2)
           r4 == AddFixed(wnaf.ng_1, ctx.pre_g, t.globalz, i, r3)
           r5 == AddFixed(wnaf.ng_128, ctx.pre_g_128, t.globalz, i, r4)
<1>1. EcmultStep(ctx, t, lam, wnaf, i, r) = r5
  BY Zenon DEF EcmultStep
<1>2. GejKept(r1)
  BY DoubleKept
<1> HIDE DEF r1
<1>3. GejKept(r2)
  BY <1>2, Windows, AddOwnKept, Zenon DEF WnafKept
<1> HIDE DEF r2
<1>4. GejKept(r3)
  BY <1>3, Windows, AddOwnKept, Zenon DEF WnafKept
<1> HIDE DEF r3
<1>5. GejKept(r4)
  BY <1>4, Windows, AddFixedKept, Zenon DEF WnafKept
<1> HIDE DEF r4
<1>6. GejKept(r5)
  BY <1>5, Windows, AddFixedKept, Zenon DEF WnafKept
<1> QED
  BY <1>1, <1>6, Zenon

\* So the whole loop keeps them.
LEMMA DownKept ==
    ASSUME NEW ctx, Len(ctx.pre_g) = TableSize(WindowG), Len(ctx.pre_g_128) = TableSize(WindowG),
           NEW t, TableKept(t.r, WindowA), Bounded(t.globalz, 2),
           NEW lam, TableKept(lam, WindowA), NEW wnaf, WnafKept(wnaf)
    PROVE  GejKept(EcmultDown(ctx, t, lam, wnaf))
<1>1. PICK f : IsDown(f, ctx, t, lam, wnaf, 0) /\ EcmultDown(ctx, t, lam, wnaf) = f[0]
  BY DownIsDown
<1> PICK n \in Nat : n = Half + 2
  BY OrderSizes
<1> DEFINE S == {k \in Nat : k <= n => GejKept(f[n - k])}
<1>2. ASSUME NEW i \in 0..n
      PROVE  f[i] = DownRow(ctx, t, lam, wnaf, i, f[i + 1])
  BY <1>1 DEF IsDown
<1>3. 0 \in S
  <2>1. f[n] = gej_infinity
    <3>1. f[n] = DownRow(ctx, t, lam, wnaf, n, f[n + 1])
      BY <1>2
    <3>2. n = Half + 2
      OBVIOUS
    <3> QED
      BY <3>1, <3>2, Zenon DEF DownRow
  <2>2. GejKept(f[n]) /\ n - 0 = n
    BY <2>1, OperandsKept
  <2> QED
    BY <2>2
<1>4. ASSUME NEW k \in Nat, k \in S PROVE k + 1 \in S
  <2> SUFFICES ASSUME k + 1 <= n PROVE GejKept(f[n - (k + 1)])
    OBVIOUS
  <2> PICK i \in Nat : i = n - (k + 1)
    OBVIOUS
  <2>1. i \in 0..n /\ i # Half + 2 /\ i + 1 = n - k
    OBVIOUS
  <2>2. GejKept(f[i + 1])
    BY <1>4, <2>1
  <2>3. f[i] = EcmultStep(ctx, t, lam, wnaf, i, f[i + 1])
    BY <1>2, <2>1, Zenon DEF DownRow
  <2>4. GejKept(f[i])
    BY <2>2, <2>3, EcmultStepKept, Zenon
  <2> QED
    BY <2>4
<1>5. Nat \subseteq S
  <2> HIDE DEF S
  <2> QED
    BY <1>3, <1>4, SetInduction
<1>6. n \in S /\ n - n = 0
  BY <1>5
<1> QED
  BY <1>1, <1>6

\* The table of a, over one Z, is within the bounds where no multiple is at infinity.
LEMMA GlobalTableKept ==
    ASSUME NEW a, GejKept(a), TableFinite(a)
    PROVE  LET t == odd_multiples_table_globalz_windowa(a)
           IN TableKept(t.r, WindowA) /\ Bounded(t.globalz, 2)
<1> DEFINE len == TableSize(WindowA)
           m == odd_multiples_table(len, a)
           t == ge_globalz_set_table_gej(m.prej, m.zr)
<1>1. len \in Nat /\ len >= 1
  BY Windows, TableSizeNat
<1>2. odd_multiples_table_globalz_windowa(a) = t
  BY Zenon DEF odd_multiples_table_globalz_windowa, OverOneZ
<1>3. \A i \in 1..len : ~m.prej[i].infinity
  BY Zenon DEF TableFinite
<1> HIDE DEF len
<1>4. /\ Len(m.prej) = len
      /\ \A i \in 1..len : GejKept(m.prej[i])
      /\ \A i \in 1..len : Bounded(m.zr[i], 3)
  BY <1>1, <1>3, OddMultiplesKept, Zenon
<1> HIDE DEF m
<1>5. Bounded(t.globalz, 2) /\ Len(t.r) = len /\ \A i \in 1..len : GeKept(t.r[i])
  <2>1. \A i \in 1..len : GejKept(m.prej[i]) /\ Bounded(m.zr[i], 3)
    BY <1>4, Zenon
  <2> QED
    BY <1>1, <1>4, <2>1, OverOneZKept, Zenon
<1> HIDE DEF t
<1> QED
  BY <1>2, <1>5, Zenon DEF TableKept, len

\* The table times lambda is within them too.
LEMMA MulLambdaAllKept ==
    ASSUME NEW pre, NEW w \in Nat, w >= 2, TableKept(pre, w)
    PROVE  TableKept(MulLambdaAll(pre), w)
<1>1. TableSize(w) \in Nat /\ Len(pre) = TableSize(w) /\ \A i \in 1..TableSize(w) : GeKept(pre[i])
  BY TableSizeNat DEF TableKept
<1>2. MulLambdaAll(pre) = [i \in 1..TableSize(w) |-> ge_mul_lambda(pre[i])]
  BY <1>1, Zenon DEF MulLambdaAll
<1>3. Len(MulLambdaAll(pre)) = TableSize(w)
  BY <1>1, <1>2
<1>4. ASSUME NEW i \in 1..TableSize(w) PROVE GeKept(MulLambdaAll(pre)[i])
  <2>1. MulLambdaAll(pre)[i] = ge_mul_lambda(pre[i])
    BY <1>2, Zenon
  <2> QED
    BY <1>1, <2>1, MulLambdaKept, Zenon
<1> QED
  BY <1>3, <1>4, Zenon DEF TableKept

\* A table in the form for storage has the length that was asked for.
LEMMA StorageLength ==
    ASSUME NEW len \in Nat, NEW a
    PROVE  Len(odd_multiples_table_storage_var(len, a)) = len
<1> DEFINE t == odd_multiples_table(len, a)
           prea == ge_set_table_gej_var(t.prej, t.zr)
           d == gej_double_var(a)
           row == Multiples(len, a, ge_set_gej_zinv(a, d.z), d)
           entry(i) == IF i < len THEN row[i].r ELSE [row[i].r EXCEPT !.z = fe_mul(@, d.z)]
<1>1. t = [prej |-> [i \in 1..len |-> entry(i)], zr |-> [i \in 1..len |-> row[i].rzr]]
  BY Zenon DEF odd_multiples_table, MultiplesBy, WithRatios
<1>2. odd_multiples_table_storage_var(len, a) = [i \in 1..Len(t.prej) |-> ge_to_storage(prea[i])]
  BY Zenon DEF odd_multiples_table_storage_var, TableToStorage
<1> HIDE DEF t, entry, prea
<1>3. t.prej = [i \in 1..len |-> entry(i)]
  BY ONLY <1>1
<1>4. Len(t.prej) = len
  BY <1>3
<1>5. odd_multiples_table_storage_var(len, a) = [i \in 1..len |-> ge_to_storage(prea[i])]
  BY <1>2, <1>4, Zenon
<1> QED
  BY <1>5

\* A context that was built has both its tables.
LEMMA ContextKept ==
    Len(ecmult_ctx.pre_g) = TableSize(WindowG) /\ Len(ecmult_ctx.pre_g_128) = TableSize(WindowG)
<1>1. ecmult_ctx =
         [pre_g |-> odd_multiples_table_storage_var(TableSize(WindowG), gej_set_ge(ge_const_g)),
          pre_g_128 |-> odd_multiples_table_storage_var(TableSize(WindowG), TwoToHalfG)]
  BY Zenon DEF ecmult_ctx, ecmult_context_build, ecmult_context_init
<1>2. TableSize(WindowG) \in Nat
  BY Windows, TableSizeNat
<1>3. /\ ecmult_ctx.pre_g
            = odd_multiples_table_storage_var(TableSize(WindowG), gej_set_ge(ge_const_g))
      /\ ecmult_ctx.pre_g_128 = odd_multiples_table_storage_var(TableSize(WindowG), TwoToHalfG)
  BY ONLY <1>1
<1> QED
  BY <1>2, <1>3, StorageLength

\* The real Z is within the bounds.
LEMMA ScaledKept ==
    ASSUME NEW r, NEW globalz, GejKept(r), Bounded(globalz, 2)
    PROVE  GejKept(ScaledZ(r, globalz))
<1> DEFINE s == ScaledZ(r, globalz)
<1>1. s.x = r.x /\ s.y = r.y /\ s.z = fe_mul(r.z, globalz) /\ DOMAIN s = DOMAIN r
  BY DEF ScaledZ, GejKept
<1>2. Bounded(fe_mul(r.z, globalz), 2)
  <2>1. Bounded(r.z, 2)
    BY Zenon DEF GejKept
  <2> QED
    BY <2>1, MulBounded, BoundedMonotone
<1> HIDE DEF s
<1>3. GejKept(s)
  BY <1>1, <1>2, Zenon DEF GejKept
<1> QED
  BY <1>3 DEF s

\* ecmult keeps the bounds, for every pair of scalars.
LEMMA EcmultKept ==
    ASSUME NEW a, GejKept(a), TableFinite(a), NEW na \in Scalar, NEW ng \in Scalar
    PROVE  GejKept(ecmult(ecmult_ctx, a, na, ng))
<1> DEFINE t == odd_multiples_table_globalz_windowa(a)
           wnaf == EcmultWnaf(scalar_split_lambda(na), scalar_split_128(ng))
           r == EcmultDown(ecmult_ctx, t, MulLambdaAll(t.r), wnaf)
<1>1. TableKept(t.r, WindowA) /\ Bounded(t.globalz, 2)
  BY GlobalTableKept, Zenon
<1>2. ecmult(ecmult_ctx, a, na, ng) = Unscaled(r, t.globalz)
  BY Zenon DEF ecmult, EcmultOver
<1>3. WnafKept(wnaf)
  BY EcmultWnafKept, Zenon
<1> HIDE DEF t, wnaf
<1>4. TableKept(MulLambdaAll(t.r), WindowA)
  BY <1>1, Windows, MulLambdaAllKept, Zenon
<1>5. GejKept(r)
  BY <1>1, <1>3, <1>4, ContextKept, DownKept, Zenon
<1> HIDE DEF r
<1>6. Unscaled(r, t.globalz) = r \/ Unscaled(r, t.globalz) = ScaledZ(r, t.globalz)
  BY Zenon DEF Unscaled
<1> QED
  BY <1>1, <1>2, <1>5, <1>6, ScaledKept, Zenon
-----------------------------------------------------------------------------
(* secp256k1_ecmult_const.                                                 *)

\* What is left after a word, with an odd digit held back.
OddWord(l, w) ==
    l.s \in Nat /\ l.u_last \in Int /\ l.u_last % 2 = 1 /\ -1 <= l.u_last /\ l.u_last <= 2^w - 1

\* A digit of wnaf_const: odd, w bits and a sign.
OddDigit(d, w) == d \in Int /\ d % 2 = 1 /\ -(2^w - 1) <= d /\ d <= 2^w - 1

\* Such a digit is in a table of 2^(w - 1) odd multiples, and so is its negative.
LEMMA OddPlaces ==
    ASSUME NEW w \in Nat, w >= 1, NEW d, OddDigit(d, w)
    PROVE  TablePlaces(2^(w - 1), d) /\ TablePlaces(2^(w - 1), -1 * d)
<1>1. w - 1 \in Nat /\ w - 1 + 1 = w
  OBVIOUS
<1>2. PICK h \in Nat : 2^(w - 1) = h /\ 2^w = 2 * h
  <2>1. 2^(w - 1) \in Nat /\ 2^(w - 1 + 1) = 2 * 2^(w - 1)
    BY <1>1, PowerPositive, PowerNext
  <2> QED
    BY <1>1, <2>1
<1>3. d \in Int /\ d % 2 = 1 /\ (-1 * d) % 2 = 1 /\ d <= 2 * h - 1 /\ -d <= 2 * h - 1
  BY <1>2 DEF OddDigit
<1> QED
  BY <1>2, <1>3 DEF TablePlaces

\* A power of two is even.
LEMMA EvenPower ==
    ASSUME NEW w \in Nat, w >= 1
    PROVE  \E h \in Nat : 2^w = 2 * h /\ h >= 1
<1>1. w - 1 \in Nat /\ w - 1 + 1 = w
  OBVIOUS
<1>2. 2^(w - 1) \in Nat /\ 2^(w - 1) >= 1 /\ 2^(w - 1 + 1) = 2 * 2^(w - 1)
  BY <1>1, PowerPositive, PowerNext
<1> QED
  BY <1>1, <1>2

\* An odd number leaves an odd remainder and a number below it.
LEMMA ShiftedWord ==
    ASSUME NEW s \in Nat, NEW w \in Nat, w >= 1
    PROVE  /\ scalar_shr_int(s, w).r \in Nat
           /\ scalar_shr_int(s, w).ret \in Nat /\ scalar_shr_int(s, w).ret <= 2^w - 1
           /\ s % 2 = 1 => scalar_shr_int(s, w).ret % 2 = 1
<1>1. PICK h \in Nat : 2^w = 2 * h /\ h >= 1
  BY EvenPower
<1>2. PICK m \in Nat : m = 2 * h /\ m >= 1 /\ 2^w = m
  BY <1>1
<1>3. s \in Int
  OBVIOUS
<1>4. PICK q \in Int, r \in 0..(m - 1) : q = s \div m /\ r = s % m /\ s = m * q + r
  <2>1. s \div m \in Int /\ (s % m) \in 0..(m - 1) /\ s = m * (s \div m) + (s % m)
    BY ONLY <1>2, <1>3, m \in Nat, Division
  <2> QED
    BY <2>1
<1>5. q \in Nat
  BY <1>2, <1>4, DivNat
<1>6. s % 2 = 1 => r % 2 = 1
  <2>1. PICK t \in Int : t = h * q /\ s = 2 * t + r
    BY <1>2, <1>4
  <2> QED
    BY <2>1
<1>7. scalar_shr_int(s, w).ret = r /\ scalar_shr_int(s, w).r = q
  BY <1>2, <1>4 DEF scalar_shr_int
<1> QED
  BY <1>2, <1>5, <1>6, <1>7

\* One word further, what is held back is odd again, and the digit is.
LEMMA NextDigitOdd ==
    ASSUME NEW l, NEW w \in Nat, w >= 1, OddWord(l, w)
    PROVE  OddWord(NextDigit(l, w), w) /\ OddDigit(NextDigit(l, w).digit, w)
<1>1. PICK h \in Nat : 2^w = 2 * h /\ h >= 1
  BY EvenPower
<1>2. l.s \in Nat
  BY DEF OddWord
<1>3. PICK v \in Nat, q \in Nat :
         v = scalar_shr_int(l.s, w).ret /\ q = scalar_shr_int(l.s, w).r /\ v <= 2 * h - 1
  BY <1>1, <1>2, ShiftedWord
<1>4. PICK e \in Int : e = IF v % 2 = 0 THEN 1 ELSE 0
  OBVIOUS
<1>5. PICK g \in {-1, 1} : g = IF l.u_last > 0 THEN 1 ELSE -1
  OBVIOUS
<1>6. PICK u \in Int : u = l.u_last /\ u % 2 = 1 /\ -1 <= u /\ u <= 2 * h - 1
  BY <1>1 DEF OddWord
<1>7. NextDigit(l, w) = [s |-> q, u_last |-> v + g * e, digit |-> u - g * e * (2 * h)]
  BY <1>1, <1>3, <1>4, <1>5, <1>6, Zenon DEF NextDigit
<1>8. PICK ge \in {-1, 0, 1} : ge = g * e /\ (ge = 0 <=> v % 2 = 1) /\ (ge = 1 => u > 0)
                               /\ (ge = -1 => ~(u > 0))
  BY <1>4, <1>5, <1>6
<1>9. NextDigit(l, w).s = q /\ NextDigit(l, w).u_last = v + ge
      /\ NextDigit(l, w).digit = u - ge * (2 * h)
  BY <1>7, <1>8
<1>10. (v + ge) % 2 = 1 /\ -1 <= v + ge /\ v + ge <= 2 * h - 1
  BY <1>3, <1>8
<1>11. /\ (u - ge * (2 * h)) % 2 = 1 /\ u - ge * (2 * h) \in Int
       /\ -(2 * h - 1) <= u - ge * (2 * h) /\ u - ge * (2 * h) <= 2 * h - 1
  BY <1>1, <1>6, <1>8
<1>12. OddWord(NextDigit(l, w), w)
  BY <1>1, <1>9, <1>10 DEF OddWord
<1>13. OddDigit(NextDigit(l, w).digit, w)
  BY <1>1, <1>9, <1>11 DEF OddDigit
<1> QED
  BY <1>12, <1>13

\* The words of s, from the lowest on.
LeftRow(s, w, word, p) ==
    IF word = 0
    THEN [s |-> scalar_shr_int(s, w).r, u_last |-> scalar_shr_int(s, w).ret, digit |-> 0]
    ELSE NextDigit(p, w)

\* f is the sequence of those words.
IsLeft(f, s, w, n) == f = [word \in 0..n |-> LeftRow(s, w, word, f[word - 1])]

\* The sequence exists.
LEMMA LeftExists ==
    ASSUME NEW s, NEW w, NEW n \in Nat
    PROVE  \E f : IsLeft(f, s, w, n)
<1> DEFINE Row(i, p) == LeftRow(s, w, i, p)
           S == {k \in Nat : \E f : f = [i \in 0..k |-> Row(i, f[i - 1])]}
<1>1. ASSUME NEW p, NEW q PROVE Row(0, p) = Row(0, q)
  BY Zenon DEF LeftRow
<1> HIDE DEF Row
<1>2. 0 \in S
  <2> DEFINE f == [i \in 0..0 |-> Row(i, 0)]
  <2>1. ASSUME NEW i \in 0..0 PROVE f[i] = Row(i, f[i - 1])
    <3>1. i = 0 /\ f[i] = Row(0, 0)
      OBVIOUS
    <3> HIDE DEF f
    <3> QED
      BY <1>1, <3>1
  <2>2. f = [i \in 0..0 |-> f[i]]
    OBVIOUS
  <2> HIDE DEF f
  <2>3. f = [i \in 0..0 |-> Row(i, f[i - 1])]
    BY <2>1, <2>2
  <2> QED
    BY <2>3
<1>3. ASSUME NEW k \in Nat, k \in S PROVE k + 1 \in S
  <2>1. PICK f : f = [i \in 0..k |-> Row(i, f[i - 1])]
    BY <1>3
  <2> DEFINE h == [i \in 0..(k + 1) |-> IF i = k + 1 THEN Row(i, f[k]) ELSE f[i]]
  <2>2. ASSUME NEW i \in 0..(k + 1) PROVE h[i] = Row(i, h[i - 1])
    <3>1. CASE i = k + 1
      <4>1. h[i] = Row(i, f[k]) /\ h[i - 1] = f[k]
        BY <3>1
      <4> QED
        BY <4>1
    <3>2. CASE i # k + 1 /\ i # 0
      <4>1. h[i] = f[i] /\ h[i - 1] = f[i - 1] /\ i \in 0..k
        BY <3>2
      <4>2. f[i] = Row(i, f[i - 1])
        BY <2>1, <4>1
      <4> QED
        BY <4>1, <4>2
    <3>3. CASE i # k + 1 /\ i = 0
      <4>1. h[i] = f[i] /\ i \in 0..k
        BY <3>3
      <4>2. f[i] = Row(i, f[i - 1])
        BY <2>1, <4>1
      <4> HIDE DEF h
      <4> QED
        BY <1>1, <3>3, <4>1, <4>2
    <3> QED
      BY <3>1, <3>2, <3>3
  <2>3. h = [i \in 0..(k + 1) |-> Row(i, h[i - 1])]
    <3>1. h = [i \in 0..(k + 1) |-> h[i]]
      OBVIOUS
    <3> HIDE DEF h
    <3> QED
      BY <2>2, <3>1
  <2> HIDE DEF h
  <2> QED
    BY <2>3
<1>4. Nat \subseteq S
  <2> HIDE DEF S
  <2> QED
    BY <1>2, <1>3, SetInduction
<1>5. PICK f : f = [i \in 0..n |-> Row(i, f[i - 1])]
  BY <1>4
<1>6. IsLeft(f, s, w, n)
  BY <1>5 DEF IsLeft, Row
<1> QED
  BY <1>6

\* From an odd number on, every digit of it is odd.
LEMMA LeftOdd ==
    ASSUME NEW s \in Nat, s % 2 = 1, NEW w \in Nat, w >= 1, NEW n \in Nat,
           NEW f, IsLeft(f, s, w, n)
    PROVE  \A i \in 0..n : OddWord(f[i], w) /\ (i # 0 => OddDigit(f[i].digit, w))
<1> DEFINE Good(i) == OddWord(f[i], w) /\ (i # 0 => OddDigit(f[i].digit, w))
           S == {k \in Nat : k <= n => Good(k)}
<1>1. ASSUME NEW i \in 0..n PROVE f[i] = LeftRow(s, w, i, f[i - 1])
  BY DEF IsLeft
<1>2. 0 \in S
  <2>1. f[0] = [s |-> scalar_shr_int(s, w).r, u_last |-> scalar_shr_int(s, w).ret, digit |-> 0]
    BY <1>1, 0 \in 0..n, Zenon DEF LeftRow
  <2>2. f[0].s = scalar_shr_int(s, w).r /\ f[0].u_last = scalar_shr_int(s, w).ret
    BY <2>1
  <2>3. OddWord(f[0], w)
    <3>1. /\ scalar_shr_int(s, w).r \in Nat /\ scalar_shr_int(s, w).ret \in Nat
          /\ scalar_shr_int(s, w).ret <= 2^w - 1 /\ scalar_shr_int(s, w).ret % 2 = 1
      BY ShiftedWord
    <3> QED
      BY <2>2, <3>1 DEF OddWord
  <2> QED
    BY <2>3
<1>3. ASSUME NEW k \in Nat, k \in S PROVE k + 1 \in S
  <2> SUFFICES ASSUME k + 1 <= n PROVE Good(k + 1)
    OBVIOUS
  <2>1. k + 1 \in 0..n /\ k + 1 # 0 /\ k + 1 - 1 = k /\ OddWord(f[k], w)
    BY <1>3
  <2>2. f[k + 1] = NextDigit(f[k], w)
    BY <1>1, <2>1 DEF LeftRow
  <2> QED
    BY <2>1, <2>2, NextDigitOdd
<1>4. Nat \subseteq S
  <2> HIDE DEF S
  <2> QED
    BY <1>2, <1>3, SetInduction
<1>5. \A i \in 0..n : Good(i)
  BY <1>4
<1> QED
  BY <1>5

\* The order is odd: it is a prime, above two.
LEMMA OrderOdd == Order % 2 = 1 /\ Order >= 3
<1>1. Order \in Nat /\ 2 * Order > 2^Bits /\ Order < 2^Bits /\ Bits \in Nat /\ Bits >= 1
  BY OrderAssumption
<1>2. PICK t \in Nat : 2^Bits = 2 * t /\ t >= 1
  BY <1>1, EvenPower
<1>3. Order >= 3
  <2>1. Order > t /\ Order < 2 * t
    BY <1>1, <1>2
  <2> QED
    BY <1>1, <1>2, <2>1
<1>4. 2 \in 2..(Order - 1)
  BY <1>1, <1>3
<1>5. Order % 2 # 0
  BY <1>4, OrderAssumption
<1> QED
  BY <1>1, <1>3, <1>5

\* What wnaf_const takes apart: the scalar made odd.
MadeOdd(s, stale) ==
    LET flip == scalar_is_high(s)
        bit == IF flip THEN 1 - (s % 2) ELSE s % 2
        not_neg_one == ~scalar_is_one(scalar_negate(stale, s))
    IN scalar_cond_negate(scalar_cadd_bit(s, bit, not_neg_one), flip)

\* It is odd, unless the local that is read before it is written holds a one.
LEMMA MadeOddOdd ==
    ASSUME NEW s \in Scalar, NEW stale, stale # 1
    PROVE  /\ MadeOdd(s, stale).r \in Nat /\ MadeOdd(s, stale).r % 2 = 1
           /\ MadeOdd(s, stale).ret \in {-1, 1}
<1> DEFINE flip == scalar_is_high(s)
           bit == IF flip THEN 1 - (s % 2) ELSE s % 2
           nno == ~scalar_is_one(scalar_negate(stale, s))
           c == scalar_cadd_bit(s, bit, nno)
<1>1. MadeOdd(s, stale) = [ret |-> IF flip THEN -1 ELSE 1,
                           r |-> IF flip THEN scalar_negate(c, c) ELSE c]
  BY Zenon DEF MadeOdd, scalar_cond_negate
<1>2. s \in Nat /\ s < Order /\ Order \in Nat /\ Order % 2 = 1 /\ Order >= 3
  BY OrderSizes, OrderOdd DEF Scalar
<1>3. nno <=> s # Order - 1
  BY <1>2 DEF scalar_is_one, scalar_negate, scalar_is_zero
<1>4. flip <=> s > Order \div 2
  BY DEF scalar_is_high
<1>5. 2^0 = 1 /\ 2^1 = 2
  OBVIOUS
<1>6. CASE flip
  <2>1. CASE s = Order - 1
    <3>1. c = s
      BY <1>3, <2>1 DEF scalar_cadd_bit
    <3>2. scalar_negate(c, c) = 1
      BY <1>2, <2>1, <3>1 DEF scalar_negate, scalar_is_zero
    <3>3. MadeOdd(s, stale).r = 1 /\ MadeOdd(s, stale).ret = -1
      BY <1>1, <1>6, <3>2
    <3> QED
      BY <3>3
  <2>2. CASE s # Order - 1
    <3>1. c % 2 = 0 /\ c \in Nat /\ c < Order /\ c # 0
      <4>1. CASE s % 2 = 0
        <5>1. bit = 1
          BY <1>6, <4>1
        <5>2. c = s + 2
          BY <1>3, <1>5, <2>2, <5>1, Zenon DEF scalar_cadd_bit
        <5> QED
          BY <1>2, <2>2, <4>1, <5>2
      <4>2. CASE s % 2 # 0
        <5>1. bit = 0
          BY <1>2, <1>6, <4>2
        <5>2. c = s + 1
          BY <1>3, <1>5, <2>2, <5>1, Zenon DEF scalar_cadd_bit
        <5> QED
          BY <1>2, <2>2, <4>2, <5>2
      <4> QED
        BY <4>1, <4>2
    <3>2. scalar_negate(c, c) = Order - c
      BY <3>1 DEF scalar_negate, scalar_is_zero
    <3>3. MadeOdd(s, stale).r = Order - c /\ MadeOdd(s, stale).ret = -1
      BY <1>1, <1>6, <3>2
    <3> HIDE DEF c
    <3> QED
      BY <1>2, <3>1, <3>3
  <2> QED
    BY <2>1, <2>2
<1>7. CASE ~flip
  <2>1. s # Order - 1
    BY <1>2, <1>4, <1>7
  <2>2. c \in Nat /\ c % 2 = 1
    <3>1. CASE s % 2 = 0
      <4>1. bit = 0
        BY <1>7, <3>1
      <4>2. c = s + 1
        BY <1>3, <1>5, <2>1, <4>1, Zenon DEF scalar_cadd_bit
      <4> QED
        BY <1>2, <3>1, <4>2
    <3>2. CASE s % 2 # 0
      <4>1. bit = 1
        BY <1>2, <1>7, <3>2
      <4>2. c = s + 2
        BY <1>3, <1>5, <2>1, <4>1, Zenon DEF scalar_cadd_bit
      <4> QED
        BY <1>2, <3>2, <4>2
    <3> QED
      BY <3>1, <3>2
  <2>3. MadeOdd(s, stale).r = c /\ MadeOdd(s, stale).ret = 1
    BY <1>1, <1>7
  <2> HIDE DEF c
  <2> QED
    BY <2>2, <2>3
<1> QED
  BY <1>6, <1>7

\* The number of words is a number.
LEMMA WnafSizeNat == WnafSize \in Nat
<1>1. WindowA - 1 \in Nat /\ WindowA - 1 >= 1 /\ Half + WindowA - 2 \in Nat
  BY Windows, OrderSizes
<1> QED
  BY <1>1, DivNat DEF WnafSize

\* A digit of wnaf_const, by the words.
ConstDigit(s, w, stale, left, i) ==
    (MadeOdd(s, stale).ret * (IF ~scalar_is_one(scalar_negate(stale, s)) THEN 1 ELSE -1))
        * (IF i <= WnafSize THEN left[i].digit ELSE left[WnafSize].u_last)

\* wnaf_const hands out those digits.
LEMMA WnafConstIsLeft ==
    ASSUME NEW s, NEW w, NEW stale
    PROVE  wnaf_const(s, w, stale).wnaf
             = [i \in 1..(WnafSize + 1) |->
                  ConstDigit(s, w, stale, CHOOSE f : IsLeft(f, MadeOdd(s, stale).r, w, WnafSize), i)]
  BY SMTT(60) DEF wnaf_const, ConstDigit, IsLeft, LeftRow, MadeOdd

\* The digits of a constant-time recoding all have a place in the table.
LEMMA WnafConstPlaces ==
    ASSUME NEW s \in Scalar, NEW w \in Nat, w >= 1, NEW stale, stale # 1
    PROVE  \A i \in 1..(WnafSize + 1) : TablePlaces(2^(w - 1), wnaf_const(s, w, stale).wnaf[i])
<1> DEFINE left == CHOOSE f : IsLeft(f, MadeOdd(s, stale).r, w, WnafSize)
<1>1. wnaf_const(s, w, stale).wnaf
        = [i \in 1..(WnafSize + 1) |-> ConstDigit(s, w, stale, left, i)]
  BY WnafConstIsLeft
<1>2. IsLeft(left, MadeOdd(s, stale).r, w, WnafSize)
  BY LeftExists, WnafSizeNat, Zenon
<1> HIDE DEF left
<1>3. \A i \in 0..WnafSize : OddWord(left[i], w) /\ (i # 0 => OddDigit(left[i].digit, w))
  BY <1>2, MadeOddOdd, WnafSizeNat, LeftOdd
<1> SUFFICES ASSUME NEW i \in 1..(WnafSize + 1)
             PROVE  TablePlaces(2^(w - 1), wnaf_const(s, w, stale).wnaf[i])
  OBVIOUS
<1>4. wnaf_const(s, w, stale).wnaf[i] = ConstDigit(s, w, stale, left, i)
  BY <1>1, Zenon
<1>5. PICK d : /\ d = (IF i <= WnafSize THEN left[i].digit ELSE left[WnafSize].u_last)
               /\ OddDigit(d, w)
  <2>1. CASE i <= WnafSize
    <3>1. i \in 0..WnafSize /\ i # 0
      BY <2>1, WnafSizeNat
    <3> QED
      BY <1>3, <2>1, <3>1, Zenon
  <2>2. CASE ~(i <= WnafSize)
    <3>1. WnafSize \in 0..WnafSize
      BY WnafSizeNat
    <3>2. OddWord(left[WnafSize], w)
      BY <1>3, <3>1, Zenon
    <3>3. OddDigit(left[WnafSize].u_last, w)
      <4>1. PICK h \in Nat : 2^w = 2 * h /\ h >= 1
        BY EvenPower
      <4> QED
        BY <3>2, <4>1 DEF OddWord, OddDigit
    <3> QED
      BY <2>2, <3>3, Zenon
  <2> QED
    BY <2>1, <2>2
<1>6. PICK g \in {-1, 1} :
         g = MadeOdd(s, stale).ret * (IF ~scalar_is_one(scalar_negate(stale, s)) THEN 1 ELSE -1)
  <2>1. MadeOdd(s, stale).ret \in {-1, 1}
    BY MadeOddOdd
  <2> QED
    BY <2>1
<1>7. ConstDigit(s, w, stale, left, i) = g * d
  BY <1>5, <1>6, Zenon DEF ConstDigit
<1>8. d \in Int
  BY <1>5 DEF OddDigit
<1>9. g * d = d \/ g * d = -1 * d
  BY <1>8
<1> QED
  BY <1>4, <1>5, <1>7, <1>9, OddPlaces, Zenon

\* An entry whose ordinate may be negated as it is.
EntryKept(e) == Bounded(e.x, 6) /\ Bounded(e.y, 1)

\* A digit of the table finds an entry that is within the bounds once negated.
LEMMA ConstTableGetKept ==
    ASSUME NEW pre, NEW len \in Nat, Len(pre) = len, NEW digit, TablePlaces(len, digit),
           \A i \in 1..len : EntryKept(pre[i])
    PROVE  GeKept(ConstTableGet(pre, digit))
<1> DEFINE at == ((IF digit > 0 THEN digit ELSE -digit) \div 2) + 1
<1>1. InTable(pre, digit)
  BY DEF InTable, TablePlaces
<1>2. at \in 1..len
  BY DEF TablePlaces
<1>3. ConstTableGet(pre, digit)
        = Ge(pre[at].x, IF digit > 0 THEN pre[at].y ELSE fe_negate(pre[at].y, 1))
  BY <1>1, Zenon DEF ConstTableGet
<1> HIDE DEF at
<1>4. EntryKept(pre[at])
  BY <1>2
<1>5. Bounded(pre[at].x, 6) /\ Bounded(pre[at].y, 4) /\ Bounded(fe_negate(pre[at].y, 1), 4)
  BY <1>4, NegateBounded, BoundedMonotone DEF EntryKept
<1> QED
  BY <1>3, <1>5, GeFinite, Zenon DEF Ge

\* Any number of doublings keeps the bounds.
LEMMA DoublingsKept ==
    ASSUME NEW r, GejKept(r), NEW n \in Nat
    PROVE  GejKept(Doublings(r, n))
<1> DEFINE Row(i, p) == IF i = 0 THEN r ELSE gej_double_var(p)
           S == {k \in Nat : \E f : f = [i \in 0..k |-> Row(i, f[i - 1])]}
<1>1. /\ \A p, q : Row(0, p) = Row(0, q)
      /\ \A i, p : Row(i, p) = (IF i = 0 THEN r ELSE gej_double_var(p))
  BY Zenon
<1> HIDE DEF Row
<1>2. 0 \in S
  <2> DEFINE f == [i \in 0..0 |-> Row(i, 0)]
  <2>1. ASSUME NEW i \in 0..0 PROVE f[i] = Row(i, f[i - 1])
    <3>1. i = 0 /\ f[i] = Row(0, 0)
      OBVIOUS
    <3> HIDE DEF f
    <3> QED
      BY <1>1, <3>1
  <2>2. f = [i \in 0..0 |-> f[i]]
    OBVIOUS
  <2> HIDE DEF f
  <2>3. f = [i \in 0..0 |-> Row(i, f[i - 1])]
    BY <2>1, <2>2
  <2> QED
    BY <2>3
<1>3. ASSUME NEW k \in Nat, k \in S PROVE k + 1 \in S
  <2>1. PICK f : f = [i \in 0..k |-> Row(i, f[i - 1])]
    BY <1>3
  <2> DEFINE h == [i \in 0..(k + 1) |-> IF i = k + 1 THEN Row(i, f[k]) ELSE f[i]]
  <2>2. ASSUME NEW i \in 0..(k + 1) PROVE h[i] = Row(i, h[i - 1])
    <3>1. CASE i = k + 1
      <4>1. h[i] = Row(i, f[k]) /\ h[i - 1] = f[k]
        BY <3>1
      <4> QED
        BY <4>1
    <3>2. CASE i # k + 1 /\ i # 0
      <4>1. h[i] = f[i] /\ h[i - 1] = f[i - 1] /\ i \in 0..k
        BY <3>2
      <4>2. f[i] = Row(i, f[i - 1])
        BY <2>1, <4>1
      <4> QED
        BY <4>1, <4>2
    <3>3. CASE i # k + 1 /\ i = 0
      <4>1. h[i] = f[i] /\ i \in 0..k
        BY <3>3
      <4>2. f[i] = Row(i, f[i - 1])
        BY <2>1, <4>1
      <4> HIDE DEF h
      <4> QED
        BY <1>1, <3>3, <4>1, <4>2
    <3> QED
      BY <3>1, <3>2, <3>3
  <2>3. h = [i \in 0..(k + 1) |-> Row(i, h[i - 1])]
    <3>1. h = [i \in 0..(k + 1) |-> h[i]]
      OBVIOUS
    <3> HIDE DEF h
    <3> QED
      BY <2>2, <3>1
  <2> HIDE DEF h
  <2> QED
    BY <2>3
<1>4. Nat \subseteq S
  <2> HIDE DEF S
  <2> QED
    BY <1>2, <1>3, SetInduction
<1> HIDE DEF S
<1>5. PICK f : f = [i \in 0..n |-> IF i = 0 THEN r ELSE gej_double_var(f[i - 1])]
  <2>1. PICK f : f = [i \in 0..n |-> Row(i, f[i - 1])]
    BY <1>4 DEF S
  <2>2. f = [i \in 0..n |-> IF i = 0 THEN r ELSE gej_double_var(f[i - 1])]
    BY <2>1 DEF Row
  <2> QED
    BY <2>2
<1>6. PICK d : /\ d = [i \in 0..n |-> IF i = 0 THEN r ELSE gej_double_var(d[i - 1])]
               /\ Doublings(r, n) = d[n]
  <2> DEFINE d == CHOOSE d : d = [i \in 0..n |-> IF i = 0 THEN r ELSE gej_double_var(d[i - 1])]
  <2>1. d = [i \in 0..n |-> IF i = 0 THEN r ELSE gej_double_var(d[i - 1])]
    BY <1>5, Zenon
  <2>2. Doublings(r, n) = d[n]
    BY Zenon DEF Doublings
  <2> HIDE DEF d
  <2> QED
    BY <2>1, <2>2
<1> DEFINE T == {k \in Nat : k <= n => GejKept(d[k])}
<1>7. 0 \in T
  BY <1>6
<1>8. ASSUME NEW k \in Nat, k \in T PROVE k + 1 \in T
  <2>1. k + 1 <= n => k + 1 \in 0..n /\ k + 1 # 0 /\ k + 1 - 1 = k /\ GejKept(d[k])
    BY <1>8
  <2>2. k + 1 <= n => d[k + 1] = gej_double_var(d[k])
    BY <1>6, <2>1
  <2> QED
    BY <2>1, <2>2, DoubleKept
<1>9. Nat \subseteq T
  <2> HIDE DEF T
  <2> QED
    BY <1>7, <1>8, SetInduction
<1> QED
  BY <1>6, <1>9

\* A row of ConstDown as an equation, one cell from the one above it.
ConstRow(pre_a, lam, w1, wl, i, p) ==
    IF i = WnafSize + 1
    THEN gej_add_ge_var(gej_set_ge(ConstTableGet(pre_a, w1.wnaf[i])), ConstTableGet(lam, wl.wnaf[i]))
    ELSE AddDigits(Doublings(p, WindowA - 1), pre_a, lam, w1.wnaf[i], wl.wnaf[i])

\* f is that row, from low on.
IsConstDown(f, pre_a, lam, w1, wl, low) ==
    f = [i \in low..(WnafSize + 1) |-> ConstRow(pre_a, lam, w1, wl, i, f[i + 1])]

\* The row exists.
LEMMA ConstDownExists ==
    ASSUME NEW pre_a, NEW lam, NEW w1, NEW wl
    PROVE  \E f : IsConstDown(f, pre_a, lam, w1, wl, 1)
<1> DEFINE Row(i, p) == ConstRow(pre_a, lam, w1, wl, i, p)
<1>1. ASSUME NEW f, NEW low
      PROVE  IsConstDown(f, pre_a, lam, w1, wl, low) <=> f = [i \in low..(WnafSize + 1) |-> Row(i, f[i + 1])]
  BY DEF IsConstDown
<1>2. ASSUME NEW p, NEW q PROVE Row(WnafSize + 1, p) = Row(WnafSize + 1, q)
  BY Zenon DEF ConstRow
<1> HIDE DEF Row
<1> PICK n \in Nat : n = WnafSize + 1 /\ n >= 1
  BY WnafSizeNat
<1> DEFINE S == {k \in Nat : k < n => \E f : f = [i \in (n - k)..n |-> Row(i, f[i + 1])]}
<1>3. 0 \in S
  <2> DEFINE f == [i \in (n - 0)..n |-> Row(i, 0)]
  <2>1. ASSUME NEW i \in (n - 0)..n PROVE Row(i, 0) = Row(i, f[i + 1])
    <3>1. i = WnafSize + 1
      OBVIOUS
    <3> HIDE DEF f
    <3> QED
      BY <1>2, <3>1
  <2>2. f = [i \in (n - 0)..n |-> Row(i, f[i + 1])]
    <3>1. \A i \in (n - 0)..n : f[i] = Row(i, f[i + 1])
      BY <2>1
    <3>2. f = [i \in (n - 0)..n |-> f[i]]
      OBVIOUS
    <3> HIDE DEF f
    <3> QED
      BY <3>1, <3>2
  <2> HIDE DEF f
  <2> QED
    BY <2>2
<1>4. ASSUME NEW k \in Nat, k \in S PROVE k + 1 \in S
  <2> SUFFICES ASSUME k + 1 < n
               PROVE  \E f : f = [i \in (n - (k + 1))..n |-> Row(i, f[i + 1])]
    OBVIOUS
  <2>1. PICK f : f = [i \in (n - k)..n |-> Row(i, f[i + 1])]
    BY <1>4
  <2> PICK low \in Nat : low = n - (k + 1)
    OBVIOUS
  <2> DEFINE h == [i \in low..n |-> IF i = low THEN Row(i, f[i + 1]) ELSE f[i]]
  <2>2. ASSUME NEW i \in low..n PROVE h[i] = Row(i, h[i + 1])
    <3>1. CASE i = low
      <4>1. h[i] = Row(i, f[i + 1]) /\ h[i + 1] = f[i + 1]
        BY <3>1
      <4> QED
        BY <4>1
    <3>2. CASE i # low /\ i # n
      <4>1. h[i] = f[i] /\ h[i + 1] = f[i + 1] /\ i \in (n - k)..n
        BY <3>2
      <4>2. f[i] = Row(i, f[i + 1])
        BY <2>1, <4>1
      <4> QED
        BY <4>1, <4>2
    <3>3. CASE i # low /\ i = n
      <4>1. h[i] = f[i] /\ i \in (n - k)..n /\ i = WnafSize + 1
        BY <3>3
      <4>2. f[i] = Row(i, f[i + 1])
        BY <2>1, <4>1
      <4> HIDE DEF h
      <4> QED
        BY <1>2, <4>1, <4>2
    <3> QED
      BY <3>1, <3>2, <3>3
  <2>3. h = [i \in low..n |-> Row(i, h[i + 1])]
    <3>1. h = [i \in low..n |-> h[i]]
      OBVIOUS
    <3> HIDE DEF h
    <3> QED
      BY <2>2, <3>1
  <2> HIDE DEF h
  <2> QED
    BY <2>3
<1>5. Nat \subseteq S
  <2> HIDE DEF S
  <2> QED
    BY <1>3, <1>4, SetInduction
<1>6. n - 1 \in S /\ n - (n - 1) = 1 /\ n - 1 < n
  BY <1>5
<1>7. PICK f : f = [i \in 1..n |-> Row(i, f[i + 1])]
  BY <1>6
<1>8. IsConstDown(f, pre_a, lam, w1, wl, 1)
  BY <1>1, <1>7, Zenon
<1> QED
  BY <1>8

\* ConstDown is its lowest cell.
LEMMA ConstDownIsDown ==
    ASSUME NEW pre_a, NEW lam, NEW w1, NEW wl
    PROVE  \E f : IsConstDown(f, pre_a, lam, w1, wl, 1) /\ ConstDown(pre_a, lam, w1, wl) = f[1]
<1> DEFINE f == CHOOSE f : IsConstDown(f, pre_a, lam, w1, wl, 1)
<1>1. ConstDown(pre_a, lam, w1, wl) = f[1]
  BY Zenon DEF ConstDown, IsConstDown, ConstRow
<1>2. IsConstDown(f, pre_a, lam, w1, wl, 1)
  BY ConstDownExists, Zenon
<1> QED
  BY <1>1, <1>2, Zenon

\* A table for the multiplication in constant time, and digits in it.
EntriesKept(pre) ==
    Len(pre) = TableSize(WindowA) /\ \A i \in 1..TableSize(WindowA) : EntryKept(pre[i])

\* The digits have entries.
DigitsKept(wn) == \A i \in 1..(WnafSize + 1) : TablePlaces(TableSize(WindowA), wn.wnaf[i])

\* An entry of a digit is within the bounds.
LEMMA EntryGetKept ==
    ASSUME NEW pre, EntriesKept(pre), NEW wn, DigitsKept(wn), NEW i \in 1..(WnafSize + 1)
    PROVE  GeKept(ConstTableGet(pre, wn.wnaf[i]))
<1>1. TableSize(WindowA) \in Nat
  BY Windows, TableSizeNat
<1> QED
  BY <1>1, ConstTableGetKept, Zenon DEF EntriesKept, DigitsKept

\* The loop of ecmult_const keeps the bounds.
LEMMA ConstDownKept ==
    ASSUME NEW pre_a, NEW lam, NEW w1, NEW wl,
           EntriesKept(pre_a), EntriesKept(lam), DigitsKept(w1), DigitsKept(wl)
    PROVE  GejKept(ConstDown(pre_a, lam, w1, wl))
<1>1. PICK f : IsConstDown(f, pre_a, lam, w1, wl, 1) /\ ConstDown(pre_a, lam, w1, wl) = f[1]
  BY ConstDownIsDown
<1> PICK n \in Nat : n = WnafSize + 1 /\ n >= 1
  BY WnafSizeNat
<1> DEFINE S == {k \in Nat : k < n => GejKept(f[n - k])}
<1>2. ASSUME NEW i \in 1..n
      PROVE  f[i] = ConstRow(pre_a, lam, w1, wl, i, f[i + 1])
  BY <1>1 DEF IsConstDown
<1>3. ASSUME NEW i \in 1..n
      PROVE  GeKept(ConstTableGet(pre_a, w1.wnaf[i])) /\ GeKept(ConstTableGet(lam, wl.wnaf[i]))
  BY EntryGetKept
<1>4. 0 \in S
  <2>1. n \in 1..n /\ n - 0 = n
    OBVIOUS
  <2>2. f[n] = gej_add_ge_var(gej_set_ge(ConstTableGet(pre_a, w1.wnaf[n])),
                              ConstTableGet(lam, wl.wnaf[n]))
    <3>1. f[n] = ConstRow(pre_a, lam, w1, wl, n, f[n + 1])
      BY <1>2, <2>1
    <3>2. n = WnafSize + 1
      OBVIOUS
    <3> QED
      BY <3>1, <3>2, Zenon DEF ConstRow
  <2>3. GejKept(f[n])
    BY <1>3, <2>1, <2>2, SetGeKept, AddGeVarKept, Zenon
  <2> QED
    BY <2>1, <2>3
<1>5. ASSUME NEW k \in Nat, k \in S PROVE k + 1 \in S
  <2> SUFFICES ASSUME k + 1 < n PROVE GejKept(f[n - (k + 1)])
    OBVIOUS
  <2> PICK i \in Nat : i = n - (k + 1)
    OBVIOUS
  <2>1. i \in 1..n /\ i # WnafSize + 1 /\ i + 1 = n - k
    OBVIOUS
  <2>2. GejKept(f[i + 1])
    BY <1>5, <2>1
  <2>3. f[i] = AddDigits(Doublings(f[i + 1], WindowA - 1), pre_a, lam, w1.wnaf[i], wl.wnaf[i])
    BY <1>2, <2>1, Zenon DEF ConstRow
  <2>4. GejKept(Doublings(f[i + 1], WindowA - 1))
    <3>1. WindowA - 1 \in Nat
      BY Windows
    <3> QED
      BY <2>2, <3>1, DoublingsKept, Zenon
  <2>5. GejKept(f[i])
    BY <1>3, <2>1, <2>3, <2>4, AddGeVarKept, Zenon DEF AddDigits
  <2> QED
    BY <2>5
<1>6. Nat \subseteq S
  <2> HIDE DEF S
  <2> QED
    BY <1>4, <1>5, SetInduction
<1>7. n - 1 \in S /\ n - (n - 1) = 1 /\ n - 1 < n
  BY <1>6
<1> QED
  BY <1>1, <1>7

\* The table of ecmult_const, and it times lambda, have y normalized.
LEMMA EntriesFromTable ==
    ASSUME NEW t, TableKept(t, WindowA)
    PROVE  LET pre_a == [i \in 1..Len(t) |-> [t[i] EXCEPT !.y = fe_normalize_weak(@)]]
           IN EntriesKept(pre_a) /\ EntriesKept(MulLambdaAll(pre_a))
<1> DEFINE pre_a == [i \in 1..Len(t) |-> [t[i] EXCEPT !.y = fe_normalize_weak(@)]]
           lam == MulLambdaAll(pre_a)
           len == TableSize(WindowA)
<1>1. len \in Nat /\ Len(t) = len /\ \A i \in 1..len : GeKept(t[i])
  BY Windows, TableSizeNat DEF TableKept
<1> HIDE DEF len
<1>2. ASSUME NEW i \in 1..len
      PROVE  /\ pre_a[i].x = t[i].x /\ pre_a[i].y = fe_normalize_weak(t[i].y)
             /\ DOMAIN pre_a[i] = DOMAIN t[i]
  <2>1. pre_a[i] = [t[i] EXCEPT !.y = fe_normalize_weak(@)]
    BY <1>1
  <2> QED
    BY <1>1, <2>1 DEF GeKept
<1>3. Len(pre_a) = len
  BY <1>1
<1> HIDE DEF pre_a
<1>4. ASSUME NEW i \in 1..len
      PROVE  Bounded(pre_a[i].x, 6) /\ Bounded(pre_a[i].y, 1)
  <2>1. Bounded(t[i].x, 6) /\ Bounded(t[i].y, 4)
    BY <1>1, Zenon DEF GeKept
  <2> QED
    BY <1>2, <2>1, NormalizeBounded
<1>5. lam = [i \in 1..len |-> ge_mul_lambda(pre_a[i])]
  BY <1>3, Zenon DEF MulLambdaAll
<1>6. Len(lam) = len
  BY <1>1, <1>5
<1>7. ASSUME NEW i \in 1..len
      PROVE  Bounded(lam[i].x, 6) /\ Bounded(lam[i].y, 1)
  <2>1. lam[i] = ge_mul_lambda(pre_a[i])
    BY <1>5, Zenon
  <2>2. DOMAIN pre_a[i] = {"x", "y", "infinity"}
    BY <1>1, <1>2, Zenon DEF GeKept
  <2>3. lam[i].x = fe_mul(pre_a[i].x, fe_set_int(Beta)) /\ lam[i].y = pre_a[i].y
    BY <2>1, <2>2 DEF ge_mul_lambda
  <2>4. Bounded(fe_mul(pre_a[i].x, fe_set_int(Beta)), 6)
    BY <1>4, SetIntBounded, MulBounded, BoundedMonotone
  <2> QED
    BY <1>4, <2>3, <2>4
<1> HIDE DEF lam
<1> QED
  BY <1>3, <1>4, <1>6, <1>7, Zenon DEF EntriesKept, EntryKept, len, pre_a, lam

\* Taking the skews off keeps the bounds.
LEMMA LessSkewsKept ==
    ASSUME NEW r, NEW a, NEW a2, NEW skew1, NEW skewl, GejKept(r)
    PROVE  GejKept(LessSkews(r, a, a2, skew1, skewl))
<1> DEFINE less(skew) == ge_neg(ge_from_storage(ge_to_storage(IF skew = 2 THEN a2 ELSE a)))
<1>1. GeKept(less(skew1)) /\ GeKept(less(skewl))
  BY StorageKept, GeNegKept, Zenon
<1>2. LessSkews(r, a, a2, skew1, skewl)
        = gej_add_ge_var(gej_add_ge_var(r, less(skew1)), ge_mul_lambda(less(skewl)))
  BY Zenon DEF LessSkews
<1> HIDE DEF less
<1>3. GeKept(ge_mul_lambda(less(skewl)))
  BY <1>1, MulLambdaKept
<1>4. GejKept(gej_add_ge_var(r, less(skew1)))
  BY <1>1, AddGeVarKept
<1> QED
  BY <1>2, <1>3, <1>4, AddGeVarKept, Zenon

\* wnaf_const hands out digits of the table.
LEMMA ConstDigitsKept ==
    ASSUME NEW s \in Scalar, NEW stale, stale # 1
    PROVE  DigitsKept(wnaf_const(s, WindowA - 1, stale))
<1>1. WindowA - 1 \in Nat /\ WindowA - 1 >= 1 /\ WindowA - 1 - 1 = WindowA - 2
  BY Windows
<1>2. \A i \in 1..(WnafSize + 1) :
         TablePlaces(2^(WindowA - 1 - 1), wnaf_const(s, WindowA - 1, stale).wnaf[i])
  BY <1>1, WnafConstPlaces
<1> QED
  BY <1>1, <1>2, Zenon DEF DigitsKept, TableSize

\* ecmult_const keeps the bounds, for every scalar.
LEMMA EcmultConstKept ==
    ASSUME NEW a, GeKept(a), TableFinite(gej_set_ge(a)), NEW q \in Scalar,
           NEW stale, stale[1] # 1, stale[2] # 1
    PROVE  GejKept(ecmult_const(a, q, stale))
<1> DEFINE t == odd_multiples_table_globalz_windowa(gej_set_ge(a))
           split == scalar_split_lambda(q)
           w1 == wnaf_const(split.r1, WindowA - 1, stale[1])
           wl == wnaf_const(split.r2, WindowA - 1, stale[2])
           pre_a == [i \in 1..Len(t.r) |-> [t.r[i] EXCEPT !.y = fe_normalize_weak(@)]]
           down == ConstDown(pre_a, MulLambdaAll(pre_a), w1, wl)
           a2 == ge_set_gej(gej_double_var(gej_set_ge(a)))
<1>1. ecmult_const(a, q, stale) = LessSkews(ScaledZ(down, t.globalz), a, a2, w1.skew, wl.skew)
  BY Zenon DEF ecmult_const, ConstOver, ConstByTable
<1>2. TableKept(t.r, WindowA) /\ Bounded(t.globalz, 2)
  BY SetGeKept, GlobalTableKept, Zenon
<1> HIDE DEF t
<1>3. EntriesKept(pre_a) /\ EntriesKept(MulLambdaAll(pre_a))
  BY <1>2, EntriesFromTable, Zenon
<1>4. split.r1 \in Scalar /\ split.r2 \in Scalar
  BY LambdaParts, Zenon
<1>5. DigitsKept(w1) /\ DigitsKept(wl)
  BY <1>4, ConstDigitsKept, Zenon
<1> HIDE DEF pre_a, w1, wl, split
<1>6. GejKept(down)
  BY <1>3, <1>5, ConstDownKept, Zenon
<1> HIDE DEF down
<1>7. GejKept(ScaledZ(down, t.globalz))
  BY <1>2, <1>6, ScaledKept
<1> QED
  BY <1>1, <1>7, LessSkewsKept, Zenon
-----------------------------------------------------------------------------
(* The walk.                                                               *)

\* Infinity with coordinates that were never written.
Blank(a) == /\ a.infinity /\ ~a.x.ok
            /\ DOMAIN a = {"x", "y", "z", "infinity"}

\* The inductive invariant: the coordinates are within the bounds that each formula
\* takes and leaves, or were never written.
AccKept == GejKept(acc) \/ Blank(acc)

\* Coordinates that were never written are passed on by the actions that may meet
\* them, and read by none.
LEMMA BlankKept ==
    ASSUME NEW a, Blank(a)
    PROVE  /\ gej_double_var(a) = a /\ Blank(gej_neg(a)) /\ Blank(gej_set_ge(ge_set_gej_var(a)))
<1>1. gej_double_var(a) = a
  BY DEF Blank, gej_double_var, gej_double_rzr
<1>2. Blank(gej_neg(a))
  BY DEF Blank, gej_neg
<1>3. ge_set_gej_var(a) = [x |-> Unset, y |-> Unset, infinity |-> TRUE]
  BY Zenon DEF Blank, ge_set_gej_var
<1>4. Blank(gej_set_ge([x |-> Unset, y |-> Unset, infinity |-> TRUE]))
  BY DEF Blank, gej_set_ge, Unset
<1> QED
  BY <1>1, <1>2, <1>3, <1>4, Zenon

\* ge_set_gej_var leaves the coordinates within bounds, or unwritten at infinity.
LEMMA UnwrittenKept ==
    ASSUME NEW a, GejKept(a)
    PROVE  GejKept(gej_set_ge(ge_set_gej_var(a))) \/ Blank(gej_set_ge(ge_set_gej_var(a)))
<1>1. CASE a.infinity
  <2>1. ge_set_gej_var(a) = [x |-> Unset, y |-> Unset, infinity |-> TRUE]
    BY <1>1, Zenon DEF ge_set_gej_var
  <2>2. Blank(gej_set_ge([x |-> Unset, y |-> Unset, infinity |-> TRUE]))
    BY DEF Blank, gej_set_ge, Unset
  <2> QED
    BY <2>1, <2>2, Zenon
<1>2. CASE ~a.infinity
  BY <1>2, SetGejKept, SetGeKept, Zenon DEF ge_set_gej_var
<1> QED
  BY <1>1, <1>2

\* Every action keeps the inductive invariant, where the tables that it makes of the
\* accumulator have no multiple at infinity.
LEMMA StepKept ==
    ASSUME AccKept, TablesFinite, [Next]_vars
    PROVE  AccKept'
<1>1. ASSUME NEW r, NEW k, Becomes(r, k), GejKept(r) \/ Blank(r) PROVE AccKept'
  <2>1. acc' = r
    BY <1>1, Zenon DEF Becomes
  <2> QED
    BY <1>1, <2>1 DEF AccKept
<1>2. CASE Double
  <2>1. GejKept(gej_double_var(acc)) \/ Blank(gej_double_var(acc))
    BY DoubleKept, BlankKept, Zenon DEF AccKept
  <2> QED
    BY <1>1, <1>2, <2>1, Zenon DEF Double
<1>3. CASE Negate
  <2>1. GejKept(gej_neg(acc)) \/ Blank(gej_neg(acc))
    BY NegKept, BlankKept, Zenon DEF AccKept
  <2> QED
    BY <1>1, <1>3, <2>1, Zenon DEF Negate
<1>4. CASE ToAffine
  <2>1. GejKept(gej_set_ge(ge_set_gej_var(acc))) \/ Blank(gej_set_ge(ge_set_gej_var(acc)))
    BY UnwrittenKept, BlankKept, Zenon DEF AccKept
  <2> QED
    BY <1>1, <1>4, <2>1, Zenon DEF ToAffine
<1>5. CASE Store
  <2>1. GejKept(gej_set_ge(ge_from_storage(ge_to_storage(ge_set_gej(acc)))))
    BY StorageKept, SetGeKept, Zenon
  <2> QED
    BY <1>1, <1>5, <2>1, Zenon DEF Store
<1>6. CASE MulLambda
  <2>1. GejKept(acc)
    BY <1>6, Zenon DEF MulLambda, AccKept, Blank
  <2>2. GejKept(gej_set_ge(ge_mul_lambda(ge_set_gej(acc))))
    BY <2>1, SetGejKept, MulLambdaKept, SetGeKept, Zenon
  <2> QED
    BY <1>1, <1>6, <2>2, Zenon DEF MulLambda
<1>7. ASSUME NEW i, Start(i) PROVE AccKept'
  <2>1. GejKept(gej_set_ge(AffineOf(i)))
    BY OperandsKept, SetGeKept, Zenon
  <2> QED
    BY <1>1, <1>7, <2>1, Zenon DEF Start
<1>8. ASSUME NEW i, AddGeVar(i) PROVE AccKept'
  <2>1. GeKept(AffineOf(i))
    BY OperandsKept, Zenon
  <2>2. GejKept(gej_add_ge_var(acc, AffineOf(i)))
    <3>1. CASE GejKept(acc)
      BY <2>1, <3>1, AddGeVarKept, Zenon
    <3>2. CASE Blank(acc)
      <4>1. gej_add_ge_var(acc, AffineOf(i)) = gej_set_ge(AffineOf(i))
        BY <3>2 DEF Blank, gej_add_ge_var, gej_add_ge_rzr
      <4> QED
        BY <2>1, <4>1, SetGeKept, Zenon
    <3> QED
      BY <3>1, <3>2 DEF AccKept
  <2> QED
    BY <1>1, <1>8, <2>2, Zenon DEF AddGeVar
<1>9. ASSUME NEW i, AddGe(i) PROVE AccKept'
  <2>1. GejKept(acc)
    BY <1>9, Zenon DEF AddGe, AccKept, Blank
  <2>2. GejKept(gej_add_ge(acc, AffineOf(i)))
    BY <2>1, OperandsKept, AddGeKept, Zenon
  <2> QED
    BY <1>1, <1>9, <2>2, Zenon DEF AddGe
<1>10. ASSUME NEW i, NEW z, AddVar(i, z) PROVE AccKept'
  <2>1. GejKept(JacobianOf(i, z))
    BY OperandsKept, Zenon
  <2>2. GejKept(gej_add_var(acc, JacobianOf(i, z)))
    <3>1. CASE GejKept(acc)
      BY <2>1, <3>1, AddKept, Zenon
    <3>2. CASE Blank(acc)
      <4>1. gej_add_var(acc, JacobianOf(i, z)) = JacobianOf(i, z)
        BY <3>2 DEF Blank, gej_add_var, gej_add_rzr
      <4> QED
        BY <2>1, <4>1, Zenon
    <3> QED
      BY <3>1, <3>2 DEF AccKept
  <2> QED
    BY <1>1, <1>10, <2>2, Zenon DEF AddVar
<1>11. ASSUME NEW i, NEW z, AddToOperand(i, z) PROVE AccKept'
  <2>1. GejKept(JacobianOf(i, z))
    BY OperandsKept, Zenon
  <2>2. \/ GejKept(gej_add_var(JacobianOf(i, z), acc))
        \/ Blank(gej_add_var(JacobianOf(i, z), acc))
    <3>1. CASE GejKept(acc)
      BY <2>1, <3>1, AddKept, Zenon
    <3>2. CASE Blank(acc)
      <4>1. \/ gej_add_var(JacobianOf(i, z), acc) = acc
            \/ gej_add_var(JacobianOf(i, z), acc) = JacobianOf(i, z)
        <5>1. acc.infinity
          BY <3>2 DEF Blank
        <5> QED
          BY <5>1, Zenon DEF gej_add_var, gej_add_rzr
      <4> QED
        BY <2>1, <3>2, <4>1, Zenon
    <3> QED
      BY <3>1, <3>2 DEF AccKept
  <2> QED
    BY <1>1, <1>11, <2>2, Zenon DEF AddToOperand
<1>12. ASSUME NEW i, NEW z, AddZinvVar(i, z) PROVE AccKept'
  <2> DEFINE b == JacobianOf(i, z)
             ge == [x |-> b.x, y |-> b.y, infinity |-> b.infinity]
             zi == fe_inv_var(fe_set_int(z))
  <2>1. GeKept(ge)
    BY OperandsKept, GeFinite, Zenon DEF GejKept
  <2>2. Bounded(zi, 2)
    BY SetIntBounded, InverseBounded, BoundedMonotone
  <2>3. Becomes(gej_add_zinv_var(acc, ge, zi), log + i)
    BY <1>12, Zenon DEF AddZinvVar
  <2> HIDE DEF ge, zi
  <2>4. GejKept(gej_add_zinv_var(acc, ge, zi)) \/ Blank(gej_add_zinv_var(acc, ge, zi))
    <3>1. CASE GejKept(acc)
      BY <2>1, <2>2, <3>1, AddZinvKept, Zenon
    <3>2. CASE Blank(acc)
      <4>1. acc.infinity
        BY <3>2 DEF Blank
      <4>2. \/ gej_add_zinv_var(acc, ge, zi) = acc
            \/ gej_add_zinv_var(acc, ge, zi) = gej_set_ge(ge_set_gej_zinv(ge, zi))
        BY <4>1, Zenon DEF gej_add_zinv_var
      <4>3. Bounded(ge.x, 6) /\ Bounded(ge.y, 4) /\ Bounded(zi, 3)
        BY <2>1, <2>2, BoundedMonotone DEF GeKept
      <4>4. GejKept(gej_set_ge(ge_set_gej_zinv(ge, zi)))
        BY <4>3, SetZinvKept, SetGeKept, Zenon
      <4> QED
        BY <3>2, <4>2, <4>4, Zenon
    <3> QED
      BY <3>1, <3>2 DEF AccKept
  <2> QED
    BY <1>1, <2>3, <2>4, Zenon
<1>13. ASSUME NEW z, Rescale(z) PROVE AccKept'
  <2>1. GejKept(acc)
    BY <1>13, Zenon DEF Rescale, AccKept, Blank
  <2>2. GejKept(gej_rescale(acc, fe_set_int(z)))
    BY <2>1, SetIntBounded, RescaleKept, Zenon
  <2> QED
    BY <1>1, <1>13, <2>2, Zenon DEF Rescale
<1>14. ASSUME NEW na \in Multipliers, NEW ng \in Multipliers, Multiply(na, ng) PROVE AccKept'
  <2>1. ~acc.infinity
    BY <1>14, Zenon DEF Multiply
  <2>2. GejKept(acc) /\ TableFinite(acc)
    BY <2>1, Zenon DEF AccKept, Blank, TablesFinite
  <2>3. na \in Scalar /\ ng \in Scalar
    BY WalkAssumption
  <2>4. GejKept(ecmult(ecmult_ctx, acc, na, ng))
    BY <2>2, <2>3, EcmultKept
  <2> QED
    BY <1>1, <1>14, <2>4, Zenon DEF Multiply
<1>15. ASSUME NEW q \in Multipliers, MultiplyConst(q) PROVE AccKept'
  <2>1. ~acc.infinity
    BY <1>15, Zenon DEF MultiplyConst
  <2>2. GejKept(acc) /\ TableFinite(gej_set_ge(ge_set_gej(acc)))
    BY <2>1, Zenon DEF AccKept, Blank, TablesFinite
  <2>3. q \in Scalar
    BY WalkAssumption
  <2>4. GeKept(ge_set_gej(acc))
    BY <2>2, SetGejKept
  <2>5. <<0, 0>>[1] # 1 /\ <<0, 0>>[2] # 1
    OBVIOUS
  <2>6. GejKept(ecmult_const(ge_set_gej(acc), q, <<0, 0>>))
    BY <2>2, <2>3, <2>4, <2>5, EcmultConstKept
  <2> QED
    BY <1>1, <1>15, <2>6, Zenon DEF MultiplyConst
<1>16. CASE UNCHANGED vars
  BY <1>16 DEF vars, AccKept
<1> QED
  BY <1>2, <1>3, <1>4, <1>5, <1>6, <1>7, <1>8, <1>9, <1>10, <1>11, <1>12, <1>13, <1>14,
     <1>15, <1>16, Zenon DEF Next

\* The bounds are below every limit that the code checks.
LEMMA KeptSound == AccKept => MagnitudesKept
  BY Zenon DEF AccKept, Blank, GejKept, Bounded, MagnitudesKept, Sound

\* Whatever the walk, no magnitude and no digit fails a VERIFY_CHECK of field.h,
\* group_impl.h or ecmult_impl.h, as long as no multiple in a table is at infinity.
THEOREM MagnitudesAlways == Spec /\ []TablesFinite => []MagnitudesKept
<1>1. Init => AccKept
  BY OperandsKept, Zenon DEF Init, AccKept
<1>2. AccKept /\ TablesFinite /\ [Next]_vars => AccKept'
  BY StepKept
<1>3. AccKept => MagnitudesKept
  BY KeptSound
<1> QED
  BY <1>1, <1>2, <1>3, PTL DEF Spec

-----------------------------------------------------------------------------
(* The constants of secp256k1, from scalar_impl.h and scalar_4x64_impl.h.  *)

SECP256K1_N ==    \* FFFFFFFF FFFFFFFF FFFFFFFF FFFFFFFE BAAEDCE6 AF48A03B BFD25E8C D0364141
    115792089237316195423570985008687907852837564279074904382605163141518161494337
minus_lambda ==   \* AC9C52B3 3FA3CF1F 5AD9E3FD 77ED9BA4 A880B9FC 8EC739C2 E0CFC810 B51283CF
    78074008874160198520644763525212887401909906723592317393988542598630163514319
minus_b1 ==       \* E4437ED6 010E8828 6F547FA9 0ABFE4C3
    303414439467246543595250775667605759171
minus_b2 ==       \* FFFFFFFF FFFFFFFF FFFFFFFF FFFFFFFE 8A280AC5 0774346D D765CDA8 3DB1562C
    115792089237316195423570985008687907852773061305525697825976578096156627785260
g1 ==             \* 3086 D221A7D4 6BCDE86C 90E49284 EB153DAB
    4227266874520800895210949532813473158086059
g2 ==             \* E443 7ED6010E 88286F54 7FA90ABF E4C42212
    19884568704925469481058354834152211033104914
a1 ==             \* 3086D221 A7D46BCD E86C90E4 9284EB15
    64502973549206556628585045361533709077
a2 ==             \* 1 14CA50F7 A8E2F3F6 57C1108D 9D44CFD8
    367917413016453100223835821029139468248

\* A power of two by two parts of its exponent.
LEMMA PowerParts ==
    ASSUME NEW m \in Nat, NEW n \in Nat, NEW k, k = m + n
    PROVE  2^k = 2^m * 2^n
  BY PowerSum, Zenon

\* The powers of two that the constants are compared with.
LEMMA LargePowers ==
    /\ 2^128 = 340282366920938463463374607431768211456
    /\ 2^255 = 57896044618658097711785492504343953926634992332820282019728792003956564819968
    /\ 2^256 = 115792089237316195423570985008687907853269984665640564039457584007913129639936
    /\ 2^272 = 7588550360256754183279148073529370729071901715047420004889892225542594864082845696
<1>1. 2^0 = 1 /\ 2^1 = 2 /\ 2^2 = 4 /\ 2^3 = 8 /\ 2^4 = 16
  OBVIOUS
<1>2. PICK k4 \in Nat, k8 \in Nat, k16 \in Nat, k32 \in Nat, k64 \in Nat, k128 \in Nat,
          k255 \in Nat, k256 \in Nat, k272 \in Nat :
          /\ k4 = 4 /\ k8 = 8 /\ k16 = 16 /\ k32 = 32 /\ k64 = 64 /\ k128 = 128
          /\ k255 = 255 /\ k256 = 256 /\ k272 = 272
  BY SMT
<1>3. 2^k4 = 16
  BY <1>1, <1>2
<1>4. k8 = k4 + k4
  BY ONLY <1>2, SMT
<1>5. 2^k8 = 2^k4 * 2^k4
  BY ONLY <1>4, k4 \in Nat, k4 \in Nat, PowerParts, Zenon
<1>6. 2^k8 = 256
  BY ONLY <1>5, <1>3, SMT
<1>7. k16 = k8 + k8
  BY ONLY <1>2, SMT
<1>8. 2^k16 = 2^k8 * 2^k8
  BY ONLY <1>7, k8 \in Nat, k8 \in Nat, PowerParts, Zenon
<1>9. 2^k16 = 65536
  BY ONLY <1>8, <1>6, SMT
<1>10. k32 = k16 + k16
  BY ONLY <1>2, SMT
<1>11. 2^k32 = 2^k16 * 2^k16
  BY ONLY <1>10, k16 \in Nat, k16 \in Nat, PowerParts, Zenon
<1>12. 2^k32 = 4294967296
  BY ONLY <1>11, <1>9, SMT
<1>13. k64 = k32 + k32
  BY ONLY <1>2, SMT
<1>14. 2^k64 = 2^k32 * 2^k32
  BY ONLY <1>13, k32 \in Nat, k32 \in Nat, PowerParts, Zenon
<1>15. 2^k64 = 18446744073709551616
  BY ONLY <1>14, <1>12, SMT
<1>16. k128 = k64 + k64
  BY ONLY <1>2, SMT
<1>17. 2^k128 = 2^k64 * 2^k64
  BY ONLY <1>16, k64 \in Nat, k64 \in Nat, PowerParts, Zenon
<1>18. 2^k128 = 340282366920938463463374607431768211456
  BY ONLY <1>17, <1>15, SMT
<1>19. k256 = k128 + k128
  BY ONLY <1>2, SMT
<1>20. 2^k256 = 2^k128 * 2^k128
  BY ONLY <1>19, k128 \in Nat, k128 \in Nat, PowerParts, Zenon
<1>21. 2^k256 = 115792089237316195423570985008687907853269984665640564039457584007913129639936
  BY ONLY <1>20, <1>18, SMT
<1>22. k256 = k255 + 1
  BY ONLY <1>2, SMT
<1>23. 2^k256 = 2 * 2^k255 /\ 2^k255 \in Nat
  BY ONLY <1>22, k255 \in Nat, PowerNext, PowerPositive, Zenon
<1>24. 2^k255 = 57896044618658097711785492504343953926634992332820282019728792003956564819968
  BY ONLY <1>21, <1>23, SMT
<1>25. k272 = k256 + k16
  BY ONLY <1>2, SMT
<1>26. 2^k272 = 2^k256 * 2^k16
  BY ONLY <1>25, k256 \in Nat, k16 \in Nat, PowerParts, Zenon
<1>27. 2^k272 = 7588550360256754183279148073529370729071901715047420004889892225542594864082845696
  BY ONLY <1>26, <1>9, <1>21, SMT
<1> QED
  BY <1>2, <1>18, <1>24, <1>21, <1>27, SMT

\* A multiple has no remainder.
LEMMA MultipleRemainder ==
    ASSUME NEW m \in Nat, m >= 1, NEW q \in Int, NEW x \in Int, x = m * q
    PROVE  x % m = 0
<1>1. x = m * q + 0 /\ 0 \in 0..(m - 1)
  OBVIOUS
<1> QED
  BY <1>1, DivisionUnique

\* The constants of the library satisfy what the split of a scalar and its
\* recoding need: all that is assumed of them but that the order is a prime.
THEOREM Secp256k1Fits ==
    /\ SECP256K1_N < 2^256 /\ 2 * SECP256K1_N > 2^256
    /\ HalvesFit(SECP256K1_N, 256, 128)
    /\ LambdaFits(SECP256K1_N, minus_lambda)
    /\ LatticeFits(SECP256K1_N, 128, minus_lambda, minus_b1, minus_b2, g1, g2, 272)
<1> DEFINE n == SECP256K1_N
           lam == 37718080363155996902926221483475020450927657555482586988616620542887997980018
           b2 == 64502973549206556628585045361533709077
<1>1. n \in Nat /\ n >= 1 /\ lam \in Int /\ b2 \in Int /\ n - minus_lambda = lam /\ n - minus_b2 = b2
  BY SMT DEF SECP256K1_N, minus_lambda, minus_b2
<1>2. n < 2^256 /\ 2 * n > 2^256 /\ HalvesFit(n, 256, 128)
  BY LargePowers, SMT DEF SECP256K1_N, HalvesFit
<1>3. (lam * lam + lam + 1) % n = 0
  <2>1. lam * lam + lam + 1 = n * 12286276166636580012140862095472453253950970278553425451194017527274075467639
    BY SMT DEF SECP256K1_N
  <2>2. lam * lam + lam + 1 \in Int /\ 12286276166636580012140862095472453253950970278553425451194017527274075467639 \in Int
    BY SMT
  <2> HIDE DEF n, lam
  <2> QED
    BY <1>1, <2>1, <2>2, MultipleRemainder, SMT
<1>4. a1 \in 0..(n - 1) /\ a2 \in 0..(n - 1) /\ minus_b1 \in Int
  BY SMT DEF SECP256K1_N, a1, a2, minus_b1
<1>5. (a1 - minus_b1 * lam) % n = 0
  <2>1. a1 - minus_b1 * lam = n * (-98834128363575826231712400374302886273)
    BY SMT DEF SECP256K1_N, a1, minus_b1
  <2>2. a1 - minus_b1 * lam \in Int /\ -98834128363575826231712400374302886273 \in Int
    BY SMT DEF a1, minus_b1
  <2> HIDE DEF n, lam
  <2> QED
    BY <1>1, <2>1, <2>2, MultipleRemainder, SMT
<1>6. (a2 + b2 * lam) % n = 0
  <2>1. a2 + b2 * lam = n * 21011179226632705335158493575954588082
    BY SMT DEF SECP256K1_N, a2
  <2>2. a2 + b2 * lam \in Int /\ 21011179226632705335158493575954588082 \in Int
    BY SMT DEF a2
  <2> HIDE DEF n, lam, b2
  <2> QED
    BY <1>1, <2>1, <2>2, MultipleRemainder, SMT
<1>7. a1 * b2 + a2 * minus_b1 = n
  BY SMT DEF SECP256K1_N, a1, a2, minus_b1
<1>8. PICK half \in Nat, shift \in Nat :
         /\ half = 128 /\ 2^half = 340282366920938463463374607431768211456
         /\ shift = 272 /\ 2^shift = 7588550360256754183279148073529370729071901715047420004889892225542594864082845696
  BY LargePowers, SMT
<1>9. /\ Rounded(n, shift, g1, b2) /\ Rounded(n, shift, g2, minus_b1)
      /\ (minus_b1 + b2) * (2^shift + n) <= 2 * 2^half * 2^shift
      /\ (a1 + a2) * (2^shift + n) <= 2 * 2^half * 2^shift
  BY ONLY <1>8, SMT DEF SECP256K1_N, a1, a2, g1, g2, minus_b1, Rounded
<1>10. LambdaFits(n, minus_lambda)
  <2> HIDE DEF n, lam
  <2> QED
    BY <1>1, <1>3 DEF LambdaFits
<1>11. LatticeFits(n, 128, minus_lambda, minus_b1, minus_b2, g1, g2, 272)
  <2> HIDE DEF n, lam, b2
  <2>1. /\ (a1 - minus_b1 * (n - minus_lambda)) % n = 0
        /\ (a2 + (n - minus_b2) * (n - minus_lambda)) % n = 0
        /\ a1 * (n - minus_b2) + a2 * minus_b1 = n
    BY <1>1, <1>5, <1>6, <1>7
  <2>2. /\ Rounded(n, shift, g1, n - minus_b2) /\ Rounded(n, shift, g2, minus_b1)
        /\ \A side \in {minus_b1 + (n - minus_b2), a1 + a2} :
              side * (2^shift + n) <= 2 * 2^half * 2^shift
    BY ONLY <1>1, <1>9, Zenon
  <2>3. LatticeFits(n, half, minus_lambda, minus_b1, minus_b2, g1, g2, shift)
    BY ONLY <1>4, <2>1, <2>2, Zenon DEF LatticeFits
  <2> QED
    BY ONLY <1>8, <2>3, SMT
<1> QED
  BY <1>2, <1>10, <1>11
=============================================================================
