--------------------------- MODULE ScalarElement ----------------------------
(***************************************************************************)
(* A scalar as scalar.h promises it to the code above: a number below the  *)
(* group order, in a container of Bits bits.  Module ScalarLimbs has the   *)
(* code that keeps these promises limb by limb.                            *)
(*                                                                         *)
(* The constants are those of scalar_split_lambda.  On secp256k1 Bits is   *)
(* 256, Half is 128 and LambdaShift is 272.                                *)
(***************************************************************************)
EXTENDS Integers, Sequences

CONSTANTS
    Order,         \* of the group, a prime
    Bits,          \* of a scalar
    Half,          \* of the two parts a scalar is split into
    MinusLambda,   \* the negatives of lambda and of the lattice basis ...
    MinusB1, MinusB2,
    G1, G2,        \* ... and the rounded quotients that stand for the division
    LambdaShift

ASSUME OrderAssumption ==
    /\ Order \in Nat /\ Bits \in Nat /\ Half \in 1..Bits
    /\ Order < 2^Bits /\ 2 * Order > 2^Bits
    /\ \A d \in 2..(Order - 1) : Order % d # 0

\* Two parts make a scalar, and the order exceeds half the power of two by the
\* size of a part, so that the top bit tells the sign of a short scalar.
HalvesFit(order, bits, half) == 2 * half >= bits /\ 2^(bits - 1) + 2^half <= order

\* A cube root of 1 modulo the order.
LambdaFits(order, mlambda) ==
    LET lam == order - mlambda IN (lam * lam + lam + 1) % order = 0

\* g / 2^shift is the nearest to b / order.
Rounded(order, shift, g, b) ==
    LET off == 2 * (g * order - 2^shift * b) IN off <= order /\ -off <= order

\* What the comment above scalar_split_lambda says of its constants: (a1, -b1)
\* and (a2, b2) are vectors (u, v) with u + v * lambda = 0, of determinant the
\* order, g1 and g2 the rounded quotients; and the vectors are as short as it
\* takes for parts of half the bits.
LatticeFits(order, half, mlambda, b1, mb2, g1, g2, shift) ==
    LET lam == order - mlambda
        b2 == order - mb2
        unit == 2^shift
    IN \E a1, a2 \in 0..(order - 1) :
          /\ (a1 - b1 * lam) % order = 0 /\ (a2 + b2 * lam) % order = 0
          /\ a1 * b2 + a2 * b1 = order
          /\ Rounded(order, shift, g1, b2) /\ Rounded(order, shift, g2, b1)
          /\ \A side \in {b1 + b2, a1 + a2} : side * (unit + order) <= 2 * 2^half * unit

ASSUME HalfAssumption == HalvesFit(Order, Bits, Half)

ASSUME LambdaAssumption ==
    /\ {MinusLambda, MinusB1, MinusB2} \subseteq 0..(Order - 1)
    /\ {G1, G2} \subseteq Nat /\ LambdaShift \in Nat \ {0}
    /\ LambdaFits(Order, MinusLambda)

ASSUME LatticeAssumption ==
    LatticeFits(Order, Half, MinusLambda, MinusB1, MinusB2, G1, G2, LambdaShift)

Scalar == 0..(Order - 1)

\* The number of a byte array, and whether it had to be reduced.
scalar_set_b32(b) == [r |-> b % Order, overflow |-> b >= Order]
scalar_get_b32(a) == a

scalar_add(a, b) == [r |-> (a + b) % Order, overflow |-> a + b >= Order]
scalar_mul(a, b) == (a * b) % Order
scalar_sqr(a) == scalar_mul(a, a)

scalar_is_zero(a) == a = 0
scalar_is_one(a)  == a = 1
scalar_is_even(a) == a % 2 = 0
scalar_is_high(a) == a > Order \div 2

\* Nothing is written when there is nothing to negate: old is what r held.
scalar_negate(old, a) == IF scalar_is_zero(a) THEN old ELSE Order - a

\* Mutant: the caller is not told.
scalar_cond_negate_silent(a, flag) ==
    [ret |-> 1, r |-> IF flag THEN scalar_negate(a, a) ELSE a]

scalar_cond_negate(a, flag) ==
    [ret |-> IF flag THEN -1 ELSE 1, r |-> IF flag THEN scalar_negate(a, a) ELSE a]

\* Without a reduction: the caller sees to it that none is needed.
scalar_cadd_bit(a, bit, flag) == IF flag THEN a + 2^bit ELSE a

scalar_get_bits(a, offset, count) == (a \div 2^offset) % 2^count
scalar_shr_int(a, k) == [ret |-> a % 2^k, r |-> a \div 2^k]

\* a * b / 2^shift to the nearest number: by the highest bit that is dropped.
scalar_mul_shift_var(a, b, shift) ==
    (a * b) \div 2^shift + (((a * b) \div 2^(shift - 1)) % 2)

\* a^(Order - 2); the chain of squarings is in module AdditionChain.
scalar_inverse(a) ==
    LET pow[k \in 0..(Order - 2)] ==
            IF k = 0 THEN 1
            ELSE IF k % 2 = 1 THEN scalar_mul(pow[k - 1], a) ELSE scalar_sqr(pow[k \div 2])
    IN pow[Order - 2]

scalar_split_128(a) == [r1 |-> a % 2^Half, r2 |-> a \div 2^Half]

scalar_split_lambda(a) ==
    LET c1 == scalar_mul(scalar_mul_shift_var(a, G1, LambdaShift), MinusB1)
        c2 == scalar_mul(scalar_mul_shift_var(a, G2, LambdaShift), MinusB2)
        r2 == scalar_add(c1, c2).r
    IN [r1 |-> scalar_add(scalar_mul(r2, MinusLambda), a).r, r2 |-> r2]
=============================================================================
