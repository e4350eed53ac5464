---------------------------- MODULE FieldElement ----------------------------
(***************************************************************************)
(* A field element as field_5x52_impl.h and field_impl.h promise it to the *)
(* code above them: a value modulo the prime, with the bookkeeping that    *)
(* the VERIFY build of the library does at run time and the build that is  *)
(* shipped leaves out.                                                     *)
(*                                                                         *)
(* m is the magnitude, n says that the representation is the normal one,   *)
(* ok that no VERIFY_CHECK has failed on the way to this element.  What is *)
(* not normal may be held as any representative of its class; the model    *)
(* takes the one above the normal one, so that code which forgets to       *)
(* normalize before it looks at the digits does get a wrong answer.        *)
(***************************************************************************)
EXTENDS Integers, Sequences

CONSTANTS
    P,             \* the prime
    MaxMagnitude   \* what a magnitude may be: one less than secp256k1_fe_verify
                   \* accepts, for the limbs of an element of the magnitude that
                   \* it does accept have no room for what a normalization adds
                   \* to them (module FieldLimbs)

ASSUME PrimeAssumption ==
    /\ P \in Nat /\ P % 4 = 3
    /\ \A d \in 2..(P - 1) : P % d # 0
    /\ MaxMagnitude \in Nat /\ MaxMagnitude >= 8

Fe(v, m, n, ok) ==
    [v |-> v % P, m |-> m, n |-> n, ok |-> ok /\ m <= MaxMagnitude]

\* The number that the limbs hold.
Raw(a) == IF a.n THEN a.v ELSE a.v + P

fe_set_int(k) == Fe(k, 1, TRUE, TRUE)
FeZero == fe_set_int(0)
FeOne  == fe_set_int(1)

\* An element nothing has been written to.
Unset == [v |-> 0, m |-> 0, n |-> FALSE, ok |-> FALSE]

\* secp256k1_fe_normalize is this one as well, by the macro at its end.
fe_normalize_var(a)  == Fe(a.v, 1, TRUE, a.ok)
fe_normalize_weak(a) == Fe(a.v, 1, a.n, a.ok)

fe_normalizes_to_zero_var(a) == a.v = 0

\* These read the limbs as they are.
fe_is_zero(a) == Raw(a) = 0
fe_is_odd(a)  == Raw(a) % 2 = 1
fe_get_b32(a) == Raw(a)
fe_to_storage(a)   == Raw(a)
fe_from_storage(s) == [v |-> s % P, m |-> 1, n |-> s < P, ok |-> TRUE]

\* Whether the number is below the prime; the limbs are written in any case.
fe_set_b32(b) == [ret |-> b < P, fe |-> [v |-> b % P, m |-> 1, n |-> b < P, ok |-> b < P]]

fe_negate(a, m)  == Fe(-a.v, m + 1, FALSE, a.ok /\ a.m <= m)
fe_mul_int(a, k) == Fe(a.v * k, a.m * k, FALSE, a.ok)
fe_add(a, b)     == Fe(a.v + b.v, a.m + b.m, FALSE, a.ok /\ b.ok)
fe_mul(a, b)     == Fe(a.v * b.v, 1, FALSE, a.ok /\ b.ok /\ a.m <= 8 /\ b.m <= 8)
fe_sqr(a)        == fe_mul(a, a)

fe_cmov(r, a, flag) ==
    Fe(IF flag THEN a.v ELSE r.v, IF a.m > r.m THEN a.m ELSE r.m,
       a.n /\ r.n, a.ok /\ r.ok)

fe_equal_var(a, b) == fe_normalizes_to_zero_var(fe_add(fe_negate(a, 1), b))

\* a^k; the addition chains compute it (module AdditionChain).
FePow(a, k) ==
    LET pow[j \in 0..k] == IF j = 0 THEN 1
                           ELSE IF j % 2 = 1 THEN (pow[j - 1] * a.v) % P
                           ELSE LET h == pow[j \div 2] IN (h * h) % P
    IN Fe(pow[k], 1, FALSE, a.ok /\ a.m <= 8)

\* The root, and whether it is one.
fe_sqrt_var(a) ==
    LET r == FePow(a, (P + 1) \div 4)
    IN [ret |-> fe_equal_var(fe_sqr(r), a), fe |-> r]

\* The inverse of zero is zero.
fe_inv_var(a) == FePow(a, P - 2)

\* Mutant: the accumulator is not freed of the element it leaves.
fe_inv_all_kept(a) ==
    LET len == Len(a)
        pre[i \in 1..len] == IF i = 1 THEN a[1] ELSE fe_mul(pre[i - 1], a[i])
        u[i \in 1..len] == IF i = len THEN fe_inv_var(pre[len])
                           ELSE fe_mul(u[i + 1], a[i])
    IN [i \in 1..len |-> IF i = 1 THEN u[1] ELSE fe_mul(pre[i - 1], u[i])]

\* Every inverse for one inversion: the products of the prefixes first, then
\* their inverses, from the last one down.
fe_inv_all_var(a) ==
    LET len == Len(a)
        pre[i \in 1..len] == IF i = 1 THEN a[1] ELSE fe_mul(pre[i - 1], a[i])
        u[i \in 1..len] == IF i = len THEN fe_inv_var(pre[len])
                           ELSE fe_mul(u[i + 1], a[i + 1])
    IN [i \in 1..len |-> IF i = 1 THEN u[1] ELSE fe_mul(pre[i - 1], u[i])]
=============================================================================
