------------------------------ MODULE FieldLimbs ------------------------------
(***************************************************************************)
(* A field element in limbs that are allowed to be larger than their       *)
(* share: field_10x26_impl.h with ten, field_5x52_impl.h with five, and    *)
(* for five the two products of field_5x52_int128_impl.h and               *)
(* field_5x52_asm_impl.h.  Above these files an element is the value that  *)
(* module FieldElement takes it to be, with its magnitude.                 *)
(*                                                                         *)
(* The limbs are numbered from 0, the lowest.  A limb wraps like the       *)
(* integer it is kept in.  ok is what VERIFY_CHECK asserts, and that no    *)
(* sum of a product is larger than the two words it is kept in.            *)
(***************************************************************************)
EXTENDS Integers, Sequences

CONSTANTS
    L,             \* the limbs of an element
    Bits,          \* the bits of a limb
    Slack,         \* the bits that the highest limb has less
    C,             \* what the prime is below the power of two, in limbs
    Word,          \* the bits of the integer a limb is kept in
    Store,         \* the bits of a word of the storage form
    ByteBits,      \* the bits of a byte
    MaxMagnitude,  \* what fe_verify and
    MulMagnitude   \* the products accept

M1   == 2^Bits                 \* M + 1
Top1 == 2^(Bits - Slack)       \* M >> Slack, + 1

\* Sizes with which no carry is lost.  A limb keeps its word up to the largest
\* magnitude, and what comes out of the highest limb is small beside it.  Of the
\* largest magnitude itself, full limbs leave no room for what a normalization
\* adds to them: those are right below it.
LimbsFit ==
    /\ {Bits, Slack, Word} \subseteq Nat /\ {Store, ByteBits} \subseteq Nat \ {0}
    /\ {MaxMagnitude, MulMagnitude} \subseteq Nat \ {0} /\ MulMagnitude <= MaxMagnitude
    /\ L \in {5, 10} /\ Len(C) = L \div 5
    /\ Slack < Bits /\ Bits < Word
    /\ (L * Bits - Slack) % Store = 0 /\ (L * Bits - Slack) % ByteBits = 0
    /\ 2 * MaxMagnitude * M1 <= 2^Word
    /\ 8 * MaxMagnitude <= Top1
    /\ \A i \in 1..Len(C) : C[i] \in 1..(M1 - 1) /\ C[i] * (MaxMagnitude + 1) < M1

\* Five limbs: sizes with which no sum of the products outgrows its integer.  The
\* limbs of what the products accept are at most Factor times their share.
Factor == 2 * MulMagnitude
ProductsFit ==
    /\ 8 * (Factor * Factor) * M1 <= 2^Word
    /\ 6 * (Factor * Factor) * (C[1] * 2^Slack) <= M1
    /\ 2 * (8 * (Factor * Factor) + 1) <= Top1

\* The same of ten limbs: of the sums, of what comes out of the highest limb of a
\* product, and of what is left of that after it has come down.
Products10Fit ==
    /\ 12 * (Factor * Factor) * (M1 * M1) <= 2^(2 * Word)
    /\ Factor * Top1 <= M1
    /\ 2^Slack * (12 * (Factor * Factor) + (2 * C[1] + C[2]) * 2^Slack + 1) <= M1
    /\ (2 * C[2] * (2^Slack * 2^Slack) + 1) * C[1] + 1 <= M1
    /\ (2 * C[2] * (2^Slack * 2^Slack) + 1) * C[2] + 3 <= M1

Index == 0..(L - 1)
Mask(i) == IF i = L - 1 THEN Top1 - 1 ELSE M1 - 1
Cof(i)  == IF i < Len(C) THEN C[i + 1] ELSE 0
PLimb(i) == Mask(i) - Cof(i) + (IF i = 0 THEN 1 ELSE 0)

\* For a value below 2^(L * Bits - Slack): is it the prime or above it?
AtLeastP(t) ==
    LET k == Len(C)
        over[i \in 0..(k - 1)] ==
            t[i] + Cof(i) + (IF i = 0 THEN 0 ELSE over[i - 1] \div M1)
    IN (\A i \in k..(L - 1) : t[i] = Mask(i)) /\ over[k - 1] > M1 - 1

fe_verify(n, magnitude, normalized) ==
    LET m == IF normalized THEN 1 ELSE 2 * magnitude
    IN /\ \A i \in Index : n[i] \in 0..(m * Mask(i))
       /\ magnitude \in 0..MaxMagnitude
       /\ normalized => magnitude <= 1 /\ ~AtLeastP(n)

\* An element after an operation, whose checks are ok.
Fe(n, magnitude, normalized, ok) ==
    [n |-> n, magnitude |-> magnitude, normalized |-> normalized,
     ok |-> ok /\ fe_verify(n, magnitude, normalized)]

-----------------------------------------------------------------------------
(* Normal forms                                                            *)

\* x times the power of two is added back as x times C, and every limb hands
\* what it has too much to the next.  A limb that outgrows its integer wraps.
Pass(n, x) ==
    LET t[i \in Index] ==
            (n[i] + x * Cof(i) + (IF i = 0 THEN 0 ELSE t[i - 1] \div M1)) % 2^Word
    IN [i \in Index |-> IF i = L - 1 THEN t[i] ELSE t[i] % M1]

FirstPass(n) == Pass([n EXCEPT ![L - 1] = @ % Top1], n[L - 1] \div Top1)
SingleCarry(t) == t[L - 1] < 2 * Top1
TopOff(t) == [t EXCEPT ![L - 1] = @ % Top1]

fe_normalize_weak(a) ==
    LET t == FirstPass(a.n) IN Fe(t, 1, a.normalized, a.ok /\ SingleCarry(t))

FinalX(t) == IF t[L - 1] >= Top1 \/ AtLeastP(t) THEN 1 ELSE 0

\* Mutant: a value between the prime and the power of two is taken for normal.
fe_normalize_carried(a) ==
    LET t == FirstPass(a.n) IN Fe(TopOff(t), 1, TRUE, a.ok)

\* The second pass is made whether it is needed or not, ...
fe_normalize(a) ==
    LET t == FirstPass(a.n)
        x == FinalX(t)
        s == Pass(t, x)
    IN Fe(TopOff(s), 1, TRUE, a.ok /\ SingleCarry(t) /\ s[L - 1] \div Top1 = x)

\* ... or only when it is.
fe_normalize_var(a) ==
    LET t == FirstPass(a.n)
        s == IF FinalX(t) = 1 THEN Pass(t, 1) ELSE t
    IN Fe(TopOff(s), 1, TRUE, a.ok /\ SingleCarry(t) /\ s[L - 1] \div Top1 = FinalX(t))

fe_normalizes_to_zero(a) ==
    LET t == FirstPass(a.n)
    IN (\A i \in Index : t[i] = 0) \/ (\A i \in Index : t[i] = PLimb(i))

\* The lowest limb alone says no in most cases.
fe_normalizes_to_zero_var(a) ==
    /\ (a.n[0] + (a.n[L - 1] \div Top1) * Cof(0)) % M1 \in {0, PLimb(0)}
    /\ fe_normalizes_to_zero(a)

fe_set_int(k) == Fe([i \in Index |-> IF i = 0 THEN k ELSE 0], 1, TRUE, TRUE)
fe_clear == Fe([i \in Index |-> 0], 0, TRUE, TRUE)
fe_is_zero(a) == a.normalized /\ \A i \in Index : a.n[i] = 0
fe_is_odd(a) == a.normalized /\ a.n[0] % 2 = 1

\* From the highest limb down.
fe_cmp_var(a, b) ==
    LET from[i \in -1..(L - 1)] ==
            IF i = -1 THEN 0
            ELSE IF a.n[i] > b.n[i] THEN 1
            ELSE IF a.n[i] < b.n[i] THEN -1
            ELSE from[i - 1]
    IN from[L - 1]

-----------------------------------------------------------------------------
(* Other forms                                                             *)

\* The number's bits from the lowest on, in groups of the given width.
Regroup(n, width, towidth, count) ==
    LET bit(k) == (n[k \div width] \div 2^(k % width)) % 2
        group[k \in 0..(count * towidth)] ==
            IF k = 0 THEN [i \in 0..(count - 1) |-> 0]
            ELSE [group[k - 1] EXCEPT ![(k - 1) \div towidth] =
                                          @ + bit(k - 1) * 2^((k - 1) % towidth)]
    IN group[count * towidth]

BitLength == L * Bits - Slack
ToLimbs(n, width) ==
    Regroup([i \in 0..((L * Bits) \div width) |-> IF i < BitLength \div width THEN n[i] ELSE 0],
            width, Bits, L)

fe_to_storage(a) == Regroup(a.n, Bits, Store, BitLength \div Store)
fe_from_storage(n) == Fe(ToLimbs(n, Store), 1, TRUE, TRUE)

\* The bytes are numbered from the highest.
fe_get_b32(a) ==
    LET b == Regroup(a.n, Bits, ByteBits, BitLength \div ByteBits)
        last == BitLength \div ByteBits - 1
    IN [i \in 0..last |-> b[last - i]]

\* The limbs are set even when the value is refused.
fe_set_b32(b) ==
    LET last == BitLength \div ByteBits - 1
        n == ToLimbs([i \in 0..last |-> b[last - i]], ByteBits)
    IN [ret |-> ~AtLeastP(n), n |-> n]

-----------------------------------------------------------------------------
(* Sums                                                                    *)

\* A multiple of the prime large enough for every limb of an element of
\* magnitude m.
fe_negate(a, m) ==
    Fe([i \in Index |-> (PLimb(i) * 2 * (m + 1) - a.n[i]) % 2^Word], m + 1, FALSE,
       a.ok /\ a.magnitude <= m)

fe_mul_int(r, k) ==
    Fe([i \in Index |-> (r.n[i] * k) % 2^Word], r.magnitude * k, FALSE, r.ok)

fe_add(r, a) ==
    Fe([i \in Index |-> (r.n[i] + a.n[i]) % 2^Word], r.magnitude + a.magnitude, FALSE,
       r.ok /\ a.ok)

fe_cmov(r, a, flag) ==
    [n |-> IF flag THEN a.n ELSE r.n,
     magnitude |-> IF a.magnitude > r.magnitude THEN a.magnitude ELSE r.magnitude,
     normalized |-> r.normalized /\ a.normalized, ok |-> r.ok /\ a.ok]

fe_storage_cmov(r, a, flag) == IF flag THEN a ELSE r

-----------------------------------------------------------------------------
(* Products                                                                *)

Wide == 2^(2 * Word)
Fits(sums) == \A i \in DOMAIN sums : sums[i] \in 0..(Wide - 1)

\* The sum of all a[i] * b[k - i], and the same for a square, in which the
\* limb of a product that is there twice is doubled first.
MulColumn(a, b, k) ==
    LET sum[i \in -1..(L - 1)] ==
            IF i = -1 THEN 0
            ELSE sum[i - 1] + (IF k - i \in Index THEN a[i] * b[k - i] ELSE 0)
    IN sum[L - 1]

SqrColumn(a, k) ==
    LET sum[i \in -1..(k \div 2)] ==
            IF i = -1 THEN 0
            ELSE sum[i - 1] + (IF k - i \notin Index THEN 0
                               ELSE IF 2 * i = k THEN a[i] * a[i]
                               ELSE ((a[i] * 2) % 2^Word) * a[k - i])
    IN sum[k \div 2]

\* Five limbs.  c and d are the two sums in progress, and x >> Bits is shr(x);
\* the result is what is below Bits, and in the highest limb all of it.
Product5(p(_), shr(_)) ==
    LET R  == C[1] * 2^Slack
        p8 == p(8)
        d3 == p(3) + (p8 % M1) * R
        d4 == shr(d3) + p(4) + shr(p8) * R
        t4 == d4 % M1
        d5 == shr(d4) + p(5)
        u0 == (d5 % M1) * 2^Slack + (t4 \div Top1)
        d6 == shr(d5) + p(6)
        d7 == shr(d6) + p(7)
        c0 == p(0) + u0 * C[1]
        c1 == shr(c0) + p(1) + (d6 % M1) * R
        c2 == shr(c1) + p(2) + (d7 % M1) * R
        c3 == shr(c2) + shr(d7) * R + (d3 % M1)
        c4 == shr(c3) + (t4 % Top1)
        limbs == <<c0 % M1, c1 % M1, c2 % M1, c3 % M1, c4>>
    IN [n |-> [i \in Index |-> limbs[i + 1]], ok |-> Fits(<<d3, d4, d5, d6, d7, c0, c1, c2, c3, c4>>)]

\* A sum of two words shifted as a whole, and into one register.
Shr(x)       == x \div M1
ShrToWord(x) == (x \div M1) % 2^Word

\* Ten limbs.  Round k takes what is due 2^10 limbs up, and brings it down by
\* both limbs of C.
Round10(s, k, p(_)) ==
    LET d == s.d + p(L + k)
        u == d % M1
        c == s.c + p(k) + u * (C[1] * 2^Slack)
    IN [c |-> (c \div M1) + u * (C[2] * 2^Slack), d |-> d \div M1,
        t |-> Append(s.t, c % M1), ok |-> s.ok /\ Fits(<<c, d>>)]

\* What is left above the ten limbs comes down to the lowest three.
Fold10(s, t9) ==
    LET e  == s.c + s.d * (C[1] * 2^Slack) + t9
        c  == (e \div Top1) + s.d * (C[2] * 2^(2 * Slack))
        d0 == c * C[1] + s.t[1]
        d1 == (d0 \div M1) + c * C[2] + s.t[2]
        d2 == (d1 \div M1) + s.t[3]
    IN [n |-> [i \in Index |-> CASE i = 0 -> d0 % M1
                                 [] i = 1 -> d1 % M1
                                 [] i = 2 -> d2
                                 [] i = L - 1 -> e % Top1
                                 [] OTHER -> s.t[i + 1]],
        ok |-> s.ok /\ Fits(<<e, c, d0, d1>>)]

Product10(p(_)) ==
    LET p9 == p(9)
        s[k \in -1..(L - 2)] ==
            IF k = -1 THEN [c |-> 0, d |-> p9 \div M1, t |-> <<>>, ok |-> Fits(<<p9>>)]
            ELSE LET before == s[k - 1] IN Round10(before, k, p)
    IN Fold10(s[L - 2], p9 % M1)

fe_mul_inner10(a, b) == Product10(LAMBDA k : MulColumn(a, b, k))
fe_sqr_inner10(a)    == Product10(LAMBDA k : SqrColumn(a, k))
fe_mul_inner5(a, b)     == Product5(LAMBDA k : MulColumn(a, b, k), Shr)
fe_sqr_inner5(a)        == Product5(LAMBDA k : SqrColumn(a, k), Shr)
fe_mul_inner5_asm(a, b) == Product5(LAMBDA k : MulColumn(a, b, k), ShrToWord)
fe_sqr_inner5_asm(a)    == Product5(LAMBDA k : SqrColumn(a, k), ShrToWord)

\* The product of the build: of ten limbs, or of five with the assembler.
fe_mul(a, b) ==
    LET t == IF L = 10 THEN fe_mul_inner10(a.n, b.n) ELSE fe_mul_inner5_asm(a.n, b.n)
    IN Fe(t.n, 1, FALSE, a.ok /\ b.ok /\ t.ok /\ {a.magnitude, b.magnitude} \subseteq 0..MulMagnitude)

fe_sqr(a) ==
    LET t == IF L = 10 THEN fe_sqr_inner10(a.n) ELSE fe_sqr_inner5_asm(a.n)
    IN Fe(t.n, 1, FALSE, a.ok /\ t.ok /\ a.magnitude <= MulMagnitude)
=============================================================================
