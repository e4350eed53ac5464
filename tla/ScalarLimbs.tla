---------------------------- MODULE ScalarLimbs -----------------------------
(***************************************************************************)
(* A scalar in limbs: scalar_8x32_impl.h with eight, and the assembler of  *)
(* scalar_4x64_impl.h with four.  Above these files a scalar is the number *)
(* that module ScalarElement takes it to be.                               *)
(*                                                                         *)
(* The limbs are numbered from 0, the lowest.  What a VERIFY_CHECK asserts *)
(* of a computation is the field ok of its result.                         *)
(***************************************************************************)
EXTENDS Integers

CONSTANTS
    L,           \* the limbs of a scalar
    W,           \* the bits of a limb
    C,           \* the lower limbs of 2^(L * W) minus the order: above them is a 1
    ByteBits

H == L \div 2
B == 2^W
Index == 0..(L - 1)
Cs == [i \in 0..H |-> IF i < H THEN C[i + 1] ELSE 1]    \* SECP256K1_N_C_*

\* What a limb is worth, and the number of the first n limbs.
Place(i) == 2^(W * i)

Number(a, n) ==
    LET v[i \in 0..n] == IF i = 0 THEN 0 ELSE v[i - 1] + a[i - 1] * Place(i - 1) IN v[n]

\* What the constants have to be for the bounds that the code asserts.
LimbsFit ==
    /\ L \in {4, 8} /\ W \in Nat \ {0, 1} /\ L <= B /\ ByteBits \in Nat \ {0} /\ W % ByteBits = 0
    /\ \A i \in 1..H : C[i] \in 0..(B - 1)
    /\ C[1] % 2 = 1
    /\ Number(Cs, H + 1) * Number(Cs, H + 1) <= 2 * Place(L)     \* p4 <= 2, p8 <= 2

LimbsOf(v) == [i \in Index |-> (v \div Place(i)) % B]

OrderN == Place(L) - Number(Cs, H + 1)
N  == LimbsOf(OrderN)             \* SECP256K1_N_*
NH == LimbsOf(OrderN \div 2)      \* SECP256K1_N_H_*

\* Sums of limbs, with the carry taken from each to the next.
Carried(sum) ==
    LET t[i \in 0..L] == IF i = 0 THEN 0 ELSE (t[i - 1] + sum[i - 1]) \div B
    IN [r |-> [i \in Index |-> (t[i] + sum[i]) % B], out |-> t[L]]

-----------------------------------------------------------------------------
(* One scalar                                                              *)

scalar_get_bits(a, offset, count) == (a[offset \div W] \div 2^(offset % W)) % 2^count

scalar_get_bits_var(a, offset, count) ==
    IF (offset + count - 1) \div W = offset \div W THEN scalar_get_bits(a, offset, count)
    ELSE LET at == offset % W
         IN (a[offset \div W] \div 2^at + a[offset \div W + 1] * 2^(W - at)) % 2^count

\* From the highest limb down; the upper ones of the order are all ones.
scalar_check_overflow(a) ==
    LET from[i \in Index] ==
            IF a[i] < N[i] THEN FALSE
            ELSE IF a[i] > N[i] THEN TRUE
            ELSE i = 0 \/ from[i - 1]
    IN from[L - 1]

scalar_reduce(r, overflow) ==
    [r |-> IF overflow = 0 THEN r
           ELSE Carried([i \in Index |-> r[i] + (IF i <= H THEN Cs[i] ELSE 0)]).r,
     overflow |-> overflow, ok |-> overflow \in {0, 1}]

scalar_add(a, b) ==
    LET t == Carried([i \in Index |-> a[i] + b[i]])
    IN scalar_reduce(t.r, IF t.out > 0 \/ scalar_check_overflow(t.r) THEN 1 ELSE 0)

\* With no flag the bit is put beyond the last limb.
scalar_cadd_bit(r, bit, flag) ==
    LET at == IF flag THEN bit ELSE bit + L * W
        t == Carried([i \in Index |-> r[i] + (IF at \div W = i THEN 2^(at % W) ELSE 0)])
    IN [r |-> t.r, ok |-> t.out = 0 /\ ~scalar_check_overflow(t.r)]

\* Bytes from the highest to the lowest, numbered from 0.
PerLimb == W \div ByteBits

scalar_set_b32(b) ==
    LET limb(i) == LET sum[k \in 0..PerLimb] ==
                           IF k = 0 THEN 0
                           ELSE sum[k - 1] + b[L * PerLimb - k - i * PerLimb] * 2^(ByteBits * (k - 1))
                   IN sum[PerLimb]
        d == [i \in Index |-> limb(i)]
    IN scalar_reduce(d, IF scalar_check_overflow(d) THEN 1 ELSE 0)

scalar_get_b32(a) ==
    [k \in 0..(L * PerLimb - 1) |->
        LET j == L * PerLimb - 1 - k
        IN (a[j \div PerLimb] \div 2^(ByteBits * (j % PerLimb))) % 2^ByteBits]

scalar_is_zero(a) == \A i \in Index : a[i] = 0
scalar_is_one(a)  == a[0] = 1 /\ \A i \in 1..(L - 1) : a[i] = 0
scalar_eq(a, b)   == \A i \in Index : a[i] = b[i]

\* old is what r held: it stays when a is zero.
scalar_negate(old, a) ==
    IF scalar_is_zero(a) THEN old
    ELSE Carried([i \in Index |-> (B - 1 - a[i]) + N[i] + (IF i = 0 THEN 1 ELSE 0)]).r

\* The verdict of the upper limbs is kept in yes and no; the lowest one need
\* not decide.
scalar_is_high(a) ==
    LET scan[i \in 1..L] ==
            IF i = L THEN [yes |-> FALSE, no |-> FALSE]
            ELSE LET s == scan[i + 1]
                     no == s.no \/ (a[i] < NH[i] /\ ~s.yes)
                 IN [yes |-> s.yes \/ (a[i] > NH[i] /\ ~no), no |-> no]
    IN scan[1].yes \/ (a[0] > NH[0] /\ ~scan[1].no)

scalar_cond_negate(r, flag) ==
    [ret |-> IF flag THEN -1 ELSE 1, r |-> IF flag THEN scalar_negate(r, r) ELSE r]

scalar_shr_int(r, n) ==
    [ret |-> r[0] % 2^n,
     r |-> [i \in Index |-> r[i] \div 2^n + (IF i = L - 1 THEN 0 ELSE (r[i + 1] * 2^(W - n)) % B)]]

scalar_split_128(a) ==
    [r1 |-> [i \in Index |-> IF i < H THEN a[i] ELSE 0],
     r2 |-> [i \in Index |-> IF i < H THEN a[i + H] ELSE 0]]

-----------------------------------------------------------------------------
(* The accumulator of three limbs.  The fast forms leave the third alone.  *)

Acc(c0) == [c0 |-> c0, c1 |-> 0, c2 |-> 0, ok |-> TRUE]
Bit(b) == IF b THEN 1 ELSE 0

\* The macros find a carry by comparing a sum with a summand.
muladd(s, a, b, fast) ==
    LET tl == (a * b) % B
        c0 == (s.c0 + tl) % B
        th == (a * b) \div B + Bit(c0 < tl)
        c1 == (s.c1 + th) % B
        c2 == IF fast THEN s.c2 ELSE (s.c2 + Bit(c1 < th)) % B
    IN [c0 |-> c0, c1 |-> c1, c2 |-> c2,
        ok |-> s.ok /\ th < B /\ (c1 >= th \/ (~fast /\ c2 # 0))]

\* Mutant: the carry of the sum of the lower halves does not count as a second
\* one when it makes the upper half zero.
muladd2_once(s, a, b) ==
    LET th == (a * b) \div B
        tl == (a * b) % B
        tl2 == (2 * tl) % B
        c0 == (s.c0 + tl2) % B
        th2 == (((2 * th) % B) + Bit(tl2 < tl) + Bit(c0 < tl2)) % B
        c1 == (s.c1 + th2) % B
    IN [c0 |-> c0, c1 |-> c1,
        c2 |-> (s.c2 + Bit((2 * th) % B < th) + Bit(c1 < th2)) % B, ok |-> s.ok]

muladd2(s, a, b) ==
    LET th == (a * b) \div B
        tl == (a * b) % B
        th2a == (2 * th) % B
        c2a == s.c2 + Bit(th2a < th)
        tl2 == (2 * tl) % B
        th2b == th2a + Bit(tl2 < tl)
        c0 == (s.c0 + tl2) % B
        th2 == (th2b + Bit(c0 < tl2)) % B
        c2b == c2a + Bit(c0 < tl2 /\ th2 = 0)
        c1 == (s.c1 + th2) % B
        c2 == c2b + Bit(c1 < th2)
    IN [c0 |-> c0, c1 |-> c1, c2 |-> c2 % B,
        ok |-> /\ s.ok /\ c2 < B /\ (th2a >= th \/ c2a # 0)
               /\ (c0 >= tl2 \/ th2 # 0 \/ c2b # 0) /\ (c1 >= th2 \/ c2 # 0)]

sumadd(s, a, fast) ==
    LET c0 == (s.c0 + a) % B
        c1 == (s.c1 + Bit(c0 < a)) % B
    IN [c0 |-> c0, c1 |-> c1,
        c2 |-> IF fast THEN s.c2 ELSE (s.c2 + Bit(c1 < Bit(c0 < a))) % B,
        ok |-> s.ok /\ (fast => s.c2 = 0 /\ (c1 # 0 \/ c0 >= a))]

\* The c0 that is taken out is the limb of this column.
extract(s, fast) ==
    [c0 |-> s.c1, c1 |-> IF fast THEN 0 ELSE s.c2, c2 |-> 0, ok |-> s.ok /\ (fast => s.c2 = 0)]

\* The same in assembler: addq, and adcq into the second register and, if the
\* column needs it, into the third.
adc(s, x, fast) ==
    LET v == s.c0 + B * s.c1 + x + (IF fast THEN 0 ELSE B * B * s.c2)
    IN [c0 |-> v % B, c1 |-> (v \div B) % B,
        c2 |-> IF fast THEN s.c2 ELSE (v \div (B * B)) % B,
        ok |-> s.ok /\ v < (IF fast THEN B * B ELSE B * B * B)]
adc_mul(s, a, b, fast) == adc(s, a * b, fast)
adc_mul2(s, a, b) == adc(adc(s, a * b, FALSE), a * b, FALSE)

-----------------------------------------------------------------------------
(* Products, column by column                                              *)

\* What is added to a column: a product of limbs, the same twice, a limb, or
\* nothing.
Product(x, y, fast) == [op |-> "muladd", x |-> x, y |-> y, fast |-> fast]
Twice(x, y)         == [op |-> "muladd2", x |-> x, y |-> y, fast |-> FALSE]
Single(x, fast)     == [op |-> "sumadd", x |-> x, y |-> 1, fast |-> fast]
Nothing             == [op |-> "none", x |-> 0, y |-> 0, fast |-> FALSE]

\* By the macros of C, or in assembler.
Added(s, t, asm) ==
    CASE t.op = "muladd"  -> IF asm THEN adc_mul(s, t.x, t.y, t.fast) ELSE muladd(s, t.x, t.y, t.fast)
      [] t.op = "muladd2" -> IF asm THEN adc_mul2(s, t.x, t.y) ELSE muladd2(s, t.x, t.y)
      [] t.op = "sumadd"  -> IF asm THEN adc(s, t.x, t.fast) ELSE sumadd(s, t.x, t.fast)
      [] OTHER            -> s

\* A column has its terms from 0 to n - 1.  Nothing is added after a check that
\* failed.
Column(s, terms, n, asm) ==
    LET sum[i \in 0..n] ==
            IF i = 0 THEN s
            ELSE IF s.ok THEN Added(sum[i - 1], terms[i - 1], asm) ELSE s
    IN sum[n]

\* What is done with a column: its limb is there, and the accumulator is over.
Extracted(limb, s, k, last) ==
    [over |-> extract(s, k \in {0, last}), limb |-> [limb EXCEPT ![k] = s.c0]]

\* Columns 0 to last of a sum.
Columns(c0, last, terms, n, asm) ==
    LET done[k \in 0..(last + 1)] ==
            IF k = 0 THEN [over |-> Acc(c0), limb |-> [i \in 0..last |-> 0]]
            ELSE LET before == done[k - 1]
                 IN Extracted(before.limb, Column(before.over, terms[k - 1], n, asm), k - 1, last)
    IN done[last + 1]

\* The pairs of limbs of a column are added from the lowest of a on.
MulTerms(a, b) ==
    [k \in 0..(2 * L - 2) |-> [i \in Index |->
        IF k - i \in Index THEN Product(a[i], b[k - i], k \in {0, 2 * L - 2}) ELSE Nothing]]

\* A product of two different limbs is there twice.
SqrTerms(a) ==
    [k \in 0..(2 * L - 2) |-> [i \in Index |->
        IF 2 * i = k THEN Product(a[i], a[i], k \in {0, 2 * L - 2})
        ELSE IF 2 * i < k /\ k - i \in Index THEN Twice(a[i], a[k - i])
        ELSE Nothing]]

\* What is over after the last column is the highest limb.
Closed(cs) ==
    [l |-> [k \in 0..(2 * L - 1) |-> IF k < 2 * L - 1 THEN cs.limb[k] ELSE cs.over.c0],
     ok |-> cs.over.ok /\ cs.over.c1 = 0]

Product512(terms, asm) == Closed(Columns(0, 2 * L - 2, terms, L, asm))

\* low + high * 2^(L * W), with the power replaced by the number it is modulo
\* the order: after the limb of low, a column has the products of Cs from the
\* lowest on.  high has n limbs.
FoldTerms(low, high, n, last) ==
    [k \in 0..last |-> [i \in 0..(H + 1) |->
        LET fast == k \in {0, last}
            j == k - (i - 1)
        IN IF i = 0 THEN IF k \in 1..(L - 1) THEN Single(low[k], fast \/ k = 1) ELSE Nothing
           ELSE IF j \notin 0..(n - 1) THEN Nothing
           ELSE IF i - 1 = H THEN Single(high[j], fast)
           ELSE Product(high[j], Cs[i - 1], fast)]]

Fold(low, high, n, last, asm) ==
    Columns(low[0], last, FoldTerms(low, high, n, last), H + 2, asm)

\* 2 L limbs, then about 3 L / 2, then L and a rest of at most 2, then L.
Upper(m) == [i \in 0..H |-> IF i < H THEN m.limb[L + i] ELSE m.over.c0]

ThirdPass(m, p) ==
    LET top == p.over.c0 + Upper(m)[H]
        c == Carried([i \in Index |-> p.limb[i] + (IF i <= H THEN Cs[i] * top ELSE 0)])
        r == scalar_reduce(c.r, c.out + Bit(scalar_check_overflow(c.r)))
    IN [r |-> r.r, ok |-> r.ok /\ m.over.ok /\ p.over.ok /\ m.over.c0 <= 1 /\ top <= 2]
SecondPass(m, asm) == ThirdPass(m, Fold(m.limb, Upper(m), H + 1, L - 1, asm))
Reduced512(l, asm) == SecondPass(Fold(l, [i \in Index |-> l[i + L]], L, L + H - 1, asm), asm)

scalar_mul_512(a, b)     == Product512(MulTerms(a, b), FALSE)
scalar_mul_512_asm(a, b) == Product512(MulTerms(a, b), TRUE)
scalar_sqr_512(a)        == Product512(SqrTerms(a), FALSE)
scalar_sqr_512_asm(a)    == Product512(SqrTerms(a), TRUE)
scalar_reduce_512(l)     == Reduced512(l, FALSE)
scalar_reduce_512_asm(l) == Reduced512(l, TRUE)

scalar_mul(a, b) == scalar_reduce_512(scalar_mul_512(a, b).l)
scalar_sqr(a)    == scalar_reduce_512(scalar_sqr_512(a).l)

\* The product is shifted by at least the bits of a scalar, and rounded by the
\* bit below.
scalar_mul_shift_var(a, b, shift) ==
    LET l == scalar_mul_512(a, b).l
        limbs == shift \div W
        low == shift % W
        limb(i) == IF shift >= (2 * L - i) * W THEN 0
                   ELSE l[i + limbs] \div 2^low
                        + (IF shift < (2 * L - 1 - i) * W /\ low > 0
                           THEN (l[i + 1 + limbs] * 2^(W - low)) % B ELSE 0)
    IN scalar_cadd_bit([i \in Index |-> limb(i)], 0, (l[(shift - 1) \div W] \div 2^((shift - 1) % W)) % 2 = 1)
=============================================================================
