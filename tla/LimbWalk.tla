------------------------------- MODULE LimbWalk -------------------------------
(***************************************************************************)
(* The representations below the arithmetic of the library, each beside    *)
(* the number it stands for: a field element that is taken through any     *)
(* operations in a row, a scalar and a second one that are multiplied,     *)
(* added and taken apart, and the addition chains one step at a time.      *)
(*                                                                         *)
(* What decides is rare: a value that is the prime or just above it, a     *)
(* carry out of the last limb of the last pass, a limb that is as large as *)
(* its magnitude allows, a reduction that has to be made once more.  A     *)
(* random test of 256 bits meets none of them.                             *)
(***************************************************************************)
EXTENDS AdditionChain

CONSTANTS
    FieldLayouts,    \* the constants of module FieldLimbs, and Below, the
                     \* distance of the prime from the power of two in digits
    ScalarLayouts,   \* those of module ScalarLimbs
    FieldSteps       \* the operations in a row

VARIABLE number

F(f) == INSTANCE FieldLimbs WITH
            L <- f.L, Bits <- f.Bits, Slack <- f.Slack, C <- f.C, Word <- f.Word, Store <- f.Store,
            ByteBits <- f.ByteBits, MaxMagnitude <- f.MaxMagnitude, MulMagnitude <- f.MulMagnitude
D(f) == INSTANCE Digits WITH
            Digit <- f.Store, Count <- (f.L * f.Bits - f.Slack) \div f.Store, Below <- f.Below
S(s) == INSTANCE ScalarLimbs WITH L <- s.L, W <- s.W, C <- s.C, ByteBits <- s.ByteBits

LimbsAssumption ==
    /\ \A f \in FieldLayouts :
           F(f)!LimbsFit /\ (f.L = 5 => F(f)!ProductsFit) /\ (f.L = 10 => F(f)!Products10Fit)
    /\ \A s \in ScalarLayouts : S(s)!LimbsFit

-----------------------------------------------------------------------------
(* Field elements                                                          *)

Seed(n) == [n |-> n, magnitude |-> 1, normalized |-> FALSE, ok |-> TRUE]

\* Zero, the prime and its neighbours, and limbs as large as they may be.
Seeds(f) ==
    LET index == F(f)!Index
        mask(i) == F(f)!Mask(i)
        prime == [i \in index |-> F(f)!PLimb(i)]
        zero == [i \in index |-> 0]
    IN { zero, prime, [prime EXCEPT ![0] = @ - 1], [prime EXCEPT ![0] = @ + 1],
         [zero EXCEPT ![0] = 1], [i \in index |-> 2 * mask(i)], [i \in index |-> (37 * i + 101) % mask(i)] }

\* Edges of single limbs, to start from only.
Edges(f) ==
    LET zero == [i \in F(f)!Index |-> 0]
    IN {[zero EXCEPT ![i] = 2 * F(f)!Mask(i)] : i \in F(f)!Index}
       \cup {[i \in F(f)!Index |-> F(f)!Mask(i)]}

\* The number of limbs, and the number minus one.
ValueOf(f, n) == D(f)!Mod(D(f)!OfLimbs(n, f.L, f.Bits))
MinusOne(f) == ValueOf(f, [i \in F(f)!Index |-> F(f)!PLimb(i) - (IF i = 0 THEN 1 ELSE 0)])

FieldInit ==
    \E f \in FieldLayouts : \E n \in Seeds(f) \cup Edges(f) :
        number = [part |-> "field", layout |-> f, e |-> Seed(n), value |-> ValueOf(f, n), left |-> FieldSteps]

\* A step gives the element e and the number v.
Becomes(e, v) == number' = [number EXCEPT !.e = e, !.value = v, !.left = @ - 1]

FieldStep ==
    /\ number.part = "field" /\ number.left > 0
    /\ LET f == number.layout
           e == number.e
           v == number.value
       IN \/ /\ e.magnitude < f.MaxMagnitude
             /\ \/ Becomes(F(f)!fe_normalize(e), v)
                \/ Becomes(F(f)!fe_normalize_var(e), v)
                \/ Becomes(F(f)!fe_normalize_weak(e), v)
          \/ /\ e.magnitude < f.MaxMagnitude
             /\ Becomes(F(f)!fe_negate(e, e.magnitude), D(f)!Mod(D(f)!Times(v, MinusOne(f))))
          \/ \E k \in {2, f.MaxMagnitude - 1} :
                /\ k * e.magnitude <= f.MaxMagnitude
                /\ Becomes(F(f)!fe_mul_int(e, k), D(f)!Mod(D(f)!Times(v, ValueOf(f, F(f)!fe_set_int(k).n))))
          \/ /\ e.magnitude < f.MaxMagnitude
             /\ \E n \in Seeds(f) :
                    Becomes(F(f)!fe_add(e, Seed(n)), D(f)!Mod(D(f)!Plus(v, ValueOf(f, n))))
          \/ /\ e.magnitude <= f.MulMagnitude
             /\ \/ Becomes(F(f)!fe_sqr(e), D(f)!Mod(D(f)!Times(v, v)))
                \/ \E n \in Seeds(f) :
                       Becomes(F(f)!fe_mul(e, Seed(n)), D(f)!Mod(D(f)!Times(v, ValueOf(f, n))))
          \/ e.normalized /\ Becomes(F(f)!fe_from_storage(F(f)!fe_to_storage(e)), v)
          \/ Becomes(F(f)!fe_cmov(e, F(f)!fe_set_int(1), TRUE), ValueOf(f, F(f)!fe_set_int(1).n))

-----------------------------------------------------------------------------
(* Scalars                                                                 *)

OrderOf(s) == S(s)!OrderN

\* Around the ends, the middle and the powers of two.
Scalars(s) ==
    LET n == OrderOf(s)
        k == s.L * s.W
    IN { 0, 1, 2, n - 1, n - 2, n \div 2, n \div 2 + 1, n \div 2 - 1, (n \div 3) * 2, n \div 5 }
       \cup {2^i : i \in 0..(k - 2)} \cup {2^i - 1 : i \in 0..(k - 1)} \cup {n - 2^i : i \in 0..(k - 2)}

Partners(s, x) ==
    {0, 1, OrderOf(s) - 1, OrderOf(s) \div 2, x, (OrderOf(s) - x) % OrderOf(s), 2^((s.W * s.L) \div 2) - 1}

\* Nothing is chosen yet.
ScalarInit ==
    \E s \in ScalarLayouts : number = [part |-> "scalars", layout |-> s, a |-> 0, b |-> 0]

ScalarStep ==
    /\ number.part = "scalars"
    /\ \E x \in Scalars(number.layout) : \E y \in Partners(number.layout, x) :
           number' = [number EXCEPT !.part = "products", !.a = x, !.b = y]

\* The product of two scalars, a limb of the second at a time.
MulMod(s, x, y) ==
    LET limbs == S(s)!LimbsOf(y)
        f[i \in 0..s.L] == IF i = 0 THEN 0
                           ELSE (f[i - 1] * 2^s.W + x * limbs[s.L - i]) % OrderOf(s)
    IN f[s.L]

-----------------------------------------------------------------------------
(* Chains                                                                  *)

ChainInit == \E chain \in DOMAIN Steps : number = [part |-> "chain", at |-> Started(chain)]
ChainStep ==
    /\ number.part = "chain" /\ ~Finished(number.at)
    /\ number' = [number EXCEPT !.at = Stepped(@)]

LimbInit == FieldInit \/ ScalarInit \/ ChainInit
LimbNext == FieldStep \/ ScalarStep \/ ChainStep

-----------------------------------------------------------------------------
(* Properties                                                              *)

\* field_10x26_impl.h, field_5x52_impl.h: after any operations in a row the
\* limbs are still the number that exact arithmetic gives, no sum of a product
\* has left its integer, no assertion of fe_verify has failed; a value that is
\* zero is recognised in any of its forms, and a normalized one has the same
\* bytes, words and comparison as the number.  What is normalized or tested for
\* zero is below the largest magnitude that fe_verify accepts: one below it,
\* the limbs have room for the carries, at it they wrap.
FieldLimbsRight ==
    number.part = "field" =>
        LET f == number.layout
            e == number.e
            zero == D(f)!IsZero(number.value)
        IN /\ e.ok /\ ValueOf(f, e.n) = number.value
           /\ e.magnitude < f.MaxMagnitude =>
                 /\ F(f)!fe_normalizes_to_zero(e) = zero
                 /\ F(f)!fe_normalizes_to_zero_var(e) = zero
           /\ e.normalized =>
                 /\ F(f)!fe_is_zero(e) = zero
                 /\ F(f)!fe_is_odd(e) = (number.value[1] % 2 = 1)
                 /\ F(f)!fe_set_b32(F(f)!fe_get_b32(e)) = [ret |-> TRUE, n |-> e.n]
                 /\ (F(f)!fe_cmp_var(e, F(f)!fe_set_int(0)) = 0) = zero
           /\ e.magnitude <= f.MulMagnitude /\ f.L = 5 =>
                 /\ F(f)!fe_mul_inner5(e.n, e.n) = F(f)!fe_mul_inner5_asm(e.n, e.n)
                 /\ F(f)!fe_sqr_inner5(e.n) = F(f)!fe_sqr_inner5_asm(e.n)

\* scalar_4x64_impl.h, scalar_8x32_impl.h: the C code and the assembler give
\* the product, square and sum modulo the order, with no carry lost from the
\* three-limb accumulator and at most one subtraction of the order left to
\* make; negation, the comparison with half the order, the bits and the bytes
\* agree with the number.
ScalarLimbsRight ==
    number.part = "products" =>
        LET s == number.layout
            n == OrderOf(s)
            a == S(s)!LimbsOf(number.a)
            b == S(s)!LimbsOf(number.b)
            Is(r, v) == r.ok /\ S(s)!Number(r.r, s.L) = v
            sum == S(s)!scalar_add(a, b)
            product == S(s)!scalar_mul_512(a, b)
            square == S(s)!scalar_sqr_512(a)
            upper == S(s)!Number([i \in 0..(s.L - 1) |-> product.l[s.L + i]], s.L)
        IN /\ product.ok /\ S(s)!scalar_mul_512_asm(a, b) = product
           /\ square.ok /\ S(s)!scalar_sqr_512_asm(a) = square
           /\ Is(S(s)!scalar_reduce_512(product.l), MulMod(s, number.a, number.b))
           /\ Is(S(s)!scalar_reduce_512_asm(product.l), MulMod(s, number.a, number.b))
           /\ Is(S(s)!scalar_reduce_512(square.l), MulMod(s, number.a, number.a))
           /\ Is(sum, (number.a + number.b) % n)
           /\ (sum.overflow = 1) = (number.a + number.b >= n)
           /\ S(s)!Number(S(s)!scalar_negate(a, a), s.L) = (n - number.a) % n
           /\ S(s)!scalar_is_high(a) = (number.a > n \div 2)
           /\ S(s)!scalar_set_b32(S(s)!scalar_get_b32(a)).r = a
           /\ \A at \in 0..(s.L * s.W - 3) :
                 S(s)!scalar_get_bits_var(a, at, 3) = (number.a \div 2^at) % 8
           /\ LET halves == S(s)!scalar_split_128(a)
              IN S(s)!Number(halves.r1, s.L) + 2^((s.W * s.L) \div 2) * S(s)!Number(halves.r2, s.L) = number.a
           /\ S(s)!Number(S(s)!scalar_shr_int(a, 2).r, s.L) = number.a \div 4
           /\ \A x \in {1, 2, s.W, s.W + 2} :       \* rounded to the nearest
                 Is(S(s)!scalar_mul_shift_var(a, b, s.L * s.W + x), (upper \div 2^(x - 1) + 1) \div 2)

\* field_impl.h, scalar_impl.h: the steps of fe_sqrt_var, fe_inv and
\* scalar_inverse end with the powers (p + 1) / 4, p - 2 and n - 2 of secp256k1,
\* and x2, x3, ... are the powers with that many one bits on the way.
ChainsRight ==
    number.part = "chain" =>
        /\ \A name \in DOMAIN number.at.reg \ {"t"} : BlockRight(name, number.at.reg[name])
        /\ Finished(number.at) => Goal(number.at.chain, number.at.reg["t"])
=============================================================================
