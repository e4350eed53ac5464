----------------------------- MODULE PointWalk ------------------------------
(***************************************************************************)
(* A point in the hands of the code of the library: one accumulator that   *)
(* is doubled, added to, negated, rescaled, stored and multiplied, in any  *)
(* order, as ecmult, ecmult_gen, the tables and the interface do.  log is  *)
(* its logarithm, kept by the arithmetic of the exponents alone.           *)
(*                                                                         *)
(* The formulas of group_impl.h have cases that a walk of this kind meets  *)
(* and a random test never: a sum of equal or opposite points, infinity on *)
(* either side, a slope of 0/0, and operands whose magnitudes have grown   *)
(* over several calls.                                                     *)
(***************************************************************************)
EXTENDS Ecmult

CONSTANTS
    Operands,      \* the logarithms of the points that are added
    Scales,        \* the Z that an operand or the accumulator is scaled to
    Multipliers    \* of the accumulator and of G, in a call of ecmult

ASSUME WalkAssumption ==
    /\ Operands \subseteq Scalar /\ Multipliers \subseteq Scalar
    /\ Scales \subseteq 1..(P - 1)

VARIABLES acc, log

vars == <<acc, log>>

\* The point of a logarithm as a caller hands it over.
AffineOf(i) == IF i = 0 THEN [x |-> FeZero, y |-> FeZero, infinity |-> TRUE]
               ELSE Ge(fe_set_int(Mult[i][1]), fe_set_int(Mult[i][2]))

JacobianOf(i, z) == IF i = 0 THEN gej_infinity
                    ELSE gej_rescale(gej_set_ge(AffineOf(i)), fe_set_int(z))

ecmult_ctx == ecmult_context_build(ecmult_context_init)

Init == acc = gej_infinity /\ log = 0

Becomes(r, k) == acc' = r /\ log' = k % Order

Start(i) == acc.infinity /\ Becomes(gej_set_ge(AffineOf(i)), i)

Double == Becomes(gej_double_var(acc), 2 * log)

AddVar(i, z) == Becomes(gej_add_var(acc, JacobianOf(i, z)), log + i)

AddToOperand(i, z) == Becomes(gej_add_var(JacobianOf(i, z), acc), log + i)

AddGeVar(i) == Becomes(gej_add_ge_var(acc, AffineOf(i)), log + i)

\* The operand is given with the inverse of the Z it is to be read with.
AddZinvVar(i, z) ==
    LET b == JacobianOf(i, z)
    IN Becomes(gej_add_zinv_var(acc, [x |-> b.x, y |-> b.y, infinity |-> b.infinity],
                                fe_inv_var(fe_set_int(z))), log + i)

\* This one reads the coordinates of acc at infinity too: not those that
\* ge_set_gej_var leaves unwritten.
AddGe(i) ==
    /\ i # 0 /\ acc.x.ok
    /\ Becomes(gej_add_ge(acc, AffineOf(i)), log + i)

Negate == Becomes(gej_neg(acc), -log)

Rescale(z) == ~acc.infinity /\ Becomes(gej_rescale(acc, fe_set_int(z)), log)

ToAffine == Becomes(gej_set_ge(ge_set_gej_var(acc)), log)

Store == /\ ~acc.infinity
         /\ Becomes(gej_set_ge(ge_from_storage(ge_to_storage(ge_set_gej(acc)))), log)

MulLambda == /\ ~acc.infinity
             /\ Becomes(gej_set_ge(ge_mul_lambda(ge_set_gej(acc))), lambda * log)

Multiply(na, ng) ==
    ~acc.infinity /\ Becomes(ecmult(ecmult_ctx, acc, na, ng), na * log + ng)

MultiplyConst(q) ==
    ~acc.infinity /\ Becomes(ecmult_const(ge_set_gej(acc), q, <<0, 0>>), q * log)

Next ==
    \/ Double \/ Negate \/ ToAffine \/ Store \/ MulLambda
    \/ \E i \in Operands : Start(i) \/ AddGeVar(i) \/ AddGe(i)
    \/ \E i \in Operands, z \in Scales :
          AddVar(i, z) \/ AddToOperand(i, z) \/ AddZinvVar(i, z)
    \/ \E z \in Scales : Rescale(z)
    \/ \E na, ng \in Multipliers : Multiply(na, ng)
    \/ \E q \in Multipliers : MultiplyConst(q)

Spec == Init /\ [][Next]_vars

-----------------------------------------------------------------------------
(* Properties                                                              *)

\* The accumulator is the point of its logarithm, whatever led to it: sums of
\* equal and of opposite points, infinity, any Z and any magnitudes.
PointRight == Affine(acc) = Mult[log]

\* No VERIFY_CHECK on a magnitude or on a digit fails on the way, nor does a
\* magnitude reach the one whose limbs a normalization has no room in: the build
\* that is shipped does not have the checks, and relies on it.
MagnitudesKept == Sound(acc)

\* No multiple in a table is at infinity: the ratio of the Z of the next one is
\* asked of an addition to it, and there is none to an addition to infinity.
TableFinite(a) ==
    \A i \in 1..TableSize(WindowA) :
        ~odd_multiples_table(TableSize(WindowA), a).prej[i].infinity

TablesFinite ==
    ~acc.infinity => TableFinite(acc) /\ TableFinite(gej_set_ge(ge_set_gej(acc)))

\* The ratio that a doubling or an addition hands out is that of the two Z, and
\* the three tables of a, 3a, 5a, ... that are computed from these ratios agree:
\* over one Z, affine, and affine in the memory of the table alone.
TablesRight ==
    ~acc.infinity =>
        LET shared == odd_multiples_table_globalz_windowa(acc)
            pre == odd_multiples_table_storage_var(4, acc)
            odd(i) == Mult[((2 * i - 1) * log) % Order]
            sums == {gej_double_rzr(acc)} \cup {gej_add_ge_rzr(acc, AffineOf(i)) : i \in Operands}
                    \cup {gej_add_rzr(acc, JacobianOf(i, z)) : i \in Operands, z \in Scales}
        IN /\ TablesFinite
           /\ \A s \in sums : ~s.r.infinity => s.r.z.v = (acc.z.v * s.rzr.v) % P
           /\ \A i \in 1..TableSize(WindowA) :
                Affine([x |-> shared.r[i].x, y |-> shared.r[i].y, z |-> shared.globalz,
                        infinity |-> FALSE]) = odd(i)
           /\ \A i \in 1..4 : <<pre[i].x, pre[i].y>> = odd(i)
           /\ pre = odd_multiples_table_storage_var_prealloc(4, acc)

\* A batch of points is brought to affine form as each of them would be alone,
\* wherever among them points at infinity are.
BatchesRight ==
    LET single(a) == PointOf(ge_set_gej_var(a))
    IN \A a \in { <<acc>>, <<acc, JacobianOf(1, 2)>>, <<gej_infinity, acc, acc>>,
                  <<JacobianOf(5, 3), gej_infinity, acc, gej_double_var(acc)>> } :
          LET heap == ge_set_all_gej_var(a)
              own  == ge_set_all_gej_var_prealloc(a)
          IN \A i \in 1..Len(a) : PointOf(heap[i]) = single(a[i]) /\ PointOf(own[i]) = single(a[i])

IsMultiple(r, k) == Sound(r) /\ Affine(r) = Mult[k % Order]

\* Only the local of wnaf_const that holds one by chance is left out: see
\* ConstMultiplyContract.
ConstMultiplyRight ==
    ~acc.infinity /\ acc.z.v = 1 =>
        \A q \in Scalar, stale \in {0, 2} :
            IsMultiple(ecmult_const(ge_set_gej(acc), q, <<stale, stale>>), q * log)

\* What scalar.h says of scalar_negate, that it computes the complement, is
\* enough for ecmult_const to be right; what the code does needs a local that
\* nothing is written to when a part of the scalar is zero not to be one.
ConstMultiplyContract ==
    ~acc.infinity /\ acc.z.v = 1 =>
        \A q \in Scalar, stale \in {0, 1} :
            IsMultiple(ecmult_const(ge_set_gej(acc), q, <<stale, stale>>), q * log)

\* The number that the digits stand for.
DigitSum(wnaf, len) ==
    LET sum[i \in 0..len] ==
            IF i = 0 THEN 0
            ELSE sum[i - 1] + (IF i - 1 \in DOMAIN wnaf THEN wnaf[i - 1] * 2^(i - 1) ELSE 0)
    IN sum[len]

\* Digits of a that len places have room for: they add up to it, are odd and
\* small, and far enough apart.
DigitsRight(wnaf, a, len, w) ==
    /\ DigitSum(wnaf, len) = a
    /\ \A i \in DOMAIN wnaf : /\ i \in 0..(len - 1)
                              /\ wnaf[i] % 2 = 1
                              /\ wnaf[i] \in (1 - 2^(w - 1))..(2^(w - 1) - 1)
    /\ \A i, j \in DOMAIN wnaf : i < j => j - i >= w

\* The number that a scalar stands for, and whether Half bits hold its size.
Signed(a) == IF a > Order \div 2 THEN a - Order ELSE a
Short(a) == Signed(a) \in (-(2^Half))..2^Half

\* The scalar log and its parts: those of split_lambda are short, so that the
\* arrays of digits suffice, and the digits of each part are right.
RecodingRight ==
    LET lam == scalar_split_lambda(log)
        pow == scalar_split_128(log)
        right(a, len, w) == DigitsRight(ecmult_wnaf(len, a, w), Signed(a), len, w)
    IN /\ (lam.r1 + lam.r2 * lambda) % Order = log /\ pow.r1 + pow.r2 * 2^Half = log
       /\ \A a \in {lam.r1, lam.r2} :
             Short(a) /\ \A w \in 2..4 : right(a, Half + 2, w)
       /\ \A a \in {pow.r1, pow.r2}, w \in 2..4 : right(a, Half + 1, w)
=============================================================================
