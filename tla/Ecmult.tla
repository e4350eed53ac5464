------------------------------- MODULE Ecmult -------------------------------
(***************************************************************************)
(* Multiplication of points: the tables of odd multiples, the signed digit *)
(* form of a scalar and secp256k1_ecmult (ecmult_impl.h), the              *)
(* multiplication whose steps do not depend on the scalar                  *)
(* (ecmult_const_impl.h), and the multiplication of the generator by a     *)
(* table and a blinding value (ecmult_gen_impl.h).  As the addon is built, *)
(* with USE_ENDOMORPHISM.                                                  *)
(*                                                                         *)
(* A table is a sequence, <<>> where the code has a null pointer.  A       *)
(* digit that its table does not have makes the result not Sound.          *)
(***************************************************************************)
EXTENDS Group, ScalarElement

CONSTANTS
    WindowA, WindowG,   \* 5 and 15 in the library
    PrecN, PrecB,       \* 64 windows of 4 bits
    NumsX               \* the abscissa nobody knows the logarithm of

ASSUME WindowAssumption ==
    WindowA \in Nat \ {0, 1} /\ WindowG \in Nat \ {0, 1} /\ PrecN * PrecB >= Bits

TableSize(w) == 2^(w - 2)

lambda == Order - MinusLambda

\* The multiples of the generator, by addition on the affine curve.
Mult == LET k[i \in 0..(Order - 1)] == IF i = 0 THEN Infinity ELSE RefAdd(k[i - 1], <<Gx, Gy>>)
        IN [i \in 0..(Order - 1) |-> k[i]]

-----------------------------------------------------------------------------
(* The tables of a, 3a, 5a, ...                                            *)

\* On the isomorphic curve where 2a is affine.  zr[i] is the ratio of the Z of
\* entry i to the one before it; only the last Z is the real one.
Multiples(len, a, a_ge, d) ==
    LET row[i \in 1..len] ==
            IF i = 1 THEN [r |-> Gej(a_ge.x, a_ge.y, a.z), rzr |-> d.z]
            ELSE gej_add_ge_rzr(row[i - 1].r, Ge(d.x, d.y))
    IN row

\* Split in two tables, the last Z brought back to the curve of a.
WithRatios(len, row, d) ==
    [prej |-> [i \in 1..len |-> IF i < len THEN row[i].r
                               ELSE [row[i].r EXCEPT !.z = fe_mul(@, d.z)]],
     zr |-> [i \in 1..len |-> row[i].rzr]]

MultiplesBy(len, a, d) == WithRatios(len, Multiples(len, a, ge_set_gej_zinv(a, d.z), d), d)

odd_multiples_table(len, a) == MultiplesBy(len, a, gej_double_var(a))

\* All over one Z.
OverOneZ(t) == ge_globalz_set_table_gej(t.prej, t.zr)

odd_multiples_table_globalz_windowa(a) == OverOneZ(odd_multiples_table(TableSize(WindowA), a))

\* Affine, in the form for storage.
TableToStorage(t) ==
    LET prea == ge_set_table_gej_var(t.prej, t.zr)
    IN [i \in 1..Len(t.prej) |-> ge_to_storage(prea[i])]

odd_multiples_table_storage_var(len, a) == TableToStorage(odd_multiples_table(len, a))

\* The same in the memory of the table alone: the ordinates and the ratios of
\* the Z wait in it, and the abscissas are computed from the ratios.
StoredByRatios(len, pj, d) ==
    LET y(i) == fe_from_storage(fe_to_storage(fe_normalize_var(pj[i].r.y)))
        rzr(i) == fe_from_storage(fe_to_storage(fe_normalize_var(pj[i + 1].rzr)))
        zi[i \in 1..len] == IF i = len THEN fe_inv_var(fe_mul(pj[len].r.z, d.z))
                            ELSE fe_mul(zi[i + 1], rzr(i))
        dx == fe_mul(fe_sqr(fe_mul(zi[len], pj[len].r.z)), d.x)
        x(i) == fe_add(fe_negate(fe_mul(rzr(i), fe_sqr(zi[i])), 1), dx)
    IN [i \in 1..len |->
            ge_to_storage(IF i = len THEN ge_set_gej_zinv(pj[len].r, zi[len])
                          ELSE Ge(x(i), fe_mul(y(i), fe_mul(fe_sqr(zi[i]), zi[i]))))]

PreallocBy(len, a, d) ==
    StoredByRatios(len, Multiples(len, a, ge_set_gej_zinv(a, d.z), d), d)

odd_multiples_table_storage_var_prealloc(len, a) == PreallocBy(len, a, gej_double_var(a))

InTable(pre, digit) ==
    digit % 2 = 1 /\ (IF digit < 0 THEN -digit ELSE digit) <= 2 * Len(pre) - 1

NotInTable == [x |-> Unset, y |-> Unset, infinity |-> FALSE]

\* ECMULT_TABLE_GET_GE
TableGet(pre, digit) ==
    IF ~InTable(pre, digit) THEN NotInTable
    ELSE IF digit > 0 THEN pre[(digit + 1) \div 2] ELSE ge_neg(pre[(1 - digit) \div 2])

\* ECMULT_TABLE_GET_GE_STORAGE
TableGetStorage(pre, digit) ==
    IF ~InTable(pre, digit) THEN NotInTable
    ELSE IF digit > 0 THEN ge_from_storage(pre[(digit + 1) \div 2])
    ELSE ge_neg(ge_from_storage(pre[(1 - digit) \div 2]))

\* ECMULT_CONST_TABLE_GET_GE.  The loop finds no entry for a digit that the
\* table does not have.
ConstTableGet(pre, digit) ==
    LET entry == pre[((IF digit > 0 THEN digit ELSE -digit) \div 2) + 1]
    IN IF ~InTable(pre, digit) THEN NotInTable
       ELSE Ge(entry.x, IF digit > 0 THEN entry.y ELSE fe_negate(entry.y, 1))

-----------------------------------------------------------------------------
(* secp256k1_ecmult                                                        *)

\* Mutant: the sign bit is looked for one place too high.
wnaf_carry_late(word, w) == (word \div 2^w) % 2

wnaf_carry(word, w) == (word \div 2^(w - 1)) % 2

\* The digit at a position below all the others.
WithDigit(bit, d, digits) ==
    [i \in {bit} \cup DOMAIN digits |-> IF i = bit THEN d ELSE digits[i]]

\* The digits that are not zero, by their position.  The number is negated
\* first when its top bit says that it stands for a negative one.
ecmult_wnaf(len, a, w) ==
    LET negative == scalar_get_bits(a, Bits - 1, 1) = 1
        s == IF negative THEN scalar_negate(a, a) ELSE a
        scan[bit \in 0..len] == [carry \in 0..1 |->
            LET now == IF w > len - bit THEN len - bit ELSE w
                word == scalar_get_bits(s, bit, now) + carry
                up == wnaf_carry(word, w)
            IN IF bit = len THEN <<>>
               ELSE IF scalar_get_bits(s, bit, 1) = carry THEN scan[bit + 1][carry]
               ELSE WithDigit(bit, (IF negative THEN -1 ELSE 1) * (word - up * 2^w),
                              scan[bit + now][up])]
    IN scan[0][0]

\* ecmult_context_init, _build and _build_prealloc; the two builds differ in
\* the way they fill a table, and the second one leaves a built context alone.
ecmult_context_init == [pre_g |-> <<>>, pre_g_128 |-> <<>>]

TwoToHalfG ==
    LET double[i \in 0..Half] == IF i = 0 THEN gej_set_ge(ge_const_g)
                                 ELSE gej_double_var(double[i - 1])
    IN double[Half]

ecmult_context_build(ctx) ==
    IF ctx.pre_g # <<>> THEN ctx
    ELSE [pre_g |-> odd_multiples_table_storage_var(TableSize(WindowG), gej_set_ge(ge_const_g)),
          pre_g_128 |-> odd_multiples_table_storage_var(TableSize(WindowG), TwoToHalfG)]

ecmult_context_build_prealloc(ctx) ==
    IF ctx.pre_g # <<>> THEN ctx
    ELSE [pre_g |-> odd_multiples_table_storage_var_prealloc(
                        TableSize(WindowG), gej_set_ge(ge_const_g)),
          pre_g_128 |-> odd_multiples_table_storage_var_prealloc(TableSize(WindowG), TwoToHalfG)]

ecmult_context_clone(src) == src
ecmult_context_is_built(ctx) == ctx.pre_g # <<>>

MulLambdaAll(pre) == [i \in 1..Len(pre) |-> ge_mul_lambda(pre[i])]

\* The real Z of a point that was computed over a Z taken for one.
ScaledZ(r, globalz) == [r EXCEPT !.z = fe_mul(@, globalz)]

Unscaled(r, globalz) == IF r.infinity THEN r ELSE ScaledZ(r, globalz)

EcmultWnaf(sa, sg) ==
    [na_1   |-> ecmult_wnaf(Half + 2, sa.r1, WindowA),
     na_lam |-> ecmult_wnaf(Half + 2, sa.r2, WindowA),
     ng_1   |-> ecmult_wnaf(Half + 1, sg.r1, WindowG),
     ng_128 |-> ecmult_wnaf(Half + 1, sg.r2, WindowG)]

AddOwn(wnaf, pre, i, r) ==
    IF i \notin DOMAIN wnaf THEN r ELSE gej_add_ge_var(r, TableGet(pre, wnaf[i]))

AddFixed(wnaf, pre, globalz, i, r) ==
    IF i \notin DOMAIN wnaf THEN r
    ELSE gej_add_zinv_var(r, TableGetStorage(pre, wnaf[i]), globalz)

EcmultStep(ctx, t, pre_a_lam, wnaf, i, r) ==
    AddFixed(wnaf.ng_128, ctx.pre_g_128, t.globalz, i, AddFixed(wnaf.ng_1, ctx.pre_g, t.globalz, i,
    AddOwn(wnaf.na_lam, pre_a_lam, i, AddOwn(wnaf.na_1, t.r, i, gej_double_var(r)))))

EcmultDown(ctx, t, pre_a_lam, wnaf) ==
    LET down[i \in 0..(Half + 2)] ==
            IF i = Half + 2 THEN gej_infinity ELSE EcmultStep(ctx, t, pre_a_lam, wnaf, i, down[i + 1])
    IN down[0]

EcmultOver(ctx, t, na, ng) ==
    Unscaled(EcmultDown(ctx, t, MulLambdaAll(t.r),
                        EcmultWnaf(scalar_split_lambda(na), scalar_split_128(ng))),
             t.globalz)

\* na * a + ng * G.  The multiples of a share one Z; it is taken for one until
\* the end, and the points of the other tables are added accordingly.
ecmult(ctx, a, na, ng) == EcmultOver(ctx, odd_multiples_table_globalz_windowa(a), na, ng)

-----------------------------------------------------------------------------
(* secp256k1_ecmult_const                                                  *)

WnafSize == (Half + WindowA - 2) \div (WindowA - 1)

\* One word further.  An even word is made odd with a unit, which is 2^w units
\* of the digit that was held back; that one is final then.
NextDigit(last, w) ==
    LET sh == scalar_shr_int(last.s, w)
        even == IF sh.ret % 2 = 0 THEN 1 ELSE 0
        sign == IF last.u_last > 0 THEN 1 ELSE -1
    IN [s |-> sh.r, u_last |-> sh.ret + sign * even, digit |-> last.u_last - sign * even * 2^w]

\* The digits from the lowest to the highest, all of them odd, of the number
\* made odd by adding skew to it.  neg_s is a local that scalar_negate does not
\* write when s is zero: stale is what it holds then.
wnaf_const(s, w, stale) ==
    LET flip == scalar_is_high(s)
        bit == IF flip THEN 1 - (s % 2) ELSE s % 2
        not_neg_one == ~scalar_is_one(scalar_negate(stale, s))
        s1 == scalar_cond_negate(scalar_cadd_bit(s, bit, not_neg_one), flip)
        global_sign == s1.ret * (IF not_neg_one THEN 1 ELSE -1)
        first == scalar_shr_int(s1.r, w)
        left[word \in 0..WnafSize] ==
            IF word = 0 THEN [s |-> first.r, u_last |-> first.ret, digit |-> 0]
            ELSE NextDigit(left[word - 1], w)
    IN [skew |-> 2^bit,
        ok |-> left[WnafSize].s = 0,
        wnaf |-> [i \in 1..(WnafSize + 1) |->
                     global_sign * (IF i <= WnafSize THEN left[i].digit ELSE left[WnafSize].u_last)]]

Doublings(r, k) ==
    LET d[j \in 0..k] == IF j = 0 THEN r ELSE gej_double_var(d[j - 1]) IN d[k]

AddDigits(r, pre_a, pre_a_lam, w1, wl) ==
    gej_add_ge_var(gej_add_ge_var(r, ConstTableGet(pre_a, w1)), ConstTableGet(pre_a_lam, wl))

\* The first digit is set rather than added.
ConstDown(pre_a, pre_a_lam, w1, wl) ==
    LET down[i \in 1..(WnafSize + 1)] ==
            IF i = WnafSize + 1
            THEN gej_add_ge_var(gej_set_ge(ConstTableGet(pre_a, w1.wnaf[i])),
                                ConstTableGet(pre_a_lam, wl.wnaf[i]))
            ELSE AddDigits(Doublings(down[i + 1], WindowA - 1), pre_a, pre_a_lam,
                           w1.wnaf[i], wl.wnaf[i])
    IN down[1]

\* Without the skews: a, twice or once, and lambda times that are taken off.
LessSkews(r, a, a2, skew1, skewl) ==
    LET less(skew) == ge_neg(ge_from_storage(ge_to_storage(IF skew = 2 THEN a2 ELSE a)))
    IN gej_add_ge_var(gej_add_ge_var(r, less(skew1)), ge_mul_lambda(less(skewl)))

ConstByTable(t, pre_a, a, w1, wl) ==
    LessSkews(ScaledZ(ConstDown(pre_a, MulLambdaAll(pre_a), w1, wl), t.globalz), a,
              ge_set_gej(gej_double_var(gej_set_ge(a))), w1.skew, wl.skew)

ConstOver(t, a, w1, wl) ==
    ConstByTable(t, [i \in 1..Len(t.r) |-> [t.r[i] EXCEPT !.y = fe_normalize_weak(@)]], a, w1, wl)

\* q * a for a point a that is not at infinity.  stale is what the local of
\* the two calls of wnaf_const holds before it is written.
ecmult_const(a, q, stale) ==
    LET split == scalar_split_lambda(q)
    IN ConstOver(odd_multiples_table_globalz_windowa(gej_set_ge(a)), a,
                 wnaf_const(split.r1, WindowA - 1, stale[1]),
                 wnaf_const(split.r2, WindowA - 1, stale[2]))

-----------------------------------------------------------------------------
(* secp256k1_ecmult_gen                                                    *)

ecmult_gen_context_init == [prec |-> <<>>, blind |-> 0, initial |-> gej_infinity]

\* prec[j][i] = i * 2^(j * PrecB) * G + U_j, where U_j is 2^j times the point of
\* NumsX plus G, but for the last one, with which they add up to nothing.
GenTable ==
    LET nums == gej_add_ge_var(gej_set_ge(ge_set_xo_var(fe_set_int(NumsX), FALSE).ge), ge_const_g)
        gbase[k \in 0..(PrecN * PrecB)] ==
            IF k = 0 THEN gej_set_ge(ge_const_g) ELSE gej_double_var(gbase[k - 1])
        numsbase[j \in 0..(PrecN - 1)] ==
            IF j = 0 THEN nums
            ELSE IF j < PrecN - 1 THEN gej_double_var(numsbase[j - 1])
            ELSE gej_add_var(gej_neg(gej_double_var(numsbase[j - 1])), nums)
        cell[k \in 0..(PrecN * 2^PrecB - 1)] ==
            IF k % 2^PrecB = 0 THEN numsbase[k \div 2^PrecB]
            ELSE gej_add_var(cell[k - 1], gbase[(k \div 2^PrecB) * PrecB])
    IN [k \in 1..(PrecN * 2^PrecB) |-> cell[k - 1]]

\* Large groups keep this for any abscissa, small ones for some.
ASSUME NumsAssumption == \A k \in 1..(PrecN * 2^PrecB) : ~GenTable[k].infinity

StoredRows(prec) ==
    [j \in 1..PrecN |-> [i \in 1..2^PrecB |-> ge_to_storage(prec[(j - 1) * 2^PrecB + i])]]

ecmult_gen(ctx, gn) ==
    LET gnb == scalar_add(gn, ctx.blind).r
        sum[j \in 0..PrecN] ==
            IF j = 0 THEN ctx.initial
            ELSE gej_add_ge_var(sum[j - 1], ge_from_storage(
                     ctx.prec[j][scalar_get_bits(gnb, (j - 1) * PrecB, PrecB) + 1]))
    IN sum[PrecN]

\* Mutant: the blinding value is not negated.
ecmult_gen_blind_same(ctx, seed) ==
    LET reset == [ctx EXCEPT !.initial = gej_neg(gej_set_ge(ge_const_g)), !.blind = 1]
        start == IF seed.given THEN ctx ELSE reset
        scaled == [start EXCEPT !.initial = gej_rescale(@, fe_set_int(seed.s))]
    IN [scaled EXCEPT !.blind = seed.b, !.initial = ecmult_gen(scaled, seed.b)]

\* seed: whether one is given, and the numbers that the generator seeded with it
\* and with the old blinding value has come up with, neither of them zero.
ecmult_gen_blind(ctx, seed) ==
    LET reset == [ctx EXCEPT !.initial = gej_neg(gej_set_ge(ge_const_g)), !.blind = 1]
        start == IF seed.given THEN ctx ELSE reset
        scaled == [start EXCEPT !.initial = gej_rescale(@, fe_set_int(seed.s))]
    IN [scaled EXCEPT !.blind = scalar_negate(seed.b, seed.b),
                      !.initial = ecmult_gen(scaled, seed.b)]

\* A build, with one memory or the other, ends with a blinding without a seed.
ecmult_gen_context_build(ctx, seed) ==
    IF ctx.prec # <<>> THEN ctx
    ELSE ecmult_gen_blind([ctx EXCEPT !.prec = StoredRows(ge_set_all_gej_var(GenTable))], seed)

ecmult_gen_context_build_prealloc(ctx, seed) ==
    IF ctx.prec # <<>> THEN ctx
    ELSE ecmult_gen_blind(
             [ctx EXCEPT !.prec = StoredRows(ge_set_all_gej_var_prealloc(GenTable))], seed)

\* What dst holds besides the table is left alone when there is no table.
ecmult_gen_context_clone(dst, src) == IF src.prec = <<>> THEN [dst EXCEPT !.prec = <<>>] ELSE src

ecmult_gen_context_is_built(ctx) == ctx.prec # <<>>
=============================================================================
