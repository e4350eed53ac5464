------------------------------- MODULE Group --------------------------------
(***************************************************************************)
(* The points of the curve y^2 = x^3 + 7 as group_impl.h computes with     *)
(* them: affine (ge) and Jacobian (gej), over the elements of FieldElement *)
(* with their magnitudes.  Each operator is one function; the locals keep  *)
(* their names, a local that is assigned twice gets a digit.               *)
(*                                                                         *)
(* The macros at the end of the C files send the calls of                  *)
(* secp256k1_gej_add_ge to secp256k1_gej_add_ge_var.                       *)
(***************************************************************************)
EXTENDS FieldElement

CONSTANTS
    Gx, Gy,   \* the generator
    Beta      \* a cube root of one: (x, y) -> (Beta * x, y) multiplies by lambda

Ge(x, y)      == [x |-> x, y |-> y, infinity |-> FALSE]
Gej(x, y, z)  == [x |-> x, y |-> y, z |-> z, infinity |-> FALSE]

ge_const_g == Ge(fe_set_int(Gx), fe_set_int(Gy))

\* What becomes of r when only its flag is written: its coordinates stay.
Infinite(r) == [r EXCEPT !.infinity = TRUE]

gej_infinity == [x |-> FeZero, y |-> FeZero, z |-> FeZero, infinity |-> TRUE]

gej_set_ge(a) == [x |-> a.x, y |-> a.y, z |-> FeOne, infinity |-> a.infinity]

ge_neg(a) == [a EXCEPT !.y = fe_negate(fe_normalize_weak(a.y), 1)]

\* Mutant: the magnitude of y is taken for 1.
gej_neg_unnormalized(a) == [a EXCEPT !.y = fe_negate(a.y, 1)]

gej_neg(a) == [a EXCEPT !.y = fe_negate(fe_normalize_weak(a.y), 1)]

\* From Jacobian to affine with the inverse of Z at hand.
ge_set_gej_zinv(a, zi) ==
    LET zi2 == fe_sqr(zi)
        zi3 == fe_mul(zi2, zi)
    IN [x |-> fe_mul(a.x, zi2), y |-> fe_mul(a.y, zi3), infinity |-> a.infinity]

\* The same with an inversion; of a point at infinity too.
ge_set_gej(a) == ge_set_gej_zinv(a, fe_inv_var(a.z))

\* This one leaves the coordinates of a point at infinity unwritten.
ge_set_gej_var(a) ==
    IF a.infinity THEN [x |-> Unset, y |-> Unset, infinity |-> TRUE]
    ELSE ge_set_gej(a)

\* A sequence at once, with one inversion; the points at infinity are left out
\* of it.
ge_set_all_gej_var(a) ==
    LET finite == SelectSeq(a, LAMBDA p : ~p.infinity)
        azi == IF finite = <<>> THEN <<>>
               ELSE fe_inv_all_var([i \in 1..Len(finite) |-> finite[i].z])
        count(i) == Len(SelectSeq(SubSeq(a, 1, i), LAMBDA p : ~p.infinity))
    IN [i \in 1..Len(a) |-> IF a[i].infinity THEN [x |-> Unset, y |-> Unset, infinity |-> TRUE]
                            ELSE ge_set_gej_zinv(a[i], azi[count(i)])]

\* The same without memory of its own: the products wait in r[i].x.
ge_set_all_gej_var_prealloc(a) ==
    LET len == Len(a)
        before(i) == {j \in 1..(i - 1) : ~a[j].infinity}
        last(s) == CHOOSE j \in s : \A k \in s : k <= j
        pre[i \in 1..len] ==
            IF before(i) = {} THEN a[i].z
            ELSE fe_mul(pre[last(before(i))], a[i].z)
        after(i) == {j \in (i + 1)..len : ~a[j].infinity}
        next(i) == CHOOSE j \in after(i) : \A k \in after(i) : j <= k
        u[i \in 1..len] ==
            IF after(i) = {} THEN fe_inv_var(pre[i])
            ELSE fe_mul(u[next(i)], a[next(i)].z)
        zi(i) == IF before(i) = {} THEN u[i] ELSE fe_mul(pre[last(before(i))], u[i])
    IN [i \in 1..len |-> IF a[i].infinity THEN [x |-> Unset, y |-> Unset, infinity |-> TRUE]
                         ELSE ge_set_gej_zinv(a[i], zi(i))]

\* A table whose Z are known by their ratios, zr[i] = a[i].z / a[i - 1].z, to
\* affine points; only the last Z is looked at.
ge_set_table_gej_var(a, zr) ==
    LET len == Len(a)
        zi[i \in 1..len] == IF i = len THEN fe_inv_var(a[len].z)
                            ELSE fe_mul(zi[i + 1], zr[i + 1])
    IN [i \in 1..len |-> ge_set_gej_zinv(a[i], zi[i])]

\* Mutant: a factor of the ratios is taken one entry too early.
ge_globalz_set_table_shifted(a, zr) ==
    LET len == Len(a)
        zs[i \in 1..(len - 1)] == IF i = len - 1 THEN zr[i] ELSE fe_mul(zs[i + 1], zr[i])
    IN [globalz |-> a[len].z,
        r |-> [i \in 1..len |-> IF i = len THEN Ge(a[len].x, a[len].y)
                                ELSE ge_set_gej_zinv(a[i], zs[i])]]

\* The same table to points that share the last Z, without an inversion.
ge_globalz_set_table_gej(a, zr) ==
    LET len == Len(a)
        zs[i \in 1..(len - 1)] == IF i = len - 1 THEN zr[len]
                                  ELSE fe_mul(zs[i + 1], zr[i + 1])
    IN [globalz |-> a[len].z,
        r |-> [i \in 1..len |-> IF i = len THEN Ge(a[len].x, a[len].y)
                                ELSE ge_set_gej_zinv(a[i], zs[i])]]

\* The point with this x whose y is a square, and the one with a y of the
\* parity asked for.
ge_set_xquad_var(x) ==
    LET c == fe_add(fe_set_int(7), fe_mul(x, fe_sqr(x)))
        root == fe_sqrt_var(c)
    IN [ret |-> root.ret, ge |-> Ge(x, root.fe)]

WithParity(q, x, odd) ==
    LET y == fe_normalize_var(q.ge.y)
    IN [ret |-> q.ret,
        ge |-> IF q.ret THEN Ge(x, IF fe_is_odd(y) # odd THEN fe_negate(y, 1) ELSE y)
               ELSE q.ge]

ge_set_xo_var(x, odd) == WithParity(ge_set_xquad_var(x), x, odd)

\* Whether x is the abscissa of a, by a multiplication with the square of Z.
gej_eq_x_var(x, a) ==
    ~a.infinity /\ fe_equal_var(fe_mul(fe_sqr(a.z), x), fe_normalize_weak(a.x))

gej_is_valid_var(a) ==
    LET z2 == fe_sqr(a.z)
        z6 == fe_mul_int(fe_mul(fe_sqr(z2), z2), 7)
        x3 == fe_normalize_weak(fe_add(fe_mul(fe_sqr(a.x), a.x), z6))
    IN ~a.infinity /\ fe_equal_var(fe_sqr(a.y), x3)

ge_is_valid_var(a) ==
    LET x3 == fe_normalize_weak(fe_add(fe_mul(fe_sqr(a.x), a.x), fe_set_int(7)))
    IN ~a.infinity /\ fe_equal_var(fe_sqr(a.y), x3)

-----------------------------------------------------------------------------
(* Addition.  The operators that end in _rzr return the ratio of the new Z *)
(* to the old one as well; the library may not ask for it when the first   *)
(* point is at infinity.                                                   *)

Doubled(a) ==
    LET z  == fe_mul_int(fe_mul(a.z, a.y), 2)
        t1 == fe_mul_int(fe_sqr(a.x), 3)
        t2 == fe_sqr(t1)
        t3 == fe_mul_int(fe_sqr(a.y), 2)
        t4 == fe_mul_int(fe_sqr(t3), 2)
        t5 == fe_mul(t3, a.x)
        x  == fe_add(fe_negate(fe_mul_int(t5, 4), 4), t2)
        t6 == fe_add(fe_mul_int(t5, 6), fe_negate(t2, 1))
        y  == fe_add(fe_mul(t1, t6), fe_negate(t4, 2))
    IN Gej(x, y, z)

gej_double_rzr(a) ==
    IF a.infinity THEN [r |-> a, rzr |-> FeOne]
    ELSE [r |-> Doubled(a), rzr |-> fe_mul_int(fe_normalize_weak(a.y), 2)]

gej_double_var(a) == gej_double_rzr(a).r

\* The end of the three additions: from the two abscissas and ordinates over a
\* common denominator to the sum, or to the doubling or to infinity.
AddTail(a, u1, s1, h, i, hz) ==
    LET h2 == fe_sqr(h)
        h3 == fe_mul(h, h2)
        t  == fe_mul(u1, h2)
        x  == fe_add(fe_negate(fe_add(fe_mul_int(t, 2), h3), 3), fe_sqr(i))
        y  == fe_mul(fe_add(fe_negate(x, 5), t), i)
    IN IF ~fe_normalizes_to_zero_var(h)
       THEN [r |-> Gej(x, fe_add(y, fe_negate(fe_mul(h3, s1), 1)), fe_mul(a.z, hz)),
             rzr |-> hz]
       ELSE IF fe_normalizes_to_zero_var(i) THEN gej_double_rzr(a)
       ELSE [r |-> Infinite(a), rzr |-> FeZero]

Diff(a, b) == fe_add(fe_negate(a, 1), b)

gej_add_rzr(a, b) ==
    LET z22 == fe_sqr(b.z)
        z12 == fe_sqr(a.z)
        u1 == fe_mul(a.x, z22)
        u2 == fe_mul(b.x, z12)
        s1 == fe_mul(fe_mul(a.y, z22), b.z)
        s2 == fe_mul(fe_mul(b.y, z12), a.z)
        h  == Diff(u1, u2)
    IN IF a.infinity THEN [r |-> b, rzr |-> Unset]
       ELSE IF b.infinity THEN [r |-> a, rzr |-> FeOne]
       ELSE AddTail(a, u1, s1, h, Diff(s1, s2), fe_mul(h, b.z))

gej_add_var(a, b) == gej_add_rzr(a, b).r

\* b is affine; az is the Z of a by which the two are compared.
AddAffine(a, b, az) ==
    LET z12 == fe_sqr(az)
        u1 == fe_normalize_weak(a.x)
        u2 == fe_mul(b.x, z12)
        s1 == fe_normalize_weak(a.y)
        s2 == fe_mul(fe_mul(b.y, z12), az)
        h  == Diff(u1, u2)
    IN AddTail(a, u1, s1, h, Diff(s1, s2), h)

gej_add_ge_rzr(a, b) ==
    IF a.infinity THEN [r |-> gej_set_ge(b), rzr |-> Unset]
    ELSE IF b.infinity THEN [r |-> a, rzr |-> FeOne]
    ELSE AddAffine(a, b, a.z)

gej_add_ge_var(a, b) == gej_add_ge_rzr(a, b).r

\* Mutant: b is taken over as if its Z were one.
gej_add_zinv_unscaled(a, b, bzinv) ==
    IF b.infinity THEN a
    ELSE IF a.infinity THEN gej_set_ge(b)
    ELSE AddAffine(a, b, fe_mul(a.z, bzinv)).r

\* b has the Z whose inverse is bzinv.
gej_add_zinv_var(a, b, bzinv) ==
    LET q == ge_set_gej_zinv(b, bzinv)
    IN IF b.infinity THEN a
       ELSE IF a.infinity THEN gej_set_ge(q)
       ELSE AddAffine(a, b, fe_mul(a.z, bzinv)).r

\* The addition that takes the same steps whatever the points are (b not at
\* infinity).  The slope is R/M; where that is 0/0 for two different points,
\* another form of it is moved in.
gej_add_ge(a, b) ==
    LET zz == fe_sqr(a.z)
        u1 == fe_normalize_weak(a.x)
        u2 == fe_mul(b.x, zz)
        s1 == fe_normalize_weak(a.y)
        s2 == fe_mul(fe_mul(b.y, zz), a.z)
        t  == fe_add(u1, u2)
        m  == fe_add(s1, s2)
        m_neg == fe_negate(u2, 1)
        rr == fe_add(fe_sqr(t), fe_mul(u1, m_neg))
        degenerate == fe_normalizes_to_zero_var(m) /\ fe_normalizes_to_zero_var(rr)
        rr_alt == fe_cmov(fe_mul_int(s1, 2), rr, ~degenerate)
        m_alt  == fe_cmov(fe_add(m_neg, u1), m, ~degenerate)
        n  == fe_sqr(m_alt)
        q  == fe_negate(fe_mul(n, t), 1)
        n2 == fe_cmov(fe_sqr(n), m, degenerate)
        z  == fe_mul(a.z, m_alt)
        x  == fe_normalize_weak(fe_add(fe_sqr(rr_alt), q))
        t2 == fe_add(fe_mul(fe_add(fe_mul_int(x, 2), q), rr_alt), n2)
        y  == fe_normalize_weak(fe_negate(t2, 3))
    IN [x |-> fe_cmov(fe_mul_int(x, 4), b.x, a.infinity),
        y |-> fe_cmov(fe_mul_int(y, 4), b.y, a.infinity),
        z |-> fe_cmov(fe_mul_int(z, 2), FeOne, a.infinity),
        infinity |-> fe_normalizes_to_zero_var(z) /\ ~a.infinity]

gej_rescale(r, s) ==
    LET zz == fe_sqr(s)
    IN [r EXCEPT !.x = fe_mul(@, zz), !.y = fe_mul(fe_mul(@, zz), s), !.z = fe_mul(@, s)]

ge_to_storage(a) ==
    [x |-> fe_to_storage(fe_normalize_var(a.x)), y |-> fe_to_storage(fe_normalize_var(a.y))]

ge_from_storage(s) == Ge(fe_from_storage(s.x), fe_from_storage(s.y))

ge_mul_lambda(a) == [a EXCEPT !.x = fe_mul(@, fe_set_int(Beta))]

-----------------------------------------------------------------------------
(* What a point stands for, and the chord and tangent rule.                *)

Infinity == <<>>

PointOf(a)  == IF a.infinity THEN Infinity ELSE <<a.x.v, a.y.v>>

Affine(a) ==
    LET zi == fe_inv_var(a.z).v IN
    IF a.infinity THEN Infinity ELSE <<(a.x.v * zi * zi) % P, (((a.y.v * zi * zi) % P) * zi) % P>>

OnCurve(x, y) == (y * y - x * x * x - 7) % P = 0

RefAdd(p, q) ==
    LET over(num, den) == (num * FePow(fe_set_int(den), P - 2).v) % P
        slope == IF p = q THEN over(3 * p[1] * p[1], 2 * p[2]) ELSE over(q[2] - p[2], q[1] - p[1])
        x == (slope * slope - p[1] - q[1]) % P
    IN IF p = Infinity THEN q
       ELSE IF q = Infinity THEN p
       ELSE IF p[1] = q[1] /\ (p[2] + q[2]) % P = 0 THEN Infinity
       ELSE <<x, (slope * (p[1] - x) - p[2]) % P>>

\* Every VERIFY_CHECK on the way to these coordinates held; those of a point
\* at infinity are not read.
Sound(a) == a.infinity \/ (a.x.ok /\ a.y.ok /\ a.z.ok)
=============================================================================
