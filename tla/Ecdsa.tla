------------------------------- MODULE Ecdsa --------------------------------
(***************************************************************************)
(* Signatures and keys as numbers and points: ecdsa_impl.h, eckey_impl.h,  *)
(* and the cores of the recovery, ECDH and Schnorr modules.  Module        *)
(* Secp256k1 has the interface that calls them; the DER form is in module  *)
(* Der.                                                                    *)
(*                                                                         *)
(* A number of 32 bytes is the number.  A nonce function is whatever nonce *)
(* it comes up with in the end.                                            *)
(***************************************************************************)
EXTENDS Ecmult

CONSTANT MsgHash(_, _)   \* the hash of r and the message of a Schnorr signature

ecdsa_const_order_as_fe   == fe_set_int(Order)
ecdsa_const_p_minus_order == P - Order

-----------------------------------------------------------------------------
(* ecdsa_impl.h                                                            *)

\* Mutant: s is brought to its lower form, recid is left as it was.
ecdsa_sig_sign_parity(gen, seckey, message, nonce) ==
    LET r == ge_set_gej(ecmult_gen(gen, nonce))
        b == scalar_set_b32(fe_get_b32(fe_normalize_var(r.x)))
        s == scalar_mul(scalar_inverse(nonce), scalar_add(scalar_mul(b.r, seckey), message).r)
    IN [ret |-> b.r # 0 /\ s # 0, r |-> b.r, s |-> scalar_cond_negate(s, scalar_is_high(s)).r,
        recid |-> (IF b.overflow THEN 2 ELSE 0)
                  + (IF fe_is_odd(fe_normalize_var(r.y)) THEN 1 ELSE 0)]

\* The nonce is refused when r or s comes out as zero.  recid tells which of
\* the points with the abscissa r, or r + Order, it was.
SignatureBy(r, seckey, message, nonce) ==
    LET b == scalar_set_b32(fe_get_b32(fe_normalize_var(r.x)))
        odd == fe_is_odd(fe_normalize_var(r.y))
        s == scalar_mul(scalar_inverse(nonce), scalar_add(scalar_mul(b.r, seckey), message).r)
        high == scalar_is_high(s)
    IN [ret |-> ~scalar_is_zero(b.r) /\ ~scalar_is_zero(s), r |-> b.r,
        s |-> IF high THEN scalar_negate(s, s) ELSE s,
        recid |-> (IF b.overflow THEN 2 ELSE 0) + (IF odd # high THEN 1 ELSE 0)]

ecdsa_sig_sign(gen, seckey, message, nonce) ==
    SignatureBy(ge_set_gej(ecmult_gen(gen, nonce)), seckey, message, nonce)

\* Mutant: an abscissa between the order and the prime is not thought of.
ecdsa_sig_verify_once(ctx, sigr, sigs, pubkey, message) ==
    LET sn == scalar_inverse(sigs)
        pr == ecmult(ctx, gej_set_ge(pubkey), scalar_mul(sn, sigr), scalar_mul(sn, message))
    IN sigr # 0 /\ sigs # 0 /\ gej_eq_x_var(fe_set_b32(sigr).fe, pr)

\* The abscissa of u1 * G + u2 * Q is compared with r and, if that is a field
\* element still, with r + Order, without an inversion of Z.
AbscissaIs(sigr, pr) ==
    LET xr == fe_set_b32(scalar_get_b32(sigr)).fe
    IN /\ ~pr.infinity
       /\ \/ gej_eq_x_var(xr, pr)
          \/ /\ Raw(xr) < ecdsa_const_p_minus_order
             /\ gej_eq_x_var(fe_add(xr, ecdsa_const_order_as_fe), pr)

ecdsa_sig_verify(ctx, sigr, sigs, pubkey, message) ==
    LET sn == scalar_inverse(sigs)
    IN /\ ~scalar_is_zero(sigr) /\ ~scalar_is_zero(sigs)
       /\ AbscissaIs(sigr, ecmult(ctx, gej_set_ge(pubkey), scalar_mul(sn, sigr),
                                  scalar_mul(sn, message)))

\* modules/recovery: the public key that the signature is valid for.
RecoveredKey(accepted, qj) ==
    [ret |-> accepted /\ ~qj.infinity, key |-> ge_set_gej_var(qj)]

ecdsa_sig_recover(ctx, sigr, sigs, message, recid) ==
    LET low == fe_set_b32(scalar_get_b32(sigr)).fe
        fx == IF recid >= 2 THEN fe_add(low, ecdsa_const_order_as_fe) ELSE low
        x == ge_set_xo_var(fx, recid % 2 = 1)
        rn == scalar_inverse(sigr)
        u1 == scalar_mul(rn, message)
        accepted == /\ ~scalar_is_zero(sigr) /\ ~scalar_is_zero(sigs)
                    /\ recid >= 2 => Raw(low) < ecdsa_const_p_minus_order
                    /\ x.ret
    IN RecoveredKey(accepted, ecmult(ctx, gej_set_ge(x.ge), scalar_mul(rn, sigs),
                                     scalar_negate(u1, u1)))

-----------------------------------------------------------------------------
(* eckey_impl.h                                                            *)

\* The encodings that are told apart: by their first byte and their length.
eckey_pubkey_serialize(elem, compressed) ==
    LET x == fe_normalize_var(elem.x)
        y == fe_normalize_var(elem.y)
    IN [ret |-> ~elem.infinity,
        pub |-> IF compressed
                THEN [head |-> IF fe_is_odd(y) THEN 3 ELSE 2, x |-> fe_get_b32(x), y |-> 0]
                ELSE [head |-> 4, x |-> fe_get_b32(x), y |-> fe_get_b32(y)]]

\* Mutant: what a hybrid form says of the parity is not looked at.
eckey_pubkey_parse_any(pub) ==
    LET x == fe_set_b32(pub.x)
        y == fe_set_b32(pub.y)
        half == ge_set_xo_var(x.fe, pub.head = 3)
        full == Ge(x.fe, y.fe)
    IN IF pub.head \in {2, 3} THEN [ret |-> x.ret /\ half.ret, elem |-> half.ge]
       ELSE [ret |-> pub.head # 5 /\ x.ret /\ y.ret /\ ge_is_valid_var(full), elem |-> full]

\* 6 and 7 are the hybrid form, which says the parity as well.
eckey_pubkey_parse(pub) ==
    LET x == fe_set_b32(pub.x)
        y == fe_set_b32(pub.y)
        half == ge_set_xo_var(x.fe, pub.head = 3)
        full == Ge(x.fe, y.fe)
    IN CASE pub.head \in {2, 3} -> [ret |-> x.ret /\ half.ret, elem |-> half.ge]
         [] pub.head \in {4, 6, 7} ->
              [ret |-> /\ x.ret /\ y.ret
                       /\ pub.head # 4 => (fe_is_odd(y.fe) <=> pub.head = 7)
                       /\ ge_is_valid_var(full),
               elem |-> full]
         [] OTHER -> [ret |-> FALSE, elem |-> full]

eckey_privkey_tweak_add(key, tweak) ==
    LET sum == scalar_add(key, tweak).r IN [ret |-> ~scalar_is_zero(sum), key |-> sum]

eckey_privkey_tweak_mul(key, tweak) ==
    [ret |-> ~scalar_is_zero(tweak), key |-> scalar_mul(key, tweak)]

UnlessInfinity(pt) == [ret |-> ~pt.infinity, key |-> ge_set_gej(pt)]

\* Mutant: the tweak is taken for the multiplier of the key.
eckey_pubkey_tweak_add_swapped(ctx, key, tweak) ==
    UnlessInfinity(ecmult(ctx, gej_set_ge(key), tweak, 1))

eckey_pubkey_tweak_add(ctx, key, tweak) ==
    UnlessInfinity(ecmult(ctx, gej_set_ge(key), 1, tweak))

eckey_pubkey_tweak_mul(ctx, key, tweak) ==
    [ret |-> ~scalar_is_zero(tweak), key |-> ge_set_gej(ecmult(ctx, gej_set_ge(key), tweak, 0))]

-----------------------------------------------------------------------------
(* modules/ecdh: what is hashed is the point in compressed form.           *)

Secret(pt) == [ret |-> TRUE, head |-> IF fe_is_odd(fe_normalize_var(pt.y)) THEN 3 ELSE 2,
               x |-> fe_get_b32(fe_normalize_var(pt.x))]

ecdh(point, scalar, stale) ==
    LET s == scalar_set_b32(scalar)
    IN IF s.overflow \/ scalar_is_zero(s.r) THEN [ret |-> FALSE, head |-> 0, x |-> 0]
       ELSE Secret(ge_set_gej(ecmult_const(point, s.r, stale)))

-----------------------------------------------------------------------------
(* modules/schnorr                                                         *)

\* The sum of the nonces as a point, when there is another party.
SchnorrNonce(gen, nonce, pubnonce) ==
    LET rj == ecmult_gen(gen, nonce)
    IN ge_set_gej(IF pubnonce = <<>> THEN rj ELSE gej_add_ge_var(rj, pubnonce[1]))

\* Mutant: the nonce keeps its sign.
schnorr_sig_sign_any(gen, key, nonce, pubnonce, msg) ==
    LET ra == SchnorrNonce(gen, nonce, pubnonce)
        rx == fe_get_b32(fe_normalize_var(ra.x))
        h == scalar_set_b32(MsgHash(rx, msg))
        hk == scalar_mul(h.r, key)
    IN [ret |-> key # 0 /\ nonce # 0 /\ ~h.overflow /\ h.r # 0,
        r |-> rx, s |-> scalar_add(scalar_negate(hk, hk), nonce).r]

\* The nonce is negated when the point has an odd ordinate.
SchnorrSignatureBy(ra, key, nonce, msg) ==
    LET n == IF fe_is_odd(fe_normalize_var(ra.y)) THEN scalar_negate(nonce, nonce) ELSE nonce
        rx == fe_get_b32(fe_normalize_var(ra.x))
        h == scalar_set_b32(MsgHash(rx, msg))
        hk == scalar_mul(h.r, key)
    IN [ret |-> /\ ~scalar_is_zero(key) /\ ~scalar_is_zero(nonce)
                /\ ~h.overflow /\ ~scalar_is_zero(h.r),
        r |-> rx, s |-> scalar_add(scalar_negate(hk, hk), n).r]

schnorr_sig_sign(gen, key, nonce, pubnonce, msg) ==
    SchnorrSignatureBy(SchnorrNonce(gen, nonce, pubnonce), key, nonce, msg)

\* The point is the one with the abscissa r whose ordinate is even.
SchnorrPointIs(rx, rj) ==
    LET ra == ge_set_gej_var(rj)
    IN ~rj.infinity /\ ~fe_is_odd(fe_normalize_var(ra.y)) /\ fe_equal_var(rx, ra.x)

schnorr_sig_verify(ctx, sig, pubkey, msg) ==
    LET h == scalar_set_b32(MsgHash(sig.r, msg))
        s == scalar_set_b32(sig.s)
        rx == fe_set_b32(sig.r)
    IN /\ ~pubkey.infinity /\ ~h.overflow /\ ~scalar_is_zero(h.r) /\ ~s.overflow /\ rx.ret
       /\ SchnorrPointIs(rx.fe, ecmult(ctx, gej_set_ge(pubkey), h.r, s.r))

SchnorrKey(accepted, qj) == [ret |-> accepted /\ ~qj.infinity, key |-> ge_set_gej(qj)]

schnorr_sig_recover(ctx, sig, msg) ==
    LET h == scalar_set_b32(MsgHash(sig.r, msg))
        s == scalar_set_b32(sig.s)
        rx == fe_set_b32(sig.r)
        ra == ge_set_xo_var(rx.fe, FALSE)
        hi == scalar_inverse(h.r)
    IN SchnorrKey(~h.overflow /\ ~scalar_is_zero(h.r) /\ ~s.overflow /\ rx.ret /\ ra.ret,
                  ecmult(ctx, gej_set_ge(ra.ge), hi, scalar_mul(scalar_negate(s.r, s.r), hi)))

\* The sum of the parts; they must all be for the same r.
schnorr_sig_combine(sigs) ==
    LET sum[i \in 0..Len(sigs)] == IF i = 0 THEN 0 ELSE scalar_add(sum[i - 1], sigs[i].s).r
    IN [ret |-> IF \E i \in 1..Len(sigs) :
                      scalar_set_b32(sigs[i].s).overflow \/ sigs[i].r # sigs[1].r THEN -1
                ELSE IF scalar_is_zero(sum[Len(sigs)]) THEN 0 ELSE 1,
        sig |-> [r |-> sigs[1].r, s |-> sum[Len(sigs)]]]
=============================================================================
