----------------------------- MODULE Secp256k1 ------------------------------
(***************************************************************************)
(* The interface of the library, secp256k1.c and the interface functions   *)
(* of the recovery and ECDH modules: what a call checks, converts, hands   *)
(* to the code below and stores, and what it leaves in the caller's        *)
(* buffers when it refuses.  Module Library has callers of it.             *)
(*                                                                         *)
(* A context is [mul, gen, heap], a buffer of 32 bytes its number, a       *)
(* public key the coordinates that are stored.  An ARG_CHECK that fails    *)
(* ends the process, by the default callback: a guard of the callers.      *)
(***************************************************************************)
EXTENDS Ecdsa, FiniteSetsExt

CONSTANT NoSeed   \* what ecmult_gen_blind derives without a seed

ZeroPubkey == [x |-> 0, y |-> 0]
ZeroSignature == [r |-> 0, s |-> 0, recid |-> 0]

-----------------------------------------------------------------------------
(* Contexts                                                                *)

\* With tables of its own on the heap, or inside a block of the caller's.
context_create(sign, verify) ==
    [gen |-> IF sign THEN ecmult_gen_context_build(ecmult_gen_context_init, NoSeed)
             ELSE ecmult_gen_context_init,
     mul |-> IF verify THEN ecmult_context_build(ecmult_context_init)
             ELSE ecmult_context_init,
     heap |-> TRUE]

context_preallocated_create(sign, verify) ==
    [gen |-> IF sign THEN ecmult_gen_context_build_prealloc(ecmult_gen_context_init, NoSeed)
             ELSE ecmult_gen_context_init,
     mul |-> IF verify THEN ecmult_context_build_prealloc(ecmult_context_init)
             ELSE ecmult_context_init,
     heap |-> FALSE]

\* What gen of the copy holds besides its table is not written without one.
context_clone(ctx) ==
    [gen |-> ecmult_gen_context_clone(ecmult_gen_context_init, ctx.gen),
     mul |-> ecmult_context_clone(ctx.mul),
     heap |-> TRUE]

\* One copy of the whole block, the pointers moved along with it: of a context
\* that has its tables in its block.
context_preallocated_clone(ctx) == ctx

\* The tables are freed one by one, and the context.
NoContext == <<>>
context_destroy(ctx) == NoContext

context_randomize(ctx, seed) == [ctx EXCEPT !.gen = ecmult_gen_blind(@, seed)]

CanSign(ctx) == ecmult_gen_context_is_built(ctx.gen)
CanVerify(ctx) == ecmult_context_is_built(ctx.mul)

-----------------------------------------------------------------------------
(* Keys                                                                    *)

pubkey_load(pubkey) == ge_from_storage(pubkey)
pubkey_save(ge) == ge_to_storage(ge)

\* The ARG_CHECK of pubkey_load.
Loadable(pubkey) == pubkey.x # 0

ec_pubkey_parse(input) ==
    LET q == eckey_pubkey_parse(input)
    IN [ret |-> q.ret, pubkey |-> IF q.ret THEN pubkey_save(q.elem) ELSE ZeroPubkey]

ec_pubkey_serialize(pubkey, compressed) ==
    eckey_pubkey_serialize(pubkey_load(pubkey), compressed)

ec_seckey_verify(seckey) ==
    LET sec == scalar_set_b32(seckey) IN ~sec.overflow /\ ~scalar_is_zero(sec.r)

ec_pubkey_create(ctx, seckey) ==
    LET ret == ec_seckey_verify(seckey)
    IN [ret |-> ret,
        pubkey |-> IF ret THEN pubkey_save(ge_set_gej(ecmult_gen(ctx.gen, seckey)))
                   ELSE ZeroPubkey]

\* A tweak that is refused leaves zeros, in the key as in the public key.
KeyUnless(refused, t) ==
    LET ret == ~refused /\ t.ret
    IN [ret |-> ret, seckey |-> IF ret THEN scalar_get_b32(t.key) ELSE 0]

ec_privkey_tweak_add(seckey, tweak) ==
    LET term == scalar_set_b32(tweak)
    IN KeyUnless(term.overflow, eckey_privkey_tweak_add(scalar_set_b32(seckey).r, term.r))

ec_privkey_tweak_mul(seckey, tweak) ==
    LET term == scalar_set_b32(tweak)
    IN KeyUnless(term.overflow, eckey_privkey_tweak_mul(scalar_set_b32(seckey).r, term.r))

SavedUnless(refused, t) ==
    LET ret == ~refused /\ t.ret
    IN [ret |-> ret, pubkey |-> IF ret THEN pubkey_save(t.key) ELSE ZeroPubkey]

\* Mutant: a tweak that is not below the order is reduced.
ec_pubkey_tweak_add_reduced(ctx, pubkey, tweak) ==
    SavedUnless(FALSE, eckey_pubkey_tweak_add(ctx.mul, pubkey_load(pubkey),
                                              scalar_set_b32(tweak).r))

ec_pubkey_tweak_add(ctx, pubkey, tweak) ==
    LET term == scalar_set_b32(tweak)
    IN SavedUnless(term.overflow, eckey_pubkey_tweak_add(ctx.mul, pubkey_load(pubkey), term.r))

ec_pubkey_tweak_mul(ctx, pubkey, tweak) ==
    LET term == scalar_set_b32(tweak)
    IN SavedUnless(term.overflow, eckey_pubkey_tweak_mul(ctx.mul, pubkey_load(pubkey), term.r))

ec_pubkey_combine(pubkeys) ==
    LET q[i \in 0..Len(pubkeys)] == IF i = 0 THEN gej_infinity
                                    ELSE gej_add_ge_var(q[i - 1], pubkey_load(pubkeys[i]))
        sum == q[Len(pubkeys)]
    IN [ret |-> ~sum.infinity,
        pubkey |-> IF sum.infinity THEN ZeroPubkey ELSE pubkey_save(ge_set_gej(sum))]

-----------------------------------------------------------------------------
(* Signatures; a plain one has no recid.                                   *)

Plain(sig) == [sig EXCEPT !.recid = 0]

\* nonces: what the nonce function answers to each try; it fails after that.
FirstAccepted(seckey, nonces, try) ==
    LET accepted == {i \in DOMAIN nonces : ec_seckey_verify(nonces[i]) /\ try[i].ret}
        ret == ec_seckey_verify(seckey) /\ accepted # {}
        sig == try[Min(accepted)]
    IN [ret |-> ret,
        sig |-> IF ret THEN [r |-> sig.r, s |-> sig.s, recid |-> sig.recid] ELSE ZeroSignature]

ecdsa_sign_recoverable(ctx, msg, seckey, nonces) ==
    FirstAccepted(seckey, nonces,
        [i \in DOMAIN nonces |->
            ecdsa_sig_sign(ctx.gen, seckey, scalar_set_b32(msg).r, nonces[i])])

ecdsa_sign(ctx, msg, seckey, nonces) ==
    [ecdsa_sign_recoverable(ctx, msg, seckey, nonces) EXCEPT !.sig = Plain(@)]

\* From the two numbers as bytes, and back.
ecdsa_recoverable_signature_parse_compact(input, recid) ==
    LET r == scalar_set_b32(input.r)
        s == scalar_set_b32(input.s)
        ret == ~r.overflow /\ ~s.overflow
    IN [ret |-> ret,
        sig |-> IF ret THEN [r |-> r.r, s |-> s.r, recid |-> recid] ELSE ZeroSignature]

ecdsa_recoverable_signature_serialize_compact(sig) ==
    [out |-> [r |-> scalar_get_b32(sig.r), s |-> scalar_get_b32(sig.s)], recid |-> sig.recid]

ecdsa_recoverable_signature_convert(sig) == Plain(sig)

ecdsa_signature_parse_compact(input) == ecdsa_recoverable_signature_parse_compact(input, 0)

ecdsa_signature_serialize_compact(sig) ==
    [r |-> scalar_get_b32(sig.r), s |-> scalar_get_b32(sig.s)]

ecdsa_signature_normalize(sig) ==
    [ret |-> scalar_is_high(sig.s),
     sig |-> IF scalar_is_high(sig.s) THEN [sig EXCEPT !.s = scalar_negate(@, @)] ELSE sig]

ecdsa_verify(ctx, sig, msg, pubkey) ==
    /\ ~scalar_is_high(sig.s)
    /\ ecdsa_sig_verify(ctx.mul, sig.r, sig.s, pubkey_load(pubkey), scalar_set_b32(msg).r)

ecdsa_recover(ctx, sig, msg) ==
    SavedUnless(FALSE, ecdsa_sig_recover(ctx.mul, sig.r, sig.s, scalar_set_b32(msg).r, sig.recid))
=============================================================================
