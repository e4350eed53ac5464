------------------------------ MODULE Library -------------------------------
(***************************************************************************)
(* A caller of the library: one context, one pair of keys that are derived *)
(* side by side, and one signature on its way from its signer to whoever   *)
(* verifies it.  The calls come in any order that the ARG_CHECKs let pass. *)
(*                                                                         *)
(* The private key and the public one go through different code, the table *)
(* of the generator or ecmult with its own tables, and through a context   *)
(* that was blinded, cloned or made in the memory of the caller.           *)
(***************************************************************************)
EXTENDS Secp256k1

CONSTANTS
    RawKeys,        \* what a caller puts into a buffer for a key
    Tweaks, Messages,
    NonceRuns,      \* the answers of a nonce function to its tries
    Seeds, MaxSeeds,
    Encodings       \* public keys as they arrive in bytes

VARIABLES
    ctx,      \* NoContext before it is created and after it is destroyed
    seeded,   \* how often it was randomized with a seed
    seckey, pubkey,
    sig,      \* recid is 0 in a plain signature
    made      \* of sig: the message, and whether the recid is there

vars == <<ctx, seeded, seckey, pubkey, sig, made>>

NotMade == [msg |-> 0, recoverable |-> FALSE]

HasContext == ctx # NoContext
NoSignature == sig = ZeroSignature
HasPair == seckey # 0 /\ pubkey # ZeroPubkey

Init ==
    /\ ctx = NoContext /\ seeded = 0
    /\ seckey = 0 /\ pubkey = ZeroPubkey
    /\ sig = ZeroSignature /\ made = NotMade

-----------------------------------------------------------------------------
(* The context.  It is made before there are keys, and replaced by a copy  *)
(* of itself or randomized whenever.                                       *)

ContextUntouched == UNCHANGED <<ctx, seeded>>
KeysUntouched == UNCHANGED <<seckey, pubkey>>
SignatureUntouched == UNCHANGED <<sig, made>>

Create(sign, verify) ==
    /\ ~HasContext
    /\ ctx' \in {context_create(sign, verify), context_preallocated_create(sign, verify)}
    /\ seeded' = 0 /\ KeysUntouched /\ SignatureUntouched

Clone ==
    /\ HasContext /\ NoSignature
    /\ \/ ctx' = context_clone(ctx)
       \/ ~ctx.heap /\ ctx' = context_preallocated_clone(ctx)
    /\ UNCHANGED seeded /\ KeysUntouched /\ SignatureUntouched

\* MaxSeeds bounds how far the blinding values lead from one another.
Randomize(seed) ==
    /\ HasContext /\ CanSign(ctx) /\ NoSignature
    /\ seed.given => seeded < MaxSeeds
    /\ ctx' = context_randomize(ctx, seed)
    /\ seeded' = IF seed.given THEN seeded + 1 ELSE 0
    /\ KeysUntouched /\ SignatureUntouched

\* The keys are forgotten with the context.  A block of the caller's is taken
\* back by the caller.
Destroy ==
    /\ HasContext
    /\ ctx' = IF ctx.heap THEN context_destroy(ctx) ELSE NoContext
    /\ seeded' = 0
    /\ seckey' = 0 /\ pubkey' = ZeroPubkey
    /\ sig' = ZeroSignature /\ made' = NotMade

-----------------------------------------------------------------------------
(* The keys                                                                *)

\* ec_pubkey_create writes zeros when it refuses.
CreateKey(raw) ==
    /\ HasContext /\ CanSign(ctx) /\ NoSignature
    /\ LET made_key == ec_pubkey_create(ctx, raw)
       IN /\ seckey' = IF made_key.ret THEN raw ELSE 0
          /\ pubkey' = made_key.pubkey
    /\ ContextUntouched /\ SignatureUntouched

\* Only the public half, which comes in by its encoding.
ParseKey(input) ==
    /\ HasContext /\ NoSignature /\ seckey = 0
    /\ pubkey' = ec_pubkey_parse(input).pubkey
    /\ UNCHANGED seckey /\ ContextUntouched /\ SignatureUntouched

\* Both holders derive the next key.  The one that has the private key is not
\* told what the other one's call returns.
CanTweak == HasContext /\ CanVerify(ctx) /\ NoSignature /\ HasPair /\ Loadable(pubkey)

TweakAdd(t) ==
    /\ CanTweak
    /\ seckey' = ec_privkey_tweak_add(seckey, t).seckey
    /\ pubkey' = ec_pubkey_tweak_add(ctx, pubkey, t).pubkey
    /\ ContextUntouched /\ SignatureUntouched

TweakMul(t) ==
    /\ CanTweak
    /\ seckey' = ec_privkey_tweak_mul(seckey, t).seckey
    /\ pubkey' = ec_pubkey_tweak_mul(ctx, pubkey, t).pubkey
    /\ ContextUntouched /\ SignatureUntouched

\* The key of another party, and of a third, is added to this one.
Combine(k1, k2) ==
    /\ HasContext /\ CanSign(ctx) /\ NoSignature /\ HasPair
    /\ ec_seckey_verify(k1) /\ ec_seckey_verify(k2)
    /\ seckey' = scalar_add(scalar_add(seckey, k1).r, k2).r
    /\ pubkey' = ec_pubkey_combine(<<ec_pubkey_create(ctx, k1).pubkey, pubkey,
                                     ec_pubkey_create(ctx, k2).pubkey>>).pubkey
    /\ ContextUntouched /\ SignatureUntouched

-----------------------------------------------------------------------------
(* The signature                                                           *)

Signed(s, msg, recoverable) ==
    /\ sig' = s.sig
    /\ made' = IF s.ret THEN [msg |-> msg, recoverable |-> recoverable] ELSE NotMade

Sign(msg, nonces) ==
    /\ HasContext /\ CanSign(ctx) /\ NoSignature /\ HasPair
    /\ Signed(ecdsa_sign_recoverable(ctx, msg, seckey, nonces), msg, TRUE)
    /\ ContextUntouched /\ KeysUntouched

SignPlain(msg, nonces) ==
    /\ HasContext /\ CanSign(ctx) /\ NoSignature /\ HasPair
    /\ Signed(ecdsa_sign(ctx, msg, seckey, nonces), msg, FALSE)
    /\ ContextUntouched /\ KeysUntouched

\* Over the wire in compact form.
Transport ==
    /\ ~NoSignature /\ made.recoverable
    /\ LET out == ecdsa_recoverable_signature_serialize_compact(sig)
       IN sig' = ecdsa_recoverable_signature_parse_compact(out.out, out.recid).sig
    /\ UNCHANGED made /\ ContextUntouched /\ KeysUntouched

Convert ==
    /\ ~NoSignature /\ made.recoverable
    /\ sig' = ecdsa_recoverable_signature_convert(sig)
    /\ made' = [made EXCEPT !.recoverable = FALSE]
    /\ ContextUntouched /\ KeysUntouched

\* The other s for the same r comes in, which some signers leave as it is.
OtherForm ==
    /\ ~NoSignature /\ ~made.recoverable
    /\ sig' = ecdsa_signature_parse_compact([r |-> sig.r, s |-> Order - sig.s]).sig
    /\ UNCHANGED made /\ ContextUntouched /\ KeysUntouched

Normalize ==
    /\ ~NoSignature /\ ~made.recoverable
    /\ sig' = ecdsa_signature_normalize(sig).sig
    /\ UNCHANGED made /\ ContextUntouched /\ KeysUntouched

Next ==
    \/ \E sign, verify \in BOOLEAN : Create(sign, verify)
    \/ Clone \/ Destroy \/ Transport \/ Convert \/ OtherForm \/ Normalize
    \/ \E seed \in Seeds \cup {NoSeed} : Randomize(seed)
    \/ \E raw \in RawKeys : CreateKey(raw)
    \/ \E input \in Encodings : ParseKey(input)
    \/ \E t \in Tweaks : TweakAdd(t) \/ TweakMul(t)
    \/ \E k1, k2 \in Tweaks : Combine(k1, k2)
    \/ \E msg \in Messages, nonces \in NonceRuns : Sign(msg, nonces) \/ SignPlain(msg, nonces)

Spec == Init /\ [][Next]_vars

-----------------------------------------------------------------------------
(* Properties                                                              *)

Stored(k) == IF k = 0 THEN ZeroPubkey ELSE [x |-> Mult[k][1], y |-> Mult[k][2]]

\* The blinding value and the point that takes it off again go together,
\* through every randomization, clone and build (ecmult_gen_impl.h): one of
\* them stale, and every public key is another one's.
BlindingRight ==
    HasContext /\ CanSign(ctx) =>
        /\ Sound(ctx.gen.initial)
        /\ RefAdd(Affine(ctx.gen.initial), Mult[ctx.gen.blind]) = Infinity

\* The two halves of a pair stay halves of one pair along every derivation
\* (ec_privkey_tweak_add and _mul, ec_pubkey_tweak_add, _mul and _combine).
KeysAgree == seckey # 0 => pubkey = Stored(seckey)

\* Where the private half of a derivation is refused and zeroed, the code of the
\* public one, which has other checks, refuses and zeroes it as well.
RefusedTogether == [][HasPair /\ seckey' = 0 => pubkey' = ZeroPubkey]_vars

\* A signature that its signer has made is accepted with its key in its low
\* form and refused in the other one, and its signer is recovered from it.  Of
\* the other messages it is refused for every one but those it is by ECDSA's
\* definition a signature of too: whose point, reckoned from the private key,
\* has an abscissa with the same remainder by the order as the signed one's.
SignatureStands ==
    ~NoSignature /\ CanVerify(ctx) =>
        LET low == ecdsa_signature_normalize(sig)
            sn == scalar_inverse(low.sig.s)
            nonce(msg) == Mult[(sn * ((msg + low.sig.r * seckey) % Order)) % Order]
        IN /\ ecdsa_verify(ctx, sig, made.msg, pubkey) = ~low.ret
           /\ ecdsa_verify(ctx, low.sig, made.msg, pubkey)
           /\ made.recoverable => ecdsa_recover(ctx, sig, made.msg) = [ret |-> TRUE, pubkey |-> pubkey]
           /\ \A msg \in Messages \ {made.msg} :
                  ecdsa_verify(ctx, low.sig, msg, pubkey)
                      = (nonce(msg) # Infinity /\ nonce(msg)[1] % Order = low.sig.r)

\* Verification compares abscissas without an inversion and without the number
\* that r was reduced from.  It accepts what the definition of ECDSA does.
VerifyExact ==
    HasContext /\ CanVerify(ctx) /\ ~CanSign(ctx) /\ pubkey # ZeroPubkey =>
        \A s \in 1..(Order \div 2), msg \in Messages :
            LET sn == scalar_inverse(s)
            IN \A r \in Scalar :
                  LET q == CHOOSE k \in Scalar : Stored(k) = pubkey
                      point == Mult[(sn * msg + ((sn * r) % Order) * q) % Order]
                  IN ecdsa_verify(ctx, [r |-> r, s |-> s], msg, pubkey)
                       = (r # 0 /\ point # Infinity /\ point[1] % Order = r)

\* What is parsed is a point of the curve in its one canonical encoding of its
\* form, and serializes to it again.
EncodingsExact ==
    HasContext /\ seckey = 0 /\ pubkey = ZeroPubkey =>
        \A input \in Encodings :
            LET q == ec_pubkey_parse(input)
                short == input.head \in {2, 3}
            IN /\ q.ret => IF input.head \in {6, 7}
                           THEN ec_pubkey_serialize(q.pubkey, FALSE).pub = [input EXCEPT !.head = 4]
                           ELSE ec_pubkey_serialize(q.pubkey, short).pub = input
               /\ q.ret = \E k \in 1..(Order - 1) :
                      /\ input.head # 5 /\ input.x = Mult[k][1]
                      /\ ~short => input.y = Mult[k][2]
                      /\ input.head \in {2, 3, 6, 7} => Mult[k][2] % 2 = input.head % 2

\* Two parties come to the same secret, each from its own private key.
SecretsAgree ==
    seckey # 0 /\ NoSignature =>
        \A k \in Tweaks \ {0}, stale \in {0, 2} :
            k < Order =>
                LET mine  == ecdh(pubkey_load(Stored(k)), seckey, <<stale, stale>>)
                    yours == ecdh(pubkey_load(pubkey), k, <<stale, stale>>)
                IN mine.ret /\ mine = yours

OwnStands(own, msg) ==
    own.ret =>
        /\ schnorr_sig_verify(ctx.mul, own, pubkey_load(pubkey), msg)
        /\ SavedUnless(FALSE, schnorr_sig_recover(ctx.mul, own, msg)) = [ret |-> TRUE, pubkey |-> pubkey]

BothStand(mine, yours, sum, msg) ==
    LET both == schnorr_sig_combine(<<mine, yours>>)
    IN mine.ret /\ yours.ret /\ both.ret = 1 /\ sum # 0 =>
           schnorr_sig_verify(ctx.mul, both.sig, pubkey_load(Stored(sum)), msg)

\* A Schnorr signature verifies, its signer is recovered from it, and what two
\* signers make of their parts verifies for the sum of their keys.
SchnorrStands ==
    HasPair /\ NoSignature /\ CanVerify(ctx) /\ CanSign(ctx) =>
        \A nonce \in {7, 8}, msg \in Messages, k \in Tweaks :
            LET other == 11
                sign(key, own, theirs) == schnorr_sig_sign(ctx.gen, key, own, theirs, msg)
            IN /\ OwnStands(sign(seckey, nonce, <<>>), msg)
               /\ BothStand(sign(seckey, nonce, <<pubkey_load(Stored(other))>>),
                            sign(k, other, <<pubkey_load(Stored(nonce))>>),
                            scalar_add(seckey, k).r, msg)
=============================================================================
