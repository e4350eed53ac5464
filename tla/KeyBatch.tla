------------------------------ MODULE KeyBatch ------------------------------
(***************************************************************************)
(* secp256k1_ec_pubkey_create_serialized_batch: the public keys of a batch *)
(* of private keys, with one field inversion for all of them               *)
(* (secp256k1_fe_inv_all_var).                                             *)
(*                                                                         *)
(* A Jacobian point is the scalar it is a multiple of, its Z coordinate    *)
(* and its infinity flag; with a factor f for the inverse of Z, the affine *)
(* point is right exactly if Z * f is One, so a serialized key is the      *)
(* scalar and that product.  The scratch memory comes from malloc and      *)
(* holds anything.                                                         *)
(***************************************************************************)
EXTENDS PrimeField, FiniteSets

CONSTANTS
    RawKeys,      \* the 32-byte private keys
    ScalarOf,     \* what secp256k1_scalar_set_b32 reduces them to
    ZeroScalar,
    MaxCount,     \* the largest batch
    Junk,         \* the field elements freed memory may hold
    Blank         \* the zero bytes of a key that was not created

Scalars == {ScalarOf[k] : k \in RawKeys}
Counts  == 1..MaxCount

ASSUME KeyAssumption ==
    /\ MaxCount \in Nat \ {0}
    /\ ScalarOf = [k \in RawKeys |-> ScalarOf[k]]
    /\ RawKeys # {} /\ Junk # {}
    /\ Junk \subseteq Field
    /\ Blank \notin [scalar : Scalars, scale : Field]

VARIABLES
    pc,        \* "convert", "prefix", "unwind", "affine", "done"
    keys,      \* the private keys of the call
    count,     \* key_count
    gej,       \* scr->gej
    fe_in,     \* scr->fe_in
    fe_out,    \* scr->fe_out
    i,         \* the index of the running loop
    len,       \* the length given to secp256k1_fe_inv_all_var
    u,         \* its accumulator
    out_keys,
    pubkeys

scratchVars == <<gej, fe_in, fe_out>>
vars == <<pc, keys, count, scratchVars, i, len, u, out_keys, pubkeys>>

Slots == 0..(count - 1)

-----------------------------------------------------------------------------
\* The caller's output is blanked first.
Init ==
    /\ pc = "convert"
    /\ count \in Counts
    /\ keys \in [Slots -> RawKeys]
    /\ \E infinity \in BOOLEAN, junk \in Junk, s \in Scalars :
         /\ gej    = [k \in Slots |-> [infinity |-> infinity, scalar |-> s, z |-> junk]]
         /\ fe_in  = [k \in Slots |-> junk]
         /\ fe_out = [k \in Slots |-> junk]
         /\ u = junk
    /\ i = 0 /\ len = 0 /\ out_keys = 0
    /\ pubkeys = [k \in Slots |-> Blank]

\* Mutants of the first loop: Z is saved beside its key, a zero key is skipped
\* without a mark.
ConvertUnpacked ==
    /\ pc = "convert" /\ i < count
    /\ IF ScalarOf[keys[i]] = ZeroScalar
       THEN /\ gej' = [gej EXCEPT ![i].infinity = TRUE]
            /\ UNCHANGED <<fe_in, out_keys>>
       ELSE \E z \in Units :
            /\ gej' = [gej EXCEPT ![i] =
                          [infinity |-> FALSE, scalar |-> ScalarOf[keys[i]], z |-> z]]
            /\ fe_in' = [fe_in EXCEPT ![i] = z]
            /\ out_keys' = out_keys + 1
    /\ i' = i + 1
    /\ UNCHANGED <<pc, keys, count, fe_out, len, u, pubkeys>>

ConvertUnmarked ==
    /\ pc = "convert" /\ i < count
    /\ IF ScalarOf[keys[i]] = ZeroScalar
       THEN UNCHANGED <<gej, fe_in, out_keys>>
       ELSE \E z \in Units :
            /\ gej' = [gej EXCEPT ![i] =
                          [infinity |-> FALSE, scalar |-> ScalarOf[keys[i]], z |-> z]]
            /\ fe_in' = [fe_in EXCEPT ![out_keys] = z]
            /\ out_keys' = out_keys + 1
    /\ i' = i + 1
    /\ UNCHANGED <<pc, keys, count, fe_out, len, u, pubkeys>>

\* The first loop.  The multiplication gives a finite point with some Z for
\* any scalar but zero; the Z of the points are packed, those without are
\* marked.
Convert ==
    /\ pc = "convert" /\ i < count
    /\ IF ScalarOf[keys[i]] = ZeroScalar
       THEN /\ gej' = [gej EXCEPT ![i].infinity = TRUE]
            /\ UNCHANGED <<fe_in, out_keys>>
       ELSE \E z \in Units :
            /\ gej' = [gej EXCEPT ![i] =
                          [infinity |-> FALSE, scalar |-> ScalarOf[keys[i]], z |-> z]]
            /\ fe_in' = [fe_in EXCEPT ![out_keys] = z]
            /\ out_keys' = out_keys + 1
    /\ i' = i + 1
    /\ UNCHANGED <<pc, keys, count, fe_out, len, u, pubkeys>>

\* Mutants of the call: an element too many is inverted, or all of the scratch.
ConvertedOneMore ==
    /\ pc = "convert" /\ i = count
    /\ IF out_keys > 0
       THEN /\ pc' = "prefix" /\ i' = 1 /\ len' = out_keys + 1
            /\ fe_out' = [fe_out EXCEPT ![0] = fe_in[0]]
       ELSE /\ pc' = "affine" /\ i' = 0
            /\ UNCHANGED <<len, fe_out>>
    /\ out_keys' = 0
    /\ UNCHANGED <<keys, count, gej, fe_in, u, pubkeys>>

ConvertedWhole ==
    /\ pc = "convert" /\ i = count
    /\ IF out_keys > 0
       THEN /\ pc' = "prefix" /\ i' = 1 /\ len' = count
            /\ fe_out' = [fe_out EXCEPT ![0] = fe_in[0]]
       ELSE /\ pc' = "affine" /\ i' = 0
            /\ UNCHANGED <<len, fe_out>>
    /\ out_keys' = 0
    /\ UNCHANGED <<keys, count, gej, fe_in, u, pubkeys>>

\* secp256k1_fe_inv_all_var is called if there is something to invert.
Converted ==
    /\ pc = "convert" /\ i = count
    /\ IF out_keys > 0
       THEN /\ pc' = "prefix" /\ i' = 1 /\ len' = out_keys
            /\ fe_out' = [fe_out EXCEPT ![0] = fe_in[0]]
       ELSE /\ pc' = "affine" /\ i' = 0
            /\ UNCHANGED <<len, fe_out>>
    /\ out_keys' = 0
    /\ UNCHANGED <<keys, count, gej, fe_in, u, pubkeys>>

Prefix ==
    /\ pc = "prefix" /\ i < len
    /\ fe_out' = [fe_out EXCEPT ![i] = Mul(fe_out[i - 1], fe_in[i])]
    /\ i' = i + 1
    /\ UNCHANGED <<pc, keys, count, gej, fe_in, len, u, out_keys, pubkeys>>

\* The one inversion, of the product of all.
Invert ==
    /\ pc = "prefix" /\ i = len
    /\ pc' = "unwind" /\ i' = i - 1
    /\ u' = Inv(fe_out[i - 1])
    /\ UNCHANGED <<keys, count, scratchVars, len, out_keys, pubkeys>>

\* Mutant: u is not divided by the element left behind.
UnwindSameU ==
    /\ pc = "unwind" /\ i > 0
    /\ fe_out' = [fe_out EXCEPT ![i] = Mul(fe_out[i - 1], u)]
    /\ i' = i - 1
    /\ UNCHANGED <<pc, keys, count, gej, fe_in, len, u, out_keys, pubkeys>>

Unwind ==
    /\ pc = "unwind" /\ i > 0
    /\ fe_out' = [fe_out EXCEPT ![i] = Mul(fe_out[i - 1], u)]
    /\ u' = Mul(u, fe_in[i])
    /\ i' = i - 1
    /\ UNCHANGED <<pc, keys, count, gej, fe_in, len, out_keys, pubkeys>>

Inverted ==
    /\ pc = "unwind" /\ i = 0
    /\ pc' = "affine"
    /\ fe_out' = [fe_out EXCEPT ![0] = u]
    /\ UNCHANGED <<keys, count, gej, fe_in, i, len, u, out_keys, pubkeys>>

\* The second loop: the next inverse for the next finite point.
Serialize ==
    /\ pc = "affine" /\ i < count
    /\ IF gej[i].infinity
       THEN UNCHANGED <<pubkeys, out_keys>>
       ELSE /\ pubkeys' = [pubkeys EXCEPT ![i] =
                              [scalar |-> gej[i].scalar, scale |-> Mul(gej[i].z, fe_out[out_keys])]]
            /\ out_keys' = out_keys + 1
    /\ i' = i + 1
    /\ UNCHANGED <<pc, keys, count, scratchVars, len, u>>

\* out_keys is the return value.
Return ==
    /\ pc = "affine" /\ i = count
    /\ pc' = "done"
    /\ UNCHANGED <<keys, count, scratchVars, i, len, u, out_keys, pubkeys>>

Returned == pc = "done" /\ UNCHANGED vars

Next == \/ Convert \/ Converted \/ Prefix \/ Invert \/ Unwind \/ Inverted
        \/ Serialize \/ Return \/ Returned

Spec == Init /\ [][Next]_vars

-----------------------------------------------------------------------------
(* Properties.                                                             *)

Valid(k)    == ScalarOf[keys[k]] # ZeroScalar
\* The correct output for the key at k.
Expected(k) == IF Valid(k) THEN [scalar |-> ScalarOf[keys[k]], scale |-> One] ELSE Blank

\* The scratch holds field elements and every index is within it.
TypeOK ==
    /\ pc \in {"convert", "prefix", "unwind", "affine", "done"}
    /\ count \in Counts /\ keys \in [Slots -> RawKeys]
    /\ gej \in [Slots -> [infinity : BOOLEAN, scalar : Scalars, z : Field]]
    /\ fe_in \in [Slots -> Field] /\ fe_out \in [Slots -> Field]
    /\ i \in 0..count /\ len \in 0..count /\ out_keys \in 0..count
    /\ u \in Field
    /\ pubkeys \in [Slots -> [scalar : Scalars, scale : Field] \cup {Blank}]

\* secp256k1_fe_inv_all_var leaves the inverse of each element, whatever the
\* elements and whatever the scratch held before: what freed memory holds
\* beyond the packed elements, a zero included, never enters the product.
AllInverted ==
    pc \in {"affine", "done"} => \A j \in 0..(len - 1) : Mul(fe_in[j], fe_out[j]) = One

\* On return every private key that is not zero (after reduction) has its own
\* public key, though zero keys leave gaps between the keys and not between
\* the packed inverses; every zero key is blank; and the return value counts
\* the former.
BatchRight == pc = "done" =>
    /\ \A k \in Slots : pubkeys[k] = Expected(k)
    /\ out_keys = Cardinality({k \in Slots : Valid(k)})
=============================================================================
