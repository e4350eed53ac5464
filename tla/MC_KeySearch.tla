---------------------------- MODULE MC_KeySearch ----------------------------
(***************************************************************************)
(* KeySearch on small instances: two workers, one key with two addresses   *)
(* of which one is funded, and one key without.                            *)
(***************************************************************************)
EXTENDS KeySearch, TLC

CONSTANTS w1, w2, hit, miss, rich, poor

MCKeys        == {hit, miss}
MCAddresses   == {rich, poor}
MCFunded      == {rich}
MCAddressesOf == (hit :> {rich, poor}) @@ (miss :> {poor})

\* The workers are interchangeable for the safety properties.
WorkerSymmetry == Permutations(Workers)
=============================================================================
