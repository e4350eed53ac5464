---------------------------- MODULE MC_KeyBatch ----------------------------
(***************************************************************************)
(* KeyBatch over the integers modulo 5, with batches of up to four keys of *)
(* which one is zero and one reduces to zero.                              *)
(***************************************************************************)
EXTENDS KeyBatch

P     == 5   \* the field prime
Order == 3   \* the group order

MCField     == 0..(P - 1)
MCMul(a, b) == (a * b) % P
MCInv(a)    == IF a = 0 THEN 0 ELSE CHOOSE b \in 1..(P - 1) : MCMul(a, b) = 1
MCRawKeys   == {0, 1, Order}
MCScalarOf  == [k \in MCRawKeys |-> k % Order]
MCJunk      == {0, 2}
=============================================================================
