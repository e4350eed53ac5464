---------------------------- MODULE MC_EcmultBig ----------------------------
(***************************************************************************)
(* EcmultBig with scalars of 9 bits, an int of 6, and the field of 5       *)
(* elements.                                                               *)
(***************************************************************************)
EXTENDS EcmultBig

P == 5   \* the field prime

MCField     == 0..(P - 1)
MCMul(x, y) == (x * y) % P
MCInv(x)    == IF x = 0 THEN 0 ELSE CHOOSE y \in 1..(P - 1) : MCMul(x, y) = 1
=============================================================================
