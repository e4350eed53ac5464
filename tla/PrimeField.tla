----------------------------- MODULE PrimeField -----------------------------
(***************************************************************************)
(* What the native code asks of a field element (field.h): a product, an   *)
(* inverse, and the laws that make one inversion do for many elements.     *)
(***************************************************************************)
EXTENDS Integers

CONSTANTS Field, Zero, One, Mul(_, _), Inv(_)

\* The elements that have an inverse.
Units == Field \ {Zero}

ASSUME FieldAssumption ==
    /\ Zero \in Field /\ One \in Units
    /\ \A a, b \in Units : Mul(a, b) \in Units /\ Mul(a, b) = Mul(b, a)
    /\ \A a, b, c \in Units : Mul(Mul(a, b), c) = Mul(a, Mul(b, c))
    /\ \A a \in Units : Mul(a, One) = a /\ Inv(a) \in Units /\ Mul(a, Inv(a)) = One
=============================================================================
