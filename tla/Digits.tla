-------------------------------- MODULE Digits --------------------------------
(***************************************************************************)
(* Numbers of any size, and what they are modulo a prime just below a      *)
(* power of two: what the limbs of module FieldLimbs are compared with.    *)
(*                                                                         *)
(* A number is the sequence of its digits to the base 2^Digit, the lowest  *)
(* first, and the prime is 2^(Digit * Count) - Below.                      *)
(***************************************************************************)
EXTENDS Integers, Sequences

CONSTANTS Digit, Count, Below      \* Below is a sequence of digits

Base == 2^Digit
At(a, i) == IF i <= Len(a) THEN a[i] ELSE 0

\* The digits of a sum of non-negative multiples of powers of the base.
Settled(a) ==
    LET d[i \in 0..(Len(a) + 3)] ==
            IF i = 0 THEN [rest |-> 0, out |-> <<>>]
            ELSE LET before == d[i - 1]
                     here == before.rest + At(a, i)
                 IN [rest |-> here \div Base, out |-> Append(before.out, here % Base)]
    IN d[Len(a) + 3].out

Plus(a, b) == Settled([i \in 1..(IF Len(a) > Len(b) THEN Len(a) ELSE Len(b)) |-> At(a, i) + At(b, i)])

Times(a, b) ==
    LET column(k) == LET sum[i \in 0..k] == IF i = 0 THEN 0 ELSE sum[i - 1] + At(a, i) * At(b, k + 1 - i)
                     IN sum[k]
    IN Settled([k \in 1..(Len(a) + Len(b)) |-> column(k)])

\* The number of limbs of the given width, numbered from 0.
OfLimbs(n, count, width) ==
    LET digit(k) == LET sum[i \in 0..count] ==
                            IF i = 0 THEN 0
                            ELSE sum[i - 1] + (IF (width * (i - 1)) \div Digit = k - 1
                                               THEN n[i - 1] * 2^((width * (i - 1)) % Digit) ELSE 0)
                    IN sum[count]
    IN Settled([k \in 1..((width * count) \div Digit + 1) |-> digit(k)])

Low(a)  == [i \in 1..Count |-> At(a, i)]
High(a) == [i \in 1..(IF Len(a) > Count THEN Len(a) - Count ELSE 0) |-> a[i + Count]]
IsZero(a) == \A i \in DOMAIN a : a[i] = 0

\* The remainder: the power of two is worth Below.  A number below the power is
\* the prime or above it when adding Below reaches the power.
RECURSIVE Mod(_)
Mod(a) ==
    IF ~IsZero(High(a)) THEN Mod(Plus(Low(a), Times(High(a), Below)))
    ELSE LET up == Plus(Low(a), Below)
         IN IF IsZero(High(up)) THEN Low(a) ELSE Low(up)

Equal(a, b) == Mod(a) = Mod(b)
=============================================================================
