----------------------------- MODULE AdditionChain -----------------------------
(***************************************************************************)
(* The powers that fe_sqrt_var, fe_inv and scalar_inverse raise a number   *)
(* to.  Each is a list of steps over named registers, and a register is    *)
(* modelled by the exponent of the power that it holds: a squaring doubles *)
(* it, a product adds.  An exponent is the sequence of its bits, the       *)
(* lowest first; the numbers are those of the program.                     *)
(***************************************************************************)
EXTENDS Integers, Sequences

Binary == INSTANCE Digits WITH Digit <- 1, Count <- 256, Below <- <<>>

-----------------------------------------------------------------------------
(* A step <<r, a, n, b>> squares a n times, multiplies the result by b and *)
(* leaves it in r; there is no product when b is None.                     *)

None == "none"

\* Both functions of field_impl.h start with this.
FieldBlocks ==
    << <<"x2", "x", 1, "x">>, <<"x3", "x2", 1, "x">>, <<"x6", "x3", 3, "x3">>,
       <<"x9", "x6", 3, "x3">>, <<"x11", "x9", 2, "x2">>, <<"x22", "x11", 11, "x11">>,
       <<"x44", "x22", 22, "x22">>, <<"x88", "x44", 44, "x44">>,
       <<"x176", "x88", 88, "x88">>, <<"x220", "x176", 44, "x44">>,
       <<"x223", "x220", 3, "x3">>, <<"t", "x223", 23, "x22">> >>

fe_sqrt_var == FieldBlocks \o << <<"t", "t", 6, "x2">>, <<"t", "t", 2, None>> >>

fe_inv == FieldBlocks \o << <<"t", "t", 5, "x">>, <<"t", "t", 3, "x2">>, <<"t", "t", 2, "x">> >>

ScalarBlocks ==
    << <<"x2", "x", 1, "x">>, <<"x3", "x2", 1, "x">>, <<"x4", "x3", 1, "x">>,
       <<"x6", "x4", 2, "x2">>, <<"x7", "x6", 1, "x">>, <<"x8", "x7", 1, "x">>,
       <<"x15", "x8", 7, "x7">>, <<"x30", "x15", 15, "x15">>, <<"x60", "x30", 30, "x30">>,
       <<"x120", "x60", 60, "x60">>, <<"x127", "x120", 7, "x7">>, <<"t", "x127", 0, None>> >>

\* The rest of the exponent, from the top: how far to shift, and what to add.
ScalarWindows ==
    << <<2, "x">>, <<4, "x3">>, <<2, "x">>, <<2, "x">>, <<2, "x">>, <<4, "x3">>, <<3, "x2">>,
       <<4, "x3">>, <<5, "x3">>, <<4, "x2">>, <<2, "x">>, <<2, "x">>, <<5, "x4">>, <<2, "x">>,
       <<3, "x">>, <<4, "x">>, <<2, "x">>, <<10, "x3">>, <<4, "x3">>, <<9, "x8">>, <<2, "x">>,
       <<3, "x">>, <<3, "x">>, <<5, "x4">>, <<2, "x">>, <<5, "x2">>, <<4, "x2">>, <<2, "x">>,
       <<8, "x2">>, <<3, "x2">>, <<3, "x">>, <<6, "x">>, <<8, "x6">> >>

scalar_inverse ==
    ScalarBlocks \o [k \in DOMAIN ScalarWindows |-> <<"t", "t", ScalarWindows[k][1], ScalarWindows[k][2]>>]

Steps == [fe_sqrt_var |-> fe_sqrt_var, fe_inv |-> fe_inv, scalar_inverse |-> scalar_inverse]

\* Mutant: the squaring before the loop is counted by the loop as well.
Squared_short(e, n) == [i \in 1..(IF n > 6 THEN n - 1 ELSE n) |-> 0] \o e

Squared(e, n) == [i \in 1..n |-> 0] \o e
Product(a, b) == Binary!Plus(a, b)

Started(chain) == [chain |-> chain, done |-> 0, reg |-> [x |-> <<1>>]]
Finished(c) == c.done = Len(Steps[c.chain])

Stepped(c) ==
    LET s == Steps[c.chain][c.done + 1]
        power == Squared(c.reg[s[2]], s[3])
        value == IF s[4] = None THEN power ELSE Product(power, c.reg[s[4]])
    IN [c EXCEPT !.done = @ + 1,
                 !.reg = [n \in DOMAIN @ \cup {s[1]} |-> IF n = s[1] THEN value ELSE @[n]]]

-----------------------------------------------------------------------------
(* What the exponents have to be.                                          *)

Same(a, b) == \A i \in 1..(Len(a) + Len(b)) : Binary!At(a, i) = Binary!At(b, i)

OfWords(w) == [i \in 1..(16 * Len(w)) |-> (w[(i - 1) \div 16 + 1] \div 2^((i - 1) % 16)) % 2]
Prime == OfWords(<<64559, 65535, 65534>> \o [k \in 1..13 |-> 65535])
Order == OfWords(<<16705, 53302, 24204, 49106, 41019, 44872, 56550, 47790,
                   65534, 65535, 65535, 65535, 65535, 65535, 65535, 65535>>)

Goal(chain, e) ==
    CASE chain = "fe_sqrt_var"    -> Same(Squared(e, 2), Binary!Plus(Prime, <<1>>))
      [] chain = "fe_inv"         -> Same(Binary!Plus(e, <<0, 1>>), Prime)
      [] chain = "scalar_inverse" -> Same(Binary!Plus(e, <<0, 1>>), Order)

\* x2, x3, ... are the powers with the exponents 2^2 - 1, 2^3 - 1, ...
Block == [x |-> 1, x2 |-> 2, x3 |-> 3, x4 |-> 4, x6 |-> 6, x7 |-> 7, x8 |-> 8, x9 |-> 9, x11 |-> 11,
          x15 |-> 15, x22 |-> 22, x30 |-> 30, x44 |-> 44, x60 |-> 60, x88 |-> 88, x120 |-> 120,
          x127 |-> 127, x176 |-> 176, x220 |-> 220, x223 |-> 223]
BlockRight(name, e) == Same(e, [i \in 1..Block[name] |-> 1])
=============================================================================
