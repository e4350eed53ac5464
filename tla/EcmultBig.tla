----------------------------- MODULE EcmultBig ------------------------------
(***************************************************************************)
(* The large multiplication table of ecmult_big_impl.h: how                *)
(* secp256k1_ecmult_big_create fills it, and how secp256k1_ecmult_big      *)
(* multiplies the generator with it, one signed digit of w bits at a time. *)
(*                                                                         *)
(* A point is the scalar it is a multiple of; in Jacobian form it has a Z  *)
(* coordinate, and the affine form got with a factor f for the inverse of  *)
(* Z is right exactly if Z * f is One.  The widths are scaled down:        *)
(* ScalarBits for the 256 bits of a scalar, IntBits for the 32 of an int,  *)
(* ShiftChunk for the 15 that secp256k1_scalar_shr_int shifts at most.     *)
(***************************************************************************)
EXTENDS PrimeField

CONSTANTS
    N,            \* the order of the group
    ScalarBits,
    IntBits,
    ShiftChunk,
    WindowSizes,  \* the values of bits that pass the ARG_CHECKs
    Ratios,       \* by what an addition or a doubling multiplies Z
    Garbage       \* what memory holds that was never written

ASSUME WidthAssumption ==
    /\ ScalarBits \in Nat \ {0}
    /\ N \in Nat /\ 2^(ScalarBits - 1) < N /\ N < 2^ScalarBits
    /\ IntBits \in Nat \ {0, 1} /\ ShiftChunk \in Nat \ {0}
    /\ WindowSizes \subseteq 2..ScalarBits
    /\ Ratios \subseteq Units /\ Ratios # {}

\* Memory that was never written can be told from a number and from a point.
ASSUME GarbageAssumption == Garbage \notin 0..(N - 1) \cup [scalar : 0..(N - 1), scale : Field]

VARIABLES
    pc,        \* "create", "row", "fill", "back", "ready", "multiply",
               \* "product", or how it went wrong: "aborted", "corrupted"
    bits, windows,
    precomp,   \* the one block of memory all rows are in
    row, i,
    base,      \* gej_window_base
    one,       \* ge_window_one
    gej_temp, z_ratio, fe_zinv,
    a,         \* the scalar to multiply by
    s,         \* what is left of it: privkey
    window,
    r          \* the sum so far

tableVars == <<bits, windows, precomp>>
buildVars == <<row, i, base, one, gej_temp, z_ratio, fe_zinv>>
multVars  == <<a, s, window, r>>
vars == <<pc, tableVars, buildVars, multVars>>

Scalars == 0..(N - 1)
Point   == [scalar : Scalars, z : Field]

-----------------------------------------------------------------------------
(* The arithmetic of the code.                                             *)

\* The C expression 1 << w.  The int 1 is shifted, so from IntBits - 1 on the
\* result is the sign bit or, as the shift instruction takes its count modulo
\* the width, a small number.
Shl(w) ==
    LET k == w % IntBits IN IF k = IntBits - 1 THEN -(2^k) ELSE 2^k

\* Mutant: the rows hold a quarter of the window.
FullRowQuarter == Shl(bits - 2)
FullRow    == Shl(bits - 1)
RowSize(k) == IF k = windows - 1 THEN Shl(ScalarBits % bits) ELSE FullRow
TotalSize  == (ScalarBits \div bits) * FullRow + Shl(ScalarBits % bits)

\* secp256k1_scalar_shr_any: the lowest n bits of v, taken off in chunks.
ShrAny(v, n) ==
    LET last     == (n - 1) \div ShiftChunk
        Width(c) == IF c < last THEN ShiftChunk ELSE n - ShiftChunk * last
        Chunk(c) == ((v \div 2^(ShiftChunk * c)) % 2^Width(c)) * 2^(ShiftChunk * c)
        taken[c \in 0..last] == (IF c = 0 THEN 0 ELSE taken[c - 1]) + Chunk(c)
    IN  taken[last]

\* secp256k1_scalar_sdigit_single: a digit above half of the window is made
\* negative, and the next window pays for it.
\* The mutant makes the half itself negative.
BorrowsAtHalf(v) == ShrAny(v, bits) >= Shl(bits - 1)
Borrows(v) == ShrAny(v, bits) > Shl(bits - 1)
SDigit(v)  == IF Borrows(v) THEN ShrAny(v, bits) - Shl(bits) ELSE ShrAny(v, bits)

\* Mutant: the borrowed digit is not given back.
RestUnbalanced(v) == v \div 2^bits
Rest(v) == (v \div 2^bits + (IF Borrows(v) THEN 1 ELSE 0)) % N

Magnitude(d) == IF d < 0 THEN -d ELSE d

\* The place of element k of row w in the memory.
Place(w, k) == w * FullRow + k

-----------------------------------------------------------------------------
Init ==
    /\ pc = "create"
    /\ bits \in WindowSizes /\ windows = 0
    /\ precomp = <<>> /\ gej_temp = <<>> /\ z_ratio = <<>>
    /\ row = 0 /\ i = 0
    /\ base = [scalar |-> 1, z |-> One] /\ one = 1 /\ fe_zinv = One
    /\ a = 0 /\ s = 0 /\ window = 0 /\ r = 0

\* The memory is allocated up front, or checked_malloc aborts: a negative int
\* is a huge size_t.
Create ==
    /\ pc = "create"
    /\ windows' = ScalarBits \div bits + 1
    /\ IF FullRow < 0 \/ TotalSize < 0
       THEN pc' = "aborted" /\ UNCHANGED <<precomp, gej_temp, z_ratio>>
       ELSE /\ pc' = "row"
            /\ precomp'  = [k \in 0..(TotalSize - 1) |-> Garbage]
            /\ gej_temp' = [k \in 0..(FullRow - 1) |-> [scalar |-> 0, z |-> Zero]]
            /\ z_ratio'  = [k \in 0..(FullRow - 1) |-> Zero]
    /\ UNCHANGED <<bits, row, i, base, one, fe_zinv, multVars>>

\* Mutant: the base of every row is doubled from the generator.
StartRowFromOne ==
    /\ pc = "row" /\ row < windows
    /\ \E q \in Ratios :
         base' = IF row = 0 THEN base
                 ELSE [scalar |-> 2^bits % N, z |-> Mul(base.z, q)]
    /\ gej_temp' = [gej_temp EXCEPT ![0] = base']
    /\ one' = base'.scalar
    /\ i' = 1 /\ pc' = "fill"
    /\ UNCHANGED <<tableVars, row, z_ratio, fe_zinv, multVars>>

\* The base of a row is that of the row before doubled bits times.
StartRow ==
    /\ pc = "row" /\ row < windows
    /\ \E q \in Ratios :
         base' = IF row = 0 THEN base
                 ELSE [scalar |-> (base.scalar * 2^bits) % N, z |-> Mul(base.z, q)]
    /\ gej_temp' = [gej_temp EXCEPT ![0] = base']
    /\ one' = base'.scalar
    /\ i' = 1 /\ pc' = "fill"
    /\ UNCHANGED <<tableVars, row, z_ratio, fe_zinv, multVars>>

\* A negative size of a row is a huge size_t.
InRow(k) == RowSize(row) < 0 \/ k < RowSize(row)

\* Element i is "one" more than element i - 1.  The last row can be longer
\* than gej_temp if the sizes were wrong.
FillRow ==
    /\ pc = "fill" /\ InRow(i)
    /\ IF i \notin DOMAIN gej_temp
       THEN pc' = "corrupted" /\ UNCHANGED <<gej_temp, z_ratio, i>>
       ELSE /\ \E q \in Ratios :
                 /\ gej_temp' = [gej_temp EXCEPT ![i] =
                        [scalar |-> (gej_temp[i - 1].scalar + one) % N,
                         z |-> Mul(gej_temp[i - 1].z, q)]]
                 /\ z_ratio' = [z_ratio EXCEPT ![i] = q]
            /\ i' = i + 1
            /\ UNCHANGED pc
    /\ UNCHANGED <<tableVars, row, base, one, fe_zinv, multVars>>

\* Element k of the row goes to the table, made affine with zinv.
Store(k, zinv) ==
    precomp' = [precomp EXCEPT ![Place(row, k)] =
                   [scalar |-> gej_temp[k].scalar, scale |-> Mul(gej_temp[k].z, zinv)]]

\* Only the last Z of a row is inverted.
InvertLast ==
    /\ pc = "fill" /\ ~InRow(i)
    /\ i' = RowSize(row) - 1
    /\ fe_zinv' = Inv(gej_temp[i'].z)
    /\ Store(i', fe_zinv')
    /\ pc' = "back"
    /\ UNCHANGED <<bits, windows, row, base, one, gej_temp, z_ratio, multVars>>

\* Mutant: the ratio of the element below.
StoreBackBelow ==
    /\ pc = "back" /\ i > 0
    /\ fe_zinv' = Mul(fe_zinv, z_ratio[i - 1])
    /\ Store(i - 1, fe_zinv')
    /\ i' = i - 1
    /\ UNCHANGED <<pc, bits, windows, row, base, one, gej_temp, z_ratio, multVars>>

\* From the inverse of one Z to that of the element below.
StoreBack ==
    /\ pc = "back" /\ i > 0
    /\ fe_zinv' = Mul(fe_zinv, z_ratio[i])
    /\ Store(i - 1, fe_zinv')
    /\ i' = i - 1
    /\ UNCHANGED <<pc, bits, windows, row, base, one, gej_temp, z_ratio, multVars>>

RowDone ==
    /\ pc = "back" /\ i = 0
    /\ row' = row + 1 /\ pc' = "row"
    /\ UNCHANGED <<tableVars, i, base, one, gej_temp, z_ratio, fe_zinv, multVars>>

\* The temporary memory is freed.
Created ==
    /\ pc = "row" /\ row = windows
    /\ pc' = "ready"
    /\ gej_temp' = <<>> /\ z_ratio' = <<>>
    /\ base' = [scalar |-> 1, z |-> One] /\ one' = 1 /\ fe_zinv' = One
    /\ UNCHANGED <<tableVars, row, i, multVars>>

Multiply ==
    /\ pc \in {"ready", "product"}
    /\ \E v \in Scalars : a' = v /\ s' = v
    /\ window' = 0 /\ r' = 0
    /\ pc' = "multiply"
    /\ UNCHANGED <<tableVars, buildVars>>

\* One window.  A place outside the memory, or not written, holds anything.
AddWindow ==
    /\ pc = "multiply" /\ window < windows /\ s # 0
    /\ LET d == SDigit(s)
           k == Place(window, Magnitude(d) - 1)
           e == IF k \in DOMAIN precomp THEN precomp[k] ELSE Garbage
       IN  r' = IF d = 0 THEN r
                ELSE IF Garbage \in {e, r} THEN Garbage
                ELSE IF e.scale # One THEN Garbage
                ELSE (r + (IF d < 0 THEN N - e.scalar ELSE e.scalar)) % N
    /\ s' = Rest(s)
    /\ window' = window + 1
    /\ UNCHANGED <<pc, tableVars, buildVars, a>>

Multiplied ==
    /\ pc = "multiply" /\ (window = windows \/ s = 0)
    /\ pc' = "product"
    /\ UNCHANGED <<tableVars, buildVars, multVars>>

WentWrong == pc \in {"aborted", "corrupted"} /\ UNCHANGED vars

Next ==
    \/ Create \/ StartRow \/ FillRow \/ InvertLast \/ StoreBack \/ RowDone \/ Created
    \/ Multiply \/ AddWindow \/ Multiplied
    \/ WentWrong

Spec == Init /\ [][Next]_vars

-----------------------------------------------------------------------------
(* Properties.                                                             *)

\* The window sizes for which 1 << bits is a positive int, 4 to 30 of the code.
Fits == bits <= IntBits - 2

Entries == [scalar : Scalars, scale : Field] \cup {Garbage}

\* The variables keep their types, and for a window size that fits the build
\* neither aborts nor writes outside its memory.
TypeOK ==
    /\ pc \in {"create", "row", "fill", "back", "ready", "multiply", "product"}
              \cup (IF Fits THEN {} ELSE {"aborted", "corrupted"})
    /\ bits \in WindowSizes
    /\ Fits /\ pc # "create" => DOMAIN precomp = 0..(TotalSize - 1)
    /\ \A k \in DOMAIN precomp : precomp[k] \in Entries
    /\ \A k \in DOMAIN gej_temp : gej_temp[k] \in Point /\ z_ratio[k] \in Field
    /\ row \in 0..windows /\ window \in 0..windows
    /\ a \in Scalars /\ s \in Scalars /\ r \in Scalars \cup {Garbage}

\* The rows fill the memory exactly, without a hole and without overlap, and
\* element k of row w is the affine point (k + 1) * 2^(bits * w) * G.
TableRight ==
    Fits /\ pc \in {"ready", "multiply", "product"} =>
        /\ DOMAIN precomp = UNION {{Place(w, k) : k \in 0..(RowSize(w) - 1)} : w \in 0..(windows - 1)}
        /\ \A w \in 0..(windows - 1) : \A k \in 0..(RowSize(w) - 1) :
             precomp[Place(w, k)] = [scalar |-> ((k + 1) * 2^(bits * w)) % N, scale |-> One]

\* The digit of a window is never beyond the end of its row, not even in the
\* last one, which is shorter, and what the windows still to come make up for
\* is exactly what is left of the scalar: r + s * 2^(bits * window) = a.
DigitsBalance ==
    Fits /\ pc = "multiply" =>
        /\ (r + s * 2^(bits * window)) % N = a
        /\ window < windows => Magnitude(SDigit(s)) <= RowSize(window)

\* The product is the scalar times the generator, and nothing of the scalar is
\* left over when the windows are used up (the VERIFY_CHECK at the end).
ProductRight == Fits /\ pc = "product" => r = a /\ s = 0

\* README.md of the library: any window size between 4 and 62 bits.
AnyWindowSize == pc = "product" => r = a
=============================================================================
