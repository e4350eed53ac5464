-------------------------- MODULE EcmultBigProofs ---------------------------
(***************************************************************************)
(* The large multiplication table is right for every order of the group,   *)
(* every width of scalar and int, every chunk of the shift and every       *)
(* window size that fits an int: proofs about EcmultBig.                   *)
(***************************************************************************)
EXTENDS EcmultBig, NumberLemmas

-----------------------------------------------------------------------------
(* The inductive invariant.                                                *)

\* What one is worth in window w.
Weight(w) == 2^(bits * w)

Building == pc \in {"row", "fill", "back"}
Usable   == pc \in {"ready", "multiply", "product"}

\* The types, and what the memory of the build looks like.
TypeInv ==
    /\ Building \/ Usable \/ pc \in {"create", "aborted", "corrupted"}
    /\ bits \in WindowSizes
    /\ windows = IF pc = "create" THEN 0 ELSE ScalarBits \div bits + 1
    /\ row \in 0..windows /\ window \in 0..windows
    /\ base \in [scalar : Scalars, z : Units] /\ one \in Scalars /\ fe_zinv \in Units
    /\ a \in Scalars /\ s \in Scalars /\ r \in Scalars \cup {Garbage}
    /\ \A k \in DOMAIN precomp : precomp[k] \in Entries
    /\ IF Building \/ pc = "corrupted"
       THEN /\ FullRow >= 1
            /\ gej_temp \in [0..(FullRow - 1) -> Point]
            /\ z_ratio \in [0..(FullRow - 1) -> Field]
       ELSE gej_temp = <<>> /\ z_ratio = <<>>

\* The place of the loops: pc and row go together, and for a window size that
\* fits nothing goes wrong.
ControlInv ==
    /\ pc \in {"fill", "back"} => row < windows
    /\ Usable => row = windows
    /\ Fits => pc \notin {"aborted", "corrupted"}
    /\ Fits /\ pc = "fill" => i <= RowSize(row)
    /\ Fits /\ pc # "create" => DOMAIN precomp = 0..(TotalSize - 1)

\* The last element of the row that is filled.
Top == IF pc = "fill" THEN i - 1 ELSE RowSize(row) - 1

\* Element k of the temporary memory is k + 1 times the base, and its Z is that
\* of the element before times the ratio kept.
Chained(k) ==
    /\ gej_temp[k].scalar = ((k + 1) * one) % N
    /\ gej_temp[k].z \in Units
    /\ k > 0 => /\ z_ratio[k] \in Units
                /\ gej_temp[k].z = Mul(gej_temp[k - 1].z, z_ratio[k])

RowInv ==
    pc \in {"fill", "back"} =>
        /\ Top \in 0..(FullRow - 1)
        /\ \A k \in 0..Top : Chained(k)
        /\ one = Weight(row) % N
        /\ pc = "fill" => i \in 1..FullRow
        /\ pc = "back" => i \in 0..Top /\ Mul(gej_temp[i].z, fe_zinv) = One

\* The base is that of the row, or of the row before until the next one starts.
BaseInv ==
    Building \/ pc = "create" =>
        base.scalar = Weight(IF pc = "row" /\ row > 0 THEN row - 1 ELSE row) % N

EntryRight(w, k) ==
    precomp[Place(w, k)] = [scalar |-> ((k + 1) * Weight(w)) % N, scale |-> One]

\* The rows done are stored, and of this one the elements from i on.
Stored(w, k) ==
    \/ w < row /\ k < RowSize(w)
    \/ pc = "back" /\ w = row /\ k \in i..Top

StoredInv ==
    Fits /\ pc # "create" =>
        \A w \in 0..(windows - 1), k \in 0..(FullRow - 1) : Stored(w, k) => EntryRight(w, k)

\* What is left of the scalar is worth what is missing of the sum, and it is
\* short enough for the windows still to come.
MultiplyInv ==
    Fits /\ pc \in {"multiply", "product"} =>
        /\ r \in Scalars
        /\ (r + s * Weight(window)) % N = a
        /\ window < windows => s <= 2^(ScalarBits - bits * window)
        /\ window = windows => s = 0
        /\ pc = "product" => s = 0

IInv ==
    TypeInv /\ ControlInv /\ RowInv /\ BaseInv /\ StoredInv /\ MultiplyInv

-----------------------------------------------------------------------------
(* The arithmetic of the code.                                             *)

\* The numbers the model is built from, and the order between them.
LEMMA Widths ==
    ASSUME NEW b \in WindowSizes
    PROVE  /\ b \in Nat /\ b >= 2 /\ b <= ScalarBits
           /\ ScalarBits \in Nat /\ N \in Nat /\ N >= 2 /\ N < 2^ScalarBits
           /\ 2^b \in Nat /\ 2^b >= 4
<1>1. ScalarBits - 1 \in Nat
  BY WidthAssumption
<1>2. 2^(ScalarBits - 1) \in Nat /\ 2^(ScalarBits - 1) >= 1
  BY <1>1, PowerPositive
<1>3. b \in Nat /\ b >= 2 /\ b <= ScalarBits /\ ScalarBits \in Nat
  BY WidthAssumption
<1>4. 2^2 <= 2^b /\ 2^b \in Nat
  BY <1>3, PowerMonotone, PowerPositive
<1> QED
  BY <1>2, <1>3, <1>4, WidthAssumption

\* A shift of the int 1 never gives zero, and below the sign bit it is exact.
LEMMA ShlRange ==
    ASSUME NEW w \in Nat
    PROVE  /\ Shl(w) \in Int /\ Shl(w) # 0
           /\ w <= IntBits - 2 => Shl(w) = 2^w
<1> DEFINE k == w % IntBits
<1>1. IntBits \in Nat /\ IntBits >= 2
  BY WidthAssumption
<1>2. k \in 0..(IntBits - 1) /\ k \in Nat
  BY <1>1, Division
<1>3. 2^k \in Nat /\ 2^k >= 1
  BY <1>2, PowerPositive
<1>4. w <= IntBits - 2 => k = w
  BY <1>1, ModSmall
<1>5. Shl(w) = IF k = IntBits - 1 THEN -(2^k) ELSE 2^k
  BY DEF Shl
<1> HIDE DEF k
<1> QED
  BY <1>1, <1>2, <1>3, <1>4, <1>5

\* The chunks of shr_any put together are the lowest n bits.
LEMMA ShrExact ==
    ASSUME NEW v \in Nat, NEW n \in Nat \ {0}
    PROVE  ShrAny(v, n) = v % 2^n
<1> DEFINE last     == (n - 1) \div ShiftChunk
           Width(c) == IF c < last THEN ShiftChunk ELSE n - ShiftChunk * last
           Chunk(c) == ((v \div 2^(ShiftChunk * c)) % 2^Width(c)) * 2^(ShiftChunk * c)
           Sums(f)  == f = [c \in 0..last |-> (IF c = 0 THEN 0 ELSE f[c - 1]) + Chunk(c)]
           taken    == CHOOSE f : Sums(f)
<1>1. ShiftChunk \in Nat /\ ShiftChunk >= 1
  BY WidthAssumption
<1>2. last \in Nat /\ ShiftChunk * last <= n - 1 /\ n - 1 < ShiftChunk * last + ShiftChunk
  <2>1. n - 1 \in Nat
    OBVIOUS
  <2> DEFINE e == (n - 1) % ShiftChunk
  <2>2. last \in Int /\ e \in 0..(ShiftChunk - 1) /\ n - 1 = ShiftChunk * last + e
    BY <1>1, <2>1, Division
  <2> HIDE DEF last, e
  <2>3. last >= 0
    <3>1. last <= -1 => ShiftChunk * last <= -ShiftChunk
      BY <1>1, <2>2, MultipleGap
    <3> QED
      BY <1>1, <2>1, <2>2, <3>1
  <2> QED
    BY <1>1, <2>2, <2>3
<1>3. ShrAny(v, n) = taken[last]
  BY DEF ShrAny
<1>4. Sums(taken)
  <2> DEFINE g == [c \in 0..last |-> Chunk(c)]
  <2>1. PICK f : IsSum(f, g, last)
    BY <1>2, SumExists
  <2>2. Sums(f)
    <3> HIDE DEF last, Chunk
    <3> QED
      BY <2>1 DEF IsSum
  <2> QED
    BY <2>2
<1>5. ASSUME NEW c \in 0..last
      PROVE  taken[c] = (IF c = 0 THEN 0 ELSE taken[c - 1]) + Chunk(c)
  <2> HIDE DEF last, Chunk, taken
  <2> QED
    BY <1>4
<1> HIDE DEF taken, Sums
<1>6. ASSUME NEW c \in 0..last
      PROVE  /\ ShiftChunk * c \in Nat /\ Width(c) \in Nat
             /\ ShiftChunk * c + Width(c) = IF c < last THEN ShiftChunk * (c + 1) ELSE n
  <2> HIDE DEF last
  <2>1. ShiftChunk * c \in Nat /\ ShiftChunk * last \in Nat
    BY <1>1, <1>2
  <2>2. ShiftChunk * (c + 1) = ShiftChunk * c + ShiftChunk
    BY <1>1
  <2> QED
    BY <1>1, <1>2, <2>1, <2>2
<1>7. ASSUME NEW c \in 0..last
      PROVE  (v % 2^(ShiftChunk * c)) + Chunk(c) = (v % 2^(ShiftChunk * c + Width(c)))
  <2>1. PICK A \in Nat, B \in Nat : /\ A = 2^(ShiftChunk * c) /\ A >= 1
                                    /\ B = 2^Width(c) /\ B >= 1
    <3> HIDE DEF last, Width
    <3> QED
      BY <1>6, PowerPositive
  <2>2. 2^(ShiftChunk * c + Width(c)) = A * B
    <3> HIDE DEF last, Width
    <3> QED
      BY <1>6, <2>1, PowerSum
  <2>3. (v % (A * B)) = (v % A) + ((v \div A) % B) * A
    <3>1. A >= 1 /\ B >= 1 /\ v \in Int
      BY <2>1
    <3> HIDE DEF last, Width, Chunk
    <3> QED
      BY ONLY <3>1, A \in Nat, B \in Nat, ModSplit
  <2>4. Chunk(c) = ((v \div A) % B) * A
    BY <2>1
  <2> HIDE DEF Chunk, Width, last
  <2> QED
    BY <2>1, <2>2, <2>3, <2>4
<1> DEFINE S == {c \in Nat : c <= last => taken[c] = (v % 2^(ShiftChunk * c + Width(c)))}
<1>8. 0 \in S
  <2>1. 0 \in 0..last
    BY <1>2
  <2>2. (v % 2^(ShiftChunk * 0)) = 0
    <3>1. 2^(ShiftChunk * 0) = 1
      <4>1. ShiftChunk * 0 = 0
        BY <1>1
      <4> QED
        BY <4>1, PowerZero
    <3>2. (v % 1) \in 0..0
      BY Division
    <3> QED
      BY <3>1, <3>2
  <2>3. taken[0] = 0 + Chunk(0)
    BY <1>5, <2>1
  <2>4. 0 + Chunk(0) = (v % 2^(ShiftChunk * 0 + Width(0)))
    <3> HIDE DEF Chunk, Width, last
    <3> QED
      BY <1>7, <2>1, <2>2
  <2> HIDE DEF Chunk, Width, last
  <2> QED
    BY <2>3, <2>4
<1>9. ASSUME NEW c \in Nat, c \in S
      PROVE  c + 1 \in S
  <2> SUFFICES ASSUME c + 1 <= last
               PROVE  taken[c + 1] = (v % 2^(ShiftChunk * (c + 1) + Width(c + 1)))
    OBVIOUS
  <2>1. c \in 0..last /\ c + 1 \in 0..last /\ c < last /\ c + 1 # 0 /\ (c + 1) - 1 = c
    BY <1>2
  <2>2. taken[c] = (v % 2^(ShiftChunk * (c + 1)))
    <3>1. ShiftChunk * c + Width(c) = ShiftChunk * (c + 1)
      <4> HIDE DEF last, Width
      <4> QED
        BY <1>6, <2>1
    <3>2. taken[c] = (v % 2^(ShiftChunk * c + Width(c)))
      BY <1>9, <2>1
    <3> QED
      BY <3>1, <3>2
  <2>3. taken[c + 1] = taken[c] + Chunk(c + 1)
    <3> HIDE DEF last, Chunk
    <3> QED
      BY <1>5, <2>1
  <2>4. (v % 2^(ShiftChunk * (c + 1))) + Chunk(c + 1) = (v % 2^(ShiftChunk * (c + 1) + Width(c + 1)))
    <3> HIDE DEF last, Chunk, Width
    <3> QED
      BY <1>7, <2>1
  <2> HIDE DEF last, Chunk, Width
  <2> QED
    BY <2>2, <2>3, <2>4
<1>10. Nat \subseteq S
  <2> HIDE DEF S
  <2> QED
    BY <1>8, <1>9, SetInduction
<1>11. taken[last] = (v % 2^(ShiftChunk * last + Width(last)))
  <2> HIDE DEF last, Width
  <2> QED
    BY <1>2, <1>10
<1>12. ShiftChunk * last + Width(last) = n
  <2> HIDE DEF last, Width
  <2> QED
    BY <1>2, <1>6
<1> HIDE DEF last, Width
<1> QED
  BY <1>3, <1>11, <1>12

-----------------------------------------------------------------------------
(* The rows of the table.                                                  *)

\* A row has no size zero, whatever 1 << w comes to.
LEMMA RowSizes ==
    ASSUME bits \in WindowSizes
    PROVE  /\ FullRow \in Int /\ FullRow # 0
           /\ \A k : RowSize(k) \in Int /\ RowSize(k) # 0
<1>1. bits - 1 \in Nat /\ bits \in Nat /\ bits >= 1 /\ ScalarBits \in Int
  BY Widths
<1>2. (ScalarBits % bits) \in Nat
  BY <1>1, Division
<1>3. FullRow \in Int /\ FullRow # 0
  BY <1>1, ShlRange DEF FullRow
<1>4. Shl(ScalarBits % bits) \in Int /\ Shl(ScalarBits % bits) # 0
  BY <1>2, ShlRange
<1> QED
  BY <1>3, <1>4 DEF RowSize

\* For a window size that fits, the sizes are what the code means them to be,
\* and the last row is no longer than the others.
LEMMA RowsFit ==
    ASSUME bits \in WindowSizes, Fits
    PROVE  /\ Shl(bits) = 2 * FullRow /\ 2^bits = 2 * FullRow
           /\ FullRow = 2^(bits - 1) /\ FullRow \in Nat /\ FullRow >= 1
           /\ Shl(ScalarBits % bits) = 2^(ScalarBits % bits)
           /\ Shl(ScalarBits % bits) \in 1..FullRow
           /\ \A k : RowSize(k) \in 1..FullRow
<1>1. /\ bits - 1 \in Nat /\ bits \in Nat /\ bits >= 2 /\ bits <= IntBits - 2
      /\ ScalarBits \in Int /\ IntBits \in Nat
  BY Widths, WidthAssumption DEF Fits
<1> DEFINE tail == ScalarBits % bits
<1>2. tail \in 0..(bits - 1)
  <2>1. PICK b \in Nat, n \in Int : b = bits /\ n = ScalarBits /\ b >= 1
    BY <1>1
  <2>2. (n % b) \in 0..(b - 1)
    BY <2>1, Division
  <2> QED
    BY <2>1, <2>2
<1> HIDE DEF tail
<1>3. Shl(bits) = 2^bits /\ FullRow = 2^(bits - 1) /\ Shl(tail) = 2^tail
  BY <1>1, <1>2, ShlRange DEF FullRow
<1>4. 2^bits = 2 * 2^(bits - 1)
  <2>1. (bits - 1) + 1 = bits
    BY <1>1
  <2> QED
    BY <1>1, <2>1, PowerNext
<1>5. 2^tail \in Nat /\ 2^tail >= 1 /\ 2^tail <= 2^(bits - 1) /\ 2^(bits - 1) \in Nat
  BY <1>1, <1>2, PowerPositive, PowerMonotone
<1>6. \A k : RowSize(k) \in 1..FullRow
  BY <1>3, <1>5 DEF RowSize, tail
<1> QED
  BY <1>3, <1>4, <1>5, <1>6 DEF tail

\* There is at least one full window, and the last is shorter than a window.
LEMMA WindowCount ==
    ASSUME bits \in WindowSizes
    PROVE  /\ ScalarBits \div bits \in Nat /\ ScalarBits \div bits >= 1
           /\ (ScalarBits % bits) \in 0..(bits - 1)
           /\ ScalarBits = bits * (ScalarBits \div bits) + (ScalarBits % bits)
<1>1. bits \in Nat /\ bits >= 1 /\ ScalarBits \in Nat /\ bits <= ScalarBits
  BY Widths
<1> DEFINE q == ScalarBits \div bits
           e == ScalarBits % bits
<1>2. q \in Int /\ e \in 0..(bits - 1) /\ ScalarBits = bits * q + e
  <2>1. PICK b \in Nat, n \in Int : b = bits /\ n = ScalarBits /\ b >= 1
    BY <1>1
  <2>2. n \div b \in Int /\ (n % b) \in 0..(b - 1) /\ n = b * (n \div b) + (n % b)
    BY <2>1, Division
  <2> QED
    BY <2>1, <2>2
<1> HIDE DEF q, e
<1>3. q >= 1
  <2>1. q <= -1 => bits * q <= -bits
    BY <1>1, <1>2, MultipleGap
  <2>2. q = 0 => bits * q = 0
    BY <1>1
  <2> QED
    BY <1>1, <1>2, <2>1, <2>2
<1> QED
  BY <1>2, <1>3 DEF q, e

\* The rows do not overlap.
LEMMA PlaceUnique ==
    ASSUME FullRow \in Nat, FullRow >= 1,
           NEW v \in Nat, NEW w \in Nat,
           NEW j \in 0..(FullRow - 1), NEW k \in 0..(FullRow - 1),
           Place(v, j) = Place(w, k)
    PROVE  v = w /\ j = k
<1>1. PICK F \in Nat : F = FullRow /\ F >= 1
  OBVIOUS
<1>2. v * F + j = w * F + k
  BY <1>1 DEF Place
<1>3. j \in 0..(F - 1) /\ k \in 0..(F - 1) /\ v \in Int /\ w \in Int
  BY <1>1
<1> QED
  BY <1>1, <1>2, <1>3, PairUnique

\* The rows fill the memory from end to end.
LEMMA PlacesFill ==
    ASSUME bits \in WindowSizes, Fits, windows = ScalarBits \div bits + 1
    PROVE  /\ \A w \in 0..(windows - 1) : \A k \in 0..(RowSize(w) - 1) :
                Place(w, k) \in 0..(TotalSize - 1)
           /\ \A x \in 0..(TotalSize - 1) :
                \E w \in 0..(windows - 1) : \E k \in 0..(RowSize(w) - 1) : x = Place(w, k)
<1> PICK F \in Nat, q \in Nat, t \in Nat :
         /\ F = FullRow /\ q = ScalarBits \div bits /\ t = Shl(ScalarBits % bits)
         /\ F >= 1 /\ t >= 1 /\ t <= F
  BY RowsFit, WindowCount
<1>1. TotalSize = q * F + t /\ windows = q + 1
  BY DEF TotalSize
<1>2. /\ \A w \in 0..(windows - 1) : RowSize(w) = IF w = q THEN t ELSE F
      /\ \A w, k : Place(w, k) = w * F + k
  BY <1>1 DEF RowSize, Place
<1>3. ASSUME NEW w \in 0..q, NEW k \in 0..((IF w = q THEN t ELSE F) - 1)
      PROVE  w * F + k \in 0..(q * F + t - 1)
  <2>1. CASE w = q
    <3>1. q * F \in Nat
      OBVIOUS
    <3> QED
      BY <2>1, <3>1
  <2>2. CASE w # q
    <3>1. (q - w) * F = q * F - w * F
      OBVIOUS
    <3>2. q - w >= 1 /\ q - w \in Nat
      BY <2>2
    <3>3. (q - w) * F >= F
      BY <3>2
    <3>4. w * F \in Nat
      OBVIOUS
    <3> QED
      BY <2>2, <3>1, <3>3, <3>4
  <2> QED
    BY <2>1, <2>2
<1>4. ASSUME NEW x \in 0..(q * F + t - 1)
      PROVE  \E w \in 0..q : \E k \in 0..((IF w = q THEN t ELSE F) - 1) : x = w * F + k
  <2>1. CASE x >= q * F
    <3>1. q * F \in Nat
      OBVIOUS
    <3>2. x - q * F \in 0..(t - 1) /\ x = q * F + (x - q * F)
      BY <2>1, <3>1
    <3> QED
      BY <3>2
  <2>2. CASE x < q * F
    <3>1. PICK w \in Int, k \in 0..(F - 1) : x = F * w + k
      <4>1. /\ x \div F \in Int /\ (x % F) \in 0..(F - 1)
            /\ x = F * (x \div F) + (x % F)
        BY F >= 1, Division
      <4> QED
        BY <4>1
    <3>2. w >= 0
      <4>1. w <= -1 => F * w <= -F
        BY MultipleGap
      <4> QED
        BY <3>1, <4>1
    <3>3. w < q
      <4>1. F * (w - q) = F * w - F * q
        OBVIOUS
      <4>2. w - q >= 0 => F * (w - q) >= 0
        OBVIOUS
      <4>3. F * q = q * F
        OBVIOUS
      <4> QED
        BY <2>2, <3>1, <4>1, <4>2, <4>3
    <3>4. w \in 0..q /\ w # q /\ F * w = w * F
      BY <3>2, <3>3
    <3> QED
      BY <3>1, <3>4
  <2> QED
    BY <2>1, <2>2
<1>5. 0..(windows - 1) = 0..q /\ 0..(TotalSize - 1) = 0..(q * F + t - 1)
  BY <1>1, SMTT(20)
<1>6. \A w \in 0..q : 0..(RowSize(w) - 1) = 0..((IF w = q THEN t ELSE F) - 1)
  BY <1>2, <1>5
<1> HIDE DEF Fits
<1>7. \A w \in 0..q : \A k \in 0..(RowSize(w) - 1) : Place(w, k) \in 0..(q * F + t - 1)
  BY <1>2, <1>3, <1>6
<1>8. \A x \in 0..(q * F + t - 1) :
        \E w \in 0..q : \E k \in 0..(RowSize(w) - 1) : x = Place(w, k)
  <2> TAKE x \in 0..(q * F + t - 1)
  <2>1. PICK w \in 0..q : \E k \in 0..((IF w = q THEN t ELSE F) - 1) : x = w * F + k
    BY <1>4
  <2>2. PICK k \in 0..((IF w = q THEN t ELSE F) - 1) : x = w * F + k
    BY <2>1
  <2>3. k \in 0..(RowSize(w) - 1)
    BY <1>6
  <2>4. x = Place(w, k)
    BY <1>2, <2>2
  <2> QED
    BY <2>3, <2>4
<1> DEFINE rows == 0..q
           all  == 0..(q * F + t - 1)
           columns(w) == 0..(RowSize(w) - 1)
<1>9. 0..(windows - 1) = rows /\ 0..(TotalSize - 1) = all
  BY <1>5
<1>10. \A w \in rows : \A k \in columns(w) : Place(w, k) \in all
  BY <1>7
<1>11. \A x \in all : \E w \in rows : \E k \in columns(w) : x = Place(w, k)
  BY <1>8
<1> HIDE DEF rows, all
<1> QED
  BY <1>9, <1>10, <1>11

\* The weight of a window grows by 2^bits from one window to the next.
LEMMA Weights ==
    ASSUME bits \in Nat, NEW w \in Nat
    PROVE  /\ Weight(w) \in Nat /\ Weight(w) >= 1
           /\ Weight(0) = 1
           /\ Weight(w + 1) = Weight(w) * 2^bits
<1>1. bits * w \in Nat /\ bits * (w + 1) = bits * w + bits /\ bits * 0 = 0
  OBVIOUS
<1> QED
  BY <1>1, PowerPositive, PowerZero, PowerSum DEF Weight

-----------------------------------------------------------------------------
(* The digits of a scalar.                                                 *)

\* What is left of a scalar is a scalar.
LEMMA RestType ==
    ASSUME bits \in WindowSizes, NEW v \in Scalars
    PROVE  Rest(v) \in Scalars
<1> PICK m \in Nat, M \in Nat : m = 2^bits /\ m >= 1 /\ M = N /\ M >= 1
  BY Widths
<1>1. v \div m \in Int
  BY Division DEF Scalars
<1>2. v \div m + (IF Borrows(v) THEN 1 ELSE 0) \in Int
  BY <1>1
<1>3. \A x \in Int : (x % M) \in 0..(M - 1)
  BY Division
<1> QED
  BY <1>2, <1>3 DEF Rest, Scalars

\* A digit and what is left of the scalar are worth the scalar, and the digit
\* is never beyond half of the window.
LEMMA DigitSplit ==
    ASSUME bits \in WindowSizes, Fits, NEW v \in Scalars
    PROVE  /\ SDigit(v) \in -FullRow..FullRow
           /\ Rest(v) \in Scalars
           /\ Rest(v) = v \div 2^bits + (IF Borrows(v) THEN 1 ELSE 0)
           /\ v = SDigit(v) + Rest(v) * 2^bits
<1> PICK F \in Nat, m \in Nat, M \in Nat :
        /\ F = FullRow /\ F >= 1 /\ m = 2^bits /\ m = Shl(bits) /\ m = 2 * F
        /\ M = N /\ M >= 2 /\ m >= 4
  BY RowsFit, Widths
<1>1. v \in Nat /\ v < M
  BY DEF Scalars
<1> DEFINE q == v \div m
           e == v % m
<1>2. q \in Int /\ e \in 0..(m - 1) /\ v = m * q + e
  <2>1. m \in Nat /\ m >= 1 /\ v \in Int
    BY <1>1
  <2> QED
    BY ONLY <2>1, Division
<1>3. ShrAny(v, bits) = e
  <2>1. bits \in Nat \ {0}
    BY Widths
  <2> QED
    BY <1>1, <2>1, ShrExact
<1> HIDE DEF q, e
<1>4. q >= 0
  <2>1. q <= -1 => m * q <= -m
    BY <1>2, MultipleGap
  <2> QED
    BY <1>1, <1>2, <2>1
<1>5. q + 1 < M
  <2>1. m * q >= 4 * q
    <3>1. (m - 4) * q >= 0
      BY <1>2, <1>4
    <3>2. (m - 4) * q = m * q - 4 * q
      BY <1>2
    <3> QED
      BY <1>2, <3>1, <3>2
  <2>2. 4 * q <= v
    BY <1>1, <1>2, <2>1
  <2> QED
    BY <1>1, <1>2, <1>4, <2>2
<1>6. Borrows(v) <=> e > F
  BY <1>3 DEF Borrows, FullRow
<1>7. Rest(v) = q + (IF Borrows(v) THEN 1 ELSE 0)
  <2> DEFINE x == q + (IF Borrows(v) THEN 1 ELSE 0)
  <2>1. x \in 0..(M - 1)
    BY <1>2, <1>4, <1>5
  <2>2. (x % M) = x
    <3> HIDE DEF x
    <3> QED
      BY <2>1, ModSmall
  <2>3. Rest(v) = (x % M)
    BY DEF Rest, q
  <2> QED
    BY <2>2, <2>3
<1>8. SDigit(v) = IF Borrows(v) THEN e - m ELSE e
  BY <1>3 DEF SDigit
<1>9. v = SDigit(v) + Rest(v) * m
  <2>1. (q + 1) * m = m * q + m /\ q * m = m * q
    BY <1>2
  <2> QED
    BY <1>2, <1>7, <1>8, <2>1
<1>10. SDigit(v) \in -F..F
  BY <1>2, <1>6, <1>8
<1> QED
  BY <1>2, <1>4, <1>5, <1>7, <1>9, <1>10 DEF q, Scalars

\* What is left of a scalar is a window shorter, and the borrow of its last
\* window stays below it.
LEMMA RestLength ==
    ASSUME bits \in WindowSizes, Fits, NEW v \in Scalars, NEW E \in Nat, v <= 2^E
    PROVE  /\ E >= bits => Rest(v) <= 2^(E - bits)
           /\ E < bits => SDigit(v) = v /\ Rest(v) = 0
<1> PICK F \in Nat, m \in Nat, b \in Nat :
        /\ F = FullRow /\ F >= 1 /\ m = 2^bits /\ m = Shl(bits) /\ m = 2 * F
        /\ F = 2^(bits - 1) /\ b = bits /\ b >= 2
  BY RowsFit, Widths
<1>1. v \in Nat
  BY Widths DEF Scalars
<1>2. /\ SDigit(v) \in -F..F /\ Rest(v) \in Nat
      /\ v = SDigit(v) + Rest(v) * m
  BY DigitSplit DEF Scalars
<1> PICK d \in -F..F, t \in Nat : d = SDigit(v) /\ t = Rest(v) /\ v = d + t * m
  BY <1>2
<1>3. ASSUME E >= bits
      PROVE  t <= 2^(E - bits)
  <2> PICK p \in Nat : p = 2^(E - bits)
    <3>1. E - b \in Nat
      BY <1>3
    <3> QED
      BY <3>1, PowerPositive
  <2>1. 2^E = p * m
    <3>1. E - b \in Nat /\ (E - b) + b = E
      BY <1>3
    <3> QED
      BY <3>1, PowerSum, ZenonT(30)
  <2>2. t * m <= p * m + F
    BY <1>1, <2>1
  <2>3. (t - p) * m = t * m - p * m
    BY ONLY t \in Nat, p \in Nat, m \in Nat
  <2>4. t - p >= 1 => (t - p) * m >= m
    OBVIOUS
  <2> QED
    BY <2>2, <2>3, <2>4
<1>4. ASSUME E < bits
      PROVE  d = v /\ t = 0
  <2>1. 2^E <= F
    <3>1. E <= b - 1 /\ b - 1 \in Nat
      BY <1>4
    <3> QED
      BY <3>1, PowerMonotone
  <2>2. 2^E \in Nat
    BY PowerPositive
  <2>3. v <= F
    BY <1>1, <2>1, <2>2
  <2>4. ShrAny(v, bits) = v
    <3>1. v \in 0..(m - 1)
      BY <1>1, <2>3
    <3>2. (v % m) = v
      <4>1. m \in Nat /\ m >= 1
        OBVIOUS
      <4> QED
        BY ONLY <3>1, <4>1, ModSmall
    <3>3. bits \in Nat \ {0}
      OBVIOUS
    <3> QED
      BY <1>1, <3>2, <3>3, ShrExact
  <2>5. ~Borrows(v)
    BY <1>1, <2>3, <2>4 DEF Borrows, FullRow
  <2>6. d = v
    BY <2>4, <2>5 DEF SDigit
  <2>7. t * m = 0
    BY <2>6
  <2>8. t >= 1 => t * m >= m
    OBVIOUS
  <2> QED
    BY <2>6, <2>7, <2>8
<1> QED
  BY <1>3, <1>4

-----------------------------------------------------------------------------
(* The types are kept.                                                     *)

\* The facts about the variables' numbers that most steps need.
LEMMA Numbers ==
    TypeInv => /\ bits \in Nat /\ bits >= 2 /\ N \in Nat /\ N >= 2
               /\ 0 \in Scalars /\ 1 \in Scalars /\ Scalars \subseteq Nat
               /\ FullRow \in Int /\ FullRow # 0
<1> SUFFICES ASSUME TypeInv
             PROVE  /\ bits \in Nat /\ bits >= 2 /\ N \in Nat /\ N >= 2
                    /\ 0 \in Scalars /\ 1 \in Scalars /\ Scalars \subseteq Nat
                    /\ FullRow \in Int /\ FullRow # 0
  OBVIOUS
<1>1. bits \in WindowSizes
  BY DEF TypeInv
<1>2. FullRow \in Int /\ FullRow # 0
  BY <1>1, RowSizes
<1> QED
  BY <1>1, <1>2, Widths DEF Scalars

\* A remainder modulo the order is a scalar.
LEMMA Remainder == ASSUME N \in Nat, N >= 2, NEW x \in Int PROVE (x % N) \in Scalars
<1> PICK M \in Nat : M = N /\ M >= 1
  OBVIOUS
<1>1. (x % M) \in 0..(M - 1)
  BY Division
<1> QED
  BY <1>1 DEF Scalars

\* A scalar is its own remainder.
LEMMA RemainderSmall == ASSUME N \in Nat, N >= 2, NEW x \in Scalars PROVE (x % N) = x
<1> PICK M \in Nat : M = N /\ M >= 1
  OBVIOUS
<1>1. x \in 0..(M - 1)
  BY DEF Scalars
<1> QED
  BY <1>1, ModSmall

\* Products and inverses of units are units.
LEMMA UnitProducts ==
    /\ \A x, y \in Units : Mul(x, y) \in Units
    /\ \A x \in Units : Inv(x) \in Units /\ Mul(x, Inv(x)) = One
    /\ One \in Units /\ Zero \in Field /\ Units \subseteq Field /\ Ratios \subseteq Units
  BY FieldAssumption, WidthAssumption DEF Units

\* The invariant holds at first.
LEMMA InitInv == Init => IInv
<1> SUFFICES ASSUME Init
             PROVE  IInv
  OBVIOUS
<1>1. bits \in Nat /\ N \in Nat /\ N >= 2
  BY Widths DEF Init
<1>2. 0 \in Scalars /\ 1 \in Scalars
  BY <1>1 DEF Scalars
<1>3. TypeInv
  BY <1>2, UnitProducts DEF Init, TypeInv, Building, Usable
<1>4. ControlInv /\ RowInv /\ StoredInv /\ MultiplyInv
  BY DEF Init, ControlInv, Usable, RowInv, StoredInv, MultiplyInv
<1>5. BaseInv
  <2>1. Weight(0) = 1
    BY <1>1, Weights
  <2>2. (1 % N) = 1
    BY <1>1, <1>2, RemainderSmall
  <2> QED
    BY <2>1, <2>2 DEF Init, BaseInv
<1> QED
  BY <1>3, <1>4, <1>5 DEF IInv

\* Stores keep what the table holds a point or unwritten memory.
LEMMA StoreType ==
    ASSUME TypeInv, NEW k, NEW zinv,
           gej_temp[k].scalar \in Scalars, Mul(gej_temp[k].z, zinv) \in Field,
           Store(k, zinv)
    PROVE  /\ DOMAIN precomp' = DOMAIN precomp
           /\ \A j \in DOMAIN precomp' : precomp'[j] \in Entries
<1> DEFINE e == [scalar |-> gej_temp[k].scalar, scale |-> Mul(gej_temp[k].z, zinv)]
<1>1. precomp' = [precomp EXCEPT ![Place(row, k)] = e]
  BY DEF Store
<1>2. e \in Entries
  BY DEF Entries
<1>3. \A j \in DOMAIN precomp : precomp[j] \in Entries
  BY DEF TypeInv
<1> HIDE DEF e
<1> QED
  BY <1>1, <1>2, <1>3

\* Every step keeps the types.
LEMMA TypeStep == IInv /\ [Next]_vars => TypeInv'
<1> SUFFICES ASSUME IInv, [Next]_vars
             PROVE  TypeInv'
  OBVIOUS
<1>0. TypeInv
  BY DEF IInv
<1>1. /\ bits \in Nat /\ bits >= 2 /\ N \in Nat /\ N >= 2
      /\ 0 \in Scalars /\ 1 \in Scalars /\ Scalars \subseteq Nat
      /\ FullRow \in Int /\ FullRow # 0
  BY <1>0, Numbers
<1>2. CASE Create
  <2>1. ScalarBits \div bits \in Nat
    BY <1>0, WindowCount DEF TypeInv
  <2>2. row' = 0 /\ window' = 0
    BY <1>0, <1>2 DEF Create, TypeInv, multVars
  <2>3. bits' = bits /\ FullRow' = FullRow /\ pc = "create"
    BY <1>2 DEF Create, FullRow
  <2>4. CASE FullRow < 0 \/ TotalSize < 0
    BY <1>0, <1>1, <1>2, <2>1, <2>2, <2>3, <2>4 DEF Create, TypeInv, multVars, Building, Usable
  <2>5. CASE ~(FullRow < 0 \/ TotalSize < 0)
    <3>1. FullRow >= 1
      BY <1>1, <2>5
    <3>2. /\ precomp' = [k \in 0..(TotalSize - 1) |-> Garbage]
          /\ gej_temp' = [k \in 0..(FullRow - 1) |-> [scalar |-> 0, z |-> Zero]]
          /\ z_ratio'  = [k \in 0..(FullRow - 1) |-> Zero]
          /\ pc' = "row" /\ windows' = ScalarBits \div bits + 1
      BY <1>2, <2>5 DEF Create
    <3>3. \A k \in DOMAIN precomp' : precomp'[k] \in Entries
      BY <3>2 DEF Entries
    <3>4. /\ gej_temp' \in [0..(FullRow - 1) -> Point]
          /\ z_ratio' \in [0..(FullRow - 1) -> Field]
      BY <1>1, <3>2, UnitProducts DEF Point
    <3>5. UNCHANGED <<base, one, fe_zinv, a, s, r>>
      BY <1>2 DEF Create, multVars
    <3> QED
      BY <1>0, <2>1, <2>2, <2>3, <3>1, <3>2, <3>3, <3>4, <3>5 DEF TypeInv, Building, Usable
  <2> QED
    BY <2>4, <2>5
<1>3. CASE StartRow
  <2>1. /\ bits' = bits /\ windows' = windows /\ precomp' = precomp /\ row' = row
        /\ z_ratio' = z_ratio /\ fe_zinv' = fe_zinv /\ FullRow' = FullRow
        /\ a' = a /\ s' = s /\ r' = r /\ window' = window /\ pc = "row" /\ pc' = "fill"
    BY <1>3 DEF StartRow, tableVars, multVars, FullRow
  <2>2. base' \in [scalar : Scalars, z : Units]
    <3>1. base \in [scalar : Scalars, z : Units]
      BY <1>0 DEF TypeInv
    <3>2. PICK q \in Ratios :
            base' = IF row = 0 THEN base
                    ELSE [scalar |-> (base.scalar * 2^bits) % N, z |-> Mul(base.z, q)]
      BY <1>3 DEF StartRow
    <3>3. ((base.scalar * 2^bits) % N) \in Scalars
      <4>1. base.scalar * 2^bits \in Int
        <5>1. base.scalar \in Nat /\ 2^bits \in Nat
          BY <1>1, <3>1, PowerPositive
        <5> QED
          BY ONLY <5>1
      <4> QED
        BY <1>1, <4>1, Remainder
    <3>4. Mul(base.z, q) \in Units
      BY <3>1, UnitProducts
    <3> QED
      BY <3>1, <3>2, <3>3, <3>4
  <2>3. gej_temp' \in [0..(FullRow - 1) -> Point]
    <3>1. base' \in Point
      BY <2>2, UnitProducts DEF Point
    <3>2. gej_temp' = [gej_temp EXCEPT ![0] = base']
      BY <1>3 DEF StartRow
    <3> QED
      BY <1>0, <2>1, <3>1, <3>2 DEF TypeInv, Building
  <2>4. one' \in Scalars
    BY <1>3, <2>2 DEF StartRow
  <2> QED
    BY <1>0, <2>1, <2>2, <2>3, <2>4 DEF TypeInv, Building, Usable
<1>4. CASE FillRow
  <2>1. /\ bits' = bits /\ windows' = windows /\ precomp' = precomp /\ row' = row
        /\ base' = base /\ one' = one /\ fe_zinv' = fe_zinv /\ FullRow' = FullRow
        /\ a' = a /\ s' = s /\ r' = r /\ window' = window /\ pc = "fill"
    BY <1>4 DEF FillRow, tableVars, multVars, FullRow
  <2>2. CASE i \notin DOMAIN gej_temp
    <3>1. pc' = "corrupted" /\ gej_temp' = gej_temp /\ z_ratio' = z_ratio
      BY <1>4, <2>2 DEF FillRow
    <3> QED
      BY <1>0, <2>1, <3>1 DEF TypeInv, Building, Usable
  <2>3. CASE i \in DOMAIN gej_temp
    <3>1. PICK q \in Ratios :
             /\ gej_temp' = [gej_temp EXCEPT ![i] =
                    [scalar |-> (gej_temp[i - 1].scalar + one) % N,
                     z |-> Mul(gej_temp[i - 1].z, q)]]
             /\ z_ratio' = [z_ratio EXCEPT ![i] = q]
      BY <1>4, <2>3 DEF FillRow
    <3>2. gej_temp \in [0..(FullRow - 1) -> Point] /\ z_ratio \in [0..(FullRow - 1) -> Field]
      BY <1>0, <2>1 DEF TypeInv, Building
    <3>3. i - 1 \in 0..(FullRow - 1) /\ gej_temp[i - 1].z \in Units
      <4>1. Top = i - 1 /\ Top \in 0..(FullRow - 1) /\ Chained(Top)
        BY <2>1 DEF IInv, RowInv, Top
      <4> QED
        BY <4>1 DEF Chained
    <3>4. ((gej_temp[i - 1].scalar + one) % N) \in Scalars
      <4>1. gej_temp[i - 1].scalar \in Scalars /\ one \in Scalars
        BY <1>0, <3>2, <3>3 DEF Point, TypeInv
      <4>2. gej_temp[i - 1].scalar + one \in Int
        BY <1>1, <4>1 DEF Scalars
      <4> QED
        BY <1>1, <4>2, Remainder
    <3>5. Mul(gej_temp[i - 1].z, q) \in Field /\ q \in Field
      BY <3>3, UnitProducts
    <3>6. /\ gej_temp' \in [0..(FullRow - 1) -> Point]
          /\ z_ratio' \in [0..(FullRow - 1) -> Field]
      BY <3>1, <3>2, <3>4, <3>5 DEF Point
    <3>7. pc' = pc
      BY <1>4, <2>3 DEF FillRow
    <3> QED
      BY <1>0, <2>1, <3>6, <3>7 DEF TypeInv, Building, Usable
  <2> QED
    BY <2>2, <2>3
<1>5. CASE InvertLast
  <2>1. /\ bits' = bits /\ windows' = windows /\ row' = row /\ gej_temp' = gej_temp
        /\ z_ratio' = z_ratio /\ base' = base /\ one' = one /\ FullRow' = FullRow
        /\ a' = a /\ s' = s /\ r' = r /\ window' = window /\ pc = "fill" /\ pc' = "back"
    BY <1>5 DEF InvertLast, multVars, FullRow
  <2>2. i' \in 0..Top /\ Top \in 0..(FullRow - 1) /\ i' = RowSize(row) - 1
    <3>1. RowSize(row) \in Int /\ RowSize(row) # 0
      BY <1>0, RowSizes DEF TypeInv
    <3>2. ~(RowSize(row) < 0) /\ ~(i < RowSize(row)) /\ i' = RowSize(row) - 1
      BY <1>5 DEF InvertLast, InRow
    <3>3. i \in 1..FullRow /\ Top = i - 1
      BY <2>1 DEF IInv, RowInv, Top
    <3> QED
      BY <1>1, <3>1, <3>2, <3>3
  <2>3. Chained(i')
    BY <2>1, <2>2 DEF IInv, RowInv
  <2>4. gej_temp[i'].z \in Units /\ gej_temp[i'].scalar \in Scalars
    <3>1. gej_temp \in [0..(FullRow - 1) -> Point] /\ i' \in 0..(FullRow - 1)
      BY <1>0, <1>1, <2>1, <2>2 DEF TypeInv, Building
    <3> QED
      BY <2>3, <3>1 DEF Chained, Point
  <2>5. fe_zinv' = Inv(gej_temp[i'].z)
    BY <1>5 DEF InvertLast
  <2>6. fe_zinv' \in Units /\ Mul(gej_temp[i'].z, fe_zinv') \in Field
    BY <2>4, <2>5, UnitProducts
  <2>7. Store(i', fe_zinv')
    BY <1>5, <2>1 DEF InvertLast, Store
  <2>8. \A k \in DOMAIN precomp' : precomp'[k] \in Entries
    BY <1>0, <2>4, <2>6, <2>7, StoreType
  <2> QED
    BY <1>0, <2>1, <2>6, <2>8 DEF TypeInv, Building, Usable
<1>6. CASE StoreBack
  <2>1. /\ bits' = bits /\ windows' = windows /\ row' = row /\ gej_temp' = gej_temp
        /\ z_ratio' = z_ratio /\ base' = base /\ one' = one /\ FullRow' = FullRow
        /\ a' = a /\ s' = s /\ r' = r /\ window' = window /\ pc = "back" /\ pc' = "back"
    BY <1>6 DEF StoreBack, multVars, FullRow
  <2>2. i \in 0..Top /\ i > 0 /\ Top \in 0..(FullRow - 1)
    BY <1>6, <2>1 DEF IInv, RowInv, StoreBack
  <2>3. i - 1 \in 0..Top /\ Chained(i) /\ Chained(i - 1)
    BY <2>1, <2>2 DEF IInv, RowInv
  <2>4. gej_temp[i - 1].z \in Units /\ gej_temp[i - 1].scalar \in Scalars /\ z_ratio[i] \in Units
    <3>1. gej_temp \in [0..(FullRow - 1) -> Point] /\ i - 1 \in 0..(FullRow - 1)
      BY <1>0, <1>1, <2>1, <2>2 DEF TypeInv, Building
    <3> QED
      BY <2>2, <2>3, <3>1 DEF Chained, Point
  <2>5. fe_zinv' = Mul(fe_zinv, z_ratio[i]) /\ Store(i - 1, fe_zinv')
    BY <1>6 DEF StoreBack
  <2>6. fe_zinv' \in Units /\ Mul(gej_temp[i - 1].z, fe_zinv') \in Field
    BY <1>0, <2>4, <2>5, UnitProducts DEF TypeInv
  <2>7. \A k \in DOMAIN precomp' : precomp'[k] \in Entries
    BY <1>0, <2>4, <2>5, <2>6, StoreType
  <2> QED
    BY <1>0, <2>1, <2>6, <2>7 DEF TypeInv, Building, Usable
<1>7. CASE RowDone
  <2>1. row < windows /\ pc = "back"
    BY <1>7 DEF IInv, ControlInv, RowDone
  <2>2. ScalarBits \div bits \in Nat
    BY <1>0, WindowCount DEF TypeInv
  <2> QED
    BY <1>0, <1>7, <2>1, <2>2
    DEF RowDone, TypeInv, Building, Usable, tableVars, multVars, FullRow
<1>8. CASE Created
  BY <1>0, <1>1, <1>8, UnitProducts
  DEF Created, TypeInv, Building, Usable, tableVars, multVars
<1>9. CASE Multiply
  <2>1. ScalarBits \div bits \in Nat
    BY <1>0, WindowCount DEF TypeInv
  <2> QED
    BY <1>0, <1>1, <1>9, <2>1
    DEF Multiply, TypeInv, Building, Usable, tableVars, buildVars
<1>10. CASE AddWindow
  <2>1. /\ UNCHANGED <<pc, tableVars, buildVars, a>> /\ s' = Rest(s)
        /\ window' = window + 1 /\ window < windows /\ pc = "multiply"
    BY <1>10 DEF AddWindow
  <2>2. s' \in Scalars
    BY <1>0, <2>1, RestType DEF TypeInv
  <2>3. window' \in 0..windows
    <3>1. ScalarBits \div bits \in Nat
      BY <1>0, WindowCount DEF TypeInv
    <3> QED
      BY <1>0, <2>1, <3>1 DEF TypeInv
  <2>4. r' \in Scalars \cup {Garbage}
    <3> DEFINE d == SDigit(s)
               k == Place(window, Magnitude(d) - 1)
               e == IF k \in DOMAIN precomp THEN precomp[k] ELSE Garbage
    <3>1. r' = IF d = 0 THEN r
               ELSE IF Garbage \in {e, r} THEN Garbage
               ELSE IF e.scale # One THEN Garbage
               ELSE (r + (IF d < 0 THEN N - e.scalar ELSE e.scalar)) % N
      BY <1>10 DEF AddWindow
    <3>2. e \in [scalar : Scalars, scale : Field] \cup {Garbage}
      BY <1>0 DEF TypeInv, Entries
    <3>3. r \in Scalars \cup {Garbage}
      BY <1>0 DEF TypeInv
    <3> HIDE DEF d, e
    <3>4. ASSUME Garbage \notin {e, r}
          PROVE  ((r + (IF d < 0 THEN N - e.scalar ELSE e.scalar)) % N) \in Scalars
      <4>1. e.scalar \in Int /\ r \in Int
        <5>1. e \in [scalar : Scalars, scale : Field] /\ r \in Scalars
          BY <3>2, <3>3, <3>4
        <5>2. e.scalar \in Scalars
          BY <5>1
        <5> QED
          BY <1>1, <5>1, <5>2 DEF Scalars
      <4>2. r + (IF d < 0 THEN N - e.scalar ELSE e.scalar) \in Int
        BY <1>1, <4>1
      <4> QED
        BY <1>1, <4>2, Remainder
    <3> QED
      BY <3>1, <3>3, <3>4
  <2> QED
    BY <1>0, <2>1, <2>2, <2>3, <2>4
    DEF TypeInv, Building, Usable, tableVars, buildVars
<1>11. CASE Multiplied
  BY <1>0, <1>11 DEF Multiplied, TypeInv, Building, Usable, tableVars, buildVars, multVars
<1>12. CASE UNCHANGED vars
  BY <1>0, <1>12
  DEF vars, TypeInv, Building, Usable, tableVars, buildVars, multVars, FullRow
<1>13. CASE WentWrong
  BY <1>12, <1>13 DEF WentWrong
<1> QED
  BY <1>2, <1>3, <1>4, <1>5, <1>6, <1>7, <1>8, <1>9, <1>10, <1>11, <1>12, <1>13 DEF Next

-----------------------------------------------------------------------------
(* The loops stay within the memory.                                       *)

\* Every step keeps what the place in the code says of memory and indices.
LEMMA ControlStep == IInv /\ [Next]_vars => ControlInv'
<1> SUFFICES ASSUME IInv, [Next]_vars
             PROVE  ControlInv'
  OBVIOUS
<1>0. TypeInv /\ ControlInv /\ bits \in WindowSizes
  BY DEF IInv, TypeInv
<1>1. CASE Create
  <2>1. /\ bits' = bits /\ TotalSize' = TotalSize /\ FullRow' = FullRow
        /\ pc' \in {"aborted", "row"} /\ (Fits' <=> Fits)
    BY <1>1 DEF Create, TotalSize, FullRow, Fits
  <2>2. ASSUME Fits
        PROVE  ~(FullRow < 0 \/ TotalSize < 0)
    <3>1. PICK F \in Nat, q \in Nat, t \in Nat :
             F = FullRow /\ q = ScalarBits \div bits /\ t = Shl(ScalarBits % bits)
      BY <1>0, <2>2, RowsFit, WindowCount
    <3>2. TotalSize = q * F + t
      BY <3>1 DEF TotalSize
    <3>3. q * F \in Nat
      BY <3>1
    <3> QED
      BY <3>1, <3>2, <3>3
  <2>3. ASSUME Fits
        PROVE  pc' = "row" /\ precomp' = [k \in 0..(TotalSize - 1) |-> Garbage]
    BY <1>1, <2>2, <2>3 DEF Create
  <2> QED
    BY <2>1, <2>3 DEF ControlInv, Usable
<1>2. CASE StartRow
  <2>1. /\ bits' = bits /\ windows' = windows /\ precomp' = precomp /\ row' = row
        /\ pc = "row" /\ pc' = "fill" /\ i' = 1 /\ row < windows
    BY <1>2 DEF StartRow, tableVars
  <2>2. RowSize(row)' = RowSize(row) /\ TotalSize' = TotalSize /\ (Fits' <=> Fits)
    BY <2>1 DEF RowSize, TotalSize, FullRow, Fits
  <2>3. Fits => RowSize(row) \in Int /\ RowSize(row) >= 1
    BY <1>0, RowsFit
  <2> QED
    BY <1>0, <2>1, <2>2, <2>3 DEF ControlInv, Usable
<1>3. CASE FillRow
  <2>1. bits' = bits /\ windows' = windows /\ precomp' = precomp /\ row' = row /\ pc = "fill"
    BY <1>3 DEF FillRow, tableVars
  <2>2. RowSize(row)' = RowSize(row) /\ TotalSize' = TotalSize /\ (Fits' <=> Fits)
    BY <2>1 DEF RowSize, TotalSize, FullRow, Fits
  <2>3. /\ i \in 1..FullRow /\ gej_temp \in [0..(FullRow - 1) -> Point]
        /\ FullRow \in Int /\ RowSize(row) \in Int
    BY <1>0, <2>1, RowSizes DEF IInv, RowInv, TypeInv, Building
  <2>4. ASSUME Fits
        PROVE  i < RowSize(row) /\ i \in DOMAIN gej_temp
    <3>1. RowSize(row) \in 1..FullRow
      BY <1>0, <2>4, RowsFit
    <3>2. i < RowSize(row)
      BY <1>3, <2>3, <3>1 DEF FillRow, InRow
    <3> QED
      BY <2>3, <3>1, <3>2
  <2>5. CASE i \notin DOMAIN gej_temp
    <3>1. pc' = "corrupted"
      BY <1>3, <2>5 DEF FillRow
    <3> QED
      BY <1>0, <2>1, <2>2, <2>4, <2>5, <3>1 DEF ControlInv, Usable
  <2>6. CASE i \in DOMAIN gej_temp
    <3>1. pc' = pc /\ i' = i + 1
      BY <1>3, <2>6 DEF FillRow
    <3>2. Fits => i' <= RowSize(row)
      BY <2>3, <2>4, <3>1
    <3> QED
      BY <1>0, <2>1, <2>2, <3>1, <3>2 DEF ControlInv, Usable
  <2> QED
    BY <2>5, <2>6
<1>4. CASE InvertLast
  <2>1. /\ bits' = bits /\ windows' = windows /\ row' = row /\ pc = "fill" /\ pc' = "back"
    BY <1>4 DEF InvertLast
  <2>2. TotalSize' = TotalSize /\ (Fits' <=> Fits)
    BY <2>1 DEF TotalSize, FullRow, Fits
  <2>3. DOMAIN precomp' = DOMAIN precomp
    BY <1>4 DEF InvertLast, Store
  <2> QED
    BY <1>0, <2>1, <2>2, <2>3 DEF ControlInv, Usable
<1>5. CASE StoreBack
  <2>1. /\ bits' = bits /\ windows' = windows /\ row' = row /\ pc = "back" /\ pc' = "back"
    BY <1>5 DEF StoreBack
  <2>2. TotalSize' = TotalSize /\ (Fits' <=> Fits)
    BY <2>1 DEF TotalSize, FullRow, Fits
  <2>3. DOMAIN precomp' = DOMAIN precomp
    BY <1>5 DEF StoreBack, Store
  <2> QED
    BY <1>0, <2>1, <2>2, <2>3 DEF ControlInv, Usable
<1>6. CASE RowDone
  BY <1>0, <1>6 DEF RowDone, ControlInv, Usable, tableVars, TotalSize, FullRow, Fits
<1>7. CASE Created
  BY <1>0, <1>7 DEF Created, ControlInv, Usable, tableVars, TotalSize, FullRow, Fits
<1>8. CASE Multiply
  BY <1>0, <1>8
  DEF Multiply, ControlInv, Usable, tableVars, buildVars, TotalSize, FullRow, Fits
<1>9. CASE AddWindow
  BY <1>0, <1>9
  DEF AddWindow, ControlInv, Usable, tableVars, buildVars, TotalSize, FullRow, Fits
<1>10. CASE Multiplied
  BY <1>0, <1>10
  DEF Multiplied, ControlInv, Usable, tableVars, buildVars, TotalSize, FullRow, Fits
<1>11. CASE UNCHANGED vars
  BY <1>0, <1>11
  DEF vars, ControlInv, Usable, tableVars, buildVars, TotalSize, RowSize, FullRow, Fits
<1>12. CASE WentWrong
  BY <1>11, <1>12 DEF WentWrong
<1> QED
  BY <1>1, <1>2, <1>3, <1>4, <1>5, <1>6, <1>7, <1>8, <1>9, <1>10, <1>11, <1>12 DEF Next

-----------------------------------------------------------------------------
(* The elements of a row.                                                  *)

\* The base of a row is the generator times what one is worth in its window.
LEMMA StartRowBase == IInv /\ StartRow => base'.scalar = Weight(row) % N
<1> SUFFICES ASSUME IInv, StartRow
             PROVE  base'.scalar = Weight(row) % N
  OBVIOUS
<1>1. TypeInv /\ pc = "row"
  BY DEF IInv, StartRow
<1>2. bits \in Nat /\ N \in Nat /\ N >= 2 /\ row \in Nat /\ 2^bits \in Nat
  <2>1. bits \in Nat /\ N \in Nat /\ N >= 2
    BY <1>1, Numbers
  <2>2. ScalarBits \div bits \in Nat
    BY <1>1, WindowCount DEF TypeInv
  <2> QED
    BY <1>1, <2>1, <2>2, PowerPositive DEF TypeInv
<1>3. PICK q \in Ratios :
         base' = IF row = 0 THEN base
                 ELSE [scalar |-> (base.scalar * 2^bits) % N, z |-> Mul(base.z, q)]
  BY DEF StartRow
<1>4. CASE row = 0
  BY <1>1, <1>3, <1>4 DEF IInv, BaseInv, Building
<1>5. CASE row # 0
  <2>1. base.scalar = Weight(row - 1) % N
    BY <1>1, <1>2, <1>5 DEF IInv, BaseInv, Building
  <2>2. PICK M \in Nat, W \in Nat, m \in Nat :
           M = N /\ M >= 1 /\ W = Weight(row - 1) /\ m = 2^bits
    <3>1. row - 1 \in Nat
      BY <1>2, <1>5
    <3> QED
      BY <1>2, <3>1, Weights
  <2>3. (((W % M) * m) % M) = ((W * m) % M)
    <3>1. M \in Nat /\ M >= 1 /\ W \in Int /\ m \in Int
      BY <2>2
    <3> QED
      BY ONLY <3>1, ModTimes
  <2>4. Weight(row) = W * m
    <3>1. row - 1 \in Nat /\ (row - 1) + 1 = row
      BY <1>2, <1>5
    <3> QED
      BY <1>2, <2>2, <3>1, Weights
  <2> QED
    BY <1>3, <1>5, <2>1, <2>2, <2>3, <2>4
<1> QED
  BY <1>4, <1>5

\* Every step keeps the row under construction right: its elements, ratios and inverse.
LEMMA RowStep == IInv /\ [Next]_vars => RowInv'
<1> SUFFICES ASSUME IInv, [Next]_vars
             PROVE  RowInv'
  OBVIOUS
<1>0. TypeInv /\ RowInv
  BY DEF IInv
<1>1. /\ N \in Nat /\ N >= 2 /\ bits \in Nat /\ FullRow \in Int
      /\ RowSize(row) \in Int /\ RowSize(row) # 0
  BY <1>0, Numbers, RowSizes DEF TypeInv
<1>2. CASE StartRow
  <2>1. /\ bits' = bits /\ row' = row /\ pc = "row" /\ pc' = "fill" /\ i' = 1
        /\ gej_temp' = [gej_temp EXCEPT ![0] = base'] /\ one' = base'.scalar
        /\ FullRow' = FullRow
    BY <1>2 DEF StartRow, tableVars, FullRow
  <2>2. one' = Weight(row)' % N
    BY <1>2, <2>1, StartRowBase DEF Weight
  <2>3. FullRow >= 1 /\ gej_temp \in [0..(FullRow - 1) -> Point]
    BY <1>0, <2>1 DEF TypeInv, Building
  <2>4. gej_temp'[0] = base'
    BY <1>1, <2>1, <2>3
  <2>5. TypeInv'
    BY TypeStep
  <2>6. Chained(0)'
    <3>1. base'.z \in Units /\ one' \in Scalars
      BY <2>5 DEF TypeInv
    <3>2. (one' % N) = one' /\ (0 + 1) * one' = one'
      <4>1. PICK x \in Scalars : x = one'
        BY <3>1
      <4>2. (x % N) = x
        BY <1>1, RemainderSmall
      <4>3. (0 + 1) * x = x
        BY <1>1 DEF Scalars
      <4> QED
        BY <4>1, <4>2, <4>3
    <3> QED
      BY <2>1, <2>4, <3>1, <3>2 DEF Chained
  <2>7. Top' = 0
    BY <2>1 DEF Top
  <2> QED
    BY <1>1, <2>1, <2>2, <2>3, <2>6, <2>7 DEF RowInv
<1>3. CASE FillRow
  <2>1. /\ bits' = bits /\ row' = row /\ one' = one /\ pc = "fill" /\ FullRow' = FullRow
    BY <1>3 DEF FillRow, tableVars, FullRow
  <2>2. CASE i \notin DOMAIN gej_temp
    BY <1>3, <2>2 DEF FillRow, RowInv
  <2>3. CASE i \in DOMAIN gej_temp
    <3>1. pc' = "fill" /\ i' = i + 1
      BY <1>3, <2>1, <2>3 DEF FillRow
    <3>2. PICK q \in Ratios :
             /\ gej_temp' = [gej_temp EXCEPT ![i] =
                    [scalar |-> (gej_temp[i - 1].scalar + one) % N,
                     z |-> Mul(gej_temp[i - 1].z, q)]]
             /\ z_ratio' = [z_ratio EXCEPT ![i] = q]
      BY <1>3, <2>3 DEF FillRow
    <3>3. /\ gej_temp \in [0..(FullRow - 1) -> Point]
          /\ z_ratio \in [0..(FullRow - 1) -> Field]
      BY <1>0, <2>1 DEF TypeInv, Building
    <3>4. i \in 1..(FullRow - 1) /\ Top = i - 1 /\ Top' = i
      <4>1. i \in 1..FullRow
        BY <1>0, <2>1 DEF RowInv
      <4> QED
        BY <1>1, <2>1, <2>3, <3>1, <3>3, <4>1 DEF Top
    <3>5. ASSUME NEW k \in 0..(i - 1)
          PROVE  Chained(k)'
      <4>1. Chained(k)
        BY <1>0, <2>1, <3>4, <3>5 DEF RowInv
      <4>2. /\ gej_temp'[k] = gej_temp[k] /\ z_ratio'[k] = z_ratio[k]
            /\ k > 0 => gej_temp'[k - 1] = gej_temp[k - 1]
        BY <1>1, <3>2, <3>3, <3>4
      <4> QED
        BY <2>1, <4>1, <4>2 DEF Chained
    <3>6. Chained(i - 1)
      BY <1>0, <2>1, <3>4 DEF RowInv
    <3>7. /\ gej_temp'[i].scalar = (gej_temp[i - 1].scalar + one) % N
          /\ gej_temp'[i].z = Mul(gej_temp[i - 1].z, q)
          /\ gej_temp'[i - 1] = gej_temp[i - 1] /\ z_ratio'[i] = q
      BY <1>1, <3>2, <3>3, <3>4
    <3>8. gej_temp'[i].scalar = ((i + 1) * one) % N
      <4>1. PICK M \in Nat, x \in Int, j \in Int : M = N /\ M >= 1 /\ x = one /\ j = i
        BY <1>0, <1>1, <3>4 DEF TypeInv, Scalars
      <4>2. gej_temp[i - 1].scalar = ((j * x) % M)
        <5>1. (i - 1) + 1 = i
          BY <3>4
        <5> QED
          BY <3>6, <4>1, <5>1 DEF Chained
      <4>3. ((((j * x) % M) + x) % M) = ((j * x + x) % M)
        <5>1. M \in Nat /\ M >= 1 /\ j * x \in Int /\ x \in Int
          BY <4>1
        <5> QED
          BY ONLY <5>1, ModAdd
      <4>4. j * x + x = (j + 1) * x
        BY <4>1
      <4> QED
        BY <3>7, <4>1, <4>2, <4>3, <4>4
    <3>9. PICK n \in Nat : n = i
      BY <3>4
    <3>10. \A k \in 0..n : Chained(k)'
      <4>1. gej_temp[i - 1].z \in Units /\ q \in Units
        BY <3>6, UnitProducts DEF Chained
      <4>2. Mul(gej_temp[i - 1].z, q) \in Units
        BY <4>1, UnitProducts
      <4>3. Chained(n)'
        BY <2>1, <3>7, <3>8, <3>9, <4>1, <4>2 DEF Chained
      <4>4. \A k \in 0..(n - 1) : Chained(k)'
        BY <3>5, <3>9
      <4> QED
        BY <4>3, <4>4
    <3>11. one' = Weight(row)' % N
      BY <1>0, <2>1 DEF RowInv, Weight
    <3> QED
      BY <1>1, <2>1, <3>1, <3>4, <3>9, <3>10, <3>11 DEF RowInv
  <2> QED
    BY <2>2, <2>3
<1>4. CASE InvertLast
  <2>1. /\ bits' = bits /\ windows' = windows /\ row' = row /\ one' = one
        /\ gej_temp' = gej_temp /\ z_ratio' = z_ratio
        /\ pc = "fill" /\ pc' = "back" /\ i' = RowSize(row) - 1
        /\ fe_zinv' = Inv(gej_temp[i'].z)
    BY <1>4 DEF InvertLast
  <2>2. FullRow' = FullRow /\ Top' = RowSize(row) - 1 /\ Top = i - 1
    BY <2>1 DEF FullRow, Top, RowSize
  <2>3. RowSize(row) >= 1 /\ RowSize(row) <= i
    <3>1. ~(RowSize(row) < 0) /\ ~(i < RowSize(row))
      BY <1>4 DEF InvertLast, InRow
    <3>2. i \in Int
      BY <1>0, <2>1 DEF RowInv
    <3> QED
      BY <1>1, <3>1, <3>2
  <2>4. i \in 1..FullRow /\ \A k \in 0..(i - 1) : Chained(k)
    BY <1>0, <2>1, <2>2 DEF RowInv
  <2>5. \A k \in 0..Top' : Chained(k)'
    BY <1>1, <2>1, <2>2, <2>3, <2>4 DEF Chained
  <2>6. Chained(i')
    BY <1>1, <2>1, <2>2, <2>3, <2>4
  <2>7. Mul(gej_temp'[i'].z, fe_zinv') = One
    BY <2>1, <2>6, UnitProducts DEF Chained
  <2>8. one' = Weight(row)' % N
    BY <1>0, <2>1 DEF RowInv, Weight
  <2> QED
    BY <1>1, <2>1, <2>2, <2>3, <2>4, <2>5, <2>7, <2>8 DEF RowInv
<1>5. CASE StoreBack
  <2>1. /\ bits' = bits /\ windows' = windows /\ row' = row /\ one' = one
        /\ gej_temp' = gej_temp /\ z_ratio' = z_ratio
        /\ pc = "back" /\ pc' = "back" /\ i > 0 /\ i' = i - 1
        /\ fe_zinv' = Mul(fe_zinv, z_ratio[i])
    BY <1>5 DEF StoreBack
  <2>2. FullRow' = FullRow /\ Top' = Top
    BY <2>1 DEF FullRow, Top, RowSize
  <2>3. /\ Top \in 0..(FullRow - 1) /\ \A k \in 0..Top : Chained(k)
        /\ i \in 0..Top /\ Mul(gej_temp[i].z, fe_zinv) = One
    BY <1>0, <2>1 DEF RowInv
  <2>4. \A k \in 0..Top : Chained(k)'
    BY <2>1, <2>3 DEF Chained
  <2>5. Mul(gej_temp[i - 1].z, fe_zinv') = One
    <3>1. /\ gej_temp[i - 1].z \in Units /\ z_ratio[i] \in Units /\ fe_zinv \in Units
          /\ gej_temp[i].z = Mul(gej_temp[i - 1].z, z_ratio[i])
      <4>1. Chained(i) /\ Chained(i - 1) /\ i > 0
        BY <1>1, <2>1, <2>3
      <4> QED
        BY <1>0, <4>1 DEF Chained, TypeInv
    <3>2. Mul(fe_zinv, z_ratio[i]) = Mul(z_ratio[i], fe_zinv)
      BY <3>1, FieldAssumption
    <3>3. Mul(gej_temp[i - 1].z, Mul(z_ratio[i], fe_zinv)) = Mul(gej_temp[i].z, fe_zinv)
      <4>1. \A x, y, z \in Units : Mul(Mul(x, y), z) = Mul(x, Mul(y, z))
        BY FieldAssumption
      <4> QED
        BY <3>1, <4>1
    <3> QED
      BY <2>1, <2>3, <3>2, <3>3
  <2>6. i' \in 0..Top
    BY <1>1, <2>1, <2>3
  <2>7. one' = Weight(row)' % N
    BY <1>0, <2>1 DEF RowInv, Weight
  <2> QED
    BY <2>1, <2>2, <2>3, <2>4, <2>5, <2>6, <2>7 DEF RowInv
<1>6. CASE Create \/ RowDone \/ Created \/ Multiply \/ AddWindow \/ Multiplied
  <2>1. pc' \notin {"fill", "back"}
    BY <1>6 DEF Create, RowDone, Created, Multiply, AddWindow, Multiplied
  <2> QED
    BY <2>1 DEF RowInv
<1>7. CASE UNCHANGED vars
  <2>1. UNCHANGED <<pc, bits, windows, row, i, one, gej_temp, z_ratio, fe_zinv>>
    BY <1>7 DEF vars, tableVars, buildVars
  <2> QED
    BY <1>0, <2>1 DEF RowInv, Top, RowSize, FullRow, Chained, Weight
<1>8. CASE WentWrong
  BY <1>7, <1>8 DEF WentWrong
<1> QED
  BY <1>2, <1>3, <1>4, <1>5, <1>6, <1>7, <1>8 DEF Next

\* Every step keeps the base of the row: the generator doubled bits times per row.
LEMMA BaseStep == IInv /\ [Next]_vars => BaseInv'
<1> SUFFICES ASSUME IInv, [Next]_vars
             PROVE  BaseInv'
  OBVIOUS
<1>0. BaseInv /\ ControlInv /\ bits \in Nat /\ row \in Nat
  <2>1. TypeInv
    BY DEF IInv
  <2>2. ScalarBits \div bits \in Nat
    BY <2>1, WindowCount DEF TypeInv
  <2> QED
    BY <2>1, <2>2, Numbers DEF IInv, TypeInv
<1>1. CASE Create
  <2>1. pc = "create" /\ row' = row /\ base' = base /\ bits' = bits
    BY <1>1 DEF Create
  <2>2. row = 0
    BY <2>1 DEF IInv, TypeInv
  <2> QED
    BY <1>0, <2>1, <2>2 DEF BaseInv, Weight
<1>2. CASE StartRow
  <2>1. pc' = "fill" /\ row' = row /\ bits' = bits
    BY <1>2 DEF StartRow, tableVars
  <2> QED
    BY <1>2, <2>1, StartRowBase DEF BaseInv, Weight
<1>3. CASE FillRow \/ InvertLast \/ StoreBack
  <2>1. /\ pc \in {"fill", "back"} /\ pc' \in {"fill", "back", "corrupted"}
        /\ row' = row /\ base' = base /\ bits' = bits
    BY <1>3 DEF FillRow, InvertLast, StoreBack, tableVars
  <2> QED
    BY <1>0, <2>1 DEF BaseInv, Building, Weight
<1>4. CASE RowDone
  <2>1. pc = "back" /\ pc' = "row" /\ row' = row + 1 /\ base' = base /\ bits' = bits
    BY <1>4 DEF RowDone, tableVars
  <2>2. base.scalar = Weight(row) % N
    BY <1>0, <2>1 DEF BaseInv, Building
  <2>3. row' > 0 /\ row' - 1 = row
    BY <1>0, <2>1
  <2> QED
    BY <2>1, <2>2, <2>3 DEF BaseInv, Weight
<1>5. CASE Created \/ Multiply \/ AddWindow \/ Multiplied
  <2>1. ~(Building \/ pc = "create")'
    BY <1>5 DEF Created, Multiply, AddWindow, Multiplied, Building
  <2> QED
    BY <2>1 DEF BaseInv
<1>6. CASE UNCHANGED vars
  BY <1>0, <1>6 DEF vars, tableVars, buildVars, BaseInv, Building, Weight
<1>7. CASE WentWrong
  BY <1>6, <1>7 DEF WentWrong
<1> QED
  BY <1>1, <1>2, <1>3, <1>4, <1>5, <1>6, <1>7 DEF Next

-----------------------------------------------------------------------------
(* The entries of the table.                                               *)

-----------------------------------------------------------------------------
(* The entries of the table.                                               *)

\* Storing an element of the row makes its entry right, and no other wrong.
LEMMA StoreRight ==
    ASSUME TypeInv, ControlInv, Fits, pc \in {"fill", "back"},
           UNCHANGED <<bits, windows, row>>,
           NEW k \in 0..(RowSize(row) - 1), NEW zinv, Store(k, zinv),
           gej_temp[k].scalar = ((k + 1) * one) % N, one = Weight(row) % N,
           Mul(gej_temp[k].z, zinv) = One
    PROVE  \A v \in 0..(windows - 1), j \in 0..(FullRow - 1) :
              (v = row /\ j = k) \/ (j < RowSize(v) /\ EntryRight(v, j)) => EntryRight(v, j)'
<1>1. /\ bits \in WindowSizes /\ windows = ScalarBits \div bits + 1
      /\ ScalarBits \div bits \in Nat /\ row \in Nat /\ row < windows /\ bits \in Nat
      /\ N \in Nat /\ N >= 2
  <2>1. bits \in WindowSizes /\ windows = ScalarBits \div bits + 1
    BY DEF TypeInv
  <2> QED
    BY <2>1, WindowCount, Numbers DEF TypeInv, ControlInv
<1>2. DOMAIN precomp = 0..(TotalSize - 1)
  BY DEF ControlInv
<1>3. /\ FullRow \in Nat /\ FullRow >= 1 /\ \A v : RowSize(v) \in 1..FullRow
      /\ \A v, j : Place(v, j)' = Place(v, j)
  <2>1. /\ FullRow \in Nat /\ FullRow >= 1 /\ \A v : RowSize(v) \in 1..FullRow
    BY <1>1, RowsFit
  <2> QED
    BY <2>1 DEF Place, FullRow
<1>4. precomp' = [precomp EXCEPT ![Place(row, k)] =
                     [scalar |-> gej_temp[k].scalar, scale |-> One]]
  BY DEF Store
<1>5. ((k + 1) * one) % N = ((k + 1) * Weight(row)) % N
  <2>1. PICK M \in Nat, W \in Nat, x \in Int : M = N /\ M >= 1 /\ W = Weight(row) /\ x = k + 1
    <3>1. Weight(row) \in Nat /\ N >= 1 /\ k + 1 \in Int
      BY <1>1, <1>3, Weights
    <3> QED
      BY <1>1, <3>1
  <2>2. (((W % M) * x) % M) = ((W * x) % M)
    <3>1. M \in Nat /\ M >= 1 /\ W \in Int /\ x \in Int
      BY <2>1
    <3> QED
      BY ONLY <3>1, ModTimes
  <2>3. W * x = x * W
    BY <2>1
  <2>4. x * (W % M) = (W % M) * x
    <3>1. (W % M) \in Int /\ x \in Int
      <4>1. M \in Nat /\ M >= 1 /\ W \in Int
        BY <2>1
      <4>2. (W % M) \in 0..(M - 1)
        BY ONLY <4>1, Division
      <4> QED
        BY <2>1, <4>2
    <3> QED
      BY ONLY <3>1
  <2> QED
    BY <2>1, <2>2, <2>3, <2>4
<1>6. Place(row, k) \in DOMAIN precomp
  <2>1. row \in 0..(windows - 1)
    BY <1>1
  <2>2. Place(row, k) \in 0..(TotalSize - 1)
    BY <1>1, <2>1, PlacesFill
  <2> QED
    BY <1>2, <2>2
<1>7. ASSUME NEW v \in 0..(windows - 1), NEW j \in 0..(FullRow - 1), v = row, j = k
      PROVE  EntryRight(v, j)'
  <2>1. precomp'[Place(v, j)] = [scalar |-> ((j + 1) * Weight(v)) % N, scale |-> One]
    BY <1>4, <1>5, <1>6, <1>7
  <2> QED
    BY <1>3, <2>1 DEF EntryRight, Weight
<1>8. ASSUME NEW v \in 0..(windows - 1), NEW j \in 0..(FullRow - 1),
             ~(v = row /\ j = k), j < RowSize(v), EntryRight(v, j)
      PROVE  EntryRight(v, j)'
  <2>1. /\ v \in Nat /\ k \in 0..(FullRow - 1) /\ j \in 0..(RowSize(v) - 1)
    BY <1>1, <1>3, <1>8
  <2>2. Place(v, j) # Place(row, k)
    BY <1>1, <1>3, <1>8, <2>1, PlaceUnique
  <2>3. precomp'[Place(v, j)] = precomp[Place(v, j)]
    <3>1. Place(v, j) \in 0..(TotalSize - 1)
      BY <1>1, <2>1, PlacesFill
    <3> QED
      BY <1>2, <1>4, <2>2, <3>1
  <2> QED
    BY <1>3, <1>8, <2>3 DEF EntryRight, Weight
<1> QED
  BY <1>7, <1>8

\* Every step keeps the elements stored so far, and stores only right ones.
LEMMA StoredStep == IInv /\ [Next]_vars => StoredInv'
<1> SUFFICES ASSUME IInv, [Next]_vars, Fits', pc' # "create",
                    NEW w \in 0..(windows' - 1), NEW k \in 0..(FullRow' - 1), Stored(w, k)'
             PROVE  EntryRight(w, k)'
  BY DEF StoredInv
<1>0. /\ TypeInv /\ ControlInv /\ RowInv /\ StoredInv
      /\ bits \in WindowSizes /\ row \in Nat
  <2>1. TypeInv /\ ControlInv /\ RowInv /\ StoredInv /\ bits \in WindowSizes
    BY DEF IInv, TypeInv
  <2>2. ScalarBits \div bits \in Nat
    BY <2>1, WindowCount
  <2> QED
    BY <2>1, <2>2 DEF TypeInv
<1>1. CASE Create
  <2>1. row' = 0 /\ pc' # "back"
    BY <1>0, <1>1 DEF Create, TypeInv
  <2> QED
    BY <2>1 DEF Stored
<1>2. ASSUME UNCHANGED <<bits, windows, precomp>>, pc # "create", Stored(w, k)
      PROVE  EntryRight(w, k)'
  <2>1. Fits /\ w \in 0..(windows - 1) /\ k \in 0..(FullRow - 1)
    BY <1>2 DEF Fits, FullRow
  <2>2. EntryRight(w, k)
    BY <1>0, <1>2, <2>1 DEF StoredInv
  <2> QED
    BY <1>2, <2>2 DEF EntryRight, Place, Weight, FullRow
<1>3. CASE StartRow \/ FillRow \/ Created \/ Multiply \/ AddWindow \/ Multiplied
  <2>1. UNCHANGED <<bits, windows, precomp, row>> /\ pc # "create" /\ pc' # "back"
    BY <1>3
    DEF StartRow, FillRow, Created, Multiply, AddWindow, Multiplied, tableVars, buildVars
  <2>2. Stored(w, k)
    BY <2>1 DEF Stored, RowSize, FullRow
  <2> QED
    BY <1>2, <2>1, <2>2
<1>4. ASSUME NEW n \in 0..(RowSize(row) - 1), Fits, pc \in {"fill", "back"},
             UNCHANGED <<bits, windows, row>>, Store(n, fe_zinv'),
             Chained(n), one = Weight(row) % N, Mul(gej_temp[n].z, fe_zinv') = One,
             (w = row /\ k = n) \/ (Stored(w, k) /\ k < RowSize(w))
      PROVE  EntryRight(w, k)'
  <2>1. PICK zinv : zinv = fe_zinv'
    OBVIOUS
  <2>2. Store(n, zinv) /\ gej_temp[n].scalar = ((n + 1) * one) % N
    BY <1>4, <2>1 DEF Store, Chained
  <2>3. w \in 0..(windows - 1) /\ k \in 0..(FullRow - 1)
    BY <1>4 DEF FullRow
  <2>4. Stored(w, k) => EntryRight(w, k)
    BY <1>0, <1>4, <2>3 DEF StoredInv
  <2>5. Mul(gej_temp[n].z, zinv) = One
    BY <1>4, <2>1
  <2> QED
    BY <1>0, <1>4, <2>2, <2>3, <2>4, <2>5, StoreRight
<1>5. CASE InvertLast
  <2>1. /\ UNCHANGED <<bits, windows, row>> /\ pc = "fill" /\ pc' = "back" /\ Fits
        /\ i' = RowSize(row) - 1 /\ fe_zinv' = Inv(gej_temp[i'].z) /\ Store(i', fe_zinv')
    <3>1. UNCHANGED <<bits, windows, row>> /\ pc = "fill" /\ pc' = "back"
      BY <1>5 DEF InvertLast
    <3> QED
      BY <1>5, <3>1 DEF InvertLast, Store, Fits
  <2>2. RowSize(row) \in 1..FullRow /\ i <= RowSize(row) /\ ~(i < RowSize(row)) /\ Top = i - 1
        /\ i \in Int
    <3>1. RowSize(row) \in 1..FullRow
      BY <1>0, <2>1, RowsFit
    <3>2. ~(i < RowSize(row))
      BY <1>5 DEF InvertLast, InRow
    <3> QED
      BY <1>0, <2>1, <3>1, <3>2 DEF ControlInv, Top, RowInv
  <2>3. PICK n \in 0..(RowSize(row) - 1) : n = i' /\ n = Top /\ n = RowSize(row) - 1
    BY <1>0, <2>1, <2>2, RowsFit
  <2>4. Chained(n) /\ one = Weight(row) % N
    BY <1>0, <2>1, <2>3 DEF RowInv
  <2>5. Mul(gej_temp[n].z, fe_zinv') = One
    BY <2>1, <2>3, <2>4, UnitProducts DEF Chained
  <2>6. Top' = n
    BY <2>1, <2>3 DEF Top, RowSize, FullRow
  <2>7. (w = row /\ k = n) \/ (w < row /\ k < RowSize(w))
    BY <2>1, <2>3, <2>6 DEF Stored, RowSize, FullRow
  <2>8. (w = row /\ k = n) \/ (Stored(w, k) /\ k < RowSize(w))
    BY <2>7 DEF Stored
  <2>9. pc \in {"fill", "back"} /\ Store(n, fe_zinv')
    BY <2>1, <2>3 DEF Store
  <2> QED
    BY <2>1, <2>4, <2>5, <2>8, <2>9, <1>4
<1>6. CASE StoreBack
  <2>1. /\ UNCHANGED <<bits, windows, row>> /\ pc = "back" /\ pc' = "back" /\ Fits
        /\ i > 0 /\ i' = i - 1 /\ Store(i - 1, fe_zinv')
        /\ fe_zinv' = Mul(fe_zinv, z_ratio[i]) /\ gej_temp' = gej_temp
    BY <1>6 DEF StoreBack, Store, Fits
  <2>2. /\ RowSize(row) \in 1..FullRow /\ Top = RowSize(row) - 1 /\ i \in 0..Top
        /\ FullRow \in Int
    BY <1>0, <2>1, RowsFit DEF Top, RowInv
  <2>3. PICK n \in 0..(RowSize(row) - 1) : n = i - 1 /\ n \in 0..Top /\ i = n + 1
    BY <2>1, <2>2
  <2>4. Chained(n) /\ one = Weight(row) % N
    BY <1>0, <2>1, <2>3 DEF RowInv
  <2>5. Mul(gej_temp[n].z, fe_zinv') = One
    <3>1. RowInv'
      BY RowStep
    <3> QED
      BY <2>1, <2>3, <3>1 DEF RowInv
  <2>6. Top' = Top
    BY <2>1 DEF Top, RowSize, FullRow
  <2>7. (w = row /\ k = n) \/ Stored(w, k)
    BY <2>1, <2>2, <2>3, <2>6 DEF Stored, RowSize, FullRow
  <2>8. Stored(w, k) => k < RowSize(w)
    BY <2>1, <2>2 DEF Stored
  <2> QED
    BY <2>1, <2>3, <2>4, <2>5, <2>7, <2>8, <1>4
<1>7. CASE RowDone
  <2>1. /\ UNCHANGED <<bits, windows, precomp>> /\ pc = "back" /\ pc' = "row"
        /\ i = 0 /\ row' = row + 1
    BY <1>7 DEF RowDone, tableVars
  <2>2. w <= row /\ k < RowSize(w) /\ Top = RowSize(row) - 1
    BY <1>0, <2>1 DEF Stored, Top, RowSize, FullRow
  <2>3. RowSize(row) \in Int
    BY <1>0, RowSizes
  <2>4. Stored(w, k)
    BY <1>0, <2>1, <2>2, <2>3 DEF Stored
  <2> QED
    BY <1>2, <2>1, <2>4
<1>8. CASE UNCHANGED vars
  <2>1. UNCHANGED <<pc, i, bits, windows, precomp, row>>
    BY <1>8 DEF vars, tableVars, buildVars
  <2>2. Stored(w, k)
    BY <2>1 DEF Stored, Top, RowSize, FullRow
  <2> QED
    BY <1>2, <2>1, <2>2
<1>9. CASE WentWrong
  BY <1>8, <1>9 DEF WentWrong
<1> QED
  BY <1>1, <1>3, <1>5, <1>6, <1>7, <1>8, <1>9 DEF Next

-----------------------------------------------------------------------------
(* The multiplication.                                                     *)

\* The bits the windows from w on have to make up for: those of the last window
\* are fewer than a window.
LEMMA WindowLeft ==
    ASSUME bits \in WindowSizes, NEW w \in 0..(ScalarBits \div bits)
    PROVE  /\ ScalarBits - bits * w \in Nat
           /\ w < ScalarBits \div bits =>
                /\ ScalarBits - bits * w >= bits
                /\ ScalarBits - bits * (w + 1) = (ScalarBits - bits * w) - bits
           /\ w = ScalarBits \div bits =>
                /\ ScalarBits - bits * w = ScalarBits % bits
                /\ ScalarBits - bits * w < bits
<1> PICK q \in Nat, b \in Nat, e \in Nat, n \in Nat :
        /\ q = ScalarBits \div bits /\ b = bits /\ e = ScalarBits % bits /\ n = ScalarBits
        /\ e < b /\ n = b * q + e
  <2>1. bits \in Nat /\ bits >= 2 /\ ScalarBits \in Nat
    BY Widths
  <2>2. /\ ScalarBits \div bits \in Nat /\ (ScalarBits % bits) \in 0..(bits - 1)
        /\ ScalarBits = bits * (ScalarBits \div bits) + (ScalarBits % bits)
    BY WindowCount
  <2>3. (ScalarBits % bits) \in Nat /\ ScalarBits % bits < bits
    BY <2>1, <2>2
  <2> QED
    BY <2>1, <2>2, <2>3
<1> PICK v \in Nat : v = w /\ v <= q
  OBVIOUS
<1>1. n - b * v = b * (q - v) + e
  <2>1. b * (q - v) = b * q - b * v
    BY ONLY b \in Nat, q \in Nat, v \in Nat
  <2>2. b * v \in Int /\ b * q \in Int
    OBVIOUS
  <2> QED
    BY <2>1, <2>2
<1>2. b * (q - v) >= 0 /\ (q - v >= 1 => b * (q - v) >= b) /\ b * (q - v) \in Int
  BY ONLY b \in Nat, q \in Nat, v \in Nat, v <= q
<1>3. b * (v + 1) = b * v + b /\ b * v \in Int
  BY ONLY b \in Nat, v \in Nat
<1>4. q = v => b * (q - v) = 0
  BY ONLY b \in Nat, q \in Nat, v \in Nat
<1>5. n - b * v \in Nat
  BY <1>1, <1>2
<1>6. v < q => n - b * v >= b /\ n - b * (v + 1) = (n - b * v) - b
  BY ONLY <1>1, <1>2, <1>3, n \in Nat, b \in Nat, e \in Nat, q \in Nat, v \in Nat
<1>7. v = q => n - b * v = e /\ n - b * v < b
  BY <1>1, <1>4
<1> QED
  BY <1>5, <1>6, <1>7

\* The digit of a window is in its row, also in the last and shorter one.
LEMMA DigitInRow ==
    ASSUME TypeInv, Fits, MultiplyInv, pc = "multiply", window < windows
    PROVE  /\ SDigit(s) \in Int
           /\ Magnitude(SDigit(s)) \in Nat
           /\ Magnitude(SDigit(s)) <= RowSize(window)
           /\ RowSize(window) \in 1..FullRow /\ FullRow \in Nat
<1>1. /\ bits \in WindowSizes /\ s \in Scalars /\ bits \in Nat
      /\ windows = ScalarBits \div bits + 1 /\ ScalarBits \div bits \in Nat
      /\ window \in 0..(ScalarBits \div bits)
  <2>1. /\ bits \in WindowSizes /\ s \in Scalars /\ windows = ScalarBits \div bits + 1
        /\ window \in 0..windows
    BY DEF TypeInv
  <2> QED
    BY <2>1, WindowCount, Widths
<1>2. /\ FullRow \in Nat /\ FullRow >= 1 /\ RowSize(window) \in 1..FullRow
      /\ Shl(ScalarBits % bits) = 2^(ScalarBits % bits)
  BY <1>1, RowsFit
<1> PICK F \in Nat : F = FullRow
  BY <1>2
<1> PICK d \in -F..F : d = SDigit(s)
  BY <1>1, DigitSplit
<1>3. Magnitude(d) \in Nat /\ Magnitude(d) <= F
  BY DEF Magnitude
<1>4. CASE window < windows - 1
  <2>1. RowSize(window) = FullRow
    BY <1>1, <1>4 DEF RowSize
  <2> QED
    BY <1>2, <1>3, <2>1
<1>5. CASE ~(window < windows - 1)
  <2>1. window = ScalarBits \div bits /\ window = windows - 1
    BY <1>1, <1>5
  <2>2. RowSize(window) = 2^(ScalarBits % bits)
    BY <1>2, <2>1 DEF RowSize
  <2>3. PICK E \in Nat : E = ScalarBits - bits * window /\ E = ScalarBits % bits /\ E < bits
    BY <1>1, <2>1, WindowLeft
  <2>4. s <= 2^E
    BY <2>3 DEF MultiplyInv
  <2>5. d = s
    BY <1>1, <2>3, <2>4, RestLength
  <2>6. Magnitude(d) = s
    BY <1>1, <2>5, Widths DEF Magnitude, Scalars
  <2> QED
    BY <1>2, <1>3, <2>2, <2>3, <2>4, <2>6
<1> QED
  BY <1>4, <1>5

\* What a window adds: the entry found is the right one.
LEMMA EntryFound ==
    ASSUME IInv, Fits, pc = "multiply", window < windows,
           NEW d \in Int, d = SDigit(s), d # 0,
           NEW k, k = Place(window, Magnitude(d) - 1)
    PROVE  /\ k \in DOMAIN precomp
           /\ precomp[k] = [scalar |-> (Magnitude(d) * Weight(window)) % N, scale |-> One]
           /\ precomp[k] # Garbage
<1>1. TypeInv /\ ControlInv /\ StoredInv /\ MultiplyInv
  BY DEF IInv
<1>2. /\ bits \in WindowSizes /\ bits \in Nat /\ windows = ScalarBits \div bits + 1
      /\ ScalarBits \div bits \in Nat /\ window \in 0..(windows - 1) /\ N \in Nat /\ N >= 2
  <2>1. /\ bits \in WindowSizes /\ windows = ScalarBits \div bits + 1
        /\ window \in 0..windows
    BY <1>1 DEF TypeInv
  <2> QED
    BY <2>1, WindowCount, Widths
<1>3. /\ Magnitude(d) \in Nat /\ Magnitude(d) <= RowSize(window)
      /\ RowSize(window) \in 1..FullRow /\ FullRow \in Nat
  BY <1>1, DigitInRow
<1>4. Magnitude(d) >= 1
  BY DEF Magnitude
<1> PICK j \in Nat : j = Magnitude(d) - 1 /\ j + 1 = Magnitude(d)
  BY <1>3, <1>4
<1>5. j \in 0..(RowSize(window) - 1) /\ j \in 0..(FullRow - 1) /\ j < RowSize(window)
  BY <1>3
<1>6. k \in DOMAIN precomp
  <2>1. k \in 0..(TotalSize - 1)
    BY <1>2, <1>5, PlacesFill
  <2> QED
    BY <1>1, <2>1 DEF ControlInv
<1>7. EntryRight(window, j)
  <2>1. row = windows
    BY <1>1 DEF ControlInv, Usable
  <2>2. Stored(window, j)
    BY <1>2, <1>5, <2>1 DEF Stored
  <2> QED
    BY <1>1, <1>2, <1>5, <2>2 DEF StoredInv
<1>8. precomp[k] = [scalar |-> (Magnitude(d) * Weight(window)) % N, scale |-> One]
  BY <1>7 DEF EntryRight
<1>9. precomp[k] # Garbage
  <2>1. PICK x \in Int : x = Magnitude(d) * Weight(window)
    <3>1. Weight(window) \in Nat
      BY <1>2, Weights
    <3> QED
      BY <1>3, <3>1
  <2>2. (x % N) \in Scalars
    BY <1>2, Remainder
  <2>3. precomp[k] \in [scalar : 0..(N - 1), scale : Field]
    BY <1>8, <2>1, <2>2, UnitProducts DEF Scalars
  <2> QED
    BY <2>3, GarbageAssumption
<1> QED
  BY <1>6, <1>8, <1>9

\* Every step of a multiplication keeps the balance of sum and rest.
LEMMA MultiplyStep == IInv /\ [Next]_vars => MultiplyInv'
<1> SUFFICES ASSUME IInv, [Next]_vars, Fits', pc' \in {"multiply", "product"}
             PROVE  MultiplyInv'
  BY DEF MultiplyInv
<1>0. /\ TypeInv /\ ControlInv /\ MultiplyInv /\ bits \in WindowSizes
      /\ bits \in Nat /\ N \in Nat /\ N >= 2 /\ N < 2^ScalarBits /\ ScalarBits \in Nat
      /\ 2^bits \in Nat
      /\ ScalarBits \div bits \in Nat /\ ScalarBits \div bits >= 1
  <2>1. TypeInv /\ ControlInv /\ MultiplyInv /\ bits \in WindowSizes
    BY DEF IInv, TypeInv
  <2> QED
    BY <2>1, Widths, WindowCount
<1>1. CASE Multiply
  <2>1. /\ UNCHANGED <<bits, windows>> /\ pc \in {"ready", "product"} /\ pc' = "multiply"
        /\ window' = 0 /\ r' = 0 /\ \E v \in Scalars : a' = v /\ s' = v
    BY <1>1 DEF Multiply, tableVars
  <2>2. PICK v \in Scalars : a' = v /\ s' = v
    BY <2>1
  <2>3. windows = ScalarBits \div bits + 1
    BY <1>0, <2>1 DEF TypeInv
  <2>4. (0 + v * Weight(0)) % N = v
    <3>1. Weight(0) = 1 /\ v \in Nat
      BY <1>0, Weights DEF Scalars
    <3>2. 0 + v * 1 = v
      BY <3>1
    <3>3. (v % N) = v
      BY <1>0, RemainderSmall
    <3> QED
      BY <3>1, <3>2, <3>3
  <2>5. v <= 2^ScalarBits
    <3>1. 2^ScalarBits \in Nat
      BY <1>0, PowerPositive
    <3> QED
      BY <1>0, <3>1 DEF Scalars
  <2>6. 0 \in Scalars /\ bits * 0 = 0 /\ ScalarBits - 0 = ScalarBits
    BY <1>0 DEF Scalars
  <2>7. Weight(window)' = Weight(0)
    BY <2>1 DEF Weight
  <2>8. v <= 2^(ScalarBits - bits * 0)
    BY <2>5, <2>6
  <2>9. windows' # window'
    BY <1>0, <2>1, <2>3
  <2> QED
    BY <2>1, <2>2, <2>4, <2>6, <2>7, <2>8, <2>9 DEF MultiplyInv
<1>2. CASE AddWindow
  <2>1. /\ UNCHANGED <<pc, bits, windows, precomp, a>> /\ s' = Rest(s)
        /\ window' = window + 1 /\ window < windows /\ pc = "multiply" /\ Fits
    <3>1. UNCHANGED <<pc, bits, windows, precomp, a>>
      BY <1>2 DEF AddWindow, tableVars
    <3> QED
      BY <1>2, <3>1 DEF AddWindow, Fits
  <2>2. /\ windows = ScalarBits \div bits + 1 /\ window \in 0..(ScalarBits \div bits)
        /\ s \in Scalars /\ r \in Scalars
    <3>1. windows = ScalarBits \div bits + 1 /\ window \in 0..windows /\ s \in Scalars
      BY <1>0, <2>1 DEF TypeInv
    <3>2. r \in Scalars
      BY <1>0, <2>1 DEF MultiplyInv
    <3> QED
      BY <1>0, <2>1, <3>1, <3>2
  <2>3. /\ SDigit(s) \in -FullRow..FullRow /\ Rest(s) \in Scalars
        /\ s = SDigit(s) + Rest(s) * 2^bits /\ FullRow \in Nat
    BY <1>0, <2>1, <2>2, DigitSplit, RowsFit
  <2> PICK d \in Int, t \in Nat : d = SDigit(s) /\ t = Rest(s)
    BY <1>0, <2>3 DEF Scalars
  <2> PICK m \in Int, M \in Nat : m = 2^bits /\ M = N /\ M >= 1
    BY <1>0
  <2> PICK W \in Int : W = Weight(window)
    BY <1>0, <2>2, Weights
  <2> PICK r0 \in Int : r0 = r
    BY <1>0, <2>2 DEF Scalars
  <2>10. s = d + t * m
    BY <2>3
  <2>4. /\ r' \in Scalars
        /\ (r' + t * (W * m)) % N = (r0 + (d + t * m) * W) % N
    <3> DEFINE k == Place(window, Magnitude(d) - 1)
               e == IF k \in DOMAIN precomp THEN precomp[k] ELSE Garbage
    <3>1. r' = IF d = 0 THEN r
               ELSE IF Garbage \in {e, r} THEN Garbage
               ELSE IF e.scale # One THEN Garbage
               ELSE (r + (IF d < 0 THEN N - e.scalar ELSE e.scalar)) % N
      BY <1>2 DEF AddWindow
    <3>2. CASE d = 0
      <4>1. r' = r0 /\ r' \in Scalars
        BY <2>2, <3>1, <3>2
      <4>2. r0 + t * (W * m) = r0 + (d + t * m) * W
        <5>1. t * (W * m) = (t * m) * W
          BY ONLY t \in Nat, W \in Int, m \in Int
        <5>2. d + t * m = t * m
          BY <3>2
        <5> QED
          BY <5>1, <5>2
      <4> QED
        BY <4>1, <4>2
    <3>3. CASE d # 0
      <4>1. /\ e = [scalar |-> (Magnitude(d) * W) % N, scale |-> One]
            /\ e # Garbage
        BY <2>1, <3>3, EntryFound
      <4>2. r # Garbage
        BY <2>2, GarbageAssumption DEF Scalars
      <4> PICK z \in Int : z = d * W
        OBVIOUS
      <4>3. PICK g \in Int :
               /\ g = Magnitude(d) * W
               /\ d < 0 => z = 0 - g
               /\ ~(d < 0) => z = g
        <5>1. (-d) * W = 0 - d * W
          BY ONLY d \in Int, W \in Int
        <5> QED
          BY <5>1 DEF Magnitude
      <4>4. PICK y \in Int : y = (g % M)
        <5>1. (g % M) \in 0..(M - 1)
          BY ONLY g \in Int, M \in Nat, M >= 1, Division
        <5> QED
          BY <5>1
      <4> HIDE DEF e, k
      <4>5. e.scalar = y /\ e.scale = One
        <5>1. e.scalar = (Magnitude(d) * W) % N /\ e.scale = One
          BY <4>1
        <5>2. g = Magnitude(d) * W /\ y = (g % M) /\ M = N
          BY <4>3, <4>4
        <5> QED
          BY ONLY <5>1, <5>2
      <4>6. PICK x \in Int : r' = (r0 + x) % M /\ (x % M) = (z % M)
        <5>1. r' = (r0 + (IF d < 0 THEN M - y ELSE y)) % M
          BY <3>1, <3>3, <4>1, <4>2, <4>5
        <5>2. CASE d < 0
          <6>1. r' = (r0 + (M - y)) % M
            BY <5>1, <5>2
          <6>2. ((M - (g % M)) % M) = ((0 - g) % M)
            BY ONLY g \in Int, M \in Nat, M >= 1, ModNegative
          <6>3. z = 0 - g /\ M - y \in Int
            BY <4>3, <5>2
          <6>4. ((M - y) % M) = (z % M)
            BY ONLY <4>4, <6>2, <6>3
          <6> QED
            BY ONLY <6>1, <6>3, <6>4
        <5>3. CASE ~(d < 0)
          <6>1. r' = (r0 + y) % M
            BY <5>1, <5>3
          <6>2. ((g % M) % M) = (g % M)
            BY ONLY g \in Int, M \in Nat, M >= 1, ModTwice
          <6>3. z = g
            BY <4>3, <5>3
          <6>4. (y % M) = (z % M)
            BY ONLY <4>4, <6>2, <6>3
          <6> QED
            BY ONLY <6>1, <6>4, y \in Int
        <5> QED
          BY <5>2, <5>3
      <4>7. ((((r0 + x) % M) + t * (W * m)) % M) = ((r0 + (d + t * m) * W) % M)
        <5>1. ((x + r0) % M) = ((z + r0) % M)
          <6>1. (x % M) = (z % M)
            BY <4>6
          <6>2. (((x % M) + r0) % M) = ((x + r0) % M)
            BY ONLY x \in Int, r0 \in Int, M \in Nat, M >= 1, ModAdd
          <6>3. (((z % M) + r0) % M) = ((z + r0) % M)
            BY ONLY z \in Int, r0 \in Int, M \in Nat, M >= 1, ModAdd
          <6> QED
            BY ONLY <6>1, <6>2, <6>3
        <5> PICK u \in Int : u = t * (W * m)
          OBVIOUS
        <5>2. ((((z + r0) % M) + u) % M) = ((z + r0 + u) % M)
          <6>1. z + r0 \in Int
            OBVIOUS
          <6> QED
            BY ONLY <6>1, u \in Int, M \in Nat, M >= 1, ModAdd
        <5>3. z + r0 + u = r0 + (d + t * m) * W
          <6>1. t * (W * m) = (t * m) * W
            BY ONLY t \in Nat, W \in Int, m \in Int
          <6>2. (d + t * m) * W = d * W + (t * m) * W
            BY ONLY d \in Int, t \in Nat, W \in Int, m \in Int
          <6>3. u = (t * m) * W /\ z = d * W
            BY ONLY <6>1, u = t * (W * m), z = d * W
          <6> QED
            BY <6>2, <6>3
        <5>4. r0 + x = x + r0
          OBVIOUS
        <5> QED
          BY ONLY <5>1, <5>2, <5>3, <5>4, u = t * (W * m)
      <4>8. r' \in Scalars
        <5>1. r0 + x \in Int
          OBVIOUS
        <5>2. \A q \in Int : (q % N) \in Scalars
          BY <1>0, Remainder
        <5> QED
          BY <4>6, <5>1, <5>2
      <4> QED
        BY <4>6, <4>7, <4>8
    <3> QED
      BY <3>2, <3>3
  <2>5. (r' + s' * Weight(window)') % N = a'
    <3>1. Weight(window)' = W * m
      <4>1. Weight(window)' = Weight(window + 1)
        BY <2>1 DEF Weight
      <4> QED
        BY <1>0, <2>2, <4>1, Weights
    <3>2. (r + s * Weight(window)) % N = a
      BY <1>0, <2>1 DEF MultiplyInv
    <3> QED
      BY <2>1, <2>4, <2>10, <3>1, <3>2
  <2>6. PICK E \in Nat : E = ScalarBits - bits * window
    BY <1>0, <2>2, WindowLeft
  <2>7. s <= 2^E
    BY <1>0, <2>1, <2>6 DEF MultiplyInv
  <2>8. ASSUME window' < windows'
        PROVE  s' <= 2^(ScalarBits - bits' * window')
    <3>1. window < ScalarBits \div bits
      BY <1>0, <2>1, <2>2, <2>8
    <3>2. E >= bits /\ ScalarBits - bits * (window + 1) = E - bits
      BY <1>0, <2>2, <2>6, <3>1, WindowLeft
    <3>3. Rest(s) <= 2^(E - bits)
      BY <1>0, <2>1, <2>2, <2>7, <3>2, RestLength
    <3> QED
      BY <2>1, <3>2, <3>3
  <2>9. ASSUME window' = windows'
        PROVE  s' = 0
    <3>1. window = ScalarBits \div bits
      BY <1>0, <2>1, <2>2, <2>9
    <3>2. E < bits
      BY <1>0, <2>2, <2>6, <3>1, WindowLeft
    <3> QED
      BY <1>0, <2>1, <2>2, <2>7, <3>2, RestLength
  <2> QED
    BY <2>1, <2>4, <2>5, <2>8, <2>9 DEF MultiplyInv
<1>3. CASE Multiplied
  <2>1. /\ UNCHANGED <<bits, windows, window, a, s, r>> /\ pc = "multiply" /\ pc' = "product"
        /\ window = windows \/ s = 0
    BY <1>3 DEF Multiplied, tableVars, multVars
  <2>2. Fits
    BY <2>1 DEF Fits
  <2> QED
    BY <1>0, <2>1, <2>2 DEF MultiplyInv, Weight
<1>4. CASE Create \/ StartRow \/ FillRow \/ InvertLast \/ StoreBack \/ RowDone \/ Created
  <2>1. pc' \notin {"multiply", "product"}
    BY <1>4 DEF Create, StartRow, FillRow, InvertLast, StoreBack, RowDone, Created
  <2> QED
    BY <2>1
<1>5. CASE UNCHANGED vars
  BY <1>0, <1>5 DEF vars, tableVars, multVars, MultiplyInv, Weight, Fits
<1>6. CASE WentWrong
  BY <1>5, <1>6 DEF WentWrong
<1> QED
  BY <1>1, <1>2, <1>3, <1>4, <1>5, <1>6 DEF Next

-----------------------------------------------------------------------------
(* What the invariant is for.                                              *)

\* The invariant holds in every state: no step of secp256k1_ecmult_big_create or
\* of secp256k1_ecmult_big breaks a part of it, whatever the order of the group
\* and the widths are.
THEOREM Invariance == Spec => []IInv
<1>1. IInv /\ [Next]_vars => IInv'
  BY TypeStep, ControlStep, RowStep, BaseStep, StoredStep, MultiplyStep DEF IInv
<1> QED
  BY <1>1, InitInv, PTL DEF Spec

\* The variables keep their types, and for a window size for which 1 << bits is
\* a positive int the build neither aborts nor writes outside gej_temp and
\* z_ratio.
THEOREM TypeCorrect == Spec => []TypeOK
<1>1. IInv => TypeOK
  <2> SUFFICES ASSUME IInv
               PROVE  TypeOK
    OBVIOUS
  <2>1. TypeInv /\ ControlInv
    BY DEF IInv
  <2>2. pc \in {"create", "row", "fill", "back", "ready", "multiply", "product"}
              \cup (IF Fits THEN {} ELSE {"aborted", "corrupted"})
    BY <2>1 DEF TypeInv, ControlInv, Building, Usable
  <2>3. \A k \in DOMAIN gej_temp : gej_temp[k] \in Point /\ z_ratio[k] \in Field
    <3>1. CASE Building \/ pc = "corrupted"
      BY <2>1, <3>1 DEF TypeInv
    <3>2. CASE ~(Building \/ pc = "corrupted")
      <4>1. gej_temp = <<>>
        BY <2>1, <3>2 DEF TypeInv
      <4> QED
        BY <4>1
    <3> QED
      BY <3>1, <3>2
  <2>4. Fits /\ pc # "create" => DOMAIN precomp = 0..(TotalSize - 1)
    BY <2>1 DEF ControlInv
  <2> QED
    BY <2>1, <2>2, <2>3, <2>4 DEF TypeInv, TypeOK
<1> QED
  BY <1>1, Invariance, PTL

\* The table built for such a window size is complete and right: the rows fill
\* the one block of memory without a hole or an overlap, and every entry is the
\* affine point its row and column stand for.
THEOREM TableCorrect == Spec => []TableRight
<1>1. IInv => TableRight
  <2> SUFFICES ASSUME IInv, Fits, Usable
               PROVE  /\ DOMAIN precomp = UNION {{Place(w, k) : k \in 0..(RowSize(w) - 1)} :
                                                    w \in 0..(windows - 1)}
                      /\ \A w \in 0..(windows - 1) : \A k \in 0..(RowSize(w) - 1) :
                           precomp[Place(w, k)] =
                             [scalar |-> ((k + 1) * 2^(bits * w)) % N, scale |-> One]
    BY DEF TableRight, Usable
  <2>1. /\ bits \in WindowSizes /\ windows = ScalarBits \div bits + 1 /\ row = windows
        /\ DOMAIN precomp = 0..(TotalSize - 1) /\ pc # "create"
    BY DEF IInv, TypeInv, ControlInv, Usable
  <2>2. FullRow \in Nat /\ \A w : RowSize(w) \in 1..FullRow
    BY <2>1, RowsFit
  <2>3. DOMAIN precomp = UNION {{Place(w, k) : k \in 0..(RowSize(w) - 1)} : w \in 0..(windows - 1)}
    <3> DEFINE rows == 0..(windows - 1)
               columns(w) == 0..(RowSize(w) - 1)
               all == 0..(TotalSize - 1)
    <3>1. \A w \in rows : \A k \in columns(w) : Place(w, k) \in all
      BY <2>1, PlacesFill
    <3>2. \A x \in all : \E w \in rows : \E k \in columns(w) : x = Place(w, k)
      BY <2>1, PlacesFill
    <3> HIDE DEF rows, columns, all
    <3>3. all = UNION {{Place(w, k) : k \in columns(w)} : w \in rows}
      BY <3>1, <3>2
    <3> QED
      BY <2>1, <3>3 DEF rows, columns, all
  <2>4. ASSUME NEW w \in 0..(windows - 1), NEW k \in 0..(RowSize(w) - 1)
        PROVE  EntryRight(w, k)
    <3>1. ScalarBits \div bits \in Nat
      BY <2>1, WindowCount
    <3>2. k \in 0..(FullRow - 1) /\ Stored(w, k)
      BY <2>1, <2>2, <3>1 DEF Stored
    <3> QED
      BY <2>1, <3>2 DEF IInv, StoredInv
  <2> QED
    BY <2>3, <2>4 DEF EntryRight, Weight
<1> QED
  BY <1>1, Invariance, PTL

\* In the middle of a multiplication the sum and what is left of the scalar make
\* up the scalar, and the next digit is within its row of the table.
THEOREM DigitsCorrect == Spec => []DigitsBalance
<1>1. IInv => DigitsBalance
  <2> SUFFICES ASSUME IInv, Fits, pc = "multiply"
               PROVE  /\ (r + s * 2^(bits * window)) % N = a
                      /\ window < windows => Magnitude(SDigit(s)) <= RowSize(window)
    BY DEF DigitsBalance
  <2>1. TypeInv /\ MultiplyInv
    BY DEF IInv
  <2>2. (r + s * 2^(bits * window)) % N = a
    BY <2>1 DEF MultiplyInv, Weight
  <2> QED
    BY <2>1, <2>2, DigitInRow
<1> QED
  BY <1>1, Invariance, PTL

\* The product is the scalar times the generator, for every scalar.
THEOREM ProductCorrect == Spec => []ProductRight
<1>1. IInv => ProductRight
  <2> SUFFICES ASSUME IInv, Fits, pc = "product"
               PROVE  r = a /\ s = 0
    BY DEF ProductRight
  <2>1. /\ bits \in Nat /\ N \in Nat /\ N >= 2 /\ s = 0 /\ r \in Scalars
        /\ (r + s * Weight(window)) % N = a /\ window \in Nat
    <3>1. TypeInv /\ MultiplyInv
      BY DEF IInv
    <3>2. ScalarBits \div bits \in Nat
      BY <3>1, WindowCount DEF TypeInv
    <3>3. window \in Nat
      BY <3>1, <3>2 DEF TypeInv
    <3> QED
      BY <3>1, <3>3, Numbers DEF MultiplyInv
  <2>2. r + s * Weight(window) = r
    <3>1. Weight(window) \in Nat /\ r \in Int
      BY <2>1, Weights DEF Scalars
    <3> QED
      BY <2>1, <3>1
  <2>3. (r % N) = r
    BY <2>1, RemainderSmall
  <2> QED
    BY <2>1, <2>2, <2>3
<1> QED
  BY <1>1, Invariance, PTL
============================================================================
