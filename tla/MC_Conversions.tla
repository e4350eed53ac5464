---------------------------- MODULE MC_Conversions ----------------------------
(***************************************************************************)
(* Modules LimbWalk and Formats side by side: a behaviour is one of either.*)
(***************************************************************************)
EXTENDS LimbWalk, Formats

\* Fields of 44 and 88 bits, with the prime 5 and 1029 below a power of two.
Five == [L |-> 5, Bits |-> 9, Slack |-> 1, C |-> <<5>>, Below |-> <<5>>, Word |-> 14, Store |-> 11,
         ByteBits |-> 2, MaxMagnitude |-> 16, MulMagnitude |-> 1]
Ten == [L |-> 10, Bits |-> 9, Slack |-> 2, C |-> <<5, 2>>, Below |-> <<1029>>, Word |-> 14, Store |-> 11,
        ByteBits |-> 2, MaxMagnitude |-> 16, MulMagnitude |-> 1]
Fields == {Five, Ten}

Four == [L |-> 4, W |-> 6, C |-> <<37, 18>>, ByteBits |-> 2]
Eight == [L |-> 8, W |-> 3, C |-> <<5, 7, 3, 2>>, ByteBits |-> 1]
ScalarForms == {Four, Eight}

\* A hash of bytes of two bits.
Rotations0 == <<2, 5, 7>>
Rotations1 == <<1, 3, 6>>
Shift0 == <<3, 5, 1>>
Shift1 == <<4, 6, 2>>
RoundConstants == [j \in 1..64 |-> (j * 37 + j * j * 11 + 66) % 256]
InitialWords == <<106, 187, 60, 165, 81, 155, 31, 91>>
StreamByte(i) == (i * i * 3 + i + (i \div 4)) % 4
Extras == {[data |-> 0, algo |-> 0, counter |-> 1], [data |-> 32, algo |-> 16, counter |-> 0]}

\* Hashes of the right length that tell bytes and their places apart.
Mixed(bytes, count) ==
    LET f[k \in 0..Len(bytes)] ==
            IF k = 0 THEN 17 * Len(bytes) ELSE (bytes[k] * 5 + k + f[k - 1] * 3) % 65521
        h == f[Len(bytes)]
    IN SubSeq([i \in 1..count |-> (h \div i + 29 * i) % 256], 1, count)
Hash32(bytes) == Mixed(bytes, 32)
Hash20(bytes) == Mixed(bytes, 20)
\* The order of secp256k1.
OrderBytes ==
    << 255, 255, 255, 255, 255, 255, 255, 255, 255, 255, 255, 255, 255, 255, 255, 254,
       186, 174, 220, 230, 175, 72, 160, 59, 191, 210, 94, 140, 208, 54, 65, 65 >>
PointBytes(key, compressed) == Mixed(key, IF compressed THEN 33 ELSE 65)

Repeated(b, n) == [j \in 1..n |-> b]
Inputs == UNION { { Repeated(0, n), Repeated(255, n), [j \in 1..n |-> IF j <= n \div 4 THEN 0 ELSE (91 * j) % 256],
                    [j \in 1..n |-> IF j = 1 THEN 1 ELSE 0] } : n \in 0..32 }
          \cup {Repeated(255, 38)}

KeyOf(a) == [j \in 1..32 |-> (a * j + j * j) % 256]
Batches == { <<KeyOf(1)>>, <<Repeated(0, 32)>>, <<KeyOf(2), KeyOf(3)>>,
             <<OrderBytes, KeyOf(4), Repeated(0, 32), KeyOf(5)>>,
             \* k and k more than the order; the ends of the keys that are displayed
             <<[Repeated(0, 32) EXCEPT ![32] = 5], [OrderBytes EXCEPT ![32] = @ + 5]>>,
             <<[OrderBytes EXCEPT ![32] = @ - 1], Repeated(255, 32), [Repeated(0, 32) EXCEPT ![32] = 1]>> }

\* Bytes of five bits: the tags and the lengths keep their roles.
DerPoint(key, compressed) == [i \in 1..(IF compressed THEN 3 ELSE 5) |-> (key + i) % 32]
DerMiddle(compressed) == [i \in 1..(IF compressed THEN 9 ELSE 27) |-> i]
IntegerBytes ==
    { <<>>, <<0>>, <<1>>, <<15>>, <<16>>, <<31>>, <<0, 1>>, <<0, 15>>, <<0, 16>>, <<31, 16>>, <<31, 0>>,
      <<31, 15>>, <<0, 0, 5>>, <<1, 2, 3>>, <<0, 31, 28>>, <<0, 31, 29>>, <<15, 31>>, <<0, 16, 0>>,
      <<1>> \o Repeated(0, 15), Repeated(0, 17), Repeated(0, 16) \o <<7>>, Repeated(1, 33) }
FewIntegerBytes == { <<0>>, <<5>>, <<0, 31, 28>>, <<31>>, Repeated(1, 17) }
Lengths(n) ==
    LET hi == n \div 32
        lo == n % 32
    IN { <<lo>>, <<(n + 1) % 32>>, <<16>>, <<31>>, <<17, lo>>, <<18, hi, lo>>, <<18, 0, lo>>,
         <<19, 31, hi, lo>>, <<20, 0, 0, hi, lo>>, <<20, 1, 0, 0, lo>>, <<21, 1, 0, 0, hi, lo>> }
SomeScalars == {0, 1, 15, 16, 31, 32, 511, 512, 1020}

ASSUME LimbsAssumption
ASSUME WordAssumption

Nothing == [part |-> "nothing"]
Init == \/ LimbInit /\ text = Nothing
        \/ FormatInit /\ number = Nothing
Next == \/ LimbNext /\ UNCHANGED text
        \/ FormatNext /\ UNCHANGED number
=============================================================================
