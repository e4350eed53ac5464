--------------------------- MODULE AddressEncoding ---------------------------
(***************************************************************************)
(* util/bitcoin_util.js: the addresses of a batch of private keys.  A byte *)
(* is a number, a character is its place in its alphabet, and the fixed    *)
(* "bc1" of a Bech32 address is left out.                                  *)
(***************************************************************************)
EXTENDS Integers, Sequences, Bitwise

CONSTANTS
    sha256(_), ripemd160(_),  \* sequences of bytes to 32 and to 20 bytes
    PublicKey(_, _),          \* the 33 or 65 bytes of a scalar's point
    GroupOrder,               \* the 32 bytes of the order
    IntBits                   \* the bits of the operands of <<, | and >>: 32

\* Twice the order is more than 32 bytes hold.
ASSUME GroupOrderAssumption ==
    /\ Len(GroupOrder) = 32 /\ \A j \in 1..32 : GroupOrder[j] \in 0..255
    /\ GroupOrder[1] >= 128

Joined(a, b, end) == SubSeq(a \o b, 1, end)     \* Buffer.concat with a length

-----------------------------------------------------------------------------
(* Base 58                                                                 *)

\* Mutant: no room is added for the fraction of a digit.
b58size_down(n) == (n * 136566) \div 100000

\* The logarithm of 256 to the base 58 is 1.365658...: to five places it gives
\* the same sizes for anything shorter than 60 bytes.
b58size(n) == (n * 136566) \div 100000 + 1

\* The number b, lowest digit first, times 256 and plus the carry.  The loop
\* stops early when there is nothing to carry past the digits in use.
RECURSIVE Absorb(_, _, _, _)
Absorb(b, carry, i, length) ==
    IF (carry = 0 /\ i >= length) \/ i = Len(b)
    THEN [b |-> b, length |-> i, carry |-> carry]
    ELSE LET c == carry + 256 * b[i + 1]
         IN Absorb([b EXCEPT ![i + 1] = c % 58], c \div 58, i + 1, length)

LeadingZeros(s) ==
    CHOOSE n \in 0..Len(s) : /\ \A j \in 1..n : s[j] = 0
                             /\ n = Len(s) \/ s[n + 1] # 0
Reversed(s) == [j \in 1..Len(s) |-> s[Len(s) + 1 - j]]

\* The digits, with a leading zero digit for each leading zero byte; an
\* exception if the number has no room.
Exception == <<-1>>           \* no digit
encodeBase58(source) ==
    LET zeroes == LeadingZeros(source)
        size == b58size(Len(source) - zeroes)
        done[n \in zeroes..Len(source)] ==
            IF n = zeroes THEN [b |-> [j \in 1..size |-> 0], length |-> 0, carry |-> 0]
            ELSE LET s == done[n - 1] IN IF s.carry # 0 THEN s ELSE Absorb(s.b, source[n], 0, s.length)
        last == done[Len(source)]
        number == Reversed(SubSeq(last.b, 1, last.length))
    IN IF last.carry # 0 THEN Exception
       ELSE [j \in 1..zeroes |-> 0] \o SubSeq(number, LeadingZeros(number) + 1, Len(number))

-----------------------------------------------------------------------------
(* Bech32                                                                  *)

\* value << 8 | byte, in a signed word in which it is never masked.
Shifted(value, byte) ==
    LET v == (value % 2^(IntBits - 8)) * 2^8 + byte
    IN IF v < 2^(IntBits - 1) THEN v ELSE v - 2^IntBits

RECURSIVE TakeWords(_)
TakeWords(s) ==
    IF s.bits < 5 THEN s
    ELSE TakeWords([s EXCEPT !.bits = @ - 5,
                             !.result = Append(@, (s.value \div 2^(s.bits - 5)) % 32)])

toWordsBech32(bytes) ==
    LET f[i \in 0..Len(bytes)] ==
            IF i = 0 THEN [value |-> 0, bits |-> 0, result |-> <<>>]
            ELSE LET s == f[i - 1]
                 IN TakeWords([s EXCEPT !.value = Shifted(s.value, bytes[i]), !.bits = @ + 8])
        last == f[Len(bytes)]
    IN IF last.bits > 0 THEN Append(last.result, (last.value * 2^(5 - last.bits)) % 32)
       ELSE last.result

polymodStep(pre) ==
    LET gen == <<996825010, 642813549, 513874426, 1027748829, 705979059>>
        b == pre \div 2^25
        f[k \in 0..5] == IF k = 0 THEN (pre % 2^25) * 32
                         ELSE IF (b \div 2^(k - 1)) % 2 = 1 THEN f[k - 1] ^^ gen[k] ELSE f[k - 1]
    IN f[5]

\* Six more steps, and the checksum has its 30 bits.
Checksummed(chk, words) ==
    LET f[i \in 0..(Len(words) + 6)] ==
            IF i = 0 THEN chk
            ELSE (IF i <= Len(words) THEN words[i] ELSE 0) ^^ polymodStep(f[i - 1])
        sum == f[Len(words) + 6] ^^ 1
    IN words \o [i \in 1..6 |-> (sum \div 2^((6 - i) * 5)) % 32]

encodeBech32(words) == Checksummed(36798531, words)

-----------------------------------------------------------------------------
(* The addresses                                                           *)

BUFFER_0 == <<0>>
BUFFER_5 == <<5>>

BelowOrder(key) ==
    \E j \in 1..32 : key[j] < GroupOrder[j] /\ \A k \in 1..(j - 1) : key[k] = GroupOrder[k]
NoScalar == [j \in 1..32 |-> 0]

\* A private key as a scalar: the order is taken off a key that is not below it.
Reduced(key) ==
    LET borrow[j \in 1..33] == IF j = 33 \/ key[j] >= GroupOrder[j] + borrow[j + 1] THEN 0 ELSE 1
    IN IF BelowOrder(key) THEN key
       ELSE [j \in 1..32 |-> (key[j] - GroupOrder[j] - borrow[j + 1]) % 256]

\* What publicKeyCreateFastBatch makes of a key, blank bytes if it has no point.
Created(key, compressed) ==
    LET scalar == Reduced(key)
    IN IF scalar # NoScalar THEN PublicKey(scalar, compressed)
       ELSE [j \in 1..(IF compressed THEN 33 ELSE 65) |-> 0]

RECURSIVE Concat(_)
Concat(s) == IF s = <<>> THEN <<>> ELSE Head(s) \o Concat(Tail(s))

_secp256k1c(keys) == Concat([k \in 1..Len(keys) |-> Created(keys[k], TRUE)])
_secp256k1u(keys) == Concat([k \in 1..Len(keys) |-> Created(keys[k], FALSE)])

hash160(bytes) == ripemd160(sha256(bytes))
WithChecksum(payload) == Joined(payload, sha256(sha256(payload)), Len(payload) + 4)

\* Mutant: the uncompressed keys are taken at the places of the compressed.
KeyAt_offset(array, size, i) == SubSeq(array, 33 * (i - 1) + 1, 33 * (i - 1) + size)

KeyAt(array, size, i) == SubSeq(array, size * (i - 1) + 1, size * i)

\* Four addresses for each key: Bech32(c), P2PKH(c), P2PKH(u), P2SH(c).
getAddressArray(keys) ==
    LET addresses(i) ==
            LET hashC == hash160(KeyAt(_secp256k1c(keys), 33, i))
                hashU == hash160(KeyAt(_secp256k1u(keys), 65, i))
                output == BUFFER_0 \o <<Len(hashC)>> \o hashC
            IN << encodeBech32(<<0>> \o toWordsBech32(hashC)),
                  encodeBase58(WithChecksum(BUFFER_0 \o hashC)),
                  encodeBase58(WithChecksum(BUFFER_0 \o hashU)),
                  encodeBase58(WithChecksum(BUFFER_5 \o hash160(output))) >>
    IN Concat([i \in 1..Len(keys) |-> addresses(i)])
=============================================================================
