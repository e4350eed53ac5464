------------------------------- MODULE Sha256 -------------------------------
(***************************************************************************)
(* util/sha256.js.  Its words are JavaScript numbers: the bitwise          *)
(* operators take them modulo 2^WordBits and give a signed word, but a sum *)
(* is not brought back to a word, and stays exact only while it is less    *)
(* than 2^Mantissa.  ihash, count and buffer are globals that one          *)
(* digest passes from function to function: here the record of a hash.     *)
(*                                                                         *)
(* A word has four bytes and a block sixteen words, of any width.  In the  *)
(* program WordBits is 32 and Mantissa 53.                                 *)
(***************************************************************************)
EXTENDS Integers, Sequences, Bitwise

CONSTANTS
    WordBits, Mantissa,
    LenShift,                      \* a byte has 2^LenShift bits
    BigSigma0, BigSigma1,          \* the three distances of a rotation each
    SmallSigma0, SmallSigma1,      \* two rotations and a shift
    K256, InitialHash

WordsFit == WordBits = 4 * 2^LenShift

ByteBits == 2^LenShift

ToUint(x)  == x % 2^WordBits
ToInt(x)   == IF ToUint(x) < 2^(WordBits - 1) THEN ToUint(x) ELSE ToUint(x) - 2^WordBits
UShr(x, n) == ToUint(x) \div 2^n
Shl(x, n)  == ToInt(ToUint(x) * 2^n)
AndW(x, y) == ToInt(ToUint(x) & ToUint(y))
OrW(x, y)  == ToInt(ToUint(x) | ToUint(y))
XorW(x, y) == ToInt(ToUint(x) ^^ ToUint(y))
NotW(x)    == -ToInt(x) - 1

rotateRight(n, x) == OrW(UShr(x, n), Shl(x, WordBits - n))
choice(x, y, z)   == XorW(AndW(x, y), AndW(NotW(x), z))
majority(x, y, z) == XorW(XorW(AndW(x, y), AndW(x, z)), AndW(y, z))

sha256_Sigma(d, x) == XorW(XorW(rotateRight(d[1], x), rotateRight(d[2], x)), rotateRight(d[3], x))
sha256_sigma(d, x) == XorW(XorW(rotateRight(d[1], x), rotateRight(d[2], x)), UShr(x, d[3]))

safe_add(x, y) ==
    LET half == 2^(WordBits \div 2)
        lsw == (x % half) + (y % half)
        msw == (ToInt(x) \div half) + (ToInt(y) \div half) + (lsw \div half)
    IN OrW(Shl(msw, WordBits \div 2), lsw % half)

Exact(x) == x \in -(2^Mantissa)..2^Mantissa

sha256_init == [ihash |-> InitialHash, count |-> <<0, 0>>, buffer |-> [j \in 0..63 |-> -1], ok |-> TRUE]

\* The first 64 values that W takes, from its first 16: the value of step j of
\* the expansion is the j-th after them, and is in W[j & 0x0f] until it is
\* needed for the last time.
RECURSIVE expand(_)
expand(w) ==
    LET j == Len(w) + 1
    IN IF j > 64 THEN w
       ELSE expand(Append(w, w[j - 16] + (sha256_sigma(SmallSigma1, w[j - 2]) + w[j - 7]
                                          + sha256_sigma(SmallSigma0, w[j - 15]))))

\* The rounds, from the one after `done' of them on.
RECURSIVE rounds(_, _)
rounds(w, s) ==
    IF s.done = 64 THEN s
    ELSE LET r == s.r
             j == s.done + 1
             by(T1, T2) ==
                 [r |-> <<safe_add(T1, T2), r[1], r[2], r[3], safe_add(r[4], T1), r[5], r[6], r[7]>>,
                  done |-> j, ok |-> s.ok /\ Exact(T1)]
         IN rounds(w, by(r[8] + sha256_Sigma(BigSigma1, r[5]) + choice(r[5], r[6], r[7]) + K256[j] + w[j],
                         sha256_Sigma(BigSigma0, r[1]) + majority(r[1], r[2], r[3])))

\* ok: no sum was too large, and no byte of the buffer was one never written.
AddLast(h, w, last) ==
    LET sums == [i \in 1..8 |-> h.ihash[i] + last.r[i]]
    IN [h EXCEPT !.ihash = sums,
                 !.ok = /\ @ /\ last.ok
                        /\ \A j \in 0..63 : h.buffer[j] # -1
                        /\ \A j \in 1..64 : Exact(w[j])
                        /\ \A i \in 1..8 : Exact(sums[i])]

TransformBy(h, w) == AddLast(h, w, rounds(w, [r |-> h.ihash, done |-> 0, ok |-> TRUE]))

sha256_transform(h) ==
    LET word(i) == OrW(OrW(h.buffer[4 * i + 3], Shl(h.buffer[4 * i + 2], ByteBits)),
                       OrW(Shl(h.buffer[4 * i + 1], 2 * ByteBits), Shl(h.buffer[4 * i], 3 * ByteBits)))
    IN TransformBy(h, expand([j \in 1..16 |-> word(j - 1)]))

\* The last piece, which stays in the buffer.
KeepRest(h, data) ==
    LET len == Len(data)
        bits == Shl(len, LenShift)
    IN [h EXCEPT !.count = << h.count[1] + bits,
                              h.count[2] + (IF h.count[1] + bits < bits THEN 1 ELSE 0)
                                         + (len \div 2^(WordBits - LenShift)) >>,
                 !.buffer = [j \in 0..63 |-> IF j < len % 64 THEN data[64 * (len \div 64) + j + 1]
                                             ELSE @[j]]]

\* The one call of a digest: the buffer is empty.
sha256_update(h, data) ==
    LET full[n \in 0..(Len(data) \div 64)] ==
            IF n = 0 THEN h
            ELSE sha256_transform([full[n - 1] EXCEPT !.buffer = [j \in 0..63 |-> data[64 * (n - 1) + j + 1]]])
    IN KeepRest(full[Len(data) \div 64], data)

\* Mutant: the padding is taken to fit when it is one byte too long.
sha256_final_tight(h) ==
    LET index == ((h.count[1] \div ByteBits) % 64) + 1
        zeroed(g, from, to) == [g EXCEPT !.buffer = [j \in 0..63 |-> IF j \in from..to THEN 0 ELSE @[j]]]
        marked == [h EXCEPT !.buffer[index - 1] = 2^(ByteBits - 1)]
        ready == IF index <= 57 THEN zeroed(marked, index, 55)
                 ELSE zeroed(sha256_transform(zeroed(marked, index, 63)), 0, 55)
        length(j) == UShr(h.count[IF j < 60 THEN 2 ELSE 1], (3 - (j % 4)) * ByteBits) % 2^ByteBits
    IN sha256_transform([ready EXCEPT !.buffer = [j \in 0..63 |-> IF j < 56 THEN @[j] ELSE length(j)]])

sha256_final(h) ==
    LET index == ((h.count[1] \div ByteBits) % 64) + 1
        zeroed(g, from, to) == [g EXCEPT !.buffer = [j \in 0..63 |-> IF j \in from..to THEN 0 ELSE @[j]]]
        marked == [h EXCEPT !.buffer[index - 1] = 2^(ByteBits - 1)]
        ready == IF index <= 56 THEN zeroed(marked, index, 55)
                 ELSE zeroed(sha256_transform(zeroed(marked, index, 63)), 0, 55)
        length(j) == UShr(h.count[IF j < 60 THEN 2 ELSE 1], (3 - (j % 4)) * ByteBits) % 2^ByteBits
    IN sha256_transform([ready EXCEPT !.buffer = [j \in 0..63 |-> IF j < 56 THEN @[j] ELSE length(j)]])

\* The words; their bytes are taken from the highest to the lowest.
sha256_encode_bytes(h) ==
    [j \in 1..32 |-> UShr(h.ihash[((j - 1) \div 4) + 1], (3 - ((j - 1) % 4)) * ByteBits) % 2^ByteBits]

sha256_digest(data) ==
    LET answer(h) == [bytes |-> sha256_encode_bytes(h), ok |-> h.ok]
    IN answer(sha256_final(sha256_update(sha256_init, data)))

-----------------------------------------------------------------------------
(* The definition of the hash, in words that are numbers below 2^WordBits. *)

\* The message, a one bit, zeros up to eight bytes before the end of a block,
\* and the length in bits.
Padded(data) ==
    LET len == Len(data)
        blocks == (len + 9 + 63) \div 64
    IN [j \in 1..(64 * blocks) |->
           IF j <= len THEN data[j]
           ELSE IF j = len + 1 THEN 2^(ByteBits - 1)
           ELSE IF j <= 64 * blocks - 8 THEN 0
           ELSE ((ByteBits * len) \div 2^(ByteBits * (64 * blocks - j))) % 2^ByteBits]

Rot(x, n) == (x \div 2^n) + ((x % 2^n) * 2^(WordBits - n))
Big(d, x) == (Rot(x, d[1]) ^^ Rot(x, d[2])) ^^ Rot(x, d[3])
Small(d, x) == (Rot(x, d[1]) ^^ Rot(x, d[2])) ^^ (x \div 2^d[3])

RECURSIVE Schedule(_)
Schedule(w) ==
    LET t == Len(w) + 1
    IN IF t > 64 THEN w
       ELSE Schedule(Append(w, ToUint(Small(SmallSigma1, w[t - 2]) + w[t - 7]
                                      + Small(SmallSigma0, w[t - 15]) + w[t - 16])))

RECURSIVE Compress(_, _, _)
Compress(w, v, t) ==
    IF Len(v) = 8 /\ t > 64 THEN v
    ELSE LET ch == (v[5] & v[6]) + ((2^WordBits - 1 - v[5]) & v[7])
             maj == (v[1] & v[2]) | ((v[1] | v[2]) & v[3])
             by(t1) == <<ToUint(t1 + Big(BigSigma0, v[1]) + maj), v[1], v[2], v[3],
                         ToUint(v[4] + t1), v[5], v[6], v[7]>>
         IN Compress(w, by(v[8] + Big(BigSigma1, v[5]) + ch + K256[t] + w[t]), t + 1)

RECURSIVE Blocks(_, _, _)
Blocks(m, n, hash) ==
    IF 64 * n = Len(m) THEN hash
    ELSE LET byte(i) == m[64 * n + i]
             B == 2^ByteBits
             w == Schedule([t \in 1..16 |->
                      ((byte(4 * t - 3) * B + byte(4 * t - 2)) * B + byte(4 * t - 1)) * B + byte(4 * t)])
             plus(v) == [i \in 1..8 |-> ToUint(hash[i] + v[i])]
         IN Blocks(m, n + 1, plus(Compress(w, hash, 1)))

RefDigest(data) ==
    LET bytes(words) ==
            [j \in 1..32 |-> (words[((j - 1) \div 4) + 1] \div 2^(ByteBits * (3 - ((j - 1) % 4)))) % 2^ByteBits]
    IN bytes(Blocks(Padded(data), 0, [i \in 1..8 |-> ToUint(InitialHash[i])]))
=============================================================================
