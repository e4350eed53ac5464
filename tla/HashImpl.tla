------------------------------- MODULE HashImpl -------------------------------
(***************************************************************************)
(* hash_impl.h of the library: SHA-256 of data that is written in pieces,  *)
(* HMAC over it, the generator of RFC 6979, and the nonces that signing    *)
(* takes from that generator.  Words are numbers below 2^WordBits; the     *)
(* sizes are those of module Sha256, whose definition of the hash is what  *)
(* all of this is compared with.                                           *)
(***************************************************************************)
EXTENDS Integers, Sequences, Bitwise

CONSTANTS
    WordBits, LenShift, BigSigma0, BigSigma1, SmallSigma0, SmallSigma1, K256, InitialHash,
    OPad, IPad         \* 0x5c and 0x36

Js == INSTANCE Sha256 WITH Mantissa <- 0

Radix == 2^(2^LenShift)
Word(x) == x % 2^WordBits
Rot(x, n) == (x \div 2^n) + ((x % 2^n) * 2^(WordBits - n))

Ch(x, y, z)  == z ^^ (x & (y ^^ z))
Maj(x, y, z) == (x & y) | (z & (x | y))
Sigma(d, x)  == (Rot(x, d[1]) ^^ Rot(x, d[2])) ^^ Rot(x, d[3])
sigma(d, x)  == (Rot(x, d[1]) ^^ Rot(x, d[2])) ^^ (x \div 2^d[3])

Shifted(v, t1, t2) == <<Word(t1 + t2), v[1], v[2], v[3], Word(v[4] + t1), v[5], v[6], v[7]>>

Round(v, k, w) ==
    Shifted(v, v[8] + Sigma(BigSigma1, v[5]) + Ch(v[5], v[6], v[7]) + k + w,
            Sigma(BigSigma0, v[1]) + Maj(v[1], v[2], v[3]))

\* Of sixteen words, each round from the seventeenth on replaces one.
NextWord(w, j) ==
    LET at(i) == w[((j + i - 1) % 16) + 1]
    IN IF j <= 16 THEN w[j]
       ELSE Word(at(0) + sigma(SmallSigma1, at(14)) + at(9) + sigma(SmallSigma0, at(1)))

RECURSIVE Rounds(_, _, _)
Rounds(v, w, j) ==
    LET take(word) == Rounds(Round(v, K256[j], word), [w EXCEPT ![((j - 1) % 16) + 1] = word], j + 1)
    IN IF Len(v) = 8 /\ Len(w) = 16 /\ j > 64 THEN v ELSE take(NextWord(w, j))

sha256_transform(s, chunk) ==
    LET byte(i) == chunk[i]
        w == [t \in 1..16 |-> ((byte(4 * t - 3) * Radix + byte(4 * t - 2)) * Radix + byte(4 * t - 1)) * Radix
                              + byte(4 * t)]
        plus(v) == [i \in 1..8 |-> Word(s[i] + v[i])]
    IN plus(Rounds(s, w, 1))

\* buf is what the buffer holds of the bytes not yet taken: bytes modulo 64.
sha256_initialize == [s |-> [i \in 1..8 |-> Word(InitialHash[i])], buf |-> <<>>, bytes |-> 0]

RECURSIVE Filled(_, _)
Filled(hash, data) ==
    LET room == 64 - Len(hash.buf)
    IN IF Len(data) < room THEN [hash EXCEPT !.buf = @ \o data]
       ELSE Filled([hash EXCEPT !.s = sha256_transform(@, hash.buf \o SubSeq(data, 1, room)), !.buf = <<>>],
                   SubSeq(data, room + 1, Len(data)))

sha256_write(hash, data) == Filled([hash EXCEPT !.bytes = @ + Len(data)], data)

BytesOf(w, count) ==
    [j \in 1..count |-> (w[((j - 1) \div 4) + 1] \div Radix^(3 - ((j - 1) % 4))) % Radix]

\* The length is that of before the padding.
sha256_finalize(hash) ==
    LET sizedesc == << Word(hash.bytes \div 2^(WordBits - LenShift)), Word(hash.bytes * 2^LenShift) >>
        pad == [j \in 1..(1 + ((119 - (hash.bytes % 64)) % 64)) |-> IF j = 1 THEN Radix \div 2 ELSE 0]
    IN BytesOf(sha256_write(sha256_write(hash, pad), BytesOf(sizedesc, 8)).s, 32)

-----------------------------------------------------------------------------
(* HMAC                                                                    *)

Zeros(n) == [j \in 1..n |-> 0]
Xored(key, pad) == [j \in DOMAIN key |-> key[j] ^^ pad]

hmac_sha256_initialize(key) ==
    LET padded(outer) ==
            [outer |-> sha256_write(sha256_initialize, outer),
             inner |-> sha256_write(sha256_initialize, Xored(outer, OPad ^^ IPad))]
    IN padded(Xored(IF Len(key) <= 64 THEN key \o Zeros(64 - Len(key))
                    ELSE sha256_finalize(sha256_write(sha256_initialize, key)) \o Zeros(32),
                    OPad))

hmac_sha256_write(hash, data) == [hash EXCEPT !.inner = sha256_write(@, data)]
hmac_sha256_finalize(hash) == sha256_finalize(sha256_write(hash.outer, sha256_finalize(hash.inner)))

-----------------------------------------------------------------------------
(* RFC 6979                                                                *)

RECURSIVE Hmac(_, _)       \* the writes in order, and the end
Hmac(hash, parts) ==
    IF parts = <<>> THEN hmac_sha256_finalize(hash)
    ELSE Hmac(hmac_sha256_write(hash, Head(parts)), Tail(parts))

Keyed(key, parts) == Hmac(hmac_sha256_initialize(key), parts)

Rekeyed(rng, parts) ==
    LET by(k) == [rng EXCEPT !.k = k, !.v = Keyed(k, <<rng.v>>)]
    IN by(Keyed(rng.k, <<rng.v>> \o parts))

rfc6979_hmac_sha256_initialize(key) ==
    LET start == [k |-> Zeros(32), v |-> [j \in 1..32 |-> 1], retry |-> FALSE]
    IN Rekeyed(Rekeyed(start, << <<0>>, key >>), << <<1>>, key >>)

RECURSIVE Output(_, _, _)
Output(rng, out, outlen) ==
    IF outlen = 0 THEN [rng |-> rng, out |-> out]
    ELSE LET now == IF outlen > 32 THEN 32 ELSE outlen
             by(v) == Output([rng EXCEPT !.v = v], out \o SubSeq(v, 1, now), outlen - now)
         IN by(Keyed(rng.k, <<rng.v>>))

rfc6979_hmac_sha256_generate(rng, outlen) ==
    [Output(IF rng.retry THEN Rekeyed(rng, << <<0>> >>) ELSE rng, <<>>, outlen)
        EXCEPT !.rng.retry = TRUE]

rfc6979_hmac_sha256_finalize == [k |-> Zeros(32), v |-> Zeros(32), retry |-> FALSE]

\* secp256k1.c: the nonce of an attempt starts over, and counts up to it.  data
\* and algo16 are empty when the caller has none.
nonce_function_rfc6979(msg32, key32, algo16, data, counter) ==
    LET g[i \in 0..counter] ==
            rfc6979_hmac_sha256_generate(
                IF i = 0 THEN rfc6979_hmac_sha256_initialize(key32 \o msg32 \o data \o algo16)
                ELSE g[i - 1].rng, 32)
    IN g[counter].out

-----------------------------------------------------------------------------
(* The definitions that these are compared with.                           *)

RefHmac(key, text) ==
    LET block == IF Len(key) > 64 THEN Js!RefDigest(key) ELSE key
        by(K) == Js!RefDigest(Xored(K, OPad) \o Js!RefDigest(Xored(K, IPad) \o text))
    IN by([j \in 1..64 |-> IF j <= Len(block) THEN block[j] ELSE 0])

\* RFC 6979, section 3.2: the blocks that the attempts take.
RefNonce(seed, attempt) ==
    LET block(k, v)  == [k |-> k, v |-> RefHmac(k, RefHmac(k, v))]
        second(k, v) == block(RefHmac(k, v \o <<1>> \o seed), v)
        first(k)     == second(k, RefHmac(k, [j \in 1..32 |-> 1]))
        again(s)     == block(RefHmac(s.k, s.v \o <<0>>), s.v)
        next[i \in 0..attempt] ==
            IF i = 0 THEN first(RefHmac(Zeros(32), [j \in 1..32 |-> 1] \o <<0>> \o seed))
            ELSE again(next[i - 1])
    IN next[attempt].v
=============================================================================
