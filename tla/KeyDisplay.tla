------------------------------ MODULE KeyDisplay ------------------------------
(***************************************************************************)
(* Bitcoin.js: every form of one private key that displayAll prints.  Its  *)
(* base 58 and its polymodStep are, line for line, those of                *)
(* util/bitcoin_util.js; its Bech32 takes any prefix and checks what it is *)
(* given.                                                                  *)
(***************************************************************************)
EXTENDS AddressEncoding

BUFFER_1   == <<1>>
BUFFER_118 == <<118>>
BUFFER_128 == <<128>>
BUFFER_135 == <<135>>
BUFFER_136 == <<136>>
BUFFER_169 == <<169>>
BUFFER_172 == <<172>>

\* The characters of a prefix are their codes.
prefixChkBech32(prefix) ==
    LET n == Len(prefix)
        f[i \in 0..(2 * n + 1)] ==
            IF i = 0 THEN 1
            ELSE polymodStep(f[i - 1]) ^^ (IF i <= n THEN prefix[i] \div 32
                                           ELSE IF i = n + 1 THEN 0 ELSE prefix[i - n - 1] % 32)
    IN f[2 * n + 1]

prefixedBech32(prefix, words) ==
    IF \/ Len(prefix) + 7 + Len(words) > 90
       \/ \E i \in 1..Len(prefix) : prefix[i] \notin 33..126
       \/ \E i \in 1..Len(words) : words[i] \notin 0..31
    THEN Exception ELSE Checksummed(prefixChkBech32(prefix), words)

bc == <<98, 99>>

getWIF(key, isCompressed) ==
    encodeBase58(WithChecksum(BUFFER_128 \o key \o (IF isCompressed THEN BUFFER_1 ELSE <<>>)))

\* Node's ECDH refuses zero and what is not below the order: whatever needs the
\* point of such a key throws.
IsPrivateKey(key) == key # NoScalar /\ BelowOrder(key)
OfPoint(key, form) == IF IsPrivateKey(key) THEN form ELSE Exception

getPublicKey(key, isCompressed) == OfPoint(key, PublicKey(key, isCompressed))
KeyHash(key, isCompressed) == hash160(getPublicKey(key, isCompressed))
Pushed(bytes) == <<Len(bytes)>> \o bytes

getBech32(key, isCompressed) ==
    OfPoint(key, prefixedBech32(bc, <<0>> \o toWordsBech32(KeyHash(key, isCompressed))))
getP2PKH(key, isCompressed) ==
    OfPoint(key, encodeBase58(WithChecksum(BUFFER_0 \o KeyHash(key, isCompressed))))
RedeemHash(key, isCompressed) == hash160(BUFFER_0 \o Pushed(KeyHash(key, isCompressed)))
getP2SH(key, isCompressed) ==
    OfPoint(key, encodeBase58(WithChecksum(BUFFER_5 \o RedeemHash(key, isCompressed))))

getBech32ScriptHash(key, isCompressed) ==
    OfPoint(key, Reversed(sha256(BUFFER_0 \o Pushed(KeyHash(key, isCompressed)))))
getP2PKHScriptHash(key, isCompressed) ==
    OfPoint(key, Reversed(sha256(BUFFER_118 \o BUFFER_169 \o Pushed(KeyHash(key, isCompressed))
                                 \o BUFFER_136 \o BUFFER_172)))
getP2SHScriptHash(key, isCompressed) ==
    OfPoint(key, Reversed(sha256(BUFFER_169 \o Pushed(RedeemHash(key, isCompressed)) \o BUFFER_135)))

\* 24 words, each named by eleven bits of the key and the first byte of its
\* hash.
getBIP39(key) ==
    LET bytes == Joined(key, sha256(key), Len(key) + 1)
        bit(k) == (bytes[(k \div 8) + 1] \div 2^(7 - (k % 8))) % 2
        number(i) == LET f[k \in 0..11] == IF k = 0 THEN 0 ELSE 2 * f[k - 1] + bit(11 * i + k - 1)
                     IN f[11]
    IN [i \in 1..24 |-> number(i - 1)]
=============================================================================
