-------------------------------- MODULE Formats --------------------------------
(***************************************************************************)
(* The conversions between the numbers and the outside: hashes of data     *)
(* that is given at once (sha256.js) or in pieces (hash_impl.h), the MACs  *)
(* and nonces made of them, the texts and addresses that Bitcoin.js and    *)
(* util/bitcoin_util.js print, and signatures and private keys in DER.     *)
(* Each step takes an input and leaves what the code makes of it.          *)
(***************************************************************************)
EXTENDS KeyDisplay

CONSTANTS
    WordBits, Mantissa, LenShift, BigSigma0, BigSigma1, SmallSigma0, SmallSigma1, K256,
    InitialHash, OPad, IPad,                  \* of modules Sha256 and HashImpl
    Stream(_),                                \* the bytes that are hashed, from 1 on
    WriteSizes, MaxWrites,                    \* how much is written at a time, how often
    MacLengths, NonceExtras,                  \* of keys and texts; extra data and algorithm
    Payloads, KeyBatches,                     \* bytes, and batches of private keys
    Byte, ScalarBytes, SizeBytes, DerOrder,   \* of module Der
    SequenceTag, IntegerTag, OctetsTag, DerPublicKey(_, _), Middle(_),
    Contents, FewContents, LengthForms(_),    \* of integers in DER, and of their length
    DerScalars

VARIABLE text

Js  == INSTANCE Sha256
Lib == INSTANCE HashImpl
Der == INSTANCE Der WITH Order <- DerOrder, PublicKey <- DerPublicKey

WordAssumption == Js!WordsFit

-----------------------------------------------------------------------------
(* Hashes                                                                  *)

Idle == [part |-> "idle"]
Data(from, n) == [i \in 1..n |-> Stream(from + i)]

HashInit == text = [part |-> "hash", data |-> <<>>, writes |-> 0, hash |-> Lib!sha256_initialize]

Write ==
    /\ text.part = "hash" /\ text.writes < MaxWrites
    /\ \E n \in WriteSizes :
           LET data == Data(Len(text.data), n)
           IN text' = [text EXCEPT !.data = @ \o data, !.writes = @ + 1, !.hash = Lib!sha256_write(@, data)]

Authenticate ==
    /\ text = Idle
    /\ \E k \in MacLengths, n \in MacLengths :
           LET hash == Lib!hmac_sha256_write(Lib!hmac_sha256_initialize(Data(0, k)), Data(9, n))
           IN text' = [part |-> "mac", key |-> Data(0, k), data |-> Data(9, n),
                       out |-> Lib!hmac_sha256_finalize(hash)]

MakeNonce ==
    /\ text = Idle
    /\ \E x \in NonceExtras :
           LET extra == Data(64, x.data)
               algo == Data(96, x.algo)
           IN text' = [part |-> "nonce", counter |-> x.counter,
                       seed |-> Data(0, 32) \o Data(32, 32) \o extra \o algo,
                       out |-> Lib!nonce_function_rfc6979(Data(32, 32), Data(0, 32), algo, extra, x.counter)]

-----------------------------------------------------------------------------
(* Texts and addresses                                                     *)

Encode ==
    /\ text = Idle
    /\ \E bytes \in Payloads :
           text' = [part |-> "text", bytes |-> bytes, base58 |-> encodeBase58(bytes),
                    words |-> toWordsBech32(bytes),
                    bech32 |-> encodeBech32(<<0>> \o toWordsBech32(bytes))]

MakeAddresses ==
    /\ text = Idle
    /\ \E keys \in KeyBatches :
           text' = [part |-> "keys", keys |-> keys, addresses |-> getAddressArray(keys)]

-----------------------------------------------------------------------------
(* DER                                                                     *)

Tagged(tag, length, bytes) == <<tag>> \o length \o bytes
ShortestLength(n) == IF n < Der!High THEN <<n>>
                     ELSE IF n < Byte THEN <<Der!High + 1, n>> ELSE <<Der!High + 2, n \div Byte, n % Byte>>

\* One integer, with any length before it and any that should be refused.
Integers == UNION {{Tagged(IntegerTag, l, c) : l \in LengthForms(Len(c))} : c \in Contents}
            \cup {Tagged(SequenceTag, <<1>>, <<1>>), <<IntegerTag>>, <<>>}
FewIntegers == {Tagged(IntegerTag, ShortestLength(Len(c)), c) : c \in FewContents}

Parsed(bytes) == [part |-> "der", bytes |-> bytes, strict |-> Der!ecdsa_sig_parse(bytes),
                  lax |-> Der!signature_parse_der_lax(bytes)]

ParseIntegers ==
    /\ text = Idle
    /\ \E a \in Integers, b \in FewIntegers :
           \E body \in {a \o b, b \o a} :
               text' = Parsed(Tagged(SequenceTag, ShortestLength(Len(body)), body))

ParseSequences ==
    /\ text = Idle
    /\ \E a \in FewIntegers, b \in FewIntegers, tail \in {<<>>, <<0>>}, tag \in {SequenceTag, IntegerTag} :
           \E length \in LengthForms(Len(a \o b)) :
               text' = Parsed(Tagged(tag, length, a \o b \o tail))

Serialize ==
    /\ text = Idle
    /\ \E r \in DerScalars, s \in DerScalars, size \in 6..(8 + 2 * ScalarBytes) :
           text' = [part |-> "signature", r |-> r, s |-> s, size |-> size,
                    out |-> Der!ecdsa_sig_serialize(size, r, s)]

ExportKey ==
    /\ text = Idle
    /\ \E key \in DerScalars, compressed \in BOOLEAN :
           text' = [part |-> "export", key |-> key, out |-> Der!ec_privkey_export_der(key, compressed)]

FormatInit == HashInit \/ text = Idle
FormatNext == \/ Write \/ Authenticate \/ MakeNonce
              \/ Encode \/ MakeAddresses
              \/ ParseIntegers \/ ParseSequences \/ Serialize \/ ExportKey

-----------------------------------------------------------------------------
(* What the texts stand for                                                *)

Bytes == INSTANCE Digits WITH Digit <- 8, Count <- 32, Below <- <<>>

\* A number in bytes, the lowest first, with digits to the base 58 put behind.
RECURSIVE Absorbed58(_, _)
Absorbed58(n, digits) ==
    IF n = <<>> \/ digits = <<>> THEN n
    ELSE LET more == Bytes!Settled([k \in 1..Len(n) |-> 58 * n[k] + (IF k = 1 THEN digits[1] ELSE 0)])
         IN Absorbed58(SubSeq(more, 1, Len(n) + 1), Tail(digits))

\* A leading zero digit is a zero byte.
Decoded58(digits) ==
    LET number == Reversed(Absorbed58(<<0>>, digits))
    IN [j \in 1..LeadingZeros(digits) |-> 0]
       \o SubSeq(number, LeadingZeros(number) + 1, Len(number))

\* The bits of the bytes, in words of five, and zeros at the end.
WordsOf(bytes) ==
    LET bit(k) == IF k < 8 * Len(bytes) THEN (bytes[(k \div 8) + 1] \div 2^(7 - (k % 8))) % 2 ELSE 0
        word(i) == LET f[k \in 0..5] == IF k = 0 THEN 0 ELSE 2 * f[k - 1] + bit(5 * i + k - 1) IN f[5]
    IN [i \in 1..((8 * Len(bytes) + 4) \div 5) |-> word(i - 1)]

\* The field of 32 elements, and the remainder of a polynomial over it by the
\* generator of Bech32.
GfMul(a, b) ==
    LET f[k \in 0..5] ==
            IF k = 0 THEN 0
            ELSE LET twice == 2 * f[k - 1]
                     reduced == IF twice >= 32 THEN twice ^^ 41 ELSE twice
                 IN IF (b \div 2^(5 - k)) % 2 = 1 THEN reduced ^^ a ELSE reduced
    IN f[5]
Generator == <<29, 22, 20, 21, 29, 18>>
Remainder(symbols) ==
    LET r[i \in 0..Len(symbols)] ==
            IF i = 0 THEN <<0, 0, 0, 0, 0, 1>>
            ELSE LET before == r[i - 1]
                     next(k) == (IF k = 6 THEN symbols[i] ELSE before[k + 1])
                                ^^ GfMul(Generator[k], before[1])
                 IN <<next(1), next(2), next(3), next(4), next(5), next(6)>>
    IN r[Len(symbols)]
PrefixBC == <<3, 3, 0, 2, 3>>      \* of "bc": the upper bits, a zero, the lower

\* The digits of a payload and of four bytes of its hash.
Carries(digits, payload) ==
    Decoded58(digits) = payload \o SubSeq(sha256(sha256(payload)), 1, 4)

AddressesOf(key) == <<getBech32(key, TRUE), getP2PKH(key, TRUE), getP2PKH(key, FALSE), getP2SH(key, TRUE)>>

\* A number in two's complement, as DER writes it.
Minimal(c) == /\ c # <<>>
              /\ Len(c) > 1 => \/ c[1] = 0 /\ c[2] >= Der!High
                               \/ c[1] = Byte - 1 /\ c[2] < Der!High
                               \/ c[1] \notin {0, Byte - 1}
\* A number that no scalar can be stands for zero.
ContentValue(c) ==
    IF c[1] >= Der!High \/ Len(c) > ScalarBytes + 1 \/ Der!NumberOf(c) >= DerOrder THEN 0 ELSE Der!NumberOf(c)

\* The ways to read bytes as a tag, the shortest length of the rest, and a rest.
Contained(tag, bytes) ==
    {Der!From(bytes, k) : k \in {k \in 3..5 : /\ k <= Len(bytes) + 1
                                              /\ bytes = Tagged(tag, ShortestLength(Len(bytes) + 1 - k), Der!From(bytes, k))}}
\* The pairs of numbers that the bytes are the DER of.
DerPairs(bytes) ==
    UNION { UNION { {<<c, d>> : c \in Contained(IntegerTag, SubSeq(body, 1, at)),
                                d \in Contained(IntegerTag, Der!From(body, at + 1))} : at \in 0..Len(body) }
            : body \in Contained(SequenceTag, bytes) }

-----------------------------------------------------------------------------
(* Properties                                                              *)

\* sha256.js, hash_impl.h: a digest is that of the definition for lengths on both
\* sides of every edge of the padding, though the words of sha256.js are sums
\* that nothing reduces, and however the library is given the data; the HMACs
\* and nonces are those of RFC 2104 and RFC 6979, also for later attempts.
HashRight ==
    /\ text.part = "hash" =>
          LET digest == Js!RefDigest(text.data)
              js == Js!sha256_digest(text.data)
          IN js.ok /\ js.bytes = digest /\ Lib!sha256_finalize(text.hash) = digest
    /\ text.part = "mac" => text.out = Lib!RefHmac(text.key, text.data)
    /\ text.part = "nonce" => text.out = Lib!RefNonce(text.seed, text.counter)

\* bitcoin_util.js: base 58 digits read back as the bytes they were made of, for
\* every length and any leading zeros, though their number comes from a rounded
\* logarithm; the words of a Bech32 address hold its bits and no others, though
\* the accumulator is never masked, and its checksum is the one of the code.
EncodingsDecode ==
    text.part = "text" =>
        /\ text.base58 # Exception /\ Decoded58(text.base58) = text.bytes
        /\ text.words = WordsOf(text.bytes)
        /\ Remainder(PrefixBC \o text.bech32) = <<0, 0, 0, 0, 0, 1>>

\* bitcoin_util.js beside Bitcoin.js: the four addresses of a key in a batch are
\* the ones that are displayed for that key, whatever its neighbours are; of a key
\* from the order on, the batch makes those of the key less the order, which Node
\* does not display for it: every address of such a key, and of zero, is refused.
\* A key without a point has the addresses of blank public keys, and any private
\* key that is displayed can be read back.
AddressesAgree ==
    text.part = "keys" =>
        /\ Len(text.addresses) = 4 * Len(text.keys)
        /\ \A i \in DOMAIN text.keys :
              LET key == text.keys[i]
                  scalar == Reduced(key)
                  refused == [j \in 1..4 |-> Exception]
                  hash == hash160(Created(key, TRUE))
                  words == getBIP39(key)
                  bit(k) == (words[(k \div 11) + 1] \div 2^(10 - (k % 11))) % 2
              IN /\ scalar # NoScalar => SubSeq(text.addresses, 4 * i - 3, 4 * i) = AddressesOf(scalar)
                 /\ scalar # key \/ scalar = NoScalar => AddressesOf(key) = refused
                 /\ Carries(text.addresses[4 * i - 2], <<0>> \o hash)
                 /\ Carries(text.addresses[4 * i - 1], <<0>> \o hash160(Created(key, FALSE)))
                 /\ Carries(text.addresses[4 * i], <<5>> \o hash160(<<0, 20>> \o hash))
                 /\ Carries(getWIF(key, FALSE), <<128>> \o key)
                 /\ Carries(getWIF(key, TRUE), <<128>> \o key \o <<1>>)
                 /\ Len(words) = 24 /\ \A w \in DOMAIN words : words[w] \in 0..2047
                 /\ \A k \in 0..255 : bit(k) = (key[(k \div 8) + 1] \div 2^(7 - (k % 8))) % 2

\* ecdsa_impl.h, contrib: the strict parser takes exactly the bytes that are the
\* DER of two numbers, and gives these numbers; the lax parser gives the same
\* for whatever the strict one has given a usable signature; a signature that is
\* serialized is parsed again, and a buffer that is too small is told what it
\* needs; an exported private key can be imported.
DerRight ==
    /\ text.part = "der" =>
          LET pairs == {p \in DerPairs(text.bytes) : Minimal(p[1]) /\ Minimal(p[2])}
          IN /\ text.strict.ret = (pairs # {})
             /\ \A p \in pairs : text.strict.r = ContentValue(p[1]) /\ text.strict.s = ContentValue(p[2])
             /\ text.strict.ret => text.lax.ret
             /\ text.strict.r # 0 /\ text.strict.s # 0 => text.lax = text.strict
    /\ text.part = "signature" =>
          IF text.out.ret
          THEN /\ Len(text.out.sig) = text.out.size /\ text.out.size <= text.size
               /\ Der!ecdsa_sig_parse(text.out.sig) = [ret |-> TRUE, r |-> text.r, s |-> text.s]
          ELSE Der!ecdsa_sig_serialize(text.out.size, text.r, text.s).ret
    /\ text.part = "export" =>
          Der!ec_privkey_import_der(text.out.privkey)
              = [ret |-> Der!ec_seckey_verify(text.key), key |-> text.key]
=============================================================================
