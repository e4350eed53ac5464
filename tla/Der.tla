---------------------------------- MODULE Der ----------------------------------
(***************************************************************************)
(* Signatures and private keys in DER: the strict parser and the           *)
(* serializer of ecdsa_impl.h, and the lax parsers of contrib, which only  *)
(* the tests of the library use.  A parser's pointer is the sequence of    *)
(* the bytes from it to the end.                                           *)
(*                                                                         *)
(* In the program Byte is 256, ScalarBytes is 32 and SizeBytes, the size   *)
(* of a size_t, is 8.                                                      *)
(***************************************************************************)
EXTENDS Integers, Sequences

CONSTANTS
    Byte, ScalarBytes, SizeBytes, Order,
    SequenceTag, IntegerTag, OctetsTag,       \* 0x30, 0x02 and 0x04
    PublicKey(_, _),    \* the bytes of the public key of a private key
    Middle(_)           \* the curve and its parameters, as export_der has them

High == Byte \div 2                           \* 0x80

NumberOf(bytes) ==
    LET n[i \in 0..Len(bytes)] == IF i = 0 THEN 0 ELSE Byte * n[i - 1] + bytes[i]
    IN n[Len(bytes)]
BytesOf(n, count) == [i \in 1..count |-> (n \div Byte^(count - i)) % Byte]
From(s, i) == SubSeq(s, i, Len(s))

RECURSIVE SkipZeros(_, _)                     \* at most count of them
SkipZeros(s, count) ==
    IF count > 0 /\ s[1] = 0 THEN SkipZeros(Tail(s), count - 1) ELSE [rest |-> s, count |-> count]

-----------------------------------------------------------------------------
(* Strict                                                                  *)

Bad == [len |-> -1, rest |-> <<>>]

RECURSIVE LongLen(_, _, _)
LongLen(s, lenleft, ret) ==
    IF lenleft = 0 THEN IF ret < High THEN Bad ELSE [len |-> ret, rest |-> s]
    ELSE LET next == ret * Byte + Head(s)
         IN IF next + lenleft > Len(s) THEN Bad ELSE LongLen(Tail(s), lenleft - 1, next)

der_read_len(s) ==
    IF s = <<>> \/ s[1] = Byte - 1 THEN Bad
    ELSE IF s[1] < High THEN [len |-> s[1], rest |-> Tail(s)]
    ELSE LET lenleft == s[1] - High
         IN IF \/ lenleft = 0                 \* the indefinite length
               \/ lenleft > Len(s) - 1
               \/ s[2] = 0
               \/ lenleft > SizeBytes
            THEN Bad ELSE LongLen(Tail(s), lenleft, 0)

Refused == [ret |-> FALSE, r |-> 0, rest |-> <<>>]

\* Mutant: no byte of padding is looked for before a number of one byte.
der_parse_integer_padded(s) ==
    IF s = <<>> \/ s[1] # IntegerTag THEN Refused
    ELSE LET l == der_read_len(Tail(s))
         IN IF l.len <= 0 \/ l.len > Len(l.rest) THEN Refused
            ELSE LET digits == SkipZeros(l.rest, l.len)
                     n == NumberOf(SubSeq(digits.rest, 1, digits.count))
                 IN [ret |-> TRUE, rest |-> From(l.rest, l.len + 1),
                     r |-> IF l.rest[1] >= High \/ digits.count > ScalarBytes \/ n >= Order THEN 0 ELSE n]

\* A number that is negative or too large is taken, as zero.
der_parse_integer(s) ==
    IF s = <<>> \/ s[1] # IntegerTag THEN Refused
    ELSE LET l == der_read_len(Tail(s))
         IN IF \/ l.len <= 0 \/ l.len > Len(l.rest)
               \/ l.rest[1] = 0 /\ l.len > 1 /\ l.rest[2] < High
               \/ l.rest[1] = Byte - 1 /\ l.len > 1 /\ l.rest[2] >= High
            THEN Refused
            ELSE LET digits == SkipZeros(l.rest, l.len)
                     overflow == \/ l.rest[1] >= High
                                 \/ digits.count > ScalarBytes
                                 \/ NumberOf(SubSeq(digits.rest, 1, digits.count)) >= Order
                 IN [ret |-> TRUE, rest |-> From(l.rest, l.len + 1),
                     r |-> IF overflow THEN 0 ELSE NumberOf(SubSeq(digits.rest, 1, digits.count))]

NotParsed == [ret |-> FALSE, r |-> 0, s |-> 0]

ecdsa_sig_parse(sig) ==
    IF sig = <<>> \/ sig[1] # SequenceTag THEN NotParsed
    ELSE LET l == der_read_len(Tail(sig))
             r == der_parse_integer(l.rest)
             s == der_parse_integer(r.rest)
         IN IF l.len < 0 \/ l.len # Len(l.rest) \/ ~r.ret \/ ~s.ret \/ s.rest # <<>> THEN NotParsed
            ELSE [ret |-> TRUE, r |-> r.r, s |-> s.r]

\* The shortest bytes that do not read as a negative number.
RECURSIVE Shortest(_)
Shortest(b) == IF Len(b) > 1 /\ b[1] = 0 /\ b[2] < High THEN Shortest(Tail(b)) ELSE b

\* size is what the buffer has, and then what the signature needs.
ecdsa_sig_serialize(size, ar, as) ==
    LET r == Shortest(<<0>> \o BytesOf(ar, ScalarBytes))
        s == Shortest(<<0>> \o BytesOf(as, ScalarBytes))
        need == 6 + Len(s) + Len(r)
    IN [ret |-> size >= need, size |-> need,
        sig |-> IF size < need THEN <<>>
                ELSE <<SequenceTag, 4 + Len(s) + Len(r), IntegerTag, Len(r)>> \o r
                     \o <<IntegerTag, Len(s)>> \o s]

-----------------------------------------------------------------------------
(* Lax                                                                     *)

LaxLen(s) ==
    IF s = <<>> THEN Bad
    ELSE IF s[1] < High THEN [len |-> s[1], rest |-> Tail(s)]
    ELSE IF s[1] - High > Len(s) - 1 THEN Bad
    ELSE LET z == SkipZeros(Tail(s), s[1] - High)
         IN IF z.count >= SizeBytes THEN Bad
            ELSE [len |-> NumberOf(SubSeq(z.rest, 1, z.count)), rest |-> From(z.rest, z.count + 1)]

\* The bytes of a number, which nothing is asked of.
LaxInteger(s) ==
    IF s = <<>> \/ s[1] # IntegerTag THEN [ret |-> FALSE]
    ELSE LET l == LaxLen(Tail(s))
         IN IF l.len < 0 \/ l.len > Len(l.rest) THEN [ret |-> FALSE]
            ELSE [ret |-> TRUE, digits |-> SkipZeros(l.rest, l.len), rest |-> From(l.rest, l.len + 1)]

\* The length of the whole is skipped; anything may follow.
AfterHeader(input) ==
    IF Len(input) < 2 \/ input[1] # SequenceTag THEN <<>>
    ELSE IF input[2] < High THEN From(input, 3)
    ELSE From(input, 3 + input[2] - High)

signature_parse_der_lax(input) ==
    LET r == LaxInteger(AfterHeader(input))
        s == LaxInteger(r.rest)
        number(x) == NumberOf(SubSeq(x.digits.rest, 1, x.digits.count))
        overflow == \E x \in {r, s} : x.digits.count > ScalarBytes \/ number(x) >= Order
    IN IF ~r.ret \/ ~s.ret THEN NotParsed
       ELSE IF overflow THEN [ret |-> TRUE, r |-> 0, s |-> 0]
       ELSE [ret |-> TRUE, r |-> number(r), s |-> number(s)]

-----------------------------------------------------------------------------
(* Private keys                                                            *)

ec_seckey_verify(key) == key \in 1..(Order - 1)
NoKey == [ret |-> FALSE, key |-> 0]

ec_privkey_import_der(privkey) ==
    IF Len(privkey) < 2 \/ privkey[1] # SequenceTag \/ privkey[2] < High THEN NoKey
    ELSE LET lenb == privkey[2] - High
             len  == NumberOf(SubSeq(privkey, 3, 2 + lenb))
             rest == From(privkey, 3 + lenb)
         IN IF \/ lenb \notin 1..2 \/ Len(privkey) < 2 + lenb \/ Len(rest) < len
               \/ Len(rest) < 3 \/ SubSeq(rest, 1, 3) # <<IntegerTag, 1, 1>>
               \/ Len(rest) < 5 \/ rest[4] # OctetsTag
               \/ rest[5] > ScalarBytes \/ Len(rest) < 5 + rest[5]
            THEN NoKey
            ELSE LET key == NumberOf(SubSeq(rest, 6, 5 + rest[5]))
                 IN IF ec_seckey_verify(key) THEN [ret |-> TRUE, key |-> key] ELSE NoKey

\* The lengths in the headers are literals of the source.
ec_privkey_export_der(key, compressed) ==
    LET body == <<IntegerTag, 1, 1, OctetsTag, ScalarBytes>> \o BytesOf(key, ScalarBytes)
                \o Middle(compressed) \o PublicKey(key, compressed)
        lenb == IF compressed THEN 1 ELSE 2
    IN IF ec_seckey_verify(key)
       THEN [ret |-> TRUE,
             privkey |-> <<SequenceTag, High + lenb>> \o BytesOf(Len(body), lenb) \o body]
       ELSE [ret |-> FALSE, privkey |-> <<>>]
=============================================================================
