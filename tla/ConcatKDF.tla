----------------------------- MODULE ConcatKDF -----------------------------
(****************************************************************************)
(* BackEnd::concatKDF (back_end.cpp) between the two ends of ECDH-ES: the   *)
(* sender's encryptKey_ asks for as many octets as the content key has that *)
(* encrypt() made (jwe.cpp), the recipient's decryptKey_ has a table of its *)
(* own (openssl_back_end.cpp).                                              *)
(*                                                                          *)
(* The hash is symbolic: octet j of the hash of a string s is <<s, j>>, so  *)
(* that two keys are equal only if the hashed strings are.                  *)
(****************************************************************************)
EXTENDS Naturals, Sequences, SequencesExt

CONSTANTS
    Secrets,   \* shared secrets, as octet strings
    Name,      \* Name[enc]: the octets of an algorithm's name
    Parties,   \* PartyUInfo and PartyVInfo of other producers, as octet strings
    HashLen    \* octets of a SHA-256 hash

Encs == {"A128GCM", "A192GCM", "A256GCM", "A128CBC-HS256", "A192CBC-HS384", "A256CBC-HS512"}

Octet == 0..255

\* A length is put into four octets.
FitsPrefix(s) == Len(s) \div 16777216 < 256

\* The hash is SHA-256: a content key is of one round or of two.
ASSUME HashAssumption == HashLen = 32

\* Both ends are on the curve of the ephemeral key, so that their secrets,
\* which have no length in front of them, are of one size.
ASSUME SecretsAssumption ==
    /\ Secrets \subseteq Seq(Octet)
    /\ \A y, z \in Secrets : Len(y) = Len(z)

ASSUME NameAssumption ==
    /\ \A enc \in Encs : Name[enc] \in Seq(Octet) /\ FitsPrefix(Name[enc])
    /\ \A enc1, enc2 \in Encs : Name[enc1] = Name[enc2] => enc1 = enc2

ASSUME PartiesAssumption ==
    \A u \in Parties : u \in Seq(Octet) /\ FitsPrefix(u)

VARIABLES
    sender,    \* what one end derived: a context and its key, or NoKey
    recipient  \* what the other end derived

kdf_vars == <<sender, recipient>>

NoKey == [context |-> <<>>, key |-> <<>>]

\* toBigEndian of a uint32_t, as four octets.
BigEndian32(n) == <<(n \div 16777216) % 256, (n \div 65536) % 256, (n \div 256) % 256, n % 256>>

\* Mutant: the parts are put one after the other without their lengths.
Mutant_Prefixed(s) == s

\* AlgorithmID, PartyUInfo and PartyVInfo begin with their length.
Prefixed(s) == BigEndian32(Len(s)) \o s

\* OtherInfo: SuppPubInfo is the key's length in bits, SuppPrivInfo is empty.
OtherInfo(context) ==
    Prefixed(context.algorithm) \o Prefixed(context.apu) \o Prefixed(context.apv)
    \o BigEndian32(context.key_data_len * 8)

Hash(s) == [j \in 1..HashLen |-> <<s, j>>]

Round(context, i) == Hash(BigEndian32(i) \o context.shared_secret \o OtherInfo(context))

\* Rounds are counted up to the hash that covers the last octet.
Reps(len) == (len + HashLen - 1) \div HashLen

\* resize(): cut, or filled up with zeros.
Resized(s, n) == [i \in 1..n |-> IF i <= Len(s) THEN s[i] ELSE <<<<>>, 0>>]

Derive(context) ==
    Resized(FlattenSeq([i \in 1..Reps(context.key_data_len) |-> Round(context, i)]),
            context.key_data_len)

\* getKeySize: how long the content key is that the sender replaces.
KeySize ==
    [enc \in Encs |-> CASE enc = "A128GCM" -> 16 [] enc = "A192GCM" -> 24 [] enc = "A256GCM" -> 32
                        [] enc = "A128CBC-HS256" -> 32 [] enc = "A192CBC-HS384" -> 48
                        [] enc = "A256CBC-HS512" -> 64]

\* The recipient's table in decryptKey_.
DerivedKeyLen ==
    [enc \in Encs |-> CASE enc = "A128GCM" -> 16 [] enc = "A128CBC-HS256" -> 32
                        [] enc = "A192GCM" -> 24 [] enc = "A192CBC-HS384" -> 48
                        [] enc = "A256GCM" -> 32 [] enc = "A256CBC-HS512" -> 64]

Context(z, len, name, u, v) ==
    [shared_secret |-> z, key_data_len |-> len, algorithm |-> name, apu |-> u, apv |-> v]

-----------------------------------------------------------------------------
KDFInit == sender = NoKey /\ recipient = NoKey

\* encryptKey_: neither end of the library ever passes apu or apv.
SenderDerives(z, enc) ==
    LET context == Context(z, KeySize[enc], Name[enc], <<>>, <<>>)
    IN  /\ sender = NoKey
        /\ sender' = [context |-> context, key |-> Derive(context)]
        /\ UNCHANGED recipient

\* Another producer, which may name the parties (RFC 7518, 4.6.1).
ForeignSenderDerives(z, enc, u, v) ==
    LET context == Context(z, KeySize[enc], Name[enc], u, v)
    IN  /\ sender = NoKey
        /\ sender' = [context |-> context, key |-> Derive(context)]
        /\ UNCHANGED recipient

\* decryptKey_.
RecipientDerives(z, enc) ==
    LET context == Context(z, DerivedKeyLen[enc], Name[enc], <<>>, <<>>)
    IN  /\ recipient = NoKey
        /\ recipient' = [context |-> context, key |-> Derive(context)]
        /\ UNCHANGED sender

\* Another reader.
ForeignRecipientDerives(z, enc, u, v) ==
    LET context == Context(z, DerivedKeyLen[enc], Name[enc], u, v)
    IN  /\ recipient = NoKey
        /\ recipient' = [context |-> context, key |-> Derive(context)]
        /\ UNCHANGED sender

KDFNext ==
    \E z \in Secrets, enc \in Encs :
        \/ SenderDerives(z, enc) \/ RecipientDerives(z, enc)
        \/ \E u, v \in Parties : \/ ForeignSenderDerives(z, enc, u, v)
                                 \/ ForeignRecipientDerives(z, enc, u, v)

KDFSpec == KDFInit /\ [][KDFNext]_kdf_vars

-----------------------------------------------------------------------------
(* Properties. *)

\* The two ends have the same key just when they agree on the secret, on the
\* algorithm and on who the parties are; octets that move from one part of the
\* context into the next make another key.  No octet of a key is a filler, and
\* none is used twice.
SameKeyIffSameContext ==
    /\ sender # NoKey /\ recipient # NoKey =>
           (sender.key = recipient.key <=>
                /\ sender.context.shared_secret = recipient.context.shared_secret
                /\ sender.context.algorithm = recipient.context.algorithm
                /\ sender.context.apu = recipient.context.apu
                /\ sender.context.apv = recipient.context.apv)
    /\ \A end \in {sender, recipient} :
           /\ \A i \in DOMAIN end.key : end.key[i] # <<<<>>, 0>>
           /\ IsInjective(end.key)
=============================================================================
