--------------------------- MODULE KeyEncryption ---------------------------
(****************************************************************************)
(* The encryption half of the OpenSSL back end: encryptKey_, decryptKey_,   *)
(* decryptContent_ (openssl_back_end.cpp), with the constants of jwe.cpp    *)
(* that go with them.                                                       *)
(*                                                                          *)
(* Cryptography is symbolic.  A content encryption key (CEK) is the secret  *)
(* of an oct key, or what the two sides of token number n derive or wrap.   *)
(* A wrapped CEK opens for the material and the scheme it was made for; an  *)
(* encrypted content opens for its CEK, algorithm and AAD.  None stands for *)
(* an error, and for the empty octets of a key that is not wrapped.         *)
(*                                                                          *)
(* That holds as far as the code makes sure of it.  It never asks for the   *)
(* length of an IV, and AES-GCM compares as many octets of the tag as the   *)
(* token has, be it one: a short tag may match what it was not made for.    *)
(* So a token names the parts whose length is not the algorithm's, and the  *)
(* outcome of a decryption is a set.                                        *)
(****************************************************************************)
EXTENDS JWK

CONSTANTS
    OctSize,   \* OctSize[m]: the octets of m, if it is a symmetric secret
    Payloads,  \* plaintexts
    MaxTokens, \* bound: tokens made, which numbers their random choices
    Tampered,  \* octets that belong to no token
    Corrupt    \* a plaintext that nobody encrypted

\* JWA::KeyEncryptionAlgorithm.
RSAWraps == {"RSA1_5", "RSA-OAEP", "RSA-OAEP-256"}
AESWraps == {"A128KW", "A192KW", "A256KW"}
GCMWraps == {"A128GCMKW", "A192GCMKW", "A256GCMKW"}
KEAs     == RSAWraps \union AESWraps \union GCMWraps \union {"dir", "ECDH-ES"}

\* JWA::ContentEncryptionAlgorithm.
CBCAlgs == {"A128CBC-HS256", "A192CBC-HS384", "A256CBC-HS512"}
CEAs    == CBCAlgs \union {"A128GCM", "A192GCM", "A256GCM"}

\* requiresWrappedKey.
RequiresWrappedKey(kea) == kea \notin {"dir", "ECDH-ES"}

\* getKeySize, in octets.
ContentKeySize(enc) ==
    CASE enc = "A128GCM" -> 16
      [] enc = "A192GCM" -> 24
      [] enc \in {"A256GCM", "A128CBC-HS256"} -> 32
      [] enc = "A192CBC-HS384" -> 48
      [] OTHER -> 64

Tokens == 1..MaxTokens

\* Mutant: the dummy CEK of encrypt() takes the place of what is derived.
Mutant_AgreedCEK(mat, n, enc) == [kind |-> "agreed", mat |-> None, n |-> 0, enc |-> enc]

\* What "dir" takes for the CEK, what ECDH-ES derives for the two algorithms'
\* ends (it depends on 'enc'), the random CEK that is wrapped, and octets that
\* are nobody's CEK.
SecretCEK(mat)         == [kind |-> "secret", mat |-> mat, n |-> 0, enc |-> None]
AgreedCEK(mat, n, enc) == [kind |-> "agreed", mat |-> mat, n |-> n, enc |-> enc]
RandomCEK(n, enc)      == [kind |-> "random", mat |-> None, n |-> n, enc |-> enc]
JunkCEK                == [kind |-> "junk", mat |-> None, n |-> 0, enc |-> None]

\* The CEKs that somebody encrypts with.
CEKs == [kind : {"secret", "agreed", "random"}, mat : Materials \union {None},
         n : Tokens \union {0}, enc : CEAs \union {None}]

\* Of junk no length is known; it matters only if it is too short.
Octets(cek) ==
    CASE cek.kind = "secret" -> OctSize[cek.mat]
      [] cek.kind = "junk" -> 0
      [] OTHER -> ContentKeySize(cek.enc)

\* What marks a wrapped CEK: the padding of RSA, or the AES mode whatever the
\* length of its key.
Scheme(kea) ==
    CASE kea \in AESWraps -> "KW"
      [] kea \in GCMWraps -> "GCMKW"
      [] OTHER -> kea

Wrap(kea, mat, cek) == [scheme |-> Scheme(kea), mat |-> mat, cek |-> cek]

WrappedKeys == [scheme : RSAWraps \union {"KW", "GCMKW", "inline"}, mat : Materials, cek : CEKs]

\* AES-GCM key wrapping also takes one string of IV, wrapped key and tag.
Inline(ek) == [ek EXCEPT !.scheme = "inline"]

\* The parts of an encryption whose length is not the algorithm's: an IV of any
\* other, and a shorter tag.  (A longer tag is refused, unless CBC has a CEK to
\* match it.)
OddParts == SUBSET {"iv", "tag"}

\* The 'iv' and 'tag' header members of AES-GCM key wrapping: those of the
\* wrapping of token n's CEK for one recipient.
GCMParams == [n : Tokens, mat : Materials, odd : OddParts]

GCMKeySize(kea) == CASE kea = "A128GCMKW" -> 16 [] kea = "A192GCMKW" -> 24 [] OTHER -> 32

\* The key that an algorithm asks for: AES-KW takes the length of the key as it
\* comes and does not compare it with the algorithm.
KeyServes(kea, key) ==
    CASE kea \in RSAWraps -> key.kty = "RSA"
      [] kea \in AESWraps -> key.kty = "oct" /\ key.mat # None /\ OctSize[key.mat] \in {16, 24, 32}
      [] kea \in GCMWraps -> key.kty = "oct" /\ key.mat # None /\ OctSize[key.mat] = GCMKeySize(kea)
      [] kea = "dir"      -> key.kty = "oct" /\ key.mat # None
      [] OTHER            -> key.kty = "EC"

\* Whether the wrapping was made by the scheme and for the key's material.
Fits(scheme, key, ek) ==
    ek \notin {None, Tampered} /\ ek.scheme = scheme /\ ek.mat = key.mat

\* RSA1_5 may answer a mismatch with random octets of any length; the other
\* schemes detect it.
PlainUnwraps(kea, key, ek) ==
    IF Fits(Scheme(kea), key, ek) THEN {ek.cek}
    ELSE IF kea = "RSA1_5" THEN {None, JunkCEK} ELSE {None}

\* Whether 'iv' and 'tag' are those of the wrapped key.
Belongs(gcm, ek) == gcm.n = ek.cek.n /\ gcm.mat = ek.mat

\* aesGcmDecrypt of a wrapped CEK that carries its IV and tag, or has them in the
\* header.  Odd lengths may make it fail, and a short tag may let it succeed.
GCMUnwraps(key, ek, gcm) ==
    IF gcm = None
    THEN IF Fits("inline", key, ek) THEN {ek.cek} ELSE {None}
    ELSE LET genuine == Fits("GCMKW", key, ek) /\ Belongs(gcm, ek)
         IN  (IF genuine THEN {ek.cek} ELSE {None})
             \union (IF gcm.odd # {} THEN {None} ELSE {})
             \union (IF "tag" \in gcm.odd /\ (~genuine \/ "iv" \in gcm.odd)
                     THEN {JunkCEK} ELSE {})

\* Mutant: the public half of a key is enough.
Mutant_UnwrapOutcomes(kea, key, ek, gcm) ==
    IF ~KeyServes(kea, key) THEN {None}
    ELSE IF kea \in GCMWraps THEN GCMUnwraps(key, ek, gcm)
    ELSE PlainUnwraps(kea, key, ek)

\* decryptKey_ for an algorithm that wraps: the private half is imported, and
\* the wrapping is undone or does not check.
UnwrapOutcomes(kea, key, ek, gcm) ==
    IF ~KeyServes(kea, key) \/ ~hasPrivateKey(key) THEN {None}
    ELSE IF kea \in GCMWraps THEN GCMUnwraps(key, ek, gcm)
    ELSE PlainUnwraps(kea, key, ek)

\* What is encrypted, with the IV and the tag that go with it.
Ciphertexts(Headers) == [cek : CEKs, enc : CEAs, aad : Headers, payload : Payloads]

\* Neither the ciphers nor the MAC compare the length of the CEK with what they
\* read: a shorter one is continued with the memory behind it, and so is the
\* authentication tag of CBC with a CEK of more than twice the size.
Short(cek, enc) == Octets(cek) < ContentKeySize(enc)

Measured(cek, enc) ==
    /\ ~Short(cek, enc)
    /\ enc \in CBCAlgs => Octets(cek) <= 2 * ContentKeySize(enc)

\* encryptContent_: the tag of CBC is half as long as the CEK.
Encrypted(cek, enc, aad, payload) ==
    [content |-> [cek |-> cek, enc |-> enc, aad |-> aad, payload |-> payload],
     odd |-> IF enc \in CBCAlgs /\ Short(cek, enc) THEN {"tag"} ELSE {}]

MadeWith(body, cek, enc) ==
    body.content # Tampered /\ body.content.cek = cek /\ body.content.enc = enc

\* CBC wants a tag of half the CEK, and GCM takes what there is.
TagCompared(enc, cek, body) ==
    enc \in CBCAlgs => ("tag" \in body.odd <=> Short(cek, enc))

\* Whether a tag that is accepted may leave octets that nobody encrypted: those
\* of a short tag, and those between which CBC's MAC draws no line (the IV and
\* the ciphertext), so that one's may be taken for the other's.
Misread(enc, cek, body) ==
    \/ /\ "tag" \in body.odd
       /\ ~MadeWith(body, cek, enc) \/ "iv" \in body.odd \/ ~Measured(cek, enc)
    \/ "iv" \in body.odd /\ enc \in CBCAlgs

\* Mutant: the protected header is not authenticated.
Mutant_DecryptOutcomes(enc, cek, aad, body) ==
    IF MadeWith(body, cek, enc) THEN {body.content.payload} ELSE {None}

\* decryptContent_.  A tag of full length is that of the content and the AAD, or
\* is refused.  A CEK that is not measured, of which the two ends may have read
\* different memory, and an IV or a tag of odd length may have any of several
\* outcomes.
DecryptOutcomes(enc, cek, aad, body) ==
    LET genuine == MadeWith(body, cek, enc) /\ body.content.aad = aad
        sealed  == IF MadeWith(body, cek, enc) THEN {body.content.payload} ELSE {}
    IN  IF ~TagCompared(enc, cek, body) \/ ("tag" \notin body.odd /\ ~genuine) THEN {None}
        ELSE IF genuine /\ body.odd = {} /\ Measured(cek, enc) THEN sealed
        ELSE {None} \union sealed \union (IF Misread(enc, cek, body) THEN {Corrupt} ELSE {})

ASSUME SizeAssumption == OctSize \in [Materials -> Nat] /\ MaxTokens \in Nat

ASSUME CEKAssumption ==
    /\ None \notin CEKs /\ None \notin WrappedKeys /\ None \notin GCMParams
    /\ None \notin CEAs \union KEAs
    /\ JunkCEK \notin CEKs /\ Tampered \notin WrappedKeys
    /\ None \notin Payloads /\ Corrupt \notin Payloads /\ Corrupt # None
=============================================================================
