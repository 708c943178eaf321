-------------------------------- MODULE JWK --------------------------------
(****************************************************************************)
(* JSON Web Keys (src/src/jwk.cpp, jwk_impl.hpp, jwk_thumbprint.cpp): what  *)
(* a JWK object holds, which documents fromJSON accepts and what it makes   *)
(* of them, what toJSON writes, and what generateRSA/EC/Oct/OKP return.     *)
(*                                                                          *)
(* Key bytes are abstracted to a member of Materials: one per key pair (or  *)
(* symmetric secret) that a generator can return.  What a public and a      *)
(* private copy of one key share is its material; what tells them apart is  *)
(* the field priv.  Everything that fails in the code, by an empty optional *)
(* or by an exception, yields None.                                         *)
(****************************************************************************)
EXTENDS Naturals

CONSTANTS
    Materials,   \* the key materials that can be generated
    Kids,        \* the non-empty key IDs, thumbprints included
    Thumbprint,  \* Thumbprint[h][m]: the RFC 7638 thumbprint of material m
    None         \* the absent value: no key, no kid, no alg, no material

KeyTypes == {"RSA", "EC", "oct", "OKP"}
Uses     == {"sig", "enc"}
Hashes   == {"SHA-256", "SHA-384", "SHA-512"}

ECCurves  == {"P-256", "P-384", "P-521"}
OKPCurves == {"Ed25519", "Ed448", "X25519", "X448"}
Curves    == ECCurves \union OKPCurves

HMACAlgs == {"HS256", "HS384", "HS512"}
RSAAlgs  == {"RS256", "RS384", "RS512", "PS256", "PS384", "PS512"}
ECDSAAlgs == {"ES256", "ES384", "ES512"}

\* JWA::SignatureAlgorithm, by the names of JWA::toString.
SigAlgs == HMACAlgs \union RSAAlgs \union ECDSAAlgs \union {"EdDSA", "none"}

ECDHAlgs   == {"ECDH-ES", "ECDH-ES+A128KW", "ECDH-ES+A192KW", "ECDH-ES+A256KW"}
RSAEncAlgs == {"RSA-OAEP", "RSA-OAEP-256", "RSA-OAEP-384", "RSA-OAEP-512", "RSA1_5"}
OctEncAlgs == {"A128KW", "A192KW", "A256KW", "A128GCMKW", "A192GCMKW", "A256GCMKW"}

\* The algorithms a key of a type may name for a use (validateAlgorithm_).
AlgsFor(kty, use) ==
    CASE kty = "RSA" /\ use = "sig" -> RSAAlgs
      [] kty = "RSA" /\ use = "enc" -> RSAEncAlgs
      [] kty = "EC"  /\ use = "sig" -> ECDSAAlgs \union {"ES256K"}
      [] kty = "EC"  /\ use = "enc" -> ECDHAlgs
      [] kty = "oct" /\ use = "sig" -> HMACAlgs
      [] kty = "oct" /\ use = "enc" -> OctEncAlgs
      [] kty = "OKP" /\ use = "sig" -> {"EdDSA"}
      [] OTHER                      -> ECDHAlgs

\* inferUseFromAlgorithm_: the use follows from the algorithm's name alone; the
\* key type is not asked.
SigKeyAlgs == HMACAlgs \union RSAAlgs \union ECDSAAlgs \union {"ES256K", "EdDSA"}
EncKeyAlgs == RSAEncAlgs \union ECDHAlgs \union OctEncAlgs
InferUse(alg) == IF alg \in SigKeyAlgs THEN "sig" ELSE "enc"

KeyAlgs == SigKeyAlgs \union EncKeyAlgs

\* getDefaultAlgorithm_.
DefaultAlgorithm(kty, use, crv) ==
    CASE kty = "RSA" -> IF use = "sig" THEN "RS256" ELSE "RSA-OAEP-256"
      [] kty = "EC"  -> IF use = "enc" THEN "ECDH-ES"
                        ELSE IF crv = "P-384" THEN "ES384"
                        ELSE IF crv = "P-521" THEN "ES512" ELSE "ES256"
      [] kty = "oct" -> IF use = "sig" THEN "HS256" ELSE "A256KW"
      [] OTHER       -> IF use = "sig" THEN "EdDSA" ELSE "ECDH-ES"

(***************************************************************************)
(* A JWK object: JWK::Impl and the Key it owns.  has_use_ is TRUE in every  *)
(* object the public interface can make, so it is not a field.  priv is     *)
(* "partial" for an RSA key of n, e and d without the CRT members, "full"   *)
(* for every other key that can sign or unwrap.  An oct key read with its   *)
(* secret ignored holds no bytes at all: its mat is None.                   *)
(***************************************************************************)
JWKs == [kty : KeyTypes,
         crv : Curves \union {None},
         mat : Materials \union {None},
         priv : {"none", "partial", "full"},
         kid : Kids \union {None},
         alg : KeyAlgs \union {None},
         use : Uses]

hasPrivateKey(key) == key.priv # "none"

(***************************************************************************)
(* A JSON document offered to fromJSON.  use "other" is any string but      *)
(* "sig" and "enc"; alg "unknown" any name the tables do not hold; mat is   *)
(* None when a required public member (for oct: k) is missing or does not   *)
(* decode; priv says which of d, p, q, dp, dq, qi (RSA) or d are there: a    *)
(* CRT member without d, or some of them only, is ill-formed.               *)
(***************************************************************************)
JWKDocs ==
    {doc \in [kty : KeyTypes \union {"other"},
              crv : Curves \union {"other", None},
              mat : Materials \union {None},
              priv : {"none", "partial", "full", "crtNoD", "crtIncomplete"},
              kid : Kids \union {None},
              alg : KeyAlgs \union {"unknown", None},
              use : Uses \union {"other", None}] :
        doc.kty # "RSA" => doc.priv \notin {"crtNoD", "crtIncomplete"}}

UseOf(doc) ==
    IF doc.use = None THEN InferUse(doc.alg)
    ELSE IF doc.use = "enc" THEN "enc" ELSE "sig"

AlgOf(doc) ==
    IF doc.alg = None THEN DefaultAlgorithm(doc.kty, UseOf(doc), doc.crv) ELSE doc.alg

\* The 'use' and 'alg' members of a document agree with each other.  A document
\* with 'alg' alone is not compared with its key type.
UseAndAlgAgree(doc) ==
    /\ doc.use # None \/ doc.alg # None
    /\ doc.use # None /\ doc.alg # None => doc.alg \in AlgsFor(doc.kty, UseOf(doc))
    /\ doc.use = None => doc.alg \in KeyAlgs

\* The key members of a document: which of them each key type needs.
MaterialUsable(doc, ignorePrivate) ==
    CASE doc.kty = "RSA" -> doc.mat # None /\ (ignorePrivate \/ doc.priv \in {"none", "partial", "full"})
      [] doc.kty = "EC"  -> doc.mat # None /\ doc.crv \in ECCurves
      [] doc.kty = "OKP" -> doc.mat # None /\ doc.crv \in OKPCurves
      [] OTHER           -> ignorePrivate \/ doc.mat # None

ThumbprintOf(hash, mat) == IF mat = None THEN None ELSE Thumbprint[hash][mat]

\* JWK::fromJSON_: the key a document describes, or None.
FromJSON(doc, ignorePrivate) ==
    LET mat  == IF doc.kty = "oct" /\ ignorePrivate THEN None ELSE doc.mat
        priv == IF ignorePrivate THEN "none"
                ELSE IF doc.kty = "oct" THEN "full" ELSE doc.priv
    IN  IF /\ doc.kty \in KeyTypes
           /\ UseAndAlgAgree(doc)
           /\ MaterialUsable(doc, ignorePrivate)
        THEN [kty |-> doc.kty, crv |-> IF doc.kty \in {"EC", "OKP"} THEN doc.crv ELSE None,
              mat |-> mat, priv |-> priv,
              kid |-> IF doc.kid = None THEN ThumbprintOf("SHA-256", mat) ELSE doc.kid,
              alg |-> AlgOf(doc), use |-> UseOf(doc)]
        ELSE None

\* Mutant: the private members are written whenever the key has them.
Mutant_ToJSON(key, includePrivate) ==
    [kty |-> key.kty, crv |-> key.crv, mat |-> key.mat, priv |-> key.priv,
     kid |-> key.kid, alg |-> key.alg, use |-> key.use]

(***************************************************************************)
(* JWK::toJSON.  The private members of an RSA key are written only when    *)
(* all of them are there; an oct key has nothing but a secret to write.     *)
(***************************************************************************)
ToJSON(key, includePrivate) ==
    [kty |-> key.kty, crv |-> key.crv,
     mat |-> IF key.kty = "oct" /\ ~includePrivate THEN None ELSE key.mat,
     priv |-> IF \/ ~includePrivate
                 \/ key.kty = "RSA" /\ key.priv = "partial"
              THEN "none" ELSE key.priv,
     kid |-> key.kid, alg |-> key.alg, use |-> key.use]

\* The curves a generator accepts; generateOKP derives its own from the use.
GenerableCurves(kty, use) ==
    CASE kty = "EC"  -> ECCurves
      [] kty = "OKP" -> IF use = "sig" THEN {"Ed25519", "Ed448"} ELSE {"X25519", "X448"}
      [] OTHER       -> {None}

\* generateRSA/EC/Oct/OKP: the algorithm is defaulted or validated, the back end
\* makes the material, and ensureKeyID names the key by its thumbprint.
Generate(kty, use, crv, alg, mat) ==
    LET chosen == IF alg = None THEN DefaultAlgorithm(kty, use, crv) ELSE alg
    IN  IF chosen \in AlgsFor(kty, use) /\ crv \in GenerableCurves(kty, use)
        THEN [kty |-> kty, crv |-> crv, mat |-> mat, priv |-> "full",
              kid |-> ThumbprintOf("SHA-256", mat), alg |-> chosen, use |-> use]
        ELSE None

\* The setters of jwk.hpp store what they are given and check nothing.
SetKeyID(key, kid)     == [key EXCEPT !.kid = kid]
SetAlgorithm(key, alg) == [key EXCEPT !.alg = alg]
SetUse(key, use)       == [key EXCEPT !.use = use]

\* Two key materials have no thumbprint in common, and None is no value of a key.
ASSUME ThumbprintAssumption ==
    /\ Thumbprint \in [Hashes -> [Materials -> Kids]]
    /\ \A h \in Hashes : \A m, n \in Materials :
           Thumbprint[h][m] = Thumbprint[h][n] => m = n

ASSUME NoneAssumption ==
    /\ None \notin Materials \union Kids \union KeyAlgs \union Curves \union Uses
    /\ None \notin JWKs
    /\ None # "unknown" /\ None # "other"
=============================================================================
