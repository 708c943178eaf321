----------------------------- MODULE JWKProofs -----------------------------
(***************************************************************************)
(* Lemmas about keys and their documents that JWSProofs and JWKSetProofs   *)
(* rest on, for every set of materials and key IDs.                        *)
(***************************************************************************)
EXTENDS JWK, TLAPS

\* The algorithm getDefaultAlgorithm_ picks is one a key can name.
LEMMA DefaultAlgorithmType ==
    ASSUME NEW kty, NEW use, NEW crv
    PROVE  DefaultAlgorithm(kty, use, crv) \in KeyAlgs
BY DEF DefaultAlgorithm, KeyAlgs, SigKeyAlgs, EncKeyAlgs, HMACAlgs, RSAAlgs, ECDSAAlgs,
       RSAEncAlgs, ECDHAlgs, OctEncAlgs

\* validateAlgorithm_ lets only algorithms through that a key can name.
LEMMA AlgsForType ==
    ASSUME NEW kty, NEW use
    PROVE  AlgsFor(kty, use) \subseteq KeyAlgs
BY DEF AlgsFor, KeyAlgs, SigKeyAlgs, EncKeyAlgs, HMACAlgs, RSAAlgs, ECDSAAlgs,
       RSAEncAlgs, ECDHAlgs, OctEncAlgs

\* Whatever document fromJSON accepts, of whatever producer, it makes a whole
\* key of: no ill-formed private half, no unknown algorithm, curve or use.
LEMMA FromJSONType ==
    ASSUME NEW doc \in JWKDocs, NEW ignorePrivate \in BOOLEAN,
           FromJSON(doc, ignorePrivate) # None
    PROVE  FromJSON(doc, ignorePrivate) \in JWKs
<1> DEFINE copy == FromJSON(doc, ignorePrivate)
           mat  == IF doc.kty = "oct" /\ ignorePrivate THEN None ELSE doc.mat
           priv == IF ignorePrivate THEN "none"
                   ELSE IF doc.kty = "oct" THEN "full" ELSE doc.priv
           crv  == IF doc.kty \in {"EC", "OKP"} THEN doc.crv ELSE None
           kid  == IF doc.kid = None THEN ThumbprintOf("SHA-256", mat) ELSE doc.kid
<1>1. /\ doc.mat \in Materials \union {None} /\ doc.kid \in Kids \union {None}
      /\ doc.priv \in {"none", "partial", "full", "crtNoD", "crtIncomplete"}
      /\ doc.alg \in KeyAlgs \union {"unknown", None}
      /\ doc.use \in Uses \union {"other", None}
      /\ doc.kty # "RSA" => doc.priv \notin {"crtNoD", "crtIncomplete"}
  BY DEF JWKDocs
<1>2. /\ copy = [kty |-> doc.kty, crv |-> crv, mat |-> mat, priv |-> priv, kid |-> kid,
                 alg |-> AlgOf(doc), use |-> UseOf(doc)]
      /\ doc.kty \in KeyTypes
      /\ UseAndAlgAgree(doc)
      /\ MaterialUsable(doc, ignorePrivate)
  BY DEF FromJSON
<1>3. crv \in Curves \union {None}
  BY <1>2 DEF MaterialUsable, Curves
<1>4. mat \in Materials \union {None} /\ kid \in Kids \union {None}
  BY <1>1, ThumbprintAssumption DEF ThumbprintOf, Hashes
<1>5. priv \in {"none", "partial", "full"}
  BY <1>1, <1>2 DEF MaterialUsable
<1>6. UseOf(doc) \in Uses
  BY DEF UseOf, InferUse, Uses
<1>7. AlgOf(doc) \in KeyAlgs
  <2>1. CASE doc.alg = None
    BY <2>1, DefaultAlgorithmType DEF AlgOf
  <2>2. CASE doc.alg # None
    <3>1. doc.alg \in KeyAlgs
      BY <1>2, <2>2, AlgsForType DEF UseAndAlgAgree
    <3> QED
      BY <2>2, <3>1 DEF AlgOf
  <2> QED
    BY <2>1, <2>2
<1>. HIDE DEF copy, mat, priv, crv, kid
<1> QED
  BY <1>2, <1>3, <1>4, <1>5, <1>6, <1>7 DEF JWKs, copy

\* What toJSON writes of a key without its private half is a document.
LEMMA PublicDocument ==
    ASSUME NEW key \in JWKs
    PROVE  LET doc == ToJSON(key, FALSE)
           IN  /\ doc \in JWKDocs
               /\ doc.kty = key.kty /\ doc.crv = key.crv /\ doc.kid = key.kid
               /\ doc.alg = key.alg /\ doc.use = key.use /\ doc.priv = "none"
               /\ doc.mat = IF key.kty = "oct" THEN None ELSE key.mat
<1> DEFINE doc == ToJSON(key, FALSE)
<1>1. /\ key.kty \in KeyTypes /\ key.crv \in Curves \union {None}
      /\ key.mat \in Materials \union {None} /\ key.kid \in Kids \union {None}
      /\ key.alg \in KeyAlgs \union {None} /\ key.use \in Uses
  BY DEF JWKs
<1>2. doc = [kty |-> key.kty, crv |-> key.crv,
             mat |-> IF key.kty = "oct" THEN None ELSE key.mat, priv |-> "none",
             kid |-> key.kid, alg |-> key.alg, use |-> key.use]
  BY DEF ToJSON
<1>. HIDE DEF doc
<1>3. doc \in JWKDocs
  BY <1>1, <1>2 DEF JWKDocs
<1>4. /\ doc.kty = key.kty /\ doc.crv = key.crv /\ doc.kid = key.kid
      /\ doc.alg = key.alg /\ doc.use = key.use /\ doc.priv = "none"
      /\ doc.mat = IF key.kty = "oct" THEN None ELSE key.mat
  BY <1>2
<1> QED
  BY <1>3, <1>4 DEF doc

\* The public half of a key, read back: a key of the same type, curve and
\* material, without private material, and without any exactly when it is
\* symmetric.  It keeps the names the key had, and is named if it had none.
LEMMA PublishedKey ==
    ASSUME NEW key \in JWKs, NEW ignorePrivate \in BOOLEAN,
           FromJSON(ToJSON(key, FALSE), ignorePrivate) # None
    PROVE  LET copy == FromJSON(ToJSON(key, FALSE), ignorePrivate)
           IN  /\ copy \in JWKs
               /\ ~hasPrivateKey(copy)
               /\ copy.kty = "oct" <=> copy.mat = None
               /\ copy.kty = key.kty
               /\ copy.mat = (IF key.kty = "oct" THEN None ELSE key.mat)
               /\ copy.crv = (IF key.kty \in {"EC", "OKP"} THEN key.crv ELSE None)
               /\ key.kid # None => copy.kid = key.kid
               /\ key.alg # None => copy.alg = key.alg
<1> DEFINE doc  == ToJSON(key, FALSE)
           copy == FromJSON(doc, ignorePrivate)
           mat  == IF doc.kty = "oct" /\ ignorePrivate THEN None ELSE doc.mat
           priv == IF ignorePrivate THEN "none"
                   ELSE IF doc.kty = "oct" THEN "full" ELSE doc.priv
<1>1. /\ doc \in JWKDocs
      /\ doc.kty = key.kty /\ doc.crv = key.crv /\ doc.kid = key.kid
      /\ doc.alg = key.alg /\ doc.use = key.use /\ doc.priv = "none"
      /\ doc.mat = IF key.kty = "oct" THEN None ELSE key.mat
  BY PublicDocument
<1>2. key.kty \in KeyTypes
  BY DEF JWKs
<1>3. /\ copy = [kty |-> doc.kty, crv |-> IF doc.kty \in {"EC", "OKP"} THEN doc.crv ELSE None,
                 mat |-> mat, priv |-> priv,
                 kid |-> IF doc.kid = None THEN ThumbprintOf("SHA-256", mat) ELSE doc.kid,
                 alg |-> AlgOf(doc), use |-> UseOf(doc)]
      /\ MaterialUsable(doc, ignorePrivate)
  BY DEF FromJSON
<1>4. priv = "none" /\ mat = doc.mat /\ (doc.kty = "oct" <=> mat = None)
  BY <1>1, <1>2, <1>3 DEF MaterialUsable, KeyTypes
<1>5. copy \in JWKs
  BY <1>1, FromJSONType
<1>6. doc.alg # None => AlgOf(doc) = doc.alg
  BY DEF AlgOf
<1>. HIDE DEF doc, copy, mat, priv
<1>7. /\ copy.priv = "none" /\ (copy.kty = "oct" <=> copy.mat = None)
      /\ copy.kty = key.kty /\ copy.mat = doc.mat
      /\ copy.crv = (IF key.kty \in {"EC", "OKP"} THEN key.crv ELSE None)
      /\ key.kid # None => copy.kid = key.kid
      /\ key.alg # None => copy.alg = key.alg
  BY <1>1, <1>3, <1>4, <1>6
<1> QED
  BY <1>1, <1>5, <1>7 DEF hasPrivateKey, doc, copy
=============================================================================
