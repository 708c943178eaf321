------------------------------ MODULE BackEnd ------------------------------
(******************************************************************************)
(* The signature half of the back end: the dispatch of BackEnd::sign and      *)
(* BackEnd::verify (src/src/private/back_end.cpp) and the OpenSSL back end    *)
(* underneath it (sign_, verify_, signRsa, signEc, signOkp of                 *)
(* openssl_back_end.cpp).                                                     *)
(*                                                                            *)
(* Cryptography is symbolic: the signature that algorithm alg makes with      *)
(* material m over a signing input is the record SigTerm(alg, m, input),      *)
(* and a signature verifies exactly when it is that record.  Every call may   *)
(* also fail inside OpenSSL (allocation, import, the random source).  None is *)
(* the Result that holds an error.                                            *)
(******************************************************************************)
EXTENDS JWK

SigTerm(alg, mat, input) == [alg |-> alg, mat |-> mat, input |-> input]

\* The two dispatchers ask the same of key type and algorithm.  For ECDSA the
\* key's 'alg' member stands in for its curve: the curve itself is not read.
KeyFits(alg, key) ==
    \/ alg \in HMACAlgs /\ key.kty = "oct"
    \/ alg \in RSAAlgs /\ key.kty = "RSA"
    \/ alg \in ECDSAAlgs /\ key.kty = "EC" /\ key.alg = alg
    \/ alg = "EdDSA" /\ key.kty = "OKP"

\* Mutant: the check for private material is forgotten.
Mutant_SignDispatched(alg, key) == KeyFits(alg, key)

\* BackEnd::sign lets nothing through without private material, nor "none".
SignDispatched(alg, key) == hasPrivateKey(key) /\ KeyFits(alg, key)

\* BackEnd::verify asks for private material only when the algorithm is an HMAC.
VerifyDispatched(alg, key) ==
    /\ KeyFits(alg, key)
    /\ alg \in HMACAlgs => hasPrivateKey(key)

\* Octets of a coordinate: of a key's curve (resolveCurveNames) and of one half
\* of a signature (getEcCoordinateSize).
CoordinateSize(crv) ==
    CASE crv = "P-256" -> 32 [] crv = "P-384" -> 48 [] OTHER -> 66

SignatureCoordinateSize(alg) ==
    CASE alg = "ES256" -> 32 [] alg = "ES384" -> 48 [] OTHER -> 66

\* signEc pads r and s to the algorithm's size, so a smaller curve passes and a
\* larger one does not fit; X25519 and X448 keys cannot start a signature.
Signable(alg, key) ==
    /\ key.kty = "EC" => CoordinateSize(key.crv) <= SignatureCoordinateSize(alg)
    /\ key.kty = "OKP" => key.crv \in {"Ed25519", "Ed448"}

SignOutcomes(alg, key, input) ==
    IF SignDispatched(alg, key) /\ Signable(alg, key)
    THEN {SigTerm(alg, key.mat, input), None}
    ELSE {None}

\* What can go wrong inside OpenSSL while a signature is checked: nothing, an
\* error while the key and the digest context are set up, or one in the final
\* call, whose answer is compared with 1 and so cannot be told from a mismatch.
Faults == {"none", "setup", "final"}

Checkable(alg, key) ==
    VerifyDispatched(alg, key) /\ (key.kty = "OKP" => key.crv \in {"Ed25519", "Ed448"})

\* TRUE or FALSE when the check was made, None when the Result holds an error.
\* An HMAC is recomputed by sign_, whose errors are passed on.
VerifyOutcome(alg, key, input, sig, fault) ==
    CASE ~Checkable(alg, key) -> None
      [] Checkable(alg, key) /\ fault = "none" -> sig = SigTerm(alg, key.mat, input)
      [] Checkable(alg, key) /\ fault = "setup" -> None
      [] OTHER -> IF alg \in HMACAlgs THEN None ELSE FALSE
=============================================================================
