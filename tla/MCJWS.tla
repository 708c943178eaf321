------------------------------- MODULE MCJWS -------------------------------
(* Small instances of JWS for TLC. *)
EXTENDS JWS

MCMaterials == {"m1", "m2"}

\* Thumbprints under SHA-256 and under the other hashes never coincide.
MCKids == {"t1", "t2", "u1", "u2", "k"}
MCThumbprint ==
    [h \in Hashes |->
        IF h = "SHA-256" THEN [m \in MCMaterials |-> IF m = "m1" THEN "t1" ELSE "t2"]
        ELSE [m \in MCMaterials |-> IF m = "m1" THEN "u1" ELSE "u2"]]

RSAKey(m) == Generate("RSA", "sig", None, None, m)
OctKey(m) == Generate("oct", "sig", None, None, m)
OKPKey(m) == Generate("OKP", "sig", "Ed25519", None, m)
ECKey(crv, alg, m) == Generate("EC", "sig", crv, alg, m)

\* One slot is left empty for a published key.
OneKey(key)   == [a |-> key, b |-> None]
TwoKeys(p, q) == [a |-> p, b |-> q]

\* A key of each type, alone.
AloneEnrolments ==
    {OneKey(RSAKey("m1")), OneKey(OctKey("m1")), OneKey(OKPKey("m1")),
     OneKey(ECKey("P-256", "ES256", "m1"))}

\* Two parties who sign the same payloads.
PairedEnrolments ==
    {TwoKeys(OctKey("m1"), OctKey("m2")),
     TwoKeys(ECKey("P-256", "ES256", "m1"), ECKey("P-384", "ES384", "m2")),
     TwoKeys(RSAKey("m1"), OKPKey("m2"))}

\* Headers this library never writes: no kid where the key has one, a respelled
\* one, an unknown algorithm, and members that are not strings.
Header(alg, kid, spelling) ==
    [shape |-> "object", alg |-> alg, kid |-> kid, params |-> {}, spelling |-> spelling]

OtherHeaders ==
    {Header("HS256", None, "other"), Header("unknown", None, "other")}

BadHeaders ==
    {Header("ES256", "t1", "other"), Header("none", None, "other"),
     Header("unknown", None, "other"), Header(NonString, None, "other"),
     Header("HS256", NonString, "other"),
     [Header("HS256", None, "other") EXCEPT !.shape = "malformed"]}
=============================================================================
