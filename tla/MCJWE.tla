------------------------------- MODULE MCJWE -------------------------------
(* Small instances of JWE for TLC. *)
EXTENDS JWE

\* RSA and EC key pairs, and symmetric secrets of 16 and of 32 octets.
MCMaterials == {"rsa1", "rsa2", "ec1", "ec2", "oct16", "octet16", "oct32"}

MCOctSize ==
    [m \in MCMaterials |->
        IF m \in {"oct16", "octet16"} THEN 16 ELSE IF m = "oct32" THEN 32 ELSE 0]

\* A thumbprint goes by the name of its material.
MCThumbprint == [h \in Hashes |-> [m \in MCMaterials |-> m]]

RSAKey(m) == Generate("RSA", "enc", None, None, m)
ECKey(m)  == Generate("EC", "enc", "P-256", None, m)
OctKey(m) == Generate("oct", "enc", None, None, m)

Published(key) == FromJSON(ToJSON(key, FALSE), TRUE)

Pair(k, l) == [a |-> k, b |-> l]

\* A key and what is published of it.
AloneRings ==
    {Pair(k, Published(k)) :
        k \in {RSAKey("rsa1"), ECKey("ec1"), OctKey("oct16"), OctKey("oct32")}}

\* Two parties.
PairedRings ==
    {Pair(RSAKey("rsa1"), RSAKey("rsa2")), Pair(ECKey("ec1"), ECKey("ec2")),
     Pair(OctKey("oct16"), OctKey("octet16"))}

\* Recipients' headers that repeat the algorithms, rightly or not, and one with
\* the parameters of the first token's wrapping and a tag that was cut.
RepeatedAlg(alg) == [alg |-> alg, enc |-> None, epk |-> None, gcm |-> None]
RepeatedEnc(enc) == [alg |-> None, enc |-> enc, epk |-> None, gcm |-> None]

CutHeaders ==
    {[alg |-> None, enc |-> None, epk |-> None,
      gcm |-> [n |-> 1, mat |-> "oct16", odd |-> {"tag"}]]}

MCForeignHeaders ==
    {RepeatedAlg("RSA-OAEP"), RepeatedAlg("RSA1_5"), RepeatedEnc("A128GCM")} \union CutHeaders

\* A protected header that nobody encrypted under.
MCMadeUpHeaders == {Header("dir", "A128GCM", None, None)}

\* Every part as long as it should be; or one part that is not.
WholeLengths == {{}}
OneLength    == {{}, {"iv"}, {"tag"}}
=============================================================================
