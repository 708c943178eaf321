------------------------------ MODULE MCJWKSet ------------------------------
(* A small instance of JWKSet for TLC. *)
EXTENDS JWKSet

MCMaterials == {"rsa", "ec", "oct", "foreign"}

\* A thumbprint goes by the name of its material.
MCThumbprint == [h \in Hashes |-> [m \in MCMaterials |-> m]]

MCKids == MCMaterials \union {"k"}

\* An RSA key, beside an EC key or a symmetric one.
RSAKey == Generate("RSA", "sig", None, None, "rsa")
ECKey  == Generate("EC", "sig", "P-256", None, "ec")
OctKey == Generate("oct", "sig", None, None, "oct")

\* The second goes by its thumbprint or, as the first may too, by the ID "k".
MCKeyRings ==
    {[a |-> RSAKey, b |-> key] : key \in {ECKey, OctKey}}
        \union {[a |-> SetKeyID(RSAKey, "k"), b |-> SetKeyID(ECKey, "k")]}

\* A key of another publisher under the ID "k", as such, without ID, with an
\* algorithm nobody knows, and with its private half.
ForeignKey == ToJSON(SetKeyID(Generate("EC", "sig", "P-256", None, "foreign"), "k"), FALSE)

MCForeignEntries ==
    {ForeignKey, [ForeignKey EXCEPT !.kid = None], [ForeignKey EXCEPT !.alg = "unknown"],
     [ForeignKey EXCEPT !.priv = "full"], Junk}
=============================================================================
