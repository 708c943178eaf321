------------------------------ MODULE JWTDocs ------------------------------
(***************************************************************************)
(* What a comment of jwt.cpp says of the algorithm a token is signed with  *)
(* and the code does not do.                                               *)
(***************************************************************************)
EXTENDS MCJWT

DocsMaterials == MCMaterials \union {"m3"}
DocsThumbprint == [h \in Hashes |-> [m \in DocsMaterials |-> m]]

\* A generated key of each elliptic curve.
ECKeys ==
    {Generate("EC", "sig", "P-256", None, "m1"), Generate("EC", "sig", "P-384", None, "m2"),
     Generate("EC", "sig", "P-521", None, "m3")}

\* jwt.cpp: if the default is used but the key is not RSA, an appropriate
\* algorithm is picked.  So a key that can sign by some algorithm signs by default,
\* unless the back end fails.
DefaultAlgorithmSigns ==
    last.op = "sign" /\ ~last.faulty =>
        ~ \E alg \in SigAlgs \ {"none"} :
              SignDispatched(alg, last.key) /\ Signable(alg, last.key)
=============================================================================
