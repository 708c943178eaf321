------------------------------ MODULE JWEDocs ------------------------------
(****************************************************************************)
(* What the comments of jwe.cpp say of ECDH-ES tokens and the code does not *)
(* do.                                                                      *)
(****************************************************************************)
EXTENDS MCJWE

\* A party with an EC key, and nobody else.
ECRings == {Pair(ECKey("ec1"), None)}

\* The flattened document of a token with one recipient (RFC 7516, 7.2.2).
Flattened(t) ==
    [protected |-> t.header, ek |-> Written(t.recipients[1].ek),
     header |-> t.recipients[1].header, recipients |-> <<>>, body |-> t.body]

\* jwe.cpp: the flattened serialisation has an optional "header", and the epk
\* may be in it.  So reading a flattened document keeps the header.
FlattenedHeaderKept ==
    \A t \in issued :
        Len(t.recipients) = 1 => Parses(Flattened(t)) /\ ParsedObject(Flattened(t)) = t
=============================================================================
