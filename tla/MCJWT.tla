------------------------------- MODULE MCJWT -------------------------------
(* A small instance of JWT for TLC: an int of three bits, so that the clock    *)
(* passes the end of its range.                                             *)
EXTENDS JWT

MCMaterials == {"m1", "m2"}
MCThumbprint == [h \in Hashes |-> [m \in MCMaterials |-> m]]

PublicCopy(key) == FromJSON(ToJSON(key, FALSE), FALSE)

OctKey == Generate("oct", "sig", None, None, "m1")
ECKey  == Generate("EC", "sig", "P-256", None, "m2")

MCKeys == {OctKey, ECKey, PublicCopy(ECKey)}

MCClaims(exp, nbf) == Put(Put(NoClaims, "exp", exp), "nbf", nbf)

\* An expiry past the range of an int and one that wraps to the epoch; a start
\* that is no number.
MCForeignClaims ==
    {MCClaims(Number(5), Text("x")), MCClaims(Number(8), Number(2)), NotObject,
     Put(NoClaims, "aud", Array(<<NonString, "x">>))}

MCTextSettings  == {<<"iss", "x">>, <<"exp", "x">>}
MCAudienceLists == {<<>>, <<"y", "x">>}

MCPayloads == MCForeignClaims \union Drafts

Expect(issuer, audience, leeway) ==
    [issuer |-> issuer, audience |-> audience, leeway |-> leeway]

MCExpectations == {Expect("", "", 0), Expect("x", "", 1), Expect("", "x", 0)}
=============================================================================
