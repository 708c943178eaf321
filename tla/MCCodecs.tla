------------------------------ MODULE MCCodecs ------------------------------
(****************************************************************************)
(* Base64URL and ConcatKDF side by side.  They have nothing to do with each *)
(* other: a behaviour is one of the first or one of the second.             *)
(****************************************************************************)
EXTENDS Base64URL, ConcatKDF

MCName == [enc \in Encs |->
    CASE enc = "A128GCM" -> <<1>>       [] enc = "A192GCM" -> <<2>>
      [] enc = "A256GCM" -> <<1, 2>>    [] enc = "A128CBC-HS256" -> <<1, 1>>
      [] enc = "A192CBC-HS384" -> <<3>> [] enc = "A256CBC-HS512" -> <<4>>]
MCSecrets == {<<7, 7>>, <<7, 8>>}
MCParties == {<<>>, <<2>>, <<1>>}

Init == B64Init /\ KDFInit

Next ==
    \/ KDFInit /\ B64Next /\ UNCHANGED kdf_vars
    \/ B64Init /\ KDFNext /\ UNCHANGED b64_vars

Spec == Init /\ [][Next]_<<b64_vars, kdf_vars>>
=============================================================================
