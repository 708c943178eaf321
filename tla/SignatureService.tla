-------------------------- MODULE SignatureService --------------------------
(***************************************************************************)
(* What JSON Web Signatures promise a program, without tokens, headers,    *)
(* key IDs or algorithms: a holder of key material signs a payload, and a  *)
(* verifier that accepts a payload from that material accepts what was     *)
(* signed with it.  Copies of a token may be kept, split, joined and       *)
(* re-encoded by anyone, so a signed payload can be accepted any number of *)
(* times and in any order.                                                 *)
(***************************************************************************)
CONSTANTS Materials, Payloads, None

VARIABLES
    signed,   \* the pairs <<material, payload>> ever signed
    accepted  \* the pair a verifier has just accepted, or None

Init == signed = {} /\ accepted = None

Sign(m, p) ==
    /\ signed' = signed \union {<<m, p>>}
    /\ accepted' = None

Accept(m, p) ==
    /\ <<m, p>> \in signed
    /\ accepted' = <<m, p>>
    /\ UNCHANGED signed

\* The verifier rejects, fails, or lets go of what it accepted.
Drop == accepted' = None /\ UNCHANGED signed

Next ==
    \/ \E m \in Materials, p \in Payloads : Sign(m, p) \/ Accept(m, p)
    \/ Drop

Spec == Init /\ [][Next]_<<signed, accepted>>
=============================================================================
