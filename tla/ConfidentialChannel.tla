------------------------ MODULE ConfidentialChannel ------------------------
(***************************************************************************)
(* What JSON Web Encryption promises, without tokens, headers, algorithms  *)
(* or recipients' entries: anybody seals a payload for the holders of some *)
(* key materials, and only what was sealed for a holder is ever opened by  *)
(* it, any number of times and in any order.  An envelope that is not      *)
(* whole may be misread, and then yields what nobody sealed; but never     *)
(* what was sealed for others.                                             *)
(***************************************************************************)
CONSTANTS Materials, Payloads, None, Corrupt

VARIABLES
    sent,     \* the pairs <<material, payload>> ever sealed
    whole,    \* whether the envelope at hand is whole
    received  \* the pair that was just opened, Corrupt, or None

Init == sent = {} /\ whole = TRUE /\ received = None

Seal(holders, p) ==
    /\ sent' = sent \union (holders \X {p})
    /\ whole' \in BOOLEAN
    /\ received' = None

Open(m, p) ==
    /\ <<m, p>> \in sent
    /\ received' = <<m, p>>
    /\ UNCHANGED <<sent, whole>>

MisreadEnvelope ==
    /\ ~whole
    /\ received' = Corrupt
    /\ UNCHANGED <<sent, whole>>

\* A recipient fails to open, lets go of what it opened, or takes up another
\* envelope.
Drop ==
    /\ received' = None
    /\ whole' \in BOOLEAN
    /\ UNCHANGED sent

Next ==
    \/ \E holders \in SUBSET Materials, p \in Payloads : Seal(holders, p)
    \/ \E m \in Materials, p \in Payloads : Open(m, p)
    \/ MisreadEnvelope
    \/ Drop

Spec == Init /\ [][Next]_<<sent, whole, received>>
=============================================================================
