-------------------------------- MODULE JWS --------------------------------
(***************************************************************************)
(* JSON Web Signatures (src/src/jws.cpp): sign(), the compact, flattened   *)
(* and general serialisations, their parsers, and verify().                *)
(*                                                                         *)
(* A program holds JWK objects in Slots and at most one JWS object at a    *)
(* time.  It signs payloads, which puts a token in circulation; it loads   *)
(* documents that others hand to it, put together from anything in         *)
(* circulation and from what other producers write; and it verifies the    *)
(* object it holds with one of its keys.  Between these calls it uses the  *)
(* setters of its keys and publishes their public halves.  The library is  *)
(* sequential: while verify() runs its loop nothing else happens.          *)
(***************************************************************************)
EXTENDS JWSFormat, FiniteSets, SequencesExt

CONSTANTS
    Slots,          \* the JWK objects the program can hold
    Enrolments,     \* initial contents of the slots, as generateX leaves them
    NewKids,        \* arguments of setKeyID
    NewAlgs,        \* arguments of setAlgorithm
    NewUses,        \* arguments of setUse
    ParamSets,      \* sets of names passed as header_params
    SignatureAlgs,  \* algorithms passed to sign()
    ForeignHeaders, \* header texts of other producers
    MaxSigs,        \* bound: signatures of one document
    MaxIssued,      \* bound: tokens issued
    MaxEdits        \* bound: setter calls

VARIABLES
    ring,    \* ring[s]: the JWK object in slot s, or None
    signed,  \* the material, algorithm and payload of every token made (history)
    issued,  \* the header, payload and signature texts in circulation
    jws,     \* the JWS object the program holds, or None
    check,   \* the local state of verify() and the last verdict
    edits,   \* setter calls so far
    alive    \* FALSE after std::terminate

vars == <<ring, signed, issued, jws, check, edits, alive>>

\* The constants are what the program can pass and hold: keys as generated or
\* read, where a material is that of one key pair and so of one key type; names
\* of algorithms; and model values that are no text of a token.
ASSUME ProgramAssumption ==
    /\ Enrolments \subseteq [Slots -> JWKs \union {None}]
    /\ \A ring0 \in Enrolments, s \in Slots : ring0[s] # None => ring0[s].mat # None
    /\ \A ring0 \in Enrolments, s, t \in Slots :
           None \notin {ring0[s], ring0[t]} /\ ring0[s].mat = ring0[t].mat =>
               ring0[s].kty = ring0[t].kty
    /\ NewKids \subseteq Kids \union {None}
    /\ NewAlgs \subseteq KeyAlgs \union {None}
    /\ NewUses \subseteq Uses
    /\ ParamSets \subseteq SUBSET ParamNames
    /\ SignatureAlgs \subseteq SigAlgs
    /\ ForeignHeaders \subseteq HeaderTexts
    /\ {MaxSigs, MaxIssued, MaxEdits} \subseteq Nat

ASSUME TextAssumption ==
    /\ None \notin Slots /\ None # Garbled
    /\ None \notin PayloadTexts /\ Garbled \notin PayloadTexts
    /\ None \notin WireEntries /\ None \notin Seq(WireEntries)
    /\ Garbled \notin Signatures
    /\ NonString \notin SigAlgs \union Kids \union {None, "unknown"}
    /\ None \notin Objects /\ None \notin {"true", "false"} /\ None \notin BOOLEAN
    /\ None \notin [alg : SigAlgs, mat : Materials, input : SigningInputs]

-----------------------------------------------------------------------------
(* The loop of verify(). *)

\* The locals of verify(): its argument, the loop's position, found_applicable
\* and the way it ended.  faulty records that OpenSSL failed during the call.
Checks ==
    [pc : {"idle", "loop", "done"}, slot : Slots \union {None}, i : Nat \ {0}, found : BOOLEAN,
     faulty : BOOLEAN, verdict : {"true", "false", "threw", None}]

NoCheck ==
    [pc |-> "idle", slot |-> None, i |-> 1, found |-> FALSE, faulty |-> FALSE, verdict |-> None]

Ended(c, verdict) == [c EXCEPT !.pc = "done", !.verdict = verdict]

Advanced(c) == [c EXCEPT !.i = @ + 1]

\* Mutant: a mismatch is passed over like a signature for another key.
Mutant_Answered(c, r) ==
    CASE r = None  -> Ended(c, "threw")
      [] r = FALSE -> Advanced(c)
      [] OTHER     -> [Advanced(c) EXCEPT !.found = TRUE]

\* The loop body after the back end answered r: an error is thrown, a mismatch
\* ends the call, a match lets the loop go on.
Answered(c, r) ==
    CASE r = None  -> Ended(c, "threw")
      [] r = FALSE -> Ended(c, "false")
      [] OTHER     -> [Advanced(c) EXCEPT !.found = TRUE]

\* Mutant: no objection is taken for approval.
Mutant_Returned(c) == Ended(c, "true")

Returned(c) == Ended(c, IF c.found THEN "true" ELSE "false")

-----------------------------------------------------------------------------
(* The program's calls. *)

\* Only the loop of verify() keeps the program from making another call.
Ready == alive /\ check.pc # "loop"

\* sign(key, alg, type, header_params, payload), when it returns a token.
Sign(s, alg, params, payload) ==
    LET key  == ring[s]
        hdr  == NewHeader(alg, key.kid, params)
        text == EncodePayload(payload)
    IN  /\ Ready
        /\ jws = None
        /\ Cardinality(issued) < MaxIssued
        /\ key # None
        /\ key.use = "sig"
        /\ params \intersect Reserved = {}
        /\ \E sig \in NewSignatures(alg, key, SigningInput(hdr, text)) :
               /\ jws' = [payload |-> payload, text |-> text,
                          sigs |-> <<[algorithm |-> alg, kid |-> key.kid, hdr |-> hdr, sig |-> sig]>>]
               /\ issued' = issued \union {[hdr |-> hdr, text |-> text, sig |-> sig]}
        /\ signed' = signed \union {[mat |-> key.mat, alg |-> alg, payload |-> payload]}
        /\ check' = NoCheck
        /\ UNCHANGED <<ring, edits, alive>>

\* What can be handed to the parsers: any combination of texts in circulation,
\* of other spellings of them, and of headers other producers write.
KnownHeaders  == {t.hdr : t \in issued} \union ForeignHeaders
KnownPayloads == {t.text : t \in issued}
                     \union {[t.text EXCEPT !.spelling = "other"] : t \in issued}
                     \union {Garbled}
KnownEntries  == [hdr : KnownHeaders, sig : {t.sig : t \in issued} \union {None, Garbled}]

Documents ==
    [payload : KnownPayloads \union {None}, single : KnownEntries \union {None},
     signatures : {None}]
    \union
    [payload : KnownPayloads, single : {None}, signatures : BoundedSeq(KnownEntries, MaxSigs)]

\* fromCompact, fromJSON and tryLoad, which tries the one and then the other.
\* An exception in an overload marked noexcept ends the process.
Load(doc, noexcept) ==
    /\ Ready
    /\ jws = None
    /\ alive' = ~(noexcept /\ ParseThrows(doc))
    /\ jws' = IF Parses(doc) THEN ParsedObject(doc) ELSE None
    /\ check' = NoCheck
    /\ UNCHANGED <<ring, signed, issued, edits>>

\* The JWS object goes out of scope.
Release ==
    /\ Ready
    /\ jws # None
    /\ jws' = None
    /\ check' = NoCheck
    /\ UNCHANGED <<ring, signed, issued, edits, alive>>

\* verify(jws, key) is called with the key in slot s.
StartVerify(s) ==
    /\ Ready
    /\ jws # None
    /\ ring[s] # None
    /\ check' = [NoCheck EXCEPT !.pc = "loop", !.slot = s]
    /\ UNCHANGED <<ring, signed, issued, jws, edits, alive>>

InLoop == alive /\ check.pc = "loop"
Entry  == jws.sigs[check.i]
Key    == ring[check.slot]

\* The loop passes over a signature that is not for this key.
SkipSignature ==
    /\ InLoop
    /\ check.i <= Len(jws.sigs)
    /\ ~Applicable(Entry, Key)
    /\ check' = Advanced(check)
    /\ UNCHANGED <<ring, signed, issued, jws, edits, alive>>

\* The loop has the back end check a signature over the text as received.
CheckSignature(fault) ==
    /\ InLoop
    /\ check.i <= Len(jws.sigs)
    /\ Applicable(Entry, Key)
    /\ LET input  == SigningInput(Entry.hdr, jws.text)
           answer == VerifyOutcome(Entry.algorithm, Key, input, Entry.sig, fault)
       IN  check' = Answered([check EXCEPT !.faulty = (fault # "none")], answer)
    /\ UNCHANGED <<ring, signed, issued, jws, edits, alive>>

\* After the last signature.
Return ==
    /\ InLoop
    /\ check.i > Len(jws.sigs)
    /\ check' = Returned(check)
    /\ UNCHANGED <<ring, signed, issued, jws, edits, alive>>

VerifyStep ==
    \/ SkipSignature
    \/ \E fault \in Faults : CheckSignature(fault)
    \/ Return

\* setKeyID, setAlgorithm, setUse on the key in slot s.
Edit(s) ==
    /\ Ready
    /\ edits < MaxEdits
    /\ ring[s] # None
    /\ \/ \E kid \in NewKids : ring' = [ring EXCEPT ![s] = SetKeyID(@, kid)]
       \/ \E alg \in NewAlgs : ring' = [ring EXCEPT ![s] = SetAlgorithm(@, alg)]
       \/ \E use \in NewUses : ring' = [ring EXCEPT ![s] = SetUse(@, use)]
    /\ edits' = edits + 1
    /\ check' = NoCheck
    /\ UNCHANGED <<signed, issued, jws, alive>>

\* The public half of the key in slot s travels as JSON and is read into the
\* empty slot t.
Publish(s, t, ignorePrivate) ==
    /\ Ready
    /\ ring[s] # None
    /\ ring[t] = None
    /\ ring' = [ring EXCEPT ![t] = FromJSON(ToJSON(ring[s], FALSE), ignorePrivate)]
    /\ check' = NoCheck
    /\ UNCHANGED <<signed, issued, jws, edits, alive>>

Init ==
    /\ ring \in Enrolments
    /\ signed = {}
    /\ issued = {}
    /\ jws = None
    /\ check = NoCheck
    /\ edits = 0
    /\ alive = TRUE

Next ==
    \/ \E s \in Slots, alg \in SignatureAlgs, params \in ParamSets, p \in Payloads :
           Sign(s, alg, params, p)
    \/ \E doc \in Documents, noexcept \in BOOLEAN : Load(doc, noexcept)
    \/ Release
    \/ \E s \in Slots : StartVerify(s)
    \/ VerifyStep
    \/ \E s \in Slots : Edit(s)
    \/ \E s, t \in Slots, ignorePrivate \in BOOLEAN : Publish(s, t, ignorePrivate)

Spec == Init /\ [][Next]_vars

-----------------------------------------------------------------------------
(* Properties. *)

Facts  == [mat : Materials \union {None}, alg : SigAlgs, payload : Payloads]
Tokens == [hdr : HeaderTexts, text : PayloadTexts, sig : Signatures]

\* Every variable has its type: keys, objects and the locals of verify() stay
\* within what jwk.cpp and jws.cpp can build.
TypeOK ==
    /\ ring \in [Slots -> JWKs \union {None}]
    /\ signed \subseteq Facts
    /\ issued \subseteq Tokens
    /\ jws \in Objects \union {None}
    /\ check \in Checks
    /\ edits \in 0..MaxEdits
    /\ alive \in BOOLEAN

\* verify() answers true only for a payload that was really signed with the
\* verifying key's own material, under an algorithm other than "none": whatever
\* was done to the tokens on the way, to their key IDs, or to the keys' members.
Authentic ==
    check.verdict = "true" =>
        \E f \in signed : /\ f.mat = Key.mat
                          /\ f.alg # "none"
                          /\ f.payload = jws.payload

\* When verify() answers true, every signature of the object that names this
\* key's ID, and an algorithm other than "none" that the key's material has
\* signed with, is one that was issued over exactly these texts: a bad signature
\* for a key spoils the good ones (the comment in verify(): any compatible
\* signature that fails causes the check to fail).  Of signatures without an ID,
\* or under an algorithm the material never signed with, nothing is said.
NoForgedCosignature ==
    check.verdict = "true" =>
        \A i \in DOMAIN jws.sigs :
            LET e == jws.sigs[i] IN
            /\ e.kid # None
            /\ e.kid = Key.kid
            /\ e.algorithm # "none"
            /\ \E f \in signed : f.alg = e.algorithm /\ f.mat = Key.mat
            => [hdr |-> e.hdr, text |-> jws.text, sig |-> e.sig] \in issued

\* Signature i of the object is one that the key pair in slot s issued over
\* exactly these texts, and its key ID does not disown the key.
OwnSignature(i, s) ==
    LET e == jws.sigs[i] IN
    /\ e.sig # None
    /\ e.sig.mat = ring[s].mat
    /\ [hdr |-> e.hdr, text |-> jws.text, sig |-> e.sig] \in issued
    /\ None \in {e.kid, ring[s].kid} \/ e.kid = ring[s].kid

\* Unless OpenSSL fails, verify() never answers false for a token that its own
\* key signed: not after the token was re-serialised, not because other parties
\* signed it too under their key IDs, and not because the verifier holds a
\* published copy of the key.
OwnTokensNotRejected ==
    check.verdict = "false" /\ ~check.faulty =>
        ~ /\ \E i \in DOMAIN jws.sigs : OwnSignature(i, check.slot)
          /\ \A i \in DOMAIN jws.sigs :
                 \/ OwnSignature(i, check.slot)
                 \/ None \notin {jws.sigs[i].kid, Key.kid} /\ jws.sigs[i].kid # Key.kid

\* Whatever the program holds, every serialisation it offers is read back as
\* the same object: payload bytes, texts as received, and signatures in order.
RoundTripExact ==
    jws # None =>
        \A form \in Forms(jws) :
            LET doc == Serialise(jws, form)
            IN  Parses(doc) /\ ~ParseThrows(doc) /\ ParsedObject(doc) = jws

\* A key that reached a slot as the published half of another never brings
\* private material or a symmetric secret with it.
NoPrivateMaterialPublished ==
    [][\A s \in Slots :
           ring[s] = None /\ ring'[s] # None =>
               /\ ~hasPrivateKey(ring'[s])
               /\ ring'[s].kty = "oct" => ring'[s].mat = None]_vars

\* A token that will verify comes only from a key that holds its private
\* material, is meant for signatures at that moment, and is of the type its
\* algorithm asks for; no setter, published copy or loaded document gets round it.
OnlySigningKeysSign ==
    [][\A f \in signed' \ signed :
           \E s \in Slots :
               /\ ring[s] # None
               /\ ring[s].mat = f.mat
               /\ ring[s].use = "sig"
               /\ f.alg # "none" => /\ hasPrivateKey(ring[s])
                                    /\ IsCompatibleWithKey(f.alg, ring[s])]_vars

\* The library implements the abstract signature service: the signed pairs are
\* those of the tokens that are not "none", and accepting is answering true.
Service == INSTANCE SignatureService WITH
    signed   <- {<<f.mat, f.payload>> : f \in {g \in signed : g.alg # "none"}},
    accepted <- IF check.verdict = "true" THEN <<Key.mat, jws.payload>> ELSE None

ImplementsService == Service!Spec
=============================================================================
