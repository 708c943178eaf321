-------------------------------- MODULE JWE --------------------------------
(*****************************************************************************)
(* JSON Web Encryption (src/src/jwe.cpp): encrypt(), the compact, flattened  *)
(* and general serialisations, their parsers, and decrypt().                 *)
(*                                                                           *)
(* A program holds JWK objects in Slots and at most one JWE object.  It      *)
(* encrypts payloads, which puts a token in circulation; other producers do  *)
(* the same, also for several recipients at once; it loads documents put     *)
(* together from the parts in circulation, and decrypts with one of its      *)
(* keys.  decrypt() is a loop over the recipients; while it runs nothing     *)
(* else happens.                                                             *)
(*                                                                           *)
(* The text of a protected header is a record of its content and its         *)
(* spelling, since the text itself is what the content is bound to.  Garbled *)
(* is text that does not decode, Tampered octets that belong to no token,    *)
(* and Absent a member of a document that is not there.  IVs and tags of     *)
(* documents may have any length.  The names that encrypt() takes in         *)
(* header_params are left out: those decrypt() reads are refused, and no     *)
(* other is ever read.                                                       *)
(*****************************************************************************)
EXTENDS KeyEncryption, FiniteSets, Sequences, SequencesExt

CONSTANTS
    Slots,          \* the JWK objects the program holds
    KeyRings,       \* what the slots may hold
    KeyAlgorithms,  \* key encryption algorithms in use
    ContentAlgorithms, \* content encryption algorithms in use
    ForeignHeaders, \* per-recipient headers that nobody's token needs
    MadeUpHeaders,  \* protected headers that nobody encrypted under
    OddLengths,     \* which parts of a content have odd lengths, in documents
    Minimal,        \* whether other producers leave 'use' and 'alg' out of epk
    MaxRecipients,  \* bound: recipients of one document
    Absent, Garbled

VARIABLES
    ring,    \* ring[s]: the JWK object in slot s, or None
    made,    \* the number of tokens made so far
    sent,    \* the material and payload of everything encrypted (history)
    issued,  \* the tokens in circulation: header, recipients, body
    jwe,     \* the JWE object the program holds, or None
    call     \* the local state of decrypt() and how it ended

vars == <<ring, made, sent, issued, jwe, call>>

-----------------------------------------------------------------------------
(* Headers, documents and objects. *)

\* An ephemeral public key: that of token n.  complete is FALSE if it has the
\* members RFC 7518 asks for and no others.
EphemeralKeys == [n : Tokens, crv : Curves, complete : BOOLEAN]

\* A protected header that decodes; "bad" is an 'alg' or 'enc' that is missing,
\* no string, or unknown.  gcm stands for 'iv' and 'tag'.
HeaderTexts == [kea : KEAs \union {"bad"}, enc : CEAs \union {"bad"},
                epk : EphemeralKeys \union {None}, gcm : GCMParams \union {None},
                spelling : {"own", "other"}]

\* A per-recipient header; None is an 'alg' or 'enc' that is not there.
RecipientHeaders == [alg : KEAs \union {"bad", None}, enc : CEAs \union {"bad", None},
                     epk : EphemeralKeys \union {None}, gcm : GCMParams \union {None}]

\* JWE::Impl::Recipient.
Recipients == [ek : WrappedKeys \union {None, Tampered}, header : RecipientHeaders \union {None}]

\* Ciphertext, IV and tag: those of a token, and those that a document may have.
Bodies     == [content : Ciphertexts(HeaderTexts), odd : OddParts]
ReadBodies == Bodies \union [content : {Tampered}, odd : OddParts]

\* JWE::Impl; kea_ and cea_ are always those of the protected header.
Objects == [header : HeaderTexts, recipients : Seq(Recipients), body : ReadBodies]

ASSUME ProgramAssumption ==
    /\ KeyRings \subseteq [Slots -> JWKs \union {None}]
    /\ KeyAlgorithms \subseteq KEAs /\ ContentAlgorithms \subseteq CEAs
    /\ ForeignHeaders \subseteq RecipientHeaders /\ MadeUpHeaders \subseteq HeaderTexts
    /\ OddLengths \subseteq OddParts
    /\ Minimal \subseteq BOOLEAN
    /\ MaxRecipients \in Nat

\* The keys are such as the generators and FromJSON return: only a symmetric key
\* whose secret was ignored has no material, and no half that is private.  A
\* material is that of one key, and so of one type and curve.
ASSUME KeyAssumption ==
    \A keys \in KeyRings, s \in Slots :
        keys[s] # None =>
            /\ keys[s].mat = None => keys[s].kty = "oct" /\ ~hasPrivateKey(keys[s])
            /\ keys[s].mat # None /\ keys[s].kty = "oct" => hasPrivateKey(keys[s])
            /\ keys[s].kty = "EC" => keys[s].crv \in ECCurves
            /\ \A t \in Slots :
                   keys[t] # None /\ keys[t].mat = keys[s].mat /\ keys[s].mat # None =>
                       keys[t].kty = keys[s].kty /\ keys[t].crv = keys[s].crv

ASSUME TextAssumption ==
    /\ None \notin {Absent, Garbled, Tampered} /\ Absent # Garbled
    /\ Absent \notin WrappedKeys \union {Tampered}
    /\ Garbled \notin WrappedKeys \union ReadBodies \union {Tampered} \union HeaderTexts
    /\ Tampered \notin Ciphertexts(HeaderTexts)
    /\ None \notin Objects \union RecipientHeaders \union EphemeralKeys \union Slots

-----------------------------------------------------------------------------
(* Serialising: toCompact and toJSON. *)

Forms(obj) == IF Len(obj.recipients) = 1 THEN {"compact", "json"} ELSE {"json"}

Written(ek) == IF ek = None THEN Absent ELSE ek

\* A compact token is a document with an encrypted_key that may be empty, and
\* without the recipient's header.
CompactDocument(obj) ==
    [protected |-> obj.header, ek |-> obj.recipients[1].ek, header |-> None,
     recipients |-> <<>>, body |-> obj.body]

\* Mutant: the flattened form whenever there is one recipient.
Mutant_JSONDocument(obj) ==
    IF Len(obj.recipients) = 1
    THEN [CompactDocument(obj) EXCEPT !.ek = Written(@)]
    ELSE [protected |-> obj.header, ek |-> Absent, header |-> None, body |-> obj.body,
          recipients |-> [i \in DOMAIN obj.recipients |->
                              [obj.recipients[i] EXCEPT !.ek = Written(@)]]]

\* The flattened form is written only for one recipient without a header.
JSONDocument(obj) ==
    IF Len(obj.recipients) = 1 /\ obj.recipients[1].header = None
    THEN [CompactDocument(obj) EXCEPT !.ek = Written(@)]
    ELSE [protected |-> obj.header, ek |-> Absent, header |-> None, body |-> obj.body,
          recipients |-> [i \in DOMAIN obj.recipients |->
                              [obj.recipients[i] EXCEPT !.ek = Written(@)]]]

-----------------------------------------------------------------------------
(* Parsing: fromCompact_ and fromJSON_. *)

HeaderKnown(h) == h.kea # "bad" /\ h.enc # "bad"

\* validatePerRecipientAlgorithms: what it repeats it repeats faithfully.
HeaderAgrees(rh, h) == rh # None => rh.alg \in {None, h.kea} /\ rh.enc \in {None, h.enc}

\* The recipients a document offers: a top-level encrypted_key wins over the
\* array, and without either only "dir" and ECDH-ES have a recipient, whose
\* 'header' is then not read at all.
RecipientsOf(doc) ==
    CASE doc.ek # Absent -> <<[ek |-> doc.ek, header |-> doc.header]>>
      [] doc.ek = Absent /\ doc.recipients # <<>> -> doc.recipients
      [] OTHER -> IF RequiresWrappedKey(doc.protected.kea) THEN <<>>
                  ELSE <<[ek |-> None, header |-> None]>>

RecipientParses(r, h) ==
    /\ HeaderAgrees(r.header, h)
    /\ r.ek # Garbled
    /\ RequiresWrappedKey(h.kea) <=> r.ek \notin {Absent, None}

Parses(doc) ==
    /\ doc.protected # Garbled
    /\ HeaderKnown(doc.protected)
    /\ RecipientsOf(doc) # <<>>
    /\ \A i \in DOMAIN RecipientsOf(doc) : RecipientParses(RecipientsOf(doc)[i], doc.protected)
    /\ doc.body # Garbled

\* Mutant: a missing encrypted_key is kept apart from an empty one.
Mutant_ParsedObject(doc) ==
    [header |-> doc.protected, body |-> doc.body, recipients |-> RecipientsOf(doc)]

ParsedObject(doc) ==
    [header |-> doc.protected, body |-> doc.body,
     recipients |-> [i \in DOMAIN RecipientsOf(doc) |->
                        [RecipientsOf(doc)[i] EXCEPT !.ek = IF @ = Absent THEN None ELSE @]]]

-----------------------------------------------------------------------------
(* Decrypting. *)

\* Mutant: the protected header alone is consulted.
Mutant_Effective(h, rh) == [epk |-> h.epk, gcm |-> h.gcm]

\* The effective header: a member of the recipient's header replaces that of
\* the protected one.
Effective(h, rh) ==
    [epk |-> IF rh # None /\ rh.epk # None THEN rh.epk ELSE h.epk,
     gcm |-> IF rh # None /\ rh.gcm # None THEN rh.gcm ELSE h.gcm]

\* The 'epk' is read by JWK::fromJSON, which wants a 'use' or an 'alg', and must
\* lie on the curve of the key.
Agrees(key, epk) ==
    /\ epk # None
    /\ epk.complete
    /\ epk.crv = key.crv
    /\ key.crv \in ECCurves \union {"X25519", "X448"}
    /\ hasPrivateKey(key)

\* The CEKs that one recipient entry may yield to a key, and None if it may fail.
RecipientCEKs(h, r, key) ==
    LET eff == Effective(h, r.header) IN
    CASE h.kea = "dir" ->
             {IF KeyServes("dir", key) THEN SecretCEK(key.mat) ELSE None}
      [] h.kea = "ECDH-ES" ->
             {IF Agrees(key, eff.epk) THEN AgreedCEK(key.mat, eff.epk.n, h.enc) ELSE None}
      [] OTHER ->
             UnwrapOutcomes(h.kea, key, r.ek, eff.gcm)

\* What comes of one recipient entry: a plaintext, or None for an error in
\* either of the two steps.
RecipientOutcomes(obj, r, key) ==
    LET Outcomes(cek) ==
            IF cek = None THEN {None}
            ELSE DecryptOutcomes(obj.header.enc, cek, obj.header, obj.body)
    IN  UNION {Outcomes(cek) : cek \in RecipientCEKs(obj.header, r, key)}

\* The locals of decrypt(): its argument, the loop's position, and the result.
\* faulty records that OpenSSL failed during the call.
Calls == [pc : {"idle", "loop", "returned", "threw"}, slot : Slots \union {None},
          i : Nat \ {0}, faulty : BOOLEAN, result : Payloads \union {Corrupt, None}]

NoCall == [pc |-> "idle", slot |-> None, i |-> 1, faulty |-> FALSE, result |-> None]

\* Mutant: an error ends the call.
Mutant_Continued(c) == [c EXCEPT !.pc = "threw"]

\* 'continue' after an error.
Continued(c) == [c EXCEPT !.i = @ + 1]

-----------------------------------------------------------------------------
(* Tokens. *)

Header(kea, enc, epk, gcm) ==
    [kea |-> kea, enc |-> enc, epk |-> epk, gcm |-> gcm, spelling |-> "own"]

Body(cek, h, payload) == Encrypted(cek, h.enc, h, payload)

GCMOf(kea, n, mat) == IF kea \in GCMWraps THEN [n |-> n, mat |-> mat, odd |-> {}] ELSE None

\* The token that encrypt() makes for a key, with the random choices numbered n.
\* Neither the key's 'use' nor its 'alg' is asked.
OwnToken(kea, enc, key, n, payload) ==
    LET epk == IF kea = "ECDH-ES" THEN [n |-> n, crv |-> key.crv, complete |-> TRUE] ELSE None
        h   == Header(kea, enc, epk, GCMOf(kea, n, key.mat))
        cek == CASE kea = "dir" -> SecretCEK(key.mat)
                 [] kea = "ECDH-ES" -> AgreedCEK(key.mat, n, enc)
                 [] OTHER -> RandomCEK(n, enc)
        ek  == IF RequiresWrappedKey(kea) THEN Wrap(kea, key.mat, cek) ELSE None
    IN  [header |-> h, recipients |-> <<[ek |-> ek, header |-> None]>>,
         body |-> Body(cek, h, payload)]

\* A token of another producer for several keys: one CEK, wrapped for each, with
\* the parameters of AES-GCM in the recipients' headers.
ForeignWrapped(kea, enc, keys, n, payload) ==
    LET h   == Header(kea, enc, None, None)
        cek == RandomCEK(n, enc)
    IN  [header |-> h, body |-> Body(cek, h, payload),
         recipients |->
             [i \in DOMAIN keys |->
                 [ek |-> Wrap(kea, keys[i].mat, cek),
                  header |-> [alg |-> None, enc |-> None, epk |-> None,
                              gcm |-> GCMOf(kea, n, keys[i].mat)]]]]

\* A token of another producer that agrees on the CEK and has its ephemeral key
\* in the recipient's header.
ForeignAgreed(enc, key, n, minimal, payload) ==
    LET h   == Header("ECDH-ES", enc, None, None)
        epk == [n |-> n, crv |-> key.crv, complete |-> ~minimal]
    IN  [header |-> h, body |-> Body(AgreedCEK(key.mat, n, enc), h, payload),
         recipients |-> <<[ek |-> None, header |-> [alg |-> None, enc |-> None, epk |-> epk,
                                                    gcm |-> None]]>>]

-----------------------------------------------------------------------------
(* The program's calls, and the other producers. *)

Ready == call.pc # "loop"

CanMake == Ready /\ jwe = None /\ made < MaxTokens

\* encrypt(key, kea, enc, type, header_params, payload), when it returns.
Encrypt(s, kea, enc, payload) ==
    /\ CanMake
    /\ ring[s] # None
    /\ KeyServes(kea, ring[s])
    /\ LET token == OwnToken(kea, enc, ring[s], made + 1, payload) IN
           /\ issued' = issued \union {token}
           /\ jwe' = token
    /\ sent' = sent \union {[mat |-> ring[s].mat, payload |-> payload]}
    /\ made' = made + 1
    /\ call' = NoCall
    /\ UNCHANGED ring

\* Another producer's token reaches the program.
Receive(token, mats, payload) ==
    /\ CanMake
    /\ issued' = issued \union {token}
    /\ sent' = sent \union {[mat |-> m, payload |-> payload] : m \in mats}
    /\ made' = made + 1
    /\ call' = NoCall
    /\ UNCHANGED <<ring, jwe>>

ReceiveWrapped(slots, kea, enc, payload) ==
    /\ RequiresWrappedKey(kea)
    /\ \A i \in DOMAIN slots : ring[slots[i]] # None /\ KeyServes(kea, ring[slots[i]])
    /\ LET keys == [i \in DOMAIN slots |-> ring[slots[i]]] IN
           Receive(ForeignWrapped(kea, enc, keys, made + 1, payload),
                   {ring[slots[i]].mat : i \in DOMAIN slots}, payload)

ReceiveAgreed(s, enc, minimal, payload) ==
    /\ "ECDH-ES" \in KeyAlgorithms
    /\ ring[s] # None
    /\ ring[s].kty = "EC"
    /\ Receive(ForeignAgreed(enc, ring[s], made + 1, minimal, payload), {ring[s].mat}, payload)

\* What AES-GCM wrapped for a recipient can also be carried in one string.
InlineEntries(r) ==
    IF r.ek \notin {None, Tampered} /\ r.ek.scheme = "GCMKW"
    THEN {[ek |-> Inline(r.ek), header |-> None]} ELSE {}

\* The recipients a token has, in the forms in which they can be handed on.
Entries(t) == ToSet(t.recipients) \union UNION {InlineEntries(r) : r \in ToSet(t.recipients)}

\* What can be handed to the parsers: any combination of parts in circulation,
\* with lengths changed and parts made up.
KnownHeaders    == {t.header : t \in issued}
                       \union {[t.header EXCEPT !.spelling = "other"] : t \in issued}
                       \union MadeUpHeaders \union {Garbled}
KnownRecipients == UNION {Entries(t) : t \in issued}
KnownKeys       == {r.ek : r \in KnownRecipients} \union {None, Garbled, Tampered}
KnownRHeaders   == {r.header : r \in KnownRecipients} \union ForeignHeaders \union {None}
KnownBodies     == {t.body : t \in issued} \union {Garbled}
                       \union [content : {t.body.content : t \in issued} \union {Tampered},
                               odd : OddLengths]
KnownEntries    == KnownRecipients \union [ek : {Absent, Tampered}, header : KnownRHeaders]

\* Compact and flattened documents; those that leave encrypted_key out; and the
\* general ones.
Documents ==
    [protected : KnownHeaders, ek : KnownKeys, header : KnownRHeaders,
     recipients : {<<>>}, body : KnownBodies]
    \union
    [protected : KnownHeaders, ek : {Absent}, header : KnownRHeaders,
     recipients : {<<>>}, body : KnownBodies]
    \union
    [protected : KnownHeaders, ek : {Absent}, header : {None},
     recipients : BoundedSeq(KnownEntries, MaxRecipients), body : KnownBodies]

\* fromCompact and fromJSON.
Load(doc) ==
    /\ Ready
    /\ jwe = None
    /\ jwe' = IF Parses(doc) THEN ParsedObject(doc) ELSE None
    /\ call' = NoCall
    /\ UNCHANGED <<ring, made, sent, issued>>

\* The JWE object goes out of scope.
Release ==
    /\ Ready
    /\ jwe # None
    /\ jwe' = None
    /\ call' = NoCall
    /\ UNCHANGED <<ring, made, sent, issued>>

\* decrypt(jwe, key) is called with the key in slot s.
StartDecrypt(s) ==
    /\ Ready
    /\ jwe # None
    /\ ring[s] # None
    /\ call' = [NoCall EXCEPT !.pc = "loop", !.slot = s]
    /\ UNCHANGED <<ring, made, sent, issued, jwe>>

Key == ring[call.slot]

\* One iteration of the loop, in which OpenSSL may fail.
TryRecipient(fault) ==
    /\ call.pc = "loop"
    /\ call.i <= Len(jwe.recipients)
    /\ \E r \in IF fault THEN {None} ELSE RecipientOutcomes(jwe, jwe.recipients[call.i], Key) :
           call' = IF r = None
                   THEN [Continued(call) EXCEPT !.faulty = @ \/ fault]
                   ELSE [call EXCEPT !.pc = "returned", !.result = r]
    /\ UNCHANGED <<ring, made, sent, issued, jwe>>

\* No recipient key matched.
Exhausted ==
    /\ call.pc = "loop"
    /\ call.i > Len(jwe.recipients)
    /\ call' = [call EXCEPT !.pc = "threw"]
    /\ UNCHANGED <<ring, made, sent, issued, jwe>>

DecryptStep == (\E fault \in BOOLEAN : TryRecipient(fault)) \/ Exhausted

\* The slots other producers encrypt to: one, or two in either order.
Addressees == {s \in BoundedSeq(Slots, 2) : s # <<>> /\ IsInjective(s)}

Init ==
    /\ ring \in KeyRings
    /\ made = 0
    /\ sent = {}
    /\ issued = {}
    /\ jwe = None
    /\ call = NoCall

Next ==
    \/ \E s \in Slots, kea \in KeyAlgorithms, enc \in ContentAlgorithms, p \in Payloads :
           Encrypt(s, kea, enc, p)
    \/ \E slots \in Addressees, kea \in KeyAlgorithms, enc \in ContentAlgorithms, p \in Payloads :
           ReceiveWrapped(slots, kea, enc, p)
    \/ \E s \in Slots, enc \in ContentAlgorithms, minimal \in Minimal, p \in Payloads :
           ReceiveAgreed(s, enc, minimal, p)
    \/ \E doc \in Documents : Load(doc)
    \/ Release
    \/ \E s \in Slots : StartDecrypt(s)
    \/ DecryptStep

Spec == Init /\ [][Next]_vars

-----------------------------------------------------------------------------
(* Properties. *)

\* Every variable has its type: what is parsed is what decrypt() can be run on.
TypeOK ==
    /\ ring \in [Slots -> JWKs \union {None}]
    /\ made \in 0..MaxTokens
    /\ sent \subseteq [mat : Materials, payload : Payloads]
    /\ issued \subseteq [header : HeaderTexts, recipients : Seq(Recipients), body : Bodies]
    /\ jwe \in Objects \union {None}
    /\ call \in Calls

\* The lengths on which the promise of the object's content algorithm rests: the
\* tag's, and that of CBC's IV.
Whole(obj) ==
    /\ "tag" \notin obj.body.odd
    /\ obj.header.enc \in CBCAlgs => "iv" \notin obj.body.odd

\* decrypt() returns only to the private half of a key, and only what somebody
\* encrypted to its material: however headers, recipients and contents of tokens
\* were recombined, cut or made up.  The exception, which the code does not rule
\* out, is a content whose tag or, under CBC, IV is not of the algorithm's length:
\* it may be read as what nobody encrypted.
OnlyRecipientsRead ==
    call.pc = "returned" =>
        /\ hasPrivateKey(Key)
        /\ call.result # Corrupt => [mat |-> Key.mat, payload |-> call.result] \in sent
        /\ Whole(jwe) => call.result # Corrupt

\* Unless the tag is short, decrypt() returns only under the very text of the
\* protected header that the content was encrypted under: no algorithm, ephemeral
\* key or spelling of it can be exchanged, although nothing a recipient's own
\* header says is authenticated.
BoundToHeader ==
    call.pc = "returned" /\ "tag" \notin jwe.body.odd =>
        \E t \in issued : t.header = jwe.header /\ t.body.content = jwe.body.content

\* Recipient i of the object is one that a token in circulation has for the key
\* in slot s, whose content and header are the object's, with the ephemeral key
\* complete.
IntactRecipient(i, s) ==
    \E t \in issued :
        /\ t.header = jwe.header
        /\ t.body = jwe.body
        /\ jwe.recipients[i] \in Entries(t)
        /\ LET ek == jwe.recipients[i].ek
               rh == jwe.recipients[i].header IN
           IF ek # None
           THEN ek.mat = ring[s].mat /\ (ek.scheme = "inline" => jwe.header.gcm = None)
           ELSE /\ t.body.content.cek.mat = ring[s].mat
                /\ rh # None /\ rh.epk # None => rh.epk.complete

\* Unless OpenSSL fails, decrypt() does not throw when any recipient of the
\* object is the key's own: not because an entry before it is for another key,
\* was tampered with, or yields a CEK that does not fit.
GoodRecipientSuffices ==
    call.pc = "threw" /\ ~call.faulty /\ hasPrivateKey(Key) =>
        \A i \in DOMAIN jwe.recipients :
            IntactRecipient(i, call.slot) =>
                /\ jwe.header.kea = "dir"
                /\ ~Measured(SecretCEK(Key.mat), jwe.header.enc)

\* Every serialisation the program can ask for is read back as the same object,
\* but for the recipient's header that the compact form has no room for.
RoundTripExact ==
    jwe # None =>
        /\ Parses(JSONDocument(jwe)) /\ ParsedObject(JSONDocument(jwe)) = jwe
        /\ "compact" \in Forms(jwe) =>
               /\ Parses(CompactDocument(jwe))
               /\ ParsedObject(CompactDocument(jwe)) =
                      [jwe EXCEPT !.recipients = <<[jwe.recipients[1] EXCEPT !.header = None]>>]

\* The library implements the abstract channel: opening is returning a plaintext,
\* and an envelope is whole or not as the object is.
SentPairs == {<<f.mat, f.payload>> : f \in sent}

Received ==
    CASE call.pc # "returned" -> None
      [] call.pc = "returned" /\ call.result = Corrupt -> Corrupt
      [] OTHER -> <<Key.mat, call.result>>

EnvelopeWhole == jwe # None => Whole(jwe)

Channel == INSTANCE ConfidentialChannel WITH
    sent <- SentPairs, received <- Received, whole <- EnvelopeWhole

ImplementsChannel == Channel!Spec
=============================================================================
