----------------------------- MODULE JWSFormat -----------------------------
(****************************************************************************)
(* What a JSON Web Signature is made of and what is done to one entry of it *)
(* (src/src/jws.cpp): texts, documents and JWS objects, the serialisations  *)
(* and their parsers, the header and the signature that sign() makes, and   *)
(* the question verify() asks of a signature and a key.                     *)
(*                                                                          *)
(* Text is kept apart from what it decodes to, because verify() works on    *)
(* the text as received.  The base64url text of a header or of a payload is *)
(* a record of its decoded content and of its spelling: "own" is what this  *)
(* library's encoder writes, "other" any other text of the same content     *)
(* (member order or white space in a header, non-canonical final bits in a  *)
(* payload).  Garbled is text that does not decode.                         *)
(****************************************************************************)
EXTENDS BackEnd, Sequences

CONSTANTS
    Payloads,    \* payload bytes
    NonString,   \* a header member that is not a JSON string
    Garbled      \* base64url text that does not decode

-----------------------------------------------------------------------------
(* Texts, documents and objects. *)

\* The names sign() refuses in header_params, and names it does not.
Reserved   == {"alg", "kid", "typ"}
ParamNames == Reserved \union {"cty", "crit", "x-app"}

HeaderTexts ==
    [shape : {"object", "malformed"},
     alg : SigAlgs \union {"unknown", NonString},
     kid : Kids \union {None, NonString},
     params : SUBSET ParamNames,
     spelling : {"own", "other"}]

PayloadTexts == [bytes : Payloads, spelling : {"own", "other"}]

SigningInputs == [hdr : HeaderTexts, text : PayloadTexts]

\* A signature is a term, or None when it is empty.
Signatures ==
    [alg : SigAlgs, mat : Materials, input : SigningInputs] \union {None}

WireEntries == [hdr : HeaderTexts, sig : Signatures \union {Garbled}]

\* JWS::Impl::SignatureEntry; its typ_ and header_params_ are never read.
SignatureEntries ==
    [algorithm : SigAlgs, kid : Kids \union {None}, hdr : HeaderTexts, sig : Signatures]

\* JWS::Impl.
Objects == [payload : Payloads, text : PayloadTexts, sigs : Seq(SignatureEntries)]

EncodePayload(bytes) == [bytes |-> bytes, spelling |-> "own"]

\* Mutant: the payload is left out of what is signed.
Mutant_SigningInput(hdr, text) == [hdr |-> hdr, text |-> EncodePayload(CHOOSE p \in Payloads : TRUE)]

SigningInput(hdr, text) == [hdr |-> hdr, text |-> text]

-----------------------------------------------------------------------------
(* Signing: the header sign() writes and the signature it makes. *)

NewHeader(alg, kid, params) ==
    [shape |-> "object", alg |-> alg, kid |-> kid, params |-> params, spelling |-> "own"]

\* The signatures sign() can put in a token: "none" never reaches the back end,
\* so it needs no private material and no key of a fitting type.
NewSignatures(alg, key, input) ==
    IF alg = "none" THEN {None} ELSE SignOutcomes(alg, key, input) \ {None}

-----------------------------------------------------------------------------
(* Serialising: toCompact and toJSON.  A document is what a parser is given: *)
(* 'single' are the parts of a compact or flattened token, 'signatures' the   *)
(* array of a general one; None stands for a member that is not there.        *)

\* toCompact() and toJSON(true) throw unless there is exactly one signature.
Forms(obj) == IF Len(obj.sigs) = 1 THEN {"single", "general"} ELSE {"general"}

WireEntry(e) == [hdr |-> e.hdr, sig |-> e.sig]

\* Mutant: the payload is encoded again instead of written as received.
Mutant_Serialise(obj, form) ==
    [payload |-> EncodePayload(obj.payload),
     single |-> IF form = "single" THEN WireEntry(obj.sigs[1]) ELSE None,
     signatures |-> IF form = "general" THEN [i \in DOMAIN obj.sigs |-> WireEntry(obj.sigs[i])]
                    ELSE None]

Serialise(obj, form) ==
    [payload |-> obj.text,
     single |-> IF form = "single" THEN WireEntry(obj.sigs[1]) ELSE None,
     signatures |-> IF form = "general" THEN [i \in DOMAIN obj.sigs |-> WireEntry(obj.sigs[i])]
                    ELSE None]

-----------------------------------------------------------------------------
(* Parsing: fromCompact_ and fromJSON_. *)

\* The entries a document offers.  A 'signatures' member wins over the members
\* of the flattened form; a document without either offers none.
EntriesOf(doc) ==
    IF doc.signatures # None THEN doc.signatures
    ELSE IF doc.single # None THEN <<doc.single>> ELSE <<>>

\* The header decodes, is an object, and names an algorithm the library knows.
HeaderKnown(hdr) == hdr.shape = "object" /\ hdr.alg \in SigAlgs

\* nlohmann's value(name, "") throws when the member is there and is no string;
\* 'kid' is read only after 'alg' was recognised.
HeaderThrows(hdr) ==
    /\ hdr.shape = "object"
    /\ \/ hdr.alg = NonString
       \/ HeaderKnown(hdr) /\ hdr.kid = NonString

\* Mutant: a signature that does not decode is kept as it is.
Mutant_EntryParses(e) == HeaderKnown(e.hdr) /\ e.hdr.kid # NonString

EntryParses(e) == HeaderKnown(e.hdr) /\ e.hdr.kid # NonString /\ e.sig # Garbled

ParseEntry(e) ==
    [algorithm |-> e.hdr.alg, kid |-> e.hdr.kid, hdr |-> e.hdr, sig |-> e.sig]

\* Entries are parsed in order and the first bad one decides: a type error in
\* its header leaves the parser as an exception, anything else as an error.
ParseThrows(doc) ==
    /\ doc.payload # None
    /\ \E i \in DOMAIN EntriesOf(doc) :
           /\ HeaderThrows(EntriesOf(doc)[i].hdr)
           /\ \A j \in 1..(i - 1) : EntryParses(EntriesOf(doc)[j])

Parses(doc) ==
    /\ doc.payload \in PayloadTexts
    /\ EntriesOf(doc) # <<>>
    /\ \A i \in DOMAIN EntriesOf(doc) : EntryParses(EntriesOf(doc)[i])

ParsedObject(doc) ==
    [payload |-> doc.payload.bytes, text |-> doc.payload,
     sigs |-> [i \in DOMAIN EntriesOf(doc) |-> ParseEntry(EntriesOf(doc)[i])]]

-----------------------------------------------------------------------------
(* Verifying: is a signature for this key? *)

\* isCompatibleWithKey: by key type alone; "none" is compatible with no key.
IsCompatibleWithKey(alg, key) ==
    \/ alg \in HMACAlgs /\ key.kty = "oct"
    \/ alg \in RSAAlgs /\ key.kty = "RSA"
    \/ alg \in ECDSAAlgs /\ key.kty = "EC"
    \/ alg = "EdDSA" /\ key.kty = "OKP"

\* Mutant: a missing key ID matches nothing.
Mutant_KidMatches(kid, key) == kid # None /\ kid = key.kid

\* kidMatches: a missing key ID on either side matches anything.
KidMatches(kid, key) == kid = None \/ key.kid = None \/ kid = key.kid

\* Mutant: every signature of the key's type is checked, whatever its key ID.
Mutant_Applicable(entry, key) == IsCompatibleWithKey(entry.algorithm, key)

Applicable(entry, key) ==
    IsCompatibleWithKey(entry.algorithm, key) /\ KidMatches(entry.kid, key)
=============================================================================
