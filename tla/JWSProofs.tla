----------------------------- MODULE JWSProofs -----------------------------
(***************************************************************************)
(* Theorems about JWS, for every set of keys, payloads and headers: type   *)
(* correctness, authenticity of what verify() accepts, who can sign, that  *)
(* JWS implements SignatureService, what a verdict says of every signature *)
(* of an object, and that serialisations are exact.                        *)
(***************************************************************************)
EXTENDS JWS, JWKProofs, SequenceTheorems, TLAPS

-----------------------------------------------------------------------------
(* Lemmas about documents and the objects they are parsed to. *)

\* Every text handed to the parsers is a text: it was issued, or another
\* producer wrote it.
LEMMA KnownTexts ==
    ASSUME issued \subseteq Tokens
    PROVE  KnownEntries \subseteq WireEntries
<1>1. \A t \in issued : t.hdr \in HeaderTexts /\ t.sig \in Signatures
  BY DEF Tokens
<1>2. KnownHeaders \subseteq HeaderTexts
  BY <1>1, ProgramAssumption DEF KnownHeaders
<1>3. {t.sig : t \in issued} \union {None, Garbled} \subseteq Signatures \union {Garbled}
  BY <1>1 DEF Signatures
<1> QED
  BY <1>2, <1>3 DEF KnownEntries, WireEntries

\* The entries of a document form a sequence of known entries.
LEMMA EntriesType ==
    ASSUME NEW doc \in Documents
    PROVE  EntriesOf(doc) \in Seq(KnownEntries)
<1>1. CASE doc.signatures = None
  <2>1. doc.single \in KnownEntries \union {None}
    BY DEF Documents
  <2> QED
    BY <1>1, <2>1 DEF EntriesOf
<1>2. CASE doc.signatures # None
  <2>1. doc.signatures \in BoundedSeq(KnownEntries, MaxSigs)
    BY <1>2 DEF Documents
  <2>2. PICK m \in 0..MaxSigs : doc.signatures \in [1..m -> KnownEntries]
    BY <2>1 DEF BoundedSeq, SeqOf
  <2>3. m \in Nat
    BY ProgramAssumption
  <2> QED
    BY <1>2, <2>2, <2>3 DEF EntriesOf
<1> QED
  BY <1>1, <1>2

\* What the parsers accept they turn into an object that keeps the texts as they
\* were received and has no signature that was not in circulation.
LEMMA ParsedType ==
    ASSUME issued \subseteq Tokens, NEW doc \in Documents, Parses(doc)
    PROVE  LET obj == ParsedObject(doc)
           IN  /\ obj \in Objects
               /\ obj.text.bytes = obj.payload
               /\ \A i \in DOMAIN obj.sigs :
                      obj.sigs[i].sig # None =>
                          \E t \in issued : t.sig = obj.sigs[i].sig
<1> DEFINE entries == EntriesOf(doc)
           parsed  == [i \in DOMAIN entries |-> ParseEntry(entries[i])]
<1>1. entries \in Seq(KnownEntries) /\ KnownEntries \subseteq WireEntries
  BY EntriesType, KnownTexts
<1>2. /\ Len(entries) \in Nat /\ DOMAIN entries = 1..Len(entries)
      /\ \A i \in DOMAIN entries : entries[i] \in KnownEntries
  BY <1>1
<1>3. ASSUME NEW i \in DOMAIN entries
      PROVE  /\ ParseEntry(entries[i]) \in SignatureEntries
             /\ entries[i].sig # None => \E t \in issued : t.sig = entries[i].sig
  <2>1. EntryParses(entries[i]) /\ entries[i] \in KnownEntries
    BY <1>2 DEF Parses
  <2>2. entries[i].hdr \in HeaderTexts /\ entries[i].sig \in Signatures \union {Garbled}
    BY <1>1, <2>1 DEF WireEntries
  <2>3. /\ entries[i].hdr.alg \in SigAlgs
        /\ entries[i].hdr.kid \in Kids \union {None}
        /\ entries[i].sig \in Signatures
    BY <2>1, <2>2 DEF EntryParses, HeaderKnown, HeaderTexts
  <2>4. entries[i].sig \in {t.sig : t \in issued} \union {None, Garbled}
    BY <2>1 DEF KnownEntries
  <2>5. entries[i].sig # Garbled
    BY <2>1 DEF EntryParses
  <2> QED
    BY <2>2, <2>3, <2>4, <2>5 DEF ParseEntry, SignatureEntries
<1>4. parsed \in Seq(SignatureEntries)
  BY <1>2, <1>3
<1>5. doc.payload \in PayloadTexts /\ doc.payload.bytes \in Payloads
  BY DEF Parses, PayloadTexts
<1>6. ParsedObject(doc) = [payload |-> doc.payload.bytes, text |-> doc.payload, sigs |-> parsed]
  BY DEF ParsedObject
<1>7. \A i \in DOMAIN parsed : parsed[i].sig = entries[i].sig
  BY DEF ParseEntry
<1>. HIDE DEF entries, parsed
<1>8. ParsedObject(doc) \in Objects
  BY <1>4, <1>5, <1>6 DEF Objects
<1>9. DOMAIN parsed = DOMAIN entries
  BY DEF parsed
<1> QED
  BY <1>3, <1>6, <1>7, <1>8, <1>9

-----------------------------------------------------------------------------
(* The inductive invariant. *)

\* Only a symmetric key whose secret was ignored holds no material.
KeysHoldMaterial ==
    \A s \in Slots :
        ring[s] # None /\ ring[s].mat = None => ring[s].kty = "oct" /\ ~hasPrivateKey(ring[s])

\* Every signature in circulation was made for a payload that was signed.
IssuedSigned ==
    \A t \in issued : t.sig # None =>
        \E f \in signed : /\ f.mat = t.sig.mat
                          /\ f.alg # "none"
                          /\ f.payload = t.sig.input.text.bytes

\* The object held has the payload its text says, and no invented signature.
HeldFromCirculation ==
    jws # None =>
        /\ jws.text.bytes = jws.payload
        /\ \A i \in DOMAIN jws.sigs : jws.sigs[i].sig # None =>
               \E t \in issued : t.sig = jws.sigs[i].sig

\* From the call of verify() until its verdict is dropped, its arguments stay.
ArgumentsHeld ==
    check.pc # "idle" => jws # None /\ check.slot \in Slots /\ ring[check.slot] # None

\* found_applicable is set only after a signature was found to be this key's
\* over the text of the payload held.
FoundIsGenuine ==
    check.found =>
        /\ check.pc # "idle"
        /\ Key.mat \in Materials
        /\ \E i \in DOMAIN jws.sigs :
               /\ jws.sigs[i].sig # None
               /\ jws.sigs[i].sig.mat = Key.mat
               /\ jws.sigs[i].sig.input.text = jws.text

TrueOnlyIfFound ==
    check.verdict = "true" => check.found /\ check.pc = "done"

IInv ==
    /\ TypeOK
    /\ KeysHoldMaterial
    /\ IssuedSigned
    /\ HeldFromCirculation
    /\ ArgumentsHeld
    /\ FoundIsGenuine
    /\ TrueOnlyIfFound

\* The initial state satisfies the invariant.
LEMMA InitInv == Init => IInv
<1> SUFFICES ASSUME Init PROVE IInv
  OBVIOUS
<1>1. TypeOK
  <2>1. ring \in [Slots -> JWKs \union {None}] /\ edits \in 0..MaxEdits
    BY ProgramAssumption DEF Init
  <2>2. check \in Checks
    BY DEF Init, NoCheck, Checks
  <2> QED
    BY <2>1, <2>2 DEF Init, TypeOK
<1>2. KeysHoldMaterial
  BY ProgramAssumption DEF Init, KeysHoldMaterial
<1>3. IssuedSigned /\ HeldFromCirculation
  BY DEF Init, IssuedSigned, HeldFromCirculation
<1>4. ArgumentsHeld /\ FoundIsGenuine /\ TrueOnlyIfFound
  BY TextAssumption DEF Init, NoCheck, ArgumentsHeld, FoundIsGenuine, TrueOnlyIfFound
<1> QED
  BY <1>1, <1>2, <1>3, <1>4 DEF IInv

\* What a call that is not verify() leaves of its locals satisfies the invariant.
LEMMA NoCheckInv ==
    ASSUME check' = NoCheck
    PROVE  check' \in Checks /\ ArgumentsHeld' /\ FoundIsGenuine' /\ TrueOnlyIfFound'
<1>1. /\ check'.pc = "idle" /\ check'.found = FALSE /\ check'.verdict = None
      /\ check' \in Checks
  BY DEF NoCheck, Checks
<1> QED
  BY <1>1, TextAssumption DEF ArgumentsHeld, FoundIsGenuine, TrueOnlyIfFound

\* sign() puts into circulation what it records as signed.
LEMMA SignInv ==
    ASSUME IInv, NEW s \in Slots, NEW alg \in SignatureAlgs, NEW params \in ParamSets,
           NEW p \in Payloads, Sign(s, alg, params, p)
    PROVE  IInv'
<1> DEFINE key   == ring[s]
           hdr   == NewHeader(alg, key.kid, params)
           text  == EncodePayload(p)
           fact  == [mat |-> key.mat, alg |-> alg, payload |-> p]
<1>1. /\ key # None /\ key \in JWKs
      /\ signed' = signed \union {fact}
      /\ check' = NoCheck /\ ring' = ring /\ edits' = edits /\ alive' = alive
  BY DEF Sign, IInv, TypeOK
<1>2. PICK sig \in NewSignatures(alg, key, SigningInput(hdr, text)) :
          /\ jws' = [payload |-> p, text |-> text,
                     sigs |-> <<[algorithm |-> alg, kid |-> key.kid, hdr |-> hdr, sig |-> sig]>>]
          /\ issued' = issued \union {[hdr |-> hdr, text |-> text, sig |-> sig]}
  BY DEF Sign
<1>3. alg \in SigAlgs /\ params \in SUBSET ParamNames
  BY ProgramAssumption
<1>4. hdr \in HeaderTexts
  BY <1>1, <1>3 DEF NewHeader, HeaderTexts, JWKs
<1>5. text \in PayloadTexts /\ text.bytes = p
  BY DEF EncodePayload, PayloadTexts
<1>6. sig # None =>
          /\ sig = [alg |-> alg, mat |-> key.mat, input |-> [hdr |-> hdr, text |-> text]]
          /\ hasPrivateKey(key) /\ alg # "none"
  BY <1>2 DEF NewSignatures, SignOutcomes, SigTerm, SigningInput, SignDispatched
<1>. HIDE DEF key, hdr, text, fact
<1>7. key.mat \in Materials \union {None}
  BY <1>1 DEF JWKs
<1>8. hasPrivateKey(key) => key.mat \in Materials
  BY <1>1, <1>7 DEF IInv, KeysHoldMaterial, key
<1>9. sig \in Signatures
  BY <1>3, <1>4, <1>5, <1>6, <1>8 DEF Signatures, SigningInputs
<1>10. TypeOK'
  <2>1. issued' \subseteq Tokens
    BY <1>2, <1>4, <1>5, <1>9 DEF IInv, TypeOK, Tokens
  <2>2. signed' \subseteq Facts
    BY <1>1, <1>3, <1>7 DEF IInv, TypeOK, Facts, fact
  <2>3. [algorithm |-> alg, kid |-> key.kid, hdr |-> hdr, sig |-> sig] \in SignatureEntries
    BY <1>1, <1>3, <1>4, <1>9 DEF SignatureEntries, JWKs
  <2>4. jws' \in Objects
    BY <1>2, <1>5, <2>3 DEF Objects
  <2>5. check' \in Checks
    BY <1>1, NoCheckInv
  <2> QED
    BY <1>1, <2>1, <2>2, <2>4, <2>5 DEF IInv, TypeOK
<1>11. KeysHoldMaterial'
  BY <1>1 DEF IInv, KeysHoldMaterial
<1>12. IssuedSigned'
  <2> SUFFICES ASSUME NEW t \in issued', t.sig # None
               PROVE  \E f \in signed' : /\ f.mat = t.sig.mat /\ f.alg # "none"
                                         /\ f.payload = t.sig.input.text.bytes
    BY DEF IssuedSigned
  <2>1. CASE t \in issued
    BY <2>1, <1>1 DEF IInv, IssuedSigned
  <2>2. CASE t = [hdr |-> hdr, text |-> text, sig |-> sig]
    <3>1. /\ fact.mat = t.sig.mat /\ fact.alg # "none"
          /\ fact.payload = t.sig.input.text.bytes
      BY <2>2, <1>5, <1>6 DEF fact
    <3> QED
      BY <3>1, <1>1
  <2> QED
    BY <1>2, <2>1, <2>2
<1>13. HeldFromCirculation'
  <2>1. \A i \in DOMAIN jws'.sigs : jws'.sigs[i].sig = sig
    BY <1>2
  <2>2. \E t \in issued' : t.sig = sig
    <3> DEFINE token == [hdr |-> hdr, text |-> text, sig |-> sig]
    <3>1. token \in issued' /\ token.sig = sig
      BY <1>2
    <3> QED
      BY <3>1
  <2> QED
    BY <1>2, <1>5, <2>1, <2>2 DEF HeldFromCirculation
<1> QED
  BY <1>1, <1>10, <1>11, <1>12, <1>13, NoCheckInv DEF IInv

\* Loading a document brings nothing into circulation.
LEMMA LoadInv ==
    ASSUME IInv, NEW doc \in Documents, NEW noexcept \in BOOLEAN, Load(doc, noexcept)
    PROVE  IInv'
<1>1. /\ check' = NoCheck
      /\ ring' = ring /\ signed' = signed /\ issued' = issued /\ edits' = edits
      /\ alive' \in BOOLEAN
      /\ jws' = IF Parses(doc) THEN ParsedObject(doc) ELSE None
  BY DEF Load
<1>2. issued \subseteq Tokens
  BY DEF IInv, TypeOK
<1>3. jws' \in Objects \union {None} /\ HeldFromCirculation'
  <2>1. CASE Parses(doc)
    <3> DEFINE obj == ParsedObject(doc)
    <3>1. /\ obj \in Objects
          /\ obj.text.bytes = obj.payload
          /\ \A i \in DOMAIN obj.sigs : obj.sigs[i].sig # None =>
                 \E t \in issued : t.sig = obj.sigs[i].sig
      BY <1>2, <2>1, ParsedType
    <3>. HIDE DEF obj
    <3>2. jws' = obj
      BY <1>1, <2>1 DEF obj
    <3> QED
      BY <1>1, <3>1, <3>2 DEF HeldFromCirculation
  <2>2. CASE ~Parses(doc)
    BY <1>1, <2>2 DEF HeldFromCirculation
  <2> QED
    BY <2>1, <2>2
<1>4. TypeOK'
  BY <1>1, <1>3, NoCheckInv DEF IInv, TypeOK
<1>5. KeysHoldMaterial' /\ IssuedSigned'
  BY <1>1 DEF IInv, KeysHoldMaterial, IssuedSigned
<1> QED
  BY <1>1, <1>3, <1>4, <1>5, NoCheckInv DEF IInv

\* A setter changes neither the type of a key nor its material nor its private half.
LEMMA EditedKey ==
    ASSUME IInv, NEW s \in Slots, Edit(s)
    PROVE  \E new \in JWKs : /\ new.mat = ring[s].mat /\ new.priv = ring[s].priv
                             /\ new.kty = ring[s].kty
                             /\ ring' = [ring EXCEPT ![s] = new]
<1> DEFINE key == ring[s]
<1>0. ring \in [Slots -> JWKs \union {None}] /\ key \in JWKs
  BY DEF Edit, IInv, TypeOK
<1>1. CASE \E kid \in NewKids : ring' = [ring EXCEPT ![s] = SetKeyID(@, kid)]
  <2>1. PICK kid \in NewKids : ring' = [ring EXCEPT ![s] = SetKeyID(@, kid)]
    BY <1>1
  <2>2. kid \in Kids \union {None}
    BY ProgramAssumption
  <2>3. /\ SetKeyID(key, kid) \in JWKs /\ SetKeyID(key, kid).mat = key.mat
        /\ SetKeyID(key, kid).priv = key.priv /\ SetKeyID(key, kid).kty = key.kty
    BY <1>0, <2>2 DEF SetKeyID, JWKs
  <2> QED
    BY <1>0, <2>1, <2>3
<1>2. CASE \E alg \in NewAlgs : ring' = [ring EXCEPT ![s] = SetAlgorithm(@, alg)]
  <2>1. PICK alg \in NewAlgs : ring' = [ring EXCEPT ![s] = SetAlgorithm(@, alg)]
    BY <1>2
  <2>2. alg \in KeyAlgs \union {None}
    BY ProgramAssumption
  <2>3. /\ SetAlgorithm(key, alg) \in JWKs /\ SetAlgorithm(key, alg).mat = key.mat
        /\ SetAlgorithm(key, alg).priv = key.priv /\ SetAlgorithm(key, alg).kty = key.kty
    BY <1>0, <2>2 DEF SetAlgorithm, JWKs
  <2> QED
    BY <1>0, <2>1, <2>3
<1>3. CASE \E use \in NewUses : ring' = [ring EXCEPT ![s] = SetUse(@, use)]
  <2>1. PICK use \in NewUses : ring' = [ring EXCEPT ![s] = SetUse(@, use)]
    BY <1>3
  <2>2. use \in Uses
    BY ProgramAssumption
  <2>3. /\ SetUse(key, use) \in JWKs /\ SetUse(key, use).mat = key.mat
        /\ SetUse(key, use).priv = key.priv /\ SetUse(key, use).kty = key.kty
    BY <1>0, <2>2 DEF SetUse, JWKs
  <2> QED
    BY <1>0, <2>1, <2>3
<1> QED
  BY <1>1, <1>2, <1>3 DEF Edit

\* A setter leaves the invariant alone.
LEMMA EditInv ==
    ASSUME IInv, NEW s \in Slots, Edit(s)
    PROVE  IInv'
<1> DEFINE key == ring[s]
<1>1. /\ check' = NoCheck /\ edits' = edits + 1 /\ edits < MaxEdits /\ key # None
      /\ signed' = signed /\ issued' = issued /\ jws' = jws /\ alive' = alive
  BY DEF Edit
<1>2. ring \in [Slots -> JWKs \union {None}] /\ key \in JWKs
  BY <1>1 DEF IInv, TypeOK
<1>3. PICK new \in JWKs : /\ new.mat = key.mat /\ new.priv = key.priv /\ new.kty = key.kty
                          /\ ring' = [ring EXCEPT ![s] = new]
  BY EditedKey
<1>4. TypeOK'
  <2>1. edits' \in 0..MaxEdits
    BY <1>1, ProgramAssumption DEF IInv, TypeOK
  <2>2. ring' \in [Slots -> JWKs \union {None}]
    BY <1>2, <1>3
  <2> QED
    BY <1>1, <2>1, <2>2, NoCheckInv DEF IInv, TypeOK
<1>5. KeysHoldMaterial'
  <2> SUFFICES ASSUME NEW u \in Slots, ring'[u] # None, ring'[u].mat = None
               PROVE  ring'[u].kty = "oct" /\ ~hasPrivateKey(ring'[u])
    BY DEF KeysHoldMaterial
  <2>1. CASE u = s
    BY <1>1, <1>2, <1>3, <2>1 DEF IInv, KeysHoldMaterial, hasPrivateKey
  <2>2. CASE u # s
    BY <1>2, <1>3, <2>2 DEF IInv, KeysHoldMaterial
  <2> QED
    BY <2>1, <2>2
<1>6. IssuedSigned' /\ HeldFromCirculation'
  BY <1>1 DEF IInv, IssuedSigned, HeldFromCirculation
<1> QED
  BY <1>1, <1>4, <1>5, <1>6, NoCheckInv DEF IInv

\* A published key holds no private material at all.
LEMMA PublishInv ==
    ASSUME IInv, NEW s \in Slots, NEW t \in Slots, NEW ignorePrivate \in BOOLEAN,
           Publish(s, t, ignorePrivate)
    PROVE  IInv'
<1> DEFINE copy == FromJSON(ToJSON(ring[s], FALSE), ignorePrivate)
<1>1. /\ check' = NoCheck /\ edits' = edits /\ ring[s] # None
      /\ signed' = signed /\ issued' = issued /\ jws' = jws /\ alive' = alive
      /\ ring' = [ring EXCEPT ![t] = copy]
  BY DEF Publish
<1>2. ring \in [Slots -> JWKs \union {None}] /\ ring[s] \in JWKs
  BY <1>1 DEF IInv, TypeOK
<1>3. copy # None => /\ copy \in JWKs /\ ~hasPrivateKey(copy)
                     /\ copy.mat = None => copy.kty = "oct"
  BY <1>2, PublishedKey, ZenonT(40)
<1>. HIDE DEF copy
<1>4. TypeOK'
  <2>1. ring' \in [Slots -> JWKs \union {None}]
    BY <1>1, <1>2, <1>3
  <2> QED
    BY <1>1, <2>1, NoCheckInv DEF IInv, TypeOK
<1>5. KeysHoldMaterial'
  BY <1>1, <1>2, <1>3 DEF IInv, KeysHoldMaterial
<1>6. IssuedSigned' /\ HeldFromCirculation'
  BY <1>1 DEF IInv, IssuedSigned, HeldFromCirculation
<1> QED
  BY <1>1, <1>4, <1>5, <1>6, NoCheckInv DEF IInv

\* The object is let go.
LEMMA ReleaseInv ==
    ASSUME IInv, Release
    PROVE  IInv'
<1>1. /\ check' = NoCheck /\ jws' = None
      /\ UNCHANGED <<ring, signed, issued, edits, alive>>
  BY DEF Release
<1>2. TypeOK'
  BY <1>1, NoCheckInv DEF IInv, TypeOK
<1>3. KeysHoldMaterial' /\ IssuedSigned' /\ HeldFromCirculation'
  BY <1>1 DEF IInv, KeysHoldMaterial, IssuedSigned, HeldFromCirculation
<1> QED
  BY <1>1, <1>2, <1>3, NoCheckInv DEF IInv

\* The parts of the invariant that speak of keys and tokens alone survive every
\* step of verify(), which changes nothing but its own locals.
LEMMA VerifyFrame ==
    ASSUME IInv, UNCHANGED <<ring, signed, issued, jws, edits, alive>>, check' \in Checks
    PROVE  /\ TypeOK' /\ KeysHoldMaterial' /\ IssuedSigned' /\ HeldFromCirculation'
BY DEF IInv, TypeOK, KeysHoldMaterial, IssuedSigned, HeldFromCirculation

\* verify() is called.
LEMMA StartVerifyInv ==
    ASSUME IInv, NEW s \in Slots, StartVerify(s)
    PROVE  IInv'
<1>1. /\ check' = [NoCheck EXCEPT !.pc = "loop", !.slot = s]
      /\ jws # None /\ ring[s] # None
      /\ UNCHANGED <<ring, signed, issued, jws, edits, alive>>
  BY DEF StartVerify
<1>2. /\ check' \in Checks /\ check'.slot = s
      /\ check'.found = FALSE /\ check'.verdict = None
  <2>1. NoCheck \in Checks /\ NoCheck.found = FALSE /\ NoCheck.verdict = None
    BY DEF NoCheck, Checks
  <2> QED
    BY <1>1, <2>1 DEF Checks
<1>3. ArgumentsHeld' /\ FoundIsGenuine' /\ TrueOnlyIfFound'
  BY <1>1, <1>2, TextAssumption DEF ArgumentsHeld, FoundIsGenuine, TrueOnlyIfFound
<1> QED
  BY <1>1, <1>2, <1>3, VerifyFrame DEF IInv

\* A signature for another key is passed over.
LEMMA SkipInv ==
    ASSUME IInv, SkipSignature
    PROVE  IInv'
<1>1. /\ check' = [check EXCEPT !.i = @ + 1] /\ check.pc = "loop" /\ check \in Checks
      /\ UNCHANGED <<ring, signed, issued, jws, edits, alive>>
  BY DEF SkipSignature, Advanced, InLoop, IInv, TypeOK
<1>2. /\ check' \in Checks
      /\ check'.pc = check.pc /\ check'.slot = check.slot
      /\ check'.found = check.found /\ check'.verdict = check.verdict
  BY <1>1 DEF Checks
<1>3. ArgumentsHeld' /\ FoundIsGenuine' /\ TrueOnlyIfFound'
  BY <1>1, <1>2 DEF IInv, ArgumentsHeld, FoundIsGenuine, TrueOnlyIfFound, Key
<1> QED
  BY <1>1, <1>2, <1>3, VerifyFrame DEF IInv

\* A signature is checked: only a match sets found_applicable.
LEMMA CheckInv ==
    ASSUME IInv, NEW fault \in Faults, CheckSignature(fault)
    PROVE  IInv'
<1> DEFINE input  == SigningInput(Entry.hdr, jws.text)
           answer == VerifyOutcome(Entry.algorithm, Key, input, Entry.sig, fault)
           c      == [check EXCEPT !.faulty = (fault # "none")]
<1>1. /\ check' = Answered(c, answer)
      /\ check.pc = "loop" /\ check.i <= Len(jws.sigs)
      /\ check \in Checks /\ jws \in Objects
      /\ UNCHANGED <<ring, signed, issued, jws, edits, alive>>
  BY DEF CheckSignature, InLoop, IInv, TypeOK, ArgumentsHeld
<1>2. /\ c \in Checks /\ c.pc = "loop" /\ c.slot = check.slot
      /\ c.found = check.found /\ c.verdict = check.verdict
  BY <1>1 DEF Checks
<1>3. /\ answer \in {TRUE, FALSE, None}
      /\ answer = TRUE => /\ Entry.sig = SigTerm(Entry.algorithm, Key.mat, input)
                          /\ Checkable(Entry.algorithm, Key)
  BY Zenon, TextAssumption DEF VerifyOutcome, Faults
<1>4. CASE answer = TRUE
  <2>1. jws.sigs \in Seq(SignatureEntries) /\ check.i \in Nat \ {0}
    BY <1>1 DEF Objects, Checks
  <2>2. check.i \in DOMAIN jws.sigs /\ Entry \in SignatureEntries
    BY <1>1, <2>1 DEF Entry
  <2>3. Key \in JWKs /\ Key.mat \in Materials
    <3>1. check.slot \in Slots /\ Key # None /\ Key \in JWKs
      BY <1>1 DEF IInv, TypeOK, ArgumentsHeld, Key
    <3>2. ~(Key.kty = "oct" /\ ~hasPrivateKey(Key))
      BY <1>3, <1>4 DEF Checkable, VerifyDispatched, KeyFits, HMACAlgs, RSAAlgs, ECDSAAlgs
    <3> QED
      BY <3>1, <3>2 DEF IInv, KeysHoldMaterial, Key, JWKs
  <2>4. /\ Entry.sig # None
        /\ Entry.sig.mat = Key.mat
        /\ Entry.sig.input.text = jws.text
    <3>1. Entry.sig = [alg |-> Entry.algorithm, mat |-> Key.mat,
                       input |-> [hdr |-> Entry.hdr, text |-> jws.text]]
      BY <1>3, <1>4 DEF SigTerm, SigningInput
    <3>2. [hdr |-> Entry.hdr, text |-> jws.text] \in SigningInputs
      BY <1>1, <2>2 DEF SigningInputs, SignatureEntries, Objects
    <3>3. Entry.sig \in [alg : SigAlgs, mat : Materials, input : SigningInputs]
      BY <2>2, <2>3, <3>1, <3>2 DEF SignatureEntries
    <3> QED
      BY <3>1, <3>3, TextAssumption
  <2>. HIDE DEF answer, c
  <2>5. check' = [Advanced(c) EXCEPT !.found = TRUE]
    <3>1. TRUE # None
      BY TextAssumption
    <3> QED
      BY Zenon, <1>1, <1>4, <3>1 DEF Answered
  <2>6. /\ check' \in Checks /\ check'.found = TRUE /\ check'.pc = "loop"
        /\ check'.slot = check.slot /\ check'.verdict = check.verdict
    <3> DEFINE d == [c EXCEPT !.i = @ + 1]
    <3>1. /\ d \in Checks /\ d.pc = "loop" /\ d.slot = check.slot
          /\ d.verdict = check.verdict
      BY <1>2 DEF Checks
    <3>2. check' = [d EXCEPT !.found = TRUE]
      BY <2>5 DEF Advanced
    <3>. HIDE DEF d
    <3> QED
      BY <3>1, <3>2 DEF Checks
  <2>7. check.verdict # "true"
    BY <1>1 DEF IInv, TrueOnlyIfFound
  <2>8. ArgumentsHeld' /\ FoundIsGenuine' /\ TrueOnlyIfFound'
    BY <1>1, <2>2, <2>3, <2>4, <2>6, <2>7
       DEF IInv, ArgumentsHeld, FoundIsGenuine, TrueOnlyIfFound, Key, Entry
  <2> QED
    BY <1>1, <2>6, <2>8, VerifyFrame DEF IInv
<1>5. CASE answer # TRUE
  <2>. HIDE DEF answer, c
  <2>1. check' = Ended(c, "threw") \/ check' = Ended(c, "false")
    <3>1. None # FALSE
      BY TextAssumption
    <3>2. CASE answer = None
      BY Zenon, <1>1, <3>1, <3>2 DEF Answered
    <3>3. CASE answer = FALSE
      BY Zenon, <1>1, <3>1, <3>3 DEF Answered
    <3> QED
      BY Zenon, <1>3, <1>5, <3>2, <3>3
  <2>2. /\ check' \in Checks /\ check'.pc = "done" /\ check'.slot = check.slot
        /\ check'.found = check.found /\ check'.verdict # "true"
    BY <1>2, <2>1 DEF Ended, Checks
  <2>3. ArgumentsHeld' /\ FoundIsGenuine' /\ TrueOnlyIfFound'
    BY <1>1, <2>2 DEF IInv, ArgumentsHeld, FoundIsGenuine, TrueOnlyIfFound, Key
  <2> QED
    BY <1>1, <2>2, <2>3, VerifyFrame DEF IInv
<1> QED
  BY <1>4, <1>5

\* The verdict is true only when a signature was found.
LEMMA ReturnInv ==
    ASSUME IInv, Return
    PROVE  IInv'
<1>1. /\ check' = Ended(check, IF check.found THEN "true" ELSE "false")
      /\ check.pc = "loop" /\ check \in Checks
      /\ UNCHANGED <<ring, signed, issued, jws, edits, alive>>
  BY DEF Return, Returned, InLoop, IInv, TypeOK
<1>2. /\ check' \in Checks /\ check'.pc = "done" /\ check'.slot = check.slot
      /\ check'.found = check.found
      /\ check'.verdict = IF check.found THEN "true" ELSE "false"
  BY <1>1 DEF Ended, Checks
<1>3. ArgumentsHeld' /\ FoundIsGenuine' /\ TrueOnlyIfFound'
  BY <1>1, <1>2 DEF IInv, ArgumentsHeld, FoundIsGenuine, TrueOnlyIfFound, Key
<1> QED
  BY <1>1, <1>2, <1>3, VerifyFrame DEF IInv

\* Every step keeps the invariant.
LEMMA NextInv == IInv /\ [Next]_vars => IInv'
<1> SUFFICES ASSUME IInv, [Next]_vars PROVE IInv'
  OBVIOUS
<1>1. ASSUME NEW s \in Slots, NEW alg \in SignatureAlgs, NEW params \in ParamSets,
             NEW p \in Payloads, Sign(s, alg, params, p)
      PROVE  IInv'
  BY <1>1, SignInv
<1>2. ASSUME NEW doc \in Documents, NEW noexcept \in BOOLEAN, Load(doc, noexcept)
      PROVE  IInv'
  BY <1>2, LoadInv
<1>3. CASE Release
  BY <1>3, ReleaseInv
<1>4. ASSUME NEW s \in Slots, StartVerify(s) PROVE IInv'
  BY <1>4, StartVerifyInv
<1>5. CASE SkipSignature
  BY <1>5, SkipInv
<1>6. ASSUME NEW fault \in Faults, CheckSignature(fault) PROVE IInv'
  BY <1>6, CheckInv
<1>7. CASE Return
  BY <1>7, ReturnInv
<1>8. ASSUME NEW s \in Slots, Edit(s) PROVE IInv'
  BY <1>8, EditInv
<1>9. ASSUME NEW s \in Slots, NEW t \in Slots, NEW ignorePrivate \in BOOLEAN,
             Publish(s, t, ignorePrivate)
      PROVE  IInv'
  BY <1>9, PublishInv
<1>10. CASE UNCHANGED vars
  BY <1>10 DEF vars, IInv, TypeOK, KeysHoldMaterial, IssuedSigned, HeldFromCirculation,
               ArgumentsHeld, FoundIsGenuine, TrueOnlyIfFound, Key
<1> QED
  BY <1>1, <1>2, <1>3, <1>4, <1>5, <1>6, <1>7, <1>8, <1>9, <1>10 DEF Next, VerifyStep

\* The invariant holds of every reachable state.
THEOREM Invariance == Spec => []IInv
BY InitInv, NextInv, PTL DEF Spec

\* Every variable keeps its type, whatever keys, payloads and headers there are.
THEOREM TypeCorrect == Spec => []TypeOK
<1>1. IInv => TypeOK
  BY DEF IInv
<1> QED
  BY <1>1, Invariance, PTL

\* What a genuine signature in the object held says of the payload.
LEMMA GenuineSigned ==
    ASSUME IInv, check.found
    PROVE  \E f \in signed : f.mat = Key.mat /\ f.alg # "none" /\ f.payload = jws.payload
<1>1. PICK i \in DOMAIN jws.sigs : /\ jws.sigs[i].sig # None
                                   /\ jws.sigs[i].sig.mat = Key.mat
                                   /\ jws.sigs[i].sig.input.text = jws.text
  BY DEF IInv, FoundIsGenuine
<1>2. jws # None
  BY DEF IInv, FoundIsGenuine, ArgumentsHeld
<1>3. PICK t \in issued : t.sig = jws.sigs[i].sig
  BY <1>1, <1>2 DEF IInv, HeldFromCirculation
<1>4. PICK f \in signed : /\ f.mat = t.sig.mat
                          /\ f.alg # "none"
                          /\ f.payload = t.sig.input.text.bytes
  BY <1>1, <1>3 DEF IInv, IssuedSigned
<1>5. jws.text.bytes = jws.payload
  BY <1>2 DEF IInv, HeldFromCirculation
<1> QED
  BY <1>1, <1>3, <1>4, <1>5

\* verify() answers true only for payloads that were signed with the verifying
\* key's material, whatever happened to tokens and keys in between.
THEOREM Authenticity == Spec => []Authentic
<1>1. IInv => Authentic
  BY GenuineSigned DEF IInv, TrueOnlyIfFound, Authentic
<1> QED
  BY <1>1, Invariance, PTL

\* Only a key with private material, for signatures and of the right type, ever
\* makes a token that can be verified.
THEOREM SigningDiscipline == Spec => OnlySigningKeysSign
<1> DEFINE A == \A f \in signed' \ signed :
                    \E s \in Slots :
                        /\ ring[s] # None
                        /\ ring[s].mat = f.mat
                        /\ ring[s].use = "sig"
                        /\ f.alg # "none" => /\ hasPrivateKey(ring[s])
                                             /\ IsCompatibleWithKey(f.alg, ring[s])
<1>1. [Next]_vars => [A]_vars
  <2> SUFFICES ASSUME Next PROVE A
    OBVIOUS
  <2>1. ASSUME NEW s \in Slots, NEW alg \in SignatureAlgs, NEW params \in ParamSets,
               NEW p \in Payloads, Sign(s, alg, params, p)
        PROVE  A
    <3> DEFINE fact == [mat |-> ring[s].mat, alg |-> alg, payload |-> p]
    <3>1. /\ ring[s] # None /\ ring[s].use = "sig"
          /\ signed' = signed \union {fact}
      BY <2>1 DEF Sign
    <3>2. PICK input : NewSignatures(alg, ring[s], input) # {}
      BY <2>1 DEF Sign
    <3>3. alg # "none" => hasPrivateKey(ring[s]) /\ IsCompatibleWithKey(alg, ring[s])
      BY <3>2 DEF NewSignatures, SignOutcomes, SignDispatched, KeyFits, IsCompatibleWithKey
    <3>4. fact.mat = ring[s].mat /\ fact.alg = alg
      OBVIOUS
    <3>. HIDE DEF fact
    <3>5. \A f \in signed' \ signed : f = fact
      BY <3>1
    <3> QED
      BY <3>1, <3>3, <3>4, <3>5
  <2>2. CASE signed' = signed
    BY <2>2
  <2> QED
    BY <2>1, <2>2 DEF Next, VerifyStep, Load, Release, StartVerify, SkipSignature,
                      CheckSignature, Return, Edit, Publish
<1> QED
  BY <1>1, PTL DEF Spec, OnlySigningKeysSign

\* Private material and symmetric secrets never travel with a published key.
THEOREM PublicationIsSafe == Spec => NoPrivateMaterialPublished
<1> DEFINE A == \A s \in Slots :
                    ring[s] = None /\ ring'[s] # None =>
                        /\ ~hasPrivateKey(ring'[s])
                        /\ ring'[s].kty = "oct" => ring'[s].mat = None
<1>1. IInv /\ [Next]_vars => [A]_vars
  <2> SUFFICES ASSUME IInv, Next, NEW s \in Slots, ring[s] = None, ring'[s] # None
               PROVE  /\ ~hasPrivateKey(ring'[s])
                      /\ ring'[s].kty = "oct" => ring'[s].mat = None
    OBVIOUS
  <2>1. ring \in [Slots -> JWKs \union {None}]
    BY DEF IInv, TypeOK
  <2>2. ASSUME NEW u \in Slots, Edit(u) PROVE ring'[s] = ring[s]
    BY <2>1, <2>2 DEF Edit
  <2>3. ASSUME NEW u \in Slots, NEW t \in Slots, NEW ignorePrivate \in BOOLEAN,
               Publish(u, t, ignorePrivate)
        PROVE  /\ ~hasPrivateKey(ring'[s])
               /\ ring'[s].kty = "oct" => ring'[s].mat = None
    <3> DEFINE copy == FromJSON(ToJSON(ring[u], FALSE), ignorePrivate)
    <3>1. ring[u] \in JWKs /\ ring' = [ring EXCEPT ![t] = copy]
      BY <2>1, <2>3 DEF Publish
    <3>2. copy # None => ~hasPrivateKey(copy) /\ (copy.kty = "oct" => copy.mat = None)
      BY <3>1, PublishedKey
    <3>. HIDE DEF copy
    <3>3. s = t /\ ring'[s] = copy
      BY <2>1, <3>1
    <3> QED
      BY <3>2, <3>3
  <2>4. CASE ring' = ring
    BY <2>4
  <2> QED
    BY <2>2, <2>3, <2>4, ZenonT(40) DEF Next, VerifyStep, Sign, Load, Release, StartVerify,
                            SkipSignature, CheckSignature, Return
<1> QED
  BY <1>1, Invariance, PTL DEF Spec, NoPrivateMaterialPublished

-----------------------------------------------------------------------------
(* JWS implements SignatureService. *)

SignedPairs == {<<f.mat, f.payload>> : f \in {g \in signed : g.alg # "none"}}
AcceptedPair == IF check.verdict = "true" THEN <<Key.mat, jws.payload>> ELSE None

\* A call that drops the verdict and signs nothing is a Drop of the service.
LEMMA DropStep ==
    ASSUME UNCHANGED signed, check'.verdict # "true"
    PROVE  Service!Drop
BY DEF Service!Drop

\* Checking one signature never makes the verdict true: only Return does.
LEMMA AnsweredVerdict ==
    ASSUME NEW c \in Checks, c.verdict # "true", NEW r
    PROVE  Answered(c, r).verdict # "true"
<1>1. Ended(c, "threw").verdict = "threw" /\ Ended(c, "false").verdict = "false"
  BY DEF Ended, Checks
<1>2. [Advanced(c) EXCEPT !.found = TRUE].verdict = c.verdict
  BY DEF Advanced, Checks
<1>3. None # FALSE
  BY TextAssumption
<1>4. \/ Answered(c, r) = Ended(c, "threw")
      \/ Answered(c, r) = Ended(c, "false")
      \/ Answered(c, r) = [Advanced(c) EXCEPT !.found = TRUE]
  BY Zenon, <1>3 DEF Answered
<1> QED
  BY <1>1, <1>2, <1>4

\* A new token is a Sign of the service, or a Drop when its algorithm is "none".
LEMMA SignStep ==
    ASSUME IInv, NEW s \in Slots, NEW alg \in SignatureAlgs, NEW params \in ParamSets,
           NEW p \in Payloads, Sign(s, alg, params, p)
    PROVE  Service!Next
<1> DEFINE fact == [mat |-> ring[s].mat, alg |-> alg, payload |-> p]
<1>1. /\ ring[s] # None /\ check' = NoCheck
      /\ signed' = signed \union {fact}
  BY DEF Sign
<1>2. check'.verdict # "true"
  BY <1>1, TextAssumption DEF NoCheck
<1>3. CASE alg = "none"
  <2>1. SignedPairs' = SignedPairs
    BY <1>1, <1>3 DEF SignedPairs
  <2> QED
    BY <1>2, <2>1 DEF Service!Next, Service!Drop, SignedPairs
<1>4. CASE alg # "none"
  <2>1. SignedPairs' = SignedPairs \union {<<ring[s].mat, p>>}
    <3>1. fact.alg # "none" /\ <<fact.mat, fact.payload>> = <<ring[s].mat, p>>
      BY <1>4
    <3>. HIDE DEF fact
    <3> QED
      BY <1>1, <3>1 DEF SignedPairs
  <2>2. PICK input : NewSignatures(alg, ring[s], input) # {}
    BY DEF Sign
  <2>3. hasPrivateKey(ring[s])
    BY <1>4, <2>2 DEF NewSignatures, SignOutcomes, SignDispatched
  <2>4. ring[s].mat \in Materials
    BY <1>1, <2>3 DEF IInv, TypeOK, KeysHoldMaterial, JWKs
  <2>5. Service!Sign(ring[s].mat, p)
    BY <1>2, <2>1 DEF Service!Sign, SignedPairs
  <2> QED
    BY <2>4, <2>5 DEF Service!Next
<1> QED
  BY <1>3, <1>4

\* The return of verify() is an Accept of the service, or a Drop.
LEMMA ReturnStep ==
    ASSUME IInv, Return
    PROVE  Service!Next
<1>1. /\ check' = Ended(check, IF check.found THEN "true" ELSE "false")
      /\ check.pc = "loop" /\ check \in Checks
      /\ UNCHANGED <<ring, signed, jws>>
  BY DEF Return, Returned, InLoop, IInv, TypeOK
<1>2. /\ check'.slot = check.slot
      /\ check'.verdict = IF check.found THEN "true" ELSE "false"
  BY <1>1 DEF Ended, Checks
<1>3. CASE ~check.found
  <2>1. Service!Drop
    BY <1>1, <1>2, <1>3, DropStep
  <2> QED
    BY <2>1 DEF Service!Next
<1>4. CASE check.found
  <2>1. PICK f \in signed : f.mat = Key.mat /\ f.alg # "none" /\ f.payload = jws.payload
    BY <1>4, GenuineSigned
  <2>2. f.payload \in Payloads
    BY DEF IInv, TypeOK, Facts
  <2>3. Key.mat \in Materials
    BY <1>4 DEF IInv, FoundIsGenuine
  <2>4. <<Key.mat, jws.payload>> \in SignedPairs
    BY <2>1 DEF SignedPairs
  <2>5. AcceptedPair' = <<Key.mat, jws.payload>>
    BY <1>1, <1>2, <1>4 DEF AcceptedPair, Key
  <2>6. Service!Accept(Key.mat, jws.payload)
    BY <1>1, <2>4, <2>5 DEF Service!Accept, SignedPairs, AcceptedPair
  <2> QED
    BY <2>1, <2>2, <2>3, <2>6 DEF Service!Next
<1> QED
  BY <1>3, <1>4

\* The library keeps the promise of the abstract signature service: every step
\* of it is a step of the service or leaves signed pairs and acceptance alone.
THEOREM Implementation == Spec => ImplementsService
<1>1. Init => Service!Init
  <2>1. ASSUME Init PROVE check.verdict # "true" /\ signed = {}
    BY <2>1, TextAssumption DEF Init, NoCheck
  <2> QED
    BY <2>1 DEF Service!Init
<1>2. IInv /\ [Next]_vars => [Service!Next]_<<SignedPairs, AcceptedPair>>
  <2> SUFFICES ASSUME IInv, [Next]_vars
               PROVE  Service!Next \/ UNCHANGED <<SignedPairs, AcceptedPair>>
    OBVIOUS
  <2>1. NoCheck.verdict # "true"
    BY TextAssumption DEF NoCheck
  <2>2. ASSUME NEW s \in Slots, NEW alg \in SignatureAlgs, NEW params \in ParamSets,
               NEW p \in Payloads, Sign(s, alg, params, p)
        PROVE  Service!Next
    BY <2>2, SignStep
  <2>3. ASSUME UNCHANGED signed, check' = NoCheck PROVE Service!Next
    BY <2>1, <2>3, DropStep DEF Service!Next
  <2>4. ASSUME NEW s \in Slots, StartVerify(s) PROVE Service!Next
    <3>1. check'.verdict = NoCheck.verdict /\ UNCHANGED signed
      BY <2>4 DEF StartVerify, NoCheck
    <3> QED
      BY <2>1, <3>1, DropStep DEF Service!Next
  <2>5. CASE SkipSignature
    <3>1. check'.verdict = check.verdict /\ check.verdict # "true" /\ UNCHANGED signed
      BY <2>5 DEF SkipSignature, Advanced, InLoop, IInv, TypeOK, Checks, TrueOnlyIfFound
    <3> QED
      BY <3>1, DropStep DEF Service!Next
  <2>6. ASSUME NEW fault \in Faults, CheckSignature(fault) PROVE Service!Next
    <3> DEFINE c == [check EXCEPT !.faulty = (fault # "none")]
               r == VerifyOutcome(Entry.algorithm, Key, SigningInput(Entry.hdr, jws.text),
                                  Entry.sig, fault)
    <3>1. check' = Answered(c, r) /\ UNCHANGED signed
      BY <2>6 DEF CheckSignature
    <3>2. c \in Checks /\ c.verdict # "true"
      BY <2>6 DEF CheckSignature, InLoop, IInv, TypeOK, Checks, TrueOnlyIfFound
    <3>. HIDE DEF c, r
    <3>3. check'.verdict # "true"
      BY <3>1, <3>2, AnsweredVerdict
    <3> QED
      BY <3>1, <3>3, DropStep DEF Service!Next
  <2>7. CASE Return
    BY <2>7, ReturnStep
  <2>8. CASE UNCHANGED vars
    BY <2>8 DEF vars, SignedPairs, AcceptedPair, Key
  <2>9. ASSUME NEW doc \in Documents, NEW noexcept \in BOOLEAN, Load(doc, noexcept)
        PROVE  Service!Next
    BY <2>3, <2>9 DEF Load
  <2>10. CASE Release
    BY <2>3, <2>10 DEF Release
  <2>11. ASSUME NEW s \in Slots, Edit(s) PROVE Service!Next
    BY <2>3, <2>11 DEF Edit
  <2>12. ASSUME NEW s \in Slots, NEW t \in Slots, NEW ignorePrivate \in BOOLEAN,
                Publish(s, t, ignorePrivate)
         PROVE  Service!Next
    BY <2>3, <2>12 DEF Publish
  <2> QED
    BY <2>2, <2>4, <2>5, <2>6, <2>7, <2>8, <2>9, <2>10, <2>11, <2>12 DEF Next, VerifyStep
<1> QED
  BY <1>1, <1>2, Invariance, PTL
     DEF Spec, ImplementsService, Service!Spec, SignedPairs, AcceptedPair

-----------------------------------------------------------------------------
(* What lies behind a verdict: a second inductive invariant, on top of IInv. *)

\* The keys that share a material are of one type.
OneTypeOfMaterial ==
    \A s, t \in Slots :
        /\ None \notin {ring[s], ring[t]}
        /\ ring[s].mat = ring[t].mat
        /\ ring[s].mat # None
        => ring[s].kty = ring[t].kty

\* What was signed was signed under an algorithm that fits every copy of the key.
SignedFits ==
    \A f \in signed : f.alg # "none" =>
        /\ f.mat # None
        /\ \A s \in Slots :
               ring[s] # None /\ ring[s].mat = f.mat => IsCompatibleWithKey(f.alg, ring[s])

\* A token is issued with the signature over its own texts, under the algorithm
\* that its header names.
IssuedExactly ==
    \A t \in issued : t.sig # None =>
        /\ t.sig = SigTerm(t.hdr.alg, t.sig.mat, SigningInput(t.hdr, t.text))
        /\ \E f \in signed : f.mat = t.sig.mat /\ f.alg = t.sig.alg /\ f.alg # "none"

\* The object held has a signature, and every entry is what its header says.
EntriesAsWritten ==
    jws # None =>
        /\ Len(jws.sigs) > 0
        /\ \A i \in DOMAIN jws.sigs :
               /\ jws.sigs[i].hdr.shape = "object"
               /\ jws.sigs[i].hdr.alg = jws.sigs[i].algorithm
               /\ jws.sigs[i].hdr.kid = jws.sigs[i].kid

\* The signature of an entry is the one that the key makes over its texts.
Genuine(e, key) == e.sig = SigTerm(e.algorithm, key.mat, SigningInput(e.hdr, jws.text))

\* What the loop has left behind was not for this key, or was right.
PassedVerified ==
    check.pc # "idle" =>
        \A j \in DOMAIN jws.sigs :
            j < check.i /\ Applicable(jws.sigs[j], Key) =>
                check.found /\ Genuine(jws.sigs[j], Key)

\* A verdict is reached at the end of the loop; "false" has its reason: an entry
\* for this key that is wrong, or no entry for this key.
VerdictExplained ==
    /\ check.verdict \in {"true", "false"} => check.pc = "done"
    /\ check.verdict = "true" => check.i > Len(jws.sigs)
    /\ check.verdict = "false" /\ ~check.faulty =>
           \/ \E i \in DOMAIN jws.sigs :
                  Applicable(jws.sigs[i], Key) /\ ~Genuine(jws.sigs[i], Key)
           \/ ~check.found /\ check.i > Len(jws.sigs)

VInv ==
    /\ OneTypeOfMaterial
    /\ SignedFits
    /\ IssuedExactly
    /\ EntriesAsWritten
    /\ PassedVerified
    /\ VerdictExplained

\* A key in the ring after a step has the type and the material of one that was
\* there before, or holds no material.
LEMMA KeysDescend ==
    ASSUME IInv, [Next]_vars, NEW u \in Slots, ring'[u] # None, ring'[u].mat # None
    PROVE  \E s \in Slots : /\ ring[s] # None
                            /\ ring[s].mat = ring'[u].mat /\ ring[s].kty = ring'[u].kty
<1>1. ring \in [Slots -> JWKs \union {None}]
  BY DEF IInv, TypeOK
<1>2. ASSUME NEW s \in Slots, Edit(s)
      PROVE  /\ ring'[u] = ring[u] \/ u = s
             /\ ring[s] # None /\ ring'[s].mat = ring[s].mat /\ ring'[s].kty = ring[s].kty
  <2>1. PICK new \in JWKs : /\ new.mat = ring[s].mat /\ new.kty = ring[s].kty
                            /\ ring' = [ring EXCEPT ![s] = new]
    BY <1>2, EditedKey
  <2> QED
    BY <1>1, <1>2, <2>1 DEF Edit
<1>3. ASSUME NEW s \in Slots, NEW t \in Slots, NEW ignorePrivate \in BOOLEAN,
             Publish(s, t, ignorePrivate)
      PROVE  \/ ring'[u] = ring[u]
             \/ ring[s] # None /\ ring'[u].mat = ring[s].mat /\ ring'[u].kty = ring[s].kty
  <2> DEFINE copy == FromJSON(ToJSON(ring[s], FALSE), ignorePrivate)
  <2>1. ring[s] \in JWKs /\ ring[s] # None /\ ring' = [ring EXCEPT ![t] = copy]
    BY <1>1, <1>3 DEF Publish
  <2>2. copy # None => /\ copy.kty = ring[s].kty
                       /\ copy.mat = (IF ring[s].kty = "oct" THEN None ELSE ring[s].mat)
    BY <2>1, PublishedKey
  <2>. HIDE DEF copy
  <2> QED
    BY <1>1, <2>1, <2>2
<1>4. CASE ring' = ring
  BY <1>4
<1> QED
  BY <1>2, <1>3, <1>4, ZenonT(40) DEF Next, vars, VerifyStep, Sign, Load, Release, StartVerify,
                          SkipSignature, CheckSignature, Return

\* What sign() signs under an algorithm other than "none" fits the key's type.
LEMMA SigningKey ==
    ASSUME IInv, NEW s \in Slots, NEW alg \in SignatureAlgs, NEW params \in ParamSets,
           NEW p \in Payloads, Sign(s, alg, params, p), alg # "none"
    PROVE  ring[s] # None /\ ring[s].mat # None /\ IsCompatibleWithKey(alg, ring[s])
<1>1. PICK input : NewSignatures(alg, ring[s], input) # {}
  BY DEF Sign
<1>2. hasPrivateKey(ring[s]) /\ IsCompatibleWithKey(alg, ring[s])
  BY <1>1 DEF NewSignatures, SignOutcomes, SignDispatched, KeyFits, IsCompatibleWithKey
<1> QED
  BY <1>2 DEF Sign, IInv, KeysHoldMaterial

\* The keys and the tokens in circulation stay as the invariant says.
LEMMA CirculationKept ==
    ASSUME IInv, OneTypeOfMaterial, SignedFits, IssuedExactly, [Next]_vars
    PROVE  OneTypeOfMaterial' /\ SignedFits' /\ IssuedExactly'
<1>1. OneTypeOfMaterial'
  <2> SUFFICES ASSUME NEW s \in Slots, NEW t \in Slots, None \notin {ring'[s], ring'[t]},
                      ring'[s].mat = ring'[t].mat, ring'[s].mat # None
               PROVE  ring'[s].kty = ring'[t].kty
    BY DEF OneTypeOfMaterial
  <2>1. PICK s0 \in Slots : /\ ring[s0] # None
                            /\ ring[s0].mat = ring'[s].mat /\ ring[s0].kty = ring'[s].kty
    BY KeysDescend
  <2>2. PICK t0 \in Slots : /\ ring[t0] # None
                            /\ ring[t0].mat = ring'[t].mat /\ ring[t0].kty = ring'[t].kty
    BY KeysDescend
  <2> QED
    BY <2>1, <2>2 DEF OneTypeOfMaterial
<1>2. ASSUME UNCHANGED <<signed, issued>> PROVE SignedFits' /\ IssuedExactly'
  <2>1. SignedFits'
    <3> SUFFICES ASSUME NEW f \in signed, f.alg # "none", NEW u \in Slots,
                        ring'[u] # None, ring'[u].mat = f.mat
                 PROVE  IsCompatibleWithKey(f.alg, ring'[u])
      BY <1>2 DEF SignedFits
    <3>1. f.mat # None
      BY DEF SignedFits
    <3>2. PICK s \in Slots : /\ ring[s] # None
                             /\ ring[s].mat = ring'[u].mat /\ ring[s].kty = ring'[u].kty
      BY <3>1, KeysDescend
    <3> QED
      BY <3>2 DEF SignedFits, IsCompatibleWithKey
  <2> QED
    BY <1>2, <2>1 DEF IssuedExactly
<1>3. ASSUME NEW s \in Slots, NEW alg \in SignatureAlgs, NEW params \in ParamSets,
             NEW p \in Payloads, Sign(s, alg, params, p)
      PROVE  SignedFits' /\ IssuedExactly'
  <2> DEFINE hdr  == NewHeader(alg, ring[s].kid, params)
             text == EncodePayload(p)
             fact == [mat |-> ring[s].mat, alg |-> alg, payload |-> p]
  <2>1. ring' = ring /\ signed' = signed \union {fact}
    BY <1>3 DEF Sign
  <2>2. PICK sig \in NewSignatures(alg, ring[s], SigningInput(hdr, text)) :
            issued' = issued \union {[hdr |-> hdr, text |-> text, sig |-> sig]}
    BY <1>3 DEF Sign
  <2>3. fact.mat = ring[s].mat /\ fact.alg = alg /\ hdr.alg = alg
    BY DEF NewHeader
  <2>4. sig # None => /\ sig = SigTerm(alg, ring[s].mat, SigningInput(hdr, text))
                      /\ sig.alg = alg /\ sig.mat = ring[s].mat /\ alg # "none"
    BY <2>2 DEF NewSignatures, SignOutcomes, SigTerm
  <2>5. alg # "none" => /\ ring[s] # None /\ ring[s].mat # None
                        /\ IsCompatibleWithKey(alg, ring[s])
    BY <1>3, SigningKey
  <2>. HIDE DEF hdr, text, fact
  <2>6. SignedFits'
    <3> SUFFICES ASSUME NEW f \in signed', f.alg # "none"
                 PROVE  /\ f.mat # None
                        /\ \A u \in Slots : ring[u] # None /\ ring[u].mat = f.mat =>
                               IsCompatibleWithKey(f.alg, ring[u])
      BY <2>1 DEF SignedFits
    <3>1. CASE f \in signed
      BY <3>1 DEF SignedFits
    <3>2. CASE f = fact
      BY <2>3, <2>5, <3>2 DEF OneTypeOfMaterial, IsCompatibleWithKey
    <3> QED
      BY <2>1, <3>1, <3>2
  <2>7. IssuedExactly'
    <3> DEFINE token == [hdr |-> hdr, text |-> text, sig |-> sig]
    <3>1. token.hdr = hdr /\ token.text = text /\ token.sig = sig
      OBVIOUS
    <3>. HIDE DEF token
    <3>2. issued' = issued \union {token}
      BY <2>2 DEF token
    <3> SUFFICES ASSUME NEW t \in issued', t.sig # None
                 PROVE  /\ t.sig = SigTerm(t.hdr.alg, t.sig.mat, SigningInput(t.hdr, t.text))
                        /\ \E f \in signed' : f.mat = t.sig.mat /\ f.alg = t.sig.alg
                                              /\ f.alg # "none"
      BY DEF IssuedExactly
    <3>3. CASE t \in issued
      BY <2>1, <3>3 DEF IssuedExactly
    <3>4. CASE t = token
      BY <2>1, <2>3, <2>4, <3>1, <3>4
    <3> QED
      BY <3>2, <3>3, <3>4
  <2> QED
    BY <2>6, <2>7
<1> QED
  BY <1>1, <1>2, <1>3 DEF Next, vars, VerifyStep, Load, Release, StartVerify, SkipSignature,
                          CheckSignature, Return, Edit, Publish

\* The object held is what sign() made or a parser accepted.
LEMMA EntriesKept ==
    ASSUME IInv, EntriesAsWritten, [Next]_vars
    PROVE  EntriesAsWritten'
<1>1. ASSUME NEW s \in Slots, NEW alg \in SignatureAlgs, NEW params \in ParamSets,
             NEW p \in Payloads, Sign(s, alg, params, p)
      PROVE  EntriesAsWritten'
  <2> DEFINE hdr == NewHeader(alg, ring[s].kid, params)
  <2>1. PICK sig : jws' = [payload |-> p, text |-> EncodePayload(p),
                           sigs |-> <<[algorithm |-> alg, kid |-> ring[s].kid, hdr |-> hdr,
                                       sig |-> sig]>>]
    BY <1>1 DEF Sign
  <2>2. hdr.shape = "object" /\ hdr.alg = alg /\ hdr.kid = ring[s].kid
    BY DEF NewHeader
  <2>. HIDE DEF hdr
  <2> QED
    BY <2>1, <2>2 DEF EntriesAsWritten
<1>2. ASSUME NEW doc \in Documents, NEW noexcept \in BOOLEAN, Load(doc, noexcept)
      PROVE  EntriesAsWritten'
  <2> SUFFICES ASSUME Parses(doc), jws' = ParsedObject(doc)
               PROVE  EntriesAsWritten'
    BY <1>2 DEF Load, EntriesAsWritten
  <2> DEFINE entries == EntriesOf(doc)
  <2>1. entries \in Seq(KnownEntries) /\ entries # <<>>
    BY EntriesType DEF Parses
  <2>2. jws'.sigs = [i \in DOMAIN entries |-> ParseEntry(entries[i])]
    BY DEF ParsedObject
  <2>3. ASSUME NEW i \in DOMAIN entries
        PROVE  LET e == ParseEntry(entries[i])
               IN  e.hdr.shape = "object" /\ e.hdr.alg = e.algorithm /\ e.hdr.kid = e.kid
    BY DEF ParseEntry, Parses, EntryParses, HeaderKnown
  <2>. HIDE DEF entries
  <2>4. DOMAIN entries = 1..Len(entries) /\ Len(entries) \in Nat /\ Len(entries) > 0
    BY <2>1
  <2>5. DOMAIN jws'.sigs = 1..Len(entries) /\ Len(jws'.sigs) = Len(entries)
    BY <2>2, <2>4
  <2> QED
    BY <2>2, <2>3, <2>4, <2>5 DEF EntriesAsWritten
<1>3. CASE jws' = None
  BY <1>3 DEF EntriesAsWritten
<1>4. CASE jws' = jws
  BY <1>4 DEF EntriesAsWritten
<1> QED
  BY <1>1, <1>2, <1>3, <1>4 DEF Next, vars, VerifyStep, Release, StartVerify, SkipSignature,
                                CheckSignature, Return, Edit, Publish

\* An entry of the object held, while verify() has it as argument.
LEMMA EntryHeld ==
    ASSUME IInv, check.pc = "loop", check.i <= Len(jws.sigs)
    PROVE  /\ check \in Checks /\ check.i \in Nat \ {0}
           /\ jws.sigs \in Seq(SignatureEntries)
           /\ check.i \in DOMAIN jws.sigs
<1>1. check \in Checks /\ check.i \in Nat \ {0}
  BY DEF IInv, TypeOK, Checks
<1>2. jws \in Objects
  BY DEF IInv, TypeOK, ArgumentsHeld
<1>3. jws.sigs \in Seq(SignatureEntries)
  BY <1>2 DEF Objects
<1> QED
  BY <1>1, <1>3

\* Every step of the loop, and every other call, leaves behind what it should.
LEMMA LoopKept ==
    ASSUME IInv, PassedVerified, VerdictExplained, [Next]_vars
    PROVE  PassedVerified' /\ VerdictExplained'
<1>1. ASSUME check' = NoCheck PROVE PassedVerified' /\ VerdictExplained'
  <2>1. check'.pc = "idle" /\ check'.verdict = None
    BY <1>1 DEF NoCheck
  <2> QED
    BY <2>1, TextAssumption DEF PassedVerified, VerdictExplained
<1>2. ASSUME NEW s \in Slots, StartVerify(s) PROVE PassedVerified' /\ VerdictExplained'
  <2>1. check' = [NoCheck EXCEPT !.pc = "loop", !.slot = s] /\ jws # None /\ jws' = jws
    BY <1>2 DEF StartVerify
  <2>2. check'.i = 1 /\ check'.verdict = None
    BY <2>1 DEF NoCheck
  <2>3. DOMAIN jws.sigs \subseteq Nat \ {0}
    BY <2>1 DEF IInv, TypeOK, Objects
  <2> QED
    BY <2>1, <2>2, <2>3, TextAssumption DEF PassedVerified, VerdictExplained
<1>3. CASE SkipSignature
  <2>1. /\ check.pc = "loop" /\ check.i <= Len(jws.sigs) /\ check' = Advanced(check)
        /\ ~Applicable(jws.sigs[check.i], Key)
        /\ UNCHANGED <<ring, jws>>
    BY <1>3 DEF SkipSignature, InLoop, Entry
  <2>2. check \in Checks /\ check.i \in Nat \ {0} /\ DOMAIN jws.sigs \subseteq Nat
    BY <2>1, EntryHeld
  <2>3. /\ check'.i = check.i + 1 /\ check'.pc = "loop" /\ check'.slot = check.slot
        /\ check'.found = check.found /\ check'.verdict = check.verdict
    BY <2>1, <2>2 DEF Advanced, Checks
  <2>4. \A j \in DOMAIN jws.sigs : j < check'.i => j < check.i \/ j = check.i
    BY <2>2, <2>3
  <2>5. Key' = Key
    BY <2>1, <2>3 DEF Key
  <2>6. \A j \in DOMAIN jws.sigs : Genuine(jws.sigs[j], Key) => Genuine(jws.sigs[j], Key)'
    BY <2>1, <2>5 DEF Genuine
  <2> QED
    BY <2>1, <2>3, <2>4, <2>5, <2>6 DEF PassedVerified, VerdictExplained
<1>4. ASSUME NEW fault \in Faults, CheckSignature(fault)
      PROVE  PassedVerified' /\ VerdictExplained'
  <2> DEFINE input  == SigningInput(Entry.hdr, jws.text)
             answer == VerifyOutcome(Entry.algorithm, Key, input, Entry.sig, fault)
             c      == [check EXCEPT !.faulty = (fault # "none")]
  <2>1. /\ check' = Answered(c, answer)
        /\ check.pc = "loop" /\ check.i <= Len(jws.sigs)
        /\ Applicable(Entry, Key) /\ Entry = jws.sigs[check.i]
        /\ UNCHANGED <<ring, jws>>
    BY <1>4 DEF CheckSignature, InLoop, Entry
  <2>2. /\ check \in Checks /\ check.i \in Nat \ {0} /\ check.i \in DOMAIN jws.sigs
        /\ DOMAIN jws.sigs \subseteq Nat
    BY <2>1, EntryHeld
  <2>3. /\ c \in Checks /\ c.pc = "loop" /\ c.slot = check.slot /\ c.i = check.i
        /\ c.found = check.found /\ c.verdict = check.verdict
        /\ c.faulty = (fault # "none")
    BY <2>1, <2>2 DEF Checks
  <2>4. /\ answer \in {TRUE, FALSE, None}
        /\ answer = TRUE => Genuine(Entry, Key)
        /\ answer = FALSE /\ fault = "none" => ~Genuine(Entry, Key)
    BY Zenon, TextAssumption DEF VerifyOutcome, Faults, Genuine
  <2>. HIDE DEF answer, c
  <2>5. check.verdict \notin {"true", "false"}
    BY <2>1 DEF VerdictExplained
  <2>6. CASE answer = TRUE
    <3>1. check' = [Advanced(c) EXCEPT !.found = TRUE]
      BY Zenon, <2>1, <2>6, TextAssumption DEF Answered
    <3>2. /\ Advanced(c) \in Checks /\ Advanced(c).i = check.i + 1
          /\ Advanced(c).pc = "loop" /\ Advanced(c).slot = check.slot
          /\ Advanced(c).verdict = check.verdict
      BY <2>2, <2>3 DEF Advanced, Checks
    <3>3. /\ check'.i = check.i + 1 /\ check'.pc = "loop" /\ check'.slot = check.slot
          /\ check'.found = TRUE /\ check'.verdict = check.verdict
      BY <3>1, <3>2 DEF Checks
    <3>4. \A j \in DOMAIN jws.sigs : j < check'.i => j < check.i \/ j = check.i
      BY <2>2, <3>3
    <3>5. Key' = Key
      BY <2>1, <3>3 DEF Key
    <3>6. \A j \in DOMAIN jws.sigs : Genuine(jws.sigs[j], Key) => Genuine(jws.sigs[j], Key)'
      BY <2>1, <3>5 DEF Genuine
    <3>7. PassedVerified'
      BY <2>1, <2>4, <2>6, <3>3, <3>4, <3>5, <3>6 DEF PassedVerified
    <3> QED
      BY <2>5, <3>3, <3>7 DEF VerdictExplained
  <2>7. ASSUME NEW verdict \in {"threw", "false"}, check' = Ended(c, verdict),
               verdict = "false" => answer = FALSE
        PROVE  PassedVerified' /\ VerdictExplained'
    <3>1. /\ check'.i = check.i /\ check'.pc = "done" /\ check'.slot = check.slot
          /\ check'.found = check.found /\ check'.verdict = verdict
          /\ check'.faulty = (fault # "none")
      BY <2>3, <2>7 DEF Ended, Checks
    <3>2. Key' = Key
      BY <2>1, <3>1 DEF Key
    <3>3. \A j \in DOMAIN jws.sigs : Genuine(jws.sigs[j], Key)' = Genuine(jws.sigs[j], Key)
      BY <2>1, <3>2 DEF Genuine
    <3>4. PassedVerified'
      BY <2>1, <3>1, <3>2, <3>3 DEF PassedVerified
    <3>5. VerdictExplained'
      BY <2>1, <2>2, <2>4, <2>7, <3>1, <3>2, <3>3 DEF VerdictExplained
    <3> QED
      BY <3>4, <3>5
  <2>8. CASE answer = FALSE
    <3>1. check' = Ended(c, "false")
      BY Zenon, <2>1, <2>8, TextAssumption DEF Answered
    <3> QED
      BY <2>7, <2>8, <3>1
  <2>9. CASE answer = None
    <3>1. check' = Ended(c, "threw")
      BY Zenon, <2>1, <2>9, TextAssumption DEF Answered
    <3> QED
      BY <2>7, <3>1
  <2> QED
    BY <2>4, <2>6, <2>8, <2>9
<1>5. CASE Return
  <2>1. /\ check.pc = "loop" /\ check.i > Len(jws.sigs) /\ check \in Checks
        /\ check' = Ended(check, IF check.found THEN "true" ELSE "false")
        /\ UNCHANGED <<ring, jws>>
    BY <1>5 DEF Return, InLoop, Returned, IInv, TypeOK
  <2>2. /\ check'.i = check.i /\ check'.pc = "done" /\ check'.slot = check.slot
        /\ check'.found = check.found
        /\ check'.verdict = IF check.found THEN "true" ELSE "false"
    BY <2>1 DEF Ended, Checks
  <2>3. Key' = Key
    BY <2>1, <2>2 DEF Key
  <2>4. \A j \in DOMAIN jws.sigs : Genuine(jws.sigs[j], Key) => Genuine(jws.sigs[j], Key)'
    BY <2>1, <2>3 DEF Genuine
  <2> QED
    BY <2>1, <2>2, <2>3, <2>4 DEF PassedVerified, VerdictExplained
<1>6. CASE UNCHANGED vars
  BY <1>6 DEF vars, PassedVerified, VerdictExplained, Key, Genuine
<1> QED
  BY <1>1, <1>2, <1>3, <1>4, <1>5, <1>6, ZenonT(40)
     DEF Next, VerifyStep, Sign, Load, Release, Edit, Publish

\* What lies behind a verdict lies behind every verdict.
THEOREM VerdictInvariance == Spec => []VInv
<1>1. Init => VInv
  <2> SUFFICES ASSUME Init PROVE VInv
    OBVIOUS
  <2>1. OneTypeOfMaterial
    BY ProgramAssumption DEF Init, OneTypeOfMaterial
  <2>2. SignedFits /\ IssuedExactly /\ EntriesAsWritten
    BY DEF Init, SignedFits, IssuedExactly, EntriesAsWritten
  <2>3. PassedVerified /\ VerdictExplained
    BY TextAssumption DEF Init, NoCheck, PassedVerified, VerdictExplained
  <2> QED
    BY <2>1, <2>2, <2>3 DEF VInv
<1>2. IInv /\ VInv /\ [Next]_vars => VInv'
  BY CirculationKept, EntriesKept, LoopKept DEF VInv
<1> QED
  BY <1>1, <1>2, Invariance, PTL DEF Spec

\* An entry that names a key's ID, under an algorithm that the key's material
\* signed under, is for this key; if verify() answered true, it was checked.
THEOREM CosignaturesGenuine == Spec => []NoForgedCosignature
<1> SUFFICES ASSUME IInv, VInv PROVE NoForgedCosignature
  BY Invariance, VerdictInvariance, PTL
<1> SUFFICES ASSUME check.verdict = "true", NEW i \in DOMAIN jws.sigs,
                    jws.sigs[i].kid = Key.kid,
                    NEW f \in signed, f.alg = jws.sigs[i].algorithm, f.mat = Key.mat,
                    f.alg # "none"
             PROVE  [hdr |-> jws.sigs[i].hdr, text |-> jws.text, sig |-> jws.sigs[i].sig]
                        \in issued
  BY DEF NoForgedCosignature
<1> DEFINE e == jws.sigs[i]
<1>1. /\ check.pc = "done" /\ check.i > Len(jws.sigs)
      /\ jws # None /\ check.slot \in Slots /\ Key # None /\ Key = ring[check.slot]
  BY DEF VInv, VerdictExplained, IInv, ArgumentsHeld, Key
<1>2. check \in Checks /\ jws \in Objects
  BY <1>1 DEF IInv, TypeOK
<1>3. /\ jws.sigs \in Seq(SignatureEntries) /\ jws.text \in PayloadTexts
      /\ check.i \in Nat
  BY <1>2 DEF Objects, Checks
<1>4. i < check.i /\ e \in SignatureEntries
  BY <1>1, <1>3
<1>5. IsCompatibleWithKey(f.alg, Key) /\ f.mat # None
  BY <1>1 DEF VInv, SignedFits
<1>6. Genuine(e, Key)
  BY <1>1, <1>4, <1>5 DEF VInv, PassedVerified, Applicable, KidMatches
<1>7. e.sig = [alg |-> e.algorithm, mat |-> Key.mat, input |-> [hdr |-> e.hdr, text |-> jws.text]]
  BY <1>6 DEF Genuine, SigTerm, SigningInput
<1>8. e.sig # None
  <2>1. Key.mat \in Materials
    BY <1>5 DEF IInv, TypeOK, Facts
  <2>2. [hdr |-> e.hdr, text |-> jws.text] \in SigningInputs /\ e.algorithm \in SigAlgs
    BY <1>3, <1>4 DEF SigningInputs, SignatureEntries
  <2> QED
    BY <1>7, <2>1, <2>2, TextAssumption
<1>9. PICK t \in issued : t.sig = e.sig
  BY <1>1, <1>8 DEF IInv, HeldFromCirculation
<1>10. t.sig.input = [hdr |-> t.hdr, text |-> t.text]
  <2>1. t.sig = SigTerm(t.hdr.alg, t.sig.mat, SigningInput(t.hdr, t.text))
    BY <1>8, <1>9 DEF VInv, IssuedExactly
  <2> DEFINE mat == t.sig.mat
  <2>2. t.sig = [alg |-> t.hdr.alg, mat |-> mat, input |-> [hdr |-> t.hdr, text |-> t.text]]
    BY <2>1 DEF SigTerm, SigningInput
  <2>. HIDE DEF mat
  <2> QED
    BY <2>2
<1>11. t.hdr = e.hdr /\ t.text = jws.text
  BY <1>7, <1>9, <1>10
<1>12. t = [hdr |-> t.hdr, text |-> t.text, sig |-> t.sig]
  BY DEF IInv, TypeOK, Tokens
<1> QED
  BY <1>9, <1>11, <1>12

\* A signature of one's own is for one's key, and right.
LEMMA OwnIsGenuine ==
    ASSUME IInv, VInv, check.pc = "done", NEW i \in DOMAIN jws.sigs, OwnSignature(i, check.slot)
    PROVE  Applicable(jws.sigs[i], Key) /\ Genuine(jws.sigs[i], Key)
<1> DEFINE e == jws.sigs[i]
           t == [hdr |-> e.hdr, text |-> jws.text, sig |-> e.sig]
<1>1. /\ jws # None /\ check.slot \in Slots /\ Key # None /\ Key = ring[check.slot]
  BY DEF IInv, ArgumentsHeld, Key
<1>2. /\ e.sig # None /\ e.sig.mat = Key.mat /\ t \in issued
      /\ None \in {e.kid, Key.kid} \/ e.kid = Key.kid
  BY <1>1 DEF OwnSignature
<1>3. t.hdr = e.hdr /\ t.text = jws.text /\ t.sig = e.sig
  OBVIOUS
<1>. HIDE DEF t
<1>4. /\ e.sig = SigTerm(e.hdr.alg, e.sig.mat, SigningInput(e.hdr, jws.text))
      /\ \E f \in signed : f.mat = e.sig.mat /\ f.alg = e.sig.alg /\ f.alg # "none"
  BY <1>2, <1>3 DEF VInv, IssuedExactly
<1>5. e.hdr.alg = e.algorithm
  BY <1>1 DEF VInv, EntriesAsWritten
<1>6. e.sig.alg = e.algorithm
  BY <1>4, <1>5 DEF SigTerm
<1>7. IsCompatibleWithKey(e.algorithm, Key)
  BY <1>1, <1>2, <1>4, <1>6 DEF VInv, SignedFits
<1> QED
  BY <1>2, <1>4, <1>5, <1>7 DEF Genuine, Applicable, KidMatches

\* The two invariants leave no verdict against a token whose signatures are the key's own.
LEMMA OwnTokensStandNow == IInv /\ VInv => OwnTokensNotRejected
<1> SUFFICES ASSUME IInv, VInv PROVE OwnTokensNotRejected
  OBVIOUS
<1> SUFFICES ASSUME check.verdict = "false", ~check.faulty,
                    NEW i \in DOMAIN jws.sigs, OwnSignature(i, check.slot),
                    \A j \in DOMAIN jws.sigs :
                        \/ OwnSignature(j, check.slot)
                        \/ None \notin {jws.sigs[j].kid, Key.kid} /\ jws.sigs[j].kid # Key.kid
             PROVE  FALSE
  BY DEF OwnTokensNotRejected
<1>1. /\ check.pc = "done"
      /\ \/ \E j \in DOMAIN jws.sigs : Applicable(jws.sigs[j], Key) /\ ~Genuine(jws.sigs[j], Key)
         \/ ~check.found /\ check.i > Len(jws.sigs)
  BY DEF VInv, VerdictExplained
<1>2. CASE \E j \in DOMAIN jws.sigs : Applicable(jws.sigs[j], Key) /\ ~Genuine(jws.sigs[j], Key)
  <2>1. PICK j \in DOMAIN jws.sigs : Applicable(jws.sigs[j], Key) /\ ~Genuine(jws.sigs[j], Key)
    BY <1>2
  <2>2. OwnSignature(j, check.slot)
    BY <2>1 DEF Applicable, KidMatches
  <2> QED
    BY <1>1, <2>1, <2>2, OwnIsGenuine
<1>3. CASE ~check.found /\ check.i > Len(jws.sigs)
  <2>1. jws \in Objects /\ check.i \in Nat
    BY <1>1 DEF IInv, TypeOK, ArgumentsHeld, Checks
  <2>2. i < check.i
    BY <1>3, <2>1 DEF Objects
  <2>3. Applicable(jws.sigs[i], Key)
    BY <1>1, OwnIsGenuine
  <2> QED
    BY <1>1, <1>3, <2>2, <2>3 DEF VInv, PassedVerified
<1> QED
  BY <1>1, <1>2, <1>3

\* Whatever was done to a token on the way, its own key does not call it wrong.
THEOREM OwnTokensStand == Spec => []OwnTokensNotRejected
  BY Invariance, VerdictInvariance, OwnTokensStandNow, PTL

\* Every serialisation of the object held is read back as the same object.
THEOREM SerialisationsExact == Spec => []RoundTripExact
<1> SUFFICES ASSUME IInv, VInv PROVE RoundTripExact
  BY Invariance, VerdictInvariance, PTL
<1> SUFFICES ASSUME jws # None, NEW form \in Forms(jws)
             PROVE  LET doc == Serialise(jws, form)
                    IN  Parses(doc) /\ ~ParseThrows(doc) /\ ParsedObject(doc) = jws
  BY DEF RoundTripExact
<1> DEFINE doc     == Serialise(jws, form)
           wire(i) == WireEntry(jws.sigs[i])
           n       == Len(jws.sigs)
<1>1. /\ jws \in Objects /\ jws.text.bytes = jws.payload
      /\ jws = [payload |-> jws.payload, text |-> jws.text, sigs |-> jws.sigs]
      /\ jws.sigs \in Seq(SignatureEntries) /\ jws.text \in PayloadTexts
  BY DEF IInv, TypeOK, HeldFromCirculation, Objects
<1>2. n \in Nat /\ n > 0 /\ DOMAIN jws.sigs = 1..n
  BY <1>1 DEF VInv, EntriesAsWritten
<1>3. ASSUME NEW i \in 1..n
      PROVE  /\ wire(i) \in WireEntries /\ wire(i) # None
             /\ EntryParses(wire(i)) /\ ~HeaderThrows(wire(i).hdr)
             /\ ParseEntry(wire(i)) = jws.sigs[i]
  <2> DEFINE e == jws.sigs[i]
  <2>1. /\ e \in SignatureEntries
        /\ e.hdr.shape = "object" /\ e.hdr.alg = e.algorithm /\ e.hdr.kid = e.kid
    BY <1>1, <1>2 DEF VInv, EntriesAsWritten
  <2>2. /\ e = [algorithm |-> e.algorithm, kid |-> e.kid, hdr |-> e.hdr, sig |-> e.sig]
        /\ e.algorithm \in SigAlgs /\ e.kid \in Kids \union {None}
        /\ e.hdr \in HeaderTexts /\ e.sig \in Signatures
    BY <2>1 DEF SignatureEntries
  <2>3. wire(i).hdr = e.hdr /\ wire(i).sig = e.sig /\ wire(i) \in WireEntries
    BY <2>2 DEF WireEntry, WireEntries
  <2>4. e.sig # Garbled
    BY <2>2, TextAssumption
  <2>5. e.hdr.kid # NonString /\ e.hdr.alg # NonString
    BY <2>1, <2>2, TextAssumption
  <2>. HIDE DEF e
  <2>6. EntryParses(wire(i)) /\ ~HeaderThrows(wire(i).hdr)
    BY <2>1, <2>2, <2>3, <2>4, <2>5 DEF EntryParses, HeaderKnown, HeaderThrows
  <2>7. ParseEntry(wire(i)) = e
    BY <2>1, <2>2, <2>3 DEF ParseEntry
  <2> QED
    BY <2>3, <2>6, <2>7, TextAssumption DEF e
<1>. HIDE DEF n, wire
<1>4. /\ doc.payload = jws.text
      /\ EntriesOf(doc) = [i \in 1..n |-> wire(i)]
  <2>1. doc.payload = jws.text
    BY DEF Serialise
  <2>2. CASE form = "general"
    <3> DEFINE general == [i \in 1..n |-> wire(i)]
    <3>1. doc.signatures = general
      BY <1>2, <2>2 DEF Serialise, wire
    <3>2. general \in Seq(WireEntries)
      BY <1>2, <1>3
    <3>3. doc.signatures # None
      BY <3>1, <3>2, TextAssumption
    <3> QED
      BY <2>1, <3>1, <3>3 DEF EntriesOf
  <2>3. CASE form = "single"
    <3>1. n = 1 /\ form # "general"
      BY <2>3 DEF Forms, n
    <3>2. doc.signatures = None /\ doc.single = wire(1)
      BY <2>3 DEF Serialise, wire
    <3>3. EntriesOf(doc) = <<wire(1)>>
      BY <1>3, <3>1, <3>2 DEF EntriesOf
    <3> QED
      BY <2>1, <3>1, <3>3
  <2> QED
    BY <2>2, <2>3 DEF Forms
<1>. HIDE DEF doc
<1>5. DOMAIN EntriesOf(doc) = 1..n /\ \A i \in 1..n : EntriesOf(doc)[i] = wire(i)
  BY <1>4
<1>6. Parses(doc) /\ ~ParseThrows(doc)
  BY <1>1, <1>2, <1>3, <1>4, <1>5 DEF Parses, ParseThrows
<1>7. ParsedObject(doc) = jws
  <2>1. [i \in DOMAIN EntriesOf(doc) |-> ParseEntry(EntriesOf(doc)[i])] = [i \in 1..n |-> jws.sigs[i]]
    BY <1>3, <1>5
  <2>2. jws.sigs = [i \in 1..n |-> jws.sigs[i]]
    BY <1>1, <1>2
  <2> QED
    BY <1>1, <1>4, <2>1, <2>2 DEF ParsedObject
<1> QED
  BY <1>6, <1>7 DEF doc
=============================================================================
