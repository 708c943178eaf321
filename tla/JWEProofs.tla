----------------------------- MODULE JWEProofs -----------------------------
(***************************************************************************)
(* Theorems about JWE, for every set of keys, algorithms, payloads and     *)
(* headers: type correctness, who can read, what the protected header is   *)
(* bound to, that JWE implements ConfidentialChannel, that one good        *)
(* recipient is enough, and that serialisations are exact.                 *)
(***************************************************************************)
EXTENDS JWE, TLAPS

IssuedTokens == [header : HeaderTexts, recipients : Seq(Recipients), body : Bodies]

-----------------------------------------------------------------------------
(* Lemmas about the tokens that are made. *)

\* What the invariant asks of token number n, which seals payload p for the
\* materials mats: its content is bound to its header, and its CEK is a shared
\* or agreed secret of one of mats, or new and wrapped for members of mats.
WellMade(t, n, mats, p) ==
    /\ t \in IssuedTokens
    /\ t.body.content.aad = t.header
    /\ t.body.content.payload = p
    /\ t.body.content.cek.kind # "secret" => t.body.content.cek.enc = t.body.content.enc
    /\ t.body.content.cek.kind # "random" => t.body.content.cek.mat \in mats
    /\ t.body.content.cek.kind = "random" => t.body.content.cek.n = n
    /\ \A i \in DOMAIN t.recipients :
           t.recipients[i].ek # None =>
               /\ t.recipients[i].ek \in WrappedKeys
               /\ t.recipients[i].ek.cek.kind = "random"
               /\ t.recipients[i].ek.cek.n = n
               /\ t.recipients[i].ek.mat \in mats

\* The wrapping of a new CEK is a wrapped key.
LEMMA WrapType ==
    ASSUME NEW kea \in KEAs, RequiresWrappedKey(kea), NEW mat \in Materials,
           NEW n \in Tokens, NEW enc \in CEAs
    PROVE  /\ RandomCEK(n, enc) \in CEKs
           /\ Wrap(kea, mat, RandomCEK(n, enc)) \in WrappedKeys
<1>1. RandomCEK(n, enc) \in CEKs
  BY DEF RandomCEK, CEKs
<1>2. Scheme(kea) \in RSAWraps \union {"KW", "GCMKW", "inline"}
  BY DEF Scheme, KEAs, RequiresWrappedKey
<1> QED
  BY <1>1, <1>2 DEF Wrap, WrappedKeys

\* A key that an algorithm asks for has a material.
LEMMA ServingKey ==
    ASSUME NEW key \in JWKs, NEW kea \in KEAs, KeyServes(kea, key),
           key.mat = None => key.kty = "oct",
           key.kty = "EC" => key.crv \in ECCurves
    PROVE  /\ key.mat \in Materials
           /\ kea = "ECDH-ES" => key.crv \in Curves
<1>1. key.mat \in Materials \union {None}
  BY DEF JWKs
<1>2. key.mat # None
  BY DEF KeyServes, KEAs, RSAWraps, AESWraps, GCMWraps
<1>3. kea = "ECDH-ES" => key.kty = "EC"
  BY DEF KeyServes, RSAWraps, AESWraps, GCMWraps
<1> QED
  BY <1>1, <1>2, <1>3 DEF Curves

\* What is encrypted has the type of a content.
LEMMA BodyType ==
    ASSUME NEW cek \in CEKs, NEW h \in HeaderTexts, NEW enc \in CEAs, h.enc = enc,
           NEW p \in Payloads
    PROVE  /\ Body(cek, h, p) \in Bodies
           /\ Body(cek, h, p).content = [cek |-> cek, enc |-> enc, aad |-> h, payload |-> p]
<1>1. [cek |-> cek, enc |-> enc, aad |-> h, payload |-> p] \in Ciphertexts(HeaderTexts)
  BY DEF Ciphertexts
<1>2. Body(cek, h, p).odd \in OddParts
  BY DEF Body, Encrypted, OddParts
<1> QED
  BY <1>1, <1>2 DEF Body, Encrypted, Bodies

LEMMA OwnTokenWellMade ==
    ASSUME NEW key \in JWKs, NEW kea \in KEAs, NEW enc \in CEAs, NEW n \in Tokens,
           NEW p \in Payloads, key.mat \in Materials,
           kea = "ECDH-ES" => key.crv \in Curves
    PROVE  WellMade(OwnToken(kea, enc, key, n, p), n, {key.mat}, p)
<1> DEFINE epk == IF kea = "ECDH-ES" THEN [n |-> n, crv |-> key.crv, complete |-> TRUE] ELSE None
           gcm == GCMOf(kea, n, key.mat)
           h   == Header(kea, enc, epk, gcm)
           cek == CASE kea = "dir" -> SecretCEK(key.mat)
                    [] kea = "ECDH-ES" -> AgreedCEK(key.mat, n, enc)
                    [] OTHER -> RandomCEK(n, enc)
           ek  == IF RequiresWrappedKey(kea) THEN Wrap(kea, key.mat, cek) ELSE None
           r   == [ek |-> ek, header |-> None]
           t   == OwnToken(kea, enc, key, n, p)
<1>1. t = [header |-> h, recipients |-> <<r>>, body |-> Body(cek, h, p)]
  BY DEF OwnToken
<1>2. epk \in EphemeralKeys \union {None}
  BY DEF EphemeralKeys
<1>3. gcm \in GCMParams \union {None}
  BY DEF GCMOf, GCMParams, OddParts
<1>4. /\ cek \in CEKs
      /\ cek.kind # "secret" => cek.enc = enc
      /\ cek.kind # "random" => cek.mat = key.mat
      /\ cek.kind = "random" => cek.n = n
      /\ RequiresWrappedKey(kea) => cek = RandomCEK(n, enc)
  BY DEF SecretCEK, AgreedCEK, RandomCEK, CEKs, RequiresWrappedKey
<1>5. ek # None => /\ ek \in WrappedKeys /\ ek.cek.kind = "random" /\ ek.cek.n = n
                   /\ ek.mat = key.mat
  BY <1>4, WrapType DEF Wrap, RandomCEK
<1>. HIDE DEF epk, gcm, cek, ek
<1>6. h \in HeaderTexts /\ h.enc = enc
  BY <1>2, <1>3 DEF Header, HeaderTexts
<1>. HIDE DEF h
<1>7. r \in Recipients
  BY <1>5 DEF Recipients
<1>8. /\ Body(cek, h, p) \in Bodies
      /\ Body(cek, h, p).content = [cek |-> cek, enc |-> enc, aad |-> h, payload |-> p]
  BY <1>4, <1>6, BodyType
<1>9. t \in IssuedTokens
  BY <1>1, <1>6, <1>7, <1>8 DEF IssuedTokens
<1>10. /\ t.header = h /\ t.body = Body(cek, h, p)
       /\ \A i \in DOMAIN t.recipients : t.recipients[i].ek = ek
  BY <1>1
<1>. HIDE DEF t
<1> QED
  BY <1>4, <1>5, <1>8, <1>9, <1>10 DEF WellMade, t

LEMMA ForeignWrappedWellMade ==
    ASSUME NEW keys \in Seq(JWKs), NEW kea \in KEAs, RequiresWrappedKey(kea), NEW enc \in CEAs,
           NEW n \in Tokens, NEW p \in Payloads,
           \A i \in DOMAIN keys : keys[i].mat \in Materials
    PROVE  WellMade(ForeignWrapped(kea, enc, keys, n, p), n,
                    {keys[i].mat : i \in DOMAIN keys}, p)
<1> DEFINE h   == Header(kea, enc, None, None)
           cek == RandomCEK(n, enc)
           rh(i) == [alg |-> None, enc |-> None, epk |-> None, gcm |-> GCMOf(kea, n, keys[i].mat)]
           ek(i) == Wrap(kea, keys[i].mat, cek)
           rs  == [i \in DOMAIN keys |-> [ek |-> ek(i), header |-> rh(i)]]
           t   == ForeignWrapped(kea, enc, keys, n, p)
<1>1. t = [header |-> h, body |-> Body(cek, h, p), recipients |-> rs]
  BY DEF ForeignWrapped
<1>2. cek.kind = "random" /\ cek.enc = enc /\ cek.n = n /\ cek \in CEKs
  BY DEF RandomCEK, CEKs
<1>3. ASSUME NEW i \in DOMAIN keys
      PROVE  /\ ek(i) \in WrappedKeys /\ ek(i).cek = cek /\ ek(i).mat = keys[i].mat
             /\ rh(i) \in RecipientHeaders
  <2>1. ek(i) \in WrappedKeys /\ ek(i).cek = cek /\ ek(i).mat = keys[i].mat
    BY <1>3, WrapType DEF Wrap
  <2>2. GCMOf(kea, n, keys[i].mat) \in GCMParams \union {None}
    BY <1>3 DEF GCMOf, GCMParams, OddParts
  <2> QED
    BY <2>1, <2>2 DEF RecipientHeaders
<1>4. h \in HeaderTexts /\ h.enc = enc
  BY DEF Header, HeaderTexts
<1>. HIDE DEF h, cek, rh, ek
<1>5. rs \in Seq(Recipients)
  <2>1. \A i \in DOMAIN keys : [ek |-> ek(i), header |-> rh(i)] \in Recipients
    BY <1>3 DEF Recipients
  <2>2. DOMAIN keys = 1..Len(keys) /\ Len(keys) \in Nat
    OBVIOUS
  <2> QED
    BY <2>1, <2>2
<1>6. \A i \in DOMAIN rs : i \in DOMAIN keys /\ rs[i].ek = ek(i)
  OBVIOUS
<1>. HIDE DEF rs
<1>7. /\ Body(cek, h, p) \in Bodies
      /\ Body(cek, h, p).content = [cek |-> cek, enc |-> enc, aad |-> h, payload |-> p]
  BY <1>2, <1>4, BodyType
<1>8. t \in IssuedTokens
  BY <1>1, <1>4, <1>5, <1>7 DEF IssuedTokens
<1>9. t.header = h /\ t.body = Body(cek, h, p) /\ t.recipients = rs
  BY <1>1
<1>. HIDE DEF t
<1> QED
  BY <1>2, <1>3, <1>6, <1>7, <1>8, <1>9 DEF WellMade, t

LEMMA ForeignAgreedWellMade ==
    ASSUME NEW key \in JWKs, NEW enc \in CEAs, NEW n \in Tokens, NEW p \in Payloads,
           NEW minimal \in BOOLEAN, key.mat \in Materials, key.crv \in Curves
    PROVE  WellMade(ForeignAgreed(enc, key, n, minimal, p), n, {key.mat}, p)
<1> DEFINE h   == Header("ECDH-ES", enc, None, None)
           epk == [n |-> n, crv |-> key.crv, complete |-> ~minimal]
           cek == AgreedCEK(key.mat, n, enc)
           rh  == [alg |-> None, enc |-> None, epk |-> epk, gcm |-> None]
           r   == [ek |-> None, header |-> rh]
           t   == ForeignAgreed(enc, key, n, minimal, p)
<1>1. t = [header |-> h, body |-> Body(cek, h, p), recipients |-> <<r>>]
  BY DEF ForeignAgreed
<1>2. cek.kind = "agreed" /\ cek.enc = enc /\ cek.mat = key.mat /\ cek \in CEKs
  BY DEF AgreedCEK, CEKs
<1>3. epk \in EphemeralKeys
  BY DEF EphemeralKeys
<1>. HIDE DEF cek, epk
<1>4. h \in HeaderTexts /\ h.enc = enc
  BY DEF Header, HeaderTexts, KEAs
<1>. HIDE DEF h
<1>5. r \in Recipients
  BY <1>3 DEF Recipients, RecipientHeaders
<1>6. /\ Body(cek, h, p) \in Bodies
      /\ Body(cek, h, p).content = [cek |-> cek, enc |-> enc, aad |-> h, payload |-> p]
  BY <1>2, <1>4, BodyType
<1>7. t \in IssuedTokens
  BY <1>1, <1>4, <1>5, <1>6 DEF IssuedTokens
<1>8. /\ t.header = h /\ t.body = Body(cek, h, p)
      /\ \A i \in DOMAIN t.recipients : t.recipients[i].ek = None
  BY <1>1
<1>. HIDE DEF t
<1> QED
  BY <1>2, <1>6, <1>7, <1>8 DEF WellMade, t

-----------------------------------------------------------------------------
(* Lemmas about documents and the objects they are parsed to. *)

\* An encrypted key that a token in circulation has, in one form or the other.
FormOf(ek, w) == ek = w \/ (w \notin {None, Tampered} /\ ek = Inline(w))

Circulates(ek) ==
    \E t \in issued : \E k \in DOMAIN t.recipients : FormOf(ek, t.recipients[k].ek)

NoKeys == {None, Tampered, Garbled, Absent}

\* What the parsers can find as a recipient.
KnownParts ==
    {r \in [ek : WrappedKeys \union NoKeys, header : RecipientHeaders \union {None}] :
        Circulates(r.ek) \/ r.ek \in NoKeys}

\* The inline form of a wrapped key is one.
LEMMA InlineType ==
    ASSUME NEW w \in WrappedKeys
    PROVE  /\ Inline(w) \in WrappedKeys
           /\ Inline(w) = [scheme |-> "inline", mat |-> w.mat, cek |-> w.cek]
BY DEF Inline, WrappedKeys

LEMMA KnownRecipientType ==
    ASSUME issued \subseteq IssuedTokens, NEW r \in KnownRecipients
    PROVE  r \in KnownParts /\ Circulates(r.ek)
<1>1. PICK t \in issued : r \in Entries(t)
  BY DEF KnownRecipients
<1>2. PICK w \in ToSet(t.recipients) : r = w \/ r \in InlineEntries(w)
  BY <1>1 DEF Entries
<1>3. PICK k \in DOMAIN t.recipients : w = t.recipients[k]
  BY <1>2 DEF ToSet
<1>4. w \in Recipients
  <2>1. t.recipients \in Seq(Recipients)
    BY DEF IssuedTokens
  <2> QED
    BY <1>3, <2>1
<1>5. CASE r = w
  <2>1. Circulates(r.ek)
    BY <1>3, <1>5 DEF Circulates, FormOf
  <2> QED
    BY <1>4, <1>5, <2>1 DEF KnownParts, Recipients, NoKeys
<1>6. CASE r \in InlineEntries(w)
  <2>1. w.ek \notin {None, Tampered} /\ r = [ek |-> Inline(w.ek), header |-> None]
    BY <1>6 DEF InlineEntries
  <2>2. w.ek \in WrappedKeys
    BY <1>4, <2>1 DEF Recipients
  <2>3. Inline(w.ek) \in WrappedKeys
    BY <2>2, InlineType
  <2>4. Circulates(r.ek)
    BY <1>3, <2>1 DEF Circulates, FormOf
  <2> QED
    BY <2>1, <2>3, <2>4 DEF KnownParts
<1> QED
  BY <1>2, <1>5, <1>6

LEMMA KnownHeaderTypes ==
    ASSUME issued \subseteq IssuedTokens
    PROVE  KnownRHeaders \subseteq RecipientHeaders \union {None}
BY KnownRecipientType, ProgramAssumption DEF KnownRHeaders, KnownParts

LEMMA KnownEntryType ==
    ASSUME issued \subseteq IssuedTokens
    PROVE  KnownEntries \subseteq KnownParts
<1> SUFFICES ASSUME NEW e \in KnownEntries PROVE e \in KnownParts
  OBVIOUS
<1>1. CASE e \in KnownRecipients
  BY <1>1, KnownRecipientType
<1>2. CASE e \in [ek : {Absent, Tampered}, header : KnownRHeaders]
  BY <1>2, KnownHeaderTypes DEF KnownParts, NoKeys
<1> QED
  BY <1>1, <1>2 DEF KnownEntries

\* The recipients of a document form a sequence of such parts.
LEMMA RecipientsType ==
    ASSUME issued \subseteq IssuedTokens, NEW doc \in Documents
    PROVE  RecipientsOf(doc) \in Seq(KnownParts)
<1>1. /\ doc.ek \in KnownKeys \union {Absent}
      /\ doc.header \in KnownRHeaders \union {None}
      /\ doc.recipients = <<>> \/ doc.recipients \in BoundedSeq(KnownEntries, MaxRecipients)
  BY DEF Documents
<1>2. doc.header \in RecipientHeaders \union {None}
  BY <1>1, KnownHeaderTypes
<1>3. CASE doc.ek # Absent
  <2>1. doc.ek \in NoKeys \/ \E r \in KnownRecipients : doc.ek = r.ek
    BY <1>1, <1>3 DEF KnownKeys, NoKeys
  <2>2. /\ doc.ek \in WrappedKeys \union NoKeys
        /\ Circulates(doc.ek) \/ doc.ek \in NoKeys
    BY <2>1, KnownRecipientType DEF KnownParts
  <2>3. [ek |-> doc.ek, header |-> doc.header] \in KnownParts
    BY <1>2, <2>2 DEF KnownParts
  <2> QED
    BY <1>3, <2>3 DEF RecipientsOf
<1>4. CASE doc.ek = Absent /\ doc.recipients # <<>>
  <2>1. PICK m \in 0..MaxRecipients : doc.recipients \in [1..m -> KnownEntries]
    BY <1>1, <1>4 DEF BoundedSeq, SeqOf
  <2>2. m \in Nat
    BY ProgramAssumption
  <2>3. doc.recipients \in Seq(KnownParts)
    BY <2>1, <2>2, KnownEntryType
  <2> QED
    BY <1>4, <2>3 DEF RecipientsOf
<1>5. CASE doc.ek = Absent /\ doc.recipients = <<>>
  <2>1. [ek |-> None, header |-> None] \in KnownParts
    BY DEF KnownParts, NoKeys
  <2> QED
    BY <1>5, <2>1 DEF RecipientsOf
<1> QED
  BY <1>3, <1>4, <1>5

\* A content that belongs to no token, or to one in circulation.
ContentKnown(body) ==
    body.content = Tampered \/ \E t \in issued : t.body.content = body.content

\* What the parsers accept they turn into an object whose content and encrypted
\* keys were in circulation or belong to no token.
LEMMA ParsedType ==
    ASSUME issued \subseteq IssuedTokens, NEW doc \in Documents, Parses(doc)
    PROVE  LET obj == ParsedObject(doc)
           IN  /\ obj \in Objects
               /\ ContentKnown(obj.body)
               /\ \A i \in DOMAIN obj.recipients :
                      \/ obj.recipients[i].ek \in {None, Tampered}
                      \/ Circulates(obj.recipients[i].ek)
<1> DEFINE found == RecipientsOf(doc)
           kept(r) == [r EXCEPT !.ek = IF @ = Absent THEN None ELSE @]
           parsed == [i \in DOMAIN found |-> kept(found[i])]
<1>1. found \in Seq(KnownParts)
  BY RecipientsType
<1>2. Len(found) \in Nat /\ DOMAIN found = 1..Len(found)
  BY <1>1
<1>3. ASSUME NEW i \in DOMAIN found
      PROVE  /\ kept(found[i]) \in Recipients
             /\ kept(found[i]).ek \in {None, Tampered} \/ Circulates(kept(found[i]).ek)
  <2>1. found[i] \in KnownParts
    BY <1>1
  <2>2. found[i].ek # Garbled
    BY DEF Parses, RecipientParses
  <2>3. kept(found[i]) = [ek |-> IF found[i].ek = Absent THEN None ELSE found[i].ek,
                          header |-> found[i].header]
    BY <2>1 DEF KnownParts
  <2> QED
    BY <2>1, <2>2, <2>3 DEF KnownParts, NoKeys, Recipients
<1>4. /\ doc.protected \in HeaderTexts
      /\ ContentKnown(doc.body)
      /\ doc.body \in ReadBodies
  <2>1. doc.protected \in KnownHeaders /\ doc.body \in KnownBodies
    BY DEF Documents
  <2>2. doc.protected # Garbled /\ doc.body # Garbled
    BY DEF Parses
  <2>3. \A t \in issued : t.header \in HeaderTexts /\ t.body \in Bodies
    BY DEF IssuedTokens
  <2>4. \A t \in issued : [t.header EXCEPT !.spelling = "other"] \in HeaderTexts
    BY <2>3 DEF HeaderTexts
  <2>5. doc.protected \in HeaderTexts
    BY <2>1, <2>2, <2>3, <2>4, ProgramAssumption DEF KnownHeaders
  <2>6. CASE \E t \in issued : t.body = doc.body
    BY <2>3, <2>5, <2>6 DEF ContentKnown, ReadBodies
  <2>7. CASE doc.body \in [content : {t.body.content : t \in issued} \union {Tampered},
                           odd : OddLengths]
    <3>1. doc.body.odd \in OddParts
      BY <2>7, ProgramAssumption
    <3>2. ContentKnown(doc.body)
      BY <2>7 DEF ContentKnown
    <3>3. \A t \in issued : t.body.content \in Ciphertexts(HeaderTexts)
      BY <2>3 DEF Bodies
    <3> QED
      BY <2>5, <2>7, <3>1, <3>2, <3>3 DEF Bodies, ReadBodies
  <2> QED
    BY <2>1, <2>2, <2>6, <2>7 DEF KnownBodies
<1>5. ParsedObject(doc) = [header |-> doc.protected, body |-> doc.body, recipients |-> parsed]
  BY DEF ParsedObject
<1>. HIDE DEF found, kept
<1>6. parsed \in Seq(Recipients)
  BY <1>2, <1>3
<1>7. DOMAIN parsed = DOMAIN found /\ \A i \in DOMAIN found : parsed[i] = kept(found[i])
  OBVIOUS
<1>. HIDE DEF parsed
<1>8. ParsedObject(doc) \in Objects
  BY <1>4, <1>5, <1>6 DEF Objects
<1> QED
  BY <1>3, <1>4, <1>5, <1>7, <1>8

-----------------------------------------------------------------------------
(* The inductive invariant. *)

Sealed(mat, payload) == [mat |-> mat, payload |-> payload] \in sent

\* A token's content is bound to its header and, unless its CEK was wrapped,
\* sealed for the material that the CEK comes from; CEKs that are wrapped are
\* numbered with the tokens made so far.
TokensSealed ==
    \A t \in issued :
        /\ t.body.content.aad = t.header
        /\ t.body.content.cek.kind # "secret" => t.body.content.cek.enc = t.body.content.enc
        /\ t.body.content.cek.kind # "random" => Sealed(t.body.content.cek.mat, t.body.content.payload)
        /\ t.body.content.cek.kind = "random" => t.body.content.cek.n <= made
        /\ \A i \in DOMAIN t.recipients :
               t.recipients[i].ek # None =>
                   /\ t.recipients[i].ek \in WrappedKeys
                   /\ t.recipients[i].ek.cek.kind = "random"
                   /\ t.recipients[i].ek.cek.n <= made

\* Whatever token it is taken from, a wrapped CEK is wrapped for a material that
\* the contents it opens were sealed for.
WrappedForReaders ==
    \A t, u \in issued : \A i \in DOMAIN t.recipients :
        t.recipients[i].ek # None /\ t.recipients[i].ek.cek = u.body.content.cek =>
            Sealed(t.recipients[i].ek.mat, u.body.content.payload)

\* The object held has no content and no encrypted key of its own.
HeldFromCirculation ==
    jwe # None =>
        /\ ContentKnown(jwe.body)
        /\ \A i \in DOMAIN jwe.recipients :
               jwe.recipients[i].ek \in {None, Tampered} \/ Circulates(jwe.recipients[i].ek)

\* From the call of decrypt() until its result is dropped, its arguments stay.
ArgumentsHeld ==
    call.pc # "idle" => jwe # None /\ call.slot \in Slots /\ ring[call.slot] # None

IInv ==
    /\ TypeOK
    /\ ring \in KeyRings
    /\ TokensSealed
    /\ WrappedForReaders
    /\ HeldFromCirculation
    /\ ArgumentsHeld
    /\ OnlyRecipientsRead
    /\ BoundToHeader

\* The keys of the program are as KeyAssumption says.
LEMMA RingKeys ==
    ASSUME IInv, NEW s \in Slots, ring[s] # None
    PROVE  /\ ring[s] \in JWKs
           /\ ring[s].mat = None => ring[s].kty = "oct" /\ ~hasPrivateKey(ring[s])
           /\ ring[s].mat # None /\ ring[s].kty = "oct" => hasPrivateKey(ring[s])
           /\ ring[s].kty = "EC" => ring[s].crv \in ECCurves
BY KeyAssumption DEF IInv, TypeOK

\* The initial state satisfies the invariant.
LEMMA InitInv == Init => IInv
<1> SUFFICES ASSUME Init PROVE IInv
  OBVIOUS
<1>1. call = NoCall /\ call.pc = "idle" /\ call \in Calls
  BY DEF Init, NoCall, Calls
<1>2. ring \in [Slots -> JWKs \union {None}] /\ ring \in KeyRings /\ made \in 0..MaxTokens
  BY ProgramAssumption, SizeAssumption DEF Init
<1>3. TypeOK
  BY <1>1, <1>2 DEF Init, TypeOK
<1>4. TokensSealed /\ WrappedForReaders /\ HeldFromCirculation
  BY DEF Init, TokensSealed, WrappedForReaders, HeldFromCirculation
<1>5. ArgumentsHeld /\ OnlyRecipientsRead /\ BoundToHeader
  BY <1>1 DEF ArgumentsHeld, OnlyRecipientsRead, BoundToHeader
<1> QED
  BY <1>2, <1>3, <1>4, <1>5 DEF IInv

\* What a call that is not decrypt() leaves of its locals satisfies the invariant.
LEMMA NoCallInv ==
    ASSUME call' = NoCall
    PROVE  call' \in Calls /\ ArgumentsHeld' /\ OnlyRecipientsRead' /\ BoundToHeader'
<1>1. call'.pc = "idle" /\ call' \in Calls
  BY DEF NoCall, Calls
<1> QED
  BY <1>1 DEF ArgumentsHeld, OnlyRecipientsRead, BoundToHeader

\* A well-made token, with its readers recorded, can be put in circulation.
LEMMA TokenInv ==
    ASSUME IInv, NEW t, NEW mats, NEW p \in Payloads, mats \subseteq Materials,
           made < MaxTokens, WellMade(t, made + 1, mats, p),
           issued' = issued \union {t},
           sent' = sent \union {[mat |-> m, payload |-> p] : m \in mats},
           made' = made + 1, ring' = ring, call' = NoCall,
           jwe' = None \/ jwe' = t
    PROVE  IInv'
<1>1. issued \subseteq IssuedTokens /\ made \in 0..MaxTokens /\ MaxTokens \in Nat
  BY SizeAssumption DEF IInv, TypeOK, IssuedTokens
<1>2. /\ t \in IssuedTokens
      /\ t.body.content.aad = t.header
      /\ t.body.content.payload = p
      /\ t.body.content.cek.kind # "secret" => t.body.content.cek.enc = t.body.content.enc
      /\ t.body.content.cek.kind # "random" => t.body.content.cek.mat \in mats
      /\ t.body.content.cek.kind = "random" => t.body.content.cek.n = made + 1
      /\ \A i \in DOMAIN t.recipients :
             t.recipients[i].ek # None =>
                 /\ t.recipients[i].ek \in WrappedKeys
                 /\ t.recipients[i].ek.cek.kind = "random"
                 /\ t.recipients[i].ek.cek.n = made + 1
                 /\ t.recipients[i].ek.mat \in mats
  BY DEF WellMade
<1>3. /\ \A m \in mats : Sealed(m, p)'
      /\ \A m, q : Sealed(m, q) => Sealed(m, q)'
  BY DEF Sealed
<1>4. TypeOK'
  <2>1. issued' \subseteq IssuedTokens
    BY <1>1, <1>2
  <2>2. t \in Objects
    BY <1>2 DEF IssuedTokens, Objects, ReadBodies
  <2>3. jwe' \in Objects \union {None}
    BY <2>2
  <2>4. sent' \subseteq [mat : Materials, payload : Payloads]
    BY DEF IInv, TypeOK
  <2>5. made' \in 0..MaxTokens
    BY <1>1
  <2> QED
    BY <2>1, <2>3, <2>4, <2>5, NoCallInv DEF IInv, TypeOK, IssuedTokens
<1>5. TokensSealed'
  <2> SUFFICES ASSUME NEW u \in issued'
               PROVE  /\ u.body.content.aad = u.header
                      /\ u.body.content.cek.kind # "secret" => u.body.content.cek.enc = u.body.content.enc
                      /\ u.body.content.cek.kind # "random" => Sealed(u.body.content.cek.mat, u.body.content.payload)'
                      /\ u.body.content.cek.kind = "random" => u.body.content.cek.n <= made'
                      /\ \A i \in DOMAIN u.recipients :
                             u.recipients[i].ek # None =>
                                 /\ u.recipients[i].ek \in WrappedKeys
                                 /\ u.recipients[i].ek.cek.kind = "random"
                                 /\ u.recipients[i].ek.cek.n <= made'
    BY DEF TokensSealed
  <2>1. CASE u = t
    BY <2>1, <1>1, <1>2, <1>3
  <2>2. CASE u \in issued
    <3>1. u.body.content.cek \in CEKs
      BY <2>2, <1>1 DEF IssuedTokens, Bodies, Ciphertexts
    <3>2. \A c \in CEKs : c.n <= made => c.n <= made'
      BY <1>1 DEF CEKs, Tokens
    <3>3. \A w \in WrappedKeys : w.cek \in CEKs
      BY DEF WrappedKeys
    <3> QED
      BY <2>2, <1>3, <3>1, <3>2, <3>3 DEF IInv, TokensSealed
  <2> QED
    BY <2>1, <2>2
<1>6. WrappedForReaders'
  <2> SUFFICES ASSUME NEW u \in issued', NEW v \in issued', NEW i \in DOMAIN u.recipients,
                      u.recipients[i].ek # None, u.recipients[i].ek.cek = v.body.content.cek
               PROVE  Sealed(u.recipients[i].ek.mat, v.body.content.payload)'
    BY DEF WrappedForReaders
  <2>1. CASE u \in issued /\ v \in issued
    BY <2>1, <1>3 DEF IInv, WrappedForReaders
  <2>2. CASE u = t /\ v = t
    BY <2>2, <1>2, <1>3
  <2>3. CASE u = t /\ v \in issued
    <3>1. v.body.content.cek.kind = "random" /\ v.body.content.cek.n = made + 1
      BY <2>3, <1>2
    <3>2. v.body.content.cek.n <= made
      BY <2>3, <3>1 DEF IInv, TokensSealed
    <3> QED
      BY <1>1, <3>1, <3>2
  <2>4. CASE u \in issued /\ v = t
    <3>1. u.recipients[i].ek.cek.kind = "random" /\ u.recipients[i].ek.cek.n <= made
      BY <2>4 DEF IInv, TokensSealed
    <3>2. u.recipients[i].ek.cek.n = made + 1
      BY <2>4, <3>1, <1>2
    <3> QED
      BY <1>1, <3>1, <3>2
  <2> QED
    BY <2>1, <2>2, <2>3, <2>4
<1>7. HeldFromCirculation'
  <2>1. CASE jwe' = None
    BY <2>1 DEF HeldFromCirculation
  <2>2. CASE jwe' = t
    <3>1. t \in issued'
      OBVIOUS
    <3>2. ASSUME NEW i \in DOMAIN t.recipients
          PROVE  Circulates(t.recipients[i].ek)'
      BY <3>1 DEF Circulates, FormOf
    <3>3. ContentKnown(t.body)'
      BY <3>1 DEF ContentKnown
    <3> QED
      BY <2>2, <3>2, <3>3 DEF HeldFromCirculation
  <2> QED
    BY <2>1, <2>2
<1>8. (ring \in KeyRings)'
  BY DEF IInv
<1> QED
  BY <1>4, <1>5, <1>6, <1>7, <1>8, NoCallInv DEF IInv

-----------------------------------------------------------------------------
(* Every action preserves the invariant. *)

LEMMA EncryptInv ==
    ASSUME IInv, NEW s \in Slots, NEW kea \in KeyAlgorithms, NEW enc \in ContentAlgorithms,
           NEW p \in Payloads, Encrypt(s, kea, enc, p)
    PROVE  IInv'
<1> DEFINE t == OwnToken(kea, enc, ring[s], made + 1, p)
<1>1. kea \in KEAs /\ enc \in CEAs
  BY ProgramAssumption
<1>2. /\ ring[s] # None /\ KeyServes(kea, ring[s]) /\ made < MaxTokens
      /\ issued' = issued \union {t} /\ jwe' = t
      /\ sent' = sent \union {[mat |-> ring[s].mat, payload |-> p]}
      /\ made' = made + 1 /\ call' = NoCall /\ ring' = ring
  BY DEF Encrypt, CanMake
<1>3. made + 1 \in Tokens
  BY <1>2, SizeAssumption DEF IInv, TypeOK, Tokens
<1>4. ring[s].mat \in Materials /\ (kea = "ECDH-ES" => ring[s].crv \in Curves)
  BY <1>1, <1>2, RingKeys, ServingKey
<1>5. WellMade(t, made + 1, {ring[s].mat}, p)
  BY <1>1, <1>2, <1>3, <1>4, RingKeys, OwnTokenWellMade
<1>6. {[mat |-> m, payload |-> p] : m \in {ring[s].mat}} = {[mat |-> ring[s].mat, payload |-> p]}
  OBVIOUS
<1>. HIDE DEF t
<1> QED
  BY <1>2, <1>4, <1>5, <1>6, TokenInv

\* Another producer's token preserves the invariant.
LEMMA ReceiveInv ==
    ASSUME IInv, NEW t, NEW mats, NEW p \in Payloads, mats \subseteq Materials,
           WellMade(t, made + 1, mats, p), Receive(t, mats, p)
    PROVE  IInv'
<1>1. /\ made < MaxTokens
      /\ issued' = issued \union {t} /\ jwe' = None
      /\ sent' = sent \union {[mat |-> m, payload |-> p] : m \in mats}
      /\ made' = made + 1 /\ call' = NoCall /\ ring' = ring
  BY DEF Receive, CanMake
<1> QED
  BY <1>1, TokenInv

LEMMA ReceiveWrappedInv ==
    ASSUME IInv, NEW slots \in Addressees, NEW kea \in KeyAlgorithms,
           NEW enc \in ContentAlgorithms, NEW p \in Payloads, ReceiveWrapped(slots, kea, enc, p)
    PROVE  IInv'
<1> DEFINE keys == [i \in DOMAIN slots |-> ring[slots[i]]]
           t    == ForeignWrapped(kea, enc, keys, made + 1, p)
           mats == {ring[slots[i]].mat : i \in DOMAIN slots}
<1>1. kea \in KEAs /\ enc \in CEAs /\ RequiresWrappedKey(kea)
  BY ProgramAssumption DEF ReceiveWrapped
<1>2. slots \in Seq(Slots)
  <2>1. PICK m \in 0..2 : slots \in [1..m -> Slots]
    BY DEF Addressees, BoundedSeq, SeqOf
  <2> QED
    BY <2>1
<1>3. ASSUME NEW i \in DOMAIN slots
      PROVE  ring[slots[i]] \in JWKs /\ ring[slots[i]].mat \in Materials
  <2>1. slots[i] \in Slots
    BY <1>2
  <2>2. ring[slots[i]] # None /\ KeyServes(kea, ring[slots[i]])
    BY DEF ReceiveWrapped
  <2> QED
    BY <1>1, <2>1, <2>2, RingKeys, ServingKey
<1>4. keys \in Seq(JWKs) /\ DOMAIN keys = DOMAIN slots
  BY <1>2, <1>3
<1>5. \A i \in DOMAIN keys : keys[i].mat \in Materials
  BY <1>3
<1>6. mats = {keys[i].mat : i \in DOMAIN keys} /\ mats \subseteq Materials
  BY <1>3
<1>7. Receive(t, mats, p)
  BY DEF ReceiveWrapped
<1>. HIDE DEF keys, mats
<1>8. made + 1 \in Tokens
  BY <1>7, SizeAssumption DEF Receive, CanMake, IInv, TypeOK, Tokens
<1>9. WellMade(t, made + 1, mats, p)
  BY <1>1, <1>4, <1>5, <1>6, <1>8, ForeignWrappedWellMade
<1>. HIDE DEF t
<1> QED
  BY <1>6, <1>7, <1>9, ReceiveInv

LEMMA ReceiveAgreedInv ==
    ASSUME IInv, NEW s \in Slots, NEW enc \in ContentAlgorithms, NEW minimal \in Minimal,
           NEW p \in Payloads, ReceiveAgreed(s, enc, minimal, p)
    PROVE  IInv'
<1> DEFINE t == ForeignAgreed(enc, ring[s], made + 1, minimal, p)
<1>1. enc \in CEAs /\ minimal \in BOOLEAN
  BY ProgramAssumption
<1>2. /\ ring[s] # None /\ ring[s].kty = "EC"
      /\ Receive(t, {ring[s].mat}, p)
  BY DEF ReceiveAgreed
<1>3. ring[s] \in JWKs /\ ring[s].mat \in Materials /\ ring[s].crv \in Curves
  BY <1>2, RingKeys DEF JWKs, Curves
<1>4. made + 1 \in Tokens
  BY <1>2, SizeAssumption DEF Receive, CanMake, IInv, TypeOK, Tokens
<1>5. WellMade(t, made + 1, {ring[s].mat}, p)
  BY <1>1, <1>3, <1>4, ForeignAgreedWellMade
<1>. HIDE DEF t
<1> QED
  BY <1>2, <1>3, <1>5, ReceiveInv

\* Loading a document, or letting go of the object, brings nothing into
\* circulation.
LEMMA HeldInv ==
    ASSUME IInv, UNCHANGED <<ring, made, sent, issued>>, call' = NoCall,
           (jwe \in Objects \union {None})', HeldFromCirculation'
    PROVE  IInv'
<1>1. TypeOK'
  BY NoCallInv DEF IInv, TypeOK
<1>2. (ring \in KeyRings)' /\ TokensSealed' /\ WrappedForReaders'
  BY DEF IInv, TokensSealed, WrappedForReaders, Sealed
<1> QED
  BY <1>1, <1>2, NoCallInv DEF IInv

LEMMA LoadInv ==
    ASSUME IInv, NEW doc \in Documents, Load(doc)
    PROVE  IInv'
<1>1. /\ UNCHANGED <<ring, made, sent, issued>> /\ call' = NoCall
      /\ jwe' = IF Parses(doc) THEN ParsedObject(doc) ELSE None
  BY DEF Load
<1>2. issued \subseteq IssuedTokens
  BY DEF IInv, TypeOK, IssuedTokens
<1>3. CASE Parses(doc)
  <2> DEFINE obj == ParsedObject(doc)
  <2>1. /\ obj \in Objects
        /\ ContentKnown(obj.body)
        /\ \A i \in DOMAIN obj.recipients :
               obj.recipients[i].ek \in {None, Tampered} \/ Circulates(obj.recipients[i].ek)
    BY <1>2, <1>3, ParsedType
  <2>2. /\ \A ek : Circulates(ek) => Circulates(ek)'
        /\ ContentKnown(obj.body) => ContentKnown(obj.body)'
    BY <1>1 DEF Circulates, ContentKnown
  <2>3. jwe' = obj
    BY <1>1, <1>3
  <2>. HIDE DEF obj
  <2>4. HeldFromCirculation'
    BY <1>1, <2>1, <2>2, <2>3 DEF HeldFromCirculation
  <2> QED
    BY <1>1, <2>1, <2>3, <2>4, HeldInv
<1>4. CASE ~Parses(doc)
  <2>1. jwe' = None
    BY <1>1, <1>4
  <2> QED
    BY <1>1, <2>1, HeldInv DEF HeldFromCirculation
<1> QED
  BY <1>3, <1>4

LEMMA ReleaseInv ==
    ASSUME IInv, Release
    PROVE  IInv'
BY HeldInv DEF Release, HeldFromCirculation

\* The steps of decrypt() change its locals only.
LEMMA DecryptFrame ==
    ASSUME IInv, UNCHANGED <<ring, made, sent, issued, jwe>>,
           call' \in Calls, ArgumentsHeld', OnlyRecipientsRead', BoundToHeader'
    PROVE  IInv'
<1>1. TypeOK'
  BY DEF IInv, TypeOK
<1>2. /\ (ring \in KeyRings)' /\ TokensSealed' /\ WrappedForReaders' /\ HeldFromCirculation'
  BY DEF IInv, TokensSealed, WrappedForReaders, Sealed, HeldFromCirculation, Circulates,
      ContentKnown
<1> QED
  BY <1>1, <1>2 DEF IInv

LEMMA StartDecryptInv ==
    ASSUME IInv, NEW s \in Slots, StartDecrypt(s)
    PROVE  IInv'
<1>1. /\ call' \in Calls /\ call'.pc = "loop" /\ call'.slot = s
      /\ jwe # None /\ ring[s] # None
      /\ UNCHANGED <<ring, made, sent, issued, jwe>>
  <2>1. call' = [pc |-> "loop", slot |-> s, i |-> 1, faulty |-> FALSE, result |-> None]
    BY DEF StartDecrypt, NoCall
  <2>2. call' \in Calls
    BY <2>1 DEF Calls
  <2> QED
    BY <2>1, <2>2 DEF StartDecrypt
<1> QED
  BY <1>1, DecryptFrame DEF ArgumentsHeld, OnlyRecipientsRead, BoundToHeader

\* A CEK that is not shared is always measured.
LEMMA MadeCEKMeasured ==
    ASSUME NEW cek \in CEKs, cek.kind # "secret", NEW enc \in CEAs, cek.enc = enc
    PROVE  Measured(cek, enc)
<1>1. Octets(cek) = ContentKeySize(enc)
  BY DEF Octets, CEKs
<1>2. ContentKeySize(enc) \in Nat
  BY DEF ContentKeySize
<1> QED
  BY <1>1, <1>2 DEF Measured, Short

\* What a decryption yields, whatever the tag, is None, Corrupt, or the payload of
\* what was encrypted with the CEK.
LEMMA OutcomeKinds ==
    ASSUME NEW enc, NEW cek, NEW aad, NEW body,
           NEW r \in DecryptOutcomes(enc, cek, aad, body), r # None
    PROVE  /\ \/ MadeWith(body, cek, enc) /\ r = body.content.payload
              \/ r = Corrupt /\ Misread(enc, cek, body)
           /\ "tag" \notin body.odd => MadeWith(body, cek, enc) /\ body.content.aad = aad
BY DEF DecryptOutcomes

\* A CEK that is unwrapped is the wrapped one, or nobody's.
LEMMA UnwrapKinds ==
    ASSUME NEW kea, NEW key, NEW ek, NEW gcm,
           NEW cek \in UnwrapOutcomes(kea, key, ek, gcm), cek # None
    PROVE  /\ hasPrivateKey(key)
           /\ \/ cek = JunkCEK
              \/ ek \notin {None, Tampered} /\ ek.mat = key.mat /\ cek = ek.cek
<1>1. CASE kea \in GCMWraps
  BY <1>1 DEF UnwrapOutcomes, GCMUnwraps, Fits
<1>2. CASE kea \notin GCMWraps
  BY <1>2 DEF UnwrapOutcomes, PlainUnwraps, Fits
<1> QED
  BY <1>1, <1>2

\* What one recipient entry yields belongs to a key with its private half, and is
\* sealed for its material if anybody encrypted it with that CEK.
LEMMA EntryGenuine ==
    ASSUME IInv, call.pc = "loop", call.i <= Len(jwe.recipients),
           NEW cek \in RecipientCEKs(jwe.header, jwe.recipients[call.i], Key), cek # None
    PROVE  /\ hasPrivateKey(Key)
           /\ \A t \in issued : t.body.content.cek = cek => Sealed(Key.mat, t.body.content.payload)
<1> DEFINE rec == jwe.recipients[call.i]
<1>1. /\ jwe \in Objects /\ jwe # None /\ call \in Calls /\ call.slot \in Slots /\ Key # None
      /\ issued \subseteq IssuedTokens
  BY DEF IInv, TypeOK, ArgumentsHeld, Key, IssuedTokens
<1>2. call.i \in DOMAIN jwe.recipients
  BY <1>1 DEF Objects, Calls
<1>3. Key.mat # None /\ Key.kty = "oct" => hasPrivateKey(Key)
  BY <1>1, RingKeys DEF Key
<1>4. \A t \in issued :
          /\ t.body.content.cek \in CEKs
          /\ t.body.content.cek.kind # "random" =>
                 Sealed(t.body.content.cek.mat, t.body.content.payload)
  BY <1>1 DEF IInv, TokensSealed, IssuedTokens, Bodies, Ciphertexts
<1>5. rec.ek \in {None, Tampered} \/ Circulates(rec.ek)
  BY <1>1, <1>2 DEF IInv, HeldFromCirculation
<1>. HIDE DEF rec
<1>6. CASE jwe.header.kea = "dir"
  <2>1. KeyServes("dir", Key) /\ cek = SecretCEK(Key.mat)
    BY <1>6 DEF RecipientCEKs
  <2>2. Key.kty = "oct" /\ Key.mat # None
    BY <2>1 DEF KeyServes, RSAWraps, AESWraps, GCMWraps
  <2>3. cek.kind = "secret" /\ cek.mat = Key.mat
    BY <2>1 DEF SecretCEK
  <2> QED
    BY <1>3, <1>4, <2>2, <2>3
<1>7. CASE jwe.header.kea = "ECDH-ES"
  <2>1. PICK n : hasPrivateKey(Key) /\ cek = AgreedCEK(Key.mat, n, jwe.header.enc)
    BY <1>7 DEF RecipientCEKs, Agrees
  <2>2. cek.kind = "agreed" /\ cek.mat = Key.mat
    BY <2>1 DEF AgreedCEK
  <2> QED
    BY <1>4, <2>1, <2>2
<1>8. CASE jwe.header.kea \notin {"dir", "ECDH-ES"}
  <2>1. /\ hasPrivateKey(Key)
        /\ cek = JunkCEK \/ (/\ rec.ek \notin {None, Tampered} /\ rec.ek.mat = Key.mat
                             /\ cek = rec.ek.cek)
    <3>1. PICK gcm : cek \in UnwrapOutcomes(jwe.header.kea, Key, rec.ek, gcm)
      BY <1>8 DEF RecipientCEKs, rec
    <3> QED
      BY <3>1, UnwrapKinds
  <2>2. CASE cek = JunkCEK
    BY <1>4, <2>1, <2>2, CEKAssumption
  <2>3. CASE /\ rec.ek \notin {None, Tampered} /\ rec.ek.mat = Key.mat
             /\ cek = rec.ek.cek
    <3>1. PICK u \in issued : \E k \in DOMAIN u.recipients : FormOf(rec.ek, u.recipients[k].ek)
      BY <1>5, <2>3 DEF Circulates
    <3>2. PICK k \in DOMAIN u.recipients : FormOf(rec.ek, u.recipients[k].ek)
      BY <3>1
    <3> DEFINE w == u.recipients[k].ek
    <3>3. w # None /\ w \in WrappedKeys
      BY <2>3, <3>1, <3>2 DEF FormOf, IInv, TokensSealed
    <3>4. w.mat = rec.ek.mat /\ w.cek = rec.ek.cek
      BY <3>2, <3>3, InlineType DEF FormOf
    <3>5. \A t \in issued : w.cek = t.body.content.cek => Sealed(w.mat, t.body.content.payload)
      BY <3>1, <3>2, <3>3 DEF IInv, WrappedForReaders
    <3> QED
      BY <2>1, <2>3, <3>4, <3>5
  <2> QED
    BY <2>1, <2>2, <2>3
<1> QED
  BY <1>6, <1>7, <1>8

\* A plaintext that an iteration yields was sealed for the material of the key,
\* which has its private half, or is Corrupt and of a content that is not whole;
\* and unless the tag is short, it comes of the content that was encrypted under
\* the object's protected header.
LEMMA OutcomeGenuine ==
    ASSUME IInv, call.pc = "loop", call.i <= Len(jwe.recipients),
           NEW r \in RecipientOutcomes(jwe, jwe.recipients[call.i], Key), r # None
    PROVE  /\ r \in Payloads \union {Corrupt}
           /\ hasPrivateKey(Key)
           /\ r # Corrupt => Sealed(Key.mat, r)
           /\ Whole(jwe) => r # Corrupt
           /\ "tag" \notin jwe.body.odd =>
                  \E t \in issued : t.header = jwe.header /\ t.body.content = jwe.body.content
<1> DEFINE enc == jwe.header.enc
<1>1. PICK cek \in RecipientCEKs(jwe.header, jwe.recipients[call.i], Key) :
          cek # None /\ r \in DecryptOutcomes(enc, cek, jwe.header, jwe.body)
  BY DEF RecipientOutcomes
<1>2. /\ hasPrivateKey(Key)
      /\ \A t \in issued : t.body.content.cek = cek => Sealed(Key.mat, t.body.content.payload)
  BY <1>1, EntryGenuine
<1>3. /\ \/ MadeWith(jwe.body, cek, enc) /\ r = jwe.body.content.payload
         \/ r = Corrupt /\ Misread(enc, cek, jwe.body)
      /\ "tag" \notin jwe.body.odd =>
             MadeWith(jwe.body, cek, enc) /\ jwe.body.content.aad = jwe.header
  BY <1>1, OutcomeKinds
<1>4. MadeWith(jwe.body, cek, enc) =>
          \E t \in issued : t.body.content = jwe.body.content /\ t.body.content.cek = cek
  BY TextAssumption DEF MadeWith, IInv, ArgumentsHeld, HeldFromCirculation, ContentKnown
<1>5. \A t \in issued : t.body.content.aad = t.header /\ t.body.content.payload \in Payloads
  BY DEF IInv, TypeOK, TokensSealed, Bodies, Ciphertexts
<1>6. "tag" \notin jwe.body.odd =>
          \E t \in issued : t.header = jwe.header /\ t.body.content = jwe.body.content
  BY <1>3, <1>4, <1>5
<1>7. CASE MadeWith(jwe.body, cek, enc) /\ r = jwe.body.content.payload
  <2>1. r \in Payloads /\ Sealed(Key.mat, r)
    BY <1>2, <1>4, <1>5, <1>7
  <2> QED
    BY <1>2, <1>6, <2>1, CEKAssumption
<1>8. CASE r = Corrupt /\ Misread(enc, cek, jwe.body)
  <2>1. ~Whole(jwe)
    BY <1>8 DEF Misread, Whole
  <2> QED
    BY <1>2, <1>6, <1>8, <2>1
<1> QED
  BY <1>3, <1>7, <1>8

LEMMA TryRecipientInv ==
    ASSUME IInv, NEW fault \in BOOLEAN, TryRecipient(fault)
    PROVE  IInv'
<1>1. /\ call.pc = "loop" /\ call \in Calls /\ call.i <= Len(jwe.recipients)
      /\ jwe # None /\ call.slot \in Slots /\ ring[call.slot] # None
      /\ UNCHANGED <<ring, made, sent, issued, jwe>>
  BY DEF TryRecipient, IInv, TypeOK, ArgumentsHeld
<1>2. PICK r \in IF fault THEN {None} ELSE RecipientOutcomes(jwe, jwe.recipients[call.i], Key) :
          call' = IF r = None
                  THEN [Continued(call) EXCEPT !.faulty = @ \/ fault]
                  ELSE [call EXCEPT !.pc = "returned", !.result = r]
  BY DEF TryRecipient
<1>3. CASE r = None
  <2>1. call' = [[call EXCEPT !.i = @ + 1] EXCEPT !.faulty = @ \/ fault]
    BY <1>2, <1>3 DEF Continued
  <2>2. (call.faulty \/ fault) \in BOOLEAN /\ call.i + 1 \in Nat \ {0}
    BY <1>1 DEF Calls
  <2>3. call' = [pc |-> "loop", slot |-> call.slot, i |-> call.i + 1,
                 faulty |-> call.faulty \/ fault, result |-> call.result]
    BY <1>1, <2>1 DEF Calls
  <2>4. call' \in Calls /\ call'.pc = "loop" /\ call'.slot = call.slot
    BY <1>1, <2>2, <2>3 DEF Calls
  <2> QED
    BY <1>1, <2>4, DecryptFrame DEF ArgumentsHeld, OnlyRecipientsRead, BoundToHeader
<1>4. CASE r # None
  <2>1. r \in RecipientOutcomes(jwe, jwe.recipients[call.i], Key)
    BY <1>4
  <2>2. /\ r \in Payloads \union {Corrupt}
        /\ hasPrivateKey(Key)
        /\ r # Corrupt => Sealed(Key.mat, r)
        /\ Whole(jwe) => r # Corrupt
        /\ "tag" \notin jwe.body.odd =>
               \E t \in issued : t.header = jwe.header /\ t.body.content = jwe.body.content
    BY <1>1, <1>4, <2>1, OutcomeGenuine
  <2>3. call' \in Calls /\ call'.slot = call.slot /\ call'.result = r
    BY <1>1, <1>2, <1>4, <2>2 DEF Calls
  <2>4. Key' = Key
    BY <1>1, <2>3 DEF Key
  <2>5. ArgumentsHeld' /\ BoundToHeader'
    BY <1>1, <2>2, <2>3 DEF ArgumentsHeld, BoundToHeader
  <2>6. OnlyRecipientsRead'
    BY <1>1, <2>2, <2>3, <2>4 DEF OnlyRecipientsRead, Sealed, Whole
  <2> QED
    BY <1>1, <2>3, <2>5, <2>6, DecryptFrame
<1> QED
  BY <1>3, <1>4

LEMMA ExhaustedInv ==
    ASSUME IInv, Exhausted
    PROVE  IInv'
<1>1. /\ call \in Calls /\ jwe # None /\ call.slot \in Slots /\ ring[call.slot] # None
      /\ UNCHANGED <<ring, made, sent, issued, jwe>>
      /\ call' = [call EXCEPT !.pc = "threw"]
  BY DEF Exhausted, IInv, TypeOK, ArgumentsHeld
<1>2. call' \in Calls /\ call'.pc = "threw" /\ call'.slot = call.slot
  BY <1>1 DEF Calls
<1> QED
  BY <1>1, <1>2, DecryptFrame DEF ArgumentsHeld, OnlyRecipientsRead, BoundToHeader

LEMMA NextInv == IInv /\ [Next]_vars => IInv'
<1> SUFFICES ASSUME IInv, [Next]_vars PROVE IInv'
  OBVIOUS
<1>1. ASSUME NEW s \in Slots, NEW kea \in KeyAlgorithms, NEW enc \in ContentAlgorithms,
             NEW p \in Payloads, Encrypt(s, kea, enc, p)
      PROVE  IInv'
  BY <1>1, EncryptInv
<1>2. ASSUME NEW slots \in Addressees, NEW kea \in KeyAlgorithms, NEW enc \in ContentAlgorithms,
             NEW p \in Payloads, ReceiveWrapped(slots, kea, enc, p)
      PROVE  IInv'
  BY <1>2, ReceiveWrappedInv
<1>3. ASSUME NEW s \in Slots, NEW enc \in ContentAlgorithms, NEW minimal \in Minimal,
             NEW p \in Payloads, ReceiveAgreed(s, enc, minimal, p)
      PROVE  IInv'
  BY <1>3, ReceiveAgreedInv
<1>4. ASSUME NEW doc \in Documents, Load(doc) PROVE IInv'
  BY <1>4, LoadInv
<1>5. CASE Release
  BY <1>5, ReleaseInv
<1>6. ASSUME NEW s \in Slots, StartDecrypt(s) PROVE IInv'
  BY <1>6, StartDecryptInv
<1>7. ASSUME NEW fault \in BOOLEAN, TryRecipient(fault) PROVE IInv'
  BY <1>7, TryRecipientInv
<1>8. CASE Exhausted
  BY <1>8, ExhaustedInv
<1>9. CASE UNCHANGED vars
  BY <1>9 DEF vars, IInv, TypeOK, TokensSealed, WrappedForReaders, Sealed, HeldFromCirculation,
              Circulates, ContentKnown, ArgumentsHeld, OnlyRecipientsRead, BoundToHeader, Key
<1> QED
  BY <1>1, <1>2, <1>3, <1>4, <1>5, <1>6, <1>7, <1>8, <1>9 DEF Next, DecryptStep

-----------------------------------------------------------------------------
(* The theorems. *)

\* The inductive invariant holds in every reachable state.
THEOREM Invariance == Spec => []IInv
BY InitInv, NextInv, PTL DEF Spec

\* Every variable keeps its type, the locals of decrypt() included.
THEOREM TypeCorrect == Spec => []TypeOK
BY Invariance, PTL DEF IInv

\* decrypt() returns only to a private half, and only what was encrypted to its
\* material or, if the tag or CBC's IV is not of the algorithm's length, what nobody
\* encrypted: for every recombination of the parts of tokens, and any lengths.
THEOREM Confidentiality == Spec => []OnlyRecipientsRead
BY Invariance, PTL DEF IInv

\* Unless the tag is short, decrypt() returns only under the protected header that
\* the content was made with.
THEOREM HeaderAuthenticity == Spec => []BoundToHeader
BY Invariance, PTL DEF IInv

\* A step after which nothing has been received, and that sends nothing, is a
\* Drop of the channel.
LEMMA DropStep ==
    ASSUME UNCHANGED sent, call'.pc # "returned"
    PROVE  Channel!Next
<1>1. Received' = None
  BY DEF Received
<1>2. EnvelopeWhole' \in BOOLEAN
  BY DEF EnvelopeWhole
<1>3. Channel!Drop
  BY <1>1, <1>2 DEF Channel!Drop, SentPairs
<1> QED
  BY <1>3 DEF Channel!Next

\* A token put in circulation is a Seal of the channel.
LEMMA SealStep ==
    ASSUME NEW mats \in SUBSET Materials, NEW p \in Payloads, call' = NoCall,
           sent' = sent \union {[mat |-> m, payload |-> p] : m \in mats}
    PROVE  Channel!Next
<1>1. Received' = None /\ EnvelopeWhole' \in BOOLEAN
  BY DEF Received, NoCall, EnvelopeWhole
<1>2. SentPairs' = SentPairs \union (mats \X {p})
  <2>1. ASSUME NEW x \in SentPairs' PROVE x \in SentPairs \union (mats \X {p})
    BY <2>1 DEF SentPairs
  <2>2. ASSUME NEW x \in SentPairs PROVE x \in SentPairs'
    BY <2>2 DEF SentPairs
  <2>3. ASSUME NEW x \in mats \X {p} PROVE x \in SentPairs'
    <3>1. PICK m \in mats : x = <<m, p>>
      OBVIOUS
    <3>2. [mat |-> m, payload |-> p] \in sent'
      OBVIOUS
    <3> QED
      BY <3>1, <3>2 DEF SentPairs
  <2> QED
    BY <2>1, <2>2, <2>3
<1> QED
  BY <1>1, <1>2 DEF Channel!Next, Channel!Seal

\* An iteration of decrypt() is an Open of the channel if it returns a plaintext
\* somebody encrypted, a misreading if it returns another, and a Drop otherwise.
LEMMA TryStep ==
    ASSUME IInv, IInv', NEW fault \in BOOLEAN, TryRecipient(fault)
    PROVE  Channel!Next
<1>1. UNCHANGED <<sent, jwe>> /\ jwe # None
  BY DEF TryRecipient, IInv, ArgumentsHeld
<1>2. UNCHANGED EnvelopeWhole
  BY <1>1 DEF EnvelopeWhole, Whole
<1>3. CASE call'.pc # "returned"
  BY <1>1, <1>3, DropStep
<1>4. CASE call'.pc = "returned" /\ call'.result = Corrupt
  <2>1. ~EnvelopeWhole
    BY <1>1, <1>2, <1>4 DEF IInv, OnlyRecipientsRead, EnvelopeWhole
  <2>2. Received' = Corrupt
    BY <1>4 DEF Received
  <2>3. Channel!MisreadEnvelope
    BY <1>1, <1>2, <2>1, <2>2 DEF Channel!MisreadEnvelope, SentPairs
  <2> QED
    BY <2>3 DEF Channel!Next
<1>5. CASE call'.pc = "returned" /\ call'.result # Corrupt
  <2>1. ([mat |-> Key.mat, payload |-> call.result] \in sent)'
    BY <1>5 DEF IInv, OnlyRecipientsRead
  <2>2. PICK f \in sent : f.mat = Key'.mat /\ f.payload = call'.result
    BY <1>1, <2>1
  <2>3. f.mat \in Materials /\ f.payload \in Payloads
    BY DEF IInv, TypeOK
  <2>4. <<f.mat, f.payload>> \in SentPairs
    BY DEF SentPairs
  <2>5. Received' = <<f.mat, f.payload>>
    BY <1>5, <2>2 DEF Received
  <2>6. Channel!Open(f.mat, f.payload)
    BY <1>1, <1>2, <2>4, <2>5 DEF Channel!Open, SentPairs
  <2> QED
    BY <2>3, <2>6 DEF Channel!Next
<1> QED
  BY <1>3, <1>4, <1>5

\* The library keeps the promise of the abstract channel: every step of it is a
\* step of the channel or leaves what is sealed, at hand and opened alone.
THEOREM Implementation == Spec => ImplementsChannel
<1>1. Init => Channel!Init
  <2>1. ASSUME Init PROVE call.pc # "returned" /\ sent = {} /\ jwe = None
    BY <2>1 DEF Init, NoCall
  <2> QED
    BY <2>1 DEF Channel!Init, SentPairs, Received, EnvelopeWhole
<1>2. IInv /\ IInv' /\ [Next]_vars => [Channel!Next]_<<SentPairs, EnvelopeWhole, Received>>
  <2> SUFFICES ASSUME IInv, IInv', [Next]_vars
               PROVE  Channel!Next \/ UNCHANGED <<SentPairs, EnvelopeWhole, Received>>
    OBVIOUS
  <2>1. ASSUME NEW s \in Slots, NEW kea \in KeyAlgorithms, NEW enc \in ContentAlgorithms,
               NEW p \in Payloads, Encrypt(s, kea, enc, p)
        PROVE  Channel!Next
    <3>1. /\ sent' = sent \union {[mat |-> m, payload |-> p] : m \in {ring[s].mat}}
          /\ call' = NoCall /\ ring[s] # None /\ KeyServes(kea, ring[s])
      BY <2>1 DEF Encrypt
    <3>2. ring[s].mat \in Materials
      BY <3>1, RingKeys, ServingKey, ProgramAssumption
    <3> QED
      BY <3>1, <3>2, SealStep
  <2>2. ASSUME NEW slots \in Addressees, NEW kea \in KeyAlgorithms,
               NEW enc \in ContentAlgorithms, NEW p \in Payloads,
               ReceiveWrapped(slots, kea, enc, p)
        PROVE  Channel!Next
    <3> DEFINE mats == {ring[slots[i]].mat : i \in DOMAIN slots}
    <3>1. /\ sent' = sent \union {[mat |-> m, payload |-> p] : m \in mats}
          /\ call' = NoCall
      BY <2>2 DEF ReceiveWrapped, Receive
    <3>2. mats \subseteq Materials
      <4> SUFFICES ASSUME NEW i \in DOMAIN slots PROVE ring[slots[i]].mat \in Materials
        OBVIOUS
      <4>1. slots[i] \in Slots
        BY DEF Addressees, BoundedSeq, SeqOf
      <4>2. ring[slots[i]] # None /\ KeyServes(kea, ring[slots[i]])
        BY <2>2 DEF ReceiveWrapped
      <4> QED
        BY <4>1, <4>2, RingKeys, ServingKey, ProgramAssumption
    <3>. HIDE DEF mats
    <3> QED
      BY <3>1, <3>2, SealStep
  <2>3. ASSUME NEW s \in Slots, NEW enc \in ContentAlgorithms, NEW minimal \in Minimal,
               NEW p \in Payloads, ReceiveAgreed(s, enc, minimal, p)
        PROVE  Channel!Next
    <3>1. /\ sent' = sent \union {[mat |-> m, payload |-> p] : m \in {ring[s].mat}}
          /\ call' = NoCall /\ ring[s] # None /\ ring[s].kty = "EC"
      BY <2>3 DEF ReceiveAgreed, Receive
    <3>2. ring[s].mat \in Materials
      BY <3>1, RingKeys DEF JWKs
    <3> QED
      BY <3>1, <3>2, SealStep
  <2>4. ASSUME UNCHANGED sent, call' = NoCall PROVE Channel!Next
    BY <2>4, DropStep DEF NoCall
  <2>5. ASSUME NEW doc \in Documents, Load(doc) PROVE Channel!Next
    BY <2>4, <2>5 DEF Load
  <2>6. CASE Release
    BY <2>4, <2>6 DEF Release
  <2>7. ASSUME NEW s \in Slots, StartDecrypt(s) PROVE Channel!Next
    BY <2>7, DropStep DEF StartDecrypt, NoCall
  <2>8. ASSUME NEW fault \in BOOLEAN, TryRecipient(fault) PROVE Channel!Next
    BY <2>8, TryStep
  <2>9. CASE Exhausted
    <3>1. call'.pc = "threw" /\ UNCHANGED sent
      BY <2>9 DEF Exhausted, IInv, TypeOK, Calls
    <3> QED
      BY <3>1, DropStep
  <2>10. CASE UNCHANGED vars
    BY <2>10 DEF vars, SentPairs, EnvelopeWhole, Whole, Received, Key
  <2> QED
    BY <2>1, <2>2, <2>3, <2>5, <2>6, <2>7, <2>8, <2>9, <2>10 DEF Next, DecryptStep
<1> QED
  BY <1>1, <1>2, Invariance, PTL
     DEF Spec, ImplementsChannel, Channel!Spec, SentPairs, EnvelopeWhole, Received

-----------------------------------------------------------------------------
(* What is parsed and what is tried: a second inductive invariant, on top of *)
(* IInv.                                                                    *)

\* Recipient r of token t is one for the key, with its ephemeral key complete.
MeantFor(t, r, key) ==
    IF r.ek # None THEN r.ek.mat = key.mat /\ (r.ek.scheme = "inline" => t.header.gcm = None)
    ELSE /\ t.body.content.cek.mat = key.mat
         /\ r.header # None /\ r.header.epk # None => r.header.epk.complete

\* A private half gets the CEK of a token out of every recipient meant for it.
OpensFor(t, key) ==
    \A r \in Entries(t) :
        MeantFor(t, r, key) => RecipientCEKs(t.header, r, key) = {t.body.content.cek}

\* Only "dir" takes a secret for the CEK, 'enc' is the content's, and lengths are
\* odd only for a CEK that is.
HeaderTrue(t) ==
    /\ t.body.content.enc = t.header.enc
    /\ t.body.content.cek.kind = "secret" => t.header.kea = "dir"
    /\ Measured(t.body.content.cek, t.body.content.enc) => t.body.odd = {}

\* Every token in circulation can be read by whom it is for.
TokensOpen ==
    \A t \in issued :
        /\ HeaderTrue(t)
        /\ \A s \in Slots : ring[s] # None /\ hasPrivateKey(ring[s]) => OpensFor(t, ring[s])

\* The object held would be accepted by a parser.
ObjectParses ==
    jwe # None =>
        /\ HeaderKnown(jwe.header)
        /\ Len(jwe.recipients) > 0
        /\ \A i \in DOMAIN jwe.recipients : RecipientParses(jwe.recipients[i], jwe.header)

\* What the loop has left behind could fail, and it throws only at its end.
PassedFailed ==
    /\ call.pc \in {"loop", "threw"} /\ ~call.faulty =>
           \A j \in DOMAIN jwe.recipients :
               j < call.i => None \in RecipientOutcomes(jwe, jwe.recipients[j], Key)
    /\ call.pc = "threw" => call.i > Len(jwe.recipients)

RInv == TokensOpen /\ ObjectParses /\ PassedFailed

\* Keys of one material serve the same algorithms and lie on the same curve.
LEMMA SameMaterial ==
    ASSUME IInv, NEW s \in Slots, NEW u \in Slots, ring[s] # None, ring[u] # None,
           ring[u].mat = ring[s].mat, ring[s].mat # None
    PROVE  /\ ring[u].kty = ring[s].kty /\ ring[u].crv = ring[s].crv
           /\ \A kea : KeyServes(kea, ring[s]) => KeyServes(kea, ring[u])
<1>1. ring[u].kty = ring[s].kty /\ ring[u].crv = ring[s].crv
  BY KeyAssumption DEF IInv
<1> QED
  BY <1>1 DEF KeyServes

\* The header of a new token is true of its content.
LEMMA HeadersTrue ==
    ASSUME NEW key, NEW keys, NEW kea, NEW enc, NEW n, NEW p, NEW minimal
    PROVE  /\ HeaderTrue(OwnToken(kea, enc, key, n, p))
           /\ HeaderTrue(ForeignWrapped(kea, enc, keys, n, p))
           /\ HeaderTrue(ForeignAgreed(enc, key, n, minimal, p))
<1>1. ASSUME NEW t, NEW cek, NEW h, cek.kind = "secret" => h.kea = "dir",
             t.header = h, t.body = Body(cek, h, p)
      PROVE  HeaderTrue(t)
  BY <1>1 DEF HeaderTrue, Body, Encrypted, Measured
<1>2. HeaderTrue(OwnToken(kea, enc, key, n, p))
  <2> DEFINE epk == IF kea = "ECDH-ES" THEN [n |-> n, crv |-> key.crv, complete |-> TRUE] ELSE None
             h   == Header(kea, enc, epk, GCMOf(kea, n, key.mat))
             cek == CASE kea = "dir" -> SecretCEK(key.mat)
                      [] kea = "ECDH-ES" -> AgreedCEK(key.mat, n, enc)
                      [] OTHER -> RandomCEK(n, enc)
             t   == OwnToken(kea, enc, key, n, p)
  <2>1. cek.kind = "secret" => h.kea = "dir"
    BY DEF AgreedCEK, RandomCEK, Header
  <2>2. t.header = h /\ t.body = Body(cek, h, p)
    BY DEF OwnToken
  <2>. HIDE DEF t, h, cek
  <2>3. HeaderTrue(t)
    BY <1>1, <2>1, <2>2
  <2> QED
    BY <2>3 DEF t
<1>3. HeaderTrue(ForeignWrapped(kea, enc, keys, n, p))
  <2> DEFINE h == Header(kea, enc, None, None)
             t == ForeignWrapped(kea, enc, keys, n, p)
  <2>1. t.header = h /\ t.body = Body(RandomCEK(n, enc), h, p)
    BY DEF ForeignWrapped
  <2>2. RandomCEK(n, enc).kind # "secret"
    BY DEF RandomCEK
  <2>. HIDE DEF t, h
  <2>3. HeaderTrue(t)
    BY <1>1, <2>1, <2>2
  <2> QED
    BY <2>3 DEF t
<1>4. HeaderTrue(ForeignAgreed(enc, key, n, minimal, p))
  <2> DEFINE h == Header("ECDH-ES", enc, None, None)
             t == ForeignAgreed(enc, key, n, minimal, p)
  <2>1. t.header = h /\ t.body = Body(AgreedCEK(key.mat, n, enc), h, p)
    BY DEF ForeignAgreed
  <2>2. AgreedCEK(key.mat, n, enc).kind # "secret"
    BY DEF AgreedCEK
  <2>. HIDE DEF t, h
  <2>3. HeaderTrue(t)
    BY <1>1, <2>1, <2>2
  <2> QED
    BY <2>3 DEF t
<1> QED
  BY <1>2, <1>3, <1>4

\* A wrapped key opens for a private copy of the key it was wrapped for, with the
\* parameters of its wrapping, or without any if it carries them.
LEMMA UnwrapsOwn ==
    ASSUME NEW kea, NEW key, NEW ek, NEW gcm, KeyServes(kea, key), hasPrivateKey(key),
           ek \notin {None, Tampered}, ek.scheme = Scheme(kea), ek.mat = key.mat,
           kea \in GCMWraps => gcm # None /\ Belongs(gcm, ek) /\ gcm.odd = {}
    PROVE  UnwrapOutcomes(kea, key, ek, gcm) = {ek.cek}
<1>1. CASE kea \in GCMWraps
  <2>1. Fits("GCMKW", key, ek)
    BY <1>1 DEF Fits, Scheme, GCMWraps, AESWraps
  <2> QED
    BY <1>1, <2>1 DEF UnwrapOutcomes, GCMUnwraps
<1>2. CASE kea \notin GCMWraps
  BY <1>2 DEF UnwrapOutcomes, PlainUnwraps, Fits
<1> QED
  BY <1>1, <1>2

LEMMA UnwrapsInline ==
    ASSUME NEW kea \in GCMWraps, NEW key, NEW ek, KeyServes(kea, key), hasPrivateKey(key),
           ek \notin {None, Tampered}, ek.scheme = "inline", ek.mat = key.mat
    PROVE  UnwrapOutcomes(kea, key, ek, None) = {ek.cek}
BY DEF UnwrapOutcomes, GCMUnwraps, Fits

\* The entries of a token with one recipient, and what an inline one is.
LEMMA SingleEntries ==
    ASSUME NEW t, NEW r, t.recipients = <<r>>
    PROVE  Entries(t) = {r} \union InlineEntries(r)
<1>1. ToSet(t.recipients) = {r}
  BY DEF ToSet
<1> QED
  BY <1>1 DEF Entries

LEMMA InlineEntry ==
    ASSUME NEW r, r.ek \in WrappedKeys \union {None}, NEW e \in InlineEntries(r)
    PROVE  /\ r.ek \in WrappedKeys /\ r.ek.scheme = "GCMKW"
           /\ e = [ek |-> Inline(r.ek), header |-> None]
           /\ e.ek \notin {None, Tampered} /\ e.ek.scheme = "inline"
           /\ e.ek.mat = r.ek.mat /\ e.ek.cek = r.ek.cek
<1>1. /\ r.ek \in WrappedKeys /\ r.ek.scheme = "GCMKW"
      /\ e = [ek |-> Inline(r.ek), header |-> None]
  BY DEF InlineEntries
<1> QED
  BY <1>1, InlineType, CEKAssumption

\* What encrypt() makes for a key is opened by every private copy of it.
LEMMA OwnTokenOpens ==
    ASSUME NEW key \in JWKs, NEW kea \in KEAs, NEW enc \in CEAs, NEW n \in Tokens,
           NEW p \in Payloads, key.mat \in Materials,
           NEW reader, hasPrivateKey(reader),
           reader.mat = key.mat => /\ KeyServes(kea, reader)
                                   /\ kea = "ECDH-ES" => /\ reader.crv = key.crv
                                                         /\ reader.crv \in ECCurves
    PROVE  OpensFor(OwnToken(kea, enc, key, n, p), reader)
<1> DEFINE epk == IF kea = "ECDH-ES" THEN [n |-> n, crv |-> key.crv, complete |-> TRUE] ELSE None
           gcm == GCMOf(kea, n, key.mat)
           h   == Header(kea, enc, epk, gcm)
           cek == CASE kea = "dir" -> SecretCEK(key.mat)
                    [] kea = "ECDH-ES" -> AgreedCEK(key.mat, n, enc)
                    [] OTHER -> RandomCEK(n, enc)
           ek  == IF RequiresWrappedKey(kea) THEN Wrap(kea, key.mat, cek) ELSE None
           r   == [ek |-> ek, header |-> None]
           t   == OwnToken(kea, enc, key, n, p)
<1>1. t = [header |-> h, recipients |-> <<r>>, body |-> Body(cek, h, p)]
  BY DEF OwnToken
<1>2. h.kea = kea /\ h.enc = enc /\ h.epk = epk /\ h.gcm = gcm
  BY DEF Header
<1>3. t.header = h /\ t.body.content.cek = cek /\ t.body.content.enc = enc /\ t.recipients = <<r>>
  BY <1>1, <1>2 DEF Body, Encrypted
<1>4. Effective(h, None) = [epk |-> epk, gcm |-> gcm]
  BY <1>2 DEF Effective
<1>5. kea \in GCMWraps => gcm # None
  <2>1. kea \in GCMWraps => gcm \in GCMParams
    BY DEF GCMOf, GCMParams, OddParts
  <2> QED
    BY <2>1, CEKAssumption
<1>6. MeantFor(t, r, reader) => RecipientCEKs(h, r, reader) = {cek}
  <2> SUFFICES ASSUME MeantFor(t, r, reader) PROVE RecipientCEKs(h, r, reader) = {cek}
    OBVIOUS
  <2>1. CASE kea = "dir"
    <3>1. ek = None /\ cek = SecretCEK(key.mat) /\ cek.mat = key.mat
      BY <2>1 DEF RequiresWrappedKey, SecretCEK
    <3>. HIDE DEF t, h, cek, ek
    <3>2. reader.mat = key.mat
      BY <1>3, <3>1 DEF MeantFor
    <3> QED
      BY <1>2, <2>1, <3>1, <3>2 DEF RecipientCEKs
  <2>2. CASE kea = "ECDH-ES"
    <3>1. ek = None /\ cek = AgreedCEK(key.mat, n, enc) /\ cek.mat = key.mat
      BY <2>2 DEF RequiresWrappedKey, AgreedCEK
    <3>2. epk = [n |-> n, crv |-> key.crv, complete |-> TRUE]
      BY <2>2
    <3>3. epk # None
      <4>1. reader.mat = key.mat
        <5>. HIDE DEF t, h, cek, ek, epk
        <5> QED
          BY <1>3, <3>1 DEF MeantFor
      <4>2. epk \in EphemeralKeys
        BY <3>2, <4>1, <2>2 DEF EphemeralKeys, Curves
      <4> QED
        BY <4>2, TextAssumption
    <3>. HIDE DEF t, h, cek, ek, epk
    <3>4. reader.mat = key.mat
      BY <1>3, <3>1 DEF MeantFor
    <3>5. Agrees(reader, epk) /\ epk.n = n
      BY <2>2, <3>2, <3>3, <3>4 DEF Agrees
    <3>6. Effective(h, r.header).epk = epk
      BY <1>4
    <3> QED
      BY <1>2, <2>2, <3>1, <3>4, <3>5, <3>6 DEF RecipientCEKs
  <2>3. CASE kea \notin {"dir", "ECDH-ES"}
    <3>1. RequiresWrappedKey(kea) /\ ek = Wrap(kea, key.mat, cek) /\ cek = RandomCEK(n, enc)
      BY <2>3 DEF RequiresWrappedKey
    <3>2. ek \in WrappedKeys /\ ek # None /\ ek # Tampered
      BY <3>1, WrapType, CEKAssumption, TextAssumption
    <3>3. ek.scheme = Scheme(kea) /\ ek.mat = key.mat /\ ek.cek = cek /\ cek.n = n
      BY <3>1 DEF Wrap, RandomCEK
    <3>4. kea \in GCMWraps => gcm # None /\ Belongs(gcm, ek) /\ gcm.odd = {}
      BY <1>5, <3>3 DEF GCMOf, Belongs
    <3>. HIDE DEF t, h, cek, ek, epk, gcm
    <3>5. reader.mat = key.mat
      BY <3>2, <3>3 DEF MeantFor
    <3>6. UnwrapOutcomes(kea, reader, ek, gcm) = {cek}
      BY <3>2, <3>3, <3>4, <3>5, UnwrapsOwn
    <3>7. Effective(h, r.header).gcm = gcm
      BY <1>4
    <3> QED
      BY <1>2, <2>3, <3>6, <3>7 DEF RecipientCEKs
  <2> QED
    BY <2>1, <2>2, <2>3
<1>7. ASSUME NEW e \in InlineEntries(r) PROVE ~MeantFor(t, e, reader)
  <2>1. RequiresWrappedKey(kea) => ek = Wrap(kea, key.mat, RandomCEK(n, enc))
    BY DEF RequiresWrappedKey
  <2>2. r.ek \in WrappedKeys \union {None}
    BY <2>1, WrapType
  <2>3. /\ r.ek \in WrappedKeys /\ r.ek.scheme = "GCMKW"
        /\ e.ek # None /\ e.ek.scheme = "inline"
    <3>. HIDE DEF r, ek
    <3> QED
      BY <1>7, <2>2, InlineEntry
  <2>4. RequiresWrappedKey(kea)
    BY <2>3, CEKAssumption
  <2>5. Scheme(kea) = "GCMKW"
    BY <2>1, <2>3, <2>4 DEF Wrap
  <2>6. kea \in GCMWraps
    BY <2>5 DEF Scheme, KEAs, RSAWraps
  <2>. HIDE DEF t, r, h, cek, gcm
  <2> QED
    BY <1>2, <1>3, <1>5, <2>3, <2>6 DEF MeantFor
<1>. HIDE DEF t, r, h, cek
<1>8. Entries(t) = {r} \union InlineEntries(r)
  BY <1>3, SingleEntries
<1>9. OpensFor(t, reader)
  BY <1>3, <1>6, <1>7, <1>8 DEF OpensFor
<1> QED
  BY <1>9 DEF t

\* What another producer wraps for several keys is opened by every private copy
\* of any of them.
LEMMA ForeignWrappedOpens ==
    ASSUME NEW keys \in Seq(JWKs), NEW kea \in KEAs, RequiresWrappedKey(kea), NEW enc \in CEAs,
           NEW n \in Tokens, NEW p \in Payloads,
           \A i \in DOMAIN keys : keys[i].mat \in Materials,
           NEW reader, hasPrivateKey(reader),
           (\E i \in DOMAIN keys : reader.mat = keys[i].mat) => KeyServes(kea, reader)
    PROVE  OpensFor(ForeignWrapped(kea, enc, keys, n, p), reader)
<1> DEFINE h   == Header(kea, enc, None, None)
           cek == RandomCEK(n, enc)
           gcm(i) == GCMOf(kea, n, keys[i].mat)
           rh(i) == [alg |-> None, enc |-> None, epk |-> None, gcm |-> gcm(i)]
           ek(i) == Wrap(kea, keys[i].mat, cek)
           r(i)  == [ek |-> ek(i), header |-> rh(i)]
           t   == ForeignWrapped(kea, enc, keys, n, p)
<1>1. t = [header |-> h, body |-> Body(cek, h, p), recipients |-> [i \in DOMAIN keys |-> r(i)]]
  BY DEF ForeignWrapped
<1>2. /\ h.kea = kea /\ h.enc = enc /\ h.gcm = None
      /\ cek.kind = "random" /\ cek.n = n
  BY DEF Header, RandomCEK
<1>3. /\ t.header = h /\ t.body.content.cek = cek /\ t.body.content.enc = enc
      /\ t.recipients = [i \in DOMAIN keys |-> r(i)]
  BY <1>1, <1>2 DEF Body, Encrypted
<1>4. ASSUME NEW i \in DOMAIN keys, MeantFor(t, r(i), reader)
      PROVE  RecipientCEKs(h, r(i), reader) = {cek}
  <2>1. ek(i) \in WrappedKeys /\ ek(i) # None /\ ek(i) # Tampered
    BY <1>4, WrapType, CEKAssumption, TextAssumption
  <2>2. ek(i).scheme = Scheme(kea) /\ ek(i).mat = keys[i].mat /\ ek(i).cek = cek
    BY DEF Wrap
  <2>3. /\ kea \in GCMWraps =>
               gcm(i) = [n |-> n, mat |-> keys[i].mat, odd |-> {}] /\ gcm(i) # None
        /\ gcm(i) \in GCMParams \union {None}
    BY <1>4, CEKAssumption DEF GCMOf, GCMParams, OddParts
  <2>4. rh(i) # None
    <3>1. rh(i) \in RecipientHeaders
      BY <2>3 DEF RecipientHeaders
    <3> QED
      BY <3>1, TextAssumption
  <2>5. rh(i).gcm = gcm(i) /\ r(i).header = rh(i) /\ r(i).ek = ek(i)
    OBVIOUS
  <2>. HIDE DEF t, h, cek, ek, gcm, rh, r
  <2>6. kea \in GCMWraps => Effective(h, rh(i)).gcm = gcm(i)
    BY <2>3, <2>4, <2>5 DEF Effective
  <2>7. reader.mat = keys[i].mat
    BY <1>4, <2>1, <2>2, <2>5 DEF MeantFor
  <2>8. kea \in GCMWraps =>
            LET g == Effective(h, rh(i)).gcm IN g # None /\ Belongs(g, ek(i)) /\ g.odd = {}
    BY <1>2, <2>2, <2>3, <2>6 DEF Belongs
  <2>9. UnwrapOutcomes(kea, reader, ek(i), Effective(h, rh(i)).gcm) = {cek}
    BY <1>4, <2>1, <2>2, <2>7, <2>8, UnwrapsOwn
  <2> QED
    BY <1>2, <2>5, <2>9 DEF RecipientCEKs, RequiresWrappedKey
<1>5. ASSUME NEW i \in DOMAIN keys, NEW e \in InlineEntries(r(i)), MeantFor(t, e, reader)
      PROVE  RecipientCEKs(h, e, reader) = {cek}
  <2>1. ek(i) \in WrappedKeys /\ ek(i).scheme = Scheme(kea) /\ ek(i).mat = keys[i].mat
        /\ ek(i).cek = cek /\ r(i).ek = ek(i)
    BY <1>5, WrapType DEF Wrap
  <2>. HIDE DEF ek, r
  <2>2. /\ ek(i).scheme = "GCMKW" /\ e.header = None
        /\ e.ek \notin {None, Tampered} /\ e.ek.scheme = "inline"
        /\ e.ek.mat = keys[i].mat /\ e.ek.cek = cek
    BY <1>5, <2>1, InlineEntry
  <2>3. kea \in GCMWraps
    BY <2>1, <2>2 DEF Scheme, KEAs, RSAWraps
  <2>. HIDE DEF t, h, cek
  <2>4. reader.mat = keys[i].mat
    BY <1>5, <2>2 DEF MeantFor
  <2>5. Effective(h, e.header).gcm = None
    BY <1>2, <2>2 DEF Effective
  <2>6. UnwrapOutcomes(kea, reader, e.ek, None) = {cek}
    BY <1>5, <2>2, <2>3, <2>4, UnwrapsInline
  <2> QED
    BY <1>2, <2>3, <2>5, <2>6 DEF RecipientCEKs, GCMWraps
<1>. HIDE DEF t, h, cek, r
<1>6. ASSUME NEW e \in Entries(t)
      PROVE  \E i \in DOMAIN keys : e = r(i) \/ e \in InlineEntries(r(i))
  BY <1>3, <1>6 DEF Entries, ToSet
<1>7. OpensFor(t, reader)
  BY <1>3, <1>4, <1>5, <1>6 DEF OpensFor
<1> QED
  BY <1>7 DEF t

\* So is what another producer agrees on with a key, if its ephemeral key is
\* complete.
LEMMA ForeignAgreedOpens ==
    ASSUME NEW key \in JWKs, NEW enc \in CEAs, NEW n \in Tokens, NEW p \in Payloads,
           NEW minimal \in BOOLEAN, key.crv \in Curves,
           NEW reader, hasPrivateKey(reader),
           reader.mat = key.mat => reader.crv = key.crv /\ reader.crv \in ECCurves
    PROVE  OpensFor(ForeignAgreed(enc, key, n, minimal, p), reader)
<1> DEFINE h   == Header("ECDH-ES", enc, None, None)
           epk == [n |-> n, crv |-> key.crv, complete |-> ~minimal]
           cek == AgreedCEK(key.mat, n, enc)
           rh  == [alg |-> None, enc |-> None, epk |-> epk, gcm |-> None]
           r   == [ek |-> None, header |-> rh]
           t   == ForeignAgreed(enc, key, n, minimal, p)
<1>1. t = [header |-> h, body |-> Body(cek, h, p), recipients |-> <<r>>]
  BY DEF ForeignAgreed
<1>2. /\ h.kea = "ECDH-ES" /\ h.enc = enc
      /\ cek.kind = "agreed" /\ cek.mat = key.mat
  BY DEF Header, AgreedCEK
<1>3. t.header = h /\ t.body.content.cek = cek /\ t.body.content.enc = enc /\ t.recipients = <<r>>
  BY <1>1, <1>2 DEF Body, Encrypted
<1>4. epk \in EphemeralKeys /\ epk # None
  <2>1. epk \in EphemeralKeys
    BY DEF EphemeralKeys
  <2> QED
    BY <2>1, TextAssumption
<1>5. epk.n = n /\ epk.crv = key.crv
  OBVIOUS
<1>. HIDE DEF epk
<1>6. rh # None /\ rh.epk = epk
  <2>1. rh \in RecipientHeaders
    BY <1>4 DEF RecipientHeaders
  <2> QED
    BY <2>1, TextAssumption
<1>7. r.ek = None /\ r.header = rh
  OBVIOUS
<1>8. cek = AgreedCEK(key.mat, n, enc)
  OBVIOUS
<1>. HIDE DEF t, h, cek, r, rh
<1>9. ASSUME MeantFor(t, r, reader) PROVE RecipientCEKs(h, r, reader) = {cek}
  <2>1. reader.mat = key.mat /\ epk.complete
    BY <1>2, <1>3, <1>4, <1>6, <1>7, <1>9 DEF MeantFor
  <2>2. Effective(h, r.header).epk = epk
    BY <1>4, <1>6, <1>7 DEF Effective
  <2>3. Agrees(reader, epk)
    BY <1>4, <1>5, <2>1 DEF Agrees
  <2> QED
    BY <1>2, <1>5, <1>8, <2>1, <2>2, <2>3 DEF RecipientCEKs
<1>10. Entries(t) = {r} \union InlineEntries(r)
  BY <1>3, SingleEntries
<1>11. InlineEntries(r) = {}
  BY <1>7 DEF InlineEntries
<1>12. OpensFor(t, reader)
  BY <1>3, <1>9, <1>10, <1>11 DEF OpensFor
<1> QED
  BY <1>12 DEF t

\* A new token that opens for the keys in the ring keeps every token so.
LEMMA TokensOpenKept ==
    ASSUME TokensOpen, NEW t, HeaderTrue(t), issued' = issued \union {t}, ring' = ring,
           \A s \in Slots : ring[s] # None /\ hasPrivateKey(ring[s]) => OpensFor(t, ring[s])
    PROVE  TokensOpen'
BY DEF TokensOpen

\* Who can read a token is settled when it is made.
LEMMA OpeningKept ==
    ASSUME IInv, TokensOpen, [Next]_vars
    PROVE  TokensOpen'
<1>1. ASSUME NEW s \in Slots, NEW kea \in KeyAlgorithms, NEW enc \in ContentAlgorithms,
             NEW p \in Payloads, Encrypt(s, kea, enc, p)
      PROVE  TokensOpen'
  <2> DEFINE t == OwnToken(kea, enc, ring[s], made + 1, p)
  <2>1. kea \in KEAs /\ enc \in CEAs
    BY ProgramAssumption
  <2>2. /\ ring[s] # None /\ KeyServes(kea, ring[s]) /\ made < MaxTokens
        /\ issued' = issued \union {t} /\ ring' = ring
    BY <1>1 DEF Encrypt, CanMake
  <2>3. made + 1 \in Tokens
    BY <2>2, SizeAssumption DEF IInv, TypeOK, Tokens
  <2>4. ring[s] \in JWKs /\ ring[s].mat \in Materials
    BY <2>1, <2>2, RingKeys, ServingKey
  <2>5. ring[s].mat # None
    BY <2>4, NoneAssumption
  <2>6. kea = "ECDH-ES" => ring[s].kty = "EC" /\ ring[s].crv \in ECCurves
    <3>1. kea = "ECDH-ES" => ring[s].kty = "EC"
      BY <2>2 DEF KeyServes, RSAWraps, AESWraps, GCMWraps
    <3> QED
      BY <2>2, <3>1, RingKeys
  <2>7. ASSUME NEW u \in Slots, ring[u] # None, hasPrivateKey(ring[u])
        PROVE  OpensFor(t, ring[u])
    <3>1. ring[u].mat = ring[s].mat => /\ KeyServes(kea, ring[u])
                                       /\ ring[u].crv = ring[s].crv
      BY <2>2, <2>5, <2>7, SameMaterial
    <3> QED
      BY <2>1, <2>3, <2>4, <2>6, <2>7, <3>1, OwnTokenOpens
  <2>8. HeaderTrue(t)
    BY HeadersTrue
  <2>. HIDE DEF t
  <2> QED
    BY <2>2, <2>7, <2>8, TokensOpenKept
<1>2. ASSUME NEW slots \in Addressees, NEW kea \in KeyAlgorithms, NEW enc \in ContentAlgorithms,
             NEW p \in Payloads, ReceiveWrapped(slots, kea, enc, p)
      PROVE  TokensOpen'
  <2> DEFINE keys == [i \in DOMAIN slots |-> ring[slots[i]]]
             t    == ForeignWrapped(kea, enc, keys, made + 1, p)
  <2>1. kea \in KEAs /\ enc \in CEAs /\ RequiresWrappedKey(kea)
    BY <1>2, ProgramAssumption DEF ReceiveWrapped
  <2>2. slots \in Seq(Slots)
    <3>1. PICK m \in 0..2 : slots \in [1..m -> Slots]
      BY DEF Addressees, BoundedSeq, SeqOf
    <3> QED
      BY <3>1
  <2>3. /\ issued' = issued \union {t} /\ ring' = ring /\ made < MaxTokens
        /\ \A i \in DOMAIN slots : ring[slots[i]] # None /\ KeyServes(kea, ring[slots[i]])
    BY <1>2 DEF ReceiveWrapped, Receive, CanMake
  <2>4. ASSUME NEW i \in DOMAIN slots
        PROVE  /\ slots[i] \in Slots /\ ring[slots[i]] \in JWKs
               /\ ring[slots[i]].mat \in Materials /\ ring[slots[i]].mat # None
    <3>1. slots[i] \in Slots
      BY <2>2
    <3> QED
      BY <2>1, <2>3, <3>1, RingKeys, ServingKey, NoneAssumption
  <2>5. keys \in Seq(JWKs) /\ DOMAIN keys = DOMAIN slots
    BY <2>2, <2>4
  <2>6. \A i \in DOMAIN keys : keys[i] = ring[slots[i]] /\ keys[i].mat \in Materials
    BY <2>4
  <2>7. made + 1 \in Tokens
    BY <2>3, SizeAssumption DEF IInv, TypeOK, Tokens
  <2>8. ASSUME NEW u \in Slots, ring[u] # None,
               NEW i \in DOMAIN keys, ring[u].mat = keys[i].mat
        PROVE  KeyServes(kea, ring[u])
    BY <2>3, <2>4, <2>5, <2>6, <2>8, SameMaterial
  <2>. HIDE DEF keys
  <2>9. ASSUME NEW u \in Slots, ring[u] # None, hasPrivateKey(ring[u])
        PROVE  OpensFor(t, ring[u])
    BY <2>1, <2>5, <2>6, <2>7, <2>8, <2>9, ForeignWrappedOpens
  <2>10. HeaderTrue(t)
    BY HeadersTrue
  <2>. HIDE DEF t
  <2> QED
    BY <2>3, <2>9, <2>10, TokensOpenKept
<1>3. ASSUME NEW s \in Slots, NEW enc \in ContentAlgorithms, NEW minimal \in Minimal,
             NEW p \in Payloads, ReceiveAgreed(s, enc, minimal, p)
      PROVE  TokensOpen'
  <2> DEFINE t == ForeignAgreed(enc, ring[s], made + 1, minimal, p)
  <2>1. enc \in CEAs /\ minimal \in BOOLEAN
    BY ProgramAssumption
  <2>2. /\ ring[s] # None /\ ring[s].kty = "EC" /\ made < MaxTokens
        /\ issued' = issued \union {t} /\ ring' = ring
    BY <1>3 DEF ReceiveAgreed, Receive, CanMake
  <2>3. /\ ring[s] \in JWKs /\ ring[s].mat # None
        /\ ring[s].crv \in ECCurves /\ ring[s].crv \in Curves
    BY <2>2, RingKeys DEF Curves
  <2>4. made + 1 \in Tokens
    BY <2>2, SizeAssumption DEF IInv, TypeOK, Tokens
  <2>5. ASSUME NEW u \in Slots, ring[u] # None, hasPrivateKey(ring[u])
        PROVE  OpensFor(t, ring[u])
    <3>1. ring[u].mat = ring[s].mat => ring[u].crv = ring[s].crv
      BY <2>2, <2>3, <2>5, SameMaterial
    <3> QED
      BY <2>1, <2>3, <2>4, <2>5, <3>1, ForeignAgreedOpens
  <2>6. HeaderTrue(t)
    BY HeadersTrue
  <2>. HIDE DEF t
  <2> QED
    BY <2>2, <2>5, <2>6, TokensOpenKept
<1>4. CASE UNCHANGED <<ring, issued>>
  BY <1>4 DEF TokensOpen
<1> QED
  BY <1>1, <1>2, <1>3, <1>4 DEF Next, vars, Load, Release, StartDecrypt, DecryptStep,
                                TryRecipient, Exhausted

\* The object held is what encrypt() made or a parser accepted.
LEMMA ParsingKept ==
    ASSUME IInv, ObjectParses, [Next]_vars
    PROVE  ObjectParses'
<1>1. ASSUME NEW s \in Slots, NEW kea \in KeyAlgorithms, NEW enc \in ContentAlgorithms,
             NEW p \in Payloads, Encrypt(s, kea, enc, p)
      PROVE  ObjectParses'
  <2>1. kea \in KEAs /\ enc \in CEAs
    BY ProgramAssumption
  <2>2. /\ ring[s] # None /\ KeyServes(kea, ring[s]) /\ made < MaxTokens
        /\ jwe' = OwnToken(kea, enc, ring[s], made + 1, p)
    BY <1>1 DEF Encrypt, CanMake
  <2>3. made + 1 \in Tokens
    BY <2>2, SizeAssumption DEF IInv, TypeOK, Tokens
  <2>4. ring[s].mat \in Materials
    BY <2>1, <2>2, RingKeys, ServingKey
  <2>5. PICK h, ek, body :
            /\ jwe' = [header |-> h, recipients |-> <<[ek |-> ek, header |-> None]>>, body |-> body]
            /\ h.kea = kea /\ h.enc = enc
            /\ IF RequiresWrappedKey(kea) THEN ek = Wrap(kea, ring[s].mat, RandomCEK(made + 1, enc))
               ELSE ek = None
    <3> DEFINE epk == IF kea = "ECDH-ES" THEN [n |-> made + 1, crv |-> ring[s].crv,
                                               complete |-> TRUE] ELSE None
               cek == CASE kea = "dir" -> SecretCEK(ring[s].mat)
                        [] kea = "ECDH-ES" -> AgreedCEK(ring[s].mat, made + 1, enc)
                        [] OTHER -> RandomCEK(made + 1, enc)
               h0  == Header(kea, enc, epk, GCMOf(kea, made + 1, ring[s].mat))
               ek0 == IF RequiresWrappedKey(kea) THEN Wrap(kea, ring[s].mat, cek) ELSE None
    <3>1. jwe' = [header |-> h0, recipients |-> <<[ek |-> ek0, header |-> None]>>,
                  body |-> Body(cek, h0, p)]
      BY <2>2 DEF OwnToken
    <3>2. h0.kea = kea /\ h0.enc = enc
      BY DEF Header
    <3>3. RequiresWrappedKey(kea) => cek = RandomCEK(made + 1, enc)
      BY DEF RequiresWrappedKey
    <3>. HIDE DEF h0, cek
    <3> QED
      BY <3>1, <3>2, <3>3
  <2>6. ek # Garbled /\ (RequiresWrappedKey(kea) <=> ek \notin {Absent, None})
    BY <2>1, <2>3, <2>4, <2>5, WrapType, CEKAssumption, TextAssumption
  <2>7. HeaderKnown(h)
    BY <2>1, <2>5 DEF HeaderKnown, KEAs, RSAWraps, AESWraps, GCMWraps, CEAs, CBCAlgs
  <2>8. RecipientParses([ek |-> ek, header |-> None], h)
    BY <2>5, <2>6 DEF RecipientParses, HeaderAgrees
  <2> QED
    BY <2>5, <2>7, <2>8 DEF ObjectParses
<1>2. ASSUME NEW doc \in Documents, Load(doc) PROVE ObjectParses'
  <2> SUFFICES ASSUME Parses(doc), jwe' = ParsedObject(doc)
               PROVE  ObjectParses'
    BY <1>2 DEF Load, ObjectParses
  <2> DEFINE found   == RecipientsOf(doc)
             kept(r) == [r EXCEPT !.ek = IF @ = Absent THEN None ELSE @]
  <2>1. found \in Seq(KnownParts) /\ found # <<>> /\ HeaderKnown(doc.protected)
    BY RecipientsType DEF IInv, TypeOK, IssuedTokens, Parses
  <2>2. /\ jwe'.header = doc.protected
        /\ jwe'.recipients = [i \in DOMAIN found |-> kept(found[i])]
    BY DEF ParsedObject
  <2>3. ASSUME NEW i \in DOMAIN found
        PROVE  RecipientParses(kept(found[i]), doc.protected)
    <3>1. found[i] \in KnownParts /\ RecipientParses(found[i], doc.protected)
      BY <2>1 DEF Parses
    <3>2. kept(found[i]) = [ek |-> IF found[i].ek = Absent THEN None ELSE found[i].ek,
                            header |-> found[i].header]
      BY <3>1 DEF KnownParts
    <3> QED
      BY <3>1, <3>2, TextAssumption DEF RecipientParses
  <2>. HIDE DEF found, kept
  <2>4. DOMAIN found = 1..Len(found) /\ Len(found) \in Nat /\ Len(found) > 0
    BY <2>1
  <2>5. DOMAIN jwe'.recipients = 1..Len(found) /\ Len(jwe'.recipients) = Len(found)
    BY <2>2, <2>4
  <2> QED
    BY <2>1, <2>2, <2>3, <2>4, <2>5 DEF ObjectParses
<1>3. CASE jwe' = None
  BY <1>3 DEF ObjectParses
<1>4. CASE jwe' = jwe
  BY <1>4 DEF ObjectParses
<1> QED
  BY <1>1, <1>2, <1>3, <1>4 DEF Next, vars, ReceiveWrapped, ReceiveAgreed, Receive, Release,
                                StartDecrypt, DecryptStep, TryRecipient, Exhausted

\* The loop goes on only after an iteration that failed.
LEMMA TryingKept ==
    ASSUME IInv, PassedFailed, [Next]_vars
    PROVE  PassedFailed'
<1>1. ASSUME call' = NoCall PROVE PassedFailed'
  BY <1>1 DEF NoCall, PassedFailed
<1>2. ASSUME NEW s \in Slots, StartDecrypt(s) PROVE PassedFailed'
  <2>1. call'.i = 1 /\ call'.pc = "loop" /\ jwe # None /\ jwe' = jwe
    BY <1>2 DEF StartDecrypt, NoCall
  <2>2. DOMAIN jwe.recipients \subseteq Nat \ {0}
    BY <2>1 DEF IInv, TypeOK, Objects
  <2> QED
    BY <2>1, <2>2 DEF PassedFailed
<1>3. ASSUME NEW fault \in BOOLEAN, TryRecipient(fault) PROVE PassedFailed'
  <2> DEFINE outcomes == RecipientOutcomes(jwe, jwe.recipients[call.i], Key)
  <2>1. /\ call.pc = "loop" /\ call.i <= Len(jwe.recipients)
        /\ call \in Calls /\ jwe \in Objects
        /\ UNCHANGED <<ring, jwe>>
    BY <1>3 DEF TryRecipient, IInv, TypeOK, ArgumentsHeld
  <2>2. PICK r \in IF fault THEN {None} ELSE outcomes :
            call' = IF r = None
                    THEN [Continued(call) EXCEPT !.faulty = @ \/ fault]
                    ELSE [call EXCEPT !.pc = "returned", !.result = r]
    BY <1>3 DEF TryRecipient
  <2>3. CASE r # None
    <3>1. call'.pc = "returned"
      BY <2>1, <2>2, <2>3 DEF Calls
    <3> QED
      BY <3>1 DEF PassedFailed
  <2>4. CASE r = None
    <3>1. call' = [call EXCEPT !.i = @ + 1, !.faulty = @ \/ fault]
      BY <2>1, <2>2, <2>4 DEF Continued, Calls
    <3>2. /\ call'.i = call.i + 1 /\ call'.pc = "loop" /\ call'.slot = call.slot
          /\ ~call'.faulty => ~call.faulty /\ ~fault
      BY <2>1, <3>1 DEF Calls
    <3>3. ~call'.faulty => None \in outcomes
      BY <2>2, <2>4, <3>2
    <3>. HIDE DEF outcomes
    <3>4. \A j \in DOMAIN jwe.recipients : j < call'.i => j < call.i \/ j = call.i
      BY <2>1, <3>2 DEF Calls, Objects
    <3>5. Key' = Key
      BY <2>1, <3>2 DEF Key
    <3>6. \A j : RecipientOutcomes(jwe, jwe.recipients[j], Key)'
                     = RecipientOutcomes(jwe, jwe.recipients[j], Key)
      BY <2>1, <3>5
    <3>7. ASSUME ~call'.faulty, NEW j \in DOMAIN jwe.recipients, j < call'.i
          PROVE  None \in RecipientOutcomes(jwe, jwe.recipients[j], Key)
      <4>1. CASE j < call.i
        BY <2>1, <3>2, <3>7, <4>1 DEF PassedFailed
      <4>2. CASE j = call.i
        BY <3>3, <3>7, <4>2 DEF outcomes
      <4> QED
        BY <3>4, <3>7, <4>1, <4>2
    <3> QED
      BY <2>1, <3>2, <3>5, <3>7 DEF PassedFailed
  <2> QED
    BY <2>3, <2>4
<1>4. CASE Exhausted
  <2>1. /\ call.pc = "loop" /\ call.i > Len(jwe.recipients) /\ call \in Calls
        /\ call' = [call EXCEPT !.pc = "threw"] /\ UNCHANGED <<ring, jwe>>
    BY <1>4 DEF Exhausted, IInv, TypeOK
  <2>2. /\ call'.pc = "threw" /\ call'.i = call.i /\ call'.slot = call.slot
        /\ call'.faulty = call.faulty
    BY <2>1 DEF Calls
  <2>3. Key' = Key
    BY <2>1, <2>2 DEF Key
  <2> QED
    BY <2>1, <2>2, <2>3 DEF PassedFailed
<1>5. CASE UNCHANGED vars
  BY <1>5 DEF vars, PassedFailed, Key
<1> QED
  BY <1>1, <1>2, <1>3, <1>4, <1>5
     DEF Next, DecryptStep, Encrypt, ReceiveWrapped, ReceiveAgreed, Receive, Load, Release

\* What is parsed parses again, who can read can read, and the loop is thorough.
THEOREM ReadingInvariance == Spec => []RInv
<1>1. Init => RInv
  BY DEF Init, NoCall, RInv, TokensOpen, ObjectParses, PassedFailed
<1>2. IInv /\ RInv /\ [Next]_vars => RInv'
  BY OpeningKept, ParsingKept, TryingKept DEF RInv
<1> QED
  BY <1>1, <1>2, Invariance, PTL DEF Spec

\* decrypt() throws only if no recipient entry is the key's own and intact, or
\* OpenSSL failed, or a "dir" secret has not the length of the content key:
\* entries for others, before it or behind it, do not stand in the way.
THEOREM RecipientsSuffice == Spec => []GoodRecipientSuffices
<1> SUFFICES ASSUME IInv, RInv PROVE GoodRecipientSuffices
  BY Invariance, ReadingInvariance, PTL
<1> SUFFICES ASSUME call.pc = "threw", ~call.faulty, hasPrivateKey(Key),
                    NEW i \in DOMAIN jwe.recipients, IntactRecipient(i, call.slot)
             PROVE  jwe.header.kea = "dir" /\ ~Measured(SecretCEK(Key.mat), jwe.header.enc)
  BY DEF GoodRecipientSuffices
<1> DEFINE r   == jwe.recipients[i]
           cek == jwe.body.content.cek
<1>1. /\ jwe \in Objects /\ call.slot \in Slots /\ Key # None /\ Key = ring[call.slot]
      /\ call \in Calls
  BY DEF IInv, TypeOK, ArgumentsHeld, Key
<1>2. None \in RecipientOutcomes(jwe, r, Key)
  <2>1. jwe.recipients \in Seq(Recipients) /\ call.i \in Nat
    BY <1>1 DEF Objects, Calls
  <2>2. i < call.i
    BY <2>1 DEF RInv, PassedFailed
  <2> QED
    BY <2>2 DEF RInv, PassedFailed
<1>3. PICK t \in issued :
          /\ t.header = jwe.header /\ t.body = jwe.body
          /\ r \in Entries(t)
          /\ MeantFor(t, r, Key)
  BY <1>1 DEF IntactRecipient, MeantFor
<1>4. t \in IssuedTokens /\ t.body \in Bodies
  BY DEF IInv, TypeOK, IssuedTokens
<1>5. HeaderTrue(t) /\ OpensFor(t, Key) /\ t.body.content.aad = t.header
  BY <1>1 DEF RInv, TokensOpen, IInv, TokensSealed
<1>. HIDE DEF r
<1>6. RecipientCEKs(jwe.header, r, Key) = {cek}
  BY <1>3, <1>5 DEF OpensFor
<1>7. /\ cek \in CEKs /\ cek # None
      /\ jwe.body.content # Tampered
      /\ jwe.body.content.enc = jwe.header.enc /\ jwe.body.content.aad = jwe.header
      /\ jwe.header.enc \in CEAs /\ jwe.body.content.payload # None
      /\ cek.kind = "secret" => jwe.header.kea = "dir"
      /\ Measured(cek, jwe.header.enc) => jwe.body.odd = {}
  <2>1. jwe.body.content \in Ciphertexts(HeaderTexts)
    BY <1>3, <1>4 DEF Bodies
  <2> QED
    BY <1>3, <1>5, <2>1, CEKAssumption, TextAssumption DEF Ciphertexts, HeaderTrue
<1>. HIDE DEF cek
<1>8. None \in DecryptOutcomes(jwe.header.enc, cek, jwe.header, jwe.body)
  BY <1>2, <1>6, <1>7 DEF RecipientOutcomes
<1>9. ~Measured(cek, jwe.header.enc)
  <2>1. MadeWith(jwe.body, cek, jwe.header.enc)
    BY <1>7 DEF MadeWith, cek
  <2>2. ASSUME Measured(cek, jwe.header.enc) PROVE FALSE
    <3>1. jwe.body.odd = {} /\ TagCompared(jwe.header.enc, cek, jwe.body)
      BY <1>7, <2>2 DEF TagCompared, Measured
    <3> QED
      BY <1>7, <1>8, <2>1, <2>2, <3>1 DEF DecryptOutcomes
  <2> QED
    BY <2>2
<1>10. jwe.header.kea = "dir"
  <2>1. cek.kind # "secret" => cek.enc = jwe.header.enc
    BY <1>3, <1>7 DEF IInv, TokensSealed, cek
  <2> QED
    BY <1>7, <1>9, <2>1, MadeCEKMeasured
<1>11. cek = SecretCEK(Key.mat)
  BY <1>6, <1>7, <1>10 DEF RecipientCEKs
<1> QED
  BY <1>9, <1>10, <1>11

\* A document whose recipients all parse is read: as the object of its header, its
\* body and those recipients.
LEMMA DocumentParses ==
    ASSUME NEW doc, NEW read \in Seq(Recipients), Len(read) > 0,
           doc.protected # Garbled, HeaderKnown(doc.protected), doc.body # Garbled,
           DOMAIN RecipientsOf(doc) = DOMAIN read,
           \A i \in DOMAIN read :
               /\ RecipientParses(RecipientsOf(doc)[i], doc.protected)
               /\ [RecipientsOf(doc)[i] EXCEPT !.ek = IF @ = Absent THEN None ELSE @] = read[i]
    PROVE  /\ Parses(doc)
           /\ ParsedObject(doc) =
                  [header |-> doc.protected, body |-> doc.body, recipients |-> read]
<1>1. RecipientsOf(doc) # <<>>
  <2>1. 1 \in DOMAIN read
    OBVIOUS
  <2> QED
    BY <2>1
<1>2. Parses(doc)
  BY <1>1 DEF Parses
<1>3. ParsedObject(doc).recipients = [i \in DOMAIN read |-> read[i]]
  BY DEF ParsedObject
<1>4. read = [i \in DOMAIN read |-> read[i]]
  OBVIOUS
<1> QED
  BY <1>2, <1>3, <1>4 DEF ParsedObject

\* Every serialisation of the object held is read back as the same object, but
\* for the header that the compact form has no room for.
THEOREM SerialisationsExact == Spec => []RoundTripExact
<1> SUFFICES ASSUME IInv, RInv PROVE RoundTripExact
  BY Invariance, ReadingInvariance, PTL
<1> SUFFICES ASSUME jwe # None
             PROVE  /\ Parses(JSONDocument(jwe)) /\ ParsedObject(JSONDocument(jwe)) = jwe
                    /\ "compact" \in Forms(jwe) =>
                           /\ Parses(CompactDocument(jwe))
                           /\ ParsedObject(CompactDocument(jwe)) =
                                  [jwe EXCEPT !.recipients =
                                      <<[jwe.recipients[1] EXCEPT !.header = None]>>]
  BY DEF RoundTripExact
<1> DEFINE n  == Len(jwe.recipients)
           rs == jwe.recipients
           h  == jwe.header
<1>1. /\ jwe \in Objects /\ rs \in Seq(Recipients) /\ n \in Nat /\ n > 0 /\ DOMAIN rs = 1..n
      /\ h \in HeaderTexts /\ HeaderKnown(h) /\ h # Garbled /\ jwe.body # Garbled
      /\ jwe = [header |-> h, recipients |-> rs, body |-> jwe.body]
  BY TextAssumption DEF IInv, TypeOK, Objects, RInv, ObjectParses
<1>2. ASSUME NEW i \in 1..n
      PROVE  /\ rs[i] \in Recipients /\ RecipientParses(rs[i], h)
             /\ rs[i] = [ek |-> rs[i].ek, header |-> rs[i].header]
             /\ rs[i].ek # Absent
  <2>1. rs[i] \in Recipients /\ RecipientParses(rs[i], h)
    BY <1>1 DEF RInv, ObjectParses
  <2> QED
    BY <2>1, TextAssumption DEF Recipients
<1>4. ASSUME n = 1, NEW ek \in {rs[1].ek, Written(rs[1].ek)},
             NEW doc, doc = [CompactDocument(jwe) EXCEPT !.ek = ek]
      PROVE  /\ Parses(doc)
             /\ ParsedObject(doc) = [header |-> h, body |-> jwe.body,
                                     recipients |-> <<[ek |-> rs[1].ek, header |-> None]>>]
  <2> DEFINE r    == [ek |-> rs[1].ek, header |-> None]
             read == <<r>>
  <2>1. /\ doc.protected = h /\ doc.body = jwe.body /\ doc.ek = ek /\ doc.header = None
        /\ doc.recipients = <<>>
    BY <1>4 DEF CompactDocument
  <2>2. rs[1] \in Recipients /\ RecipientParses(rs[1], h) /\ rs[1].ek # Absent
    BY <1>2, <1>4
  <2>3. r \in Recipients /\ RecipientParses(r, h)
    BY <2>2 DEF Recipients, RecipientParses, HeaderAgrees
  <2>4. RecipientsOf(doc) = read
    <3>1. CASE rs[1].ek = None /\ ek = Absent
      <4>1. ~RequiresWrappedKey(h.kea)
        BY <2>2, <3>1 DEF RecipientParses
      <4> QED
        BY <2>1, <3>1, <4>1 DEF RecipientsOf
    <3>2. CASE ek = rs[1].ek
      BY <2>1, <2>2, <3>2 DEF RecipientsOf
    <3> QED
      BY <1>4, <3>1, <3>2 DEF Written
  <2>5. [r EXCEPT !.ek = IF @ = Absent THEN None ELSE @] = r
    BY <2>2
  <2>. HIDE DEF r
  <2>6. read \in Seq(Recipients) /\ Len(read) > 0 /\ DOMAIN read = {1} /\ read[1] = r
    BY <2>3
  <2>. HIDE DEF read
  <2>7. \A i \in DOMAIN read :
            /\ RecipientParses(RecipientsOf(doc)[i], h)
            /\ [RecipientsOf(doc)[i] EXCEPT !.ek = IF @ = Absent THEN None ELSE @] = read[i]
    BY <2>3, <2>4, <2>5, <2>6
  <2>8. Parses(doc) /\ ParsedObject(doc) = [header |-> h, body |-> jwe.body, recipients |-> read]
    BY <1>1, <2>1, <2>4, <2>6, <2>7, DocumentParses
  <2> QED
    BY <2>8 DEF read, r
<1>5. Parses(JSONDocument(jwe)) /\ ParsedObject(JSONDocument(jwe)) = jwe
  <2> DEFINE doc == JSONDocument(jwe)
  <2>1. CASE n = 1 /\ rs[1].header = None
    <3>1. doc = [CompactDocument(jwe) EXCEPT !.ek = Written(rs[1].ek)]
      BY <2>1 DEF JSONDocument, CompactDocument
    <3>2. rs = <<[ek |-> rs[1].ek, header |-> None]>>
      BY <1>1, <1>2, <2>1
    <3> QED
      BY <1>1, <1>4, <2>1, <3>1, <3>2
  <2>2. CASE ~(n = 1 /\ rs[1].header = None)
    <3> DEFINE written(i) == [rs[i] EXCEPT !.ek = Written(@)]
               general    == [i \in 1..n |-> written(i)]
    <3>1. /\ doc.protected = h /\ doc.body = jwe.body /\ doc.ek = Absent
          /\ doc.recipients = general
      BY <1>1, <2>2 DEF JSONDocument
    <3>2. general # <<>>
      BY <1>1
    <3>3. ASSUME NEW i \in 1..n
          PROVE  /\ RecipientParses(written(i), h)
                 /\ [written(i) EXCEPT !.ek = IF @ = Absent THEN None ELSE @] = rs[i]
      <4> DEFINE r == rs[i]
      <4>1. /\ r = [ek |-> r.ek, header |-> r.header] /\ r.ek # Absent
            /\ RecipientParses(r, h)
        BY <1>2
      <4>. HIDE DEF r
      <4>2. [r EXCEPT !.ek = Written(@)] = [ek |-> Written(r.ek), header |-> r.header]
        BY <4>1
      <4>3. RecipientParses([ek |-> Written(r.ek), header |-> r.header], h)
        BY <4>1, TextAssumption DEF RecipientParses, Written
      <4>4. (IF Written(r.ek) = Absent THEN None ELSE Written(r.ek)) = r.ek
        BY <4>1 DEF Written
      <4> QED
        BY <4>1, <4>2, <4>3, <4>4 DEF r
    <3>. HIDE DEF doc, written, general
    <3>4. RecipientsOf(doc) = general
      BY <3>1, <3>2 DEF RecipientsOf
    <3>5. DOMAIN general = 1..n /\ \A i \in 1..n : general[i] = written(i)
      BY DEF general
    <3> QED
      <4>1. \A i \in DOMAIN rs :
                /\ RecipientParses(RecipientsOf(doc)[i], h)
                /\ [RecipientsOf(doc)[i] EXCEPT !.ek = IF @ = Absent THEN None ELSE @] = rs[i]
        BY <1>1, <3>3, <3>4, <3>5
      <4>2. DOMAIN RecipientsOf(doc) = DOMAIN rs
        BY <1>1, <3>4, <3>5
      <4>3. /\ rs \in Seq(Recipients) /\ Len(rs) > 0
            /\ doc.protected = h /\ h # Garbled /\ HeaderKnown(h)
            /\ doc.body = jwe.body /\ doc.body # Garbled
        BY <1>1, <3>1
      <4>. HIDE DEF rs, h, n
      <4>4. /\ Parses(doc)
            /\ ParsedObject(doc) = [header |-> doc.protected, body |-> doc.body, recipients |-> rs]
        BY <4>1, <4>2, <4>3, DocumentParses
      <4> QED
        BY <1>1, <4>3, <4>4 DEF doc
  <2> QED
    BY <2>1, <2>2
<1>6. ASSUME "compact" \in Forms(jwe)
      PROVE  /\ Parses(CompactDocument(jwe))
             /\ ParsedObject(CompactDocument(jwe)) =
                    [jwe EXCEPT !.recipients = <<[jwe.recipients[1] EXCEPT !.header = None]>>]
  <2>1. n = 1
    BY <1>6 DEF Forms
  <2>2. CompactDocument(jwe) = [CompactDocument(jwe) EXCEPT !.ek = rs[1].ek]
    BY DEF CompactDocument
  <2>3. [rs[1] EXCEPT !.header = None] = [ek |-> rs[1].ek, header |-> None]
    BY <1>2, <2>1
  <2>4. [jwe EXCEPT !.recipients = <<[rs[1] EXCEPT !.header = None]>>]
            = [header |-> h, body |-> jwe.body,
               recipients |-> <<[ek |-> rs[1].ek, header |-> None]>>]
    BY <1>1, <2>3
  <2> QED
    BY <1>4, <2>1, <2>2, <2>4
<1> QED
  BY <1>5, <1>6
=============================================================================
