-------------------------------- MODULE JWT --------------------------------
(****************************************************************************)
(* JSON Web Tokens (src/src/jwt.cpp): the claim setters and getters, sign,  *)
(* parse, verify, and validate against a clock that moves.                  *)
(*                                                                          *)
(* A program fills in the claims of one JWT object and signs it with its    *)
(* keys; tokens of other producers arrive; it parses or verifies compact    *)
(* tokens put together from any texts in circulation, and validates the     *)
(* claims it holds, now or later.                                           *)
(*                                                                          *)
(* The system clock counts ticks, TicksPerSecond to a second.  A time claim *)
(* is a number of seconds, which the library keeps in an int of IntWidth    *)
(* bits.  A JSON value is a record with its type; a payload is the claims   *)
(* object it decodes to, or NotObject when it decodes to no JSON object.    *)
(****************************************************************************)
EXTENDS JWSFormat, Integers, FiniteSets, SequencesExt

CONSTANTS
    Keys,            \* the JWK objects tokens are signed and verified with
    Algorithms,      \* algorithms passed to sign(): "RS256" is also the default
    Strings,         \* values of string claims
    TextSettings,    \* names and values given to the setters of string claims
    AudienceLists,   \* arguments of setAudience(vector)
    Times,           \* arguments of setExpiration and setNotBefore, in ticks
    ForeignClaims,   \* claims objects of other producers, NotObject included
    Expectations,    \* arguments of validate(): issuer, audience, leeway
    IntWidth,        \* bits of an int
    TicksPerSecond,  \* resolution of the system clock
    MaxNow,          \* bound: the clock
    MaxSetters,      \* bound: setter calls
    MaxTokens,       \* bound: tokens in circulation
    NotObject        \* a payload that is no JSON object

VARIABLES
    now,      \* the system clock, in ticks
    draft,    \* claims_ of the JWT object being filled in
    asked,    \* the times asked of the setters for it (history)
    setters,  \* setter calls so far
    issued,   \* the header, payload and signature texts in circulation
    vouched,  \* who signed which claims, and the times meant (history)
    held,     \* the JWT object got from parse() or verify(), or None
    last,     \* the answer of validate() or the failure of sign() just seen
    alive     \* FALSE after std::terminate

vars == <<now, draft, asked, setters, issued, vouched, held, last, alive>>

-----------------------------------------------------------------------------
(* JSON values and claims. *)

Text(s)   == [type |-> "string", text |-> s]
Number(n) == [type |-> "number", secs |-> n]
Array(a)  == [type |-> "array", items |-> a]

TimeClaims == {"exp", "nbf"}
ClaimNames == {"iss", "aud"} \union TimeClaims \union {p[1] : p \in TextSettings}

IsValue(v) ==
    \/ v \in [type : {"string"}, text : Strings]
    \/ v \in [type : {"number"}, secs : Int]
    \/ v \in [type : {"array"}, items : Seq(Strings \union {NonString})]

\* JWT::Impl::claims_, a map from names to JSON values.
IsClaims(c) ==
    /\ c = [n \in DOMAIN c |-> c[n]]
    /\ DOMAIN c \subseteq ClaimNames
    /\ \A n \in DOMAIN c : IsValue(c[n])

NoClaims == [n \in {} |-> Text("")]

Put(claims, n, v) == [m \in DOMAIN claims \union {n} |-> IF m = n THEN v ELSE claims[m]]

-----------------------------------------------------------------------------
(* Times: timePointToTimestamp, static_cast<int>, timestampToTimePoint. *)

HalfRange == 2 ^ (IntWidth - 1)

\* Mutant: an int is as wide as a time.
Mutant_AsInt(n) == n

\* static_cast<int> and get<int>: the value modulo 2^IntWidth.
AsInt(n) == ((n + HalfRange) % (2 * HalfRange)) - HalfRange

\* Mutant: seconds are rounded up.
Mutant_Seconds(t) == (t + TicksPerSecond - 1) \div TicksPerSecond

\* duration_cast<seconds> drops the fraction, towards the epoch.
Seconds(t) == IF t >= 0 THEN t \div TicksPerSecond ELSE -((-t) \div TicksPerSecond)

TimePoint(n) == n * TicksPerSecond

\* The default time point, which stands for a claim that is not there.
Epoch == 0

StoredTime(t) == Number(AsInt(Seconds(t)))

\* What the setters store, and what can be filled in with them.
SetterValues ==
    {Text(p[2]) : p \in TextSettings} \union {StoredTime(t) : t \in Times}
        \union {Text(list[1]) : list \in {l \in AudienceLists : Len(l) = 1}}
        \union {Array(list) : list \in {l \in AudienceLists : Len(l) > 1}}

Drafts == UNION {[names -> SetterValues] : names \in SUBSET ClaimNames}

\* Keys are as generated or as read back from what was published, so the copies
\* of one material have its type, curve, key ID and algorithm (jwk.cpp keeps
\* them), and a symmetric key that has its secret can sign.
ASSUME ProgramAssumption ==
    /\ Keys \subseteq JWKs
    /\ \A key \in Keys : /\ key.mat # None
                         /\ key.kty = "oct" => hasPrivateKey(key)
    /\ \A key, copy \in Keys :
           key.mat = copy.mat =>
               /\ key.kty = copy.kty /\ key.crv = copy.crv
               /\ key.kid = copy.kid /\ key.alg = copy.alg
    /\ Algorithms \subseteq SigAlgs
    /\ {MaxNow, MaxSetters, MaxTokens} \subseteq Nat

\* A claims object is a map from names to JSON values, and what a program can
\* fill in can be a payload.
ASSUME ClaimsAssumption ==
    /\ \A p \in TextSettings : p[2] \in Strings
    /\ AudienceLists \subseteq Seq(Strings)
    /\ \A claims \in ForeignClaims \ {NotObject} : IsClaims(claims)
    /\ Drafts \union ForeignClaims \subseteq Payloads
    /\ None \notin Payloads /\ NotObject \notin Drafts

\* The clock's ticks and a second are whole numbers, as is half of what an int
\* can tell apart.
ASSUME TimeAssumption ==
    /\ Times \subseteq Int /\ None \notin Int
    /\ \A e \in Expectations : e.leeway \in Int
    /\ {IntWidth, TicksPerSecond, HalfRange} \subseteq Nat \ {0}

\* No text of a token is one of the model values for what is not there.
ASSUME TextAssumption ==
    /\ None # Garbled /\ None \notin BOOLEAN
    /\ None \notin PayloadTexts
    /\ None \notin WireEntries
    /\ Garbled \notin Signatures
    /\ NonString \notin SigAlgs \union Kids \union {None, "unknown"}
    /\ None \notin [alg : SigAlgs, mat : Materials, input : SigningInputs]

-----------------------------------------------------------------------------
(* Getters. *)

Has(claims, n, type) == n \in DOMAIN claims /\ claims[n].type = type

\* getIssuer and the other getters of strings.
GetText(claims, n) == IF Has(claims, n, "string") THEN claims[n].text ELSE ""

\* getAudience: the string, or those elements of the array that are strings.
GetAudience(claims) ==
    IF Has(claims, "aud", "array") THEN ToSet(claims["aud"].items) \ {NonString}
    ELSE IF Has(claims, "aud", "string") THEN {claims["aud"].text} ELSE {}

\* getExpiration, getNotBefore: the epoch unless the claim is a number.
GetTime(claims, n) ==
    IF Has(claims, n, "number") THEN TimePoint(AsInt(claims[n].secs)) ELSE Epoch

-----------------------------------------------------------------------------
(* validate(). *)

\* Mutant: the clock is cut to an int like the claims.
Mutant_ClockCut(claims, t, leeway) ==
    LET exp   == GetTime(claims, "exp")
        nbf   == GetTime(claims, "nbf")
        clock == TimePoint(AsInt(Seconds(t)))
    IN  /\ exp # Epoch => clock <= exp + TimePoint(leeway)
        /\ nbf # Epoch => clock >= nbf - TimePoint(leeway)

\* Mutant: the leeway is added on both sides.
Mutant_TimesValid(claims, t, leeway) ==
    LET exp == GetTime(claims, "exp")
        nbf == GetTime(claims, "nbf")
    IN  /\ exp # Epoch => t <= exp + TimePoint(leeway)
        /\ nbf # Epoch => t >= nbf + TimePoint(leeway)

\* The clock is read once; a time at the epoch is not checked.
TimesValid(claims, t, leeway) ==
    LET exp == GetTime(claims, "exp")
        nbf == GetTime(claims, "nbf")
    IN  /\ exp # Epoch => t <= exp + TimePoint(leeway)
        /\ nbf # Epoch => t >= nbf - TimePoint(leeway)

\* An empty string asks for nothing.
PartiesMatch(claims, e) ==
    /\ e.issuer # "" => GetText(claims, "iss") = e.issuer
    /\ e.audience # "" => e.audience \in GetAudience(claims)

Valid(claims, t, e) == PartiesMatch(claims, e) /\ TimesValid(claims, t, e.leeway)

-----------------------------------------------------------------------------
(* sign(), parse_() and verify_() on compact tokens. *)

\* "RS256", asked for or defaulted, is replaced for a key that is not RSA.
ActualAlgorithm(key, alg) ==
    CASE alg = "RS256" /\ key.kty = "oct" -> "HS256"
      [] alg = "RS256" /\ key.kty = "EC"  -> "ES256"
      [] OTHER                            -> alg

Token(hdr, text, sig) == [hdr |-> hdr, text |-> text, sig |-> sig]

Compact(tok) ==
    [payload |-> tok.text, single |-> [hdr |-> tok.hdr, sig |-> tok.sig], signatures |-> None]

\* Mutant: only strings are taken over.
Mutant_ParsedClaims(tok) ==
    IF Parses(Compact(tok)) /\ tok.text.bytes # NotObject
    THEN LET names == {n \in DOMAIN tok.text.bytes : Has(tok.text.bytes, n, "string")}
         IN  [n \in names |-> tok.text.bytes[n]]
    ELSE None

\* parse_: the JWS parses and its payload is a JSON object.
ParsedClaims(tok) ==
    IF Parses(Compact(tok)) /\ tok.text.bytes # NotObject THEN tok.text.bytes ELSE None

\* Mutant: the token is parsed, and that its signature is right is not asked.
Mutant_Verifies(tok, key, fault) ==
    LET entry == ParseEntry([hdr |-> tok.hdr, sig |-> tok.sig])
    IN  Applicable(entry, key)

\* JOSE::verify on the one signature of a compact token: an exception of the
\* back end is caught and is a failure like any other.
Verifies(tok, key, fault) ==
    LET entry == ParseEntry([hdr |-> tok.hdr, sig |-> tok.sig])
    IN  /\ Applicable(entry, key)
        /\ VerifyOutcome(entry.algorithm, key, SigningInput(tok.hdr, tok.text), tok.sig, fault)
               = TRUE

-----------------------------------------------------------------------------
(* The program's calls. *)

NoTimes == [exp |-> None, nbf |-> None]

NoCall == [op |-> "none", ok |-> TRUE, faulty |-> FALSE, key |-> None, expected |-> None]

\* A bound: tokens are made and read until one has been read, and what was read
\* is then held for good.  JWT objects share nothing, so a call on another one
\* would not touch it.
Ready == alive /\ held = None

SetterCalled ==
    /\ Ready
    /\ setters < MaxSetters
    /\ setters' = setters + 1
    /\ last' = NoCall
    /\ UNCHANGED <<now, issued, vouched, held, alive>>

\* setExpiration and setNotBefore; setIssuedAt does the same for "iat".
SetTime(n, t) ==
    /\ SetterCalled
    /\ draft' = Put(draft, n, StoredTime(t))
    /\ asked' = [asked EXCEPT ![n] = t]

\* setIssuer, setSubject, setAudience(string), setJWTID and setClaim, which
\* takes any name, those of the time claims included.
SetText(n, s) ==
    /\ SetterCalled
    /\ draft' = Put(draft, n, Text(s))
    /\ asked' = IF n \in TimeClaims THEN [asked EXCEPT ![n] = None] ELSE asked

\* setAudience(vector): an empty list changes nothing, a list of one is stored
\* as a string.
SetAudience(list) ==
    /\ SetterCalled
    /\ draft' = IF Len(list) = 0 THEN draft
                ELSE Put(draft, "aud", IF Len(list) = 1 THEN Text(list[1]) ELSE Array(list))
    /\ UNCHANGED asked

\* sign(key, algorithm).  A failure changes nothing; whether it was one of the
\* back end is kept in 'faulty'.
Sign(key, alg) ==
    LET actual == ActualAlgorithm(key, alg)
        hdr    == NewHeader(actual, key.kid, {})
        text   == EncodePayload(draft)
        able   == /\ key.use = "sig"
                  /\ actual # "none" => SignDispatched(actual, key) /\ Signable(actual, key)
        sigs   == IF able THEN NewSignatures(actual, key, SigningInput(hdr, text)) ELSE {}
    IN  /\ Ready
        /\ Cardinality(issued) < MaxTokens
        /\ \/ \E sig \in sigs :
                  /\ issued' = issued \union {Token(hdr, text, sig)}
                  /\ vouched' = IF actual = "none" THEN vouched
                                ELSE vouched \union {[mat |-> key.mat, claims |-> draft, times |-> asked]}
                  /\ last' = NoCall
           \/ /\ actual # "none" \/ ~able
              /\ last' = [NoCall EXCEPT !.op = "sign", !.ok = FALSE, !.key = key, !.faulty = able]
              /\ UNCHANGED <<issued, vouched>>
        /\ UNCHANGED <<now, draft, asked, setters, held, alive>>

\* A token of another producer who shares the key: JSON numbers of any size,
\* strings where numbers belong, arrays with other things than strings in them.
\* It comes before the first setter call, a bound: the two do not meet.
MeantTime(claims, n) == IF Has(claims, n, "number") THEN TimePoint(claims[n].secs) ELSE None

Receive(key, claims) ==
    LET hdr  == NewHeader(key.alg, key.kid, {})
        text == EncodePayload(claims)
        sig  == SigTerm(key.alg, key.mat, SigningInput(hdr, text))
    IN  /\ Ready
        /\ setters = 0
        /\ SignDispatched(key.alg, key) /\ Signable(key.alg, key)
        /\ Cardinality(issued) < MaxTokens
        /\ issued' = issued \union {Token(hdr, text, sig)}
        /\ vouched' = IF claims = NotObject THEN vouched
                      ELSE vouched \union
                           {[mat |-> key.mat, claims |-> claims,
                             times |-> [n \in TimeClaims |-> MeantTime(claims, n)]]}
        /\ last' = NoCall
        /\ UNCHANGED <<now, draft, asked, setters, held, alive>>

\* What can be handed to parse() and verify(): any recombination of the texts in
\* circulation, an unsigned token's header, one that is malformed, and a
\* signature that is empty or does not decode.
OtherHeaders == {NewHeader("none", None, {}), NewHeader("HS256", NonString, {})}

Tokens ==
    [hdr : {t.hdr : t \in issued} \union OtherHeaders,
     text : {t.text : t \in issued},
     sig : {t.sig : t \in issued} \union {None, Garbled}]

\* parse(): both overloads go through a noexcept parser of the JWS.
Parse(tok) ==
    /\ Ready
    /\ alive' = ~ParseThrows(Compact(tok))
    /\ LET claims == ParsedClaims(tok)
       IN  held' = IF claims = None THEN None ELSE [claims |-> claims, by |-> None]
    /\ last' = NoCall
    /\ UNCHANGED <<now, draft, asked, setters, issued, vouched>>

\* verify(): the JWS is parsed, checked, and parsed once more for its claims.
Verify(tok, key, fault) ==
    /\ Ready
    /\ alive' = ~ParseThrows(Compact(tok))
    /\ LET claims == IF Parses(Compact(tok)) /\ Verifies(tok, key, fault)
                     THEN ParsedClaims(tok) ELSE None
       IN  held' = IF claims = None THEN None ELSE [claims |-> claims, by |-> key.mat]
    /\ last' = NoCall
    /\ UNCHANGED <<now, draft, asked, setters, issued, vouched>>

\* validate() on the object held.
Validate(e) ==
    /\ alive
    /\ held # None
    /\ last' = [NoCall EXCEPT !.op = "validate", !.ok = Valid(held.claims, now, e),
                              !.expected = e]
    /\ UNCHANGED <<now, draft, asked, setters, issued, vouched, held, alive>>

\* Time passes.  Only validate() looks at the clock, so it is seen to pass only
\* while there are claims to validate.
Tick ==
    /\ held # None
    /\ now < MaxNow
    /\ now' = now + 1
    /\ last' = NoCall
    /\ UNCHANGED <<draft, asked, setters, issued, vouched, held, alive>>

Init ==
    /\ now = 0
    /\ draft = NoClaims
    /\ asked = NoTimes
    /\ setters = 0
    /\ issued = {}
    /\ vouched = {}
    /\ held = None
    /\ last = NoCall
    /\ alive = TRUE

Next ==
    \/ \E n \in TimeClaims, t \in Times : SetTime(n, t)
    \/ \E p \in TextSettings : SetText(p[1], p[2])
    \/ \E list \in AudienceLists : SetAudience(list)
    \/ \E key \in Keys, alg \in Algorithms : Sign(key, alg)
    \/ \E key \in Keys, claims \in ForeignClaims : Receive(key, claims)
    \/ \E tok \in Tokens : Parse(tok)
    \/ \E tok \in Tokens, key \in Keys, fault \in Faults : Verify(tok, key, fault)
    \/ \E e \in Expectations : Validate(e)
    \/ Tick

Spec == Init /\ [][Next]_vars

-----------------------------------------------------------------------------
(* Properties. *)

\* Every variable has its type: what the setters and the parser leave in a JWT
\* object is a map from names to JSON values, with times that fit an int.
TypeOK ==
    /\ now \in 0..MaxNow
    /\ IsClaims(draft)
    /\ \A n \in TimeClaims \intersect DOMAIN draft :
           draft[n].type = "number" => draft[n].secs \in -HalfRange..(HalfRange - 1)
    /\ asked \in [TimeClaims -> Times \union {None}]
    /\ setters \in 0..MaxSetters
    /\ \A t \in issued : /\ t.hdr \in HeaderTexts
                         /\ t.text.bytes # NotObject => IsClaims(t.text.bytes)
    /\ \A v \in vouched : v.mat \in Materials /\ IsClaims(v.claims)
    /\ held # None => IsClaims(held.claims) /\ held.by \in Materials \union {None}
    /\ last.op \in {"none", "sign", "validate"}
    /\ alive \in BOOLEAN

\* A time the library can tell from the one that was meant: after the epoch and
\* within an int for a start; for an end it is enough that what is left of it is
\* not the epoch, for the rest comes out earlier than it was.
StartKept(t) == Seconds(t) \in 1..(HalfRange - 1)
EndKept(t)   == Seconds(t) > 0 /\ AsInt(Seconds(t)) # 0

Accepted == last.op = "validate" /\ last.ok
Rejected == last.op = "validate" /\ ~last.ok

\* Claims that were verified and then found valid are claims that a holder of
\* the verifying key's material signed, for the issuer and audience expected,
\* and the clock is within the time meant by whoever signed them: never after
\* the end, and before the start by less than the second that the setter drops.
WithinWindow ==
    Accepted /\ held.by # None =>
        \E v \in vouched :
            /\ v.mat = held.by
            /\ v.claims = held.claims
            /\ PartiesMatch(v.claims, last.expected)
            /\ v.times.exp # None /\ EndKept(v.times.exp) =>
                   now <= v.times.exp + TimePoint(last.expected.leeway)
            /\ v.times.nbf # None /\ StartKept(v.times.nbf) =>
                   now + TimePoint(last.expected.leeway) > v.times.nbf - TicksPerSecond

\* The converse: claims meant for these parties are turned down only outside the
\* time meant, give or take the second the setter drops from the end.
RejectedOnlyOutside ==
    Rejected /\ held.by # None /\ PartiesMatch(held.claims, last.expected) =>
        \A v \in {w \in vouched : w.claims = held.claims} :
            LET leeway == TimePoint(last.expected.leeway)
                exp    == v.times.exp
                nbf    == v.times.nbf
            IN  \/ exp # None /\ ~StartKept(exp)
                \/ nbf # None /\ ~StartKept(nbf)
                \/ exp # None /\ now > exp - TicksPerSecond + leeway
                \/ nbf # None /\ now < nbf - leeway

\* What JWT::sign returned verifies with every copy of the key it was signed
\* with, whatever algorithm was put in place of the default, and yields the
\* claims that went in.
SignedTokensVerify ==
    \A t \in issued, key \in Keys :
        /\ t.sig # None
        /\ t.text.bytes # NotObject
        /\ key.mat = t.sig.mat
        =>
                /\ Verifies(t, key, "none")
                /\ [mat |-> key.mat, claims |-> ParsedClaims(t)] \in
                       {[mat |-> v.mat, claims |-> v.claims] : v \in vouched}

\* Claims once expired stay so: no later call accepts them with the leeway that
\* was not enough before, while the same object is held.
ExpiredStaysExpired ==
    [][\A e \in Expectations :
           /\ held # None /\ held' = held
           /\ GetTime(held.claims, "exp") # Epoch
           /\ now > GetTime(held.claims, "exp") + TimePoint(e.leeway)
           => ~Valid(held'.claims, now', e)]_vars
=============================================================================
