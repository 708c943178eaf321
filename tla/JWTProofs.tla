----------------------------- MODULE JWTProofs -----------------------------
(***************************************************************************)
(* Proofs about JWT, for every set of keys, texts, times and claims, every *)
(* width of an int and every resolution of the clock: type correctness,    *)
(* that verified claims are accepted only within the time meant and turned *)
(* down only outside it, that signed tokens verify, and that what expired  *)
(* stays so.                                                               *)
(*                                                                         *)
(* The invariant IInv says what a token in circulation is: a text signed   *)
(* over its own header and payload by one of the keys, whose claims its    *)
(* signer vouched for, with times that the claims keep.                    *)
(***************************************************************************)
EXTENDS JWT, TLAPS

-----------------------------------------------------------------------------
(* Arithmetic of times. *)

\* HalfRange is a positive natural; what the proofs know of the two divisors.
LEMMA Divisors ==
    HalfRange \in Nat /\ HalfRange > 0 /\ TicksPerSecond \in Nat /\ TicksPerSecond > 0
BY TimeAssumption

\* A cast to int yields an int.
LEMMA AsIntRange ==
    ASSUME NEW n \in Int
    PROVE  AsInt(n) \in -HalfRange..(HalfRange - 1)
<1> DEFINE H == HalfRange
           r == (n + H) % (2 * H)
<1>1. H \in Nat /\ H > 0
  BY Divisors
<1>. HIDE DEF H
<1>2. r \in 0..(2 * H - 1)
  BY <1>1
<1>. HIDE DEF r
<1>3. r - H \in -H..(H - 1)
  BY <1>1, <1>2
<1> QED
  BY <1>3 DEF AsInt, H, r

\* A cast to int keeps what fits one.
LEMMA AsIntKeeps ==
    ASSUME NEW n \in -HalfRange..(HalfRange - 1)
    PROVE  AsInt(n) = n
<1> DEFINE H == HalfRange
<1>1. H \in Nat /\ H > 0
  BY Divisors
<1>. HIDE DEF H
<1>2. ASSUME NEW m \in 0..(2 * H - 1)
      PROVE  m % (2 * H) = m
  BY <1>1
<1>3. n \in -H..(H - 1)
  BY DEF H
<1>4. n + H \in 0..(2 * H - 1)
  BY <1>1, <1>3
<1>5. ((n + H) % (2 * H)) - H = n
  BY <1>1, <1>2, <1>3, <1>4
<1> QED
  BY <1>5 DEF AsInt, H

\* A cast to int makes no number after the epoch larger.
LEMMA AsIntBelow ==
    ASSUME NEW n \in Nat
    PROVE  AsInt(n) <= n
<1> DEFINE H == HalfRange
<1>1. H \in Nat /\ H > 0
  BY Divisors
<1>. HIDE DEF H
<1>2. ASSUME NEW m \in Nat PROVE m % (2 * H) \in Nat /\ m % (2 * H) <= m
  BY <1>1
<1>3. ((n + H) % (2 * H)) - H <= n
  BY <1>1, <1>2
<1> QED
  BY <1>3 DEF AsInt, H

\* duration_cast on a time after the epoch: what it drops is less than a second.
LEMMA SecondsOf ==
    ASSUME NEW t \in Int
    PROVE  /\ Seconds(t) \in Int
           /\ t >= 0 => /\ TimePoint(Seconds(t)) <= t
                        /\ t < TimePoint(Seconds(t)) + TicksPerSecond
           /\ Seconds(t) > 0 => t >= 0
<1> DEFINE T == TicksPerSecond
<1>1. T \in Nat /\ T > 0
  BY Divisors
<1>. HIDE DEF T
<1>2. ASSUME NEW a \in Nat
      PROVE  a \div T \in Nat /\ (a \div T) * T <= a /\ a < (a \div T) * T + T
  BY <1>1
<1>3. t >= 0 => /\ t \div T \in Nat /\ (t \div T) * T <= t /\ t < (t \div T) * T + T
  BY <1>2
<1>4. t < 0 => (-t) \div T \in Nat
  BY <1>2
<1> QED
  BY <1>3, <1>4 DEF Seconds, TimePoint, T

\* A whole number of seconds is that number of seconds.
LEMMA SecondsOfTimePoint ==
    ASSUME NEW n \in Int
    PROVE  TimePoint(n) \in Int /\ Seconds(TimePoint(n)) = n
<1> DEFINE T == TicksPerSecond
<1>1. T \in Nat /\ T > 0
  BY Divisors
<1>. HIDE DEF T
<1>2. ASSUME NEW a \in Int PROVE a * T \in Int /\ (a * T) \div T = a
  BY <1>1
<1>3. n * T >= 0 \/ (-(n * T) = (-n) * T)
  BY <1>1
<1>4. n * T >= 0 => (n * T) \div T = n
  BY <1>2
<1>5. ~(n * T >= 0) => -((-(n * T)) \div T) = n
  BY <1>2, <1>3
<1> QED
  BY <1>2, <1>4, <1>5 DEF Seconds, TimePoint, T

\* More seconds are a later time.
LEMMA TimePointMonotone ==
    ASSUME NEW m \in Int, NEW n \in Int, m <= n
    PROVE  TimePoint(m) <= TimePoint(n)
<1> DEFINE T == TicksPerSecond
<1>1. T \in Nat /\ T > 0
  BY Divisors
<1>. HIDE DEF T
<1>2. m * T <= n * T
  BY <1>1
<1> QED
  BY <1>2 DEF TimePoint, T

-----------------------------------------------------------------------------
(* The inductive invariant. *)

\* The time claims keep the times meant: there is a number exactly where a time
\* was meant, and an int cannot tell it from the seconds of that time.
TimesMeant(claims, times) ==
    \A n \in TimeClaims :
        /\ Has(claims, n, "number") <=> times[n] # None
        /\ times[n] # None => AsInt(claims[n].secs) = AsInt(Seconds(times[n]))

CounterType ==
    /\ now \in 0..MaxNow
    /\ setters \in 0..MaxSetters
    /\ last.op \in {"none", "sign", "validate"}
    /\ alive \in BOOLEAN

DraftKept ==
    /\ draft \in Drafts
    /\ asked \in [TimeClaims -> Times \union {None}]
    /\ TimesMeant(draft, asked)

VouchedMeant ==
    \A v \in vouched :
        /\ v.mat \in Materials
        /\ IsClaims(v.claims)
        /\ v.times \in [TimeClaims -> Int \union {None}]
        /\ TimesMeant(v.claims, v.times)

Vouches(claims, mat) == \E v \in vouched : v.mat = mat /\ v.claims = claims

\* A signature over the token's own texts, by a key that can make it, of claims
\* the key's holder vouched for.
Genuine(t) ==
    /\ t.sig = SigTerm(t.hdr.alg, t.sig.mat, SigningInput(t.hdr, t.text))
    /\ \E key \in Keys : /\ key.mat = t.sig.mat
                         /\ key.kid = t.hdr.kid
                         /\ SignDispatched(t.hdr.alg, key) /\ Signable(t.hdr.alg, key)
    /\ t.text.bytes # NotObject => Vouches(t.text.bytes, t.sig.mat)

IssuedGenuine ==
    \A t \in issued :
        /\ t.hdr \in HeaderTexts
        /\ HeaderKnown(t.hdr) /\ t.hdr.kid # NonString
        /\ t.text \in PayloadTexts
        /\ t.text.bytes \in Drafts \union ForeignClaims
        /\ t.sig # None => Genuine(t)

HeldVouched ==
    held # None =>
        /\ IsClaims(held.claims)
        /\ held.by \in Materials \union {None}
        /\ held.by # None => Vouches(held.claims, held.by)

\* The answer of validate() stands until the next call or tick.
AnswerStands ==
    last.op = "validate" =>
        /\ held # None
        /\ last.expected \in Expectations
        /\ last.ok = Valid(held.claims, now, last.expected)

IInv ==
    /\ CounterType
    /\ DraftKept
    /\ VouchedMeant
    /\ IssuedGenuine
    /\ HeldVouched
    /\ AnswerStands

-----------------------------------------------------------------------------
(* Claims. *)

\* What the setters leave in a JWT object is a map from names to JSON values,
\* with times that fit an int.
LEMMA DraftsAreClaims ==
    ASSUME NEW c \in Drafts
    PROVE  /\ IsClaims(c)
           /\ \A n \in DOMAIN c : c[n].type = "number" =>
                  c[n].secs \in -HalfRange..(HalfRange - 1)
<1>1. PICK names \in SUBSET ClaimNames : c \in [names -> SetterValues]
  BY DEF Drafts
<1>2. ASSUME NEW v \in SetterValues
      PROVE  IsValue(v) /\ (v.type = "number" => v.secs \in -HalfRange..(HalfRange - 1))
  <2>1. CASE \E p \in TextSettings : v = Text(p[2])
    <3>1. PICK p \in TextSettings : v = Text(p[2])
      BY <2>1
    <3>2. p[2] \in Strings
      BY ClaimsAssumption
    <3> QED
      BY <3>1, <3>2 DEF Text, IsValue
  <2>2. CASE \E t \in Times : v = StoredTime(t)
    <3>1. PICK t \in Times : v = StoredTime(t)
      BY <2>2
    <3>2. AsInt(Seconds(t)) \in -HalfRange..(HalfRange - 1)
      BY TimeAssumption, SecondsOf, AsIntRange
    <3>3. AsInt(Seconds(t)) \in Int
      BY <3>2, Divisors
    <3> QED
      BY <3>1, <3>2, <3>3 DEF StoredTime, Number, IsValue
  <2>3. CASE \E list \in AudienceLists : Len(list) = 1 /\ v = Text(list[1])
    <3>1. PICK list \in AudienceLists : Len(list) = 1 /\ v = Text(list[1])
      BY <2>3
    <3>2. list[1] \in Strings
      BY <3>1, ClaimsAssumption
    <3> QED
      BY <3>1, <3>2 DEF Text, IsValue
  <2>4. CASE \E list \in AudienceLists : v = Array(list)
    <3>1. PICK list \in AudienceLists : v = Array(list)
      BY <2>4
    <3>2. list \in Seq(Strings \union {NonString})
      BY ClaimsAssumption
    <3> QED
      BY <3>1, <3>2 DEF Array, IsValue
  <2> QED
    BY <2>1, <2>2, <2>3, <2>4 DEF SetterValues
<1>3. c = [n \in DOMAIN c |-> c[n]] /\ DOMAIN c = names
  BY <1>1
<1>4. \A n \in DOMAIN c : c[n] \in SetterValues
  BY <1>1
<1> QED
  BY <1>2, <1>3, <1>4 DEF IsClaims

\* Every payload in circulation but NotObject is a map of claims.
LEMMA PayloadsAreClaims ==
    ASSUME NEW c \in Drafts \union ForeignClaims, c # NotObject
    PROVE  IsClaims(c)
BY DraftsAreClaims, ClaimsAssumption

\* What a time claim holds is a time.
LEMMA GetTimeType ==
    ASSUME NEW claims, IsClaims(claims), NEW n \in TimeClaims
    PROVE  /\ GetTime(claims, n) \in Int
           /\ Has(claims, n, "number") => claims[n].secs \in Int
<1>1. ASSUME Has(claims, n, "number") PROVE claims[n].secs \in Int
  BY <1>1 DEF Has, IsClaims, IsValue
<1>2. ASSUME Has(claims, n, "number") PROVE TimePoint(AsInt(claims[n].secs)) \in Int
  <2>1. AsInt(claims[n].secs) \in Int
    BY <1>1, <1>2, AsIntRange, Divisors
  <2> QED
    BY <2>1, SecondsOfTimePoint
<1> QED
  BY <1>1, <1>2 DEF GetTime, Epoch

\* Where a time was meant, the getter returns what an int keeps of it.
LEMMA MeantTimeRead ==
    ASSUME NEW claims, NEW times \in [TimeClaims -> Int \union {None}],
           TimesMeant(claims, times), NEW n \in TimeClaims
    PROVE  /\ times[n] # None => /\ times[n] \in Int
                                 /\ GetTime(claims, n) = TimePoint(AsInt(Seconds(times[n])))
           /\ times[n] = None => GetTime(claims, n) = Epoch
BY DEF TimesMeant, GetTime

\* An end that is kept is read as no later than it was meant.
LEMMA EndRead ==
    ASSUME NEW t \in Int, EndKept(t)
    PROVE  TimePoint(AsInt(Seconds(t))) # Epoch /\ TimePoint(AsInt(Seconds(t))) <= t
<1> DEFINE s == Seconds(t)
           a == AsInt(s)
<1>1. s \in Nat /\ a # 0 /\ TimePoint(s) <= t
  BY SecondsOf DEF EndKept
<1>2. a <= s /\ a \in Int
  BY <1>1, AsIntBelow, AsIntRange, Divisors
<1>3. TimePoint(a) <= TimePoint(s) /\ TimePoint(a) \in Int /\ TimePoint(s) \in Int
  BY <1>1, <1>2, TimePointMonotone, SecondsOfTimePoint
<1>4. TimePoint(a) # Epoch
  BY <1>1, <1>2, Divisors DEF TimePoint, Epoch
<1> QED
  BY <1>1, <1>3, <1>4

\* A time that is kept is read as the second it falls in.
LEMMA StartRead ==
    ASSUME NEW t \in Int, StartKept(t)
    PROVE  /\ TimePoint(AsInt(Seconds(t))) \in Int
           /\ TimePoint(AsInt(Seconds(t))) # Epoch
           /\ TimePoint(AsInt(Seconds(t))) <= t
           /\ t < TimePoint(AsInt(Seconds(t))) + TicksPerSecond
<1> DEFINE s == Seconds(t)
<1>1. s \in Int /\ s > 0 /\ s \in -HalfRange..(HalfRange - 1)
  BY Divisors DEF StartKept
<1>2. AsInt(s) = s
  BY <1>1, AsIntKeeps
<1>3. TimePoint(s) \in Int /\ TimePoint(s) <= t /\ t < TimePoint(s) + TicksPerSecond
  BY <1>1, SecondsOf, SecondsOfTimePoint
<1>4. TimePoint(s) # Epoch
  BY <1>1, Divisors DEF TimePoint, Epoch
<1> QED
  BY <1>2, <1>3, <1>4

-----------------------------------------------------------------------------
(* The steps. *)

\* A setter changes one claim.
LEMMA PutDraft ==
    ASSUME NEW c \in Drafts, NEW n \in ClaimNames, NEW v \in SetterValues
    PROVE  /\ Put(c, n, v) \in Drafts
           /\ Has(Put(c, n, v), n, "number") <=> v.type = "number"
           /\ Put(c, n, v)[n] = v
           /\ \A m \in TimeClaims \ {n} :
                  /\ Has(Put(c, n, v), m, "number") <=> Has(c, m, "number")
                  /\ Has(c, m, "number") => Put(c, n, v)[m] = c[m]
<1>1. PICK names \in SUBSET ClaimNames : c \in [names -> SetterValues]
  BY DEF Drafts
<1>2. DOMAIN c = names /\ \A m \in names : c[m] \in SetterValues
  BY <1>1
<1> DEFINE p == Put(c, n, v)
<1>3. /\ DOMAIN p = names \union {n}
      /\ \A m \in names \union {n} : p[m] = IF m = n THEN v ELSE c[m]
      /\ p = [m \in names \union {n} |-> p[m]]
  BY <1>2 DEF Put
<1>. HIDE DEF p
<1>4. p \in [names \union {n} -> SetterValues]
  BY <1>2, <1>3
<1>5. p \in Drafts
  BY <1>1, <1>4 DEF Drafts
<1>6. \A m \in TimeClaims \ {n} :
          /\ Has(p, m, "number") <=> Has(c, m, "number")
          /\ Has(c, m, "number") => p[m] = c[m]
  BY <1>2, <1>3 DEF Has
<1> QED
  BY <1>3, <1>5, <1>6 DEF Has, p

\* The setters change the draft and what was asked of it together.
LEMMA SettersKept ==
    ASSUME DraftKept,
           \/ \E n \in TimeClaims, t \in Times : SetTime(n, t)
           \/ \E p \in TextSettings : SetText(p[1], p[2])
           \/ \E list \in AudienceLists : SetAudience(list)
    PROVE  DraftKept'
<1>1. /\ draft \in Drafts /\ asked \in [TimeClaims -> Times \union {None}]
      /\ TimesMeant(draft, asked)
  BY DEF DraftKept
<1>2. ASSUME NEW n \in TimeClaims, NEW t \in Times, SetTime(n, t)
      PROVE  DraftKept'
  <2>1. draft' = Put(draft, n, StoredTime(t)) /\ asked' = [asked EXCEPT ![n] = t]
    BY <1>2 DEF SetTime
  <2>2. n \in ClaimNames /\ StoredTime(t) \in SetterValues
    BY DEF ClaimNames, SetterValues
  <2>3. asked' \in [TimeClaims -> Times \union {None}] /\ t # None
    BY <1>1, <2>1, TimeAssumption
  <2>4. AsInt(AsInt(Seconds(t))) = AsInt(Seconds(t))
    BY AsIntRange, AsIntKeeps, SecondsOf, TimeAssumption
  <2>5. StoredTime(t).type = "number" /\ StoredTime(t).secs = AsInt(Seconds(t))
    BY DEF StoredTime, Number
  <2>6. /\ Has(draft', n, "number") /\ asked'[n] = t
        /\ AsInt(draft'[n].secs) = AsInt(Seconds(t))
    BY <1>1, <2>1, <2>2, <2>4, <2>5, PutDraft
  <2>7. ASSUME NEW m \in TimeClaims \ {n}
        PROVE  /\ Has(draft', m, "number") <=> asked'[m] # None
               /\ asked'[m] # None => AsInt(draft'[m].secs) = AsInt(Seconds(asked'[m]))
    <3>1. asked'[m] = asked[m]
      BY <1>1, <2>1
    <3>2. /\ Has(draft', m, "number") <=> Has(draft, m, "number")
          /\ Has(draft, m, "number") => draft'[m] = draft[m]
      BY <1>1, <2>1, <2>2, PutDraft
    <3> QED
      BY <1>1, <3>1, <3>2 DEF TimesMeant
  <2>8. draft' \in Drafts
    BY <1>1, <2>1, <2>2, PutDraft
  <2> QED
    BY <2>3, <2>6, <2>7, <2>8 DEF DraftKept, TimesMeant
<1>3. ASSUME NEW p \in TextSettings, SetText(p[1], p[2])
      PROVE  DraftKept'
  <2> DEFINE n == p[1]
  <2>1. /\ draft' = Put(draft, n, Text(p[2]))
        /\ asked' = IF n \in TimeClaims THEN [asked EXCEPT ![n] = None] ELSE asked
    BY <1>3 DEF SetText
  <2>2. n \in ClaimNames /\ Text(p[2]) \in SetterValues /\ Text(p[2]).type # "number"
    BY DEF ClaimNames, SetterValues, Text
  <2>. HIDE DEF n
  <2>3. /\ asked' \in [TimeClaims -> Times \union {None}]
        /\ n \in TimeClaims => asked'[n] = None
    BY <1>1, <2>1
  <2>4. ~Has(draft', n, "number")
    BY <1>1, <2>1, <2>2, PutDraft
  <2>5. ASSUME NEW m \in TimeClaims \ {n}
        PROVE  /\ Has(draft', m, "number") <=> asked'[m] # None
               /\ asked'[m] # None => AsInt(draft'[m].secs) = AsInt(Seconds(asked'[m]))
    <3>1. asked'[m] = asked[m]
      BY <1>1, <2>1
    <3>2. /\ Has(draft', m, "number") <=> Has(draft, m, "number")
          /\ Has(draft, m, "number") => draft'[m] = draft[m]
      BY <1>1, <2>1, <2>2, PutDraft
    <3> QED
      BY <1>1, <3>1, <3>2 DEF TimesMeant
  <2>6. draft' \in Drafts
    BY <1>1, <2>1, <2>2, PutDraft
  <2> QED
    BY <2>3, <2>4, <2>5, <2>6 DEF DraftKept, TimesMeant
<1>4. ASSUME NEW list \in AudienceLists, SetAudience(list)
      PROVE  DraftKept'
  <2>1. asked' = asked
    BY <1>4 DEF SetAudience
  <2>2. list \in Seq(Strings) /\ Len(list) \in Nat
    BY ClaimsAssumption
  <2>3. CASE draft' = draft
    BY <1>1, <2>1, <2>3 DEF DraftKept
  <2>4. CASE \E v \in SetterValues : draft' = Put(draft, "aud", v)
    <3>1. PICK v \in SetterValues : draft' = Put(draft, "aud", v)
      BY <2>4
    <3>2. "aud" \in ClaimNames /\ "aud" \notin TimeClaims
      BY DEF ClaimNames, TimeClaims
    <3>3. draft' \in Drafts
      BY <1>1, <3>1, <3>2, PutDraft
    <3>4. \A m \in TimeClaims :
              /\ Has(draft', m, "number") <=> Has(draft, m, "number")
              /\ Has(draft, m, "number") => draft'[m] = draft[m]
      BY <1>1, <3>1, <3>2, PutDraft
    <3> QED
      BY <1>1, <2>1, <3>3, <3>4 DEF DraftKept, TimesMeant
  <2>5. Len(list) = 1 => Text(list[1]) \in SetterValues
    BY DEF SetterValues
  <2>6. Len(list) > 1 => Array(list) \in SetterValues
    BY DEF SetterValues
  <2>7. \/ draft' = draft
        \/ Len(list) = 1 /\ draft' = Put(draft, "aud", Text(list[1]))
        \/ Len(list) > 1 /\ draft' = Put(draft, "aud", Array(list))
    <3> DEFINE n == Len(list)
    <3>1. n = 0 \/ n = 1 \/ n > 1
      <4>1. n \in Nat
        BY <2>2
      <4>. HIDE DEF n
      <4> QED
        BY <4>1
    <3>2. draft' = IF n = 0 THEN draft
                   ELSE Put(draft, "aud", IF n = 1 THEN Text(list[1]) ELSE Array(list))
      BY <1>4 DEF SetAudience
    <3>. HIDE DEF n
    <3>3. \/ draft' = draft
          \/ n = 1 /\ draft' = Put(draft, "aud", Text(list[1]))
          \/ n > 1 /\ draft' = Put(draft, "aud", Array(list))
      BY <3>1, <3>2
    <3> QED
      BY <3>3 DEF n
  <2> QED
    BY <2>3, <2>4, <2>5, <2>6, <2>7
<1> QED
  BY <1>2, <1>3, <1>4

\* A header that sign() or another producer writes.
LEMMA HeaderWritten ==
    ASSUME NEW alg \in SigAlgs, NEW key \in Keys
    PROVE  /\ NewHeader(alg, key.kid, {}) \in HeaderTexts
           /\ HeaderKnown(NewHeader(alg, key.kid, {}))
           /\ NewHeader(alg, key.kid, {}).alg = alg
           /\ NewHeader(alg, key.kid, {}).kid = key.kid
           /\ key.kid # NonString
<1>1. key.kid \in Kids \union {None}
  BY ProgramAssumption DEF JWKs
<1>2. key.kid # NonString
  BY <1>1, TextAssumption
<1> QED
  BY <1>1, <1>2 DEF NewHeader, HeaderTexts, HeaderKnown

\* An algorithm a key is dispatched for is one a header can name, and not "none".
LEMMA DispatchedAlgorithm ==
    ASSUME NEW alg, NEW key, KeyFits(alg, key)
    PROVE  alg \in SigAlgs /\ alg # "none"
BY DEF KeyFits, SigAlgs, HMACAlgs, RSAAlgs, ECDSAAlgs

\* A material is never None.
LEMMA KeyMaterial ==
    ASSUME NEW key \in Keys
    PROVE  key.mat \in Materials /\ key.mat # None
BY ProgramAssumption DEF JWKs

\* A new token by a key that can make it, its claims vouched for by now, is
\* what it should be, and so are those that were in circulation.
LEMMA TokenIssued ==
    ASSUME IssuedGenuine, vouched \subseteq vouched',
           NEW alg \in SigAlgs, NEW key \in Keys, NEW claims \in Drafts \union ForeignClaims,
           NEW sig,
           issued' = issued \union
               {Token(NewHeader(alg, key.kid, {}), EncodePayload(claims), sig)},
           sig # None =>
               /\ sig = SigTerm(alg, key.mat, SigningInput(NewHeader(alg, key.kid, {}),
                                                          EncodePayload(claims)))
               /\ SignDispatched(alg, key) /\ Signable(alg, key)
               /\ claims # NotObject => Vouches(claims, key.mat)'
    PROVE  IssuedGenuine'
<1> DEFINE hdr  == NewHeader(alg, key.kid, {})
           text == EncodePayload(claims)
           tok  == Token(hdr, text, sig)
<1>1. /\ hdr \in HeaderTexts /\ HeaderKnown(hdr) /\ hdr.alg = alg /\ hdr.kid = key.kid
      /\ hdr.kid # NonString
  BY HeaderWritten
<1>2. text \in PayloadTexts /\ text.bytes = claims
  BY ClaimsAssumption DEF EncodePayload, PayloadTexts
<1>3. tok.hdr = hdr /\ tok.text = text /\ tok.sig = sig
  BY DEF Token
<1>4. sig # None =>
          /\ sig = SigTerm(alg, key.mat, SigningInput(hdr, text))
          /\ SignDispatched(alg, key) /\ Signable(alg, key)
          /\ claims # NotObject => Vouches(claims, key.mat)'
  OBVIOUS
<1>5. issued' = issued \union {tok}
  OBVIOUS
<1>. HIDE DEF hdr, text, tok
<1>6. ASSUME sig # None PROVE Genuine(tok)'
  <2>1. sig.mat = key.mat
    BY <1>4, <1>6 DEF SigTerm
  <2>2. sig = SigTerm(hdr.alg, sig.mat, SigningInput(hdr, text))
    BY <1>1, <1>4, <1>6, <2>1
  <2>3. \E k \in Keys : /\ k.mat = sig.mat /\ k.kid = hdr.kid
                        /\ SignDispatched(hdr.alg, k) /\ Signable(hdr.alg, k)
    BY <1>1, <1>4, <1>6, <2>1
  <2>4. text.bytes # NotObject => Vouches(text.bytes, sig.mat)'
    BY <1>2, <1>4, <1>6, <2>1 DEF Vouches
  <2> QED
    BY <1>3, <2>2, <2>3, <2>4 DEF Genuine, Vouches
<1>7. ASSUME NEW t \in issued, Genuine(t) PROVE Genuine(t)'
  BY <1>7 DEF Genuine, Vouches
<1> QED
  BY <1>1, <1>2, <1>3, <1>5, <1>6, <1>7 DEF IssuedGenuine

\* Who vouched for what only grows, so what is held stays vouched for.
LEMMA HeldKept ==
    ASSUME HeldVouched, UNCHANGED held, vouched \subseteq vouched'
    PROVE  HeldVouched'
BY DEF HeldVouched, Vouches

\* sign().
LEMMA SignKept ==
    ASSUME IInv, NEW key \in Keys, NEW alg \in Algorithms, Sign(key, alg)
    PROVE  IssuedGenuine' /\ VouchedMeant' /\ vouched \subseteq vouched'
<1> SUFFICES ASSUME NEW claims, claims = draft
             PROVE  IssuedGenuine' /\ VouchedMeant' /\ vouched \subseteq vouched'
  OBVIOUS
<1> DEFINE actual == ActualAlgorithm(key, alg)
           hdr    == NewHeader(actual, key.kid, {})
           text   == EncodePayload(claims)
           able   == /\ key.use = "sig"
                     /\ actual # "none" => SignDispatched(actual, key) /\ Signable(actual, key)
           sigs   == IF able THEN NewSignatures(actual, key, SigningInput(hdr, text)) ELSE {}
           voucher == [mat |-> key.mat, claims |-> claims, times |-> asked]
<1>1. /\ DraftKept /\ VouchedMeant /\ IssuedGenuine
      /\ claims \in Drafts /\ asked \in [TimeClaims -> Times \union {None}]
      /\ TimesMeant(claims, asked)
  BY DEF IInv, DraftKept
<1>2. actual \in SigAlgs
  BY ProgramAssumption DEF ActualAlgorithm, SigAlgs, HMACAlgs, ECDSAAlgs
<1>3. CASE UNCHANGED <<issued, vouched>>
  BY <1>1, <1>3 DEF IssuedGenuine, Genuine, Vouches, VouchedMeant
<1>4. ASSUME NEW sig \in sigs,
             issued' = issued \union {Token(hdr, text, sig)},
             vouched' = IF actual = "none" THEN vouched ELSE vouched \union {voucher}
      PROVE  IssuedGenuine' /\ VouchedMeant' /\ vouched \subseteq vouched'
  <2>1. vouched \subseteq vouched'
    BY <1>4
  <2>2. /\ voucher.mat = key.mat /\ voucher.claims = claims /\ voucher.times = asked
    OBVIOUS
  <2>3. VouchedMeant'
    <3>1. /\ key.mat \in Materials /\ IsClaims(claims)
          /\ asked \in [TimeClaims -> Int \union {None}]
      BY <1>1, KeyMaterial, DraftsAreClaims, TimeAssumption
    <3>2. vouched' \subseteq vouched \union {voucher}
      BY <1>4
    <3>. HIDE DEF voucher
    <3> QED
      BY <1>1, <2>2, <3>1, <3>2 DEF VouchedMeant
  <2>4. ASSUME sig # None
        PROVE  /\ sig = SigTerm(actual, key.mat, SigningInput(hdr, text))
               /\ SignDispatched(actual, key) /\ Signable(actual, key)
               /\ Vouches(claims, key.mat)'
    <3>1. able /\ actual # "none" /\ sig \in SignOutcomes(actual, key, SigningInput(hdr, text))
      BY <1>4, <2>4 DEF NewSignatures
    <3>2. /\ sig = SigTerm(actual, key.mat, SigningInput(hdr, text))
          /\ SignDispatched(actual, key) /\ Signable(actual, key)
      BY <2>4, <3>1 DEF SignOutcomes
    <3>3. voucher \in vouched'
      BY <1>4, <3>1
    <3> QED
      BY <2>2, <3>2, <3>3 DEF Vouches
  <2>. HIDE DEF actual, voucher, sigs, able
  <2> QED
    BY <1>1, <1>2, <1>4, <2>1, <2>3, <2>4, TokenIssued
<1>5. \/ UNCHANGED <<issued, vouched>>
      \/ \E sig \in sigs :
            /\ issued' = issued \union {Token(hdr, text, sig)}
            /\ vouched' = IF actual = "none" THEN vouched ELSE vouched \union {voucher}
  BY DEF Sign
<1>. HIDE DEF actual, hdr, text, voucher, sigs, able
<1>6. UNCHANGED <<issued, vouched>> => vouched \subseteq vouched'
  OBVIOUS
<1> QED
  BY <1>3, <1>4, <1>5, <1>6

\* A token of another producer arrives.
LEMMA ReceiveKept ==
    ASSUME IInv, NEW key \in Keys, NEW claims \in ForeignClaims, Receive(key, claims)
    PROVE  IssuedGenuine' /\ VouchedMeant' /\ vouched \subseteq vouched'
<1> DEFINE hdr  == NewHeader(key.alg, key.kid, {})
           text == EncodePayload(claims)
           sig  == SigTerm(key.alg, key.mat, SigningInput(hdr, text))
           times == [n \in TimeClaims |-> MeantTime(claims, n)]
           voucher == [mat |-> key.mat, claims |-> claims, times |-> times]
<1>1. VouchedMeant /\ IssuedGenuine
  BY DEF IInv
<1>2. /\ SignDispatched(key.alg, key) /\ Signable(key.alg, key)
      /\ issued' = issued \union {Token(hdr, text, sig)}
      /\ vouched' = IF claims = NotObject THEN vouched ELSE vouched \union {voucher}
  BY DEF Receive
<1>3. key.alg \in SigAlgs
  BY <1>2, DispatchedAlgorithm DEF SignDispatched
<1>4. voucher.mat = key.mat /\ voucher.claims = claims /\ voucher.times = times
  OBVIOUS
<1>5. ASSUME claims # NotObject
      PROVE  /\ IsClaims(claims) /\ key.mat \in Materials
             /\ times \in [TimeClaims -> Int \union {None}]
             /\ TimesMeant(claims, times)
  <2>1. IsClaims(claims) /\ key.mat \in Materials
    BY <1>5, ClaimsAssumption, KeyMaterial
  <2>2. ASSUME NEW n \in TimeClaims
        PROVE  /\ times[n] \in Int \union {None}
               /\ Has(claims, n, "number") <=> times[n] # None
               /\ times[n] # None => AsInt(claims[n].secs) = AsInt(Seconds(times[n]))
    <3>1. times[n] = IF Has(claims, n, "number") THEN TimePoint(claims[n].secs) ELSE None
      BY DEF MeantTime
    <3>2. ASSUME Has(claims, n, "number")
          PROVE  /\ TimePoint(claims[n].secs) \in Int
                 /\ Seconds(TimePoint(claims[n].secs)) = claims[n].secs
      BY <2>1, <3>2, GetTimeType, SecondsOfTimePoint
    <3>. HIDE DEF times
    <3> QED
      BY <3>1, <3>2, TimeAssumption
  <2>3. times \in [TimeClaims -> Int \union {None}]
    BY <2>2
  <2> QED
    BY <2>1, <2>2, <2>3 DEF TimesMeant
<1>. HIDE DEF times
<1>6. VouchedMeant'
  <2>1. CASE claims = NotObject
    BY <1>1, <1>2, <2>1 DEF VouchedMeant
  <2>2. CASE claims # NotObject
    <3>. HIDE DEF voucher
    <3> QED
      BY <1>1, <1>2, <1>4, <1>5, <2>2 DEF VouchedMeant
  <2> QED
    BY <2>1, <2>2
<1>7. claims # NotObject => Vouches(claims, key.mat)'
  <2>. HIDE DEF voucher
  <2> QED
    BY <1>2, <1>4 DEF Vouches
<1>8. vouched \subseteq vouched'
  <2>. HIDE DEF voucher
  <2> QED
    BY <1>2
<1>9. sig = SigTerm(key.alg, key.mat, SigningInput(hdr, text))
  OBVIOUS
<1>. HIDE DEF voucher, sig
<1> QED
  BY <1>1, <1>2, <1>3, <1>6, <1>7, <1>8, <1>9, TokenIssued

\* A compact token offers one entry, of its header and its signature.
LEMMA CompactEntry ==
    ASSUME NEW tok, [hdr |-> tok.hdr, sig |-> tok.sig] # None
    PROVE  Parses(Compact(tok)) <=>
               /\ tok.text \in PayloadTexts
               /\ EntryParses([hdr |-> tok.hdr, sig |-> tok.sig])
<1> DEFINE e == [hdr |-> tok.hdr, sig |-> tok.sig]
<1>1. EntriesOf(Compact(tok)) = <<e>> /\ Compact(tok).payload = tok.text
  BY DEF EntriesOf, Compact
<1>. HIDE DEF e
<1>2. <<e>> # <<>> /\ DOMAIN <<e>> = {1} /\ <<e>>[1] = e
  OBVIOUS
<1> QED
  BY <1>1, <1>2 DEF Parses, e

\* What is in circulation is made of texts.
LEMMA IssuedAreTexts ==
    ASSUME IInv, NEW t \in issued
    PROVE  /\ t.hdr \in HeaderTexts /\ t.text \in PayloadTexts
           /\ t.text.bytes \in Drafts \union ForeignClaims
           /\ t.sig \in Signatures
<1>1. /\ t.hdr \in HeaderTexts /\ HeaderKnown(t.hdr) /\ t.text \in PayloadTexts
      /\ t.text.bytes \in Drafts \union ForeignClaims /\ (t.sig # None => Genuine(t))
  BY DEF IInv, IssuedGenuine
<1>2. ASSUME t.sig # None PROVE t.sig \in Signatures
  <2>1. t.sig = SigTerm(t.hdr.alg, t.sig.mat, SigningInput(t.hdr, t.text))
    BY <1>1, <1>2, Zenon DEF Genuine
  <2>2. t.sig.mat \in Materials
    BY <1>1, <1>2, KeyMaterial, Zenon DEF Genuine
  <2>3. SigningInput(t.hdr, t.text) \in SigningInputs /\ t.hdr.alg \in SigAlgs
    BY <1>1 DEF SigningInput, SigningInputs, HeaderKnown
  <2>4. SigTerm(t.hdr.alg, t.sig.mat, SigningInput(t.hdr, t.text)) \in Signatures
    BY <2>2, <2>3 DEF SigTerm, Signatures
  <2> QED
    BY <2>1, <2>4
<1>3. t.sig \in Signatures
  BY <1>2 DEF Signatures
<1> QED
  BY <1>1, <1>3

\* What is handed to the parser is made of texts.
LEMMA TokensAreTexts ==
    ASSUME IInv, NEW tok \in Tokens
    PROVE  /\ tok.hdr \in HeaderTexts /\ tok.text \in PayloadTexts
           /\ tok.text.bytes \in Drafts \union ForeignClaims
           /\ [hdr |-> tok.hdr, sig |-> tok.sig] # None
<1>1. OtherHeaders \subseteq HeaderTexts
  BY DEF OtherHeaders, NewHeader, HeaderTexts, SigAlgs, HMACAlgs
<1>2. /\ tok.hdr \in HeaderTexts /\ tok.text \in PayloadTexts
      /\ tok.text.bytes \in Drafts \union ForeignClaims
      /\ tok.sig \in Signatures \union {Garbled}
  BY <1>1, IssuedAreTexts DEF Tokens, Signatures
<1> QED
  BY <1>2, TextAssumption DEF WireEntries

\* What a token that parses decodes to.
LEMMA ClaimsRead ==
    ASSUME IInv, NEW tok \in Tokens, ParsedClaims(tok) # None
    PROVE  /\ ParsedClaims(tok) = tok.text.bytes
           /\ tok.text.bytes # NotObject
           /\ IsClaims(tok.text.bytes)
<1>1. ParsedClaims(tok) = tok.text.bytes /\ tok.text.bytes # NotObject
  BY DEF ParsedClaims
<1> QED
  BY <1>1, TokensAreTexts, PayloadsAreClaims

\* The back end says yes only to the one signature of that material and input.
LEMMA VerifiedTerm ==
    ASSUME NEW alg, NEW key, NEW input, NEW sig, NEW fault,
           VerifyOutcome(alg, key, input, sig, fault) = TRUE
    PROVE  sig = SigTerm(alg, key.mat, input)
<1> DEFINE right == sig = SigTerm(alg, key.mat, input)
<1>1. CASE ~Checkable(alg, key)
  BY <1>1, TextAssumption DEF VerifyOutcome
<1>2. CASE Checkable(alg, key) /\ fault = "none"
  <2>1. VerifyOutcome(alg, key, input, sig, fault) = right
    BY <1>2, Zenon DEF VerifyOutcome
  <2> QED
    BY <2>1
<1>3. CASE Checkable(alg, key) /\ fault # "none"
  BY <1>3, TextAssumption DEF VerifyOutcome
<1> QED
  BY <1>1, <1>2, <1>3

\* What verifies was signed by a holder of the key's material, as it stands.
LEMMA VerifiedWasSigned ==
    ASSUME IInv, NEW tok \in Tokens, NEW key \in Keys, NEW fault,
           HeaderKnown(tok.hdr), Verifies(tok, key, fault), tok.text.bytes # NotObject
    PROVE  Vouches(tok.text.bytes, key.mat)
<1> DEFINE input == SigningInput(tok.hdr, tok.text)
<1>1. tok.sig = SigTerm(tok.hdr.alg, key.mat, input)
  BY TextAssumption, VerifiedTerm DEF Verifies, ParseEntry
<1>2. tok.hdr \in HeaderTexts /\ tok.text \in PayloadTexts
  BY TokensAreTexts
<1>3. tok.sig \in [alg : SigAlgs, mat : Materials, input : SigningInputs]
  <2>1. input \in SigningInputs
    BY <1>2 DEF SigningInput, SigningInputs
  <2> QED
    BY <1>1, <2>1, KeyMaterial DEF SigTerm, HeaderKnown
<1>4. tok.sig # None /\ tok.sig # Garbled
  BY <1>3, TextAssumption DEF Signatures
<1>5. PICK t \in issued : t.sig = tok.sig
  BY <1>4 DEF Tokens
<1>6. Genuine(t)
  BY <1>4, <1>5 DEF IInv, IssuedGenuine
<1>7. t.sig.input = SigningInput(t.hdr, t.text)
  BY <1>6 DEF Genuine, SigTerm
<1>8. t.sig.input = input /\ t.sig.mat = key.mat
  BY <1>1, <1>5 DEF SigTerm
<1>9. t.text = tok.text
  BY <1>7, <1>8 DEF SigningInput
<1> QED
  BY <1>6, <1>8, <1>9 DEF Genuine

\* parse() holds claims that came from nobody in particular, verify() claims that
\* a holder of the key's material vouched for.
LEMMA ReadingKept ==
    ASSUME IInv, NEW tok \in Tokens,
           \/ Parse(tok)
           \/ \E key \in Keys, fault \in Faults : Verify(tok, key, fault)
    PROVE  HeldVouched'
<1>1. CASE Parse(tok)
  <2> DEFINE claims == ParsedClaims(tok)
  <2>1. held' = IF claims = None THEN None ELSE [claims |-> claims, by |-> None]
    BY <1>1 DEF Parse
  <2>2. claims # None => IsClaims(claims)
    BY ClaimsRead
  <2>. HIDE DEF claims
  <2> QED
    BY <2>1, <2>2 DEF HeldVouched
<1>2. ASSUME NEW key \in Keys, NEW fault \in Faults, Verify(tok, key, fault)
      PROVE  HeldVouched'
  <2> DEFINE claims == IF Parses(Compact(tok)) /\ Verifies(tok, key, fault)
                       THEN ParsedClaims(tok) ELSE None
  <2>1. /\ held' = IF claims = None THEN None ELSE [claims |-> claims, by |-> key.mat]
        /\ UNCHANGED vouched
    BY <1>2 DEF Verify
  <2>2. ASSUME claims # None
        PROVE  IsClaims(claims) /\ Vouches(claims, key.mat)
    <3>1. /\ Parses(Compact(tok)) /\ Verifies(tok, key, fault)
          /\ claims = tok.text.bytes /\ claims # NotObject /\ IsClaims(claims)
      BY <2>2, ClaimsRead
    <3>2. HeaderKnown(tok.hdr)
      BY <3>1, TokensAreTexts, CompactEntry DEF EntryParses
    <3> QED
      BY <3>1, <3>2, VerifiedWasSigned
  <2>. HIDE DEF claims
  <2>3. key.mat \in Materials
    BY KeyMaterial
  <2>4. CASE claims # None
    <3>1. held'.claims = claims /\ held'.by = key.mat
      BY <2>1, <2>4
    <3> QED
      BY <2>1, <2>2, <2>3, <2>4, <3>1 DEF HeldVouched, Vouches
  <2> QED
    BY <2>1, <2>4 DEF HeldVouched
<1> QED
  BY <1>1, <1>2

\* The counters stay within their bounds, and an answer of validate() is about the
\* object held and the clock as they are.
LEMMA AnswerKept ==
    ASSUME IInv, [Next]_vars
    PROVE  CounterType' /\ AnswerStands'
<1>1. CounterType /\ AnswerStands /\ {MaxNow, MaxSetters} \subseteq Nat
  BY ProgramAssumption DEF IInv
<1>2. NoCall.op = "none"
  BY DEF NoCall
<1>3. ASSUME SetterCalled PROVE CounterType' /\ AnswerStands'
  BY <1>1, <1>2, <1>3 DEF SetterCalled, CounterType, AnswerStands
<1>4. ASSUME NEW key, NEW alg, Sign(key, alg) PROVE CounterType' /\ AnswerStands'
  <2> DEFINE failure(able) ==
                 [NoCall EXCEPT !.op = "sign", !.ok = FALSE, !.key = key, !.faulty = able]
  <2>1. UNCHANGED <<now, setters, alive>>
    BY <1>4 DEF Sign
  <2>2. last' = NoCall \/ \E able : last' = failure(able)
    BY <1>4 DEF Sign
  <2>3. \A able : failure(able).op = "sign"
    BY DEF NoCall
  <2>. HIDE DEF failure
  <2>4. last'.op \in {"none", "sign"}
    BY <1>2, <2>2, <2>3
  <2> QED
    BY <1>1, <2>1, <2>4 DEF CounterType, AnswerStands
<1>5. ASSUME NEW key, NEW claims, Receive(key, claims) PROVE CounterType' /\ AnswerStands'
  BY <1>1, <1>2, <1>5 DEF Receive, CounterType, AnswerStands
<1>6. ASSUME NEW tok, Parse(tok) PROVE CounterType' /\ AnswerStands'
  BY <1>1, <1>2, <1>6 DEF Parse, CounterType, AnswerStands
<1>7. ASSUME NEW tok, NEW key, NEW fault, Verify(tok, key, fault)
      PROVE  CounterType' /\ AnswerStands'
  BY <1>1, <1>2, <1>7 DEF Verify, CounterType, AnswerStands
<1>8. ASSUME NEW e \in Expectations, Validate(e) PROVE CounterType' /\ AnswerStands'
  <2>1. /\ held # None /\ UNCHANGED <<now, setters, held, alive>>
        /\ last'.op = "validate" /\ last'.expected = e
        /\ last'.ok = Valid(held.claims, now, e)
    BY <1>8 DEF Validate, NoCall
  <2> QED
    BY <1>1, <2>1 DEF CounterType, AnswerStands
<1>9. CASE Tick
  BY <1>1, <1>2, <1>9 DEF Tick, CounterType, AnswerStands
<1>10. CASE UNCHANGED vars
  BY <1>1, <1>10 DEF vars, CounterType, AnswerStands, Valid
<1> QED
  BY <1>3, <1>4, <1>5, <1>6, <1>7, <1>8, <1>9, <1>10 DEF Next, SetTime, SetText, SetAudience

\* IInv holds of every reachable state.
THEOREM Invariance == Spec => []IInv
<1>1. Init => IInv
  <2> SUFFICES ASSUME Init PROVE IInv
    OBVIOUS
  <2>1. CounterType
    BY ProgramAssumption DEF Init, CounterType, NoCall
  <2>2. DraftKept
    <3>1. draft = NoClaims /\ asked = NoTimes
      BY DEF Init
    <3>2. NoClaims \in [{} -> SetterValues] /\ DOMAIN NoClaims = {}
      BY DEF NoClaims
    <3>3. NoClaims \in Drafts
      BY <3>2 DEF Drafts
    <3>4. NoTimes \in [TimeClaims -> Times \union {None}] /\ \A n \in TimeClaims : NoTimes[n] = None
      BY DEF NoTimes, TimeClaims
    <3> QED
      BY <3>1, <3>2, <3>3, <3>4 DEF DraftKept, TimesMeant, Has
  <2> QED
    BY <2>1, <2>2 DEF Init, IInv, VouchedMeant, IssuedGenuine, HeldVouched, AnswerStands, NoCall
<1>2. IInv /\ [Next]_vars => IInv'
  <2> SUFFICES ASSUME IInv, [Next]_vars PROVE IInv'
    OBVIOUS
  <2>1. CounterType' /\ AnswerStands'
    BY AnswerKept
  <2>2. DraftKept /\ VouchedMeant /\ IssuedGenuine /\ HeldVouched
    BY DEF IInv
  <2>3. ASSUME UNCHANGED <<draft, asked>> PROVE DraftKept'
    BY <2>2, <2>3 DEF DraftKept
  <2>4. ASSUME UNCHANGED <<issued, vouched>> PROVE VouchedMeant' /\ IssuedGenuine'
    BY <2>2, <2>4 DEF VouchedMeant, IssuedGenuine, Genuine, Vouches
  <2>5. ASSUME \/ \E n \in TimeClaims, t \in Times : SetTime(n, t)
               \/ \E p \in TextSettings : SetText(p[1], p[2])
               \/ \E list \in AudienceLists : SetAudience(list)
        PROVE  IInv'
    <3>1. DraftKept'
      BY <2>2, <2>5, SettersKept
    <3>2. UNCHANGED <<issued, vouched, held>>
      BY <2>5 DEF SetTime, SetText, SetAudience, SetterCalled
    <3> QED
      BY <2>1, <2>2, <2>4, <3>1, <3>2, HeldKept DEF IInv
  <2>6. ASSUME NEW key \in Keys, NEW alg \in Algorithms, Sign(key, alg) PROVE IInv'
    <3>1. UNCHANGED <<draft, asked, held>>
      BY <2>6 DEF Sign
    <3> QED
      BY <2>1, <2>2, <2>3, <2>6, <3>1, SignKept, HeldKept DEF IInv
  <2>7. ASSUME NEW key \in Keys, NEW claims \in ForeignClaims, Receive(key, claims)
        PROVE  IInv'
    <3>1. UNCHANGED <<draft, asked, held>>
      BY <2>7 DEF Receive
    <3> QED
      BY <2>1, <2>2, <2>3, <2>7, <3>1, ReceiveKept, HeldKept DEF IInv
  <2>8. ASSUME NEW tok \in Tokens,
               \/ Parse(tok)
               \/ \E key \in Keys, fault \in Faults : Verify(tok, key, fault)
        PROVE  IInv'
    <3>1. UNCHANGED <<draft, asked, issued, vouched>>
      BY <2>8 DEF Parse, Verify
    <3>2. HeldVouched'
      BY <2>8, ReadingKept
    <3> QED
      BY <2>1, <2>3, <2>4, <3>1, <3>2 DEF IInv
  <2>9. ASSUME (\E e \in Expectations : Validate(e)) \/ Tick \/ UNCHANGED vars PROVE IInv'
    <3>1. UNCHANGED <<draft, asked, issued, vouched, held>>
      BY <2>9 DEF Validate, Tick, vars
    <3> QED
      BY <2>1, <2>2, <2>3, <2>4, <3>1, HeldKept DEF IInv
  <2> QED
    BY <2>5, <2>6, <2>7, <2>8, <2>9 DEF Next
<1> QED
  BY <1>1, <1>2, PTL DEF Spec

-----------------------------------------------------------------------------
(* Results. *)

\* JWT::Impl holds a map from names to JSON values in every state, with times that
\* fit an int as long as only the setters filled it in.
THEOREM TypeCorrect == Spec => []TypeOK
<1> SUFFICES ASSUME IInv PROVE TypeOK
  BY Invariance, PTL
<1>1. /\ IsClaims(draft)
      /\ \A n \in TimeClaims \intersect DOMAIN draft :
             draft[n].type = "number" => draft[n].secs \in -HalfRange..(HalfRange - 1)
  BY DraftsAreClaims DEF IInv, DraftKept
<1>2. \A t \in issued : /\ t.hdr \in HeaderTexts
                        /\ t.text.bytes # NotObject => IsClaims(t.text.bytes)
  BY PayloadsAreClaims DEF IInv, IssuedGenuine
<1>3. \A v \in vouched : v.mat \in Materials /\ IsClaims(v.claims)
  BY DEF IInv, VouchedMeant
<1>4. held # None => IsClaims(held.claims) /\ held.by \in Materials \union {None}
  BY DEF IInv, HeldVouched
<1>5. asked \in [TimeClaims -> Times \union {None}]
  BY DEF IInv, DraftKept
<1>6. /\ now \in 0..MaxNow /\ setters \in 0..MaxSetters
      /\ last.op \in {"none", "sign", "validate"} /\ alive \in BOOLEAN
  BY DEF IInv, CounterType
<1> QED
  BY <1>1, <1>2, <1>3, <1>4, <1>5, <1>6 DEF TypeOK

\* Claims that verify() returned and validate() accepts were signed by a holder of
\* the material, for these parties, and the clock is within the time that was
\* meant, whatever became of it on the way through an int.
THEOREM AcceptedWithinWindow == Spec => []WithinWindow
<1> SUFFICES ASSUME IInv PROVE WithinWindow
  BY Invariance, PTL
<1> SUFFICES ASSUME Accepted, held.by # None
             PROVE  \E v \in vouched :
                        /\ v.mat = held.by
                        /\ v.claims = held.claims
                        /\ PartiesMatch(v.claims, last.expected)
                        /\ v.times.exp # None /\ EndKept(v.times.exp) =>
                               now <= v.times.exp + TimePoint(last.expected.leeway)
                        /\ v.times.nbf # None /\ StartKept(v.times.nbf) =>
                               now + TimePoint(last.expected.leeway)
                                   > v.times.nbf - TicksPerSecond
  BY DEF WithinWindow
<1> DEFINE e == last.expected
           L == TimePoint(e.leeway)
<1>1. held # None /\ e \in Expectations /\ Valid(held.claims, now, e)
  BY DEF IInv, AnswerStands, Accepted
<1>2. PICK v \in vouched : v.mat = held.by /\ v.claims = held.claims
  BY <1>1 DEF IInv, HeldVouched, Vouches
<1>3. /\ PartiesMatch(v.claims, e) /\ TimesValid(v.claims, now, e.leeway)
      /\ v.times \in [TimeClaims -> Int \union {None}] /\ TimesMeant(v.claims, v.times)
  BY <1>1, <1>2 DEF Valid, IInv, VouchedMeant
<1>4. now \in Int /\ L \in Int /\ TicksPerSecond \in Nat
  BY <1>1, TimeAssumption, SecondsOfTimePoint, ProgramAssumption DEF IInv, CounterType
<1>. HIDE DEF e, L
<1>5. ASSUME v.times["exp"] # None, EndKept(v.times["exp"])
      PROVE  now <= v.times["exp"] + L
  <2> DEFINE exp == TimePoint(AsInt(Seconds(v.times["exp"])))
  <2>1. v.times["exp"] \in Int /\ GetTime(v.claims, "exp") = exp
    BY <1>3, <1>5, MeantTimeRead DEF TimeClaims
  <2>2. exp # Epoch /\ exp <= v.times["exp"]
    BY <1>5, <2>1, EndRead
  <2>3. exp \in Int
    BY <2>1, SecondsOf, AsIntRange, Divisors, SecondsOfTimePoint
  <2>4. now <= exp + L
    BY <1>3, <2>1, <2>2 DEF TimesValid, L
  <2> QED
    BY <1>4, <2>1, <2>2, <2>3, <2>4
<1>6. ASSUME v.times["nbf"] # None, StartKept(v.times["nbf"])
      PROVE  now + L > v.times["nbf"] - TicksPerSecond
  <2> DEFINE nbf == TimePoint(AsInt(Seconds(v.times["nbf"])))
  <2>1. v.times["nbf"] \in Int /\ GetTime(v.claims, "nbf") = nbf
    BY <1>3, <1>6, MeantTimeRead DEF TimeClaims
  <2>2. nbf \in Int /\ nbf # Epoch /\ v.times["nbf"] < nbf + TicksPerSecond
    BY <1>6, <2>1, StartRead
  <2>3. now >= nbf - L
    BY <1>3, <2>1, <2>2 DEF TimesValid, L
  <2> QED
    BY <1>4, <2>1, <2>2, <2>3
<1> QED
  BY <1>2, <1>3, <1>5, <1>6 DEF e, L

\* The converse: validate() turns down claims that were meant for these parties
\* only outside the time meant, give or take the second the setter drops, unless
\* the library cannot tell that time.
THEOREM RejectedOutsideWindow == Spec => []RejectedOnlyOutside
<1> SUFFICES ASSUME IInv PROVE RejectedOnlyOutside
  BY Invariance, PTL
<1> SUFFICES ASSUME Rejected, held.by # None, PartiesMatch(held.claims, last.expected),
                    NEW v \in vouched, v.claims = held.claims
             PROVE  LET leeway == TimePoint(last.expected.leeway)
                        exp    == v.times.exp
                        nbf    == v.times.nbf
                    IN  \/ exp # None /\ ~StartKept(exp)
                        \/ nbf # None /\ ~StartKept(nbf)
                        \/ exp # None /\ now > exp - TicksPerSecond + leeway
                        \/ nbf # None /\ now < nbf - leeway
  BY DEF RejectedOnlyOutside
<1> DEFINE e == last.expected
           L == TimePoint(e.leeway)
<1>1. held # None /\ e \in Expectations /\ ~Valid(held.claims, now, e)
  BY DEF IInv, AnswerStands, Rejected
<1>2. /\ ~TimesValid(v.claims, now, e.leeway)
      /\ v.times \in [TimeClaims -> Int \union {None}] /\ TimesMeant(v.claims, v.times)
  BY <1>1 DEF Valid, IInv, VouchedMeant
<1>3. now \in Int /\ L \in Int /\ TicksPerSecond \in Nat
  BY <1>1, TimeAssumption, SecondsOfTimePoint, ProgramAssumption DEF IInv, CounterType
<1>. HIDE DEF e, L
<1>4. \/ GetTime(v.claims, "exp") # Epoch /\ ~(now <= GetTime(v.claims, "exp") + L)
      \/ GetTime(v.claims, "nbf") # Epoch /\ ~(now >= GetTime(v.claims, "nbf") - L)
  BY <1>2 DEF TimesValid, L
<1>5. ASSUME GetTime(v.claims, "exp") # Epoch, ~(now <= GetTime(v.claims, "exp") + L),
             StartKept(v.times["exp"])
      PROVE  v.times["exp"] # None /\ now > v.times["exp"] - TicksPerSecond + L
  <2> DEFINE exp == TimePoint(AsInt(Seconds(v.times["exp"])))
  <2>1. v.times["exp"] # None /\ v.times["exp"] \in Int /\ GetTime(v.claims, "exp") = exp
    BY <1>2, <1>5, MeantTimeRead DEF TimeClaims
  <2>2. exp \in Int /\ v.times["exp"] < exp + TicksPerSecond
    BY <1>5, <2>1, StartRead
  <2>3. ~(now <= exp + L)
    BY <1>5, <2>1
  <2> QED
    BY <1>3, <2>1, <2>2, <2>3
<1>6. ASSUME GetTime(v.claims, "nbf") # Epoch, ~(now >= GetTime(v.claims, "nbf") - L),
             StartKept(v.times["nbf"])
      PROVE  v.times["nbf"] # None /\ now < v.times["nbf"] - L
  <2> DEFINE nbf == TimePoint(AsInt(Seconds(v.times["nbf"])))
  <2>1. v.times["nbf"] # None /\ v.times["nbf"] \in Int /\ GetTime(v.claims, "nbf") = nbf
    BY <1>2, <1>6, MeantTimeRead DEF TimeClaims
  <2>2. nbf \in Int /\ nbf <= v.times["nbf"]
    BY <1>6, <2>1, StartRead
  <2>3. ~(now >= nbf - L)
    BY <1>6, <2>1
  <2> QED
    BY <1>3, <2>1, <2>2, <2>3
<1>7. \A n \in TimeClaims : GetTime(v.claims, n) # Epoch => v.times[n] # None
  BY <1>2, MeantTimeRead
<1> QED
  BY <1>4, <1>5, <1>6, <1>7 DEF e, L, TimeClaims

\* What sign() returned verifies with every copy of the key it was signed with, and
\* yields the claims that went in.
THEOREM SignedTokensStand == Spec => []SignedTokensVerify
<1> SUFFICES ASSUME IInv PROVE SignedTokensVerify
  BY Invariance, PTL
<1> SUFFICES ASSUME NEW t \in issued, NEW copy \in Keys,
                    t.sig # None, t.text.bytes # NotObject, copy.mat = t.sig.mat
             PROVE  /\ Verifies(t, copy, "none")
                    /\ [mat |-> copy.mat, claims |-> ParsedClaims(t)] \in
                           {[mat |-> v.mat, claims |-> v.claims] : v \in vouched}
  BY DEF SignedTokensVerify
<1> DEFINE entry == [hdr |-> t.hdr, sig |-> t.sig]
           input == SigningInput(t.hdr, t.text)
           alg   == t.hdr.alg
<1>1. /\ HeaderKnown(t.hdr) /\ t.hdr.kid # NonString
      /\ t.text \in PayloadTexts /\ Genuine(t)
  BY DEF IInv, IssuedGenuine
<1>2. PICK key \in Keys : /\ key.mat = t.sig.mat /\ key.kid = t.hdr.kid
                          /\ SignDispatched(alg, key) /\ Signable(alg, key)
  BY <1>1 DEF Genuine
<1>3. /\ copy.kty = key.kty /\ copy.crv = key.crv /\ copy.kid = key.kid /\ copy.alg = key.alg
      /\ copy.kty = "oct" => hasPrivateKey(copy)
  BY <1>2, ProgramAssumption
<1>4. KeyFits(alg, copy)
  BY <1>2, <1>3 DEF SignDispatched, KeyFits
<1>5. Checkable(alg, copy)
  <2>1. alg \in HMACAlgs => copy.kty = "oct"
    BY <1>4 DEF KeyFits, HMACAlgs, RSAAlgs, ECDSAAlgs
  <2>2. copy.kty = "OKP" => copy.crv \in {"Ed25519", "Ed448"}
    BY <1>2, <1>3 DEF Signable
  <2> QED
    BY <1>3, <1>4, <2>1, <2>2 DEF Checkable, VerifyDispatched
<1>6. t.sig = SigTerm(alg, copy.mat, input)
  BY <1>1, Zenon DEF Genuine
<1>7. VerifyOutcome(alg, copy, input, t.sig, "none") = TRUE
  <2>1. VerifyOutcome(alg, copy, input, t.sig, "none") = (t.sig = SigTerm(alg, copy.mat, input))
    BY <1>5, Zenon DEF VerifyOutcome
  <2> QED
    BY <1>6, <2>1
<1>8. Applicable(ParseEntry(entry), copy)
  BY <1>2, <1>3, <1>4 DEF Applicable, IsCompatibleWithKey, KidMatches, KeyFits, ParseEntry
<1>9. Verifies(t, copy, "none")
  BY <1>7, <1>8 DEF Verifies, ParseEntry
<1>10. ParsedClaims(t) = t.text.bytes
  <2>1. t.hdr \in HeaderTexts /\ t.sig \in Signatures
    BY IssuedAreTexts
  <2>2. entry # None
    BY <2>1, TextAssumption DEF WireEntries
  <2>3. EntryParses(entry)
    BY <1>1, <2>1, TextAssumption DEF EntryParses
  <2>4. Parses(Compact(t))
    BY <1>1, <2>2, <2>3, CompactEntry
  <2> QED
    BY <2>4 DEF ParsedClaims
<1>11. PICK v \in vouched : v.mat = t.sig.mat /\ v.claims = t.text.bytes
  BY <1>1 DEF Genuine, Vouches
<1> QED
  BY <1>9, <1>10, <1>11

\* A clock does not run backwards, so what expired for a leeway stays expired for it
\* as long as the object is held.
THEOREM ExpiryIsFinal == Spec => ExpiredStaysExpired
<1>1. ASSUME IInv, [Next]_vars,
             NEW e \in Expectations, held # None, held' = held,
             GetTime(held.claims, "exp") # Epoch,
             now > GetTime(held.claims, "exp") + TimePoint(e.leeway)
      PROVE  ~Valid(held'.claims, now', e)
  <2> DEFINE exp == GetTime(held.claims, "exp")
             L   == TimePoint(e.leeway)
  <2>1. now \in Int /\ exp \in Int /\ L \in Int
    BY <1>1, TimeAssumption, SecondsOfTimePoint, GetTimeType, ProgramAssumption
       DEF IInv, CounterType, HeldVouched, TimeClaims
  <2>2. now' \in Int /\ now' >= now
    <3>1. now' = now \/ now' = now + 1
      BY <1>1 DEF Next, vars, SetTime, SetText, SetAudience, SetterCalled, Sign, Receive, Parse,
             Verify, Validate, Tick
    <3> QED
      BY <2>1, <3>1
  <2>3. ~(now' <= exp + L)
    BY <1>1, <2>1, <2>2
  <2> QED
    BY <1>1, <2>3 DEF Valid, TimesValid
<1>2. IInv /\ [Next]_vars =>
          [\A e \in Expectations :
               /\ held # None /\ held' = held
               /\ GetTime(held.claims, "exp") # Epoch
               /\ now > GetTime(held.claims, "exp") + TimePoint(e.leeway)
               => ~Valid(held'.claims, now', e)]_vars
  BY <1>1
<1> QED
  BY <1>2, Invariance, PTL DEF Spec, ExpiredStaysExpired
=============================================================================
