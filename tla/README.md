# A TLA+ model of cpp-jose

cpp-jose is a C++ library for JSON Object Signing and Encryption: keys (JWK), key sets,
signatures (JWS), encryption (JWE) and claims (JWT) over an OpenSSL or a Windows CNG back
end. This directory models its control in TLA+: what each call checks, in which order, what
it changes, and which way it ends. TLC checks the models on small instances; TLAPS proves
the central theorems for every value of the constants.

Paths below are relative to the repository (`src/jws.cpp`, `include/jose/jws.hpp`).
Everything each definition stands for is listed line by line in `PROJECT.json`, "map".

## 1. Inventory

The library starts no threads and stores nothing, and it talks to nobody. Its state is in the
objects its callers hold, and in one back end per translation unit, which concurrent callers
share. What makes it hard is, apart from that, not concurrency but long sequences of legal
calls: tokens that other producers wrote, took apart and put together again, keys whose
members change after they were used, loops over signatures or recipients in which each entry
can fail in several ways, imports that fall back on one another, and two ways of failing
(empty optional, exception).

| Component | State | Operations | Interacts with |
|---|---|---|---|
| `JWK` (`src/jwk.cpp`) | key type, curve, key bytes, `kid`, `alg`, `use` | `fromJSON`, `toJSON`, `generateRSA/EC/Oct/OKP`, setters | back end (import, generation), thumbprint (key ID) |
| Thumbprint (`src/jwk_thumbprint.cpp`) | none | `compute` | JWK, back end (hash, base64) |
| `JWS` (`src/jws.cpp`) | payload, payload text, signature entries | `sign`, `toCompact`, `toJSON`, `fromCompact`, `fromJSON`, `tryLoad`, `verify` | JWK, back end |
| `JWE` (`src/jwe.cpp`) | protected header text, recipients, content | `encrypt`, `toCompact`, `toJSON`, `fromCompact`, `fromJSON`, `decrypt` | JWK (also for `epk`), JWA, back end |
| `JWKSet` (`src/jwk_set.cpp`) | a vector of JWK and JWE | `addKey`, `getKey`, `getKeys`, `toJSON`, `fromJSON` | JWK and JWE parsers |
| `JWT` (`src/jwt.cpp`) | claims, an optional JWS | claim setters and getters, `sign`, `parse`, `verify`, `validate` | JWS, the clock |
| `JWA` (`src/jwa.cpp`) | none | names of algorithms; forwards key and content encryption | back end |
| Back-end dispatch (`src/private/back_end.cpp`) | none | `sign`, `verify` by key type and algorithm; ConcatKDF; base64 | OpenSSL or CNG back end |
| OpenSSL back end (`src/private/openssl_back_end.cpp`) | none between calls | key import and generation, signatures, key wrapping, AEAD | libcrypto |
| Factory and singletons (`src/private/back_end_factory.cpp`, `call_once` in four files) | one back end per translation unit | creation on first use | every component above |
| CNG back end, DER tools, command line tool, tests, examples | – | – | – |

What is hard, and what makes a component correct:

- **JWK.** Documents leave members out and the parser fills them in from one another; setters
  check nothing. Correct: what goes out as public carries no secret, and a key that came back
  is what it was.
- **JWS.** Text is verified as received, so it must survive parsing and writing; several
  signatures, for this key and for others, decide one verdict; a missing key ID matches
  everything. Correct: *true* means that the payload was signed with this key's material, a
  token's own key does not reject it, a bad co-signature is not covered up by a good one.
- **JWE.** Several recipients, with headers of their own that nothing authenticates; an error
  in one entry is a `continue`. Correct: a plaintext comes out only for those it was encrypted
  to and under the header it was encrypted under, as far as the tag has its length; and one good
  entry is enough.
- **JWKSet.** IDs repeat; a set is read whole or not at all. Correct: an ID keeps meaning the
  same key, here and for a reader.
- **JWT.** Times are truncated to `int`; the default time point stands for "no claim"; claims
  are verified once and validated later, against a clock that moves on. Correct: who is let in
  holds claims that the key's owner signed, within the time they were meant for; what expired
  stays expired.
- **Factory.** `call_once` under concurrent first use and after an exception. Correct: one back
  end per unit, and nobody waits for ever.
- **OpenSSL back end.** Members that cannot be read are left empty without an error; an import
  that fails is tried again with fewer of them; `hasPrivate()` and the loaders look at different
  members. Correct: the parts of a key are of one pair, and what is exported can be imported.
- **Codecs.** The decoder is lenient in several ways at once; ConcatKDF counts octets, rounds
  and lengths that no test can tell apart. Correct: a text changed in transit is taken for the
  same content only if it spells it; two ends derive one key only if they agree.

`PROJECT.json` "hazards" lists each of these at its line with the properties that watch it.

## 2. Modules

| Module | Models | Kind |
|---|---|---|
| `JWK` | JWK objects and documents, parser, writer, generators, setters, thumbprint | operators |
| `BackEnd` | dispatch and OpenSSL half of signing and verifying | operators |
| `JWSFormat` | headers, serialisations and parsers of JWS, and which key an entry is for | operators |
| `JWS` | the life of tokens and keys around `sign`, the parsers and `verify` | state machine |
| `SignatureService` | what JWS promises | abstract specification |
| `KeyEncryption` | key wrapping, key agreement, content encryption | operators |
| `JWE` | the life of tokens around `encrypt`, the parsers and `decrypt` | state machine |
| `ConfidentialChannel` | what JWE promises | abstract specification |
| `JWKSet` | a publisher and a reader of a key set | state machine |
| `KeyDirectory` | what a key set promises | abstract specification |
| `JWT` | filling in, signing, reading and validating claims while time passes | state machine |
| `BackEndInit` | threads that come by a back end | state machine |
| `SharedBackEnd` | what `getBackEnd()` promises | abstract specification |
| `OpenSSLKeys` | key objects: generation, import, export, loading | state machine |
| `Base64URL` | the codec, and a text edited in transit | state machine on pure operators |
| `ConcatKDF` | the two ends of ECDH-ES | state machine on pure operators |
| `MCJWS`, `MCJWE`, `MCJWKSet`, `MCJWT` | instances for TLC | constants only |
| `MCCodecs` | `Base64URL` or `ConcatKDF`, and their constants | instance for TLC |
| `JWSDocs`, `JWEDocs`, `JWTDocs` | statements of docs and comments that do not hold | properties |
| `JWKProofs` | lemmas about keys and their documents, for `JWSProofs` and `JWKSetProofs` | proofs |
| `JWSProofs`, `JWEProofs`, `JWKSetProofs`, `JWTProofs`, `BackEndInitProofs`, `OpenSSLKeysProofs` | theorems about the module named | proofs |
| `CodecProofs` | theorems about `Base64URL` and `ConcatKDF` | proofs |

`JWS` and `JWT` EXTEND `JWSFormat` EXTENDS `BackEnd` EXTENDS `JWK`; `JWE` EXTENDS `KeyEncryption`
EXTENDS `JWK`; `JWKSet` EXTENDS `JWK`. `OpenSSLKeys` looks inside what `JWK` takes for one
material, and the codecs inside what JWS takes for a text and JWE for an agreed key. `JWS`,
`JWE`, `JWKSet` and `BackEndInit` INSTANCE their abstract specification with a refinement mapping.

### How the models abstract data

- *Key bytes* are a member of `Materials`, one per key pair or secret. A private and a public
  copy of a key share the material and differ in `priv`. An `oct` key read with its secret
  ignored has material `None`.
- *Cryptography is symbolic.* A signature is the record of algorithm, material and signing
  input; it verifies when it is that record. A wrapped key opens for the material and scheme it
  was made for; a content opens for its content key (CEK), algorithm and additional data. That
  these cannot be had otherwise is an assumption about the algorithms, not a result, and it is
  made only where the code sees to what the algorithm needs.
- *Lengths of IVs and tags* are part of the data (`odd`), because the code leaves most of them to
  the token. AES-GCM compares as many octets of the tag as there are; no IV's length is asked,
  and CBC's MAC draws no line between IV and ciphertext. So the outcome of a decryption is a set,
  and a short tag may let through what nobody encrypted (`Corrupt`, `JunkCEK`).
- *Text* is kept apart from what it decodes to. A header or payload is its content with a
  spelling, `"own"` or `"other"`, because several texts decode to one content and signatures
  cover the text. `Garbled` does not decode; `Tampered` decodes to octets of no token;
  `NonString` is a header member of another JSON type; `Absent` is a member that is not there.
- *Failure* is `None`, whether the code returns an empty optional or throws; where it matters
  which, the model says so (`verdict = "threw"`, `alive = FALSE`).
- *Faults of OpenSSL* (allocation, random source, digest) are a choice at every call that can
  have one.

### JWS: state and actions

`ring` is the JWK objects of a program, `jws` the JWS object it holds (`JWS::Impl`), `issued`
the texts in circulation, `signed` a history of what was really signed, `check` the locals of
`verify()`: argument, position, `found_applicable`, verdict. `edits` counts setter calls and
`alive` is FALSE once an exception left a `noexcept` function.

| Action | Code |
|---|---|
| `Sign` | `sign`: key use, reserved parameters, header, dispatch, one entry |
| `Load` | `fromCompact`, `fromJSON`, `tryLoad` on any recombination of texts in circulation |
| `Release` | the object goes out of scope |
| `StartVerify`, `SkipSignature`, `CheckSignature`, `Return` | `verify`: call, the two branches of the loop body, the end of the loop |
| `Edit` | `setKeyID`, `setAlgorithm`, `setUse` |
| `Publish` | `toJSON(false)` and `fromJSON` of the result into an empty slot |

`Documents` is what can be handed to a parser: every combination of headers, payload texts and
signatures in circulation, other spellings of them, and headers this library does not write.

### JWE: state and actions

`ring` as above; `made` numbers the random choices of each token (ephemeral key, CEK, IV);
`sent` is the history of what was encrypted to which material; `issued`, `jwe` as above; `call`
the locals of `decrypt()`.

| Action | Code |
|---|---|
| `Encrypt` | `encrypt` for every kind of algorithm: wrapped, `dir`, ECDH-ES |
| `ReceiveWrapped`, `ReceiveAgreed` | another producer's token, for one or two recipients, or with the `epk` in the recipient's header |
| `Load` | the parsers, on compact, flattened and general documents recombined, with other lengths and with headers made up |
| `Release` | the object goes out of scope |
| `StartDecrypt`, `TryRecipient`, `Exhausted` | `decrypt`: call, one iteration (CEK, then content), the throw after the last entry |

Two definitions stand for checks that are not in the code. `Measured`: `decrypt()` takes a `dir`
secret for the CEK whatever its length, and neither the ciphers nor the MAC compare it with what
they read; what comes out then depends on memory. `Misread`: AES-GCM is given as many octets of the
tag as the token has, so a short one may match what it was not made for; and under CBC an IV of
another length may take octets of the ciphertext, or give it some, with the same MAC.
`UnwrapOutcomes` and `DecryptOutcomes` are therefore sets: of key wrapping, the CEK, an error, or
with RSA1_5 and with a short tag a CEK that is nobody's (`JunkCEK`); of content, the payload, an
error, or octets that nobody encrypted (`Corrupt`). A longer tag is not among the lengths: GCM
refuses more than 16 octets, and CBC all but half the CEK.

A token of AES-GCM key wrapping may have `iv` and `tag` in a header or everything in one string
(`Inline`), which the back end also opens. `KnownBodies` are the contents in circulation, with the
odd lengths of `OddLengths`, and a tampered one; `MadeUpHeaders` are protected headers
nobody encrypted under.

### JWKSet: state and actions

`keys` is `keys_` of the publisher's set, `ring` its own JWK objects (the set holds copies, so
later setter calls do not reach it), `published` the document written last and `origin` the set
it was written from; `peer` is the set a reader made of it, and `source` the set that document
came from. Actions: `AddKey`, `AddJWE`, `Edit`, `Publish`, `Read`. `Read` takes the
document as it was written or with one entry of another publisher put in anywhere: a good key
under an ID already used, one without ID, one with an unknown algorithm, one with its private
half, and one that is neither JWK nor JWE.

### JWT: state and actions

`draft` is `claims_` of the object being filled in and `asked` the times that were asked of the
setters for it; `issued` is the header, payload and signature texts in circulation, and
`vouched` who signed which claims with which times in mind; `held` is the object that `parse()`
or `verify()` returned, with the material it was verified with; `last` is the answer just seen;
`now` is the system clock, in ticks, `TicksPerSecond` to a second; `setters` and `alive` as in
JWS.

| Action | Code |
|---|---|
| `SetTime`, `SetText`, `SetAudience` | the setters, `setClaim` with the name of a time claim included |
| `Sign` | `sign`: the algorithm put in place of the default, the claims object, JWS signing |
| `Receive` | another producer's token: numbers of any size, text where a number belongs, no object |
| `Parse`, `Verify` | on any recombination of the texts in circulation; both parse through JWS |
| `Validate` | issuer, audience, expiry and start, one reading of the clock |
| `Tick` | time passes |

A number keeps its width: `AsInt` is `static_cast<int>` in a setter and `get<int>()` in a
getter. `Seconds` drops the fraction of a second, so an expiry comes up to a second early and a
start up to a second early.

### BackEndInit: state and actions

`pc`, `unit` and `using` are where each thread is, in whose code, and with which back end;
`flag`, `runner` and `back_end` are a unit's `once_flag`, the thread that runs the lambda and the
`unique_ptr`; `factory` is the guard of the static factory object. A back end is named after the
thread that made it.

| Action | Code |
|---|---|
| `Call` | a thread enters `getBackEnd()`, or the code of `jwk.cpp` |
| `EnterOnce` | `call_once`: run the lambda, or pass when it has run; waiting is the lack of a step |
| `GetFactory`, `ConstructFactory` | `BackEndFactory::get()` |
| `Create`, `CreateThrows` | `createBackEnd()`; on an exception the flag is as before |
| `ReturnOnce`, `Deref`, `Leave` | the lambda returns, `*back_end`, the operation ends |

### OpenSSLKeys: state and actions

`pc`, `request` are the call and its arguments; `attempt`, `strategy`, `pkey`, `parts` the locals
of `generateRSA`: the attempts, which import comes next, the `EVP_PKEY` and the vectors its
members are read into; `key` is the key object, `wire` the document `toJSON(true)` wrote of one,
`native` what the loaders made of it, `answer` how that ended. A half of a key is named after
the key pair it was computed with, so parts of two pairs can meet.

| Action | Code |
|---|---|
| `CallGenerate`, `CallImport` | `JWK::generateRSA/EC/OKP`, `JWK::fromJSON`, on any document, its own included |
| `GenerateRSA`, `GenerateRSAGivesUp` | one attempt of `generateRSA(bits)`, and the end of the loop |
| `GenerateEC`, `GenerateOKP` | `generateEC(curve)`, `generateOkp(use, bits)` |
| `Refuse`, `ChooseStrategy`, `TryImport`, `ImportGivesUp`, `ReadBack` | `generateRSA(n, e, ...)`: what it refuses, its up to four imports, reading the members back |
| `ImportEC`, `ImportOKP` | `generateEC(curve, x, y, d)`, `generateOkp(curve, x, d)` |
| `Export` | `toJSON(true)` |
| `Load` | `importPkeyFromKey` with `importRsaKey`, `importEcKey`, `importOkpKey` |

### Base64URL and ConcatKDF: state and actions

In `Base64URL` a character is a number: 0..63 the letters by value, and one number each for
`+`, `/`, `=`, white space and everything else. `content` is encoded to `text` (`Send`), which is
then changed character by character (`Edit`). `Encode` and `Decode` are the code's arithmetic on
groups of three octets and four letters: `Standard` and `UrlSafe` change the alphabet, `Kept` is the
loop that drops characters, white space before decoding and `=` after encoding.

In `ConcatKDF` `sender` and `recipient` are the context and the key each end derived: the
library's own sender, whose length comes from `jwe.cpp`, its recipient, whose length comes from a
table of the back end, and other producers and readers, which may name the parties. Octet *j* of
the hash of *s* is the pair of both, so that equal keys mean equal input.

## 3. Runs

Every property of a passing run has a mutant of the code (`Mutant_*`, defined just before what
it replaces) that breaks it.

| Run | Instance | Shows |
|---|---|---|
| `jws_keys` | one key of each type, its published copy, two tokens, one setter call, one signature per document | `TypeOK`, `Authentic`, `OwnTokensNotRejected`, `RoundTripExact`, `OnlySigningKeysSign`, `NoPrivateMaterialPublished`, `ImplementsService` |
| `jws_multi` | two signers, two tokens, documents of two signatures | `NoForgedCosignature`, `OwnTokensNotRejected`, `RoundTripExact` |
| `jwe_alone` | one key of each type and its published copy, two tokens, five key algorithms, a CBC and a GCM content algorithm, a made-up header, one recipient | `TypeOK`, `OnlyRecipientsRead`, `BoundToHeader`, `GoodRecipientSuffices` |
| `jwe_multi` | two parties, one token for both, an IV or tag of another length, four key algorithms, CBC and GCM, two recipients recombined | `OnlyRecipientsRead`, `BoundToHeader`, `GoodRecipientSuffices`, `RoundTripExact`, `ImplementsChannel` |
| `jwk_set` | two keys, sets of two entries and a JWE, one setter call, five foreign entries | `TypeOK`, `SameResolution`, `NoSecretsPublished`, `ImplementsDirectory` |
| `jwt` | a secret, an EC pair and its public copy, an int of three bits, two tokens, two setter calls, four foreign claims objects | `TypeOK`, `WithinWindow`, `RejectedOnlyOutside`, `SignedTokensVerify`, `ExpiredStaysExpired` |
| `back_end_init` | three threads, two units and `jwk.cpp` | `TypeOK`, `OneBackEnd`, `EveryCallEnds`, `ImplementsShared` |
| `openssl_keys` | two pairs, two of the five CRT members, three attempts | `TypeOK`, `OneKeyPair`, `PrivateHalfServes`, `OwnExportsAccepted`, `EveryCallEnds` |
| `codecs` | contents of up to four octets of three values, two characters changed; six algorithms, two secrets, three party names | `OwnTextRead`, `SpellingsOfContent`, `SameKeyIffSameContext` |
| `doc_nothrow` | `JWSDocs` | a violation, section 6 |
| `doc_header` | `JWEDocs` | a violation, section 6 |
| `doc_default_alg` | `JWTDocs` | a violation, section 6 |

**Bounds.** `MaxSigs`, `MaxRecipients` = 2: with the loops stopping or going on at the first
entry, two entries show every order of two outcomes, and what a third could do it could do as
second. `MaxIssued`, `MaxTokens` ≤ 2: one token to attack and one to take parts from; in
`jwe_multi` one token with two recipients and the tampered parts do the same. `MaxEdits` = 1:
a setter call between signing and verifying, or between adding a key and publishing. In
`jwk_set` two keys under one ID are there from the start, so that `MaxKeys` = 2 suffices for a
name with two candidates. Two materials: one's own and another's. The JWE runs have one payload,
since what is wrong with a plaintext is whom it was for, or that it is nobody's (`Corrupt`).
`jwe_alone` has parts of full length, two tokens to recombine and a header that is neither's;
`jwe_multi` has one token, whose content comes with a cut tag or another IV, a cut tag for its
wrapped key, and its header spelled otherwise. The theorems of section 5 need none of these bounds.

In `jwt` an int has three bits (-4..3) and a second two ticks, so that the clock (`MaxNow` = 8
ticks) passes the largest int, and `Times` has an odd tick below it and one beyond; the foreign
claims have an expiry that wraps to a negative number and one that wraps to the epoch. Calls are
made until a token has been read, time passes only while its claims are held, and tokens of
others arrive before the first setter call: JWT objects share nothing, so nothing else could
reach the claims held.
`back_end_init`: three threads are one that runs the lambda and two that wait; two units show
that they share the factory and nothing else. `openssl_keys`: the code treats the five CRT
members alike, so two show all, none and some of them; three attempts show a first, a middle and
a last. `codecs`: four octets are a whole group and a part of another; two edits put in, exchange
or drop up to two characters; the contexts of `MCCodecs` are chosen so that names and party names
give the same octets when put together without their lengths.

**Fairness** is assumed where a call may repeat itself or wait. In `OpenSSLKeys` a call, once made,
goes on (`WF_vars(Step)`): it is sequential and waits for nothing outside the library. In
`BackEndInit` a thread inside the library goes on (`WF_vars(Step(t))`), and `call_once` lets each of the threads that wait for a flag in some time,
if lambdas go on throwing (`SF_vars(EnterOnce(t))`). That is an assumption about the scheduler,
not in the code: all waiters are woken when a lambda has thrown, and the one that goes first is
not chosen against another for ever. No fairness is put on what programs call, and none on
OpenSSL: an attempt may fail every time.

**Deadlock** is checked in `back_end_init` and `openssl_keys`, where threads wait for one another
and imports fall back. It is not in the others: a program may come to its bounds, and in `JWS` and
`JWT` the process may end in `std::terminate`.

## 4. The abstract specifications

- `SignatureService`: materials sign payloads; a verifier accepts only a signed pair. The
  mapping takes `accepted` to be the pair of the verifying key's material and the object's payload when the
  verdict is *true*. A token signed with "none" is no signature.
- `ConfidentialChannel`: payloads are sealed for the holders of materials and opened only by
  them. An envelope that is not whole may be misread, which yields what nobody sealed, but never
  what was sealed for others. `received` is what `decrypt()` returned, and an object is whole if its
  tag and, under CBC, its IV have the length of the algorithm.
- `KeyDirectory`: a name resolves to nothing or to one key, and then for good.
  `bound` is the answer of `getKey` to every query.

- `SharedBackEnd`: whoever asks for a unit's back end is given the one of that unit, which is
  made once and never replaced. `instance` is `back_end`; a thread is served while it uses the
  back end of a unit. The calls of `jwk.cpp` are no part of it.

## 5. Proofs

| Theorem | States |
|---|---|
| `JWSProofs!TypeCorrect` | `Spec => []TypeOK` |
| `JWSProofs!Authenticity` | `Spec => []Authentic` |
| `JWSProofs!SigningDiscipline` | `Spec => OnlySigningKeysSign` |
| `JWSProofs!PublicationIsSafe` | `Spec => NoPrivateMaterialPublished` |
| `JWSProofs!Implementation` | `Spec => ImplementsService` |
| `JWSProofs!CosignaturesGenuine` | `Spec => []NoForgedCosignature` |
| `JWSProofs!OwnTokensStand` | `Spec => []OwnTokensNotRejected` |
| `JWSProofs!SerialisationsExact` | `Spec => []RoundTripExact` |
| `JWEProofs!TypeCorrect` | `Spec => []TypeOK` |
| `JWEProofs!Confidentiality` | `Spec => []OnlyRecipientsRead` |
| `JWEProofs!HeaderAuthenticity` | `Spec => []BoundToHeader` |
| `JWEProofs!Implementation` | `Spec => ImplementsChannel` |
| `JWEProofs!RecipientsSuffice` | `Spec => []GoodRecipientSuffices` |
| `JWEProofs!SerialisationsExact` | `Spec => []RoundTripExact` |
| `JWKSetProofs!TypeCorrect` | `Spec => []TypeOK` |
| `JWKSetProofs!SetsAreSafe` | `Spec => []NoSecretsPublished` |
| `JWKSetProofs!Resolution` | `Spec => []SameResolution` |
| `JWKSetProofs!Implementation` | `Spec => ImplementsDirectory` |
| `JWTProofs!TypeCorrect` | `Spec => []TypeOK` |
| `JWTProofs!AcceptedWithinWindow` | `Spec => []WithinWindow` |
| `JWTProofs!RejectedOutsideWindow` | `Spec => []RejectedOnlyOutside` |
| `JWTProofs!SignedTokensStand` | `Spec => []SignedTokensVerify` |
| `JWTProofs!ExpiryIsFinal` | `Spec => ExpiredStaysExpired` |
| `BackEndInitProofs!TypeCorrect` | `Spec => []TypeOK` |
| `BackEndInitProofs!Uniqueness` | `Spec => []OneBackEnd` |
| `BackEndInitProofs!Implementation` | `Spec => ImplementsShared` |
| `OpenSSLKeysProofs!TypeCorrect` | `Spec => []TypeOK` |
| `OpenSSLKeysProofs!PartsBelong` | `Spec => []OneKeyPair` |
| `OpenSSLKeysProofs!PrivateHalf` | `Spec => []PrivateHalfServes` |
| `OpenSSLKeysProofs!ExportsAccepted` | `Spec => []OwnExportsAccepted` |
| `CodecProofs!RoundTrip` | `Decode(Encode(data)) = data`, for octet strings of any length, and only letters in between |
| `CodecProofs!AnySpelling` | an accepted text of any length, without a misplaced `=`, is read as `data` just when it has the letters of `Encode(data)` |
| `CodecProofs!OwnTextIsRead` | `B64Spec => []OwnTextRead` |
| `CodecProofs!SpellingsAreOfContent` | `B64Spec => []SpellingsOfContent` |
| `CodecProofs!KeysAgree` | `KDFSpec => []SameKeyIffSameContext` |

**Assumptions.** Those named in the modules and evaluated by TLC in every run that extends them:

- `ThumbprintAssumption`: thumbprints are injective. `NoneAssumption`, `TextAssumption`,
  `CEKAssumption`: the special values are no ordinary ones, nor sequences or texts of a token.
- `ProgramAssumption` (JWS, JWT), `KeyAssumption` (JWE, JWKSet): keys are such as the generators
  and the parser return. Only keys on a curve name one; only a symmetric key read without its
  secret has no material; and a material is that of one key pair, so the keys that share it have
  one type and one curve. In `JWT`, where no setter of `JWK` is called, they have one key ID and
  one `alg` too: that is what writing and reading a generated key leaves as it is
  (`JWKProofs!PublishedKey`). In `JWS` and `JWKSet` setters change both at any time; in `JWE`
  keys may be named as they like.
- `ClaimsAssumption`: a claims object of another producer is a map from names to JSON values,
  and what the setters can fill in can be a payload. `TimeAssumption`: times and leeways are
  integers, and an int and a second have a size. (`HalfRange` is a power of two; that it is
  a positive integer is stated there because the prover has no rules for exponents.)
- `SizeAssumption`: secrets have a size. `SetAssumption`: the constants of `JWKSet` have their
  types. `InitAssumption`: `jwk.cpp` is none of the units with a back end of their own.
  `KeysAssumption`: there is at least one attempt (the `static_assert` of the source).
- `OctetsAssumption`: octets are numbers from 0 to 255. `BoundsAssumption`: the bounds of
  `Base64URL` are natural numbers, however large.
- `HashAssumption`: the hash has 32 octets, so that a key is of one round or of two.
  `SecretsAssumption`: shared secrets are octets, and of one size, since both ends are on the
  curve of the ephemeral key; the code puts no length before the secret, and with secrets of
  different sizes the theorem would not hold. `NameAssumption`, `PartiesAssumption`: the parts of
  the context are octets, no longer than four octets of length can say, and algorithms have
  names of their own.

Together with symbolic cryptography that is all.

**JWS.** `Authentic` speaks of a verdict, which was decided by a comparison several steps
earlier, against a signature made before that. The inductive invariant carries the connection:
every signature in circulation stands for a fact of `signed` (`IssuedSigned`); the object held
is made of texts in circulation (`HeldFromCirculation`); keys that can reach the back end have
material (`KeysHoldMaterial`); while the loop runs its arguments exist and do not change
(`ArgumentsHeld`); if `found` is set, one of the entries passed was genuine
(`FoundIsGenuine`); and *true* is answered only with `found` set (`TrueOnlyIfFound`). The proof
has a lemma per action; the refinement maps `Sign` and `Return` to the abstract steps and all
others to `Drop` or a stutter.

The other three properties need to know more of a token than that it was signed, and more of a
loop than that something was found. `VInv` is a second inductive invariant on top of the first.
On the side of tokens: the keys that share a material are of one type (`OneTypeOfMaterial`;
no setter changes a type, and a published key descends from one that was there, lemma
`KeysDescend`); what was signed was signed under an algorithm that fits every copy of the key
(`SignedFits`); an issued token carries the signature over its own texts, under the algorithm its
header names (`IssuedExactly`), and an entry of the object held is what its header says
(`EntriesAsWritten`). On the side of the loop: every entry that was passed and was for the key is
genuine (`PassedVerified`), and *false* has its reason, a wrong entry for this key or none at all
(`VerdictExplained`). `NoForgedCosignature` then follows from an entry's being passed: a genuine
signature is a term that only the sign of these texts can have put in circulation.
`OwnTokensNotRejected` is the contradiction of `VerdictExplained` with an entry that fits and
is genuine. `RoundTripExact` is `EntriesAsWritten` and the parser's definition.

**JWE.** Here the connection is between the CEK that a recipient's entry yields and what was
sent. `TokensSealed`: the content of each token in circulation is bound to the token's header;
a CEK that comes from a `dir` secret or from key agreement comes from a material the payload
was sealed for; a CEK that is wrapped is random and numbered with the tokens made so far, so a
new one is fresh. `WrappedForReaders`: a wrapped CEK, whatever token it is taken from, is
wrapped for a material that every content it opens was sealed for. `HeldFromCirculation`: the
object held has no content and no encrypted key of its own, but for tampered octets, other lengths
and the inline form. `ArgumentsHeld` as above. The two properties themselves are in the invariant
because they speak of the call that has returned, which later steps leave alone. From these the
lemma `OutcomeGenuine` shows what an entry yields, wherever it was taken from: the plaintext of a sealed pair, or `Corrupt` from a content
that is not whole; and unless the tag is short, a content under its own header. A CEK that is
nobody's (`JunkCEK`) opens no content with a tag of full length.

`GoodRecipientSuffices` is the converse, and about a call that has ended by throwing. `RInv`, on
top of the first invariant: every token in circulation can be opened by the private half of each
key it is for, through whichever of its recipients (`TokensOpen`; it rests on the keys of one
material having one type and curve, and on an `epk` being complete where a recipient's header
brings it); `call` is past an entry only if that entry could fail without a fault of OpenSSL, and
throws only past the last (`PassedFailed`). An intact recipient of the key cannot fail
(`TokensOpen`), so the loop cannot have passed it. `ObjectParses`, that the object held is one
a parser would accept, makes `RoundTripExact` a matter of definitions.

**JWKSet.** `getKey` takes the first match, so everything turns on order. The invariant says
that the document written last is that of the set it came from (`DocumentOfOrigin`), and that
the reader's set begins with images of its entries, in order, whatever was appended or put in
(`ReaderHoldsImages`). The image of a key is its public half: `JWKProofs!PublishedKey` says what
reading back what was written leaves of it, if the key's curve goes with its type
(`KeysOnCurves`). The lemma `GetKeyIsFirst` characterises `getKey` by the first position that
matches, from which `SameResolution` compares the two answers position by position, and the
refinement of the directory follows: appending to a sequence does not change its first match.

**JWT.** Claims are signed in one call, read in another and judged in a third, while the clock
moves. `IssuedGenuine`: a signed token carries the signature of one of the keys over its own
header and payload, and its signer vouched for the claims. `HeldVouched`: claims that
`verify()` left in an object were vouched for under the material of the key. `VouchedMeant`
and `DraftKept`: the number in a time claim and the seconds of the time that was meant are the same
as an int (`TimesMeant`), whether the claim was set here, truncated, or came from elsewhere,
untruncated. `AnswerStands`: an answer is that of `validate()` for the object and the clock as they
are. The rest is arithmetic, for every width of an int and every clock: a cast keeps what fits
(`AsIntKeeps`) and makes no number after the epoch larger (`AsIntBelow`), which is why an expiry
too large errs on the early side; `duration_cast` drops less than a second (`SecondsOf`).

**BackEndInit.** That all use one back end rests on three things that must hold together at
every step: the thread between `EnterOnce` and `ReturnOnce` is the `runner` and the only one,
because the flag says so; a flag that is set, and a lambda about to return, has a back end behind
it; and a unit's back end is assigned by its runner only, while no thread can be using one. The
refinement maps `Create` to the abstract `Make`, `Deref` to `Obtain`, `Leave` to `Finish`, and
every other step to a stutter.

**OpenSSLKeys.** `OneKeyPair` speaks of a key, but a failed read or a fall-back happens steps
before there is one. The invariant says of every stage what pair its parts are of: the
`EVP_PKEY` under construction is that of the document (`Reading`), the key object is whole or
was made of a mixed document (`KeyWhole`), what was loaded is of the key (`NativeWhole`). For
`PrivateHalfServes` a DER form without `d` exists only after `generateEC` (`BlobHasD`). For
`OwnExportsAccepted` what `toJSON` writes is well-formed (`WireGood`), and a request that is the
program's own export is of that document (`OwnGood`).

**Base64URL.** The two invariants follow from a small one (`B64Inv`: contents are octets, texts are
characters, and an unchanged text is its content's encoding); all the work is in what encoder and
decoder make of sequences of any length. It needs induction, which the library offers for an operator
only; told of a set it follows from the order of the numbers being well-founded (`LeastNat`,
`NatSet`, and `SeqSet` for sequences). By it a recursive function is shown to exist and to be
what its equations say, which gives `Kept` its laws: of what it keeps (`KeptType`, `KeptAll`), of
dropping twice (`KeptTwice`), of one text after the other (`KeptConcat`), of a text whose dropped
characters all stand at the end (`KeptPrefix`). `FlattenUniform` says where the pieces of a
joined sequence are to be found when all but the last are of one length. With these the encoder's
text is known letter by letter (`EncodedText`) and what is read octet by octet (`TextRead`), and
the two are compared in one group of up to four letters and three octets (`GroupSame`), where it is
arithmetic: the octets agree just when the letters do, the last up to the bits that stand for
nothing. A text is well-formed (`WellFormed`) when it is accepted and `=` stands at the end only;
the encoder's own text is (`OwnWellFormed`), so that reading it back is a case of reading any.

**ConcatKDF.** The invariant says that what an end holds was derived from a context, and that its
length is the one of the algorithm's name (`Derived`), for which the tables of sender and
recipient must agree (`TablesAgree`). The flattened rounds are unrolled for one and for two
(`FlattenOne`, `FlattenTwo`), which gives every octet of a key (`KeyOctets`): octet *k* is octet
*k* of the first hash or *k* - 32 of the second. So equal keys come of equal hashed strings, and
these are taken apart from the left (`SameMessage`): the counter and the secret have known
lengths, and every other part has its length in front (`PrefixedEqual`, with
`BigEndianInjective`). The two strings a long key is made of differ in the counter, hence no octet
occurs twice.

**Model-checked only.** The two `EveryCallEnds`, which are liveness under fairness: the prover has
no rules for ENABLED. Every other property of a passing run is a theorem. The loops of `verify()`
and `decrypt()` run over a vector that nobody changes; that they end is not stated.

## 6. Where the code and its documentation disagree

Checked by a run, which ends in the violation:

- `doc_nothrow`: a header whose `alg` or `kid` is no string makes `value()` throw inside
  overloads marked `noexcept` (`src/jws.cpp:194`), which ends the process;
  `include/jose/jws.hpp:57` promises an empty result.
- `doc_header`: a flattened token without `encrypted_key` has its `header` dropped
  (`src/jwe.cpp:438`), although the comments at `:362` and `:840` say it is there and may hold
  the `epk`.
- `doc_default_alg`: without an algorithm `JWT::sign` takes ES256 for every EC key
  (`src/jwt.cpp:264`), and fails for one on P-384 or P-521; the comment at `:256` says that an
  appropriate algorithm is picked. An OKP key keeps RS256 and fails as well.

Met while modelling, and modelled as the code has it, without a run:

- `sign()` refuses `alg`, `kid` and `typ` in `header_params` (`src/jws.cpp:498`);
  `include/jose/jws.hpp:205` says that `cty`, `crit` and the other reserved names are refused.
- The key ID of a generated key is its SHA-256 thumbprint (`src/jwk.cpp:200`);
  `include/jose/jwk.hpp:68` says SHA-512.
- An `epk` with only the members RFC 7518 asks for is refused, because it goes through
  `JWK::fromJSON`, which wants a `use` or an `alg` (`src/jwe.cpp:843`, `src/jwk.cpp:292`).
  README.md:35 says that per-recipient headers serve to carry it. `GoodRecipientSuffices`
  names the case as an exception.
- `apu` and `apv` are never handed to ConcatKDF (`openssl_back_end.cpp:2829`, `:2981`), so an
  ECDH-ES token of a producer that sets them derives another key here and is refused.
- AES-GCM takes a tag of 1 to 16 octets and compares what it takes
  (`openssl_back_end.cpp:2058`), in content and in key wrapping; only CBC compares the size
  (`:2191`). `doc/rfc7518.txt:1473` says that the tag must be of 128 bits. A genuine content whose
  tag was cut is decrypted, and one that was tampered with may be. `OnlyRecipientsRead`,
  `BoundToHeader` and `ConfidentialChannel` say what remains of the promise: `Whole` and `whole`
  are this exception.
- The length of an IV is not asked either (`openssl_back_end.cpp:2033`, `:2206`), where RFC 7518
  has 96 bits for GCM and 128 for CBC (`doc/rfc7518.txt:1471`, `:1388`): a longer one is read in
  part, a shorter one past its end. For AES-GCM key wrapping without `iv` and `tag` in the header,
  which RFC 7518 says must be there (`doc/rfc7518.txt:1050`, `:1059`), the encrypted key is taken
  to hold them.
- Of base64url texts the decoder accepts more than RFC 7515 does: both alphabets, any unused
  bits, a lone letter, `=` anywhere. `SpellingsOfContent` says which of these still mean the same
  octets; a misplaced `=` may drop or add some, and is the exception it states. White space counts before
  it is taken out, so it is accepted only in multiples of four.
- A start beyond 2^31 wraps into the past and lets its claims in at once; an expiry that wraps
  to exactly the epoch never expires. `WithinWindow` states both as exceptions (`StartKept`,
  `EndKept`).
- RSA and EC documents whose halves are of two pairs are not found out; an OKP key becomes that
  of its `d`. `OneKeyPair` states it.
- An RSA import whose `d` cannot be read back gives a public key without a word; an EC key
  generated like that says it has its private half and is refused by the loaders
  (`PrivateHalfServes`).

Two things the model does because the code does them, without a finding: `verify()` throws, where it could
skip, on a token with an ES256 signature without key ID and an EC key whose `alg` is another
(the loop asks for the key type, the dispatch for `alg`); and a P-256 key whose `alg` is ES384
makes signatures called ES384.

## 7. Not modelled

- Inside the modelled parts: an `oct` key whose `k` is the empty string; `typ` and other members
  nobody reads, `iat` among them; moved-from objects; comparison operators; the names `encrypt()`
  takes in `header_params`; an `iv` and a `tag` of key wrapping from two headers, which outcome by
  outcome are an odd pair (`GCMParams`) or a wrong one; a header whose `typ` is no string, which
  throws where one whose `alg` is none does; the end of the process when a back end cannot be made inside a `noexcept` function. While the program of
  `JWE` holds an object it makes no token: a bound, since what is made later can be loaded later.
- The arithmetic of OpenSSL, DER and bignum conversion: symbolic, section 2.
- The CNG back end and the DER tools (Windows), the command line tool (argument parsing around single calls),
  tests and examples (read as documentation).

## 8. Plan

Done, in this order: `JWK`, `BackEnd`, `JWS`, `SignatureService`, `JWSProofs`; `KeyEncryption`,
`JWE`, `ConfidentialChannel`, `JWEProofs`; `JWKSet`, `KeyDirectory`, `JWKSetProofs`; `JWT`, `JWTProofs`; `BackEndInit`,
`SharedBackEnd`, `BackEndInitProofs`; `OpenSSLKeys`, `OpenSSLKeysProofs`; `Base64URL`, `ConcatKDF`,
`CodecProofs`.

1. `OpenSSLKeys` under `JWK`: that a material of `JWK` may stand for a whole key of `OpenSSLKeys`,
   as a refinement.
2. The CNG back end, as a second implementation of the operators of `BackEnd` and `OpenSSLKeys`,
   where it differs.
