---------------------------- MODULE OpenSSLKeys ----------------------------
(****************************************************************************)
(* How the OpenSSL back end makes key objects and uses them                 *)
(* (openssl_back_end.cpp): generateRSA with its attempts, the import of RSA *)
(* members with its fall-backs, generateEC and generateOkp, what            *)
(* JWK::toJSON writes of the result, and importRsaKey, importEcKey and      *)
(* importOkpKey, which turn a key object into an EVP_PKEY for an operation. *)
(*                                                                          *)
(* A key has a public half and a private half; each is named after the key  *)
(* pair it was computed with, so that parts of different pairs can meet: in *)
(* a document, or in the vectors of a loop that runs again.  Every OpenSSL  *)
(* call may fail, and those whose result is not looked at fail in silence.  *)
(****************************************************************************)
EXTENDS Naturals

CONSTANTS
    Pairs,        \* key pairs, of which each part of a key knows its own
    CRT,          \* the RSA members p, q, dp, dq, qi
    MaxAttempts,  \* JOSE_RSA_GENERATION_MAX_ATTEMPTS
    None          \* no pair, no blob, no key

ASSUME KeysAssumption ==
    /\ MaxAttempts \in Nat \ {0}
    /\ None \notin Pairs
    /\ CRT \subseteq {"p", "q", "dp", "dq", "qi"}

VARIABLES
    pc,       \* what the library is doing
    request,  \* the call: what is to be generated or the members to import
    attempt,  \* attempts of generateRSA so far
    strategy, \* which of the imports of an RSA key comes next
    pkey,     \* the EVP_PKEY under construction, or None
    parts,    \* the byte vectors the members are read into
    key,      \* the key object of the last call, or None
    native,   \* the EVP_PKEY made of it for an operation, or None
    answer,   \* how the last call or operation ended
    wire      \* the document toJSON wrote, or None

vars == <<pc, request, attempt, strategy, pkey, parts, key, native, answer, wire>>

Types   == {"RSA", "EC", "OKP"}
Maybe   == Pairs \union {None}
Answers == {"ok",       \* a key, or a key fit for the operation
            "refused",  \* the members do not make a key, or not one for this
            "failed"}   \* OpenSSL failed, reported as an error or thrown

\* An EVP_PKEY: its halves, and which CRT members it holds.
EVPs == [pub : Pairs, priv : Maybe, crt : SUBSET CRT]

NoParts == [pub |-> None, d |-> None, crt |-> [c \in CRT |-> None]]
Parts   == [pub : Maybe, d : Maybe, crt : [CRT -> Maybe]]

\* OpenSSLRSAKey, OpenSSLECKey and OpenSSLOKPKey; a blob is the DER form of an
\* EVP_PKEY.
Blobs == [pub : Pairs, priv : Pairs] \union {None}
Keys  == [kty : Types, pub : Pairs, d : Maybe, crt : [CRT -> Maybe],
          public_blob : Pairs, private_blob : Blobs]

\* hasPrivate() of the three classes.
HasPrivate(k) == k.d # None \/ k.private_blob # None

\* The members of a document.  "fits" says that the curve is known and that the
\* sizes of the members are the curve's; crt is of the pair of d.  An RSA key has
\* no curve and the others have no CRT members.
Documents ==
    {doc \in [kty : Types, pub : Pairs, d : Maybe, crt : SUBSET CRT, fits : BOOLEAN] :
        IF doc.kty = "RSA" THEN doc.fits ELSE doc.crt = {}}

(***************************************************************************)
(* Reading members back from an EVP_PKEY: d and the CRT members that cannot *)
(* be read are left empty, without an error.                                *)
(***************************************************************************)

\* Mutant: what cannot be read keeps the bytes of an earlier attempt.
Mutant_Extracted(old, evp, unread) ==
    [pub |-> evp.pub,
     d   |-> IF "d" \in unread THEN old.d ELSE evp.priv,
     crt |-> [c \in CRT |-> IF c \in unread \/ c \notin evp.crt THEN old.crt[c] ELSE evp.priv]]

\* extractRSAComponents, which overwrites all its vectors.
Extracted(old, evp, unread) ==
    [pub |-> evp.pub,
     d   |-> IF "d" \in unread THEN None ELSE evp.priv,
     crt |-> [c \in CRT |-> IF c \in unread \/ c \notin evp.crt THEN None ELSE evp.priv]]

\* Mutant: the blob is kept although d was not read.
Mutant_ImportedBlob(read, blob) == blob

\* An imported RSA key has no private blob without d.
ImportedBlob(read, blob) == IF read.d = None THEN None ELSE blob

\* What toDERPrivate may give: the DER form, or nothing.
DERPrivate(evp) ==
    {None} \union IF evp.priv = None THEN {} ELSE {[pub |-> evp.pub, priv |-> evp.priv]}

Complete(read, blob) == read.d # None /\ (\A c \in CRT : read.crt[c] # None) /\ blob # None

RSAKey(pub, read, evp, blob) ==
    [kty |-> "RSA", pub |-> pub, d |-> read.d, crt |-> read.crt,
     public_blob |-> evp.pub, private_blob |-> blob]

CurveKey(kty, pub, d, public_blob, private_blob) ==
    [kty |-> kty, pub |-> pub, d |-> d, crt |-> NoParts.crt,
     public_blob |-> public_blob, private_blob |-> private_blob]

-----------------------------------------------------------------------------
(* Calls. *)

Begin(r, step) ==
    /\ pc = "idle"
    /\ request' = r
    /\ pc' = step
    /\ attempt' = 0 /\ strategy' = "none"
    /\ pkey' = None /\ parts' = NoParts /\ key' = None /\ native' = None /\ answer' = "ok"
    /\ UNCHANGED wire

\* A call ends with a key, or without one.
End(how, k) ==
    /\ answer' = how
    /\ key' = k
    /\ pc' = "idle"
    /\ pkey' = None
    /\ UNCHANGED <<request, native, wire>>

\* JWK::generateRSA, generateEC, generateOKP.
CallGenerate(kty) ==
    Begin([op |-> "generate", kty |-> kty, own |-> FALSE], "generate")

\* JWK::fromJSON of a document, or of what toJSON wrote.
CallImport(doc) ==
    Begin([op |-> "import", kty |-> doc.kty, own |-> wire # None /\ doc = wire, doc |-> doc], "import")

(***************************************************************************)
(* generateRSA(bits): a key pair is made and read back, up to MaxAttempts   *)
(* times, until no private member is missing.                               *)
(***************************************************************************)

\* Mutant: an incomplete key is no reason to count.
Mutant_Counted(n) == n

\* ++attempt.
Counted(n) == n + 1

\* Mutant: one attempt too many.
Mutant_Spent(n) == n > MaxAttempts

\* The loop is over.
Spent(n) == n = MaxAttempts

GenerateRSA ==
    /\ pc = "generate" /\ request.kty = "RSA" /\ ~Spent(attempt)
    /\ UNCHANGED strategy
    /\ \/ /\ End("failed", None) /\ UNCHANGED <<attempt, parts>>
       \/ \E m \in Pairs, unread \in SUBSET (CRT \union {"d"}) :
              LET evp  == [pub |-> m, priv |-> m, crt |-> CRT]
                  read == Extracted(parts, evp, unread)
              IN  \E blob \in DERPrivate(evp) :
                      /\ parts' = read
                      /\ attempt' = Counted(attempt)
                      /\ IF Complete(read, blob)
                         THEN End("ok", RSAKey(read.pub, read, evp, blob))
                         ELSE UNCHANGED <<pc, request, pkey, key, native, answer, wire>>

GenerateRSAGivesUp ==
    /\ pc = "generate" /\ request.kty = "RSA" /\ Spent(attempt)
    /\ End("failed", None)
    /\ UNCHANGED <<attempt, strategy, parts>>

\* generateEC(curve): d that cannot be read is left empty.
GenerateEC ==
    /\ pc = "generate" /\ request.kty = "EC"
    /\ \/ End("failed", None)
       \/ \E m \in Pairs :
              \E d \in {m, None}, blob \in DERPrivate([pub |-> m, priv |-> m, crt |-> {}]) :
                  End("ok", CurveKey("EC", m, d, m, blob))
    /\ UNCHANGED <<attempt, strategy, parts>>

\* generateOkp(use, bits) reports it.
GenerateOKP ==
    /\ pc = "generate" /\ request.kty = "OKP"
    /\ \/ End("failed", None)
       \/ \E m \in Pairs : \E blob \in DERPrivate([pub |-> m, priv |-> m, crt |-> {}]) :
              End("ok", CurveKey("OKP", m, m, m, blob))
    /\ UNCHANGED <<attempt, strategy, parts>>

(***************************************************************************)
(* generateRSA(n, e, d, p, ...): the import.                                *)
(***************************************************************************)

\* A private key needs d, and the CRT members come together or not at all.
IllFormed(doc) == \/ doc.crt # {} /\ doc.d = None
                  \/ doc.crt # {} /\ doc.crt # CRT

Refuse ==
    /\ pc = "import"
    /\ IF request.kty = "RSA" THEN strategy = "none" /\ IllFormed(request.doc)
                              ELSE ~request.doc.fits
    /\ End("refused", None)
    /\ UNCHANGED <<attempt, strategy, parts>>

ChooseStrategy ==
    /\ pc = "import" /\ request.kty = "RSA" /\ strategy = "none"
    /\ ~IllFormed(request.doc)
    /\ strategy' = CASE request.doc.d = None  -> "public"
                     [] request.doc.crt = {} -> "n/e/d"
                     [] OTHER                -> "crt"
    /\ UNCHANGED <<pc, request, attempt, pkey, parts, key, native, answer, wire>>

\* The import tried after one that failed: without the CRT exponents, without
\* the primes, and at last all members once more, in DER.
NextStrategy ==
    CASE strategy = "crt"    -> "primes"
      [] strategy = "primes" -> "n/e/d"
      [] strategy = "n/e/d" /\ request.doc.crt # {} -> "der"
      [] OTHER               -> "over"

\* The EVP_PKEY an import gives.  From the primes OpenSSL may compute the rest.
Imported(doc, how) ==
    [pub |-> doc.pub, priv |-> IF how = "public" THEN None ELSE doc.d,
     crt |-> IF how \in {"crt", "primes", "der"} THEN CRT ELSE {}]

TryImport ==
    /\ pc = "import" /\ request.kty = "RSA" /\ strategy \notin {"none", "over"}
    /\ \/ /\ pkey' = Imported(request.doc, strategy)
          /\ pc' = "read"
          /\ UNCHANGED strategy
       \/ strategy' = NextStrategy /\ UNCHANGED <<pkey, pc>>
    /\ UNCHANGED <<request, attempt, parts, key, native, answer, wire>>

ImportGivesUp ==
    /\ pc = "import" /\ request.kty = "RSA" /\ strategy = "over"
    /\ End("failed", None)
    /\ UNCHANGED <<attempt, strategy, parts>>

\* The members are read back; n and e are kept as they were given.
ReadBack ==
    /\ pc = "read"
    /\ UNCHANGED <<attempt, strategy>>
    /\ \/ End("failed", None) /\ UNCHANGED parts
       \/ \E unread \in SUBSET (CRT \union {"d"}), der \in DERPrivate(pkey) :
              LET read == Extracted(parts, pkey, unread)
              IN  /\ parts' = read
                  /\ End("ok", RSAKey(request.doc.pub, read, pkey, ImportedBlob(read, der)))

\* generateEC(curve, x, y, d): only the public half has to import.  The pair is
\* put together for its DER form, and kept without one when that fails; nothing
\* compares d with x and y.
ImportEC ==
    /\ pc = "import" /\ request.kty = "EC" /\ request.doc.fits
    /\ LET doc == request.doc
       IN  \/ End("failed", None)
           \/ \E blob \in DERPrivate([pub |-> doc.pub, priv |-> doc.d, crt |-> {}]) :
                  End("ok", CurveKey("EC", doc.pub, doc.d, doc.pub, blob))
    /\ UNCHANGED <<attempt, strategy, parts>>

\* EVP_PKEY_new_raw_private_key computes x from d.
OKPPublic(doc) == IF doc.d = None THEN doc.pub ELSE doc.d

\* generateOkp(curve, x, d).
ImportOKP ==
    /\ pc = "import" /\ request.kty = "OKP" /\ request.doc.fits
    /\ LET doc == request.doc
           pub == OKPPublic(doc)
       IN  \/ End("failed", None)
           \/ \E blob \in DERPrivate([pub |-> pub, priv |-> doc.d, crt |-> {}]) :
                  End("ok", CurveKey("OKP", pub, doc.d, pub, blob))
    /\ UNCHANGED <<attempt, strategy, parts>>

(***************************************************************************)
(* A key object in use.                                                     *)
(***************************************************************************)

\* Mutant: each private member is written when the key has it.
Mutant_Exported(k) ==
    [kty |-> k.kty, pub |-> k.pub, d |-> k.d,
     crt |-> {c \in CRT : k.crt[c] # None}, fits |-> TRUE]

\* toJSON(true): the private members of an RSA key only if none is missing.
Exported(k) ==
    LET whole == k.kty = "RSA" => k.d # None /\ \A c \in CRT : k.crt[c] # None
    IN  [kty |-> k.kty, pub |-> k.pub, d |-> IF whole THEN k.d ELSE None,
         crt |-> IF k.kty = "RSA" /\ whole THEN CRT ELSE {}, fits |-> TRUE]

Export ==
    /\ pc = "idle" /\ key # None
    /\ wire' = Exported(key)
    /\ UNCHANGED <<pc, request, attempt, strategy, pkey, parts, key, native, answer>>

\* The EVP_PKEYs importRsaKey may make: of the DER form, or of n, e and d, which
\* is there if the key has it, when there is none or it does not decode.
FromRSA(k, private) ==
    {[pub |-> k.pub, priv |-> k.d],
     IF private THEN k.private_blob ELSE [pub |-> k.public_blob, priv |-> None]} \ {None}

\* importEcKey: the same with x, y and d, which goes into a private key only.
FromEC(k, private) ==
    IF private THEN {[pub |-> k.pub, priv |-> k.d], k.private_blob} \ {None}
    ELSE {[pub |-> k.pub, priv |-> None], [pub |-> k.public_blob, priv |-> None]}

\* importOkpKey: of d or of x, never of a DER form.
FromOKP(k, private) ==
    {IF private THEN [pub |-> k.d, priv |-> k.d] ELSE [pub |-> k.pub, priv |-> None]}

Loadable(k, private) ==
    CASE k.kty = "RSA" -> FromRSA(k, private)
      [] k.kty = "EC"  -> FromEC(k, private)
      [] k.kty = "OKP" -> FromOKP(k, private)

\* importPkeyFromKey, for signing or unwrapping (private) or the opposite.
Load(private) ==
    /\ pc = "idle" /\ key # None
    /\ IF private /\ key.d = None THEN answer' = "refused" /\ native' = None
       ELSE \/ answer' = "failed" /\ native' = None
            \/ \E evp \in Loadable(key, private) : answer' = "ok" /\ native' = evp
    /\ UNCHANGED <<pc, request, attempt, strategy, pkey, parts, key, wire>>

-----------------------------------------------------------------------------
Init ==
    /\ pc = "idle" /\ request = None
    /\ attempt = 0 /\ strategy = "none"
    /\ pkey = None /\ parts = NoParts
    /\ key = None /\ native = None /\ answer = "ok" /\ wire = None

Step ==
    \/ GenerateRSA \/ GenerateRSAGivesUp \/ GenerateEC \/ GenerateOKP
    \/ Refuse \/ ChooseStrategy \/ TryImport \/ ImportGivesUp \/ ReadBack
    \/ ImportEC \/ ImportOKP

Next ==
    \/ Step
    \/ \E kty \in Types : CallGenerate(kty)
    \/ \E doc \in Documents : CallImport(doc)
    \/ Export
    \/ \E private \in BOOLEAN : Load(private)

\* A call that has begun goes on: one thread runs it, and nothing stops it.
Spec == Init /\ [][Next]_vars /\ WF_vars(Step)

-----------------------------------------------------------------------------
(* Properties. *)

\* Every variable has its type; generateRSA stays within its attempts.
TypeOK ==
    /\ pc \in {"idle", "generate", "import", "read"}
    /\ request # None => request.kty \in Types /\ request.op \in {"generate", "import"}
    /\ attempt \in 0..MaxAttempts
    /\ strategy \in {"none", "public", "crt", "primes", "n/e/d", "der", "over"}
    /\ pkey \in EVPs \union {None}
    /\ parts \in Parts
    /\ key \in Keys \union {None}
    /\ native \in [pub : Pairs, priv : Maybe] \union {None}
    /\ answer \in Answers
    /\ wire \in Documents \union {None}

\* The halves of a document are of one pair.
Belong(doc) == doc.d \in {None, doc.pub}

\* The parts of a key, its DER forms included, are all of the pair its public
\* half shows, whichever attempt or fall-back made it and whatever could not be
\* read on the way; and so is what signs and verifies in its name.  A document
\* that mixes two pairs is not found out for RSA and EC; an OKP key becomes
\* that of its private half.
OneKeyPair ==
    key # None /\ (request.op = "import" /\ key.kty # "OKP" => Belong(request.doc)) =>
        /\ {key.d} \union {key.crt[c] : c \in CRT} \subseteq {key.pub, None}
        /\ key.public_blob = key.pub
        /\ key.private_blob # None => key.private_blob = [pub |-> key.pub, priv |-> key.pub]
        /\ native # None => native.pub = key.pub /\ native.priv \in {key.pub, None}

\* A key that says it has its private half can be loaded for private operations,
\* failures of OpenSSL apart, although hasPrivate() is content with a DER form
\* and the loaders insist on d.  Of the ways a key comes about, only the
\* generation of an EC key can leave the one without the other.
PrivateHalfServes ==
    key # None /\ HasPrivate(key) /\ answer = "refused" =>
        key.kty = "EC" /\ request.op = "generate"

\* What toJSON writes of a key is never refused by fromJSON as ill-formed,
\* however much of the key was lost to fall-backs and failed reads before.
OwnExportsAccepted ==
    pc = "idle" /\ request # None /\ request.own /\ key = None => answer # "refused"

\* Every call ends, although generateRSA tries again and the import falls back.
EveryCallEnds == pc # "idle" ~> pc = "idle"
=============================================================================
