------------------------- MODULE OpenSSLKeysProofs -------------------------
(*****************************************************************************)
(* Proofs about OpenSSLKeys, for any key pairs, any selection of CRT members *)
(* and any number of attempts.  That calls end is left to TLC.               *)
(*****************************************************************************)
EXTENDS OpenSSLKeys, TLAPS

\* A request is what its call made it.
Requested ==
    /\ pc = "generate" => request.op = "generate" /\ request.kty \in Types /\ ~request.own
    /\ pc \in {"import", "read"} =>
           request.op = "import" /\ request.doc \in Documents /\ request.kty = request.doc.kty

\* While an RSA key is read back, its EVP_PKEY is of the document.
Reading ==
    pc = "read" => /\ request.kty = "RSA"
                   /\ pkey \in EVPs
                   /\ pkey.pub = request.doc.pub
                   /\ pkey.priv \in {request.doc.d, None}

\* A call in progress has no key yet, and without a key nothing is loaded.
Pending == /\ pc # "idle" => key = None
           /\ key = None => native = None

\* A key is of the type that was asked for.
OfRequest == key # None =>
    /\ pc = "idle"
    /\ request.kty = key.kty
    /\ request.op \in {"generate", "import"}
    /\ request.op = "import" => request.doc \in Documents

\* Whether a key's parts had to be of one pair when it was made.
Sound == request.op = "import" /\ key.kty # "OKP" => Belong(request.doc)

\* The parts of a key are of one pair.
Whole(k) ==
    /\ k.d \in {k.pub, None}
    /\ \A c \in CRT : k.crt[c] \in {k.pub, None}
    /\ k.public_blob = k.pub
    /\ k.private_blob # None => k.private_blob = [pub |-> k.pub, priv |-> k.pub]

KeyWhole == key # None /\ Sound => Whole(key)

NativeWhole ==
    key # None /\ Sound /\ native # None => native.pub = key.pub /\ native.priv \in {key.pub, None}

\* A DER form without d is kept by the generation of EC keys only.
BlobHasD ==
    key # None /\ key.d = None /\ key.private_blob # None =>
        key.kty = "EC" /\ request.op = "generate"

\* Only a key without d is refused for an operation.
RefusedForD == key # None /\ answer = "refused" => key.d = None

\* What toJSON wrote is well-formed, and so is a request for it.
WellFormed(doc) == ~IllFormed(doc) /\ doc.fits
WireGood == wire # None => wire \in Documents /\ WellFormed(wire)
OwnGood  == pc = "import" /\ request.own => WellFormed(request.doc)

\* A call ends without a key as "refused" only for a document that is not.
RefusedForForm ==
    request # None /\ key = None /\ answer = "refused" /\ pc = "idle" =>
        ~request.own

IInv ==
    /\ TypeOK
    /\ Requested /\ Reading /\ Pending /\ OfRequest
    /\ KeyWhole /\ NativeWhole /\ BlobHasD /\ RefusedForD
    /\ WireGood /\ OwnGood /\ RefusedForForm

-----------------------------------------------------------------------------
(* What the operators return. *)

\* Reading an EVP_PKEY back gives byte vectors, each of the EVP_PKEY's pair or
\* empty.
LEMMA ExtractedParts ==
    ASSUME NEW old, NEW evp \in EVPs, NEW unread
    PROVE  /\ Extracted(old, evp, unread) \in Parts
           /\ Extracted(old, evp, unread).pub = evp.pub
           /\ Extracted(old, evp, unread).d \in {evp.priv, None}
           /\ \A c \in CRT : Extracted(old, evp, unread).crt[c] \in {evp.priv, None}
BY DEF EVPs, Extracted, Parts, Maybe

\* The DER form of a private key has its two halves.
LEMMA DERForm ==
    ASSUME NEW evp \in EVPs, NEW blob \in DERPrivate(evp)
    PROVE  /\ blob \in Blobs
           /\ blob # None => evp.priv # None /\ blob = [pub |-> evp.pub, priv |-> evp.priv]
BY DEF EVPs, DERPrivate, Blobs, Maybe

\* An RSA key made of vectors is a key.
LEMMA RSAKeyTyped ==
    ASSUME NEW pub \in Pairs, NEW read \in Parts, NEW evp \in EVPs, NEW blob \in Blobs
    PROVE  /\ RSAKey(pub, read, evp, blob) \in Keys
           /\ RSAKey(pub, read, evp, blob).kty = "RSA"
           /\ RSAKey(pub, read, evp, blob).pub = pub
           /\ RSAKey(pub, read, evp, blob).d = read.d
           /\ RSAKey(pub, read, evp, blob).crt = read.crt
           /\ RSAKey(pub, read, evp, blob).public_blob = evp.pub
           /\ RSAKey(pub, read, evp, blob).private_blob = blob
BY DEF RSAKey, Parts, EVPs, Keys, Types, Maybe, Blobs

\* A key on a curve is a key.
LEMMA CurveKeyTyped ==
    ASSUME NEW kty \in Types, NEW pub \in Pairs, NEW d \in Maybe, NEW public_blob \in Pairs,
           NEW blob \in Blobs
    PROVE  /\ CurveKey(kty, pub, d, public_blob, blob) \in Keys
           /\ CurveKey(kty, pub, d, public_blob, blob).kty = kty
           /\ CurveKey(kty, pub, d, public_blob, blob).pub = pub
           /\ CurveKey(kty, pub, d, public_blob, blob).d = d
           /\ \A c \in CRT : CurveKey(kty, pub, d, public_blob, blob).crt[c] = None
           /\ CurveKey(kty, pub, d, public_blob, blob).public_blob = public_blob
           /\ CurveKey(kty, pub, d, public_blob, blob).private_blob = blob
BY DEF CurveKey, NoParts, Keys, Maybe

\* What toJSON writes is a well-formed document.
LEMMA ExportedGood ==
    ASSUME NEW k \in Keys
    PROVE  Exported(k) \in Documents /\ WellFormed(Exported(k))
BY DEF Keys, Exported, Documents, WellFormed, IllFormed, Maybe, Types

-----------------------------------------------------------------------------
(* The invariant is inductive. *)

\* The invariant of the induction holds in the initial state.
LEMMA InitEstablishes == Init => IInv
BY KeysAssumption DEF Init, IInv, TypeOK, Requested, Reading, Pending, OfRequest, KeyWhole, NativeWhole,
    BlobHasD, RefusedForD, WireGood, OwnGood, RefusedForForm, NoParts, Parts, Maybe, Answers

\* A call that begins keeps it.
LEMMA BeginKeeps ==
    ASSUME IInv, NEW r, NEW step \in {"generate", "import"}, Begin(r, step),
           r.kty \in Types,
           step = "generate" => r.op = "generate" /\ ~r.own,
           step = "import" => /\ r.op = "import" /\ r.doc \in Documents /\ r.kty = r.doc.kty
                              /\ r.own => WellFormed(r.doc)
    PROVE  IInv'
BY KeysAssumption DEF Begin, IInv, TypeOK, Requested, Reading, Pending, OfRequest, KeyWhole, NativeWhole,
    BlobHasD, RefusedForD, WireGood, OwnGood, RefusedForForm, NoParts, Parts, Maybe, Answers

\* A call that ends without a key keeps it, if it ends as "refused" only for a
\* document that is ill-formed.
LEMMA FailureKeeps ==
    ASSUME IInv, NEW how \in Answers, End(how, None), pc # "idle",
           how = "refused" => ~request.own,
           attempt' = attempt, strategy' = strategy, parts' = parts
    PROVE  IInv'
BY DEF End, IInv, TypeOK, Requested, Reading, Pending, OfRequest, KeyWhole, NativeWhole,
    BlobHasD, RefusedForD, WireGood, OwnGood, RefusedForForm

\* A call that ends with a key keeps it, if the key is of the request and whole
\* when it has to be.
LEMMA SuccessKeeps ==
    ASSUME IInv, NEW k \in Keys, End("ok", k), pc # "idle",
           k.kty = request.kty,
           (request.op = "import" /\ k.kty # "OKP" => Belong(request.doc)) => Whole(k),
           k.d = None /\ k.private_blob # None => k.kty = "EC" /\ request.op = "generate",
           attempt' \in 0..MaxAttempts, strategy' = strategy, parts' \in Parts
    PROVE  IInv'
<1>1. /\ answer' = "ok" /\ key' = k /\ pc' = "idle" /\ pkey' = None
      /\ request' = request /\ native' = native /\ wire' = wire /\ native = None
  BY DEF End, IInv, Pending
<1>2. TypeOK'
  BY <1>1 DEF IInv, TypeOK, Answers
<1>3. Requested' /\ Reading' /\ Pending' /\ OfRequest'
  BY <1>1 DEF IInv, Requested, Reading, Pending, OfRequest, TypeOK
<1>4. KeyWhole'
  BY <1>1 DEF KeyWhole, Sound, Whole, Belong
<1>5. NativeWhole' /\ BlobHasD' /\ RefusedForD' /\ WireGood' /\ OwnGood' /\ RefusedForForm'
  BY <1>1 DEF IInv, NativeWhole, BlobHasD, RefusedForD, WireGood, OwnGood, RefusedForForm, WellFormed,
      IllFormed
<1>. QED BY <1>2, <1>3, <1>4, <1>5 DEF IInv

\* An attempt of generateRSA keeps it, incomplete or not.
LEMMA GenerateRSAKeeps == IInv /\ GenerateRSA => IInv'
<1>. SUFFICES ASSUME IInv, GenerateRSA PROVE IInv'
  OBVIOUS
<1>1. pc = "generate" /\ request.kty = "RSA" /\ request.op = "generate" /\ ~request.own
  BY DEF GenerateRSA, IInv, Requested
<1>2. CASE End("failed", None) /\ UNCHANGED <<attempt, parts>>
  BY <1>1, <1>2, FailureKeeps DEF GenerateRSA, Answers
<1>3. CASE ~(End("failed", None) /\ UNCHANGED <<attempt, parts>>)
  <2>1. PICK m \in Pairs, unread \in SUBSET (CRT \union {"d"}) :
          LET evp  == [pub |-> m, priv |-> m, crt |-> CRT]
              read == Extracted(parts, evp, unread)
          IN  \E blob \in DERPrivate(evp) :
                  /\ parts' = read
                  /\ attempt' = Counted(attempt)
                  /\ IF Complete(read, blob)
                     THEN End("ok", RSAKey(read.pub, read, evp, blob))
                     ELSE UNCHANGED <<pc, request, pkey, key, native, answer, wire>>
    BY <1>3 DEF GenerateRSA
  <2>. DEFINE evp  == [pub |-> m, priv |-> m, crt |-> CRT]
              read == Extracted(parts, evp, unread)
  <2>2. PICK blob \in DERPrivate(evp) :
          /\ parts' = read
          /\ attempt' = Counted(attempt)
          /\ IF Complete(read, blob)
             THEN End("ok", RSAKey(read.pub, read, evp, blob))
             ELSE UNCHANGED <<pc, request, pkey, key, native, answer, wire>>
    BY <2>1
  <2>3. evp \in EVPs /\ evp.pub = m /\ evp.priv = m
    BY DEF EVPs, Maybe
  <2>. HIDE DEF evp
  <2>4. /\ read \in Parts /\ read.pub = m /\ read.d \in {m, None}
        /\ \A c \in CRT : read.crt[c] \in {m, None}
    BY <2>3, ExtractedParts
  <2>. HIDE DEF read
  <2>5. blob \in Blobs /\ (blob # None => blob = [pub |-> m, priv |-> m])
    BY <2>3, DERForm
  <2>6. attempt' \in 0..MaxAttempts
    BY <2>2, KeysAssumption DEF GenerateRSA, Counted, Spent, IInv, TypeOK
  <2>7. strategy' = strategy
    BY DEF GenerateRSA
  <2>8. CASE Complete(read, blob)
    <3>. DEFINE k == RSAKey(read.pub, read, evp, blob)
    <3>1. /\ k \in Keys /\ k.kty = "RSA" /\ k.pub = m /\ k.d = read.d /\ k.crt = read.crt
          /\ k.public_blob = m /\ k.private_blob = blob
      BY <2>3, <2>4, <2>5, RSAKeyTyped
    <3>2. End("ok", k)
      BY <2>2, <2>8
    <3>. HIDE DEF k
    <3>3. Whole(k)
      BY <2>4, <2>5, <3>1 DEF Whole
    <3>4. k.d # None
      BY <2>8, <3>1 DEF Complete
    <3>. QED BY <1>1, <2>2, <2>4, <2>6, <2>7, <3>1, <3>2, <3>3, <3>4, SuccessKeeps
  <2>9. CASE ~Complete(read, blob)
    <3>1. UNCHANGED <<pc, request, pkey, key, native, answer, wire>>
      BY <2>2, <2>9
    <3>. QED BY <2>2, <2>4, <2>6, <2>7, <3>1 DEF IInv, TypeOK, Requested, Reading, Pending, OfRequest,
            KeyWhole, Sound, Whole, NativeWhole, BlobHasD, RefusedForD, WireGood, OwnGood, RefusedForForm
  <2>. QED BY <2>8, <2>9
<1>. QED BY <1>2, <1>3

\* generateEC and generateOkp keep it.
LEMMA GenerateCurveKeeps == IInv /\ (GenerateEC \/ GenerateOKP) => IInv'
<1>. SUFFICES ASSUME IInv, GenerateEC \/ GenerateOKP PROVE IInv'
  OBVIOUS
<1>1. /\ pc = "generate" /\ request.kty \in {"EC", "OKP"} /\ request.op = "generate" /\ ~request.own
      /\ attempt' = attempt /\ strategy' = strategy /\ parts' = parts
  BY DEF GenerateEC, GenerateOKP, IInv, Requested
<1>2. CASE End("failed", None)
  BY <1>1, <1>2, FailureKeeps DEF Answers
<1>3. CASE ~End("failed", None)
  <2>1. PICK m \in Pairs :
          \E d \in IF request.kty = "EC" THEN {m, None} ELSE {m},
             blob \in DERPrivate([pub |-> m, priv |-> m, crt |-> {}]) :
              End("ok", CurveKey(request.kty, m, d, m, blob))
    <3>1. CASE GenerateEC
      BY <1>3, <3>1 DEF GenerateEC
    <3>2. CASE GenerateOKP
      BY <1>3, <3>2 DEF GenerateOKP
    <3>. QED BY <3>1, <3>2
  <2>. DEFINE evp == [pub |-> m, priv |-> m, crt |-> {}]
  <2>2. PICK d \in IF request.kty = "EC" THEN {m, None} ELSE {m}, blob \in DERPrivate(evp) :
          End("ok", CurveKey(request.kty, m, d, m, blob))
    BY <2>1
  <2>3. evp \in EVPs /\ evp.pub = m /\ evp.priv = m
    BY DEF EVPs, Maybe
  <2>. HIDE DEF evp
  <2>4. blob \in Blobs /\ (blob # None => blob = [pub |-> m, priv |-> m])
    BY <2>3, DERForm
  <2>. DEFINE k == CurveKey(request.kty, m, d, m, blob)
  <2>5. /\ k \in Keys /\ k.kty = request.kty /\ k.pub = m /\ k.d = d /\ \A c \in CRT : k.crt[c] = None
        /\ k.public_blob = m /\ k.private_blob = blob
    BY <1>1, <2>4, CurveKeyTyped DEF Types, Maybe
  <2>6. End("ok", k)
    BY <2>2
  <2>. HIDE DEF k
  <2>7. Whole(k) /\ (k.d = None => k.kty = "EC")
    BY <1>1, <2>4, <2>5, KeysAssumption DEF Whole
  <2>8. attempt' \in 0..MaxAttempts /\ parts' \in Parts
    BY <1>1 DEF IInv, TypeOK
  <2>. QED BY <1>1, <2>5, <2>6, <2>7, <2>8, SuccessKeeps
<1>. QED BY <1>2, <1>3

\* A refusal keeps it: no document of toJSON is refused.
LEMMA RefuseKeeps == IInv /\ Refuse => IInv'
<1>. SUFFICES ASSUME IInv, Refuse PROVE IInv'
  OBVIOUS
<1>1. ~request.own
  BY DEF Refuse, IInv, OwnGood, WellFormed
<1>. QED BY <1>1, FailureKeeps DEF Refuse, Answers

\* The steps of the import of an RSA key that make no key keep it.
LEMMA ImportStepsKeep == IInv /\ (ChooseStrategy \/ TryImport) => IInv'
<1>1. ASSUME IInv, ChooseStrategy
      PROVE  IInv'
  BY <1>1 DEF ChooseStrategy, IInv, TypeOK, Requested, Reading, Pending, OfRequest,
     KeyWhole, Sound, Whole, NativeWhole, BlobHasD, RefusedForD, WireGood, OwnGood, RefusedForForm
<1>2. ASSUME IInv, TryImport
      PROVE  IInv'
  <2>1. Imported(request.doc, strategy) \in EVPs
    BY <1>2 DEF TryImport, Imported, IInv, Requested, Documents, EVPs, Maybe
  <2>2. NextStrategy \in {"primes", "n/e/d", "der", "over"}
    BY DEF NextStrategy
  <2>. QED BY <1>2, <2>1, <2>2 DEF TryImport, Imported, IInv, TypeOK, Requested, Reading, Pending, OfRequest,
     KeyWhole, Sound, Whole, NativeWhole, BlobHasD, RefusedForD, WireGood, OwnGood, RefusedForForm
<1>. QED BY <1>1, <1>2

\* Reading an imported RSA key back keeps it.
LEMMA ReadBackKeeps == IInv /\ ReadBack => IInv'
<1>. SUFFICES ASSUME IInv, ReadBack PROVE IInv'
  OBVIOUS
<1>. DEFINE doc == request.doc
<1>1. /\ pc = "read" /\ request.op = "import" /\ request.kty = "RSA" /\ doc \in Documents
      /\ pkey \in EVPs /\ pkey.pub = doc.pub /\ pkey.priv \in {doc.d, None}
      /\ attempt' = attempt /\ strategy' = strategy
  BY DEF ReadBack, IInv, Requested, Reading
<1>2. CASE End("failed", None) /\ UNCHANGED parts
  BY <1>1, <1>2, FailureKeeps DEF Answers
<1>3. CASE ~(End("failed", None) /\ UNCHANGED parts)
  <2>1. PICK unread \in SUBSET (CRT \union {"d"}), der \in DERPrivate(pkey) :
          LET read == Extracted(parts, pkey, unread)
          IN  /\ parts' = read
              /\ End("ok", RSAKey(doc.pub, read, pkey, ImportedBlob(read, der)))
    BY <1>3 DEF ReadBack
  <2>. DEFINE read == Extracted(parts, pkey, unread)
              blob == ImportedBlob(read, der)
              k    == RSAKey(doc.pub, read, pkey, blob)
  <2>2. /\ read \in Parts /\ read.d \in {pkey.priv, None}
        /\ \A c \in CRT : read.crt[c] \in {pkey.priv, None}
    BY <1>1, ExtractedParts
  <2>3. /\ der \in Blobs
        /\ der # None => der = [pub |-> pkey.pub, priv |-> pkey.priv] /\ pkey.priv # None
    BY <1>1, DERForm
  <2>4. parts' = read /\ End("ok", k)
    BY <2>1
  <2>. HIDE DEF read
  <2>5. blob \in Blobs /\ blob \in {der, None} /\ (read.d = None => blob = None)
    BY <2>3 DEF ImportedBlob, Blobs
  <2>. HIDE DEF blob
  <2>6. doc.pub \in Pairs
    BY <1>1 DEF Documents
  <2>7. /\ k \in Keys /\ k.kty = "RSA" /\ k.pub = doc.pub /\ k.d = read.d /\ k.crt = read.crt
        /\ k.public_blob = pkey.pub /\ k.private_blob = blob
    BY <1>1, <2>2, <2>5, <2>6, RSAKeyTyped
  <2>. HIDE DEF k
  <2>8. Belong(doc) => Whole(k)
    BY <1>1, <2>2, <2>3, <2>5, <2>7 DEF Belong, Whole
  <2>9. attempt' \in 0..MaxAttempts
    BY <1>1 DEF IInv, TypeOK
  <2>. QED BY <1>1, <2>2, <2>4, <2>5, <2>7, <2>8, <2>9, SuccessKeeps
<1>. QED BY <1>2, <1>3

\* The import of an EC key keeps it.
LEMMA ImportECKeeps == IInv /\ ImportEC => IInv'
<1>. SUFFICES ASSUME IInv, ImportEC PROVE IInv'
  OBVIOUS
<1>. DEFINE doc == request.doc
            evp == [pub |-> doc.pub, priv |-> doc.d, crt |-> {}]
<1>1. /\ pc = "import" /\ request.op = "import" /\ request.kty = "EC" /\ doc \in Documents
      /\ attempt' = attempt /\ strategy' = strategy /\ parts' = parts
  BY DEF ImportEC, IInv, Requested
<1>2. CASE End("failed", None)
  BY <1>1, <1>2, FailureKeeps DEF Answers
<1>3. CASE ~End("failed", None)
  <2>1. PICK blob \in DERPrivate(evp) : End("ok", CurveKey("EC", doc.pub, doc.d, doc.pub, blob))
    BY <1>3 DEF ImportEC
  <2>2. evp \in EVPs /\ evp.pub = doc.pub /\ evp.priv = doc.d /\ doc.pub \in Pairs /\ doc.d \in Maybe
    BY <1>1 DEF EVPs, Documents
  <2>. HIDE DEF evp
  <2>3. /\ blob \in Blobs
        /\ blob # None => doc.d # None /\ blob = [pub |-> doc.pub, priv |-> doc.d]
    BY <2>2, DERForm
  <2>. DEFINE k == CurveKey("EC", doc.pub, doc.d, doc.pub, blob)
  <2>4. /\ k \in Keys /\ k.kty = "EC" /\ k.pub = doc.pub /\ k.d = doc.d
        /\ \A c \in CRT : k.crt[c] = None
        /\ k.public_blob = doc.pub /\ k.private_blob = blob
    BY <2>2, <2>3, CurveKeyTyped DEF Types
  <2>5. End("ok", k)
    BY <2>1
  <2>. HIDE DEF k
  <2>6. Belong(doc) => Whole(k)
    BY <2>3, <2>4 DEF Belong, Whole
  <2>7. attempt' \in 0..MaxAttempts /\ parts' \in Parts
    BY <1>1 DEF IInv, TypeOK
  <2>. QED BY <1>1, <2>3, <2>4, <2>5, <2>6, <2>7, SuccessKeeps
<1>. QED BY <1>2, <1>3

\* The import of an OKP key keeps it; the key is whole whatever the document.
LEMMA ImportOKPKeeps == IInv /\ ImportOKP => IInv'
<1>. SUFFICES ASSUME IInv, ImportOKP PROVE IInv'
  OBVIOUS
<1>. DEFINE doc == request.doc
            pub == OKPPublic(doc)
            evp == [pub |-> pub, priv |-> doc.d, crt |-> {}]
<1>1. /\ pc = "import" /\ request.op = "import" /\ request.kty = "OKP" /\ doc \in Documents
      /\ attempt' = attempt /\ strategy' = strategy /\ parts' = parts
  BY DEF ImportOKP, IInv, Requested
<1>2. CASE End("failed", None)
  BY <1>1, <1>2, FailureKeeps DEF Answers
<1>3. CASE ~End("failed", None)
  <2>1. PICK blob \in DERPrivate(evp) : End("ok", CurveKey("OKP", pub, doc.d, pub, blob))
    BY <1>3 DEF ImportOKP
  <2>2. pub \in Pairs /\ doc.d \in {pub, None}
    BY <1>1 DEF OKPPublic, Documents, Maybe
  <2>. HIDE DEF pub
  <2>3. evp \in EVPs /\ evp.pub = pub /\ evp.priv = doc.d /\ doc.d \in Maybe
    BY <2>2 DEF EVPs, Maybe
  <2>. HIDE DEF evp
  <2>4. /\ blob \in Blobs
        /\ blob # None => doc.d # None /\ blob = [pub |-> pub, priv |-> doc.d]
    BY <2>3, DERForm
  <2>. DEFINE k == CurveKey("OKP", pub, doc.d, pub, blob)
  <2>5. /\ k \in Keys /\ k.kty = "OKP" /\ k.pub = pub /\ k.d = doc.d
        /\ \A c \in CRT : k.crt[c] = None
        /\ k.public_blob = pub /\ k.private_blob = blob
    BY <2>2, <2>3, <2>4, CurveKeyTyped DEF Types
  <2>6. End("ok", k)
    BY <2>1
  <2>. HIDE DEF k
  <2>7. Whole(k)
    BY <2>2, <2>4, <2>5 DEF Whole
  <2>8. attempt' \in 0..MaxAttempts /\ parts' \in Parts
    BY <1>1 DEF IInv, TypeOK
  <2>. QED BY <1>1, <2>4, <2>5, <2>6, <2>7, <2>8, SuccessKeeps
<1>. QED BY <1>2, <1>3

\* Writing a key out keeps it.
LEMMA ExportKeeps == IInv /\ Export => IInv'
<1>. SUFFICES ASSUME IInv, Export PROVE IInv'
  OBVIOUS
<1>1. wire' \in Documents /\ WellFormed(wire')
  BY ExportedGood DEF Export, IInv, TypeOK
<1>2. WireGood' /\ TypeOK'
  BY <1>1 DEF Export, IInv, WireGood, TypeOK
<1>. QED BY <1>2 DEF Export, IInv, Requested, Reading, Pending, OfRequest, KeyWhole, Sound, Whole,
      NativeWhole, BlobHasD, RefusedForD, OwnGood, RefusedForForm

\* Loading a whole key gives an EVP_PKEY of its pair.
LEMMA LoadableWhole ==
    ASSUME NEW k \in Keys, NEW private \in BOOLEAN, private => k.d # None,
           NEW evp \in Loadable(k, private)
    PROVE  /\ evp \in [pub : Pairs, priv : Maybe]
           /\ Whole(k) => evp.pub = k.pub /\ evp.priv \in {k.pub, None}
BY KeysAssumption DEF Keys, Types, Loadable, FromRSA, FromEC, FromOKP, Whole, Maybe, Blobs

\* Loading keeps it.
LEMMA LoadKeeps == ASSUME IInv, NEW private \in BOOLEAN, Load(private) PROVE IInv'
<1>1. key \in Keys
  BY DEF Load, IInv, TypeOK
<1>2. TypeOK'
  BY <1>1, LoadableWhole DEF Load, IInv, TypeOK, Answers
<1>3. NativeWhole'
  BY <1>1, LoadableWhole DEF Load, IInv, NativeWhole, KeyWhole, Sound
<1>4. RefusedForD'
  BY DEF Load, IInv, RefusedForD
<1>5. Pending' /\ RefusedForForm'
  BY DEF Load, IInv, Pending, RefusedForForm
<1>. QED BY <1>2, <1>3, <1>4, <1>5 DEF Load, IInv, Requested, Reading, OfRequest, KeyWhole, Sound, Whole,
      BlobHasD, WireGood, OwnGood

\* Every step keeps the invariant of the induction.
LEMMA NextKeeps == IInv /\ [Next]_vars => IInv'
<1>1. ASSUME IInv, GenerateRSAGivesUp \/ ImportGivesUp
      PROVE  IInv'
  BY <1>1, FailureKeeps DEF GenerateRSAGivesUp, ImportGivesUp, Answers
<1>2. ASSUME IInv, Step
      PROVE  IInv'
  BY <1>1, <1>2, GenerateRSAKeeps, GenerateCurveKeeps, RefuseKeeps, ImportStepsKeep, ReadBackKeeps,
     ImportECKeeps, ImportOKPKeeps DEF Step
<1>3. ASSUME IInv, NEW kty \in Types, CallGenerate(kty)
      PROVE  IInv'
  BY <1>3, BeginKeeps DEF CallGenerate
<1>4. ASSUME IInv, NEW doc \in Documents, CallImport(doc)
      PROVE  IInv'
  <2>1. wire # None /\ doc = wire => WellFormed(doc)
    BY <1>4 DEF IInv, WireGood
  <2>2. doc.kty \in Types
    BY DEF Documents
  <2>. QED BY <1>4, <2>1, <2>2, BeginKeeps DEF CallImport
<1>5. ASSUME IInv, UNCHANGED vars
      PROVE  IInv'
  BY <1>5 DEF vars, IInv, TypeOK, Requested, Reading, Pending, OfRequest, KeyWhole, Sound, Whole,
      NativeWhole, BlobHasD, RefusedForD, WireGood, OwnGood, RefusedForForm
<1>. QED BY <1>2, <1>3, <1>4, <1>5, ExportKeeps, LoadKeeps DEF Next

\* The invariant of the induction holds throughout.
LEMMA Invariance == Spec => []IInv
BY InitEstablishes, NextKeeps, PTL DEF Spec

-----------------------------------------------------------------------------
\* Every variable keeps its type, and generateRSA its bound, for all constants.
THEOREM TypeCorrect == Spec => []TypeOK
<1>1. IInv => TypeOK
  BY DEF IInv
<1>. QED BY <1>1, Invariance, PTL

\* Keys of one pair come whole out of every attempt and fall-back, and so does
\* what they are loaded into.
THEOREM PartsBelong == Spec => []OneKeyPair
<1>1. IInv => OneKeyPair
  BY DEF IInv, OneKeyPair, KeyWhole, NativeWhole, Sound, Whole
<1>. QED BY <1>1, Invariance, PTL

\* hasPrivate() is not an empty promise, but for a generated EC key.
THEOREM PrivateHalf == Spec => []PrivateHalfServes
<1>1. IInv => PrivateHalfServes
  BY DEF IInv, PrivateHalfServes, BlobHasD, RefusedForD, HasPrivate
<1>. QED BY <1>1, Invariance, PTL

\* What toJSON writes is never refused as ill-formed.
THEOREM ExportsAccepted == Spec => []OwnExportsAccepted
<1>1. IInv => OwnExportsAccepted
  BY DEF IInv, OwnExportsAccepted, RefusedForForm
<1>. QED BY <1>1, Invariance, PTL
=============================================================================
