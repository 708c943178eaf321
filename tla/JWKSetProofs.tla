---------------------------- MODULE JWKSetProofs ----------------------------
(***************************************************************************)
(* Theorems about JWKSet, for every set of keys, queries and foreign       *)
(* entries and sets of any length: type correctness, what a published set  *)
(* gives away, that a reader's getKey answers as the publisher's did, and  *)
(* that JWKSet implements KeyDirectory.                                    *)
(***************************************************************************)
EXTENDS JWKSet, JWKProofs, FiniteSetTheorems, SequenceTheorems

-----------------------------------------------------------------------------
(* Lemmas about getKey. *)

\* A set of positions that is not empty has a first one.
LEMMA FirstPosition ==
    ASSUME NEW S \in SUBSET Nat, S # {}
    PROVE  Min(S) \in S /\ \A y \in S : Min(S) <= y
<1> DEFINE below == {0..m : m \in S}
<1>1. below \subseteq FiniteSubsetsOf(Nat) /\ below # {}
  <2>1. ASSUME NEW m \in S PROVE 0..m \in FiniteSubsetsOf(Nat)
    BY FS_Interval DEF FiniteSubsetsOf
  <2> QED
    BY <2>1
<1>2. PICK X \in below : \A Y \in below : <<Y, X>> \notin StrictSubsetOrdering(Nat)
  <2>. HIDE DEF below
  <2> QED
    BY <1>1, FS_StrictSubsetOrderingWellFounded, WFMin
<1>3. PICK m \in S : X = 0..m
  BY <1>2
<1>4. ASSUME NEW k \in S PROVE m <= k
  <2> SUFFICES ASSUME k < m PROVE FALSE
    OBVIOUS
  <2>1. 0..k \subseteq 0..m /\ m \in 0..m /\ m \notin 0..k /\ 0..m \subseteq Nat
    OBVIOUS
  <2>2. <<0..k, 0..m>> \in StrictSubsetOrdering(Nat)
    BY <2>1 DEF StrictSubsetOrdering
  <2> QED
    BY <1>2, <1>3, <2>2
<1> QED
  BY <1>4 DEF Min

\* getKey answers nothing when no entry matches, and else the first that does.
LEMMA GetKeyIsFirst ==
    ASSUME NEW S, NEW set \in Seq(S), NEW kid, NEW alg
    PROVE  \/ /\ \A i \in 1..Len(set) : ~Matches(set[i], kid, alg)
              /\ GetKey(set, kid, alg) = None
           \/ \E i \in 1..Len(set) :
                  /\ Matches(set[i], kid, alg)
                  /\ \A j \in 1..(i - 1) : ~Matches(set[j], kid, alg)
                  /\ GetKey(set, kid, alg) = set[i]
<1> DEFINE hits == {i \in DOMAIN set : Matches(set[i], kid, alg)}
<1>1. DOMAIN set = 1..Len(set) /\ Len(set) \in Nat
  OBVIOUS
<1>2. GetKey(set, kid, alg) = IF hits = {} THEN None ELSE set[Min(hits)]
  BY DEF GetKey
<1>3. CASE hits = {}
  BY <1>1, <1>2, <1>3
<1>4. CASE hits # {}
  <2>1. hits \in SUBSET Nat
    BY <1>1
  <2>. HIDE DEF hits
  <2>2. Min(hits) \in hits /\ \A i \in hits : Min(hits) <= i
    BY <1>4, <2>1, FirstPosition
  <2>. DEFINE first == Min(hits)
  <2>3. /\ first \in 1..Len(set) /\ Matches(set[first], kid, alg)
        /\ GetKey(set, kid, alg) = set[first]
    BY <1>1, <1>2, <1>4, <2>2 DEF hits
  <2>4. \A j \in 1..(first - 1) : j \in Nat /\ j < first /\ j \in DOMAIN set
    BY <1>1, <2>3
  <2>5. \A j \in 1..(first - 1) : ~Matches(set[j], kid, alg)
    <3>1. \A j \in 1..(first - 1) : j \notin hits
      <4>. HIDE DEF first
      <4>1. \A i \in hits : first <= i
        BY <2>2 DEF first
      <4> QED
        BY <1>1, <2>3, <2>4, <4>1
    <3> QED
      BY <2>4, <3>1 DEF hits
  <2> QED
    BY <2>3, <2>5
<1> QED
  BY <1>3, <1>4

-----------------------------------------------------------------------------
(* Lemmas about documents of sets. *)

\* toJSON writes each entry of a set to its place.
LEMMA DocumentType ==
    ASSUME NEW set \in Seq(Entries)
    PROVE  /\ Document(set) \in Seq(DocEntries)
           /\ Len(Document(set)) = Len(set)
           /\ \A i \in 1..Len(set) :
                  Document(set)[i] = IF set[i] \in JWEs THEN set[i] ELSE ToJSON(set[i], FALSE)
<1> DEFINE written(i) == IF set[i] \in JWEs THEN set[i] ELSE ToJSON(set[i], FALSE)
<1>1. Len(set) \in Nat /\ DOMAIN set = 1..Len(set) /\ \A i \in 1..Len(set) : set[i] \in Entries
  OBVIOUS
<1>2. \A i \in 1..Len(set) : written(i) \in DocEntries
  BY <1>1, PublicDocument DEF Entries, DocEntries
<1>3. Document(set) = [i \in 1..Len(set) |-> written(i)]
  BY <1>1 DEF Document
<1>. HIDE DEF written
<1>4. Document(set) \in Seq(DocEntries) /\ Len(Document(set)) = Len(set)
  BY <1>1, <1>2, <1>3
<1> QED
  BY <1>3, <1>4 DEF written

\* Reading one entry, of whatever publisher, gives a whole key, a JWE or nothing.
LEMMA ReadEntryType ==
    ASSUME NEW entry \in DocEntries, NEW ignorePrivate \in BOOLEAN
    PROVE  ReadEntry(entry, ignorePrivate) \in Entries \union {None}
<1>1. CASE entry \in JWEs
  BY <1>1 DEF ReadEntry, Entries
<1>2. CASE entry = Junk
  BY <1>2, SetAssumption DEF ReadEntry
<1>3. CASE entry \in JWKDocs
  <2>1. ReadEntry(entry, ignorePrivate) = FromJSON(entry, ignorePrivate)
    BY <1>3, SetAssumption DEF ReadEntry
  <2> QED
    BY <1>3, <2>1, FromJSONType DEF Entries
<1> QED
  BY <1>1, <1>2, <1>3 DEF DocEntries

\* What a reader can hold of one of the publisher's entries.
Image(theirs, mine) ==
    IF mine \in JWEs THEN theirs = mine
    ELSE /\ theirs \in JWKs
         /\ ~hasPrivateKey(theirs)
         /\ theirs.kty = "oct" => theirs.mat = None
         /\ PublicCopy(theirs, mine)
         /\ mine.kid # None => theirs.kid = mine.kid
         /\ mine.alg # None => theirs.alg = mine.alg

\* Keys that are on no curve name none.
CurveFits(entry) == entry \notin JWEs /\ entry.crv # None => entry.kty \in {"EC", "OKP"}

\* An entry written by toJSON and understood by fromJSON is an image.
LEMMA EntryImage ==
    ASSUME NEW mine \in Entries, CurveFits(mine), NEW ignorePrivate \in BOOLEAN,
           NEW doc, doc = (IF mine \in JWEs THEN mine ELSE ToJSON(mine, FALSE)),
           ReadEntry(doc, ignorePrivate) # None
    PROVE  Image(ReadEntry(doc, ignorePrivate), mine)
<1>1. CASE mine \in JWEs
  BY <1>1 DEF ReadEntry, Image
<1>2. CASE mine \notin JWEs
  <2>1. mine \in JWKs
    BY <1>2 DEF Entries
  <2>2. doc \in JWKDocs
    BY <1>2, <2>1, PublicDocument
  <2>3. ReadEntry(doc, ignorePrivate) = FromJSON(ToJSON(mine, FALSE), ignorePrivate)
    BY <1>2, <2>2, SetAssumption DEF ReadEntry
  <2>. DEFINE copy == FromJSON(ToJSON(mine, FALSE), ignorePrivate)
  <2>4. /\ copy \in JWKs
        /\ ~hasPrivateKey(copy)
        /\ copy.kty = "oct" <=> copy.mat = None
        /\ copy.kty = mine.kty
        /\ copy.mat = (IF mine.kty = "oct" THEN None ELSE mine.mat)
        /\ copy.crv = (IF mine.kty \in {"EC", "OKP"} THEN mine.crv ELSE None)
        /\ mine.kid # None => copy.kid = mine.kid
        /\ mine.alg # None => copy.alg = mine.alg
    BY <2>1, <2>3, PublishedKey
  <2>. HIDE DEF copy
  <2>5. PublicCopy(copy, mine)
    BY <1>2, <2>4 DEF PublicCopy, CurveFits
  <2>6. Image(copy, mine)
    BY <1>2, <2>4, <2>5 DEF Image
  <2> QED
    BY <2>3, <2>6 DEF copy
<1> QED
  BY <1>1, <1>2

\* The documents a reader can get are sequences of entries.
LEMMA DocumentsType ==
    ASSUME published \in Seq(DocEntries), NEW doc \in Documents
    PROVE  doc \in Seq(DocEntries)
<1>1. CASE doc = published
  BY <1>1
<1>2. ASSUME NEW i \in 1..Len(published) + 1, NEW e \in ForeignEntries,
             doc = InsertAt(published, i, e)
      PROVE  doc \in Seq(DocEntries)
  <2>1. e \in DocEntries /\ Len(published) \in Nat
    BY SetAssumption
  <2>2. SubSeq(published, 1, i - 1) \in Seq(DocEntries)
    BY <2>1, SubSeqProperties
  <2>3. SubSeq(published, i, Len(published)) \in Seq(DocEntries)
    BY <2>1, SubSeqProperties
  <2>4. <<e>> \in Seq(DocEntries)
    BY <2>1
  <2> QED
    BY <1>2, <2>2, <2>3, <2>4, ConcatProperties DEF InsertAt
<1> QED
  BY <1>1, <1>2 DEF Documents

-----------------------------------------------------------------------------
(* The inductive invariant. *)

\* Every key of the publisher is on a curve or names none.
KeysOnCurves ==
    /\ \A s \in Slots : ring[s] # None => CurveFits(ring[s])
    /\ \A i \in DOMAIN keys : CurveFits(keys[i])
    /\ published # None => \A i \in DOMAIN origin : CurveFits(origin[i])

\* The document written last is that of the set it is said to be of.
DocumentOfOrigin ==
    published # None => origin \in Seq(Entries) /\ published = Document(origin)

\* What was read of the publisher's document begins with images of its entries.
ReaderHoldsImages ==
    source # None =>
        /\ source \in Seq(Entries) /\ peer \in Seq(Entries)
        /\ Len(source) <= Len(peer)
        /\ \A i \in 1..Len(source) : Image(peer[i], source[i])

IInv ==
    /\ TypeOK
    /\ KeysOnCurves
    /\ DocumentOfOrigin
    /\ ReaderHoldsImages

\* The initial state satisfies the invariant.
LEMMA InitInv == Init => IInv
<1> SUFFICES ASSUME Init PROVE IInv
  OBVIOUS
<1>1. TypeOK
  BY SetAssumption DEF Init, TypeOK
<1>2. KeysOnCurves
  BY KeyAssumption DEF Init, KeysOnCurves, CurveFits
<1> QED
  BY <1>1, <1>2 DEF Init, IInv, DocumentOfOrigin, ReaderHoldsImages

\* addKey and the adding of a JWE put one more entry at the end of the set.
LEMMA AppendedInv ==
    ASSUME IInv, NEW e \in Entries, CurveFits(e), keys' = Appended(keys, e),
           UNCHANGED <<ring, published, origin, peer, source, edits>>
    PROVE  IInv'
<1>1. keys \in Seq(Entries) /\ keys' = Append(keys, e)
  BY DEF IInv, TypeOK, Appended
<1>2. /\ keys' \in Seq(Entries) /\ Len(keys') = Len(keys) + 1 /\ Len(keys) \in Nat
      /\ \A i \in 1..Len(keys) : keys'[i] = keys[i]
      /\ keys'[Len(keys) + 1] = e
  BY <1>1, AppendProperties
<1>3. \A i \in DOMAIN keys' : i \in DOMAIN keys \/ i = Len(keys) + 1
  BY <1>1, <1>2
<1>4. \A i \in DOMAIN keys' : CurveFits(keys'[i])
  BY <1>1, <1>2, <1>3 DEF IInv, KeysOnCurves
<1>5. KeysOnCurves'
  BY <1>4 DEF IInv, KeysOnCurves
<1> QED
  BY <1>2, <1>5 DEF IInv, TypeOK, DocumentOfOrigin, ReaderHoldsImages

\* A setter changes neither the type of a key nor its curve.
LEMMA EditInv ==
    ASSUME IInv, NEW s \in Slots, Edit(s)
    PROVE  IInv'
<1>1. /\ ring[s] \in JWKs /\ ring \in [Slots -> JWKs \union {None}] /\ CurveFits(ring[s])
      /\ edits' = edits + 1 /\ edits < MaxEdits /\ edits \in 0..MaxEdits
      /\ UNCHANGED <<keys, published, origin, peer, source>>
  BY DEF Edit, IInv, TypeOK, KeysOnCurves
<1>2. PICK key : /\ key \in {SetKeyID(ring[s], kid) : kid \in NewKids}
                                \union {SetAlgorithm(ring[s], alg) : alg \in NewAlgs}
                 /\ ring' = [ring EXCEPT ![s] = key]
  BY DEF Edit
<1>3. key \in JWKs /\ key.crv = ring[s].crv /\ key.kty = ring[s].kty
  <2>1. ASSUME NEW kid \in NewKids, key = SetKeyID(ring[s], kid)
        PROVE  key \in JWKs /\ key.crv = ring[s].crv /\ key.kty = ring[s].kty
    BY <1>1, <2>1, SetAssumption DEF SetKeyID, JWKs
  <2>2. ASSUME NEW alg \in NewAlgs, key = SetAlgorithm(ring[s], alg)
        PROVE  key \in JWKs /\ key.crv = ring[s].crv /\ key.kty = ring[s].kty
    BY <1>1, <2>2, SetAssumption DEF SetAlgorithm, JWKs
  <2> QED
    BY <1>2, <2>1, <2>2
<1>4. CurveFits(key)
  BY <1>1, <1>3, SetAssumption DEF CurveFits
<1>5. TypeOK'
  BY <1>1, <1>2, <1>3, SetAssumption DEF IInv, TypeOK
<1>6. KeysOnCurves'
  BY <1>1, <1>2, <1>4 DEF IInv, KeysOnCurves
<1> QED
  BY <1>1, <1>5, <1>6 DEF IInv, DocumentOfOrigin, ReaderHoldsImages

\* toJSON writes the document of the set as it is.
LEMMA PublishInv ==
    ASSUME IInv, Publish
    PROVE  IInv'
<1>1. published' = Document(keys) /\ origin' = keys /\ UNCHANGED <<ring, keys, peer, source, edits>>
  BY DEF Publish
<1>2. keys \in Seq(Entries) /\ Document(keys) \in Seq(DocEntries)
  BY DocumentType DEF IInv, TypeOK
<1> QED
  BY <1>1, <1>2 DEF IInv, TypeOK, KeysOnCurves, DocumentOfOrigin, ReaderHoldsImages

\* What the reader gets of an accepted document.
LEMMA ReadSetEntries ==
    ASSUME NEW doc \in Seq(DocEntries), NEW ignorePrivate \in BOOLEAN,
           ReadSet(doc, ignorePrivate) # None
    PROVE  LET set == ReadSet(doc, ignorePrivate)
           IN  /\ set \in Seq(Entries)
               /\ Len(set) = Len(doc)
               /\ \A i \in 1..Len(doc) : set[i] # None /\ set[i] = ReadEntry(doc[i], ignorePrivate)
<1> DEFINE set == [i \in DOMAIN doc |-> ReadEntry(doc[i], ignorePrivate)]
<1>1. DOMAIN doc = 1..Len(doc) /\ Len(doc) \in Nat /\ \A i \in 1..Len(doc) : doc[i] \in DocEntries
  OBVIOUS
<1>2. ReadSet(doc, ignorePrivate) = set /\ None \notin Range(set)
  BY DEF ReadSet
<1>3. \A i \in 1..Len(doc) : set[i] # None
  BY <1>1, <1>2 DEF Range
<1>4. \A i \in 1..Len(doc) : set[i] = ReadEntry(doc[i], ignorePrivate) /\ set[i] \in Entries
  BY <1>1, <1>3, ReadEntryType
<1>5. set = [i \in 1..Len(doc) |-> set[i]]
  BY <1>1
<1>. HIDE DEF set
<1>6. set \in Seq(Entries) /\ Len(set) = Len(doc)
  BY <1>1, <1>4, <1>5
<1> QED
  BY <1>2, <1>3, <1>4, <1>6

\* A reader who accepts a document that begins with the publisher's has images
\* of all its entries, each in its place.
LEMMA ReadInv ==
    ASSUME IInv, published # None, NEW doc \in Documents, NEW ignorePrivate \in BOOLEAN,
           Read(doc, ignorePrivate)
    PROVE  IInv'
<1>1. /\ peer' = ReadSet(doc, ignorePrivate)
      /\ source' = IF peer' # None /\ IsPrefix(published, doc) THEN origin ELSE None
      /\ UNCHANGED <<ring, keys, published, origin, edits>>
  BY DEF Read
<1>2. /\ published \in Seq(DocEntries) /\ origin \in Seq(Entries) /\ published = Document(origin)
      /\ \A i \in DOMAIN origin : CurveFits(origin[i])
  BY DEF IInv, TypeOK, DocumentOfOrigin, KeysOnCurves
<1>3. doc \in Seq(DocEntries)
  BY <1>2, DocumentsType
<1>4. peer' # None =>
          /\ peer' \in Seq(Entries) /\ Len(peer') = Len(doc)
          /\ \A i \in 1..Len(doc) : peer'[i] # None /\ peer'[i] = ReadEntry(doc[i], ignorePrivate)
  BY <1>1, <1>3, ReadSetEntries
<1>5. ReaderHoldsImages'
  <2> SUFFICES ASSUME source' # None
               PROVE  /\ source' \in Seq(Entries) /\ peer' \in Seq(Entries)
                      /\ Len(source') <= Len(peer')
                      /\ \A i \in 1..Len(source') : Image(peer'[i], source'[i])
    BY DEF ReaderHoldsImages
  <2>1. source' = origin /\ peer' # None /\ IsPrefix(published, doc)
    BY <1>1
  <2>2. /\ Len(published) = Len(origin) /\ Len(origin) \in Nat /\ Len(doc) \in Nat
        /\ Len(published) <= Len(doc)
    <3>1. Len(published) = Len(origin)
      BY <1>2, DocumentType
    <3>2. Len(published) <= Len(doc)
      BY <2>1 DEF IsPrefix
    <3> QED
      BY <1>2, <1>3, <3>1, <3>2
  <2>3. ASSUME NEW i \in 1..Len(origin) PROVE doc[i] = published[i]
    <3>1. SubSeq(published, 1, Len(published)) = SubSeq(doc, 1, Len(published))
      BY <2>1 DEF IsPrefix
    <3>2. SubSeq(published, 1, Len(published))[i] = published[i]
      BY <1>2, <2>2
    <3>3. SubSeq(doc, 1, Len(published))[i] = doc[i]
      BY <1>3, <2>2
    <3> QED
      BY <3>1, <3>2, <3>3
  <2>4. ASSUME NEW i \in 1..Len(origin) PROVE Image(peer'[i], origin[i])
    <3>1. i \in 1..Len(doc) /\ origin[i] \in Entries /\ CurveFits(origin[i])
      BY <1>2, <2>2
    <3>2. doc[i] = IF origin[i] \in JWEs THEN origin[i] ELSE ToJSON(origin[i], FALSE)
      BY <1>2, <2>3, DocumentType
    <3>3. ReadEntry(doc[i], ignorePrivate) # None /\ peer'[i] = ReadEntry(doc[i], ignorePrivate)
      BY <1>4, <2>1, <3>1
    <3> QED
      BY <3>1, <3>2, <3>3, EntryImage
  <2> QED
    BY <1>2, <1>4, <2>1, <2>2, <2>4
<1>6. TypeOK'
  BY <1>1, <1>2, <1>4 DEF IInv, TypeOK
<1> QED
  BY <1>1, <1>5, <1>6 DEF IInv, KeysOnCurves, DocumentOfOrigin

\* Every step keeps the invariant.
LEMMA NextInv == IInv /\ [Next]_vars => IInv'
<1> SUFFICES ASSUME IInv, [Next]_vars PROVE IInv'
  OBVIOUS
<1>1. ASSUME NEW s \in Slots, AddKey(s) PROVE IInv'
  <2>1. ring[s] \in Entries /\ CurveFits(ring[s])
    BY <1>1 DEF AddKey, IInv, TypeOK, KeysOnCurves, Entries
  <2> QED
    BY <1>1, <2>1, AppendedInv DEF AddKey
<1>2. ASSUME NEW s \in Slots, Edit(s) PROVE IInv'
  BY <1>2, EditInv
<1>3. ASSUME NEW j \in JWEs, AddJWE(j) PROVE IInv'
  <2>1. j \in Entries /\ CurveFits(j)
    BY DEF Entries, CurveFits
  <2> QED
    BY <1>3, <2>1, AppendedInv DEF AddJWE
<1>4. CASE Publish
  BY <1>4, PublishInv
<1>5. ASSUME published # None, NEW doc \in Documents, NEW ignorePrivate \in BOOLEAN,
             Read(doc, ignorePrivate)
      PROVE  IInv'
  BY <1>5, ReadInv
<1>6. CASE UNCHANGED vars
  BY <1>6 DEF vars, IInv, TypeOK, KeysOnCurves, DocumentOfOrigin, ReaderHoldsImages
<1> QED
  BY <1>1, <1>2, <1>3, <1>4, <1>5, <1>6 DEF Next

\* The invariant holds of every reachable state.
THEOREM Invariance == Spec => []IInv
BY InitInv, NextInv, PTL DEF Spec

\* Every variable keeps its type, however long the sets and whatever others put
\* into a document: what fromJSON makes of it are whole keys.
THEOREM TypeCorrect == Spec => []TypeOK
<1>1. IInv => TypeOK
  BY DEF IInv
<1> QED
  BY <1>1, Invariance, PTL

\* A published set gives no reader a private half or a symmetric secret.
THEOREM SetsAreSafe == Spec => []NoSecretsPublished
<1>1. IInv => NoSecretsPublished
  <2> SUFFICES ASSUME IInv, source # None, NEW i \in DOMAIN source, peer[i] \notin JWEs
               PROVE  ~hasPrivateKey(peer[i]) /\ (peer[i].kty = "oct" => peer[i].mat = None)
    BY DEF NoSecretsPublished
  <2>1. i \in 1..Len(source) /\ Image(peer[i], source[i])
    BY DEF IInv, ReaderHoldsImages
  <2> QED
    BY <2>1 DEF Image
<1> QED
  BY <1>1, Invariance, PTL

-----------------------------------------------------------------------------
(* getKey on both sides. *)

\* An image is found under the same name as the key it is of.
LEMMA ImageMatches ==
    ASSUME NEW mine \in Entries, NEW theirs, Image(theirs, mine), NEW kid, NEW alg,
           mine \notin JWEs => mine.kid # None /\ mine.alg # None
    PROVE  Matches(theirs, kid, alg) <=> Matches(mine, kid, alg)
<1>1. CASE mine \in JWEs
  BY <1>1 DEF Image, Matches
<1>2. CASE mine \notin JWEs
  <2>1. /\ theirs \in JWKs /\ theirs.kid = mine.kid /\ theirs.alg = mine.alg
    BY <1>2 DEF Image
  <2>2. theirs \notin JWEs
    BY <2>1, SetAssumption
  <2> QED
    BY <1>2, <2>1, <2>2 DEF Matches
<1> QED
  BY <1>1, <1>2

\* An entry that matches is a key.
LEMMA MatchIsKey ==
    ASSUME NEW entry \in Entries, NEW kid, NEW alg, Matches(entry, kid, alg)
    PROVE  entry \in JWKs /\ entry # None
BY NoneAssumption DEF Entries, Matches

\* getKey answers a reader as it answered the publisher when the set was
\* written, in whatever order keys and IDs come and repeat themselves.
THEOREM Resolution == Spec => []SameResolution
<1>1. IInv => SameResolution
  <2> SUFFICES ASSUME IInv, source # None, Named(source), NEW q \in Queries
               PROVE  LET mine   == GetKey(source, q[1], q[2])
                          theirs == GetKey(peer, q[1], q[2])
                      IN  IF mine # None THEN theirs # None /\ PublicCopy(theirs, mine)
                          ELSE theirs # None => Len(peer) > Len(source)
    BY DEF SameResolution
  <2>. DEFINE M(e) == Matches(e, q[1], q[2])
              mine   == GetKey(source, q[1], q[2])
              theirs == GetKey(peer, q[1], q[2])
  <2>1. /\ source \in Seq(Entries) /\ peer \in Seq(Entries)
        /\ Len(source) \in Nat /\ Len(peer) \in Nat /\ Len(source) <= Len(peer)
        /\ \A i \in 1..Len(source) : Image(peer[i], source[i]) /\ source[i] \in Entries
        /\ \A i \in 1..Len(peer) : peer[i] \in Entries
    BY DEF IInv, ReaderHoldsImages
  <2>2. \A i \in 1..Len(source) : M(peer[i]) <=> M(source[i])
    BY <2>1, ImageMatches DEF Named
  <2>3. \/ /\ \A i \in 1..Len(peer) : ~M(peer[i])
           /\ theirs = None
        \/ \E i \in 1..Len(peer) :
               M(peer[i]) /\ (\A j \in 1..(i - 1) : ~M(peer[j])) /\ theirs = peer[i]
    BY <2>1, GetKeyIsFirst
  <2>4. \/ /\ \A i \in 1..Len(source) : ~M(source[i])
           /\ mine = None
        \/ \E i \in 1..Len(source) :
               M(source[i]) /\ (\A j \in 1..(i - 1) : ~M(source[j])) /\ mine = source[i]
    BY <2>1, GetKeyIsFirst
  <2>. HIDE DEF mine, theirs
  <2>5. ASSUME NEW i \in 1..Len(source), M(source[i]), \A j \in 1..(i - 1) : ~M(source[j]),
               mine = source[i]
        PROVE  mine # None /\ theirs # None /\ PublicCopy(theirs, mine)
    <3>1. mine # None /\ mine \notin JWEs
      BY <2>1, <2>5, MatchIsKey DEF Matches
    <3>2. i \in 1..Len(peer) /\ M(peer[i])
      BY <2>1, <2>2, <2>5
    <3>3. PICK k \in 1..Len(peer) :
              M(peer[k]) /\ (\A j \in 1..(k - 1) : ~M(peer[j])) /\ theirs = peer[k]
      BY <2>3, <3>2
    <3>4. k = i
      <4>. HIDE DEF M
      <4>1. ~(i < k)
        BY <2>1, <3>2, <3>3
      <4>2. ~(k < i)
        <5>1. k < i => k \in 1..(i - 1) /\ k \in 1..Len(source)
          BY <2>1
        <5> QED
          BY <2>2, <2>5, <3>3, <5>1
      <4> QED
        BY <2>1, <4>1, <4>2
    <3>5. theirs # None
      BY <2>1, <3>3, MatchIsKey
    <3>6. PublicCopy(theirs, mine)
      BY <2>1, <2>5, <3>1, <3>3, <3>4 DEF Image
    <3> QED
      BY <3>1, <3>5, <3>6
  <2>6. ASSUME \A i \in 1..Len(source) : ~M(source[i]), theirs # None
        PROVE  Len(peer) > Len(source)
    <3>1. PICK k \in 1..Len(peer) : M(peer[k])
      BY <2>3, <2>6
    <3>2. k \notin 1..Len(source)
      BY <2>2, <2>6, <3>1
    <3> QED
      BY <2>1, <3>1, <3>2
  <2>7. IF mine # None THEN theirs # None /\ PublicCopy(theirs, mine)
        ELSE theirs # None => Len(peer) > Len(source)
    BY <2>4, <2>5, <2>6
  <2> QED
    BY <2>7 DEF mine, theirs
<1> QED
  BY <1>1, Invariance, PTL

-----------------------------------------------------------------------------
(* JWKSet implements KeyDirectory. *)

Bound == [q \in Queries |-> GetKey(keys, q[1], q[2])]

\* What getKey answers of a set with one more entry at its end.
LEMMA GetKeyAppended ==
    ASSUME NEW set \in Seq(Entries), NEW e \in Entries, NEW kid, NEW alg
    PROVE  GetKey(Append(set, e), kid, alg) =
               IF GetKey(set, kid, alg) # None THEN GetKey(set, kid, alg)
               ELSE IF Matches(e, kid, alg) THEN e ELSE None
<1> DEFINE M(x) == Matches(x, kid, alg)
           more == Append(set, e)
<1>1. /\ more \in Seq(Entries) /\ Len(more) = Len(set) + 1 /\ Len(set) \in Nat
      /\ \A i \in 1..Len(set) : more[i] = set[i] /\ set[i] \in Entries
      /\ more[Len(set) + 1] = e
  BY AppendProperties
<1>. HIDE DEF more
<1>2. \/ (\A i \in 1..Len(set) : ~M(set[i])) /\ GetKey(set, kid, alg) = None
      \/ \E i \in 1..Len(set) : /\ M(set[i]) /\ \A j \in 1..(i - 1) : ~M(set[j])
                                /\ GetKey(set, kid, alg) = set[i]
  BY GetKeyIsFirst
<1>3. \/ (\A i \in 1..Len(more) : ~M(more[i])) /\ GetKey(more, kid, alg) = None
      \/ \E i \in 1..Len(more) : /\ M(more[i]) /\ \A j \in 1..(i - 1) : ~M(more[j])
                                 /\ GetKey(more, kid, alg) = more[i]
  BY <1>1, GetKeyIsFirst
<1>4. \A i \in 1..Len(set) : M(set[i]) => set[i] # None
  BY <1>1, MatchIsKey
<1>. HIDE DEF M
<1>5. ASSUME \A i \in 1..Len(set) : ~M(set[i]), GetKey(set, kid, alg) = None
      PROVE  GetKey(more, kid, alg) = IF M(e) THEN e ELSE None
  <2>1. \A i \in 1..Len(more) : M(more[i]) => i = Len(set) + 1
    BY <1>1, <1>5
  <2> QED
    BY <1>1, <1>3, <2>1
<1>6. ASSUME NEW i \in 1..Len(set), M(set[i]), \A j \in 1..(i - 1) : ~M(set[j]),
             GetKey(set, kid, alg) = set[i]
      PROVE  GetKey(more, kid, alg) = set[i]
  <2>1. i \in 1..Len(more) /\ M(more[i]) /\ \A j \in 1..(i - 1) : ~M(more[j])
    BY <1>1, <1>6
  <2>2. PICK k \in 1..Len(more) : /\ M(more[k]) /\ \A j \in 1..(k - 1) : ~M(more[j])
                                  /\ GetKey(more, kid, alg) = more[k]
    BY <1>3, <2>1
  <2>3. k = i
    BY <1>1, <2>1, <2>2
  <2> QED
    BY <1>1, <2>2, <2>3
<1> QED
  BY <1>2, <1>4, <1>5, <1>6 DEF M, more

\* Adding a key binds names that were free, to this key, and no other.
LEMMA AppendedBinds ==
    ASSUME keys \in Seq(Entries), NEW e \in Entries, keys' = Appended(keys, e)
    PROVE  Directory!Bind
<1>1. \A q \in Queries :
          Bound'[q] = IF Bound[q] # None THEN Bound[q]
                      ELSE IF Matches(e, q[1], q[2]) THEN e ELSE None
  BY GetKeyAppended DEF Bound, Appended
<1>2. \A q \in Queries : Bound[q] \in JWKs \union {None}
  <2> SUFFICES ASSUME NEW q \in Queries PROVE GetKey(keys, q[1], q[2]) \in JWKs \union {None}
    BY DEF Bound
  <2>1. \A i \in 1..Len(keys) : keys[i] \in Entries
    OBVIOUS
  <2> QED
    BY <2>1, GetKeyIsFirst, MatchIsKey
<1>3. \A q \in Queries : Matches(e, q[1], q[2]) => e \in JWKs
  BY MatchIsKey
<1>4. Bound' \in [Queries -> JWKs \union {None}]
  <2>1. \A q \in Queries : Bound'[q] \in JWKs \union {None}
    BY <1>1, <1>2, <1>3
  <2> QED
    BY <2>1 DEF Bound
<1>5. \A q \in Queries : Bound[q] # None => Bound'[q] = Bound[q]
  BY <1>1
<1>6. \A q \in {n \in Queries : Bound[n] = None /\ Bound'[n] # None} : Bound'[q] = e
  BY <1>1
<1> QED
  BY <1>4, <1>5, <1>6 DEF Directory!Bind, Directory!Fresh, Bound

\* Adding keys, editing one's own objects, publishing and reading never change
\* an answer that getKey once gave: JWKSet implements KeyDirectory.
THEOREM Implementation == Spec => ImplementsDirectory
<1>1. Init => Directory!Init
  <2> SUFFICES ASSUME Init PROVE \A q \in Queries : GetKey(keys, q[1], q[2]) = None
    BY DEF Directory!Init
  <2>1. keys = <<>>
    BY DEF Init
  <2> QED
    BY <2>1 DEF GetKey
<1>2. IInv /\ [Next]_vars => [Directory!Bind]_Bound
  <2> SUFFICES ASSUME IInv, [Next]_vars PROVE Directory!Bind \/ Bound' = Bound
    OBVIOUS
  <2>1. keys \in Seq(Entries) /\ ring \in [Slots -> JWKs \union {None}]
    BY DEF IInv, TypeOK
  <2>2. ASSUME NEW s \in Slots, AddKey(s) PROVE Directory!Bind
    BY <2>1, <2>2, AppendedBinds DEF AddKey, Entries
  <2>3. ASSUME NEW j \in JWEs, AddJWE(j) PROVE Directory!Bind
    BY <2>1, <2>3, AppendedBinds DEF AddJWE, Entries
  <2>4. CASE keys' = keys
    BY <2>4 DEF Bound
  <2> QED
    BY <2>2, <2>3, <2>4 DEF Next, Edit, Publish, Read, vars
<1> QED
  BY <1>1, <1>2, Invariance, PTL DEF Spec, ImplementsDirectory, Directory!Spec, Bound
=============================================================================
