------------------------------- MODULE JWKSet -------------------------------
(****************************************************************************)
(* JSON Web Key sets (src/src/jwk_set.cpp): addKey, getKey, toJSON and      *)
(* fromJSON.                                                                *)
(*                                                                          *)
(* A publisher holds JWK objects in Slots, whose setters it may call, and a *)
(* set that it adds copies of them to.  It writes the set as a document; a  *)
(* reader loads the document, as it was written or with an entry of another *)
(* publisher put into it.  A JWE in a set is opaque: it is never found by   *)
(* getKey and is written and read back as it is (RoundTripExact of JWE).    *)
(****************************************************************************)
EXTENDS JWK, FiniteSets, Sequences, SequencesExt

CONSTANTS
    Slots,          \* the JWK objects the publisher holds
    KeyRings,       \* what the slots hold at first
    JWEs,           \* encrypted entries
    NewKids,        \* arguments of setKeyID; None is ""
    NewAlgs,        \* arguments of setAlgorithm; None is ""
    AskedAlgs,      \* second arguments of getKey; None is ""
    ForeignEntries, \* entries that other publishers write
    Junk,           \* an entry that is neither a JWK nor a JWE
    MaxKeys,        \* bound: entries of the publisher's set
    MaxEdits        \* bound: setter calls

VARIABLES
    ring,      \* ring[s]: the JWK object in slot s, or None
    keys,      \* keys_ of the publisher's set
    published, \* the document written last, or None
    origin,    \* the set that document was written from (history)
    peer,      \* keys_ of the reader's set, or None
    source,    \* the set the reader's document was written from, or None (history)
    edits

vars == <<ring, keys, published, origin, peer, source, edits>>

Entries    == JWKs \union JWEs
DocEntries == JWKDocs \union JWEs \union {Junk}

ASSUME SetAssumption ==
    /\ KeyRings \subseteq [Slots -> JWKs \union {None}]
    /\ NewKids \subseteq Kids \union {None} /\ NewAlgs \subseteq KeyAlgs \union {None}
    /\ AskedAlgs \subseteq KeyAlgs \union {None}
    /\ ForeignEntries \subseteq DocEntries
    /\ JWEs \intersect (JWKs \union JWKDocs) = {}
    /\ Junk \notin JWEs \union JWKDocs
    /\ None \notin JWEs
    /\ MaxKeys \in Nat /\ MaxEdits \in Nat

\* The keys are such as the generators and FromJSON return: only those on a
\* curve name one.
ASSUME KeyAssumption ==
    \A r \in KeyRings, s \in Slots :
        r[s] # None /\ r[s].crv # None => r[s].kty \in {"EC", "OKP"}

-----------------------------------------------------------------------------
(* Looking up. *)

Matches(entry, kid, alg) ==
    /\ entry \notin JWEs
    /\ entry.kid = kid
    /\ alg \in {None, entry.alg}

\* getKey: the first match, or None where the code throws.
GetKey(set, kid, alg) ==
    LET hits == {i \in DOMAIN set : Matches(set[i], kid, alg)} IN
    IF hits = {} THEN None ELSE set[Min(hits)]

-----------------------------------------------------------------------------
(* Writing and reading. *)

\* Mutant: the keys are written with their private halves.
Mutant_Document(set) ==
    [i \in DOMAIN set |-> IF set[i] \in JWEs THEN set[i] ELSE ToJSON(set[i], TRUE)]

\* JWKSet::toJSON.
Document(set) ==
    [i \in DOMAIN set |-> IF set[i] \in JWEs THEN set[i] ELSE ToJSON(set[i], FALSE)]

\* One entry of a document: a JWK if it parses as one, a JWE if it parses as one.
ReadEntry(entry, ignorePrivate) ==
    CASE entry \in JWEs -> entry
      [] entry = Junk   -> None
      [] OTHER          -> FromJSON(entry, ignorePrivate)

\* Mutant: an entry that is not understood is skipped, as RFC 7517 suggests.
Mutant_Skipping(doc, ignorePrivate) ==
    SelectSeq([i \in DOMAIN doc |-> ReadEntry(doc[i], ignorePrivate)], LAMBDA e : e # None)

\* Mutant: what the parser returns is added without asking whether it returned
\* anything.
Mutant_Unchecked(doc, ignorePrivate) ==
    [i \in DOMAIN doc |-> ReadEntry(doc[i], ignorePrivate)]

\* fromJSON_: one entry that is not understood makes the whole set fail.
ReadSet(doc, ignorePrivate) ==
    LET entries == [i \in DOMAIN doc |-> ReadEntry(doc[i], ignorePrivate)] IN
    IF None \in Range(entries) THEN None ELSE entries

\* Mutant: new keys come first, so that a rotated key is found at once.
Mutant_Appended(set, entry) == <<entry>> \o set

\* addKey.
Appended(set, entry) == Append(set, entry)

-----------------------------------------------------------------------------
(* The publisher and the reader. *)

\* addKey(key): the set keeps a copy.
AddKey(s) ==
    /\ ring[s] # None
    /\ Len(keys) < MaxKeys
    /\ keys' = Appended(keys, ring[s])
    /\ UNCHANGED <<ring, published, origin, peer, source, edits>>

AddJWE(j) ==
    /\ Len(keys) < MaxKeys
    /\ keys' = Appended(keys, j)
    /\ UNCHANGED <<ring, published, origin, peer, source, edits>>

\* setKeyID and setAlgorithm, on the publisher's own objects.
Edit(s) ==
    /\ ring[s] # None
    /\ edits < MaxEdits
    /\ \E key \in {SetKeyID(ring[s], kid) : kid \in NewKids}
                      \union {SetAlgorithm(ring[s], alg) : alg \in NewAlgs} :
           ring' = [ring EXCEPT ![s] = key]
    /\ edits' = edits + 1
    /\ UNCHANGED <<keys, published, origin, peer, source>>

\* toJSON.
Publish ==
    /\ published' = Document(keys)
    /\ origin' = keys
    /\ UNCHANGED <<ring, keys, peer, source, edits>>

\* The document written last, and what becomes of it with one more entry.
Documents ==
    {published} \union {InsertAt(published, i, e) : i \in 1..Len(published) + 1, e \in ForeignEntries}

\* fromJSON, by the reader.
Read(doc, ignorePrivate) ==
    /\ peer' = ReadSet(doc, ignorePrivate)
    /\ source' = IF peer' # None /\ IsPrefix(published, doc) THEN origin ELSE None
    /\ UNCHANGED <<ring, keys, published, origin, edits>>

Init ==
    /\ ring \in KeyRings
    /\ keys = <<>>
    /\ published = None
    /\ origin = None
    /\ peer = None
    /\ source = None
    /\ edits = 0

Next ==
    \/ \E s \in Slots : AddKey(s) \/ Edit(s)
    \/ \E j \in JWEs : AddJWE(j)
    \/ Publish
    \/ published # None /\ \E doc \in Documents, ignorePrivate \in BOOLEAN : Read(doc, ignorePrivate)

Spec == Init /\ [][Next]_vars

-----------------------------------------------------------------------------
(* Properties. *)

\* Every variable has its type: the entries of a set that was read are whole
\* keys or JWEs.
TypeOK ==
    /\ ring \in [Slots -> JWKs \union {None}]
    /\ keys \in Seq(Entries)
    /\ published \in Seq(DocEntries) \union {None}
    /\ origin \in Seq(Entries) \union {None}
    /\ peer \in Seq(Entries) \union {None}
    /\ source \in Seq(Entries) \union {None}
    /\ edits \in 0..MaxEdits

\* A set all of whose keys have a kid and an alg, as the generators and the
\* parser make them.  (What lacks one is given one by the reader's parser.)
Named(set) ==
    \A i \in DOMAIN set : set[i] \notin JWEs => set[i].kid # None /\ set[i].alg # None

\* One is what a reader can know of the other: of a symmetric secret, nothing.
PublicCopy(theirs, mine) ==
    /\ theirs.kty = mine.kty /\ theirs.crv = mine.crv
    /\ theirs.mat = (IF mine.kty = "oct" THEN None ELSE mine.mat)

\* The arguments of getKey.
Queries == (Kids \union {None}) \X AskedAlgs

\* getKey answers a reader as it answered the publisher when the set was
\* written, although IDs occur more than once, keys are dropped or not
\* understood by the parser, and others append keys to the document.
SameResolution ==
    source # None /\ Named(source) =>
        \A q \in Queries :
            LET mine   == GetKey(source, q[1], q[2])
                theirs == GetKey(peer, q[1], q[2])
            IN  IF mine # None THEN theirs # None /\ PublicCopy(theirs, mine)
                ELSE theirs # None => Len(peer) > Len(source)

\* The set a publisher writes gives nobody a private half or a symmetric secret,
\* not even a reader who asks for the private members.
NoSecretsPublished ==
    source # None =>
        \A i \in DOMAIN source :
            peer[i] \notin JWEs =>
                ~hasPrivateKey(peer[i]) /\ (peer[i].kty = "oct" => peer[i].mat = None)

\* The publisher's set is a directory of its keys: adding a key, under whatever
\* ID, never changes what getKey answers where it did answer.
Directory == INSTANCE KeyDirectory WITH
    Names <- Queries, Targets <- JWKs, Unbound <- None,
    bound <- [q \in Queries |-> GetKey(keys, q[1], q[2])]

ImplementsDirectory == Directory!Spec
=============================================================================
