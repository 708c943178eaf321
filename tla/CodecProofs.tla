---------------------------- MODULE CodecProofs ----------------------------
(*****************************************************************************)
(* Proofs about Base64URL and ConcatKDF, which MCCodecs checks side by side. *)
(*                                                                           *)
(* Base64URL, for contents and texts of any length and any number of edits:  *)
(* the encoder's text is in its alphabet and is read as its content, and a   *)
(* text that is accepted with no '=' out of place is read as a content just  *)
(* when it has the letters of it.  What the recursive functions make of a    *)
(* text of any length is shown by induction (NatSet, SeqSet); after that,    *)
(* encoder and decoder are compared four letters and three octets at a time  *)
(* (GroupSame).                                                              *)
(*                                                                           *)
(* ConcatKDF, for any secrets of one size, any names and any parties: the    *)
(* two ends have the same key just when they agree on the context.  A key of *)
(* one round or of two is spelled out octet by octet (KeyOctets), so that    *)
(* equal keys come of equal hashed strings; these are taken apart from the   *)
(* left, a part of a known length at a time (SplitEqual).                    *)
(*****************************************************************************)
EXTENDS Base64URL, ConcatKDF, Integers, SequenceTheorems, WellFoundedInduction, TLAPS

-----------------------------------------------------------------------------
(* Induction over data.  The library states it of an operator, which the *)
(* provers cannot instantiate; of a set it follows from the order of the *)
(* numbers being well-founded.                                           *)

\* A set of numbers that is not empty has a least one.
LEMMA LeastNat ==
    ASSUME NEW T, T \subseteq Nat, T # {}
    PROVE  \E n \in T : \A m \in T : n <= m
<1>1. PICK n \in T : \A m \in T : <<m, n>> \notin OpToRel(<, Nat)
  BY NatLessThanWellFounded, WFMin
<1>2. \A m \in T : ~(m < n)
  BY <1>1 DEF OpToRel
<1> QED
  BY <1>2

\* Induction, told of a set: it has every number if it has 0 and, with a
\* number, the next.
LEMMA NatSet ==
    ASSUME NEW T, 0 \in T, \A n \in Nat : n \in T => n + 1 \in T
    PROVE  \A n \in Nat : n \in T
<1> SUFFICES ASSUME Nat \ T # {} PROVE FALSE
  OBVIOUS
<1>1. PICK n \in Nat \ T : \A m \in Nat \ T : n <= m
  BY LeastNat
<1>2. n - 1 \in Nat /\ n - 1 < n /\ (n - 1) + 1 = n
  OBVIOUS
<1>3. n - 1 \in T
  BY <1>1, <1>2
<1> QED
  BY <1>2, <1>3

\* The same of sequences, which grow at the end.
LEMMA SeqSet ==
    ASSUME NEW A, NEW T, <<>> \in T, \A t \in Seq(A), c \in A : t \in T => Append(t, c) \in T
    PROVE  \A t \in Seq(A) : t \in T
<1> DEFINE N == {n \in Nat : \A t \in Seq(A) : Len(t) = n => t \in T}
<1>1. 0 \in N
  BY EmptySeq
<1>2. ASSUME NEW n \in Nat, n \in N
      PROVE  n + 1 \in N
  <2>1. SUFFICES ASSUME NEW t \in Seq(A), Len(t) = n + 1 PROVE t \in T
    BY <1>2
  <2>2. PICK s \in Seq(A), c \in A : t = Append(s, c)
    BY <2>1, SequenceEmptyOrAppend, EmptySeq
  <2>3. Len(s) = n
    BY <2>1, <2>2, AppendProperties, LenProperties
  <2> QED
    BY <1>2, <2>2, <2>3
<1> HIDE DEF N
<1>3. \A n \in Nat : n \in N
  BY <1>1, <1>2, NatSet
<1> QED
  BY <1>3, LenProperties DEF N

-----------------------------------------------------------------------------
(* Kept. *)

\* The function that goes along a sequence is there for every length.
Keeps(f, t, C) ==
    f = [i \in 0..Len(t) |-> IF i = 0 THEN <<>>
                             ELSE IF t[i] \in C THEN Append(f[i - 1], t[i]) ELSE f[i - 1]]

\* Such a function for one more character.
LEMMA KeepsExtended ==
    ASSUME NEW A, NEW t \in Seq(A), NEW c \in A, NEW C, NEW f, Keeps(f, t, C)
    PROVE  LET n == Len(t)
               h == [i \in 0..(n + 1) |-> IF i <= n THEN f[i]
                                          ELSE IF c \in C THEN Append(f[n], c) ELSE f[n]]
           IN  Keeps(h, Append(t, c), C)
<1> DEFINE n == Len(t)
           last == IF c \in C THEN Append(f[n], c) ELSE f[n]
           h == [i \in 0..(n + 1) |-> IF i <= n THEN f[i] ELSE last]
           u == Append(t, c)
           body(g, s, i) == IF i = 0 THEN <<>> ELSE IF s[i] \in C THEN Append(g[i - 1], s[i]) ELSE g[i - 1]
<1>1. n \in Nat /\ Len(u) = n + 1 /\ u[n + 1] = c /\ \A i \in 1..n : u[i] = t[i]
  BY AppendProperties, LenProperties
<1>2. \A i \in 0..n : f[i] = body(f, t, i)
  BY Zenon DEF Keeps
<1>3. ASSUME NEW i \in 0..(n + 1)
      PROVE  h[i] = body(h, u, i)
  <2>1. CASE i = 0
    <3>1. h[0] = f[0]
      BY <1>1
    <3>2. f[0] = <<>>
      BY <1>1, <1>2
    <3> QED
      BY <2>1, <3>1, <3>2
  <2>2. CASE i \in 1..n
    <3>1. h[i] = f[i] /\ h[i - 1] = f[i - 1] /\ u[i] = t[i] /\ i \in 0..n /\ i # 0
      BY <1>1, <2>2
    <3> HIDE DEF h, u
    <3> QED
      BY <1>2, <3>1, Zenon
  <2>3. CASE i = n + 1
    <3>1. h[i] = last /\ h[i - 1] = f[n] /\ u[i] = c /\ i # 0
      BY <1>1, <2>3
    <3> HIDE DEF h, u
    <3> QED
      BY <3>1, Zenon
  <2> QED
    BY <1>1, <2>1, <2>2, <2>3
<1>4. h = [i \in 0..Len(u) |-> body(h, u, i)]
  <2>1. DOMAIN h = 0..Len(u)
    BY <1>1
  <2>2. h = [i \in 0..Len(u) |-> h[i]]
    BY <1>1
  <2>3. \A i \in 0..Len(u) : h[i] = body(h, u, i)
    BY <1>1, <1>3
  <2> HIDE DEF h, u, body
  <2> QED
    BY <2>2, <2>3
<1> HIDE DEF u, n
<1> QED
  BY <1>4 DEF Keeps, n, u

\* There is one for every sequence,
LEMMA KeepsExists ==
    ASSUME NEW A, NEW C
    PROVE  \A t \in Seq(A) : \E f : Keeps(f, t, C)
<1> DEFINE T == {t \in Seq(A) : \E f : Keeps(f, t, C)}
<1>1. <<>> \in T
  <2>1. Keeps([i \in 0..0 |-> <<>>], <<>>, C)
    BY DEF Keeps
  <2> QED
    BY <2>1
<1>2. ASSUME NEW t \in Seq(A), NEW c \in A, t \in T
      PROVE  Append(t, c) \in T
  <2>1. PICK f : Keeps(f, t, C)
    BY <1>2
  <2>2. \E g : Keeps(g, Append(t, c), C)
    BY <2>1, KeepsExtended, Zenon
  <2> QED
    BY <2>2, AppendProperties
<1> HIDE DEF T
<1>3. \A t \in Seq(A) : t \in T
  BY <1>1, <1>2, SeqSet
<1> QED
  BY <1>3 DEF T

\* and only one,
LEMMA KeepsUnique ==
    ASSUME NEW A, NEW t \in Seq(A), NEW C, NEW f, NEW g, Keeps(f, t, C), Keeps(g, t, C)
    PROVE  f = g
<1> DEFINE T == {n \in Nat : n \in 0..Len(t) => f[n] = g[n]}
           body(h, i) == IF i = 0 THEN <<>> ELSE IF t[i] \in C THEN Append(h[i - 1], t[i]) ELSE h[i - 1]
<1>1. Len(t) \in Nat
  BY LenProperties
<1>2. /\ f = [i \in 0..Len(t) |-> f[i]] /\ g = [i \in 0..Len(t) |-> g[i]]
      /\ \A i \in 0..Len(t) : f[i] = body(f, i) /\ g[i] = body(g, i)
  BY Zenon DEF Keeps
<1>3. 0 \in T
  BY <1>1, <1>2
<1>4. ASSUME NEW n \in Nat, n \in T PROVE n + 1 \in T
  <2>1. SUFFICES ASSUME n + 1 \in 0..Len(t) PROVE f[n + 1] = g[n + 1]
    BY <1>4
  <2>2. f[n] = g[n] /\ n + 1 # 0 /\ (n + 1) - 1 = n
    BY <1>1, <1>4, <2>1
  <2>3. f[n + 1] = body(f, n + 1) /\ g[n + 1] = body(g, n + 1)
    BY <1>2, <2>1
  <2> QED
    BY <2>2, <2>3, Zenon
<1> HIDE DEF T
<1>5. \A n \in Nat : n \in T
  BY <1>3, <1>4, NatSet
<1>6. \A i \in 0..Len(t) : f[i] = g[i]
  BY <1>1, <1>5 DEF T
<1> QED
  BY <1>2, <1>6

\* which is the one that Kept goes along.
LEMMA KeptIs ==
    ASSUME NEW A, NEW t \in Seq(A), NEW C, NEW f, Keeps(f, t, C)
    PROVE  Kept(t, C) = f[Len(t)]
<1> DEFINE g == CHOOSE g : Keeps(g, t, C)
<1>1. Keeps(g, t, C)
  BY Zenon
<1>2. Kept(t, C) = g[Len(t)]
  BY Zenon DEF Kept, Keeps
<1> HIDE DEF g
<1>3. g = f
  BY <1>1, KeepsUnique
<1> QED
  BY <1>2, <1>3

\* What Kept makes of the empty text and of one more character.
LEMMA KeptEmpty == ASSUME NEW C PROVE Kept(<<>>, C) = <<>>
<1>1. Keeps([i \in 0..0 |-> <<>>], <<>>, C)
  BY DEF Keeps
<1>2. <<>> \in Seq({0})
  OBVIOUS
<1> QED
  BY <1>1, <1>2, KeptIs

\* One more character is kept or is not.
LEMMA KeptAppend ==
    ASSUME NEW A, NEW t \in Seq(A), NEW c \in A, NEW C
    PROVE  Kept(Append(t, c), C) = IF c \in C THEN Append(Kept(t, C), c) ELSE Kept(t, C)
<1>1. PICK f : Keeps(f, t, C)
  BY KeepsExists
<1> DEFINE n == Len(t)
           h == [i \in 0..(n + 1) |-> IF i <= n THEN f[i] ELSE IF c \in C THEN Append(f[n], c) ELSE f[n]]
           u == Append(t, c)
<1>2. Keeps(h, u, C)
  BY <1>1, KeepsExtended
<1>3. u \in Seq(A) /\ Len(u) = n + 1 /\ n \in Nat
  BY AppendProperties, LenProperties
<1>4. Kept(t, C) = f[n]
  BY <1>1, KeptIs
<1>5. Kept(u, C) = h[n + 1]
  <2> HIDE DEF h, u
  <2> QED
    BY <1>2, <1>3, KeptIs
<1>6. h[n + 1] = IF c \in C THEN Append(f[n], c) ELSE f[n]
  BY <1>3
<1> HIDE DEF h, n
<1>7. Kept(u, C) = IF c \in C THEN Append(Kept(t, C), c) ELSE Kept(t, C)
  BY <1>4, <1>5, <1>6
<1> QED
  BY <1>7

\* What is kept is of the characters asked for.
LEMMA KeptType ==
    ASSUME NEW A, NEW C
    PROVE  \A t \in Seq(A) : Kept(t, C) \in Seq(A \cap C)
<1> DEFINE T == {t \in Seq(A) : Kept(t, C) \in Seq(A \cap C)}
<1>1. <<>> \in T
  BY KeptEmpty, EmptySeq
<1>2. ASSUME NEW t \in Seq(A), NEW c \in A, t \in T
      PROVE  Append(t, c) \in T
  <2>1. Append(t, c) \in Seq(A)
    BY AppendProperties
  <2>2. CASE c \in C
    <3>1. Kept(Append(t, c), C) = Append(Kept(t, C), c)
      BY <2>2, KeptAppend
    <3>2. Kept(t, C) \in Seq(A \cap C) /\ c \in A \cap C
      BY <1>2, <2>2
    <3>3. Append(Kept(t, C), c) \in Seq(A \cap C)
      BY <3>2, AppendProperties
    <3> QED
      BY <2>1, <3>1, <3>3
  <2>3. CASE c \notin C
    <3>1. Kept(Append(t, c), C) = Kept(t, C)
      BY <2>3, KeptAppend
    <3> QED
      BY <1>2, <2>1, <3>1
  <2> QED
    BY <2>2, <2>3
<1> HIDE DEF T
<1>3. \A t \in Seq(A) : t \in T
  BY <1>1, <1>2, SeqSet
<1> QED
  BY <1>3 DEF T

\* Nothing is dropped of a sequence of such characters.
LEMMA KeptAll ==
    ASSUME NEW C
    PROVE  \A t \in Seq(C) : Kept(t, C) = t
<1> DEFINE T == {t \in Seq(C) : Kept(t, C) = t}
<1>1. <<>> \in T
  BY KeptEmpty, EmptySeq
<1>2. ASSUME NEW t \in Seq(C), NEW c \in C, t \in T
      PROVE  Append(t, c) \in T
  <2>1. Append(t, c) \in Seq(C)
    BY AppendProperties
  <2>2. Kept(Append(t, c), C) = Append(Kept(t, C), c)
    BY KeptAppend
  <2> QED
    BY <1>2, <2>1, <2>2
<1> HIDE DEF T
<1>3. \A t \in Seq(C) : t \in T
  BY <1>1, <1>2, SeqSet
<1> QED
  BY <1>3 DEF T

\* Dropping in two goes is dropping in one.
LEMMA KeptTwice ==
    ASSUME NEW A, NEW C, NEW D
    PROVE  \A t \in Seq(A) : Kept(Kept(t, C), D) = Kept(t, C \cap D)
<1> DEFINE T == {t \in Seq(A) : Kept(Kept(t, C), D) = Kept(t, C \cap D)}
<1>1. <<>> \in T
  BY KeptEmpty, EmptySeq
<1>2. ASSUME NEW t \in Seq(A), NEW c \in A, t \in T
      PROVE  Append(t, c) \in T
  <2>1. Append(t, c) \in Seq(A)
    BY AppendProperties
  <2>2. Kept(t, C) \in Seq(A \cap C)
    BY KeptType
  <2>3. CASE c \in C
    <3>1. Kept(Append(t, c), C) = Append(Kept(t, C), c)
      BY <2>3, KeptAppend
    <3>2. Kept(Append(Kept(t, C), c), D) = IF c \in D THEN Append(Kept(Kept(t, C), D), c) ELSE Kept(Kept(t, C), D)
      <4>1. \A B : \A s \in Seq(B), d \in B :
                Kept(Append(s, d), D) = IF d \in D THEN Append(Kept(s, D), d) ELSE Kept(s, D)
        BY KeptAppend, Zenon
      <4>2. c \in A \cap C
        BY <2>3
      <4> QED
        BY <2>2, <4>1, <4>2, ZenonT(40)
    <3>3. Kept(Append(t, c), C \cap D) = IF c \in D THEN Append(Kept(t, C \cap D), c) ELSE Kept(t, C \cap D)
      <4>1. Kept(Append(t, c), C \cap D) = IF c \in C \cap D THEN Append(Kept(t, C \cap D), c) ELSE Kept(t, C \cap D)
        BY KeptAppend
      <4> QED
        BY <2>3, <4>1
    <3>4. Kept(Kept(t, C), D) = Kept(t, C \cap D)
      BY <1>2
    <3>5. Kept(Kept(Append(t, c), C), D) = Kept(Append(t, c), C \cap D)
      <4>1. CASE c \in D
        BY <3>1, <3>2, <3>3, <3>4, <4>1, Zenon
      <4>2. CASE c \notin D
        BY <3>1, <3>2, <3>3, <3>4, <4>2, Zenon
      <4> QED
        BY <4>1, <4>2
    <3> QED
      BY <2>1, <3>5
  <2>4. CASE c \notin C
    <3>1. Kept(Append(t, c), C) = Kept(t, C)
      BY <2>4, KeptAppend
    <3>2. Kept(Append(t, c), C \cap D) = Kept(t, C \cap D)
      BY <2>4, KeptAppend
    <3> QED
      BY <1>2, <2>1, <3>1, <3>2
  <2> QED
    BY <2>3, <2>4
<1> HIDE DEF T
<1>3. \A t \in Seq(A) : t \in T
  BY <1>1, <1>2, SeqSet
<1> QED
  BY <1>3 DEF T

\* Two parts of a text are gone through one after the other.
LEMMA KeptConcat ==
    ASSUME NEW A, NEW C, NEW s \in Seq(A)
    PROVE  \A t \in Seq(A) : Kept(s \o t, C) = Kept(s, C) \o Kept(t, C)
<1> DEFINE T == {t \in Seq(A) : Kept(s \o t, C) = Kept(s, C) \o Kept(t, C)}
<1>1. <<>> \in T
  <2>1. s \o <<>> = s
    BY ConcatEmptySeq
  <2>2. Kept(s, C) \in Seq(A \cap C)
    BY KeptType
  <2>3. Kept(s, C) \o <<>> = Kept(s, C)
    BY <2>2, ConcatEmptySeq
  <2> QED
    BY <2>1, <2>3, KeptEmpty, EmptySeq
<1>2. ASSUME NEW t \in Seq(A), NEW c \in A, t \in T
      PROVE  Append(t, c) \in T
  <2>1. Append(t, c) \in Seq(A)
    BY AppendProperties
  <2>2. s \o t \in Seq(A)
    BY ConcatProperties
  <2>3. s \o Append(t, c) = Append(s \o t, c)
    OBVIOUS
  <2>4. Kept(s \o t, C) = Kept(s, C) \o Kept(t, C)
    BY <1>2
  <2>5. Kept(Append(s \o t, c), C) = IF c \in C THEN Append(Kept(s \o t, C), c) ELSE Kept(s \o t, C)
    <3>1. PICK u \in Seq(A) : u = s \o t
      BY <2>2
    <3>2. Kept(Append(u, c), C) = IF c \in C THEN Append(Kept(u, C), c) ELSE Kept(u, C)
      BY KeptAppend
    <3> QED
      BY <3>1, <3>2, Zenon
  <2>6. Kept(Append(t, c), C) = IF c \in C THEN Append(Kept(t, C), c) ELSE Kept(t, C)
    BY KeptAppend
  <2>7. c \in C => Kept(s, C) \o Append(Kept(t, C), c) = Append(Kept(s, C) \o Kept(t, C), c)
    <3>1. PICK u \in Seq(A \cap C), v \in Seq(A \cap C) : u = Kept(s, C) /\ v = Kept(t, C)
      BY KeptType
    <3>2. c \in C => u \o Append(v, c) = Append(u \o v, c)
      OBVIOUS
    <3> QED
      BY <3>1, <3>2, Zenon
  <2>8. Kept(s \o Append(t, c), C) = Kept(s, C) \o Kept(Append(t, c), C)
    BY <2>3, <2>4, <2>5, <2>6, <2>7, Zenon
  <2> QED
    BY <2>1, <2>8
<1> HIDE DEF T
<1>3. \A t \in Seq(A) : t \in T
  BY <1>1, <1>2, SeqSet
<1> QED
  BY <1>3 DEF T

-----------------------------------------------------------------------------
(* The two alphabets. *)

\* A character in the other alphabet.
StandardChar(c) == IF c = 62 THEN Plus ELSE IF c = 63 THEN Slash ELSE c

\* Another alphabet is the same text, character by character.
LEMMA StandardType ==
    ASSUME NEW t \in Seq(Chars)
    PROVE  /\ Standard(t) \in Seq(Chars) /\ Len(Standard(t)) = Len(t)
           /\ \A i \in 1..Len(t) : Standard(t)[i] = StandardChar(t[i])
<1> DEFINE n == Len(t)
<1>1. n \in Nat /\ DOMAIN t = 1..n /\ \A i \in 1..n : t[i] \in Chars
  BY LenProperties, ElementOfSeq
<1>2. Standard(t) = [i \in 1..n |-> StandardChar(t[i])]
  BY <1>1 DEF Standard, StandardChar
<1>3. \A i \in 1..n : StandardChar(t[i]) \in Chars
  BY <1>1 DEF StandardChar, Chars, Plus, Slash
<1> HIDE DEF n
<1>4. Standard(t) \in Seq(Chars) /\ Len(Standard(t)) = n
  BY <1>1, <1>2, <1>3
<1> QED
  BY <1>2, <1>4 DEF n

\* One more character in the other alphabet.
LEMMA StandardAppend ==
    ASSUME NEW t \in Seq(Chars), NEW c \in Chars
    PROVE  Standard(Append(t, c)) = Append(Standard(t), StandardChar(c))
<1> DEFINE n == Len(t)
           u == Append(t, c)
           v == Append(Standard(t), StandardChar(c))
<1>1. /\ n \in Nat /\ u \in Seq(Chars) /\ Len(u) = n + 1
      /\ u[n + 1] = c /\ \A i \in 1..n : u[i] = t[i]
  BY AppendProperties, LenProperties
<1>2. /\ Standard(t) \in Seq(Chars) /\ Len(Standard(t)) = n
      /\ \A i \in 1..n : Standard(t)[i] = StandardChar(t[i])
  BY StandardType
<1>3. StandardChar(c) \in Chars
  BY DEF StandardChar, Chars, Plus, Slash
<1>4. /\ v \in Seq(Chars) /\ Len(v) = n + 1
      /\ v[n + 1] = StandardChar(c) /\ \A i \in 1..n : v[i] = Standard(t)[i]
  BY <1>1, <1>2, <1>3, AppendProperties
<1>5. /\ Standard(u) \in Seq(Chars) /\ Len(Standard(u)) = n + 1
      /\ \A i \in 1..(n + 1) : Standard(u)[i] = StandardChar(u[i])
  <2> HIDE DEF u
  <2> QED
    BY <1>1, StandardType
<1> HIDE DEF n, u, v
<1>6. \A i \in 1..(n + 1) : Standard(u)[i] = v[i]
  BY <1>1, <1>2, <1>4, <1>5
<1>7. Standard(u) = v
  BY <1>4, <1>5, <1>6, SeqEqual
<1> QED
  BY <1>7 DEF u, v

\* A set that is closed under the change of alphabet keeps the same before it
\* and after it.
LEMMA KeptStandard ==
    ASSUME NEW C, \A c \in Chars : c \in C <=> StandardChar(c) \in C
    PROVE  \A t \in Seq(Chars) : Kept(Standard(t), C) = Standard(Kept(t, C))
<1> DEFINE T == {t \in Seq(Chars) : Kept(Standard(t), C) = Standard(Kept(t, C))}
<1>1. <<>> \in T
  <2>1. Standard(<<>>) = <<>>
    BY DEF Standard
  <2> QED
    BY <2>1, KeptEmpty, EmptySeq
<1>2. ASSUME NEW t \in Seq(Chars), NEW c \in Chars, t \in T
      PROVE  Append(t, c) \in T
  <2>1. Append(t, c) \in Seq(Chars)
    BY AppendProperties
  <2>2. Standard(Append(t, c)) = Append(Standard(t), StandardChar(c))
    BY StandardAppend
  <2>3. Standard(t) \in Seq(Chars) /\ StandardChar(c) \in Chars
    BY StandardType DEF StandardChar, Chars, Plus, Slash
  <2>4. \A s \in Seq(Chars), d \in Chars :
            Kept(Append(s, d), C) = IF d \in C THEN Append(Kept(s, C), d) ELSE Kept(s, C)
    BY KeptAppend, Zenon
  <2>5. Kept(Append(Standard(t), StandardChar(c)), C)
            = IF StandardChar(c) \in C THEN Append(Kept(Standard(t), C), StandardChar(c)) ELSE Kept(Standard(t), C)
    BY <2>3, <2>4, Zenon
  <2>6. Kept(Append(t, c), C) = IF c \in C THEN Append(Kept(t, C), c) ELSE Kept(t, C)
    BY <2>4, Zenon
  <2>7. Kept(Standard(t), C) = Standard(Kept(t, C))
    BY <1>2
  <2>8. Standard(Append(Kept(t, C), c)) = Append(Standard(Kept(t, C)), StandardChar(c))
    <3>1. Kept(t, C) \in Seq(Chars)
      <4>1. Kept(t, C) \in Seq(Chars \cap C)
        BY KeptType
      <4>2. Chars \cap C \subseteq Chars
        OBVIOUS
      <4> QED
        BY <4>1, <4>2, SeqMonotonic
    <3> QED
      BY <3>1, StandardAppend
  <2>9. c \in C <=> StandardChar(c) \in C
    OBVIOUS
  <2>10. Kept(Standard(Append(t, c)), C) = Standard(Kept(Append(t, c), C))
    <3>1. CASE c \in C
      BY <2>2, <2>5, <2>6, <2>7, <2>8, <2>9, <3>1, Zenon
    <3>2. CASE c \notin C
      BY <2>2, <2>5, <2>6, <2>7, <2>9, <3>2, Zenon
    <3> QED
      BY <3>1, <3>2
  <2> QED
    BY <2>1, <2>10
<1> HIDE DEF T
<1>3. \A t \in Seq(Chars) : t \in T
  BY <1>1, <1>2, SeqSet
<1> QED
  BY <1>3 DEF T

-----------------------------------------------------------------------------
(* FlattenSeq. *)

\* FlattenSeq goes along such a function, from piece to piece.
Flattens(f, s, n) == f = [i \in 1..n |-> IF i = 1 THEN s[i] ELSE f[i - 1] \o s[i]]

\* The function that joins the pieces is there for every number of them.
LEMMA FlattensExists ==
    ASSUME NEW s
    PROVE  \A n \in Nat : \E f : Flattens(f, s, n)
<1> DEFINE T == {n \in Nat : \E f : Flattens(f, s, n)}
<1>1. 0 \in T
  <2>1. Flattens(<<>>, s, 0)
    BY DEF Flattens
  <2> QED
    BY <2>1
<1>2. ASSUME NEW n \in Nat, n \in T PROVE n + 1 \in T
  <2>1. PICK f : Flattens(f, s, n)
    BY <1>2
  <2> DEFINE body(g, i) == IF i = 1 THEN s[i] ELSE g[i - 1] \o s[i]
             h == [i \in 1..(n + 1) |-> IF i <= n THEN f[i] ELSE body(f, i)]
  <2>2. \A i \in 1..n : f[i] = body(f, i)
    BY <2>1, Zenon DEF Flattens
  <2>3. ASSUME NEW i \in 1..(n + 1) PROVE h[i] = body(h, i)
    <3>1. CASE i = 1
      <4>1. h[1] = IF 1 <= n THEN f[1] ELSE s[1]
        OBVIOUS
      <4>2. 1 <= n => f[1] = s[1]
        BY <2>2
      <4> QED
        BY <3>1, <4>1, <4>2
    <3>2. CASE i \in 2..n
      <4>1. h[i] = f[i] /\ h[i - 1] = f[i - 1] /\ i \in 1..n
        BY <3>2
      <4> HIDE DEF h
      <4> QED
        BY <2>2, <4>1, Zenon
    <3>3. CASE i = n + 1 /\ i # 1
      <4>1. i - 1 \in 1..n /\ ~(i <= n)
        BY <3>3
      <4>2. h[i - 1] = f[i - 1]
        BY <4>1
      <4>3. h[i] = body(f, i)
        <5> HIDE DEF body
        <5> QED
          BY <4>1
      <4> HIDE DEF h
      <4> QED
        BY <4>2, <4>3, Zenon
    <3> QED
      BY <3>1, <3>2, <3>3
  <2>4. h = [i \in 1..(n + 1) |-> h[i]]
    OBVIOUS
  <2>5. h = [i \in 1..(n + 1) |-> body(h, i)]
    <3> HIDE DEF h, body
    <3> QED
      BY <2>3, <2>4
  <2>6. Flattens(h, s, n + 1)
    BY <2>5, Zenon DEF Flattens
  <2> QED
    BY <2>6
<1> HIDE DEF T
<1>3. \A n \in Nat : n \in T
  BY <1>1, <1>2, NatSet
<1> QED
  BY <1>3 DEF T

\* Pieces of w elements, the last of them of w at most.
Uniform(s, w) ==
    Len(s) # 0 /\ (\A g \in 1..(Len(s) - 1) : Len(s[g]) = w) /\ Len(s[Len(s)]) <= w

\* Each element is where the pieces before it leave it.
Flattened(s, w, A) ==
    /\ FlattenSeq(s) \in Seq(A)
    /\ Len(FlattenSeq(s)) = w * (Len(s) - 1) + Len(s[Len(s)])
    /\ \A g \in 1..Len(s) : \A k \in 1..Len(s[g]) : FlattenSeq(s)[w * (g - 1) + k] = s[g][k]

\* Pieces of one length, the last of them perhaps shorter, joined: where each
\* of their elements is found.
LEMMA FlattenUniform ==
    ASSUME NEW A, NEW w \in {3, 4}
    PROVE  \A s \in Seq(Seq(A)) : Uniform(s, w) => Flattened(s, w, A)
<1> TAKE s \in Seq(Seq(A))
<1>a. HAVE Uniform(s, w)
<1>0. Len(s) # 0 /\ (\A g \in 1..(Len(s) - 1) : Len(s[g]) = w) /\ Len(s[Len(s)]) <= w
  BY <1>a, Zenon DEF Uniform
<1> DEFINE n == Len(s)
           f == CHOOSE f : Flattens(f, s, n)
           Good(m) == /\ f[m] \in Seq(A)
                      /\ Len(f[m]) = w * (m - 1) + Len(s[m])
                      /\ \A g \in 1..m : \A k \in 1..Len(s[g]) : f[m][w * (g - 1) + k] = s[g][k]
           T == {m \in Nat : m \in 1..n => Good(m)}
<1>1. n \in Nat \ {0} /\ \A g \in 1..n : s[g] \in Seq(A) /\ Len(s[g]) \in Nat
  BY <1>0, LenProperties, ElementOfSeq
<1>2. Flattens(f, s, n)
  <2>1. \E h : Flattens(h, s, n)
    BY <1>1, FlattensExists
  <2> QED
    BY <2>1, Zenon
<1>3. FlattenSeq(s) = f[n]
  <2>1. Len(s) # 0
    BY <1>0
  <2> QED
    BY <2>1, Zenon DEF FlattenSeq, Flattens
<1> HIDE DEF f
<1>4. /\ f[1] = s[1]
      /\ \A m \in 1..n : m # 1 => f[m] = f[m - 1] \o s[m]
  <2>1. \A m \in 1..n : f[m] = IF m = 1 THEN s[m] ELSE f[m - 1] \o s[m]
    BY <1>2, Zenon DEF Flattens
  <2>2. 1 \in 1..n
    BY <1>1
  <2> QED
    BY <2>1, <2>2, Zenon
<1>5. 0 \in T
  OBVIOUS
<1>6. ASSUME NEW m \in Nat, m \in T PROVE m + 1 \in T
  <2>1. SUFFICES ASSUME m + 1 \in 1..n PROVE Good(m + 1)
    <3>1. m + 1 \in Nat
      OBVIOUS
    <3> HIDE DEF Good, n
    <3> QED
      BY <3>1
  <2>2. CASE m = 0
    <3>1. f[1] \in Seq(A) /\ Len(s[1]) \in Nat /\ f[1] = s[1] /\ m + 1 = 1 /\ w * (1 - 1) = 0
      BY <1>1, <1>4, <2>2
    <3>2. Len(f[1]) = w * (1 - 1) + Len(s[1])
      <4>1. Len(f[1]) = Len(s[1])
        BY <3>1, Zenon
      <4>2. \A l \in Nat : w * (1 - 1) + l = l
        BY <3>1
      <4> QED
        BY <3>1, <4>1, <4>2, Zenon
    <3>3. ASSUME NEW g \in 1..1, NEW k \in 1..Len(s[g])
          PROVE  f[1][w * (g - 1) + k] = s[g][k]
      <4>1. g = 1
        OBVIOUS
      <4>2. w * (g - 1) + k = k
        BY <3>1, <4>1
      <4> QED
        BY <3>1, <4>1, <4>2, Zenon
    <3> QED
      BY <3>1, <3>2, <3>3, Zenon
  <2>3. CASE m # 0
    <3> DEFINE x == f[m]
               y == s[m + 1]
    <3>1. m \in 1..n /\ m \in 1..(n - 1) /\ m + 1 # 1 /\ (m + 1) - 1 = m
      BY <2>1, <2>3, <1>1
    <3>2. /\ x \in Seq(A) /\ Len(x) = w * (m - 1) + Len(s[m])
          /\ \A g \in 1..m : \A k \in 1..Len(s[g]) : x[w * (g - 1) + k] = s[g][k]
      BY <1>6, <3>1
    <3>3. Len(s[m]) = w
      BY <1>0, <3>1
    <3>4. Len(x) = w * m
      <4>1. CASE w = 3
        BY <3>2, <3>3, <4>1
      <4>2. CASE w = 4
        BY <3>2, <3>3, <4>2
      <4> QED
        BY <4>1, <4>2
    <3>5. y \in Seq(A) /\ Len(y) \in Nat
      BY <1>1, <2>1
    <3>6. f[m + 1] = x \o y
      BY <1>4, <2>1, <3>1, Zenon
    <3> HIDE DEF x, y
    <3>7. /\ x \o y \in Seq(A) /\ Len(x \o y) = Len(x) + Len(y)
          /\ \A i \in 1..Len(x) + Len(y) : (x \o y)[i] = IF i <= Len(x) THEN x[i] ELSE y[i - Len(x)]
      <4>1. \A u, v \in Seq(A) :
                /\ u \o v \in Seq(A) /\ Len(u \o v) = Len(u) + Len(v)
                /\ \A i \in 1..Len(u) + Len(v) : (u \o v)[i] = IF i <= Len(u) THEN u[i] ELSE v[i - Len(u)]
        BY ConcatProperties, Zenon
      <4> QED
        BY <3>2, <3>5, <4>1, Zenon
    <3>8. ASSUME NEW g \in 1..m, NEW k \in 1..Len(s[g])
          PROVE  (x \o y)[w * (g - 1) + k] = s[g][k]
      <4>1. Len(s[g]) = w
        BY <1>0, <1>1, <3>1
      <4>2. w * (g - 1) + k \in 1..Len(x)
        <5>1. CASE w = 3
          BY <3>4, <4>1, <5>1
        <5>2. CASE w = 4
          BY <3>4, <4>1, <5>2
        <5> QED
          BY <5>1, <5>2
      <4>3. (x \o y)[w * (g - 1) + k] = x[w * (g - 1) + k]
        <5> DEFINE i == w * (g - 1) + k
        <5> HIDE DEF i
        <5>1. i \in 1..Len(x) /\ Len(x) \in Nat /\ Len(y) \in Nat
          BY <3>2, <3>5, <4>2, LenProperties DEF i
        <5>2. i \in 1..Len(x) + Len(y) /\ i <= Len(x)
          BY <5>1
        <5>3. (x \o y)[i] = x[i]
          BY <3>7, <5>2, Zenon
        <5> QED
          BY <5>3 DEF i
      <4> QED
        BY <3>2, <4>3, Zenon
    <3>9. ASSUME NEW k \in 1..Len(y)
          PROVE  (x \o y)[w * m + k] = y[k]
      <4> DEFINE i == w * m + k
      <4>1. i \in 1..Len(x) + Len(y) /\ ~(i <= Len(x)) /\ i - Len(x) = k
        <5>1. CASE w = 3
          BY <3>4, <3>5, <5>1
        <5>2. CASE w = 4
          BY <3>4, <3>5, <5>2
        <5> QED
          BY <5>1, <5>2
      <4> HIDE DEF i
      <4>2. (x \o y)[i] = y[k]
        BY <3>7, <4>1, Zenon
      <4> QED
        BY <4>2 DEF i
    <3>10. \A g \in 1..(m + 1) : \A k \in 1..Len(s[g]) : (x \o y)[w * (g - 1) + k] = s[g][k]
      <4>1. SUFFICES ASSUME NEW g \in 1..(m + 1), NEW k \in 1..Len(s[g])
                     PROVE  (x \o y)[w * (g - 1) + k] = s[g][k]
        BY Zenon
      <4>2. CASE g \in 1..m
        BY <3>8, <4>2, Zenon
      <4>3. CASE g = m + 1
        <5>1. g - 1 = m /\ s[g] = y
          BY <4>3 DEF y
        <5> QED
          BY <3>9, <5>1, Zenon
      <4>4. g \in 1..m \/ g = m + 1
        OBVIOUS
      <4> QED
        BY <4>2, <4>3, <4>4
    <3>11. Len(x \o y) = w * ((m + 1) - 1) + Len(s[m + 1])
      BY <3>1, <3>4, <3>7 DEF y
    <3> QED
      BY <3>6, <3>7, <3>10, <3>11, Zenon
  <2> QED
    BY <2>2, <2>3
<1> HIDE DEF T
<1>7. \A m \in Nat : m \in T
  BY <1>5, <1>6, NatSet
<1>8. Good(n)
  <2>1. n \in T /\ n \in 1..n
    BY <1>1, <1>7
  <2> QED
    BY <2>1 DEF T
<1> QED
  BY <1>3, <1>8, Zenon DEF Flattened

-----------------------------------------------------------------------------
(* Back to the base64url alphabet, and what stands in front. *)

\* A character in the base64url alphabet.
UrlSafeChar(c) == IF c = Plus THEN 62 ELSE IF c = Slash THEN 63 ELSE c

\* The base64url alphabet, character by character.
LEMMA UrlSafeType ==
    ASSUME NEW t \in Seq(Chars)
    PROVE  /\ UrlSafe(t) \in Seq(Chars) /\ Len(UrlSafe(t)) = Len(t)
           /\ \A i \in 1..Len(t) : UrlSafe(t)[i] = UrlSafeChar(t[i])
<1> DEFINE n == Len(t)
<1>1. n \in Nat /\ DOMAIN t = 1..n /\ \A i \in 1..n : t[i] \in Chars
  BY LenProperties, ElementOfSeq
<1>2. UrlSafe(t) = [i \in 1..n |-> UrlSafeChar(t[i])]
  BY <1>1 DEF UrlSafe, UrlSafeChar
<1>3. \A i \in 1..n : UrlSafeChar(t[i]) \in Chars
  BY <1>1 DEF UrlSafeChar, Chars, Plus, Slash
<1> HIDE DEF n
<1>4. UrlSafe(t) \in Seq(Chars) /\ Len(UrlSafe(t)) = n
  BY <1>1, <1>2, <1>3
<1> QED
  BY <1>2, <1>4 DEF n

\* The way to '+' and '/' and back.
LEMMA UrlSafeStandard ==
    ASSUME NEW t \in Seq(Chars)
    PROVE  UrlSafe(Standard(t)) = UrlSafe(t)
<1> DEFINE n == Len(t)
           u == Standard(t)
<1>1. u \in Seq(Chars) /\ Len(u) = n /\ \A i \in 1..n : u[i] = StandardChar(t[i])
  BY StandardType
<1>2. /\ UrlSafe(t) \in Seq(Chars) /\ Len(UrlSafe(t)) = n
      /\ \A i \in 1..n : UrlSafe(t)[i] = UrlSafeChar(t[i])
  BY UrlSafeType
<1> HIDE DEF u
<1>3. /\ UrlSafe(u) \in Seq(Chars) /\ Len(UrlSafe(u)) = Len(u)
      /\ \A i \in 1..Len(u) : UrlSafe(u)[i] = UrlSafeChar(u[i])
  BY <1>1, UrlSafeType
<1>4. \A i \in 1..n : UrlSafeChar(StandardChar(t[i])) = UrlSafeChar(t[i])
  <2>1. \A d \in Chars : UrlSafeChar(StandardChar(d)) = UrlSafeChar(d)
    BY DEF UrlSafeChar, StandardChar, Plus, Slash, Chars
  <2> QED
    BY <2>1, ElementOfSeq, Zenon
<1>5. \A i \in 1..n : UrlSafe(u)[i] = UrlSafe(t)[i]
  BY <1>1, <1>2, <1>3, <1>4, Zenon
<1> HIDE DEF n
<1>6. UrlSafe(u) = UrlSafe(t)
  BY <1>1, <1>2, <1>3, <1>5, SeqEqual
<1> QED
  BY <1>6 DEF u

\* A text that has no other characters than the base64url ones stays as it is.
LEMMA UrlSafeSame ==
    ASSUME NEW t \in Seq(0..63 \cup {Pad})
    PROVE  UrlSafe(t) = t
<1> DEFINE n == Len(t)
<1>1. n \in Nat /\ \A i \in 1..n : t[i] \in 0..63 \cup {Pad}
  BY LenProperties, ElementOfSeq
<1>2. t \in Seq(Chars)
  BY SeqMonotonic DEF Chars, Pad
<1>3. /\ UrlSafe(t) \in Seq(Chars) /\ Len(UrlSafe(t)) = n
      /\ \A i \in 1..n : UrlSafe(t)[i] = UrlSafeChar(t[i])
  BY <1>2, UrlSafeType
<1>4. \A i \in 1..n : UrlSafe(t)[i] = t[i]
  <2>1. \A d \in 0..63 \cup {Pad} : UrlSafeChar(d) = d
    BY DEF UrlSafeChar, Plus, Slash, Pad
  <2> QED
    BY <1>1, <1>3, <2>1, Zenon
<1> QED
  BY <1>2, <1>3, <1>4, SeqEqual

\* If what is kept is what stands in front, it is that part of the text.
LEMMA KeptPrefix ==
    ASSUME NEW A, NEW C
    PROVE  \A t \in Seq(A) : \A m \in 0..Len(t) :
             (\A i \in 1..m : t[i] \in C) /\ (\A i \in (m + 1)..Len(t) : t[i] \notin C)
             => Kept(t, C) = SubSeq(t, 1, m)
<1> TAKE t \in Seq(A)
<1> TAKE m \in 0..Len(t)
<1>0. HAVE (\A i \in 1..m : t[i] \in C) /\ (\A i \in (m + 1)..Len(t) : t[i] \notin C)
<1> DEFINE n == Len(t)
           u == SubSeq(t, 1, m)
           v == SubSeq(t, m + 1, n)
<1>1. n \in Nat /\ m \in Nat /\ m <= n /\ \A i \in 1..n : t[i] \in A
  BY LenProperties, ElementOfSeq
<1>2. u \in Seq(A) /\ Len(u) = m /\ \A i \in 1..m : u[i] = t[i]
  BY <1>1
<1>3. v \in Seq(A) /\ Len(v) = n - m /\ \A i \in 1..(n - m) : v[i] = t[m + i]
  BY <1>1
<1>4. u \o v = t
  <2> HIDE DEF u, v
  <2>1. /\ u \o v \in Seq(A) /\ Len(u \o v) = m + (n - m)
        /\ \A i \in 1..(m + (n - m)) : (u \o v)[i] = IF i <= m THEN u[i] ELSE v[i - m]
    <3>1. \A x, y \in Seq(A) :
             /\ x \o y \in Seq(A) /\ Len(x \o y) = Len(x) + Len(y)
             /\ \A i \in 1..Len(x) + Len(y) : (x \o y)[i] = IF i <= Len(x) THEN x[i] ELSE y[i - Len(x)]
      BY ConcatProperties, Zenon
    <3>2. Len(u) = m /\ Len(v) = n - m
      BY <1>2, <1>3
    <3>3. /\ u \o v \in Seq(A) /\ Len(u \o v) = Len(u) + Len(v)
          /\ \A i \in 1..Len(u) + Len(v) : (u \o v)[i] = IF i <= Len(u) THEN u[i] ELSE v[i - Len(u)]
      BY <1>2, <1>3, <3>1, Zenon
    <3> HIDE DEF n
    <3> QED
      BY <3>2, <3>3
  <2>2. m + (n - m) = n
    BY <1>1
  <2>3. ASSUME NEW i \in 1..n PROVE (u \o v)[i] = t[i]
    <3>1. CASE i <= m
      <4>1. i \in 1..m
        BY <3>1, <1>1
      <4> QED
        BY <1>2, <2>1, <2>2, <3>1, <4>1, Zenon
    <3>2. CASE ~(i <= m)
      <4>1. i - m \in 1..(n - m) /\ m + (i - m) = i
        BY <1>1, <3>2
      <4> QED
        BY <1>3, <2>1, <2>2, <3>2, <4>1, Zenon
    <3> QED
      BY <3>1, <3>2
  <2> HIDE DEF n
  <2>4. Len(u \o v) = Len(t) /\ u \o v \in Seq(A)
    BY <2>1, <2>2 DEF n
  <2> QED
    BY <2>3, <2>4, SeqEqual DEF n
<1>5. Kept(u, C) = u
  <2>1. \A i \in 1..m : u[i] \in C
    BY <1>0, <1>2
  <2>2. u \in Seq(C)
    <3> HIDE DEF u
    <3> QED
      BY <1>1, <1>2, <2>1
  <2> QED
    BY <2>2, KeptAll
<1>6. Kept(v, C) = <<>>
  <2>1. \A i \in 1..(n - m) : v[i] \in A \ C
    <3>1. \A i \in 1..(n - m) : m + i \in (m + 1)..n /\ m + i \in 1..n
      BY <1>1
    <3> QED
      BY <1>0, <1>1, <1>3, <3>1
  <2>2. v \in Seq(A \ C)
    <3> HIDE DEF v
    <3> QED
      BY <1>1, <1>3, <2>1
  <2>3. Kept(v, C) \in Seq((A \ C) \cap C)
    BY <2>2, KeptType
  <2>4. (A \ C) \cap C = {}
    OBVIOUS
  <2> HIDE DEF v
  <2>5. \A w \in Seq({}) : w = <<>>
    BY EmptySeq, SequenceEmptyOrAppend
  <2> QED
    BY <2>3, <2>4, <2>5
<1> HIDE DEF u, v
<1>7. Kept(u \o v, C) = Kept(u, C) \o Kept(v, C)
  BY <1>2, <1>3, KeptConcat
<1>8. u \o <<>> = u
  BY <1>2, ConcatEmptySeq
<1>9. Kept(t, C) = u
  BY <1>4, <1>5, <1>6, <1>7, <1>8, Zenon
<1> QED
  BY <1>9 DEF u

-----------------------------------------------------------------------------
(* Encoding, group by group. *)

\* The four letters of octets a, b and c.
Letter1(a)    == a \div 4
Letter2(a, b) == (a % 4) * 16 + b \div 16
Letter3(b, c) == (b % 16) * 4 + c \div 64
Letter4(c)    == c % 64

\* They are letters.
LEMMA LetterRange ==
    /\ \A a \in 0..255 : Letter1(a) \in 0..63 /\ Letter4(a) \in 0..63
    /\ \A a, b \in 0..255 : Letter2(a, b) \in 0..63 /\ Letter3(a, b) \in 0..63
<1>1. \A a \in 0..255 : Letter1(a) \in 0..63
  BY DEF Letter1
<1>2. \A a \in 0..255 : Letter4(a) \in 0..63
  BY DEF Letter4
<1>3. \A a, b \in 0..255 : Letter2(a, b) \in 0..63
  BY DEF Letter2
<1>4. \A a, b \in 0..255 : Letter3(a, b) \in 0..63
  BY DEF Letter3
<1> QED
  BY <1>1, <1>2, <1>3, <1>4, ZenonT(40)

\* The i-th octet, or 0 where there is none.
OctetAt(data, i) == IF i \in 1..Len(data) THEN data[i] ELSE 0

\* They are octets, too.
LEMMA OctRange ==
    ASSUME NEW data \in Seq(0..255)
    PROVE  \A i : OctetAt(data, i) \in 0..255
<1>1. \A i \in 1..Len(data) : data[i] \in 0..255
  BY ElementOfSeq
<1>2. 0 \in 0..255
  OBVIOUS
<1> QED
  BY <1>1, <1>2, Zenon DEF OctetAt

\* The characters of a group, its missing octets taken as 0.
LEMMA EncodedGroupIs ==
    ASSUME NEW o \in Seq(0..255), Len(o) \in 1..3
    PROVE  LET e == EncodedGroup(o)
           IN  /\ e \in Seq(0..63 \cup {Pad}) /\ Len(e) = 4
               /\ e[1] = Letter1(OctetAt(o, 1))
               /\ e[2] = Letter2(OctetAt(o, 1), OctetAt(o, 2))
               /\ e[3] = IF Len(o) >= 2 THEN Letter3(OctetAt(o, 2), OctetAt(o, 3)) ELSE Pad
               /\ e[4] = IF Len(o) = 3 THEN Letter4(OctetAt(o, 3)) ELSE Pad
<1>1. PICK p \in 0..255, q \in 0..255, r \in 0..255 :
          p = OctetAt(o, 1) /\ q = OctetAt(o, 2) /\ r = OctetAt(o, 3)
  BY OctRange, ZenonT(40)
<1> DEFINE e == EncodedGroup(o)
           x3 == IF Len(o) >= 2 THEN Letter3(q, r) ELSE Pad
           x4 == IF Len(o) = 3 THEN Letter4(r) ELSE Pad
<1>2. Letter2(p, 0) = (p % 4) * 16 /\ Letter3(q, 0) = (q % 16) * 4
  BY DEF Letter2, Letter3
<1>3. e = <<Letter1(p), Letter2(p, q), x3, x4>>
  <2>1. CASE Len(o) = 3
    <3>1. p = o[1] /\ q = o[2] /\ r = o[3] /\ Len(o) >= 2
      BY <1>1, <2>1 DEF OctetAt
    <3> QED
      BY <2>1, <3>1, Zenon DEF EncodedGroup, Letter1, Letter2, Letter3, Letter4
  <2>2. CASE Len(o) = 2
    <3>1. p = o[1] /\ q = o[2] /\ r = 0 /\ Len(o) >= 2 /\ Len(o) # 3
      BY <1>1, <2>2 DEF OctetAt
    <3>2. e = <<o[1] \div 4, (o[1] % 4) * 16 + o[2] \div 16, (o[2] % 16) * 4, Pad>>
      BY <2>2, <3>1, Zenon DEF EncodedGroup
    <3>3. o[1] \div 4 = Letter1(p) /\ (o[1] % 4) * 16 + o[2] \div 16 = Letter2(p, q) /\ (o[2] % 16) * 4 = x3 /\ Pad = x4
      BY <1>2, <3>1, Zenon DEF Letter1, Letter2
    <3> QED
      BY <3>2, <3>3, Zenon
  <2>3. CASE Len(o) = 1
    <3>1. p = o[1] /\ q = 0 /\ ~(Len(o) >= 2) /\ Len(o) # 3 /\ Len(o) # 2
      BY <1>1, <2>3 DEF OctetAt
    <3>2. e = <<o[1] \div 4, (o[1] % 4) * 16, Pad, Pad>>
      BY <3>1, Zenon DEF EncodedGroup
    <3>3. o[1] \div 4 = Letter1(p) /\ (o[1] % 4) * 16 = Letter2(p, q) /\ Pad = x3 /\ Pad = x4
      BY <1>2, <3>1, Zenon DEF Letter1
    <3> QED
      BY <3>2, <3>3, Zenon
  <2> QED
    BY <2>1, <2>2, <2>3
<1>4. /\ Letter1(p) \in 0..63 \cup {Pad} /\ Letter2(p, q) \in 0..63 \cup {Pad}
      /\ x3 \in 0..63 \cup {Pad} /\ x4 \in 0..63 \cup {Pad}
  <2>1. Letter1(p) \in 0..63 /\ Letter2(p, q) \in 0..63 /\ Letter3(q, r) \in 0..63 /\ Letter4(r) \in 0..63
    BY <1>1, LetterRange, ZenonT(40)
  <2>2. x3 = Pad \/ x3 = Letter3(q, r)
    BY DEF x3
  <2>3. x4 = Pad \/ x4 = Letter4(r)
    BY DEF x4
  <2> QED
    BY <2>1, <2>2, <2>3
<1> HIDE DEF e, x3, x4
<1>5. /\ e \in Seq(0..63 \cup {Pad}) /\ Len(e) = 4
      /\ e[1] = Letter1(p) /\ e[2] = Letter2(p, q) /\ e[3] = x3 /\ e[4] = x4
  BY <1>3, <1>4
<1> QED
  BY <1>1, <1>5, Zenon DEF e, x3, x4

\* The letters of n octets.
LettersOf(n) == 4 * (n \div 3) + (IF n % 3 = 0 THEN 0 ELSE (n % 3) + 1)

\* The characters of the g-th group of a content.
LEMMA Group ==
    ASSUME NEW data \in Seq(0..255), NEW g \in 1..((Len(data) + 2) \div 3)
    PROVE  LET n == Len(data)
               e == EncodedGroup(SubSeq(data, 3 * g - 2, IF 3 * g < n THEN 3 * g ELSE n))
               a == OctetAt(data, 3 * g - 2)
               b == OctetAt(data, 3 * g - 1)
               c == OctetAt(data, 3 * g)
           IN  /\ e \in Seq(0..63 \cup {Pad}) /\ Len(e) = 4
               /\ e[1] = Letter1(a)
               /\ e[2] = Letter2(a, b)
               /\ e[3] = IF 4 * g - 1 <= LettersOf(n) THEN Letter3(b, c) ELSE Pad
               /\ e[4] = IF 4 * g <= LettersOf(n) THEN Letter4(c) ELSE Pad
<1> DEFINE n == Len(data)
           h == IF 3 * g < n THEN 3 * g ELSE n
           o == SubSeq(data, 3 * g - 2, h)
<1>1. n \in Nat /\ n # 0
  BY LenProperties
<1>2. h \in Nat /\ h <= n /\ 3 * g - 2 \in 1..h /\ h - (3 * g - 2) + 1 \in 1..3
  BY <1>1
<1>3. \A i \in 1..n : data[i] \in 0..255
  BY ElementOfSeq
<1>4. /\ o \in Seq(0..255) /\ Len(o) = h - (3 * g - 2) + 1
      /\ \A i \in 1..(h - (3 * g - 2) + 1) : o[i] = data[3 * g - 2 + i - 1]
  <2> HIDE DEF n, h
  <2>1. \A i \in (3 * g - 2)..h : data[i] \in 0..255
    <3>1. \A i \in (3 * g - 2)..h : i \in 1..n
      BY <1>1, <1>2
    <3> QED
      BY <1>3, <3>1, Zenon
  <2> DEFINE q == 3 * g - 2
  <2>2. q \in Int /\ h \in Int /\ q <= h
    BY <1>2
  <2> HIDE DEF q
  <2>3. /\ SubSeq(data, q, h) \in Seq(0..255) /\ Len(SubSeq(data, q, h)) = IF q <= h THEN h - q + 1 ELSE 0
        /\ \A i \in 1..(h - q + 1) : SubSeq(data, q, h)[i] = data[q + i - 1]
    BY <2>1, <2>2, SubSeqProperties DEF q
  <2> QED
    BY <2>2, <2>3 DEF q
<1>5. Len(o) \in 1..3
  BY <1>2, <1>4
<1>6. \A k \in 1..3 : OctetAt(o, k) = OctetAt(data, 3 * g - 3 + k)
  <2>1. ASSUME NEW k \in 1..3 PROVE OctetAt(o, k) = OctetAt(data, 3 * g - 3 + k)
    <3> HIDE DEF o
    <3>1. CASE k <= Len(o)
      <4>1. k \in 1..Len(o) /\ 3 * g - 3 + k \in 1..n /\ 3 * g - 2 + k - 1 = 3 * g - 3 + k
        BY <1>1, <1>2, <1>4, <3>1
      <4>2. o[k] = data[3 * g - 3 + k]
        <5>1. o[k] = data[3 * g - 2 + k - 1]
          BY <1>4, <4>1
        <5> QED
          BY <4>1, <5>1
      <4> QED
        BY <4>1, <4>2, Zenon DEF OctetAt
    <3>2. CASE ~(k <= Len(o))
      <4>1. k \notin 1..Len(o) /\ 3 * g - 3 + k \notin 1..n
        BY <1>1, <1>2, <1>4, <3>2
      <4> QED
        BY <4>1, Zenon DEF OctetAt
    <3> QED
      BY <3>1, <3>2
  <2> QED
    BY <2>1
<1>7. /\ OctetAt(o, 1) = OctetAt(data, 3 * g - 2) /\ OctetAt(o, 2) = OctetAt(data, 3 * g - 1)
      /\ OctetAt(o, 3) = OctetAt(data, 3 * g)
  <2>1. 3 * g - 3 + 1 = 3 * g - 2 /\ 3 * g - 3 + 2 = 3 * g - 1 /\ 3 * g - 3 + 3 = 3 * g
    OBVIOUS
  <2>2. OctetAt(o, 1) = OctetAt(data, 3 * g - 3 + 1)
    <3> HIDE DEF o
    <3> QED
      BY <1>6
  <2>3. OctetAt(o, 2) = OctetAt(data, 3 * g - 3 + 2)
    <3> HIDE DEF o
    <3> QED
      BY <1>6
  <2>4. OctetAt(o, 3) = OctetAt(data, 3 * g - 3 + 3)
    <3> HIDE DEF o
    <3> QED
      BY <1>6
  <2> QED
    BY <2>1, <2>2, <2>3, <2>4
<1>8. /\ Len(o) >= 2 <=> 4 * g - 1 <= LettersOf(n)
      /\ Len(o) = 3 <=> 4 * g <= LettersOf(n)
  <2> DEFINE q == n \div 3
             d == n % 3
  <2>1. q \in Nat /\ d \in 0..2 /\ n = 3 * q + d /\ g \in 1..(IF d = 0 THEN q ELSE q + 1)
    BY <1>1
  <2>2. LettersOf(n) = 4 * q + (IF d = 0 THEN 0 ELSE d + 1)
    BY DEF LettersOf
  <2>3. Len(o) = IF 3 * g < n THEN 3 ELSE n - (3 * g - 2) + 1
    <3>1. CASE 3 * g < n
      <4>1. h = 3 * g /\ h - (3 * g - 2) + 1 = 3
        BY <3>1
      <4> HIDE DEF o, h, n
      <4> QED
        BY <1>4, <3>1, <4>1, Zenon
    <3>2. CASE ~(3 * g < n)
      <4>1. h = n
        BY <3>2
      <4> HIDE DEF o, h, n
      <4> QED
        BY <1>4, <3>2, <4>1, Zenon
    <3> QED
      BY <3>1, <3>2
  <2> HIDE DEF o, q, d, n, h
  <2> QED
    BY <2>1, <2>2, <2>3
<1> DEFINE e == EncodedGroup(o)
<1>9. /\ e \in Seq(0..63 \cup {Pad}) /\ Len(e) = 4
      /\ e[1] = Letter1(OctetAt(o, 1))
      /\ e[2] = Letter2(OctetAt(o, 1), OctetAt(o, 2))
      /\ e[3] = IF Len(o) >= 2 THEN Letter3(OctetAt(o, 2), OctetAt(o, 3)) ELSE Pad
      /\ e[4] = IF Len(o) = 3 THEN Letter4(OctetAt(o, 3)) ELSE Pad
  <2> HIDE DEF o
  <2> QED
    BY <1>4, <1>5, EncodedGroupIs
<1> HIDE DEF e, o
<1>10. /\ e[1] = Letter1(OctetAt(data, 3 * g - 2))
       /\ e[2] = Letter2(OctetAt(data, 3 * g - 2), OctetAt(data, 3 * g - 1))
       /\ e[3] = IF 4 * g - 1 <= LettersOf(n) THEN Letter3(OctetAt(data, 3 * g - 1), OctetAt(data, 3 * g)) ELSE Pad
       /\ e[4] = IF 4 * g <= LettersOf(n) THEN Letter4(OctetAt(data, 3 * g)) ELSE Pad
  BY <1>7, <1>8, <1>9, Zenon
<1> QED
  BY <1>9, <1>10, Zenon DEF e, o

-----------------------------------------------------------------------------
(* Encoding: the whole text. *)

\* What Encode makes of a content of any length, letter by letter.
LEMMA EncodedText ==
    ASSUME NEW data \in Seq(0..255)
    PROVE  LET n == Len(data)
               m == LettersOf(n)
               r == Encode(data)
           IN  /\ r \in Seq(0..63) /\ Len(r) = m
               /\ \A g \in 1..((n + 2) \div 3) :
                    LET a == OctetAt(data, 3 * g - 2)
                        b == OctetAt(data, 3 * g - 1)
                        c == OctetAt(data, 3 * g)
                    IN  /\ r[4 * g - 3] = Letter1(a)
                        /\ r[4 * g - 2] = Letter2(a, b)
                        /\ 4 * g - 1 <= m => r[4 * g - 1] = Letter3(b, c)
                        /\ 4 * g <= m => r[4 * g] = Letter4(c)
<1> DEFINE n == Len(data)
           G == (n + 2) \div 3
           m == LettersOf(n)
           L == 0..63 \cup {Pad}
           group(g) == EncodedGroup(SubSeq(data, 3 * g - 2, IF 3 * g < n THEN 3 * g ELSE n))
           gs == [g \in 1..G |-> group(g)]
           flat == FlattenSeq(gs)
           a(g) == OctetAt(data, 3 * g - 2)
           b(g) == OctetAt(data, 3 * g - 1)
           c(g) == OctetAt(data, 3 * g)
<1>1. n \in Nat /\ G \in Nat /\ m \in Nat /\ m <= 4 * G
  <2>1. n \in Nat
    BY LenProperties
  <2> HIDE DEF n
  <2> QED
    BY <2>1 DEF LettersOf
<1>2. \A g \in 1..G : 4 * g - 2 <= m
  <2> HIDE DEF n
  <2> QED
    BY <1>1 DEF LettersOf
<1>3. \A g \in 1..G : /\ group(g) \in Seq(L) /\ Len(group(g)) = 4
                      /\ group(g)[1] = Letter1(a(g))
                      /\ group(g)[2] = Letter2(a(g), b(g))
                      /\ group(g)[3] = IF 4 * g - 1 <= m THEN Letter3(b(g), c(g)) ELSE Pad
                      /\ group(g)[4] = IF 4 * g <= m THEN Letter4(c(g)) ELSE Pad
  BY Group, Zenon
<1>4. Base64Encode(data) = Standard(flat)
  BY Zenon DEF Base64Encode
<1>5. \A g : a(g) \in 0..255 /\ b(g) \in 0..255 /\ c(g) \in 0..255
  BY OctRange, Zenon
<1> HIDE DEF a, b, c, m, G, group, n
<1>6. gs \in Seq(Seq(L)) /\ Len(gs) = G /\ \A g \in 1..G : gs[g] = group(g)
  BY <1>1, <1>3
<1>7. /\ flat \in Seq(L) /\ Len(flat) = 4 * G
      /\ \A g \in 1..G, k \in 1..4 : flat[4 * (g - 1) + k] = group(g)[k]
  <2>1. CASE G = 0
    <3>1. Len(gs) = 0
      BY <1>6, <2>1
    <3> HIDE DEF gs, L
    <3>2. gs = <<>>
      BY <1>6, <3>1, EmptySeq
    <3>3. FlattenSeq(gs) = <<>>
      BY <3>1, <3>2, Zenon DEF FlattenSeq
    <3>4. flat \in Seq(L) /\ Len(flat) = 0
      BY <3>3, EmptySeq
    <3> QED
      BY <2>1, <3>4
  <2>2. CASE G # 0
    <3>1. Len(gs) # 0 /\ Len(gs[Len(gs)]) = 4 /\ \A g \in 1..(Len(gs) - 1) : Len(gs[g]) = 4
      BY <1>1, <1>3, <1>6, <2>2
    <3>2. \A g \in 1..Len(gs) : Len(gs[g]) = 4 /\ gs[g] = group(g)
      BY <1>1, <1>3, <1>6
    <3> HIDE DEF gs, L
    <3>3. /\ FlattenSeq(gs) \in Seq(L)
          /\ Len(FlattenSeq(gs)) = 4 * (Len(gs) - 1) + Len(gs[Len(gs)])
          /\ \A g \in 1..Len(gs) : \A k \in 1..Len(gs[g]) : FlattenSeq(gs)[4 * (g - 1) + k] = gs[g][k]
      <4>1. Uniform(gs, 4)
        BY <3>1 DEF Uniform
      <4>2. \A s \in Seq(Seq(L)) : Uniform(s, 4) => Flattened(s, 4, L)
        BY FlattenUniform
      <4>3. Flattened(gs, 4, L)
        BY <1>6, <4>1, <4>2, Zenon
      <4> QED
        BY <4>3, Zenon DEF Flattened
    <3>4. Len(FlattenSeq(gs)) = 4 * G
      BY <1>1, <1>6, <3>1, <3>3
    <3>5. \A g \in 1..G, k \in 1..4 : FlattenSeq(gs)[4 * (g - 1) + k] = group(g)[k]
      <4>1. SUFFICES ASSUME NEW g \in 1..G, NEW k \in 1..4
                     PROVE  FlattenSeq(gs)[4 * (g - 1) + k] = group(g)[k]
        BY Zenon
      <4>2. g \in 1..Len(gs) /\ k \in 1..Len(gs[g]) /\ gs[g] = group(g)
        BY <1>6, <3>2
      <4> QED
        BY <3>3, <4>2, Zenon
    <3> QED
      BY <3>3, <3>4, <3>5
  <2> QED
    BY <2>1, <2>2
<1> HIDE DEF flat, gs
<1>8. \A g \in 1..G : /\ flat[4 * g - 3] = Letter1(a(g))
                      /\ flat[4 * g - 2] = Letter2(a(g), b(g))
                      /\ flat[4 * g - 1] = IF 4 * g - 1 <= m THEN Letter3(b(g), c(g)) ELSE Pad
                      /\ flat[4 * g] = IF 4 * g <= m THEN Letter4(c(g)) ELSE Pad
  <2>1. SUFFICES ASSUME NEW g \in 1..G
                 PROVE  /\ flat[4 * g - 3] = group(g)[1] /\ flat[4 * g - 2] = group(g)[2]
                        /\ flat[4 * g - 1] = group(g)[3] /\ flat[4 * g] = group(g)[4]
    BY <1>3, Zenon
  <2>2. \A k \in 1..4 : flat[4 * (g - 1) + k] = group(g)[k]
    BY <1>7
  <2>3. /\ 4 * g - 3 = 4 * (g - 1) + 1 /\ 4 * g - 2 = 4 * (g - 1) + 2
        /\ 4 * g - 1 = 4 * (g - 1) + 3 /\ 4 * g = 4 * (g - 1) + 4
    OBVIOUS
  <2>4. 1 \in 1..4 /\ 2 \in 1..4 /\ 3 \in 1..4 /\ 4 \in 1..4
    OBVIOUS
  <2> QED
    BY <2>2, <2>3, <2>4, Zenon
<1>9. \A g \in 1..G : /\ Letter1(a(g)) \in 0..63 /\ Letter2(a(g), b(g)) \in 0..63
                      /\ Letter3(b(g), c(g)) \in 0..63 /\ Letter4(c(g)) \in 0..63
  BY <1>5, LetterRange, ZenonT(40)
<1>10. \A i \in 1..(4 * G) : flat[i] \in IF i <= m THEN 0..63 ELSE {Pad}
  <2>1. SUFFICES ASSUME NEW i \in 1..(4 * G)
                 PROVE  flat[i] \in IF i <= m THEN 0..63 ELSE {Pad}
    BY Zenon
  <2>2. PICK g \in 1..G : i = 4 * g - 3 \/ i = 4 * g - 2 \/ i = 4 * g - 1 \/ i = 4 * g
    <3>1. (i - 1) \div 4 + 1 \in 1..G
      BY <1>1
    <3> QED
      BY <1>1, <3>1
  <2>3. CASE i = 4 * g - 3
    <3>1. i <= m
      BY <1>1, <1>2, <2>3
    <3> QED
      BY <1>8, <1>9, <2>3, <3>1, Zenon
  <2>4. CASE i = 4 * g - 2
    <3>1. i <= m
      BY <1>1, <1>2, <2>4
    <3> QED
      BY <1>8, <1>9, <2>4, <3>1, Zenon
  <2>5. CASE i = 4 * g - 1
    <3>1. flat[i] = IF i <= m THEN Letter3(b(g), c(g)) ELSE Pad
      BY <1>8, <2>5, Zenon
    <3>2. Letter3(b(g), c(g)) \in 0..63
      BY <1>9, Zenon
    <3> QED
      BY <3>1, <3>2
  <2>6. CASE i = 4 * g
    <3>1. flat[i] = IF i <= m THEN Letter4(c(g)) ELSE Pad
      BY <1>8, <2>6, Zenon
    <3>2. Letter4(c(g)) \in 0..63
      BY <1>9, Zenon
    <3> QED
      BY <3>1, <3>2
  <2> QED
    BY <2>2, <2>3, <2>4, <2>5, <2>6
<1> DEFINE r == Encode(data)
<1>11. r = SubSeq(flat, 1, m)
  <2>1. flat \in Seq(Chars)
    <3>1. L \subseteq Chars
      BY DEF Chars, Pad
    <3> QED
      BY <1>7, <3>1, SeqMonotonic, ZenonT(40)
  <2>2. UrlSafe(Standard(flat)) = flat
    <3>1. UrlSafe(Standard(flat)) = UrlSafe(flat)
      BY <2>1, UrlSafeStandard
    <3>2. UrlSafe(flat) = flat
      BY <1>7, UrlSafeSame
    <3> QED
      BY <3>1, <3>2
  <2>3. r = Kept(flat, Chars \ {Pad})
    BY <1>4, <2>2, Zenon DEF Encode
  <2>4. Kept(flat, Chars \ {Pad}) = SubSeq(flat, 1, m)
    <3>1. m \in 0..Len(flat)
      BY <1>1, <1>7
    <3>2. ASSUME NEW i \in 1..m PROVE flat[i] \in Chars \ {Pad}
      <4>1. i \in 1..(4 * G) /\ i <= m
        BY <1>1
      <4>2. flat[i] \in 0..63
        BY <1>10, <4>1
      <4>3. \A d \in 0..63 : d \in Chars \ {Pad}
        BY DEF Chars, Pad
      <4> QED
        BY <4>2, <4>3, Zenon
    <3>3. ASSUME NEW i \in (m + 1)..Len(flat) PROVE flat[i] \notin Chars \ {Pad}
      <4>1. i \in 1..(4 * G) /\ ~(i <= m)
        BY <1>1, <1>7
      <4>2. flat[i] \in {Pad}
        BY <1>10, <4>1
      <4> QED
        BY <4>2
    <3>4. \A C : \A t \in Seq(Chars) : \A k \in 0..Len(t) :
             (\A i \in 1..k : t[i] \in C) /\ (\A i \in (k + 1)..Len(t) : t[i] \notin C)
             => Kept(t, C) = SubSeq(t, 1, k)
      BY KeptPrefix, Zenon
    <3> QED
      BY <2>1, <3>1, <3>2, <3>3, <3>4, Zenon
  <2> QED
    BY <2>3, <2>4
<1>12. /\ r \in Seq(0..63) /\ Len(r) = m
       /\ \A i \in 1..m : r[i] = flat[i]
  <2>1. \A i \in 1..m : flat[i] \in 0..63
    <3>1. \A i \in 1..m : i \in 1..(4 * G) /\ i <= m
      BY <1>1
    <3> QED
      BY <1>10, <3>1
  <2>2. /\ SubSeq(flat, 1, m) \in Seq(0..63) /\ Len(SubSeq(flat, 1, m)) = m
        /\ \A i \in 1..m : SubSeq(flat, 1, m)[i] = flat[i]
    BY <1>1, <1>7, <2>1
  <2> QED
    BY <1>11, <2>2, Zenon
<1> HIDE DEF r
<1>13. ASSUME NEW g \in 1..G
       PROVE  /\ r[4 * g - 3] = Letter1(a(g))
              /\ r[4 * g - 2] = Letter2(a(g), b(g))
              /\ 4 * g - 1 <= m => r[4 * g - 1] = Letter3(b(g), c(g))
              /\ 4 * g <= m => r[4 * g] = Letter4(c(g))
  <2>1. /\ 4 * g - 3 \in 1..m /\ 4 * g - 2 \in 1..m
        /\ 4 * g - 1 <= m => 4 * g - 1 \in 1..m
        /\ 4 * g <= m => 4 * g \in 1..m
    BY <1>1, <1>2
  <2> QED
    BY <1>8, <1>12, <2>1, Zenon
<1> QED
  BY <1>12, <1>13, Zenon DEF r, a, b, c, m, G, n

-----------------------------------------------------------------------------
(* Decoding, group by group. *)

\* The three octets of letters a, b, c and d.
Octet1(a, b) == a * 4 + b \div 16
Octet2(b, c) == (b % 16) * 16 + c \div 4
Octet3(c, d) == (c % 4) * 64 + d

\* They are octets.
LEMMA OctetRange ==
    ASSUME NEW x \in 0..63, NEW y \in 0..63
    PROVE  Octet1(x, y) \in 0..255 /\ Octet2(x, y) \in 0..255 /\ Octet3(x, y) \in 0..255
<1>1. Octet1(x, y) \in 0..255
  BY DEF Octet1
<1>2. Octet2(x, y) \in 0..255
  BY DEF Octet2
<1>3. Octet3(x, y) \in 0..255
  BY DEF Octet3
<1> QED
  BY <1>1, <1>2, <1>3

\* The decoder's table, line by line.
LEMMA ValueIs ==
    \A c : Value(c) = IF c \in 0..63 THEN c ELSE IF c = Plus THEN 62 ELSE IF c = Slash THEN 63
                     ELSE IF c = Pad THEN 0 ELSE -1
BY DEF Value, Plus, Slash, Pad

\* What has a value at all has a letter's.
LEMMA ValueRange ==
    /\ \A c : Value(c) >= 0 => Value(c) \in 0..63
    /\ \A c \in Chars : Value(c) >= 0 /\ c # Pad => UrlSafeChar(c) = Value(c)
<1>1. \A c : Value(c) >= 0 => Value(c) \in 0..63
  BY ValueIs
<1>2. \A c \in Chars : Value(c) >= 0 /\ c # Pad => UrlSafeChar(c) = Value(c)
  BY ValueIs DEF Chars, Plus, Slash, Pad, UrlSafeChar
<1> QED
  BY <1>1, <1>2

\* Tuples, put together.
LEMMA Tuples ==
    ASSUME NEW S, NEW x \in S, NEW y \in S, NEW z \in S
    PROVE  <<x>> \o <<y>> = <<x, y>> /\ <<x, y>> \o <<z>> = <<x, y, z>>
<1>1. <<x>> \o <<y>> = Append(<<x>>, y) /\ <<x, y>> \o <<z>> = Append(<<x, y>>, z)
  <2>1. <<x>> \in Seq(S) /\ <<x, y>> \in Seq(S)
    OBVIOUS
  <2> QED
    BY <2>1, AppendIsConcat
<1>2. Append(<<x>>, y) = <<x, y>> /\ Append(<<x, y>>, z) = <<x, y, z>>
  <2>1. Append(<<x>>, y) = <<x, y>>
    <3> DEFINE u == Append(<<x>>, y)
               v == <<x, y>>
    <3>1. u \in Seq(S) /\ Len(u) = 2 /\ u[1] = x /\ u[2] = y
      OBVIOUS
    <3>2. v \in Seq(S) /\ Len(v) = 2 /\ v[1] = x /\ v[2] = y
      OBVIOUS
    <3>3. \A i \in 1..2 : i = 1 \/ i = 2
      OBVIOUS
    <3> HIDE DEF u, v
    <3>4. \A i \in 1..Len(u) : u[i] = v[i]
      BY <3>1, <3>2, <3>3
    <3>5. u = v
      BY <3>1, <3>2, <3>4, SeqEqual
    <3> QED
      BY <3>5 DEF u, v
  <2>2. Append(<<x, y>>, z) = <<x, y, z>>
    <3> DEFINE u == Append(<<x, y>>, z)
               v == <<x, y, z>>
    <3>1. u \in Seq(S) /\ Len(u) = 3 /\ u[1] = x /\ u[2] = y /\ u[3] = z
      OBVIOUS
    <3>2. v \in Seq(S) /\ Len(v) = 3 /\ v[1] = x /\ v[2] = y /\ v[3] = z
      OBVIOUS
    <3>3. \A i \in 1..3 : i = 1 \/ i = 2 \/ i = 3
      OBVIOUS
    <3> HIDE DEF u, v
    <3>4. \A i \in 1..Len(u) : u[i] = v[i]
      BY <3>1, <3>2, <3>3
    <3>5. u = v
      BY <3>1, <3>2, <3>4, SeqEqual
    <3> QED
      BY <3>5 DEF u, v
  <2> QED
    BY <2>1, <2>2
<1> QED
  BY <1>1, <1>2

\* The octets of four characters, '=' at their end or not.
LEMMA DecodedGroupIs ==
    ASSUME NEW q \in Seq(Chars), Len(q) = 4, \A k \in 1..4 : Value(q[k]) >= 0,
           q[3] = Pad => q[4] = Pad
    PROVE  LET d == DecodedGroup(q)
               v(k) == Value(q[k])
           IN  /\ d \in Seq(0..255)
               /\ Len(d) = IF q[3] = Pad THEN 1 ELSE IF q[4] = Pad THEN 2 ELSE 3
               /\ d[1] = Octet1(v(1), v(2))
               /\ q[3] # Pad => d[2] = Octet2(v(2), v(3))
               /\ q[4] # Pad => d[3] = Octet3(v(3), v(4))
<1>1. PICK v1 \in 0..63, v2 \in 0..63, v3 \in 0..63, v4 \in 0..63 :
          v1 = Value(q[1]) /\ v2 = Value(q[2]) /\ v3 = Value(q[3]) /\ v4 = Value(q[4])
  <2>1. \A k \in 1..4 : Value(q[k]) \in 0..63
    BY ValueRange, Zenon
  <2>2. Value(q[1]) \in 0..63 /\ Value(q[2]) \in 0..63 /\ Value(q[3]) \in 0..63 /\ Value(q[4]) \in 0..63
    BY <2>1
  <2> QED
    BY <2>2, Zenon
<1> DEFINE x == Octet1(v1, v2)
           y == Octet2(v2, v3)
           z == Octet3(v3, v4)
           d == DecodedGroup(q)
           ys == IF q[3] = Pad THEN <<>> ELSE <<y>>
           zs == IF q[4] = Pad THEN <<>> ELSE <<z>>
<1>2. x \in 0..255 /\ y \in 0..255 /\ z \in 0..255
  BY <1>1, OctetRange, ZenonT(40)
<1>3. d = <<x>> \o ys \o zs
  <2> DEFINE v == [k \in 1..4 |-> Value(q[k])]
  <2>1. v[1] = v1 /\ v[2] = v2 /\ v[3] = v3 /\ v[4] = v4
    BY <1>1
  <2>2. d = <<v[1] * 4 + v[2] \div 16>>
             \o (IF q[3] = Pad THEN <<>> ELSE <<(v[2] % 16) * 16 + v[3] \div 4>>)
             \o (IF q[4] = Pad THEN <<>> ELSE <<(v[3] % 4) * 64 + v[4]>>)
    BY Zenon DEF DecodedGroup
  <2> HIDE DEF v
  <2> QED
    BY <2>1, <2>2, Zenon DEF Octet1, Octet2, Octet3
<1> HIDE DEF x, y, z, d
<1>4. CASE q[3] = Pad
  <2>1. d = <<x>>
    <3>1. d = <<x>> \o <<>> \o <<>>
      BY <1>3, <1>4, Zenon
    <3>2. <<x>> \o <<>> = <<x>>
      BY ConcatEmptySeq, <1>2
    <3> QED
      BY <3>1, <3>2, Zenon
  <2>2. d \in Seq(0..255) /\ Len(d) = 1 /\ d[1] = x
    BY <1>2, <2>1
  <2> QED
    BY <1>1, <1>4, <2>2, Zenon DEF d, x
<1>5. CASE q[3] # Pad /\ q[4] = Pad
  <2>1. d = <<x, y>>
    <3>1. d = <<x>> \o <<y>> \o <<>>
      BY <1>3, <1>5, Zenon
    <3>2. <<x>> \o <<y>> = <<x, y>> /\ <<x, y>> \o <<z>> = <<x, y, z>>
      BY <1>2, Tuples, ZenonT(40)
    <3>3. <<x, y>> \o <<>> = <<x, y>>
      BY ConcatEmptySeq, <1>2
    <3> QED
      BY <3>1, <3>2, <3>3, Zenon
  <2>2. d \in Seq(0..255) /\ Len(d) = 2 /\ d[1] = x /\ d[2] = y
    BY <1>2, <2>1
  <2> QED
    BY <1>1, <1>5, <2>2, Zenon DEF d, x, y
<1>6. CASE q[3] # Pad /\ q[4] # Pad
  <2>1. d = <<x, y, z>>
    <3>1. d = <<x>> \o <<y>> \o <<z>>
      BY <1>3, <1>6, Zenon
    <3>2. <<x>> \o <<y>> = <<x, y>> /\ <<x, y>> \o <<z>> = <<x, y, z>>
      BY <1>2, Tuples, ZenonT(40)
    <3> QED
      BY <3>1, <3>2, Zenon
  <2>2. d \in Seq(0..255) /\ Len(d) = 3 /\ d[1] = x /\ d[2] = y /\ d[3] = z
    BY <1>2, <2>1
  <2> QED
    BY <1>1, <1>6, <2>2, Zenon DEF d, x, y, z
<1> QED
  BY <1>4, <1>5, <1>6

\* The '=' that complete a text.
Pads(t) == [i \in 1..((4 - (Len(t) % 4)) % 4) |-> Pad]

\* How a text is completed.
LEMMA PadsType ==
    ASSUME NEW t \in Seq(Chars)
    PROVE  /\ Pads(t) \in Seq(Chars) /\ Len(Pads(t)) = (4 - (Len(t) % 4)) % 4
           /\ \A i \in 1..Len(Pads(t)) : Pads(t)[i] = Pad
           /\ Completed(t) = Standard(t) \o Pads(t)
           /\ Completed(t) \in Seq(Chars)
<1> DEFINE n == (4 - (Len(t) % 4)) % 4
<1>1. Len(t) \in Nat
  BY LenProperties
<1>2. n \in Nat
  BY <1>1
<1> HIDE DEF n
<1>3. Pads(t) = [i \in 1..n |-> Pad]
  BY Zenon DEF Pads, n
<1>4. Pad \in Chars
  BY DEF Pad, Chars
<1>5. Pads(t) \in Seq(Chars) /\ Len(Pads(t)) = n /\ \A i \in 1..n : Pads(t)[i] = Pad
  BY <1>2, <1>3, <1>4
<1>6. Completed(t) = Standard(t) \o Pads(t)
  BY Zenon DEF Completed, Pads
<1>7. Standard(t) \in Seq(Chars)
  BY StandardType
<1>8. Standard(t) \o Pads(t) \in Seq(Chars)
  BY <1>5, <1>7, ConcatProperties
<1> QED
  BY <1>5, <1>6, <1>8, Zenon DEF n

\* What the decoder looks at is a text.
LEMMA CleanedType ==
    ASSUME NEW t \in Seq(Chars)
    PROVE  Cleaned(Completed(t)) \in Seq(Chars)
<1>1. Cleaned(Completed(t)) \in Seq(Chars \cap (Chars \ {Space}))
  BY PadsType, KeptType DEF Cleaned
<1>2. Chars \cap (Chars \ {Space}) \subseteq Chars
  OBVIOUS
<1> QED
  BY <1>1, <1>2, SeqMonotonic

\* The letters of a text are those the decoder finds.
LEMMA LettersFound ==
    ASSUME NEW t \in Seq(Chars)
    PROVE  Letters(t) = UrlSafe(Kept(Cleaned(Completed(t)), Chars \ {Pad}))
<1> DEFINE C == Chars \ {Space, Pad}
           S == Standard(t)
           P == Pads(t)
           K == Kept(t, C)
<1>1. S \in Seq(Chars) /\ P \in Seq(Chars) /\ Completed(t) = S \o P /\ S \o P \in Seq(Chars)
  BY StandardType, PadsType
<1>2. Kept(Cleaned(Completed(t)), Chars \ {Pad}) = Kept(S \o P, (Chars \ {Space}) \cap (Chars \ {Pad}))
  <2>1. \A u \in Seq(Chars) :
           Kept(Kept(u, Chars \ {Space}), Chars \ {Pad}) = Kept(u, (Chars \ {Space}) \cap (Chars \ {Pad}))
    BY KeptTwice
  <2> HIDE DEF S, P
  <2> QED
    BY <1>1, <2>1, Zenon DEF Cleaned
<1>3. (Chars \ {Space}) \cap (Chars \ {Pad}) = C
  OBVIOUS
<1>4. Kept(P, C) = <<>>
  <2>1. \A i \in 1..Len(P) : P[i] \notin C
    BY PadsType
  <2>2. Len(P) \in Nat
    BY <1>1, LenProperties
  <2> HIDE DEF P, C
  <2>3. \A u \in Seq(Chars) : \A m \in 0..Len(u) :
             (\A i \in 1..m : u[i] \in C) /\ (\A i \in (m + 1)..Len(u) : u[i] \notin C)
             => Kept(u, C) = SubSeq(u, 1, m)
    BY KeptPrefix, ZenonT(40)
  <2>4. (\A i \in 1..0 : P[i] \in C) /\ (\A i \in (0 + 1)..Len(P) : P[i] \notin C) /\ 0 \in 0..Len(P)
    BY <2>1, <2>2
  <2>5. Kept(P, C) = SubSeq(P, 1, 0)
    BY <1>1, <2>3, <2>4, Zenon
  <2> QED
    BY <2>5, SubSeqEmpty
<1>5. Kept(S, C) = Standard(K)
  <2>1. \A c \in Chars : c \in C <=> StandardChar(c) \in C
    BY DEF StandardChar, Chars, Space, Pad, Plus, Slash
  <2> HIDE DEF C
  <2> QED
    BY <2>1, KeptStandard
<1>6. K \in Seq(Chars)
  <2> HIDE DEF C
  <2>1. K \in Seq(Chars \cap C)
    BY KeptType
  <2> QED
    BY <2>1, SeqMonotonic
<1>7. Standard(K) \in Seq(Chars)
  <2> HIDE DEF K
  <2> QED
    BY <1>6, StandardType
<1>8. Kept(S \o P, C) = Standard(K)
  <2> HIDE DEF S, P, C, K
  <2>1. \A u, v \in Seq(Chars) : Kept(u \o v, C) = Kept(u, C) \o Kept(v, C)
    BY KeptConcat, Zenon
  <2>2. Kept(S \o P, C) = Standard(K) \o <<>>
    BY <1>1, <1>4, <1>5, <2>1, Zenon
  <2> QED
    BY <1>7, <2>2, ConcatEmptySeq
<1>9. UrlSafe(Standard(K)) = UrlSafe(K)
  <2> HIDE DEF K
  <2> QED
    BY <1>6, UrlSafeStandard
<1>10. Letters(t) = UrlSafe(K)
  BY Zenon DEF Letters
<1> QED
  BY <1>2, <1>3, <1>8, <1>9, <1>10, Zenon

-----------------------------------------------------------------------------
(* Decoding: the whole text. *)

\* The decoder accepts the text, and no '=' is out of place.
WellFormed(t) ==
    LET c == Cleaned(Completed(t))
    IN  Len(c) % 4 = 0 /\ (\A i \in DOMAIN c : Value(c[i]) >= 0) /\ ~MisplacedPad(t)

\* The letters s, in N groups of which the last lacks p, stand for the octets d.
Reads(s, d, N, p) ==
    /\ N \in Nat /\ p \in 0..2 /\ (N = 0 => p = 0)
    /\ s \in Seq(0..63) /\ Len(s) = 4 * N - p
    /\ d \in Seq(0..255) /\ Len(d) = 3 * N - p
    /\ \A g \in 1..N : /\ d[3 * g - 2] = Octet1(s[4 * g - 3], s[4 * g - 2])
                       /\ 3 * g - 1 <= 3 * N - p => d[3 * g - 1] = Octet2(s[4 * g - 2], s[4 * g - 1])
                       /\ 3 * g <= 3 * N - p => d[3 * g] = Octet3(s[4 * g - 1], s[4 * g])

\* A function on 1..n is a sequence.
LEMMA IsSequence ==
    ASSUME NEW S, NEW n \in Nat, NEW f, f = [i \in 1..n |-> f[i]], \A i \in 1..n : f[i] \in S
    PROVE  f \in Seq(S)
OBVIOUS

\* '=' that is not misplaced stands at the end, twice at most.
LEMMA PadsLast ==
    ASSUME NEW c \in Seq(Chars), NEW N \in Nat, Len(c) = 4 * N,
           \A i \in 1..Len(c) : c[i] = Pad => i >= Len(c) - 1 /\ (i = Len(c) - 1 => c[i + 1] = Pad)
    PROVE  \E p \in 0..2 : (N = 0 => p = 0) /\ \A i \in 1..(4 * N) : c[i] = Pad <=> i > 4 * N - p
<1>1. CASE N = 0
  <2>1. (N = 0 => 0 = 0) /\ \A i \in 1..(4 * N) : c[i] = Pad <=> i > 4 * N - 0
    BY <1>1
  <2> QED
    BY <2>1
<1>2. CASE N # 0
  <2> DEFINE n == 4 * N
  <2>1. n \in Nat /\ n - 1 \in 1..n /\ n \in 1..n /\ (n - 1) + 1 = n
    BY <1>2
  <2>2. \A i \in 1..n : c[i] = Pad => i >= n - 1 /\ (i = n - 1 => c[n] = Pad)
    BY <2>1
  <2> HIDE DEF n
  <2>3. ASSUME c[n - 1] = Pad PROVE \A i \in 1..n : c[i] = Pad <=> i > n - 2
    BY <2>1, <2>2, <2>3
  <2>4. ASSUME c[n - 1] # Pad, c[n] = Pad PROVE \A i \in 1..n : c[i] = Pad <=> i > n - 1
    BY <2>1, <2>2, <2>4
  <2>5. ASSUME c[n - 1] # Pad, c[n] # Pad PROVE \A i \in 1..n : c[i] = Pad <=> i > n - 0
    BY <2>1, <2>2, <2>5
  <2>6. \E p \in 0..2 : \A i \in 1..n : c[i] = Pad <=> i > n - p
    BY <2>3, <2>4, <2>5
  <2> QED
    BY <1>2, <2>6 DEF n
<1> QED
  BY <1>1, <1>2

\* c is N groups of four characters, of which just the last p are '='.
Groups(c, N, p) ==
    /\ c \in Seq(Chars) /\ N \in Nat /\ p \in 0..2 /\ Len(c) = 4 * N
    /\ \A i \in 1..(4 * N) : Value(c[i]) >= 0 /\ (c[i] = Pad <=> i > 4 * N - p)

\* The octets e are what stands in the g-th of N groups of four characters, of
\* which the last p characters are '='.
GroupRead(e, c, N, p, g) ==
    /\ e \in Seq(0..255)
    /\ Len(e) = IF g = N THEN 3 - p ELSE 3
    /\ e[1] = Octet1(Value(c[4 * g - 3]), Value(c[4 * g - 2]))
    /\ 3 * g - 1 <= 3 * N - p => e[2] = Octet2(Value(c[4 * g - 2]), Value(c[4 * g - 1]))
    /\ 3 * g <= 3 * N - p => e[3] = Octet3(Value(c[4 * g - 1]), Value(c[4 * g]))

\* The octets of the g-th four characters.
LEMMA TextGroup ==
    ASSUME NEW c, NEW N, NEW p, Groups(c, N, p), NEW g \in 1..N
    PROVE  GroupRead(DecodedGroup(SubSeq(c, 4 * g - 3, 4 * g)), c, N, p, g)
<1> DEFINE q == SubSeq(c, 4 * g - 3, 4 * g)
           d == DecodedGroup(q)
<1>0. /\ c \in Seq(Chars) /\ N \in Nat /\ p \in 0..2 /\ Len(c) = 4 * N
      /\ \A i \in 1..(4 * N) : Value(c[i]) >= 0 /\ (c[i] = Pad <=> i > 4 * N - p)
  BY DEF Groups
<1>1. /\ q \in Seq(Chars) /\ Len(q) = 4
      /\ q[1] = c[4 * g - 3] /\ q[2] = c[4 * g - 2] /\ q[3] = c[4 * g - 1] /\ q[4] = c[4 * g]
  <2>0. PICK a \in Int, b \in Int : a = 4 * g - 3 /\ b = 4 * g
    BY <1>0
  <2>1. a \in Int /\ b \in Int /\ a <= b /\ b - a + 1 = 4 /\ a + 1 - 1 = 4 * g - 3
        /\ a + 2 - 1 = 4 * g - 2 /\ a + 3 - 1 = 4 * g - 1 /\ a + 4 - 1 = 4 * g
    BY <1>0, <2>0
  <2>2. \A i \in a..b : c[i] \in Chars
    <3>1. \A i \in a..b : i \in 1..Len(c)
      BY <1>0, <2>0
    <3> QED
      BY <1>0, <3>1, ElementOfSeq
  <2>3. /\ SubSeq(c, a, b) \in Seq(Chars) /\ Len(SubSeq(c, a, b)) = IF a <= b THEN b - a + 1 ELSE 0
        /\ \A i \in 1..(b - a + 1) : SubSeq(c, a, b)[i] = c[a + i - 1]
    BY <1>0, <2>1, <2>2, SubSeqProperties
  <2>4. q = SubSeq(c, a, b)
    BY <2>0
  <2> HIDE DEF q
  <2>5. q \in Seq(Chars) /\ Len(q) = 4 /\ \A i \in 1..4 : q[i] = c[a + i - 1]
    BY <2>1, <2>3, <2>4
  <2>6. q[1] = c[a + 1 - 1] /\ q[2] = c[a + 2 - 1] /\ q[3] = c[a + 3 - 1] /\ q[4] = c[a + 4 - 1]
    BY <2>5
  <2> QED
    BY <2>1, <2>5, <2>6, Zenon
<1>2. /\ 4 * g - 3 \in 1..(4 * N) /\ 4 * g - 2 \in 1..(4 * N)
      /\ 4 * g - 1 \in 1..(4 * N) /\ 4 * g \in 1..(4 * N)
  BY <1>0
<1> HIDE DEF q
<1>3. /\ Value(q[1]) >= 0 /\ Value(q[2]) >= 0 /\ Value(q[3]) >= 0 /\ Value(q[4]) >= 0
      /\ q[3] = Pad <=> 4 * g - 1 > 4 * N - p
      /\ q[4] = Pad <=> 4 * g > 4 * N - p
  BY <1>0, <1>1, <1>2, Zenon
<1>4. \A k \in 1..4 : Value(q[k]) >= 0
  <2>1. \A k \in 1..4 : k = 1 \/ k = 2 \/ k = 3 \/ k = 4
    OBVIOUS
  <2> QED
    BY <1>3, <2>1, Zenon
<1>5. q[3] = Pad => q[4] = Pad
  BY <1>0, <1>3
<1>6. /\ d \in Seq(0..255)
      /\ Len(d) = IF q[3] = Pad THEN 1 ELSE IF q[4] = Pad THEN 2 ELSE 3
      /\ d[1] = Octet1(Value(q[1]), Value(q[2]))
      /\ q[3] # Pad => d[2] = Octet2(Value(q[2]), Value(q[3]))
      /\ q[4] # Pad => d[3] = Octet3(Value(q[3]), Value(q[4]))
  BY <1>1, <1>4, <1>5, DecodedGroupIs
<1> HIDE DEF d
<1>7. Len(d) = IF g = N THEN 3 - p ELSE 3
  BY <1>0, <1>3, <1>6
<1>8. /\ 3 * g - 1 <= 3 * N - p => q[3] # Pad
      /\ 3 * g <= 3 * N - p => q[4] # Pad
  BY <1>0, <1>3, SMTT(30)
<1>9. /\ d[1] = Octet1(Value(c[4 * g - 3]), Value(c[4 * g - 2]))
      /\ 3 * g - 1 <= 3 * N - p => d[2] = Octet2(Value(c[4 * g - 2]), Value(c[4 * g - 1]))
      /\ 3 * g <= 3 * N - p => d[3] = Octet3(Value(c[4 * g - 1]), Value(c[4 * g]))
  BY <1>1, <1>6, <1>8, Zenon
<1> QED
  BY <1>6, <1>7, <1>9, Zenon DEF d, q, GroupRead

\* A text is read as its letters say.
LEMMA TextRead ==
    ASSUME NEW t \in Seq(Chars), WellFormed(t)
    PROVE  \E N, p : Reads(Letters(t), Decode(t), N, p)
<1> DEFINE c == Cleaned(Completed(t))
           n == Len(c)
           N == n \div 4
<1>1. c \in Seq(Chars) /\ n \in Nat /\ DOMAIN c = 1..n
  BY CleanedType, LenProperties
<1>2. n % 4 = 0 /\ \A i \in 1..n : Value(c[i]) >= 0
  BY <1>1, Zenon DEF WellFormed
<1>3. \A i \in 1..n : c[i] = Pad => i >= n - 1 /\ (i = n - 1 => c[i + 1] = Pad)
  <2>1. ~(\E i \in 1..n : c[i] = Pad /\ (i < n - 1 \/ (i = n - 1 /\ c[i + 1] # Pad)))
    BY <1>1, Zenon DEF WellFormed, MisplacedPad
  <2> HIDE DEF c, n
  <2> QED
    BY <1>1, <2>1
<1>4. Decode(t) = FlattenSeq([g \in 1..N |-> DecodedGroup(SubSeq(c, 4 * g - 3, 4 * g))])
  <2>1. ~(n % 4 # 0 \/ \E i \in DOMAIN c : Value(c[i]) < 0)
    <3>1. \A i \in 1..n : ~(Value(c[i]) < 0)
      <4>1. \A x : x >= 0 /\ x \in 0..63 => ~(x < 0)
        OBVIOUS
      <4> HIDE DEF c, n
      <4> QED
        BY <1>2, <4>1, ValueRange, Zenon
    <3> HIDE DEF c, n
    <3> QED
      BY <1>1, <1>2, <3>1, Zenon
  <2> QED
    BY <2>1, Zenon DEF Decode, Base64Decode
<1>5. Letters(t) = UrlSafe(Kept(c, Chars \ {Pad}))
  BY LettersFound
<1> HIDE DEF c
<1>6. N \in Nat /\ n = 4 * N
  <2> HIDE DEF n
  <2> QED
    BY <1>1, <1>2
<1> HIDE DEF n, N
<1>7. PICK p \in 0..2 : (N = 0 => p = 0) /\ \A i \in 1..(4 * N) : c[i] = Pad <=> i > 4 * N - p
  <2>1. Len(c) = 4 * N /\ \A i \in 1..Len(c) : c[i] = Pad => i >= Len(c) - 1 /\ (i = Len(c) - 1 => c[i + 1] = Pad)
    BY <1>3, <1>6 DEF n
  <2> QED
    BY <1>1, <1>6, <2>1, PadsLast
<1> DEFINE m == 4 * N - p
           s == Letters(t)
<1>8. m \in 0..n
  BY <1>6, <1>7
<1>9. Kept(c, Chars \ {Pad}) = SubSeq(c, 1, m)
  <2>1. ASSUME NEW i \in 1..m PROVE c[i] \in Chars \ {Pad}
    <3>1. i \in 1..(4 * N) /\ ~(i > 4 * N - p) /\ i \in 1..n
      BY <1>6, <1>7
    <3>2. c[i] \in Chars
      BY <1>1, <3>1, ElementOfSeq DEF n
    <3> QED
      BY <1>7, <3>1, <3>2
  <2>2. ASSUME NEW i \in (m + 1)..n PROVE c[i] \notin Chars \ {Pad}
    <3>1. i \in 1..(4 * N) /\ i > 4 * N - p
      BY <1>6, <1>7
    <3> QED
      BY <1>7, <3>1
  <2>3. \A C : \A u \in Seq(Chars) : \A k \in 0..Len(u) :
           (\A i \in 1..k : u[i] \in C) /\ (\A i \in (k + 1)..Len(u) : u[i] \notin C)
           => Kept(u, C) = SubSeq(u, 1, k)
    BY KeptPrefix, Zenon
  <2> HIDE DEF m
  <2> QED
    BY <1>1, <1>8, <2>1, <2>2, <2>3, Zenon DEF n
<1>10. /\ s \in Seq(0..63) /\ Len(s) = m
       /\ \A i \in 1..m : s[i] = Value(c[i])
  <2> DEFINE u == SubSeq(c, 1, m)
  <2>1. u \in Seq(Chars) /\ Len(u) = m /\ \A i \in 1..m : u[i] = c[i]
    <3> HIDE DEF m
    <3> QED
      BY <1>1, <1>8 DEF n
  <2>2. s = UrlSafe(u)
    BY <1>5, <1>9, Zenon
  <2> HIDE DEF u, s
  <2>3. s \in Seq(Chars) /\ Len(s) = m /\ \A i \in 1..m : s[i] = UrlSafeChar(u[i])
    BY <2>1, <2>2, UrlSafeType
  <2>4. ASSUME NEW i \in 1..m PROVE s[i] = Value(c[i]) /\ Value(c[i]) \in 0..63
    <3>1. i \in 1..(4 * N) /\ ~(i > 4 * N - p) /\ i \in 1..n
      BY <1>6, <1>7
    <3>2. c[i] \in Chars
      BY <1>1, <3>1, ElementOfSeq DEF n
    <3>3. c[i] # Pad /\ Value(c[i]) >= 0
      BY <1>2, <1>7, <3>1
    <3>4. s[i] = UrlSafeChar(c[i])
      BY <2>1, <2>3, Zenon
    <3> QED
      BY <3>2, <3>3, <3>4, ValueRange, Zenon
  <2>5. m \in Nat
    BY <1>6, <1>8
  <2> HIDE DEF m
  <2>6. s \in Seq(0..63)
    <3>1. s = [i \in 1..m |-> s[i]]
      BY <2>3, LenProperties
    <3>2. \A i \in 1..m : s[i] \in 0..63
      BY <2>4
    <3> QED
      BY <2>5, <3>1, <3>2, IsSequence
  <2> QED
    BY <2>3, <2>4, <2>6
<1> DEFINE gs == [g \in 1..N |-> DecodedGroup(SubSeq(c, 4 * g - 3, 4 * g))]
           d == FlattenSeq(gs)
<1>11. \A g \in 1..N :
         /\ gs[g] \in Seq(0..255)
         /\ Len(gs[g]) = IF g = N THEN 3 - p ELSE 3
         /\ gs[g][1] = Octet1(Value(c[4 * g - 3]), Value(c[4 * g - 2]))
         /\ 3 * g - 1 <= 3 * N - p => gs[g][2] = Octet2(Value(c[4 * g - 2]), Value(c[4 * g - 1]))
         /\ 3 * g <= 3 * N - p => gs[g][3] = Octet3(Value(c[4 * g - 1]), Value(c[4 * g]))
  <2>1. Groups(c, N, p)
    BY <1>1, <1>2, <1>6, <1>7, Zenon DEF n, Groups
  <2>2. ASSUME NEW g \in 1..N PROVE GroupRead(DecodedGroup(SubSeq(c, 4 * g - 3, 4 * g)), c, N, p, g)
    BY <2>1, TextGroup, Zenon
  <2>3. \A g \in 1..N : gs[g] = DecodedGroup(SubSeq(c, 4 * g - 3, 4 * g))
    OBVIOUS
  <2> HIDE DEF gs
  <2> QED
    <3>1. \A g \in 1..N : GroupRead(gs[g], c, N, p, g)
      BY <2>2, <2>3, Zenon
    <3> QED
      BY <3>1, Zenon DEF GroupRead
<1>12. gs \in Seq(Seq(0..255)) /\ Len(gs) = N
  <2>1. gs = [g \in 1..N |-> gs[g]] /\ Len(gs) = N
    BY <1>6
  <2>2. \A g \in 1..N : gs[g] \in Seq(0..255)
    BY <1>11, Zenon
  <2> HIDE DEF gs
  <2>3. gs \in Seq(Seq(0..255))
    BY <1>6, <2>1, <2>2, IsSequence
  <2> QED
    BY <2>1, <2>3
<1>13. d \in Seq(0..255) /\ Len(d) = 3 * N - p
       /\ \A g \in 1..N : \A k \in 1..Len(gs[g]) : d[3 * (g - 1) + k] = gs[g][k]
  <2> HIDE DEF gs
  <2>1. CASE N = 0
    <3>1. Len(gs) = 0 /\ gs = <<>>
      BY <1>12, <2>1, EmptySeq
    <3>2. d = <<>>
      BY <3>1, Zenon DEF FlattenSeq
    <3> HIDE DEF d
    <3>3. d \in Seq(0..255) /\ Len(d) = 0
      BY <3>2, EmptySeq
    <3>4. Len(d) = 3 * N - p
      <4>1. p = 0
        BY <1>7, <2>1
      <4> QED
        BY <2>1, <3>3, <4>1
    <3>5. \A g \in 1..N : FALSE
      BY <2>1
    <3> QED
      BY <3>3, <3>4, <3>5, Zenon
  <2>2. CASE N # 0
    <3>1. N \in 1..N /\ \A g \in 1..(N - 1) : g \in 1..N /\ g # N
      BY <1>6, <2>2
    <3>2. Len(gs[N]) = 3 - p /\ \A g \in 1..(N - 1) : Len(gs[g]) = 3
      BY <1>11, <3>1, Zenon
    <3>3. Uniform(gs, 3)
      <4>1. 3 - p <= 3
        BY <1>7
      <4> QED
        BY <1>12, <2>2, <3>2, <4>1, Zenon DEF Uniform
    <3>4. \A u \in Seq(Seq(0..255)) : Uniform(u, 3) => Flattened(u, 3, 0..255)
      BY FlattenUniform
    <3>5. Flattened(gs, 3, 0..255)
      BY <1>12, <3>3, <3>4, Zenon
    <3>6. /\ d \in Seq(0..255) /\ Len(d) = 3 * (N - 1) + Len(gs[N])
          /\ \A g \in 1..N : \A k \in 1..Len(gs[g]) : d[3 * (g - 1) + k] = gs[g][k]
      BY <1>12, <3>5, Zenon DEF Flattened
    <3>7. 3 * (N - 1) + (3 - p) = 3 * N - p
      BY <1>6, <1>7
    <3> QED
      BY <3>2, <3>6, <3>7, Zenon
  <2> QED
    BY <2>1, <2>2
<1> HIDE DEF gs, d, s, m
<1>14. ASSUME NEW g \in 1..N
       PROVE  /\ d[3 * g - 2] = Octet1(s[4 * g - 3], s[4 * g - 2])
              /\ 3 * g - 1 <= 3 * N - p => d[3 * g - 1] = Octet2(s[4 * g - 2], s[4 * g - 1])
              /\ 3 * g <= 3 * N - p => d[3 * g] = Octet3(s[4 * g - 1], s[4 * g])
  <2>1. /\ 3 * g - 2 = 3 * (g - 1) + 1 /\ 3 * g - 1 = 3 * (g - 1) + 2 /\ 3 * g = 3 * (g - 1) + 3
        /\ 4 * g - 3 \in 1..m /\ 4 * g - 2 \in 1..m
        /\ 3 * g - 1 <= 3 * N - p => 4 * g - 1 \in 1..m
        /\ 3 * g <= 3 * N - p => 4 * g - 1 \in 1..m /\ 4 * g \in 1..m
    BY <1>6, <1>7 DEF m
  <2>2. Len(gs[g]) = IF g = N THEN 3 - p ELSE 3
    BY <1>11
  <2>3. /\ 1 \in 1..Len(gs[g])
        /\ 3 * g - 1 <= 3 * N - p => 2 \in 1..Len(gs[g])
        /\ 3 * g <= 3 * N - p => 3 \in 1..Len(gs[g])
    BY <1>6, <1>7, <2>2
  <2>4. /\ d[3 * g - 2] = gs[g][1]
        /\ 3 * g - 1 <= 3 * N - p => d[3 * g - 1] = gs[g][2]
        /\ 3 * g <= 3 * N - p => d[3 * g] = gs[g][3]
    BY <1>13, <2>1, <2>3, ZenonT(40)
  <2> QED
    BY <1>10, <1>11, <2>1, <2>4, Zenon
<1>15. Reads(s, d, N, p)
  BY <1>6, <1>7, <1>10, <1>13, <1>14, Zenon DEF Reads, m
<1>16. Decode(t) = d
  BY <1>4, Zenon DEF d, gs
<1> QED
  BY <1>15, <1>16, Zenon DEF s

-----------------------------------------------------------------------------
(* Letters and octets. *)

\* As many octets, as many letters.
LEMMA LengthsAgree ==
    ASSUME NEW n \in Nat, NEW N \in Nat, NEW p \in 0..2, N = 0 => p = 0
    PROVE  /\ 4 * N - p = LettersOf(n) <=> 3 * N - p = n
           /\ 3 * N - p = n => /\ (n + 2) \div 3 = N
                               /\ n % 3 = (IF p = 0 THEN 0 ELSE 3 - p)
<1> DEFINE q == n \div 3
           d == n % 3
<1>1. q \in Nat /\ d \in 0..2 /\ n = 3 * q + d
  OBVIOUS
<1>2. LettersOf(n) = 4 * q + (IF d = 0 THEN 0 ELSE d + 1)
  BY DEF LettersOf
<1>3. (n + 2) \div 3 = IF d = 0 THEN q ELSE q + 1
  OBVIOUS
<1> HIDE DEF q, d
<1>4. 4 * N - p = LettersOf(n) <=> 3 * N - p = n
  BY <1>1, <1>2
<1>5. 3 * N - p = n => /\ (n + 2) \div 3 = N
                       /\ d = (IF p = 0 THEN 0 ELSE 3 - p)
  BY <1>1, <1>3
<1> QED
  BY <1>4, <1>5 DEF d

\* The last letter counts by the bits of it that are used.
UnitOf(n) == CASE n % 3 = 1 -> 16 [] n % 3 = 2 -> 4 [] OTHER -> 1

\* Two texts say the same at a place,
AgreeAt(s, r, u, i) == IF i < Len(s) THEN s[i] = r[i] ELSE s[i] \div u = r[i] \div u

\* in the g-th four letters,
GroupLetters(s, r, u, g) ==
    /\ AgreeAt(s, r, u, 4 * g - 3) /\ AgreeAt(s, r, u, 4 * g - 2)
    /\ 4 * g - 1 <= Len(s) => AgreeAt(s, r, u, 4 * g - 1)
    /\ 4 * g <= Len(s) => AgreeAt(s, r, u, 4 * g)

\* or two contents in the g-th three octets.
GroupOctets(d, data, g) ==
    /\ d[3 * g - 2] = data[3 * g - 2]
    /\ 3 * g - 1 <= Len(d) => d[3 * g - 1] = data[3 * g - 1]
    /\ 3 * g <= Len(d) => d[3 * g] = data[3 * g]

\* A group has the octets of the content just when it has its letters.
LEMMA GroupSame ==
    ASSUME NEW s, NEW d, NEW N, NEW p, Reads(s, d, N, p),
           NEW data \in Seq(0..255), Len(data) = Len(d), NEW g \in 1..N
    PROVE  GroupOctets(d, data, g) <=> GroupLetters(s, Encode(data), UnitOf(Len(data)), g)
<1> DEFINE n == Len(data)
           r == Encode(data)
           u == UnitOf(n)
           a == OctetAt(data, 3 * g - 2)
           b == OctetAt(data, 3 * g - 1)
           c == OctetAt(data, 3 * g)
           x1 == s[4 * g - 3]
           x2 == s[4 * g - 2]
           x3 == s[4 * g - 1]
           x4 == s[4 * g]
<1>1. /\ N \in Nat /\ p \in 0..2 /\ (N = 0 => p = 0)
      /\ s \in Seq(0..63) /\ Len(s) = 4 * N - p
      /\ d \in Seq(0..255) /\ n = 3 * N - p
      /\ d[3 * g - 2] = Octet1(x1, x2)
      /\ 3 * g - 1 <= n => d[3 * g - 1] = Octet2(x2, x3)
      /\ 3 * g <= n => d[3 * g] = Octet3(x3, x4)
  BY Zenon DEF Reads
<1>2. n \in Nat
  BY LenProperties
<1>3. /\ (n + 2) \div 3 = N /\ LettersOf(n) = 4 * N - p
      /\ n % 3 = (IF p = 0 THEN 0 ELSE 3 - p)
  <2> HIDE DEF n
  <2> QED
    BY <1>1, <1>2, LengthsAgree, ZenonT(40)
<1>4. u = IF p = 0 THEN 1 ELSE IF p = 1 THEN 4 ELSE 16
  <2> HIDE DEF n
  <2> DEFINE e == n % 3
  <2>0. p \in 0..2 /\ e = (IF p = 0 THEN 0 ELSE 3 - p)
    BY <1>1, <1>3, Zenon
  <2> HIDE DEF e
  <2>a. e = 1 <=> p = 2
    BY <2>0
  <2>b. e = 2 <=> p = 1
    BY <2>0
  <2>1. n % 3 = 1 <=> p = 2
    BY <2>a DEF e
  <2>2. n % 3 = 2 <=> p = 1
    BY <2>b DEF e
  <2>3. u = IF n % 3 = 1 THEN 16 ELSE IF n % 3 = 2 THEN 4 ELSE 1
    BY DEF UnitOf
  <2> HIDE DEF u
  <2> QED
    BY <1>1, <2>1, <2>2, <2>3
<1>5. /\ r \in Seq(0..63) /\ Len(r) = 4 * N - p
      /\ r[4 * g - 3] = Letter1(a) /\ r[4 * g - 2] = Letter2(a, b)
      /\ 4 * g - 1 <= 4 * N - p => r[4 * g - 1] = Letter3(b, c)
      /\ 4 * g <= 4 * N - p => r[4 * g] = Letter4(c)
  <2>1. LET m == LettersOf(n)
        IN  /\ r \in Seq(0..63) /\ Len(r) = m
            /\ \A h \in 1..((n + 2) \div 3) :
                 /\ r[4 * h - 3] = Letter1(OctetAt(data, 3 * h - 2))
                 /\ r[4 * h - 2] = Letter2(OctetAt(data, 3 * h - 2), OctetAt(data, 3 * h - 1))
                 /\ 4 * h - 1 <= m => r[4 * h - 1] = Letter3(OctetAt(data, 3 * h - 1), OctetAt(data, 3 * h))
                 /\ 4 * h <= m => r[4 * h] = Letter4(OctetAt(data, 3 * h))
    BY EncodedText, Zenon
  <2> HIDE DEF r, n
  <2> QED
    BY <1>3, <2>1, Zenon
<1>6. a \in 0..255 /\ b \in 0..255 /\ c \in 0..255
  BY OctRange, Zenon
<1>7. /\ a = data[3 * g - 2]
      /\ b = IF 3 * g - 1 <= n THEN data[3 * g - 1] ELSE 0
      /\ c = IF 3 * g <= n THEN data[3 * g] ELSE 0
  <2>1. /\ 3 * g - 2 \in 1..n /\ (3 * g - 1 <= n <=> 3 * g - 1 \in 1..n)
        /\ (3 * g <= n <=> 3 * g \in 1..n)
    <3> HIDE DEF n
    <3> QED
      BY <1>1, <1>2
  <2> QED
    BY <2>1, Zenon DEF OctetAt
<1>8. \A i \in 1..(4 * N - p) : s[i] \in 0..63 /\ r[i] \in 0..63
  <2> HIDE DEF r
  <2> QED
    BY <1>1, <1>5, ElementOfSeq
<1> DEFINE At(i) == AgreeAt(s, r, u, i)
<1> HIDE DEF n, r, u, a, b, c
<1>9. \A i : At(i) <=> IF i < 4 * N - p THEN s[i] = r[i] ELSE s[i] \div u = r[i] \div u
  BY <1>1, Zenon DEF AgreeAt
<1>10. /\ GroupOctets(d, data, g) <=> /\ Octet1(x1, x2) = a
                                      /\ 3 * g - 1 <= n => Octet2(x2, x3) = b
                                      /\ 3 * g <= n => Octet3(x3, x4) = c
  BY <1>1, <1>7, Zenon DEF GroupOctets, n
<1>11. GroupLetters(s, r, u, g) <=> /\ At(4 * g - 3) /\ At(4 * g - 2)
                                    /\ 4 * g - 1 <= 4 * N - p => At(4 * g - 1)
                                    /\ 4 * g <= 4 * N - p => At(4 * g)
  BY <1>1, Zenon DEF GroupLetters
<1> HIDE DEF At, x1, x2, x3, x4
<1>12. CASE 3 * g <= n
  <2>1. 3 * g - 1 <= n /\ 4 * g - 1 <= 4 * N - p /\ 4 * g <= 4 * N - p
    BY <1>1, <1>12
  <2>2. /\ 4 * g - 3 \in 1..(4 * N - p) /\ 4 * g - 2 \in 1..(4 * N - p)
        /\ 4 * g - 1 \in 1..(4 * N - p) /\ 4 * g \in 1..(4 * N - p)
        /\ 4 * g - 3 < 4 * N - p /\ 4 * g - 2 < 4 * N - p /\ 4 * g - 1 < 4 * N - p
    BY <1>1, <2>1
  <2>3. x1 \in 0..63 /\ x2 \in 0..63 /\ x3 \in 0..63 /\ x4 \in 0..63
    BY <1>8, <2>2, Zenon DEF x1, x2, x3, x4
  <2>4. /\ At(4 * g - 3) <=> x1 = Letter1(a)
        /\ At(4 * g - 2) <=> x2 = Letter2(a, b)
        /\ At(4 * g - 1) <=> x3 = Letter3(b, c)
    BY <1>5, <1>9, <2>1, <2>2, Zenon DEF x1, x2, x3
  <2>5. At(4 * g) <=> x4 = Letter4(c)
    <3>1. CASE 4 * g < 4 * N - p
      BY <1>5, <1>9, <2>1, <3>1, Zenon DEF x4
    <3>2. CASE ~(4 * g < 4 * N - p)
      <4>1. u = 1
        BY <1>1, <1>4, <2>1, <3>2
      <4>2. At(4 * g) <=> x4 \div 1 = Letter4(c) \div 1
        BY <1>5, <1>9, <2>1, <3>2, <4>1, Zenon DEF x4
      <4>3. Letter4(c) \in 0..63
        BY <1>6, LetterRange, Zenon
      <4>4. \A x \in 0..63 : x \div 1 = x
        OBVIOUS
      <4> QED
        BY <2>3, <4>2, <4>3, <4>4, Zenon
    <3> QED
      BY <3>1, <3>2
  <2>6. (Octet1(x1, x2) = a /\ Octet2(x2, x3) = b /\ Octet3(x3, x4) = c)
             <=> (x1 = Letter1(a) /\ x2 = Letter2(a, b) /\ x3 = Letter3(b, c) /\ x4 = Letter4(c))
    <3>1. \A e, f, h \in 0..255 :
             (Octet1(x1, x2) = e /\ Octet2(x2, x3) = f /\ Octet3(x3, x4) = h)
               <=> (x1 = Letter1(e) /\ x2 = Letter2(e, f) /\ x3 = Letter3(f, h) /\ x4 = Letter4(h))
      BY <2>3, SMTT(30) DEF Letter1, Letter2, Letter3, Letter4, Octet1, Octet2, Octet3
    <3> QED
      BY <1>6, <3>1
  <2> QED
    BY <1>10, <1>11, <1>12, <2>1, <2>4, <2>5, <2>6, Zenon DEF r, u, n
<1>13. CASE ~(3 * g <= n) /\ 3 * g - 1 <= n
  <2>1. g = N /\ p = 1 /\ u = 4 /\ 4 * g - 1 = 4 * N - p /\ ~(4 * g <= 4 * N - p) /\ 4 * g - 1 <= 4 * N - p
    BY <1>1, <1>4, <1>13
  <2>2. /\ 4 * g - 3 \in 1..(4 * N - p) /\ 4 * g - 2 \in 1..(4 * N - p)
        /\ 4 * g - 1 \in 1..(4 * N - p)
        /\ 4 * g - 3 < 4 * N - p /\ 4 * g - 2 < 4 * N - p /\ ~(4 * g - 1 < 4 * N - p)
    BY <1>1, <2>1
  <2>3. x1 \in 0..63 /\ x2 \in 0..63 /\ x3 \in 0..63
    BY <1>8, <2>2, Zenon DEF x1, x2, x3
  <2>4. c = 0
    BY <1>7, <1>13
  <2>5. /\ At(4 * g - 3) <=> x1 = Letter1(a)
        /\ At(4 * g - 2) <=> x2 = Letter2(a, b)
        /\ At(4 * g - 1) <=> x3 \div 4 = Letter3(b, 0) \div 4
    BY <1>5, <1>9, <2>1, <2>2, <2>4, Zenon DEF x1, x2, x3
  <2>6. (Octet1(x1, x2) = a /\ Octet2(x2, x3) = b)
             <=> (x1 = Letter1(a) /\ x2 = Letter2(a, b) /\ x3 \div 4 = Letter3(b, 0) \div 4)
    BY <1>6, <2>3, SMTT(30) DEF Letter1, Letter2, Letter3, Octet1, Octet2
  <2> QED
    BY <1>10, <1>11, <1>13, <2>1, <2>5, <2>6, Zenon DEF r, u, n
<1>14. CASE ~(3 * g <= n) /\ ~(3 * g - 1 <= n)
  <2>1. /\ g = N /\ p = 2 /\ u = 16 /\ 4 * g - 2 = 4 * N - p
        /\ ~(4 * g <= 4 * N - p) /\ ~(4 * g - 1 <= 4 * N - p)
    BY <1>1, <1>4, <1>14
  <2>2. /\ 4 * g - 3 \in 1..(4 * N - p) /\ 4 * g - 2 \in 1..(4 * N - p)
        /\ 4 * g - 3 < 4 * N - p /\ ~(4 * g - 2 < 4 * N - p)
    BY <1>1, <2>1
  <2>3. x1 \in 0..63 /\ x2 \in 0..63
    BY <1>8, <2>2, Zenon DEF x1, x2
  <2>4. b = 0
    BY <1>7, <1>14
  <2>5. /\ At(4 * g - 3) <=> x1 = Letter1(a)
        /\ At(4 * g - 2) <=> x2 \div 16 = Letter2(a, 0) \div 16
    BY <1>5, <1>9, <2>1, <2>2, <2>4, Zenon DEF x1, x2
  <2>6. Octet1(x1, x2) = a <=> (x1 = Letter1(a) /\ x2 \div 16 = Letter2(a, 0) \div 16)
    BY <1>6, <2>3 DEF Letter1, Letter2, Octet1
  <2> QED
    BY <1>10, <1>11, <1>14, <2>1, <2>5, <2>6, Zenon DEF r, u, n
<1>15. 3 * g <= n => 3 * g - 1 <= n
  BY <1>1
<1> QED
  BY <1>12, <1>13, <1>14

-----------------------------------------------------------------------------
(* The two against each other. *)

\* Octets that are read from letters are the content just when the letters are
\* its own, but for the unused bits of the last.
LEMMA SameContent ==
    ASSUME NEW s, NEW d, NEW N, NEW p, Reads(s, d, N, p), NEW data \in Seq(0..255)
    PROVE  d = data <=> /\ Len(s) = Len(Encode(data))
                        /\ \A i \in 1..Len(s) : AgreeAt(s, Encode(data), UnitOf(Len(data)), i)
<1> DEFINE r == Encode(data)
           u == UnitOf(Len(data))
<1>1. /\ N \in Nat /\ p \in 0..2 /\ (N = 0 => p = 0)
      /\ s \in Seq(0..63) /\ Len(s) = 4 * N - p
      /\ d \in Seq(0..255) /\ Len(d) = 3 * N - p
  BY Zenon DEF Reads
<1>2. Len(s) = Len(r) <=> Len(d) = Len(data)
  <2>1. Len(data) \in Nat
    BY LenProperties
  <2>2. Len(r) = LettersOf(Len(data))
    BY EncodedText, Zenon
  <2> DEFINE n == Len(data)
  <2>3. n \in Nat /\ Len(r) = LettersOf(n)
    BY <2>1, <2>2
  <2> HIDE DEF n, r
  <2>4. 4 * N - p = LettersOf(n) <=> 3 * N - p = n
    BY <1>1, <2>3, LengthsAgree
  <2>5. 4 * N - p = Len(r) <=> 3 * N - p = n
    BY <2>3, <2>4, Zenon
  <2> QED
    BY <1>1, <2>5, Zenon DEF n
<1> HIDE DEF r, u
<1>3. ASSUME Len(d) = Len(data), \A g \in 1..N : GroupOctets(d, data, g)
      PROVE  d = data
  <2>1. ASSUME NEW i \in 1..Len(d) PROVE d[i] = data[i]
    <3>1. PICK g \in 1..N : i = 3 * g - 2 \/ i = 3 * g - 1 \/ i = 3 * g
      <4>1. (i + 2) \div 3 \in 1..N
        BY <1>1
      <4> QED
        BY <1>1, <4>1
    <3>2. i <= Len(d)
      BY <1>1
    <3>3. GroupOctets(d, data, g)
      BY <1>3
    <3> QED
      BY <3>1, <3>2, <3>3, Zenon DEF GroupOctets
  <2> QED
    BY <1>1, <1>3, <2>1, SeqEqual
<1>4. ASSUME d = data, NEW g \in 1..N
      PROVE  GroupOctets(d, data, g)
  BY <1>4, Zenon DEF GroupOctets
<1>5. ASSUME \A g \in 1..N : GroupLetters(s, r, u, g), NEW i \in 1..Len(s)
      PROVE  AgreeAt(s, r, u, i)
  <2>1. PICK g \in 1..N : i = 4 * g - 3 \/ i = 4 * g - 2 \/ i = 4 * g - 1 \/ i = 4 * g
    <3>1. (i + 3) \div 4 \in 1..N
      BY <1>1
    <3> QED
      BY <1>1, <3>1
  <2>2. i <= Len(s)
    BY <1>1
  <2>3. GroupLetters(s, r, u, g)
    BY <1>5
  <2> QED
    BY <2>1, <2>2, <2>3, Zenon DEF GroupLetters
<1>6. ASSUME \A i \in 1..Len(s) : AgreeAt(s, r, u, i), NEW g \in 1..N
      PROVE  GroupLetters(s, r, u, g)
  <2>1. /\ 4 * g - 3 \in 1..Len(s) /\ 4 * g - 2 \in 1..Len(s)
        /\ 4 * g - 1 <= Len(s) => 4 * g - 1 \in 1..Len(s)
        /\ 4 * g <= Len(s) => 4 * g \in 1..Len(s)
    BY <1>1
  <2> QED
    BY <1>6, <2>1, Zenon DEF GroupLetters
<1>7. Len(d) = Len(data) => \A g \in 1..N : GroupOctets(d, data, g) <=> GroupLetters(s, r, u, g)
  BY GroupSame DEF r, u
<1>8. ASSUME d = data
      PROVE  Len(s) = Len(r) /\ \A i \in 1..Len(s) : AgreeAt(s, r, u, i)
  BY <1>2, <1>4, <1>5, <1>7, <1>8, Zenon
<1>9. ASSUME Len(s) = Len(r), \A i \in 1..Len(s) : AgreeAt(s, r, u, i)
      PROVE  d = data
  BY <1>2, <1>3, <1>6, <1>7, <1>9, Zenon
<1> QED
  BY <1>8, <1>9, Zenon DEF r, u

\* The letters of an encoded content are all of its text.
LEMMA OwnLetters ==
    ASSUME NEW data \in Seq(0..255)
    PROVE  Letters(Encode(data)) = Encode(data)
<1> DEFINE r == Encode(data)
           C == Chars \ {Space, Pad}
<1>1. r \in Seq(0..63)
  BY EncodedText, Zenon
<1>2. 0..63 \subseteq C /\ 0..63 \subseteq 0..63 \cup {Pad}
  BY DEF Chars, Space, Pad
<1> HIDE DEF r, C
<1>3. r \in Seq(C) /\ r \in Seq(0..63 \cup {Pad})
  BY <1>1, <1>2, SeqMonotonic
<1>4. Kept(r, C) = r
  BY <1>3, KeptAll
<1>5. UrlSafe(r) = r
  BY <1>3, UrlSafeSame
<1>6. Letters(r) = UrlSafe(Kept(r, C))
  BY Zenon DEF Letters, C
<1> QED
  BY <1>4, <1>5, <1>6, Zenon DEF r

\* Any text the decoder accepts, with no misplaced '=', against any content.
LEMMA SpellingRead ==
    ASSUME NEW t \in Seq(Chars), WellFormed(t), NEW data \in Seq(0..255)
    PROVE  Decode(t) = data <=> SameLetters(t, data)
<1>1. PICK N, p : Reads(Letters(t), Decode(t), N, p)
  BY TextRead
<1> DEFINE s == Letters(t)
           r == Encode(data)
           u == UnitOf(Len(data))
<1>2. DOMAIN s = 1..Len(s)
  <2>1. s \in Seq(0..63)
    BY <1>1, Zenon DEF Reads
  <2> HIDE DEF s
  <2> QED
    BY <2>1, LenProperties
<1>3. Decode(t) = data <=> Len(s) = Len(r) /\ \A i \in 1..Len(s) : AgreeAt(s, r, u, i)
  BY <1>1, SameContent
<1>4. SameLetters(t, data) <=> Len(s) = Len(r) /\ \A i \in DOMAIN s : AgreeAt(s, r, u, i)
  BY OwnLetters, Zenon DEF SameLetters, AgreeAt, UnitOf
<1> QED
  BY <1>2, <1>3, <1>4, Zenon

\* The encoder's own text is one of these.
LEMMA OwnWellFormed ==
    ASSUME NEW data \in Seq(0..255)
    PROVE  WellFormed(Encode(data))
<1> DEFINE n == Len(data)
           r == Encode(data)
           m == LettersOf(n)
           S == Standard(r)
           P == Pads(r)
           c == Completed(r)
           k == (4 - (m % 4)) % 4
<1>1. r \in Seq(0..63) /\ Len(r) = m /\ n \in Nat
  BY EncodedText, LenProperties, Zenon
<1>2. m \in Nat /\ k \in 0..2 /\ (m + k) % 4 = 0
  <2> DEFINE q == n \div 3
             d == n % 3
  <2>1. q \in Nat /\ d \in 0..2 /\ m = 4 * q + (IF d = 0 THEN 0 ELSE d + 1)
    <3> HIDE DEF n
    <3> QED
      BY <1>1 DEF LettersOf
  <2> HIDE DEF q, d, m
  <2> QED
    BY <2>1
<1>3. r \in Seq(Chars)
  <2>1. 0..63 \subseteq Chars
    BY DEF Chars
  <2> HIDE DEF r
  <2> QED
    BY <1>1, <2>1, SeqMonotonic
<1> HIDE DEF r, n, m
<1>4. /\ S \in Seq(Chars) /\ Len(S) = m /\ \A i \in 1..m : S[i] = StandardChar(r[i])
  BY <1>1, <1>3, StandardType
<1>5. /\ P \in Seq(Chars) /\ Len(P) = k /\ (\A i \in 1..k : P[i] = Pad)
      /\ c = S \o P /\ c \in Seq(Chars)
  BY <1>1, <1>3, PadsType
<1> HIDE DEF S, P, c, k
<1>6. /\ Len(c) = m + k
      /\ \A i \in 1..m : c[i] = StandardChar(r[i])
      /\ \A i \in (m + 1)..(m + k) : c[i] = Pad
  <2>1. /\ Len(S \o P) = Len(S) + Len(P)
        /\ \A i \in 1..Len(S) + Len(P) : (S \o P)[i] = IF i <= Len(S) THEN S[i] ELSE P[i - Len(S)]
    BY <1>4, <1>5, ConcatProperties
  <2>2. Len(c) = m + k /\ \A i \in 1..(m + k) : c[i] = IF i <= m THEN S[i] ELSE P[i - m]
    BY <1>4, <1>5, <2>1, Zenon
  <2>3. \A i \in 1..m : i \in 1..(m + k) /\ i <= m
    BY <1>2
  <2>4. \A i \in (m + 1)..(m + k) : i \in 1..(m + k) /\ ~(i <= m) /\ i - m \in 1..k
    BY <1>2
  <2>5. \A i \in 1..m : c[i] = StandardChar(r[i])
    BY <1>4, <2>2, <2>3, Zenon
  <2>6. \A i \in (m + 1)..(m + k) : c[i] = Pad
    BY <1>5, <2>2, <2>4, Zenon
  <2> QED
    BY <2>2, <2>5, <2>6
<1>7. \A x \in 0..63 : StandardChar(x) \in Chars \ {Space, Pad} /\ Value(StandardChar(x)) >= 0
  <2>1. ASSUME NEW x \in 0..63
        PROVE  StandardChar(x) \in Chars \ {Space, Pad} /\ (StandardChar(x) \in 0..63 \/ StandardChar(x) = Plus \/ StandardChar(x) = Slash)
    BY DEF StandardChar, Chars, Space, Pad, Plus, Slash
  <2>2. \A x : x \in 0..63 \/ x = Plus \/ x = Slash => Value(x) >= 0
    <3>1. \A x \in 0..63 : Value(x) >= 0
      <4>1. \A x \in 0..63 : Value(x) = x
        BY ValueIs, Zenon
      <4>2. \A x \in 0..63 : x >= 0
        OBVIOUS
      <4> QED
        BY <4>1, <4>2, Zenon
    <3>2. Value(Plus) >= 0 /\ Value(Slash) >= 0
      <4>1. Plus \notin 0..63 /\ Slash \notin 0..63 /\ Slash # Plus
        BY DEF Plus, Slash
      <4>2. Value(Plus) = 62 /\ Value(Slash) = 63
        BY <4>1, ValueIs, Zenon
      <4> QED
        BY <4>2
    <3> QED
      BY <3>1, <3>2, Zenon
  <2> QED
    BY <2>1, <2>2, Zenon
<1>8. /\ \A i \in 1..m : c[i] \in Chars \ {Space, Pad} /\ Value(c[i]) >= 0
      /\ Value(Pad) >= 0 /\ Pad \in Chars \ {Space}
  <2>1. \A i \in 1..m : r[i] \in 0..63
    BY <1>1, ElementOfSeq
  <2>2. Value(Pad) >= 0 /\ Pad \in Chars \ {Space}
    BY DEF Value, Pad, Space, Chars, Plus, Slash
  <2>3. \A i \in 1..m : c[i] \in Chars \ {Space, Pad} /\ Value(c[i]) >= 0
    BY <1>6, <1>7, <2>1, ZenonT(40)
  <2> QED
    BY <2>2, <2>3
<1>9. \A i \in 1..(m + k) : i \in 1..m \/ i \in (m + 1)..(m + k)
  BY <1>2
<1>10. \A i \in 1..(m + k) : c[i] \in Chars \ {Space} /\ Value(c[i]) >= 0 /\ (c[i] = Pad => i \in (m + 1)..(m + k))
  <2>1. \A x : x \in Chars \ {Space, Pad} => x \in Chars \ {Space} /\ x # Pad
    OBVIOUS
  <2> QED
    BY <1>6, <1>8, <1>9, <2>1, Zenon
<1>11. Cleaned(c) = c
  <2>1. c \in Seq(Chars \ {Space})
    <3>1. c = [i \in 1..(m + k) |-> c[i]] /\ m + k \in Nat
      BY <1>2, <1>5, <1>6, LenProperties
    <3>2. \A i \in 1..(m + k) : c[i] \in Chars \ {Space}
      BY <1>10, Zenon
    <3> QED
      BY <3>1, <3>2, IsSequence
  <2> QED
    BY <2>1, KeptAll, Zenon DEF Cleaned
<1>12. DOMAIN c = 1..(m + k)
  BY <1>5, <1>6, LenProperties
<1>13. ~MisplacedPad(r)
  <2>1. ASSUME NEW i \in 1..(m + k), c[i] = Pad
        PROVE  ~(i < (m + k) - 1 \/ (i = (m + k) - 1 /\ c[i + 1] # Pad))
    <3>1. i \in (m + 1)..(m + k)
      BY <1>10, <2>1
    <3>2. ~(i < (m + k) - 1)
      BY <1>2, <3>1
    <3>3. i = (m + k) - 1 => i + 1 \in (m + 1)..(m + k)
      BY <1>2, <3>1
    <3> QED
      BY <1>6, <3>2, <3>3, Zenon
  <2> QED
    BY <1>6, <1>11, <1>12, <2>1, Zenon DEF MisplacedPad, c
<1>14. Len(c) % 4 = 0 /\ \A i \in DOMAIN c : Value(c[i]) >= 0
  <2>1. \A i \in DOMAIN c : Value(c[i]) >= 0
    BY <1>10, <1>12, Zenon
  <2> QED
    BY <1>2, <1>6, <2>1
<1> QED
  BY <1>11, <1>13, <1>14, Zenon DEF WellFormed, r, c

\* Base64URL::decode undoes Base64URL::encode, for octet strings of any length,
\* and what encode writes has only letters of the alphabet.
THEOREM RoundTrip ==
    ASSUME NEW data \in Seq(0..255)
    PROVE  /\ Encode(data) \in Seq(0..63)
           /\ Decode(Encode(data)) = data
<1>1. Encode(data) \in Seq(0..63)
  BY EncodedText, Zenon
<1>2. Encode(data) \in Seq(Chars)
  <2>1. 0..63 \subseteq Chars
    BY DEF Chars
  <2> QED
    BY <1>1, <2>1, SeqMonotonic
<1>3. Decode(Encode(data)) = data <=> SameLetters(Encode(data), data)
  BY <1>2, OwnWellFormed, SpellingRead
<1>4. SameLetters(Encode(data), data)
  BY Zenon DEF SameLetters
<1> QED
  BY <1>1, <1>3, <1>4

\* What is accepted and has no misplaced '=' is well-formed.
LEMMA AcceptedWellFormed ==
    ASSUME NEW t \in Seq(Chars), Decode(t) # Bad, ~MisplacedPad(t)
    PROVE  WellFormed(t)
<1> DEFINE c == Cleaned(Completed(t))
<1>1. ~(Len(c) % 4 # 0 \/ \E i \in DOMAIN c : Value(c[i]) < 0)
  BY Zenon DEF Decode, Base64Decode
<1>2. \A x : Value(x) < 0 \/ Value(x) >= 0
  <2>1. \A x : Value(x) \in -1..63
    BY DEF Value, Plus, Slash, Pad
  <2>2. \A y \in -1..63 : y < 0 \/ y >= 0
    OBVIOUS
  <2> QED
    BY <2>1, <2>2, Zenon
<1> QED
  BY <1>1, <1>2, Zenon DEF WellFormed

\* Any text that the decoder accepts with no '=' out of place, of any length,
\* is read as a content just when it has the letters of that content's own text
\* (Base64URL::decode against Base64URL::encode).
THEOREM AnySpelling ==
    ASSUME NEW t \in Seq(Chars), NEW data \in Seq(0..255),
           Decode(t) # Bad, ~MisplacedPad(t)
    PROVE  Decode(t) = data <=> SameLetters(t, data)
  BY AcceptedWellFormed, SpellingRead

-----------------------------------------------------------------------------
(* The invariant and the theorems of Base64URL. *)

\* What holds of a text on its way: it is a text, and unchanged it is the content's.
B64Inv ==
    /\ content \in Seq(0..255) /\ text \in Seq(Chars) /\ edits \in Nat
    /\ edits = 0 => text = Encode(content)

\* A text stays a text when a character is exchanged, put in or left out.
LEMMA Edited ==
    ASSUME NEW t \in Seq(Chars), NEW c \in Chars
    PROVE  /\ \A i \in DOMAIN t : [t EXCEPT ![i] = c] \in Seq(Chars)
           /\ \A i \in 1..(Len(t) + 1) : InsertAt(t, i, c) \in Seq(Chars)
           /\ \A i \in DOMAIN t : RemoveAt(t, i) \in Seq(Chars)
<1>1. Len(t) \in Nat /\ DOMAIN t = 1..Len(t) /\ \A i \in 1..Len(t) : t[i] \in Chars
  BY LenProperties, ElementOfSeq
<1>2. \A i \in DOMAIN t : [t EXCEPT ![i] = c] \in Seq(Chars)
  BY <1>1, ExceptSeq
<1>3. \A a, b \in Int : a >= 1 /\ b <= Len(t) => SubSeq(t, a, b) \in Seq(Chars)
  <2>1. SUFFICES ASSUME NEW a \in Int, NEW b \in Int, a >= 1, b <= Len(t)
                 PROVE  SubSeq(t, a, b) \in Seq(Chars)
    OBVIOUS
  <2>2. \A i \in a..b : i \in 1..Len(t)
    BY <1>1, <2>1
  <2> QED
    BY <1>1, <2>2, SubSeqProperties
<1>4. \A u, v \in Seq(Chars) : u \o v \in Seq(Chars)
  BY ConcatProperties
<1>5. <<c>> \in Seq(Chars)
  OBVIOUS
<1>6. ASSUME NEW i \in 1..(Len(t) + 1) PROVE InsertAt(t, i, c) \in Seq(Chars)
  <2>1. SubSeq(t, 1, i - 1) \in Seq(Chars) /\ SubSeq(t, i, Len(t)) \in Seq(Chars)
    BY <1>1, <1>3
  <2> QED
    BY <1>4, <1>5, <2>1, Zenon DEF InsertAt
<1>7. ASSUME NEW i \in 1..Len(t) PROVE RemoveAt(t, i) \in Seq(Chars)
  <2>1. SubSeq(t, 1, i - 1) \in Seq(Chars) /\ SubSeq(t, i + 1, Len(t)) \in Seq(Chars)
    BY <1>1, <1>3
  <2> QED
    BY <1>4, <2>1, Zenon DEF RemoveAt
<1> QED
  BY <1>1, <1>2, <1>6, <1>7, Zenon

\* The invariant holds at first,
LEMMA B64Initial == B64Init => B64Inv
<1> SUFFICES ASSUME B64Init PROVE B64Inv
  OBVIOUS
<1>1. <<>> \in Seq(0..255) /\ <<>> \in Seq(Chars) /\ Len(<<>>) = 0
  BY EmptySeq
<1>2. Encode(<<>>) = <<>>
  <2>1. Encode(<<>>) \in Seq(0..63) /\ Len(Encode(<<>>)) = LettersOf(Len(<<>>))
    BY <1>1, EncodedText, Zenon
  <2>2. LettersOf(Len(<<>>)) = 0
    BY <1>1 DEF LettersOf
  <2> QED
    BY <2>1, <2>2, EmptySeq
<1> QED
  BY <1>1, <1>2 DEF B64Init, B64Inv

\* every step keeps it,
LEMMA B64Inductive == B64Inv /\ [B64Next]_b64_vars => B64Inv'
<1> SUFFICES ASSUME B64Inv, [B64Next]_b64_vars PROVE B64Inv'
  OBVIOUS
<1> USE DEF B64Inv
<1>1. CASE Edit
  <2>1. {0, 63, Plus, Slash, Pad, Space, Other} \subseteq Chars /\ {0, 16, 63, Pad, Space} \subseteq Chars
    BY DEF Chars, Plus, Slash, Pad, Space, Other
  <2>2. text \in Seq(Chars)
    OBVIOUS
  <2>3. \A c \in Chars : /\ \A i \in DOMAIN text : [text EXCEPT ![i] = c] \in Seq(Chars)
                         /\ \A i \in 1..(Len(text) + 1) : InsertAt(text, i, c) \in Seq(Chars)
                         /\ \A i \in DOMAIN text : RemoveAt(text, i) \in Seq(Chars)
    BY <2>2, Edited
  <2>4. 0 \in Chars
    BY DEF Chars
  <2>5. text' \in Seq(Chars)
    <3>1. CASE \E i \in DOMAIN text, c \in {0, 63, Plus, Slash, Pad, Space, Other} :
                   text' = [text EXCEPT ![i] = c]
      BY <2>1, <2>3, <3>1, ZenonT(40)
    <3>2. CASE \E i \in 1..(Len(text) + 1), c \in {0, 16, 63, Pad, Space} : text' = InsertAt(text, i, c)
      BY <2>1, <2>3, <3>2, Zenon
    <3>3. CASE \E i \in DOMAIN text : text' = RemoveAt(text, i)
      BY <2>3, <2>4, <3>3, Zenon
    <3> QED
      BY <1>1, <3>1, <3>2, <3>3, Zenon DEF Edit
  <2>6. content' = content /\ edits' = edits + 1
    BY <1>1 DEF Edit
  <2> QED
    BY <2>5, <2>6
<1>2. ASSUME NEW n \in 1..MaxLength, NEW data \in [1..n -> Octets], Send(data)
      PROVE  B64Inv'
  <2>1. data \in Seq(0..255)
    <3>1. n \in Nat
      OBVIOUS
    <3>2. data = [i \in 1..n |-> data[i]] /\ \A i \in 1..n : data[i] \in 0..255
      BY OctetsAssumption
    <3> QED
      BY <3>1, <3>2, IsSequence
  <2>2. content' = data /\ text' = Encode(data) /\ edits' = 0
    BY <1>2 DEF Send
  <2>3. Encode(data) \in Seq(Chars)
    <3>1. Encode(data) \in Seq(0..63)
      BY <2>1, EncodedText, Zenon
    <3>2. 0..63 \subseteq Chars
      BY DEF Chars
    <3> QED
      BY <3>1, <3>2, SeqMonotonic
  <2>4. 0 \in Nat
    OBVIOUS
  <2> QED
    BY <2>1, <2>2, <2>3, <2>4, Zenon
<1>3. CASE UNCHANGED b64_vars
  BY <1>3 DEF b64_vars
<1> QED
  BY <1>1, <1>2, <1>3, Zenon DEF B64Next

\* and the properties follow from it.
LEMMA B64Safe == B64Inv => OwnTextRead /\ SpellingsOfContent
<1> SUFFICES ASSUME B64Inv PROVE OwnTextRead /\ SpellingsOfContent
  OBVIOUS
<1>1. content \in Seq(0..255) /\ text \in Seq(Chars) /\ (edits = 0 => text = Encode(content))
  BY DEF B64Inv
<1>2. OwnTextRead
  <2>1. Encode(content) \in Seq(0..63) /\ Decode(Encode(content)) = content
    BY <1>1, RoundTrip
  <2> DEFINE r == Encode(content)
  <2> HIDE DEF r
  <2>2. r \in Seq(0..63) => \A i \in DOMAIN r : r[i] \in 0..63
    BY LenProperties, ElementOfSeq
  <2> QED
    BY <1>1, <2>1, <2>2, Zenon DEF OwnTextRead, r
<1>3. SpellingsOfContent
  BY <1>1, AnySpelling, Zenon DEF SpellingsOfContent
<1> QED
  BY <1>2, <1>3

\* In transit, a text nobody changed is in the alphabet and is read as the content
\* it was made of, whatever the octets and however many.
THEOREM OwnTextIsRead == B64Spec => []OwnTextRead
  BY B64Initial, B64Inductive, B64Safe, PTL DEF B64Spec

\* In transit, however a text was changed and however often: if it is accepted with
\* no '=' out of place, it is read as its content just when it kept its letters.
THEOREM SpellingsAreOfContent == B64Spec => []SpellingsOfContent
  BY B64Initial, B64Inductive, B64Safe, PTL DEF B64Spec

-----------------------------------------------------------------------------
(* Strings put together from parts. *)

\* Stated for octets so that its instances are found.
LEMMA Associative == \A a, b, c \in Seq(Octet) : (a \o b) \o c = a \o (b \o c)
  OBVIOUS

\* Two strings that begin with parts of one length are equal part by part.
LEMMA SplitEqual ==
    ASSUME NEW s \in Seq(Octet), NEW t \in Seq(Octet), NEW r \in Seq(Octet), NEW q \in Seq(Octet),
           Len(s) = Len(t), s \o r = t \o q
    PROVE  s = t /\ r = q
<1>1. \A i \in 1..Len(s) : (s \o r)[i] = s[i] /\ (t \o q)[i] = t[i]
  BY ConcatProperties, LenProperties
<1>2. s = t
  BY <1>1, SeqEqual
<1>3. \A u, v, w \in Seq(Octet) : u \o v = u \o w => v = w
  BY ConcatSimplifications, Zenon
<1> QED
  BY <1>2, <1>3

\* Four octets tell the numbers below 2^32 apart.
LEMMA BigEndianOctets ==
    ASSUME NEW n \in Nat
    PROVE  BigEndian32(n) \in Seq(Octet) /\ Len(BigEndian32(n)) = 4
  BY DEF BigEndian32, Octet

LEMMA BigEndianInjective ==
    ASSUME NEW m \in Nat, NEW n \in Nat,
           m \div 16777216 < 256, n \div 16777216 < 256, BigEndian32(m) = BigEndian32(n)
    PROVE  m = n
<1>1. /\ (m \div 16777216) % 256 = (n \div 16777216) % 256
      /\ (m \div 65536) % 256 = (n \div 65536) % 256
      /\ (m \div 256) % 256 = (n \div 256) % 256
      /\ m % 256 = n % 256
  BY DEF BigEndian32
<1>2. m \div 16777216 = n \div 16777216
  BY <1>1
<1>3. m \div 65536 = n \div 65536
  BY <1>1, <1>2
<1>4. m \div 256 = n \div 256
  BY <1>1, <1>3
<1> QED
  BY <1>1, <1>4

LEMMA PrefixedOctets ==
    ASSUME NEW s \in Seq(Octet)
    PROVE  Prefixed(s) \in Seq(Octet)
  BY BigEndianOctets, LenProperties, ConcatProperties DEF Prefixed

\* A part with its length in front is the same part whatever follows it.
LEMMA PrefixedEqual ==
    ASSUME NEW s \in Seq(Octet), NEW t \in Seq(Octet), NEW r \in Seq(Octet), NEW q \in Seq(Octet),
           FitsPrefix(s), FitsPrefix(t), Prefixed(s) \o r = Prefixed(t) \o q
    PROVE  s = t /\ r = q
<1>1. Len(s) \in Nat /\ Len(t) \in Nat
  BY LenProperties
<1>2. /\ BigEndian32(Len(s)) \in Seq(Octet) /\ Len(BigEndian32(Len(s))) = 4
      /\ BigEndian32(Len(t)) \in Seq(Octet) /\ Len(BigEndian32(Len(t))) = 4
  BY <1>1, BigEndianOctets
<1>3. SUFFICES ASSUME NEW m \in Seq(Octet), NEW n \in Seq(Octet), Len(m) = Len(n),
                      m = BigEndian32(Len(s)), n = BigEndian32(Len(t))
               PROVE  s = t /\ r = q
  BY <1>2
<1>4. Prefixed(s) = m \o s /\ Prefixed(t) = n \o t
  BY <1>3 DEF Prefixed
<1>5. (m \o s) \o r = (n \o t) \o q
  BY <1>4, Zenon
<1>6. m = n /\ s \o r = t \o q
  <2>1. Len(m) = Len(n) /\ m \in Seq(Octet) /\ n \in Seq(Octet)
    BY <1>3
  <2>2. (m \o s) \o r = m \o (s \o r)
    BY <2>1, Associative, ZenonT(40)
  <2>3. (n \o t) \o q = n \o (t \o q)
    BY <2>1, Associative, Zenon
  <2>4. m \o (s \o r) = n \o (t \o q)
    BY <1>5, <2>2, <2>3, Zenon
  <2>5. s \o r \in Seq(Octet)
    BY ConcatProperties
  <2>6. t \o q \in Seq(Octet)
    BY ConcatProperties
  <2> QED
    BY <2>1, <2>4, <2>5, <2>6, SplitEqual, ZenonT(40)
<1>7. Len(s) = Len(t)
  <2>1. BigEndian32(Len(s)) = BigEndian32(Len(t))
    BY <1>3, <1>6, Zenon
  <2>2. Len(s) \div 16777216 < 256 /\ Len(t) \div 16777216 < 256
    BY DEF FitsPrefix
  <2> QED
    BY <1>1, <2>1, <2>2, BigEndianInjective
<1> QED
  BY <1>6, <1>7, SplitEqual

-----------------------------------------------------------------------------
(* The octets of a key. *)

LEMMA FlattenOne ==
    ASSUME NEW s
    PROVE  FlattenSeq([i \in 1..1 |-> s[i]]) = s[1]
<1> DEFINE seqs    == [i \in 1..1 |-> s[i]]
           Def(f)  == f = [i \in 1..Len(seqs) |-> IF i = 1 THEN seqs[i] ELSE f[i - 1] \o seqs[i]]
           flatten == CHOOSE f : Def(f)
<1>1. Len(seqs) = 1 /\ seqs[1] = s[1]
  OBVIOUS
<1>2. FlattenSeq(seqs) = flatten[1]
  BY <1>1 DEF FlattenSeq
<1>3. Def([i \in 1..1 |-> s[1]])
  BY <1>1
<1>4. Def(flatten)
  <2> HIDE DEF Def
  <2> QED
    BY <1>3
<1> QED
  BY <1>1, <1>2, <1>4

LEMMA FlattenTwo ==
    ASSUME NEW s
    PROVE  FlattenSeq([i \in 1..2 |-> s[i]]) = s[1] \o s[2]
<1> DEFINE seqs    == [i \in 1..2 |-> s[i]]
           Def(f)  == f = [i \in 1..Len(seqs) |-> IF i = 1 THEN seqs[i] ELSE f[i - 1] \o seqs[i]]
           flatten == CHOOSE f : Def(f)
           both    == [i \in 1..2 |-> IF i = 1 THEN s[1] ELSE s[1] \o s[2]]
<1>1. Len(seqs) = 2 /\ seqs[1] = s[1] /\ seqs[2] = s[2]
  OBVIOUS
<1>2. FlattenSeq(seqs) = flatten[2]
  BY <1>1 DEF FlattenSeq
<1>3. Def(both)
  BY <1>1
<1>4. Def(flatten)
  <2> HIDE DEF Def
  <2> QED
    BY <1>3
<1> HIDE DEF flatten, seqs
<1>5. /\ flatten[1] = IF 1 = 1 THEN seqs[1] ELSE flatten[1 - 1] \o seqs[1]
      /\ flatten[2] = IF 2 = 1 THEN seqs[2] ELSE flatten[2 - 1] \o seqs[2]
  <2>1. flatten = [i \in 1..2 |-> IF i = 1 THEN seqs[i] ELSE flatten[i - 1] \o seqs[i]]
    BY <1>1, <1>4, Zenon
  <2>2. 1 \in 1..2 /\ 2 \in 1..2
    OBVIOUS
  <2> QED
    BY <2>1, <2>2, Zenon
<1>6. 2 # 1 /\ 2 - 1 = 1
  OBVIOUS
<1>7. flatten[2] = s[1] \o s[2]
  BY <1>1, <1>5, <1>6, Zenon
<1> QED
  BY <1>2, <1>7 DEF seqs

\* The string whose hash is the i-th round.
Message(c, i) == (BigEndian32(i) \o c.shared_secret) \o OtherInfo(c)

\* The contexts that the two ends make.
Lengths  == {16, 24, 32, 48, 64}
Parts    == {s \in Seq(Octet) : FitsPrefix(s)}
Contexts == [shared_secret : Secrets, key_data_len : Lengths, algorithm : Parts, apu : Parts, apv : Parts]

LEMMA TwoHashes ==
    ASSUME NEW p, NEW q
    PROVE  [j \in 1..32 |-> <<p, j>>] \o [j \in 1..32 |-> <<q, j>>]
               = [k \in 1..64 |-> IF k <= 32 THEN <<p, k>> ELSE <<q, k - 32>>]
<1> DEFINE S == {p, q} \X (1..32)
           s == [j \in 1..32 |-> <<p, j>>]
           t == [j \in 1..32 |-> <<q, j>>]
           u == [k \in 1..64 |-> IF k <= 32 THEN <<p, k>> ELSE <<q, k - 32>>]
<1>1. s \in Seq(S) /\ t \in Seq(S) /\ Len(s) = 32 /\ Len(t) = 32
  OBVIOUS
<1>2. u \in Seq(S) /\ Len(u) = 64
  <2>1. \A k \in 1..64 : u[k] \in S
    OBVIOUS
  <2>2. Len(u) = 64 /\ u = [k \in 1..64 |-> u[k]]
    OBVIOUS
  <2> HIDE DEF u, S
  <2> QED
    BY <2>1, <2>2
<1>3. \A k \in 1..64 : u[k] = IF k <= 32 THEN s[k] ELSE t[k - 32]
  OBVIOUS
<1> HIDE DEF s, t, u, S
<1>4. /\ s \o t \in Seq(S) /\ Len(s \o t) = Len(s) + Len(t)
      /\ \A k \in 1..Len(s) + Len(t) : (s \o t)[k] = IF k <= Len(s) THEN s[k] ELSE t[k - Len(s)]
  BY <1>1, ConcatProperties, ZenonT(40)
<1>5. s \o t = u
  <2> DEFINE w == s \o t
  <2>1. w \in Seq(S) /\ Len(w) = Len(s) + Len(t)
    BY <1>4
  <2>2. \A k \in 1..Len(s) + Len(t) : w[k] = IF k <= Len(s) THEN s[k] ELSE t[k - Len(s)]
    BY <1>4
  <2> HIDE DEF w
  <2>3. Len(w) = 64 /\ \A k \in 1..64 : w[k] = IF k <= 32 THEN s[k] ELSE t[k - 32]
    BY <1>1, <2>1, <2>2
  <2>4. \A k \in 1..64 : w[k] = u[k]
    BY <1>3, <2>3, Zenon
  <2>5. Len(w) = Len(u) /\ \A k \in 1..Len(w) : w[k] = u[k]
    BY <1>2, <2>3, <2>4
  <2>6. w = u
    BY <1>2, <2>1, <2>5, SeqEqual
  <2> QED
    BY <2>6 DEF w
<1> QED
  BY <1>5 DEF s, t, u

\* A key is made of octets of the first round, and of the second beyond the
\* first hash.
LEMMA KeyOctets ==
    ASSUME NEW c \in Contexts
    PROVE  Derive(c) = [k \in 1..c.key_data_len |->
                           IF k <= 32 THEN <<Message(c, 1), k>> ELSE <<Message(c, 2), k - 32>>]
<1> DEFINE n           == c.key_data_len
           piece(i, j) == <<Message(c, i), j>>
           round(i)    == [j \in 1..32 |-> piece(i, j)]
           rounds      == [i \in 1..2 |-> round(i)]
           seq         == FlattenSeq([i \in 1..Reps(n) |-> Round(c, i)])
           key         == [k \in 1..n |-> IF k <= 32 THEN piece(1, k) ELSE piece(2, k - 32)]
<1>1. n \in Lengths
  BY DEF Contexts
<1>2. \A i : Round(c, i) = round(i)
  BY HashAssumption DEF Round, Hash, Message
<1>3. Derive(c) = [k \in 1..n |-> IF k <= Len(seq) THEN seq[k] ELSE <<<<>>, 0>>]
  BY DEF Derive, Resized
<1>4. rounds[1] = round(1) /\ rounds[2] = round(2)
  OBVIOUS
<1>5. CASE n <= 32
  <2>1. Reps(n) = 1
    BY <1>1, <1>5, HashAssumption DEF Reps, Lengths
  <2>2. [i \in 1..1 |-> Round(c, i)] = [i \in 1..1 |-> rounds[i]]
    BY <1>2
  <2>3. seq = round(1)
    BY <1>4, <2>1, <2>2, FlattenOne, ZenonT(40)
  <2> HIDE DEF seq, piece
  <2>4. Len(seq) = 32 /\ \A k \in 1..32 : seq[k] = piece(1, k)
    BY <2>3
  <2>5. ASSUME NEW k \in 1..n
        PROVE  k <= Len(seq) /\ seq[k] = key[k]
    <3>1. k \in 1..32 /\ k <= 32
      BY <1>1, <1>5 DEF Lengths
    <3> QED
      BY <2>4, <3>1
  <2> QED
    BY <1>3, <2>5 DEF piece
<1>6. CASE n > 32
  <2>1. Reps(n) = 2
    BY <1>1, <1>6, HashAssumption DEF Reps, Lengths
  <2>2. [i \in 1..2 |-> Round(c, i)] = [i \in 1..2 |-> rounds[i]]
    BY <1>2
  <2>3. seq = round(1) \o round(2)
    BY <1>4, <2>1, <2>2, FlattenTwo
  <2>4. seq = [k \in 1..64 |-> IF k <= 32 THEN piece(1, k) ELSE piece(2, k - 32)]
    <3>1. \A p, q : [j \in 1..32 |-> <<p, j>>] \o [j \in 1..32 |-> <<q, j>>]
                        = [k \in 1..64 |-> IF k <= 32 THEN <<p, k>> ELSE <<q, k - 32>>]
      BY TwoHashes, Zenon
    <3>2. round(1) \o round(2) = [k \in 1..64 |-> IF k <= 32 THEN piece(1, k) ELSE piece(2, k - 32)]
      BY <3>1, ZenonT(40)
    <3> HIDE DEF seq, round, piece
    <3> QED
      BY <2>3, <3>2, Zenon
  <2> HIDE DEF seq, piece
  <2>5. Len(seq) = 64 /\ \A k \in 1..64 : seq[k] = IF k <= 32 THEN piece(1, k) ELSE piece(2, k - 32)
    BY <2>4
  <2>6. ASSUME NEW k \in 1..n
        PROVE  k <= Len(seq) /\ seq[k] = key[k]
    <3>1. k \in 1..64
      BY <1>1 DEF Lengths
    <3>2. k <= Len(seq)
      BY <2>5, <3>1
    <3>3. key[k] = IF k <= 32 THEN piece(1, k) ELSE piece(2, k - 32)
      OBVIOUS
    <3> QED
      BY <2>5, <3>1, <3>2, <3>3, Zenon
  <2> QED
    BY <1>3, <2>6 DEF piece
<1> QED
  BY <1>1, <1>5, <1>6 DEF Lengths

-----------------------------------------------------------------------------
(* What a hashed string says. *)

LEMMA FourParts ==
    \A a, b \in Seq(Octet) : \A c, d \in Seq(Octet) : ((a \o b) \o c) \o d = a \o (b \o (c \o d))
<1> TAKE a, b \in Seq(Octet)
<1> TAKE c, d \in Seq(Octet)
<1>1. a \o b \in Seq(Octet)
  BY ConcatProperties
<1>2. c \o d \in Seq(Octet)
  BY ConcatProperties
<1>3. \A v \in Seq(Octet) : (v \o c) \o d = v \o (c \o d)
  BY Associative, ZenonT(40)
<1>4. \A v \in Seq(Octet) : (a \o b) \o v = a \o (b \o v)
  BY Associative, Zenon
<1>5. ((a \o b) \o c) \o d = (a \o b) \o (c \o d)
  BY <1>1, <1>3, Zenon
<1>6. (a \o b) \o (c \o d) = a \o (b \o (c \o d))
  BY <1>2, <1>4, Zenon
<1> QED
  BY <1>5, <1>6, Zenon

\* OtherInfo, and what is left of it part by part.
InfoEnd(c)    == BigEndian32(c.key_data_len * 8)
AfterApu(c)   == Prefixed(c.apv) \o InfoEnd(c)
AfterName(c)  == Prefixed(c.apu) \o AfterApu(c)

LEMMA InfoParts ==
    ASSUME NEW c \in Contexts
    PROVE  /\ OtherInfo(c) = Prefixed(c.algorithm) \o AfterName(c)
           /\ OtherInfo(c) \in Seq(Octet) /\ AfterName(c) \in Seq(Octet)
           /\ AfterApu(c) \in Seq(Octet) /\ InfoEnd(c) \in Seq(Octet)
<1>1. c.algorithm \in Seq(Octet) /\ c.apu \in Seq(Octet) /\ c.apv \in Seq(Octet) /\ c.key_data_len * 8 \in Nat
  BY DEF Contexts, Parts, Lengths
<1>2. /\ Prefixed(c.algorithm) \in Seq(Octet) /\ Prefixed(c.apu) \in Seq(Octet)
      /\ Prefixed(c.apv) \in Seq(Octet) /\ InfoEnd(c) \in Seq(Octet)
  BY <1>1, PrefixedOctets, BigEndianOctets DEF InfoEnd
<1>3. AfterApu(c) \in Seq(Octet)
  BY <1>2, ConcatProperties DEF AfterApu
<1>4. AfterName(c) \in Seq(Octet)
  BY <1>2, <1>3, ConcatProperties DEF AfterName
<1>5. OtherInfo(c) = Prefixed(c.algorithm) \o AfterName(c)
  <2>1. SUFFICES ASSUME NEW a \in Seq(Octet), NEW b \in Seq(Octet), NEW e \in Seq(Octet), NEW f \in Seq(Octet),
                        a = Prefixed(c.algorithm), b = Prefixed(c.apu), e = Prefixed(c.apv), f = InfoEnd(c)
                 PROVE  OtherInfo(c) = Prefixed(c.algorithm) \o AfterName(c)
    BY <1>2
  <2>2. OtherInfo(c) = ((a \o b) \o e) \o f /\ AfterName(c) = b \o (e \o f)
    BY <2>1, Zenon DEF OtherInfo, InfoEnd, AfterName, AfterApu
  <2>3. ((a \o b) \o e) \o f = a \o (b \o (e \o f))
    <3>1. a \in Seq(Octet) /\ b \in Seq(Octet) /\ e \in Seq(Octet) /\ f \in Seq(Octet)
      BY <2>1
    <3>2. \A v, w \in Seq(Octet) : ((a \o b) \o v) \o w = a \o (b \o (v \o w))
      BY <3>1, FourParts, Zenon
    <3> QED
      BY <3>1, <3>2, Zenon
  <2> QED
    BY <2>1, <2>2, <2>3, Zenon
<1>6. OtherInfo(c) \in Seq(Octet)
  BY <1>2, <1>4, <1>5, ConcatProperties
<1> QED
  BY <1>2, <1>3, <1>4, <1>5, <1>6

LEMMA PartsApart ==
    \A s, t \in Parts : \A r, q \in Seq(Octet) :
        Prefixed(s) \o r = Prefixed(t) \o q => s = t /\ r = q
  BY PrefixedEqual DEF Parts

\* Rounds of one context or of two that hash the same string are one round.
LEMMA SameMessage ==
    ASSUME NEW c \in Contexts, NEW d \in Contexts, NEW i \in 1..2, NEW j \in 1..2,
           Message(c, i) = Message(d, j)
    PROVE  /\ i = j /\ c.shared_secret = d.shared_secret
           /\ c.algorithm = d.algorithm /\ c.apu = d.apu /\ c.apv = d.apv
<1> DEFINE m == BigEndian32(i)
           n == BigEndian32(j)
           y == c.shared_secret
           z == d.shared_secret
<1>1. /\ m \in Seq(Octet) /\ n \in Seq(Octet) /\ Len(m) = 4 /\ Len(n) = 4
  BY BigEndianOctets
<1>2. y \in Seq(Octet) /\ z \in Seq(Octet) /\ Len(y) = Len(z)
  BY SecretsAssumption DEF Contexts
<1>3. m \o y \in Seq(Octet) /\ n \o z \in Seq(Octet) /\ Len(m \o y) = Len(n \o z)
  <2> HIDE DEF m, n, y, z
  <2> QED
    BY <1>1, <1>2, ConcatProperties
<1>4. (m \o y) \o OtherInfo(c) = (n \o z) \o OtherInfo(d)
  BY Zenon DEF Message
<1>5. m \o y = n \o z /\ OtherInfo(c) = OtherInfo(d)
  <2>1. OtherInfo(c) \in Seq(Octet) /\ OtherInfo(d) \in Seq(Octet)
    BY InfoParts
  <2>2. \A v, w \in Seq(Octet) :
            Len(v) = Len(w) /\ v \o OtherInfo(c) = w \o OtherInfo(d) => v = w /\ OtherInfo(c) = OtherInfo(d)
    BY <2>1, SplitEqual
  <2> QED
    BY <1>3, <1>4, <2>2, Zenon
<1>6. m = n /\ y = z
  <2> HIDE DEF m, n, y, z
  <2> QED
    BY <1>1, <1>2, <1>5, SplitEqual, ZenonT(40)
<1>7. i = j
  BY <1>6, BigEndianInjective
<1>8. /\ c.algorithm \in Parts /\ c.apu \in Parts /\ c.apv \in Parts
      /\ d.algorithm \in Parts /\ d.apu \in Parts /\ d.apv \in Parts
  BY DEF Contexts
<1>9. c.algorithm = d.algorithm /\ AfterName(c) = AfterName(d)
  <2>1. \A r, q \in Seq(Octet) :
            Prefixed(c.algorithm) \o r = Prefixed(d.algorithm) \o q => c.algorithm = d.algorithm /\ r = q
    BY <1>8, PartsApart, Zenon
  <2>2. Prefixed(c.algorithm) \o AfterName(c) = Prefixed(d.algorithm) \o AfterName(d)
    BY <1>5, InfoParts
  <2> QED
    BY InfoParts, <2>1, <2>2, Zenon
<1>10. c.apu = d.apu /\ AfterApu(c) = AfterApu(d)
  <2>1. \A r, q \in Seq(Octet) :
            Prefixed(c.apu) \o r = Prefixed(d.apu) \o q => c.apu = d.apu /\ r = q
    BY <1>8, PartsApart, Zenon
  <2>2. Prefixed(c.apu) \o AfterApu(c) = Prefixed(d.apu) \o AfterApu(d)
    BY <1>9 DEF AfterName
  <2> QED
    BY InfoParts, <2>1, <2>2, Zenon
<1>11. c.apv = d.apv /\ InfoEnd(c) = InfoEnd(d)
  <2>1. \A r, q \in Seq(Octet) :
            Prefixed(c.apv) \o r = Prefixed(d.apv) \o q => c.apv = d.apv /\ r = q
    BY <1>8, PartsApart, Zenon
  <2>2. Prefixed(c.apv) \o InfoEnd(c) = Prefixed(d.apv) \o InfoEnd(d)
    BY <1>10 DEF AfterApu
  <2> QED
    BY InfoParts, <2>1, <2>2, Zenon
<1> QED
  BY <1>6, <1>7, <1>9, <1>10, <1>11

-----------------------------------------------------------------------------
(* The invariant: what an end holds it derived from a context whose length  *)
(* is the one of its algorithm.                                            *)

\* A key is as long as its algorithm has it.
MadeFor(c, enc) == c.algorithm = Name[enc] /\ c.key_data_len = KeySize[enc]

Derived(end) ==
    /\ end = [context |-> end.context, key |-> Derive(end.context)]
    /\ end.context \in Contexts
    /\ \E enc \in Encs : MadeFor(end.context, enc)

KInv ==
    /\ sender = NoKey \/ Derived(sender)
    /\ recipient = NoKey \/ Derived(recipient)

\* The recipient's table says what the sender's says.
LEMMA TablesAgree == \A enc \in Encs : KeySize[enc] \in Lengths /\ DerivedKeyLen[enc] = KeySize[enc]
  BY DEF Encs, KeySize, DerivedKeyLen, Lengths

LEMMA ContextMade ==
    ASSUME NEW z \in Secrets, NEW enc \in Encs, NEW u \in Parties \union {<<>>},
           NEW v \in Parties \union {<<>>}, NEW end,
           end = [context |-> Context(z, KeySize[enc], Name[enc], u, v),
                  key |-> Derive(Context(z, KeySize[enc], Name[enc], u, v))]
    PROVE  Derived(end)
<1> DEFINE c == Context(z, KeySize[enc], Name[enc], u, v)
<1>1. u \in Parts /\ v \in Parts
  <2>1. <<>> \in Parts
    BY DEF Parts, FitsPrefix
  <2> QED
    BY <2>1, PartiesAssumption DEF Parts
<1>2. Name[enc] \in Parts
  BY NameAssumption DEF Parts
<1>3. c \in Contexts /\ MadeFor(c, enc)
  BY <1>1, <1>2, TablesAgree DEF Context, Contexts, MadeFor
<1> HIDE DEF c
<1>4. end = [context |-> c, key |-> Derive(c)]
  BY DEF c
<1>5. end.context = c /\ end = [context |-> end.context, key |-> Derive(end.context)]
  BY <1>4
<1> QED
  BY <1>3, <1>5 DEF Derived

LEMMA Invariance == KDFSpec => []KInv
<1>1. KDFInit => KInv
  BY DEF KDFInit, KInv
<1>2. KInv /\ [KDFNext]_kdf_vars => KInv'
  <2> SUFFICES ASSUME KInv, [KDFNext]_kdf_vars PROVE KInv'
    OBVIOUS
  <2>1. CASE UNCHANGED kdf_vars
    BY <2>1 DEF KInv, Derived, kdf_vars
  <2>2. ASSUME NEW z \in Secrets, NEW enc \in Encs, SenderDerives(z, enc) PROVE KInv'
    <3>1. Derived(sender)'
      BY <2>2, ContextMade DEF SenderDerives
    <3> QED
      BY <2>2, <3>1 DEF KInv, SenderDerives
  <2>3. ASSUME NEW z \in Secrets, NEW enc \in Encs, RecipientDerives(z, enc) PROVE KInv'
    <3>1. Derived(recipient)'
      BY <2>3, ContextMade, TablesAgree DEF RecipientDerives
    <3> QED
      BY <2>3, <3>1 DEF KInv, RecipientDerives
  <2>4. ASSUME NEW z \in Secrets, NEW enc \in Encs, NEW u \in Parties, NEW v \in Parties,
               ForeignSenderDerives(z, enc, u, v)
        PROVE  KInv'
    <3>1. Derived(sender)'
      BY <2>4, ContextMade DEF ForeignSenderDerives
    <3> QED
      BY <2>4, <3>1 DEF KInv, ForeignSenderDerives
  <2>5. ASSUME NEW z \in Secrets, NEW enc \in Encs, NEW u \in Parties, NEW v \in Parties,
               ForeignRecipientDerives(z, enc, u, v)
        PROVE  KInv'
    <3>1. Derived(recipient)'
      BY <2>5, ContextMade, TablesAgree DEF ForeignRecipientDerives
    <3> QED
      BY <2>5, <3>1 DEF KInv, ForeignRecipientDerives
  <2> QED
    BY <2>1, <2>2, <2>3, <2>4, <2>5 DEF KDFNext
<1> QED
  BY <1>1, <1>2, PTL DEF KDFSpec

-----------------------------------------------------------------------------
(* The theorem. *)

LEMMA FirstOctet ==
    ASSUME NEW c \in Contexts
    PROVE  Derive(c)[1] = <<Message(c, 1), 1>>
<1>1. 1 \in 1..c.key_data_len
  BY DEF Contexts, Lengths
<1>2. Derive(c)[1] = IF 1 <= 32 THEN <<Message(c, 1), 1>> ELSE <<Message(c, 2), 1 - 32>>
  BY <1>1, KeyOctets, Zenon
<1>3. 1 <= 32
  OBVIOUS
<1> QED
  BY <1>2, <1>3, Zenon

LEMMA SameKeys ==
    ASSUME NEW c \in Contexts, NEW d \in Contexts, NEW enc1 \in Encs, NEW enc2 \in Encs,
           MadeFor(c, enc1), MadeFor(d, enc2)
    PROVE  Derive(c) = Derive(d) <=>
               /\ c.shared_secret = d.shared_secret /\ c.algorithm = d.algorithm
               /\ c.apu = d.apu /\ c.apv = d.apv
<1>1. ASSUME Derive(c) = Derive(d)
      PROVE  /\ c.shared_secret = d.shared_secret /\ c.algorithm = d.algorithm
             /\ c.apu = d.apu /\ c.apv = d.apv
  <2>1. Message(c, 1) = Message(d, 1)
    BY <1>1, FirstOctet
  <2> QED
    BY <2>1, SameMessage
<1>2. ASSUME c.shared_secret = d.shared_secret, c.algorithm = d.algorithm, c.apu = d.apu, c.apv = d.apv
      PROVE  Derive(c) = Derive(d)
  <2>1. enc1 = enc2
    BY <1>2, NameAssumption DEF MadeFor
  <2>2. c.key_data_len = d.key_data_len
    BY <2>1 DEF MadeFor
  <2>3. c = d
    BY <1>2, <2>2 DEF Contexts
  <2> QED
    BY <2>3
<1> QED
  BY <1>1, <1>2

\* No octet of a key is a filler, and none is used twice.
LEMMA KeyIsSound ==
    ASSUME NEW c \in Contexts
    PROVE  /\ \A i \in DOMAIN Derive(c) : Derive(c)[i] # <<<<>>, 0>>
           /\ IsInjective(Derive(c))
<1> DEFINE key  == Derive(c)
           r(i) == IF i <= 32 THEN 1 ELSE 2
           o(i) == IF i <= 32 THEN i ELSE i - 32
<1>1. c.key_data_len \in Lengths
  BY DEF Contexts
<1>2. DOMAIN key = 1..c.key_data_len
  BY KeyOctets
<1>3. \A i \in DOMAIN key : /\ i \in Nat /\ r(i) \in 1..2 /\ o(i) \in Nat \ {0}
                            /\ key[i] = <<Message(c, r(i)), o(i)>>
  BY <1>1, <1>2, KeyOctets DEF Lengths
<1>4. ASSUME NEW i \in DOMAIN key, NEW j \in DOMAIN key, key[i] = key[j]
      PROVE  i = j
  <2>1. Message(c, r(i)) = Message(c, r(j)) /\ o(i) = o(j)
    BY <1>3, <1>4
  <2>2. r(i) = r(j)
    BY <1>3, <2>1, SameMessage
  <2> QED
    BY <1>3, <2>1, <2>2
<1> QED
  BY <1>3, <1>4 DEF IsInjective

\* The two ends of ECDH-ES have the same key just when they agree on the
\* secret, the algorithm and the parties, whatever the octets of these are; a
\* key has no filler and no octet twice.
THEOREM KeysAgree == KDFSpec => []SameKeyIffSameContext
<1>1. KInv => SameKeyIffSameContext
  <2> SUFFICES ASSUME KInv PROVE SameKeyIffSameContext
    OBVIOUS
  <2>1. ASSUME sender # NoKey, recipient # NoKey
        PROVE  sender.key = recipient.key <=>
                   /\ sender.context.shared_secret = recipient.context.shared_secret
                   /\ sender.context.algorithm = recipient.context.algorithm
                   /\ sender.context.apu = recipient.context.apu
                   /\ sender.context.apv = recipient.context.apv
    <3>1. Derived(sender) /\ Derived(recipient)
      BY <2>1 DEF KInv
    <3>2. sender.key = Derive(sender.context) /\ recipient.key = Derive(recipient.context)
      BY <3>1 DEF Derived
    <3> QED
      BY <3>1, <3>2, SameKeys DEF Derived
  <2>2. ASSUME NEW end \in {sender, recipient}
        PROVE  (\A i \in DOMAIN end.key : end.key[i] # <<<<>>, 0>>) /\ IsInjective(end.key)
    <3>1. CASE end = NoKey
      BY <3>1 DEF NoKey, IsInjective
    <3>2. CASE Derived(end)
      <4>1. end.context \in Contexts /\ end.key = Derive(end.context)
        BY <3>2 DEF Derived
      <4> QED
        BY <4>1, KeyIsSound
    <3> QED
      BY <3>1, <3>2 DEF KInv
  <2> QED
    BY <2>1, <2>2 DEF SameKeyIffSameContext
<1> QED
  BY <1>1, Invariance, PTL
=============================================================================
