----------------------------- MODULE Base64URL -----------------------------
(****************************************************************************)
(* The texts of octet strings: Base64URL::encode and decode (base64url.cpp) *)
(* over BackEnd::base64Encode and base64Decode (back_end.cpp), and a text   *)
(* on its way from the one to the other, edited in transit.                 *)
(*                                                                          *)
(* A character is a number: 0..63 for the letters of the base64url alphabet *)
(* by value, and Plus, Slash, Pad, Space and Other for '+', '/', '=', the   *)
(* white space the decoder skips (CR, LF, blank) and everything else.       *)
(****************************************************************************)
EXTENDS Integers, SequencesExt

CONSTANTS
    Octets,    \* the octets contents are made of
    MaxLength, \* bound: octets of a content
    MaxEdits   \* bound: characters changed in transit

ASSUME OctetsAssumption == Octets \subseteq 0..255

ASSUME BoundsAssumption == MaxLength \in Nat /\ MaxEdits \in Nat

Plus  == 64
Slash == 65
Pad   == 66
Space == 67
Other == 68
Chars == 0..68

Bad == <<-1>>  \* the decoder's error: no octet string

VARIABLES
    content,  \* the octets that were encoded
    text,     \* their text, as it is now
    edits     \* how many characters of it were changed

b64_vars == <<content, text, edits>>

-----------------------------------------------------------------------------
(* Encoding. *)

\* Mutant: the bits of the last octet that have no letter of their own are lost.
Mutant_EncodedGroup(o) ==
    IF Len(o) = 3
    THEN <<o[1] \div 4, (o[1] % 4) * 16 + o[2] \div 16, (o[2] % 16) * 4 + o[3] \div 64, o[3] % 64>>
    ELSE IF Len(o) = 2
    THEN <<o[1] \div 4, (o[1] % 4) * 16 + o[2] \div 16, Pad, Pad>>
    ELSE <<o[1] \div 4, (o[1] % 4) * 16, Pad, Pad>>

\* The four characters of a group of three octets or of the one or two that are
\* left over at the end.
EncodedGroup(o) ==
    IF Len(o) = 3
    THEN <<o[1] \div 4, (o[1] % 4) * 16 + o[2] \div 16, (o[2] % 16) * 4 + o[3] \div 64, o[3] % 64>>
    ELSE IF Len(o) = 2
    THEN <<o[1] \div 4, (o[1] % 4) * 16 + o[2] \div 16, (o[2] % 16) * 4, Pad>>
    ELSE <<o[1] \div 4, (o[1] % 4) * 16, Pad, Pad>>

\* 62 and 63 as '+' and '/', and the other way.
Standard(t) == [i \in DOMAIN t |-> IF t[i] = 62 THEN Plus ELSE IF t[i] = 63 THEN Slash ELSE t[i]]
UrlSafe(t)  == [i \in DOMAIN t |-> IF t[i] = Plus THEN 62 ELSE IF t[i] = Slash THEN 63 ELSE t[i]]

\* The characters of t that are in C, in their order.
Kept(t, C) ==
    LET kept[i \in 0..Len(t)] ==
            IF i = 0 THEN <<>>
            ELSE IF t[i] \in C THEN Append(kept[i - 1], t[i]) ELSE kept[i - 1]
    IN  kept[Len(t)]

\* base64Encode: '+' and '/' for 62 and 63, '=' at the end.
Base64Encode(data) ==
    LET groups == (Len(data) + 2) \div 3
        group(g) == EncodedGroup(SubSeq(data, 3 * g - 2, IF 3 * g < Len(data) THEN 3 * g ELSE Len(data)))
    IN  Standard(FlattenSeq([g \in 1..groups |-> group(g)]))

\* Base64URL::encode: the other alphabet, and no '='.
Encode(data) == Kept(UrlSafe(Base64Encode(data)), Chars \ {Pad})

-----------------------------------------------------------------------------
(* Decoding. *)

\* Mutant: the table is zero where it has no entry.
Mutant_Value(c) ==
    CASE c \in 0..63 -> c
      [] c = Plus    -> 62
      [] c = Slash   -> 63
      [] OTHER       -> 0

\* The decoder's table: both alphabets, and '=' as zero.
Value(c) ==
    CASE c \in 0..63 -> c
      [] c = Plus    -> 62
      [] c = Slash   -> 63
      [] c = Pad     -> 0
      [] OTHER       -> -1

\* The octets of four characters.  '=' is looked for in the last two only, each
\* for itself, and in every group, not just in the last.
DecodedGroup(c) ==
    LET v == [k \in 1..4 |-> Value(c[k])]
    IN  <<v[1] * 4 + v[2] \div 16>>
        \o (IF c[3] = Pad THEN <<>> ELSE <<(v[2] % 16) * 16 + v[3] \div 4>>)
        \o (IF c[4] = Pad THEN <<>> ELSE <<(v[3] % 4) * 64 + v[4]>>)

\* base64Decode: white space goes first, then the length is looked at.
Cleaned(t) == Kept(t, Chars \ {Space})

Base64Decode(t) ==
    LET c == Cleaned(t)
    IN  IF Len(c) % 4 # 0 \/ \E i \in DOMAIN c : Value(c[i]) < 0 THEN Bad
        ELSE FlattenSeq([g \in 1..(Len(c) \div 4) |-> DecodedGroup(SubSeq(c, 4 * g - 3, 4 * g))])

\* Base64URL::decode completes the text with '=' before white space is taken
\* out, so that white space counts.
Completed(t) ==
    Standard(t) \o [i \in 1..((4 - (Len(t) % 4)) % 4) |-> Pad]

Decode(t) == Base64Decode(Completed(t))

-----------------------------------------------------------------------------
B64Init == content = <<>> /\ text = <<>> /\ edits = 0

\* A content is encoded.
Send(data) ==
    /\ content = <<>>
    /\ content' = data /\ text' = Encode(data) /\ edits' = 0

\* A character is exchanged, put in or left out.
Edit ==
    /\ edits < MaxEdits /\ content # <<>>
    /\ edits' = edits + 1
    /\ \/ \E i \in DOMAIN text, c \in {0, 63, Plus, Slash, Pad, Space, Other} :
              text' = [text EXCEPT ![i] = c]
       \/ \E i \in 1..(Len(text) + 1), c \in {0, 16, 63, Pad, Space} :
              text' = InsertAt(text, i, c)
       \/ \E i \in DOMAIN text : text' = RemoveAt(text, i)
    /\ UNCHANGED content

B64Next == Edit \/ \E n \in 1..MaxLength : \E data \in [1..n -> Octets] : Send(data)

B64Spec == B64Init /\ [][B64Next]_b64_vars

-----------------------------------------------------------------------------
(* Properties. *)

\* The encoder's own text is in the base64url alphabet, has no '=', and decodes
\* to the octets it was made of.
OwnTextRead ==
    edits = 0 => /\ Decode(text) = content
                 /\ \A i \in DOMAIN text : text[i] \in 0..63

\* The letters of a text by value, white space and '=' left out.
Letters(t) == UrlSafe(Kept(t, Chars \ {Space, Pad}))

\* The same letters, but for the bits of the last that stand for nothing.
SameLetters(t, data) ==
    LET s == Letters(t)
        r == Letters(Encode(data))
        unit == CASE Len(data) % 3 = 1 -> 16 [] Len(data) % 3 = 2 -> 4 [] OTHER -> 1
    IN  /\ Len(s) = Len(r)
        /\ \A i \in DOMAIN s : IF i < Len(s) THEN s[i] = r[i] ELSE s[i] \div unit = r[i] \div unit

\* '=' stands, after completion, where it completes no last group: before the
\* last two characters, or before a letter.
MisplacedPad(t) ==
    LET c == Cleaned(Completed(t))
    IN  \E i \in DOMAIN c : c[i] = Pad /\ (i < Len(c) - 1 \/ (i = Len(c) - 1 /\ c[i + 1] # Pad))

\* A changed text is taken for the same content just when it has the same letters
\* (in either alphabet, with '=' or without, the unused last bits as they may),
\* if it is accepted at all.  What is not so: a text with '=' in a wrong place is
\* accepted and may be read as anything.
SpellingsOfContent ==
    Decode(text) # Bad /\ ~MisplacedPad(text) => (Decode(text) = content <=> SameLetters(text, content))
=============================================================================
