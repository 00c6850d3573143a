---------------------------- MODULE Base64Proofs ---------------------------
(***************************************************************************)
(* What TLAPS proves of base64_encode and base64_decode for texts of any   *)
(* length and any number of threads and calls, while any other calls of    *)
(* Library go on: the decoder's table is complete once nobody is making    *)
(* one, and what was encoded is decoded to the same octets.                *)
(***************************************************************************)
EXTENDS Library, SequenceTheorems, TLAPS
-----------------------------------------------------------------------------
(* What the two encodings of a text are *)

Octet(text, j) == IF j <= Len(text) THEN text[j] ELSE 0

\* the octets of a group come back out of its letters
LEMMA OctetsOfLetters ==
    ASSUME NEW a \in B!Octet, NEW b \in B!Octet, NEW c \in B!Octet
    PROVE  LET l == B!Letters(a, b, c)
           IN  /\ l \in [1 .. 4 -> 0 .. 63]
               /\ l[1] * 4 + l[2] \div 16 = a
               /\ (l[2] % 16) * 16 + l[3] \div 4 = b
               /\ (l[3] % 4) * 64 + l[4] = c
<1> DEFINE l == B!Letters(a, b, c)
<1>1. a \in 0 .. 255 /\ b \in 0 .. 255 /\ c \in 0 .. 255
  BY DEF B!Octet
<1>2. /\ DOMAIN l = 1 .. 4
      /\ l[1] = a \div 4 /\ l[2] = (a % 4) * 16 + b \div 16
      /\ l[3] = (b % 16) * 4 + c \div 64 /\ l[4] = c % 64
      /\ l = [m \in 1 .. 4 |-> l[m]]
  BY DEF B!Letters
<1> HIDE DEF l
<1>3. l[1] \in 0 .. 63 /\ l[2] \in 0 .. 63 /\ l[3] \in 0 .. 63 /\ l[4] \in 0 .. 63
  BY <1>1, <1>2
<1>4. l \in [1 .. 4 -> 0 .. 63]
  BY <1>2, <1>3
<1>5. l[1] * 4 + l[2] \div 16 = a
  BY <1>1, <1>2
<1>6. (l[2] % 16) * 16 + l[3] \div 4 = b
  BY <1>1, <1>2
<1>7. (l[3] % 4) * 64 + l[4] = c
  BY <1>1, <1>2
<1> QED BY <1>4, <1>5, <1>6, <1>7 DEF l

\* Lengths of a text, of its groups of three octets and of its padding.
LEMMA TextFacts ==
    ASSUME NEW text \in Texts
    PROVE  /\ text \in Seq(B!Octet) /\ Len(text) \in Nat \ {0}
           /\ B!Groups(text) \in Nat \ {0} /\ B!Padding(text) \in 0 .. 2
           /\ Len(text) = 3 * B!Groups(text) - B!Padding(text)
           /\ \A j \in Nat \ {0} : Octet(text, j) \in B!Octet
<1>1. text \in Seq(B!Octet) /\ text # <<>>
  BY LibraryAssumption DEF B!Base64Constants
<1>2. Len(text) \in Nat \ {0}
  BY <1>1
<1>3. /\ B!Groups(text) \in Nat \ {0} /\ B!Padding(text) \in 0 .. 2
      /\ Len(text) = 3 * B!Groups(text) - B!Padding(text)
  <2> DEFINE len == Len(text)
             q == len \div 3
             r == len % 3
  <2>1. len = 3 * q + r /\ q \in Nat /\ r \in 0 .. 2 /\ (r = 0 => q > 0)
    BY <1>2
  <2>2. B!Groups(text) = IF r = 0 THEN q ELSE q + 1
    BY <1>2, <2>1 DEF B!Groups
  <2>3. B!Padding(text) = IF r = 1 THEN 2 ELSE IF r = 2 THEN 1 ELSE 0
    BY DEF B!Padding
  <2> HIDE DEF len, q, r
  <2> QED BY <2>1, <2>2, <2>3 DEF len
<1>4. \A j \in Nat \ {0} : Octet(text, j) \in B!Octet
  <2> TAKE j \in Nat \ {0}
  <2>1. CASE j <= Len(text)
    BY <1>1, <1>2, <2>1 DEF Octet
  <2>2. CASE ~(j <= Len(text))
    BY <2>2 DEF Octet, B!Octet
  <2> QED BY <2>1, <2>2
<1> QED BY <1>1, <1>2, <1>3, <1>4

\* letter m of group n + 1
LEMMA LetterOfGroup ==
    ASSUME NEW text \in Texts, NEW n \in 0 .. B!Groups(text) - 1, NEW m \in 1 .. 4
    PROVE  /\ B!LettersOf(text)[4 * n + m] =
                B!Letters(Octet(text, 3 * n + 1), Octet(text, 3 * n + 2),
                          Octet(text, 3 * n + 3))[m]
           /\ B!LettersOf(text)[4 * n + m] \in 0 .. 63
<1> DEFINE k == 4 * n + m
<1>1. k \in 1 .. 4 * B!Groups(text)
  BY TextFacts
<1>2. (k - 1) \div 4 = n /\ ((k - 1) % 4) + 1 = m
  <2>1. n \in Nat /\ m - 1 \in 0 .. 3 /\ k - 1 = 4 * n + (m - 1)
    BY TextFacts
  <2> HIDE DEF k
  <2> QED BY <2>1
<1>3. B!LettersOf(text)[k] =
        B!Letters(Octet(text, 3 * n + 1), Octet(text, 3 * n + 2), Octet(text, 3 * n + 3))[m]
  BY <1>1, <1>2 DEF B!LettersOf, Octet
<1>4. /\ Octet(text, 3 * n + 1) \in B!Octet /\ Octet(text, 3 * n + 2) \in B!Octet
      /\ Octet(text, 3 * n + 3) \in B!Octet
  BY TextFacts
<1>5. B!Letters(Octet(text, 3 * n + 1), Octet(text, 3 * n + 2), Octet(text, 3 * n + 3))[m]
        \in 0 .. 63
  BY <1>4, OctetsOfLetters
<1> QED BY <1>3, <1>5

\* Four letters for every group, none of them a padding.
LEMMA AllLetters ==
    ASSUME NEW text \in Texts
    PROVE  /\ B!LettersOf(text) \in Seq(0 .. 63)
           /\ Len(B!LettersOf(text)) = 4 * B!Groups(text)
<1> DEFINE G == B!Groups(text)
<1>1. \A k \in 1 .. 4 * G : B!LettersOf(text)[k] \in 0 .. 63
  <2> TAKE k \in 1 .. 4 * G
  <2> DEFINE n == (k - 1) \div 4
             m == ((k - 1) % 4) + 1
  <2>1. G \in Nat
    BY TextFacts
  <2>2. n \in 0 .. G - 1 /\ m \in 1 .. 4 /\ k = 4 * n + m
    <3>1. k \in Nat /\ k - 1 \in Nat /\ k - 1 < 4 * G
      BY <2>1
    <3>2. k - 1 = 4 * n + (m - 1) /\ n \in Nat /\ m \in 1 .. 4
      BY <3>1
    <3> HIDE DEF n, m
    <3> QED BY <2>1, <3>1, <3>2
  <2> QED BY <2>2, LetterOfGroup
<1>2. B!LettersOf(text) \in [1 .. 4 * G -> 0 .. 63]
  BY <1>1 DEF B!LettersOf
<1>3. 4 * G \in Nat
  BY TextFacts
<1> HIDE DEF G
<1>4. Len(B!LettersOf(text)) = 4 * G
  BY <1>2, <1>3
<1>5. B!LettersOf(text) \in Seq(0 .. 63)
  BY <1>2, <1>3, SeqDef
<1> QED BY <1>4, <1>5 DEF G

Encodings(text) == {B!base64_encode(text), B!Rfc4648(text)}

\* both encodings have the letters of the text, but for the padding of the last
\* group, and output_length finds out how many octets there were
LEMMA EncodingFacts ==
    ASSUME NEW text \in Texts, NEW data \in Encodings(text)
    PROVE  /\ data \in Seq(B!Letter)
           /\ Len(data) \in Nat /\ Len(data) >= 4 * B!Groups(text)
           /\ B!output_length(data) = Len(text)
           /\ \A k \in 1 .. 4 * B!Groups(text) - B!Padding(text) :
                  data[k] = B!LettersOf(text)[k]
<1> DEFINE G == B!Groups(text)
           P == B!Padding(text)
           s == B!LettersOf(text)
<1>1. /\ G \in Nat \ {0} /\ P \in 0 .. 2 /\ Len(text) = 3 * G - P
  BY TextFacts
<1>2. s \in Seq(0 .. 63) /\ Len(s) = 4 * G
  BY AllLetters
<1>3. \A k \in 1 .. 4 * G : s[k] \in 0 .. 63
  BY <1>2, ElementOfSeq
<1> HIDE DEF G, P, s
<1>4. CASE data = B!base64_encode(text)
  <2> DEFINE pads == [k \in 1 .. P |-> B!Pad]
  <2>1. data = s \o pads
    BY <1>4 DEF B!base64_encode, s, P
  <2>2. s \in Seq(B!Letter)
    BY <1>2, SeqDef DEF B!Letter
  <2>3. pads \in Seq(B!Letter) /\ Len(pads) = P /\ \A k \in 1 .. P : pads[k] = 64
    <3>1. pads \in [1 .. P -> B!Letter] /\ P \in Nat
      BY <1>1 DEF B!Letter, B!Pad
    <3> QED BY <3>1, SeqDef DEF B!Pad
  <2> HIDE DEF pads
  <2>4. data \in Seq(B!Letter) /\ Len(data) = 4 * G + P
    BY <1>2, <2>1, <2>2, <2>3, ConcatProperties
  <2>5. \A k \in 1 .. 4 * G + P : data[k] = IF k <= 4 * G THEN s[k] ELSE pads[k - 4 * G]
    BY <1>2, <2>1, <2>2, <2>3, ConcatProperties
  <2>6. \A k \in 1 .. 4 * G : data[k] = s[k] /\ data[k] # 64
    <3> TAKE k \in 1 .. 4 * G
    <3>1. k \in 1 .. 4 * G + P /\ k <= 4 * G
      BY <1>1
    <3>2. s[k] \in 0 .. 63
      BY <1>3
    <3> QED BY <2>5, <3>1, <3>2
  <2>7. \A k \in 4 * G + 1 .. 4 * G + P : data[k] = 64
    <3> TAKE k \in 4 * G + 1 .. 4 * G + P
    <3>1. k \in 1 .. 4 * G + P /\ ~(k <= 4 * G) /\ k - 4 * G \in 1 .. P
      BY <1>1
    <3> QED BY <2>3, <2>5, <3>1
  <2>8. B!output_length(data) = 3 * G - P
    <3>1. CASE P = 0
      <4>1. data[4 * G] # 64 /\ data[4 * G - 1] # 64
        BY <1>1, <2>6
      <4> QED BY <1>1, <2>4, <3>1, <4>1 DEF B!output_length, B!Pad
    <3>2. CASE P = 1
      <4>1. data[4 * G] # 64 /\ data[4 * G + 1] = 64
        BY <1>1, <2>6, <2>7, <3>2
      <4> QED BY <1>1, <2>4, <3>2, <4>1 DEF B!output_length, B!Pad
    <3>3. CASE P = 2
      <4>1. data[4 * G + 1] = 64 /\ data[4 * G + 2] = 64
        BY <1>1, <2>7, <3>3
      <4> QED BY <1>1, <2>4, <3>3, <4>1 DEF B!output_length, B!Pad
    <3> QED BY <1>1, <3>1, <3>2, <3>3
  <2>9. \A k \in 1 .. 4 * G - P : data[k] = s[k]
    BY <1>1, <2>6
  <2>10. Len(data) \in Nat /\ Len(data) >= 4 * G
    BY <1>1, <2>4
  <2> QED BY <1>1, <2>4, <2>8, <2>9, <2>10 DEF G, P, s
<1>5. CASE data = B!Rfc4648(text)
  <2>1. data = [k \in 1 .. 4 * G |-> IF k > 4 * G - P THEN 64 ELSE s[k]]
    BY <1>5 DEF B!Rfc4648, B!Pad, G, P, s
  <2>2. data \in [1 .. 4 * G -> B!Letter]
    <3> SUFFICES ASSUME NEW k \in 1 .. 4 * G
                 PROVE  (IF k > 4 * G - P THEN 64 ELSE s[k]) \in B!Letter
      BY <2>1
    <3>1. s[k] \in 0 .. 63
      BY <1>3
    <3> QED BY <3>1 DEF B!Letter
  <2>3. data \in Seq(B!Letter) /\ Len(data) = 4 * G
    BY <1>1, <2>2, SeqDef
  <2>4. \A k \in 1 .. 4 * G - P : data[k] = s[k] /\ data[k] # 64
    <3> TAKE k \in 1 .. 4 * G - P
    <3>1. k \in 1 .. 4 * G /\ ~(k > 4 * G - P)
      BY <1>1
    <3>2. s[k] \in 0 .. 63 /\ data[k] = s[k]
      BY <1>3, <2>1, <3>1
    <3> QED BY <3>2
  <2>5. \A k \in 4 * G - P + 1 .. 4 * G : data[k] = 64
    <3> TAKE k \in 4 * G - P + 1 .. 4 * G
    <3>1. k \in 1 .. 4 * G /\ k > 4 * G - P
      BY <1>1
    <3> QED BY <2>1, <3>1
  <2>6. B!output_length(data) = 3 * G - P
    <3>1. CASE P = 0
      <4>1. data[4 * G] # 64 /\ data[4 * G - 1] # 64
        BY <1>1, <2>4, <3>1
      <4> QED BY <1>1, <2>3, <3>1, <4>1 DEF B!output_length, B!Pad
    <3>2. CASE P = 1
      <4>1. data[4 * G - 1] # 64 /\ data[4 * G] = 64
        BY <1>1, <2>4, <2>5, <3>2
      <4> QED BY <1>1, <2>3, <3>2, <4>1 DEF B!output_length, B!Pad
    <3>3. CASE P = 2
      <4>1. data[4 * G - 1] = 64 /\ data[4 * G] = 64
        BY <1>1, <2>5, <3>3
      <4> QED BY <1>1, <2>3, <3>3, <4>1 DEF B!output_length, B!Pad
    <3> QED BY <1>1, <3>1, <3>2, <3>3
  <2>7. Len(data) \in Nat /\ Len(data) >= 4 * G
    BY <1>1, <2>3
  <2> QED BY <1>1, <2>3, <2>4, <2>6, <2>7 DEF G, P, s
<1> QED BY <1>4, <1>5 DEF Encodings

\* the letters that octet r of group n + 1 is made of
LEMMA LettersOfOctet ==
    ASSUME NEW text \in Texts, NEW data \in Encodings(text), NEW n \in Nat, NEW r \in 1 .. 3,
           3 * n + r <= Len(text)
    PROVE  LET l == B!Letters(Octet(text, 3 * n + 1), Octet(text, 3 * n + 2),
                              Octet(text, 3 * n + 3))
           IN  /\ 4 * n + r + 1 <= Len(data)
               /\ data[4 * n + r] = l[r] /\ data[4 * n + (r + 1)] = l[r + 1]
               /\ l \in [1 .. 4 -> 0 .. 63]
<1> DEFINE G == B!Groups(text)
           P == B!Padding(text)
           l == B!Letters(Octet(text, 3 * n + 1), Octet(text, 3 * n + 2),
                          Octet(text, 3 * n + 3))
<1>1. /\ G \in Nat \ {0} /\ P \in 0 .. 2 /\ Len(text) = 3 * G - P
  BY TextFacts
<1>2. n \in 0 .. G - 1 /\ 4 * n + (r + 1) <= 4 * G - P
  BY <1>1
<1>3. B!LettersOf(text)[4 * n + r] = l[r]
  <2>1. n \in 0 .. B!Groups(text) - 1 /\ r \in 1 .. 4
    BY <1>2
  <2> QED BY <2>1, LetterOfGroup
<1>4. B!LettersOf(text)[4 * n + (r + 1)] = l[r + 1]
  <2>1. n \in 0 .. B!Groups(text) - 1 /\ r + 1 \in 1 .. 4
    BY <1>2
  <2> QED BY <2>1, LetterOfGroup
<1>5. l \in [1 .. 4 -> 0 .. 63]
  <2>1. 3 * n + 1 \in Nat \ {0} /\ 3 * n + 2 \in Nat \ {0} /\ 3 * n + 3 \in Nat \ {0}
    OBVIOUS
  <2>2. /\ Octet(text, 3 * n + 1) \in B!Octet /\ Octet(text, 3 * n + 2) \in B!Octet
        /\ Octet(text, 3 * n + 3) \in B!Octet
    BY <2>1, TextFacts
  <2> QED BY <2>2, OctetsOfLetters
<1>6. /\ data[4 * n + r] = B!LettersOf(text)[4 * n + r]
      /\ data[4 * n + (r + 1)] = B!LettersOf(text)[4 * n + (r + 1)]
  <2>1. 4 * n + r \in 1 .. 4 * G - P /\ 4 * n + (r + 1) \in 1 .. 4 * G - P
    BY <1>1, <1>2
  <2> QED BY <2>1, EncodingFacts
<1>7. 4 * n + r + 1 <= Len(data)
  <2>1. Len(data) \in Nat /\ Len(data) >= 4 * G
    BY EncodingFacts
  <2> HIDE DEF G, P
  <2> QED BY <1>1, <1>2, <2>1
<1> QED BY <1>3, <1>4, <1>5, <1>6, <1>7

-----------------------------------------------------------------------------
(* The inductive invariant *)

\* Whoever made the table that the static pointer points to fills it up to the
\* end, whichever other tables other threads fill or have made.
TableInv ==
    decoding_table # nullptr =>
        \/ filled[decoding_table] = B!Blocks
        \/ \E t \in Threads :
              /\ decoding[t] # nullptr /\ decoding[t].pc = "fill"
              /\ decoding[t].table = decoding_table
              /\ 0 .. decoding[t].block - 1 \subseteq filled[decoding_table]

\* output is what the first n groups of text's letters stand for
Decoded(text, n, output) ==
    /\ Len(output) = IF 3 * n <= Len(text) THEN 3 * n ELSE Len(text)
    /\ \A j \in 1 .. Len(output) : output[j] = text[j]

\* where a call is, and what it has decoded so far
CallInv(c, table) ==
    /\ c.text \in Texts /\ c.data \in Encodings(c.text)
    /\ \E n \in Nat : c.i = 4 * n + 1 /\ (~c.disturbed => Decoded(c.text, n, c.output))
    /\ c.pc \in {"fill", "loop"} => table # nullptr
    /\ c.pc \in {"test", "malloc"} => c.block = 0
    /\ c.pc = "fill" => c.block \in B!Blocks /\ c.table \in B!Tables
    /\ c.pc = "done" => c.i > Len(c.data)

DecodeInv ==
    /\ B!TypeOK
    /\ TableInv
    /\ \A t \in Threads :
          decoding[t] # nullptr => CallInv(decoding[t], decoding_table)

\* The blocks in which the table is filled, counted from 0, cover every letter.
LEMMA BlockFacts ==
    /\ B!Blocks \subseteq Nat /\ 0 \in B!Blocks
    /\ \A b \in B!Blocks : b + 1 \notin B!Blocks => 0 .. b = B!Blocks
    /\ \A l \in 0 .. 63 : l \div FillStep \in B!Blocks
<1>1. FillStep \in {1, 2, 4, 8, 16, 32, 64}
  BY LibraryAssumption DEF B!Base64Constants
<1>2. PICK m \in Nat : B!Blocks = 0 .. m
  BY <1>1 DEF B!Blocks
<1>3. \A l \in 0 .. 63 : l \div FillStep \in B!Blocks
  BY <1>1 DEF B!Blocks
<1>4. B!Blocks \subseteq Nat /\ 0 \in B!Blocks
  BY <1>2
<1>5. \A b \in B!Blocks : b + 1 \notin B!Blocks => 0 .. b = B!Blocks
  BY <1>2
<1> QED BY <1>3, <1>4, <1>5

\* There is no table and no call at the start.
LEMMA DecodeInit ==
    ASSUME Init
    PROVE  DecodeInv
<1> USE LibraryAssumption DEF Init, B!Init
<1>1. B!TypeOK
  BY DEF B!TypeOK
<1>2. TableInv
  BY DEF TableInv
<1>3. \A t \in Threads : decoding[t] # nullptr => CallInv(decoding[t], decoding_table)
  OBVIOUS
<1> QED BY <1>1, <1>2, <1>3 DEF DecodeInv

\* A call begins with nothing decoded.
LEMMA DecodeStart ==
    ASSUME DecodeInv, NEW t \in Threads, NEW text \in Texts, NEW data \in Encodings(text),
           B!Start(t, text, data)
    PROVE  DecodeInv'
<1> DEFINE c == [text |-> text, data |-> data, pc |-> "test", block |-> 0, table |-> nullptr,
                 i |-> 1, output |-> <<>>, disturbed |-> FALSE]
<1>1. decoding' = [decoding EXCEPT ![t] = c]
  BY DEF B!Start
<1>2. decoding_table' = decoding_table /\ filled' = filled /\ tables' = tables
  BY DEF B!Start
<1>3. c \in B!Call
  <2>1. FALSE \in BOOLEAN
    OBVIOUS
  <2>2. text \in Seq(B!Octet) /\ data \in Seq(B!Letter) /\ <<>> \in Seq(B!Octet \cup {Garbage})
    BY TextFacts, EncodingFacts
  <2> QED BY <2>1, <2>2 DEF B!Call
<1>4. B!TypeOK'
  BY <1>1, <1>2, <1>3 DEF DecodeInv, B!TypeOK
<1>5. TableInv'
  BY <1>1, <1>2 DEF DecodeInv, TableInv, B!TypeOK, B!Start, B!Idle
<1>6. CallInv(c, decoding_table')
  <2>1. Decoded(text, 0, <<>>)
    BY TextFacts DEF Decoded
  <2> QED BY <2>1 DEF CallInv
<1>7. \A u \in Threads : decoding'[u] # nullptr => CallInv(decoding'[u], decoding_table')
  BY <1>1, <1>2, <1>6 DEF DecodeInv, CallInv, B!TypeOK
<1> QED BY <1>4, <1>5, <1>7 DEF DecodeInv

\* the call of a thread that is in base64_decode
LEMMA CallFacts ==
    ASSUME DecodeInv, NEW t \in Threads, ~B!Idle(t)
    PROVE  decoding[t] # nullptr /\ decoding[t] \in B!Call /\ CallInv(decoding[t], decoding_table)
  BY DEF DecodeInv, B!TypeOK, B!Idle

\* A thread that finds a table goes on to its loop.
LEMMA DecodeTest ==
    ASSUME DecodeInv, NEW t \in Threads, B!Test(t)
    PROVE  DecodeInv'
<1> DEFINE c == decoding[t]
           d == [c EXCEPT !.pc = IF decoding_table = nullptr THEN "malloc" ELSE "loop"]
<1>1. c # nullptr /\ c \in B!Call /\ CallInv(c, decoding_table) /\ c.pc = "test"
  BY CallFacts DEF B!Test, B!At
<1>2. /\ decoding' = [decoding EXCEPT ![t] = d]
      /\ decoding_table' = decoding_table /\ filled' = filled /\ tables' = tables
  BY DEF B!Test
<1>3. d \in B!Call
  BY <1>1 DEF B!Call
<1>4. B!TypeOK'
  BY <1>2, <1>3 DEF DecodeInv, B!TypeOK
<1>5. TableInv'
  BY <1>1, <1>2 DEF DecodeInv, TableInv, B!TypeOK
<1>6. CallInv(d, decoding_table')
  BY <1>1, <1>2 DEF CallInv, B!Call
<1>7. \A u \in Threads : decoding'[u] # nullptr => CallInv(decoding'[u], decoding_table')
  BY <1>2, <1>6 DEF DecodeInv, CallInv, B!TypeOK
<1> QED BY <1>4, <1>5, <1>7 DEF DecodeInv

\* The new table is the one that is left until somebody makes another.
LEMMA DecodeMalloc ==
    ASSUME DecodeInv, NEW t \in Threads, B!Malloc(t)
    PROVE  DecodeInv'
<1> DEFINE c == decoding[t]
           d == [c EXCEPT !.pc = "fill", !.table = tables + 1]
<1>1. c # nullptr /\ c \in B!Call /\ CallInv(c, decoding_table) /\ c.pc = "malloc"
  BY CallFacts DEF B!Malloc, B!At
<1>2. /\ decoding' = [decoding EXCEPT ![t] = d]
      /\ decoding_table' = tables + 1 /\ filled' = filled /\ tables' = tables + 1
      /\ tables < MaxCalls
  BY DEF B!Malloc
<1>3. MaxCalls \in Nat /\ tables \in 0 .. MaxCalls
  BY LibraryAssumption DEF DecodeInv, B!TypeOK
<1>4. tables + 1 \in B!Tables /\ tables + 1 # nullptr /\ tables' \in 0 .. MaxCalls
  BY <1>2, <1>3, LibraryAssumption DEF B!Tables, B!Base64Constants
<1>5. d \in B!Call /\ d # nullptr
  <2>1. d \in B!Call
    BY <1>1, <1>4 DEF B!Call
  <2> QED BY <2>1, LibraryAssumption DEF B!Base64Constants
<1>6. B!TypeOK'
  BY <1>2, <1>4, <1>5 DEF DecodeInv, B!TypeOK
<1>7. c.block = 0
  BY <1>1 DEF CallInv
<1>8. TableInv'
  <2>1. decoding'[t] = d
    BY <1>2 DEF DecodeInv, B!TypeOK
  <2>2. d.pc = "fill" /\ d.table = decoding_table' /\ d.block = 0
    BY <1>1, <1>2, <1>7 DEF B!Call
  <2> HIDE DEF d
  <2>3. 0 .. d.block - 1 \subseteq filled'[decoding_table']
    BY <2>2
  <2> QED BY <1>5, <2>1, <2>2, <2>3 DEF TableInv
<1>9. CallInv(d, decoding_table')
  <2>1. /\ d.text = c.text /\ d.data = c.data /\ d.i = c.i /\ d.output = c.output
        /\ d.disturbed = c.disturbed /\ d.pc = "fill" /\ d.block = 0 /\ d.table = tables + 1
    BY <1>1, <1>7 DEF B!Call
  <2> HIDE DEF d
  <2> QED BY <1>1, <1>2, <1>4, <2>1, BlockFacts DEF CallInv
<1>10. \A u \in Threads : decoding'[u] # nullptr => CallInv(decoding'[u], decoding_table')
  <2> SUFFICES ASSUME NEW u \in Threads, decoding'[u] # nullptr
               PROVE  CallInv(decoding'[u], decoding_table')
    OBVIOUS
  <2>1. CASE u = t
    BY <1>2, <1>9, <2>1 DEF DecodeInv, B!TypeOK
  <2>2. CASE u # t
    <3>1. decoding'[u] = decoding[u] /\ CallInv(decoding[u], decoding_table)
      BY <1>2, <2>2 DEF DecodeInv, B!TypeOK
    <3> QED BY <1>2, <1>4, <3>1 DEF CallInv
  <2> QED BY <2>1, <2>2
<1> QED BY <1>6, <1>8, <1>10 DEF DecodeInv

\* Whichever of the two tables a thread fills, one that is finished is
\* complete.
LEMMA DecodeFill ==
    ASSUME DecodeInv, NEW t \in Threads, B!Fill(t)
    PROVE  DecodeInv'
<1> DEFINE c == decoding[t]
           b == c.block
           d == [c EXCEPT !.block = b + 1, !.pc = IF b + 1 \in B!Blocks THEN "fill" ELSE "loop"]
<1>1. c # nullptr /\ c \in B!Call /\ CallInv(c, decoding_table) /\ c.pc = "fill"
  BY CallFacts DEF B!Fill, B!At
<1>2. PICK x \in {decoding_table, c.table} :
          filled' = [filled EXCEPT ![x] = @ \cup {b}]
  BY DEF B!Fill
<1>3. /\ decoding' = [decoding EXCEPT ![t] = d]
      /\ decoding_table' = decoding_table /\ tables' = tables
  BY DEF B!Fill
<1>4. /\ decoding_table # nullptr /\ decoding_table \in B!Tables
      /\ c.table \in B!Tables /\ b \in B!Blocks /\ b \in Nat
  BY <1>1, BlockFacts DEF CallInv, DecodeInv, B!TypeOK
<1>5. d \in B!Call /\ d # nullptr
  <2> DEFINE pc == IF b + 1 \in B!Blocks THEN "fill" ELSE "loop"
  <2>1. pc \in {"test", "malloc", "fill", "loop", "done"} /\ b + 1 \in Nat
    BY <1>4
  <2>2. d = [c EXCEPT !.block = b + 1, !.pc = pc]
    OBVIOUS
  <2> HIDE DEF d, pc
  <2>3. d \in B!Call
    BY <1>1, <2>1, <2>2 DEF B!Call
  <2> QED BY <2>3, LibraryAssumption DEF B!Base64Constants
<1>6. filled \in [B!Tables -> SUBSET B!Blocks] /\ filled' \in [B!Tables -> SUBSET B!Blocks]
  BY <1>2, <1>4 DEF DecodeInv, B!TypeOK
<1>7. B!TypeOK'
  BY <1>3, <1>5, <1>6 DEF DecodeInv, B!TypeOK
<1>8. decoding'[t] = d /\ \A u \in Threads \ {t} : decoding'[u] = decoding[u]
  BY <1>3 DEF DecodeInv, B!TypeOK
<1>9. /\ filled[decoding_table] \subseteq filled'[decoding_table]
      /\ c.table = decoding_table => b \in filled'[decoding_table]
  BY <1>2, <1>4, <1>6
<1>10. TableInv'
  <2>1. CASE filled[decoding_table] = B!Blocks
    <3>1. filled'[decoding_table] = B!Blocks
      BY <1>4, <1>6, <1>9, <2>1
    <3> QED BY <1>3, <3>1 DEF TableInv
  <2>2. CASE filled[decoding_table] # B!Blocks
    <3>1. PICK u \in Threads :
              /\ decoding[u] # nullptr /\ decoding[u].pc = "fill"
              /\ decoding[u].table = decoding_table
              /\ 0 .. decoding[u].block - 1 \subseteq filled[decoding_table]
      BY <1>4, <2>2 DEF DecodeInv, TableInv
    <3>2. CASE u # t
      BY <1>3, <1>8, <1>9, <3>1, <3>2 DEF TableInv
    <3>3. CASE u = t
      <4>1. 0 .. b \subseteq filled'[decoding_table]
        <5>1. 0 .. b - 1 \subseteq filled'[decoding_table] /\ b \in filled'[decoding_table]
          BY <1>9, <3>1, <3>3
        <5> QED BY <1>4, <5>1
      <4>2. CASE b + 1 \in B!Blocks
        <5>1. d.pc = "fill" /\ d.table = decoding_table /\ d.block = b + 1
          BY <1>1, <3>1, <3>3, <4>2 DEF B!Call
        <5>2. 0 .. d.block - 1 \subseteq filled'[decoding_table]
          BY <1>4, <4>1, <5>1
        <5> HIDE DEF d
        <5> QED BY <1>3, <1>5, <1>8, <5>1, <5>2 DEF TableInv
      <4>3. CASE b + 1 \notin B!Blocks
        <5>1. filled'[decoding_table] = B!Blocks
          BY <1>4, <1>6, <4>1, <4>3, BlockFacts
        <5> QED BY <1>3, <5>1 DEF TableInv
      <4> QED BY <4>2, <4>3
    <3> QED BY <3>2, <3>3
  <2> QED BY <2>1, <2>2
<1>11. CallInv(d, decoding_table')
  BY <1>1, <1>3, <1>4 DEF CallInv, B!Call
<1>12. \A u \in Threads : decoding'[u] # nullptr => CallInv(decoding'[u], decoding_table')
  <2> SUFFICES ASSUME NEW u \in Threads, decoding'[u] # nullptr
               PROVE  CallInv(decoding'[u], decoding_table')
    OBVIOUS
  <2>1. CASE u = t
    BY <1>8, <1>11, <2>1
  <2>2. CASE u # t
    <3>1. decoding'[u] = decoding[u] /\ CallInv(decoding[u], decoding_table)
      BY <1>8, <2>2 DEF DecodeInv
    <3> QED BY <1>3, <3>1 DEF CallInv
  <2> QED BY <2>1, <2>2
<1> QED BY <1>7, <1>10, <1>12 DEF DecodeInv

-----------------------------------------------------------------------------
(* One turn of the decoder's loop *)

\* A sextet has six bits or is garbage.
LEMMA SextetType ==
    ASSUME NEW data \in Seq(B!Letter), NEW k \in Nat \ {0}
    PROVE  B!Sextet(data, k) \in (0 .. 63) \cup {Garbage}
<1>1. CASE k > Len(data)
  BY <1>1 DEF B!Sextet
<1>2. CASE ~(k > Len(data))
  <2>1. data[k] \in 0 .. 64
    <3>1. k \in 1 .. Len(data)
      BY <1>2
    <3> QED BY <3>1, ElementOfSeq DEF B!Letter
  <2> QED BY <1>2, <2>1 DEF B!Sextet, B!Pad
<1> QED BY <1>1, <1>2

\* The octets of four sextets one by one.
LEMMA ThreeOctets ==
    ASSUME NEW s
    PROVE  /\ B!Octets(s)[1] = IF Garbage \in {s[1], s[2]} THEN Garbage
                               ELSE s[1] * 4 + s[2] \div 16
           /\ B!Octets(s)[2] = IF Garbage \in {s[2], s[3]} THEN Garbage
                               ELSE (s[2] % 16) * 16 + s[3] \div 4
           /\ B!Octets(s)[3] = IF Garbage \in {s[3], s[4]} THEN Garbage
                               ELSE (s[3] % 4) * 64 + s[4]
  BY DEF B!Octets

\* An octet has eight bits or is garbage.
LEMMA OctetsType ==
    ASSUME NEW s \in [1 .. 4 -> (0 .. 63) \cup {Garbage}], NEW r \in 1 .. 3
    PROVE  B!Octets(s)[r] \in B!Octet \cup {Garbage}
<1> DEFINE T == B!Octet \cup {Garbage}
<1>1. (IF Garbage \in {s[1], s[2]} THEN Garbage ELSE s[1] * 4 + s[2] \div 16) \in T
  <2>1. CASE Garbage \notin {s[1], s[2]}
    <3>1. s[1] \in 0 .. 63 /\ s[2] \in 0 .. 63
      BY <2>1
    <3>2. s[1] * 4 + s[2] \div 16 \in 0 .. 255
      BY <3>1
    <3> QED BY <3>2 DEF B!Octet
  <2> QED BY <2>1
<1>2. (IF Garbage \in {s[2], s[3]} THEN Garbage ELSE (s[2] % 16) * 16 + s[3] \div 4) \in T
  <2>1. CASE Garbage \notin {s[2], s[3]}
    <3>1. s[2] \in 0 .. 63 /\ s[3] \in 0 .. 63
      BY <2>1
    <3>2. (s[2] % 16) * 16 + s[3] \div 4 \in 0 .. 255
      BY <3>1
    <3> QED BY <3>2 DEF B!Octet
  <2> QED BY <2>1
<1>3. (IF Garbage \in {s[3], s[4]} THEN Garbage ELSE (s[3] % 4) * 64 + s[4]) \in T
  <2>1. CASE Garbage \notin {s[3], s[4]}
    <3>1. s[3] \in 0 .. 63 /\ s[4] \in 0 .. 63
      BY <2>1
    <3>2. (s[3] % 4) * 64 + s[4] \in 0 .. 255
      BY <3>1
    <3> QED BY <3>2 DEF B!Octet
  <2> QED BY <2>1
<1> HIDE DEF T
<1>4. B!Octets(s)[1] \in T /\ B!Octets(s)[2] \in T /\ B!Octets(s)[3] \in T
  BY <1>1, <1>2, <1>3, ThreeOctets
<1> QED BY <1>4 DEF T

\* The least of three and another number.
LEMMA MinOfThree ==
    ASSUME NEW k \in Int
    PROVE  B!Min({3, k}) = IF k < 3 THEN k ELSE 3
<1> DEFINE m == IF k < 3 THEN k ELSE 3
<1>1. m \in {3, k} /\ \A j \in {3, k} : m <= j
  OBVIOUS
<1>2. \A m2 \in {3, k} : (\A j \in {3, k} : m2 <= j) => m2 = m
  OBVIOUS
<1> QED BY <1>1, <1>2 DEF B!Min

\* Garbage is no letter.
LEMMA NoGarbage == Garbage \notin 0 .. 64
<1>1. Garbage \notin B!Octet \cup B!Letter
  BY LibraryAssumption DEF B!Base64Constants
<1> QED BY <1>1 DEF B!Letter

\* With a complete table a letter has its own sextet.
LEMMA SextetOfLetter ==
    ASSUME filled[decoding_table] = B!Blocks, NEW data, NEW k \in Nat, Len(data) \in Nat,
           k <= Len(data), data[k] \in 0 .. 63
    PROVE  B!Sextet(data, k) = data[k]
<1>1. ~(k > Len(data))
  OBVIOUS
<1>2. data[k] # B!Pad
  <2>1. 64 \notin 0 .. 63
    OBVIOUS
  <2> QED BY <2>1, Zenon DEF B!Pad
<1>3. data[k] \div FillStep \in B!Blocks
  BY BlockFacts, Zenon
<1> QED BY <1>1, <1>2, <1>3, Zenon DEF B!Sextet

\* octet r needs letters r and r + 1 only
LEMMA OctetOfSextets ==
    ASSUME NEW a \in B!Octet, NEW b \in B!Octet, NEW c \in B!Octet,
           NEW r \in 1 .. 3, NEW s,
           s[r] = B!Letters(a, b, c)[r], s[r + 1] = B!Letters(a, b, c)[r + 1]
    PROVE  B!Octets(s)[r] = IF r = 1 THEN a ELSE IF r = 2 THEN b ELSE c
<1> DEFINE l == B!Letters(a, b, c)
<1>1. /\ l \in [1 .. 4 -> 0 .. 63]
      /\ l[1] * 4 + l[2] \div 16 = a
      /\ (l[2] % 16) * 16 + l[3] \div 4 = b
      /\ (l[3] % 4) * 64 + l[4] = c
  BY OctetsOfLetters
<1> HIDE DEF l
<1>2. \A m \in 1 .. 4 : l[m] # Garbage
  BY <1>1, NoGarbage
<1>3. CASE r = 1
  <2>1. s[1] = l[1] /\ s[2] = l[2]
    BY <1>3 DEF l
  <2>2. Garbage \notin {s[1], s[2]}
    BY <1>2, <2>1
  <2>3. B!Octets(s)[1] = l[1] * 4 + l[2] \div 16
    BY <2>1, <2>2, ThreeOctets, Zenon
  <2> QED BY <1>1, <1>3, <2>3
<1>4. CASE r = 2
  <2>1. s[2] = l[2] /\ s[3] = l[3]
    BY <1>4 DEF l
  <2>2. Garbage \notin {s[2], s[3]}
    BY <1>2, <2>1
  <2>3. B!Octets(s)[2] = (l[2] % 16) * 16 + l[3] \div 4
    BY <2>1, <2>2, ThreeOctets, Zenon
  <2> QED BY <1>1, <1>4, <2>3
<1>5. CASE r = 3
  <2>1. s[3] = l[3] /\ s[4] = l[4]
    BY <1>5 DEF l
  <2>2. Garbage \notin {s[3], s[4]}
    BY <1>2, <2>1
  <2>3. B!Octets(s)[3] = (l[3] % 4) * 64 + l[4]
    BY <2>1, <2>2, ThreeOctets, Zenon
  <2> QED BY <1>1, <1>5, <2>3
<1> QED BY <1>3, <1>4, <1>5

\* the sextets that a turn reads at place 4 * n + 1
Sextets(data, n) == [m \in 1 .. 4 |-> B!Sextet(data, (4 * n + 1) + m - 1)]

\* with a complete table, octet r of a turn is the text's
LEMMA OctetRight ==
    ASSUME NEW text \in Texts, NEW data \in Encodings(text), NEW n \in Nat, NEW r \in 1 .. 3,
           3 * n + r <= Len(text), filled[decoding_table] = B!Blocks
    PROVE  B!Octets(Sextets(data, n))[r] = text[3 * n + r]
<1> DEFINE a == Octet(text, 3 * n + 1)
           b == Octet(text, 3 * n + 2)
           c == Octet(text, 3 * n + 3)
           l == B!Letters(a, b, c)
           s == Sextets(data, n)
<1>1. /\ 4 * n + r + 1 <= Len(data)
      /\ data[4 * n + r] = l[r] /\ data[4 * n + (r + 1)] = l[r + 1]
      /\ l \in [1 .. 4 -> 0 .. 63]
  BY LettersOfOctet
<1>2. Len(data) \in Nat
  BY EncodingFacts
<1>3. a \in B!Octet /\ b \in B!Octet /\ c \in B!Octet
  <2>1. 3 * n + 1 \in Nat \ {0} /\ 3 * n + 2 \in Nat \ {0} /\ 3 * n + 3 \in Nat \ {0}
    OBVIOUS
  <2> QED BY <2>1, TextFacts
<1>4. text[3 * n + r] = IF r = 1 THEN a ELSE IF r = 2 THEN b ELSE c
  BY DEF Octet
<1> HIDE DEF a, b, c, l
<1>5. l[r] \in 0 .. 63 /\ l[r + 1] \in 0 .. 63
  <2>1. r \in 1 .. 4 /\ r + 1 \in 1 .. 4
    OBVIOUS
  <2> QED BY <1>1, <2>1
<1>6. s[r] = B!Sextet(data, 4 * n + r) /\ s[r + 1] = B!Sextet(data, 4 * n + (r + 1))
  <2>1. r \in 1 .. 4 /\ r + 1 \in 1 .. 4
    OBVIOUS
  <2>2. (4 * n + 1) + r - 1 = 4 * n + r /\ (4 * n + 1) + (r + 1) - 1 = 4 * n + (r + 1)
    OBVIOUS
  <2> QED BY <2>1, <2>2, Zenon DEF Sextets
<1> HIDE DEF s
<1>7. s[r] = l[r]
  <2>1. 4 * n + r \in Nat /\ 4 * n + r <= Len(data)
    BY <1>1, <1>2
  <2> QED BY <1>1, <1>2, <1>5, <1>6, <2>1, SextetOfLetter
<1>8. s[r + 1] = l[r + 1]
  <2>1. 4 * n + (r + 1) \in Nat /\ 4 * n + (r + 1) <= Len(data)
    BY <1>1, <1>2
  <2> QED BY <1>1, <1>2, <1>5, <1>6, <2>1, SextetOfLetter
<1>9. B!Octets(s)[r] = IF r = 1 THEN a ELSE IF r = 2 THEN b ELSE c
  BY <1>3, <1>7, <1>8, OctetOfSextets DEF l
<1> QED BY <1>4, <1>9 DEF s

\* what a turn appends: of a text, the next group of octets
LEMMA TurnType ==
    ASSUME NEW data \in Seq(B!Letter), NEW n \in Nat, NEW k \in Int
    PROVE  LET new == SubSeq(B!Octets(Sextets(data, n)), 1, B!Min({3, k}))
           IN  /\ new \in Seq(B!Octet \cup {Garbage})
               /\ Len(new) = IF k < 1 THEN 0 ELSE IF k < 3 THEN k ELSE 3
               /\ \A r \in 1 .. Len(new) : new[r] = B!Octets(Sextets(data, n))[r]
<1> DEFINE octets == B!Octets(Sextets(data, n))
           m == B!Min({3, k})
           T == B!Octet \cup {Garbage}
           new == SubSeq(octets, 1, m)
<1>1. m \in Int /\ m = IF k < 3 THEN k ELSE 3
  BY MinOfThree
<1>2. Sextets(data, n) \in [1 .. 4 -> (0 .. 63) \cup {Garbage}]
  <2> SUFFICES ASSUME NEW j \in 1 .. 4
               PROVE  B!Sextet(data, (4 * n + 1) + j - 1) \in (0 .. 63) \cup {Garbage}
    BY DEF Sextets
  <2>1. (4 * n + 1) + j - 1 \in Nat \ {0}
    OBVIOUS
  <2> QED BY <2>1, SextetType
<1>3. \A r \in 1 .. 3 : octets[r] \in T
  BY <1>2, OctetsType
<1> HIDE DEF octets, m, T
<1>4. \A r \in 1 .. m : octets[r] \in T
  BY <1>1, <1>3
<1>5. /\ new \in Seq(T)
      /\ Len(new) = IF 1 <= m THEN m - 1 + 1 ELSE 0
      /\ \A r \in 1 .. m - 1 + 1 : new[r] = octets[1 + r - 1]
  BY <1>1, <1>4, SubSeqProperties
<1>6. Len(new) = IF k < 1 THEN 0 ELSE IF k < 3 THEN k ELSE 3
  BY <1>1, <1>5
<1>7. \A r \in 1 .. Len(new) : new[r] = octets[r]
  <2> TAKE r \in 1 .. Len(new)
  <2>1. r \in 1 .. m - 1 + 1 /\ 1 + r - 1 = r
    BY <1>1, <1>5
  <2> QED BY <1>5, <2>1
<1> QED BY <1>5, <1>6, <1>7 DEF octets, m, T

\* One turn of the loop decodes one more group of the text, and nothing beyond
\* its end.
LEMMA TurnDecodes ==
    ASSUME NEW text \in Texts, NEW data \in Encodings(text), NEW n \in Nat,
           NEW output \in Seq(B!Octet \cup {Garbage}), Decoded(text, n, output),
           filled[decoding_table] = B!Blocks
    PROVE  Decoded(text, n + 1,
                   output \o SubSeq(B!Octets(Sextets(data, n)), 1,
                                    B!Min({3, B!output_length(data) - Len(output)})))
<1> DEFINE k == B!output_length(data) - Len(output)
           new == SubSeq(B!Octets(Sextets(data, n)), 1, B!Min({3, k}))
           len == Len(text)
<1>1. len \in Nat /\ Len(output) \in Nat /\ B!output_length(data) = len
  BY TextFacts, EncodingFacts
<1>2. Len(output) = IF 3 * n <= len THEN 3 * n ELSE len
  BY DEF Decoded
<1>3. \A j \in 1 .. Len(output) : output[j] = text[j]
  BY DEF Decoded
<1>4. k \in Int /\ k = len - Len(output)
  BY <1>1
<1>5. /\ new \in Seq(B!Octet \cup {Garbage})
      /\ Len(new) = IF k < 1 THEN 0 ELSE IF k < 3 THEN k ELSE 3
      /\ \A r \in 1 .. Len(new) : new[r] = B!Octets(Sextets(data, n))[r]
  <2>1. data \in Seq(B!Letter)
    BY EncodingFacts
  <2> QED BY <1>4, <2>1, TurnType
<1>6. \A r \in 1 .. 3 : 3 * n + r <= len => B!Octets(Sextets(data, n))[r] = text[3 * n + r]
  BY OctetRight
<1> HIDE DEF k, new, len
<1>7. /\ Len(output \o new) = Len(output) + Len(new)
      /\ \A j \in 1 .. Len(output) + Len(new) :
            (output \o new)[j] = IF j <= Len(output) THEN output[j] ELSE new[j - Len(output)]
  BY <1>5, ConcatProperties
<1>8. Len(output \o new) = IF 3 * (n + 1) <= len THEN 3 * (n + 1) ELSE len
  BY <1>1, <1>2, <1>4, <1>5, <1>7
<1>9. \A j \in 1 .. Len(output \o new) : (output \o new)[j] = text[j]
  <2> TAKE j \in 1 .. Len(output \o new)
  <2>1. /\ j \in 1 .. Len(output) + Len(new) /\ j <= Len(output) + Len(new) /\ j \in Nat
        /\ Len(new) \in 0 .. 3 /\ Len(new) \in Nat /\ Len(new) <= 3
    BY <1>1, <1>4, <1>5, <1>7
  <2>2. CASE j <= Len(output)
    <3>1. j \in 1 .. Len(output)
      BY <1>1, <2>1, <2>2
    <3> QED BY <1>3, <1>7, <2>1, <2>2, <3>1
  <2>3. CASE ~(j <= Len(output))
    <3> DEFINE r == j - Len(output)
    <3>1. r \in 1 .. Len(new) /\ r \in 1 .. 3
      <4>1. \A a, b \in Nat : b <= 3 /\ j <= a + b /\ ~(j <= a)
                              => j - a \in 1 .. b /\ j - a \in 1 .. 3
        BY <2>1
      <4> QED BY <1>1, <2>1, <2>3, <4>1, Zenon
    <3>2. Len(new) # 0
      BY <2>1, <3>1
    <3>3. Len(output) = 3 * n
      BY <1>1, <1>2, <1>4, <1>5, <3>2
    <3>5. 3 * n + r = j
      BY <2>1, <3>3
    <3>6. r <= k
      BY <1>4, <1>5, <3>1
    <3>7. 3 * n + r <= len
      BY <1>1, <1>4, <3>1, <3>3, <3>6
    <3>4. (output \o new)[j] = new[r]
      BY <1>7, <2>1, <2>3
    <3> HIDE DEF r
    <3> QED BY <1>5, <1>6, <3>1, <3>4, <3>5, <3>7
  <2> QED BY <2>2, <2>3
<1> QED BY <1>8, <1>9 DEF Decoded, new, k, len

\* Unless it was disturbed, a turn leaves as much decoded as the loop has seen.
LEMMA DecodeLoop ==
    ASSUME DecodeInv, NEW t \in Threads, B!Loop(t)
    PROVE  DecodeInv'
<1> DEFINE c == decoding[t]
           others == \E u \in Threads \ {t} : B!MakesTable(u)
           octets == B!Octets([m \in 1 .. 4 |-> B!Sextet(c.data, c.i + m - 1)])
           output == c.output \o SubSeq(octets, 1,
                                 B!Min({3, B!output_length(c.data) - Len(c.output)}))
           pc == IF c.i + 4 > Len(c.data) THEN "done" ELSE "loop"
           d == [c EXCEPT !.i = c.i + 4, !.output = output,
                          !.disturbed = c.disturbed \/ others, !.pc = pc]
<1>1. c # nullptr /\ c \in B!Call /\ CallInv(c, decoding_table) /\ c.pc = "loop"
  BY CallFacts DEF B!Loop, B!At
<1>2. /\ decoding' = [decoding EXCEPT ![t] = d]
      /\ decoding_table' = decoding_table /\ filled' = filled /\ tables' = tables
  BY DEF B!Loop
<1>3. /\ c.text \in Texts /\ c.data \in Encodings(c.text) /\ decoding_table # nullptr
      /\ c.output \in Seq(B!Octet \cup {Garbage}) /\ c.data \in Seq(B!Letter)
      /\ c.disturbed \in BOOLEAN
  BY <1>1 DEF CallInv, B!Call
<1>4. PICK n \in Nat : c.i = 4 * n + 1 /\ (~c.disturbed => Decoded(c.text, n, c.output))
  BY <1>1 DEF CallInv
<1>5. octets = B!Octets(Sextets(c.data, n))
  BY <1>4 DEF Sextets
<1>6. B!output_length(c.data) - Len(c.output) \in Int
  BY <1>3, TextFacts, EncodingFacts
<1>7. output \in Seq(B!Octet \cup {Garbage})
  BY <1>3, <1>5, <1>6, TurnType, ConcatProperties
<1>8. ~(c.disturbed \/ others) => Decoded(c.text, n + 1, output)
  <2> SUFFICES ASSUME ~c.disturbed, ~others
               PROVE  Decoded(c.text, n + 1, output)
    OBVIOUS
  <2>1. \A u \in Threads : ~(decoding[u] # nullptr /\ decoding[u].pc = "fill")
    BY <1>1 DEF B!MakesTable, B!At, B!Idle
  <2>2. filled[decoding_table] = B!Blocks
    BY <1>3, <2>1 DEF DecodeInv, TableInv
  <2> QED BY <1>3, <1>4, <1>5, <2>2, TurnDecodes
<1>9. others \in BOOLEAN /\ c.i + 4 = 4 * (n + 1) + 1 /\ c.i + 4 \in Nat
      /\ pc \in {"done", "loop"} /\ (pc = "done" => c.i + 4 > Len(c.data))
  BY <1>4
<1> HIDE DEF others, octets, output, pc
<1>10. /\ d.text = c.text /\ d.data = c.data /\ d.i = c.i + 4 /\ d.output = output
       /\ d.disturbed = (c.disturbed \/ others) /\ d.pc = pc /\ d \in B!Call
  <2>1. (c.disturbed \/ others) \in BOOLEAN
    BY <1>3, <1>9, Zenon
  <2> QED BY <1>1, <1>7, <1>9, <2>1 DEF B!Call
<1> HIDE DEF d
<1>11. B!TypeOK'
  BY <1>2, <1>10 DEF DecodeInv, B!TypeOK
<1>12. TableInv'
  BY <1>1, <1>2 DEF DecodeInv, TableInv, B!TypeOK
<1>13. CallInv(d, decoding_table')
  <2>1. d.text \in Texts /\ d.data \in Encodings(d.text)
    BY <1>3, <1>10
  <2>2. d.i = 4 * (n + 1) + 1 /\ n + 1 \in Nat
    BY <1>9, <1>10
  <2>3. ~d.disturbed => Decoded(d.text, n + 1, d.output)
    BY <1>8, <1>10
  <2>4. decoding_table' # nullptr
    BY <1>2, <1>3
  <2>5. d.pc \in {"done", "loop"} /\ (d.pc = "done" => d.i > Len(d.data))
    BY <1>9, <1>10
  <2> QED BY <2>1, <2>2, <2>3, <2>4, <2>5 DEF CallInv
<1>14. \A u \in Threads : decoding'[u] # nullptr => CallInv(decoding'[u], decoding_table')
  BY <1>2, <1>13 DEF DecodeInv, B!TypeOK
<1> QED BY <1>11, <1>12, <1>14 DEF DecodeInv

\* The invariant speaks of base64_decode only.
LEMMA DecodeUnchanged ==
    ASSUME DecodeInv, UNCHANGED base64Vars
    PROVE  DecodeInv'
<1> USE DEF DecodeInv, base64Vars
<1>1. B!TypeOK'
  BY DEF B!TypeOK
<1>2. TableInv'
  BY DEF TableInv
<1> QED BY <1>1, <1>2
-----------------------------------------------------------------------------
\* every step of Library is one of base64_decode, or leaves it alone
LEMMA DecodeNext ==
    ASSUME DecodeInv, [Next]_vars
    PROVE  DecodeInv'
<1>1. CASE UNCHANGED base64Vars
  BY <1>1, DecodeUnchanged
<1>2. CASE \E t \in Threads : CallDecode(t)
  BY <1>2, DecodeStart DEF CallDecode, Encodings
<1>3. CASE \E t \in Threads : DecodeStep(t)
  <2> PICK t \in Threads : B!Step(t)
    BY <1>3 DEF DecodeStep
  <2> QED BY DecodeTest, DecodeMalloc, DecodeFill, DecodeLoop DEF B!Step
<1>4. [Next]_vars => \/ UNCHANGED base64Vars
                     \/ \E t \in Threads : CallDecode(t) \/ DecodeStep(t)
  BY DEF Next, Call, CallLog, CallFormatUnixtime, CallSessionStorage, LogStep, SessionStep,
         Tick, vars, base64Vars
<1> QED BY <1>1, <1>2, <1>3, <1>4

\* DecodeInv holds in every reachable state.
LEMMA DecodeInvariant == Spec => []DecodeInv
<1>1. Init => DecodeInv
  BY DecodeInit
<1>2. DecodeInv /\ [Next]_vars => DecodeInv'
  BY DecodeNext
<1> QED BY <1>1, <1>2, PTL DEF Spec

\* For any number of threads that make a table at the same time: as soon as
\* none of them is making one, the table that is left is complete.
THEOREM TableCompleted == Spec => []TableIsCompletedInTheEnd
<1>1. DecodeInv => TableIsCompletedInTheEnd
  BY DEF DecodeInv, TableInv, TableIsCompletedInTheEnd, B!TableIsCompletedInTheEnd,
         B!MakesTable, B!At, B!Idle
<1> QED BY <1>1, DecodeInvariant, PTL

\* For texts of every length and both paddings: a call that no other thread's
\* making of a table disturbs decodes what was encoded.
THEOREM DecodesItsOwnEncoding == Spec => []DecodesWhatWasEncoded
<1>1. ASSUME DecodeInv
      PROVE  DecodesWhatWasEncoded
  <2> SUFFICES ASSUME NEW t \in Threads, decoding[t] # nullptr, decoding[t].pc = "done",
                      ~decoding[t].disturbed
               PROVE  decoding[t].output = decoding[t].text
    BY DEF DecodesWhatWasEncoded, B!DecodesWhatWasEncoded
  <2> DEFINE c == decoding[t]
  <2>1. c \in B!Call /\ CallInv(c, decoding_table)
    BY <1>1 DEF DecodeInv, B!TypeOK
  <2>2. PICK n \in Nat : c.i = 4 * n + 1 /\ Decoded(c.text, n, c.output)
    BY <2>1 DEF CallInv
  <2>3. c.text \in Texts /\ c.data \in Encodings(c.text) /\ c.i > Len(c.data)
    BY <2>1 DEF CallInv
  <2>4. c.text \in Seq(B!Octet) /\ c.output \in Seq(B!Octet \cup {Garbage})
    BY <2>1, <2>3, TextFacts DEF B!Call
  <2> HIDE DEF c
  <2>5. Len(c.text) <= 3 * n
    <3>1. /\ Len(c.data) \in Nat /\ Len(c.data) >= 4 * B!Groups(c.text)
      BY <2>3, EncodingFacts
    <3>2. /\ B!Groups(c.text) \in Nat /\ B!Padding(c.text) \in 0 .. 2
          /\ Len(c.text) = 3 * B!Groups(c.text) - B!Padding(c.text)
      BY <2>3, TextFacts
    <3> QED BY <2>2, <2>3, <3>1, <3>2
  <2>6. Len(c.output) = Len(c.text)
    BY <2>2, <2>4, <2>5 DEF Decoded
  <2>7. \A j \in 1 .. Len(c.text) : c.output[j] = c.text[j]
    BY <2>2, <2>6 DEF Decoded
  <2>8. /\ c.text = [j \in 1 .. Len(c.text) |-> c.text[j]]
        /\ c.output = [j \in 1 .. Len(c.output) |-> c.output[j]]
    BY <2>4
  <2>9. c.output = c.text
    BY <2>6, <2>7, <2>8, Zenon
  <2> QED BY <2>9 DEF c
<1> QED BY <1>1, DecodeInvariant, PTL
=============================================================================
