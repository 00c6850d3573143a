------------------------------- MODULE Base64 ------------------------------
(***************************************************************************)
(* utils::base64_encode and base64_decode.  A text of base 64 is a         *)
(* sequence of the places of its letters in encoding_table, 0 .. 63, and   *)
(* of Pad for "=".  The decoder fills a table of its own, at the first     *)
(* call: a static pointer that is set before the table is filled, without  *)
(* a lock.  Letters outside of the table, whose entries nobody fills, are  *)
(* left out, and so is the empty text, whose data[-1] is undefined.        *)
(***************************************************************************)
EXTENDS Integers, Sequences, FiniteSetsExt

CONSTANTS
    Threads,
    Texts,          \* what is encoded and decoded again
    MaxTables,      \* bound of the tables that can be made: one by each thread
    FillStep,       \* entries filled in one step of the model
    Garbage,        \* an entry of malloc's memory that has not been filled
    nullptr

Pad == 64
Octet == 0 .. 255
Letter == 0 .. 64

VARIABLES
    decoding_table, \* the static pointer: a table, or nullptr
    made,           \* how many tables there have been
    filled,         \* filled[d]: how many entries of table d are filled
    decoding        \* decoding[t]: the call of base64_decode that t is in

Tables == 1 .. MaxTables
Blocks == 0 .. (64 \div FillStep) - 1

\* text is what data encodes; disturbed: another thread was making a table
Call == [text : Seq(Octet), data : Seq(Letter), pc : {"test", "malloc", "fill", "loop", "done"},
         block : Nat, table : Tables \cup {nullptr}, i : Nat,
         output : Seq(Octet \cup {Garbage}), disturbed : BOOLEAN]

\* what the constants have to be; Library assumes it
Base64Constants ==
    /\ Texts \subseteq Seq(Octet) \ {<<>>}
    /\ MaxTables \in Nat
    /\ FillStep \in {1, 2, 4, 8, 16, 32, 64}
    /\ Garbage \notin Octet \cup Letter
    /\ nullptr \notin Tables \cup Call

TypeOK ==
    /\ decoding_table \in Tables \cup {nullptr}
    /\ filled \in [Tables -> SUBSET Blocks]
    /\ made \in 0 .. MaxTables
    /\ decoding \in [Threads -> Call \cup {nullptr}]
-----------------------------------------------------------------------------
(* base64_encode *)

\* the four letters of three octets
Letters(a, b, c) == <<a \div 4, (a % 4) * 16 + b \div 16, (b % 16) * 4 + c \div 64, c % 64>>

Groups(text) == (Len(text) + 2) \div 3

\* the letters of the groups of three octets, the last one filled up with zeros
LettersOf(text) ==
    LET octet(i) == IF i <= Len(text) THEN text[i] ELSE 0
    IN  [k \in 1 .. 4 * Groups(text) |->
            LET n == 3 * ((k - 1) \div 4)
            IN  Letters(octet(n + 1), octet(n + 2), octet(n + 3))[((k - 1) % 4) + 1]]

Padding(text) ==
    IF Len(text) % 3 = 1 THEN 2 ELSE IF Len(text) % 3 = 2 THEN 1 ELSE 0

\* the "=" come after whole groups, not in the place of letters
base64_encode(text) == LettersOf(text) \o [k \in 1 .. Padding(text) |-> Pad]

\* RFC 4648, section 5: what other programs send
Rfc4648(text) ==
    [k \in 1 .. 4 * Groups(text) |->
        IF k > 4 * Groups(text) - Padding(text) THEN Pad ELSE LettersOf(text)[k]]
-----------------------------------------------------------------------------
(* base64_decode *)

Init ==
    /\ decoding_table = nullptr
    /\ filled = [d \in Tables |-> {}]
    /\ made = 0
    /\ decoding = [t \in Threads |-> nullptr]

Idle(t) == decoding[t] # nullptr => decoding[t].pc = "done"
At(t, pc) == ~Idle(t) /\ decoding[t].pc = pc
MakesTable(t) == At(t, "malloc") \/ At(t, "fill")

Start(t, text, data) ==
    /\ Idle(t)
    /\ decoding' = [decoding EXCEPT ![t] =
           [text |-> text, data |-> data, pc |-> "test", block |-> 0, table |-> nullptr,
            i |-> 1, output |-> <<>>, disturbed |-> FALSE]]
    /\ UNCHANGED <<decoding_table, filled, made>>

\* decoding_table == nullptr
Test(t) ==
    /\ At(t, "test")
    /\ decoding' = [decoding EXCEPT ![t].pc =
                        IF decoding_table = nullptr THEN "malloc" ELSE "loop"]
    /\ UNCHANGED <<decoding_table, filled, made>>

\* slip: the table is filled when it is made, and the second one never is
MallocFilled(t) ==
    /\ At(t, "malloc") /\ made < MaxTables
    /\ made' = made + 1
    /\ decoding_table' = made + 1
    /\ filled' = IF made = 0 THEN [filled EXCEPT ![1] = Blocks] ELSE filled
    /\ decoding' = [decoding EXCEPT ![t].pc = "loop", ![t].table = made + 1]

Malloc(t) ==
    /\ At(t, "malloc") /\ made < MaxTables
    /\ made' = made + 1
    /\ decoding_table' = made + 1
    /\ decoding' = [decoding EXCEPT ![t].pc = "fill", ![t].table = made + 1]
    /\ UNCHANGED filled

\* slip: i <= 64
FillOneMore(t) ==
    /\ At(t, "fill")
    /\ filled' = [filled EXCEPT ![decoding_table] = @ \cup {decoding[t].block}]
    /\ decoding' = [decoding EXCEPT ![t].block = @ + 1,
                        ![t].pc = IF decoding[t].block \in Blocks THEN "fill" ELSE "loop"]
    /\ UNCHANGED <<decoding_table, made>>

\* FillStep turns of the for loop; the compiler may read the static pointer at
\* every turn or keep the table it has just made in a register
Fill(t) ==
    /\ At(t, "fill")
    /\ \E d \in {decoding_table, decoding[t].table} :
           filled' = [filled EXCEPT ![d] = @ \cup {decoding[t].block}]
    /\ decoding' = [decoding EXCEPT ![t].block = @ + 1,
                        ![t].pc = IF decoding[t].block + 1 \in Blocks THEN "fill" ELSE "loop"]
    /\ UNCHANGED <<decoding_table, made>>

\* decoding_table[data[i]]; past the end of data nothing is known
Sextet(data, i) ==
    IF i > Len(data) THEN Garbage
    ELSE IF data[i] = Pad THEN 0
    ELSE IF data[i] \div FillStep \in filled[decoding_table] THEN data[i]
    ELSE Garbage

\* the three octets of four sextets
Octets(s) ==
    << IF Garbage \in {s[1], s[2]} THEN Garbage ELSE s[1] * 4 + s[2] \div 16,
       IF Garbage \in {s[2], s[3]} THEN Garbage ELSE (s[2] % 16) * 16 + s[3] \div 4,
       IF Garbage \in {s[3], s[4]} THEN Garbage ELSE (s[3] % 4) * 64 + s[4] >>

\* slip: "=" is counted once
OutputLengthOnePad(data) ==
    (Len(data) \div 4) * 3 - (IF data[Len(data)] = Pad THEN 1 ELSE 0)

output_length(data) ==
    (Len(data) \div 4) * 3 - (IF data[Len(data)] = Pad THEN 1 ELSE 0)
                           - (IF data[Len(data) - 1] = Pad THEN 1 ELSE 0)

\* one turn of the loop: four letters of data, as many octets as are wanted
Loop(t) ==
    /\ At(t, "loop")
    /\ LET c == decoding[t]
           octets == Octets([n \in 1 .. 4 |-> Sextet(c.data, c.i + n - 1)])
           room == output_length(c.data) - Len(c.output)
       IN  decoding' = [decoding EXCEPT ![t].i = c.i + 4,
                           ![t].output = c.output \o SubSeq(octets, 1, Min({3, room})),
                           ![t].disturbed = @ \/ \E u \in Threads \ {t} : MakesTable(u),
                           ![t].pc = IF c.i + 4 > Len(c.data) THEN "done" ELSE "loop"]
    /\ UNCHANGED <<decoding_table, filled, made>>

Step(t) == Test(t) \/ Malloc(t) \/ Fill(t) \/ Loop(t)
-----------------------------------------------------------------------------
\* Whatever was encoded, by base64_encode with its padding after whole groups
\* or as RFC 4648 has it, is decoded to the same octets, unless another thread
\* was making the table while this one read it.
DecodesWhatWasEncoded ==
    \A t \in Threads :
        decoding[t] # nullptr /\ decoding[t].pc = "done" /\ ~decoding[t].disturbed
            => decoding[t].output = decoding[t].text

\* When the threads that found no table have made theirs, the one that is left
\* is complete, however their steps were mixed: only the first calls are at risk.
TableIsCompletedInTheEnd ==
    decoding_table # nullptr /\ (\A t \in Threads : ~MakesTable(t))
        => filled[decoding_table] = Blocks
=============================================================================
