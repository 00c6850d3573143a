--------------------------- MODULE RequestProofs ---------------------------
(***************************************************************************)
(* What TLAPS proves of the constructor of request, for any requests, any  *)
(* place where read() stops and any words: that m_error is the sum of what *)
(* is wrong with the lines, that each field is that of the last line of its *)
(* kind and each cookie the last value given, and with it every property of *)
(* Request.  The facts about sequences, words and dates come first, the    *)
(* invariant after them.                                                   *)
(***************************************************************************)
EXTENDS Request, SequenceTheorems, WellFoundedInduction, TLAPS

-----------------------------------------------------------------------------
(* Sequences of sequences, and what FlattenSeq makes of them. *)

\* The natural numbers are well ordered.
LEMMA LeastNumber ==
  ASSUME NEW S \in SUBSET Nat, S # {}
  PROVE  \E n \in S : \A m \in S : n <= m
<1> DEFINE less == {ss \in Nat \X Nat : ss[1] < ss[2]}
<1>1. IsWellFoundedOn(less, Nat)
  BY NatLessThanWellFounded DEF OpToRel
<1>2. \A m, n \in Nat : <<m, n>> \in less <=> m < n
  OBVIOUS
<1> HIDE DEF less
<1>3. PICK n \in S : \A m \in S : ~ (<<m, n>> \in less)
  BY <1>1, WFMin
<1>4. ASSUME NEW m \in S
      PROVE  n <= m
  <2>1. m \in Nat /\ n \in Nat /\ ~ (<<m, n>> \in less)
    BY <1>3
  <2>2. ~ (m < n)
    BY <1>2, <2>1
  <2> QED BY <2>1, <2>2
<1> QED BY <1>4

\* A set of numbers with 0 and the successor of each is all of them.
LEMMA SetInduction ==
  ASSUME NEW S, 0 \in S, \A n \in Nat : n \in S => n + 1 \in S, NEW m \in Nat
  PROVE  m \in S
<1> SUFFICES ASSUME m \notin S
             PROVE  FALSE
  OBVIOUS
<1>1. PICK n \in Nat \ S : \A k \in Nat \ S : n <= k
  <2>1. Nat \ S \in SUBSET Nat /\ Nat \ S # {}
    OBVIOUS
  <2> QED BY <2>1, LeastNumber
<1>2. n # 0 /\ n - 1 \in Nat
  OBVIOUS
<1>3. n - 1 \in S
  BY <1>1, <1>2
<1>4. n = (n - 1) + 1
  OBVIOUS
<1> QED BY <1>2, <1>3, <1>4

\* f is what FlattenSeq(s) computes on its way
Flattens(f, s) ==
    f = [i \in 1 .. Len(s) |-> IF i = 1 THEN s[i] ELSE f[i - 1] \o s[i]]

\* A function on 1 .. n that gives h[i] for i is h.
LEMMA Extensional ==
  ASSUME NEW n \in Nat, NEW f, NEW h, f = [i \in 1 .. n |-> f[i]], h = [i \in 1 .. n |-> h[i]],
         \A i \in 1 .. n : f[i] = h[i]
  PROVE  f = h
OBVIOUS

\* The concatenation of two sequences is one.
LEMMA ConcatType ==
  ASSUME NEW S, NEW a \in Seq(S), NEW b \in Seq(S)
  PROVE  a \o b \in Seq(S)
OBVIOUS

\* The beginning of a sequence.
LEMMA Beginning ==
  ASSUME NEW S, NEW s \in Seq(S), NEW k \in 0 .. Len(s)
  PROVE  /\ SubSeq(s, 1, k) \in Seq(S) /\ Len(SubSeq(s, 1, k)) = k
         /\ \A i \in 1 .. k : SubSeq(s, 1, k)[i] = s[i]
<1>1. PICK n \in Nat : n = Len(s)
  OBVIOUS
<1>2. k \in Nat /\ \A i \in 1 .. k : i \in 1 .. n
  BY <1>1
<1>3. \A i \in 1 .. k : s[i] \in S
  BY <1>1, <1>2, ElementOfSeq
<1>4. 1 \in Int /\ k \in Int
  BY <1>2
<1> QED BY <1>2, <1>3, <1>4, SubSeqProperties

\* A sequence that has one more element at its end.
LEMMA OneMore ==
  ASSUME NEW S, NEW s \in Seq(S), NEW x \in S, NEW t \in Seq(S), Len(t) = Len(s) + 1,
         t[Len(s) + 1] = x, \A i \in 1 .. Len(s) : t[i] = s[i]
  PROVE  t = Append(s, x)
<1>0. PICK k \in Nat : k = Len(s)
  OBVIOUS
<1>1. PICK a \in Seq(S) : a = Append(s, x)
  BY AppendProperties
<1>2. Len(a) = k + 1 /\ a[k + 1] = x /\ \A i \in 1 .. k : a[i] = s[i]
  BY <1>0, <1>1, AppendProperties
<1>3. ASSUME NEW i \in 1 .. Len(a)
      PROVE  a[i] = t[i]
  <2>1. i \in 1 .. k \/ i = k + 1
    BY <1>2
  <2> QED BY <1>0, <1>2, <2>1
<1>4. a = t
  BY <1>0, <1>2, <1>3, SeqEqual
<1> QED BY <1>1, <1>4

\* A function that flattens the first n sequences goes on to the next one.
LEMMA FlattensStep ==
  ASSUME NEW S, NEW s \in Seq(Seq(S)), NEW n \in Nat, n + 1 <= Len(s), NEW f,
         f = [i \in 1 .. n |-> IF i = 1 THEN s[i] ELSE f[i - 1] \o s[i]],
         \A i \in 1 .. n : f[i] \in Seq(S)
  PROVE  \E g : /\ g = [i \in 1 .. n + 1 |-> IF i = 1 THEN s[i] ELSE g[i - 1] \o s[i]]
                /\ \A i \in 1 .. n + 1 : g[i] \in Seq(S)
<1>1. \A i \in 1 .. n + 1 : s[i] \in Seq(S)
  OBVIOUS
<1> DEFINE x == IF n = 0 THEN s[1] ELSE f[n] \o s[n + 1]
           g == [i \in 1 .. n + 1 |-> IF i = n + 1 THEN x ELSE f[i]]
           h == [i \in 1 .. n + 1 |-> IF i = 1 THEN s[i] ELSE g[i - 1] \o s[i]]
<1>2. x \in Seq(S)
  <2>1. CASE n = 0
    BY <1>1, <2>1
  <2>2. CASE n # 0
    <3>1. f[n] \in Seq(S) /\ s[n + 1] \in Seq(S)
      BY <1>1, <2>2
    <3>2. f[n] \o s[n + 1] \in Seq(S)
      BY <3>1, ConcatType
    <3> QED BY <2>2, <3>2
  <2> QED BY <2>1, <2>2
<1>3. n # 0 => x = f[n] \o s[n + 1]
  OBVIOUS
<1>4. n = 0 => x = s[1]
  OBVIOUS
<1> HIDE DEF x
<1>5. g[n + 1] = x /\ \A i \in 1 .. n : g[i] = f[i]
  <2>1. n + 1 \in 1 .. n + 1 /\ \A i \in 1 .. n : i \in 1 .. n + 1 /\ i # n + 1
    OBVIOUS
  <2>2. \A i \in 1 .. n + 1 : g[i] = IF i = n + 1 THEN x ELSE f[i]
    OBVIOUS
  <2> HIDE DEF g
  <2> QED BY <2>1, <2>2
<1>6. g = [i \in 1 .. n + 1 |-> g[i]]
  OBVIOUS
<1>7. \A i \in 1 .. n + 1 : h[i] = IF i = 1 THEN s[i] ELSE g[i - 1] \o s[i]
  OBVIOUS
<1>7a. h = [i \in 1 .. n + 1 |-> h[i]]
  OBVIOUS
<1> HIDE DEF g
<1>7b. h = [i \in 1 .. n + 1 |-> IF i = 1 THEN s[i] ELSE g[i - 1] \o s[i]]
  OBVIOUS
<1> HIDE DEF h
<1>8. ASSUME NEW i \in 1 .. n + 1
      PROVE  g[i] \in Seq(S)
  <2>1. i = n + 1 \/ i \in 1 .. n
    OBVIOUS
  <2>2. \A j \in 1 .. n : g[j] \in Seq(S)
    BY <1>5
  <2> QED BY <1>2, <1>5, <2>1, <2>2
<1>9. ASSUME NEW i \in 1 .. n + 1
      PROVE  g[i] = h[i]
  <2>1. CASE i \in 1 .. n
    <3>1. g[i] = f[i]
      BY <1>5, <2>1
    <3>2. f[i] = IF i = 1 THEN s[i] ELSE f[i - 1] \o s[i]
      BY <2>1
    <3>3. i # 1 => g[i - 1] = f[i - 1]
      BY <1>5, <2>1
    <3> QED BY <1>7, <3>1, <3>2, <3>3
  <2>2. CASE i = n + 1
    <3>1. g[i] = x
      BY <1>5, <2>2
    <3>2. CASE n = 0
      BY <1>4, <1>7, <2>2, <3>1, <3>2
    <3>3. CASE n # 0
      <4>1. i # 1 /\ i - 1 = n /\ n \in 1 .. n
        BY <2>2, <3>3
      <4>2. g[i - 1] = f[n]
        BY <1>5, <4>1
      <4> QED BY <1>3, <1>7, <2>2, <3>1, <3>3, <4>1, <4>2
    <3> QED BY <3>2, <3>3
  <2> QED BY <2>1, <2>2
<1>10. g = h
  BY <1>6, <1>7a, <1>9, Extensional
<1>11. g = [i \in 1 .. n + 1 |-> IF i = 1 THEN s[i] ELSE g[i - 1] \o s[i]]
  BY <1>7b, <1>10
<1> QED BY <1>8, <1>11

\* There is a function that flattens them all.
LEMMA FlattensExists ==
  ASSUME NEW S, NEW s \in Seq(Seq(S))
  PROVE  \E f : Flattens(f, s) /\ \A i \in 1 .. Len(s) : f[i] \in Seq(S)
<1> DEFINE Has(n) == \E f : /\ f = [i \in 1 .. n |-> IF i = 1 THEN s[i] ELSE f[i - 1] \o s[i]]
                            /\ \A i \in 1 .. n : f[i] \in Seq(S)
           G == {n \in Nat : n <= Len(s) => Has(n)}
<1>1. Has(0)
  <2> DEFINE f == [i \in 1 .. 0 |-> <<>>]
             h == [i \in 1 .. 0 |-> IF i = 1 THEN s[i] ELSE f[i - 1] \o s[i]]
  <2>1. 1 .. 0 = {}
    OBVIOUS
  <2>2. f = h
    BY <2>1
  <2>3. \A i \in 1 .. 0 : f[i] \in Seq(S)
    BY <2>1
  <2> HIDE DEF f
  <2> QED BY <2>2, <2>3
<1>2. ASSUME NEW n \in Nat, n + 1 <= Len(s), Has(n)
      PROVE  Has(n + 1)
  <2>1. PICK f : /\ f = [i \in 1 .. n |-> IF i = 1 THEN s[i] ELSE f[i - 1] \o s[i]]
                 /\ \A i \in 1 .. n : f[i] \in Seq(S)
    BY <1>2
  <2> QED BY <1>2, <2>1, FlattensStep
<1>3. Len(s) \in Nat
  OBVIOUS
<1> HIDE DEF Has
<1>4. \A n \in Nat : n \in G => n + 1 \in G
  BY <1>2, <1>3
<1>5. 0 \in G
  BY <1>1
<1>6. Len(s) \in G
  <2> HIDE DEF G
  <2> QED BY <1>3, <1>4, <1>5, SetInduction
<1>7. Has(Len(s))
  BY <1>3, <1>6
<1> QED BY <1>7 DEF Flattens, Has

\* There is only one.
LEMMA FlattensUnique ==
  ASSUME NEW S, NEW s \in Seq(Seq(S)), NEW f, Flattens(f, s), NEW g, Flattens(g, s)
  PROVE  f = g
<1>1. Len(s) \in Nat
  OBVIOUS
<1>2. \A i \in 1 .. Len(s) : /\ f[i] = IF i = 1 THEN s[i] ELSE f[i - 1] \o s[i]
                             /\ g[i] = IF i = 1 THEN s[i] ELSE g[i - 1] \o s[i]
  BY DEF Flattens
<1> DEFINE D == {i \in 1 .. Len(s) : f[i] # g[i]}
<1>3. D = {}
  <2> SUFFICES ASSUME D # {}
               PROVE  FALSE
    OBVIOUS
  <2>1. D \in SUBSET Nat
    OBVIOUS
  <2>2. PICK d \in D : \A e \in D : d <= e
    BY LeastNumber, <2>1
  <2>3. d \in 1 .. Len(s) /\ f[d] # g[d]
    OBVIOUS
  <2>4. d # 1
    BY <1>2, <2>3
  <2>5. d - 1 \in 1 .. Len(s) /\ ~ (d <= d - 1)
    BY <1>1, <2>3, <2>4
  <2>6. f[d - 1] = g[d - 1]
    BY <2>2, <2>5
  <2> QED BY <1>2, <2>3, <2>4, <2>6
<1>4. f = [i \in 1 .. Len(s) |-> f[i]] /\ g = [i \in 1 .. Len(s) |-> g[i]]
  BY DEF Flattens
<1>5. \A i \in 1 .. Len(s) : f[i] = g[i]
  BY <1>3
<1> QED BY <1>1, <1>4, <1>5, Extensional

\* FlattenSeq of a sequence is the last value of such a function.
LEMMA FlattenIs ==
  ASSUME NEW S, NEW s \in Seq(Seq(S)), Len(s) # 0, NEW f, Flattens(f, s)
  PROVE  FlattenSeq(s) = f[Len(s)]
<1> DEFINE F == CHOOSE g : g = [i \in 1 .. Len(s) |-> IF i = 1 THEN s[i] ELSE g[i - 1] \o s[i]]
<1>1. F = [i \in 1 .. Len(s) |-> IF i = 1 THEN s[i] ELSE F[i - 1] \o s[i]]
  <2>1. \E g : g = [i \in 1 .. Len(s) |-> IF i = 1 THEN s[i] ELSE g[i - 1] \o s[i]]
    BY DEF Flattens
  <2> QED BY <2>1, Zenon
<1>2. FlattenSeq(s) = F[Len(s)]
  BY Zenon DEF FlattenSeq
<1> HIDE DEF F
<1>3. Flattens(F, s)
  BY <1>1 DEF Flattens
<1>4. F = f
  BY <1>3, FlattensUnique
<1> QED BY <1>2, <1>4

\* The concatenation of sequences over S is one.
LEMMA FlattenType ==
  ASSUME NEW S, NEW s \in Seq(Seq(S))
  PROVE  FlattenSeq(s) \in Seq(S)
<1>1. CASE Len(s) = 0
  <2>1. FlattenSeq(s) = s
    BY <1>1 DEF FlattenSeq
  <2>2. s = <<>>
    BY <1>1
  <2> QED BY <2>1, <2>2
<1>2. CASE Len(s) # 0
  <2>1. PICK f : Flattens(f, s) /\ \A i \in 1 .. Len(s) : f[i] \in Seq(S)
    BY FlattensExists
  <2>2. FlattenSeq(s) = f[Len(s)]
    BY <1>2, <2>1, FlattenIs
  <2>3. Len(s) \in 1 .. Len(s)
    BY <1>2
  <2> QED BY <2>1, <2>2, <2>3
<1> QED BY <1>1, <1>2

\* The last sequence comes last.
LEMMA FlattenLast ==
  ASSUME NEW S, NEW s \in Seq(Seq(S)), NEW x \in Seq(S)
  PROVE  FlattenSeq(Append(s, x)) = FlattenSeq(s) \o x
<1> DEFINE t == Append(s, x)
           n == Len(s)
<1>1. n \in Nat
  OBVIOUS
<1>2. t \in Seq(Seq(S)) /\ Len(t) = n + 1 /\ t[n + 1] = x /\ \A i \in 1 .. n : t[i] = s[i]
  OBVIOUS
<1> HIDE DEF t, n
<1>3. PICK g : Flattens(g, t) /\ \A i \in 1 .. Len(t) : g[i] \in Seq(S)
  BY <1>2, FlattensExists
<1>4. Len(t) # 0 /\ FlattenSeq(t) = g[n + 1]
  BY <1>1, <1>2, <1>3, FlattenIs
<1>5. \A i \in 1 .. n + 1 : g[i] = IF i = 1 THEN t[i] ELSE g[i - 1] \o t[i]
  BY <1>2, <1>3 DEF Flattens
<1>6. CASE n = 0
  <2>1. FlattenSeq(s) = <<>>
    BY <1>6 DEF FlattenSeq, n
  <2>2. g[n + 1] = x
    BY <1>2, <1>5, <1>6
  <2>3. <<>> \o x = x
    OBVIOUS
  <2> QED BY <1>4, <2>1, <2>2, <2>3 DEF t
<1>7. CASE n # 0
  <2> DEFINE f == [i \in 1 .. n |-> g[i]]
             h == [i \in 1 .. n |-> IF i = 1 THEN s[i] ELSE f[i - 1] \o s[i]]
  <2>1. f = [i \in 1 .. n |-> f[i]] /\ h = [i \in 1 .. n |-> h[i]]
    OBVIOUS
  <2>2. \A i \in 1 .. n : f[i] = g[i]
    OBVIOUS
  <2>3. h = [i \in 1 .. n |-> IF i = 1 THEN s[i] ELSE f[i - 1] \o s[i]]
    OBVIOUS
  <2> HIDE DEF f
  <2>4. \A i \in 1 .. n : h[i] = IF i = 1 THEN s[i] ELSE f[i - 1] \o s[i]
    OBVIOUS
  <2> HIDE DEF h
  <2>5. ASSUME NEW i \in 1 .. n
        PROVE  f[i] = h[i]
    <3>1. i \in 1 .. n + 1
      BY <1>1
    <3>2. g[i] = IF i = 1 THEN s[i] ELSE g[i - 1] \o s[i]
      BY <1>2, <1>5, <3>1
    <3>3. i # 1 => f[i - 1] = g[i - 1]
      <4>1. i # 1 => i - 1 \in 1 .. n
        BY <1>1
      <4> QED BY <2>2, <4>1, Zenon
    <3>4. f[i] = IF i = 1 THEN s[i] ELSE g[i - 1] \o s[i]
      BY <2>2, <3>2
    <3>5. h[i] = IF i = 1 THEN s[i] ELSE f[i - 1] \o s[i]
      BY <2>4
    <3>6. CASE i = 1
      BY <3>4, <3>5, <3>6, Zenon
    <3>7. CASE i # 1
      BY <3>3, <3>4, <3>5, <3>7, Zenon
    <3> QED BY <3>6, <3>7
  <2>6. f = h
    BY <1>1, <2>1, <2>5, Extensional
  <2>7. Flattens(f, s)
    BY <2>3, <2>6 DEF Flattens, n
  <2>8. FlattenSeq(s) = f[n]
    BY <1>7, <2>7, FlattenIs DEF n
  <2>9. f[n] = g[n]
    BY <1>1, <1>7, <2>2
  <2>10. g[n + 1] = g[n] \o x
    <3>1. n + 1 \in 1 .. n + 1 /\ n + 1 # 1 /\ (n + 1) - 1 = n
      BY <1>1, <1>7
    <3> QED BY <1>2, <1>5, <3>1
  <2> QED BY <1>4, <2>8, <2>9, <2>10 DEF t
<1> QED BY <1>6, <1>7

-----------------------------------------------------------------------------
(* The words of a line. *)

\* The largest number of a set of numbers up to n.
LEMMA MaxOf ==
  ASSUME NEW n \in Nat, NEW S \in SUBSET (1 .. n), S # {}
  PROVE  Max(S) \in S /\ \A i \in S : i <= Max(S)
<1> DEFINE D == {n - i : i \in S}
<1>1. D \in SUBSET Nat /\ D # {}
  <2>1. \A i \in S : i \in 1 .. n /\ n - i \in Nat /\ n - i \in D
    OBVIOUS
  <2>2. PICK i \in S : TRUE
    OBVIOUS
  <2>3. \A e \in D : e \in Nat
    BY <2>1
  <2> QED BY <2>1, <2>2, <2>3
<1>2. PICK d \in D : \A e \in D : d <= e
  BY <1>1, LeastNumber
<1>3. PICK m \in S : d = n - m
  BY <1>2
<1>4. ASSUME NEW i \in S
      PROVE  m >= i
  <2>1. n - i \in D /\ i \in 1 .. n /\ m \in 1 .. n
    OBVIOUS
  <2>2. n - m <= n - i
    BY <1>2, <1>3, <2>1
  <2> QED BY <2>1, <2>2
<1>5. \E x \in S : \A y \in S : x >= y
  BY <1>4
<1>6. Max(S) \in S /\ \A y \in S : Max(S) >= y
  BY <1>5, Zenon DEF Max
<1> QED BY <1>6

\* The least number of a set of numbers up to n.
LEMMA MinOf ==
  ASSUME NEW n \in Nat, NEW S \in SUBSET (1 .. n), S # {}
  PROVE  Min(S) \in S /\ \A i \in S : Min(S) <= i
<1>1. S \in SUBSET Nat
  OBVIOUS
<1>2. \E x \in S : \A y \in S : x <= y
  BY <1>1, LeastNumber
<1> QED BY <1>2, Zenon DEF Min

\* A word without its carriage return is a word.
LEMMA WithoutCr ==
  ASSUME NEW w \in Word
  PROVE  \E u \in Word : /\ u = [w EXCEPT !.cr = FALSE]
                         /\ u.text = w.text /\ u.joined = w.joined /\ u.cr = FALSE
<1>1. [w EXCEPT !.cr = FALSE] \in Word
  BY DEF Word
<1>2. PICK u \in Word : u = [w EXCEPT !.cr = FALSE]
  BY <1>1
<1>3. u.text = w.text /\ u.joined = w.joined /\ u.cr = FALSE
  BY <1>2 DEF Word
<1> QED BY <1>2, <1>3

\* Words stay words when a carriage return is read with them.
LEMMA WithCr ==
  ASSUME NEW w \in Word
  PROVE  \E u \in Word : /\ u = [w EXCEPT !.cr = TRUE, !.exact = FALSE]
                         /\ u.text = w.text /\ u.v = w.v /\ u.cr = TRUE /\ u.exact = FALSE
<1>1. [w EXCEPT !.cr = TRUE, !.exact = FALSE] \in Word
  BY DEF Word
<1>2. PICK u \in Word : u = [w EXCEPT !.cr = TRUE, !.exact = FALSE]
  BY <1>1
<1>3. u.text = w.text /\ u.v = w.v
  BY <1>2 DEF Word
<1>4. u.cr = TRUE /\ u.exact = FALSE
  BY <1>2 DEF Word
<1> QED BY <1>2, <1>3, <1>4

\* Words stay words, with text and numbers, whatever comes between them.
LEMMA Joined ==
  ASSUME NEW w \in Word, NEW b \in BOOLEAN
  PROVE  \E u \in Word : /\ u = [w EXCEPT !.joined = b]
                         /\ u.text = w.text /\ u.v = w.v /\ u.joined = b
<1>1. [w EXCEPT !.joined = b] \in Word
  BY DEF Word
<1>2. PICK u \in Word : u = [w EXCEPT !.joined = b]
  BY <1>1
<1>3. u.text = w.text /\ u.v = w.v
  BY <1>2 DEF Word
<1>4. u.joined = b
  BY <1>2 DEF Word
<1> QED BY <1>2, <1>3, <1>4

\* A word with no number in it.
LEMMA PlainWord ==
  ASSUME NEW t \in Texts, NEW a \in BOOLEAN, NEW b \in BOOLEAN, NEW c \in BOOLEAN, NEW w,
         w = [text |-> t, v |-> <<>>, exact |-> a, cr |-> b, joined |-> c]
  PROVE  w \in Word /\ w.text = t /\ w.v = <<>>
<1>1. <<>> \in Seq(Int)
  BY EmptySeq
<1>2. PICK e \in Seq(Int) : e = <<>>
  BY <1>1, Zenon
<1>3. w = [text |-> t, v |-> e, exact |-> a, cr |-> b, joined |-> c]
  BY <1>2
<1> QED BY <1>2, <1>3 DEF Word

\* A carriage return alone is a word without text.
LEMMA CrIsWord ==
  CR \in Word /\ CR.text = ""
<1>1. PICK t \in Texts : t = ""
  BY RequestAssumption
<1>2. PICK no \in BOOLEAN : no = FALSE
  OBVIOUS
<1>3. PICK yes \in BOOLEAN : yes = TRUE
  OBVIOUS
<1>4. CR = [text |-> t, v |-> <<>>, exact |-> no, cr |-> yes, joined |-> no]
  BY <1>1, <1>2, <1>3, Zenon DEF CR
<1>5. CR \in Word
  BY <1>4, PlainWord
<1>6. CR.text = t
  BY <1>4
<1> QED BY <1>1, <1>5, <1>6

\* The type of a line, taken for a word.
LEMMA TypeIsWord ==
  ASSUME NEW l \in Line
  PROVE  TypeWord(l) \in Word /\ TypeWord(l).text = l.type /\ TypeWord(l).v = <<>>
<1>1. PICK t \in Texts : t = l.type
  BY DEF Line
<1>2. PICK no \in BOOLEAN : no = FALSE
  OBVIOUS
<1>3. TypeWord(l) = [text |-> t, v |-> <<>>, exact |-> no, cr |-> no, joined |-> no]
  BY <1>1, <1>2, Zenon DEF TypeWord
<1>4. TypeWord(l) \in Word
  BY <1>3, PlainWord
<1>5. TypeWord(l).text = t /\ TypeWord(l).v = <<>>
  BY <1>3
<1> QED BY <1>1, <1>4, <1>5

\* The words that trim leaves are a stretch of those it is given, the last one
\* without its carriage return.
LEMMA TrimmedStretch ==
  ASSUME NEW ws \in Seq(Word)
  PROVE  LET is == {i \in DOMAIN ws : ws[i].text # ""}
             last == Max(is) - Min(is) + 1
         IN  is # {} => /\ Min(is) \in 1 .. Len(ws) /\ Max(is) \in 1 .. Len(ws)
                        /\ Min(is) <= Max(is)
                        /\ Len(Trim(ws)) = last
                        /\ Trim(ws) \in Seq(Word)
                        /\ \A k \in 1 .. last :
                              /\ Trim(ws)[k].text = ws[Min(is) + k - 1].text
                              /\ Trim(ws)[k].joined = ws[Min(is) + k - 1].joined
                              /\ Trim(ws)[k].cr = IF k = last THEN FALSE ELSE ws[Min(is) + k - 1].cr
<1> DEFINE is == {i \in DOMAIN ws : ws[i].text # ""}
<1> SUFFICES ASSUME is # {}
             PROVE  /\ Min(is) \in 1 .. Len(ws) /\ Max(is) \in 1 .. Len(ws)
                    /\ Min(is) <= Max(is)
                    /\ Len(Trim(ws)) = Max(is) - Min(is) + 1
                    /\ Trim(ws) \in Seq(Word)
                    /\ \A k \in 1 .. Max(is) - Min(is) + 1 :
                          /\ Trim(ws)[k].text = ws[Min(is) + k - 1].text
                          /\ Trim(ws)[k].joined = ws[Min(is) + k - 1].joined
                          /\ Trim(ws)[k].cr = IF k = Max(is) - Min(is) + 1 THEN FALSE
                                              ELSE ws[Min(is) + k - 1].cr
  OBVIOUS
<1>1. Len(ws) \in Nat /\ is \in SUBSET (1 .. Len(ws))
  <2>1. DOMAIN ws = 1 .. Len(ws) /\ Len(ws) \in Nat
    BY LenProperties
  <2> QED BY <2>1
<1>0. Trim(ws) = [SubSeq(ws, Min(is), Max(is)) EXCEPT ![Max(is) - Min(is) + 1].cr = FALSE]
  BY DEF Trim
<1> HIDE DEF is
<1>2. Min(is) \in is /\ Max(is) \in is /\ \A i \in is : Min(is) <= i
  BY <1>1, MinOf, MaxOf
<1>3. Min(is) \in 1 .. Len(ws) /\ Max(is) \in 1 .. Len(ws) /\ Min(is) <= Max(is)
  BY <1>1, <1>2
<1>4. PICK lo \in 1 .. Len(ws) : lo = Min(is)
  BY <1>3
<1>5. PICK hi \in 1 .. Len(ws) : hi = Max(is) /\ lo <= hi
  BY <1>3, <1>4
<1>6. PICK u : u = SubSeq(ws, lo, hi)
  OBVIOUS
<1>7. u \in Seq(Word) /\ Len(u) = hi - lo + 1
  BY <1>1, <1>6, <1>5
<1>8. \A k \in 1 .. hi - lo + 1 : u[k] = ws[lo + k - 1]
  BY <1>1, <1>6, <1>5
<1>9. hi - lo + 1 \in 1 .. Len(u)
  BY <1>7, <1>5
<1>10. PICK m : m = hi - lo + 1
  OBVIOUS
<1>11. Trim(ws) = [u EXCEPT ![m].cr = FALSE]
  BY <1>0, <1>4, <1>5, <1>6, <1>10
<1>12. u[m] \in Word
  BY <1>7, <1>9, <1>10, ElementOfSeq
<1>13. PICK w \in Word : /\ w = [u[m] EXCEPT !.cr = FALSE]
                         /\ w.text = u[m].text /\ w.joined = u[m].joined /\ w.cr = FALSE
  BY <1>12, WithoutCr
<1>14. Trim(ws) = [u EXCEPT ![m] = w]
  BY <1>11, <1>13
<1>15. m \in 1 .. Len(u)
  BY <1>9, <1>10
<1>16. Trim(ws) \in Seq(Word) /\ Len(Trim(ws)) = Len(u)
  BY <1>14, <1>7, <1>15, ExceptSeq
<1>17. \A k \in 1 .. Len(u) : Trim(ws)[k] = IF k = m THEN w ELSE u[k]
  BY <1>14, <1>7, <1>15, ExceptSeq
<1>18. \A k \in 1 .. Len(u) : /\ Trim(ws)[k].text = u[k].text
                              /\ Trim(ws)[k].joined = u[k].joined
                              /\ Trim(ws)[k].cr = IF k = m THEN FALSE ELSE u[k].cr
  BY <1>13, <1>17
<1>19. Len(Trim(ws)) = hi - lo + 1
  BY <1>7, <1>16
<1>20. \A k \in 1 .. hi - lo + 1 :
          /\ Trim(ws)[k].text = ws[lo + k - 1].text
          /\ Trim(ws)[k].joined = ws[lo + k - 1].joined
          /\ Trim(ws)[k].cr = IF k = hi - lo + 1 THEN FALSE ELSE ws[lo + k - 1].cr
  BY <1>7, <1>8, <1>10, <1>18
<1> QED BY <1>3, <1>4, <1>5, <1>16, <1>19, <1>20

\* Trim gives words.
LEMMA TrimType ==
  ASSUME NEW ws \in Seq(Word)
  PROVE  Trim(ws) \in Seq(Word)
<1>1. CASE {i \in DOMAIN ws : ws[i].text # ""} = {}
  <2>1. Trim(ws) = <<>>
    BY <1>1 DEF Trim
  <2> QED BY <2>1, EmptySeq
<1>2. CASE {i \in DOMAIN ws : ws[i].text # ""} # {}
  BY <1>2, TrimmedStretch
<1> QED BY <1>1, <1>2

\* A text's words with the carriage return in the last.
LEMMA PartsShape ==
  ASSUME NEW l \in Line
  PROVE  /\ ~l.cr => Parts(l) = l.words
         /\ l.cr /\ l.words = <<>> => Parts(l) = <<CR>>
         /\ l.cr /\ l.words # <<>> =>
                \E w \in Word : /\ w = [l.words[Len(l.words)] EXCEPT !.cr = TRUE, !.exact = FALSE]
                                /\ Parts(l) = [l.words EXCEPT ![Len(l.words)] = w]
<1>1. l.words \in Seq(Word)
  BY DEF Line
<1>2. PICK ws \in Seq(Word) : ws = l.words
  BY <1>1
<1>3. PICK n : n = Len(ws)
  OBVIOUS
<1>4. ws # <<>> => n \in 1 .. Len(ws)
  BY <1>3
<1>5. ASSUME l.cr, ws # <<>>
      PROVE  \E w \in Word : /\ w = [ws[n] EXCEPT !.cr = TRUE, !.exact = FALSE]
                             /\ Parts(l) = [ws EXCEPT ![n] = w]
  <2>1. Parts(l) = [ws EXCEPT ![n].cr = TRUE, ![n].exact = FALSE]
    BY <1>2, <1>3, <1>5 DEF Parts
  <2>2. ws[n] \in Word
    BY <1>4, <1>5
  <2>3. PICK v \in Word : v = [ws[n] EXCEPT !.cr = TRUE]
    BY <2>2 DEF Word
  <2>4. PICK w \in Word : w = [v EXCEPT !.exact = FALSE]
    BY <2>3 DEF Word
  <2>5. w = [ws[n] EXCEPT !.cr = TRUE, !.exact = FALSE]
    BY <2>3, <2>4
  <2>6. PICK u : u = [ws EXCEPT ![n] = v]
    OBVIOUS
  <2>7. u = [ws EXCEPT ![n].cr = TRUE]
    BY <2>3, <2>6
  <2>8. Parts(l) = [u EXCEPT ![n].exact = FALSE]
    BY <2>1, <2>7
  <2>9. u[n] = v
    BY <2>6, <1>4, <1>5
  <2>10. Parts(l) = [u EXCEPT ![n] = w]
    BY <2>8, <2>9, <2>4
  <2>11. Parts(l) = [ws EXCEPT ![n] = w]
    BY <2>10, <2>6
  <2> QED BY <2>5, <2>11
<1> QED BY <1>2, <1>3, <1>5 DEF Parts

\* Parts are words, as many as the line has but for a carriage return alone,
\* with the line's texts and numbers; only the last is not the line's.
LEMMA PartsType ==
  ASSUME NEW l \in Line
  PROVE  /\ Parts(l) \in Seq(Word)
         /\ Len(Parts(l)) = IF l.cr /\ l.words = <<>> THEN 1 ELSE Len(l.words)
         /\ \A i \in 1 .. Len(l.words) : Parts(l)[i].text = l.words[i].text /\ Parts(l)[i].v = l.words[i].v
         /\ \A i \in 1 .. Len(l.words) - 1 : Parts(l)[i] = l.words[i]
<1>1. l.words \in Seq(Word)
  BY DEF Line
<1>2. PICK c \in Word : c = CR
  BY CrIsWord
<1>3. PICK ws \in Seq(Word) : ws = l.words
  BY <1>1
<1>4. CASE ~l.cr
  BY <1>4, <1>1, PartsShape
<1>5. CASE l.cr /\ ws = <<>>
  <2>1. Parts(l) = <<c>>
    BY <1>5, <1>2, <1>3, PartsShape
  <2>2. <<c>> \in Seq(Word) /\ Len(<<c>>) = 1
    OBVIOUS
  <2>3. Len(ws) = 0
    BY <1>5
  <2> QED BY <1>3, <1>5, <2>1, <2>2, <2>3
<1>6. CASE l.cr /\ ws # <<>>
  <2>1. PICK w \in Word : /\ w = [ws[Len(ws)] EXCEPT !.cr = TRUE, !.exact = FALSE]
                          /\ Parts(l) = [ws EXCEPT ![Len(ws)] = w]
    BY <1>3, <1>6, PartsShape
  <2>2. Len(ws) \in 1 .. Len(ws)
    BY <1>6
  <2>2a. ws[Len(ws)] \in Word
    BY <2>2, ElementOfSeq
  <2>3. w.text = ws[Len(ws)].text /\ w.v = ws[Len(ws)].v
    BY <2>1, <2>2a, WithCr
  <2>4. Parts(l) \in Seq(Word) /\ Len(Parts(l)) = Len(ws)
    BY <2>1, <2>2, ExceptSeq
  <2>5. \A i \in 1 .. Len(ws) : Parts(l)[i] = IF i = Len(ws) THEN w ELSE ws[i]
    BY <2>1, <2>2, ExceptSeq
  <2> QED BY <1>3, <1>6, <2>3, <2>4, <2>5
<1> QED BY <1>3, <1>4, <1>5, <1>6

\* The words of a line's text before its parts.
Before(l) == IF HasType(l) THEN 1 ELSE 0

\* A line's text has its type for its first word, if it has one, and its parts.
LEMMA TextShape ==
  ASSUME NEW l \in Line
  PROVE  /\ Text(l) \in Seq(Word)
         /\ Len(Text(l)) = Before(l) + Len(Parts(l))
         /\ HasType(l) => Text(l)[1] = [TypeWord(l) EXCEPT !.joined = TRUE]
         /\ \A i \in 1 .. Len(Parts(l)) :
                Text(l)[Before(l) + i] = [Parts(l)[i] EXCEPT !.joined = (Before(l) + i = 1)]
<1>1. PICK p \in Seq(Word) : p = Parts(l)
  BY PartsType
<1>2. PICK w \in Word : w = TypeWord(l)
  BY TypeIsWord
<1>3. \E o \in Seq(Word) : /\ o = IF HasType(l) THEN <<TypeWord(l)>> ELSE <<>>
                           /\ Len(o) = Before(l)
                           /\ HasType(l) => o[1] = w
  <2>1. CASE HasType(l)
    <3>0. <<w>> \in Seq(Word) /\ Len(<<w>>) = 1 /\ <<w>>[1] = w
      OBVIOUS
    <3>1. PICK o \in Seq(Word) : o = <<w>> /\ Len(o) = 1 /\ o[1] = w
      BY <3>0
    <3>2. Before(l) = 1
      BY <2>1 DEF Before
    <3> QED BY <1>2, <2>1, <3>1, <3>2
  <2>2. CASE ~HasType(l)
    <3>1. PICK o \in Seq(Word) : o = <<>>
      BY EmptySeq
    <3>2. Len(o) = 0
      BY <3>1
    <3>3. Before(l) = 0
      BY <2>2 DEF Before
    <3> QED BY <2>2, <3>1, <3>2, <3>3, Zenon
  <2> QED BY <2>1, <2>2
<1>3a. PICK o \in Seq(Word) : /\ o = IF HasType(l) THEN <<TypeWord(l)>> ELSE <<>>
                              /\ Len(o) = Before(l)
                              /\ HasType(l) => o[1] = w
  BY <1>3
<1>4. PICK ws \in Seq(Word) : ws = o \o p
  BY ConcatType
<1>5. PICK n \in Nat : n = Len(o) + Len(p)
  OBVIOUS
<1>6. /\ Len(ws) = n /\ DOMAIN ws = 1 .. n
      /\ \A i \in 1 .. n : ws[i] = IF i <= Len(o) THEN o[i] ELSE p[i - Len(o)]
  <2>1. Len(ws) = n /\ \A i \in 1 .. n : ws[i] = IF i <= Len(o) THEN o[i] ELSE p[i - Len(o)]
    BY <1>4, <1>5, ConcatProperties
  <2> QED BY <2>1, LenProperties
<1> DEFINE F(i) == [ws[i] EXCEPT !.joined = (i = 1)]
<1>7. Text(l) = [i \in 1 .. n |-> F(i)]
  BY <1>1, <1>3a, <1>4, <1>6 DEF Text
<1>8. ASSUME NEW i \in 1 .. n
      PROVE  F(i) \in Word
  <2>1. PICK x \in Word : x = ws[i]
    BY <1>6, ElementOfSeq
  <2>2. PICK b \in BOOLEAN : b = (i = 1)
    OBVIOUS
  <2>3. [x EXCEPT !.joined = b] \in Word
    BY DEF Word
  <2> QED BY <2>1, <2>2, <2>3
<1>9. Text(l) \in Seq(Word) /\ Len(Text(l)) = n /\ \A i \in 1 .. n : Text(l)[i] = F(i)
  <2> HIDE DEF F
  <2> QED BY <1>7, <1>8
<1>10. ASSUME HasType(l)
       PROVE  Text(l)[1] = [TypeWord(l) EXCEPT !.joined = TRUE]
  <2>1. Len(o) = 1 /\ 1 \in 1 .. n
    BY <1>3a, <1>5, <1>10 DEF Before
  <2>2. ws[1] = w
    BY <1>3a, <1>6, <1>10, <2>1
  <2>3. F(1) = [w EXCEPT !.joined = TRUE]
    BY <2>2
  <2>4. Text(l)[1] = F(1)
    BY <1>9, <2>1
  <2> QED BY <1>2, <2>3, <2>4
<1>11. ASSUME NEW i \in 1 .. Len(p)
       PROVE  Text(l)[Before(l) + i] = [p[i] EXCEPT !.joined = (Before(l) + i = 1)]
  <2>1. PICK b \in Nat : b = Before(l) /\ b = Len(o)
    BY <1>3a
  <2>2. b + i \in 1 .. n /\ ~(b + i <= b) /\ (b + i) - b = i
    BY <1>5, <2>1
  <2>3. ws[b + i] = p[i]
    BY <1>6, <2>1, <2>2
  <2>4. Text(l)[b + i] = F(b + i)
    BY <1>9, <2>2
  <2>5. F(b + i) = [p[i] EXCEPT !.joined = (b + i = 1)]
    BY <2>3
  <2> QED BY <2>1, <2>4, <2>5
<1> QED BY <1>1, <1>3a, <1>5, <1>9, <1>10, <1>11

-----------------------------------------------------------------------------
(* split_string with skip_empty. *)

\* What NonEmpty concatenates.
Pieces(ws) == [i \in DOMAIN ws |-> IF ws[i].text = "" THEN <<>> ELSE <<ws[i]>>]
Piece(w) == IF w.text = "" THEN <<>> ELSE <<w>>
WithText(S) == {w \in S : w.text # ""}

\* The pieces: a word with a text makes one word, another makes none.
LEMMA PiecesType ==
  ASSUME NEW S, NEW ws \in Seq(S)
  PROVE  /\ Pieces(ws) \in Seq(Seq(WithText(S)))
         /\ Len(Pieces(ws)) = Len(ws)
         /\ \A i \in 1 .. Len(ws) : Pieces(ws)[i] = Piece(ws[i])
<1>1. DOMAIN ws = 1 .. Len(ws) /\ Len(ws) \in Nat
  BY LenProperties
<1>2. ASSUME NEW i \in 1 .. Len(ws)
      PROVE  Piece(ws[i]) \in Seq(WithText(S))
  <2>1. ws[i] \in S
    BY ElementOfSeq
  <2>2. CASE ws[i].text = ""
    BY <2>2, EmptySeq DEF Piece
  <2>3. CASE ws[i].text # ""
    <3>1. PICK w \in WithText(S) : w = ws[i]
      BY <2>1, <2>3 DEF WithText
    <3>2. <<w>> \in Seq(WithText(S))
      OBVIOUS
    <3> QED BY <2>3, <3>1, <3>2 DEF Piece
  <2> QED BY <2>2, <2>3
<1>3. Pieces(ws) = [i \in 1 .. Len(ws) |-> Piece(ws[i])]
  BY <1>1 DEF Pieces, Piece
<1>4. PICK T : T = Seq(WithText(S))
  OBVIOUS
<1>5. \A i \in 1 .. Len(ws) : Piece(ws[i]) \in T
  BY <1>2, <1>4
<1>6. [i \in 1 .. Len(ws) |-> Piece(ws[i])] \in Seq(T)
  BY <1>1, <1>5
<1>7. Len([i \in 1 .. Len(ws) |-> Piece(ws[i])]) = Len(ws)
  BY <1>1
<1> QED BY <1>3, <1>4, <1>6, <1>7

\* What split_string leaves are words with a text.
LEMMA NonEmptyType ==
  ASSUME NEW S, NEW ws \in Seq(S)
  PROVE  NonEmpty(ws) \in Seq(WithText(S))
<1>1. NonEmpty(ws) = FlattenSeq(Pieces(ws))
  BY Zenon DEF NonEmpty, Pieces
<1> QED BY <1>1, PiecesType, FlattenType

\* It leaves nothing of nothing.
LEMMA NonEmptyOfNone ==
  NonEmpty(<<>>) = <<>>
<1>1. NonEmpty(<<>>) = FlattenSeq(Pieces(<<>>))
  BY Zenon DEF NonEmpty, Pieces
<1>2. PICK e \in Seq(Word) : e = <<>>
  BY EmptySeq
<1>3. Len(Pieces(e)) = 0 /\ Pieces(e) \in Seq(Seq(WithText(Word)))
  BY <1>2, PiecesType
<1>4. Pieces(e) = <<>>
  BY <1>3, EmptySeq
<1> QED BY <1>1, <1>2, <1>3, <1>4 DEF FlattenSeq

\* It drops a last word without text and keeps any other.
LEMMA NonEmptyLast ==
  ASSUME NEW S, NEW ws \in Seq(S), NEW w \in S
  PROVE  NonEmpty(Append(ws, w)) = IF w.text = "" THEN NonEmpty(ws) ELSE Append(NonEmpty(ws), w)
<1>1. PICK us \in Seq(S) : us = Append(ws, w)
  BY AppendProperties
<1>2. Len(us) = Len(ws) + 1 /\ us[Len(ws) + 1] = w /\ \A i \in 1 .. Len(ws) : us[i] = ws[i]
  BY <1>1
<1>3. Len(ws) \in Nat
  OBVIOUS
<1>4. PICK P : P = Seq(WithText(S))
  OBVIOUS
<1>5. PICK a \in Seq(P) : a = Pieces(ws) /\ Len(a) = Len(ws) /\ \A i \in 1 .. Len(ws) : a[i] = Piece(ws[i])
  BY <1>4, PiecesType
<1>6. PICK b \in Seq(P) : b = Pieces(us) /\ Len(b) = Len(us) /\ \A i \in 1 .. Len(us) : b[i] = Piece(us[i])
  BY <1>4, PiecesType
<1>7. PICK x : x = Piece(w)
  OBVIOUS
<1>8. b[Len(ws) + 1] = x
  BY <1>2, <1>3, <1>6, <1>7
<1>9. x \in P
  BY <1>2, <1>3, <1>6, <1>8
<1>10. \A i \in 1 .. Len(ws) : b[i] = a[i]
  BY <1>2, <1>3, <1>5, <1>6
<1>11. b = Append(a, x)
  BY <1>2, <1>3, <1>5, <1>6, <1>8, <1>9, <1>10
<1>12. FlattenSeq(b) = FlattenSeq(a) \o x
  BY <1>4, <1>9, <1>11, FlattenLast
<1>13. FlattenSeq(a) = NonEmpty(ws) /\ FlattenSeq(b) = NonEmpty(us)
  BY <1>5, <1>6, Zenon DEF NonEmpty, Pieces
<1>14. PICK u \in Seq(WithText(S)) : u = NonEmpty(ws)
  BY NonEmptyType
<1>15. CASE w.text = ""
  <2>1. x = <<>>
    BY <1>7, <1>15 DEF Piece
  <2>2. u \o x = u
    BY <2>1, ConcatEmptySeq
  <2> QED BY <1>1, <1>12, <1>13, <1>14, <1>15, <2>2
<1>16. CASE w.text # ""
  <2>1. PICK y \in WithText(S) : y = w
    BY <1>16 DEF WithText
  <2>2. x = <<y>>
    BY <1>7, <1>16, <2>1 DEF Piece
  <2>3. u \o <<y>> = Append(u, y)
    OBVIOUS
  <2> QED BY <1>1, <1>12, <1>13, <1>14, <1>16, <2>1, <2>2, <2>3
<1> QED BY <1>15, <1>16

\* A list that is not empty ends in its last word.
LEMMA FrontAndLast ==
  ASSUME NEW S, NEW ws \in Seq(S), ws # <<>>
  PROVE  \E f \in Seq(S) : ws = Append(f, ws[Len(ws)])
<1>1. PICK n \in Nat : Len(ws) = n + 1
  <2>1. Len(ws) \in Nat \ {0}
    BY EmptySeq
  <2>2. Len(ws) - 1 \in Nat /\ Len(ws) = (Len(ws) - 1) + 1
    BY <2>1
  <2> QED BY <2>2
<1>2. PICK f : f = SubSeq(ws, 1, n)
  OBVIOUS
<1>3. f \in Seq(S) /\ Len(f) = n /\ \A i \in 1 .. n : f[i] = ws[i]
  BY <1>1, <1>2
<1>4. PICK w \in S : w = ws[Len(ws)]
  BY <1>1
<1>5. ws = Append(f, w)
  BY <1>1, <1>3, <1>4
<1> QED BY <1>3, <1>4, <1>5

\* The words of a date with and without the carriage return.
LEMMA CrInTheLastWord ==
  ASSUME NEW l \in Line, l.cr
  PROVE  \/ NonEmpty(Parts(l)) = <<>> /\ NonEmpty(l.words) = <<>>
         \/ NonEmpty(Parts(l)) = NonEmpty(l.words) /\ l.words # <<>> /\ l.words[Len(l.words)].text = ""
         \/ \E u \in Seq(Word), w \in Word, x \in Word :
                /\ NonEmpty(l.words) = Append(u, w) /\ NonEmpty(Parts(l)) = Append(u, x)
                /\ x.text = w.text /\ x.v = w.v /\ x.cr = TRUE /\ x.exact = FALSE
<1>1. PICK ws \in Seq(Word) : ws = l.words
  BY DEF Line
<1>2. CASE ws = <<>>
  <2>1. PICK c \in Word : c = CR /\ c.text = ""
    BY CrIsWord
  <2>2. Parts(l) = <<c>>
    BY <1>1, <1>2, <2>1, PartsShape
  <2>3. <<c>> = Append(ws, c)
    BY <1>2
  <2>4. NonEmpty(<<c>>) = NonEmpty(ws)
    BY <2>1, <2>3, NonEmptyLast
  <2> QED BY <1>1, <1>2, <2>2, <2>4, NonEmptyOfNone
<1>3. CASE ws # <<>>
  <2>1. PICK f \in Seq(Word) : ws = Append(f, ws[Len(ws)])
    BY <1>3, FrontAndLast
  <2>2. PICK w \in Word : w = ws[Len(ws)]
    BY <1>3
  <2>3. PICK x \in Word : /\ x = [w EXCEPT !.cr = TRUE, !.exact = FALSE]
                          /\ x.text = w.text /\ x.v = w.v /\ x.cr = TRUE /\ x.exact = FALSE
    BY WithCr
  <2>4. Parts(l) = [ws EXCEPT ![Len(ws)] = x]
    BY <1>1, <1>3, <2>2, <2>3, PartsShape
  <2>5. Len(ws) \in Nat /\ Len(ws) = Len(f) + 1
    BY <2>1
  <2>6. [ws EXCEPT ![Len(ws)] = x] = Append(f, x)
    <3>1. PICK n \in 1 .. Len(ws) : n = Len(ws)
      BY <2>5
    <3>2. PICK a : a = [ws EXCEPT ![n] = x]
      OBVIOUS
    <3>3. a \in Seq(Word) /\ Len(a) = Len(ws)
      BY <3>2, ExceptSeq
    <3>4. \A j \in 1 .. Len(ws) : a[j] = IF j = n THEN x ELSE ws[j]
      BY <3>2, ExceptSeq
    <3>5. PICK b : b = Append(f, x)
      OBVIOUS
    <3>6. b \in Seq(Word) /\ Len(b) = Len(f) + 1
      BY <3>5, AppendProperties
    <3>7. b[Len(f) + 1] = x /\ \A j \in 1 .. Len(f) : b[j] = f[j]
      BY <3>5, AppendProperties
    <3>8. \A j \in 1 .. Len(f) : ws[j] = f[j]
      BY <2>1, <2>2, AppendProperties
    <3>9. ASSUME NEW j \in 1 .. Len(a)
          PROVE  a[j] = b[j]
      <4>1. j = n \/ (j \in 1 .. Len(f) /\ j # n)
        BY <2>5, <3>1, <3>3
      <4> QED BY <2>5, <3>1, <3>3, <3>4, <3>7, <3>8, <4>1
    <3>10. Len(a) = Len(b)
      BY <2>5, <3>3, <3>6
    <3>11. a = b
      BY <3>3, <3>6, <3>9, <3>10, SeqEqual
    <3> QED BY <3>1, <3>2, <3>5, <3>11
  <2>7. NonEmpty(ws) = IF w.text = "" THEN NonEmpty(f) ELSE Append(NonEmpty(f), w)
    BY <2>1, <2>2, NonEmptyLast
  <2>8. NonEmpty(Parts(l)) = IF x.text = "" THEN NonEmpty(f) ELSE Append(NonEmpty(f), x)
    BY <2>4, <2>6, NonEmptyLast
  <2>9. CASE w.text = ""
    BY <1>1, <1>3, <2>2, <2>3, <2>7, <2>8, <2>9
  <2>10. CASE w.text # ""
    <3>1. NonEmpty(f) \in Seq(WithText(Word))
      BY NonEmptyType
    <3>2. WithText(Word) \subseteq Word
      BY DEF WithText
    <3>3. PICK u \in Seq(Word) : u = NonEmpty(f)
      BY <3>1, <3>2, SeqMonotonic
    <3> QED BY <1>1, <2>3, <2>7, <2>8, <2>10, <3>3
  <2> QED BY <2>9, <2>10
<1> QED BY <1>2, <1>3

-----------------------------------------------------------------------------
(* Dates. *)

\* timegm gives a number.
LEMMA TimegmType ==
  ASSUME NEW y \in Int, NEW m \in 1 .. 12, NEW d \in Int,
         NEW t, t[1] \in Int, t[2] \in Int, t[3] \in Int
  PROVE  Timegm(y, m, d, t) \in Int
<1>1. DaysBeforeMonth[m] \in Int
  <2>1. \/ m = 1 \/ m = 2 \/ m = 3 \/ m = 4 \/ m = 5 \/ m = 6
        \/ m = 7 \/ m = 8 \/ m = 9 \/ m = 10 \/ m = 11 \/ m = 12
    OBVIOUS
  <2> QED BY <2>1 DEF DaysBeforeMonth
<1>2. PICK b \in Int : b = DaysBeforeMonth[m]
  BY <1>1
<1>3. \A k \in Int : LeapsUntil(k) \in Int
  BY DEF LeapsUntil
<1>4. PICK p \in Int : p = LeapsUntil(y - 1)
  BY <1>3
<1>5. PICK q \in Int : q = LeapsUntil(1969)
  BY <1>3
<1>6. PICK x \in Int : x = IF m > 2 /\ LeapYear(y) THEN 1 ELSE 0
  OBVIOUS
<1>7. PICK days \in Int : days = 365 * (y - 1970) + p - q + b + x + d - 1
  OBVIOUS
<1>8. Timegm(y, m, d, t) = 86400 * days + 3600 * t[1] + 60 * t[2] + t[3]
  BY <1>2, <1>4, <1>5, <1>6, <1>7 DEF Timegm
<1> QED BY <1>8

\* The name of a month has a number, the words of a time three.
LEMMA MonthType ==
  ASSUME NEW w, IsMonth(w)
  PROVE  Month(w) \in 1 .. 12
<1>1. \E m \in DOMAIN Months : Months[m] = w.text
  BY DEF IsMonth
<1>2. Month(w) \in DOMAIN Months
  BY <1>1, Zenon DEF Month
<1>3. DOMAIN Months = 1 .. 12
  BY DEF Months
<1> QED BY <1>2, <1>3

\* What sscanf leaves are numbers, those of the word if it is a time.
LEMMA ScannedType ==
  ASSUME NEW w \in Word
  PROVE  /\ Scanned(w)[1] \in Int /\ Scanned(w)[2] \in Int /\ Scanned(w)[3] \in Int
         /\ IsTime(w) => /\ Scanned(w)[1] = w.v[1] /\ Scanned(w)[2] = w.v[2]
                         /\ Scanned(w)[3] = w.v[3]
<1>1. PICK v \in Seq(Int) : v = w.v
  BY DEF Word
<1>2. \A i \in 1 .. 3 : Scanned(w)[i] = IF i \in DOMAIN v THEN v[i] ELSE 0
  BY <1>1 DEF Scanned
<1>3. DOMAIN v = 1 .. Len(v) /\ Len(v) \in Nat
  BY LenProperties
<1>4. \A i \in 1 .. 3 : Scanned(w)[i] \in Int
  BY <1>2, <1>3
<1>5. IsTime(w) => \A i \in 1 .. 3 : i \in DOMAIN v
  BY <1>1, <1>3 DEF IsTime
<1>6. 1 \in 1 .. 3 /\ 2 \in 1 .. 3 /\ 3 \in 1 .. 3
  OBVIOUS
<1> QED BY <1>1, <1>2, <1>4, <1>5, <1>6

\* The checks of the code and the forms of the parts of a date.
LEMMA Checks ==
  ASSUME NEW w \in Word
  PROVE  /\ IsTime(w) <=> ~TimeFault(w)
         /\ IsYear(w) <=> ~Throws(w) /\ ~YearFault(w)
         /\ IsDay(w) <=> ~Throws(w) /\ Stoi(w) \in 0 .. 31
<1>1. PICK v \in Seq(Int) : v = w.v
  BY DEF Word
<1>2. PICK n \in Nat : n = Len(v)
  OBVIOUS
<1>3. IsTime(w) <=> ~TimeFault(w)
  BY <1>1, <1>2 DEF IsTime, TimeFault
<1>4. w.exact \in BOOLEAN
  BY DEF Word
<1>5. v # <<>> => v[1] \in Int
  BY <1>2
<1>6. IsYear(w) <=> ~Throws(w) /\ ~YearFault(w)
  <2>1. CASE v = <<>>
    BY <1>1, <2>1 DEF IsYear, Throws
  <2>2. CASE v # <<>>
    <3>1. PICK y \in Int : y = v[1]
      BY <1>5, <2>2
    <3> QED BY <1>1, <1>4, <2>2, <3>1 DEF IsYear, Throws, YearFault, Stoi
  <2> QED BY <2>1, <2>2
<1>7. IsDay(w) <=> ~Throws(w) /\ Stoi(w) \in 0 .. 31
  BY <1>1 DEF IsDay, Throws, Stoi
<1> QED BY <1>3, <1>6, <1>7

\* A date that is generated is a number, and never -1 without an error.
LEMMA Generated ==
  ASSUME NEW y \in Word, NEW m \in Word, NEW d \in Word, NEW t \in Word,
         IsMonth(m), IsYear(y), IsDay(d)
  PROVE  /\ Generate(y, m, d, t).date \in Int
         /\ Generate(y, m, d, t).result \in {"date", "error"}
         /\ Generate(y, m, d, t).result = "date" => IsTime(t) /\ Generate(y, m, d, t).date # -1
         /\ IsTime(t) =>
              LET n == Timegm(y.v[1], Month(m), d.v[1], t.v)
              IN  /\ Generate(y, m, d, t).date = n
                  /\ Generate(y, m, d, t).result = IF n = -1 THEN "error" ELSE "date"
<1>1. y.v[1] \in Int /\ d.v[1] \in Int
  <2>1. y.v \in Seq(Int) /\ y.v # <<>> /\ d.v \in Seq(Int) /\ d.v # <<>>
    BY DEF Word, IsYear, IsDay
  <2> QED BY <2>1
<1>2. PICK s : s = Scanned(t)
  OBVIOUS
<1>3. PICK n \in Int : n = Timegm(y.v[1], Month(m), d.v[1], s)
  BY <1>1, <1>2, MonthType, ScannedType, TimegmType
<1>4. Generate(y, m, d, t) = [result |-> IF TimeFault(t) \/ n = -1 THEN "error" ELSE "date", date |-> n]
  BY <1>2, <1>3 DEF Generate, Stoi
<1>5. IsTime(t) <=> ~TimeFault(t)
  BY Checks
<1>6. IsTime(t) => Timegm(y.v[1], Month(m), d.v[1], t.v) = n
  BY <1>2, <1>3, ScannedType DEF Timegm
<1> QED BY <1>4, <1>5, <1>6

\* A failure has its name for a result.
LEMMA FailureIs ==
  ASSUME NEW f
  PROVE  Failure(f).result = f /\ Failure(f).date = -1
BY DEF Failure

\* What parse_date_rfc_1123 makes of six words.
LEMMA Rfc1123Result ==
  ASSUME NEW p \in Seq(Word), EndsInGmt(p)
  PROVE  /\ ParseRfc1123(p).date \in Int
         /\ ParseRfc1123(p).result = "date" => IsRfc1123(p) /\ ParseRfc1123(p).date # -1
         /\ IsRfc1123(p) =>
              LET n == Timegm(p[4].v[1], Month(p[3]), p[2].v[1], p[5].v)
              IN  /\ ParseRfc1123(p).date = n
                  /\ ParseRfc1123(p).result = IF n = -1 THEN "error" ELSE "date"
<1>1. p[2] \in Word /\ p[3] \in Word /\ p[4] \in Word /\ p[5] \in Word
  <2>1. Len(p) = 6
    BY DEF EndsInGmt
  <2>2. 2 \in 1 .. Len(p) /\ 3 \in 1 .. Len(p) /\ 4 \in 1 .. Len(p) /\ 5 \in 1 .. Len(p)
    BY <2>1
  <2> QED BY <2>2, ElementOfSeq
<1>2. CASE IsDay(p[2]) /\ IsMonth(p[3]) /\ IsYear(p[4])
  <2>1. ParseRfc1123(p) = Generate(p[4], p[3], p[2], p[5])
    BY <1>1, <1>2, Checks DEF ParseRfc1123
  <2>2. PICK y \in Word, m \in Word, d \in Word, t \in Word :
            y = p[4] /\ m = p[3] /\ d = p[2] /\ t = p[5]
    BY <1>1
  <2>3. IsMonth(m) /\ IsYear(y) /\ IsDay(d)
    BY <1>2, <2>2
  <2>4. PICK g : g = Generate(y, m, d, t)
    OBVIOUS
  <2>5. PICK n : n = Timegm(y.v[1], Month(m), d.v[1], t.v)
    OBVIOUS
  <2>6. /\ g.date \in Int
        /\ g.result = "date" => IsTime(t) /\ g.date # -1
        /\ IsTime(t) => g.date = n /\ g.result = IF n = -1 THEN "error" ELSE "date"
    BY <2>3, <2>4, <2>5, Generated
  <2>7. IsRfc1123(p) <=> IsTime(t)
    BY <1>2, <2>2 DEF IsRfc1123
  <2>8. ParseRfc1123(p) = g
    BY <2>1, <2>2, <2>4
  <2>9. n = Timegm(p[4].v[1], Month(p[3]), p[2].v[1], p[5].v)
    BY <2>2, <2>5
  <2> QED BY <2>6, <2>7, <2>8, <2>9
<1>3. CASE ~(IsDay(p[2]) /\ IsMonth(p[3]) /\ IsYear(p[4]))
  <2>1. ParseRfc1123(p) = Failure("throws") \/ ParseRfc1123(p) = Failure("error")
    BY <1>1, <1>3, Checks DEF ParseRfc1123
  <2>2. ParseRfc1123(p).date = -1 /\ ParseRfc1123(p).result # "date"
    BY <2>1, FailureIs
  <2> QED BY <1>3, <2>2 DEF IsRfc1123
<1> QED BY <1>2, <1>3

\* What parse_date_asctime makes of any words.
LEMMA AsctimeResult ==
  ASSUME NEW p \in Seq(Word)
  PROVE  /\ ParseAsctime(p).date \in Int
         /\ ParseAsctime(p).result = "date" => BeginsAsAsctime(p) /\ ParseAsctime(p).date # -1
         /\ BeginsAsAsctime(p) =>
              LET n == Timegm(p[5].v[1], Month(p[2]), p[3].v[1], p[4].v)
              IN  /\ ParseAsctime(p).date = n
                  /\ ParseAsctime(p).result = IF n = -1 THEN "error" ELSE "date"
<1>1. CASE Len(p) >= 5
  <2>1. p[2] \in Word /\ p[3] \in Word /\ p[4] \in Word /\ p[5] \in Word
    BY <1>1
  <2>2. CASE IsMonth(p[2]) /\ IsDay(p[3]) /\ IsYear(p[5])
    <3>1. ParseAsctime(p) = Generate(p[5], p[2], p[3], p[4])
      BY <1>1, <2>1, <2>2, Checks DEF ParseAsctime
    <3>2. PICK y \in Word, m \in Word, d \in Word, t \in Word :
              y = p[5] /\ m = p[2] /\ d = p[3] /\ t = p[4]
      BY <2>1
    <3>3. IsMonth(m) /\ IsYear(y) /\ IsDay(d)
      BY <2>2, <3>2
    <3>4. PICK g : g = Generate(y, m, d, t)
      OBVIOUS
    <3>5. PICK n : n = Timegm(y.v[1], Month(m), d.v[1], t.v)
      OBVIOUS
    <3>6. /\ g.date \in Int
          /\ g.result = "date" => IsTime(t) /\ g.date # -1
          /\ IsTime(t) => g.date = n /\ g.result = IF n = -1 THEN "error" ELSE "date"
      BY <3>3, <3>4, <3>5, Generated
    <3>7. BeginsAsAsctime(p) <=> IsTime(t)
      BY <1>1, <2>2, <3>2 DEF BeginsAsAsctime
    <3>8. ParseAsctime(p) = g
      BY <3>1, <3>2, <3>4
    <3>9. n = Timegm(p[5].v[1], Month(p[2]), p[3].v[1], p[4].v)
      BY <3>2, <3>5
    <3> QED BY <3>6, <3>7, <3>8, <3>9
  <2>3. CASE ~(IsMonth(p[2]) /\ IsDay(p[3]) /\ IsYear(p[5]))
    <3>1. ParseAsctime(p) = Failure("throws") \/ ParseAsctime(p) = Failure("error")
      BY <1>1, <2>1, <2>3, Checks DEF ParseAsctime
    <3>2. ParseAsctime(p).date = -1 /\ ParseAsctime(p).result # "date"
      BY <3>1, FailureIs
    <3> QED BY <2>3, <3>2 DEF BeginsAsAsctime
  <2> QED BY <2>2, <2>3
<1>2. CASE ~ (Len(p) >= 5)
  <2>1. \/ ParseAsctime(p) = Failure("throws") \/ ParseAsctime(p) = Failure("error")
        \/ ParseAsctime(p) = Failure("undefined")
    BY <1>2 DEF ParseAsctime
  <2>2. ParseAsctime(p).date = -1 /\ ParseAsctime(p).result # "date"
    BY <2>1, FailureIs
  <2> QED BY <1>2, <2>2 DEF BeginsAsAsctime
<1> QED BY <1>1, <1>2

\* ParseDate by its cases.
LEMMA ParseDateCases ==
  ASSUME NEW l, NEW p, p = NonEmpty(Parts(l))
  PROVE  /\ EndsInGmt(p) /\ ~p[6].cr /\ p[1].text \in FourLetters => ParseDate(l) = ParseRfc1123(p)
         /\ EndsInGmt(p) /\ ~p[6].cr /\ p[1].text \notin FourLetters => ParseDate(l) = ParseRfc850(p)
         /\ ~(EndsInGmt(p) /\ ~p[6].cr) => ParseDate(l) = ParseAsctime(p)
BY DEF ParseDate, EndsInGmt

\* Words stay words when those without text are dropped.
LEMMA NonEmptyWords ==
  ASSUME NEW ws \in Seq(Word)
  PROVE  NonEmpty(ws) \in Seq(Word)
<1>1. NonEmpty(ws) \in Seq(WithText(Word))
  BY NonEmptyType
<1>2. WithText(Word) \subseteq Word
  BY DEF WithText
<1> QED BY <1>1, <1>2, SeqMonotonic

\* What ParseDate makes of a list of words, whatever its form.
LEMMA DateResult ==
  ASSUME NEW l \in Line, NEW p, p = NonEmpty(Parts(l))
  PROVE  /\ p \in Seq(Word)
         /\ ParseDate(l).date \in Int
         /\ ParseDate(l).result = "date" =>
                /\ ParseDate(l).date # -1
                /\ \/ EndsInGmt(p) /\ ~p[6].cr /\ p[1].text \notin FourLetters
                   \/ EndsInGmt(p) /\ ~p[6].cr /\ IsRfc1123(p)
                   \/ BeginsAsAsctime(p)
<1>1. p \in Seq(Word)
  BY PartsType, NonEmptyWords
<1>2. CASE EndsInGmt(p) /\ ~p[6].cr /\ p[1].text \in FourLetters
  <2>1. ParseDate(l) = ParseRfc1123(p)
    BY <1>2, ParseDateCases
  <2> QED BY <1>1, <1>2, <2>1, Rfc1123Result
<1>3. CASE EndsInGmt(p) /\ ~p[6].cr /\ p[1].text \notin FourLetters
  <2>1. ParseDate(l) = ParseRfc850(p)
    BY <1>3, ParseDateCases
  <2>2. ParseDate(l).date = 0
    BY <2>1 DEF ParseRfc850
  <2>3. 0 \in Int /\ 0 # -1
    OBVIOUS
  <2> QED BY <1>1, <1>3, <2>2, <2>3
<1>4. CASE ~(EndsInGmt(p) /\ ~p[6].cr)
  <2>1. ParseDate(l) = ParseAsctime(p)
    BY <1>4, ParseDateCases
  <2> QED BY <1>1, <2>1, AsctimeResult
<1> QED BY <1>2, <1>3, <1>4

\* A date ends in one of four ways.
LEMMA DateResultType ==
  ASSUME NEW l \in Line
  PROVE  ParseDate(l).result \in {"date", "error", "throws", "undefined"}
<1>1. PICK p \in Seq(Word) : p = NonEmpty(Parts(l))
  BY DateResult
<1>2. \A y, m, d, t : Generate(y, m, d, t).result \in {"date", "error"}
  BY DEF Generate
<1>3. \A f : Failure(f).result = f
  BY FailureIs
<1>4. ParseRfc1123(p).result \in {"date", "error", "throws", "undefined"}
  BY <1>2, <1>3 DEF ParseRfc1123
<1>5. ParseRfc850(p).result \in {"date", "error", "throws", "undefined"}
  BY DEF ParseRfc850
<1>6. ParseAsctime(p).result \in {"date", "error", "throws", "undefined"}
  BY <1>2, <1>3 DEF ParseAsctime
<1> QED BY <1>1, <1>4, <1>5, <1>6, ParseDateCases

\* What is taken for a date is one, or is let pass; if its line ends in a
\* carriage return, this is after a space or after words that are not read.
LEMMA TakenDate ==
  ASSUME NEW l \in Line, ParseDate(l).result = "date", NEW ws, ws = NonEmpty(l.words)
  PROVE  /\ IsDate(ws) \/ Unread(ws) \/ BeginsAsAsctime(ws)
         /\ l.cr => \/ l.words # <<>> /\ l.words[Len(l.words)].text = ""
                    \/ Len(ws) > 5 /\ BeginsAsAsctime(ws)
<1>1. PICK p : p = NonEmpty(Parts(l))
  OBVIOUS
<1>2. \/ EndsInGmt(p) /\ ~p[6].cr /\ p[1].text \notin FourLetters
      \/ EndsInGmt(p) /\ ~p[6].cr /\ IsRfc1123(p)
      \/ BeginsAsAsctime(p)
  BY <1>1, DateResult
<1>3. IsDate(p) \/ Unread(p) \/ BeginsAsAsctime(p)
  BY <1>2 DEF IsDate, Unread
<1>4. CASE ~l.cr
  <2>1. p = ws
    BY <1>1, <1>4, PartsShape
  <2> QED BY <1>3, <1>4, <2>1
<1>5. CASE l.cr
  <2>1. CASE p = <<>> /\ ws = <<>>
    <3>1. Len(p) = 0
      BY <2>1
    <3>2. ~EndsInGmt(p)
      BY <3>1 DEF EndsInGmt
    <3>3. ~BeginsAsAsctime(p)
      BY <3>1 DEF BeginsAsAsctime
    <3> QED BY <1>2, <3>2, <3>3
  <2>2. CASE p = ws /\ l.words # <<>> /\ l.words[Len(l.words)].text = ""
    BY <1>3, <2>2
  <2>3. ASSUME NEW u \in Seq(Word), NEW w \in Word, NEW x \in Word, ws = Append(u, w), p = Append(u, x),
               x.text = w.text, x.v = w.v, x.cr = TRUE, x.exact = FALSE
        PROVE  Len(ws) > 5 /\ BeginsAsAsctime(ws)
    <3>1. PICK n \in Nat : n = Len(u)
      OBVIOUS
    <3>2. Len(p) = n + 1 /\ Len(ws) = n + 1 /\ p[n + 1] = x
      BY <2>3, <3>1, AppendProperties
    <3>3. \A i \in 1 .. n : p[i] = ws[i]
      BY <2>3, <3>1, AppendProperties
    <3>4. ~(EndsInGmt(p) /\ ~p[6].cr)
      <4>1. EndsInGmt(p) => p[6] = x
        BY <3>1, <3>2 DEF EndsInGmt
      <4> QED BY <2>3, <4>1
    <3>5. BeginsAsAsctime(p)
      BY <1>2, <3>4
    <3>6. n + 1 >= 5
      BY <3>2, <3>5 DEF BeginsAsAsctime
    <3>7. n # 4
      <4>1. n = 4 => p[5] = x
        BY <3>2
      <4>2. p[5].exact
        BY <3>5 DEF BeginsAsAsctime, IsYear
      <4> QED BY <2>3, <4>1, <4>2
    <3>8. n >= 5
      BY <3>1, <3>6, <3>7
    <3>9. p[2] = ws[2] /\ p[3] = ws[3] /\ p[4] = ws[4] /\ p[5] = ws[5]
      BY <3>1, <3>3, <3>8
    <3>10. BeginsAsAsctime(ws)
      BY <3>2, <3>5, <3>9 DEF BeginsAsAsctime
    <3> QED BY <3>1, <3>2, <3>8, <3>10
  <2> QED BY <1>1, <1>5, <2>1, <2>2, <2>3, CrInTheLastWord
<1> QED BY <1>4, <1>5

\* A date in a line without carriage returns is taken for what it names.
LEMMA DateMeansWhatItNames ==
  ASSUME NEW l \in Line, ~l.cr, NEW ws, ws = NonEmpty(l.words), IsDate(ws),
         \A i \in 1 .. Len(ws) : ~ws[i].cr
  PROVE  /\ ParseDate(l).date = Named(ws)
         /\ ParseDate(l).result = IF Named(ws) = -1 THEN "error" ELSE "date"
<1>1. ws = NonEmpty(Parts(l))
  BY PartsShape
<1>2. ws \in Seq(Word)
  BY <1>1, DateResult
<1>3. CASE EndsInGmt(ws) /\ ws[1].text \in FourLetters
  <2>1. ~ws[6].cr /\ Len(ws) = 6
    BY <1>3 DEF EndsInGmt
  <2>2. ParseDate(l) = ParseRfc1123(ws)
    BY <1>1, <1>3, <2>1, ParseDateCases
  <2>3. IsRfc1123(ws)
    BY <2>1 DEF IsDate
  <2>4. Named(ws) = Timegm(ws[4].v[1], Month(ws[3]), ws[2].v[1], ws[5].v)
    BY <1>3 DEF Named
  <2> QED BY <1>2, <1>3, <2>2, <2>3, <2>4, Rfc1123Result
<1>4. CASE EndsInGmt(ws) /\ ws[1].text \notin FourLetters
  <2>1. ~ws[6].cr
    BY <1>4 DEF EndsInGmt
  <2>2. ParseDate(l) = ParseRfc850(ws)
    BY <1>1, <1>4, <2>1, ParseDateCases
  <2>3. Named(ws) = 0
    BY <1>4 DEF Named
  <2> QED BY <2>2, <2>3 DEF ParseRfc850
<1>5. CASE ~EndsInGmt(ws)
  <2>1. ParseDate(l) = ParseAsctime(ws)
    BY <1>1, <1>5, ParseDateCases
  <2>2. BeginsAsAsctime(ws)
    BY <1>5 DEF IsDate, IsRfc1123
  <2>3. Named(ws) = Timegm(ws[5].v[1], Month(ws[2]), ws[3].v[1], ws[4].v)
    BY <1>5 DEF Named
  <2> QED BY <1>2, <2>1, <2>2, <2>3, AsctimeResult
<1> QED BY <1>3, <1>4, <1>5

\* A date is read to its end, also where a carriage return is in its last
\* word: then it fails, but nothing is thrown and no element is missing.
LEMMA DateIsReadToItsEnd ==
  ASSUME NEW l \in Line, NEW ws, ws = NonEmpty(l.words), IsDate(ws),
         \A i \in 1 .. Len(ws) : ~ws[i].cr /\ (IsMonth(ws[i]) => ws[i].v = <<>>)
  PROVE  ParseDate(l).result \in {"date", "error"}
<1>1. PICK p : p = NonEmpty(Parts(l))
  OBVIOUS
<1>2. ws \in Seq(Word)
  <2>1. l.words \in Seq(Word)
    BY DEF Line
  <2> QED BY <2>1, NonEmptyWords
<1>3. CASE p = ws
  <2>1. CASE EndsInGmt(ws) /\ ws[1].text \in FourLetters
    <3>1. ~ws[6].cr /\ Len(ws) = 6
      BY <2>1 DEF EndsInGmt
    <3>2. ParseDate(l) = ParseRfc1123(ws)
      BY <1>1, <1>3, <2>1, <3>1, ParseDateCases
    <3>3. IsRfc1123(ws)
      BY <3>1 DEF IsDate
    <3> QED BY <1>2, <2>1, <3>2, <3>3, Rfc1123Result
  <2>2. CASE EndsInGmt(ws) /\ ws[1].text \notin FourLetters
    <3>1. ~ws[6].cr
      BY <2>2 DEF EndsInGmt
    <3>2. ParseDate(l) = ParseRfc850(ws)
      BY <1>1, <1>3, <2>2, <3>1, ParseDateCases
    <3> QED BY <3>2 DEF ParseRfc850
  <2>3. CASE ~EndsInGmt(ws)
    <3>1. ParseDate(l) = ParseAsctime(ws)
      BY <1>1, <1>3, <2>3, ParseDateCases
    <3>2. BeginsAsAsctime(ws)
      BY <2>3 DEF IsDate, IsRfc1123
    <3> QED BY <1>2, <3>1, <3>2, AsctimeResult
  <2> QED BY <2>1, <2>2, <2>3
<1>4. ASSUME NEW u \in Seq(Word), NEW w \in Word, NEW x \in Word, ws = Append(u, w), p = Append(u, x),
             x.text = w.text, x.v = w.v, x.cr = TRUE, x.exact = FALSE
      PROVE  ParseDate(l).result = "error"
  <2>1. PICK n \in Nat : n = Len(u)
    OBVIOUS
  <2>2. Len(p) = n + 1 /\ Len(ws) = n + 1 /\ p[n + 1] = x /\ ws[n + 1] = w
    BY <1>4, <2>1, AppendProperties
  <2>3. \A i \in 1 .. n : p[i] = ws[i]
    BY <1>4, <2>1, AppendProperties
  <2>4. ~(EndsInGmt(p) /\ ~p[6].cr)
    <3>1. EndsInGmt(p) => p[6] = x
      BY <2>1, <2>2 DEF EndsInGmt
    <3> QED BY <1>4, <3>1
  <2>5. ParseDate(l) = ParseAsctime(p)
    BY <1>1, <2>4, ParseDateCases
  <2>6. CASE IsRfc1123(ws)
    <3>1. n = 5
      BY <2>1, <2>2, <2>6 DEF IsRfc1123, EndsInGmt
    <3>2. p[2] = ws[2] /\ IsDay(ws[2])
      BY <2>3, <2>6, <3>1 DEF IsRfc1123
    <3>3. ~IsMonth(ws[2])
      BY <2>2, <3>1, <3>2 DEF IsDay
    <3>4. ParseAsctime(p) = Failure("error")
      BY <2>2, <3>1, <3>2, <3>3 DEF ParseAsctime
    <3> QED BY <2>5, <3>4, FailureIs
  <2>7. CASE Len(ws) = 5 /\ BeginsAsAsctime(ws)
    <3>0. n + 1 = 5
      BY <2>2, <2>7
    <3>1. n = 4
      BY <3>0
    <3>2. p[2] = ws[2] /\ p[3] = ws[3] /\ IsMonth(p[2]) /\ IsDay(p[3])
      BY <2>3, <2>7, <3>1 DEF BeginsAsAsctime
    <3>3. p[5] = x /\ ws[5] = w /\ IsYear(w)
      <4>1. 4 + 1 = 5
        OBVIOUS
      <4>2. p[5] = x /\ ws[5] = w
        BY <2>2, <3>1, <4>1
      <4>3. IsYear(ws[5])
        BY <2>7 DEF BeginsAsAsctime
      <4> QED BY <4>2, <4>3
    <3>4. ~Throws(p[5]) /\ YearFault(p[5])
      BY <1>4, <3>3 DEF Throws, YearFault, IsYear
    <3>5. ~Throws(p[3]) /\ Stoi(p[3]) \in 0 .. 31
      BY <3>2 DEF IsDay, Throws, Stoi
    <3>6. ParseAsctime(p) = Failure("error")
      BY <2>2, <3>1, <3>2, <3>4, <3>5 DEF ParseAsctime
    <3> QED BY <2>5, <3>6, FailureIs
  <2> QED BY <2>6, <2>7 DEF IsDate
<1>5. CASE ~l.cr
  BY <1>1, <1>3, <1>5, PartsShape
<1>6. CASE l.cr
  <2>1. CASE p = <<>> /\ ws = <<>>
    BY <1>3, <2>1
  <2> QED BY <1>1, <1>3, <1>4, <1>6, <2>1, CrInTheLastWord
<1> QED BY <1>5, <1>6

-----------------------------------------------------------------------------
(* What read() gets of a request. *)

\* A beginning has the elements of the sequence, the last of them cut.
LEMMA StartsOf ==
  ASSUME NEW S, NEW s \in Seq(S), NEW cuts, \A i \in 1 .. Len(s) : cuts[i] \in SUBSET S,
         NEW t \in Starts(s, cuts), t # <<>>
  PROVE  /\ t \in Seq(S) /\ Len(t) \in 1 .. Len(s)
         /\ \A j \in 1 .. Len(t) - 1 : t[j] = s[j]
         /\ t[Len(t)] \in cuts[Len(t)]
<1>1. DOMAIN s = 1 .. Len(s) /\ Len(s) \in Nat
  BY LenProperties
<1>2. PICK i \in 1 .. Len(s) : \E x \in cuts[i] : t = SubSeq(s, 1, i - 1) \o <<x>>
  BY <1>1 DEF Starts
<1>3. PICK x \in cuts[i] : t = SubSeq(s, 1, i - 1) \o <<x>>
  BY <1>2
<1>4. x \in S
  BY <1>3
<1>5. PICK n \in Nat : i = n + 1
  <2>1. i - 1 \in Nat /\ i = (i - 1) + 1
    BY <1>1
  <2> QED BY <2>1
<1>6. PICK f : f = SubSeq(s, 1, n)
  OBVIOUS
<1>7. f \in Seq(S) /\ Len(f) = n /\ \A j \in 1 .. n : f[j] = s[j]
  BY <1>1, <1>5, <1>6
<1>8. t = f \o <<x>>
  BY <1>3, <1>5, <1>6
<1>9. t = Append(f, x)
  BY <1>4, <1>7, <1>8, AppendIsConcat
<1>10. t \in Seq(S) /\ Len(t) = n + 1 /\ t[n + 1] = x
  BY <1>4, <1>7, <1>9, AppendProperties
<1>11. \A j \in 1 .. n : t[j] = s[j]
  BY <1>4, <1>7, <1>9, AppendProperties
<1>12. Len(t) = i /\ Len(t) - 1 = n /\ t[Len(t)] = x
  BY <1>5, <1>10
<1> QED BY <1>3, <1>10, <1>11, <1>12

\* And what has the elements of the sequence, the last of them cut, is one.
LEMMA StartsHas ==
  ASSUME NEW S, NEW s \in Seq(S), NEW cuts, NEW t \in Seq(S), Len(t) <= Len(s),
         \A j \in 1 .. Len(t) - 1 : t[j] = s[j],
         t # <<>> => t[Len(t)] \in cuts[Len(t)]
  PROVE  t \in Starts(s, cuts)
<1>1. DOMAIN s = 1 .. Len(s) /\ Len(s) \in Nat
  BY LenProperties
<1>2. CASE t = <<>>
  BY <1>2 DEF Starts
<1>3. CASE t # <<>>
  <2>1. PICK n \in Nat : Len(t) = n + 1
    <3>1. Len(t) \in Nat /\ Len(t) # 0
      BY <1>3, EmptySeq
    <3>2. Len(t) - 1 \in Nat /\ Len(t) = (Len(t) - 1) + 1
      BY <3>1
    <3> QED BY <3>2
  <2>2. PICK f \in Seq(S) : t = Append(f, t[Len(t)])
    BY <1>3, FrontAndLast
  <2>3. PICK x \in S : x = t[Len(t)]
    <3>1. Len(t) \in 1 .. Len(t)
      BY <2>1
    <3> QED BY <3>1, ElementOfSeq
  <2>4. Len(t) = Len(f) + 1 /\ \A j \in 1 .. Len(f) : t[j] = f[j]
    BY <2>2, <2>3, AppendProperties
  <2>5. Len(f) = n /\ Len(t) - 1 = n
    BY <2>1, <2>4
  <2>6. \A j \in 1 .. n : s[j] = f[j]
    BY <2>4, <2>5
  <2>7. f = SubSeq(s, 1, n)
    <3>1. n \in 0 .. Len(s)
      BY <1>1, <2>1
    <3>2. PICK g : g = SubSeq(s, 1, n)
      OBVIOUS
    <3>3. g \in Seq(S) /\ Len(g) = n /\ \A j \in 1 .. n : g[j] = s[j]
      BY <3>1, <3>2, Beginning
    <3>4. \A j \in 1 .. Len(f) : f[j] = g[j]
      BY <2>5, <2>6, <3>3
    <3> QED BY <2>5, <3>2, <3>3, <3>4, SeqEqual
  <2>8. t = f \o <<x>>
    BY <2>2, <2>3, AppendIsConcat
  <2>9. PICK i \in DOMAIN s : i = n + 1
    <3>1. n + 1 \in 1 .. Len(s)
      BY <1>1, <2>1
    <3> QED BY <1>1, <3>1
  <2>10. i - 1 = n /\ i = Len(t)
    BY <2>1, <2>9
  <2>11. x \in cuts[i] /\ t = SubSeq(s, 1, i - 1) \o <<x>>
    BY <1>3, <2>3, <2>7, <2>8, <2>10
  <2>12. t \in {SubSeq(s, 1, i - 1) \o <<y>> : y \in cuts[i]}
    BY <2>11
  <2>13. t \in UNION {{SubSeq(s, 1, k - 1) \o <<y>> : y \in cuts[k]} : k \in DOMAIN s}
    BY <2>12, Zenon
  <2> QED BY <2>13, Zenon DEF Starts
<1> QED BY <1>2, <1>3

\* What a word may be cut to is a word, if its beginnings are.
LEMMA CutWordType ==
  ASSUME NEW w \in Word, \A b \in Beginnings(w.text, w.v) : b \in Word
  PROVE  CutWord(w) \in SUBSET Word
<1>1. ASSUME NEW b \in Beginnings(w.text, w.v)
      PROVE  [b EXCEPT !.joined = w.joined] \in Word
  BY DEF Word
<1> QED BY <1>1 DEF CutWord

\* The lines of a request, and what their words and types may be cut to.
LEMMA SentLine ==
  ASSUME NEW r \in Requests, NEW i \in 1 .. Len(r)
  PROVE  /\ r[i] \in Line /\ r[i].words \in Seq(Word)
         /\ \A b \in Beginnings(r[i].type, <<>>) : b \in Word
         /\ \A j \in 1 .. Len(r[i].words) :
               \A b \in Beginnings(r[i].words[j].text, r[i].words[j].v) : b \in Word
<1>1. r \in Seq(Line)
  BY RequestAssumption
<1>2. r[i] \in Line
  BY <1>1, ElementOfSeq
<1>3. r[i].words \in Seq(Word)
  BY <1>2 DEF Line
<1>4. i \in DOMAIN r /\ DOMAIN r[i].words = 1 .. Len(r[i].words)
  BY <1>1, <1>3, LenProperties
<1> QED BY <1>2, <1>3, <1>4, BeginningsAssumption

\* What may be cut of the words of a line.
LEMMA CutWordsShape ==
  ASSUME NEW ws \in Seq(Word), NEW us \in CutWords(ws), us # <<>>,
         \A j \in 1 .. Len(ws) : \A b \in Beginnings(ws[j].text, ws[j].v) : b \in Word
  PROVE  /\ us \in Seq(Word) /\ Len(us) \in 1 .. Len(ws)
         /\ \A j \in 1 .. Len(us) - 1 : us[j] = ws[j]
         /\ us[Len(us)] \in CutWord(ws[Len(us)])
<1> DEFINE cuts == [i \in DOMAIN ws |-> CutWord(ws[i])]
<1>1. \A i \in 1 .. Len(ws) : cuts[i] = CutWord(ws[i])
  BY LenProperties
<1>2. \A i \in 1 .. Len(ws) : cuts[i] \in SUBSET Word
  BY <1>1, ElementOfSeq, CutWordType
<1>3. us \in Starts(ws, cuts)
  BY DEF CutWords
<1> HIDE DEF cuts
<1>4. /\ us \in Seq(Word) /\ Len(us) \in 1 .. Len(ws)
      /\ \A j \in 1 .. Len(us) - 1 : us[j] = ws[j]
      /\ us[Len(us)] \in cuts[Len(us)]
  BY <1>2, <1>3, StartsOf
<1> QED BY <1>1, <1>4

\* Words of which the last one is cut.
LEMMA CutWordsHas ==
  ASSUME NEW ws \in Seq(Word), NEW us \in Seq(Word), Len(us) <= Len(ws),
         \A j \in 1 .. Len(us) - 1 : us[j] = ws[j],
         us # <<>> => us[Len(us)] \in CutWord(ws[Len(us)])
  PROVE  us \in CutWords(ws)
<1> DEFINE cuts == [i \in DOMAIN ws |-> CutWord(ws[i])]
<1>1. us # <<>> => cuts[Len(us)] = CutWord(ws[Len(us)])
  <2>1. us # <<>> => Len(us) \in 1 .. Len(ws)
    BY EmptySeq
  <2> QED BY <2>1, LenProperties
<1>2. us # <<>> => us[Len(us)] \in cuts[Len(us)]
  BY <1>1
<1> HIDE DEF cuts
<1>3. us \in Starts(ws, cuts)
  BY <1>2, StartsHas
<1> QED BY <1>3 DEF CutWords, cuts

\* What is cut off a line leaves the beginning of its type alone, or its type
\* and the first of its words, the last of them cut.
LEMMA CutLineShape ==
  ASSUME NEW r \in Requests, NEW i \in 1 .. Len(r), NEW l, l = r[i], NEW c \in CutLine(l), c # l
  PROVE  /\ c \in Line /\ c.cr = FALSE
         /\ \/ /\ HasType(l) /\ c.type = ""
               /\ \E b \in Word : b \in CutWord(TypeWord(l)) /\ c.words = <<b>>
            \/ /\ c.type = l.type
               /\ c.words \in CutWords(l.words)
               /\ HasType(l) \/ c.words # <<>>
<1>0. PICK T : T = Seq(Word)
  OBVIOUS
<1>1. l \in Line /\ l.words \in Seq(Word) /\ l.type \in Texts
  BY SentLine DEF Line
<1>2. "" \in Texts
  BY RequestAssumption
<1>3. CASE \E b \in CutWord(TypeWord(l)) :
               HasType(l) /\ c = [type |-> "", words |-> <<b>>, cr |-> FALSE]
  <2>1. PICK b \in CutWord(TypeWord(l)) :
               HasType(l) /\ c = [type |-> "", words |-> <<b>>, cr |-> FALSE]
    BY <1>3
  <2>2. b \in Word
    <3>1. PICK w \in Word : w = TypeWord(l) /\ w.text = l.type /\ w.v = <<>>
      BY <1>1, TypeIsWord
    <3>2. \A x \in Beginnings(w.text, w.v) : x \in Word
      BY <3>1, SentLine
    <3>3. CutWord(w) \in SUBSET Word
      BY <3>2, CutWordType
    <3> QED BY <3>1, <3>3
  <2>2a. <<b>> \in Seq(Word)
    BY <2>2
  <2>3. PICK us \in T : us = <<b>>
    BY <1>0, <2>2a
  <2>4. c = [type |-> "", words |-> us, cr |-> FALSE]
    BY <2>1, <2>3
  <2>5. c \in [type : Texts, words : T, cr : BOOLEAN]
    BY <1>2, <2>4
  <2>6. c.type = "" /\ c.words = <<b>> /\ c.cr = FALSE
    BY <2>1
  <2> QED BY <1>0, <2>1, <2>2, <2>5, <2>6 DEF Line
<1>4. CASE \E us \in CutWords(l.words) :
               (HasType(l) \/ us # <<>>) /\ c = [l EXCEPT !.words = us, !.cr = FALSE]
  <2>1. PICK us \in CutWords(l.words) :
               (HasType(l) \/ us # <<>>) /\ c = [l EXCEPT !.words = us, !.cr = FALSE]
    BY <1>4
  <2>2. us \in T
    <3>1. CASE us = <<>>
      BY <1>0, <3>1, EmptySeq
    <3>2. CASE us # <<>>
      BY <1>0, <1>1, <3>2, SentLine, CutWordsShape
    <3> QED BY <3>1, <3>2
  <2>3. l \in [type : Texts, words : T, cr : BOOLEAN]
    BY <1>0, <1>1 DEF Line
  <2>4. c \in [type : Texts, words : T, cr : BOOLEAN] /\ c.type = l.type /\ c.words = us /\ c.cr = FALSE
    BY <2>1, <2>2, <2>3
  <2> QED BY <1>0, <2>1, <2>4 DEF Line
<1> QED BY <1>3, <1>4 DEF CutLine

\* What one read gets: nothing, or the first lines, the last of which may be
\* cut.  The first line has no type, cut or not.
LEMMA GotLines ==
  ASSUME NEW r \in Requests, NEW ls \in Reads(r)
  PROVE  /\ ls \in Seq(Line)
         /\ ls # <<>> =>
              /\ Len(ls) \in 1 .. Len(r)
              /\ \A j \in 1 .. Len(ls) - 1 : ls[j] = r[j]
              /\ ls[Len(ls)] \in CutLine(r[Len(ls)])
              /\ ls[1].type = ""
<1>1. CASE ls = <<>>
  BY <1>1, EmptySeq
<1>2. CASE ls # <<>>
  <2> DEFINE cuts == [i \in DOMAIN r |-> CutLine(r[i])]
  <2>1. r \in Seq(Line) /\ r[1].type = ""
    BY RequestAssumption
  <2>2. \A i \in 1 .. Len(r) : cuts[i] = CutLine(r[i])
    BY <2>1, LenProperties
  <2>3. ASSUME NEW i \in 1 .. Len(r), NEW c \in CutLine(r[i])
        PROVE  c \in Line
    <3>1. CASE c = r[i]
      BY <3>1, SentLine
    <3>2. CASE c # r[i]
      BY <3>2, CutLineShape
    <3> QED BY <3>1, <3>2
  <2>4. ls \in Starts(r, cuts)
    BY DEF Reads
  <2> HIDE DEF cuts
  <2>5. /\ ls \in Seq(Line) /\ Len(ls) \in 1 .. Len(r)
        /\ \A j \in 1 .. Len(ls) - 1 : ls[j] = r[j]
        /\ ls[Len(ls)] \in CutLine(r[Len(ls)])
    <3>1. \A i \in 1 .. Len(r) : cuts[i] \in SUBSET Line
      BY <2>2, <2>3
    <3>2. /\ ls \in Seq(Line) /\ Len(ls) \in 1 .. Len(r)
          /\ \A j \in 1 .. Len(ls) - 1 : ls[j] = r[j]
          /\ ls[Len(ls)] \in cuts[Len(ls)]
      BY <1>2, <2>1, <2>4, <3>1, StartsOf
    <3> QED BY <2>2, <3>2
  <2>6. ls[1].type = ""
    <3>1. PICK n \in Nat : n = Len(ls) /\ n > 0
      BY <2>5
    <3>2. CASE n = 1
      <4>1. ls[1] \in CutLine(r[1]) /\ 1 \in 1 .. Len(r)
        BY <2>5, <3>1, <3>2
      <4>2. PICK c : c = ls[1]
        OBVIOUS
      <4>3. c = r[1] \/ c.type = "" \/ c.type = r[1].type
        BY <4>1, <4>2, CutLineShape
      <4> QED BY <2>1, <4>2, <4>3
    <3>3. CASE n # 1
      <4>1. 1 \in 1 .. n - 1
        BY <3>1, <3>3
      <4> QED BY <2>1, <2>5, <3>1, <4>1
    <3> QED BY <3>2, <3>3
  <2> QED BY <2>5, <2>6
<1> QED BY <1>1, <1>2

\* The words of a date are words of its line: none has a carriage return, and
\* none that is a month has a number.
LEMMA DateWords ==
  ASSUME NEW r \in Requests, NEW i \in 1 .. Len(r), r[i].type = "If-Modified-Since",
         NEW ws, ws = NonEmpty(r[i].words)
  PROVE  \A k \in 1 .. Len(ws) : ~ws[k].cr /\ (IsMonth(ws[k]) => ws[k].v = <<>>)
<1>1. r \in Seq(Line)
  BY RequestAssumption
<1>2. r[i] \in Line
  BY <1>1, ElementOfSeq
<1>3. PICK us \in Seq(Word) : us = r[i].words
  BY <1>2 DEF Line
<1>4. DOMAIN us = 1 .. Len(us) /\ DOMAIN r = 1 .. Len(r)
  BY <1>1, LenProperties
<1>5. ASSUME NEW j \in 1 .. Len(us)
      PROVE  ~us[j].cr /\ (IsMonth(us[j]) => us[j].v = <<>>)
  <2>1. i \in DOMAIN r /\ j \in DOMAIN r[i].words /\ us[j] = r[i].words[j]
    BY <1>3, <1>4
  <2>2. ~us[j].cr
    BY <2>1, RequestAssumption DEF Bare
  <2>3. IsMonth(us[j]) => us[j].v = <<>>
    BY <2>1, MonthsAreNoNumbers
  <2> QED BY <2>2, <2>3
<1>6. PICK S : S = {w \in Word : ~w.cr /\ (IsMonth(w) => w.v = <<>>)}
  OBVIOUS
<1>7. \A j \in 1 .. Len(us) : us[j] \in S
  BY <1>5, <1>6, ElementOfSeq
<1>8. us \in Seq(S)
  <2>1. us = [j \in 1 .. Len(us) |-> us[j]] /\ Len(us) \in Nat
    OBVIOUS
  <2>2. [j \in 1 .. Len(us) |-> us[j]] \in Seq(S)
    BY <1>7, <2>1
  <2> QED BY <2>1, <2>2
<1>9. ws \in Seq(WithText(S))
  BY <1>3, <1>8, NonEmptyType
<1>10. ASSUME NEW k \in 1 .. Len(ws)
       PROVE  ws[k] \in S
  BY <1>9, ElementOfSeq DEF WithText
<1> QED BY <1>6, <1>10

\* words that trim cannot tell apart: the same but for numbers and for a
\* carriage return in the last
Alike(a, b) ==
    /\ Len(a) = Len(b)
    /\ \A i \in 1 .. Len(a) : a[i].text = b[i].text /\ a[i].joined = b[i].joined
    /\ \A i \in 1 .. Len(a) - 1 : a[i].cr = b[i].cr

\* trim looks at the texts alone, and takes a carriage return off the last word.
LEMMA TrimTexts ==
  ASSUME NEW a \in Seq(Word), NEW b \in Seq(Word), Alike(a, b)
  PROVE  TextOf(Trim(a)) = TextOf(Trim(b))
<1>1. DOMAIN a = 1 .. Len(a) /\ DOMAIN b = 1 .. Len(a) /\ Len(a) \in Nat
  BY LenProperties DEF Alike
<1>1a. \A i \in 1 .. Len(a) : a[i].text = b[i].text /\ a[i].joined = b[i].joined
  BY DEF Alike
<1>1b. \A i \in 1 .. Len(a) - 1 : a[i].cr = b[i].cr
  BY DEF Alike
<1>2. PICK is : is = {i \in DOMAIN a : a[i].text # ""}
  OBVIOUS
<1>3. is = {i \in DOMAIN b : b[i].text # ""}
  BY <1>1, <1>1a, <1>2
<1>4. CASE is = {}
  <2>1. Trim(a) = <<>> /\ Trim(b) = <<>>
    BY <1>2, <1>3, <1>4 DEF Trim
  <2> QED BY <2>1
<1>5. CASE is # {}
  <2>1. PICK x : x = Trim(a)
    OBVIOUS
  <2>2. PICK y : y = Trim(b)
    OBVIOUS
  <2>3. /\ Min(is) \in 1 .. Len(a) /\ Max(is) \in 1 .. Len(a) /\ Min(is) <= Max(is)
        /\ Len(x) = Max(is) - Min(is) + 1 /\ x \in Seq(Word)
        /\ \A k \in 1 .. Max(is) - Min(is) + 1 :
              /\ x[k].text = a[Min(is) + k - 1].text
              /\ x[k].joined = a[Min(is) + k - 1].joined
              /\ x[k].cr = IF k = Max(is) - Min(is) + 1 THEN FALSE ELSE a[Min(is) + k - 1].cr
    BY <1>2, <1>5, <2>1, TrimmedStretch
  <2>4. /\ Len(y) = Max(is) - Min(is) + 1 /\ y \in Seq(Word)
        /\ \A k \in 1 .. Max(is) - Min(is) + 1 :
              /\ y[k].text = b[Min(is) + k - 1].text
              /\ y[k].joined = b[Min(is) + k - 1].joined
              /\ y[k].cr = IF k = Max(is) - Min(is) + 1 THEN FALSE ELSE b[Min(is) + k - 1].cr
    BY <1>3, <1>5, <2>2, TrimmedStretch
  <2>5. PICK lo \in 1 .. Len(a) : lo = Min(is)
    BY <2>3
  <2>6. PICK hi \in 1 .. Len(a) : hi = Max(is) /\ lo <= hi
    BY <2>3, <2>5
  <2>7. /\ \A k \in 1 .. hi - lo + 1 : lo + k - 1 \in 1 .. Len(a)
        /\ \A k \in 1 .. hi - lo + 1 : k # hi - lo + 1 => lo + k - 1 \in 1 .. Len(a) - 1
    BY <1>1, <2>6
  <2>8. \A k \in 1 .. hi - lo + 1 : /\ x[k].text = a[lo + k - 1].text
                                    /\ x[k].joined = a[lo + k - 1].joined
                                    /\ x[k].cr = IF k = hi - lo + 1 THEN FALSE ELSE a[lo + k - 1].cr
    BY <2>3, <2>5, <2>6
  <2>8a. \A k \in 1 .. hi - lo + 1 : /\ y[k].text = b[lo + k - 1].text
                                     /\ y[k].joined = b[lo + k - 1].joined
                                     /\ y[k].cr = IF k = hi - lo + 1 THEN FALSE ELSE b[lo + k - 1].cr
    BY <2>4, <2>5, <2>6
  <2>8b. ASSUME NEW k \in 1 .. hi - lo + 1
         PROVE  x[k].text = y[k].text /\ x[k].joined = y[k].joined /\ x[k].cr = y[k].cr
    <3>0. PICK i \in 1 .. Len(a) : i = lo + k - 1
      BY <2>7
    <3>1. x[k].text = y[k].text /\ x[k].joined = y[k].joined
      <4>1. x[k].text = a[i].text /\ x[k].joined = a[i].joined
        BY <2>8, <3>0
      <4>2. y[k].text = b[i].text /\ y[k].joined = b[i].joined
        BY <2>8a, <3>0
      <4> QED BY <1>1a, <4>1, <4>2
    <3>2. CASE k = hi - lo + 1
      BY <2>8, <2>8a, <3>1, <3>2
    <3>3. CASE k # hi - lo + 1
      <4>1. a[lo + k - 1].cr = b[lo + k - 1].cr
        BY <1>1b, <2>7, <3>3
      <4> QED BY <2>8, <2>8a, <3>1, <3>3, <4>1
    <3> QED BY <3>2, <3>3
  <2>9. DOMAIN x = 1 .. hi - lo + 1 /\ DOMAIN y = 1 .. hi - lo + 1
    BY <2>3, <2>4, <2>5, <2>6, LenProperties
  <2>10. TextOf(x) = TextOf(y)
    BY <2>8b, <2>9 DEF TextOf
  <2> QED BY <2>1, <2>2, <2>10
<1> QED BY <1>4, <1>5

\* Where no word has a text, trim leaves nothing, and only there.
LEMMA TrimNothing ==
  ASSUME NEW ws \in Seq(Word)
  PROVE  Trim(ws) = <<>> <=> \A i \in 1 .. Len(ws) : ws[i].text = ""
<1>1. DOMAIN ws = 1 .. Len(ws)
  BY LenProperties
<1>2. CASE {i \in DOMAIN ws : ws[i].text # ""} = {}
  BY <1>1, <1>2 DEF Trim
<1>3. CASE {i \in DOMAIN ws : ws[i].text # ""} # {}
  <2>1. PICK is : is = {i \in DOMAIN ws : ws[i].text # ""}
    OBVIOUS
  <2>2. /\ Min(is) \in 1 .. Len(ws) /\ Max(is) \in 1 .. Len(ws) /\ Min(is) <= Max(is)
        /\ Len(Trim(ws)) = Max(is) - Min(is) + 1
    BY <1>3, <2>1, TrimmedStretch
  <2>2a. PICK lo \in 1 .. Len(ws) : lo = Min(is)
    BY <2>2
  <2>2b. PICK hi \in 1 .. Len(ws) : hi = Max(is) /\ lo <= hi
    BY <2>2, <2>2a
  <2>3. Len(Trim(ws)) # 0
    BY <2>2, <2>2a, <2>2b
  <2>4. Trim(ws) # <<>>
    BY <2>3
  <2>5. PICK i \in DOMAIN ws : ws[i].text # ""
    BY <1>3
  <2>6. i \in 1 .. Len(ws)
    BY <1>1
  <2>7. ~ (\A j \in 1 .. Len(ws) : ws[j].text = "")
    BY <2>5, <2>6
  <2> QED BY <2>4, <2>7
<1> QED BY <1>2, <1>3

\* A list of sequences begins with its first ones, flattened too.
LEMMA FlattenPrefix ==
  ASSUME NEW S, NEW s \in Seq(Seq(S)), NEW n \in 0 .. Len(s)
  PROVE  \E x \in Seq(S) : FlattenSeq(s) = FlattenSeq(SubSeq(s, 1, n)) \o x
<1>1. Len(s) \in Nat /\ n \in Nat
  OBVIOUS
<1>2. PICK a \in Seq(S) : a = FlattenSeq(SubSeq(s, 1, n))
  <2>1. SubSeq(s, 1, n) \in Seq(Seq(S))
    OBVIOUS
  <2> QED BY <2>1, FlattenType
<1> DEFINE Begins(k) == \E x \in Seq(S) : FlattenSeq(SubSeq(s, 1, n + k)) = a \o x
           G == {k \in Nat : n + k <= Len(s) => Begins(k)}
<1>3. Begins(0)
  <2>1. PICK e \in Seq(S) : e = <<>>
    BY EmptySeq
  <2>2. a \o e = a
    BY <2>1, ConcatEmptySeq
  <2>3. n + 0 = n
    BY <1>1
  <2> QED BY <1>2, <2>2, <2>3
<1>4. ASSUME NEW k \in Nat, n + (k + 1) <= Len(s), Begins(k)
      PROVE  Begins(k + 1)
  <2>1. PICK m \in Nat : m = n + k
    BY <1>1
  <2>2. m + 1 = n + (k + 1) /\ m + 1 \in 1 .. Len(s)
    BY <1>1, <1>4, <2>1
  <2>2a. \A i \in 1 .. m : i \in 1 .. Len(s) /\ s[i] \in Seq(S)
    BY <2>2, ElementOfSeq
  <2>2b. SubSeq(s, 1, m) \in Seq(Seq(S))
    BY <2>2a, SubSeqProperties
  <2>3. PICK f \in Seq(Seq(S)) : f = SubSeq(s, 1, m)
    BY <2>2b
  <2>4. PICK y \in Seq(S) : y = s[m + 1]
    BY <2>2, ElementOfSeq
  <2>5. SubSeq(s, 1, m + 1) = Append(f, y)
    BY <2>2, <2>3, <2>4
  <2>6. FlattenSeq(SubSeq(s, 1, m + 1)) = FlattenSeq(f) \o y
    BY <2>5, FlattenLast
  <2>7. PICK x \in Seq(S) : FlattenSeq(f) = a \o x
    <3>1. \E x \in Seq(S) : FlattenSeq(SubSeq(s, 1, n + k)) = a \o x
      BY <1>4, Zenon
    <3> QED BY <2>1, <2>3, <3>1
  <2>8. (a \o x) \o y = a \o (x \o y)
    BY ConcatAssociative, SMTT(30)
  <2>9. x \o y \in Seq(S)
    BY ConcatType
  <2> QED BY <2>2, <2>6, <2>7, <2>8, <2>9
<1> HIDE DEF Begins
<1>5. \A k \in Nat : k \in G => k + 1 \in G
  BY <1>1, <1>4
<1>6. 0 \in G
  BY <1>3
<1>7. PICK k \in Nat : n + k = Len(s)
  <2>1. Len(s) - n \in Nat /\ n + (Len(s) - n) = Len(s)
    BY <1>1
  <2> QED BY <2>1
<1>8. k \in G
  <2> HIDE DEF G
  <2> QED BY <1>5, <1>6, SetInduction
<1>9. Begins(k)
  BY <1>1, <1>7, <1>8
<1>10. SubSeq(s, 1, n + k) = s
  BY <1>7, SubSeqFull
<1> QED BY <1>2, <1>9, <1>10 DEF Begins

-----------------------------------------------------------------------------
(* The body. *)

\* The first blank line, or the end.
LEMMA FirstBlankIs ==
  ASSUME NEW ls \in Seq(Line)
  PROVE  /\ FirstBlank(ls) \in 1 .. Len(ls) + 1
         /\ Blanks(ls) = {} => FirstBlank(ls) = Len(ls) + 1
         /\ Blanks(ls) # {} => FirstBlank(ls) = Min(Blanks(ls)) /\ FirstBlank(ls) \in Blanks(ls)
         /\ \A i \in 1 .. Len(ls) : IsBlank(ls[i]) => FirstBlank(ls) <= i
<1>1. DOMAIN ls = 1 .. Len(ls) /\ Len(ls) \in Nat
  BY LenProperties
<1>2. PICK bs \in SUBSET (1 .. Len(ls)) : bs = Blanks(ls)
  BY <1>1 DEF Blanks
<1>3. \A i \in 1 .. Len(ls) : IsBlank(ls[i]) => i \in bs
  BY <1>1, <1>2 DEF Blanks
<1>4. CASE bs = {}
  BY <1>1, <1>2, <1>3, <1>4 DEF FirstBlank
<1>5. CASE bs # {}
  <2>1. Min(bs) \in bs /\ \A i \in bs : Min(bs) <= i
    BY <1>1, <1>5, MinOf
  <2>2. PICK b \in bs : b = Min(bs)
    BY <2>1
  <2>3. FirstBlank(ls) = b
    BY <1>2, <1>5, <2>2 DEF FirstBlank
  <2> QED BY <1>1, <1>2, <1>3, <1>5, <2>1, <2>2, <2>3
<1> QED BY <1>4, <1>5

\* The texts of the lines from the first blank one on.
LEMMA BodyType ==
  ASSUME NEW ls \in Seq(Line), NEW b \in 1 .. Len(ls) + 1, b = FirstBlank(ls)
  PROVE  /\ Body(ls) \in Seq(Seq(Word))
         /\ Len(Body(ls)) = Len(ls) - b + 1
         /\ \A i \in 1 .. Len(ls) - b + 1 : Body(ls)[i] = Text(ls[b + i - 1])
<1>1. PICK n \in Nat : n = Len(ls) - b + 1
  OBVIOUS
<1>2. Body(ls) = [i \in 1 .. n |-> Text(ls[b + i - 1])]
  BY <1>1 DEF Body
<1>3. ASSUME NEW i \in 1 .. n
      PROVE  Text(ls[b + i - 1]) \in Seq(Word)
  <2>1. b + i - 1 \in 1 .. Len(ls)
    BY <1>1
  <2> QED BY <2>1, ElementOfSeq, TextShape
<1>4. PICK T : T = Seq(Word)
  OBVIOUS
<1>5. \A i \in 1 .. n : Text(ls[b + i - 1]) \in T
  BY <1>3, <1>4
<1>6. [i \in 1 .. n |-> Text(ls[b + i - 1])] \in Seq(T)
  BY <1>5
<1>7. Len(Body(ls)) = n
  BY <1>2
<1>8. \A i \in 1 .. n : Body(ls)[i] = Text(ls[b + i - 1])
  BY <1>2
<1> QED BY <1>1, <1>2, <1>4, <1>6, <1>7, <1>8

\* The post data are the body without the spaces around it.
LEMMA PostDataIs ==
  ASSUME NEW ls \in Seq(Line)
  PROVE  PostData(ls) = Trim(FlattenSeq(Body(ls))) /\ PostData(ls) \in Seq(Word)
<1>1. FlattenSeq(Body(ls)) \in Seq(Word)
  BY FirstBlankIs, BodyType, FlattenType
<1>2. PostData(ls) = Trim(FlattenSeq(Body(ls)))
  <2>1. CASE Blanks(ls) = {}
    <3>1. PICK b \in 1 .. Len(ls) + 1 : b = FirstBlank(ls) /\ b = Len(ls) + 1
      BY <2>1, FirstBlankIs
    <3>1a. PICK n \in Nat : n = Len(ls)
      OBVIOUS
    <3>1b. n - (n + 1) + 1 = 0
      OBVIOUS
    <3>1c. Len(Body(ls)) = n - (n + 1) + 1
      BY <3>1, <3>1a, BodyType
    <3>2. Len(Body(ls)) = 0 /\ Body(ls) \in Seq(Seq(Word))
      BY <3>1, <3>1b, <3>1c, BodyType
    <3>3. Body(ls) = <<>>
      BY <3>2, EmptySeq
    <3>4. FlattenSeq(Body(ls)) = <<>>
      BY <3>2, <3>3 DEF FlattenSeq
    <3>5. PICK e \in Seq(Word) : e = <<>>
      BY EmptySeq
    <3>6. Len(e) = 0 /\ \A i \in 1 .. Len(e) : e[i].text = ""
      BY <3>5
    <3>7. Trim(e) = <<>>
      BY <3>6, TrimNothing
    <3>8. PostData(ls) = <<>>
      BY <2>1 DEF PostData
    <3> QED BY <3>4, <3>5, <3>7, <3>8
  <2>2. CASE Blanks(ls) # {}
    BY <2>2, FirstBlankIs DEF PostData, Body
  <2> QED BY <2>1, <2>2
<1> QED BY <1>1, <1>2, TrimType

\* the beginnings of a word are words
Cuttable(w) == \A b \in Beginnings(w.text, w.v) : b \in Word

\* z has the text of what may be left of q
LeftOf(z, q) == \E x \in Word : x \in CutWord(q) /\ z.text = x.text /\ z.joined = x.joined

\* What is left of a word is left of it too where it stands in a line's text.
LEMMA CutStays ==
  ASSUME NEW w \in Word, NEW y \in Word, y \in CutWord(w), Cuttable(w),
         NEW q \in Word, q.text = w.text, q.v = w.v,
         NEW z \in Word, z.text = y.text, z.joined = q.joined
  PROVE  LeftOf(z, q)
<1>1. CASE y = w
  BY <1>1 DEF CutWord, LeftOf
<1>2. CASE y # w
  <2>1. PICK b \in Beginnings(w.text, w.v) : y = [b EXCEPT !.joined = w.joined]
    BY <1>2 DEF CutWord
  <2>2. w.joined \in BOOLEAN /\ q.joined \in BOOLEAN /\ b \in Word
    BY DEF Word, Cuttable
  <2>3. PICK x \in Word : x = [b EXCEPT !.joined = q.joined] /\ x.text = b.text /\ x.joined = q.joined
    <3>1. PICK j \in BOOLEAN : j = q.joined
      BY <2>2
    <3>2. PICK d \in Word : d = b
      BY <2>2
    <3>3. \E u \in Word : u = [d EXCEPT !.joined = j] /\ u.text = d.text /\ u.joined = j
      BY Joined
    <3> QED BY <3>1, <3>2, <3>3
  <2>4. y.text = b.text
    BY <2>1, <2>2, Joined
  <2>5. b \in Beginnings(q.text, q.v)
    OBVIOUS
  <2>6. x \in CutWord(q)
    BY <2>3, <2>5, Zenon DEF CutWord
  <2> QED BY <2>3, <2>4, <2>6 DEF LeftOf
<1> QED BY <1>1, <1>2

\* the texts of a line that is cut, and of the whole line
TextIsCut(a, t) ==
    /\ Len(a) <= Len(t)
    /\ \A j \in 1 .. Len(a) - 1 : a[j] = t[j]
    /\ a # <<>> => LeftOf(a[Len(a)], t[Len(a)])

\* The text of a cut line is a beginning of the line's, the last word cut.
LEMMA CutText ==
  ASSUME NEW r \in Requests, NEW i \in 1 .. Len(r), NEW l, l = r[i], NEW c \in CutLine(l)
  PROVE  TextIsCut(Text(c), Text(l))
<1>1. /\ l \in Line /\ l.words \in Seq(Word)
      /\ \A b \in Beginnings(l.type, <<>>) : b \in Word
      /\ \A j \in 1 .. Len(l.words) :
            \A b \in Beginnings(l.words[j].text, l.words[j].v) : b \in Word
  BY SentLine
<1>2. c \in Line
  BY <1>1, CutLineShape
<1>3. PICK a \in Seq(Word) : a = Text(c)
  BY <1>2, TextShape
<1>4. PICK t \in Seq(Word) : t = Text(l)
  BY <1>1, TextShape
<1>5. PICK p \in Seq(Word) : p = Parts(l)
  BY <1>1, PartsType
<1>6. PICK o \in {0, 1} : o = Before(l) /\ (HasType(l) <=> o = 1)
  BY DEF Before
<1>7. /\ Len(t) = o + Len(p)
      /\ o = 1 => t[1] = [TypeWord(l) EXCEPT !.joined = TRUE]
      /\ \A k \in 1 .. Len(p) : t[o + k] = [p[k] EXCEPT !.joined = (o + k = 1)]
  BY <1>1, <1>4, <1>5, <1>6, TextShape
<1>8. PICK ws \in Seq(Word) : ws = l.words
  BY <1>1
<1>9. /\ Len(ws) <= Len(p)
      /\ \A k \in 1 .. Len(ws) : p[k].text = ws[k].text /\ p[k].v = ws[k].v
      /\ \A k \in 1 .. Len(ws) - 1 : p[k] = ws[k]
  <2>1. Len(p) = IF l.cr /\ ws = <<>> THEN 1 ELSE Len(ws)
    BY <1>1, <1>5, <1>8, PartsType
  <2>2. ws = <<>> => Len(ws) = 0
    OBVIOUS
  <2>3. Len(ws) <= Len(p)
    BY <2>1, <2>2
  <2> QED BY <1>1, <1>5, <1>8, <2>3, PartsType
<1>10. CASE c = l
  <2>1. a = t
    BY <1>3, <1>4, <1>10
  <2>2. ASSUME a # <<>>
        PROVE  LeftOf(a[Len(a)], t[Len(a)])
    <3>1. Len(a) \in 1 .. Len(a)
      BY <2>2
    <3>2. PICK x \in Word : x = t[Len(a)]
      BY <2>1, <3>1, ElementOfSeq
    <3>3. x \in CutWord(x)
      BY DEF CutWord
    <3> QED BY <2>1, <3>2, <3>3 DEF LeftOf
  <2>3. Len(a) <= Len(t) /\ \A j \in 1 .. Len(a) - 1 : a[j] = t[j]
    BY <2>1
  <2> QED BY <1>3, <1>4, <2>2, <2>3 DEF TextIsCut
<1>11. CASE c # l /\ HasType(l) /\ c.type = ""
            /\ \E b \in Word : b \in CutWord(TypeWord(l)) /\ c.words = <<b>>
  <2>1. PICK b \in Word : b \in CutWord(TypeWord(l)) /\ c.words = <<b>>
    BY <1>11
  <2>2. c.cr = FALSE
    BY <1>11, CutLineShape
  <2>3. Parts(c) = <<b>> /\ Before(c) = 0
    BY <1>2, <1>11, <2>1, <2>2, PartsShape DEF Before, HasType
  <2>4. PICK u \in Seq(Word) : u = <<b>> /\ Len(u) = 1 /\ u[1] = b
    <3>1. <<b>> \in Seq(Word) /\ Len(<<b>>) = 1 /\ <<b>>[1] = b
      OBVIOUS
    <3> QED BY <3>1
  <2>5. Len(a) = 0 + 1 /\ a[0 + 1] = [b EXCEPT !.joined = (0 + 1 = 1)]
    <3>1. 1 \in 1 .. Len(u)
      BY <2>4
    <3>1a. /\ Len(a) = Before(c) + Len(Parts(c))
           /\ \A k \in 1 .. Len(Parts(c)) :
                  a[Before(c) + k] = [Parts(c)[k] EXCEPT !.joined = (Before(c) + k = 1)]
      BY <1>2, <1>3, TextShape
    <3>1b. Parts(c) = u
      BY <2>3, <2>4
    <3>2. Len(a) = 0 + Len(u) /\ \A k \in 1 .. Len(u) : a[0 + k] = [u[k] EXCEPT !.joined = (0 + k = 1)]
      BY <2>3, <3>1a, <3>1b, Zenon
    <3> QED BY <2>4, <3>1, <3>2
  <2>6. Len(a) = 1 /\ a[1] = [b EXCEPT !.joined = TRUE]
    <3>1. 0 + 1 = 1 /\ (0 + 1 = 1) = TRUE
      OBVIOUS
    <3> QED BY <2>5, <3>1
  <2>7. o = 1 /\ t[1] = [TypeWord(l) EXCEPT !.joined = TRUE]
    BY <1>6, <1>7, <1>11
  <2>8. PICK w \in Word : w = TypeWord(l) /\ w.text = l.type /\ w.v = <<>>
    BY <1>1, TypeIsWord
  <2>9. Cuttable(w)
    BY <1>1, <2>8 DEF Cuttable
  <2>9a. PICK j \in BOOLEAN : j = TRUE
    OBVIOUS
  <2>9b. t[1] = [w EXCEPT !.joined = j] /\ a[1] = [b EXCEPT !.joined = j]
    BY <2>6, <2>7, <2>8, <2>9a
  <2>10a. PICK q \in Word : q = t[1] /\ q.text = w.text /\ q.v = w.v /\ q.joined = j
    BY <2>9b, Joined
  <2>10b. PICK z \in Word : z = a[1] /\ z.text = b.text /\ z.joined = j
    BY <2>9b, Joined
  <2>10c. b \in CutWord(w)
    BY <2>1, <2>8
  <2>10d. LeftOf(z, q)
    <3>1. z.joined = q.joined
      BY <2>10a, <2>10b
    <3> QED BY <2>9, <2>10a, <2>10b, <2>10c, <3>1, CutStays
  <2>11. LeftOf(a[1], t[1])
    BY <2>10a, <2>10b, <2>10d
  <2>12. Len(a) <= Len(t) /\ \A k \in 1 .. Len(a) - 1 : a[k] = t[k]
    BY <1>7, <2>6, <2>7
  <2> QED BY <1>3, <1>4, <2>6, <2>11, <2>12 DEF TextIsCut
<1>12. CASE c # l /\ c.type = l.type /\ c.words \in CutWords(l.words) /\ (HasType(l) \/ c.words # <<>>)
  <2>1. c.cr = FALSE
    BY <1>12, CutLineShape
  <2>2. PICK us \in Seq(Word) : us = c.words
    BY <1>2 DEF Line
  <2>3. Parts(c) = us /\ Before(c) = o
    BY <1>2, <1>6, <1>12, <2>1, <2>2, PartsShape DEF Before, HasType
  <2>4. TypeWord(c) = TypeWord(l) /\ (HasType(c) <=> o = 1)
    BY <1>6, <1>12 DEF TypeWord, HasType
  <2>5. /\ Len(a) = o + Len(us)
        /\ o = 1 => a[1] = [TypeWord(l) EXCEPT !.joined = TRUE]
        /\ \A k \in 1 .. Len(us) : a[o + k] = [us[k] EXCEPT !.joined = (o + k = 1)]
    BY <1>2, <1>3, <2>3, <2>4, TextShape
  <2>6. CASE us = <<>>
    <3>1. o = 1 /\ Len(us) = 0
      BY <1>6, <1>12, <2>2, <2>6
    <3>2a. a[1] = t[1]
      BY <1>7, <2>5, <3>1
    <3>2b. Len(a) = 1 /\ Len(t) >= 1
      <4>1. PICK np \in Nat, nt \in Nat : np = Len(p) /\ nt = Len(t)
        OBVIOUS
      <4>2. nt = o + np
        BY <1>7, <4>1
      <4> QED BY <2>5, <3>1, <4>1, <4>2
    <3>2. Len(a) = 1 /\ a[1] = t[1] /\ Len(t) >= 1
      BY <3>2a, <3>2b
    <3>3. PICK x \in Word : x = a[1]
      <4>1. 1 \in 1 .. Len(a)
        BY <3>2
      <4> QED BY <4>1, ElementOfSeq
    <3>4. x \in CutWord(x)
      BY DEF CutWord
    <3>5. \A j \in 1 .. Len(a) - 1 : a[j] = t[j]
      BY <3>2
    <3>6. Len(a) <= Len(t)
      BY <3>2
    <3>7. LeftOf(a[Len(a)], t[Len(a)])
      BY <3>2, <3>3, <3>4 DEF LeftOf
    <3> QED BY <1>3, <1>4, <3>5, <3>6, <3>7 DEF TextIsCut
  <2>7. CASE us # <<>>
    <3>1. /\ Len(us) \in 1 .. Len(ws)
          /\ \A j \in 1 .. Len(us) - 1 : us[j] = ws[j]
          /\ us[Len(us)] \in CutWord(ws[Len(us)])
      BY <1>1, <1>8, <1>12, <2>2, <2>7, CutWordsShape
    <3>2. PICK n \in Nat : n = Len(us) /\ n > 0
      BY <3>1
    <3>3. n <= Len(ws) /\ n \in 1 .. Len(ws) /\ n \in 1 .. Len(p) /\ n \in 1 .. Len(us)
      BY <1>9, <3>1, <3>2
    <3>4. Len(a) = o + n /\ o + n <= Len(t)
      BY <1>7, <2>5, <3>2, <3>3
    <3>5. ASSUME NEW j \in 1 .. Len(a) - 1
          PROVE  a[j] = t[j]
      <4>1. CASE o = 1 /\ j = 1
        BY <1>7, <2>5, <4>1
      <4>2. CASE ~(o = 1 /\ j = 1)
        <5>1. PICK k \in 1 .. n - 1 : j = o + k
          <6>1. j - o \in 1 .. n - 1 /\ j = o + (j - o)
            BY <3>2, <3>4, <4>2
          <6> QED BY <6>1
        <5>2. k \in 1 .. Len(us) /\ k \in 1 .. Len(p) /\ k \in 1 .. Len(ws) - 1 /\ k \in 1 .. Len(us) - 1
          BY <3>2, <3>3, <5>1
        <5>3. us[k] = ws[k] /\ p[k] = ws[k]
          BY <1>9, <3>1, <5>2
        <5>4. a[o + k] = [us[k] EXCEPT !.joined = (o + k = 1)]
          BY <2>5, <5>2
        <5>5. t[o + k] = [p[k] EXCEPT !.joined = (o + k = 1)]
          BY <1>7, <5>2
        <5> QED BY <5>1, <5>3, <5>4, <5>5
      <4> QED BY <4>1, <4>2
    <3>6. PICK w \in Word : w = ws[n]
      BY <3>3, ElementOfSeq
    <3>7. PICK y \in Word : y = us[n] /\ y \in CutWord(w)
      BY <3>1, <3>2, <3>3, <3>6, ElementOfSeq
    <3>8. PICK q \in Word : q = p[n] /\ q.text = w.text /\ q.v = w.v
      BY <1>9, <3>3, <3>6, ElementOfSeq
    <3>9. PICK j \in BOOLEAN : j = (o + n = 1)
      OBVIOUS
    <3>10. a[o + n] = [y EXCEPT !.joined = j] /\ t[o + n] = [q EXCEPT !.joined = j]
      BY <1>7, <2>5, <3>3, <3>7, <3>8, <3>9
    <3>11. Cuttable(w)
      BY <1>1, <1>8, <3>3, <3>6 DEF Cuttable
    <3>11a. PICK qt \in Word : qt = t[o + n] /\ qt.text = w.text /\ qt.v = w.v /\ qt.joined = j
      BY <3>8, <3>10, Joined
    <3>11b. PICK za \in Word : za = a[o + n] /\ za.text = y.text /\ za.joined = j
      <4>1. PICK u \in Word : u = [y EXCEPT !.joined = j] /\ u.text = y.text /\ u.joined = j
        BY Joined
      <4> QED BY <3>10, <4>1
    <3>11d. za.joined = qt.joined
      BY <3>11a, <3>11b
    <3>11c. LeftOf(za, qt)
      BY <3>7, <3>11, <3>11a, <3>11b, <3>11d, CutStays
    <3>12. LeftOf(a[o + n], t[o + n])
      BY <3>11a, <3>11b, <3>11c
    <3> QED BY <1>3, <1>4, <3>4, <3>5, <3>12 DEF TextIsCut
  <2> QED BY <2>6, <2>7
<1> QED BY <1>10, <1>11, <1>12, CutLineShape

\* The post data of what one read gets are a beginning of the body that was
\* sent, its last word cut, without the spaces around it.
LEMMA CutPostData ==
  ASSUME NEW r \in Requests, NEW ls \in Reads(r), NEW all, all = FlattenSeq(Body(r))
  PROVE  \E v \in CutWords(all) : TextOf(PostData(ls)) = TextOf(Trim(v))
<1>1. ls \in Seq(Line) /\ r \in Seq(Line)
  BY RequestAssumption, GotLines
<1>2. PICK c \in 1 .. Len(r) + 1 : c = FirstBlank(r)
  BY <1>1, FirstBlankIs
<1>3. PICK Y \in Seq(Seq(Word)) : Y = Body(r)
  BY <1>1, <1>2, BodyType
<1>4. Len(Y) = Len(r) - c + 1 /\ \A i \in 1 .. Len(r) - c + 1 : Y[i] = Text(r[c + i - 1])
  BY <1>1, <1>2, <1>3, BodyType
<1>5. all \in Seq(Word) /\ all = FlattenSeq(Y)
  BY <1>3, FlattenType
<1>6. ASSUME PostData(ls) = <<>>
      PROVE  \E v \in CutWords(all) : TextOf(PostData(ls)) = TextOf(Trim(v))
  <2>1. PICK e \in Seq(Word) : e = <<>>
    BY EmptySeq
  <2>2. e \in CutWords(all)
    BY <2>1 DEF CutWords, Starts
  <2>3. Len(e) = 0 /\ \A i \in 1 .. Len(e) : e[i].text = ""
    BY <2>1
  <2>4. Trim(e) = <<>>
    BY <2>3, TrimNothing
  <2> QED BY <1>6, <2>2, <2>4
<1>7. CASE Blanks(ls) = {}
  BY <1>6, <1>7 DEF PostData
<1>8. CASE Blanks(ls) # {}
  <2>1. PICK b \in 1 .. Len(ls) + 1 : b = FirstBlank(ls) /\ b \in Blanks(ls)
    BY <1>1, <1>8, FirstBlankIs
  <2>2. b \in 1 .. Len(ls) /\ IsBlank(ls[b])
    BY <1>1, <2>1, LenProperties DEF Blanks
  <2>3. PICK m \in 1 .. Len(r) : /\ m = Len(ls) /\ \A j \in 1 .. m - 1 : ls[j] = r[j]
                                 /\ ls[m] \in CutLine(r[m])
    <3>1. ls # <<>>
      BY <2>2
    <3> QED BY <3>1, GotLines
  <2>4. PICK X \in Seq(Seq(Word)) : X = Body(ls)
    BY <1>1, <2>1, BodyType
  <2>5. Len(X) = m - b + 1 /\ \A i \in 1 .. m - b + 1 : X[i] = Text(ls[b + i - 1])
    BY <1>1, <2>1, <2>3, <2>4, BodyType
  <2>6. PostData(ls) = Trim(FlattenSeq(X))
    BY <1>1, <2>4, PostDataIs
  <2>6a. b \in 1 .. m
    BY <2>2, <2>3
  <2>7. PICK k \in Nat : k = m - b
    BY <2>6a
  <2>8. Len(X) = k + 1 /\ b + k = m
    BY <2>2, <2>5, <2>7
  <2>9. PICK x \in Seq(Word) : x = X[k + 1]
    BY <2>8, ElementOfSeq
  <2>10. PICK Z \in Seq(Seq(Word)) : X = Append(Z, x) /\ Len(Z) = k
    <3>1. X # <<>>
      BY <2>8
    <3>2. PICK f \in Seq(Seq(Word)) : X = Append(f, X[Len(X)])
      BY <3>1, FrontAndLast
    <3>3. X = Append(f, x)
      BY <2>8, <2>9, <3>2
    <3>4. Len(f) = k
      BY <2>8, <3>3
    <3> QED BY <3>3, <3>4
  <2>11. PICK z \in Seq(Word) : z = FlattenSeq(Z)
    BY FlattenType
  <2>12. FlattenSeq(X) = z \o x
    BY <2>10, <2>11, FlattenLast
  <2>13. x = Text(ls[m])
    <3>1. k + 1 \in 1 .. m - b + 1 /\ b + (k + 1) - 1 = m
      BY <2>2, <2>3, <2>7
    <3> QED BY <2>5, <2>9, <3>1
  <2>14. CASE b = m
    <3>1. k = 0
      BY <2>7, <2>14
    <3>2. z = <<>>
      BY <2>10, <2>11, <3>1 DEF FlattenSeq
    <3>3. z \o x = x
      BY <3>2, ConcatEmptySeq
    <3>4. PICK l \in Line : l = ls[m]
      BY <1>1, <2>2, <2>14, ElementOfSeq
    <3>5. ~HasType(l) /\ Trim(l.words) = <<>>
      BY <2>2, <2>14, <3>4 DEF IsBlank
    <3>6. PICK ws \in Seq(Word) : ws = l.words
      BY DEF Line
    <3>7. \A i \in 1 .. Len(ws) : ws[i].text = ""
      BY <3>5, <3>6, TrimNothing
    <3>8. PICK p \in Seq(Word) : p = Parts(l)
      BY PartsType
    <3>8a. \A i \in 1 .. Len(p) : p[i].text = ""
      <4>1. CASE l.cr /\ ws = <<>>
        <5>1. PICK q \in Word : q = CR /\ q.text = ""
          BY CrIsWord
        <5>2. p = <<q>>
          BY <3>6, <3>8, <4>1, <5>1, PartsShape
        <5>3. Len(p) = 1 /\ p[1] = q
          BY <5>2
        <5>4. \A i \in 1 .. Len(p) : i = 1
          BY <5>3
        <5> QED BY <5>1, <5>3, <5>4
      <4>2. CASE ~(l.cr /\ ws = <<>>)
        BY <3>6, <3>7, <3>8, <4>2, PartsType
      <4> QED BY <4>1, <4>2
    <3>9. \A i \in 1 .. Len(x) : x[i].text = ""
      <4>1. Before(l) = 0
        BY <3>5 DEF Before
      <4>1a. /\ Len(Text(l)) = Before(l) + Len(Parts(l))
             /\ \A i \in 1 .. Len(Parts(l)) :
                    Text(l)[Before(l) + i] = [Parts(l)[i] EXCEPT !.joined = (Before(l) + i = 1)]
        BY TextShape
      <4>1b. x = Text(l)
        BY <2>13, <3>4
      <4>2. Len(x) = 0 + Len(p) /\ \A i \in 1 .. Len(p) : x[0 + i] = [p[i] EXCEPT !.joined = (0 + i = 1)]
        BY <3>8, <4>1, <4>1a, <4>1b, Zenon
      <4>3. ASSUME NEW i \in 1 .. Len(x)
            PROVE  x[i].text = ""
        <5>1. i \in 1 .. Len(p) /\ 0 + i = i
          BY <4>2
        <5>2. PICK j \in BOOLEAN : j = (i = 1)
          OBVIOUS
        <5>3. PICK q \in Word : q = p[i] /\ q.text = ""
          BY <3>8a, <5>1, ElementOfSeq
        <5>4. x[i] = [q EXCEPT !.joined = j]
          BY <4>2, <5>1, <5>2, <5>3
        <5>5. [q EXCEPT !.joined = j].text = q.text
          BY DEF Word
        <5> QED BY <5>3, <5>4, <5>5
      <4> QED BY <4>3
    <3>10. Trim(x) = <<>>
      BY <3>9, TrimNothing
    <3> QED BY <1>6, <2>6, <2>12, <3>3, <3>10
  <2>15. CASE b # m
    <3>1. b \in 1 .. m - 1
      BY <2>2, <2>3, <2>15
    <3>2. c = b
      <4>1. IsBlank(r[b]) /\ b \in 1 .. Len(r)
        BY <2>2, <2>3, <3>1
      <4>2. c <= b
        BY <1>1, <1>2, <4>1, FirstBlankIs
      <4>3. Blanks(r) # {}
        BY <4>1, LenProperties DEF Blanks
      <4>4. c \in Blanks(r)
        BY <1>1, <1>2, <4>3, FirstBlankIs
      <4>5. IsBlank(r[c])
        BY <4>4 DEF Blanks
      <4>6. c \in 1 .. m - 1
        BY <2>3, <3>1, <4>2
      <4>7. IsBlank(ls[c]) /\ c \in 1 .. Len(ls)
        BY <2>3, <4>5, <4>6
      <4>8. b <= c
        BY <1>1, <2>1, <4>7, FirstBlankIs
      <4> QED BY <3>1, <4>2, <4>6, <4>8
    <3>3. k + 1 \in 1 .. Len(Y)
      BY <1>4, <2>3, <2>7, <3>1, <3>2
    <3>4. PICK y \in Seq(Word) : y = Y[k + 1]
      BY <3>3, ElementOfSeq
    <3>5. y = Text(r[m])
      <4>1. k + 1 \in 1 .. Len(r) - c + 1 /\ c + (k + 1) - 1 = m
        BY <1>4, <2>3, <2>7, <3>1, <3>2, <3>3
      <4> QED BY <1>4, <3>4, <4>1
    <3>6. \A i \in 1 .. k : Z[i] = Y[i]
      <4>1. ASSUME NEW i \in 1 .. k
            PROVE  Z[i] = Y[i]
        <5>1. Z[i] = X[i]
          BY <2>10, AppendProperties
        <5>2. i \in 1 .. m - b + 1 /\ i \in 1 .. Len(r) - c + 1 /\ b + i - 1 \in 1 .. m - 1
          BY <2>3, <2>7, <3>1, <3>2
        <5>3. X[i] = Text(ls[b + i - 1]) /\ Y[i] = Text(r[b + i - 1])
          BY <1>4, <2>5, <3>2, <5>2
        <5> QED BY <2>3, <5>1, <5>2, <5>3
      <4> QED BY <4>1
    <3>7. PICK V : V = SubSeq(Y, 1, k + 1)
      OBVIOUS
    <3>8. V \in Seq(Seq(Word)) /\ Len(V) = k + 1 /\ \A i \in 1 .. k + 1 : V[i] = Y[i]
      <4>1. k + 1 \in 0 .. Len(Y)
        BY <3>3
      <4>2. PICK T : T = Seq(Word)
        OBVIOUS
      <4>3. Y \in Seq(T)
        BY <4>2
      <4>4. V \in Seq(T) /\ Len(V) = k + 1 /\ \A i \in 1 .. k + 1 : V[i] = Y[i]
        BY <3>7, <4>1, <4>3, Beginning
      <4> QED BY <4>2, <4>4
    <3>9. V = Append(Z, y)
      <4>1. PICK T : T = Seq(Word)
        OBVIOUS
      <4>2. Z \in Seq(T) /\ V \in Seq(T) /\ y \in T
        BY <2>10, <3>8, <4>1
      <4>3. Len(Z) = k /\ k + 1 \in 1 .. k + 1 /\ \A i \in 1 .. k : i \in 1 .. k + 1
        BY <2>10
      <4>4. \A i \in 1 .. Len(Z) : V[i] = Z[i]
        BY <3>6, <3>8, <4>3
      <4>5. V[Len(Z) + 1] = y
        BY <3>4, <3>8, <4>3
      <4>6. Len(V) = Len(Z) + 1
        BY <3>8, <4>3
      <4> QED BY <4>2, <4>4, <4>5, <4>6, OneMore, Zenon
    <3>10. FlattenSeq(V) = z \o y
      BY <2>11, <3>9, FlattenLast
    <3>11. PICK w \in Seq(Word) : all = FlattenSeq(V) \o w
      <4>1. k + 1 \in 0 .. Len(Y)
        BY <3>3
      <4>2. \E w \in Seq(Word) : FlattenSeq(Y) = FlattenSeq(SubSeq(Y, 1, k + 1)) \o w
        BY <4>1, FlattenPrefix
      <4> QED BY <1>5, <3>7, <4>2
    <3>12. /\ Len(x) <= Len(y) /\ \A i \in 1 .. Len(x) - 1 : x[i] = y[i]
           /\ x # <<>> => LeftOf(x[Len(x)], y[Len(x)])
      <4>1. TextIsCut(x, y)
        BY <2>3, <2>13, <3>5, CutText
      <4> QED BY <4>1 DEF TextIsCut
    <3>13. PICK lz \in Nat, lx \in Nat, ly \in Nat, n \in Nat :
               lz = Len(z) /\ lx = Len(x) /\ ly = Len(y) /\ n = lz + lx /\ lx <= ly
      BY <3>12
    <3>14. PICK u \in Seq(Word) : u = z \o x
      BY ConcatType
    <3>15. Len(u) = n /\ \A i \in 1 .. n : u[i] = IF i <= lz THEN z[i] ELSE x[i - lz]
      BY <3>13, <3>14, ConcatProperties
    <3>16. PICK v \in Seq(Word) : v = z \o y
      BY ConcatType
    <3>17. Len(v) = lz + ly /\ \A i \in 1 .. lz + ly : v[i] = IF i <= lz THEN z[i] ELSE y[i - lz]
      BY <3>13, <3>16, ConcatProperties
    <3>18. all = v \o w
      BY <3>10, <3>11, <3>16
    <3>19. n <= Len(all) /\ n <= lz + ly /\ \A i \in 1 .. n : all[i] = v[i]
      <4>1. n <= lz + ly
        BY <3>13
      <4>2. Len(all) = Len(v) + Len(w)
        BY <3>18, ConcatProperties
      <4>3. \A i \in 1 .. n : all[i] = v[i]
        BY <3>17, <3>18, <4>1, ConcatProperties
      <4> QED BY <3>17, <4>1, <4>2, <4>3
    <3>20. \A i \in 1 .. n - 1 : u[i] = all[i]
      <4>1. ASSUME NEW i \in 1 .. n - 1
            PROVE  u[i] = v[i]
        <5>0. n = lz + lx /\ lx <= ly
          BY <3>13
        <5>1. i \in 1 .. n /\ i \in 1 .. lz + ly
          BY <5>0
        <5>2. CASE i <= lz
          BY <3>15, <3>17, <5>1, <5>2
        <5>3. CASE ~(i <= lz)
          <6>1. i - lz \in 1 .. lx - 1
            BY <5>0, <5>3
          <6> QED BY <3>12, <3>13, <3>15, <3>17, <5>1, <5>3, <6>1
        <5> QED BY <5>2, <5>3
      <4>2. \A i \in 1 .. n - 1 : i \in 1 .. n
        OBVIOUS
      <4> QED BY <3>19, <4>1, <4>2
    <3>21. n > 0 => LeftOf(u[n], all[n])
      <4>0. n = lz + lx /\ lx <= ly
        BY <3>13
      <4>1. CASE lx = 0 /\ n > 0
        <5>1. n = lz /\ n <= lz /\ n \in 1 .. n /\ n \in 1 .. lz + ly
          BY <4>0, <4>1
        <5>1a. u[n] = z[n]
          BY <3>15, <5>1
        <5>1b. all[n] = v[n]
          BY <3>19, <5>1
        <5>1c. v[n] = z[n]
          BY <3>17, <5>1
        <5>2. u[n] = z[n] /\ all[n] = z[n]
          BY <5>1a, <5>1b, <5>1c
        <5>3. z[n] \in Word
          BY <3>13, <5>1, ElementOfSeq
        <5>4. z[n] \in CutWord(z[n])
          BY DEF CutWord
        <5> QED BY <5>2, <5>3, <5>4 DEF LeftOf
      <4>2. CASE lx > 0
        <5>1. n \in 1 .. n /\ n \in 1 .. lz + ly /\ ~(n <= lz) /\ n - lz = lx
          BY <4>0, <4>2
        <5>1a. u[n] = x[lx]
          BY <3>15, <5>1
        <5>1b. all[n] = v[n]
          BY <3>19, <5>1
        <5>1c. v[n] = y[lx]
          BY <3>17, <5>1
        <5>2. u[n] = x[lx] /\ all[n] = y[lx]
          BY <5>1a, <5>1b, <5>1c
        <5>3. x # <<>>
          BY <3>13, <4>2
        <5> QED BY <3>12, <3>13, <5>2, <5>3
      <4> QED BY <3>13, <4>1, <4>2
    <3>22. PICK a \in Seq(Word) : Alike(u, a) /\ a \in CutWords(all)
      <4>1. CASE n = 0
        <5>1. Alike(u, u)
          BY DEF Alike
        <5>2. u = <<>>
          BY <3>15, <4>1, EmptySeq
        <5>3. u \in CutWords(all)
          BY <5>2 DEF CutWords, Starts
        <5> QED BY <5>1, <5>3
      <4>2. CASE n > 0
        <5>1. PICK d \in Word : d \in CutWord(all[n]) /\ u[n].text = d.text /\ u[n].joined = d.joined
          BY <3>21, <4>2 DEF LeftOf
        <5>2. n \in 1 .. Len(u)
          BY <3>15, <4>2
        <5>2a. PICK f : f = [u EXCEPT ![n] = d]
          OBVIOUS
        <5>2b. f \in Seq(Word) /\ Len(f) = Len(u)
          BY <5>2, <5>2a, ExceptSeq
        <5>3. PICK a \in Seq(Word) : a = [u EXCEPT ![n] = d] /\ Len(a) = Len(u)
          BY <5>2a, <5>2b
        <5>4. \A i \in 1 .. Len(u) : a[i] = IF i = n THEN d ELSE u[i]
          BY <5>2, <5>3, ExceptSeq
        <5>5. /\ Len(a) = n /\ a[n] = d
              /\ \A i \in 1 .. n - 1 : a[i] = u[i]
          BY <3>15, <5>2, <5>3, <5>4
        <5>6. \A i \in 1 .. n : u[i].text = a[i].text /\ u[i].joined = a[i].joined
          BY <3>15, <5>1, <5>4
        <5>7. Alike(u, a)
          BY <3>15, <5>5, <5>6 DEF Alike
        <5>8. a \in CutWords(all)
          BY <1>5, <3>19, <3>20, <5>1, <5>5, CutWordsHas
        <5> QED BY <5>7, <5>8
      <4> QED BY <4>1, <4>2
    <3>23. TextOf(Trim(u)) = TextOf(Trim(a))
      BY <3>22, TrimTexts
    <3> QED BY <2>6, <2>12, <3>14, <3>22, <3>23
  <2> QED BY <2>14, <2>15
<1> QED BY <1>7, <1>8

-----------------------------------------------------------------------------
(* The inductive invariant *)

\* nothing is wrong with the line, as the code sees it
Fine(l) ==
    /\ l.type = "Host" => Parts(l) # <<>> /\ ~PortFault(Parts(l))
    /\ l.type = "If-Modified-Since" => ParseDate(l).result = "date"

\* the line ends the process
Ends(l) ==
    \/ l.type = "Host" /\ Parts(l) = <<>>
    \/ l.type = "If-Modified-Since" /\ ParseDate(l).result \in {"throws", "undefined"}

\* the header lines that have been looked at
SeenIn(ls, n, type) == {i \in 2 .. n - 1 : ls[i].type = type}
Seen(type) == SeenIn(m_request_lines, line, type)
LastSeen(type) == m_request_lines[Max(Seen(type))]
Goes == outcome \in {"none", "done"}

GotInv == sent \in Requests /\ m_request_lines \in Reads(sent)

FirstLineInv ==
    /\ line = 1 => m_method = ""
    /\ m_method # "" => /\ line > 1
                        /\ Len(Parts(m_request_lines[1])) >= 3
                        /\ m_method = Parts(m_request_lines[1])[1].text
                        /\ m_path = Parts(m_request_lines[1])[2].text

\* m_error stands for the faults of all lines so far
FaultInv == Goes =>
    /\ m_error = 0 => \A i \in 2 .. line - 1 : Fine(m_request_lines[i])
    /\ m_error = 1 => \/ \E i \in 2 .. line - 1 : ~Fine(m_request_lines[i])
                      \/ outcome = "done" /\ (m_method = "" \/ m_path = "" \/ m_host = "")

EndInv == ~Goes => line - 1 \in 2 .. Len(m_request_lines) /\ Ends(m_request_lines[line - 1])

\* each value is that of the last line of its type
HostInv == Goes =>
    m_host = IF Seen("Host") = {} THEN "" ELSE Parts(LastSeen("Host"))[1].text
RefererInv ==
    m_referer = IF Seen("Referer") = {} THEN <<>> ELSE Trim(Parts(LastSeen("Referer")))
DateInv == Goes /\ m_error = 0 =>
    m_if_modified_since = IF Seen("If-Modified-Since") = {} THEN 0
                          ELSE ParseDate(LastSeen("If-Modified-Since")).date
\* the Cookie lines seen that set k; its value is that of the last of them
CookiesIn(ls, n, k) == {i \in SeenIn(ls, n, "Cookie") : Setting(ls[i], k) # {}}
GivenLast(l, k) == l.words[Max(Setting(l, k))].v
CookieOf(ls, is, k) == IF is = {} THEN NoCookie ELSE GivenLast(ls[Max(is)], k)
CookieInv == \A k \in CookieNames :
    m_cookies[k] = CookieOf(m_request_lines, CookiesIn(m_request_lines, line, k), k)

DoneInv == outcome = "done" =>
    /\ line = Len(m_request_lines) + 1
    /\ m_error = 0 => m_method # "" /\ m_path # "" /\ m_host # ""
    /\ m_method = "POST" => m_post_data = PostData(m_request_lines)

IInv ==
    /\ TypeOK /\ GotInv /\ FirstLineInv /\ FaultInv /\ EndInv
    /\ HostInv /\ RefererInv /\ DateInv /\ CookieInv /\ DoneInv

-----------------------------------------------------------------------------
(* What a step does. *)

\* What is added to the lines that have been looked at.
LEMMA NextSeen ==
  ASSUME NEW ls \in Seq(Line), NEW n \in 2 .. Len(ls), NEW t
  PROVE  /\ ls[n].type = t => SeenIn(ls, n + 1, t) # {} /\ Max(SeenIn(ls, n + 1, t)) = n
         /\ ls[n].type # t => SeenIn(ls, n + 1, t) = SeenIn(ls, n, t)
<1>1. 2 .. (n + 1) - 1 = (2 .. n - 1) \cup {n}
  OBVIOUS
<1>2. CASE ls[n].type = t
  <2>0. n \in Nat /\ (n + 1) - 1 = n /\ \A i \in 2 .. n : i \in 1 .. n
    OBVIOUS
  <2>1. PICK is \in SUBSET (1 .. n) : is = SeenIn(ls, n + 1, t)
    <3>1. SeenIn(ls, n + 1, t) \subseteq 2 .. n
      BY <2>0 DEF SeenIn
    <3> QED BY <2>0, <3>1
  <2>2. n \in is
    BY <1>1, <1>2, <2>1 DEF SeenIn
  <2>3. Max(is) \in is /\ \A i \in is : i <= Max(is)
    BY <2>0, <2>2, MaxOf
  <2>4. PICK m \in 1 .. n : m = Max(is)
    BY <2>3
  <2>5. n <= m
    BY <2>2, <2>3, <2>4
  <2>6. m = n
    BY <2>4, <2>5
  <2> QED BY <1>2, <2>1, <2>2, <2>4, <2>6
<1>3. CASE ls[n].type # t
  BY <1>1, <1>3 DEF SeenIn
<1> QED BY <1>2, <1>3

\* What is added to the lines that set a cookie.
LEMMA NextCookies ==
  ASSUME NEW ls \in Seq(Line), NEW n \in 2 .. Len(ls), NEW k
  PROVE  CookieOf(ls, CookiesIn(ls, n + 1, k), k) =
            IF ls[n].type = "Cookie" /\ Setting(ls[n], k) # {} THEN GivenLast(ls[n], k)
            ELSE CookieOf(ls, CookiesIn(ls, n, k), k)
<1>1. 2 .. (n + 1) - 1 = (2 .. n - 1) \cup {n}
  OBVIOUS
<1>2. CASE ls[n].type = "Cookie" /\ Setting(ls[n], k) # {}
  <2>0. n \in Nat /\ (n + 1) - 1 = n /\ \A i \in 2 .. n : i \in 1 .. n
    OBVIOUS
  <2>1. PICK is \in SUBSET (1 .. n) : is = CookiesIn(ls, n + 1, k)
    <3>1. CookiesIn(ls, n + 1, k) \subseteq 2 .. n
      BY <2>0 DEF CookiesIn, SeenIn
    <3> QED BY <2>0, <3>1
  <2>2. n \in is
    BY <1>1, <1>2, <2>1 DEF CookiesIn, SeenIn
  <2>3. Max(is) \in is /\ \A i \in is : i <= Max(is)
    BY <2>0, <2>2, MaxOf
  <2>4. PICK m \in 1 .. n : m = Max(is)
    BY <2>3
  <2>5. n <= m
    BY <2>2, <2>3, <2>4
  <2>6. m = n
    BY <2>4, <2>5
  <2> QED BY <1>2, <2>1, <2>2, <2>4, <2>6 DEF CookieOf
<1>3. CASE ~(ls[n].type = "Cookie" /\ Setting(ls[n], k) # {})
  <2>1. CookiesIn(ls, n + 1, k) = CookiesIn(ls, n, k)
    BY <1>1, <1>3 DEF CookiesIn, SeenIn
  <2> QED BY <1>3, <2>1
<1> QED BY <1>2, <1>3

\* The line that is looked at.
LineStep == ParseHost \/ ParseCookies \/ ParseReferer \/ ParseIfModifiedSince \/ SkipLine

\* It is a line from the second on, and the next one is looked at then.
LEMMA StepAdvances ==
  ASSUME TypeOK, LineStep
  PROVE  /\ outcome = "none" /\ line \in 2 .. Len(m_request_lines) /\ line' = line + 1
         /\ current \in Line
         /\ UNCHANGED <<sent, m_request_lines, m_method, m_path, m_post_data, m_identifier>>
<1>1. m_request_lines \in Seq(Line) /\ line \in 1 .. Len(m_request_lines) + 1
  BY DEF TypeOK
<1>2. outcome = "none" /\ line > 1 /\ line <= Len(m_request_lines) /\ line' = line + 1
  BY DEF LineStep, ParseHost, ParseCookies, ParseReferer, ParseIfModifiedSince, SkipLine, AtLine, Running
<1>3. line \in 2 .. Len(m_request_lines)
  BY <1>1, <1>2
<1>4. current \in Line
  BY <1>1, <1>3, ElementOfSeq DEF current
<1>5. UNCHANGED <<sent, m_request_lines, m_method, m_path, m_post_data, m_identifier>>
  BY DEF LineStep, ParseHost, ParseCookies, ParseReferer, ParseIfModifiedSince, SkipLine, fields
<1> QED BY <1>2, <1>3, <1>4, <1>5

\* It becomes the last line of its type, and no other type gets one.
LEMMA StepSees ==
  ASSUME TypeOK, LineStep, NEW t
  PROVE  /\ current.type = t => Seen(t)' # {} /\ LastSeen(t)' = current
         /\ current.type # t => Seen(t)' = Seen(t) /\ LastSeen(t)' = LastSeen(t)
<1>1. m_request_lines \in Seq(Line) /\ line \in 2 .. Len(m_request_lines)
  BY StepAdvances DEF TypeOK
<1>2. line' = line + 1 /\ m_request_lines' = m_request_lines
  BY StepAdvances
<1>3. Seen(t)' = SeenIn(m_request_lines, line + 1, t)
  BY <1>2 DEF Seen
<1>4. LastSeen(t)' = m_request_lines[Max(SeenIn(m_request_lines, line + 1, t))]
  BY <1>2, <1>3 DEF LastSeen
<1>5. CASE current.type = t
  BY <1>1, <1>3, <1>4, <1>5, NextSeen DEF current
<1>6. CASE current.type # t
  <2>1. SeenIn(m_request_lines, line + 1, t) = Seen(t)
    BY <1>1, <1>6, NextSeen DEF current, Seen
  <2> QED BY <1>3, <1>4, <1>6, <2>1 DEF LastSeen
<1> QED BY <1>5, <1>6

\* What a line does to the values.
LEMMA StepHost ==
  ASSUME TypeOK, LineStep
  PROVE  Goes' => m_host' = IF current.type = "Host" THEN Parts(current)[1].text ELSE m_host
<1>1. CASE ParseHost
  <2>1. PICK ws : ws = Parts(current)
    OBVIOUS
  <2>2. CASE ws = <<>>
    <3>1. outcome' = "undefined"
      BY <1>1, <2>1, <2>2 DEF ParseHost
    <3> QED BY <3>1 DEF Goes
  <2>3. CASE ws # <<>>
    <3>1. m_host' = ws[1].text
      BY <1>1, <2>1, <2>3 DEF ParseHost
    <3>2. current.type = "Host"
      BY <1>1 DEF ParseHost, AtLine
    <3> QED BY <2>1, <3>1, <3>2
  <2> QED BY <2>2, <2>3
<1>2. CASE ~ParseHost
  <2>1. m_host' = m_host
    BY <1>2 DEF LineStep, ParseCookies, ParseReferer, ParseIfModifiedSince, SkipLine
  <2>2. current.type # "Host"
    BY <1>2 DEF LineStep, ParseCookies, ParseReferer, ParseIfModifiedSince, SkipLine, AtLine, HeaderTypes
  <2> QED BY <2>1, <2>2
<1> QED BY <1>1, <1>2

\* The referer is that of the line, if it is of the type.
LEMMA StepReferer ==
  ASSUME TypeOK, LineStep
  PROVE  m_referer' = IF current.type = "Referer" THEN Trim(Parts(current)) ELSE m_referer
<1>1. CASE ParseReferer
  BY <1>1 DEF ParseReferer, AtLine
<1>2. CASE ~ParseReferer
  <2>1. m_referer' = m_referer
    BY <1>2 DEF LineStep, ParseCookies, ParseHost, ParseIfModifiedSince, SkipLine, fields
  <2>2. current.type # "Referer"
    BY <1>2 DEF LineStep, ParseCookies, ParseHost, ParseIfModifiedSince, SkipLine, AtLine, HeaderTypes
  <2> QED BY <2>1, <2>2
<1> QED BY <1>1, <1>2

\* A cookie is that of the line, if it is of the type and sets it.
LEMMA StepCookies ==
  ASSUME TypeOK, LineStep, NEW k \in CookieNames
  PROVE  m_cookies'[k] = IF current.type = "Cookie" /\ Setting(current, k) # {}
                         THEN GivenLast(current, k) ELSE m_cookies[k]
<1>1. CASE ParseCookies
  <2>1. current.type = "Cookie"
    BY <1>1 DEF ParseCookies, AtLine
  <2>2. m_cookies' = [c \in CookieNames |->
                         IF Setting(current, c) = {} THEN m_cookies[c] ELSE GivenLast(current, c)]
    BY <1>1 DEF ParseCookies, GivenLast
  <2> QED BY <2>1, <2>2
<1>2. CASE ~ParseCookies
  <2>1. m_cookies' = m_cookies
    BY <1>2 DEF LineStep, ParseHost, ParseReferer, ParseIfModifiedSince, SkipLine, fields
  <2>2. current.type # "Cookie"
    BY <1>2 DEF LineStep, ParseHost, ParseReferer, ParseIfModifiedSince, SkipLine, AtLine, HeaderTypes
  <2> QED BY <2>1, <2>2
<1> QED BY <1>1, <1>2

\* The date is that of the line, if it is of the type and there is no fault.
LEMMA StepDate ==
  ASSUME TypeOK, LineStep
  PROVE  Goes' /\ m_error' = 0 =>
            m_if_modified_since' = IF current.type = "If-Modified-Since" THEN ParseDate(current).date
                                   ELSE m_if_modified_since
<1>1. CASE ParseIfModifiedSince
  <2>1. PICK d : d = ParseDate(current)
    OBVIOUS
  <2>2. /\ m_if_modified_since' = IF d.date = -1 THEN m_if_modified_since ELSE d.date
        /\ m_error' = IF d.result = "error" THEN 1 ELSE m_error
        /\ outcome' = IF d.result \in {"throws", "undefined"} THEN d.result ELSE outcome
    BY <1>1, <2>1 DEF ParseIfModifiedSince
  <2>3. current.type = "If-Modified-Since" /\ current \in Line
    BY <1>1, StepAdvances DEF ParseIfModifiedSince, AtLine
  <2>4. d.result \in {"date", "error", "throws", "undefined"}
    BY <2>1, <2>3, DateResultType
  <2>5. ASSUME Goes', m_error' = 0
        PROVE  m_if_modified_since' = d.date
    <3>1. d.result # "error"
      BY <2>2, <2>5
    <3>2. d.result \notin {"throws", "undefined"}
      BY <2>2, <2>5 DEF Goes
    <3>3. d.result = "date"
      BY <2>4, <3>1, <3>2
    <3>4. d.date # -1
      BY <2>1, <2>3, <3>3, DateResult
    <3> QED BY <2>2, <3>4
  <2> QED BY <2>1, <2>3, <2>5
<1>2. CASE ~ParseIfModifiedSince
  <2>1. m_if_modified_since' = m_if_modified_since
    BY <1>2 DEF LineStep, ParseCookies, ParseHost, ParseReferer, SkipLine, fields
  <2>2. current.type # "If-Modified-Since"
    BY <1>2 DEF LineStep, ParseCookies, ParseHost, ParseReferer, SkipLine, AtLine, HeaderTypes
  <2> QED BY <2>1, <2>2
<1> QED BY <1>1, <1>2

\* What a line does to m_error and to the process.
LEMMA StepFaults ==
  ASSUME TypeOK, LineStep
  PROVE  /\ outcome' # "done"
         /\ ~Goes' => Ends(current)
         /\ Goes' /\ m_error' = 0 => m_error = 0 /\ Fine(current)
         /\ Goes' /\ m_error' = 1 => m_error = 1 \/ ~Fine(current)
<1>0. outcome = "none" /\ current \in Line /\ m_error \in {0, 1}
  BY StepAdvances DEF TypeOK
<1>1. CASE ParseHost
  <2>1. PICK ws : ws = Parts(current)
    OBVIOUS
  <2>2. current.type = "Host"
    BY <1>1 DEF ParseHost, AtLine
  <2>3. CASE ws = <<>>
    <3>1. outcome' = "undefined"
      BY <1>1, <2>1, <2>3 DEF ParseHost
    <3>2. Ends(current)
      BY <2>1, <2>2, <2>3 DEF Ends
    <3> QED BY <3>1, <3>2 DEF Goes
  <2>4. CASE ws # <<>>
    <3>1. outcome' = outcome /\ m_error' = IF PortFault(ws) THEN 1 ELSE m_error
      BY <1>1, <2>1, <2>4 DEF ParseHost
    <3>2. Fine(current) <=> ~PortFault(ws)
      BY <2>1, <2>2, <2>4 DEF Fine
    <3> QED BY <1>0, <3>1, <3>2 DEF Goes
  <2> QED BY <2>3, <2>4
<1>2. CASE ParseIfModifiedSince
  <2>1. PICK d : d = ParseDate(current)
    OBVIOUS
  <2>2. /\ m_error' = IF d.result = "error" THEN 1 ELSE m_error
        /\ outcome' = IF d.result \in {"throws", "undefined"} THEN d.result ELSE outcome
    BY <1>2, <2>1 DEF ParseIfModifiedSince
  <2>3. current.type = "If-Modified-Since"
    BY <1>2 DEF ParseIfModifiedSince, AtLine
  <2>4. d.result \in {"date", "error", "throws", "undefined"}
    BY <1>0, <2>1, <2>3, DateResultType
  <2>5. Fine(current) <=> d.result = "date"
    BY <2>1, <2>3 DEF Fine
  <2>6. Ends(current) <=> d.result \in {"throws", "undefined"}
    BY <2>1, <2>3 DEF Ends
  <2> QED BY <1>0, <2>2, <2>4, <2>5, <2>6 DEF Goes
<1>3. CASE ParseCookies \/ ParseReferer \/ SkipLine
  <2>1. outcome' = outcome /\ m_error' = m_error
    BY <1>3 DEF ParseCookies, ParseReferer, SkipLine
  <2>2. current.type \notin {"Host", "If-Modified-Since"}
    BY <1>3 DEF ParseCookies, ParseReferer, SkipLine, AtLine, HeaderTypes
  <2>3. Fine(current)
    BY <2>2 DEF Fine
  <2> QED BY <1>0, <2>1, <2>3 DEF Goes
<1> QED BY <1>1, <1>2, <1>3 DEF LineStep

-----------------------------------------------------------------------------
(* Types. *)

\* The types are kept: the words and numbers stored are those of the lines.
LEMMA ParseHeaderTyped ==
  ASSUME TypeOK, ParseHeader
  PROVE  TypeOK'
<1>1. current \in Line
  <2>1. m_request_lines \in Seq(Line) /\ m_request_lines # <<>> /\ line = 1
    BY DEF TypeOK, ParseHeader
  <2>2. 1 \in 1 .. Len(m_request_lines)
    BY <2>1
  <2> QED BY <2>1, <2>2, ElementOfSeq DEF current
<1>2. PICK ws \in Seq(Word) : ws = Parts(current)
  BY <1>1, PartsType
<1>3. m_method' \in {"", "GET", "POST"} /\ m_path' \in Texts
  <2>1. CASE Len(ws) < 3
    <3>1. m_method' = m_method /\ m_path' = m_path
      BY <1>2, <2>1 DEF ParseHeader
    <3> QED BY <3>1 DEF TypeOK
  <2>2. CASE ~(Len(ws) < 3)
    <3>1. /\ m_method' = IF ws[1].text \in {"GET", "POST"} THEN ws[1].text ELSE m_method
          /\ m_path' = ws[2].text
      BY <1>2, <2>2 DEF ParseHeader
    <3>2. 2 \in 1 .. Len(ws)
      BY <2>2
    <3>3. ws[2] \in Word
      BY <3>2, ElementOfSeq
    <3>4. m_path' \in Texts
      BY <3>1, <3>3 DEF Word
    <3>5. m_method' \in {"", "GET", "POST"}
      BY <3>1 DEF TypeOK
    <3> QED BY <3>4, <3>5
  <2> QED BY <2>1, <2>2
<1>4. line' \in 1 .. Len(m_request_lines') + 1
  <2>1. m_request_lines \in Seq(Line) /\ m_request_lines # <<>> /\ line' = 2
        /\ m_request_lines' = m_request_lines
    BY DEF TypeOK, ParseHeader
  <2>2. Len(m_request_lines) \in Nat \ {0}
    BY <2>1, EmptySeq
  <2> QED BY <2>1, <2>2
<1>5. UNCHANGED <<sent, m_request_lines, outcome, m_error, m_host, m_if_modified_since,
                  m_port, m_cookies, m_referer, m_post_data, m_identifier>>
  BY DEF ParseHeader
<1> QED BY <1>3, <1>4, <1>5 DEF TypeOK

\* Host and port of a Host line are a text and a number.
LEMMA ParseHostTyped ==
  ASSUME TypeOK, ParseHost
  PROVE  m_host' \in Texts /\ m_port' \in Int /\ m_error' \in {0, 1} /\ outcome' \in {"none", "undefined"}
<1>1. current \in Line /\ outcome = "none"
  BY StepAdvances DEF LineStep
<1>2. PICK ws \in Seq(Word) : ws = Parts(current)
  BY <1>1, PartsType
<1>3. CASE ws = <<>>
  <2>1. outcome' = "undefined" /\ m_error' = 1 /\ UNCHANGED <<m_host, m_port>>
    BY <1>2, <1>3 DEF ParseHost
  <2> QED BY <2>1 DEF TypeOK
<1>4. CASE ws # <<>>
  <2>1. /\ m_host' = ws[1].text
        /\ m_error' = IF PortFault(ws) THEN 1 ELSE m_error
        /\ m_port' = IF Len(ws) > 1 /\ ~PortFault(ws) THEN ws[2].v[1] ELSE m_port
        /\ outcome' = outcome
    BY <1>2, <1>4 DEF ParseHost
  <2>2. ws[1] \in Word
    <3>1. 1 \in 1 .. Len(ws)
      BY <1>4
    <3> QED BY <3>1, ElementOfSeq
  <2>3. m_host' \in Texts
    BY <2>1, <2>2 DEF Word
  <2>4. m_port' \in Int
    <3>1. CASE Len(ws) > 1 /\ ~PortFault(ws)
      <4>1. 2 \in 1 .. Len(ws)
        BY <3>1
      <4>0. ws[2] \in Word
        BY <4>1, ElementOfSeq
      <4>2. PICK v \in Seq(Int) : v = ws[2].v
        BY <4>0 DEF Word
      <4>3. v # <<>>
        BY <3>1, <4>2 DEF PortFault
      <4>4. v[1] \in Int
        BY <4>3
      <4> QED BY <2>1, <3>1, <4>2, <4>4
    <3>2. CASE ~(Len(ws) > 1 /\ ~PortFault(ws))
      BY <2>1, <3>2 DEF TypeOK
    <3> QED BY <3>1, <3>2
  <2>5. m_error' \in {0, 1}
    BY <2>1 DEF TypeOK
  <2> QED BY <1>1, <2>1, <2>3, <2>4, <2>5
<1> QED BY <1>3, <1>4

\* The values of cookies are numbers.
LEMMA ParseCookiesTyped ==
  ASSUME TypeOK, ParseCookies
  PROVE  m_cookies' \in [CookieNames -> Seq(Int)]
<1>1. current \in Line
  BY StepAdvances DEF LineStep
<1>2. PICK ws \in Seq(Word) : ws = current.words
  BY <1>1 DEF Line
<1> DEFINE is(k) == Setting(current, k)
<1>3. ASSUME NEW k \in CookieNames
      PROVE  (IF is(k) = {} THEN m_cookies[k] ELSE ws[Max(is(k))].v) \in Seq(Int)
  <2>1. CASE is(k) = {}
    BY <2>1 DEF TypeOK
  <2>2. CASE is(k) # {}
    <3>1. PICK js \in SUBSET (1 .. Len(ws)) : js = is(k)
      BY <1>2, LenProperties DEF Setting
    <3>2. Len(ws) \in Nat
      OBVIOUS
    <3>3. Max(js) \in js
      BY <2>2, <3>1, <3>2, MaxOf
    <3>4. PICK m \in 1 .. Len(ws) : m = Max(js)
      BY <3>3
    <3>5. ws[m] \in Word
      BY ElementOfSeq
    <3>6. ws[m].v \in Seq(Int)
      BY <3>5 DEF Word
    <3> HIDE DEF is
    <3> QED BY <2>2, <3>1, <3>4, <3>6
  <2> QED BY <2>1, <2>2
<1>4. m_cookies' = [k \in CookieNames |-> IF is(k) = {} THEN m_cookies[k] ELSE ws[Max(is(k))].v]
  BY <1>2 DEF ParseCookies
<1> HIDE DEF is
<1>5. PICK T : T = Seq(Int)
  OBVIOUS
<1>6. \A k \in CookieNames : (IF is(k) = {} THEN m_cookies[k] ELSE ws[Max(is(k))].v) \in T
  BY <1>3, <1>5
<1>7. m_cookies' \in [CookieNames -> T]
  BY <1>4, <1>6
<1> QED BY <1>5, <1>7

\* Any line keeps the types.
LEMMA LineStepTyped ==
  ASSUME TypeOK, LineStep
  PROVE  TypeOK'
<1>1. /\ outcome = "none" /\ line \in 2 .. Len(m_request_lines) /\ line' = line + 1 /\ current \in Line
      /\ UNCHANGED <<sent, m_request_lines, m_method, m_path, m_post_data, m_identifier>>
  BY StepAdvances
<1>2. /\ sent' \in Seq(Line) /\ m_request_lines' \in Seq(Line)
      /\ m_method' \in {"", "GET", "POST"} /\ m_path' \in Texts
      /\ m_post_data' \in Seq(Word) /\ m_identifier' \in {"", "sha256"}
  BY <1>1 DEF TypeOK
<1>3. line' \in 1 .. Len(m_request_lines') + 1
  <2>0. m_request_lines \in Seq(Line)
    BY DEF TypeOK
  <2>1. PICK n \in Nat : n = Len(m_request_lines)
    BY <2>0
  <2>2. line \in 2 .. n /\ line' = line + 1
    BY <1>1, <2>1
  <2>3. line' \in 1 .. n + 1
    BY <2>2
  <2> QED BY <1>1, <2>1, <2>3
<1>4. m_host' \in Texts /\ m_port' \in Int
  <2>1. CASE ParseHost
    BY <2>1, ParseHostTyped
  <2>2. CASE ~ParseHost
    <3>1. UNCHANGED <<m_host, m_port>>
      BY <2>2 DEF LineStep, ParseCookies, ParseReferer, ParseIfModifiedSince, SkipLine, fields
    <3> QED BY <3>1 DEF TypeOK
  <2> QED BY <2>1, <2>2
<1>5. m_cookies' \in [CookieNames -> Seq(Int)]
  <2>1. CASE ParseCookies
    BY <2>1, ParseCookiesTyped
  <2>2. CASE ~ParseCookies
    <3>1. UNCHANGED m_cookies
      BY <2>2 DEF LineStep, ParseHost, ParseReferer, ParseIfModifiedSince, SkipLine, fields
    <3> QED BY <3>1 DEF TypeOK
  <2> QED BY <2>1, <2>2
<1>6. m_referer' \in Seq(Word)
  <2>1. Trim(Parts(current)) \in Seq(Word)
    BY <1>1, PartsType, TrimType
  <2> QED BY <2>1, StepReferer DEF TypeOK
<1>7. /\ m_if_modified_since' \in Int /\ m_error' \in {0, 1}
      /\ outcome' \in {"none", "done", "throws", "undefined"}
  <2>1. CASE ParseHost
    <3>1. m_if_modified_since' = m_if_modified_since
      BY <2>1 DEF ParseHost
    <3> QED BY <2>1, <3>1, ParseHostTyped DEF TypeOK
  <2>2. CASE ParseIfModifiedSince
    <3>1. PICK d : d = ParseDate(current)
      OBVIOUS
    <3>2. /\ m_if_modified_since' = IF d.date = -1 THEN m_if_modified_since ELSE d.date
          /\ m_error' = IF d.result = "error" THEN 1 ELSE m_error
          /\ outcome' = IF d.result \in {"throws", "undefined"} THEN d.result ELSE outcome
      BY <2>2, <3>1 DEF ParseIfModifiedSince
    <3>3. d.date \in Int
      BY <1>1, <3>1, DateResult
    <3>4. m_if_modified_since' \in Int
      BY <3>2, <3>3 DEF TypeOK
    <3>5. m_error' \in {0, 1}
      BY <3>2 DEF TypeOK
    <3>6. outcome' \in {"none", "done", "throws", "undefined"}
      BY <1>1, <3>2
    <3> QED BY <3>4, <3>5, <3>6
  <2>3. CASE ParseCookies \/ ParseReferer \/ SkipLine
    <3>1. UNCHANGED <<m_if_modified_since, m_error, outcome>>
      BY <2>3 DEF ParseCookies, ParseReferer, SkipLine
    <3> QED BY <3>1 DEF TypeOK
  <2> QED BY <2>1, <2>2, <2>3 DEF LineStep
<1> QED BY <1>2, <1>3, <1>4, <1>5, <1>6, <1>7 DEF TypeOK

\* So does the end of the constructor.
LEMMA EndTyped ==
  ASSUME TypeOK, NoLines \/ Finish
  PROVE  TypeOK'
<1>1. UNCHANGED <<sent, m_request_lines, line, m_host, m_if_modified_since, m_method,
                  m_path, m_port, m_cookies, m_referer>> /\ outcome' = "done"
  BY DEF NoLines, Finish, fields
<1>2. m_post_data' \in Seq(Word) /\ m_error' \in {0, 1} /\ m_identifier' \in {"", "sha256"}
  <2>1. CASE NoLines
    BY <2>1 DEF NoLines, fields, TypeOK
  <2>2. CASE Finish
    <3>1. PostData(m_request_lines) \in Seq(Word)
      BY PostDataIs DEF TypeOK
    <3>2. m_post_data' \in Seq(Word)
      BY <2>2, <3>1 DEF Finish, TypeOK
    <3>3. m_error' \in {0, 1} /\ m_identifier' \in {"", "sha256"}
      BY <2>2 DEF Finish, TypeOK
    <3> QED BY <3>2, <3>3
  <2> QED BY <2>1, <2>2
<1>3. sent' \in Seq(Line) /\ m_request_lines' \in Seq(Line) /\ line' \in 1 .. Len(m_request_lines') + 1
  BY <1>1 DEF TypeOK
<1>4. /\ m_method' \in {"", "GET", "POST"} /\ m_path' \in Texts /\ m_host' \in Texts
      /\ m_port' \in Int /\ m_cookies' \in [CookieNames -> Seq(Int)]
      /\ m_referer' \in Seq(Word) /\ m_if_modified_since' \in Int
  BY <1>1 DEF TypeOK
<1> QED BY <1>1, <1>2, <1>3, <1>4 DEF TypeOK

\* The steps: the request line, another line, and the end.
LEMMA NextCases ==
  Next => ParseHeader \/ LineStep \/ NoLines \/ Finish
BY DEF Next, LineStep

\* Every field has its type at the start.
LEMMA InitTyped ==
  ASSUME Init
  PROVE  TypeOK /\ GotInv
<1>1. GotInv
  BY DEF Init, GotInv
<1>2. sent \in Seq(Line) /\ m_request_lines \in Seq(Line)
  BY <1>1, RequestAssumption, GotLines DEF GotInv
<1>3. line \in 1 .. Len(m_request_lines) + 1
  <2>1. PICK n \in Nat : n = Len(m_request_lines)
    BY <1>2
  <2>2. line = 1
    BY DEF Init
  <2> QED BY <2>1, <2>2
<1>4. m_path \in Texts /\ m_host \in Texts
  BY RequestAssumption DEF Init
<1>5. m_cookies \in [CookieNames -> Seq(Int)]
  <2>1. PICK T : T = Seq(Int)
    OBVIOUS
  <2>1a. NoCookie \in Seq(Int)
    BY DEF NoCookie
  <2>2. PICK e \in T : e = NoCookie
    BY <2>1, <2>1a
  <2>3. m_cookies = [k \in CookieNames |-> e]
    BY <2>2 DEF Init
  <2>4. m_cookies \in [CookieNames -> T]
    BY <2>3
  <2> QED BY <2>1, <2>4
<1>6. m_referer \in Seq(Word) /\ m_post_data \in Seq(Word)
  <2>1. m_referer = <<>> /\ m_post_data = <<>>
    BY DEF Init
  <2> QED BY <2>1, EmptySeq
<1>7. /\ outcome \in {"none", "done", "throws", "undefined"} /\ m_error \in {0, 1}
      /\ m_method \in {"", "GET", "POST"} /\ m_identifier \in {"", "sha256"}
  BY DEF Init
<1>8. m_port \in Int /\ m_if_modified_since \in Int
  <2>1. m_port = 80 /\ m_if_modified_since = 0
    BY DEF Init
  <2> QED BY <2>1
<1> QED BY <1>1, <1>2, <1>3, <1>4, <1>5, <1>6, <1>7, <1>8 DEF TypeOK

-----------------------------------------------------------------------------
(* The invariant is inductive. *)

\* What is sent and what is got of it stay as they are.
LEMMA GotStays ==
  ASSUME IInv, [Next]_vars
  PROVE  GotInv' /\ sent' = sent /\ m_request_lines' = m_request_lines
<1>1. GotInv
  BY DEF IInv
<1>2. UNCHANGED <<sent, m_request_lines>>
  BY DEF Next, ParseHeader, ParseHost, ParseCookies, ParseReferer, ParseIfModifiedSince, SkipLine,
         NoLines, Finish, fields, vars
<1> QED BY <1>1, <1>2 DEF GotInv

\* The invariant is kept by the request line: no other line has been looked at.
LEMMA ParseHeaderKeeps ==
  ASSUME IInv, ParseHeader
  PROVE  IInv'
<1>1. TypeOK' /\ GotInv'
  BY ParseHeaderTyped, GotStays DEF IInv, Next
<1>2. /\ line = 1 /\ line' = 2 /\ outcome = "none" /\ outcome' = "none" /\ m_request_lines # <<>>
      /\ UNCHANGED <<sent, m_request_lines, m_error, m_host, m_if_modified_since, m_port, m_cookies,
                     m_referer, m_post_data, m_identifier>>
  BY DEF ParseHeader, Running
<1>3. \A t : Seen(t) = {} /\ Seen(t)' = {}
  <2>1. 2 .. 1 - 1 = {} /\ 2 .. 2 - 1 = {}
    OBVIOUS
  <2> QED BY <1>2, <2>1 DEF Seen, SeenIn
<1>4. FirstLineInv'
  <2>1. current = m_request_lines[1]
    BY <1>2 DEF current
  <2>2. m_method = ""
    BY <1>2 DEF IInv, FirstLineInv
  <2>3. PICK ws : ws = Parts(m_request_lines[1])
    OBVIOUS
  <2>4. CASE Len(ws) < 3
    <3>1. m_method' = m_method
      BY <2>1, <2>3, <2>4 DEF ParseHeader
    <3> QED BY <1>2, <2>2, <3>1 DEF FirstLineInv
  <2>5. CASE ~(Len(ws) < 3)
    <3>1. /\ m_method' = IF ws[1].text \in {"GET", "POST"} THEN ws[1].text ELSE m_method
          /\ m_path' = ws[2].text
      BY <2>1, <2>3, <2>5 DEF ParseHeader
    <3>2. m_method' # "" => m_method' = ws[1].text
      BY <2>2, <3>1
    <3>3. Len(ws) >= 3
      <4>0. m_request_lines \in Seq(Line)
        BY DEF IInv, TypeOK
      <4>1. 1 \in 1 .. Len(m_request_lines) /\ m_request_lines \in Seq(Line)
        BY <1>2, <4>0
      <4>2. m_request_lines[1] \in Line
        BY <4>1, ElementOfSeq
      <4>3. ws \in Seq(Word)
        BY <2>3, <4>2, PartsType
      <4> QED BY <2>5, <4>3
    <3>4. m_request_lines' = m_request_lines /\ line' = 2
      BY <1>2
    <3>5. line' # 1 /\ line' > 1
      BY <3>4
    <3>6. m_method' # "" => /\ Len(Parts(m_request_lines'[1])) >= 3
                            /\ m_method' = Parts(m_request_lines'[1])[1].text
                            /\ m_path' = Parts(m_request_lines'[1])[2].text
      BY <2>3, <3>1, <3>2, <3>3, <3>4, Zenon
    <3> QED BY <3>5, <3>6 DEF FirstLineInv
  <2> QED BY <2>4, <2>5
<1>5. FaultInv'
  <2>1. 2 .. 1 - 1 = {} /\ 2 .. 2 - 1 = {}
    OBVIOUS
  <2>2. m_error # 1
    BY <1>2, <2>1 DEF IInv, FaultInv, Goes
  <2> QED BY <1>2, <2>1, <2>2 DEF FaultInv
<1>6. EndInv' /\ DoneInv'
  BY <1>2 DEF EndInv, DoneInv, Goes
<1>7. HostInv'
  BY <1>2, <1>3 DEF IInv, HostInv, Goes
<1>8. RefererInv'
  BY <1>2, <1>3 DEF IInv, RefererInv
<1>9. DateInv'
  BY <1>2, <1>3 DEF IInv, DateInv, Goes
<1>10. CookieInv'
  <2>1. 2 .. 1 - 1 = {} /\ 2 .. 2 - 1 = {}
    OBVIOUS
  <2>2. \A ls, k : CookiesIn(ls, 1, k) = {} /\ CookiesIn(ls, 2, k) = {}
    BY <2>1 DEF CookiesIn, SeenIn
  <2>3. \A k \in CookieNames : m_cookies[k] = CookieOf(m_request_lines, {}, k)
    BY <1>2, <2>2 DEF IInv, CookieInv
  <2>4. \A k \in CookieNames :
            m_cookies'[k] = CookieOf(m_request_lines', CookiesIn(m_request_lines', line', k), k)
    BY <1>2, <2>2, <2>3
  <2> QED BY <2>4 DEF CookieInv
<1> QED BY <1>1, <1>4, <1>5, <1>6, <1>7, <1>8, <1>9, <1>10 DEF IInv

\* The invariant is kept when any other line is looked at.
LEMMA LineStepKeeps ==
  ASSUME IInv, LineStep
  PROVE  IInv'
<1>0. TypeOK
  BY DEF IInv
<1>1. TypeOK' /\ GotInv'
  BY <1>0, LineStepTyped, GotStays DEF Next, LineStep
<1>2. /\ outcome = "none" /\ line \in 2 .. Len(m_request_lines) /\ line' = line + 1 /\ current \in Line
      /\ UNCHANGED <<sent, m_request_lines, m_method, m_path, m_post_data, m_identifier>>
  BY <1>0, StepAdvances
<1>3. line' > 1 /\ line' - 1 = line /\ line \in Int
  <2>1. PICK n \in Nat : n = Len(m_request_lines)
    <3>1. m_request_lines \in Seq(Line)
      BY <1>0 DEF TypeOK
    <3> QED BY <3>1
  <2>2. line \in 2 .. n
    BY <1>2, <2>1
  <2>3. line \in Int /\ line > 1
    BY <2>2
  <2> QED BY <1>2, <2>3
<1>4. FirstLineInv'
  <2>1. m_method # "" => /\ Len(Parts(m_request_lines[1])) >= 3
                         /\ m_method = Parts(m_request_lines[1])[1].text
                         /\ m_path = Parts(m_request_lines[1])[2].text
    BY DEF IInv, FirstLineInv
  <2>2. line' # 1
    BY <1>3
  <2> QED BY <1>2, <1>3, <2>1, <2>2 DEF FirstLineInv
<1>5. current = m_request_lines[line] /\ Goes
  BY <1>2 DEF current, Goes
<1>6. FaultInv'
  <2>1. 2 .. line' - 1 = (2 .. line - 1) \cup {line}
    BY <1>2, <1>3
  <2>2. /\ outcome' # "done"
        /\ Goes' /\ m_error' = 0 => m_error = 0 /\ Fine(current)
        /\ Goes' /\ m_error' = 1 => m_error = 1 \/ ~Fine(current)
    BY <1>0, StepFaults
  <2>3. ASSUME Goes', m_error' = 0, NEW i \in 2 .. line' - 1
        PROVE  Fine(m_request_lines[i])
    <3>1. CASE i = line
      BY <1>5, <2>2, <2>3, <3>1
    <3>2. CASE i # line
      <4>1. i \in 2 .. line - 1
        BY <2>1, <2>3, <3>2
      <4>2. m_error = 0
        BY <2>2, <2>3
      <4> QED BY <1>5, <4>1, <4>2 DEF IInv, FaultInv
    <3> QED BY <3>1, <3>2
  <2>4. ASSUME Goes', m_error' = 1
        PROVE  \E i \in 2 .. line' - 1 : ~Fine(m_request_lines[i])
    <3>1. CASE ~Fine(current)
      BY <1>5, <2>1, <3>1
    <3>2. CASE Fine(current)
      <4>1. m_error = 1
        BY <2>2, <2>4, <3>2
      <4>2. PICK i \in 2 .. line - 1 : ~Fine(m_request_lines[i])
        BY <1>2, <1>5, <4>1 DEF IInv, FaultInv
      <4> QED BY <2>1, <4>2
    <3> QED BY <3>1, <3>2
  <2>5. m_request_lines' = m_request_lines
    BY <1>2
  <2> QED BY <2>3, <2>4, <2>5 DEF FaultInv
<1>7. EndInv'
  <2>1. ~Goes' => Ends(m_request_lines[line])
    BY <1>0, <1>5, StepFaults
  <2> QED BY <1>2, <1>3, <2>1 DEF EndInv
<1>8. HostInv'
  <2> SUFFICES ASSUME Goes'
               PROVE  m_host' = IF Seen("Host")' = {} THEN "" ELSE Parts(LastSeen("Host")')[1].text
    BY DEF HostInv
  <2>1. m_host' = IF current.type = "Host" THEN Parts(current)[1].text ELSE m_host
    BY <1>0, StepHost
  <2>2. m_host = IF Seen("Host") = {} THEN "" ELSE Parts(LastSeen("Host"))[1].text
    BY <1>5 DEF IInv, HostInv
  <2>3. /\ current.type = "Host" => Seen("Host")' # {} /\ LastSeen("Host")' = current
        /\ current.type # "Host" => Seen("Host")' = Seen("Host") /\ LastSeen("Host")' = LastSeen("Host")
    BY <1>0, StepSees
  <2> QED BY <2>1, <2>2, <2>3, Zenon
<1>9. RefererInv'
  <2>1. m_referer' = IF current.type = "Referer" THEN Trim(Parts(current)) ELSE m_referer
    BY <1>0, StepReferer
  <2>2. m_referer = IF Seen("Referer") = {} THEN <<>> ELSE Trim(Parts(LastSeen("Referer")))
    BY DEF IInv, RefererInv
  <2>3. /\ current.type = "Referer" => Seen("Referer")' # {} /\ LastSeen("Referer")' = current
        /\ current.type # "Referer" =>
              Seen("Referer")' = Seen("Referer") /\ LastSeen("Referer")' = LastSeen("Referer")
    BY <1>0, StepSees
  <2>4. m_referer' = IF Seen("Referer")' = {} THEN <<>> ELSE Trim(Parts(LastSeen("Referer")'))
    BY <2>1, <2>2, <2>3, Zenon
  <2> QED BY <2>4 DEF RefererInv
<1>10. DateInv'
  <2> SUFFICES ASSUME Goes', m_error' = 0
               PROVE  m_if_modified_since' =
                          IF Seen("If-Modified-Since")' = {} THEN 0
                          ELSE ParseDate(LastSeen("If-Modified-Since")').date
    BY DEF DateInv
  <2>1. m_if_modified_since' = IF current.type = "If-Modified-Since" THEN ParseDate(current).date
                               ELSE m_if_modified_since
    BY <1>0, StepDate
  <2>2. m_error = 0
    BY <1>0, StepFaults
  <2>3. m_if_modified_since = IF Seen("If-Modified-Since") = {} THEN 0
                              ELSE ParseDate(LastSeen("If-Modified-Since")).date
    BY <1>5, <2>2 DEF IInv, DateInv
  <2>4. /\ current.type = "If-Modified-Since" =>
              Seen("If-Modified-Since")' # {} /\ LastSeen("If-Modified-Since")' = current
        /\ current.type # "If-Modified-Since" =>
              /\ Seen("If-Modified-Since")' = Seen("If-Modified-Since")
              /\ LastSeen("If-Modified-Since")' = LastSeen("If-Modified-Since")
    BY <1>0, StepSees
  <2> QED BY <2>1, <2>3, <2>4, Zenon
<1>11. CookieInv'
  <2>1. m_request_lines \in Seq(Line) /\ m_request_lines' = m_request_lines /\ line' = line + 1
    BY <1>0, <1>2 DEF TypeOK
  <2>2. ASSUME NEW k \in CookieNames
        PROVE  m_cookies'[k] = CookieOf(m_request_lines, CookiesIn(m_request_lines, line + 1, k), k)
    <3>1. m_cookies'[k] = IF current.type = "Cookie" /\ Setting(current, k) # {}
                          THEN GivenLast(current, k) ELSE m_cookies[k]
      BY <1>0, StepCookies
    <3>2. m_cookies[k] = CookieOf(m_request_lines, CookiesIn(m_request_lines, line, k), k)
      BY DEF IInv, CookieInv
    <3>3. CookieOf(m_request_lines, CookiesIn(m_request_lines, line + 1, k), k) =
             IF current.type = "Cookie" /\ Setting(current, k) # {} THEN GivenLast(current, k)
             ELSE CookieOf(m_request_lines, CookiesIn(m_request_lines, line, k), k)
      BY <1>2, <1>5, <2>1, NextCookies
    <3> QED BY <3>1, <3>2, <3>3
  <2> QED BY <2>1, <2>2 DEF CookieInv
<1>12. DoneInv'
  BY <1>0, StepFaults DEF DoneInv
<1> QED BY <1>1, <1>4, <1>6, <1>7, <1>8, <1>9, <1>10, <1>11, <1>12 DEF IInv

\* The invariant is kept when the constructor returns.
LEMMA EndKeeps ==
  ASSUME IInv, NoLines \/ Finish
  PROVE  IInv'
<1>0. TypeOK
  BY DEF IInv
<1>1. TypeOK' /\ GotInv'
  BY <1>0, EndTyped, GotStays DEF Next
<1>2. /\ outcome = "none" /\ outcome' = "done"
      /\ UNCHANGED <<sent, m_request_lines, line, m_host, m_if_modified_since, m_method, m_path,
                     m_port, m_cookies, m_referer>>
  BY DEF NoLines, Finish, fields, Running
<1>3. Goes /\ Goes'
  BY <1>2 DEF Goes
<1>4. FirstLineInv'
  BY <1>2 DEF IInv, FirstLineInv
<1>5. line = Len(m_request_lines) + 1
  <2>1. CASE NoLines
    <3>1. m_request_lines = <<>> /\ line \in 1 .. Len(m_request_lines) + 1
      BY <1>0, <2>1 DEF NoLines, TypeOK
    <3>2. Len(m_request_lines) = 0
      BY <3>1
    <3> QED BY <3>1, <3>2
  <2>2. CASE Finish
    BY <2>2 DEF Finish
  <2> QED BY <2>1, <2>2
<1>6. /\ m_error' = 0 => m_error = 0 /\ m_method # "" /\ m_path # "" /\ m_host # ""
      /\ m_error' = 1 => m_error = 1 \/ m_method = "" \/ m_path = "" \/ m_host = ""
      /\ m_method = "POST" => m_post_data' = PostData(m_request_lines)
  <2>1. CASE NoLines
    <3>1. m_error' = 1 /\ m_request_lines = <<>>
      BY <2>1 DEF NoLines
    <3>2. line = 1
      BY <1>5, <3>1
    <3>3. m_method = ""
      BY <3>2 DEF IInv, FirstLineInv
    <3>3a. m_method # "POST"
      BY <3>3
    <3>3b. m_error' # 0
      BY <3>1
    <3>4. m_error' # 0 /\ m_method # "POST"
      BY <3>3a, <3>3b
    <3> QED BY <3>3, <3>4
  <2>2. CASE Finish
    <3>1. CASE m_method = "" \/ m_path = "" \/ m_host = ""
      <4>1. m_error' = 1 /\ m_post_data' = IF m_method = "POST" THEN PostData(m_request_lines) ELSE m_post_data
        BY <2>2, <3>1 DEF Finish
      <4>2. m_error' # 0
        BY <4>1
      <4> QED BY <3>1, <4>1, <4>2
    <3>2. CASE m_method # "" /\ m_path # "" /\ m_host # ""
      <4>1. m_error' = m_error /\ m_post_data' = IF m_method = "POST" THEN PostData(m_request_lines) ELSE m_post_data
        BY <2>2, <3>2 DEF Finish
      <4> QED BY <3>2, <4>1
    <3> QED BY <3>1, <3>2
  <2> QED BY <2>1, <2>2
<1>7. FaultInv'
  <2>1. m_error' = 0 => \A i \in 2 .. line - 1 : Fine(m_request_lines[i])
    BY <1>3, <1>6 DEF IInv, FaultInv
  <2>2. m_error = 1 => \E i \in 2 .. line - 1 : ~Fine(m_request_lines[i])
    BY <1>2, <1>3 DEF IInv, FaultInv
  <2>3. line' = line /\ m_request_lines' = m_request_lines /\ outcome' = "done"
        /\ m_method' = m_method /\ m_path' = m_path /\ m_host' = m_host
    BY <1>2
  <2> QED BY <1>6, <2>1, <2>2, <2>3 DEF FaultInv
<1>8. EndInv'
  BY <1>3 DEF EndInv
<1>9. \A t : Seen(t)' = Seen(t) /\ LastSeen(t)' = LastSeen(t)
  BY <1>2 DEF Seen, LastSeen, SeenIn
<1>10. HostInv'
  BY <1>2, <1>3, <1>9 DEF IInv, HostInv
<1>11. RefererInv'
  BY <1>2, <1>9 DEF IInv, RefererInv
<1>12. DateInv'
  <2>1. m_error' = 0 => m_error = 0
    BY <1>6
  <2> QED BY <1>2, <1>3, <1>9, <2>1 DEF IInv, DateInv
<1>13. CookieInv'
  BY <1>2 DEF IInv, CookieInv
<1>14. DoneInv'
  BY <1>2, <1>5, <1>6 DEF DoneInv
<1> QED BY <1>1, <1>4, <1>7, <1>8, <1>10, <1>11, <1>12, <1>13, <1>14 DEF IInv

\* The invariant is kept when nothing changes.
LEMMA StutterKeeps ==
  ASSUME IInv, UNCHANGED vars
  PROVE  IInv'
<1>1. UNCHANGED <<sent, m_request_lines, line, outcome, m_error, m_host, m_if_modified_since,
                  m_method, m_path, m_port, m_cookies, m_referer, m_post_data, m_identifier>>
  BY DEF vars, fields
<1>2. TypeOK' /\ GotInv'
  BY <1>1 DEF IInv, TypeOK, GotInv
<1>3. FirstLineInv' /\ EndInv' /\ DoneInv'
  BY <1>1 DEF IInv, FirstLineInv, EndInv, DoneInv, Goes
<1>4. FaultInv'
  BY <1>1 DEF IInv, FaultInv, Goes
<1>5. \A t : Seen(t)' = Seen(t) /\ LastSeen(t)' = LastSeen(t)
  BY <1>1 DEF Seen, LastSeen, SeenIn
<1>6. HostInv' /\ RefererInv'
  BY <1>1, <1>5 DEF IInv, HostInv, RefererInv, Goes
<1>7. DateInv' /\ CookieInv'
  <2>1. DateInv'
    BY <1>1, <1>5 DEF IInv, DateInv, Goes
  <2>2. CookieInv'
    BY <1>1 DEF IInv, CookieInv
  <2> QED BY <2>1, <2>2
<1> QED BY <1>2, <1>3, <1>4, <1>6, <1>7 DEF IInv

\* Nothing has been looked at when the constructor begins.
LEMMA InitKeeps ==
  ASSUME Init
  PROVE  IInv
<1>1. TypeOK /\ GotInv
  BY InitTyped
<1>2. line = 1 /\ outcome = "none" /\ m_error = 0 /\ m_method = "" /\ m_host = ""
      /\ m_if_modified_since = 0 /\ m_referer = <<>> /\ m_cookies = [k \in CookieNames |-> NoCookie]
  BY DEF Init
<1>3. 2 .. 1 - 1 = {}
  OBVIOUS
<1>4. \A t : Seen(t) = {}
  BY <1>2, <1>3 DEF Seen, SeenIn
<1>5. FirstLineInv /\ EndInv /\ DoneInv
  BY <1>2 DEF FirstLineInv, EndInv, DoneInv, Goes
<1>6. FaultInv
  <2>0. line = 1 /\ m_error = 0
    BY <1>2
  <2>1. 2 .. line - 1 = {} /\ m_error # 1
    BY <2>0
  <2> QED BY <2>1 DEF FaultInv
<1>7. HostInv /\ RefererInv /\ DateInv /\ CookieInv
  <2>1. HostInv /\ RefererInv /\ DateInv
    BY <1>2, <1>4 DEF HostInv, RefererInv, DateInv
  <2>2. \A ls, k : CookiesIn(ls, 1, k) = {}
    BY <1>3 DEF CookiesIn, SeenIn
  <2>3. CookieInv
    BY <1>2, <2>2 DEF CookieInv, CookieOf
  <2> QED BY <2>1, <2>3
<1> QED BY <1>1, <1>5, <1>6, <1>7 DEF IInv

\* The invariant holds in every state of the constructor: what it has stored
\* is what the lines up to the current one say, the last of each kind, and
\* m_error is the sum of their faults.
THEOREM Invariance == Spec => []IInv
<1>1. Init => IInv
  BY InitKeeps
<1>2. IInv /\ [Next]_vars => IInv'
  BY NextCases, ParseHeaderKeeps, LineStepKeeps, EndKeeps, StutterKeeps
<1> QED BY <1>1, <1>2, PTL DEF Spec

-----------------------------------------------------------------------------
(* The theorems. *)

\* The lines are lines.
LEMMA LinesAre ==
  ASSUME IInv
  PROVE  /\ sent \in Requests /\ sent \in Seq(Line) /\ m_request_lines \in Seq(Line)
         /\ m_request_lines \in Reads(sent)
         /\ \A i \in 1 .. Len(m_request_lines) : m_request_lines[i] \in Line
         /\ \A i \in 1 .. Len(sent) : sent[i] \in Line
<1>1. sent \in Requests /\ m_request_lines \in Reads(sent)
  BY DEF IInv, GotInv
<1>2. sent \in Seq(Line) /\ m_request_lines \in Seq(Line)
  BY DEF IInv, TypeOK
<1> QED BY <1>1, <1>2, ElementOfSeq

\* All lines but the first have been looked at when the constructor returns.
LEMMA AllSeen ==
  ASSUME IInv, outcome = "done"
  PROVE  /\ 2 .. line - 1 = 2 .. Len(m_request_lines)
         /\ \A t : Seen(t) = {i \in 2 .. Len(m_request_lines) : m_request_lines[i].type = t}
<1>1. PICK n \in Nat : n = Len(m_request_lines)
  BY LinesAre
<1>2. line = n + 1
  BY <1>1 DEF IInv, DoneInv
<1>3. line - 1 = n
  BY <1>2
<1> QED BY <1>1, <1>3 DEF Seen, SeenIn

HasMethod == m_method # ""

\* A request line is none of the headers.
LEMMA RequestLineIsNoHeader ==
  ASSUME IInv, HasMethod
  PROVE  m_request_lines # <<>> /\ m_request_lines[1].type \notin HeaderTypes
<1>1. /\ line > 1
      /\ m_request_lines \in Seq(Line)
      /\ line \in 1 .. Len(m_request_lines) + 1
  BY DEF IInv, FirstLineInv, TypeOK, HasMethod
<1>2. m_request_lines # <<>>
  <2>1. PICK n \in Nat : n = Len(m_request_lines)
    BY <1>1
  <2>2. n > 0
    BY <1>1, <2>1
  <2> QED BY <1>1, <2>1, <2>2, EmptySeq
<1>3. m_request_lines[1].type = ""
  BY <1>2, LinesAre, GotLines
<1> QED BY <1>2, <1>3 DEF HeaderTypes

\* What the code finds nothing wrong with is well formed, or let pass.
LEMMA FineLines ==
  ASSUME NEW l \in Line, Fine(l)
  PROVE  WellFormed(l) \/ Tolerated(l)
<1>1. CASE l.type = "Host"
  <2>1. Parts(l) # <<>> /\ ~PortFault(Parts(l)) /\ l.type # "If-Modified-Since"
    BY <1>1 DEF Fine
  <2>2. PICK ws \in Seq(Word) : ws = l.words
    BY DEF Line
  <2>3. l.words # <<>> \/ l.cr
    BY <2>1, <2>2, PartsShape
  <2>4. ASSUME Len(l.words) > 1
        PROVE  l.words[2].v # <<>>
    <3>1. PICK n \in Nat : n = Len(ws)
      BY <2>2
    <3>2. 2 \in 1 .. n /\ n > 1
      BY <2>2, <2>4, <3>1
    <3>3. l.words # <<>>
      BY <2>2, <3>1, <3>2
    <3>4. Len(Parts(l)) = n
      BY <2>2, <3>1, <3>3, PartsType
    <3>5. Parts(l)[2].v = l.words[2].v
      BY <2>2, <3>1, <3>2, PartsType
    <3> QED BY <2>1, <3>2, <3>4, <3>5 DEF PortFault
  <2> QED BY <2>1, <2>3, <2>4 DEF WellFormed
<1>2. CASE l.type = "If-Modified-Since"
  <2>1. ParseDate(l).result = "date" /\ l.type # "Host"
    BY <1>2 DEF Fine
  <2>2. PICK ws : ws = NonEmpty(l.words)
    OBVIOUS
  <2>3. IsDate(ws) \/ Unread(ws) \/ BeginsAsAsctime(ws)
    BY <2>1, <2>2, TakenDate
  <2> QED BY <1>2, <2>1, <2>2, <2>3 DEF WellFormed, Tolerated
<1>3. CASE l.type \notin {"Host", "If-Modified-Since"}
  BY <1>3 DEF WellFormed
<1> QED BY <1>1, <1>2, <1>3

\* The process ends only for malformed lines of what was sent.
LEMMA EndingLines ==
  ASSUME NEW r \in Requests, NEW i \in 1 .. Len(r), Ends(r[i])
  PROVE  ~WellFormed(r[i])
<1>1. r[i] \in Line
  BY RequestAssumption, ElementOfSeq
<1>2. PICK l \in Line : l = r[i]
  BY <1>1
<1>3. CASE l.type = "Host" /\ Parts(l) = <<>>
  <2>1. PICK ws \in Seq(Word) : ws = l.words
    BY DEF Line
  <2>2. l.words = <<>> /\ ~l.cr
    <3>1. PICK p \in Seq(Word) : p = Parts(l)
      BY PartsType
    <3>2. Len(Parts(l)) = 0
      BY <1>3
    <3>2a. Len(Parts(l)) = IF l.cr /\ l.words = <<>> THEN 1 ELSE Len(l.words)
      BY PartsType
    <3>3. ~(l.cr /\ l.words = <<>>) /\ Len(l.words) = 0
      BY <3>2, <3>2a
    <3>4. ws = <<>>
      BY <2>1, <3>3, EmptySeq
    <3> QED BY <2>1, <3>3, <3>4
  <2> QED BY <1>2, <1>3, <2>2 DEF WellFormed
<1>4. CASE l.type = "If-Modified-Since" /\ ParseDate(l).result \in {"throws", "undefined"}
  <2>1. PICK ws : ws = NonEmpty(l.words)
    OBVIOUS
  <2>2. \A k \in 1 .. Len(ws) : ~ws[k].cr /\ (IsMonth(ws[k]) => ws[k].v = <<>>)
    BY <1>2, <1>4, <2>1, DateWords
  <2>3. ASSUME IsDate(ws) PROVE FALSE
    <3>1. ParseDate(l).result \in {"date", "error"}
      BY <2>1, <2>2, <2>3, DateIsReadToItsEnd
    <3> QED BY <1>4, <3>1
  <2> QED BY <1>2, <1>4, <2>1, <2>3 DEF WellFormed
<1> QED BY <1>2, <1>3, <1>4 DEF Ends

\* Without carriage returns the code finds fault with a well-formed line only
\* for the last second of 1969.
LEMMA WellFormedLines ==
  ASSUME NEW r \in Requests, NEW i \in 1 .. Len(r), WellFormed(r[i]), ~r[i].cr
  PROVE  /\ r[i].type # "If-Modified-Since" => Fine(r[i])
         /\ r[i].type = "If-Modified-Since" =>
               /\ Fine(r[i]) <=> Named(NonEmpty(r[i].words)) # -1
               /\ ParseDate(r[i]).date = Named(NonEmpty(r[i].words))
<1>1. r[i] \in Line
  BY RequestAssumption, ElementOfSeq
<1>2. PICK l \in Line : l = r[i]
  BY <1>1
<1>3. CASE l.type = "Host"
  <2>1. Parts(l) = l.words
    BY <1>2, PartsShape
  <2>2. l.words # <<>> /\ (Len(l.words) > 1 => l.words[2].v # <<>>)
    BY <1>2, <1>3 DEF WellFormed
  <2>3. Fine(l)
    BY <1>3, <2>1, <2>2 DEF Fine, PortFault
  <2> QED BY <1>2, <1>3, <2>3
<1>4. CASE l.type = "If-Modified-Since"
  <2>1. PICK ws : ws = NonEmpty(l.words)
    OBVIOUS
  <2>2. \A k \in 1 .. Len(ws) : ~ws[k].cr
    BY <1>2, <1>4, <2>1, DateWords
  <2>3. IsDate(ws)
    BY <1>2, <1>4, <2>1 DEF WellFormed
  <2>4. /\ ParseDate(l).date = Named(ws)
        /\ ParseDate(l).result = IF Named(ws) = -1 THEN "error" ELSE "date"
    BY <1>2, <2>1, <2>2, <2>3, DateMeansWhatItNames
  <2>5. Fine(l) <=> Named(ws) # -1
    BY <1>4, <2>4 DEF Fine
  <2> QED BY <1>2, <1>4, <2>1, <2>4, <2>5
<1>5. CASE l.type \notin {"Host", "If-Modified-Since"}
  BY <1>2, <1>5 DEF Fine
<1> QED BY <1>3, <1>4, <1>5

\* The fields keep their types.
THEOREM TypeCorrect == Spec => []TypeOK
<1>1. IInv => TypeOK
  BY DEF IInv
<1> QED BY <1>1, Invariance, PTL

\* A request with a line that is neither well formed nor let pass is not
\* accepted, whatever lines come after it.
THEOREM FaultsAreFinal == Spec => []NoFaultIsHealed
<1>1. ASSUME IInv
      PROVE  NoFaultIsHealed
  <2> SUFFICES ASSUME Accepted, NEW i \in 2 .. Len(m_request_lines)
               PROVE  WellFormed(m_request_lines[i]) \/ Tolerated(m_request_lines[i])
    BY DEF NoFaultIsHealed
  <2>1. outcome = "done" /\ m_error = 0 /\ Goes
    BY DEF Accepted, Goes
  <2>2. i \in 2 .. line - 1
    BY <1>1, <2>1, AllSeen
  <2>3. Fine(m_request_lines[i])
    BY <1>1, <2>1, <2>2 DEF IInv, FaultInv
  <2>4. m_request_lines[i] \in Line
    <3>1. i \in 1 .. Len(m_request_lines)
      OBVIOUS
    <3> QED BY <1>1, <3>1, LinesAre
  <2> QED BY <2>3, <2>4, FineLines
<1> QED BY <1>1, Invariance, PTL

\* No date is taken from a line that ends in CR LF, unless a space comes before
\* the carriage return or more words come after the year.
THEOREM DatesEndInLineFeeds == Spec => []DatesNeedBareLineFeeds
<1>1. ASSUME IInv
      PROVE  DatesNeedBareLineFeeds
  <2> SUFFICES ASSUME Accepted, NEW i \in OfType(m_request_lines, "If-Modified-Since"),
                      m_request_lines[i].cr
               PROVE  LET ws == m_request_lines[i].words
                      IN  \/ ws # <<>> /\ Last(ws).text = ""
                          \/ Len(NonEmpty(ws)) > 5 /\ BeginsAsAsctime(NonEmpty(ws))
    BY DEF DatesNeedBareLineFeeds
  <2>1. outcome = "done" /\ m_error = 0 /\ Goes
    BY DEF Accepted, Goes
  <2>2. i \in 1 .. Len(m_request_lines) /\ m_request_lines[i].type = "If-Modified-Since"
    <3>1. DOMAIN m_request_lines = 1 .. Len(m_request_lines)
      BY <1>1, LinesAre, LenProperties
    <3> QED BY <3>1 DEF OfType
  <2>3. i # 1
    <3>1. HasMethod
      BY <1>1, <2>1 DEF IInv, DoneInv, HasMethod
    <3>2. m_request_lines[1].type \notin HeaderTypes
      BY <1>1, <3>1, RequestLineIsNoHeader
    <3> QED BY <2>2, <3>2 DEF HeaderTypes
  <2>4. i \in 2 .. line - 1
    <3>1. i \in 2 .. Len(m_request_lines)
      BY <2>2, <2>3
    <3> QED BY <1>1, <2>1, <3>1, AllSeen
  <2>5. ParseDate(m_request_lines[i]).result = "date"
    BY <1>1, <2>1, <2>2, <2>4 DEF IInv, FaultInv, Fine
  <2>6. m_request_lines[i] \in Line
    BY <1>1, <2>2, LinesAre
  <2>7. PICK l \in Line : l = m_request_lines[i]
    BY <2>6
  <2>8. PICK ws : ws = NonEmpty(l.words)
    OBVIOUS
  <2>9. \/ l.words # <<>> /\ l.words[Len(l.words)].text = ""
        \/ Len(ws) > 5 /\ BeginsAsAsctime(ws)
    BY <2>5, <2>7, <2>8, TakenDate
  <2> QED BY <2>7, <2>8, <2>9 DEF Last
<1> QED BY <1>1, Invariance, PTL

\* The process ends in the constructor only for a line that the client has
\* malformed or that the one read() has cut.
THEOREM WellFormedRequestsAreParsed == Spec => []EndsOnlyByMalformedOrCutLine
<1>1. ASSUME IInv
      PROVE  EndsOnlyByMalformedOrCutLine
  <2> SUFFICES ASSUME outcome \in {"throws", "undefined"},
                      m_request_lines[Len(m_request_lines)] = sent[Len(m_request_lines)]
               PROVE  \E i \in DOMAIN sent : i > 1 /\ ~WellFormed(sent[i])
    BY DEF EndsOnlyByMalformedOrCutLine
  <2>1. ~Goes
    BY DEF Goes
  <2>2. PICK k \in 2 .. Len(m_request_lines) : k = line - 1 /\ Ends(m_request_lines[k])
    BY <1>1, <2>1 DEF IInv, EndInv
  <2>3. PICK n \in Nat : n = Len(m_request_lines)
    BY <1>1, LinesAre
  <2>4. k \in 2 .. n /\ n > 1
    BY <2>2, <2>3
  <2>5. m_request_lines # <<>>
    <3>1. ASSUME m_request_lines = <<>> PROVE FALSE
      <4>1. n = 0
        BY <2>3, <3>1
      <4> QED BY <2>4, <4>1
    <3> QED BY <3>1
  <2>6. /\ n \in 1 .. Len(sent)
        /\ \A j \in 1 .. n - 1 : m_request_lines[j] = sent[j]
    BY <1>1, <2>3, <2>5, LinesAre, GotLines
  <2>7. m_request_lines[k] = sent[k]
    <3>1. CASE k = n
      BY <2>3, <3>1
    <3>2. CASE k # n
      <4>1. k \in 1 .. n - 1
        BY <2>4, <3>2
      <4> QED BY <2>6, <4>1
    <3> QED BY <3>1, <3>2
  <2>8. k \in 1 .. Len(sent) /\ k > 1
    <3>1. PICK m \in Nat : m = Len(sent)
      BY <1>1, LinesAre
    <3>2. k \in 1 .. m /\ k > 1
      BY <2>4, <2>6, <3>1
    <3> QED BY <3>1, <3>2
  <2>9. ~WellFormed(sent[k])
    BY <1>1, <2>2, <2>7, <2>8, LinesAre, EndingLines
  <2>10. DOMAIN sent = 1 .. Len(sent)
    BY <1>1, LinesAre, LenProperties
  <2> QED BY <2>8, <2>9, <2>10
<1> QED BY <1>1, Invariance, PTL

\* Where no line of the body looks like a header, the header lines are those of
\* the head.
LEMMA HeadersAreInTheHead ==
  ASSUME IInv, Accepted, PlainBody(m_request_lines), NEW t \in HeaderTypes,
         NEW h, h = HeadLines(m_request_lines)
  PROVE  /\ OfType(h, t) = Seen(t)
         /\ Seen(t) \subseteq 1 .. Len(m_request_lines)
         /\ \A i \in Seen(t) : h[i] = m_request_lines[i]
         /\ Seen(t) # {} => LastOf(h, t) = LastSeen(t) /\ LastSeen(t) \in Line /\ LastSeen(t).type = t
                            /\ Max(Seen(t)) \in 2 .. line - 1
<1>1. outcome = "done" /\ HasMethod
  BY DEF Accepted, IInv, DoneInv, HasMethod
<1>2. PICK n \in Nat : n = Len(m_request_lines)
  BY LinesAre
<1>3. PICK b \in 1 .. n + 1 : b = FirstBlank(m_request_lines)
  BY <1>2, LinesAre, FirstBlankIs
<1>4. /\ Len(h) = b - 1 /\ DOMAIN h = 1 .. b - 1
      /\ \A i \in 1 .. b - 1 : h[i] = m_request_lines[i]
  <2>1. h = SubSeq(m_request_lines, 1, b - 1)
    BY <1>3 DEF HeadLines
  <2>2. \A i \in 1 .. b - 1 : m_request_lines[i] \in Line
    BY <1>2, <1>3, LinesAre
  <2>3. b - 1 \in Nat
    BY <1>3
  <2>4. /\ h \in Seq(Line) /\ Len(h) = b - 1
        /\ \A i \in 1 .. b - 1 : h[i] = m_request_lines[i]
    BY <2>1, <2>2, <2>3
  <2>5. DOMAIN h = 1 .. Len(h)
    BY <2>4, LenProperties
  <2> QED BY <2>4, <2>5
<1>5. Seen(t) = {i \in 2 .. n : m_request_lines[i].type = t}
  BY <1>1, <1>2, AllSeen
<1>6. \A i \in b .. n : m_request_lines[i].type # t
  BY <1>2, <1>3 DEF PlainBody
<1>7. n > 0 /\ m_request_lines[1].type # t
  <2>1. m_request_lines # <<>> /\ m_request_lines[1].type \notin HeaderTypes
    BY <1>1, RequestLineIsNoHeader
  <2>2. n # 0
    BY <1>2, <2>1, LinesAre, EmptySeq
  <2> QED BY <2>1, <2>2
<1>8. OfType(h, t) = {i \in 1 .. b - 1 : m_request_lines[i].type = t}
  BY <1>4 DEF OfType
<1>9. \A i : (i \in 1 .. b - 1 /\ m_request_lines[i].type = t)
             <=> (i \in 2 .. n /\ m_request_lines[i].type = t)
  <2>1. ASSUME NEW i, i \in 1 .. b - 1, m_request_lines[i].type = t
        PROVE  i \in 2 .. n
    BY <1>3, <1>7, <2>1
  <2>2. ASSUME NEW i, i \in 2 .. n, m_request_lines[i].type = t
        PROVE  i \in 1 .. b - 1
    <3>1. i \notin b .. n
      BY <1>6, <2>2
    <3> QED BY <1>3, <2>2, <3>1
  <2> QED BY <2>1, <2>2
<1>10. OfType(h, t) = Seen(t)
  BY <1>5, <1>8, <1>9
<1>11. ASSUME Seen(t) # {}
       PROVE  LastOf(h, t) = LastSeen(t) /\ LastSeen(t) \in Line /\ LastSeen(t).type = t
              /\ Max(Seen(t)) \in 2 .. line - 1
  <2>1. PICK is \in SUBSET (1 .. n) : is = Seen(t)
    <3>1. Seen(t) \subseteq 1 .. n
      BY <1>5
    <3> QED BY <3>1
  <2>2. Max(is) \in is
    BY <1>11, <2>1, MaxOf
  <2>3. PICK m \in 1 .. n : m = Max(Seen(t)) /\ m \in Seen(t)
    BY <2>1, <2>2
  <2>4. m \in 1 .. b - 1 /\ m \in 2 .. n /\ m_request_lines[m].type = t
    BY <1>5, <1>8, <1>10, <2>3
  <2>5. LastOf(h, t) = h[m] /\ LastSeen(t) = m_request_lines[m]
    BY <1>10, <2>3 DEF LastOf, LastSeen
  <2>6. h[m] = m_request_lines[m] /\ m_request_lines[m] \in Line
    BY <1>2, <1>4, <2>4, LinesAre
  <2>7. m \in 2 .. line - 1
    BY <1>1, <1>2, <2>4, AllSeen
  <2> QED BY <2>3, <2>4, <2>5, <2>6, <2>7
<1>12. Seen(t) \subseteq 1 .. n /\ \A i \in Seen(t) : h[i] = m_request_lines[i]
  <2>1. \A i \in Seen(t) : i \in 1 .. b - 1 /\ i \in 2 .. n
    BY <1>5, <1>8, <1>10
  <2> QED BY <1>4, <2>1
<1> QED BY <1>2, <1>10, <1>11, <1>12

\* If no line of the body looks like a header, host, referer and date of an
\* accepted request are those of the last line of the kind in the head, and each
\* cookie has the value given last in the last of the head's Cookie lines that
\* give it one.
THEOREM TheHeadDecides == Spec => []HeadDecides
<1>1. ASSUME IInv
      PROVE  HeadDecides
  <2> SUFFICES ASSUME Accepted, PlainBody(m_request_lines), NEW h, h = HeadLines(m_request_lines)
               PROVE  /\ m_host = LastOf(h, "Host").words[1].text
                      /\ m_if_modified_since = IF OfType(h, "If-Modified-Since") = {} THEN 0
                                               ELSE ParseDate(LastOf(h, "If-Modified-Since")).date
                      /\ m_referer = IF OfType(h, "Referer") = {} THEN <<>>
                                     ELSE Trim(Parts(LastOf(h, "Referer")))
                      /\ \A k \in CookieNames : m_cookies[k] = CookieOf(h, CookieLines(h, k), k)
    BY DEF HeadDecides, CookieOf, GivenLast
  <2>1. outcome = "done" /\ m_error = 0 /\ Goes
    BY DEF Accepted, Goes
  <2>2. \A t \in HeaderTypes :
            /\ OfType(h, t) = Seen(t)
            /\ Seen(t) # {} => LastOf(h, t) = LastSeen(t) /\ LastSeen(t) \in Line /\ LastSeen(t).type = t
                               /\ Max(Seen(t)) \in 2 .. line - 1
    BY <1>1, HeadersAreInTheHead
  <2>3. m_host = LastOf(h, "Host").words[1].text
    <3>1. m_host # ""
      BY <1>1, <2>1 DEF IInv, DoneInv
    <3>2. Seen("Host") # {} /\ m_host = Parts(LastSeen("Host"))[1].text
      BY <1>1, <2>1, <3>1 DEF IInv, HostInv
    <3>3. "Host" \in HeaderTypes
      BY DEF HeaderTypes
    <3>4. PICK l \in Line : l = LastSeen("Host") /\ l = LastOf(h, "Host") /\ l.type = "Host"
      BY <2>2, <3>2, <3>3
    <3>5. Fine(l)
      BY <1>1, <2>1, <2>2, <3>2, <3>3, <3>4 DEF IInv, FaultInv, LastSeen
    <3>6. Parts(l) # <<>> /\ m_host = Parts(l)[1].text
      BY <3>2, <3>4, <3>5 DEF Fine
    <3>7. PICK ws \in Seq(Word) : ws = l.words
      BY DEF Line
    <3>8. CASE ws = <<>>
      <4>1. Parts(l) = <<CR>>
        BY <3>6, <3>7, <3>8, PartsShape
      <4>2. Parts(l)[1] = CR
        BY <4>1
      <4>3. Parts(l)[1].text = ""
        BY <4>2, CrIsWord, Zenon
      <4> QED BY <3>1, <3>6, <4>3
    <3>9. CASE ws # <<>>
      <4>1. 1 \in 1 .. Len(ws)
        BY <3>9
      <4>2. Parts(l)[1].text = l.words[1].text
        BY <3>7, <4>1, PartsType
      <4> QED BY <3>4, <3>6, <4>2
    <3> QED BY <3>8, <3>9
  <2>4. m_if_modified_since = IF OfType(h, "If-Modified-Since") = {} THEN 0
                              ELSE ParseDate(LastOf(h, "If-Modified-Since")).date
    <3>1. m_if_modified_since = IF Seen("If-Modified-Since") = {} THEN 0
                                ELSE ParseDate(LastSeen("If-Modified-Since")).date
      BY <1>1, <2>1 DEF IInv, DateInv
    <3>2. "If-Modified-Since" \in HeaderTypes
      BY DEF HeaderTypes
    <3> QED BY <2>2, <3>1, <3>2, Zenon
  <2>5. m_referer = IF OfType(h, "Referer") = {} THEN <<>> ELSE Trim(Parts(LastOf(h, "Referer")))
    <3>1. m_referer = IF Seen("Referer") = {} THEN <<>> ELSE Trim(Parts(LastSeen("Referer")))
      BY <1>1 DEF IInv, RefererInv
    <3>2. "Referer" \in HeaderTypes
      BY DEF HeaderTypes
    <3> QED BY <2>2, <3>1, <3>2, Zenon
  <2>6. ASSUME NEW k \in CookieNames
        PROVE  m_cookies[k] = CookieOf(h, CookieLines(h, k), k)
    <3>1. PICK is : is = CookiesIn(m_request_lines, line, k)
      OBVIOUS
    <3>2. m_cookies[k] = CookieOf(m_request_lines, is, k)
      BY <1>1, <3>1 DEF IInv, CookieInv
    <3>3. /\ OfType(h, "Cookie") = Seen("Cookie")
          /\ Seen("Cookie") \subseteq 1 .. Len(m_request_lines)
          /\ \A i \in Seen("Cookie") : h[i] = m_request_lines[i]
      <4>1. "Cookie" \in HeaderTypes
        BY DEF HeaderTypes
      <4> QED BY <1>1, <4>1, HeadersAreInTheHead
    <3>4. is = CookieLines(h, k)
      BY <3>1, <3>3 DEF CookieLines, CookiesIn, Seen
    <3>5. ASSUME is # {}
          PROVE  h[Max(is)] = m_request_lines[Max(is)]
      <4>1. PICK n \in Nat : n = Len(m_request_lines)
        BY <1>1, LinesAre
      <4>2. is \subseteq Seen("Cookie") /\ is \in SUBSET (1 .. n)
        BY <3>1, <3>3, <4>1 DEF CookiesIn, Seen
      <4>3. Max(is) \in is
        BY <3>5, <4>2, MaxOf
      <4> QED BY <3>3, <4>2, <4>3
    <3>6. CookieOf(m_request_lines, is, k) = CookieOf(h, is, k)
      BY <3>5 DEF CookieOf
    <3> QED BY <3>2, <3>4, <3>6
  <2> QED BY <2>3, <2>4, <2>5, <2>6
<1> QED BY <1>1, Invariance, PTL

\* What is accepted of a request that did not arrive whole is the client's
\* method and path and a beginning of its post data, the last word cut.
THEOREM CutsLoseTheEnd == Spec => []CutRequestLosesOnlyItsEnd
<1>1. ASSUME IInv
      PROVE  CutRequestLosesOnlyItsEnd
  <2> SUFFICES ASSUME Accepted
               PROVE  /\ m_method = sent[1].words[1].text /\ m_path = sent[1].words[2].text
                      /\ m_method = "POST" =>
                            LET all == FlattenSeq(Body(sent))
                            IN  /\ \E ws \in CutWords(all) : TextOf(m_post_data) = TextOf(Trim(ws))
                                /\ Whole => TextOf(m_post_data) = TextOf(Trim(all))
    BY DEF CutRequestLosesOnlyItsEnd
  <2>1. outcome = "done" /\ m_error = 0 /\ Goes
    BY DEF Accepted, Goes
  <2>2. m_method # "" /\ m_host # ""
    BY <1>1, <2>1 DEF IInv, DoneInv
  <2>3. PICK n \in Nat : n = Len(m_request_lines)
    BY <1>1, LinesAre
  <2>4. n >= 2
    <3>1. Seen("Host") # {}
      BY <1>1, <2>1, <2>2 DEF IInv, HostInv
    <3>2. Seen("Host") = {i \in 2 .. n : m_request_lines[i].type = "Host"}
      BY <1>1, <2>1, <2>3, AllSeen
    <3>3. 2 .. n # {}
      BY <3>1, <3>2
    <3> QED BY <3>3
  <2>5. m_request_lines[1] = sent[1]
    <3>1. m_request_lines # <<>>
      BY <1>1, <2>2, RequestLineIsNoHeader DEF HasMethod
    <3>2. \A j \in 1 .. n - 1 : m_request_lines[j] = sent[j]
      BY <1>1, <2>3, <3>1, LinesAre, GotLines
    <3>3. 1 \in 1 .. n - 1
      BY <2>4
    <3> QED BY <3>2, <3>3
  <2>6. m_method = sent[1].words[1].text /\ m_path = sent[1].words[2].text
    <3>1. PICK l \in Line : l = sent[1]
      <4>1. 1 \in 1 .. Len(m_request_lines)
        BY <2>3, <2>4
      <4> QED BY <1>1, <2>5, <4>1, LinesAre
    <3>2. Len(Parts(l)) >= 3 /\ m_method = Parts(l)[1].text /\ m_path = Parts(l)[2].text
      BY <1>1, <2>2, <2>5, <3>1 DEF IInv, FirstLineInv
    <3>3. PICK ws \in Seq(Word) : ws = l.words
      BY DEF Line
    <3>4. PICK k \in Nat : k = Len(ws)
      OBVIOUS
    <3>5. k >= 3
      <4>1. Len(Parts(l)) = IF l.cr /\ l.words = <<>> THEN 1 ELSE k
        BY <3>3, <3>4, PartsType
      <4> QED BY <3>2, <4>1
    <3>6. 1 \in 1 .. Len(l.words) /\ 2 \in 1 .. Len(l.words)
      BY <3>3, <3>4, <3>5
    <3> QED BY <3>1, <3>2, <3>6, PartsType
  <2>7. ASSUME m_method = "POST", NEW all, all = FlattenSeq(Body(sent))
        PROVE  /\ \E ws \in CutWords(all) : TextOf(m_post_data) = TextOf(Trim(ws))
               /\ Whole => TextOf(m_post_data) = TextOf(Trim(all))
    <3>1. m_post_data = PostData(m_request_lines)
      BY <1>1, <2>1, <2>7 DEF IInv, DoneInv
    <3>2. \E ws \in CutWords(all) : TextOf(m_post_data) = TextOf(Trim(ws))
      BY <1>1, <2>7, <3>1, LinesAre, CutPostData
    <3>3. ASSUME Whole PROVE m_post_data = Trim(all)
      BY <1>1, <2>7, <3>1, <3>3, LinesAre, PostDataIs DEF Whole
    <3> QED BY <3>2, <3>3
  <2> QED BY <2>6, <2>7
<1> QED BY <1>1, Invariance, PTL

\* A conditional request of well-formed lines that arrives whole, with line
\* feeds alone, is taken for the instant that its last date names, and refused
\* if one of its dates names the last second of 1969.
THEOREM DatesAreInstants == Spec => []DatesMeanTheirInstants
<1>1. ASSUME IInv
      PROVE  DatesMeanTheirInstants
  <2> DEFINE Means(i) == Named(NonEmpty(sent[i].words))
             Complete == m_method # "" /\ m_path # "" /\ m_host # ""
  <2> SUFFICES ASSUME NEW ds, ds = OfType(sent, "If-Modified-Since"), outcome = "done", Whole, ds # {},
                      \A i \in 2 .. Len(sent) : WellFormed(sent[i]) /\ ~sent[i].cr,
                      Complete
               PROVE  IF \E i \in ds : Means(i) = -1 THEN m_error = 1
                      ELSE m_error = 0 /\ m_if_modified_since = Means(Max(ds))
    BY DEF DatesMeanTheirInstants
  <2>0. HasMethod
    BY DEF HasMethod
  <2> HIDE DEF Complete
  <2>1. Goes /\ m_request_lines = sent /\ m_error \in {0, 1}
    BY <1>1 DEF Goes, Whole, IInv, TypeOK
  <2>2. PICK n \in Nat : n = Len(sent)
    BY <1>1, LinesAre
  <2>3. 2 .. line - 1 = 2 .. n
    BY <1>1, <2>1, <2>2, AllSeen
  <2>4. Seen("If-Modified-Since") = ds
    <3>1. DOMAIN sent = 1 .. n
      BY <1>1, <2>2, LinesAre, LenProperties
    <3>2. ds = {i \in 1 .. n : sent[i].type = "If-Modified-Since"}
      BY <3>1 DEF OfType
    <3>3. sent[1].type # "If-Modified-Since"
      BY <1>1, <2>0, <2>1, RequestLineIsNoHeader DEF HeaderTypes
    <3>4. Seen("If-Modified-Since") = {i \in 2 .. n : sent[i].type = "If-Modified-Since"}
      BY <1>1, <2>1, <2>2, AllSeen
    <3>5. \A i \in 1 .. n : sent[i].type = "If-Modified-Since" => i \in 2 .. n
      BY <3>3
    <3>6. \A i \in 2 .. n : i \in 1 .. n
      OBVIOUS
    <3> HIDE DEF Means
    <3> QED BY <3>2, <3>4, <3>5, <3>6
  <2>5. \A i \in ds : i \in 2 .. n /\ sent[i].type = "If-Modified-Since"
    BY <1>1, <2>1, <2>2, <2>4, AllSeen
  <2>6. \A i \in 2 .. n : sent \in Requests /\ i \in 1 .. Len(sent) /\ WellFormed(sent[i]) /\ ~sent[i].cr
    BY <1>1, <2>2, LinesAre
  <2>7. \A i \in 2 .. n :
            /\ i \notin ds => Fine(sent[i])
            /\ i \in ds => (Fine(sent[i]) <=> Means(i) # -1) /\ ParseDate(sent[i]).date = Means(i)
    <3>1. ASSUME NEW i \in 2 .. n
          PROVE  /\ i \notin ds => Fine(sent[i])
                 /\ i \in ds => (Fine(sent[i]) <=> Means(i) # -1) /\ ParseDate(sent[i]).date = Means(i)
      <4>1. /\ sent[i].type # "If-Modified-Since" => Fine(sent[i])
            /\ sent[i].type = "If-Modified-Since" =>
                  /\ Fine(sent[i]) <=> Means(i) # -1
                  /\ ParseDate(sent[i]).date = Means(i)
        BY <2>6, WellFormedLines
      <4>2. i \in ds <=> sent[i].type = "If-Modified-Since"
        BY <1>1, <2>1, <2>2, <2>4, AllSeen
      <4> QED BY <4>1, <4>2
    <3> QED BY <3>1
  <2>8. /\ m_error = 0 => \A i \in 2 .. n : Fine(sent[i])
        /\ m_error = 1 => \E i \in 2 .. n : ~Fine(sent[i])
    BY <1>1, <2>1, <2>3 DEF IInv, FaultInv, Complete
  <2> HIDE DEF Means
  <2>9. CASE \E i \in ds : Means(i) = -1
    <3>1. PICK i \in ds : Means(i) = -1
      BY <2>9
    <3>2. i \in 2 .. n /\ ~Fine(sent[i])
      BY <2>5, <2>7, <3>1
    <3>3. m_error = 1
      BY <2>1, <2>8, <3>2
    <3> QED BY <2>9, <3>3
  <2>10. CASE ~\E i \in ds : Means(i) = -1
    <3>1. \A i \in 2 .. n : Fine(sent[i])
      BY <2>7, <2>10
    <3>2. m_error = 0
      BY <2>1, <2>8, <3>1
    <3>3. m_if_modified_since = ParseDate(sent[Max(ds)]).date
      BY <1>1, <2>1, <2>4, <3>2 DEF IInv, DateInv, LastSeen
    <3>4. Max(ds) \in ds
      <4>1. ds \in SUBSET (1 .. n)
        BY <2>5
      <4> QED BY <4>1, MaxOf
    <3>5. ParseDate(sent[Max(ds)]).date = Means(Max(ds))
      BY <2>5, <2>7, <3>4
    <3> QED BY <2>10, <3>2, <3>3, <3>5
  <2> QED BY <2>9, <2>10
<1> QED BY <1>1, Invariance, PTL
=============================================================================
