---------------------------- MODULE Unpack_proofs ----------------------------
(***************************************************************************)
(* Theorems about Unpack, for every exchange that means what it is to mean *)
(* when its tokens are all there, whatever pieces the bytes are read in,   *)
(* whatever the buffer drops and wherever the connection ends.             *)
(***************************************************************************)
EXTENDS Unpack, SequenceTheorems, WellFoundedInduction, TLAPS

-----------------------------------------------------------------------------
(***************************************************************************)
(* Induction, and sequences put one after the other.                       *)
(***************************************************************************)
\* Induction, for a set of naturals instead of a predicate.
LEMMA NatInduct ==
  ASSUME NEW T \in SUBSET Nat, 0 \in T, \A n \in T : n + 1 \in T
  PROVE  T = Nat
<1> SUFFICES ASSUME Nat \ T # {} PROVE FALSE
  OBVIOUS
<1>1. \E x \in Nat \ T : \A y \in Nat \ T : ~ (<<y, x>> \in OpToRel(<, Nat))
  BY WFMin, NatLessThanWellFounded
<1>2. PICK x \in Nat \ T : \A y \in Nat \ T : ~ (y < x)
  BY <1>1 DEF OpToRel
<1>3. x # 0 /\ x - 1 \in Nat /\ x - 1 < x /\ x - 1 + 1 = x
  BY <1>2
<1> QED BY <1>2, <1>3

\* Induction up to n.
LEMMA UpTo ==
  ASSUME NEW n \in Nat, NEW T \in SUBSET (0..n), 0 \in T,
         \A k \in T : k < n => k + 1 \in T
  PROVE  n \in T
<1> DEFINE U == {k \in Nat : k <= n => k \in T}
<1>1. 0 \in U
  OBVIOUS
<1>2. ASSUME NEW k \in U PROVE k + 1 \in U
  OBVIOUS
<1>3. U = Nat
  <2>1. U \in SUBSET Nat
    OBVIOUS
  <2> HIDE DEF U
  <2> QED BY <1>1, <1>2, <2>1, NatInduct
<1> QED BY <1>3

\* f has what there is after each of the fields.
Flattens(f, seqs, S) ==
  /\ f \in [0..Len(seqs) -> Seq(S)] /\ f[0] = << >>
  /\ \A i \in 1..Len(seqs) : f[i] = f[i - 1] \o seqs[i]

\* There is a function of the fields put together so far.
LEMMA FlattenExists ==
  ASSUME NEW S, NEW seqs \in Seq(Seq(S))
  PROVE  \E f : Flattens(f, seqs, S)
<1>0. PICK n \in Nat : n = Len(seqs)
  BY LenProperties
<1> DEFINE Right(f, k) == /\ f \in [0..k -> Seq(S)] /\ f[0] = << >>
                          /\ \A i \in 1..k : f[i] = f[i - 1] \o seqs[i]
           T == {k \in 0..n : \E f : Right(f, k)}
<1>1. 0 \in T
  <2>1. Right([i \in 0..0 |-> << >>], 0)
    BY EmptySeq
  <2> HIDE DEF Right
  <2> QED BY <1>0, <2>1
<1>2. ASSUME NEW k \in T, k < n PROVE k + 1 \in T
  <2> HIDE DEF Right
  <2>1. PICK f : Right(f, k)
    OBVIOUS
  <2>2. PICK m \in 0..n : m = k + 1 /\ k \in 0..n /\ m \in 1..n /\ m - 1 = k
    BY <1>0, <1>2
  <2>3. /\ f \in [0..k -> Seq(S)] /\ f[0] = << >>
        /\ \A i \in 1..k : f[i] = f[i - 1] \o seqs[i]
    BY <2>1 DEF Right
  <2>4. f[k] \in Seq(S) /\ seqs[m] \in Seq(S)
    BY <1>0, <2>2, <2>3, ElementOfSeq
  <2>5. PICK e \in Seq(S) : e = f[k] \o seqs[m]
    BY <2>4, ConcatProperties
  <2> DEFINE g == [i \in 0..m |-> IF i <= k THEN f[i] ELSE e]
  <2>6. g \in [0..m -> Seq(S)]
    BY <1>0, <2>2, <2>3
  <2>7. g[0] = << >>
    BY <1>0, <2>2, <2>3
  <2>8. ASSUME NEW i \in 1..m PROVE g[i] = g[i - 1] \o seqs[i]
    <3>1. CASE i <= k
      <4>1. i \in 1..k /\ g[i] = f[i] /\ g[i - 1] = f[i - 1]
        BY <1>0, <2>2, <3>1
      <4> HIDE DEF g
      <4> QED BY <2>3, <4>1
    <3>2. CASE i = m
      <4>1. g[m] = e /\ g[m - 1] = f[k]
        BY <1>0, <2>2, <3>2
      <4> HIDE DEF g
      <4> QED BY <2>5, <3>2, <4>1
    <3>3. i <= k \/ i = m
      BY <1>0, <2>2
    <3> QED BY <3>1, <3>2, <3>3
  <2> HIDE DEF g
  <2>9. Right(g, m)
    BY <2>6, <2>7, <2>8 DEF Right
  <2> QED BY <2>2, <2>9
<1> HIDE DEF Right
<1>3. n \in T
  <2>1. T \in SUBSET (0..n)
    OBVIOUS
  <2> HIDE DEF T
  <2>2. \A k \in T : k < n => k + 1 \in T
    BY <1>2
  <2> QED BY <1>1, <2>1, <2>2, UpTo
<1> QED BY <1>0, <1>3 DEF Right, Flattens

\* No fields, no bytes.
LEMMA FlattenNone ==
  FlattenSeq(<< >>) = << >>
BY DEF FlattenSeq

\* FlattenSeq is the last value of that function.
LEMMA FlattenIs ==
  ASSUME NEW S, NEW seqs \in Seq(Seq(S)), NEW f, Flattens(f, seqs, S)
  PROVE  FlattenSeq(seqs) = f[Len(seqs)]
<1>0. PICK n \in Nat : n = Len(seqs)
  BY LenProperties
<1>1. /\ f \in [0..n -> Seq(S)] /\ f[0] = << >>
      /\ \A i \in 1..n : f[i] = f[i - 1] \o seqs[i]
  BY <1>0 DEF Flattens
<1>2. CASE n = 0
  BY <1>0, <1>1, <1>2, EmptySeq, FlattenNone
<1>3. CASE n >= 1
  <2> DEFINE Right(h) == h = [i \in 1..n |-> IF i = 1 THEN seqs[i] ELSE h[i - 1] \o seqs[i]]
             flatten == CHOOSE h : Right(h)
             r == [i \in 1..n |-> f[i]]
  <2>1. ASSUME NEW i \in 1..n
        PROVE  r[i] = IF i = 1 THEN seqs[i] ELSE r[i - 1] \o seqs[i]
    <3>1. r[i] = f[i - 1] \o seqs[i] /\ seqs[i] \in Seq(S)
      BY <1>0, <1>1, ElementOfSeq
    <3>2. ASSUME i = 1 PROVE f[i - 1] \o seqs[i] = seqs[i]
      <4>1. f[i - 1] = << >>
        BY <1>1, <3>2
      <4> QED BY <3>1, <4>1, ConcatEmptySeq
    <3>3. i # 1 => r[i - 1] = f[i - 1]
      BY <1>0
    <3> HIDE DEF r
    <3> QED BY <3>1, <3>2, <3>3
  <2>2. Right(r)
    <3>1. r = [i \in 1..n |-> IF i = 1 THEN seqs[i] ELSE r[i - 1] \o seqs[i]]
      <4> DEFINE r2 == [i \in 1..n |-> IF i = 1 THEN seqs[i] ELSE r[i - 1] \o seqs[i]]
      <4>1. DOMAIN r = 1..n /\ DOMAIN r2 = 1..n /\ r = [i \in 1..n |-> r[i]]
        OBVIOUS
      <4>2. \A i \in 1..n : r2[i] = r[i]
        <5> HIDE DEF r
        <5> QED BY <2>1
      <4>3. r2 = [i \in 1..n |-> r2[i]]
        OBVIOUS
      <4> HIDE DEF r, r2
      <4>4. r = r2
        BY <4>1, <4>2, <4>3
      <4> QED BY <4>4 DEF r2
    <3> HIDE DEF r
    <3> QED BY <3>1
  <2>3. Right(flatten)
    <3> HIDE DEF Right, r
    <3> QED BY <2>2
  <2>4. FlattenSeq(seqs) = flatten[n]
    BY <1>0, <1>3 DEF FlattenSeq
  <2> HIDE DEF flatten, r
  <2>5. \A i \in 1..n : flatten[i] = IF i = 1 THEN seqs[i] ELSE flatten[i - 1] \o seqs[i]
    BY <2>3
  <2> HIDE DEF Right
  <2> DEFINE T == {k \in 0..n : k > 0 => flatten[k] = f[k]}
  <2>6. 0 \in T
    BY <1>0
  <2>7. ASSUME NEW k \in T, k < n PROVE k + 1 \in T
    <3>1. PICK m \in 0..n : m = k + 1 /\ k \in 0..n /\ m \in 1..n /\ m - 1 = k
      BY <1>0, <2>7
    <3>2. f[m] = f[k] \o seqs[m] /\ seqs[m] \in Seq(S)
      BY <1>0, <1>1, <3>1, ElementOfSeq
    <3>3. CASE k = 0
      <4>1. f[k] = << >> /\ m = 1 /\ 1 \in 1..n
        BY <1>1, <3>1, <3>3
      <4>2. flatten[m] = seqs[m]
        BY <2>5, <4>1
      <4>3. << >> \o seqs[m] = seqs[m]
        BY <3>2, ConcatEmptySeq
      <4> QED BY <3>1, <3>2, <4>1, <4>2, <4>3
    <3>4. CASE k > 0
      <4>1. flatten[k] = f[k]
        BY <3>4
      <4>2. flatten[m] = flatten[k] \o seqs[m]
        <5>1. m # 1
          BY <3>1, <3>4
        <5> QED BY <2>5, <3>1, <5>1
      <4> QED BY <3>1, <3>2, <4>1, <4>2
    <3> QED BY <3>1, <3>3, <3>4
  <2>8. n \in T
    <3>1. T \in SUBSET (0..n)
      OBVIOUS
    <3> HIDE DEF T
    <3>2. \A k \in T : k < n => k + 1 \in T
      BY <2>7
    <3> QED BY <2>6, <3>1, <3>2, UpTo
  <2> QED BY <1>0, <1>3, <2>4, <2>8
<1> QED BY <1>0, <1>2, <1>3

-----------------------------------------------------------------------------
(***************************************************************************)
(* Bytes and tokens.                                                       *)
(***************************************************************************)
\* A name that is not expanded where a lemma is used.
Letters == Seq(Char)

\* The digits.
LEMMA DigitFacts ==
  Digit = {"0", "1", "2", "3"} /\ \A d \in Digit : DigitOf[d] \in Nat
<1>1. Digit = {"0", "1", "2", "3"}
  BY DEF Digit, DigitOf
<1>2. ASSUME NEW d \in Digit PROVE DigitOf[d] \in Nat
  <2>1. d = "0" \/ d = "1" \/ d = "2" \/ d = "3"
    BY <1>1
  <2> QED BY <2>1 DEF DigitOf
<1> QED BY <1>1, <1>2

\* The kinds of bytes are apart.
LEMMA Apart ==
  /\ Digit \subseteq Char /\ Letter \subseteq Char /\ Space \subseteq Char
  /\ {"(", ")", ":", " ", "nul"} \subseteq Char
  /\ Digit \cap Letter = {} /\ Digit \cap Space = {} /\ Letter \cap Space = {}
  /\ "(" \notin Digit \cup Letter \cup Space /\ ")" \notin Digit \cup Letter \cup Space
  /\ ":" \notin Digit \cup Letter \cup Space /\ " " \in Space /\ "nul" \in Space
<1>1. /\ Digit = {"0", "1", "2", "3"} /\ Letter = {"a", "c", "d", "e", "f", "r", "s", "t", "u"}
      /\ Space = {" ", "nul"}
  BY DigitFacts DEF Letter, Space
<1>2. Char = Digit \cup Letter \cup Space \cup {"(", ")", ":"}
  BY DEF Char
<1>3. /\ Digit \subseteq Char /\ Letter \subseteq Char /\ Space \subseteq Char
      /\ {"(", ")", ":"} \subseteq Char
  BY <1>2
<1>4. " " \in Space /\ "nul" \in Space
  BY <1>1
<1>5. Digit \cap Letter = {}
  BY <1>1
<1>6. Digit \cap Space = {} /\ Letter \cap Space = {}
  BY <1>1
<1>7. "(" \notin Digit \cup Letter \cup Space /\ ")" \notin Digit \cup Letter \cup Space
  BY <1>1
<1>8. ":" \notin Digit \cup Letter \cup Space
  BY <1>1
<1> QED BY <1>3, <1>4, <1>5, <1>6, <1>7, <1>8

\* The value of a number is a natural.
LEMMA NumberType ==
  ASSUME NEW s \in Seq(Digit)
  PROVE  Number(s) \in Nat
<1> DEFINE Right(f, n) == f = [k \in 0..n |->
                                 IF k = 0 THEN 0 ELSE 10 * f[k - 1] + DigitOf[s[k]]]
           T == {n \in Nat : n <= Len(s) => \E f \in [0..n -> Nat] : Right(f, n)}
<1>0. Len(s) \in Nat /\ \A k \in 1..Len(s) : DigitOf[s[k]] \in Nat
  BY LenProperties, ElementOfSeq, DigitFacts
<1>1. 0 \in T
  <2>1. Right([k \in 0..0 |-> 0], 0)
    OBVIOUS
  <2>2. [k \in 0..0 |-> 0] \in [0..0 -> Nat]
    OBVIOUS
  <2> HIDE DEF Right
  <2> QED BY <2>1, <2>2
<1>2. ASSUME NEW n \in T PROVE n + 1 \in T
  <2> SUFFICES ASSUME n + 1 <= Len(s) PROVE \E f \in [0..(n + 1) -> Nat] : Right(f, n + 1)
    <3> HIDE DEF Right
    <3> QED OBVIOUS
  <2>1. n \in Nat /\ n <= Len(s) /\ n + 1 \in 1..Len(s)
    BY <1>0
  <2>2. PICK f \in [0..n -> Nat] : Right(f, n)
    <3> HIDE DEF Right
    <3> QED BY <2>1
  <2>7. \A k \in 0..n : f[k] = IF k = 0 THEN 0 ELSE 10 * f[k - 1] + DigitOf[s[k]]
    BY <2>2
  <2>3. PICK d \in Nat : d = DigitOf[s[n + 1]]
    BY <1>0, <2>1
  <2> DEFINE g == [k \in 0..(n + 1) |-> IF k = n + 1 THEN 10 * f[n] + d ELSE f[k]]
  <2>4. g \in [0..(n + 1) -> Nat]
    BY <2>1
  <2>5. ASSUME NEW k \in 0..(n + 1)
        PROVE  g[k] = IF k = 0 THEN 0 ELSE 10 * g[k - 1] + DigitOf[s[k]]
    <3>1. CASE k = n + 1
      <4>1. g[k] = 10 * f[n] + d /\ k # 0 /\ g[k - 1] = f[n]
        BY <2>1, <3>1
      <4> HIDE DEF g
      <4> QED BY <2>3, <3>1, <4>1
    <3>2. CASE k \in 1..n
      <4>1. g[k] = f[k] /\ g[k - 1] = f[k - 1] /\ k # 0
        BY <2>1, <3>2
      <4>a. k \in 0..n /\ k # 0
        BY <2>1, <3>2
      <4>2. f[k] = 10 * f[k - 1] + DigitOf[s[k]]
        BY <2>7, <4>a, Zenon
      <4> HIDE DEF g
      <4> QED BY <4>1, <4>2
    <3>3. CASE k = 0
      <4>1. g[k] = f[k]
        BY <2>1, <3>3
      <4>2. f[0] = 0
        BY <2>1, <2>7
      <4> HIDE DEF g
      <4> QED BY <3>3, <4>1, <4>2
    <3> QED BY <2>1, <3>1, <3>2, <3>3
  <2>6. Right(g, n + 1)
    <3>1. g = [k \in 0..(n + 1) |-> g[k]]
      OBVIOUS
    <3> HIDE DEF g
    <3> QED BY <2>5, <3>1
  <2> HIDE DEF g, Right
  <2> QED BY <2>4, <2>6
<1>3. T = Nat
  <2> HIDE DEF Right
  <2>1. T \in SUBSET Nat
    OBVIOUS
  <2> HIDE DEF T
  <2> QED BY <1>1, <1>2, <2>1, NatInduct
<1>4. PICK f \in [0..Len(s) -> Nat] : Right(f, Len(s))
  <2> HIDE DEF Right
  <2> QED BY <1>0, <1>3
<1> DEFINE val == CHOOSE f1 : Right(f1, Len(s))
<1>5. Right(val, Len(s))
  <2> HIDE DEF Right
  <2> QED BY <1>4
<1>6. Number(s) = val[Len(s)]
  BY DEF Number
<1> HIDE DEF val
<1> DEFINE U == {k \in 0..Len(s) : val[k] = f[k]}
<1>7. \A k \in 0..Len(s) :
        /\ val[k] = IF k = 0 THEN 0 ELSE 10 * val[k - 1] + DigitOf[s[k]]
        /\ f[k] = IF k = 0 THEN 0 ELSE 10 * f[k - 1] + DigitOf[s[k]]
  BY <1>4, <1>5
<1> HIDE DEF Right
<1>8. 0 \in U
  BY <1>0, <1>7
<1>9. ASSUME NEW k \in U, k < Len(s) PROVE k + 1 \in U
  <2>1. k + 1 \in 0..Len(s) /\ k + 1 # 0 /\ k + 1 - 1 = k /\ val[k] = f[k]
    BY <1>0, <1>9
  <2> QED BY <1>7, <2>1
<1>10. Len(s) \in U
  <2>1. U \in SUBSET (0..Len(s))
    OBVIOUS
  <2> HIDE DEF U
  <2> QED BY <1>0, <1>8, <1>9, <2>1, UpTo
<1>11. Len(s) \in 0..Len(s)
  BY <1>0
<1> QED BY <1>4, <1>6, <1>10, <1>11

\* Tokens by their kinds.
LEMMA TokenKinds ==
  ASSUME NEW t \in Tokens
  PROVE  /\ t.ts \in {"NUM_OUT", "TOK_OUT", "STRING_OUT", "LIST_START", "LIST_END", "BAD"}
         /\ t.ts = "NUM_OUT" => t.text \in Seq(Digit) /\ t.text # <<>>
         /\ t.ts = "TOK_OUT" => /\ t.text \in Seq(Letter \cup Digit) /\ t.text # <<>>
                                /\ t.text[1] \in Letter
         /\ t.ts = "STRING_OUT" => /\ t.text \in Seq(Char) /\ t.size \in Seq(Digit)
                                   /\ t.size # <<>> /\ Number(t.size) = Len(t.text)
         /\ t.ts = "LIST_START" => t.text = <<"(">> \/ t.text = <<"(", " ">>
         /\ t.ts = "LIST_END" => t.text = <<")">> \/ t.text = <<")", " ">>
         /\ t.ts = "BAD" => /\ t.text \in Seq(Digit \cup {"(", ")"}) /\ Len(t.text) >= 2
                            /\ t.text[Len(t.text)] \notin Digit
                            /\ \A i \in 1..(Len(t.text) - 1) : t.text[i] \in Digit
BY DEF Tokens

\* The digits or letters a token begins with.
Lead(t) ==
  IF t.ts = "STRING_OUT" THEN Len(t.size)
  ELSE IF t.ts = "BAD" THEN Len(t.text) - 1
  ELSE Len(t.text)

\* The bytes of each kind; the first l are digits or letters.
StartsWith(s, l, S) == l \in Nat /\ l >= 1 /\ \A i \in 1..l : s[i] \in S
NumSpelled(s, l) == StartsWith(s, l, Digit) /\ Len(s) = l + 1 /\ s[l + 1] = " "
WordSpelled(s, l) ==
  StartsWith(s, l, Letter \cup Digit) /\ s[1] \in Letter /\ Len(s) = l + 1 /\ s[l + 1] = " "
StringSpelled(x, s, l) ==
  /\ StartsWith(s, l, Digit) /\ s[l + 1] = ":" /\ Len(s) = l + 1 + Len(x) + 1 /\ s[Len(s)] = " "
  /\ Len(x) \in Nat /\ \A i \in 1..Len(x) : s[l + 1 + i] = x[i]
BadSpelled(s, l) == StartsWith(s, l, Digit) /\ Len(s) = l + 1 /\ s[l + 1] \in {"(", ")"}
ParenSpelled(x, s, c) ==
  Len(s) \in {1, 2} /\ Len(s) = Len(x) /\ s[1] = c /\ (Len(s) = 2 => s[2] = " ")

SpelledRight(t, s, l) ==
  /\ s \in Letters /\ Len(s) \in Nat /\ Len(s) >= 1
  /\ t.ts = "NUM_OUT" => NumSpelled(s, l)
  /\ t.ts = "TOK_OUT" => WordSpelled(s, l)
  /\ t.ts = "STRING_OUT" => StringSpelled(t.text, s, l)
  /\ t.ts = "BAD" => BadSpelled(s, l)
  /\ t.ts = "LIST_START" => ParenSpelled(t.text, s, "(")
  /\ t.ts = "LIST_END" => ParenSpelled(t.text, s, ")")

\* A sequence of some bytes is one of bytes.
LEMMA AsLetters ==
  ASSUME NEW S \in SUBSET Char, NEW s \in Seq(S)
  PROVE  s \in Letters
BY SeqMonotonic DEF Letters

\* What an element put at the end makes of a sequence.
LEMMA Appended ==
  ASSUME NEW s \in Letters, NEW c \in Char
  PROVE  /\ Append(s, c) \in Letters /\ Len(Append(s, c)) = Len(s) + 1 /\ Len(s) \in Nat
         /\ \A i \in 1..Len(s) : Append(s, c)[i] = s[i]
         /\ Append(s, c)[Len(s) + 1] = c
BY AppendProperties, LenProperties DEF Letters

\* Every token is spelled as its kind says.
LEMMA SpelledFacts ==
  ASSUME NEW t \in Tokens
  PROVE  SpelledRight(t, Spelled(t), Lead(t))
<1>0. " " \in Char /\ ":" \in Char /\ "(" \in Char /\ ")" \in Char
  BY Apart
<1>1. CASE t.ts = "NUM_OUT"
  <2>1. t.text \in Seq(Digit) /\ t.text # <<>>
    BY <1>1, TokenKinds
  <2>2. PICK x : x = t.text
    OBVIOUS
  <2>3. x \in Letters
    <3>1. Digit \in SUBSET Char
      BY Apart
    <3> QED BY <2>1, <2>2, <3>1, AsLetters
  <2>4. Len(x) \in Nat /\ Len(x) >= 1 /\ \A i \in 1..Len(x) : x[i] \in Digit
    BY <2>1, <2>2, EmptySeq, LenProperties, ElementOfSeq
  <2>5. PICK s : s = Append(x, " ")
    OBVIOUS
  <2>6. /\ s \in Letters /\ Len(s) = Len(x) + 1 /\ s[Len(x) + 1] = " "
        /\ \A i \in 1..Len(x) : s[i] = x[i]
    BY <1>0, <2>3, <2>5, Appended
  <2>7. Spelled(t) = s /\ Lead(t) = Len(x)
    BY <1>1, <2>2, <2>5 DEF Spelled, Lead
  <2>8. Len(s) >= 1 /\ Len(s) \in Nat
    <3>1. PICK m \in Nat : m = Len(x)
      BY <2>4
    <3>2. Len(s) = m + 1
      BY <2>6, <3>1
    <3> QED BY <3>2
  <2>9. NumSpelled(s, Len(x))
    BY <2>4, <2>6 DEF NumSpelled, StartsWith
  <2> QED BY <1>1, <2>6, <2>7, <2>8, <2>9 DEF SpelledRight
<1>2. CASE t.ts = "TOK_OUT"
  <2>1. t.text \in Seq(Letter \cup Digit) /\ t.text # <<>> /\ t.text[1] \in Letter
    BY <1>2, TokenKinds
  <2>2. PICK x : x = t.text
    OBVIOUS
  <2>3. x \in Letters
    <3>1. Letter \cup Digit \in SUBSET Char
      BY Apart
    <3> QED BY <2>1, <2>2, <3>1, AsLetters
  <2>4. Len(x) \in Nat /\ Len(x) >= 1 /\ \A i \in 1..Len(x) : x[i] \in Letter \cup Digit
    BY <2>1, <2>2, EmptySeq, LenProperties, ElementOfSeq
  <2>5. PICK s : s = Append(x, " ")
    OBVIOUS
  <2>6. /\ s \in Letters /\ Len(s) = Len(x) + 1 /\ s[Len(x) + 1] = " "
        /\ \A i \in 1..Len(x) : s[i] = x[i]
    BY <1>0, <2>3, <2>5, Appended
  <2>7. Spelled(t) = s /\ Lead(t) = Len(x)
    BY <1>2, <2>2, <2>5 DEF Spelled, Lead
  <2>8. s[1] \in Letter
    <3>1. 1 \in 1..Len(x) /\ x[1] \in Letter
      BY <2>1, <2>2, <2>4
    <3> QED BY <2>6, <3>1
  <2>9. Len(s) >= 1 /\ Len(s) \in Nat
    <3>1. PICK m \in Nat : m = Len(x)
      BY <2>4
    <3>2. Len(s) = m + 1
      BY <2>6, <3>1
    <3> QED BY <3>2
  <2>10. WordSpelled(s, Len(x))
    BY <2>4, <2>6, <2>8 DEF WordSpelled, StartsWith
  <2> QED BY <1>2, <2>6, <2>7, <2>9, <2>10 DEF SpelledRight
<1>3. CASE t.ts = "BAD"
  <2>1. /\ t.text \in Seq(Digit \cup {"(", ")"}) /\ Len(t.text) >= 2
        /\ t.text[Len(t.text)] \notin Digit
        /\ \A i \in 1..(Len(t.text) - 1) : t.text[i] \in Digit
    BY <1>3, TokenKinds
  <2>2. PICK x : x = t.text
    OBVIOUS
  <2>3. x \in Letters
    <3>1. Digit \cup {"(", ")"} \in SUBSET Char
      BY Apart
    <3> QED BY <2>1, <2>2, <3>1, AsLetters
  <2>4. PICK l \in Nat : l = Len(x) - 1 /\ l >= 1 /\ Len(x) = l + 1
    <3>1. Len(x) \in Nat /\ Len(x) >= 2
      BY <2>1, <2>2, LenProperties
    <3>2. Len(x) - 1 \in Nat /\ Len(x) - 1 >= 1 /\ Len(x) = Len(x) - 1 + 1
      BY <3>1
    <3> QED BY <3>2
  <2>5. x[l + 1] \in {"(", ")"}
    <3>1. Len(x) \in 1..Len(x)
      BY <2>4
    <3>2. x[Len(x)] \in Digit \cup {"(", ")"}
      BY <2>1, <2>2, <3>1, ElementOfSeq
    <3> QED BY <2>1, <2>2, <2>4, <3>2
  <2>6. \A i \in 1..l : x[i] \in Digit
    BY <2>1, <2>2, <2>4
  <2>7. Spelled(t) = x /\ Lead(t) = l
    BY <1>3, <2>2, <2>4 DEF Spelled, Lead
  <2>8. Len(x) >= 1 /\ Len(x) \in Nat
    BY <2>4
  <2>9. BadSpelled(x, l)
    BY <2>4, <2>5, <2>6 DEF BadSpelled, StartsWith
  <2> QED BY <1>3, <2>3, <2>7, <2>8, <2>9 DEF SpelledRight
<1>4. CASE t.ts = "STRING_OUT"
  <2>1. t.text \in Seq(Char) /\ t.size \in Seq(Digit) /\ t.size # <<>>
    BY <1>4, TokenKinds
  <2>2. PICK x, y : x = t.text /\ y = t.size
    OBVIOUS
  <2>3. x \in Letters /\ y \in Letters
    <3>1. Digit \in SUBSET Char
      BY Apart
    <3> QED BY <2>1, <2>2, <3>1, AsLetters DEF Letters
  <2>4. /\ Len(y) \in Nat /\ Len(y) >= 1 /\ Len(x) \in Nat
        /\ \A i \in 1..Len(y) : y[i] \in Digit
    BY <2>1, <2>2, EmptySeq, LenProperties, ElementOfSeq
  <2>5. PICK z : z = Append(x, " ")
    OBVIOUS
  <2>6. /\ z \in Letters /\ Len(z) = Len(x) + 1 /\ z[Len(x) + 1] = " "
        /\ \A i \in 1..Len(x) : z[i] = x[i]
    BY <1>0, <2>3, <2>5, Appended
  <2>7. PICK c : c = y \o <<":">>
    OBVIOUS
  <2>8. /\ c \in Letters /\ Len(c) = Len(y) + 1 /\ c[Len(y) + 1] = ":"
        /\ \A i \in 1..Len(y) : c[i] = y[i]
    <3>2. PICK o : o = <<":">>
      OBVIOUS
    <3>1. o \in Letters /\ Len(o) = 1 /\ o[1] = ":"
      <4>1. ":" \in Char
        BY <1>0
      <4>2. o \in Seq(Char)
        BY <3>2, <4>1
      <4>3. Len(o) = 1 /\ o[1] = ":"
        BY <3>2
      <4> QED BY <4>2, <4>3 DEF Letters
    <3>3. /\ c \in Letters /\ Len(c) = Len(y) + 1
          /\ \A i \in 1..(Len(y) + Len(o)) : c[i] = IF i <= Len(y) THEN y[i] ELSE o[i - Len(y)]
      BY <2>3, <2>7, <3>1, <3>2, ConcatProperties DEF Letters
    <3> QED BY <2>4, <3>1, <3>2, <3>3
  <2>9. PICK s : s = c \o z
    OBVIOUS
  <2>10. /\ s \in Letters /\ Len(s) = Len(y) + 1 + Len(x) + 1
         /\ \A i \in 1..Len(s) : s[i] = IF i <= Len(y) + 1 THEN c[i] ELSE z[i - (Len(y) + 1)]
    <3>1. /\ s \in Letters /\ Len(s) = Len(c) + Len(z)
          /\ \A i \in 1..(Len(c) + Len(z)) : s[i] = IF i <= Len(c) THEN c[i] ELSE z[i - Len(c)]
      BY <2>6, <2>8, <2>9, ConcatProperties DEF Letters
    <3>2. Len(c) = Len(y) + 1 /\ Len(z) = Len(x) + 1
      BY <2>6, <2>8
    <3>3. Len(c) + Len(z) = Len(y) + 1 + Len(x) + 1
      BY <2>4, <3>2
    <3> QED BY <3>1, <3>2, <3>3
  <2>11. \A i \in 1..Len(y) : s[i] \in Digit
    BY <2>4, <2>8, <2>10
  <2>12. s[Len(y) + 1] = ":"
    BY <2>4, <2>8, <2>10
  <2>13. s[Len(s)] = " "
    <3>1. Len(s) \in 1..Len(s) /\ ~(Len(s) <= Len(y) + 1) /\ Len(s) - (Len(y) + 1) = Len(x) + 1
      BY <2>4, <2>10
    <3> QED BY <2>6, <2>10, <3>1
  <2>14. ASSUME NEW i \in 1..Len(x) PROVE s[Len(y) + 1 + i] = x[i]
    <3>1. PICK j \in 1..Len(s) : j = Len(y) + 1 + i /\ ~(j <= Len(y) + 1) /\ j - (Len(y) + 1) = i
      BY <2>4, <2>10
    <3> QED BY <2>6, <2>10, <3>1
  <2>15. Spelled(t) = s /\ Lead(t) = Len(y)
    BY <1>4, <2>2, <2>5, <2>7, <2>9 DEF Spelled, Lead
  <2>16. Len(s) >= 1 /\ Len(s) \in Nat
    BY <2>4, <2>10
  <2>17. StringSpelled(x, s, Len(y))
    BY <2>4, <2>10, <2>11, <2>12, <2>13, <2>14 DEF StringSpelled, StartsWith
  <2> QED BY <1>4, <2>2, <2>10, <2>15, <2>16, <2>17 DEF SpelledRight
<1>5. CASE t.ts = "LIST_START" \/ t.ts = "LIST_END"
  <2>1. Spelled(t) = t.text /\ Lead(t) = Len(t.text)
    BY <1>5 DEF Spelled, Lead
  <2>2. PICK c : c = (IF t.ts = "LIST_START" THEN "(" ELSE ")") /\ c \in Char
    BY <1>0
  <2>3. t.text = <<c>> \/ t.text = <<c, " ">>
    BY <1>5, <2>2, TokenKinds
  <2>4. ASSUME NEW x, x = <<c>> \/ x = <<c, " ">>
        PROVE  x \in Letters /\ Len(x) \in {1, 2} /\ x[1] = c /\ (Len(x) = 2 => x[2] = " ")
    <3>1. CASE x = <<c>>
      <4>1. x \in Seq(Char)
        BY <2>2, <3>1
      <4> QED BY <3>1, <4>1 DEF Letters
    <3>2. CASE x = <<c, " ">>
      <4>1. PICK e \in Char : e = " "
        BY <1>0
      <4>2. x = <<c, e>>
        BY <3>2, <4>1
      <4>3. x \in Seq(Char)
        BY <2>2, <4>2
      <4>4. Len(x) = 2 /\ x[1] = c /\ x[2] = e
        BY <4>2
      <4> QED BY <4>1, <4>3, <4>4 DEF Letters
    <3> QED BY <2>4, <3>1, <3>2
  <2>5. PICK x : x = t.text
    OBVIOUS
  <2>6. x \in Letters /\ Len(x) \in {1, 2} /\ x[1] = c /\ (Len(x) = 2 => x[2] = " ")
    BY <2>3, <2>4, <2>5
  <2>7. ParenSpelled(x, x, c)
    BY <2>6 DEF ParenSpelled
  <2>8. Len(x) >= 1 /\ Len(x) \in Nat
    <3>1. Len(x) = 1 \/ Len(x) = 2
      BY <2>6
    <3> QED BY <3>1
  <2> QED BY <1>5, <2>1, <2>2, <2>5, <2>6, <2>7, <2>8 DEF SpelledRight
<1> QED BY <1>1, <1>2, <1>3, <1>4, <1>5, TokenKinds

-----------------------------------------------------------------------------
(***************************************************************************)
(* Where the tokens of an exchange begin.                                  *)
(***************************************************************************)
\* The j-th token begins behind A[j] bytes of B.
StartsAt(T, A, B, j) ==
  /\ A[j] \in Nat /\ A[j + 1] \in Nat /\ A[j] <= Len(B) /\ A[j + 1] <= Len(B)
  /\ A[j + 1] = A[j] + Len(Spelled(T[j]))
  /\ \A i \in 1..Len(Spelled(T[j])) : B[A[j] + i] = Spelled(T[j])[i]

Starts(T, A, B) ==
  /\ B \in Letters /\ Len(B) \in Nat /\ Len(T) \in Nat
  /\ A[1] = 0 /\ A[Len(T) + 1] = Len(B)
  /\ \A j \in 1..Len(T) : T[j] \in Tokens /\ StartsAt(T, A, B, j)

LEMMA StartsExist ==
  ASSUME NEW T \in Seq(Tokens)
  PROVE  \E A : Starts(T, A, Bytes(T))
<1>0. PICK n \in Nat : n = Len(T)
  BY LenProperties
<1>1. \A j \in 1..n : T[j] \in Tokens
  BY <1>0, ElementOfSeq
<1> DEFINE seqs == [j \in 1..n |-> Spelled(T[j])]
<1>2. ASSUME NEW j \in 1..n PROVE Spelled(T[j]) \in Letters
  <2>1. SpelledRight(T[j], Spelled(T[j]), Lead(T[j]))
    BY <1>1, SpelledFacts
  <2> QED BY <2>1 DEF SpelledRight
<1>3. seqs \in Seq(Letters) /\ Len(seqs) = n
  BY <1>2
<1>4. Bytes(T) = FlattenSeq(seqs)
  BY <1>0 DEF Bytes
<1>5. \A j \in 1..n : seqs[j] = Spelled(T[j])
  OBVIOUS
<1> HIDE DEF seqs
<1>6. PICK f : Flattens(f, seqs, Char)
  BY <1>3, FlattenExists DEF Letters
<1>7. /\ f \in [0..n -> Letters] /\ f[0] = <<>>
      /\ \A j \in 1..n : f[j] = f[j - 1] \o seqs[j]
  BY <1>3, <1>6 DEF Flattens, Letters
<1>8. PICK B : B = f[n] /\ B = Bytes(T)
  BY <1>3, <1>4, <1>6, FlattenIs DEF Letters
<1>9. \A j \in 0..n : f[j] \in Letters /\ Len(f[j]) \in Nat
  BY <1>7, LenProperties DEF Letters
\* What one field adds.
<1>10. ASSUME NEW j \in 1..n
       PROVE  /\ Len(f[j]) = Len(f[j - 1]) + Len(seqs[j]) /\ Len(seqs[j]) \in Nat
              /\ \A i \in 1..Len(f[j - 1]) : f[j][i] = f[j - 1][i]
              /\ \A i \in 1..Len(seqs[j]) : f[j][Len(f[j - 1]) + i] = seqs[j][i]
  <2>1. PICK g, s : g = f[j - 1] /\ s = seqs[j]
    OBVIOUS
  <2>2. g \in Letters /\ s \in Letters /\ Len(g) \in Nat /\ Len(s) \in Nat
    <3>1. j - 1 \in 0..n
      BY <1>0
    <3>2. g \in Letters /\ Len(g) \in Nat
      BY <1>9, <2>1, <3>1
    <3>3. s \in Letters
      BY <1>2, <1>5, <2>1
    <3> QED BY <3>2, <3>3, LenProperties DEF Letters
  <2>3. PICK h : h = g \o s
    OBVIOUS
  <2>4. /\ Len(h) = Len(g) + Len(s)
        /\ \A i \in 1..(Len(g) + Len(s)) : h[i] = IF i <= Len(g) THEN g[i] ELSE s[i - Len(g)]
    BY <2>2, <2>3, ConcatProperties DEF Letters
  <2>5. f[j] = h
    BY <1>7, <2>1, <2>3
  <2>6. \A i \in 1..Len(g) : h[i] = g[i]
    BY <2>2, <2>4
  <2>7. ASSUME NEW i \in 1..Len(s) PROVE h[Len(g) + i] = s[i]
    <3>1. PICK k \in 1..(Len(g) + Len(s)) : k = Len(g) + i /\ ~(k <= Len(g)) /\ k - Len(g) = i
      BY <2>2
    <3> QED BY <2>4, <3>1
  <2> QED BY <2>1, <2>2, <2>4, <2>5, <2>6, <2>7
\* The fields up to one are the beginning of all.
<1> DEFINE First1(j, k) == Len(f[j]) <= Len(f[k]) /\ \A i \in 1..Len(f[j]) : f[k][i] = f[j][i]
           K == {k \in 0..n : \A j \in 0..k : First1(j, k)}
<1>11. 0 \in K
  BY <1>0, <1>9
<1>12. ASSUME NEW k \in K, k < n PROVE k + 1 \in K
  <2>1. PICK m \in 1..n : m = k + 1 /\ k \in 0..n /\ m \in 0..n /\ m - 1 = k
    BY <1>0, <1>12
  <2>a. /\ Len(f[m]) = Len(f[m - 1]) + Len(seqs[m]) /\ Len(seqs[m]) \in Nat
        /\ \A i \in 1..Len(f[m - 1]) : f[m][i] = f[m - 1][i]
    BY <1>10
  <2>b. m - 1 = k
    BY <2>1
  <2>2. /\ Len(f[m]) = Len(f[k]) + Len(seqs[m]) /\ Len(seqs[m]) \in Nat
        /\ \A i \in 1..Len(f[k]) : f[m][i] = f[k][i]
    BY <2>a, <2>b
  <2>3. Len(f[k]) \in Nat /\ Len(f[m]) \in Nat
    BY <1>9, <2>1
  <2>c. PICK lk \in Nat, lm \in Nat, ls \in Nat :
          lk = Len(f[k]) /\ lm = Len(f[m]) /\ ls = Len(seqs[m])
    BY <2>2, <2>3
  <2>d. lm = lk + ls
    BY <2>2, <2>c
  <2>e. lk <= lm
    BY <2>d
  <2>4. ASSUME NEW j \in 0..m PROVE First1(j, m)
    <3>1. CASE j = m
      BY <2>3, <3>1
    <3>2. CASE j # m
      <4>1. j \in 0..k /\ j \in 0..n
        BY <2>1, <3>2
      <4>2. First1(j, k)
        BY <4>1
      <4>3. Len(f[j]) \in Nat
        BY <1>9, <4>1
      <4>a. PICK lj \in Nat : lj = Len(f[j]) /\ lj <= lk
        BY <2>c, <4>2, <4>3
      <4>b. lj <= lm
        BY <2>e, <4>a
      <4>4. Len(f[j]) <= Len(f[m])
        BY <2>c, <4>a, <4>b
      <4>5. ASSUME NEW i \in 1..Len(f[j]) PROVE f[m][i] = f[j][i]
        <5>1. i \in 1..lk
          BY <4>a
        <5>2. f[m][i] = f[k][i]
          BY <2>2, <2>c, <5>1
        <5> QED BY <4>2, <5>2
      <4> QED BY <4>4, <4>5
    <3> QED BY <3>1, <3>2
  <2> HIDE DEF First1
  <2> QED BY <2>1, <2>4
<1>13. n \in K
  <2> HIDE DEF First1
  <2>1. K \in SUBSET (0..n)
    OBVIOUS
  <2> HIDE DEF K
  <2> QED BY <1>0, <1>11, <1>12, <2>1, UpTo
<1>14. \A j \in 0..n : First1(j, n)
  <2> HIDE DEF First1
  <2> QED BY <1>13
<1> DEFINE A == [j \in 1..(n + 1) |-> Len(f[j - 1])]
<1>15. ASSUME NEW j \in 1..n PROVE StartsAt(T, A, B, j)
  <2>1. PICK k \in 0..n : k = j - 1 /\ j \in 0..n /\ j \in 1..(n + 1) /\ j + 1 \in 1..(n + 1)
    BY <1>0
  <2>2. A[j] = Len(f[k]) /\ A[j + 1] = Len(f[j])
    BY <2>1
  <2> HIDE DEF A
  <2>3. Len(f[k]) \in Nat /\ Len(f[j]) \in Nat
    BY <1>9, <2>1
  <2>4. Len(f[k]) <= Len(B) /\ Len(f[j]) <= Len(B)
    BY <1>8, <1>14, <2>1
  <2>5. Len(f[j]) = Len(f[k]) + Len(Spelled(T[j]))
    BY <1>5, <1>10, <2>1
  <2>6. ASSUME NEW i \in 1..Len(Spelled(T[j])) PROVE B[Len(f[k]) + i] = Spelled(T[j])[i]
    <3>a. PICK s : s = seqs[j] /\ s = Spelled(T[j])
      BY <1>5
    <3>b. \A x \in 1..Len(seqs[j]) : f[j][Len(f[j - 1]) + x] = seqs[j][x]
      BY <1>10
    <3>c. j - 1 = k /\ i \in 1..Len(s)
      BY <2>1, <3>a
    <3>d. f[j][Len(f[k]) + i] = s[i]
      BY <3>a, <3>b, <3>c
    <3>1. f[j][Len(f[k]) + i] = Spelled(T[j])[i]
      BY <3>a, <3>d
    <3>2. Len(Spelled(T[j])) \in Nat
      BY <1>5, <1>10
    <3>e. PICK lk \in Nat, lj \in Nat, ls \in Nat :
            lk = Len(f[k]) /\ lj = Len(f[j]) /\ ls = Len(Spelled(T[j]))
      BY <2>3, <3>2
    <3>f. lj = lk + ls /\ i \in 1..ls
      BY <2>5, <3>e
    <3>g. lk + i \in 1..lj
      BY <3>f
    <3>3. Len(f[k]) + i \in 1..Len(f[j])
      BY <3>e, <3>g
    <3>4. B[Len(f[k]) + i] = f[j][Len(f[k]) + i]
      BY <1>8, <1>14, <2>1, <3>3
    <3> QED BY <3>1, <3>4
  <2> QED BY <2>2, <2>3, <2>4, <2>5, <2>6 DEF StartsAt
<1>16. A[1] = 0
  <2>1. A[1] = Len(f[0])
    BY <1>0
  <2> HIDE DEF A
  <2> QED BY <1>7, <2>1
<1>17. A[n + 1] = Len(B)
  <2>1. n + 1 \in 1..(n + 1) /\ n + 1 - 1 = n
    BY <1>0
  <2>2. A[n + 1] = Len(f[n])
    BY <2>1
  <2> HIDE DEF A
  <2> QED BY <1>8, <2>2
<1>18. B \in Letters /\ Len(B) \in Nat
  <2>1. n \in 0..n
    BY <1>0
  <2> QED BY <1>8, <1>9, <2>1
<1> HIDE DEF A
<1> QED BY <1>0, <1>1, <1>8, <1>15, <1>16, <1>17, <1>18 DEF Starts

-----------------------------------------------------------------------------
(***************************************************************************)
(* The buffer and what has not been read.                                  *)
(***************************************************************************)
\* The bytes of the buffer d and of the rest w behind it.
Buf(d, w, q) == IF q <= Len(d) THEN d[q] ELSE w[q - Len(d)]
Total(d, w) == Len(d) + Len(w)

\* c stands for the x-th byte of B: a delimiter at odd may have been cleared.
Alike(B, odd, x, c) == c = B[x] \/ (x = odd /\ B[x] = " " /\ c = "nul")

\* Behind the first b bytes of B are those of the buffer; what the buffer has up to
\* from does not matter.
Kept(B, odd, d, w, b, from) ==
  /\ d \in Letters /\ w \in Letters /\ Len(d) \in Nat /\ Len(w) \in Nat /\ b \in Nat
  /\ from \in 0..Len(d) /\ b + Total(d, w) <= Len(B)
  /\ \A q \in (from + 1)..Total(d, w) : Alike(B, odd, b + q, Buf(d, w, q))

\* What is cut out of a sequence, behind a elements up to b of them.
Piece(r, s, a, b) ==
  /\ r \in Letters /\ Len(r) = b - a
  /\ \A i \in 1..(b - a) : r[i] = s[a + i]

LEMMA PieceIs ==
  ASSUME NEW s \in Letters, NEW a \in Nat, NEW b \in Nat, a <= b, b <= Len(s)
  PROVE  Piece(SubSeq(s, a + 1, b), s, a, b)
<1>0. Len(s) \in Nat
  BY LenProperties DEF Letters
<1>1. \A i \in (a + 1)..b : s[i] \in Char
  <2>1. \A i \in (a + 1)..b : i \in 1..Len(s)
    BY <1>0
  <2> QED BY <2>1, ElementOfSeq DEF Letters
<1>2. PICK c \in Int : c = a + 1
  OBVIOUS
<1>3. \A i \in c..b : s[i] \in Char
  BY <1>1, <1>2
<1>4. PICK r : r = SubSeq(s, c, b)
  OBVIOUS
<1>5. /\ r \in Letters /\ Len(r) = (IF c <= b THEN b - c + 1 ELSE 0)
      /\ \A i \in 1..(b - c + 1) : r[i] = s[c + i - 1]
  BY <1>3, <1>4, SubSeqProperties DEF Letters
<1>6. b - c + 1 = b - a
  BY <1>2
<1>7. Len(r) = b - a
  <2>1. CASE c <= b
    BY <1>5, <1>6, <2>1
  <2>2. CASE ~(c <= b)
    <3>1. b - a = 0
      BY <1>2, <2>2
    <3> QED BY <1>5, <2>2, <3>1
  <2> QED BY <2>1, <2>2
<1>8. ASSUME NEW i \in 1..(b - a) PROVE r[i] = s[a + i]
  <2>1. c + i - 1 = a + i /\ i \in 1..(b - c + 1)
    BY <1>2, <1>6
  <2>2. r[i] = s[c + i - 1]
    BY <1>5, <2>1
  <2> QED BY <2>1, <2>2
<1>9. Piece(r, s, a, b)
  BY <1>5, <1>7, <1>8 DEF Piece
<1> QED BY <1>2, <1>4, <1>9

\* One sequence behind the other.
Behind(h, g, s) ==
  /\ h \in Letters /\ Len(h) = Len(g) + Len(s)
  /\ \A i \in 1..(Len(g) + Len(s)) : h[i] = IF i <= Len(g) THEN g[i] ELSE s[i - Len(g)]

LEMMA BehindIs ==
  ASSUME NEW g \in Letters, NEW s \in Letters
  PROVE  Behind(g \o s, g, s)
<1>1. /\ g \o s \in Letters /\ Len(g \o s) = Len(g) + Len(s)
      /\ \A i \in 1..(Len(g) + Len(s)) : (g \o s)[i] = IF i <= Len(g) THEN g[i] ELSE s[i - Len(g)]
  BY ConcatProperties DEF Letters
<1>2. PICK h : h = g \o s
  OBVIOUS
<1> QED BY <1>1 DEF Behind

\* A sequence with one element cleared.
Wiped(d2, d, p) ==
  /\ d2 \in Letters /\ Len(d2) = Len(d)
  /\ \A i \in 1..Len(d) : d2[i] = IF i = p THEN "nul" ELSE d[i]

LEMMA WipedIs ==
  ASSUME NEW d \in Letters, NEW p \in 1..Len(d)
  PROVE  Wiped([d EXCEPT ![p] = "nul"], d, p)
<1>1. "nul" \in Char
  BY Apart
<1> QED BY <1>1, ExceptSeq DEF Letters, Wiped

\* Reading moves bytes into the buffer.
LEMMA ReadKeeps ==
  ASSUME NEW B, NEW odd, NEW d, NEW w, NEW b, NEW from, Kept(B, odd, d, w, b, from),
         NEW n \in 1..Len(w), NEW d2, NEW w2, NEW r,
         Piece(r, w, 0, n), Behind(d2, d, r), Piece(w2, w, n, Len(w))
  PROVE  Kept(B, odd, d2, w2, b, from) /\ Total(d2, w2) = Total(d, w) /\ Len(d2) = Len(d) + n
<1>0. d \in Letters /\ w \in Letters /\ Len(d) \in Nat /\ Len(w) \in Nat
  BY DEF Kept
<1>1. PICK l \in Nat, v \in Nat : l = Len(d) /\ v = Len(w)
  BY <1>0
<1>2. Len(r) = n /\ \A i \in 1..n : r[i] = w[i]
  <2>1. n - 0 = n /\ \A i \in 1..n : 0 + i = i
    BY <1>1
  <2> QED BY <2>1 DEF Piece
<1>3. w2 \in Letters /\ Len(w2) = v - n /\ \A i \in 1..(v - n) : w2[i] = w[n + i]
  BY <1>1 DEF Piece
<1>4. /\ d2 \in Letters /\ Len(d2) = l + n
      /\ \A i \in 1..(l + n) : d2[i] = IF i <= l THEN d[i] ELSE r[i - l]
  BY <1>1, <1>2 DEF Behind
<1>a. Total(d, w) = l + v
  BY <1>1 DEF Total
<1>5. Total(d2, w2) = l + v /\ Len(w2) \in Nat /\ Len(d2) \in Nat
  BY <1>1, <1>3, <1>4 DEF Total
<1>6. ASSUME NEW q \in 1..(l + v) PROVE Buf(d2, w2, q) = Buf(d, w, q)
  <2>2. CASE q <= l
    <3>1. q \in 1..(l + n) /\ q <= l + n
      BY <1>1, <2>2
    <3> QED BY <1>1, <1>4, <2>2, <3>1 DEF Buf
  <2>3. CASE q > l /\ q <= l + n
    <3>1. q \in 1..(l + n) /\ ~(q <= l) /\ q - l \in 1..n
      BY <1>1, <2>3
    <3>2. d2[q] = w[q - l]
      BY <1>2, <1>4, <3>1
    <3> QED BY <1>1, <1>4, <2>3, <3>1, <3>2 DEF Buf
  <2>4. CASE q > l + n
    <3>1. ~(q <= l) /\ ~(q <= l + n) /\ q - (l + n) \in 1..(v - n) /\ n + (q - (l + n)) = q - l
      BY <1>1, <2>4
    <3>2. w2[q - (l + n)] = w[q - l]
      BY <1>3, <3>1
    <3> QED BY <1>1, <1>4, <3>1, <3>2 DEF Buf
  <2> QED BY <2>2, <2>3, <2>4
<1>7. from \in 0..l /\ b \in Nat /\ b + (l + v) <= Len(B)
  BY <1>1, <1>a DEF Kept
<1>b. from \in 0..Len(d2) /\ b + Total(d2, w2) <= Len(B)
  BY <1>4, <1>5, <1>7
<1>8. ASSUME NEW q \in (from + 1)..Total(d2, w2)
      PROVE  Alike(B, odd, b + q, Buf(d2, w2, q))
  <2>1. q \in (from + 1)..Total(d, w) /\ q \in 1..(l + v)
    BY <1>5, <1>7, <1>a
  <2>2. Alike(B, odd, b + q, Buf(d, w, q))
    BY <2>1 DEF Kept
  <2> QED BY <1>6, <2>1, <2>2
<1> QED BY <1>1, <1>3, <1>4, <1>5, <1>7, <1>a, <1>b, <1>8 DEF Kept

\* bytestream_recycle drops bytes that do not matter any more.
LEMMA DropKeeps ==
  ASSUME NEW B, NEW odd, NEW d, NEW w, NEW b, NEW from, Kept(B, odd, d, w, b, from),
         NEW n \in 0..from, NEW d2, Piece(d2, d, n, Len(d))
  PROVE  Kept(B, odd, d2, w, b + n, from - n) /\ Len(d2) = Len(d) - n
<1>0. /\ d \in Letters /\ w \in Letters /\ Len(d) \in Nat /\ Len(w) \in Nat
      /\ from \in 0..Len(d) /\ b \in Nat
  BY DEF Kept
<1>1. PICK l \in Nat, v \in Nat : l = Len(d) /\ v = Len(w)
  BY <1>0
<1>2. from \in 0..l /\ n \in Nat /\ n <= l
  BY <1>0, <1>1
<1>3. d2 \in Letters /\ Len(d2) = l - n /\ \A i \in 1..(l - n) : d2[i] = d[n + i]
  BY <1>1 DEF Piece
<1>4. Total(d2, w) = l - n + v /\ Total(d, w) = l + v
  BY <1>1, <1>3 DEF Total
<1>5. Len(d2) \in Nat /\ b + n \in Nat /\ from - n \in 0..Len(d2)
  <2>1. l - n \in Nat /\ b + n \in Nat /\ from - n \in 0..(l - n)
    BY <1>0, <1>1, <1>2
  <2> QED BY <1>3, <2>1
<1>6. b + n + Total(d2, w) <= Len(B)
  <2>1. b + (l + v) <= Len(B)
    BY <1>4 DEF Kept
  <2>2. b + n + (l - n + v) = b + (l + v)
    BY <1>0, <1>1, <1>2
  <2> QED BY <1>4, <2>1, <2>2
<1>7. ASSUME NEW q \in (from - n + 1)..Total(d2, w)
      PROVE  Alike(B, odd, b + n + q, Buf(d2, w, q))
  <2>1. PICK m \in (from + 1)..(l + v) : m = q + n
    BY <1>0, <1>1, <1>2, <1>4
  <2>2. Alike(B, odd, b + m, Buf(d, w, m))
    BY <1>4, <2>1 DEF Kept
  <2>3. b + n + q = b + m /\ q \in Nat /\ q >= 1
    BY <1>0, <1>1, <1>2, <1>4, <2>1
  <2>5. Buf(d2, w, q) = Buf(d, w, m)
    <3>1. CASE q <= l - n
      <4>1. q \in 1..(l - n) /\ m <= l /\ n + q = m
        BY <1>1, <1>2, <2>1, <2>3, <3>1
      <4> QED BY <1>1, <1>3, <3>1, <4>1 DEF Buf
    <3>2. CASE ~(q <= l - n)
      <4>1. ~(m <= l) /\ q - (l - n) = m - l
        BY <1>1, <1>2, <2>1, <2>3, <3>2
      <4> QED BY <1>1, <1>3, <3>2, <4>1 DEF Buf
    <3> QED BY <3>1, <3>2
  <2> QED BY <2>2, <2>3, <2>5
<1> QED BY <1>0, <1>1, <1>3, <1>5, <1>6, <1>7 DEF Kept

\* Clearing a delimiter.
IsOdd(B, odd, x) == x = odd /\ B[x] = " "

LEMMA ClearKeeps ==
  ASSUME NEW B, NEW odd, NEW d, NEW w, NEW b, NEW from, Kept(B, odd, d, w, b, from),
         NEW p \in 1..Len(d), p <= from \/ IsOdd(B, odd, b + p),
         NEW d2, Wiped(d2, d, p)
  PROVE  Kept(B, odd, d2, w, b, from) /\ Len(d2) = Len(d)
<1>0. /\ w \in Letters /\ Len(d) \in Nat /\ Len(w) \in Nat /\ from \in 0..Len(d)
      /\ b \in Nat /\ b + Total(d, w) <= Len(B)
  BY DEF Kept
<1>1. PICK l \in Nat, v \in Nat : l = Len(d) /\ v = Len(w)
  BY <1>0
<1>2. d2 \in Letters /\ Len(d2) = l /\ \A i \in 1..l : d2[i] = IF i = p THEN "nul" ELSE d[i]
  BY <1>1 DEF Wiped
<1>3. Total(d2, w) = l + v /\ Total(d, w) = l + v
  BY <1>1, <1>2 DEF Total
<1>4. ASSUME NEW q \in (from + 1)..Total(d2, w)
      PROVE  Alike(B, odd, b + q, Buf(d2, w, q))
  <2>1. q \in (from + 1)..(l + v) /\ q \in Nat /\ q >= 1
    BY <1>0, <1>1, <1>3
  <2>2. Alike(B, odd, b + q, Buf(d, w, q))
    BY <1>3, <2>1 DEF Kept
  <2>3. CASE q = p
    <3>1. ~(p <= from) /\ q \in 1..l /\ q <= l
      BY <1>0, <1>1, <2>1, <2>3
    <3>2. IsOdd(B, odd, b + q)
      BY <2>3, <3>1
    <3>3. Buf(d2, w, q) = "nul"
      BY <1>2, <2>3, <3>1 DEF Buf
    <3> QED BY <3>2, <3>3 DEF Alike, IsOdd
  <2>4. CASE q # p
    <3>1. Buf(d2, w, q) = Buf(d, w, q)
      <4>1. CASE q <= l
        <5>1. q \in 1..l
          BY <1>1, <2>1, <4>1
        <5> QED BY <1>1, <1>2, <2>4, <4>1, <5>1 DEF Buf
      <4>2. CASE ~(q <= l)
        BY <1>1, <1>2, <4>2 DEF Buf
      <4> QED BY <4>1, <4>2
    <3> QED BY <2>2, <3>1
  <2> QED BY <2>3, <2>4
<1> QED BY <1>0, <1>1, <1>2, <1>3, <1>4 DEF Kept

\* Less of the buffer matters.
LEMMA LessKept ==
  ASSUME NEW B, NEW odd, NEW d, NEW w, NEW b, NEW from, Kept(B, odd, d, w, b, from),
         NEW p \in from..Len(d)
  PROVE  Kept(B, odd, d, w, b, p)
<1>1. from \in 0..Len(d) /\ Len(d) \in Nat /\ Len(w) \in Nat
  BY DEF Kept
<1>2. p \in 0..Len(d) /\ \A q \in (p + 1)..Total(d, w) : q \in (from + 1)..Total(d, w)
  BY <1>1 DEF Total
<1> QED BY <1>2 DEF Kept

\* Behind the delimiter nothing has been cleared.
LEMMA BehindKept ==
  ASSUME NEW B, NEW odd, NEW d, NEW w, NEW b, NEW from, Kept(B, odd, d, w, b, from),
         NEW odd2, odd \in Nat, b + from >= odd
  PROVE  Kept(B, odd2, d, w, b, from)
<1>1. from \in 0..Len(d) /\ Len(d) \in Nat /\ Len(w) \in Nat /\ b \in Nat
  BY DEF Kept
<1>2. ASSUME NEW q \in (from + 1)..Total(d, w) PROVE Alike(B, odd2, b + q, Buf(d, w, q))
  <2>1. b + q # odd
    BY <1>1 DEF Total
  <2>2. Alike(B, odd, b + q, Buf(d, w, q))
    BY DEF Kept
  <2> QED BY <2>1, <2>2 DEF Alike
<1> QED BY <1>2 DEF Kept

\* The byte at hand.
LEMMA ByteKept ==
  ASSUME NEW B, NEW odd, NEW d, NEW w, NEW b, NEW from, Kept(B, odd, d, w, b, from),
         NEW p, p \in Nat, p >= from, p < Len(d)
  PROVE  Alike(B, odd, b + (p + 1), d[p + 1])
<1>1. from \in 0..Len(d) /\ Len(d) \in Nat /\ Len(w) \in Nat /\ b \in Nat
  BY DEF Kept
<1>2. p + 1 \in (from + 1)..Total(d, w) /\ p + 1 <= Len(d)
  BY <1>1 DEF Total
<1>3. Alike(B, odd, b + (p + 1), Buf(d, w, p + 1))
  BY <1>2 DEF Kept
<1> QED BY <1>2, <1>3 DEF Buf

\* What the next call would read.
LEMMA UnreadKept ==
  ASSUME NEW B, NEW odd, NEW d, NEW w, NEW b, NEW from, Kept(B, odd, d, w, b, from),
         NEW r, Piece(r, d, from, Len(d)), NEW u, Behind(u, r, w), NEW c \in Range(u)
  PROVE  \E q \in (from + 1)..Total(d, w) : Alike(B, odd, b + q, c)
<1>0. /\ d \in Letters /\ w \in Letters /\ Len(d) \in Nat /\ Len(w) \in Nat
      /\ from \in 0..Len(d) /\ b \in Nat
  BY DEF Kept
<1>2. r \in Letters /\ Len(r) = Len(d) - from /\ \A i \in 1..(Len(d) - from) : r[i] = d[from + i]
  BY DEF Piece
<1>3. /\ u \in Letters /\ Len(u) = Len(r) + Len(w)
      /\ \A i \in 1..(Len(r) + Len(w)) : u[i] = IF i <= Len(r) THEN r[i] ELSE w[i - Len(r)]
  BY DEF Behind
<1>4. DOMAIN u = 1..(Len(r) + Len(w))
  BY <1>3, LenProperties DEF Letters
<1>5. PICK i \in 1..(Len(r) + Len(w)) : c = u[i]
  BY <1>4 DEF Range
<1>6. PICK q \in (from + 1)..Total(d, w) : q = from + i
  <2>1. Len(r) + Len(w) = Total(d, w) - from /\ Total(d, w) \in Nat
    BY <1>0, <1>2 DEF Total
  <2> QED BY <1>0, <2>1
<1>7. c = Buf(d, w, q)
  <2>1. CASE i <= Len(r)
    <3>1. i \in 1..(Len(d) - from) /\ q <= Len(d)
      BY <1>0, <1>2, <1>6, <2>1
    <3> QED BY <1>2, <1>3, <1>5, <1>6, <2>1, <3>1 DEF Buf
  <2>2. CASE ~(i <= Len(r))
    <3>1. ~(q <= Len(d)) /\ i - Len(r) = q - Len(d)
      BY <1>0, <1>2, <1>6, <2>2
    <3> QED BY <1>3, <1>5, <2>2, <3>1 DEF Buf
  <2> QED BY <2>1, <2>2
<1> QED BY <1>6, <1>7 DEF Kept

-----------------------------------------------------------------------------
(***************************************************************************)
(* The bytes of the token at hand, between o and e.                        *)
(***************************************************************************)
\* The text or the size it begins with.
Leading(t) == IF t.ts = "STRING_OUT" THEN t.size ELSE t.text

LeadingRight(t, s, l) ==
  /\ Leading(t) \in Letters /\ Len(Leading(t)) = l
  /\ \A i \in 1..l : s[i] = Leading(t)[i]

LEMMA LeadingFacts ==
  ASSUME NEW t \in Tokens, t.ts \in {"NUM_OUT", "TOK_OUT", "STRING_OUT"}
  PROVE  LeadingRight(t, Spelled(t), Lead(t))
<1>0. " " \in Char /\ ":" \in Char
  BY Apart
<1>1. CASE t.ts \in {"NUM_OUT", "TOK_OUT"}
  <2>1. PICK x : x = t.text
    OBVIOUS
  <2>2. x \in Letters
    <3>1. CASE t.ts = "NUM_OUT"
      <4>1. x \in Seq(Digit) /\ Digit \in SUBSET Char
        BY <2>1, <3>1, TokenKinds, Apart
      <4> QED BY <4>1, AsLetters
    <3>2. CASE t.ts = "TOK_OUT"
      <4>1. x \in Seq(Letter \cup Digit) /\ (Letter \cup Digit) \in SUBSET Char
        BY <2>1, <3>2, TokenKinds, Apart
      <4> QED BY <4>1, AsLetters
    <3> QED BY <1>1, <3>1, <3>2
  <2>3. PICK s : s = Append(x, " ")
    OBVIOUS
  <2>4. \A i \in 1..Len(x) : s[i] = x[i]
    BY <1>0, <2>2, <2>3, Appended
  <2>5. Spelled(t) = s /\ Lead(t) = Len(x) /\ Leading(t) = x
    BY <1>1, <2>1, <2>3 DEF Spelled, Lead, Leading
  <2> QED BY <2>2, <2>4, <2>5 DEF LeadingRight
<1>2. CASE t.ts = "STRING_OUT"
  <2>1. PICK x, y : x = t.text /\ y = t.size
    OBVIOUS
  <2>2. y \in Letters /\ x \in Letters
    <3>1. y \in Seq(Digit) /\ Digit \in SUBSET Char /\ x \in Seq(Char)
      BY <1>2, <2>1, TokenKinds, Apart
    <3> QED BY <3>1, AsLetters DEF Letters
  <2>3. PICK z : z = Append(x, " ")
    OBVIOUS
  <2>4. z \in Letters
    BY <1>0, <2>2, <2>3, Appended
  <2>5. PICK g : g = <<":">>
    OBVIOUS
  <2>6. g \in Letters /\ Len(g) = 1
    <3>1. PICK c \in Char : c = ":"
      BY <1>0
    <3>2. g = <<c>>
      BY <2>5, <3>1
    <3>3. <<c>> \in Seq(Char) /\ Len(<<c>>) = 1
      BY <3>1
    <3> QED BY <3>2, <3>3 DEF Letters
  <2>7. PICK h : h = y \o g
    OBVIOUS
  <2>8. Behind(h, y, g)
    BY <2>2, <2>6, <2>7, BehindIs
  <2>9. PICK s : s = h \o z
    OBVIOUS
  <2>10. Behind(s, h, z)
    BY <2>4, <2>8, <2>9, BehindIs DEF Behind
  <2>11. Len(y) \in Nat /\ Len(z) \in Nat
    BY <2>2, <2>4, LenProperties DEF Letters
  <2>12. PICK l \in Nat, v \in Nat : l = Len(y) /\ v = Len(z)
    BY <2>11
  <2>13. Len(h) = l + 1
    BY <2>6, <2>8, <2>12 DEF Behind
  <2>14. ASSUME NEW i \in 1..l PROVE s[i] = y[i]
    <3>1. i \in 1..(l + 1) /\ i \in 1..(l + 1 + v) /\ i <= l + 1 /\ i <= l
      BY <2>12
    <3>2. h[i] = y[i]
      BY <2>6, <2>8, <2>12, <3>1 DEF Behind
    <3>3. s[i] = h[i]
      BY <2>10, <2>12, <2>13, <3>1 DEF Behind
    <3> QED BY <3>2, <3>3
  <2>15. Spelled(t) = s
    <3>1. Spelled(t) = t.size \o <<":">> \o Append(t.text, " ")
      BY <1>2 DEF Spelled
    <3> QED BY <2>1, <2>3, <2>5, <2>7, <2>9, <3>1
  <2>16. Lead(t) = l /\ Leading(t) = y
    BY <1>2, <2>1, <2>12 DEF Lead, Leading
  <2> QED BY <2>2, <2>12, <2>14, <2>15, <2>16 DEF LeadingRight
<1> QED BY <1>1, <1>2

NumAt(B, o, e, l) ==
  /\ l >= 1 /\ e = o + l + 1 /\ B[e] = " " /\ \A i \in 1..l : B[o + i] \in Digit
WordAt(B, o, e, l) ==
  /\ l >= 1 /\ e = o + l + 1 /\ B[e] = " " /\ \A i \in 1..l : B[o + i] \in Letter \cup Digit
  /\ B[o + 1] \in Letter
StringAt(B, o, e, l, v) ==
  /\ l >= 1 /\ v \in Nat /\ e = o + l + 1 + v + 1 /\ B[e] = " " /\ B[o + l + 1] = ":"
  /\ \A i \in 1..l : B[o + i] \in Digit
TextAt(B, o, l, x) == \A i \in 1..Len(x) : B[o + l + 1 + i] = x[i]
BadAt(B, o, e, l) ==
  /\ l >= 1 /\ e = o + l + 1 /\ B[e] \in {"(", ")"} /\ \A i \in 1..l : B[o + i] \in Digit
ParenAt(B, o, e, c, n) ==
  /\ n \in {1, 2} /\ e = o + n /\ B[o + 1] = c /\ (n = 2 => B[e] = " ")
LeadAt(B, o, l, z) == z \in Letters /\ Len(z) = l /\ \A i \in 1..l : B[o + i] = z[i]

TokenAt(B, t, o, e, l) ==
  /\ o \in Nat /\ e \in Nat /\ l \in Nat /\ o < e /\ e <= Len(B)
  /\ t.ts \in {"NUM_OUT", "TOK_OUT", "STRING_OUT", "LIST_START", "LIST_END", "BAD"}
  /\ t.ts = "NUM_OUT" => NumAt(B, o, e, l)
  /\ t.ts = "TOK_OUT" => WordAt(B, o, e, l)
  /\ t.ts = "STRING_OUT" => /\ StringAt(B, o, e, l, Len(t.text)) /\ TextAt(B, o, l, t.text)
                            /\ t.text \in Letters /\ Number(t.size) = Len(t.text)
  /\ t.ts = "BAD" => BadAt(B, o, e, l)
  /\ t.ts = "LIST_START" => ParenAt(B, o, e, "(", Len(t.text))
  /\ t.ts = "LIST_END" => ParenAt(B, o, e, ")", Len(t.text))
  /\ t.ts \in {"NUM_OUT", "TOK_OUT", "STRING_OUT"} => LeadAt(B, o, l, Leading(t))

LEMMA LeadType ==
  ASSUME NEW t \in Tokens
  PROVE  Lead(t) \in Nat
<1>1. \A S : \A x \in Seq(S) : Len(x) \in Nat
  BY LenProperties
<1>2. CASE t.ts = "STRING_OUT"
  BY <1>1, <1>2, TokenKinds DEF Lead
<1>3. CASE t.ts = "BAD"
  <2>1. Len(t.text) \in Nat /\ Len(t.text) >= 2
    BY <1>1, <1>3, TokenKinds
  <2> QED BY <1>3, <2>1 DEF Lead
<1>4. CASE t.ts \in {"NUM_OUT", "TOK_OUT"}
  BY <1>1, <1>4, TokenKinds DEF Lead
<1>5. CASE t.ts \in {"LIST_START", "LIST_END"}
  <2>1. SpelledRight(t, Spelled(t), Lead(t))
    BY SpelledFacts
  <2>2. Spelled(t) = t.text /\ Lead(t) = Len(t.text)
    BY <1>5 DEF Spelled, Lead
  <2> QED BY <2>1, <2>2 DEF SpelledRight
<1> QED BY <1>2, <1>3, <1>4, <1>5, TokenKinds

LEMMA TokenAtIs ==
  ASSUME NEW T, NEW A, NEW B, Starts(T, A, B), NEW at \in 0..(Len(T) - 1)
  PROVE  TokenAt(B, T[at + 1], A[at + 1], A[at + 2], Lead(T[at + 1]))
<1>0. PICK j \in 1..Len(T) : j = at + 1 /\ j + 1 = at + 2
  <2>1. Len(T) \in Nat
    BY DEF Starts
  <2> QED BY <2>1
<1>1. T[j] \in Tokens /\ StartsAt(T, A, B, j)
  BY DEF Starts
<1>a. PICK t, s : t = T[j] /\ s = Spelled(t)
  OBVIOUS
<1>b. A[j] \in Nat /\ A[j + 1] \in Nat /\ Lead(t) \in Nat
  BY <1>1, <1>a, LeadType DEF StartsAt
<1>2. PICK o \in Nat, e \in Nat, l \in Nat : o = A[j] /\ e = A[j + 1] /\ l = Lead(t)
  BY <1>b
<1>3. /\ e <= Len(B) /\ e = o + Len(s)
      /\ \A i \in 1..Len(s) : B[o + i] = s[i]
  BY <1>1, <1>2, <1>a DEF StartsAt
<1>4. SpelledRight(t, s, l)
  BY <1>1, <1>2, <1>a, SpelledFacts
<1>5. Len(s) \in Nat /\ Len(s) >= 1
  BY <1>4 DEF SpelledRight
<1>6. PICK n \in Nat : n = Len(s)
  BY <1>5
<1>7. o < e /\ e = o + n
  BY <1>3, <1>5, <1>6
<1>8. \A i \in 1..n : B[o + i] = s[i]
  BY <1>3, <1>6
<1>9. B[e] = s[n]
  <2>1. n \in 1..n
    BY <1>5, <1>6
  <2> QED BY <1>7, <1>8, <2>1
<1>10. ASSUME NEW S, StartsWith(s, l, S), l <= n
       PROVE  l >= 1 /\ \A i \in 1..l : B[o + i] \in S
  <2>1. \A i \in 1..l : i \in 1..n
    BY <1>4, <1>6, <1>10
  <2>2. \A i \in 1..l : B[o + i] = s[i]
    BY <1>8, <2>1
  <2> QED BY <1>10, <2>2 DEF StartsWith
<1>11. t.ts = "NUM_OUT" => NumAt(B, o, e, l)
  <2> SUFFICES ASSUME t.ts = "NUM_OUT" PROVE NumAt(B, o, e, l)
    OBVIOUS
  <2>1. StartsWith(s, l, Digit) /\ n = l + 1 /\ s[l + 1] = " "
    BY <1>4, <1>6 DEF SpelledRight, NumSpelled
  <2>a. n = l + 1
    BY <2>1
  <2>b. l <= n /\ e = o + l + 1
    BY <1>7, <2>a
  <2>2. l <= n /\ e = o + l + 1 /\ B[e] = " "
    BY <1>9, <2>1, <2>a, <2>b
  <2>3. l >= 1 /\ \A i \in 1..l : B[o + i] \in Digit
    BY <1>10, <2>1, <2>2
  <2> QED BY <2>2, <2>3 DEF NumAt
<1>12. t.ts = "TOK_OUT" => WordAt(B, o, e, l)
  <2> SUFFICES ASSUME t.ts = "TOK_OUT" PROVE WordAt(B, o, e, l)
    OBVIOUS
  <2>1. /\ StartsWith(s, l, Letter \cup Digit) /\ n = l + 1 /\ s[l + 1] = " "
        /\ s[1] \in Letter
    BY <1>4, <1>6 DEF SpelledRight, WordSpelled
  <2>a. n = l + 1
    BY <2>1
  <2>b. l <= n /\ e = o + l + 1
    BY <1>7, <2>a
  <2>2. l <= n /\ e = o + l + 1 /\ B[e] = " "
    BY <1>9, <2>1, <2>a, <2>b
  <2>3. l >= 1 /\ \A i \in 1..l : B[o + i] \in Letter \cup Digit
    BY <1>10, <2>1, <2>2
  <2>4. B[o + 1] = s[1]
    <3>1. 1 \in 1..n
      BY <2>a
    <3> QED BY <1>8, <3>1
  <2> QED BY <2>1, <2>2, <2>3, <2>4 DEF WordAt
<1>13. t.ts = "BAD" => BadAt(B, o, e, l)
  <2> SUFFICES ASSUME t.ts = "BAD" PROVE BadAt(B, o, e, l)
    OBVIOUS
  <2>1. StartsWith(s, l, Digit) /\ n = l + 1 /\ s[l + 1] \in {"(", ")"}
    BY <1>4, <1>6 DEF SpelledRight, BadSpelled
  <2>a. n = l + 1
    BY <2>1
  <2>b. l <= n /\ e = o + l + 1
    BY <1>7, <2>a
  <2>2. l <= n /\ e = o + l + 1 /\ B[e] = s[l + 1]
    BY <1>9, <2>1, <2>a, <2>b
  <2>3. l >= 1 /\ \A i \in 1..l : B[o + i] \in Digit
    BY <1>10, <2>1, <2>2
  <2> QED BY <2>1, <2>2, <2>3 DEF BadAt
<1>14. t.ts = "STRING_OUT" => StringAt(B, o, e, l, Len(t.text)) /\ TextAt(B, o, l, t.text)
  <2> SUFFICES ASSUME t.ts = "STRING_OUT"
               PROVE  StringAt(B, o, e, l, Len(t.text)) /\ TextAt(B, o, l, t.text)
    OBVIOUS
  <2>c. PICK x : x = t.text
    OBVIOUS
  <2>d. StringSpelled(x, s, l)
    BY <1>4, <2>c DEF SpelledRight
  <2>e. Len(x) \in Nat
    BY <2>d DEF StringSpelled
  <2>1. PICK v \in Nat : x = t.text /\ v = Len(x)
    BY <2>c, <2>e
  <2>2. /\ StartsWith(s, l, Digit) /\ s[l + 1] = ":" /\ n = l + 1 + v + 1 /\ s[n] = " "
        /\ \A i \in 1..v : s[l + 1 + i] = x[i]
    BY <1>6, <2>1, <2>d DEF StringSpelled
  <2>a. n = l + 1 + v + 1
    BY <2>2
  <2>b. l <= n /\ e = o + l + 1 + v + 1
    BY <1>7, <2>a
  <2>3. l <= n /\ e = o + l + 1 + v + 1 /\ B[e] = " "
    BY <1>9, <2>2, <2>b
  <2>4. l >= 1 /\ \A i \in 1..l : B[o + i] \in Digit
    BY <1>10, <2>2, <2>3
  <2>5. B[o + l + 1] = ":"
    <3>1. l + 1 \in 1..n /\ o + (l + 1) = o + l + 1
      BY <2>a
    <3>2. B[o + (l + 1)] = s[l + 1]
      BY <1>8, <3>1
    <3> QED BY <2>2, <3>1, <3>2
  <2>6. ASSUME NEW i \in 1..v PROVE B[o + l + 1 + i] = x[i]
    <3>1. PICK k \in 1..n : k = l + 1 + i /\ o + k = o + l + 1 + i
      BY <2>a
    <3>2. B[o + k] = s[k]
      BY <1>8
    <3>3. s[k] = x[i]
      BY <2>2, <3>1
    <3> QED BY <3>1, <3>2, <3>3
  <2>7. StringAt(B, o, e, l, v)
    BY <2>3, <2>4, <2>5 DEF StringAt
  <2>8. TextAt(B, o, l, x)
    BY <2>1, <2>6 DEF TextAt
  <2> QED BY <2>1, <2>7, <2>8
<1>15. ASSUME NEW c, NEW m, ParenSpelled(t.text, s, c), m = Len(t.text)
       PROVE  ParenAt(B, o, e, c, m)
  <2>1. m = n /\ m \in {1, 2} /\ s[1] = c /\ (n = 2 => s[2] = " ")
    BY <1>6, <1>15 DEF ParenSpelled
  <2>2. B[o + 1] = s[1] /\ e = o + m
    <3>1. 1 \in 1..n
      BY <1>5, <1>6
    <3> QED BY <1>7, <1>8, <2>1, <3>1
  <2>3. m = 2 => B[e] = " "
    BY <1>9, <2>1
  <2> QED BY <2>1, <2>2, <2>3 DEF ParenAt
<1>16. /\ t.ts = "LIST_START" => ParenAt(B, o, e, "(", Len(t.text))
       /\ t.ts = "LIST_END" => ParenAt(B, o, e, ")", Len(t.text))
  BY <1>4, <1>15 DEF SpelledRight
<1>17. t.ts \in {"NUM_OUT", "TOK_OUT", "STRING_OUT"} => LeadAt(B, o, l, Leading(t))
  <2> SUFFICES ASSUME t.ts \in {"NUM_OUT", "TOK_OUT", "STRING_OUT"}
               PROVE  LeadAt(B, o, l, Leading(t))
    OBVIOUS
  <2>1. LeadingRight(t, s, l)
    BY <1>1, <1>2, <1>a, LeadingFacts
  <2>2. l <= n
    <3>1. CASE t.ts = "NUM_OUT"
      <4>1. NumSpelled(s, l)
        BY <1>4, <3>1 DEF SpelledRight
      <4>2. n = l + 1
        BY <1>6, <4>1 DEF NumSpelled
      <4> QED BY <4>2
    <3>2. CASE t.ts = "TOK_OUT"
      <4>1. WordSpelled(s, l)
        BY <1>4, <3>2 DEF SpelledRight
      <4>2. n = l + 1
        BY <1>6, <4>1 DEF WordSpelled
      <4> QED BY <4>2
    <3>3. CASE t.ts = "STRING_OUT"
      <4>1. StringSpelled(t.text, s, l)
        BY <1>4, <3>3 DEF SpelledRight
      <4>2. n = l + 1 + Len(t.text) + 1 /\ Len(t.text) \in Nat
        BY <1>6, <4>1 DEF StringSpelled
      <4>3. PICK v \in Nat : v = Len(t.text) /\ n = l + 1 + v + 1
        BY <4>2
      <4>4. n = l + 1 + v + 1
        BY <4>3
      <4> QED BY <4>4
    <3> QED BY <3>1, <3>2, <3>3
  <2>3. \A i \in 1..l : B[o + i] = s[i]
    <3>1. \A i \in 1..l : i \in 1..n
      BY <2>2
    <3> QED BY <1>8, <3>1
  <2>4. PICK z : z = Leading(t)
    OBVIOUS
  <2> QED BY <2>1, <2>3, <2>4 DEF LeadingRight, LeadAt
<1>18. t.ts \in {"NUM_OUT", "TOK_OUT", "STRING_OUT", "LIST_START", "LIST_END", "BAD"}
  BY <1>1, <1>a, TokenKinds
<1>c. t.ts = "STRING_OUT" => t.text \in Letters /\ Number(t.size) = Len(t.text)
  BY <1>1, <1>a, TokenKinds DEF Letters
<1>19. TokenAt(B, t, o, e, l)
  BY <1>c, <1>3, <1>4, <1>7, <1>11, <1>12, <1>13, <1>14, <1>16, <1>17, <1>18 DEF TokenAt
<1> QED BY <1>0, <1>2, <1>19, <1>a

-----------------------------------------------------------------------------
(***************************************************************************)
(* Where the tokenizer is.                                                 *)
(***************************************************************************)
St == [ts : TokenizerStates, i : Nat, start : Nat, end : Nat, back : BOOLEAN]
Lists == {"LIST_START", "LIST_END"}
Closed == {"NUM_OUT", "TOK_OUT", "STRING_OUT"}

\* The delimiter of the token at hand may have been cleared already.
OddOf(t, e) == IF t.ts \in Closed THEN e ELSE 0

InNum(t, o, l, b, p, s) ==
  /\ t.ts \in {"NUM_OUT", "STRING_OUT", "BAD"} /\ s.ts = "NUM_IN"
  /\ b + s.start = o /\ b + p > o /\ b + p <= o + l
InTok(t, o, l, b, p, s) ==
  /\ t.ts = "TOK_OUT" /\ s.ts = "TOK_IN"
  /\ b + s.start = o /\ b + p > o /\ b + p <= o + l
InString(t, o, l, b, p, s) ==
  /\ t.ts = "STRING_OUT" /\ s.ts = "STRING_IN" /\ s.i = Len(t.text)
  /\ b + s.start = o + l + 1 /\ p <= s.start + s.i
AtCheck(t, o, l, b, p, s) ==
  /\ t.ts = "STRING_OUT" /\ s.ts = "STRING_CHECK" /\ s.end = p
  /\ b + s.start = o + l + 1 /\ p = s.start + Len(t.text)
Inside(t, o, l, b, p, s) ==
  InNum(t, o, l, b, p, s) \/ InTok(t, o, l, b, p, s)
    \/ InString(t, o, l, b, p, s) \/ AtCheck(t, o, l, b, p, s)

\* A token has been read, and what is taken from it is right.
HaveNum(t, o, e, b, p, s) ==
  t.ts = "NUM_OUT" /\ s.i = Number(t.text) /\ b + s.start = o /\ b + p = e
HaveTok(t, o, e, b, d, p, s) ==
  t.ts = "TOK_OUT" /\ SubSeq(d, s.start + 1, s.end) = t.text /\ b + s.start = o /\ b + p = e
HaveString(t, e, b, d, p, s) ==
  t.ts = "STRING_OUT" /\ SubSeq(d, s.start + 1, s.end) = t.text /\ b + p = e
HaveParen(B, t, o, e, b, p, s) ==
  /\ t.ts \in Lists /\ b + s.start = o
  /\ \/ Len(t.text) = 1 /\ b + p = e
     \/ Len(t.text) = 2 /\ b + p + 1 = e /\ B[e] = " "
Have(B, t, o, e, b, d, p, s) ==
  /\ s.ts = t.ts
  /\ HaveNum(t, o, e, b, p, s) \/ HaveTok(t, o, e, b, d, p, s)
       \/ HaveString(t, e, b, d, p, s) \/ HaveParen(B, t, o, e, b, p, s)

\* Reading the token at hand goes on, or it is done.
Places(d, p, s) == s \in St /\ p \in 0..Len(d) /\ s.start <= p /\ s.back = FALSE
Goes(B, t, o, e, l, b, d, w, p, s, ph) ==
  /\ Places(d, p, s) /\ Kept(B, OddOf(t, e), d, w, b, s.start)
  /\ \/ ph = "read" /\ Inside(t, o, l, b, p, s)
     \/ ph = "value" /\ Have(B, t, o, e, b, d, p, s)

\* A text that is in the buffer.
LEMMA TextIs ==
  ASSUME NEW z \in Letters, NEW d \in Letters, NEW f \in Nat, NEW g \in Nat, f <= g,
         g <= Len(d), Len(z) = g - f, \A i \in 1..(g - f) : d[f + i] = z[i]
  PROVE  SubSeq(d, f + 1, g) = z
<1>1. PICK r : r = SubSeq(d, f + 1, g)
  OBVIOUS
<1>2. Piece(r, d, f, g)
  BY <1>1, PieceIs
<1>3. r \in Letters /\ Len(r) = Len(z) /\ \A i \in 1..Len(r) : r[i] = z[i]
  BY <1>2 DEF Piece
<1>4. r = z
  BY <1>3, SeqEqual DEF Letters
<1> QED BY <1>1, <1>4

TextThere(B, odd, b, f, g, z) ==
  Len(z) = g - f /\ \A i \in 1..(g - f) : B[b + f + i] = z[i] /\ b + f + i # odd

LEMMA KeptText ==
  ASSUME NEW B, NEW odd, NEW d, NEW w, NEW b, NEW f, Kept(B, odd, d, w, b, f),
         NEW g, g \in f..Len(d), NEW z \in Letters, TextThere(B, odd, b, f, g, z)
  PROVE  SubSeq(d, f + 1, g) = z
<1>1. d \in Letters /\ f \in 0..Len(d) /\ Len(d) \in Nat /\ b \in Nat /\ Len(w) \in Nat
  BY DEF Kept
<1>2. f \in Nat /\ g \in Nat /\ f <= g /\ g <= Len(d)
  BY <1>1
<1>3. ASSUME NEW i \in 1..(g - f) PROVE d[f + i] = z[i]
  <2>1. PICK q \in (f + 1)..Total(d, w) : q = f + i /\ q <= Len(d) /\ b + q = b + f + i
    BY <1>1, <1>2 DEF Total
  <2>2. Alike(B, odd, b + q, Buf(d, w, q))
    BY DEF Kept
  <2>3. Buf(d, w, q) = d[f + i]
    BY <2>1 DEF Buf
  <2>4. B[b + q] = z[i] /\ b + q # odd
    BY <2>1 DEF TextThere
  <2> QED BY <2>2, <2>3, <2>4 DEF Alike
<1>4. Len(z) = g - f
  BY DEF TextThere
<1> QED BY <1>1, <1>2, <1>3, <1>4, TextIs

\* The byte at hand, where nothing has been cleared, and where it may have been.
LEMMA ByteIs ==
  ASSUME NEW B, NEW odd, NEW b, NEW from, Kept(B, odd, data, wire, b, from),
         pos \in Nat, pos >= from, pos < Len(data)
  PROVE  /\ b + pos + 1 # odd => Byte = B[b + pos + 1]
         /\ B[b + pos + 1] = " " => Byte \in Space
<1>1. b \in Nat
  BY DEF Kept
<1>2. PICK x \in Nat : x = b + pos + 1 /\ x = b + (pos + 1)
  BY <1>1
<1>3. Alike(B, odd, b + (pos + 1), data[pos + 1])
  BY ByteKept
<1>4. Alike(B, odd, x, Byte)
  BY <1>2, <1>3 DEF Byte
<1> QED BY <1>2, <1>4, Apart DEF Alike

-----------------------------------------------------------------------------
(***************************************************************************)
(* What parse_one_value makes of a byte.                                   *)
(***************************************************************************)
LEMMA ReadsDigit ==
  ASSUME Legal, Tokenized, Byte \in Digit, st.ts # "STRING_IN"
  PROVE  /\ st.ts \in Out => Skip([st EXCEPT !.ts = "NUM_IN", !.start = pos])
         /\ st.ts \in {"NUM_IN", "TOK_IN"} => Skip(st)
         /\ st.ts \in Out \cup {"NUM_IN", "TOK_IN"}
<1>1. /\ Byte \notin Space /\ Byte \notin Letter /\ Byte # "(" /\ Byte # ")" /\ Byte # ":"
  BY Apart
<1>2. InToken
  BY <1>1 DEF Tokenized, StringBytes, EndOfToken, Parenthesis, Between, LengthOfString
<1>3. st.ts \in Out \cup {"NUM_IN", "TOK_IN"}
  BY <1>1 DEF Legal
<1> QED BY <1>1, <1>2, <1>3 DEF InToken, Out

LEMMA ReadsLetter ==
  ASSUME Legal, Tokenized, Byte \in Letter, st.ts # "STRING_IN"
  PROVE  /\ st.ts \in Out => Skip([st EXCEPT !.ts = "TOK_IN", !.start = pos])
         /\ st.ts = "TOK_IN" => Skip(st)
         /\ st.ts \in Out \cup {"TOK_IN"}
<1>1. /\ Byte \notin Space /\ Byte \notin Digit /\ Byte # "(" /\ Byte # ")" /\ Byte # ":"
  BY Apart
<1>2. InToken
  BY <1>1 DEF Tokenized, StringBytes, EndOfToken, Parenthesis, Between, LengthOfString
<1>3. st.ts \in Out \cup {"TOK_IN"}
  BY <1>1 DEF Legal
<1> QED BY <1>1, <1>2, <1>3 DEF InToken, Out

LEMMA ReadsParen ==
  ASSUME Legal, Tokenized, Byte \in {"(", ")"}, st.ts # "STRING_IN"
  PROVE  /\ st.ts \in Out
         /\ Token([st EXCEPT !.ts = IF Byte = "(" THEN "LIST_START" ELSE "LIST_END",
                             !.start = pos])
         /\ UNCHANGED data
<1>1. Byte \notin Space /\ Byte \notin Digit /\ Byte \notin Letter /\ Byte # ":"
  BY Apart
<1>2. Parenthesis
  BY <1>1 DEF Tokenized, StringBytes, EndOfToken, InToken, Between, LengthOfString
<1> QED BY <1>2 DEF Parenthesis

LEMMA ReadsColon ==
  ASSUME Legal, Tokenized, Byte = ":", st.ts # "STRING_IN"
  PROVE  LengthOfString
<1>1. /\ Byte \notin Space /\ Byte \notin Digit /\ Byte \notin Letter /\ Byte # "(" /\ Byte # ")"
  BY Apart
<1> QED BY <1>1 DEF Tokenized, StringBytes, EndOfToken, InToken, Between, Parenthesis

LEMMA ReadsSpace ==
  ASSUME Legal, Tokenized, Byte \in Space, st.ts # "STRING_IN"
  PROVE  /\ st.ts = "TOK_IN" => /\ Token([st EXCEPT !.ts = "TOK_OUT", !.end = pos])
                                /\ data' = Cleared
         /\ st.ts = "NUM_IN" =>
              /\ Token([st EXCEPT !.ts = "NUM_OUT", !.end = pos,
                                  !.i = Number(BetweenBytes(st.start, pos))])
              /\ data' = Cleared
         /\ st.ts = "STRING_CHECK" => Token([st EXCEPT !.ts = "STRING_OUT"]) /\ data' = Cleared
         /\ st.ts \in Out => Skip(st)
         /\ st.ts \in Lists => Skip([st EXCEPT !.ts = "START"])
<1>1. /\ Byte \notin Letter /\ Byte \notin Digit /\ Byte # "(" /\ Byte # ")" /\ Byte # ":"
  BY Apart
<1>2. EndOfToken \/ Between
  BY <1>1 DEF Tokenized, StringBytes, InToken, Parenthesis, LengthOfString
<1> QED BY <1>1, <1>2 DEF EndOfToken, Between, Out, Lists

\* A delimiter is cleared, whose place is known.
LEMMA Clears ==
  ASSUME NEW B, NEW odd, NEW b, NEW from, Kept(B, odd, data, wire, b, from),
         pos \in Nat, pos < Len(data), pos + 1 <= from \/ IsOdd(B, odd, b + (pos + 1)),
         data' = Cleared
  PROVE  /\ Kept(B, odd, data', wire, b, from) /\ Len(data') = Len(data) /\ data' \in Letters
         /\ \A i \in 1..pos : data'[i] = data[i]
<1>1. data \in Letters /\ Len(data) \in Nat
  BY DEF Kept
<1>2. PICK p \in 1..Len(data) : p = pos + 1
  BY <1>1
<1>3. Wiped(data', data, p)
  BY <1>1, <1>2, WipedIs DEF Cleared
<1>4. p <= from \/ IsOdd(B, odd, b + p)
  BY <1>2
<1>5. Kept(B, odd, data', wire, b, from) /\ Len(data') = Len(data)
  BY <1>3, <1>4, ClearKeeps
<1>6. ASSUME NEW i \in 1..pos PROVE data'[i] = data[i]
  <2>1. i \in 1..Len(data) /\ i # p
    BY <1>1, <1>2
  <2> QED BY <1>3, <2>1 DEF Wiped
<1>7. data' \in Letters
  BY <1>3 DEF Wiped
<1> QED BY <1>5, <1>6, <1>7

\* Reading goes on within the token, its bytes so far remaining.
Here(B, t, o, e, l, b) ==
  /\ TokenAt(B, t, o, e, l) /\ Places(data, pos, st) /\ pos < Len(data) /\ phase = "read"
  /\ Kept(B, OddOf(t, e), data, wire, b, st.start)

LEMMA HereFacts ==
  ASSUME NEW B, NEW t, NEW o \in Nat, NEW e \in Nat, NEW l \in Nat, NEW b \in Nat,
         Here(B, t, o, e, l, b)
  PROVE  /\ pos \in Nat
         /\ Len(data) \in Nat /\ pos < Len(data) /\ st.start \in Nat /\ st.start <= pos
         /\ OddOf(t, e) \in Nat /\ data \in Letters /\ st \in St
<1>2. Len(data) \in Nat /\ data \in Letters
  BY DEF Here, Kept
<1>3. pos \in Nat /\ pos < Len(data) /\ st.start <= pos /\ st \in St
  BY <1>2 DEF Here, Places
<1>4. st.start \in Nat
  BY <1>3 DEF St
<1> QED BY <1>2, <1>3, <1>4 DEF OddOf

LEMMA SkipGoes ==
  ASSUME NEW B, NEW t, NEW o \in Nat, NEW e \in Nat, NEW l \in Nat, NEW b \in Nat,
         Here(B, t, o, e, l, b),
         Skip(st), Inside(t, o, l, b, pos + 1, st)
  PROVE  Goes(B, t, o, e, l, b, data', wire, pos', st', phase')
<1>1. st' = st /\ pos' = pos + 1 /\ data' = data /\ phase' = "read"
  BY DEF Skip, Here
<1>2. Places(data, pos + 1, st)
  <2>1. pos \in Nat /\ Len(data) \in Nat /\ pos < Len(data) /\ st.start \in Nat /\ st.start <= pos
    BY HereFacts
  <2>2. pos + 1 \in 0..Len(data) /\ st.start <= pos + 1
    BY <2>1
  <2> QED BY <2>2 DEF Here, Places
<1>3. Kept(B, OddOf(t, e), data, wire, b, st.start)
  BY DEF Here
<1> QED BY <1>1, <1>2, <1>3 DEF Goes

\* Where the token at hand is cleared at its end.
LEMMA EndClears ==
  ASSUME NEW B, NEW t, NEW o \in Nat, NEW e \in Nat, NEW l \in Nat, NEW b \in Nat,
         Here(B, t, o, e, l, b),
         t.ts \in Closed, IsOdd(B, e, b + (pos + 1)), data' = Cleared
  PROVE  /\ Kept(B, OddOf(t, e), data', wire, b, st.start)
         /\ Len(data') = Len(data) /\ data' \in Letters
<1>1. OddOf(t, e) = e
  BY DEF OddOf
<1>2. Kept(B, OddOf(t, e), data, wire, b, st.start)
  BY DEF Here
<1>3. pos \in Nat /\ pos < Len(data)
  BY HereFacts
<1> QED BY <1>1, <1>2, <1>3, Clears

LEMMA NumStep ==
  ASSUME NEW B, NEW t, NEW o \in Nat, NEW e \in Nat, NEW l \in Nat, NEW b \in Nat,
         Here(B, t, o, e, l, b),
         InNum(t, o, l, b, pos, st), Legal, Tokenized
  PROVE  Goes(B, t, o, e, l, b, data', wire, pos', st', phase')
<1>0. /\ pos \in Nat
      /\ Len(data) \in Nat /\ pos < Len(data) /\ st.start \in Nat /\ st.start <= pos
      /\ OddOf(t, e) \in Nat /\ data \in Letters /\ st \in St
  BY HereFacts
<1>1. /\ t.ts \in {"NUM_OUT", "STRING_OUT", "BAD"} /\ st.ts = "NUM_IN" /\ st.ts # "STRING_IN"
      /\ b + st.start = o /\ b + pos > o /\ b + pos <= o + l
  BY DEF InNum
<1>2. Kept(B, OddOf(t, e), data, wire, b, st.start)
  BY DEF Here
<1>3. PICK x \in Nat : x = b + pos + 1
  BY <1>0
<1>4. /\ x # OddOf(t, e) => Byte = B[x]
      /\ B[x] = " " => Byte \in Space
  BY <1>0, <1>2, <1>3, ByteIs
<1>5. CASE x <= o + l
  <2>1. /\ l >= 1 /\ \A i \in 1..l : B[o + i] \in Digit
        /\ t.ts \in Closed => e > o + l
    <3>1. CASE t.ts = "NUM_OUT"
      <4>1. NumAt(B, o, e, l)
        BY <3>1 DEF Here, TokenAt
      <4>2. l >= 1 /\ e = o + l + 1 /\ \A i \in 1..l : B[o + i] \in Digit
        BY <4>1 DEF NumAt
      <4>3. e = o + l + 1
        BY <4>2
      <4>4. e > o + l
        BY <4>3
      <4> QED BY <4>2, <4>4
    <3>2. CASE t.ts = "BAD"
      <4>1. BadAt(B, o, e, l)
        BY <3>2 DEF Here, TokenAt
      <4>2. t.ts \notin Closed
        BY <3>2 DEF Closed
      <4> QED BY <4>1, <4>2 DEF BadAt
    <3>3. CASE t.ts = "STRING_OUT"
      <4>1. StringAt(B, o, e, l, Len(t.text))
        BY <3>3 DEF Here, TokenAt
      <4>2. PICK v \in Nat : v = Len(t.text) /\ e = o + l + 1 + v + 1
        BY <4>1 DEF StringAt
      <4>a. e = o + l + 1 + v + 1
        BY <4>2
      <4>3. e > o + l
        BY <4>a
      <4> QED BY <4>1, <4>3 DEF StringAt
    <3> QED BY <1>1, <3>1, <3>2, <3>3
  <2>2. PICK i \in 1..l : o + i = x
    BY <1>0, <1>1, <1>3, <1>5
  <2>3. x # OddOf(t, e)
    <3>1. x > 0
      BY <1>0, <1>3
    <3> QED BY <1>0, <1>5, <2>1, <3>1 DEF OddOf
  <2>4. Byte \in Digit
    BY <1>4, <2>1, <2>2, <2>3
  <2>5. Skip(st)
    BY <1>1, <2>4, ReadsDigit
  <2>6. b + (pos + 1) > o /\ b + (pos + 1) <= o + l
    BY <1>0, <1>1, <1>3, <1>5
  <2>7. Inside(t, o, l, b, pos + 1, st)
    BY <1>1, <2>6 DEF Inside, InNum
  <2> QED BY <2>5, <2>7, SkipGoes
<1>6. CASE ~(x <= o + l)
  <2>0. x = o + l + 1 /\ b + pos = o + l
    BY <1>0, <1>1, <1>3, <1>6
  <2>1. ASSUME t.ts \in {"NUM_OUT", "STRING_OUT"}
        PROVE  SubSeq(data, st.start + 1, pos) = Leading(t)
    <3>1. LeadAt(B, o, l, Leading(t))
      BY <2>1 DEF Here, TokenAt
    <3>2. PICK z : z = Leading(t)
      OBVIOUS
    <3>3. z \in Letters /\ Len(z) = l /\ \A i \in 1..l : B[o + i] = z[i]
      BY <3>1, <3>2 DEF LeadAt
    <3>4. pos \in st.start..Len(data) /\ pos - st.start = l
      BY <1>0, <1>1, <2>0
    <3>5. OddOf(t, e) > o + l
      <4>1. t.ts \in Closed
        BY <2>1 DEF Closed
      <4>2. CASE t.ts = "NUM_OUT"
        <5>1. NumAt(B, o, e, l)
          BY <4>2 DEF Here, TokenAt
        <5>2. e = o + l + 1
          BY <5>1 DEF NumAt
        <5>3. e > o + l
          BY <5>2
        <5> QED BY <4>1, <5>3 DEF OddOf
      <4>3. CASE t.ts = "STRING_OUT"
        <5>1. StringAt(B, o, e, l, Len(t.text))
          BY <4>3 DEF Here, TokenAt
        <5>2. PICK v \in Nat : v = Len(t.text) /\ e = o + l + 1 + v + 1
          BY <5>1 DEF StringAt
        <5>a. e = o + l + 1 + v + 1
          BY <5>2
        <5>3. e > o + l
          BY <5>a
        <5> QED BY <4>1, <5>3 DEF OddOf
      <4> QED BY <2>1, <4>2, <4>3
    <3>6. \A i \in 1..(pos - st.start) : /\ B[b + st.start + i] = z[i]
                                         /\ b + st.start + i # OddOf(t, e)
      <4>1. \A i \in 1..l : o + i # OddOf(t, e)
        BY <1>0, <3>5
      <4> QED BY <1>1, <3>3, <3>4, <4>1
    <3>7. Len(z) = pos - st.start
      BY <3>3, <3>4
    <3>8. SubSeq(data, st.start + 1, pos) = z
      <4>1. PICK f, g, odd : f = st.start /\ g = pos /\ odd = OddOf(t, e)
        OBVIOUS
      <4>2. Kept(B, odd, data, wire, b, f) /\ g \in f..Len(data) /\ z \in Letters
        BY <1>2, <3>3, <3>4, <4>1
      <4>3. TextThere(B, odd, b, f, g, z)
        BY <3>6, <3>7, <4>1 DEF TextThere
      <4>4. SubSeq(data, f + 1, g) = z
        BY <4>2, <4>3, KeptText
      <4> QED BY <4>1, <4>4
    <3> QED BY <3>2, <3>8
  <2>2. CASE t.ts = "NUM_OUT"
    <3>1. e = o + l + 1 /\ B[e] = " "
      <4>1. NumAt(B, o, e, l)
        BY <2>2 DEF Here, TokenAt
      <4> QED BY <4>1 DEF NumAt
    <3>2. x = e /\ Byte \in Space
      BY <1>4, <2>0, <3>1
    <3>3. /\ Token([st EXCEPT !.ts = "NUM_OUT", !.end = pos,
                              !.i = Number(BetweenBytes(st.start, pos))])
          /\ data' = Cleared
      BY <1>1, <3>2, ReadsSpace
    <3>4. BetweenBytes(st.start, pos) = t.text
      BY <2>1, <2>2 DEF BetweenBytes, Leading
    <3>5. PICK j \in Nat : j = Number(t.text)
      <4>1. t.text \in Seq(Digit)
        <5>1. LeadAt(B, o, l, t.text)
          BY <2>2 DEF Here, TokenAt, Leading
        <5>2. NumAt(B, o, e, l)
          BY <2>2 DEF Here, TokenAt
        <5>3. \A i \in 1..l : t.text[i] \in Digit
          BY <5>1, <5>2 DEF LeadAt, NumAt
        <5>4. t.text \in Seq(Char) /\ Len(t.text) = l
          BY <5>1 DEF LeadAt, Letters
        <5> QED BY <5>3, <5>4, LenProperties, SeqDef
      <4> QED BY <4>1, NumberType
    <3>6. st' = [st EXCEPT !.ts = "NUM_OUT", !.end = pos, !.i = j]
      BY <3>3, <3>4, <3>5 DEF Token
    <3>7. /\ st' \in St /\ st'.ts = "NUM_OUT" /\ st'.i = j /\ st'.start = st.start
          /\ st'.back = st.back
      <4>1. "NUM_OUT" \in TokenizerStates
        BY DEF TokenizerStates, Out
      <4> QED BY <1>0, <3>5, <3>6, <4>1 DEF St
    <3>8. pos' = pos + 1 /\ phase' = "value"
      BY <3>3 DEF Token
    <3>9. /\ Kept(B, OddOf(t, e), data', wire, b, st'.start) /\ Len(data') = Len(data)
      <4>1. t.ts \in Closed
        BY <2>2 DEF Closed
      <4>2. PICK p \in Nat : p = pos
        BY <1>0
      <4>3. b + p + 1 = e
        BY <1>3, <3>2, <4>2
      <4>4. b + (p + 1) = e
        BY <4>3
      <4>5. IsOdd(B, e, b + (pos + 1))
        BY <3>1, <4>2, <4>4 DEF IsOdd
      <4> QED BY <3>3, <3>7, <4>1, <4>5, EndClears
    <3>10. Places(data', pos', st')
      <4>1. pos' \in 0..Len(data') /\ st'.start <= pos'
        BY <1>0, <3>7, <3>8, <3>9
      <4> QED BY <3>7, <4>1 DEF Places, Here
    <3>11. Have(B, t, o, e, b, data', pos', st')
      <4>1. b + pos' = e /\ b + st'.start = o
        BY <1>0, <1>1, <1>3, <3>2, <3>7, <3>8
      <4> QED BY <2>2, <3>5, <3>7, <4>1 DEF Have, HaveNum
    <3> QED BY <3>8, <3>9, <3>10, <3>11 DEF Goes
  <2>3. CASE t.ts = "STRING_OUT"
    <3>1. StringAt(B, o, e, l, Len(t.text))
      BY <2>3 DEF Here, TokenAt
    <3>2. PICK v \in Nat : v = Len(t.text) /\ e = o + l + 1 + v + 1 /\ B[o + l + 1] = ":"
      BY <3>1 DEF StringAt
    <3>3. Byte = ":"
      <4>1. x # OddOf(t, e)
        <5>1. OddOf(t, e) = e
          BY <2>3 DEF OddOf, Closed
        <5>2. e = o + l + 1 + v + 1
          BY <3>2
        <5>3. e > o + l + 1
          BY <5>2
        <5> QED BY <2>0, <5>1, <5>3
      <4> QED BY <1>4, <2>0, <3>2, <4>1
    <3>4. /\ st' = [st EXCEPT !.ts = "STRING_IN", !.end = pos, !.start = pos + 1,
                              !.i = Number(BetweenBytes(st.start, pos))]
          /\ pos' = pos + 1 /\ data' = Cleared /\ phase' = "read"
      BY <1>1, <3>3, ReadsColon DEF LengthOfString, Here
    <3>5. Number(BetweenBytes(st.start, pos)) = v
      <4>1. BetweenBytes(st.start, pos) = t.size
        BY <2>1, <2>3 DEF BetweenBytes, Leading
      <4>2. Number(t.size) = Len(t.text)
        BY <2>3 DEF Here, TokenAt
      <4> QED BY <3>2, <4>1, <4>2
    <3>6. /\ st' \in St /\ st'.ts = "STRING_IN" /\ st'.i = v /\ st'.start = pos + 1
          /\ st'.back = st.back
      <4>1. "STRING_IN" \in TokenizerStates /\ pos + 1 \in Nat
        BY <1>0 DEF TokenizerStates
      <4> QED BY <1>0, <3>4, <3>5, <4>1 DEF St
    <3>7. Kept(B, OddOf(t, e), data', wire, b, st'.start) /\ Len(data') = Len(data)
      <4>1. pos + 1 \in st.start..Len(data)
        BY <1>0
      <4>2. Kept(B, OddOf(t, e), data, wire, b, pos + 1)
        BY <1>2, <4>1, LessKept
      <4>3. pos + 1 <= pos + 1
        BY <1>0
      <4>4. Kept(B, OddOf(t, e), data', wire, b, pos + 1) /\ Len(data') = Len(data)
        BY <1>0, <3>4, <4>2, <4>3, Clears
      <4> QED BY <3>6, <4>4
    <3>8. Places(data', pos', st')
      <4>1. pos' \in 0..Len(data') /\ st'.start <= pos'
        BY <1>0, <3>4, <3>6, <3>7
      <4> QED BY <3>6, <4>1 DEF Places, Here
    <3>9. Inside(t, o, l, b, pos', st')
      <4>1. b + st'.start = o + l + 1 /\ pos' <= st'.start + st'.i
        <5>1. PICK p \in Nat : p = pos
          BY <1>0
        <5>2. b + p = o + l
          BY <2>0, <5>1
        <5>3. b + (p + 1) = o + l + 1 /\ p + 1 <= p + 1 + v
          BY <5>2
        <5>4. st'.start = p + 1 /\ pos' = p + 1 /\ st'.i = v
          BY <3>4, <3>6, <5>1
        <5> QED BY <5>3, <5>4
      <4> QED BY <2>3, <3>2, <3>6, <4>1 DEF Inside, InString
    <3> QED BY <3>4, <3>7, <3>8, <3>9 DEF Goes
  <2>4. CASE t.ts = "BAD"
    <3>1. e = o + l + 1 /\ B[e] \in {"(", ")"}
      <4>1. BadAt(B, o, e, l)
        BY <2>4 DEF Here, TokenAt
      <4> QED BY <4>1 DEF BadAt
    <3>2. x # OddOf(t, e)
      BY <1>0, <2>0, <2>4 DEF OddOf, Closed
    <3>3. Byte \in {"(", ")"}
      BY <1>4, <2>0, <3>1, <3>2
    <3>4. st.ts \in Out
      BY <1>1, <3>3, ReadsParen
    <3> QED BY <1>1, <3>4 DEF Out
  <2> QED BY <1>1, <2>2, <2>3, <2>4
<1> QED BY <1>5, <1>6

LEMMA TokStep ==
  ASSUME NEW B, NEW t, NEW o \in Nat, NEW e \in Nat, NEW l \in Nat, NEW b \in Nat,
         Here(B, t, o, e, l, b), InTok(t, o, l, b, pos, st), Legal, Tokenized
  PROVE  Goes(B, t, o, e, l, b, data', wire, pos', st', phase')
<1>0. /\ pos \in Nat
      /\ Len(data) \in Nat /\ pos < Len(data) /\ st.start \in Nat /\ st.start <= pos
      /\ OddOf(t, e) \in Nat /\ data \in Letters /\ st \in St
  BY HereFacts
<1>1. /\ t.ts = "TOK_OUT" /\ st.ts = "TOK_IN" /\ st.ts # "STRING_IN"
      /\ b + st.start = o /\ b + pos > o /\ b + pos <= o + l
  BY DEF InTok
<1>2. Kept(B, OddOf(t, e), data, wire, b, st.start)
  BY DEF Here
<1>3. PICK p \in Nat, x \in Nat : p = pos /\ x = b + p + 1 /\ x = b + (p + 1)
  BY <1>0
<1>4. /\ x # OddOf(t, e) => Byte = B[x]
      /\ B[x] = " " => Byte \in Space
  <2>1. x = b + pos + 1
    BY <1>3
  <2> QED BY <1>0, <1>2, <2>1, ByteIs
<1>5. OddOf(t, e) = e /\ t.ts \in Closed
  BY <1>1 DEF OddOf, Closed
<1>6. /\ e = o + l + 1 /\ B[e] = " " /\ \A i \in 1..l : B[o + i] \in Letter \cup Digit
  <2>1. WordAt(B, o, e, l)
    BY <1>1 DEF Here, TokenAt
  <2> QED BY <2>1 DEF WordAt
<1>7. e = o + l + 1
  BY <1>6
<1>8. CASE x <= o + l
  <2>1. PICK i \in 1..l : o + i = x
    BY <1>0, <1>1, <1>3, <1>8
  <2>2. x # e
    BY <1>7, <1>8
  <2>3. Byte \in Letter \cup Digit
    BY <1>4, <1>5, <1>6, <2>1, <2>2
  <2>4. Skip(st)
    BY <1>1, <2>3, ReadsLetter, ReadsDigit
  <2>5. b + (pos + 1) > o /\ b + (pos + 1) <= o + l
    BY <1>0, <1>1, <1>3, <1>8
  <2>6. Inside(t, o, l, b, pos + 1, st)
    BY <1>1, <2>5 DEF Inside, InTok
  <2> QED BY <2>4, <2>6, SkipGoes
<1>9. CASE ~(x <= o + l)
  <2>1. x = e /\ b + p = o + l
    <3>1. b + p <= o + l
      BY <1>1, <1>3
    <3>2. x = b + p + 1
      BY <1>3
    <3>3. x = o + l + 1 /\ b + p = o + l
      BY <1>9, <3>1, <3>2
    <3> QED BY <1>7, <3>3
  <2>2. Byte \in Space
    BY <1>4, <1>6, <2>1
  <2>3. Token([st EXCEPT !.ts = "TOK_OUT", !.end = pos]) /\ data' = Cleared
    BY <1>1, <2>2, ReadsSpace
  <2>4. /\ st' \in St /\ st'.ts = "TOK_OUT" /\ st'.end = pos /\ st'.start = st.start
        /\ st'.back = st.back
    <3>1. "TOK_OUT" \in TokenizerStates
      BY DEF TokenizerStates, Out
    <3>2. st' = [st EXCEPT !.ts = "TOK_OUT", !.end = pos]
      BY <2>3 DEF Token
    <3> QED BY <1>0, <3>1, <3>2 DEF St
  <2>5. pos' = pos + 1 /\ phase' = "value"
    BY <2>3 DEF Token
  <2>6. IsOdd(B, e, b + (pos + 1))
    BY <1>3, <1>6, <2>1 DEF IsOdd
  <2>7. Kept(B, OddOf(t, e), data', wire, b, st'.start) /\ Len(data') = Len(data)
    BY <1>5, <2>3, <2>4, <2>6, EndClears
  <2>8. Places(data', pos', st')
    <3>1. pos' \in 0..Len(data') /\ st'.start <= pos'
      BY <1>0, <2>4, <2>5, <2>7
    <3> QED BY <2>4, <3>1 DEF Places, Here
  <2>9. SubSeq(data', st'.start + 1, st'.end) = t.text
    <3>1. LeadAt(B, o, l, t.text)
      BY <1>1 DEF Here, TokenAt, Leading
    <3>2. PICK z : z = t.text
      OBVIOUS
    <3>3. z \in Letters /\ Len(z) = l /\ \A i \in 1..l : B[o + i] = z[i]
      BY <3>1, <3>2 DEF LeadAt
    <3>b. PICK f \in Nat : f = st.start
      BY <1>0
    <3>4. PICK d, odd : f = st.start /\ d = data' /\ odd = OddOf(t, e)
      BY <3>b
    <3>5. b + f = o
      BY <1>1, <3>4
    <3>6. p - f = l
      BY <2>1, <3>5
    <3>7. p \in f..Len(d)
      BY <1>0, <1>3, <2>7, <3>4
    <3>8. \A i \in 1..l : o + i # e
      BY <1>7
    <3>9. odd = e
      BY <1>5, <3>4
    <3>10. \A i \in 1..(p - f) : B[b + f + i] = z[i] /\ b + f + i # odd
      BY <3>3, <3>5, <3>6, <3>8, <3>9
    <3>11. Kept(B, odd, d, wire, b, f)
      BY <2>4, <2>7, <3>4
    <3>12. Len(z) = p - f
      BY <3>3, <3>6
    <3>a. TextThere(B, odd, b, f, p, z)
      BY <3>10, <3>12 DEF TextThere
    <3>13. SubSeq(d, f + 1, p) = z
      <4>1. PICK f2, p2 : f2 = f /\ p2 = p
        OBVIOUS
      <4>2. /\ z \in Letters /\ p2 \in f2..Len(d) /\ Kept(B, odd, d, wire, b, f2)
            /\ TextThere(B, odd, b, f2, p2, z)
        BY <3>3, <3>7, <3>11, <3>a, <4>1
      <4>3. SubSeq(d, f2 + 1, p2) = z
        BY <4>2, KeptText
      <4> QED BY <4>1, <4>3
    <3> QED BY <1>3, <2>4, <3>2, <3>4, <3>13
  <2>10. Have(B, t, o, e, b, data', pos', st')
    <3>1. b + pos' = e /\ b + st'.start = o
      BY <1>1, <1>3, <2>1, <2>4, <2>5
    <3> QED BY <1>1, <2>4, <2>9, <3>1 DEF Have, HaveTok
  <2> QED BY <2>5, <2>7, <2>8, <2>10 DEF Goes
<1> QED BY <1>8, <1>9

LEMMA StringStep ==
  ASSUME NEW B, NEW t, NEW o \in Nat, NEW e \in Nat, NEW l \in Nat, NEW b \in Nat,
         Here(B, t, o, e, l, b), InString(t, o, l, b, pos, st), Legal, Tokenized
  PROVE  Goes(B, t, o, e, l, b, data', wire, pos', st', phase')
<1>0. /\ pos \in Nat
      /\ Len(data) \in Nat /\ pos < Len(data) /\ st.start \in Nat /\ st.start <= pos
      /\ OddOf(t, e) \in Nat /\ data \in Letters /\ st \in St
  BY HereFacts
<1>1. /\ t.ts = "STRING_OUT" /\ st.ts = "STRING_IN" /\ st.i = Len(t.text)
      /\ b + st.start = o + l + 1 /\ pos <= st.start + st.i
  BY DEF InString
<1>2. StringBytes
  BY <1>1 DEF Tokenized
<1>3. PICK p \in Nat, f \in Nat, i \in Nat : p = pos /\ f = st.start /\ i = st.i
  BY <1>0 DEF St
<1>4. CASE p < f + i
  <2>1. Skip(st)
    BY <1>2, <1>3, <1>4 DEF StringBytes
  <2>2. pos + 1 <= st.start + st.i
    BY <1>3, <1>4
  <2>3. Inside(t, o, l, b, pos + 1, st)
    BY <1>1, <2>2 DEF Inside, InString
  <2> QED BY <2>1, <2>3, SkipGoes
<1>5. CASE ~(p < f + i)
  <2>1. st' = [st EXCEPT !.ts = "STRING_CHECK", !.end = pos] /\ UNCHANGED <<data, pos, phase>>
    BY <1>2, <1>3, <1>5 DEF StringBytes, Stay
  <2>2. p = f + i
    BY <1>1, <1>3, <1>5
  <2>3. /\ st' \in St /\ st'.ts = "STRING_CHECK" /\ st'.end = pos /\ st'.start = st.start
        /\ st'.back = st.back
    <3>1. "STRING_CHECK" \in TokenizerStates
      BY DEF TokenizerStates
    <3> QED BY <1>0, <2>1, <3>1 DEF St
  <2>4. Places(data', pos', st')
    BY <2>1, <2>3 DEF Places, Here
  <2>5. Inside(t, o, l, b, pos', st')
    <3>1. pos' = st'.start + Len(t.text)
      BY <1>1, <1>3, <2>1, <2>2, <2>3
    <3> QED BY <1>1, <2>1, <2>3, <3>1 DEF Inside, AtCheck
  <2>6. Kept(B, OddOf(t, e), data', wire, b, st'.start)
    BY <2>1, <2>3 DEF Here
  <2>7. phase' = "read"
    BY <2>1 DEF Here
  <2> QED BY <2>4, <2>5, <2>6, <2>7 DEF Goes
<1> QED BY <1>4, <1>5

LEMMA CheckStep ==
  ASSUME NEW B, NEW t, NEW o \in Nat, NEW e \in Nat, NEW l \in Nat, NEW b \in Nat,
         Here(B, t, o, e, l, b), AtCheck(t, o, l, b, pos, st), Legal, Tokenized
  PROVE  Goes(B, t, o, e, l, b, data', wire, pos', st', phase')
<1>0. /\ pos \in Nat
      /\ Len(data) \in Nat /\ pos < Len(data) /\ st.start \in Nat /\ st.start <= pos
      /\ OddOf(t, e) \in Nat /\ data \in Letters /\ st \in St
  BY HereFacts
<1>1. /\ t.ts = "STRING_OUT" /\ st.ts = "STRING_CHECK" /\ st.end = pos
      /\ b + st.start = o + l + 1 /\ pos = st.start + Len(t.text)
  BY DEF AtCheck
<1>2. Kept(B, OddOf(t, e), data, wire, b, st.start)
  BY DEF Here
<1>3. StringAt(B, o, e, l, Len(t.text)) /\ TextAt(B, o, l, t.text) /\ t.text \in Letters
  BY <1>1 DEF Here, TokenAt
<1>a. Len(t.text) \in Nat
  BY <1>3 DEF StringAt
<1>b. PICK z : z = t.text
  OBVIOUS
<1>4. PICK v \in Nat : z = t.text /\ v = Len(z)
  BY <1>a, <1>b
<1>5. /\ e = o + l + 1 + v + 1 /\ B[e] = " " /\ z \in Letters
      /\ \A i \in 1..v : B[o + l + 1 + i] = z[i]
  BY <1>3, <1>4 DEF StringAt, TextAt
<1>6. e = o + l + 1 + v + 1
  BY <1>5
<1>7. PICK p \in Nat, f \in Nat, x \in Nat : p = pos /\ f = st.start /\ x = b + p + 1 /\ x = b + (p + 1)
  BY <1>0
<1>8. b + f = o + l + 1 /\ p = f + v
  BY <1>1, <1>4, <1>7
<1>9. x = e
  <2>1. x = b + p + 1
    BY <1>7
  <2> QED BY <1>6, <1>8, <2>1
<1>10. OddOf(t, e) = e /\ t.ts \in Closed
  BY <1>1 DEF OddOf, Closed
<1>11. Byte \in Space
  <2>1. x = b + pos + 1 /\ B[x] = " "
    BY <1>5, <1>7, <1>9
  <2> QED BY <1>0, <1>2, <2>1, ByteIs
<1>12. Token([st EXCEPT !.ts = "STRING_OUT"]) /\ data' = Cleared
  <2>1. st.ts # "STRING_IN"
    BY <1>1
  <2> QED BY <1>1, <1>11, <2>1, ReadsSpace
<1>13. /\ st' \in St /\ st'.ts = "STRING_OUT" /\ st'.end = pos /\ st'.start = st.start
       /\ st'.back = st.back
  <2>1. "STRING_OUT" \in TokenizerStates
    BY DEF TokenizerStates, Out
  <2>2. st' = [st EXCEPT !.ts = "STRING_OUT"]
    BY <1>12 DEF Token
  <2> QED BY <1>0, <1>1, <2>1, <2>2 DEF St
<1>14. pos' = pos + 1 /\ phase' = "value"
  BY <1>12 DEF Token
<1>15. IsOdd(B, e, b + (pos + 1))
  BY <1>5, <1>7, <1>9 DEF IsOdd
<1>16. Kept(B, OddOf(t, e), data', wire, b, st'.start) /\ Len(data') = Len(data)
  BY <1>10, <1>12, <1>13, <1>15, EndClears
<1>17. Places(data', pos', st')
  <2>1. pos' \in 0..Len(data') /\ st'.start <= pos'
    BY <1>0, <1>13, <1>14, <1>16
  <2> QED BY <1>13, <2>1 DEF Places, Here
<1>18. SubSeq(data', st'.start + 1, st'.end) = t.text
  <2>1. PICK d, odd : d = data' /\ odd = OddOf(t, e)
    OBVIOUS
  <2>2. p - f = v
    BY <1>8
  <2>3. p \in f..Len(d)
    BY <1>0, <1>7, <1>16, <2>1
  <2>4. \A i \in 1..v : o + l + 1 + i # e
    BY <1>6
  <2>5. odd = e
    BY <1>10, <2>1
  <2>6. \A i \in 1..(p - f) : B[b + f + i] = z[i] /\ b + f + i # odd
    BY <1>5, <1>8, <2>2, <2>4, <2>5
  <2>7. Kept(B, odd, d, wire, b, f)
    BY <1>7, <1>13, <1>16, <2>1
  <2>8. Len(z) = p - f
    BY <1>4, <2>2
  <2>a. TextThere(B, odd, b, f, p, z) /\ z \in Letters
    BY <1>5, <2>6, <2>8 DEF TextThere
  <2>9. SubSeq(d, f + 1, p) = z
    <3>1. PICK f2, p2 : f2 = f /\ p2 = p
      OBVIOUS
    <3>2. /\ z \in Letters /\ p2 \in f2..Len(d) /\ Kept(B, odd, d, wire, b, f2)
          /\ TextThere(B, odd, b, f2, p2, z)
      BY <2>3, <2>7, <2>a, <3>1
    <3>3. SubSeq(d, f2 + 1, p2) = z
      BY <3>2, KeptText
    <3> QED BY <3>1, <3>3
  <2> QED BY <1>4, <1>7, <1>13, <2>1, <2>9
<1>19. Have(B, t, o, e, b, data', pos', st')
  <2>1. b + pos' = e
    BY <1>7, <1>9, <1>14
  <2> QED BY <1>1, <1>13, <1>18, <2>1 DEF Have, HaveString
<1> QED BY <1>14, <1>16, <1>17, <1>19 DEF Goes

-----------------------------------------------------------------------------
(***************************************************************************)
(* Where a token begins.                                                   *)
(***************************************************************************)
AtFirst(B, t, o, e, l, b) ==
  /\ TokenAt(B, t, o, e, l) /\ Places(data, pos, st) /\ pos < Len(data) /\ phase = "read"
  /\ Kept(B, OddOf(t, e), data, wire, b, pos) /\ b + pos = o

\* The first byte of a token says what kind it is of.
LEMMA FirstByte ==
  ASSUME NEW B, NEW t, NEW o \in Nat, NEW e \in Nat, NEW l \in Nat, NEW b \in Nat,
         AtFirst(B, t, o, e, l, b)
  PROVE  /\ t.ts \in {"NUM_OUT", "STRING_OUT", "BAD"} => Byte \in Digit /\ l >= 1
         /\ t.ts = "TOK_OUT" => Byte \in Letter /\ l >= 1
         /\ t.ts = "LIST_START" => Byte = "("
         /\ t.ts = "LIST_END" => Byte = ")"
         /\ t.ts \in {"NUM_OUT", "TOK_OUT", "STRING_OUT", "LIST_START", "LIST_END", "BAD"}
<1>0. PICK p \in Nat : p = pos /\ pos < Len(data) /\ p >= pos
  BY DEF AtFirst, Places
<1>1. b + p = o
  BY <1>0 DEF AtFirst
<1>2. b + p + 1 = o + 1
  BY <1>1
<1>3. b + pos + 1 = o + 1
  BY <1>0, <1>2
<1>4. Kept(B, OddOf(t, e), data, wire, b, pos)
  BY DEF AtFirst
<1>5. o + 1 # OddOf(t, e) => Byte = B[o + 1]
  BY <1>0, <1>3, <1>4, ByteIs
<1>6. t.ts \in {"NUM_OUT", "TOK_OUT", "STRING_OUT", "LIST_START", "LIST_END", "BAD"}
  BY DEF AtFirst, TokenAt
<1>7. 1 \in 1..l <=> l >= 1
  OBVIOUS
<1>8. CASE t.ts = "NUM_OUT"
  <2>1. /\ l >= 1 /\ e = o + l + 1 /\ \A i \in 1..l : B[o + i] \in Digit
    BY <1>8 DEF AtFirst, TokenAt, NumAt
  <2>2. l >= 1 /\ e = o + l + 1
    BY <2>1
  <2>3. o + 1 # e /\ o + 1 > 0
    BY <2>2
  <2>4. B[o + 1] \in Digit
    BY <1>7, <2>1
  <2> QED BY <1>5, <1>8, <2>1, <2>3, <2>4 DEF OddOf
<1>9. CASE t.ts = "TOK_OUT"
  <2>1. /\ l >= 1 /\ e = o + l + 1 /\ B[o + 1] \in Letter
    BY <1>9 DEF AtFirst, TokenAt, WordAt
  <2>2. l >= 1 /\ e = o + l + 1
    BY <2>1
  <2>3. o + 1 # e /\ o + 1 > 0
    BY <2>2
  <2> QED BY <1>5, <1>9, <2>1, <2>3 DEF OddOf
<1>10. CASE t.ts = "STRING_OUT"
  <2>0. StringAt(B, o, e, l, Len(t.text))
    BY <1>10 DEF AtFirst, TokenAt
  <2>1. PICK v \in Nat : v = Len(t.text) /\ StringAt(B, o, e, l, v)
    BY <2>0 DEF StringAt
  <2>a. /\ l >= 1 /\ e = o + l + 1 + v + 1 /\ \A i \in 1..l : B[o + i] \in Digit
    BY <2>1 DEF StringAt
  <2>2. l >= 1 /\ e = o + l + 1 + v + 1
    BY <2>a
  <2>3. o + 1 # e /\ o + 1 > 0
    BY <2>2
  <2>4. B[o + 1] \in Digit
    BY <1>7, <2>a
  <2> QED BY <1>5, <1>10, <2>a, <2>3, <2>4 DEF OddOf
<1>11. CASE t.ts = "BAD"
  <2>1. /\ l >= 1 /\ \A i \in 1..l : B[o + i] \in Digit
    BY <1>11 DEF AtFirst, TokenAt, BadAt
  <2>3. OddOf(t, e) = 0 /\ o + 1 # 0
    BY <1>11 DEF OddOf, Closed
  <2>4. B[o + 1] \in Digit
    BY <1>7, <2>1
  <2> QED BY <1>5, <1>11, <2>1, <2>3, <2>4
<1>12. CASE t.ts \in Lists
  <2>1. OddOf(t, e) = 0 /\ o + 1 # 0
    BY <1>12 DEF OddOf, Closed, Lists
  <2>2. t.ts = "LIST_START" => B[o + 1] = "("
    BY DEF AtFirst, TokenAt, ParenAt
  <2>3. t.ts = "LIST_END" => B[o + 1] = ")"
    BY DEF AtFirst, TokenAt, ParenAt
  <2> QED BY <1>5, <1>12, <2>1, <2>2, <2>3 DEF Lists
<1> QED BY <1>6, <1>8, <1>9, <1>10, <1>11, <1>12 DEF Lists

LEMMA FirstStep ==
  ASSUME NEW B, NEW t, NEW o \in Nat, NEW e \in Nat, NEW l \in Nat, NEW b \in Nat,
         AtFirst(B, t, o, e, l, b), st.ts \in Out \cup Lists, Legal, Tokenized
  PROVE  /\ st.ts \in Out
         /\ Goes(B, t, o, e, l, b, data', wire, pos', st', phase')
<1>0. /\ pos \in Nat /\ Len(data) \in Nat /\ pos < Len(data) /\ st \in St /\ b + pos = o
      /\ phase = "read" /\ st.back = FALSE
  <2>1. Len(data) \in Nat
    BY DEF AtFirst, Kept
  <2> QED BY <2>1 DEF AtFirst, Places
<1>1. Kept(B, OddOf(t, e), data, wire, b, pos)
  BY DEF AtFirst
<1>2. st.ts # "STRING_IN"
  BY DEF Out, Lists
<1>3. b + (pos + 1) > o
  BY <1>0
<1>4. pos + 1 \in 0..Len(data) /\ pos <= pos + 1
  BY <1>0
<1>5. CASE t.ts \in {"NUM_OUT", "STRING_OUT", "BAD"}
  <2>1. Byte \in Digit /\ l >= 1
    BY <1>5, FirstByte
  <2>2. st.ts \in Out
    BY <1>2, <2>1, ReadsDigit DEF Lists
  <2>3. st' = [st EXCEPT !.ts = "NUM_IN", !.start = pos] /\ pos' = pos + 1 /\ data' = data
        /\ phase' = "read"
    BY <1>0, <1>2, <2>1, <2>2, ReadsDigit DEF Skip
  <2>4. st' \in St /\ st'.ts = "NUM_IN" /\ st'.start = pos /\ st'.back = FALSE
    <3>1. "NUM_IN" \in TokenizerStates
      BY DEF TokenizerStates
    <3> QED BY <1>0, <2>3, <3>1 DEF St
  <2>5. b + (pos + 1) <= o + l
    BY <1>0, <2>1
  <2>6. Inside(t, o, l, b, pos', st')
    BY <1>0, <1>3, <1>5, <2>3, <2>4, <2>5 DEF Inside, InNum
  <2>7. Places(data', pos', st')
    BY <1>4, <2>3, <2>4 DEF Places
  <2>8. Kept(B, OddOf(t, e), data', wire, b, st'.start)
    BY <1>1, <2>3, <2>4
  <2> QED BY <2>2, <2>3, <2>6, <2>7, <2>8 DEF Goes
<1>6. CASE t.ts = "TOK_OUT"
  <2>1. Byte \in Letter /\ l >= 1
    BY <1>6, FirstByte
  <2>2. st.ts \in Out
    BY <1>2, <2>1, ReadsLetter DEF Lists
  <2>3. st' = [st EXCEPT !.ts = "TOK_IN", !.start = pos] /\ pos' = pos + 1 /\ data' = data
        /\ phase' = "read"
    BY <1>0, <1>2, <2>1, <2>2, ReadsLetter DEF Skip
  <2>4. st' \in St /\ st'.ts = "TOK_IN" /\ st'.start = pos /\ st'.back = FALSE
    <3>1. "TOK_IN" \in TokenizerStates
      BY DEF TokenizerStates
    <3> QED BY <1>0, <2>3, <3>1 DEF St
  <2>5. b + (pos + 1) <= o + l
    BY <1>0, <2>1
  <2>6. Inside(t, o, l, b, pos', st')
    BY <1>0, <1>3, <1>6, <2>3, <2>4, <2>5 DEF Inside, InTok
  <2>7. Places(data', pos', st')
    BY <1>4, <2>3, <2>4 DEF Places
  <2>8. Kept(B, OddOf(t, e), data', wire, b, st'.start)
    BY <1>1, <2>3, <2>4
  <2> QED BY <2>2, <2>3, <2>6, <2>7, <2>8 DEF Goes
<1>7. CASE t.ts \in Lists
  <2>1. Byte \in {"(", ")"} /\ t.ts = IF Byte = "(" THEN "LIST_START" ELSE "LIST_END"
    BY <1>7, FirstByte DEF Lists
  <2>2. /\ st.ts \in Out /\ data' = data
        /\ Token([st EXCEPT !.ts = IF Byte = "(" THEN "LIST_START" ELSE "LIST_END",
                            !.start = pos])
    BY <1>2, <2>1, ReadsParen
  <2>3. st' = [st EXCEPT !.ts = t.ts, !.start = pos] /\ pos' = pos + 1 /\ phase' = "value"
    BY <2>1, <2>2 DEF Token
  <2>4. st' \in St /\ st'.ts = t.ts /\ st'.start = pos /\ st'.back = FALSE
    <3>1. t.ts \in TokenizerStates
      BY <1>7 DEF TokenizerStates, Lists
    <3> QED BY <1>0, <2>3, <3>1 DEF St
  <2>5. Places(data', pos', st')
    BY <1>4, <2>2, <2>3, <2>4 DEF Places
  <2>6. Kept(B, OddOf(t, e), data', wire, b, st'.start)
    BY <1>1, <2>2, <2>4
  <2>7. HaveParen(B, t, o, e, b, pos', st')
    <3>1. PICK c : ParenAt(B, o, e, c, Len(t.text))
      BY <1>7 DEF AtFirst, TokenAt, Lists
    <3>2. CASE Len(t.text) = 1
      <4>1. e = o + 1
        BY <3>1, <3>2 DEF ParenAt
      <4>2. b + (pos + 1) = e
        BY <1>0, <4>1
      <4> QED BY <1>0, <1>7, <2>3, <2>4, <3>2, <4>2 DEF HaveParen
    <3>3. CASE Len(t.text) = 2
      <4>1. e = o + 2 /\ B[e] = " "
        BY <3>1, <3>3 DEF ParenAt
      <4>a. PICK p \in Nat : p = pos /\ b + p = o
        BY <1>0
      <4>b. b + p = o /\ e = o + 2
        BY <4>1, <4>a
      <4>c. b + (p + 1) + 1 = e
        BY <4>b
      <4>2. b + (pos + 1) + 1 = e
        BY <4>a, <4>c
      <4> QED BY <1>0, <1>7, <2>3, <2>4, <3>3, <4>1, <4>2 DEF HaveParen
    <3> QED BY <3>1, <3>2, <3>3 DEF ParenAt
  <2>8. Have(B, t, o, e, b, data', pos', st')
    BY <2>4, <2>7 DEF Have
  <2> QED BY <2>2, <2>3, <2>5, <2>6, <2>8 DEF Goes
<1> QED BY <1>5, <1>6, <1>7, FirstByte DEF Lists

-----------------------------------------------------------------------------
(***************************************************************************)
(* The situations, after at tokens and b bytes that were dropped.          *)
(***************************************************************************)
Tight(T, at) == at > 0 /\ T[at].ts \in Lists /\ Len(T[at].text) = 1
OddAt(T, A, at) == IF at < Len(T) THEN OddOf(T[at + 1], A[at + 2]) ELSE 0

\* Behind the last token, or behind its parenthesis, before its space.
Ready(T, A, B, at, b, d, w, p, s) ==
  /\ Places(d, p, s) /\ Kept(B, OddAt(T, A, at), d, w, b, p)
  /\ \/ s.ts \in Out /\ b + p = A[at + 1] /\ ~Tight(T, at)
     \/ s.ts \in Lists /\ b + p = A[at + 1] /\ Tight(T, at)
     \/ s.ts \in Lists /\ b + p + 1 = A[at + 1] /\ B[A[at + 1]] = " " /\ ~Tight(T, at)

\* Within the next token, or behind it, before it is taken.
Within(T, A, B, at, b, d, w, p, s, ph) ==
  /\ at < Len(T) /\ ~Tight(T, at)
  /\ Goes(B, T[at + 1], A[at + 1], A[at + 2], Lead(T[at + 1]), b, d, w, p, s, ph)

\* The next token has been given back.
Given(T, A, B, at, b, d, w, p, s) ==
  /\ s \in St /\ p \in 0..Len(d) /\ s.start <= p /\ s.back = TRUE
  /\ at < Len(T) /\ ~Tight(T, at) /\ b + s.start = A[at + 1]
  /\ Kept(B, OddAt(T, A, at), d, w, b, s.start)

LEMMA OddType ==
  ASSUME NEW T, NEW A, NEW B, Starts(T, A, B), NEW at \in 0..Len(T)
  PROVE  /\ OddAt(T, A, at) \in Nat /\ A[at + 1] \in Nat /\ A[at + 1] <= Len(B)
         /\ Len(T) \in Nat /\ Len(B) \in Nat
<1>0. Len(T) \in Nat /\ Len(B) \in Nat /\ A[Len(T) + 1] = Len(B)
  BY DEF Starts
<1>1. CASE at < Len(T)
  <2>1. PICK t, o, e, l : t = T[at + 1] /\ o = A[at + 1] /\ e = A[at + 2] /\ l = Lead(t)
    OBVIOUS
  <2>2. at \in 0..(Len(T) - 1)
    BY <1>0, <1>1
  <2>3. TokenAt(B, t, o, e, l)
    BY <2>1, <2>2, TokenAtIs
  <2>4. o \in Nat /\ e \in Nat /\ o < e /\ e <= Len(B)
    BY <2>3 DEF TokenAt
  <2>5. OddOf(t, e) \in Nat /\ o <= Len(B)
    BY <1>0, <2>4 DEF OddOf
  <2> QED BY <1>0, <1>1, <2>1, <2>4, <2>5 DEF OddAt
<1>2. CASE ~(at < Len(T))
  <2>1. at = Len(T)
    BY <1>0, <1>2
  <2> QED BY <1>0, <1>2, <2>1 DEF OddAt
<1> QED BY <1>1, <1>2

\* A byte is left, so a token is.
LEMMA NotLast ==
  ASSUME NEW T, NEW A, NEW B, Starts(T, A, B), NEW at \in 0..Len(T), NEW b \in Nat,
         NEW odd, NEW d, NEW w, NEW from, Kept(B, odd, d, w, b, from),
         NEW p \in Nat, p < Len(d), b + p = A[at + 1]
  PROVE  at < Len(T)
<1>1. SUFFICES ASSUME ~(at < Len(T)) PROVE FALSE
  OBVIOUS
<1>2. Len(T) \in Nat /\ A[Len(T) + 1] = Len(B) /\ Len(B) \in Nat
  BY DEF Starts
<1>3. at = Len(T)
  BY <1>1, <1>2
<1>4. PICK n \in Nat, m \in Nat, v \in Nat : n = Len(B) /\ m = Len(d) /\ v = Len(w)
  BY <1>2 DEF Kept
<1>5. b + (m + v) <= n
  BY <1>4 DEF Kept, Total
<1>6. b + p = n /\ p < m
  BY <1>2, <1>3, <1>4
<1> QED BY <1>5, <1>6

LEMMA ReadyParse ==
  ASSUME NEW T, NEW A, NEW B, Starts(T, A, B), NEW at \in 0..Len(T), NEW b \in Nat,
         Ready(T, A, B, at, b, data, wire, pos, st), phase = "read", pos < Len(data),
         Legal, Tokenized
  PROVE  \/ phase' = "read" /\ Ready(T, A, B, at, b, data', wire, pos', st')
         \/ Within(T, A, B, at, b, data', wire, pos', st', phase')
<1>0. Places(data, pos, st) /\ Kept(B, OddAt(T, A, at), data, wire, b, pos)
  BY DEF Ready
<1>1. pos \in Nat /\ Len(data) \in Nat /\ st \in St /\ st.back = FALSE
  <2>1. Len(data) \in Nat
    BY <1>0 DEF Kept
  <2> QED BY <1>0, <2>1 DEF Places
<1>2. CASE b + pos = A[at + 1]
  <2>1. at < Len(T)
    BY <1>0, <1>1, <1>2, NotLast
  <2>2. PICK t, o, e, l : t = T[at + 1] /\ o = A[at + 1] /\ e = A[at + 2] /\ l = Lead(t)
    OBVIOUS
  <2>3. TokenAt(B, t, o, e, l)
    <3>1. at \in 0..(Len(T) - 1)
      BY <2>1, OddType
    <3> QED BY <2>2, <3>1, TokenAtIs
  <2>4. o \in Nat /\ e \in Nat /\ l \in Nat
    BY <2>3 DEF TokenAt
  <2>5. AtFirst(B, t, o, e, l, b)
    <3>1. OddAt(T, A, at) = OddOf(t, e)
      BY <2>1, <2>2 DEF OddAt
    <3> QED BY <1>0, <1>2, <2>2, <2>3, <3>1 DEF AtFirst
  <2>6. st.ts \in Out \cup Lists
    BY DEF Ready
  <2>7. st.ts \in Out /\ Goes(B, t, o, e, l, b, data', wire, pos', st', phase')
    BY <2>4, <2>5, <2>6, FirstStep
  <2>8. ~Tight(T, at)
    BY <2>7 DEF Ready, Out, Lists
  <2> QED BY <2>1, <2>2, <2>7, <2>8 DEF Within
<1>3. CASE b + pos # A[at + 1]
  <2>1. st.ts \in Lists /\ b + pos + 1 = A[at + 1] /\ B[A[at + 1]] = " " /\ ~Tight(T, at)
    BY <1>3 DEF Ready
  <2>2. Byte \in Space
    <3>1. B[b + pos + 1] = " "
      BY <2>1
    <3>2. pos >= pos
      BY <1>1
    <3> QED BY <1>0, <1>1, <3>1, <3>2, ByteIs
  <2>3. st.ts # "STRING_IN"
    BY <2>1 DEF Lists
  <2>4. Skip([st EXCEPT !.ts = "START"])
    BY <2>1, <2>2, <2>3, ReadsSpace
  <2>5. pos' = pos + 1 /\ data' = data /\ phase' = "read" /\ st' = [st EXCEPT !.ts = "START"]
    BY <2>4 DEF Skip
  <2>6. st' \in St /\ st'.ts = "START" /\ st'.start = st.start /\ st'.back = FALSE
    <3>1. "START" \in TokenizerStates
      BY DEF TokenizerStates, Out
    <3> QED BY <1>1, <2>5, <3>1 DEF St
  <2>7. pos + 1 \in pos..Len(data) /\ pos + 1 \in 0..Len(data) /\ b + (pos + 1) = b + pos + 1
    BY <1>1
  <2>8. Kept(B, OddAt(T, A, at), data', wire, b, pos')
    BY <1>0, <2>5, <2>7, LessKept
  <2>9. Places(data', pos', st')
    <3>1. st.start \in Nat /\ st.start <= pos
      BY <1>0, <1>1 DEF Places, St
    <3>2. st.start <= pos + 1
      BY <1>1, <3>1
    <3> QED BY <2>5, <2>6, <2>7, <3>2 DEF Places
  <2>10. b + pos' = A[at + 1]
    BY <2>1, <2>5, <2>7
  <2> QED BY <2>1, <2>5, <2>6, <2>8, <2>9, <2>10 DEF Ready, Out
<1> QED BY <1>2, <1>3

\* Within a token, parse_one_value goes on with it.
LEMMA WithinParse ==
  ASSUME NEW T, NEW A, NEW B, Starts(T, A, B), NEW at \in 0..Len(T), NEW b \in Nat,
         Within(T, A, B, at, b, data, wire, pos, st, phase), phase = "read", pos < Len(data),
         Legal, Tokenized
  PROVE  Within(T, A, B, at, b, data', wire, pos', st', phase')
<1>1. PICK t, o, e, l : t = T[at + 1] /\ o = A[at + 1] /\ e = A[at + 2] /\ l = Lead(t)
  OBVIOUS
<1>2. at < Len(T) /\ ~Tight(T, at) /\ Goes(B, t, o, e, l, b, data, wire, pos, st, phase)
  BY <1>1 DEF Within
<1>3. TokenAt(B, t, o, e, l)
  <2>1. at \in 0..(Len(T) - 1)
    BY <1>2, OddType
  <2> QED BY <1>1, <2>1, TokenAtIs
<1>4. o \in Nat /\ e \in Nat /\ l \in Nat
  BY <1>3 DEF TokenAt
<1>5. Here(B, t, o, e, l, b) /\ Inside(t, o, l, b, pos, st)
  BY <1>2, <1>3 DEF Here, Goes
<1>6. Goes(B, t, o, e, l, b, data', wire, pos', st', phase')
  BY <1>4, <1>5, NumStep, TokStep, StringStep, CheckStep DEF Inside
<1> QED BY <1>1, <1>2, <1>6 DEF Within

-----------------------------------------------------------------------------
(***************************************************************************)
(* What the client does with a token, and with the buffer.                 *)
(***************************************************************************)
\* What is picked is what the token means.
ValueRight(t, d, s) ==
  /\ s.ts = t.ts /\ t.ts \in Closed \cup Lists
  /\ t.ts = "NUM_OUT" => s.i = Number(t.text)
  /\ t.ts \in {"TOK_OUT", "STRING_OUT"} => SubSeq(d, s.start + 1, s.end) = t.text

LEMMA Taken ==
  ASSUME NEW T, NEW A, NEW B, Starts(T, A, B), NEW at \in 0..Len(T), NEW b \in Nat,
         NEW d, NEW w, NEW p, NEW s, Within(T, A, B, at, b, d, w, p, s, "value")
  PROVE  /\ at < Len(T) /\ ~Tight(T, at) /\ ValueRight(T[at + 1], d, s)
         /\ at + 1 \in 0..Len(T) /\ Ready(T, A, B, at + 1, b, d, w, p, s)
<1>1. PICK t, o, e, l : t = T[at + 1] /\ o = A[at + 1] /\ e = A[at + 2] /\ l = Lead(t)
  OBVIOUS
<1>2. at < Len(T) /\ ~Tight(T, at) /\ Goes(B, t, o, e, l, b, d, w, p, s, "value")
  BY <1>1 DEF Within
<1>3. PICK m \in 0..Len(T) : m = at + 1 /\ m > 0 /\ m + 1 = at + 2
  <2>1. Len(T) \in Nat
    BY OddType
  <2> QED BY <1>2, <2>1
<1>4. T[m] = t /\ A[m + 1] = e
  BY <1>1, <1>3
<1>5. TokenAt(B, t, o, e, l)
  <2>1. at \in 0..(Len(T) - 1)
    BY <1>2, OddType
  <2> QED BY <1>1, <2>1, TokenAtIs
<1>6. Places(d, p, s) /\ Kept(B, OddOf(t, e), d, w, b, s.start) /\ Have(B, t, o, e, b, d, p, s)
  BY <1>2 DEF Goes
<1>7. /\ s.start \in Nat /\ p \in Nat /\ s.start <= p /\ p <= Len(d) /\ Len(d) \in Nat
      /\ e \in Nat
  <2>1. Len(d) \in Nat
    BY <1>6 DEF Kept
  <2> QED BY <1>5, <1>6, <2>1 DEF Places, St, TokenAt
<1>8. Kept(B, OddOf(t, e), d, w, b, p)
  <2>1. p \in s.start..Len(d)
    BY <1>7
  <2> QED BY <1>6, <2>1, LessKept
<1>9. s.ts = t.ts
  BY <1>6 DEF Have
<1>10. Kept(B, OddAt(T, A, m), d, w, b, p)
  <2>1. OddOf(t, e) \in Nat /\ b + p >= OddOf(t, e)
    <3>1. CASE t.ts \in Closed
      <4>1. b + p = e
        BY <1>6, <3>1 DEF Have, HaveNum, HaveTok, HaveString, HaveParen, Closed, Lists
      <4>2. OddOf(t, e) = e
        BY <3>1 DEF OddOf
      <4> QED BY <1>7, <4>1, <4>2
    <3>2. CASE t.ts \notin Closed
      <4>1. OddOf(t, e) = 0
        BY <3>2 DEF OddOf
      <4>2. b + p >= 0
        BY <1>7
      <4> QED BY <4>1, <4>2
    <3> QED BY <3>1, <3>2
  <2> QED BY <1>8, <2>1, BehindKept
<1>11. ValueRight(t, d, s)
  BY <1>6 DEF Have, HaveNum, HaveTok, HaveString, HaveParen, ValueRight, Closed, Lists
<1>12. \/ s.ts \in Out /\ b + p = A[m + 1] /\ ~Tight(T, m)
       \/ s.ts \in Lists /\ b + p = A[m + 1] /\ Tight(T, m)
       \/ s.ts \in Lists /\ b + p + 1 = A[m + 1] /\ B[A[m + 1]] = " " /\ ~Tight(T, m)
  <2>1. CASE t.ts \in Closed
    <3>1. b + p = e
      BY <1>6, <2>1 DEF Have, HaveNum, HaveTok, HaveString, HaveParen, Closed, Lists
    <3>2. ~Tight(T, m)
      BY <1>4, <2>1 DEF Tight, Closed, Lists
    <3> QED BY <1>4, <1>9, <2>1, <3>1, <3>2 DEF Closed, Out
  <2>2. CASE t.ts \notin Closed
    <3>1. HaveParen(B, t, o, e, b, p, s)
      BY <1>6, <2>2 DEF Have, HaveNum, HaveTok, HaveString, Closed
    <3>2. t.ts \in Lists /\ (Tight(T, m) <=> Len(t.text) = 1)
      BY <1>3, <1>4, <3>1 DEF HaveParen, Tight
    <3>3. \/ Len(t.text) = 1 /\ b + p = e
          \/ Len(t.text) = 2 /\ b + p + 1 = e /\ B[e] = " "
      BY <3>1 DEF HaveParen
    <3>4. s.ts \in Lists
      BY <1>9, <3>2
    <3>5. CASE Len(t.text) = 1 /\ b + p = e
      BY <1>4, <3>2, <3>4, <3>5
    <3>6. CASE Len(t.text) = 2 /\ b + p + 1 = e /\ B[e] = " "
      <4>b. Len(t.text) = 2
        BY <3>6
      <4>a. Len(t.text) # 1
        BY <4>b
      <4>1. ~Tight(T, m)
        BY <3>2, <4>a
      <4> QED BY <1>4, <3>4, <3>6, <4>1
    <3> QED BY <3>3, <3>5, <3>6
  <2> QED BY <2>1, <2>2
<1>13. Ready(T, A, B, m, b, d, w, p, s)
  BY <1>6, <1>10, <1>12 DEF Ready
<1> QED BY <1>1, <1>2, <1>3, <1>11, <1>13

\* What does not match is given back, if it is no string.
LEMMA GivesBack ==
  ASSUME NEW T, NEW A, NEW B, Starts(T, A, B), NEW at \in 0..Len(T), NEW b \in Nat,
         NEW d, NEW w, NEW p, NEW s, Within(T, A, B, at, b, d, w, p, s, "value"),
         T[at + 1].ts # "STRING_OUT", NEW s2, s2 = [s EXCEPT !.back = TRUE]
  PROVE  Given(T, A, B, at, b, d, w, p, s2)
<1>1. PICK t, o, e, l : t = T[at + 1] /\ o = A[at + 1] /\ e = A[at + 2] /\ l = Lead(t)
  OBVIOUS
<1>2. at < Len(T) /\ ~Tight(T, at) /\ Goes(B, t, o, e, l, b, d, w, p, s, "value")
  BY <1>1 DEF Within
<1>3. Places(d, p, s) /\ Kept(B, OddOf(t, e), d, w, b, s.start) /\ Have(B, t, o, e, b, d, p, s)
  BY <1>2 DEF Goes
<1>4. b + s.start = o
  BY <1>1, <1>3 DEF Have, HaveNum, HaveTok, HaveString, HaveParen
<1>5. s2 \in St /\ s2.start = s.start /\ s2.back = TRUE
  BY <1>3 DEF Places, St
<1>6. OddAt(T, A, at) = OddOf(t, e)
  BY <1>1, <1>2 DEF OddAt
<1> QED BY <1>1, <1>2, <1>3, <1>4, <1>5, <1>6 DEF Given, Places

\* It is read again.
LEMMA ReadsAgain ==
  ASSUME NEW T, NEW A, NEW B, NEW at \in 0..Len(T), NEW b \in Nat,
         NEW d, NEW w, NEW p, NEW s, Given(T, A, B, at, b, d, w, p, s),
         NEW s2, s2 = [s EXCEPT !.back = FALSE, !.ts = "START"]
  PROVE  Ready(T, A, B, at, b, d, w, s.start, s2)
<1>1. s2 \in St /\ s2.start = s.start /\ s2.back = FALSE /\ s2.ts = "START"
  <2>1. "START" \in TokenizerStates
    BY DEF TokenizerStates, Out
  <2> QED BY <2>1 DEF Given, St
<1>2. s.start \in 0..Len(d) /\ s.start <= s.start
  <2>1. s.start \in Nat /\ p \in 0..Len(d) /\ s.start <= p /\ Len(d) \in Nat
    BY DEF Given, St, Kept
  <2> QED BY <2>1
<1>3. Places(d, s.start, s2)
  BY <1>1, <1>2 DEF Places
<1> QED BY <1>1, <1>3 DEF Given, Ready, Out

\* bytestream_recycle.
Recycles(d, p, s, n, d2, p2, s2) ==
  /\ n \in {0, s.start} /\ p2 = p - n /\ Piece(d2, d, n, Len(d))
  /\ s2 \in St /\ s2.ts = s.ts /\ s2.start = s.start - n /\ s2.back = s.back

LEMMA RecycledIs ==
  ASSUME NEW s \in St, Recycled(s), data \in Letters, pos \in 0..Len(data), s.start <= pos
  PROVE  \E n \in Nat : Recycles(data, pos, s, n, data', pos', st')
<1>1. PICK n \in {0, s.start} :
        /\ data' = SubSeq(data, n + 1, Len(data)) /\ pos' = pos - n
        /\ st' = [s EXCEPT !.start = @ - n, !.end = IF @ < n THEN 0 ELSE @ - n]
  BY DEF Recycled
<1>2. s.start \in Nat /\ s.end \in Nat /\ Len(data) \in Nat /\ n \in Nat
  <2>1. s.start \in Nat /\ s.end \in Nat
    BY DEF St
  <2>2. Len(data) \in Nat
    BY LenProperties DEF Letters
  <2> QED BY <2>1, <2>2
<1>3. PICK a \in Nat, z \in Nat : a = s.start - n /\ z = IF s.end < n THEN 0 ELSE s.end - n
  BY <1>2
<1>4. st' = [s EXCEPT !.start = a, !.end = z]
  BY <1>1, <1>3
<1>5. st' \in St /\ st'.ts = s.ts /\ st'.start = a /\ st'.back = s.back
  BY <1>4 DEF St
<1>6. n <= Len(data) /\ Len(data) <= Len(data)
  BY <1>2
<1>7. PICK d2 : d2 = SubSeq(data, n + 1, Len(data))
  OBVIOUS
<1>8. Piece(d2, data, n, Len(data))
  BY <1>2, <1>6, <1>7, PieceIs
<1>9. Piece(data', data, n, Len(data))
  BY <1>1, <1>7, <1>8
<1> QED BY <1>1, <1>2, <1>3, <1>5, <1>9 DEF Recycles

LEMMA ReadyRecycles ==
  ASSUME NEW T, NEW A, NEW B, NEW at \in 0..Len(T), NEW b \in Nat,
         NEW d, NEW w, NEW p, NEW s, Ready(T, A, B, at, b, d, w, p, s),
         NEW n \in Nat, NEW d2, NEW p2, NEW s2, Recycles(d, p, s, n, d2, p2, s2)
  PROVE  Ready(T, A, B, at, b + n, d2, w, p2, s2)
<1>1. Places(d, p, s) /\ Kept(B, OddAt(T, A, at), d, w, b, p)
  BY DEF Ready
<1>2. /\ n \in {0, s.start} /\ p2 = p - n /\ Piece(d2, d, n, Len(d))
      /\ s2 \in St /\ s2.ts = s.ts /\ s2.start = s.start - n /\ s2.back = s.back
  BY DEF Recycles
<1>3. PICK q \in Nat, f \in Nat : q = p /\ f = s.start /\ f <= q
  <2>1. Len(d) \in Nat
    BY <1>1 DEF Kept
  <2> QED BY <1>1, <2>1 DEF Places, St
<1>4. n \in 0..q /\ n <= f
  BY <1>2, <1>3
<1>5. Kept(B, OddAt(T, A, at), d2, w, b + n, p - n) /\ Len(d2) = Len(d) - n
  <2>1. n \in 0..p
    BY <1>3, <1>4
  <2> QED BY <1>1, <1>2, <2>1, DropKeeps
<1>6. p2 \in 0..Len(d2)
  BY <1>2, <1>5 DEF Kept
<1>7. s2.start <= p2
  BY <1>2, <1>3, <1>4
<1>8. Places(d2, p2, s2)
  BY <1>1, <1>2, <1>6, <1>7 DEF Places
<1>9. b + n + p2 = b + p
  BY <1>2, <1>3, <1>4
<1> QED BY <1>2, <1>5, <1>8, <1>9 DEF Ready

LEMMA GivenRecycles ==
  ASSUME NEW T, NEW A, NEW B, NEW at \in 0..Len(T), NEW b \in Nat,
         NEW d, NEW w, NEW p, NEW s, Given(T, A, B, at, b, d, w, p, s),
         NEW n \in Nat, NEW d2, NEW p2, NEW s2, Recycles(d, p, s, n, d2, p2, s2)
  PROVE  Given(T, A, B, at, b + n, d2, w, p2, s2)
<1>1. /\ s \in St /\ p \in 0..Len(d) /\ s.start <= p /\ s.back = TRUE
      /\ b + s.start = A[at + 1] /\ Kept(B, OddAt(T, A, at), d, w, b, s.start)
  BY DEF Given
<1>2. /\ n \in {0, s.start} /\ p2 = p - n /\ Piece(d2, d, n, Len(d))
      /\ s2 \in St /\ s2.ts = s.ts /\ s2.start = s.start - n /\ s2.back = s.back
  BY DEF Recycles
<1>a. s.start \in Nat /\ p \in Nat /\ Len(d) \in Nat /\ p <= Len(d)
  <2>1. Len(d) \in Nat
    BY <1>1 DEF Kept
  <2>2. s.start \in Nat
    BY <1>1 DEF St
  <2> QED BY <1>1, <2>1, <2>2
<1>3. PICK q \in Nat, f \in Nat, m \in Nat : q = p /\ f = s.start /\ f <= q /\ m = Len(d) /\ q <= m
  BY <1>1, <1>a
<1>4. n \in 0..f
  BY <1>2, <1>3
<1>5. Kept(B, OddAt(T, A, at), d2, w, b + n, s.start - n) /\ Len(d2) = Len(d) - n
  <2>1. n \in 0..s.start
    BY <1>3, <1>4
  <2> QED BY <1>1, <1>2, <2>1, DropKeeps
<1>6. p2 \in 0..Len(d2)
  <2>1. p2 = q - n /\ Len(d2) = m - n
    BY <1>2, <1>3, <1>5
  <2>2. q - n \in 0..(m - n)
    BY <1>3, <1>4
  <2> QED BY <2>1, <2>2
<1>7. s2.start <= p2
  BY <1>2, <1>3, <1>4
<1>8. b + n + s2.start = b + s.start
  BY <1>2, <1>3, <1>4
<1>9. at < Len(T) /\ ~Tight(T, at)
  BY DEF Given
<1> QED BY <1>1, <1>2, <1>5, <1>6, <1>7, <1>8, <1>9 DEF Given

\* bytestream_consume_data.
LEMMA Reading ==
  ASSUME NEW d \in Letters, NEW w \in Letters, NEW n \in 1..Len(w),
         NEW d2, d2 = d \o SubSeq(w, 1, n), NEW w2, w2 = SubSeq(w, n + 1, Len(w))
  PROVE  \E r : Piece(r, w, 0, n) /\ Behind(d2, d, r) /\ Piece(w2, w, n, Len(w))
<1>0. Len(w) \in Nat
  BY LenProperties DEF Letters
<1>1. PICK r : r = SubSeq(w, 0 + 1, n)
  OBVIOUS
<1>2. 0 \in Nat /\ n \in Nat /\ 0 <= n /\ n <= Len(w) /\ Len(w) <= Len(w)
  BY <1>0
<1>3. Piece(r, w, 0, n)
  BY <1>1, <1>2, PieceIs
<1>4. r = SubSeq(w, 1, n)
  BY <1>1
<1>5. Behind(d2, d, r)
  <2>1. r \in Letters
    BY <1>3 DEF Piece
  <2> QED BY <1>4, <2>1, BehindIs
<1>6. PICK v : v = SubSeq(w, n + 1, Len(w))
  OBVIOUS
<1>7. Piece(v, w, n, Len(w))
  BY <1>0, <1>2, <1>6, PieceIs
<1>8. Piece(w2, w, n, Len(w))
  BY <1>6, <1>7
<1> QED BY <1>3, <1>5, <1>8

Reads(d, w, d2, w2) ==
  \E n \in 1..Len(w) : \E r : Piece(r, w, 0, n) /\ Behind(d2, d, r) /\ Piece(w2, w, n, Len(w))

LEMMA ReadsKept ==
  ASSUME NEW B, NEW odd, NEW d, NEW w, NEW b, NEW from, Kept(B, odd, d, w, b, from),
         NEW d2, NEW w2, Reads(d, w, d2, w2)
  PROVE  /\ Kept(B, odd, d2, w2, b, from) /\ Total(d2, w2) = Total(d, w)
         /\ Len(d) \in Nat /\ Len(d2) \in Nat /\ Len(d) <= Len(d2)
<1>a. PICK n \in 1..Len(w) :
        \E r : Piece(r, w, 0, n) /\ Behind(d2, d, r) /\ Piece(w2, w, n, Len(w))
  BY DEF Reads
<1>1. PICK r : Piece(r, w, 0, n) /\ Behind(d2, d, r) /\ Piece(w2, w, n, Len(w))
  BY <1>a
<1>2. Kept(B, odd, d2, w2, b, from) /\ Total(d2, w2) = Total(d, w) /\ Len(d2) = Len(d) + n
  BY <1>1, ReadKeeps
<1>3. Len(d) \in Nat /\ Len(d2) \in Nat /\ Len(w) \in Nat
  BY <1>2 DEF Kept
<1>4. Len(d) <= Len(d2)
  BY <1>2, <1>3
<1> QED BY <1>2, <1>3, <1>4

LEMMA PlacesGrow ==
  ASSUME NEW d, NEW p, NEW s, Places(d, p, s), NEW d2, Len(d) \in Nat, Len(d2) \in Nat,
         Len(d) <= Len(d2)
  PROVE  Places(d2, p, s)
<1>1. p \in 0..Len(d)
  BY DEF Places
<1>2. p \in 0..Len(d2)
  BY <1>1
<1> QED BY <1>2 DEF Places

LEMMA ReadyReads ==
  ASSUME NEW T, NEW A, NEW B, NEW at \in 0..Len(T), NEW b \in Nat,
         NEW d, NEW w, NEW p, NEW s, Ready(T, A, B, at, b, d, w, p, s),
         NEW d2, NEW w2, Reads(d, w, d2, w2)
  PROVE  Ready(T, A, B, at, b, d2, w2, p, s) /\ Total(d2, w2) = Total(d, w)
<1>1. Places(d, p, s) /\ Kept(B, OddAt(T, A, at), d, w, b, p)
  BY DEF Ready
<1>2. /\ Kept(B, OddAt(T, A, at), d2, w2, b, p) /\ Total(d2, w2) = Total(d, w)
      /\ Len(d) \in Nat /\ Len(d2) \in Nat /\ Len(d) <= Len(d2)
  BY <1>1, ReadsKept
<1>3. Places(d2, p, s)
  BY <1>1, <1>2, PlacesGrow
<1> QED BY <1>2, <1>3 DEF Ready

LEMMA WithinReads ==
  ASSUME NEW T, NEW A, NEW B, NEW at \in 0..Len(T), NEW b \in Nat,
         NEW d, NEW w, NEW p, NEW s, Within(T, A, B, at, b, d, w, p, s, "read"),
         NEW d2, NEW w2, Reads(d, w, d2, w2)
  PROVE  Within(T, A, B, at, b, d2, w2, p, s, "read") /\ Total(d2, w2) = Total(d, w)
<1>1. PICK t, o, e, l : t = T[at + 1] /\ o = A[at + 1] /\ e = A[at + 2] /\ l = Lead(t)
  OBVIOUS
<1>2. /\ at < Len(T) /\ ~Tight(T, at) /\ Places(d, p, s) /\ Kept(B, OddOf(t, e), d, w, b, s.start)
      /\ Inside(t, o, l, b, p, s)
  BY <1>1 DEF Within, Goes
<1>3. /\ Kept(B, OddOf(t, e), d2, w2, b, s.start) /\ Total(d2, w2) = Total(d, w)
      /\ Len(d) \in Nat /\ Len(d2) \in Nat /\ Len(d) <= Len(d2)
  BY <1>2, ReadsKept
<1>4. Places(d2, p, s)
  BY <1>2, <1>3, PlacesGrow
<1> QED BY <1>1, <1>2, <1>3, <1>4 DEF Within, Goes

-----------------------------------------------------------------------------
(***************************************************************************)
(* Where all has been read.                                                *)
(***************************************************************************)
LEMMA ReadyAtEnd ==
  ASSUME NEW T, NEW A, NEW B, Starts(T, A, B), NEW at \in 0..Len(T), NEW b \in Nat,
         NEW d, NEW w, NEW p, NEW s, Ready(T, A, B, at, b, d, w, p, s),
         p >= Len(d), w = <<>>, b + Total(d, w) = Len(B)
  PROVE  at = Len(T)
<1>1. SUFFICES ASSUME at # Len(T) PROVE FALSE
  OBVIOUS
<1>2. PICK n \in Nat, m \in Nat, o \in Nat, e \in Nat : n = Len(B) /\ m = Len(d) /\ o = A[at + 1]
                                                        /\ o < e /\ e <= n
  <2>1. Len(T) \in Nat /\ Len(B) \in Nat /\ A[at + 1] \in Nat
    BY OddType
  <2>2. at \in 0..(Len(T) - 1)
    BY <1>1, <2>1
  <2>3. TokenAt(B, T[at + 1], A[at + 1], A[at + 2], Lead(T[at + 1]))
    BY <2>2, TokenAtIs
  <2>4. Len(d) \in Nat
    BY DEF Ready, Kept
  <2> QED BY <2>1, <2>3, <2>4 DEF TokenAt
<1>a. p \in 0..m
  BY <1>2 DEF Ready, Places
<1>3. PICK q \in Nat : q = p /\ q <= m /\ q >= m
  BY <1>2, <1>a
<1>4. b + m = n
  <2>1. Len(w) = 0
    BY EmptySeq
  <2>2. Total(d, w) = m + 0
    BY <1>2, <2>1 DEF Total
  <2> QED BY <1>2, <2>2
<1>5. b + q = n
  BY <1>3, <1>4
<1>6. b + q = o \/ b + q + 1 = o
  BY <1>2, <1>3 DEF Ready
<1>7. o < e /\ e <= n
  BY <1>2
<1> QED BY <1>5, <1>6, <1>7

LEMMA WithinAtEnd ==
  ASSUME NEW T, NEW A, NEW B, Starts(T, A, B), NEW at \in 0..Len(T), NEW b \in Nat,
         NEW d, NEW w, NEW p, NEW s, Within(T, A, B, at, b, d, w, p, s, "read"),
         p >= Len(d), w = <<>>, b + Total(d, w) = Len(B)
  PROVE  FALSE
<1>1. PICK t, o, e, l : t = T[at + 1] /\ o = A[at + 1] /\ e = A[at + 2] /\ l = Lead(t)
  OBVIOUS
<1>2. /\ at < Len(T) /\ Places(d, p, s) /\ Kept(B, OddOf(t, e), d, w, b, s.start)
      /\ Inside(t, o, l, b, p, s)
  BY <1>1 DEF Within, Goes
<1>3. TokenAt(B, t, o, e, l)
  <2>1. at \in 0..(Len(T) - 1)
    BY <1>2, OddType
  <2> QED BY <1>1, <2>1, TokenAtIs
<1>4. o \in Nat /\ e \in Nat /\ l \in Nat /\ e <= Len(B) /\ Len(B) \in Nat /\ Len(d) \in Nat
  BY <1>2, <1>3, OddType DEF TokenAt, Kept
<1>5. PICK n \in Nat, m \in Nat, oo \in Nat, ee \in Nat, ll \in Nat :
        n = Len(B) /\ m = Len(d) /\ oo = o /\ ee = e /\ ll = l /\ ee <= n
  BY <1>4
<1>6. PICK q \in Nat : q = p /\ q <= m /\ q >= m
  BY <1>2, <1>5 DEF Places
<1>7. b + q = n
  <2>1. Len(w) = 0
    BY EmptySeq
  <2>2. Total(d, w) = m + 0
    BY <1>5, <2>1 DEF Total
  <2>3. b + m = n
    BY <1>5, <2>2
  <2> QED BY <1>6, <2>3
<1>8. b + q < ee
  <2>1. CASE InNum(t, o, l, b, p, s) \/ InTok(t, o, l, b, p, s)
    <3>1. b + q <= oo + ll
      BY <1>5, <1>6, <2>1 DEF InNum, InTok
    <3>2. oo + ll < ee
      <4>1. CASE t.ts = "NUM_OUT" \/ t.ts = "TOK_OUT" \/ t.ts = "BAD"
        <5>1. NumAt(B, o, e, l) \/ WordAt(B, o, e, l) \/ BadAt(B, o, e, l)
          BY <1>3, <4>1 DEF TokenAt
        <5>2. e = o + l + 1
          BY <5>1 DEF NumAt, WordAt, BadAt
        <5>3. ee = oo + ll + 1
          BY <1>5, <5>2
        <5> QED BY <5>3
      <4>4. CASE t.ts = "STRING_OUT"
        <5>1. StringAt(B, o, e, l, Len(t.text))
          BY <1>3, <4>4 DEF TokenAt
        <5>2. PICK v \in Nat : v = Len(t.text) /\ ee = oo + ll + 1 + v + 1
          BY <1>5, <5>1 DEF StringAt
        <5>3. ee = oo + ll + 1 + v + 1
          BY <5>2
        <5> QED BY <5>3
      <4> QED BY <2>1, <4>1, <4>4 DEF InNum, InTok
    <3> QED BY <3>1, <3>2
  <2>2. CASE InString(t, o, l, b, p, s) \/ AtCheck(t, o, l, b, p, s)
    <3>1. StringAt(B, o, e, l, Len(t.text))
      BY <1>3, <2>2 DEF TokenAt, InString, AtCheck
    <3>2. PICK v \in Nat : v = Len(t.text) /\ ee = oo + ll + 1 + v + 1
      BY <1>5, <3>1 DEF StringAt
    <3>3. PICK f \in Nat : f = s.start
      BY <1>2 DEF Places, St
    <3>4. b + f = oo + ll + 1
      BY <1>5, <2>2, <3>3 DEF InString, AtCheck
    <3>5. q <= f + v
      BY <1>6, <2>2, <3>2, <3>3 DEF InString, AtCheck
    <3>6. ee = oo + ll + 1 + v + 1
      BY <3>2
    <3> QED BY <3>4, <3>5, <3>6
  <2> QED BY <1>2, <2>1, <2>2 DEF Inside
<1>9. ee <= n
  BY <1>5
<1> QED BY <1>7, <1>8, <1>9

\* Behind the last token is nothing but its space.
LEMMA OnlySpace ==
  ASSUME NEW T, NEW A, NEW B, Starts(T, A, B), NEW at \in 0..Len(T), at = Len(T),
         NEW b \in Nat, NEW d, NEW w, NEW p, NEW s, Ready(T, A, B, at, b, d, w, p, s),
         NEW c \in Range(SubSeq(d, p + 1, Len(d)) \o w)
  PROVE  c \in Space
<1>1. Places(d, p, s) /\ Kept(B, OddAt(T, A, at), d, w, b, p)
  BY DEF Ready
<1>2. d \in Letters /\ w \in Letters /\ Len(d) \in Nat /\ p \in Nat /\ p <= Len(d)
  BY <1>1 DEF Kept, Places
<1>3. PICK r : r = SubSeq(d, p + 1, Len(d))
  OBVIOUS
<1>4. Piece(r, d, p, Len(d))
  <2>1. Len(d) <= Len(d)
    BY <1>2
  <2> QED BY <1>2, <1>3, <2>1, PieceIs
<1>5. PICK u : u = r \o w
  OBVIOUS
<1>6. Behind(u, r, w)
  <2>1. r \in Letters
    BY <1>4 DEF Piece
  <2> QED BY <1>2, <1>5, <2>1, BehindIs
<1>7. c \in Range(u)
  BY <1>3, <1>5
<1>8. PICK q \in (p + 1)..Total(d, w) : Alike(B, OddAt(T, A, at), b + q, c)
  BY <1>1, <1>4, <1>6, <1>7, UnreadKept
<1>9. OddAt(T, A, at) = 0 /\ A[at + 1] = Len(B)
  <2>1. ~(at < Len(T))
    BY OddType
  <2> QED BY <2>1 DEF OddAt, Starts
<1>a. Len(B) \in Nat
  BY OddType
<1>b. Total(d, w) \in Nat
  BY <1>1 DEF Kept, Total
<1>c. b + Total(d, w) <= Len(B)
  BY <1>1 DEF Kept
<1>10. PICK n \in Nat, y \in Nat, v \in Nat :
         n = Len(B) /\ y = p /\ v = Total(d, w) /\ b + v <= n
  BY <1>2, <1>a, <1>b, <1>c
<1>11. q \in (y + 1)..v
  BY <1>10
<1>d. PICK x \in Nat : x = q /\ x > y /\ x <= v
  BY <1>11
<1>e. b + v <= n
  BY <1>10
<1>12. b + x > b + y /\ b + x <= n
  BY <1>d, <1>e
<1>13. b + y = n \/ (b + y + 1 = n /\ B[n] = " ")
  BY <1>9, <1>10 DEF Ready
<1>f. b + y # n
  BY <1>12
<1>14. b + y + 1 = n /\ B[n] = " "
  BY <1>13, <1>f
<1>g. b + y + 1 = n
  BY <1>14
<1>15. b + x = n
  BY <1>12, <1>g
<1>16. B[b + q] = " "
  BY <1>14, <1>15, <1>d
<1> QED BY <1>8, <1>16, Apart DEF Alike

\* parse_one_value keeps the length of the buffer.
LEMMA SameLength ==
  ASSUME Tokenized, data \in Letters, pos \in Nat, pos < Len(data)
  PROVE  Len(data') = Len(data)
<1>1. data' = data \/ data' = Cleared
  BY DEF Tokenized, StringBytes, EndOfToken, Parenthesis, Between, InToken, LengthOfString,
         Skip, Stay
<1>2. Len(data) \in Nat
  BY LenProperties DEF Letters
<1>3. PICK p \in 1..Len(data) : p = pos + 1
  BY <1>2
<1>4. Wiped([data EXCEPT ![p] = "nul"], data, p)
  BY <1>3, WipedIs
<1>5. Wiped(Cleared, data, p)
  BY <1>3, <1>4 DEF Cleared
<1> QED BY <1>1, <1>5 DEF Wiped

-----------------------------------------------------------------------------
(***************************************************************************)
(* What an exchange means, turn by turn.                                   *)
(***************************************************************************)
LEMMA CourseIs ==
  ASSUME NEW e, Turns \in Nat
  PROVE  \A k \in 0..Turns :
           Course(e)[k] = IF k = 0 THEN Start(e) ELSE Turn(e.tokens, Course(e)[k - 1])
<1> DEFINE Right(f, n) == f = [k \in 0..n |-> IF k = 0 THEN Start(e) ELSE Turn(e.tokens, f[k - 1])]
           T == {n \in Nat : \E f : Right(f, n)}
<1>1. 0 \in T
  <2>1. Right([k \in 0..0 |-> Start(e)], 0)
    OBVIOUS
  <2> HIDE DEF Right
  <2> QED BY <2>1
<1>2. ASSUME NEW n \in T PROVE n + 1 \in T
  <2>1. PICK f : Right(f, n)
    <3> HIDE DEF Right
    <3> QED OBVIOUS
  <2>2. \A k \in 0..n : f[k] = IF k = 0 THEN Start(e) ELSE Turn(e.tokens, f[k - 1])
    BY <2>1
  <2>3. PICK x : x = Turn(e.tokens, f[n])
    OBVIOUS
  <2> DEFINE g == [k \in 0..(n + 1) |-> IF k = n + 1 THEN x ELSE f[k]]
  <2>4. ASSUME NEW k \in 0..(n + 1)
        PROVE  g[k] = IF k = 0 THEN Start(e) ELSE Turn(e.tokens, g[k - 1])
    <3>1. CASE k = n + 1
      <4>1. g[k] = x /\ k # 0 /\ g[k - 1] = f[n]
        BY <3>1
      <4> HIDE DEF g
      <4> QED BY <2>3, <4>1
    <3>2. CASE k \in 1..n
      <4>1. g[k] = f[k] /\ g[k - 1] = f[k - 1] /\ k # 0
        BY <3>2
      <4>2. f[k] = Turn(e.tokens, f[k - 1])
        BY <2>2, <3>2
      <4> HIDE DEF g
      <4> QED BY <4>1, <4>2
    <3>3. CASE k = 0
      <4>1. g[k] = f[k]
        BY <3>3
      <4>2. f[0] = Start(e)
        BY <2>2
      <4> HIDE DEF g
      <4> QED BY <3>3, <4>1, <4>2
    <3> QED BY <3>1, <3>2, <3>3
  <2>5. Right(g, n + 1)
    <3>1. g = [k \in 0..(n + 1) |-> g[k]]
      OBVIOUS
    <3> HIDE DEF g
    <3> QED BY <2>4, <3>1
  <2> HIDE DEF g, Right
  <2> QED BY <2>5
<1>3. T = Nat
  <2> HIDE DEF Right
  <2>1. T \in SUBSET Nat
    OBVIOUS
  <2> HIDE DEF T
  <2> QED BY <1>1, <1>2, <2>1, NatInduct
<1>4. PICK f : Right(f, Turns)
  <2> HIDE DEF Right
  <2> QED BY <1>3
<1> DEFINE course == CHOOSE f1 : Right(f1, Turns)
<1>5. Right(course, Turns)
  <2> HIDE DEF Right
  <2> QED BY <1>4
<1>6. Course(e) = course
  BY DEF Course
<1> HIDE DEF course
<1>7. \A k \in 0..Turns :
        course[k] = IF k = 0 THEN Start(e) ELSE Turn(e.tokens, course[k - 1])
  BY <1>5
<1> HIDE DEF Right
<1> QED BY <1>6, <1>7

LEMMA CourseNext ==
  ASSUME NEW e, NEW k \in 0..Turns, k < Turns
  PROVE  k + 1 \in 0..Turns /\ Course(e)[k + 1] = Turn(e.tokens, Course(e)[k])
<1>1. Turns \in Nat
  BY ExchangeAssumption
<1>2. k + 1 \in 0..Turns /\ k + 1 # 0 /\ k + 1 - 1 = k
  BY <1>1
<1>3. Course(e)[k + 1] = IF k + 1 = 0 THEN Start(e) ELSE Turn(e.tokens, Course(e)[k + 1 - 1])
  BY <1>1, <1>2, CourseIs
<1> QED BY <1>2, <1>3

\* What has ended stays so.
LEMMA CourseStays ==
  ASSUME NEW e, NEW k \in 0..Turns, Course(e)[k].outcome # "running"
  PROVE  Course(e)[Turns] = Course(e)[k]
<1>1. Turns \in Nat
  BY ExchangeAssumption
<1> DEFINE T == {j \in 0..Turns : j >= k => Course(e)[j] = Course(e)[k]}
<1>2. 0 \in T
  BY <1>1
<1>3. ASSUME NEW j \in T, j < Turns PROVE j + 1 \in T
  <2>1. j + 1 \in 0..Turns /\ Course(e)[j + 1] = Turn(e.tokens, Course(e)[j])
    BY <1>3, CourseNext
  <2>2. CASE j >= k
    <3>1. Course(e)[j] = Course(e)[k]
      BY <2>2
    <3>2. Turn(e.tokens, Course(e)[k]) = Course(e)[k]
      BY DEF Turn
    <3> QED BY <2>1, <3>1, <3>2
  <2>3. CASE ~(j >= k)
    <3>1. j + 1 >= k => j + 1 = k
      BY <1>1, <2>3
    <3> QED BY <2>1, <3>1
  <2> QED BY <2>2, <2>3
<1>4. Turns \in T
  <2>1. T \in SUBSET (0..Turns)
    OBVIOUS
  <2> HIDE DEF T
  <2> QED BY <1>1, <1>2, <1>3, <2>1, UpTo
<1>5. Turns >= k
  BY <1>1
<1> QED BY <1>4, <1>5

\* An exchange goes on until it has the outcome it is to have.
LEMMA CourseEnds ==
  ASSUME NEW e \in Exchanges, NEW k \in 0..Turns
  PROVE  \/ Course(e)[k].outcome = "running" /\ k < Turns
         \/ /\ Course(e)[k].outcome \in {"ok", "refused", "failed"}
            /\ Course(e)[k].outcome = e.outcome
            /\ e.outcome # "failed" => /\ Course(e)[k].got = e.wanted
                                       /\ Course(e)[k].at = Len(e.tokens)
<1>1. /\ Turns \in Nat /\ e.outcome \in {"ok", "refused", "failed"}
      /\ Course(e)[Turns].outcome = e.outcome
      /\ e.outcome # "failed" => /\ Course(e)[Turns].got = e.wanted
                                 /\ Course(e)[Turns].at = Len(e.tokens)
  BY ExchangeAssumption
<1>2. CASE Course(e)[k].outcome = "running"
  <2>1. k # Turns
    BY <1>1, <1>2
  <2>2. k < Turns
    BY <1>1, <2>1
  <2> QED BY <1>2, <2>2
<1>3. CASE Course(e)[k].outcome # "running"
  <2>1. Course(e)[Turns] = Course(e)[k]
    BY <1>3, CourseStays
  <2> QED BY <1>1, <2>1
<1> QED BY <1>2, <1>3

-----------------------------------------------------------------------------
(***************************************************************************)
(* The inductive invariant: unless the client has given up, it is at some  *)
(* turn of what the exchange means, and where that leaves it.              *)
(***************************************************************************)
Stage(at, f, c, v, g, o) ==
  [at |-> at, frames |-> f, calls |-> c, word |-> v, got |-> g, outcome |-> o]

Follows(k, at) ==
  /\ k \in 0..Turns
  /\ Course(exchange)[k] = Stage(at, frames, calls, word, got, outcome)

Stands(T, A, B, at, b) ==
  \/ phase = "spec" /\ (Ready(T, A, B, at, b, data, wire, pos, st)
                          \/ Given(T, A, B, at, b, data, wire, pos, st))
  \/ phase = "read" /\ Ready(T, A, B, at, b, data, wire, pos, st)
  \/ phase \in {"read", "value"} /\ Within(T, A, B, at, b, data, wire, pos, st, phase)

Wanting == outcome = "running" /\ Top.spec # <<>> /\ Item \notin Callbacks

Fits(T, A, B, k, at, b) ==
  /\ Starts(T, A, B) /\ at \in 0..Len(T) /\ b \in Nat /\ Follows(k, at)
  /\ ended \/ b + Total(data, wire) = Len(B)
  /\ phase # "spec" => Wanting
  /\ Stands(T, A, B, at, b)

Fit == \E A, B, k, at, b : Fits(exchange.tokens, A, B, k, at, b)

Inv ==
  /\ exchange \in Exchanges /\ TypeOK
  /\ outcome # "failed" => Fit

-----------------------------------------------------------------------------
(***************************************************************************)
(* read_one_value and parse_one_value keep it: no turn is made.            *)
(***************************************************************************)
\* A step on the way to a token.
LEMMA SameTurn ==
  ASSUME NEW T, NEW A, NEW B, NEW k, NEW at, NEW b, Fits(T, A, B, k, at, b),
         Wanting, UNCHANGED <<exchange, ended, unpacking>>,
         ended \/ b + Total(data', wire') = Len(B), Stands(T, A, B, at, b)'
  PROVE  Fits(T, A, B, k, at, b)'
<1>1. /\ exchange' = exchange /\ ended' = ended /\ frames' = frames /\ calls' = calls
      /\ word' = word /\ got' = got /\ outcome' = outcome
  BY DEF unpacking
<1>2. Follows(k, at)'
  <2>1. Follows(k, at)
    BY DEF Fits
  <2> QED BY <1>1, <2>1 DEF Follows
<1>3. Wanting'
  BY <1>1 DEF Wanting, Top, Item
<1>4. ended' \/ b + Total(data', wire') = Len(B)
  BY <1>1
<1>5. Starts(T, A, B) /\ at \in 0..Len(T) /\ b \in Nat
  BY DEF Fits
<1> QED BY <1>2, <1>3, <1>4, <1>5 DEF Fits

LEMMA ReadOneFits ==
  ASSUME NEW T, NEW A, NEW B, NEW k, NEW at, NEW b, Fits(T, A, B, k, at, b), ReadOne
  PROVE  Fits(T, A, B, k, at, b)'
<1>1. /\ AtItem /\ phase = "spec" /\ Item \notin Callbacks /\ phase' = "read"
      /\ UNCHANGED <<exchange, wire, ended, data, unpacking>>
  BY DEF ReadOne
<1>2. Wanting
  BY <1>1 DEF AtItem, Running, Wanting
<1>3. ended \/ b + Total(data', wire') = Len(B)
  BY <1>1 DEF Fits
<1>4. at \in 0..Len(T) /\ b \in Nat
  BY DEF Fits
<1>5. Ready(T, A, B, at, b, data', wire', pos', st')
  <2>1. CASE Ready(T, A, B, at, b, data, wire, pos, st)
    <3>1. ~st.back
      BY <2>1 DEF Ready, Places
    <3>2. pos' = pos /\ st' = st
      BY <3>1 DEF ReadOne
    <3> QED BY <1>1, <2>1, <3>2
  <2>2. CASE Given(T, A, B, at, b, data, wire, pos, st)
    <3>1. st.back = TRUE
      BY <2>2 DEF Given
    <3>2. pos' = st.start /\ st' = [st EXCEPT !.back = FALSE, !.ts = "START"]
      BY <3>1 DEF ReadOne
    <3>3. Ready(T, A, B, at, b, data, wire, st.start, st')
      BY <1>4, <2>2, <3>2, ReadsAgain
    <3> QED BY <1>1, <3>2, <3>3
  <2> QED BY <1>1, <2>1, <2>2 DEF Fits, Stands
<1>6. Stands(T, A, B, at, b)'
  BY <1>1, <1>5 DEF Stands
<1> QED BY <1>1, <1>2, <1>3, <1>6, SameTurn

LEMMA ConsumeFits ==
  ASSUME NEW T, NEW A, NEW B, NEW k, NEW at, NEW b, Fits(T, A, B, k, at, b), Consume
  PROVE  Fits(T, A, B, k, at, b)'
<1>1. /\ phase = "read" /\ pos' = pos /\ st' = st /\ phase' = phase
      /\ UNCHANGED <<exchange, ended, unpacking>>
  BY DEF Consume
<1>2. Wanting
  BY <1>1 DEF Fits
<1>a. at \in 0..Len(T) /\ b \in Nat
  BY DEF Fits
<1>3. ended \/ b + Total(data, wire) = Len(B)
  BY DEF Fits
<1>4. data \in Letters /\ wire \in Letters
  BY DEF Fits, Stands, Ready, Given, Within, Goes, Kept
<1>5. Reads(data, wire, data', wire')
  <2>1. PICK n \in 1..Len(wire) :
          /\ data' = data \o SubSeq(wire, 1, n)
          /\ wire' = SubSeq(wire, n + 1, Len(wire))
    BY DEF Consume
  <2>2. \E r : Piece(r, wire, 0, n) /\ Behind(data', data, r) /\ Piece(wire', wire, n, Len(wire))
    BY <1>4, <2>1, Reading
  <2> QED BY <2>2 DEF Reads
<1>6. CASE Ready(T, A, B, at, b, data, wire, pos, st)
  <2>1. Ready(T, A, B, at, b, data', wire', pos, st) /\ Total(data', wire') = Total(data, wire)
    BY <1>a, <1>5, <1>6, ReadyReads
  <2>2. Stands(T, A, B, at, b)'
    BY <1>1, <2>1 DEF Stands
  <2>3. ended \/ b + Total(data', wire') = Len(B)
    BY <1>3, <2>1
  <2> QED BY <1>1, <1>2, <2>2, <2>3, SameTurn
<1>7. CASE Within(T, A, B, at, b, data, wire, pos, st, "read")
  <2>1. /\ Within(T, A, B, at, b, data', wire', pos, st, "read")
        /\ Total(data', wire') = Total(data, wire)
    BY <1>a, <1>5, <1>7, WithinReads
  <2>2. Stands(T, A, B, at, b)'
    BY <1>1, <2>1 DEF Stands
  <2>3. ended \/ b + Total(data', wire') = Len(B)
    BY <1>3, <2>1
  <2> QED BY <1>1, <1>2, <2>2, <2>3, SameTurn
<1> QED BY <1>1, <1>6, <1>7 DEF Fits, Stands

LEMMA ParseFits ==
  ASSUME NEW T, NEW A, NEW B, NEW k, NEW at, NEW b, Fits(T, A, B, k, at, b), ParseOne,
         outcome' # "failed"
  PROVE  Fits(T, A, B, k, at, b)'
<1>1. /\ Tokenizing /\ Legal /\ Tokenized /\ UNCHANGED <<exchange, ended, unpacking>>
      /\ wire' = wire
  BY DEF ParseOne, GiveUp
<1>2. phase = "read" /\ ~NeedMore
  BY <1>1 DEF Tokenizing
<1>3. Wanting
  BY <1>2 DEF Fits
<1>a. at \in 0..Len(T) /\ b \in Nat /\ Starts(T, A, B)
  BY DEF Fits
<1>4. ended \/ b + Total(data, wire) = Len(B)
  BY DEF Fits
<1>b. Legal /\ Tokenized /\ phase = "read" /\ wire' = wire
  BY <1>1, <1>2
<1>5. data \in Letters /\ Len(data) \in Nat
  BY DEF Fits, Stands, Ready, Given, Within, Goes, Kept
<1>6. pos \in 0..Len(data)
  BY DEF Fits, Stands, Ready, Given, Within, Goes, Places
<1>7. pos \in Nat /\ pos < Len(data)
  BY <1>2, <1>5, <1>6 DEF NeedMore
<1>8. Total(data', wire') = Total(data, wire)
  <2>1. Len(data') = Len(data)
    BY <1>1, <1>5, <1>7, SameLength
  <2> QED BY <1>1, <2>1 DEF Total
<1>9. Stands(T, A, B, at, b)'
  <2>1. CASE Ready(T, A, B, at, b, data, wire, pos, st)
    <3>1. \/ phase' = "read" /\ Ready(T, A, B, at, b, data', wire, pos', st')
          \/ Within(T, A, B, at, b, data', wire, pos', st', phase')
      BY <1>a, <1>b, <1>7, <2>1, ReadyParse
    <3>2. ASSUME Within(T, A, B, at, b, data', wire, pos', st', phase')
          PROVE  phase' \in {"read", "value"}
      BY <3>2 DEF Within, Goes
    <3> QED BY <1>1, <3>1, <3>2 DEF Stands
  <2>2. CASE Within(T, A, B, at, b, data, wire, pos, st, phase)
    <3>1. Within(T, A, B, at, b, data', wire, pos', st', phase')
      BY <1>a, <1>b, <1>7, <2>2, WithinParse
    <3>2. phase' \in {"read", "value"}
      BY <3>1 DEF Within, Goes
    <3> QED BY <1>1, <3>1, <3>2 DEF Stands
  <2> QED BY <1>2, <2>1, <2>2 DEF Fits, Stands
<1>10. ended \/ b + Total(data', wire') = Len(B)
  BY <1>4, <1>8
<1> QED BY <1>1, <1>3, <1>9, <1>10, SameTurn

-----------------------------------------------------------------------------
(***************************************************************************)
(* Each other step is a turn.                                              *)
(***************************************************************************)
Now(at) == Stage(at, frames, calls, word, got, outcome)

LEMMA NextTurn ==
  ASSUME NEW T, NEW k, NEW at, Follows(k, at), T = exchange.tokens, exchange \in Exchanges,
         outcome = "running"
  PROVE  /\ k + 1 \in 0..Turns /\ Course(exchange)[k + 1] = Turn(T, Now(at))
         /\ Turn(T, Now(at)).outcome \in {"running", "ok", "refused", "failed"}
<1>1. k \in 0..Turns /\ Course(exchange)[k] = Now(at)
  BY DEF Follows, Now
<1>2. Now(at).outcome = "running"
  BY DEF Now, Stage
<1>3. k < Turns
  BY <1>1, <1>2, CourseEnds
<1>4. k + 1 \in 0..Turns /\ Course(exchange)[k + 1] = Turn(T, Now(at))
  BY <1>1, <1>3, CourseNext
<1>5. Course(exchange)[k + 1].outcome \in {"running", "ok", "refused", "failed"}
  BY <1>4, CourseEnds
<1> QED BY <1>4, <1>5

LEMMA TurnFollows ==
  ASSUME NEW T, NEW k, NEW at, Follows(k, at), T = exchange.tokens, exchange \in Exchanges,
         outcome = "running", exchange' = exchange, NEW at2,
         Turn(T, Now(at)) = Stage(at2, frames', calls', word', got', outcome')
  PROVE  Follows(k + 1, at2)'
<1>1. k + 1 \in 0..Turns /\ Course(exchange)[k + 1] = Turn(T, Now(at))
  BY NextTurn
<1> QED BY <1>1 DEF Follows

\* A turn has been made, and the client is at an item again.
LEMMA TurnFits ==
  ASSUME NEW T, NEW A, NEW B, NEW k, NEW at, NEW b, Fits(T, A, B, k, at, b),
         T = exchange.tokens, exchange \in Exchanges, outcome = "running",
         UNCHANGED <<exchange, ended, wire>>, phase' = "spec",
         NEW at2 \in 0..Len(T), NEW b2 \in Nat,
         Turn(T, Now(at)) = Stage(at2, frames', calls', word', got', outcome'),
         Ready(T, A, B, at2, b2, data', wire, pos', st')
           \/ Given(T, A, B, at2, b2, data', wire, pos', st'),
         ended \/ b2 + Total(data', wire) = Len(B)
  PROVE  Fits(T, A, B, k + 1, at2, b2)'
<1>1. Follows(k + 1, at2)'
  <2>1. Follows(k, at)
    BY DEF Fits
  <2> QED BY <2>1, TurnFollows
<1>2. Stands(T, A, B, at2, b2)'
  BY DEF Stands
<1>3. Starts(T, A, B)
  BY DEF Fits
<1> QED BY <1>1, <1>2, <1>3 DEF Fits

\* What a turn is when a token is at hand.
LEMMA TurnAtToken ==
  ASSUME NEW T, NEW at, Wanting, at < Len(T), ~Tight(T, at), T[at + 1].ts # "BAD",
         at \in 0..Len(T)
  PROVE  Turn(T, Now(at)) = IF T[at + 1].ts = Wants(Item) THEN Took(Now(at), Item, T[at + 1])
                            ELSE NotTook(Now(at), Item, T[at + 1])
<1>1. /\ Now(at).outcome = "running" /\ Now(at).frames = frames /\ Now(at).at = at
  BY DEF Now, Stage, Wanting
<1>2. ~Illegible(T, at)
  BY DEF Illegible, Tight, Lists
<1>3. at # Len(T)
  OBVIOUS
<1>4. Top.spec # <<>> /\ Item \notin Callbacks
  BY DEF Wanting
<1> HIDE DEF Now
<1> QED BY <1>1, <1>2, <1>3, <1>4 DEF Turn, Top, Item

\* What it is to take one.
LEMMA TookIs ==
  ASSUME NEW at, NEW item, NEW t
  PROVE  Took(Now(at), item, t)
           = Stage(at + 1,
                   IF item \in Repeated /\ ~(item = "S*" /\ t.text = <<>>) THEN frames
                   ELSE AfterItem(frames),
                   calls, IF item = "w" THEN t.text ELSE word,
                   IF item \in {"(", ")"} \/ (item = "S*" /\ t.text = <<>>) THEN got
                   ELSE Append(got, Meaningful(t)), outcome)
<1>0. PICK f, v, g :
        /\ f = IF item \in Repeated /\ ~(item = "S*" /\ t.text = <<>>) THEN frames
               ELSE AfterItem(frames)
        /\ v = IF item = "w" THEN t.text ELSE word
        /\ g = IF item \in {"(", ")"} \/ (item = "S*" /\ t.text = <<>>) THEN got
               ELSE Append(got, Meaningful(t))
  OBVIOUS
<1>1. PICK m : m = Now(at)
  OBVIOUS
<1>2. /\ m = [at |-> at, frames |-> frames, calls |-> calls, word |-> word, got |-> got,
              outcome |-> outcome]
  BY <1>1 DEF Now, Stage
<1>3. m.got = got /\ m.word = word /\ m.frames = frames /\ m.at = at
  BY <1>2
<1>4. Took(m, item, t) = [m EXCEPT !.at = at + 1, !.got = g, !.word = v, !.frames = f]
  BY <1>0, <1>3, Zenon DEF Took
<1>5. Took(m, item, t) = [at |-> at + 1, frames |-> f, calls |-> calls, word |-> v, got |-> g,
                          outcome |-> outcome]
  BY <1>2, <1>4
<1> QED BY <1>0, <1>1, <1>5 DEF Stage

LEMMA TakeFits ==
  ASSUME NEW T, NEW A, NEW B, NEW k, NEW at, NEW b, Fits(T, A, B, k, at, b),
         T = exchange.tokens, exchange \in Exchanges, Take \/ TakeContents
  PROVE  Fits(T, A, B, k + 1, at + 1, b)'
<1>1. /\ phase = "value" /\ Matches /\ phase' = "spec"
      /\ UNCHANGED <<exchange, wire, ended, data, pos, st, calls, outcome>>
  BY DEF Take, TakeContents, Matching
<1>2. Wanting /\ outcome = "running"
  BY <1>1 DEF Fits, Wanting
<1>3. Starts(T, A, B) /\ at \in 0..Len(T) /\ b \in Nat
  BY DEF Fits
<1>4. ended \/ b + Total(data', wire) = Len(B)
  BY <1>1 DEF Fits
<1>5. Within(T, A, B, at, b, data, wire, pos, st, "value")
  BY <1>1 DEF Fits, Stands
<1>6. PICK t : t = T[at + 1]
  OBVIOUS
<1>7. /\ at < Len(T) /\ ~Tight(T, at) /\ ValueRight(t, data, st)
      /\ at + 1 \in 0..Len(T) /\ Ready(T, A, B, at + 1, b, data, wire, pos, st)
  BY <1>3, <1>5, <1>6, Taken
<1>8. t.ts # "BAD" /\ t.ts = Wants(Item) /\ st.ts = t.ts
  BY <1>1, <1>7 DEF ValueRight, Closed, Lists, Matches
<1>9. Turn(T, Now(at)) = Took(Now(at), Item, t)
  BY <1>2, <1>3, <1>6, <1>7, <1>8, TurnAtToken
<1>10. t.ts \in Closed => Value = Meaningful(t)
  BY <1>7 DEF ValueRight, Closed, Value, Meaningful, Text, BetweenBytes
<1>11. t.ts \in {"TOK_OUT", "STRING_OUT"} => Text = t.text
  BY <1>7 DEF ValueRight, Text, BetweenBytes
<1>12. /\ Item \in {"(", ")"} => t.ts \notin Closed
       /\ Item \notin {"(", ")"} => t.ts \in Closed
       /\ Item \in {"w", "w*"} => t.ts = "TOK_OUT"
       /\ Item = "S*" => t.ts = "STRING_OUT" /\ Item \in Repeated
  <2>1. t.ts \in Closed \cup Lists
    BY <1>7 DEF ValueRight
  <2> QED BY <1>8, <2>1 DEF Wants, Closed, Lists, Repeated
<1>13. Took(Now(at), Item, t) = Stage(at + 1, frames', calls', word', got', outcome')
  <2>1. CASE Take
    <3>1. /\ Item # "S*"
          /\ frames' = IF Item \in Repeated THEN frames ELSE AfterItem(frames)
      BY <2>1 DEF Take
    <3>2. got' = IF Item \in {"(", ")"} THEN got ELSE Append(got, Meaningful(t))
      BY <1>10, <1>12, <2>1 DEF Take, Picked
    <3>3. word' = IF Item = "w" THEN t.text ELSE word
      BY <1>11, <1>12, <2>1 DEF Take
    <3>4. PICK f, v, g, i : f = frames' /\ v = word' /\ g = got' /\ i = Item
      OBVIOUS
    <3>5. f = (IF i \in Repeated /\ ~(i = "S*" /\ t.text = <<>>) THEN frames
               ELSE AfterItem(frames))
      BY <3>1, <3>4
    <3>6. v = (IF i = "w" THEN t.text ELSE word)
      BY <3>3, <3>4
    <3>7. g = (IF i \in {"(", ")"} \/ (i = "S*" /\ t.text = <<>>) THEN got
               ELSE Append(got, Meaningful(t)))
      BY <3>1, <3>2, <3>4
    <3>8. Took(Now(at), i, t) = Stage(at + 1, f, calls, v, g, outcome)
      <4>1. Took(Now(at), i, t)
              = Stage(at + 1,
                      IF i \in Repeated /\ ~(i = "S*" /\ t.text = <<>>) THEN frames
                      ELSE AfterItem(frames),
                      calls, IF i = "w" THEN t.text ELSE word,
                      IF i \in {"(", ")"} \/ (i = "S*" /\ t.text = <<>>) THEN got
                      ELSE Append(got, Meaningful(t)), outcome)
        BY TookIs
      <4> QED BY <3>5, <3>6, <3>7, <4>1, Zenon
    <3> QED BY <1>1, <3>4, <3>8
  <2>2. CASE TakeContents
    <3>1. Item = "S*" /\ word' = word /\ Text = t.text /\ Value = Meaningful(t)
          /\ Item \in Repeated
      BY <1>10, <1>11, <1>12, <2>2 DEF TakeContents
    <3>2. /\ frames' = IF t.text = <<>> THEN AfterItem(frames) ELSE frames
          /\ got' = IF t.text = <<>> THEN got ELSE Append(got, Meaningful(t))
      BY <2>2, <3>1 DEF TakeContents, Picked
    <3>3. Item \notin {"(", ")"} /\ Item # "w"
      BY <3>1
    <3>4. PICK f, v, g, i : f = frames' /\ v = word' /\ g = got' /\ i = Item
      OBVIOUS
    <3>5. f = (IF i \in Repeated /\ ~(i = "S*" /\ t.text = <<>>) THEN frames
               ELSE AfterItem(frames))
      BY <3>1, <3>2, <3>4
    <3>6. v = (IF i = "w" THEN t.text ELSE word)
      BY <3>1, <3>3, <3>4
    <3>7. g = (IF i \in {"(", ")"} \/ (i = "S*" /\ t.text = <<>>) THEN got
               ELSE Append(got, Meaningful(t)))
      BY <3>1, <3>2, <3>3, <3>4
    <3>8. Took(Now(at), i, t) = Stage(at + 1, f, calls, v, g, outcome)
      <4>1. Took(Now(at), i, t)
              = Stage(at + 1,
                      IF i \in Repeated /\ ~(i = "S*" /\ t.text = <<>>) THEN frames
                      ELSE AfterItem(frames),
                      calls, IF i = "w" THEN t.text ELSE word,
                      IF i \in {"(", ")"} \/ (i = "S*" /\ t.text = <<>>) THEN got
                      ELSE Append(got, Meaningful(t)), outcome)
        BY TookIs
      <4> QED BY <3>5, <3>6, <3>7, <4>1, Zenon
    <3> QED BY <1>1, <3>4, <3>8
  <2> QED BY <2>1, <2>2
<1>14. Turn(T, Now(at)) = Stage(at + 1, frames', calls', word', got', outcome')
  BY <1>9, <1>13
<1>15. Ready(T, A, B, at + 1, b, data', wire, pos', st')
  BY <1>1, <1>7
<1>16. UNCHANGED <<exchange, ended, wire>> /\ phase' = "spec"
  BY <1>1
<1> QED BY <1>2, <1>3, <1>4, <1>7, <1>14, <1>15, <1>16, TurnFits

\* What it is not to take one.
LEMMA NotTookIs ==
  ASSUME NEW at, NEW item, NEW t
  PROVE  LET m == NotTook(Now(at), item, t) IN
         /\ item \in Repeated \cup Optional /\ t.ts # "STRING_OUT" =>
              m = Stage(at, AfterItem(frames), calls, word,
                        IF item \in Optional THEN Append(got, Absent(item)) ELSE got, outcome)
         /\ item \notin Repeated \cup Optional /\ t.ts # "STRING_OUT"
              /\ Head(frames).of \notin {"call", "r handler", "r*dir prop"} =>
              m = Stage(at, AfterItem(Tail(frames)), calls, word, got, outcome)
         /\ t.ts = "STRING_OUT"
              /\ (\/ item \in Repeated \cup Optional
                  \/ Head(frames).of \notin {"call", "r handler", "r*dir prop"}) =>
              m.outcome = "garbled"
<1>1. PICK n : n = Now(at)
  OBVIOUS
<1>2. n = [at |-> at, frames |-> frames, calls |-> calls, word |-> word, got |-> got,
           outcome |-> outcome]
  BY <1>1 DEF Now, Stage
<1>3. n.got = got /\ n.frames = frames
  BY <1>2
<1>4. ASSUME item \in Repeated \cup Optional, t.ts # "STRING_OUT"
      PROVE  NotTook(n, item, t)
               = Stage(at, AfterItem(frames), calls, word,
                       IF item \in Optional THEN Append(got, Absent(item)) ELSE got, outcome)
  <2>1. PICK g, f : /\ g = IF item \in Optional THEN Append(got, Absent(item)) ELSE got
                    /\ f = AfterItem(frames)
    OBVIOUS
  <2>2. NotTook(n, item, t) = [n EXCEPT !.got = g, !.frames = f]
    BY <1>3, <1>4, <2>1, Zenon DEF NotTook
  <2>3. NotTook(n, item, t) = [at |-> at, frames |-> f, calls |-> calls, word |-> word,
                               got |-> g, outcome |-> outcome]
    BY <1>2, <2>2
  <2> QED BY <2>1, <2>3 DEF Stage
<1>5. ASSUME item \notin Repeated \cup Optional, t.ts # "STRING_OUT",
             Head(frames).of \notin {"call", "r handler", "r*dir prop"}
      PROVE  NotTook(n, item, t) = Stage(at, AfterItem(Tail(frames)), calls, word, got, outcome)
  <2>1. PICK f : f = AfterItem(Tail(frames))
    OBVIOUS
  <2>2. NotTook(n, item, t) = [n EXCEPT !.frames = f]
    BY <1>3, <1>5, <2>1, Zenon DEF NotTook
  <2>3. NotTook(n, item, t) = [at |-> at, frames |-> f, calls |-> calls, word |-> word,
                               got |-> got, outcome |-> outcome]
    BY <1>2, <2>2
  <2> QED BY <2>1, <2>3 DEF Stage
<1>6. ASSUME t.ts = "STRING_OUT",
             \/ item \in Repeated \cup Optional
             \/ Head(frames).of \notin {"call", "r handler", "r*dir prop"}
      PROVE  NotTook(n, item, t).outcome = "garbled"
  <2>1. NotTook(n, item, t) = [n EXCEPT !.outcome = "garbled"]
    BY <1>3, <1>6, Zenon DEF NotTook
  <2> QED BY <1>2, <2>1
<1> QED BY <1>1, <1>4, <1>5, <1>6, Zenon

\* A value that does not match leaves its token for the next item.
LEMMA NotMatching ==
  ASSUME NEW T, NEW A, NEW B, NEW k, NEW at, NEW b, Fits(T, A, B, k, at, b),
         T = exchange.tokens, exchange \in Exchanges, Matching, ~Matches,
         \/ Item \in Repeated \cup Optional
         \/ Top.of \notin {"call", "r handler", "r*dir prop"}
  PROVE  /\ Turn(T, Now(at)) = NotTook(Now(at), Item, T[at + 1])
         /\ T[at + 1].ts # "STRING_OUT"
         /\ Given(T, A, B, at, b, data, wire, pos, [st EXCEPT !.back = TRUE])
<1>1. phase = "value" /\ ~Matches
  BY DEF Matching
<1>2. Wanting /\ outcome = "running"
  BY <1>1 DEF Fits, Wanting
<1>3. Starts(T, A, B) /\ at \in 0..Len(T) /\ b \in Nat /\ Follows(k, at)
  BY DEF Fits
<1>4. Within(T, A, B, at, b, data, wire, pos, st, "value")
  BY <1>1 DEF Fits, Stands
<1>5. PICK t : t = T[at + 1]
  OBVIOUS
<1>6. at < Len(T) /\ ~Tight(T, at) /\ ValueRight(t, data, st)
  BY <1>3, <1>4, <1>5, Taken
<1>7. t.ts # "BAD" /\ t.ts # Wants(Item)
  BY <1>1, <1>6 DEF ValueRight, Closed, Lists, Matches
<1>8. Turn(T, Now(at)) = NotTook(Now(at), Item, t)
  BY <1>2, <1>3, <1>5, <1>6, <1>7, TurnAtToken
<1>9. t.ts # "STRING_OUT"
  <2>1. Turn(T, Now(at)).outcome # "garbled"
    <3>1. Turn(T, Now(at)).outcome \in {"running", "ok", "refused", "failed"}
      BY <1>2, <1>3, NextTurn
    <3> QED BY <3>1
  <2>2. t.ts = "STRING_OUT" => NotTook(Now(at), Item, t).outcome = "garbled"
    BY NotTookIs DEF Top
  <2> QED BY <1>8, <2>1, <2>2
<1>10. PICK s2 : s2 = [st EXCEPT !.back = TRUE]
  OBVIOUS
<1>11. Given(T, A, B, at, b, data, wire, pos, s2)
  BY <1>3, <1>4, <1>5, <1>9, <1>10, GivesBack
<1> QED BY <1>5, <1>8, <1>9, <1>10, <1>11

LEMMA MissFits ==
  ASSUME NEW T, NEW A, NEW B, NEW k, NEW at, NEW b, Fits(T, A, B, k, at, b),
         T = exchange.tokens, exchange \in Exchanges, Miss
  PROVE  Fits(T, A, B, k + 1, at, b)'
<1>1. /\ Matching /\ ~Matches /\ Item \in Repeated \cup Optional /\ phase' = "spec"
      /\ frames' = AfterItem(frames) /\ st' = [st EXCEPT !.back = TRUE]
      /\ UNCHANGED <<exchange, wire, ended, data, pos, calls, word, outcome>>
  BY DEF Miss, GiveBack
<1>2. got' = IF Item \in Optional THEN Append(got, Absent(Item)) ELSE got
  BY DEF Miss, Picked
<1>3. /\ Turn(T, Now(at)) = NotTook(Now(at), Item, T[at + 1]) /\ T[at + 1].ts # "STRING_OUT"
      /\ Given(T, A, B, at, b, data, wire, pos, [st EXCEPT !.back = TRUE])
  BY <1>1, NotMatching
<1>4. PICK f, g : f = frames' /\ g = got'
  OBVIOUS
<1>5. Turn(T, Now(at)) = Stage(at, f, calls, word, g, outcome)
  <2>1. NotTook(Now(at), Item, T[at + 1])
          = Stage(at, AfterItem(frames), calls, word,
                  IF Item \in Optional THEN Append(got, Absent(Item)) ELSE got, outcome)
    BY <1>1, <1>3, NotTookIs
  <2> QED BY <1>1, <1>2, <1>3, <1>4, <2>1
<1>6. Turn(T, Now(at)) = Stage(at, frames', calls', word', got', outcome')
  BY <1>1, <1>4, <1>5
<1>7. at \in 0..Len(T) /\ b \in Nat /\ outcome = "running"
  BY <1>1 DEF Fits, Matching, AtItem, Running
<1>8. Given(T, A, B, at, b, data', wire, pos', st')
  BY <1>1, <1>3
<1>9. ended \/ b + Total(data', wire) = Len(B)
  BY <1>1 DEF Fits
<1>10. UNCHANGED <<exchange, ended, wire>> /\ phase' = "spec"
  BY <1>1
<1> QED BY <1>6, <1>7, <1>8, <1>9, <1>10, TurnFits

\* bytestream_recycle only moves what was kept.
LEMMA RecycledFits ==
  ASSUME NEW T, NEW A, NEW B, Starts(T, A, B), NEW at \in 0..Len(T), NEW b \in Nat, NEW s,
         Ready(T, A, B, at, b, data, wire, pos, s) \/ Given(T, A, B, at, b, data, wire, pos, s),
         Recycled(s)
  PROVE  \E b2 \in Nat :
           /\ \/ Ready(T, A, B, at, b2, data', wire, pos', st')
              \/ Given(T, A, B, at, b2, data', wire, pos', st')
           /\ b2 + Total(data', wire) = b + Total(data, wire)
<1>1. /\ s \in St /\ data \in Letters /\ pos \in 0..Len(data) /\ s.start <= pos
      /\ Len(data) \in Nat /\ Len(wire) \in Nat
  BY DEF Ready, Given, Places, Kept
<1>2. PICK n \in Nat : Recycles(data, pos, s, n, data', pos', st')
  BY <1>1, RecycledIs
<1>3. PICK d2, p2, s2 : d2 = data' /\ p2 = pos' /\ s2 = st'
  OBVIOUS
<1>4. Recycles(data, pos, s, n, d2, p2, s2)
  BY <1>2, <1>3
<1>5. \/ Ready(T, A, B, at, b + n, d2, wire, p2, s2)
      \/ Given(T, A, B, at, b + n, d2, wire, p2, s2)
  <2>1. CASE Ready(T, A, B, at, b, data, wire, pos, s)
    BY <1>4, <2>1, ReadyRecycles
  <2>2. CASE Given(T, A, B, at, b, data, wire, pos, s)
    BY <1>4, <2>2, GivenRecycles
  <2> QED BY <2>1, <2>2
<1>6. n <= Len(data)
  <2>1. s.start \in Nat
    BY <1>1 DEF St
  <2>2. n \in {0, s.start}
    BY <1>4 DEF Recycles
  <2> QED BY <1>1, <2>1, <2>2
<1>7. Len(d2) = Len(data) - n
  BY <1>4 DEF Recycles, Piece
<1>8. PICK l \in Nat, v \in Nat : l = Len(data) /\ v = Len(wire) /\ n <= l
  BY <1>1, <1>6
<1>9. Total(d2, wire) = (l - n) + v /\ Total(data, wire) = l + v
  BY <1>7, <1>8 DEF Total
<1>10. (b + n) + ((l - n) + v) = b + (l + v) /\ b + n \in Nat
  OBVIOUS
<1>11. (b + n) + Total(d2, wire) = b + Total(data, wire)
  BY <1>9, <1>10
<1> QED BY <1>3, <1>5, <1>10, <1>11

LEMMA NoMatchFits ==
  ASSUME NEW T, NEW A, NEW B, NEW k, NEW at, NEW b, Fits(T, A, B, k, at, b),
         T = exchange.tokens, exchange \in Exchanges, NoMatch, outcome' # "failed"
  PROVE  \E b2 : Fits(T, A, B, k + 1, at, b2)'
<1>1. /\ Matching /\ ~Matches /\ Item \notin Repeated \cup Optional /\ phase' = "spec"
      /\ Top.of \notin {"call", "r handler", "r*dir prop"}
      /\ frames' = AfterItem(Tail(frames)) /\ Recycled([st EXCEPT !.back = TRUE])
      /\ UNCHANGED <<exchange, wire, ended, calls, word, got, outcome>>
  BY DEF NoMatch, GiveUp
<1>2. /\ Turn(T, Now(at)) = NotTook(Now(at), Item, T[at + 1]) /\ T[at + 1].ts # "STRING_OUT"
      /\ Given(T, A, B, at, b, data, wire, pos, [st EXCEPT !.back = TRUE])
  BY <1>1, NotMatching
<1>3. PICK f : f = AfterItem(Tail(frames)) /\ f = frames'
  BY <1>1
<1>4. Turn(T, Now(at)) = Stage(at, f, calls, word, got, outcome)
  <2>1. NotTook(Now(at), Item, T[at + 1])
          = Stage(at, AfterItem(Tail(frames)), calls, word, got, outcome)
    BY <1>1, <1>2, NotTookIs DEF Top
  <2> QED BY <1>2, <1>3, <2>1
<1>5. Turn(T, Now(at)) = Stage(at, frames', calls', word', got', outcome')
  BY <1>1, <1>3, <1>4
<1>6. Starts(T, A, B) /\ at \in 0..Len(T) /\ b \in Nat
  BY DEF Fits
<1>7. outcome = "running"
  BY <1>1 DEF Matching, AtItem, Running
<1>8. PICK s : s = [st EXCEPT !.back = TRUE]
  OBVIOUS
<1>9. Given(T, A, B, at, b, data, wire, pos, s) /\ Recycled(s)
  BY <1>1, <1>2, <1>8
<1>10. PICK b2 \in Nat :
         /\ \/ Ready(T, A, B, at, b2, data', wire, pos', st')
            \/ Given(T, A, B, at, b2, data', wire, pos', st')
         /\ b2 + Total(data', wire) = b + Total(data, wire)
  BY <1>6, <1>9, RecycledFits
<1>11. ended \/ b2 + Total(data', wire) = Len(B)
  BY <1>10 DEF Fits
<1>12. UNCHANGED <<exchange, ended, wire>> /\ phase' = "spec"
  BY <1>1
<1>13. Fits(T, A, B, k + 1, at, b2)'
  BY <1>5, <1>6, <1>7, <1>10, <1>11, <1>12, TurnFits
<1> QED BY <1>13

LEMMA EnteredIs ==
  ASSUME NEW at, NEW item, item = "r handler" => word \in DOMAIN Handler
  PROVE  Entered(Now(at), item)
           = Stage(at, <<Frame(item, IF item = "r handler" THEN Handler[word] ELSE Callback[item])>>
                         \o frames, calls, word, got, outcome)
<1>1. PICK n : n = Now(at)
  OBVIOUS
<1>2. n = [at |-> at, frames |-> frames, calls |-> calls, word |-> word, got |-> got,
           outcome |-> outcome]
  BY <1>1 DEF Now, Stage
<1>3. n.word = word /\ n.frames = frames
  BY <1>2
<1>4. PICK f : f = <<Frame(item, IF item = "r handler" THEN Handler[word] ELSE Callback[item])>>
                     \o frames
  OBVIOUS
<1>5. Entered(n, item) = [n EXCEPT !.frames = f]
  BY <1>3, <1>4, Zenon DEF Entered
<1>6. Entered(n, item) = [at |-> at, frames |-> f, calls |-> calls, word |-> word, got |-> got,
                          outcome |-> outcome]
  BY <1>2, <1>5
<1> QED BY <1>1, <1>4, <1>6 DEF Stage

LEMMA LeftIs ==
  ASSUME NEW at
  PROVE  Left(Now(at))
           = Stage(at, IF Top.of \in Repeated /\ ~(Top.of = "r*command" /\ word = CloseEdit)
                         THEN Tail(frames) ELSE AfterItem(Tail(frames)),
                   calls, word, got, outcome)
<1>1. PICK n : n = Now(at)
  OBVIOUS
<1>2. n = [at |-> at, frames |-> frames, calls |-> calls, word |-> word, got |-> got,
           outcome |-> outcome]
  BY <1>1 DEF Now, Stage
<1>3. n.word = word /\ n.frames = frames
  BY <1>2
<1>4. PICK f : f = IF Top.of \in Repeated /\ ~(Top.of = "r*command" /\ word = CloseEdit)
                     THEN Tail(frames) ELSE AfterItem(Tail(frames))
  OBVIOUS
<1>5. Left(n) = [n EXCEPT !.frames = f]
  BY <1>3, <1>4, Zenon DEF Left, Top
<1>6. Left(n) = [at |-> at, frames |-> f, calls |-> calls, word |-> word, got |-> got,
                 outcome |-> outcome]
  BY <1>2, <1>5
<1> QED BY <1>1, <1>4, <1>6 DEF Stage

\* What the client goes on with is what the exchange goes on with.
LEMMA ReturnedIs ==
  ASSUME NEW at, ~(Head(calls).do = "response" /\ word \notin {Success, Failure})
  PROVE  Returned(Now(at))
           = Stage(at, IF Following = <<>> THEN <<>> ELSE <<First(Head(Following))>>,
                   Following, word, got,
                   IF Following # <<>> THEN "running"
                   ELSE IF Head(calls).do = "refused" /\ Told THEN "refused" ELSE "ok")
<1>1. PICK n : n = Now(at)
  OBVIOUS
<1>2. n = [at |-> at, frames |-> frames, calls |-> calls, word |-> word, got |-> got,
           outcome |-> outcome]
  BY <1>1 DEF Now, Stage
<1>3. n.word = word /\ n.got = got /\ n.calls = calls
  BY <1>2
<1>4. PICK next, told, call, f, o :
        /\ call = Head(calls) /\ told = Told
        /\ next = Following
        /\ f = IF Following = <<>> THEN <<>> ELSE <<First(Head(Following))>>
        /\ o = IF Following # <<>> THEN "running"
               ELSE IF Head(calls).do = "refused" /\ Told THEN "refused" ELSE "ok"
  OBVIOUS
<1>5. (got[Len(got)] # <<"w", Failure>>) = Told
  BY Zenon DEF Told, Last
<1>6. CASE Head(calls).do = "refused"
  <2>1. Head(calls).do # "response" /\ Head(calls).do # "unpack"
    BY <1>6
  <2>2. Following = IF Told THEN <<>> ELSE Tail(calls)
    BY <1>6, Zenon DEF Following
  <2>3. (CASE Head(calls).do = "refused" -> IF Told THEN <<>> ELSE Tail(calls)
           [] Head(calls).do = "unpack" -> Tail(calls)
           [] OTHER -> (IF word = Success
                          THEN <<Unpacks(Head(calls).spec), Unpacks(<<")">>)>> ELSE Refusal)
                       \o Tail(calls)) = Following
    BY <1>6, <2>1, <2>2
  <2>4. Returned(n) = [n EXCEPT !.calls = next, !.frames = f, !.outcome = o]
    BY <1>3, <1>4, <1>5, <2>1, <2>3, Zenon DEF Returned
  <2>5. Returned(n) = [at |-> at, frames |-> f, calls |-> next, word |-> word, got |-> got,
                       outcome |-> o]
    BY <1>2, <2>4
  <2> QED BY <1>1, <1>4, <2>5 DEF Stage
<1>7. CASE Head(calls).do = "unpack"
  <2>1. Head(calls).do # "response" /\ Head(calls).do # "refused"
    BY <1>7
  <2>2. Following = Tail(calls)
    BY <1>7, <2>1, Zenon DEF Following
  <2>3. (CASE Head(calls).do = "refused" -> IF Told THEN <<>> ELSE Tail(calls)
           [] Head(calls).do = "unpack" -> Tail(calls)
           [] OTHER -> (IF word = Success
                          THEN <<Unpacks(Head(calls).spec), Unpacks(<<")">>)>> ELSE Refusal)
                       \o Tail(calls)) = Following
    BY <1>7, <2>1, <2>2
  <2>4. Returned(n) = [n EXCEPT !.calls = next, !.frames = f, !.outcome = o]
    BY <1>3, <1>4, <1>5, <2>1, <2>3, Zenon DEF Returned
  <2>5. Returned(n) = [at |-> at, frames |-> f, calls |-> next, word |-> word, got |-> got,
                       outcome |-> o]
    BY <1>2, <2>4
  <2> QED BY <1>1, <1>4, <2>5 DEF Stage
<1>8. CASE Head(calls).do \notin {"refused", "unpack"}
  <2>1. Head(calls).do # "unpack" /\ Head(calls).do # "refused"
    BY <1>8
  <2>2. Following = (IF word = Success
                       THEN <<Unpacks(Head(calls).spec), Unpacks(<<")">>)>> ELSE Refusal)
                    \o Tail(calls)
    BY <2>1, Zenon DEF Following
  <2>3. (CASE Head(calls).do = "refused" -> IF Told THEN <<>> ELSE Tail(calls)
           [] Head(calls).do = "unpack" -> Tail(calls)
           [] OTHER -> (IF word = Success
                          THEN <<Unpacks(Head(calls).spec), Unpacks(<<")">>)>> ELSE Refusal)
                       \o Tail(calls)) = Following
    BY <2>1, <2>2
  <2>4. Returned(n) = [n EXCEPT !.calls = next, !.frames = f, !.outcome = o]
    BY <1>3, <1>4, <1>5, <2>1, <2>3, Zenon DEF Returned
  <2>5. Returned(n) = [at |-> at, frames |-> f, calls |-> next, word |-> word, got |-> got,
                       outcome |-> o]
    BY <1>2, <2>4
  <2> QED BY <1>1, <1>4, <2>5 DEF Stage
<1> QED BY <1>6, <1>7, <1>8

\* A specification at hand: the client is between two tokens.
LEMMA AtSpec ==
  ASSUME NEW T, NEW A, NEW B, NEW k, NEW at, NEW b, Fits(T, A, B, k, at, b), phase = "spec",
         Running
  PROVE  /\ Starts(T, A, B) /\ at \in 0..Len(T) /\ b \in Nat /\ outcome = "running"
         /\ ended \/ b + Total(data, wire) = Len(B)
         /\ \/ Ready(T, A, B, at, b, data, wire, pos, st)
            \/ Given(T, A, B, at, b, data, wire, pos, st)
         /\ Now(at).outcome = "running" /\ Now(at).frames = frames
<1>1. Now(at).outcome = outcome /\ Now(at).frames = frames
  BY DEF Now, Stage
<1>2. outcome = "running"
  BY DEF Running
<1>3. \/ Ready(T, A, B, at, b, data, wire, pos, st)
      \/ Given(T, A, B, at, b, data, wire, pos, st)
  BY DEF Fits, Stands
<1> QED BY <1>1, <1>2, <1>3 DEF Fits

LEMMA EnterFits ==
  ASSUME NEW T, NEW A, NEW B, NEW k, NEW at, NEW b, Fits(T, A, B, k, at, b),
         T = exchange.tokens, exchange \in Exchanges, Enter, outcome' # "failed"
  PROVE  Fits(T, A, B, k + 1, at, b)'
<1>1. /\ AtItem /\ phase = "spec" /\ Item \in Callbacks /\ phase' = "spec"
      /\ UNCHANGED <<exchange, wire, ended, data, pos, st, calls, word, got>>
      /\ Running
  BY DEF Enter, AtItem
<1>2. /\ Item = "r handler" => word \in DOMAIN Handler
      /\ outcome' = outcome
      /\ frames' = <<Frame(Item, IF Item = "r handler" THEN Handler[word] ELSE Callback[Item])>>
                     \o frames
  <2>1. CASE Item = "r handler"
    <3>1. word \in DOMAIN Handler
      BY <2>1, Zenon DEF Enter, GiveUp
    <3>2. frames' = <<Frame(Item, Handler[word])>> \o frames /\ outcome' = outcome
      BY <2>1, <3>1, Zenon DEF Enter
    <3> QED BY <2>1, <3>1, <3>2, Zenon
  <2>2. CASE Item # "r handler"
    <3>2. frames' = <<Frame(Item, Callback[Item])>> \o frames /\ outcome' = outcome
      BY <2>2, Zenon DEF Enter
    <3> QED BY <2>2, <3>2, Zenon
  <2> QED BY <2>1, <2>2
<1>3. /\ Starts(T, A, B) /\ at \in 0..Len(T) /\ b \in Nat /\ outcome = "running"
      /\ ended \/ b + Total(data, wire) = Len(B)
      /\ \/ Ready(T, A, B, at, b, data, wire, pos, st)
         \/ Given(T, A, B, at, b, data, wire, pos, st)
      /\ Now(at).outcome = "running" /\ Now(at).frames = frames
  BY <1>1, AtSpec
<1>4. Turn(T, Now(at)) = Entered(Now(at), Item)
  <2>1. Top.spec # <<>>
    BY <1>1 DEF AtItem
  <2> HIDE DEF Now
  <2> QED BY <1>1, <1>3, <2>1 DEF Turn, Top, Item
<1>5. Turn(T, Now(at)) = Stage(at, frames', calls', word', got', outcome')
  <2>1. PICK f, i : f = frames' /\ i = Item
    OBVIOUS
  <2>2. Entered(Now(at), i)
          = Stage(at, <<Frame(i, IF i = "r handler" THEN Handler[word] ELSE Callback[i])>>
                        \o frames, calls, word, got, outcome)
    BY <1>2, <2>1, EnteredIs
  <2>3. Entered(Now(at), i) = Stage(at, f, calls, word, got, outcome)
    BY <1>2, <2>1, <2>2, Zenon
  <2> QED BY <1>1, <1>2, <1>4, <2>1, <2>3
<1>6. /\ \/ Ready(T, A, B, at, b, data', wire, pos', st')
         \/ Given(T, A, B, at, b, data', wire, pos', st')
      /\ ended \/ b + Total(data', wire) = Len(B)
  BY <1>1, <1>3
<1>7. UNCHANGED <<exchange, ended, wire>> /\ phase' = "spec"
  BY <1>1
<1> QED BY <1>3, <1>5, <1>6, <1>7, TurnFits

LEMMA LeaveFits ==
  ASSUME NEW T, NEW A, NEW B, NEW k, NEW at, NEW b, Fits(T, A, B, k, at, b),
         T = exchange.tokens, exchange \in Exchanges, Leave
  PROVE  \E b2 : Fits(T, A, B, k + 1, at, b2)'
<1>1. /\ Running /\ phase = "spec" /\ phase' = "spec" /\ Top.spec = <<>> /\ Top.of # "call"
      /\ UNCHANGED <<exchange, wire, ended, calls, word, got, outcome>>
  BY DEF Leave
<1>3. /\ Starts(T, A, B) /\ at \in 0..Len(T) /\ b \in Nat /\ outcome = "running"
      /\ ended \/ b + Total(data, wire) = Len(B)
      /\ \/ Ready(T, A, B, at, b, data, wire, pos, st)
         \/ Given(T, A, B, at, b, data, wire, pos, st)
      /\ Now(at).outcome = "running" /\ Now(at).frames = frames
  BY <1>1, AtSpec
<1>4. Turn(T, Now(at)) = Left(Now(at))
  <2> HIDE DEF Now
  <2> QED BY <1>1, <1>3 DEF Turn, Top
<1>5. Turn(T, Now(at)) = Stage(at, frames', calls', word', got', outcome')
  <2>1. PICK f : f = frames'
    OBVIOUS
  <2>2. f = IF Top.of \in Repeated /\ ~(Top.of = "r*command" /\ word = CloseEdit)
              THEN Tail(frames) ELSE AfterItem(Tail(frames))
    BY <2>1, Zenon DEF Leave
  <2>3. Left(Now(at))
          = Stage(at, IF Top.of \in Repeated /\ ~(Top.of = "r*command" /\ word = CloseEdit)
                        THEN Tail(frames) ELSE AfterItem(Tail(frames)),
                  calls, word, got, outcome)
    BY LeftIs
  <2>4. Left(Now(at)) = Stage(at, f, calls, word, got, outcome)
    BY <2>2, <2>3, Zenon
  <2> QED BY <1>1, <1>4, <2>1, <2>4
<1>6. PICK b2 \in Nat :
        /\ \/ Ready(T, A, B, at, b2, data', wire, pos', st')
           \/ Given(T, A, B, at, b2, data', wire, pos', st')
        /\ b2 + Total(data', wire) = b + Total(data, wire)
  <2>1. UNCHANGED <<data, pos, st>> \/ Recycled(st)
    BY Zenon DEF Leave
  <2>2. CASE UNCHANGED <<data, pos, st>>
    BY <1>3, <2>2
  <2>3. CASE Recycled(st)
    BY <1>3, <2>3, RecycledFits
  <2> QED BY <2>1, <2>2, <2>3
<1>7. ended \/ b2 + Total(data', wire) = Len(B)
  BY <1>3, <1>6
<1>8. UNCHANGED <<exchange, ended, wire>> /\ phase' = "spec"
  BY <1>1
<1>9. Fits(T, A, B, k + 1, at, b2)'
  BY <1>3, <1>5, <1>6, <1>7, <1>8, TurnFits
<1> QED BY <1>9

LEMMA ReturnFits ==
  ASSUME NEW T, NEW A, NEW B, NEW k, NEW at, NEW b, Fits(T, A, B, k, at, b),
         T = exchange.tokens, exchange \in Exchanges, Return, outcome' # "failed"
  PROVE  Fits(T, A, B, k + 1, at, b)'
<1>1. /\ Running /\ phase = "spec" /\ phase' = "spec" /\ Top.spec = <<>> /\ Top.of = "call"
      /\ UNCHANGED <<exchange, wire, ended, data, pos, st, word, got>>
  BY DEF Return
<1>2. /\ ~(Head(calls).do = "response" /\ word \notin {Success, Failure})
      /\ calls' = Following
      /\ frames' = IF Following = <<>> THEN <<>> ELSE <<First(Head(Following))>>
      /\ outcome' = IF Following # <<>> THEN "running"
                    ELSE IF Head(calls).do = "refused" /\ Told THEN "refused" ELSE "ok"
  <2>1. ~(Head(calls).do = "response" /\ word \notin {Success, Failure})
    BY Zenon DEF Return, GiveUp
  <2> QED BY <2>1, Zenon DEF Return
<1>3. /\ Starts(T, A, B) /\ at \in 0..Len(T) /\ b \in Nat /\ outcome = "running"
      /\ ended \/ b + Total(data, wire) = Len(B)
      /\ \/ Ready(T, A, B, at, b, data, wire, pos, st)
         \/ Given(T, A, B, at, b, data, wire, pos, st)
      /\ Now(at).outcome = "running" /\ Now(at).frames = frames
  BY <1>1, AtSpec
<1>4. Turn(T, Now(at)) = Returned(Now(at))
  <2> HIDE DEF Now
  <2> QED BY <1>1, <1>3 DEF Turn, Top
<1>5. Turn(T, Now(at)) = Stage(at, frames', calls', word', got', outcome')
  <2>1. PICK f, c, o : f = frames' /\ c = calls' /\ o = outcome'
    OBVIOUS
  <2>2. Returned(Now(at))
          = Stage(at, IF Following = <<>> THEN <<>> ELSE <<First(Head(Following))>>,
                  Following, word, got,
                  IF Following # <<>> THEN "running"
                  ELSE IF Head(calls).do = "refused" /\ Told THEN "refused" ELSE "ok")
    BY <1>2, ReturnedIs
  <2>3. Returned(Now(at)) = Stage(at, f, c, word, got, o)
    BY <1>2, <2>1, <2>2, Zenon
  <2> QED BY <1>1, <1>4, <2>1, <2>3
<1>6. /\ \/ Ready(T, A, B, at, b, data', wire, pos', st')
         \/ Given(T, A, B, at, b, data', wire, pos', st')
      /\ ended \/ b + Total(data', wire) = Len(B)
  BY <1>1, <1>3
<1>7. UNCHANGED <<exchange, ended, wire>> /\ phase' = "spec"
  BY <1>1
<1> QED BY <1>3, <1>5, <1>6, <1>7, TurnFits

-----------------------------------------------------------------------------
(***************************************************************************)
(* The invariant holds.                                                    *)
(***************************************************************************)
\* In each situation the offsets are in the buffer.
LEMMA FitsNext ==
  ASSUME exchange' \in Exchanges, NEW A, NEW B, NEW k, NEW at, NEW b,
         Fits(exchange.tokens, A, B, k, at, b)', exchange' = exchange
  PROVE  Inv'
<1>1. PICK T : T = exchange.tokens /\ T = exchange'.tokens
  OBVIOUS
<1>2. Fits(T, A, B, k, at, b)'
  BY <1>1
<1>3. Fit'
  BY <1>1, <1>2 DEF Fit
<1>4. st' \in St /\ pos' \in 0..Len(data') /\ st'.start <= pos' /\ phase' \in {"spec", "read", "value"}
  BY <1>2 DEF Fits, Stands, Ready, Within, Given, Places, Goes
<1>5. k \in 0..Turns /\ Course(exchange')[k].outcome = outcome'
  BY <1>2 DEF Fits, Follows, Stage
<1>6. outcome' \in {"running", "ok", "refused", "failed"}
  BY <1>5, CourseEnds
<1>7. TypeOK'
  BY <1>4, <1>6 DEF TypeOK, St
<1> QED BY <1>3, <1>7 DEF Inv

\* To give up leaves the buffer as it is.
LEMMA FailsNext ==
  ASSUME Inv, exchange' = exchange, data' = data, pos' = pos,
         st' = st \/ st' = [st EXCEPT !.back = TRUE],
         phase' \in {"spec", "read", "value"}, outcome' = "failed"
  PROVE  Inv'
<1>1. exchange' \in Exchanges /\ st \in St /\ pos \in 0..Len(data) /\ st.start <= pos
  BY DEF Inv, TypeOK, St
<1>2. st' \in St /\ st'.start = st.start
  BY <1>1 DEF St
<1>3. pos' \in 0..Len(data') /\ st'.start <= pos'
  BY <1>1, <1>2
<1>4. TypeOK'
  BY <1>2, <1>3 DEF TypeOK, St
<1> QED BY <1>1, <1>4 DEF Inv

LEMMA Nothing ==
  /\ <<>> \in Letters /\ Len(<<>>) = 0 /\ "START" \in Out /\ "START" \in TokenizerStates
BY EmptySeq DEF Letters, Out, TokenizerStates

LEMMA InitFits == Init => Inv
<1> SUFFICES ASSUME Init PROVE Inv
  OBVIOUS
<1>1. /\ exchange \in Exchanges /\ data = <<>> /\ pos = 0 /\ phase = "spec"
      /\ st = [ts |-> "START", i |-> 0, start |-> 0, end |-> 0, back |-> FALSE]
      /\ calls = exchange.calls /\ frames = <<First(Head(exchange.calls))>>
      /\ word = <<>> /\ got = <<>> /\ outcome = "running"
  BY DEF Init
<1>2. /\ st \in St /\ st.ts = "START" /\ st.start = 0 /\ st.back = FALSE
  BY <1>1, Nothing DEF St
<1>3. Len(data) = 0 /\ data \in Letters
  BY <1>1, Nothing
<1>4. pos \in 0..Len(data) /\ st.start <= pos
  BY <1>1, <1>2, <1>3
<1>5. TypeOK
  BY <1>1, <1>2, <1>4 DEF TypeOK, St
<1>6. PICK T : T = exchange.tokens
  OBVIOUS
<1>7. T \in Seq(Tokens) /\ Turns \in Nat
  BY <1>1, <1>6, ExchangeAssumption
<1>8. PICK A : Starts(T, A, Bytes(T))
  BY <1>7, StartsExist
<1>9. PICK B : B = Bytes(T) /\ Starts(T, A, B)
  BY <1>8
<1>10. B \in Letters /\ Len(B) \in Nat /\ Len(T) \in Nat /\ A[1] = 0
  BY <1>9 DEF Starts
<1>11. PICK n \in 0..Len(B) : (ended \/ n = Len(B)) /\ wire = SubSeq(B, 1, n)
  BY <1>6, <1>9 DEF Init
<1>12. Piece(wire, B, 0, n)
  <2>1. PICK r : r = SubSeq(B, 0 + 1, n)
    OBVIOUS
  <2>2. 0 \in Nat /\ n \in Nat /\ 0 <= n /\ n <= Len(B)
    BY <1>10
  <2>3. Piece(r, B, 0, n)
    BY <1>10, <2>1, <2>2, PieceIs
  <2>4. wire = r
    BY <1>11, <2>1
  <2> QED BY <2>3, <2>4
<1>13. wire \in Letters /\ Len(wire) = n /\ \A i \in 1..n : wire[i] = B[i]
  BY <1>12 DEF Piece
<1>14. Total(data, wire) = n
  BY <1>3, <1>13 DEF Total
<1>15. ended \/ 0 + Total(data, wire) = Len(B)
  BY <1>10, <1>11, <1>14
<1>16. Kept(B, OddAt(T, A, 0), data, wire, 0, 0)
  <2>1. ASSUME NEW q \in (0 + 1)..Total(data, wire)
        PROVE  Alike(B, OddAt(T, A, 0), 0 + q, Buf(data, wire, q))
    <3>1. PICK x \in 1..n : x = q
      BY <1>14, <2>1
    <3>2. ~(q <= Len(data)) /\ q - Len(data) = x /\ 0 + q = x
      BY <1>3, <3>1
    <3>3. Buf(data, wire, q) = wire[x]
      BY <3>2 DEF Buf
    <3>4. wire[x] = B[0 + q]
      BY <1>13, <3>1, <3>2
    <3> QED BY <3>3, <3>4 DEF Alike
  <2>2. 0 + Total(data, wire) <= Len(B) /\ 0 \in 0..Len(data) /\ 0 \in Nat
        /\ Len(data) \in Nat /\ Len(wire) \in Nat
    BY <1>3, <1>10, <1>13, <1>14
  <2> QED BY <1>3, <1>13, <2>1, <2>2 DEF Kept
<1>17. Places(data, pos, st)
  BY <1>2, <1>4 DEF Places
<1>18. ~Tight(T, 0) /\ 0 + pos = A[0 + 1] /\ st.ts \in Out
  BY <1>1, <1>2, <1>10, Nothing DEF Tight
<1>19. Ready(T, A, B, 0, 0, data, wire, pos, st)
  <2>1. Kept(B, OddAt(T, A, 0), data, wire, 0, pos)
    BY <1>1, <1>16
  <2> QED BY <1>17, <1>18, <2>1 DEF Ready
<1>20. Stands(T, A, B, 0, 0)
  BY <1>1, <1>19 DEF Stands
<1>21. Follows(0, 0)
  <2>1. 0 \in 0..Turns
    BY <1>7
  <2>2. Course(exchange)[0] = Start(exchange)
    BY <1>7, <2>1, CourseIs
  <2>3. Start(exchange) = Stage(0, frames, calls, word, got, outcome)
    BY <1>1 DEF Start, Stage
  <2> QED BY <2>1, <2>2, <2>3 DEF Follows
<1>22. 0 \in 0..Len(T) /\ 0 \in Nat
  BY <1>10
<1>23. Fits(T, A, B, 0, 0, 0)
  BY <1>1, <1>9, <1>15, <1>20, <1>21, <1>22 DEF Fits
<1>24. Fit
  BY <1>6, <1>23 DEF Fit
<1> QED BY <1>1, <1>5, <1>24 DEF Inv

LEMMA StutterFits == Inv /\ UNCHANGED vars => Inv'
<1> SUFFICES ASSUME Inv, UNCHANGED vars PROVE Inv'
  OBVIOUS
<1>1. /\ exchange' = exchange /\ wire' = wire /\ ended' = ended /\ data' = data /\ pos' = pos
      /\ st' = st /\ phase' = phase /\ frames' = frames /\ calls' = calls /\ word' = word
      /\ got' = got /\ outcome' = outcome
  BY DEF vars
<1>2. TypeOK'
  BY <1>1 DEF Inv, TypeOK
<1>3. ASSUME outcome # "failed" PROVE Fit'
  <2>1. PICK A, B, k, at, b : Fits(exchange.tokens, A, B, k, at, b)
    BY <1>3 DEF Inv, Fit
  <2>2. PICK T : T = exchange.tokens /\ T = exchange'.tokens
    BY <1>1
  <2>3. Follows(k, at)' /\ Stands(T, A, B, at, b)' /\ (Wanting' <=> Wanting)
    BY <1>1, <2>1, <2>2 DEF Fits, Follows, Stands, Wanting, Top, Item
  <2>4. Fits(T, A, B, k, at, b)'
    BY <1>1, <2>1, <2>2, <2>3 DEF Fits
  <2> QED BY <2>2, <2>4 DEF Fit
<1> QED BY <1>1, <1>2, <1>3 DEF Inv

\* Every step keeps it.
LEMMA StepFits == Inv /\ [Next]_vars => Inv'
<1> SUFFICES ASSUME Inv, [Next]_vars PROVE Inv'
  OBVIOUS
<1>1. CASE UNCHANGED vars
  BY <1>1, StutterFits
<1>2. CASE Done
  BY <1>2, StutterFits DEF Done
<1> DEFINE Fitting == \E A, B, k, at, b : Fits(exchange.tokens, A, B, k, at, b)'
<1>3. ASSUME Step, exchange' = exchange, Fitting PROVE Inv'
  <2>1. exchange' \in Exchanges
    BY <1>3 DEF Inv
  <2> QED BY <1>3, <2>1, FitsNext
<1>4. CASE Step
  <2>1. exchange \in Exchanges /\ phase \in {"spec", "read", "value"}
    BY DEF Inv, TypeOK
  <2>2. PICK T : T = exchange.tokens
    OBVIOUS
  <2>3. exchange' = exchange
    BY <1>4 DEF Step, ReadOne, Consume, EndOfData, ParseOne, Take, TakeContents, Miss, NoMatch,
       Enter, Leave, Return
  <2>4. Running
    BY <1>4 DEF Step, ReadOne, Consume, EndOfData, ParseOne, Take, TakeContents, Miss, NoMatch,
       Enter, Leave, Return, Tokenizing, Matching, AtItem
  <2>5. PICK A, B, k, at, b : Fits(T, A, B, k, at, b)
    BY <2>2, <2>4 DEF Inv, Fit, Running
  <2>6. ASSUME NEW k2, NEW at2, NEW b2, Fits(T, A, B, k2, at2, b2)' PROVE Inv'
    <3>1. T = exchange'.tokens
      BY <2>2, <2>3
    <3>2. Fits(exchange.tokens, A, B, k2, at2, b2)'
      BY <2>6, <3>1
    <3>3. exchange' \in Exchanges
      BY <2>1, <2>3
    <3> QED BY <2>3, <3>2, <3>3, FitsNext
  <2>7. CASE ReadOne
    <3>1. Fits(T, A, B, k, at, b)'
      BY <2>5, <2>7, ReadOneFits
    <3> QED BY <2>6, <3>1
  <2>8. CASE Consume
    <3>1. Fits(T, A, B, k, at, b)'
      BY <2>5, <2>8, ConsumeFits
    <3> QED BY <2>6, <3>1
  <2>9. CASE EndOfData
    <3>1. data' = data /\ pos' = pos /\ st' = st /\ phase' = phase /\ outcome' = "failed"
      BY <2>9 DEF EndOfData, GiveUp
    <3> QED BY <2>1, <2>3, <3>1, FailsNext
  <2>10. CASE ParseOne
    <3>1. CASE outcome' = "failed"
      <4>1. outcome # "failed"
        BY <2>4 DEF Running
      <4>2. data' = data /\ pos' = pos /\ st' = st /\ phase' = phase
        BY <2>10, <3>1, <4>1 DEF ParseOne, unpacking
      <4> QED BY <2>1, <2>3, <3>1, <4>2, FailsNext
    <3>2. CASE outcome' # "failed"
      <4>1. Fits(T, A, B, k, at, b)'
        BY <2>5, <2>10, <3>2, ParseFits
      <4> QED BY <2>6, <4>1
    <3> QED BY <3>1, <3>2
  <2>11. CASE Take \/ TakeContents
    <3>1. Fits(T, A, B, k + 1, at + 1, b)'
      BY <2>1, <2>2, <2>5, <2>11, TakeFits
    <3> QED BY <2>6, <3>1
  <2>12. CASE Miss
    <3>1. Fits(T, A, B, k + 1, at, b)'
      BY <2>1, <2>2, <2>5, <2>12, MissFits
    <3> QED BY <2>6, <3>1
  <2>13. CASE NoMatch
    <3>1. CASE outcome' = "failed"
      <4>1. outcome # "failed"
        BY <2>4 DEF Running
      <4>2. data' = data /\ pos' = pos /\ st' = [st EXCEPT !.back = TRUE] /\ phase' = "spec"
        BY <2>13, <3>1, <4>1, Zenon DEF NoMatch, GiveBack
      <4> QED BY <2>3, <3>1, <4>2, FailsNext
    <3>2. CASE outcome' # "failed"
      <4>1. PICK b2 : Fits(T, A, B, k + 1, at, b2)'
        BY <2>1, <2>2, <2>5, <2>13, <3>2, NoMatchFits
      <4> QED BY <2>6, <4>1
    <3> QED BY <3>1, <3>2
  <2>14. CASE Enter
    <3>1. CASE outcome' = "failed"
      <4>1. data' = data /\ pos' = pos /\ st' = st /\ phase' = phase
        BY <2>14 DEF Enter
      <4> QED BY <2>1, <2>3, <3>1, <4>1, FailsNext
    <3>2. CASE outcome' # "failed"
      <4>1. Fits(T, A, B, k + 1, at, b)'
        BY <2>1, <2>2, <2>5, <2>14, <3>2, EnterFits
      <4> QED BY <2>6, <4>1
    <3> QED BY <3>1, <3>2
  <2>15. CASE Leave
    <3>1. PICK b2 : Fits(T, A, B, k + 1, at, b2)'
      BY <2>1, <2>2, <2>5, <2>15, LeaveFits
    <3> QED BY <2>6, <3>1
  <2>16. CASE Return
    <3>1. CASE outcome' = "failed"
      <4>1. data' = data /\ pos' = pos /\ st' = st /\ phase' = phase
        BY <2>16 DEF Return
      <4> QED BY <2>1, <2>3, <3>1, <4>1, FailsNext
    <3>2. CASE outcome' # "failed"
      <4>1. Fits(T, A, B, k + 1, at, b)'
        BY <2>1, <2>2, <2>5, <2>16, <3>2, ReturnFits
      <4> QED BY <2>6, <4>1
    <3> QED BY <3>1, <3>2
  <2> QED BY <1>4, <2>7, <2>8, <2>9, <2>10, <2>11, <2>12, <2>13, <2>14, <2>15, <2>16 DEF Step
<1> QED BY <1>1, <1>2, <1>4 DEF Next

-----------------------------------------------------------------------------
(***************************************************************************)
(* What it is good for.                                                    *)
(***************************************************************************)
\* An exchange that has ended is used up, and means what it is to mean.
LEMMA AtItsEnd ==
  ASSUME exchange \in Exchanges, NEW T, T = exchange.tokens, NEW A, NEW B, NEW k, NEW at, NEW b,
         Fits(T, A, B, k, at, b), outcome \in {"ok", "refused"}
  PROVE  got = exchange.wanted /\ outcome = exchange.outcome /\ at = Len(T) /\ phase = "spec"
<1>1. /\ k \in 0..Turns /\ Course(exchange)[k].outcome = outcome
      /\ Course(exchange)[k].got = got /\ Course(exchange)[k].at = at
  BY DEF Fits, Follows, Stage
<1>2. outcome # "running" /\ outcome # "failed"
  OBVIOUS
<1>3. got = exchange.wanted /\ outcome = exchange.outcome /\ at = Len(exchange.tokens)
  BY <1>1, <1>2, CourseEnds
<1>4. phase = "spec"
  BY <1>2 DEF Fits, Wanting
<1> QED BY <1>3, <1>4

LEMMA InvValues == Inv => ValuesRight
<1> SUFFICES ASSUME Inv, outcome \in {"ok", "refused"}
             PROVE  got = exchange.wanted /\ outcome = exchange.outcome
  BY DEF ValuesRight
<1>1. exchange \in Exchanges /\ Fit
  BY DEF Inv
<1>2. PICK T : T = exchange.tokens
  OBVIOUS
<1>3. PICK A, B, k, at, b : Fits(T, A, B, k, at, b)
  BY <1>1, <1>2 DEF Fit
<1> QED BY <1>1, <1>2, <1>3, AtItsEnd

LEMMA InvInStep == Inv => InStep
<1> SUFFICES ASSUME Inv, outcome \in {"ok", "refused"}, NEW c \in Range(Unread)
             PROVE  c \in Space
  BY DEF InStep
<1>1. exchange \in Exchanges /\ Fit
  BY DEF Inv
<1>2. PICK T : T = exchange.tokens
  OBVIOUS
<1>3. PICK A, B, k, at, b : Fits(T, A, B, k, at, b)
  BY <1>1, <1>2 DEF Fit
<1>4. at = Len(T) /\ phase = "spec"
  BY <1>1, <1>2, <1>3, AtItsEnd
<1>5. Starts(T, A, B) /\ at \in 0..Len(T) /\ b \in Nat /\ Len(T) \in Nat
  BY <1>3 DEF Fits, Starts
<1>6. Ready(T, A, B, at, b, data, wire, pos, st)
  <2>1. \/ Ready(T, A, B, at, b, data, wire, pos, st)
        \/ Given(T, A, B, at, b, data, wire, pos, st)
    BY <1>3, <1>4 DEF Fits, Stands
  <2>2. ~Given(T, A, B, at, b, data, wire, pos, st)
    <3>1. ~(at < Len(T))
      BY <1>4, <1>5
    <3> QED BY <3>1 DEF Given
  <2> QED BY <2>1, <2>2
<1>7. st.back = FALSE
  BY <1>6 DEF Ready, Places
<1>8. Unread = SubSeq(data, pos + 1, Len(data)) \o wire
  BY <1>7 DEF Unread, BetweenBytes
<1>9. c \in Range(SubSeq(data, pos + 1, Len(data)) \o wire)
  BY <1>8
<1> QED BY <1>4, <1>5, <1>6, <1>9, OnlySpace

LEMMA InvNeverWaits == Inv => NeverWaits
<1> SUFFICES ASSUME Inv, Running, phase = "read", NeedMore, wire = <<>>, ~ended
             PROVE  FALSE
  BY DEF NeverWaits
<1>1. exchange \in Exchanges /\ Fit /\ outcome = "running"
  BY DEF Inv, Running
<1>2. PICK T : T = exchange.tokens
  OBVIOUS
<1>3. PICK A, B, k, at, b : Fits(T, A, B, k, at, b)
  BY <1>1, <1>2 DEF Fit
<1>5. /\ Starts(T, A, B) /\ at \in 0..Len(T) /\ b \in Nat /\ Follows(k, at) /\ Wanting
      /\ b + Total(data, wire) = Len(B)
  BY <1>3 DEF Fits
<1>6. pos >= Len(data)
  BY DEF NeedMore
<1>7. CASE Ready(T, A, B, at, b, data, wire, pos, st)
  <2>1. at = Len(T)
    BY <1>5, <1>6, <1>7, ReadyAtEnd
  <2>2. Now(at).outcome = "running" /\ Now(at).frames = frames /\ Now(at).at = at
    BY <1>1 DEF Now, Stage
  <2>3. Turn(T, Now(at)) = [Now(at) EXCEPT !.outcome = "waits"]
    <3>1. Top.spec # <<>> /\ Item \notin Callbacks
      BY <1>5 DEF Wanting
    <3> HIDE DEF Now
    <3> QED BY <2>1, <2>2, <3>1 DEF Turn, Top, Item
  <2>4. Turn(T, Now(at)).outcome = "waits"
    <3>1. Now(at) = [at |-> at, frames |-> frames, calls |-> calls, word |-> word, got |-> got,
                     outcome |-> outcome]
      BY DEF Now, Stage
    <3> HIDE DEF Now
    <3> QED BY <2>3, <3>1
  <2>5. Turn(T, Now(at)).outcome \in {"running", "ok", "refused", "failed"}
    BY <1>1, <1>2, <1>5, NextTurn
  <2> QED BY <2>4, <2>5
<1>8. CASE Within(T, A, B, at, b, data, wire, pos, st, "read")
  BY <1>5, <1>6, <1>8, WithinAtEnd
<1> QED BY <1>3, <1>7, <1>8 DEF Fits, Stands

-----------------------------------------------------------------------------
LEMMA Invariant == Spec => []Inv
<1> QED BY InitFits, StepFits, PTL DEF Spec

\* The offsets of the tokenizer stay inside the buffer, whatever is dropped of it
\* and given back (svnproto_unpack, bytestream_recycle).
THEOREM TypeCorrect == Spec => []TypeOK
<1>1. Inv => TypeOK
  BY DEF Inv
<1> QED BY <1>1, Invariant, PTL

\* A call that returns success, or the errors of a failure, has picked the values
\* the server sent, however the bytes were cut into pieces and wherever the
\* connection ends.
THEOREM ValuesRightCorrect == Spec => []ValuesRight
<1> QED BY InvValues, Invariant, PTL

\* When the client is done with an exchange, nothing of it is left for the next
\* call, and nothing of the next one has been taken.
THEOREM InStepCorrect == Spec => []InStep
<1> QED BY InvInStep, Invariant, PTL

\* The client never waits for a byte behind the end of an exchange.
THEOREM NeverWaitsCorrect == Spec => []NeverWaits
<1> QED BY InvNeverWaits, Invariant, PTL

=============================================================================
