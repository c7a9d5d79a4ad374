-------------------------- MODULE SvnDiff_proofs --------------------------
(***************************************************************************)
(* Theorems about SvnDiff, for every document an encoder may send, or may  *)
(* not, as long as its numbers fit, however it is cut into chunks, and for *)
(* every radix and length of a number.  What is recursive in the model is a recursive function; what it*)
(* computes is proved by induction over the naturals (NatInduct, UpTo).    *)
(***************************************************************************)
EXTENDS SvnDiff, SequenceTheorems, WellFoundedInduction, TLAPS

-----------------------------------------------------------------------------
(***************************************************************************)
(* Arithmetic, and induction over the naturals for a set of them.          *)
(***************************************************************************)
\* Induction, for a set of naturals instead of a predicate.
LEMMA NatInduct ==
  ASSUME NEW T \in SUBSET Nat, 0 \in T, \A n \in T : n + 1 \in T
  PROVE  T = Nat
<1> SUFFICES ASSUME Nat \ T # {} PROVE FALSE
  OBVIOUS
<1>1. \E x \in Nat \ T : \A y \in Nat \ T : ~ (<<y, x>> \in OpToRel(<, Nat))
  BY WFMin, NatLessThanWellFounded
<1>2. PICK x \in Nat \ T : \A y \in Nat \ T : ~ (y < x)
  BY <1>1 DEF OpToRel
<1>3. x # 0 /\ x - 1 \in Nat /\ x - 1 < x /\ x - 1 + 1 = x
  BY <1>2
<1> QED BY <1>2, <1>3

\* Division with a rest.
LEMMA DivMod ==
  ASSUME NEW a \in Nat, NEW b \in Nat, b > 0
  PROVE  a = (a \div b) * b + (a % b) /\ a \div b \in Nat /\ a % b \in 0..(b - 1)
OBVIOUS

\* What is left of a number without its last digit is less.
LEMMA DivLess ==
  ASSUME NEW a \in Nat, NEW b \in Nat, b > 1, a > 0
  PROVE  a \div b \in Nat /\ a \div b < a
<1>1. a \div b \in Nat
  BY DivMod
<1>2. a \div b < a
  OBVIOUS
<1> QED BY <1>1, <1>2

\* The quotient and the rest of what is put together from them.
LEMMA QuotientRest ==
  ASSUME NEW q \in Nat, NEW b \in Nat, b > 0, NEW r \in 0..(b - 1)
  PROVE  (q * b + r) \div b = q /\ (q * b + r) % b = r
OBVIOUS

\* A digit, with the high bit or without it.
LEMMA ModOfLess ==
  ASSUME NEW b \in Nat, NEW r \in 0..(b - 1)
  PROVE  r % b = r /\ (b + r) % b = r
OBVIOUS

\* One turn more round the circle.
LEMMA ModAdd ==
  ASSUME NEW b \in Nat, b > 0, NEW a \in Nat
  PROVE  (a + b) % b = a % b
<1>1. PICK q \in Nat, r \in 0..(b - 1) : a = q * b + r
  BY DivMod
<1>2. a + b = (q + 1) * b + r /\ q + 1 \in Nat
  BY <1>1
<1> QED BY <1>1, <1>2, QuotientRest

-----------------------------------------------------------------------------
(***************************************************************************)
(* Numbers.                                                                *)
(***************************************************************************)
Byte == Nat \cup Seq(Nat)

\* What the digits d have come to after each of them is val; all make n.
Spells(d, n) ==
  /\ d \in Seq(0..(Radix - 1)) /\ Len(d) >= 1
  /\ \E val \in [0..Len(d) -> Nat] :
       /\ val[0] = 0 /\ val[Len(d)] = n
       /\ \A k \in 1..Len(d) : val[k] = val[k - 1] * Radix + d[k]

\* The recursive function of Digits is defined for every number.
LEMMA DigitsExist ==
  ASSUME NEW n \in Nat
  PROVE  \E ds : ds = [m \in 0..n |->
                         IF m < Radix THEN <<m>> ELSE Append(ds[m \div Radix], m % Radix)]
<1> DEFINE Right(ds, k) == ds = [m \in 0..k |->
                         IF m < Radix THEN <<m>> ELSE Append(ds[m \div Radix], m % Radix)]
           T == {k \in Nat : \E ds : Right(ds, k)}
<1>0. Radix \in Nat /\ Radix > 1
  BY CodingAssumption
<1>1. 0 \in T
  <2>1. Right([m \in 0..0 |-> <<m>>], 0)
    BY <1>0
  <2> QED BY <2>1
<1>2. ASSUME NEW k \in T PROVE k + 1 \in T
  <2>1. k \in Nat /\ \E ds : Right(ds, k)
    OBVIOUS
  <2>2. PICK ds : Right(ds, k)
    BY <2>1
  <2> DEFINE last == IF k + 1 < Radix THEN <<k + 1>>
                     ELSE Append(ds[(k + 1) \div Radix], (k + 1) % Radix)
             ds2 == [m \in 0..(k + 1) |-> IF m <= k THEN ds[m] ELSE last]
  <2>3. ASSUME NEW m \in 0..(k + 1)
        PROVE  ds2[m] = IF m < Radix THEN <<m>> ELSE Append(ds2[m \div Radix], m % Radix)
    <3>1. ASSUME m >= Radix PROVE m \div Radix \in 0..k
      <4>1. m \in Nat /\ m > 0 /\ m <= k + 1
        BY <1>0, <2>1, <3>1
      <4>2. m \div Radix \in Nat /\ m \div Radix < m
        BY <1>0, <4>1, DivLess
      <4> QED BY <2>1, <4>1, <4>2
    <3>2. m >= Radix => ds2[m \div Radix] = ds[m \div Radix]
      BY <2>1, <3>1
    <3>3. CASE m <= k
      <4>1. m \in 0..k /\ ds2[m] = ds[m]
        BY <2>1, <3>3
      <4>2. ds[m] = IF m < Radix THEN <<m>> ELSE Append(ds[m \div Radix], m % Radix)
        BY <2>2, <4>1
      <4> HIDE DEF ds2
      <4> QED BY <1>0, <3>2, <4>1, <4>2
    <3>4. CASE m = k + 1
      <4>1. ds2[m] = last
        BY <2>1, <3>4
      <4> HIDE DEF ds2
      <4> QED BY <1>0, <3>2, <3>4, <4>1
    <3> QED BY <2>1, <3>3, <3>4
  <2> HIDE DEF last
  <2>4. Right(ds2, k + 1)
    BY <2>3
  <2> HIDE DEF ds2, Right
  <2> QED BY <2>1, <2>4
<1>3. T = Nat
  <2> HIDE DEF Right
  <2>1. T \in SUBSET Nat
    OBVIOUS
  <2> HIDE DEF T
  <2> QED BY <1>1, <1>2, <2>1, NatInduct
<1> QED BY <1>3

\* The digits of a number spell it: their value is the number.
LEMMA DigitsSpell ==
  ASSUME NEW n \in Nat
  PROVE  Spells(Digits(n), n)
<1>0. Radix \in Nat /\ Radix > 1
  BY CodingAssumption
<1>1. PICK ds : /\ Digits(n) = ds[n]
                /\ ds = [m \in 0..n |->
                         IF m < Radix THEN <<m>> ELSE Append(ds[m \div Radix], m % Radix)]
  BY DigitsExist DEF Digits
<1> DEFINE T == {k \in Nat : \A m \in 0..k : m <= n => Spells(ds[m], m)}
<1>2. ASSUME NEW m \in 0..n, m < Radix PROVE Spells(ds[m], m)
  <2>1. ds[m] = <<m>> /\ m \in 0..(Radix - 1)
    BY <1>0, <1>1, <1>2
  <2> DEFINE val == [j \in 0..1 |-> IF j = 0 THEN 0 ELSE m]
  <2>2. /\ val \in [0..1 -> Nat] /\ val[0] = 0 /\ val[1] = m
        /\ \A k \in 1..1 : val[k] = val[k - 1] * Radix + <<m>>[k]
    BY <1>0, <2>1
  <2>3. <<m>> \in Seq(0..(Radix - 1)) /\ Len(<<m>>) = 1
    BY <2>1
  <2> HIDE DEF val
  <2> QED BY <2>1, <2>2, <2>3 DEF Spells
<1>3. 0 \in T
  BY <1>0, <1>2
<1>4. ASSUME NEW k \in T PROVE k + 1 \in T
  <2>1. k \in Nat /\ \A m \in 0..k : m <= n => Spells(ds[m], m)
    OBVIOUS
  <2> SUFFICES ASSUME k + 1 <= n PROVE Spells(ds[k + 1], k + 1)
    BY <2>1
  <2>2. CASE k + 1 < Radix
    BY <1>2, <2>1, <2>2
  <2>3. CASE k + 1 >= Radix
    <3>1. PICK q \in Nat, r \in 0..(Radix - 1) :
            /\ q = (k + 1) \div Radix /\ r = (k + 1) % Radix
            /\ k + 1 = q * Radix + r /\ q <= k
      BY <1>0, <2>1, DivMod, DivLess
    <3>2. ds[k + 1] = Append(ds[q], r)
      <4>1. k + 1 \in 0..n /\ ~(k + 1 < Radix)
        BY <1>0, <2>1, <2>3
      <4>2. ds[k + 1] = Append(ds[(k + 1) \div Radix], (k + 1) % Radix)
        BY <1>1, <4>1
      <4> QED BY <3>1, <4>2
    <3>3. PICK d : d = ds[q]
      OBVIOUS
    <3>4. Spells(d, q)
      BY <2>1, <3>1, <3>3
    <3>5. PICK val \in [0..Len(d) -> Nat] :
            /\ val[0] = 0 /\ val[Len(d)] = q
            /\ \A j \in 1..Len(d) : val[j] = val[j - 1] * Radix + d[j]
      BY <3>4 DEF Spells
    <3>6. PICK e : e = Append(d, r)
      OBVIOUS
    <3>7. /\ d \in Seq(0..(Radix - 1)) /\ Len(d) \in Nat /\ Len(d) >= 1
          /\ e \in Seq(0..(Radix - 1)) /\ Len(e) = Len(d) + 1
          /\ (\A j \in 1..Len(d) : e[j] = d[j]) /\ e[Len(d) + 1] = r
      BY <3>4, <3>6, AppendProperties, LenProperties DEF Spells
    <3> DEFINE val2 == [j \in 0..Len(e) |-> IF j <= Len(d) THEN val[j] ELSE k + 1]
    <3>8. val2 \in [0..Len(e) -> Nat] /\ val2[0] = 0 /\ val2[Len(e)] = k + 1
      BY <2>1, <3>5, <3>7
    <3>9. ASSUME NEW j \in 1..Len(e) PROVE val2[j] = val2[j - 1] * Radix + e[j]
      <4>1. CASE j <= Len(d)
        <5>1. j \in 1..Len(d) /\ val2[j] = val[j] /\ val2[j - 1] = val[j - 1] /\ e[j] = d[j]
          BY <3>7, <4>1
        <5> HIDE DEF val2
        <5> QED BY <3>5, <5>1
      <4>2. CASE j = Len(d) + 1
        <5>1. val2[j] = k + 1 /\ val2[j - 1] = q /\ e[j] = r
          BY <3>5, <3>7, <4>2
        <5> HIDE DEF val2
        <5> QED BY <3>1, <5>1
      <4> QED BY <3>7, <4>1, <4>2
    <3> HIDE DEF val2
    <3>10. Len(e) >= 1
      BY <3>7
    <3>11. Spells(e, k + 1)
      BY <3>7, <3>8, <3>9, <3>10 DEF Spells
    <3> QED BY <3>2, <3>3, <3>6, <3>11
  <2> QED BY <1>0, <2>1, <2>2, <2>3
<1>5. T = Nat
  <2>1. T \in SUBSET Nat
    OBVIOUS
  <2> HIDE DEF T
  <2> QED BY <1>3, <1>4, <2>1, NatInduct
<1> QED BY <1>1, <1>5

\* decode_number adds up what val has after each digit.
LEMMA ValueIs ==
  ASSUME NEW s, NumberLen(s) \in Nat, NEW v \in [0..NumberLen(s) -> Nat], v[0] = 0,
         \A k \in 1..NumberLen(s) : v[k] = (v[k - 1] * Radix) + (s[k] % Radix)
  PROVE  NumberOf(s) = v[NumberLen(s)]
<1> DEFINE n == NumberLen(s)
           Right(f) == f = [k \in 0..n |->
                              IF k = 0 THEN 0 ELSE (f[k - 1] * Radix) + (s[k] % Radix)]
           val == CHOOSE f : Right(f)
<1> HIDE DEF n
<1>1. Right(v)
  <2>1. \A k \in 0..n : v[k] = IF k = 0 THEN 0 ELSE (v[k - 1] * Radix) + (s[k] % Radix)
    BY DEF n
  <2> QED BY <2>1 DEF n
<1>2. Right(val)
  <2> HIDE DEF Right
  <2> QED BY <1>1
<1>3. NumberOf(s) = val[n]
  BY DEF NumberOf, n
<1> HIDE DEF val
<1>4. val[0] = 0 /\ \A k \in 1..n : val[k] = (val[k - 1] * Radix) + (s[k] % Radix)
  <2>1. n \in Nat
    BY DEF n
  <2> QED BY <1>2, <2>1
<1> HIDE DEF Right
<1> DEFINE T == {k \in Nat : k <= n => val[k] = v[k]}
<1>5. 0 \in T
  BY <1>4
<1>6. ASSUME NEW k \in T PROVE k + 1 \in T
  <2> SUFFICES ASSUME k + 1 <= n PROVE val[k + 1] = v[k + 1]
    OBVIOUS
  <2>1. n \in Nat /\ k \in Nat /\ k + 1 \in 1..n /\ k + 1 - 1 = k
    BY DEF n
  <2>2. val[k] = v[k]
    BY <2>1
  <2>3. v[k + 1] = (v[k] * Radix) + (s[k + 1] % Radix)
    BY <2>1 DEF n
  <2> QED BY <1>4, <2>1, <2>2, <2>3
<1>7. T = Nat
  <2>1. T \in SUBSET Nat
    OBVIOUS
  <2> HIDE DEF T
  <2> QED BY <1>5, <1>6, <2>1, NatInduct
<1>8. n \in T /\ n <= n
  BY <1>7 DEF n
<1> QED BY <1>3, <1>8 DEF n

\* The bytes of a number: continued up to the last.
LEMMA NumberBytes ==
  ASSUME NEW n \in Number
  PROVE  LET e == EncNumber(n)
         IN /\ n \in Nat /\ e \in Seq(Nat) /\ Len(e) \in 1..MaxDigits
            /\ e[Len(e)] < Radix
            /\ \A i \in 1..(Len(e) - 1) : e[i] \in Radix..(2 * Radix - 1)
            /\ Len(e) = Len(Digits(n))
            /\ \A i \in 1..Len(e) : e[i] % Radix = Digits(n)[i]
<1>0. Radix \in Nat /\ Radix > 1 /\ MaxDigits \in Nat
  BY CodingAssumption
<1>1. PICK d : d = Digits(n)
  OBVIOUS
<1>2. n \in Nat /\ Spells(d, n) /\ Len(d) <= MaxDigits
  BY <1>1, DigitsSpell DEF Number
<1>3. d \in [1..Len(d) -> 0..(Radix - 1)] /\ Len(d) \in Nat /\ Len(d) >= 1
  BY <1>2, LenProperties DEF Spells
<1> DEFINE e == [i \in 1..Len(d) |-> IF i < Len(d) THEN Radix + d[i] ELSE d[i]]
<1>4. EncNumber(n) = e
  BY <1>1 DEF EncNumber
<1>5. \A i \in 1..Len(d) : d[i] \in 0..(Radix - 1)
  BY <1>3
<1>6. e \in Seq(Nat) /\ Len(e) = Len(d)
  BY <1>0, <1>3, <1>5
<1>7. e[Len(d)] = d[Len(d)] /\ \A i \in 1..(Len(d) - 1) : e[i] = Radix + d[i]
  BY <1>3
<1>8. ASSUME NEW i \in 1..Len(d) PROVE e[i] % Radix = d[i]
  <2>1. e[i] = d[i] \/ e[i] = Radix + d[i]
    OBVIOUS
  <2>2. d[i] \in 0..(Radix - 1)
    BY <1>5
  <2> HIDE DEF e
  <2> QED BY <1>0, <2>1, <2>2, ModOfLess
<1> HIDE DEF e
<1>9. Len(e) \in 1..MaxDigits
  BY <1>0, <1>2, <1>3, <1>6
<1>10. e[Len(e)] < Radix
  BY <1>0, <1>3, <1>5, <1>6, <1>7
<1>11. ASSUME NEW i \in 1..(Len(e) - 1) PROVE e[i] \in Radix..(2 * Radix - 1)
  <2>1. i \in 1..Len(d) /\ i \in 1..(Len(d) - 1)
    BY <1>3, <1>6
  <2>2. PICK x : x = d[i] /\ x \in 0..(Radix - 1) /\ e[i] = Radix + x
    BY <1>5, <1>7, <2>1
  <2>3. Radix + x \in Radix..(2 * Radix - 1)
    BY <1>0, <2>2
  <2> QED BY <2>2, <2>3
<1> QED BY <1>1, <1>2, <1>4, <1>6, <1>8, <1>9, <1>10, <1>11

\* What is left of a sequence after its beginning.
LEMMA DropPrefix ==
  ASSUME NEW S, NEW s \in Seq(S), NEW t \in Seq(S)
  PROVE  Drop(s \o t, Len(s)) = t
<1>1. PICK u : u = s \o t
  OBVIOUS
<1>2. /\ u \in Seq(S) /\ Len(u) = Len(s) + Len(t) /\ Len(s) \in Nat /\ Len(t) \in Nat
      /\ \A i \in 1..Len(u) : u[i] = IF i <= Len(s) THEN s[i] ELSE t[i - Len(s)]
  BY <1>1, ConcatProperties, LenProperties
<1>3. PICK m \in Nat : m = Len(s) + 1
  BY <1>2
<1>4. \A i \in m..Len(u) : u[i] \in S
  BY <1>2, <1>3, ElementOfSeq
<1>5. PICK r : r = SubSeq(u, m, Len(u))
  OBVIOUS
<1>6. /\ r \in Seq(S) /\ Len(r) = IF m <= Len(u) THEN Len(u) - m + 1 ELSE 0
      /\ \A i \in 1..(Len(u) - m + 1) : r[i] = u[m + i - 1]
  BY <1>2, <1>3, <1>4, <1>5, SubSeqProperties
<1>7. Len(r) = Len(t)
  BY <1>2, <1>3, <1>6
<1>8. ASSUME NEW i \in 1..Len(r) PROVE r[i] = t[i]
  <2>1. PICK j \in Nat : j = m + i - 1
    BY <1>2, <1>3, <1>7
  <2>2. i \in 1..(Len(u) - m + 1) /\ j \in 1..Len(u) /\ ~(j <= Len(s)) /\ j - Len(s) = i
    BY <1>2, <1>3, <1>7, <2>1
  <2>3. r[i] = u[j]
    BY <1>6, <2>1, <2>2
  <2> QED BY <1>2, <2>2, <2>3
<1>9. r = t
  BY <1>6, <1>7, <1>8, SeqEqual
<1> QED BY <1>1, <1>3, <1>5, <1>9 DEF Drop

\* decode_number reads a number and leaves what follows it.
LEMMA NumberRead ==
  ASSUME NEW n \in Number, NEW t \in Seq(Byte)
  PROVE  LET s == EncNumber(n) \o t
         IN /\ s \in Seq(Byte) /\ s # << >>
            /\ Complete(s)
            /\ NumberLen(s) = Len(EncNumber(n))
            /\ NumberOf(s) = n
            /\ Drop(s, NumberLen(s)) = t
<1>0. Radix \in Nat /\ Radix > 1 /\ MaxDigits \in Nat
  BY CodingAssumption
<1>1. PICK e : e = EncNumber(n)
  OBVIOUS
<1>2. /\ n \in Nat /\ e \in Seq(Nat) /\ Len(e) \in 1..MaxDigits
      /\ e[Len(e)] < Radix
      /\ \A i \in 1..(Len(e) - 1) : e[i] \in Radix..(2 * Radix - 1)
      /\ Len(e) = Len(Digits(n))
      /\ \A i \in 1..Len(e) : e[i] % Radix = Digits(n)[i]
  BY <1>1, NumberBytes
<1>3. e \in Seq(Byte)
  BY <1>2, SeqMonotonic DEF Byte
<1>4. PICK s : s = e \o t
  OBVIOUS
<1>5. /\ s \in Seq(Byte) /\ Len(s) = Len(e) + Len(t) /\ Len(t) \in Nat /\ Len(e) \in Nat
      /\ \A i \in 1..Len(e) : s[i] = e[i]
  BY <1>3, <1>4, ConcatProperties, LenProperties
<1>6. s # << >>
  BY <1>0, <1>2, <1>5
<1>7. Complete(s)
  <2>1. Len(e) \in 1..Len(s) /\ Len(e) <= MaxDigits /\ s[Len(e)] < Radix
    <3>1. Len(e) \in 1..Len(e) /\ Len(e) \in 1..Len(s) /\ Len(e) <= MaxDigits
      BY <1>0, <1>2, <1>5
    <3>2. s[Len(e)] = e[Len(e)]
      BY <1>5, <3>1
    <3> QED BY <1>2, <3>1, <3>2
  <2> QED BY <2>1 DEF Complete
<1>8. NumberLen(s) = Len(e)
  <2> DEFINE First(j) == s[j] < Radix /\ \A k \in 1..(j - 1) : s[k] >= Radix
  <2>1. Len(e) \in 1..Len(s) /\ s[Len(e)] < Radix
    <3>1. Len(e) \in 1..Len(e) /\ Len(e) \in 1..Len(s)
      BY <1>0, <1>2, <1>5
    <3>2. s[Len(e)] = e[Len(e)]
      BY <1>5, <3>1
    <3> QED BY <1>2, <3>1, <3>2
  <2>2. ASSUME NEW k \in 1..(Len(e) - 1) PROVE s[k] >= Radix /\ ~(s[k] < Radix) /\ k \in 1..Len(s)
    <3>1. k \in 1..Len(e) /\ e[k] \in Radix..(2 * Radix - 1)
      BY <1>2, <1>5
    <3>2. s[k] = e[k]
      BY <1>5, <3>1
    <3> QED BY <1>0, <1>5, <3>1, <3>2
  <2>3. First(Len(e))
    BY <2>1, <2>2
  <2>4. ASSUME NEW j \in 1..Len(s), First(j) PROVE j = Len(e)
    <3>1. CASE j < Len(e)
      BY <1>5, <2>2, <2>4, <3>1
    <3>2. CASE j > Len(e)
      <4>1. Len(e) \in 1..(j - 1)
        BY <1>2, <1>5, <3>2
      <4>2. s[Len(e)] >= Radix /\ s[Len(e)] = e[Len(e)] /\ e[Len(e)] \in Nat
        BY <1>2, <1>5, <2>4, <4>1, ElementOfSeq
      <4> QED BY <1>0, <2>1, <4>2
    <3> QED BY <1>5, <3>1, <3>2
  <2> HIDE DEF First
  <2>5. NumberLen(s) = CHOOSE j \in 1..Len(s) : First(j)
    BY DEF NumberLen, First
  <2> QED BY <2>1, <2>3, <2>4, <2>5
<1>9. NumberOf(s) = n
  <2>1. Spells(Digits(n), n)
    BY <1>2, DigitsSpell
  <2>2. PICK v \in [0..Len(e) -> Nat] :
          /\ v[0] = 0 /\ v[Len(e)] = n
          /\ \A k \in 1..Len(e) : v[k] = v[k - 1] * Radix + Digits(n)[k]
    BY <1>2, <2>1 DEF Spells
  <2>3. \A k \in 1..Len(e) : v[k] = (v[k - 1] * Radix) + (s[k] % Radix)
    BY <1>2, <1>5, <2>2
  <2>4. NumberLen(s) \in Nat /\ v \in [0..NumberLen(s) -> Nat]
    BY <1>5, <1>8
  <2>5. NumberOf(s) = v[NumberLen(s)]
    BY <1>8, <2>2, <2>3, <2>4, ValueIs
  <2> QED BY <1>8, <2>2, <2>5
<1>10. Drop(s, NumberLen(s)) = t
  BY <1>3, <1>4, <1>5, <1>8, DropPrefix
<1> QED BY <1>1, <1>4, <1>5, <1>6, <1>7, <1>8, <1>9, <1>10

-----------------------------------------------------------------------------
(***************************************************************************)
(* Fields put one after the other.                                         *)
(***************************************************************************)
\* Induction up to n.
LEMMA UpTo ==
  ASSUME NEW n \in Nat, NEW T \in SUBSET (0..n), 0 \in T,
         \A k \in T : k < n => k + 1 \in T
  PROVE  n \in T
<1> DEFINE U == {k \in Nat : k <= n => k \in T}
<1>1. 0 \in U
  OBVIOUS
<1>2. ASSUME NEW k \in U PROVE k + 1 \in U
  OBVIOUS
<1>3. U = Nat
  <2>1. U \in SUBSET Nat
    OBVIOUS
  <2> HIDE DEF U
  <2> QED BY <1>1, <1>2, <2>1, NatInduct
<1> QED BY <1>3

\* f has what there is after each of the fields.
Flattens(f, seqs, S) ==
  /\ f \in [0..Len(seqs) -> Seq(S)] /\ f[0] = << >>
  /\ \A i \in 1..Len(seqs) : f[i] = f[i - 1] \o seqs[i]

\* Names that are not expanded where a lemma is used: an equation of sequences is
\* then one of two terms.
Con(a, b) == a \o b
Slice(s, m, n) == SubSeq(s, m, n)

\* Concatenation is associative.
LEMMA Associated ==
  ASSUME NEW S, NEW a \in Seq(S), NEW b \in Seq(S), NEW c \in Seq(S)
  PROVE  Con(Con(a, b), c) = Con(a, Con(b, c))
BY ConcatAssociative DEF Con

\* There is a function of the fields put together so far.
LEMMA FlattenExists ==
  ASSUME NEW S, NEW seqs \in Seq(Seq(S))
  PROVE  \E f : Flattens(f, seqs, S)
<1>0. PICK n \in Nat : n = Len(seqs)
  BY LenProperties
<1> DEFINE Right(f, k) == /\ f \in [0..k -> Seq(S)] /\ f[0] = << >>
                          /\ \A i \in 1..k : f[i] = f[i - 1] \o seqs[i]
           T == {k \in 0..n : \E f : Right(f, k)}
<1>1. 0 \in T
  <2>1. Right([i \in 0..0 |-> << >>], 0)
    BY EmptySeq
  <2> HIDE DEF Right
  <2> QED BY <1>0, <2>1
<1>2. ASSUME NEW k \in T, k < n PROVE k + 1 \in T
  <2> HIDE DEF Right
  <2>1. PICK f : Right(f, k)
    OBVIOUS
  <2>2. PICK m \in 0..n : m = k + 1 /\ k \in 0..n /\ m \in 1..n /\ m - 1 = k
    BY <1>0, <1>2
  <2>3. /\ f \in [0..k -> Seq(S)] /\ f[0] = << >>
        /\ \A i \in 1..k : f[i] = f[i - 1] \o seqs[i]
    BY <2>1 DEF Right
  <2>4. f[k] \in Seq(S) /\ seqs[m] \in Seq(S)
    BY <1>0, <2>2, <2>3, ElementOfSeq
  <2>5. PICK e \in Seq(S) : e = f[k] \o seqs[m]
    BY <2>4, ConcatProperties
  <2> DEFINE g == [i \in 0..m |-> IF i <= k THEN f[i] ELSE e]
  <2>6. g \in [0..m -> Seq(S)]
    BY <1>0, <2>2, <2>3
  <2>7. g[0] = << >>
    BY <1>0, <2>2, <2>3
  <2>8. ASSUME NEW i \in 1..m PROVE g[i] = g[i - 1] \o seqs[i]
    <3>1. CASE i <= k
      <4>1. i \in 1..k /\ g[i] = f[i] /\ g[i - 1] = f[i - 1]
        BY <1>0, <2>2, <3>1
      <4> HIDE DEF g
      <4> QED BY <2>3, <4>1
    <3>2. CASE i = m
      <4>1. g[m] = e /\ g[m - 1] = f[k]
        BY <1>0, <2>2, <3>2
      <4> HIDE DEF g
      <4> QED BY <2>5, <3>2, <4>1
    <3>3. i <= k \/ i = m
      BY <1>0, <2>2
    <3> QED BY <3>1, <3>2, <3>3
  <2> HIDE DEF g
  <2>9. Right(g, m)
    BY <2>6, <2>7, <2>8 DEF Right
  <2> QED BY <2>2, <2>9
<1> HIDE DEF Right
<1>3. n \in T
  <2>1. T \in SUBSET (0..n)
    OBVIOUS
  <2> HIDE DEF T
  <2>2. \A k \in T : k < n => k + 1 \in T
    BY <1>2
  <2> QED BY <1>1, <2>1, <2>2, UpTo
<1> QED BY <1>0, <1>3 DEF Right, Flattens

\* No fields, no bytes.
LEMMA FlattenNone ==
  FlattenSeq(<< >>) = << >>
BY DEF FlattenSeq

\* FlattenSeq is the last value of that function.
LEMMA FlattenIs ==
  ASSUME NEW S, NEW seqs \in Seq(Seq(S)), NEW f, Flattens(f, seqs, S)
  PROVE  FlattenSeq(seqs) = f[Len(seqs)]
<1>0. PICK n \in Nat : n = Len(seqs)
  BY LenProperties
<1>1. /\ f \in [0..n -> Seq(S)] /\ f[0] = << >>
      /\ \A i \in 1..n : f[i] = f[i - 1] \o seqs[i]
  BY <1>0 DEF Flattens
<1>2. CASE n = 0
  BY <1>0, <1>1, <1>2, EmptySeq, FlattenNone
<1>3. CASE n >= 1
  <2> DEFINE Right(h) == h = [i \in 1..n |-> IF i = 1 THEN seqs[i] ELSE h[i - 1] \o seqs[i]]
             flatten == CHOOSE h : Right(h)
             r == [i \in 1..n |-> f[i]]
  <2>1. ASSUME NEW i \in 1..n
        PROVE  r[i] = IF i = 1 THEN seqs[i] ELSE r[i - 1] \o seqs[i]
    <3>1. r[i] = f[i - 1] \o seqs[i] /\ seqs[i] \in Seq(S)
      BY <1>0, <1>1, ElementOfSeq
    <3>2. ASSUME i = 1 PROVE f[i - 1] \o seqs[i] = seqs[i]
      <4>1. f[i - 1] = << >>
        BY <1>1, <3>2
      <4> QED BY <3>1, <4>1, ConcatEmptySeq
    <3>3. i # 1 => r[i - 1] = f[i - 1]
      BY <1>0
    <3> HIDE DEF r
    <3> QED BY <3>1, <3>2, <3>3
  <2>2. Right(r)
    <3>1. r = [i \in 1..n |-> IF i = 1 THEN seqs[i] ELSE r[i - 1] \o seqs[i]]
      <4> DEFINE r2 == [i \in 1..n |-> IF i = 1 THEN seqs[i] ELSE r[i - 1] \o seqs[i]]
      <4>1. DOMAIN r = 1..n /\ DOMAIN r2 = 1..n /\ r = [i \in 1..n |-> r[i]]
        OBVIOUS
      <4>2. \A i \in 1..n : r2[i] = r[i]
        <5> HIDE DEF r
        <5> QED BY <2>1
      <4>3. r2 = [i \in 1..n |-> r2[i]]
        OBVIOUS
      <4> HIDE DEF r, r2
      <4>4. r = r2
        BY <4>1, <4>2, <4>3
      <4> QED BY <4>4 DEF r2
    <3> HIDE DEF r
    <3> QED BY <3>1
  <2>3. Right(flatten)
    <3> HIDE DEF Right, r
    <3> QED BY <2>2
  <2>4. FlattenSeq(seqs) = flatten[n]
    BY <1>0, <1>3 DEF FlattenSeq
  <2> HIDE DEF flatten, r
  <2>5. \A i \in 1..n : flatten[i] = IF i = 1 THEN seqs[i] ELSE flatten[i - 1] \o seqs[i]
    BY <2>3
  <2> HIDE DEF Right
  <2> DEFINE T == {k \in 0..n : k > 0 => flatten[k] = f[k]}
  <2>6. 0 \in T
    BY <1>0
  <2>7. ASSUME NEW k \in T, k < n PROVE k + 1 \in T
    <3>1. PICK m \in 0..n : m = k + 1 /\ k \in 0..n /\ m \in 1..n /\ m - 1 = k
      BY <1>0, <2>7
    <3>2. f[m] = f[k] \o seqs[m] /\ seqs[m] \in Seq(S)
      BY <1>0, <1>1, <3>1, ElementOfSeq
    <3>3. CASE k = 0
      <4>1. f[k] = << >> /\ m = 1 /\ 1 \in 1..n
        BY <1>1, <3>1, <3>3
      <4>2. flatten[m] = seqs[m]
        BY <2>5, <4>1
      <4>3. << >> \o seqs[m] = seqs[m]
        BY <3>2, ConcatEmptySeq
      <4> QED BY <3>1, <3>2, <4>1, <4>2, <4>3
    <3>4. CASE k > 0
      <4>1. flatten[k] = f[k]
        BY <3>4
      <4>2. flatten[m] = flatten[k] \o seqs[m]
        <5>1. m # 1
          BY <3>1, <3>4
        <5> QED BY <2>5, <3>1, <5>1
      <4> QED BY <3>1, <3>2, <4>1, <4>2
    <3> QED BY <3>1, <3>3, <3>4
  <2>8. n \in T
    <3>1. T \in SUBSET (0..n)
      OBVIOUS
    <3> HIDE DEF T
    <3>2. \A k \in T : k < n => k + 1 \in T
      BY <2>7
    <3> QED BY <2>6, <3>1, <3>2, UpTo
  <2> QED BY <1>0, <1>3, <2>4, <2>8
<1> QED BY <1>0, <1>2, <1>3

\* Fields of S put together are a sequence of S.
LEMMA FlattenType ==
  ASSUME NEW S, NEW seqs \in Seq(Seq(S))
  PROVE  FlattenSeq(seqs) \in Seq(S)
<1>1. PICK f : Flattens(f, seqs, S)
  BY FlattenExists
<1>2. f \in [0..Len(seqs) -> Seq(S)] /\ Len(seqs) \in 0..Len(seqs)
  BY <1>1, LenProperties DEF Flattens
<1> QED BY <1>1, <1>2, FlattenIs

\* The first of them comes first.
LEMMA FlattenFirst ==
  ASSUME NEW S, NEW seqs \in Seq(Seq(S)), seqs # << >>
  PROVE  FlattenSeq(seqs) = seqs[1] \o FlattenSeq(Tail(seqs))
<1>0. PICK n \in Nat : n = Len(seqs) /\ n >= 1
  BY EmptySeq
<1>1. PICK tail : tail = Tail(seqs)
  OBVIOUS
<1>2. PICK m \in Nat : m = n - 1 /\ m < n
  <2>1. n - 1 \in Nat /\ n - 1 < n
    BY <1>0
  <2> QED BY <2>1
<1>3. /\ tail \in Seq(Seq(S)) /\ Len(tail) = m
      /\ \A i \in 1..m : tail[i] = seqs[i + 1]
  BY <1>0, <1>1, <1>2, HeadTailProperties
<1>4. PICK a \in Seq(S) : a = seqs[1]
  BY <1>0, ElementOfSeq
<1>5. PICK g : Flattens(g, tail, S)
  BY <1>3, FlattenExists
<1>6. /\ g \in [0..m -> Seq(S)] /\ g[0] = << >>
      /\ \A i \in 1..m : g[i] = g[i - 1] \o tail[i]
  BY <1>3, <1>5 DEF Flattens
<1>7. FlattenSeq(tail) = g[m] /\ g[m] \in Seq(S)
  <2>1. m \in 0..m
    OBVIOUS
  <2>2. FlattenSeq(tail) = g[Len(tail)]
    BY <1>3, <1>5, FlattenIs
  <2> QED BY <1>3, <1>6, <2>1, <2>2
<1> DEFINE f == [i \in 0..n |-> IF i = 0 THEN << >> ELSE a \o g[i - 1]]
<1>8. ASSUME NEW i \in 0..n PROVE f[i] \in Seq(S)
  <2>1. CASE i = 0
    BY <2>1, EmptySeq
  <2>2. CASE i > 0
    <3>1. i - 1 \in 0..m /\ f[i] = a \o g[i - 1]
      BY <1>2, <2>2
    <3>2. g[i - 1] \in Seq(S)
      BY <1>6, <3>1
    <3> HIDE DEF f
    <3> QED BY <3>1, <3>2, ConcatProperties
  <2> QED BY <1>0, <2>1, <2>2
<1>9. ASSUME NEW i \in 1..n PROVE f[i] = f[i - 1] \o seqs[i]
  <2>1. PICK j \in Nat : j = i - 1 /\ j \in 0..m /\ i = j + 1 /\ j \in 0..n
    BY <1>0, <1>2
  <2>2. f[i] = a \o g[j]
    <3>1. i \in 0..n /\ i # 0 /\ i - 1 = j
      BY <1>0, <2>1
    <3> QED BY <3>1
  <2>3. CASE j = 0
    <3>1. f[j] = << >> /\ g[j] = << >> /\ seqs[i] = a
      BY <1>0, <1>4, <1>6, <2>1, <2>3
    <3> HIDE DEF f
    <3> QED BY <2>1, <2>2, <3>1, ConcatEmptySeq
  <2>4. CASE j > 0
    <3>1. PICK h \in Nat : h = j - 1 /\ h \in 0..m /\ j \in 1..m
      BY <2>1, <2>4
    <3>2. f[j] = a \o g[h]
      <4>1. j \in 0..n /\ j # 0 /\ j - 1 = h
        BY <1>0, <2>1, <2>4, <3>1
      <4> QED BY <4>1
    <3> HIDE DEF f
    <3>3. g[j] = g[h] \o tail[j] /\ tail[j] = seqs[i]
      BY <1>3, <1>6, <2>1, <3>1
    <3>4. g[h] \in Seq(S) /\ tail[j] \in Seq(S)
      BY <1>3, <1>6, <3>1, ElementOfSeq
    <3>5. PICK x \in Seq(S), y \in Seq(S) : x = g[h] /\ y = tail[j]
      BY <3>4
    <3>6. (a \o x) \o y = a \o (x \o y)
      <4>1. Con(Con(a, x), y) = Con(a, Con(x, y))
        BY Associated
      <4> QED BY <4>1 DEF Con
    <3>7. f[i] = a \o (x \o y)
      BY <2>2, <3>3, <3>5
    <3>8. f[i - 1] \o seqs[i] = (a \o x) \o y
      BY <2>1, <3>2, <3>3, <3>5
    <3> QED BY <3>6, <3>7, <3>8
  <2>5. j = 0 \/ j > 0
    BY <2>1
  <2> QED BY <2>3, <2>4, <2>5
<1>10. f \in [0..n -> Seq(S)]
  BY <1>8
<1>11. f[0] = << >> /\ f[n] = a \o g[m]
  BY <1>0, <1>2
<1> HIDE DEF f
<1>12. Flattens(f, seqs, S)
  BY <1>0, <1>9, <1>10, <1>11 DEF Flattens
<1> QED BY <1>0, <1>1, <1>4, <1>7, <1>11, <1>12, FlattenIs

-----------------------------------------------------------------------------
(***************************************************************************)
(* Instructions and blocks.                                                *)
(***************************************************************************)
Octet == Nat

\* Unpacked bytes are bytes.
LEMMA OctetBytes ==
  ASSUME NEW s \in Seq(Octet)
  PROVE  s \in Seq(Byte)
BY SeqMonotonic DEF Byte, Octet

\* Type and length of a concatenation.
LEMMA Joined ==
  ASSUME NEW S, NEW a \in Seq(S), NEW b \in Seq(S)
  PROVE  a \o b \in Seq(S) /\ Len(a \o b) = Len(a) + Len(b)
BY ConcatProperties

\* The first byte of an instruction.
LEMMA InsnByte ==
  ASSUME NEW code \in Codes, NEW short \in 0..MaxShort
  PROVE  LET b == code * (MaxShort + 1) + short
         IN b \in Nat /\ b \div (MaxShort + 1) = code /\ b % (MaxShort + 1) = short
<1>1. PICK m \in Nat : m = MaxShort + 1 /\ m > 0 /\ short \in 0..(m - 1)
  BY CodingAssumption
<1>2. code \in Nat
  BY DEF Codes
<1>3. (code * m + short) \div m = code /\ (code * m + short) % m = short
  BY <1>1, <1>2, QuotientRest
<1>4. code * m + short \in Nat
  BY <1>1, <1>2
<1> QED BY <1>1, <1>3, <1>4

\* decode_insn reads an instruction and leaves what follows it.
LEMMA InsnRead ==
  ASSUME NEW i \in Insn, NEW t \in Seq(Octet)
  PROVE  LET s == EncInsn(i) \o t
         IN /\ EncInsn(i) \in Seq(Octet) /\ Len(EncInsn(i)) >= 1
            /\ s \in Seq(Octet) /\ Len(s) > Len(t)
            /\ InsnIsComplete(s)
            /\ DecodeInsn(s).insn = i
            /\ DecodeInsn(s).rest = t
<1>0. /\ i = [code |-> i.code, offset |-> i.offset, len |-> i.len]
      /\ i.code \in Codes /\ i.offset \in Number /\ i.len \in Number /\ i.len \in Nat
      /\ i.code = SVN_TXDELTA_NEW => i.offset = 0
      /\ MaxShort \in Nat
  BY CodingAssumption DEF Insn, Number
<1>1. PICK short : short = IF i.len <= MaxShort THEN i.len ELSE 0
  OBVIOUS
<1>2. short \in 0..MaxShort /\ (short # 0 => i.len = short)
  BY <1>0, <1>1
<1>3. PICK b \in Nat : /\ b = i.code * (MaxShort + 1) + short
                       /\ b \div (MaxShort + 1) = i.code
                       /\ b % (MaxShort + 1) = short
  BY <1>0, <1>2, InsnByte
<1>4. PICK lens : lens = IF short = 0 THEN EncNumber(i.len) ELSE << >>
  OBVIOUS
<1>5. PICK offs : offs = IF i.code # SVN_TXDELTA_NEW THEN EncNumber(i.offset) ELSE << >>
  OBVIOUS
<1>6. lens \in Seq(Octet) /\ offs \in Seq(Octet)
  BY <1>0, <1>4, <1>5, NumberBytes, EmptySeq DEF Octet
<1>7. EncInsn(i) = <<b>> \o lens \o offs
  BY <1>1, <1>3, <1>4, <1>5 DEF EncInsn
<1>8. PICK one : one \in Seq(Octet) /\ one = <<b>> /\ Len(one) = 1 /\ one[1] = b
  <2>1. <<b>> \in Seq(Octet) /\ Len(<<b>>) = 1 /\ <<b>>[1] = b
    BY <1>3 DEF Octet
  <2> QED BY <2>1
<1>9. PICK u : u \in Seq(Octet) /\ u = offs \o t
  BY <1>6, Joined
<1>10. PICK tail : tail \in Seq(Octet) /\ tail = lens \o u
  BY <1>6, <1>9, Joined
<1>11. PICK s : s = EncInsn(i) \o t
  OBVIOUS
<1>12. s = (one \o lens) \o u
  <2>1. one \in Seq(Octet) /\ lens \in Seq(Octet) /\ offs \in Seq(Octet) /\ t \in Seq(Octet)
    BY <1>6, <1>8
  <2>2. PICK p : p = one \o lens
    OBVIOUS
  <2>3. p \in Seq(Octet)
    BY <2>1, <2>2, Joined
  <2>4. (p \o offs) \o t = p \o (offs \o t)
    <3>1. p \in Seq(Octet) /\ offs \in Seq(Octet) /\ t \in Seq(Octet)
      BY <2>1, <2>3
    <3>2. Con(Con(p, offs), t) = Con(p, Con(offs, t))
      BY <3>1, Associated
    <3> QED BY <3>2 DEF Con
  <2> QED BY <1>7, <1>8, <1>9, <1>11, <2>2, <2>4
<1>13. s = one \o tail
  <2>1. one \in Seq(Octet) /\ lens \in Seq(Octet) /\ u \in Seq(Octet)
    BY <1>6, <1>8, <1>9
  <2>2. (one \o lens) \o u = one \o (lens \o u)
    <3>1. Con(Con(one, lens), u) = Con(one, Con(lens, u))
      BY <2>1, Associated
    <3> QED BY <3>1 DEF Con
  <2> QED BY <1>10, <1>12, <2>2
<1>14. /\ EncInsn(i) \in Seq(Octet) /\ Len(EncInsn(i)) = 1 + Len(lens) + Len(offs)
       /\ Len(lens) \in Nat /\ Len(offs) \in Nat /\ Len(t) \in Nat
  <2>1. one \in Seq(Octet) /\ lens \in Seq(Octet) /\ offs \in Seq(Octet) /\ t \in Seq(Octet)
    BY <1>6, <1>8
  <2>2. PICK p : p = one \o lens
    OBVIOUS
  <2>3. p \in Seq(Octet) /\ Len(p) = Len(one) + Len(lens)
    BY <2>1, <2>2, Joined
  <2>4. p \o offs \in Seq(Octet) /\ Len(p \o offs) = Len(p) + Len(offs)
    BY <2>1, <2>3, Joined
  <2>5. EncInsn(i) = p \o offs
    BY <1>7, <1>8, <2>2
  <2>6. Len(lens) \in Nat /\ Len(offs) \in Nat /\ Len(t) \in Nat
    BY <2>1, LenProperties
  <2> QED BY <1>8, <2>3, <2>4, <2>5, <2>6
<1>15. s \in Seq(Octet) /\ Len(s) > Len(t)
  <2>1. s \in Seq(Octet) /\ Len(s) = Len(EncInsn(i)) + Len(t)
    BY <1>11, <1>14, Joined
  <2> QED BY <1>14, <2>1
<1>16. s[1] = b /\ Tail(s) = tail
  <2>1. one \in Seq(Octet) /\ tail \in Seq(Octet)
    BY <1>8, <1>10
  <2>2. s[1] = one[1]
    BY <1>8, <1>13, <2>1, ConcatProperties, LenProperties
  <2>3. Tail(s) = tail
    <3>1. s # << >>
      BY <1>14, <1>15, EmptySeq
    <3>2. Tail(s) = SubSeq(s, 2, Len(s))
      BY <1>15, <3>1, TailIsSubSeq
    <3>3. Drop(s, 1) = tail
      <4>1. Drop(one \o tail, Len(one)) = tail
        BY <2>1, DropPrefix
      <4> QED BY <1>8, <1>13, <4>1
    <3> QED BY <3>2, <3>3 DEF Drop
  <2> QED BY <1>8, <2>2, <2>3
<1>17. /\ short = 0 => /\ Complete(tail) /\ NumberOf(tail) = i.len
                       /\ Drop(s, 1 + NumberLen(tail)) = u
       /\ short # 0 => tail = u
  <2>1. ASSUME short = 0
        PROVE  Complete(tail) /\ NumberOf(tail) = i.len /\ Drop(s, 1 + NumberLen(tail)) = u
    <3>1. u \in Seq(Byte) /\ tail = EncNumber(i.len) \o u /\ lens = EncNumber(i.len)
      BY <1>4, <1>9, <1>10, <2>1, OctetBytes
    <3>2. Complete(tail) /\ NumberOf(tail) = i.len /\ NumberLen(tail) = Len(lens)
      BY <1>0, <3>1, NumberRead
    <3>3. PICK a \in Seq(Octet) : a = one \o lens /\ Len(a) = 1 + Len(lens)
      BY <1>6, <1>8, Joined
    <3>4. Drop(s, Len(a)) = u
      BY <1>9, <1>12, <3>3, DropPrefix
    <3> QED BY <3>2, <3>3, <3>4
  <2>2. ASSUME short # 0 PROVE tail = u
    BY <1>4, <1>9, <1>10, <2>2, ConcatEmptySeq
  <2> QED BY <2>1, <2>2
<1>18. /\ i.code # SVN_TXDELTA_NEW => Complete(u) /\ NumberOf(u) = i.offset /\ Drop(u, NumberLen(u)) = t
       /\ i.code = SVN_TXDELTA_NEW => u = t
  <2>1. ASSUME i.code # SVN_TXDELTA_NEW
        PROVE  Complete(u) /\ NumberOf(u) = i.offset /\ Drop(u, NumberLen(u)) = t
    <3>1. t \in Seq(Byte) /\ u = EncNumber(i.offset) \o t
      BY <1>5, <1>9, <2>1, OctetBytes
    <3> QED BY <1>0, <3>1, NumberRead
  <2>2. ASSUME i.code = SVN_TXDELTA_NEW PROVE u = t
    BY <1>5, <1>9, <2>2, ConcatEmptySeq
  <2> QED BY <2>1, <2>2
<1>19. InsnIsComplete(s)
  BY <1>3, <1>16, <1>17, <1>18 DEF InsnIsComplete
<1>20. /\ DecodeInsn(s).insn = [code |-> i.code, offset |-> i.offset, len |-> i.len]
       /\ DecodeInsn(s).rest = t
  BY <1>0, <1>2, <1>3, <1>16, <1>17, <1>18 DEF DecodeInsn
<1> QED BY <1>0, <1>11, <1>14, <1>15, <1>19, <1>20

\* The instructions of a block from the one after the k-th on.
InsnsFrom(insns, k) ==
  FlattenSeq(SubSeq([i \in 1..Len(insns) |-> EncInsn(insns[i])], k + 1, Len(insns)))

\* The bytes of the instructions after the k-th, one by one.
LEMMA InsnsFromFacts ==
  ASSUME NEW insns \in Seq(Insn), NEW k \in 0..Len(insns)
  PROVE  /\ InsnsFrom(insns, k) \in Seq(Octet)
         /\ k = Len(insns) => InsnsFrom(insns, k) = << >>
         /\ k < Len(insns) => InsnsFrom(insns, k) = EncInsn(insns[k + 1]) \o InsnsFrom(insns, k + 1)
<1>0. PICK n : n \in Nat /\ n = Len(insns) /\ k \in Int /\ k >= 0 /\ k <= n
  BY LenProperties
<1> DEFINE enc == [i \in 1..n |-> EncInsn(insns[i])]
<1>1. ASSUME NEW i \in 1..n PROVE enc[i] = EncInsn(insns[i]) /\ enc[i] \in Seq(Octet)
  <2>1. insns[i] \in Insn
    BY <1>0, ElementOfSeq
  <2>2. << >> \in Seq(Octet)
    BY EmptySeq
  <2>3. EncInsn(insns[i]) \in Seq(Octet)
    BY <2>1, <2>2, InsnRead
  <2> QED BY <2>3
<1>2. enc \in Seq(Seq(Octet)) /\ Len(enc) = n
  <2>1. \A i \in 1..n : EncInsn(insns[i]) \in Seq(Octet)
    BY <1>1
  <2> QED BY <1>0, <2>1
<1>3. \A j \in 0..n : InsnsFrom(insns, j) = FlattenSeq(SubSeq(enc, j + 1, n))
  BY <1>0 DEF InsnsFrom
<1> HIDE DEF enc
<1>4. ASSUME NEW j \in 0..n PROVE SubSeq(enc, j + 1, n) \in Seq(Seq(Octet))
  <2>1. PICK m \in Int : m = j + 1 /\ m >= 1
    BY <1>0
  <2>2. \A i \in m..n : enc[i] \in Seq(Octet)
    BY <1>0, <1>1, <2>1
  <2> QED BY <1>0, <2>1, <2>2, SubSeqProperties
<1>5. InsnsFrom(insns, k) \in Seq(Octet)
  BY <1>0, <1>3, <1>4, FlattenType
<1>6. ASSUME k = n PROVE InsnsFrom(insns, k) = << >>
  <2>1. PICK m \in Int : m = k + 1 /\ n < m
    BY <1>0, <1>6
  <2>2. SubSeq(enc, m, n) = << >>
    BY <1>0, <2>1, SubSeqEmpty
  <2> QED BY <1>0, <1>3, <2>1, <2>2, FlattenNone
<1>7. ASSUME k < n PROVE InsnsFrom(insns, k) = EncInsn(insns[k + 1]) \o InsnsFrom(insns, k + 1)
  <2>1. PICK m \in Int : m = k + 1 /\ m \in 1..n /\ m \in 0..n /\ n \in m..n
    BY <1>0, <1>7
  <2>2. PICK seqs : seqs = SubSeq(enc, m, n)
    OBVIOUS
  <2>3. /\ Head(seqs) = enc[m]
        /\ Tail(seqs) = SubSeq(enc, m + 1, n)
    BY <1>2, <2>1, <2>2, HeadTailOfSubSeq
  <2>4. seqs \in Seq(Seq(Octet))
    BY <1>0, <1>4, <2>1, <2>2
  <2>5. seqs # << >> /\ seqs[1] = enc[m]
    <3>1. \A i \in m..n : enc[i] \in Seq(Octet)
      BY <1>1, <2>1
    <3>2. /\ Len(seqs) = IF m <= n THEN n - m + 1 ELSE 0
          /\ \A i \in 1..(n - m + 1) : seqs[i] = enc[m + i - 1]
      <4>1. m \in Int /\ n \in Int
        BY <1>0, <2>1
      <4> QED BY <2>2, <3>1, <4>1, SubSeqProperties, SMTT(30)
    <3>3. Len(seqs) >= 1 /\ 1 \in 1..(n - m + 1) /\ m + 1 - 1 = m
      BY <1>0, <2>1, <3>2
    <3>4. seqs[1] = enc[m]
      BY <3>2, <3>3
    <3> QED BY <3>3, <3>4, EmptySeq
  <2>6. FlattenSeq(seqs) = seqs[1] \o FlattenSeq(Tail(seqs))
    BY <2>4, <2>5, FlattenFirst
  <2>7. enc[m] = EncInsn(insns[m])
    BY <1>1, <2>1
  <2> QED BY <1>0, <1>3, <2>1, <2>2, <2>3, <2>5, <2>6, <2>7
<1> QED BY <1>0, <1>5, <1>6, <1>7

\* The loop of svndiff_parse_doc over a block finds the instructions that are in it.
LEMMA InsnsRead ==
  ASSUME NEW w \in Window
  PROVE  InsnBytes(w) \in Seq(Octet) /\ DecodeInsns(InsnBytes(w)) = w.insns
<1>0. PICK insns : insns = w.insns
  OBVIOUS
<1>1. insns \in Seq(Insn)
  BY <1>0 DEF Window
<1>2. PICK n : n \in Nat /\ n = Len(insns) /\ insns \in [1..n -> Insn]
  BY <1>1, LenProperties
<1>3. PICK s : s = InsnBytes(w)
  OBVIOUS
<1> DEFINE from(k) == InsnsFrom(insns, k)
<1>4. ASSUME NEW k \in 0..n PROVE from(k) \in Seq(Octet)
  BY <1>1, <1>2, InsnsFromFacts
<1>5. from(n) = << >>
  BY <1>1, <1>2, InsnsFromFacts
<1>6. ASSUME NEW k \in 0..n, k < n
      PROVE  /\ from(k) # << >> /\ InsnIsComplete(from(k)) /\ Len(from(k)) > Len(from(k + 1))
             /\ DecodeInsn(from(k)).insn = insns[k + 1]
             /\ DecodeInsn(from(k)).rest = from(k + 1)
  <2>1. PICK m \in Nat : m = k + 1 /\ m \in 1..n /\ m \in 0..n
    BY <1>2, <1>6
  <2>2. from(k) = EncInsn(insns[m]) \o from(m)
    BY <1>1, <1>2, <1>6, <2>1, InsnsFromFacts
  <2>3. insns[m] \in Insn /\ from(m) \in Seq(Octet) /\ from(k) \in Seq(Octet)
    BY <1>2, <1>4, <2>1
  <2> HIDE DEF from
  <2>4. /\ InsnIsComplete(from(k)) /\ Len(from(k)) > Len(from(m))
        /\ DecodeInsn(from(k)).insn = insns[m]
        /\ DecodeInsn(from(k)).rest = from(m)
    BY <2>2, <2>3, InsnRead
  <2>5. from(k) # << >>
    BY <2>3, <2>4, EmptySeq, LenProperties
  <2> QED BY <2>1, <2>4, <2>5
<1>7. s = from(0)
  <2>1. [i \in 1..Len(insns) |-> EncInsn(insns[i])] \in Seq(Seq(Octet))
        /\ Len([i \in 1..Len(insns) |-> EncInsn(insns[i])]) = Len(insns)
    <3>1. \A i \in 1..n : EncInsn(insns[i]) \in Seq(Octet)
      BY <1>2, InsnRead, EmptySeq
    <3> QED BY <1>2, <3>1
  <2>2. PICK enc : enc = [i \in 1..Len(insns) |-> EncInsn(insns[i])]
    OBVIOUS
  <2>3. SubSeq(enc, 1, Len(insns)) = enc
    <3>1. enc \in Seq(Seq(Octet)) /\ Len(enc) = Len(insns)
      BY <2>1, <2>2
    <3>2. SubSeq(enc, 1, Len(enc)) = enc
      BY <3>1, SubSeqFull
    <3> QED BY <3>1, <3>2
  <2>4. s = FlattenSeq(enc)
    BY <1>0, <1>3, <2>2 DEF InsnBytes
  <2>5. from(0) = FlattenSeq(SubSeq(enc, 0 + 1, Len(insns)))
    <3>1. InsnsFrom(insns, 0)
            = FlattenSeq(SubSeq([i \in 1..Len(insns) |-> EncInsn(insns[i])], 0 + 1, Len(insns)))
      BY DEF InsnsFrom
    <3> QED BY <2>2, <3>1
  <2>6. 0 + 1 = 1
    OBVIOUS
  <2> QED BY <2>3, <2>4, <2>5, <2>6
<1> HIDE DEF from
<1>8. s \in Seq(Octet) /\ Len(s) \in Nat
  BY <1>2, <1>4, <1>7, LenProperties
\* Every instruction takes a byte at least.
<1>9. n <= Len(s)
  <2> DEFINE T == {k \in 0..n : k + Len(from(k)) <= Len(s)}
  <2>1. 0 \in T
    BY <1>2, <1>7, <1>8
  <2>2. ASSUME NEW k \in T, k < n PROVE k + 1 \in T
    <3>1. k \in 0..n /\ k + 1 \in 0..n /\ k + Len(from(k)) <= Len(s)
      BY <1>2, <2>2
    <3>2. Len(from(k)) \in Nat /\ Len(from(k + 1)) \in Nat
      BY <1>4, <3>1, LenProperties
    <3>3. Len(from(k)) > Len(from(k + 1))
      BY <1>6, <2>2, <3>1
    <3> QED BY <1>2, <1>8, <3>1, <3>2, <3>3
  <2>3. n \in T
    <3>1. T \in SUBSET (0..n)
      OBVIOUS
    <3>2. \A k \in T : k < n => k + 1 \in T
      BY <2>2
    <3> HIDE DEF T
    <3> QED BY <1>2, <2>1, <3>1, <3>2, UpTo
  <2>4. Len(from(n)) = 0
    BY <1>5, EmptySeq
  <2> QED BY <1>2, <2>3, <2>4
<1> DEFINE end == Len(s)
           f == [k \in 0..end |->
                   IF k <= n THEN [insns |-> SubSeq(insns, 1, k), rest |-> from(k)]
                             ELSE [insns |-> insns, rest |-> << >>]]
           next(now) == IF Len(now.rest) < 1 \/ ~InsnIsComplete(now.rest) THEN now
                        ELSE [insns |-> Append(now.insns, DecodeInsn(now.rest).insn),
                              rest |-> DecodeInsn(now.rest).rest]
           Right(g) == g = [k \in 0..end |->
                              IF k = 0 THEN [insns |-> << >>, rest |-> s] ELSE next(g[k - 1])]
<1>10. f[0] = [insns |-> << >>, rest |-> s]
  <2>1. SubSeq(insns, 1, 0) = << >>
    BY SubSeqEmpty
  <2>2. 0 \in 0..end /\ 0 <= n
    BY <1>2, <1>8
  <2> HIDE DEF end
  <2>3. f[0] = [insns |-> SubSeq(insns, 1, 0), rest |-> from(0)]
    BY <2>2
  <2> HIDE DEF f
  <2> QED BY <1>7, <2>1, <2>3
<1>11. ASSUME NEW k \in 1..end PROVE f[k] = next(f[k - 1])
  <2>1. PICK j : j = k - 1 /\ j \in 0..end /\ k = j + 1 /\ j \in Nat /\ k \in 0..end
    BY <1>8
  <2>2. CASE k <= n
    <3>1. j \in 0..n /\ j < n /\ j <= n /\ k \in 1..n
      BY <1>2, <2>1, <2>2
    <3>2. f[j] = [insns |-> SubSeq(insns, 1, j), rest |-> from(j)]
      BY <2>1, <3>1
    <3>3. f[k] = [insns |-> SubSeq(insns, 1, k), rest |-> from(k)]
      BY <2>1, <2>2
    <3>4. ~(Len(from(j)) < 1)
      <4>1. from(j) \in Seq(Octet) /\ from(j) # << >>
        BY <1>4, <1>6, <3>1
      <4> QED BY <4>1, EmptySeq
    <3>5. Append(SubSeq(insns, 1, j), insns[k]) = SubSeq(insns, 1, k)
      <4>1. SubSeq(insns, 1, k) = SubSeq(insns, 1, k - 1) \o <<insns[k]>>
        <5>1. 1 \in 1..Len(insns) /\ k \in 1..Len(insns)
          BY <1>2, <3>1
        <5> QED BY <1>1, <5>1, SubSeqRecursiveSecond
      <4>2. SubSeq(insns, 1, j) \in Seq(Insn) /\ insns[k] \in Insn
        BY <1>2, <2>1, <3>1, SubSeqProperties
      <4> QED BY <2>1, <4>1, <4>2, AppendIsConcat
    <3>6. InsnIsComplete(from(j)) /\ DecodeInsn(from(j)).insn = insns[k]
          /\ DecodeInsn(from(j)).rest = from(k)
      BY <1>6, <2>1, <3>1
    <3> HIDE DEF f
    <3>7. PICK now, a, b : now = f[j] /\ a = SubSeq(insns, 1, j) /\ b = from(j)
                           /\ now = [insns |-> a, rest |-> b]
      BY <3>2
    <3>8. now.insns = SubSeq(insns, 1, j) /\ now.rest = from(j)
      <4>1. now = [insns |-> a, rest |-> b]
        BY <3>7
      <4>2. now.insns = a /\ now.rest = b
        BY <4>1
      <4> QED BY <3>7, <4>2
    <3>9. next(now) = [insns |-> Append(now.insns, insns[k]), rest |-> from(k)]
      BY <3>4, <3>6, <3>8
    <3> HIDE DEF next
    <3> QED BY <2>1, <3>3, <3>5, <3>7, <3>8, <3>9
  <2>3. CASE k > n
    <3>1. f[j].rest = << >> /\ f[k] = f[j]
      <4>1. CASE j = n
        <5>1. f[j] = [insns |-> SubSeq(insns, 1, j), rest |-> from(j)]
              /\ f[k] = [insns |-> insns, rest |-> << >>]
          BY <1>2, <2>1, <2>3, <4>1
        <5>2. SubSeq(insns, 1, n) = insns
          BY <1>1, <1>2, SubSeqFull
        <5>3. f[j] = [insns |-> insns, rest |-> << >>]
          <6> HIDE DEF f
          <6> QED BY <1>5, <4>1, <5>1, <5>2
        <5> HIDE DEF f
        <5> QED BY <5>1, <5>3
      <4>2. CASE j > n
        BY <1>2, <2>1, <2>3, <4>2
      <4> QED BY <1>2, <2>1, <2>3, <4>1, <4>2
    <3> HIDE DEF f
    <3>2. Len(f[j].rest) < 1
      BY <3>1, EmptySeq
    <3> QED BY <2>1, <3>1, <3>2
  <2> QED BY <1>2, <2>1, <2>2, <2>3
<1>12. end \in Nat
  BY <1>8
<1>13. f[end].insns = insns
  <2>1. CASE end = n
    <3>1. f[end] = [insns |-> SubSeq(insns, 1, n), rest |-> from(n)]
      BY <1>2, <1>8, <2>1
    <3>2. SubSeq(insns, 1, n) = insns
      BY <1>1, <1>2, SubSeqFull
    <3> HIDE DEF f
    <3> QED BY <3>1, <3>2
  <2>2. CASE end > n
    BY <1>2, <1>8, <2>2
  <2> QED BY <1>2, <1>8, <1>9, <2>1, <2>2
<1>14. f = [k \in 0..end |-> f[k]]
  OBVIOUS
<1> HIDE DEF f, end, next
<1>15. Right(f)
  <2> DEFINE g == [k \in 0..end |-> IF k = 0 THEN [insns |-> << >>, rest |-> s] ELSE next(f[k - 1])]
  <2>1. \A k \in 0..end : g[k] = f[k]
    BY <1>10, <1>11, <1>12
  <2>2. g = [k \in 0..end |-> g[k]]
    OBVIOUS
  <2> HIDE DEF g
  <2>3. f = g
    BY <1>14, <2>1, <2>2
  <2> QED BY <2>3 DEF g
<1> DEFINE turn == CHOOSE g : Right(g)
<1>16. Right(turn)
  <2> HIDE DEF Right
  <2> QED BY <1>15
<1>17. DecodeInsns(s) = turn[end].insns
  BY DEF DecodeInsns, DecodeWhile, end, next
<1> HIDE DEF turn
<1>18. turn[0] = [insns |-> << >>, rest |-> s] /\ \A k \in 1..end : turn[k] = next(turn[k - 1])
  BY <1>12, <1>16
<1> HIDE DEF Right
<1>19. turn[end] = f[end]
  <2> DEFINE T == {k \in 0..end : turn[k] = f[k]}
  <2>1. 0 \in T
    BY <1>10, <1>12, <1>18
  <2>2. ASSUME NEW k \in T, k < end PROVE k + 1 \in T
    <3>1. k + 1 \in 1..end /\ k + 1 \in 0..end /\ k + 1 - 1 = k
      BY <1>12, <2>2
    <3> QED BY <1>11, <1>18, <3>1
  <2>3. end \in T
    <3>1. T \in SUBSET (0..end)
      OBVIOUS
    <3>2. \A k \in T : k < end => k + 1 \in T
      BY <2>2
    <3> HIDE DEF T
    <3> QED BY <1>12, <2>1, <3>1, <3>2, UpTo
  <2> QED BY <2>3
<1> QED BY <1>0, <1>3, <1>8, <1>13, <1>17, <1>19

\* What decode_bytes takes for a block, packed or not.
LEMMA BlockRead ==
  ASSUME NEW s \in Seq(Octet), Len(s) \in Number, NEW t \in Seq(Byte)
  PROVE  LET u == EncBytes(s) \o t
             n == Len(EncBytes(s))
         IN /\ EncBytes(s) \in Seq(Byte) /\ EncBytes(s) # << >>
            /\ u \in Seq(Byte)
            /\ Complete(u)
            /\ DecodeBytes(u, n) = s
            /\ Drop(u, n) = t
<1>1. PICK num : num = EncNumber(Len(s))
  OBVIOUS
<1>2. num \in Seq(Byte) /\ Len(num) \in Nat /\ Len(num) >= 1
  BY <1>1, NumberBytes, OctetBytes, LenProperties DEF Octet
<1>3. PICK body : body = IF Len(s) > 2 THEN <<s>> ELSE s
  OBVIOUS
<1>4. body \in Seq(Byte) /\ Len(body) \in Nat /\ Len(s) \in Nat /\ (Len(s) > 2 => Len(body) = 1 /\ body[1] = s)
  <2>1. s \in Byte /\ s \in Seq(Byte)
    BY OctetBytes DEF Byte, Octet
  <2>2. <<s>> \in Seq(Byte) /\ Len(<<s>>) = 1 /\ <<s>>[1] = s
    BY <2>1
  <2>3. Len(s) \in Nat
    BY LenProperties
  <2> QED BY <1>3, <2>1, <2>2, <2>3
<1>5. EncBytes(s) = num \o body
  BY <1>1, <1>3 DEF EncBytes, Pack
<1>6. PICK n : n = Len(num) + Len(body) /\ n = Len(EncBytes(s)) /\ n \in Nat
  BY <1>2, <1>4, <1>5, Joined
<1>7. EncBytes(s) \in Seq(Byte) /\ EncBytes(s) # << >>
  <2>1. num \o body \in Seq(Byte)
    BY <1>2, <1>4, Joined
  <2> QED BY <1>2, <1>4, <1>5, <1>6, <2>1, EmptySeq
<1>8. PICK u : u = EncBytes(s) \o t
  OBVIOUS
<1>9. PICK v : v = body \o t
  OBVIOUS
<1>10. v \in Seq(Byte)
  BY <1>4, <1>9, Joined
<1>11. u = num \o v
  <2>1. num \in Seq(Byte) /\ body \in Seq(Byte) /\ t \in Seq(Byte)
    BY <1>2, <1>4
  <2>2. (num \o body) \o t = num \o (body \o t)
    <3>1. Con(Con(num, body), t) = Con(num, Con(body, t))
      BY <2>1, Associated
    <3> QED BY <3>1 DEF Con
  <2> QED BY <1>5, <1>8, <1>9, <2>2
<1>12. /\ u \in Seq(Byte) /\ Complete(u)
       /\ NumberLen(u) = Len(num) /\ NumberOf(u) = Len(s)
       /\ Drop(u, NumberLen(u)) = v
  BY <1>1, <1>10, <1>11, NumberRead
<1>13. Drop(u, n) = t
  BY <1>6, <1>7, <1>8, DropPrefix
<1>14. /\ Len(u) = Len(num) + Len(v) /\ Len(v) = Len(body) + Len(t) /\ Len(t) \in Nat
       /\ \A i \in 1..Len(body) : u[Len(num) + i] = body[i]
  <2>1. \A i \in 1..Len(body) + Len(t) : v[i] = IF i <= Len(body) THEN body[i] ELSE t[i - Len(body)]
    BY <1>4, <1>9, ConcatProperties
  <2>2. Len(v) = Len(body) + Len(t) /\ Len(t) \in Nat
    BY <1>4, <1>9, Joined, LenProperties
  <2>3. Len(u) = Len(num) + Len(v)
    BY <1>2, <1>10, <1>11, Joined
  <2>4. \A i \in 1..Len(num) + Len(v) : u[i] = IF i <= Len(num) THEN num[i] ELSE v[i - Len(num)]
    BY <1>2, <1>10, <1>11, ConcatProperties
  <2>5. ASSUME NEW i \in 1..Len(body) PROVE u[Len(num) + i] = body[i]
    <3>1. PICK j : j = Len(num) + i /\ j \in 1..Len(num) + Len(v) /\ ~(j <= Len(num)) /\ j - Len(num) = i
      BY <1>2, <1>4, <2>2
    <3>2. i \in 1..Len(body) + Len(t) /\ i <= Len(body)
      BY <1>4, <2>2
    <3>3. u[j] = v[i]
      BY <2>4, <3>1
    <3>4. v[i] = body[i]
      BY <2>1, <3>2
    <3> QED BY <3>1, <3>3, <3>4
  <2> QED BY <2>2, <2>3, <2>5
<1>15. n - NumberLen(u) = Len(body)
  BY <1>2, <1>4, <1>6, <1>12
<1>16. CASE Len(s) > 2
  <2>1. n - NumberLen(u) # NumberOf(u)
    BY <1>4, <1>12, <1>15, <1>16
  <2>2. DecodeBytes(u, n) = u[NumberLen(u) + 1]
    BY <2>1 DEF DecodeBytes
  <2>3. u[Len(num) + 1] = s
    <3>1. Len(body) = 1 /\ body[1] = s
      BY <1>4, <1>16
    <3>2. 1 \in 1..Len(body)
      BY <3>1
    <3> QED BY <1>14, <3>1, <3>2
  <2> QED BY <1>6, <1>7, <1>8, <1>12, <1>13, <2>2, <2>3
<1>17. CASE ~(Len(s) > 2)
  <2>1. body = s
    BY <1>3, <1>17
  <2>2. DecodeBytes(u, n) = SubSeq(u, Len(num) + 1, n)
    BY <1>12, <1>15, <2>1 DEF DecodeBytes
  <2>3. SubSeq(u, Len(num) + 1, n) = s
    <3>1. PICK m \in Int : m = Len(num) + 1 /\ m >= 1
      BY <1>2
    <3>2. \A i \in m..n : u[i] \in Byte
      BY <1>2, <1>4, <1>6, <1>12, <1>14, <3>1, ElementOfSeq
    <3>3. PICK r : r = SubSeq(u, m, n)
      OBVIOUS
    <3>4. /\ r \in Seq(Byte)
          /\ Len(r) = IF m <= n THEN n - m + 1 ELSE 0
          /\ \A i \in 1..(n - m + 1) : r[i] = u[m + i - 1]
      BY <1>6, <3>1, <3>2, <3>3, SubSeqProperties
    <3>5. Len(r) = Len(s) /\ n - m + 1 = Len(s)
      BY <1>2, <1>4, <1>6, <2>1, <3>1, <3>4
    <3>6. ASSUME NEW i \in 1..Len(r) PROVE r[i] = s[i]
      <4>1. i \in 1..(n - m + 1) /\ i \in 1..Len(body) /\ m + i - 1 = Len(num) + i
        BY <1>2, <2>1, <3>1, <3>5
      <4>2. r[i] = u[Len(num) + i]
        BY <3>4, <4>1
      <4> QED BY <1>14, <2>1, <4>1, <4>2
    <3>7. s \in Seq(Byte)
      BY <1>4, <2>1
    <3>8. r = s
      BY <3>4, <3>5, <3>6, <3>7, SeqEqual
    <3> QED BY <3>1, <3>3, <3>8
  <2> QED BY <1>6, <1>7, <1>8, <1>12, <1>13, <2>2, <2>3
<1> QED BY <1>16, <1>17

-----------------------------------------------------------------------------
(***************************************************************************)
(* The fields of a document, and what of them is in a chunk.               *)
(***************************************************************************)
NumberFields == {"so", "sl", "tl", "insl", "newl"}

\* Which of the fields of its window a state reads.
Place(s) ==
  CASE s = "so" -> 0 [] s = "sl" -> 1 [] s = "tl" -> 2 [] s = "insl" -> 3
    [] s = "newl" -> 4 [] s = "insns" -> 5 [] s = "bytes" -> 6 [] s = "nwnd" -> 7

Measure(w, f) ==
  CASE f = "so" -> w.so [] f = "sl" -> w.sl [] f = "tl" -> w.tl
    [] f = "insl" -> Len(EncBytes(InsnBytes(w)))
    [] f = "newl" -> Len(EncBytes(w.new))

\* What the seven fields of a window are, by the state that reads them.
LEMMA WindowFields ==
  ASSUME NEW w \in Window, Sendable(w)
  PROVE  /\ \A f \in NumberFields : /\ Measure(w, f) \in Number
                                    /\ EncWindow(w)[Place(f) + 1] = EncNumber(Measure(w, f))
         /\ EncWindow(w)[6] = EncBytes(InsnBytes(w)) /\ EncWindow(w)[7] = EncBytes(w.new)
         /\ \A j \in 0..6 : EncWindow(w)[j + 1] \in Seq(Byte) /\ EncWindow(w)[j + 1] # << >>
<1>1. /\ w.so \in Number /\ w.sl \in Number /\ w.tl \in Number
      /\ Len(EncBytes(InsnBytes(w))) \in Number /\ Len(EncBytes(w.new)) \in Number
      /\ Len(InsnBytes(w)) \in Number /\ Len(w.new) \in Number
  BY DEF Window, Sendable
<1>2. ASSUME NEW n \in Number PROVE EncNumber(n) \in Seq(Byte) /\ EncNumber(n) # << >>
  <2>1. EncNumber(n) \in Seq(Nat) /\ Len(EncNumber(n)) \in 1..MaxDigits
    BY NumberBytes
  <2>2. EncNumber(n) # << >>
    BY <2>1, EmptySeq
  <2> QED BY <2>1, <2>2, OctetBytes DEF Octet
<1>3. PICK insns, new : insns = EncBytes(InsnBytes(w)) /\ new = EncBytes(w.new)
  OBVIOUS
<1>4. insns \in Seq(Byte) /\ insns # << >> /\ new \in Seq(Byte) /\ new # << >>
  <2>1. InsnBytes(w) \in Seq(Octet) /\ w.new \in Seq(Octet)
    BY InsnsRead DEF Window, Octet
  <2>2. << >> \in Seq(Byte)
    BY EmptySeq
  <2> QED BY <1>1, <1>3, <2>1, <2>2, BlockRead
<1>5. EncWindow(w) = <<EncNumber(w.so), EncNumber(w.sl), EncNumber(w.tl),
                       EncNumber(Len(insns)), EncNumber(Len(new)), insns, new>>
  BY <1>3 DEF EncWindow
<1>6. /\ EncWindow(w)[1] = EncNumber(w.so) /\ EncWindow(w)[2] = EncNumber(w.sl)
      /\ EncWindow(w)[3] = EncNumber(w.tl) /\ EncWindow(w)[4] = EncNumber(Len(insns))
      /\ EncWindow(w)[5] = EncNumber(Len(new)) /\ EncWindow(w)[6] = insns
      /\ EncWindow(w)[7] = new
  BY <1>5
<1>7. ASSUME NEW f \in NumberFields
      PROVE  Measure(w, f) \in Number /\ EncWindow(w)[Place(f) + 1] = EncNumber(Measure(w, f))
  <2>1. CASE f = "so"
    BY <1>1, <1>6, <2>1 DEF Measure, Place
  <2>2. CASE f = "sl"
    BY <1>1, <1>6, <2>2 DEF Measure, Place
  <2>3. CASE f = "tl"
    BY <1>1, <1>6, <2>3 DEF Measure, Place
  <2>4. CASE f = "insl"
    BY <1>1, <1>3, <1>6, <2>4 DEF Measure, Place
  <2>5. CASE f = "newl"
    BY <1>1, <1>3, <1>6, <2>5 DEF Measure, Place
  <2> QED BY <2>1, <2>2, <2>3, <2>4, <2>5 DEF NumberFields
<1>8. ASSUME NEW j \in 0..6
      PROVE  EncWindow(w)[j + 1] \in Seq(Byte) /\ EncWindow(w)[j + 1] # << >>
  <2>1. j = 0 \/ j = 1 \/ j = 2 \/ j = 3 \/ j = 4 \/ j = 5 \/ j = 6
    OBVIOUS
  <2>2. CASE j = 0
    <3>1. EncWindow(w)[j + 1] = EncNumber(w.so)
      BY <1>6, <2>2
    <3> QED BY <1>1, <1>2, <3>1
  <2>3. CASE j = 1
    BY <1>1, <1>2, <1>6, <2>3
  <2>4. CASE j = 2
    BY <1>1, <1>2, <1>6, <2>4
  <2>5. CASE j = 3
    BY <1>1, <1>2, <1>3, <1>6, <2>5
  <2>6. CASE j = 4
    BY <1>1, <1>2, <1>3, <1>6, <2>6
  <2>7. CASE j = 5
    BY <1>4, <1>6, <2>7
  <2>8. CASE j = 6
    BY <1>4, <1>6, <2>8
  <2> QED BY <2>1, <2>2, <2>3, <2>4, <2>5, <2>6, <2>7, <2>8
<1> QED BY <1>3, <1>6, <1>7, <1>8

FieldAt(k, j) == 7 * (k - 1) + 2 + j

\* The fields of a document: the version, and seven of each window.
LEMMA DocFields ==
  ASSUME NEW d \in Doc
  PROVE  LET F == EncDoc(d)
             n == Len(d.windows)
         IN /\ F \in Seq(Seq(Byte)) /\ Len(F) = 7 * n + 1 /\ n \in Nat
            /\ F[1] = Version /\ Version \in Seq(Byte)
            /\ \A k \in 1..n : /\ d.windows[k] \in Window /\ Sendable(d.windows[k])
                               /\ \A j \in 0..6 : F[FieldAt(k, j)] = EncWindow(d.windows[k])[j + 1]
            /\ \A i \in 1..Len(F) : F[i] # << >>
<1>1. d.windows \in Seq(Window) /\ \A k \in 1..Len(d.windows) : Sendable(d.windows[k])
  BY DocAssumption
<1>2. PICK n : n = Len(d.windows) /\ n \in Nat
  BY <1>1, LenProperties
<1>3. \A k \in 1..n : d.windows[k] \in Window /\ Sendable(d.windows[k])
  BY <1>1, <1>2, ElementOfSeq
<1>4. Version \in Seq(Byte) /\ Version # << >>
  <2>1. <<83, 86, 78, 1>> \in Seq(Octet) /\ Len(<<83, 86, 78, 1>>) = 4
    BY DEF Octet
  <2>2. <<83, 86, 78, 1>> # << >>
    BY <2>1, EmptySeq
  <2> QED BY <2>1, <2>2, OctetBytes DEF Version
<1> DEFINE fld(f) == IF f = 1 THEN Version
                     ELSE EncWindow(d.windows[((f - 2) \div 7) + 1])[((f - 2) % 7) + 1]
           F == [f \in 1..(7 * n + 1) |-> fld(f)]
<1>5. EncDoc(d) = F
  BY <1>2 DEF EncDoc
<1>6. ASSUME NEW k \in 1..n, NEW j \in 0..6
      PROVE  /\ FieldAt(k, j) \in 1..(7 * n + 1)
             /\ fld(FieldAt(k, j)) = EncWindow(d.windows[k])[j + 1]
  <2>1. PICK i : i = FieldAt(k, j) /\ i \in 1..(7 * n + 1) /\ i # 1 /\ i - 2 = 7 * (k - 1) + j
                 /\ k - 1 \in Nat
    BY <1>2 DEF FieldAt
  <2>2. (i - 2) \div 7 = k - 1 /\ (i - 2) % 7 = j
    BY <2>1
  <2>3. (k - 1) + 1 = k
    BY <1>2
  <2> QED BY <2>1, <2>2, <2>3
<1>7. ASSUME NEW i \in 1..(7 * n + 1) PROVE fld(i) \in Seq(Byte) /\ fld(i) # << >>
  <2>1. CASE i = 1
    BY <1>4, <2>1
  <2>2. CASE i > 1
    <3>1. PICK k, j : k = ((i - 2) \div 7) + 1 /\ j = (i - 2) % 7 /\ k \in 1..n /\ j \in 0..6
      BY <1>2, <2>2
    <3>2. fld(i) = EncWindow(d.windows[k])[j + 1]
      BY <2>2, <3>1
    <3> HIDE DEF fld
    <3> QED BY <1>3, <3>1, <3>2, WindowFields
  <2> QED BY <1>2, <2>1, <2>2
<1>8. fld(1) = Version
  OBVIOUS
<1> HIDE DEF fld
<1>9. F \in Seq(Seq(Byte)) /\ Len(F) = 7 * n + 1 /\ \A i \in 1..(7 * n + 1) : F[i] = fld(i)
  BY <1>2, <1>7
<1>10. 1 \in 1..(7 * n + 1)
  BY <1>2
<1> HIDE DEF F
<1> QED BY <1>2, <1>3, <1>4, <1>5, <1>6, <1>7, <1>8, <1>9, <1>10

\* split, as an argument: a chunk has ended within a field.
Torn(b) == b # "none"

\* t is the beginning of a, and not all of it.
PartAtStart(t, a) == Len(t) < Len(a) /\ \A j \in 1..Len(t) : t[j] = a[j]

\* What a torn field may look like: the version, leading digits, or anything.
Tears(F, torn, q, t) ==
  /\ Torn(torn) /\ q < Len(F)
  /\ \/ q = 0 /\ Len(t) < 4
     \/ q >= 1 /\ \A j \in 1..Len(t) : t[j] \in Radix..(2 * Radix - 1)
     \/ q >= 1 /\ torn = "block" /\ PartAtStart(t, F[q + 1])

\* c is a chunk of the fields of F from the p-th to the q-th, and t the beginning
\* of the next; r has the others.
Cut(F, c, r, p, torn, q, t) ==
  /\ q \in (p - 1)..Len(F) /\ t \in Seq(Byte)
  /\ c = FlattenSeq(SubSeq(F, p, q)) \o t
  /\ t = << >> => r = SubSeq(F, q + 1, Len(F))
  /\ t # << >> => Tears(F, torn, q, t)

Stream(F, c, r, p, torn) == \E q, t : Cut(F, c, r, p, torn, q, t)

\* The fields from the p-th to the q-th.
LEMMA SomeFields ==
  ASSUME NEW F \in Seq(Seq(Byte)), NEW p \in 1..(Len(F) + 1), NEW q \in (p - 1)..Len(F)
  PROVE  /\ SubSeq(F, p, q) \in Seq(Seq(Byte)) /\ Len(SubSeq(F, p, q)) = q - p + 1
         /\ q = p - 1 => SubSeq(F, p, q) = << >>
         /\ q # p - 1 => /\ SubSeq(F, p, q) # << >>
                         /\ SubSeq(F, p, q)[1] = F[p]
                         /\ Tail(SubSeq(F, p, q)) = SubSeq(F, p + 1, q)
<1>1. PICK n : n = Len(F) /\ n \in Nat /\ p \in Int /\ q \in Int /\ p >= 1 /\ q <= n /\ p - 1 <= q
  BY LenProperties
<1>2. \A i \in p..q : F[i] \in Seq(Byte)
  BY <1>1, ElementOfSeq
<1>3. PICK s : s = SubSeq(F, p, q)
  OBVIOUS
<1>4. /\ s \in Seq(Seq(Byte)) /\ Len(s) = IF p <= q THEN q - p + 1 ELSE 0
      /\ \A i \in 1..(q - p + 1) : s[i] = F[p + i - 1]
  BY <1>1, <1>2, <1>3, SubSeqProperties
<1>5. Len(s) = q - p + 1
  BY <1>1, <1>4
<1>6. q = p - 1 => s = << >>
  BY <1>1, <1>4, <1>5, EmptySeq
<1>7. ASSUME q # p - 1 PROVE s # << >> /\ s[1] = F[p] /\ Tail(s) = SubSeq(F, p + 1, q)
  <2>1. p \in 1..Len(F) /\ q \in p..Len(F) /\ 1 \in 1..(q - p + 1) /\ p + 1 - 1 = p
    BY <1>1, <1>7
  <2>2. s # << >>
    BY <1>5, <2>1, EmptySeq
  <2>3. s[1] = F[p]
    BY <1>4, <2>1
  <2> QED BY <1>3, <2>1, <2>2, <2>3, HeadTailOfSubSeq
<1> QED BY <1>3, <1>4, <1>5, <1>6, <1>7

\* A chunk that is not empty begins with the next field, or is a part of it that
\* decode_version or decode_number refuses, or that is cut off within a block.
LEMMA FieldAhead ==
  ASSUME NEW F \in Seq(Seq(Byte)), NEW p \in 1..(Len(F) + 1), NEW c, NEW r, NEW torn,
         Stream(F, c, r, p, torn), c # << >>
  PROVE  /\ p <= Len(F)
         /\ \/ \E c2 \in Seq(Byte) : c = F[p] \o c2 /\ Stream(F, c2, r, p + 1, torn)
            \/ Torn(torn) /\ p = 1 /\ Len(c) < 4
            \/ Torn(torn) /\ p > 1 /\ ~Complete(c)
            \/ torn = "block" /\ p > 1 /\ PartAtStart(c, F[p])
<1>1. PICK n : n = Len(F) /\ n \in Nat /\ p \in Int /\ p >= 1
  BY LenProperties
<1>2. PICK q, t : Cut(F, c, r, p, torn, q, t)
  BY DEF Stream
<1>3. t \in Seq(Byte) /\ q \in (p - 1)..n
  BY <1>1, <1>2 DEF Cut
<1>4. CASE q = p - 1
  <2>1. c = t
    <3>1. c = FlattenSeq(SubSeq(F, p, q)) \o t
      BY <1>2 DEF Cut
    <3>2. SubSeq(F, p, q) = << >>
      BY <1>1, <1>3, <1>4, SomeFields
    <3> QED BY <1>3, <3>1, <3>2, FlattenNone, ConcatEmptySeq
  <2>2. Tears(F, torn, q, c)
    BY <1>2, <2>1 DEF Cut
  <2>3. Torn(torn) /\ q < n
    BY <1>1, <2>2 DEF Tears
  <2>4. p <= n /\ q + 1 = p /\ (q = 0 => p = 1) /\ (q >= 1 => p > 1)
    BY <1>1, <1>3, <1>4, <2>3
  <2>5. CASE q = 0 /\ Len(c) < 4
    BY <1>1, <2>3, <2>4, <2>5
  <2>6. CASE q >= 1 /\ \A j \in 1..Len(c) : c[j] \in Radix..(2 * Radix - 1)
    <3>1. Radix \in Nat
      BY CodingAssumption
    <3>2. Len(c) \in Nat
      BY <1>3, <2>1, LenProperties
    <3>3. ~Complete(c)
      BY <2>6, <3>1, <3>2 DEF Complete
    <3> QED BY <1>1, <2>3, <2>4, <2>6, <3>3
  <2>7. CASE q >= 1 /\ torn = "block" /\ PartAtStart(c, F[q + 1])
    BY <1>1, <2>4, <2>7
  <2> QED BY <2>2, <2>5, <2>6, <2>7 DEF Tears
<1>5. CASE q # p - 1
  <2>1. PICK a, s : a = F[p] /\ s = FlattenSeq(SubSeq(F, p + 1, q))
    OBVIOUS
  <2>2. p \in 1..n /\ p + 1 \in 1..(n + 1) /\ q \in (p + 1 - 1)..n
    BY <1>1, <1>3, <1>5
  <2>3. SubSeq(F, p + 1, q) \in Seq(Seq(Byte))
    BY <1>1, <2>2, SomeFields
  <2>4. a \in Seq(Byte) /\ s \in Seq(Byte)
    BY <1>1, <2>1, <2>2, <2>3, ElementOfSeq, FlattenType
  <2>5. FlattenSeq(SubSeq(F, p, q)) = a \o s
    <3>1. PICK u : u = SubSeq(F, p, q)
      OBVIOUS
    <3>2. u \in Seq(Seq(Byte)) /\ u # << >> /\ u[1] = a /\ Tail(u) = SubSeq(F, p + 1, q)
      BY <1>1, <1>3, <1>5, <2>1, <3>1, SomeFields
    <3> QED BY <2>1, <3>1, <3>2, FlattenFirst
  <2>6. PICK c2 : c2 = s \o t
    OBVIOUS
  <2>7. c2 \in Seq(Byte)
    BY <1>3, <2>4, <2>6, Joined
  <2>8. c = a \o c2
    <3>1. a \in Seq(Byte) /\ s \in Seq(Byte) /\ t \in Seq(Byte)
      BY <1>3, <2>4
    <3>2. (a \o s) \o t = a \o (s \o t)
      <4>1. Con(Con(a, s), t) = Con(a, Con(s, t))
        BY <3>1, Associated
      <4> QED BY <4>1 DEF Con
    <3>3. c = FlattenSeq(SubSeq(F, p, q)) \o t
      BY <1>2 DEF Cut
    <3> QED BY <2>5, <2>6, <3>2, <3>3
  <2>9. Stream(F, c2, r, p + 1, torn)
    <3>1. q \in (p + 1 - 1)..Len(F)
      BY <1>1, <2>2
    <3>2. c2 = FlattenSeq(SubSeq(F, p + 1, q)) \o t
      BY <2>1, <2>6
    <3>3. Cut(F, c2, r, p + 1, torn, q, t)
      BY <1>2, <3>1, <3>2 DEF Cut
    <3> QED BY <3>3 DEF Stream
  <2>10. p <= Len(F)
    BY <1>1, <2>2
  <2> QED BY <2>1, <2>7, <2>8, <2>9, <2>10
<1> QED BY <1>4, <1>5

\* When nothing is left of a chunk, all the fields are still to come.
LEMMA FieldsToCome ==
  ASSUME NEW F \in Seq(Seq(Byte)), \A i \in 1..Len(F) : F[i] # << >>,
         NEW p \in 1..(Len(F) + 1), NEW r, NEW torn, Stream(F, << >>, r, p, torn)
  PROVE  r = SubSeq(F, p, Len(F))
<1>1. PICK n : n = Len(F) /\ n \in Nat /\ p \in Int /\ p >= 1
  BY LenProperties
<1>2. PICK q, t : Cut(F, << >>, r, p, torn, q, t)
  BY DEF Stream
<1>3. t \in Seq(Byte) /\ q \in (p - 1)..n
  BY <1>1, <1>2 DEF Cut
<1>4. PICK s : s = FlattenSeq(SubSeq(F, p, q))
  OBVIOUS
<1>5. SubSeq(F, p, q) \in Seq(Seq(Byte))
  BY <1>1, <1>3, SomeFields
<1>6. s \in Seq(Byte)
  BY <1>4, <1>5, FlattenType
<1>7. s = << >> /\ t = << >>
  <2>1. s \o t = << >>
    BY <1>2, <1>4 DEF Cut
  <2>2. s \in Seq(Byte) /\ t \in Seq(Byte)
    BY <1>3, <1>6
  <2> QED BY <2>1, <2>2, ConcatEqualIffEmpty
<1>8. q = p - 1
  <2> SUFFICES ASSUME q # p - 1 PROVE FALSE
    OBVIOUS
  <2>1. PICK u : u = SubSeq(F, p, q)
    OBVIOUS
  <2>2. p \in 1..n /\ p + 1 \in 1..(n + 1) /\ q \in (p + 1 - 1)..n
    BY <1>1, <1>3
  <2>3. u \in Seq(Seq(Byte)) /\ u # << >> /\ u[1] = F[p] /\ Tail(u) = SubSeq(F, p + 1, q)
    BY <1>1, <1>3, <2>1, SomeFields
  <2>4. SubSeq(F, p + 1, q) \in Seq(Seq(Byte))
    BY <1>1, <2>2, SomeFields
  <2>5. F[p] \in Seq(Byte) /\ F[p] # << >>
    BY <1>1, <2>2, ElementOfSeq
  <2>6. FlattenSeq(Tail(u)) \in Seq(Byte)
    BY <2>3, <2>4, FlattenType
  <2>7. F[p] \o FlattenSeq(Tail(u)) = << >>
    BY <1>4, <1>7, <2>1, <2>3, FlattenFirst
  <2> QED BY <2>5, <2>6, <2>7, ConcatEqualIffEmpty
<1>9. q + 1 = p
  BY <1>1, <1>8
<1> QED BY <1>1, <1>2, <1>7, <1>9 DEF Cut

RestOf(s, a, r) == a \in 1..(Len(s) + 1) /\ r = SubSeq(s, a, Len(s))
Within(a, r, m, n, b, c) ==
  m \in 1..(Len(r) + 1) /\ n \in (m - 1)..Len(r) /\ b = a + m - 1 /\ c = a + n - 1

\* The rest of a sequence from its a-th member on.
LEMMA RestFacts ==
  ASSUME NEW S, NEW s \in Seq(S), NEW a, NEW r, RestOf(s, a, r)
  PROVE  /\ Len(r) = Len(s) - a + 1 /\ Len(r) \in Nat /\ r \in Seq(S)
         /\ \A i \in 1..Len(r) : r[i] = s[a + i - 1]
<1>0. a \in 1..(Len(s) + 1) /\ r = SubSeq(s, a, Len(s))
  BY DEF RestOf
<1>1. PICK e : e = Len(s) /\ e \in Nat /\ a \in Int /\ a >= 1 /\ a <= e + 1
  BY <1>0, LenProperties
<1>2. \A i \in a..e : s[i] \in S
  BY <1>1, ElementOfSeq
<1>3. /\ r \in Seq(S) /\ Len(r) = IF a <= e THEN e - a + 1 ELSE 0
      /\ \A i \in 1..(e - a + 1) : r[i] = s[a + i - 1]
  BY <1>0, <1>1, <1>2, SubSeqProperties
<1>4. Len(r) = e - a + 1 /\ \A i \in 1..Len(r) : r[i] = s[a + i - 1]
  BY <1>1, <1>3
<1>5. Len(r) = Len(s) - a + 1 /\ Len(r) \in Nat
  <2>1. PICK l : l = Len(r) /\ l = e - a + 1
    BY <1>4
  <2>2. l \in Nat
    BY <1>1, <2>1
  <2> QED BY <1>1, <2>1, <2>2
<1>6. r \in Seq(S)
  BY <1>3
<1> QED BY <1>4, <1>5, <1>6

\* A part of it is a part of the sequence.
LEMMA SubOfSub ==
  ASSUME NEW S, NEW s \in Seq(S), NEW a, NEW r, RestOf(s, a, r),
         NEW m, NEW n, NEW b, NEW c, Within(a, r, m, n, b, c)
  PROVE  Slice(r, m, n) = Slice(s, b, c)
<1>1. PICK e : e = Len(s) /\ e \in Nat /\ a \in Int /\ a >= 1 /\ a <= e + 1
  <2>1. PICK e : e = Len(s) /\ e \in Nat
    BY LenProperties
  <2>2. a \in 1..(e + 1)
    BY <2>1 DEF RestOf
  <2> QED BY <2>1, <2>2
<1>2. \A i \in a..e : s[i] \in S
  BY <1>1, ElementOfSeq
<1>3. r \in Seq(S)
  BY RestFacts
<1>4. Len(r) = e - a + 1 /\ \A i \in 1..Len(r) : r[i] = s[a + i - 1]
  BY <1>1, RestFacts
<1>5. m \in Int /\ n \in Int /\ m >= 1 /\ m - 1 <= n /\ n <= e - a + 1
  BY <1>1, <1>4 DEF Within
<1>6. \A i \in m..n : r[i] \in S
  BY <1>1, <1>3, <1>4, <1>5, ElementOfSeq
<1>7. PICK u : u = SubSeq(r, m, n)
  OBVIOUS
<1>8. /\ u \in Seq(S) /\ Len(u) = IF m <= n THEN n - m + 1 ELSE 0
      /\ \A i \in 1..(n - m + 1) : u[i] = r[m + i - 1]
  <2>1. m \in Int /\ n \in Int
    BY <1>5
  <2> QED BY <1>6, <1>7, <2>1, SubSeqProperties, SMTT(30)
<1>9. b = a + m - 1 /\ c = a + n - 1 /\ b \in Int /\ c \in Int
  BY <1>1, <1>5 DEF Within
<1>10. \A i \in b..c : s[i] \in S
  BY <1>1, <1>2, <1>5, <1>9
<1>11. PICK v : v = SubSeq(s, b, c)
  OBVIOUS
<1>12. /\ v \in Seq(S) /\ Len(v) = IF b <= c THEN c - b + 1 ELSE 0
       /\ \A i \in 1..(c - b + 1) : v[i] = s[b + i - 1]
  BY <1>9, <1>10, <1>11, SubSeqProperties
<1>13. Len(u) = Len(v) /\ Len(u) = n - m + 1 /\ c - b + 1 = n - m + 1
  BY <1>1, <1>5, <1>8, <1>9, <1>12
<1>14. ASSUME NEW i \in 1..Len(u) PROVE u[i] = v[i]
  <2>1. PICK j : j = m + i - 1 /\ j \in 1..Len(r) /\ a + j - 1 = b + i - 1
    <3>1. i \in Int /\ i >= 1 /\ i <= n - m + 1
      BY <1>5, <1>13
    <3>2. m + i - 1 \in Int /\ m + i - 1 >= 1 /\ m + i - 1 <= Len(r)
      BY <1>4, <1>5, <3>1, <1>1
    <3>3. a + (m + i - 1) - 1 = b + i - 1
      BY <1>1, <1>5, <1>9, <3>1
    <3>4. PICK j : j = m + i - 1
      OBVIOUS
    <3>5. PICK l : l = Len(r) /\ l \in Int
      BY <1>1, <1>4
    <3>6. j \in Int /\ j >= 1 /\ j <= l
      BY <3>2, <3>4, <3>5
    <3>7. j \in 1..l
      BY <3>5, <3>6
    <3> QED BY <3>3, <3>4, <3>5, <3>7
  <2>2. u[i] = r[j] /\ r[j] = s[a + j - 1]
    BY <1>4, <1>8, <1>13, <2>1
  <2>3. v[i] = s[b + i - 1]
    BY <1>12, <1>13
  <2> QED BY <2>1, <2>2, <2>3
<1>15. u = v
  BY <1>8, <1>12, <1>13, <1>14, SeqEqual
<1> QED BY <1>7, <1>11, <1>15 DEF Slice

\* The first m of the fields r to come are the p-th to the q-th of F.
AreFirst(F, p, r, m, q) ==
  /\ F \in Seq(Seq(Byte)) /\ p \in 1..(Len(F) + 1)
  /\ r = SubSeq(F, p, Len(F)) /\ m \in 0..Len(r) /\ q = p + m - 1

\* Taken from them, they are what they are in F.
LEMMA FirstFields ==
  ASSUME NEW F, NEW p, NEW r, NEW m, NEW q, AreFirst(F, p, r, m, q)
  PROVE  Slice(r, 1, m) = Slice(F, p, q)
<1>1. /\ F \in Seq(Seq(Byte)) /\ p \in 1..(Len(F) + 1)
      /\ r = SubSeq(F, p, Len(F)) /\ m \in 0..Len(r) /\ q = p + m - 1
  BY DEF AreFirst
<1>2. RestOf(F, p, r)
  BY <1>1 DEF RestOf
<1>3. Len(r) \in Nat
  BY <1>1, <1>2, RestFacts
<1>4. p \in Int
  BY <1>1, LenProperties
<1>5. Within(p, r, 1, m, p, q)
  <2>1. 1 \in 1..(Len(r) + 1) /\ m \in (1 - 1)..Len(r) /\ p = p + 1 - 1
    BY <1>1, <1>3, <1>4
  <2> QED BY <1>1, <2>1 DEF Within
<1> QED BY <1>1, <1>2, <1>5, SubOfSub

\* What textdelta-chunk may bring next.
LEMMA WholeFields ==
  ASSUME NEW F \in Seq(Seq(Byte)), NEW p \in 1..(Len(F) + 1), NEW torn,
         NEW r, r = SubSeq(F, p, Len(F)), NEW k \in 1..Len(r)
  PROVE  Stream(F, FlattenSeq(SubSeq(r, 1, k)), SubSeq(r, k + 1, Len(r)), p, torn)
<1>1. PICK n : n = Len(F) /\ n \in Nat /\ p \in Int /\ p >= 1 /\ p <= n + 1
  <2>1. PICK n : n = Len(F) /\ n \in Nat
    BY LenProperties
  <2>2. p \in 1..(n + 1)
    BY <2>1
  <2>3. p \in Int /\ p >= 1 /\ p <= n + 1
    BY <2>1, <2>2
  <2> QED BY <2>1, <2>3
<1>2. Len(r) = n - p + 1
  BY <1>1, SomeFields
<1>3. PICK q : q = p + k - 1 /\ q \in (p - 1)..n /\ k \in Int /\ k >= 1 /\ k <= Len(r)
  BY <1>1, <1>2
<1>4. SubSeq(r, 1, k) = SubSeq(F, p, q)
  <2>1. k \in 0..Len(r)
    BY <1>1, <1>2, <1>3
  <2>2. AreFirst(F, p, r, k, q)
    BY <1>3, <2>1 DEF AreFirst
  <2>3. Slice(r, 1, k) = Slice(F, p, q)
    BY <2>2, FirstFields
  <2> QED BY <2>3 DEF Slice
<1>5. SubSeq(r, k + 1, Len(r)) = SubSeq(F, q + 1, n)
  <2>1. PICK m : m = k + 1 /\ m \in 1..(Len(r) + 1) /\ Len(r) \in (m - 1)..Len(r)
                 /\ p + m - 1 = q + 1 /\ p + Len(r) - 1 = n
    BY <1>1, <1>2, <1>3
  <2>2. RestOf(F, p, r)
    BY DEF RestOf
  <2>3. PICK l, b : l = Len(r) /\ b = q + 1
    OBVIOUS
  <2>4. Within(p, r, m, l, b, n)
    BY <2>1, <2>3 DEF Within
  <2>5. Slice(r, m, l) = Slice(F, b, n)
    BY <2>2, <2>4, SubOfSub
  <2> QED BY <2>1, <2>3, <2>5 DEF Slice
<1>6. FlattenSeq(SubSeq(F, p, q)) \o << >> = FlattenSeq(SubSeq(F, p, q)) /\ << >> \in Seq(Byte)
  <2>1. SubSeq(F, p, q) \in Seq(Seq(Byte))
    BY <1>1, <1>3, SomeFields
  <2>2. FlattenSeq(SubSeq(F, p, q)) \in Seq(Byte)
    BY <2>1, FlattenType
  <2> QED BY <2>2, ConcatEmptySeq, EmptySeq
<1>7. Cut(F, FlattenSeq(SubSeq(r, 1, k)), SubSeq(r, k + 1, Len(r)), p, torn, q, << >>)
  BY <1>1, <1>3, <1>4, <1>5, <1>6 DEF Cut
<1> QED BY <1>7 DEF Stream

\* ... and with a field torn.
LEMMA TornField ==
  ASSUME NEW F \in Seq(Seq(Byte)), NEW p \in 1..(Len(F) + 1), NEW rr,
         F[1] = Version,
         NEW r, r = SubSeq(F, p, Len(F)), NEW k \in 1..Len(r),
         NEW n \in 1..(Len(r[k]) - 1), NEW torn, Torn(torn),
         \/ p = 1 /\ k = 1
         \/ \A j \in 1..n : r[k][j] \in Radix..(2 * Radix - 1)
         \/ torn = "block" /\ ~(p = 1 /\ k = 1)
  PROVE  Stream(F, FlattenSeq(SubSeq(r, 1, k - 1)) \o SubSeq(r[k], 1, n), rr, p, torn)
<1>1. PICK e : e = Len(F) /\ e \in Nat /\ p \in Int /\ p >= 1 /\ p <= e + 1
  <2>1. PICK e : e = Len(F) /\ e \in Nat
    BY LenProperties
  <2>2. p \in 1..(e + 1)
    BY <2>1
  <2>3. p \in Int /\ p >= 1 /\ p <= e + 1
    BY <2>1, <2>2
  <2> QED BY <2>1, <2>3
<1>2. Len(r) = e - p + 1
  BY <1>1, SomeFields
<1>3. PICK q : q = p + k - 2 /\ q \in (p - 1)..e /\ k \in Int /\ k >= 1 /\ k <= Len(r)
               /\ q < e /\ q + 1 \in 1..e /\ q + 1 = p + k - 1
  <2>1. PICK l : l = Len(r) /\ l = e - p + 1 /\ k \in 1..l
    BY <1>2
  <2>2. PICK q : q = p + k - 2
    OBVIOUS
  <2>3. k \in Int /\ k >= 1 /\ k <= l /\ q \in (p - 1)..e
    BY <1>1, <2>1, <2>2
  <2>4. q < e /\ q + 1 \in 1..e /\ q + 1 = p + k - 1
    BY <1>1, <2>1, <2>2
  <2> QED BY <2>1, <2>2, <2>3, <2>4
<1>4. SubSeq(r, 1, k - 1) = SubSeq(F, p, q)
  <2>1. PICK m, l : m = k - 1 /\ l = Len(r) /\ l = e - p + 1
    BY <1>2
  <2>2. 1 \in 1..(l + 1) /\ m \in (1 - 1)..l
    BY <1>1, <1>3, <2>1
  <2>3. p + 1 - 1 = p /\ p + m - 1 = q
    BY <1>1, <1>3, <2>1
  <2>4. AreFirst(F, p, r, m, q)
    BY <2>1, <2>2, <2>3 DEF AreFirst
  <2>5. SubSeq(r, 1, m) = SubSeq(F, p, q)
    <3>1. Slice(r, 1, m) = Slice(F, p, q)
      BY <2>4, FirstFields
    <3> QED BY <3>1 DEF Slice
  <2> QED BY <2>1, <2>5
<1>5. PICK a : a = r[k] /\ a = F[q + 1]
  <2>1. 1 \in 1..(Len(r) + 1) /\ 1 \in (1 - 1)..Len(r)
    BY <1>1, <1>2, <1>3
  <2>2. RestOf(F, p, r)
    BY DEF RestOf
  <2>3. \A i \in 1..Len(r) : r[i] = F[p + i - 1]
    BY <2>1, <2>2, RestFacts
  <2> QED BY <1>3, <2>3
<1>6. a \in Seq(Byte) /\ Len(a) \in Nat
  BY <1>1, <1>3, <1>5, ElementOfSeq, LenProperties
<1>7. n \in Nat /\ n >= 1 /\ n < Len(a) /\ n <= Len(a)
  BY <1>5, <1>6
<1>8. PICK t : t = SubSeq(a, 1, n)
  OBVIOUS
<1>9. t \in Seq(Byte) /\ Len(t) = n /\ \A j \in 1..n : t[j] = a[j]
  <2>1. ASSUME NEW j \in 1..n PROVE a[j] \in Byte
    <3>1. j \in 1..Len(a)
      BY <1>6, <1>7
    <3> QED BY <1>6, <3>1, ElementOfSeq
  <2>2. /\ t \in Seq(Byte) /\ Len(t) = IF 1 <= n THEN n - 1 + 1 ELSE 0
        /\ \A j \in 1..(n - 1 + 1) : t[j] = a[1 + j - 1]
    <3>1. 1 \in Int /\ n \in Int
      BY <1>7
    <3> QED BY <1>8, <2>1, <3>1, SubSeqProperties
  <2>3. Len(t) = n
    BY <1>7, <2>2
  <2>4. ASSUME NEW j \in 1..n PROVE t[j] = a[j]
    <3>1. j \in 1..(n - 1 + 1) /\ 1 + j - 1 = j
      BY <1>7
    <3> QED BY <2>2, <3>1
  <2> QED BY <2>2, <2>3, <2>4
<1>10. t # << >>
  BY <1>7, <1>9, EmptySeq
<1>11. Tears(F, torn, q, t)
  <2>1. q < Len(F) /\ q \in Nat
    BY <1>1, <1>3
  <2>2. CASE q = 0
    <3>1. a = Version
      BY <1>5, <2>2
    <3>2. Len(Version) = 4
      BY DEF Version
    <3>3. Len(t) < 4
      BY <1>7, <1>9, <3>1, <3>2
    <3> QED BY <2>1, <2>2, <3>3 DEF Tears
  <2>3. CASE q >= 1 /\ \A j \in 1..n : r[k][j] \in Radix..(2 * Radix - 1)
    <3>1. \A j \in 1..Len(t) : t[j] \in Radix..(2 * Radix - 1)
      BY <1>5, <1>9, <2>3
    <3> QED BY <2>1, <2>3, <3>1 DEF Tears
  <2>4. CASE q >= 1 /\ torn = "block"
    <3>1. PartAtStart(t, F[q + 1])
      BY <1>5, <1>7, <1>9 DEF PartAtStart
    <3> QED BY <2>1, <2>4, <3>1 DEF Tears
  <2>5. (p = 1 /\ k = 1) => q = 0
    BY <1>3
  <2> QED BY <2>1, <2>2, <2>3, <2>4, <2>5
<1>12. Cut(F, FlattenSeq(SubSeq(F, p, q)) \o t, rr, p, torn, q, t)
  BY <1>1, <1>3, <1>9, <1>10, <1>11 DEF Cut
<1> QED BY <1>4, <1>5, <1>8, <1>12 DEF Stream

-----------------------------------------------------------------------------
(***************************************************************************)
(* svndiff_parse_doc.                                                      *)
(***************************************************************************)
\* A window with so many of its fields read, and the windows when it is the last.
Parsed(w, n) ==
  [so |-> IF n > 0 THEN w.so ELSE 0, sl |-> IF n > 1 THEN w.sl ELSE 0,
   tl |-> IF n > 2 THEN w.tl ELSE 0,
   insl |-> IF n > 3 THEN Len(EncBytes(InsnBytes(w))) ELSE 0,
   newl |-> IF n > 4 THEN Len(EncBytes(w.new)) ELSE 0,
   insns |-> IF n > 5 THEN w.insns ELSE << >>, new |-> IF n > 6 THEN w.new ELSE << >>]

Windows(d, n, m) == [k \in 1..n |-> Parsed(d.windows[k], IF k < n THEN 7 ELSE m)]

\* A state fills in the field it is named for.
LEMMA FillField ==
  ASSUME NEW w
  PROVE  /\ \A f \in NumberFields :
              [Parsed(w, Place(f)) EXCEPT ![f] = Measure(w, f)] = Parsed(w, Place(f) + 1)
         /\ [Parsed(w, 5) EXCEPT !.insns = w.insns] = Parsed(w, 6)
         /\ [Parsed(w, 6) EXCEPT !.new = w.new] = Parsed(w, 7)
         /\ NewWindow = Parsed(w, 0)
<1>1. ASSUME NEW f \in NumberFields
      PROVE  [Parsed(w, Place(f)) EXCEPT ![f] = Measure(w, f)] = Parsed(w, Place(f) + 1)
  <2>1. CASE f = "so"
    BY <2>1 DEF Measure, Place, Parsed
  <2>2. CASE f = "sl"
    BY <2>2 DEF Measure, Place, Parsed
  <2>3. CASE f = "tl"
    BY <2>3 DEF Measure, Place, Parsed
  <2>4. CASE f = "insl"
    BY <2>4 DEF Measure, Place, Parsed
  <2>5. CASE f = "newl"
    BY <2>5 DEF Measure, Place, Parsed
  <2> QED BY <2>1, <2>2, <2>3, <2>4, <2>5 DEF NumberFields
<1>2. /\ [Parsed(w, 5) EXCEPT !.insns = w.insns] = Parsed(w, 6)
      /\ [Parsed(w, 6) EXCEPT !.new = w.new] = Parsed(w, 7)
  BY DEF Parsed
<1>3. NewWindow = Parsed(w, 0)
  BY DEF Parsed, NewWindow
<1> QED BY <1>1, <1>2, <1>3

\* The last window, and how many there are.
LEMMA FillWindows ==
  ASSUME NEW d, NEW n \in Nat, n >= 1, NEW m
  PROVE  /\ Len(Windows(d, n, m)) = n
         /\ Windows(d, n, m)[n] = Parsed(d.windows[n], m)
<1>1. PICK W : W = Windows(d, n, m)
  OBVIOUS
<1>2. W = [k \in 1..n |-> Parsed(d.windows[k], IF k < n THEN 7 ELSE m)]
  BY <1>1 DEF Windows
<1>3. Len(W) = n
  BY <1>2
<1>4. n \in 1..n /\ ~(n < n)
  OBVIOUS
<1>5. W[n] = Parsed(d.windows[n], m)
  BY <1>2, <1>4
<1> QED BY <1>1, <1>3, <1>5

\* The field a state reads, when the n-th window is the last one begun.
At(s, n) == IF s = "version" THEN 1 ELSE FieldAt(n, Place(s))

\* n windows are begun, the last is parsed up to the state's field, and the rest of
\* the document is what the chunk and the server still have.
Reached(d, s, n, w, c, r, torn) ==
  /\ n \in 0..Len(d.windows)
  /\ s = "version" => n = 0
  /\ s \notin {"version", "nwnd"} => n >= 1
  /\ w = Windows(d, n, Place(s))
  /\ Stream(EncDoc(d), c, r, At(s, n), torn)

\* The bytes a state reads of a window.
BytesOf(x, s) == EncWindow(x)[Place(s) + 1]

With(x, f, v) == [x EXCEPT ![f] = v]
WithLast(w, n, f, v) == [w EXCEPT ![n][f] = v]

\* A chunk that begins with what the state reads.
Begins(d, s, n, a, c, r, torn) ==
  \E c2 \in Seq(Byte) : c = a \o c2 /\ Stream(EncDoc(d), c2, r, At(s, n) + 1, torn)

ParseStates == {"version", "nwnd", "so", "sl", "tl", "insl", "newl", "insns", "bytes"}

\* The place of a state's field in a window.
LEMMA PlaceRange ==
  ASSUME NEW s \in ParseStates \ {"version"}
  PROVE  /\ Place(s) \in 0..7 /\ (s # "nwnd" => Place(s) \in 0..6)
         /\ s \in NumberFields => Place(s) \in 0..4
<1>1. /\ s = "nwnd" \/ s = "so" \/ s = "sl" \/ s = "tl" \/ s = "insl" \/ s = "newl"
          \/ s = "insns" \/ s = "bytes"
  BY DEF ParseStates
<1>2. CASE s = "nwnd"
  BY <1>2 DEF Place, NumberFields
<1>3. CASE s \in NumberFields
  BY <1>3 DEF Place, NumberFields
<1>4. CASE s = "insns"
  BY <1>4 DEF Place, NumberFields
<1>5. CASE s = "bytes"
  BY <1>5 DEF Place, NumberFields
<1> QED BY <1>1, <1>2, <1>3, <1>4, <1>5 DEF NumberFields

\* A state reads a field of the document, but for the one after the last window.
LEMMA AtRange ==
  ASSUME NEW d \in Doc, NEW s \in ParseStates, NEW n \in 0..Len(d.windows),
         s \notin {"version", "nwnd"} => n >= 1
  PROVE  /\ At(s, n) \in 1..(Len(EncDoc(d)) + 1) /\ Len(EncDoc(d)) \in Nat
         /\ s # "nwnd" => At(s, n) <= Len(EncDoc(d))
         /\ s = "nwnd" => (At(s, n) <= Len(EncDoc(d)) <=> n < Len(d.windows))
<1>1. PICK F : F = EncDoc(d)
  OBVIOUS
<1>2. PICK m : m = Len(d.windows) /\ m \in Nat /\ Len(F) = 7 * m + 1
  BY <1>1, DocFields
<1>3. n \in Nat /\ n <= m
  BY <1>2
<1>4. CASE s = "version"
  BY <1>1, <1>2, <1>4 DEF At
<1>5. CASE s = "nwnd"
  <2>1. At(s, n) = 7 * (n - 1) + 2 + 7
    BY <1>5 DEF At, FieldAt, Place
  <2> QED BY <1>1, <1>2, <1>3, <1>5, <2>1
<1>6. CASE s \notin {"version", "nwnd"}
  <2>1. PICK j : j = Place(s) /\ j \in 0..6
    BY <1>6, PlaceRange
  <2>2. At(s, n) = 7 * (n - 1) + 2 + j
    BY <1>6, <2>1 DEF At, FieldAt
  <2> QED BY <1>1, <1>2, <1>3, <1>6, <2>1, <2>2
<1> QED BY <1>4, <1>5, <1>6

\* The window a state reads a field of, and what the chunk begins with.
LEMMA FieldRead ==
  ASSUME NEW d \in Doc, NEW s \in ParseStates \ {"version", "nwnd"},
         NEW n, NEW w, NEW c, NEW r, NEW torn, Reached(d, s, n, w, c, r, torn), c # << >>,
         NEW a, a = BytesOf(d.windows[n], s)
  PROVE  /\ n \in 1..Len(d.windows) /\ n \in Nat /\ Len(w) = n
         /\ d.windows[n] \in Window /\ Sendable(d.windows[n])
         /\ w[n] = Parsed(d.windows[n], Place(s))
         /\ \/ Begins(d, s, n, a, c, r, torn)
            \/ Torn(torn) /\ ~Complete(c)
            \/ torn = "block" /\ PartAtStart(c, a)
<1>1. PICK F : F = EncDoc(d)
  OBVIOUS
<1>2. PICK m : /\ m = Len(d.windows) /\ m \in Nat /\ F \in Seq(Seq(Byte))
               /\ \A k \in 1..m : /\ d.windows[k] \in Window /\ Sendable(d.windows[k])
                                  /\ \A j \in 0..6 :
                                       F[FieldAt(k, j)] = EncWindow(d.windows[k])[j + 1]
  <2>1. PICK m : m = Len(d.windows)
    OBVIOUS
  <2>2. /\ m \in Nat /\ F \in Seq(Seq(Byte))
        /\ \A k \in 1..m : /\ d.windows[k] \in Window /\ Sendable(d.windows[k])
                           /\ \A j \in 0..6 :
                                F[FieldAt(k, j)] = EncWindow(d.windows[k])[j + 1]
    BY <1>1, <2>1, DocFields
  <2> QED BY <2>1, <2>2
<1>3. n \in 0..m /\ n >= 1 /\ n \in 1..m /\ n \in Nat
  <2>1. n \in 0..m /\ n >= 1
    BY <1>2 DEF Reached
  <2> QED BY <1>2, <2>1
<1>4. PICK p : p = At(s, n) /\ p \in 1..(Len(F) + 1)
  BY <1>1, <1>2, <1>3, AtRange
<1>5. F[p] = a
  <2>1. Place(s) \in 0..6
    BY PlaceRange
  <2>2. p = FieldAt(n, Place(s))
    BY <1>4 DEF At
  <2>3. a = EncWindow(d.windows[n])[Place(s) + 1]
    BY DEF BytesOf
  <2> QED BY <1>2, <1>3, <2>1, <2>2, <2>3
<1>6. Stream(F, c, r, p, torn)
  BY <1>1, <1>4 DEF Reached
<1>7. \/ \E c2 \in Seq(Byte) : c = F[p] \o c2 /\ Stream(F, c2, r, p + 1, torn)
      \/ Torn(torn) /\ p > 1 /\ ~Complete(c)
      \/ torn = "block" /\ p > 1 /\ PartAtStart(c, F[p])
  <2>1. F \in Seq(Seq(Byte))
    BY <1>2
  <2>2. p # 1
    <3>1. p = 7 * (n - 1) + 2 + Place(s) /\ Place(s) \in 0..6
      BY <1>4, PlaceRange DEF At, FieldAt
    <3> QED BY <1>3, <3>1
  <2> QED BY <1>4, <1>6, <2>1, <2>2, FieldAhead
<1>8. w = Windows(d, n, Place(s))
  BY DEF Reached
<1>9. Len(w) = n /\ w[n] = Parsed(d.windows[n], Place(s))
  BY <1>3, <1>8, FillWindows
<1>10. \/ Begins(d, s, n, a, c, r, torn)
       \/ Torn(torn) /\ ~Complete(c)
       \/ torn = "block" /\ PartAtStart(c, a)
  <2>1. ASSUME NEW c2 \in Seq(Byte), c = F[p] \o c2, Stream(F, c2, r, p + 1, torn)
        PROVE  Begins(d, s, n, a, c, r, torn)
    <3>1. c = a \o c2
      BY <1>5, <2>1
    <3>2. Stream(EncDoc(d), c2, r, At(s, n) + 1, torn)
      BY <1>1, <1>4, <2>1
    <3> QED BY <3>1, <3>2 DEF Begins
  <2> QED BY <1>5, <1>7, <2>1
<1> QED BY <1>2, <1>3, <1>9, <1>10

\* A part of a number is none.
LEMMA NumberCutOff ==
  ASSUME NEW n \in Number, NEW c, Len(c) \in Nat, PartAtStart(c, EncNumber(n))
  PROVE  ~Complete(c)
<1>1. PICK e : e = EncNumber(n)
  OBVIOUS
<1>2. Len(e) \in Nat /\ \A i \in 1..(Len(e) - 1) : e[i] \in Radix..(2 * Radix - 1)
  BY <1>1, NumberBytes, CodingAssumption
<1>3. Len(c) < Len(e) /\ \A j \in 1..Len(c) : c[j] = e[j]
  BY <1>1 DEF PartAtStart
<1>4. Radix \in Nat
  BY CodingAssumption
<1>5. ASSUME NEW j \in 1..Len(c) PROVE ~(c[j] < Radix)
  <2>1. j \in 1..(Len(e) - 1)
    BY <1>2, <1>3
  <2>2. c[j] \in Radix..(2 * Radix - 1)
    BY <1>2, <1>3, <2>1
  <2> QED BY <1>4, <2>2
<1> QED BY <1>5 DEF Complete

\* A chunk has a length.
LEMMA ChunkLen ==
  ASSUME NEW d \in Doc, NEW s \in ParseStates, NEW n, NEW w, NEW c, NEW r, NEW torn,
         Reached(d, s, n, w, c, r, torn)
  PROVE  Len(c) \in Nat
<1>1. PICK F : F = EncDoc(d) /\ F \in Seq(Seq(Byte))
  BY DocFields
<1>2. n \in 0..Len(d.windows) /\ (s \notin {"version", "nwnd"} => n >= 1)
  BY DEF Reached
<1>3. PICK p : p = At(s, n) /\ p \in 1..(Len(F) + 1)
  BY <1>1, <1>2, AtRange
<1>4. PICK q, t : Cut(F, c, r, p, torn, q, t)
  BY <1>1, <1>3 DEF Reached, Stream
<1>5. t \in Seq(Byte) /\ q \in (p - 1)..Len(F) /\ c = FlattenSeq(SubSeq(F, p, q)) \o t
  BY <1>4 DEF Cut
<1>6. SubSeq(F, p, q) \in Seq(Seq(Byte))
  BY <1>1, <1>3, <1>5, SomeFields
<1>7. FlattenSeq(SubSeq(F, p, q)) \in Seq(Byte)
  BY <1>6, FlattenType
<1>8. c \in Seq(Byte)
  BY <1>5, <1>7, Joined
<1> QED BY <1>8, LenProperties

\* A field of the last window is filled in.
LEMMA FillOne ==
  ASSUME NEW d, NEW n \in Nat, n >= 1, NEW m, NEW f, NEW v, NEW l,
         With(Parsed(d.windows[n], m), f, v) = Parsed(d.windows[n], l)
  PROVE  WithLast(Windows(d, n, m), n, f, v) = Windows(d, n, l)
<1>1. PICK W : W = Windows(d, n, m)
  OBVIOUS
<1>2. W = [k \in 1..n |-> Parsed(d.windows[k], IF k < n THEN 7 ELSE m)]
  BY <1>1 DEF Windows
<1>3. W[n] = Parsed(d.windows[n], m)
  <2>1. n \in 1..n /\ ~(n < n)
    OBVIOUS
  <2> QED BY <1>2, <2>1
<1>4. [W EXCEPT ![n][f] = v] = [k \in 1..n |-> IF k = n THEN [W[n] EXCEPT ![f] = v] ELSE W[k]]
  BY <1>2
<1>5. [W[n] EXCEPT ![f] = v] = Parsed(d.windows[n], l)
  BY <1>3 DEF With
<1>6. ASSUME NEW k \in 1..n
      PROVE  (IF k = n THEN Parsed(d.windows[n], l) ELSE W[k])
               = Parsed(d.windows[k], IF k < n THEN 7 ELSE l)
  BY <1>2
<1> QED BY <1>1, <1>4, <1>5, <1>6 DEF Windows, WithLast

\* ... with a number.
LEMMA FillNumber ==
  ASSUME NEW w, NEW s \in NumberFields, NEW l, l = Place(s) + 1, NEW v, v = Measure(w, s)
  PROVE  With(Parsed(w, Place(s)), s, v) = Parsed(w, l)
BY FillField DEF With

\* From one field of a window to the next.
LEMMA FieldDone ==
  ASSUME NEW d \in Doc, NEW s \in ParseStates \ {"version", "nwnd"},
         NEW s2 \in ParseStates \ {"version"}, Place(s2) = Place(s) + 1,
         NEW n, NEW w, NEW c, NEW r, NEW torn, Reached(d, s, n, w, c, r, torn),
         NEW c2, Stream(EncDoc(d), c2, r, At(s, n) + 1, torn),
         NEW f, NEW v,
         With(Parsed(d.windows[n], Place(s)), f, v) = Parsed(d.windows[n], Place(s2))
  PROVE  Reached(d, s2, n, WithLast(w, n, f, v), c2, r, torn)
<1>1. n \in 0..Len(d.windows) /\ n >= 1 /\ w = Windows(d, n, Place(s)) /\ n \in Nat
  <2>1. n \in 0..Len(d.windows) /\ n >= 1 /\ w = Windows(d, n, Place(s))
    BY DEF Reached
  <2>2. n \in Nat
    BY <2>1, DocFields
  <2> QED BY <2>1, <2>2
<1>2. WithLast(w, n, f, v) = Windows(d, n, Place(s2))
  BY <1>1, FillOne
<1>3. At(s2, n) = At(s, n) + 1
  <2>1. Place(s) \in 0..6
    BY PlaceRange
  <2>2. At(s, n) = 7 * (n - 1) + 2 + Place(s) /\ At(s2, n) = 7 * (n - 1) + 2 + (Place(s) + 1)
    BY DEF At, FieldAt
  <2> QED BY <1>1, <2>1, <2>2
<1> QED BY <1>1, <1>2, <1>3 DEF Reached

\* The parser has read a number.
LEMMA NumberStep ==
  ASSUME NEW d \in Doc, NEW s \in NumberFields,
         NEW s2 \in ParseStates \ {"version"}, Place(s2) = Place(s) + 1,
         NEW n, NEW w, NEW c, NEW r, NEW torn, Reached(d, s, n, w, c, r, torn), c # << >>
  PROVE  /\ Len(w) = n
         /\ Complete(c) => Reached(d, s2, n, WithLast(w, n, s, NumberOf(c)),
                                   Drop(c, NumberLen(c)), r, torn)
         /\ ~Complete(c) => Torn(torn)
<1>1. s \in ParseStates \ {"version", "nwnd"}
  BY DEF NumberFields, ParseStates
<1>2. PICK x, a : x = d.windows[n] /\ a = BytesOf(x, s)
  OBVIOUS
<1>3. /\ Len(w) = n /\ x \in Window /\ Sendable(x)
      /\ \/ Begins(d, s, n, a, c, r, torn)
         \/ Torn(torn) /\ ~Complete(c)
         \/ torn = "block" /\ PartAtStart(c, a)
  <2>1. a = BytesOf(d.windows[n], s)
    BY <1>2
  <2>2. /\ Len(w) = n /\ d.windows[n] \in Window /\ Sendable(d.windows[n])
    BY <1>1, <2>1, FieldRead
  <2>3. \/ Begins(d, s, n, a, c, r, torn)
        \/ Torn(torn) /\ ~Complete(c)
        \/ torn = "block" /\ PartAtStart(c, a)
    BY <1>1, <2>1, FieldRead
  <2> QED BY <1>2, <2>2, <2>3
<1>4. PICK v : v = Measure(x, s) /\ v \in Number /\ a = EncNumber(v)
  BY <1>2, <1>3, WindowFields DEF BytesOf
<1>5. ASSUME NEW c2 \in Seq(Byte), c = a \o c2,
             Stream(EncDoc(d), c2, r, At(s, n) + 1, torn)
      PROVE  Complete(c) /\ Reached(d, s2, n, WithLast(w, n, s, NumberOf(c)),
                                    Drop(c, NumberLen(c)), r, torn)
  <2>1. Complete(c) /\ NumberOf(c) = v /\ Drop(c, NumberLen(c)) = c2
    BY <1>4, <1>5, NumberRead
  <2>2. With(Parsed(d.windows[n], Place(s)), s, v) = Parsed(d.windows[n], Place(s2))
    BY <1>2, <1>4, FillNumber
  <2>3. Reached(d, s2, n, WithLast(w, n, s, v), c2, r, torn)
    BY <1>1, <1>5, <2>2, FieldDone
  <2> QED BY <2>1, <2>3
<1>6. ASSUME torn = "block", PartAtStart(c, a) PROVE Torn(torn) /\ ~Complete(c)
  <2>1. Len(c) \in Nat
    BY <1>1, ChunkLen
  <2>2. ~Complete(c)
    BY <1>4, <1>6, <2>1, NumberCutOff
  <2> QED BY <1>6, <2>2 DEF Torn
<1> QED BY <1>3, <1>5, <1>6 DEF Begins

\* The parser has read the instructions of a window.
LEMMA InsnsStep ==
  ASSUME NEW d \in Doc, NEW n, NEW w, NEW c, NEW r, NEW torn,
         Reached(d, "insns", n, w, c, r, torn), c # << >>
  PROVE  /\ Len(w) = n
         /\ Complete(c) /\ w[n].insl <= Len(c) =>
              Reached(d, "bytes", n, WithLast(w, n, "insns", DecodeInsns(DecodeBytes(c, w[n].insl))),
                      Drop(c, w[n].insl), r, torn)
         /\ ~Complete(c) => Torn(torn)
         /\ Complete(c) /\ w[n].insl > Len(c) => torn = "block"
         /\ w[n].insl \in Nat /\ Len(c) \in Nat
<1>1. /\ "insns" \in ParseStates \ {"version", "nwnd"} /\ "bytes" \in ParseStates \ {"version"}
      /\ Place("insns") = 5 /\ Place("bytes") = 6
  BY DEF ParseStates, Place
<1>2. PICK x, a : x = d.windows[n] /\ a = EncWindow(x)[6]
  OBVIOUS
<1>3. /\ Len(w) = n /\ x \in Window /\ Sendable(x) /\ w[n] = Parsed(x, 5)
      /\ \/ Begins(d, "insns", n, a, c, r, torn)
         \/ Torn(torn) /\ ~Complete(c)
         \/ torn = "block" /\ PartAtStart(c, a)
  <2>1. a = BytesOf(d.windows[n], "insns")
    BY <1>1, <1>2 DEF BytesOf
  <2> QED BY <1>1, <1>2, <2>1, FieldRead
<1>4. a = EncBytes(InsnBytes(x))
  BY <1>2, <1>3, WindowFields
<1>5. w[n].insl = Len(EncBytes(InsnBytes(x)))
  BY <1>3 DEF Parsed
<1>6. InsnBytes(x) \in Seq(Octet) /\ DecodeInsns(InsnBytes(x)) = x.insns /\ Len(InsnBytes(x)) \in Number
  BY <1>3, InsnsRead DEF Sendable
<1>7. w[n].insl = Len(a) /\ Len(a) \in Nat /\ Len(c) \in Nat
  <2>1. a \in Seq(Byte)
    <3>1. \E u : u = InsnBytes(x) /\ u \in Seq(Octet) /\ Len(u) \in Number
      BY <1>6
    <3>2. << >> \in Seq(Byte)
      BY EmptySeq
    <3> QED BY <1>4, <1>6, <3>2, BlockRead
  <2>2. "insns" \in ParseStates
    BY DEF ParseStates
  <2> QED BY <1>4, <1>5, <2>1, <2>2, ChunkLen, LenProperties
<1>8. ASSUME NEW c2 \in Seq(Byte), c = a \o c2,
             Stream(EncDoc(d), c2, r, At("insns", n) + 1, torn)
      PROVE  Complete(c) /\ w[n].insl <= Len(c) /\
              Reached(d, "bytes", n, WithLast(w, n, "insns", DecodeInsns(DecodeBytes(c, w[n].insl))),
                      Drop(c, w[n].insl), r, torn)
  <2>1. c = EncBytes(InsnBytes(x)) \o c2
    BY <1>4, <1>8
  <2>2. EncBytes(InsnBytes(x)) \in Seq(Byte)
    BY <1>6, <1>8, BlockRead
  <2>3. Complete(c) /\ DecodeBytes(c, w[n].insl) = InsnBytes(x) /\ Drop(c, w[n].insl) = c2
    BY <1>5, <1>6, <2>1, BlockRead
  <2>4. PICK v : v = x.insns /\ v = DecodeInsns(DecodeBytes(c, w[n].insl))
    BY <1>6, <2>3
  <2>5. [Parsed(x, 5) EXCEPT !["insns"] = v] = Parsed(x, 6)
    BY <2>4, FillField
  <2>6. With(Parsed(d.windows[n], Place("insns")), "insns", v) = Parsed(d.windows[n], Place("bytes"))
    BY <1>1, <1>2, <2>5 DEF With
  <2>7. Place("bytes") = Place("insns") + 1
    BY <1>1
  <2>8. Reached(d, "bytes", n, WithLast(w, n, "insns", v), c2, r, torn)
    BY <1>1, <1>8, <2>6, <2>7, FieldDone
  <2>9. w[n].insl <= Len(c)
    <3>1. PICK e, l, l2 : e = EncBytes(InsnBytes(x)) /\ l = Len(e) /\ l2 = Len(c2)
      OBVIOUS
    <3>2. e \in Seq(Byte) /\ l \in Nat /\ l2 \in Nat
      BY <1>4, <1>7, <1>8, <2>2, <3>1, LenProperties
    <3>3. Len(c) = l + l2
      BY <1>8, <2>1, <3>1, <3>2, ConcatProperties
    <3> QED BY <1>4, <1>7, <3>1, <3>2, <3>3
  <2> QED BY <2>3, <2>4, <2>8, <2>9
<1>9. ASSUME torn = "block", PartAtStart(c, a) PROVE Torn(torn) /\ Len(c) < w[n].insl
  BY <1>7, <1>9 DEF PartAtStart, Torn
<1>10. \/ Complete(c) /\ w[n].insl <= Len(c)
            /\ Reached(d, "bytes", n, WithLast(w, n, "insns", DecodeInsns(DecodeBytes(c, w[n].insl))),
                       Drop(c, w[n].insl), r, torn)
       \/ Torn(torn) /\ ~Complete(c)
       \/ torn = "block" /\ Torn(torn) /\ Len(c) < w[n].insl
  BY <1>3, <1>8, <1>9 DEF Begins
<1> QED BY <1>3, <1>7, <1>10

\* The parser has read the new bytes of a window.
LEMMA BytesStep ==
  ASSUME NEW d \in Doc, NEW n, NEW w, NEW c, NEW r, NEW torn,
         Reached(d, "bytes", n, w, c, r, torn), c # << >>
  PROVE  /\ Len(w) = n
         /\ Complete(c) /\ w[n].newl <= Len(c) =>
              Reached(d, "nwnd", n, WithLast(w, n, "new", DecodeBytes(c, w[n].newl)),
                      Drop(c, w[n].newl), r, torn)
         /\ ~Complete(c) => Torn(torn)
         /\ Complete(c) /\ w[n].newl > Len(c) => torn = "block"
         /\ w[n].newl \in Nat /\ Len(c) \in Nat
<1>1. /\ "bytes" \in ParseStates \ {"version", "nwnd"} /\ "nwnd" \in ParseStates \ {"version"}
      /\ Place("bytes") = 6 /\ Place("nwnd") = 7
  BY DEF ParseStates, Place
<1>2. PICK x, a : x = d.windows[n] /\ a = EncWindow(x)[7]
  OBVIOUS
<1>3. /\ Len(w) = n /\ x \in Window /\ Sendable(x) /\ w[n] = Parsed(x, 6)
      /\ \/ Begins(d, "bytes", n, a, c, r, torn)
         \/ Torn(torn) /\ ~Complete(c)
         \/ torn = "block" /\ PartAtStart(c, a)
  <2>1. a = BytesOf(d.windows[n], "bytes")
    BY <1>1, <1>2 DEF BytesOf
  <2> QED BY <1>1, <1>2, <2>1, FieldRead
<1>4. a = EncBytes(x.new)
  BY <1>2, <1>3, WindowFields
<1>5. w[n].newl = Len(EncBytes(x.new))
  BY <1>3 DEF Parsed
<1>6. x.new \in Seq(Octet) /\ Len(x.new) \in Number
  BY <1>3 DEF Sendable, Window, Octet
<1>7. w[n].newl = Len(a) /\ Len(a) \in Nat /\ Len(c) \in Nat
  <2>1. a \in Seq(Byte)
    <3>1. \E u : u = x.new /\ u \in Seq(Octet) /\ Len(u) \in Number
      BY <1>6
    <3>2. << >> \in Seq(Byte)
      BY EmptySeq
    <3> QED BY <1>4, <1>6, <3>2, BlockRead
  <2>2. "bytes" \in ParseStates
    BY DEF ParseStates
  <2> QED BY <1>4, <1>5, <2>1, <2>2, ChunkLen, LenProperties
<1>8. ASSUME NEW c2 \in Seq(Byte), c = a \o c2,
             Stream(EncDoc(d), c2, r, At("bytes", n) + 1, torn)
      PROVE  Complete(c) /\ w[n].newl <= Len(c) /\
              Reached(d, "nwnd", n, WithLast(w, n, "new", DecodeBytes(c, w[n].newl)),
                      Drop(c, w[n].newl), r, torn)
  <2>1. c = EncBytes(x.new) \o c2
    BY <1>4, <1>8
  <2>2. EncBytes(x.new) \in Seq(Byte)
    BY <1>6, <1>8, BlockRead
  <2>3. Complete(c) /\ DecodeBytes(c, w[n].newl) = x.new /\ Drop(c, w[n].newl) = c2
    BY <1>5, <1>6, <2>1, BlockRead
  <2>4. PICK v : v = x.new /\ v = DecodeBytes(c, w[n].newl)
    BY <2>3
  <2>5. [Parsed(x, 6) EXCEPT !["new"] = v] = Parsed(x, 7)
    BY <2>4, FillField
  <2>6. With(Parsed(d.windows[n], Place("bytes")), "new", v) = Parsed(d.windows[n], Place("nwnd"))
    BY <1>1, <1>2, <2>5 DEF With
  <2>7. Place("nwnd") = Place("bytes") + 1
    BY <1>1
  <2>8. Reached(d, "nwnd", n, WithLast(w, n, "new", v), c2, r, torn)
    BY <1>1, <1>8, <2>6, <2>7, FieldDone
  <2>9. w[n].newl <= Len(c)
    <3>1. PICK e, l, l2 : e = EncBytes(x.new) /\ l = Len(e) /\ l2 = Len(c2)
      OBVIOUS
    <3>2. e \in Seq(Byte) /\ l \in Nat /\ l2 \in Nat
      BY <1>4, <1>7, <1>8, <2>2, <3>1, LenProperties
    <3>3. Len(c) = l + l2
      BY <1>8, <2>1, <3>1, <3>2, ConcatProperties
    <3> QED BY <1>4, <1>7, <3>1, <3>2, <3>3
  <2> QED BY <2>3, <2>4, <2>8, <2>9
<1>9. ASSUME torn = "block", PartAtStart(c, a) PROVE Torn(torn) /\ Len(c) < w[n].newl
  BY <1>7, <1>9 DEF PartAtStart, Torn
<1>10. \/ Complete(c) /\ w[n].newl <= Len(c)
            /\ Reached(d, "nwnd", n, WithLast(w, n, "new", DecodeBytes(c, w[n].newl)),
                       Drop(c, w[n].newl), r, torn)
       \/ Torn(torn) /\ ~Complete(c)
       \/ torn = "block" /\ Torn(torn) /\ Len(c) < w[n].newl
  BY <1>3, <1>8, <1>9 DEF Begins
<1> QED BY <1>3, <1>7, <1>10

-----------------------------------------------------------------------------
(***************************************************************************)
(* What an encoder means.                                                  *)
(***************************************************************************)
DoneSoFar == [ok : BOOLEAN, text : Seq(Octet), new : Seq(Octet)]

Nothing(base, w) == [ok |-> w.so + w.sl <= Len(base), text |-> << >>, new |-> w.new]

\* The recursive function of MeantBy, turn by turn.
LEMMA MeantIs ==
  ASSUME NEW base, NEW w, NEW n \in Nat, n = Len(w.insns)
  PROVE  /\ MeantBy(base, w)[0] = Nothing(base, w)
         /\ \A k \in 1..n : MeantBy(base, w)[k] = Apply(base, w, MeantBy(base, w)[k - 1], w.insns[k])
<1> DEFINE first == [ok |-> w.so + w.sl <= Len(base), text |-> << >>, new |-> w.new]
           Right(f, m) == f = [k \in 0..m |-> IF k = 0 THEN first
                                              ELSE Apply(base, w, f[k - 1], w.insns[k])]
           T == {m \in 0..n : \E f : Right(f, m)}
<1>1. MeantBy(base, w) = CHOOSE f : Right(f, n)
  BY DEF MeantBy
<1>2. first = Nothing(base, w)
  BY DEF Nothing
<1> HIDE DEF first
<1>3. 0 \in T
  <2>1. Right([i \in 0..0 |-> first], 0)
    OBVIOUS
  <2> HIDE DEF Right
  <2> QED BY <2>1
<1>4. ASSUME NEW k \in T, k < n PROVE k + 1 \in T
  <2> HIDE DEF Right
  <2>1. PICK f : Right(f, k)
    OBVIOUS
  <2>2. PICK m \in 0..n : m = k + 1 /\ k \in 0..n /\ m \in 1..n /\ m - 1 = k
    BY <1>4
  <2>3. \A i \in 0..k : f[i] = IF i = 0 THEN first ELSE Apply(base, w, f[i - 1], w.insns[i])
    BY <2>1 DEF Right
  <2> DEFINE e == Apply(base, w, f[k], w.insns[m])
             g == [i \in 0..m |-> IF i <= k THEN f[i] ELSE e]
  <2>4. ASSUME NEW i \in 0..m
        PROVE  g[i] = IF i = 0 THEN first ELSE Apply(base, w, g[i - 1], w.insns[i])
    <3>1. CASE i <= k
      <4>1. i \in 0..k /\ g[i] = f[i] /\ (i # 0 => g[i - 1] = f[i - 1])
        BY <2>2, <3>1
      <4> HIDE DEF g
      <4> QED BY <2>3, <4>1
    <3>2. CASE i = m
      <4>1. g[m] = e /\ g[m - 1] = f[k] /\ m # 0
        BY <2>2, <3>2
      <4> HIDE DEF g
      <4> QED BY <3>2, <4>1
    <3>3. i <= k \/ i = m
      BY <2>2
    <3> QED BY <3>1, <3>2, <3>3
  <2>5. g = [i \in 0..m |-> g[i]]
    OBVIOUS
  <2> HIDE DEF g
  <2>6. Right(g, m)
    BY <2>4, <2>5 DEF Right
  <2> QED BY <2>2, <2>6
<1> HIDE DEF Right
<1>5. n \in T
  <2>1. T \in SUBSET (0..n)
    OBVIOUS
  <2> HIDE DEF T
  <2>2. \A k \in T : k < n => k + 1 \in T
    BY <1>4
  <2> QED BY <1>3, <2>1, <2>2, UpTo
<1>6. Right(MeantBy(base, w), n)
  BY <1>1, <1>5
<1>7. PICK a : a = MeantBy(base, w)
  OBVIOUS
<1>8. \A k \in 0..n : a[k] = IF k = 0 THEN first ELSE Apply(base, w, a[k - 1], w.insns[k])
  BY <1>6, <1>7 DEF Right
<1>9. 0 \in 0..n /\ \A k \in 1..n : k \in 0..n /\ k # 0
  OBVIOUS
<1> QED BY <1>2, <1>7, <1>8, <1>9

\* A part of a text.
LEMMA Part ==
  ASSUME NEW S, NEW s \in Seq(S), NEW a \in Nat, NEW l \in Nat, a + l <= Len(s)
  PROVE  /\ SubSeq(s, a + 1, a + l) \in Seq(S) /\ Len(SubSeq(s, a + 1, a + l)) = l
         /\ \A i \in 1..l : SubSeq(s, a + 1, a + l)[i] = s[a + i]
<1>1. PICK m, n : m = a + 1 /\ n = a + l /\ m \in Int /\ n \in Int /\ m >= 1 /\ n <= Len(s)
  OBVIOUS
<1>2. PICK e : e = Len(s) /\ e \in Nat
  BY LenProperties
<1>3. \A i \in m..n : i \in 1..Len(s)
  BY <1>1, <1>2
<1>4. \A i \in m..n : s[i] \in S
  BY <1>3, ElementOfSeq
<1>5. PICK r : r = SubSeq(s, m, n)
  OBVIOUS
<1>6. m \in Int /\ n \in Int
  BY <1>1
<1>7. /\ r \in Seq(S) /\ Len(r) = IF m <= n THEN n - m + 1 ELSE 0
      /\ \A i \in 1..(n - m + 1) : r[i] = s[m + i - 1]
  BY <1>4, <1>5, <1>6, SubSeqProperties
<1>8. Len(r) = l
  BY <1>1, <1>7
<1>9. ASSUME NEW i \in 1..l PROVE r[i] = s[a + i]
  <2>1. i \in 1..(n - m + 1) /\ m + i - 1 = a + i
    BY <1>1
  <2> QED BY <1>7, <2>1
<1> QED BY <1>1, <1>5, <1>7, <1>8, <1>9

\* The place a copy from the target reads.
From(t, o, k) == o + 1 + ((k - 1) % (t - o))

\* Where a copy from the target reads: within what there was before it.
LEMMA FromRange ==
  ASSUME NEW t \in Nat, NEW o \in Nat, o < t, NEW k \in Nat, k >= 1
  PROVE  /\ From(t, o, k) \in 1..t
         /\ k <= t - o => From(t, o, k) = o + k
         /\ k > t - o => k - (t - o) \in Nat /\ From(t, o, k) = From(t, o, k - (t - o))
<1>1. PICK b, a : b = t - o /\ a = k - 1 /\ b \in Nat /\ b > 0 /\ a \in Nat
  OBVIOUS
<1>2. a % b \in 0..(b - 1)
  BY <1>1, DivMod
<1>3. From(t, o, k) = o + 1 + (a % b)
  BY <1>1 DEF From
<1>4. From(t, o, k) \in 1..t
  BY <1>1, <1>2, <1>3
<1>5. ASSUME k <= t - o PROVE From(t, o, k) = o + k
  <2>1. a \in 0..(b - 1)
    BY <1>1, <1>5
  <2>2. a % b = a
    BY <1>1, <2>1, ModOfLess
  <2> QED BY <1>1, <1>3, <2>2
<1>6. ASSUME k > t - o PROVE k - (t - o) \in Nat /\ From(t, o, k) = From(t, o, k - (t - o))
  <2>1. PICK c : c = a - b /\ c \in Nat /\ c + b = a /\ (k - (t - o)) - 1 = c /\ k - (t - o) \in Nat
    BY <1>1, <1>6
  <2>2. (c + b) % b = c % b
    BY <1>1, <2>1, ModAdd
  <2>3. From(t, o, k - (t - o)) = o + 1 + (c % b)
    BY <1>1, <2>1 DEF From
  <2> QED BY <1>3, <2>1, <2>2, <2>3
<1> QED BY <1>4, <1>5, <1>6

\* The piece of an instruction an encoder may ask for has the instruction's length.
LEMMA PieceIs ==
  ASSUME NEW base \in Seq(Octet), NEW w \in Window, w.so + w.sl <= Len(base),
         NEW done \in DoneSoFar, NEW i \in Insn, MayFollow(base, w, done, i)
  PROVE  /\ Piece(base, w, done, i) \in Seq(Octet) /\ Len(Piece(base, w, done, i)) = i.len
         /\ i.code = SVN_TXDELTA_TARGET =>
              \A k \in 1..i.len :
                Piece(base, w, done, i)[k] = done.text[From(Len(done.text), i.offset, k)]
<1>1. /\ w.so \in Nat /\ w.sl \in Nat /\ i.code \in Codes /\ i.offset \in Nat /\ i.len \in Nat
      /\ done.text \in Seq(Octet) /\ done.new \in Seq(Octet)
  BY DEF Window, Insn, Number, DoneSoFar
<1>2. Len(base) \in Nat /\ Len(done.text) \in Nat /\ Len(done.new) \in Nat
  BY <1>1, LenProperties
<1>3. CASE i.code = 0
  <2>1. i.offset + i.len <= w.sl
    BY <1>3 DEF MayFollow, SVN_TXDELTA_SOURCE, SVN_TXDELTA_TARGET, SVN_TXDELTA_NEW
  <2>2. Piece(base, w, done, i) = SubSeq(base, w.so + i.offset + 1, w.so + i.offset + i.len)
    <3>1. i.code = SVN_TXDELTA_SOURCE /\ i.code # SVN_TXDELTA_NEW
      BY <1>3 DEF SVN_TXDELTA_SOURCE, SVN_TXDELTA_NEW
    <3> QED BY <3>1 DEF Piece
  <2>3. PICK a, l : a = w.so + i.offset /\ l = i.len /\ a \in Nat /\ l \in Nat /\ a + l <= Len(base)
    BY <1>1, <1>2, <2>1
  <2>4. SubSeq(base, a + 1, a + l) \in Seq(Octet) /\ Len(SubSeq(base, a + 1, a + l)) = l
    BY <2>3, Part
  <2> QED BY <1>3, <2>2, <2>3, <2>4 DEF SVN_TXDELTA_TARGET
<1>4. CASE i.code = 2
  <2>1. i.len <= Len(done.new)
    BY <1>4 DEF MayFollow, SVN_TXDELTA_SOURCE, SVN_TXDELTA_TARGET, SVN_TXDELTA_NEW
  <2>2. Piece(base, w, done, i) = SubSeq(done.new, 1, i.len)
    <3>1. i.code # SVN_TXDELTA_SOURCE /\ i.code = SVN_TXDELTA_NEW
      BY <1>4 DEF SVN_TXDELTA_SOURCE, SVN_TXDELTA_NEW
    <3> QED BY <3>1 DEF Piece
  <2>3. PICK s, l : s = done.new /\ l = i.len /\ s \in Seq(Octet) /\ l \in Nat /\ 0 + l <= Len(s)
                    /\ 0 + 1 = 1 /\ 0 + l = l
    BY <1>1, <1>2, <2>1
  <2>4. SubSeq(s, 0 + 1, 0 + l) \in Seq(Octet) /\ Len(SubSeq(s, 0 + 1, 0 + l)) = l
    BY <2>3, Part
  <2>5. SubSeq(s, 1, l) \in Seq(Octet) /\ Len(SubSeq(s, 1, l)) = l
    BY <2>3, <2>4
  <2>6. i.code # SVN_TXDELTA_TARGET
    BY <1>4 DEF SVN_TXDELTA_TARGET
  <2> QED BY <2>2, <2>3, <2>5, <2>6
<1>5. CASE i.code = 1
  <2>1. i.offset < Len(done.text)
    BY <1>5 DEF MayFollow, SVN_TXDELTA_SOURCE, SVN_TXDELTA_TARGET, SVN_TXDELTA_NEW
  <2>2. PICK t, s, l, o : t = Len(done.text) /\ s = done.text /\ l = i.len /\ o = i.offset
                          /\ s \in Seq(Octet) /\ t = Len(s) /\ t \in Nat /\ l \in Nat /\ o \in Nat /\ o < t
    BY <1>1, <1>2, <2>1
  <2>3. Piece(base, w, done, i) = [k \in 1..l |-> s[From(t, o, k)]]
    BY <1>5, <2>2 DEF Piece, From, SVN_TXDELTA_SOURCE, SVN_TXDELTA_TARGET, SVN_TXDELTA_NEW
  <2>4. ASSUME NEW k \in 1..l PROVE s[From(t, o, k)] \in Octet
    <3>1. k \in Nat /\ k >= 1
      BY <2>2
    <3>2. From(t, o, k) \in 1..t
      BY <2>2, <3>1, FromRange
    <3> QED BY <2>2, <3>2, ElementOfSeq
  <2>5. [k \in 1..l |-> s[From(t, o, k)]] \in Seq(Octet) /\ Len([k \in 1..l |-> s[From(t, o, k)]]) = l
    BY <2>2, <2>4
  <2> QED BY <2>2, <2>3, <2>5
<1>6. i.code # 3
  <2>1. ~MayFollow(base, w, done, i) \/ i.code # 3
    BY DEF MayFollow, SVN_TXDELTA_SOURCE, SVN_TXDELTA_TARGET, SVN_TXDELTA_NEW
  <2> QED BY <2>1
<1>7. i.code = 0 \/ i.code = 1 \/ i.code = 2
  BY <1>1, <1>6 DEF Codes
<1> QED BY <1>3, <1>4, <1>5, <1>7

\* What an instruction makes of the text and of the new bytes.
LEMMA ApplyIs ==
  ASSUME NEW base \in Seq(Octet), NEW w \in Window,
         NEW done \in DoneSoFar, done.ok => w.so + w.sl <= Len(base), NEW i \in Insn,
         NEW next, next = Apply(base, w, done, i)
  PROVE  /\ next \in DoneSoFar
         /\ next.ok => /\ done.ok /\ MayFollow(base, w, done, i)
                       /\ next.text = done.text \o Piece(base, w, done, i)
                       /\ next.new = IF i.code = SVN_TXDELTA_NEW
                                       THEN SubSeq(done.new, i.len + 1, Len(done.new)) ELSE done.new
         /\ Len(done.text) \in Nat /\ Len(next.text) \in Nat
         /\ Len(next.text) >= Len(done.text)
         /\ next.ok => Len(next.text) = Len(done.text) + i.len
<1>1. done.ok \in BOOLEAN /\ done.text \in Seq(Octet) /\ done.new \in Seq(Octet) /\ i.len \in Nat
      /\ Len(done.text) \in Nat /\ Len(done.new) \in Nat
  BY LenProperties DEF DoneSoFar, Insn, Number
<1>2. CASE done.ok /\ MayFollow(base, w, done, i)
  <2>1. PICK p : p = Piece(base, w, done, i) /\ p \in Seq(Octet) /\ Len(p) = i.len
    BY <1>2, PieceIs
  <2>2. PICK t : t = done.text \o p /\ t \in Seq(Octet) /\ Len(t) = Len(done.text) + Len(p)
    BY <1>1, <2>1, Joined
  <2>3. PICK u : u = (IF i.code = SVN_TXDELTA_NEW
                       THEN SubSeq(done.new, i.len + 1, Len(done.new)) ELSE done.new)
    OBVIOUS
  <2>4. u \in Seq(Octet)
    <3>1. PICK s : s = done.new /\ s \in Seq(Octet)
      BY <1>1
    <3>2. CASE i.code = SVN_TXDELTA_NEW
      <4>1. i.len <= Len(s)
        BY <1>2, <3>1, <3>2 DEF MayFollow, SVN_TXDELTA_SOURCE, SVN_TXDELTA_TARGET, SVN_TXDELTA_NEW
      <4>2. PICK e : e = Len(s) - i.len /\ e \in Nat /\ i.len + e = Len(s)
        BY <1>1, <3>1, <4>1
      <4>3. SubSeq(s, i.len + 1, i.len + e) \in Seq(Octet)
        BY <1>1, <3>1, <4>2, Part
      <4> QED BY <2>3, <3>1, <3>2, <4>2, <4>3
    <3>3. CASE i.code # SVN_TXDELTA_NEW
      BY <2>3, <3>1, <3>3
    <3> QED BY <3>2, <3>3
  <2>5. next = [ok |-> TRUE, text |-> t, new |-> u]
    BY <1>2, <2>1, <2>2, <2>3 DEF Apply
  <2>6. next.ok = TRUE /\ next.text = t /\ next.new = u /\ next \in DoneSoFar
    BY <2>2, <2>4, <2>5 DEF DoneSoFar
  <2>7. Len(t) \in Nat /\ Len(t) >= Len(done.text) /\ Len(t) = Len(done.text) + i.len
    BY <1>1, <2>1, <2>2
  <2> QED BY <1>1, <1>2, <2>1, <2>2, <2>3, <2>6, <2>7
<1>3. CASE ~(done.ok /\ MayFollow(base, w, done, i))
  <2>1. next = [done EXCEPT !.ok = FALSE]
    BY <1>3 DEF Apply
  <2>2. next.ok = FALSE /\ next.text = done.text /\ next \in DoneSoFar
    BY <2>1 DEF DoneSoFar
  <2> QED BY <1>1, <2>2
<1> QED BY <1>2, <1>3

\* After every instruction there is a text, and the next one is carried out on it.
LEMMA MeantFacts ==
  ASSUME NEW base \in Seq(Octet), NEW w \in Window, NEW n \in Nat, n = Len(w.insns),
         NEW a, a = MeantBy(base, w)
  PROVE  /\ \A k \in 0..n : a[k] \in DoneSoFar /\ (a[k].ok => w.so + w.sl <= Len(base))
         /\ \A k \in 1..n : w.insns[k] \in Insn /\ a[k] = Apply(base, w, a[k - 1], w.insns[k])
         /\ a[0] = Nothing(base, w)
<1>1. a[0] = Nothing(base, w) /\ \A k \in 1..n : a[k] = Apply(base, w, a[k - 1], w.insns[k])
  BY MeantIs
<1>2. w.insns \in Seq(Insn) /\ w.new \in Seq(Octet)
  BY DEF Window, Octet
<1>3. \A k \in 1..n : w.insns[k] \in Insn
  BY <1>2, ElementOfSeq
<1> DEFINE T == {k \in 0..n : a[k] \in DoneSoFar /\ (a[k].ok => w.so + w.sl <= Len(base))}
<1>4. 0 \in T
  <2>1. << >> \in Seq(Octet)
    BY EmptySeq
  <2>2. Nothing(base, w) \in DoneSoFar
    BY <1>2, <2>1 DEF Nothing, DoneSoFar
  <2>3. Nothing(base, w).ok => w.so + w.sl <= Len(base)
    BY DEF Nothing
  <2> QED BY <1>1, <2>2, <2>3
<1>5. ASSUME NEW k \in 0..n PROVE k \in T
  <2> DEFINE V == {m \in 0..k : m \in T}
  <2>1. 0 \in V
    <3> HIDE DEF T
    <3> QED BY <1>4
  <2>2. ASSUME NEW m \in V, m < k PROVE m + 1 \in V
    <3>1. PICK l : l = m + 1 /\ l \in 1..n /\ l \in 0..n /\ l \in 0..k /\ l - 1 = m /\ m \in 0..n
      <4> HIDE DEF T
      <4> QED BY <2>2
    <3>2. a[m] \in DoneSoFar /\ (a[m].ok => w.so + w.sl <= Len(base)) /\ w.insns[l] \in Insn
      BY <1>3, <3>1
    <3>3. a[l] = Apply(base, w, a[m], w.insns[l])
      BY <1>1, <3>1
    <3>4. a[l] \in DoneSoFar /\ (a[l].ok => a[m].ok)
      BY <3>2, <3>3, ApplyIs
    <3> QED BY <3>1, <3>2, <3>4
  <2>3. V \in SUBSET (0..k) /\ k \in Nat
    OBVIOUS
  <2> HIDE DEF T
  <2>4. k \in V
    <3> HIDE DEF V
    <3>1. \A m \in V : m < k => m + 1 \in V
      BY <2>2
    <3> QED BY <2>1, <2>3, <3>1, UpTo
  <2> QED BY <2>4
<1> QED BY <1>1, <1>3, <1>5

\* When the whole is well-formed, every part of it is, and no part is longer.
LEMMA MeantGrows ==
  ASSUME NEW base \in Seq(Octet), NEW w \in Window, NEW n \in Nat, n = Len(w.insns),
         NEW a, a = MeantBy(base, w), a[n].ok, NEW k \in 0..n
  PROVE  a[k].ok /\ Len(a[k].text) \in Nat /\ Len(a[n].text) \in Nat /\ Len(a[k].text) <= Len(a[n].text)
<1>1. /\ \A j \in 0..n : a[j] \in DoneSoFar /\ (a[j].ok => w.so + w.sl <= Len(base))
      /\ \A j \in 1..n : w.insns[j] \in Insn /\ a[j] = Apply(base, w, a[j - 1], w.insns[j])
  BY MeantFacts
<1>2. \A j \in 0..n : Len(a[j].text) \in Nat
  BY <1>1, LenProperties DEF DoneSoFar
<1> DEFINE U(j) == a[j].ok /\ Len(a[j].text) <= Len(a[n].text)
           T == {m \in 0..(n - k) : U(n - m)}
<1>3. 0 \in T
  <2>1. n \in 0..n /\ n - 0 = n /\ 0 \in 0..(n - k)
    OBVIOUS
  <2>2. U(n)
    BY <1>2, <2>1
  <2> HIDE DEF U
  <2> QED BY <2>1, <2>2
<1>4. ASSUME NEW m \in T, m < n - k PROVE m + 1 \in T
  <2>1. PICK j : /\ j = n - m /\ j \in 1..n /\ j \in 0..n /\ j - 1 = n - (m + 1)
                 /\ j - 1 \in 0..n /\ m + 1 \in 0..(n - k)
    <3>1. m \in 0..(n - k)
      OBVIOUS
    <3> HIDE DEF U, T
    <3>2. m \in Int /\ k \in Int /\ m >= 0 /\ k >= 0 /\ k <= n /\ m < n - k
      BY <1>4, <3>1
    <3>3. /\ n - m \in 1..n /\ n - m \in 0..n /\ (n - m) - 1 = n - (m + 1)
          /\ (n - m) - 1 \in 0..n /\ m + 1 \in 0..(n - k)
      BY <3>2
    <3> QED BY <3>3
  <2>2. U(j)
    <3> HIDE DEF U
    <3> QED BY <2>1
  <2>3. PICK i : i = j - 1 /\ i \in 0..n
    BY <2>1
  <2>4. a[i] \in DoneSoFar /\ (a[i].ok => w.so + w.sl <= Len(base)) /\ w.insns[j] \in Insn
        /\ a[j] = Apply(base, w, a[i], w.insns[j])
    BY <1>1, <2>1, <2>3
  <2>5. (a[j].ok => a[i].ok) /\ Len(a[j].text) >= Len(a[i].text)
    BY <2>4, ApplyIs
  <2>6. Len(a[j].text) \in Nat /\ Len(a[i].text) \in Nat /\ Len(a[n].text) \in Nat
    <3>1. j \in 0..n /\ i \in 0..n /\ n \in 0..n
      BY <2>1, <2>3
    <3> HIDE DEF T, U
    <3> QED BY <1>2, <3>1
  <2>7. U(i)
    <3>1. PICK x, y, z : x = Len(a[j].text) /\ y = Len(a[i].text) /\ z = Len(a[n].text)
      OBVIOUS
    <3>2. x \in Nat /\ y \in Nat /\ z \in Nat
      BY <2>6, <3>1
    <3>3. a[j].ok /\ x <= z
      BY <2>2, <3>1
    <3>4. a[i].ok /\ x >= y
      BY <2>5, <3>1, <3>3
    <3>5. y <= z
      BY <3>2, <3>3, <3>4
    <3> QED BY <3>1, <3>4, <3>5
  <2> HIDE DEF U
  <2> QED BY <2>1, <2>3, <2>7
<1>5. n - k \in T
  <2>1. T \in SUBSET (0..(n - k)) /\ n - k \in Nat
    OBVIOUS
  <2> HIDE DEF T
  <2>2. \A m \in T : m < n - k => m + 1 \in T
    BY <1>4
  <2> QED BY <1>3, <2>1, <2>2, UpTo
<1>6. n - (n - k) = k /\ n \in 0..n
  OBVIOUS
<1>7. U(k)
  <2> HIDE DEF U
  <2> QED BY <1>5, <1>6
<1> QED BY <1>2, <1>6, <1>7

-----------------------------------------------------------------------------
(***************************************************************************)
(* svndiff_build_tview.                                                    *)
(***************************************************************************)
Letter == Octet \cup {Garbage}

\* i instructions of w are carried out, and c bytes of the next, a target copy.
Going(w, i, c, v, na, u) ==
  /\ i \in 0..Len(w.insns) /\ u \in 0..Len(w.new) /\ c \in Nat /\ na \in Nat
  /\ v \in Seq(Letter)
  /\ Len(v) + na = w.tl + c /\ c <= na
  /\ c > 0 => /\ i < Len(w.insns) /\ w.insns[i + 1].code = SVN_TXDELTA_TARGET
              /\ c <= w.insns[i + 1].len /\ w.insns[i + 1].len <= na

\* An instruction, what there is before it, and what it adds.
Ins(w, i) == w.insns[i + 1]
Text(base, w, i) == MeantBy(base, w)[i].text
New(base, w, i) == MeantBy(base, w)[i].new
PieceAt(base, w, i) == Piece(base, w, MeantBy(base, w)[i], Ins(w, i))

\* What is in the view is what the encoder meant.
Follows(base, w, i, c, v, u) ==
  /\ New(base, w, i) = Drop(w.new, u)
  /\ Len(v) = Len(Text(base, w, i)) + c
  /\ \A j \in 1..Len(Text(base, w, i)) : v[j] = Text(base, w, i)[j]
  /\ \A j \in 1..c : v[Len(Text(base, w, i)) + j] = PieceAt(base, w, i)[j]

\* A text that is meant has no letters malloc left.
LEMMA LetterSeq ==
  ASSUME NEW s \in Seq(Octet)
  PROVE  s \in Seq(Letter)
BY SeqMonotonic DEF Letter

\* The types that Going implies.
LEMMA GoingFacts ==
  ASSUME NEW w \in Window, NEW i, NEW c, NEW v, NEW na, NEW u, Going(w, i, c, v, na, u)
  PROVE  /\ Len(w.insns) \in Nat /\ i \in Nat /\ i <= Len(w.insns) /\ c \in Nat /\ na \in Nat
         /\ Len(w.new) \in Nat /\ u \in Nat /\ u <= Len(w.new) /\ w.tl \in Nat
         /\ v \in Seq(Letter) /\ Len(v) \in Nat
         /\ i < Len(w.insns) => /\ w.insns[i + 1] \in Insn /\ w.insns[i + 1].len \in Nat
                                /\ w.insns[i + 1].offset \in Nat
                                /\ w.insns[i + 1].code \in Codes
<1>1. w.insns \in Seq(Insn) /\ w.new \in Seq(Nat) /\ w.tl \in Nat
  BY DEF Window, Number
<1>2. v \in Seq(Letter) /\ c \in Nat /\ na \in Nat /\ i \in 0..Len(w.insns) /\ u \in 0..Len(w.new)
  BY DEF Going
<1>3. Len(w.insns) \in Nat /\ Len(w.new) \in Nat /\ Len(v) \in Nat
  BY <1>1, <1>2, LenProperties
<1>4. i \in Nat /\ i <= Len(w.insns) /\ u \in Nat /\ u <= Len(w.new)
  BY <1>2, <1>3
<1>5. ASSUME i < Len(w.insns)
      PROVE  /\ w.insns[i + 1] \in Insn /\ w.insns[i + 1].len \in Nat
             /\ w.insns[i + 1].offset \in Nat /\ w.insns[i + 1].code \in Codes
  <2>1. i + 1 \in 1..Len(w.insns)
    BY <1>3, <1>4, <1>5
  <2>2. w.insns[i + 1] \in Insn
    BY <1>1, <2>1, ElementOfSeq
  <2> QED BY <2>2 DEF Insn, Number
<1> QED BY <1>1, <1>2, <1>3, <1>4, <1>5

\* A sum is kept while both sides change alike.
LEMMA Moved ==
  ASSUME NEW e \in Int, NEW m \in Int, NEW t \in Int, NEW c \in Int, e + m = t + c
  PROVE  (e + 1) + m = t + (c + 1) /\ e + (m - c) = t + 0
OBVIOUS

\* No instruction of a window is carried out.
LEMMA GoingStart ==
  ASSUME NEW w \in Window
  PROVE  Going(w, 0, 0, << >>, w.tl, 0)
<1>1. w.insns \in Seq(Insn) /\ w.new \in Seq(Nat) /\ w.tl \in Nat
  BY DEF Window, Number
<1>2. Len(w.insns) \in Nat /\ Len(w.new) \in Nat /\ << >> \in Seq(Letter) /\ Len(<< >>) = 0
  BY <1>1, LenProperties, EmptySeq
<1>3. 0 \in 0..Len(w.insns) /\ 0 \in 0..Len(w.new) /\ 0 + w.tl = w.tl + 0 /\ 0 <= w.tl
  BY <1>1, <1>2
<1> QED BY <1>1, <1>2, <1>3 DEF Going

\* One is carried out at once.
LEMMA GoingWhole ==
  ASSUME NEW w \in Window, NEW i, NEW v, NEW na, NEW u, Going(w, i, 0, v, na, u),
         i < Len(w.insns), w.insns[i + 1].len <= na,
         NEW p \in Seq(Letter), Len(p) = w.insns[i + 1].len,
         NEW u2 \in 0..Len(w.new)
  PROVE  Going(w, i + 1, 0, v \o p, na - w.insns[i + 1].len, u2)
<1>1. PICK l : l = w.insns[i + 1].len
  OBVIOUS
<1>2. /\ Len(w.insns) \in Nat /\ i \in Nat /\ na \in Nat /\ l \in Nat /\ l <= na /\ Len(p) = l
      /\ w.tl \in Nat /\ v \in Seq(Letter) /\ Len(v) \in Nat /\ i < Len(w.insns)
  BY <1>1, GoingFacts
<1>3. PICK x : x = v \o p /\ x \in Seq(Letter) /\ Len(x) = Len(v) + Len(p)
  BY <1>2, Joined
<1>4. Len(v) + na = w.tl + 0
  BY DEF Going
<1>5. /\ i + 1 \in 0..Len(w.insns) /\ na - l \in Nat /\ 0 <= na - l
      /\ Len(x) + (na - l) = w.tl + 0
  BY <1>2, <1>3, <1>4
<1> QED BY <1>1, <1>3, <1>5 DEF Going

\* One byte of a target copy is copied.
LEMMA GoingByte ==
  ASSUME NEW w \in Window, NEW i, NEW c, NEW v, NEW na, NEW u, Going(w, i, c, v, na, u),
         i < Len(w.insns), w.insns[i + 1].code = SVN_TXDELTA_TARGET,
         c > 0 \/ w.insns[i + 1].len <= na, c < w.insns[i + 1].len, NEW x \in Letter
  PROVE  Going(w, i, c + 1, Append(v, x), na, u)
<1>1. PICK l : l = w.insns[i + 1].len
  OBVIOUS
<1>2. /\ Len(w.insns) \in Nat /\ i \in Nat /\ na \in Nat /\ c \in Nat /\ l \in Nat /\ c < l
      /\ w.tl \in Nat /\ v \in Seq(Letter) /\ Len(v) \in Nat
  BY <1>1, GoingFacts
<1>3. l <= na
  BY <1>1, <1>2 DEF Going
<1>4. PICK y : y = Append(v, x) /\ y \in Seq(Letter) /\ Len(y) = Len(v) + 1
  BY <1>2, AppendProperties
<1>5. Len(v) + na = w.tl + c /\ i \in 0..Len(w.insns) /\ u \in 0..Len(w.new)
  BY DEF Going
<1>6. c + 1 \in Nat /\ Len(y) + na = w.tl + (c + 1) /\ c + 1 <= na /\ c + 1 <= l
  <2>1. PICK e : e = Len(v) /\ e \in Nat /\ Len(y) = e + 1 /\ e + na = w.tl + c
    BY <1>2, <1>4, <1>5
  <2>2. c + 1 \in Nat /\ c + 1 <= l /\ c + 1 <= na
    BY <1>2, <1>3
  <2>3. (e + 1) + na = w.tl + (c + 1)
    <3>1. PICK tl : tl = w.tl /\ tl \in Nat /\ e + na = tl + c
      BY <1>2, <2>1
    <3>2. e \in Int /\ na \in Int /\ c \in Int /\ tl \in Int
      BY <1>2, <2>1, <3>1
    <3>3. (e + 1) + na = tl + (c + 1)
      BY <3>1, <3>2, Moved, SMTT(30)
    <3> QED BY <3>1, <3>3
  <2> QED BY <2>1, <2>2, <2>3
<1> QED BY <1>1, <1>2, <1>3, <1>4, <1>5, <1>6 DEF Going

\* All bytes of a target copy are.
LEMMA GoingOn ==
  ASSUME NEW w \in Window, NEW i, NEW c, NEW v, NEW na, NEW u, Going(w, i, c, v, na, u),
         i < Len(w.insns), c = w.insns[i + 1].len
  PROVE  Going(w, i + 1, 0, v \o << >>, na - w.insns[i + 1].len, u)
<1>1. /\ Len(w.insns) \in Nat /\ i \in Nat /\ na \in Nat /\ c \in Nat
      /\ w.tl \in Nat /\ v \in Seq(Letter) /\ Len(v) \in Nat
  BY GoingFacts
<1>2. v \o << >> = v
  BY <1>1, ConcatEmptySeq
<1>3. Len(v) + na = w.tl + c /\ c <= na /\ u \in 0..Len(w.new)
  BY DEF Going
<1>4. /\ i + 1 \in 0..Len(w.insns) /\ na - c \in Nat /\ 0 <= na - c
      /\ Len(v) + (na - c) = w.tl + 0
  <2>1. PICK e, m : e = Len(v) /\ m = Len(w.insns) /\ e \in Nat /\ m \in Nat
    BY <1>1
  <2>2. i < m /\ e + na = w.tl + c
    BY <1>3, <2>1
  <2>3. i + 1 \in 0..m
    BY <1>1, <2>1, <2>2
  <2>4. na - c \in Nat /\ 0 <= na - c /\ e + (na - c) = w.tl + 0
    <3>1. PICK tl : tl = w.tl /\ tl \in Nat /\ e + na = tl + c
      BY <1>1, <2>2
    <3>2. na \in Nat /\ c \in Nat /\ c <= na
      BY <1>1, <1>3
    <3>3. e \in Int /\ na \in Int /\ c \in Int /\ tl \in Int /\ e + na = tl + c
      BY <2>1, <3>1, <3>2
    <3>4. e + (na - c) = tl + 0
      BY <3>3, Moved, SMTT(30)
    <3>5. na - c \in Nat /\ 0 <= na - c
      BY <3>2
    <3> QED BY <3>1, <3>4, <3>5
  <2> QED BY <2>1, <2>3, <2>4
<1> QED BY <1>1, <1>2, <1>3, <1>4 DEF Going

-----------------------------------------------------------------------------
WellFormed(base, w) ==
  LET m == Meant(base, w)
  IN  m.ok /\ Len(m.text) = w.tl /\ m.new = << >>

Ready(base, w, i) ==
  /\ base \in Seq(Octet) /\ w \in Window /\ WellFormed(base, w)
  /\ i \in Nat /\ i < Len(w.insns)

\* The next instruction of a well-formed window.
LEMMA NextMeant ==
  ASSUME NEW base, NEW w, NEW i, Ready(base, w, i)
  PROVE  /\ Ins(w, i) \in Insn /\ Ins(w, i).len \in Nat /\ Ins(w, i).offset \in Nat
         /\ Text(base, w, i) \in Seq(Octet) /\ New(base, w, i) \in Seq(Octet)
         /\ Len(Text(base, w, i)) \in Nat /\ Len(New(base, w, i)) \in Nat
         /\ w.so + w.sl <= Len(base) /\ MayFollow(base, w, MeantBy(base, w)[i], Ins(w, i))
         /\ PieceAt(base, w, i) \in Seq(Octet) /\ Len(PieceAt(base, w, i)) = Ins(w, i).len
         /\ Ins(w, i).code = SVN_TXDELTA_TARGET =>
              \A k \in 1..Ins(w, i).len :
                PieceAt(base, w, i)[k]
                  = Text(base, w, i)[From(Len(Text(base, w, i)), Ins(w, i).offset, k)]
         /\ Text(base, w, i + 1) = Text(base, w, i) \o PieceAt(base, w, i)
         /\ New(base, w, i + 1)
              = IF Ins(w, i).code = SVN_TXDELTA_NEW
                  THEN SubSeq(New(base, w, i), Ins(w, i).len + 1, Len(New(base, w, i)))
                  ELSE New(base, w, i)
         /\ Len(Text(base, w, i)) + Ins(w, i).len <= w.tl /\ w.tl \in Nat
<1>0. PICK n, a, b, p :
        /\ n = Len(w.insns) /\ a = MeantBy(base, w) /\ b = w.insns[i + 1] /\ p = Piece(base, w, a[i], b)
  OBVIOUS
<1> USE DEF Ready
<1>01. base \in Seq(Octet) /\ w \in Window /\ n \in Nat /\ i \in Nat /\ i < n
  <2>1. w.insns \in Seq(Insn)
    BY DEF Window
  <2> QED BY <1>0, <2>1, LenProperties
<1>02. a[n].ok /\ Len(a[n].text) = w.tl
  BY <1>0 DEF WellFormed, Meant
<1>1. PICK j : j = i + 1 /\ j \in 1..n /\ j - 1 = i /\ i \in 0..n /\ j \in 0..n
  BY <1>01
<1>2. /\ a[i] \in DoneSoFar /\ (a[i].ok => w.so + w.sl <= Len(base))
      /\ b \in Insn /\ a[j] = Apply(base, w, a[i], b)
  BY <1>0, <1>01, <1>1, MeantFacts
<1>3. a[j].ok /\ a[i].ok /\ Len(a[j].text) <= Len(a[n].text) /\ Len(a[n].text) \in Nat
  BY <1>0, <1>01, <1>02, <1>1, MeantGrows
<1>4. /\ MayFollow(base, w, a[i], b) /\ a[j].text = a[i].text \o p
      /\ a[j].new = (IF b.code = SVN_TXDELTA_NEW
                       THEN SubSeq(a[i].new, b.len + 1, Len(a[i].new)) ELSE a[i].new)
      /\ Len(a[i].text) \in Nat /\ Len(a[j].text) = Len(a[i].text) + b.len
  <2>1. PICK done, next : done = a[i] /\ next = a[j]
    OBVIOUS
  <2>2. done \in DoneSoFar /\ b \in Insn
    BY <1>2, <2>1
  <2>3. next = Apply(base, w, done, b) /\ (done.ok => w.so + w.sl <= Len(base)) /\ next.ok
    BY <1>01, <1>2, <1>3, <2>1
  <2>4. /\ MayFollow(base, w, done, b) /\ next.text = done.text \o Piece(base, w, done, b)
        /\ next.new = (IF b.code = SVN_TXDELTA_NEW
                         THEN SubSeq(done.new, b.len + 1, Len(done.new)) ELSE done.new)
        /\ Len(done.text) \in Nat /\ Len(next.text) = Len(done.text) + b.len
    <3>1. MayFollow(base, w, done, b)
      BY <2>2, <2>3, ApplyIs
    <3>2. next.text = done.text \o Piece(base, w, done, b)
      <4>1. next = [ok |-> TRUE, text |-> done.text \o Piece(base, w, done, b),
                    new |-> IF b.code = SVN_TXDELTA_NEW
                              THEN SubSeq(done.new, b.len + 1, Len(done.new)) ELSE done.new]
        <5>1. done.ok
          BY <2>2, <2>3, ApplyIs
        <5> QED BY <2>3, <3>1, <5>1 DEF Apply
      <4> QED BY <4>1
    <3>3. next.new = (IF b.code = SVN_TXDELTA_NEW
                        THEN SubSeq(done.new, b.len + 1, Len(done.new)) ELSE done.new)
      BY <2>2, <2>3, ApplyIs
    <3>4. Len(done.text) \in Nat /\ Len(next.text) = Len(done.text) + b.len
      BY <2>2, <2>3, ApplyIs
    <3> QED BY <3>1, <3>2, <3>3, <3>4
  <2> QED BY <1>0, <2>1, <2>4
<1>5. w.so + w.sl <= Len(base)
  BY <1>2, <1>3
<1>6. p \in Seq(Octet) /\ Len(p) = b.len
  BY <1>0, <1>01, <1>2, <1>4, <1>5, PieceIs
<1>7. b.code = SVN_TXDELTA_TARGET =>
        \A k \in 1..b.len : p[k] = a[i].text[From(Len(a[i].text), b.offset, k)]
  <2>1. PICK done : done = a[i] /\ done \in DoneSoFar /\ MayFollow(base, w, done, b)
                    /\ p = Piece(base, w, done, b)
    BY <1>0, <1>2, <1>4
  <2>2. b.code = SVN_TXDELTA_TARGET =>
          \A k \in 1..b.len : Piece(base, w, done, b)[k]
                                 = done.text[From(Len(done.text), b.offset, k)]
    BY <1>01, <1>2, <1>5, <2>1, PieceIs, SMTT(30)
  <2> QED BY <2>1, <2>2
<1>8. b.len \in Nat
  BY <1>2 DEF Insn, Number
<1>9. /\ b = Ins(w, i) /\ p = PieceAt(base, w, i) /\ a[i].text = Text(base, w, i)
      /\ a[i].new = New(base, w, i) /\ a[j].text = Text(base, w, i + 1)
      /\ a[j].new = New(base, w, i + 1) /\ a[i] = MeantBy(base, w)[i]
  BY <1>0, <1>1 DEF Ins, PieceAt, Text, New
<1>10. b.len \in Nat /\ b.offset \in Nat /\ a[i].text \in Seq(Octet) /\ a[i].new \in Seq(Octet)
  BY <1>2 DEF Insn, Number, DoneSoFar
<1>11. Len(a[i].text) \in Nat /\ Len(a[i].new) \in Nat /\ w.tl \in Nat
  BY <1>01, <1>10, LenProperties DEF Window, Number
<1>12. Len(a[i].text) + b.len <= w.tl
  BY <1>02, <1>3, <1>4
<1> HIDE DEF Ready
<1>13. b.code = SVN_TXDELTA_TARGET =>
         \A k \in 1..b.len : p[k] = Text(base, w, i)[From(Len(Text(base, w, i)), b.offset, k)]
  BY <1>7, <1>9
<1> QED BY <1>2, <1>4, <1>5, <1>6, <1>9, <1>10, <1>11, <1>12, <1>13

\* A view with all the bytes of a piece.
LEMMA WholePiece ==
  ASSUME NEW t \in Seq(Letter), NEW p \in Seq(Letter), NEW v \in Seq(Letter),
         Len(v) = Len(t) + Len(p), \A j \in 1..Len(t) : v[j] = t[j],
         \A j \in 1..Len(p) : v[Len(t) + j] = p[j]
  PROVE  v = t \o p
<1>1. PICK x : x = t \o p
  OBVIOUS
<1>2. x \in Seq(Letter) /\ Len(x) = Len(t) + Len(p) /\ Len(t) \in Nat /\ Len(p) \in Nat
  BY <1>1, Joined, LenProperties
<1>3. \A j \in 1..Len(t) + Len(p) : x[j] = IF j <= Len(t) THEN t[j] ELSE p[j - Len(t)]
  BY <1>1, ConcatProperties
<1>4. ASSUME NEW j \in 1..Len(v) PROVE v[j] = x[j]
  <2>1. CASE j <= Len(t)
    <3>1. j \in 1..Len(t) /\ j \in 1..Len(t) + Len(p)
      BY <1>2, <2>1
    <3> QED BY <1>3, <2>1, <3>1
  <2>2. CASE ~(j <= Len(t))
    <3>1. PICK k : k = j - Len(t) /\ k \in 1..Len(p) /\ Len(t) + k = j /\ j \in 1..Len(t) + Len(p)
      BY <1>2, <2>2
    <3>2. x[j] = p[k]
      BY <1>3, <2>2, <3>1
    <3>3. v[Len(t) + k] = p[k]
      BY <3>1
    <3> QED BY <3>1, <3>2, <3>3
  <2> QED BY <2>1, <2>2
<1>5. Len(v) = Len(x)
  BY <1>2
<1> QED BY <1>1, <1>2, <1>4, <1>5, SeqEqual

\* Between two instructions.
LEMMA FollowsWhole ==
  ASSUME NEW base, NEW w, NEW i, NEW v \in Seq(Letter), NEW u,
         Text(base, w, i) \in Seq(Octet)
  PROVE  Follows(base, w, i, 0, v, u) <=>
           v = Text(base, w, i) /\ New(base, w, i) = Drop(w.new, u)
<1>2. PICK t : t = Text(base, w, i)
  OBVIOUS
<1>3. t \in Seq(Letter) /\ Len(t) \in Nat /\ t \in Seq(Octet)
  BY <1>2, LetterSeq, LenProperties
<1>4. ASSUME Len(v) = Len(t) + 0, \A j \in 1..Len(t) : v[j] = t[j] PROVE v = t
  <2>1. Len(v) = Len(t)
    BY <1>3, <1>4
  <2>2. \A j \in 1..Len(v) : v[j] = t[j]
    BY <1>4, <2>1
  <2>3. t \in Seq(Letter)
    BY <1>3
  <2> QED BY <2>1, <2>2, <2>3, SeqEqual
<1>5. v = t => Len(v) = Len(t) + 0 /\ \A j \in 1..Len(t) : v[j] = t[j]
  BY <1>3
<1>6. 1..0 = {}
  OBVIOUS
<1> QED BY <1>2, <1>4, <1>5, <1>6 DEF Follows

\* The first 0 bytes dropped.
LEMMA FollowsStart ==
  ASSUME NEW base \in Seq(Octet), NEW w \in Window
  PROVE  Follows(base, w, 0, 0, << >>, 0)
<1>1. w.insns \in Seq(Insn) /\ w.new \in Seq(Octet)
  BY DEF Window, Octet
<1>2. PICK n : n = Len(w.insns) /\ n \in Nat
  BY <1>1, LenProperties
<1>3. MeantBy(base, w)[0] = Nothing(base, w)
  BY <1>2, MeantIs
<1>4. Text(base, w, 0) = << >> /\ New(base, w, 0) = w.new
  BY <1>3 DEF Nothing, Text, New
<1>5. Drop(w.new, 0) = w.new
  <2>1. PICK s : s = w.new /\ s \in Seq(Octet)
    BY <1>1
  <2>2. << >> \in Seq(Octet) /\ Len(<< >>) = 0
    BY EmptySeq
  <2>3. Drop(<< >> \o s, Len(<< >>)) = s
    BY <2>1, <2>2, DropPrefix
  <2>4. << >> \o s = s
    BY <2>1, ConcatEmptySeq
  <2> QED BY <2>1, <2>2, <2>3, <2>4
<1>6. << >> \in Seq(Letter) /\ << >> \in Seq(Octet)
  BY EmptySeq
<1>7. Text(base, w, 0) \in Seq(Octet)
  BY <1>4, <1>6
<1> QED BY <1>4, <1>5, <1>6, <1>7, FollowsWhole

\* Where a well-formed window stands before an instruction, or within it.
LEMMA StepFacts ==
  ASSUME NEW base, NEW w, NEW i, Ready(base, w, i), NEW c, NEW v, NEW na, NEW u,
         Going(w, i, c, v, na, u), Follows(base, w, i, c, v, u)
  PROVE  Ins(w, i).len <= na
<1>1. /\ Ins(w, i).len \in Nat /\ Len(Text(base, w, i)) \in Nat /\ w.tl \in Nat
      /\ Len(Text(base, w, i)) + Ins(w, i).len <= w.tl
  BY NextMeant
<1>2. PICK tl, e, l, f : /\ tl = w.tl /\ e = Len(Text(base, w, i)) /\ l = Ins(w, i).len
                         /\ f = Len(v)
  OBVIOUS
<1>3. tl \in Nat /\ e \in Nat /\ l \in Nat /\ e + l <= tl
  BY <1>1, <1>2
<1>4. f + na = tl + c /\ f = e + c /\ c \in Nat /\ na \in Nat
  BY <1>2 DEF Going, Follows
<1>5. l <= na
  BY <1>3, <1>4
<1> QED BY <1>2, <1>5

\* An instruction is carried out.
LEMMA CarriedOut ==
  ASSUME NEW base, NEW w, NEW i, Ready(base, w, i), NEW v, NEW na, NEW u,
         Going(w, i, 0, v, na, u), Follows(base, w, i, 0, v, u),
         NEW p, p = PieceAt(base, w, i),
         NEW u2, New(base, w, i + 1) = Drop(w.new, u2)
  PROVE  Follows(base, w, i + 1, 0, v \o p, u2)
<1>1. PICK t : t = Text(base, w, i)
  OBVIOUS
<1>2. t \in Seq(Octet) /\ p \in Seq(Octet) /\ Text(base, w, i + 1) = t \o p
  <2>1. Text(base, w, i) \in Seq(Octet) /\ PieceAt(base, w, i) \in Seq(Octet)
    BY NextMeant
  <2>2. Text(base, w, i + 1) = Text(base, w, i) \o PieceAt(base, w, i)
    BY NextMeant
  <2> QED BY <1>1, <2>1, <2>2
<1>3. v \in Seq(Letter)
  BY DEF Going
<1>4. v = t
  BY <1>1, <1>2, <1>3, FollowsWhole
<1>5. PICK j, x : j = i + 1 /\ x = v \o p
  OBVIOUS
<1>6. x = t \o p /\ Text(base, w, j) = x /\ New(base, w, j) = Drop(w.new, u2)
  BY <1>2, <1>4, <1>5
<1>7. x \in Seq(Octet)
  <2>1. t \in Seq(Octet) /\ p \in Seq(Octet)
    BY <1>2
  <2>2. t \o p \in Seq(Octet)
    BY <2>1, Joined
  <2> QED BY <1>6, <2>2
<1>8. x \in Seq(Letter)
  BY <1>7, LetterSeq
<1>9. Follows(base, w, j, 0, x, u2)
  <2>1. Text(base, w, j) \in Seq(Octet)
    BY <1>6, <1>7
  <2> QED BY <1>6, <1>8, <2>1, FollowsWhole
<1> QED BY <1>5, <1>9

\* A source copy stays in the file and gives the bytes the encoder meant.
LEMMA SourceMeant ==
  ASSUME NEW base, NEW w, NEW i, Ready(base, w, i), NEW v, NEW na, NEW u,
         Going(w, i, 0, v, na, u), Follows(base, w, i, 0, v, u),
         NEW b, b = Ins(w, i), b.code = SVN_TXDELTA_SOURCE,
         NEW from, from = w.so + b.offset
  PROVE  /\ from \in Nat /\ from + b.len <= Len(base)
         /\ Follows(base, w, i + 1, 0, v \o SubSeq(base, from + 1, from + b.len), u)
<1>1. /\ b.len \in Nat /\ b.offset \in Nat
      /\ MayFollow(base, w, MeantBy(base, w)[i], b) /\ w.so + w.sl <= Len(base)
  BY NextMeant
<1>2. b.code # SVN_TXDELTA_NEW /\ b.code # SVN_TXDELTA_TARGET
  BY DEF SVN_TXDELTA_SOURCE, SVN_TXDELTA_NEW, SVN_TXDELTA_TARGET
<1>3. New(base, w, i + 1) = Drop(w.new, u)
  <2>1. New(base, w, i + 1)
         = IF b.code = SVN_TXDELTA_NEW THEN SubSeq(New(base, w, i), b.len + 1, Len(New(base, w, i)))
           ELSE New(base, w, i)
    BY NextMeant
  <2>2. New(base, w, i) = Drop(w.new, u)
    BY DEF Follows
  <2> QED BY <1>2, <2>1, <2>2
<1>4. b.offset + b.len <= w.sl
  BY <1>1, <1>2 DEF MayFollow
<1>5. w.so \in Nat /\ w.sl \in Nat /\ Len(base) \in Nat
  BY LenProperties DEF Window, Number, Ready
<1>6. from \in Nat /\ from + b.len <= Len(base)
  <2>1. PICK so, sl, e, o, l : /\ so = w.so /\ sl = w.sl /\ e = Len(base) /\ o = b.offset
                               /\ l = b.len
    OBVIOUS
  <2>2. /\ so \in Nat /\ sl \in Nat /\ e \in Nat /\ o \in Nat /\ l \in Nat
        /\ from = so + o /\ so + sl <= e /\ o + l <= sl
    BY <1>1, <1>4, <1>5, <2>1
  <2>3. from \in Nat /\ from + l <= e
    BY <2>2
  <2> QED BY <2>1, <2>3
<1>7. SubSeq(base, from + 1, from + b.len) = PieceAt(base, w, i)
  BY <1>2 DEF Piece, PieceAt
<1> QED BY <1>3, <1>6, <1>7, CarriedOut

\* So does a copy of new bytes, which are there.
LEMMA NewMeant ==
  ASSUME NEW base, NEW w, NEW i, Ready(base, w, i), NEW v, NEW na, NEW u,
         Going(w, i, 0, v, na, u), Follows(base, w, i, 0, v, u),
         NEW b, b = Ins(w, i), b.code = SVN_TXDELTA_NEW
  PROVE  /\ b.len <= Len(w.new) - u /\ b.len \in Nat /\ Len(w.new) \in Nat
         /\ Follows(base, w, i + 1, 0, v \o SubSeq(w.new, u + 1, u + b.len), u + b.len)
<1>1. PICK r, s, e, l : r = New(base, w, i) /\ s = w.new /\ e = Len(s) /\ l = b.len
  OBVIOUS
<1>2. l \in Nat /\ MayFollow(base, w, MeantBy(base, w)[i], b) /\ Len(r) \in Nat
  BY <1>1, NextMeant
<1>3. b.code # SVN_TXDELTA_SOURCE /\ b.code # SVN_TXDELTA_TARGET
  BY DEF SVN_TXDELTA_SOURCE, SVN_TXDELTA_NEW, SVN_TXDELTA_TARGET
<1>4. l <= Len(r)
  BY <1>1, <1>2, <1>3 DEF MayFollow, New
<1>5. s \in Seq(Octet) /\ e \in Nat /\ u \in Nat /\ u <= e
  <2>1. w \in Window
    BY DEF Ready
  <2> QED BY <1>1, <2>1, GoingFacts DEF Window, Octet
<1>6. r = SubSeq(s, u + 1, e)
  BY <1>1 DEF Drop, Follows
<1>7. PICK a : a = u + 1 /\ a \in 1..(Len(s) + 1)
  BY <1>1, <1>5
<1>8. RestOf(s, a, r)
  BY <1>1, <1>6, <1>7 DEF RestOf
<1>9. Len(r) = e - u
  <2>1. Len(r) = Len(s) - a + 1
    BY <1>5, <1>8, RestFacts
  <2> QED BY <1>1, <1>5, <1>7, <2>1
<1>10. l <= e - u
  BY <1>4, <1>9
<1>11. SubSeq(r, 1, l) = SubSeq(s, u + 1, u + l)
  <2>1. PICK y, c, z : y = u + 1 /\ c = u + l /\ z = Len(r)
    OBVIOUS
  <2>2. 1 \in 1..(z + 1) /\ l \in (1 - 1)..z
    BY <1>2, <1>4, <2>1
  <2>5. y = a + 1 - 1 /\ c = a + l - 1
    BY <1>2, <1>5, <1>7, <2>1
  <2>3. Within(a, r, 1, l, y, c)
    BY <2>1, <2>2, <2>5 DEF Within
  <2>4. Slice(r, 1, l) = Slice(s, y, c)
    BY <1>5, <1>8, <2>3, SubOfSub
  <2> QED BY <2>1, <2>4 DEF Slice
<1>12. SubSeq(r, l + 1, Len(r)) = SubSeq(s, (u + l) + 1, e)
  <2>1. PICK m, z, y : m = l + 1 /\ z = Len(r) /\ y = (u + l) + 1
    OBVIOUS
  <2>2. m \in 1..(z + 1) /\ z \in (m - 1)..z
    BY <1>2, <1>4, <2>1
  <2>5. y = a + m - 1
    BY <1>2, <1>5, <1>7, <2>1
  <2>6. e = a + z - 1
    BY <1>5, <1>7, <1>9, <2>1
  <2>3. Within(a, r, m, z, y, e)
    BY <2>1, <2>2, <2>5, <2>6 DEF Within
  <2>4. Slice(r, m, z) = Slice(s, y, e)
    BY <1>5, <1>8, <2>3, SubOfSub
  <2> QED BY <2>1, <2>4 DEF Slice
<1>13. SubSeq(w.new, u + 1, u + b.len) = PieceAt(base, w, i)
  <2>1. PieceAt(base, w, i) = SubSeq(r, 1, l)
    BY <1>1, <1>3 DEF Piece, PieceAt, New
  <2> QED BY <1>1, <1>11, <2>1
<1>14. New(base, w, i + 1) = Drop(w.new, u + b.len)
  <2>1. New(base, w, i + 1) = SubSeq(r, l + 1, Len(r))
    BY <1>1, NextMeant
  <2> QED BY <1>1, <1>12, <2>1 DEF Drop
<1>15. Follows(base, w, i + 1, 0, v \o SubSeq(w.new, u + 1, u + b.len), u + b.len)
  BY <1>13, <1>14, CarriedOut
<1> QED BY <1>1, <1>2, <1>5, <1>10, <1>15

\* A target copy starts in the text there is, and ends before tview_len.
LEMMA TargetMeant ==
  ASSUME NEW base, NEW w, NEW i, Ready(base, w, i), NEW b, b = Ins(w, i),
         b.code = SVN_TXDELTA_TARGET
  PROVE  /\ b.offset < Len(Text(base, w, i)) /\ b.offset + b.len < w.tl
         /\ New(base, w, i + 1) = New(base, w, i)
<1>1. PICK tl, e, o, l :
        tl = w.tl /\ e = Len(Text(base, w, i)) /\ o = b.offset /\ l = b.len
  OBVIOUS
<1>2. /\ tl \in Nat /\ e \in Nat /\ o \in Nat /\ l \in Nat /\ e + l <= tl
      /\ MayFollow(base, w, MeantBy(base, w)[i], b)
  BY <1>1, NextMeant
<1>3. o < e
  BY <1>1, <1>2
     DEF MayFollow, Text, SVN_TXDELTA_SOURCE, SVN_TXDELTA_TARGET, SVN_TXDELTA_NEW
<1>4. o + l < tl
  BY <1>2, <1>3
<1>5. b.code # SVN_TXDELTA_NEW
  BY DEF SVN_TXDELTA_TARGET, SVN_TXDELTA_NEW
<1>6. New(base, w, i + 1) = New(base, w, i)
  BY <1>5, NextMeant
<1> QED BY <1>1, <1>3, <1>4, <1>6

\* The byte a target copy reads is written, and is the one the encoder meant.
LEMMA TargetByte ==
  ASSUME NEW base, NEW w, NEW i, Ready(base, w, i), NEW c, NEW v, NEW na, NEW u,
         Going(w, i, c, v, na, u), Follows(base, w, i, c, v, u),
         NEW b, b = Ins(w, i), b.code = SVN_TXDELTA_TARGET, c < b.len,
         NEW from, from = b.offset + c + 1
  PROVE  from <= Len(v) /\ Follows(base, w, i, c + 1, Append(v, v[from]), u)
<1>1. PICK t, e, o, l, p, k :
        /\ t = Text(base, w, i) /\ e = Len(t) /\ o = b.offset /\ l = b.len
        /\ p = PieceAt(base, w, i) /\ k = c + 1
  OBVIOUS
<1>2. /\ e \in Nat /\ o \in Nat /\ l \in Nat /\ o < e /\ c < l
      /\ \A j \in 1..l : p[j] = t[From(e, o, j)]
  <2>1. e \in Nat /\ o \in Nat /\ l \in Nat
    BY <1>1, NextMeant
  <2>2. o < e
    BY <1>1, TargetMeant
  <2>3. \A j \in 1..Ins(w, i).len : PieceAt(base, w, i)[j]
          = Text(base, w, i)[From(Len(Text(base, w, i)), Ins(w, i).offset, j)]
    BY NextMeant
  <2>4. \A j \in 1..l : p[j] = t[From(e, o, j)]
    BY <1>1, <2>3
  <2> QED BY <1>1, <2>1, <2>2, <2>4
<1>3. /\ c \in Nat /\ v \in Seq(Letter) /\ Len(v) = e + c
      /\ \A j \in 1..e : v[j] = t[j]
      /\ \A j \in 1..c : v[e + j] = p[j]
  BY <1>1 DEF Going, Follows
<1>4. k \in Nat /\ k >= 1 /\ k \in 1..l /\ from = o + k
  <2>1. k = c + 1 /\ c \in Nat /\ l \in Nat /\ c < l /\ o \in Nat /\ from = o + c + 1
    BY <1>1, <1>2, <1>3
  <2> QED BY <2>1
<1>5. p[k] = t[From(e, o, k)]
  BY <1>2, <1>4
<1>6. from \in 1..Len(v) /\ v[from] = p[k]
  <2>1. CASE k <= e - o
    <3>1. From(e, o, k) = o + k
      BY <1>2, <1>4, <2>1, FromRange
    <3>2. from \in 1..e /\ from \in 1..Len(v)
      BY <1>2, <1>3, <1>4, <2>1
    <3>3. v[from] = t[from]
      BY <1>3, <3>2
    <3> QED BY <1>4, <1>5, <3>1, <3>2, <3>3
  <2>2. CASE k > e - o
    <3>1. k - (e - o) \in Nat /\ From(e, o, k) = From(e, o, k - (e - o))
      BY <1>2, <1>4, <2>2, FromRange
    <3>2. PICK m : m = k - (e - o) /\ m \in 1..c /\ m \in 1..l /\ e + m = from
      <4>1. PICK m : m = k - (e - o) /\ m \in Nat
        BY <3>1
      <4>2. m >= 1 /\ m <= c /\ e + m = from /\ m <= l
        <5>1. /\ k = c + 1 /\ c \in Nat /\ l \in Nat /\ c < l /\ o \in Nat /\ e \in Nat /\ o < e
              /\ from = o + k /\ k > e - o /\ m = k - (e - o)
          BY <1>1, <1>2, <1>3, <1>4, <2>2, <4>1
        <5>2. m >= 1 /\ m <= c
          BY <5>1
        <5>3. e + m = from /\ m <= l
          BY <5>1
        <5> QED BY <5>2, <5>3
      <4> QED BY <1>2, <1>3, <4>1, <4>2
    <3>3. v[e + m] = p[m] /\ p[m] = t[From(e, o, m)]
      BY <1>2, <1>3, <3>2
    <3>4. from \in 1..Len(v)
      BY <1>2, <1>3, <3>2
    <3> QED BY <1>5, <3>1, <3>2, <3>3, <3>4
  <2> QED BY <1>2, <1>4, <2>1, <2>2
<1>7. PICK x, y : x = v[from] /\ y = Append(v, x)
  OBVIOUS
<1>8. x \in Letter
  BY <1>3, <1>6, <1>7, ElementOfSeq
<1>9. /\ Len(y) = Len(v) + 1 /\ \A j \in 1..Len(v) : y[j] = v[j]
      /\ y[Len(v) + 1] = x
  <2>1. v \in Seq(Letter) /\ x \in Letter
    BY <1>3, <1>8
  <2> QED BY <1>7, <2>1, AppendProperties
<1>10. Len(y) = e + k
  BY <1>1, <1>2, <1>3, <1>9
<1>11. ASSUME NEW j \in 1..e PROVE y[j] = t[j]
  <2>1. j \in 1..Len(v)
    BY <1>2, <1>3
  <2> QED BY <1>3, <1>9, <2>1
<1>12. ASSUME NEW j \in 1..k PROVE y[e + j] = p[j]
  <2>1. CASE j <= c
    <3>1. j \in 1..c /\ e + j \in 1..Len(v)
      BY <1>2, <1>3, <2>1
    <3> QED BY <1>3, <1>9, <3>1
  <2>2. CASE j = k
    <3>1. e + j = Len(v) + 1
      BY <1>1, <1>2, <1>3, <2>2
    <3> QED BY <1>6, <1>7, <1>9, <2>2, <3>1
  <2> QED BY <1>1, <1>3, <1>4, <2>1, <2>2
<1>13. New(base, w, i) = Drop(w.new, u)
  BY DEF Follows
<1>14. Follows(base, w, i, k, y, u)
  BY <1>1, <1>10, <1>11, <1>12, <1>13 DEF Follows
<1>15. from <= Len(v)
  <2>1. Len(v) \in Nat
    BY <1>2, <1>3
  <2> QED BY <1>6, <2>1
<1> QED BY <1>1, <1>7, <1>14, <1>15

\* A target copy ends with the text the encoder meant.
LEMMA TargetEnd ==
  ASSUME NEW base, NEW w, NEW i, Ready(base, w, i), NEW c, NEW v, NEW na, NEW u,
         Going(w, i, c, v, na, u), Follows(base, w, i, c, v, u),
         NEW b, b = Ins(w, i), b.code = SVN_TXDELTA_TARGET, c = b.len
  PROVE  Follows(base, w, i + 1, 0, v \o << >>, u)
<1>1. PICK t, p : t = Text(base, w, i) /\ p = PieceAt(base, w, i)
  OBVIOUS
<1>2. /\ t \in Seq(Octet) /\ p \in Seq(Octet) /\ Len(p) = b.len
      /\ Text(base, w, i + 1) = t \o p
  <2>1. t \in Seq(Octet) /\ p \in Seq(Octet) /\ Len(p) = b.len
    BY <1>1, NextMeant
  <2>2. Text(base, w, i + 1) = Text(base, w, i) \o PieceAt(base, w, i)
    BY NextMeant
  <2> QED BY <1>1, <2>1, <2>2
<1>3. t \in Seq(Letter) /\ p \in Seq(Letter) /\ v \in Seq(Letter)
  BY <1>2, LetterSeq DEF Going
<1>4. /\ Len(v) = Len(t) + Len(p) /\ \A j \in 1..Len(t) : v[j] = t[j]
      /\ \A j \in 1..Len(p) : v[Len(t) + j] = p[j]
  BY <1>1, <1>2 DEF Follows
<1>5. v = t \o p
  BY <1>3, <1>4, WholePiece
<1>6. v \o << >> = v
  BY <1>3, ConcatEmptySeq
<1>7. PICK j : j = i + 1
  OBVIOUS
<1>8. Text(base, w, j) \in Seq(Octet)
  <2>1. t \in Seq(Octet) /\ p \in Seq(Octet)
    BY <1>2
  <2>2. t \o p \in Seq(Octet)
    BY <2>1, Joined
  <2> QED BY <1>2, <1>7, <2>2
<1>9. v = Text(base, w, j)
  BY <1>2, <1>5, <1>7
<1>10. New(base, w, j) = Drop(w.new, u)
  BY <1>7, TargetMeant DEF Follows
<1>11. Follows(base, w, j, 0, v, u)
  BY <1>3, <1>8, <1>9, <1>10, FollowsWhole
<1> QED BY <1>6, <1>7, <1>11

\* No encoder sends an unknown code.
LEMMA CodeKnown ==
  ASSUME NEW base, NEW w, NEW i, Ready(base, w, i)
  PROVE  Ins(w, i).code # 3
<1>1. MayFollow(base, w, MeantBy(base, w)[i], Ins(w, i))
  BY NextMeant
<1> QED BY <1>1 DEF MayFollow, SVN_TXDELTA_SOURCE, SVN_TXDELTA_TARGET, SVN_TXDELTA_NEW

\* The last instruction is carried out.
LEMMA WindowEnd ==
  ASSUME NEW base \in Seq(Octet), NEW w \in Window, WellFormed(base, w),
         NEW i, NEW c, NEW v, NEW na, NEW u,
         Going(w, i, c, v, na, u), Follows(base, w, i, c, v, u), i = Len(w.insns)
  PROVE  v = Meant(base, w).text /\ na = 0
<1>1. /\ Len(w.insns) \in Nat /\ c \in Nat /\ na \in Nat /\ w.tl \in Nat /\ v \in Seq(Letter)
  BY GoingFacts
<1>2. c = 0
  BY <1>1 DEF Going
<1>3. Text(base, w, i) = Meant(base, w).text
  BY DEF Text, Meant
<1>4. Text(base, w, i) \in Seq(Octet)
  <2>1. i \in 0..Len(w.insns)
    BY <1>1
  <2>2. MeantBy(base, w)[i] \in DoneSoFar
    BY <1>1, <2>1, MeantFacts
  <2> QED BY <2>2 DEF DoneSoFar, Text
<1>5. v = Text(base, w, i)
  BY <1>1, <1>2, <1>4, FollowsWhole
<1>6. Len(v) = w.tl
  BY <1>3, <1>5 DEF WellFormed
<1>7. na = 0
  <2>1. Len(v) + na = w.tl + c
    BY DEF Going
  <2> QED BY <1>1, <1>2, <1>6, <2>1
<1> QED BY <1>3, <1>5, <1>7

\* What svndiff_build_tview gives for a window, whatever it is.
LEMMA Filled ==
  ASSUME NEW v \in Seq(Letter), NEW na \in Nat
  PROVE  /\ v \o [k \in 1..na |-> Garbage] \in Seq(Letter)
         /\ na = 0 => v \o [k \in 1..na |-> Garbage] = v
<1>1. PICK g : g = [k \in 1..na |-> Garbage]
  OBVIOUS
<1>2. g \in Seq(Letter) /\ Len(g) = na
  BY <1>1 DEF Letter
<1>3. v \o g \in Seq(Letter)
  BY <1>2, Joined
<1>4. ASSUME na = 0 PROVE v \o g = v
  <2>1. g = << >>
    BY <1>2, <1>4, EmptySeq
  <2> QED BY <2>1, ConcatEmptySeq
<1> QED BY <1>1, <1>3, <1>4

-----------------------------------------------------------------------------
(***************************************************************************)
(* The inductive invariant.                                                *)
(***************************************************************************)
Splits == {"none", "field", "block"}

\* A window without what only the parser needs; the one that is being built.
Understood(w) == [so |-> w.so, sl |-> w.sl, tl |-> w.tl, insns |-> w.insns, new |-> w.new]
Got == Understood(wnd[Len(out) + 1])

\* A document an encoder may send, and that was not read out of step.
Good == Valid(doc) /\ split # "block"

Typed ==
  /\ doc \in Doc /\ split \in Splits
  /\ state \in ParseStates \cup {"build", "refused"}

\* After a chunk that ended within a block there is nothing more to come.
OutOfStep ==
  /\ state = "nwnd" /\ split = "block" /\ chunk = << >> /\ rest = << >>
  /\ wnd \in Seq(ParsedWindow)

ParseInv ==
  state \in ParseStates =>
    /\ OutOfStep \/ \E n : Reached(doc, state, n, wnd, chunk, rest, split)
    /\ out = << >> /\ insn = 0 /\ copied = 0 /\ view = << >> /\ used = 0

RefusedInv == state = "refused" => Torn(split) \/ ~Valid(doc)

OutRight ==
  \A k \in 1..Len(out) : out[k] = Meant(doc.base, doc.windows[k]).text

Underway ==
  /\ Going(Got, insn, copied, view, navail, used)
  /\ Good => Follows(doc.base, Got, insn, copied, view, used)

AsSent == wnd = Windows(doc, Len(doc.windows), 7)

BuildInv ==
  state = "build" =>
    /\ wnd \in Seq(ParsedWindow)
    /\ split # "block" => AsSent
    /\ out \in Seq(Seq(Letter)) /\ Len(out) <= Len(wnd)
    /\ Good => OutRight
    /\ Len(out) < Len(wnd) => Underway

Invariant == Typed /\ ParseInv /\ RefusedInv /\ BuildInv

\* All windows parsed are the windows sent.
LEMMA WindowsAll ==
  ASSUME NEW d \in Doc, NEW n, n = Len(d.windows), NEW ws, ws = Windows(d, n, 7)
  PROVE  /\ n \in Nat /\ Len(ws) = n /\ d.base \in Seq(Octet)
         /\ \A k \in 1..n :
              /\ d.windows[k] \in Window
              /\ ws[k].so = d.windows[k].so /\ ws[k].sl = d.windows[k].sl
              /\ ws[k].tl = d.windows[k].tl /\ ws[k].insns = d.windows[k].insns
              /\ ws[k].new = d.windows[k].new
<1>1. n \in Nat /\ \A k \in 1..n : d.windows[k] \in Window
  <2>1. n \in Nat
    BY DocFields
  <2>2. \A k \in 1..Len(d.windows) : d.windows[k] \in Window
    BY DocFields
  <2> QED BY <2>1, <2>2
<1>2. d.base \in Seq(Octet)
  BY DocAssumption DEF Octet
<1>3. ws = [k \in 1..n |-> Parsed(d.windows[k], IF k < n THEN 7 ELSE 7)]
  BY DEF Windows
<1>4. Len(ws) = n
  BY <1>1, <1>3
<1>5. ASSUME NEW k \in 1..n
      PROVE  /\ ws[k].so = d.windows[k].so /\ ws[k].sl = d.windows[k].sl
             /\ ws[k].tl = d.windows[k].tl /\ ws[k].insns = d.windows[k].insns
             /\ ws[k].new = d.windows[k].new
  <2>1. PICK x : x = d.windows[k]
    OBVIOUS
  <2>2. ws[k] = Parsed(x, 7)
    BY <1>3, <2>1
  <2>3. /\ Parsed(x, 7).so = x.so /\ Parsed(x, 7).sl = x.sl /\ Parsed(x, 7).tl = x.tl
        /\ Parsed(x, 7).insns = x.insns /\ Parsed(x, 7).new = x.new
    BY DEF Parsed
  <2> QED BY <2>1, <2>2, <2>3
<1> QED BY <1>1, <1>2, <1>4, <1>5

\* What is understood of a window is a window, and what was sent if that was parsed.
LEMMA UnderstoodIs ==
  ASSUME NEW w \in ParsedWindow
  PROVE  /\ Understood(w) \in Window
         /\ Understood(w).so = w.so /\ Understood(w).sl = w.sl /\ Understood(w).tl = w.tl
         /\ Understood(w).insns = w.insns /\ Understood(w).new = w.new
<1>1. /\ w.so \in Number /\ w.sl \in Number /\ w.tl \in Number
      /\ w.insns \in Seq(Insn) /\ w.new \in Seq(Nat)
  BY DEF ParsedWindow
<1>2. Understood(w) \in Window
  BY <1>1 DEF Understood, Window
<1> QED BY <1>2 DEF Understood

LEMMA UnderstoodSent ==
  ASSUME NEW x \in Window, NEW w,
         w.so = x.so, w.sl = x.sl, w.tl = x.tl, w.insns = x.insns, w.new = x.new
  PROVE  Understood(w) = x
<1>1. Understood(w) = [so |-> x.so, sl |-> x.sl, tl |-> x.tl, insns |-> x.insns, new |-> x.new]
  BY DEF Understood
<1>2. x = [so |-> x.so, sl |-> x.sl, tl |-> x.tl, insns |-> x.insns, new |-> x.new]
  BY DEF Window
<1> QED BY <1>1, <1>2

\* No bytes and no instructions are a number of them.
LEMMA Zero == 0 \in Number
<1>1. Digits(0) = <<0>>
  <2>1. PICK ds : /\ Digits(0) = ds[0]
                  /\ ds = [m \in 0..0 |->
                           IF m < Radix THEN <<m>> ELSE Append(ds[m \div Radix], m % Radix)]
    BY DigitsExist DEF Digits
  <2>2. 0 < Radix
    BY CodingAssumption
  <2> QED BY <2>1, <2>2
<1>2. Len(<<0>>) = 1
  OBVIOUS
<1>3. MaxDigits >= 1 /\ 2 * 0 <= MaxLong
  BY CodingAssumption
<1> QED BY <1>1, <1>2, <1>3, CodingAssumption DEF Number

\* However much of a window is parsed, it is one as the parser has it.
LEMMA ParsedTyped ==
  ASSUME NEW w \in Window, Sendable(w), NEW n
  PROVE  Parsed(w, n) \in ParsedWindow
<1>1. /\ w.so \in Number /\ w.sl \in Number /\ w.tl \in Number
      /\ w.insns \in Seq(Insn) /\ w.new \in Seq(Nat)
      /\ Len(EncBytes(InsnBytes(w))) \in Number /\ Len(EncBytes(w.new)) \in Number
  BY DEF Window, Sendable
<1>2. << >> \in Seq(Insn) /\ << >> \in Seq(Nat)
  BY EmptySeq
<1> QED BY <1>1, <1>2, Zero DEF Parsed, ParsedWindow

LEMMA WindowsTyped ==
  ASSUME NEW d \in Doc, NEW n \in 0..Len(d.windows), NEW m
  PROVE  Windows(d, n, m) \in Seq(ParsedWindow)
<1>1. n \in Nat /\ Len(d.windows) \in Nat
  BY DocFields
<1>2. ASSUME NEW k \in 1..n
      PROVE  Parsed(d.windows[k], IF k < n THEN 7 ELSE m) \in ParsedWindow
  <2>1. k \in 1..Len(d.windows)
    BY <1>1
  <2>2. d.windows[k] \in Window /\ Sendable(d.windows[k])
    BY <2>1, DocFields
  <2>3. PICK x, j : x = d.windows[k] /\ j = IF k < n THEN 7 ELSE m
    OBVIOUS
  <2> QED BY <2>2, <2>3, ParsedTyped
<1>3. [k \in 1..n |-> Parsed(d.windows[k], IF k < n THEN 7 ELSE m)] \in [1..n -> ParsedWindow]
  BY <1>2
<1> QED BY <1>1, <1>3, SeqDef DEF Windows

\* Nothing is received yet.
LEMMA StreamStart ==
  ASSUME NEW F \in Seq(Seq(Byte)), NEW torn
  PROVE  Stream(F, << >>, F, 1, torn)
<1>1. PICK n : n = Len(F) /\ n \in Nat
  BY LenProperties
<1>2. << >> \in Seq(Byte) /\ << >> \o << >> = << >>
  <2>1. << >> \in Seq(Byte)
    BY EmptySeq
  <2> QED BY <2>1, ConcatEmptySeq
<1>3. SubSeq(F, 1, 0) = << >>
  <2>1. 1 \in 1..(Len(F) + 1) /\ 0 \in (1 - 1)..Len(F) /\ 0 = 1 - 1
    BY <1>1
  <2> QED BY <2>1, SomeFields
<1>4. SubSeq(F, 0 + 1, Len(F)) = F
  <2>1. PICK u, v : u = << >> /\ v = u \o F
    OBVIOUS
  <2>2. u \in Seq(Seq(Byte)) /\ Len(u) = 0 /\ v = F
    <3>1. F \in Seq(Seq(Byte))
      OBVIOUS
    <3>2. << >> \o F = F
      BY <3>1, ConcatEmptySeq
    <3> QED BY <2>1, <3>2, EmptySeq
  <2>3. Drop(u \o F, Len(u)) = F
    BY <2>2, DropPrefix
  <2> QED BY <2>1, <2>2, <2>3 DEF Drop
<1>5. FlattenSeq(SubSeq(F, 1, 0)) \o << >> = << >>
  BY <1>2, <1>3, FlattenNone
<1>6. 0 \in (1 - 1)..Len(F)
  BY <1>1
<1>7. Cut(F, << >>, F, 1, torn, 0, << >>)
  BY <1>2, <1>4, <1>5, <1>6 DEF Cut
<1> QED BY <1>7 DEF Stream

\* No window is begun.
LEMMA NoWindows ==
  ASSUME NEW d, NEW m
  PROVE  Windows(d, 0, m) = << >>
<1>1. PICK W : W = [k \in 1..0 |-> Parsed(d.windows[k], IF k < 0 THEN 7 ELSE m)]
  OBVIOUS
<1>2. W = << >>
  BY <1>1
<1> QED BY <1>1, <1>2 DEF Windows

\* The invariant holds at the start.
LEMMA InitInvariant ==
  ASSUME Init
  PROVE  Invariant
<1> USE DEF Init
<1>1. Typed
  BY DEF Typed, ParseStates, Splits
<1>2. Reached(doc, state, 0, wnd, chunk, rest, split)
  <2>1. 0 \in 0..Len(doc.windows)
    BY DocFields
  <2>2. << >> = Windows(doc, 0, Place(state))
    BY NoWindows
  <2>3. At(state, 0) = 1
    BY DEF At
  <2>4. Stream(EncDoc(doc), << >>, EncDoc(doc), 1, split)
    <3>1. EncDoc(doc) \in Seq(Seq(Byte))
      BY DocFields
    <3> HIDE DEF Init
    <3> QED BY <3>1, StreamStart
  <2> QED BY <2>1, <2>2, <2>3, <2>4 DEF Reached
<1>3. ParseInv
  BY <1>2 DEF ParseInv
<1>4. RefusedInv /\ BuildInv
  BY DEF RefusedInv, BuildInv
<1> QED BY <1>1, <1>3, <1>4 DEF Invariant

\* An action of the parser that does not refuse.
LEMMA ParsingOn ==
  ASSUME Invariant, state \in ParseStates, doc' = doc, split' \in Splits,
         UNCHANGED buildVars, state' \in ParseStates,
         NEW n, Reached(doc, state', n, wnd', chunk', rest', split')
  PROVE  Invariant'
<1>1. Typed'
  BY DEF Invariant, Typed
<1>2. ParseInv'
  <2>1. out' = << >> /\ insn' = 0 /\ copied' = 0 /\ view' = << >> /\ used' = 0
    BY DEF Invariant, ParseInv, buildVars
  <2>2. Reached(doc', state', n, wnd', chunk', rest', split')
    OBVIOUS
  <2> QED BY <2>1, <2>2 DEF ParseInv
<1>3. state' # "refused" /\ state' # "build"
  BY DEF ParseStates
<1> QED BY <1>1, <1>2, <1>3 DEF Invariant, RefusedInv, BuildInv

\* A document is refused for a reason.
LEMMA Refused ==
  ASSUME Invariant, Refuse, Torn(split) \/ ~Valid(doc)
  PROVE  Invariant'
<1>1. doc' = doc /\ split' = split /\ state' = "refused"
  BY DEF Refuse, sendVars
<1>2. Typed'
  BY <1>1 DEF Invariant, Typed
<1>3. RefusedInv'
  <2>1. Valid(doc)' <=> Valid(doc)
    BY <1>1 DEF Valid
  <2>2. Torn(split)' <=> Torn(split)
    BY <1>1 DEF Torn
  <2> QED BY <2>1, <2>2 DEF RefusedInv
<1>4. ParseInv' /\ BuildInv'
  BY <1>1 DEF ParseInv, BuildInv, ParseStates
<1> QED BY <1>2, <1>3, <1>4 DEF Invariant

\* textdelta-chunk keeps what is to come.
LEMMA ReceiveChunkStep ==
  ASSUME Invariant, ReceiveChunk
  PROVE  Invariant'
<1>1. /\ state \in ParseStates /\ chunk = << >> /\ doc' = doc /\ state' = state /\ wnd' = wnd
      /\ UNCHANGED buildVars /\ doc \in Doc /\ split \in Splits
  BY DEF ReceiveChunk, Parsing, ParseStates, Invariant, Typed
<1>2. PICK n : Reached(doc, state, n, wnd, chunk, rest, split)
  <2>1. rest # << >>
    BY DEF ReceiveChunk
  <2> QED BY <1>1, <2>1 DEF Invariant, ParseInv, OutOfStep
<1>3. /\ n \in 0..Len(doc.windows) /\ (state \notin {"version", "nwnd"} => n >= 1)
      /\ Stream(EncDoc(doc), << >>, rest, At(state, n), split)
  BY <1>1, <1>2 DEF Reached
<1>4. PICK F, p : F = EncDoc(doc) /\ p = At(state, n)
  OBVIOUS
<1>5. /\ F \in Seq(Seq(Byte)) /\ F[1] = Version /\ \A i \in 1..Len(F) : F[i] # << >>
  BY <1>1, <1>4, DocFields
<1>6. p \in 1..(Len(F) + 1)
  BY <1>1, <1>3, <1>4, AtRange
<1>7. rest = SubSeq(F, p, Len(F))
  BY <1>3, <1>4, <1>5, <1>6, FieldsToCome
<1>8. p = 1 => state = "version"
  <2> SUFFICES ASSUME state # "version" PROVE p # 1
    OBVIOUS
  <2>1. p = 7 * (n - 1) + 2 + Place(state)
    BY <1>4 DEF At, FieldAt
  <2>2. n \in Nat /\ n >= 0
    BY <1>1, <1>3, DocFields
  <2>3. CASE state = "nwnd"
    <3>1. Place(state) = 7
      BY <2>3 DEF Place
    <3> QED BY <2>1, <2>2, <3>1
  <2>4. CASE state # "nwnd"
    <3>1. Place(state) \in 0..6 /\ n >= 1
      BY <1>1, <1>3, <2>4, PlaceRange
    <3> QED BY <2>1, <2>2, <3>1
  <2> QED BY <2>3, <2>4
<1>9. Stream(F, chunk', rest', p, split') /\ split' \in Splits
  <2>1. PICK k \in 1..Len(rest) :
          \/ /\ chunk' = FlattenSeq(SubSeq(rest, 1, k))
             /\ rest' = SubSeq(rest, k + 1, Len(rest))
             /\ UNCHANGED split
          \/ \E m \in 1..(Len(rest[k]) - 1) :
               /\ chunk' = FlattenSeq(SubSeq(rest, 1, k - 1)) \o SubSeq(rest[k], 1, m)
               /\ split' = TornIn(k, m)
    BY DEF ReceiveChunk
  <2>2. CASE /\ chunk' = FlattenSeq(SubSeq(rest, 1, k))
             /\ rest' = SubSeq(rest, k + 1, Len(rest))
             /\ UNCHANGED split
    <3>1. Stream(F, FlattenSeq(SubSeq(rest, 1, k)), SubSeq(rest, k + 1, Len(rest)), p, split)
      BY <1>5, <1>6, <1>7, WholeFields
    <3> QED BY <1>1, <2>2, <3>1
  <2>3. CASE \E m \in 1..(Len(rest[k]) - 1) :
               /\ chunk' = FlattenSeq(SubSeq(rest, 1, k - 1)) \o SubSeq(rest[k], 1, m)
               /\ split' = TornIn(k, m)
    <3>1. PICK m \in 1..(Len(rest[k]) - 1) :
               /\ chunk' = FlattenSeq(SubSeq(rest, 1, k - 1)) \o SubSeq(rest[k], 1, m)
               /\ split' = TornIn(k, m)
      BY <2>3
    <3>2. PICK b : /\ b = TornIn(k, m) /\ Torn(b) /\ b \in Splits
                   /\ \/ p = 1 /\ k = 1
                      \/ \A j \in 1..m : rest[k][j] \in Radix..(2 * Radix - 1)
                      \/ b = "block" /\ ~(p = 1 /\ k = 1)
      <4>1. state = "version" => p = 1
        BY <1>4 DEF At
      <4> QED BY <1>8, <4>1 DEF TornIn, Torn, Splits
    <3>3. PICK rr : rr = rest'
      OBVIOUS
    <3>4. Stream(F, FlattenSeq(SubSeq(rest, 1, k - 1)) \o SubSeq(rest[k], 1, m), rr, p, b)
      BY <1>5, <1>6, <1>7, <3>1, <3>2, TornField
    <3> QED BY <3>1, <3>2, <3>3, <3>4
  <2> QED BY <2>1, <2>2, <2>3
<1>10. Reached(doc, state', n, wnd', chunk', rest', split')
  BY <1>1, <1>2, <1>4, <1>9 DEF Reached
<1> QED BY <1>1, <1>9, <1>10, ParsingOn

\* The version is read.
LEMMA DecodeVersionStep ==
  ASSUME Invariant, DecodeVersion
  PROVE  Invariant'
<1>1. /\ state = "version" /\ chunk # << >> /\ doc \in Doc /\ split \in Splits
      /\ IF Len(chunk) >= 4
           THEN /\ doc' = doc /\ state' = "nwnd" /\ wnd' = wnd
                /\ rest' = rest /\ split' = split /\ chunk' = Drop(chunk, 4)
                /\ UNCHANGED buildVars
           ELSE Refuse
  BY DEF DecodeVersion, Reads, sendVars, Invariant, Typed
<1>2. state \in ParseStates
  BY <1>1 DEF ParseStates
<1>3. PICK n : Reached(doc, state, n, wnd, chunk, rest, split)
  BY <1>1, <1>2 DEF Invariant, ParseInv, OutOfStep
<1>4. n = 0 /\ wnd = Windows(doc, 0, Place(state)) /\ Stream(EncDoc(doc), chunk, rest, 1, split)
  BY <1>1, <1>3 DEF Reached, At
<1>5. PICK F : F = EncDoc(doc) /\ F \in Seq(Seq(Byte)) /\ F[1] = Version /\ Version \in Seq(Byte)
  BY <1>1, DocFields
<1>6. 1 \in 1..(Len(F) + 1)
  <2>1. Len(F) \in Nat
    BY <1>5, LenProperties
  <2> QED BY <2>1
<1>7. \/ \E c2 \in Seq(Byte) : chunk = F[1] \o c2 /\ Stream(F, c2, rest, 1 + 1, split)
      \/ Torn(split) /\ Len(chunk) < 4
  <2>1. PICK p, F1 : p = 1 /\ F1 = F[p] /\ ~(p > 1) /\ p \in 1..(Len(F) + 1)
    BY <1>6
  <2>2. Stream(F, chunk, rest, p, split) /\ F \in Seq(Seq(Byte))
    BY <1>4, <1>5, <2>1
  <2>3. \/ \E c2 \in Seq(Byte) : chunk = F[p] \o c2 /\ Stream(F, c2, rest, p + 1, split)
        \/ Torn(split) /\ Len(chunk) < 4
    BY <1>1, <2>1, <2>2, FieldAhead
  <2> QED BY <2>1, <2>3
<1>8. Len(chunk) \in Nat
  BY <1>1, <1>2, <1>3, ChunkLen
<1>9. CASE Torn(split) /\ Len(chunk) < 4
  <2>1. ~(Len(chunk) >= 4)
    BY <1>8, <1>9
  <2> QED BY <1>1, <1>9, <2>1, Refused
<1>10. ASSUME NEW c2 \in Seq(Byte), chunk = F[1] \o c2, Stream(F, c2, rest, 1 + 1, split)
       PROVE  Invariant'
  <2>1. Drop(chunk, 4) = c2 /\ Len(chunk) >= 4
    <3>1. Len(Version) = 4
      BY DEF Version
    <3>2. Drop(Version \o c2, Len(Version)) = c2
      BY <1>5, DropPrefix
    <3>3. Len(Version \o c2) = Len(Version) + Len(c2) /\ Len(c2) \in Nat
      BY <1>5, ConcatProperties, LenProperties
    <3> QED BY <1>5, <1>10, <3>1, <3>2, <3>3
  <2>2. Windows(doc, 0, Place("nwnd")) = Windows(doc, 0, Place(state))
    BY NoWindows
  <2>3. At("nwnd", 0) = 1 + 1
    BY DEF At, FieldAt, Place
  <2>4. /\ doc' = doc /\ state' = "nwnd" /\ wnd' = wnd /\ rest' = rest /\ split' = split
        /\ chunk' = c2 /\ UNCHANGED buildVars
    BY <1>1, <2>1
  <2>5. Reached(doc, state', 0, wnd', chunk', rest', split')
    <3>1. 0 \in 0..Len(doc.windows)
      BY <1>1, DocFields
    <3> QED BY <1>4, <1>5, <1>10, <2>2, <2>3, <2>4, <3>1 DEF Reached
  <2>6. state' \in ParseStates
    BY <2>4 DEF ParseStates
  <2> QED BY <1>1, <1>2, <2>4, <2>5, <2>6, ParsingOn
<1> QED BY <1>7, <1>9, <1>10

\* A window is begun.
LEMMA NextWindowStep ==
  ASSUME Invariant, NextWindow
  PROVE  Invariant'
<1>1. /\ state = "nwnd" /\ chunk # << >> /\ doc' = doc /\ state' = "so"
      /\ wnd' = Append(wnd, NewWindow) /\ rest' = rest /\ split' = split /\ chunk' = chunk
      /\ UNCHANGED buildVars /\ doc \in Doc /\ split \in Splits
  BY DEF NextWindow, Reads, sendVars, Invariant, Typed
<1>2. state \in ParseStates /\ state' \in ParseStates
  BY <1>1 DEF ParseStates
<1>3. PICK n : Reached(doc, state, n, wnd, chunk, rest, split)
  BY <1>1, <1>2 DEF Invariant, ParseInv, OutOfStep
<1>4. PICK F, p, m : F = EncDoc(doc) /\ p = At("nwnd", n) /\ m = Len(doc.windows)
  OBVIOUS
<1>5. n \in 0..m /\ wnd = Windows(doc, n, 7) /\ Stream(F, chunk, rest, p, split)
  <2>1. Place("nwnd") = 7
    BY DEF Place
  <2> QED BY <1>1, <1>3, <1>4, <2>1 DEF Reached
<1>6. F \in Seq(Seq(Byte)) /\ m \in Nat
  BY <1>1, <1>4, DocFields
<1>7. "nwnd" \in ParseStates
  BY DEF ParseStates
<1>8. p \in 1..(Len(F) + 1) /\ (p <= Len(F) <=> n < m)
  BY <1>1, <1>4, <1>5, <1>7, AtRange
<1>9. p <= Len(F)
  BY <1>1, <1>5, <1>6, <1>8, FieldAhead
<1>10. PICK k : k = n + 1 /\ k \in 0..m /\ k >= 1 /\ k \in Nat /\ n \in Nat
  BY <1>5, <1>6, <1>8, <1>9
<1>11. Append(wnd, NewWindow) = Windows(doc, k, 0)
  <2>1. PICK x, W, V : x = NewWindow /\ W = Windows(doc, n, 7) /\ V = Windows(doc, k, 0)
    OBVIOUS
  <2>2. W = [j \in 1..n |-> Parsed(doc.windows[j], IF j < n THEN 7 ELSE 7)]
    BY <2>1 DEF Windows
  <2>3. V = [j \in 1..k |-> Parsed(doc.windows[j], IF j < k THEN 7 ELSE 0)]
    BY <2>1 DEF Windows
  <2>4. Parsed(doc.windows[k], 0) = x
    BY <2>1, FillField
  <2>5. Len(W) = n /\ Len(V) = k
    BY <1>10, <2>2, <2>3
  <2>6. Append(W, x) = [j \in 1..(n + 1) |-> IF j <= n THEN W[j] ELSE x]
    <3>1. Append(W, x) = [j \in 1..(Len(W) + 1) |-> IF j <= Len(W) THEN W[j] ELSE x]
      BY <1>10, <2>2
    <3> QED BY <2>5, <3>1
  <2>7. ASSUME NEW j \in 1..k
        PROVE  (IF j <= n THEN W[j] ELSE x) = Parsed(doc.windows[j], IF j < k THEN 7 ELSE 0)
    <3>1. CASE j <= n
      <4>1. j \in 1..n /\ j < k
        BY <1>10, <3>1
      <4>2. W[j] = Parsed(doc.windows[j], 7)
        BY <2>2, <4>1
      <4> QED BY <3>1, <4>1, <4>2
    <3>2. CASE j = k
      BY <1>10, <2>4, <3>2
    <3> QED BY <1>10, <3>1, <3>2
  <2>8. Append(W, x) = V
    BY <1>10, <2>3, <2>6, <2>7
  <2> QED BY <1>5, <2>1, <2>8
<1>12. At("so", k) = p
  <2>1. p = 7 * (n - 1) + 2 + 7 /\ At("so", k) = 7 * (k - 1) + 2 + 0
    BY <1>4 DEF At, FieldAt, Place
  <2> QED BY <1>10, <2>1
<1>13. Reached(doc, state', k, wnd', chunk', rest', split')
  <2>1. Place("so") = 0
    BY DEF Place
  <2> QED BY <1>1, <1>4, <1>5, <1>10, <1>11, <1>12, <2>1 DEF Reached
<1> QED BY <1>1, <1>2, <1>13, ParsingOn

\* A number is read, or one that is torn refused.
LEMMA DecodeNumberStep ==
  ASSUME Invariant, NEW s \in NumberFields, NEW s2 \in ParseStates \ {"version"},
         Place(s2) = Place(s) + 1, DecodeNumber(s, s2)
  PROVE  Invariant'
<1>1. state = s /\ chunk # << >> /\ doc \in Doc /\ split \in Splits
  BY DEF DecodeNumber, Reads, Invariant, Typed
<1>2. state \in ParseStates
  BY <1>1 DEF ParseStates, NumberFields
<1>3. PICK n : Reached(doc, state, n, wnd, chunk, rest, split)
  BY <1>1, <1>2 DEF Invariant, ParseInv, OutOfStep
<1>4. /\ Len(wnd) = n
      /\ Complete(chunk) => Reached(doc, s2, n, WithLast(wnd, n, s, NumberOf(chunk)),
                                    Drop(chunk, NumberLen(chunk)), rest, split)
      /\ ~Complete(chunk) => Torn(split)
  BY <1>1, <1>3, NumberStep
<1>5. CASE Complete(chunk)
  <2>1. /\ doc' = doc /\ rest' = rest /\ split' = split /\ UNCHANGED buildVars /\ state' = s2
        /\ wnd' = [wnd EXCEPT ![Len(wnd)][s] = NumberOf(chunk)]
        /\ chunk' = Drop(chunk, NumberLen(chunk))
    BY <1>5 DEF DecodeNumber, sendVars, LastWnd
  <2>2. wnd' = WithLast(wnd, n, s, NumberOf(chunk))
    BY <1>4, <2>1 DEF WithLast
  <2>3. Reached(doc, state', n, wnd', chunk', rest', split')
    BY <1>4, <1>5, <2>1, <2>2
  <2> QED BY <1>1, <1>2, <2>1, <2>3, ParsingOn
<1>6. CASE ~Complete(chunk)
  <2>1. Refuse
    BY <1>6 DEF DecodeNumber
  <2> QED BY <1>4, <1>6, <2>1, Refused
<1> QED BY <1>5, <1>6

\* A block that the chunk does not hold is read past its end.
LEMMA OverReadStep ==
  ASSUME Invariant, OverRead, state \in ParseStates, split = "block",
         NEW n, Reached(doc, state, n, wnd, chunk, rest, split)
  PROVE  Invariant'
<1>1. CASE Refuse
  BY <1>1, Refused DEF Torn
<1>2. CASE /\ \E ws \in Misread : wnd' = Front(wnd) \o ws
           /\ chunk' = << >> /\ rest' = << >>
           /\ state' = "nwnd"
           /\ UNCHANGED <<doc, split, buildVars>>
  <2>1. PICK ws \in Misread : wnd' = Front(wnd) \o ws
    BY <1>2
  <2>2. ws \in Seq(ParsedWindow)
    BY MisreadAssumption
  <2>3. Front(wnd) \in Seq(ParsedWindow)
    <3>1. doc \in Doc
      BY DEF Invariant, Typed
    <3>2. n \in 0..Len(doc.windows) /\ wnd = Windows(doc, n, Place(state))
      BY DEF Reached
    <3>3. wnd \in Seq(ParsedWindow)
      BY <3>1, <3>2, WindowsTyped
    <3>4. Len(wnd) \in Nat
      BY <3>3, LenProperties
    <3>5. \A k \in 1..(Len(wnd) - 1) : wnd[k] \in ParsedWindow
      BY <3>3, <3>4, ElementOfSeq
    <3>6. SubSeq(wnd, 1, Len(wnd) - 1) \in Seq(ParsedWindow)
      BY <3>3, <3>4, <3>5, SubSeqProperties
    <3> QED BY <3>6 DEF Front
  <2>4. wnd' \in Seq(ParsedWindow)
    BY <2>1, <2>2, <2>3, ConcatProperties
  <2>5. OutOfStep'
    BY <1>2, <2>4 DEF OutOfStep
  <2>6. Typed'
    BY <1>2 DEF Invariant, Typed, ParseStates
  <2>7. ParseInv'
    <3>1. out' = << >> /\ insn' = 0 /\ copied' = 0 /\ view' = << >> /\ used' = 0
      BY <1>2 DEF Invariant, ParseInv, buildVars
    <3> QED BY <2>5, <3>1 DEF ParseInv
  <2>8. RefusedInv' /\ BuildInv'
    BY <1>2 DEF RefusedInv, BuildInv
  <2> QED BY <2>6, <2>7, <2>8 DEF Invariant
<1> QED BY <1>1, <1>2 DEF OverRead

\* The instructions are read, or their torn length refused.
LEMMA ParseInsnsStep ==
  ASSUME Invariant, ParseInsns
  PROVE  Invariant'
<1>1. state = "insns" /\ chunk # << >> /\ doc \in Doc /\ split \in Splits
  BY DEF ParseInsns, DecodeBlock, Reads, Invariant, Typed
<1>2. state \in ParseStates
  BY <1>1 DEF ParseStates
<1>3. PICK n : Reached(doc, state, n, wnd, chunk, rest, split)
  BY <1>1, <1>2 DEF Invariant, ParseInv, OutOfStep
<1>4. /\ Len(wnd) = n
      /\ Complete(chunk) /\ wnd[n].insl <= Len(chunk) =>
           Reached(doc, "bytes", n,
                   WithLast(wnd, n, "insns", DecodeInsns(DecodeBytes(chunk, wnd[n].insl))),
                   Drop(chunk, wnd[n].insl), rest, split)
      /\ ~Complete(chunk) => Torn(split)
      /\ Complete(chunk) /\ wnd[n].insl > Len(chunk) => split = "block"
      /\ wnd[n].insl \in Nat /\ Len(chunk) \in Nat
  BY <1>1, <1>3, InsnsStep
<1>5. CASE Complete(chunk) /\ wnd[n].insl <= Len(chunk)
  <2>1. /\ doc' = doc /\ rest' = rest /\ split' = split /\ UNCHANGED buildVars /\ state' = "bytes"
        /\ wnd' = [wnd EXCEPT ![Len(wnd)].insns =
                     DecodeInsns(DecodeBytes(chunk, wnd[Len(wnd)].insl))]
        /\ chunk' = Drop(chunk, wnd[Len(wnd)].insl)
    BY <1>4, <1>5 DEF ParseInsns, DecodeBlock, sendVars, LastWnd
  <2>2. wnd' = WithLast(wnd, n, "insns", DecodeInsns(DecodeBytes(chunk, wnd[n].insl)))
    BY <1>4, <2>1 DEF WithLast
  <2>3. Reached(doc, state', n, wnd', chunk', rest', split')
    BY <1>4, <1>5, <2>1, <2>2
  <2>4. state' \in ParseStates
    BY <2>1 DEF ParseStates
  <2> QED BY <1>1, <1>2, <2>1, <2>3, <2>4, ParsingOn
<1>6. CASE ~Complete(chunk)
  <2>1. Refuse
    BY <1>6 DEF ParseInsns, DecodeBlock
  <2> QED BY <1>4, <1>6, <2>1, Refused
<1>7. CASE Complete(chunk) /\ ~(wnd[n].insl <= Len(chunk))
  <2>1. OverRead
    BY <1>4, <1>7 DEF ParseInsns, DecodeBlock, LastWnd
  <2>2. split = "block"
    BY <1>4, <1>7
  <2> QED BY <1>1, <1>2, <1>3, <2>1, <2>2, OverReadStep
<1> QED BY <1>5, <1>6, <1>7

\* The new bytes are read, or their torn length refused.
LEMMA ParseBytesStep ==
  ASSUME Invariant, ParseBytes
  PROVE  Invariant'
<1>1. state = "bytes" /\ chunk # << >> /\ doc \in Doc /\ split \in Splits
  BY DEF ParseBytes, DecodeBlock, Reads, Invariant, Typed
<1>2. state \in ParseStates
  BY <1>1 DEF ParseStates
<1>3. PICK n : Reached(doc, state, n, wnd, chunk, rest, split)
  BY <1>1, <1>2 DEF Invariant, ParseInv, OutOfStep
<1>4. /\ Len(wnd) = n
      /\ Complete(chunk) /\ wnd[n].newl <= Len(chunk) =>
           Reached(doc, "nwnd", n, WithLast(wnd, n, "new", DecodeBytes(chunk, wnd[n].newl)),
                   Drop(chunk, wnd[n].newl), rest, split)
      /\ ~Complete(chunk) => Torn(split)
      /\ Complete(chunk) /\ wnd[n].newl > Len(chunk) => split = "block"
      /\ wnd[n].newl \in Nat /\ Len(chunk) \in Nat
  BY <1>1, <1>3, BytesStep
<1>5. CASE Complete(chunk) /\ wnd[n].newl <= Len(chunk)
  <2>1. /\ doc' = doc /\ rest' = rest /\ split' = split /\ UNCHANGED buildVars /\ state' = "nwnd"
        /\ wnd' = [wnd EXCEPT ![Len(wnd)].new = DecodeBytes(chunk, wnd[Len(wnd)].newl)]
        /\ chunk' = Drop(chunk, wnd[Len(wnd)].newl)
    BY <1>4, <1>5 DEF ParseBytes, DecodeBlock, sendVars, LastWnd
  <2>2. wnd' = WithLast(wnd, n, "new", DecodeBytes(chunk, wnd[n].newl))
    BY <1>4, <2>1 DEF WithLast
  <2>3. Reached(doc, state', n, wnd', chunk', rest', split')
    BY <1>4, <1>5, <2>1, <2>2
  <2>4. state' \in ParseStates
    BY <2>1 DEF ParseStates
  <2> QED BY <1>1, <1>2, <2>1, <2>3, <2>4, ParsingOn
<1>6. CASE ~Complete(chunk)
  <2>1. Refuse
    BY <1>6 DEF ParseBytes, DecodeBlock
  <2> QED BY <1>4, <1>6, <2>1, Refused
<1>7. CASE Complete(chunk) /\ ~(wnd[n].newl <= Len(chunk))
  <2>1. OverRead
    BY <1>4, <1>7 DEF ParseBytes, DecodeBlock, LastWnd
  <2>2. split = "block"
    BY <1>4, <1>7
  <2> QED BY <1>1, <1>2, <1>3, <2>1, <2>2, OverReadStep
<1> QED BY <1>5, <1>6, <1>7

\* All steps of svndiff_parse_doc.
LEMMA ParseStep ==
  ASSUME Invariant, Parse
  PROVE  Invariant'
<1>1. CASE DecodeVersion
  BY <1>1, DecodeVersionStep
<1>2. CASE NextWindow
  BY <1>2, NextWindowStep
<1>3. CASE ParseInsns
  BY <1>3, ParseInsnsStep
<1>4. CASE ParseBytes
  BY <1>4, ParseBytesStep
<1>5. ASSUME NEW s, NEW s2,
             <<s, s2>> \in {<<"so", "sl">>, <<"sl", "tl">>, <<"tl", "insl">>, <<"insl", "newl">>,
                            <<"newl", "insns">>},
             DecodeNumber(s, s2)
      PROVE  Invariant'
  <2>1. /\ s \in NumberFields /\ s2 \in ParseStates \ {"version"}
        /\ Place(s2) = Place(s) + 1
    <3>1. CASE s = "so" /\ s2 = "sl"
      BY <3>1 DEF NumberFields, ParseStates, Place
    <3>2. CASE s = "sl" /\ s2 = "tl"
      BY <3>2 DEF NumberFields, ParseStates, Place
    <3>3. CASE s = "tl" /\ s2 = "insl"
      BY <3>3 DEF NumberFields, ParseStates, Place
    <3>4. CASE s = "insl" /\ s2 = "newl"
      BY <3>4 DEF NumberFields, ParseStates, Place
    <3>5. CASE s = "newl" /\ s2 = "insns"
      BY <3>5 DEF NumberFields, ParseStates, Place
    <3> QED BY <1>5, <3>1, <3>2, <3>3, <3>4, <3>5
  <2> QED BY <1>5, <2>1, DecodeNumberStep
<1>6. CASE \E f \in {<<"so", "sl">>, <<"sl", "tl">>, <<"tl", "insl">>, <<"insl", "newl">>,
                     <<"newl", "insns">>} : DecodeNumber(f[1], f[2])
  <2>1. PICK f \in {<<"so", "sl">>, <<"sl", "tl">>, <<"tl", "insl">>, <<"insl", "newl">>,
                    <<"newl", "insns">>} : DecodeNumber(f[1], f[2])
    BY <1>6
  <2>2. PICK s, s2 : s = f[1] /\ s2 = f[2]
    OBVIOUS
  <2>3. <<s, s2>> \in {<<"so", "sl">>, <<"sl", "tl">>, <<"tl", "insl">>, <<"insl", "newl">>,
                       <<"newl", "insns">>}
    BY <2>1, <2>2
  <2>4. DecodeNumber(s, s2)
    BY <2>1, <2>2
  <2> QED BY <1>5, <2>3, <2>4
<1> QED BY <1>1, <1>2, <1>3, <1>4, <1>6 DEF Parse

-----------------------------------------------------------------------------
(***************************************************************************)
(* The steps of svndiff_build_tview.                                       *)
(***************************************************************************)
\* The first or the next window is begun, or there is none left.
LEMMA WindowBegun ==
  ASSUME NEW base \in Seq(Octet), NEW o, o \in Seq(Seq(Letter)),
         NEW ws, ws \in Seq(ParsedWindow),
         NEW na, na = (IF Len(o) < Len(ws) THEN ws[Len(o) + 1].tl ELSE 0),
         Len(o) < Len(ws)
  PROVE  /\ Going(Understood(ws[Len(o) + 1]), 0, 0, << >>, na, 0)
         /\ Follows(base, Understood(ws[Len(o) + 1]), 0, 0, << >>, 0)
<1>1. PICK k : k = Len(o) + 1 /\ k \in 1..Len(ws)
  <2>1. Len(o) \in Nat /\ Len(ws) \in Nat
    BY LenProperties
  <2> QED BY <2>1
<1>2. ws[k] \in ParsedWindow
  BY <1>1, ElementOfSeq
<1>3. PICK w : w = Understood(ws[k]) /\ w \in Window /\ w.tl = ws[k].tl
  BY <1>2, UnderstoodIs
<1>4. na = w.tl
  BY <1>1, <1>3
<1>5. Going(w, 0, 0, << >>, na, 0)
  BY <1>3, <1>4, GoingStart
<1>6. Follows(base, w, 0, 0, << >>, 0)
  BY <1>3, FollowsStart
<1> QED BY <1>1, <1>3, <1>5, <1>6

\* At the end of the document every window is parsed.
LEMMA AllParsed ==
  ASSUME NEW d \in Doc, NEW n, NEW w, NEW torn, Reached(d, "nwnd", n, w, << >>, << >>, torn)
  PROVE  w = Windows(d, Len(d.windows), 7)
<1>1. /\ n \in 0..Len(d.windows) /\ w = Windows(d, n, Place("nwnd"))
      /\ Stream(EncDoc(d), << >>, << >>, At("nwnd", n), torn)
  BY DEF Reached
<1>2. PICK F, p : F = EncDoc(d) /\ p = At("nwnd", n)
  OBVIOUS
<1>3. p \in 1..(Len(F) + 1) /\ Len(F) \in Nat /\ (p <= Len(F) <=> n < Len(d.windows))
  <2>1. "nwnd" \in ParseStates
    BY DEF ParseStates
  <2> QED BY <1>1, <1>2, <2>1, AtRange
<1>4. F \in Seq(Seq(Byte)) /\ \A i \in 1..Len(F) : F[i] # << >>
  BY <1>2, DocFields
<1>5. << >> = SubSeq(F, p, Len(F))
  BY <1>1, <1>2, <1>3, <1>4, FieldsToCome
<1>6. p = Len(F) + 1
  <2>1. PICK q : q = Len(F) /\ q \in (p - 1)..Len(F)
    BY <1>3
  <2>2. q # p - 1 => SubSeq(F, p, q) # << >>
    BY <1>3, <1>4, <2>1, SomeFields
  <2>3. q = p - 1
    BY <1>5, <2>1, <2>2
  <2> QED BY <1>3, <2>1, <2>3
<1>7. n = Len(d.windows)
  <2>1. ~(p <= Len(F))
    BY <1>3, <1>6
  <2>2. Len(d.windows) \in Nat
    BY DocFields
  <2> QED BY <1>1, <1>3, <2>1, <2>2
<1> QED BY <1>1, <1>7 DEF Place

\* Building begins with the windows that were sent, or that were read out of step.
LEMMA BeginBuildStep ==
  ASSUME Invariant, BeginBuild
  PROVE  Invariant'
<1>1. /\ state = "nwnd" /\ chunk = << >> /\ rest = << >> /\ state' = "build"
      /\ navail' = (IF wnd = << >> THEN 0 ELSE wnd[1].tl)
      /\ doc' = doc /\ rest' = rest /\ split' = split /\ chunk' = chunk /\ wnd' = wnd
      /\ out' = out /\ insn' = insn /\ copied' = copied /\ view' = view /\ used' = used
  BY DEF BeginBuild, sendVars, parseVars
<1>2. state \in ParseStates /\ doc \in Doc /\ split \in Splits
  BY <1>1 DEF ParseStates, Invariant, Typed
<1>3. /\ out = << >> /\ insn = 0 /\ copied = 0 /\ view = << >> /\ used = 0
      /\ OutOfStep \/ \E n : Reached(doc, state, n, wnd, chunk, rest, split)
  BY <1>2 DEF Invariant, ParseInv
<1>4. wnd \in Seq(ParsedWindow) /\ (split # "block" => AsSent)
  <2>1. CASE OutOfStep
    BY <2>1 DEF OutOfStep
  <2>2. ASSUME NEW n, Reached(doc, state, n, wnd, chunk, rest, split)
        PROVE  wnd \in Seq(ParsedWindow) /\ AsSent
    <3>1. wnd = Windows(doc, Len(doc.windows), 7)
      BY <1>1, <1>2, <2>2, AllParsed
    <3>2. Len(doc.windows) \in 0..Len(doc.windows)
      BY <1>2, DocFields
    <3> QED BY <1>2, <3>1, <3>2, WindowsTyped DEF AsSent
  <2> QED BY <1>3, <2>1, <2>2
<1>5. out \in Seq(Seq(Letter)) /\ Len(out) = 0 /\ Len(wnd) \in Nat /\ doc.base \in Seq(Octet)
  BY <1>2, <1>3, <1>4, WindowsAll, EmptySeq, LenProperties
<1>6. Typed'
  BY <1>1, <1>2 DEF Typed
<1>7. BuildInv'
  <2>1. (Good => OutRight)'
    BY <1>1, <1>3 DEF OutRight
  <2>2. ASSUME Len(out) < Len(wnd)
        PROVE  Underway'
    <3>1. wnd # << >>
      BY <1>5, <2>2
    <3>2. navail' = (IF Len(out) < Len(wnd) THEN wnd[Len(out) + 1].tl ELSE 0)
      <4>1. Len(out) + 1 = 1
        BY <1>5
      <4> QED BY <1>1, <2>2, <3>1, <4>1
    <3>3. PICK base, na : base = doc.base /\ na = navail'
      OBVIOUS
    <3>4. /\ Going(Understood(wnd[Len(out) + 1]), 0, 0, << >>, na, 0)
          /\ Follows(base, Understood(wnd[Len(out) + 1]), 0, 0, << >>, 0)
      BY <1>4, <1>5, <2>2, <3>2, <3>3, WindowBegun
    <3> QED BY <1>1, <1>3, <3>3, <3>4 DEF Underway, Got
  <2>3. AsSent' <=> AsSent
    BY <1>1 DEF AsSent
  <2>4. Len(out) <= Len(wnd)
    BY <1>5
  <2> QED BY <1>1, <1>4, <1>5, <2>1, <2>2, <2>3, <2>4 DEF BuildInv
<1>8. ParseInv' /\ RefusedInv'
  BY <1>1 DEF ParseInv, RefusedInv, ParseStates
<1> QED BY <1>6, <1>7, <1>8 DEF Invariant

\* What the invariant says of the window that is built.
LEMMA BuildFacts ==
  ASSUME Invariant, Building
  PROVE  /\ doc \in Doc /\ split \in Splits /\ state = "build"
         /\ wnd \in Seq(ParsedWindow) /\ (split # "block" => AsSent) /\ LastWnd = Len(wnd)
         /\ out \in Seq(Seq(Letter)) /\ Len(out) \in Nat /\ Len(out) < Len(wnd)
         /\ Got \in Window /\ doc.base \in Seq(Octet)
         /\ TheWindow.so = Got.so /\ TheWindow.tl = Got.tl
         /\ TheWindow.insns = Got.insns /\ TheWindow.new = Got.new
         /\ TheInsn = Ins(Got, insn)
         /\ Going(Got, insn, copied, view, navail, used)
         /\ Good => /\ OutRight /\ Got = doc.windows[Len(out) + 1] /\ WellFormed(doc.base, Got)
                    /\ Follows(doc.base, Got, insn, copied, view, used)
         /\ Good /\ insn < Len(Got.insns) => Ready(doc.base, Got, insn)
<1>1. doc \in Doc /\ split \in Splits /\ state = "build"
  BY DEF Invariant, Typed, Building
<1>2. /\ wnd \in Seq(ParsedWindow) /\ (split # "block" => AsSent)
      /\ out \in Seq(Seq(Letter)) /\ Len(out) <= Len(wnd)
      /\ Good => OutRight
      /\ Len(out) < Len(wnd) => Underway
  BY <1>1 DEF Invariant, BuildInv
<1>3. Len(wnd) \in Nat /\ doc.base \in Seq(Octet)
  BY <1>1, <1>2, WindowsAll, LenProperties
<1>4. Len(out) \in Nat
  BY <1>2, LenProperties
<1>5. Len(out) < Len(wnd)
  BY <1>3 DEF Building, LastWnd
<1>6. PICK k : k = Len(out) + 1 /\ k \in 1..Len(wnd)
  BY <1>3, <1>4, <1>5
<1>7. TheWindow = wnd[k] /\ Got = Understood(wnd[k]) /\ wnd[k] \in ParsedWindow
  BY <1>2, <1>6, ElementOfSeq DEF TheWindow, Got
<1>8. /\ Got \in Window /\ TheWindow.so = Got.so /\ TheWindow.tl = Got.tl
      /\ TheWindow.insns = Got.insns /\ TheWindow.new = Got.new
  BY <1>7, UnderstoodIs
<1>9. TheInsn = Ins(Got, insn)
  BY <1>8 DEF TheInsn, Ins
<1>10. Underway
  BY <1>2, <1>5
<1>11. ASSUME Good PROVE Got = doc.windows[Len(out) + 1] /\ WellFormed(doc.base, Got)
  <2>1. AsSent
    BY <1>2, <1>11 DEF Good
  <2>2. Len(wnd) = Len(doc.windows)
    BY <1>1, <2>1, WindowsAll DEF AsSent
  <2>3. /\ doc.windows[k] \in Window
        /\ wnd[k].so = doc.windows[k].so /\ wnd[k].sl = doc.windows[k].sl
        /\ wnd[k].tl = doc.windows[k].tl
        /\ wnd[k].insns = doc.windows[k].insns /\ wnd[k].new = doc.windows[k].new
    BY <1>1, <1>6, <2>1, <2>2, WindowsAll DEF AsSent
  <2>4. PICK x, y : x = doc.windows[k] /\ y = wnd[k]
    OBVIOUS
  <2>5. Got = doc.windows[k]
    BY <1>7, <2>3, <2>4, UnderstoodSent
  <2>6. WellFormed(doc.base, doc.windows[k])
    BY <1>6, <1>11, <2>2 DEF Good, Valid, WellFormed
  <2> QED BY <1>6, <2>5, <2>6
<1>12. Going(Got, insn, copied, view, navail, used)
  BY <1>10 DEF Underway
<1>13. Good => Follows(doc.base, Got, insn, copied, view, used)
  BY <1>10 DEF Underway
<1>14. insn \in Nat
  <2>1. PICK w : w = Got /\ w \in Window
    BY <1>8
  <2> QED BY <1>12, <2>1, GoingFacts
<1>15. Good /\ insn < Len(Got.insns) => Ready(doc.base, Got, insn)
  BY <1>3, <1>8, <1>11, <1>14 DEF Ready
<1>16. LastWnd = Len(wnd)
  BY DEF LastWnd
<1> HIDE DEF Invariant, Building, Got
<1> QED BY <1>1, <1>2, <1>3, <1>4, <1>5, <1>8, <1>9, <1>11, <1>12, <1>13, <1>15, <1>16

\* A step within a window.
LEMMA BuildingOn ==
  ASSUME Invariant, Building, UNCHANGED <<sendVars, state, parseVars, out>>,
         Going(Got, insn', copied', view', navail', used'),
         Good => Follows(doc.base, Got, insn', copied', view', used')
  PROVE  Invariant'
<1>1. /\ doc' = doc /\ split' = split /\ state' = state /\ wnd' = wnd /\ out' = out
      /\ state = "build"
  BY DEF sendVars, parseVars, Building
<1>2. Typed'
  BY <1>1 DEF Invariant, Typed
<1>3. BuildInv'
  <2>1. /\ wnd \in Seq(ParsedWindow) /\ (split # "block" => AsSent)
        /\ out \in Seq(Seq(Letter)) /\ Len(out) <= Len(wnd)
        /\ Good => OutRight
    BY <1>1 DEF Invariant, BuildInv
  <2>2. (OutRight' <=> OutRight) /\ (AsSent' <=> AsSent) /\ (Good' <=> Good)
    BY <1>1 DEF OutRight, AsSent, Good, Valid
  <2>3. Underway'
    BY <1>1, <2>2 DEF Underway, Got
  <2> QED BY <1>1, <2>1, <2>2, <2>3 DEF BuildInv
<1>4. ParseInv' /\ RefusedInv'
  BY <1>1 DEF ParseInv, RefusedInv, ParseStates
<1> QED BY <1>2, <1>3, <1>4 DEF Invariant

PartOf(s, a, l, p) ==
  a \in Nat /\ l \in Nat /\ a + l <= Len(s) /\ p = SubSeq(s, a + 1, a + l)

\* The bytes a copy takes from the file or from the window.
LEMMA PartFacts ==
  ASSUME NEW s \in Seq(Octet), NEW a, NEW l, NEW p, PartOf(s, a, l, p)
  PROVE  p \in Seq(Letter) /\ Len(p) = l
<1>1. a \in Nat /\ l \in Nat /\ a + l <= Len(s) /\ p = SubSeq(s, a + 1, a + l)
  BY DEF PartOf
<1>2. p \in Seq(Octet) /\ Len(p) = l
  BY <1>1, Part
<1> QED BY <1>2, LetterSeq

\* A check of svndiff_build_tview that fails is for a document nobody may send,
\* or one read out of step.
LEMMA NotMeant ==
  ASSUME Invariant, Refuse, ~Good
  PROVE  Invariant'
BY Refused DEF Good, Torn

\* No instruction of a well-formed window is too long for the view.
LEMMA TooLongStep ==
  ASSUME Invariant, TooLong
  PROVE  Invariant'
<1>1. Building /\ insn < Len(TheWindow.insns) /\ ~(TheInsn.len <= navail) /\ Refuse
  BY DEF TooLong, Fits
<1>2. ASSUME Good PROVE FALSE
  <2>1. Ready(doc.base, Got, insn)
    BY <1>1, <1>2, BuildFacts
  <2>2. /\ Going(Got, insn, copied, view, navail, used)
        /\ Follows(doc.base, Got, insn, copied, view, used)
    BY <1>1, <1>2, BuildFacts
  <2>3. Ins(Got, insn).len <= navail
    BY <2>1, <2>2, StepFacts
  <2>4. TheInsn = Ins(Got, insn)
    BY <1>1, BuildFacts
  <2> QED BY <1>1, <2>3, <2>4
<1> QED BY <1>1, <1>2, NotMeant

\* An instruction is under way, and no byte of it copied.
LEMMA InsnFacts ==
  ASSUME Invariant, Building, insn < Len(TheWindow.insns), NEW b, b = TheInsn
  PROVE  /\ insn < Len(Got.insns) /\ Got.insns[insn + 1] = b /\ Ins(Got, insn) = b
         /\ b.len \in Nat /\ b.offset \in Nat /\ b.code \in Codes
         /\ insn \in Nat /\ copied \in Nat /\ navail \in Nat /\ used \in Nat
         /\ Len(Got.new) \in Nat /\ used <= Len(Got.new) /\ Got.so \in Nat
         /\ Got.new \in Seq(Octet) /\ view \in Seq(Letter) /\ Len(view) \in Nat
         /\ b.code # SVN_TXDELTA_TARGET => copied = 0
         /\ copied > 0 => copied <= b.len /\ b.len <= navail
<1>1. PICK w : w = Got /\ w \in Window
  BY BuildFacts
<1>2. /\ TheWindow.insns = w.insns /\ TheInsn = Ins(w, insn)
      /\ Going(w, insn, copied, view, navail, used)
  BY <1>1, BuildFacts
<1>3. insn < Len(w.insns) /\ w.insns[insn + 1] = b /\ Ins(w, insn) = b
  BY <1>2 DEF Ins
<1>4. /\ b.len \in Nat /\ b.offset \in Nat /\ b.code \in Codes
      /\ insn \in Nat /\ copied \in Nat /\ navail \in Nat /\ used \in Nat
      /\ Len(w.new) \in Nat /\ used <= Len(w.new)
      /\ view \in Seq(Letter) /\ Len(view) \in Nat
  BY <1>1, <1>2, <1>3, GoingFacts
<1>5. w.so \in Nat /\ w.new \in Seq(Octet)
  BY <1>1 DEF Window, Number, Octet
<1>6. copied > 0 => b.code = SVN_TXDELTA_TARGET /\ copied <= b.len /\ b.len <= navail
  BY <1>2, <1>3 DEF Going
<1>7. b.code # SVN_TXDELTA_TARGET => copied = 0
  BY <1>4, <1>6
<1> QED BY <1>1, <1>3, <1>4, <1>5, <1>6, <1>7

\* A source copy, or one past the end of the file.
LEMMA CopySourceStep ==
  ASSUME Invariant, CopySource
  PROVE  Invariant'
<1>1. PICK b, from : b = TheInsn /\ from = TheWindow.so + b.offset
  OBVIOUS
<1>2. /\ Building /\ insn < Len(TheWindow.insns) /\ b.code = SVN_TXDELTA_SOURCE
      /\ b.len <= navail
      /\ IF b.len > 0 /\ from + b.len > Len(doc.base)
           THEN Refuse
           ELSE /\ Carried(SubSeq(doc.base, from + 1, from + b.len))
                /\ UNCHANGED <<sendVars, state, parseVars, out, copied, used>>
  BY <1>1 DEF CopySource, Carries, Fits
<1>3. PICK w, base : w = Got /\ base = doc.base
  OBVIOUS
<1>4. /\ insn < Len(w.insns) /\ w.insns[insn + 1] = b /\ Ins(w, insn) = b
      /\ b.len \in Nat /\ b.offset \in Nat /\ used \in Nat /\ used <= Len(w.new)
      /\ Len(w.new) \in Nat /\ w.so \in Nat /\ navail \in Nat
  BY <1>1, <1>2, <1>3, InsnFacts
<1>5. copied = 0
  <2>1. b.code # SVN_TXDELTA_TARGET
    BY <1>2 DEF SVN_TXDELTA_SOURCE, SVN_TXDELTA_TARGET
  <2> QED BY <1>1, <1>2, <2>1, InsnFacts
<1>6. /\ w \in Window /\ base \in Seq(Octet) /\ from = w.so + b.offset
      /\ Going(w, insn, 0, view, navail, used)
      /\ Good => Ready(base, w, insn) /\ Follows(base, w, insn, 0, view, used)
  BY <1>1, <1>2, <1>3, <1>4, <1>5, BuildFacts
<1>7. PICK p : p = SubSeq(base, from + 1, from + b.len)
  OBVIOUS
<1>8. Good => /\ from + b.len <= Len(base)
                    /\ Follows(base, w, insn + 1, 0, view \o p, used)
  BY <1>2, <1>4, <1>6, <1>7, SourceMeant
<1>9. CASE b.len > 0 /\ from + b.len > Len(base)
  <2>1. Refuse
    BY <1>2, <1>3, <1>9
  <2>2. from \in Nat /\ Len(base) \in Nat
    BY <1>4, <1>6, LenProperties
  <2>3. ~(from + b.len <= Len(base))
    BY <1>4, <1>9, <2>2
  <2> QED BY <1>8, <2>1, <2>3, NotMeant
<1>10. CASE ~(b.len > 0 /\ from + b.len > Len(base))
  <2>1. /\ view' = view \o p /\ navail' = navail - b.len /\ insn' = insn + 1
        /\ UNCHANGED <<sendVars, state, parseVars, out, copied, used>>
    BY <1>1, <1>2, <1>3, <1>7, <1>10 DEF Carried
  <2>2. p \in Seq(Letter) /\ Len(p) = b.len
    <3>1. from \in Nat /\ Len(base) \in Nat
      BY <1>4, <1>6, LenProperties
    <3>2. CASE b.len = 0
      <4>1. from + 0 = from
        BY <3>1
      <4>2. p = SubSeq(base, from + 1, from)
        BY <1>7, <3>2, <4>1
      <4>3. p = << >>
        BY <3>1, <4>2
      <4> QED BY <3>2, <4>3, EmptySeq
    <3>3. CASE b.len # 0
      <4>1. from + b.len <= Len(base)
        BY <1>4, <1>10, <3>1, <3>3
      <4>2. PICK l : l = b.len /\ l \in Nat
        BY <1>4
      <4>3. base \in Seq(Octet) /\ from \in Nat /\ l \in Nat /\ from + l <= Len(base)
        BY <1>6, <3>1, <4>1, <4>2
      <4>4. p = SubSeq(base, from + 1, from + l)
        BY <1>7, <4>2
      <4>5. PartOf(base, from, l, p)
        BY <4>3, <4>4 DEF PartOf
      <4>6. p \in Seq(Letter) /\ Len(p) = l
        BY <4>3, <4>5, PartFacts
      <4> QED BY <4>2, <4>6
    <3> QED BY <3>2, <3>3
  <2>3. Going(w, insn + 1, 0, view \o p, navail - b.len, used)
    <3>1. used \in 0..Len(w.new)
      BY <1>4
    <3> QED BY <1>2, <1>4, <1>6, <2>2, <3>1, GoingWhole
  <2>4. /\ Going(Got, insn', copied', view', navail', used')
        /\ Good => Follows(doc.base, Got, insn', copied', view', used')
    BY <1>3, <1>5, <1>8, <2>1, <2>3
  <2> QED BY <1>2, <2>1, <2>4, BuildingOn
<1> QED BY <1>9, <1>10

\* A copy of new bytes, or of more than there are.
LEMMA CopyNewStep ==
  ASSUME Invariant, CopyNew
  PROVE  Invariant'
<1>1. PICK b : b = TheInsn
  OBVIOUS
<1>2. /\ Building /\ insn < Len(TheWindow.insns) /\ b.code = SVN_TXDELTA_NEW
      /\ b.len <= navail
      /\ IF Len(TheWindow.new) - used < b.len
           THEN Refuse
           ELSE /\ Carried(SubSeq(TheWindow.new, used + 1, used + b.len))
                /\ used' = used + b.len
                /\ UNCHANGED <<sendVars, state, parseVars, out, copied>>
  BY <1>1 DEF CopyNew, Carries, Fits
<1>3. PICK w, base : w = Got /\ base = doc.base
  OBVIOUS
<1>4. /\ insn < Len(w.insns) /\ w.insns[insn + 1] = b /\ Ins(w, insn) = b
      /\ b.len \in Nat /\ b.offset \in Nat /\ used \in Nat /\ used <= Len(w.new)
      /\ Len(w.new) \in Nat /\ w.new \in Seq(Octet) /\ navail \in Nat
  BY <1>1, <1>2, <1>3, InsnFacts
<1>5. copied = 0
  <2>1. b.code # SVN_TXDELTA_TARGET
    BY <1>2 DEF SVN_TXDELTA_NEW, SVN_TXDELTA_TARGET
  <2> QED BY <1>1, <1>2, <2>1, InsnFacts
<1>6. /\ w \in Window /\ TheWindow.new = w.new
      /\ Going(w, insn, 0, view, navail, used)
      /\ Good => Ready(base, w, insn) /\ Follows(base, w, insn, 0, view, used)
  BY <1>1, <1>2, <1>3, <1>4, <1>5, BuildFacts
<1>7. PICK p : p = SubSeq(w.new, used + 1, used + b.len)
  OBVIOUS
<1>8. Good => /\ b.len <= Len(w.new) - used
                    /\ Follows(base, w, insn + 1, 0, view \o p, used + b.len)
  BY <1>2, <1>4, <1>6, <1>7, NewMeant
<1>9. CASE Len(w.new) - used < b.len
  <2>1. Refuse
    BY <1>2, <1>6, <1>9
  <2>2. ~(b.len <= Len(w.new) - used)
    BY <1>4, <1>9
  <2> QED BY <1>8, <2>1, <2>2, NotMeant
<1>10. CASE ~(Len(w.new) - used < b.len)
  <2>1. /\ view' = view \o p /\ navail' = navail - b.len /\ insn' = insn + 1
        /\ used' = used + b.len /\ copied' = copied
        /\ UNCHANGED <<sendVars, state, parseVars, out>>
    BY <1>1, <1>2, <1>6, <1>7, <1>10 DEF Carried
  <2>2. PICK l : l = b.len /\ l \in Nat /\ used + l <= Len(w.new) /\ used + l \in 0..Len(w.new)
    <3>1. PICK l, e : l = b.len /\ e = Len(w.new) /\ l \in Nat /\ e \in Nat /\ used \in Nat
      BY <1>4
    <3>2. ~(e - used < l)
      BY <1>10, <3>1
    <3>3. used + l <= e /\ used + l \in 0..e
      BY <3>1, <3>2
    <3> QED BY <3>1, <3>3
  <2>3. p \in Seq(Letter) /\ Len(p) = b.len
    <3>1. PICK s : s = w.new /\ s \in Seq(Octet) /\ used + l <= Len(s) /\ p = SubSeq(s, used + 1, used + l)
      BY <1>4, <1>7, <2>2
    <3>2. used \in Nat /\ l \in Nat
      BY <1>4, <2>2
    <3>3. PartOf(s, used, l, p)
      BY <3>1, <3>2 DEF PartOf
    <3>4. s \in Seq(Octet)
      BY <3>1
    <3>5. p \in Seq(Letter) /\ Len(p) = l
      BY <3>3, <3>4, PartFacts
    <3> QED BY <2>2, <3>5
  <2>4. Going(w, insn + 1, 0, view \o p, navail - b.len, used + b.len)
    <3>1. used + b.len \in 0..Len(w.new)
      BY <2>2
    <3> QED BY <1>2, <1>4, <1>6, <2>3, <3>1, GoingWhole
  <2>5. /\ Going(Got, insn', copied', view', navail', used')
        /\ Good => Follows(doc.base, Got, insn', copied', view', used')
    BY <1>3, <1>5, <1>8, <2>1, <2>4
  <2> QED BY <1>2, <2>1, <2>5, BuildingOn
<1> QED BY <1>9, <1>10

\* A code that is not known.
LEMMA UnknownCodeStep ==
  ASSUME Invariant, UnknownCode
  PROVE  Invariant'
<1>1. /\ Building /\ insn < Len(TheWindow.insns) /\ TheInsn.code = 3 /\ Refuse
  BY DEF UnknownCode, Carries
<1>2. ASSUME Good PROVE FALSE
  <2>1. /\ Ready(doc.base, Got, insn) /\ TheInsn = Ins(Got, insn)
    BY <1>1, <1>2, BuildFacts
  <2>2. Ins(Got, insn).code # 3
    BY <2>1, CodeKnown
  <2> QED BY <1>1, <2>1, <2>2
<1> QED BY <1>1, <1>2, NotMeant

\* A target copy is refused, copies a byte, or is done.
LEMMA CopyTargetStep ==
  ASSUME Invariant, CopyTarget
  PROVE  Invariant'
<1>1. PICK b, from : b = TheInsn /\ from = TheInsn.offset + copied + 1
  OBVIOUS
<1>2. Building /\ insn < Len(TheWindow.insns) /\ b.code = SVN_TXDELTA_TARGET
  BY <1>1 DEF CopyTarget, Carries
<1>3. PICK w, base : w = Got /\ base = doc.base
  OBVIOUS
<1>4. /\ insn < Len(w.insns) /\ w.insns[insn + 1] = b /\ Ins(w, insn) = b
      /\ b.len \in Nat /\ b.offset \in Nat /\ copied \in Nat /\ navail \in Nat
      /\ view \in Seq(Letter) /\ Len(view) \in Nat
      /\ copied > 0 => copied <= b.len /\ b.len <= navail
  BY <1>1, <1>2, <1>3, InsnFacts
<1>5. /\ w \in Window /\ TheWindow.tl = w.tl
      /\ Going(w, insn, copied, view, navail, used)
      /\ Good => Ready(base, w, insn) /\ Follows(base, w, insn, copied, view, used)
  BY <1>1, <1>2, <1>3, <1>4, BuildFacts
<1>6. CASE copied = 0 /\ Fits /\ ~TargetInRange /\ Refuse
  <2>1. ASSUME Good PROVE FALSE
    <3>1. b.offset + b.len < w.tl
      BY <1>2, <1>4, <1>5, <2>1, TargetMeant
    <3> QED BY <1>1, <1>5, <1>6, <3>1 DEF TargetInRange
  <2> QED BY <1>6, <2>1, NotMeant
<1>7. CASE /\ copied > 0 \/ (Fits /\ TargetInRange)
           /\ copied < b.len
           /\ view' = Append(view, IF from <= Len(view) THEN view[from] ELSE Garbage)
           /\ copied' = copied + 1
           /\ UNCHANGED <<sendVars, state, parseVars, out, insn, navail, used>>
  <2>1. PICK x : x = IF from <= Len(view) THEN view[from] ELSE Garbage
    OBVIOUS
  <2>2. from \in Nat /\ from >= 1 /\ from = b.offset + copied + 1
    BY <1>1, <1>4
  <2>3. x \in Letter
    <3>1. CASE from <= Len(view)
      <4>1. from \in 1..Len(view)
        BY <1>4, <2>2, <3>1
      <4>2. view[from] \in Letter
        BY <1>4, <4>1, ElementOfSeq
      <4> QED BY <2>1, <3>1, <4>2
    <3>2. CASE ~(from <= Len(view))
      BY <2>1, <3>2 DEF Letter
    <3> QED BY <3>1, <3>2
  <2>4. copied > 0 \/ b.len <= navail
    BY <1>1, <1>7 DEF Fits
  <2>5. Going(w, insn, copied + 1, Append(view, x), navail, used)
    BY <1>2, <1>4, <1>5, <1>7, <2>3, <2>4, GoingByte
  <2>6. ASSUME Good PROVE Follows(base, w, insn, copied + 1, Append(view, x), used)
    <3>1. /\ from <= Len(view)
          /\ Follows(base, w, insn, copied + 1, Append(view, view[from]), used)
      BY <1>2, <1>4, <1>5, <1>7, <2>2, <2>6, TargetByte
    <3> QED BY <2>1, <3>1
  <2>7. /\ Going(Got, insn', copied', view', navail', used')
        /\ Good => Follows(doc.base, Got, insn', copied', view', used')
    BY <1>3, <1>7, <2>1, <2>5, <2>6
  <2> QED BY <1>2, <1>7, <2>7, BuildingOn
<1>8. CASE /\ copied = b.len
           /\ copied > 0 \/ TargetInRange
           /\ Carried(<< >>)
           /\ copied' = 0
           /\ UNCHANGED <<sendVars, state, parseVars, out, used>>
  <2>1. view' = view \o << >> /\ navail' = navail - b.len /\ insn' = insn + 1
    BY <1>1, <1>8 DEF Carried
  <2>2. Going(w, insn + 1, 0, view \o << >>, navail - b.len, used)
    BY <1>4, <1>5, <1>8, GoingOn
  <2>3. Good => Follows(base, w, insn + 1, 0, view \o << >>, used)
    BY <1>2, <1>4, <1>5, <1>8, TargetEnd
  <2>4. /\ Going(Got, insn', copied', view', navail', used')
        /\ Good => Follows(doc.base, Got, insn', copied', view', used')
    BY <1>3, <1>8, <2>1, <2>2, <2>3
  <2> QED BY <1>2, <1>8, <2>4, BuildingOn
<1> QED BY <1>1, <1>6, <1>7, <1>8 DEF CopyTarget

\* A view is done, and is what the encoder meant.
LEMMA FinishWindowStep ==
  ASSUME Invariant, FinishWindow
  PROVE  Invariant'
<1>1. PICK fill, o : fill = [i \in 1..navail |-> Garbage] /\ o = Append(out, view \o fill)
  OBVIOUS
<1>2. /\ Building /\ insn = Len(TheWindow.insns) /\ out' = o
      /\ insn' = 0 /\ view' = << >> /\ used' = 0
      /\ navail' = (IF Len(o) < LastWnd THEN wnd[Len(o) + 1].tl ELSE 0)
      /\ doc' = doc /\ split' = split /\ state' = state /\ wnd' = wnd /\ copied' = copied
  BY <1>1 DEF FinishWindow, sendVars, parseVars
<1>3. PICK w : w = Got
  OBVIOUS
<1>4. /\ doc \in Doc /\ split \in Splits /\ state = "build"
      /\ wnd \in Seq(ParsedWindow) /\ (split # "block" => AsSent) /\ LastWnd = Len(wnd)
      /\ out \in Seq(Seq(Letter)) /\ Len(out) \in Nat /\ Len(out) < Len(wnd)
      /\ w \in Window /\ doc.base \in Seq(Octet) /\ insn = Len(w.insns)
      /\ Going(w, insn, copied, view, navail, used)
  BY <1>2, <1>3, BuildFacts
<1>5. Good => /\ OutRight /\ w = doc.windows[Len(out) + 1] /\ WellFormed(doc.base, w)
                    /\ Follows(doc.base, w, insn, copied, view, used)
  BY <1>2, <1>3, BuildFacts
<1>6. copied = 0 /\ navail \in Nat /\ view \in Seq(Letter)
  <2>1. copied \in Nat /\ navail \in Nat /\ view \in Seq(Letter) /\ Len(w.insns) \in Nat
    BY <1>4, GoingFacts
  <2>2. copied > 0 => insn < Len(w.insns)
    BY <1>4 DEF Going
  <2> QED BY <1>4, <2>1, <2>2
<1>7. PICK last : /\ last = view \o fill /\ last \in Seq(Letter)
                  /\ navail = 0 => last = view
  BY <1>1, <1>6, Filled
<1>8. Good => last = Meant(doc.base, w).text
  BY <1>4, <1>5, <1>7, WindowEnd
<1>9. /\ o \in Seq(Seq(Letter)) /\ Len(o) = Len(out) + 1 /\ o[Len(out) + 1] = last
      /\ \A k \in 1..Len(out) : o[k] = out[k]
  <2>1. out \in Seq(Seq(Letter)) /\ last \in Seq(Letter) /\ o = Append(out, last)
    BY <1>1, <1>4, <1>7
  <2> QED BY <2>1, AppendProperties
<1>10. Len(wnd) \in Nat
  BY <1>4, LenProperties
<1>11. Len(o) <= Len(wnd)
  BY <1>4, <1>9, <1>10
<1>12. Typed'
  BY <1>2, <1>4 DEF Typed
<1>13. (Good => OutRight)'
  <2>1. SUFFICES ASSUME Good, NEW k \in 1..Len(o)
                 PROVE  o[k] = Meant(doc.base, doc.windows[k]).text
    <3>1. Good' <=> Good
      BY <1>2 DEF Good, Valid
    <3> QED BY <1>2, <3>1 DEF OutRight
  <2>2. CASE k \in 1..Len(out)
    BY <1>5, <1>9, <2>1, <2>2 DEF OutRight
  <2>3. CASE k = Len(out) + 1
    <3>1. doc.windows[k] = w
      BY <1>5, <2>1, <2>3
    <3> QED BY <1>8, <1>9, <2>1, <2>3, <3>1
  <2> QED BY <1>4, <1>9, <2>2, <2>3
<1>14. ASSUME Len(o) < Len(wnd)
       PROVE  Underway'
  <2>1. PICK na : na = navail' /\ na = (IF Len(o) < Len(wnd) THEN wnd[Len(o) + 1].tl ELSE 0)
    BY <1>2, <1>4
  <2>2. PICK base : base = doc.base
    OBVIOUS
  <2>3. /\ Going(Understood(wnd[Len(o) + 1]), 0, 0, << >>, na, 0)
        /\ Follows(base, Understood(wnd[Len(o) + 1]), 0, 0, << >>, 0)
    BY <1>4, <1>9, <1>14, <2>1, <2>2, WindowBegun
  <2> QED BY <1>2, <1>6, <2>1, <2>2, <2>3 DEF Underway, Got
<1>15. BuildInv'
  <2>1. AsSent' <=> AsSent
    BY <1>2 DEF AsSent
  <2> QED BY <1>2, <1>4, <1>9, <1>11, <1>13, <1>14, <2>1 DEF BuildInv
<1>16. ParseInv' /\ RefusedInv'
  BY <1>2, <1>4 DEF ParseInv, RefusedInv, ParseStates
<1> QED BY <1>12, <1>15, <1>16 DEF Invariant

\* Nothing happens.
LEMMA Stuttering ==
  ASSUME Invariant, UNCHANGED vars
  PROVE  Invariant'
<1>1. /\ doc' = doc /\ rest' = rest /\ split' = split /\ state' = state /\ chunk' = chunk
      /\ wnd' = wnd /\ out' = out /\ insn' = insn /\ copied' = copied /\ view' = view
      /\ navail' = navail /\ used' = used
  BY DEF vars, sendVars, parseVars, buildVars
<1>2. Typed' /\ RefusedInv'
  BY <1>1 DEF Invariant, Typed, RefusedInv, Torn, Valid
<1>3. ParseInv'
  BY <1>1 DEF Invariant, ParseInv, OutOfStep
<1>4. BuildInv'
  <2>1. (Good' <=> Good) /\ (AsSent' <=> AsSent) /\ (OutRight' <=> OutRight) /\ Got' = Got
    BY <1>1 DEF Good, Valid, AsSent, OutRight, Got
  <2>2. Underway' <=> Underway
    BY <1>1, <2>1 DEF Underway
  <2> QED BY <1>1, <2>1, <2>2 DEF Invariant, BuildInv
<1> QED BY <1>2, <1>3, <1>4 DEF Invariant

\* Every step keeps the invariant.
LEMMA StepInvariant ==
  ASSUME Invariant, [Next]_vars
  PROVE  Invariant'
<1>1. CASE ReceiveChunk
  BY <1>1, ReceiveChunkStep
<1>2. CASE Parse
  BY <1>2, ParseStep
<1>3. CASE Build
  <2>1. CASE BeginBuild
    BY <2>1, BeginBuildStep
  <2>2. CASE TooLong
    BY <2>2, TooLongStep
  <2>3. CASE CopySource
    BY <2>3, CopySourceStep
  <2>4. CASE CopyNew
    BY <2>4, CopyNewStep
  <2>5. CASE CopyTarget
    BY <2>5, CopyTargetStep
  <2>6. CASE UnknownCode
    BY <2>6, UnknownCodeStep
  <2>7. CASE FinishWindow
    BY <2>7, FinishWindowStep
  <2> QED BY <1>3, <2>1, <2>2, <2>3, <2>4, <2>5, <2>6, <2>7 DEF Build
<1>4. CASE Done
  BY <1>4, Stuttering DEF Done
<1>5. CASE UNCHANGED vars
  BY <1>5, Stuttering
<1> QED BY <1>1, <1>2, <1>3, <1>4, <1>5 DEF Next

\* The invariant of the parser and of the builder always holds.
LEMMA Inductive == Spec => []Invariant
<1>1. Init => Invariant
  BY InitInvariant
<1>2. Invariant /\ [Next]_vars => Invariant'
  BY StepInvariant
<1> QED BY <1>1, <1>2, PTL DEF Spec

\* All windows parsed are the windows sent.
LEMMA InvariantParsed ==
  ASSUME Invariant
  PROVE  ParsedRight
<1>1. ASSUME state = "build", split # "block"
      PROVE  /\ Len(wnd) = Len(doc.windows)
             /\ \A k \in 1..Len(wnd) :
                  /\ wnd[k].so = doc.windows[k].so /\ wnd[k].sl = doc.windows[k].sl
                  /\ wnd[k].tl = doc.windows[k].tl /\ wnd[k].insns = doc.windows[k].insns
                  /\ wnd[k].new = doc.windows[k].new
  <2>1. doc \in Doc /\ wnd = Windows(doc, Len(doc.windows), 7)
    BY <1>1 DEF Invariant, Typed, BuildInv, AsSent
  <2> QED BY <2>1, WindowsAll
<1> QED BY <1>1 DEF ParsedRight

\* However the document is cut into chunks that do not end within a block, what
\* svndiff_parse_doc has parsed at its end are the windows that were sent, field for
\* field.
THEOREM ParsedRightCorrect == Spec => []ParsedRight
<1>1. Invariant => ParsedRight
  BY InvariantParsed
<1> QED BY <1>1, Inductive, PTL

\* No check of the parser or of svndiff_build_tview stops a document an encoder may
\* send, unless a chunk has ended within a field.
THEOREM NotRefusedCorrect == Spec => []NotRefused
<1>1. Invariant => NotRefused
  BY DEF Invariant, RefusedInv, NotRefused, Typed, Torn
<1> QED BY <1>1, Inductive, PTL

\* The target views are the texts the encoder meant, if no chunk has ended within a
\* block.
THEOREM BuiltRightCorrect == Spec => []BuiltRight
<1>1. Invariant => BuiltRight
  <2>1. ASSUME Invariant, Built, Good PROVE OutRight
    BY <2>1 DEF Invariant, BuildInv, Built
  <2> QED BY <2>1 DEF OutRight, BuiltRight, Good
<1> QED BY <1>1, Inductive, PTL

\* The counts of Going keep the view within tview_len.
LEMMA InvariantInBounds ==
  ASSUME Invariant
  PROVE  InBounds
<1>1. ASSUME Building
      PROVE  /\ Len(view) <= TheWindow.tl
             /\ Len(view) + navail = TheWindow.tl + copied
             /\ used <= Len(TheWindow.new)
  <2>1. PICK w : /\ w = Got /\ w \in Window /\ TheWindow.tl = w.tl /\ TheWindow.new = w.new
                 /\ Going(w, insn, copied, view, navail, used)
    BY <1>1, BuildFacts
  <2>2. /\ copied \in Nat /\ navail \in Nat /\ used <= Len(w.new) /\ w.tl \in Nat
        /\ Len(view) \in Nat
    BY <2>1, GoingFacts
  <2>3. Len(view) + navail = w.tl + copied /\ copied <= navail
    BY <2>1 DEF Going
  <2>4. PICK e, tl : e = Len(view) /\ tl = w.tl
    OBVIOUS
  <2>5. e \in Nat /\ tl \in Nat /\ e + navail = tl + copied /\ copied <= navail
    BY <2>2, <2>3, <2>4
  <2>6. e <= tl
    BY <2>2, <2>5
  <2> QED BY <2>1, <2>2, <2>3, <2>4, <2>6
<1> QED BY <1>1 DEF InBounds

\* Whatever the windows are, corrupt or read out of step, as long as their numbers are
\* no greater than Number allows, svndiff_build_tview writes nothing past the target
\* view and reads nothing past the bytes of the window.
THEOREM InBoundsCorrect == Spec => []InBounds
<1>1. Invariant => InBounds
  BY InvariantInBounds
<1> QED BY <1>1, Inductive, PTL

============================================================================
