---------------------------- MODULE Http_proofs ----------------------------
(***************************************************************************)
(* Theorems about HttpSession, for every set of files and any number of    *)
(* connections that end and of requests that are refused.                  *)
(***************************************************************************)
EXTENDS HttpSession, SequenceTheorems, WellFoundedInduction, TLAPS

-----------------------------------------------------------------------------
(***************************************************************************)
(* The answers the server can give, and where in them is what.             *)
(***************************************************************************)
Opening == {Asking(w, NoFile) : w \in {"OPTIONS", "CHECK", "REPORT"}}
Filing == {Asking(w, f) : w \in {"PROPFIND", "GET"}, f \in File}
Made == Opening \cup Filing

Answers == [req : Made, how : {"length", "whole", "pieces", "refusal"}]
Refused(a) == a.how = "refusal"
Sent(a) == IF Refused(a) THEN Refusal(a.req) ELSE Answer(a.req, a.how)
Size(a) == Len(Sent(a))

Status(a) == IF Refused(a) THEN 404 ELSE StatusOf(a.req)
BodyOf(a) == IF Refused(a) THEN <<Data("error", 1, a.req)>> ELSE Body(a.req)
Chunked(a) == a.how \in {"whole", "pieces"}

\* Header lines before the one that tells how the body comes; what is before it.
Extra(a) == IF ~Refused(a) /\ a.req.what = "OPTIONS" THEN 2 ELSE 0
Before(a) == 8 + 3 * Extra(a)

\* After t symbols of the body: how far the next chunk is, and how long.
Stops(a) == IF a.how = "whole" THEN {0, Len(BodyOf(a))} ELSE 0..Len(BodyOf(a))
ChunkAt(a, t) ==
  IF a.how = "pieces" THEN 6 * t ELSE IF t = 0 THEN 0 ELSE Len(BodyOf(a)) + 5
ChunkLen(a, t) ==
  IF t = Len(BodyOf(a)) THEN 0 ELSE IF a.how = "pieces" THEN 1 ELSE Len(BodyOf(a))

Names == HeaderNames \cup {"status", "size", "cr", "lf", "error", "collection", "element", "prop"}
Symbol == [is : Names, val : Nat, for : Made]

\* Any but the one an answer begins with.
Inner == {s \in Symbol : s.is # "status"}

ReportTyped == report \in Seq(File)

-----------------------------------------------------------------------------
LEMMA MadeFacts ==
  ASSUME NEW q \in Made
  PROVE  /\ q.what \in Requests /\ q.file \in File \cup {NoFile} /\ q \in Request
         /\ q = Asking(q.what, q.file)
         /\ q.what \in {"PROPFIND", "GET"} <=> q.file # NoFile
  BY NoFileAssumption DEF Made, Opening, Filing, Asking, Requests, Request

LEMMA SymIs ==
  ASSUME NEW s, NEW v, NEW q
  PROVE  Sym(s, v, q).is = s /\ Sym(s, v, q).val = v /\ Sym(s, v, q).for = q
  BY DEF Sym

LEMMA SymTyped ==
  ASSUME NEW s \in Names, NEW v \in Nat, NEW q \in Made
  PROVE  Sym(s, v, q) \in Symbol
  BY DEF Sym, Symbol

LEMMA LineFacts ==
  ASSUME NEW s \in Names, NEW v \in Nat, NEW q \in Made
  PROVE  /\ Line(Sym(s, v, q)) \in Seq(Symbol) /\ Len(Line(Sym(s, v, q))) = 3
         /\ Line(Sym(s, v, q))[1] = Sym(s, v, q)
         /\ Line(Sym(s, v, q))[2].is = "cr" /\ Line(Sym(s, v, q))[3].is = "lf"
         /\ EndOfLine(q) \in Seq(Symbol) /\ Len(EndOfLine(q)) = 2
         /\ EndOfLine(q)[1].is = "cr" /\ EndOfLine(q)[2].is = "lf"
         /\ EndOfLine(q) \in Seq(Inner)
         /\ s # "status" => Line(Sym(s, v, q)) \in Seq(Inner)
  <1> DEFINE x == Sym(s, v, q)  c == Sym("cr", 0, q)  l == Sym("lf", 0, q)
  <1>0. "cr" \in Names /\ "lf" \in Names /\ 0 \in Nat
    BY DEF Names
  <1>1. x \in Symbol /\ c \in Symbol /\ l \in Symbol
    BY <1>0, SymTyped
  <1>6. x.for = q /\ c.is = "cr" /\ l.is = "lf" /\ x.is = s
    BY SymIs
  <1>7. c \in Inner /\ l \in Inner /\ (s # "status" => x \in Inner)
    BY <1>1, <1>6 DEF Inner
  <1>2. Line(x) = <<x, c, l>> /\ EndOfLine(q) = <<c, l>>
    BY <1>6 DEF Line, EndOfLine
  <1> HIDE DEF x, c, l
  <1>3. <<x, c, l>> \in Seq(Symbol) /\ <<c, l>> \in Seq(Symbol)
    BY <1>1
  <1>4. Line(x) \in Seq(Symbol) /\ Len(Line(x)) = 3 /\ Line(x)[1] = x
        /\ Line(x)[2].is = "cr" /\ Line(x)[3].is = "lf"
    BY <1>1, <1>2, <1>3, <1>6
  <1>5. EndOfLine(q) \in Seq(Symbol) /\ Len(EndOfLine(q)) = 2
        /\ EndOfLine(q)[1].is = "cr" /\ EndOfLine(q)[2].is = "lf"
    BY <1>1, <1>2, <1>3, <1>6
  <1>8. EndOfLine(q) \in Seq(Inner) /\ (s # "status" => Line(x) \in Seq(Inner))
    BY <1>2, <1>7
  <1> QED BY <1>4, <1>5, <1>8 DEF x

\* Two sequences, one after the other.
LEMMA Joined ==
  ASSUME NEW S, NEW s \in Seq(S), NEW t \in Seq(S)
  PROVE  /\ s \o t \in Seq(S) /\ Len(s) \in Nat /\ Len(t) \in Nat
         /\ Len(s \o t) = Len(s) + Len(t)
         /\ \A i \in 1..Len(s) : (s \o t)[i] = s[i]
         /\ \A i \in 1..Len(t) : (s \o t)[Len(s) + i] = t[i]
  <1>1. Len(s) \in Nat /\ Len(t) \in Nat
    OBVIOUS
  <1>2. ASSUME NEW i \in 1..Len(t) PROVE (s \o t)[Len(s) + i] = t[i]
    <2>1. Len(s) + i \in 1..Len(s) + Len(t) /\ ~(Len(s) + i <= Len(s)) /\ Len(s) + i - Len(s) = i
      BY <1>1
    <2> QED BY <2>1, ConcatProperties
  <1>3. ASSUME NEW i \in 1..Len(s) PROVE (s \o t)[i] = s[i]
    BY <1>1, ConcatProperties
  <1> QED BY <1>1, <1>2, <1>3, ConcatProperties

LEMMA BodyTyped ==
  ASSUME ReportTyped, NEW a \in Answers
  PROVE  /\ BodyOf(a) \in Seq(Inner)
         /\ \A i \in 1..Len(BodyOf(a)) : BodyOf(a)[i].for = a.req
         /\ Len(BodyOf(a)) = 0 => ~Refused(a) /\ a.req.what = "OPTIONS"
         /\ ~Refused(a) /\ a.req.what = "OPTIONS" => BodyOf(a) = <<>>
         /\ ~Refused(a) /\ a.req.what = "REPORT" => Len(BodyOf(a)) = Len(report) + 1
  <1>1. a.req \in Made /\ a.req.what \in Requests
    BY MadeFacts DEF Answers
  <1>2. Len(report) \in Nat
    BY DEF ReportTyped
  <1> DEFINE q == a.req
  <1>3. \A s \in Names \ {"status"} : \A v \in Nat : Data(s, v, q) \in Inner /\ Data(s, v, q).for = q
    BY <1>1, SymTyped, SymIs DEF Data, Inner
  <1>4. {"error", "collection", "element", "prop", "cr", "lf"} \subseteq Names \ {"status"}
    BY DEF Names
  <1> HIDE DEF q
  <1>5. ASSUME NEW x \in Inner, x.for = q
        PROVE  <<x>> \in Seq(Inner) /\ Len(<<x>>) = 1 /\ \A i \in 1..1 : <<x>>[i].for = q
    BY <1>5
  <1>6. CASE Refused(a)
    <2>1. BodyOf(a) = <<Data("error", 1, q)>>
      BY <1>6 DEF BodyOf, q
    <2> QED BY <1>3, <1>4, <1>5, <1>6, <2>1 DEF q
  <1>7. CASE ~Refused(a) /\ q.what \in {"CHECK", "PROPFIND"}
    <2>1. BodyOf(a) \in {<<Data("collection", 1, q)>>, <<Data("prop", 1, q)>>}
      BY <1>7 DEF BodyOf, q, Body
    <2>3. PICK s \in {"collection", "prop"} : BodyOf(a) = <<Data(s, 1, q)>>
      BY <2>1
    <2>4. Data(s, 1, q) \in Inner /\ Data(s, 1, q).for = q
      BY <1>3, <1>4
    <2>2. BodyOf(a) \in Seq(Inner) /\ Len(BodyOf(a)) = 1 /\ \A i \in 1..1 : BodyOf(a)[i].for = q
      BY <1>5, <2>3, <2>4
    <2> QED BY <1>7, <2>2 DEF q
  <1>8. CASE ~Refused(a) /\ q.what = "GET"
    <2>1. BodyOf(a) = <<Data("cr", 1, q), Data("lf", 2, q)>>
      BY <1>8 DEF BodyOf, q, Body
    <2>2. BodyOf(a) \in Seq(Inner) /\ Len(BodyOf(a)) = 2 /\ \A i \in 1..2 : BodyOf(a)[i].for = q
      BY <1>3, <1>4, <2>1
    <2> QED BY <1>8, <2>2 DEF q
  <1>9. CASE ~Refused(a) /\ q.what = "REPORT"
    <2>1. BodyOf(a) = [i \in 1..(Len(report) + 1) |-> Data("element", i, q)]
      BY <1>9 DEF BodyOf, q, Body
    <2>2. \A i \in 1..(Len(report) + 1) : Data("element", i, q) \in Inner /\ Data("element", i, q).for = q
      BY <1>2, <1>3, <1>4
    <2>3. BodyOf(a) \in Seq(Inner) /\ Len(BodyOf(a)) = Len(report) + 1
          /\ \A i \in 1..Len(report) + 1 : BodyOf(a)[i].for = q
      BY <1>2, <2>1, <2>2
    <2> QED BY <1>2, <1>9, <2>3 DEF q
  <1>10. CASE ~Refused(a) /\ q.what = "OPTIONS"
    <2>1. BodyOf(a) = <<>>
      BY <1>10 DEF BodyOf, q, Body
    <2> QED BY <1>10, <2>1 DEF q
  <1> QED BY <1>1, <1>6, <1>7, <1>8, <1>9, <1>10 DEF q, Requests

\* One chunk: its length on a line, its data, and the end of a line.
LEMMA ChunkFacts ==
  ASSUME NEW d \in Seq(Inner), NEW q \in Made
  PROVE  /\ Chunk(d, q) \in Seq(Inner) /\ Len(Chunk(d, q)) = Len(d) + 5
         /\ Chunk(d, q)[1] = Sym("size", Len(d), q)
         /\ Chunk(d, q)[2].is = "cr" /\ Chunk(d, q)[3].is = "lf"
         /\ \A i \in 1..Len(d) : Chunk(d, q)[3 + i] = d[i]
         /\ Chunk(d, q)[Len(d) + 4].is = "cr" /\ Chunk(d, q)[Len(d) + 5].is = "lf"
  <1> DEFINE l == Line(Sym("size", Len(d), q))  e == EndOfLine(q)
  <1>1. Len(d) \in Nat
    OBVIOUS
  <1>2. /\ l \in Seq(Inner) /\ Len(l) = 3 /\ l[1] = Sym("size", Len(d), q)
        /\ l[2].is = "cr" /\ l[3].is = "lf"
        /\ e \in Seq(Inner) /\ Len(e) = 2 /\ e[1].is = "cr" /\ e[2].is = "lf"
    BY <1>1, LineFacts DEF Names
  <1>3. Chunk(d, q) = (l \o d) \o e
    BY DEF Chunk
  <1> HIDE DEF l, e
  <1>4. /\ l \o d \in Seq(Inner) /\ Len(l \o d) = 3 + Len(d)
        /\ \A i \in 1..3 : (l \o d)[i] = l[i]
        /\ \A i \in 1..Len(d) : (l \o d)[3 + i] = d[i]
    <2>1. /\ l \o d \in Seq(Inner) /\ Len(l \o d) = Len(l) + Len(d)
          /\ \A i \in 1..Len(l) : (l \o d)[i] = l[i]
          /\ \A i \in 1..Len(d) : (l \o d)[Len(l) + i] = d[i]
      <3>1. l \in Seq(Inner)
        BY <1>2
      <3> QED BY <3>1, Joined
    <2> QED BY <1>2, <2>1
  <1> DEFINE m == l \o d
  <1> HIDE DEF m
  <1>5. /\ m \o e \in Seq(Inner) /\ Len(m \o e) = 3 + Len(d) + 2
        /\ \A i \in 1..3 + Len(d) : (m \o e)[i] = m[i]
        /\ \A i \in 1..2 : (m \o e)[3 + Len(d) + i] = e[i]
    <2>1. m \in Seq(Inner) /\ Len(m) = 3 + Len(d)
      BY <1>4 DEF m
    <2>2. /\ m \o e \in Seq(Inner) /\ Len(m \o e) = Len(m) + Len(e)
          /\ \A i \in 1..Len(m) : (m \o e)[i] = m[i]
          /\ \A i \in 1..Len(e) : (m \o e)[Len(m) + i] = e[i]
      <3>1. e \in Seq(Inner) /\ m \in Seq(Inner)
        BY <1>2, <2>1
      <3> QED BY <3>1, Joined
    <2> QED BY <1>2, <2>1, <2>2
  <1>6. (m \o e)[1] = l[1] /\ (m \o e)[2] = l[2] /\ (m \o e)[3] = l[3]
    BY <1>1, <1>4, <1>5 DEF m
  <1>7. \A i \in 1..Len(d) : (m \o e)[3 + i] = d[i]
    BY <1>1, <1>4, <1>5 DEF m
  <1>8. (m \o e)[Len(d) + 4] = e[1] /\ (m \o e)[Len(d) + 5] = e[2]
    <2>1. Len(d) + 4 = 3 + Len(d) + 1 /\ Len(d) + 5 = 3 + Len(d) + 2
      BY <1>1
    <2> QED BY <2>1, <1>5
  <1>9. Len(m \o e) = Len(d) + 5
    BY <1>1, <1>5
  <1> QED BY <1>2, <1>3, <1>5, <1>6, <1>7, <1>8, <1>9 DEF m

\* The chunks of a body, where ChunkAt and ChunkLen say they are.
LEMMA ChunksFacts ==
  ASSUME ReportTyped, NEW a \in Answers, Chunked(a)
  PROVE  LET cs == Chunks(BodyOf(a), a.how, a.req)
         IN /\ cs \in Seq(Inner) /\ Len(cs) = ChunkAt(a, Len(BodyOf(a)))
            /\ \A t \in Stops(a) : t < Len(BodyOf(a)) =>
                 LET n == ChunkLen(a, t)
                     p == ChunkAt(a, t)
                 IN /\ t \in Nat /\ n \in Nat \ {0} /\ p \in Nat /\ t + n \in Stops(a)
                    /\ t + n <= Len(BodyOf(a))
                    /\ ChunkAt(a, t + n) = p + n + 5 /\ p + n + 5 <= Len(cs)
                    /\ cs[p + 1].is = "size" /\ cs[p + 1].val = n
                    /\ cs[p + 2].is = "cr" /\ cs[p + 3].is = "lf"
                    /\ \A i \in 1..n : cs[p + 3 + i] = BodyOf(a)[t + i]
                    /\ cs[p + n + 4].is = "cr" /\ cs[p + n + 5].is = "lf"
  <1> DEFINE b == BodyOf(a)  q == a.req  cs == Chunks(b, a.how, q)
  <1>1. b \in Seq(Inner) /\ Len(b) \in Nat /\ q \in Made /\ a.how \in {"whole", "pieces"}
    BY BodyTyped DEF Answers, Chunked
  <1>2. b = <<>> <=> Len(b) = 0
    BY <1>1
  <1>3. CASE b = <<>>
    <2>1. cs = <<>>
      BY <1>3 DEF Chunks
    <2>2. ChunkAt(a, Len(b)) = 0
      BY <1>2, <1>3 DEF ChunkAt
    <2>3. \A t \in Stops(a) : ~(t < Len(b))
      BY <1>2, <1>3 DEF Stops
    <2> QED BY <2>1, <2>2, <2>3
  <1>4. CASE b # <<>> /\ a.how = "whole"
    <2>1. cs = Chunk(b, q)
      BY <1>4 DEF Chunks
    <2>2. ChunkAt(a, 0) = 0 /\ ChunkAt(a, Len(b)) = Len(b) + 5 /\ Len(b) # 0
      BY <1>2, <1>4 DEF ChunkAt
    <2>3. /\ cs \in Seq(Inner) /\ Len(cs) = Len(b) + 5
          /\ cs[1] = Sym("size", Len(b), q)
          /\ cs[2].is = "cr" /\ cs[3].is = "lf"
          /\ \A i \in 1..Len(b) : cs[3 + i] = b[i]
          /\ cs[Len(b) + 4].is = "cr" /\ cs[Len(b) + 5].is = "lf"
      <3>1. b \in Seq(Inner) /\ q \in Made
        BY <1>1
      <3> HIDE DEF b, q, cs
      <3>2. /\ Chunk(b, q) \in Seq(Inner) /\ Len(Chunk(b, q)) = Len(b) + 5
            /\ Chunk(b, q)[1] = Sym("size", Len(b), q)
            /\ Chunk(b, q)[2].is = "cr" /\ Chunk(b, q)[3].is = "lf"
            /\ \A i \in 1..Len(b) : Chunk(b, q)[3 + i] = b[i]
            /\ Chunk(b, q)[Len(b) + 4].is = "cr" /\ Chunk(b, q)[Len(b) + 5].is = "lf"
        BY <3>1, ChunkFacts
      <3> QED BY <2>1, <3>2
    <2>4. cs[1].is = "size" /\ cs[1].val = Len(b)
      BY <2>3, SymIs
    <2>5. ASSUME NEW t \in Stops(a), t < Len(b)
          PROVE  t = 0 /\ ChunkLen(a, t) = Len(b) /\ 0 + Len(b) \in Stops(a)
      BY <1>1, <1>4, <2>2, <2>5 DEF Stops, ChunkLen
    <2> HIDE DEF cs, b, q
    <2>6. ASSUME NEW t \in Stops(a), t < Len(b)
          PROVE  LET n == ChunkLen(a, t)
                     p == ChunkAt(a, t)
                 IN /\ t \in Nat /\ n \in Nat \ {0} /\ p \in Nat /\ t + n \in Stops(a)
                    /\ t + n <= Len(b)
                    /\ ChunkAt(a, t + n) = p + n + 5 /\ p + n + 5 <= Len(cs)
                    /\ cs[p + 1].is = "size" /\ cs[p + 1].val = n
                    /\ cs[p + 2].is = "cr" /\ cs[p + 3].is = "lf"
                    /\ \A i \in 1..n : cs[p + 3 + i] = b[t + i]
                    /\ cs[p + n + 4].is = "cr" /\ cs[p + n + 5].is = "lf"
      <3> DEFINE n == ChunkLen(a, t)  p == ChunkAt(a, t)
      <3>1. t = 0 /\ n = Len(b) /\ p = 0 /\ 0 + n \in Stops(a) /\ ChunkAt(a, n) = n + 5 /\ n \in Nat \ {0}
        BY <1>1, <2>2, <2>5, <2>6
      <3> HIDE DEF n, p
      <3>2. t + n = n /\ p + n + 5 = n + 5 /\ p + 1 = 1 /\ p + 2 = 2 /\ p + 3 = 3
            /\ p + n + 4 = n + 4 /\ \A i \in 1..n : p + 3 + i = 3 + i /\ t + i = i
        BY <3>1
      <3>3. t \in Nat /\ p \in Nat /\ t + n \in Stops(a) /\ t + n <= Len(b)
        BY <1>1, <3>1
      <3>4. ChunkAt(a, t + n) = p + n + 5 /\ p + n + 5 <= Len(cs)
        BY <1>1, <2>3, <3>1, <3>2
      <3>5. \A i \in 1..n : cs[p + 3 + i] = b[t + i]
        BY <2>3, <3>1, <3>2
      <3>6. /\ cs[p + 1].is = "size" /\ cs[p + 1].val = n
            /\ cs[p + 2].is = "cr" /\ cs[p + 3].is = "lf"
            /\ cs[p + n + 4].is = "cr" /\ cs[p + n + 5].is = "lf"
        BY <2>3, <2>4, <3>1, <3>2
      <3> QED BY <3>1, <3>3, <3>4, <3>5, <3>6 DEF n, p
    <2> QED BY <2>2, <2>3, <2>6 DEF cs, b, q
  <1>5. CASE b # <<>> /\ a.how = "pieces"
    <2> DEFINE L == 6 * Len(b)
               piece(t) == Chunk(<<b[t + 1]>>, q)
    <2>1. cs = [i \in 1..L |-> piece((i - 1) \div 6)[((i - 1) % 6) + 1]]
      BY <1>5 DEF Chunks
    <2>2. L \in Nat
      BY <1>1
    <2>3. ASSUME NEW t \in 0..Len(b) - 1
          PROVE  /\ piece(t) \in Seq(Inner) /\ Len(piece(t)) = 6
                 /\ piece(t)[1].is = "size" /\ piece(t)[1].val = 1
                 /\ piece(t)[2].is = "cr" /\ piece(t)[3].is = "lf"
                 /\ piece(t)[4] = b[t + 1]
                 /\ piece(t)[5].is = "cr" /\ piece(t)[6].is = "lf"
      <3>1. t + 1 \in 1..Len(b)
        BY <1>1
      <3>2. b[t + 1] \in Inner
        BY <1>1, <3>1
      <3> DEFINE d == <<b[t + 1]>>
      <3>3. d \in Seq(Inner) /\ Len(d) = 1 /\ d[1] = b[t + 1]
        BY <3>2
      <3> HIDE DEF d
      <3>4. /\ Chunk(d, q) \in Seq(Inner) /\ Len(Chunk(d, q)) = Len(d) + 5
            /\ Chunk(d, q)[1] = Sym("size", Len(d), q)
            /\ Chunk(d, q)[2].is = "cr" /\ Chunk(d, q)[3].is = "lf"
            /\ \A i \in 1..Len(d) : Chunk(d, q)[3 + i] = d[i]
            /\ Chunk(d, q)[Len(d) + 4].is = "cr" /\ Chunk(d, q)[Len(d) + 5].is = "lf"
        BY <1>1, <3>3, ChunkFacts
      <3>5. piece(t) = Chunk(d, q)
        BY DEF d
      <3>6. Chunk(d, q)[3 + 1] = d[1]
        BY <3>3, <3>4
      <3> HIDE DEF piece
      <3> QED BY <3>3, <3>4, <3>5, <3>6, SymIs
    <2> HIDE DEF piece
    <2>4. ASSUME NEW t \in 0..Len(b) - 1, NEW i \in 1..6
          PROVE  6 * t + i \in 1..L /\ cs[6 * t + i] = piece(t)[i]
      <3>1. 6 * t + i \in 1..L
        BY <1>1
      <3> DEFINE j == 6 * t + i
      <3>2. (j - 1) \div 6 = t /\ ((j - 1) % 6) + 1 = i
        OBVIOUS
      <3> HIDE DEF j, cs
      <3>3. j \in 1..L
        BY <3>1 DEF j
      <3>4. cs[j] = piece((j - 1) \div 6)[((j - 1) % 6) + 1]
        BY <2>1, <3>3
      <3>5. cs[j] = piece(t)[i]
        BY <3>2, <3>4
      <3> QED BY <3>1, <3>5 DEF j
    <2>5. cs \in Seq(Inner) /\ Len(cs) = L
      <3>1. ASSUME NEW i \in 1..L PROVE piece((i - 1) \div 6)[((i - 1) % 6) + 1] \in Inner
        <4>1. (i - 1) \div 6 \in 0..Len(b) - 1 /\ ((i - 1) % 6) + 1 \in 1..6
          BY <1>1
        <4> QED BY <2>3, <4>1, SMTT(30)
      <3> QED BY <2>1, <2>2, <3>1
    <2> HIDE DEF cs
    <2>6. ChunkAt(a, Len(b)) = L /\ \A t \in Nat : ChunkAt(a, t) = 6 * t
      BY <1>1, <1>5 DEF ChunkAt
    <2>7. Stops(a) = 0..Len(b) /\ \A t \in 0..Len(b) - 1 : ChunkLen(a, t) = 1
      BY <1>1, <1>5 DEF Stops, ChunkLen
    <2>8. ASSUME NEW t \in Stops(a), t < Len(b)
          PROVE  LET n == ChunkLen(a, t)
                     p == ChunkAt(a, t)
                 IN /\ t \in Nat /\ n \in Nat \ {0} /\ p \in Nat /\ t + n \in Stops(a)
                    /\ t + n <= Len(b)
                    /\ ChunkAt(a, t + n) = p + n + 5 /\ p + n + 5 <= Len(cs)
                    /\ cs[p + 1].is = "size" /\ cs[p + 1].val = n
                    /\ cs[p + 2].is = "cr" /\ cs[p + 3].is = "lf"
                    /\ \A i \in 1..n : cs[p + 3 + i] = b[t + i]
                    /\ cs[p + n + 4].is = "cr" /\ cs[p + n + 5].is = "lf"
      <3> DEFINE n == ChunkLen(a, t)  p == ChunkAt(a, t)
      <3>1. t \in 0..Len(b) - 1
        BY <1>1, <2>7, <2>8
      <3>2. n = 1 /\ p = 6 * t /\ t + 1 \in 0..Len(b) /\ ChunkAt(a, t + 1) = 6 * (t + 1)
        BY <1>1, <2>6, <2>7, <3>1
      <3> HIDE DEF n, p
      <3>31. \A i \in 1..6 : cs[p + i] = piece(t)[i]
        BY <2>4, <3>1, <3>2
      <3>32. /\ cs[p + 1] = piece(t)[1] /\ cs[p + 2] = piece(t)[2] /\ cs[p + 3] = piece(t)[3]
             /\ cs[p + 4] = piece(t)[4] /\ cs[p + 5] = piece(t)[5] /\ cs[p + 6] = piece(t)[6]
        BY <3>31
      <3>3. cs[p + 1].is = "size" /\ cs[p + 1].val = 1 /\ cs[p + 2].is = "cr" /\ cs[p + 3].is = "lf"
        BY <2>3, <3>1, <3>32
      <3>4. cs[p + 4] = b[t + 1] /\ cs[p + 5].is = "cr" /\ cs[p + 6].is = "lf"
        BY <2>3, <3>1, <3>32
      <3>5. p + 3 + 1 = p + 4 /\ p + n + 4 = p + 5 /\ p + n + 5 = p + 6 /\ p \in Nat /\ t \in Nat
            /\ p + 6 <= L /\ 6 * (t + 1) = p + 6
        BY <1>1, <3>1, <3>2
      <3>6. \A i \in 1..n : cs[p + 3 + i] = b[t + i]
        <4>1. \A i \in 1..n : i = 1
          BY <3>2
        <4> QED BY <3>4, <3>5, <4>1
      <3>7. t \in Nat /\ n \in Nat \ {0} /\ p \in Nat /\ t + n \in Stops(a) /\ t + n <= Len(b)
        BY <1>1, <2>7, <3>1, <3>2, <3>5
      <3>8. ChunkAt(a, t + n) = p + n + 5 /\ p + n + 5 <= Len(cs)
        BY <2>5, <3>2, <3>5
      <3>9. cs[p + n + 4].is = "cr" /\ cs[p + n + 5].is = "lf" /\ cs[p + 1].val = n
        BY <3>2, <3>3, <3>4, <3>5
      <3> QED BY <3>3, <3>6, <3>7, <3>8, <3>9 DEF n, p
    <2> HIDE DEF b, q
    <2> QED BY <2>5, <2>6, <2>8 DEF cs, b, q
  <1> QED BY <1>1, <1>3, <1>4, <1>5

-----------------------------------------------------------------------------
HeaderLines(a) ==
  IF Extra(a) = 2
    THEN Line(Sym("me", 0, a.req)) \o Line(Sym("root", 0, a.req)) ELSE <<>>

Framing(a) == IF Refused(a) THEN "length" ELSE a.how

\* What comes before the body, and how far that is.
LEMMA HeadFacts ==
  ASSUME ReportTyped, NEW a \in Answers
  PROVE  LET h == Line(Sym("status", Status(a), a.req)) \o HeaderLines(a)
         IN /\ h \in Seq(Symbol) /\ Len(h) = 3 + 3 * Extra(a)
            /\ h[1].is = "status" /\ h[1].val = Status(a)
            /\ h[2].is = "cr" /\ h[3].is = "lf"
            /\ Extra(a) = 2 => /\ h[4].is = "me" /\ h[5].is = "cr" /\ h[6].is = "lf"
                               /\ h[7].is = "root" /\ h[8].is = "cr" /\ h[9].is = "lf"
            /\ Extra(a) \in {0, 2}
  <1> DEFINE q == a.req
             l == Line(Sym("status", Status(a), q))
             m == Line(Sym("me", 0, q))
             r == Line(Sym("root", 0, q))
  <1>1. q \in Made /\ Status(a) \in Nat /\ {"status", "me", "root"} \subseteq Names /\ 0 \in Nat
    BY DEF Answers, Status, StatusOf, Names, HeaderNames
  <1>2. /\ l \in Seq(Symbol) /\ Len(l) = 3 /\ l[1] = Sym("status", Status(a), q)
        /\ l[2].is = "cr" /\ l[3].is = "lf"
    BY <1>1, LineFacts
  <1>3. /\ m \in Seq(Symbol) /\ Len(m) = 3 /\ m[1] = Sym("me", 0, q)
        /\ m[2].is = "cr" /\ m[3].is = "lf"
    BY <1>1, LineFacts
  <1>4. /\ r \in Seq(Symbol) /\ Len(r) = 3 /\ r[1] = Sym("root", 0, q)
        /\ r[2].is = "cr" /\ r[3].is = "lf"
    BY <1>1, LineFacts
  <1>5. l[1].is = "status" /\ l[1].val = Status(a) /\ m[1].is = "me" /\ r[1].is = "root"
    BY <1>2, <1>3, <1>4, SymIs
  <1>6. Extra(a) \in {0, 2}
    BY DEF Extra
  <1> HIDE DEF l, m, r
  <1>7. CASE Extra(a) = 0
    <2>1. HeaderLines(a) = <<>> /\ l \o <<>> = l
      <3>1. l \o <<>> = l
        BY <1>2, ConcatEmptySeq
      <3> QED BY <1>7, <3>1 DEF HeaderLines
    <2> QED BY <1>2, <1>5, <1>7, <2>1 DEF l, q
  <1>8. CASE Extra(a) = 2
    <2> DEFINE mr == m \o r
    <2>1. HeaderLines(a) = mr
      BY <1>8 DEF HeaderLines, m, r, q
    <2>2. /\ mr \in Seq(Symbol) /\ Len(mr) = Len(m) + Len(r)
          /\ \A i \in 1..Len(m) : mr[i] = m[i]
          /\ \A i \in 1..Len(r) : mr[Len(m) + i] = r[i]
      <3>1. m \in Seq(Symbol) /\ r \in Seq(Symbol)
        BY <1>3, <1>4
      <3> QED BY <3>1, Joined
    <2>3. /\ Len(mr) = 6 /\ mr[1] = m[1] /\ mr[2] = m[2] /\ mr[3] = m[3]
          /\ mr[4] = r[1] /\ mr[5] = r[2] /\ mr[6] = r[3]
      <3>1. Len(mr) = 6 /\ \A i \in 1..3 : mr[i] = m[i] /\ mr[3 + i] = r[i]
        BY <1>3, <1>4, <2>2
      <3> QED BY <3>1
    <2>4. mr \in Seq(Symbol)
      BY <2>2
    <2> HIDE DEF mr
    <2> DEFINE h == l \o mr
    <2>5. /\ h \in Seq(Symbol) /\ Len(h) = Len(l) + Len(mr)
          /\ \A i \in 1..Len(l) : h[i] = l[i]
          /\ \A i \in 1..Len(mr) : h[Len(l) + i] = mr[i]
      <3>1. l \in Seq(Symbol)
        BY <1>2
      <3> QED BY <2>4, <3>1, Joined
    <2>6. Len(h) = 9 /\ (\A i \in 1..3 : h[i] = l[i]) /\ \A i \in 1..6 : h[3 + i] = mr[i]
      BY <1>2, <2>3, <2>5, SMTT(30)
    <2>7. /\ h[1] = l[1] /\ h[2] = l[2] /\ h[3] = l[3]
          /\ h[4] = mr[1] /\ h[5] = mr[2] /\ h[6] = mr[3]
          /\ h[7] = mr[4] /\ h[8] = mr[5] /\ h[9] = mr[6]
      BY <2>6, SMTT(30)
    <2>8. h \in Seq(Symbol)
      BY <2>5
    <2> HIDE DEF h
    <2>9. h = Line(Sym("status", Status(a), a.req)) \o HeaderLines(a)
      BY <2>1 DEF h, l, q
    <2>10. /\ h[1].is = "status" /\ h[1].val = Status(a) /\ h[2].is = "cr" /\ h[3].is = "lf"
           /\ h[4].is = "me" /\ h[5].is = "cr" /\ h[6].is = "lf"
           /\ h[7].is = "root" /\ h[8].is = "cr" /\ h[9].is = "lf"
      BY <1>2, <1>3, <1>4, <1>5, <2>3, <2>7
    <2>11. Len(h) = 3 + 3 * Extra(a) /\ h \in Seq(Symbol)
      BY <1>8, <2>6, <2>8
    <2> QED BY <1>8, <2>9, <2>10, <2>11
  <1> QED BY <1>6, <1>7, <1>8

\* What comes after it: how the body comes, an empty line, and the body.
LEMMA TailFacts ==
  ASSUME ReportTyped, NEW a \in Answers
  PROVE  LET e == EncodedBody(BodyOf(a), Framing(a), a.req)
         IN /\ e \in Seq(Inner)
            /\ e[1].is = IF Chunked(a) THEN "chunked" ELSE "content-length"
            /\ ~Chunked(a) => e[1].val = Len(BodyOf(a))
            /\ e[2].is = "cr" /\ e[3].is = "lf" /\ e[4].is = "cr" /\ e[5].is = "lf"
            /\ ~Chunked(a) => /\ Len(e) = 5 + Len(BodyOf(a))
                              /\ \A i \in 1..Len(BodyOf(a)) : e[5 + i] = BodyOf(a)[i]
            /\ Chunked(a) => LET cs == Chunks(BodyOf(a), a.how, a.req)
                             IN /\ Len(e) = 5 + Len(cs) + 5
                                /\ \A i \in 1..Len(cs) : e[5 + i] = cs[i]
                                /\ \A i \in 1..5 : e[5 + Len(cs) + i] = Chunk(<<>>, a.req)[i]
  <1> DEFINE q == a.req  b == BodyOf(a)  x == EndOfLine(q)
             Y(s, v) == Line(Sym(s, v, q)) \o EndOfLine(q)
  <1>1. q \in Made /\ b \in Seq(Inner) /\ Len(b) \in Nat
    BY BodyTyped DEF Answers
  <1>2. ASSUME NEW s \in {"chunked", "content-length"}, NEW v \in Nat
        PROVE  /\ Y(s, v) \in Seq(Inner) /\ Len(Y(s, v)) = 5
               /\ Y(s, v)[1].is = s /\ Y(s, v)[1].val = v
               /\ Y(s, v)[2].is = "cr" /\ Y(s, v)[3].is = "lf"
               /\ Y(s, v)[4].is = "cr" /\ Y(s, v)[5].is = "lf"
    <2> DEFINE l == Line(Sym(s, v, q))  y == l \o x
    <2>1. s \in Names
      BY DEF Names, HeaderNames
    <2>2. /\ l \in Seq(Inner) /\ Len(l) = 3 /\ l[1] = Sym(s, v, q) /\ l[2].is = "cr" /\ l[3].is = "lf"
          /\ x \in Seq(Inner) /\ Len(x) = 2 /\ x[1].is = "cr" /\ x[2].is = "lf"
      BY <1>1, <2>1, LineFacts
    <2>3. l[1].is = s /\ l[1].val = v
      BY <2>2, SymIs
    <2> HIDE DEF l, x
    <2>4. /\ y \in Seq(Inner) /\ Len(y) = Len(l) + Len(x)
          /\ \A i \in 1..Len(l) : y[i] = l[i]
          /\ \A i \in 1..Len(x) : y[Len(l) + i] = x[i]
      <3>1. l \in Seq(Inner) /\ x \in Seq(Inner)
        BY <2>2
      <3> QED BY <3>1, Joined
    <2>5. Len(y) = 5 /\ (\A i \in 1..3 : y[i] = l[i]) /\ \A i \in 1..2 : y[3 + i] = x[i]
      BY <2>2, <2>4
    <2>6. y[1] = l[1] /\ y[2] = l[2] /\ y[3] = l[3] /\ y[4] = x[1] /\ y[5] = x[2]
      BY <2>5
    <2>7. y \in Seq(Inner)
      BY <2>4
    <2> HIDE DEF y
    <2>8. y = Y(s, v)
      BY DEF y, l, x
    <2> HIDE DEF q, Y
    <2> QED BY <2>2, <2>3, <2>5, <2>6, <2>7, <2>8
  <1> HIDE DEF q, b, Y
  <1>3. CASE ~Chunked(a)
    <2> DEFINE y == Y("content-length", Len(b))
               e == y \o b
    <2>1. Framing(a) = "length" /\ EncodedBody(b, "length", q) = e
      BY <1>3 DEF Y, Chunked, Framing, Refused, Answers, EncodedBody
    <2>2. /\ y \in Seq(Inner) /\ Len(y) = 5
          /\ y[1].is = "content-length" /\ y[1].val = Len(b) /\ y[2].is = "cr" /\ y[3].is = "lf"
          /\ y[4].is = "cr" /\ y[5].is = "lf"
      BY <1>1, <1>2
    <2> HIDE DEF y
    <2>3. /\ e \in Seq(Inner) /\ Len(e) = Len(y) + Len(b)
          /\ \A i \in 1..Len(y) : e[i] = y[i]
          /\ \A i \in 1..Len(b) : e[Len(y) + i] = b[i]
      <3>1. y \in Seq(Inner) /\ b \in Seq(Inner)
        BY <1>1, <2>2
      <3> QED BY <3>1, Joined
    <2>4. Len(e) = 5 + Len(b) /\ (\A i \in 1..5 : e[i] = y[i]) /\ \A i \in 1..Len(b) : e[5 + i] = b[i]
      BY <2>2, <2>3
    <2>5. e[1] = y[1] /\ e[2] = y[2] /\ e[3] = y[3] /\ e[4] = y[4] /\ e[5] = y[5] /\ e \in Seq(Inner)
      BY <2>3, <2>4
    <2> HIDE DEF e
    <2>6. e = EncodedBody(BodyOf(a), Framing(a), a.req)
      BY <2>1 DEF b, q
    <2> QED BY <1>3, <2>2, <2>4, <2>5, <2>6 DEF b
  <1>4. CASE Chunked(a)
    <2> DEFINE y == Y("chunked", 0)
               cs == Chunks(b, a.how, q)
               z == Chunk(<<>>, q)
               u == y \o cs
               e == u \o z
    <2>1. Framing(a) = a.how /\ a.how # "length" /\ EncodedBody(b, a.how, q) = e
      BY <1>4 DEF Y, Chunked, Framing, Refused, Answers, EncodedBody
    <2>2. /\ y \in Seq(Inner) /\ Len(y) = 5
          /\ y[1].is = "chunked" /\ y[2].is = "cr" /\ y[3].is = "lf"
          /\ y[4].is = "cr" /\ y[5].is = "lf"
      <3>1. "chunked" \in {"chunked", "content-length"} /\ 0 \in Nat
        OBVIOUS
      <3> QED BY <1>2, <3>1
    <2>3. cs \in Seq(Inner) /\ Len(cs) \in Nat
      BY <1>4, ChunksFacts DEF b, q
    <2>4. z \in Seq(Inner) /\ Len(z) = 5
      <3>1. <<>> \in Seq(Inner) /\ Len(<<>>) + 5 = 5
        OBVIOUS
      <3> QED BY <1>1, <3>1, ChunkFacts
    <2> HIDE DEF y, cs, z
    <2>5. /\ u \in Seq(Inner) /\ Len(u) = Len(y) + Len(cs)
          /\ \A i \in 1..Len(y) : u[i] = y[i]
          /\ \A i \in 1..Len(cs) : u[Len(y) + i] = cs[i]
      <3>1. y \in Seq(Inner) /\ cs \in Seq(Inner)
        BY <2>2, <2>3
      <3> QED BY <3>1, Joined
    <2>6. Len(u) = 5 + Len(cs) /\ (\A i \in 1..5 : u[i] = y[i]) /\ \A i \in 1..Len(cs) : u[5 + i] = cs[i]
      BY <2>2, <2>5
    <2>7. u \in Seq(Inner)
      BY <2>5
    <2> HIDE DEF u
    <2>8. /\ e \in Seq(Inner) /\ Len(e) = Len(u) + Len(z)
          /\ \A i \in 1..Len(u) : e[i] = u[i]
          /\ \A i \in 1..Len(z) : e[Len(u) + i] = z[i]
      <3>1. z \in Seq(Inner)
        BY <2>4
      <3> QED BY <2>7, <3>1, Joined
    <2>9. /\ Len(e) = 5 + Len(cs) + 5
          /\ \A i \in 1..5 + Len(cs) : e[i] = u[i]
          /\ \A i \in 1..5 : e[5 + Len(cs) + i] = z[i]
      BY <2>4, <2>6, <2>8
    <2>10. \A i \in 1..Len(cs) : e[5 + i] = cs[i]
      BY <2>3, <2>6, <2>9
    <2>11. e[1] = y[1] /\ e[2] = y[2] /\ e[3] = y[3] /\ e[4] = y[4] /\ e[5] = y[5]
      <3>1. \A i \in 1..5 : i \in 1..5 + Len(cs)
        BY <2>3
      <3> QED BY <2>6, <2>9, <3>1
    <2>12. e \in Seq(Inner)
      BY <2>8
    <2> HIDE DEF e
    <2>13. e = EncodedBody(BodyOf(a), Framing(a), a.req)
      BY <2>1 DEF b, q
    <2> QED BY <1>4, <2>2, <2>9, <2>10, <2>11, <2>12, <2>13 DEF b, q, cs, z
  <1> QED BY <1>3, <1>4

\* The answer as a whole, symbol by symbol.
LEMMA AnswerHead ==
  ASSUME ReportTyped, NEW a \in Answers
  PROVE  /\ Sent(a) \in Seq(Symbol) /\ Size(a) \in Nat
         /\ Extra(a) \in {0, 2} /\ Before(a) \in {8, 14} /\ Before(a) <= Size(a)
         /\ \A i \in 2..Size(a) : Sent(a)[i].is # "status"
         /\ Sent(a)[1].is = "status" /\ Sent(a)[1].val = Status(a)
         /\ Sent(a)[2].is = "cr" /\ Sent(a)[3].is = "lf"
         /\ Extra(a) = 2 =>
              /\ Sent(a)[4].is = "me" /\ Sent(a)[5].is = "cr" /\ Sent(a)[6].is = "lf"
              /\ Sent(a)[7].is = "root" /\ Sent(a)[8].is = "cr" /\ Sent(a)[9].is = "lf"
         /\ Sent(a)[Before(a) - 4].is = IF Chunked(a) THEN "chunked" ELSE "content-length"
         /\ ~Chunked(a) => Sent(a)[Before(a) - 4].val = Len(BodyOf(a))
         /\ Sent(a)[Before(a) - 3].is = "cr" /\ Sent(a)[Before(a) - 2].is = "lf"
         /\ Sent(a)[Before(a) - 1].is = "cr" /\ Sent(a)[Before(a)].is = "lf"
         /\ ~Chunked(a) =>
              /\ Size(a) = Before(a) + Len(BodyOf(a))
              /\ \A i \in 1..Len(BodyOf(a)) : Sent(a)[Before(a) + i] = BodyOf(a)[i]
         /\ Chunked(a) =>
              LET cs == Chunks(BodyOf(a), a.how, a.req)
              IN /\ Size(a) = Before(a) + Len(cs) + 5
                 /\ \A i \in 1..Len(cs) : Sent(a)[Before(a) + i] = cs[i]
                 /\ \A i \in 1..5 : Sent(a)[Before(a) + Len(cs) + i] = Chunk(<<>>, a.req)[i]
  <1> DEFINE h == Line(Sym("status", Status(a), a.req)) \o HeaderLines(a)
             e == EncodedBody(BodyOf(a), Framing(a), a.req)
             s == h \o e
             b == BodyOf(a)
             cs == Chunks(BodyOf(a), a.how, a.req)
             z == Chunk(<<>>, a.req)
  <1>1. Sent(a) = s
    <2>1. CASE Refused(a)
      BY <2>1 DEF Sent, Refusal, Encoded, Status, HeaderLines, Extra, Framing, BodyOf
    <2>2. CASE ~Refused(a)
      <3>1. HeaderLines(a) = Headers(a.req)
        BY <2>2 DEF HeaderLines, Headers, Extra
      <3> QED BY <2>2, <3>1 DEF Sent, Answer, Encoded, Status, Framing, BodyOf
    <2> QED BY <2>1, <2>2
  <1>2. b \in Seq(Inner) /\ Len(b) \in Nat
    BY BodyTyped
  <1>0. Inner \subseteq Symbol
    BY DEF Inner
  <1>3. /\ h \in Seq(Symbol) /\ Len(h) = 3 + 3 * Extra(a)
        /\ h[1].is = "status" /\ h[1].val = Status(a)
        /\ h[2].is = "cr" /\ h[3].is = "lf"
        /\ Extra(a) = 2 => /\ h[4].is = "me" /\ h[5].is = "cr" /\ h[6].is = "lf"
                           /\ h[7].is = "root" /\ h[8].is = "cr" /\ h[9].is = "lf"
        /\ Extra(a) \in {0, 2}
    BY HeadFacts
  <1>4. /\ e \in Seq(Inner)
        /\ e[1].is = IF Chunked(a) THEN "chunked" ELSE "content-length"
        /\ ~Chunked(a) => e[1].val = Len(b)
        /\ e[2].is = "cr" /\ e[3].is = "lf" /\ e[4].is = "cr" /\ e[5].is = "lf"
        /\ ~Chunked(a) => Len(e) = 5 + Len(b) /\ \A i \in 1..Len(b) : e[5 + i] = b[i]
        /\ Chunked(a) => /\ Len(e) = 5 + Len(cs) + 5
                         /\ \A i \in 1..Len(cs) : e[5 + i] = cs[i]
                         /\ \A i \in 1..5 : e[5 + Len(cs) + i] = z[i]
    BY TailFacts
  <1>5. Chunked(a) => Len(cs) \in Nat
    BY ChunksFacts
  <1> HIDE DEF h, e, b, cs, z
  <1>6. /\ s \in Seq(Symbol) /\ Len(s) = Len(h) + Len(e)
        /\ \A i \in 1..Len(h) : s[i] = h[i]
        /\ \A i \in 1..Len(e) : s[Len(h) + i] = e[i]
    <2>1. h \in Seq(Symbol) /\ e \in Seq(Symbol)
      BY <1>0, <1>3, <1>4
    <2> QED BY <2>1, Joined
  <1> DEFINE B == Before(a)
  <1>7. B = Len(h) + 5 /\ Len(h) \in {3, 9} /\ B \in {8, 14}
    BY <1>3 DEF Before
  <1>8. Len(e) >= 5 /\ Len(e) \in Nat
    BY <1>2, <1>4, <1>5
  <1>9. s \in Seq(Symbol) /\ Len(s) = B - 5 + Len(e) /\ Len(s) \in Nat
    BY <1>6, <1>7, <1>8
  <1> HIDE DEF s, B
  <1>10. s[1] = h[1] /\ s[2] = h[2] /\ s[3] = h[3]
         /\ (Extra(a) = 2 => s[4] = h[4] /\ s[5] = h[5] /\ s[6] = h[6]
                             /\ s[7] = h[7] /\ s[8] = h[8] /\ s[9] = h[9])
    BY <1>3, <1>6, <1>7
  <1>11. \A i \in 1..Len(e) : s[B - 5 + i] = e[i]
    BY <1>6, <1>7, <1>8
  <1>12. s[B - 4] = e[1] /\ s[B - 3] = e[2] /\ s[B - 2] = e[3] /\ s[B - 1] = e[4] /\ s[B] = e[5]
    <2>1. B - 5 + 1 = B - 4 /\ B - 5 + 2 = B - 3 /\ B - 5 + 3 = B - 2 /\ B - 5 + 4 = B - 1 /\ B - 5 + 5 = B
      BY <1>7
    <2>2. 1 \in 1..Len(e) /\ 2 \in 1..Len(e) /\ 3 \in 1..Len(e) /\ 4 \in 1..Len(e) /\ 5 \in 1..Len(e)
      BY <1>8
    <2> QED BY <1>11, <2>1, <2>2
  <1>13. ASSUME ~Chunked(a)
         PROVE  Len(s) = B + Len(b) /\ \A i \in 1..Len(b) : s[B + i] = b[i]
    <2>1. Len(s) = B + Len(b)
      BY <1>2, <1>4, <1>7, <1>9, <1>13
    <2>2. ASSUME NEW i \in 1..Len(b) PROVE s[B + i] = b[i]
      <3>1. 5 + i \in 1..Len(e) /\ B - 5 + (5 + i) = B + i
        BY <1>2, <1>4, <1>7, <1>13
      <3> QED BY <1>4, <1>11, <1>13, <3>1
    <2> QED BY <2>1, <2>2
  <1>14. ASSUME Chunked(a)
         PROVE  /\ Len(s) = B + Len(cs) + 5
                /\ \A i \in 1..Len(cs) : s[B + i] = cs[i]
                /\ \A i \in 1..5 : s[B + Len(cs) + i] = z[i]
    <2>1. Len(s) = B + Len(cs) + 5
      BY <1>4, <1>5, <1>7, <1>9, <1>14
    <2>2. ASSUME NEW i \in 1..Len(cs) PROVE s[B + i] = cs[i]
      <3>1. 5 + i \in 1..Len(e) /\ B - 5 + (5 + i) = B + i
        BY <1>4, <1>5, <1>7, <1>14, SMTT(30)
      <3> QED BY <1>4, <1>11, <1>14, <3>1
    <2>3. ASSUME NEW i \in 1..5 PROVE s[B + Len(cs) + i] = z[i]
      <3>1. 5 + Len(cs) + i \in 1..Len(e) /\ B - 5 + (5 + Len(cs) + i) = B + Len(cs) + i
        BY <1>4, <1>5, <1>7, <1>14, SMTT(30)
      <3> QED BY <1>4, <1>11, <1>14, <3>1
    <2> QED BY <2>1, <2>2, <2>3
  <1>15. Size(a) = Len(s) /\ B <= Len(s)
    BY <1>1, <1>7, <1>8, <1>9 DEF Size
  <1>16. /\ s[1].is = "status" /\ s[1].val = Status(a)
         /\ s[2].is = "cr" /\ s[3].is = "lf"
         /\ Extra(a) = 2 => /\ s[4].is = "me" /\ s[5].is = "cr" /\ s[6].is = "lf"
                            /\ s[7].is = "root" /\ s[8].is = "cr" /\ s[9].is = "lf"
         /\ s[B - 4].is = IF Chunked(a) THEN "chunked" ELSE "content-length"
         /\ ~Chunked(a) => s[B - 4].val = Len(b)
         /\ s[B - 3].is = "cr" /\ s[B - 2].is = "lf" /\ s[B - 1].is = "cr" /\ s[B].is = "lf"
    BY <1>3, <1>4, <1>10, <1>12, SMTT(30)
  <1>17. s \in Seq(Symbol) /\ Len(s) \in Nat /\ Extra(a) \in {0, 2} /\ B \in {8, 14}
    BY <1>3, <1>7, <1>9
  <1>18. ASSUME NEW i \in 2..Len(s) PROVE s[i].is # "status"
    <2>1. CASE i <= Len(h)
      <3>1. i \in {2, 3} \/ (Extra(a) = 2 /\ i \in {4, 5, 6, 7, 8, 9})
        BY <1>3, <1>9, <2>1
      <3> QED BY <1>16, <3>1
    <2>2. CASE ~(i <= Len(h))
      <3>1. i - Len(h) \in 1..Len(e) /\ B - 5 + (i - Len(h)) = i
        BY <1>7, <1>8, <1>9, <2>2
      <3> DEFINE k == i - Len(h)
      <3> HIDE DEF k
      <3>2. k \in 1..Len(e) /\ B - 5 + k = i
        BY <3>1 DEF k
      <3>3. e[k] \in Inner
        BY <1>4, <3>2
      <3> QED BY <1>11, <3>2, <3>3 DEF Inner
    <2> QED BY <2>1, <2>2
  <1> HIDE DEF s
  <1> QED BY <1>1, <1>13, <1>14, <1>15, <1>16, <1>17, <1>18 DEF B, b, cs, z

\* The symbols of a body that comes in chunks.
LEMMA AnswerChunks ==
  ASSUME ReportTyped, NEW a \in Answers, Chunked(a)
  PROVE  /\ 0 \in Stops(a) /\ ChunkAt(a, 0) = 0
         /\ \A t \in Stops(a) :
              LET n == ChunkLen(a, t)
                  p == Before(a) + ChunkAt(a, t)
              IN /\ t \in 0..Len(BodyOf(a)) /\ n \in Nat /\ p \in Nat /\ p >= Before(a)
                 /\ t + n \in Stops(a) /\ t + n <= Len(BodyOf(a))
                 /\ n = 0 <=> t = Len(BodyOf(a))
                 /\ p + n + 5 <= Size(a) /\ (p + n + 5 = Size(a) <=> n = 0)
                 /\ n # 0 => Before(a) + ChunkAt(a, t + n) = p + n + 5
                 /\ Sent(a)[p + 1].is = "size" /\ Sent(a)[p + 1].val = n
                 /\ Sent(a)[p + 2].is = "cr" /\ Sent(a)[p + 3].is = "lf"
                 /\ \A i \in 1..n : Sent(a)[p + 3 + i] = BodyOf(a)[t + i]
                 /\ Sent(a)[p + n + 4].is = "cr" /\ Sent(a)[p + n + 5].is = "lf"
  <1> DEFINE cs == Chunks(BodyOf(a), a.how, a.req)
             z == Chunk(<<>>, a.req)
             b == BodyOf(a)
             B == Before(a)
             s == Sent(a)
  <1>1. b \in Seq(Inner) /\ Len(b) \in Nat /\ a.req \in Made /\ a.how \in {"whole", "pieces"}
    BY BodyTyped DEF Answers, Chunked
  <1>2. /\ Len(s) = B + Len(cs) + 5 /\ B \in {8, 14}
        /\ \A i \in 1..Len(cs) : s[B + i] = cs[i]
        /\ \A i \in 1..5 : s[B + Len(cs) + i] = z[i]
    BY AnswerHead DEF Size
  <1>3. 0 \in Stops(a) /\ ChunkAt(a, 0) = 0 /\ Stops(a) \subseteq 0..Len(b) /\ Len(b) \in Stops(a)
        /\ ChunkLen(a, Len(b)) = 0
    BY <1>1 DEF Stops, ChunkAt, ChunkLen
  <1>4. z[1].is = "size" /\ z[1].val = 0 /\ z[2].is = "cr" /\ z[3].is = "lf"
        /\ z[4].is = "cr" /\ z[5].is = "lf"
    <2> DEFINE d == <<>>
    <2>1. d \in Seq(Inner) /\ Len(d) = 0
      OBVIOUS
    <2> HIDE DEF d
    <2>2. /\ Chunk(d, a.req)[1] = Sym("size", Len(d), a.req)
          /\ Chunk(d, a.req)[2].is = "cr" /\ Chunk(d, a.req)[3].is = "lf"
          /\ Chunk(d, a.req)[Len(d) + 4].is = "cr" /\ Chunk(d, a.req)[Len(d) + 5].is = "lf"
      <3>1. a.req \in Made
        BY <1>1
      <3> QED BY <2>1, <3>1, ChunkFacts
    <2>3. 0 + 4 = 4 /\ 0 + 5 = 5
      OBVIOUS
    <2>4. z = Chunk(d, a.req)
      BY DEF d
    <2> HIDE DEF z
    <2> QED BY <2>1, <2>2, <2>3, <2>4, SymIs
  <1>5. /\ cs \in Seq(Inner) /\ Len(cs) = ChunkAt(a, Len(b))
        /\ \A t \in Stops(a) : t < Len(b) =>
             LET n == ChunkLen(a, t)
                 p == ChunkAt(a, t)
             IN /\ t \in Nat /\ n \in Nat \ {0} /\ p \in Nat /\ t + n \in Stops(a)
                /\ t + n <= Len(b)
                /\ ChunkAt(a, t + n) = p + n + 5 /\ p + n + 5 <= Len(cs)
                /\ cs[p + 1].is = "size" /\ cs[p + 1].val = n
                /\ cs[p + 2].is = "cr" /\ cs[p + 3].is = "lf"
                /\ \A i \in 1..n : cs[p + 3 + i] = b[t + i]
                /\ cs[p + n + 4].is = "cr" /\ cs[p + n + 5].is = "lf"
    BY ChunksFacts
  <1> HIDE DEF cs, z, b, B, s
  <1>6. ASSUME NEW t \in Stops(a)
        PROVE  LET n == ChunkLen(a, t)
                   p == B + ChunkAt(a, t)
               IN /\ t \in 0..Len(b) /\ n \in Nat /\ p \in Nat /\ p >= B
                  /\ t + n \in Stops(a) /\ t + n <= Len(b)
                  /\ n = 0 <=> t = Len(b)
                  /\ p + n + 5 <= Len(s) /\ (p + n + 5 = Len(s) <=> n = 0)
                  /\ n # 0 => B + ChunkAt(a, t + n) = p + n + 5
                  /\ s[p + 1].is = "size" /\ s[p + 1].val = n
                  /\ s[p + 2].is = "cr" /\ s[p + 3].is = "lf"
                  /\ \A i \in 1..n : s[p + 3 + i] = b[t + i]
                  /\ s[p + n + 4].is = "cr" /\ s[p + n + 5].is = "lf"
    <2> DEFINE n == ChunkLen(a, t)  o == ChunkAt(a, t)  p == B + o
    <2>1. t \in 0..Len(b) /\ Len(cs) \in Nat
      BY <1>1, <1>3, <1>5
    <2>2. CASE t = Len(b)
      <3>1. n = 0 /\ o = Len(cs) /\ t + n = t
        BY <1>1, <1>3, <1>5, <2>2
      <3> HIDE DEF n, o
      <3>2. p \in Nat /\ p >= B /\ p + n + 5 = Len(s) /\ p + n + 4 = p + 4 /\ p + n + 5 = p + 5
        BY <1>2, <2>1, <3>1
      <3>3. s[p + 1] = z[1] /\ s[p + 2] = z[2] /\ s[p + 3] = z[3] /\ s[p + 4] = z[4] /\ s[p + 5] = z[5]
        BY <1>2, <3>1
      <3> HIDE DEF p
      <3>4. \A i \in 1..n : FALSE
        BY <3>1
      <3>5. /\ s[p + 1].is = "size" /\ s[p + 1].val = n
            /\ s[p + 2].is = "cr" /\ s[p + 3].is = "lf"
            /\ s[p + n + 4].is = "cr" /\ s[p + n + 5].is = "lf"
        BY <1>4, <3>1, <3>2, <3>3
      <3>6. n \in Nat /\ t + n \in Stops(a) /\ t + n <= Len(b) /\ (n = 0 <=> t = Len(b))
        BY <1>1, <2>2, <3>1
      <3>7. p + n + 5 <= Len(s) /\ (p + n + 5 = Len(s) <=> n = 0) /\ n = 0
        BY <1>2, <3>1, <3>2
      <3> QED BY <2>1, <3>2, <3>4, <3>5, <3>6, <3>7 DEF n, p, o
    <2>3. CASE t < Len(b)
      <3>1. /\ n \in Nat \ {0} /\ o \in Nat /\ t + n \in Stops(a)
            /\ t + n <= Len(b)
            /\ ChunkAt(a, t + n) = o + n + 5 /\ o + n + 5 <= Len(cs)
            /\ cs[o + 1].is = "size" /\ cs[o + 1].val = n
            /\ cs[o + 2].is = "cr" /\ cs[o + 3].is = "lf"
            /\ \A i \in 1..n : cs[o + 3 + i] = b[t + i]
            /\ cs[o + n + 4].is = "cr" /\ cs[o + n + 5].is = "lf"
        BY <1>5, <2>3
      <3> HIDE DEF n, o
      <3>2. ASSUME NEW k \in 1..n + 5 PROVE s[p + k] = cs[o + k]
        <4>1. o + k \in 1..Len(cs) /\ B + (o + k) = p + k
          BY <1>2, <2>1, <3>1
        <4> QED BY <1>2, <4>1
      <3>3. s[p + 1] = cs[o + 1] /\ s[p + 2] = cs[o + 2] /\ s[p + 3] = cs[o + 3]
        BY <3>1, <3>2
      <3>4. s[p + n + 4] = cs[o + n + 4] /\ s[p + n + 5] = cs[o + n + 5]
        <4>1. n + 4 \in 1..n + 5 /\ n + 5 \in 1..n + 5 /\ p + (n + 4) = p + n + 4
              /\ p + (n + 5) = p + n + 5 /\ o + (n + 4) = o + n + 4 /\ o + (n + 5) = o + n + 5
          BY <1>2, <3>1
        <4> QED BY <3>2, <4>1
      <3>5. ASSUME NEW i \in 1..n PROVE s[p + 3 + i] = b[t + i]
        <4>1. 3 + i \in 1..n + 5 /\ p + (3 + i) = p + 3 + i /\ o + (3 + i) = o + 3 + i
          BY <1>2, <3>1
        <4>2. s[p + (3 + i)] = cs[o + (3 + i)]
          BY <3>2, <4>1
        <4>3. cs[o + 3 + i] = b[t + i]
          BY <3>1
        <4> QED BY <4>1, <4>2, <4>3
      <3>6. p \in Nat /\ p >= B /\ p + n + 5 <= Len(s) /\ p + n + 5 # Len(s) /\ n # 0 /\ n \in Nat
            /\ B + ChunkAt(a, t + n) = p + n + 5
        <4>1. B \in Nat /\ n \in Nat /\ n # 0 /\ o \in Nat /\ Len(cs) \in Nat /\ o + n + 5 <= Len(cs)
              /\ Len(s) = B + Len(cs) + 5
          BY <1>2, <2>1, <3>1
        <4>2. p \in Nat /\ p >= B /\ p + n + 5 <= Len(s) /\ p + n + 5 # Len(s)
          BY <4>1
        <4>3. B + ChunkAt(a, t + n) = p + n + 5
          <5>1. ChunkAt(a, t + n) = o + n + 5
            BY <3>1
          <5> QED BY <4>1, <5>1
        <4> QED BY <4>1, <4>2, <4>3
      <3>7. t # Len(b)
        BY <1>1, <2>1, <2>3
      <3> HIDE DEF p
      <3>8. /\ s[p + 1].is = "size" /\ s[p + 1].val = n
            /\ s[p + 2].is = "cr" /\ s[p + 3].is = "lf"
            /\ s[p + n + 4].is = "cr" /\ s[p + n + 5].is = "lf"
        BY <3>1, <3>3, <3>4
      <3> QED BY <2>1, <3>1, <3>5, <3>6, <3>7, <3>8 DEF n, p, o
    <2> QED BY <1>1, <2>1, <2>2, <2>3
  <1> QED BY <1>3, <1>6 DEF b, B, s, Size

-----------------------------------------------------------------------------
(***************************************************************************)
(* Labels.  Every symbol of a stream is that of an answer, and the next is *)
(* the one behind it in the same answer, or the first of another one if it *)
(* is the last.  The label at 0 is that of the symbol before the stream.   *)
(***************************************************************************)
Label == {x \in [of : Answers, at : Nat] : x.at \in 1..Size(x.of)}
Spot(a, k) == [of |-> a, at |-> k]
Glyph(x) == Sent(x.of)[x.at]
Closed(x) == x.at = Size(x.of)
Follows(x, y) == IF Closed(x) THEN y.at = 1 ELSE y = Spot(x.of, x.at + 1)

Labelled(r, L, open) ==
  /\ r \in Seq(Symbol)
  /\ L \in [0..Len(r) -> Label]
  /\ \A i \in 1..Len(r) : r[i] = Glyph(L[i]) /\ Follows(L[i - 1], L[i])
  /\ open => Closed(L[Len(r)])

LEMMA LabelFacts ==
  ASSUME ReportTyped, NEW x \in Label
  PROVE  /\ x.of \in Answers /\ x.at \in 1..Size(x.of) /\ x.at \in Nat /\ Size(x.of) \in Nat
         /\ x = Spot(x.of, x.at) /\ Glyph(x) \in Symbol
  <1>1. x.of \in Answers /\ x.at \in 1..Size(x.of) /\ x.at \in Nat
    BY DEF Label
  <1>2. Sent(x.of) \in Seq(Symbol) /\ Size(x.of) \in Nat
    BY <1>1, AnswerHead
  <1>3. x = Spot(x.of, x.at)
    BY DEF Label, Spot
  <1>4. Glyph(x) \in Symbol
    BY <1>1, <1>2 DEF Glyph, Size
  <1> QED BY <1>1, <1>2, <1>3, <1>4

LEMMA SpotFacts ==
  ASSUME ReportTyped, NEW a \in Answers, NEW k \in 1..Size(a)
  PROVE  /\ Spot(a, k) \in Label /\ Spot(a, k).of = a /\ Spot(a, k).at = k
         /\ Glyph(Spot(a, k)) = Sent(a)[k]
  <1>1. k \in Nat
    BY AnswerHead
  <1> QED BY <1>1 DEF Spot, Label, Glyph

LEMMA NatInduct ==
  ASSUME NEW T \in SUBSET Nat, 0 \in T, \A n \in T : n + 1 \in T
  PROVE  T = Nat
  <1> SUFFICES ASSUME Nat \ T # {} PROVE FALSE
    OBVIOUS
  <1>1. \E x \in Nat \ T : \A y \in Nat \ T : ~ (<<y, x>> \in OpToRel(<, Nat))
    BY WFMin, NatLessThanWellFounded
  <1>2. PICK x \in Nat \ T : \A y \in Nat \ T : ~ (y < x)
    BY <1>1 DEF OpToRel
  <1>3. x # 0 /\ x - 1 \in Nat /\ x - 1 < x /\ x - 1 + 1 = x
    BY <1>2
  <1> QED BY <1>2, <1>3

\* As far as the answer goes, its symbols come one after the other.
LEMMA InARow ==
  ASSUME ReportTyped, NEW r, NEW L, NEW o, Labelled(r, L, o)
  PROVE  \A i \in 0..Len(r) : L[0].at + i <= Size(L[0].of) => L[i] = Spot(L[0].of, L[0].at + i)
  <1> DEFINE a == L[0].of  k == L[0].at
             T == {n \in Nat : n <= Len(r) /\ k + n <= Size(a) => L[n] = Spot(a, k + n)}
  <1>1. Len(r) \in Nat /\ L[0] \in Label /\ \A i \in 0..Len(r) : L[i] \in Label
    BY SMTT(30) DEF Labelled
  <1>2. a \in Answers /\ k \in Nat /\ Size(a) \in Nat /\ L[0] = Spot(a, k)
    BY <1>1, LabelFacts
  <1> HIDE DEF a, k
  <1>3. 0 \in T
    BY <1>2
  <1>4. ASSUME NEW n \in T PROVE n + 1 \in T
    <2> SUFFICES ASSUME n + 1 <= Len(r), k + (n + 1) <= Size(a)
                 PROVE  L[n + 1] = Spot(a, k + (n + 1))
      OBVIOUS
    <2>1. n \in Nat /\ n <= Len(r) /\ k + n <= Size(a) /\ k + n # Size(a) /\ n + 1 \in 1..Len(r)
          /\ n + 1 - 1 = n
      BY <1>1, <1>2
    <2>2. L[n] = Spot(a, k + n)
      BY <2>1
    <2>3. Follows(L[n], L[n + 1])
      BY <2>1 DEF Labelled
    <2>4. L[n].of = a /\ L[n].at = k + n
      BY <2>2 DEF Spot
    <2>5. L[n + 1] = Spot(a, k + n + 1)
      BY <2>1, <2>3, <2>4 DEF Follows, Closed
    <2>6. k + n + 1 = k + (n + 1)
      BY <1>2, <2>1
    <2> QED BY <2>5, <2>6
  <1>5. T = Nat
    BY <1>3, <1>4, NatInduct
  <1>6. ASSUME NEW i \in 0..Len(r), k + i <= Size(a) PROVE L[i] = Spot(a, k + i)
    <2>1. i \in T
      BY <1>1, <1>5
    <2> QED BY <1>1, <1>6, <2>1
  <1> QED BY <1>6 DEF a, k

\* The stream after its first n symbols.
LEMMA DropLabels ==
  ASSUME ReportTyped, NEW r, NEW L, NEW o, Labelled(r, L, o), NEW n \in 0..Len(r)
  PROVE  LET rest == SubSeq(r, n + 1, Len(r))
         IN /\ Labelled(rest, [i \in 0..Len(rest) |-> L[n + i]], o)
            /\ Len(rest) = Len(r) - n
            /\ \A i \in 1..Len(rest) : rest[i] = r[n + i]
  <1> DEFINE rest == SubSeq(r, n + 1, Len(r))
             M == [i \in 0..Len(rest) |-> L[n + i]]
  <1>1. r \in Seq(Symbol) /\ Len(r) \in Nat /\ n \in Nat /\ n <= Len(r)
        /\ L \in [0..Len(r) -> Label]
        /\ (\A i \in 1..Len(r) : r[i] = Glyph(L[i]) /\ Follows(L[i - 1], L[i]))
        /\ (o => Closed(L[Len(r)]))
    BY DEF Labelled
  <1>2. /\ rest \in Seq(Symbol) /\ Len(rest) = Len(r) - n
        /\ \A i \in 1..Len(rest) : rest[i] = r[n + i]
    <2>1. \A i \in n + 1..Len(r) : r[i] \in Symbol
      BY <1>1
    <2>2. /\ rest \in Seq(Symbol)
          /\ Len(rest) = IF n + 1 <= Len(r) THEN Len(r) - (n + 1) + 1 ELSE 0
          /\ \A i \in 1..Len(r) - (n + 1) + 1 : rest[i] = r[n + 1 + i - 1]
      BY <1>1, <2>1, SubSeqProperties
    <2>3. Len(rest) = Len(r) - n /\ Len(r) - (n + 1) + 1 = Len(r) - n
      BY <1>1, <2>2
    <2> HIDE DEF rest
    <2>4. ASSUME NEW i \in 1..Len(rest) PROVE rest[i] = r[n + i]
      <3>0. n \in Int /\ i \in Int
        BY <1>1, <2>3
      <3>1. n + 1 + i - 1 = n + i
        BY <3>0
      <3> QED BY <2>2, <2>3, <3>1
    <2> QED BY <2>2, <2>3, <2>4
  <1> HIDE DEF rest
  <1>3. M \in [0..Len(rest) -> Label] /\ \A i \in 0..Len(rest) : M[i] = L[n + i]
    BY <1>1, <1>2
  <1>4. ASSUME NEW i \in 1..Len(rest)
        PROVE  rest[i] = Glyph(M[i]) /\ Follows(M[i - 1], M[i])
    <2>1. i - 1 \in 0..Len(rest) /\ i \in 0..Len(rest) /\ n + i \in 1..Len(r)
          /\ n + (i - 1) = n + i - 1
      BY <1>1, <1>2
    <2>2. M[i] = L[n + i] /\ M[i - 1] = L[n + i - 1]
      BY <1>3, <2>1
    <2>3. r[n + i] = Glyph(L[n + i]) /\ Follows(L[n + i - 1], L[n + i])
      BY <1>1, <2>1
    <2> QED BY <1>2, <2>2, <2>3
  <1>5. o => Closed(M[Len(rest)])
    <2>1. Len(rest) \in 0..Len(rest) /\ n + Len(rest) = Len(r)
      BY <1>1, <1>2
    <2> QED BY <1>1, <1>3, <2>1
  <1> HIDE DEF M
  <1>6. Labelled(rest, M, o)
    BY <1>2, <1>3, <1>4, <1>5 DEF Labelled
  <1> QED BY <1>2, <1>6 DEF rest, M

\* A stream whose last answer is complete, and the next answer or a part of it.
LEMMA AppendLabels ==
  ASSUME ReportTyped, NEW r, NEW L, Labelled(r, L, TRUE),
         NEW a \in Answers, NEW k \in 0..Size(a), NEW o, o => k = Size(a)
  PROVE  LET more == r \o SubSeq(Sent(a), 1, k)
             M == [i \in 0..Len(more) |-> IF i <= Len(r) THEN L[i] ELSE Spot(a, i - Len(r))]
         IN Labelled(more, M, o) /\ Len(more) = Len(r) + k
  <1> DEFINE s == SubSeq(Sent(a), 1, k)
             more == r \o s
             M == [i \in 0..Len(more) |-> IF i <= Len(r) THEN L[i] ELSE Spot(a, i - Len(r))]
  <1>1. r \in Seq(Symbol) /\ Len(r) \in Nat
        /\ L \in [0..Len(r) -> Label]
        /\ (\A i \in 1..Len(r) : r[i] = Glyph(L[i]) /\ Follows(L[i - 1], L[i]))
        /\ Closed(L[Len(r)])
    BY DEF Labelled
  <1>2. Sent(a) \in Seq(Symbol) /\ Size(a) \in Nat /\ Size(a) = Len(Sent(a)) /\ Size(a) >= 8 /\ k \in Nat
    BY AnswerHead DEF Size
  <1>3. s \in Seq(Symbol) /\ Len(s) = k /\ \A i \in 1..k : s[i] = Sent(a)[i]
    <2>1. \A i \in 1..k : Sent(a)[i] \in Symbol
      BY <1>2
    <2>2. /\ s \in Seq(Symbol) /\ Len(s) = IF 1 <= k THEN k - 1 + 1 ELSE 0
          /\ \A i \in 1..k - 1 + 1 : s[i] = Sent(a)[1 + i - 1]
      BY <1>2, <2>1, SubSeqProperties
    <2>3. ASSUME NEW i \in 1..k PROVE s[i] = Sent(a)[i]
      <3>1. i \in 1..k - 1 + 1 /\ 1 + i - 1 = i
        BY <1>2
      <3> QED BY <2>2, <3>1
    <2>4. Len(s) = k
      BY <1>2, <2>2
    <2> QED BY <2>2, <2>3, <2>4
  <1> HIDE DEF s
  <1>4. /\ more \in Seq(Symbol) /\ Len(more) = Len(r) + k
        /\ \A i \in 1..Len(r) : more[i] = r[i]
        /\ \A i \in 1..k : more[Len(r) + i] = s[i]
    <2>1. /\ more \in Seq(Symbol) /\ Len(more) = Len(r) + Len(s)
          /\ \A i \in 1..Len(r) : more[i] = r[i]
          /\ \A i \in 1..Len(s) : more[Len(r) + i] = s[i]
      <3>1. r \in Seq(Symbol) /\ s \in Seq(Symbol)
        BY <1>1, <1>3
      <3> QED BY <3>1, Joined
    <2> QED BY <1>3, <2>1
  <1> HIDE DEF more
  <1>5. /\ \A i \in 0..Len(r) : M[i] = L[i]
        /\ \A i \in 1..k : M[Len(r) + i] = Spot(a, i)
    <2>1. ASSUME NEW i \in 0..Len(r) PROVE M[i] = L[i]
      BY <1>1, <1>2, <1>4
    <2>2. ASSUME NEW i \in 1..k PROVE M[Len(r) + i] = Spot(a, i)
      <3>1. Len(r) + i \in 0..Len(more) /\ ~(Len(r) + i <= Len(r)) /\ Len(r) + i - Len(r) = i
        BY <1>1, <1>2, <1>4
      <3> QED BY <3>1
    <2> QED BY <2>1, <2>2
  <1>6. M \in [0..Len(more) -> Label]
    <2>1. ASSUME NEW i \in 0..Len(more)
          PROVE  (IF i <= Len(r) THEN L[i] ELSE Spot(a, i - Len(r))) \in Label
      <3>1. CASE i <= Len(r)
        BY <1>1, <3>1
      <3>2. CASE ~(i <= Len(r))
        <4>1. i - Len(r) \in 1..Size(a)
          BY <1>1, <1>2, <1>4, <3>2
        <4> QED BY <3>2, <4>1, SpotFacts
      <3> QED BY <3>1, <3>2
    <2> QED BY <2>1
  <1> HIDE DEF M
  <1>7. ASSUME NEW i \in 1..Len(more)
        PROVE  more[i] = Glyph(M[i]) /\ Follows(M[i - 1], M[i])
    <2>1. CASE i <= Len(r)
      <3>1. i \in 1..Len(r) /\ i \in 0..Len(r) /\ i - 1 \in 0..Len(r)
        BY <1>1, <2>1
      <3> QED BY <1>1, <1>4, <1>5, <3>1
    <2>2. CASE ~(i <= Len(r))
      <3> DEFINE j == i - Len(r)
      <3>1. j \in 1..k /\ i = Len(r) + j /\ j \in 1..Size(a)
        BY <1>1, <1>2, <1>4, <2>2
      <3> HIDE DEF j
      <3>2. M[i] = Spot(a, j) /\ more[i] = Sent(a)[j]
        BY <1>3, <1>4, <1>5, <3>1
      <3>3. more[i] = Glyph(M[i]) /\ M[i].of = a /\ M[i].at = j
        BY <3>1, <3>2, SpotFacts
      <3>4. CASE j = 1
        <4>1. i - 1 = Len(r)
          BY <1>1, <3>1, <3>4
        <4>2. M[i - 1] = L[Len(r)]
          BY <1>1, <1>5, <4>1
        <4> QED BY <1>1, <3>3, <3>4, <4>2 DEF Follows
      <3>5. CASE j # 1
        <4>1. j - 1 \in 1..k /\ i - 1 = Len(r) + (j - 1) /\ j - 1 # Size(a) /\ j - 1 + 1 = j
              /\ j - 1 \in 1..Size(a)
          BY <1>1, <1>2, <3>1, <3>5
        <4>2. M[i - 1] = Spot(a, j - 1)
          BY <1>5, <4>1
        <4>3. M[i - 1].of = a /\ M[i - 1].at = j - 1
          BY <4>1, <4>2, SpotFacts
        <4> QED BY <3>2, <3>3, <4>1, <4>3 DEF Follows, Closed
      <3> QED BY <3>3, <3>4, <3>5
    <2> QED BY <2>1, <2>2
  <1>8. o => Closed(M[Len(more)])
    <2> SUFFICES ASSUME o PROVE Closed(M[Len(more)])
      OBVIOUS
    <2>1. k = Size(a) /\ k \in 1..k /\ k \in 1..Size(a) /\ Len(more) = Len(r) + k
      BY <1>2, <1>4
    <2>2. M[Len(more)] = Spot(a, k)
      BY <1>5, <2>1
    <2> QED BY <2>1, <2>2, SpotFacts DEF Closed
  <1>9. Labelled(more, M, o)
    BY <1>4, <1>6, <1>7, <1>8 DEF Labelled
  <1> QED BY <1>4, <1>9 DEF more, M, s

\* A new answer of which the first symbol is skipped.
LEMMA SkippedLabels ==
  ASSUME ReportTyped, NEW a \in Answers, NEW k \in 1..Size(a), NEW o, o => k = Size(a)
  PROVE  LET s == SubSeq(Sent(a), 2, k)
         IN Labelled(s, [i \in 0..Len(s) |-> Spot(a, i + 1)], o) /\ Len(s) = k - 1
  <1> DEFINE s == SubSeq(Sent(a), 2, k)
             M == [i \in 0..Len(s) |-> Spot(a, i + 1)]
  <1>1. Sent(a) \in Seq(Symbol) /\ Size(a) \in Nat /\ Size(a) = Len(Sent(a)) /\ k \in Nat
    BY AnswerHead DEF Size
  <1>2. s \in Seq(Symbol) /\ Len(s) = k - 1 /\ \A i \in 1..k - 1 : s[i] = Sent(a)[i + 1]
    <2>1. \A i \in 2..k : Sent(a)[i] \in Symbol
      BY <1>1
    <2>2. /\ s \in Seq(Symbol) /\ Len(s) = IF 2 <= k THEN k - 2 + 1 ELSE 0
          /\ \A i \in 1..k - 2 + 1 : s[i] = Sent(a)[2 + i - 1]
      BY <1>1, <2>1, SubSeqProperties
    <2>3. ASSUME NEW i \in 1..k - 1 PROVE s[i] = Sent(a)[i + 1]
      <3>1. i \in 1..k - 2 + 1 /\ 2 + i - 1 = i + 1
        BY <1>1
      <3> QED BY <2>2, <3>1
    <2>4. Len(s) = k - 1
      BY <1>1, <2>2
    <2> QED BY <2>2, <2>3, <2>4
  <1> HIDE DEF s
  <1>3. ASSUME NEW i \in 0..Len(s) PROVE i + 1 \in 1..Size(a) /\ M[i] = Spot(a, i + 1)
    BY <1>1, <1>2
  <1>4. M \in [0..Len(s) -> Label]
    BY <1>3, SpotFacts
  <1>5. ASSUME NEW i \in 1..Len(s) PROVE s[i] = Glyph(M[i]) /\ Follows(M[i - 1], M[i])
    <2>1. i \in 0..Len(s) /\ i - 1 \in 0..Len(s) /\ i - 1 + 1 = i /\ i # Size(a) /\ i \in 1..k - 1
      BY <1>1, <1>2
    <2>2. M[i] = Spot(a, i + 1) /\ M[i - 1] = Spot(a, i) /\ i + 1 \in 1..Size(a) /\ i \in 1..Size(a)
      BY <1>1, <1>2, <1>3, <2>1
    <2>3. s[i] = Glyph(M[i])
      BY <1>2, <2>1, <2>2, SpotFacts
    <2>4. Spot(a, i).of = a /\ Spot(a, i).at = i
      BY <2>2, SpotFacts
    <2> QED BY <2>1, <2>2, <2>3, <2>4 DEF Follows, Closed
  <1>6. o => Closed(M[Len(s)])
    <2> SUFFICES ASSUME o PROVE Closed(M[Len(s)])
      OBVIOUS
    <2>1. Len(s) \in 0..Len(s) /\ Len(s) + 1 = Size(a) /\ Size(a) \in 1..Size(a)
      BY <1>1, <1>2
    <2>2. M[Len(s)] = Spot(a, Size(a))
      BY <1>3, <2>1
    <2> QED BY <2>1, <2>2, SpotFacts DEF Closed
  <1> HIDE DEF M
  <1>7. Labelled(s, M, o)
    BY <1>2, <1>4, <1>5, <1>6 DEF Labelled
  <1> QED BY <1>2, <1>7 DEF s, M

\* No stream at all.
LEMMA EmptyLabels ==
  ASSUME ReportTyped
  PROVE  \E L : \A o : Labelled(<<>>, L, o)
  <1> DEFINE a == [req |-> Asking("OPTIONS", NoFile), how |-> "length"]
             M == [i \in 0..0 |-> Spot(a, Size(a))]
  <1>1. a \in Answers
    BY DEF Answers, Made, Opening
  <1>2. Size(a) \in 1..Size(a)
    BY <1>1, AnswerHead
  <1>3. Spot(a, Size(a)) \in Label /\ Closed(Spot(a, Size(a)))
    BY <1>1, <1>2, SpotFacts DEF Closed
  <1>4. <<>> \in Seq(Symbol) /\ Len(<<>>) = 0
    OBVIOUS
  <1> HIDE DEF a
  <1>5. M \in [0..0 -> Label] /\ M[0] = Spot(a, Size(a))
    BY <1>3
  <1> HIDE DEF M
  <1>6. ASSUME NEW o PROVE Labelled(<<>>, M, o)
    BY <1>3, <1>4, <1>5 DEF Labelled
  <1> QED BY <1>6

\* Wherever in the stream one begins.
LEMMA Upcoming ==
  ASSUME ReportTyped, NEW r, NEW L, NEW o, Labelled(r, L, o), NEW j \in 0..Len(r)
  PROVE  \A i \in 1..(Len(r) - j) :
           L[j].at + i <= Size(L[j].of) =>
             L[j + i] = Spot(L[j].of, L[j].at + i) /\ r[j + i] = Sent(L[j].of)[L[j].at + i]
  <1> DEFINE rest == SubSeq(r, j + 1, Len(r))
             M == [i \in 0..Len(rest) |-> L[j + i]]
  <1>0. r \in Seq(Symbol) /\ \A i \in 0..Len(r) : L[i] \in Label
    BY DEF Labelled
  <1>1. Labelled(rest, M, o) /\ Len(rest) = Len(r) - j /\ \A i \in 1..Len(rest) : rest[i] = r[j + i]
    BY DropLabels
  <1>2. Len(r) \in Nat /\ j \in Nat
    <2> HIDE DEF rest, M
    <2> QED BY <1>0
  <1>3. M[0] = L[j] /\ \A i \in 1..Len(rest) : M[i] = L[j + i]
    BY <1>1, <1>2
  <1>4. L[j].of \in Answers /\ L[j].at \in Nat /\ Size(L[j].of) \in Nat /\ L[j].at >= 1
    BY <1>0, LabelFacts
  <1> HIDE DEF M, rest
  <1>5. ASSUME NEW i \in 1..(Len(r) - j), L[j].at + i <= Size(L[j].of)
        PROVE  L[j + i] = Spot(L[j].of, L[j].at + i) /\ r[j + i] = Sent(L[j].of)[L[j].at + i]
    <2>1. i \in 1..Len(rest) /\ i \in 0..Len(rest)
      BY <1>1, <1>2
    <2>2. M[i] = Spot(L[j].of, L[j].at + i)
      BY <1>1, <1>3, <1>5, <2>1, InARow
    <2>3. rest[i] = Glyph(M[i])
      BY <1>1, <2>1 DEF Labelled
    <2>4. L[j].at + i \in 1..Size(L[j].of)
      BY <1>2, <1>4, <1>5
    <2>5. Glyph(M[i]) = Sent(L[j].of)[L[j].at + i]
      BY <1>4, <2>2, <2>4, SpotFacts
    <2> QED BY <1>1, <1>3, <2>1, <2>2, <2>3, <2>5
  <1> QED BY <1>5

-----------------------------------------------------------------------------
(***************************************************************************)
(* Ends of lines.                                                          *)
(***************************************************************************)
\* A line of one symbol.
LEMMA FindLine ==
  ASSUME NEW s \in Seq(Symbol),
         Len(s) >= 1 => s[1].is # "cr",
         Len(s) >= 2 => s[2].is = "cr",
         Len(s) >= 3 => s[3].is = "lf"
  PROVE  FindCrLf(s) = IF Len(s) >= 3 THEN 2 ELSE 0
  <1> DEFINE ends == {i \in 1..(Len(s) - 1) : s[i].is = "cr" /\ s[i + 1].is = "lf"}
  <1>1. Len(s) \in Nat /\ \A i \in ends : i \in 1..(Len(s) - 1) /\ s[i].is = "cr" /\ i # 1
    BY DEF ends
  <1>2. FindCrLf(s) = IF ends = {} THEN 0 ELSE CHOOSE i \in ends : \A j \in ends : i <= j
    BY DEF FindCrLf
  <1>3. CASE Len(s) >= 3
    <2>1. 2 \in ends
      BY <1>1, <1>3
    <2>2. \A j \in ends : 2 <= j
      BY <1>1
    <2> HIDE DEF ends
    <2>3. (CHOOSE i \in ends : \A j \in ends : i <= j) = 2
      <3>1. \A i \in ends : (\A j \in ends : i <= j) => i = 2
        BY <1>1, <2>1, <2>2
      <3> QED BY <2>1, <2>2, <3>1
    <2> QED BY <1>2, <1>3, <2>1, <2>3
  <1>4. CASE ~(Len(s) >= 3)
    <2>1. ends = {}
      BY <1>1, <1>4
    <2> QED BY <1>2, <1>4, <2>1
  <1> QED BY <1>3, <1>4

LEMMA FindEmpty ==
  ASSUME NEW s \in Seq(Symbol),
         Len(s) >= 1 => s[1].is = "cr",
         Len(s) >= 2 => s[2].is = "lf"
  PROVE  FindCrLf(s) = IF Len(s) >= 2 THEN 1 ELSE 0
  <1> DEFINE ends == {i \in 1..(Len(s) - 1) : s[i].is = "cr" /\ s[i + 1].is = "lf"}
  <1>1. Len(s) \in Nat /\ \A i \in ends : i \in 1..(Len(s) - 1)
    BY DEF ends
  <1>2. FindCrLf(s) = IF ends = {} THEN 0 ELSE CHOOSE i \in ends : \A j \in ends : i <= j
    BY DEF FindCrLf
  <1>3. CASE Len(s) >= 2
    <2>1. 1 \in ends
      BY <1>1, <1>3
    <2>2. \A j \in ends : 1 <= j
      BY <1>1
    <2> HIDE DEF ends
    <2>3. (CHOOSE i \in ends : \A j \in ends : i <= j) = 1
      <3>1. \A i \in ends : (\A j \in ends : i <= j) => i = 1
        BY <1>1, <2>1, <2>2
      <3> QED BY <2>1, <2>2, <3>1
    <2> QED BY <1>2, <1>3, <2>1, <2>3
  <1>4. CASE ~(Len(s) >= 2)
    <2>1. ends = {}
      BY <1>1, <1>4
    <2> QED BY <1>2, <1>4, <2>1
  <1> QED BY <1>3, <1>4

LEMMA FindNothing ==
  ASSUME NEW s \in Seq(Symbol), FindCrLf(s) # 0
  PROVE  Len(s) >= 2 /\ FindCrLf(s) \in 1..(Len(s) - 1)
  <1> DEFINE ends == {i \in 1..(Len(s) - 1) : s[i].is = "cr" /\ s[i + 1].is = "lf"}
  <1>1. FindCrLf(s) = IF ends = {} THEN 0 ELSE CHOOSE i \in ends : \A j \in ends : i <= j
    BY DEF FindCrLf
  <1>2. ends # {} /\ Len(s) \in Nat
    BY <1>1
  <1> DEFINE T == {i \in Nat : i \in ends}
  <1>3. \E x \in T : \A y \in T : ~ (<<y, x>> \in OpToRel(<, Nat))
    <2>1. T # {} /\ T \in SUBSET Nat
      BY <1>2
    <2> HIDE DEF T
    <2> QED BY <2>1, WFMin, NatLessThanWellFounded
  <1>4. PICK x \in T : \A y \in T : ~ (y < x)
    BY <1>3 DEF OpToRel
  <1>5. x \in ends /\ \A y \in ends : x <= y
    <2>1. \A y \in ends : y \in T /\ y \in Nat /\ x \in Nat
      OBVIOUS
    <2> QED BY <1>4, <2>1
  <1>6. (CHOOSE i \in ends : \A j \in ends : i <= j) \in ends
    <2> HIDE DEF ends, T
    <2> QED BY <1>5
  <1>7. \A i \in ends : i \in 1..(Len(s) - 1)
    OBVIOUS
  <1> HIDE DEF ends
  <1> QED BY <1>1, <1>2, <1>6, <1>7

-----------------------------------------------------------------------------
(***************************************************************************)
(* What is ahead of the client: the buffer and the wire.                   *)
(***************************************************************************)
LEMMA Dropped ==
  ASSUME NEW S, NEW s \in Seq(S), NEW n \in 0..Len(s)
  PROVE  /\ SubSeq(s, n + 1, Len(s)) \in Seq(S)
         /\ Len(SubSeq(s, n + 1, Len(s))) = Len(s) - n
         /\ \A i \in 1..(Len(s) - n) : SubSeq(s, n + 1, Len(s))[i] = s[n + i]
  <1> DEFINE t == SubSeq(s, n + 1, Len(s))
  <1>1. Len(s) \in Nat /\ n \in Nat /\ \A i \in n + 1..Len(s) : s[i] \in S
    OBVIOUS
  <1>2. /\ t \in Seq(S)
        /\ Len(t) = IF n + 1 <= Len(s) THEN Len(s) - (n + 1) + 1 ELSE 0
        /\ \A i \in 1..Len(s) - (n + 1) + 1 : t[i] = s[n + 1 + i - 1]
    BY <1>1, SubSeqProperties
  <1> HIDE DEF t
  <1>3. Len(t) = Len(s) - n
    BY <1>1, <1>2
  <1>4. ASSUME NEW i \in 1..(Len(s) - n) PROVE t[i] = s[n + i]
    <2>1. i \in 1..Len(s) - (n + 1) + 1 /\ n + 1 + i - 1 = n + i
      BY <1>1
    <2> QED BY <1>2, <2>1
  <1> QED BY <1>2, <1>3, <1>4 DEF t

LEMMA Between ==
  ASSUME NEW S, NEW s \in Seq(S), NEW m \in Nat \ {0}, NEW k \in Nat, k <= Len(s), m <= k + 1
  PROVE  /\ SubSeq(s, m, k) \in Seq(S) /\ Len(SubSeq(s, m, k)) = k + 1 - m
         /\ \A i \in 1..(k + 1 - m) : SubSeq(s, m, k)[i] = s[m - 1 + i]
  <1> DEFINE t == SubSeq(s, m, k)
  <1>1. Len(s) \in Nat /\ \A i \in m..k : s[i] \in S
    OBVIOUS
  <1>2. /\ t \in Seq(S)
        /\ Len(t) = IF m <= k THEN k - m + 1 ELSE 0
        /\ \A i \in 1..k - m + 1 : t[i] = s[m + i - 1]
    BY <1>1, SubSeqProperties
  <1> HIDE DEF t
  <1>3. Len(t) = k + 1 - m
    BY <1>1, <1>2
  <1>4. ASSUME NEW i \in 1..(k + 1 - m) PROVE t[i] = s[m - 1 + i]
    <2>1. i \in 1..k - m + 1 /\ m + i - 1 = m - 1 + i
      BY <1>1
    <2> QED BY <1>2, <2>1
  <1> QED BY <1>2, <1>3, <1>4 DEF t

LEMMA CutInTwo ==
  ASSUME NEW S, NEW s \in Seq(S), NEW m \in {1, 2}, NEW k \in 1..Len(s)
  PROVE  SubSeq(s, m, k) \o SubSeq(s, k + 1, Len(s)) = SubSeq(s, m, Len(s))
  <1> DEFINE x == SubSeq(s, m, k)  y == SubSeq(s, k + 1, Len(s))  z == SubSeq(s, m, Len(s))
  <1>0. Len(s) \in Nat /\ k \in Nat /\ k >= 1 /\ k <= Len(s) /\ m \in Nat \ {0} /\ m <= k + 1 /\ m <= Len(s) + 1
        /\ k \in 0..Len(s)
    OBVIOUS
  <1>1. x \in Seq(S) /\ Len(x) = k + 1 - m /\ \A i \in 1..(k + 1 - m) : x[i] = s[m - 1 + i]
    BY <1>0, Between
  <1>2. z \in Seq(S) /\ Len(z) = Len(s) + 1 - m /\ \A i \in 1..(Len(s) + 1 - m) : z[i] = s[m - 1 + i]
    BY <1>0, Between
  <1>3. y \in Seq(S) /\ Len(y) = Len(s) - k /\ \A i \in 1..(Len(s) - k) : y[i] = s[k + i]
    BY <1>0, Dropped
  <1> HIDE DEF x, y, z
  <1>4. /\ x \o y \in Seq(S) /\ Len(x \o y) = Len(x) + Len(y)
        /\ \A i \in 1..Len(x) : (x \o y)[i] = x[i]
        /\ \A i \in 1..Len(y) : (x \o y)[Len(x) + i] = y[i]
    <2>1. x \in Seq(S) /\ y \in Seq(S)
      BY <1>1, <1>3
    <2> QED BY <2>1, Joined
  <1> DEFINE xy == x \o y
  <1> HIDE DEF xy
  <1>5. Len(xy) = Len(z)
    BY <1>0, <1>1, <1>2, <1>3, <1>4 DEF xy
  <1>6. ASSUME NEW i \in 1..Len(xy) PROVE xy[i] = z[i]
    <2>1. CASE i <= Len(x)
      <3>1. i \in 1..Len(x) /\ i \in 1..(k + 1 - m) /\ i \in 1..(Len(s) + 1 - m)
        BY <1>0, <1>1, <1>2, <1>5, <2>1
      <3>2. xy[i] = x[i]
        BY <1>4, <3>1 DEF xy
      <3> QED BY <1>1, <1>2, <3>1, <3>2
    <2>2. CASE ~(i <= Len(x))
      <3> DEFINE j == i - Len(x)
      <3>1. j \in 1..Len(y) /\ j \in 1..(Len(s) - k) /\ Len(x) + j = i /\ i \in 1..(Len(s) + 1 - m)
            /\ k + j = m - 1 + i
        BY <1>0, <1>1, <1>2, <1>3, <1>5, <2>2
      <3> HIDE DEF j
      <3>2. xy[i] = y[j]
        BY <1>4, <3>1 DEF xy
      <3> QED BY <1>2, <1>3, <3>1, <3>2
    <2> QED BY <2>1, <2>2
  <1>7. xy \in Seq(S) /\ z \in Seq(S)
    BY <1>2, <1>4 DEF xy
  <1>8. xy = z
    BY <1>5, <1>6, <1>7, SeqEqual
  <1> QED BY <1>8 DEF xy, x, y, z

LEMMA DropOfTwo ==
  ASSUME NEW S, NEW b \in Seq(S), NEW w \in Seq(S), NEW n \in 0..(Len(b) + 1)
  PROVE  /\ n <= Len(b) =>
              SubSeq(b, n + 1, Len(b)) \o w = SubSeq(b \o w, n + 1, Len(b \o w))
         /\ n = Len(b) + 1 /\ w # <<>> =>
              SubSeq(w, 2, Len(w)) = SubSeq(b \o w, n + 1, Len(b \o w))
  <1>1. Len(b) \in Nat /\ Len(w) \in Nat /\ n \in Nat
    OBVIOUS
  <1> DEFINE r == b \o w
  <1>2. /\ r \in Seq(S) /\ Len(r) = Len(b) + Len(w)
        /\ \A i \in 1..Len(b) : r[i] = b[i]
        /\ \A i \in 1..Len(w) : r[Len(b) + i] = w[i]
    BY Joined
  <1> HIDE DEF r
  <1> DEFINE z == SubSeq(r, n + 1, Len(r))
  <1>3. ASSUME n <= Len(b)
        PROVE  SubSeq(b, n + 1, Len(b)) \o w = z
    <2> DEFINE x == SubSeq(b, n + 1, Len(b))
    <2>1. n \in 0..Len(b) /\ n \in 0..Len(r)
      BY <1>1, <1>2, <1>3
    <2>2. x \in Seq(S) /\ Len(x) = Len(b) - n /\ \A i \in 1..(Len(b) - n) : x[i] = b[n + i]
      BY <2>1, Dropped
    <2>3. z \in Seq(S) /\ Len(z) = Len(r) - n /\ \A i \in 1..(Len(r) - n) : z[i] = r[n + i]
      BY <1>2, <2>1, Dropped
    <2> HIDE DEF x, z
    <2> DEFINE y == x \o w
    <2>4. /\ y \in Seq(S) /\ Len(y) = Len(x) + Len(w)
          /\ \A i \in 1..Len(x) : y[i] = x[i]
          /\ \A i \in 1..Len(w) : y[Len(x) + i] = w[i]
      <3>1. x \in Seq(S)
        BY <2>2
      <3> QED BY <3>1, Joined
    <2> HIDE DEF y
    <2>5. Len(y) = Len(z)
      BY <1>1, <1>2, <2>2, <2>3, <2>4, SMTT(30)
    <2>6. ASSUME NEW i \in 1..Len(y) PROVE y[i] = z[i]
      <3>1. CASE i <= Len(x)
        <4>1. i \in 1..Len(x) /\ i \in 1..(Len(b) - n) /\ i \in 1..(Len(r) - n) /\ n + i \in 1..Len(b)
          BY <1>1, <1>2, <2>1, <2>2, <3>1
        <4> QED BY <1>2, <2>2, <2>3, <2>4, <4>1
      <3>2. CASE ~(i <= Len(x))
        <4> DEFINE j == i - Len(x)
        <4>1. j \in 1..Len(w) /\ i = Len(x) + j /\ i \in 1..(Len(r) - n) /\ n + i = Len(b) + j
          BY <1>1, <1>2, <2>1, <2>2, <2>4, <3>2
        <4> HIDE DEF j
        <4>2. y[i] = w[j]
          BY <2>4, <4>1
        <4>3. z[i] = r[n + i]
          BY <2>3, <4>1
        <4> QED BY <1>2, <4>1, <4>2, <4>3
      <3> QED BY <3>1, <3>2
    <2>7. y = z
      BY <2>3, <2>4, <2>5, <2>6, SeqEqual
    <2> QED BY <2>7 DEF y, x
  <1>4. ASSUME n = Len(b) + 1, w # <<>>
        PROVE  SubSeq(w, 2, Len(w)) = z
    <2> DEFINE x == SubSeq(w, 1 + 1, Len(w))
    <2>0. Len(w) # 0
      BY <1>4
    <2>1. n \in 0..Len(r) /\ 1 \in 0..Len(w)
      BY <1>1, <1>2, <1>4, <2>0
    <2>2. x \in Seq(S) /\ Len(x) = Len(w) - 1 /\ \A i \in 1..(Len(w) - 1) : x[i] = w[1 + i]
      BY <2>1, Dropped
    <2>3. z \in Seq(S) /\ Len(z) = Len(r) - n /\ \A i \in 1..(Len(r) - n) : z[i] = r[n + i]
      BY <1>2, <2>1, Dropped
    <2> HIDE DEF x, z
    <2>5. Len(x) = Len(z)
      BY <1>1, <1>2, <1>4, <2>2, <2>3
    <2>6. ASSUME NEW i \in 1..Len(x) PROVE x[i] = z[i]
      <3>1. i \in 1..(Len(w) - 1) /\ i \in 1..(Len(r) - n) /\ 1 + i \in 1..Len(w) /\ n + i = Len(b) + (1 + i)
        BY <1>1, <1>2, <1>4, <2>2, <2>3, <2>5
      <3> QED BY <1>2, <2>2, <2>3, <3>1
    <2>7. x = z
      BY <2>2, <2>3, <2>5, <2>6, SeqEqual
    <2>8. 1 + 1 = 2
      OBVIOUS
    <2> QED BY <2>7, <2>8 DEF x
  <1> QED BY <1>3, <1>4 DEF r, z

Ahead(c) == IF late[c] THEN SubSeq(wire[c], 2, Len(wire[c])) ELSE buf[c] \o wire[c]

StreamTyped ==
  /\ wire \in [Conn -> Seq(Symbol)] /\ buf \in [Conn -> Seq(Symbol)]
  /\ pos \in [Conn -> Nat] /\ late \in [Conn -> BOOLEAN]
  /\ \A c \in Conn : pos[c] <= Len(buf[c]) /\ (late[c] => buf[c] = <<>>)

LEMMA AheadFacts ==
  ASSUME StreamTyped, NEW c \in Conn
  PROVE  /\ Ahead(c) \in Seq(Symbol) /\ Len(Ahead(c)) \in Nat
         /\ Len(buf[c]) \in Nat /\ Len(buf[c]) <= Len(Ahead(c))
         /\ \A i \in 1..Len(buf[c]) : Ahead(c)[i] = buf[c][i]
         /\ buf[c] \in Seq(Symbol) /\ wire[c] \in Seq(Symbol)
         /\ buf[c] = <<>> /\ wire[c] = <<>> => Ahead(c) = <<>>
         /\ Ahead(c) = <<>> => buf[c] = <<>>
  <1> DEFINE b == buf[c]  w == wire[c]
  <1>1. b \in Seq(Symbol) /\ w \in Seq(Symbol) /\ late[c] \in BOOLEAN /\ (late[c] => b = <<>>)
    BY DEF StreamTyped
  <1>2. Ahead(c) = IF late[c] THEN SubSeq(w, 2, Len(w)) ELSE b \o w
    BY DEF Ahead
  <1> HIDE DEF b, w
  <1>3. CASE late[c]
    <2>1. \A i \in 2..Len(w) : w[i] \in Symbol
      BY <1>1
    <2>2. SubSeq(w, 2, Len(w)) \in Seq(Symbol) /\ (w = <<>> => SubSeq(w, 2, Len(w)) = <<>>)
      <3>1. SubSeq(w, 2, Len(w)) \in Seq(Symbol)
        BY <1>1, <2>1, SubSeqProperties
      <3>2. ASSUME w = <<>> PROVE SubSeq(w, 2, Len(w)) = <<>>
        <4>1. Len(w) \in Int /\ Len(w) < 2 /\ 2 \in Int
          BY <3>2
        <4> QED BY <4>1, SubSeqEmpty
      <3> QED BY <3>1, <3>2
    <2>3. b = <<>> /\ Len(b) = 0
      BY <1>1, <1>3
    <2> QED BY <1>1, <1>2, <1>3, <2>2, <2>3 DEF b, w
  <1>4. CASE ~late[c]
    <2> DEFINE r == b \o w
    <2>1. /\ r \in Seq(Symbol) /\ Len(r) = Len(b) + Len(w) /\ Len(b) \in Nat /\ Len(w) \in Nat
          /\ \A i \in 1..Len(b) : r[i] = b[i]
      BY <1>1, Joined
    <2> HIDE DEF r
    <2>2. b = <<>> /\ w = <<>> => r = <<>>
      BY DEF r
    <2>3. Len(b) <= Len(r) /\ Len(r) \in Nat
      BY <2>1
    <2>4. r = <<>> => b = <<>>
      BY <1>1, <2>1
    <2>5. Ahead(c) = r
      BY <1>2, <1>4 DEF r
    <2> QED BY <1>1, <2>1, <2>2, <2>3, <2>4, <2>5 DEF b, w
  <1> QED BY <1>3, <1>4

\* What is read is no longer on the wire.
LEMMA Consumed ==
  ASSUME StreamTyped, NEW c \in Conn, Consume(c)
  PROVE  StreamTyped' /\ Ahead(c)' = Ahead(c)
  <1>1. PICK k \in 1..Len(wire[c]) :
          /\ buf' = [buf EXCEPT ![c] = buf[c] \o SubSeq(wire[c], IF late[c] THEN 2 ELSE 1, k)]
          /\ wire' = [wire EXCEPT ![c] = SubSeq(wire[c], k + 1, Len(wire[c]))]
    BY DEF Consume, Set
  <1>2. late' = [late EXCEPT ![c] = FALSE] /\ pos' = pos /\ wire[c] # <<>>
    BY DEF Consume, Set
  <1> DEFINE b == buf[c]  w == wire[c]  m == IF late[c] THEN 2 ELSE 1
             x == SubSeq(w, m, k)  y == SubSeq(w, k + 1, Len(w))
  <1>3. b \in Seq(Symbol) /\ w \in Seq(Symbol) /\ late[c] \in BOOLEAN /\ (late[c] => b = <<>>)
        /\ pos[c] \in Nat /\ pos[c] <= Len(b)
    BY DEF StreamTyped
  <1>4. Len(w) \in Nat /\ k \in Nat /\ k >= 1 /\ k <= Len(w) /\ k \in 0..Len(w) /\ k \in 1..Len(w) /\ m \in {1, 2}
        /\ m \in Nat \ {0} /\ m <= k + 1
    BY <1>3
  <1>5. x \in Seq(Symbol) /\ y \in Seq(Symbol)
    <2> HIDE DEF w, m
    <2> QED BY <1>3, <1>4, Between, Dropped
  <1>6. x \o y = SubSeq(w, m, Len(w))
    <2> HIDE DEF w, m
    <2> QED BY <1>3, <1>4, CutInTwo
  <1>7. buf'[c] = b \o x /\ wire'[c] = y /\ late'[c] = FALSE
    BY <1>1, <1>2 DEF StreamTyped
  <1>8. Ahead(c)' = (b \o x) \o y
    BY <1>7 DEF Ahead
  <1>9. (b \o x) \o y = b \o SubSeq(w, m, Len(w))
    <2> HIDE DEF b, x, y, w, m
    <2>1. (b \o x) \o y = b \o (x \o y)
      <3>1. b \in Seq(Symbol) /\ x \in Seq(Symbol) /\ y \in Seq(Symbol)
        BY <1>3, <1>5
      <3> QED BY <3>1, ConcatAssociative
    <2> QED BY <1>6, <2>1
  <1>10. b \o SubSeq(w, m, Len(w)) = Ahead(c)
    <2>1. CASE late[c]
      <3> HIDE DEF w
      <3>1. SubSeq(w, 2, Len(w)) \in Seq(Symbol)
        <4>1. \A i \in 2..Len(w) : w[i] \in Symbol
          BY <1>3
        <4> QED BY <1>4, <4>1, SubSeqProperties
      <3>2. <<>> \o SubSeq(w, 2, Len(w)) = SubSeq(w, 2, Len(w))
        BY <3>1, ConcatEmptySeq
      <3> QED BY <1>3, <2>1, <3>2 DEF Ahead, w
    <2>2. CASE ~late[c]
      <3>1. SubSeq(w, 1, Len(w)) = w
        <4> HIDE DEF w
        <4>1. /\ SubSeq(w, 1, Len(w)) \in Seq(Symbol) /\ Len(SubSeq(w, 1, Len(w))) = Len(w) + 1 - 1
              /\ \A i \in 1..(Len(w) + 1 - 1) : SubSeq(w, 1, Len(w))[i] = w[1 - 1 + i]
          <5>1. 1 \in Nat \ {0} /\ Len(w) <= Len(w) /\ 1 <= Len(w) + 1
            BY <1>4
          <5> QED BY <1>3, <1>4, <5>1, Between
        <4>2. Len(SubSeq(w, 1, Len(w))) = Len(w)
          BY <1>4, <4>1
        <4>3. ASSUME NEW i \in 1..Len(w) PROVE SubSeq(w, 1, Len(w))[i] = w[i]
          <5>1. i \in 1..(Len(w) + 1 - 1) /\ 1 - 1 + i = i
            BY <1>4
          <5> QED BY <4>1, <5>1
        <4> QED BY <1>3, <4>1, <4>2, <4>3, SeqEqual
      <3> QED BY <2>2, <3>1 DEF Ahead
    <2> QED BY <2>1, <2>2
  <1>11. StreamTyped'
    <2> HIDE DEF x, y, b, w, m
    <2>1. b \o x \in Seq(Symbol) /\ Len(b) \in Nat /\ Len(x) \in Nat /\ Len(b \o x) = Len(b) + Len(x)
      BY <1>3, <1>5, Joined
    <2>2. pos[c] <= Len(b \o x)
      BY <1>3, <2>1
    <2>3. wire' \in [Conn -> Seq(Symbol)] /\ buf' \in [Conn -> Seq(Symbol)]
      BY <1>1, <1>5, <2>1 DEF StreamTyped, b, x, y, w, m
    <2>4. pos' \in [Conn -> Nat] /\ late' \in [Conn -> BOOLEAN]
      BY <1>2 DEF StreamTyped
    <2>5. ASSUME NEW d \in Conn PROVE pos'[d] <= Len(buf'[d]) /\ (late'[d] => buf'[d] = <<>>)
      <3>1. CASE d = c
        BY <1>2, <1>7, <2>2, <3>1
      <3>2. CASE d # c
        BY <1>1, <1>2, <3>2 DEF StreamTyped
      <3> QED BY <3>1, <3>2
    <2> QED BY <2>3, <2>4, <2>5 DEF StreamTyped
  <1> QED BY <1>8, <1>9, <1>10, <1>11

LEMMA Skipped ==
  ASSUME StreamTyped, NEW c \in Conn, NEW n \in Nat, ~late[c], n <= Len(buf[c]) + 1,
         SkipTo(c, n), wire' = wire
  PROVE  /\ StreamTyped'
         /\ n <= Len(Ahead(c)) => Ahead(c)' = SubSeq(Ahead(c), n + 1, Len(Ahead(c)))
         /\ n > Len(Ahead(c)) => Ahead(c)' = <<>> /\ n = Len(Ahead(c)) + 1
         /\ late'[c] => n = Len(buf[c]) + 1
         /\ wire[c] = <<>> => Len(Ahead(c)) = Len(buf[c])
  <1> DEFINE b == buf[c]  w == wire[c]  r == b \o w
  <1>1. b \in Seq(Symbol) /\ w \in Seq(Symbol) /\ Len(b) \in Nat /\ Len(w) \in Nat
        /\ Ahead(c) = r
    BY DEF StreamTyped, Ahead
  <1>2. buf' = [buf EXCEPT ![c] = SubSeq(b, n + 1, Len(b))]
        /\ pos' = [pos EXCEPT ![c] = 0] /\ late' = [late EXCEPT ![c] = n > Len(b)]
    BY DEF SkipTo, Set
  <1>3. buf'[c] = SubSeq(b, n + 1, Len(b)) /\ pos'[c] = 0 /\ late'[c] = (n > Len(b)) /\ wire'[c] = w
    BY <1>2 DEF StreamTyped
  <1> HIDE DEF b, w
  <1>4. Len(r) = Len(b) + Len(w) /\ r \in Seq(Symbol)
    BY <1>1, Joined
  <1>5. n \in 0..(Len(b) + 1) /\ n <= Len(b) + 1
    BY <1>1 DEF b
  <1>6. ASSUME n <= Len(b)
        PROVE   /\ n <= Len(r) => Ahead(c)' = SubSeq(r, n + 1, Len(r))
                /\ n > Len(r) => Ahead(c)' = <<>> /\ n = Len(r) + 1
    <2>1. Ahead(c)' = SubSeq(b, n + 1, Len(b)) \o w
      <3>1. ~(n > Len(b))
        BY <1>1, <1>6
      <3> QED BY <1>3, <3>1 DEF Ahead
    <2>2. Ahead(c)' = SubSeq(r, n + 1, Len(r))
      BY <1>1, <1>5, <1>6, <2>1, DropOfTwo
    <2> HIDE DEF r
    <2>3. n <= Len(r) /\ ~(n > Len(r))
      BY <1>1, <1>4, <1>6
    <2> QED BY <1>1, <2>2, <2>3
  <1>7. ASSUME n = Len(b) + 1
        PROVE   /\ n <= Len(r) => Ahead(c)' = SubSeq(r, n + 1, Len(r))
                /\ n > Len(r) => Ahead(c)' = <<>> /\ n = Len(r) + 1
    <2>1. Ahead(c)' = SubSeq(w, 2, Len(w))
      <3>1. n > Len(b)
        BY <1>1, <1>7
      <3> QED BY <1>3, <3>1 DEF Ahead
    <2>2. CASE w # <<>>
      <3>1. Ahead(c)' = SubSeq(r, n + 1, Len(r))
        BY <1>1, <1>5, <1>7, <2>1, <2>2, DropOfTwo
      <3> HIDE DEF r
      <3>2. Len(w) # 0
        BY <1>1, <2>2
      <3>3. n <= Len(r) /\ ~(n > Len(r))
        BY <1>1, <1>4, <1>7, <3>2
      <3> QED BY <1>1, <3>1, <3>3
    <2>3. CASE w = <<>>
      <3>1. Len(w) = 0
        BY <2>3
      <3>2. Ahead(c)' = <<>>
        <4>1. Len(w) \in Int /\ Len(w) < 2 /\ 2 \in Int
          BY <3>1
        <4> QED BY <2>1, <4>1, SubSeqEmpty
      <3> HIDE DEF r
      <3>3. Len(r) = Len(b) /\ n > Len(r) /\ n = Len(r) + 1 /\ ~(n <= Len(r))
        BY <1>1, <1>4, <1>7, <3>1
      <3> QED BY <1>1, <3>2, <3>3
    <2> QED BY <2>2, <2>3
  <1>8. SubSeq(b, n + 1, Len(b)) \in Seq(Symbol)
    <2>1. \A i \in n + 1..Len(b) : b[i] \in Symbol
      BY <1>1
    <2> QED BY <1>1, <2>1, SubSeqProperties
  <1>9. StreamTyped'
    <2>1. wire' \in [Conn -> Seq(Symbol)] /\ buf' \in [Conn -> Seq(Symbol)]
      BY <1>2, <1>8 DEF StreamTyped
    <2>2. pos' \in [Conn -> Nat] /\ late' \in [Conn -> BOOLEAN]
      BY <1>1, <1>2 DEF StreamTyped
    <2>3. late'[c] => buf'[c] = <<>>
      <3>1. ASSUME n > Len(b) PROVE SubSeq(b, n + 1, Len(b)) = <<>>
        <4>1. n + 1 \in Int /\ Len(b) \in Int /\ Len(b) < n + 1
          BY <1>1, <3>1
        <4> QED BY <4>1, SubSeqEmpty
      <3> QED BY <1>3, <3>1
    <2>4. 0 <= Len(SubSeq(b, n + 1, Len(b)))
      <3> DEFINE x == SubSeq(b, n + 1, Len(b))
      <3> HIDE DEF x
      <3>1. x \in Seq(Symbol) => 0 <= Len(x)
        OBVIOUS
      <3> QED BY <1>8, <3>1 DEF x
    <2>5. ASSUME NEW d \in Conn PROVE pos'[d] <= Len(buf'[d]) /\ (late'[d] => buf'[d] = <<>>)
      <3>1. CASE d = c
        BY <1>3, <2>3, <2>4, <3>1
      <3>2. CASE d # c
        BY <1>2, <3>2 DEF StreamTyped
      <3> QED BY <3>1, <3>2
    <2> QED BY <2>1, <2>2, <2>5 DEF StreamTyped
  <1>10. late'[c] => n = Len(b) + 1
    <2> HIDE DEF r
    <2>1. n > Len(b) => n = Len(b) + 1
      BY <1>1, <1>5
    <2> QED BY <1>3, <2>1
  <1>11. w = <<>> => Len(r) = Len(b)
    <2> HIDE DEF r
    <2> QED BY <1>1, <1>4
  <1>12. n <= Len(b) \/ n = Len(b) + 1
    BY <1>1, <1>5
  <1> HIDE DEF r
  <1> QED BY <1>1, <1>6, <1>7, <1>9, <1>10, <1>11, <1>12 DEF b, w

-----------------------------------------------------------------------------
(***************************************************************************)
(* The invariant of a connection.                                          *)
(***************************************************************************)
Reading(c) == ctx[c].state \in {"START", "STATUS_LINE"}
Within(c) == ctx[c].state \in {"HEADER_FIELD", "BODY_IN", "BODY"}
AtBody(c) == ctx[c].state \in {"BODY_IN", "BODY"}

\* OPTIONS has told n of its two addresses, in the order of the server.
Told(c, n) ==
  /\ Len(taken[c]) = n
  /\ n >= 1 => taken[c][1].is = "me"
  /\ n >= 2 => taken[c][2].is = "root"

\* The parser is behind the line j of the head (0 is the status line), ...
InHead(c, x, j) ==
  /\ x.at = 3 + 3 * j
  /\ ~ctx[c].within
  /\ j <= Extra(x.of) => ~ctx[c].chunked
  /\ j = Extra(x.of) + 1 /\ Chunked(x.of) => ctx[c].chunked
  /\ j = Extra(x.of) + 1 /\ ~Chunked(x.of) =>
       ~ctx[c].chunked /\ ctx[c].bodysz = Len(BodyOf(x.of))
  /\ HasBody(asked[c]) => taken[c] = <<>>
  /\ asked[c].what = "OPTIONS" =>
       /\ j > 0 => ~Refused(x.of)
       /\ Told(c, IF j <= 2 THEN j ELSE 2)

\* ... before the body that came with its length, ...
InLength(c, x) ==
  /\ ~Chunked(x.of)
  /\ x.at = Before(x.of)
  /\ ctx[c].bodysz = Len(BodyOf(x.of))
  /\ HasBody(asked[c]) => taken[c] = <<>>

\* ... or before or within the chunk that begins after t symbols of the body.
InChunks(c, x, t) ==
  /\ Chunked(x.of)
  /\ x.at = Before(x.of) + ChunkAt(x.of, t) + IF ctx[c].within THEN 3 ELSE 0
  /\ ctx[c].within => ctx[c].size = ChunkLen(x.of, t)
  /\ HasBody(asked[c]) => taken[c] = SubSeq(BodyOf(x.of), 1, t)

Place(c, x) ==
  /\ Reading(c) => /\ ~ctx[c].chunked /\ ~ctx[c].within
                   /\ taken[c] = <<>>
  /\ Within(c) => /\ StatusAccepted(asked[c].what, Status(x.of))
                  /\ ctx[c].status = Status(x.of)
  /\ ctx[c].state = "HEADER_FIELD" => \E j \in 0..(Extra(x.of) + 1) : InHead(c, x, j)
  /\ AtBody(c) =>
       /\ asked[c].what = "OPTIONS" => ~Refused(x.of) /\ Told(c, 2)
       /\ ctx[c].state = "BODY_IN" => ~ctx[c].within
       /\ ~ctx[c].chunked => InLength(c, x)
       /\ ctx[c].chunked => \E t \in Stops(x.of) : InChunks(c, x, t)

\* A stream that is not stale holds the answer to the request at hand, or the
\* rest of it, and nothing else.
Fresh(c, L) ==
  ~stale[c] =>
    /\ ctx[c].state = "OUT" => Ahead(c) = <<>> /\ toS[c] = <<>>
    /\ Reading(c) =>
         \/ Ahead(c) = <<>> /\ toS[c] = <<asked[c]>>
         \/ /\ toS[c] = <<>>
            /\ \E a \in Answers : /\ a.req = asked[c]
                                  /\ \A i \in 1..Len(Ahead(c)) : L[i] = Spot(a, i)
    /\ Within(c) =>
         /\ toS[c] = <<>> /\ L[0].of.req = asked[c]
         /\ \A i \in 1..Len(Ahead(c)) : L[i] = Spot(L[0].of, L[0].at + i)

\* A stale one holds answers about files, when a file is fetched.
Filed(c, L) ==
  /\ \A i \in 1..Len(Ahead(c)) : L[i].of.req.file # NoFile
  /\ Within(c) => L[0].of.req.file # NoFile
  /\ \A i \in 1..Len(toS[c]) : toS[c][i].file # NoFile

\* Otherwise nothing can come of it: the connection has ended, or the first
\* symbol of the answer is not seen, which is refused.
Dead(c) ==
  /\ conn[c] # "up" /\ ctx[c].state \in {"OUT", "START"}
  /\ Ahead(c) = <<>> /\ toS[c] = <<>>
Pending(c) == ctx[c].state = "OUT" /\ late[c] /\ wire[c] = <<>> /\ toS[c] = <<>>
Skewed(c, L) ==
  \/ ctx[c].state = "START" /\ late[c] /\ wire[c] = <<>>
  \/ Reading(c) /\ Len(Ahead(c)) >= 1 /\ L[1].at = 2

Soiled(c, L) ==
  stale[c] =>
    IF asked[c].file # NoFile THEN Filed(c, L)
    ELSE verdict[c] = "error" \/ Dead(c) \/ Pending(c) \/ Skewed(c, L)

Streaming(c, L) ==
  /\ Labelled(Ahead(c), L, conn[c] = "up")
  /\ Place(c, L[0]) /\ Fresh(c, L) /\ Soiled(c, L)

Edges(c) ==
  /\ late[c] => ctx[c].state \in {"OUT", "START", "BODY"}
  /\ late[c] /\ wire[c] = <<>> /\ conn[c] = "up" => stale[c] /\ ~Within(c)
  /\ conn[c] \in {"eof", "reset"} => toS[c] = <<>>
  /\ verdict[c] = "empty" => buf[c] = <<>>
  /\ Parsing(c) => verdict[c] = "none"

Flow(c) == Edges(c) /\ \E L : Streaming(c, L)

\* What the body callback was given is from one answer, and all of its body when
\* http_parse_response has returned, unless the connection has ended.
Drawn(c) ==
  HasBody(asked[c]) =>
    \E a \in Answers, m \in Nat :
      /\ m <= Len(BodyOf(a)) /\ taken[c] = SubSeq(BodyOf(a), 1, m)
      /\ ~Refused(a) /\ a.req.what # "OPTIONS"
      /\ ~stale[c] \/ asked[c].file = NoFile => a.req = asked[c]
      /\ verdict[c] = "done" /\ conn[c] = "up" => m = Len(BodyOf(a))

\* What OPTIONS was given are its addresses.
Heard(c) == asked[c].what = "OPTIONS" => \E n \in 0..2 : Told(c, n)

Typed ==
  /\ StreamTyped /\ ReportTyped
  /\ conn \in [Conn -> {"none", "up", "eof", "reset"}]
  /\ ctx \in [Conn -> Ctx]
  /\ asked \in [Conn -> Made]
  /\ taken \in [Conn -> Seq(Symbol)]
  /\ verdict \in [Conn -> {"none", "done", "empty", "error"}]
  /\ stale \in [Conn -> BOOLEAN]
  /\ bitty \in Conn
  /\ known \in [Conn -> SUBSET {"me", "root"}]
  /\ edited \in 0..(Len(report) + 1)
  /\ bad \subseteq File
  /\ got \in [File -> {"none", "whole", "part", "lost"}]
  /\ toS \in [Conn -> Seq(Made)]
  /\ cuts \in 0..MaxCuts /\ refusals \in 0..MaxRefusals

\* What the connection d is, is not touched.
Same(d) ==
  /\ conn'[d] = conn[d] /\ wire'[d] = wire[d] /\ buf'[d] = buf[d] /\ pos'[d] = pos[d]
  /\ late'[d] = late[d] /\ ctx'[d] = ctx[d] /\ asked'[d] = asked[d]
  /\ taken'[d] = taken[d] /\ verdict'[d] = verdict[d] /\ stale'[d] = stale[d]
  /\ toS'[d] = toS[d]

LEMMA Rigid ==
  ASSUME report' = report
  PROVE  /\ \A a : /\ Sent(a)' = Sent(a) /\ BodyOf(a)' = BodyOf(a) /\ Size(a)' = Size(a)
                   /\ Stops(a)' = Stops(a)
         /\ \A a, t : ChunkAt(a, t)' = ChunkAt(a, t) /\ ChunkLen(a, t)' = ChunkLen(a, t)
         /\ Label' = Label
         /\ \A r, L, o : Labelled(r, L, o)' <=> Labelled(r, L, o)
         /\ ReportTyped' <=> ReportTyped
  <1>1. ASSUME NEW a PROVE Sent(a)' = Sent(a) /\ BodyOf(a)' = BodyOf(a)
    BY DEF Sent, BodyOf, Refusal, Answer, Body
  <1>2. ASSUME NEW a PROVE Size(a)' = Size(a)
    BY <1>1 DEF Size
  <1>3. Label' = Label
    BY <1>2 DEF Label
  <1>4. ASSUME NEW x PROVE Glyph(x)' = Glyph(x) /\ (Closed(x)' <=> Closed(x))
    BY <1>1, <1>2 DEF Glyph, Closed
  <1>5. ASSUME NEW x, NEW y PROVE Follows(x, y)' <=> Follows(x, y)
    BY <1>4 DEF Follows
  <1>6. ASSUME NEW r, NEW L, NEW o PROVE Labelled(r, L, o)' <=> Labelled(r, L, o)
    BY <1>3, <1>4, <1>5 DEF Labelled
  <1>7. ASSUME NEW a PROVE Stops(a)' = Stops(a)
    BY <1>1 DEF Stops
  <1>8. ASSUME NEW a, NEW t PROVE ChunkAt(a, t)' = ChunkAt(a, t) /\ ChunkLen(a, t)' = ChunkLen(a, t)
    BY <1>1 DEF ChunkAt, ChunkLen
  <1>9. ReportTyped' <=> ReportTyped
    BY DEF ReportTyped
  <1> QED BY <1>1, <1>2, <1>3, <1>6, <1>7, <1>8, <1>9

LEMMA Frame ==
  ASSUME NEW d \in Conn, Same(d), report' = report
  PROVE  Flow(d) <=> Flow(d)'
  <1>1. Ahead(d)' = Ahead(d)
    BY DEF Same, Ahead
  <1>2. Edges(d)' <=> Edges(d)
    BY DEF Same, Edges, Within, Parsing
  <1>3. ASSUME NEW L PROVE Streaming(d, L)' <=> Streaming(d, L)
    <2>1. Labelled(Ahead(d), L, conn[d] = "up")' <=> Labelled(Ahead(d), L, conn[d] = "up")
      BY <1>1, Rigid DEF Same
    <2>2. Fresh(d, L)' <=> Fresh(d, L)
      BY <1>1 DEF Same, Fresh, Reading, Within
    <2>3. Soiled(d, L)' <=> Soiled(d, L)
      BY <1>1 DEF Same, Soiled, Filed, Dead, Pending, Skewed, Reading, Within
    <2>4. ASSUME NEW x PROVE Place(d, x)' <=> Place(d, x)
      <3>1. ASSUME NEW j PROVE InHead(d, x, j)' <=> InHead(d, x, j)
        BY Rigid DEF Same, InHead, Told
      <3>2. ASSUME NEW t PROVE InChunks(d, x, t)' <=> InChunks(d, x, t)
        BY Rigid DEF Same, InChunks
      <3>3. InLength(d, x)' <=> InLength(d, x)
        BY Rigid DEF Same, InLength
      <3>4. Stops(x.of)' = Stops(x.of)
        BY Rigid
      <3> QED BY <3>1, <3>2, <3>3, <3>4 DEF Same, Place, Reading, Within, AtBody, Told
    <2> QED BY <2>1, <2>2, <2>3, <2>4 DEF Streaming
  <1> QED BY <1>2, <1>3 DEF Flow

-----------------------------------------------------------------------------
(***************************************************************************)
(* The steps of the parser keep it.                                        *)
(***************************************************************************)
SameLine(c) ==
  /\ conn'[c] = conn[c] /\ asked'[c] = asked[c] /\ taken'[c] = taken[c]
  /\ verdict'[c] = verdict[c] /\ stale'[c] = stale[c] /\ toS'[c] = toS[c]
  /\ ctx'[c].chunked = ctx[c].chunked /\ ctx'[c].within = ctx[c].within
  /\ ctx'[c].bodysz = ctx[c].bodysz /\ ctx'[c].size = ctx[c].size /\ ctx'[c].status = ctx[c].status

Further(c) ==
  \/ ctx'[c].state = ctx[c].state
  \/ ctx[c].state = "START" /\ ctx'[c].state = "STATUS_LINE"
  \/ ctx[c].state = "BODY_IN" /\ ctx'[c].state = "BODY"

\* Nothing is gone beyond.
LEMMA Stay ==
  ASSUME NEW c \in Conn, NEW L, Streaming(c, L), report' = report, Ahead(c)' = Ahead(c),
         SameLine(c), Further(c), Soiled(c, L)'
  PROVE  Streaming(c, L)'
  <1>1. Labelled(Ahead(c), L, conn[c] = "up")'
    BY Rigid DEF Streaming, SameLine
  <1>2. Fresh(c, L)'
    BY DEF Streaming, Fresh, SameLine, Further, Reading, Within
  <1>3. Place(c, L[0])'
    <2> DEFINE x == L[0]
    <2> HIDE DEF x
    <2>0. Place(c, x)
      BY DEF Streaming, x
    <2>1. ASSUME NEW j PROVE InHead(c, x, j)' <=> InHead(c, x, j)
      BY Rigid DEF SameLine, InHead, Told
    <2>2. ASSUME NEW t PROVE InChunks(c, x, t)' <=> InChunks(c, x, t)
      BY Rigid DEF SameLine, InChunks
    <2>3. InLength(c, x)' <=> InLength(c, x)
      BY Rigid DEF SameLine, InLength
    <2>4. Stops(x.of)' = Stops(x.of)
      BY Rigid
    <2>5. Place(c, x)'
      BY <2>0, <2>1, <2>2, <2>3, <2>4 DEF SameLine, Further, Place, Reading, Within, AtBody, Told
    <2> QED BY <2>5 DEF x
  <1> QED BY <1>1, <1>2, <1>3 DEF Streaming

LEMMA ConsumeFlow ==
  ASSUME Typed, NEW c \in Conn, Flow(c), Consume(c), toS' = toS, report' = report
  PROVE  Flow(c)' /\ StreamTyped'
  <1>1. StreamTyped' /\ Ahead(c)' = Ahead(c)
    BY Consumed DEF Typed
  <1>2. PICK L : Streaming(c, L)
    BY DEF Flow
  <1>3. SameLine(c) /\ Further(c) /\ ctx' = ctx
    BY DEF Consume, SameLine, Further
  <1>4. late'[c] = FALSE /\ wire[c] # <<>> /\ Parsing(c)
    BY DEF Consume, Set, Typed, StreamTyped
  <1>5. Soiled(c, L)'
    BY <1>1, <1>2, <1>3, <1>4 DEF SameLine, Streaming, Soiled, Filed, Dead, Pending, Skewed, Reading, Within, Parsing
  <1>6. Edges(c)'
    <2>1. Edges(c)
      BY DEF Flow
    <2>2. verdict[c] # "empty"
      BY <1>4, <2>1 DEF Edges
    <2> QED BY <1>3, <1>4, <2>1, <2>2 DEF SameLine, Edges, Within, Parsing
  <1>7. Streaming(c, L)'
    BY <1>1, <1>2, <1>3, <1>5, Stay
  <1> QED BY <1>1, <1>6, <1>7 DEF Flow

LEMMA QuietFlow ==
  ASSUME Typed, NEW c \in Conn, Flow(c), Start(c) \/ PartOfLine(c) \/ PartOfChunk(c),
         toS' = toS, report' = report
  PROVE  Flow(c)' /\ StreamTyped'
  <1>2. PICK L : Streaming(c, L)
    BY DEF Flow
  <1>0. Edges(c) /\ c \in DOMAIN ctx /\ c \in DOMAIN pos /\ ctx[c] \in Ctx
        /\ pos[c] <= Len(buf[c]) /\ pos[c] \in Nat /\ buf[c] \in Seq(Symbol) /\ Len(buf[c]) \in Nat
    BY DEF Flow, Typed, StreamTyped
  <1>3. /\ wire' = wire /\ buf' = buf /\ late' = late /\ conn' = conn /\ asked' = asked
        /\ taken' = taken /\ verdict' = verdict /\ stale' = stale
    BY DEF Start, PartOfLine, PartOfChunk, stream
  <1>4. Ahead(c)' = Ahead(c)
    BY <1>3 DEF Ahead
  <1>5. SameLine(c) /\ Further(c)
    <2>1. CASE Start(c)
      BY <1>0, <1>3, <2>1 DEF Start, Set, SameLine, Further, Ctx
    <2>2. CASE PartOfLine(c)
      BY <1>0, <1>3, <2>2 DEF PartOfLine, Set, SameLine, Further, Ctx
    <2>3. CASE PartOfChunk(c)
      BY <1>0, <1>3, <2>3 DEF PartOfChunk, Set, SameLine, Further, Ctx
    <2> QED BY <2>1, <2>2, <2>3
  <1>6. ctx[c].state # "OUT" /\ (ctx[c].state \in {"START", "BODY_IN"} => ~late[c])
    <2>1. CASE Start(c)
      BY <2>1 DEF Start, NeedMore
    <2>2. CASE PartOfLine(c)
      BY <1>0, <2>2 DEF PartOfLine, InLine, InChunkSize, Edges
    <2>3. CASE PartOfChunk(c)
      BY <1>0, <2>3 DEF PartOfChunk, InBody, Edges
    <2> QED BY <2>1, <2>2, <2>3
  <1>7. ctx[c].state = "START" => Len(Ahead(c)) >= 1 /\ Ahead(c) # <<>>
    <2> SUFFICES ASSUME ctx[c].state = "START" PROVE Len(Ahead(c)) >= 1 /\ Ahead(c) # <<>>
      OBVIOUS
    <2>1. Start(c)
      BY DEF PartOfLine, PartOfChunk, InLine, InChunkSize, InBody
    <2>2. Len(buf[c]) >= 1
      BY <1>0, <2>1 DEF Start, NeedMore
    <2>3. Len(Ahead(c)) \in Nat /\ Len(buf[c]) <= Len(Ahead(c)) /\ Len(buf[c]) \in Nat
      BY AheadFacts DEF Typed
    <2> HIDE DEF Ahead
    <2>4. Len(Ahead(c)) >= 1
      BY <2>2, <2>3
    <2>5. Ahead(c) # <<>>
      BY <2>4
    <2> QED BY <2>4, <2>5
  <1>8. Soiled(c, L)'
    BY <1>2, <1>3, <1>4, <1>5, <1>6, <1>7
       DEF SameLine, Further, Streaming, Soiled, Filed, Dead, Pending, Skewed, Reading, Within
  <1>9. Streaming(c, L)'
    BY <1>2, <1>4, <1>5, <1>8, Stay
  <1>10. Edges(c)'
    <2>1. verdict[c] = "none"
      BY <1>0, <1>6 DEF Edges, Parsing
    <2> QED BY <1>0, <1>3, <1>5, <1>6, <2>1 DEF SameLine, Further, Edges, Within, Parsing
  <1>11. StreamTyped'
    <2>1. CASE Start(c)
      BY <2>1 DEF Start, stream, Typed, StreamTyped
    <2>2. CASE PartOfLine(c)
      <3>1. pos' = [pos EXCEPT ![c] = Len(buf[c])]
        BY <2>2 DEF PartOfLine, Set
      <3> QED BY <1>0, <1>3, <3>1 DEF Typed, StreamTyped
    <2>3. CASE PartOfChunk(c)
      <3>1. pos' = [pos EXCEPT ![c] = Smaller(ctx[c].size, Len(buf[c]))] /\ ctx[c].size \in Nat
        BY <1>0, <2>3 DEF PartOfChunk, Set, Ctx
      <3>2. Smaller(ctx[c].size, Len(buf[c])) \in Nat /\ Smaller(ctx[c].size, Len(buf[c])) <= Len(buf[c])
        BY <1>0, <3>1 DEF Smaller
      <3> QED BY <1>0, <1>3, <3>1, <3>2 DEF Typed, StreamTyped
    <2> QED BY <2>1, <2>2, <2>3
  <1> QED BY <1>9, <1>10, <1>11 DEF Flow

LEMMA NothingReadFlow ==
  ASSUME Typed, NEW c \in Conn, Flow(c), NothingRead(c), toS' = toS, report' = report
  PROVE  Flow(c)' /\ StreamTyped'
  <1>0. Edges(c)
    BY DEF Flow
  <1>1. /\ wire[c] = <<>> /\ conn[c] \in {"eof", "reset"} /\ Parsing(c)
        /\ conn' = conn /\ wire' = wire /\ late' = late /\ asked' = asked /\ taken' = taken /\ stale' = stale
        /\ buf' = [buf EXCEPT ![c] = <<>>] /\ pos' = [pos EXCEPT ![c] = 0]
        /\ ctx' = [ctx EXCEPT ![c] = CtxOut]
    BY DEF NothingRead, Return, Set
  <1>2. buf'[c] = <<>> /\ pos'[c] = 0 /\ ctx'[c].state = "OUT" /\ conn[c] # "up" /\ wire'[c] = <<>>
    BY <1>1 DEF Typed, StreamTyped, CtxOut, CtxInit
  <1>3. toS[c] = <<>> /\ verdict[c] = "none"
    BY <1>0, <1>1, <1>2 DEF Edges
  <1>4. StreamTyped'
    <2>1. <<>> \in Seq(Symbol) /\ 0 <= Len(<<>>)
      OBVIOUS
    <2>2. buf' \in [Conn -> Seq(Symbol)] /\ pos' \in [Conn -> Nat]
      BY <1>1, <2>1 DEF Typed, StreamTyped
    <2>3. ASSUME NEW d \in Conn PROVE pos'[d] <= Len(buf'[d]) /\ (late'[d] => buf'[d] = <<>>)
      <3>1. CASE d = c
        BY <1>2, <2>1, <3>1
      <3>2. CASE d # c
        BY <1>1, <3>2 DEF Typed, StreamTyped
      <3> QED BY <3>1, <3>2
    <2> QED BY <1>1, <2>2, <2>3 DEF Typed, StreamTyped
  <1>5. Ahead(c)' = <<>>
    <2>1. Len(<<>>) = 0 /\ <<>> \o <<>> = <<>>
      OBVIOUS
    <2>2. SubSeq(<<>>, 2, 0) = <<>>
      BY SubSeqEmpty
    <2> QED BY <1>2, <2>1, <2>2 DEF Ahead
  <1>6. PICK L : \A o : Labelled(<<>>, L, o)
    BY EmptyLabels DEF Typed
  <1>7. Labelled(Ahead(c), L, conn[c] = "up")'
    BY <1>5, <1>6, Rigid
  <1>8. Streaming(c, L)'
    <2>1. Len(<<>>) = 0
      OBVIOUS
    <2>2. Place(c, L[0])'
      BY <1>2 DEF Place, Reading, Within, AtBody
    <2>3. Fresh(c, L)'
      BY <1>2, <1>3, <1>5 DEF Fresh, Reading, Within
    <2>4. Dead(c)'
      BY <1>1, <1>2, <1>3, <1>5 DEF Dead
    <2>5. Filed(c, L)'
      BY <1>2, <1>3, <1>5, <2>1 DEF Filed, Within
    <2> QED BY <1>7, <2>2, <2>3, <2>4, <2>5 DEF Streaming, Soiled
  <1>9. Edges(c)'
    BY <1>0, <1>1, <1>2, <1>3 DEF Edges, Within, Parsing
  <1> QED BY <1>4, <1>8, <1>9 DEF Flow

\* While an answer is parsed for a file, what is ahead is of files.
LEMMA FiledAhead ==
  ASSUME Typed, NEW c \in Conn, NEW L, Streaming(c, L), Parsing(c), asked[c].file # NoFile
  PROVE  Filed(c, L)
  <1>1. CASE stale[c]
    BY <1>1 DEF Streaming, Soiled
  <1>2. CASE ~stale[c]
    <2>1. Ahead(c) = <<>> => Len(Ahead(c)) = 0
      OBVIOUS
    <2>2. ctx[c].state \in States /\ ctx[c].state # "OUT"
      BY DEF Typed, Ctx, Parsing
    <2>3. asked[c] \in Made /\ toS[c] \in Seq(Made)
      BY DEF Typed
    <2>4. L[0] \in Label /\ L[0].of.req \in Made /\ \A i \in 1..Len(Ahead(c)) : L[i] \in Label
      <3>1. Len(Ahead(c)) \in Nat
        BY AheadFacts DEF Typed
      <3>2. L \in [0..Len(Ahead(c)) -> Label]
        BY DEF Streaming, Labelled
      <3> QED BY <3>1, <3>2 DEF Label, Answers
    <2>5. \A a, k : Spot(a, k).of = a
      BY DEF Spot
    <2>6. toS[c] = <<>> \/ toS[c] = <<asked[c]>>
      BY <1>2, <2>2 DEF Streaming, Fresh, States, Reading, Within
    <2>7. \A i \in 1..Len(toS[c]) : toS[c][i].file # NoFile
      <3>1. Len(<<>>) = 0 /\ Len(<<asked[c]>>) = 1 /\ <<asked[c]>>[1] = asked[c]
        OBVIOUS
      <3> QED BY <2>6, <3>1
    <2>8. CASE Reading(c)
      BY <1>2, <2>1, <2>5, <2>7, <2>8 DEF Streaming, Fresh, Filed, Reading, Within
    <2>9. CASE Within(c)
      BY <1>2, <2>5, <2>7, <2>9 DEF Streaming, Fresh, Filed
    <2> QED BY <2>2, <2>8, <2>9 DEF States, Reading, Within
  <1> QED BY <1>1, <1>2 DEF Typed

LEMMA DropSome ==
  ASSUME ReportTyped, NEW r, NEW L, NEW o, Labelled(r, L, o), NEW n \in 0..Len(r)
  PROVE  \E M : /\ Labelled(SubSeq(r, n + 1, Len(r)), M, o)
                /\ Len(SubSeq(r, n + 1, Len(r))) = Len(r) - n
                /\ \A i \in 0..Len(SubSeq(r, n + 1, Len(r))) : M[i] = L[n + i]
  <1> DEFINE rest == SubSeq(r, n + 1, Len(r))
             M == [i \in 0..Len(rest) |-> L[n + i]]
  <1>1. Labelled(rest, M, o) /\ Len(rest) = Len(r) - n
    BY DropLabels
  <1>2. \A i \in 0..Len(rest) : M[i] = L[n + i]
    <2> HIDE DEF rest
    <2> QED OBVIOUS
  <1> HIDE DEF M
  <1> QED BY <1>1, <1>2

LEMMA ErrorFlow ==
  ASSUME Typed, NEW c \in Conn, Flow(c), Error(c), Parsing(c), ~late[c],
         wire' = wire, conn' = conn, asked' = asked, toS' = toS, report' = report
  PROVE  Flow(c)' /\ StreamTyped'
  <1>0. Edges(c)
    BY DEF Flow
  <1>1. PICK L : Streaming(c, L)
    BY DEF Flow
  <1>13. pos[c] \in Nat
    BY DEF Typed, StreamTyped
  <1>14. PICK n \in Nat : n = pos[c]
    BY <1>13
  <1>2. n \in Nat /\ n <= Len(buf[c]) /\ Len(buf[c]) \in Nat /\ StreamTyped
    BY <1>14, AheadFacts DEF Typed, StreamTyped
  <1>3. SkipTo(c, n) /\ wire' = wire
    <2>1. late' = [late EXCEPT ![c] = n > Len(buf[c])]
      <3>1. ~(n > Len(buf[c]))
        BY <1>2
      <3>2. late' = late
        BY DEF Error
      <3>3. late[c] = FALSE /\ late \in [Conn -> BOOLEAN]
        BY <1>2 DEF StreamTyped
      <3> QED BY <3>1, <3>2, <3>3
    <2> QED BY <1>14, <2>1 DEF Error, SkipTo, Set
  <1>4. StreamTyped' /\ (n <= Len(Ahead(c)) => Ahead(c)' = SubSeq(Ahead(c), n + 1, Len(Ahead(c))))
        /\ (late'[c] => n = Len(buf[c]) + 1)
    <2>1. n <= Len(buf[c]) + 1
      BY <1>2
    <2>2. /\ StreamTyped'
          /\ n <= Len(Ahead(c)) => Ahead(c)' = SubSeq(Ahead(c), n + 1, Len(Ahead(c)))
          /\ late'[c] => n = Len(buf[c]) + 1
      BY <1>2, <1>3, <2>1, Skipped
    <2> QED BY <2>2
  <1>5. n <= Len(Ahead(c)) /\ Len(Ahead(c)) \in Nat /\ n \in 0..Len(Ahead(c)) /\ ~late'[c]
    BY <1>2, <1>4, AheadFacts
  <1>6. /\ ctx'[c].state = "OUT" /\ verdict'[c] = "error" /\ stale'[c] = TRUE
    BY DEF Error, Return, Set, CtxOut, CtxInit, Typed
  <1>7. PICK M : /\ Labelled(Ahead(c)', M, conn[c] = "up") /\ Len(Ahead(c)') = Len(Ahead(c)) - n
                 /\ \A i \in 0..Len(Ahead(c)') : M[i] = L[n + i]
    <2>1. Labelled(Ahead(c), L, conn[c] = "up") /\ ReportTyped
      BY <1>1 DEF Streaming, Typed
    <2>2. Ahead(c)' = SubSeq(Ahead(c), n + 1, Len(Ahead(c)))
      BY <1>4, <1>5
    <2> QED BY <1>5, <2>1, <2>2, DropSome
  <1>9. Labelled(Ahead(c), M, conn[c] = "up")'
    BY <1>7, Rigid
  <1>10. asked[c].file # NoFile => Filed(c, M)'
    <2> SUFFICES ASSUME asked[c].file # NoFile PROVE Filed(c, M)'
      OBVIOUS
    <2>1. Filed(c, L)
      BY <1>1, FiledAhead
    <2>2. ASSUME NEW i \in 1..Len(Ahead(c)') PROVE M[i].of.req.file # NoFile
      <3>1. n + i \in 1..Len(Ahead(c)) /\ i \in 0..Len(Ahead(c)')
        BY <1>5, <1>7
      <3> QED BY <1>7, <2>1, <3>1 DEF Filed
    <2> QED BY <1>6, <2>1, <2>2 DEF Filed, Within
  <1>11. Streaming(c, M)'
    <2>1. Place(c, M[0])'
      BY <1>6 DEF Place, Reading, Within, AtBody
    <2> QED BY <1>6, <1>9, <1>10, <2>1 DEF Streaming, Fresh, Soiled
  <1>12. Edges(c)'
    BY <1>0, <1>5, <1>6 DEF Edges, Parsing, Within
  <1> QED BY <1>4, <1>11, <1>12 DEF Flow

LEMMA SkipLabels ==
  ASSUME ReportTyped, StreamTyped, NEW c \in Conn, NEW n \in Nat, NEW L,
         ~late[c], n <= Len(buf[c]) + 1, SkipTo(c, n),
         wire' = wire, conn' = conn, report' = report,
         Labelled(Ahead(c), L, conn[c] = "up"),
         n <= Len(Ahead(c)) \/ L[0].at + n <= Size(L[0].of)
  PROVE  \E M : /\ Labelled(Ahead(c), M, conn[c] = "up")'
                /\ n <= Len(Ahead(c)) => /\ M[0] = L[n] /\ Len(Ahead(c)') = Len(Ahead(c)) - n
                                         /\ \A i \in 1..Len(Ahead(c)') : M[i] = L[n + i]
                /\ n > Len(Ahead(c)) => Ahead(c)' = <<>>
                /\ L[0].at + n <= Size(L[0].of) => M[0] = Spot(L[0].of, L[0].at + n)
                /\ late'[c] /\ wire[c] = <<>> => conn[c] # "up"
  <1>1. /\ StreamTyped'
        /\ n <= Len(Ahead(c)) => Ahead(c)' = SubSeq(Ahead(c), n + 1, Len(Ahead(c)))
        /\ n > Len(Ahead(c)) => Ahead(c)' = <<>> /\ n = Len(Ahead(c)) + 1
        /\ late'[c] => n = Len(buf[c]) + 1
        /\ wire[c] = <<>> => Len(Ahead(c)) = Len(buf[c])
    BY Skipped
  <1>2. Len(Ahead(c)) \in Nat /\ Len(buf[c]) \in Nat /\ Len(buf[c]) <= Len(Ahead(c))
    BY AheadFacts
  <1>3. L \in [0..Len(Ahead(c)) -> Label] /\ L[0] \in Label
    BY <1>2 DEF Labelled
  <1>4. L[0].of \in Answers /\ L[0].at \in Nat /\ L[0].at >= 1 /\ Size(L[0].of) \in Nat
    BY <1>3, LabelFacts
  <1>5. \A i \in 0..Len(Ahead(c)) : L[0].at + i <= Size(L[0].of) => L[i] = Spot(L[0].of, L[0].at + i)
    BY InARow
  <1>6. CASE n <= Len(Ahead(c))
    <2>1. PICK M : /\ Labelled(SubSeq(Ahead(c), n + 1, Len(Ahead(c))), M, conn[c] = "up")
                   /\ Len(SubSeq(Ahead(c), n + 1, Len(Ahead(c)))) = Len(Ahead(c)) - n
                   /\ \A i \in 0..Len(SubSeq(Ahead(c), n + 1, Len(Ahead(c)))) : M[i] = L[n + i]
      <3>1. n \in 0..Len(Ahead(c))
        BY <1>2, <1>6
      <3>2. PICK r : r = Ahead(c)
        OBVIOUS
      <3>3. n \in 0..Len(r) /\ Labelled(r, L, conn[c] = "up")
        BY <3>1, <3>2
      <3>4. PICK o : o = (conn[c] = "up")
        OBVIOUS
      <3>5. \E M : /\ Labelled(SubSeq(r, n + 1, Len(r)), M, o)
                   /\ Len(SubSeq(r, n + 1, Len(r))) = Len(r) - n
                   /\ \A i \in 0..Len(SubSeq(r, n + 1, Len(r))) : M[i] = L[n + i]
        <4>1. Labelled(r, L, o)
          BY <3>3, <3>4
        <4> QED BY <3>3, <4>1, DropSome
      <3> QED BY <3>2, <3>4, <3>5
    <2>2. Ahead(c)' = SubSeq(Ahead(c), n + 1, Len(Ahead(c)))
      BY <1>1, <1>6
    <2>3. Labelled(Ahead(c)', M, conn[c] = "up") /\ Len(Ahead(c)') = Len(Ahead(c)) - n
          /\ \A i \in 0..Len(Ahead(c)') : M[i] = L[n + i]
      BY <2>1, <2>2
    <2>4. Labelled(Ahead(c), M, conn[c] = "up")'
      BY <2>3, Rigid
    <2>5. M[0] = L[n] /\ \A i \in 1..Len(Ahead(c)') : M[i] = L[n + i]
      <3>1. 0 \in 0..Len(Ahead(c)') /\ n + 0 = n /\ 1..Len(Ahead(c)') \subseteq 0..Len(Ahead(c)')
        BY <1>2, <1>6, <2>3
      <3> QED BY <2>3, <3>1
    <2>6. L[0].at + n <= Size(L[0].of) => M[0] = Spot(L[0].of, L[0].at + n)
      <3>1. n \in 0..Len(Ahead(c))
        BY <1>2, <1>6
      <3> QED BY <1>5, <2>5, <3>1
    <2>7. late'[c] => wire[c] # <<>>
      BY <1>1, <1>2, <1>6
    <2>8. ~(n > Len(Ahead(c)))
      BY <1>2, <1>6
    <2> QED BY <2>3, <2>4, <2>5, <2>6, <2>7, <2>8
  <1>7. CASE ~(n <= Len(Ahead(c)))
    <2> DEFINE k == L[0].at + n
    <2>1. n = Len(Ahead(c)) + 1 /\ Ahead(c)' = <<>> /\ L[0].at + n <= Size(L[0].of)
      BY <1>1, <1>2, <1>7
    <2>2. ~(conn[c] = "up")
      <3> DEFINE m == Len(Ahead(c))
      <3>1. L[0].at + m <= Size(L[0].of) /\ L[0].at + m # Size(L[0].of) /\ m \in 0..m /\ m \in Nat
        BY <1>2, <1>4, <2>1
      <3>2. L[m] = Spot(L[0].of, L[0].at + m)
        BY <1>5, <3>1
      <3>3. L[m].of = L[0].of /\ L[m].at = L[0].at + m
        BY <3>2 DEF Spot
      <3>4. ~Closed(L[m])
        BY <3>1, <3>3 DEF Closed
      <3> QED BY <3>4 DEF Labelled
    <2>3. PICK x : x = Spot(L[0].of, L[0].at + n)
      OBVIOUS
    <2>4. x \in Label
      <3>1. L[0].at + n \in 1..Size(L[0].of)
        BY <1>4, <2>1
      <3> QED BY <1>4, <2>3, <3>1, SpotFacts
    <2>5. PICK M : M = [i \in 0..0 |-> x]
      OBVIOUS
    <2>6. Labelled(<<>>, M, conn[c] = "up") /\ M[0] = x
      <3>1. <<>> \in Seq(Symbol) /\ Len(<<>>) = 0
        OBVIOUS
      <3>2. M \in [0..0 -> Label] /\ M[0] = x
        BY <2>4, <2>5
      <3> QED BY <2>2, <3>1, <3>2 DEF Labelled
    <2>7. Labelled(Ahead(c), M, conn[c] = "up")'
      BY <2>1, <2>6, Rigid
    <2> QED BY <1>7, <2>1, <2>2, <2>3, <2>6, <2>7
  <1> QED BY <1>6, <1>7

\* An answer is gone through to a further place in it, or to its end.
LEMMA WithinSkip ==
  ASSUME Typed, NEW c \in Conn, NEW n \in Nat, NEW L, Streaming(c, L), Edges(c), Within(c),
         ~late[c], n <= Len(buf[c]) + 1, SkipTo(c, n),
         wire' = wire, conn' = conn, asked' = asked, toS' = toS, stale' = stale, report' = report,
         L[0].at + n <= Size(L[0].of),
         Within(c)' \/ (ctx'[c].state = "OUT" /\ L[0].at + n = Size(L[0].of))
  PROVE  \E M : /\ Labelled(Ahead(c), M, conn[c] = "up")'
                /\ M[0] = Spot(L[0].of, L[0].at + n)
                /\ Fresh(c, M)' /\ Soiled(c, M)'
                /\ late'[c] /\ wire'[c] = <<>> => conn'[c] # "up"
  <1>1. PICK M :
                /\ Labelled(Ahead(c), M, conn[c] = "up")'
                /\ n <= Len(Ahead(c)) => /\ M[0] = L[n] /\ Len(Ahead(c)') = Len(Ahead(c)) - n
                                         /\ \A i \in 1..Len(Ahead(c)') : M[i] = L[n + i]
                /\ n > Len(Ahead(c)) => Ahead(c)' = <<>>
                /\ L[0].at + n <= Size(L[0].of) => M[0] = Spot(L[0].of, L[0].at + n)
                /\ late'[c] /\ wire[c] = <<>> => conn[c] # "up"
    BY SkipLabels DEF Typed, Streaming
  <1>2. Len(Ahead(c)) \in Nat
    BY AheadFacts DEF Typed
  <1>3. L \in [0..Len(Ahead(c)) -> Label] /\ L[0] \in Label
    BY <1>2 DEF Labelled, Streaming
  <1>4. L[0].of \in Answers /\ L[0].at \in Nat /\ L[0].at >= 1 /\ Size(L[0].of) \in Nat
    BY <1>3, LabelFacts DEF Typed
  <1>5. Len(<<>>) = 0
    OBVIOUS
  <1>6. ASSUME NEW i \in 1..Len(Ahead(c)')
        PROVE  n + i \in 1..Len(Ahead(c)) /\ M[i] = L[n + i]
    <2>1. n <= Len(Ahead(c))
      BY <1>1, <1>2, <1>5, <1>6
    <2> QED BY <1>1, <1>2, <2>1
  <1>7. M[0] = Spot(L[0].of, L[0].at + n) /\ M[0].of = L[0].of /\ M[0].at = L[0].at + n
    BY <1>1 DEF Spot
  <1>8. Within(c) => ctx[c].state # "OUT"
    BY DEF Within
  <1>9. Fresh(c, M)'
    <2> SUFFICES ASSUME ~stale[c] PROVE Fresh(c, M)'
      BY DEF Fresh
    <2>1. toS[c] = <<>> /\ L[0].of.req = asked[c]
          /\ \A i \in 1..Len(Ahead(c)) : L[i] = Spot(L[0].of, L[0].at + i)
      BY DEF Streaming, Fresh
    <2>2. \A i \in 1..Len(Ahead(c)') : M[i] = Spot(M[0].of, M[0].at + i)
      <3> SUFFICES ASSUME NEW i \in 1..Len(Ahead(c)') PROVE M[i] = Spot(M[0].of, M[0].at + i)
        OBVIOUS
      <3>1. M[i] = Spot(L[0].of, L[0].at + (n + i))
        BY <1>6, <2>1
      <3>2. L[0].at + (n + i) = M[0].at + i
        BY <1>4, <1>7
      <3> QED BY <1>7, <3>1, <3>2
    <2>3. CASE Within(c)'
      BY <1>7, <2>1, <2>2, <2>3 DEF Fresh, Within, Reading
    <2>4. CASE ctx'[c].state = "OUT" /\ L[0].at + n = Size(L[0].of)
      <3>1. Ahead(c)' = <<>>
        <4>1. CASE n > Len(Ahead(c))
          BY <1>1, <4>1
        <4>2. CASE n <= Len(Ahead(c))
          <5>1. ASSUME Len(Ahead(c)) # n PROVE FALSE
            <6>1. Len(Ahead(c)) \in 1..Len(Ahead(c)) /\ L[0].at + Len(Ahead(c)) > Size(L[0].of)
              BY <1>2, <1>4, <2>4, <4>2, <5>1
            <6>2. L[Len(Ahead(c))] = Spot(L[0].of, L[0].at + Len(Ahead(c))) /\ L[Len(Ahead(c))] \in Label
              BY <1>2, <1>3, <2>1, <6>1
            <6>3. L[Len(Ahead(c))].at <= Size(L[Len(Ahead(c))].of)
                  /\ L[Len(Ahead(c))].at = L[0].at + Len(Ahead(c)) /\ L[Len(Ahead(c))].of = L[0].of
              BY <6>2 DEF Label, Spot
            <6> QED BY <1>2, <1>4, <6>1, <6>3
          <5>2. Len(Ahead(c)') = 0
            BY <1>1, <1>2, <4>2, <5>1
          <5>3. Ahead(c)' \in Seq(Symbol)
            BY <1>1 DEF Labelled
          <5> QED BY <5>2, <5>3
        <4> QED BY <1>2, <4>1, <4>2
      <3> QED BY <2>1, <2>4, <3>1 DEF Fresh, Within, Reading
    <2> QED BY <2>3, <2>4
  <1>10. Soiled(c, M)'
    <2> SUFFICES ASSUME stale[c] PROVE asked[c].file # NoFile /\ Filed(c, M)'
      BY DEF Soiled
    <2>1. verdict[c] = "none" /\ Parsing(c)
      BY DEF Edges, Within, Parsing
    <2>2. asked[c].file # NoFile
      BY <2>1 DEF Streaming, Soiled, Dead, Pending, Skewed, Within, Reading
    <2>3. Filed(c, L)
      BY <2>1, <2>2, FiledAhead
    <2>4. \A i \in 1..Len(Ahead(c)') : M[i].of.req.file # NoFile
      BY <1>6, <2>3 DEF Filed
    <2>5. M[0].of.req.file # NoFile
      BY <1>7, <2>3 DEF Filed
    <2> QED BY <2>2, <2>3, <2>4, <2>5 DEF Filed
  <1> QED BY <1>1, <1>7, <1>9, <1>10

\* The head of an answer, line by line.
LEMMA HeadLine ==
  ASSUME ReportTyped, NEW a \in Answers, NEW j \in 0..(Extra(a) + 1), NEW k, k = 3 + 3 * j
  PROVE  /\ j \in Nat /\ Extra(a) \in {0, 2} /\ Size(a) \in Nat
         /\ j <= Extra(a) =>
              /\ k + 3 <= Size(a)
              /\ Sent(a)[k + 1].is \in HeaderNames
              /\ Sent(a)[k + 2].is = "cr" /\ Sent(a)[k + 3].is = "lf"
              /\ j < Extra(a) => j \in {0, 1} /\ Sent(a)[k + 1].is = IF j = 0 THEN "me" ELSE "root"
              /\ j = Extra(a) /\ Chunked(a) => Sent(a)[k + 1].is = "chunked"
              /\ j = Extra(a) /\ ~Chunked(a) =>
                   /\ Sent(a)[k + 1].is = "content-length"
                   /\ Sent(a)[k + 1].val = Len(BodyOf(a))
         /\ j = Extra(a) + 1 =>
              /\ k + 2 = Before(a) /\ k + 2 <= Size(a)
              /\ Sent(a)[k + 1].is = "cr" /\ Sent(a)[k + 2].is = "lf"
  <1>1. /\ Size(a) \in Nat
        /\ Extra(a) \in {0, 2} /\ Before(a) \in {8, 14} /\ Before(a) <= Size(a)
        /\ Extra(a) = 2 =>
             /\ Sent(a)[4].is = "me" /\ Sent(a)[5].is = "cr" /\ Sent(a)[6].is = "lf"
             /\ Sent(a)[7].is = "root" /\ Sent(a)[8].is = "cr" /\ Sent(a)[9].is = "lf"
        /\ Sent(a)[Before(a) - 4].is = IF Chunked(a) THEN "chunked" ELSE "content-length"
        /\ ~Chunked(a) => Sent(a)[Before(a) - 4].val = Len(BodyOf(a))
        /\ Sent(a)[Before(a) - 3].is = "cr" /\ Sent(a)[Before(a) - 2].is = "lf"
        /\ Sent(a)[Before(a) - 1].is = "cr" /\ Sent(a)[Before(a)].is = "lf"
    BY AnswerHead
  <1>2. Before(a) = 8 + 3 * Extra(a)
    BY DEF Before
  <1>3. CASE Extra(a) = 0
    <2>1. Before(a) = 8 /\ (j = 0 \/ j = 1)
      BY <1>2, <1>3
    <2>2. CASE j = 0
      BY <1>1, <1>3, <2>1, <2>2 DEF HeaderNames
    <2>3. CASE j = 1
      BY <1>1, <1>3, <2>1, <2>3 DEF HeaderNames
    <2> QED BY <2>1, <2>2, <2>3
  <1>4. CASE Extra(a) = 2
    <2>1. Before(a) = 14 /\ (j = 0 \/ j = 1 \/ j = 2 \/ j = 3)
      BY <1>2, <1>4
    <2>2. CASE j = 0
      BY <1>1, <1>4, <2>1, <2>2 DEF HeaderNames
    <2>3. CASE j = 1
      BY <1>1, <1>4, <2>1, <2>3 DEF HeaderNames
    <2>4. CASE j = 2
      BY <1>1, <1>4, <2>1, <2>4 DEF HeaderNames
    <2>5. CASE j = 3
      BY <1>1, <1>4, <2>1, <2>5 DEF HeaderNames
    <2> QED BY <2>1, <2>2, <2>3, <2>4, <2>5
  <1> QED BY <1>1, <1>3, <1>4

\* What the buffer begins with.
LEMMA AtBuffer ==
  ASSUME Typed, NEW c \in Conn, NEW L, Streaming(c, L)
  PROVE  /\ L[0].of \in Answers /\ L[0].at \in Nat \ {0} /\ Size(L[0].of) \in Nat
         /\ buf[c] \in Seq(Symbol) /\ Len(buf[c]) \in Nat
         /\ \A i \in 1..Len(buf[c]) :
              L[0].at + i <= Size(L[0].of) => buf[c][i] = Sent(L[0].of)[L[0].at + i]
         /\ Len(buf[c]) >= 1 => L[1] \in Label /\ buf[c][1] = Glyph(L[1])
         /\ \A i \in 1..(Len(buf[c]) - 1) :
              L[1].at + i <= Size(L[1].of) => /\ buf[c][1 + i] = Sent(L[1].of)[L[1].at + i]
                                              /\ L[1 + i] = Spot(L[1].of, L[1].at + i)
         /\ Len(buf[c]) <= Len(Ahead(c)) /\ Len(Ahead(c)) \in Nat
  <1>1. /\ Ahead(c) \in Seq(Symbol) /\ Len(Ahead(c)) \in Nat
        /\ Len(buf[c]) \in Nat /\ Len(buf[c]) <= Len(Ahead(c))
        /\ \A i \in 1..Len(buf[c]) : Ahead(c)[i] = buf[c][i]
        /\ buf[c] \in Seq(Symbol)
    BY AheadFacts DEF Typed
  <1>2. Labelled(Ahead(c), L, conn[c] = "up") /\ ReportTyped
    BY DEF Streaming, Typed
  <1>3. L \in [0..Len(Ahead(c)) -> Label] /\ L[0] \in Label
    BY <1>1, <1>2 DEF Labelled
  <1>4. L[0].of \in Answers /\ L[0].at \in Nat \ {0} /\ Size(L[0].of) \in Nat
    <2>1. L[0].at \in 1..Size(L[0].of) /\ Size(L[0].of) \in Nat /\ L[0].of \in Answers
      BY <1>2, <1>3, LabelFacts
    <2> QED BY <2>1
  <1>5. ASSUME NEW i \in 1..Len(buf[c]), L[0].at + i <= Size(L[0].of)
        PROVE  buf[c][i] = Sent(L[0].of)[L[0].at + i]
    <2>1. i \in 1..(Len(Ahead(c)) - 0) /\ 0 + i = i /\ 0 \in 0..Len(Ahead(c))
      BY <1>1
    <2>2. Ahead(c)[0 + i] = Sent(L[0].of)[L[0].at + i]
      BY <1>2, <1>5, <2>1, Upcoming
    <2> QED BY <1>1, <2>1, <2>2
  <1>6. ASSUME Len(buf[c]) >= 1 PROVE L[1] \in Label /\ buf[c][1] = Glyph(L[1])
    <2>1. 1 \in 1..Len(Ahead(c)) /\ 1 \in 0..Len(Ahead(c)) /\ 1 \in 1..Len(buf[c])
      BY <1>1, <1>6
    <2> QED BY <1>1, <1>2, <1>3, <2>1 DEF Labelled
  <1>7. ASSUME NEW i \in 1..(Len(buf[c]) - 1), L[1].at + i <= Size(L[1].of)
        PROVE  buf[c][1 + i] = Sent(L[1].of)[L[1].at + i] /\ L[1 + i] = Spot(L[1].of, L[1].at + i)
    <2>1. i \in 1..(Len(Ahead(c)) - 1) /\ 1 \in 0..Len(Ahead(c)) /\ 1 + i \in 1..Len(buf[c])
      BY <1>1
    <2>2. L[1 + i] = Spot(L[1].of, L[1].at + i) /\ Ahead(c)[1 + i] = Sent(L[1].of)[L[1].at + i]
      BY <1>2, <1>7, <2>1, Upcoming
    <2> QED BY <1>1, <2>1, <2>2
  <1> QED BY <1>1, <1>4, <1>5, <1>6, <1>7

\* The answer to OPTIONS is parsed from a stream that is not stale.
LEMMA OptionsFresh ==
  ASSUME Typed, NEW c \in Conn, NEW L, Streaming(c, L), Edges(c), Within(c), asked[c].file = NoFile
  PROVE  ~stale[c] /\ L[0].of.req = asked[c]
  <1>1. verdict[c] = "none" /\ ctx[c].state # "OUT" /\ ~Reading(c)
    BY DEF Edges, Within, Parsing, Reading
  <1>2. ~stale[c]
    BY <1>1 DEF Streaming, Soiled, Dead, Pending, Skewed, Reading, Within
  <1> QED BY <1>2 DEF Streaming, Fresh

LEMMA HeaderFieldFlow ==
  ASSUME Typed, NEW c \in Conn, Flow(c), HeaderField(c), toS' = toS, report' = report
  PROVE  Flow(c)' /\ StreamTyped'
  <1>0. Edges(c) /\ ReportTyped /\ StreamTyped
    BY DEF Flow, Typed
  <1>1. PICK L : Streaming(c, L)
    BY DEF Flow
  <1>2. /\ ctx[c].state = "HEADER_FIELD" /\ ~late[c] /\ FindCrLf(buf[c]) > 1
        /\ conn' = conn /\ wire' = wire /\ asked' = asked
    BY DEF HeaderField, InLine, NeedMore
  <1>3. Within(c) /\ Parsing(c) /\ verdict[c] = "none"
    BY <1>0, <1>2 DEF Within, Parsing, Edges
  <1> DEFINE a == L[0].of  k == L[0].at  h == Head(buf[c])
  <1>4. /\ a \in Answers /\ k \in Nat \ {0} /\ Size(a) \in Nat
        /\ buf[c] \in Seq(Symbol) /\ Len(buf[c]) \in Nat
        /\ \A i \in 1..Len(buf[c]) : k + i <= Size(a) => buf[c][i] = Sent(a)[k + i]
    BY <1>1, AtBuffer
  <1>5. /\ StatusAccepted(asked[c].what, Status(a)) /\ ctx[c].status = Status(a)
    BY <1>1, <1>3 DEF Streaming, Place
  <1>6. PICK j \in 0..(Extra(a) + 1) : InHead(c, L[0], j)
    BY <1>1, <1>2 DEF Streaming, Place
  <1>7. k = 3 + 3 * j
    BY <1>6 DEF InHead
  <1>8. /\ j \in Nat /\ Extra(a) \in {0, 2}
        /\ j <= Extra(a) =>
             /\ k + 3 <= Size(a)
             /\ Sent(a)[k + 1].is \in HeaderNames
             /\ Sent(a)[k + 2].is = "cr" /\ Sent(a)[k + 3].is = "lf"
             /\ j < Extra(a) => j \in {0, 1} /\ Sent(a)[k + 1].is = IF j = 0 THEN "me" ELSE "root"
             /\ j = Extra(a) /\ Chunked(a) => Sent(a)[k + 1].is = "chunked"
             /\ j = Extra(a) /\ ~Chunked(a) =>
                  /\ Sent(a)[k + 1].is = "content-length"
                  /\ Sent(a)[k + 1].val = Len(BodyOf(a))
        /\ j = Extra(a) + 1 =>
             /\ k + 2 <= Size(a)
             /\ Sent(a)[k + 1].is = "cr" /\ Sent(a)[k + 2].is = "lf"
    <2>1. ReportTyped /\ a \in Answers
      BY <1>0, <1>4
    <2> HIDE DEF a, k
    <2> QED BY <1>7, <2>1, HeadLine
  <1> HIDE DEF a, k
  <1>9. j <= Extra(a)
    <2> SUFFICES ASSUME j = Extra(a) + 1 PROVE FALSE
      BY <1>8
    <2>1. Len(buf[c]) >= 1 => buf[c][1].is = "cr"
      BY <1>4, <1>8
    <2>2. Len(buf[c]) >= 2 => buf[c][2].is = "lf"
      BY <1>4, <1>8
    <2>3. FindCrLf(buf[c]) \in {0, 1}
      BY <1>4, <2>1, <2>2, FindEmpty
    <2> QED BY <1>2, <2>3
  <1>10. FindCrLf(buf[c]) = 2 /\ Len(buf[c]) >= 3 /\ h = Sent(a)[k + 1] /\ h.is \in HeaderNames
    <2>1. Len(buf[c]) >= 1 => buf[c][1] = Sent(a)[k + 1] /\ buf[c][1].is # "cr"
      BY <1>4, <1>8, <1>9, SMTT(30) DEF HeaderNames
    <2>2. (Len(buf[c]) >= 2 => buf[c][2].is = "cr") /\ (Len(buf[c]) >= 3 => buf[c][3].is = "lf")
      BY <1>4, <1>8, <1>9
    <2>3. FindCrLf(buf[c]) = IF Len(buf[c]) >= 3 THEN 2 ELSE 0
      BY <1>4, <2>1, <2>2, FindLine
    <2>4. FindCrLf(buf[c]) = 2 /\ Len(buf[c]) >= 3
      BY <1>2, <2>3
    <2> QED BY <1>4, <1>8, <1>9, <2>1, <2>4
  <1>11. CASE Error(c)
    BY <1>0, <1>2, <1>3, <1>11, ErrorFlow
  <1>12. CASE ~Error(c)
    <2>1. /\ HeaderAccepted(asked[c].what, ctx[c].status)
          /\ SkipTo(c, 3)
          /\ ctx' = [ctx EXCEPT ![c] = Header(h, ctx[c])]
          /\ taken' = [taken EXCEPT ![c] = IF asked[c].what = "OPTIONS" /\ h.is \in {"me", "root"}
                                             THEN Append(taken[c], h) ELSE taken[c]]
          /\ verdict' = verdict /\ stale' = stale
      BY <1>10, <1>12 DEF HeaderField, Set
    <2>2. ctx'[c] = Header(h, ctx[c]) /\ ctx[c] \in Ctx /\ taken[c] \in Seq(Symbol)
          /\ taken'[c] = IF asked[c].what = "OPTIONS" /\ h.is \in {"me", "root"}
                           THEN Append(taken[c], h) ELSE taken[c]
      BY <2>1 DEF Typed
    <2>3. /\ ctx'[c].state = "HEADER_FIELD" /\ ctx'[c].status = ctx[c].status
          /\ ctx'[c].within = ctx[c].within
          /\ ctx'[c].chunked = (h.is = "chunked" \/ ctx[c].chunked)
          /\ h.is = "content-length" => ctx'[c].bodysz = h.val
      BY <1>2, <2>2 DEF Header, Ctx
    <2>4. Within(c)' /\ k + 3 <= Size(a) /\ 3 <= Len(buf[c]) + 1
      BY <1>4, <1>8, <1>9, <1>10, <2>3 DEF Within
    <2>5. PICK M : /\ Labelled(Ahead(c), M, conn[c] = "up")'
                   /\ M[0] = Spot(a, k + 3)
                   /\ Fresh(c, M)' /\ Soiled(c, M)'
                   /\ late'[c] /\ wire'[c] = <<>> => conn'[c] # "up"
      BY <1>0, <1>1, <1>2, <1>3, <2>1, <2>4, WithinSkip DEF a, k
    <2>6. M[0].of = a /\ M[0].at = k + 3
      BY <2>5 DEF Spot
    <2>7. asked[c].what = "OPTIONS" => ~Refused(a) /\ Told(c, IF j + 1 <= 2 THEN j + 1 ELSE 2)'
      <3> SUFFICES ASSUME asked[c].what = "OPTIONS"
                   PROVE  ~Refused(a) /\ Told(c, IF j + 1 <= 2 THEN j + 1 ELSE 2)'
        OBVIOUS
      <3>1. ~Refused(a)
        BY <1>5, <2>1 DEF HeaderAccepted, Status
      <3>2. a.req.what = "OPTIONS"
        <4>1. asked[c] \in Made
          BY DEF Typed
        <4>2. asked[c].file = NoFile
          BY <4>1, MadeFacts
        <4> QED BY <1>0, <1>1, <1>3, <4>2, OptionsFresh DEF a
      <3>3. Extra(a) = 2
        BY <3>1, <3>2 DEF Extra
      <3>4. Told(c, IF j <= 2 THEN j ELSE 2)
        BY <1>6 DEF InHead
      <3>5. CASE j = 0
        <4>1. taken'[c] = Append(taken[c], h) /\ h.is = "me" /\ Len(taken[c]) = 0
          BY <1>8, <1>10, <2>2, <3>3, <3>4, <3>5 DEF Told
        <4>2. Len(taken'[c]) = 1 /\ taken'[c][1] = h
          BY <2>2, <4>1
        <4> QED BY <3>1, <3>5, <4>1, <4>2 DEF Told
      <3>6. CASE j = 1
        <4>1. taken'[c] = Append(taken[c], h) /\ h.is = "root" /\ Len(taken[c]) = 1 /\ taken[c][1].is = "me"
          BY <1>8, <1>10, <2>2, <3>3, <3>4, <3>6 DEF Told
        <4>2. Len(taken'[c]) = 2 /\ taken'[c][2] = h /\ taken'[c][1] = taken[c][1]
          BY <2>2, <4>1
        <4> QED BY <3>1, <3>6, <4>1, <4>2 DEF Told
      <3>7. CASE j = 2
        <4>1. h.is \in {"chunked", "content-length"}
          BY <1>8, <1>10, <3>3, <3>7
        <4>2. taken'[c] = taken[c]
          BY <2>2, <4>1
        <4> QED BY <3>1, <3>4, <3>7, <4>2 DEF Told
      <3>8. j \in {0, 1, 2}
        BY <1>8, <1>9, <3>3
      <3> QED BY <3>5, <3>6, <3>7, <3>8
    <2>8. HasBody(asked[c]) => taken'[c] = <<>>
      BY <1>6, <2>2 DEF InHead, HasBody
    <2>9. /\ j + 1 \in 0..(Extra(a) + 1) /\ k + 3 = 3 + 3 * (j + 1)
          /\ (j + 1 <= Extra(a) => j < Extra(a)) /\ (j + 1 = Extra(a) + 1 => j = Extra(a))
      BY <1>7, <1>8, <1>9
    <2>10. InHead(c, M[0], j + 1)'
      <3>1. j < Extra(a) => h.is # "chunked"
        BY <1>8, <1>9, <1>10
      <3>2. j = Extra(a) /\ Chunked(a) => h.is = "chunked"
        BY <1>8, <1>9, <1>10
      <3>3. j = Extra(a) /\ ~Chunked(a) => h.is = "content-length" /\ h.val = Len(BodyOf(a))
        BY <1>8, <1>9, <1>10
      <3>4. ~ctx[c].chunked /\ ~ctx[c].within
        BY <1>6, <1>9 DEF InHead, a
      <3>5. /\ ~ctx'[c].within
            /\ j < Extra(a) => ~ctx'[c].chunked
            /\ j = Extra(a) /\ Chunked(a) => ctx'[c].chunked
            /\ j = Extra(a) /\ ~Chunked(a) => ~ctx'[c].chunked /\ ctx'[c].bodysz = Len(BodyOf(a))
        BY <2>3, <3>1, <3>2, <3>3, <3>4
      <3> HIDE DEF h
      <3> QED BY <1>2, <2>6, <2>7, <2>8, <2>9, <3>5, Rigid DEF InHead
    <2>11. Place(c, M[0])'
      <3>1. \E i \in 0..(Extra(M[0].of) + 1) : InHead(c, M[0], i)'
        BY <2>6, <2>9, <2>10
      <3> QED BY <1>2, <1>5, <2>3, <2>6, <3>1 DEF Place, Reading, Within, AtBody
    <2>12. ~late'[c]
      <3>1. ~(3 > Len(buf[c]))
        BY <1>4, <1>10
      <3> QED BY <1>0, <2>1, <3>1 DEF SkipTo, Set, StreamTyped
    <2>13. Edges(c)'
      BY <1>0, <1>2, <1>3, <2>1, <2>3, <2>12 DEF Edges, Parsing, Within
    <2>14. StreamTyped'
      <3>1. 3 <= Len(buf[c]) + 1
        BY <2>4
      <3> QED BY <1>0, <1>2, <2>1, <3>1, Skipped
    <2> QED BY <2>5, <2>11, <2>13, <2>14 DEF Flow, Streaming
  <1> QED BY <1>11, <1>12

LEMMA EmptyLineFlow ==
  ASSUME Typed, NEW c \in Conn, Flow(c), EmptyLine(c), toS' = toS, report' = report
  PROVE  Flow(c)' /\ StreamTyped'
  <1>0. Edges(c) /\ ReportTyped /\ StreamTyped
    BY DEF Flow, Typed
  <1>1. PICK L : Streaming(c, L)
    BY DEF Flow
  <1>2. /\ ctx[c].state = "HEADER_FIELD" /\ ~late[c] /\ FindCrLf(buf[c]) = 1
        /\ conn' = conn /\ wire' = wire /\ asked' = asked /\ taken' = taken
        /\ verdict' = verdict /\ stale' = stale
        /\ SkipTo(c, 2) /\ ctx' = [ctx EXCEPT ![c] = [ctx[c] EXCEPT !.state = "BODY_IN"]]
    BY DEF EmptyLine, InLine, NeedMore, Set
  <1>3. Within(c) /\ Parsing(c) /\ verdict[c] = "none"
    BY <1>0, <1>2 DEF Within, Parsing, Edges
  <1> DEFINE a == L[0].of  k == L[0].at
  <1>4. /\ a \in Answers /\ k \in Nat \ {0} /\ Size(a) \in Nat
        /\ buf[c] \in Seq(Symbol) /\ Len(buf[c]) \in Nat
        /\ \A i \in 1..Len(buf[c]) : k + i <= Size(a) => buf[c][i] = Sent(a)[k + i]
    BY <1>1, AtBuffer
  <1>5. StatusAccepted(asked[c].what, Status(a)) /\ ctx[c].status = Status(a)
    BY <1>1, <1>3 DEF Streaming, Place
  <1>6. PICK j \in 0..(Extra(a) + 1) : InHead(c, L[0], j)
    BY <1>1, <1>2 DEF Streaming, Place
  <1>7. k = 3 + 3 * j
    BY <1>6 DEF InHead
  <1>8. /\ j \in Nat /\ Extra(a) \in {0, 2}
        /\ j <= Extra(a) =>
             /\ k + 3 <= Size(a)
             /\ Sent(a)[k + 1].is \in HeaderNames
             /\ Sent(a)[k + 2].is = "cr" /\ Sent(a)[k + 3].is = "lf"
        /\ j = Extra(a) + 1 =>
             /\ k + 2 = Before(a) /\ k + 2 <= Size(a)
             /\ Sent(a)[k + 1].is = "cr" /\ Sent(a)[k + 2].is = "lf"
    <2>1. ReportTyped /\ a \in Answers
      BY <1>0, <1>4
    <2> HIDE DEF a, k
    <2> QED BY <1>7, <2>1, HeadLine
  <1>9. j = Extra(a) + 1
    <2> HIDE DEF a, k
    <2> SUFFICES ASSUME j <= Extra(a) PROVE FALSE
      BY <1>8
    <2>1. Len(buf[c]) >= 1 => buf[c][1].is # "cr"
      BY <1>4, <1>8 DEF HeaderNames
    <2>20. k + 3 <= Size(a) /\ k \in Nat
      BY <1>4, <1>8
    <2>21. ASSUME NEW i \in {2, 3}, i <= Len(buf[c]) PROVE buf[c][i] = Sent(a)[k + i]
      <3>1. i \in 1..Len(buf[c]) /\ k + i <= Size(a)
        BY <1>4, <2>20, <2>21
      <3> QED BY <1>4, <3>1
    <2>2. (Len(buf[c]) >= 2 => buf[c][2].is = "cr") /\ (Len(buf[c]) >= 3 => buf[c][3].is = "lf")
      BY <1>8, <2>21
    <2>3. FindCrLf(buf[c]) \in {0, 2}
      BY <1>4, <2>1, <2>2, FindLine
    <2> QED BY <1>2, <2>3
  <1>10. Len(buf[c]) >= 2
    <2> HIDE DEF a, k
    <2>1. Len(buf[c]) >= 1 => buf[c][1].is = "cr"
      BY <1>4, <1>8, <1>9
    <2>2. Len(buf[c]) >= 2 => buf[c][2].is = "lf"
      BY <1>4, <1>8, <1>9
    <2>3. FindCrLf(buf[c]) = IF Len(buf[c]) >= 2 THEN 1 ELSE 0
      BY <1>4, <2>1, <2>2, FindEmpty
    <2> QED BY <1>2, <2>3
  <1>11. /\ ctx'[c].state = "BODY_IN" /\ ctx'[c].status = ctx[c].status
         /\ ctx'[c].within = ctx[c].within /\ ctx'[c].chunked = ctx[c].chunked
         /\ ctx'[c].bodysz = ctx[c].bodysz
    BY <1>2 DEF Typed, Ctx
  <1>12. Within(c)' /\ k + 2 <= Size(a) /\ 2 <= Len(buf[c]) + 1
    BY <1>4, <1>8, <1>9, <1>10, <1>11 DEF Within
  <1>13. PICK M : /\ Labelled(Ahead(c), M, conn[c] = "up")'
                  /\ M[0] = Spot(a, k + 2)
                  /\ Fresh(c, M)' /\ Soiled(c, M)'
                  /\ late'[c] /\ wire'[c] = <<>> => conn'[c] # "up"
    BY <1>0, <1>1, <1>2, <1>3, <1>12, WithinSkip
  <1> HIDE DEF a, k
  <1>14. M[0].of = a /\ M[0].at = Before(a)
    BY <1>8, <1>9, <1>13 DEF Spot
  <1>15. /\ ~ctx[c].within
         /\ Chunked(a) => ctx[c].chunked
         /\ ~Chunked(a) => ~ctx[c].chunked /\ ctx[c].bodysz = Len(BodyOf(a))
         /\ HasBody(asked[c]) => taken[c] = <<>>
         /\ asked[c].what = "OPTIONS" => ~Refused(a) /\ Told(c, IF j <= 2 THEN j ELSE 2)
    <2>1. j > 0
      BY <1>8, <1>9
    <2> QED BY <1>6, <1>9, <2>1 DEF InHead, a
  <1>16. asked[c].what = "OPTIONS" => Told(c, 2)
    <2> SUFFICES ASSUME asked[c].what = "OPTIONS" PROVE Told(c, 2)
      OBVIOUS
    <2>1. a.req.what = "OPTIONS"
      <3>1. asked[c] \in Made
        BY DEF Typed
      <3>2. asked[c].file = NoFile
        BY <3>1, MadeFacts
      <3> QED BY <1>0, <1>1, <1>3, <3>2, OptionsFresh DEF a
    <2>2. j = 3
      BY <1>9, <1>15, <2>1 DEF Extra
    <2> QED BY <1>15, <2>2
  <1>17. Place(c, M[0])'
    <2>1. ~ctx'[c].chunked => InLength(c, M[0])'
      <3> SUFFICES ASSUME ~ctx'[c].chunked PROVE InLength(c, M[0])'
        OBVIOUS
      <3>1. Before(a)' = Before(a)
        BY DEF Before, Extra, Refused
      <3> QED BY <1>2, <1>11, <1>14, <1>15, <3>1, Rigid DEF InLength
    <2>2. ctx'[c].chunked => 0 \in Stops(a) /\ InChunks(c, M[0], 0)'
      <3> SUFFICES ASSUME ctx'[c].chunked PROVE 0 \in Stops(a) /\ InChunks(c, M[0], 0)'
        OBVIOUS
      <3>1. Chunked(a)
        BY <1>11, <1>15
      <3>2. 0 \in Stops(a) /\ ChunkAt(a, 0) = 0
        BY <1>0, <1>4, <3>1, AnswerChunks
      <3>3. SubSeq(BodyOf(a), 1, 0) = <<>>
        BY SubSeqEmpty
      <3>4. Before(a)' = Before(a) /\ Before(a) \in Nat /\ (HasBody(asked[c]))' = HasBody(asked[c])
        BY <1>2, <1>8 DEF Before, Extra, Refused, HasBody
      <3>5. M[0].at = Before(a) + ChunkAt(a, 0) + IF ctx'[c].within THEN 3 ELSE 0
        BY <1>11, <1>14, <1>15, <3>2, <3>4
      <3> QED BY <1>2, <1>11, <1>14, <1>15, <3>1, <3>2, <3>3, <3>4, <3>5, Rigid DEF InChunks
    <2>3. Stops(a)' = Stops(a)
      BY Rigid
    <2>4. asked'[c].what = "OPTIONS" => ~Refused(a) /\ Told(c, 2)'
      BY <1>2, <1>15, <1>16 DEF Told
    <2>5. ctx'[c].chunked => \E t \in Stops(M[0].of)' : InChunks(c, M[0], t)'
      BY <1>14, <2>2, <2>3
    <2> QED BY <1>2, <1>5, <1>11, <1>14, <1>15, <2>1, <2>4, <2>5 DEF Place, Reading, Within, AtBody
  <1>18. ~late'[c]
    <2>1. ~(2 > Len(buf[c]))
      BY <1>4, <1>10
    <2> QED BY <1>0, <1>2, <2>1 DEF SkipTo, Set, StreamTyped
  <1>19. Edges(c)'
    BY <1>0, <1>2, <1>3, <1>11, <1>18 DEF Edges, Parsing, Within
  <1>20. StreamTyped'
    BY <1>0, <1>2, <1>12, Skipped
  <1> QED BY <1>13, <1>17, <1>19, <1>20 DEF Flow, Streaming

LEMMA StatusLineFlow ==
  ASSUME Typed, NEW c \in Conn, Flow(c), StatusLine(c), toS' = toS, report' = report
  PROVE  Flow(c)' /\ StreamTyped'
  <1>0. Edges(c) /\ ReportTyped /\ StreamTyped
    BY DEF Flow, Typed
  <1>1. PICK L : Streaming(c, L)
    BY DEF Flow
  <1> DEFINE end == FindCrLf(buf[c])  first == Head(buf[c])
  <1>2. /\ ctx[c].state = "STATUS_LINE" /\ ~late[c] /\ end # 0
        /\ pos[c] < Len(buf[c])
        /\ conn' = conn /\ wire' = wire /\ asked' = asked
    BY DEF StatusLine, InLine, NeedMore, Typed, StreamTyped
  <1>3. Reading(c) /\ Parsing(c) /\ verdict[c] = "none"
    BY <1>0, <1>2 DEF Reading, Parsing, Edges
  <1>4. CASE Error(c)
    BY <1>0, <1>2, <1>3, <1>4, ErrorFlow
  <1>5. CASE ~Error(c)
    <2>1. /\ end > 1 /\ first.is = "status"
          /\ StatusAccepted(asked[c].what, first.val)
          /\ SkipTo(c, end + 1)
          /\ ctx' = [ctx EXCEPT ![c] = [ctx[c] EXCEPT !.state = "HEADER_FIELD", !.status = first.val]]
          /\ taken' = taken /\ verdict' = verdict /\ stale' = stale
      BY <1>5 DEF StatusLine, Set
    <2> DEFINE a == L[1].of
    <2>2. /\ buf[c] \in Seq(Symbol) /\ Len(buf[c]) \in Nat
          /\ Len(buf[c]) >= 1 => L[1] \in Label /\ buf[c][1] = Glyph(L[1])
          /\ \A i \in 1..(Len(buf[c]) - 1) :
               L[1].at + i <= Size(a) => /\ buf[c][1 + i] = Sent(a)[L[1].at + i]
                                         /\ L[1 + i] = Spot(a, L[1].at + i)
          /\ Len(buf[c]) <= Len(Ahead(c)) /\ Len(Ahead(c)) \in Nat
      BY <1>1, AtBuffer
    <2>3. Len(buf[c]) >= 1 /\ first = buf[c][1]
      BY <1>0, <1>2, <2>2 DEF StreamTyped
    <2>4. /\ L[1] \in Label /\ a \in Answers /\ L[1].at \in 1..Size(a) /\ L[1] = Spot(a, L[1].at)
          /\ first = Sent(a)[L[1].at]
      BY <1>0, <2>2, <2>3, LabelFacts DEF Glyph
    <2> HIDE DEF a, first, end
    <2>5. /\ Size(a) \in Nat /\ Size(a) >= 8 /\ Extra(a) \in {0, 2}
          /\ \A i \in 2..Size(a) : Sent(a)[i].is # "status"
          /\ Sent(a)[1].is = "status" /\ Sent(a)[1].val = Status(a)
          /\ Sent(a)[2].is = "cr" /\ Sent(a)[3].is = "lf"
      BY <1>0, <2>4, AnswerHead
    <2>6. L[1].at = 1
      BY <2>1, <2>4, <2>5
    <2>7. /\ Len(buf[c]) >= 2 => buf[c][2].is = "cr"
          /\ Len(buf[c]) >= 3 => buf[c][3].is = "lf" /\ L[3] = Spot(a, 3)
      <3>1. ASSUME Len(buf[c]) >= 2 PROVE buf[c][2].is = "cr"
        <4>1. 1 \in 1..(Len(buf[c]) - 1) /\ L[1].at + 1 <= Size(a) /\ L[1].at + 1 = 2 /\ 1 + 1 = 2
          BY <2>2, <2>5, <2>6, <3>1
        <4> QED BY <2>2, <2>5, <4>1
      <3>2. ASSUME Len(buf[c]) >= 3 PROVE buf[c][3].is = "lf" /\ L[3] = Spot(a, 3)
        <4>1. 2 \in 1..(Len(buf[c]) - 1) /\ L[1].at + 2 <= Size(a) /\ L[1].at + 2 = 3 /\ 1 + 2 = 3
          BY <2>2, <2>5, <2>6, <3>2
        <4> QED BY <2>2, <2>5, <4>1
      <3> QED BY <3>1, <3>2
    <2>8. end = 2 /\ Len(buf[c]) >= 3 /\ first.val = Status(a)
      <3>1. buf[c][1].is # "cr"
        BY <2>1, <2>3
      <3>2. end = IF Len(buf[c]) >= 3 THEN 2 ELSE 0
        BY <2>2, <2>7, <3>1, FindLine DEF end
      <3>3. end = 2 /\ Len(buf[c]) >= 3
        BY <1>2, <3>2
      <3>4. first.val = Status(a)
        BY <2>4, <2>5, <2>6
      <3> QED BY <3>3, <3>4
    <2>9. SkipTo(c, 3) /\ 3 <= Len(buf[c]) + 1 /\ 3 <= Len(Ahead(c)) /\ 3 \in Nat
      <3>1. end + 1 = 3
        BY <2>8
      <3>2. 3 <= Len(buf[c]) + 1 /\ 3 <= Len(Ahead(c))
        <4>1. Len(buf[c]) \in Nat /\ Len(Ahead(c)) \in Nat /\ Len(buf[c]) <= Len(Ahead(c))
          BY <2>2
        <4>2. Len(buf[c]) >= 3
          BY <2>8
        <4> QED BY <4>1, <4>2
      <3>3. 3 \in Nat
        OBVIOUS
      <3>4. SkipTo(c, 3)
        <4>1. SkipTo(c, end + 1)
          BY <2>1
        <4> QED BY <3>1, <4>1 DEF SkipTo, Set
      <3> QED BY <3>2, <3>3, <3>4
    <2>10. PICK M : /\ Labelled(Ahead(c), M, conn[c] = "up")'
                    /\ M[0] = L[3] /\ Len(Ahead(c)') = Len(Ahead(c)) - 3
                    /\ \A i \in 1..Len(Ahead(c)') : M[i] = L[3 + i]
      BY <1>0, <1>1, <1>2, <2>9, SkipLabels DEF Streaming
    <2>11. M[0] = Spot(a, 3) /\ M[0].of = a /\ M[0].at = 3
      BY <2>7, <2>8, <2>10 DEF Spot
    <2>12. /\ ctx'[c].state = "HEADER_FIELD" /\ ctx'[c].status = Status(a)
           /\ ctx'[c].within = ctx[c].within /\ ctx'[c].chunked = ctx[c].chunked
      BY <2>1, <2>8 DEF Typed, Ctx
    <2>13. ASSUME NEW i \in 1..Len(Ahead(c)')
           PROVE  3 + i \in 1..Len(Ahead(c)) /\ M[i] = L[3 + i]
      BY <2>2, <2>10
    <2>14. 1 \in 1..Len(Ahead(c)) /\ Ahead(c) # <<>>
      <3>1. 1 \in 1..Len(Ahead(c))
        BY <2>2, <2>9
      <3>2. Len(<<>>) = 0 /\ 0 # Len(Ahead(c))
        BY <3>1
      <3> QED BY <3>1, <3>2
    <2>15. Fresh(c, M)'
      <3> SUFFICES ASSUME ~stale[c] PROVE Fresh(c, M)'
        BY <2>1 DEF Fresh
      <3>1. /\ toS[c] = <<>>
            /\ \E b \in Answers : /\ b.req = asked[c]
                                  /\ \A i \in 1..Len(Ahead(c)) : L[i] = Spot(b, i)
        BY <1>1, <1>3, <2>14 DEF Streaming, Fresh
      <3>2. PICK b \in Answers : b.req = asked[c] /\ \A i \in 1..Len(Ahead(c)) : L[i] = Spot(b, i)
        BY <3>1
      <3>3. b = a
        <4>1. L[1] = Spot(b, 1)
          BY <2>14, <3>2
        <4> QED BY <4>1 DEF Spot, a
      <3>4. \A i \in 1..Len(Ahead(c)') : M[i] = Spot(M[0].of, M[0].at + i)
        BY <2>11, <2>13, <3>2, <3>3
      <3> QED BY <1>2, <2>11, <2>12, <3>1, <3>2, <3>3, <3>4 DEF Fresh, Reading, Within
    <2>16. Soiled(c, M)'
      <3> SUFFICES ASSUME stale[c] PROVE asked[c].file # NoFile /\ Filed(c, M)'
        BY <1>2, <2>1 DEF Soiled
      <3>1. asked[c].file # NoFile
        BY <1>1, <1>2, <1>3, <2>6 DEF Streaming, Soiled, Dead, Pending, Skewed, Reading
      <3>2. Filed(c, L)
        BY <1>1, <1>3, <3>1, FiledAhead
      <3>3. a.req.file # NoFile
        BY <2>14, <3>2 DEF Filed, a
      <3>4. \A i \in 1..Len(Ahead(c)') : M[i].of.req.file # NoFile
        BY <2>13, <3>2 DEF Filed
      <3> QED BY <2>11, <3>1, <3>2, <3>3, <3>4 DEF Filed
    <2>17. Place(c, M[0])'
      <3>1. ~ctx[c].within /\ ~ctx[c].chunked /\ taken[c] = <<>>
        BY <1>1, <1>3 DEF Streaming, Place
      <3>2. 0 \in 0..(Extra(a) + 1) /\ 0 <= Extra(a) /\ 0 # Extra(a) + 1 /\ 3 = 3 + 3 * 0 /\ ~(0 > 0)
        BY <2>5
      <3>3. Told(c, 0)'
        BY <2>1, <3>1 DEF Told
      <3>4. Told(c, IF 0 <= 2 THEN 0 ELSE 2)'
        BY <3>3
      <3>5. InHead(c, M[0], 0)'
        BY <2>1, <2>11, <2>12, <3>1, <3>2, <3>4 DEF InHead
      <3>6. \E i \in 0..(Extra(M[0].of) + 1) : InHead(c, M[0], i)'
        BY <2>11, <3>2, <3>5
      <3>7. StatusAccepted(asked'[c].what, Status(a))
        BY <1>2, <2>1, <2>8
      <3> QED BY <2>11, <2>12, <3>6, <3>7 DEF Place, Reading, Within, AtBody
    <2>18. ~late'[c]
      <3>1. ~(3 > Len(buf[c]))
        BY <2>2, <2>8
      <3> QED BY <1>0, <2>9, <3>1 DEF SkipTo, Set, StreamTyped
    <2>19. Edges(c)'
      BY <1>0, <1>2, <1>3, <2>1, <2>12, <2>18 DEF Edges, Parsing, Within
    <2>20. StreamTyped'
      BY <1>0, <1>2, <2>9, Skipped
    <2> QED BY <2>10, <2>15, <2>16, <2>17, <2>19, <2>20 DEF Flow, Streaming
  <1> QED BY <1>4, <1>5

LEMMA ChunkSizeFlow ==
  ASSUME Typed, NEW c \in Conn, Flow(c), ChunkSize(c), toS' = toS, report' = report
  PROVE  Flow(c)' /\ StreamTyped'
  <1>0. Edges(c) /\ ReportTyped /\ StreamTyped
    BY DEF Flow, Typed
  <1>1. PICK L : Streaming(c, L)
    BY DEF Flow
  <1>2. /\ ctx[c].state \in {"BODY_IN", "BODY"} /\ ctx[c].chunked /\ ~ctx[c].within
        /\ FindCrLf(buf[c]) # 0
        /\ conn' = conn /\ wire' = wire /\ asked' = asked
    BY DEF ChunkSize, InChunkSize
  <1>3. Within(c) /\ Parsing(c) /\ AtBody(c) /\ verdict[c] = "none" /\ ~late[c]
    BY <1>0, <1>2 DEF Within, AtBody, Parsing, Edges, ChunkSize, InBody, NeedMore
  <1> DEFINE a == L[0].of  k == L[0].at  first == Head(buf[c])
  <1>4. /\ a \in Answers /\ k \in Nat \ {0} /\ Size(a) \in Nat
        /\ buf[c] \in Seq(Symbol) /\ Len(buf[c]) \in Nat
        /\ \A i \in 1..Len(buf[c]) : k + i <= Size(a) => buf[c][i] = Sent(a)[k + i]
    BY <1>1, AtBuffer
  <1>5. /\ StatusAccepted(asked[c].what, Status(a)) /\ ctx[c].status = Status(a)
        /\ asked[c].what = "OPTIONS" => ~Refused(a) /\ Told(c, 2)
    BY <1>1, <1>3 DEF Streaming, Place
  <1>6. PICK t \in Stops(a) : InChunks(c, L[0], t)
    BY <1>1, <1>2, <1>3 DEF Streaming, Place
  <1>7. Chunked(a) /\ (HasBody(asked[c]) => taken[c] = SubSeq(BodyOf(a), 1, t))
    BY <1>6 DEF InChunks
  <1> HIDE DEF a, first
  <1>8. PICK n : n = ChunkLen(a, t)
    OBVIOUS
  <1>9. PICK p : p = Before(a) + ChunkAt(a, t)
    OBVIOUS
  <1>10. /\ n \in Nat /\ p \in Nat /\ p + n + 5 <= Size(a)
         /\ Sent(a)[p + 1].is = "size" /\ Sent(a)[p + 1].val = n
         /\ Sent(a)[p + 2].is = "cr" /\ Sent(a)[p + 3].is = "lf"
    BY <1>0, <1>4, <1>7, <1>8, <1>9, AnswerChunks
  <1>11. k = p
    <2>1. k = Before(a) + ChunkAt(a, t) + 0
      BY <1>2, <1>6 DEF InChunks, a
    <2> QED BY <1>9, <1>10, <2>1
  <1> HIDE DEF k
  <1>12. FindCrLf(buf[c]) = 2 /\ Len(buf[c]) >= 3 /\ first = Sent(a)[k + 1]
    <2>1. Len(buf[c]) >= 1 => buf[c][1] = Sent(a)[k + 1] /\ buf[c][1].is # "cr"
      BY <1>4, <1>10, <1>11
    <2>2. (Len(buf[c]) >= 2 => buf[c][2].is = "cr") /\ (Len(buf[c]) >= 3 => buf[c][3].is = "lf")
      BY <1>4, <1>10, <1>11
    <2>3. FindCrLf(buf[c]) = IF Len(buf[c]) >= 3 THEN 2 ELSE 0
      BY <1>4, <2>1, <2>2, FindLine
    <2>4. FindCrLf(buf[c]) = 2 /\ Len(buf[c]) >= 3
      BY <1>2, <2>3
    <2> QED BY <1>4, <2>1, <2>4 DEF first
  <1>13. CASE Error(c)
    BY <1>0, <1>2, <1>3, <1>13, ErrorFlow
  <1>14. CASE ~Error(c)
    <2>1. /\ SkipTo(c, 3)
          /\ ctx' = [ctx EXCEPT ![c] = [ctx[c] EXCEPT !.state = "BODY", !.within = TRUE, !.size = first.val]]
          /\ taken' = taken /\ verdict' = verdict /\ stale' = stale
      BY <1>12, <1>14 DEF ChunkSize, Set, first
    <2>2. /\ ctx'[c].state = "BODY" /\ ctx'[c].status = ctx[c].status
          /\ ctx'[c].within = TRUE /\ ctx'[c].chunked = ctx[c].chunked
          /\ ctx'[c].size = n
      BY <1>10, <1>11, <1>12, <2>1 DEF Typed, Ctx
    <2>3. Within(c)' /\ k + 3 <= Size(a) /\ 3 <= Len(buf[c]) + 1
      BY <1>4, <1>10, <1>11, <1>12, <2>2 DEF Within
    <2>4. PICK M : /\ Labelled(Ahead(c), M, conn[c] = "up")'
                   /\ M[0] = Spot(a, k + 3)
                   /\ Fresh(c, M)' /\ Soiled(c, M)'
                   /\ late'[c] /\ wire'[c] = <<>> => conn'[c] # "up"
      BY <1>0, <1>1, <1>2, <1>3, <2>1, <2>3, WithinSkip DEF a, k
    <2>5. M[0].of = a /\ M[0].at = k + 3
      BY <2>4 DEF Spot
    <2>6. InChunks(c, M[0], t)'
      <3>1. Before(a)' = Before(a) /\ (HasBody(asked[c]))' = HasBody(asked[c])
        BY <1>2 DEF Before, Extra, Refused, HasBody
      <3>2. M[0].at = Before(a) + ChunkAt(a, t) + IF ctx'[c].within THEN 3 ELSE 0
        BY <1>9, <1>11, <2>2, <2>5
      <3> QED BY <1>2, <1>7, <1>8, <2>1, <2>2, <2>5, <3>1, <3>2, Rigid DEF InChunks
    <2>7. Place(c, M[0])'
      <3>1. \E s \in Stops(M[0].of)' : InChunks(c, M[0], s)'
        BY <1>6, <2>5, <2>6, Rigid DEF a
      <3>2. asked'[c].what = "OPTIONS" => ~Refused(a) /\ Told(c, 2)'
        BY <1>2, <1>5, <2>1 DEF Told
      <3> QED BY <1>2, <1>5, <2>2, <2>5, <3>1, <3>2 DEF Place, Reading, Within, AtBody
    <2>8. ~late'[c]
      <3>1. ~(3 > Len(buf[c]))
        BY <1>4, <1>12
      <3> QED BY <1>0, <2>1, <3>1 DEF SkipTo, Set, StreamTyped
    <2>9. Edges(c)'
      BY <1>0, <1>2, <1>3, <2>1, <2>2, <2>8 DEF Edges, Parsing, Within
    <2>10. StreamTyped'
      <3>1. 3 <= Len(buf[c]) + 1
        BY <2>3
      <3> QED BY <1>0, <1>2, <1>3, <2>1, <3>1, Skipped
    <2> QED BY <2>4, <2>7, <2>9, <2>10 DEF Flow, Streaming
  <1> QED BY <1>13, <1>14

\* The answer whose body is taken is one to a request that has such a body.
LEMMA AtHand ==
  ASSUME Typed, NEW c \in Conn, NEW L, Streaming(c, L), Edges(c), Within(c), HasBody(asked[c])
  PROVE  /\ L[0].of \in Answers /\ ~Refused(L[0].of) /\ L[0].of.req.what # "OPTIONS"
         /\ ~stale[c] \/ asked[c].file = NoFile => L[0].of.req = asked[c]
  <1> DEFINE a == L[0].of
  <1>1. a \in Answers /\ a.req \in Made
    <2>1. a \in Answers
      BY AtBuffer
    <2> QED BY <2>1 DEF Answers
  <1>2. verdict[c] = "none" /\ Parsing(c) /\ ~Reading(c) /\ ctx[c].state # "OUT"
    BY DEF Edges, Within, Parsing, Reading
  <1>3. ~Refused(a)
    BY DEF Streaming, Place, StatusAccepted, HasBody, Status
  <1>4. CASE ~stale[c]
    <2>1. a.req = asked[c]
      BY <1>4 DEF Streaming, Fresh
    <2> QED BY <1>1, <1>3, <2>1 DEF HasBody
  <1>5. CASE stale[c]
    <2>1. asked[c].file # NoFile
      BY <1>2, <1>5 DEF Streaming, Soiled, Dead, Pending, Skewed, Reading, Within
    <2>2. a.req.file # NoFile
      BY <1>2, <2>1, FiledAhead DEF Filed
    <2>3. a.req.what \in {"PROPFIND", "GET"}
      <3> HIDE DEF a
      <3> QED BY <1>1, <2>2, MadeFacts
    <2> QED BY <1>1, <1>3, <1>5, <2>1, <2>3
  <1> QED BY <1>4, <1>5 DEF Typed

LEMMA Extended ==
  ASSUME NEW S, NEW b \in Seq(S), NEW t \in Nat, NEW n \in Nat, t + n <= Len(b),
         NEW d \in Seq(S), Len(d) = n, \A i \in 1..n : d[i] = b[t + i]
  PROVE  SubSeq(b, 1, t) \o d = SubSeq(b, 1, t + n)
  <1> DEFINE x == SubSeq(b, 1, t)  z == SubSeq(b, 1, t + n)
  <1>0. Len(b) \in Nat /\ t <= Len(b) /\ t + n \in Nat /\ 1 \in Nat \ {0} /\ 1 <= t + 1 /\ 1 <= (t + n) + 1
    OBVIOUS
  <1>1. x \in Seq(S) /\ Len(x) = t + 1 - 1 /\ \A i \in 1..(t + 1 - 1) : x[i] = b[1 - 1 + i]
    BY <1>0, Between
  <1>2. z \in Seq(S) /\ Len(z) = (t + n) + 1 - 1 /\ \A i \in 1..((t + n) + 1 - 1) : z[i] = b[1 - 1 + i]
    BY <1>0, Between
  <1> HIDE DEF x, z
  <1>3. Len(x) = t /\ Len(z) = t + n
    BY <1>0, <1>1, <1>2
  <1>4. ASSUME NEW i \in 1..t PROVE x[i] = b[i]
    <2>1. i \in 1..(t + 1 - 1) /\ 1 - 1 + i = i
      OBVIOUS
    <2> QED BY <1>1, <2>1
  <1>5. ASSUME NEW i \in 1..(t + n) PROVE z[i] = b[i]
    <2>1. i \in 1..((t + n) + 1 - 1) /\ 1 - 1 + i = i
      OBVIOUS
    <2> QED BY <1>2, <2>1
  <1> DEFINE y == x \o d
  <1>6. /\ y \in Seq(S) /\ Len(y) = Len(x) + Len(d)
        /\ \A i \in 1..Len(x) : y[i] = x[i]
        /\ \A i \in 1..Len(d) : y[Len(x) + i] = d[i]
    <2>1. x \in Seq(S) /\ d \in Seq(S)
      BY <1>1
    <2>2. y \in Seq(S) /\ Len(y) = Len(x) + Len(d)
      BY <2>1, Joined
    <2>3. \A i \in 1..Len(x) : y[i] = x[i]
      BY <2>1, Joined
    <2>4. \A i \in 1..Len(d) : y[Len(x) + i] = d[i]
      BY <2>1, Joined
    <2> QED BY <2>2, <2>3, <2>4
  <1> HIDE DEF y
  <1>7. Len(y) = Len(z) /\ Len(y) = t + n
    BY <1>3, <1>6
  <1>8. ASSUME NEW i \in 1..Len(y) PROVE y[i] = z[i]
    <2>1. CASE i <= t
      BY <1>3, <1>4, <1>5, <1>6, <1>7, <2>1
    <2>2. CASE ~(i <= t)
      <3> DEFINE j == i - t
      <3>1. j \in 1..n /\ i = t + j /\ i \in 1..(t + n)
        BY <1>7, <2>2
      <3> HIDE DEF j
      <3> QED BY <1>3, <1>5, <1>6, <3>1
    <2> QED BY <2>1, <2>2
  <1>9. y = z
    BY <1>2, <1>6, <1>7, <1>8, SeqEqual
  <1> QED BY <1>9 DEF y, x, z

LEMMA ChunkDataFlow ==
  ASSUME Typed, NEW c \in Conn, Flow(c), ChunkData(c), toS' = toS, report' = report
  PROVE  /\ Flow(c)' /\ StreamTyped'
         /\ ~Error(c) => Drawn(c)'
         /\ asked[c].what = "OPTIONS" => taken'[c] = taken[c]
  <1>0. Edges(c) /\ ReportTyped /\ StreamTyped
    BY DEF Flow, Typed
  <1>1. PICK L : Streaming(c, L)
    BY DEF Flow
  <1>2. /\ ctx[c].state \in {"BODY_IN", "BODY"} /\ ctx[c].chunked /\ ctx[c].within
        /\ pos[c] = ctx[c].size
        /\ conn' = conn /\ wire' = wire /\ asked' = asked
    BY DEF ChunkData, InBody
  <1>3. Within(c) /\ Parsing(c) /\ AtBody(c) /\ verdict[c] = "none" /\ ~late[c]
        /\ pos[c] < Len(buf[c])
    <2>1. Within(c) /\ Parsing(c) /\ AtBody(c) /\ verdict[c] = "none"
      BY <1>0, <1>2 DEF Within, AtBody, Parsing, Edges
    <2>2. ~NeedMore(c)
      BY <1>1, <1>2, <2>1 DEF ChunkData, InBody, Streaming, Place
    <2>3. pos[c] \in Nat /\ Len(buf[c]) \in Nat
      BY <1>0 DEF StreamTyped
    <2> QED BY <2>1, <2>2, <2>3 DEF NeedMore
  <1> DEFINE a == L[0].of  k == L[0].at
  <1>4. /\ a \in Answers /\ k \in Nat \ {0} /\ Size(a) \in Nat
        /\ buf[c] \in Seq(Symbol) /\ Len(buf[c]) \in Nat
        /\ \A i \in 1..Len(buf[c]) : k + i <= Size(a) => buf[c][i] = Sent(a)[k + i]
    BY <1>1, AtBuffer
  <1>5. /\ StatusAccepted(asked[c].what, Status(a)) /\ ctx[c].status = Status(a)
        /\ asked[c].what = "OPTIONS" => ~Refused(a) /\ Told(c, 2)
    BY <1>1, <1>3 DEF Streaming, Place
  <1>6. PICK t \in Stops(a) : InChunks(c, L[0], t)
    BY <1>1, <1>2, <1>3 DEF Streaming, Place
  <1>7. Chunked(a) /\ (HasBody(asked[c]) => taken[c] = SubSeq(BodyOf(a), 1, t))
        /\ ctx[c].size = ChunkLen(a, t)
    BY <1>2, <1>6 DEF InChunks
  <1>71. HasBody(asked[c]) =>
           /\ ~Refused(a) /\ a.req.what # "OPTIONS"
           /\ ~stale[c] \/ asked[c].file = NoFile => a.req = asked[c]
    BY <1>0, <1>1, <1>3, AtHand
  <1> HIDE DEF a
  <1>8. PICK n : n = ChunkLen(a, t)
    OBVIOUS
  <1>9. PICK p : p = Before(a) + ChunkAt(a, t)
    OBVIOUS
  <1>10. /\ t \in 0..Len(BodyOf(a)) /\ n \in Nat /\ p \in Nat
         /\ t + n \in Stops(a) /\ t + n <= Len(BodyOf(a))
         /\ n = 0 <=> t = Len(BodyOf(a))
         /\ p + n + 5 <= Size(a) /\ (p + n + 5 = Size(a) <=> n = 0)
         /\ n # 0 => Before(a) + ChunkAt(a, t + n) = p + n + 5
         /\ \A i \in 1..n : Sent(a)[p + 3 + i] = BodyOf(a)[t + i]
    <2>1. ReportTyped /\ a \in Answers /\ Chunked(a)
      BY <1>0, <1>4, <1>7
    <2> QED BY <1>8, <1>9, <2>1, AnswerChunks
  <1>11. k = p + 3
    <2>1. k = Before(a) + ChunkAt(a, t) + 3
      BY <1>2, <1>6 DEF InChunks, a
    <2> QED BY <1>9, <1>10, <2>1
  <1> HIDE DEF k
  <1>12. BodyOf(a) \in Seq(Symbol) /\ Len(BodyOf(a)) \in Nat /\ t \in Nat
    <2>1. BodyOf(a) \in Seq(Inner)
      BY <1>0, <1>4, BodyTyped
    <2>2. Seq(Inner) \subseteq Seq(Symbol)
      <3>1. Inner \subseteq Symbol
        BY DEF Inner
      <3> QED BY <3>1
    <2>3. BodyOf(a) \in Seq(Symbol)
      BY <2>1, <2>2
    <2> QED BY <1>10, <2>3
  <1>13. n < Len(buf[c]) /\ n = ctx[c].size /\ n <= Len(buf[c])
    BY <1>2, <1>3, <1>4, <1>7, <1>8, <1>10
  <1>131. /\ n \in Nat /\ p \in Nat /\ t \in Nat /\ Size(a) \in Nat /\ Len(buf[c]) \in Nat
          /\ k = p + 3 /\ n < Len(buf[c]) /\ p + n + 5 <= Size(a) /\ buf[c] \in Seq(Symbol)
          /\ (p + n + 5 = Size(a) <=> n = 0)
    BY <1>4, <1>10, <1>11, <1>12, <1>13
  <1>14. CASE Error(c)
    <2>1. Flow(c)' /\ StreamTyped'
      BY <1>0, <1>2, <1>3, <1>14, ErrorFlow
    <2>2. taken' = taken
      BY <1>14 DEF Error
    <2> QED BY <1>14, <2>1, <2>2
  <1>15. CASE ~Error(c)
    <2> DEFINE data == SubSeq(buf[c], 1, n)
    <2>1. /\ BodyCallback(c, data) /\ SkipTo(c, n + 2)
          /\ IF n > 0 THEN ctx' = [ctx EXCEPT ![c] = [ctx[c] EXCEPT !.within = FALSE]] /\ verdict' = verdict
                      ELSE Return(c, "done")
          /\ stale' = stale
      BY <1>13, <1>15 DEF ChunkData, Set
    <2>2. data \in Seq(Symbol) /\ Len(data) = n /\ \A i \in 1..n : data[i] = BodyOf(a)[t + i]
      <3>1. data \in Seq(Symbol) /\ Len(data) = n + 1 - 1
            /\ \A i \in 1..(n + 1 - 1) : data[i] = buf[c][1 - 1 + i]
        <4>1. 1 \in Nat \ {0} /\ 1 <= n + 1 /\ n \in Nat /\ n <= Len(buf[c]) /\ buf[c] \in Seq(Symbol)
          BY <1>131
        <4> QED BY <4>1, Between
      <3> HIDE DEF data
      <3>2. n + 1 - 1 = n
        BY <1>10
      <3>3. ASSUME NEW i \in 1..n PROVE data[i] = BodyOf(a)[t + i]
        <4>1. i \in 1..(n + 1 - 1) /\ 1 - 1 + i = i /\ i \in 1..Len(buf[c]) /\ k + i <= Size(a) /\ k + i = p + 3 + i
          BY <1>131
        <4>2. data[i] = buf[c][i]
          <5>1. data[i] = buf[c][1 - 1 + i]
            BY <3>1, <4>1
          <5> QED BY <4>1, <5>1
        <4>3. buf[c][i] = Sent(a)[k + i]
          BY <1>4, <4>1
        <4>4. Sent(a)[p + 3 + i] = BodyOf(a)[t + i]
          BY <1>10
        <4> QED BY <4>1, <4>2, <4>3, <4>4
      <3> QED BY <3>1, <3>2, <3>3
    <2> HIDE DEF data
    <2>3. taken'[c] = taken[c] \o Given(asked[c].what, data, ctx[c].chunked)
      BY <2>1 DEF BodyCallback, Set, Typed
    <2>4. HasBody(asked[c]) => taken'[c] = SubSeq(BodyOf(a), 1, t + n)
      <3> SUFFICES ASSUME HasBody(asked[c]) PROVE taken'[c] = SubSeq(BodyOf(a), 1, t + n)
        OBVIOUS
      <3>1. taken'[c] = SubSeq(BodyOf(a), 1, t) \o data
        BY <1>7, <2>3 DEF Given, HasBody
      <3>2. BodyOf(a) \in Seq(Symbol) /\ t \in Nat /\ n \in Nat /\ t + n <= Len(BodyOf(a))
        BY <1>10, <1>12
      <3>3. SubSeq(BodyOf(a), 1, t) \o data = SubSeq(BodyOf(a), 1, t + n)
        BY <2>2, <3>2, Extended
      <3> QED BY <3>1, <3>3
    <2>5. asked[c].what = "OPTIONS" => taken'[c] = taken[c]
      BY <1>2, <2>3 DEF Given, Typed
    <2>6. PICK q \in Nat : q = k + (n + 2)
      BY <1>4, <1>10
    <2>61. q <= Size(a) /\ q = p + n + 5 /\ (q = Size(a) <=> n = 0)
      BY <1>4, <1>10, <1>11, <2>6
    <2>7. ctx'[c] = IF n > 0 THEN [ctx[c] EXCEPT !.within = FALSE] ELSE CtxOut
      BY <2>1 DEF Return, Set, Typed
    <2>8. /\ n > 0 => /\ ctx'[c].state = ctx[c].state /\ ctx'[c].status = ctx[c].status
                      /\ ctx'[c].within = FALSE /\ ctx'[c].chunked = ctx[c].chunked
          /\ ~(n > 0) => ctx'[c].state = "OUT"
      <3>1. CASE n > 0
        BY <2>7, <3>1 DEF Typed, Ctx
      <3>2. CASE ~(n > 0)
        BY <2>7, <3>2 DEF CtxOut, CtxInit
      <3> QED BY <3>1, <3>2
    <2>9. Within(c)' \/ (ctx'[c].state = "OUT" /\ q = Size(a))
      <3>1. n > 0 \/ n = 0
        BY <1>131
      <3> QED BY <1>2, <2>61, <2>8, <3>1 DEF Within
    <2>10. n + 2 \in Nat /\ n + 2 <= Len(buf[c]) + 1
      BY <1>131
    <2>11. PICK M : /\ Labelled(Ahead(c), M, conn[c] = "up")'
                    /\ M[0] = Spot(a, q)
                    /\ Fresh(c, M)' /\ Soiled(c, M)'
                    /\ late'[c] /\ wire'[c] = <<>> => conn'[c] # "up"
      <3>1. PICK m \in Nat : m = n + 2
        BY <2>10
      <3>2. SkipTo(c, m)
        BY <2>1, <3>1
      <3>3. L[0].at + m = q /\ L[0].of = a
        BY <2>6, <3>1 DEF a, k
      <3>4. m <= Len(buf[c]) + 1 /\ L[0].at + m <= Size(L[0].of)
            /\ (Within(c)' \/ (ctx'[c].state = "OUT" /\ L[0].at + m = Size(L[0].of)))
        BY <2>9, <2>10, <2>61, <3>1, <3>3
      <3> HIDE <2>10
      <3>5. \E M : /\ Labelled(Ahead(c), M, conn[c] = "up")'
                   /\ M[0] = Spot(L[0].of, L[0].at + m)
                   /\ Fresh(c, M)' /\ Soiled(c, M)'
                   /\ late'[c] /\ wire'[c] = <<>> => conn'[c] # "up"
        BY <1>0, <1>1, <1>2, <1>3, <2>1, <3>2, <3>4, WithinSkip
      <3> QED BY <3>3, <3>5
    <2>12. M[0].of = a /\ M[0].at = q
      BY <2>11 DEF Spot
    <2>13. Place(c, M[0])'
      <3>1. CASE n > 0
        <4>1. PICK s \in Stops(a) : s = t + n
          BY <1>10
        <4>2. Chunked(a) /\ (HasBody(asked[c]) => taken'[c] = SubSeq(BodyOf(a), 1, s))
              /\ M[0].at = Before(a) + ChunkAt(a, s) + 0
          <5>1. Before(a) + ChunkAt(a, s) = p + n + 5
            BY <1>10, <3>1, <4>1
          <5>2. M[0].at = p + n + 5 /\ p + n + 5 \in Nat
            BY <1>10, <2>61, <2>12
          <5>3. HasBody(asked[c]) => taken'[c] = SubSeq(BodyOf(a), 1, s)
            BY <2>4, <4>1
          <5> QED BY <1>7, <5>1, <5>2, <5>3
        <4>3. Before(a)' = Before(a) /\ (HasBody(asked[c]))' = HasBody(asked[c])
          BY <1>2 DEF Before, Extra, Refused, HasBody
        <4>4. InChunks(c, M[0], s)'
          BY <1>2, <2>8, <2>12, <3>1, <4>2, <4>3, Rigid DEF InChunks
        <4>5. \E r \in Stops(M[0].of)' : InChunks(c, M[0], r)'
          BY <2>12, <4>1, <4>4, Rigid
        <4>6. asked'[c].what = "OPTIONS" => ~Refused(a) /\ Told(c, 2)'
          BY <1>2, <1>5, <2>5 DEF Told
        <4> QED BY <1>2, <1>5, <2>8, <2>12, <3>1, <4>5, <4>6 DEF Place, Reading, Within, AtBody
      <3>2. CASE ~(n > 0)
        BY <2>8, <3>2 DEF Place, Reading, Within, AtBody
      <3> QED BY <3>1, <3>2
    <2>14. Edges(c)'
      <3>1. Parsing(c)' => verdict'[c] = "none"
        BY <1>3, <2>1, <2>8 DEF Parsing
      <3>2. verdict'[c] # "empty"
        <4>1. verdict'[c] = IF n > 0 THEN verdict[c] ELSE "done"
          BY <2>1 DEF Return, Set, Typed
        <4> QED BY <1>3, <4>1
      <3>3. ctx'[c].state \in {"OUT", "BODY"} \/ ~late'[c]
        <4>1. CASE n > 0
          <5>1. ctx[c].state = "BODY"
            BY <1>1, <1>2, <1>3 DEF Streaming, Place
          <5> QED BY <2>8, <4>1, <5>1
        <4> QED BY <2>8, <4>1
      <3>4. (conn[c] \in {"eof", "reset"} => toS[c] = <<>>) /\ conn'[c] = conn[c] /\ toS'[c] = toS[c]
        BY <1>0, <1>2 DEF Edges
      <3> QED BY <2>11, <3>1, <3>2, <3>3, <3>4 DEF Edges
    <2>15. StreamTyped'
      BY <1>0, <1>2, <1>3, <2>1, <2>10, Skipped
    <2>16. Drawn(c)'
      <3> SUFFICES ASSUME HasBody(asked[c]) PROVE Drawn(c)'
        BY <1>2 DEF Drawn, HasBody
      <3>1. PICK m \in Nat : m = t + n
        BY <1>10, <1>12
      <3>2. m <= Len(BodyOf(a)) /\ taken'[c] = SubSeq(BodyOf(a), 1, m)
        BY <1>10, <2>4, <3>1
      <3>3. verdict'[c] = "done" => m = Len(BodyOf(a))
        <4>1. CASE n > 0
          BY <1>3, <2>1, <4>1
        <4>2. CASE ~(n > 0)
          BY <1>10, <1>12, <3>1, <4>2
        <4> QED BY <4>1, <4>2
      <3>4. BodyOf(a)' = BodyOf(a)
        BY Rigid
      <3> QED BY <1>2, <1>4, <1>71, <2>1, <3>2, <3>3, <3>4 DEF Drawn, Refused
    <2> QED BY <2>5, <2>11, <2>13, <2>14, <2>15, <2>16 DEF Flow, Streaming
  <1> QED BY <1>14, <1>15

LEMMA LengthBodyFlow ==
  ASSUME Typed, NEW c \in Conn, Flow(c), LengthBody(c), toS' = toS, report' = report
  PROVE  /\ Flow(c)' /\ StreamTyped'
         /\ Drawn(c)' \/ (taken'[c] = taken[c] /\ verdict'[c] = verdict[c])
         /\ asked[c].what = "OPTIONS" => taken'[c] = taken[c]
  <1>0. Edges(c) /\ ReportTyped /\ StreamTyped
    BY DEF Flow, Typed
  <1>1. PICK L : Streaming(c, L)
    BY DEF Flow
  <1>2. /\ ctx[c].state \in {"BODY_IN", "BODY"} /\ ~ctx[c].chunked
        /\ conn' = conn /\ wire' = wire /\ asked' = asked /\ stale' = stale
    BY DEF LengthBody, InBody
  <1>3. Within(c) /\ Parsing(c) /\ AtBody(c) /\ verdict[c] = "none" /\ ~late[c]
    BY <1>0, <1>2 DEF Within, AtBody, Parsing, Edges, LengthBody, InBody, NeedMore
  <1> DEFINE a == L[0].of  k == L[0].at
  <1>4. /\ a \in Answers /\ k \in Nat \ {0} /\ Size(a) \in Nat
        /\ buf[c] \in Seq(Symbol) /\ Len(buf[c]) \in Nat
        /\ \A i \in 1..Len(buf[c]) : k + i <= Size(a) => buf[c][i] = Sent(a)[k + i]
    BY <1>1, AtBuffer
  <1>5. /\ StatusAccepted(asked[c].what, Status(a)) /\ ctx[c].status = Status(a)
        /\ asked[c].what = "OPTIONS" => ~Refused(a) /\ Told(c, 2)
    BY <1>1, <1>3 DEF Streaming, Place
  <1>6. InLength(c, L[0])
    BY <1>1, <1>2, <1>3 DEF Streaming, Place
  <1>7. ~Chunked(a) /\ k = Before(a) /\ (HasBody(asked[c]) => taken[c] = <<>>)
        /\ ctx[c].bodysz = Len(BodyOf(a))
    BY <1>6 DEF InLength
  <1>71. HasBody(asked[c]) =>
           /\ ~Refused(a) /\ a.req.what # "OPTIONS"
           /\ ~stale[c] \/ asked[c].file = NoFile => a.req = asked[c]
    BY <1>0, <1>1, <1>3, AtHand
  <1>72. asked[c].what = "OPTIONS" => BodyOf(a) = <<>>
    <2> SUFFICES ASSUME asked[c].what = "OPTIONS" PROVE BodyOf(a) = <<>>
      OBVIOUS
    <2>1. asked[c] \in Made
      BY DEF Typed
    <2>2. asked[c].file = NoFile
      BY <2>1, MadeFacts
    <2>3. a.req = asked[c]
      BY <1>0, <1>1, <1>3, <2>2, OptionsFresh
    <2> HIDE DEF a
    <2> QED BY <1>0, <1>4, <1>5, <2>3, BodyTyped
  <1> HIDE DEF a, k
  <1>8. PICK n : n = Len(BodyOf(a))
    OBVIOUS
  <1>9. BodyOf(a) \in Seq(Symbol) /\ n \in Nat
    <2>1. BodyOf(a) \in Seq(Inner)
      BY <1>0, <1>4, BodyTyped
    <2>2. Seq(Inner) \subseteq Seq(Symbol)
      <3>1. Inner \subseteq Symbol
        BY DEF Inner
      <3> QED BY <3>1
    <2>3. BodyOf(a) \in Seq(Symbol)
      BY <2>1, <2>2
    <2> QED BY <1>8, <2>3
  <1>10. k \in Nat /\ k + n = Size(a) /\ \A i \in 1..n : Sent(a)[k + i] = BodyOf(a)[i]
    BY <1>0, <1>4, <1>7, <1>8, AnswerHead
  <1>11. \/ /\ Len(buf[c]) < n
            /\ pos' = [pos EXCEPT ![c] = Len(buf[c])]
            /\ ctx' = [ctx EXCEPT ![c] = [ctx[c] EXCEPT !.state = "BODY"]]
            /\ buf' = buf /\ late' = late /\ taken' = taken /\ verdict' = verdict
         \/ /\ Len(buf[c]) >= n
            /\ BodyCallback(c, SubSeq(buf[c], 1, n))
            /\ SkipTo(c, n) /\ Return(c, "done")
         \/ /\ Len(buf[c]) >= n
            /\ BodyRefused(c, SubSeq(buf[c], 1, n))
            /\ Return(c, "error") /\ SkipTo(c, n) /\ taken' = taken
    BY <1>7, <1>8 DEF LengthBody, Set
  <1>12. CASE Len(buf[c]) < n
    <2>1. /\ pos' = [pos EXCEPT ![c] = Len(buf[c])]
          /\ ctx' = [ctx EXCEPT ![c] = [ctx[c] EXCEPT !.state = "BODY"]]
          /\ buf' = buf /\ late' = late /\ taken' = taken /\ verdict' = verdict
      BY <1>4, <1>9, <1>11, <1>12
    <2>2. Ahead(c)' = Ahead(c)
      BY <1>2, <2>1 DEF Ahead
    <2>3. SameLine(c) /\ Further(c) /\ ctx'[c].state = "BODY"
      BY <1>2, <2>1 DEF SameLine, Further, Typed, Ctx
    <2>4. Soiled(c, L)'
      BY <1>1, <1>2, <1>3, <2>1, <2>2, <2>3
         DEF SameLine, Further, Streaming, Soiled, Filed, Dead, Pending, Skewed, Reading, Within
    <2>5. Streaming(c, L)'
      BY <1>1, <2>2, <2>3, <2>4, Stay
    <2>6. Edges(c)'
      BY <1>0, <1>2, <1>3, <2>1, <2>3 DEF SameLine, Edges, Within, Parsing
    <2>7. StreamTyped'
      BY <1>0, <1>2, <1>4, <2>1 DEF StreamTyped
    <2> QED BY <2>1, <2>5, <2>6, <2>7 DEF Flow
  <1>13. CASE ~(Len(buf[c]) < n)
    <2>1. /\ Len(buf[c]) >= n /\ SkipTo(c, n)
          /\ \/ BodyCallback(c, SubSeq(buf[c], 1, n)) /\ Return(c, "done")
             \/ BodyRefused(c, SubSeq(buf[c], 1, n)) /\ Return(c, "error") /\ taken' = taken
      BY <1>4, <1>9, <1>11, <1>13
    <2>2. ctx'[c].state = "OUT" /\ verdict'[c] \in {"done", "error"}
      BY <2>1 DEF Return, Set, Typed, CtxOut, CtxInit
    <2>3. n <= Len(buf[c]) + 1 /\ k + n <= Size(a) /\ n <= Len(buf[c]) /\ ~(n > Len(buf[c]))
      BY <1>4, <1>9, <1>10, <2>1
    <2>4. PICK M : /\ Labelled(Ahead(c), M, conn[c] = "up")'
                   /\ Fresh(c, M)' /\ Soiled(c, M)'
      <3>1. L[0].at + n = Size(L[0].of) /\ L[0].at + n <= Size(L[0].of)
        BY <1>10, <2>3 DEF a, k
      <3> QED BY <1>0, <1>1, <1>2, <1>3, <1>9, <2>1, <2>2, <2>3, <3>1, WithinSkip
    <2>5. Place(c, M[0])'
      BY <2>2 DEF Place, Reading, Within, AtBody
    <2>6. ~late'[c]
      BY <1>0, <2>1, <2>3 DEF SkipTo, Set, StreamTyped
    <2>7. Edges(c)'
      BY <1>0, <1>2, <2>2, <2>6 DEF Edges, Parsing, Within
    <2>8. StreamTyped'
      BY <1>0, <1>2, <1>3, <1>9, <2>1, <2>3, Skipped
    <2> DEFINE data == SubSeq(buf[c], 1, n)
    <2>9. data \in Seq(Symbol) /\ Len(data) = n /\ \A i \in 1..n : data[i] = BodyOf(a)[0 + i]
      <3>1. data \in Seq(Symbol) /\ Len(data) = n + 1 - 1
            /\ \A i \in 1..(n + 1 - 1) : data[i] = buf[c][1 - 1 + i]
        <4>1. 1 \in Nat \ {0} /\ 1 <= n + 1 /\ n \in Nat /\ n <= Len(buf[c]) /\ buf[c] \in Seq(Symbol)
          BY <1>4, <1>9, <2>3
        <4> QED BY <4>1, Between
      <3> HIDE DEF data
      <3>2. n + 1 - 1 = n
        BY <1>9
      <3>3. ASSUME NEW i \in 1..n PROVE data[i] = BodyOf(a)[0 + i]
        <4>1. i \in 1..(n + 1 - 1) /\ 1 - 1 + i = i /\ i \in 1..Len(buf[c]) /\ k + i <= Size(a) /\ 0 + i = i
          <5>1. n \in Nat /\ k \in Nat /\ k + n = Size(a) /\ n <= Len(buf[c]) /\ Len(buf[c]) \in Nat
            BY <1>4, <1>9, <1>10, <2>3
          <5> QED BY <5>1
        <4> QED BY <1>4, <1>10, <3>1, <4>1
      <3> QED BY <3>1, <3>2, <3>3
    <2> HIDE DEF data
    <2>10. \/ BodyCallback(c, data) /\ Return(c, "done")
           \/ BodyRefused(c, data) /\ Return(c, "error") /\ taken' = taken
      BY <2>1 DEF data
    <2>11. CASE BodyCallback(c, data) /\ Return(c, "done")
      <3>1. taken'[c] = taken[c] \o data
        BY <1>2, <2>11 DEF BodyCallback, Given, Set, Typed
      <3>2. asked[c].what = "OPTIONS" => taken'[c] = taken[c]
        <4> SUFFICES ASSUME asked[c].what = "OPTIONS" PROVE taken'[c] = taken[c]
          OBVIOUS
        <4>1. Len(data) = 0
          BY <1>8, <1>72, <2>9
        <4>2. data = <<>>
          BY <2>9, <4>1
        <4> QED BY <3>1, <4>2 DEF Typed
      <3>3. Drawn(c)'
        <4> SUFFICES ASSUME HasBody(asked[c]) PROVE Drawn(c)'
          BY <1>2 DEF Drawn, HasBody
        <4>1. SubSeq(BodyOf(a), 1, 0) = <<>>
          BY SubSeqEmpty
        <4>2. SubSeq(BodyOf(a), 1, 0) \o data = SubSeq(BodyOf(a), 1, 0 + n)
          <5>1. BodyOf(a) \in Seq(Symbol) /\ 0 \in Nat /\ n \in Nat /\ 0 + n <= Len(BodyOf(a))
            BY <1>8, <1>9
          <5> QED BY <2>9, <5>1, Extended
        <4>3. 0 + n = n
          BY <1>9
        <4>4. taken'[c] = SubSeq(BodyOf(a), 1, n)
          BY <1>7, <3>1, <4>1, <4>2, <4>3
        <4>5. n <= Len(BodyOf(a))
          BY <1>8, <1>9
        <4>6. BodyOf(a)' = BodyOf(a)
          BY Rigid
        <4> QED BY <1>2, <1>4, <1>71, <1>8, <1>9, <4>4, <4>5, <4>6 DEF Drawn, Refused
      <3> QED BY <2>4, <2>5, <2>7, <2>8, <3>2, <3>3 DEF Flow, Streaming
    <2>12. CASE BodyRefused(c, data) /\ Return(c, "error") /\ taken' = taken
      <3>1. ~HasBody(asked[c])
        BY <2>12 DEF BodyRefused, BodyAccepted, HasBody
      <3>2. Drawn(c)'
        BY <1>2, <3>1 DEF Drawn, HasBody
      <3> QED BY <2>4, <2>5, <2>7, <2>8, <2>12, <3>2 DEF Flow, Streaming
    <2> QED BY <2>10, <2>11, <2>12
  <1> QED BY <1>12, <1>13

-----------------------------------------------------------------------------
(***************************************************************************)
(* http_parse_response as a whole.                                         *)
(***************************************************************************)
LEMMA SetAt ==
  ASSUME NEW f, NEW S, f \in [Conn -> S], NEW c \in Conn, NEW v, f' = [f EXCEPT ![c] = v]
  PROVE  /\ f'[c] = v /\ (v \in S => f' \in [Conn -> S])
         /\ \A d \in Conn \ {c} : f'[d] = f[d]
  OBVIOUS

LEMMA ParseOthers ==
  ASSUME Typed, NEW c \in Conn, Parse(c), toS' = toS
  PROVE  /\ conn' = conn /\ asked' = asked /\ bitty' = bitty
         /\ \A d \in Conn \ {c} : Same(d)
         /\ stale'[c] = stale[c] \/ stale'[c] = TRUE
         /\ verdict'[c] \in {verdict[c], "done", "empty", "error"}
         /\ stale' \in [Conn -> BOOLEAN]
         /\ verdict' \in [Conn -> {"none", "done", "empty", "error"}]
  <1>1. conn' = conn /\ asked' = asked /\ bitty' = bitty
    BY DEF Parse, Consume, NothingRead, Start, PartOfLine, StatusLine, HeaderField, EmptyLine,
           ChunkSize, PartOfChunk, ChunkData, LengthBody
  <1>2. wire' = wire \/ \E v : wire' = [wire EXCEPT ![c] = v]
    BY DEF Parse, Consume, NothingRead, Start, PartOfLine, StatusLine, HeaderField, EmptyLine,
           ChunkSize, PartOfChunk, ChunkData, LengthBody, stream, Set
  <1>3. buf' = buf \/ \E v : buf' = [buf EXCEPT ![c] = v]
    BY DEF Parse, Consume, NothingRead, Start, PartOfLine, StatusLine, HeaderField, EmptyLine,
           ChunkSize, PartOfChunk, ChunkData, LengthBody, stream, Set, SkipTo, Error
  <1>4. pos' = pos \/ \E v : pos' = [pos EXCEPT ![c] = v]
    BY DEF Parse, Consume, NothingRead, Start, PartOfLine, StatusLine, HeaderField, EmptyLine,
           ChunkSize, PartOfChunk, ChunkData, LengthBody, stream, Set, SkipTo, Error
  <1>5. late' = late \/ \E v : late' = [late EXCEPT ![c] = v]
    BY DEF Parse, Consume, NothingRead, Start, PartOfLine, StatusLine, HeaderField, EmptyLine,
           ChunkSize, PartOfChunk, ChunkData, LengthBody, stream, Set, SkipTo, Error
  <1>6. ctx' = ctx \/ \E v : ctx' = [ctx EXCEPT ![c] = v]
    BY DEF Parse, Consume, NothingRead, Start, PartOfLine, StatusLine, HeaderField, EmptyLine,
           ChunkSize, PartOfChunk, ChunkData, LengthBody, stream, Set, Return, Error
  <1>7. taken' = taken \/ \E v : taken' = [taken EXCEPT ![c] = v]
    BY DEF Parse, Consume, NothingRead, Start, PartOfLine, StatusLine, HeaderField, EmptyLine,
           ChunkSize, PartOfChunk, ChunkData, LengthBody, stream, Set, BodyCallback, Error
  <1>8. verdict' = verdict \/ \E v \in {"done", "empty", "error"} : verdict' = [verdict EXCEPT ![c] = v]
    BY DEF Parse, Consume, NothingRead, Start, PartOfLine, StatusLine, HeaderField, EmptyLine,
           ChunkSize, PartOfChunk, ChunkData, LengthBody, stream, Set, Return, Error
  <1>9. stale' = stale \/ stale' = [stale EXCEPT ![c] = TRUE]
    BY DEF Parse, Consume, NothingRead, Start, PartOfLine, StatusLine, HeaderField, EmptyLine,
           ChunkSize, PartOfChunk, ChunkData, LengthBody, stream, Set, Error
  <1>10. ASSUME NEW d \in Conn \ {c} PROVE Same(d)
    <2>0. conn'[d] = conn[d] /\ asked'[d] = asked[d] /\ toS'[d] = toS[d]
      BY <1>1
    <2>1. wire'[d] = wire[d] /\ buf'[d] = buf[d] /\ pos'[d] = pos[d] /\ late'[d] = late[d]
      BY <1>2, <1>3, <1>4, <1>5, <1>10 DEF Typed, StreamTyped
    <2>2. /\ ctx'[d] = ctx[d] /\ taken'[d] = taken[d]
          /\ verdict'[d] = verdict[d] /\ stale'[d] = stale[d]
      BY <1>6, <1>7, <1>8, <1>9, <1>10 DEF Typed
    <2> QED BY <2>0, <2>1, <2>2 DEF Same
  <1>11. stale'[c] \in {stale[c], TRUE} /\ stale' \in [Conn -> BOOLEAN]
    BY <1>9 DEF Typed
  <1>12. verdict'[c] \in {verdict[c], "done", "empty", "error"}
         /\ verdict' \in [Conn -> {"none", "done", "empty", "error"}]
    <2>1. verdict \in [Conn -> {"none", "done", "empty", "error"}]
      BY DEF Typed
    <2>2. CASE verdict' = verdict
      BY <2>1, <2>2
    <2>3. CASE \E v \in {"done", "empty", "error"} : verdict' = [verdict EXCEPT ![c] = v]
      <3>1. PICK v \in {"done", "empty", "error"} : verdict' = [verdict EXCEPT ![c] = v]
        BY <2>3
      <3>2. v \in {"none", "done", "empty", "error"}
        OBVIOUS
      <3> QED BY <2>1, <3>1, <3>2
    <2> QED BY <1>8, <2>2, <2>3
  <1> QED BY <1>1, <1>10, <1>11, <1>12

LEMMA ParseTyped ==
  ASSUME Typed, NEW c \in Conn, Parse(c)
  PROVE  ctx' \in [Conn -> Ctx] /\ taken' \in [Conn -> Seq(Symbol)]
  <1>1. /\ ctx \in [Conn -> Ctx] /\ ctx[c] \in Ctx /\ taken \in [Conn -> Seq(Symbol)] /\ taken[c] \in Seq(Symbol)
        /\ buf[c] \in Seq(Symbol)
    BY DEF Typed, StreamTyped
  <1>2. CtxOut \in Ctx
    BY DEF CtxOut, CtxInit, Ctx, States
  <1>3. ASSUME buf[c] # <<>> PROVE Head(buf[c]) \in Symbol /\ Head(buf[c]).val \in Nat
    <2>1. Head(buf[c]) \in Symbol
      BY <1>1, <1>3
    <2> QED BY <2>1 DEF Symbol
  <1>4. FindCrLf(buf[c]) # 0 => buf[c] # <<>>
    <2>1. Len(<<>>) = 0 /\ ~(0 >= 2)
      OBVIOUS
    <2> QED BY <1>1, <2>1, FindNothing
  <1>5. ctx' = ctx \/ \E v \in Ctx : ctx' = [ctx EXCEPT ![c] = v]
    <2>1. CASE Consume(c) \/ PartOfChunk(c)
      BY <2>1 DEF Consume, PartOfChunk
    <2>2. CASE NothingRead(c)
      BY <1>2, <2>2 DEF NothingRead, Return, Set
    <2>3. CASE Start(c)
      <3>1. [ctx[c] EXCEPT !.state = "STATUS_LINE"] \in Ctx
        BY <1>1 DEF Ctx, States
      <3> QED BY <2>3, <3>1 DEF Start, Set
    <2>4. CASE PartOfLine(c)
      <3>1. [ctx[c] EXCEPT !.state = IF @ = "BODY_IN" THEN "BODY" ELSE @] \in Ctx
        BY <1>1 DEF Ctx, States
      <3> QED BY <2>4, <3>1 DEF PartOfLine, Set
    <2>5. CASE StatusLine(c)
      <3>1. Head(buf[c]).val \in Nat
        BY <1>3, <1>4, <2>5 DEF StatusLine
      <3>2. [ctx[c] EXCEPT !.state = "HEADER_FIELD", !.status = Head(buf[c]).val] \in Ctx
        BY <1>1, <3>1 DEF Ctx, States
      <3> QED BY <1>2, <2>5, <3>2 DEF StatusLine, Set, Error, Return
    <2>6. CASE HeaderField(c)
      <3>1. Head(buf[c]).val \in Nat
        <4>1. FindCrLf(buf[c]) # 0
          BY <2>6 DEF HeaderField
        <4> QED BY <1>3, <1>4, <4>1
      <3>2. Header(Head(buf[c]), ctx[c]) \in Ctx
        BY <1>1, <3>1 DEF Ctx, Header
      <3> QED BY <1>2, <2>6, <3>2 DEF HeaderField, Set, Error, Return
    <2>7. CASE EmptyLine(c)
      <3>1. [ctx[c] EXCEPT !.state = "BODY_IN"] \in Ctx
        BY <1>1 DEF Ctx, States
      <3> QED BY <2>7, <3>1 DEF EmptyLine, Set
    <2>8. CASE ChunkSize(c)
      <3>1. Head(buf[c]).val \in Nat
        BY <1>3, <1>4, <2>8 DEF ChunkSize
      <3>2. [ctx[c] EXCEPT !.state = "BODY", !.within = TRUE, !.size = Head(buf[c]).val] \in Ctx
        BY <1>1, <3>1 DEF Ctx, States
      <3> QED BY <1>2, <2>8, <3>2 DEF ChunkSize, Set, Error, Return
    <2>9. CASE ChunkData(c)
      <3>1. [ctx[c] EXCEPT !.within = FALSE] \in Ctx
        BY <1>1 DEF Ctx
      <3> QED BY <1>2, <2>9, <3>1 DEF ChunkData, Set, Error, Return
    <2>10. CASE LengthBody(c)
      <3>1. [ctx[c] EXCEPT !.state = "BODY"] \in Ctx
        BY <1>1 DEF Ctx, States
      <3> QED BY <1>2, <2>10, <3>1 DEF LengthBody, Set, Return
    <2> QED BY <2>1, <2>2, <2>3, <2>4, <2>5, <2>6, <2>7, <2>8, <2>9, <2>10 DEF Parse
  <1>6. ASSUME NEW n \in Nat, n <= Len(buf[c]), BodyCallback(c, SubSeq(buf[c], 1, n))
        PROVE  \E v \in Seq(Symbol) : taken' = [taken EXCEPT ![c] = v]
    <2>1. SubSeq(buf[c], 1, n) \in Seq(Symbol)
      <3>1. 1 \in Nat \ {0} /\ 1 <= n + 1
        OBVIOUS
      <3> QED BY <1>1, <1>6, <3>1, Between
    <2>2. PICK d \in Seq(Symbol) : d = Given(asked[c].what, SubSeq(buf[c], 1, n), ctx[c].chunked)
      <3>1. <<>> \in Seq(Symbol)
        OBVIOUS
      <3> DEFINE s == SubSeq(buf[c], 1, n)
      <3>2. s \in Seq(Symbol)
        BY <2>1
      <3> HIDE DEF s
      <3>3. Given(asked[c].what, s, ctx[c].chunked) \in Seq(Symbol)
        BY <3>1, <3>2 DEF Given
      <3> QED BY <3>3 DEF s
    <2>3. taken[c] \o d \in Seq(Symbol)
      BY <1>1
    <2> QED BY <1>6, <2>2, <2>3 DEF BodyCallback, Set
  <1>7. taken' = taken \/ \E v \in Seq(Symbol) : taken' = [taken EXCEPT ![c] = v]
    <2>1. CASE Consume(c) \/ PartOfChunk(c) \/ NothingRead(c) \/ Start(c) \/ PartOfLine(c) \/ EmptyLine(c)
      BY <2>1 DEF Consume, PartOfChunk, NothingRead, Start, PartOfLine, EmptyLine
    <2>2. CASE StatusLine(c) \/ ChunkSize(c)
      BY <2>2 DEF StatusLine, ChunkSize, Error
    <2>3. CASE HeaderField(c)
      <3>1. Head(buf[c]) \in Symbol
        <4>1. FindCrLf(buf[c]) # 0
          BY <2>3 DEF HeaderField
        <4> QED BY <1>3, <1>4, <4>1
      <3>2. Append(taken[c], Head(buf[c])) \in Seq(Symbol)
        BY <1>1, <3>1
      <3> QED BY <1>1, <2>3, <3>2 DEF HeaderField, Set, Error
    <2>4. CASE ChunkData(c)
      <3>1. CASE Error(c)
        BY <3>1 DEF Error
      <3>2. CASE ~Error(c)
        <4>1. PICK n \in Nat : n = ctx[c].size
          BY <1>1 DEF Ctx
        <4>2. n <= Len(buf[c]) /\ BodyCallback(c, SubSeq(buf[c], 1, n))
          BY <2>4, <3>2, <4>1 DEF ChunkData, Typed, StreamTyped
        <4> QED BY <1>6, <4>2
      <3> QED BY <3>1, <3>2
    <2>5. CASE LengthBody(c)
      <3>1. PICK n \in Nat \cup {-1} : n = ctx[c].bodysz
        BY <1>1 DEF Ctx
      <3>2. CASE n \in Nat /\ Len(buf[c]) >= n /\ BodyCallback(c, SubSeq(buf[c], 1, n))
        <4>1. n <= Len(buf[c])
          BY <1>1, <3>2
        <4> QED BY <1>6, <3>2, <4>1
      <3>3. CASE n = -1 /\ BodyCallback(c, SubSeq(buf[c], 1, n))
        <4>1. SubSeq(buf[c], 1, -1) = <<>>
          BY SubSeqEmpty
        <4>2. taken' = [taken EXCEPT ![c] = taken[c] \o <<>>]
          BY <3>3, <4>1 DEF BodyCallback, Given, Set
        <4>3. taken[c] \o <<>> \in Seq(Symbol)
          BY <1>1
        <4> QED BY <4>2, <4>3
      <3> QED BY <2>5, <3>1, <3>2, <3>3 DEF LengthBody
    <2> QED BY <2>1, <2>2, <2>3, <2>4, <2>5 DEF Parse
  <1> QED BY <1>1, <1>5, <1>7

LEMMA DrawnStay ==
  ASSUME NEW c \in Conn, Drawn(c), report' = report, asked'[c] = asked[c],
         HasBody(asked[c]) => taken'[c] = taken[c],
         stale'[c] = stale[c] \/ stale'[c] = TRUE,
         verdict'[c] = "done" /\ conn'[c] = "up" => verdict[c] = "done" /\ conn[c] = "up"
  PROVE  Drawn(c)'
  <1> SUFFICES ASSUME HasBody(asked[c]) PROVE Drawn(c)'
    BY DEF Drawn, HasBody
  <1>1. PICK a \in Answers, m \in Nat :
          /\ m <= Len(BodyOf(a)) /\ taken[c] = SubSeq(BodyOf(a), 1, m)
          /\ ~Refused(a) /\ a.req.what # "OPTIONS"
          /\ ~stale[c] \/ asked[c].file = NoFile => a.req = asked[c]
          /\ verdict[c] = "done" /\ conn[c] = "up" => m = Len(BodyOf(a))
    BY DEF Drawn
  <1>2. BodyOf(a)' = BodyOf(a)
    BY Rigid
  <1> QED BY <1>1, <1>2 DEF Drawn, Refused

LEMMA ParseFlow ==
  ASSUME Typed, NEW c \in Conn, Flow(c), Drawn(c), Heard(c), Parse(c), toS' = toS, report' = report
  PROVE  Flow(c)' /\ StreamTyped' /\ Drawn(c)' /\ Heard(c)'
  <1>0. /\ conn' = conn /\ asked' = asked /\ (stale'[c] = stale[c] \/ stale'[c] = TRUE)
    BY ParseOthers
  <1>1. ASSUME taken'[c] = taken[c] PROVE Heard(c)'
    BY <1>0, <1>1 DEF Heard, Told
  <1>2. ASSUME Flow(c)', ctx'[c].state = "HEADER_FIELD" PROVE Heard(c)'
    <2>1. PICK L : Streaming(c, L)'
      BY <1>2 DEF Flow
    <2>2. PICK j \in 0..(Extra(L[0].of) + 1) : InHead(c, L[0], j)'
      <3>1. \E j \in 0..(Extra(L[0].of) + 1) : InHead(c, L[0], j)'
        BY <1>2, <2>1 DEF Streaming, Place, Extra, Refused
      <3> QED BY <3>1
    <2>3. j \in Nat /\ (IF j <= 2 THEN j ELSE 2) \in 0..2
      BY DEF Extra
    <2>4. asked'[c].what = "OPTIONS" => Told(c, IF j <= 2 THEN j ELSE 2)'
      BY <2>2 DEF InHead
    <2> QED BY <2>3, <2>4 DEF Heard
  <1>3. ASSUME taken'[c] = taken[c], verdict'[c] = verdict[c] \/ verdict'[c] = "error" \/ conn[c] # "up"
        PROVE  Drawn(c)'
    BY <1>0, <1>3, DrawnStay
  <1>4. CASE Consume(c)
    <2>1. taken' = taken /\ verdict' = verdict
      BY <1>4 DEF Consume
    <2> QED BY <1>1, <1>3, <1>4, <2>1, ConsumeFlow
  <1>5. CASE NothingRead(c)
    <2>1. taken' = taken /\ conn[c] # "up"
      BY <1>5 DEF NothingRead
    <2> QED BY <1>1, <1>3, <1>5, <2>1, NothingReadFlow
  <1>6. CASE Start(c) \/ PartOfLine(c) \/ PartOfChunk(c)
    <2>1. taken' = taken /\ verdict' = verdict
      BY <1>6 DEF Start, PartOfLine, PartOfChunk
    <2> QED BY <1>1, <1>3, <1>6, <2>1, QuietFlow
  <1>7. Error(c) => taken' = taken /\ verdict'[c] = "error"
    BY DEF Error, Return, Set, Typed
  <1>8. CASE StatusLine(c)
    <2>1. taken' = taken /\ verdict'[c] \in {verdict[c], "error"}
      BY <1>7, <1>8 DEF StatusLine
    <2> QED BY <1>1, <1>3, <1>8, <2>1, StatusLineFlow
  <1>9. CASE HeaderField(c)
    <2>1. Flow(c)' /\ StreamTyped'
      BY <1>9, HeaderFieldFlow
    <2>2. CASE Error(c)
      BY <1>1, <1>3, <1>7, <2>1, <2>2
    <2>3. CASE ~Error(c)
      <3>1. /\ ctx' = [ctx EXCEPT ![c] = Header(Head(buf[c]), ctx[c])] /\ verdict' = verdict
            /\ asked[c].what # "OPTIONS" => taken' = [taken EXCEPT ![c] = taken[c]]
            /\ ctx[c].state = "HEADER_FIELD"
        BY <1>9, <2>3 DEF HeaderField, Set, InLine
      <3>2. ctx'[c].state = "HEADER_FIELD"
        BY <3>1 DEF Typed, Ctx, Header
      <3>3. HasBody(asked[c]) => taken'[c] = taken[c]
        BY <3>1 DEF HasBody, Typed
      <3>4. Drawn(c)'
        BY <1>0, <3>1, <3>3, DrawnStay
      <3> QED BY <1>2, <2>1, <3>2, <3>4
    <2> QED BY <2>2, <2>3
  <1>10. CASE EmptyLine(c)
    <2>1. taken' = taken /\ verdict' = verdict
      BY <1>10 DEF EmptyLine
    <2> QED BY <1>1, <1>3, <1>10, <2>1, EmptyLineFlow
  <1>11. CASE ChunkSize(c)
    <2>1. taken' = taken /\ verdict'[c] \in {verdict[c], "error"}
      BY <1>7, <1>11 DEF ChunkSize
    <2> QED BY <1>1, <1>3, <1>11, <2>1, ChunkSizeFlow
  <1>12. CASE ChunkData(c)
    <2>1. /\ Flow(c)' /\ StreamTyped'
          /\ ~Error(c) => Drawn(c)'
          /\ asked[c].what = "OPTIONS" => taken'[c] = taken[c]
      BY <1>12, ChunkDataFlow
    <2>2. Error(c) => Drawn(c)'
      BY <1>3, <1>7
    <2>3. Heard(c)'
      BY <1>0, <2>1 DEF Heard, Told
    <2> QED BY <2>1, <2>2, <2>3
  <1>13. CASE LengthBody(c)
    <2>1. /\ Flow(c)' /\ StreamTyped'
          /\ Drawn(c)' \/ (taken'[c] = taken[c] /\ verdict'[c] = verdict[c])
          /\ asked[c].what = "OPTIONS" => taken'[c] = taken[c]
      BY <1>13, LengthBodyFlow
    <2>2. Heard(c)'
      BY <1>0, <2>1 DEF Heard, Told
    <2> QED BY <1>3, <2>1, <2>2
  <1> QED BY <1>4, <1>5, <1>6, <1>8, <1>9, <1>10, <1>11, <1>12, <1>13 DEF Parse

-----------------------------------------------------------------------------
(***************************************************************************)
(* What is left of the client's program, counted from its end.             *)
(***************************************************************************)
StepOf(d, c, w, f) == [do |-> d, on |-> c, what |-> w, file |-> f]
ClientStep ==
  [do : {"connect", "request", "parse", "close", "repair", "save"}, on : Conn,
   what : Requests \cup {"new", "again", "none", "idle", "busy"}, file : File \cup {NoFile}]

OfProgram(e, s) ==
  \/ e = 1 /\ s = StepOf("save", "main", "none", NoFile)
  \/ e = 2 /\ \E w \in {"idle", "busy"} : s = StepOf("repair", "main", w, NoFile)
  \/ e = 3 /\ s = StepOf("close", "shadow", "none", NoFile)
  \/ e = 4 /\ s = StepOf("parse", "main", "REPORT", NoFile)
  \/ e = 5 /\ s = StepOf("request", "main", "REPORT", NoFile)
  \/ e = 6 /\ s = StepOf("parse", "shadow", "OPTIONS", NoFile)
  \/ e = 7 /\ s = StepOf("request", "shadow", "OPTIONS", NoFile)
  \/ e = 8 /\ s = StepOf("connect", "shadow", "new", NoFile)
  \/ e = 9 /\ s = StepOf("parse", "main", "CHECK", NoFile)
  \/ e = 10 /\ s = StepOf("request", "main", "CHECK", NoFile)
  \/ e = 11 /\ s = StepOf("parse", "main", "OPTIONS", NoFile)
  \/ e = 12 /\ s = StepOf("request", "main", "OPTIONS", NoFile)
  \/ e = 13 /\ s = StepOf("connect", "main", "new", NoFile)

\* A connection is made again before a request is repeated.
Repeated(e, s) ==
  \/ e = 8 /\ s = StepOf("connect", "shadow", "again", NoFile)
  \/ e \in {11, 13} /\ s = StepOf("connect", "main", "again", NoFile)

\* A file is fetched, over either connection.
OfFetch(i, c, f, s) ==
  \/ i = 1 /\ s = StepOf("parse", c, "GET", f)
  \/ i = 2 /\ s = StepOf("request", c, "GET", f)
  \/ i = 3 /\ s = StepOf("parse", c, "PROPFIND", f)
  \/ i = 4 /\ s = StepOf("request", c, "PROPFIND", f)
  \/ i = 5 /\ s = StepOf("connect", c, "again", f)

Under(c) == IF c = "shadow" THEN 4 ELSE 2

Slot(e) == todo[Len(todo) + 1 - e]
Left == Len(todo)

Plainly ==
  /\ Step.file = NoFile
  /\ \A e \in 1..(Left - 1) : OfProgram(e, Slot(e))
  /\ OfProgram(Left, Step) \/ Repeated(Left, Step)

Fetching(c, f) ==
  /\ f \in File
  /\ Step.on = c /\ Step.file = f
  /\ Left \in (Under(c) + 1)..(Under(c) + 5)
  /\ \A e \in 1..Under(c) : OfProgram(e, Slot(e))
  /\ \A e \in (Under(c) + 1)..Left : OfFetch(e - Under(c), c, f, Slot(e))

Shape ==
  /\ todo \in Seq(ClientStep) /\ Left \in 1..13
  /\ Plainly \/ \E c \in Conn, f \in File : Fetching(c, f)

AskedRight ==
  /\ Step.do = "parse" => asked[Step.on] = Asking(Step.what, Step.file)
  /\ Step.do = "connect" => asked[Step.on].what \in Retried
  /\ Step.file # NoFile /\ Step.on = "shadow" => asked["main"] = Asking("REPORT", NoFile)
  /\ Step.file = NoFile /\ Left >= 5 => asked["shadow"] = Asking("OPTIONS", NoFile)
  /\ Step.file = NoFile /\ Left >= 3 => asked["main"].file = NoFile

Busy(c) == Parsing(c) \/ verdict[c] # "none"
BusyRight ==
  \A c \in Conn : Busy(c) =>
    \/ Step.do = "parse" /\ Step.on = c
    \/ c = "main" /\ Step.file # NoFile /\ Step.on = "shadow"

KnownRight ==
  /\ \A c \in Conn : known[c] \in {{}, {"me"}, {"me", "root"}}
  /\ Left <= 9 => "root" \in known["main"]

AgainRight == Step.do = "connect" /\ Step.what = "again" => buf[Step.on] = <<>>

Planned == Shape /\ AskedRight /\ BusyRight /\ KnownRight /\ AgainRight

LEMMA SlotFacts ==
  ASSUME Shape
  PROVE  /\ \A e \in 1..Left : Slot(e) \in ClientStep
         /\ Left \in Nat /\ Left >= 1 /\ Left <= 13
         /\ Step = Slot(Left) /\ Step \in ClientStep /\ todo # <<>>
         /\ Step.on \in Conn /\ Step.file \in File \cup {NoFile}
  <1>1. todo \in Seq(ClientStep) /\ Left \in Nat /\ Left >= 1 /\ Left <= 13
    BY DEF Shape
  <1>2. ASSUME NEW e \in 1..Left PROVE Slot(e) \in ClientStep
    <2>1. Len(todo) + 1 - e \in 1..Len(todo)
      BY <1>1 DEF Left
    <2> QED BY <1>1, <2>1 DEF Slot
  <1>3. todo # <<>>
    BY <1>1 DEF Left
  <1>4. Step = Slot(Left)
    <2>1. Len(todo) + 1 - Left = 1
      BY <1>1 DEF Left
    <2> QED BY <1>1, <2>1 DEF Step, Slot
  <1>5. Slot(Left) \in ClientStep
    BY <1>1, <1>2
  <1>6. Step \in ClientStep
    BY <1>4, <1>5
  <1>7. Step.on \in Conn /\ Step.file \in File \cup {NoFile}
    <2> DEFINE s == Step
    <2> HIDE DEF s
    <2>1. s \in ClientStep => s.on \in Conn /\ s.file \in File \cup {NoFile}
      BY DEF ClientStep
    <2> QED BY <1>6, <2>1 DEF s
  <1> QED BY <1>1, <1>2, <1>3, <1>4, <1>6, <1>7

\* What is left after the first k steps.
LEMMA Shorter ==
  ASSUME Shape, NEW k \in 1..(Left - 1), todo' = SubSeq(todo, k + 1, Left)
  PROVE  /\ todo' \in Seq(ClientStep) /\ Left' = Left - k
         /\ \A e \in 1..(Left - k) : Slot(e)' = Slot(e)
         /\ Step' = Slot(Left - k)
  <1>1. todo \in Seq(ClientStep) /\ Left \in Nat /\ Left = Len(todo) /\ k \in 0..Len(todo)
        /\ k \in Nat /\ k >= 1 /\ k <= Left - 1
    BY DEF Shape, Left
  <1>2. /\ todo' \in Seq(ClientStep) /\ Len(todo') = Left - k
        /\ \A i \in 1..(Left - k) : todo'[i] = todo[k + i]
    BY <1>1, Dropped
  <1>3. ASSUME NEW e \in 1..(Left - k) PROVE Slot(e)' = Slot(e)
    <2>1. Slot(e)' = todo'[Left - k + 1 - e]
      BY <1>2 DEF Slot
    <2>2. Left - k + 1 - e \in 1..(Left - k) /\ k + (Left - k + 1 - e) = Left + 1 - e
      BY <1>1
    <2>3. Slot(e)' = todo[Left + 1 - e]
      BY <1>2, <2>1, <2>2
    <2> QED BY <1>1, <2>3 DEF Slot
  <1>4. Step' = Slot(Left - k)
    <2>1. Step' = todo'[1]
      BY <1>1, <1>2 DEF Step
    <2>2. 1 \in 1..(Left - k) /\ Left + 1 - (Left - k) = k + 1
      BY <1>1
    <2>3. Step' = todo[k + 1]
      BY <1>2, <2>1, <2>2
    <2> QED BY <1>1, <2>2, <2>3 DEF Slot
  <1> QED BY <1>2, <1>3, <1>4 DEF Left

LEMMA Popped ==
  ASSUME Shape, Left >= 2, todo' = Tail(todo)
  PROVE  1 \in 1..(Left - 1) /\ todo' = SubSeq(todo, 1 + 1, Left)
  <1>1. todo \in Seq(ClientStep) /\ Left \in Nat /\ Left = Len(todo)
    BY DEF Shape, Left
  <1>2. Tail(todo) = SubSeq(todo, 2, Len(todo))
    BY <1>1
  <1> QED BY <1>1, <1>2

LEMMA ProgramFile ==
  ASSUME NEW e, NEW s, OfProgram(e, s) \/ Repeated(e, s)
  PROVE  s.file = NoFile
  BY DEF OfProgram, Repeated, StepOf

\* The step before e, when s is the one at e + 1.
LEMMA ProgramNext ==
  ASSUME NEW e \in Nat, e >= 1, NEW s, NEW t, OfProgram(e + 1, s) \/ Repeated(e + 1, s), OfProgram(e, t)
  PROVE  /\ s.do = "request" => t = StepOf("parse", s.on, s.what, s.file)
         /\ t.do = "parse" => s.do = "request"
         /\ t.do = "connect" => e = 8 /\ t.what = "new" /\ t.on = "shadow"
         /\ s.do = "request" /\ s.on = "shadow" => s.what = "OPTIONS"

  <1>1. \/ s.do \in {"save", "repair", "close", "connect", "parse"}
        \/ s.do = "request" /\ \/ e = 4 /\ s = StepOf("request", "main", "REPORT", NoFile)
                               \/ e = 6 /\ s = StepOf("request", "shadow", "OPTIONS", NoFile)
                               \/ e = 9 /\ s = StepOf("request", "main", "CHECK", NoFile)
                               \/ e = 11 /\ s = StepOf("request", "main", "OPTIONS", NoFile)
    BY DEF OfProgram, Repeated, StepOf
  <1>2. \/ t.do \in {"save", "repair", "close", "request"}
        \/ e \in {8, 13} /\ t.do = "connect" /\ t.what = "new" /\ (e = 8 => t.on = "shadow")
        \/ e \in {4, 6, 9, 11} /\ t.do = "parse"
    BY DEF OfProgram, StepOf
  <1>3. e # 13
    BY DEF OfProgram, Repeated
  <1>4. e \in {4, 6, 9, 11} => s.do = "request"
    BY DEF OfProgram, Repeated, StepOf
  <1>5. s.do = "request" => t = StepOf("parse", s.on, s.what, s.file)
    BY <1>1 DEF OfProgram, StepOf
  <1>6. s.do = "request" /\ s.on = "shadow" => s.what = "OPTIONS"
    BY <1>1 DEF StepOf
  <1> QED BY <1>2, <1>3, <1>4, <1>5, <1>6

LEMMA FetchNext ==
  ASSUME NEW i \in Nat, i >= 1, NEW c, NEW f, NEW s, NEW t, OfFetch(i + 1, c, f, s), OfFetch(i, c, f, t)
  PROVE  /\ s.do = "request" => t = StepOf("parse", s.on, s.what, s.file)
         /\ t.do = "parse" => s.do = "request"
         /\ t.do # "connect" /\ t.on = c /\ t.file = f
  <1>1. i \in 1..4
    BY DEF OfFetch
  <1>2. \/ i = 1 /\ s = StepOf("request", c, "GET", f) /\ t = StepOf("parse", c, "GET", f)
        \/ i = 2 /\ s = StepOf("parse", c, "PROPFIND", f) /\ t = StepOf("request", c, "GET", f)
        \/ i = 3 /\ s = StepOf("request", c, "PROPFIND", f) /\ t = StepOf("parse", c, "PROPFIND", f)
        \/ i = 4 /\ s = StepOf("connect", c, "again", f) /\ t = StepOf("request", c, "PROPFIND", f)
    BY <1>1 DEF OfFetch
  <1> QED BY <1>2 DEF StepOf

\* A step is done, and the next of them is at hand.
LEMMA NextStep ==
  ASSUME Shape, Left >= 2, todo' = Tail(todo)
  PROVE  /\ Shape' /\ Left' = Left - 1
         /\ Step.do = "request" => Step' = StepOf("parse", Step.on, Step.what, Step.file)
         /\ Step'.do = "parse" /\ Step.do # "request" =>
              /\ Step' = StepOf("parse", "main", "REPORT", NoFile)
              /\ Step.file # NoFile /\ Step.on = "shadow"
         /\ Step'.do = "connect" =>
              Left' = 8 /\ Step'.what = "new" /\ Step'.on = "shadow" /\ Step.file = NoFile
         /\ Step'.file # NoFile => Step'.file = Step.file /\ Step'.on = Step.on
         /\ Step.file # NoFile /\ Step'.file = NoFile =>
              /\ Left' = Under(Step.on) /\ Step.do = "parse"
              /\ Step.on = "shadow" => Step' = StepOf("parse", "main", "REPORT", NoFile)
         /\ Step.do = "request" /\ Step.on = "shadow" /\ Step.file = NoFile => Step.what = "OPTIONS"
  <1> DEFINE n == Left
  <1>1. /\ todo' \in Seq(ClientStep) /\ Left' = n - 1
        /\ \A e \in 1..(n - 1) : Slot(e)' = Slot(e)
        /\ Step' = Slot(n - 1)
    <2>1. 1 \in 1..(Left - 1) /\ todo' = SubSeq(todo, 1 + 1, Left)
      BY Popped
    <2> QED BY <2>1, Shorter
  <1>2. n \in Nat /\ n >= 2 /\ n <= 13 /\ Step = Slot(n) /\ Step.on \in Conn
        /\ Step.file \in File \cup {NoFile}
    BY SlotFacts
  <1> DEFINE s == Slot(n)
  <1> DEFINE t == Slot(n - 1)
  <1>s. Step = s /\ Step' = t
    BY <1>1, <1>2
  <1>3. CASE Plainly
    <2>1. OfProgram(n, s) \/ Repeated(n, s)
      BY <1>3, <1>2 DEF Plainly
    <2>2. OfProgram(n - 1, t)
      <3>1. n - 1 \in 1..(Left - 1)
        BY <1>2
      <3> QED BY <1>3, <3>1 DEF Plainly
    <2>3. s.file = NoFile
      BY <2>1, ProgramFile
    <2>4. t.file = NoFile
      BY <2>2, ProgramFile
    <2>5. Plainly'
      <3>1. OfProgram(Left', Step')
        BY <2>2, <1>1, <1>s
      <3>2. ASSUME NEW e \in 1..(Left' - 1) PROVE OfProgram(e, Slot(e)')
        <4>1. e \in 1..(Left - 1) /\ e \in 1..(n - 1)
          BY <1>1, <1>2
        <4> QED BY <4>1, <1>1, <1>3 DEF Plainly
      <3> QED BY <3>1, <3>2, <1>s, <2>4 DEF Plainly
    <2>6. Shape'
      BY <2>5, <1>1, <1>2 DEF Shape
    <2>7. /\ s.do = "request" => t = StepOf("parse", s.on, s.what, s.file)
          /\ t.do = "parse" => s.do = "request"
          /\ t.do = "connect" => n - 1 = 8 /\ t.what = "new" /\ t.on = "shadow"
          /\ s.do = "request" /\ s.on = "shadow" => s.what = "OPTIONS"
      <3> HIDE DEF s, t
      <3>1. n - 1 \in Nat /\ n - 1 >= 1 /\ n - 1 + 1 = n
        BY <1>2
      <3> QED BY <3>1, <2>1, <2>2, ProgramNext
    <2> QED
      <3> HIDE DEF s, t
      <3> QED BY <1>s, <1>1, <2>3, <2>4, <2>6, <2>7
  <1>4. ASSUME NEW c \in Conn, NEW f \in File, Fetching(c, f) PROVE
         /\ Shape'
         /\ Step.do = "request" => Step' = StepOf("parse", Step.on, Step.what, Step.file)
         /\ Step'.do = "parse" /\ Step.do # "request" =>
              /\ Step' = StepOf("parse", "main", "REPORT", NoFile)
              /\ Step.file # NoFile /\ Step.on = "shadow"
         /\ Step'.do # "connect"
         /\ Step'.file # NoFile => Step'.file = Step.file /\ Step'.on = Step.on
         /\ Step.file # NoFile /\ Step'.file = NoFile =>
              /\ Left' = Under(Step.on) /\ Step.do = "parse"
              /\ Step.on = "shadow" => Step' = StepOf("parse", "main", "REPORT", NoFile)
         /\ Step.file # NoFile
    <2> DEFINE u == Under(c)
    <2>1. u \in {2, 4} /\ (u = 4 <=> c = "shadow")
      BY <1>4 DEF Under, Conn
    <2> HIDE DEF u
    <2>2. /\ Step.on = c /\ Step.file = f /\ n \in (u + 1)..(u + 5)
          /\ \A e \in 1..u : OfProgram(e, Slot(e))
          /\ \A e \in (u + 1)..n : OfFetch(e - u, c, f, Slot(e))
      BY <1>4 DEF Fetching, u
    <2>3. f # NoFile
      BY NoFileAssumption
    <2>4. OfFetch(n - u, c, f, s)
      <3>1. n \in (u + 1)..n
        BY <1>2, <2>1, <2>2
      <3> QED BY <3>1, <2>2
    <2>5. CASE n = u + 1
      <3>1. s = StepOf("parse", c, "GET", f)
        <4>1. n - u = 1
          BY <2>1, <2>5
        <4> QED BY <4>1, <2>4 DEF OfFetch
      <3>2. n - 1 = u /\ OfProgram(u, t)
        BY <2>1, <2>2, <2>5
      <3>3. t.file = NoFile
        BY <3>2, ProgramFile
      <3>4. u = 4 => t = StepOf("parse", "main", "REPORT", NoFile)
        BY <3>2 DEF OfProgram
      <3>5. u = 2 => t.do = "repair"
        BY <3>2 DEF OfProgram, StepOf
      <3>6. Plainly'
        <4>1. OfProgram(Left', Step')
          BY <3>2, <1>1, <1>s
        <4>2. ASSUME NEW e \in 1..(Left' - 1) PROVE OfProgram(e, Slot(e)')
          <5>1. e \in 1..u /\ e \in 1..(n - 1)
            BY <1>1, <1>2, <3>2, <2>1
          <5> QED BY <5>1, <1>1, <2>2
        <4> QED BY <4>1, <4>2, <1>s, <3>3 DEF Plainly
      <3>7. Shape'
        BY <3>6, <1>1, <1>2 DEF Shape
      <3>8. t.do # "connect"
        BY <3>4, <3>5, <2>1 DEF StepOf
      <3>9. Under(Step.on) = u
        BY <2>2 DEF u
      <3>10. s.do = "parse" /\ s.file = f /\ s.on = c
        BY <3>1 DEF StepOf
      <3>11. t.do = "parse" => u = 4
        BY <3>5, <2>1
      <3> QED
        <4> HIDE DEF s, t
        <4> QED BY <1>s, <1>1, <2>1, <2>2, <2>3, <3>2, <3>3, <3>4, <3>7, <3>8, <3>9, <3>10, <3>11
    <2>6. CASE n # u + 1
      <3>1. n - 1 \in (u + 1)..(u + 5) /\ n - 1 \in (u + 1)..n
        BY <1>2, <2>1, <2>2, <2>6
      <3>2. OfFetch(n - 1 - u, c, f, t)
        BY <3>1, <2>2
      <3>3. /\ s.do = "request" => t = StepOf("parse", s.on, s.what, s.file)
            /\ t.do = "parse" => s.do = "request"
            /\ t.do # "connect" /\ t.on = c /\ t.file = f
        <4> HIDE DEF s, t
        <4> DEFINE i == n - 1 - u
        <4>1. i \in Nat /\ i >= 1 /\ i + 1 = n - u
          BY <1>2, <2>1, <3>1
        <4>2. OfFetch(i + 1, c, f, s) /\ OfFetch(i, c, f, t)
          BY <4>1, <2>4, <3>2
        <4> HIDE DEF i
        <4> QED BY <4>1, <4>2, FetchNext
      <3>4. Fetching(c, f)'
        <4>1. ASSUME NEW e \in 1..u PROVE OfProgram(e, Slot(e)')
          <5>1. e \in 1..(n - 1)
            BY <2>1, <3>1, <1>2
          <5> QED BY <5>1, <1>1, <2>2
        <4>2. ASSUME NEW e \in (u + 1)..(n - 1) PROVE OfFetch(e - u, c, f, Slot(e)')
          <5>1. e \in 1..(n - 1) /\ e \in (u + 1)..n
            BY <2>1, <3>1, <1>2
          <5> QED BY <5>1, <1>1, <2>2
        <4>3. Step'.on = c /\ Step'.file = f
          BY <3>3, <1>s
        <4>4. u = Under(c)
          BY DEF u
        <4> QED BY <4>1, <4>2, <4>3, <4>4, <1>1, <3>1 DEF Fetching
      <3>5. Shape'
        BY <3>4, <1>1, <1>2 DEF Shape
      <3> QED
        <4> HIDE DEF s, t
        <4> QED BY <1>s, <2>2, <2>3, <3>3, <3>5
    <2> QED BY <2>5, <2>6
  <1> QED
    <2> HIDE DEF n, s, t
    <2>1. Plainly \/ \E c \in Conn, f \in File : Fetching(c, f)
      BY DEF Shape
    <2>2. Left' = Left - 1
      BY <1>1 DEF n
    <2>3. CASE Plainly
      BY <1>3, <2>3
    <2>4. CASE \E c \in Conn, f \in File : Fetching(c, f)
      <3>1. PICK c \in Conn, f \in File : Fetching(c, f)
        BY <2>4
      <3>2. Step'.do # "connect" /\ Shape'
        BY <1>4, <3>1
      <3> QED BY <1>4, <2>2, <3>1, <3>2
    <2> QED BY <2>1, <2>3, <2>4

LEMMA UnderFacts == Under("shadow") = 4 /\ Under("main") = 2
  BY DEF Under

LEMMA StepOfIs ==
  ASSUME NEW d, NEW c, NEW w, NEW g
  PROVE  /\ StepOf(d, c, w, g).do = d /\ StepOf(d, c, w, g).on = c
         /\ StepOf(d, c, w, g).what = w /\ StepOf(d, c, w, g).file = g
  BY DEF StepOf

LEMMA AdvancePlan ==
  ASSUME Planned, Left >= 2, todo' = Tail(todo), asked \in [Conn -> Made],
         \A d \in Conn :
           asked'[d] = IF Step.do = "request" /\ Step.on = d THEN Asking(Step.what, Step.file)
                                                              ELSE asked[d],
         \A d \in Conn :
           Busy(d)' => \/ Busy(d) /\ ~(Step.do = "parse" /\ Step.on = d)
                       \/ Step.do = "request" /\ Step.on = d,
         \A d \in Conn : known'[d] \in {{}, {"me"}, {"me", "root"}},
         "root" \in known["main"] \/ Left = 10 => "root" \in known'["main"]
  PROVE  Planned'
  <1>1. Shape /\ AskedRight /\ BusyRight /\ KnownRight
    BY DEF Planned
  <1> DEFINE s == Step
  <1> DEFINE t == Step'
  <1>2. /\ Shape' /\ Left' = Left - 1
        /\ s.do = "request" => t = StepOf("parse", s.on, s.what, s.file)
        /\ t.do = "parse" /\ s.do # "request" =>
             /\ t = StepOf("parse", "main", "REPORT", NoFile)
             /\ s.file # NoFile /\ s.on = "shadow"
        /\ t.do = "connect" =>
             Left' = 8 /\ t.what = "new" /\ t.on = "shadow" /\ s.file = NoFile
        /\ t.file # NoFile => t.file = s.file /\ t.on = s.on
        /\ s.file # NoFile /\ t.file = NoFile =>
             /\ Left' = Under(s.on) /\ s.do = "parse"
             /\ s.on = "shadow" => t = StepOf("parse", "main", "REPORT", NoFile)
        /\ s.do = "request" /\ s.on = "shadow" /\ s.file = NoFile => s.what = "OPTIONS"
    BY <1>1, NextStep
  <1>3. Left \in Nat /\ Left >= 1 /\ Left <= 13 /\ s.on \in Conn
    BY <1>1, SlotFacts
  <1>4. Conn = {"main", "shadow"}
    BY DEF Conn
  <1>5. /\ s.do = "parse" => asked[s.on] = Asking(s.what, s.file)
        /\ s.file # NoFile /\ s.on = "shadow" => asked["main"] = Asking("REPORT", NoFile)
        /\ s.file = NoFile /\ Left >= 5 => asked["shadow"] = Asking("OPTIONS", NoFile)
        /\ s.file = NoFile /\ Left >= 3 => asked["main"].file = NoFile
    BY <1>1 DEF AskedRight
  <1>6. \A d \in Conn : asked'[d] = IF s.do = "request" /\ s.on = d THEN Asking(s.what, s.file)
                                                                   ELSE asked[d]
    OBVIOUS
  <1>7. \A d \in Conn : Busy(d) =>
          (s.do = "parse" /\ s.on = d) \/ (d = "main" /\ s.file # NoFile /\ s.on = "shadow")
    BY <1>1 DEF BusyRight
  <1>8. \A d \in Conn :
          Busy(d)' => \/ Busy(d) /\ ~(s.do = "parse" /\ s.on = d)
                      \/ s.do = "request" /\ s.on = d
    OBVIOUS
  <1>9. ASSUME NEW w, NEW g PROVE Asking(w, g).what = w /\ Asking(w, g).file = g
    BY DEF Asking

  <1>11. s.do = "request" => t.do = "parse" /\ t.on = s.on /\ t.what = s.what /\ t.file = s.file
    <2> HIDE DEF s, t
    <2> QED BY <1>2, StepOfIs
  <1>12. t = StepOf("parse", "main", "REPORT", NoFile) =>
           t.do = "parse" /\ t.on = "main" /\ t.what = "REPORT" /\ t.file = NoFile
    <2> HIDE DEF s, t
    <2> QED BY StepOfIs
  <1>13. AskedRight'
    <2> HIDE DEF s, t
    <2>1. t.do = "parse" => asked'[t.on] = Asking(t.what, t.file)
      <3>1. CASE s.do = "request"
        BY <3>1, <1>3, <1>6, <1>11
      <3>2. CASE s.do # "request"
        BY <3>2, <1>2, <1>4, <1>5, <1>6, <1>12
      <3> QED BY <3>1, <3>2
    <2>2. t.do = "connect" => asked'[t.on].what \in Retried
      <3>1. SUFFICES ASSUME t.do = "connect" PROVE asked'[t.on].what \in Retried
        OBVIOUS
      <3>2. Left' = 8 /\ t.on = "shadow" /\ s.file = NoFile /\ Left = 9 /\ s.do # "request"
        BY <3>1, <1>2, <1>3, <1>11
      <3>3. asked'["shadow"] = Asking("OPTIONS", NoFile)
        BY <3>2, <1>4, <1>5, <1>6
      <3> QED BY <3>2, <3>3, <1>9 DEF Retried
    <2>3. t.file # NoFile /\ t.on = "shadow" => asked'["main"] = Asking("REPORT", NoFile)
      BY <1>2, <1>4, <1>5, <1>6
    <2>4. t.file = NoFile /\ Left' >= 5 => asked'["shadow"] = Asking("OPTIONS", NoFile)
      <3>1. SUFFICES ASSUME t.file = NoFile, Left' >= 5
                     PROVE asked'["shadow"] = Asking("OPTIONS", NoFile)
        OBVIOUS
      <3>2. s.file = NoFile
        BY <3>1, <1>2, <1>3, <1>4, UnderFacts
      <3>3. asked["shadow"] = Asking("OPTIONS", NoFile)
        BY <3>1, <3>2, <1>2, <1>3, <1>5
      <3>4. s.do = "request" /\ s.on = "shadow" => s.what = "OPTIONS"
        BY <3>2, <1>2
      <3> QED BY <3>2, <3>3, <3>4, <1>4, <1>6
    <2>5. t.file = NoFile /\ Left' >= 3 => asked'["main"].file = NoFile
      <3>1. SUFFICES ASSUME t.file = NoFile, Left' >= 3 PROVE asked'["main"].file = NoFile
        OBVIOUS
      <3>2. CASE s.file = NoFile
        BY <3>1, <3>2, <1>2, <1>3, <1>4, <1>5, <1>6, <1>9
      <3>3. CASE s.file # NoFile
        <4>1. s.do = "parse" /\ s.on = "shadow"
          BY <3>1, <3>3, <1>2, <1>3, <1>4, UnderFacts
        <4>2. asked'["main"] = Asking("REPORT", NoFile)
          BY <4>1, <3>3, <1>4, <1>5, <1>6
        <4> QED BY <4>2, <1>9
      <3> QED BY <3>2, <3>3
    <2> QED
      <3>1. t = Step'
        BY DEF t
      <3> QED BY <2>1, <2>2, <2>3, <2>4, <2>5, <3>1 DEF AskedRight
  <1>14. BusyRight'
    <2> HIDE DEF s, t
    <2>1. ASSUME NEW d \in Conn, Busy(d)'
          PROVE  (t.do = "parse" /\ t.on = d) \/ (d = "main" /\ t.file # NoFile /\ t.on = "shadow")
      <3>1. CASE s.do = "request" /\ s.on = d
        BY <3>1, <1>11
      <3>2. CASE ~(s.do = "request" /\ s.on = d)
        <4>1. d = "main" /\ s.file # NoFile /\ s.on = "shadow"
          BY <2>1, <3>2, <1>7, <1>8
        <4>2. CASE t.file # NoFile
          BY <4>1, <4>2, <1>2
        <4>3. CASE t.file = NoFile
          BY <4>1, <4>3, <1>2, <1>12
        <4> QED BY <4>2, <4>3
      <3> QED BY <3>1, <3>2
    <2>2. t = Step'
      BY DEF t
    <2> QED BY <2>1, <2>2 DEF BusyRight
  <1>15. KnownRight'
    <2>1. Left' <= 9 => "root" \in known'["main"]
      BY <1>1, <1>2, <1>3 DEF KnownRight
    <2> QED BY <2>1 DEF KnownRight
  <1>16. AgainRight'
    <2>1. t.do = "connect" => t.what # "again"
      BY <1>2
    <2> QED BY <2>1 DEF AgainRight
  <1> QED BY <1>2, <1>13, <1>14, <1>15, <1>16 DEF Planned

\* Steps are put before those that are left.
LEMMA Pushed ==
  ASSUME NEW p \in Seq(ClientStep), NEW q \in Seq(ClientStep), todo' = p \o q, Len(p) >= 1
  PROVE  /\ todo' \in Seq(ClientStep) /\ Left' = Len(q) + Len(p)
         /\ \A e \in 1..Len(q) : Slot(e)' = q[Len(q) + 1 - e]
         /\ \A i \in 1..Len(p) : Slot(Len(q) + i)' = p[Len(p) + 1 - i]
         /\ Step' = p[1]
  <1>1. /\ p \o q \in Seq(ClientStep) /\ Len(p) \in Nat /\ Len(q) \in Nat
        /\ Len(p \o q) = Len(p) + Len(q)
        /\ \A i \in 1..Len(p) : (p \o q)[i] = p[i]
        /\ \A i \in 1..Len(q) : (p \o q)[Len(p) + i] = q[i]
    BY Joined
  <1> DEFINE m == Len(p)
  <1> DEFINE n == Len(q)
  <1>2. /\ todo' \in Seq(ClientStep) /\ m \in Nat /\ n \in Nat /\ Len(todo') = m + n
        /\ \A i \in 1..m : todo'[i] = p[i]
        /\ \A i \in 1..n : todo'[m + i] = q[i]
    BY <1>1
  <1> HIDE DEF m, n
  <1>3. ASSUME NEW e \in 1..n PROVE Slot(e)' = q[n + 1 - e]
    <2>1. Slot(e)' = todo'[m + n + 1 - e]
      BY <1>2 DEF Slot
    <2>2. n + 1 - e \in 1..n /\ m + (n + 1 - e) = m + n + 1 - e
      BY <1>2
    <2> QED BY <1>2, <2>1, <2>2
  <1>4. ASSUME NEW i \in 1..m PROVE Slot(n + i)' = p[m + 1 - i]
    <2>1. Slot(n + i)' = todo'[m + n + 1 - (n + i)]
      BY <1>2 DEF Slot, n
    <2>2. m + 1 - i \in 1..m /\ m + n + 1 - (n + i) = m + 1 - i
      BY <1>2
    <2> QED BY <1>2, <2>1, <2>2
  <1>5. Step' = p[1]
    BY <1>2 DEF Step, m
  <1>6. Left' = n + m
    BY <1>2 DEF Left
  <1> QED BY <1>2, <1>3, <1>4, <1>5, <1>6 DEF m, n

LEMMA StayPlan ==
  ASSUME Planned, todo' = todo, asked' = asked, known' = known,
         \A d \in Conn : Busy(d)' => Busy(d) \/ (Step.do = "parse" /\ Step.on = d),
         Step.do = "connect" => buf' = buf
  PROVE  Planned'
  <1>1. Shape /\ AskedRight /\ BusyRight /\ KnownRight /\ AgainRight
    BY DEF Planned
  <1>2. Step' = Step /\ Left' = Left /\ \A e : Slot(e)' = Slot(e)
    BY DEF Step, Left, Slot
  <1>3. Shape'
    BY <1>1, <1>2 DEF Shape, Plainly, Fetching
  <1>4. AskedRight'
    BY <1>1, <1>2 DEF AskedRight
  <1>5. KnownRight'
    BY <1>1, <1>2 DEF KnownRight
  <1>6. AgainRight'
    BY <1>1, <1>2 DEF AgainRight
  <1>7. BusyRight'
    <2>1. ASSUME NEW d \in Conn, Busy(d)'
          PROVE  \/ Step.do = "parse" /\ Step.on = d
                 \/ d = "main" /\ Step.file # NoFile /\ Step.on = "shadow"
      <3>1. Busy(d) \/ (Step.do = "parse" /\ Step.on = d)
        BY <2>1
      <3> QED BY <1>1, <3>1 DEF BusyRight
    <2> QED BY <1>2, <2>1 DEF BusyRight
  <1> QED BY <1>3, <1>4, <1>5, <1>6, <1>7 DEF Planned

\* The steps a function takes, as a sequence.
LEMMA DoFacts ==
  ASSUME NEW d, NEW c, NEW w, NEW f, StepOf(d, c, w, f) \in ClientStep
  PROVE  /\ Do(d, c, w, f) = <<StepOf(d, c, w, f)>>
         /\ Do(d, c, w, f) \in Seq(ClientStep)
  <1>1. Do(d, c, w, f) = <<StepOf(d, c, w, f)>>
    BY DEF Do, StepOf
  <1> DEFINE x == StepOf(d, c, w, f)
  <1> HIDE DEF x
  <1>2. x \in ClientStep => <<x>> \in Seq(ClientStep)
    OBVIOUS
  <1> QED BY <1>1, <1>2 DEF x

LEMMA StepTyped ==
  ASSUME NEW d \in {"connect", "request", "parse", "close", "repair", "save"}, NEW c \in Conn,
         NEW w \in Requests \cup {"new", "again", "none", "idle", "busy"}, NEW f \in File \cup {NoFile}
  PROVE  StepOf(d, c, w, f) \in ClientStep
  BY DEF StepOf, ClientStep

LEMMA AskFacts ==
  ASSUME NEW c \in Conn, NEW w \in Requests, NEW f \in File \cup {NoFile}
  PROVE  /\ Ask(c, w, f) \in Seq(ClientStep) /\ Len(Ask(c, w, f)) = 2
         /\ Ask(c, w, f)[1] = StepOf("request", c, w, f)
         /\ Ask(c, w, f)[2] = StepOf("parse", c, w, f)
  <1> DEFINE x == StepOf("request", c, w, f)
  <1> DEFINE y == StepOf("parse", c, w, f)
  <1>1. x \in ClientStep /\ y \in ClientStep
    BY StepTyped
  <1>2. Ask(c, w, f) = <<x>> \o <<y>>
    BY <1>1, DoFacts DEF Ask
  <1> HIDE DEF x, y
  <1>3. <<x>> \in Seq(ClientStep) /\ <<y>> \in Seq(ClientStep)
    BY <1>1
  <1> DEFINE p == <<x>>
  <1> DEFINE q == <<y>>
  <1>4. Len(p) = 1 /\ p[1] = x /\ Len(q) = 1 /\ q[1] = y
    OBVIOUS
  <1>5. p \in Seq(ClientStep) /\ q \in Seq(ClientStep)
    BY <1>3
  <1> HIDE DEF p, q
  <1>6. /\ p \o q \in Seq(ClientStep)
        /\ Len(p \o q) = Len(p) + Len(q)
        /\ \A i \in 1..Len(p) : (p \o q)[i] = p[i]
        /\ \A i \in 1..Len(q) : (p \o q)[Len(p) + i] = q[i]
    BY <1>5, Joined
  <1>7. Len(p \o q) = 2 /\ (p \o q)[1] = p[1] /\ (p \o q)[1 + 1] = q[1]
    BY <1>4, <1>6
  <1> QED BY <1>2, <1>4, <1>6, <1>7 DEF x, y, p, q

LEMMA AgainFacts ==
  ASSUME NEW c \in Conn, Step.what \in Requests, Step.file \in File \cup {NoFile}
  PROVE  /\ Again(c) \in Seq(ClientStep) /\ Len(Again(c)) = 3
         /\ Again(c)[1] = StepOf("connect", c, "again", Step.file)
         /\ Again(c)[2] = StepOf("request", c, Step.what, Step.file)
         /\ Again(c)[3] = StepOf("parse", c, Step.what, Step.file)
  <1> DEFINE p == Do("connect", c, "again", Step.file)
  <1> DEFINE q == Ask(c, Step.what, Step.file)
  <1>1. p = <<StepOf("connect", c, "again", Step.file)>> /\ p \in Seq(ClientStep)
    BY StepTyped, DoFacts
  <1>2. /\ q \in Seq(ClientStep) /\ Len(q) = 2
        /\ q[1] = StepOf("request", c, Step.what, Step.file)
        /\ q[2] = StepOf("parse", c, Step.what, Step.file)
    BY AskFacts
  <1>3. Again(c) = p \o q
    BY DEF Again
  <1>4. Len(p) = 1 /\ p[1] = StepOf("connect", c, "again", Step.file)
    BY <1>1
  <1> HIDE DEF p, q
  <1>5. /\ p \o q \in Seq(ClientStep)
        /\ Len(p \o q) = Len(p) + Len(q)
        /\ \A i \in 1..Len(p) : (p \o q)[i] = p[i]
        /\ \A i \in 1..Len(q) : (p \o q)[Len(p) + i] = q[i]
    BY <1>1, <1>2, Joined
  <1>6. /\ Len(p \o q) = 3 /\ (p \o q)[1] = p[1]
        /\ (p \o q)[1 + 1] = q[1] /\ (p \o q)[1 + 2] = q[2]
    BY <1>2, <1>4, <1>5
  <1> QED BY <1>2, <1>3, <1>4, <1>5, <1>6

LEMMA GetFileFacts ==
  ASSUME NEW c \in Conn, NEW f \in File
  PROVE  /\ GetFile(c, f) \in Seq(ClientStep) /\ Len(GetFile(c, f)) = 4
         /\ \A i \in 1..4 : OfFetch(5 - i, c, f, GetFile(c, f)[i])
  <1> DEFINE p == Ask(c, "PROPFIND", f)
  <1> DEFINE q == Ask(c, "GET", f)
  <1>1. /\ p \in Seq(ClientStep) /\ Len(p) = 2
        /\ p[1] = StepOf("request", c, "PROPFIND", f) /\ p[2] = StepOf("parse", c, "PROPFIND", f)
        /\ q \in Seq(ClientStep) /\ Len(q) = 2
        /\ q[1] = StepOf("request", c, "GET", f) /\ q[2] = StepOf("parse", c, "GET", f)
    BY AskFacts DEF Requests
  <1>2. GetFile(c, f) = p \o q
    BY DEF GetFile
  <1> HIDE DEF p, q
  <1>t. p \in Seq(ClientStep) /\ q \in Seq(ClientStep)
    BY <1>1
  <1>3. /\ p \o q \in Seq(ClientStep)
        /\ Len(p \o q) = Len(p) + Len(q)
        /\ \A i \in 1..Len(p) : (p \o q)[i] = p[i]
        /\ \A i \in 1..Len(q) : (p \o q)[Len(p) + i] = q[i]
    BY <1>t, Joined
  <1>4. /\ Len(p \o q) = 4 /\ (p \o q)[1] = p[1] /\ (p \o q)[2] = p[2]
        /\ (p \o q)[2 + 1] = q[1] /\ (p \o q)[2 + 2] = q[2]
    BY <1>1, <1>3
  <1> DEFINE g == p \o q
  <1>5. g[1] = StepOf("request", c, "PROPFIND", f) /\ g[2] = StepOf("parse", c, "PROPFIND", f)
        /\ g[3] = StepOf("request", c, "GET", f) /\ g[4] = StepOf("parse", c, "GET", f)
    BY <1>1, <1>4
  <1> HIDE DEF g
  <1>6. ASSUME NEW i \in 1..4 PROVE OfFetch(5 - i, c, f, g[i])
    BY <1>5 DEF OfFetch
  <1> QED BY <1>2, <1>3, <1>4, <1>6 DEF g

\* A request is made again over a new connection.
LEMMA AgainShape ==
  ASSUME Shape, NEW c \in Conn, Step.do = "parse", Step.on = c, Step.what \in Retried,
         todo' = Again(c) \o Tail(todo)
  PROVE  /\ Shape' /\ Left' = Left + 2
         /\ Step' = StepOf("connect", c, "again", Step.file)
         /\ Step.file = NoFile => Left >= 5
  <1>n. PICK n : n = Left
    OBVIOUS
  <1>f. PICK f : f = Step.file
    OBVIOUS
  <1>w. PICK w : w = Step.what
    OBVIOUS
  <1>1. n \in Nat /\ n >= 1 /\ n <= 13 /\ Step = Slot(n) /\ f \in File \cup {NoFile} /\ todo # <<>>
    BY <1>n, <1>f, SlotFacts
  <1>2. w \in Requests /\ w \in Retried
    BY <1>w DEF Retried, Requests
  <1>p. PICK p : p = Again(c)
    OBVIOUS
  <1>q. PICK q : q = Tail(todo)
    OBVIOUS
  <1>3. /\ p \in Seq(ClientStep) /\ Len(p) = 3
        /\ p[1] = StepOf("connect", c, "again", f)
        /\ p[2] = StepOf("request", c, w, f)
        /\ p[3] = StepOf("parse", c, w, f)
    BY <1>1, <1>2, <1>f, <1>w, <1>p, AgainFacts
  <1>4. /\ q \in Seq(ClientStep) /\ Len(q) = n - 1
        /\ \A e \in 1..(n - 1) : q[n - e] = Slot(e)
    <2>1. todo \in Seq(ClientStep) /\ n = Len(todo) /\ 1 \in 0..Len(todo)
      BY <1>1, <1>n DEF Shape, Left
    <2>2. q = SubSeq(todo, 1 + 1, Len(todo))
      BY <2>1, <1>q
    <2>3. /\ q \in Seq(ClientStep) /\ Len(q) = n - 1
          /\ \A i \in 1..(n - 1) : q[i] = todo[1 + i]
      BY <2>1, <2>2, Dropped
    <2>4. ASSUME NEW e \in 1..(n - 1) PROVE q[n - e] = Slot(e)
      <3>1. n - e \in 1..(n - 1) /\ 1 + (n - e) = Len(todo) + 1 - e
        BY <1>1, <2>1
      <3> QED BY <2>3, <3>1 DEF Slot
    <2> QED BY <2>3, <2>4
  <1>5. todo' = p \o q
    BY <1>p, <1>q
  <1>6. /\ todo' \in Seq(ClientStep) /\ Left' = Len(q) + Len(p)
        /\ \A e \in 1..Len(q) : Slot(e)' = q[Len(q) + 1 - e]
        /\ \A i \in 1..Len(p) : Slot(Len(q) + i)' = p[Len(p) + 1 - i]
        /\ Step' = p[1]
    <2>1. p \in Seq(ClientStep) /\ q \in Seq(ClientStep) /\ Len(p) >= 1
      BY <1>3, <1>4
    <2> QED BY <1>5, <2>1, Pushed
  <1>7. Left' = n + 2 /\ Step' = StepOf("connect", c, "again", f)
    BY <1>1, <1>3, <1>4, <1>6
  <1>8. ASSUME NEW e \in 1..(n - 1) PROVE Slot(e)' = Slot(e)
    <2>1. e \in 1..Len(q) /\ Len(q) + 1 - e = n - e
      BY <1>1, <1>4
    <2> QED BY <1>4, <1>6, <2>1
  <1>9. /\ Slot(n)' = StepOf("parse", c, w, f) /\ Slot(n + 1)' = StepOf("request", c, w, f)
        /\ Slot(n + 2)' = Step'
    <2>1. /\ 1 \in 1..Len(p) /\ 2 \in 1..Len(p) /\ 3 \in 1..Len(p)
          /\ Len(p) + 1 - 1 = 3 /\ Len(p) + 1 - 2 = 2 /\ Len(p) + 1 - 3 = 1
          /\ Len(q) + 1 = n /\ Len(q) + 2 = n + 1 /\ Len(q) + 3 = n + 2
      BY <1>1, <1>3, <1>4
    <2>2. Slot(Len(q) + 1)' = p[3] /\ Slot(Len(q) + 2)' = p[2] /\ Slot(Len(q) + 3)' = p[1]
      BY <2>1, <1>6
    <2> QED BY <2>1, <2>2, <1>3, <1>6
  <1>10. CASE Plainly
    <2>1. f = NoFile /\ (OfProgram(n, Step) \/ Repeated(n, Step))
          /\ \A e \in 1..(n - 1) : OfProgram(e, Slot(e))
      BY <1>10, <1>n, <1>f DEF Plainly
    <2>2. \/ n = 6 /\ Step = StepOf("parse", "shadow", "OPTIONS", NoFile)
          \/ n = 9 /\ Step = StepOf("parse", "main", "CHECK", NoFile)
          \/ n = 11 /\ Step = StepOf("parse", "main", "OPTIONS", NoFile)
      BY <2>1, <1>2, <1>w DEF OfProgram, Repeated, StepOf, Retried
    <2>3. \/ n = 6 /\ c = "shadow" /\ w = "OPTIONS"
          \/ n = 9 /\ c = "main" /\ w = "CHECK"
          \/ n = 11 /\ c = "main" /\ w = "OPTIONS"
      BY <2>2, <1>w, StepOfIs
    <2>4. /\ OfProgram(n, StepOf("parse", c, w, NoFile))
          /\ OfProgram(n + 1, StepOf("request", c, w, NoFile))
          /\ Repeated(n + 2, StepOf("connect", c, "again", NoFile))
      BY <2>3 DEF OfProgram, Repeated
    <2>5. Plainly'
      <3>1. ASSUME NEW e \in 1..(Left' - 1) PROVE OfProgram(e, Slot(e)')
        <4>1. e \in 1..(n - 1) \/ e = n \/ e = n + 1
          BY <1>1, <1>7
        <4> QED BY <1>8, <1>9, <2>1, <2>4, <4>1
      <3>2. Repeated(Left', Step') /\ Step'.file = NoFile
        BY <1>7, <2>1, <2>4, StepOfIs
      <3> QED BY <3>1, <3>2 DEF Plainly
    <2>6. Left' \in 1..13 /\ Left >= 5
      BY <1>7, <1>n, <2>3
    <2>7. Shape'
      BY <1>6, <2>5, <2>6 DEF Shape
    <2> QED BY <1>7, <1>n, <1>f, <2>6, <2>7
  <1>11. ASSUME NEW d \in Conn, NEW g \in File, Fetching(d, g)
         PROVE  Shape' /\ Step.file # NoFile
    <2> DEFINE u == Under(d)
    <2>1. u \in {2, 4}
      BY DEF Under
    <2> HIDE DEF u
    <2>2. /\ Step.on = d /\ Step.file = g /\ n \in (u + 1)..(u + 5)
          /\ \A e \in 1..u : OfProgram(e, Slot(e))
          /\ \A e \in (u + 1)..n : OfFetch(e - u, d, g, Slot(e))
      BY <1>11, <1>n DEF Fetching, u
    <2>3. d = c /\ g = f
      BY <2>2, <1>f
    <2>4. OfFetch(n - u, d, g, Slot(n))
      <3>1. n \in (u + 1)..n
        BY <1>1, <2>1, <2>2
      <3> QED BY <3>1, <2>2
    <2>5. n = u + 3 /\ w = "PROPFIND"
      <3>1. n - u = 3 /\ w = "PROPFIND"
        BY <2>4, <1>1, <1>2, <1>w DEF OfFetch, StepOf, Retried
      <3> QED BY <1>1, <2>1, <3>1
    <2>6. Fetching(d, g)'
      <3>1. ASSUME NEW e \in 1..u PROVE OfProgram(e, Slot(e)')
        <4>1. e \in 1..(n - 1)
          BY <2>1, <2>5, <1>1
        <4> QED BY <4>1, <1>8, <2>2
      <3>2. ASSUME NEW e \in (u + 1)..(n + 2) PROVE OfFetch(e - u, d, g, Slot(e)')
        <4>1. e \in Int /\ (e \in (u + 1)..(n - 1) \/ e = n \/ e = n + 1 \/ e = n + 2)
          BY <1>1, <2>1, <2>5
        <4>2. CASE e \in (u + 1)..(n - 1)
          <5>1. e \in (u + 1)..n /\ e \in 1..(n - 1)
            BY <4>2, <1>1, <2>1
          <5> QED BY <5>1, <1>8, <2>2
        <4>3. CASE e = n
          <5>1. e - u = 3
            BY <4>3, <2>1, <2>5
          <5> QED BY <5>1, <4>3, <1>9, <2>3, <2>5 DEF OfFetch
        <4>4. CASE e = n + 1
          <5>1. e - u = 4
            BY <4>4, <2>1, <2>5
          <5> QED BY <5>1, <4>4, <1>9, <2>3, <2>5 DEF OfFetch
        <4>5. CASE e = n + 2
          <5>1. e - u = 5
            BY <4>5, <2>1, <2>5
          <5> QED BY <5>1, <4>5, <1>7, <1>9, <2>3 DEF OfFetch
        <4> QED BY <4>1, <4>2, <4>3, <4>4, <4>5
      <3>3. Step'.on = d /\ Step'.file = g
        BY <1>7, <2>3, StepOfIs
      <3>4. Left' \in (u + 1)..(u + 5) /\ u = Under(d)
        BY <1>7, <2>1, <2>5 DEF u
      <3> QED BY <3>1, <3>2, <3>3, <3>4, <1>7 DEF Fetching
    <2>7. Left' \in 1..13
      BY <1>7, <2>1, <2>5
    <2>8. Shape'
      BY <1>6, <2>6, <2>7 DEF Shape
    <2> QED BY <2>2, <2>8, NoFileAssumption
  <1> QED
    <2>1. Plainly \/ \E d \in Conn, g \in File : Fetching(d, g)
      BY DEF Shape
    <2>2. CASE Plainly
      BY <1>10, <2>2
    <2>3. CASE \E d \in Conn, g \in File : Fetching(d, g)
      <3>1. PICK d \in Conn, g \in File : Fetching(d, g)
        BY <2>3
      <3>2. Shape' /\ Step.file # NoFile
        BY <1>11, <3>1
      <3> QED BY <1>7, <1>n, <1>f, <3>2
    <2> QED BY <2>1, <2>2, <2>3

LEMMA AgainPlan ==
  ASSUME Planned, NEW c \in Conn, Step.do = "parse", Step.on = c, Step.what \in Retried,
         todo' = Again(c) \o Tail(todo), asked' = asked, buf' = buf, buf[c] = <<>>,
         \A d \in Conn : Busy(d)' => Busy(d) /\ d # c,
         \A d \in Conn : known'[d] \in {{}, {"me"}, {"me", "root"}},
         "root" \in known["main"] => "root" \in known'["main"]
  PROVE  Planned'
  <1>1. Shape /\ AskedRight /\ BusyRight /\ KnownRight
    BY DEF Planned
  <1>2. /\ Shape' /\ Left' = Left + 2
        /\ Step' = StepOf("connect", c, "again", Step.file)
        /\ Step.file = NoFile => Left >= 5
    BY <1>1, AgainShape
  <1>3. Left \in Nat
    BY <1>1, SlotFacts
  <1>4. Step'.do = "connect" /\ Step'.on = c /\ Step'.what = "again" /\ Step'.file = Step.file
    BY <1>2, StepOfIs
  <1>5. /\ asked[c] = Asking(Step.what, Step.file)
        /\ Step.file # NoFile /\ c = "shadow" => asked["main"] = Asking("REPORT", NoFile)
        /\ Step.file = NoFile => asked["shadow"] = Asking("OPTIONS", NoFile)
        /\ Step.file = NoFile => asked["main"].file = NoFile
    BY <1>1, <1>2, <1>3 DEF AskedRight
  <1>6. AskedRight'
    <2>1. asked'[c].what \in Retried
      BY <1>5 DEF Asking
    <2> QED BY <1>4, <1>5, <2>1 DEF AskedRight
  <1>7. BusyRight'
    <2>1. ASSUME NEW d \in Conn, Busy(d)'
          PROVE  d = "main" /\ Step'.file # NoFile /\ Step'.on = "shadow"
      <3>1. Busy(d) /\ d # c
        BY <2>1
      <3>2. d = "main" /\ Step.file # NoFile /\ Step.on = "shadow"
        BY <1>1, <3>1 DEF BusyRight
      <3> QED BY <1>4, <3>2
    <2> QED BY <2>1 DEF BusyRight
  <1>8. KnownRight'
    <2>1. Left' <= 9 => "root" \in known'["main"]
      BY <1>1, <1>2, <1>3 DEF KnownRight
    <2> QED BY <2>1 DEF KnownRight
  <1>9. AgainRight'
    BY <1>4 DEF AgainRight
  <1> QED BY <1>2, <1>6, <1>7, <1>8, <1>9 DEF Planned

LEMMA FetchFile ==
  ASSUME NEW i, NEW c, NEW f, NEW s, OfFetch(i, c, f, s)
  PROVE  s.file = f /\ s.on = c
  BY DEF OfFetch, StepOf

\* What is left without the steps for the file at hand.
LEMMA WithoutShape ==
  ASSUME Shape, Step.file # NoFile, todo' = WithoutFile
  PROVE  /\ Shape' /\ Left' = Under(Step.on) /\ Left <= Left' + 5
         /\ Step'.file = NoFile
         /\ Step.on = "shadow" => Step' = StepOf("parse", "main", "REPORT", NoFile)
         /\ Step.on = "main" => Step'.do = "repair"
  <1>1. PICK c \in Conn, f \in File : Fetching(c, f)
    <2>1. ~Plainly
      BY DEF Plainly
    <2> QED BY <2>1 DEF Shape
  <1>n. PICK n : n = Left
    OBVIOUS
  <1> DEFINE u == Under(c)
  <1>2. u \in {2, 4} /\ (u = 4 <=> c = "shadow")
    BY DEF Under, Conn
  <1> HIDE DEF u
  <1>3. /\ Step.on = c /\ Step.file = f /\ n \in (u + 1)..(u + 5)
        /\ \A e \in 1..u : OfProgram(e, Slot(e))
        /\ \A e \in (u + 1)..n : OfFetch(e - u, c, f, Slot(e))
    BY <1>1, <1>n DEF Fetching, u
  <1>4. todo \in Seq(ClientStep) /\ Len(todo) = n /\ n \in Nat /\ n <= 13
    BY <1>n DEF Shape, Left
  <1>5. \A i \in 1..n : n + 1 - i \in 1..n /\ todo[i] = Slot(n + 1 - i)
    <2>1. ASSUME NEW i \in 1..n PROVE n + 1 - i \in 1..n /\ todo[i] = Slot(n + 1 - i)
      <3>1. n + 1 - i \in 1..n /\ n + 1 - (n + 1 - i) = i
        BY <1>4
      <3> QED BY <3>1, <1>4 DEF Slot
    <2> QED BY <2>1
  <1> DEFINE i0 == n - u + 1
  <1>6. i0 \in 1..n /\ n + 1 - i0 = u /\ DOMAIN todo = 1..n /\ i0 - 1 \in 1..(n - 1)
    BY <1>2, <1>3, <1>4
  <1>7. todo[i0].file # f
    <2>1. todo[i0] = Slot(u) /\ u \in 1..u
      BY <1>2, <1>5, <1>6
    <2>2. OfProgram(u, Slot(u))
      BY <2>1, <1>3
    <2>3. Slot(u).file = NoFile
      BY <2>2, ProgramFile
    <2> QED BY <2>1, <2>3, NoFileAssumption
  <1>8. ASSUME NEW j \in 1..(i0 - 1) PROVE j \in 1..n /\ todo[j].file = f
    <2> DEFINE e == n + 1 - j
    <2>1. j \in 1..n /\ e \in (u + 1)..n
      BY <1>2, <1>3, <1>4, <1>6
    <2> HIDE DEF e
    <2>2. OfFetch(e - u, c, f, Slot(e))
      BY <2>1, <1>3
    <2>3. Slot(e).file = f
      BY <2>2, FetchFile
    <2> QED BY <2>1, <2>3, <1>5 DEF e
  <1> HIDE DEF i0
  <1> DEFINE Here(i) == todo[i].file # Step.file /\ \A j \in 1..(i - 1) : todo[j].file = Step.file
  <1>9. ASSUME NEW i \in DOMAIN todo, Here(i) PROVE i = i0
    <2>1. i \in Int /\ i0 \in Int /\ i >= 1 /\ i0 >= 1
      BY <1>6
    <2>2. CASE i < i0
      <3>1. i \in 1..(i0 - 1)
        BY <2>1, <2>2
      <3> QED BY <3>1, <1>3, <1>8, <1>9
    <2>3. CASE i > i0
      <3>1. i0 \in 1..(i - 1)
        BY <2>1, <2>3
      <3> QED BY <3>1, <1>3, <1>7, <1>9
    <2> QED BY <2>1, <2>2, <2>3
  <1>10. Here(i0)
    BY <1>3, <1>7, <1>8
  <1>11. (CHOOSE i \in DOMAIN todo : Here(i)) = i0
    <2> HIDE DEF Here
    <2> QED BY <1>6, <1>9, <1>10
  <1>12. todo' = SubSeq(todo, i0, Len(todo))
    BY <1>11 DEF WithoutFile
  <1>k. PICK k : k = i0 - 1
    OBVIOUS
  <1>13. k \in 1..(Left - 1) /\ todo' = SubSeq(todo, k + 1, Left) /\ n - k = u
    BY <1>6, <1>12, <1>k, <1>n, <1>4, <1>2 DEF Left
  <1>14. /\ todo' \in Seq(ClientStep) /\ Left' = Left - k
         /\ \A e \in 1..(Left - k) : Slot(e)' = Slot(e)
         /\ Step' = Slot(Left - k)
    BY <1>13, Shorter
  <1>15. Left' = u /\ Step' = Slot(u) /\ \A e \in 1..u : Slot(e)' = Slot(e)
    BY <1>13, <1>14, <1>n
  <1>16. OfProgram(u, Slot(u)) /\ u \in 1..u
    BY <1>2, <1>3
  <1>17. Step'.file = NoFile
    BY <1>15, <1>16, ProgramFile
  <1>18. Plainly'
    <2>1. ASSUME NEW e \in 1..(Left' - 1) PROVE OfProgram(e, Slot(e)')
      <3>1. e \in 1..u
        BY <1>2, <1>15
      <3> QED BY <3>1, <1>3, <1>15
    <2> QED BY <2>1, <1>15, <1>16, <1>17 DEF Plainly
  <1>19. Shape'
    BY <1>2, <1>14, <1>15, <1>18 DEF Shape
  <1>20. c = "shadow" => Slot(u) = StepOf("parse", "main", "REPORT", NoFile)
    BY <1>2, <1>16 DEF OfProgram
  <1>21. c = "main" => Slot(u).do = "repair"
    <2>1. c = "main" => u = 2
      BY <1>2
    <2> QED BY <2>1, <1>16 DEF OfProgram, StepOf
  <1>22. Left <= u + 5
    BY <1>3, <1>n, <1>2
  <1>23. u = Under(Step.on)
    BY <1>3 DEF u
  <1> QED BY <1>3, <1>15, <1>17, <1>19, <1>20, <1>21, <1>22, <1>23

LEMMA WithoutPlan ==
  ASSUME Planned, Step.file # NoFile, todo' = WithoutFile, asked' = asked,
         \A d \in Conn : Busy(d)' => Busy(d) /\ ~(Step.do = "parse" /\ Step.on = d),
         \A d \in Conn : known'[d] \in {{}, {"me"}, {"me", "root"}},
         "root" \in known["main"] => "root" \in known'["main"]
  PROVE  Planned'
  <1>1. Shape /\ AskedRight /\ BusyRight /\ KnownRight
    BY DEF Planned
  <1>2. /\ Shape' /\ Left' = Under(Step.on) /\ Left <= Left' + 5
        /\ Step'.file = NoFile
        /\ Step.on = "shadow" => Step' = StepOf("parse", "main", "REPORT", NoFile)
        /\ Step.on = "main" => Step'.do = "repair"
    BY <1>1, WithoutShape
  <1>3. Left \in Nat /\ Step.on \in Conn /\ Conn = {"main", "shadow"}
    BY <1>1, SlotFacts DEF Conn
  <1>4. /\ Step.on = "shadow" => /\ Step'.do = "parse" /\ Step'.on = "main"
                                 /\ Step'.what = "REPORT" /\ Step'.file = NoFile
        /\ Step.on = "shadow" => asked["main"] = Asking("REPORT", NoFile)
    BY <1>1, <1>2, StepOfIs DEF AskedRight
  <1>5. AskedRight'
    <2>1. Step'.do # "connect" /\ Left' <= 4 /\ (Step.on = "main" => Left' < 3)
      BY <1>2, <1>3, <1>4, UnderFacts
    <2>2. Step'.do = "parse" => asked'[Step'.on] = Asking(Step'.what, Step'.file)
      BY <1>2, <1>3, <1>4
    <2>3. Left' >= 3 => asked'["main"].file = NoFile
      <3>1. Left' >= 3 => Step.on = "shadow"
        BY <2>1, <1>2, <1>3, UnderFacts
      <3> QED BY <3>1, <1>4 DEF Asking
    <2>4. ~(Left' >= 5)
      BY <1>2, <1>3, UnderFacts
    <2> QED BY <1>2, <2>1, <2>2, <2>3, <2>4 DEF AskedRight
  <1>6. BusyRight'
    <2>1. ASSUME NEW d \in Conn, Busy(d)' PROVE Step'.do = "parse" /\ Step'.on = d
      <3>1. Busy(d) /\ ~(Step.do = "parse" /\ Step.on = d)
        BY <2>1
      <3>2. d = "main" /\ Step.on = "shadow"
        BY <1>1, <3>1 DEF BusyRight
      <3> QED BY <1>4, <3>2
    <2> QED BY <2>1 DEF BusyRight
  <1>7. KnownRight'
    <2>1. Left <= 9
      BY <1>2, <1>3, UnderFacts
    <2>2. "root" \in known'["main"]
      BY <1>1, <2>1 DEF KnownRight
    <2> QED BY <2>2 DEF KnownRight
  <1>8. AgainRight'
    BY <1>2, <1>3, <1>4 DEF AgainRight
  <1> QED BY <1>2, <1>5, <1>6, <1>7, <1>8 DEF Planned

\* The editor fetches a file for the element of the report at hand.
LEMMA EditShape ==
  ASSUME Shape, Step.do = "parse", Step.on = "main", Step.what = "REPORT",
         NEW f \in File, todo' = GetFile("shadow", f) \o todo
  PROVE  /\ Shape' /\ Left = 4 /\ Left' = 8
         /\ Step.file = NoFile
         /\ Step' = StepOf("request", "shadow", "PROPFIND", f)
  <1>1. todo \in Seq(ClientStep) /\ Step = Slot(Left)
    BY SlotFacts DEF Shape
  <1>2. Plainly
    <2>1. ASSUME NEW d \in Conn, NEW g \in File, Fetching(d, g) PROVE FALSE
      <3> DEFINE u == Under(d)
      <3>1. u \in {2, 4} /\ Left \in (u + 1)..(u + 5)
            /\ \A e \in (u + 1)..Left : OfFetch(e - u, d, g, Slot(e))
        BY <2>1 DEF Fetching, Under
      <3> HIDE DEF u
      <3>2. Left \in (u + 1)..Left
        BY <3>1
      <3>3. OfFetch(Left - u, d, g, Step)
        BY <1>1, <3>1, <3>2
      <3>4. Step.what # "REPORT"
        BY <3>3 DEF OfFetch, StepOf
      <3> QED BY <3>4
    <2> QED BY <2>1 DEF Shape
  <1>3. Left = 4 /\ Step = StepOf("parse", "main", "REPORT", NoFile)
    <2>1. OfProgram(Left, Step) \/ Repeated(Left, Step)
      BY <1>2 DEF Plainly
    <2> QED BY <2>1 DEF OfProgram, Repeated, StepOf
  <1>p. PICK p : p = GetFile("shadow", f)
    OBVIOUS
  <1>q. PICK q : q = todo
    OBVIOUS
  <1>4. /\ p \in Seq(ClientStep) /\ Len(p) = 4
        /\ \A i \in 1..4 : OfFetch(5 - i, "shadow", f, p[i])
    BY <1>p, GetFileFacts DEF Conn
  <1>5. q \in Seq(ClientStep) /\ Len(q) = 4 /\ \A e \in 1..4 : q[5 - e] = Slot(e)
    BY <1>1, <1>3, <1>q DEF Left, Slot
  <1>6. /\ todo' \in Seq(ClientStep) /\ Left' = Len(q) + Len(p)
        /\ \A e \in 1..Len(q) : Slot(e)' = q[Len(q) + 1 - e]
        /\ \A i \in 1..Len(p) : Slot(Len(q) + i)' = p[Len(p) + 1 - i]
        /\ Step' = p[1]
    <2>1. Len(p) >= 1 /\ todo' = p \o q
      BY <1>4, <1>p, <1>q
    <2>2. p \in Seq(ClientStep) /\ q \in Seq(ClientStep)
      BY <1>4, <1>5
    <2> QED BY <2>1, <2>2, Pushed
  <1>7. Left' = 8
    BY <1>4, <1>5, <1>6
  <1>8. ASSUME NEW e \in 1..4 PROVE OfProgram(e, Slot(e)')
    <2>1. Slot(e)' = Slot(e)
      BY <1>5, <1>6
    <2>2. e \in 1..(Left - 1) \/ (e = Left /\ Slot(e) = Step)
      BY <1>1, <1>3
    <2>3. OfProgram(4, Step)
      BY <1>3 DEF OfProgram
    <2> QED BY <1>2, <1>3, <2>1, <2>2, <2>3 DEF Plainly
  <1>9. ASSUME NEW e \in 5..8 PROVE OfFetch(e - 4, "shadow", f, Slot(e)')
    <2> DEFINE i == e - 4
    <2>1. i \in 1..4 /\ 5 - i \in 1..4 /\ 4 + i = e /\ 5 - (5 - i) = i
      OBVIOUS
    <2> HIDE DEF i
    <2>2. Slot(4 + i)' = p[5 - i]
      BY <1>4, <1>5, <1>6, <2>1
    <2>3. OfFetch(5 - (5 - i), "shadow", f, p[5 - i])
      BY <1>4, <2>1
    <2>4. OfFetch(i, "shadow", f, p[5 - i])
      BY <2>1, <2>3
    <2>5. Slot(e)' = p[5 - i]
      BY <2>1, <2>2
    <2> QED BY <2>4, <2>5 DEF i
  <1>10. Step' = StepOf("request", "shadow", "PROPFIND", f)
    <2>1. OfFetch(5 - 1, "shadow", f, p[1])
      BY <1>4
    <2> QED BY <2>1, <1>6 DEF OfFetch
  <1>11. Fetching("shadow", f)'
    <2>1. Step'.on = "shadow" /\ Step'.file = f
      BY <1>10, StepOfIs
    <2> QED BY <1>7, <1>8, <1>9, <2>1, UnderFacts DEF Fetching
  <1>12. Shape'
    BY <1>6, <1>7, <1>11 DEF Shape, Conn
  <1>13. Step.file = NoFile
    BY <1>3, StepOfIs
  <1> QED BY <1>3, <1>7, <1>10, <1>12, <1>13

LEMMA EditPlan ==
  ASSUME Planned, Step.do = "parse", Step.on = "main", Step.what = "REPORT",
         NEW f \in File, todo' = GetFile("shadow", f) \o todo,
         asked' = asked, known' = known, ctx' = ctx, verdict' = verdict
  PROVE  Planned'
  <1>1. Shape /\ AskedRight /\ BusyRight /\ KnownRight
    BY DEF Planned
  <1>2. /\ Shape' /\ Left = 4 /\ Left' = 8
        /\ Step.file = NoFile
        /\ Step' = StepOf("request", "shadow", "PROPFIND", f)
    BY <1>1, EditShape
  <1>3. Step'.do = "request" /\ Step'.on = "shadow" /\ Step'.file = f /\ f # NoFile
    BY <1>2, StepOfIs, NoFileAssumption
  <1>4. AskedRight'
    <2>1. asked["main"] = Asking("REPORT", NoFile)
      BY <1>1, <1>2 DEF AskedRight
    <2> QED BY <1>3, <2>1 DEF AskedRight
  <1>5. BusyRight'
    <2>1. ASSUME NEW d \in Conn, Busy(d)' PROVE d = "main"
      <3>1. Busy(d)
        BY <2>1 DEF Busy, Parsing
      <3> QED BY <1>1, <1>2, <3>1 DEF BusyRight
    <2> QED BY <1>3, <2>1 DEF BusyRight
  <1>6. KnownRight'
    BY <1>1, <1>2 DEF KnownRight
  <1>7. AgainRight'
    BY <1>3 DEF AgainRight
  <1> QED BY <1>2, <1>4, <1>5, <1>6, <1>7 DEF Planned

LEMMA RepairFacts ==
  ASSUME NEW w \in {"idle", "busy"}
  PROVE  /\ Repair(w) \in Seq(ClientStep) /\ Len(Repair(w)) = 2
         /\ Repair(w)[1] = StepOf("repair", "main", w, NoFile)
         /\ Repair(w)[2] = StepOf("save", "main", "none", NoFile)
  <1> DEFINE x == StepOf("repair", "main", w, NoFile)
  <1> DEFINE y == StepOf("save", "main", "none", NoFile)
  <1>1. x \in ClientStep /\ y \in ClientStep
    BY StepTyped DEF Conn
  <1>2. Repair(w) = <<x>> \o <<y>>
    BY <1>1, DoFacts DEF Repair
  <1> HIDE DEF x, y
  <1>3. <<x>> \in Seq(ClientStep) /\ <<y>> \in Seq(ClientStep)
    BY <1>1
  <1> DEFINE p == <<x>>
  <1> DEFINE q == <<y>>
  <1>4. Len(p) = 1 /\ p[1] = x /\ Len(q) = 1 /\ q[1] = y
    OBVIOUS
  <1>5. p \in Seq(ClientStep) /\ q \in Seq(ClientStep)
    BY <1>3
  <1> HIDE DEF p, q
  <1>6. /\ p \o q \in Seq(ClientStep)
        /\ Len(p \o q) = Len(p) + Len(q)
        /\ \A i \in 1..Len(p) : (p \o q)[i] = p[i]
        /\ \A i \in 1..Len(q) : (p \o q)[Len(p) + i] = q[i]
    BY <1>5, Joined
  <1>7. Len(p \o q) = 2 /\ (p \o q)[1] = p[1] /\ (p \o q)[1 + 1] = q[1]
    BY <1>4, <1>6
  <1> QED BY <1>2, <1>4, <1>6, <1>7 DEF x, y, p, q

\* Where in the program the steps of one kind are.
LEMMA ProgramKinds ==
  ASSUME NEW e, NEW s, OfProgram(e, s) \/ Repeated(e, s)
  PROVE  /\ s.do = "save" => e = 1
         /\ s.do = "repair" => e = 2
         /\ s.do = "close" => e = 3
         /\ s.do = "request" => e \in {5, 7, 10, 12}
         /\ s.do = "parse" => e \in {4, 6, 9, 11}
         /\ s.do = "connect" => e \in {8, 11, 13}
  BY DEF OfProgram, Repeated, StepOf

LEMMA FetchKinds ==
  ASSUME NEW i, NEW c, NEW f, NEW s, OfFetch(i, c, f, s)
  PROVE  s.do \in {"parse", "request", "connect"} /\ i \in 1..5
  BY DEF OfFetch, StepOf

\* The last steps of the program are not those of a fetched file.
LEMMA Kinds ==
  ASSUME Shape
  PROVE  /\ Step.file = NoFile => Plainly
         /\ Step.do \notin {"parse", "request", "connect"} => Plainly
         /\ Step.do = "save" => Left = 1 /\ Step.file = NoFile
         /\ Step.do = "repair" => Left = 2 /\ Step.file = NoFile
         /\ Step.do = "close" => Left = 3 /\ Step.file = NoFile
         /\ Step.do \in {"parse", "request", "connect"} => Left >= 3
         /\ Step.file = NoFile =>
              /\ Step.do = "request" => Left \in {5, 7, 10, 12}
              /\ Step.do = "parse" => Left \in {4, 6, 9, 11}
              /\ Step.do = "connect" => Left \in {8, 11, 13}
         /\ Step.file # NoFile => Left <= 9
  <1>1. ASSUME NEW c \in Conn, NEW f \in File, Fetching(c, f)
        PROVE  /\ Step.file # NoFile /\ Step.do \in {"parse", "request", "connect"}
               /\ Left >= 3 /\ Left <= 9
    <2> DEFINE u == Under(c)
    <2>1. /\ u \in {2, 4} /\ Left \in (u + 1)..(u + 5) /\ Step.file = f
          /\ \A e \in (u + 1)..Left : OfFetch(e - u, c, f, Slot(e))
      BY <1>1 DEF Fetching, Under
    <2> HIDE DEF u
    <2>2. Left \in (u + 1)..Left
      BY <2>1
    <2>3. OfFetch(Left - u, c, f, Step)
      BY <2>1, <2>2, SlotFacts
    <2> QED BY <2>1, <2>3, FetchKinds, NoFileAssumption
  <1>2. ASSUME Plainly
        PROVE  Step.file = NoFile /\ (OfProgram(Left, Step) \/ Repeated(Left, Step))
    BY <1>2 DEF Plainly
  <1>3. CASE Plainly
    BY <1>2, <1>3, ProgramKinds
  <1>4. CASE ~Plainly
    <2>1. PICK c \in Conn, f \in File : Fetching(c, f)
      BY <1>4 DEF Shape
    <2> QED BY <1>1, <2>1
  <1> QED BY <1>3, <1>4

LEMMA RepairShape ==
  ASSUME Shape, Step.do = "repair", NEW f \in File, todo' = GetFile("main", f) \o Repair("busy")
  PROVE  /\ Shape' /\ Left = 2 /\ Left' = 6 /\ Step.file = NoFile
         /\ Step' = StepOf("request", "main", "PROPFIND", f)
  <1>2. Left = 2 /\ Step.file = NoFile
    BY Kinds
  <1>p. PICK p : p = GetFile("main", f)
    OBVIOUS
  <1>q. PICK q : q = Repair("busy")
    OBVIOUS
  <1>4. /\ p \in Seq(ClientStep) /\ Len(p) = 4
        /\ \A i \in 1..4 : OfFetch(5 - i, "main", f, p[i])
    BY <1>p, GetFileFacts DEF Conn
  <1>5. /\ q \in Seq(ClientStep) /\ Len(q) = 2
        /\ q[1] = StepOf("repair", "main", "busy", NoFile)
        /\ q[2] = StepOf("save", "main", "none", NoFile)
    BY <1>q, RepairFacts
  <1>6. /\ todo' \in Seq(ClientStep) /\ Left' = Len(q) + Len(p)
        /\ \A e \in 1..Len(q) : Slot(e)' = q[Len(q) + 1 - e]
        /\ \A i \in 1..Len(p) : Slot(Len(q) + i)' = p[Len(p) + 1 - i]
        /\ Step' = p[1]
    <2>1. Len(p) >= 1 /\ todo' = p \o q
      BY <1>4, <1>p, <1>q
    <2>2. p \in Seq(ClientStep) /\ q \in Seq(ClientStep)
      BY <1>4, <1>5
    <2> QED BY <2>1, <2>2, Pushed
  <1>7. Left' = 6
    BY <1>4, <1>5, <1>6
  <1>8. ASSUME NEW e \in 1..2 PROVE OfProgram(e, Slot(e)')
    <2>1. Slot(1)' = q[2] /\ Slot(2)' = q[1]
      BY <1>5, <1>6
    <2>2. OfProgram(1, q[2]) /\ OfProgram(2, q[1])
      BY <1>5 DEF OfProgram
    <2>3. e = 1 \/ e = 2
      OBVIOUS
    <2> QED BY <2>1, <2>2, <2>3
  <1>9. ASSUME NEW e \in 3..6 PROVE OfFetch(e - 2, "main", f, Slot(e)')
    <2> DEFINE i == e - 2
    <2>1. i \in 1..4 /\ 5 - i \in 1..4 /\ 2 + i = e /\ 5 - (5 - i) = i
      OBVIOUS
    <2> HIDE DEF i
    <2>2. Slot(2 + i)' = p[5 - i]
      BY <1>4, <1>5, <1>6, <2>1
    <2>3. OfFetch(5 - (5 - i), "main", f, p[5 - i])
      BY <1>4, <2>1
    <2>4. OfFetch(i, "main", f, p[5 - i])
      BY <2>1, <2>3
    <2>5. Slot(e)' = p[5 - i]
      BY <2>1, <2>2
    <2> QED BY <2>4, <2>5 DEF i
  <1>10. Step' = StepOf("request", "main", "PROPFIND", f)
    <2>1. OfFetch(5 - 1, "main", f, p[1])
      BY <1>4
    <2> QED BY <2>1, <1>6 DEF OfFetch
  <1>11. Step'.do = "request" /\ Step'.on = "main" /\ Step'.file = f /\ f # NoFile
    BY <1>10, StepOfIs, NoFileAssumption
  <1>12. Fetching("main", f)'
    BY <1>7, <1>8, <1>9, <1>11, UnderFacts DEF Fetching
  <1>13. Shape'
    BY <1>6, <1>7, <1>12 DEF Shape, Conn
  <1> QED BY <1>2, <1>7, <1>10, <1>13

LEMMA RepairPlan ==
  ASSUME Planned, Step.do = "repair", NEW f \in File, todo' = GetFile("main", f) \o Repair("busy"),
         asked' = asked, known' = known, ctx' = ctx, verdict' = verdict
  PROVE  Planned'
  <1>1. Shape /\ AskedRight /\ BusyRight /\ KnownRight
    BY DEF Planned
  <1>2. /\ Shape' /\ Left = 2 /\ Left' = 6 /\ Step.file = NoFile
        /\ Step' = StepOf("request", "main", "PROPFIND", f)
    BY <1>1, RepairShape
  <1>3. Step'.do = "request" /\ Step'.on = "main" /\ Step'.file = f /\ f # NoFile
    BY <1>2, StepOfIs, NoFileAssumption
  <1>4. AskedRight'
    BY <1>3 DEF AskedRight
  <1>5. BusyRight'
    <2>1. ASSUME NEW d \in Conn, Busy(d)' PROVE FALSE
      <3>1. Busy(d)
        BY <2>1 DEF Busy, Parsing
      <3> QED BY <1>1, <1>2, <3>1 DEF BusyRight
    <2> QED BY <2>1 DEF BusyRight
  <1>6. KnownRight'
    BY <1>1, <1>2 DEF KnownRight
  <1>7. AgainRight'
    BY <1>3 DEF AgainRight
  <1> QED BY <1>2, <1>4, <1>5, <1>6, <1>7 DEF Planned

-----------------------------------------------------------------------------
(***************************************************************************)
(* The server's answers and the ends of connections.                       *)
(***************************************************************************)
\* The client is where it was.
Still(c) ==
  /\ buf'[c] = buf[c] /\ pos'[c] = pos[c] /\ late'[c] = late[c] /\ ctx'[c] = ctx[c]
  /\ asked'[c] = asked[c] /\ taken'[c] = taken[c] /\ verdict'[c] = verdict[c]
  /\ stale'[c] = stale[c]

LEMMA PlaceStay ==
  ASSUME NEW c \in Conn, NEW x, Place(c, x), Still(c), report' = report
  PROVE  Place(c, x)'
  <1>1. ASSUME NEW j PROVE InHead(c, x, j)' <=> InHead(c, x, j)
    BY Rigid DEF Still, InHead, Told
  <1>2. ASSUME NEW t PROVE InChunks(c, x, t)' <=> InChunks(c, x, t)
    BY Rigid DEF Still, InChunks
  <1>3. InLength(c, x)' <=> InLength(c, x)
    BY Rigid DEF Still, InLength
  <1>4. Stops(x.of)' = Stops(x.of)
    BY Rigid
  <1> QED BY <1>1, <1>2, <1>3, <1>4 DEF Still, Place, Reading, Within, AtBody, Told

LEMMA WireTyped ==
  ASSUME StreamTyped, buf' = buf, pos' = pos, late' = late, wire' \in [Conn -> Seq(Symbol)]
  PROVE  StreamTyped'
  BY DEF StreamTyped

LEMMA Unread ==
  ASSUME NEW S, NEW w \in Seq(S), NEW s \in Seq(S)
  PROVE  /\ w # <<>> => SubSeq(w \o s, 2, Len(w \o s)) = SubSeq(w, 2, Len(w)) \o s
         /\ w = <<>> => w \o s = s
  <1>1. CASE w = <<>>
    BY <1>1
  <1>2. CASE w # <<>>
    <2>1. /\ w \o s \in Seq(S) /\ Len(w) \in Nat /\ Len(s) \in Nat
          /\ Len(w \o s) = Len(w) + Len(s)
          /\ \A i \in 1..Len(w) : (w \o s)[i] = w[i]
          /\ \A i \in 1..Len(s) : (w \o s)[Len(w) + i] = s[i]
      BY Joined
    <2> DEFINE m == Len(w)
    <2> DEFINE n == Len(s)
    <2> DEFINE ws == w \o s
    <2>2. /\ ws \in Seq(S) /\ m \in Nat /\ n \in Nat /\ m >= 1 /\ Len(ws) = m + n
          /\ \A i \in 1..m : ws[i] = w[i]
          /\ \A i \in 1..n : ws[m + i] = s[i]
      BY <1>2, <2>1
    <2> DEFINE a == SubSeq(ws, 2, m + n)
    <2> DEFINE b == SubSeq(w, 2, m)
    <2> HIDE DEF ws
    <2>3. /\ a \in Seq(S) /\ Len(a) = m + n + 1 - 2
          /\ \A i \in 1..(m + n + 1 - 2) : a[i] = ws[2 - 1 + i]
      <3>1. 2 \in Nat \ {0} /\ m + n \in Nat /\ m + n <= Len(ws) /\ 2 <= m + n + 1
        BY <2>2
      <3> HIDE DEF m, n
      <3> QED BY <2>2, <3>1, Between
    <2>4. /\ b \in Seq(S) /\ Len(b) = m + 1 - 2
          /\ \A i \in 1..(m + 1 - 2) : b[i] = w[2 - 1 + i]
      <3>1. 2 \in Nat \ {0} /\ m \in Nat /\ m <= Len(w) /\ 2 <= m + 1
        BY <2>2
      <3> HIDE DEF m
      <3> QED BY <3>1, Between
    <2> HIDE DEF a, b, m, n
    <2>5. /\ b \o s \in Seq(S)
          /\ Len(b \o s) = Len(b) + Len(s)
          /\ \A i \in 1..Len(b) : (b \o s)[i] = b[i]
          /\ \A i \in 1..Len(s) : (b \o s)[Len(b) + i] = s[i]
      <3>1. b \in Seq(S)
        BY <2>4
      <3> QED BY <3>1, Joined
    <2> DEFINE bs == b \o s
    <2>6. /\ bs \in Seq(S) /\ Len(bs) = m - 1 + n
          /\ \A i \in 1..(m - 1) : bs[i] = b[i]
          /\ \A i \in 1..n : bs[m - 1 + i] = s[i]
      <3>1. Len(b) = m - 1 /\ Len(s) = n
        BY <2>2, <2>4 DEF n
      <3> QED BY <2>5, <3>1
    <2> HIDE DEF bs
    <2>7. Len(a) = Len(bs) /\ Len(a) = m + n - 1
      BY <2>2, <2>3, <2>6, SMTT(30)
    <2>8. ASSUME NEW i \in 1..Len(a) PROVE a[i] = bs[i]
      <3>1. i \in 1..(m + n - 1) /\ a[i] = ws[1 + i]
        BY <2>2, <2>3, <2>7
      <3>2. CASE i <= m - 1
        <4>1. i \in 1..(m - 1) /\ 1 + i \in 1..m /\ i \in 1..(m + 1 - 2) /\ 2 - 1 + i = 1 + i
          BY <2>2, <3>1, <3>2
        <4> QED BY <2>2, <2>4, <2>6, <3>1, <4>1
      <3>3. CASE i > m - 1
        <4>1. i - (m - 1) \in 1..n /\ m + (i - (m - 1)) = 1 + i /\ m - 1 + (i - (m - 1)) = i
          BY <2>2, <3>1, <3>3
        <4>2. PICK j : j = i - (m - 1)
          OBVIOUS
        <4>3. j \in 1..n /\ m + j = 1 + i /\ m - 1 + j = i
          BY <4>1, <4>2
        <4>4. ws[m + j] = s[j] /\ bs[m - 1 + j] = s[j]
          BY <2>2, <2>6, <4>3
        <4> QED BY <3>1, <4>3, <4>4
      <3> QED BY <2>2, <3>1, <3>2, <3>3
    <2>9. a = bs
      BY <2>3, <2>6, <2>7, <2>8, SeqEqual
    <2> QED BY <1>2, <2>2, <2>9 DEF a, b, bs, ws, m, n
  <1> QED BY <1>1, <1>2

LEMMA Associated ==
  ASSUME NEW S, NEW b \in Seq(S), NEW w \in Seq(S), NEW s \in Seq(S)
  PROVE  b \o (w \o s) = (b \o w) \o s
  BY ConcatAssociative, SMTT(30)

LEMMA Unseen ==
  ASSUME StreamTyped, NEW c \in Conn, NEW s \in Seq(Symbol), Still(c), wire'[c] = wire[c] \o s
  PROVE  /\ late[c] /\ wire[c] = <<>> => Ahead(c) = <<>> /\ Ahead(c)' = SubSeq(s, 2, Len(s))
         /\ ~(late[c] /\ wire[c] = <<>>) => Ahead(c)' = Ahead(c) \o s
  <1>1. wire[c] \in Seq(Symbol) /\ buf[c] \in Seq(Symbol) /\ late[c] \in BOOLEAN
    BY DEF StreamTyped
  <1>2. /\ wire[c] # <<>> => SubSeq(wire[c] \o s, 2, Len(wire[c] \o s))
                               = SubSeq(wire[c], 2, Len(wire[c])) \o s
        /\ wire[c] = <<>> => wire[c] \o s = s
    <2>1. PICK w : w = wire[c]
      OBVIOUS
    <2>2. w \in Seq(Symbol)
      BY <1>1, <2>1
    <2>3. /\ w # <<>> => SubSeq(w \o s, 2, Len(w \o s)) = SubSeq(w, 2, Len(w)) \o s
          /\ w = <<>> => w \o s = s
      BY <2>2, Unread
    <2> QED BY <2>1, <2>3
  <1>3. CASE late[c] /\ wire[c] = <<>>
    <2>1. Len(<<>>) = 0
      OBVIOUS
    <2>2. SubSeq(<<>>, 2, 0) = <<>>
      BY SubSeqEmpty
    <2> QED BY <1>2, <1>3, <2>1, <2>2 DEF Ahead, Still
  <1>4. CASE late[c] /\ wire[c] # <<>>
    BY <1>2, <1>4 DEF Ahead, Still
  <1>5. CASE ~late[c]
    <2>1. buf[c] \o (wire[c] \o s) = (buf[c] \o wire[c]) \o s
      <3>1. buf[c] \in Seq(Symbol) /\ wire[c] \in Seq(Symbol) /\ s \in Seq(Symbol)
        BY <1>1
      <3> DEFINE b == buf[c]
      <3> DEFINE w == wire[c]
      <3>2. b \in Seq(Symbol) /\ w \in Seq(Symbol)
        BY <3>1
      <3> HIDE DEF b, w
      <3>3. b \o (w \o s) = (b \o w) \o s
        BY <3>2, Associated, SMTT(30)
      <3> QED BY <3>3 DEF b, w
    <2> QED BY <1>5, <2>1 DEF Ahead, Still
  <1> QED BY <1>3, <1>4, <1>5

\* An answer arrives, the whole of it or, when the connection ends, a part.
LEMMA ArrivesFlow ==
  ASSUME Typed, NEW c \in Conn, Flow(c), conn[c] = "up", toS[c] # <<>>,
         NEW a \in Answers, a.req = Head(toS[c]), NEW k \in 0..Size(a),
         Still(c), wire'[c] = wire[c] \o SubSeq(Sent(a), 1, k), report' = report,
         \/ conn'[c] = "up" /\ k = Size(a) /\ toS'[c] = Tail(toS[c])
         \/ conn'[c] \in {"eof", "reset"} /\ toS'[c] = <<>>
  PROVE  Flow(c)'
  <1>1. PICK L : Streaming(c, L)
    BY DEF Flow
  <1>2. Edges(c)
    BY DEF Flow
  <1>3. /\ StreamTyped /\ ReportTyped /\ Sent(a) \in Seq(Symbol) /\ Size(a) \in Nat /\ Size(a) >= 8
        /\ Size(a) = Len(Sent(a)) /\ k \in Nat /\ k <= Size(a)
    <2>1. StreamTyped /\ ReportTyped
      BY DEF Typed
    <2>2. Sent(a) \in Seq(Symbol) /\ Size(a) \in Nat /\ Before(a) \in {8, 14} /\ Before(a) <= Size(a)
      BY <2>1, AnswerHead
    <2> QED BY <2>1, <2>2 DEF Size
  <1> DEFINE s == SubSeq(Sent(a), 1, k)
  <1>4. s \in Seq(Symbol) /\ Len(s) = k
    <2>1. 1 \in Nat \ {0} /\ k <= Len(Sent(a)) /\ 1 <= k + 1
      BY <1>3
    <2>2. Len(s) = k + 1 - 1 /\ s \in Seq(Symbol)
      BY <1>3, <2>1, Between
    <2> QED BY <1>3, <2>2
  <1>t. PICK r : r = s
    OBVIOUS
  <1>5. /\ late[c] /\ wire[c] = <<>> => Ahead(c) = <<>> /\ Ahead(c)' = SubSeq(r, 2, Len(r))
        /\ ~(late[c] /\ wire[c] = <<>>) => Ahead(c)' = Ahead(c) \o r
        /\ wire'[c] = wire[c] \o r /\ r \in Seq(Symbol) /\ Len(r) = k
    <2>1. r \in Seq(Symbol) /\ wire'[c] = wire[c] \o r /\ Len(r) = k
      BY <1>4, <1>t
    <2> QED BY <1>3, <2>1, Unseen
  <1>6. toS[c] \in Seq(Made) /\ Len(toS[c]) >= 1 /\ Head(toS[c]) = toS[c][1]
    BY DEF Typed
  <1>7. wire[c] \in Seq(Symbol) /\ (k >= 1 => wire'[c] # <<>>)
    <2>1. wire[c] \in Seq(Symbol)
      BY <1>3 DEF StreamTyped
    <2>2. Len(wire'[c]) = Len(wire[c]) + k /\ Len(wire[c]) \in Nat
      <3>1. wire[c] \in Seq(Symbol) /\ r \in Seq(Symbol)
        BY <2>1, <1>5
      <3>2. Len(wire[c] \o r) = Len(wire[c]) + Len(r) /\ Len(wire[c]) \in Nat
        BY <3>1, Joined
      <3>3. wire'[c] = wire[c] \o r /\ Len(r) = k
        BY <1>5
      <3> QED BY <3>2, <3>3
    <2>3. k >= 1 => Len(wire'[c]) # 0
      BY <2>2, <1>3
    <2>4. Len(<<>>) = 0
      OBVIOUS
    <2>5. k >= 1 => wire'[c] # <<>>
      BY <2>3, <2>4
    <2> QED BY <2>1, <2>5
  <1>8. Edges(c)'
    <2>1. conn'[c] = "up" => wire'[c] # <<>>
      BY <1>3, <1>7
    <2> QED BY <1>2, <2>1 DEF Edges, Still, Within, Parsing
  <1>9. \A q : Place(c, q) => Place(c, q)'
    BY PlaceStay
  <1>10. \A i \in 1..Len(toS'[c]) : toS'[c][i] = toS[c][i + 1] /\ i + 1 \in 1..Len(toS[c])
    <2>1. CASE toS'[c] = <<>>
      BY <2>1
    <2>2. CASE toS'[c] = Tail(toS[c])
      BY <1>6, <2>2
    <2> QED BY <2>1, <2>2
  <1>11. Filed(c, L) => a.req.file # NoFile /\ \A i \in 1..Len(toS'[c]) : toS'[c][i].file # NoFile
    <2>1. SUFFICES ASSUME Filed(c, L)
                   PROVE  a.req.file # NoFile /\ \A i \in 1..Len(toS'[c]) : toS'[c][i].file # NoFile
      OBVIOUS
    <2>2. \A i \in 1..Len(toS[c]) : toS[c][i].file # NoFile
      BY <2>1 DEF Filed
    <2>3. 1 \in 1..Len(toS[c]) /\ a.req = toS[c][1]
      BY <1>6
    <2> QED BY <1>10, <2>2, <2>3
  <1>12. /\ stale'[c] = stale[c] /\ asked'[c] = asked[c] /\ verdict'[c] = verdict[c]
         /\ ctx'[c] = ctx[c] /\ late'[c] = late[c]
         /\ Reading(c)' = Reading(c) /\ Within(c)' = Within(c)
    BY DEF Still, Reading, Within
  <1>13. CASE late[c] /\ wire[c] = <<>>
    <2>1. stale[c] /\ ~Within(c) /\ wire'[c] = r /\ Len(Ahead(c)) = 0
      BY <1>2, <1>5, <1>13 DEF Edges
    <2>2. Soiled(c, L) /\ Place(c, L[0])
      BY <1>1 DEF Streaming
    <2>3. asked[c].file = NoFile => verdict[c] = "error" \/ ctx[c].state = "START"
      BY <2>1, <2>2 DEF Soiled, Dead, Pending, Skewed
    <2>4. Filed(c, L) \/ asked[c].file = NoFile
      BY <2>1, <2>2 DEF Soiled
    <2>5. CASE k = 0
      <3>1. Ahead(c)' = <<>>
        <4>1. r = <<>>
          BY <1>5, <2>5
        <4>2. SubSeq(<<>>, 2, 0) = <<>> /\ Len(<<>>) = 0
          BY SubSeqEmpty
        <4> QED BY <1>5, <1>13, <4>1, <4>2
      <3>2. conn'[c] # "up" /\ toS'[c] = <<>>
        BY <1>3, <2>5
      <3>3. PICK M : \A o : Labelled(<<>>, M, o)
        BY <1>3, EmptyLabels
      <3>4. Labelled(Ahead(c), M, conn[c] = "up")'
        BY <3>1, <3>3, Rigid
      <3>5. Place(c, M[0])'
        BY <2>1, <2>2, <1>12 DEF Place, AtBody, Within, Still
      <3>6. Fresh(c, M)'
        BY <2>1, <1>12 DEF Fresh
      <3>7. Filed(c, M)'
        <4>1. Len(<<>>) = 0
          OBVIOUS
        <4> QED BY <2>1, <3>1, <3>2, <4>1, <1>12 DEF Filed
      <3>8. ctx[c].state = "START" => Skewed(c, M)'
        <4>1. wire'[c] = <<>>
          BY <1>5, <2>1, <2>5
        <4> QED BY <4>1, <1>12, <1>13 DEF Skewed
      <3>9. Soiled(c, M)'
        BY <2>3, <3>7, <3>8, <1>12 DEF Soiled
      <3> QED BY <3>4, <3>5, <3>6, <3>9, <1>8 DEF Flow, Streaming
    <2>6. CASE k # 0
      <3>1. k \in 1..Size(a) /\ (conn'[c] = "up" => k = Size(a))
        BY <1>3, <2>6
      <3> DEFINE t == SubSeq(Sent(a), 2, k)
      <3>2. Ahead(c)' = t
        <4>1. \A i \in 1..k : r[i] = Sent(a)[i]
          <5>1. 1 \in Nat \ {0} /\ k <= Len(Sent(a)) /\ 1 <= k + 1
            BY <1>3
          <5>2. \A i \in 1..(k + 1 - 1) : s[i] = Sent(a)[1 - 1 + i]
            BY <1>3, <5>1, Between
          <5> HIDE DEF s
          <5> QED BY <1>3, <1>t, <5>2
        <4> DEFINE x == SubSeq(r, 2, k)
        <4>2. /\ x \in Seq(Symbol) /\ Len(x) = k + 1 - 2
              /\ \A i \in 1..(k + 1 - 2) : x[i] = r[2 - 1 + i]
          <5>1. 2 \in Nat \ {0} /\ k \in Nat /\ k <= Len(r) /\ 2 <= k + 1
                /\ r \in Seq(Symbol)
            BY <1>3, <1>5, <3>1
          <5> QED BY <5>1, Between
        <4>3. /\ t \in Seq(Symbol) /\ Len(t) = k + 1 - 2
              /\ \A i \in 1..(k + 1 - 2) : t[i] = Sent(a)[2 - 1 + i]
          <5>1. 2 \in Nat \ {0} /\ k \in Nat /\ k <= Len(Sent(a)) /\ 2 <= k + 1
                /\ Sent(a) \in Seq(Symbol)
            BY <1>3, <3>1
          <5> QED BY <5>1, Between, SMTT(30)
        <4>4. x = t
          <5> HIDE DEF x, t
          <5>1. Len(x) = Len(t) /\ Len(x) = k - 1
            BY <1>3, <1>5, <4>2, <4>3
          <5>2. ASSUME NEW i \in 1..Len(x) PROVE x[i] = t[i]
            <6>1. i \in 1..(k - 1) /\ 2 - 1 + i = 1 + i /\ 1 + i \in 1..k
                  /\ i \in 1..(k + 1 - 2)
              BY <5>1, <1>3, <1>5, <3>1
            <6> QED BY <6>1, <4>1, <4>2, <4>3
          <5> QED BY <4>2, <4>3, <5>1, <5>2, SeqEqual
        <4> QED BY <4>4, <1>5, <1>13
      <3>3. PICK M : /\ Labelled(t, M, conn'[c] = "up") /\ Len(t) = k - 1
                     /\ \A i \in 0..Len(t) : M[i] = Spot(a, i + 1)
        <4> DEFINE M == [i \in 0..Len(t) |-> Spot(a, i + 1)]
        <4>1. Labelled(t, M, conn'[c] = "up") /\ Len(t) = k - 1
          BY <1>3, <3>1, SkippedLabels
        <4>2. \A i \in 0..Len(t) : M[i] = Spot(a, i + 1)
          OBVIOUS
        <4> HIDE DEF M, t
        <4> QED BY <4>1, <4>2
      <3> HIDE DEF t
      <3>4. Labelled(Ahead(c), M, conn[c] = "up")'
        BY <3>2, <3>3, Rigid
      <3>5. Place(c, M[0])'
        BY <2>1, <2>2, <1>12 DEF Place, AtBody, Within, Still
      <3>6. Fresh(c, M)'
        BY <2>1, <1>12 DEF Fresh
      <3>7. Filed(c, L) => Filed(c, M)'
        <4>1. ASSUME NEW i \in 1..Len(t) PROVE M[i].of = a
          <5>1. i \in 0..Len(t)
            BY <1>3, <3>3
          <5>2. M[i] = Spot(a, i + 1)
            BY <3>3, <5>1
          <5> QED BY <5>2 DEF Spot
        <4> QED BY <1>11, <1>12, <2>1, <3>2, <4>1 DEF Filed
      <3>8. ctx[c].state = "START" => Dead(c)' \/ Skewed(c, M)'
        <4>1. CASE k = 1
          <5>1. Len(t) = 0 /\ t \in Seq(Symbol)
            BY <4>1, <3>3 DEF Labelled
          <5>2. Ahead(c)' = <<>>
            BY <5>1, <3>2
          <5>3. conn'[c] # "up" /\ toS'[c] = <<>>
            BY <1>3, <4>1
          <5> QED BY <5>2, <5>3, <1>12 DEF Dead
        <4>2. CASE k # 1
          <5>1. Len(t) >= 1 /\ 1 \in 0..Len(t)
            BY <1>3, <3>1, <3>3, <4>2
          <5>2. M[1].at = 2
            <6>1. M[1] = Spot(a, 1 + 1)
              BY <5>1, <3>3
            <6> QED BY <6>1 DEF Spot
          <5> QED BY <5>1, <5>2, <3>2, <1>12 DEF Skewed, Reading
        <4> QED BY <4>1, <4>2
      <3>9. Soiled(c, M)'
        BY <2>3, <2>4, <3>7, <3>8, <1>12 DEF Soiled
      <3> QED BY <3>4, <3>5, <3>6, <3>9, <1>8 DEF Flow, Streaming
    <2> QED BY <2>5, <2>6
  <1>14. CASE ~(late[c] /\ wire[c] = <<>>)
    <2> DEFINE n == Len(Ahead(c))
    <2>1. /\ Labelled(Ahead(c), L, TRUE) /\ Place(c, L[0]) /\ Fresh(c, L) /\ Soiled(c, L)
      BY <1>1 DEF Streaming
    <2>2. Ahead(c)' = Ahead(c) \o s /\ Ahead(c) \in Seq(Symbol) /\ n \in Nat
      BY <1>3, <1>5, <1>14, <1>t, AheadFacts
    <2>g. PICK m : m = n
      OBVIOUS
    <2>h. PICK x : x = Ahead(c)
      OBVIOUS
    <2>3. PICK M : /\ Labelled(x \o s, M, conn'[c] = "up") /\ Len(x \o s) = m + k
                   /\ \A i \in 0..(m + k) : M[i] = IF i <= m THEN L[i] ELSE Spot(a, i - m)
      <3> DEFINE more == x \o s
      <3> DEFINE M == [i \in 0..Len(more) |-> IF i <= Len(x) THEN L[i] ELSE Spot(a, i - Len(x))]
      <3>1. Labelled(x, L, TRUE) /\ (conn'[c] = "up" => k = Size(a)) /\ Len(x) = m
        BY <1>3, <2>1, <2>h, <2>g
      <3>2. Labelled(more, M, conn'[c] = "up") /\ Len(more) = Len(x) + k
        <4> DEFINE o == conn'[c] = "up"
        <4>1. o => k = Size(a)
          BY <3>1
        <4> HIDE DEF o
        <4>2. Labelled(more, M, o) /\ Len(more) = Len(x) + k
          BY <1>3, <3>1, <4>1, AppendLabels
        <4> QED BY <4>2 DEF o
      <3> HIDE DEF more
      <3>3. \A i \in 0..(m + k) : M[i] = IF i <= m THEN L[i] ELSE Spot(a, i - m)
        BY <3>1, <3>2
      <3> HIDE DEF M
      <3> QED BY <3>1, <3>2, <3>3 DEF more
    <2> HIDE DEF s
    <2>4. Ahead(c)' = x \o s /\ Len(Ahead(c)') = m + k /\ m \in Nat /\ m = Len(Ahead(c))
      BY <2>2, <2>3, <2>g, <2>h
    <2>5. Labelled(Ahead(c), M, conn[c] = "up")'
      BY <2>3, <2>4, Rigid
    <2>6. \A i \in 0..m : M[i] = L[i]
      <3>1. ASSUME NEW i \in 0..m PROVE M[i] = L[i]
        <4>1. i \in 0..(m + k) /\ i <= m
          BY <1>3, <2>4
        <4> QED BY <2>3, <4>1
      <3> QED BY <3>1
    <2>7. \A i \in 1..k : M[m + i] = Spot(a, i)
      <3>1. ASSUME NEW i \in 1..k PROVE M[m + i] = Spot(a, i)
        <4> DEFINE j == m + i
        <4>1. j \in 0..(m + k) /\ ~(j <= m) /\ j - m = i
          BY <1>3, <2>4
        <4> HIDE DEF j
        <4>2. M[j] = Spot(a, j - m)
          BY <2>3, <4>1
        <4> QED BY <4>1, <4>2 DEF j
      <3> QED BY <3>1
    <2>8. M[0] = L[0]
      BY <2>4, <2>6
    <2>9. Place(c, M[0])'
      BY <1>9, <2>1, <2>8
    <2>10. Fresh(c, M)'
      <3>1. SUFFICES ASSUME ~stale[c] PROVE Fresh(c, M)'
        BY <1>12 DEF Fresh
      <3>2. /\ ctx[c].state # "OUT" /\ ~Within(c)
            /\ Reading(c) => m = 0 /\ toS[c] = <<asked[c]>>
        BY <2>1, <2>4, <3>1 DEF Fresh
      <3>3. Reading(c) => /\ toS'[c] = <<>> /\ a.req = asked[c]
                          /\ \A i \in 1..Len(Ahead(c)') : M[i] = Spot(a, i)
        <4>1. Reading(c) => toS'[c] = <<>> /\ a.req = asked[c]
          <5>1. SUFFICES ASSUME Reading(c) PROVE toS'[c] = <<>> /\ a.req = asked[c]
            OBVIOUS
          <5>2. toS[c] = <<asked[c]>>
            BY <3>2, <5>1
          <5> DEFINE q == asked[c]
          <5> HIDE DEF q
          <5>3. Head(<<q>>) = q /\ Tail(<<q>>) = <<>>
            OBVIOUS
          <5> QED BY <5>2, <5>3 DEF q
        <4>2. m = 0 => \A i \in 1..Len(Ahead(c)') : M[i] = Spot(a, i)
          BY <1>3, <2>4, <2>7
        <4> QED BY <4>1, <4>2, <3>2
      <3> QED BY <3>2, <3>3, <1>12 DEF Fresh
    <2>11. Filed(c, L) => Filed(c, M)'
      <3>1. ASSUME Filed(c, L), NEW i \in 1..Len(Ahead(c)') PROVE M[i].of.req.file # NoFile
        <4>1. CASE i <= m
          <5>1. i \in 0..m /\ i \in 1..Len(Ahead(c))
            BY <2>4, <4>1, <1>3
          <5>2. L[i].of.req.file # NoFile
            BY <3>1, <5>1 DEF Filed
          <5> QED BY <2>6, <5>1, <5>2
        <4>2. CASE i > m
          <5>1. i - m \in 1..k /\ m + (i - m) = i
            BY <2>4, <3>1, <4>2, <1>3, SMTT(30)
          <5>2. M[i] = Spot(a, i - m)
            BY <2>7, <5>1
          <5> QED BY <5>2, <3>1, <1>11 DEF Spot
        <4> QED BY <4>1, <4>2, <2>4, <1>3
      <3> QED BY <3>1, <2>8, <1>11, <1>12 DEF Filed
    <2>12. Skewed(c, L) => Skewed(c, M)'
      <3>1. Skewed(c, L) => Reading(c) /\ m >= 1 /\ L[1].at = 2
        BY <1>14, <2>4 DEF Skewed
      <3>2. m >= 1 => M[1] = L[1] /\ Len(Ahead(c)') >= 1
        BY <1>3, <2>4, <2>6
      <3> QED BY <3>1, <3>2, <1>12 DEF Skewed
    <2>13. ~Dead(c) /\ ~Pending(c)
      BY DEF Dead, Pending
    <2>14. Soiled(c, M)'
      BY <2>1, <2>11, <2>12, <2>13, <1>12 DEF Soiled
    <2> QED BY <2>5, <2>9, <2>10, <2>14, <1>8 DEF Flow, Streaming
  <1> QED BY <1>13, <1>14

LEMMA EndFlow ==
  ASSUME Typed, NEW c \in Conn, Flow(c), conn'[c] # "up", conn'[c] = "none" \/ toS[c] = <<>>,
         Still(c), wire'[c] = wire[c], toS'[c] = toS[c], report' = report
  PROVE  Flow(c)'
  <1>1. PICK L : Streaming(c, L)
    BY DEF Flow
  <1>2. Edges(c)
    BY DEF Flow
  <1>3. Ahead(c)' = Ahead(c) /\ conn'[c] # "up"
    BY DEF Ahead, Still
  <1>4. Labelled(Ahead(c), L, conn[c] = "up")'
    <2>1. Labelled(Ahead(c), L, conn[c] = "up")
      BY <1>1 DEF Streaming
    <2>2. Labelled(Ahead(c), L, FALSE)
      BY <2>1 DEF Labelled
    <2>3. Labelled(Ahead(c), L, FALSE)'
      BY <1>3, <2>2, Rigid
    <2>4. (conn[c] = "up")' = FALSE
      BY <1>3
    <2> QED BY <2>3, <2>4
  <1>5. Place(c, L[0])'
    BY <1>1, PlaceStay DEF Streaming
  <1>6. Fresh(c, L)'
    BY <1>1, <1>3 DEF Streaming, Fresh, Still, Reading, Within
  <1>7. Soiled(c, L)'
    <2>1. Soiled(c, L)
      BY <1>1 DEF Streaming
    <2>2. Filed(c, L) => Filed(c, L)'
      BY <1>3 DEF Filed, Still, Within
    <2>3. (Dead(c) => Dead(c)') /\ (Pending(c) => Pending(c)') /\ (Skewed(c, L) => Skewed(c, L)')
      BY <1>3 DEF Dead, Pending, Skewed, Still, Reading
    <2> QED BY <2>1, <2>2, <2>3 DEF Soiled, Still
  <1>8. Edges(c)'
    BY <1>2, <1>3 DEF Edges, Still, Within, Parsing
  <1> QED BY <1>4, <1>5, <1>6, <1>7, <1>8 DEF Flow, Streaming

LEMMA AnswerIs ==
  ASSUME NEW q \in Made, NEW framing \in FramingsOf(q)
  PROVE  \E a \in Answers : a.req = q /\ ~Refused(a) /\ Sent(a) = Answer(q, framing)
  <1> DEFINE a == [req |-> q, how |-> framing]
  <1>1. a \in Answers /\ a.req = q /\ ~Refused(a) /\ a.how = framing
    BY DEF Answers, FramingsOf, Refused
  <1>2. Sent(a) = Answer(q, framing)
    BY <1>1 DEF Sent
  <1> QED BY <1>1, <1>2

LEMMA RefusalIs ==
  ASSUME NEW q \in Made
  PROVE  \E a \in Answers : a.req = q /\ Sent(a) = Refusal(q)
  <1> DEFINE a == [req |-> q, how |-> "refusal"]
  <1>1. a \in Answers /\ a.req = q /\ Refused(a)
    BY DEF Answers, Refused
  <1>2. Sent(a) = Refusal(q)
    BY <1>1 DEF Sent
  <1> QED BY <1>1, <1>2

-----------------------------------------------------------------------------
(***************************************************************************)
(* The invariant: what holds to the end, and what holds while it runs.     *)
(***************************************************************************)
Settled == Typed /\ \A c \in Conn : Drawn(c) /\ Heard(c)
Alive == Planned /\ \A c \in Conn : Flow(c)

LEMMA HeardStay ==
  ASSUME NEW c \in Conn, Heard(c), asked'[c] = asked[c], taken'[c] = taken[c]
  PROVE  Heard(c)'
  BY DEF Heard, Told

LEMMA Others ==
  ASSUME Settled, report' = report, NEW d \in Conn, Same(d)
  PROVE  Drawn(d)' /\ Heard(d)' /\ (Flow(d) => Flow(d)')
  <1>1. Drawn(d) /\ Heard(d)
    BY DEF Settled
  <1>2. Drawn(d)'
    BY <1>1, DrawnStay DEF Same
  <1>3. Heard(d)'
    BY <1>1, HeardStay DEF Same
  <1> QED BY <1>2, <1>3, Frame

\* What the client has of the answer is what it was.
LEMMA StillDrawn ==
  ASSUME Settled, report' = report, NEW d \in Conn, Still(d),
         conn'[d] = "up" => conn[d] = "up"
  PROVE  Drawn(d)' /\ Heard(d)'
  <1>1. Drawn(d) /\ Heard(d)
    BY DEF Settled
  <1>2. Drawn(d)'
    BY <1>1, DrawnStay DEF Still
  <1>3. Heard(d)'
    BY <1>1, HeardStay DEF Still
  <1> QED BY <1>2, <1>3

\* The plan does not depend on what the server does.
LEMMA ServerPlan ==
  ASSUME Planned, todo' = todo, asked' = asked, known' = known, ctx' = ctx, verdict' = verdict,
         buf' = buf
  PROVE  Planned'
  <1>1. \A d \in Conn : Busy(d)' => Busy(d)
    BY DEF Busy, Parsing
  <1> QED BY <1>1, StayPlan

LEMMA ServeKeeps ==
  ASSUME Settled, Alive, NEW c \in Conn, Serve(c)
  PROVE  Settled' /\ Alive'
  <1>1. Typed /\ Flow(c) /\ Planned /\ ReportTyped
    BY DEF Settled, Alive, Typed
  <1>2. /\ conn[c] = "up" /\ toS[c] # <<>>
        /\ toS' = [toS EXCEPT ![c] = Tail(toS[c])]
        /\ refusals' = refusals \/ (refusals < MaxRefusals /\ refusals' = refusals + 1)
        /\ conn' = conn /\ buf' = buf /\ pos' = pos /\ late' = late /\ ctx' = ctx /\ asked' = asked
        /\ taken' = taken /\ verdict' = verdict /\ stale' = stale /\ bitty' = bitty
        /\ todo' = todo /\ outcome' = outcome /\ known' = known /\ edited' = edited /\ bad' = bad
        /\ got' = got /\ report' = report /\ cuts' = cuts
    BY DEF Serve, client
  <1>3. toS[c] \in Seq(Made) /\ Head(toS[c]) \in Made /\ Tail(toS[c]) \in Seq(Made)
    BY <1>1, <1>2 DEF Typed
  <1>4. PICK a \in Answers : a.req = Head(toS[c]) /\ wire' = [wire EXCEPT ![c] = wire[c] \o Sent(a)]
    <2>1. CASE \E framing \in FramingsOf(Head(toS[c])) :
                 wire' = [wire EXCEPT ![c] = wire[c] \o Answer(Head(toS[c]), framing)]
      BY <1>3, <2>1, AnswerIs
    <2>2. CASE wire' = [wire EXCEPT ![c] = wire[c] \o Refusal(Head(toS[c]))]
      BY <1>3, <2>2, RefusalIs
    <2> QED BY <2>1, <2>2 DEF Serve, Set
  <1>5. Sent(a) \in Seq(Symbol) /\ Size(a) \in Nat /\ Size(a) = Len(Sent(a))
    BY <1>1, AnswerHead DEF Size
  <1>6. wire[c] \in Seq(Symbol) /\ wire \in [Conn -> Seq(Symbol)] /\ toS \in [Conn -> Seq(Made)]
    BY <1>1 DEF Typed, StreamTyped
  <1>7. /\ wire'[c] = wire[c] \o Sent(a) /\ wire' \in [Conn -> Seq(Symbol)]
        /\ \A d \in Conn \ {c} : wire'[d] = wire[d]
    <2> DEFINE w == wire[c] \o Sent(a)
    <2>1. w \in Seq(Symbol)
      <3>1. wire[c] \in Seq(Symbol) /\ Sent(a) \in Seq(Symbol)
        BY <1>5, <1>6
      <3> QED BY <3>1, Joined
    <2> HIDE DEF w
    <2>2. wire' = [wire EXCEPT ![c] = w]
      BY <1>4 DEF w
    <2>3. wire'[c] = w /\ wire' \in [Conn -> Seq(Symbol)] /\ \A d \in Conn \ {c} : wire'[d] = wire[d]
      BY <1>6, <2>1, <2>2, SetAt
    <2> QED BY <2>3 DEF w
  <1>8. /\ toS'[c] = Tail(toS[c]) /\ toS' \in [Conn -> Seq(Made)]
        /\ \A d \in Conn \ {c} : toS'[d] = toS[d]
    BY <1>2, <1>3, <1>6, SetAt
  <1>9. StreamTyped'
    BY <1>1, <1>2, <1>7, WireTyped DEF Typed
  <1>10. Typed'
    <2>1. refusals' \in 0..MaxRefusals
      BY <1>1, <1>2, BoundAssumption DEF Typed
    <2>2. ReportTyped'
      BY <1>1, <1>2 DEF ReportTyped
    <2> QED BY <1>1, <1>2, <1>8, <1>9, <2>1, <2>2 DEF Typed
  <1>11. Still(c)
    BY <1>2 DEF Still
  <1>12. Flow(c)'
    <2>1. SubSeq(Sent(a), 1, Size(a)) = Sent(a)
      BY <1>5, SubSeqFull
    <2>k. PICK k : k = Size(a)
      OBVIOUS
    <2>2. SubSeq(Sent(a), 1, k) = Sent(a) /\ wire'[c] = wire[c] \o Sent(a)
      BY <1>7, <2>1, <2>k
    <2>3. wire'[c] = wire[c] \o SubSeq(Sent(a), 1, k) /\ k \in 0..Size(a)
      <3>1. k \in 0..Size(a)
        BY <1>5, <2>k
      <3> QED BY <2>2, <3>1
    <2>4. conn'[c] = "up" /\ k = Size(a) /\ toS'[c] = Tail(toS[c])
      BY <1>2, <1>8, <2>k
    <2> QED BY <1>1, <1>2, <1>4, <1>11, <2>3, <2>4, ArrivesFlow
  <1>13. \A d \in Conn \ {c} : Same(d)
    BY <1>2, <1>7, <1>8 DEF Same
  <1>14. \A d \in Conn : Drawn(d)' /\ Heard(d)'
    <2>1. \A d \in Conn : Still(d) /\ conn'[d] = conn[d]
      BY <1>2 DEF Still
    <2> QED BY <1>2, <2>1, StillDrawn
  <1>15. \A d \in Conn : Flow(d)'
    <2>1. ASSUME NEW d \in Conn PROVE Flow(d)'
      <3>1. CASE d = c
        BY <3>1, <1>12
      <3>2. CASE d # c
        BY <3>2, <1>2, <1>13, Others DEF Alive
      <3> QED BY <3>1, <3>2
    <2> QED BY <2>1
  <1>16. Planned'
    BY <1>1, <1>2, ServerPlan
  <1> QED BY <1>10, <1>14, <1>15, <1>16 DEF Settled, Alive

LEMMA CutKeeps ==
  ASSUME Settled, Alive, NEW c \in Conn, Cut(c)
  PROVE  Settled' /\ Alive'
  <1>1. Typed /\ Flow(c) /\ Planned /\ ReportTyped
    BY DEF Settled, Alive, Typed
  <1>2. /\ conn[c] = "up" /\ toS[c] # <<>> /\ toS' = [toS EXCEPT ![c] = <<>>]
        /\ cuts < MaxCuts /\ cuts' = cuts + 1
        /\ buf' = buf /\ pos' = pos /\ late' = late /\ ctx' = ctx /\ asked' = asked
        /\ taken' = taken /\ verdict' = verdict /\ stale' = stale /\ bitty' = bitty
        /\ todo' = todo /\ outcome' = outcome /\ known' = known /\ edited' = edited /\ bad' = bad
        /\ got' = got /\ report' = report /\ refusals' = refusals
    BY DEF Cut, Ends, client
  <1>3. PICK to \in {"eof", "reset"} : conn' = [conn EXCEPT ![c] = to]
    BY DEF Cut, Ends, Set
  <1>4. toS[c] \in Seq(Made) /\ Head(toS[c]) \in Made /\ <<>> \in Seq(Made)
    BY <1>1, <1>2 DEF Typed
  <1>5. PICK a \in Answers :
          /\ a.req = Head(toS[c])
          /\ \E k \in 0..Size(a) : wire' = [wire EXCEPT ![c] = wire[c] \o SubSeq(Sent(a), 1, k)]
    <2>1. PICK framing \in FramingsOf(Head(toS[c])) :
            \E k \in 0..Len(Answer(Head(toS[c]), framing)) :
              wire' = [wire EXCEPT ![c] = wire[c] \o SubSeq(Answer(Head(toS[c]), framing), 1, k)]
      BY DEF Cut, Set
    <2>2. PICK a \in Answers : a.req = Head(toS[c]) /\ Sent(a) = Answer(Head(toS[c]), framing)
      BY <1>4, AnswerIs
    <2> QED BY <2>1, <2>2 DEF Size
  <1>k. PICK k \in 0..Size(a) : wire' = [wire EXCEPT ![c] = wire[c] \o SubSeq(Sent(a), 1, k)]
    BY <1>5
  <1>6. Sent(a) \in Seq(Symbol) /\ Size(a) \in Nat /\ Size(a) = Len(Sent(a))
    BY <1>1, AnswerHead DEF Size
  <1>7. /\ wire[c] \in Seq(Symbol) /\ wire \in [Conn -> Seq(Symbol)] /\ toS \in [Conn -> Seq(Made)]
        /\ conn \in [Conn -> {"none", "up", "eof", "reset"}]
    BY <1>1 DEF Typed, StreamTyped
  <1>8. wire' \in [Conn -> Seq(Symbol)] /\ \A d \in Conn \ {c} : wire'[d] = wire[d]
    <2> DEFINE s == SubSeq(Sent(a), 1, k)
    <2> DEFINE w == wire[c] \o s
    <2>1. s \in Seq(Symbol)
      <3>1. 1 \in Nat \ {0} /\ k \in Nat /\ k <= Len(Sent(a)) /\ 1 <= k + 1 /\ Sent(a) \in Seq(Symbol)
        BY <1>6
      <3> QED BY <3>1, Between
    <2>2. w \in Seq(Symbol)
      <3>1. wire[c] \in Seq(Symbol) /\ s \in Seq(Symbol)
        BY <1>7, <2>1
      <3> HIDE DEF s
      <3> QED BY <3>1, Joined
    <2> HIDE DEF w
    <2>3. wire' = [wire EXCEPT ![c] = w]
      BY <1>k DEF w
    <2> QED BY <1>7, <2>2, <2>3, SetAt
  <1>w. wire'[c] = wire[c] \o SubSeq(Sent(a), 1, k)
    BY <1>k, <1>7
  <1>9. /\ toS'[c] = <<>> /\ toS' \in [Conn -> Seq(Made)]
        /\ \A d \in Conn \ {c} : toS'[d] = toS[d]
    BY <1>2, <1>4, <1>7, SetAt
  <1>10. /\ conn'[c] = to /\ conn' \in [Conn -> {"none", "up", "eof", "reset"}]
         /\ \A d \in Conn \ {c} : conn'[d] = conn[d]
    BY <1>3, <1>7, SetAt
  <1>11. Typed'
    <2>1. StreamTyped'
      BY <1>1, <1>2, <1>8, WireTyped DEF Typed
    <2>2. cuts' \in 0..MaxCuts
      BY <1>1, <1>2, BoundAssumption DEF Typed
    <2>3. ReportTyped'
      BY <1>1, <1>2 DEF ReportTyped
    <2> QED BY <1>1, <1>2, <1>9, <1>10, <2>1, <2>2, <2>3 DEF Typed
  <1>12. \A d \in Conn : Still(d)
    BY <1>2 DEF Still
  <1>13. Flow(c)'
    <2>1. conn'[c] \in {"eof", "reset"}
      BY <1>3, <1>10
    <2> QED BY <1>1, <1>2, <1>5, <1>9, <1>12, <1>w, <2>1, ArrivesFlow
  <1>14. ASSUME NEW d \in Conn, d # c PROVE Same(d)
    BY <1>2, <1>8, <1>9, <1>10, <1>14 DEF Same
  <1>15. ASSUME NEW d \in Conn PROVE Drawn(d)' /\ Heard(d)' /\ Flow(d)'
    <2>1. conn'[d] = "up" => conn[d] = "up"
      BY <1>2, <1>10
    <2>2. Drawn(d)' /\ Heard(d)'
      BY <1>2, <1>12, <2>1, StillDrawn
    <2>3. CASE d = c
      BY <1>13, <2>2, <2>3
    <2>4. CASE d # c
      BY <1>2, <1>14, <2>2, <2>4, Others DEF Alive
    <2> QED BY <2>3, <2>4
  <1>16. Planned'
    BY <1>1, <1>2, ServerPlan
  <1> QED BY <1>11, <1>15, <1>16 DEF Settled, Alive

LEMMA TimeoutKeeps ==
  ASSUME Settled, Alive, NEW c \in Conn, Timeout(c)
  PROVE  Settled' /\ Alive'
  <1>1. Typed /\ Flow(c) /\ Planned
    BY DEF Settled, Alive
  <1>2. /\ conn[c] = "up" /\ toS[c] = <<>> /\ cuts < MaxCuts /\ cuts' = cuts + 1
        /\ wire' = wire /\ toS' = toS
        /\ buf' = buf /\ pos' = pos /\ late' = late /\ ctx' = ctx /\ asked' = asked
        /\ taken' = taken /\ verdict' = verdict /\ stale' = stale /\ bitty' = bitty
        /\ todo' = todo /\ outcome' = outcome /\ known' = known /\ edited' = edited /\ bad' = bad
        /\ got' = got /\ report' = report /\ refusals' = refusals
    BY DEF Timeout, Ends, client
  <1>3. PICK to \in {"eof", "reset"} : conn' = [conn EXCEPT ![c] = to]
    BY DEF Timeout, Ends, Set
  <1>4. conn \in [Conn -> {"none", "up", "eof", "reset"}]
    BY <1>1 DEF Typed
  <1>5. /\ conn'[c] = to /\ conn' \in [Conn -> {"none", "up", "eof", "reset"}]
        /\ \A d \in Conn \ {c} : conn'[d] = conn[d]
    BY <1>3, <1>4, SetAt
  <1>6. Typed'
    <2>1. StreamTyped'
      BY <1>1, <1>2 DEF Typed, StreamTyped
    <2>2. cuts' \in 0..MaxCuts
      BY <1>1, <1>2, BoundAssumption DEF Typed
    <2>3. ReportTyped'
      BY <1>1, <1>2 DEF Typed, ReportTyped
    <2> QED BY <1>1, <1>2, <1>5, <2>1, <2>2, <2>3 DEF Typed
  <1>7. \A d \in Conn : Still(d)
    BY <1>2 DEF Still
  <1>8. Flow(c)'
    <2>1. conn'[c] # "up"
      BY <1>3, <1>5
    <2> QED BY <1>1, <1>2, <1>5, <1>7, <2>1, EndFlow
  <1>9. ASSUME NEW d \in Conn, d # c PROVE Same(d)
    BY <1>2, <1>5, <1>9 DEF Same
  <1>10. ASSUME NEW d \in Conn PROVE Drawn(d)' /\ Heard(d)' /\ Flow(d)'
    <2>1. conn'[d] = "up" => conn[d] = "up"
      BY <1>2, <1>5
    <2>2. Drawn(d)' /\ Heard(d)'
      BY <1>2, <1>7, <2>1, StillDrawn
    <2>3. CASE d = c
      BY <1>8, <2>2, <2>3
    <2>4. CASE d # c
      BY <1>2, <1>9, <2>2, <2>4, Others DEF Alive
    <2> QED BY <2>3, <2>4
  <1>11. Planned'
    BY <1>1, <1>2, ServerPlan
  <1> QED BY <1>6, <1>10, <1>11 DEF Settled, Alive

-----------------------------------------------------------------------------
(***************************************************************************)
(* The steps of the client keep the invariant.                             *)
(***************************************************************************)
HttpInv ==
  /\ Settled
  /\ outcome = "running" => Alive
  /\ outcome # "running" => todo = <<>>
  /\ outcome \in {"running", "failed", "crashed", "recorded"}
  /\ MainAddressed

LEMMA FetchedTyped ==
  ASSUME Typed, NEW f \in File \cup {NoFile}, NEW w \in {"none", "whole", "part", "lost"}, Fetched(f, w)
  PROVE  got' \in [File -> {"none", "whole", "part", "lost"}]
  <1>1. got \in [File -> {"none", "whole", "part", "lost"}]
    BY DEF Typed
  <1>2. CASE f = NoFile
    BY <1>1, <1>2 DEF Fetched
  <1>3. CASE f # NoFile
    <2>1. f \in File /\ got' = [got EXCEPT ![f] = w]
      BY <1>3 DEF Fetched
    <2> QED BY <1>1, <2>1
  <1> QED BY <1>2, <1>3

LEMMA FailedPlan ==
  ASSUME Planned, outcome = "running", Failed, asked' = asked,
         \A d \in Conn : Busy(d)' => Busy(d) /\ ~(Step.do = "parse" /\ Step.on = d),
         \A d \in Conn : known'[d] \in {{}, {"me"}, {"me", "root"}},
         "root" \in known["main"] => "root" \in known'["main"]
  PROVE  \/ outcome' = "running" /\ Planned' /\ Step.file # NoFile
         \/ outcome' = "failed" /\ todo' = <<>> /\ Step.file = NoFile
  <1>1. CASE Step.file # NoFile
    <2>1. todo' = WithoutFile /\ outcome' = outcome
      BY <1>1 DEF Failed
    <2> QED BY <1>1, <2>1, WithoutPlan
  <1>2. CASE Step.file = NoFile
    BY <1>2 DEF Failed
  <1> QED BY <1>1, <1>2

\* What the invariant says while the client runs.
LEMMA Underway ==
  ASSUME HttpInv, outcome = "running"
  PROVE  /\ Typed /\ Planned /\ \A d \in Conn : Flow(d) /\ Drawn(d) /\ Heard(d)
         /\ Shape /\ AskedRight /\ BusyRight /\ KnownRight /\ AgainRight
         /\ todo # <<>> /\ Step.on \in Conn /\ Step.file \in File \cup {NoFile}
  <1>1. Typed /\ Planned /\ \A d \in Conn : Flow(d) /\ Drawn(d) /\ Heard(d)
    BY DEF HttpInv, Settled, Alive
  <1>2. Shape /\ AskedRight /\ BusyRight /\ KnownRight /\ AgainRight
    BY <1>1 DEF Planned
  <1> QED BY <1>1, <1>2, SlotFacts

LEMMA ParseKeeps ==
  ASSUME HttpInv, outcome = "running", NEW c \in Conn, ParseStep(c)
  PROVE  HttpInv'
  <1>1. /\ Typed /\ Planned /\ \A d \in Conn : Flow(d) /\ Drawn(d) /\ Heard(d)
    BY Underway
  <1>2. /\ Step.do = "parse" /\ Step.on = c /\ Parse(c)
        /\ todo' = todo /\ outcome' = outcome /\ known' = known /\ edited' = edited /\ bad' = bad
        /\ got' = got /\ report' = report /\ toS' = toS /\ cuts' = cuts /\ refusals' = refusals
    BY DEF ParseStep, At, client, server
  <1>3. Flow(c)' /\ StreamTyped' /\ Drawn(c)' /\ Heard(c)'
    BY <1>1, <1>2, ParseFlow
  <1>4. /\ conn' = conn /\ asked' = asked /\ bitty' = bitty
        /\ \A d \in Conn \ {c} : Same(d)
        /\ stale' \in [Conn -> BOOLEAN]
        /\ verdict' \in [Conn -> {"none", "done", "empty", "error"}]
    BY <1>1, <1>2, ParseOthers
  <1>5. ctx' \in [Conn -> Ctx] /\ taken' \in [Conn -> Seq(Symbol)]
    BY <1>1, <1>2, ParseTyped
  <1>6. Typed'
    <2>1. ReportTyped'
      BY <1>1, <1>2 DEF Typed, ReportTyped
    <2> QED BY <1>1, <1>2, <1>3, <1>4, <1>5, <2>1 DEF Typed
  <1>7. ASSUME NEW d \in Conn PROVE Flow(d)' /\ Drawn(d)' /\ Heard(d)'
    <2>1. CASE d = c
      BY <1>3, <2>1
    <2>2. CASE d # c
      <3>1. Same(d) /\ Flow(d) /\ Settled
        BY <1>1, <1>4, <2>2 DEF HttpInv
      <3> QED BY <1>2, <3>1, Others
    <2> QED BY <2>1, <2>2
  <1>8. Planned'
    <2>1. ASSUME NEW d \in Conn, Busy(d)' PROVE Busy(d) \/ (Step.do = "parse" /\ Step.on = d)
      <3>1. CASE d = c
        BY <1>2, <3>1
      <3>2. CASE d # c
        <4>1. Same(d)
          BY <1>4, <3>2
        <4> QED BY <2>1, <4>1 DEF Same, Busy, Parsing
      <3> QED BY <3>1, <3>2
    <2> QED BY <1>1, <1>2, <1>4, <2>1, StayPlan
  <1>9. MainAddressed'
    BY <1>2 DEF MainAddressed
  <1> QED BY <1>2, <1>6, <1>7, <1>8, <1>9 DEF HttpInv, Settled, Alive

LEMMA ReachKeeps ==
  ASSUME HttpInv, outcome = "running", NEW c \in Conn, Reach(c)
  PROVE  HttpInv'
  <1>1. /\ Typed /\ Planned /\ \A d \in Conn : Flow(d) /\ Drawn(d) /\ Heard(d)
        /\ Shape /\ AskedRight /\ BusyRight /\ KnownRight /\ AgainRight
        /\ todo # <<>> /\ Step.on \in Conn /\ Step.file \in File \cup {NoFile}
    BY Underway
  <1>2. /\ Step.do = "connect" /\ Step.on = c
        /\ wire' = [wire EXCEPT ![c] = <<>>] /\ toS' = [toS EXCEPT ![c] = <<>>]
        /\ stale' = [stale EXCEPT ![c] = (Step.what = "again" /\ late[c])]
        /\ ctx' = ctx /\ asked' = asked /\ taken' = taken /\ verdict' = verdict /\ bitty' = bitty
        /\ known' = known /\ edited' = edited /\ bad' = bad /\ report' = report /\ refusals' = refusals
    BY DEF Reach, At, Set
  <1>3. \/ Step.what = "new" /\ buf' = [buf EXCEPT ![c] = <<>>] /\ pos' = [pos EXCEPT ![c] = 0]
           /\ late' = [late EXCEPT ![c] = FALSE]
        \/ Step.what # "new" /\ buf' = buf /\ pos' = pos /\ late' = late
    BY DEF Reach, Set
  <1>4. \/ /\ conn' = [conn EXCEPT ![c] = "up"] /\ todo' = Tail(todo) /\ outcome' = outcome
           /\ got' = got /\ cuts' = cuts
        \/ /\ cuts < MaxCuts /\ cuts' = cuts + 1
           /\ conn' = [conn EXCEPT ![c] = "reset"] /\ Failed /\ Fetched(Step.file, "lost")
    BY DEF Reach, Advance
  <1>5. /\ wire \in [Conn -> Seq(Symbol)] /\ buf \in [Conn -> Seq(Symbol)]
        /\ pos \in [Conn -> Nat] /\ late \in [Conn -> BOOLEAN]
        /\ \A d \in Conn : pos[d] <= Len(buf[d]) /\ (late[d] => buf[d] = <<>>)
        /\ toS \in [Conn -> Seq(Made)] /\ stale \in [Conn -> BOOLEAN]
        /\ conn \in [Conn -> {"none", "up", "eof", "reset"}]
    BY <1>1 DEF Typed, StreamTyped
  <1>6. <<>> \in Seq(Symbol) /\ <<>> \in Seq(Made) /\ Len(<<>>) = 0 /\ 0 \in Nat
    OBVIOUS
  <1>7. Step.what \in {"new", "again"}
    <2>1. CASE Plainly
      BY <1>2, <2>1 DEF Plainly, OfProgram, Repeated, StepOf
    <2>2. CASE ~Plainly
      <3>1. PICK d \in Conn, f \in File : Fetching(d, f)
        BY <1>1, <2>2 DEF Shape
      <3> DEFINE u == Under(d)
      <3>2. u \in {2, 4} /\ Left \in (u + 1)..(u + 5)
            /\ \A e \in (u + 1)..Left : OfFetch(e - u, d, f, Slot(e))
        BY <3>1 DEF Fetching, Under
      <3> HIDE DEF u
      <3>3. Left \in (u + 1)..Left
        BY <3>2
      <3>4. OfFetch(Left - u, d, f, Step)
        BY <1>1, <3>2, <3>3, SlotFacts
      <3> QED BY <1>2, <3>4 DEF OfFetch, StepOf
    <2> QED BY <2>1, <2>2
  <1>8. ~Busy(c)
    BY <1>1, <1>2 DEF BusyRight
  <1>9. ctx[c].state = "OUT" /\ verdict[c] = "none"
    BY <1>8 DEF Busy, Parsing
  <1>10. /\ wire'[c] = <<>> /\ wire' \in [Conn -> Seq(Symbol)] /\ \A d \in Conn \ {c} : wire'[d] = wire[d]
    BY <1>2, <1>5, <1>6, SetAt
  <1>11. /\ toS'[c] = <<>> /\ toS' \in [Conn -> Seq(Made)] /\ \A d \in Conn \ {c} : toS'[d] = toS[d]
    BY <1>2, <1>5, <1>6, SetAt
  <1>12. /\ stale'[c] = (Step.what = "again" /\ late[c]) /\ stale' \in [Conn -> BOOLEAN]
         /\ \A d \in Conn \ {c} : stale'[d] = stale[d]
    BY <1>2, <1>5
  <1>13. /\ conn'[c] \in {"up", "reset"} /\ conn' \in [Conn -> {"none", "up", "eof", "reset"}]
         /\ \A d \in Conn \ {c} : conn'[d] = conn[d]
    BY <1>4, <1>5
  <1>14. /\ buf' \in [Conn -> Seq(Symbol)] /\ pos' \in [Conn -> Nat] /\ late' \in [Conn -> BOOLEAN]
         /\ \A d \in Conn \ {c} : buf'[d] = buf[d] /\ pos'[d] = pos[d] /\ late'[d] = late[d]
         /\ Step.what = "new" => buf'[c] = <<>> /\ pos'[c] = 0 /\ late'[c] = FALSE
         /\ Step.what = "again" => buf'[c] = buf[c] /\ pos'[c] = pos[c] /\ late'[c] = late[c]
    <2>1. CASE Step.what = "new"
      <3>1. <<>> \in Seq(Symbol) /\ 0 \in Nat /\ FALSE \in BOOLEAN
        OBVIOUS
      <3>2. /\ buf \in [Conn -> Seq(Symbol)] /\ buf' = [buf EXCEPT ![c] = <<>>]
            /\ pos \in [Conn -> Nat] /\ pos' = [pos EXCEPT ![c] = 0]
            /\ late \in [Conn -> BOOLEAN] /\ late' = [late EXCEPT ![c] = FALSE]
        BY <1>3, <1>5, <1>6, <2>1
      <3> QED BY <2>1, <3>1, <3>2, SetAt
    <2>2. CASE Step.what # "new"
      <3>1. /\ buf \in [Conn -> Seq(Symbol)] /\ buf' = buf
            /\ pos \in [Conn -> Nat] /\ pos' = pos
            /\ late \in [Conn -> BOOLEAN] /\ late' = late
        BY <1>3, <1>5, <1>6, <2>2
      <3> QED BY <2>2, <3>1
    <2> QED BY <2>1, <2>2
  <1>15. buf'[c] = <<>> /\ (late'[c] => stale'[c])
    <2>1. Step.what = "again" => buf[c] = <<>>
      BY <1>1, <1>2 DEF AgainRight
    <2> QED BY <1>7, <1>12, <1>14, <2>1
  <1>16. StreamTyped'
    <2>1. ASSUME NEW d \in Conn PROVE pos'[d] <= Len(buf'[d]) /\ (late'[d] => buf'[d] = <<>>)
      <3>1. CASE d = c
        <4>1. pos'[c] <= Len(buf'[c])
          BY <1>5, <1>6, <1>7, <1>14
        <4> QED BY <1>15, <3>1, <4>1
      <3>2. CASE d # c
        BY <1>5, <1>14, <3>2
      <3> QED BY <3>1, <3>2
    <2> QED BY <1>10, <1>14, <2>1 DEF StreamTyped
  <1>17. Typed'
    <2>1. ReportTyped'
      BY <1>1, <1>2 DEF Typed, ReportTyped
    <2>2. cuts' \in 0..MaxCuts
      BY <1>1, <1>4, BoundAssumption DEF Typed
    <2>3. got' \in [File -> {"none", "whole", "part", "lost"}]
      <3>1. CASE got' = got
        BY <1>1, <3>1 DEF Typed
      <3>2. CASE Fetched(Step.file, "lost")
        BY <1>1, <3>2, FetchedTyped
      <3> QED BY <1>4, <3>1, <3>2
    <2> QED BY <1>1, <1>2, <1>11, <1>12, <1>13, <1>16, <2>1, <2>2, <2>3 DEF Typed
  <1>18. Flow(c)'
    <2>1. Ahead(c)' = <<>>
      <3>1. SubSeq(<<>>, 2, 0) = <<>> /\ <<>> \o <<>> = <<>>
        BY SubSeqEmpty
      <3> QED BY <1>6, <1>10, <1>15, <3>1 DEF Ahead
    <2>2. PICK L : \A o : Labelled(<<>>, L, o)
      BY <1>1, EmptyLabels DEF Typed
    <2>3. Labelled(Ahead(c), L, conn[c] = "up")'
      BY <1>2, <2>1, <2>2, Rigid
    <2>4. Place(c, L[0])'
      BY <1>2, <1>9 DEF Place, Reading, Within, AtBody
    <2>5. Fresh(c, L)'
      BY <1>2, <1>9, <1>11, <2>1 DEF Fresh, Reading, Within
    <2>6. Filed(c, L)'
      BY <1>2, <1>6, <1>9, <1>11, <2>1 DEF Filed, Within
    <2>7. stale'[c] => Pending(c)'
      <3>1. stale'[c] => late'[c]
        BY <1>12, <1>14
      <3> QED BY <1>2, <1>9, <1>10, <1>11, <3>1 DEF Pending
    <2>8. Edges(c)'
      BY <1>2, <1>9, <1>11, <1>15 DEF Edges, Within, Parsing
    <2> QED BY <2>3, <2>4, <2>5, <2>6, <2>7, <2>8 DEF Flow, Streaming, Soiled
  <1>19. ASSUME NEW d \in Conn, d # c PROVE Same(d)
    BY <1>2, <1>10, <1>11, <1>12, <1>13, <1>14, <1>19 DEF Same
  <1>20. ASSUME NEW d \in Conn PROVE Flow(d)' /\ Drawn(d)' /\ Heard(d)'
    <2>1. CASE d = c
      <3>1. ~HasBody(asked[c])
        BY <1>1, <1>2 DEF AskedRight, HasBody, Retried
      <3>2. Drawn(c)'
        BY <1>2, <3>1 DEF Drawn
      <3>3. Heard(c)'
        BY <1>1, <1>2, HeardStay
      <3> QED BY <1>18, <2>1, <3>2, <3>3
    <2>2. CASE d # c
      <3>1. Same(d) /\ Flow(d) /\ Settled
        BY <1>1, <1>19, <2>2 DEF HttpInv
      <3> QED BY <1>2, <3>1, Others
    <2> QED BY <2>1, <2>2
  <1>21. \A d \in Conn : Busy(d)' => Busy(d) /\ ~(Step.do = "parse" /\ Step.on = d)
    BY <1>2 DEF Busy, Parsing
  <1>22. /\ \A d \in Conn : known'[d] \in {{}, {"me"}, {"me", "root"}}
         /\ "root" \in known["main"] => "root" \in known'["main"]
    BY <1>1, <1>2 DEF KnownRight
  <1>23. \/ outcome' = "running" /\ Planned'
         \/ outcome' = "failed" /\ todo' = <<>>
    <2>1. CASE todo' = Tail(todo) /\ outcome' = outcome
      <3>1. Left >= 2 /\ Left # 10
        <4>1. Left >= 3 /\ Left \in Nat
          BY <1>1, <1>2, Kinds, SlotFacts
        <4>2. Left # 10
          BY <1>1, <1>2, <4>1, Kinds
        <4> QED BY <4>1, <4>2
      <3>2. \A d \in Conn : asked'[d] = IF Step.do = "request" /\ Step.on = d
                                          THEN Asking(Step.what, Step.file) ELSE asked[d]
        BY <1>2
      <3>3. asked \in [Conn -> Made]
        BY <1>1 DEF Typed
      <3>4. Planned'
        BY <1>1, <1>21, <1>22, <2>1, <3>1, <3>2, <3>3, AdvancePlan
      <3> QED BY <2>1, <3>4
    <2>2. CASE Failed
      BY <1>1, <1>2, <1>21, <1>22, <2>2, FailedPlan
    <2> QED BY <1>4, <2>1, <2>2
  <1>24. MainAddressed'
    BY <1>23 DEF MainAddressed
  <1> QED BY <1>17, <1>20, <1>23, <1>24 DEF HttpInv, Settled, Alive

LEMMA RequestMade ==
  ASSUME Shape, Step.do = "request"
  PROVE  Asking(Step.what, Step.file) \in Made /\ (Left = 10 => Step.what = "CHECK")
  <1>1. CASE Plainly
    <2>1. OfProgram(Left, Step) \/ Repeated(Left, Step)
      BY <1>1 DEF Plainly
    <2>2. \/ Left = 5 /\ Step = StepOf("request", "main", "REPORT", NoFile)
          \/ Left = 7 /\ Step = StepOf("request", "shadow", "OPTIONS", NoFile)
          \/ Left = 10 /\ Step = StepOf("request", "main", "CHECK", NoFile)
          \/ Left = 12 /\ Step = StepOf("request", "main", "OPTIONS", NoFile)
      BY <2>1 DEF OfProgram, Repeated, StepOf
    <2>3. Step.what \in {"OPTIONS", "CHECK", "REPORT"} /\ Step.file = NoFile
          /\ (Left = 10 => Step.what = "CHECK")
      BY <2>2, StepOfIs
    <2> QED BY <2>3 DEF Made, Opening
  <1>2. CASE ~Plainly
    <2>1. PICK d \in Conn, f \in File : Fetching(d, f)
      BY <1>2 DEF Shape
    <2> DEFINE u == Under(d)
    <2>2. /\ u \in {2, 4} /\ Left \in (u + 1)..(u + 5) /\ Step.file = f
          /\ \A e \in (u + 1)..Left : OfFetch(e - u, d, f, Slot(e))
      BY <2>1 DEF Fetching, Under
    <2> HIDE DEF u
    <2>3. Left \in (u + 1)..Left /\ Left # 10
      BY <2>2
    <2>4. OfFetch(Left - u, d, f, Step)
      BY <2>2, <2>3, SlotFacts
    <2>5. Step.what \in {"PROPFIND", "GET"}
      BY <2>4 DEF OfFetch, StepOf
    <2> QED BY <2>2, <2>3, <2>5 DEF Made, Filing
  <1> QED BY <1>1, <1>2

\* A request is made.
LEMMA SentFlow ==
  ASSUME Typed, NEW c \in Conn, Flow(c), NEW q \in Made, ~Busy(c),
         q.file = NoFile => asked[c].file = NoFile,
         buf'[c] = buf[c], pos'[c] = pos[c], late'[c] = late[c], wire'[c] = wire[c],
         stale'[c] = stale[c], report' = report,
         asked'[c] = q, ctx'[c] = CtxInit, taken'[c] = <<>>, verdict'[c] = "none",
         \/ conn[c] = "up" /\ conn'[c] = "up" /\ toS'[c] = Append(toS[c], q)
         \/ conn[c] = "eof" /\ conn'[c] \in {"eof", "reset"} /\ toS'[c] = toS[c]
  PROVE  Flow(c)'
  <1>1. PICK L : Streaming(c, L)
    BY DEF Flow
  <1>2. Edges(c)
    BY DEF Flow
  <1>3. Labelled(Ahead(c), L, conn[c] = "up") /\ Fresh(c, L) /\ Soiled(c, L)
    BY <1>1 DEF Streaming
  <1>4. ctx[c].state = "OUT" /\ verdict[c] = "none"
    BY DEF Busy, Parsing
  <1>5. ctx'[c].state = "START" /\ ~ctx'[c].chunked /\ ~ctx'[c].within
    BY DEF CtxInit
  <1>6. Ahead(c)' = Ahead(c)
    BY DEF Ahead
  <1>7. toS[c] \in Seq(Made) /\ (conn[c] = "eof" => toS[c] = <<>>)
    BY <1>2 DEF Edges, Typed
  <1>8. Labelled(Ahead(c), L, conn[c] = "up")'
    <2>1. CASE conn'[c] = "up"
      <3>1. (conn[c] = "up")' = TRUE /\ (conn[c] = "up") = TRUE
        BY <2>1
      <3>2. Labelled(Ahead(c), L, TRUE)
        BY <1>3, <3>1
      <3>3. Labelled(Ahead(c), L, TRUE)'
        BY <1>6, <3>2, Rigid
      <3> QED BY <3>1, <3>3
    <2>2. CASE conn'[c] # "up"
      <3>1. (conn[c] = "up")' = FALSE
        BY <2>2
      <3>2. Labelled(Ahead(c), L, FALSE)
        BY <1>3 DEF Labelled
      <3>3. Labelled(Ahead(c), L, FALSE)'
        BY <1>6, <3>2, Rigid
      <3> QED BY <3>1, <3>3
    <2> QED BY <2>1, <2>2
  <1>9. Place(c, L[0])'
    BY <1>5 DEF Place, Reading, Within, AtBody
  <1>10. Fresh(c, L)'
    <2>1. SUFFICES ASSUME ~stale[c] PROVE Fresh(c, L)'
      BY DEF Fresh
    <2>2. Ahead(c) = <<>> /\ toS[c] = <<>>
      BY <1>3, <1>4, <2>1 DEF Fresh
    <2>3. CASE conn[c] = "up"
      <3>1. toS'[c] = <<q>>
        <4>1. Append(<<>>, q) = <<q>>
          OBVIOUS
        <4> QED BY <2>2, <2>3, <4>1
      <3> QED BY <1>5, <1>6, <2>2, <3>1 DEF Fresh, Within, Reading
    <2>4. CASE conn[c] = "eof"
      <3>1. toS'[c] = <<>>
        BY <2>2, <2>4
      <3> DEFINE a == [req |-> q, how |-> "length"]
      <3>2. a \in Answers /\ a.req = q
        BY DEF Answers
      <3>3. Len(Ahead(c)') = 0
        BY <1>6, <2>2
      <3>4. \A i \in 1..Len(Ahead(c)') : L[i] = Spot(a, i)
        BY <3>3
      <3> HIDE DEF a
      <3> QED BY <1>5, <3>1, <3>2, <3>4 DEF Fresh, Within, Reading
    <2> QED BY <2>3, <2>4
  <1>11. ASSUME stale[c], q.file # NoFile PROVE Filed(c, L)'
    <2>1. Filed(c, L)
      <3>1. CASE asked[c].file # NoFile
        BY <1>3, <1>11, <3>1 DEF Soiled
      <3>2. CASE asked[c].file = NoFile
        <4>1. Dead(c) \/ Pending(c)
          BY <1>3, <1>4, <1>11, <3>2 DEF Soiled, Skewed, Reading
        <4>2. Ahead(c) = <<>> /\ toS[c] = <<>>
          <5>1. SubSeq(<<>>, 2, 0) = <<>> /\ Len(<<>>) = 0
            BY SubSeqEmpty
          <5> QED BY <4>1, <5>1 DEF Dead, Pending, Ahead
        <4>3. Len(<<>>) = 0
          OBVIOUS
        <4> QED BY <1>4, <4>2, <4>3 DEF Filed, Within
      <3> QED BY <3>1, <3>2
    <2>2. \A i \in 1..Len(toS'[c]) : toS'[c][i].file # NoFile
      <3>1. CASE toS'[c] = toS[c]
        BY <2>1, <3>1 DEF Filed
      <3>2. CASE toS'[c] = Append(toS[c], q)
        <4> DEFINE s == toS[c]
        <4> DEFINE t == Append(s, q)
        <4>1. s \in Seq(Made) /\ \A i \in 1..Len(s) : s[i].file # NoFile
          BY <1>7, <2>1 DEF Filed
        <4> HIDE DEF s
        <4>2. /\ Len(t) = Len(s) + 1 /\ Len(s) \in Nat
              /\ \A i \in 1..Len(s) : t[i] = s[i]
              /\ t[Len(s) + 1] = q
          BY <4>1, AppendProperties
        <4> HIDE DEF t
        <4>3. ASSUME NEW i \in 1..Len(t) PROVE t[i].file # NoFile
          <5>1. i \in 1..Len(s) \/ i = Len(s) + 1
            BY <4>2
          <5> QED BY <1>11, <4>1, <4>2, <5>1
        <4>4. toS'[c] = t
          BY <3>2 DEF s, t
        <4> QED BY <4>3, <4>4
      <3> QED BY <3>1, <3>2
    <2> QED BY <1>5, <1>6, <2>1, <2>2 DEF Filed, Within
  <1>12. ASSUME stale[c], q.file = NoFile PROVE Dead(c)' \/ Skewed(c, L)'
    <2>1. Dead(c) \/ Pending(c)
      BY <1>3, <1>4, <1>12 DEF Soiled, Skewed, Reading
    <2>2. CASE Dead(c)
      BY <1>5, <1>6, <2>2 DEF Dead
    <2>3. CASE Pending(c)
      BY <1>5, <2>3 DEF Pending, Skewed
    <2> QED BY <2>1, <2>2, <2>3
  <1>13. Soiled(c, L)'
    BY <1>11, <1>12 DEF Soiled
  <1>14. Edges(c)'
    <2>1. conn'[c] \in {"eof", "reset"} => toS'[c] = <<>>
      BY <1>7
    <2> QED BY <1>2, <1>5, <2>1 DEF Edges, Within, Parsing
  <1> QED BY <1>8, <1>9, <1>10, <1>13, <1>14 DEF Flow, Streaming

\* Nothing is taken of the answer that is to come.
LEMMA SentDrawn ==
  ASSUME ReportTyped, report' = report, NEW c \in Conn, NEW q \in Made,
         asked'[c] = q, taken'[c] = <<>>, verdict'[c] = "none"
  PROVE  Drawn(c)' /\ Heard(c)'
  <1>1. Drawn(c)'
    <2>1. SUFFICES ASSUME HasBody(q) PROVE Drawn(c)'
      BY DEF Drawn, HasBody
    <2> DEFINE a == [req |-> q, how |-> "length"]
    <2>2. a \in Answers /\ a.req = q /\ ~Refused(a) /\ q.what # "OPTIONS"
      BY <2>1 DEF Answers, Refused, HasBody
    <2> HIDE DEF a
    <2>3. BodyOf(a)' = BodyOf(a)
      BY Rigid
    <2>4. BodyOf(a) \in Seq(Inner)
      BY <2>2, BodyTyped
    <2>5. SubSeq(BodyOf(a), 1, 0) = <<>> /\ Len(BodyOf(a)) \in Nat /\ 0 <= Len(BodyOf(a)) /\ 0 \in Nat
      <3>1. SubSeq(BodyOf(a), 1, 0) = <<>>
        BY <2>4, SubSeqEmpty
      <3> QED BY <2>4, <3>1
    <2>6. /\ 0 <= Len(BodyOf(a)') /\ taken'[c] = SubSeq(BodyOf(a)', 1, 0)
      BY <2>3, <2>5
    <2>7. \E m \in Nat : /\ m <= Len(BodyOf(a)') /\ taken'[c] = SubSeq(BodyOf(a)', 1, m)
                         /\ ~Refused(a) /\ a.req.what # "OPTIONS"
                         /\ ~stale'[c] \/ asked'[c].file = NoFile => a.req = asked'[c]
                         /\ verdict'[c] = "done" /\ conn'[c] = "up" => m = Len(BodyOf(a)')
      BY <2>2, <2>5, <2>6
    <2>8. Refused(a)' = Refused(a)
      BY DEF Refused
    <2> QED BY <2>2, <2>7, <2>8 DEF Drawn
  <1>2. Heard(c)'
    <2>1. Len(<<>>) = 0 /\ 0 \in 0..2
      OBVIOUS
    <2>2. Told(c, 0)'
      BY <2>1 DEF Told
    <2> QED BY <2>1, <2>2 DEF Heard
  <1> QED BY <1>1, <1>2

LEMMA CtxTyped ==
  CtxInit \in Ctx /\ CtxOut \in Ctx
  BY DEF CtxInit, CtxOut, Ctx, States

LEMMA SendKeeps ==
  ASSUME HttpInv, outcome = "running", NEW c \in Conn, Send(c)
  PROVE  HttpInv'
  <1>1. /\ Typed /\ Planned /\ \A d \in Conn : Flow(d) /\ Drawn(d) /\ Heard(d)
        /\ Shape /\ AskedRight /\ BusyRight /\ KnownRight /\ AgainRight
        /\ todo # <<>> /\ Step.on \in Conn /\ Step.file \in File \cup {NoFile}
    BY Underway
  <1>2. /\ Step.do = "request" /\ Step.on = c /\ AddressedBy(Step.what) \subseteq known[c]
        /\ wire' = wire /\ buf' = buf /\ pos' = pos /\ late' = late
        /\ stale' = stale /\ bitty' = bitty /\ known' = known /\ edited' = edited /\ bad' = bad
        /\ report' = report /\ cuts' = cuts /\ refusals' = refusals
    BY DEF Send, At, stream
  <1> DEFINE q == Asking(Step.what, Step.file)
  <1>3. q \in Made /\ (Left = 10 => Step.what = "CHECK")
    BY <1>1, <1>2, RequestMade
  <1>4. ~Busy(c)
    BY <1>1, <1>2 DEF BusyRight
  <1>5. /\ \A d \in Conn : known'[d] \in {{}, {"me"}, {"me", "root"}}
        /\ "root" \in known["main"] => "root" \in known'["main"]
    BY <1>1, <1>2 DEF KnownRight
  <1>6. /\ asked \in [Conn -> Made] /\ ctx \in [Conn -> Ctx] /\ taken \in [Conn -> Seq(Symbol)]
        /\ verdict \in [Conn -> {"none", "done", "empty", "error"}]
        /\ toS \in [Conn -> Seq(Made)] /\ conn \in [Conn -> {"none", "up", "eof", "reset"}]
        /\ StreamTyped /\ ReportTyped
    BY <1>1 DEF Typed
  <1>7. StreamTyped' /\ ReportTyped'
    BY <1>2, <1>6 DEF StreamTyped, ReportTyped
  <1>8. CASE /\ Deliver(c) /\ Advance
             /\ Set(asked, c, Asking(Step.what, Step.file))
             /\ Set(ctx, c, CtxInit) /\ Set(taken, c, <<>>) /\ Set(verdict, c, "none")
             /\ got' = got
    <2>p. PICK p : p = q
      OBVIOUS
    <2>1. /\ todo' = Tail(todo) /\ outcome' = outcome /\ got' = got
          /\ asked' = [asked EXCEPT ![c] = p] /\ ctx' = [ctx EXCEPT ![c] = CtxInit]
          /\ taken' = [taken EXCEPT ![c] = <<>>] /\ verdict' = [verdict EXCEPT ![c] = "none"]
          /\ p \in Made
      BY <1>3, <1>8, <2>p DEF Advance, Set
    <2>2. \/ conn[c] = "up" /\ conn' = conn /\ toS' = [toS EXCEPT ![c] = Append(toS[c], p)]
          \/ /\ conn[c] = "eof" /\ toS' = toS
             /\ \E to \in {"eof", "reset"} : conn' = [conn EXCEPT ![c] = to]
      BY <1>8, <2>p DEF Deliver
    <2>3. /\ asked'[c] = p /\ asked' \in [Conn -> Made] /\ \A d \in Conn \ {c} : asked'[d] = asked[d]
      BY <1>6, <2>1, SetAt
    <2>4. /\ ctx'[c] = CtxInit /\ ctx' \in [Conn -> Ctx] /\ \A d \in Conn \ {c} : ctx'[d] = ctx[d]
      BY <1>6, <2>1, SetAt, CtxTyped
    <2>5. /\ taken'[c] = <<>> /\ taken' \in [Conn -> Seq(Symbol)]
          /\ \A d \in Conn \ {c} : taken'[d] = taken[d]
      <3>1. <<>> \in Seq(Symbol)
        OBVIOUS
      <3> QED BY <1>6, <2>1, <3>1, SetAt
    <2>6. /\ verdict'[c] = "none" /\ verdict' \in [Conn -> {"none", "done", "empty", "error"}]
          /\ \A d \in Conn \ {c} : verdict'[d] = verdict[d]
      BY <1>6, <2>1
    <2>7. /\ toS' \in [Conn -> Seq(Made)] /\ \A d \in Conn \ {c} : toS'[d] = toS[d]
          /\ conn' \in [Conn -> {"none", "up", "eof", "reset"}]
          /\ \A d \in Conn \ {c} : conn'[d] = conn[d]
          /\ \/ conn[c] = "up" /\ conn'[c] = "up" /\ toS'[c] = Append(toS[c], p)
             \/ conn[c] = "eof" /\ conn'[c] \in {"eof", "reset"} /\ toS'[c] = toS[c]
      <3>1. CASE conn[c] = "up" /\ conn' = conn /\ toS' = [toS EXCEPT ![c] = Append(toS[c], p)]
        <4>1. toS[c] \in Seq(Made)
          BY <1>6
        <4>2. Append(toS[c], p) \in Seq(Made)
          BY <2>1, <4>1, AppendProperties
        <4> DEFINE t == Append(toS[c], p)
        <4> HIDE DEF t
        <4>3. t \in Seq(Made) /\ toS' = [toS EXCEPT ![c] = t]
          BY <3>1, <4>2 DEF t
        <4>4. toS'[c] = t /\ toS' \in [Conn -> Seq(Made)] /\ \A d \in Conn \ {c} : toS'[d] = toS[d]
          BY <1>6, <4>3, SetAt
        <4>5. toS'[c] = Append(toS[c], p)
          BY <4>4 DEF t
        <4> QED BY <1>6, <3>1, <4>4, <4>5
      <3>2. CASE /\ conn[c] = "eof" /\ toS' = toS
                 /\ \E to \in {"eof", "reset"} : conn' = [conn EXCEPT ![c] = to]
        <4>1. PICK to \in {"eof", "reset"} : conn' = [conn EXCEPT ![c] = to]
          BY <3>2
        <4>2. conn'[c] = to /\ conn' \in [Conn -> {"none", "up", "eof", "reset"}]
              /\ \A d \in Conn \ {c} : conn'[d] = conn[d]
          BY <1>6, <4>1, SetAt
        <4> QED BY <1>6, <3>2, <4>1, <4>2
      <3> QED BY <2>2, <3>1, <3>2
    <2>8. p.file = NoFile => asked[c].file = NoFile
      <3>1. p.file = Step.file
        BY <2>p DEF Asking
      <3>2. SUFFICES ASSUME Step.file = NoFile PROVE asked[c].file = NoFile
        BY <3>1
      <3>3. Left \in {5, 7, 10, 12}
        BY <1>1, <1>2, <3>2, Kinds
      <3>4. asked["shadow"] = Asking("OPTIONS", NoFile) /\ asked["main"].file = NoFile
        BY <1>1, <3>2, <3>3 DEF AskedRight
      <3>5. c = "main" \/ c = "shadow"
        BY DEF Conn
      <3> QED BY <3>4, <3>5 DEF Asking
    <2>9. Flow(c)'
      BY <1>1, <1>2, <1>4, <2>1, <2>3, <2>4, <2>5, <2>6, <2>7, <2>8, SentFlow
    <2>10. Drawn(c)' /\ Heard(c)'
      BY <1>2, <1>6, <2>1, <2>3, <2>5, <2>6, SentDrawn
    <2>11. Typed'
      BY <1>1, <1>2, <1>7, <2>1, <2>3, <2>4, <2>5, <2>6, <2>7 DEF Typed
    <2>12. ASSUME NEW d \in Conn PROVE Flow(d)' /\ Drawn(d)' /\ Heard(d)'
      <3>1. CASE d = c
        BY <2>9, <2>10, <3>1
      <3>2. CASE d # c
        <4>1. Same(d)
          BY <1>2, <2>3, <2>4, <2>5, <2>6, <2>7, <3>2 DEF Same
        <4>2. Flow(d) /\ Settled
          BY <1>1 DEF HttpInv
        <4> QED BY <1>2, <4>1, <4>2, Others
      <3> QED BY <3>1, <3>2
    <2>13. Planned'
      <3>1. Left >= 2
        BY <1>1, <1>2, Kinds, SlotFacts
      <3>2. ASSUME NEW d \in Conn
            PROVE  asked'[d] = IF Step.do = "request" /\ Step.on = d
                                 THEN Asking(Step.what, Step.file) ELSE asked[d]
        BY <1>2, <2>3, <2>p
      <3>3. ASSUME NEW d \in Conn, Busy(d)'
            PROVE  (Busy(d) /\ ~(Step.do = "parse" /\ Step.on = d)) \/ (Step.do = "request" /\ Step.on = d)
        <4>1. CASE d = c
          BY <1>2, <4>1
        <4>2. CASE d # c
          <5>1. ctx'[d] = ctx[d] /\ verdict'[d] = verdict[d]
            BY <2>4, <2>6, <4>2
          <5> QED BY <1>2, <3>3, <5>1 DEF Busy, Parsing
        <4> QED BY <4>1, <4>2
      <3>4. Left = 10 => "root" \in known["main"]
        <4>1. SUFFICES ASSUME Left = 10 PROVE "root" \in known["main"]
          OBVIOUS
        <4>2. Step.what = "CHECK" /\ "root" \in known[c]
          BY <1>2, <1>3, <4>1 DEF AddressedBy
        <4>3. known[c] \in {{}, {"me"}, {"me", "root"}}
          BY <1>1 DEF KnownRight
        <4>4. c = "main"
          <5>1. Step.file = NoFile
            BY <1>1, <4>1, Kinds
          <5>2. Plainly
            BY <1>1, <5>1, Kinds
          <5>3. OfProgram(10, Step) \/ Repeated(10, Step)
            BY <4>1, <5>2 DEF Plainly
          <5>4. Step = StepOf("request", "main", "CHECK", NoFile)
            BY <5>3 DEF OfProgram, Repeated
          <5> QED BY <1>2, <5>4, StepOfIs
        <4> QED BY <4>2, <4>4
      <3> QED BY <1>1, <1>2, <1>5, <1>6, <2>1, <3>1, <3>2, <3>3, <3>4, AdvancePlan
    <2>14. MainAddressed'
      BY <2>1 DEF MainAddressed
    <2> QED BY <2>1, <2>11, <2>12, <2>13, <2>14 DEF HttpInv, Settled, Alive
  <1>9. CASE /\ Failed /\ Fetched(Step.file, "lost")
             /\ UNCHANGED <<conn, toS, asked, ctx, taken, verdict>>
    <2>1. \A d \in Conn : Same(d)
      BY <1>2, <1>9 DEF Same
    <2>2. \A d \in Conn : Flow(d)' /\ Drawn(d)' /\ Heard(d)'
      <3>1. Settled
        BY DEF HttpInv
      <3> QED BY <1>1, <1>2, <2>1, <3>1, Others
    <2>3. Typed'
      <3>1. got' \in [File -> {"none", "whole", "part", "lost"}]
        BY <1>1, <1>9, FetchedTyped
      <3> QED BY <1>1, <1>2, <1>7, <1>9, <3>1 DEF Typed
    <2>4. \A d \in Conn : Busy(d)' => Busy(d) /\ ~(Step.do = "parse" /\ Step.on = d)
      BY <1>2, <1>9 DEF Busy, Parsing
    <2>5. \/ outcome' = "running" /\ Planned'
          \/ outcome' = "failed" /\ todo' = <<>>
      BY <1>1, <1>5, <1>9, <2>4, FailedPlan
    <2>6. MainAddressed'
      BY <2>5 DEF MainAddressed
    <2> QED BY <2>2, <2>3, <2>5, <2>6 DEF HttpInv, Settled, Alive
  <1> QED BY <1>8, <1>9 DEF Send

\* Nothing of a connection changes.
LEMMA AllSame ==
  ASSUME HttpInv, outcome = "running", parseVars' = parseVars, toS' = toS, report' = report
  PROVE  \A d \in Conn : Flow(d)' /\ Drawn(d)' /\ Heard(d)'
  <1>1. \A d \in Conn : Same(d)
    BY DEF parseVars, stream, Same
  <1>2. Settled /\ \A d \in Conn : Flow(d)
    BY Underway DEF HttpInv
  <1> QED BY <1>1, <1>2, Others

LEMMA SameTyped ==
  ASSUME Typed, parseVars' = parseVars, toS' = toS, report' = report, known' = known,
         cuts' = cuts, refusals' = refusals, edited' \in 0..(Len(report) + 1), bad' \subseteq File,
         got' = got
  PROVE  Typed'
  <1>1. StreamTyped' /\ ReportTyped'
    BY DEF Typed, StreamTyped, ReportTyped, parseVars, stream
  <1> QED BY <1>1 DEF Typed, parseVars, stream

LEMMA UnaddressedKeeps ==
  ASSUME HttpInv, outcome = "running", NEW c \in Conn, SendUnaddressed(c)
  PROVE  HttpInv'
  <1>1. /\ Typed /\ Planned /\ Shape /\ KnownRight
        /\ todo # <<>> /\ Step.on \in Conn /\ Step.file \in File \cup {NoFile}
    BY Underway
  <1>2. /\ Step.do = "request" /\ Step.on = c /\ ~(AddressedBy(Step.what) \subseteq known[c])
        /\ parseVars' = parseVars /\ known' = known /\ edited' = edited /\ bad' = bad /\ got' = got
        /\ report' = report /\ toS' = toS /\ cuts' = cuts /\ refusals' = refusals
    BY DEF SendUnaddressed, At, server
  <1>3. Typed'
    BY <1>1, <1>2, SameTyped DEF Typed
  <1>4. \A d \in Conn : Flow(d)' /\ Drawn(d)' /\ Heard(d)'
    BY <1>2, AllSame
  <1>5. CASE Step.what = "CHECK"
    <2>1. Failed /\ asked' = asked /\ ctx' = ctx /\ verdict' = verdict
      BY <1>2, <1>5 DEF SendUnaddressed, parseVars
    <2>2. \A d \in Conn : Busy(d)' => Busy(d) /\ ~(Step.do = "parse" /\ Step.on = d)
      BY <1>2, <2>1 DEF Busy, Parsing
    <2>3. /\ \A d \in Conn : known'[d] \in {{}, {"me"}, {"me", "root"}}
          /\ "root" \in known["main"] => "root" \in known'["main"]
      BY <1>1, <1>2 DEF KnownRight
    <2>4. \/ outcome' = "running" /\ Planned'
          \/ outcome' = "failed" /\ todo' = <<>>
      BY <1>1, <2>1, <2>2, <2>3, FailedPlan
    <2>5. MainAddressed'
      BY <2>4 DEF MainAddressed
    <2> QED BY <1>3, <1>4, <2>4, <2>5 DEF HttpInv, Settled, Alive
  <1>6. CASE Step.what # "CHECK"
    <2>1. todo' = <<>> /\ outcome' = "crashed"
      BY <1>6 DEF SendUnaddressed
    <2>2. Left <= 9 \/ Left = 12
      <3>1. CASE Step.file # NoFile
        BY <1>1, <3>1, Kinds
      <3>2. CASE Step.file = NoFile
        <4>1. Left \in {5, 7, 10, 12}
          BY <1>1, <1>2, <3>2, Kinds
        <4>2. Left # 10
          BY <1>1, <1>2, <1>6, RequestMade
        <4> QED BY <4>1, <4>2
      <3> QED BY <3>1, <3>2
    <2>3. Left # 12
      <3>1. SUFFICES ASSUME Left = 12 PROVE FALSE
        OBVIOUS
      <3>2. Plainly
        BY <1>1, <3>1, Kinds
      <3>3. Step = StepOf("request", "main", "OPTIONS", NoFile)
        BY <3>1, <3>2 DEF Plainly, OfProgram, Repeated
      <3>4. Step.what = "OPTIONS"
        BY <3>3, StepOfIs
      <3> QED BY <1>2, <3>4 DEF AddressedBy
    <2>4. known["main"] = {"me", "root"}
      BY <1>1, <2>2, <2>3 DEF KnownRight, Conn
    <2>5. MainAddressed'
      BY <1>2, <2>4 DEF MainAddressed
    <2> QED BY <1>3, <1>4, <2>1, <2>5 DEF HttpInv, Settled
  <1> QED BY <1>5, <1>6

LEMMA EditKeeps ==
  ASSUME HttpInv, outcome = "running", EditCommand
  PROVE  HttpInv'
  <1>1. /\ Typed /\ Planned /\ Shape /\ AskedRight /\ todo # <<>>
        /\ \A d \in Conn : Drawn(d)
    BY Underway
  <1>2. /\ Step.do = "parse" /\ Step.on = "main" /\ Step.what = "REPORT"
        /\ edited < Len(taken["main"]) /\ edited' = edited + 1
        /\ parseVars' = parseVars /\ outcome' = outcome /\ known' = known /\ bad' = bad /\ got' = got
        /\ report' = report /\ toS' = toS /\ cuts' = cuts /\ refusals' = refusals
    BY DEF EditCommand, At, server
  <1>3. \/ todo' = todo
        \/ edited < Len(report) /\ todo' = GetFile("shadow", report[edited + 1]) \o todo
    BY DEF EditCommand
  <1>4. asked["main"].what = "REPORT" /\ asked["main"].file = NoFile
    <2>1. asked["main"] = Asking("REPORT", Step.file)
      BY <1>1, <1>2 DEF AskedRight
    <2>2. asked["main"] \in Made
      BY <1>1 DEF Typed, Conn
    <2>3. asked["main"].what = "REPORT"
      BY <2>1 DEF Asking
    <2> QED BY <2>2, <2>3, MadeFacts
  <1>5. edited \in Nat /\ edited <= Len(report) /\ report \in Seq(File) /\ Len(report) \in Nat
    <2>1. PICK a \in Answers, m \in Nat :
            /\ m <= Len(BodyOf(a)) /\ taken["main"] = SubSeq(BodyOf(a), 1, m)
            /\ ~Refused(a) /\ a.req = asked["main"]
      BY <1>1, <1>4 DEF Drawn, HasBody, Conn
    <2>2. report \in Seq(File) /\ Len(report) \in Nat /\ edited \in Nat
      BY <1>1 DEF Typed, ReportTyped
    <2>3. BodyOf(a) \in Seq(Inner) /\ Len(BodyOf(a)) = Len(report) + 1
      BY <1>1, <1>4, <2>1, BodyTyped DEF Typed
    <2>4. Len(SubSeq(BodyOf(a), 1, m)) = m
      <3>1. 1 \in Nat \ {0} /\ m <= Len(BodyOf(a)) /\ 1 <= m + 1 /\ BodyOf(a) \in Seq(Inner)
        BY <2>1, <2>3
      <3>2. Len(SubSeq(BodyOf(a), 1, m)) = m + 1 - 1
        BY <3>1, Between
      <3> QED BY <3>2
    <2>5. Len(taken["main"]) = m
      BY <2>1, <2>4
    <2> QED BY <1>2, <2>1, <2>2, <2>3, <2>5
  <1>6. Typed'
    <2>1. edited' \in 0..(Len(report) + 1)
      BY <1>2, <1>5
    <2>2. bad' \subseteq File
      BY <1>1, <1>2 DEF Typed
    <2> QED BY <1>1, <1>2, <2>1, <2>2, SameTyped
  <1>7. \A d \in Conn : Flow(d)' /\ Drawn(d)' /\ Heard(d)'
    BY <1>2, AllSame
  <1>8. asked' = asked /\ ctx' = ctx /\ verdict' = verdict /\ buf' = buf
    BY <1>2 DEF parseVars, stream
  <1>9. Planned'
    <2>1. CASE todo' = todo
      BY <1>1, <1>2, <1>8, <2>1, ServerPlan
    <2>2. CASE edited < Len(report) /\ todo' = GetFile("shadow", report[edited + 1]) \o todo
      <3>f. PICK f : f = report[edited + 1]
        OBVIOUS
      <3>1. f \in File
        <4>1. edited + 1 \in 1..Len(report)
          BY <1>5, <2>2
        <4> QED BY <1>5, <4>1, <3>f
      <3>2. todo' = GetFile("shadow", f) \o todo
        BY <2>2, <3>f
      <3> QED BY <1>1, <1>2, <1>8, <3>1, <3>2, EditPlan
    <2> QED BY <1>3, <2>1, <2>2
  <1>10. MainAddressed'
    BY <1>2 DEF MainAddressed
  <1> QED BY <1>2, <1>6, <1>7, <1>9, <1>10 DEF HttpInv, Settled, Alive

LEMMA CloseKeeps ==
  ASSUME HttpInv, outcome = "running", CloseShadow
  PROVE  HttpInv'
  <1>1. /\ Typed /\ Planned /\ Shape /\ KnownRight /\ todo # <<>>
        /\ \A d \in Conn : Flow(d) /\ Drawn(d) /\ Heard(d)
    BY Underway
  <1>2. /\ Step.do = "close" /\ conn' = [conn EXCEPT !["shadow"] = "none"]
        /\ todo' = Tail(todo) /\ outcome' = outcome
        /\ wire' = wire /\ buf' = buf /\ pos' = pos /\ late' = late /\ ctx' = ctx /\ asked' = asked
        /\ taken' = taken /\ verdict' = verdict /\ stale' = stale /\ bitty' = bitty /\ known' = known
        /\ edited' = edited /\ bad' = bad /\ got' = got
        /\ report' = report /\ toS' = toS /\ cuts' = cuts /\ refusals' = refusals
    BY DEF CloseShadow, At, Advance, stream, server
  <1>3. /\ conn'["shadow"] = "none" /\ conn' \in [Conn -> {"none", "up", "eof", "reset"}]
        /\ \A d \in Conn \ {"shadow"} : conn'[d] = conn[d]
    <2>1. conn \in [Conn -> {"none", "up", "eof", "reset"}] /\ "shadow" \in Conn
      BY <1>1 DEF Typed, Conn
    <2> QED BY <1>2, <2>1, SetAt
  <1>4. Typed'
    <2>1. StreamTyped' /\ ReportTyped'
      BY <1>1, <1>2 DEF Typed, StreamTyped, ReportTyped
    <2> QED BY <1>1, <1>2, <1>3, <2>1 DEF Typed
  <1>5. ASSUME NEW d \in Conn PROVE Flow(d)' /\ Drawn(d)' /\ Heard(d)'
    <2>1. Still(d) /\ conn'[d] \in {conn[d], "none"}
      BY <1>2, <1>3 DEF Still
    <2>2. Drawn(d)' /\ Heard(d)'
      BY <1>2, <2>1, StillDrawn DEF HttpInv
    <2>3. CASE conn'[d] = "none"
      BY <1>1, <1>2, <2>1, <2>2, <2>3, EndFlow
    <2>4. CASE conn'[d] # "none"
      <3>1. Same(d)
        BY <1>2, <2>1, <2>4 DEF Same
      <3> QED BY <1>1, <1>2, <2>2, <3>1, Others DEF HttpInv
    <2> QED BY <2>3, <2>4
  <1>6. Planned'
    <2>1. Left = 3
      BY <1>1, <1>2, Kinds
    <2>2. \A d \in Conn : asked'[d] = IF Step.do = "request" /\ Step.on = d
                                        THEN Asking(Step.what, Step.file) ELSE asked[d]
      BY <1>2
    <2>3. asked \in [Conn -> Made]
      BY <1>1 DEF Typed
    <2>4. ASSUME NEW d \in Conn, Busy(d)'
          PROVE  (Busy(d) /\ ~(Step.do = "parse" /\ Step.on = d)) \/ (Step.do = "request" /\ Step.on = d)
      BY <1>2, <2>4 DEF Busy, Parsing
    <2>5. /\ \A d \in Conn : known'[d] \in {{}, {"me"}, {"me", "root"}}
          /\ "root" \in known["main"] => "root" \in known'["main"]
      BY <1>1, <1>2 DEF KnownRight
    <2>6. Left >= 2 /\ Left # 10
      BY <2>1
    <2> QED BY <1>1, <1>2, <2>2, <2>3, <2>4, <2>5, <2>6, AdvancePlan
  <1>7. MainAddressed'
    BY <1>2 DEF MainAddressed
  <1> QED BY <1>2, <1>4, <1>5, <1>6, <1>7 DEF HttpInv, Settled, Alive

LEMMA RepairKeeps ==
  ASSUME HttpInv, outcome = "running", RepairStep
  PROVE  HttpInv'
  <1>1. /\ Typed /\ Planned /\ Shape /\ KnownRight /\ todo # <<>>
    BY Underway
  <1>2. /\ Step.do = "repair" /\ outcome' = outcome
        /\ parseVars' = parseVars /\ known' = known /\ edited' = edited /\ got' = got
        /\ report' = report /\ toS' = toS /\ cuts' = cuts /\ refusals' = refusals
    BY DEF RepairStep, At, Advance, server
  <1>3. \/ \E f \in bad : bad' = bad \ {f} /\ todo' = GetFile("main", f) \o Repair("busy")
        \/ bad' = bad /\ todo' = Tail(todo)
    BY DEF RepairStep, Advance
  <1>4. Typed'
    <2>1. bad' \subseteq File /\ edited' \in 0..(Len(report) + 1)
      BY <1>1, <1>2, <1>3 DEF Typed
    <2> QED BY <1>1, <1>2, <2>1, SameTyped
  <1>5. \A d \in Conn : Flow(d)' /\ Drawn(d)' /\ Heard(d)'
    BY <1>2, AllSame
  <1>6. asked' = asked /\ ctx' = ctx /\ verdict' = verdict /\ buf' = buf
    BY <1>2 DEF parseVars, stream
  <1>7. Planned'
    <2>1. CASE \E f \in bad : bad' = bad \ {f} /\ todo' = GetFile("main", f) \o Repair("busy")
      <3>1. PICK f \in bad : todo' = GetFile("main", f) \o Repair("busy")
        BY <2>1
      <3>2. f \in File
        BY <1>1 DEF Typed
      <3> QED BY <1>1, <1>2, <1>6, <3>1, <3>2, RepairPlan
    <2>2. CASE todo' = Tail(todo)
      <3>1. Left = 2
        BY <1>1, <1>2, Kinds
      <3>2. \A d \in Conn : asked'[d] = IF Step.do = "request" /\ Step.on = d
                                          THEN Asking(Step.what, Step.file) ELSE asked[d]
        BY <1>2, <1>6
      <3>3. asked \in [Conn -> Made]
        BY <1>1 DEF Typed
      <3>4. ASSUME NEW d \in Conn, Busy(d)'
            PROVE  (Busy(d) /\ ~(Step.do = "parse" /\ Step.on = d)) \/ (Step.do = "request" /\ Step.on = d)
        BY <1>2, <1>6, <3>4 DEF Busy, Parsing
      <3>5. /\ \A d \in Conn : known'[d] \in {{}, {"me"}, {"me", "root"}}
            /\ "root" \in known["main"] => "root" \in known'["main"]
        BY <1>1, <1>2 DEF KnownRight
      <3>6. Left >= 2 /\ Left # 10
        BY <3>1
      <3> QED BY <1>1, <2>2, <3>2, <3>3, <3>4, <3>5, <3>6, AdvancePlan
    <2> QED BY <1>3, <2>1, <2>2
  <1>8. MainAddressed'
    BY <1>2 DEF MainAddressed
  <1> QED BY <1>2, <1>4, <1>5, <1>7, <1>8 DEF HttpInv, Settled, Alive

LEMMA SaveKeeps ==
  ASSUME HttpInv, outcome = "running", Save
  PROVE  HttpInv'
  <1>1. Typed
    BY Underway
  <1>2. /\ parseVars' = parseVars /\ known' = known /\ edited' = edited /\ got' = got /\ bad' = bad
        /\ report' = report /\ toS' = toS /\ cuts' = cuts /\ refusals' = refusals
        /\ todo' = <<>> /\ outcome' = "recorded"
    BY DEF Save, server
  <1>3. Typed'
    BY <1>1, <1>2, SameTyped DEF Typed
  <1>4. \A d \in Conn : Drawn(d)' /\ Heard(d)'
    BY <1>2, AllSame
  <1> QED BY <1>2, <1>3, <1>4 DEF HttpInv, Settled, MainAddressed

\* What OPTIONS was told, as far as it came.
LEMMA ToldNames ==
  ASSUME NEW c \in Conn, taken[c] \in Seq(Symbol), Heard(c), asked[c].what = "OPTIONS"
  PROVE  {h.is : h \in Range(taken[c])} \in {{}, {"me"}, {"me", "root"}}
  <1>1. PICK n \in 0..2 : Told(c, n)
    BY DEF Heard
  <1>2. PICK t : t = taken[c]
    OBVIOUS
  <1>3. /\ Len(t) = n /\ t \in Seq(Symbol)
        /\ n >= 1 => t[1].is = "me"
        /\ n >= 2 => t[2].is = "root"
    BY <1>1, <1>2 DEF Told
  <1>4. Range(t) = {t[i] : i \in DOMAIN t} /\ DOMAIN t = 1..n
    BY <1>3 DEF Range
  <1>5. PICK s : s = {h.is : h \in Range(t)}
    OBVIOUS
  <1>6. s = {t[i].is : i \in 1..n}
    BY <1>4, <1>5
  <1>7. n = 0 \/ n = 1 \/ n = 2
    OBVIOUS
  <1>8. s \in {{}, {"me"}, {"me", "root"}}
    <2>1. CASE n = 0
      <3>1. s = {}
        BY <1>6, <2>1
      <3> QED BY <3>1
    <2>2. CASE n = 1
      <3>1. s = {"me"}
        BY <1>3, <1>6, <2>2
      <3> QED BY <3>1
    <2>3. CASE n = 2
      <3>1. 1..n = {1, 2}
        BY <2>3
      <3>2. s = {"me", "root"}
        BY <1>3, <1>6, <2>3, <3>1
      <3> QED BY <3>2
    <2> QED BY <1>7, <2>1, <2>2, <2>3
  <1> QED BY <1>2, <1>5, <1>8

\* http_parse_response has returned.
LEMMA ReturnedFlow ==
  ASSUME Typed, NEW c \in Conn, Flow(c), verdict[c] # "none", verdict'[c] = "none",
         asked[c].file = NoFile => verdict[c] # "error",
         conn'[c] = conn[c], wire'[c] = wire[c], buf'[c] = buf[c], pos'[c] = pos[c],
         late'[c] = late[c], ctx'[c] = ctx[c], asked'[c] = asked[c], taken'[c] = taken[c],
         stale'[c] = stale[c], toS'[c] = toS[c], report' = report
  PROVE  Flow(c)'
  <1>1. PICK L : Streaming(c, L)
    BY DEF Flow
  <1>2. Edges(c)
    BY DEF Flow
  <1>3. Ahead(c)' = Ahead(c)
    BY DEF Ahead
  <1>4. /\ Labelled(Ahead(c), L, conn[c] = "up") /\ Place(c, L[0]) /\ Fresh(c, L) /\ Soiled(c, L)
    BY <1>1 DEF Streaming
  <1>5. Labelled(Ahead(c), L, conn[c] = "up")'
    BY <1>3, <1>4, Rigid
  <1>6. ctx[c].state = "OUT"
    BY <1>2 DEF Edges, Parsing
  <1>7. Place(c, L[0])'
    BY <1>6 DEF Place, Reading, Within, AtBody
  <1>8. Fresh(c, L)'
    BY <1>3, <1>4 DEF Fresh, Reading, Within
  <1>9. Soiled(c, L)'
    <2>1. Filed(c, L) => Filed(c, L)'
      BY <1>3 DEF Filed, Within
    <2>2. (Dead(c) => Dead(c)') /\ (Pending(c) => Pending(c)') /\ (Skewed(c, L) => Skewed(c, L)')
      BY <1>3 DEF Dead, Pending, Skewed, Reading
    <2> QED BY <1>4, <2>1, <2>2 DEF Soiled
  <1>10. Edges(c)'
    BY <1>2 DEF Edges, Within, Parsing
  <1> QED BY <1>5, <1>7, <1>8, <1>9, <1>10 DEF Flow, Streaming

LEMMA ReturnedKeeps ==
  ASSUME HttpInv, outcome = "running", NEW c \in Conn, Returned(c)
  PROVE  HttpInv'
  <1>1. /\ Typed /\ Planned /\ \A d \in Conn : Flow(d) /\ Drawn(d) /\ Heard(d)
        /\ Shape /\ AskedRight /\ BusyRight /\ KnownRight /\ AgainRight
        /\ todo # <<>> /\ Step.on \in Conn /\ Step.file \in File \cup {NoFile}
    BY Underway
  <1> DEFINE more == IF Step.what = "OPTIONS" THEN {h.is : h \in Range(taken[c])} ELSE {}
  <1>2. /\ Step.do = "parse" /\ Step.on = c /\ verdict[c] # "none"
        /\ verdict' = [verdict EXCEPT ![c] = "none"]
        /\ known' = [known EXCEPT ![c] = known[c] \cup more]
        /\ conn' = conn /\ wire' = wire /\ buf' = buf /\ pos' = pos /\ late' = late
        /\ ctx' = ctx /\ asked' = asked /\ taken' = taken /\ stale' = stale /\ bitty' = bitty
        /\ edited' = edited /\ bad' = bad
        /\ report' = report /\ toS' = toS /\ cuts' = cuts /\ refusals' = refusals
    BY DEF Returned, At, Set, stream, server
  <1>3. \/ /\ verdict[c] = "done" /\ todo' = Tail(todo) /\ outcome' = outcome
           /\ got' = got \/ Fetched(Step.file, Contents(c))
        \/ /\ verdict[c] = "empty" /\ Step.what \in Retried
           /\ todo' = Again(c) \o Tail(todo) /\ outcome' = outcome /\ got' = got
        \/ /\ verdict[c] \in {"error", "empty"} /\ Failed /\ Fetched(Step.file, "lost")
    BY DEF Returned, Advance
  <1>4. asked[c] = Asking(Step.what, Step.file) /\ asked[c].what = Step.what /\ asked[c].file = Step.file
    BY <1>1, <1>2 DEF AskedRight, Asking
  <1>5. more \in {{}, {"me"}, {"me", "root"}}
    <2>1. CASE Step.what = "OPTIONS"
      <3>1. taken[c] \in Seq(Symbol)
        BY <1>1 DEF Typed
      <3> QED BY <1>1, <1>4, <2>1, <3>1, ToldNames
    <2>2. CASE Step.what # "OPTIONS"
      BY <2>2
    <2> QED BY <2>1, <2>2
  <1> HIDE DEF more
  <1>6. /\ \A d \in Conn : known'[d] \in {{}, {"me"}, {"me", "root"}}
        /\ "root" \in known["main"] => "root" \in known'["main"]
        /\ known' \in [Conn -> SUBSET {"me", "root"}]
    <2>1. known \in [Conn -> SUBSET {"me", "root"}]
      BY <1>1 DEF Typed
    <2>2. \A d \in Conn : known[d] \in {{}, {"me"}, {"me", "root"}}
      BY <1>1 DEF KnownRight
    <2>3. known[c] \cup more \in {{}, {"me"}, {"me", "root"}}
      <3>1. known[c] \in {{}, {"me"}, {"me", "root"}}
        BY <2>2
      <3>2. \A x, y \in {{}, {"me"}, {"me", "root"}} : x \cup y \in {{}, {"me"}, {"me", "root"}}
        OBVIOUS
      <3> QED BY <1>5, <3>1, <3>2
    <2> DEFINE k == known[c] \cup more
    <2> HIDE DEF k
    <2>4. /\ known' = [known EXCEPT ![c] = k] /\ k \in {{}, {"me"}, {"me", "root"}}
          /\ ("root" \in known[c] => "root" \in k)
      BY <1>2, <2>3 DEF k
    <2>5. k \in SUBSET {"me", "root"}
      BY <2>4
    <2>6. /\ known'[c] = k /\ known' \in [Conn -> SUBSET {"me", "root"}]
          /\ \A d \in Conn \ {c} : known'[d] = known[d]
      BY <2>1, <2>4, <2>5, SetAt
    <2>7. ASSUME NEW d \in Conn PROVE known'[d] \in {{}, {"me"}, {"me", "root"}}
      <3>1. CASE d = c
        BY <2>4, <2>6, <3>1
      <3>2. CASE d # c
        BY <2>2, <2>6, <3>2
      <3> QED BY <3>1, <3>2
    <2>8. "root" \in known["main"] => "root" \in known'["main"]
      <3>1. CASE c = "main"
        BY <2>4, <2>6, <3>1
      <3>2. CASE c # "main"
        <4>1. "main" \in Conn \ {c}
          BY <3>2 DEF Conn
        <4> QED BY <2>6, <4>1
      <3> QED BY <3>1, <3>2
    <2> QED BY <2>6, <2>7, <2>8
  <1>7. /\ verdict'[c] = "none" /\ verdict' \in [Conn -> {"none", "done", "empty", "error"}]
        /\ \A d \in Conn \ {c} : verdict'[d] = verdict[d]
    <2>1. verdict \in [Conn -> {"none", "done", "empty", "error"}]
      BY <1>1 DEF Typed
    <2> QED BY <1>2, <2>1
  <1>8. Typed'
    <2>1. StreamTyped' /\ ReportTyped'
      BY <1>1, <1>2 DEF Typed, StreamTyped, ReportTyped
    <2>2. got' \in [File -> {"none", "whole", "part", "lost"}]
      <3>1. CASE got' = got
        BY <1>1, <3>1 DEF Typed
      <3>2. CASE Fetched(Step.file, "lost")
        BY <1>1, <3>2, FetchedTyped
      <3>3. CASE Fetched(Step.file, Contents(c))
        <4>1. Contents(c) \in {"none", "whole", "part", "lost"}
          BY DEF Contents
        <4> QED BY <1>1, <3>3, <4>1, FetchedTyped
      <3> QED BY <1>3, <3>1, <3>2, <3>3
    <2> QED BY <1>1, <1>2, <1>6, <1>7, <2>1, <2>2 DEF Typed
  <1>9. ASSUME NEW d \in Conn, d # c PROVE Same(d)
    BY <1>2, <1>7, <1>9 DEF Same
  <1>10. ASSUME NEW d \in Conn PROVE Drawn(d)' /\ Heard(d)'
    <2>1. verdict'[d] = "done" => verdict[d] = "done"
      <3>1. CASE d = c
        BY <1>7, <3>1
      <3>2. CASE d # c
        BY <1>7, <3>2
      <3> QED BY <3>1, <3>2
    <2>2. Drawn(d)'
      BY <1>1, <1>2, <2>1, DrawnStay
    <2>3. Heard(d)'
      BY <1>1, <1>2, HeardStay
    <2> QED BY <2>2, <2>3
  <1>11. ASSUME outcome' = "running" PROVE \A d \in Conn : Flow(d)'
    <2>1. asked[c].file = NoFile => verdict[c] # "error"
      <3>1. CASE Failed
        BY <1>4, <1>11, <3>1 DEF Failed
      <3>2. CASE ~Failed
        BY <1>3, <3>2
      <3> QED BY <3>1, <3>2
    <2>2. Flow(c)'
      BY <1>1, <1>2, <1>7, <2>1, ReturnedFlow
    <2>3. ASSUME NEW d \in Conn PROVE Flow(d)'
      <3>1. CASE d = c
        BY <2>2, <3>1
      <3>2. CASE d # c
        BY <1>1, <1>2, <1>9, <3>2, Others DEF HttpInv
      <3> QED BY <3>1, <3>2
    <2> QED BY <2>3
  <1>12. ASSUME NEW d \in Conn, Busy(d)'
         PROVE  Busy(d) /\ d # c /\ ~(Step.do = "parse" /\ Step.on = d)
    <2>1. Flow(c)
      BY <1>1
    <2>2. ctx[c].state = "OUT"
      BY <1>2, <2>1 DEF Flow, Edges, Parsing
    <2>3. d # c
      BY <1>2, <1>7, <1>12, <2>2 DEF Busy, Parsing
    <2>4. Busy(d)
      BY <1>2, <1>7, <1>12, <2>3 DEF Busy, Parsing
    <2> QED BY <1>2, <2>3, <2>4
  <1>13. \/ outcome' = "running" /\ Planned'
         \/ outcome' = "failed" /\ todo' = <<>>
    <2>1. CASE verdict[c] = "done" /\ todo' = Tail(todo) /\ outcome' = outcome
      <3>1. Left >= 2 /\ Left # 10
        <4>1. Left >= 3 /\ Left \in Nat
          BY <1>1, <1>2, Kinds, SlotFacts
        <4>2. Left # 10
          BY <1>1, <1>2, <4>1, Kinds
        <4> QED BY <4>1, <4>2
      <3>2. \A d \in Conn : asked'[d] = IF Step.do = "request" /\ Step.on = d
                                          THEN Asking(Step.what, Step.file) ELSE asked[d]
        BY <1>2
      <3>3. asked \in [Conn -> Made]
        BY <1>1 DEF Typed
      <3>4. Planned'
        BY <1>1, <1>6, <1>12, <2>1, <3>1, <3>2, <3>3, AdvancePlan
      <3> QED BY <2>1, <3>4
    <2>2. CASE verdict[c] = "empty" /\ Step.what \in Retried /\ todo' = Again(c) \o Tail(todo)
               /\ outcome' = outcome
      <3>1. buf[c] = <<>>
        BY <1>1, <2>2 DEF Flow, Edges
      <3>2. Planned'
        BY <1>1, <1>2, <1>6, <1>12, <2>2, <3>1, AgainPlan
      <3> QED BY <2>2, <3>2
    <2>3. CASE Failed
      BY <1>1, <1>2, <1>6, <1>12, <2>3, FailedPlan
    <2> QED BY <1>3, <2>1, <2>2, <2>3
  <1>14. MainAddressed'
    BY <1>13 DEF MainAddressed
  <1> QED BY <1>8, <1>10, <1>11, <1>13, <1>14 DEF HttpInv, Settled, Alive

-----------------------------------------------------------------------------
(***************************************************************************)
(* The start of the run.                                                   *)
(***************************************************************************)
LEMMA ConnectFacts ==
  ASSUME NEW c \in Conn
  PROVE  /\ Connect(c) \in Seq(ClientStep) /\ Len(Connect(c)) = 3
         /\ Connect(c)[1] = StepOf("connect", c, "new", NoFile)
         /\ Connect(c)[2] = StepOf("request", c, "OPTIONS", NoFile)
         /\ Connect(c)[3] = StepOf("parse", c, "OPTIONS", NoFile)
  <1> DEFINE p == Do("connect", c, "new", NoFile)
  <1> DEFINE q == Ask(c, "OPTIONS", NoFile)
  <1>1. p = <<StepOf("connect", c, "new", NoFile)>> /\ p \in Seq(ClientStep)
    BY StepTyped, DoFacts
  <1>2. /\ q \in Seq(ClientStep) /\ Len(q) = 2
        /\ q[1] = StepOf("request", c, "OPTIONS", NoFile)
        /\ q[2] = StepOf("parse", c, "OPTIONS", NoFile)
    BY AskFacts DEF Requests
  <1>3. Connect(c) = p \o q
    BY DEF Connect
  <1>4. Len(p) = 1 /\ p[1] = StepOf("connect", c, "new", NoFile)
    BY <1>1
  <1> HIDE DEF p, q
  <1>5. /\ p \o q \in Seq(ClientStep)
        /\ Len(p \o q) = Len(p) + Len(q)
        /\ \A i \in 1..Len(p) : (p \o q)[i] = p[i]
        /\ \A i \in 1..Len(q) : (p \o q)[Len(p) + i] = q[i]
    <2>1. p \in Seq(ClientStep) /\ q \in Seq(ClientStep)
      BY <1>1, <1>2
    <2> QED BY <2>1, Joined
  <1>6. /\ Len(p \o q) = 3 /\ (p \o q)[1] = p[1]
        /\ (p \o q)[1 + 1] = q[1] /\ (p \o q)[1 + 2] = q[2]
    BY <1>2, <1>4, <1>5
  <1> QED BY <1>2, <1>3, <1>4, <1>5, <1>6

LEMMA EditorFacts ==
  /\ Editor \in Seq(ClientStep) /\ Len(Editor) = 6
  /\ Editor[1] = StepOf("connect", "shadow", "new", NoFile)
  /\ Editor[2] = StepOf("request", "shadow", "OPTIONS", NoFile)
  /\ Editor[3] = StepOf("parse", "shadow", "OPTIONS", NoFile)
  /\ Editor[4] = StepOf("request", "main", "REPORT", NoFile)
  /\ Editor[5] = StepOf("parse", "main", "REPORT", NoFile)
  /\ Editor[6] = StepOf("close", "shadow", "none", NoFile)
  <1> DEFINE p == Connect("shadow")
             q == Ask("main", "REPORT", NoFile)
             r == Do("close", "shadow", "none", NoFile)
  <1>1. /\ p \in Seq(ClientStep) /\ Len(p) = 3
        /\ p[1] = StepOf("connect", "shadow", "new", NoFile)
        /\ p[2] = StepOf("request", "shadow", "OPTIONS", NoFile)
        /\ p[3] = StepOf("parse", "shadow", "OPTIONS", NoFile)
    BY ConnectFacts DEF Conn
  <1>2. /\ q \in Seq(ClientStep) /\ Len(q) = 2
        /\ q[1] = StepOf("request", "main", "REPORT", NoFile)
        /\ q[2] = StepOf("parse", "main", "REPORT", NoFile)
    BY AskFacts DEF Requests, Conn
  <1>3. r = <<StepOf("close", "shadow", "none", NoFile)>> /\ r \in Seq(ClientStep)
    BY StepTyped, DoFacts DEF Conn
  <1>4. Len(r) = 1 /\ r[1] = StepOf("close", "shadow", "none", NoFile)
    BY <1>3
  <1>5. Editor = (p \o q) \o r
    BY DEF Editor
  <1> HIDE DEF p, q, r
  <1>6. /\ p \o q \in Seq(ClientStep)
        /\ Len(p \o q) = Len(p) + Len(q)
        /\ \A i \in 1..Len(p) : (p \o q)[i] = p[i]
        /\ \A i \in 1..Len(q) : (p \o q)[Len(p) + i] = q[i]
    <2>1. p \in Seq(ClientStep) /\ q \in Seq(ClientStep)
      BY <1>1, <1>2
    <2> QED BY <2>1, Joined
  <1> DEFINE s == p \o q
  <1>7. /\ s \in Seq(ClientStep) /\ Len(s) = 5
        /\ s[1] = p[1] /\ s[2] = p[2] /\ s[3] = p[3] /\ s[3 + 1] = q[1] /\ s[3 + 2] = q[2]
    BY <1>1, <1>2, <1>6
  <1> HIDE DEF s
  <1>8. /\ s \o r \in Seq(ClientStep)
        /\ Len(s \o r) = Len(s) + Len(r)
        /\ \A i \in 1..Len(s) : (s \o r)[i] = s[i]
        /\ \A i \in 1..Len(r) : (s \o r)[Len(s) + i] = r[i]
    <2>1. s \in Seq(ClientStep) /\ r \in Seq(ClientStep)
      BY <1>3, <1>7
    <2> QED BY <2>1, Joined
  <1> DEFINE t == s \o r
  <1>9. /\ t \in Seq(ClientStep) /\ Len(t) = 6
        /\ t[1] = s[1] /\ t[2] = s[2] /\ t[3] = s[3] /\ t[4] = s[4] /\ t[5] = s[5]
        /\ t[5 + 1] = r[1]
    BY <1>4, <1>7, <1>8
  <1>10. Editor = t
    BY <1>5 DEF t, s
  <1> HIDE DEF t
  <1> QED BY <1>1, <1>2, <1>4, <1>7, <1>9, <1>10

\* The program of the run, counted from its end.
LEMMA ProgramFacts ==
  /\ Program \in Seq(ClientStep) /\ Len(Program) = 13
  /\ \A e \in 1..13 : OfProgram(e, Program[14 - e])
  <1> DEFINE p == Connect("main")
             q == CheckPath
             r == Editor
             s == Repair("idle")
  <1>1. /\ p \in Seq(ClientStep) /\ Len(p) = 3
        /\ p[1] = StepOf("connect", "main", "new", NoFile)
        /\ p[2] = StepOf("request", "main", "OPTIONS", NoFile)
        /\ p[3] = StepOf("parse", "main", "OPTIONS", NoFile)
    BY ConnectFacts DEF Conn
  <1>2. /\ q \in Seq(ClientStep) /\ Len(q) = 2
        /\ q[1] = StepOf("request", "main", "CHECK", NoFile)
        /\ q[2] = StepOf("parse", "main", "CHECK", NoFile)
    BY AskFacts DEF CheckPath, Requests, Conn
  <1>3. /\ s \in Seq(ClientStep) /\ Len(s) = 2
        /\ s[1] = StepOf("repair", "main", "idle", NoFile)
        /\ s[2] = StepOf("save", "main", "none", NoFile)
    BY RepairFacts
  <1>4. /\ r \in Seq(ClientStep) /\ Len(r) = 6
        /\ r[1] = StepOf("connect", "shadow", "new", NoFile)
        /\ r[2] = StepOf("request", "shadow", "OPTIONS", NoFile)
        /\ r[3] = StepOf("parse", "shadow", "OPTIONS", NoFile)
        /\ r[4] = StepOf("request", "main", "REPORT", NoFile)
        /\ r[5] = StepOf("parse", "main", "REPORT", NoFile)
        /\ r[6] = StepOf("close", "shadow", "none", NoFile)
    BY EditorFacts
  <1>5. Program = ((p \o q) \o r) \o s
    BY DEF Program
  <1> HIDE DEF p, q, r, s
  <1> DEFINE u == p \o q
             v == u \o r
             z == v \o s
  <1>6. /\ u \in Seq(ClientStep) /\ Len(u) = 5
        /\ u[1] = p[1] /\ u[2] = p[2] /\ u[3] = p[3] /\ u[4] = q[1] /\ u[5] = q[2]
    <2>t. p \in Seq(ClientStep) /\ q \in Seq(ClientStep)
      BY <1>1, <1>2
    <2>1. /\ u \in Seq(ClientStep)
          /\ Len(u) = Len(p) + Len(q)
          /\ \A i \in 1..Len(p) : u[i] = p[i]
          /\ \A i \in 1..Len(q) : u[Len(p) + i] = q[i]
      BY <2>t, Joined
    <2> HIDE DEF u
    <2>s. u \in Seq(ClientStep)
      BY <2>1
    <2>2. Len(u) = 5 /\ u[1] = p[1] /\ u[2] = p[2] /\ u[3] = p[3] /\ u[3 + 1] = q[1] /\ u[3 + 2] = q[2]
      BY <1>1, <1>2, <2>1
    <2> QED BY <2>s, <2>2
  <1> HIDE DEF u
  <1>7. /\ v \in Seq(ClientStep) /\ Len(v) = 11
        /\ v[1] = u[1] /\ v[2] = u[2] /\ v[3] = u[3] /\ v[4] = u[4] /\ v[5] = u[5]
        /\ v[6] = r[1] /\ v[7] = r[2] /\ v[8] = r[3] /\ v[9] = r[4] /\ v[10] = r[5] /\ v[11] = r[6]
    <2>t. u \in Seq(ClientStep) /\ r \in Seq(ClientStep)
      BY <1>4, <1>6
    <2>1. /\ v \in Seq(ClientStep)
          /\ Len(v) = Len(u) + Len(r)
          /\ \A i \in 1..Len(u) : v[i] = u[i]
          /\ \A i \in 1..Len(r) : v[Len(u) + i] = r[i]
      BY <2>t, Joined
    <2> HIDE DEF v
    <2>s. v \in Seq(ClientStep)
      BY <2>1
    <2>2. Len(v) = 11 /\ v[1] = u[1] /\ v[2] = u[2] /\ v[3] = u[3] /\ v[4] = u[4] /\ v[5] = u[5]
      BY <1>4, <1>6, <2>1
    <2>3. /\ v[5 + 1] = r[1] /\ v[5 + 2] = r[2] /\ v[5 + 3] = r[3]
          /\ v[5 + 4] = r[4] /\ v[5 + 5] = r[5] /\ v[5 + 6] = r[6]
      BY <1>4, <1>6, <2>1
    <2> QED BY <2>s, <2>2, <2>3
  <1> HIDE DEF v
  <1>8. /\ z \in Seq(ClientStep) /\ Len(z) = 13
        /\ \A i \in 1..11 : z[i] = v[i]
        /\ z[12] = s[1] /\ z[13] = s[2]
    <2>t. v \in Seq(ClientStep) /\ s \in Seq(ClientStep)
      BY <1>3, <1>7
    <2>1. /\ z \in Seq(ClientStep)
          /\ Len(z) = Len(v) + Len(s)
          /\ \A i \in 1..Len(v) : z[i] = v[i]
          /\ \A i \in 1..Len(s) : z[Len(v) + i] = s[i]
      BY <2>t, Joined
    <2> HIDE DEF z
    <2>s. z \in Seq(ClientStep)
      BY <2>1
    <2>2. Len(z) = 13 /\ (\A i \in 1..11 : z[i] = v[i]) /\ z[11 + 1] = s[1] /\ z[11 + 2] = s[2]
      BY <1>3, <1>7, <2>1
    <2> QED BY <2>s, <2>2
  <1>9. Program = z
    BY <1>5 DEF z, v, u
  <1> HIDE DEF z
  <1>10. /\ z[1] = StepOf("connect", "main", "new", NoFile)
         /\ z[2] = StepOf("request", "main", "OPTIONS", NoFile)
         /\ z[3] = StepOf("parse", "main", "OPTIONS", NoFile)
         /\ z[4] = StepOf("request", "main", "CHECK", NoFile)
         /\ z[5] = StepOf("parse", "main", "CHECK", NoFile)
    BY <1>1, <1>2, <1>6, <1>7, <1>8
  <1>11. /\ z[6] = StepOf("connect", "shadow", "new", NoFile)
         /\ z[7] = StepOf("request", "shadow", "OPTIONS", NoFile)
         /\ z[8] = StepOf("parse", "shadow", "OPTIONS", NoFile)
         /\ z[9] = StepOf("request", "main", "REPORT", NoFile)
         /\ z[10] = StepOf("parse", "main", "REPORT", NoFile)
         /\ z[11] = StepOf("close", "shadow", "none", NoFile)
         /\ z[12] = StepOf("repair", "main", "idle", NoFile)
         /\ z[13] = StepOf("save", "main", "none", NoFile)
    BY <1>3, <1>4, <1>7, <1>8
  <1>12. ASSUME NEW e \in 1..13 PROVE OfProgram(e, z[14 - e])
    <2>1. CASE e \in 1..4
      BY <1>11, <2>1 DEF OfProgram
    <2>2. CASE e \in 5..8
      BY <1>11, <2>2 DEF OfProgram
    <2>3. CASE e \in 9..13
      BY <1>10, <2>3 DEF OfProgram
    <2> QED BY <2>1, <2>2, <2>3
  <1> QED BY <1>8, <1>9, <1>12

LEMMA InitTyped ==
  ASSUME Init
  PROVE  Typed
  <1>1. ReportTyped
    <2>1. \/ report = <<>>
          \/ \E f \in File : report = <<f>>
          \/ \E f, g \in File : report = <<f, g>>
      <3> DEFINE Single == {<<f>> : f \in File}
                 Pairs == {<<f, g>> : f, g \in File}
      <3>1. report \in {<<>>} \cup Single \cup Pairs
        BY DEF Init
      <3> QED BY <3>1
    <2>2. \A f, g \in File : <<f>> \in Seq(File) /\ <<f, g>> \in Seq(File)
      OBVIOUS
    <2>3. <<>> \in Seq(File)
      OBVIOUS
    <2> QED BY <2>1, <2>2, <2>3 DEF ReportTyped
  <1>2. <<>> \in Seq(Symbol) /\ <<>> \in Seq(Made) /\ Len(<<>>) = 0
    OBVIOUS
  <1>3. StreamTyped
    BY <1>2 DEF Init, StreamTyped
  <1>4. CtxOut \in Ctx
    BY DEF CtxOut, CtxInit, Ctx, States
  <1>5. Asking("OPTIONS", NoFile) \in Made
    BY DEF Made, Opening
  <1>6. /\ conn \in [Conn -> {"none", "up", "eof", "reset"}]
        /\ verdict \in [Conn -> {"none", "done", "empty", "error"}]
        /\ stale \in [Conn -> BOOLEAN] /\ bitty \in Conn
        /\ known \in [Conn -> SUBSET {"me", "root"}]
        /\ bad \subseteq File
        /\ got \in [File -> {"none", "whole", "part", "lost"}]
    BY DEF Init
  <1>7. ctx \in [Conn -> Ctx] /\ asked \in [Conn -> Made]
    BY <1>4, <1>5 DEF Init
  <1>8. taken \in [Conn -> Seq(Symbol)] /\ toS \in [Conn -> Seq(Made)]
    BY <1>2 DEF Init
  <1>9. edited \in 0..(Len(report) + 1) /\ cuts \in 0..MaxCuts /\ refusals \in 0..MaxRefusals
    <2>1. Len(report) \in Nat
      BY <1>1 DEF ReportTyped
    <2>2. edited = 0 /\ cuts = 0 /\ refusals = 0
      BY DEF Init
    <2> QED BY <2>1, <2>2, BoundAssumption
  <1> QED BY <1>1, <1>3, <1>6, <1>7, <1>8, <1>9 DEF Typed

LEMMA InitConn ==
  ASSUME Init, NEW c \in Conn
  PROVE  Flow(c) /\ Drawn(c) /\ Heard(c)
  <1>1. /\ conn[c] = "none" /\ wire[c] = <<>> /\ buf[c] = <<>> /\ pos[c] = 0 /\ late[c] = FALSE
        /\ asked[c] = Asking("OPTIONS", NoFile) /\ taken[c] = <<>> /\ verdict[c] = "none"
        /\ stale[c] = FALSE /\ toS[c] = <<>>
    BY DEF Init
  <1>2. ctx[c] = CtxOut
    BY DEF Init
  <1>3. ctx[c].state = "OUT"
    BY <1>2 DEF CtxOut, CtxInit
  <1>4. asked[c].what = "OPTIONS"
    BY <1>1 DEF Asking
  <1>5. Ahead(c) = <<>>
    BY <1>1 DEF Ahead
  <1>6. Edges(c)
    BY <1>1, <1>3 DEF Edges, Within, Parsing
  <1>7. Drawn(c)
    BY <1>4 DEF Drawn, HasBody
  <1>8. Told(c, 0)
    BY <1>1 DEF Told
  <1>9. Heard(c)
    BY <1>8 DEF Heard
  <1>10. ReportTyped
    BY InitTyped DEF Typed
  <1>11. PICK L : \A o : Labelled(<<>>, L, o)
    BY <1>10, EmptyLabels
  <1>12. Labelled(Ahead(c), L, conn[c] = "up")
    BY <1>5, <1>11
  <1>13. Place(c, L[0])
    BY <1>3 DEF Place, Reading, Within, AtBody
  <1>14. Fresh(c, L)
    BY <1>1, <1>3, <1>5 DEF Fresh, Reading, Within
  <1>15. Soiled(c, L)
    BY <1>1 DEF Soiled
  <1> QED BY <1>6, <1>7, <1>9, <1>12, <1>13, <1>14, <1>15 DEF Flow, Streaming

LEMMA InitPlan ==
  ASSUME Init
  PROVE  Planned
  <1>1. todo \in Seq(ClientStep) /\ Len(todo) = 13 /\ \A e \in 1..13 : OfProgram(e, todo[14 - e])
    BY ProgramFacts DEF Init
  <1>2. \A e \in 1..13 : OfProgram(e, Slot(e))
    <2>1. ASSUME NEW e \in 1..13 PROVE OfProgram(e, Slot(e))
      <3>1. Slot(e) = todo[14 - e]
        BY <1>1 DEF Slot
      <3> QED BY <1>1, <3>1
    <2> QED BY <2>1
  <1>3. Left = 13 /\ Step = Slot(13)
    <2>1. Left = 13 /\ 14 - 13 = 1
      BY <1>1 DEF Left
    <2>2. Step = todo[1]
      BY <1>1 DEF Step
    <2>3. Slot(13) = todo[1]
      BY <1>1 DEF Slot
    <2> QED BY <2>1, <2>2, <2>3
  <1>4. OfProgram(Left, Step)
    BY <1>2, <1>3
  <1>5. Step = StepOf("connect", "main", "new", NoFile)
    BY <1>3, <1>4 DEF OfProgram
  <1>6. Step.do = "connect" /\ Step.on = "main" /\ Step.what = "new" /\ Step.file = NoFile
    BY <1>5 DEF StepOf
  <1>7. Plainly
    BY <1>2, <1>3, <1>4, <1>6 DEF Plainly
  <1>8. Shape
    BY <1>1, <1>3, <1>7 DEF Shape
  <1>9. \A c \in Conn : asked[c] = Asking("OPTIONS", NoFile) /\ ctx[c].state = "OUT" /\ verdict[c] = "none"
                        /\ known[c] = {}
    BY DEF Init, CtxOut, CtxInit
  <1>10. AskedRight
    <2>1. Asking("OPTIONS", NoFile).what = "OPTIONS" /\ Asking("OPTIONS", NoFile).file = NoFile
      BY DEF Asking
    <2>2. asked["main"] = Asking("OPTIONS", NoFile) /\ asked["shadow"] = Asking("OPTIONS", NoFile)
      BY <1>9 DEF Conn
    <2> QED BY <1>6, <2>1, <2>2 DEF AskedRight, Retried
  <1>11. BusyRight
    BY <1>9 DEF BusyRight, Busy, Parsing
  <1>12. KnownRight
    BY <1>3, <1>9 DEF KnownRight
  <1>13. AgainRight
    BY <1>6 DEF AgainRight
  <1> QED BY <1>8, <1>10, <1>11, <1>12, <1>13 DEF Planned

LEMMA HttpInit == Init => HttpInv
  <1> SUFFICES ASSUME Init PROVE HttpInv
    OBVIOUS
  <1>1. Settled /\ Alive
    BY InitTyped, InitConn, InitPlan DEF Settled, Alive
  <1>2. outcome = "running"
    BY DEF Init
  <1>3. MainAddressed
    BY <1>2 DEF MainAddressed
  <1> QED BY <1>1, <1>2, <1>3 DEF HttpInv

-----------------------------------------------------------------------------
(***************************************************************************)
(* The invariant.                                                          *)
(***************************************************************************)
\* What the server does changes nothing of the client.
LEMMA ServerKeeps ==
  ASSUME HttpInv, NEW c \in Conn, Serve(c) \/ Cut(c) \/ Timeout(c)
  PROVE  HttpInv'
  <1>1. outcome = "running"
    BY DEF Serve, Cut, Timeout, Ends
  <1>2. Settled /\ Alive
    BY <1>1 DEF HttpInv
  <1>3. Settled' /\ Alive'
    BY <1>2, ServeKeeps, CutKeeps, TimeoutKeeps
  <1>4. outcome' = outcome
    BY DEF Serve, Cut, Timeout, Ends, client
  <1>5. MainAddressed'
    BY <1>1, <1>4 DEF MainAddressed
  <1> QED BY <1>1, <1>3, <1>4, <1>5 DEF HttpInv

LEMMA StutterKeeps ==
  ASSUME HttpInv, UNCHANGED vars
  PROVE  HttpInv'
  <1>1. /\ parseVars' = parseVars /\ todo' = todo /\ outcome' = outcome /\ known' = known
        /\ edited' = edited /\ bad' = bad /\ got' = got /\ report' = report /\ toS' = toS
        /\ cuts' = cuts /\ refusals' = refusals
    BY DEF vars, client, server
  <1>2. /\ wire' = wire /\ buf' = buf /\ ctx' = ctx /\ asked' = asked /\ verdict' = verdict
    BY <1>1 DEF parseVars, stream
  <1>3. Settled
    BY DEF HttpInv
  <1>4. \A d \in Conn : Same(d)
    BY <1>1 DEF parseVars, stream, Same
  <1>5. \A d \in Conn : Drawn(d)' /\ Heard(d)' /\ (Flow(d) => Flow(d)')
    BY <1>1, <1>3, <1>4, Others
  <1>6. Typed'
    <2>1. Typed
      BY <1>3 DEF Settled
    <2>2. edited' \in 0..(Len(report) + 1) /\ bad' \subseteq File
      BY <1>1, <2>1 DEF Typed
    <2> QED BY <1>1, <2>1, <2>2, SameTyped
  <1>7. Settled'
    BY <1>5, <1>6 DEF Settled
  <1>8. Alive => Alive'
    <2> SUFFICES ASSUME Alive PROVE Alive'
      OBVIOUS
    <2>1. Planned'
      BY <1>1, <1>2, ServerPlan DEF Alive
    <2> QED BY <1>5, <2>1 DEF Alive
  <1>9. MainAddressed <=> MainAddressed'
    BY <1>1 DEF MainAddressed
  <1> QED BY <1>1, <1>7, <1>8, <1>9 DEF HttpInv

LEMMA ClientKeeps ==
  ASSUME HttpInv, Client
  PROVE  HttpInv'
  <1>1. outcome = "running"
    BY DEF Client, Reach, Send, SendUnaddressed, ParseStep, Returned, EditCommand, CloseShadow,
           RepairStep, Save, At, Running
  <1>2. \/ \E c \in Conn : Reach(c) \/ Send(c) \/ SendUnaddressed(c) \/ ParseStep(c) \/ Returned(c)
        \/ EditCommand \/ CloseShadow \/ RepairStep \/ Save
    BY DEF Client
  <1>3. ASSUME NEW c \in Conn,
               Reach(c) \/ Send(c) \/ SendUnaddressed(c) \/ ParseStep(c) \/ Returned(c)
        PROVE  HttpInv'
    BY <1>1, <1>3, ReachKeeps, SendKeeps, UnaddressedKeeps, ParseKeeps, ReturnedKeeps
  <1> QED BY <1>1, <1>2, <1>3, EditKeeps, CloseKeeps, RepairKeeps, SaveKeeps

LEMMA HttpNext == HttpInv /\ [Next]_vars => HttpInv'
  <1> SUFFICES ASSUME HttpInv, [Next]_vars PROVE HttpInv'
    OBVIOUS
  <1>1. CASE Client
    BY <1>1, ClientKeeps
  <1>2. CASE \E c \in Conn : Serve(c) \/ Cut(c) \/ Timeout(c)
    BY <1>2, ServerKeeps
  <1>3. CASE Done \/ UNCHANGED vars
    BY <1>3, StutterKeeps DEF Done
  <1> QED BY <1>1, <1>2, <1>3 DEF Next

LEMMA Invariant == Spec => []HttpInv
  BY HttpInit, HttpNext, PTL DEF Spec

-----------------------------------------------------------------------------
(***************************************************************************)
(* What follows.                                                           *)
(***************************************************************************)
LEMMA InvTyped == HttpInv => TypeOK
  <1> SUFFICES ASSUME HttpInv PROVE TypeOK
    OBVIOUS
  <1>1. Typed
    BY DEF HttpInv, Settled
  <1>2. \A i \in DOMAIN todo : todo[i].on \in Conn /\ todo[i].file \in File \cup {NoFile}
    <2>1. CASE outcome = "running"
      <3>1. todo \in Seq(ClientStep)
        BY <2>1 DEF HttpInv, Alive, Planned, Shape
      <3>2. \A s \in ClientStep : s.on \in Conn /\ s.file \in File \cup {NoFile}
        BY DEF ClientStep
      <3> QED BY <3>1, <3>2
    <2>2. CASE outcome # "running"
      BY <2>2 DEF HttpInv
    <2> QED BY <2>1, <2>2
  <1>3. Made \subseteq Request
    <2>1. \A w \in Requests : \A f \in File \cup {NoFile} : Asking(w, f) \in Request
      BY DEF Asking, Request
    <2> QED BY <2>1 DEF Made, Opening, Filing, Requests
  <1>4. \A c \in Conn : /\ pos[c] \in 0..Len(buf[c])
                        /\ late[c] => buf[c] = <<>>
    BY <1>1 DEF Typed, StreamTyped
  <1>5. asked \in [Conn -> Request]
    BY <1>1, <1>3 DEF Typed
  <1>6. late \in [Conn -> BOOLEAN]
    BY <1>1 DEF Typed, StreamTyped
  <1>7. outcome \in {"running", "failed", "crashed", "recorded"}
    BY DEF HttpInv
  <1>8. /\ conn \in [Conn -> {"none", "up", "eof", "reset"}]
        /\ ctx \in [Conn -> Ctx]
        /\ verdict \in [Conn -> {"none", "done", "empty", "error"}]
        /\ stale \in [Conn -> BOOLEAN] /\ bitty \in Conn
        /\ known \in [Conn -> SUBSET {"me", "root"}]
        /\ edited \in 0..(Len(report) + 1) /\ bad \subseteq File
        /\ got \in [File -> {"none", "whole", "part", "lost"}]
        /\ cuts \in 0..MaxCuts /\ refusals \in 0..MaxRefusals
    BY <1>1 DEF Typed
  <1> QED BY <1>2, <1>4, <1>5, <1>6, <1>7, <1>8 DEF TypeOK

\* What the callback was given is of one answer, which every symbol of it names.
LEMMA OfOneAnswer ==
  ASSUME HttpInv, NEW c \in Conn, HasBody(asked[c])
  PROVE  \E q \in Made, m \in Nat :
           /\ Body(q) \in Seq(Symbol) /\ Len(Body(q)) >= 1
           /\ m <= Len(Body(q)) /\ taken[c] = SubSeq(Body(q), 1, m)
           /\ taken[c] # <<>> => Head(taken[c]).for = q
           /\ ~stale[c] => q = asked[c]
           /\ verdict[c] = "done" /\ conn[c] = "up" => m = Len(Body(q))
  <1>1. Drawn(c) /\ ReportTyped
    BY DEF HttpInv, Settled, Typed
  <1>2. PICK a \in Answers, m \in Nat :
          /\ m <= Len(BodyOf(a)) /\ taken[c] = SubSeq(BodyOf(a), 1, m)
          /\ ~Refused(a) /\ a.req.what # "OPTIONS"
          /\ ~stale[c] \/ asked[c].file = NoFile => a.req = asked[c]
          /\ verdict[c] = "done" /\ conn[c] = "up" => m = Len(BodyOf(a))
    BY <1>1 DEF Drawn
  <1>3. PICK b : b = BodyOf(a)
    OBVIOUS
  <1>4. b = Body(a.req) /\ a.req \in Made
    BY <1>2, <1>3 DEF BodyOf, Answers
  <1>5. b \in Seq(Inner) /\ (\A i \in 1..Len(b) : b[i].for = a.req) /\ Len(b) # 0
    BY <1>1, <1>2, <1>3, BodyTyped
  <1>6. Inner \subseteq Symbol
    BY DEF Inner
  <1>7. b \in Seq(Symbol) /\ Len(b) \in Nat /\ Len(b) >= 1
    BY <1>5, <1>6
  <1>8. ASSUME SubSeq(b, 1, m) # <<>> PROVE Head(SubSeq(b, 1, m)).for = a.req
    <2>1. m >= 1 /\ m <= Len(b)
      BY <1>2, <1>3, <1>7, <1>8
    <2>2. Head(SubSeq(b, 1, m)) = b[1]
      <3>1. PICK s : s = SubSeq(b, 1, m)
        OBVIOUS
      <3>2. s \in Seq(Symbol) /\ Len(s) = m /\ s[1] = b[1]
        BY <1>7, <2>1, <3>1
      <3>3. Head(s) = s[1]
        BY <2>1, <3>2
      <3> QED BY <3>1, <3>2, <3>3
    <2>3. b[1].for = a.req
      BY <1>5, <1>7
    <2> QED BY <2>2, <2>3
  <1> QED BY <1>2, <1>3, <1>4, <1>7, <1>8

LEMMA InvTaken == HttpInv => TakenRight
  <1> SUFFICES ASSUME HttpInv, NEW c \in Conn, HasBody(asked[c]), taken[c] # <<>>
               PROVE  /\ IsPrefix(taken[c], Body(Head(taken[c]).for))
                      /\ ~stale[c] => Head(taken[c]).for = asked[c]
    BY DEF TakenRight
  <1>1. PICK q \in Made, m \in Nat :
          /\ Body(q) \in Seq(Symbol) /\ Len(Body(q)) >= 1
          /\ m <= Len(Body(q)) /\ taken[c] = SubSeq(Body(q), 1, m)
          /\ Head(taken[c]).for = q
          /\ ~stale[c] => q = asked[c]
    BY OfOneAnswer
  <1>2. PICK t : t = taken[c]
    OBVIOUS
  <1>3. PICK b : b = Body(q)
    OBVIOUS
  <1>4. IsPrefix(t, b)
    <2>1. t = SubSeq(b, 1, m) /\ b \in Seq(Symbol) /\ m <= Len(b)
      BY <1>1, <1>2, <1>3
    <2>2. Len(t) = m
      BY <2>1
    <2>3. Len(t) <= Len(b) /\ SubSeq(t, 1, Len(t)) = SubSeq(b, 1, Len(t))
      BY <2>1, <2>2
    <2> QED BY <2>3 DEF IsPrefix
  <1> QED BY <1>1, <1>2, <1>3, <1>4

LEMMA InvWhole == HttpInv => DoneMeansWhole
  <1> SUFFICES ASSUME HttpInv, NEW c \in Conn, verdict[c] = "done", HasBody(asked[c]), conn[c] = "up"
               PROVE  taken[c] # <<>> /\ taken[c] = Body(Head(taken[c]).for)
    BY DEF DoneMeansWhole
  <1>1. PICK q \in Made, m \in Nat :
          /\ Body(q) \in Seq(Symbol) /\ Len(Body(q)) >= 1
          /\ m <= Len(Body(q)) /\ taken[c] = SubSeq(Body(q), 1, m)
          /\ taken[c] # <<>> => Head(taken[c]).for = q
          /\ verdict[c] = "done" /\ conn[c] = "up" => m = Len(Body(q))
    BY OfOneAnswer
  <1>2. PICK b : b = Body(q)
    OBVIOUS
  <1>3. taken[c] = SubSeq(b, 1, Len(b)) /\ b \in Seq(Symbol) /\ Len(b) >= 1
    BY <1>1, <1>2
  <1>4. SubSeq(b, 1, Len(b)) = b /\ b # <<>>
    BY <1>3
  <1> QED BY <1>1, <1>2, <1>3, <1>4

-----------------------------------------------------------------------------
(***************************************************************************)
(* A run in which no request is refused and no connection ends.            *)
(***************************************************************************)
\* The status lines in s are not of refusals.
Accepting(s) == \A i \in DOMAIN s : s[i].is = "status" => s[i].val # 404

\* Only check-path fails, and OPTIONS is told both its addresses.
Calm(c) ==
  /\ conn[c] \in {"none", "up"}
  /\ Accepting(wire[c]) /\ Accepting(buf[c]) /\ (Within(c) => ctx[c].status # 404)
  /\ verdict[c] # "empty"
  /\ verdict[c] = "error" => asked[c].what = "CHECK"
  /\ stale[c] => verdict[c] = "error"
  /\ verdict[c] = "done" /\ asked[c].what = "OPTIONS" => Len(taken[c]) = 2

\* The shadow connection is made, which is before the last e steps, and in use.
Shadowed(e) == IF Step.file = NoFile THEN Left \in 4..e ELSE Step.on = "shadow"
Reported == IF Step.file = NoFile THEN Left <= 3 ELSE Step.on = "main"

\* What the steps that are left rely on.
Equipped ==
  /\ Step.do = "connect" => Step.what = "new"
  /\ Left <= 12 => conn["main"] = "up"
  /\ Left <= 10 => known["main"] = {"me", "root"}
  /\ Shadowed(7) => conn["shadow"] = "up"
  /\ Shadowed(5) => known["shadow"] = {"me", "root"}
  /\ Reported => edited = Len(report) + 1

Smooth == cuts = 0 /\ refusals = 0
Lossless ==
  /\ NothingLost
  /\ Smooth /\ outcome = "running" => Equipped /\ \A c \in Conn : Calm(c)

LEMMA AcceptingPart ==
  ASSUME NEW s \in Seq(Symbol), Accepting(s), NEW m \in Nat \ {0}, NEW n \in Nat, n <= Len(s)
  PROVE  Accepting(SubSeq(s, m, n))
  <1> DEFINE x == SubSeq(s, m, n)
  <1>1. ASSUME NEW i \in DOMAIN x PROVE x[i] = s[m - 1 + i] /\ m - 1 + i \in DOMAIN s
    BY <1>1
  <1> HIDE DEF x
  <1>2. Accepting(x)
    BY <1>1 DEF Accepting
  <1> QED BY <1>2 DEF x

LEMMA AcceptingRest ==
  ASSUME NEW s \in Seq(Symbol), Accepting(s), NEW n \in Nat
  PROVE  Accepting(SubSeq(s, n + 1, Len(s)))
  <1>1. n + 1 \in Nat \ {0} /\ Len(s) \in Nat /\ Len(s) <= Len(s)
    OBVIOUS
  <1> QED BY <1>1, AcceptingPart

LEMMA AcceptingBoth ==
  ASSUME NEW s \in Seq(Symbol), NEW t \in Seq(Symbol), Accepting(s), Accepting(t)
  PROVE  Accepting(s \o t)
  <1> DEFINE x == s \o t
  <1>1. /\ x \in Seq(Symbol) /\ Len(s) \in Nat /\ Len(t) \in Nat
        /\ Len(x) = Len(s) + Len(t)
        /\ \A i \in 1..Len(s) : x[i] = s[i]
        /\ \A i \in 1..Len(t) : x[Len(s) + i] = t[i]
    BY Joined
  <1> HIDE DEF x
  <1>2. ASSUME NEW i \in DOMAIN x, x[i].is = "status" PROVE x[i].val # 404
    <2>1. i \in 1..(Len(s) + Len(t))
      BY <1>1
    <2>2. CASE i <= Len(s)
      <3>1. i \in 1..Len(s) /\ i \in DOMAIN s
        BY <1>1, <2>1, <2>2
      <3>2. x[i] = s[i]
        BY <1>1, <3>1
      <3> QED BY <1>2, <3>1, <3>2 DEF Accepting
    <2>3. CASE i > Len(s)
      <3>1. PICK j : j = i - Len(s)
        OBVIOUS
      <3>2. j \in 1..Len(t) /\ Len(s) + j = i
        BY <1>1, <2>1, <2>3, <3>1
      <3>3. x[Len(s) + j] = t[j] /\ j \in DOMAIN t
        BY <1>1, <3>2
      <3> QED BY <1>2, <3>2, <3>3 DEF Accepting
    <2> QED BY <1>1, <2>1, <2>2, <2>3
  <1>3. Accepting(x)
    BY <1>2 DEF Accepting
  <1> QED BY <1>3 DEF x

LEMMA AcceptingAnswer ==
  ASSUME ReportTyped, NEW a \in Answers, ~Refused(a)
  PROVE  Accepting(Sent(a))
  <1>1. /\ Sent(a) \in Seq(Symbol) /\ Size(a) \in Nat
        /\ \A i \in 2..Size(a) : Sent(a)[i].is # "status"
        /\ Sent(a)[1].val = Status(a)
    BY AnswerHead
  <1>2. Status(a) # 404
    BY DEF Status, StatusOf
  <1>3. PICK s : s = Sent(a)
    OBVIOUS
  <1>4. DOMAIN s = 1..Size(a)
    BY <1>1, <1>3 DEF Size
  <1>5. ASSUME NEW i \in DOMAIN s, s[i].is = "status" PROVE s[i].val # 404
    <2>1. i = 1
      BY <1>1, <1>3, <1>4, <1>5
    <2> QED BY <1>1, <1>2, <1>3, <2>1
  <1> QED BY <1>3, <1>5 DEF Accepting

\* The status line is that of the answer, ...
LEMMA StatusSeen ==
  ASSUME Typed, NEW c \in Conn, Flow(c), ~stale[c],
         ctx[c].state = "STATUS_LINE", ~NeedMore(c), FindCrLf(buf[c]) # 0
  PROVE  /\ FindCrLf(buf[c]) > 1 /\ Len(buf[c]) >= 1
         /\ Head(buf[c]) = buf[c][1] /\ Head(buf[c]).is = "status"
         /\ Head(buf[c]).val # 404 => Head(buf[c]).val = StatusOf(asked[c])
  <1>1. ReportTyped /\ StreamTyped
    BY DEF Typed
  <1>2. PICK L : Streaming(c, L)
    BY DEF Flow
  <1>3. Reading(c)
    BY DEF Reading
  <1>4. /\ buf[c] \in Seq(Symbol) /\ Len(buf[c]) \in Nat
        /\ Len(buf[c]) >= 1 => L[1] \in Label /\ buf[c][1] = Glyph(L[1])
        /\ \A i \in 1..(Len(buf[c]) - 1) :
             L[1].at + i <= Size(L[1].of) => /\ buf[c][1 + i] = Sent(L[1].of)[L[1].at + i]
                                             /\ L[1 + i] = Spot(L[1].of, L[1].at + i)
        /\ Len(buf[c]) <= Len(Ahead(c)) /\ Len(Ahead(c)) \in Nat
    BY <1>2, AtBuffer
  <1>5. Len(buf[c]) >= 1 /\ Head(buf[c]) = buf[c][1]
    BY <1>1, <1>4 DEF StreamTyped, NeedMore
  <1>6. 1 \in 1..Len(Ahead(c)) /\ Ahead(c) # <<>>
    <2>1. 1 \in 1..Len(Ahead(c))
      BY <1>4, <1>5
    <2>2. Len(<<>>) = 0 /\ 0 # Len(Ahead(c))
      BY <2>1
    <2> QED BY <2>1, <2>2
  <1>7. PICK a \in Answers : a.req = asked[c] /\ \A i \in 1..Len(Ahead(c)) : L[i] = Spot(a, i)
    BY <1>2, <1>3, <1>6 DEF Streaming, Fresh
  <1>8. L[1].of = a /\ L[1].at = 1
    <2>1. L[1] = Spot(a, 1)
      BY <1>6, <1>7
    <2> QED BY <2>1 DEF Spot
  <1>9. /\ Size(a) \in Nat /\ Before(a) \in {8, 14} /\ Before(a) <= Size(a)
        /\ Sent(a)[1].is = "status" /\ Sent(a)[1].val = Status(a)
        /\ Sent(a)[2].is = "cr" /\ Sent(a)[3].is = "lf"
    BY <1>1, AnswerHead
  <1>10. buf[c][1] = Sent(a)[1]
    BY <1>4, <1>5, <1>8 DEF Glyph
  <1>11. Len(buf[c]) >= 2 => buf[c][2].is = "cr"
    <2> SUFFICES ASSUME Len(buf[c]) >= 2 PROVE buf[c][2].is = "cr"
      OBVIOUS
    <2>1. 1 \in 1..(Len(buf[c]) - 1) /\ 1 + 1 <= Size(a) /\ 1 + 1 = 2
      BY <1>4, <1>9
    <2>2. buf[c][1 + 1] = Sent(a)[1 + 1]
      BY <1>4, <1>8, <2>1
    <2> QED BY <1>9, <2>1, <2>2
  <1>12. Len(buf[c]) >= 3 => buf[c][3].is = "lf"
    <2> SUFFICES ASSUME Len(buf[c]) >= 3 PROVE buf[c][3].is = "lf"
      OBVIOUS
    <2>1. 2 \in 1..(Len(buf[c]) - 1) /\ 1 + 2 <= Size(a) /\ 1 + 2 = 3
      BY <1>4, <1>9
    <2>2. buf[c][1 + 2] = Sent(a)[1 + 2]
      BY <1>4, <1>8, <2>1
    <2> QED BY <1>9, <2>1, <2>2
  <1>13. buf[c][1].is # "cr"
    BY <1>9, <1>10
  <1>14. FindCrLf(buf[c]) = IF Len(buf[c]) >= 3 THEN 2 ELSE 0
    BY <1>4, <1>11, <1>12, <1>13, FindLine
  <1>15. FindCrLf(buf[c]) > 1
    BY <1>14
  <1>16. Status(a) # 404 => Status(a) = StatusOf(asked[c])
    BY <1>7 DEF Status
  <1> QED BY <1>5, <1>9, <1>10, <1>15, <1>16

\* ... a header field one that is looked at, and of an answer that was accepted ...
LEMMA HeaderSeen ==
  ASSUME Typed, NEW c \in Conn, Flow(c), ctx[c].state = "HEADER_FIELD", ~late[c],
         FindCrLf(buf[c]) > 1
  PROVE  /\ Head(buf[c]).is \in HeaderNames
         /\ asked[c].what = "OPTIONS" /\ ctx[c].status # 404 => ctx[c].status = 200
  <1>0. Edges(c) /\ ReportTyped
    BY DEF Flow, Typed
  <1>1. PICK L : Streaming(c, L)
    BY DEF Flow
  <1>3. Within(c)
    BY DEF Within
  <1> DEFINE a == L[0].of  k == L[0].at
  <1>4. /\ a \in Answers /\ k \in Nat \ {0} /\ Size(a) \in Nat
        /\ buf[c] \in Seq(Symbol) /\ Len(buf[c]) \in Nat
        /\ \A i \in 1..Len(buf[c]) : k + i <= Size(a) => buf[c][i] = Sent(a)[k + i]
    BY <1>1, AtBuffer
  <1>5. ctx[c].status = Status(a)
    BY <1>1, <1>3 DEF Streaming, Place
  <1>6. PICK j \in 0..(Extra(a) + 1) : InHead(c, L[0], j)
    BY <1>1 DEF Streaming, Place
  <1>7. k = 3 + 3 * j
    BY <1>6 DEF InHead
  <1>8. /\ j \in Nat /\ Extra(a) \in {0, 2}
        /\ j <= Extra(a) => k + 3 <= Size(a) /\ Sent(a)[k + 1].is \in HeaderNames
        /\ j = Extra(a) + 1 =>
             /\ k + 2 <= Size(a)
             /\ Sent(a)[k + 1].is = "cr" /\ Sent(a)[k + 2].is = "lf"
    <2>1. ReportTyped /\ a \in Answers
      BY <1>0, <1>4
    <2> HIDE DEF a, k
    <2> QED BY <1>7, <2>1, HeadLine
  <1>9. asked[c].what = "OPTIONS" => a.req.what = "OPTIONS"
    <2>1. asked[c] \in Made
      BY DEF Typed
    <2>2. asked[c].what = "OPTIONS" => asked[c].file = NoFile
      BY <2>1, MadeFacts
    <2> QED BY <1>0, <1>1, <1>3, <2>2, OptionsFresh
  <1>10. asked[c].what = "OPTIONS" /\ Status(a) # 404 => Status(a) = 200
    BY <1>9 DEF Status, StatusOf
  <1> HIDE DEF a, k
  <1>11. Len(buf[c]) >= 1
    <2>1. buf[c] = <<>> => FindCrLf(buf[c]) = 0
      BY DEF FindCrLf
    <2> QED BY <1>4, <2>1
  <1>12. j <= Extra(a)
    <2> SUFFICES ASSUME j = Extra(a) + 1 PROVE FALSE
      BY <1>8
    <2>1. Len(buf[c]) >= 1 => buf[c][1].is = "cr"
      BY <1>4, <1>8
    <2>2. Len(buf[c]) >= 2 => buf[c][2].is = "lf"
      BY <1>4, <1>8
    <2>3. FindCrLf(buf[c]) \in {0, 1}
      BY <1>4, <2>1, <2>2, FindEmpty
    <2> QED BY <2>3
  <1>13. Head(buf[c]) = Sent(a)[k + 1]
    BY <1>4, <1>8, <1>11, <1>12
  <1> QED BY <1>5, <1>8, <1>10, <1>12, <1>13

\* ... and the line of a chunk its size.
LEMMA SizeSeen ==
  ASSUME Typed, NEW c \in Conn, Flow(c), AtBody(c), ctx[c].chunked, ~ctx[c].within,
         FindCrLf(buf[c]) # 0
  PROVE  FindCrLf(buf[c]) = 2 /\ Head(buf[c]).is = "size"
  <1>0. ReportTyped
    BY DEF Typed
  <1>1. PICK L : Streaming(c, L)
    BY DEF Flow
  <1> DEFINE a == L[0].of  k == L[0].at
  <1>4. /\ a \in Answers /\ k \in Nat \ {0} /\ Size(a) \in Nat
        /\ buf[c] \in Seq(Symbol) /\ Len(buf[c]) \in Nat
        /\ \A i \in 1..Len(buf[c]) : k + i <= Size(a) => buf[c][i] = Sent(a)[k + i]
    BY <1>1, AtBuffer
  <1>6. PICK t \in Stops(a) : InChunks(c, L[0], t)
    BY <1>1 DEF Streaming, Place
  <1>7. Chunked(a)
    BY <1>6 DEF InChunks
  <1> HIDE DEF a
  <1>8. PICK n : n = ChunkLen(a, t)
    OBVIOUS
  <1>9. PICK p : p = Before(a) + ChunkAt(a, t)
    OBVIOUS
  <1>10. /\ n \in Nat /\ p \in Nat /\ p + n + 5 <= Size(a)
         /\ Sent(a)[p + 1].is = "size"
         /\ Sent(a)[p + 2].is = "cr" /\ Sent(a)[p + 3].is = "lf"
    <2>1. a \in Answers
      BY <1>4
    <2> QED BY <1>0, <1>7, <1>8, <1>9, <2>1, AnswerChunks
  <1>11. k = p
    <2>1. k = Before(a) + ChunkAt(a, t) + 0
      BY <1>6 DEF InChunks, a
    <2> QED BY <1>9, <1>10, <2>1
  <1> HIDE DEF k
  <1>12. Len(buf[c]) >= 1 => buf[c][1] = Sent(a)[k + 1] /\ buf[c][1].is # "cr"
    BY <1>4, <1>10, <1>11
  <1>13. (Len(buf[c]) >= 2 => buf[c][2].is = "cr") /\ (Len(buf[c]) >= 3 => buf[c][3].is = "lf")
    BY <1>4, <1>10, <1>11
  <1>14. FindCrLf(buf[c]) = IF Len(buf[c]) >= 3 THEN 2 ELSE 0
    BY <1>4, <1>12, <1>13, FindLine
  <1>15. FindCrLf(buf[c]) = 2 /\ Len(buf[c]) >= 3
    BY <1>14
  <1>16. Head(buf[c]) = buf[c][1]
    BY <1>4, <1>15
  <1> QED BY <1>4, <1>10, <1>11, <1>12, <1>15, <1>16

LEMMA CalmSame ==
  ASSUME NEW d \in Conn, Same(d), Calm(d)
  PROVE  Calm(d)'
  BY DEF Same, Calm, Accepting, Within

\* An answer that has begun goes on, or is over.
Calmly(c) ==
  /\ Accepting(wire[c])' /\ Accepting(buf[c])'
  /\ Within(c)' => ctx'[c].status # 404
  /\ verdict'[c] # "empty"
  /\ verdict'[c] = "error" => asked[c].what = "CHECK"
  /\ stale'[c] => verdict'[c] = "error"
  /\ verdict'[c] = "done" /\ asked[c].what = "OPTIONS" => Len(taken'[c]) = 2

LEMMA QuietCalm ==
  ASSUME Typed, NEW c \in Conn, Calm(c), verdict[c] = "none",
         Start(c) \/ PartOfLine(c) \/ PartOfChunk(c) \/ EmptyLine(c)
  PROVE  Calmly(c)
  <1>1. /\ c \in DOMAIN ctx /\ ctx[c] \in Ctx /\ buf \in [Conn -> Seq(Symbol)] /\ buf[c] \in Seq(Symbol)
    BY DEF Typed, StreamTyped
  <1>2. wire' = wire /\ verdict' = verdict /\ stale' = stale
    BY DEF Start, PartOfLine, PartOfChunk, EmptyLine, stream
  <1>3. buf'[c] = buf[c] \/ buf'[c] = SubSeq(buf[c], 2 + 1, Len(buf[c]))
    <2>1. CASE EmptyLine(c)
      BY <1>1, <2>1 DEF EmptyLine, SkipTo, Set
    <2>2. CASE ~EmptyLine(c)
      BY <2>2 DEF Start, PartOfLine, PartOfChunk, stream
    <2> QED BY <2>1, <2>2
  <1>4. Accepting(buf[c])'
    <2>1. Accepting(buf[c]) /\ Accepting(SubSeq(buf[c], 2 + 1, Len(buf[c])))
      BY <1>1, AcceptingRest DEF Calm
    <2>2. PICK s : s = buf'[c]
      OBVIOUS
    <2>3. Accepting(s)
      BY <1>3, <2>1, <2>2
    <2> QED BY <2>2, <2>3 DEF Accepting
  <1>5. ctx'[c].status = ctx[c].status /\ (Within(c)' => Within(c))
    <2>1. CASE Start(c)
      BY <1>1, <2>1 DEF Start, Set, Ctx, Within
    <2>2. CASE PartOfLine(c)
      BY <1>1, <2>2 DEF PartOfLine, Set, Ctx, Within, InLine, InChunkSize
    <2>3. CASE PartOfChunk(c)
      BY <1>1, <2>3 DEF PartOfChunk, Set, Ctx, Within
    <2>4. CASE EmptyLine(c)
      BY <1>1, <2>4 DEF EmptyLine, Set, Ctx, Within, InLine
    <2> QED BY <2>1, <2>2, <2>3, <2>4
  <1>6. Accepting(wire[c])'
    BY <1>2 DEF Calm, Accepting
  <1> QED BY <1>2, <1>4, <1>5, <1>6 DEF Calm, Calmly

LEMMA ConsumeCalm ==
  ASSUME Typed, NEW c \in Conn, Calm(c), verdict[c] = "none", Consume(c)
  PROVE  Calmly(c)
  <1>1. /\ wire \in [Conn -> Seq(Symbol)] /\ buf \in [Conn -> Seq(Symbol)]
        /\ wire[c] \in Seq(Symbol) /\ buf[c] \in Seq(Symbol)
    BY DEF Typed, StreamTyped
  <1>2. PICK k \in 1..Len(wire[c]) :
          /\ buf'[c] = buf[c] \o SubSeq(wire[c], IF late[c] THEN 2 ELSE 1, k)
          /\ wire'[c] = SubSeq(wire[c], k + 1, Len(wire[c]))
    BY <1>1 DEF Consume, Set
  <1>3. PICK m \in {1, 2} : m = IF late[c] THEN 2 ELSE 1
    OBVIOUS
  <1>4. PICK w : w = wire[c]
    OBVIOUS
  <1>5. PICK b : b = buf[c]
    OBVIOUS
  <1>6. /\ w \in Seq(Symbol) /\ b \in Seq(Symbol) /\ Accepting(w) /\ Accepting(b)
        /\ k \in Nat /\ k <= Len(w) /\ m \in Nat \ {0} /\ Len(w) \in Nat
    BY <1>1, <1>2, <1>3, <1>4, <1>5 DEF Calm
  <1>7. Accepting(SubSeq(w, m, k)) /\ Accepting(SubSeq(w, k + 1, Len(w)))
    BY <1>6, AcceptingPart, AcceptingRest
  <1>8. SubSeq(w, m, k) \in Seq(Symbol)
    <2>1. \A i \in DOMAIN w : w[i] \in Symbol
      BY <1>6
    <2>2. \A i \in m..k : w[i] \in Symbol
      BY <1>6, <2>1
    <2> QED BY <1>6, <2>2, SubSeqProperties
  <1>9. Accepting(b \o SubSeq(w, m, k))
    BY <1>6, <1>7, <1>8, AcceptingBoth
  <1>10. Accepting(buf[c])'
    <2>1. PICK s : s = buf'[c]
      OBVIOUS
    <2>2. s = b \o SubSeq(w, m, k)
      BY <1>2, <1>3, <1>4, <1>5, <2>1
    <2> QED BY <1>9, <2>1, <2>2 DEF Accepting
  <1>11. Accepting(wire[c])'
    <2>1. PICK s : s = wire'[c]
      OBVIOUS
    <2>2. s = SubSeq(w, k + 1, Len(w))
      BY <1>2, <1>4, <2>1
    <2> QED BY <1>7, <2>1, <2>2 DEF Accepting
  <1>12. ctx' = ctx /\ verdict' = verdict /\ stale' = stale
    BY DEF Consume
  <1> QED BY <1>10, <1>11, <1>12 DEF Calm, Calmly, Within

\* What is left of an accepting buffer.
LEMMA SkipCalm ==
  ASSUME Typed, NEW c \in Conn, Calm(c), wire' = wire,
         \E n \in Nat : buf' = [buf EXCEPT ![c] = SubSeq(buf[c], n + 1, Len(buf[c]))]
  PROVE  Accepting(wire[c])' /\ Accepting(buf[c])'
  <1>1. buf \in [Conn -> Seq(Symbol)] /\ buf[c] \in Seq(Symbol)
    BY DEF Typed, StreamTyped
  <1>2. PICK n \in Nat : buf'[c] = SubSeq(buf[c], n + 1, Len(buf[c]))
    BY <1>1
  <1>3. Accepting(SubSeq(buf[c], n + 1, Len(buf[c])))
    BY <1>1, AcceptingRest DEF Calm
  <1>4. PICK s : s = buf'[c]
    OBVIOUS
  <1>5. Accepting(s)
    BY <1>2, <1>3, <1>4
  <1>6. Accepting(buf[c])'
    BY <1>4, <1>5 DEF Accepting
  <1>7. Accepting(wire[c])'
    BY DEF Calm, Accepting
  <1> QED BY <1>6, <1>7

LEMMA StatusCalm ==
  ASSUME Typed, NEW c \in Conn, Flow(c), Calm(c), verdict[c] = "none", StatusLine(c)
  PROVE  Calmly(c)
  <1>0. ~stale[c] /\ asked[c] \in Made
    BY DEF Calm, Typed
  <1>1. ctx[c].state = "STATUS_LINE" /\ ~NeedMore(c) /\ FindCrLf(buf[c]) # 0 /\ wire' = wire
    BY DEF StatusLine, InLine
  <1>2. /\ FindCrLf(buf[c]) > 1 /\ Len(buf[c]) >= 1
        /\ Head(buf[c]) = buf[c][1] /\ Head(buf[c]).is = "status"
        /\ Head(buf[c]).val # 404 => Head(buf[c]).val = StatusOf(asked[c])
    BY <1>0, <1>1, StatusSeen
  <1>3. buf[c] \in Seq(Symbol) /\ ctx \in [Conn -> Ctx] /\ ctx[c] \in Ctx
    BY DEF Typed, StreamTyped
  <1>4. Head(buf[c]).val # 404
    <2>1. 1 \in DOMAIN buf[c] /\ Accepting(buf[c])
      BY <1>2, <1>3 DEF Calm
    <2> QED BY <1>2, <2>1 DEF Accepting
  <1>5. StatusAccepted(asked[c].what, Head(buf[c]).val)
    BY <1>2, <1>4 DEF StatusAccepted, StatusOf
  <1>6. /\ SkipTo(c, FindCrLf(buf[c]) + 1)
        /\ ctx' = [ctx EXCEPT ![c] = [ctx[c] EXCEPT !.state = "HEADER_FIELD", !.status = Head(buf[c]).val]]
        /\ verdict' = verdict /\ stale' = stale
    BY <1>2, <1>5 DEF StatusLine, Set
  <1>7. PICK n \in Nat : n = FindCrLf(buf[c]) + 1
    <2>1. FindCrLf(buf[c]) \in Nat
      BY <1>1, <1>3, FindNothing
    <2> QED BY <2>1
  <1>8. Accepting(wire[c])' /\ Accepting(buf[c])'
    <2>1. buf' = [buf EXCEPT ![c] = SubSeq(buf[c], n + 1, Len(buf[c]))]
      BY <1>6, <1>7 DEF SkipTo, Set
    <2> QED BY <1>1, <2>1, SkipCalm
  <1>9. ctx'[c].status # 404
    BY <1>3, <1>4, <1>6 DEF Ctx
  <1> QED BY <1>0, <1>6, <1>8, <1>9 DEF Calmly

LEMMA HeaderCalm ==
  ASSUME Typed, NEW c \in Conn, Flow(c), Calm(c), verdict[c] = "none", HeaderField(c)
  PROVE  Calmly(c)
  <1>0. ~stale[c]
    BY DEF Calm
  <1>1. ctx[c].state = "HEADER_FIELD" /\ ~late[c] /\ FindCrLf(buf[c]) > 1 /\ wire' = wire
    BY DEF HeaderField, InLine, NeedMore
  <1>2. /\ Head(buf[c]).is \in HeaderNames
        /\ asked[c].what = "OPTIONS" /\ ctx[c].status # 404 => ctx[c].status = 200
    BY <1>1, HeaderSeen
  <1>3. ctx[c].status # 404
    BY <1>1 DEF Calm, Within
  <1>4. HeaderAccepted(asked[c].what, ctx[c].status)
    BY <1>2, <1>3 DEF HeaderAccepted
  <1>5. /\ SkipTo(c, FindCrLf(buf[c]) + 1)
        /\ ctx' = [ctx EXCEPT ![c] = Header(Head(buf[c]), ctx[c])]
        /\ verdict' = verdict /\ stale' = stale
    BY <1>2, <1>4 DEF HeaderField, Set
  <1>6. buf[c] \in Seq(Symbol) /\ ctx \in [Conn -> Ctx] /\ ctx[c] \in Ctx
    BY DEF Typed, StreamTyped
  <1>7. PICK n \in Nat : n = FindCrLf(buf[c]) + 1
    <2>1. FindCrLf(buf[c]) \in Nat
      <3>1. FindCrLf(buf[c]) # 0
        BY <1>1
      <3> QED BY <1>6, <3>1, FindNothing
    <2> QED BY <2>1
  <1>8. Accepting(wire[c])' /\ Accepting(buf[c])'
    <2>1. buf' = [buf EXCEPT ![c] = SubSeq(buf[c], n + 1, Len(buf[c]))]
      BY <1>5, <1>7 DEF SkipTo, Set
    <2> QED BY <1>1, <2>1, SkipCalm
  <1>9. ctx'[c].status # 404
    BY <1>3, <1>5, <1>6 DEF Ctx, Header
  <1> QED BY <1>0, <1>5, <1>8, <1>9 DEF Calmly

LEMMA SizeCalm ==
  ASSUME Typed, NEW c \in Conn, Flow(c), Calm(c), verdict[c] = "none", ChunkSize(c)
  PROVE  Calmly(c)
  <1>0. ~stale[c]
    BY DEF Calm
  <1>1. AtBody(c) /\ ctx[c].chunked /\ ~ctx[c].within /\ FindCrLf(buf[c]) # 0 /\ wire' = wire
    BY DEF ChunkSize, InChunkSize, AtBody
  <1>2. FindCrLf(buf[c]) = 2 /\ Head(buf[c]).is = "size"
    BY <1>1, SizeSeen
  <1>3. /\ SkipTo(c, 3)
        /\ ctx' = [ctx EXCEPT ![c] = [ctx[c] EXCEPT !.state = "BODY", !.within = TRUE,
                                                    !.size = Head(buf[c]).val]]
        /\ verdict' = verdict /\ stale' = stale
    BY <1>2 DEF ChunkSize, Set
  <1>4. ctx \in [Conn -> Ctx] /\ ctx[c] \in Ctx
    BY DEF Typed
  <1>5. Accepting(wire[c])' /\ Accepting(buf[c])'
    <2>1. buf' = [buf EXCEPT ![c] = SubSeq(buf[c], 3 + 1, Len(buf[c]))] /\ 3 \in Nat
      BY <1>3 DEF SkipTo, Set
    <2> QED BY <1>1, <2>1, SkipCalm
  <1>6. ctx'[c].status # 404
    <2>1. ctx[c].status # 404
      BY <1>1 DEF Calm, Within, AtBody
    <2> QED BY <1>3, <1>4, <2>1 DEF Ctx
  <1> QED BY <1>0, <1>3, <1>5, <1>6 DEF Calmly

\* A body was accepted, or it is that of check-path.
LEMMA BodyCalm ==
  ASSUME Typed, NEW c \in Conn, Flow(c), Calm(c), verdict[c] = "none",
         ChunkData(c) \/ LengthBody(c), toS' = toS, report' = report
  PROVE  Calmly(c)
  <1>0. ~stale[c] /\ buf \in [Conn -> Seq(Symbol)] /\ buf[c] \in Seq(Symbol) /\ ctx \in [Conn -> Ctx]
        /\ ctx[c] \in Ctx /\ verdict \in [Conn -> {"none", "done", "empty", "error"}] /\ pos[c] \in Nat
        /\ stale \in [Conn -> BOOLEAN]
    BY DEF Calm, Typed, StreamTyped
  <1>1. AtBody(c) /\ wire' = wire
    BY DEF AtBody, ChunkData, LengthBody, InBody
  <1>2. asked[c].what = "OPTIONS" => Len(taken'[c]) = 2
    <2>1. PICK L : Streaming(c, L)
      BY DEF Flow
    <2>2. asked[c].what = "OPTIONS" => Told(c, 2)
      BY <1>1, <2>1 DEF Streaming, Place
    <2>3. asked[c].what = "OPTIONS" => taken'[c] = taken[c]
      BY ChunkDataFlow, LengthBodyFlow
    <2> QED BY <2>2, <2>3 DEF Told
  <1>3. ctx[c].status # 404
    BY <1>1 DEF Calm, Within, AtBody
  <1>4. ctx'[c].status # 404
    <2>1. CASE ChunkData(c)
      <3>1. CtxOut.status = 0
        BY DEF CtxOut, CtxInit
      <3>2. \/ ctx' = [ctx EXCEPT ![c] = CtxOut]
            \/ ctx' = [ctx EXCEPT ![c] = [ctx[c] EXCEPT !.within = FALSE]]
        BY <2>1 DEF ChunkData, Set, Return, Error
      <3> QED BY <1>0, <1>3, <3>1, <3>2 DEF Ctx
    <2>2. CASE LengthBody(c)
      BY <1>0, <1>3, <2>2 DEF LengthBody, Set, Return, Ctx, CtxOut, CtxInit
    <2> QED BY <2>1, <2>2
  <1>5. \A data : BodyRefused(c, data) => asked[c].what = "CHECK"
    BY DEF BodyRefused, BodyAccepted
  <1>6. \/ verdict'[c] = "error" /\ asked[c].what = "CHECK"
        \/ verdict'[c] \in {"none", "done"} /\ stale'[c] = stale[c]
    <2>1. CASE ChunkData(c)
      <3>1. \/ BodyRefused(c, SubSeq(buf[c], 1, ctx[c].size)) /\ Error(c)
            \/ stale' = stale /\ (verdict' = verdict \/ Return(c, "done"))
        BY <2>1 DEF ChunkData
      <3> QED BY <1>0, <1>5, <3>1 DEF Error, Return, Set
    <2>2. CASE LengthBody(c)
      <3>1. /\ stale' = stale
            /\ \/ verdict' = verdict \/ Return(c, "done")
               \/ BodyRefused(c, SubSeq(buf[c], 1, ctx[c].bodysz)) /\ Return(c, "error")
        BY <2>2 DEF LengthBody
      <3> QED BY <1>0, <1>5, <3>1 DEF Return, Set
    <2> QED BY <2>1, <2>2
  <1>7. \/ buf' = buf
        \/ \E n \in Nat : buf' = [buf EXCEPT ![c] = SubSeq(buf[c], n + 1, Len(buf[c]))]
    <2>1. CASE ChunkData(c)
      <3>1. ctx[c].size + 2 \in Nat
        BY <1>0 DEF Ctx
      <3> QED BY <1>0, <2>1, <3>1 DEF ChunkData, Error, SkipTo, Set
    <2>2. CASE LengthBody(c)
      <3>1. PICK n \in Nat \cup {-1} : n = ctx[c].bodysz
        BY <1>0 DEF Ctx
      <3>2. CASE buf' = buf
        BY <3>2
      <3>3. CASE buf' # buf
        <4>1. n \in Nat
          <5>1. PICK L : Streaming(c, L)
            BY DEF Flow
          <5>2. ctx[c].bodysz = Len(BodyOf(L[0].of)) /\ L[0].of \in Answers
            <6>1. Place(c, L[0]) /\ ~ctx[c].chunked
              BY <2>2, <5>1 DEF Streaming, LengthBody
            <6>2. L[0].of \in Answers
              BY <5>1, AtBuffer
            <6> QED BY <1>1, <6>1, <6>2 DEF Place, InLength
          <5>3. BodyOf(L[0].of) \in Seq(Inner)
            BY <5>2, BodyTyped DEF Typed
          <5>4. Len(BodyOf(L[0].of)) \in Nat
            BY <5>3
          <5> QED BY <3>1, <5>2, <5>4
        <4>2. \/ UNCHANGED <<buf, late, taken, verdict>>
              \/ SkipTo(c, ctx[c].bodysz)
          BY <2>2 DEF LengthBody
        <4>3. buf' = [buf EXCEPT ![c] = SubSeq(buf[c], n + 1, Len(buf[c]))]
          BY <3>1, <3>3, <4>2 DEF SkipTo, Set
        <4> QED BY <4>1, <4>3
      <3> QED BY <3>2, <3>3
    <2> QED BY <2>1, <2>2
  <1>8. Accepting(wire[c])' /\ Accepting(buf[c])'
    <2>1. CASE buf' = buf
      BY <1>1, <2>1 DEF Calm, Accepting
    <2> QED BY <1>1, <1>7, <2>1, SkipCalm
  <1> QED BY <1>0, <1>2, <1>4, <1>6, <1>8 DEF Calmly

LEMMA CalmParse ==
  ASSUME HttpInv, outcome = "running", NEW c \in Conn, ParseStep(c), Calm(c)
  PROVE  Calm(c)'
  <1>1. Typed /\ Flow(c)
    BY Underway
  <1>2. Parse(c) /\ toS' = toS /\ report' = report
    BY DEF ParseStep, client, server
  <1>3. conn' = conn /\ asked' = asked
    BY <1>1, <1>2, ParseOthers
  <1>4. Parsing(c)
    BY <1>2 DEF Parse, Consume, NothingRead, Start, PartOfLine, StatusLine, HeaderField, EmptyLine,
                ChunkSize, PartOfChunk, ChunkData, LengthBody, Parsing, InLine, InBody, InChunkSize
  <1>5. verdict[c] = "none"
    BY <1>1, <1>4 DEF Flow, Edges
  <1>6. ~NothingRead(c)
    BY DEF NothingRead, Calm
  <1>7. Calmly(c)
    BY <1>1, <1>2, <1>5, <1>6, QuietCalm, ConsumeCalm, StatusCalm, HeaderCalm, SizeCalm, BodyCalm DEF Parse
  <1> QED BY <1>3, <1>7 DEF Calm, Calmly

-----------------------------------------------------------------------------
(***************************************************************************)
(* The steps of such a run.                                                *)
(***************************************************************************)
Both == {"me", "root"}

\* The next step is taken with what there is, and with what this one has made.
LEMMA NextEquipped ==
  ASSUME Shape, Left >= 2, todo' = Tail(todo), Equipped, report' = report, edited' = edited,
         conn'["main"] = conn["main"] \/ conn'["main"] = "up",
         Left = 13 => conn'["main"] = "up",
         known["main"] = Both => known'["main"] = Both,
         Left = 11 => known'["main"] = Both,
         conn'["shadow"] = conn["shadow"] \/ conn'["shadow"] = "up"
           \/ (Step.file = NoFile /\ Left = 3),
         Step.file = NoFile /\ Left = 8 => conn'["shadow"] = "up",
         known["shadow"] = Both => known'["shadow"] = Both,
         Step.file = NoFile /\ Left = 6 => known'["shadow"] = Both,
         Step.file = NoFile /\ Left = 4 => edited = Len(report) + 1
  PROVE  Equipped'
  <1>1. /\ Left' = Left - 1
        /\ Step'.do = "connect" => Step'.what = "new"
        /\ Step'.file # NoFile => Step.file # NoFile /\ Step'.on = Step.on
        /\ Step.file # NoFile /\ Step'.file = NoFile => Left' = Under(Step.on)
    <2>1. /\ Left' = Left - 1
          /\ Step'.do = "connect" =>
               Left' = 8 /\ Step'.what = "new" /\ Step'.on = "shadow" /\ Step.file = NoFile
          /\ Step'.file # NoFile => Step'.file = Step.file /\ Step'.on = Step.on
          /\ Step.file # NoFile /\ Step'.file = NoFile =>
               /\ Left' = Under(Step.on) /\ Step.do = "parse"
               /\ Step.on = "shadow" => Step' = StepOf("parse", "main", "REPORT", NoFile)
      BY NextStep
    <2> QED BY <2>1
  <1>2. Left \in 2..13 /\ Step.on \in Conn
    BY SlotFacts
  <1>3. Under("shadow") = 4 /\ Under("main") = 2 /\ Step.on \in {"main", "shadow"}
    BY <1>2, UnderFacts DEF Conn
  <1>4. Left' <= 12 => conn'["main"] = "up"
    BY <1>1, <1>2 DEF Equipped
  <1>5. Left' <= 10 => known'["main"] = Both
    BY <1>1, <1>2 DEF Equipped, Both
  <1>6. Shadowed(7)' =>
          /\ Shadowed(7) \/ (Step.file = NoFile /\ Left = 8)
          /\ ~(Step.file = NoFile /\ Left = 3)
    BY <1>1, <1>2, <1>3 DEF Shadowed
  <1>7. Shadowed(5)' => Shadowed(5) \/ (Step.file = NoFile /\ Left = 6)
    BY <1>1, <1>2, <1>3 DEF Shadowed
  <1>8. Reported' => Reported \/ (Step.file = NoFile /\ Left = 4)
    BY <1>1, <1>2, <1>3 DEF Reported
  <1>9. Shadowed(7)' => conn'["shadow"] = "up"
    BY <1>6 DEF Equipped
  <1>10. Shadowed(5)' => known'["shadow"] = Both
    BY <1>7 DEF Equipped, Both
  <1>11. Reported' => edited' = Len(report') + 1
    BY <1>8 DEF Equipped
  <1> QED BY <1>1, <1>4, <1>5, <1>9, <1>10, <1>11 DEF Equipped, Both

\* Nothing changes of what the steps rely on.
LEMMA StillEquipped ==
  ASSUME Equipped, todo' = todo, conn' = conn, known' = known, report' = report,
         edited' = edited \/ ~Reported
  PROVE  Equipped'
  <1>1. Step' = Step /\ Left' = Left
    BY DEF Step, Left
  <1>2. (Shadowed(7)' <=> Shadowed(7)) /\ (Shadowed(5)' <=> Shadowed(5)) /\ (Reported' <=> Reported)
    BY <1>1 DEF Shadowed, Reported
  <1> QED BY <1>1, <1>2 DEF Equipped

LEMMA PlainStep ==
  ASSUME Shape, Step.file = NoFile
  PROVE  OfProgram(Left, Step) \/ Repeated(Left, Step)
  BY Kinds DEF Plainly

LEMMA FetchStep ==
  ASSUME Shape, Step.file # NoFile
  PROVE  Left <= 9 /\ \E i : OfFetch(i, Step.on, Step.file, Step)
  <1>1. ~Plainly
    BY DEF Plainly
  <1>2. PICK d \in Conn, f \in File : Fetching(d, f)
    BY <1>1 DEF Shape
  <1> DEFINE u == Under(d)
  <1>3. /\ u \in {2, 4} /\ Left \in (u + 1)..(u + 5) /\ Step.on = d /\ Step.file = f
        /\ \A e \in (u + 1)..Left : OfFetch(e - u, d, f, Slot(e))
    BY <1>2 DEF Fetching, Under
  <1> HIDE DEF u
  <1>4. Left \in (u + 1)..Left /\ Left <= 9
    BY <1>3
  <1>5. OfFetch(Left - u, d, f, Step)
    BY <1>3, <1>4, SlotFacts
  <1> QED BY <1>3, <1>4, <1>5

\* A step of a run in which nothing has failed.
LEMMA SmoothFacts ==
  ASSUME HttpInv, Lossless, Smooth, outcome = "running"
  PROVE  /\ Equipped /\ (\A d \in Conn : Calm(d)) /\ Shape
         /\ \A f \in File : got[f] \in {"none", "whole"}
         /\ \A d \in Conn : ~(Step.do = "parse" /\ Step.on = d) /\ ~(d = "main" /\ Step.file # NoFile)
              => ctx[d].state = "OUT" /\ verdict[d] = "none" /\ ~stale[d]
         /\ Step.do \in {"request", "parse"} => conn[Step.on] = "up"
  <1>1. /\ Equipped /\ (\A d \in Conn : Calm(d)) /\ \A f \in File : got[f] \in {"none", "whole"}
    BY DEF Lossless, Smooth, NothingLost
  <1>2. Shape /\ BusyRight /\ Step.on \in Conn
    BY Underway
  <1>3. ASSUME NEW d \in Conn, ~(Step.do = "parse" /\ Step.on = d), ~(d = "main" /\ Step.file # NoFile)
        PROVE  ctx[d].state = "OUT" /\ verdict[d] = "none" /\ ~stale[d]
    <2>1. ~Busy(d)
      BY <1>2, <1>3 DEF BusyRight
    <2>2. ctx[d].state = "OUT" /\ verdict[d] = "none"
      BY <2>1 DEF Busy, Parsing
    <2> QED BY <1>1, <2>2 DEF Calm
  <1>4. ASSUME Step.do \in {"request", "parse"} PROVE conn[Step.on] = "up"
    <2>1. CASE Step.on = "main"
      <3>1. Left <= 12
        <4>1. CASE Step.file = NoFile
          <5>1. Left \in {4, 5, 6, 7, 9, 10, 11, 12}
            BY <1>2, <1>4, <4>1, Kinds
          <5> QED BY <5>1
        <4>2. CASE Step.file # NoFile
          <5>1. Left <= 9 /\ Left \in Nat
            BY <1>2, <4>2, FetchStep, SlotFacts
          <5> QED BY <5>1
        <4> QED BY <4>1, <4>2
      <3> QED BY <1>1, <2>1, <3>1 DEF Equipped
    <2>2. CASE Step.on # "main"
      <3>1. Step.on = "shadow"
        BY <1>2, <2>2 DEF Conn
      <3>2. Shadowed(7)
        <4>1. CASE Step.file = NoFile
          <5>1. OfProgram(Left, Step) \/ Repeated(Left, Step)
            BY <1>2, <4>1, PlainStep
          <5>2. Left \in {6, 7}
            BY <1>4, <3>1, <5>1 DEF OfProgram, Repeated, StepOf
          <5> QED BY <4>1, <5>2 DEF Shadowed
        <4>2. CASE Step.file # NoFile
          BY <3>1, <4>2 DEF Shadowed
        <4> QED BY <4>1, <4>2
      <3> QED BY <1>1, <3>1, <3>2 DEF Equipped
    <2> QED BY <2>1, <2>2
  <1> QED BY <1>1, <1>2, <1>3, <1>4

LEMMA LosslessParse ==
  ASSUME HttpInv, Lossless, Smooth, outcome = "running", NEW c \in Conn, ParseStep(c)
  PROVE  Lossless'
  <1>1. Equipped /\ \A d \in Conn : Calm(d)
    BY SmoothFacts
  <1>2. /\ Parse(c) /\ toS' = toS /\ todo' = todo /\ outcome' = outcome /\ known' = known
        /\ edited' = edited /\ got' = got /\ report' = report /\ cuts' = cuts /\ refusals' = refusals
    BY DEF ParseStep, client, server
  <1>3. conn' = conn /\ \A d \in Conn \ {c} : Same(d)
    BY <1>2, ParseOthers, Underway
  <1>4. Equipped'
    BY <1>1, <1>2, <1>3, StillEquipped
  <1>5. ASSUME NEW d \in Conn PROVE Calm(d)'
    <2>1. CASE d = c
      BY <1>1, <2>1, CalmParse
    <2>2. CASE d # c
      BY <1>1, <1>3, <2>2, CalmSame
    <2> QED BY <2>1, <2>2
  <1>6. NothingLost'
    BY <1>2 DEF NothingLost, Lossless, Smooth
  <1> QED BY <1>4, <1>5, <1>6 DEF Lossless



LEMMA LosslessReach ==
  ASSUME HttpInv, Lossless, Smooth, outcome = "running", NEW c \in Conn, Reach(c)
  PROVE  Lossless'
  <1>1. /\ Equipped /\ (\A d \in Conn : Calm(d)) /\ Shape
        /\ \A f \in File : got[f] \in {"none", "whole"}
        /\ \A d \in Conn : ~(Step.do = "parse" /\ Step.on = d) /\ ~(d = "main" /\ Step.file # NoFile)
              => ctx[d].state = "OUT" /\ verdict[d] = "none" /\ ~stale[d]
    BY SmoothFacts
  <1>2. /\ Step.do = "connect" /\ Step.on = c
        /\ wire' = [wire EXCEPT ![c] = <<>>]
        /\ stale' = [stale EXCEPT ![c] = (Step.what = "again" /\ late[c])]
        /\ ctx' = ctx /\ asked' = asked /\ taken' = taken /\ verdict' = verdict
        /\ known' = known /\ edited' = edited /\ report' = report /\ refusals' = refusals
        /\ Step.what = "new" => buf' = [buf EXCEPT ![c] = <<>>]
        /\ \/ conn' = [conn EXCEPT ![c] = "up"] /\ todo' = Tail(todo) /\ outcome' = outcome
              /\ got' = got /\ cuts' = cuts
           \/ cuts' = cuts + 1
    BY DEF Reach, At, Set, Advance
  <1>3. Typed
    BY Underway
  <1>4. CASE cuts' = cuts + 1
    <2>1. ~(cuts' = 0)
      BY <1>4 DEF Smooth
    <2> QED BY <2>1 DEF Lossless, NothingLost, Smooth
  <1>5. CASE /\ conn' = [conn EXCEPT ![c] = "up"] /\ todo' = Tail(todo) /\ outcome' = outcome
             /\ got' = got /\ cuts' = cuts
    <2>1. Step.what = "new"
      BY <1>1, <1>2 DEF Equipped
    <2>2. Step.file = NoFile
      <3>1. ASSUME Step.file # NoFile PROVE FALSE
        <4>1. PICK i : OfFetch(i, Step.on, Step.file, Step)
          BY <1>1, <3>1, FetchStep
        <4> QED BY <1>2, <2>1, <4>1 DEF OfFetch, StepOf
      <3> QED BY <3>1
    <2>3. (Left = 8 /\ c = "shadow") \/ (Left = 13 /\ c = "main")
      <3>1. OfProgram(Left, Step) \/ Repeated(Left, Step)
        BY <1>1, <2>2, PlainStep
      <3> QED BY <1>2, <2>1, <3>1 DEF OfProgram, Repeated, StepOf
    <2>4. /\ conn'[c] = "up" /\ \A d \in Conn \ {c} : conn'[d] = conn[d]
      <3>1. conn \in [Conn -> {"none", "up", "eof", "reset"}]
        BY <1>3 DEF Typed
      <3> QED BY <1>5, <3>1
    <2>5. /\ conn'["main"] = conn["main"] \/ conn'["main"] = "up"
          /\ Left = 13 => conn'["main"] = "up"
          /\ conn'["shadow"] = conn["shadow"] \/ conn'["shadow"] = "up"
          /\ Step.file = NoFile /\ Left = 8 => conn'["shadow"] = "up"
          /\ Left >= 2
      BY <2>3, <2>4 DEF Conn
    <2>6. Left # 11 /\ Left # 6 /\ Left # 4
      BY <2>3
    <2>7. Equipped'
      BY <1>1, <1>2, <1>5, <2>5, <2>6, NextEquipped
    <2>8. ASSUME NEW d \in Conn \ {c} PROVE Calm(d)'
      <3>1. /\ wire'[d] = wire[d] /\ buf'[d] = buf[d] /\ stale'[d] = stale[d]
        BY <1>2, <1>3, <2>1 DEF Typed, StreamTyped
      <3> QED BY <1>1, <1>2, <2>4, <3>1 DEF Calm, Accepting, Within
    <2>9. Calm(c)'
      <3>1. ctx[c].state = "OUT" /\ verdict[c] = "none"
        BY <1>1, <1>2, <2>2
      <3>2. wire'[c] = <<>> /\ buf'[c] = <<>> /\ ~stale'[c]
        <4>1. /\ wire \in [Conn -> Seq(Symbol)] /\ buf \in [Conn -> Seq(Symbol)]
              /\ stale \in [Conn -> BOOLEAN]
          BY <1>3 DEF Typed, StreamTyped
        <4> QED BY <1>2, <2>1, <4>1
      <3>3. Accepting(wire[c])' /\ Accepting(buf[c])'
        BY <3>2 DEF Accepting
      <3> QED BY <1>2, <2>4, <3>1, <3>2, <3>3 DEF Calm, Within
    <2>10. NothingLost'
      BY <1>2, <1>5 DEF NothingLost, Lossless, Smooth
    <2> QED BY <2>7, <2>8, <2>9, <2>10 DEF Lossless
  <1> QED BY <1>2, <1>4, <1>5

\* Every request has its address.
LEMMA Addressed ==
  ASSUME HttpInv, Lossless, Smooth, outcome = "running", Step.do = "request"
  PROVE  AddressedBy(Step.what) \subseteq known[Step.on]
  <1>1. Equipped /\ Shape /\ Step.on \in Conn
    BY SmoothFacts, Underway
  <1>2. Step.on = "main" \/ Step.on = "shadow"
    BY <1>1 DEF Conn
  <1>3. AddressedBy("OPTIONS") = {} /\ \A w : w \in Requests => AddressedBy(w) \subseteq Both
    BY DEF AddressedBy, Requests, Both
  <1>4. CASE Step.file = NoFile
    <2>1. OfProgram(Left, Step) \/ Repeated(Left, Step)
      BY <1>1, <1>4, PlainStep
    <2>2. \/ Left \in {5, 10} /\ Step.on = "main" /\ Step.what \in {"REPORT", "CHECK"}
          \/ Step.what = "OPTIONS"
      BY <2>1, Step.do = "request" DEF OfProgram, Repeated, StepOf
    <2>3. CASE Left \in {5, 10} /\ Step.on = "main" /\ Step.what \in {"REPORT", "CHECK"}
      <3>1. known["main"] = Both
        BY <1>1, <2>3 DEF Equipped, Both
      <3> QED BY <1>3, <2>3, <3>1 DEF Requests
    <2> QED BY <1>3, <2>2, <2>3
  <1>5. CASE Step.file # NoFile
    <2>1. Left <= 9 /\ Step.what \in Requests
      <3>1. PICK i : OfFetch(i, Step.on, Step.file, Step) /\ Left <= 9
        BY <1>1, <1>5, FetchStep
      <3> QED BY <3>1, Step.do = "request" DEF OfFetch, StepOf, Requests
    <2>2. known[Step.on] = Both
      <3>1. CASE Step.on = "main"
        <4>1. Left <= 10
          BY <1>1, <2>1, SlotFacts
        <4> QED BY <1>1, <3>1, <4>1 DEF Equipped, Both
      <3>2. CASE Step.on = "shadow"
        BY <1>1, <1>5, <3>2 DEF Equipped, Shadowed, Both
      <3> QED BY <1>2, <3>1, <3>2
    <2> QED BY <1>3, <2>1, <2>2
  <1> QED BY <1>4, <1>5

LEMMA LosslessSend ==
  ASSUME HttpInv, Lossless, Smooth, outcome = "running", NEW c \in Conn, Send(c)
  PROVE  Lossless'
  <1>1. /\ Equipped /\ (\A d \in Conn : Calm(d)) /\ Shape
        /\ \A d \in Conn : ~(Step.do = "parse" /\ Step.on = d) /\ ~(d = "main" /\ Step.file # NoFile)
              => ctx[d].state = "OUT" /\ verdict[d] = "none" /\ ~stale[d]
        /\ Step.do \in {"request", "parse"} => conn[Step.on] = "up"
    BY SmoothFacts
  <1>2. Typed /\ BusyRight
    BY Underway
  <1>3. /\ Step.do = "request" /\ Step.on = c
        /\ wire' = wire /\ buf' = buf /\ stale' = stale /\ known' = known /\ edited' = edited
        /\ report' = report /\ cuts' = cuts /\ refusals' = refusals
    BY DEF Send, At, stream
  <1>4. /\ Deliver(c) /\ Advance
        /\ Set(asked, c, Asking(Step.what, Step.file))
        /\ Set(ctx, c, CtxInit) /\ Set(taken, c, <<>>) /\ Set(verdict, c, "none")
        /\ got' = got
    BY <1>1, <1>3 DEF Send
  <1>5. conn' = conn /\ todo' = Tail(todo) /\ outcome' = outcome
    BY <1>1, <1>3, <1>4 DEF Deliver, Advance
  <1>6. Left >= 3 /\ Left # 13 /\ Left # 11 /\ ~(Step.file = NoFile /\ Left \in {4, 6, 8})
    <2>1. CASE Step.file = NoFile
      <3>1. Left \in {5, 7, 10, 12}
        BY <1>1, <1>3, <2>1, Kinds
      <3> QED BY <3>1
    <2>2. CASE Step.file # NoFile
      <3>1. Left >= 3 /\ Left <= 9 /\ Left \in Nat
        BY <1>1, <1>3, <2>2, Kinds, SlotFacts
      <3> QED BY <2>2, <3>1
    <2> QED BY <2>1, <2>2
  <1>7. Equipped'
    <2>1. Left >= 2
      BY <1>1, <1>6, SlotFacts
    <2> QED BY <1>1, <1>3, <1>5, <1>6, <2>1, NextEquipped
  <1>8. verdict[c] = "none"
    BY <1>2, <1>3 DEF BusyRight, Busy
  <1>9. ~stale[c]
    BY <1>1, <1>8 DEF Calm
  <1>10. /\ ctx'[c] = CtxInit /\ verdict'[c] = "none"
         /\ \A d \in Conn \ {c} : /\ ctx'[d] = ctx[d] /\ verdict'[d] = verdict[d]
                                  /\ asked'[d] = asked[d] /\ taken'[d] = taken[d]
    BY <1>2, <1>4 DEF Set, Typed
  <1>11. Calm(c)'
    <2>1. ctx'[c].state = "START"
      BY <1>10 DEF CtxInit
    <2> QED BY <1>1, <1>3, <1>5, <1>9, <1>10, <2>1 DEF Calm, Accepting, Within
  <1>12. ASSUME NEW d \in Conn \ {c} PROVE Calm(d)'
    BY <1>1, <1>3, <1>5, <1>10 DEF Calm, Accepting, Within
  <1>13. NothingLost'
    BY <1>3, <1>4, <1>5 DEF NothingLost, Lossless, Smooth
  <1> QED BY <1>7, <1>11, <1>12, <1>13 DEF Lossless

LEMMA LosslessEdit ==
  ASSUME HttpInv, Lossless, Smooth, outcome = "running", EditCommand
  PROVE  Lossless'
  <1>1. Equipped /\ (\A d \in Conn : Calm(d)) /\ Shape
    BY SmoothFacts
  <1>2. /\ Step.do = "parse" /\ Step.on = "main" /\ Step.what = "REPORT"
        /\ parseVars' = parseVars /\ outcome' = outcome /\ known' = known /\ got' = got
        /\ report' = report /\ toS' = toS /\ cuts' = cuts /\ refusals' = refusals
        /\ \/ todo' = todo
           \/ edited < Len(report) /\ todo' = GetFile("shadow", report[edited + 1]) \o todo
    BY DEF EditCommand, At, server
  <1>3. \A d \in Conn : Calm(d)'
    BY <1>1, <1>2 DEF parseVars, stream, Calm, Accepting, Within
  <1>4. Left = 4 /\ Step.file = NoFile
    <2>1. CASE Step.file = NoFile
      <3>1. OfProgram(Left, Step) \/ Repeated(Left, Step)
        BY <1>1, <2>1, PlainStep
      <3> QED BY <1>2, <2>1, <3>1 DEF OfProgram, Repeated, StepOf
    <2>2. CASE Step.file # NoFile
      <3>1. PICK i : OfFetch(i, Step.on, Step.file, Step)
        BY <1>1, <2>2, FetchStep
      <3> QED BY <1>2, <3>1 DEF OfFetch, StepOf
    <2> QED BY <2>1, <2>2
  <1>5. Equipped'
    <2>1. CASE todo' = todo
      <3>1. ~Reported
        BY <1>4 DEF Reported
      <3> QED BY <1>1, <1>2, <2>1, <3>1, StillEquipped DEF parseVars
    <2>2. CASE edited < Len(report) /\ todo' = GetFile("shadow", report[edited + 1]) \o todo
      <3>1. PICK f : f = report[edited + 1]
        OBVIOUS
      <3>2. f \in File
        <4>1. edited \in Nat /\ report \in Seq(File)
          BY Underway DEF Typed, ReportTyped
        <4>2. edited + 1 \in 1..Len(report)
          BY <2>2, <4>1
        <4> QED BY <3>1, <4>1, <4>2
      <3>3. /\ Left' = 8
            /\ Step' = StepOf("request", "shadow", "PROPFIND", f)
        BY <1>1, <1>2, <2>2, <3>1, <3>2, EditShape
      <3>4. Step'.do = "request" /\ Step'.on = "shadow" /\ Step'.file # NoFile
        BY <3>2, <3>3, StepOfIs, NoFileAssumption
      <3>5. conn["main"] = "up" /\ known["main"] = Both /\ conn["shadow"] = "up" /\ known["shadow"] = Both
        BY <1>1, <1>4 DEF Equipped, Shadowed, Both
      <3>6. conn' = conn
        BY <1>2 DEF parseVars
      <3>7. ~Reported'
        BY <3>4 DEF Reported
      <3> QED BY <1>2, <3>4, <3>5, <3>6, <3>7 DEF Equipped, Both
    <2> QED BY <1>2, <2>1, <2>2
  <1>6. NothingLost'
    BY <1>2 DEF NothingLost, Lossless, Smooth, parseVars
  <1> QED BY <1>3, <1>5, <1>6 DEF Lossless

LEMMA LosslessClose ==
  ASSUME HttpInv, Lossless, Smooth, outcome = "running", CloseShadow
  PROVE  Lossless'
  <1>1. Equipped /\ (\A d \in Conn : Calm(d)) /\ Shape
    BY SmoothFacts
  <1>2. /\ Step.do = "close" /\ conn' = [conn EXCEPT !["shadow"] = "none"]
        /\ todo' = Tail(todo) /\ outcome' = outcome
        /\ wire' = wire /\ buf' = buf /\ ctx' = ctx /\ asked' = asked
        /\ taken' = taken /\ verdict' = verdict /\ stale' = stale /\ known' = known
        /\ edited' = edited /\ got' = got
        /\ report' = report /\ cuts' = cuts /\ refusals' = refusals
    BY DEF CloseShadow, At, Advance, stream, server
  <1>3. Left = 3 /\ Step.file = NoFile
    BY <1>1, <1>2, Kinds
  <1>4. conn'["shadow"] = "none" /\ conn'["main"] = conn["main"]
    BY <1>2, Underway DEF Typed, Conn
  <1>5. Equipped'
    BY <1>1, <1>2, <1>3, <1>4, NextEquipped
  <1>6. \A d \in Conn : conn'[d] \in {"none", "up"}
    BY <1>1, <1>4 DEF Calm, Conn
  <1>7. \A d \in Conn : Calm(d)'
    BY <1>1, <1>2, <1>6 DEF Calm, Accepting, Within
  <1>8. NothingLost'
    BY <1>2 DEF NothingLost, Lossless, Smooth
  <1> QED BY <1>5, <1>7, <1>8 DEF Lossless

LEMMA LosslessSave ==
  ASSUME HttpInv, Lossless, Smooth, outcome = "running", Save
  PROVE  Lossless'
  <1>1. Equipped /\ Shape /\ \A f \in File : got[f] \in {"none", "whole"}
    BY SmoothFacts
  <1>2. /\ Step.do = "save" /\ outcome' = "recorded" /\ edited' = edited /\ got' = got
        /\ report' = report
    BY DEF Save, At, server
  <1>3. Left = 1 /\ Step.file = NoFile
    BY <1>1, <1>2, Kinds
  <1>4. edited = Len(report) + 1
    BY <1>1, <1>3 DEF Equipped, Reported
  <1> QED BY <1>1, <1>2, <1>4 DEF Lossless, NothingLost

LEMMA LosslessRepair ==
  ASSUME HttpInv, Lossless, Smooth, outcome = "running", RepairStep
  PROVE  Lossless'
  <1>1. Equipped /\ (\A d \in Conn : Calm(d)) /\ Shape
    BY SmoothFacts
  <1>2. /\ Step.do = "repair" /\ outcome' = outcome
        /\ parseVars' = parseVars /\ known' = known /\ edited' = edited /\ got' = got
        /\ report' = report /\ cuts' = cuts /\ refusals' = refusals
        /\ \/ \E f \in bad : todo' = GetFile("main", f) \o Repair("busy")
           \/ todo' = Tail(todo)
    BY DEF RepairStep, At, Advance, server
  <1>3. \A d \in Conn : Calm(d)'
    BY <1>1, <1>2 DEF parseVars, stream, Calm, Accepting, Within
  <1>4. Left = 2 /\ Step.file = NoFile
    BY <1>1, <1>2, Kinds
  <1>5. conn' = conn
    BY <1>2 DEF parseVars
  <1>6. Equipped'
    <2>1. CASE \E f \in bad : todo' = GetFile("main", f) \o Repair("busy")
      <3>1. PICK f \in bad : todo' = GetFile("main", f) \o Repair("busy")
        BY <2>1
      <3>2. f \in File
        BY Underway DEF Typed
      <3>3. Step' = StepOf("request", "main", "PROPFIND", f)
        BY <1>1, <1>2, <3>1, <3>2, RepairShape
      <3>4. Step'.do = "request" /\ Step'.on = "main" /\ Step'.file # NoFile
        BY <3>2, <3>3, StepOfIs, NoFileAssumption
      <3>5. conn["main"] = "up" /\ known["main"] = Both /\ edited = Len(report) + 1
        BY <1>1, <1>4 DEF Equipped, Reported, Both
      <3>6. ~Shadowed(7)' /\ ~Shadowed(5)'
        BY <3>4 DEF Shadowed
      <3> QED BY <1>2, <1>5, <3>4, <3>5, <3>6 DEF Equipped, Both
    <2>2. CASE todo' = Tail(todo)
      BY <1>1, <1>2, <1>4, <1>5, <2>2, NextEquipped
    <2> QED BY <1>2, <2>1, <2>2
  <1>7. NothingLost'
    BY <1>2 DEF NothingLost, Lossless, Smooth, parseVars
  <1> QED BY <1>3, <1>6, <1>7 DEF Lossless

\* What OPTIONS has told when its answer has come.
LEMMA ToldBoth ==
  ASSUME NEW c \in Conn, taken[c] \in Seq(Symbol), Heard(c), asked[c].what = "OPTIONS",
         Len(taken[c]) = 2
  PROVE  {h.is : h \in Range(taken[c])} = Both
  <1>1. PICK t : t = taken[c]
    OBVIOUS
  <1>2. Len(t) = 2 /\ t \in Seq(Symbol) /\ t[1].is = "me" /\ t[2].is = "root"
    BY <1>1 DEF Heard, Told
  <1>3. Range(t) = {t[i] : i \in 1..2} /\ 1..2 = {1, 2}
    BY <1>2 DEF Range
  <1>4. Range(t) = {t[1], t[2]}
    BY <1>3
  <1>5. {h.is : h \in Range(t)} = {t[1].is, t[2].is}
    BY <1>4
  <1> QED BY <1>1, <1>2, <1>5 DEF Both

\* The answers to REPORT and GET have come whole.
LEMMA CameWhole ==
  ASSUME HttpInv, NEW c \in Conn, HasBody(asked[c]), verdict[c] = "done", conn[c] = "up", ~stale[c]
  PROVE  taken[c] = Body(asked[c])
  <1>1. PICK q \in Made, m \in Nat :
          /\ Body(q) \in Seq(Symbol) /\ taken[c] = SubSeq(Body(q), 1, m)
          /\ q = asked[c] /\ m = Len(Body(q))
    BY OfOneAnswer
  <1>2. PICK b : b = Body(q)
    OBVIOUS
  <1>3. b \in Seq(Symbol) /\ taken[c] = SubSeq(b, 1, Len(b))
    BY <1>1, <1>2
  <1>4. SubSeq(b, 1, Len(b)) = b
    BY <1>3
  <1> QED BY <1>1, <1>2, <1>3, <1>4

LEMMA LosslessReturned ==
  ASSUME HttpInv, Lossless, Smooth, outcome = "running", NEW c \in Conn, Returned(c)
  PROVE  Lossless'
  <1>1. /\ Equipped /\ (\A d \in Conn : Calm(d)) /\ Shape
        /\ \A f \in File : got[f] \in {"none", "whole"}
        /\ Step.do \in {"request", "parse"} => conn[Step.on] = "up"
    BY SmoothFacts
  <1>2. Typed /\ AskedRight /\ KnownRight /\ Heard(c) /\ c \in {"main", "shadow"}
    BY Underway DEF Conn
  <1> DEFINE more == IF Step.what = "OPTIONS" THEN {h.is : h \in Range(taken[c])} ELSE {}
  <1>3. /\ Step.do = "parse" /\ Step.on = c /\ verdict[c] # "none" /\ ~InCallback
        /\ verdict' = [verdict EXCEPT ![c] = "none"]
        /\ known' = [known EXCEPT ![c] = known[c] \cup more]
        /\ conn' = conn /\ wire' = wire /\ buf' = buf
        /\ ctx' = ctx /\ asked' = asked /\ taken' = taken /\ stale' = stale
        /\ edited' = edited
        /\ report' = report /\ cuts' = cuts /\ refusals' = refusals
    BY DEF Returned, At, Set, stream, server
  <1>4. \/ /\ verdict[c] = "done" /\ todo' = Tail(todo) /\ outcome' = outcome
           /\ IF Step.what = "GET" THEN Fetched(Step.file, Contents(c)) ELSE got' = got
        \/ /\ verdict[c] = "error" /\ Failed /\ Fetched(Step.file, "lost")
    <2>1. verdict[c] # "empty"
      BY <1>1 DEF Calm
    <2> QED BY <2>1 DEF Returned, Advance
  <1>5. asked[c] = Asking(Step.what, Step.file) /\ asked[c].what = Step.what /\ asked[c].file = Step.file
        /\ asked[c] \in Made
    BY <1>2, <1>3 DEF AskedRight, Asking, Typed
  <1>6. conn[c] = "up"
    BY <1>1, <1>3
  <1>7. CASE verdict[c] = "error" /\ Failed /\ Fetched(Step.file, "lost")
    <2>1. Step.what = "CHECK" /\ Step.file = NoFile
      <3>1. Step.what = "CHECK"
        BY <1>1, <1>5, <1>7 DEF Calm
      <3> QED BY <1>5, <3>1, MadeFacts
    <2>2. c = "main"
      <3>1. OfProgram(Left, Step) \/ Repeated(Left, Step)
        BY <1>1, <2>1, PlainStep
      <3> QED BY <1>3, <2>1, <3>1 DEF OfProgram, Repeated, StepOf
    <2>3. outcome' = "failed" /\ got' = got /\ asked'["main"].what = "CHECK"
      BY <1>3, <1>5, <1>7, <2>1, <2>2 DEF Failed, Fetched
    <2> QED BY <1>1, <2>3 DEF Lossless, NothingLost
  <1>8. CASE /\ verdict[c] = "done" /\ todo' = Tail(todo) /\ outcome' = outcome
             /\ IF Step.what = "GET" THEN Fetched(Step.file, Contents(c)) ELSE got' = got
    <2>1. ~stale[c]
      BY <1>1, <1>8 DEF Calm
    <2>2. Step.what = "OPTIONS" => more = Both
      <3>1. Step.what = "OPTIONS" => Len(taken[c]) = 2 /\ taken[c] \in Seq(Symbol)
        BY <1>1, <1>2, <1>5, <1>8 DEF Calm, Typed
      <3> QED BY <1>2, <1>5, <3>1, ToldBoth
    <2>3. more \subseteq Both
      <3>1. Step.what # "OPTIONS" => more = {}
        OBVIOUS
      <3> QED BY <2>2, <3>1
    <2> HIDE DEF more
    <2>4. /\ known'[c] = known[c] \cup more /\ \A d \in Conn \ {c} : known'[d] = known[d]
          /\ known \in [Conn -> SUBSET Both]
      BY <1>2, <1>3 DEF Typed, Both
    <2>5. \A d \in Conn : known[d] = Both => known'[d] = Both
      BY <2>3, <2>4
    <2>6. Step.what = "OPTIONS" => known'[c] = Both
      BY <2>2, <2>4
    <2>7. Left >= 2 /\ Left # 13
      <3>1. Left >= 3 /\ Left \in Nat
        BY <1>1, <1>3, Kinds, SlotFacts
      <3>2. Left # 13
        BY <1>1, <1>3, Kinds
      <3> QED BY <3>1, <3>2
    <2>8. Left = 11 => known'["main"] = Both
      <3> SUFFICES ASSUME Left = 11 PROVE known'["main"] = Both
        OBVIOUS
      <3>1. Step.file = NoFile
        BY <1>1, FetchStep
      <3>2. OfProgram(Left, Step) \/ Repeated(Left, Step)
        BY <1>1, <3>1, PlainStep
      <3>3. Step.what = "OPTIONS" /\ c = "main"
        BY <1>3, <3>2 DEF OfProgram, Repeated, StepOf
      <3> QED BY <2>6, <3>3
    <2>9. Step.file = NoFile /\ Left = 6 => known'["shadow"] = Both
      <3> SUFFICES ASSUME Step.file = NoFile, Left = 6 PROVE known'["shadow"] = Both
        OBVIOUS
      <3>1. OfProgram(Left, Step) \/ Repeated(Left, Step)
        BY <1>1, PlainStep
      <3>2. Step.what = "OPTIONS" /\ c = "shadow"
        BY <1>3, <3>1 DEF OfProgram, Repeated, StepOf
      <3> QED BY <2>6, <3>2
    <2>10. Step.file = NoFile /\ Left = 4 => edited = Len(report) + 1
      <3> SUFFICES ASSUME Step.file = NoFile, Left = 4 PROVE edited = Len(report) + 1
        OBVIOUS
      <3>1. OfProgram(Left, Step) \/ Repeated(Left, Step)
        BY <1>1, PlainStep
      <3>2. Step.what = "REPORT" /\ c = "main"
        BY <3>1, <1>3 DEF OfProgram, Repeated, StepOf
      <3>3. taken["main"] = Body(asked["main"])
        BY <1>5, <1>6, <1>8, <2>1, <3>2, CameWhole DEF HasBody
      <3>4. Body(asked["main"]) = [i \in 1..(Len(report) + 1) |-> Data("element", i, asked["main"])]
        BY <1>5, <3>2 DEF Body
      <3>5. edited \in 0..(Len(report) + 1) /\ Len(report) \in Nat
        BY <1>2 DEF Typed, ReportTyped
      <3>6. Len(taken["main"]) = Len(report) + 1
        BY <3>3, <3>4, <3>5
      <3> QED BY <1>3, <3>2, <3>5, <3>6 DEF InCallback
    <2>11. Equipped'
      <3>1. /\ known["main"] = Both => known'["main"] = Both
            /\ known["shadow"] = Both => known'["shadow"] = Both
        BY <2>5 DEF Conn
      <3>2. Step.file = NoFile => Left # 8
        <4> SUFFICES ASSUME Step.file = NoFile, Left = 8 PROVE FALSE
          OBVIOUS
        <4>1. OfProgram(Left, Step) \/ Repeated(Left, Step)
          BY <1>1, PlainStep
        <4> QED BY <1>3, <4>1 DEF OfProgram, Repeated, StepOf
      <3> QED BY <1>1, <1>3, <1>8, <2>7, <2>8, <2>9, <2>10, <3>1, <3>2, NextEquipped
    <2>12. ASSUME NEW d \in Conn PROVE Calm(d)'
      <3>1. verdict'[c] = "none" /\ (d # c => verdict'[d] = verdict[d])
        BY <1>2, <1>3 DEF Typed
      <3>2. CASE d = c
        BY <1>1, <1>3, <2>1, <3>1, <3>2 DEF Calm, Accepting, Within
      <3>3. CASE d # c
        BY <1>1, <1>3, <3>1, <3>3 DEF Calm, Accepting, Within
      <3> QED BY <3>2, <3>3
    <2>13. \A f \in File : got'[f] \in {"none", "whole"}
      <3>1. CASE Step.what # "GET"
        BY <1>1, <1>8, <3>1
      <3>2. CASE Step.what = "GET"
        <4>1. taken[c] = Body(asked[c])
          BY <1>5, <1>6, <1>8, <2>1, <3>2, CameWhole DEF HasBody
        <4>2. Fetched(Step.file, "whole")
          BY <1>8, <3>2, <4>1 DEF Contents, Fetched
        <4>3. got \in [File -> {"none", "whole", "part", "lost"}]
          BY <1>2 DEF Typed
        <4> QED BY <1>1, <4>2, <4>3 DEF Fetched
      <3> QED BY <3>1, <3>2
    <2>14. NothingLost'
      BY <1>8, <2>13 DEF NothingLost
    <2> QED BY <2>11, <2>12, <2>14 DEF Lossless
  <1> QED BY <1>4, <1>7, <1>8

LEMMA LosslessServe ==
  ASSUME HttpInv, Lossless, Smooth, outcome = "running", NEW c \in Conn, Serve(c)
  PROVE  Lossless'
  <1>1. Equipped /\ (\A d \in Conn : Calm(d)) /\ Typed
    BY SmoothFacts, Underway
  <1>2. /\ toS[c] # <<>>
        /\ conn' = conn /\ buf' = buf /\ ctx' = ctx /\ asked' = asked
        /\ taken' = taken /\ verdict' = verdict /\ stale' = stale
        /\ todo' = todo /\ outcome' = outcome /\ known' = known /\ edited' = edited
        /\ got' = got /\ report' = report /\ cuts' = cuts
    BY DEF Serve, client
  <1>3. CASE refusals' = refusals + 1
    <2>1. ~Smooth'
      BY <1>3 DEF Smooth
    <2> QED BY <2>1 DEF Lossless, NothingLost, Smooth
  <1>4. CASE \E framing \in FramingsOf(Head(toS[c])) :
               wire' = [wire EXCEPT ![c] = wire[c] \o Answer(Head(toS[c]), framing)]
    <2>1. Head(toS[c]) \in Made /\ wire[c] \in Seq(Symbol) /\ ReportTyped
          /\ wire \in [Conn -> Seq(Symbol)]
      BY <1>1, <1>2 DEF Typed, StreamTyped
    <2>2. PICK a \in Answers : ~Refused(a) /\ wire' = [wire EXCEPT ![c] = wire[c] \o Sent(a)]
      <3>1. PICK framing \in FramingsOf(Head(toS[c])) :
              wire' = [wire EXCEPT ![c] = wire[c] \o Answer(Head(toS[c]), framing)]
        BY <1>4
      <3>2. PICK a \in Answers : ~Refused(a) /\ Sent(a) = Answer(Head(toS[c]), framing)
        BY <2>1, AnswerIs
      <3> QED BY <3>1, <3>2
    <2>3. PICK s \in Seq(Symbol) : s = Sent(a) /\ Accepting(s)
      BY <2>1, <2>2, AnswerHead, AcceptingAnswer
    <2>4. PICK w \in Seq(Symbol) : w = wire[c] \o s /\ Accepting(w)
      <3>1. Accepting(wire[c])
        BY <1>1 DEF Calm
      <3>2. wire[c] \o s \in Seq(Symbol)
        BY <2>1, <2>3, Joined
      <3>3. Accepting(wire[c] \o s)
        BY <2>1, <2>3, <3>1, AcceptingBoth
      <3> QED BY <3>2, <3>3
    <2>5. wire'[c] = w /\ \A d \in Conn \ {c} : wire'[d] = wire[d]
      BY <2>1, <2>2, <2>3, <2>4
    <2>6. ASSUME NEW d \in Conn PROVE Accepting(wire[d])'
      <3>1. CASE d = c
        <4>1. \A i \in DOMAIN w : w[i].is = "status" => w[i].val # 404
          BY <2>4 DEF Accepting
        <4>2. wire'[d] = w
          BY <2>5, <3>1
        <4> QED BY <4>1, <4>2 DEF Accepting
      <3>2. CASE d # c
        BY <1>1, <2>5, <3>2 DEF Accepting, Calm
      <3> QED BY <3>1, <3>2
    <2>7. \A d \in Conn : Calm(d)'
      BY <1>1, <1>2, <2>6 DEF Calm, Accepting, Within
    <2>8. Equipped'
      BY <1>1, <1>2, StillEquipped
    <2>9. NothingLost'
      BY <1>2 DEF NothingLost, Lossless, Smooth
    <2> QED BY <2>7, <2>8, <2>9 DEF Lossless
  <1> QED BY <1>3, <1>4 DEF Serve, Set

\* A run that has met a refusal or a cut promises nothing more.
LEMMA Roughly == ~Smooth' => Lossless'
  BY DEF Lossless, NothingLost, Smooth

LEMMA StaysRough ==
  ASSUME Typed, [Next]_vars, ~Smooth
  PROVE  ~Smooth'
  <1>1. cuts \in Nat /\ refusals \in Nat
    BY BoundAssumption DEF Typed
  <1>2. cuts' \in {cuts, cuts + 1} /\ refusals' \in {refusals, refusals + 1}
    <2>1. ASSUME NEW c \in Conn,
                 Reach(c) \/ Send(c) \/ SendUnaddressed(c) \/ ParseStep(c) \/ Returned(c)
          PROVE  cuts' \in {cuts, cuts + 1} /\ refusals' = refusals
      BY <2>1 DEF Reach, Send, SendUnaddressed, ParseStep, Returned, server
    <2>2. CASE EditCommand \/ CloseShadow \/ RepairStep \/ Save
      BY <2>2 DEF EditCommand, CloseShadow, RepairStep, Save, server
    <2>3. ASSUME NEW c \in Conn, Serve(c) \/ Cut(c) \/ Timeout(c)
          PROVE  cuts' \in {cuts, cuts + 1} /\ refusals' \in {refusals, refusals + 1}
      BY <2>3 DEF Serve, Cut, Timeout, Ends
    <2>4. CASE UNCHANGED vars \/ Done
      BY <2>4 DEF vars, server, Done
    <2> QED BY <2>1, <2>2, <2>3, <2>4 DEF Next, Client
  <1> QED BY <1>1, <1>2 DEF Smooth

LEMMA LosslessInit == Init => Lossless
  <1> SUFFICES ASSUME Init PROVE Lossless
    OBVIOUS
  <1>1. Len(todo) = 13 /\ OfProgram(13, todo[1])
    <2>1. 14 - 13 = 1 /\ 13 \in 1..13
      OBVIOUS
    <2> QED BY <2>1, ProgramFacts DEF Init
  <1>2. Left = 13 /\ Step = StepOf("connect", "main", "new", NoFile)
    BY <1>1, ProgramFacts DEF Init, Left, Step, OfProgram
  <1>3. Step.do = "connect" /\ Step.what = "new" /\ Step.file = NoFile
    BY <1>2 DEF StepOf
  <1>4. Equipped
    BY <1>2, <1>3 DEF Equipped, Shadowed, Reported
  <1>5. \A c \in Conn : Calm(c)
    <2>1. Accepting(<<>>)
      BY DEF Accepting
    <2> SUFFICES ASSUME NEW c \in Conn PROVE Calm(c)
      OBVIOUS
    <2>2. /\ conn[c] = "none" /\ wire[c] = <<>> /\ buf[c] = <<>> /\ verdict[c] = "none" /\ ~stale[c]
          /\ ctx[c] = CtxOut
      BY DEF Init
    <2>3. ~Within(c)
      BY <2>2 DEF CtxOut, Within
    <2> QED BY <2>1, <2>2, <2>3 DEF Calm
  <1>6. NothingLost
    BY DEF Init, NothingLost
  <1> QED BY <1>4, <1>5, <1>6 DEF Lossless

LEMMA LosslessNext == HttpInv /\ Lossless /\ [Next]_vars => Lossless'
  <1> SUFFICES ASSUME HttpInv, Lossless, [Next]_vars PROVE Lossless'
    OBVIOUS
  <1>1. CASE ~Smooth
    BY <1>1, StaysRough, Roughly DEF HttpInv, Settled
  <1>2. CASE UNCHANGED vars
    <2>1. (outcome' = outcome /\ Smooth' = Smooth) /\ Equipped' = Equipped /\ NothingLost' = NothingLost
      BY <1>2 DEF vars, parseVars, stream, client, server, Smooth, Equipped, Shadowed, Reported, Left, Step, NothingLost
    <2>2. \A c \in Conn : Calm(c) => Calm(c)'
      BY <1>2 DEF vars, parseVars, stream, Calm, Accepting, Within
    <2> QED BY <2>1, <2>2 DEF Lossless
  <1>3. CASE Smooth /\ Next /\ ~UNCHANGED vars
    <2>1. outcome = "running"
      BY <1>3 DEF Next, Client, Done, Reach, Send, SendUnaddressed, ParseStep, Returned, At, Running,
                  EditCommand, CloseShadow, RepairStep, Save, Serve, Cut, Timeout, Ends
    <2>2. ASSUME NEW c \in Conn, Reach(c) \/ Send(c) \/ ParseStep(c) \/ Returned(c) \/ Serve(c)
          PROVE  Lossless'
      BY <1>3, <2>1, <2>2, LosslessReach, LosslessSend, LosslessParse, LosslessReturned, LosslessServe
    <2>3. ASSUME NEW c \in Conn PROVE ~SendUnaddressed(c)
      BY <1>3, <2>1, Addressed DEF SendUnaddressed, At
    <2>4. ASSUME NEW c \in Conn, Cut(c) \/ Timeout(c) PROVE Lossless'
      <3>1. ~Smooth'
        BY <1>3, <2>4 DEF Smooth, Cut, Timeout, Ends
      <3> QED BY <3>1, Roughly
    <2>5. CASE EditCommand \/ CloseShadow \/ RepairStep \/ Save
      BY <1>3, <2>1, <2>5, LosslessEdit, LosslessClose, LosslessRepair, LosslessSave
    <2> QED BY <1>3, <2>1, <2>2, <2>3, <2>4, <2>5 DEF Next, Client, Done
  <1> QED BY <1>1, <1>2, <1>3

-----------------------------------------------------------------------------
(***************************************************************************)
(* Every variable keeps its type: a request for a file names one, SPOS is  *)
(* within the buffer of its connection, and what is beyond it is not yet   *)
(* read.                                                                   *)
(***************************************************************************)
THEOREM HttpTypeCorrect == Spec => []TypeOK
  BY Invariant, InvTyped, PTL

(***************************************************************************)
(* What http_parse_response gives to the callback of GET and REPORT is the *)
(* body of one answer, in order and from its beginning, and of the answer  *)
(* to the request at hand unless a refused one has left the stream stale.  *)
(***************************************************************************)
THEOREM TakenRightCorrect == Spec => []TakenRight
  BY Invariant, InvTaken, PTL

(***************************************************************************)
(* When http_parse_response returns and the connection is still there, the *)
(* callback has been given all of that body.                               *)
(***************************************************************************)
THEOREM DoneMeansWholeCorrect == Spec => []DoneMeansWhole
  BY Invariant, InvWhole, PTL

(***************************************************************************)
(* A run that ends in a crash for want of an address does so on the shadow *)
(* connection: check-path stops it before, on the main one.                *)
(***************************************************************************)
THEOREM MainAddressedCorrect == Spec => []MainAddressed
  <1>1. HttpInv => MainAddressed
    BY DEF HttpInv
  <1> QED BY <1>1, Invariant, PTL

(***************************************************************************)
(* When no request is refused and no connection ends, no answer disturbs   *)
(* another: no address is missing, check-path alone may fail, every file   *)
(* that is fetched comes whole, and what is recorded is the whole edit.    *)
(***************************************************************************)
THEOREM NothingLostCorrect == Spec => []NothingLost
  <1>1. Lossless => NothingLost
    BY DEF Lossless
  <1> QED BY <1>1, Invariant, LosslessInit, LosslessNext, PTL DEF Spec

=============================================================================
