--------------------------- MODULE Link_proofs ---------------------------
(***************************************************************************)
(* The two ends of a connection, for every number of files, edit commands  *)
(* and broken connections.  The inductive invariant relates what the       *)
(* client has before it, what is under way in both directions and what the *)
(* server has still to say or to hear: on a connection in use whose        *)
(* tokenizer is not within a torn token, what is under way to the client   *)
(* are the next items of the request it is at, in their order (Coming),    *)
(* and the server is where that leaves it (Live).  From it follow the      *)
(* three properties of Session that are about safety: a revision is        *)
(* recorded only after a whole edit, an answer is never taken for the      *)
(* answer to another request, and the two ends wait for each other in the  *)
(* known situations only.                                                  *)
(***************************************************************************)
EXTENDS Dialog_proofs
-----------------------------------------------------------------------------
(***************************************************************************)
(* What is under way to the client on connection c: the items it has next, *)
(* each with its answer, in their order.  A failure and what was torn come *)
(* last.  The server may be in the edit before the client has come to it.  *)
(***************************************************************************)
Ahead(c) == Topic(c) = "update" /\ Left(c) \in {3, 4}

Slot(c, i) ==
  IF Ahead(c) /\ i > Left(c) - 3 THEN 3 ELSE Left(c) + 1 - i

Fits(m, item) ==
  IF item = "auth" THEN m \in {"auth-none", "auth-anonymous", "auth-other"}
  ELSE IF item = "edit" THEN m \in {"edit", "abort-edit", "close-edit"}
  ELSE item \in Said /\ m \in Variants(item)

Challenged(c) == At("challenge", c)

Bad == Parts \cup {"failure"}
Final == Bad \cup {"auth-anonymous", "close-edit"}

\* How many messages are under way to the client, and to the server.
Down(c) == Len(toC[c])
Up(c) == Len(toS[c])

Told(c, i) == toC[c][i].is
About(c, i) == toC[c][i].for
Heeds(c, j) == toS[c][j].what

Placed(c, i) ==
  /\ About(c, i) = asked[c]
  /\ Slot(c, i) >= 1 /\ Item(Topic(c), Slot(c, i)) \notin Heard
  /\ \/ Told(c, i) \in Bad
     \/ IF Challenged(c) /\ i = 1 THEN Told(c, i) = "ok" ELSE Fits(Told(c, i), Item(Topic(c), Slot(c, i)))
  /\ Told(c, i) \in Final => i = Down(c)

Coming(c) == \A i \in 1..Down(c) : Placed(c, i)

-----------------------------------------------------------------------------
(***************************************************************************)
(* The server's end of a connection that is up: with s items to go it is   *)
(* level with the client or before it, and the items between the two are   *)
(* under way to the client; or it is behind, and they are under way to it. *)
(***************************************************************************)
Last(c) == Told(c, Down(c))

Plain(c) == \A i \in 1..Down(c) : Told(c, i) \notin Bad \cup {"auth-anonymous"}

Between(c, s) ==
  IF Ahead(c) /\ s <= 3
    THEN \/ /\ s = 3 /\ Down(c) >= Left(c) - 3
            /\ \A i \in 1..Down(c) : Told(c, i) # "close-edit"
         \/ s = 2 /\ Down(c) >= Left(c) - 2 /\ Last(c) = "close-edit"
    ELSE Down(c) = Left(c) - s

Behind(c, s) ==
  /\ Down(c) = 0 /\ ~Challenged(c)
  /\ Up(c) = s - Left(c)
  /\ \A j \in 1..Up(c) :
       Item(Topic(c), s + 1 - j) \in Heard /\ Heeds(c, j) = Item(Topic(c), s + 1 - j)

Level(c, s) ==
  /\ Plain(c)
  /\ \/ /\ s <= Left(c) /\ Up(c) = 0 /\ Between(c, s)
        /\ Challenged(c) => s < Left(c)
     \/ s > Left(c) /\ Behind(c, s)

\* A mechanism has been offered, answered, and the answer let pass.
Offered(c, s) ==
  /\ s < Left(c) /\ Up(c) = 0 /\ Between(c, s) /\ ~Challenged(c)
  /\ Down(c) >= 1 /\ Last(c) = "auth-anonymous"

Answered(c, s) == Challenged(c) /\ Left(c) = s + 1 /\ Down(c) = 0

Spoken(c, s) ==
  LET r == Rest(Topic(c), s) IN
  \/ script[c] = r /\ Level(c, s)
  \/ /\ s \in 1..Length(Topic(c)) - 1 /\ Item(Topic(c), s + 1) = "auth"
     /\ \/ script[c] = <<"other-response", "ok">> \o r /\ Level(c, s)
        \/ script[c] = <<"auth-response", "ok">> \o r /\ Offered(c, s)
        \/ /\ script[c] = <<"auth-response", "ok">> \o r /\ Answered(c, s)
           /\ Up(c) = 1 /\ Heeds(c, 1) = "auth-response"
        \/ script[c] = <<"ok">> \o r /\ Answered(c, s) /\ Up(c) = 0

Talking(c) ==
  serves[c] = asked[c] /\ \E s \in 0..Length(Topic(c)) : Spoken(c, s)

Unheard(c) ==
  /\ Topic(c) \in Requests /\ Left(c) = Length(Topic(c)) /\ ~Challenged(c)
  /\ script[c] = <<>> /\ Down(c) = 0 /\ Up(c) = 1
  /\ toS[c][1] = [what |-> asked[c].what, file |-> asked[c].file]

Refused(c) ==
  /\ serves[c] = asked[c] /\ script[c] = <<>> /\ Up(c) = 0
  /\ Down(c) >= 1 /\ Last(c) = "failure"
  /\ Ahead(c) => Left(c) = 4 /\ Down(c) = 1

GivenUp(c) ==
  /\ c = "main" /\ edit = "aborted" /\ Ahead(c)
  /\ script[c] \in {<<>>, <<"success", "failure">>} /\ Up(c) = 0
  /\ Left(c) = 4 => Down(c) >= 2
  /\ \A i \in 1..Down(c) : Told(c, i) # "close-edit"

\* The client has turned away from a server of another version.
Offline(c) ==
  /\ c = "main" /\ Busy /\ Down(c) = 0 /\ script[c] = Rest("setup", 3)
  /\ \/ Left(c) = 0 /\ Up(c) = 0
     \/ /\ Left(c) = 4 /\ Topic(c) = "get-file" /\ Up(c) = 1
        /\ Heeds(c, 1) = "get-file" /\ ~Challenged(c)

Live(c) == Talking(c) \/ Unheard(c) \/ Refused(c) \/ GivenUp(c) \/ Offline(c)

Links(c) == Coming(c) /\ (conn[c] = "up" => Live(c))
Linked(c) == outcome = "running" /\ Used(c) /\ torn[c] = "out" => Links(c)

\* Wherever the tokenizer is: what is torn is the last of a connection.
Sound(c) ==
  conn[c] = "up" =>
    /\ \A i \in 1..Down(c) : Told(c, i) \notin Parts
    /\ torn[c] = "token" => Down(c) > 0 \/ script[c] = Greeting

-----------------------------------------------------------------------------
(***************************************************************************)
(* The edit is asked for once, and once the server has ended it there is   *)
(* no other.                                                               *)
(***************************************************************************)
Asks(c, i) == i \in 1..Up(c) /\ Heeds(c, i) = "update"
Edits(c) == \E i \in 1..Len(script[c]) : script[c][i] = "edit"
Early == ~Busy /\ ~Fetching /\ Remaining >= 16

OneEdit ==
  /\ \A i : ~Asks("shadow", i)
  /\ \A i, j : Asks("main", i) /\ Asks("main", j) => i = j
  /\ \A c \in Conn : Edits(c) => c = "main" /\ serves[c].what = "update"
  /\ serves["shadow"].what # "update"
  /\ (\E i : Asks("main", i)) => serves["main"].what # "update" /\ edit # "done"
  /\ edit = "done" => ~Edits("main")
  /\ outcome = "running" /\ Early =>
       /\ edit # "done" /\ serves["main"].what # "update"
       /\ \A i : ~Asks("main", i)

\* The end of the edit has arrived and is what the client reads next.
EndHeard ==
  /\ torn["main"] = "out" /\ Topic("main") = "update"
  /\ Left("main") = 1 /\ Down("main") > 0 /\ Told("main", 1) = "ok"

\* How the client comes to know that the server has ended the edit.
Ending ==
  /\ outcome = "running" /\ EndHeard => edit = "done"
  /\ outcome = "running" /\ (Busy \/ Remaining <= 2) => edit = "done"
  /\ outcome = "recorded" => edit = "done"

-----------------------------------------------------------------------------
(***************************************************************************)
(* What is under way on a connection, and what each move does to it.       *)
(***************************************************************************)
LEMMA TopicTyped == \A c : Topic(c) \in Topics
  <1>1. \A c : Topic(c) \in {"setup", "get-file", "update", "check-path", "get-latest-rev"}
    BY DEF Topic, FileTopic, RunTopic
  <1> QED BY <1>1 DEF Topics, Requests

\* The client never has more before it than the request has items.
LEMMA LeftTyped ==
  ASSUME Remaining \in Nat, Shape, NEW c \in Conn
  PROVE  Left(c) \in 0..Length(Topic(c)) /\ Left(c) \in Nat
  <1>1. CASE Fetching /\ ~Busy
    <2>1. FetchShape
      BY <1>1 DEF Shape, RunShape, RepairShape
    <2>2. Remaining - 6 \in 1..10
      BY <2>1 DEF FetchShape, FileSteps
    <2> QED BY <1>1, <2>2, DialogTable DEF Left, Topic, FileLeft, FileTopic, Conn
  <1>2. CASE Busy
    <2>1. ~Fetching /\ Remaining >= 2
      BY <1>2 DEF Fetching, Busy
    <2> QED BY <1>2, <2>1, DialogTable DEF Left, Topic, FileLeft, FileTopic, Conn
  <1>3. CASE ~Busy /\ ~Fetching
    <2>1. Remaining >= 1
      BY DEF Shape
    <2>2. CASE c = "main"
      <3>1. Left(c) = RunLeft(Remaining) /\ Topic(c) = RunTopic(Remaining)
        BY <1>3, <2>2 DEF Left, Topic
      <3>2. CASE Remaining <= 15
        BY <2>1, <3>1, <3>2, DialogTable DEF RunLeft, RunTopic
      <3>3. CASE Remaining \in 16..19
        <4>1. RunLeft(Remaining) \in 0..2
          BY <3>3 DEF RunLeft, Latest
        <4>2. RunTopic(Remaining) \in {"check-path", "get-latest-rev", "setup"}
          BY <3>3 DEF RunTopic
        <4> QED BY <3>1, <4>1, <4>2, DialogTable
      <3>4. CASE Remaining > 19 /\ Latest
        <4>1. CASE Remaining <= 21
          <5>1. RunLeft(Remaining) \in 1..2
            BY <3>4, <4>1 DEF RunLeft
          <5>2. RunTopic(Remaining) = "get-latest-rev"
            BY <3>4, <4>1 DEF RunTopic
          <5> QED BY <3>1, <5>1, <5>2, DialogTable
        <4>2. CASE Remaining > 21
          <5>1. RunLeft(Remaining) \in 0..4
            BY <3>4, <4>2 DEF RunLeft
          <5>2. RunTopic(Remaining) = "setup"
            BY <3>4, <4>2 DEF RunTopic
          <5> QED BY <3>1, <5>1, <5>2, DialogTable
        <4> QED BY <4>1, <4>2
      <3>5. CASE Remaining > 19 /\ ~Latest
        BY <2>1, <3>1, <3>5, DialogTable DEF RunLeft, RunTopic
      <3> QED BY <3>2, <3>3, <3>4, <3>5
    <2>3. CASE c = "shadow"
      BY <1>3, <2>1, <2>3, DialogTable DEF Left, Topic
    <2> QED BY <2>2, <2>3 DEF Conn
  <1> QED BY <1>1, <1>2, <1>3 DEF Fetching

\* The items, as far as the proofs tell them apart.
LEMMA ItemFacts ==
  ASSUME NEW w \in Topics, NEW k \in 1..Length(w)
  PROVE  /\ Item(w, k) \in Said \cup Heard \cup {"auth", "edit"}
         /\ Item(w, k) \notin {"failure", "other-response", "auth-response"}
         /\ k = 1 => Item(w, k) \in Said
         /\ Item(w, k) = "edit" <=> w = "update" /\ k = 3
         /\ w = "update" => (Item(w, k) \in Heard <=> k \in {2, 5, 6})
         /\ w = "update" => (Item(w, k) = "auth" <=> k \in {4, 7})
         /\ w = "update" => (Item(w, k) = "ok" <=> k = 1)
         /\ w = "setup" => (Item(w, k) \in Heard <=> k = 3) /\ (Item(w, k) = "auth" <=> k = 2)
                           /\ (Item(w, k) = "greeting" <=> k = 4)
         /\ w = "get-file" => Item(w, k) \notin Heard /\ (Item(w, k) = "auth" <=> k = 4)
                              /\ (Item(w, k) = "contents" <=> k = 2)
         /\ w \in Requests /\ k = Length(w) => Item(w, k) = "auth"
         /\ Item(w, k) = "dir" => w = "check-path"
         /\ Item(w, k) = "greeting" => w = "setup"
  <1>1. w \in {"setup", "get-file", "update", "check-path", "get-latest-rev"}
    BY DEF Topics, Requests
  <1>2. CASE w = "update"
    <2>1. k \in 1..7
      BY <1>2, DialogTable
    <2>2. k \in {1, 2, 3, 4, 5, 6, 7}
      BY <2>1
    <2> QED BY <1>2, <2>2, DialogTable DEF Said, Heard, Requests
  <1>3. CASE w = "setup"
    <2>1. k \in {1, 2, 3, 4}
      BY <1>3, DialogTable
    <2> QED BY <1>3, <2>1, DialogTable DEF Said, Heard, Requests
  <1>4. CASE w = "get-file"
    <2>1. k \in {1, 2, 3, 4}
      BY <1>4, DialogTable
    <2> QED BY <1>4, <2>1, DialogTable DEF Said, Heard, Requests
  <1>5. CASE w \in {"check-path", "get-latest-rev"}
    <2>1. k \in {1, 2}
      BY <1>5, DialogTable
    <2> QED BY <1>5, <2>1, DialogTable DEF Said, Heard, Requests
  <1> QED BY <1>1, <1>2, <1>3, <1>4, <1>5

\* Nothing that is said is waited for, and nothing of either is an offer.
LEMMA WordsApart ==
  /\ \A w \in Said : w \notin Heard /\ w # "auth" /\ w # "edit"
  /\ "auth" \notin Heard /\ "edit" \notin Heard
  /\ \A w : w \in Said \ {"failure"} => \A m \in Variants(w) : m \notin Final /\ Fits(m, w)
  /\ Variants("ok") = {"ok"}
  /\ \A m : Fits(m, "auth") <=> m \in {"auth-none", "auth-anonymous", "auth-other"}
  /\ \A m : Fits(m, "edit") <=> m \in {"edit", "abort-edit", "close-edit"}
  /\ \A w, m : w \notin {"auth", "edit"} /\ Fits(m, w) =>
       /\ m \in Said \cup {"other-version", "no-dir"}
       /\ m = w \/ (w = "greeting" /\ m = "other-version") \/ (w = "dir" /\ m = "no-dir")
  <1>1. /\ \A w \in Said : w \notin Heard /\ w # "auth" /\ w # "edit"
        /\ "auth" \notin Heard /\ "edit" \notin Heard
    BY DEF Said, Heard
  <1>2. ASSUME NEW w, w \in Said \ {"failure"}, NEW m \in Variants(w)
        PROVE  m \notin Final /\ Fits(m, w)
    BY <1>2 DEF Said, Variants, Final, Bad, Parts, Fits
  <1>3. Variants("ok") = {"ok"}
    BY DEF Variants
  <1>4. /\ \A m : Fits(m, "auth") <=> m \in {"auth-none", "auth-anonymous", "auth-other"}
        /\ \A m : Fits(m, "edit") <=> m \in {"edit", "abort-edit", "close-edit"}
    BY DEF Fits
  <1>5. ASSUME NEW w, NEW m, w \notin {"auth", "edit"}, Fits(m, w)
        PROVE  /\ m \in Said \cup {"other-version", "no-dir"}
               /\ m = w \/ (w = "greeting" /\ m = "other-version") \/ (w = "dir" /\ m = "no-dir")
    BY <1>5 DEF Fits, Variants, Said
  <1> QED BY <1>1, <1>2, <1>3, <1>4, <1>5

\* What is under way, as counts and as first messages.
LEMMA NetFacts ==
  ASSUME NetTyped, NEW c \in Conn
  PROVE  /\ Down(c) \in Nat /\ Up(c) \in Nat
         /\ (toC[c] = <<>> <=> Down(c) = 0) /\ (toS[c] = <<>> <=> Up(c) = 0)
         /\ toC[c] # <<>> => Head(toC[c]).is = Told(c, 1) /\ Head(toC[c]).for = About(c, 1)
         /\ toS[c] # <<>> => Head(toS[c]).what = Heeds(c, 1) /\ Head(toS[c]) = toS[c][1]
  <1>1. toC[c] \in Seq(Answer) /\ toS[c] \in Seq(GoodMessage)
    BY DEF NetTyped
  <1> QED BY <1>1 DEF Down, Up, Told, About, Heeds

\* The first of what is under way to the client is taken.
Taken(c) ==
  /\ Down(c) \in Nat /\ Down(c) >= 1 /\ Down(c)' = Down(c) - 1
  /\ \A i \in 1..Down(c) - 1 : Told(c, i)' = Told(c, i + 1) /\ About(c, i)' = About(c, i + 1)

\* Something has been said after it.
Added(c, w) ==
  /\ Down(c) \in Nat /\ Down(c)' = Down(c) + 1
  /\ \A i \in 1..Down(c) : Told(c, i)' = Told(c, i) /\ About(c, i)' = About(c, i)
  /\ \A i : i = Down(c) + 1 => Told(c, i)' = w /\ About(c, i)' = serves[c]

\* Nothing under way to the client, or to the server, has changed.
Quiet(c) ==
  Down(c)' = Down(c) /\ \A i : Told(c, i)' = Told(c, i) /\ About(c, i)' = About(c, i)
Still(c) ==
  Up(c)' = Up(c) /\ \A i : Heeds(c, i)' = Heeds(c, i) /\ toS'[c][i] = toS[c][i]

\* The server is sent one more message, or has heard the first one.
Passed(c, w) ==
  /\ Up(c) \in Nat /\ Up(c)' = Up(c) + 1
  /\ \A i \in 1..Up(c) : Heeds(c, i)' = Heeds(c, i)
  /\ \A i : i = Up(c) + 1 => Heeds(c, i)' = w
HeardOne(c) ==
  /\ Up(c) \in Nat /\ Up(c) >= 1 /\ Up(c)' = Up(c) - 1
  /\ \A i \in 1..Up(c) - 1 : Heeds(c, i)' = Heeds(c, i + 1)

\* The moves of the model are these moves.
LEMMA QuietFacts ==
  ASSUME NEW c
  PROVE  (toC'[c] = toC[c] => Quiet(c)) /\ (toS'[c] = toS[c] => Still(c))
  BY DEF Quiet, Still, Down, Up, Told, About, Heeds

LEMMA TakenFacts ==
  ASSUME NetTyped, NEW c \in Conn, toC[c] # <<>>, Consume(c)
  PROVE  Taken(c) /\ \A d \in Conn \ {c} : Quiet(d)
  <1>1. toC[c] \in Seq(Answer) /\ toC'[c] = Tail(toC[c]) /\ \A d \in Conn \ {c} : toC'[d] = toC[d]
    BY DEF NetTyped, Consume
  <1>2. \A d \in Conn \ {c} : Quiet(d)
    BY <1>1, QuietFacts
  <1>3. PICK q \in Seq(Answer) : q = toC[c] /\ q # <<>>
    BY <1>1
  <1>4. /\ Len(q) \in Nat /\ Len(q) >= 1 /\ Len(Tail(q)) = Len(q) - 1
        /\ \A i \in 1..Len(q) - 1 : Tail(q)[i] = q[i + 1]
    BY <1>3
  <1>5. Down(c) = Len(q) /\ Down(c)' = Len(Tail(q))
    BY <1>1, <1>3 DEF Down
  <1>6. ASSUME NEW i \in 1..Down(c) - 1
        PROVE  Told(c, i)' = Told(c, i + 1) /\ About(c, i)' = About(c, i + 1)
    <2>1. toC'[c][i] = toC[c][i + 1]
      BY <1>1, <1>3, <1>4, <1>5
    <2> QED BY <2>1 DEF Told, About
  <1> QED BY <1>2, <1>4, <1>5, <1>6 DEF Taken

LEMMA AddedFacts ==
  ASSUME NetTyped, NEW c \in Conn, NEW w, Tell(c, w)
  PROVE  Added(c, w) /\ \A d \in Conn \ {c} : Quiet(d)
  <1> DEFINE m == [is |-> w, for |-> serves[c]]
  <1>1. /\ toC[c] \in Seq(Answer) /\ toC'[c] = Append(toC[c], m)
        /\ \A d \in Conn \ {c} : toC'[d] = toC[d]
    BY DEF NetTyped, Tell
  <1>2. \A d \in Conn \ {c} : Quiet(d)
    BY <1>1, QuietFacts
  <1>7. m.is = w /\ m.for = serves[c]
    OBVIOUS
  <1> HIDE DEF m
  <1>3. PICK q \in Seq(Answer) : q = toC[c]
    BY <1>1
  <1>4. /\ Len(q) \in Nat /\ Len(Append(q, m)) = Len(q) + 1
        /\ \A i \in 1..Len(q) : Append(q, m)[i] = q[i]
        /\ Append(q, m)[Len(q) + 1] = m
    OBVIOUS
  <1>5. Down(c) = Len(q) /\ Down(c)' = Len(q) + 1
    BY <1>1, <1>3, <1>4 DEF Down
  <1>6. ASSUME NEW i \in 1..Down(c)
        PROVE  Told(c, i)' = Told(c, i) /\ About(c, i)' = About(c, i)
    BY <1>1, <1>3, <1>4, <1>5 DEF Told, About
  <1>8. ASSUME NEW i, i = Down(c) + 1
        PROVE  Told(c, i)' = w /\ About(c, i)' = serves[c]
    <2>1. toC'[c][i] = m
      BY <1>1, <1>3, <1>4, <1>5, <1>8
    <2> QED BY <2>1, <1>7 DEF Told, About
  <1> QED BY <1>2, <1>4, <1>5, <1>6, <1>8 DEF Added

LEMMA PassedFacts ==
  ASSUME NetTyped, NEW c \in Conn, NEW w, NEW f, conn[c] = "up", Deliver(c, w, f)
  PROVE  /\ Passed(c, w) /\ conn' = conn /\ \A d \in Conn \ {c} : Still(d)
         /\ \A i : i = Up(c) + 1 => toS'[c][i] = [what |-> w, file |-> f]
  <1> DEFINE m == [what |-> w, file |-> f]
  <1>1. /\ toS[c] \in Seq(GoodMessage) /\ toS'[c] = Append(toS[c], m) /\ conn' = conn
        /\ \A d \in Conn \ {c} : toS'[d] = toS[d]
    BY DEF NetTyped, Deliver
  <1>2. \A d \in Conn \ {c} : Still(d)
    BY <1>1, QuietFacts
  <1>7. m.what = w
    OBVIOUS
  <1> HIDE DEF m
  <1>3. PICK q \in Seq(GoodMessage) : q = toS[c]
    BY <1>1
  <1>4. /\ Len(q) \in Nat /\ Len(Append(q, m)) = Len(q) + 1
        /\ \A i \in 1..Len(q) : Append(q, m)[i] = q[i]
        /\ Append(q, m)[Len(q) + 1] = m
    OBVIOUS
  <1>5. Up(c) = Len(q) /\ Up(c)' = Len(q) + 1
    BY <1>1, <1>3, <1>4 DEF Up
  <1>6. ASSUME NEW i \in 1..Up(c) PROVE Heeds(c, i)' = Heeds(c, i)
    BY <1>1, <1>3, <1>4, <1>5 DEF Heeds
  <1>8. ASSUME NEW i, i = Up(c) + 1 PROVE Heeds(c, i)' = w /\ toS'[c][i] = m
    <2>1. toS'[c][i] = m
      BY <1>1, <1>3, <1>4, <1>5, <1>8
    <2> QED BY <2>1, <1>7 DEF Heeds
  <1> QED BY <1>1, <1>2, <1>4, <1>5, <1>6, <1>8 DEF Passed, m

LEMMA HeardFacts ==
  ASSUME NetTyped, NEW c \in Conn, toS[c] # <<>>, toS' = [toS EXCEPT ![c] = Tail(@)]
  PROVE  HeardOne(c) /\ \A d \in Conn \ {c} : Still(d)
  <1>1. toS[c] \in Seq(GoodMessage) /\ toS'[c] = Tail(toS[c]) /\ \A d \in Conn \ {c} : toS'[d] = toS[d]
    BY DEF NetTyped
  <1>2. \A d \in Conn \ {c} : Still(d)
    BY <1>1, QuietFacts
  <1>3. PICK q \in Seq(GoodMessage) : q = toS[c] /\ q # <<>>
    BY <1>1
  <1>4. /\ Len(q) \in Nat /\ Len(q) >= 1 /\ Len(Tail(q)) = Len(q) - 1
        /\ \A i \in 1..Len(q) - 1 : Tail(q)[i] = q[i + 1]
    BY <1>3
  <1>5. Up(c) = Len(q) /\ Up(c)' = Len(Tail(q))
    BY <1>1, <1>3 DEF Up
  <1>6. ASSUME NEW i \in 1..Up(c) - 1 PROVE Heeds(c, i)' = Heeds(c, i + 1)
    <2>1. toS'[c][i] = toS[c][i + 1]
      BY <1>1, <1>3, <1>4, <1>5
    <2> QED BY <2>1 DEF Heeds
  <1> QED BY <1>2, <1>4, <1>5, <1>6 DEF HeardOne

\* Whose challenge the client answers.
LEMMA ChallengedFacts ==
  ASSUME ClientTyped, Shape, NEW c
  PROVE  Challenged(c) <=> Now("challenge") /\ On(Remaining) = c
  <1>1. todo # <<>> /\ Step.do = Doing(Remaining) /\ Step.on = On(Remaining)
    BY BackFacts DEF Shape
  <1> QED BY <1>1 DEF Challenged, At, Now

-----------------------------------------------------------------------------
(***************************************************************************)
(* What the link says of one connection.                                   *)
(***************************************************************************)
Counted(c) ==
  /\ Down(c) \in Nat /\ Up(c) \in Nat /\ Left(c) \in Nat
  /\ Topic(c) \in Topics /\ Left(c) \in 0..Length(Topic(c))

\* In the shape, the counts are what their names say.
LEMMA CountedFacts ==
  ASSUME NetTyped, Remaining \in Nat, Shape, NEW c \in Conn
  PROVE  Counted(c)
  BY NetFacts, TopicTyped, LeftTyped DEF Counted

\* The items the messages are for, with the server in the edit or not.
LEMMA AheadFacts ==
  ASSUME NEW c
  PROVE  /\ Ahead(c) => Topic(c) = "update" /\ Left(c) \in {3, 4}
         /\ Topic(c) = "update" /\ Left(c) \in {3, 4} => Ahead(c)
         /\ \A i : ~Ahead(c) => Slot(c, i) = Left(c) + 1 - i
         /\ \A i : Ahead(c) /\ Left(c) = 3 /\ i \in Nat \ {0} => Slot(c, i) = 3
         /\ \A i : Ahead(c) /\ Left(c) = 4 /\ i \in Nat /\ i > 1 => Slot(c, i) = 3
         /\ Left(c) \in Nat => Slot(c, 1) = Left(c)
  <1>1. Ahead(c) <=> Topic(c) = "update" /\ Left(c) \in {3, 4}
    BY DEF Ahead
  <1> QED BY <1>1 DEF Slot

\* The first message is the item that is due.
LEMMA ComingFirst ==
  ASSUME NEW c, Counted(c), Coming(c), Down(c) >= 1
  PROVE  /\ Left(c) >= 1 /\ Left(c) \in 1..Length(Topic(c))
         /\ Item(Topic(c), Left(c)) \notin Heard
         /\ About(c, 1) = asked[c]
         /\ \/ Told(c, 1) \in Bad
            \/ IF Challenged(c) THEN Told(c, 1) = "ok" ELSE Fits(Told(c, 1), Item(Topic(c), Left(c)))
         /\ Told(c, 1) \in Final => Down(c) = 1
  <1>1. Placed(c, 1) /\ Slot(c, 1) = Left(c) /\ Left(c) \in Nat
    BY AheadFacts DEF Counted, Coming
  <1> QED BY <1>1 DEF Placed, Counted

\* While the client has to send, nothing is under way to it.
LEMMA NothingComing ==
  ASSUME NEW c, Counted(c), Coming(c), Left(c) = 0 \/ Item(Topic(c), Left(c)) \in Heard
  PROVE  Down(c) = 0
  BY ComingFirst DEF Counted

\* Three messages never reach from the report over to the edit.
LEMMA NoCloseEdit ==
  ASSUME NEW c, Counted(c), Coming(c), ~Ahead(c), NEW i \in 1..Down(c)
  PROVE  Told(c, i) # "close-edit"
  <1> SUFFICES ASSUME Told(c, i) = "close-edit" PROVE FALSE
    OBVIOUS
  <1>1. \A j \in 1..Down(c) : Placed(c, j) /\ Slot(c, j) = Left(c) + 1 - j
    BY AheadFacts DEF Coming
  <1>2. PICK k : k = Slot(c, i) /\ k = Left(c) + 1 - i
    BY <1>1
  <1>3. k \in 1..Length(Topic(c)) /\ Topic(c) \in Topics /\ Left(c) \in Nat /\ Down(c) \in Nat
    <2>1. /\ Topic(c) \in Topics /\ Left(c) \in Nat /\ Down(c) \in Nat
          /\ Left(c) <= Length(Topic(c)) /\ Length(Topic(c)) \in Nat
      BY DialogTyped DEF Counted
    <2>2. k >= 1
      BY <1>1, <1>2 DEF Placed
    <2>3. i \in Nat /\ i >= 1
      BY <2>1
    <2> QED BY <1>2, <2>1, <2>2, <2>3
  <1>4. Fits("close-edit", Item(Topic(c), k))
    BY <1>1, <1>2 DEF Placed, Bad, Parts
  <1>5. Item(Topic(c), k) = "edit"
    BY <1>4 DEF Fits, Variants, Said
  <1>6. Topic(c) = "update" /\ k = 3
    BY <1>3, <1>5, ItemFacts
  <1>7. Left(c) = i + 2 /\ i >= 3 /\ i - 2 \in 1..Down(c)
    <2>1. i \in Nat /\ i >= 1 /\ i <= Down(c)
      BY <1>3
    <2>2. Left(c) = i + 2
      BY <1>2, <1>3, <1>6, <2>1
    <2>3. Left(c) \notin {3, 4}
      BY <1>6, AheadFacts
    <2> QED BY <1>3, <2>1, <2>2, <2>3
  <1>8. Item(Topic(c), 5) \notin Heard
    <2>1. Slot(c, i - 2) = 5
      BY <1>1, <1>7, <1>2, <1>3
    <2> QED BY <1>1, <1>7, <2>1 DEF Placed
  <1> QED BY <1>6, <1>8, DialogTable DEF Heard

-----------------------------------------------------------------------------
(***************************************************************************)
(* At rest: the request is done with and nothing is under way.             *)
(***************************************************************************)
Resting(c) ==
  /\ Down(c) = 0
  /\ conn[c] = "up" =>
       /\ Up(c) = 0
       /\ \/ script[c] = <<>> /\ serves[c] = asked[c]
          \/ c = "main" /\ Busy /\ script[c] = Rest("setup", 3)

\* At the end of a request the link is at rest, and a link at rest is in order.
LEMMA RestingWhen ==
  ASSUME NEW c, Counted(c), Left(c) = 0, Coming(c), conn[c] = "up" => Live(c), ~Challenged(c)
  PROVE  Resting(c)
  <1>1. Down(c) = 0 /\ ~Ahead(c)
    BY NothingComing, AheadFacts
  <1>2. SUFFICES ASSUME conn[c] = "up"
                 PROVE  /\ Up(c) = 0
                        /\ \/ script[c] = <<>> /\ serves[c] = asked[c]
                           \/ c = "main" /\ Busy /\ script[c] = Rest("setup", 3)
    BY <1>1 DEF Resting
  <1>3. ASSUME NEW s \in 0..Length(Topic(c)), Level(c, s) PROVE s = 0 /\ Up(c) = 0
    <2>1. CASE s <= Left(c)
      BY <1>3, <2>1 DEF Level, Behind, Counted
    <2>2. CASE s > Left(c)
      <3>1. Behind(c, s) /\ Up(c) = s /\ s \in 1..Length(Topic(c)) /\ Topic(c) \in Topics
        BY <1>3, <2>2 DEF Level, Behind, Counted
      <3>2. Item(Topic(c), 1) \in Heard
        <4>1. s \in 1..Up(c) /\ s + 1 - s = 1
          BY <3>1
        <4> QED BY <3>1, <4>1 DEF Behind
      <3>3. 1 \in 1..Length(Topic(c)) /\ Topic(c) \in Topics
        BY <3>1, DialogTyped
      <3> QED BY <3>2, <3>3, ItemFacts, WordsApart
    <2> QED BY <2>1, <2>2 DEF Counted
  <1>4. CASE Talking(c)
    <2>1. serves[c] = asked[c]
      BY <1>4 DEF Talking
    <2>2. PICK s \in 0..Length(Topic(c)) : Spoken(c, s)
      BY <1>4 DEF Talking
    <2>3. ~Offered(c, s) /\ ~Answered(c, s)
      BY <1>1 DEF Offered, Answered, Counted
    <2>4. Level(c, s) /\ (script[c] = Rest(Topic(c), s) \/ s >= 1)
      BY <2>2, <2>3 DEF Spoken, Counted
    <2>5. s = 0 /\ Up(c) = 0
      BY <1>3, <2>4
    <2> QED BY <2>1, <2>4, <2>5, RestEmpty DEF Counted
  <1>5. ~Unheard(c)
    <2>1. Length(Topic(c)) # 0
      BY DialogTyped DEF Counted
    <2> QED BY <2>1 DEF Unheard
  <1>6. ~Refused(c) /\ ~GivenUp(c)
    BY <1>1 DEF Refused, GivenUp
  <1>7. CASE Offline(c)
    BY <1>7 DEF Offline
  <1> QED BY <1>2, <1>4, <1>5, <1>6, <1>7 DEF Live

LEMMA RestingIs ==
  ASSUME NEW c, Counted(c), Left(c) = 0, Resting(c), ~Challenged(c)
  PROVE  Coming(c) /\ (conn[c] = "up" => Live(c))
  <1>1. Coming(c)
    BY DEF Coming, Resting
  <1>2. ASSUME conn[c] = "up" PROVE Live(c)
    <2>1. CASE script[c] = <<>> /\ serves[c] = asked[c]
      <3>1. 0 \in 0..Length(Topic(c)) /\ Rest(Topic(c), 0) = <<>> /\ ~Ahead(c)
        BY RestEmpty, DialogTyped, AheadFacts DEF Counted
      <3>2. Level(c, 0)
        BY <1>2, <3>1 DEF Level, Plain, Between, Resting
      <3>3. Spoken(c, 0)
        BY <2>1, <3>1, <3>2 DEF Spoken
      <3> QED BY <2>1, <3>1, <3>3 DEF Live, Talking
    <2>2. CASE c = "main" /\ Busy /\ script[c] = Rest("setup", 3)
      BY <1>2, <2>2 DEF Live, Offline, Resting
    <2> QED BY <1>2, <2>1, <2>2 DEF Resting
  <1> QED BY <1>1, <1>2

-----------------------------------------------------------------------------
(***************************************************************************)
(* A connection that a step does not touch.                                *)
(***************************************************************************)
Unmoved(d) ==
  /\ Stays(d) /\ Quiet(d) /\ Still(d)
  /\ conn'[d] = conn[d] /\ torn'[d] = torn[d] /\ asked'[d] = asked[d]
  /\ script'[d] = script[d] /\ serves'[d] = serves[d]
  /\ Challenged(d)' <=> Challenged(d)
  /\ Challenged(d) => Left(d) > 0
  /\ d = "main" /\ Busy => Busy'
  /\ d = "main" /\ edit = "aborted" => edit' = "aborted"

RestLinks ==
  \A c \in Conn : Counted(c) /\ Left(c) = 0 /\ Resting(c) /\ ~Challenged(c) => Links(c)

\* A link at rest is in order, before a step and after it.
LEMMA RestLinksNow == RestLinks
  BY RestingIs DEF RestLinks, Links

LEMMA RestLinksNext == RestLinks'
  BY RestLinksNow, PTL

\* A connection comes to rest.
LEMMA ToRest ==
  ASSUME NEW c \in Conn, Counted(c)', Left(c)' = 0, Resting(c)', ~Challenged(c)'
  PROVE  Links(c)'
  BY RestLinksNext DEF RestLinks

\* A connection that is not touched keeps its link.
LEMMA UnmovedLinks ==
  ASSUME NEW d \in Conn, Counted(d), Counted(d)', Links(d), Unmoved(d)
  PROVE  Links(d)'
  <1>1. /\ Down(d)' = Down(d) /\ Up(d)' = Up(d)
        /\ \A i : Told(d, i)' = Told(d, i) /\ About(d, i)' = About(d, i)
        /\ \A i : Heeds(d, i)' = Heeds(d, i)
        /\ toS'[d][1] = toS[d][1]
    BY DEF Unmoved, Quiet, Still
  <1>2. CASE Left(d) = 0
    <2>1. Left(d)' = 0 /\ ~Challenged(d) /\ ~Challenged(d)'
      BY <1>2 DEF Unmoved, Stays
    <2>2. Resting(d)
      BY <1>2, <2>1, RestingWhen DEF Links
    <2>3. Resting(d)'
      BY <1>1, <2>2 DEF Resting, Unmoved
    <2> QED BY <2>1, <2>3, ToRest
  <1>3. CASE Left(d) > 0
    <2>1. Left(d)' = Left(d) /\ Topic(d)' = Topic(d)
      BY <1>3 DEF Unmoved, Stays
    <2>2. (Ahead(d)' <=> Ahead(d)) /\ \A i : Slot(d, i)' = Slot(d, i)
      BY <2>1 DEF Ahead, Slot
    <2>3. Challenged(d)' <=> Challenged(d)
      BY DEF Unmoved
    <2>4. asked'[d] = asked[d] /\ script'[d] = script[d] /\ serves'[d] = serves[d] /\ conn'[d] = conn[d]
      BY DEF Unmoved
    <2>5. Coming(d)'
      <3>1. ASSUME NEW i \in 1..Down(d), Placed(d, i) PROVE Placed(d, i)'
        BY <1>1, <2>1, <2>2, <2>3, <2>4, <3>1 DEF Placed
      <3> QED BY <1>1, <3>1 DEF Coming, Links
    <2>6. Last(d)' = Last(d)
      BY <1>1 DEF Last
    <2>7. ASSUME NEW s PROVE (Between(d, s)' <=> Between(d, s))
      BY <1>1, <2>1, <2>2, <2>6 DEF Between
    <2>8. ASSUME NEW s PROVE (Behind(d, s)' <=> Behind(d, s))
      BY <1>1, <2>1, <2>3 DEF Behind
    <2>9. ASSUME NEW s PROVE (Level(d, s)' <=> Level(d, s))
      <3>1. Plain(d)' <=> Plain(d)
        BY <1>1 DEF Plain
      <3> QED BY <1>1, <2>1, <2>3, <2>7, <2>8, <3>1 DEF Level
    <2>10. ASSUME NEW s, Spoken(d, s) PROVE Spoken(d, s)'
      <3>1. (Offered(d, s)' <=> Offered(d, s)) /\ (Answered(d, s)' <=> Answered(d, s))
        BY <1>1, <2>1, <2>3, <2>6, <2>7 DEF Offered, Answered
      <3> QED BY <1>1, <2>1, <2>4, <2>9, <2>10, <3>1 DEF Spoken
    <2>11. Talking(d) => Talking(d)'
      BY <2>1, <2>4, <2>10 DEF Talking
    <2>12. Unheard(d) => Unheard(d)'
      BY <1>1, <2>1, <2>3, <2>4 DEF Unheard
    <2>13. Refused(d) => Refused(d)'
      BY <1>1, <2>1, <2>2, <2>4, <2>6 DEF Refused
    <2>14. GivenUp(d) => GivenUp(d)'
      BY <1>1, <2>1, <2>2, <2>4 DEF GivenUp, Unmoved
    <2>15. Offline(d) => Offline(d)'
      BY <1>1, <2>1, <2>3, <2>4 DEF Offline, Unmoved
    <2> QED BY <2>4, <2>5, <2>11, <2>12, <2>13, <2>14, <2>15 DEF Links, Live
  <1> QED BY <1>2, <1>3 DEF Counted

-----------------------------------------------------------------------------
(***************************************************************************)
(* The client takes what is next on a connection.                          *)
(***************************************************************************)
Same(c) ==
  /\ conn'[c] = conn[c] /\ asked'[c] = asked[c]
  /\ script'[c] = script[c] /\ serves'[c] = serves[c]
  /\ edit' = edit /\ (Busy' <=> Busy)

\* While something is under way to the client the server is not behind it.
LEMMA LiveDown ==
  ASSUME NEW c, Counted(c), Down(c) >= 1, Live(c)
  PROVE  /\ Up(c) = 0
         /\ \/ /\ Talking(c)
               /\ \E s \in 0..Length(Topic(c)) :
                    /\ s <= Left(c) /\ Between(c, s)
                    /\ \/ script[c] = Rest(Topic(c), s) /\ Level(c, s)
                       \/ /\ s \in 1..Length(Topic(c)) - 1 /\ Item(Topic(c), s + 1) = "auth"
                          /\ \/ script[c] = <<"other-response", "ok">> \o Rest(Topic(c), s) /\ Level(c, s)
                             \/ /\ script[c] = <<"auth-response", "ok">> \o Rest(Topic(c), s)
                                /\ Offered(c, s)
            \/ Refused(c)
            \/ GivenUp(c)
  <1>1. CASE Talking(c)
    <2>1. PICK s \in 0..Length(Topic(c)) : Spoken(c, s)
      BY <1>1 DEF Talking
    <2>2. s \in Nat
      BY DialogTyped DEF Counted
    <2>3. ~Behind(c, s) /\ ~Answered(c, s)
      BY DEF Behind, Answered, Counted
    <2>4. Level(c, s) => s <= Left(c) /\ Up(c) = 0 /\ Between(c, s)
      BY <2>2, <2>3 DEF Level, Counted
    <2>5. Offered(c, s) => s <= Left(c) /\ Up(c) = 0 /\ Between(c, s)
      BY <2>2 DEF Offered, Counted
    <2> QED BY <1>1, <2>1, <2>3, <2>4, <2>5 DEF Spoken
  <1>2. ~Unheard(c) /\ ~Offline(c)
    BY DEF Unheard, Offline, Counted
  <1> QED BY <1>1, <1>2 DEF Live, Refused, GivenUp

\* What is taken is the first, and the last stays the last.
LEMMA TakenLast ==
  ASSUME NEW c, Taken(c)
  PROVE  /\ Down(c) >= 2 => Last(c)' = Last(c)
         /\ Plain(c) => Plain(c)'
         /\ (\A i \in 1..Down(c) : Told(c, i) # "close-edit")
              => (\A i \in 1..Down(c) : Told(c, i) # "close-edit")'
  <1>1. /\ Down(c) \in Nat /\ Down(c) >= 1 /\ Down(c)' = Down(c) - 1
        /\ \A i \in 1..Down(c) - 1 : Told(c, i)' = Told(c, i + 1)
    BY DEF Taken
  <1>2. ASSUME Down(c) >= 2 PROVE Last(c)' = Last(c)
    <2>1. \A i : i = Down(c) - 1 => Told(c, i)' = Told(c, Down(c))
      BY <1>1, <1>2
    <2> QED BY <1>1, <2>1 DEF Last
  <1>3. ASSUME NEW i \in 1..Down(c)' PROVE i + 1 \in 1..Down(c) /\ Told(c, i)' = Told(c, i + 1)
    BY <1>1
  <1> QED BY <1>2, <1>3 DEF Plain

\* The last item of a request taken, the link is at rest.
LEMMA TakenToRest ==
  ASSUME NEW c \in Conn, Counted(c), Counted(c)', Links(c), Same(c), Taken(c), Still(c),
         ~Challenged(c)', Left(c) = 1, Left(c)' = 0, Told(c, 1) \notin Bad
  PROVE  Links(c)'
  <1>1. Coming(c) /\ ~Ahead(c) /\ Down(c) \in Nat /\ Down(c) >= 1
    BY AheadFacts DEF Links, Taken
  <1>2. Down(c) = 1
    <2>1. SUFFICES ASSUME Down(c) >= 2 PROVE FALSE
      BY <1>1
    <2>2. Placed(c, 2)
      BY <1>1, <2>1 DEF Coming
    <2>3. Slot(c, 2) = 0
      BY <1>1, AheadFacts
    <2> QED BY <2>2, <2>3 DEF Placed
  <1>3. Down(c)' = 0 /\ Up(c)' = Up(c)
    BY <1>2 DEF Taken, Still
  <1>4. ASSUME conn[c] = "up" PROVE Up(c) = 0 /\ script[c] = <<>> /\ serves[c] = asked[c]
    <2>1. Live(c)
      BY <1>4 DEF Links
    <2>2. ~Refused(c) /\ ~GivenUp(c)
      BY <1>1, <1>2 DEF Refused, GivenUp, Last, Bad
    <2>3. Talking(c)
      BY <1>1, <2>1, <2>2, LiveDown
    <2>4. PICK s \in 0..Length(Topic(c)) :
            /\ s <= Left(c) /\ Between(c, s)
            /\ script[c] = Rest(Topic(c), s) \/ s \in 1..Length(Topic(c)) - 1
      BY <1>1, <2>1, <2>2, LiveDown
    <2>5. s \in Nat /\ s = 0
      BY <1>1, <1>2, <2>4, DialogTyped DEF Between, Counted
    <2>6. Up(c) = 0
      BY <1>1, <2>1, LiveDown
    <2> QED BY <2>3, <2>4, <2>5, <2>6, RestEmpty DEF Talking, Counted
  <1>5. Resting(c)'
    BY <1>3, <1>4 DEF Resting, Same
  <1> QED BY <1>5, ToRest

\* Where the messages stand that follow the one that was taken.
LEMMA TakenComing ==
  ASSUME NEW c \in Conn, Counted(c), Coming(c), asked'[c] = asked[c], Taken(c), ~Challenged(c)',
         Left(c) > 1, Left(c)' = Left(c) - 1, Topic(c)' = Topic(c),
         Told(c, 1) = "close-edit" <=> Left(c) = 3 /\ Topic(c) = "update"
  PROVE  /\ Coming(c)'
         /\ Ahead(c)' <=> Ahead(c) /\ Left(c) = 4
         /\ Ahead(c) /\ Left(c) = 3 => Down(c) = 1
  <1>1. /\ Down(c) \in Nat /\ Down(c) >= 1 /\ Down(c)' = Down(c) - 1 /\ Left(c) \in Nat
        /\ \A i \in 1..Down(c) - 1 : Told(c, i)' = Told(c, i + 1) /\ About(c, i)' = About(c, i + 1)
    BY DEF Taken, Counted
  <1>2. /\ Left(c) \in 1..Length(Topic(c)) /\ Item(Topic(c), Left(c)) \notin Heard
        /\ Told(c, 1) \in Final => Down(c) = 1
    BY <1>1, ComingFirst
  <1>3. Topic(c) = "update" => Left(c) # 5
    BY <1>2, DialogTable DEF Heard
  <1>4. Ahead(c)' <=> Ahead(c) /\ Left(c) = 4
    BY <1>1, <1>3 DEF Ahead
  <1>5. Ahead(c) /\ Left(c) = 3 => Down(c) = 1
    BY <1>2 DEF Ahead, Final
  <1>6. ASSUME NEW i \in 1..Down(c) - 1 PROVE Placed(c, i)'
    <2>1. /\ i \in Nat /\ i >= 1 /\ i + 1 \in 1..Down(c) /\ i + 1 # 1 /\ i \in 1..Down(c)'
          /\ (i + 1 = Down(c) => i = Down(c)')
      BY <1>1
    <2>2. Placed(c, i + 1) /\ Told(c, i)' = Told(c, i + 1) /\ About(c, i)' = About(c, i + 1)
      BY <1>1, <2>1 DEF Coming
    <2>3. Slot(c, i)' = Slot(c, i + 1)
      <3>1. CASE Ahead(c)
        <4>1. Left(c) = 4 /\ Ahead(c)' /\ Left(c)' = 3
          BY <1>1, <1>4, <1>5, <2>1, <3>1 DEF Ahead
        <4>2. Slot(c, i + 1) = 3
          BY <2>1, <3>1, <4>1 DEF Slot
        <4>3. Slot(c, i)' = 3
          BY <2>1, <4>1 DEF Slot
        <4> QED BY <4>2, <4>3
      <3>2. CASE ~Ahead(c)
        <4>1. Slot(c, i + 1) = Left(c) + 1 - (i + 1)
          BY <3>2 DEF Slot
        <4>2. Slot(c, i)' = Left(c)' + 1 - i
          BY <1>4, <3>2 DEF Slot
        <4> QED BY <1>1, <2>1, <4>1, <4>2
      <3> QED BY <3>1, <3>2
    <2>4. ~(Challenged(c) /\ i + 1 = 1)
      BY <2>1
    <2>5. PICK k : k = Slot(c, i + 1)
      OBVIOUS
    <2>6. /\ About(c, i)' = asked'[c] /\ k >= 1 /\ Item(Topic(c), k) \notin Heard
          /\ Told(c, i)' \in Bad \/ Fits(Told(c, i)', Item(Topic(c), k))
          /\ Told(c, i)' \in Final => i = Down(c)'
      BY <2>1, <2>2, <2>4, <2>5 DEF Placed
    <2> QED BY <2>3, <2>5, <2>6 DEF Placed
  <1> QED BY <1>1, <1>4, <1>5, <1>6 DEF Coming

\* The next item taken, and the step it is for done, the link is kept.
LEMMA TakenLinks ==
  ASSUME NEW c \in Conn, Counted(c), Counted(c)', Links(c), Same(c), Taken(c), Still(c),
         ~Challenged(c)', Left(c)' = Left(c) - 1, Left(c) > 1 => Topic(c)' = Topic(c),
         Told(c, 1) \notin Bad \cup {"auth-anonymous"},
         Told(c, 1) = "close-edit" <=> Left(c) = 3 /\ Topic(c) = "update"
  PROVE  Links(c)'
  <1>1. /\ Down(c) \in Nat /\ Down(c) >= 1 /\ Down(c)' = Down(c) - 1
        /\ Left(c) \in Nat /\ Up(c)' = Up(c) /\ Coming(c)
    BY DEF Taken, Still, Counted, Links
  <1>2. Left(c) >= 1 /\ Topic(c) \in Topics
    BY <1>1, ComingFirst DEF Counted
  <1>3. CASE Left(c) = 1
    BY <1>3, TakenToRest
  <1>4. CASE Left(c) > 1
    <2>1. Topic(c)' = Topic(c)
      BY <1>4
    <2>2. /\ Coming(c)' /\ (Ahead(c)' <=> Ahead(c) /\ Left(c) = 4)
          /\ Ahead(c) /\ Left(c) = 3 => Down(c) = 1
      BY <1>1, <1>4, <2>1, TakenComing DEF Same
    <2>3. SUFFICES ASSUME conn[c] = "up" PROVE Live(c)'
      BY <2>2 DEF Links, Same
    <2>4. Live(c) /\ Up(c)' = 0
      BY <1>1, <2>3, LiveDown DEF Links
    <2>5. script'[c] = script[c] /\ serves'[c] = serves[c] /\ asked'[c] = asked[c] /\ edit' = edit
      BY DEF Same
    <2>6. /\ Down(c) >= 2 => Last(c)' = Last(c)
          /\ Plain(c) => Plain(c)'
          /\ (\A i \in 1..Down(c) : Told(c, i) # "close-edit")
               => (\A i \in 1..Down(c) : Told(c, i) # "close-edit")'
      BY TakenLast
    <2>7. ASSUME NEW s \in Nat, s <= Left(c), Between(c, s)
          PROVE  s <= Left(c)' /\ Between(c, s)'
      <3>1. CASE ~Ahead(c)
        BY <1>1, <1>4, <2>2, <2>7, <3>1 DEF Between
      <3>2. CASE Ahead(c) /\ Left(c) = 4
        <4>1. s <= 3 /\ s \in {2, 3}
          BY <1>1, <2>7, <3>2 DEF Between
        <4>2. CASE s = 3
          BY <1>1, <2>2, <2>6, <2>7, <3>2, <4>2 DEF Between
        <4>3. CASE s = 2
          <5>1. Down(c) >= 2 /\ Last(c) = "close-edit"
            BY <2>7, <3>2, <4>3 DEF Between
          <5> QED BY <1>1, <2>2, <2>6, <3>2, <4>3, <5>1 DEF Between
        <4> QED BY <4>1, <4>2, <4>3
      <3>3. CASE Ahead(c) /\ Left(c) = 3
        <4>1. Down(c) = 1 /\ Told(c, 1) = "close-edit"
          BY <2>2, <3>3 DEF Ahead
        <4>2. s = 2
          BY <1>1, <2>7, <3>3, <4>1 DEF Between
        <4> QED BY <1>1, <2>2, <3>3, <4>1, <4>2 DEF Between
      <3> QED BY <3>1, <3>2, <3>3 DEF Ahead
    <2>8. ASSUME NEW s \in Nat, s <= Left(c), Level(c, s) PROVE Level(c, s)'
      <3>1. Plain(c) /\ Between(c, s)
        BY <1>1, <2>8 DEF Level
      <3> QED BY <2>4, <2>6, <2>7, <2>8, <3>1 DEF Level
    <2>9. ASSUME NEW s \in Nat, s <= Left(c), Offered(c, s), s >= 1, s < Length(Topic(c)),
                 Item(Topic(c), s + 1) = "auth"
          PROVE  Offered(c, s)'
      <3>1. Last(c) = "auth-anonymous" /\ Between(c, s) /\ s < Left(c)
        BY <2>9 DEF Offered
      <3>2. Down(c) >= 2
        BY <1>1, <3>1 DEF Last
      <3>3. ~Ahead(c)
        <4>1. SUFFICES ASSUME Ahead(c) PROVE FALSE
          OBVIOUS
        <4>2. Left(c) = 4 /\ Topic(c) = "update"
          BY <2>2, <3>2, <4>1 DEF Ahead
        <4>3. s # 2 /\ s <= 3
          BY <2>9, <3>1, <4>2, DialogTable
        <4>4. Slot(c, Down(c)) = 3 /\ Placed(c, Down(c))
          BY <1>1, <3>2, <4>1, <4>2, AheadFacts DEF Coming
        <4>5. Told(c, Down(c)) \notin Bad /\ Item("update", 3) = "edit" /\ Down(c) # 1
          BY <3>1, <3>2, DialogTable DEF Last, Bad, Parts
        <4>6. Fits(Told(c, Down(c)), "edit")
          BY <4>2, <4>4, <4>5 DEF Placed
        <4> QED BY <3>1, <4>6, WordsApart DEF Last
      <3>4. s < Left(c)'
        BY <1>1, <3>1, <3>2, <3>3 DEF Between
      <3> QED BY <1>1, <2>4, <2>6, <2>7, <2>9, <3>1, <3>2, <3>4 DEF Offered
    <2>10. CASE /\ Talking(c)
                /\ \E s \in 0..Length(Topic(c)) :
                    /\ s <= Left(c) /\ Between(c, s)
                    /\ \/ script[c] = Rest(Topic(c), s) /\ Level(c, s)
                       \/ /\ s \in 1..Length(Topic(c)) - 1 /\ Item(Topic(c), s + 1) = "auth"
                          /\ \/ script[c] = <<"other-response", "ok">> \o Rest(Topic(c), s) /\ Level(c, s)
                             \/ /\ script[c] = <<"auth-response", "ok">> \o Rest(Topic(c), s)
                                /\ Offered(c, s)
      <3>1. PICK s \in 0..Length(Topic(c)) :
                    /\ s <= Left(c) /\ Between(c, s)
                    /\ \/ script[c] = Rest(Topic(c), s) /\ Level(c, s)
                       \/ /\ s \in 1..Length(Topic(c)) - 1 /\ Item(Topic(c), s + 1) = "auth"
                          /\ \/ script[c] = <<"other-response", "ok">> \o Rest(Topic(c), s) /\ Level(c, s)
                             \/ /\ script[c] = <<"auth-response", "ok">> \o Rest(Topic(c), s)
                                /\ Offered(c, s)
        BY <2>10
      <3>2. Length(Topic(c)) \in Nat /\ s \in Nat
        BY <1>2, DialogTyped
      <3>3. Spoken(c, s)'
        BY <2>1, <2>5, <2>8, <2>9, <3>1, <3>2 DEF Spoken
      <3>4. serves'[c] = asked'[c]
        BY <2>5, <2>10 DEF Talking
      <3> QED BY <2>1, <3>3, <3>4 DEF Live, Talking
    <2>11. CASE Refused(c)
      <3>1. Last(c) = "failure" /\ Told(c, 1) # "failure"
        BY <2>11 DEF Refused, Bad
      <3>2. Down(c) >= 2
        BY <1>1, <3>1 DEF Last
      <3>3. ~Ahead(c)
        BY <2>11, <3>2 DEF Refused
      <3> QED BY <1>1, <2>2, <2>4, <2>5, <2>6, <2>11, <3>1, <3>2, <3>3 DEF Live, Refused
    <2>12. CASE GivenUp(c)
      <3>1. Told(c, 1) # "close-edit" /\ Ahead(c)
        BY <1>1, <2>12 DEF GivenUp
      <3>2. Left(c) = 4 /\ Ahead(c)' /\ Left(c)' = 3
        BY <1>1, <2>2, <3>1 DEF Ahead
      <3> QED BY <2>4, <2>5, <2>6, <2>12, <3>2 DEF Live, GivenUp
    <2> QED BY <1>1, <2>4, <2>10, <2>11, <2>12, LiveDown
  <1> QED BY <1>1, <1>2, <1>3, <1>4

\* A command of the edit has been dealt with; the edit goes on.
LEMMA KeptLinks ==
  ASSUME NEW c \in Conn, Counted(c), Counted(c)', Links(c), Same(c), Taken(c), Still(c),
         ~Challenged(c), ~Challenged(c)', Topic(c) = "update", Topic(c)' = "update",
         Left(c) = 3, Left(c)' = 3, Told(c, 1) \in {"edit", "abort-edit", "failure"}
  PROVE  Links(c)'
  <1>1. /\ Down(c) \in Nat /\ Down(c) >= 1 /\ Down(c)' = Down(c) - 1
        /\ Up(c)' = Up(c) /\ Coming(c)
        /\ \A i \in 1..Down(c) - 1 : Told(c, i)' = Told(c, i + 1) /\ About(c, i)' = About(c, i + 1)
    BY DEF Taken, Still, Counted, Links
  <1>2. Ahead(c) /\ Ahead(c)'
    BY DEF Ahead
  <1>3. ASSUME NEW i \in 1..Down(c) - 1 PROVE Placed(c, i)'
    <2>1. /\ i \in Nat /\ i >= 1 /\ i + 1 \in 1..Down(c) /\ i + 1 # 1 /\ i \in 1..Down(c)'
          /\ (i + 1 = Down(c) => i = Down(c)')
      BY <1>1
    <2>2. Placed(c, i + 1) /\ Told(c, i)' = Told(c, i + 1) /\ About(c, i)' = About(c, i + 1)
      BY <1>1, <2>1 DEF Coming
    <2>3. Slot(c, i)' = 3 /\ Slot(c, i + 1) = 3
      BY <1>2, <2>1 DEF Slot
    <2> QED BY <2>1, <2>2, <2>3 DEF Placed, Same
  <1>4. Coming(c)'
    BY <1>1, <1>3 DEF Coming
  <1>5. SUFFICES ASSUME conn[c] = "up" PROVE Live(c)'
    BY <1>4 DEF Links, Same
  <1>6. Live(c) /\ Up(c)' = 0
    BY <1>1, <1>5, LiveDown DEF Links
  <1>7. script'[c] = script[c] /\ serves'[c] = serves[c] /\ asked'[c] = asked[c] /\ edit' = edit
    BY DEF Same
  <1>8. /\ Down(c) >= 2 => Last(c)' = Last(c)
        /\ Plain(c) => Plain(c)'
        /\ (\A i \in 1..Down(c) : Told(c, i) # "close-edit")
             => (\A i \in 1..Down(c) : Told(c, i) # "close-edit")'
    BY TakenLast
  <1>9. ASSUME NEW s \in Nat, s <= 3, Between(c, s) PROVE Between(c, s)'
    <2>1. s \in {2, 3}
      BY <1>2, <1>9 DEF Between
    <2>2. CASE s = 3
      BY <1>1, <1>2, <1>8, <1>9, <2>2 DEF Between
    <2>3. CASE s = 2
      <3>1. Down(c) >= 1 /\ Last(c) = "close-edit"
        BY <1>2, <1>9, <2>3 DEF Between
      <3>2. Down(c) >= 2
        BY <1>1, <3>1 DEF Last
      <3> QED BY <1>1, <1>2, <1>8, <2>3, <3>1, <3>2 DEF Between
    <2> QED BY <2>1, <2>2, <2>3
  <1>10. CASE /\ Talking(c)
              /\ \E s \in 0..Length(Topic(c)) :
                  /\ s <= Left(c) /\ Between(c, s)
                  /\ \/ script[c] = Rest(Topic(c), s) /\ Level(c, s)
                     \/ /\ s \in 1..Length(Topic(c)) - 1 /\ Item(Topic(c), s + 1) = "auth"
                        /\ \/ script[c] = <<"other-response", "ok">> \o Rest(Topic(c), s) /\ Level(c, s)
                           \/ /\ script[c] = <<"auth-response", "ok">> \o Rest(Topic(c), s)
                              /\ Offered(c, s)
    <2>1. PICK s \in 0..Length(Topic(c)) :
                  /\ s <= Left(c) /\ Between(c, s)
                  /\ \/ script[c] = Rest(Topic(c), s) /\ Level(c, s)
                     \/ /\ s \in 1..Length(Topic(c)) - 1 /\ Item(Topic(c), s + 1) = "auth"
                        /\ \/ script[c] = <<"other-response", "ok">> \o Rest(Topic(c), s) /\ Level(c, s)
                           \/ /\ script[c] = <<"auth-response", "ok">> \o Rest(Topic(c), s)
                              /\ Offered(c, s)
      BY <1>10
    <2>2. Length(Topic(c)) \in Nat /\ s \in Nat /\ s <= 3
      BY <2>1, DialogTyped DEF Counted
    <2>3. Item("update", 3) = "edit" /\ Item("update", 2) = "success"
      BY DialogTable
    <2>4. ~(s \in 1..Length(Topic(c)) - 1 /\ Item(Topic(c), s + 1) = "auth" /\ s < 3)
      <3>1. s \in {2, 3}
        BY <1>2, <2>1, <2>2 DEF Between
      <3> QED BY <2>3, <3>1
    <2>5. ~Offered(c, s) \/ s < 3
      BY DEF Offered
    <2>6. Level(c, s) => Level(c, s)'
      <3>1. Level(c, s) => Plain(c)
        BY DEF Level
      <3> QED BY <1>6, <1>8, <1>9, <2>1, <2>2, <3>1 DEF Level
    <2>7. Spoken(c, s)'
      BY <1>7, <2>1, <2>4, <2>5, <2>6 DEF Spoken
    <2>8. serves'[c] = asked'[c]
      BY <1>7, <1>10 DEF Talking
    <2> QED BY <2>1, <2>7, <2>8 DEF Live, Talking
  <1>11. ~Refused(c)
    BY <1>2 DEF Refused
  <1>12. CASE GivenUp(c)
    BY <1>2, <1>6, <1>7, <1>8, <1>12 DEF Live, GivenUp
  <1> QED BY <1>1, <1>6, <1>10, <1>11, <1>12, LiveDown

\* Nothing is under way and the connection is gone.
LEMMA NothingLinks ==
  ASSUME NEW c, Down(c)' = 0, conn'[c] # "up"
  PROVE  Links(c)'
  BY DEF Links, Coming

\* The client sends what the server waits for.
LEMMA SentLinks ==
  ASSUME NEW c \in Conn, Counted(c), Counted(c)', Links(c), Same(c), Quiet(c),
         Passed(c, Item(Topic(c), Left(c))), conn[c] = "up",
         ~Challenged(c), ~Challenged(c)', Left(c) >= 1, Left(c)' = Left(c) - 1,
         Left(c) > 1 => Topic(c)' = Topic(c),
         Item(Topic(c), Left(c)) \in Heard
  PROVE  Links(c)'
  <1> DEFINE t == Topic(c)
             n == Left(c)
  <1>1. /\ t \in Topics /\ n \in 1..Length(t) /\ n \in Nat /\ Length(t) \in Nat
        /\ Down(c) \in Nat /\ Up(c) \in Nat /\ Coming(c)
    BY DialogTyped DEF Counted, Links
  <1>2. Down(c) = 0 /\ Down(c)' = 0
    BY <1>1, NothingComing DEF Quiet
  <1>3. n # 1 /\ Item(t, n) # "auth" /\ Item(t, n) # "edit" /\ Topic(c)' = t
    <2>1. \A w \in Said : w \notin Heard
      BY WordsApart
    <2>2. n # 1
      BY <1>1, <2>1, ItemFacts
    <2> QED BY <1>1, <2>2, WordsApart
  <1>4. ~Ahead(c)
    BY <1>3, DialogTable DEF Ahead
  <1>5. Coming(c)' /\ Plain(c)'
    BY <1>2 DEF Coming, Plain
  <1>6. /\ Up(c)' = Up(c) + 1
        /\ \A i \in 1..Up(c) : Heeds(c, i)' = Heeds(c, i)
        /\ \A i : i = Up(c) + 1 => Heeds(c, i)' = Item(t, n)
    BY DEF Passed
  <1>7. ASSUME NEW s \in Nat, Level(c, s) PROVE Level(c, s)'
    <2>1. CASE s <= n
      <3>1. Up(c) = 0 /\ s = n
        BY <1>1, <1>2, <1>4, <1>7, <2>1 DEF Level, Between, Behind
      <3>2. Up(c)' = 1 /\ Heeds(c, 1)' = Item(t, n)
        BY <1>6, <3>1
      <3>3. \A j : j = 1 => Item(t, s + 1 - j) = Item(t, n)
        BY <1>1, <3>1
      <3>4. Behind(c, s)'
        BY <1>1, <1>2, <1>3, <3>1, <3>2, <3>3 DEF Behind
      <3> QED BY <1>1, <1>5, <3>1, <3>4 DEF Level
    <2>2. CASE s > n
      <3>1. Up(c) = s - n /\ \A j \in 1..Up(c) : Item(t, s + 1 - j) \in Heard
                                                   /\ Heeds(c, j) = Item(t, s + 1 - j)
        BY <1>1, <1>7, <2>2 DEF Level, Behind
      <3>2. ASSUME NEW j \in 1..Up(c)'
            PROVE  Item(t, s + 1 - j) \in Heard /\ Heeds(c, j)' = Item(t, s + 1 - j)
        <4>1. CASE j \in 1..Up(c)
          BY <1>6, <3>1, <4>1
        <4>2. CASE j = Up(c) + 1
          <5>1. s + 1 - j = n
            BY <1>1, <3>1, <4>2
          <5> QED BY <1>6, <4>2, <5>1
        <4> QED BY <1>1, <1>6, <4>1, <4>2
      <3>3. Up(c)' = s - Left(c)'
        BY <1>1, <1>6, <3>1
      <3>4. Behind(c, s)'
        BY <1>2, <1>3, <3>2, <3>3 DEF Behind
      <3>5. s > Left(c)'
        BY <1>1, <2>2
      <3> QED BY <1>5, <3>4, <3>5 DEF Level
    <2> QED BY <1>1, <2>1, <2>2
  <1>8. Live(c)
    BY DEF Links
  <1>9. ~Unheard(c)
    <2>1. t \in Requests /\ n = Length(t) => Item(t, n) = "auth"
      BY <1>1, ItemFacts
    <2> QED BY <1>3, <2>1 DEF Unheard
  <1>10. ~Refused(c) /\ ~GivenUp(c)
    BY <1>2, <1>4 DEF Refused, GivenUp
  <1>11. ~Offline(c)
    BY <1>1, <1>3, DialogTable DEF Offline, Heard
  <1>12. Talking(c)
    BY <1>8, <1>9, <1>10, <1>11 DEF Live
  <1>13. PICK s \in 0..Length(t) : Spoken(c, s)
    BY <1>12 DEF Talking
  <1>14. ~Offered(c, s) /\ ~Answered(c, s)
    BY <1>2 DEF Offered, Answered
  <1>15. s \in Nat
    BY <1>1
  <1>16. Spoken(c, s)'
    BY <1>3, <1>7, <1>13, <1>14, <1>15 DEF Spoken, Same
  <1>17. Talking(c)'
    BY <1>3, <1>12, <1>13, <1>16 DEF Talking, Same
  <1> QED BY <1>5, <1>17 DEF Links, Live

\* The client asks for something.
LEMMA AskedLinks ==
  ASSUME NEW c \in Conn, NEW w \in Requests, NEW f, Counted(c), Counted(c)', Resting(c),
         Quiet(c), Passed(c, w), conn[c] = "up", toS'[c][1] = [what |-> w, file |-> f],
         conn'[c] = conn[c], script'[c] = script[c], serves'[c] = serves[c],
         asked'[c] = Asking(w, f), ~Challenged(c)', Left(c)' = Length(w), Topic(c)' = w,
         Busy' <=> Busy, Busy => w = "get-file"
  PROVE  Links(c)'
  <1>1. Down(c)' = 0 /\ Up(c) = 0
    BY DEF Resting, Quiet
  <1>2. Up(c)' = 1 /\ Heeds(c, 1)' = w
    BY <1>1 DEF Passed
  <1>3. CASE script[c] = <<>>
    <2>1. Unheard(c)'
      BY <1>1, <1>2, <1>3 DEF Unheard, Asking
    <2> QED BY <1>1, <2>1 DEF Links, Live, Coming
  <1>4. CASE c = "main" /\ Busy /\ script[c] = Rest("setup", 3)
    <2>1. w = "get-file" /\ Left(c)' = 4
      BY <1>4, DialogTable
    <2>2. Offline(c)'
      BY <1>1, <1>2, <1>4, <2>1 DEF Offline
    <2> QED BY <1>1, <2>2 DEF Links, Live, Coming
  <1> QED BY <1>3, <1>4 DEF Resting

\* A connection is there, and the server about to greet.
LEMMA ReachedLinks ==
  ASSUME NEW c \in Conn, toC'[c] = <<>>, toS'[c] = <<>>, script'[c] = Greeting,
         serves'[c] = SetUp, asked'[c] = SetUp, Left(c)' = 4, Topic(c)' = "setup",
         ~Challenged(c)'
  PROVE  Links(c)'
  <1>1. Down(c)' = 0 /\ Up(c)' = 0
    BY DEF Down, Up
  <1>2. Coming(c)' /\ Plain(c)' /\ ~Ahead(c)'
    BY <1>1 DEF Coming, Plain, Ahead
  <1>3. Length("setup") = 4 /\ Rest("setup", 4) = Greeting /\ 4 \in 0..Length("setup")
    BY DialogTable, RestWhole DEF Dialog, Topics
  <1>4. Level(c, 4)'
    BY <1>1, <1>2 DEF Level, Between
  <1>5. \A s : s = 4 => Spoken(c, s)'
    BY <1>3, <1>4 DEF Spoken
  <1>6. Talking(c)'
    BY <1>3, <1>5 DEF Talking
  <1> QED BY <1>2, <1>6 DEF Links, Live

\* A mechanism was offered; the client answers it and awaits the outcome.
LEMMA AnsweredLinks ==
  ASSUME NEW c \in Conn, Counted(c), Counted(c)', Links(c), Taken(c),
         Told(c, 1) = "auth-anonymous", Item(Topic(c), Left(c)) = "auth",
         conn[c] = "up", Passed(c, "auth-response"),
         conn'[c] = conn[c], asked'[c] = asked[c], script'[c] = script[c], serves'[c] = serves[c],
         Left(c)' = Left(c), Topic(c)' = Topic(c), Challenged(c)'
  PROVE  Links(c)'
  <1> DEFINE t == Topic(c)
             n == Left(c)
  <1>1. /\ t \in Topics /\ n \in Nat /\ Length(t) \in Nat
        /\ Down(c) \in Nat /\ Down(c) >= 1 /\ Down(c)' = Down(c) - 1 /\ Coming(c) /\ Live(c)
    BY DialogTyped DEF Counted, Links, Taken
  <1>2. Down(c) = 1 /\ Down(c)' = 0 /\ Last(c) = "auth-anonymous"
    BY <1>1, ComingFirst DEF Final, Last
  <1>3. n # 3 \/ t # "update"
    BY DialogTable
  <1>4. Up(c) = 0 /\ Up(c)' = 1 /\ Heeds(c, 1)' = "auth-response"
    <2>1. Up(c) = 0
      BY <1>1, LiveDown
    <2> QED BY <2>1 DEF Passed
  <1>5. ~Refused(c) /\ ~GivenUp(c)
    BY <1>2, <1>3 DEF Refused, GivenUp, Ahead
  <1>6. PICK s \in 0..Length(t) :
              /\ s <= n /\ Between(c, s)
              /\ \/ script[c] = Rest(t, s) /\ Level(c, s)
                 \/ /\ s \in 1..Length(t) - 1 /\ Item(t, s + 1) = "auth"
                    /\ \/ script[c] = <<"other-response", "ok">> \o Rest(t, s) /\ Level(c, s)
                       \/ /\ script[c] = <<"auth-response", "ok">> \o Rest(t, s)
                          /\ Offered(c, s)
    BY <1>1, <1>5, LiveDown
  <1>7. serves[c] = asked[c]
    BY <1>1, <1>5, LiveDown DEF Talking
  <1>8. ~Level(c, s)
    BY <1>2 DEF Level, Plain, Last
  <1>9. s \in Nat /\ s < n /\ n = s + 1
    <2>1. s < n
      BY <1>6, <1>8 DEF Offered
    <2>2. CASE Ahead(c)
      <3>1. n = 4
        BY <1>3, <2>2 DEF Ahead
      <3>2. s <= 3 /\ s # 2
        BY <1>1, <1>2, <1>6, <2>1, <2>2, <3>1 DEF Between
      <3> QED BY <1>1, <1>6, <2>1, <2>2, <3>1, <3>2 DEF Between
    <2>3. CASE ~Ahead(c)
      BY <1>1, <1>2, <1>6, <2>3 DEF Between
    <2> QED BY <1>1, <2>1, <2>2, <2>3
  <1>10. Answered(c, s)'
    BY <1>2, <1>9 DEF Answered
  <1>11. Spoken(c, s)'
    BY <1>4, <1>6, <1>8, <1>10 DEF Spoken
  <1>12. Talking(c)'
    BY <1>6, <1>7, <1>11 DEF Talking
  <1>13. Coming(c)'
    BY <1>2 DEF Coming
  <1> QED BY <1>12, <1>13 DEF Links, Live

\* A failure is left to the answer after the contents of the file.
LEMMA SkippedLinks ==
  ASSUME NEW c \in Conn, Counted(c), Counted(c)', Links(c), Same(c), Quiet(c), Still(c),
         ~Challenged(c), ~Challenged(c)', Item(Topic(c), Left(c)) = "contents",
         Left(c) \in 1..Length(Topic(c)), Left(c)' = Left(c) - 1,
         Left(c) > 1 => Topic(c)' = Topic(c), Down(c) >= 1, Told(c, 1) \notin Parts \cup {"contents"}
  PROVE  Links(c)'
  <1> DEFINE t == Topic(c)
             n == Left(c)
  <1>1. /\ t \in Topics /\ n \in Nat /\ Down(c) \in Nat /\ Coming(c) /\ Down(c)' = Down(c)
        /\ Told(c, 1)' = Told(c, 1) /\ About(c, 1)' = About(c, 1) /\ Up(c)' = Up(c)
    BY DEF Counted, Links, Quiet, Still
  <1>2. t = "get-file" /\ n = 2
    <2>1. t \in {"setup", "get-file", "update", "check-path", "get-latest-rev"}
      BY <1>1 DEF Topics, Requests
    <2>2. CASE t = "get-file"
      BY <1>1, <2>2, ItemFacts
    <2>3. CASE t = "update"
      <3>1. n \in {1, 2, 3, 4, 5, 6, 7}
        BY <2>3, <1>1, DialogTable
      <3> QED BY <2>3, <3>1, DialogTable
    <2>4. CASE t = "setup"
      <3>1. n \in {1, 2, 3, 4}
        BY <2>4, <1>1, DialogTable
      <3> QED BY <2>4, <3>1, DialogTable
    <2>5. CASE t \in {"check-path", "get-latest-rev"}
      <3>1. n \in {1, 2}
        BY <2>5, <1>1, DialogTable
      <3> QED BY <2>5, <3>1, DialogTable
    <2> QED BY <2>1, <2>2, <2>3, <2>4, <2>5
  <1>3. Topic(c)' = "get-file" /\ Left(c)' = 1 /\ ~Ahead(c) /\ ~Ahead(c)'
    BY <1>1, <1>2 DEF Ahead
  <1>4. Told(c, 1) = "failure" /\ About(c, 1) = asked[c] /\ Down(c) = 1
    <2>1. /\ About(c, 1) = asked[c] /\ (Told(c, 1) \in Final => Down(c) = 1)
          /\ Told(c, 1) \in Bad \/ Fits(Told(c, 1), "contents")
      BY <1>1, ComingFirst
    <2>2. ~Fits(Told(c, 1), "contents")
      BY DEF Fits, Variants, Said
    <2> QED BY <2>1, <2>2 DEF Bad, Final
  <1>5. Coming(c)'
    <2>1. \A i : i = 1 => Placed(c, i)'
      <3>1. \A i : i = 1 => Slot(c, i)' = 1
        BY <1>3 DEF Slot
      <3>2. Item("get-file", 1) \notin Heard
        BY DialogTable DEF Heard
      <3> QED BY <1>1, <1>3, <1>4, <3>1, <3>2 DEF Placed, Bad, Same
    <2> QED BY <1>1, <1>4, <2>1 DEF Coming
  <1>6. SUFFICES ASSUME conn[c] = "up" PROVE Live(c)'
    BY <1>5 DEF Links, Same
  <1>7. Last(c) = "failure" /\ Last(c)' = "failure"
    BY <1>1, <1>4 DEF Last
  <1>8. Refused(c)
    <2>1. \A s : ~Level(c, s) /\ ~Offered(c, s)
      BY <1>4, <1>7 DEF Level, Plain, Last, Bad, Offered
    <2> QED BY <1>1, <1>3, <1>4, <1>6, <2>1, LiveDown DEF Links, GivenUp
  <1> QED BY <1>1, <1>3, <1>4, <1>7, <1>8 DEF Live, Refused, Same

\* What the client met in the place of the answer is an end of the request.
LEMMA FailedLast ==
  ASSUME NEW c \in Conn, Counted(c), Links(c), Down(c) >= 1, conn[c] = "up",
         Topic(c) # "update", Told(c, 1) = "failure"
  PROVE  Down(c) = 1 /\ script[c] = <<>> /\ serves[c] = asked[c] /\ Up(c) = 0
  <1>1. Coming(c) /\ Live(c) /\ Down(c) \in Nat
    BY DEF Links, Counted
  <1>2. Down(c) = 1 /\ Last(c) = "failure"
    BY <1>1, ComingFirst DEF Final, Bad, Last
  <1>3. \A s : ~Level(c, s) /\ ~Offered(c, s)
    BY <1>2 DEF Level, Plain, Last, Bad, Offered
  <1>4. ~GivenUp(c)
    BY DEF GivenUp, Ahead
  <1>5. Refused(c)
    BY <1>1, <1>2, <1>3, <1>4, LiveDown
  <1> QED BY <1>2, <1>5 DEF Refused

\* A server of another version has greeted, and waits for an answer.
LEMMA OtherVersionLast ==
  ASSUME NEW c \in Conn, Counted(c), Links(c), Down(c) >= 1,
         Topic(c) = "setup", Left(c) = 4, Told(c, 1) = "other-version"
  PROVE  Down(c) = 1 /\ (conn[c] = "up" => script[c] = Rest("setup", 3) /\ Up(c) = 0)
  <1>1. Coming(c) /\ Down(c) \in Nat /\ ~Ahead(c)
    BY DEF Links, Counted, Ahead
  <1>2. Down(c) = 1
    <2>1. SUFFICES ASSUME Down(c) >= 2 PROVE FALSE
      BY <1>1
    <2>2. Placed(c, 2)
      BY <1>1, <2>1 DEF Coming
    <2>3. Slot(c, 2) = 3
      BY <1>1 DEF Slot
    <2> QED BY <2>2, <2>3, DialogTable DEF Placed, Heard
  <1>3. ASSUME conn[c] = "up" PROVE script[c] = Rest("setup", 3) /\ Up(c) = 0
    <2>1. Live(c)
      BY <1>3 DEF Links
    <2>2. ~Refused(c) /\ ~GivenUp(c)
      BY <1>1, <1>2 DEF Refused, GivenUp, Last
    <2>3. PICK s \in 0..Length("setup") :
              /\ s <= 4 /\ Between(c, s)
              /\ \/ script[c] = Rest("setup", s)
                 \/ s \in 1..Length("setup") - 1 /\ Item("setup", s + 1) = "auth"
      BY <2>1, <2>2, LiveDown
    <2>4. s = 3
      BY <1>1, <1>2, <2>3, DialogTable DEF Between
    <2>5. Item("setup", 4) # "auth"
      BY DialogTable
    <2> QED BY <2>1, <2>3, <2>4, <2>5, LiveDown
  <1> QED BY <1>2, <1>3

-----------------------------------------------------------------------------
(***************************************************************************)
(* The server's moves on a connection.                                     *)
(***************************************************************************)
ClientStands(c) ==
  /\ Left(c)' = Left(c) /\ Topic(c)' = Topic(c) /\ (Used(c)' <=> Used(c))
  /\ (Challenged(c)' <=> Challenged(c)) /\ (Busy' <=> Busy)
  /\ asked'[c] = asked[c] /\ outcome' = outcome

\* A step of the server leaves the client where it is.
LEMMA ClientStandsFacts ==
  ASSUME NEW c, UNCHANGED client
  PROVE  ClientStands(c)
  <1>1. todo' = todo /\ asked' = asked /\ outcome' = outcome
    BY DEF client
  <1>2. Remaining' = Remaining /\ (Challenged(c)' <=> Challenged(c))
    BY <1>1 DEF Remaining, Challenged, At, Step
  <1>3. \A k : Saying(k)' = Saying(k)
    BY <1>1, <1>2 DEF Saying, Back
  <1>4. (Busy' <=> Busy) /\ (Fetching' <=> Fetching) /\ (Latest' <=> Latest)
    BY <1>2, <1>3 DEF Busy, Fetching, Latest
  <1>5. RunLeft(Remaining)' = RunLeft(Remaining) /\ RunTopic(Remaining)' = RunTopic(Remaining)
    BY <1>2, <1>4 DEF RunLeft, RunTopic
  <1>6. Left(c)' = Left(c) /\ Topic(c)' = Topic(c) /\ (Used(c)' <=> Used(c))
    BY <1>2, <1>4, <1>5 DEF Left, Topic, Used
  <1> QED BY <1>1, <1>2, <1>4, <1>6 DEF ClientStands

LEMMA AheadStands ==
  ASSUME NEW c, ClientStands(c)
  PROVE  (Ahead(c)' <=> Ahead(c)) /\ \A i : Slot(c, i)' = Slot(c, i)
  BY DEF ClientStands, Ahead, Slot

\* What the server says comes after what is under way.
LEMMA AddedComing ==
  ASSUME NEW c, NEW w, NEW p, Counted(c), Coming(c), Added(c, w), ClientStands(c),
         serves[c] = asked[c], \A i : i = Down(c) + 1 => Slot(c, i) = p,
         p >= 1, Item(Topic(c), p) \notin Heard,
         \/ w \in Bad
         \/ IF Challenged(c) /\ Down(c) = 0 THEN w = "ok" ELSE Fits(w, Item(Topic(c), p)),
         \A i \in 1..Down(c) : Told(c, i) \notin Final
  PROVE  Coming(c)'
  <1>1. /\ Down(c) \in Nat /\ Down(c)' = Down(c) + 1
        /\ \A i \in 1..Down(c) : Told(c, i)' = Told(c, i) /\ About(c, i)' = About(c, i)
        /\ \A i : i = Down(c) + 1 => Told(c, i)' = w /\ About(c, i)' = serves[c]
    BY DEF Added
  <1>2. \A i : Slot(c, i)' = Slot(c, i)
    BY AheadStands
  <1>3. Topic(c)' = Topic(c) /\ asked'[c] = asked[c] /\ (Challenged(c)' <=> Challenged(c))
    BY DEF ClientStands
  <1>4. ASSUME NEW i \in 1..Down(c) PROVE Placed(c, i)'
    <2>1. Placed(c, i) /\ Told(c, i)' = Told(c, i) /\ About(c, i)' = About(c, i)
      BY <1>1 DEF Coming
    <2> QED BY <1>2, <1>3, <2>1 DEF Placed
  <1>5. ASSUME NEW i, i = Down(c) + 1 PROVE Placed(c, i)'
    <2>1. Told(c, i)' = w /\ About(c, i)' = asked'[c] /\ Slot(c, i)' = p /\ i = Down(c)'
      BY <1>1, <1>2, <1>3, <1>5
    <2>2. i = 1 <=> Down(c) = 0
      BY <1>1, <1>5
    <2> QED BY <1>3, <2>1, <2>2 DEF Placed
  <1> QED BY <1>1, <1>4, <1>5 DEF Coming

\* The server is about to say an item of the dialog, or to let the client's
\* answer pass.
LEMMA Speaking ==
  ASSUME NEW c, Counted(c), Coming(c), Live(c), Due(c, Said \cup {"auth"})
  PROVE  /\ serves[c] = asked[c] /\ Up(c) = 0 /\ Plain(c)
         /\ \A i \in 1..Down(c) : Told(c, i) \notin Final
         /\ \/ \E s \in 1..Length(Topic(c)) :
                 /\ script[c] = Rest(Topic(c), s) /\ s <= Left(c) /\ Down(c) = Left(c) - s
                 /\ Head(script[c]) = Item(Topic(c), s) /\ Item(Topic(c), s) \notin Heard
                 /\ \A i : i = Down(c) + 1 => Slot(c, i) = s
                 /\ Challenged(c) => Down(c) >= 1
                 /\ Ahead(c) => s = 4 /\ Left(c) = 4
            \/ \E s \in 1..Length(Topic(c)) - 1 :
                 /\ script[c] = <<"ok">> \o Rest(Topic(c), s) /\ Challenged(c)
                 /\ Item(Topic(c), s + 1) = "auth" /\ Left(c) = s + 1 /\ Down(c) = 0
                 /\ Ahead(c) => s = 3
  <1> DEFINE t == Topic(c)
             n == Left(c)
  <1>1. /\ t \in Topics /\ n \in Nat /\ n <= Length(t) /\ Length(t) \in Nat
        /\ Down(c) \in Nat /\ Up(c) \in Nat
    BY DialogTyped DEF Counted
  <1>2. script[c] # <<>> /\ Head(script[c]) \in Said \cup {"auth"}
    BY DEF Due
  <1>3. Head(script[c]) \notin Heard /\ Head(script[c]) # "edit"
    BY <1>2, WordsApart
  <1>4. \A s \in 1..Length(t) : Head(Rest(t, s)) = Item(t, s) /\ Rest(t, s) \in Seq(Word)
    BY <1>1, RestFacts
  <1>5. ~Unheard(c) /\ ~Refused(c)
    BY <1>2 DEF Unheard, Refused
  <1>6. ~GivenUp(c)
    <2>1. script[c] # <<"success", "failure">>
      BY <1>3 DEF Heard
    <2> QED BY <1>2, <2>1 DEF GivenUp
  <1>7. ~Offline(c)
    <2>1. "setup" \in Topics /\ 3 \in 1..Length("setup") /\ Item("setup", 3) \in Heard
      BY DialogTable DEF Topics, Heard
    <2>2. Head(Rest("setup", 3)) \in Heard
      BY <2>1, RestFacts
    <2> QED BY <1>3, <2>2 DEF Offline
  <1>8. Talking(c)
    BY <1>5, <1>6, <1>7 DEF Live
  <1>9. PICK s \in 0..Length(t) : Spoken(c, s)
    BY <1>8 DEF Talking
  <1>10. s \in Nat /\ serves[c] = asked[c]
    BY <1>1, <1>8 DEF Talking
  <1>11. /\ script[c] # <<"other-response", "ok">> \o Rest(t, s)
         /\ script[c] # <<"auth-response", "ok">> \o Rest(t, s)
    <2>1. Rest(t, s) \in Seq(Word)
      <3>1. CASE s = 0
        <4>1. Rest(t, 0) = <<>>
          BY <1>1, RestEmpty
        <4>2. <<>> \in Seq(Word)
          OBVIOUS
        <4> QED BY <3>1, <4>1, <4>2
      <3>2. CASE s # 0
        BY <1>1, <1>4, <1>10, <3>2
      <3> QED BY <3>1, <3>2
    <2>2. "other-response" \in Heard /\ "auth-response" \in Heard
      BY DEF Heard
    <2> QED BY <1>3, <2>1, <2>2, ExtraFacts
  <1>12. CASE script[c] = Rest(t, s) /\ Level(c, s)
    <2>1. s \in 1..Length(t) /\ Head(script[c]) = Item(t, s)
      BY <1>1, <1>2, <1>4, <1>10, <1>12, RestEmpty
    <2>2. s <= n
      <3>1. SUFFICES ASSUME s > n PROVE FALSE
        BY <1>1, <1>10
      <3>2. Behind(c, s) /\ Up(c) = s - n
        BY <1>1, <1>10, <1>12, <3>1 DEF Level, Behind
      <3>3. \A j : j = 1 => j \in 1..Up(c) /\ s + 1 - j = s
        BY <1>1, <1>10, <3>1, <3>2
      <3>4. Item(t, s) \in Heard
        BY <3>2, <3>3 DEF Behind
      <3> QED BY <1>3, <2>1, <3>4
    <2>3. Plain(c) /\ Up(c) = 0 /\ Between(c, s) /\ (Challenged(c) => s < n)
      BY <1>1, <1>10, <1>12, <2>2 DEF Level
    <2>4. Ahead(c) => s = 4 /\ n = 4
      <3>1. SUFFICES ASSUME Ahead(c), s <= 3 PROVE FALSE
        BY <1>1, <1>10, <2>2 DEF Ahead
      <3>2. s \in {2, 3} /\ t = "update"
        BY <2>3, <3>1 DEF Between, Ahead
      <3>3. Item(t, s) \in {"success", "edit"}
        BY <3>2, DialogTable
      <3> QED BY <1>3, <2>1, <3>3 DEF Heard
    <2>5. Down(c) = n - s
      BY <1>10, <2>3, <2>4 DEF Between
    <2>6. \A i : i = Down(c) + 1 => Slot(c, i) = s
      BY <1>1, <1>10, <2>4, <2>5 DEF Slot
    <2>7. \A i \in 1..Down(c) : Told(c, i) # "close-edit"
      <3>1. CASE Ahead(c)
        BY <1>1, <2>4, <2>5, <3>1
      <3>2. CASE ~Ahead(c)
        BY <3>2, NoCloseEdit
      <3> QED BY <3>1, <3>2
    <2>8. \A i \in 1..Down(c) : Told(c, i) \notin Final
      BY <2>3, <2>7 DEF Plain, Final
    <2>9. Challenged(c) => Down(c) >= 1
      BY <1>1, <1>10, <2>3, <2>5
    <2> QED BY <1>3, <1>10, <1>12, <2>1, <2>2, <2>3, <2>4, <2>5, <2>6, <2>8, <2>9
  <1>13. CASE /\ s \in 1..Length(t) - 1 /\ Item(t, s + 1) = "auth"
              /\ script[c] = <<"ok">> \o Rest(t, s) /\ Answered(c, s) /\ Up(c) = 0
    <2>1. Challenged(c) /\ n = s + 1 /\ Down(c) = 0
      BY <1>13 DEF Answered
    <2>2. Ahead(c) => s = 3
      <3>1. SUFFICES ASSUME t = "update", s = 2 PROVE FALSE
        BY <1>1, <1>10, <2>1 DEF Ahead
      <3> QED BY <1>13, <3>1, DialogTable
    <2>3. Plain(c) /\ \A i \in 1..Down(c) : Told(c, i) \notin Final
      BY <2>1 DEF Plain
    <2> QED BY <1>10, <1>13, <2>1, <2>2, <2>3
  <1> QED BY <1>9, <1>11, <1>12, <1>13 DEF Spoken

\* The messages before the new one are as they were.
LEMMA AddedPlain ==
  ASSUME NEW c, NEW w, Added(c, w)
  PROVE  /\ Plain(c) /\ w \notin Bad \cup {"auth-anonymous"} => Plain(c)'
         /\ Last(c)' = w
         /\ (\A i \in 1..Down(c) : Told(c, i) # "close-edit") /\ w # "close-edit"
              => (\A i \in 1..Down(c) : Told(c, i) # "close-edit")'
  <1>1. /\ Down(c) \in Nat /\ Down(c)' = Down(c) + 1
        /\ \A i \in 1..Down(c) : Told(c, i)' = Told(c, i)
        /\ \A i : i = Down(c) + 1 => Told(c, i)' = w
    BY DEF Added
  <1>2. ASSUME NEW i \in 1..Down(c)'
        PROVE  (i \in 1..Down(c) /\ Told(c, i)' = Told(c, i)) \/ Told(c, i)' = w
    BY <1>1
  <1> QED BY <1>1, <1>2 DEF Plain, Last

\* The server is level with the client after what it has said.
LEMMA SaidLevel ==
  ASSUME NEW c, NEW w, NEW s, Counted(c), ClientStands(c), Added(c, w), Still(c), Up(c) = 0,
         s \in 1..Length(Topic(c)), s <= Left(c), Down(c) = Left(c) - s,
         w \notin {"close-edit"}, \A i \in 1..Down(c) : Told(c, i) \notin Final,
         Ahead(c) => s = 4 /\ Left(c) = 4
  PROVE  /\ s - 1 <= Left(c)' /\ s - 1 < Left(c)' /\ Up(c)' = 0 /\ Between(c, s - 1)'
         /\ Down(c)' >= 1
         /\ Plain(c) /\ w \notin Bad \cup {"auth-anonymous"} => Level(c, s - 1)'
  <1>1. /\ Left(c) \in Nat /\ s \in Nat /\ Down(c) \in Nat /\ Down(c)' = Down(c) + 1
        /\ Left(c)' = Left(c) /\ Up(c)' = 0
        /\ \A i \in 1..Down(c) : Told(c, i)' = Told(c, i)
        /\ \A i : i = Down(c) + 1 => Told(c, i)' = w
    BY DialogTyped DEF Counted, Added, ClientStands, Still
  <1>2. s - 1 <= Left(c)' /\ s - 1 < Left(c)' /\ Down(c)' = Left(c)' - (s - 1)
    BY <1>1
  <1>3. (\A i \in 1..Down(c) : Told(c, i) # "close-edit")'
    BY AddedPlain DEF Final
  <1>4. ASSUME NEW r, r = s - 1 PROVE Between(c, r)'
    <2>1. CASE Ahead(c)
      <3>1. r = 3 /\ Left(c)' = 4 /\ Down(c)' = 1
        BY <1>1, <1>4, <2>1
      <3> QED BY <1>3, <3>1 DEF Between
    <2>2. CASE ~Ahead(c)
      <3>1. ~Ahead(c)'
        BY <2>2, AheadStands
      <3> QED BY <1>2, <1>4, <3>1 DEF Between
    <2> QED BY <2>1, <2>2
  <1>5. Down(c)' >= 1
    BY <1>1
  <1>6. ASSUME NEW r, r = s - 1, Plain(c) /\ w \notin Bad \cup {"auth-anonymous"}
        PROVE  Level(c, r)'
    <2>1. Plain(c)'
      BY <1>6, AddedPlain
    <2> QED BY <1>1, <1>2, <1>4, <1>6, <2>1 DEF Level
  <1> QED BY <1>1, <1>2, <1>4, <1>5, <1>6

\* The outcome of the authentication after the client's answer.
LEMMA PassedLevel ==
  ASSUME NEW c, NEW s, Counted(c), ClientStands(c), Added(c, "ok"), Still(c), Up(c) = 0,
         s \in 1..Length(Topic(c)) - 1, Left(c) = s + 1, Down(c) = 0, Ahead(c) => s = 3
  PROVE  Level(c, s)'
  <1>1. /\ Left(c) \in Nat /\ s \in Nat /\ Down(c)' = 1 /\ Left(c)' = s + 1 /\ Up(c)' = 0
        /\ Told(c, 1)' = "ok"
    BY DialogTyped DEF Counted, Added, ClientStands, Still
  <1>2. Plain(c)' /\ (\A i \in 1..Down(c) : Told(c, i) # "close-edit")'
    BY <1>1 DEF Plain, Bad, Parts
  <1>3. Ahead(c)' => s = 3
    BY AheadStands
  <1>4. Between(c, s)'
    BY <1>1, <1>2, <1>3 DEF Between
  <1> QED BY <1>1, <1>2, <1>4 DEF Level

\* The server says the item that is due.
LEMMA SayLinks ==
  ASSUME NetTyped, ServerTyped, NEW c \in Conn, Counted(c), Links(c), Say(c)
  PROVE  Links(c)'
  <1> DEFINE t == Topic(c)
  <1>1. /\ conn[c] = "up" /\ conn' = conn /\ ClientStands(c) /\ Still(c)
        /\ script'[c] = Tail(script[c]) /\ serves' = serves
    BY ClientStandsFacts, QuietFacts DEF Say, Serving, Then, ServerTyped
  <1>2. PICK w \in Variants(Head(script[c])) : Tell(c, w)
    BY DEF Say
  <1>3. Due(c, Said) /\ Head(script[c]) \in Said
    BY DEF Say, Due
  <1>4. Added(c, w)
    BY <1>2, AddedFacts
  <1>5. Due(c, Said \cup {"auth"}) /\ Coming(c) /\ Live(c)
    BY <1>1, <1>3 DEF Due, Links
  <1>6. /\ serves[c] = asked[c] /\ Up(c) = 0 /\ Plain(c) /\ t \in Topics
        /\ \A i \in 1..Down(c) : Told(c, i) \notin Final
    BY <1>5, Speaking DEF Counted
  <1>7. /\ Left(c)' = Left(c) /\ Topic(c)' = t /\ (Challenged(c)' <=> Challenged(c))
        /\ asked'[c] = asked[c]
    BY <1>1 DEF ClientStands
  <1>8. ASSUME NEW s \in 1..Length(t),
               script[c] = Rest(t, s), s <= Left(c), Down(c) = Left(c) - s,
               Head(script[c]) = Item(t, s), Item(t, s) \notin Heard,
               \A i : i = Down(c) + 1 => Slot(c, i) = s,
               Challenged(c) => Down(c) >= 1, Ahead(c) => s = 4 /\ Left(c) = 4
        PROVE  Links(c)'
    <2>1. Head(script[c]) # "failure"
      BY <1>6, <1>8, ItemFacts
    <2>2. w \notin Final /\ Fits(w, Item(t, s))
      BY <1>2, <1>3, <1>8, <2>1, WordsApart
    <2>3. ~(Challenged(c) /\ Down(c) = 0)
      BY <1>8
    <2>4. s \in Nat /\ s >= 1 /\ Length(t) \in Nat
      BY <1>6, DialogTyped
    <2>5. Coming(c)'
      BY <1>1, <1>4, <1>5, <1>6, <1>8, <2>2, <2>3, <2>4, AddedComing
    <2>6. Level(c, s - 1)'
      BY <1>1, <1>4, <1>6, <1>8, <2>2, SaidLevel DEF Final
    <2>7. script'[c] = Rest(t, s - 1) /\ s - 1 \in 0..Length(t)
      BY <1>1, <1>6, <1>8, <2>4, RestFacts
    <2>8. \A r : r = s - 1 => Spoken(c, r)'
      BY <1>7, <2>6, <2>7 DEF Spoken
    <2>9. Talking(c)'
      BY <1>1, <1>6, <1>7, <2>7, <2>8 DEF Talking
    <2> QED BY <2>5, <2>9 DEF Links, Live
  <1>9. ASSUME NEW s \in 1..Length(t) - 1,
               script[c] = <<"ok">> \o Rest(t, s), Challenged(c),
               Item(t, s + 1) = "auth", Left(c) = s + 1, Down(c) = 0, Ahead(c) => s = 3
        PROVE  Links(c)'
    <2>1. s \in Nat /\ Length(t) \in Nat /\ s \in 1..Length(t) /\ Rest(t, s) \in Seq(Word)
      BY <1>6, DialogTyped, RestFacts
    <2>2. Head(script[c]) = "ok" /\ Tail(script[c]) = Rest(t, s)
      BY <1>9, <2>1, ExtraFacts
    <2>3. w = "ok"
      BY <1>2, <2>2, WordsApart
    <2>4. Slot(c, 1) = Left(c)
      BY AheadFacts DEF Counted
    <2>5. \A i : i = Down(c) + 1 => Slot(c, i) = s + 1
      BY <1>9, <2>4
    <2>6. "auth" \notin Heard /\ s + 1 >= 1
      BY <2>1, WordsApart
    <2>7. Coming(c)'
      BY <1>1, <1>4, <1>5, <1>6, <1>9, <2>3, <2>5, <2>6, AddedComing
    <2>8. Level(c, s)'
      BY <1>1, <1>4, <1>6, <1>9, <2>3, PassedLevel
    <2>9. Spoken(c, s)'
      BY <1>1, <1>7, <2>2, <2>8 DEF Spoken
    <2>10. Talking(c)'
      BY <1>1, <1>6, <1>7, <2>1, <2>9 DEF Talking
    <2> QED BY <2>7, <2>10 DEF Links, Live
  <1> QED BY <1>5, <1>8, <1>9, Speaking

\* A challenge that is met again while another one is answered would be the
\* second one of the update, with the report in between.
LEMMA OneChallenge ==
  ASSUME NEW c, Counted(c), Coming(c), Challenged(c), Item(Topic(c), Left(c)) = "auth",
         NEW s \in 1..Length(Topic(c)), s <= Left(c), Down(c) = Left(c) - s, Down(c) >= 1
  PROVE  Item(Topic(c), s) # "auth"
  <1> DEFINE t == Topic(c)
             n == Left(c)
  <1>1. /\ t \in {"setup", "get-file", "update", "check-path", "get-latest-rev"} /\ t \in Topics
        /\ n \in Nat /\ n <= Length(t) /\ Length(t) \in Nat /\ s \in Nat /\ s < n
        /\ n \in 1..Length(t)
    BY DialogTyped DEF Counted, Topics, Requests
  <1>2. SUFFICES ASSUME Item(t, s) = "auth" PROVE FALSE
    OBVIOUS
  <1>3. CASE t \in {"setup", "get-file"}
    BY <1>1, <1>2, <1>3, ItemFacts
  <1>4. CASE t \in {"check-path", "get-latest-rev"}
    <2>1. n \in {1, 2} /\ s = 1
      BY <1>1, <1>4, DialogTable
    <2> QED BY <1>2, <1>4, <2>1, DialogTable
  <1>5. CASE t = "update"
    <2>1. n \in {4, 7} /\ s \in {4, 7}
      BY <1>1, <1>2, <1>5, ItemFacts
    <2>2. n = 7 /\ s = 4 /\ Down(c) = 3
      BY <1>1, <2>1
    <2>3. Placed(c, 2) /\ ~Ahead(c)
      BY <2>2 DEF Coming, Ahead
    <2>4. Slot(c, 2) = 6
      BY <2>2, <2>3 DEF Slot
    <2> QED BY <1>5, <2>3, <2>4, DialogTable DEF Placed, Heard
  <1> QED BY <1>1, <1>3, <1>4, <1>5

\* It offers its mechanisms.
LEMMA SayAuthLinks ==
  ASSUME NetTyped, ServerTyped, NEW c \in Conn, Counted(c), Links(c), SayAuth(c),
         Challenged(c) => Item(Topic(c), Left(c)) = "auth"
  PROVE  Links(c)'
  <1> DEFINE t == Topic(c)
  <1>1. /\ conn[c] = "up" /\ conn' = conn /\ ClientStands(c) /\ Still(c) /\ serves' = serves
    BY ClientStandsFacts, QuietFacts DEF SayAuth, Serving
  <1>2. PICK w : /\ Tell(c, w)
                 /\ \/ w = "auth-none" /\ script'[c] = Tail(script[c])
                    \/ w = "auth-anonymous" /\ script'[c] = <<"auth-response", "ok">> \o Tail(script[c])
                    \/ w = "auth-other" /\ script'[c] = <<"other-response", "ok">> \o Tail(script[c])
    BY DEF SayAuth, Then, ServerTyped
  <1>3. Head(script[c]) = "auth" /\ Due(c, Said \cup {"auth"})
    BY DEF SayAuth, Due
  <1>4. Added(c, w)
    BY <1>2, AddedFacts
  <1>5. Coming(c) /\ Live(c)
    BY <1>1 DEF Links
  <1>6. /\ serves[c] = asked[c] /\ Up(c) = 0 /\ Plain(c) /\ t \in Topics
        /\ \A i \in 1..Down(c) : Told(c, i) \notin Final
    BY <1>3, <1>5, Speaking DEF Counted
  <1>7. /\ Left(c)' = Left(c) /\ Topic(c)' = t /\ (Challenged(c)' <=> Challenged(c))
        /\ asked'[c] = asked[c]
    BY <1>1 DEF ClientStands
  <1>8. ASSUME NEW s \in 1..Length(t),
               script[c] = Rest(t, s), s <= Left(c), Down(c) = Left(c) - s,
               Head(script[c]) = Item(t, s), Item(t, s) \notin Heard,
               \A i : i = Down(c) + 1 => Slot(c, i) = s,
               Challenged(c) => Down(c) >= 1, Ahead(c) => s = 4 /\ Left(c) = 4
        PROVE  Links(c)'
    <2>1. Item(t, s) = "auth" /\ Fits(w, "auth") /\ ~Challenged(c)
      BY <1>2, <1>3, <1>5, <1>8, WordsApart, OneChallenge
    <2>2. w # "close-edit" /\ (w \in Bad \cup {"auth-anonymous"} => w = "auth-anonymous")
      BY <1>2 DEF Bad, Parts
    <2>3. s \in Nat /\ s >= 1 /\ Length(t) \in Nat
      BY <1>6, DialogTyped
    <2>4. Coming(c)'
      BY <1>1, <1>4, <1>5, <1>6, <1>8, <2>1, <2>3, AddedComing
    <2>5. /\ s - 1 < Left(c)' /\ Up(c)' = 0 /\ Between(c, s - 1)' /\ Down(c)' >= 1
          /\ w # "auth-anonymous" => Level(c, s - 1)'
      BY <1>1, <1>4, <1>6, <1>8, <2>2, SaidLevel
    <2>6. Tail(script[c]) = Rest(t, s - 1) /\ s # 1
      <3>1. "auth" \notin Said
        BY DEF Said
      <3> QED BY <1>6, <1>8, <2>1, <3>1, RestFacts, ItemFacts
    <2>7. ASSUME NEW r, r = s - 1 PROVE Spoken(c, r)'
      <3>1. r \in 1..Length(t) - 1 /\ Item(t, r + 1) = "auth" /\ r + 1 = s
        BY <2>1, <2>3, <2>6, <2>7
      <3>2. CASE w = "auth-none"
        BY <1>2, <1>7, <2>5, <2>6, <2>7, <3>2 DEF Spoken
      <3>3. CASE w = "auth-other"
        <4>1. Level(c, r)' /\ script'[c] = <<"other-response", "ok">> \o Rest(t, r)
          BY <1>2, <2>5, <2>6, <2>7, <3>3
        <4> QED BY <1>7, <3>1, <4>1 DEF Spoken
      <3>4. CASE w = "auth-anonymous"
        <4>1. Last(c)' = w
          BY <1>4, AddedPlain
        <4>2. Offered(c, r)'
          BY <1>7, <2>1, <2>5, <2>7, <3>4, <4>1 DEF Offered
        <4>3. script'[c] = <<"auth-response", "ok">> \o Rest(t, r)
          BY <1>2, <2>6, <2>7, <3>4
        <4> QED BY <1>7, <3>1, <4>2, <4>3 DEF Spoken
      <3> QED BY <1>2, <3>2, <3>3, <3>4
    <2>8. \A r : r = s - 1 => r \in 0..Length(t)
      BY <2>3
    <2>9. Talking(c)'
      BY <1>1, <1>6, <1>7, <2>7, <2>8 DEF Talking
    <2> QED BY <2>4, <2>9 DEF Links, Live
  <1>9. ASSUME NEW s \in 1..Length(t) - 1, script[c] = <<"ok">> \o Rest(t, s) PROVE FALSE
    <2>1. s \in 1..Length(t) /\ Length(t) \in Nat
      BY <1>6, DialogTyped
    <2>2. Head(script[c]) = "ok"
      BY <1>6, <1>9, <2>1, RestFacts, ExtraFacts
    <2> QED BY <1>3, <2>2
  <1> QED BY <1>3, <1>5, <1>8, <1>9, Speaking

\* It refuses the request, at any of its answers.
LEMMA RefuseLinks ==
  ASSUME NetTyped, ServerTyped, ConnTyped, NEW c \in Conn, Counted(c), Links(c), Refuse(c)
  PROVE  Links(c)'
  <1> DEFINE t == Topic(c)
  <1>1. /\ conn[c] = "up" /\ ClientStands(c) /\ Still(c) /\ serves' = serves
        /\ script'[c] = <<>>
    BY ClientStandsFacts, QuietFacts DEF Refuse, Serving, Then, ServerTyped
  <1>2. Added(c, "failure") /\ Due(c, Said \cup {"auth"})
    BY AddedFacts DEF Refuse
  <1>3. Coming(c) /\ Live(c)
    BY <1>1 DEF Links
  <1>4. /\ serves[c] = asked[c] /\ Up(c) = 0 /\ t \in Topics
        /\ \A i \in 1..Down(c) : Told(c, i) \notin Final
    BY <1>2, <1>3, Speaking DEF Counted
  <1>5. Last(c)' = "failure" /\ Down(c)' = Down(c) + 1 /\ Down(c) \in Nat /\ Up(c)' = 0
    BY <1>1, <1>2, <1>4, AddedPlain DEF Added, Still
  <1>6. "failure" \in Bad
    BY DEF Bad
  <1>7. asked'[c] = asked[c] /\ Left(c)' = Left(c) /\ (Ahead(c)' <=> Ahead(c))
    BY <1>1, AheadStands DEF ClientStands
  <1>8. ASSUME NEW s \in 1..Length(t),
               script[c] = Rest(t, s), s <= Left(c), Down(c) = Left(c) - s,
               Item(t, s) \notin Heard,
               \A i : i = Down(c) + 1 => Slot(c, i) = s,
               Ahead(c) => s = 4 /\ Left(c) = 4
        PROVE  Links(c)'
    <2>1. s \in Nat /\ s >= 1
      BY <1>4, DialogTyped
    <2>2. Coming(c)'
      BY <1>1, <1>2, <1>3, <1>4, <1>6, <1>8, <2>1, AddedComing
    <2>3. Ahead(c)' => Left(c)' = 4 /\ Down(c)' = 1
      BY <1>5, <1>7, <1>8
    <2>4. Refused(c)'
      BY <1>1, <1>4, <1>5, <1>7, <2>3 DEF Refused
    <2> QED BY <2>2, <2>4 DEF Links, Live
  <1>9. ASSUME NEW s \in 1..Length(t) - 1, Item(t, s + 1) = "auth", Left(c) = s + 1, Down(c) = 0,
               Ahead(c) => s = 3
        PROVE  Links(c)'
    <2>1. s \in Nat /\ s >= 1
      BY <1>4, DialogTyped
    <2>2. Slot(c, 1) = Left(c)
      BY AheadFacts DEF Counted
    <2>3. \A i : i = Down(c) + 1 => Slot(c, i) = s + 1
      BY <1>9, <2>2
    <2>4. "auth" \notin Heard
      BY WordsApart
    <2>5. Coming(c)'
      BY <1>1, <1>2, <1>3, <1>4, <1>6, <1>9, <2>1, <2>3, <2>4, AddedComing
    <2>6. Refused(c)'
      BY <1>1, <1>4, <1>5, <1>7, <1>9 DEF Refused
    <2> QED BY <2>5, <2>6 DEF Links, Live
  <1> QED BY <1>2, <1>3, <1>8, <1>9, Speaking

\* The server is in the edit; the client has come to it or is before the offer
\* that the edit begins with.
LEMMA Editing ==
  ASSUME NEW c, Counted(c), Coming(c), Live(c), Due(c, {"edit"})
  PROVE  /\ serves[c] = asked[c] /\ Up(c) = 0 /\ Plain(c) /\ Ahead(c)
         /\ script[c] = Rest("update", 3) /\ Down(c) >= Left(c) - 3
         /\ \A i \in 1..Down(c) : Told(c, i) \notin Final
         /\ Challenged(c) => Left(c) = 4
         /\ \A i : i = Down(c) + 1 => Slot(c, i) = 3
  <1> DEFINE t == Topic(c)
             n == Left(c)
  <1>1. /\ t \in Topics /\ n \in Nat /\ n <= Length(t) /\ Length(t) \in Nat
        /\ Down(c) \in Nat /\ Up(c) \in Nat
    BY DialogTyped DEF Counted
  <1>2. script[c] # <<>> /\ Head(script[c]) = "edit"
    BY DEF Due
  <1>3. "edit" \notin Heard /\ "edit" # "ok"
    BY WordsApart
  <1>4. \A s \in 1..Length(t) : Head(Rest(t, s)) = Item(t, s) /\ Rest(t, s) \in Seq(Word)
    BY <1>1, RestFacts
  <1>5. ~Unheard(c) /\ ~Refused(c) /\ ~GivenUp(c)
    <2>1. Head(<<"success", "failure">>) # "edit"
      OBVIOUS
    <2> QED BY <1>2, <2>1 DEF Unheard, Refused, GivenUp
  <1>6. ~Offline(c)
    <2>1. "setup" \in Topics /\ 3 \in 1..Length("setup") /\ Item("setup", 3) # "edit"
      BY DialogTable DEF Topics
    <2> QED BY <1>2, <2>1, RestFacts DEF Offline
  <1>7. Talking(c)
    BY <1>5, <1>6 DEF Live
  <1>8. PICK s \in 0..Length(t) : Spoken(c, s)
    BY <1>7 DEF Talking
  <1>9. s \in Nat /\ serves[c] = asked[c]
    BY <1>1, <1>7 DEF Talking
  <1>10. script[c] = Rest(t, s) /\ Level(c, s)
    <2>1. Rest(t, s) \in Seq(Word)
      <3>1. CASE s = 0
        <4>1. Rest(t, 0) = <<>>
          BY <1>1, RestEmpty
        <4>2. <<>> \in Seq(Word)
          OBVIOUS
        <4> QED BY <3>1, <4>1, <4>2
      <3>2. CASE s # 0
        BY <1>1, <1>4, <1>9, <3>2
      <3> QED BY <3>1, <3>2
    <2>2. /\ Head(<<"other-response", "ok">> \o Rest(t, s)) # "edit"
          /\ Head(<<"auth-response", "ok">> \o Rest(t, s)) # "edit"
          /\ Head(<<"ok">> \o Rest(t, s)) # "edit"
      BY <2>1, ExtraFacts
    <2> QED BY <1>2, <1>8, <2>2 DEF Spoken
  <1>11. s \in 1..Length(t) /\ Item(t, s) = "edit"
    BY <1>1, <1>2, <1>4, <1>9, <1>10, RestEmpty
  <1>12. t = "update" /\ s = 3
    BY <1>1, <1>11, ItemFacts
  <1>13. s <= n
    <2>1. SUFFICES ASSUME s > n PROVE FALSE
      BY <1>1, <1>9
    <2>2. Behind(c, s) /\ Up(c) = s - n
      BY <1>1, <1>9, <1>10, <2>1 DEF Level, Behind
    <2>3. \A j : j = 1 => j \in 1..Up(c) /\ s + 1 - j = s
      BY <1>1, <1>9, <2>1, <2>2
    <2>4. Item(t, s) \in Heard
      BY <2>2, <2>3 DEF Behind
    <2> QED BY <1>3, <1>11, <2>4
  <1>14. Plain(c) /\ Up(c) = 0 /\ Between(c, s) /\ (Challenged(c) => s < n)
    BY <1>1, <1>9, <1>10, <1>13 DEF Level
  <1>15. Ahead(c)
    <2>1. SUFFICES ASSUME ~Ahead(c) PROVE FALSE
      OBVIOUS
    <2>2. n >= 5 /\ Down(c) = n - 3
      BY <1>1, <1>12, <1>13, <1>14, <2>1 DEF Ahead, Between
    <2>3. \A i : i = n - 4 => Placed(c, i) /\ Slot(c, i) = 5
      <3>1. n - 4 \in 1..Down(c)
        BY <1>1, <2>2
      <3>2. \A i : i = n - 4 => n + 1 - i = 5
        BY <1>1
      <3> QED BY <2>1, <3>1, <3>2 DEF Coming, Slot
    <2> QED BY <1>12, <2>3, DialogTable DEF Placed, Heard
  <1>16. n \in {3, 4}
    BY <1>15 DEF Ahead
  <1>17. Down(c) >= n - 3 /\ \A i \in 1..Down(c) : Told(c, i) # "close-edit"
    BY <1>12, <1>14, <1>15 DEF Between
  <1>18. \A i \in 1..Down(c) : Told(c, i) \notin Final
    BY <1>14, <1>17 DEF Plain, Final
  <1>19. \A i : i = Down(c) + 1 => Slot(c, i) = 3
    BY <1>1, <1>15, <1>16, <1>17 DEF Slot
  <1> QED BY <1>9, <1>10, <1>12, <1>14, <1>15, <1>16, <1>17, <1>18, <1>19

\* It sends a command of the edit, closes it or gives it up.
LEMMA EditLinks ==
  ASSUME NetTyped, ServerTyped, NEW c \in Conn, Counted(c), Links(c), Topic("shadow") # "update",
         EditCommand(c) \/ CloseEdit(c) \/ AbortEdit(c)
  PROVE  Links(c)'
  <1>1. /\ conn[c] = "up" /\ conn' = conn /\ ClientStands(c) /\ Still(c) /\ serves' = serves
        /\ Due(c, {"edit"})
    BY ClientStandsFacts, QuietFacts DEF EditCommand, CloseEdit, AbortEdit, Serving
  <1>2. Coming(c) /\ Live(c)
    BY <1>1 DEF Links
  <1>3. /\ serves[c] = asked[c] /\ Up(c) = 0 /\ Plain(c) /\ Ahead(c)
        /\ script[c] = Rest("update", 3) /\ Down(c) >= Left(c) - 3
        /\ \A i \in 1..Down(c) : Told(c, i) \notin Final
        /\ Challenged(c) => Left(c) = 4
        /\ \A i : i = Down(c) + 1 => Slot(c, i) = 3
    BY <1>1, <1>2, Editing
  <1>4. Topic(c) = "update" /\ Left(c) \in {3, 4} /\ Down(c) \in Nat
    BY <1>3 DEF Ahead, Counted
  <1>5. /\ Left(c)' = Left(c) /\ Topic(c)' = "update" /\ (Challenged(c)' <=> Challenged(c))
        /\ asked'[c] = asked[c] /\ Ahead(c)' /\ Up(c)' = 0
    BY <1>1, <1>3, <1>4, AheadStands DEF ClientStands, Still
  <1>6. "edit" \notin Heard /\ Item("update", 3) = "edit"
    BY WordsApart, DialogTable
  <1>7. Challenged(c) => Down(c) # 0
    BY <1>3, <1>4
  <1>8. ASSUME NEW w, w \in Bad \/ Fits(w, "edit"), Added(c, w) PROVE Coming(c)'
    BY <1>1, <1>2, <1>3, <1>4, <1>6, <1>7, <1>8, AddedComing
  <1>9. ASSUME NEW w, Added(c, w)
        PROVE  /\ Down(c)' = Down(c) + 1 /\ Last(c)' = w
               /\ w \notin Bad \cup {"auth-anonymous"} => Plain(c)'
               /\ w # "close-edit" => (\A i \in 1..Down(c) : Told(c, i) # "close-edit")'
    BY <1>3, <1>9, AddedPlain DEF Added, Final
  <1>10. CASE EditCommand(c)
    <2>1. Added(c, "edit") /\ script' = script
      BY <1>10, AddedFacts DEF EditCommand
    <2>2. Coming(c)'
      BY <1>8, <2>1 DEF Fits
    <2>3. Plain(c)' /\ Down(c)' = Down(c) + 1 /\ (\A i \in 1..Down(c) : Told(c, i) # "close-edit")'
      BY <1>9, <2>1 DEF Bad, Parts
    <2>4. Between(c, 3)'
      BY <1>3, <1>4, <1>5, <2>3 DEF Between
    <2>5. 3 <= Left(c)' /\ (Challenged(c)' => 3 < Left(c)')
      BY <1>3, <1>4, <1>5
    <2>6. Level(c, 3)'
      BY <1>5, <2>3, <2>4, <2>5 DEF Level
    <2>7. Talking(c)'
      BY <1>1, <1>3, <1>5, <2>1, <2>6, DialogTable DEF Talking, Spoken
    <2> QED BY <2>2, <2>7 DEF Links, Live
  <1>11. CASE CloseEdit(c)
    <2>1. Added(c, "close-edit") /\ script'[c] = Tail(script[c])
      BY <1>11, AddedFacts DEF CloseEdit, Then, ServerTyped
    <2>2. Coming(c)'
      BY <1>8, <2>1 DEF Fits
    <2>3. Plain(c)' /\ Down(c)' = Down(c) + 1 /\ Last(c)' = "close-edit"
      BY <1>9, <2>1 DEF Bad, Parts
    <2>4. Between(c, 2)'
      BY <1>3, <1>4, <1>5, <2>3 DEF Between
    <2>5. 2 <= Left(c)' /\ 2 < Left(c)'
      BY <1>4, <1>5
    <2>6. Level(c, 2)'
      BY <1>5, <2>3, <2>4, <2>5 DEF Level
    <2>7. script'[c] = Rest("update", 2)
      BY <1>3, <2>1, RestFacts, DialogTable DEF Topics, Requests
    <2>8. Talking(c)'
      BY <1>1, <1>3, <1>5, <2>6, <2>7, DialogTable DEF Talking, Spoken
    <2> QED BY <2>2, <2>8 DEF Links, Live
  <1>12. CASE AbortEdit(c)
    <2>1. PICK w \in {"abort-edit", "failure"} :
            Tell(c, w) /\ script'[c] \in {<<>>, <<"success", "failure">>}
      BY <1>12 DEF AbortEdit, Then, ServerTyped
    <2>2. Added(c, w) /\ edit' = "aborted"
      BY <1>12, <2>1, AddedFacts DEF AbortEdit
    <2>3. Coming(c)'
      BY <1>8, <2>1, <2>2 DEF Fits, Bad
    <2>4. Down(c)' = Down(c) + 1 /\ (\A i \in 1..Down(c) : Told(c, i) # "close-edit")'
      BY <1>9, <2>1, <2>2
    <2>5. c = "main"
      BY <1>4 DEF Conn
    <2>6. Left(c)' = 4 => Down(c)' >= 2
      BY <1>3, <1>4, <1>5, <2>4
    <2>7. GivenUp(c)'
      BY <1>5, <2>1, <2>2, <2>4, <2>5, <2>6 DEF GivenUp
    <2> QED BY <2>3, <2>7 DEF Links, Live
  <1> QED BY <1>10, <1>11, <1>12

\* It hears what the client has sent: a request, or the item it waits for.
LEMMA HearLinks ==
  ASSUME NetTyped, ServerTyped, ConnTyped, RestTyped, NEW c \in Conn, Counted(c), Links(c),
         Left(c) > 0 => asked[c].what = Topic(c), Hear(c)
  PROVE  Links(c)'
  <1> DEFINE t == Topic(c)
             n == Left(c)
             m == Head(toS[c])
  <1>1. /\ conn[c] = "up" /\ ClientStands(c) /\ Quiet(c) /\ HeardOne(c) /\ Waits(c)
    BY ClientStandsFacts, QuietFacts, HeardFacts DEF Hear, Serving
  <1>2. /\ Up(c) >= 1 /\ Up(c) \in Nat /\ Down(c) \in Nat /\ Up(c)' = Up(c) - 1
        /\ m.what = Heeds(c, 1) /\ m = toS[c][1] /\ Coming(c) /\ Live(c)
        /\ t \in Topics /\ n \in Nat /\ n <= Length(t) /\ Length(t) \in Nat
    BY <1>1, NetFacts, DialogTyped DEF Hear, HeardOne, Links, Counted
  <1>3. \/ /\ script[c] = <<>> /\ m.what \in Requests /\ serves'[c] = Asking(m.what, m.file)
           /\ script'[c] = Script(m.what) /\ conn' = conn
        \/ /\ Due(c, {m.what}) /\ script'[c] = Tail(script[c]) /\ serves' = serves /\ conn' = conn
        \/ /\ IF script[c] = <<>> THEN m.what \notin Requests ELSE ~Due(c, {m.what})
           /\ conn'[c] = "cut"
    BY DEF Hear, Then, ServerTyped, ConnTyped
  <1>4. /\ Left(c)' = n /\ Topic(c)' = t /\ (Challenged(c)' <=> Challenged(c))
        /\ asked'[c] = asked[c] /\ (Ahead(c)' <=> Ahead(c)) /\ \A i : Slot(c, i)' = Slot(c, i)
    BY <1>1, AheadStands DEF ClientStands
  <1>5. /\ Down(c)' = Down(c)
        /\ \A i : Told(c, i)' = Told(c, i) /\ About(c, i)' = About(c, i)
    BY <1>1 DEF Quiet
  <1>6. Coming(c)'
    <2>1. ASSUME NEW i \in 1..Down(c) PROVE Placed(c, i)'
      <3>1. Placed(c, i)
        BY <1>2 DEF Coming
      <3> QED BY <1>4, <1>5, <3>1 DEF Placed
    <2> QED BY <1>5, <2>1 DEF Coming
  <1>7. SUFFICES ASSUME conn'[c] = "up" PROVE Live(c)'
    BY <1>6 DEF Links
  <1>8. \/ /\ script[c] = <<>> /\ m.what \in Requests /\ serves'[c] = Asking(m.what, m.file)
           /\ script'[c] = Script(m.what)
        \/ Due(c, {m.what}) /\ script'[c] = Tail(script[c]) /\ serves' = serves
    BY <1>3, <1>7
  <1>9. CASE Unheard(c)
    <2>1. /\ script[c] = <<>> /\ n = Length(t) /\ t \in Requests /\ Down(c) = 0 /\ Up(c) = 1
          /\ m = [what |-> asked[c].what, file |-> asked[c].file] /\ ~Challenged(c)
      BY <1>2, <1>9 DEF Unheard
    <2>2. n > 0
      BY <1>2, <2>1, DialogTyped
    <2>3. asked[c].what = t /\ m.what = t
      BY <2>1, <2>2
    <2>4. Asking(m.what, m.file) = asked[c]
      <3>1. asked[c] = [what |-> asked[c].what, file |-> asked[c].file]
        BY DEF RestTyped, Request
      <3> QED BY <2>1, <3>1 DEF Asking
    <2>5. script'[c] = Script(t) /\ serves'[c] = asked'[c]
      BY <1>4, <1>8, <2>1, <2>3, <2>4 DEF Due
    <2>6. script'[c] = Rest(t, n)
      BY <1>2, <2>1, <2>5, RestWhole DEF Dialog, Requests
    <2>7. Up(c)' = 0 /\ Down(c)' = 0
      BY <1>2, <1>5, <2>1
    <2>8. ~Ahead(c)'
      BY <1>4, <2>1, DialogTable DEF Ahead
    <2>9. Level(c, n)'
      BY <1>2, <1>4, <2>1, <2>7, <2>8 DEF Level, Between, Plain
    <2>10. Talking(c)'
      BY <1>2, <1>4, <2>5, <2>6, <2>9 DEF Talking, Spoken
    <2> QED BY <2>10 DEF Live
  <1>10. CASE Offline(c)
    <2>1. /\ script[c] = Rest("setup", 3) /\ m.what = "get-file"
      BY <1>2, <1>10 DEF Offline
    <2>2. Head(script[c]) = "greeting-response" /\ script[c] # <<>>
      BY <2>1, RestFacts, DialogTable DEF Topics
    <2> QED BY <1>8, <2>1, <2>2 DEF Due
  <1>11. CASE Talking(c)
    <2>1. PICK s \in 0..Length(t) : Spoken(c, s)
      BY <1>11 DEF Talking
    <2>2. s \in Nat /\ ~Offered(c, s) /\ serves[c] = asked[c]
      BY <1>2, <1>11 DEF Offered, Talking
    <2>3. Level(c, s) => /\ s > n /\ Down(c) = 0 /\ ~Challenged(c) /\ Up(c) = s - n
                         /\ \A j \in 1..Up(c) :
                              Item(t, s + 1 - j) \in Heard /\ Heeds(c, j) = Item(t, s + 1 - j)
      BY <1>2, <2>2 DEF Level, Behind
    <2>4. Level(c, s) => s \in 1..Length(t) /\ m.what = Item(t, s) /\ Item(t, s) \in Heard
      <3>1. SUFFICES ASSUME Level(c, s)
                     PROVE  s \in 1..Length(t) /\ m.what = Item(t, s) /\ Item(t, s) \in Heard
        OBVIOUS
      <3>2. PICK j : j = 1 /\ j \in 1..Up(c) /\ s + 1 - j = s
        BY <1>2, <2>2, <2>3
      <3>3. Item(t, s) \in Heard /\ Heeds(c, 1) = Item(t, s)
        BY <2>3, <3>1, <3>2
      <3>4. s \in 1..Length(t)
        <4>1. s <= Length(t) /\ s > n
          BY <1>2, <2>1, <2>3, <3>1
        <4> QED BY <1>2, <2>2, <4>1
      <3> QED BY <1>2, <3>3, <3>4
    <2>5. CASE script[c] = Rest(t, s) /\ Level(c, s)
      <3>1. script[c] # <<>> /\ script'[c] = Rest(t, s - 1) /\ serves' = serves
        BY <1>2, <1>8, <2>4, <2>5, RestFacts
      <3>2. s - 1 >= n /\ Up(c)' = (s - 1) - n /\ Down(c)' = 0 /\ ~Challenged(c)'
        BY <1>2, <1>4, <1>5, <2>2, <2>3, <2>5
      <3>3. ASSUME NEW j \in 1..Up(c)'
            PROVE  /\ Item(t, (s - 1) + 1 - j) \in Heard
                   /\ Heeds(c, j)' = Item(t, (s - 1) + 1 - j)
        <4>1. j + 1 \in 1..Up(c) /\ j \in 1..Up(c) - 1 /\ s + 1 - (j + 1) = (s - 1) + 1 - j
          BY <1>2, <2>2
        <4>2. Heeds(c, j)' = Heeds(c, j + 1)
          BY <1>1, <4>1 DEF HeardOne
        <4>3. PICK i : i = j + 1 /\ i \in 1..Up(c)
          BY <4>1
        <4>4. Item(t, s + 1 - i) \in Heard /\ Heeds(c, i) = Item(t, s + 1 - i)
          BY <2>3, <2>5, <4>3
        <4> QED BY <4>1, <4>2, <4>3, <4>4
      <3>4. Plain(c)'
        BY <3>2 DEF Plain
      <3>5. ASSUME NEW r, r = s - 1 PROVE Level(c, r)'
        <4>1. CASE r = n
          <5>1. ~(Ahead(c)' /\ r <= 3)
            <6>1. SUFFICES ASSUME Ahead(c), n = 3, t = "update" PROVE FALSE
              BY <1>2, <1>4, <4>1 DEF Ahead
            <6>2. s = 4
              BY <2>2, <3>5, <4>1, <6>1
            <6> QED BY <2>4, <2>5, <6>1, <6>2, DialogTable DEF Heard
          <5>2. Between(c, r)' /\ Up(c)' = 0
            BY <1>2, <1>4, <3>2, <3>5, <4>1, <5>1 DEF Between
          <5> QED BY <1>2, <1>4, <3>2, <3>4, <4>1, <5>2 DEF Level
        <4>2. CASE r # n
          <5>1. r > n
            BY <1>2, <2>2, <3>2, <3>5, <4>2
          <5>2. Behind(c, r)'
            BY <1>4, <3>2, <3>3, <3>5 DEF Behind
          <5> QED BY <1>4, <3>4, <5>1, <5>2 DEF Level
        <4> QED BY <4>1, <4>2
      <3>6. \A r : r = s - 1 => Spoken(c, r)' /\ r \in 0..Length(t)
        BY <1>2, <1>4, <2>2, <2>4, <2>5, <3>1, <3>5 DEF Spoken
      <3>7. Talking(c)'
        BY <1>4, <2>2, <3>1, <3>6 DEF Talking
      <3> QED BY <3>7 DEF Live
    <2>6. CASE /\ s \in 1..Length(t) - 1 /\ Level(c, s)
               /\ script[c] = <<"other-response", "ok">> \o Rest(t, s)
      <3>1. s \in 1..Length(t)
        BY <1>2, <2>6
      <3>2. Rest(t, s) \in Seq(Word)
        BY <1>2, <3>1, RestFacts
      <3>3. script[c] # <<>> /\ Head(script[c]) = "other-response"
        BY <2>6, <3>2, ExtraFacts
      <3>4. m.what # "other-response"
        BY <1>2, <2>4, <2>6, ItemFacts
      <3> QED BY <1>8, <3>3, <3>4 DEF Due
    <2>7. CASE /\ s \in 1..Length(t) - 1 /\ Item(t, s + 1) = "auth"
               /\ script[c] = <<"auth-response", "ok">> \o Rest(t, s) /\ Answered(c, s)
               /\ Up(c) = 1
      <3>1. s \in 1..Length(t)
        BY <1>2, <2>7
      <3>2. Rest(t, s) \in Seq(Word)
        BY <1>2, <3>1, RestFacts
      <3>3. script[c] # <<>> /\ script'[c] = <<"ok">> \o Rest(t, s) /\ serves' = serves
        BY <1>8, <2>7, <3>2, ExtraFacts
      <3>4. Answered(c, s)' /\ Up(c)' = 0
        BY <1>2, <1>4, <1>5, <2>7 DEF Answered
      <3>5. Spoken(c, s)'
        BY <1>4, <2>7, <3>3, <3>4 DEF Spoken
      <3>6. Talking(c)'
        BY <1>4, <2>1, <2>2, <3>3, <3>5 DEF Talking
      <3> QED BY <3>6 DEF Live
    <2> QED BY <1>2, <2>1, <2>2, <2>5, <2>6, <2>7 DEF Spoken
  <1>12. ~Refused(c) /\ ~GivenUp(c)
    BY <1>2 DEF Refused, GivenUp
  <1> QED BY <1>2, <1>9, <1>10, <1>11, <1>12 DEF Live

\* A connection breaks; only what is under way to the client still counts.
LEMMA CutLinks ==
  ASSUME NetTyped, ConnTyped, NEW c \in Conn, Counted(c), Links(c), Cut(c)
  PROVE  Links(c)'
  <1>1. conn'[c] # "up" /\ ClientStands(c) /\ Coming(c) /\ Down(c) \in Nat
    BY ClientStandsFacts DEF Cut, ConnTyped, Links, Counted
  <1>2. /\ Topic(c)' = Topic(c) /\ (Challenged(c)' <=> Challenged(c)) /\ asked'[c] = asked[c]
        /\ \A i : Slot(c, i)' = Slot(c, i)
    BY <1>1, AheadStands DEF ClientStands
  <1>3. PICK q \in Seq(Answer) : q = toC[c]
    BY DEF NetTyped
  <1>4. Len(q) \in Nat /\ Down(c) = Len(q)
    BY <1>3 DEF Down
  <1>5. PICK k \in 0..Len(q) :
          \/ toC'[c] = SubSeq(q, 1, k)
          \/ /\ k < Len(q)
             /\ \E p \in Parts :
                  toC'[c] = Append(SubSeq(q, 1, k), [q[k + 1] EXCEPT !.is = p])
    BY <1>3 DEF Cut, NetTyped
  <1>6. /\ SubSeq(q, 1, k) \in Seq(Answer) /\ Len(SubSeq(q, 1, k)) = k
        /\ \A i \in 1..k : SubSeq(q, 1, k)[i] = q[i]
    BY <1>4, <1>5
  <1>7. ASSUME NEW i \in 1..k, toC'[c][i] = q[i], i = Down(c) => i = Down(c)'
        PROVE  Placed(c, i)'
    <2>1. Placed(c, i)
      BY <1>1, <1>4, <1>5 DEF Coming
    <2>2. Told(c, i)' = Told(c, i) /\ About(c, i)' = About(c, i)
      BY <1>3, <1>7 DEF Told, About
    <2> QED BY <1>2, <1>7, <2>1, <2>2 DEF Placed
  <1>8. CASE toC'[c] = SubSeq(q, 1, k)
    <2>1. Down(c)' = k
      BY <1>6, <1>8 DEF Down
    <2>2. ASSUME NEW i \in 1..k PROVE Placed(c, i)'
      <3>1. i = Down(c) => i = Down(c)'
        BY <1>4, <1>5, <2>1
      <3> QED BY <1>6, <1>7, <1>8, <3>1
    <2> QED BY <1>1, <2>1, <2>2 DEF Links, Coming
  <1>9. ASSUME k < Len(q), NEW p \in Parts,
               toC'[c] = Append(SubSeq(q, 1, k), [q[k + 1] EXCEPT !.is = p])
        PROVE  Links(c)'
    <2> DEFINE m == [q[k + 1] EXCEPT !.is = p]
    <2>1. k + 1 \in 1..Len(q) /\ q[k + 1] \in Answer
      BY <1>4, <1>5, <1>9
    <2>2. m.is = p /\ m.for = q[k + 1].for
      BY <2>1 DEF Answer
    <2>3. toC'[c] = Append(SubSeq(q, 1, k), m)
      BY <1>9
    <2> HIDE DEF m
    <2>4. PICK r \in Seq(Answer) : r = SubSeq(q, 1, k) /\ Len(r) = k /\ \A i \in 1..k : r[i] = q[i]
      BY <1>6
    <2>5. /\ Len(Append(r, m)) = k + 1 /\ Append(r, m)[k + 1] = m
          /\ \A i \in 1..k : Append(r, m)[i] = q[i]
      BY <1>4, <1>5, <2>4
    <2>6. Down(c)' = k + 1 /\ toC'[c][k + 1] = m /\ \A i \in 1..k : toC'[c][i] = q[i]
      BY <2>3, <2>4, <2>5 DEF Down
    <2>7. ASSUME NEW i \in 1..k PROVE Placed(c, i)'
      <3>1. i = Down(c) => FALSE
        BY <1>4, <1>5, <1>9
      <3> QED BY <1>7, <2>6, <3>1
    <2>8. ASSUME NEW i, i = k + 1 PROVE Placed(c, i)'
      <3>1. Placed(c, i)
        BY <1>1, <1>4, <2>1, <2>8 DEF Coming
      <3>2. Told(c, i)' = p /\ About(c, i)' = About(c, i) /\ i = Down(c)'
        BY <1>3, <2>2, <2>6, <2>8 DEF Told, About
      <3>3. p \in Bad
        BY DEF Bad
      <3> QED BY <1>2, <3>1, <3>2, <3>3 DEF Placed
    <2>9. \A i \in 1..Down(c)' : i \in 1..k \/ i = k + 1
      BY <1>4, <1>5, <2>6
    <2> QED BY <1>1, <2>7, <2>8, <2>9 DEF Links, Coming
  <1> QED BY <1>5, <1>8, <1>9

-----------------------------------------------------------------------------
(***************************************************************************)
(* What holds of the client and of both connections while the run goes on, *)
(* and after a step with which it still goes on.                           *)
(***************************************************************************)
Good == TypeInv /\ outcome = "running" /\ Shape /\ Known /\ \A c \in Conn : Linked(c)
GoodNext == outcome' = "running" => Shape' /\ Known' /\ \A c \in Conn : Linked(c)'

\* The other connection is left alone.
Elsewhere(c) ==
  /\ edit' = edit
  /\ \A d \in Conn \ {c} :
       /\ Quiet(d) /\ Still(d) /\ conn'[d] = conn[d] /\ torn'[d] = torn[d]
       /\ asked'[d] = asked[d] /\ script'[d] = script[d] /\ serves'[d] = serves[d]

Aside(c) ==
  \A d \in Conn \ {c} :
    Stays(d) /\ ~Challenged(d) /\ ~Challenged(d)' /\ (d = "main" /\ Busy => Busy')

\* The last two steps of a run are the repair and the save.
LEMMA LowSteps ==
  ASSUME Remaining \in Nat, Shape, Remaining <= 2
  PROVE  Now("save") \/ Now("repair")
  <1>1. Remaining = 1 \/ Remaining = 2
    BY DEF Shape
  <1>2. Shape => IsPlain(1, "save", "main") /\ \E w : IsStep(2, "repair", "main", w)
    BY DEF Shape, RunShape, FetchShape, RepairShape, EditSteps
  <1> QED BY <1>1, <1>2 DEF IsPlain, IsStep, Now

Met == \A c : ClientTyped /\ todo # <<>> /\ ~Now("challenge") => ~Challenged(c)
MetOn == \A c : ClientTyped /\ todo # <<>> /\ On(Remaining) # c => ~Challenged(c)

\* A challenge is met on the connection of the step the client is at, before a
\* step and after it.
LEMMA MetNow == Met /\ MetOn
  <1>1. ASSUME NEW c, ClientTyped, todo # <<>>
        PROVE  Challenged(c) => Now("challenge") /\ On(Remaining) = c
    BY <1>1, BackFacts DEF Challenged, At, Now
  <1> QED BY <1>1 DEF Met, MetOn

LEMMA MetNext == (Met /\ MetOn)'
  BY MetNow, PTL

\* No connection is challenged when the client is at another step.
LEMMA NotMet ==
  ASSUME ClientTyped', Shape', ~Now("challenge")', NEW c
  PROVE  ~Challenged(c)'
  <1>1. todo' # <<>>
    BY DEF Shape, Remaining
  <1> QED BY <1>1, MetNext DEF Met

\* Where the client is, by its step.
LEMMA AtFacts ==
  ASSUME Good, NEW d, NEW c, At(d, c)
  PROVE  /\ todo # <<>> /\ Remaining \in Nat /\ Remaining >= 1
         /\ Now(d) /\ On(Remaining) = c /\ Step.what = Saying(Remaining)
         /\ Step.file = For(Remaining) /\ Step.on = c
         /\ d \notin {"save", "repair"} => Remaining >= 3
         /\ \A e \in Conn \ {c} : ~Challenged(e)
         /\ d # "challenge" => ~Challenged(c)
         /\ d = "challenge" => Challenged(c)
  <1>1. ClientTyped /\ todo # <<>> /\ Step.do = d /\ Step.on = c
    BY DEF At, Good, TypeInv
  <1>2. /\ Remaining \in Nat /\ Remaining >= 1 /\ Now(d) /\ On(Remaining) = c
        /\ Step.what = Saying(Remaining) /\ Step.file = For(Remaining)
    BY <1>1, BackFacts DEF Now
  <1>3. d \notin {"save", "repair"} => Remaining >= 3
    BY <1>2, LowSteps DEF Good, Now
  <1>4. /\ \A e \in Conn \ {c} : ~Challenged(e)
        /\ d # "challenge" => ~Challenged(c)
    BY <1>1, <1>2, MetNow DEF Met, MetOn, Now
  <1> QED BY <1>1, <1>2, <1>3, <1>4 DEF Challenged

\* The counts, before a step and after it.
LEMMA CountedNow ==
  ASSUME Good, NEW c \in Conn
  PROVE  Counted(c)
  BY CountedFacts, BackFacts DEF Good, TypeInv

AllCounted == TypeInv /\ Shape => \A c \in Conn : Counted(c)
LEMMA AllCountedNow == AllCounted
  BY CountedFacts, BackFacts DEF AllCounted, TypeInv
LEMMA AllCountedNext == AllCounted'
  BY AllCountedNow, PTL

LEMMA CountedNext ==
  ASSUME TypeInv', Shape', NEW c \in Conn
  PROVE  Counted(c)'
  BY AllCountedNext DEF AllCounted

\* The other connection keeps its link when a step leaves it aside.
LEMMA OtherLinked ==
  ASSUME Good, TypeInv', Shape', outcome' = "running", NEW c, Elsewhere(c), Aside(c),
         NEW d \in Conn \ {c}
  PROVE  Linked(d)' /\ (Left(d)' > 0 => asked'[d].what = Topic(d)')
  <1>1. d \in Conn /\ Counted(d) /\ Counted(d)'
    BY CountedNow, CountedNext
  <1>2. Unmoved(d)
    BY DEF Elsewhere, Aside, Unmoved
  <1>3. Linked(d)'
    <2>1. SUFFICES ASSUME Used(d)', torn'[d] = "out" PROVE Links(d)'
      BY DEF Linked
    <2>2. Links(d)
      BY <1>1, <1>2, <2>1 DEF Good, Linked, Unmoved, Stays
    <2> QED BY <1>1, <1>2, <2>2, UnmovedLinks
  <1>4. Left(d)' > 0 => asked'[d].what = Topic(d)'
    BY <1>1, <1>2 DEF Good, Known, Unmoved, Stays
  <1> QED BY <1>3, <1>4

\* What is left to show of a step on connection c.
LEMMA StepGood ==
  ASSUME Good, TypeInv', outcome' = "running", Shape', NEW c \in Conn, Elsewhere(c), Aside(c),
         Linked(c)', Left(c)' > 0 => asked'[c].what = Topic(c)'
  PROVE  GoodNext
  BY OtherLinked DEF GoodNext, Known

\* A step that fails: the run is over, the request is repeated on a connection made
\* again, or the repair goes on with the connection at rest.
LEMMA FailedGood ==
  ASSUME Good, TypeInv', NEW c \in Conn, todo # <<>>, On(Remaining) = c, Remaining >= 3, Failed,
         Elsewhere(c),
         c = "main" /\ Busy /\ torn'[c] = "out" => Down(c)' = 0,
         c = "main" /\ Busy /\ torn'[c] = "out" /\ conn'[c] = "up" /\ Busy' => Resting(c)'
  PROVE  GoodNext
  <1>1. SUFFICES ASSUME outcome' = "running" PROVE GoodNext
    BY DEF GoodNext
  <1>2. ClientTyped /\ ClientTyped' /\ Shape
    BY DEF Good, TypeInv
  <1>3. \A d \in Conn \ {c} : ~Challenged(d)
    BY <1>2, MetNow DEF MetOn
  <1>4. CASE /\ Shape' /\ ~Now("challenge")' /\ ~Used(c)' /\ (Busy' <=> Busy) /\ Left(c)' = 0
             /\ \A d \in Conn \ {c} : Stays(d)
    <2>1. Aside(c)
      BY <1>2, <1>3, <1>4, NotMet DEF Aside
    <2> QED BY <1>1, <1>4, <2>1, StepGood DEF Linked
  <1>5. CASE /\ c = "main" /\ Busy /\ Busy' /\ Shape' /\ ~Now("challenge")'
             /\ Left("main")' = 0 /\ Left("shadow")' = 0 /\ ~Used("shadow")'
    <2>1. Linked("shadow")' /\ Known'
      BY <1>5 DEF Linked, Known, Conn
    <2>2. Linked("main")'
      <3>1. SUFFICES ASSUME torn'["main"] = "out" PROVE Links("main")'
        BY DEF Linked
      <3>2. Resting("main")'
        BY <1>5, <3>1 DEF Resting
      <3> QED BY <1>2, <1>5, <3>2, ToRest, NotMet, CountedNext
    <2> QED BY <1>5, <2>1, <2>2 DEF GoodNext, Conn
  <1> QED BY <1>1, <1>2, <1>4, <1>5, FailedFacts

-----------------------------------------------------------------------------
(***************************************************************************)
(* The steps of the client, one after the other.                           *)
(***************************************************************************)
LEMMA AsideWhen ==
  ASSUME Good, TypeInv', Shape', ~Now("challenge")', Busy' <=> Busy, NEW c \in Conn,
         On(Remaining) = c, todo # <<>>, \A d \in Conn \ {c} : Stays(d)
  PROVE  Aside(c) /\ ~Challenged(c)'
  <1>1. ClientTyped /\ ClientTyped'
    BY DEF Good, TypeInv
  <1>2. \A d \in Conn \ {c} : ~Challenged(d)
    BY <1>1, MetNow DEF MetOn
  <1> QED BY <1>1, <1>2, NotMet DEF Aside

\* The step that was due on a connection is done.
LEMMA FacingGood ==
  ASSUME Good, TypeInv', NEW c \in Conn, todo # <<>>, Remaining >= 3, Facing(c), Advance
  PROVE  /\ Shape' /\ Aside(c) /\ ~Challenged(c)' /\ (Busy' <=> Busy)
         /\ Left(c) \in 1..Length(Topic(c)) /\ Left(c) \in Nat /\ Left(c)' = Left(c) - 1
         /\ Left(c) > 1 => Topic(c)' = Topic(c)
         /\ Used(c) /\ Calls(c, Item(Topic(c), Left(c)))
  <1>1. Shorter /\ Remaining \in Nat /\ Shape
    BY Popped, BackFacts DEF Good, TypeInv, Advance
  <1>2. Shape' /\ (Busy' <=> Busy) /\ ~Now("challenge")'
    BY <1>1, FacingPopped, PopShape, NoChallengeNext
  <1>3. /\ Left(c)' = Left(c) - 1 /\ (Left(c) > 1 => Topic(c)' = Topic(c))
        /\ \A d \in Conn \ {c} : Stays(d)
    BY <1>1, FacingPopped
  <1>4. Aside(c) /\ ~Challenged(c)'
    BY <1>2, <1>3, AsideWhen DEF Facing
  <1>5. Used(c) /\ Left(c) \in 1..Length(Topic(c)) /\ Calls(c, Item(Topic(c), Left(c)))
    BY <1>1, FacingFacts
  <1>6. Left(c) \in Nat
    BY CountedNow DEF Counted
  <1> QED BY <1>2, <1>3, <1>4, <1>5, <1>6

\* A client that reads, or sends an item of a request, is in step with its link.
LEMMA FacingNow ==
  ASSUME Good, NEW d, NEW c \in Conn, At(d, c),
         \/ d \in {"await", "auth", "challenge", "contents", "edit"}
         \/ d = "send" /\ Step.what \notin Requests
  PROVE  /\ Facing(c) /\ todo # <<>> /\ Remaining >= 3 /\ Used(c) /\ On(Remaining) = c
         /\ Left(c) \in 1..Length(Topic(c)) /\ Topic(c) \in Topics
         /\ Calls(c, Item(Topic(c), Left(c)))
         /\ torn[c] = "out" => Links(c)
  <1>1. /\ todo # <<>> /\ Remaining \in Nat /\ Remaining >= 3
        /\ Now(d) /\ On(Remaining) = c /\ Step.what = Saying(Remaining)
    BY AtFacts
  <1>2. Facing(c)
    BY <1>1 DEF Facing
  <1>3. /\ Used(c) /\ Topic(c) \in Topics /\ Left(c) \in 1..Length(Topic(c))
        /\ Calls(c, Item(Topic(c), Left(c)))
    BY <1>1, <1>2, FacingFacts DEF Good
  <1>4. torn[c] = "out" => Links(c)
    BY <1>3 DEF Good, Linked
  <1> QED BY <1>1, <1>2, <1>3, <1>4

Faces(c) ==
  /\ Facing(c) /\ Used(c) /\ Left(c) \in 1..Length(Topic(c)) /\ Topic(c) \in Topics
  /\ Calls(c, Item(Topic(c), Left(c))) /\ Counted(c)
  /\ torn[c] = "out" => Links(c)

\* The same, for each kind of step that reads.
LEMMA FacesAt ==
  \A d \in {"await", "auth", "challenge", "contents", "edit"} : \A c \in Conn :
    Good /\ At(d, c) => Faces(c)
  <1> SUFFICES ASSUME NEW d \in {"await", "auth", "challenge", "contents", "edit"},
                      NEW c \in Conn, Good, At(d, c)
               PROVE  Faces(c)
    OBVIOUS
  <1>1. Now(d) /\ On(Remaining) = c /\ Remaining \in Nat /\ Shape
    BY AtFacts DEF Good
  <1>2. Facing(c)
    BY <1>1 DEF Facing
  <1>3. /\ Used(c) /\ Topic(c) \in Topics /\ Left(c) \in 1..Length(Topic(c))
        /\ Calls(c, Item(Topic(c), Left(c)))
    BY <1>1, <1>2, FacingFacts
  <1>4. torn[c] = "out" => Links(c)
    BY <1>3 DEF Good, Linked
  <1>5. Counted(c)
    BY CountedNow
  <1> QED BY <1>2, <1>3, <1>4, <1>5 DEF Faces

\* In the repair stage the main connection is set up again or asked for a file.
LEMMA BusyTopic ==
  Busy => Topic("main") \in {"get-file", "setup"}
  BY DEF Topic, FileTopic

\* A connection is made, or is not.
LEMMA ReachGood ==
  ASSUME Good, TypeInv', NEW c \in Conn, Reach(c)
  PROVE  GoodNext
  <1>1. /\ At("connect", c) /\ asked'[c] = SetUp /\ toC'[c] = <<>> /\ toS'[c] = <<>>
        /\ serves'[c] = SetUp
    BY DEF Reach, Good, TypeInv, ConnTyped, NetTyped, ServerTyped, RestTyped
  <1>2. /\ todo # <<>> /\ Remaining \in Nat /\ Remaining >= 3 /\ Now("connect")
        /\ On(Remaining) = c
    BY <1>1, AtFacts
  <1>3. Elsewhere(c)
    <2>1. edit' = edit
      BY DEF Reach
    <2>2. ASSUME NEW d \in Conn \ {c}
          PROVE  /\ toC'[d] = toC[d] /\ toS'[d] = toS[d] /\ conn'[d] = conn[d] /\ torn'[d] = torn[d]
                 /\ asked'[d] = asked[d] /\ script'[d] = script[d] /\ serves'[d] = serves[d]
      BY DEF Reach, Good, TypeInv, ConnTyped, NetTyped, ServerTyped, RestTyped
    <2> QED BY <2>1, <2>2, QuietFacts DEF Elsewhere
  <1>4. Down(c)' = 0 /\ Up(c)' = 0
    BY <1>1 DEF Down, Up
  <1>5. CASE conn'[c] = "up" /\ script'[c] = Greeting /\ Advance
    <2>1. Shorter
      BY <1>2, <1>5, Popped DEF Good, TypeInv, Advance
    <2>2. /\ Left(c)' = 4 /\ Topic(c)' = "setup" /\ (\A d \in Conn \ {c} : Stays(d))
          /\ (Busy' <=> Busy) /\ Shape' /\ ~Now("challenge")'
      BY <1>2, <2>1, ConnectPopped, PopShape, NoChallengeNext DEF Good
    <2>3. Aside(c) /\ ~Challenged(c)'
      BY <1>2, <2>2, AsideWhen
    <2>4. Links(c)'
      BY <1>1, <1>5, <2>2, <2>3, ReachedLinks
    <2>5. asked'[c].what = Topic(c)'
      BY <1>1, <2>2 DEF SetUp, Asking
    <2> QED BY <1>3, <2>2, <2>3, <2>4, <2>5, StepGood DEF GoodNext, Linked
  <1>6. CASE conn'[c] = "reset" /\ Failed
    BY <1>2, <1>3, <1>4, <1>6, FailedGood
  <1>7. \/ conn'[c] = "up" /\ script'[c] = Greeting /\ Advance
        \/ conn'[c] = "reset" /\ Failed
    BY DEF Reach, Good, TypeInv, ConnTyped, ServerTyped
  <1> QED BY <1>5, <1>6, <1>7

\* In the repair, a file is asked for on a connection with nothing before it.
LEMMA RequestBusy ==
  ASSUME Remaining \in Nat, Shape, Busy, Remaining >= 3, Now("send"), On(Remaining) = "main",
         Saying(Remaining) \in Requests
  PROVE  Left("main") = 0 /\ Used("main")
  <1>1. FileSteps(2, "main")
    BY DEF Shape, RunShape, FetchShape, RepairShape, Fetching
  <1>2. Remaining = 7
    BY <1>1 DEF FileSteps, IsStep, IsPlain, IsAuth, IsAuthOf, SetupSteps, Now, Requests
  <1> QED BY <1>2 DEF Left, FileLeft, Used

\* A request or an item of one is sent; the peer may be gone.
LEMMA SendGoodStep ==
  ASSUME Good, TypeInv', NEW c \in Conn, SendStep(c)
  PROVE  GoodNext
  <1> DEFINE w == Saying(Remaining)
  <1>1. At("send", c)
    BY DEF SendStep
  <1>2. /\ todo # <<>> /\ Remaining \in Nat /\ Remaining >= 3 /\ Now("send")
        /\ On(Remaining) = c /\ Step.what = w /\ Step.file = For(Remaining)
        /\ ~Challenged(c) /\ Counted(c)
    BY <1>1, AtFacts, CountedNow
  <1>3. /\ Quiet(c) /\ script'[c] = script[c] /\ serves'[c] = serves[c] /\ torn'[c] = torn[c]
        /\ edit' = edit
    BY QuietFacts DEF SendStep, server
  <1>4. \/ Deliver(c, w, For(Remaining)) /\ Advance
        \/ conn[c] = "reset" /\ Failed /\ conn' = conn /\ toS' = toS
    BY <1>2 DEF SendStep
  <1>5. Elsewhere(c)
    <2>1. ASSUME NEW d \in Conn \ {c}
          PROVE  /\ toC'[d] = toC[d] /\ toS'[d] = toS[d] /\ conn'[d] = conn[d] /\ torn'[d] = torn[d]
                 /\ asked'[d] = asked[d] /\ script'[d] = script[d] /\ serves'[d] = serves[d]
      BY <1>4 DEF SendStep, Deliver, server, Good, TypeInv, ConnTyped, NetTyped, RestTyped
    <2> QED BY <1>3, <2>1, QuietFacts DEF Elsewhere
  <1>6. CASE w \in Requests
    <2>1. asked'[c] = Asking(w, For(Remaining))
      BY <1>2, <1>6 DEF SendStep, Good, TypeInv, RestTyped
    <2>2. CASE Deliver(c, w, For(Remaining)) /\ Advance
      <3>1. Shorter
        BY <1>2, <2>2, Popped DEF Good, TypeInv, Advance
      <3>2. /\ Left(c) = 0 /\ Used(c) /\ Left(c)' = Length(w) /\ Topic(c)' = w
            /\ (\A d \in Conn \ {c} : Stays(d)) /\ (Busy' <=> Busy) /\ (Busy => w = "get-file")
        BY <1>2, <1>6, <3>1, RequestPopped DEF Good
      <3>3. Shape' /\ ~Now("challenge")'
        BY <1>2, <3>1, PopShape, NoChallengeNext DEF Good
      <3>4. Aside(c) /\ ~Challenged(c)'
        BY <1>2, <3>2, <3>3, AsideWhen
      <3>5. asked'[c].what = Topic(c)'
        BY <2>1, <3>2 DEF Asking
      <3>6. ASSUME torn[c] = "out" PROVE Links(c)'
        <4>1. Links(c) /\ Resting(c)
          BY <1>2, <3>2, <3>6, RestingWhen DEF Good, Linked, Links
        <4>2. CASE conn[c] = "up"
          <5>1. /\ Passed(c, w) /\ conn' = conn
                /\ \A i : i = Up(c) + 1 => toS'[c][i] = [what |-> w, file |-> For(Remaining)]
            BY <2>2, <4>2, PassedFacts DEF Good, TypeInv
          <5>2. Up(c) = 0
            BY <4>1, <4>2 DEF Resting
          <5>3. Counted(c)'
            BY <3>3, CountedNext
          <5> QED BY <1>2, <1>3, <1>6, <2>1, <3>2, <3>4, <4>1, <4>2, <5>1, <5>2, <5>3, AskedLinks
        <4>3. CASE conn[c] # "up"
          <5>1. conn'[c] # "up"
            BY <2>2, <4>3 DEF Deliver, Good, TypeInv, ConnTyped
          <5>2. Down(c)' = 0
            BY <1>3, <4>1 DEF Resting, Quiet
          <5> QED BY <5>1, <5>2, NothingLinks
        <4> QED BY <4>2, <4>3
      <3>7. Linked(c)'
        BY <1>3, <3>6 DEF Linked
      <3> QED BY <1>5, <3>3, <3>4, <3>5, <3>7, StepGood DEF GoodNext
    <2>3. CASE conn[c] = "reset" /\ Failed /\ conn' = conn /\ toS' = toS
      <3>1. ASSUME c = "main", Busy, torn'[c] = "out" PROVE Down(c)' = 0
        <4>1. Left(c) = 0 /\ Used(c)
          BY <1>2, <1>6, <3>1, RequestBusy DEF Good
        <4>2. Links(c)
          BY <1>3, <3>1, <4>1 DEF Good, Linked
        <4> QED BY <1>2, <1>3, <4>1, <4>2, NothingComing DEF Links, Quiet
      <3> QED BY <1>2, <1>5, <2>3, <3>1, FailedGood
    <2> QED BY <1>4, <2>2, <2>3
  <1>7. CASE w \notin Requests
    <2>1. /\ Facing(c) /\ Used(c) /\ Left(c) \in 1..Length(Topic(c)) /\ Topic(c) \in Topics
          /\ Calls(c, Item(Topic(c), Left(c))) /\ (torn[c] = "out" => Links(c))
      BY <1>1, <1>2, <1>7, FacingNow
    <2>2. Item(Topic(c), Left(c)) = w /\ w \in Heard
      BY <1>2, <2>1 DEF Calls, Now
    <2>3. asked'[c] = asked[c]
      BY <1>2, <1>7 DEF SendStep
    <2>4. ASSUME torn[c] = "out" PROVE Down(c)' = 0
      BY <1>2, <1>3, <2>1, <2>2, <2>4, NothingComing DEF Links, Quiet
    <2>5. CASE Deliver(c, w, For(Remaining)) /\ Advance
      <3>1. /\ Shape' /\ Aside(c) /\ ~Challenged(c)' /\ (Busy' <=> Busy)
            /\ Left(c) \in Nat /\ Left(c) >= 1 /\ Left(c)' = Left(c) - 1
            /\ Left(c) > 1 => Topic(c)' = Topic(c)
        BY <1>2, <2>1, <2>5, FacingGood
      <3>2. ASSUME torn[c] = "out" PROVE Links(c)'
        <4>1. CASE conn[c] = "up"
          <5>1. Passed(c, w) /\ conn' = conn
            BY <2>5, <4>1, PassedFacts DEF Good, TypeInv
          <5>2. Same(c)
            BY <1>3, <2>3, <3>1, <5>1 DEF Same
          <5>3. Counted(c)'
            BY <3>1, CountedNext
          <5> QED BY <1>2, <1>3, <2>1, <2>2, <3>1, <3>2, <4>1, <5>1, <5>2, <5>3, SentLinks
        <4>2. CASE conn[c] # "up"
          <5>1. conn'[c] # "up"
            BY <2>5, <4>2 DEF Deliver, Good, TypeInv, ConnTyped
          <5> QED BY <2>4, <3>2, <5>1, NothingLinks
        <4> QED BY <4>1, <4>2
      <3>3. Linked(c)'
        BY <1>3, <3>2 DEF Linked
      <3>4. Left(c)' > 0 => asked'[c].what = Topic(c)'
        BY <2>3, <3>1 DEF Good, Known
      <3> QED BY <1>5, <3>1, <3>3, <3>4, StepGood DEF GoodNext
    <2>6. CASE conn[c] = "reset" /\ Failed /\ conn' = conn /\ toS' = toS
      BY <1>2, <1>3, <1>5, <2>4, <2>6, FailedGood
    <2> QED BY <1>4, <2>5, <2>6
  <1> QED BY <1>6, <1>7

\* What is read: the first message, which is whole.
LEMMA ReadFacts ==
  ASSUME Good, NEW c \in Conn, Readable(c), Consume(c), toS' = toS, conn' = conn, torn' = torn,
         asked' = asked, UNCHANGED server
  PROVE  /\ torn[c] = "out" /\ torn'[c] = "out" /\ Told(c, 1) \notin Parts
         /\ Head(toC[c]).is = Told(c, 1) /\ Down(c) \in Nat /\ Down(c) >= 1
         /\ Taken(c) /\ Still(c) /\ Down(c)' = Down(c) - 1 /\ Up(c)' = Up(c)
         /\ Elsewhere(c)
  <1>1. NetTyped /\ toC[c] # <<>>
    BY DEF Good, TypeInv, Readable
  <1>2. Head(toC[c]).is = Told(c, 1)
    BY <1>1, NetFacts
  <1>3. Taken(c) /\ (\A d \in Conn \ {c} : Quiet(d)) /\ (\A d \in Conn : Still(d))
    BY <1>1, TakenFacts, QuietFacts
  <1>4. Elsewhere(c)
    BY <1>3 DEF Elsewhere, server
  <1> QED BY <1>2, <1>3, <1>4 DEF Readable, Taken, Still

\* A request that fails in the repair leaves its connection at rest.
LEMMA RestingFailed ==
  ASSUME NEW c, Down(c)' = 0, Up(c)' = Up(c), script'[c] = script[c], serves'[c] = serves[c],
         asked'[c] = asked[c], conn'[c] = conn[c], Busy',
         conn[c] = "up" => Up(c) = 0 /\ \/ script[c] = <<>> /\ serves[c] = asked[c]
                                        \/ c = "main" /\ script[c] = Rest("setup", 3)
  PROVE  Resting(c)'
  BY DEF Resting

\* An answer is read: the one that is awaited, or another one.
LEMMA ReceiveGood ==
  ASSUME Good, TypeInv', NEW c \in Conn, Receive(c)
  PROVE  GoodNext
  <1> DEFINE t == Topic(c)
             n == Left(c)
             w == Told(c, 1)
  <1>1. PICK d \in {"await", "challenge"} : At(d, c)
    BY DEF Receive
  <1>2. /\ Readable(c) /\ Consume(c) /\ toS' = toS /\ conn' = conn /\ torn' = torn
        /\ asked' = asked /\ UNCHANGED server
    BY DEF Receive
  <1>3. /\ torn[c] = "out" /\ w \notin Parts /\ Head(toC[c]).is = w
        /\ Down(c) \in Nat /\ Down(c) >= 1 /\ Taken(c) /\ Still(c)
        /\ Down(c)' = Down(c) - 1 /\ Up(c)' = Up(c) /\ Elsewhere(c)
    BY <1>2, ReadFacts
  <1>4. /\ todo # <<>> /\ Remaining >= 3 /\ Now(d) /\ On(Remaining) = c
        /\ Step.what = Saying(Remaining)
        /\ (d # "challenge" => ~Challenged(c)) /\ (d = "challenge" => Challenged(c))
    BY <1>1, AtFacts
  <1>5. /\ Facing(c) /\ Used(c) /\ n \in 1..Length(t) /\ t \in Topics
        /\ Calls(c, Item(t, n)) /\ Links(c) /\ Counted(c)
    BY <1>1, <1>3, FacesAt DEF Faces
  <1>6. \/ Advance /\ w = Saying(Remaining)
        \/ Failed /\ w # Saying(Remaining)
    BY <1>3, <1>4 DEF Receive
  <1>7. \/ ~Challenged(c) /\ Item(t, n) = Saying(Remaining) /\ Item(t, n) \in Said
        \/ Challenged(c) /\ Item(t, n) = "auth" /\ Saying(Remaining) = "ok"
    BY <1>1, <1>4, <1>5 DEF Calls, Now
  <1>8. /\ w \in Bad \/ (IF Challenged(c) THEN w = "ok" ELSE Fits(w, Item(t, n)))
        /\ w \in Final => Down(c) = 1
    BY <1>3, <1>5, ComingFirst DEF Links
  <1>9. CASE Advance /\ w = Saying(Remaining)
    <2>1. /\ Shape' /\ Aside(c) /\ ~Challenged(c)' /\ (Busy' <=> Busy)
          /\ n \in Nat /\ Left(c)' = n - 1 /\ (n > 1 => Topic(c)' = t)
      BY <1>4, <1>5, <1>9, FacingGood
    <2>2. w \in Said /\ w # "failure"
      <3>1. "ok" \in Said
        BY DEF Said
      <3>2. Item(t, n) # "failure"
        BY <1>5, ItemFacts
      <3> QED BY <1>7, <1>9, <3>1, <3>2
    <2>3. w \notin Bad \cup {"auth-anonymous"} /\ w # "close-edit"
      BY <2>2 DEF Said, Bad, Parts
    <2>4. ~(n = 3 /\ t = "update")
      <3>1. Item("update", 3) = "edit" /\ "edit" \notin Said
        BY DialogTable DEF Said
      <3> QED BY <1>7, <3>1
    <2>5. Same(c)
      BY <1>2, <2>1 DEF Same, server
    <2>6. Links(c)'
      BY <1>3, <1>5, <2>1, <2>3, <2>4, <2>5, TakenLinks, CountedNext
    <2>7. Left(c)' > 0 => asked'[c].what = Topic(c)'
      BY <1>2, <2>1 DEF Good, Known
    <2> QED BY <1>3, <2>1, <2>6, <2>7, StepGood DEF GoodNext, Linked
  <1>10. CASE Failed /\ w # Saying(Remaining)
    <2>1. ASSUME c = "main", Busy
          PROVE  /\ Down(c) = 1
                 /\ conn[c] = "up" => /\ Up(c) = 0
                                      /\ \/ script[c] = <<>> /\ serves[c] = asked[c]
                                         \/ script[c] = Rest("setup", 3)
      <3>1. t \in {"get-file", "setup"}
        BY <2>1, BusyTopic
      <3>2. CASE w \in Bad
        <4>1. w = "failure" /\ Down(c) = 1
          BY <1>3, <1>8, <3>2 DEF Bad, Final
        <4> QED BY <1>3, <1>5, <3>1, <4>1, FailedLast
      <3>3. CASE w \notin Bad
        <4>1. ~Challenged(c) /\ Fits(w, Item(t, n)) /\ w # Item(t, n) /\ Item(t, n) \in Said
          BY <1>7, <1>8, <1>10, <3>3
        <4>2. \/ Item(t, n) = "greeting" /\ w = "other-version"
              \/ Item(t, n) = "dir" /\ w = "no-dir"
          BY <4>1, WordsApart
        <4>3. Item(t, n) = "greeting" /\ w = "other-version" /\ t = "setup"
          BY <1>5, <3>1, <4>2, ItemFacts
        <4>4. n = 4
          BY <1>5, <4>3, ItemFacts
        <4> QED BY <1>3, <1>5, <4>3, <4>4, OtherVersionLast
      <3> QED BY <3>2, <3>3
    <2>2. ASSUME c = "main", Busy PROVE Down(c)' = 0
      BY <1>3, <2>1, <2>2
    <2>3. ASSUME c = "main", Busy, Busy' PROVE Resting(c)'
      BY <1>2, <1>3, <2>1, <2>2, <2>3, RestingFailed DEF server
    <2> QED BY <1>3, <1>4, <1>10, <2>2, <2>3, FailedGood
  <1> QED BY <1>6, <1>9, <1>10

\* An offer of mechanisms is read, and answered when it can be.
LEMMA AuthGood ==
  ASSUME Good, TypeInv', NEW c \in Conn, Auth(c)
  PROVE  GoodNext
  <1> DEFINE t == Topic(c)
             n == Left(c)
             w == Told(c, 1)
  <1>1. At("auth", c) /\ Readable(c) /\ Consume(c) /\ torn' = torn /\ asked' = asked
        /\ UNCHANGED server
    BY DEF Auth
  <1>2. NetTyped /\ toC[c] # <<>> /\ torn[c] = "out" /\ Head(toC[c]).is \notin Parts
    BY <1>1 DEF Good, TypeInv, Readable
  <1>3. /\ Head(toC[c]).is = w /\ w \notin Parts /\ Down(c) \in Nat /\ Down(c) >= 1
        /\ Taken(c) /\ Down(c)' = Down(c) - 1 /\ \A d \in Conn \ {c} : Quiet(d)
    BY <1>1, <1>2, NetFacts, TakenFacts DEF Taken
  <1>4. /\ todo # <<>> /\ Remaining \in Nat /\ Remaining >= 3 /\ Now("auth") /\ On(Remaining) = c
        /\ Step.on = c /\ ~Challenged(c) /\ (\A e \in Conn \ {c} : ~Challenged(e))
    BY <1>1, AtFacts
  <1>5. /\ Facing(c) /\ Used(c) /\ n \in 1..Length(t) /\ t \in Topics
        /\ Calls(c, Item(t, n)) /\ Links(c) /\ Counted(c)
    BY <1>1, <1>2, FacesAt DEF Faces
  <1>6. Item(t, n) = "auth"
    BY <1>4, <1>5 DEF Calls, Now
  <1>7. /\ w \in Bad \/ w \in {"auth-none", "auth-anonymous", "auth-other"}
        /\ w \in Final => Down(c) = 1
    BY <1>3, <1>4, <1>5, <1>6, ComingFirst, WordsApart DEF Links
  <1>8. CASE /\ w = "auth-anonymous" /\ Deliver(c, "auth-response", NoFile)
             /\ todo' = Do("challenge", c, "ok", Step.file) \o Tail(todo) /\ outcome' = outcome
    <2>1. Swapped(Remaining) /\ Shape /\ ClientTyped
      BY <1>4, <1>8, SwappedFacts DEF Good, TypeInv
    <2>2. /\ Shape' /\ (Busy' <=> Busy)
          /\ \A d \in Conn : Left(d)' = Left(d) /\ Topic(d)' = Topic(d) /\ (Used(d)' <=> Used(d))
      BY <2>1, SwappedShape
    <2>3. Remaining' = Remaining /\ On(Remaining)' = c /\ Now("challenge")' /\ ClientTyped'
          /\ todo' # <<>>
      <3>1. PICK k : k = Remaining
        OBVIOUS
      <3>2. Swapped(k)
        BY <2>1, <3>1
      <3>3. Remaining' = k /\ On(k)' = On(k) /\ Doing(k)' = "challenge"
        BY <3>2 DEF Swapped
      <3>4. On(Remaining)' = On(Remaining)
        BY <3>1, <3>3
      <3>5. Now("challenge")'
        BY <3>3 DEF Now
      <3>6. ClientTyped' /\ todo' # <<>>
        BY <2>2 DEF TypeInv, Shape, Remaining
      <3> QED BY <1>4, <3>1, <3>3, <3>4, <3>5, <3>6
    <2>4. Challenged(c)'
      <3>1. todo' # <<>> /\ Head(todo').do = "challenge" /\ Head(todo').on = c
        BY <1>4, <1>8, <2>1 DEF Do, ClientTyped
      <3> QED BY <3>1 DEF Challenged, At, Step
    <2>5. \A d \in Conn \ {c} : ~Challenged(d)'
      BY <2>3, MetNext DEF MetOn
    <2>6. Aside(c)
      BY <1>4, <2>2, <2>5 DEF Aside, Stays
    <2>7. Elsewhere(c)
      <3>1. \A d \in Conn \ {c} : toS'[d] = toS[d] /\ conn'[d] = conn[d]
        BY <1>8 DEF Deliver, Good, TypeInv, ConnTyped, NetTyped
      <3> QED BY <1>1, <1>3, <3>1, QuietFacts DEF Elsewhere, server
    <2>8. Links(c)'
      <3>1. CASE conn[c] = "up"
        <4>1. Passed(c, "auth-response") /\ conn' = conn
          BY <1>2, <1>8, <3>1, PassedFacts
        <4>2. Counted(c)'
          BY <2>2, CountedNext
        <4> QED BY <1>1, <1>3, <1>5, <1>6, <1>8, <2>2, <2>4, <3>1, <4>1, <4>2, AnsweredLinks DEF server
      <3>2. CASE conn[c] # "up"
        <4>1. conn'[c] # "up"
          BY <1>8, <3>2 DEF Deliver, Good, TypeInv, ConnTyped
        <4>2. Down(c)' = 0
          BY <1>3, <1>7, <1>8 DEF Final
        <4> QED BY <4>1, <4>2, NothingLinks
      <3> QED BY <3>1, <3>2
    <2>9. Left(c)' > 0 => asked'[c].what = Topic(c)'
      BY <1>1, <2>2 DEF Good, Known
    <2> QED BY <2>2, <2>6, <2>7, <2>8, <2>9, StepGood DEF GoodNext, Linked
  <1>9. CASE conn' = conn /\ toS' = toS
    <2>1. Still(c) /\ Elsewhere(c) /\ Up(c)' = Up(c)
      BY <1>1, <1>3, <1>9, ReadFacts
    <2>2. CASE w \in {"auth-none", "auth-other"} /\ Advance
      <3>1. /\ Shape' /\ Aside(c) /\ ~Challenged(c)' /\ (Busy' <=> Busy)
            /\ n \in Nat /\ Left(c)' = n - 1 /\ (n > 1 => Topic(c)' = t)
        BY <1>4, <1>5, <2>2, FacingGood
      <3>2. w \notin Bad \cup {"auth-anonymous"} /\ w # "close-edit"
        BY <2>2 DEF Bad, Parts
      <3>3. ~(n = 3 /\ t = "update")
        BY <1>6, DialogTable
      <3>4. Same(c)
        BY <1>1, <1>9, <3>1 DEF Same, server
      <3>5. Links(c)'
        BY <1>3, <1>5, <2>1, <3>1, <3>2, <3>3, <3>4, TakenLinks, CountedNext
      <3>6. Left(c)' > 0 => asked'[c].what = Topic(c)'
        BY <1>1, <3>1 DEF Good, Known
      <3> QED BY <2>1, <3>1, <3>5, <3>6, StepGood DEF GoodNext, Linked
    <2>3. CASE w = "auth-anonymous" /\ conn[c] = "reset" /\ Failed
      <3>1. Down(c)' = 0 /\ conn'[c] # "up"
        BY <1>3, <1>7, <1>9, <2>3 DEF Final
      <3> QED BY <1>4, <2>1, <2>3, <3>1, FailedGood
    <2>4. CASE w \notin {"auth-anonymous", "auth-none", "auth-other"} /\ Failed
      <3>1. w = "failure" /\ Down(c) = 1 /\ Down(c)' = 0
        BY <1>3, <1>7, <2>4 DEF Bad, Final
      <3>2. ASSUME c = "main", Busy, conn'[c] = "up", Busy' PROVE Resting(c)'
        <4>1. t # "update" /\ conn[c] = "up"
          BY <1>9, <3>2, BusyTopic
        <4>2. script[c] = <<>> /\ serves[c] = asked[c] /\ Up(c) = 0
          BY <1>5, <3>1, <4>1, FailedLast
        <4> QED BY <1>1, <1>9, <2>1, <3>1, <3>2, <4>2, RestingFailed DEF server
      <3> QED BY <1>4, <2>1, <2>4, <3>1, <3>2, FailedGood
    <2>5. \/ w \in {"auth-none", "auth-other"} /\ Advance
          \/ w = "auth-anonymous" /\ conn[c] = "reset" /\ Failed
          \/ w \notin {"auth-anonymous", "auth-none", "auth-other"} /\ Failed
          \/ w = "auth-anonymous" /\ Deliver(c, "auth-response", NoFile)
      BY <1>3 DEF Auth
    <2>6. w = "auth-anonymous" /\ Deliver(c, "auth-response", NoFile) =>
            \/ todo' = Do("challenge", c, "ok", Step.file) \o Tail(todo) /\ outcome' = outcome
            \/ conn[c] = "reset" /\ Failed
      BY <1>3 DEF Auth
    <2> QED BY <1>8, <2>2, <2>3, <2>4, <2>5, <2>6
  <1>10. \/ /\ w = "auth-anonymous" /\ Deliver(c, "auth-response", NoFile)
            /\ todo' = Do("challenge", c, "ok", Step.file) \o Tail(todo) /\ outcome' = outcome
         \/ conn' = conn /\ toS' = toS
    BY <1>3 DEF Auth
  <1> QED BY <1>8, <1>9, <1>10

\* The contents of a file are read, or what came in their place is left.
LEMMA ContentsGood ==
  ASSUME Good, TypeInv', NEW c \in Conn, Contents(c)
  PROVE  GoodNext
  <1> DEFINE t == Topic(c)
             n == Left(c)
             w == Told(c, 1)
  <1>1. /\ At("contents", c) /\ Advance /\ toS' = toS /\ conn' = conn /\ torn' = torn
        /\ asked' = asked /\ UNCHANGED server
    BY DEF Contents
  <1>2. /\ todo # <<>> /\ Remaining >= 3 /\ Now("contents") /\ ~Challenged(c) /\ On(Remaining) = c
    BY <1>1, AtFacts
  <1>3. Faces(c)
    BY <1>1, FacesAt
  <1>4. /\ Facing(c) /\ n \in 1..Length(t) /\ t \in Topics /\ Counted(c)
        /\ Item(t, n) = "contents" /\ (torn[c] = "out" => Links(c))
    BY <1>2, <1>3 DEF Faces, Calls, Now
  <1>5. /\ Shape' /\ Aside(c) /\ ~Challenged(c)' /\ (Busy' <=> Busy)
        /\ n \in Nat /\ Left(c)' = n - 1 /\ (n > 1 => Topic(c)' = t)
    BY <1>2, <1>4, <1>1, FacingGood
  <1>6. Same(c) /\ Still(c) /\ Counted(c)'
    BY <1>1, <1>5, QuietFacts, CountedNext DEF Same, server
  <1>7. Left(c)' > 0 => asked'[c].what = Topic(c)'
    BY <1>1, <1>5 DEF Good, Known
  <1>8. Elsewhere(c)
    <2>1. ASSUME NEW d \in Conn \ {c} PROVE toC'[d] = toC[d]
      BY DEF Contents, Consume, Good, TypeInv, NetTyped
    <2> QED BY <1>1, <2>1, QuietFacts DEF Elsewhere, server
  <1>9. NetTyped
    BY DEF Good, TypeInv
  <1>10. ASSUME torn[c] = "out" PROVE Links(c)'
    <2>1. CASE Readable(c) /\ Consume(c) /\ Head(toC[c]).is = "contents"
      <3>1. w = "contents" /\ Taken(c)
        BY <1>9, <2>1, NetFacts, TakenFacts DEF Readable
      <3>2. w \notin Bad \cup {"auth-anonymous"} /\ w # "close-edit"
        BY <3>1 DEF Bad, Parts
      <3>3. ~(n = 3 /\ t = "update")
        BY <1>4, DialogTable
      <3> QED BY <1>4, <1>5, <1>6, <1>10, <3>1, <3>2, <3>3, TakenLinks
    <2>2. CASE Readable(c) /\ toC' = toC /\ Head(toC[c]).is # "contents"
      <3>1. w \notin Parts \cup {"contents"} /\ Down(c) >= 1
        BY <1>9, <2>2, NetFacts DEF Readable
      <3>2. Quiet(c)
        BY <2>2, QuietFacts
      <3> QED BY <1>2, <1>4, <1>5, <1>6, <1>10, <3>1, <3>2, SkippedLinks
    <2>3. CASE EndOfData(c) /\ toC' = toC
      <3>1. Down(c)' = 0 /\ conn'[c] # "up"
        BY <1>1, <1>9, <2>3, NetFacts DEF EndOfData, Down
      <3> QED BY <3>1, NothingLinks
    <2> QED BY <2>1, <2>2, <2>3 DEF Contents
  <1>11. Linked(c)'
    BY <1>1, <1>10 DEF Linked
  <1> QED BY <1>5, <1>7, <1>8, <1>11, StepGood DEF GoodNext

\* Nothing of the client's program has changed.
Paused == todo' = todo /\ outcome' = outcome

\* Nothing done, the shape stands.
LEMMA ShapeStands ==
  ASSUME Shape, todo' = todo
  PROVE  Shape'
  <1>1. Remaining' = Remaining
    BY DEF Remaining
  <1>2. \A k : Doing(k)' = Doing(k) /\ On(k)' = On(k) /\ Saying(k)' = Saying(k) /\ For(k)' = For(k)
    BY <1>1 DEF Doing, On, Saying, For, Back
  <1>3. (Busy' <=> Busy) /\ (Fetching' <=> Fetching) /\ (Latest' <=> Latest)
    BY <1>1, <1>2 DEF Busy, Fetching, Latest
  <1>4. /\ \A k, f, e, w : IsStep(k, f, e, w) => IsStep(k, f, e, w)'
        /\ \A k, f, e : IsPlain(k, f, e) => IsPlain(k, f, e)'
        /\ \A k, e : IsAuthOf(k, e) => IsAuthOf(k, e)'
        /\ \A k, e : IsAuth(k, e) => IsAuth(k, e)'
    BY <1>1, <1>2 DEF IsStep, IsPlain, IsAuthOf, IsAuth
  <1>5. \A k, e : SetupSteps(k, e) => SetupSteps(k, e)'
    BY <1>4 DEF SetupSteps
  <1>6. (EditSteps => EditSteps') /\ (UpdateSteps => UpdateSteps')
    BY <1>4, <1>5 DEF EditSteps, UpdateSteps
  <1>7. OpenSteps => OpenSteps'
    BY <1>1, <1>3, <1>4, <1>5 DEF OpenSteps
  <1>8. \A b, e : FileSteps(b, e) => FileSteps(b, e)'
    BY <1>1, <1>2, <1>4, <1>5 DEF FileSteps
  <1> QED BY <1>1, <1>3, <1>4, <1>6, <1>7, <1>8 DEF Shape, RunShape, FetchShape, RepairShape

\* And so does where the client is.
LEMMA PausedFacts ==
  ASSUME Good, TypeInv', Paused, NEW d, NEW c \in Conn, At(d, c)
  PROVE  /\ Shape' /\ Aside(c) /\ (Busy' <=> Busy)
         /\ Left(c)' = Left(c) /\ Topic(c)' = Topic(c) /\ (Challenged(c)' <=> Challenged(c))
  <1>1. Remaining' = Remaining
    BY DEF Paused, Remaining
  <1>2. \A k : Doing(k)' = Doing(k) /\ On(k)' = On(k) /\ Saying(k)' = Saying(k) /\ For(k)' = For(k)
    BY <1>1 DEF Paused, Doing, On, Saying, For, Back
  <1>3. \A e : Challenged(e)' <=> Challenged(e)
    BY DEF Paused, Challenged, At, Step
  <1>4. (Busy' <=> Busy) /\ (Fetching' <=> Fetching) /\ (Latest' <=> Latest)
    BY <1>1, <1>2 DEF Busy, Fetching, Latest
  <1>5. RunLeft(Remaining)' = RunLeft(Remaining) /\ RunTopic(Remaining)' = RunTopic(Remaining)
    BY <1>1, <1>4 DEF RunLeft, RunTopic
  <1>6. \A e : Left(e)' = Left(e) /\ Topic(e)' = Topic(e) /\ (Used(e)' <=> Used(e))
    BY <1>1, <1>4, <1>5 DEF Left, Topic, Used
  <1>7. Shape'
    BY ShapeStands DEF Good, Paused
  <1>8. Aside(c)
    <2>1. \A e \in Conn \ {c} : ~Challenged(e)
      BY AtFacts
    <2> QED BY <1>3, <1>4, <1>6, <2>1 DEF Aside, Stays
  <1> QED BY <1>3, <1>4, <1>6, <1>7, <1>8

\* A command of the edit is read; a file may be fetched for it.
LEMMA EditGood ==
  ASSUME Good, TypeInv', EditStep
  PROVE  GoodNext
  <1> DEFINE w == Told("main", 1)
  <1>1. /\ At("edit", "main") /\ Readable("main") /\ Consume("main") /\ toS' = toS /\ conn' = conn
        /\ torn' = torn /\ asked' = asked /\ UNCHANGED server
    BY DEF EditStep
  <1>2. "main" \in Conn
    BY DEF Conn
  <1>3. /\ torn["main"] = "out" /\ w \notin Parts /\ Head(toC["main"]).is = w
        /\ Down("main") \in Nat /\ Down("main") >= 1 /\ Taken("main") /\ Still("main")
        /\ Elsewhere("main")
    BY <1>1, <1>2, ReadFacts
  <1>4. /\ todo # <<>> /\ Remaining \in Nat /\ Remaining >= 3 /\ Now("edit")
        /\ On(Remaining) = "main" /\ ~Challenged("main")
    BY <1>1, AtFacts
  <1>5. Faces("main")
    BY <1>1, <1>2, FacesAt
  <1>6. /\ Facing("main") /\ Left("main") \in 1..Length(Topic("main")) /\ Topic("main") = "update"
        /\ Item("update", Left("main")) = "edit" /\ Links("main") /\ Counted("main")
        /\ "update" \in Topics
    BY <1>3, <1>4, <1>5 DEF Faces, Calls, Now
  <1>7. Left("main") = 3
    BY <1>6, ItemFacts
  <1>8. w \in Bad \/ w \in {"edit", "abort-edit", "close-edit"}
    BY <1>3, <1>4, <1>6, ComingFirst, WordsApart DEF Links
  <1>9. w \in {"failure", "edit", "abort-edit", "close-edit"}
    BY <1>3, <1>8 DEF Bad
  <1>10. ASSUME Left("main")' = 3, Topic("main")' = "update", ~Challenged("main")', Shape',
                Busy' <=> Busy, w \in {"edit", "abort-edit", "failure"}
         PROVE  Links("main")' /\ (Left("main")' > 0 => asked'["main"].what = Topic("main")')
    <2>1. Same("main") /\ Counted("main")'
      BY <1>1, <1>2, <1>10, CountedNext DEF Same, server
    <2>2. Links("main")'
      BY <1>2, <1>3, <1>4, <1>6, <1>7, <1>10, <2>1, KeptLinks
    <2> QED BY <1>1, <1>2, <1>6, <1>7, <1>10, <2>2 DEF Good, Known
  <1>11. CASE w \in {"edit", "abort-edit", "failure"} /\ Paused
    <2>1. /\ Shape' /\ Aside("main") /\ (Busy' <=> Busy)
          /\ Left("main")' = Left("main") /\ Topic("main")' = Topic("main")
          /\ ~Challenged("main")'
      BY <1>1, <1>2, <1>4, <1>11, PausedFacts
    <2>2. Links("main")' /\ (Left("main")' > 0 => asked'["main"].what = Topic("main")')
      BY <1>6, <1>7, <1>10, <1>11, <2>1
    <2> QED BY <1>2, <1>3, <2>1, <2>2, StepGood DEF GoodNext, Linked
  <1>12. ASSUME w = "edit", NEW f \in File, todo' = GetFile("shadow", f) \o todo
         PROVE  GoodNext
    <2>1. ClientTyped /\ Shape
      BY DEF Good, TypeInv
    <2>2. /\ Shape' /\ ~Now("challenge")' /\ Stays("main") /\ Stays("shadow") /\ (Busy' <=> Busy)
      BY <1>4, <1>12, <2>1, FetchPushed
    <2>3. Aside("main") /\ ~Challenged("main")'
      BY <1>2, <1>4, <2>2, AsideWhen DEF Conn
    <2>4. Left("main")' = 3 /\ Topic("main")' = "update"
      BY <1>6, <1>7, <2>2 DEF Stays
    <2>5. Links("main")' /\ (Left("main")' > 0 => asked'["main"].what = Topic("main")')
      BY <1>10, <1>12, <2>2, <2>3, <2>4
    <2> QED BY <1>2, <1>3, <2>2, <2>3, <2>5, StepGood DEF GoodNext, Linked
  <1>13. CASE w = "close-edit" /\ Advance
    <2>1. /\ Shape' /\ Aside("main") /\ ~Challenged("main")' /\ (Busy' <=> Busy)
          /\ Left("main")' = Left("main") - 1 /\ Topic("main")' = "update"
      BY <1>2, <1>4, <1>6, <1>7, <1>13, FacingGood
    <2>2. Same("main") /\ Counted("main")'
      BY <1>1, <1>2, <2>1, CountedNext DEF Same, server
    <2>3. w \notin Bad \cup {"auth-anonymous"}
      BY <1>13 DEF Bad, Parts
    <2>4. Links("main")'
      BY <1>2, <1>3, <1>6, <1>7, <1>13, <2>1, <2>2, <2>3, TakenLinks
    <2>5. Left("main")' > 0 => asked'["main"].what = Topic("main")'
      BY <1>1, <1>2, <1>6, <1>7, <2>1 DEF Good, Known
    <2> QED BY <1>2, <1>3, <2>1, <2>4, <2>5, StepGood DEF GoodNext, Linked
  <1>14. CASE Failed
    <2>1. ~Busy
      BY <1>4, EditAt DEF Good, RunShape
    <2> QED BY <1>2, <1>3, <1>4, <1>14, <2>1, FailedGood
  <1>15. \/ w \in {"edit", "abort-edit", "failure"} /\ Paused
         \/ w = "edit" /\ \E f \in File : todo' = GetFile("shadow", f) \o todo
         \/ w = "close-edit" /\ Advance
         \/ Failed
    BY <1>3 DEF EditStep, Paused
  <1> QED BY <1>11, <1>12, <1>13, <1>14, <1>15

\* What is torn, and what is lost with it.
LEMMA BrokenGood ==
  ASSUME Good, TypeInv', NEW c \in Conn,
         Eod(c) \/ ReadPart(c) \/ GarbledToken(c) \/ GarbledString(c)
  PROVE  GoodNext
  <1>1. PICK d \in {"await", "auth", "challenge", "contents", "edit"} : At(d, c)
    BY DEF Eod, ReadPart, GarbledToken, GarbledString, Reading
  <1>2. todo # <<>> /\ Remaining >= 3 /\ On(Remaining) = c
    BY <1>1, AtFacts
  <1>3. NetTyped /\ ConnTyped
    BY DEF Good, TypeInv
  <1>4. asked' = asked /\ edit' = edit
    BY DEF Eod, ReadPart, GarbledToken, GarbledString, client, server
  <1>5. Elsewhere(c)
    <2>1. ASSUME NEW e \in Conn \ {c}
          PROVE  /\ toC'[e] = toC[e] /\ toS'[e] = toS[e] /\ conn'[e] = conn[e] /\ torn'[e] = torn[e]
                 /\ script'[e] = script[e] /\ serves'[e] = serves[e]
      BY <1>3 DEF Eod, ReadPart, GarbledToken, GarbledString, Consume, NetTyped, ConnTyped, net,
                  server
    <2> QED BY <1>4, <2>1, QuietFacts DEF Elsewhere
  <1>6. CASE Eod(c)
    <2>1. Down(c)' = 0 /\ conn'[c] # "up" /\ Failed
      BY <1>6 DEF Eod, EndOfData, net, Down
    <2> QED BY <1>2, <1>5, <2>1, FailedGood
  <1>7. CASE torn'[c] # "out" /\ Failed
    BY <1>2, <1>5, <1>7, FailedGood
  <1>8. CASE torn'[c] # "out" /\ Paused
    <2>1. Shape' /\ Aside(c) /\ Left(c)' = Left(c) /\ Topic(c)' = Topic(c)
      BY <1>1, <1>8, PausedFacts
    <2>2. Linked(c)' /\ (Left(c)' > 0 => asked'[c].what = Topic(c)')
      BY <1>4, <1>8, <2>1 DEF Linked, Good, Known
    <2> QED BY <1>5, <2>1, <2>2, StepGood DEF GoodNext
  <1>9. CASE ReadPart(c)
    BY <1>3, <1>8, <1>9 DEF ReadPart, client, Paused, ConnTyped
  <1>10. CASE GarbledToken(c)
    BY <1>7, <1>10 DEF GarbledToken, net
  <1>11. CASE GarbledString(c)
    BY <1>3, <1>7, <1>8, <1>11 DEF GarbledString, Paused, ConnTyped
  <1> QED BY <1>6, <1>9, <1>10, <1>11

\* The shadow connection is closed.
LEMMA CloseGood ==
  ASSUME Good, TypeInv', CloseShadow
  PROVE  GoodNext
  <1>1. At("close", "shadow") /\ Advance /\ asked' = asked /\ torn' = torn /\ toC' = toC /\ toS' = toS
        /\ UNCHANGED server /\ "shadow" \in Conn
    BY DEF CloseShadow, Conn
  <1>2. /\ todo # <<>> /\ Remaining \in Nat /\ Remaining >= 3 /\ Now("close")
        /\ On(Remaining) = "shadow"
    BY <1>1, AtFacts
  <1>3. Shorter
    BY <1>1, <1>2, Popped DEF Good, TypeInv, Advance
  <1>4. Stays("main") /\ ~Used("shadow")' /\ (Busy' <=> Busy) /\ Remaining = 5
    BY <1>2, <1>3, ClosePopped DEF Good
  <1>5. Shape' /\ ~Now("challenge")'
    BY <1>2, <1>3, PopShape, NoChallengeNext DEF Good
  <1>6. Aside("shadow")
    BY <1>1, <1>2, <1>4, <1>5, AsideWhen DEF Conn
  <1>7. Elsewhere("shadow")
    <2>1. conn'["main"] = conn["main"]
      BY DEF CloseShadow, Conn, Good, TypeInv, ConnTyped
    <2> QED BY <1>1, <2>1, QuietFacts DEF Elsewhere, server, Conn
  <1>8. Left("shadow")' = 0
    <2>1. Remaining' = 4
      BY <1>3, <1>4 DEF Shorter
    <2>2. ~Fetching'
      BY <2>1 DEF Fetching
    <2> QED BY <2>1, <2>2 DEF Left
  <1> QED BY <1>1, <1>4, <1>5, <1>6, <1>7, <1>8, StepGood DEF GoodNext, Linked

\* The repair goes on, or is over; the revision is recorded.
LEMMA EndGood ==
  ASSUME Good, TypeInv', RepairStep \/ Save
  PROVE  GoodNext
  <1>1. CASE Save
    BY <1>1 DEF Save, GoodNext
  <1>2. CASE RepairStep
    <2>1. /\ At("repair", "main") /\ asked' = asked /\ UNCHANGED net /\ UNCHANGED server
          /\ "main" \in Conn
      BY <1>2 DEF RepairStep, Conn
    <2>2. todo # <<>> /\ Remaining \in Nat /\ Now("repair") /\ On(Remaining) = "main" /\ Shape
          /\ ClientTyped /\ ~Challenged("main")
      BY <2>1, AtFacts DEF Good, TypeInv
    <2>3. ASSUME NEW f \in File, todo' = GetFile("main", f) \o Repair("busy"), outcome' = outcome
          PROVE  GoodNext
      <3>1. /\ Shape' /\ ~Now("challenge")' /\ Busy' /\ Stays("main") /\ Stays("shadow")
            /\ Left("main") = 0 /\ Left("shadow") = 0
        BY <2>2, <2>3, RepairPushed
      <3>2. \A d \in Conn : ~Challenged(d) /\ ~Challenged(d)'
        BY <2>2, <3>1, NotMet, MetNow DEF Good, TypeInv, Met, Now
      <3>3. Aside("main") /\ Aside("shadow")
        BY <3>1, <3>2 DEF Aside, Conn
      <3>4. Elsewhere("main") /\ Elsewhere("shadow")
        BY <2>1, QuietFacts DEF Elsewhere, net, server
      <3>5. outcome' = "running"
        BY <2>3 DEF Good
      <3>6. Linked("main")' /\ Linked("shadow")'
        BY <3>1, <3>3, <3>4, <3>5, OtherLinked DEF Conn
      <3>7. Known'
        BY <3>1 DEF Known, Stays, Conn
      <3> QED BY <3>1, <3>6, <3>7 DEF GoodNext, Conn
    <2>4. CASE Advance
      <3>1. Shorter
        BY <2>2, <2>4, Popped DEF Advance
      <3>2. RepairEnds'
        BY <2>2, <3>1, RepairPopped
      <3>3. Shape'
        BY <2>2, <3>1, RepairAt, PopShape
      <3>4. /\ Left("main")' = 0 /\ Left("shadow")' = 0 /\ ~Used("main")' /\ ~Used("shadow")'
        BY <3>2 DEF RepairEnds
      <3> QED BY <3>3, <3>4 DEF GoodNext, Linked, Known, Conn
    <2>5. \/ \E f \in bad : todo' = GetFile("main", f) \o Repair("busy") /\ outcome' = outcome
          \/ Advance
      BY <1>2 DEF RepairStep
    <2>6. bad \subseteq File
      BY DEF Good, TypeInv, RestTyped
    <2> QED BY <2>3, <2>4, <2>5, <2>6
  <1> QED BY <1>1, <1>2

-----------------------------------------------------------------------------
(***************************************************************************)
(* The steps of the server.                                                *)
(***************************************************************************)
\* They are about one connection, and edit is the edit of the main one.
LEMMA ServerElsewhere ==
  ASSUME TypeInv, OneEdit, NEW c \in Conn, Server(c) \/ Cut(c)
  PROVE  /\ outcome = "running" /\ conn[c] = "up" /\ UNCHANGED client /\ torn' = torn
         /\ \A d \in Conn \ {c} :
              /\ Quiet(d) /\ Still(d) /\ conn'[d] = conn[d]
              /\ script'[d] = script[d] /\ serves'[d] = serves[d]
         /\ c = "shadow" => edit' = edit
  <1>1. NetTyped /\ ConnTyped /\ ServerTyped
    BY DEF TypeInv
  <1>2. outcome = "running" /\ conn[c] = "up" /\ UNCHANGED client /\ torn' = torn
    BY DEF Server, Say, SayAuth, Refuse, EditCommand, CloseEdit, AbortEdit, Hear, Cut, Serving
  <1>3. ASSUME NEW d \in Conn \ {c}
        PROVE  /\ toC'[d] = toC[d] /\ toS'[d] = toS[d] /\ conn'[d] = conn[d]
               /\ script'[d] = script[d] /\ serves'[d] = serves[d]
    <2>1. CASE Say(c) \/ SayAuth(c) \/ Refuse(c)
      BY <1>1, <2>1 DEF Say, SayAuth, Refuse, Tell, Then, NetTyped, ConnTyped, ServerTyped
    <2>2. CASE EditCommand(c) \/ CloseEdit(c) \/ AbortEdit(c)
      BY <1>1, <2>2 DEF EditCommand, CloseEdit, AbortEdit, Tell, Then, NetTyped, ServerTyped
    <2>3. CASE Hear(c)
      BY <1>1, <2>3 DEF Hear, Then, NetTyped, ConnTyped, ServerTyped
    <2>4. CASE Cut(c)
      BY <1>1, <2>4 DEF Cut, Then, NetTyped, ConnTyped, ServerTyped
    <2> QED BY <2>1, <2>2, <2>3, <2>4 DEF Server
  <1>4. c = "shadow" => edit' = edit
    <2>1. SUFFICES ASSUME c = "shadow", edit' # edit PROVE FALSE
      OBVIOUS
    <2>2. Due(c, {"edit"}) => Edits(c)
      <3>1. script[c] \in Seq(Word)
        BY <1>1 DEF ServerTyped
      <3>2. script[c] # <<>> => Head(script[c]) = script[c][1] /\ 1 \in 1..Len(script[c])
        BY <3>1
      <3> QED BY <3>2 DEF Due, Edits
    <2>3. ~Edits(c) /\ serves[c].what # "update"
      BY <2>1 DEF OneEdit
    <2> QED BY <2>1, <2>2, <2>3 DEF Server, Say, SayAuth, Refuse, EditCommand, CloseEdit, AbortEdit,
                                   Hear, Cut
  <1> QED BY <1>2, <1>3, <1>4, QuietFacts

\* On the connection itself, while it is in use and nothing is torn.
LEMMA ServerLinks ==
  ASSUME Good, NEW c \in Conn, Server(c) \/ Cut(c), Used(c), torn[c] = "out"
  PROVE  Links(c)'
  <1>1. Links(c) /\ Counted(c)
    BY CountedNow DEF Good, Linked
  <1>2. NetTyped /\ ServerTyped /\ ConnTyped /\ RestTyped
    BY DEF Good, TypeInv
  <1>3. Left(c) > 0 => asked[c].what = Topic(c)
    BY DEF Good, Known
  <1>4. Challenged(c) => Item(Topic(c), Left(c)) = "auth"
    <2>1. SUFFICES ASSUME At("challenge", c) PROVE Item(Topic(c), Left(c)) = "auth"
      BY DEF Challenged
    <2>2. Faces(c) /\ Now("challenge")
      BY <2>1, FacesAt, AtFacts
    <2> QED BY <2>2 DEF Faces, Calls, Now
  <1>5. Topic("shadow") # "update"
    BY DEF Topic, FileTopic
  <1>6. CASE Say(c)
    BY <1>1, <1>2, <1>6, SayLinks
  <1>7. CASE SayAuth(c)
    BY <1>1, <1>2, <1>4, <1>7, SayAuthLinks
  <1>8. CASE Refuse(c)
    BY <1>1, <1>2, <1>8, RefuseLinks
  <1>9. CASE EditCommand(c) \/ CloseEdit(c) \/ AbortEdit(c)
    BY <1>1, <1>2, <1>5, <1>9, EditLinks
  <1>10. CASE Hear(c)
    BY <1>1, <1>2, <1>3, <1>10, HearLinks
  <1>11. CASE Cut(c)
    BY <1>1, <1>2, <1>11, CutLinks
  <1> QED BY <1>6, <1>7, <1>8, <1>9, <1>10, <1>11 DEF Server

\* Every step of the server, and a connection that breaks, keep both links.
LEMMA ServerGood ==
  ASSUME Good, OneEdit, TypeInv', NEW c \in Conn, Server(c) \/ Cut(c)
  PROVE  GoodNext
  <1>1. /\ outcome = "running" /\ UNCHANGED client /\ torn' = torn
        /\ \A d \in Conn \ {c} :
             /\ Quiet(d) /\ Still(d) /\ conn'[d] = conn[d]
             /\ script'[d] = script[d] /\ serves'[d] = serves[d]
        /\ c = "shadow" => edit' = edit
    BY ServerElsewhere DEF Good
  <1>2. \A d \in Conn : ClientStands(d)
    BY <1>1, ClientStandsFacts
  <1>3. Shape'
    BY <1>1, ShapeStands DEF Good, client
  <1>4. Known'
    BY <1>2 DEF Good, Known, ClientStands
  <1>5. Linked(c)'
    <2>1. SUFFICES ASSUME Used(c)', torn'[c] = "out" PROVE Links(c)'
      BY DEF Linked
    <2> QED BY <1>1, <1>2, <2>1, ServerLinks DEF ClientStands
  <1>6. ASSUME NEW d \in Conn \ {c} PROVE Linked(d)'
    <2>1. SUFFICES ASSUME Used(d)', torn'[d] = "out" PROVE Links(d)'
      BY DEF Linked
    <2>2. ClientStands(d) /\ d \in Conn
      BY <1>2
    <2>3. Links(d)
      BY <1>1, <2>1, <2>2 DEF Good, Linked, ClientStands
    <2>4. Counted(d) /\ Counted(d)'
      BY <1>3, CountedNow, CountedNext
    <2>5. Challenged(d) => Left(d) > 0
      <3>1. SUFFICES ASSUME At("challenge", d) PROVE Left(d) > 0
        BY DEF Challenged
      <3>2. Left(d) \in 1..Length(Topic(d)) /\ Topic(d) \in Topics
        BY <2>2, <3>1, FacesAt DEF Faces
      <3> QED BY <3>2, DialogTyped
    <2>6. d = "main" => edit' = edit
      BY <1>1 DEF Conn
    <2>7. Stays(d)
      BY <2>2 DEF Stays, ClientStands
    <2>8. Unmoved(d)
      BY <1>1, <2>2, <2>5, <2>6, <2>7 DEF Unmoved, ClientStands
    <2> QED BY <2>2, <2>3, <2>4, <2>8, UnmovedLinks
  <1> QED BY <1>3, <1>4, <1>5, <1>6 DEF GoodNext

-----------------------------------------------------------------------------
(***************************************************************************)
(* When the run is over there is nothing left to do.                       *)
(***************************************************************************)
Over == outcome # "running" => todo = <<>>

\* An ended run has nothing to do, and keeps it so.
LEMMA OverNext ==
  ASSUME Over, [Next]_vars
  PROVE  Over'
  <1>1. ASSUME NEW d, NEW c, At(d, c) PROVE outcome = "running"
    BY <1>1 DEF At, Over
  <1>2. ASSUME Failed, outcome = "running" PROVE Over'
    BY <1>2 DEF Failed, Over
  <1>3. ASSUME UNCHANGED outcome, outcome = "running" PROVE Over'
    BY <1>3 DEF Over
  <1>4. ASSUME UNCHANGED client PROVE Over'
    BY <1>4 DEF client, Over
  <1>5. ASSUME NEW c \in Conn,
               Reach(c) \/ SendStep(c) \/ Receive(c) \/ Auth(c) \/ Contents(c)
        PROVE  Over'
    <2>1. outcome = "running"
      BY <1>1, <1>5 DEF Reach, SendStep, Receive, Auth, Contents
    <2>2. Failed \/ UNCHANGED outcome
      BY <1>5 DEF Reach, SendStep, Receive, Auth, Contents, Advance
    <2> QED BY <1>2, <1>3, <2>1, <2>2
  <1>6. ASSUME NEW c \in Conn, Eod(c) \/ ReadPart(c) \/ GarbledToken(c) \/ GarbledString(c)
        PROVE  Over'
    <2>1. outcome = "running"
      BY <1>1, <1>6 DEF Eod, ReadPart, GarbledToken, GarbledString, Reading
    <2>2. Failed \/ UNCHANGED outcome
      BY <1>6 DEF Eod, ReadPart, GarbledToken, GarbledString, client
    <2> QED BY <1>2, <1>3, <2>1, <2>2
  <1>7. CASE EditStep \/ CloseShadow \/ RepairStep
    <2>1. outcome = "running"
      BY <1>1, <1>7 DEF EditStep, CloseShadow, RepairStep
    <2>2. Failed \/ UNCHANGED outcome
      BY <1>7 DEF EditStep, CloseShadow, RepairStep, Advance
    <2> QED BY <1>2, <1>3, <2>1, <2>2
  <1>8. CASE Save
    BY <1>8 DEF Save, Over
  <1>9. ASSUME NEW c \in Conn, Server(c) \/ Cut(c) PROVE Over'
    BY <1>4, <1>9 DEF Server, Say, SayAuth, Refuse, EditCommand, CloseEdit, AbortEdit, Hear, Cut
  <1>10. CASE UNCHANGED vars
    BY <1>4, <1>10 DEF vars
  <1> QED BY <1>5, <1>6, <1>7, <1>8, <1>9, <1>10 DEF Next, Client, Done

-----------------------------------------------------------------------------
(***************************************************************************)
(* The client does not come back to the time before the update.            *)
(***************************************************************************)
Answering ==
  todo' = Do("challenge", Step.on, "ok", Step.file) \o Tail(todo) /\ outcome' = outcome

ToFetch == At("edit", "main") /\ \E f \in File : todo' = GetFile("shadow", f) \o todo
ToRepair ==
  At("repair", "main") /\ \E f \in File : todo' = GetFile("main", f) \o Repair("busy")

\* What a step of the client may do to todo.
LEMMA Moves ==
  ASSUME Good, Client
  PROVE  /\ todo # <<>> /\ Remaining \in Nat
         /\ \/ Advance \/ Paused \/ ToFetch \/ ToRepair \/ todo' = <<>>
            \/ Failed /\ Remaining >= 3 /\ On(Remaining) \in Conn
            \/ Answering /\ Now("auth")
  <1>1. ASSUME NEW c \in Conn, NEW d, At(d, c)
        PROVE  /\ todo # <<>> /\ Remaining \in Nat /\ On(Remaining) \in Conn /\ Now(d) /\ Step.on = c
               /\ d \notin {"save", "repair"} => Remaining >= 3
    BY <1>1, AtFacts
  <1>2. ASSUME NEW c \in Conn, Reach(c) \/ SendStep(c) \/ Receive(c) \/ Contents(c)
        PROVE  /\ todo # <<>> /\ Remaining \in Nat
               /\ Advance \/ (Failed /\ Remaining >= 3 /\ On(Remaining) \in Conn)
    <2>1. PICK d \in {"connect", "send", "await", "challenge", "contents"} : At(d, c)
      BY <1>2 DEF Reach, SendStep, Receive, Contents
    <2>2. Advance \/ Failed
      BY <1>2 DEF Reach, SendStep, Receive, Contents
    <2> QED BY <1>1, <2>1, <2>2
  <1>3. ASSUME NEW c \in Conn, Auth(c)
        PROVE  /\ todo # <<>> /\ Remaining \in Nat
               /\ \/ Advance \/ (Answering /\ Now("auth"))
                  \/ Failed /\ Remaining >= 3 /\ On(Remaining) \in Conn
    <2>1. At("auth", c)
      BY <1>3 DEF Auth
    <2>2. Step.on = c /\ Now("auth")
      BY <1>1, <2>1
    <2>3. Advance \/ Answering \/ Failed
      BY <1>3, <2>2 DEF Auth, Answering
    <2> QED BY <1>1, <2>1, <2>2, <2>3
  <1>4. ASSUME NEW c \in Conn, Eod(c) \/ ReadPart(c) \/ GarbledToken(c) \/ GarbledString(c)
        PROVE  /\ todo # <<>> /\ Remaining \in Nat
               /\ Paused \/ (Failed /\ Remaining >= 3 /\ On(Remaining) \in Conn)
    <2>1. PICK d \in {"await", "auth", "challenge", "contents", "edit"} : At(d, c)
      BY <1>4 DEF Eod, ReadPart, GarbledToken, GarbledString, Reading
    <2>2. Paused \/ Failed
      BY <1>4 DEF Eod, ReadPart, GarbledToken, GarbledString, Paused, client
    <2> QED BY <1>1, <2>1, <2>2
  <1>5. ASSUME EditStep
        PROVE  /\ todo # <<>> /\ Remaining \in Nat
               /\ \/ Paused \/ ToFetch \/ Advance
                  \/ Failed /\ Remaining >= 3 /\ On(Remaining) \in Conn
    <2>1. At("edit", "main") /\ "main" \in Conn
      BY <1>5 DEF EditStep, Conn
    <2>2. Paused \/ ToFetch \/ Advance \/ Failed
      BY <1>5, <2>1 DEF EditStep, Paused, ToFetch
    <2> QED BY <1>1, <2>1, <2>2
  <1>6. ASSUME CloseShadow \/ RepairStep
        PROVE  todo # <<>> /\ Remaining \in Nat /\ (Advance \/ ToRepair)
    <2>1. PICK d \in {"close", "repair"}, c \in Conn : At(d, c)
      BY <1>6 DEF CloseShadow, RepairStep, Conn
    <2>2. bad \subseteq File
      BY DEF Good, TypeInv, RestTyped
    <2>3. Advance \/ ToRepair
      BY <1>6, <2>2 DEF CloseShadow, RepairStep, ToRepair
    <2> QED BY <1>1, <2>1, <2>3
  <1>7. ASSUME Save PROVE todo # <<>> /\ Remaining \in Nat /\ todo' = <<>>
    <2>1. At("save", "main") /\ "main" \in Conn
      BY <1>7 DEF Save, Conn
    <2> QED BY <1>1, <1>7, <2>1 DEF Save
  <1> QED BY <1>2, <1>3, <1>4, <1>5, <1>6, <1>7 DEF Client

\* After the update has been sent the client is never again before it.
LEMMA EarlyClient ==
  ASSUME Good, TypeInv', Client, Early'
  PROVE  Early
  <1>1. ClientTyped /\ Shape /\ todo # <<>> /\ Remaining \in Nat
    BY Moves DEF Good, TypeInv
  <1>2. ~Busy' /\ ~Fetching' /\ Remaining' >= 16 /\ Remaining' \in Nat
    <2>1. Remaining' \in Nat
      BY DEF TypeInv, ClientTyped, Remaining
    <2> QED BY <2>1 DEF Early
  <1>3. ASSUME Remaining >= Remaining', Remaining' \in Nat, Saying(2)' = Saying(2), Saying(7)' = Saying(7)
        PROVE  Early
    BY <1>1, <1>2, <1>3 DEF Early, Busy, Fetching
  <1>4. CASE Advance
    <2>1. Shorter
      BY <1>1, <1>4, Popped DEF Advance
    <2>2. PICK k : k = Remaining
      OBVIOUS
    <2>3. k \in Nat /\ Remaining' = k - 1 /\ \A i \in 1..k - 1 : Saying(i)' = Saying(i)
      BY <2>1, <2>2 DEF Shorter
    <2>4. k >= 17
      BY <1>2, <2>3
    <2> QED BY <1>3, <2>2, <2>3, <2>4
  <1>5. CASE Paused
    <2>1. Remaining' = Remaining
      BY <1>5 DEF Paused, Remaining
    <2>2. \A k : Saying(k)' = Saying(k)
      BY <1>5, <2>1 DEF Paused, Saying, Back
    <2> QED BY <1>1, <1>3, <2>1, <2>2
  <1>6. CASE Answering /\ Now("auth")
    <2>1. Swapped(Remaining)
      BY <1>1, <1>6, SwappedFacts DEF Answering
    <2>2. PICK k : k = Remaining
      OBVIOUS
    <2>3. k \in Nat /\ Remaining' = k /\ \A i \in 1..k - 1 : Saying(i)' = Saying(i)
      BY <2>1, <2>2 DEF Swapped
    <2>4. k >= 16
      BY <1>2, <2>3
    <2> QED BY <1>3, <2>2, <2>3, <2>4
  <1>7. CASE ToFetch
    <2>1. Now("edit")
      BY <1>1, <1>7, BackFacts DEF ToFetch, At, Now
    <2>2. Remaining' = 11
      BY <1>1, <1>7, <2>1, FetchPushed DEF ToFetch
    <2> QED BY <1>2, <2>2
  <1>8. CASE ToRepair
    <2>1. Now("repair")
      BY <1>1, <1>8, BackFacts DEF ToRepair, At, Now
    <2>2. Busy'
      BY <1>1, <1>8, <2>1, RepairPushed DEF ToRepair
    <2> QED BY <1>2, <2>2
  <1>9. CASE todo' = <<>>
    BY <1>2, <1>9 DEF Remaining
  <1>10. CASE Failed /\ Remaining >= 3 /\ On(Remaining) \in Conn
    <2>1. PICK c \in Conn : c = On(Remaining)
      BY <1>10
    <2>2. CASE outcome' = "failed"
      BY <1>9, <1>10, <2>2 DEF Failed, Good
    <2>3. CASE /\ ~Used(c)' /\ Topic(c) = "get-file" /\ Left(c) = 4
               /\ \A d \in Conn \ {c} : Stays(d)
      <3>1. c = "shadow"
        <4>1. Used("main")'
          BY <1>2 DEF Used
        <4> QED BY <2>3, <4>1 DEF Conn
      <3>2. Fetching /\ ~Busy
        BY <2>3, <3>1 DEF Topic, Fetching
      <3>3. Left("main") = 3 /\ Topic("main") = "update" /\ Stays("main")
        BY <2>3, <3>1, <3>2 DEF Left, Topic, Conn
      <3>4. Topic("main")' = "update"
        BY <3>3 DEF Stays
      <3>5. Topic("main")' = RunTopic(Remaining)'
        BY <1>2 DEF Topic
      <3> QED BY <1>2, <3>4, <3>5 DEF RunTopic
    <2> QED BY <1>1, <1>2, <1>10, <2>1, <2>2, <2>3, FailedFacts
  <1> QED BY <1>4, <1>5, <1>6, <1>7, <1>8, <1>9, <1>10, Moves

-----------------------------------------------------------------------------
(***************************************************************************)
(* The edit is asked for once.                                             *)
(***************************************************************************)
HasEdit(q) == \E i \in 1..Len(q) : q[i] = "edit"

\* Which scripts have the edit still in them.
LEMMA HasEditFacts ==
  /\ ~HasEdit(<<>>) /\ ~HasEdit(<<"success", "failure">>) /\ ~HasEdit(Greeting)
  /\ \A w \in Requests : HasEdit(Script(w)) => w = "update"
  /\ \A q \in Seq(Word) : q # <<>> =>
       /\ HasEdit(Tail(q)) => HasEdit(q)
       /\ \A a, b \in Word \ {"edit"} : HasEdit(<<a, b>> \o Tail(q)) => HasEdit(q)
  <1>1. ~HasEdit(<<>>) /\ ~HasEdit(<<"success", "failure">>)
    BY DEF HasEdit
  <1>2. ~HasEdit(Greeting)
    BY DEF HasEdit, Greeting
  <1>3. ASSUME NEW w \in Requests, w # "update" PROVE ~HasEdit(Script(w))
    BY <1>3 DEF HasEdit, Script, Requests
  <1>4. ASSUME NEW q \in Seq(Word), q # <<>>
        PROVE  /\ HasEdit(Tail(q)) => HasEdit(q)
               /\ \A a, b \in Word \ {"edit"} : HasEdit(<<a, b>> \o Tail(q)) => HasEdit(q)
    <2>1. /\ Len(q) \in Nat /\ Len(q) >= 1 /\ Tail(q) \in Seq(Word) /\ Len(Tail(q)) = Len(q) - 1
          /\ \A i \in 1..Len(q) - 1 : Tail(q)[i] = q[i + 1]
      BY <1>4
    <2>2. HasEdit(Tail(q)) => HasEdit(q)
      <3>1. SUFFICES ASSUME NEW i \in 1..Len(q) - 1, Tail(q)[i] = "edit" PROVE HasEdit(q)
        BY <2>1 DEF HasEdit
      <3>2. i + 1 \in 1..Len(q) /\ q[i + 1] = "edit"
        BY <2>1, <3>1
      <3> QED BY <3>2 DEF HasEdit
    <2>3. ASSUME NEW a \in Word \ {"edit"}, NEW b \in Word \ {"edit"},
                 HasEdit(<<a, b>> \o Tail(q))
          PROVE  HasEdit(Tail(q))
      <3>1. PICK r \in Seq(Word) : r = Tail(q)
        BY <2>1
      <3>7. <<a, b>> \in Seq(Word) /\ Len(<<a, b>>) = 2 /\ <<a, b>>[1] = a /\ <<a, b>>[2] = b
        OBVIOUS
      <3>2. PICK p \in Seq(Word) : p = <<a, b>> /\ Len(p) = 2 /\ p[1] = a /\ p[2] = b
        BY <3>7
      <3>3. /\ Len(p \o r) = 2 + Len(r) /\ Len(r) \in Nat
            /\ \A i \in 1..2 + Len(r) : (p \o r)[i] = IF i <= 2 THEN p[i] ELSE r[i - 2]
        BY <3>2, ConcatProperties
      <3>4. PICK i \in 1..2 + Len(r) : (p \o r)[i] = "edit"
        BY <2>3, <3>1, <3>2, <3>3 DEF HasEdit
      <3>5. i > 2
        BY <3>2, <3>3, <3>4
      <3>6. i - 2 \in 1..Len(r) /\ r[i - 2] = "edit"
        BY <3>3, <3>4, <3>5
      <3> QED BY <3>1, <3>6 DEF HasEdit
    <2> QED BY <2>2, <2>3
  <1> QED BY <1>1, <1>2, <1>3, <1>4

LEMMA EditsAre == \A c : (Edits(c) <=> HasEdit(script[c])) /\ (Edits(c)' <=> HasEdit(script'[c]))
  BY DEF Edits, HasEdit

\* A step after which nothing more is asked for, in the script or at its end.
LEMMA KeptOneEdit ==
  ASSUME OneEdit, edit' = "done" => edit = "done",
         \A c \in Conn : \A i : Asks(c, i)' => Asks(c, i),
         \A c \in Conn : Edits(c)' => Edits(c) /\ serves'[c] = serves[c],
         \A c \in Conn : serves'[c].what = "update" => serves[c].what = "update",
         outcome' = "running" /\ Early' => outcome = "running" /\ Early
  PROVE  OneEdit'
  <1>1. "main" \in Conn /\ "shadow" \in Conn
    BY DEF Conn
  <1>2. \A i : ~Asks("shadow", i)'
    BY <1>1 DEF OneEdit
  <1>3. \A i, j : Asks("main", i)' /\ Asks("main", j)' => i = j
    BY <1>1 DEF OneEdit
  <1>4. \A c \in Conn : Edits(c)' => c = "main" /\ serves'[c].what = "update"
    BY DEF OneEdit
  <1>5. serves'["shadow"].what # "update"
    BY <1>1 DEF OneEdit
  <1>6. (\E i : Asks("main", i)') => serves'["main"].what # "update" /\ edit' # "done"
    BY <1>1 DEF OneEdit
  <1>7. edit' = "done" => ~Edits("main")'
    BY <1>1 DEF OneEdit
  <1>8. outcome' = "running" /\ Early' =>
          edit' # "done" /\ serves'["main"].what # "update" /\ \A i : ~Asks("main", i)'
    BY <1>1 DEF OneEdit
  <1> QED BY <1>2, <1>3, <1>4, <1>5, <1>6, <1>7, <1>8 DEF OneEdit

\* Where the client asks for the edit.
LEMMA UpdateAt ==
  ASSUME Remaining \in Nat, Shape, Now("send"), Saying(Remaining) = "update"
  PROVE  Early /\ Remaining = 16 /\ On(Remaining) = "main"
  <1> USE DEF IsStep, IsPlain, IsAuth, IsAuthOf, SetupSteps, Now
  <1>0. Remaining >= 1
    BY DEF Shape
  <1>1. CASE RunShape
    <2>1. CASE Remaining < 12
      BY <1>0, <1>1, <2>1 DEF RunShape, EditSteps, UpdateSteps
    <2>2. CASE Remaining \in 12..19
      BY <1>1, <2>2 DEF RunShape, UpdateSteps, Early
    <2>3. CASE Remaining >= 20
      BY <1>1, <2>3 DEF RunShape, OpenSteps
    <2> QED BY <2>1, <2>2, <2>3
  <1>2. ASSUME NEW b \in {2, 6}, NEW c, FileSteps(b, c) PROVE FALSE
    BY <1>2 DEF FileSteps
  <1>3. ~FetchShape
    BY <1>2 DEF FetchShape
  <1>4. ~RepairShape
    BY <1>0, <1>2 DEF RepairShape
  <1> QED BY <1>1, <1>3, <1>4 DEF Shape

\* The requests for an update among what is under way to the server.
LEMMA AsksStay ==
  ASSUME NEW c
  PROVE  /\ Still(c) => \A i : Asks(c, i)' => Asks(c, i)
         /\ Up(c)' = 0 => \A i : ~Asks(c, i)'
         /\ HeardOne(c) => \A i : Asks(c, i)' => Asks(c, i + 1) /\ i + 1 # 1
         /\ \A w : Passed(c, w) => \A i : Asks(c, i)' => Asks(c, i) \/ (i = Up(c) + 1 /\ w = "update")
  <1>1. ASSUME Still(c), NEW i, Asks(c, i)' PROVE Asks(c, i)
    BY <1>1 DEF Still, Asks
  <1>2. ASSUME Up(c)' = 0, NEW i, Asks(c, i)' PROVE FALSE
    BY <1>2 DEF Asks
  <1>3. ASSUME HeardOne(c), NEW i, Asks(c, i)' PROVE Asks(c, i + 1) /\ i + 1 # 1
    <2>1. i \in 1..Up(c) - 1 /\ Up(c) \in Nat /\ Heeds(c, i)' = "update"
      BY <1>3 DEF HeardOne, Asks
    <2>2. Heeds(c, i + 1) = "update" /\ i + 1 \in 1..Up(c) /\ i + 1 # 1
      BY <1>3, <2>1 DEF HeardOne
    <2> QED BY <2>2 DEF Asks
  <1>4. ASSUME NEW w, Passed(c, w), NEW i, Asks(c, i)'
        PROVE  Asks(c, i) \/ (i = Up(c) + 1 /\ w = "update")
    <2>1. Up(c) \in Nat /\ i \in 1..Up(c) + 1 /\ Heeds(c, i)' = "update"
      BY <1>4 DEF Passed, Asks
    <2>2. i \in 1..Up(c) \/ i = Up(c) + 1
      BY <2>1
    <2> QED BY <1>4, <2>1, <2>2 DEF Passed, Asks
  <1> QED BY <1>1, <1>2, <1>3, <1>4

\* Another message than a request for an update adds none.
LEMMA AsksPassed ==
  ASSUME NEW c, NEW w, Passed(c, w), w # "update", NEW i, Asks(c, i)'
  PROVE  Asks(c, i)
  <1>1. Up(c) \in Nat /\ i \in 1..Up(c) + 1 /\ Heeds(c, i)' = "update"
    BY DEF Passed, Asks
  <1>2. i \in 1..Up(c) \/ i = Up(c) + 1
    BY <1>1
  <1> QED BY <1>1, <1>2 DEF Passed, Asks

\* The client asks for the edit once.
LEMMA OneEditClient ==
  ASSUME Good, TypeInv', OneEdit, Client
  PROVE  OneEdit'
  <1>1. outcome' = "running" /\ Early' => outcome = "running" /\ Early
    BY EarlyClient DEF Good
  <1>2. NetTyped /\ ConnTyped /\ ServerTyped
    BY DEF Good, TypeInv
  <1>3. ASSUME UNCHANGED server, \A c \in Conn : \A i : Asks(c, i)' => Asks(c, i)
        PROVE  OneEdit'
    <2>1. script' = script /\ serves' = serves /\ edit' = edit
      BY <1>3 DEF server
    <2>2. \A c : Edits(c)' => Edits(c)
      BY <2>1 DEF Edits
    <2> QED BY <1>1, <1>3, <2>1, <2>2, KeptOneEdit
  <1>4. ASSUME UNCHANGED server, toS' = toS PROVE OneEdit'
    BY <1>3, <1>4, QuietFacts, AsksStay
  <1>5. ASSUME NEW c \in Conn, Reach(c) PROVE OneEdit'
    <2>1. /\ script'[c] \in {Greeting, <<>>} /\ serves'[c] = SetUp /\ toS'[c] = <<>> /\ edit' = edit
          /\ \A d \in Conn \ {c} : script'[d] = script[d] /\ serves'[d] = serves[d] /\ toS'[d] = toS[d]
      BY <1>2, <1>5 DEF Reach, NetTyped, ServerTyped
    <2>2. ~Edits(c)'
      BY <2>1, EditsAre, HasEditFacts
    <2>3. \A i : ~Asks(c, i)'
      BY <2>1, AsksStay DEF Up
    <2>4. \A d \in Conn \ {c} : (Edits(d)' => Edits(d)) /\ \A i : Asks(d, i)' => Asks(d, i)
      BY <2>1, QuietFacts, AsksStay, EditsAre
    <2>5. serves'[c].what # "update"
      BY <2>1 DEF SetUp, Asking
    <2> QED BY <1>1, <2>1, <2>2, <2>3, <2>4, <2>5, KeptOneEdit
  <1>6. ASSUME NEW c \in Conn, SendStep(c) PROVE OneEdit'
    <2>1. /\ UNCHANGED server /\ At("send", c)
          /\ (Deliver(c, Step.what, Step.file) /\ Advance) \/ toS' = toS
      BY <1>6 DEF SendStep
    <2>2. CASE toS' = toS
      BY <1>4, <2>1, <2>2
    <2>3. CASE Deliver(c, Step.what, Step.file) /\ Advance /\ conn[c] # "up"
      BY <1>4, <2>1, <2>3 DEF Deliver
    <2>4. CASE Deliver(c, Step.what, Step.file) /\ Advance /\ conn[c] = "up"
      <3>1. Passed(c, Step.what) /\ \A d \in Conn \ {c} : Still(d)
        BY <1>2, <2>4, PassedFacts
      <3>2. \A d \in Conn \ {c} : \A i : Asks(d, i)' => Asks(d, i)
        BY <3>1, AsksStay
      <3>3. CASE Step.what # "update"
        <4>1. PICK w : w = Step.what /\ w # "update" /\ Passed(c, w)
          BY <3>1, <3>3
        <4>2. ASSUME NEW i, Asks(c, i)' PROVE Asks(c, i)
          BY <4>1, <4>2, AsksPassed
        <4> QED BY <1>3, <2>1, <3>2, <4>2
      <3>4. CASE Step.what = "update"
        <4>1. /\ Remaining \in Nat /\ Now("send") /\ On(Remaining) = c /\ Shape /\ todo # <<>>
              /\ Saying(Remaining) = "update" /\ ClientTyped
          BY <2>1, <3>4, AtFacts DEF Good, TypeInv
        <4>2. Early /\ Remaining = 16 /\ c = "main"
          BY <4>1, UpdateAt
        <4>3. ~Early'
          <5>1. Shorter
            BY <2>4, <4>1, Popped DEF Advance
          <5> QED BY <4>2, <5>1 DEF Shorter, Early
        <4>4. edit # "done" /\ serves["main"].what # "update" /\ \A i : ~Asks("main", i)
          BY <4>2 DEF OneEdit, Good
        <4>5. \A i, j : Asks("main", i)' /\ Asks("main", j)' => i = j
          BY <3>1, <4>2, <4>4, AsksStay
        <4>6. \A i : ~Asks("shadow", i)'
          BY <3>2, <4>2 DEF OneEdit, Conn
        <4>7. script' = script /\ serves' = serves /\ edit' = edit /\ \A d : Edits(d)' <=> Edits(d)
          BY <2>1 DEF server, Edits
        <4> QED BY <4>3, <4>4, <4>5, <4>6, <4>7 DEF OneEdit
      <3> QED BY <3>3, <3>4
    <2> QED BY <2>1, <2>2, <2>3, <2>4
  <1>7. ASSUME NEW c \in Conn, Auth(c) PROVE OneEdit'
    <2>1. UNCHANGED server /\ (Deliver(c, "auth-response", NoFile) \/ toS' = toS)
      BY <1>7 DEF Auth
    <2>2. CASE toS' = toS
      BY <1>4, <2>1, <2>2
    <2>3. CASE Deliver(c, "auth-response", NoFile) /\ conn[c] # "up"
      BY <1>4, <2>1, <2>3 DEF Deliver
    <2>4. CASE Deliver(c, "auth-response", NoFile) /\ conn[c] = "up"
      <3>1. Passed(c, "auth-response") /\ \A d \in Conn \ {c} : Still(d)
        BY <1>2, <2>4, PassedFacts
      <3>2. \A d \in Conn : \A i : Asks(d, i)' => Asks(d, i)
        BY <3>1, AsksStay
      <3> QED BY <1>3, <2>1, <3>2
    <2> QED BY <2>1, <2>2, <2>3, <2>4
  <1>8. ASSUME NEW c \in Conn,
               \/ Receive(c) \/ Contents(c) \/ Eod(c) \/ ReadPart(c)
               \/ GarbledToken(c) \/ GarbledString(c)
        PROVE  OneEdit'
    <2>1. UNCHANGED server /\ toS' = toS
      BY <1>8 DEF Receive, Contents, Eod, ReadPart, GarbledToken, GarbledString, net
    <2> QED BY <1>4, <2>1
  <1>9. ASSUME EditStep \/ CloseShadow \/ RepairStep \/ Save PROVE OneEdit'
    <2>1. UNCHANGED server /\ toS' = toS
      BY <1>9 DEF EditStep, CloseShadow, RepairStep, Save, net
    <2> QED BY <1>4, <2>1
  <1> QED BY <1>5, <1>6, <1>7, <1>8, <1>9 DEF Client

\* A step of the server leaves the client before the update, or after it.
LEMMA EarlyStands ==
  ASSUME UNCHANGED client
  PROVE  (Early' <=> Early) /\ outcome' = outcome
  <1>1. todo' = todo /\ outcome' = outcome
    BY DEF client
  <1>2. Remaining' = Remaining
    BY <1>1 DEF Remaining
  <1>3. \A k : Saying(k)' = Saying(k)
    BY <1>1, <1>2 DEF Saying, Back
  <1> QED BY <1>1, <1>2, <1>3 DEF Early, Busy, Fetching

\* The server starts the edit when it is asked, and does not reopen it.
LEMMA OneEditServer ==
  ASSUME TypeInv, OneEdit, NEW c \in Conn, Server(c) \/ Cut(c)
  PROVE  OneEdit'
  <1>1. /\ UNCHANGED client
        /\ \A d \in Conn \ {c} :
             Still(d) /\ script'[d] = script[d] /\ serves'[d] = serves[d]
    BY ServerElsewhere
  <1>2. outcome' = "running" /\ Early' => outcome = "running" /\ Early
    BY <1>1, EarlyStands
  <1>3. NetTyped /\ ServerTyped /\ script[c] \in Seq(Word)
    BY DEF TypeInv, ServerTyped
  <1>4. \A d \in Conn \ {c} : (Edits(d)' => Edits(d)) /\ \A i : Asks(d, i)' => Asks(d, i)
    BY <1>1, EditsAre, AsksStay
  <1>5. ASSUME serves'[c] = serves[c], edit' = "done" => edit = "done",
               \A i : Asks(c, i)' => Asks(c, i), Edits(c)' => Edits(c)
        PROVE  OneEdit'
    BY <1>1, <1>2, <1>4, <1>5, KeptOneEdit
  <1>6. toS' = toS => \A i : Asks(c, i)' => Asks(c, i)
    BY QuietFacts, AsksStay
  <1>7. script[c] # <<>> /\ script'[c] = Tail(script[c]) => (Edits(c)' => Edits(c))
    BY <1>3, EditsAre, HasEditFacts
  <1>8. ASSUME Say(c) PROVE OneEdit'
    <2>1. toS' = toS /\ serves' = serves /\ script[c] # <<>> /\ script'[c] = Tail(script[c])
      BY <1>3, <1>8 DEF Say, Due, Then, ServerTyped
    <2>2. CASE edit' = edit
      BY <1>5, <1>6, <1>7, <2>1, <2>2
    <2>3. CASE edit' # edit
      <3>1. serves[c].what = "update" /\ script[c] = <<"ok">> /\ edit' = "done"
        BY <1>8, <2>3 DEF Say
      <3>2. c = "main" /\ \A i : ~Asks("main", i)
        BY <3>1 DEF OneEdit, Conn
      <3>3. ~Edits("main")'
        <4>1. script'["main"] = <<>>
          BY <2>1, <3>1, <3>2
        <4> QED BY <4>1, EditsAre, HasEditFacts
      <3>4. \A i : ~Asks("main", i)'
        BY <1>6, <2>1, <3>2
      <3>5. ~(outcome' = "running" /\ Early')
        BY <1>2, <3>1, <3>2 DEF OneEdit
      <3>6. \A i : ~Asks("shadow", i)'
        BY <1>4, <3>2 DEF OneEdit, Conn
      <3>7. \A d \in Conn : ~Edits(d)'
        BY <1>4, <3>2, <3>3 DEF OneEdit, Conn
      <3>8. serves'["shadow"].what # "update"
        BY <2>1 DEF OneEdit
      <3> QED BY <3>3, <3>4, <3>5, <3>6, <3>7, <3>8 DEF OneEdit
    <2> QED BY <2>2, <2>3
  <1>9. ASSUME SayAuth(c) PROVE OneEdit'
    <2>1. /\ toS' = toS /\ serves' = serves /\ edit' = edit /\ script[c] # <<>>
          /\ \/ script'[c] = Tail(script[c])
             \/ script'[c] = <<"auth-response", "ok">> \o Tail(script[c])
             \/ script'[c] = <<"other-response", "ok">> \o Tail(script[c])
      BY <1>3, <1>9 DEF SayAuth, Due, Then, ServerTyped
    <2>2. {"auth-response", "other-response", "ok"} \subseteq Word \ {"edit"}
      BY DEF Word, Heard, Said
    <2>3. Edits(c)' => Edits(c)
      BY <1>3, <2>1, <2>2, EditsAre, HasEditFacts
    <2> QED BY <1>5, <1>6, <2>1, <2>3
  <1>10. ASSUME script'[c] \in {<<>>, <<"success", "failure">>} PROVE ~Edits(c)'
    BY <1>10, EditsAre, HasEditFacts
  <1>11. ASSUME Refuse(c) PROVE OneEdit'
    <2>1. toS' = toS /\ serves' = serves /\ edit' = edit /\ script'[c] = <<>>
      BY <1>3, <1>11 DEF Refuse, Then, ServerTyped
    <2> QED BY <1>5, <1>6, <1>10, <2>1
  <1>12. ASSUME EditCommand(c) PROVE OneEdit'
    <2>1. toS' = toS /\ serves' = serves /\ edit' # "done" /\ script' = script
      BY <1>12 DEF EditCommand
    <2> QED BY <1>5, <1>6, <2>1, EditsAre
  <1>13. ASSUME CloseEdit(c) PROVE OneEdit'
    <2>1. /\ toS' = toS /\ serves' = serves /\ edit' # "done" /\ script[c] # <<>>
          /\ script'[c] = Tail(script[c])
      BY <1>3, <1>13 DEF CloseEdit, Due, Then, ServerTyped
    <2> QED BY <1>5, <1>6, <1>7, <2>1
  <1>14. ASSUME AbortEdit(c) PROVE OneEdit'
    <2>1. /\ toS' = toS /\ serves' = serves /\ edit' # "done"
          /\ script'[c] \in {<<>>, <<"success", "failure">>}
      BY <1>3, <1>14 DEF AbortEdit, Then, ServerTyped
    <2> QED BY <1>5, <1>6, <1>10, <2>1
  <1>15. ASSUME Cut(c) PROVE OneEdit'
    <2>1. toS'[c] = <<>> /\ serves' = serves /\ edit' = edit /\ script'[c] = <<>>
      BY <1>3, <1>15 DEF Cut, Then, ServerTyped, NetTyped
    <2>2. \A i : ~Asks(c, i)'
      BY <2>1, AsksStay DEF Up
    <2> QED BY <1>5, <1>10, <2>1, <2>2
  <1>16. ASSUME Hear(c) PROVE OneEdit'
    <2> DEFINE m == Head(toS[c])
    <2>1. HeardOne(c) /\ edit' = edit /\ m.what = Heeds(c, 1) /\ 1 \in 1..Up(c)
      <3>1. HeardOne(c) /\ edit' = edit /\ toS[c] # <<>>
        BY <1>3, <1>16, HeardFacts DEF Hear
      <3>2. m.what = Heeds(c, 1)
        BY <1>3, <3>1, NetFacts
      <3> QED BY <3>1, <3>2 DEF HeardOne
    <2>2. \A i : Asks(c, i)' => Asks(c, i + 1) /\ i + 1 # 1
      BY <2>1, AsksStay
    <2>3. \/ /\ m.what \in Requests /\ serves'[c].what = m.what
             /\ script'[c] = Script(m.what)
          \/ script[c] # <<>> /\ script'[c] = Tail(script[c]) /\ serves' = serves
          \/ script'[c] = <<>> /\ serves' = serves
      BY <1>3, <1>16 DEF Hear, Due, Then, ServerTyped, Asking
    <2>4. ASSUME \A d \in Conn : Edits(d)' => d = "main" /\ serves'[d].what = "update",
                 serves'["shadow"].what # "update",
                 (\E i : Asks("main", i)') => serves'["main"].what # "update",
                 edit = "done" => ~Edits("main")',
                 outcome = "running" /\ Early => serves'["main"].what # "update"
          PROVE  OneEdit'
      <3>1. \A i : ~Asks("shadow", i)'
        <4>1. CASE c = "shadow"
          BY <2>2, <4>1 DEF OneEdit
        <4>2. CASE c # "shadow"
          BY <1>4, <4>2 DEF OneEdit, Conn
        <4> QED BY <4>1, <4>2
      <3>2. \A i, j : Asks("main", i)' /\ Asks("main", j)' => i = j
        <4>1. CASE c = "main"
          <5>1. ASSUME NEW i, NEW j, Asks("main", i)', Asks("main", j)' PROVE i = j
            <6>1. i + 1 = j + 1
              BY <2>2, <4>1, <5>1 DEF OneEdit
            <6>2. i \in Nat /\ j \in Nat
              BY <5>1 DEF Asks
            <6> QED BY <6>1, <6>2
          <5> QED BY <5>1
        <4>2. CASE c # "main"
          BY <1>4, <4>2 DEF OneEdit, Conn
        <4> QED BY <4>1, <4>2
      <3>3. (\E i : Asks("main", i)') => \E i : Asks("main", i)
        <4>1. CASE c = "main"
          BY <2>2, <4>1
        <4>2. CASE c # "main"
          BY <1>4, <4>2 DEF Conn
        <4> QED BY <4>1, <4>2
      <3>4. (\E i : Asks("main", i)') => edit' # "done"
        BY <2>1, <3>3 DEF OneEdit
      <3>5. outcome' = "running" /\ Early' =>
              edit' # "done" /\ serves'["main"].what # "update" /\ \A i : ~Asks("main", i)'
        BY <1>2, <2>1, <2>4, <3>3 DEF OneEdit
      <3> QED BY <2>1, <2>4, <3>1, <3>2, <3>4, <3>5 DEF OneEdit
    <2>5. ASSUME serves' = serves, Edits(c)' => Edits(c) PROVE OneEdit'
      <3>1. \A d \in Conn : Edits(d)' => Edits(d)
        BY <1>4, <2>5
      <3>2. "main" \in Conn /\ ((\E i : Asks("main", i)') => \E i : Asks("main", i))
        <4>1. CASE c = "main"
          BY <2>2, <4>1 DEF Conn
        <4>2. CASE c # "main"
          BY <1>4, <4>2 DEF Conn
        <4> QED BY <4>1, <4>2
      <3> QED BY <2>4, <2>5, <3>1, <3>2 DEF OneEdit
    <2>6. CASE m.what \in Requests /\ serves'[c].what = m.what /\ script'[c] = Script(m.what)
      <3>1. CASE m.what = "update"
        <4>1. Asks(c, 1)
          BY <2>1, <3>1 DEF Asks
        <4>2. c = "main" /\ serves["main"].what # "update" /\ edit # "done"
          BY <4>1 DEF OneEdit, Conn
        <4>3. \A i : ~Asks("main", i)'
          BY <2>2, <4>1, <4>2 DEF OneEdit
        <4>4. ~(outcome = "running" /\ Early)
          BY <4>1, <4>2 DEF OneEdit
        <4>5. "shadow" \in Conn \ {c} /\ serves'["shadow"].what # "update" /\ ~Edits("shadow")'
          <5>1. "shadow" \in Conn \ {c}
            BY <4>2 DEF Conn
          <5> QED BY <1>1, <1>4, <5>1 DEF OneEdit
        <4> QED BY <2>4, <2>6, <3>1, <4>2, <4>3, <4>4, <4>5 DEF Conn
      <3>2. CASE m.what # "update"
        <4>1. ~Edits(c)'
          BY <2>6, <3>2, EditsAre, HasEditFacts
        <4>2. \A d \in Conn : Edits(d)' => Edits(d) /\ serves'[d] = serves[d]
          BY <1>1, <1>4, <4>1
        <4>3. \A d \in Conn : serves'[d].what = "update" => serves[d].what = "update"
          BY <1>1, <2>6, <3>2
        <4>4. "main" \in Conn /\ "shadow" \in Conn
          BY DEF Conn
        <4>5. (\E i : Asks("main", i)') => serves'["main"].what # "update"
          <5>1. (\E i : Asks("main", i)') => \E i : Asks("main", i)
            <6>1. CASE c = "main"
              BY <2>2, <6>1
            <6>2. CASE c # "main"
              BY <1>4, <4>4, <6>2
            <6> QED BY <6>1, <6>2
          <5> QED BY <4>3, <4>4, <5>1 DEF OneEdit
        <4>6. edit = "done" => ~Edits("main")'
          BY <4>2, <4>4 DEF OneEdit
        <4>7. outcome = "running" /\ Early => serves'["main"].what # "update"
          BY <4>3, <4>4 DEF OneEdit
        <4>8. serves'["shadow"].what # "update"
          BY <4>3, <4>4 DEF OneEdit
        <4>9. \A d \in Conn : Edits(d)' => d = "main" /\ serves'[d].what = "update"
          BY <4>2 DEF OneEdit
        <4> QED BY <2>4, <4>5, <4>6, <4>7, <4>8, <4>9
      <3> QED BY <3>1, <3>2
    <2>7. CASE script[c] # <<>> /\ script'[c] = Tail(script[c]) /\ serves' = serves
      BY <1>7, <2>5, <2>7
    <2>8. CASE script'[c] = <<>> /\ serves' = serves
      BY <1>10, <2>5, <2>8
    <2> QED BY <2>3, <2>6, <2>7, <2>8
  <1> QED BY <1>8, <1>9, <1>11, <1>12, <1>13, <1>14, <1>15, <1>16 DEF Server

-----------------------------------------------------------------------------
(***************************************************************************)
(* The tokenizer, wherever the client is.                                  *)
(***************************************************************************)
LEMMA SoundKept ==
  ASSUME NEW c, Sound(c), conn'[c] = "up" => conn[c] = "up", Quiet(c) \/ Taken(c),
         \/ torn'[c] # "token"
         \/ Quiet(c) /\ torn'[c] = torn[c] /\ script'[c] = script[c]
         \/ Quiet(c) /\ Down(c) > 0
  PROVE  Sound(c)'
  <1>1. SUFFICES ASSUME conn'[c] = "up"
                 PROVE  /\ (\A i \in 1..Down(c) : Told(c, i) \notin Parts)'
                        /\ torn'[c] = "token" => Down(c)' > 0 \/ script'[c] = Greeting
    BY DEF Sound, Greeting
  <1>2. /\ \A i \in 1..Down(c) : Told(c, i) \notin Parts
        /\ torn[c] = "token" => Down(c) > 0 \/ script[c] = Greeting
    BY <1>1 DEF Sound
  <1>3. CASE Quiet(c)
    BY <1>2, <1>3 DEF Quiet, Parts
  <1>4. CASE Taken(c) /\ torn'[c] # "token"
    <2>1. ASSUME NEW i \in 1..Down(c)' PROVE Told(c, i)' \notin Parts
      <3>1. i \in 1..Down(c) - 1 /\ i + 1 \in 1..Down(c)
        BY <1>4 DEF Taken
      <3>2. Told(c, i)' = Told(c, i + 1)
        BY <1>4, <3>1 DEF Taken
      <3> QED BY <1>2, <3>1, <3>2
    <2> QED BY <1>4, <2>1 DEF Parts
  <1> QED BY <1>3, <1>4

\* What the server says is whole.
LEMMA SoundAdded ==
  ASSUME NEW c, Sound(c), conn'[c] = "up" => conn[c] = "up", NEW w, Added(c, w), w \notin Parts
  PROVE  Sound(c)'
  <1>1. SUFFICES ASSUME conn'[c] = "up"
                 PROVE  (\A i \in 1..Down(c) : Told(c, i) \notin Parts)' /\ Down(c)' > 0
    BY DEF Sound
  <1>2. \A i \in 1..Down(c) : Told(c, i) \notin Parts
    BY <1>1 DEF Sound
  <1>3. ASSUME NEW i \in 1..Down(c)' PROVE Told(c, i)' \notin Parts
    <2>1. i \in 1..Down(c) \/ i = Down(c) + 1
      BY DEF Added
    <2> QED BY <1>2, <2>1 DEF Added
  <1> QED BY <1>3 DEF Added, Parts

\* A connection that is down has nothing to be kept.
LEMMA SoundDown ==
  ASSUME NEW c, conn'[c] # "up"
  PROVE  Sound(c)'
  BY DEF Sound

\* The client tears nothing: what it reads in part was the last of a connection
\* that is gone.
LEMMA SoundClient ==
  ASSUME TypeInv, \A c \in Conn : Sound(c), Client
  PROVE  \A c \in Conn : Sound(c)'
  <1>1. NetTyped /\ ConnTyped /\ ServerTyped
    BY DEF TypeInv
  <1>2. ASSUME NEW c \in Conn, Reach(c) PROVE \A d \in Conn : Sound(d)'
    <2>1. ASSUME NEW d \in Conn \ {c} PROVE Sound(d)'
      <3>1. toC'[d] = toC[d] /\ conn'[d] = conn[d] /\ torn'[d] = torn[d] /\ script'[d] = script[d]
        BY <1>1, <1>2 DEF Reach, NetTyped, ConnTyped, ServerTyped
      <3> QED BY <3>1, QuietFacts, SoundKept
    <2>2. toC'[c] = <<>> /\ (conn'[c] = "up" => script'[c] = Greeting)
      BY <1>1, <1>2 DEF Reach, NetTyped, ConnTyped, ServerTyped
    <2>3. Down(c)' = 0
      BY <2>2 DEF Down
    <2>4. \A i \in 1..Down(c)' : FALSE
      BY <2>3
    <2>5. Sound(c)'
      BY <2>2, <2>4 DEF Sound
    <2> QED BY <2>1, <2>5
  <1>3. ASSUME NEW c \in Conn, SendStep(c) \/ Auth(c) \/ Receive(c) \/ Contents(c)
        PROVE  \A d \in Conn : Sound(d)'
    <2>1. /\ torn' = torn /\ script' = script
          /\ conn' = conn \/ conn' = [conn EXCEPT ![c] = "reset"]
          /\ toC' = toC \/ (toC[c] # <<>> /\ torn[c] = "out" /\ Consume(c))
      BY <1>3 DEF SendStep, Auth, Receive, Contents, Deliver, Readable, server
    <2>2. \A d \in Conn : conn'[d] = "up" => conn[d] = "up"
      BY <1>1, <2>1 DEF ConnTyped
    <2>3. CASE toC' = toC
      BY <2>1, <2>2, <2>3, QuietFacts, SoundKept
    <2>4. CASE toC[c] # <<>> /\ torn[c] = "out" /\ Consume(c)
      <3>1. Taken(c) /\ \A d \in Conn \ {c} : Quiet(d)
        BY <1>1, <2>4, TakenFacts
      <3>2. Sound(c)'
        BY <2>1, <2>2, <2>4, <3>1, SoundKept
      <3>3. \A d \in Conn \ {c} : Sound(d)'
        BY <2>1, <2>2, <3>1, SoundKept
      <3> QED BY <3>2, <3>3
    <2> QED BY <2>1, <2>3, <2>4
  <1>4. ASSUME NEW c \in Conn, Eod(c) \/ GarbledToken(c) PROVE \A d \in Conn : Sound(d)'
    <2>1. toC' = toC /\ conn' = conn /\ torn' = torn /\ script' = script
      BY <1>4 DEF Eod, GarbledToken, net, server
    <2> QED BY <2>1, QuietFacts, SoundKept
  <1>5. ASSUME NEW c \in Conn, ReadPart(c) PROVE \A d \in Conn : Sound(d)'
    <2>1. /\ conn' = conn /\ script' = script /\ toC[c] # <<>> /\ Head(toC[c]).is \in Parts
          /\ Consume(c) /\ \A d \in Conn \ {c} : torn'[d] = torn[d]
      BY <1>1, <1>5 DEF ReadPart, server, ConnTyped
    <2>2. \A d \in Conn \ {c} : Sound(d)'
      BY <1>1, <2>1, TakenFacts, SoundKept
    <2>3. Told(c, 1) \in Parts /\ 1 \in 1..Down(c)
      BY <1>1, <2>1, NetFacts
    <2>4. conn'[c] # "up"
      BY <2>1, <2>3 DEF Sound
    <2> QED BY <2>2, <2>4, SoundDown
  <1>6. ASSUME NEW c \in Conn, GarbledString(c) PROVE \A d \in Conn : Sound(d)'
    <2>1. /\ conn' = conn /\ script' = script /\ toC[c] # <<>> /\ torn[c] = "string"
          /\ \/ Consume(c) /\ torn' = torn
             \/ torn' = [torn EXCEPT ![c] = "token"] /\ toC' = toC
      BY <1>6 DEF GarbledString, Garbled, server
    <2>2. CASE Consume(c) /\ torn' = torn
      <3>1. Taken(c) /\ \A d \in Conn \ {c} : Quiet(d)
        BY <1>1, <2>1, <2>2, TakenFacts
      <3>2. Sound(c)'
        BY <2>1, <2>2, <3>1, SoundKept
      <3>3. \A d \in Conn \ {c} : Sound(d)'
        BY <2>1, <2>2, <3>1, SoundKept
      <3> QED BY <3>2, <3>3
    <2>3. CASE torn' = [torn EXCEPT ![c] = "token"] /\ toC' = toC
      <3>1. \A d \in Conn \ {c} : torn'[d] = torn[d]
        BY <1>1, <2>3 DEF ConnTyped
      <3>2. Down(c) > 0
        BY <1>1, <2>1, NetFacts
      <3>3. Sound(c)'
        BY <2>1, <2>3, <3>2, QuietFacts, SoundKept
      <3>4. \A d \in Conn \ {c} : Sound(d)'
        BY <2>1, <2>3, <3>1, QuietFacts, SoundKept
      <3> QED BY <3>3, <3>4
    <2> QED BY <2>1, <2>2, <2>3
  <1>7. CASE EditStep
    <2>1. /\ conn' = conn /\ torn' = torn /\ script' = script
          /\ toC["main"] # <<>> /\ torn["main"] = "out" /\ Consume("main")
      BY <1>7 DEF EditStep, Readable, server
    <2>2. "main" \in Conn
      BY DEF Conn
    <2>3. Taken("main") /\ \A d \in Conn \ {"main"} : Quiet(d)
      BY <1>1, <2>1, <2>2, TakenFacts
    <2>4. Sound("main")'
      BY <2>1, <2>2, <2>3, SoundKept
    <2>5. \A d \in Conn \ {"main"} : Sound(d)'
      BY <2>1, <2>3, SoundKept
    <2> QED BY <2>4, <2>5
  <1>8. CASE CloseShadow
    <2>1. /\ toC' = toC /\ torn' = torn /\ script' = script
          /\ \A d \in Conn : conn'[d] = "up" => conn[d] = "up"
      BY <1>1, <1>8 DEF CloseShadow, ConnTyped, server
    <2> QED BY <2>1, QuietFacts, SoundKept
  <1>9. CASE RepairStep \/ Save
    <2>1. toC' = toC /\ conn' = conn /\ torn' = torn /\ script' = script
      BY <1>9 DEF RepairStep, Save, net, server
    <2> QED BY <2>1, QuietFacts, SoundKept
  <1> QED BY <1>2, <1>3, <1>4, <1>5, <1>6, <1>7, <1>8, <1>9 DEF Client

\* Nor does the server; a connection that breaks is no longer up.
LEMMA SoundServer ==
  ASSUME TypeInv, OneEdit, \A c \in Conn : Sound(c), NEW c \in Conn, Server(c) \/ Cut(c)
  PROVE  \A d \in Conn : Sound(d)'
  <1>1. NetTyped /\ ConnTyped /\ ServerTyped
    BY DEF TypeInv
  <1>2. /\ conn[c] = "up" /\ torn' = torn
        /\ \A d \in Conn \ {c} : Quiet(d) /\ conn'[d] = conn[d] /\ script'[d] = script[d]
    BY ServerElsewhere
  <1>3. \A d \in Conn \ {c} : Sound(d)'
    BY <1>2, SoundKept
  <1>4. ASSUME Say(c) \/ SayAuth(c) \/ Refuse(c) \/ EditCommand(c) \/ CloseEdit(c) \/ AbortEdit(c)
        PROVE  Sound(c)'
    <2>1. PICK w : Tell(c, w) /\ w \notin Parts
      <3>1. CASE Say(c)
        <4>1. PICK v \in Variants(Head(script[c])) : Tell(c, v)
          BY <3>1 DEF Say
        <4>2. Head(script[c]) \in Said
          BY <3>1 DEF Say, Due
        <4>3. v \notin Parts
          BY <4>1, <4>2 DEF Variants, Said, Parts
        <4> QED BY <4>1, <4>3
      <3>2. CASE SayAuth(c) \/ Refuse(c) \/ EditCommand(c) \/ CloseEdit(c) \/ AbortEdit(c)
        BY <3>2 DEF SayAuth, Refuse, EditCommand, CloseEdit, AbortEdit, Parts
      <3> QED BY <1>4, <3>1, <3>2
    <2> QED BY <1>1, <1>2, <2>1, AddedFacts, SoundAdded
  <1>5. ASSUME Hear(c) PROVE Sound(c)'
    <2>1. toC' = toC /\ Waits(c)
      BY <1>5 DEF Hear
    <2>2. script[c] # Greeting
      <3>1. Greeting # <<>> /\ Head(Greeting) = "greeting"
        BY DEF Greeting
      <3> QED BY <2>1, <3>1 DEF Waits, Due, Heard
    <2>3. torn[c] = "token" => Down(c) > 0
      BY <1>2, <2>2 DEF Sound
    <2> QED BY <1>2, <2>1, <2>3, QuietFacts, SoundKept
  <1>6. ASSUME Cut(c) PROVE Sound(c)'
    <2>1. conn'[c] # "up"
      BY <1>1, <1>6 DEF Cut, ConnTyped
    <2> QED BY <2>1, SoundDown
  <1> QED BY <1>3, <1>4, <1>5, <1>6 DEF Server

-----------------------------------------------------------------------------
(***************************************************************************)
(* How the client comes to know that the server has ended the edit.        *)
(***************************************************************************)
LEMMA ClientEdit ==
  ASSUME Client
  PROVE  edit' = edit
  BY DEF Client, Reach, SendStep, Receive, Auth, Contents, EditStep, Eod, ReadPart, GarbledToken,
         GarbledString, CloseShadow, RepairStep, Save, server

\* An edit that has been brought to its end stays so.
LEMMA DoneStays ==
  ASSUME TypeInv, OneEdit, edit = "done", [Next]_vars
  PROVE  edit' = "done"
  <1>1. CASE Client
    BY <1>1, ClientEdit
  <1>2. ASSUME NEW c \in Conn, Server(c) \/ Cut(c) PROVE edit' = "done"
    <2>1. ~Due(c, {"edit"})
      <3>1. SUFFICES ASSUME Due(c, {"edit"}) PROVE FALSE
        OBVIOUS
      <3>2. script[c] \in Seq(Word)
        BY DEF TypeInv, ServerTyped
      <3>3. Head(script[c]) = script[c][1] /\ 1 \in 1..Len(script[c])
        BY <3>1, <3>2 DEF Due
      <3>4. Edits(c)
        BY <3>1, <3>3 DEF Due, Edits
      <3> QED BY <3>4 DEF OneEdit
    <2> QED BY <1>2, <2>1 DEF Server, Say, SayAuth, Refuse, EditCommand, CloseEdit, AbortEdit,
                              Hear, Cut
  <1>3. CASE UNCHANGED vars
    BY <1>3 DEF vars, server
  <1> QED BY <1>1, <1>2, <1>3 DEF Next, Done

\* The two steps that close the edit.
LEMMA AwaitAt ==
  ASSUME Good, ~Busy, Remaining \in {3, 4}
  PROVE  /\ Topic("main") = "update" /\ On(Remaining) = "main"
         /\ Remaining = 3 => Now("await") /\ Saying(3) = "ok" /\ Left("main") = 1
         /\ Remaining = 4 => Now("send") /\ Saying(4) = "success" /\ Left("main") = 2
         /\ ~Fetching
  <1>1. RunShape
    BY DEF Good, Shape, FetchShape, RepairShape, Fetching
  <1> QED BY <1>1 DEF RunShape, EditSteps, IsStep, Now, Topic, Left, RunLeft, RunTopic

\* The step the client is at.
LEMMA ClientAt ==
  ASSUME Client
  PROVE  \E c \in Conn :
           \/ At("connect", c) /\ Reach(c)
           \/ At("send", c) /\ SendStep(c)
           \/ (At("await", c) \/ At("challenge", c)) /\ Receive(c)
           \/ At("auth", c) /\ Auth(c)
           \/ At("contents", c) /\ Contents(c)
           \/ At("edit", c) /\ EditStep
           \/ At("close", c) /\ CloseShadow
           \/ At("repair", c) /\ RepairStep
           \/ At("save", c) /\ Save
           \/ Reading(c) /\ (Eod(c) \/ GarbledToken(c) \/ GarbledString(c))
           \/ (Reading(c) \/ At("contents", c)) /\ ReadPart(c)
  <1>1. "main" \in Conn /\ "shadow" \in Conn
    BY DEF Conn
  <1>2. CASE EditStep \/ CloseShadow \/ RepairStep \/ Save
    BY <1>1, <1>2 DEF EditStep, CloseShadow, RepairStep, Save
  <1>3. CASE \E c \in Conn : Reach(c) \/ SendStep(c) \/ Receive(c) \/ Auth(c) \/ Contents(c)
    BY <1>3 DEF Reach, SendStep, Receive, Auth, Contents
  <1>4. CASE \E c \in Conn : Eod(c) \/ ReadPart(c) \/ GarbledToken(c) \/ GarbledString(c)
    BY <1>4 DEF Eod, ReadPart, GarbledToken, GarbledString
  <1> QED BY <1>2, <1>3, <1>4 DEF Client

\* At the answer to the edit, the client goes on only with that answer.
LEMMA AwaitSteps ==
  ASSUME Good, TypeInv', Client, ~Busy, Remaining = 3
  PROVE  \/ outcome' # "running"
         \/ torn'["main"] # "out" /\ todo' = todo
         \/ torn["main"] = "out" /\ Down("main") > 0 /\ Told("main", 1) = "ok"
  <1>1. Now("await") /\ On(Remaining) = "main" /\ Saying(Remaining) = "ok"
    BY AwaitAt
  <1>2. \A d, c : At(d, c) => d = "await" /\ c = "main" /\ Step.what = "ok" /\ todo # <<>>
    BY <1>1, AtFacts DEF Now
  <1>3. Receive("main") \/ Eod("main") \/ ReadPart("main") \/ GarbledToken("main") \/ GarbledString("main")
    BY <1>2, ClientAt DEF Reading
  <1>4. Failed => outcome' # "running"
    <2>1. SUFFICES ASSUME Failed PROVE outcome' # "running"
      OBVIOUS
    <2>2. todo # <<>>
      BY <1>2, <1>3 DEF Receive, Eod, ReadPart, GarbledToken, GarbledString, Reading, Readable, At, Now,
                        Good
    <2>3. Failed => \/ outcome' = "failed" \/ Now("auth") \/ Now("challenge") \/ Busy
      BY <1>1, <2>2, FailedFacts DEF Good, TypeInv, Conn
    <2> QED BY <1>1, <2>1, <2>3 DEF Now
  <1>5. NetTyped /\ "main" \in Conn /\ torn \in [Conn -> {"out", "token", "string"}]
    BY DEF Good, TypeInv, ConnTyped, Conn
  <1>6. CASE Receive("main")
    <2>1. Readable("main") /\ (Head(toC["main"]).is = "ok" \/ Failed)
      BY <1>2, <1>6 DEF Receive
    <2> QED BY <1>4, <1>5, <2>1, NetFacts DEF Readable
  <1>7. CASE Eod("main") \/ GarbledToken("main")
    BY <1>4, <1>7 DEF Eod, GarbledToken
  <1>8. CASE ReadPart("main")
    BY <1>5, <1>8 DEF ReadPart, client
  <1>9. CASE GarbledString("main")
    BY <1>4, <1>9 DEF GarbledString
  <1> QED BY <1>3, <1>6, <1>7, <1>8, <1>9

\* When the client has said that the edit succeeded nothing is under way to it.
LEMMA SaySteps ==
  ASSUME Good, Client, ~Busy, Remaining = 4, torn'["main"] = "out"
  PROVE  Down("main")' = 0
  <1>1. Now("send") /\ On(Remaining) = "main" /\ Saying(Remaining) = "success"
        /\ Topic("main") = "update" /\ Left("main") = 2
    BY AwaitAt
  <1>2. \A d, c : At(d, c) => d = "send" /\ c = "main" /\ Step.what = "success"
    BY <1>1, AtFacts DEF Now
  <1>3. At("send", "main") /\ SendStep("main")
    BY <1>2, ClientAt DEF Reading
  <1>4. toC' = toC /\ torn["main"] = "out"
    BY <1>3 DEF SendStep
  <1>5. "main" \in Conn /\ Step.what \notin Requests
    BY <1>2, <1>3 DEF Conn, Requests
  <1>6. Links("main") /\ Counted("main")
    BY <1>3, <1>4, <1>5, FacingNow, CountedNow
  <1>7. Down("main") = 0
    <2>1. Item("update", 2) \in Heard
      BY DialogTable DEF Heard
    <2> QED BY <1>1, <1>6, <2>1, NothingComing DEF Links
  <1> QED BY <1>4, <1>7 DEF Down

\* No step comes to the end of the run but through those two.
LEMMA LongSteps ==
  ASSUME Good, TypeInv', GoodNext, Client, ~Busy, Remaining > 3, outcome' = "running"
  PROVE  ~Busy' /\ Remaining' >= 3 /\ (Remaining' = 3 => Remaining = 4)
  <1>1. todo # <<>> /\ Remaining \in Nat /\ Shape /\ ClientTyped /\ Shape'
    BY Moves DEF Good, GoodNext, TypeInv
  <1>2. CASE Advance
    <2>1. Shorter
      BY <1>1, <1>2, Popped DEF Advance
    <2>2. Busy' <=> Busy /\ Remaining > 2
      BY <1>1, <2>1, PopShape
    <2> QED BY <2>1, <2>2 DEF Shorter
  <1>3. CASE todo' = todo
    <2>1. Remaining' = Remaining
      BY <1>3 DEF Remaining
    <2>2. Saying(2)' = Saying(2)
      BY <1>3, <2>1 DEF Saying, Back
    <2> QED BY <1>1, <2>1, <2>2 DEF Busy
  <1>4. CASE ToFetch
    <2>1. Now("edit")
      BY <1>4, AtFacts DEF ToFetch
    <2>2. PICK f \in File : todo' = GetFile("shadow", f) \o todo
      BY <1>4 DEF ToFetch
    <2> QED BY <1>1, <2>1, <2>2, FetchPushed
  <1>5. CASE ToRepair
    <2>1. Now("repair")
      BY <1>5, AtFacts DEF ToRepair
    <2> QED BY <1>1, <2>1, RepairAt
  <1>6. CASE todo' = <<>>
    <2>1. Remaining' = 0
      BY <1>6 DEF Remaining
    <2> QED BY <1>1, <2>1 DEF Shape
  <1>7. CASE Failed /\ On(Remaining) \in Conn
    <2>1. PICK c \in Conn : On(Remaining) = c
      BY <1>7
    <2>2. /\ Shape' /\ ~Busy' /\ \A d \in Conn \ {c} : Stays(d)
          /\ Topic(c) = "get-file" /\ Left(c) = 4
      BY <1>1, <1>7, <2>1, FailedFacts
    <2>3. c = "shadow" /\ Fetching
      BY <1>1, <2>2 DEF Topic, RunTopic, Conn
    <2>4. Left("main")' = 3
      BY <2>2, <2>3 DEF Stays, Left, Conn
    <2>5. Remaining' \in Nat
      BY DEF TypeInv, ClientTyped, Remaining
    <2>6. Remaining' > 3
      <3>1. CASE Fetching'
        BY <2>5, <3>1 DEF Fetching
      <3>2. CASE ~Fetching'
        <4>1. RunLeft(Remaining)' = 3
          BY <2>2, <2>4, <3>2 DEF Left
        <4>2. Remaining' <= 3 => RunLeft(Remaining)' # 3
          BY <2>5 DEF RunLeft
        <4> QED BY <2>5, <4>1, <4>2
      <3> QED BY <3>1, <3>2
    <2> QED BY <2>2, <2>5, <2>6
  <1>8. CASE Answering /\ Now("auth")
    <2>1. Swapped(Remaining)
      BY <1>1, <1>8, SwappedFacts DEF Answering
    <2>2. PICK n : n = Remaining /\ Swapped(n)
      BY <2>1
    <2>3. Busy' <=> Busy
      BY <1>1, <2>2, SwappedShape
    <2> QED BY <1>1, <2>2, <2>3 DEF Swapped
  <1> QED BY <1>2, <1>3, <1>4, <1>5, <1>6, <1>7, <1>8, Moves DEF Paused

\* The parts of Ending, before a step and after it.
LEMMA EndingIs ==
  Ending <=> /\ outcome = "running" /\ EndHeard => edit = "done"
             /\ outcome = "running" /\ (Busy \/ Remaining <= 2) => edit = "done"
             /\ outcome = "recorded" => edit = "done"
  BY DEF Ending

LEMMA EndingIsNext ==
  Ending' <=> /\ outcome' = "running" /\ EndHeard' => edit' = "done"
              /\ outcome' = "running" /\ (Busy \/ Remaining <= 2)' => edit' = "done"
              /\ outcome' = "recorded" => edit' = "done"
  BY DEF Ending

\* The client takes nothing else for the end of the edit.
LEMMA EndingClient ==
  ASSUME Good, TypeInv', GoodNext, Ending, Client, edit # "done"
  PROVE  Ending'
  <1>1. ~Busy /\ Remaining > 2 /\ ~EndHeard
    <2>1. outcome = "running" /\ Remaining \in Nat
      BY Moves DEF Good
    <2> QED BY <2>1, EndingIs
  <1>2. Remaining \in Nat /\ Remaining' \in Nat
    BY Moves DEF TypeInv, ClientTyped, Remaining
  <1>3. outcome' # "recorded"
    <2>1. ~Now("save")
      BY <1>1, <1>2, SaveAt DEF Good
    <2>2. \A c : ~At("save", c)
      BY <2>1, AtFacts
    <2>3. Failed \/ UNCHANGED outcome
      BY <2>2, ClientAt DEF Reach, SendStep, Receive, Auth, Contents, EditStep, CloseShadow,
                            RepairStep, Eod, ReadPart, GarbledToken, GarbledString, Advance, client
    <2> QED BY <2>3 DEF Failed, Good
  <1>4. SUFFICES ASSUME outcome' = "running" PROVE ~EndHeard' /\ ~Busy' /\ Remaining' > 2
    BY <1>2, <1>3, EndingIsNext
  <1>5. CASE Remaining = 3
    <2>1. torn'["main"] # "out" /\ todo' = todo
      BY <1>1, <1>4, <1>5, AwaitSteps, AwaitAt DEF EndHeard
    <2>2. Remaining' = Remaining
      BY <2>1 DEF Remaining
    <2>3. Saying(2)' = Saying(2)
      BY <2>1, <2>2 DEF Saying, Back
    <2> QED BY <1>1, <1>5, <2>1, <2>2, <2>3 DEF Busy, EndHeard
  <1>6. CASE Remaining > 3
    <2>1. ~Busy' /\ Remaining' >= 3 /\ (Remaining' = 3 => Remaining = 4)
      BY <1>1, <1>4, <1>6, LongSteps
    <2>2. EndHeard' => Remaining' = 3
      <3>1. SUFFICES ASSUME EndHeard' PROVE Remaining' = 3
        OBVIOUS
      <3>2. ~Fetching' /\ RunLeft(Remaining)' = 1 /\ RunTopic(Remaining)' = "update"
        BY <2>1, <3>1 DEF EndHeard, Left, Topic
      <3>3. Remaining' <= 15
        BY <1>2, <3>2 DEF RunTopic
      <3> QED BY <1>2, <2>1, <3>2, <3>3 DEF RunLeft
    <2>3. ~EndHeard'
      <3>1. SUFFICES ASSUME EndHeard' PROVE FALSE
        OBVIOUS
      <3>2. Remaining = 4 /\ torn'["main"] = "out" /\ Down("main")' > 0
        BY <2>1, <2>2, <3>1 DEF EndHeard
      <3>3. Down("main")' = 0
        BY <1>1, <3>2, SaySteps
      <3> QED BY <3>2, <3>3
    <2> QED BY <1>2, <2>1, <2>3
  <1> QED BY <1>1, <1>2, <1>5, <1>6

\* What a broken connection brings begins as it would have begun, or is torn.
LEMMA CutFirst ==
  ASSUME NetTyped, NEW c \in Conn, Cut(c), Down(c)' > 0
  PROVE  Down(c) > 0 /\ (Told(c, 1)' = Told(c, 1) \/ Told(c, 1)' \in Parts)
  <1>1. PICK q \in Seq(Answer) : q = toC[c]
    BY DEF NetTyped
  <1>2. Len(q) \in Nat /\ Down(c) = Len(q)
    BY <1>1 DEF Down
  <1>3. PICK k \in 0..Len(q) :
          \/ toC'[c] = SubSeq(q, 1, k)
          \/ /\ k < Len(q)
             /\ \E p \in Parts :
                  toC'[c] = Append(SubSeq(q, 1, k), [q[k + 1] EXCEPT !.is = p])
    BY <1>1 DEF Cut, NetTyped
  <1>4. /\ SubSeq(q, 1, k) \in Seq(Answer) /\ Len(SubSeq(q, 1, k)) = k
        /\ \A i \in 1..k : SubSeq(q, 1, k)[i] = q[i]
    BY <1>2, <1>3
  <1>5. CASE toC'[c] = SubSeq(q, 1, k)
    <2>1. k > 0
      BY <1>4, <1>5 DEF Down
    <2>2. toC'[c][1] = q[1]
      BY <1>4, <1>5, <2>1
    <2> QED BY <1>1, <1>2, <1>3, <2>1, <2>2 DEF Told
  <1>6. ASSUME k < Len(q), NEW p \in Parts,
               toC'[c] = Append(SubSeq(q, 1, k), [q[k + 1] EXCEPT !.is = p])
        PROVE  Down(c) > 0 /\ (Told(c, 1)' = Told(c, 1) \/ Told(c, 1)' \in Parts)
    <2> DEFINE m == [q[k + 1] EXCEPT !.is = p]
    <2>1. k + 1 \in 1..Len(q) /\ q[k + 1] \in Answer
      BY <1>2, <1>3, <1>6
    <2>2. m.is = p
      BY <2>1 DEF Answer
    <2>3. toC'[c] = Append(SubSeq(q, 1, k), m)
      BY <1>6
    <2> HIDE DEF m
    <2>4. PICK r \in Seq(Answer) : r = SubSeq(q, 1, k) /\ Len(r) = k /\ \A i \in 1..k : r[i] = q[i]
      BY <1>4
    <2>5. /\ Len(Append(r, m)) = k + 1 /\ Append(r, m)[k + 1] = m
          /\ \A i \in 1..k : Append(r, m)[i] = q[i]
      BY <1>3, <2>4
    <2>6. toC'[c][1] = m \/ toC'[c][1] = q[1]
      <3>1. CASE k = 0
        BY <2>3, <2>4, <2>5, <3>1
      <3>2. CASE k # 0
        BY <1>3, <2>3, <2>4, <2>5, <3>2
      <3> QED BY <3>1, <3>2
    <2> QED BY <1>1, <1>2, <2>1, <2>2, <2>6 DEF Told
  <1> QED BY <1>3, <1>5, <1>6

\* The word that ends the edit is said at its place only.
LEMMA SaidEnd ==
  ASSUME Good, Links("main"), Down("main") = 0, Left("main") = 1, Topic("main") = "update",
         Server("main") \/ Cut("main"), Down("main")' > 0, Told("main", 1)' = "ok"
  PROVE  edit' = "done"
  <1>1. NetTyped /\ ConnTyped /\ ServerTyped /\ "main" \in Conn /\ toC["main"] = <<>>
        /\ Counted("main") /\ conn["main"] = "up"
    <2>1. NetTyped /\ ConnTyped /\ ServerTyped /\ "main" \in Conn
      BY DEF Good, TypeInv, Conn
    <2>2. conn["main"] = "up"
      BY DEF Server, Say, SayAuth, Refuse, EditCommand, CloseEdit, AbortEdit, Hear, Cut, Serving
    <2> QED BY <2>1, <2>2, NetFacts, CountedNow
  <1>2. \A w : Tell("main", w) => w = "ok"
    <2>1. ASSUME NEW w, Tell("main", w) PROVE w = "ok"
      <3>1. Added("main", w)
        BY <1>1, <2>1, AddedFacts
      <3>2. 1 = Down("main") + 1
        OBVIOUS
      <3> QED BY <3>1, <3>2 DEF Added
    <2> QED BY <2>1
  <1>3. ~Hear("main") /\ ~Cut("main")
    <2>1. Hear("main") => toC' = toC
      BY DEF Hear
    <2>2. ~Cut("main")
      BY <1>1, CutFirst
    <2> QED BY <1>1, <2>1, <2>2 DEF Down
  <1>4. Say("main")
    BY <1>2, <1>3 DEF Server, SayAuth, Refuse, EditCommand, CloseEdit, AbortEdit
  <1>5. Head(script["main"]) = "ok" /\ Due("main", Said \cup {"auth"})
    <2>1. Due("main", Said) /\ \E w \in Variants(Head(script["main"])) : Tell("main", w)
      BY <1>4 DEF Say
    <2> QED BY <1>2, <2>1 DEF Due, Variants
  <1>6. serves["main"].what = "update"
    <2>1. serves["main"] = asked["main"]
      BY <1>1, <1>5, Speaking DEF Links
    <2> QED BY <1>1, <2>1 DEF Good, Known
  <1>7. script["main"] = Rest("update", 1)
    <2>1. PICK s \in 1..Length("update") :
            script["main"] = Rest("update", s) /\ Head(script["main"]) = Item("update", s)
      <3>1. Length(Topic("main")) = 7
        BY DialogTable
      <3>2. \/ \E s \in 1..Length(Topic("main")) :
                 script["main"] = Rest(Topic("main"), s) /\ Head(script["main"]) = Item(Topic("main"), s)
            \/ \E s \in 1..Length(Topic("main")) - 1 : Left("main") = s + 1
        BY <1>1, <1>5, Speaking DEF Links
      <3>3. ~\E s \in 1..Length(Topic("main")) - 1 : Left("main") = s + 1
        BY <3>1
      <3> QED BY <3>2, <3>3
    <2>2. s = 1
      BY <1>5, <2>1, ItemFacts DEF Topics, Requests
    <2> QED BY <2>1, <2>2
  <1>8. script["main"] = <<"ok">>
    <2>1. Rest("update", 1) \in Seq(Word) /\ Len(Rest("update", 1)) = 1
      <3>1. "update" \in Topics /\ 1 \in 1..Length("update")
        BY DialogTable DEF Topics, Requests
      <3> QED BY <3>1, RestFacts
    <2>2. \A q \in Seq(Word) : Len(q) = 1 => q = <<Head(q)>>
      OBVIOUS
    <2> QED BY <1>5, <1>7, <2>1, <2>2
  <1> QED BY <1>4, <1>6, <1>8 DEF Say

\* The server says the end of the edit when it has brought it there.
LEMMA EndingServer ==
  ASSUME Good, OneEdit, Ending, NEW c \in Conn, Server(c) \/ Cut(c), edit # "done"
  PROVE  Ending'
  <1>1. /\ outcome = "running" /\ conn[c] = "up" /\ UNCHANGED client /\ torn' = torn
        /\ \A d \in Conn \ {c} : Quiet(d)
    BY ServerElsewhere DEF Good
  <1>2. /\ Topic("main")' = Topic("main") /\ Left("main")' = Left("main") /\ outcome' = "running"
        /\ (Busy' <=> Busy) /\ Remaining' = Remaining
    BY <1>1, ClientStandsFacts DEF ClientStands, client, Remaining
  <1>3. ~Busy /\ ~(Remaining <= 2) /\ ~EndHeard
    BY <1>1, EndingIs
  <1>4. SUFFICES ASSUME EndHeard' PROVE edit' = "done"
    BY <1>2, <1>3, EndingIsNext
  <1>5. /\ torn["main"] = "out" /\ Topic("main") = "update" /\ Left("main") = 1
        /\ Down("main")' > 0 /\ Told("main", 1)' = "ok"
    BY <1>1, <1>2, <1>4 DEF EndHeard
  <1>6. CASE c # "main"
    <2>1. Quiet("main")
      BY <1>1, <1>6 DEF Conn
    <2> QED BY <1>3, <1>5, <2>1 DEF Quiet, EndHeard
  <1>7. CASE c = "main" /\ Down("main") = 0
    <2>1. Used("main")
      BY <1>3 DEF Used, Good, TypeInv, ClientTyped, Remaining
    <2>2. Links("main")
      BY <1>1, <1>5, <2>1 DEF Good, Linked, Conn
    <2> QED BY <1>5, <1>7, <2>2, SaidEnd
  <1>8. CASE c = "main" /\ Down("main") # 0
    <2>1. NetTyped /\ ConnTyped /\ Down("main") \in Nat /\ Down("main") > 0 /\ Down("main") = Len(toC["main"])
      BY <1>8, NetFacts DEF Good, TypeInv, Down
    <2>2. Told("main", 1)' = Told("main", 1)
      <3>1. ASSUME NEW w, Tell("main", w) PROVE Told("main", 1)' = Told("main", 1)
        BY <1>8, <2>1, <3>1, AddedFacts DEF Added
      <3>2. CASE Say(c) \/ SayAuth(c) \/ Refuse(c) \/ EditCommand(c) \/ CloseEdit(c) \/ AbortEdit(c)
        BY <1>8, <3>1, <3>2 DEF Say, SayAuth, Refuse, EditCommand, CloseEdit, AbortEdit
      <3>3. CASE Hear(c)
        BY <3>3 DEF Hear, Told
      <3>4. CASE Cut(c)
        BY <1>5, <1>8, <2>1, <3>4, CutFirst DEF Parts
      <3> QED BY <3>2, <3>3, <3>4 DEF Server
    <2> QED BY <1>3, <1>5, <2>1, <2>2 DEF EndHeard
  <1> QED BY <1>6, <1>7, <1>8

-----------------------------------------------------------------------------
(***************************************************************************)
(* The inductive invariant.                                                *)
(***************************************************************************)
Inv ==
  /\ TypeInv /\ Over /\ OneEdit /\ Ending
  /\ outcome = "running" => Shape /\ Known /\ \A c \in Conn : Linked(c)
  /\ \A c \in Conn : Sound(c)

\* The parts of the invariant, before a step and after it.
LEMMA InvIs ==
  Inv <=> /\ TypeInv /\ Over /\ OneEdit /\ Ending /\ (\A c \in Conn : Sound(c))
          /\ outcome = "running" => Good
  BY DEF Inv, Good

LEMMA InvNextIs ==
  Inv' <=> /\ TypeInv' /\ Over' /\ OneEdit' /\ Ending' /\ (\A c \in Conn : Sound(c)')
           /\ GoodNext
  BY DEF Inv, GoodNext

\* It holds when a run starts.
LEMMA InvInit == Init => Inv
  <1> SUFFICES ASSUME Init PROVE Inv
    OBVIOUS
  <1>1. TypeInv /\ outcome = "running" /\ edit = "none"
    BY TypeInit DEF Init
  <1>2. Shape /\ Known /\ ~Busy /\ ~Now("challenge")
    BY InitShape
  <1>3. \A c \in Conn : toC[c] = <<>> /\ toS[c] = <<>> /\ script[c] = <<>> /\ conn[c] = "none" /\ serves[c] = SetUp
    BY DEF Init
  <1>4. \A c \in Conn : Down(c) = 0 /\ Up(c) = 0 /\ Len(script[c]) = 0
    BY <1>3 DEF Down, Up
  <1>5. \A c \in Conn : Linked(c) /\ Sound(c)
    BY <1>3, <1>4 DEF Linked, Links, Coming, Sound
  <1>6. OneEdit
    <2>1. \A c \in Conn : (\A i : ~Asks(c, i)) /\ ~Edits(c)
      BY <1>4 DEF Asks, Edits
    <2>2. \A c \in Conn : serves[c].what # "update"
      BY <1>3 DEF SetUp, Asking
    <2> QED BY <1>1, <2>1, <2>2 DEF OneEdit, Conn
  <1>7. Ending
    <2>1. ~EndHeard
      BY <1>4 DEF EndHeard, Conn
    <2>2. Remaining \in Nat /\ ~(Remaining <= 2)
      BY ProgramSize, BackNow
    <2> QED BY <1>1, <1>2, <2>1, <2>2, EndingIs
  <1>8. Over
    BY <1>1 DEF Over
  <1> QED BY <1>1, <1>2, <1>5, <1>6, <1>7, <1>8 DEF Inv

\* Every step of the client keeps both links.
LEMMA ClientGood ==
  ASSUME Good, TypeInv', Client
  PROVE  GoodNext
  <1>1. CASE \E c \in Conn : Reach(c) \/ SendStep(c) \/ Receive(c) \/ Auth(c) \/ Contents(c)
    BY <1>1, ReachGood, SendGoodStep, ReceiveGood, AuthGood, ContentsGood
  <1>2. CASE \E c \in Conn : Eod(c) \/ ReadPart(c) \/ GarbledToken(c) \/ GarbledString(c)
    BY <1>2, BrokenGood
  <1>3. CASE EditStep \/ CloseShadow \/ RepairStep \/ Save
    BY <1>3, EditGood, CloseGood, EndGood
  <1> QED BY <1>1, <1>2, <1>3 DEF Client

\* A run that is over takes no step.
LEMMA Running ==
  ASSUME Over, Client \/ \E c \in Conn : Server(c) \/ Cut(c)
  PROVE  outcome = "running"
  <1>1. CASE Client
    BY <1>1, ClientAt DEF At, Over, Reading
  <1>2. CASE \E c \in Conn : Server(c) \/ Cut(c)
    BY <1>2 DEF Server, Say, SayAuth, Refuse, EditCommand, CloseEdit, AbortEdit, Hear, Cut, Serving
  <1> QED BY <1>1, <1>2

\* With the edit at its end there is nothing more to know.
LEMMA DoneEnding ==
  ASSUME edit' = "done"
  PROVE  Ending'
  BY EndingIsNext

\* A step that changes nothing keeps everything.
LEMMA StutterGood ==
  ASSUME Good, TypeInv', UNCHANGED vars
  PROVE  GoodNext
  <1>1. /\ UNCHANGED client /\ torn' = torn /\ conn' = conn /\ toC' = toC /\ toS' = toS
        /\ script' = script /\ serves' = serves /\ edit' = edit /\ asked' = asked
    BY DEF vars, client, net, server
  <1>2. \A d \in Conn : ClientStands(d)
    BY <1>1, ClientStandsFacts
  <1>3. Shape'
    BY <1>1, ShapeStands DEF Good, client
  <1>4. Known'
    BY <1>2 DEF Good, Known, ClientStands
  <1>5. ASSUME NEW d \in Conn PROVE Linked(d)'
    <2>1. SUFFICES ASSUME outcome' = "running", Used(d)', torn'[d] = "out" PROVE Links(d)'
      BY DEF Linked
    <2>2. ClientStands(d) /\ Quiet(d) /\ Still(d)
      BY <1>1, <1>2, QuietFacts
    <2>3. Links(d)
      BY <1>1, <2>1, <2>2 DEF Good, Linked, ClientStands
    <2>4. Counted(d) /\ Counted(d)'
      BY <1>3, CountedNow, CountedNext
    <2>5. Challenged(d) => Left(d) > 0
      <3>1. SUFFICES ASSUME At("challenge", d) PROVE Left(d) > 0
        BY DEF Challenged
      <3>2. Left(d) \in 1..Length(Topic(d)) /\ Topic(d) \in Topics
        BY <3>1, FacesAt DEF Faces
      <3> QED BY <3>2, DialogTyped
    <2>6. Stays(d)
      BY <2>2 DEF Stays, ClientStands
    <2>7. Unmoved(d)
      BY <1>1, <2>2, <2>5, <2>6 DEF Unmoved, ClientStands
    <2> QED BY <2>3, <2>4, <2>7, UnmovedLinks
  <1> QED BY <1>3, <1>4, <1>5 DEF GoodNext

LEMMA InvStutter ==
  ASSUME Inv, UNCHANGED vars
  PROVE  Inv'
  <1>1. /\ UNCHANGED client /\ outcome' = outcome /\ torn' = torn /\ conn' = conn /\ toC' = toC /\ toS' = toS
        /\ script' = script /\ serves' = serves /\ edit' = edit
    BY DEF vars, client, net, server
  <1>2. TypeInv' /\ Over'
    BY TypeStutter, OverNext, InvIs
  <1>3. GoodNext
    BY <1>1, <1>2, StutterGood, InvIs DEF GoodNext
  <1>4. OneEdit'
    <2>1. outcome' = "running" /\ Early' => outcome = "running" /\ Early
      BY <1>1, EarlyStands
    <2>2. \A c \in Conn : (\A i : Asks(c, i)' => Asks(c, i)) /\ (Edits(c)' => Edits(c))
      BY <1>1, QuietFacts, AsksStay, EditsAre
    <2> QED BY <1>1, <2>1, <2>2, KeptOneEdit, InvIs
  <1>5. \A c \in Conn : Sound(c)'
    BY <1>1, QuietFacts, SoundKept, InvIs
  <1>6. Ending'
    <2>1. /\ Topic("main")' = Topic("main") /\ Left("main")' = Left("main")
          /\ (Busy' <=> Busy) /\ Remaining' = Remaining
      BY <1>1, ClientStandsFacts DEF ClientStands, client, Remaining
    <2>2. EndHeard' <=> EndHeard
      BY <1>1, <2>1 DEF EndHeard, Down, Told
    <2> QED BY <1>1, <2>1, <2>2, EndingIs, EndingIsNext, InvIs
  <1> QED BY <1>2, <1>3, <1>4, <1>5, <1>6, InvNextIs

\* The invariant is inductive.
LEMMA InvNext == Inv /\ [Next]_vars => Inv'
  <1> SUFFICES ASSUME Inv, [Next]_vars PROVE Inv'
    OBVIOUS
  <1>1. TypeInv /\ Over /\ OneEdit /\ Ending /\ (\A c \in Conn : Sound(c))
    BY InvIs
  <1>2. TypeInv' /\ Over'
    BY <1>1, TypeNext, OverNext
  <1>3. edit = "done" => Ending'
    BY <1>1, DoneStays, DoneEnding
  <1>4. CASE Client
    <2>1. Good
      BY <1>1, <1>4, Running, InvIs
    <2>2. GoodNext
      BY <1>2, <1>4, <2>1, ClientGood
    <2>3. OneEdit'
      BY <1>1, <1>2, <1>4, <2>1, OneEditClient
    <2>4. Ending'
      BY <1>1, <1>2, <1>3, <1>4, <2>1, <2>2, EndingClient
    <2>5. \A c \in Conn : Sound(c)'
      BY <1>1, <1>4, SoundClient
    <2> QED BY <1>2, <2>2, <2>3, <2>4, <2>5, InvNextIs
  <1>5. ASSUME NEW c \in Conn, Server(c) \/ Cut(c) PROVE Inv'
    <2>1. Good
      BY <1>1, <1>5, Running, InvIs
    <2>2. GoodNext
      BY <1>1, <1>2, <1>5, <2>1, ServerGood
    <2>3. OneEdit'
      BY <1>1, <1>5, OneEditServer
    <2>4. Ending'
      BY <1>1, <1>3, <1>5, <2>1, EndingServer
    <2>5. \A d \in Conn : Sound(d)'
      BY <1>1, <1>5, SoundServer
    <2> QED BY <1>2, <2>2, <2>3, <2>4, <2>5, InvNextIs
  <1>6. CASE UNCHANGED vars
    BY <1>6, InvStutter
  <1> QED BY <1>4, <1>5, <1>6 DEF Next, Done

\* It holds in every state of every run.
LEMMA InvAlways == Spec => []Inv
  BY InvInit, InvNext, PTL DEF Spec

-----------------------------------------------------------------------------
(***************************************************************************)
(* A revision is recorded only after an edit that the server has brought to*)
(* its end: run of main.c saves the revision last, after the answer that   *)
(* svnproto_update awaits when close-edit has been answered with success.  *)
(* For every number of files, edit commands and broken connections.        *)
(***************************************************************************)
THEOREM RecordedAfterEdit == Spec => []RecordedMeansDone
  <1>1. Inv => RecordedMeansDone
    BY EndingIs DEF Inv, RecordedMeansDone
  <1> QED BY <1>1, InvAlways, PTL

\* What the client takes from a connection is always an answer to the request it is
\* at on that connection, however often requests have failed or been repeated
\* (svnproto_command_response, svnproto_check_auth and get_file of svnproto.c): InStep.
THEOREM AnswersInStep == Spec => InStep
  <1>1. ASSUME Inv, [Next]_vars
        PROVE  [\A c \in Conn : Takes(c) => Head(toC[c]).for = asked[c]]_vars
    <2>1. SUFFICES ASSUME NEW c \in Conn, Takes(c) PROVE Head(toC[c]).for = asked[c]
      OBVIOUS
    <2>2. PICK d \in {"await", "auth", "challenge", "contents", "edit"} : At(d, c)
      BY <2>1 DEF Takes, Reading
    <2>3. Good
      BY <1>1, <2>2, InvIs DEF At, Over
    <2>4. torn[c] = "out" /\ toC[c] # <<>> /\ Faces(c)
      BY <2>1, <2>2, <2>3, FacesAt DEF Takes, Readable
    <2>5. NetTyped
      BY <2>3 DEF Good, TypeInv
    <2>6. Down(c) >= 1 /\ Head(toC[c]).for = About(c, 1)
      BY <2>4, <2>5, NetFacts
    <2> QED BY <2>4, <2>6, ComingFirst DEF Faces, Links
  <1> QED BY <1>1, InvAlways, PTL DEF InStep, Spec

-----------------------------------------------------------------------------
(***************************************************************************)
(* The two ends of a connection that wait for each other.                  *)
(***************************************************************************)
LEMMA ReadsNext ==
  ASSUME Good, NEW c \in Conn, Reading(c) \/ At("contents", c)
  PROVE  Faces(c) /\ Item(Topic(c), Left(c)) \notin Heard
  <1>1. PICK d \in {"await", "auth", "challenge", "contents", "edit"} : At(d, c)
    BY DEF Reading
  <1>2. Faces(c) /\ Now(d)
    BY <1>1, FacesAt, AtFacts
  <1>3. ~Now("send")
    BY <1>2 DEF Now
  <1>4. PICK i : i = Item(Topic(c), Left(c))
    OBVIOUS
  <1>5. i \in Said \cup {"auth", "edit"}
    <2>1. Calls(c, i)
      BY <1>2, <1>4 DEF Faces
    <2> QED BY <1>3, <2>1 DEF Calls, Said
  <1> QED BY <1>2, <1>4, <1>5, WordsApart

\* A server that is in its script and hears nothing waits for the answer to a
\* mechanism that the client does not have.
LEMMA TalkingStuck ==
  ASSUME NEW c \in Conn, Counted(c), Down(c) = 0, Up(c) = 0, Waits(c),
         Left(c) \in 1..Length(Topic(c)), Item(Topic(c), Left(c)) \notin Heard,
         NEW s \in 0..Length(Topic(c)), Spoken(c, s)
  PROVE  Due(c, {"other-response"})
  <1> DEFINE r == Rest(Topic(c), s)
  <1>1. Topic(c) \in Topics /\ Left(c) \in Nat /\ Length(Topic(c)) \in Nat
    BY DialogTyped DEF Counted
  <1>2. Level(c, s) => s = Left(c)
    <2>1. SUFFICES ASSUME Level(c, s) PROVE s = Left(c)
      OBVIOUS
    <2>2. s <= Left(c)
      <3>1. SUFFICES ASSUME s > Left(c) PROVE FALSE
        BY <1>1
      <3>2. Up(c) = s - Left(c)
        BY <1>1, <2>1, <3>1 DEF Level, Behind
      <3> QED BY <1>1, <3>1, <3>2
    <2>3. Between(c, s)
      BY <1>1, <2>1, <2>2 DEF Level
    <2>4. Ahead(c) => Left(c) \in {3, 4}
      BY AheadFacts
    <2> QED BY <1>1, <2>2, <2>3, <2>4 DEF Between
  <1>3. ~(script[c] = r /\ Level(c, s))
    <2>1. SUFFICES ASSUME script[c] = r, s = Left(c) PROVE FALSE
      BY <1>2
    <2>2. r # <<>> /\ Head(r) = Item(Topic(c), s)
      BY <1>1, <2>1, RestFacts
    <2> QED BY <2>1, <2>2 DEF Waits, Due
  <1>4. ASSUME s \in 1..Length(Topic(c)) - 1
        PROVE  r \in Seq(Word)
    BY <1>1, <1>4, RestFacts
  <1>5. ASSUME s \in 1..Length(Topic(c)) - 1, script[c] = <<"other-response", "ok">> \o r
        PROVE  Due(c, {"other-response"})
    BY <1>4, <1>5, ExtraFacts DEF Due
  <1>6. ~Offered(c, s)
    BY DEF Offered
  <1>7. ~(s \in 1..Length(Topic(c)) - 1 /\ script[c] = <<"ok">> \o r)
    BY <1>4, ExtraFacts DEF Waits, Due, Heard
  <1> QED BY <1>3, <1>5, <1>6, <1>7 DEF Spoken

\* Otherwise it has given up the edit.
LEMMA LiveStuck ==
  ASSUME NEW c \in Conn, Counted(c), Down(c) = 0, Up(c) = 0, Waits(c), Live(c),
         Left(c) \in 1..Length(Topic(c)), Item(Topic(c), Left(c)) \notin Heard
  PROVE  (c = "main" /\ edit = "aborted") \/ Due(c, {"other-response"})
  <1>1. CASE Talking(c)
    BY <1>1, TalkingStuck DEF Talking
  <1>2. CASE Unheard(c)
    BY <1>2 DEF Unheard
  <1>3. CASE Refused(c)
    BY <1>3 DEF Refused
  <1>4. CASE GivenUp(c)
    BY <1>4 DEF GivenUp
  <1>5. CASE Offline(c)
    BY <1>5 DEF Offline
  <1> QED BY <1>1, <1>2, <1>3, <1>4, <1>5 DEF Live

\* The client waits for an answer and the server of that connection for a message in
\* three situations only: the edit has been given up, no mechanism suits the client, or
\* the tokenizer is within a string of the connection that broke: NoMutualWait.
THEOREM WaitsAreKnown == Spec => []NoMutualWait
  <1>1. Inv => NoMutualWait
    <2>1. SUFFICES ASSUME Inv, NEW c \in Conn, Stuck(c), torn[c] # "string"
                   PROVE  (c = "main" /\ edit = "aborted") \/ Due(c, {"other-response"})
      BY DEF NoMutualWait
    <2>2. Good
      BY <2>1, InvIs DEF Stuck, Serving
    <2>3. NetTyped /\ torn[c] \in {"out", "token", "string"}
      BY <2>2 DEF Good, TypeInv, ConnTyped
    <2>4. conn[c] = "up" /\ Waits(c) /\ Down(c) = 0 /\ Up(c) = 0
      BY <2>1, <2>3, NetFacts DEF Stuck, Serving
    <2>5. Faces(c) /\ Item(Topic(c), Left(c)) \notin Heard
      BY <2>1, <2>2, ReadsNext DEF Stuck
    <2>6. torn[c] # "token"
      <3>1. Sound(c) /\ Greeting # <<>> /\ Head(Greeting) = "greeting"
        BY <2>1 DEF Inv, Greeting
      <3> QED BY <2>4, <3>1 DEF Sound, Waits, Due, Heard
    <2>7. Live(c) /\ Counted(c)
      <3>1. torn[c] = "out"
        BY <2>1, <2>3, <2>6
      <3>2. Links(c) /\ Counted(c)
        BY <2>5, <3>1 DEF Faces
      <3> QED BY <2>4, <3>2 DEF Links
    <2>8. Left(c) \in 1..Length(Topic(c))
      BY <2>5 DEF Faces
    <2> QED BY <2>4, <2>5, <2>7, <2>8, LiveStuck
  <1> QED BY <1>1, InvAlways, PTL

=============================================================================
