-------------------------- MODULE Dialog_proofs --------------------------
(***************************************************************************)
(* What the client of Session has still to do, at any moment of a run, and *)
(* what its steps make of it.  todo is described from its end: the run     *)
(* itself, the fetching of one file in the middle of the edit, and the     *)
(* repair stage.  From it follow, for each connection, the request that is *)
(* under way (Topic) and how many of its items the client has before it    *)
(* (Left).  The module proves that every program of Session starts in such *)
(* a shape and that each kind of step - a step done, a challenge, a file   *)
(* to fetch, a request to repeat, a repair that goes on - keeps it and     *)
(* moves Topic and Left as the dialog of the request says.                 *)
(***************************************************************************)
EXTENDS Session_proofs

-----------------------------------------------------------------------------
(***************************************************************************)
(* What the client has still to do, counted from the end of todo: the run  *)
(* itself, the fetching of a file in the middle of the edit, and the       *)
(* repair stage.                                                           *)
(***************************************************************************)
Remaining == Len(todo)
Back(k) == todo[Remaining + 1 - k]

Doing(k) == Back(k).do
On(k) == Back(k).on
Saying(k) == Back(k).what
For(k) == Back(k).file

IsStep(k, d, c, w) ==
  k <= Remaining => Doing(k) = d /\ On(k) = c /\ Saying(k) = w

IsPlain(k, d, c) == k <= Remaining => Doing(k) = d /\ On(k) = c

\* The answer to a challenge is awaited in the place of the step that met it.
IsAuthOf(k, c) ==
  k <= Remaining =>
    /\ On(k) = c
    /\ \/ Doing(k) = "auth"
       \/ Doing(k) = "challenge" /\ Saying(k) = "ok" /\ k = Remaining

IsAuth(k, c) == IsAuthOf(k, c) /\ (k <= Remaining => For(k) = NoFile)

SetupSteps(k, c) ==
  /\ IsStep(k, "await", c, "repos-info")
  /\ IsAuth(k + 1, c)
  /\ IsStep(k + 2, "send", c, "greeting-response")
  /\ IsStep(k + 3, "await", c, "greeting")

EditSteps ==
  /\ IsPlain(1, "save", "main")
  /\ IsStep(2, "repair", "main", "idle")
  /\ IsStep(3, "await", "main", "ok")
  /\ IsStep(4, "send", "main", "success")
  /\ IsPlain(5, "close", "shadow")
  /\ IsPlain(6, "edit", "main")

UpdateSteps ==
  /\ SetupSteps(7, "shadow")
  /\ IsStep(11, "connect", "shadow", "new")
  /\ IsAuth(12, "main")
  /\ IsStep(13, "send", "main", "finish-report")
  /\ IsStep(14, "send", "main", "set-path")
  /\ IsAuth(15, "main")
  /\ IsStep(16, "send", "main", "update")
  /\ IsStep(17, "await", "main", "dir")
  /\ IsAuth(18, "main")
  /\ IsStep(19, "send", "main", "check-path")

\* The latest revision is asked for, or is not.
Latest == Remaining >= 20 /\ Saying(20) = "rev"

OpenSteps ==
  IF Latest
    THEN /\ Remaining <= 27
         /\ IsStep(20, "await", "main", "rev")
         /\ IsAuth(21, "main")
         /\ IsStep(22, "send", "main", "get-latest-rev")
         /\ SetupSteps(23, "main")
         /\ IsStep(27, "connect", "main", "new")
    ELSE /\ Remaining <= 24
         /\ SetupSteps(20, "main")
         /\ IsStep(24, "connect", "main", "new")

\* get-file above the last b steps, with the repetition that may be needed.
FileSteps(b, c) ==
  /\ Remaining \in b + 1 .. b + 10
  /\ IsStep(b + 1, "await", c, "ok")
  /\ IsPlain(b + 2, "contents", c)
  /\ IsStep(b + 3, "await", c, "file")
  /\ IsAuthOf(b + 4, c)
  /\ Remaining > b + 4 => For(b + 4) \in {NoFile, For(b + 5)}
  /\ Remaining > b + 5 => For(b + 4) = NoFile
  /\ IsStep(b + 5, "send", c, "get-file")
  /\ SetupSteps(b + 6, c)
  /\ IsStep(b + 10, "connect", c, "again")

Busy == Remaining >= 2 /\ Saying(2) = "busy"
Fetching == ~Busy /\ Remaining > 6 /\ Saying(7) = "ok"

RunShape == ~Busy /\ ~Fetching /\ EditSteps /\ UpdateSteps /\ OpenSteps
FetchShape == Fetching /\ EditSteps /\ FileSteps(6, "shadow")
RepairShape ==
  /\ Busy
  /\ IsPlain(1, "save", "main")
  /\ IsStep(2, "repair", "main", "busy")
  /\ Remaining = 2 \/ FileSteps(2, "main")

Shape == Remaining >= 1 /\ (RunShape \/ FetchShape \/ RepairShape)

-----------------------------------------------------------------------------
(***************************************************************************)
(* A request as a dialog: its items, counted from its end.  Left(c) is how *)
(* many of them the client has before it on connection c, and Topic(c) is  *)
(* the request.  A connection that is about to be made again counts for    *)
(* nothing.                                                                *)
(***************************************************************************)
Dialog(w) == IF w = "setup" THEN Greeting ELSE Script(w)
Length(w) == Len(Dialog(w))
Item(w, k) == Dialog(w)[Length(w) + 1 - k]
Rest(w, k) == SubSeq(Dialog(w), Length(w) + 1 - k, Length(w))

FileLeft(x) == IF x <= 4 THEN x ELSE IF x \in 6..9 THEN x - 5 ELSE 0
FileTopic(x) == IF x <= 4 THEN "get-file" ELSE "setup"

RunLeft(k) ==
  IF k <= 2 THEN 0
  ELSE IF k = 3 THEN 1
  ELSE IF k <= 5 THEN 2
  ELSE IF k <= 11 THEN 3
  ELSE IF k <= 15 THEN k - 8
  ELSE IF k \in 17..18 THEN k - 16
  ELSE IF Latest
    THEN IF k \in 20..21 THEN k - 19 ELSE IF k \in 23..26 THEN k - 22 ELSE 0
    ELSE IF k \in 20..23 THEN k - 19 ELSE 0

RunTopic(k) ==
  IF k <= 15 THEN "update"
  ELSE IF k <= 18 THEN "check-path"
  ELSE IF k <= 21 /\ Latest THEN "get-latest-rev"
  ELSE "setup"

Left(c) ==
  IF c = "main"
    THEN IF Busy THEN FileLeft(Remaining - 2) ELSE IF Fetching THEN 3 ELSE RunLeft(Remaining)
    ELSE IF Fetching THEN FileLeft(Remaining - 6) ELSE IF ~Busy /\ Remaining \in 7..10 THEN Remaining - 6 ELSE 0

Topic(c) ==
  IF c = "main"
    THEN IF Busy THEN FileTopic(Remaining - 2) ELSE IF Fetching THEN "update" ELSE RunTopic(Remaining)
    ELSE IF Fetching THEN FileTopic(Remaining - 6) ELSE "setup"

Used(c) ==
  IF c = "main" THEN Remaining >= 2 /\ ~(Busy /\ Remaining = 12)
                ELSE \/ Fetching /\ Remaining # 16
                     \/ ~Busy /\ ~Fetching /\ Remaining \in 6..10

Known == \A c \in Conn : Left(c) > 0 => asked[c].what = Topic(c)

-----------------------------------------------------------------------------
(***************************************************************************)
(* The dialogs item by item, and what is left of them.                     *)
(***************************************************************************)
Topics == Requests \cup {"setup"}

\* The dialogs, as the tables of Greeting and Script give them.
LEMMA DialogTable ==
  /\ Length("setup") = 4 /\ Length("get-latest-rev") = 2
  /\ Length("check-path") = 2 /\ Length("get-file") = 4
  /\ Length("update") = 7
  /\ Item("setup", 1) = "repos-info" /\ Item("setup", 2) = "auth"
  /\ Item("setup", 3) = "greeting-response" /\ Item("setup", 4) = "greeting"
  /\ Item("get-latest-rev", 1) = "rev" /\ Item("get-latest-rev", 2) = "auth"
  /\ Item("check-path", 1) = "dir" /\ Item("check-path", 2) = "auth"
  /\ Item("get-file", 1) = "ok" /\ Item("get-file", 2) = "contents"
  /\ Item("get-file", 3) = "file" /\ Item("get-file", 4) = "auth"
  /\ Item("update", 1) = "ok" /\ Item("update", 2) = "success"
  /\ Item("update", 3) = "edit" /\ Item("update", 4) = "auth"
  /\ Item("update", 5) = "finish-report" /\ Item("update", 6) = "set-path"
  /\ Item("update", 7) = "auth"
  <1>0. \A w : Length(w) = Len(Dialog(w))
    BY DEF Length
  <1>1. /\ Dialog("setup") = <<"greeting", "greeting-response", "auth", "repos-info">>
        /\ Dialog("get-latest-rev") = <<"auth", "rev">>
        /\ Dialog("check-path") = <<"auth", "dir">>
        /\ Dialog("get-file") = <<"auth", "file", "contents", "ok">>
        /\ Dialog("update") = <<"auth", "set-path", "finish-report", "auth", "edit",
                                "success", "ok">>
    BY DEF Dialog, Greeting, Script
  <1>2. ASSUME NEW w, NEW a, NEW b, Dialog(w) = <<a, b>>
        PROVE  Length(w) = 2 /\ Item(w, 1) = b /\ Item(w, 2) = a
    BY <1>2 DEF Item, Length
  <1>3. ASSUME NEW w, NEW a, NEW b, NEW c, NEW d, Dialog(w) = <<a, b, c, d>>
        PROVE  /\ Length(w) = 4
               /\ Item(w, 1) = d /\ Item(w, 2) = c /\ Item(w, 3) = b /\ Item(w, 4) = a
    BY <1>3 DEF Item, Length
  <1>4. Length("update") = 7
    BY <1>1, <1>0
  <1>9. ASSUME NEW w, Length(w) = 7
        PROVE  /\ Item(w, 1) = Dialog(w)[7] /\ Item(w, 2) = Dialog(w)[6]
               /\ Item(w, 3) = Dialog(w)[5] /\ Item(w, 4) = Dialog(w)[4]
               /\ Item(w, 5) = Dialog(w)[3] /\ Item(w, 6) = Dialog(w)[2]
               /\ Item(w, 7) = Dialog(w)[1]
    BY <1>9 DEF Item
  <1>10. /\ Item("update", 1) = "ok" /\ Item("update", 2) = "success"
         /\ Item("update", 3) = "edit" /\ Item("update", 4) = "auth"
         /\ Item("update", 5) = "finish-report" /\ Item("update", 6) = "set-path"
         /\ Item("update", 7) = "auth"
    BY <1>1, <1>4, <1>9
  <1>5. Length("setup") = 4 /\ Item("setup", 1) = "repos-info" /\ Item("setup", 2) = "auth"
        /\ Item("setup", 3) = "greeting-response" /\ Item("setup", 4) = "greeting"
    BY <1>1, <1>3
  <1>6. Length("get-file") = 4 /\ Item("get-file", 1) = "ok"
        /\ Item("get-file", 2) = "contents" /\ Item("get-file", 3) = "file"
        /\ Item("get-file", 4) = "auth"
    BY <1>1, <1>3
  <1>7. Length("get-latest-rev") = 2 /\ Item("get-latest-rev", 1) = "rev"
        /\ Item("get-latest-rev", 2) = "auth"
    BY <1>1, <1>2
  <1>8. Length("check-path") = 2 /\ Item("check-path", 1) = "dir"
        /\ Item("check-path", 2) = "auth"
    BY <1>1, <1>2
  <1> QED BY <1>4, <1>5, <1>6, <1>7, <1>8, <1>10

\* A dialog is a sequence of words with two to seven items.
LEMMA DialogTyped ==
  ASSUME NEW w \in Topics
  PROVE  /\ Dialog(w) \in Seq(Word) /\ Length(w) = Len(Dialog(w))
         /\ Length(w) \in 2..7
  <1>1. Dialog(w) \in Seq(Word)
    BY ScriptTyped, SetUpTyped DEF Dialog, Topics
  <1>2. Length(w) = Len(Dialog(w))
    BY DEF Length
  <1>3. Length(w) \in 2..7
    BY DialogTable DEF Topics, Requests
  <1> QED BY <1>1, <1>2, <1>3

\* What is left of a dialog begins with its item and goes on with the rest.
LEMMA RestFacts ==
  ASSUME NEW w \in Topics, NEW s \in 1..Length(w)
  PROVE  /\ Rest(w, s) \in Seq(Word) /\ Len(Rest(w, s)) = s /\ Rest(w, s) # <<>>
         /\ Head(Rest(w, s)) = Item(w, s) /\ Tail(Rest(w, s)) = Rest(w, s - 1)
         /\ Item(w, s) \in Word
  <1> DEFINE d == Dialog(w)
  <1>1. d \in Seq(Word) /\ Len(d) \in Nat
    BY DialogTyped
  <1> HIDE DEF d
  <1>0. Length(w) = Len(d)
    BY DEF d, Length
  <1>2. Len(d) + 1 - s \in 1..Len(d) /\ Len(d) \in Len(d) + 1 - s .. Len(d)
    BY <1>0, <1>1
  <1>3. Head(SubSeq(d, Len(d) + 1 - s, Len(d))) = d[Len(d) + 1 - s]
        /\ Tail(SubSeq(d, Len(d) + 1 - s, Len(d))) = SubSeq(d, Len(d) + 1 - s + 1, Len(d))
    BY <1>1, <1>2, HeadTailOfSubSeq
  <1>4. \A i \in Len(d) + 1 - s .. Len(d) : d[i] \in Word
    BY <1>1, <1>2
  <1>5. /\ SubSeq(d, Len(d) + 1 - s, Len(d)) \in Seq(Word)
        /\ Len(SubSeq(d, Len(d) + 1 - s, Len(d))) = s
    BY <1>1, <1>2, <1>4, SubSeqProperties
  <1>6. Len(d) + 1 - s + 1 = Len(d) + 1 - (s - 1)
    BY <1>1
  <1>7. Rest(w, s - 1) = SubSeq(d, Len(d) + 1 - (s - 1), Len(d))
    BY <1>0 DEF Rest, d
  <1>8. Rest(w, s) = SubSeq(d, Len(d) + 1 - s, Len(d)) /\ Item(w, s) = d[Len(d) + 1 - s]
    BY <1>0 DEF Rest, Item, d
  <1>9. d[Len(d) + 1 - s] \in Word
    BY <1>1, <1>2
  <1>10. s # 0 /\ \A q \in Seq(Word) : Len(q) = s => q # <<>>
    OBVIOUS
  <1> QED BY <1>3, <1>5, <1>6, <1>7, <1>8, <1>9, <1>10

\* After the last item nothing is left; before the first one, the whole dialog.
LEMMA RestEmpty ==
  ASSUME NEW w \in Topics
  PROVE  Rest(w, 0) = <<>>
  <1>1. Length(w) \in Int
    BY DialogTyped
  <1> QED BY <1>1, SubSeqEmpty DEF Rest

LEMMA RestWhole ==
  ASSUME NEW w \in Topics
  PROVE  Rest(w, Length(w)) = Dialog(w)
  <1>1. Dialog(w) \in Seq(Word) /\ Length(w) + 1 - Length(w) = 1
    BY DialogTyped
  <1>2. SubSeq(Dialog(w), 1, Len(Dialog(w))) = Dialog(w)
    BY <1>1, SubSeqFull
  <1> QED BY <1>1, <1>2 DEF Rest, Length

\* The additional items of a challenge before the rest.
LEMMA ExtraFacts ==
  ASSUME NEW r \in Seq(Word)
  PROVE  /\ <<"auth-response", "ok">> \o r # <<>>
         /\ Head(<<"auth-response", "ok">> \o r) = "auth-response"
         /\ Tail(<<"auth-response", "ok">> \o r) = <<"ok">> \o r
         /\ <<"other-response", "ok">> \o r # <<>>
         /\ Head(<<"other-response", "ok">> \o r) = "other-response"
         /\ <<"ok">> \o r # <<>>
         /\ Head(<<"ok">> \o r) = "ok" /\ Tail(<<"ok">> \o r) = r
         /\ Len(<<"ok">> \o r) = 1 + Len(r)
  <1>1. /\ <<"auth-response", "ok">> \in Seq(Word) /\ <<"other-response", "ok">> \in Seq(Word)
        /\ <<"ok">> \in Seq(Word)
    BY DEF Word, Said, Heard
  <1>2. Tail(<<"auth-response", "ok">>) = <<"ok">> /\ Tail(<<"ok">>) = <<>>
    OBVIOUS
  <1>3. ASSUME NEW q \in Seq(Word), q # <<>>
        PROVE  Head(q \o r) = Head(q) /\ Tail(q \o r) = Tail(q) \o r /\ q \o r # <<>>
               /\ Len(q \o r) = Len(q) + Len(r)
    <2>1. /\ Len(q \o r) = Len(q) + Len(r) /\ q \o r \in Seq(Word)
          /\ Len(q) \in Nat /\ Len(q) >= 1 /\ Len(r) \in Nat
      BY <1>3, ConcatProperties
    <2>2. Tail(q \o r) = Tail(q) \o r
      BY <1>3
    <2>3. (q \o r)[1] = q[1]
      BY <2>1, <1>3, ConcatProperties
    <2> QED BY <2>1, <2>2, <2>3, <1>3
  <1>4. <<>> \o r = r
    BY ConcatEmptySeq
  <1> QED BY <1>1, <1>2, <1>3, <1>4

-----------------------------------------------------------------------------
(***************************************************************************)
(* The client's program keeps its shape, and each of its steps is the item *)
(* of the dialog that is due on its connection.                            *)
(***************************************************************************)
LEMMA BackFacts ==
  ASSUME ClientTyped
  PROVE  /\ Remaining \in Nat /\ (todo # <<>> <=> Remaining >= 1)
         /\ todo # <<>> => /\ Step = Back(Remaining) /\ Step.do = Doing(Remaining)
                           /\ Step.on = On(Remaining) /\ Step.what = Saying(Remaining)
                           /\ Step.file = For(Remaining)
         /\ \A k \in 1..Remaining : Back(k) \in GoodStep
  <1>1. todo \in Seq(GoodStep)
    BY DEF ClientTyped
  <1>5. Remaining \in Nat
    BY <1>1 DEF Remaining
  <1>2. todo # <<>> => Step = Back(Remaining)
    <2>1. Remaining + 1 - Remaining = 1
      BY <1>5
    <2> QED BY <1>1, <2>1 DEF Step, Back
  <1>3. ASSUME NEW k \in 1..Remaining PROVE Back(k) \in GoodStep
    <2>1. Remaining + 1 - k \in 1..Remaining
      BY <1>5
    <2>2. \A i \in 1..Remaining : todo[i] \in GoodStep
      BY <1>1 DEF Remaining
    <2> QED BY <2>1, <2>2 DEF Back
  <1>4. todo # <<>> <=> Remaining >= 1
    BY <1>1 DEF Remaining
  <1> QED BY <1>2, <1>3, <1>4, <1>5 DEF Doing, On, Saying, For

\* The first step is done; the others stay where they were, counted from the end.
Shorter ==
  /\ Remaining \in Nat /\ Remaining' = Remaining - 1
  /\ \A k \in 1..Remaining - 1 :
       Doing(k)' = Doing(k) /\ On(k)' = On(k) /\ Saying(k)' = Saying(k) /\ For(k)' = For(k)

\* A step that is done shortens todo and leaves the rest where it was.
LEMMA Popped ==
  ASSUME ClientTyped, todo # <<>>, todo' = Tail(todo)
  PROVE  Shorter
  <1>1. todo \in Seq(GoodStep) /\ Remaining \in Nat
    BY DEF ClientTyped, Remaining
  <1>2. Remaining' = Remaining - 1
    BY <1>1 DEF Remaining
  <1>4. Remaining \in Nat
    BY <1>1
  <1>5. \A i \in 1..Remaining - 1 : Tail(todo)[i] = todo[i + 1]
    BY <1>1 DEF Remaining
  <1>3. ASSUME NEW k \in 1..Remaining - 1 PROVE Back(k)' = Back(k)
    <2>1. Remaining - k \in 1..Remaining - 1 /\ Remaining - 1 + 1 - k = Remaining - k
          /\ Remaining - k + 1 = Remaining + 1 - k
      BY <1>4
    <2>2. Tail(todo)[Remaining - k] = todo[Remaining + 1 - k]
      BY <1>5, <2>1
    <2>3. Back(k)' = todo'[Remaining' + 1 - k]
      BY DEF Back
    <2> QED BY <1>2, <2>1, <2>2, <2>3 DEF Back
  <1> QED BY <1>1, <1>2, <1>3 DEF Shorter, Doing, On, Saying, For

\* What is known of a step that stays is still known of it.
LEMMA StepsStay ==
  ASSUME Shorter, NEW k \in Nat \ {0}, NEW c
  PROVE  /\ \A d, w : IsStep(k, d, c, w) => IsStep(k, d, c, w)'
         /\ \A d : IsPlain(k, d, c) => IsPlain(k, d, c)'
         /\ IsAuthOf(k, c) => IsAuthOf(k, c)'
         /\ IsAuth(k, c) => IsAuth(k, c)'
  <1>1. /\ Remaining' = Remaining - 1 /\ Remaining \in Nat
        /\ k <= Remaining - 1 =>
             Doing(k)' = Doing(k) /\ On(k)' = On(k) /\ Saying(k)' = Saying(k) /\ For(k)' = For(k)
    BY DEF Shorter
  <1>2. \A d, w : IsStep(k, d, c, w) => IsStep(k, d, c, w)'
    BY <1>1 DEF IsStep
  <1>3. \A d : IsPlain(k, d, c) => IsPlain(k, d, c)'
    BY <1>1 DEF IsPlain
  <1>4. IsAuthOf(k, c) => IsAuthOf(k, c)'
    BY <1>1 DEF IsAuthOf
  <1>5. IsAuth(k, c) => IsAuth(k, c)'
    BY <1>1, <1>4 DEF IsAuth
  <1> QED BY <1>2, <1>3, <1>4, <1>5

\* So do the steps that set a connection up.
LEMMA SetupStays ==
  ASSUME Shorter, NEW k \in Nat \ {0}, NEW c
  PROVE  SetupSteps(k, c) => SetupSteps(k, c)'
  <1>1. k + 1 \in Nat \ {0} /\ k + 2 \in Nat \ {0} /\ k + 3 \in Nat \ {0}
    OBVIOUS
  <1> QED BY <1>1, StepsStay DEF SetupSteps

\* The same for every place at once.
LEMMA AllStay ==
  ASSUME Shorter
  PROVE  /\ \A k \in Nat \ {0} : \A d, c, w : IsStep(k, d, c, w) => IsStep(k, d, c, w)'
         /\ \A k \in Nat \ {0} : \A d, c : IsPlain(k, d, c) => IsPlain(k, d, c)'
         /\ \A k \in Nat \ {0} : \A c : IsAuth(k, c) => IsAuth(k, c)'
         /\ \A k \in Nat \ {0} : \A c : SetupSteps(k, c) => SetupSteps(k, c)'
  BY StepsStay, SetupStays

\* A step that is done keeps the shape: a fetched file leads back into the edit,
\* a repair that is over to the end of the run.
LEMMA PopShape ==
  ASSUME Shorter, Shape, Remaining >= 2
  PROVE  /\ Shape'
         /\ Busy' <=> Busy /\ Remaining > 2
         /\ Fetching' <=> Fetching /\ Remaining > 7
         /\ RunShape => RunShape' /\ (Remaining # 20 => (Latest' <=> Latest))
         /\ FetchShape /\ Remaining > 7 => FetchShape'
         /\ FetchShape /\ Remaining = 7 => RunShape'
         /\ RepairShape /\ Remaining > 2 => RepairShape'
         /\ RepairShape /\ Remaining = 2 => RunShape'
  <1>1. /\ Remaining' = Remaining - 1 /\ Remaining \in Nat
        /\ \A k \in 1..Remaining - 1 :
             Doing(k)' = Doing(k) /\ On(k)' = On(k) /\ Saying(k)' = Saying(k) /\ For(k)' = For(k)
    BY DEF Shorter
  <1>2. EditSteps => EditSteps'
    BY AllStay DEF EditSteps
  <1>3. UpdateSteps => UpdateSteps'
    BY AllStay DEF UpdateSteps
  <1>4. Remaining # 20 => (Latest' <=> Latest)
    BY <1>1 DEF Latest
  <1>5. OpenSteps => OpenSteps'
    <2>1. CASE Latest /\ Remaining # 20
      BY <1>1, <1>4, <2>1, AllStay DEF OpenSteps
    <2>2. CASE ~Latest /\ Remaining # 20
      BY <1>1, <1>4, <2>2, AllStay DEF OpenSteps
    <2>3. CASE Remaining = 20
      BY <1>1, <2>3 DEF OpenSteps, Latest, SetupSteps, IsStep, IsAuth, IsAuthOf
    <2> QED BY <2>1, <2>2, <2>3
  <1>6. ASSUME NEW b \in {2, 6}, NEW c, FileSteps(b, c), Remaining > b + 1
        PROVE  FileSteps(b, c)'
    <2>1. Remaining' \in b + 1 .. b + 10
      BY <1>1, <1>6 DEF FileSteps
    <2>2. /\ (Remaining > b + 4 => For(b + 4) \in {NoFile, For(b + 5)})'
          /\ (Remaining > b + 5 => For(b + 4) = NoFile)'
      BY <1>1, <1>6 DEF FileSteps
    <2>3. /\ b + 1 \in Nat \ {0} /\ b + 2 \in Nat \ {0} /\ b + 3 \in Nat \ {0}
          /\ b + 4 \in Nat \ {0} /\ b + 5 \in Nat \ {0} /\ b + 6 \in Nat \ {0}
          /\ b + 10 \in Nat \ {0}
      OBVIOUS
    <2>4. /\ IsStep(b + 1, "await", c, "ok")' /\ IsPlain(b + 2, "contents", c)'
          /\ IsStep(b + 3, "await", c, "file")' /\ IsAuthOf(b + 4, c)'
      BY <1>1, <1>6, <2>3, StepsStay DEF FileSteps
    <2>5. /\ IsStep(b + 5, "send", c, "get-file")' /\ SetupSteps(b + 6, c)'
          /\ IsStep(b + 10, "connect", c, "again")'
      BY <1>1, <1>6, <2>3, StepsStay, SetupStays DEF FileSteps
    <2> QED BY <2>1, <2>2, <2>4, <2>5 DEF FileSteps
  <1>7. Busy' <=> Busy /\ Remaining > 2
    BY <1>1 DEF Busy
  <1>8. Fetching' <=> Fetching /\ Remaining > 7
    <2>1. CASE Remaining > 7
      BY <1>1, <1>7, <2>1 DEF Fetching
    <2>2. CASE Remaining <= 7
      BY <1>1, <2>2 DEF Fetching
    <2> QED BY <1>1, <2>1, <2>2
  <1>9. RunShape => RunShape'
    BY <1>2, <1>3, <1>5, <1>7, <1>8 DEF RunShape
  <1>10. FetchShape => IF Remaining > 7 THEN FetchShape' ELSE RunShape'
    <2> SUFFICES ASSUME FetchShape PROVE IF Remaining > 7 THEN FetchShape' ELSE RunShape'
      OBVIOUS
    <2>1. CASE Remaining > 7
      BY <1>1, <1>2, <1>6, <1>8, <2>1 DEF FetchShape
    <2>2. CASE Remaining <= 7
      <3>1. ~Busy' /\ ~Fetching' /\ EditSteps' /\ Remaining' <= 6
        BY <1>1, <1>2, <1>7, <1>8, <2>2 DEF FetchShape, Fetching
      <3>2. UpdateSteps' /\ OpenSteps'
        BY <1>1, <3>1
           DEF UpdateSteps, OpenSteps, Latest, SetupSteps, IsStep, IsAuth, IsAuthOf
      <3> QED BY <1>1, <2>2, <3>1, <3>2 DEF RunShape
    <2> QED BY <1>1, <2>1, <2>2
  <1>11. RepairShape => IF Remaining > 2 THEN RepairShape' ELSE RunShape'
    <2> SUFFICES ASSUME RepairShape PROVE IF Remaining > 2 THEN RepairShape' ELSE RunShape'
      OBVIOUS
    <2>1. CASE Remaining > 2
      <3>1. IsPlain(1, "save", "main")' /\ IsStep(2, "repair", "main", "busy")'
        BY <1>1, StepsStay DEF RepairShape
      <3>2. Remaining' = 2 \/ FileSteps(2, "main")'
        BY <1>1, <1>6, <2>1 DEF RepairShape
      <3> QED BY <1>7, <2>1, <3>1, <3>2 DEF RepairShape
    <2>2. CASE Remaining <= 2
      <3>1. ~Busy' /\ ~Fetching' /\ Remaining' = 1 /\ IsPlain(1, "save", "main")'
        BY <1>1, <1>7, <1>8, <2>2, StepsStay DEF RepairShape, Fetching
      <3>2. EditSteps' /\ UpdateSteps' /\ OpenSteps'
        BY <1>1, <3>1
           DEF EditSteps, UpdateSteps, OpenSteps, Latest, SetupSteps, IsStep, IsPlain, IsAuth,
               IsAuthOf
      <3> QED BY <1>1, <2>2, <3>1, <3>2 DEF RunShape
    <2> QED BY <1>1, <2>1, <2>2
  <1>12. Shape'
    <2>1. Remaining' >= 1
      BY <1>1
    <2> QED BY <2>1, <1>9, <1>10, <1>11 DEF Shape
  <1> QED BY <1>1, <1>4, <1>7, <1>8, <1>9, <1>10, <1>11, <1>12

-----------------------------------------------------------------------------
(***************************************************************************)
(* The step the client is at, by the connection it is on.  Facing(c): it is*)
(* the item due on c; everything else asks for a request, makes or closes  *)
(* a connection, or is the end of the run.                                 *)
(***************************************************************************)
Now(d) == Doing(Remaining) = d

Facing(c) ==
  /\ On(Remaining) = c
  /\ \/ Now("await") \/ Now("auth") \/ Now("challenge") \/ Now("contents") \/ Now("edit")
     \/ Now("send") /\ Saying(Remaining) \notin Requests

Calls(c, i) ==
  \/ Now("await") /\ i = Saying(Remaining) /\ i \in Said
  \/ Now("auth") /\ i = "auth"
  \/ Now("challenge") /\ i = "auth" /\ Saying(Remaining) = "ok"
  \/ Now("contents") /\ i = "contents"
  \/ Now("edit") /\ i = "edit" /\ c = "main" /\ Topic(c) = "update"
  \/ Now("send") /\ i = Saying(Remaining) /\ i \in Heard

\* In the run itself, the step the client is at is the item it has next.
LEMMA FacingRun ==
  ASSUME Remaining \in Nat, RunShape, Remaining >= 1, NEW c \in Conn, Facing(c)
  PROVE  /\ Used(c) /\ Topic(c) \in Topics /\ Left(c) \in 1..Length(Topic(c))
         /\ Calls(c, Item(Topic(c), Left(c)))
         /\ ~Busy /\ ~Fetching /\ Remaining >= 3
  <1>1. Remaining \in 1..27
    BY DEF RunShape, OpenSteps
  <1>2. ~Busy /\ ~Fetching
    BY DEF RunShape
  <1> USE DEF Facing, Now, Calls, Used, Topic, Left, RunLeft, RunTopic, Topics, Requests, Conn, Said,
             Heard, RunShape
  <1>3. CASE Remaining <= 6
    BY <1>1, <1>2, <1>3, DialogTable DEF EditSteps, IsStep, IsPlain
  <1>4. CASE Remaining \in 7..8
    BY <1>2, <1>4, DialogTable DEF UpdateSteps, IsStep, SetupSteps, IsAuth, IsAuthOf
  <1>9. CASE Remaining \in 9..10
    BY <1>2, <1>9, DialogTable DEF UpdateSteps, IsStep, SetupSteps
  <1>5. CASE Remaining \in 11..15
    BY <1>1, <1>2, <1>5, DialogTable DEF UpdateSteps, IsStep, IsPlain, IsAuth, IsAuthOf
  <1>8. CASE Remaining \in 16..19
    BY <1>1, <1>2, <1>8, DialogTable DEF UpdateSteps, IsStep, IsPlain, IsAuth, IsAuthOf
  <1>6. CASE Remaining >= 20 /\ Latest
    BY <1>1, <1>2, <1>6, DialogTable DEF OpenSteps, IsStep, IsPlain, SetupSteps, IsAuth, IsAuthOf, Latest
  <1>7. CASE Remaining \in 20..21 /\ ~Latest
    BY <1>2, <1>7, DialogTable DEF OpenSteps, IsStep, SetupSteps, IsAuth, IsAuthOf
  <1>10. CASE Remaining \in 22..23 /\ ~Latest
    BY <1>2, <1>10, DialogTable DEF OpenSteps, IsStep, SetupSteps
  <1>11. CASE Remaining = 24 /\ ~Latest
    BY <1>2, <1>11 DEF OpenSteps, IsStep
  <1>12. Remaining > 24 => Latest
    BY <1>1 DEF OpenSteps
  <1> HIDE DEF Facing, Now, Calls, Used, Topic, Left, RunLeft, RunTopic, Topics, Requests, Conn, Said,
               Heard, RunShape
  <1> QED BY <1>1, <1>3, <1>4, <1>5, <1>6, <1>7, <1>8, <1>9, <1>10, <1>11, <1>12

\* So it is while a file is asked for, also on the second attempt.
LEMMA FacingFile ==
  ASSUME Remaining \in Nat, NEW b \in {2, 6}, NEW c \in Conn, FileSteps(b, c),
         NEW d \in Conn, Facing(d)
  PROVE  /\ d = c /\ FileTopic(Remaining - b) \in Topics
         /\ FileLeft(Remaining - b) \in 1..Length(FileTopic(Remaining - b))
         /\ Remaining # b + 10
         /\ \A i : i = Item(FileTopic(Remaining - b), FileLeft(Remaining - b)) /\ i # "edit" => Calls(c, i)
         /\ Item(FileTopic(Remaining - b), FileLeft(Remaining - b)) # "edit"
  <1> USE DEF Facing, Now, Calls, FileTopic, FileLeft, Topics, Requests, Said, Heard, FileSteps
  <1>1. Remaining - b \in 1..10
    OBVIOUS
  <1>2. CASE Remaining - b <= 3
    BY <1>1, <1>2, DialogTable DEF IsStep, IsPlain
  <1>3. CASE Remaining - b \in 4..5
    BY <1>1, <1>3, DialogTable DEF IsStep, IsPlain, IsAuthOf
  <1>4. CASE Remaining - b \in 6..10
    BY <1>1, <1>4, DialogTable DEF IsStep, IsPlain, IsAuthOf, IsAuth, SetupSteps
  <1> QED BY <1>1, <1>2, <1>3, <1>4

\* And so it is in every shape.
LEMMA FacingFacts ==
  ASSUME Remaining \in Nat, Shape, NEW c \in Conn, Facing(c)
  PROVE  /\ Used(c) /\ Topic(c) \in Topics /\ Left(c) \in 1..Length(Topic(c))
         /\ Calls(c, Item(Topic(c), Left(c)))
         /\ Remaining >= 3
  <1>1. CASE RunShape
    BY <1>1, FacingRun DEF Shape
  <1>2. CASE FetchShape
    <2>1. ~Busy /\ Fetching /\ FileSteps(6, "shadow") /\ "shadow" \in Conn /\ 6 \in {2, 6}
      BY <1>2 DEF FetchShape, Fetching, Conn
    <2>2. c = "shadow" /\ Remaining # 16
      BY <2>1, FacingFile
    <2>3. Topic(c) = FileTopic(Remaining - 6) /\ Left(c) = FileLeft(Remaining - 6) /\ Used(c)
      BY <2>1, <2>2 DEF Topic, Left, Used
    <2>4. Remaining >= 3
      BY <2>1 DEF FileSteps
    <2> QED BY <2>1, <2>2, <2>3, <2>4, FacingFile
  <1>3. CASE RepairShape
    <2>1. Busy /\ "main" \in Conn /\ 2 \in {2, 6} /\ (Remaining = 2 \/ FileSteps(2, "main"))
      BY <1>3 DEF RepairShape, Conn
    <2>2. Remaining # 2
      BY <1>3 DEF RepairShape, IsStep, Facing, Now
    <2>3. c = "main" /\ Remaining # 12
      BY <2>1, <2>2, FacingFile
    <2>4. Remaining >= 3
      BY <2>1, <2>2 DEF FileSteps
    <2>5. Topic(c) = FileTopic(Remaining - 2) /\ Left(c) = FileLeft(Remaining - 2) /\ Used(c)
      BY <2>1, <2>3, <2>4 DEF Topic, Left, Used
    <2> QED BY <2>1, <2>2, <2>3, <2>4, <2>5, FacingFile
  <1> QED BY <1>1, <1>2, <1>3 DEF Shape

\* The answer to a challenge is awaited by the first step only.
LEMMA ChallengeFirst ==
  ASSUME Remaining \in Nat, Shape, NEW k \in 1..Remaining - 1
  PROVE  Doing(k) # "challenge"
  <1> USE DEF IsStep, IsPlain, IsAuth, IsAuthOf, SetupSteps
  <1>1. CASE RunShape
    <2>1. Remaining <= 27
      BY <1>1 DEF RunShape, OpenSteps
    <2>2. CASE k <= 6
      BY <1>1, <2>1, <2>2 DEF RunShape, EditSteps
    <2>3. CASE k \in 7..19
      BY <1>1, <2>1, <2>3 DEF RunShape, UpdateSteps
    <2>4. CASE k >= 20
      BY <1>1, <2>1, <2>4 DEF RunShape, OpenSteps
    <2> QED BY <2>2, <2>3, <2>4
  <1>2. ASSUME NEW b \in {2, 6}, NEW c, FileSteps(b, c), k > b
        PROVE  Doing(k) # "challenge"
    BY <1>2 DEF FileSteps
  <1>3. CASE FetchShape
    <2>1. CASE k <= 6
      BY <1>3, <2>1 DEF FetchShape, EditSteps
    <2>2. CASE k > 6
      BY <1>2, <1>3, <2>2 DEF FetchShape
    <2> QED BY <2>1, <2>2
  <1>4. CASE RepairShape
    <2>1. CASE k <= 2
      BY <1>4, <2>1 DEF RepairShape
    <2>2. CASE k > 2
      BY <1>2, <1>4, <2>2 DEF RepairShape
    <2> QED BY <2>1, <2>2
  <1> QED BY <1>1, <1>3, <1>4 DEF Shape

-----------------------------------------------------------------------------
(***************************************************************************)
(* What each move of the client does to the items it has before it.        *)
(***************************************************************************)
Stays(d) ==
  /\ Left(d)' = Left(d) /\ (Left(d) > 0 => Topic(d)' = Topic(d))
  /\ Used(d)' => Used(d)

\* The step done, the connection it is on has one item less before it.
LEMMA FacingPopped ==
  ASSUME Shorter, Shape, NEW c \in Conn, Facing(c)
  PROVE  /\ Left(c)' = Left(c) - 1 /\ (Left(c) > 1 => Topic(c)' = Topic(c))
         /\ \A d \in Conn \ {c} : Stays(d)
         /\ Busy' <=> Busy
  <1>1. Remaining \in Nat /\ Remaining' = Remaining - 1
    BY DEF Shorter
  <1>2. Remaining >= 3
    BY <1>1, FacingFacts
  <1>3. /\ Busy' <=> Busy
        /\ Fetching' <=> Fetching /\ Remaining > 7
        /\ RunShape => RunShape' /\ (Remaining # 20 => (Latest' <=> Latest))
    BY <1>1, <1>2, PopShape
  <1>4. CASE RunShape
    <2>1. ~Busy /\ ~Fetching /\ ~Busy' /\ ~Fetching'
      BY <1>3, <1>4 DEF RunShape
    <2>2. Remaining <= 27
      BY <1>1, <1>4 DEF RunShape, OpenSteps
    <2>3. Remaining < 20 => (Latest' <=> Latest)
      BY <1>1, <1>3, <1>4
    <2>4. Remaining > 20 => (Latest' <=> Latest)
      BY <1>1, <1>3, <1>4
    <2>5. /\ Remaining \in 3..27 \ {5, 11, 16, 19} /\ (Latest => Remaining \notin {22, 27})
          /\ (~Latest => Remaining <= 23)
          /\ c = IF Remaining \in 7..10 THEN "shadow" ELSE "main"
      <3>1. CASE Remaining < 12
        BY <1>1, <1>2, <1>4, <2>2, <3>1
           DEF RunShape, EditSteps, UpdateSteps, SetupSteps, IsStep, IsPlain, IsAuth, IsAuthOf, Facing,
               Now, Requests, Latest
      <3>2. CASE Remaining \in 12..19
        BY <1>1, <1>2, <1>4, <2>2, <3>2
           DEF RunShape, UpdateSteps, IsStep, IsPlain, IsAuth, IsAuthOf, Facing, Now, Requests, Latest
      <3>3. CASE Remaining >= 20
        BY <1>1, <1>2, <1>4, <2>2, <3>3
           DEF RunShape, OpenSteps, SetupSteps, IsStep, IsPlain, IsAuth, IsAuthOf, Facing, Now,
               Requests, Latest
      <3> QED BY <1>1, <1>2, <3>1, <3>2, <3>3
    <2>6. CASE Remaining = 20
      BY <1>1, <2>1, <2>5, <2>6, <1>3
         DEF Left, Topic, Used, RunLeft, RunTopic, Stays, Conn, Latest
    <2>7. CASE Remaining # 20
      BY <1>1, <2>1, <2>3, <2>4, <2>5, <2>7, <1>3
         DEF Left, Topic, Used, RunLeft, RunTopic, Stays, Conn
    <2> QED BY <2>6, <2>7
  <1>5. CASE FetchShape
    <2>1. ~Busy /\ Fetching /\ ~Busy' /\ FileSteps(6, "shadow")
      BY <1>3, <1>5 DEF FetchShape, Fetching
    <2>2. c = "shadow" /\ Remaining # 16 /\ Remaining \in 7..16
      BY <1>1, <2>1, FacingFile DEF Conn, FileSteps
    <2>3. Remaining # 11
      BY <2>1 DEF FileSteps, IsStep, Facing, Now, Requests
    <2>4. CASE Remaining = 7
      <3>1. ~Fetching' /\ ~Busy'
        BY <1>3, <2>1, <2>4
      <3> QED
        BY <1>1, <2>1, <2>2, <2>4, <3>1
           DEF Left, Topic, Used, RunLeft, RunTopic, FileLeft, FileTopic, Stays, Conn
    <2>5. CASE Remaining > 7
      <3>1. Fetching' /\ ~Busy'
        BY <1>3, <2>1, <2>5
      <3> QED
        BY <1>1, <1>3, <2>1, <2>2, <2>3, <2>5, <3>1
           DEF Left, Topic, Used, FileLeft, FileTopic, Stays, Conn
    <2> QED BY <2>2, <2>4, <2>5
  <1>6. CASE RepairShape
    <2>1. Busy /\ Busy' /\ FileSteps(2, "main")
      BY <1>2, <1>3, <1>6 DEF RepairShape
    <2>2. c = "main" /\ Remaining # 12 /\ Remaining \in 3..12
      BY <1>1, <2>1, FacingFile DEF Conn, FileSteps
    <2>3. Remaining # 7
      BY <2>1 DEF FileSteps, IsStep, Facing, Now, Requests
    <2>4. ~Fetching /\ ~Fetching'
      BY <2>1 DEF Fetching
    <2> QED
      BY <1>1, <2>1, <2>2, <2>3, <2>4 DEF Left, Topic, Used, FileLeft, FileTopic, Stays, Conn
  <1> QED BY <1>4, <1>5, <1>6 DEF Shape

\* A request is asked for when nothing of the one before is left.
LEMMA RequestPopped ==
  ASSUME Shorter, Shape, NEW c \in Conn, Now("send"), On(Remaining) = c,
         Saying(Remaining) \in Requests
  PROVE  /\ Left(c) = 0 /\ Used(c)
         /\ Left(c)' = Length(Saying(Remaining)) /\ Topic(c)' = Saying(Remaining)
         /\ \A d \in Conn \ {c} : Stays(d)
         /\ Busy' <=> Busy
         /\ Busy => Saying(Remaining) = "get-file"
         /\ Remaining >= 3
  <1>1. Remaining \in Nat /\ Remaining' = Remaining - 1 /\ Remaining >= 1
    BY DEF Shorter, Shape
  <1>2. Remaining >= 3
    BY <1>1 DEF Shape, RunShape, FetchShape, RepairShape, EditSteps, FileSteps, IsPlain, IsStep, Now
  <1>3. /\ Busy' <=> Busy
        /\ Fetching' <=> Fetching /\ Remaining > 7
        /\ RunShape => RunShape' /\ (Remaining # 20 => (Latest' <=> Latest))
    BY <1>1, <1>2, PopShape
  <1>4. CASE RunShape
    <2>1. ~Busy /\ ~Fetching /\ ~Busy' /\ ~Fetching'
      BY <1>3, <1>4 DEF RunShape
    <2>2. /\ c = "main" /\ Remaining # 20
          /\ \/ Remaining = 16 /\ Saying(Remaining) = "update"
             \/ Remaining = 19 /\ Saying(Remaining) = "check-path"
             \/ Remaining = 22 /\ Latest /\ Saying(Remaining) = "get-latest-rev"
      <3>1. CASE Remaining < 12
        BY <1>1, <1>2, <1>4, <3>1
           DEF RunShape, EditSteps, UpdateSteps, SetupSteps, IsStep, IsPlain, IsAuth, IsAuthOf,
               Now, Requests
      <3>2. CASE Remaining \in 12..19
        BY <1>1, <1>2, <1>4, <3>2
           DEF RunShape, UpdateSteps, IsStep, IsPlain, IsAuth, IsAuthOf, Now, Requests
      <3>3. CASE Remaining >= 20
        BY <1>1, <1>2, <1>4, <3>3
           DEF RunShape, OpenSteps, SetupSteps, IsStep, IsPlain, IsAuth, IsAuthOf, Now,
               Requests, Latest
      <3> QED BY <1>1, <1>2, <3>1, <3>2, <3>3
    <2>3. Latest' <=> Latest
      BY <1>3, <1>4, <2>2
    <2> QED
      BY <1>1, <2>1, <2>2, <2>3, DialogTable
         DEF Left, Topic, Used, RunLeft, RunTopic, Stays, Conn
  <1>5. CASE FetchShape
    <2>1. ~Busy /\ Fetching /\ ~Busy' /\ FileSteps(6, "shadow")
      BY <1>3, <1>5 DEF FetchShape, Fetching
    <2>2. Remaining = 11 /\ c = "shadow" /\ Saying(Remaining) = "get-file"
      BY <1>1, <2>1 DEF FileSteps, IsStep, IsPlain, IsAuth, IsAuthOf, SetupSteps, Now, Requests
    <2>3. Fetching'
      BY <1>3, <2>1, <2>2
    <2> QED
      BY <1>1, <1>3, <2>1, <2>2, <2>3, DialogTable
         DEF Left, Topic, Used, FileLeft, FileTopic, Stays, Conn
  <1>6. CASE RepairShape
    <2>1. Busy /\ Busy' /\ FileSteps(2, "main") /\ ~Fetching /\ ~Fetching'
      BY <1>2, <1>3, <1>6 DEF RepairShape, Fetching
    <2>2. Remaining = 7 /\ c = "main" /\ Saying(Remaining) = "get-file"
      BY <1>1, <2>1 DEF FileSteps, IsStep, IsPlain, IsAuth, IsAuthOf, SetupSteps, Now, Requests
    <2> QED
      BY <1>1, <1>3, <2>1, <2>2, DialogTable
         DEF Left, Topic, Used, FileLeft, FileTopic, Stays, Conn
  <1> QED BY <1>2, <1>4, <1>5, <1>6 DEF Shape

\* A connection is made: its setup is before the client.
LEMMA ConnectPopped ==
  ASSUME Shorter, Shape, NEW c \in Conn, Now("connect"), On(Remaining) = c
  PROVE  /\ Left(c)' = 4 /\ Topic(c)' = "setup"
         /\ \A d \in Conn \ {c} : Stays(d)
         /\ Busy' <=> Busy
         /\ Remaining >= 3
  <1>1. Remaining \in Nat /\ Remaining' = Remaining - 1 /\ Remaining >= 1
    BY DEF Shorter, Shape
  <1>2. Remaining >= 3
    BY <1>1 DEF Shape, RunShape, FetchShape, RepairShape, EditSteps, FileSteps, IsPlain, IsStep, Now
  <1>3. /\ Busy' <=> Busy
        /\ Fetching' <=> Fetching /\ Remaining > 7
        /\ RunShape => RunShape' /\ (Remaining # 20 => (Latest' <=> Latest))
    BY <1>1, <1>2, PopShape
  <1>4. CASE RunShape
    <2>1. ~Busy /\ ~Fetching /\ ~Busy' /\ ~Fetching'
      BY <1>3, <1>4 DEF RunShape
    <2>2. \/ Remaining = 11 /\ c = "shadow"
          \/ Remaining = 24 /\ ~Latest /\ c = "main"
          \/ Remaining = 27 /\ Latest /\ c = "main"
      <3>1. CASE Remaining < 12
        BY <1>1, <1>2, <1>4, <3>1
           DEF RunShape, EditSteps, UpdateSteps, SetupSteps, IsStep, IsPlain, IsAuth, IsAuthOf, Now
      <3>2. CASE Remaining \in 12..19
        BY <1>1, <1>2, <1>4, <3>2
           DEF RunShape, UpdateSteps, IsStep, IsPlain, IsAuth, IsAuthOf, Now
      <3>3. CASE Remaining >= 20
        BY <1>1, <1>2, <1>4, <3>3
           DEF RunShape, OpenSteps, SetupSteps, IsStep, IsPlain, IsAuth, IsAuthOf, Now
      <3> QED BY <1>1, <1>2, <3>1, <3>2, <3>3
    <2>3. Latest' <=> Latest
      BY <1>3, <1>4, <2>2
    <2> QED
      BY <1>1, <1>2, <1>3, <2>1, <2>2, <2>3
         DEF Left, Topic, Used, RunLeft, RunTopic, Stays, Conn
  <1>5. CASE FetchShape
    <2>1. ~Busy /\ Fetching /\ ~Busy' /\ FileSteps(6, "shadow")
      BY <1>3, <1>5 DEF FetchShape, Fetching
    <2>2. Remaining = 16 /\ c = "shadow"
      BY <1>1, <2>1 DEF FileSteps, IsStep, IsPlain, IsAuth, IsAuthOf, SetupSteps, Now
    <2>3. Fetching'
      BY <1>3, <2>1, <2>2
    <2> QED
      BY <1>1, <1>3, <2>1, <2>2, <2>3
         DEF Left, Topic, Used, FileLeft, FileTopic, Stays, Conn
  <1>6. CASE RepairShape
    <2>1. Busy /\ Busy' /\ FileSteps(2, "main") /\ ~Fetching /\ ~Fetching'
      BY <1>2, <1>3, <1>6 DEF RepairShape, Fetching
    <2>2. Remaining = 12 /\ c = "main"
      BY <1>1, <2>1 DEF FileSteps, IsStep, IsPlain, IsAuth, IsAuthOf, SetupSteps, Now
    <2> QED
      BY <1>1, <1>3, <2>1, <2>2
         DEF Left, Topic, Used, FileLeft, FileTopic, Stays, Conn
  <1> QED BY <1>2, <1>4, <1>5, <1>6 DEF Shape

\* The end of the edit's own connection.
LEMMA ClosePopped ==
  ASSUME Shorter, Shape, Now("close")
  PROVE  /\ Stays("main") /\ ~Used("shadow")' /\ (Busy' <=> Busy)
         /\ Remaining = 5
  <1>1. Remaining \in Nat /\ Remaining' = Remaining - 1 /\ Remaining >= 1
    BY DEF Shorter, Shape
  <1>2. Remaining = 5 /\ RunShape
    <2> USE DEF IsStep, IsPlain, IsAuth, IsAuthOf, SetupSteps, Now
    <2>1. CASE RunShape
      <3>1. CASE Remaining < 12
        BY <1>1, <2>1, <3>1 DEF RunShape, EditSteps, UpdateSteps
      <3>2. CASE Remaining \in 12..19
        BY <1>1, <2>1, <3>2 DEF RunShape, UpdateSteps
      <3>3. CASE Remaining >= 20
        BY <1>1, <2>1, <3>3 DEF RunShape, OpenSteps
      <3> QED BY <1>1, <2>1, <3>1, <3>2, <3>3
    <2>2. ~FetchShape
      BY <1>1 DEF FetchShape, FileSteps
    <2>3. ~RepairShape
      BY <1>1 DEF RepairShape, FileSteps
    <2> QED BY <2>1, <2>2, <2>3 DEF Shape
  <1>3. ~Busy /\ ~Busy' /\ ~Fetching /\ ~Fetching'
    BY <1>1, <1>2, PopShape DEF RunShape
  <1> QED
    BY <1>1, <1>2, <1>3 DEF Left, Topic, Used, RunLeft, RunTopic, Stays

\* Only an offer of the server puts a challenge first.
LEMMA NoChallengeNext ==
  ASSUME Shorter, Shape, Remaining >= 2
  PROVE  ~Now("challenge")'
  <1>1. PICK k \in 1..Remaining - 1 : k = Remaining - 1 /\ Remaining' = k
    BY DEF Shorter
  <1>2. Doing(k)' = Doing(k)
    BY DEF Shorter
  <1>3. Doing(Remaining)' = Doing(k)'
    <2>1. Doing(Remaining)' = todo'[Remaining' + 1 - Remaining'].do
          /\ Doing(k)' = todo'[Remaining' + 1 - k].do
      BY DEF Doing, Back
    <2> QED BY <1>1, <2>1
  <1>4. Remaining \in Nat
    BY DEF Shorter
  <1> QED BY <1>2, <1>3, <1>4, ChallengeFirst DEF Now

-----------------------------------------------------------------------------
(***************************************************************************)
(* Programs counted from their end, and what is put on top of one.         *)
(***************************************************************************)
Size(s) == Len(s)
Cat(s, t) == s \o t

FromEnd(s, k) == s[Size(s) + 1 - k]
Blank == ""
StepOf(d, c, w, f) == [do |-> d, on |-> c, what |-> w, file |-> f]

\* q is r with n steps before it.
Atop(q, r, n) ==
  /\ q \in Seq(GoodStep) /\ Size(r) \in Nat /\ Size(q) = Size(r) + n
  /\ \A k \in 1..Size(r) : FromEnd(q, k) = FromEnd(r, k)

\* Programs stay programs when they are joined, however they are bracketed.
LEMMA CatFacts ==
  ASSUME NEW S
  PROVE  \A s, t \in Seq(S) : Cat(s, t) \in Seq(S)
  BY DEF Cat

LEMMA CatGood ==
  /\ \A s, t \in Seq(GoodStep) : Cat(s, t) \in Seq(GoodStep)
  /\ \A s, t, u \in Seq(GoodStep) : Cat(Cat(s, t), u) = Cat(s, Cat(t, u))
  <1>1. \A s, t \in Seq(GoodStep) : Cat(s, t) \in Seq(GoodStep)
    BY CatFacts, Zenon
  <1>2. \A s, t, u \in Seq(GoodStep) : Cat(Cat(s, t), u) = Cat(s, Cat(t, u))
    <2> TAKE s, t, u \in Seq(GoodStep)
    <2>1. (s \o t) \o u = s \o (t \o u)
      BY ConcatAssociative
    <2> QED BY <2>1 DEF Cat
  <1> QED BY <1>1, <1>2

LEMMA Chain4 ==
  \A x, y, z, u \in Seq(GoodStep) : Cat(Cat(Cat(x, y), z), u) = Cat(x, Cat(y, Cat(z, u)))
  <1> TAKE x, y, z, u \in Seq(GoodStep)
  <1>1. Cat(x, y) \in Seq(GoodStep) /\ Cat(z, u) \in Seq(GoodStep)
    BY CatGood
  <1>2. Cat(Cat(Cat(x, y), z), u) = Cat(Cat(x, y), Cat(z, u))
    BY CatGood, <1>1
  <1> QED BY CatGood, <1>1, <1>2

LEMMA Chain5 ==
  \A x, y, z, u, v \in Seq(GoodStep) :
    Cat(Cat(Cat(Cat(x, y), z), u), v) = Cat(x, Cat(y, Cat(z, Cat(u, v))))
  <1> TAKE x, y, z, u, v \in Seq(GoodStep)
  <1>1. /\ Cat(x, y) \in Seq(GoodStep) /\ Cat(u, v) \in Seq(GoodStep)
        /\ Cat(z, Cat(u, v)) \in Seq(GoodStep)
    BY CatGood
  <1>2. Cat(Cat(Cat(Cat(x, y), z), u), v) = Cat(Cat(x, y), Cat(z, Cat(u, v)))
    BY Chain4, <1>1
  <1> QED BY CatGood, <1>1, <1>2

LEMMA Chain6 ==
  \A x, y, z, u, v, w \in Seq(GoodStep) :
    Cat(Cat(Cat(Cat(Cat(x, y), z), u), v), w) = Cat(x, Cat(y, Cat(z, Cat(u, Cat(v, w)))))
  <1> TAKE x, y, z, u, v, w \in Seq(GoodStep)
  <1>1. /\ Cat(x, y) \in Seq(GoodStep) /\ Cat(v, w) \in Seq(GoodStep)
        /\ Cat(u, Cat(v, w)) \in Seq(GoodStep) /\ Cat(z, Cat(u, Cat(v, w))) \in Seq(GoodStep)
    BY CatGood
  <1> DEFINE p == Cat(x, y)
  <1>3. p \in Seq(GoodStep)
    BY <1>1
  <1> HIDE DEF p
  <1>2. Cat(Cat(Cat(Cat(p, z), u), v), w) = Cat(p, Cat(z, Cat(u, Cat(v, w))))
    BY Chain5, <1>3
  <1> QED BY CatGood, <1>1, <1>2 DEF p

\* Where the steps of two joined programs are.
LEMMA CatIndex ==
  ASSUME NEW S, NEW s \in Seq(S), NEW p \in Seq(S)
  PROVE  /\ Len(Cat(p, s)) = Len(p) + Len(s)
         /\ \A i \in 1..Len(p) : Cat(p, s)[i] = p[i]
         /\ \A i \in Len(p) + 1 .. Len(p) + Len(s) : Cat(p, s)[i] = s[i - Len(p)]
  <1>1. \A i \in 1..Len(p) : (p \o s)[i] = p[i]
    BY ConcatProperties
  <1>2. \A i \in Len(p) + 1 .. Len(p) + Len(s) : (p \o s)[i] = s[i - Len(p)]
    OBVIOUS
  <1>3. Len(p \o s) = Len(p) + Len(s)
    BY ConcatProperties
  <1> QED BY <1>1, <1>2, <1>3 DEF Cat

\* One step, two pieces, one more step on top of a program.
LEMMA OneAtop ==
  ASSUME NEW r \in Seq(GoodStep), NEW d, NEW c, NEW w, NEW f, Do(d, c, w, f) \in Seq(GoodStep)
  PROVE  /\ Atop(Cat(Do(d, c, w, f), r), r, 1)
         /\ FromEnd(Cat(Do(d, c, w, f), r), Size(r) + 1) = StepOf(d, c, w, f)
  <1>1. PICK p \in Seq(GoodStep) : p = Do(d, c, w, f) /\ Len(p) = 1 /\ p[1] = StepOf(d, c, w, f)
    BY DEF Do, StepOf
  <1> DEFINE q == Cat(p, r)
  <1>8. q \in Seq(GoodStep)
    BY CatFacts
  <1>9. Len(q) = Len(p) + Len(r) /\ Len(r) \in Nat
    BY CatIndex
  <1>10. \A i \in 1..Len(p) : q[i] = p[i]
    BY CatIndex
  <1>11. \A i \in Len(p) + 1 .. Len(p) + Len(r) : q[i] = r[i - Len(p)]
    BY CatIndex
  <1>2. q \in Seq(GoodStep) /\ Len(q) = Len(p) + Len(r) /\ Len(r) \in Nat
        /\ (\A i \in 1..Len(p) : q[i] = p[i])
        /\ \A i \in Len(p) + 1 .. Len(p) + Len(r) : q[i] = r[i - Len(p)]
    BY <1>8, <1>9, <1>10, <1>11
  <1> HIDE DEF q
  <1>3. Size(q) = Size(r) + 1 /\ Size(r) \in Nat
    BY <1>1, <1>2 DEF Size
  <1>4. q[1] = StepOf(d, c, w, f)
    BY <1>1, <1>2
  <1>5. \A i \in 2..Size(r) + 1 : q[i] = r[i - 1]
    BY <1>1, <1>2 DEF Size
  <1>6. FromEnd(q, Size(r) + 1) = StepOf(d, c, w, f)
    <2>1. Size(q) + 1 - (Size(r) + 1) = 1
      BY <1>3
    <2> QED BY <2>1, <1>4 DEF FromEnd
  <1>7. ASSUME NEW k \in 1..Size(r) PROVE FromEnd(q, k) = FromEnd(r, k)
    <2> DEFINE i == Size(q) + 1 - k
    <2>1. i \in 2..Size(r) + 1 /\ i - 1 = Size(r) + 1 - k
      BY <1>3
    <2>2. q[i] = r[i - 1]
      BY <2>1, <1>5
    <2> QED BY <2>1, <2>2 DEF FromEnd
  <1> QED BY <1>1, <1>2, <1>3, <1>6, <1>7 DEF Atop, q

LEMMA AtopTwice ==
  ASSUME NEW q, NEW r, NEW s, NEW m \in Nat, NEW n \in Nat, Atop(q, r, m), Atop(r, s, n)
  PROVE  Atop(q, s, n + m)
  BY DEF Atop

\* As OneAtop, for a program that is already on top of another one.
LEMMA MoreAtop ==
  ASSUME NEW r, NEW s, NEW n \in Nat, Atop(r, s, n),
         NEW d, NEW c, NEW w, NEW f, Do(d, c, w, f) \in Seq(GoodStep)
  PROVE  /\ Atop(Cat(Do(d, c, w, f), r), s, n + 1)
         /\ FromEnd(Cat(Do(d, c, w, f), r), Size(s) + (n + 1)) = StepOf(d, c, w, f)
         /\ \A k \in 1..Size(s) + n : FromEnd(Cat(Do(d, c, w, f), r), k) = FromEnd(r, k)
  <1>1. r \in Seq(GoodStep) /\ Size(r) = Size(s) + n /\ Size(s) \in Nat
    BY DEF Atop
  <1>2. /\ Atop(Cat(Do(d, c, w, f), r), r, 1)
        /\ FromEnd(Cat(Do(d, c, w, f), r), Size(r) + 1) = StepOf(d, c, w, f)
    BY <1>1, OneAtop
  <1>3. Atop(Cat(Do(d, c, w, f), r), s, n + 1)
    BY <1>2, AtopTwice
  <1>4. \A k \in 1..Size(s) + n : FromEnd(Cat(Do(d, c, w, f), r), k) = FromEnd(r, k)
    BY <1>1, <1>2 DEF Atop
  <1>5. Size(r) + 1 = Size(s) + (n + 1)
    BY <1>1
  <1> QED BY <1>2, <1>3, <1>4, <1>5

\* The steps of Setup on top of a program.
LEMMA SetupAtop ==
  ASSUME NEW c \in Conn, NEW r \in Seq(GoodStep)
  PROVE  LET q == Cat(Setup(c), r)
             n == Size(r) IN
         /\ Atop(q, r, 4)
         /\ FromEnd(q, n + 1) = StepOf("await", c, "repos-info", NoFile)
         /\ FromEnd(q, n + 2) = StepOf("auth", c, Blank, NoFile)
         /\ FromEnd(q, n + 3) = StepOf("send", c, "greeting-response", NoFile)
         /\ FromEnd(q, n + 4) = StepOf("await", c, "greeting", NoFile)
  <1> DEFINE a == Do("await", c, "greeting", NoFile)
             b == Do("send", c, "greeting-response", NoFile)
             d == Do("auth", c, Blank, NoFile)
             e == Do("await", c, "repos-info", NoFile)
             G == Seq(GoodStep)
             n == Size(r)
  <1>1. a \in G /\ e \in G
    BY AwaitGood DEF Await, Said
  <1>2. b \in G
    BY SendGood DEF Send, Heard
  <1>3. d \in G
    BY SetupGood DEF CheckAuth, Blank
  <1>4. Setup(c) = Cat(Cat(Cat(a, b), d), e)
    BY DEF Setup, Await, Send, CheckAuth, Blank, Cat
  <1>5. Cat(Setup(c), r) = Cat(a, Cat(b, Cat(d, Cat(e, r))))
    <2> HIDE DEF a, b, d, e
    <2> QED BY <1>1, <1>2, <1>3, <1>4, Chain5
  <1>6. /\ Atop(Cat(e, r), r, 1) /\ FromEnd(Cat(e, r), n + 1) = StepOf("await", c, "repos-info", NoFile)
    BY <1>1, OneAtop
  <1>7. n \in Nat
    BY <1>6 DEF Atop
  <1>8. /\ Atop(Cat(d, Cat(e, r)), r, 2) /\ FromEnd(Cat(d, Cat(e, r)), n + 2) = StepOf("auth", c, Blank, NoFile)
        /\ \A k \in 1..n + 1 : FromEnd(Cat(d, Cat(e, r)), k) = FromEnd(Cat(e, r), k)
    BY <1>3, <1>6, MoreAtop
  <1>9. /\ Atop(Cat(b, Cat(d, Cat(e, r))), r, 3)
        /\ FromEnd(Cat(b, Cat(d, Cat(e, r))), n + 3) = StepOf("send", c, "greeting-response", NoFile)
        /\ \A k \in 1..n + 2 : FromEnd(Cat(b, Cat(d, Cat(e, r))), k) = FromEnd(Cat(d, Cat(e, r)), k)
    BY <1>2, <1>8, MoreAtop
  <1>10. /\ Atop(Cat(a, Cat(b, Cat(d, Cat(e, r)))), r, 4)
         /\ FromEnd(Cat(a, Cat(b, Cat(d, Cat(e, r)))), n + 4) = StepOf("await", c, "greeting", NoFile)
         /\ \A k \in 1..n + 3 :
              FromEnd(Cat(a, Cat(b, Cat(d, Cat(e, r)))), k) = FromEnd(Cat(b, Cat(d, Cat(e, r))), k)
    BY <1>1, <1>9, MoreAtop
  <1> HIDE DEF a, b, d, e, n, G
  <1>11. /\ n + 1 \in 1..n + 1 /\ n + 1 \in 1..n + 2 /\ n + 1 \in 1..n + 3
         /\ n + 2 \in 1..n + 2 /\ n + 2 \in 1..n + 3 /\ n + 3 \in 1..n + 3
    BY <1>7
  <1> QED BY <1>5, <1>6, <1>8, <1>9, <1>10, <1>11 DEF n

\* The steps of FileAnswer, of get-file and of its repetition on top of a program.
LEMMA FileAnswerAtop ==
  ASSUME NEW c \in Conn, NEW r \in Seq(GoodStep)
  PROVE  LET q == Cat(FileAnswer(c), r)
             n == Size(r) IN
         /\ Atop(q, r, 3)
         /\ FromEnd(q, n + 1) = StepOf("await", c, "ok", NoFile)
         /\ FromEnd(q, n + 2) = StepOf("contents", c, Blank, NoFile)
         /\ FromEnd(q, n + 3) = StepOf("await", c, "file", NoFile)
  <1> DEFINE a == Do("await", c, "file", NoFile)
             b == Do("contents", c, Blank, NoFile)
             d == Do("await", c, "ok", NoFile)
             n == Size(r)
  <1>1. a \in Seq(GoodStep) /\ d \in Seq(GoodStep)
    BY AwaitGood DEF Await, Said
  <1>2. b \in Seq(GoodStep)
    BY OtherGood, Zenon DEF Blank
  <1>3. FileAnswer(c) = Cat(Cat(a, b), d)
    BY DEF FileAnswer, Await, Blank, Cat
  <1>4. Cat(FileAnswer(c), r) = Cat(a, Cat(b, Cat(d, r)))
    <2> HIDE DEF a, b, d
    <2> QED BY <1>1, <1>2, <1>3, Chain4
  <1>5. /\ Atop(Cat(d, r), r, 1) /\ FromEnd(Cat(d, r), n + 1) = StepOf("await", c, "ok", NoFile)
    BY <1>1, OneAtop
  <1>6. n \in Nat
    BY <1>5 DEF Atop
  <1>7. /\ Atop(Cat(b, Cat(d, r)), r, 2)
        /\ FromEnd(Cat(b, Cat(d, r)), n + 2) = StepOf("contents", c, Blank, NoFile)
        /\ \A k \in 1..n + 1 : FromEnd(Cat(b, Cat(d, r)), k) = FromEnd(Cat(d, r), k)
    BY <1>2, <1>5, MoreAtop
  <1>8. /\ Atop(Cat(a, Cat(b, Cat(d, r))), r, 3)
        /\ FromEnd(Cat(a, Cat(b, Cat(d, r))), n + 3) = StepOf("await", c, "file", NoFile)
        /\ \A k \in 1..n + 2 : FromEnd(Cat(a, Cat(b, Cat(d, r))), k) = FromEnd(Cat(b, Cat(d, r)), k)
    BY <1>1, <1>7, MoreAtop
  <1> HIDE DEF a, b, d, n
  <1>9. n + 1 \in 1..n + 1 /\ n + 1 \in 1..n + 2 /\ n + 2 \in 1..n + 2
    BY <1>6
  <1> QED BY <1>4, <1>5, <1>7, <1>8, <1>9 DEF n

LEMMA AskAtop ==
  ASSUME NEW c \in Conn, NEW f \in File, NEW g \in File \cup {NoFile}, NEW r \in Seq(GoodStep)
  PROVE  LET q == Cat(Do("send", c, "get-file", f), Cat(Do("auth", c, Blank, g), Cat(FileAnswer(c), r)))
             n == Size(r) IN
         /\ Atop(q, r, 5)
         /\ FromEnd(q, n + 1) = StepOf("await", c, "ok", NoFile)
         /\ FromEnd(q, n + 2) = StepOf("contents", c, Blank, NoFile)
         /\ FromEnd(q, n + 3) = StepOf("await", c, "file", NoFile)
         /\ FromEnd(q, n + 4) = StepOf("auth", c, Blank, g)
         /\ FromEnd(q, n + 5) = StepOf("send", c, "get-file", f)
  <1> DEFINE a == Do("send", c, "get-file", f)
             b == Do("auth", c, Blank, g)
             w == Cat(FileAnswer(c), r)
             n == Size(r)
  <1>1. a \in Seq(GoodStep)
    BY AskFileGood
  <1>2. b \in Seq(GoodStep)
    BY OtherGood, Zenon DEF Blank
  <1>3. /\ Atop(w, r, 3) /\ FromEnd(w, n + 1) = StepOf("await", c, "ok", NoFile)
        /\ FromEnd(w, n + 2) = StepOf("contents", c, Blank, NoFile)
        /\ FromEnd(w, n + 3) = StepOf("await", c, "file", NoFile)
    BY FileAnswerAtop
  <1>4. n \in Nat
    BY <1>3 DEF Atop
  <1> HIDE DEF w
  <1>5. /\ Atop(Cat(b, w), r, 4) /\ FromEnd(Cat(b, w), n + 4) = StepOf("auth", c, Blank, g)
        /\ \A k \in 1..n + 3 : FromEnd(Cat(b, w), k) = FromEnd(w, k)
    BY <1>2, <1>3, MoreAtop
  <1>6. /\ Atop(Cat(a, Cat(b, w)), r, 5)
        /\ FromEnd(Cat(a, Cat(b, w)), n + 5) = StepOf("send", c, "get-file", f)
        /\ \A k \in 1..n + 4 : FromEnd(Cat(a, Cat(b, w)), k) = FromEnd(Cat(b, w), k)
    BY <1>1, <1>5, MoreAtop
  <1> HIDE DEF a, b, n
  <1>9. /\ n + 1 \in 1..n + 3 /\ n + 1 \in 1..n + 4 /\ n + 2 \in 1..n + 3
        /\ n + 2 \in 1..n + 4 /\ n + 3 \in 1..n + 3 /\ n + 3 \in 1..n + 4 /\ n + 4 \in 1..n + 4
    BY <1>4
  <1> QED BY <1>3, <1>5, <1>6, <1>9 DEF n, w, a, b

LEMMA GetFileAtop ==
  ASSUME NEW c \in Conn, NEW f \in File, NEW r \in Seq(GoodStep)
  PROVE  LET q == GetFile(c, f) \o r
             n == Size(r) IN
         /\ Atop(q, r, 5)
         /\ FromEnd(q, n + 1) = StepOf("await", c, "ok", NoFile)
         /\ FromEnd(q, n + 2) = StepOf("contents", c, Blank, NoFile)
         /\ FromEnd(q, n + 3) = StepOf("await", c, "file", NoFile)
         /\ FromEnd(q, n + 4) = StepOf("auth", c, Blank, f)
         /\ FromEnd(q, n + 5) = StepOf("send", c, "get-file", f)
  <1> DEFINE a == Do("send", c, "get-file", f)
             b == Do("auth", c, Blank, f)
             w == FileAnswer(c)
  <1>1. GetFile(c, f) \o r = Cat(Cat(Cat(a, b), w), r)
    BY DEF GetFile, Blank, Cat
  <1>2. a \in Seq(GoodStep) /\ w \in Seq(GoodStep)
    BY AskFileGood, FileAnswerGood
  <1>3. b \in Seq(GoodStep)
    BY OtherGood, Zenon DEF Blank
  <1>4. Cat(Cat(Cat(a, b), w), r) = Cat(a, Cat(b, Cat(w, r)))
    <2> HIDE DEF a, b, w
    <2> QED BY <1>2, <1>3, Chain4
  <1> QED BY <1>1, <1>4, AskAtop

LEMMA TryReconnectAtop ==
  ASSUME NEW c \in Conn, NEW f \in File, NEW r \in Seq(GoodStep)
  PROVE  LET q == Cat(TryReconnect(c, f), r)
             n == Size(r) IN
         /\ Atop(q, r, 10)
         /\ FromEnd(q, n + 1) = StepOf("await", c, "ok", NoFile)
         /\ FromEnd(q, n + 2) = StepOf("contents", c, Blank, NoFile)
         /\ FromEnd(q, n + 3) = StepOf("await", c, "file", NoFile)
         /\ FromEnd(q, n + 4) = StepOf("auth", c, Blank, NoFile)
         /\ FromEnd(q, n + 5) = StepOf("send", c, "get-file", f)
         /\ FromEnd(q, n + 6) = StepOf("await", c, "repos-info", NoFile)
         /\ FromEnd(q, n + 7) = StepOf("auth", c, Blank, NoFile)
         /\ FromEnd(q, n + 8) = StepOf("send", c, "greeting-response", NoFile)
         /\ FromEnd(q, n + 9) = StepOf("await", c, "greeting", NoFile)
         /\ FromEnd(q, n + 10) = StepOf("connect", c, "again", NoFile)
  <1> DEFINE a == Do("connect", c, "again", NoFile)
             b == Setup(c)
             d == Do("send", c, "get-file", f)
             e == Do("auth", c, Blank, NoFile)
             w == FileAnswer(c)
             p == Cat(d, Cat(e, Cat(w, r)))
             n == Size(r)
  <1>1. Cat(TryReconnect(c, f), r) = Cat(Cat(Cat(Cat(Cat(a, b), d), e), w), r)
    BY DEF TryReconnect, CheckAuth, Blank, Cat
  <1>2. b \in Seq(GoodStep) /\ d \in Seq(GoodStep) /\ w \in Seq(GoodStep)
    BY AskFileGood, FileAnswerGood, SetupGood
  <1>3. a \in Seq(GoodStep)
    BY OtherGood, Zenon
  <1>4. e \in Seq(GoodStep)
    BY OtherGood, Zenon DEF Blank
  <1>5. Cat(Cat(Cat(Cat(Cat(a, b), d), e), w), r) = Cat(a, Cat(b, p))
    <2> HIDE DEF a, b, d, e, w
    <2> QED BY <1>2, <1>3, <1>4, Chain6
  <1>6. /\ Atop(p, r, 5)
        /\ FromEnd(p, n + 1) = StepOf("await", c, "ok", NoFile)
        /\ FromEnd(p, n + 2) = StepOf("contents", c, Blank, NoFile)
        /\ FromEnd(p, n + 3) = StepOf("await", c, "file", NoFile)
        /\ FromEnd(p, n + 4) = StepOf("auth", c, Blank, NoFile)
        /\ FromEnd(p, n + 5) = StepOf("send", c, "get-file", f)
    BY AskAtop
  <1> HIDE DEF p
  <1>7. n \in Nat /\ p \in Seq(GoodStep) /\ Size(p) = n + 5
    BY <1>6 DEF Atop
  <1> DEFINE s == Cat(b, p)
  <1>8. /\ Atop(s, p, 4)
        /\ FromEnd(s, Size(p) + 1) = StepOf("await", c, "repos-info", NoFile)
        /\ FromEnd(s, Size(p) + 2) = StepOf("auth", c, Blank, NoFile)
        /\ FromEnd(s, Size(p) + 3) = StepOf("send", c, "greeting-response", NoFile)
        /\ FromEnd(s, Size(p) + 4) = StepOf("await", c, "greeting", NoFile)
    BY <1>7, SetupAtop
  <1>9. Atop(s, r, 9)
    BY <1>6, <1>8, AtopTwice
  <1>10. \A k \in 1..n + 5 : FromEnd(s, k) = FromEnd(p, k)
    BY <1>7, <1>8 DEF Atop
  <1> HIDE DEF s
  <1>11. /\ Atop(Cat(a, s), r, 10)
         /\ FromEnd(Cat(a, s), n + 10) = StepOf("connect", c, "again", NoFile)
         /\ \A k \in 1..n + 9 : FromEnd(Cat(a, s), k) = FromEnd(s, k)
    BY <1>3, <1>9, MoreAtop
  <1> HIDE DEF a, n
  <1>12. /\ \A k \in 1..5 : n + k \in 1..n + 5
         /\ \A k \in 1..9 : n + k \in 1..n + 9
         /\ Size(p) + 1 = n + 6 /\ Size(p) + 2 = n + 7 /\ Size(p) + 3 = n + 8 /\ Size(p) + 4 = n + 9
    BY <1>7
  <1>13. /\ FromEnd(s, n + 6) = StepOf("await", c, "repos-info", NoFile)
         /\ FromEnd(s, n + 7) = StepOf("auth", c, Blank, NoFile)
         /\ FromEnd(s, n + 8) = StepOf("send", c, "greeting-response", NoFile)
         /\ FromEnd(s, n + 9) = StepOf("await", c, "greeting", NoFile)
    BY <1>8, <1>12
  <1>14. /\ \A k \in 1..5 : FromEnd(Cat(a, s), n + k) = FromEnd(p, n + k)
         /\ \A k \in 6..9 : FromEnd(Cat(a, s), n + k) = FromEnd(s, n + k)
    BY <1>7, <1>10, <1>11, <1>12
  <1>15. /\ FromEnd(Cat(a, s), n + 1) = FromEnd(p, n + 1) /\ FromEnd(Cat(a, s), n + 2) = FromEnd(p, n + 2)
         /\ FromEnd(Cat(a, s), n + 3) = FromEnd(p, n + 3) /\ FromEnd(Cat(a, s), n + 4) = FromEnd(p, n + 4)
         /\ FromEnd(Cat(a, s), n + 5) = FromEnd(p, n + 5) /\ FromEnd(Cat(a, s), n + 6) = FromEnd(s, n + 6)
         /\ FromEnd(Cat(a, s), n + 7) = FromEnd(s, n + 7) /\ FromEnd(Cat(a, s), n + 8) = FromEnd(s, n + 8)
         /\ FromEnd(Cat(a, s), n + 9) = FromEnd(s, n + 9)
    BY <1>14
  <1> QED BY <1>1, <1>5, <1>6, <1>11, <1>13, <1>15 DEF s, n

-----------------------------------------------------------------------------
(***************************************************************************)
(* The client's program after each of the moves that replace a part of it. *)
(***************************************************************************)
LEMMA StepParts ==
  ASSUME NEW d, NEW c, NEW w, NEW f
  PROVE  StepOf(d, c, w, f).do = d /\ StepOf(d, c, w, f).on = c /\ StepOf(d, c, w, f).what = w
         /\ StepOf(d, c, w, f).file = f
  BY DEF StepOf

\* todo read from its end.
LEMMA BackNow ==
  /\ Remaining = Size(todo)
  /\ \A k : Back(k) = FromEnd(todo, k)
  /\ Remaining' = Size(todo')
  /\ \A k : Back(k)' = FromEnd(todo', k)
  <1>1. Remaining = Size(todo) /\ Remaining' = Size(todo')
    BY DEF Remaining, Size
  <1>2. \A k : Back(k) = FromEnd(todo, k)
    BY <1>1 DEF Back, FromEnd
  <1>3. \A k : Back(k)' = FromEnd(todo', k)
    BY <1>1 DEF Back, FromEnd
  <1> QED BY <1>1, <1>2, <1>3

\* Step k is as the record s says.
Reads(k, s) == Doing(k) = s.do /\ On(k) = s.on /\ Saying(k) = s.what /\ For(k) = s.file

LEMMA BackReads ==
  /\ \A k, s : FromEnd(todo', k) = s => Reads(k, s)'
  /\ \A k : FromEnd(todo', k) = FromEnd(todo, k) =>
       /\ Doing(k)' = Doing(k) /\ On(k)' = On(k) /\ Saying(k)' = Saying(k) /\ For(k)' = For(k)
  <1>1. ASSUME NEW k, NEW s, FromEnd(todo', k) = s PROVE Reads(k, s)'
    BY <1>1, BackNow DEF Reads, Doing, On, Saying, For
  <1>2. ASSUME NEW k, FromEnd(todo', k) = FromEnd(todo, k)
        PROVE  Doing(k)' = Doing(k) /\ On(k)' = On(k) /\ Saying(k)' = Saying(k) /\ For(k)' = For(k)
    BY <1>2, BackNow DEF Doing, On, Saying, For
  <1> QED BY <1>1, <1>2

\* What is left of a program after its first n steps.
LEMMA DroppedFacts ==
  ASSUME NEW s \in Seq(GoodStep), NEW n \in 1..Len(s)
  PROVE  LET r == SubSeq(s, n + 1, Len(s)) IN
         /\ r \in Seq(GoodStep) /\ Size(r) = Size(s) - n
         /\ \A k \in 1..Size(s) - n : FromEnd(r, k) = FromEnd(s, k)
  <1> DEFINE r == SubSeq(s, n + 1, Len(s))
  <1>1. Len(s) \in Nat /\ n + 1 \in Int
    OBVIOUS
  <1>2. \A i \in n + 1..Len(s) : s[i] \in GoodStep
    OBVIOUS
  <1>3. /\ r \in Seq(GoodStep)
        /\ Len(r) = IF n + 1 <= Len(s) THEN Len(s) - (n + 1) + 1 ELSE 0
        /\ \A i \in 1..Len(s) - (n + 1) + 1 : r[i] = s[n + 1 + i - 1]
    BY <1>1, <1>2, SubSeqProperties
  <1> HIDE DEF r
  <1>4. Size(s) \in Nat /\ n \in 1..Size(s) /\ Size(r) = Size(s) - n
    BY <1>1, <1>3 DEF Size
  <1>5. \A i \in 1..Size(s) - n : r[i] = s[n + i]
    BY <1>1, <1>3 DEF Size
  <1>6. ASSUME NEW k \in 1..Size(s) - n PROVE FromEnd(r, k) = FromEnd(s, k)
    <2>1. PICK i \in 1..Size(s) - n : i = Size(r) + 1 - k /\ n + i = Size(s) + 1 - k
      BY <1>4
    <2>2. r[i] = s[n + i]
      BY <1>5
    <2> QED BY <2>1, <2>2 DEF FromEnd
  <1> QED BY <1>3, <1>4, <1>6 DEF r

\* The answer to a challenge is awaited in the place of the authentication.
Swapped(n) ==
  /\ n \in Nat /\ n >= 1 /\ Remaining = n /\ Remaining' = n
  /\ Doing(n) = "auth" /\ Doing(n)' = "challenge" /\ Saying(n)' = "ok"
  /\ On(n)' = On(n) /\ For(n)' = For(n)
  /\ \A k \in 1..n - 1 :
       Doing(k)' = Doing(k) /\ On(k)' = On(k) /\ Saying(k)' = Saying(k) /\ For(k)' = For(k)

\* The offer answered, a challenge is in the place of the step that read it.
LEMMA SwappedFacts ==
  ASSUME ClientTyped, todo # <<>>, Now("auth"),
         todo' = Do("challenge", Step.on, "ok", Step.file) \o Tail(todo)
  PROVE  Swapped(Remaining)
  <1>1. Remaining \in Nat /\ Remaining >= 1 /\ Step.on = On(Remaining)
        /\ Step.file = For(Remaining) /\ todo \in Seq(GoodStep)
    BY BackFacts DEF ClientTyped
  <1>2. PICK n \in Nat : n = Remaining /\ n >= 1
    BY <1>1
  <1>11. PICK x, y : x = Step.on /\ y = Step.file
    OBVIOUS
  <1> DEFINE r == Tail(todo)
             a == Do("challenge", x, "ok", y)
  <1>3. r \in Seq(GoodStep) /\ Size(r) = n - 1
        /\ \A k \in 1..n - 1 : FromEnd(r, k) = FromEnd(todo, k)
    <2>1. Len(todo) = n /\ 1 \in 1..Len(todo) /\ 1 + 1 = 2
      BY <1>2 DEF Remaining
    <2>2. r = SubSeq(todo, 1 + 1, Len(todo))
      BY <1>1, <2>1
    <2>3. Size(todo) = n
      BY <2>1 DEF Size
    <2> HIDE DEF r
    <2> QED BY <1>1, <2>1, <2>2, <2>3, DroppedFacts
  <1>4. a \in Seq(GoodStep)
    <2>1. x \in Conn /\ y \in File \cup {NoFile}
      BY <1>11, StepTyped
    <2>2. StepOf("challenge", x, "ok", y) \in GoodStep
      BY <2>1 DEF GoodStep, StepRecord, Said, StepOf
    <2> QED BY <2>2, OneGood DEF StepOf
  <1>5. todo' = Cat(a, r)
    BY <1>11 DEF Cat
  <1>6. /\ Atop(todo', r, 1) /\ FromEnd(todo', Size(r) + 1) = StepOf("challenge", x, "ok", y)
    <2> HIDE DEF r
    <2>0. r \in Seq(GoodStep)
      BY <1>3
    <2>1. Atop(Cat(a, r), r, 1)
      BY <2>0, <1>4, OneAtop
    <2>2. FromEnd(Cat(a, r), Size(r) + 1) = StepOf("challenge", x, "ok", y)
      BY <2>0, <1>4, OneAtop
    <2> QED BY <2>1, <2>2, <1>5
  <1>7. /\ Remaining' = n /\ FromEnd(todo', n) = StepOf("challenge", On(n), "ok", For(n))
        /\ \A k \in 1..n - 1 : FromEnd(todo', k) = FromEnd(todo, k)
    <2> HIDE DEF r
    <2>1. Size(r) + 1 = n
      BY <1>3, <1>2
    <2> QED BY <1>1, <1>2, <1>3, <1>6, <1>11, <2>1, BackNow DEF Atop
  <1>9. Doing(n)' = "challenge" /\ Saying(n)' = "ok" /\ On(n)' = On(n) /\ For(n)' = For(n)
    BY <1>7, BackNow DEF Doing, Saying, On, For, StepOf
  <1>10. \A k \in 1..n - 1 :
           Doing(k)' = Doing(k) /\ On(k)' = On(k) /\ Saying(k)' = Saying(k) /\ For(k)' = For(k)
    BY <1>7, BackReads
  <1> QED BY <1>2, <1>7, <1>9, <1>10 DEF Swapped, Now

\* It leaves every step where it was, and the shape with it.
LEMMA SwappedStay ==
  ASSUME NEW n, Swapped(n)
  PROVE  /\ \A k \in Nat \ {0} : \A d, c, w :
              d # "auth" /\ IsStep(k, d, c, w) => IsStep(k, d, c, w)'
         /\ \A k \in Nat \ {0} : \A d, c : d # "auth" /\ IsPlain(k, d, c) => IsPlain(k, d, c)'
         /\ \A k \in Nat \ {0} : \A c : IsAuthOf(k, c) => IsAuthOf(k, c)'
         /\ \A k \in Nat \ {0} : \A c : IsAuth(k, c) => IsAuth(k, c)'
  <1>1. ASSUME NEW k \in Nat \ {0}, NEW d, NEW c, NEW w, d # "auth", IsStep(k, d, c, w)
        PROVE  IsStep(k, d, c, w)'
    BY <1>1 DEF Swapped, IsStep
  <1>2. ASSUME NEW k \in Nat \ {0}, NEW d, NEW c, d # "auth", IsPlain(k, d, c)
        PROVE  IsPlain(k, d, c)'
    BY <1>2 DEF Swapped, IsPlain
  <1>3. ASSUME NEW k \in Nat \ {0}, NEW c, IsAuthOf(k, c) PROVE IsAuthOf(k, c)'
    BY <1>3 DEF Swapped, IsAuthOf
  <1>4. ASSUME NEW k \in Nat \ {0}, NEW c, IsAuth(k, c) PROVE IsAuth(k, c)'
    BY <1>3, <1>4 DEF Swapped, IsAuth
  <1> QED BY <1>1, <1>2, <1>3, <1>4

LEMMA SwappedShape ==
  ASSUME NEW n, Swapped(n), Shape
  PROVE  /\ Shape' /\ (Busy' <=> Busy)
         /\ \A c \in Conn : Left(c)' = Left(c) /\ Topic(c)' = Topic(c) /\ (Used(c)' <=> Used(c))
  <1>1. /\ n \in Nat /\ n >= 1 /\ Remaining = n /\ Remaining' = n /\ Doing(n) = "auth"
        /\ \A k \in 1..n - 1 : Saying(k)' = Saying(k) /\ For(k)' = For(k)
        /\ For(n)' = For(n)
    BY DEF Swapped
  <1>2. /\ EditSteps => EditSteps' /\ n # 2
        /\ UpdateSteps => UpdateSteps'
    BY SwappedStay, <1>1 DEF EditSteps, UpdateSteps, SetupSteps, IsStep
  <1>3. \A c : SetupSteps(20, c) => SetupSteps(20, c)'
    BY SwappedStay DEF SetupSteps
  <1>4. \A c : SetupSteps(23, c) => SetupSteps(23, c)'
    BY SwappedStay DEF SetupSteps
  <1>5. Shape => n # 2
    BY <1>1 DEF Shape, RunShape, FetchShape, RepairShape, EditSteps, IsStep
  <1>6. Busy' <=> Busy
    BY <1>1, <1>5 DEF Busy
  <1>7. n # 7
    BY <1>1 DEF Shape, RunShape, FetchShape, RepairShape, UpdateSteps, SetupSteps, FileSteps, IsStep
  <1>8. Fetching' <=> Fetching
    BY <1>1, <1>6, <1>7 DEF Fetching
  <1>9. RunShape => n # 20
    BY <1>1 DEF RunShape, OpenSteps, Latest, SetupSteps, IsStep
  <1>10. RunShape => (Latest' <=> Latest)
    BY <1>1, <1>9 DEF Latest
  <1>11. RunShape => OpenSteps'
    <2>1. CASE RunShape /\ Latest
      <3>1. Latest' /\ OpenSteps
        BY <1>10, <2>1 DEF RunShape
      <3> QED BY <1>1, <2>1, <3>1, <1>4, SwappedStay DEF OpenSteps
    <2>2. CASE RunShape /\ ~Latest
      <3>1. ~Latest' /\ OpenSteps
        BY <1>10, <2>2 DEF RunShape
      <3> QED BY <1>1, <2>2, <3>1, <1>3, SwappedStay DEF OpenSteps
    <2> QED BY <2>1, <2>2
  <1>12. RunShape => RunShape'
    BY <1>2, <1>6, <1>8, <1>11 DEF RunShape
  <1>13. ASSUME NEW b \in {2, 6}, NEW c, FileSteps(b, c) PROVE FileSteps(b, c)'
    <2>1. /\ b + 1 \in Nat \ {0} /\ b + 2 \in Nat \ {0} /\ b + 3 \in Nat \ {0}
          /\ b + 4 \in Nat \ {0} /\ b + 5 \in Nat \ {0} /\ b + 6 \in Nat \ {0}
          /\ b + 6 + 1 \in Nat \ {0} /\ b + 6 + 2 \in Nat \ {0} /\ b + 6 + 3 \in Nat \ {0}
          /\ b + 10 \in Nat \ {0}
      OBVIOUS
    <2>2. SetupSteps(b + 6, c)'
      BY <1>13, <2>1, SwappedStay DEF FileSteps, SetupSteps
    <2>3. /\ IsStep(b + 1, "await", c, "ok")' /\ IsPlain(b + 2, "contents", c)'
          /\ IsStep(b + 3, "await", c, "file")' /\ IsAuthOf(b + 4, c)'
          /\ IsStep(b + 5, "send", c, "get-file")' /\ IsStep(b + 10, "connect", c, "again")'
      BY <1>13, <2>1, SwappedStay DEF FileSteps
    <2>4. \A k \in 1..n : For(k)' = For(k)
      BY <1>1
    <2>5. /\ n > b + 4 => For(b + 4)' \in {NoFile, For(b + 5)'}
          /\ n > b + 5 => For(b + 4)' = NoFile
      BY <1>1, <1>13, <2>4 DEF FileSteps
    <2> QED BY <1>1, <1>13, <2>2, <2>3, <2>5 DEF FileSteps
  <1>14. FetchShape => FetchShape'
    BY <1>2, <1>8, <1>13 DEF FetchShape
  <1>15. RepairShape => RepairShape'
    BY <1>1, <1>6, <1>13, SwappedStay DEF RepairShape
  <1>16. Shape'
    BY <1>1, <1>12, <1>14, <1>15 DEF Shape
  <1>17. CASE RunShape
    <2>1. ~Busy /\ ~Fetching /\ ~Busy' /\ ~Fetching' /\ (Latest' <=> Latest)
      BY <1>6, <1>8, <1>10, <1>17 DEF RunShape
    <2>2. RunLeft(n)' = RunLeft(n) /\ RunTopic(n)' = RunTopic(n)
      BY <2>1 DEF RunLeft, RunTopic
    <2>3. RunLeft(Remaining)' = RunLeft(n)' /\ RunTopic(Remaining)' = RunTopic(n)'
      BY <1>1 DEF RunLeft, RunTopic
    <2>4. RunLeft(Remaining) = RunLeft(n) /\ RunTopic(Remaining) = RunTopic(n)
      BY <1>1
    <2> QED BY <1>1, <2>1, <2>2, <2>3, <2>4, <1>6, <1>16 DEF Left, Topic, Used
  <1>18. CASE FetchShape \/ RepairShape
    <2>1. Fetching \/ Busy
      BY <1>18 DEF FetchShape, RepairShape
    <2> QED BY <1>1, <1>6, <1>8, <1>16, <2>1 DEF Left, Topic, Used, FileLeft, FileTopic, Conn
  <1> QED BY <1>17, <1>18 DEF Shape

\* Where in the shape the client can be, by the step it is at.
LEMMA EditAt ==
  ASSUME Remaining \in Nat, Shape, Now("edit")
  PROVE  RunShape /\ Remaining = 6
  <1> USE DEF IsStep, IsPlain, IsAuth, IsAuthOf, SetupSteps, Now
  <1>0. Remaining >= 1
    BY DEF Shape
  <1>1. CASE RunShape
    <2>1. CASE Remaining < 12
      BY <1>0, <1>1, <2>1 DEF RunShape, EditSteps, UpdateSteps
    <2>2. CASE Remaining \in 12..19
      BY <1>1, <2>2 DEF RunShape, UpdateSteps
    <2>3. CASE Remaining >= 20
      BY <1>1, <2>3 DEF RunShape, OpenSteps
    <2> QED BY <1>1, <2>1, <2>2, <2>3
  <1>2. ~FetchShape
    BY DEF FetchShape, FileSteps
  <1>3. ~RepairShape
    BY DEF RepairShape, FileSteps
  <1> QED BY <1>1, <1>2, <1>3 DEF Shape

LEMMA RepairAt ==
  ASSUME Remaining \in Nat, Shape, Now("repair")
  PROVE  Remaining = 2 /\ ~Fetching /\ On(Remaining) = "main"
  <1> USE DEF IsStep, IsPlain, IsAuth, IsAuthOf, SetupSteps, Now
  <1>0. Remaining >= 1
    BY DEF Shape
  <1>1. CASE RunShape
    <2>1. CASE Remaining < 12
      BY <1>0, <1>1, <2>1 DEF RunShape, EditSteps, UpdateSteps
    <2>2. CASE Remaining \in 12..19
      BY <1>1, <2>2 DEF RunShape, UpdateSteps
    <2>3. CASE Remaining >= 20
      BY <1>1, <2>3 DEF RunShape, OpenSteps
    <2> QED BY <1>1, <2>1, <2>2, <2>3
  <1>2. ~FetchShape
    BY DEF FetchShape, FileSteps
  <1>3. CASE RepairShape
    BY <1>0, <1>3 DEF RepairShape, FileSteps, Fetching
  <1> QED BY <1>1, <1>2, <1>3 DEF Shape

LEMMA SaveAt ==
  ASSUME Remaining \in Nat, Shape, Now("save")
  PROVE  Remaining = 1
  <1> USE DEF IsStep, IsPlain, IsAuth, IsAuthOf, SetupSteps, Now
  <1>0. Remaining >= 1
    BY DEF Shape
  <1>1. CASE RunShape
    <2>1. CASE Remaining < 12
      BY <1>0, <1>1, <2>1 DEF RunShape, EditSteps, UpdateSteps
    <2>2. CASE Remaining \in 12..19
      BY <1>1, <2>2 DEF RunShape, UpdateSteps
    <2>3. CASE Remaining >= 20
      BY <1>1, <2>3 DEF RunShape, OpenSteps
    <2> QED BY <1>1, <2>1, <2>2, <2>3
  <1>2. ~FetchShape
    BY DEF FetchShape, FileSteps
  <1>3. ~RepairShape
    BY DEF RepairShape, FileSteps
  <1> QED BY <1>1, <1>2, <1>3 DEF Shape

\* Only the authentication of a get-file that was not repeated yet has a file.
LEMMA RepeatAt ==
  ASSUME Remaining \in Nat, Shape, Now("auth") \/ Now("challenge"), For(Remaining) # NoFile
  PROVE  \/ FetchShape /\ Remaining = 10 /\ On(Remaining) = "shadow"
         \/ RepairShape /\ Remaining = 6 /\ On(Remaining) = "main"
  <1> USE DEF IsStep, IsPlain, IsAuth, IsAuthOf, SetupSteps, Now
  <1>0. Remaining >= 1
    BY DEF Shape
  <1>1. ~RunShape
    <2>1. CASE Remaining < 12
      BY <1>0, <2>1 DEF RunShape, EditSteps, UpdateSteps
    <2>2. CASE Remaining \in 12..19
      BY <2>2 DEF RunShape, UpdateSteps
    <2>3. CASE Remaining >= 20
      BY <2>3 DEF RunShape, OpenSteps
    <2> QED BY <2>1, <2>2, <2>3
  <1>2. ASSUME NEW b \in {2, 6}, NEW c, FileSteps(b, c)
        PROVE  Remaining = b + 4 /\ On(Remaining) = c
    BY <1>2 DEF FileSteps
  <1>3. CASE FetchShape
    BY <1>2, <1>3 DEF FetchShape
  <1>4. CASE RepairShape
    BY <1>0, <1>2, <1>4 DEF RepairShape
  <1> QED BY <1>1, <1>3, <1>4 DEF Shape

\* A file is fetched in the middle of the edit.
LEMMA FetchPushed ==
  ASSUME ClientTyped, Shape, Now("edit"), NEW f \in File,
         todo' = GetFile("shadow", f) \o todo
  PROVE  /\ Shape' /\ ~Now("challenge")' /\ Remaining' = 11
         /\ Left("main") = 3 /\ Topic("main") = "update" /\ Used("main")
         /\ Stays("main") /\ Stays("shadow") /\ (Busy' <=> Busy)
         /\ Left("shadow") = 0
  <1>1. Remaining = 6 /\ RunShape /\ todo \in Seq(GoodStep)
    BY BackFacts, EditAt DEF ClientTyped
  <1>2. Size(todo) = 6 /\ "shadow" \in Conn
    BY <1>1, BackNow DEF Conn
  <1>3. /\ Atop(todo', todo, 5)
        /\ FromEnd(todo', 7) = StepOf("await", "shadow", "ok", NoFile)
        /\ FromEnd(todo', 8) = StepOf("contents", "shadow", Blank, NoFile)
        /\ FromEnd(todo', 9) = StepOf("await", "shadow", "file", NoFile)
        /\ FromEnd(todo', 10) = StepOf("auth", "shadow", Blank, f)
        /\ FromEnd(todo', 11) = StepOf("send", "shadow", "get-file", f)
    BY <1>1, <1>2, GetFileAtop
  <1>4. Remaining' = 11
    BY <1>2, <1>3, BackNow DEF Atop
  <1>5. \A k \in 1..6 :
          Doing(k)' = Doing(k) /\ On(k)' = On(k) /\ Saying(k)' = Saying(k) /\ For(k)' = For(k)
    BY <1>2, <1>3, BackReads DEF Atop
  <1>6. /\ Doing(7)' = "await" /\ On(7)' = "shadow" /\ Saying(7)' = "ok"
        /\ Doing(8)' = "contents" /\ On(8)' = "shadow"
        /\ Doing(9)' = "await" /\ On(9)' = "shadow" /\ Saying(9)' = "file"
        /\ Doing(10)' = "auth" /\ On(10)' = "shadow" /\ For(10)' = f
        /\ Doing(11)' = "send" /\ On(11)' = "shadow" /\ Saying(11)' = "get-file" /\ For(11)' = f
    BY <1>3, BackNow, StepParts DEF Doing, On, Saying, For
  <1>7. ~Busy /\ ~Fetching /\ ~Busy' /\ Fetching'
    BY <1>1, <1>4, <1>5, <1>6 DEF RunShape, Busy, Fetching
  <1>8. EditSteps'
    BY <1>1, <1>4, <1>5 DEF RunShape, EditSteps, IsStep, IsPlain
  <1>9. FileSteps(6, "shadow")'
    BY <1>4, <1>6 DEF FileSteps, IsStep, IsPlain, IsAuthOf, SetupSteps, IsAuth
  <1>10. Shape'
    BY <1>4, <1>7, <1>8, <1>9 DEF Shape, FetchShape
  <1>11. ~Now("challenge")'
    <2>1. Doing(Remaining)' = Doing(11)'
      BY <1>4 DEF Doing, Back
    <2> QED BY <1>6, <2>1 DEF Now
  <1>12. /\ Left("main") = 3 /\ Topic("main") = "update" /\ Used("main") /\ Left("shadow") = 0
         /\ Used("shadow")
    BY <1>1, <1>7 DEF Left, Topic, RunLeft, RunTopic, Used
  <1>13. /\ Left("main")' = 3 /\ Topic("main")' = "update" /\ Left("shadow")' = 0
    BY <1>4, <1>7 DEF Left, Topic, FileLeft
  <1> QED BY <1>4, <1>7, <1>10, <1>11, <1>12, <1>13 DEF Stays

\* The request for a file is repeated on a new connection.
Repeats(c) ==
  todo' = TryReconnect(c, For(Remaining)) \o SubSeq(todo, 2 + Len(FileAnswer(c)), Len(todo))

\* The request repeated, the connection is about to be made again and not in use.
LEMMA Repeated ==
  ASSUME ClientTyped, Shape, Now("auth") \/ Now("challenge"), For(Remaining) # NoFile,
         NEW c \in Conn, On(Remaining) = c, Repeats(c)
  PROVE  /\ Shape' /\ ~Now("challenge")' /\ ~Used(c)' /\ (Busy' <=> Busy) /\ Left(c)' = 0
         /\ \A d \in Conn \ {c} : Stays(d)
  <1>1. Remaining \in Nat /\ todo \in Seq(GoodStep)
    BY BackFacts DEF ClientTyped
  <1>2. PICK b \in {2, 6} : /\ Remaining = b + 4
                            /\ \/ FetchShape /\ c = "shadow" /\ b = 6
                               \/ RepairShape /\ c = "main" /\ b = 2
    BY <1>1, RepeatAt
  <1>3. PICK f \in File : f = For(Remaining)
    <2>1. Back(Remaining) \in GoodStep
      BY <1>1, <1>2, BackFacts
    <2> QED BY <2>1 DEF For, GoodStep, StepRecord
  <1> DEFINE r == SubSeq(todo, 4 + 1, Len(todo))
  <1>4. Len(FileAnswer(c)) = 3
    <2>1. <<>> \in Seq(GoodStep) /\ FileAnswer(c) \in Seq(GoodStep)
      BY FileAnswerGood
    <2>2. Atop(Cat(FileAnswer(c), <<>>), <<>>, 3)
      BY <2>1, FileAnswerAtop
    <2>3. Cat(FileAnswer(c), <<>>) = FileAnswer(c)
      BY <2>1, ConcatEmptySeq DEF Cat
    <2>4. Len(<<>>) = 0
      OBVIOUS
    <2> QED BY <2>2, <2>3, <2>4 DEF Atop, Size
  <1>5. todo' = Cat(TryReconnect(c, f), r)
    <2>1. 2 + Len(FileAnswer(c)) = 5 /\ 4 + 1 = 5
      BY <1>4
    <2> QED BY <1>3, <2>1 DEF Cat, Repeats
  <1>6. r \in Seq(GoodStep) /\ Size(r) = b /\ \A k \in 1..b : FromEnd(r, k) = FromEnd(todo, k)
    <2>1. Len(todo) = b + 4 /\ 4 \in 1..Len(todo) /\ Size(todo) - 4 = b
      BY <1>2 DEF Remaining, Size
    <2> QED BY <1>1, <2>1, DroppedFacts
  <1> HIDE DEF r
  <1>7. /\ Atop(todo', r, 10)
        /\ FromEnd(todo', b + 1) = StepOf("await", c, "ok", NoFile)
        /\ FromEnd(todo', b + 2) = StepOf("contents", c, Blank, NoFile)
        /\ FromEnd(todo', b + 3) = StepOf("await", c, "file", NoFile)
        /\ FromEnd(todo', b + 4) = StepOf("auth", c, Blank, NoFile)
        /\ FromEnd(todo', b + 5) = StepOf("send", c, "get-file", f)
        /\ FromEnd(todo', b + 6) = StepOf("await", c, "repos-info", NoFile)
        /\ FromEnd(todo', b + 7) = StepOf("auth", c, Blank, NoFile)
        /\ FromEnd(todo', b + 8) = StepOf("send", c, "greeting-response", NoFile)
        /\ FromEnd(todo', b + 9) = StepOf("await", c, "greeting", NoFile)
        /\ FromEnd(todo', b + 10) = StepOf("connect", c, "again", NoFile)
    <2>1. r \in Seq(GoodStep)
      BY <1>6
    <2>2. /\ Atop(todo', r, 10)
          /\ FromEnd(todo', Size(r) + 1) = StepOf("await", c, "ok", NoFile)
          /\ FromEnd(todo', Size(r) + 2) = StepOf("contents", c, Blank, NoFile)
          /\ FromEnd(todo', Size(r) + 3) = StepOf("await", c, "file", NoFile)
          /\ FromEnd(todo', Size(r) + 4) = StepOf("auth", c, Blank, NoFile)
          /\ FromEnd(todo', Size(r) + 5) = StepOf("send", c, "get-file", f)
      BY <2>1, <1>3, <1>5, TryReconnectAtop
    <2>3. /\ FromEnd(todo', Size(r) + 6) = StepOf("await", c, "repos-info", NoFile)
          /\ FromEnd(todo', Size(r) + 7) = StepOf("auth", c, Blank, NoFile)
          /\ FromEnd(todo', Size(r) + 8) = StepOf("send", c, "greeting-response", NoFile)
          /\ FromEnd(todo', Size(r) + 9) = StepOf("await", c, "greeting", NoFile)
          /\ FromEnd(todo', Size(r) + 10) = StepOf("connect", c, "again", NoFile)
      BY <2>1, <1>3, <1>5, TryReconnectAtop
    <2> QED BY <2>2, <2>3, <1>6
  <1>8. Remaining' = b + 10
    BY <1>6, <1>7, BackNow DEF Atop
  <1>9. \A k \in 1..b :
          Doing(k)' = Doing(k) /\ On(k)' = On(k) /\ Saying(k)' = Saying(k) /\ For(k)' = For(k)
    <2>1. \A k \in 1..b : FromEnd(todo', k) = FromEnd(todo, k)
      BY <1>6, <1>7 DEF Atop
    <2> QED BY <2>1, BackReads
  <1>10. /\ Doing(b + 1)' = "await" /\ On(b + 1)' = c /\ Saying(b + 1)' = "ok"
         /\ Doing(b + 2)' = "contents" /\ On(b + 2)' = c
         /\ Doing(b + 3)' = "await" /\ On(b + 3)' = c /\ Saying(b + 3)' = "file"
         /\ Doing(b + 4)' = "auth" /\ On(b + 4)' = c /\ For(b + 4)' = NoFile
         /\ Doing(b + 5)' = "send" /\ On(b + 5)' = c /\ Saying(b + 5)' = "get-file"
         /\ Doing(b + 6)' = "await" /\ On(b + 6)' = c /\ Saying(b + 6)' = "repos-info"
         /\ Doing(b + 7)' = "auth" /\ On(b + 7)' = c /\ For(b + 7)' = NoFile
         /\ Doing(b + 8)' = "send" /\ On(b + 8)' = c /\ Saying(b + 8)' = "greeting-response"
         /\ Doing(b + 9)' = "await" /\ On(b + 9)' = c /\ Saying(b + 9)' = "greeting"
         /\ Doing(b + 10)' = "connect" /\ On(b + 10)' = c /\ Saying(b + 10)' = "again"
    BY <1>7, BackNow, StepParts DEF Doing, On, Saying, For
  <1>11. FileSteps(b, c)'
    <2>1. SetupSteps(b + 6, c)'
      <3>1. b + 6 + 1 = b + 7 /\ b + 6 + 2 = b + 8 /\ b + 6 + 3 = b + 9
        OBVIOUS
      <3> QED BY <1>8, <1>10, <3>1 DEF IsStep, IsAuthOf, SetupSteps, IsAuth
    <2> QED BY <1>8, <1>10, <2>1 DEF FileSteps, IsStep, IsPlain, IsAuthOf
  <1>12. ~Now("challenge")'
    <2>1. Doing(Remaining)' = Doing(b + 10)'
      BY <1>8 DEF Doing, Back
    <2> QED BY <1>10, <2>1 DEF Now
  <1>13. CASE FetchShape /\ c = "shadow" /\ b = 6
    <2>1. ~Busy /\ Fetching /\ ~Busy' /\ Fetching'
      BY <1>2, <1>8, <1>9, <1>10, <1>13 DEF FetchShape, Busy, Fetching
    <2>2. EditSteps'
      BY <1>2, <1>8, <1>9, <1>13 DEF FetchShape, EditSteps, IsStep, IsPlain
    <2>3. Shape'
      BY <1>8, <1>11, <1>13, <2>1, <2>2 DEF Shape, FetchShape
    <2>4. Stays("main") /\ ~Used("shadow")' /\ Left("shadow")' = 0
      BY <1>2, <1>8, <1>13, <2>1 DEF Stays, Left, Topic, Used, FileLeft
    <2> QED BY <1>12, <1>13, <2>1, <2>3, <2>4 DEF Conn
  <1>14. CASE RepairShape /\ c = "main" /\ b = 2
    <2>1. Busy /\ Busy' /\ ~Fetching /\ ~Fetching'
      BY <1>2, <1>8, <1>9, <1>14 DEF RepairShape, Busy, Fetching
    <2>2. RepairShape'
      BY <1>2, <1>8, <1>9, <1>11, <1>14, <2>1 DEF RepairShape, IsStep, IsPlain
    <2>3. Shape'
      BY <1>8, <1>14, <2>2 DEF Shape
    <2>4. Stays("shadow") /\ ~Used("main")' /\ Left("main")' = 0
      BY <1>2, <1>8, <1>14, <2>1 DEF Stays, Left, Topic, Used, FileLeft
    <2> QED BY <1>12, <1>14, <2>1, <2>3, <2>4 DEF Conn
  <1> QED BY <1>2, <1>13, <1>14

\* The end of a run on top of nothing.
LEMMA SaveLast ==
  LET s == Do("save", "main", Blank, NoFile) IN
  s \in Seq(GoodStep) /\ Size(s) = 1 /\ FromEnd(s, 1) = StepOf("save", "main", Blank, NoFile)
  <1> DEFINE s == Do("save", "main", Blank, NoFile)
  <1>1. s \in Seq(GoodStep)
    BY OtherGood, Zenon DEF Blank, Conn
  <1>2. Len(s) = 1 /\ s[1] = StepOf("save", "main", Blank, NoFile)
    BY DEF Do, StepOf
  <1> HIDE DEF s
  <1>3. Size(s) = 1 /\ Size(s) + 1 - 1 = 1
    BY <1>2 DEF Size
  <1> QED BY <1>1, <1>2, <1>3 DEF FromEnd, s

LEMMA RepairLast ==
  ASSUME NEW w \in {"idle", "busy"}
  PROVE  /\ Repair(w) \in Seq(GoodStep) /\ Size(Repair(w)) = 2
         /\ FromEnd(Repair(w), 1) = StepOf("save", "main", Blank, NoFile)
         /\ FromEnd(Repair(w), 2) = StepOf("repair", "main", w, NoFile)
  <1> DEFINE s == Do("save", "main", Blank, NoFile)
             a == Do("repair", "main", w, NoFile)
  <1>1. s \in Seq(GoodStep) /\ Size(s) = 1 /\ FromEnd(s, 1) = StepOf("save", "main", Blank, NoFile)
    BY SaveLast
  <1>2. a \in Seq(GoodStep)
    BY OtherGood, Zenon DEF Conn
  <1>3. Repair(w) = Cat(a, s)
    BY DEF Repair, Cat, Blank
  <1> HIDE DEF s
  <1>4. Atop(Cat(a, s), s, 1) /\ FromEnd(Cat(a, s), Size(s) + 1) = StepOf("repair", "main", w, NoFile)
    BY <1>1, <1>2, OneAtop
  <1> HIDE DEF a
  <1>5. Size(s) + 1 = 2 /\ 1 \in 1..Size(s)
    BY <1>1
  <1> QED BY <1>1, <1>3, <1>4, <1>5 DEF Atop

\* The repair stage goes on with the next file.
LEMMA RepairGoesOn ==
  ASSUME todo' = Repair("busy")
  PROVE  /\ Remaining' = 2 /\ Shape' /\ ~Now("challenge")' /\ Busy'
         /\ Left("main")' = 0 /\ Left("shadow")' = 0 /\ ~Used("shadow")'
         /\ Topic("main")' = "get-file"
  <1>1. /\ Size(todo') = 2
        /\ FromEnd(todo', 1) = StepOf("save", "main", Blank, NoFile)
        /\ FromEnd(todo', 2) = StepOf("repair", "main", "busy", NoFile)
    BY RepairLast
  <1>2. Remaining' = 2
    BY <1>1, BackNow
  <1>3. /\ Doing(1)' = "save" /\ On(1)' = "main"
        /\ Doing(2)' = "repair" /\ On(2)' = "main" /\ Saying(2)' = "busy"
    BY <1>1, BackNow, StepParts DEF Doing, On, Saying
  <1>4. Busy' /\ ~Fetching'
    BY <1>2, <1>3 DEF Busy, Fetching
  <1>5. Shape'
    BY <1>2, <1>3, <1>4 DEF Shape, RepairShape, IsStep, IsPlain
  <1>6. ~Now("challenge")'
    <2>1. Doing(Remaining)' = Doing(2)'
      BY <1>2 DEF Doing, Back
    <2> QED BY <1>3, <2>1 DEF Now
  <1>7. /\ Left("main")' = 0 /\ Left("shadow")' = 0 /\ ~Used("shadow")'
        /\ Topic("main")' = "get-file"
    BY <1>2, <1>4 DEF Left, Used, Topic, FileLeft, FileTopic
  <1> QED BY <1>2, <1>4, <1>5, <1>6, <1>7

\* The repair stage fetches a file.
LEMMA RepairPushed ==
  ASSUME ClientTyped, Shape, Now("repair"), NEW f \in File,
         todo' = GetFile("main", f) \o Repair("busy")
  PROVE  /\ Shape' /\ ~Now("challenge")' /\ Busy' /\ Stays("main") /\ Stays("shadow")
         /\ Left("main") = 0 /\ Left("shadow") = 0
  <1>1. Remaining = 2 /\ ~Fetching /\ "main" \in Conn
    BY BackFacts, RepairAt DEF Conn
  <1> DEFINE r == Repair("busy")
  <1>2. r \in Seq(GoodStep) /\ Size(r) = 2
        /\ FromEnd(r, 1) = StepOf("save", "main", Blank, NoFile)
        /\ FromEnd(r, 2) = StepOf("repair", "main", "busy", NoFile)
    BY RepairLast
  <1>3. /\ Atop(todo', r, 5)
        /\ FromEnd(todo', Size(r) + 1) = StepOf("await", "main", "ok", NoFile)
        /\ FromEnd(todo', Size(r) + 2) = StepOf("contents", "main", Blank, NoFile)
        /\ FromEnd(todo', Size(r) + 3) = StepOf("await", "main", "file", NoFile)
        /\ FromEnd(todo', Size(r) + 4) = StepOf("auth", "main", Blank, f)
        /\ FromEnd(todo', Size(r) + 5) = StepOf("send", "main", "get-file", f)
    BY <1>1, <1>2, GetFileAtop
  <1> HIDE DEF r
  <1>4. Remaining' = 7 /\ 1 \in 1..Size(r) /\ 2 \in 1..Size(r)
    BY <1>2, <1>3, BackNow DEF Atop
  <1>5. /\ FromEnd(todo', 1) = StepOf("save", "main", Blank, NoFile)
        /\ FromEnd(todo', 2) = StepOf("repair", "main", "busy", NoFile)
        /\ FromEnd(todo', 3) = StepOf("await", "main", "ok", NoFile)
        /\ FromEnd(todo', 4) = StepOf("contents", "main", Blank, NoFile)
        /\ FromEnd(todo', 5) = StepOf("await", "main", "file", NoFile)
        /\ FromEnd(todo', 6) = StepOf("auth", "main", Blank, f)
        /\ FromEnd(todo', 7) = StepOf("send", "main", "get-file", f)
    BY <1>2, <1>3, <1>4 DEF Atop
  <1>6. /\ Doing(1)' = "save" /\ On(1)' = "main"
        /\ Doing(2)' = "repair" /\ On(2)' = "main" /\ Saying(2)' = "busy"
        /\ Doing(3)' = "await" /\ On(3)' = "main" /\ Saying(3)' = "ok"
        /\ Doing(4)' = "contents" /\ On(4)' = "main"
        /\ Doing(5)' = "await" /\ On(5)' = "main" /\ Saying(5)' = "file"
        /\ Doing(6)' = "auth" /\ On(6)' = "main" /\ For(6)' = f
        /\ Doing(7)' = "send" /\ On(7)' = "main" /\ Saying(7)' = "get-file" /\ For(7)' = f
    BY <1>5, BackNow, StepParts DEF Doing, On, Saying, For
  <1>7. Busy' /\ ~Fetching'
    BY <1>4, <1>6 DEF Busy, Fetching
  <1>8. FileSteps(2, "main")'
    BY <1>4, <1>6 DEF FileSteps, IsStep, IsPlain, IsAuthOf, SetupSteps, IsAuth
  <1>9. Shape'
    BY <1>4, <1>6, <1>7, <1>8 DEF Shape, RepairShape, IsStep, IsPlain
  <1>10. ~Now("challenge")'
    <2>1. Doing(Remaining)' = Doing(7)'
      BY <1>4 DEF Doing, Back
    <2> QED BY <1>6, <2>1 DEF Now
  <1>11. Left("main")' = 0 /\ Left("shadow")' = 0 /\ ~Used("shadow")'
    BY <1>4, <1>7 DEF Left, Used, FileLeft
  <1>12. Left("main") = 0 /\ Left("shadow") = 0 /\ Used("main")
    BY <1>1 DEF Left, Used, FileLeft, RunLeft
  <1> QED BY <1>7, <1>9, <1>10, <1>11, <1>12 DEF Stays

RepairEnds == Left("main") = 0 /\ Left("shadow") = 0 /\ ~Used("main") /\ ~Used("shadow")

\* The last step of the repair leaves no connection in use.
LEMMA RepairPopped ==
  ASSUME Shorter, Shape, Now("repair")
  PROVE  RepairEnds' /\ Remaining' = 1
  <1>1. Remaining = 2 /\ Remaining' = 1
    BY RepairAt DEF Shorter
  <1>2. ~Busy' /\ ~Fetching'
    BY <1>1 DEF Busy, Fetching
  <1> QED BY <1>1, <1>2 DEF RepairEnds, Left, Used, RunLeft

\* How a step on connection c fails.
LEMMA FailedFacts ==
  ASSUME ClientTyped, Shape, todo # <<>>, Failed, Remaining >= 3,
         NEW c \in Conn, On(Remaining) = c
  PROVE  \/ outcome' = "failed"
         \/ /\ outcome' = outcome /\ (Now("auth") \/ Now("challenge"))
            /\ Shape' /\ ~Now("challenge")' /\ ~Used(c)' /\ (Busy' <=> Busy) /\ Left(c)' = 0
            /\ \A d \in Conn \ {c} : Stays(d)
            /\ Topic(c) = "get-file" /\ Left(c) = 4
         \/ /\ outcome' = outcome /\ c = "main" /\ Busy /\ Busy' /\ Shape' /\ ~Now("challenge")'
            /\ Left("main")' = 0 /\ Topic("main")' = "get-file"
            /\ Left("shadow")' = 0 /\ ~Used("shadow")' /\ Left("shadow") = 0
  <1>1. /\ Remaining \in Nat /\ Step.do = Doing(Remaining) /\ Step.on = c
        /\ Step.file = For(Remaining)
    BY BackFacts
  <1>2. Repairing <=> Busy
    <2>1. Len(todo) - 1 = Remaining + 1 - 2
      BY <1>1 DEF Remaining
    <2> QED BY <1>1, <2>1 DEF Repairing, Busy, Saying, Back
  <1>3. Authenticating <=> Now("auth") \/ Now("challenge")
    BY <1>1 DEF Authenticating, Now
  <1>4. CASE Authenticating /\ Step.file # NoFile
    <2>1. Repeats(c) /\ outcome' = outcome
      BY <1>1, <1>4 DEF Failed, Repeats
    <2>2. /\ Shape' /\ ~Now("challenge")' /\ ~Used(c)' /\ (Busy' <=> Busy) /\ Left(c)' = 0
          /\ \A d \in Conn \ {c} : Stays(d)
      BY <1>1, <1>3, <1>4, <2>1, Repeated
    <2>3. Topic(c) = "get-file" /\ Left(c) = 4
      <3>1. \/ FetchShape /\ Remaining = 10 /\ c = "shadow"
            \/ RepairShape /\ Remaining = 6 /\ c = "main"
        BY <1>1, <1>3, <1>4, RepeatAt
      <3> QED BY <3>1 DEF Topic, Left, FileTopic, FileLeft, FetchShape, RepairShape
    <2> QED BY <1>3, <1>4, <2>1, <2>2, <2>3
  <1>5. CASE ~(Authenticating /\ Step.file # NoFile) /\ Busy
    <2>1. todo' = Repair("busy") /\ outcome' = outcome
      BY <1>2, <1>5 DEF Failed
    <2>2. c = "main" /\ Left("shadow") = 0
      <3>1. RepairShape /\ ~Fetching
        BY <1>5 DEF Shape, RunShape, FetchShape, Fetching
      <3>2. FileSteps(2, "main")
        BY <1>1, <3>1 DEF RepairShape
      <3>3. c = "main"
        BY <1>1, <3>2 DEF FileSteps, IsStep, IsPlain, IsAuthOf, SetupSteps, IsAuth
      <3> QED BY <1>5, <3>1, <3>3 DEF Left
    <2> QED BY <1>5, <2>1, <2>2, RepairGoesOn
  <1>6. CASE ~(Authenticating /\ Step.file # NoFile) /\ ~Busy
    BY <1>2, <1>6 DEF Failed
  <1> QED BY <1>4, <1>5, <1>6

-----------------------------------------------------------------------------
(***************************************************************************)
(* The program the client starts with.                                     *)
(***************************************************************************)
One(s) == <<s>>

\* The steps that Do makes, as sequences of one.
LEMMA DoOne ==
  \A d, c, w, f : Do(d, c, w, f) = One(StepOf(d, c, w, f))
  BY DEF Do, One, StepOf

LEMMA OneOn ==
  ASSUME NEW r \in Seq(GoodStep), NEW a \in GoodStep
  PROVE  /\ Atop(Cat(One(a), r), r, 1) /\ FromEnd(Cat(One(a), r), Size(r) + 1) = a
         /\ One(a) \in Seq(GoodStep)
  <1>1. a = StepOf(a.do, a.on, a.what, a.file)
    BY DEF GoodStep, StepRecord, StepOf
  <1>2. One(a) \in Seq(GoodStep)
    BY DEF One
  <1>3. PICK d, c, w, f : a = StepOf(d, c, w, f)
    BY <1>1
  <1>4. One(a) = Do(d, c, w, f)
    BY <1>3, DoOne
  <1> QED BY <1>2, <1>3, <1>4, OneAtop

LEMMA OneMore ==
  ASSUME NEW s \in Seq(GoodStep), NEW n \in Nat, NEW r, Atop(r, s, n), NEW a \in GoodStep
  PROVE  /\ Atop(Cat(One(a), r), s, n + 1) /\ FromEnd(Cat(One(a), r), Size(s) + (n + 1)) = a
         /\ \A k \in 1..n : FromEnd(Cat(One(a), r), Size(s) + k) = FromEnd(r, Size(s) + k)
  <1>1. r \in Seq(GoodStep) /\ Size(r) = Size(s) + n /\ Size(s) \in Nat
    BY DEF Atop
  <1>2. Atop(Cat(One(a), r), r, 1) /\ FromEnd(Cat(One(a), r), Size(r) + 1) = a
    BY <1>1, OneOn
  <1>3. Atop(Cat(One(a), r), s, n + 1)
    BY <1>2, AtopTwice
  <1>4. Size(r) + 1 = Size(s) + (n + 1)
    BY <1>1
  <1>5. ASSUME NEW k \in 1..n
        PROVE  FromEnd(Cat(One(a), r), Size(s) + k) = FromEnd(r, Size(s) + k)
    <2>1. Size(s) + k \in 1..Size(r)
      BY <1>1
    <2> QED BY <1>2, <2>1 DEF Atop
  <1> QED BY <1>2, <1>3, <1>4, <1>5

\* Three, four and five steps on top of a program.
LEMMA ThreeOn ==
  ASSUME NEW s \in Seq(GoodStep), NEW c \in GoodStep, NEW d \in GoodStep, NEW e \in GoodStep
  PROVE  LET q == Cat(One(c), Cat(One(d), Cat(One(e), s)))
             n == Size(s) IN
         Atop(q, s, 3) /\ FromEnd(q, n + 1) = e /\ FromEnd(q, n + 2) = d /\ FromEnd(q, n + 3) = c
  <1> DEFINE q1 == Cat(One(e), s)
             q2 == Cat(One(d), q1)
             q3 == Cat(One(c), q2)
             n == Size(s)
  <1>1. Atop(q1, s, 1) /\ FromEnd(q1, n + 1) = e
    BY OneOn
  <1> HIDE DEF q1
  <1>2. Atop(q2, s, 2) /\ FromEnd(q2, n + 2) = d /\ \A k \in 1..1 : FromEnd(q2, n + k) = FromEnd(q1, n + k)
    BY <1>1, OneMore
  <1> HIDE DEF q2
  <1>3. Atop(q3, s, 3) /\ FromEnd(q3, n + 3) = c /\ \A k \in 1..2 : FromEnd(q3, n + k) = FromEnd(q2, n + k)
    BY <1>2, OneMore
  <1> HIDE DEF q3
  <1>6. FromEnd(q2, n + 1) = e /\ FromEnd(q2, n + 2) = d
    BY <1>1, <1>2
  <1>7. FromEnd(q3, n + 1) = e /\ FromEnd(q3, n + 2) = d /\ FromEnd(q3, n + 3) = c
    BY <1>3, <1>6
  <1> QED BY <1>3, <1>7 DEF q1, q2, q3

LEMMA FourOn ==
  ASSUME NEW s \in Seq(GoodStep), NEW b \in GoodStep, NEW c \in GoodStep, NEW d \in GoodStep,
         NEW e \in GoodStep
  PROVE  LET q == Cat(One(b), Cat(One(c), Cat(One(d), Cat(One(e), s))))
             n == Size(s) IN
         /\ Atop(q, s, 4) /\ FromEnd(q, n + 1) = e /\ FromEnd(q, n + 2) = d
         /\ FromEnd(q, n + 3) = c /\ FromEnd(q, n + 4) = b
  <1> DEFINE q3 == Cat(One(c), Cat(One(d), Cat(One(e), s)))
             q4 == Cat(One(b), q3)
             n == Size(s)
  <1>1. Atop(q3, s, 3) /\ FromEnd(q3, n + 1) = e /\ FromEnd(q3, n + 2) = d /\ FromEnd(q3, n + 3) = c
    BY ThreeOn
  <1> HIDE DEF q3
  <1>2. Atop(q4, s, 4) /\ FromEnd(q4, n + 4) = b /\ \A k \in 1..3 : FromEnd(q4, n + k) = FromEnd(q3, n + k)
    BY <1>1, OneMore
  <1> HIDE DEF q4
  <1>3. FromEnd(q4, n + 1) = e /\ FromEnd(q4, n + 2) = d /\ FromEnd(q4, n + 3) = c
    BY <1>1, <1>2
  <1> QED BY <1>2, <1>3 DEF q3, q4

LEMMA FiveOn ==
  ASSUME NEW s \in Seq(GoodStep), NEW a \in GoodStep, NEW b \in GoodStep, NEW c \in GoodStep,
         NEW d \in GoodStep, NEW e \in GoodStep
  PROVE  LET q == Cat(One(a), Cat(One(b), Cat(One(c), Cat(One(d), Cat(One(e), s)))))
             n == Size(s) IN
         /\ Atop(q, s, 5) /\ FromEnd(q, n + 1) = e /\ FromEnd(q, n + 2) = d
         /\ FromEnd(q, n + 3) = c /\ FromEnd(q, n + 4) = b /\ FromEnd(q, n + 5) = a
  <1> DEFINE q4 == Cat(One(b), Cat(One(c), Cat(One(d), Cat(One(e), s))))
             q5 == Cat(One(a), q4)
             n == Size(s)
  <1>1. /\ Atop(q4, s, 4) /\ FromEnd(q4, n + 1) = e /\ FromEnd(q4, n + 2) = d
        /\ FromEnd(q4, n + 3) = c /\ FromEnd(q4, n + 4) = b
    BY FourOn
  <1> HIDE DEF q4
  <1>2. Atop(q5, s, 5) /\ FromEnd(q5, n + 5) = a /\ \A k \in 1..4 : FromEnd(q5, n + k) = FromEnd(q4, n + k)
    BY <1>1, OneMore
  <1> HIDE DEF q5
  <1>3. /\ FromEnd(q5, n + 1) = e /\ FromEnd(q5, n + 2) = d /\ FromEnd(q5, n + 3) = c
        /\ FromEnd(q5, n + 4) = b
    BY <1>1, <1>2
  <1> QED BY <1>2, <1>3 DEF q4, q5

\* The steps the programs are made of are well typed.
LEMMA StepsGood ==
  ASSUME NEW c \in Conn
  PROVE  /\ StepOf("auth", c, Blank, NoFile) \in GoodStep
         /\ \A w \in Said : StepOf("await", c, w, NoFile) \in GoodStep
         /\ \A w \in (Requests \ {"get-file"}) \cup Heard : StepOf("send", c, w, NoFile) \in GoodStep
         /\ StepOf("connect", c, "new", NoFile) \in GoodStep
         /\ StepOf("edit", c, Blank, NoFile) \in GoodStep /\ StepOf("close", c, Blank, NoFile) \in GoodStep
  <1>0. \A a : One(a) \in Seq(GoodStep) => a \in GoodStep
    <2> TAKE a
    <2>1. HAVE One(a) \in Seq(GoodStep)
    <2>2. Len(<<a>>) = 1 /\ <<a>>[1] = a
      OBVIOUS
    <2> QED BY <2>1, <2>2 DEF One
  <1>1. Do("auth", c, Blank, NoFile) \in Seq(GoodStep)
    BY OtherGood, Zenon DEF Blank
  <1>2. \A w \in Said : Do("await", c, w, NoFile) \in Seq(GoodStep)
    BY AwaitGood DEF Await
  <1>3. \A w \in (Requests \ {"get-file"}) \cup Heard : Do("send", c, w, NoFile) \in Seq(GoodStep)
    BY SendGood DEF Send
  <1>4. Do("connect", c, "new", NoFile) \in Seq(GoodStep)
    BY OtherGood, Zenon
  <1>5. Do("edit", c, Blank, NoFile) \in Seq(GoodStep)
    BY OtherGood, Zenon DEF Blank
  <1>6. Do("close", c, Blank, NoFile) \in Seq(GoodStep)
    BY OtherGood, Zenon DEF Blank
  <1> QED BY <1>0, <1>1, <1>2, <1>3, <1>4, <1>5, <1>6, DoOne

\* The steps of Connect on top of a program.
LEMMA ConnectAtop ==
  ASSUME NEW c \in Conn, NEW r \in Seq(GoodStep)
  PROVE  LET q == Cat(Connect(c), r)
             n == Size(r) IN
         /\ Atop(q, r, 5)
         /\ FromEnd(q, n + 1) = StepOf("await", c, "repos-info", NoFile)
         /\ FromEnd(q, n + 2) = StepOf("auth", c, Blank, NoFile)
         /\ FromEnd(q, n + 3) = StepOf("send", c, "greeting-response", NoFile)
         /\ FromEnd(q, n + 4) = StepOf("await", c, "greeting", NoFile)
         /\ FromEnd(q, n + 5) = StepOf("connect", c, "new", NoFile)
  <1> DEFINE a == StepOf("connect", c, "new", NoFile)
             p == Cat(Setup(c), r)
             n == Size(r)
  <1>1. a \in GoodStep /\ Setup(c) \in Seq(GoodStep) /\ One(a) \in Seq(GoodStep)
    BY StepsGood, SetupGood, OneOn
  <1>2. Cat(Connect(c), r) = Cat(One(a), p)
    <2>1. Connect(c) = Cat(One(a), Setup(c))
      BY DoOne DEF Connect, Cat
    <2> HIDE DEF a
    <2> QED BY <1>1, <2>1, CatGood
  <1>3. /\ Atop(p, r, 4)
        /\ FromEnd(p, n + 1) = StepOf("await", c, "repos-info", NoFile)
        /\ FromEnd(p, n + 2) = StepOf("auth", c, Blank, NoFile)
        /\ FromEnd(p, n + 3) = StepOf("send", c, "greeting-response", NoFile)
        /\ FromEnd(p, n + 4) = StepOf("await", c, "greeting", NoFile)
    BY SetupAtop
  <1> HIDE DEF p, a
  <1>4. /\ Atop(Cat(One(a), p), r, 5) /\ FromEnd(Cat(One(a), p), n + 5) = a
        /\ \A k \in 1..4 : FromEnd(Cat(One(a), p), n + k) = FromEnd(p, n + k)
    BY <1>1, <1>3, OneMore
  <1>5. /\ FromEnd(Cat(One(a), p), n + 1) = FromEnd(p, n + 1)
        /\ FromEnd(Cat(One(a), p), n + 2) = FromEnd(p, n + 2)
        /\ FromEnd(Cat(One(a), p), n + 3) = FromEnd(p, n + 3)
        /\ FromEnd(Cat(One(a), p), n + 4) = FromEnd(p, n + 4)
    BY <1>4
  <1> QED BY <1>2, <1>3, <1>4, <1>5 DEF p, a

\* The steps of the update, of the check of the path before it, and of the end.
Ready(q) ==
  /\ q \in Seq(GoodStep)
  /\ FromEnd(q, 1) = StepOf("save", "main", Blank, NoFile)
  /\ FromEnd(q, 2) = StepOf("repair", "main", "idle", NoFile)
  /\ FromEnd(q, 3) = StepOf("await", "main", "ok", NoFile)
  /\ FromEnd(q, 4) = StepOf("send", "main", "success", NoFile)
  /\ FromEnd(q, 5) = StepOf("close", "shadow", Blank, NoFile)
  /\ FromEnd(q, 6) = StepOf("edit", "main", Blank, NoFile)
  /\ FromEnd(q, 7) = StepOf("await", "shadow", "repos-info", NoFile)
  /\ FromEnd(q, 8) = StepOf("auth", "shadow", Blank, NoFile)
  /\ FromEnd(q, 9) = StepOf("send", "shadow", "greeting-response", NoFile)
  /\ FromEnd(q, 10) = StepOf("await", "shadow", "greeting", NoFile)
  /\ FromEnd(q, 11) = StepOf("connect", "shadow", "new", NoFile)
  /\ FromEnd(q, 12) = StepOf("auth", "main", Blank, NoFile)
  /\ FromEnd(q, 13) = StepOf("send", "main", "finish-report", NoFile)
  /\ FromEnd(q, 14) = StepOf("send", "main", "set-path", NoFile)
  /\ FromEnd(q, 15) = StepOf("auth", "main", Blank, NoFile)
  /\ FromEnd(q, 16) = StepOf("send", "main", "update", NoFile)
  /\ FromEnd(q, 17) = StepOf("await", "main", "dir", NoFile)
  /\ FromEnd(q, 18) = StepOf("auth", "main", Blank, NoFile)
  /\ FromEnd(q, 19) = StepOf("send", "main", "check-path", NoFile)

\* The end of a program is not changed by what is put on top of it.
LEMMA ReadyStays ==
  ASSUME NEW q, NEW r, NEW n \in Nat, Ready(r), Size(r) >= 19, Atop(q, r, n)
  PROVE  Ready(q)
  <1>5. Size(r) \in Nat /\ \A k \in 1..Size(r) : FromEnd(q, k) = FromEnd(r, k)
    BY DEF Atop
  <1>1. \A k \in 1..19 : FromEnd(q, k) = FromEnd(r, k)
    BY <1>5
  <1>6. q \in Seq(GoodStep)
    BY DEF Atop
  <1>2. /\ FromEnd(q, 1) = FromEnd(r, 1)
        /\ FromEnd(q, 2) = FromEnd(r, 2)
        /\ FromEnd(q, 3) = FromEnd(r, 3)
        /\ FromEnd(q, 4) = FromEnd(r, 4)
        /\ FromEnd(q, 5) = FromEnd(r, 5)
        /\ FromEnd(q, 6) = FromEnd(r, 6)
    BY <1>1
  <1>3. /\ FromEnd(q, 7) = FromEnd(r, 7)
        /\ FromEnd(q, 8) = FromEnd(r, 8)
        /\ FromEnd(q, 9) = FromEnd(r, 9)
        /\ FromEnd(q, 10) = FromEnd(r, 10)
        /\ FromEnd(q, 11) = FromEnd(r, 11)
        /\ FromEnd(q, 12) = FromEnd(r, 12)
    BY <1>1
  <1>4. /\ FromEnd(q, 13) = FromEnd(r, 13)
        /\ FromEnd(q, 14) = FromEnd(r, 14)
        /\ FromEnd(q, 15) = FromEnd(r, 15)
        /\ FromEnd(q, 16) = FromEnd(r, 16)
        /\ FromEnd(q, 17) = FromEnd(r, 17)
        /\ FromEnd(q, 18) = FromEnd(r, 18)
        /\ FromEnd(q, 19) = FromEnd(r, 19)
    BY <1>1
  <1> QED BY <1>2, <1>3, <1>4, <1>6 DEF Ready

\* The parts of a program are well typed.
LEMMA CheckPathGood == CheckPath \in Seq(GoodStep) /\ Update \in Seq(GoodStep)
                       /\ GetLatestRev \in Seq(GoodStep)
  <1>1. "main" \in Conn /\ "shadow" \in Conn
    BY DEF Conn
  <1>2. \A c \in Conn : CheckAuth(c) \in Seq(GoodStep) /\ Connect(c) \in Seq(GoodStep)
    <2> TAKE c \in Conn
    <2>1. One(StepOf("connect", c, "new", NoFile)) \in Seq(GoodStep)
      BY StepsGood DEF One
    <2>2. Connect(c) = Cat(One(StepOf("connect", c, "new", NoFile)), Setup(c))
      BY DoOne DEF Connect, Cat
    <2> QED BY <2>1, <2>2, SetupGood, CatGood
  <1>3. \A w \in (Requests \ {"get-file"}) \cup Heard : Send("main", w) \in Seq(GoodStep)
    BY <1>1, SendGood
  <1>4. \A w \in Said : Await("main", w) \in Seq(GoodStep)
    BY <1>1, AwaitGood
  <1>5. CheckPath \in Seq(GoodStep)
    BY <1>1, <1>2, <1>3, <1>4, Joined DEF CheckPath, Requests, Said
  <1>6. GetLatestRev \in Seq(GoodStep)
    BY <1>1, <1>2, <1>3, <1>4, Joined DEF GetLatestRev, Requests, Said
  <1>7. /\ One(StepOf("edit", "main", Blank, NoFile)) \in Seq(GoodStep)
        /\ One(StepOf("close", "shadow", Blank, NoFile)) \in Seq(GoodStep)
    BY <1>1, StepsGood DEF One
  <1>8. /\ Do("edit", "main", Blank, NoFile) \in Seq(GoodStep)
        /\ Do("close", "shadow", Blank, NoFile) \in Seq(GoodStep)
    BY <1>7, DoOne
  <1>9. Editor \in Seq(GoodStep)
    <2>1. Editor = Cat(Cat(Cat(CheckAuth("main"), Connect("shadow")), Do("edit", "main", Blank, NoFile)),
                       Do("close", "shadow", Blank, NoFile))
      BY DEF Editor, Cat, Blank
    <2> QED BY <1>1, <1>2, <1>8, <2>1, CatGood
  <1>10. SetPath \in Seq(GoodStep) /\ FinishReport \in Seq(GoodStep)
         /\ Send("main", "success") \in Seq(GoodStep) /\ Send("main", "update") \in Seq(GoodStep)
    BY <1>3 DEF SetPath, FinishReport, Heard, Requests
  <1>11. Await("main", "ok") \in Seq(GoodStep) /\ CheckAuth("main") \in Seq(GoodStep)
    BY <1>1, <1>2, <1>4 DEF Said
  <1>12. Update = Cat(Cat(Cat(Cat(Cat(Cat(Send("main", "update"), CheckAuth("main")), SetPath),
                      FinishReport), Editor), Send("main", "success")), Await("main", "ok"))
    BY DEF Update, Cat
  <1>13. Update \in Seq(GoodStep)
    BY <1>9, <1>10, <1>11, <1>12, CatGood
  <1> QED BY <1>5, <1>6, <1>13

\* The update as it is put together, and step by step.
Plan == Seq(GoodStep)

\* Brackets moved in the join of five, and of all the parts of an update.
LEMMA PlanChain ==
  \A x, y, z, u, v :
    x \in Plan /\ y \in Plan /\ z \in Plan /\ u \in Plan /\ v \in Plan =>
      Cat(Cat(Cat(Cat(x, y), z), u), v) = Cat(x, Cat(y, Cat(z, Cat(u, v))))
  BY Chain5 DEF Plan

LEMMA PlanCat == \A x, y \in Plan : Cat(x, y) \in Plan
  BY CatGood, Zenon DEF Plan

LEMMA UpdateChain ==
  \A a, b, c, d, e, f, g, h, i, j, r :
    /\ a \in Plan /\ b \in Plan /\ c \in Plan /\ d \in Plan /\ e \in Plan /\ f \in Plan
    /\ g \in Plan /\ h \in Plan /\ i \in Plan /\ j \in Plan /\ r \in Plan
    => Cat(Cat(Cat(Cat(Cat(Cat(Cat(a, b), c), d), Cat(Cat(Cat(e, f), g), h)), i), j), r)
         = Cat(a, Cat(b, Cat(c, Cat(d, Cat(e, Cat(f, Cat(g, Cat(h, Cat(i, Cat(j, r))))))))))
  <1> TAKE a, b, c, d, e, f, g, h, i, j, r
  <1> HAVE /\ a \in Plan /\ b \in Plan /\ c \in Plan /\ d \in Plan /\ e \in Plan /\ f \in Plan
           /\ g \in Plan /\ h \in Plan /\ i \in Plan /\ j \in Plan /\ r \in Plan
  <1>1. PICK x \in Plan : x = Cat(Cat(Cat(a, b), c), d)
    BY PlanCat
  <1>2. PICK y \in Plan : y = Cat(Cat(Cat(e, f), g), h)
    BY PlanCat
  <1>3. PICK z \in Plan : z = Cat(i, Cat(j, r))
    BY PlanCat
  <1>4. Cat(Cat(Cat(Cat(x, y), i), j), r) = Cat(x, Cat(y, Cat(i, Cat(j, r))))
    BY <1>1, <1>2, PlanChain
  <1>5. Cat(Cat(Cat(Cat(e, f), g), h), z) = Cat(e, Cat(f, Cat(g, Cat(h, z))))
    BY <1>3, PlanChain
  <1>6. PICK w \in Plan : w = Cat(y, z)
    BY <1>2, <1>3, PlanCat
  <1>7. Cat(Cat(Cat(Cat(a, b), c), d), w) = Cat(a, Cat(b, Cat(c, Cat(d, w))))
    BY <1>6, PlanChain
  <1> QED BY <1>1, <1>2, <1>3, <1>4, <1>5, <1>6, <1>7, Zenon

\* The part of every program that follows the set-up, step by step.
LEMMA ReadyUpdate ==
  LET q == Cat(CheckPath, Cat(Update, Repair("idle"))) IN Ready(q) /\ Size(q) = 19
  <1> DEFINE R == Repair("idle")
             k == One(StepOf("await", "main", "ok", NoFile))
             s == One(StepOf("send", "main", "success", NoFile))
             cl == One(StepOf("close", "shadow", Blank, NoFile))
             ed == One(StepOf("edit", "main", Blank, NoFile))
             co == Connect("shadow")
             au == One(StepOf("auth", "main", Blank, NoFile))
             fr == One(StepOf("send", "main", "finish-report", NoFile))
             sp == One(StepOf("send", "main", "set-path", NoFile))
             up == One(StepOf("send", "main", "update", NoFile))
             di == One(StepOf("await", "main", "dir", NoFile))
             cp == One(StepOf("send", "main", "check-path", NoFile))
             q6 == Cat(ed, Cat(cl, Cat(s, Cat(k, R))))
             q11 == Cat(co, q6)
             q16 == Cat(up, Cat(au, Cat(sp, Cat(fr, Cat(au, q11)))))
             q19 == Cat(cp, Cat(au, Cat(di, q16)))
  <1>1. "main" \in Conn /\ "shadow" \in Conn
    BY DEF Conn
  <1>2. /\ StepOf("await", "main", "ok", NoFile) \in GoodStep
        /\ StepOf("send", "main", "success", NoFile) \in GoodStep
        /\ StepOf("close", "shadow", Blank, NoFile) \in GoodStep
        /\ StepOf("edit", "main", Blank, NoFile) \in GoodStep
        /\ StepOf("auth", "main", Blank, NoFile) \in GoodStep
        /\ StepOf("send", "main", "finish-report", NoFile) \in GoodStep
        /\ StepOf("send", "main", "set-path", NoFile) \in GoodStep
        /\ StepOf("send", "main", "update", NoFile) \in GoodStep
        /\ StepOf("await", "main", "dir", NoFile) \in GoodStep
        /\ StepOf("send", "main", "check-path", NoFile) \in GoodStep
    BY <1>1, StepsGood DEF Said, Heard, Requests
  <1>3. /\ k \in Seq(GoodStep) /\ s \in Seq(GoodStep) /\ cl \in Seq(GoodStep)
        /\ ed \in Seq(GoodStep) /\ au \in Seq(GoodStep) /\ fr \in Seq(GoodStep)
        /\ sp \in Seq(GoodStep) /\ up \in Seq(GoodStep) /\ di \in Seq(GoodStep)
        /\ cp \in Seq(GoodStep)
    BY <1>2 DEF One
  <1>4. R \in Seq(GoodStep) /\ Size(R) = 2
        /\ FromEnd(R, 1) = StepOf("save", "main", Blank, NoFile)
        /\ FromEnd(R, 2) = StepOf("repair", "main", "idle", NoFile)
    BY RepairLast
  <1>5. co \in Seq(GoodStep)
    <2>1. One(StepOf("connect", "shadow", "new", NoFile)) \in Seq(GoodStep)
      BY <1>1, StepsGood DEF One
    <2>2. Connect("shadow") = Cat(One(StepOf("connect", "shadow", "new", NoFile)), Setup("shadow"))
      BY DoOne DEF Connect, Cat
    <2> QED BY <1>1, <2>1, <2>2, SetupGood, CatGood
  <1>6. /\ Update = Cat(Cat(Cat(Cat(Cat(Cat(up, au), sp), fr), Cat(Cat(Cat(au, co), ed), cl)), s), k)
        /\ CheckPath = Cat(Cat(cp, au), di)
    BY DoOne DEF Update, CheckPath, Editor, SetPath, FinishReport, Send, CheckAuth, Await, Cat, Blank
  <1>7. Cat(CheckPath, Cat(Update, R)) = q19
    <2> HIDE DEF R, k, s, cl, ed, co, au, fr, sp, up, di, cp
    <2>1. /\ k \in Plan /\ s \in Plan /\ cl \in Plan /\ ed \in Plan /\ au \in Plan
          /\ fr \in Plan /\ sp \in Plan /\ up \in Plan /\ co \in Plan /\ R \in Plan
      BY <1>3, <1>4, <1>5 DEF Plan
    <2>2. Cat(Cat(Cat(Cat(Cat(Cat(Cat(up, au), sp), fr), Cat(Cat(Cat(au, co), ed), cl)), s), k), R)
            = Cat(up, Cat(au, Cat(sp, Cat(fr, Cat(au, Cat(co, Cat(ed, Cat(cl, Cat(s, Cat(k, R))))))))))
      BY <2>1, UpdateChain
    <2>3. Cat(Update, R) = q16
      BY <1>6, <2>2, Zenon
    <2>9. Cat(Update, R) = q16 /\ q16 \in Seq(GoodStep)
      BY <1>4, <2>3, CheckPathGood, CatGood
    <2>10. PICK u \in Seq(GoodStep) : u = q16
      BY <2>9
    <2> HIDE DEF q16
    <2>11. Cat(Cat(Cat(cp, au), di), u) = Cat(cp, Cat(au, Cat(di, u)))
      BY <1>3, <2>10, Chain4
    <2> QED BY <1>6, <2>9, <2>10, <2>11
  <1>8. /\ Atop(q6, R, 4) /\ FromEnd(q6, 3) = StepOf("await", "main", "ok", NoFile)
        /\ FromEnd(q6, 4) = StepOf("send", "main", "success", NoFile)
        /\ FromEnd(q6, 5) = StepOf("close", "shadow", Blank, NoFile)
        /\ FromEnd(q6, 6) = StepOf("edit", "main", Blank, NoFile)
    BY <1>2, <1>4, FourOn
  <1>9. q6 \in Seq(GoodStep) /\ Size(q6) = 6 /\ FromEnd(q6, 1) = FromEnd(R, 1)
        /\ FromEnd(q6, 2) = FromEnd(R, 2)
    BY <1>4, <1>8 DEF Atop
  <1> HIDE DEF R, q6
  <1>10. /\ Atop(q11, q6, 5)
         /\ FromEnd(q11, 7) = StepOf("await", "shadow", "repos-info", NoFile)
         /\ FromEnd(q11, 8) = StepOf("auth", "shadow", Blank, NoFile)
         /\ FromEnd(q11, 9) = StepOf("send", "shadow", "greeting-response", NoFile)
         /\ FromEnd(q11, 10) = StepOf("await", "shadow", "greeting", NoFile)
         /\ FromEnd(q11, 11) = StepOf("connect", "shadow", "new", NoFile)
    BY <1>1, <1>9, ConnectAtop
  <1>11. q11 \in Seq(GoodStep) /\ Size(q11) = 11 /\ \A i \in 1..6 : FromEnd(q11, i) = FromEnd(q6, i)
    BY <1>9, <1>10 DEF Atop
  <1> HIDE DEF q11
  <1>12. /\ Atop(q16, q11, 5)
         /\ FromEnd(q16, 12) = StepOf("auth", "main", Blank, NoFile)
         /\ FromEnd(q16, 13) = StepOf("send", "main", "finish-report", NoFile)
         /\ FromEnd(q16, 14) = StepOf("send", "main", "set-path", NoFile)
         /\ FromEnd(q16, 15) = StepOf("auth", "main", Blank, NoFile)
         /\ FromEnd(q16, 16) = StepOf("send", "main", "update", NoFile)
    <2> DEFINE a == StepOf("auth", "main", Blank, NoFile)
               f == StepOf("send", "main", "finish-report", NoFile)
               p == StepOf("send", "main", "set-path", NoFile)
               u == StepOf("send", "main", "update", NoFile)
    <2>1. a \in GoodStep /\ f \in GoodStep /\ p \in GoodStep /\ u \in GoodStep
      BY <1>2
    <2>2. q11 \in Seq(GoodStep) /\ Size(q11) = 11
      BY <1>11
    <2>3. q16 = Cat(One(u), Cat(One(a), Cat(One(p), Cat(One(f), Cat(One(a), q11)))))
      OBVIOUS
    <2> HIDE DEF a, f, p, u, q16
    <2>4. Atop(q16, q11, 5)
      BY <2>1, <2>2, <2>3, FiveOn
    <2>5. /\ FromEnd(q16, Size(q11) + 1) = a /\ FromEnd(q16, Size(q11) + 2) = f
          /\ FromEnd(q16, Size(q11) + 3) = p /\ FromEnd(q16, Size(q11) + 4) = a
          /\ FromEnd(q16, Size(q11) + 5) = u
      BY <2>1, <2>2, <2>3, FiveOn
    <2>6. /\ Size(q11) + 1 = 12 /\ Size(q11) + 2 = 13 /\ Size(q11) + 3 = 14
          /\ Size(q11) + 4 = 15 /\ Size(q11) + 5 = 16
      BY <2>2
    <2> QED BY <2>4, <2>5, <2>6 DEF a, f, p, u
  <1>13. q16 \in Seq(GoodStep) /\ Size(q16) = 16 /\ \A i \in 1..11 : FromEnd(q16, i) = FromEnd(q11, i)
    BY <1>11, <1>12 DEF Atop
  <1> HIDE DEF q16
  <1>14. /\ Atop(q19, q16, 3)
         /\ FromEnd(q19, 17) = StepOf("await", "main", "dir", NoFile)
         /\ FromEnd(q19, 18) = StepOf("auth", "main", Blank, NoFile)
         /\ FromEnd(q19, 19) = StepOf("send", "main", "check-path", NoFile)
    BY <1>2, <1>13, ThreeOn
  <1>15. q19 \in Seq(GoodStep) /\ Size(q19) = 19 /\ \A i \in 1..16 : FromEnd(q19, i) = FromEnd(q16, i)
    BY <1>13, <1>14 DEF Atop
  <1> HIDE DEF q19, k, s, cl, ed, co, au, fr, sp, up, di, cp
  <1>16. /\ FromEnd(q19, 1) = StepOf("save", "main", Blank, NoFile)
         /\ FromEnd(q19, 2) = StepOf("repair", "main", "idle", NoFile)
         /\ FromEnd(q19, 3) = FromEnd(q6, 3) /\ FromEnd(q19, 4) = FromEnd(q6, 4)
         /\ FromEnd(q19, 5) = FromEnd(q6, 5) /\ FromEnd(q19, 6) = FromEnd(q6, 6)
         /\ FromEnd(q19, 7) = FromEnd(q11, 7) /\ FromEnd(q19, 8) = FromEnd(q11, 8)
         /\ FromEnd(q19, 9) = FromEnd(q11, 9) /\ FromEnd(q19, 10) = FromEnd(q11, 10)
         /\ FromEnd(q19, 11) = FromEnd(q11, 11) /\ FromEnd(q19, 12) = FromEnd(q16, 12)
         /\ FromEnd(q19, 13) = FromEnd(q16, 13) /\ FromEnd(q19, 14) = FromEnd(q16, 14)
         /\ FromEnd(q19, 15) = FromEnd(q16, 15) /\ FromEnd(q19, 16) = FromEnd(q16, 16)
    BY <1>4, <1>9, <1>11, <1>13, <1>15
  <1>17. Ready(q19)
    BY <1>8, <1>10, <1>12, <1>14, <1>15, <1>16 DEF Ready
  <1> QED BY <1>7, <1>15, <1>17 DEF R

-----------------------------------------------------------------------------
(***************************************************************************)
(* The two programs a run may start with.                                  *)
(***************************************************************************)
LEMMA ProgramSize ==
  ASSUME Init
  PROVE  /\ Ready(todo)
         /\ \/ /\ Size(todo) = 24
               /\ FromEnd(todo, 20) = StepOf("await", "main", "repos-info", NoFile)
               /\ FromEnd(todo, 21) = StepOf("auth", "main", Blank, NoFile)
               /\ FromEnd(todo, 22) = StepOf("send", "main", "greeting-response", NoFile)
               /\ FromEnd(todo, 23) = StepOf("await", "main", "greeting", NoFile)
               /\ FromEnd(todo, 24) = StepOf("connect", "main", "new", NoFile)
            \/ /\ Size(todo) = 27
               /\ FromEnd(todo, 20) = StepOf("await", "main", "rev", NoFile)
               /\ FromEnd(todo, 21) = StepOf("auth", "main", Blank, NoFile)
               /\ FromEnd(todo, 22) = StepOf("send", "main", "get-latest-rev", NoFile)
               /\ FromEnd(todo, 23) = StepOf("await", "main", "repos-info", NoFile)
               /\ FromEnd(todo, 24) = StepOf("auth", "main", Blank, NoFile)
               /\ FromEnd(todo, 25) = StepOf("send", "main", "greeting-response", NoFile)
               /\ FromEnd(todo, 26) = StepOf("await", "main", "greeting", NoFile)
               /\ FromEnd(todo, 27) = StepOf("connect", "main", "new", NoFile)
  <1> DEFINE q == Cat(CheckPath, Cat(Update, Repair("idle")))
             K == Connect("main")
  <1>1. Ready(q) /\ Size(q) = 19 /\ q \in Seq(GoodStep)
    BY ReadyUpdate DEF Ready
  <1>2. "main" \in Conn
    BY DEF Conn
  <1>3. K \in Seq(GoodStep)
    <2>1. One(StepOf("connect", "main", "new", NoFile)) \in Seq(GoodStep)
      BY <1>2, StepsGood DEF One
    <2>2. K = Cat(One(StepOf("connect", "main", "new", NoFile)), Setup("main"))
      BY DoOne DEF Connect, Cat
    <2> QED BY <1>2, <2>1, <2>2, SetupGood, CatGood
  <1>4. PICK L \in {<<>>, GetLatestRev} :
          todo = Cat(Cat(Cat(Cat(K, L), CheckPath), Update), Repair("idle"))
    BY DEF Init, Programs, Cat
  <1>5. L \in Seq(GoodStep)
    <2>1. <<>> \in Seq(GoodStep)
      OBVIOUS
    <2> QED BY <1>4, <2>1, CheckPathGood
  <1>6. todo = Cat(K, Cat(L, q))
    <2>1. /\ K \in Plan /\ L \in Plan /\ CheckPath \in Plan /\ Update \in Plan
          /\ Repair("idle") \in Plan
      BY <1>3, <1>5, CheckPathGood, RepairLast DEF Plan
    <2> HIDE DEF K
    <2> QED BY <1>4, <2>1, PlanChain
  <1> HIDE DEF K, q
  <1>7. CASE L = <<>>
    <2>1. Cat(L, q) = q
      BY <1>1, <1>7, ConcatEmptySeq DEF Cat
    <2>2. todo = Cat(Connect("main"), q)
      BY <1>6, <2>1 DEF K
    <2>3. /\ Atop(todo, q, 5)
          /\ FromEnd(todo, Size(q) + 1) = StepOf("await", "main", "repos-info", NoFile)
          /\ FromEnd(todo, Size(q) + 2) = StepOf("auth", "main", Blank, NoFile)
          /\ FromEnd(todo, Size(q) + 3) = StepOf("send", "main", "greeting-response", NoFile)
          /\ FromEnd(todo, Size(q) + 4) = StepOf("await", "main", "greeting", NoFile)
          /\ FromEnd(todo, Size(q) + 5) = StepOf("connect", "main", "new", NoFile)
      BY <1>1, <1>2, <2>2, ConnectAtop
    <2>4. /\ Size(q) + 1 = 20 /\ Size(q) + 2 = 21 /\ Size(q) + 3 = 22 /\ Size(q) + 4 = 23
          /\ Size(q) + 5 = 24
      BY <1>1
    <2>5. Ready(todo)
      BY <1>1, <2>3, ReadyStays
    <2>6. Size(todo) = 24
      BY <1>1, <2>3 DEF Atop
    <2> QED BY <2>3, <2>4, <2>5, <2>6
  <1>8. CASE L = GetLatestRev
    <2> DEFINE a == StepOf("send", "main", "get-latest-rev", NoFile)
               b == StepOf("auth", "main", Blank, NoFile)
               d == StepOf("await", "main", "rev", NoFile)
               p == Cat(One(a), Cat(One(b), Cat(One(d), q)))
    <2>1. a \in GoodStep /\ b \in GoodStep /\ d \in GoodStep
      BY <1>2, StepsGood DEF Said, Requests
    <2>2. One(a) \in Seq(GoodStep) /\ One(b) \in Seq(GoodStep) /\ One(d) \in Seq(GoodStep)
      BY <2>1 DEF One
    <2>3. L = Cat(Cat(One(a), One(b)), One(d))
      BY <1>8, DoOne DEF GetLatestRev, Send, CheckAuth, Await, Cat, Blank
    <2> HIDE DEF a, b, d
    <2>4. Cat(L, q) = p
      BY <1>1, <2>2, <2>3, Chain4
    <2>5. /\ Atop(p, q, 3) /\ FromEnd(p, Size(q) + 1) = d /\ FromEnd(p, Size(q) + 2) = b
          /\ FromEnd(p, Size(q) + 3) = a
      BY <1>1, <2>1, ThreeOn
    <2> HIDE DEF p
    <2>6. p \in Seq(GoodStep) /\ Size(p) = 22 /\ \A i \in 1..19 : FromEnd(p, i) = FromEnd(q, i)
      BY <1>1, <2>5 DEF Atop
    <2>7. /\ Size(q) + 1 = 20 /\ Size(q) + 2 = 21 /\ Size(q) + 3 = 22
      BY <1>1
    <2>8. todo = Cat(Connect("main"), p)
      BY <1>6, <2>4 DEF K
    <2>9. /\ Atop(todo, p, 5)
          /\ FromEnd(todo, Size(p) + 1) = StepOf("await", "main", "repos-info", NoFile)
          /\ FromEnd(todo, Size(p) + 2) = StepOf("auth", "main", Blank, NoFile)
          /\ FromEnd(todo, Size(p) + 3) = StepOf("send", "main", "greeting-response", NoFile)
          /\ FromEnd(todo, Size(p) + 4) = StepOf("await", "main", "greeting", NoFile)
          /\ FromEnd(todo, Size(p) + 5) = StepOf("connect", "main", "new", NoFile)
      BY <1>2, <2>6, <2>8, ConnectAtop
    <2>10. /\ Size(p) + 1 = 23 /\ Size(p) + 2 = 24 /\ Size(p) + 3 = 25 /\ Size(p) + 4 = 26
           /\ Size(p) + 5 = 27
      BY <2>6
    <2>11. Ready(todo)
      <3>1. Ready(p)
        BY <1>1, <2>5, ReadyStays
      <3> QED BY <2>6, <2>9, <3>1, ReadyStays
    <2>12. Size(todo) = 27 /\ \A i \in 1..22 : FromEnd(todo, i) = FromEnd(p, i)
      BY <2>6, <2>9 DEF Atop
    <2>13. FromEnd(todo, 20) = d /\ FromEnd(todo, 21) = b /\ FromEnd(todo, 22) = a
      BY <2>5, <2>7, <2>12
    <2> QED BY <2>9, <2>10, <2>11, <2>12, <2>13 DEF a, b, d
  <1> QED BY <1>4, <1>7, <1>8

\* A run starts in the shape of a run.
LEMMA InitShape ==
  ASSUME Init
  PROVE  Shape /\ Known /\ ~Busy /\ ~Now("challenge")
  <1>1. /\ Remaining = Size(todo)
        /\ \A k, s : FromEnd(todo, k) = s => Reads(k, s)
    BY BackNow DEF Reads, Doing, On, Saying, For
  <1>2. Ready(todo) /\ Remaining \in {24, 27}
    BY <1>1, ProgramSize
  <1>3. /\ Reads(1, StepOf("save", "main", Blank, NoFile))
        /\ Reads(2, StepOf("repair", "main", "idle", NoFile))
        /\ Reads(3, StepOf("await", "main", "ok", NoFile))
        /\ Reads(4, StepOf("send", "main", "success", NoFile))
        /\ Reads(5, StepOf("close", "shadow", Blank, NoFile))
        /\ Reads(6, StepOf("edit", "main", Blank, NoFile))
        /\ Reads(7, StepOf("await", "shadow", "repos-info", NoFile))
        /\ Reads(8, StepOf("auth", "shadow", Blank, NoFile))
        /\ Reads(9, StepOf("send", "shadow", "greeting-response", NoFile))
        /\ Reads(10, StepOf("await", "shadow", "greeting", NoFile))
        /\ Reads(11, StepOf("connect", "shadow", "new", NoFile))
        /\ Reads(12, StepOf("auth", "main", Blank, NoFile))
        /\ Reads(13, StepOf("send", "main", "finish-report", NoFile))
        /\ Reads(14, StepOf("send", "main", "set-path", NoFile))
        /\ Reads(15, StepOf("auth", "main", Blank, NoFile))
        /\ Reads(16, StepOf("send", "main", "update", NoFile))
        /\ Reads(17, StepOf("await", "main", "dir", NoFile))
        /\ Reads(18, StepOf("auth", "main", Blank, NoFile))
        /\ Reads(19, StepOf("send", "main", "check-path", NoFile))
    BY <1>1, <1>2 DEF Ready
  <1>4. /\ Doing(1) = "save" /\ On(1) = "main"
         /\ Doing(2) = "repair" /\ On(2) = "main" /\ Saying(2) = "idle"
         /\ Doing(3) = "await" /\ On(3) = "main" /\ Saying(3) = "ok"
         /\ Doing(4) = "send" /\ On(4) = "main" /\ Saying(4) = "success"
         /\ Doing(5) = "close" /\ On(5) = "shadow"
    BY <1>3, StepParts DEF Reads
  <1>5. /\ Doing(6) = "edit" /\ On(6) = "main"
         /\ Doing(7) = "await" /\ On(7) = "shadow" /\ Saying(7) = "repos-info"
         /\ Doing(8) = "auth" /\ On(8) = "shadow" /\ For(8) = NoFile
         /\ Doing(9) = "send" /\ On(9) = "shadow" /\ Saying(9) = "greeting-response"
         /\ Doing(10) = "await" /\ On(10) = "shadow" /\ Saying(10) = "greeting"
    BY <1>3, StepParts DEF Reads
  <1>6. /\ Doing(11) = "connect" /\ On(11) = "shadow" /\ Saying(11) = "new"
         /\ Doing(12) = "auth" /\ On(12) = "main" /\ For(12) = NoFile
         /\ Doing(13) = "send" /\ On(13) = "main" /\ Saying(13) = "finish-report"
         /\ Doing(14) = "send" /\ On(14) = "main" /\ Saying(14) = "set-path"
         /\ Doing(15) = "auth" /\ On(15) = "main" /\ For(15) = NoFile
    BY <1>3, StepParts DEF Reads
  <1>7. /\ Doing(16) = "send" /\ On(16) = "main" /\ Saying(16) = "update"
         /\ Doing(17) = "await" /\ On(17) = "main" /\ Saying(17) = "dir"
         /\ Doing(18) = "auth" /\ On(18) = "main" /\ For(18) = NoFile
         /\ Doing(19) = "send" /\ On(19) = "main" /\ Saying(19) = "check-path"
    BY <1>3, StepParts DEF Reads
  <1>8. ~Busy /\ ~Fetching
    BY <1>2, <1>4, <1>5 DEF Busy, Fetching
  <1>9. EditSteps /\ UpdateSteps
    BY <1>4, <1>5, <1>6, <1>7 DEF EditSteps, UpdateSteps, SetupSteps, IsStep, IsPlain, IsAuth, IsAuthOf
  <1>10. CASE Remaining = 24
    <2>1. /\ Doing(20) = "await" /\ On(20) = "main" /\ Saying(20) = "repos-info"
          /\ Doing(21) = "auth" /\ On(21) = "main" /\ For(21) = NoFile
          /\ Doing(22) = "send" /\ On(22) = "main" /\ Saying(22) = "greeting-response"
          /\ Doing(23) = "await" /\ On(23) = "main" /\ Saying(23) = "greeting"
          /\ Doing(24) = "connect" /\ On(24) = "main" /\ Saying(24) = "new"
      BY <1>1, <1>10, ProgramSize, StepParts DEF Reads
    <2>2. ~Latest
      BY <2>1 DEF Latest
    <2>3. OpenSteps
      BY <1>10, <2>1, <2>2 DEF OpenSteps, SetupSteps, IsStep, IsAuth, IsAuthOf
    <2>4. Left("main") = 0 /\ Left("shadow") = 0
      BY <1>8, <1>10, <2>2 DEF Left, RunLeft
    <2> QED BY <1>8, <1>9, <1>10, <2>1, <2>3, <2>4 DEF Shape, RunShape, Known, Conn, Now
  <1>11. CASE Remaining = 27
    <2>1. /\ Doing(20) = "await" /\ On(20) = "main" /\ Saying(20) = "rev"
          /\ Doing(21) = "auth" /\ On(21) = "main" /\ For(21) = NoFile
          /\ Doing(22) = "send" /\ On(22) = "main" /\ Saying(22) = "get-latest-rev"
          /\ Doing(23) = "await" /\ On(23) = "main" /\ Saying(23) = "repos-info"
          /\ Doing(24) = "auth" /\ On(24) = "main" /\ For(24) = NoFile
          /\ Doing(25) = "send" /\ On(25) = "main" /\ Saying(25) = "greeting-response"
          /\ Doing(26) = "await" /\ On(26) = "main" /\ Saying(26) = "greeting"
          /\ Doing(27) = "connect" /\ On(27) = "main" /\ Saying(27) = "new"
      BY <1>1, <1>11, ProgramSize, StepParts DEF Reads
    <2>2. Latest
      BY <1>11, <2>1 DEF Latest
    <2>3. OpenSteps
      BY <1>11, <2>1, <2>2 DEF OpenSteps, SetupSteps, IsStep, IsAuth, IsAuthOf
    <2>4. Left("main") = 0 /\ Left("shadow") = 0
      BY <1>8, <1>11, <2>2 DEF Left, RunLeft
    <2> QED BY <1>8, <1>9, <1>11, <2>1, <2>3, <2>4 DEF Shape, RunShape, Known, Conn, Now
  <1> QED BY <1>2, <1>10, <1>11

=============================================================================
