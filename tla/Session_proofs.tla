-------------------------- MODULE Session_proofs --------------------------
(***************************************************************************)
(* Theorems about Session, for every set of files, every length of an edit *)
(* and every number of connections that break.                             *)
(***************************************************************************)
EXTENDS Session, SequenceTheorems, TLAPS

-----------------------------------------------------------------------------
(***************************************************************************)
(* Type correctness.  A request is asked for with a file if and only if it *)
(* is get-file; that has to be known of the steps still to be taken and of *)
(* what is under way to the server.                                        *)
(***************************************************************************)
Message == [what : Requests \cup Heard, file : File \cup {NoFile}]
GoodMessage == {m \in Message : m.what \in Requests => Asking(m.what, m.file) \in Request}

GoodStep ==
  {s \in StepRecord : s.do = "send" => [what |-> s.what, file |-> s.file] \in GoodMessage}

Answer == [is : FromServer, for : Request]
Word == Said \cup Heard \cup {"auth", "edit"}

ClientTyped ==
  todo \in Seq(GoodStep) /\ outcome \in {"running", "failed", "recorded"}

ConnTyped ==
  /\ conn \in [Conn -> {"none", "up", "cut", "reset"}]
  /\ torn \in [Conn -> {"out", "token", "string"}]

NetTyped ==
  toC \in [Conn -> Seq(Answer)] /\ toS \in [Conn -> Seq(GoodMessage)]

ServerTyped ==
  /\ script \in [Conn -> Seq(Word)]
  /\ serves \in [Conn -> Request]
  /\ edit \in {"none", "open", "closed", "aborted", "done"}
  /\ edits \in 0..MaxEdit

RestTyped == asked \in [Conn -> Request] /\ bad \subseteq File /\ cuts \in 0..MaxCuts

TypeInv == ClientTyped /\ ConnTyped /\ NetTyped /\ ServerTyped /\ RestTyped

LEMMA TypeInvImplies == TypeInv => TypeOK
  <1> SUFFICES ASSUME TypeInv PROVE TypeOK
    OBVIOUS
  <1>1. GoodStep \subseteq StepRecord /\ GoodMessage \subseteq Message
    BY DEF GoodStep, GoodMessage
  <1>2. todo \in Seq(StepRecord)
    BY <1>1, SeqMonotonic DEF TypeInv, ClientTyped
  <1>3. toS \in [Conn -> Seq(Message)]
    <2>1. \A s \in Seq(GoodMessage) : s \in Seq(Message)
      BY <1>1, SeqMonotonic
    <2> QED BY <2>1 DEF TypeInv, NetTyped
  <1>4. toC \in [Conn -> Seq(Answer)]
    BY DEF TypeInv, NetTyped
  <1>5. script \in [Conn -> Seq(Word)]
    BY DEF TypeInv, ServerTyped
  <1> QED
    BY <1>2, <1>3, <1>4, <1>5
       DEF TypeInv, TypeOK, ClientTyped, ConnTyped, ServerTyped, RestTyped, Message, Answer, Word

LEMMA Joined ==
  ASSUME NEW S, NEW s \in Seq(S), NEW t \in Seq(S)
  PROVE  s \o t \in Seq(S)
  OBVIOUS

LEMMA OneGood ==
  ASSUME NEW d, NEW c, NEW w, NEW f,
         [do |-> d, on |-> c, what |-> w, file |-> f] \in GoodStep
  PROVE  Do(d, c, w, f) \in Seq(GoodStep)
  BY DEF Do

\* Every part of the client's program is a sequence of such steps.
LEMMA SendGood ==
  ASSUME NEW c \in Conn, NEW w \in (Requests \ {"get-file"}) \cup Heard
  PROVE  Send(c, w) \in Seq(GoodStep)
  <1>1. w \in Requests => Asking(w, NoFile) \in Request
    BY DEF Asking, Request, Requests, Heard
  <1>2. [what |-> w, file |-> NoFile] \in GoodMessage
    BY <1>1 DEF GoodMessage, Message
  <1>3. [do |-> "send", on |-> c, what |-> w, file |-> NoFile] \in GoodStep
    BY <1>2 DEF GoodStep, StepRecord
  <1> QED BY <1>3, OneGood DEF Send

LEMMA AwaitGood ==
  ASSUME NEW c \in Conn, NEW w \in Said
  PROVE  Await(c, w) \in Seq(GoodStep)
  <1>1. [do |-> "await", on |-> c, what |-> w, file |-> NoFile] \in GoodStep
    BY DEF GoodStep, StepRecord
  <1> QED BY <1>1, OneGood DEF Await

LEMMA OtherGood ==
  ASSUME NEW c \in Conn, NEW f \in File \cup {NoFile},
         NEW d \in {"connect", "auth", "contents", "edit", "close", "repair", "save"},
         NEW w \in {"", "new", "again", "idle", "busy"}
  PROVE  Do(d, c, w, f) \in Seq(GoodStep)
  <1>1. [do |-> d, on |-> c, what |-> w, file |-> f] \in GoodStep
    BY DEF GoodStep, StepRecord
  <1> QED BY <1>1, OneGood

LEMMA SetupGood ==
  ASSUME NEW c \in Conn
  PROVE  Setup(c) \in Seq(GoodStep) /\ CheckAuth(c) \in Seq(GoodStep)
  <1>1. CheckAuth(c) \in Seq(GoodStep)
    BY OtherGood DEF CheckAuth
  <1>2. Await(c, "greeting") \in Seq(GoodStep) /\ Await(c, "repos-info") \in Seq(GoodStep)
    BY AwaitGood DEF Said
  <1>3. Send(c, "greeting-response") \in Seq(GoodStep)
    BY SendGood DEF Heard
  <1> QED BY <1>1, <1>2, <1>3, Joined DEF Setup

LEMMA FileAnswerGood ==
  ASSUME NEW c \in Conn
  PROVE  FileAnswer(c) \in Seq(GoodStep)
  <1>1. Await(c, "file") \in Seq(GoodStep) /\ Await(c, "ok") \in Seq(GoodStep)
    BY AwaitGood DEF Said
  <1>2. Do("contents", c, "", NoFile) \in Seq(GoodStep)
    BY OtherGood
  <1> QED BY <1>1, <1>2, Joined DEF FileAnswer

LEMMA AskFileGood ==
  ASSUME NEW c \in Conn, NEW f \in File
  PROVE  Do("send", c, "get-file", f) \in Seq(GoodStep)
  <1>1. [what |-> "get-file", file |-> f] \in GoodMessage
    BY DEF GoodMessage, Message, Asking, Request, Requests
  <1>2. [do |-> "send", on |-> c, what |-> "get-file", file |-> f] \in GoodStep
    BY <1>1 DEF GoodStep, StepRecord, Requests
  <1> QED BY <1>2, OneGood

LEMMA GetFileGood ==
  ASSUME NEW c \in Conn, NEW f \in File
  PROVE  GetFile(c, f) \in Seq(GoodStep) /\ TryReconnect(c, f) \in Seq(GoodStep)
  <1>1. Do("auth", c, "", f) \in Seq(GoodStep)
    BY OtherGood
  <1>2. GetFile(c, f) \in Seq(GoodStep)
    BY <1>1, AskFileGood, FileAnswerGood, Joined DEF GetFile
  <1>3. Do("connect", c, "again", NoFile) \in Seq(GoodStep)
    BY OtherGood
  <1>4. TryReconnect(c, f) \in Seq(GoodStep)
    BY <1>3, AskFileGood, FileAnswerGood, SetupGood, Joined DEF TryReconnect
  <1> QED BY <1>2, <1>4

LEMMA RepairGood ==
  ASSUME NEW w \in {"idle", "busy"}
  PROVE  Repair(w) \in Seq(GoodStep)
  <1>1. Do("repair", "main", w, NoFile) \in Seq(GoodStep)
        /\ Do("save", "main", "", NoFile) \in Seq(GoodStep)
    BY OtherGood DEF Conn
  <1> QED BY <1>1, Joined DEF Repair

LEMMA ProgramGood ==
  ASSUME NEW p \in Programs
  PROVE  p \in Seq(GoodStep)
  <1> DEFINE G == Seq(GoodStep)
  <1>0. "main" \in Conn /\ "shadow" \in Conn
    BY DEF Conn
  <1>1. \A c \in Conn : Connect(c) \in G
    <2> TAKE c \in Conn
    <2>1. Do("connect", c, "new", NoFile) \in G
      BY OtherGood
    <2> QED BY <2>1, SetupGood, Joined DEF Connect
  <1>2. \A c \in Conn : CheckAuth(c) \in G
    BY SetupGood
  <1>3. GetLatestRev \in G
    <2>1. Send("main", "get-latest-rev") \in G
      BY <1>0, SendGood DEF Requests
    <2>2. Await("main", "rev") \in G
      BY <1>0, AwaitGood DEF Said
    <2> QED BY <1>0, <1>2, <2>1, <2>2, Joined DEF GetLatestRev
  <1>4. CheckPath \in G
    <2>1. Send("main", "check-path") \in G
      BY <1>0, SendGood DEF Requests
    <2>2. Await("main", "dir") \in G
      BY <1>0, AwaitGood DEF Said
    <2> QED BY <1>0, <1>2, <2>1, <2>2, Joined DEF CheckPath
  <1>5. Update \in G
    <2>1. Send("main", "update") \in G
      BY <1>0, SendGood DEF Requests
    <2>2. SetPath \in G /\ FinishReport \in G /\ Send("main", "success") \in G
      BY <1>0, SendGood DEF Heard, SetPath, FinishReport
    <2>3. Await("main", "ok") \in G
      BY <1>0, AwaitGood DEF Said
    <2>4. Do("edit", "main", "", NoFile) \in G /\ Do("close", "shadow", "", NoFile) \in G
      BY <1>0, OtherGood
    <2>5. Editor \in G
      <3>1. CheckAuth("main") \in G /\ Connect("shadow") \in G
        BY <1>0, <1>1, <1>2
      <3> HIDE DEF G
      <3> QED BY <3>1, <2>4, Joined DEF Editor, G
    <2>6. CheckAuth("main") \in G
      BY <1>0, <1>2
    <2> QED BY <2>1, <2>2, <2>3, <2>5, <2>6, Joined DEF Update
  <1>6. Repair("idle") \in G
    BY RepairGood
  <1>7. <<>> \in G
    OBVIOUS
  <1>8. PICK latest \in {<<>>, GetLatestRev} :
          p = Connect("main") \o latest \o CheckPath \o Update \o Repair("idle")
    BY DEF Programs
  <1>9. latest \in G /\ Connect("main") \in G
    BY <1>0, <1>1, <1>3, <1>7
  <1> QED BY <1>4, <1>5, <1>6, <1>8, <1>9, Joined

LEMMA ScriptTyped ==
  ASSUME NEW w \in Requests
  PROVE  Script(w) \in Seq(Word)
  <1>1. <<"auth", "rev">> \in Seq(Word) /\ <<"auth", "dir">> \in Seq(Word)
    BY DEF Word, Said
  <1>2. <<"auth", "file", "contents", "ok">> \in Seq(Word)
    BY DEF Word, Said
  <1>3. <<"auth", "set-path", "finish-report", "auth", "edit", "success", "ok">> \in Seq(Word)
    BY DEF Word, Said, Heard
  <1> QED BY <1>1, <1>2, <1>3 DEF Script, Requests

LEMMA SetUpTyped ==
  SetUp \in Request /\ Greeting \in Seq(Word)
  <1>1. SetUp \in Request
    BY DEF SetUp, Asking, Request
  <1>2. Greeting \in Seq(Word)
    BY DEF Greeting, Word, Said, Heard
  <1> QED BY <1>1, <1>2

\* One entry of a connection's state is replaced.
LEMMA Replaced ==
  ASSUME NEW S, NEW f \in [Conn -> S], NEW c \in Conn, NEW v \in S
  PROVE  [f EXCEPT ![c] = v] \in [Conn -> S]
  OBVIOUS

LEMMA TypeInit == Init => TypeInv
  <1> SUFFICES ASSUME Init PROVE TypeInv
    OBVIOUS
  <1>1. ClientTyped
    BY ProgramGood DEF Init, ClientTyped
  <1>2. ConnTyped
    BY DEF Init, ConnTyped
  <1>3. NetTyped
    BY DEF Init, NetTyped
  <1>4. ServerTyped
    BY BoundAssumption, SetUpTyped DEF Init, ServerTyped
  <1>5. RestTyped
    BY BoundAssumption, SetUpTyped DEF Init, RestTyped
  <1> QED BY <1>1, <1>2, <1>3, <1>4, <1>5 DEF TypeInv

LEMMA AdvanceTyped ==
  ASSUME ClientTyped, todo # <<>>, Advance
  PROVE  ClientTyped'
  BY DEF ClientTyped, Advance

LEMMA StepTyped ==
  ASSUME ClientTyped, todo # <<>>
  PROVE  Step \in GoodStep /\ Step.on \in Conn /\ Step.file \in File \cup {NoFile}
  <1>1. Step \in GoodStep
    BY DEF ClientTyped, Step
  <1>2. Step \in StepRecord
    BY <1>1 DEF GoodStep
  <1> QED BY <1>1, <1>2 DEF StepRecord

LEMMA FailedTyped ==
  ASSUME ClientTyped, todo # <<>>, Failed
  PROVE  ClientTyped'
  <1>2. CASE Authenticating /\ Step.file # NoFile
    <2> DEFINE m == 2 + Len(FileAnswer(Step.on))
    <2>1. TryReconnect(Step.on, Step.file) \in Seq(GoodStep)
      BY <1>2, StepTyped, GetFileGood
    <2>2. m \in Nat /\ m >= 1
      BY StepTyped, FileAnswerGood
    <2>3. SubSeq(todo, m, Len(todo)) \in Seq(GoodStep)
      <3> HIDE DEF m
      <3>1. \A i \in m..Len(todo) : todo[i] \in GoodStep
        BY <2>2 DEF ClientTyped
      <3>2. Len(todo) \in Int
        BY DEF ClientTyped
      <3> QED BY <3>1, <3>2, <2>2, SubSeqProperties
    <2>4. todo' = TryReconnect(Step.on, Step.file) \o SubSeq(todo, m, Len(todo))
          /\ outcome' = outcome
      BY <1>2 DEF Failed
    <2> QED BY <2>1, <2>3, <2>4, Joined DEF ClientTyped
  <1>3. CASE ~(Authenticating /\ Step.file # NoFile)
    <2>1. \/ todo' = Repair("busy") /\ outcome' = outcome
          \/ todo' = <<>> /\ outcome' = "failed"
      BY <1>3 DEF Failed
    <2>2. <<>> \in Seq(GoodStep) /\ Repair("busy") \in Seq(GoodStep)
      BY RepairGood
    <2> QED BY <2>1, <2>2 DEF ClientTyped
  <1> QED BY <1>2, <1>3

LEMMA ConsumeTyped ==
  ASSUME NetTyped, NEW c \in Conn, toC[c] # <<>>, Consume(c)
  PROVE  toC' \in [Conn -> Seq(Answer)]
  <1>1. Tail(toC[c]) \in Seq(Answer)
    BY DEF NetTyped
  <1> QED BY <1>1 DEF NetTyped, Consume

LEMMA DeliverTyped ==
  ASSUME NetTyped, ConnTyped, NEW c \in Conn, NEW w, NEW f,
         [what |-> w, file |-> f] \in GoodMessage, Deliver(c, w, f)
  PROVE  /\ toS' \in [Conn -> Seq(GoodMessage)]
         /\ conn' \in [Conn -> {"none", "up", "cut", "reset"}]
  <1>1. Append(toS[c], [what |-> w, file |-> f]) \in Seq(GoodMessage)
    BY DEF NetTyped
  <1> QED BY <1>1 DEF NetTyped, ConnTyped, Deliver

LEMMA TypeReach ==
  ASSUME TypeInv, NEW c \in Conn, Reach(c)
  PROVE  TypeInv'
  <1>1. todo # <<>>
    BY DEF Reach, At
  <1>2. ClientTyped'
    BY <1>1, AdvanceTyped, FailedTyped DEF TypeInv, Reach
  <1>3. ConnTyped'
    BY DEF TypeInv, ConnTyped, Reach
  <1>4. NetTyped'
    BY DEF TypeInv, NetTyped, Reach
  <1>5. ServerTyped'
    <2>1. serves' \in [Conn -> Request]
      BY SetUpTyped DEF TypeInv, ServerTyped, Reach
    <2>2. script' \in [Conn -> Seq(Word)]
      <3>1. <<>> \in Seq(Word)
        OBVIOUS
      <3>2. \E q \in Seq(Word) : script' = [script EXCEPT ![c] = q]
        BY <3>1, SetUpTyped DEF Reach
      <3> QED BY <3>2, Replaced DEF TypeInv, ServerTyped
    <2> QED BY <2>1, <2>2 DEF TypeInv, ServerTyped, Reach
  <1>6. RestTyped'
    BY SetUpTyped DEF TypeInv, RestTyped, Reach
  <1> QED BY <1>2, <1>3, <1>4, <1>5, <1>6 DEF TypeInv

LEMMA TypeSend ==
  ASSUME TypeInv, NEW c \in Conn, SendStep(c)
  PROVE  TypeInv'
  <1>1. todo # <<>> /\ Step \in GoodStep /\ Step.do = "send"
    BY StepTyped DEF SendStep, At, TypeInv
  <1>2. [what |-> Step.what, file |-> Step.file] \in GoodMessage
    BY <1>1 DEF GoodStep
  <1>3. Step.what \in Requests => Asking(Step.what, Step.file) \in Request
    BY <1>2 DEF GoodMessage
  <1>4. ClientTyped'
    BY <1>1, AdvanceTyped, FailedTyped DEF TypeInv, SendStep
  <1>5. NetTyped' /\ ConnTyped'
    BY <1>2, DeliverTyped DEF TypeInv, SendStep, NetTyped, ConnTyped
  <1>6. ServerTyped' /\ RestTyped'
    BY <1>3 DEF TypeInv, SendStep, server, ServerTyped, RestTyped
  <1> QED BY <1>4, <1>5, <1>6 DEF TypeInv

LEMMA TypeReceive ==
  ASSUME TypeInv, NEW c \in Conn, Receive(c)
  PROVE  TypeInv'
  <1>1. todo # <<>> /\ toC[c] # <<>>
    BY DEF Receive, At, Readable
  <1>2. ClientTyped'
    BY <1>1, AdvanceTyped, FailedTyped DEF TypeInv, Receive
  <1>3. NetTyped' /\ ConnTyped'
    BY <1>1, ConsumeTyped DEF TypeInv, Receive, NetTyped, ConnTyped
  <1>4. ServerTyped' /\ RestTyped'
    BY DEF TypeInv, Receive, server, ServerTyped, RestTyped
  <1> QED BY <1>2, <1>3, <1>4 DEF TypeInv

LEMMA TypeAuth ==
  ASSUME TypeInv, NEW c \in Conn, Auth(c)
  PROVE  TypeInv'
  <1>1. todo # <<>> /\ toC[c] # <<>>
    BY DEF Auth, At, Readable
  <1>2. ServerTyped' /\ RestTyped' /\ UNCHANGED torn /\ Consume(c)
    BY DEF TypeInv, Auth, server, ServerTyped, RestTyped
  <1>3. CASE \/ Failed /\ UNCHANGED <<conn, toS>>
             \/ Advance /\ UNCHANGED <<conn, toS>>
    <2>1. ClientTyped'
      BY <1>1, <1>3, AdvanceTyped, FailedTyped DEF TypeInv
    <2>2. NetTyped' /\ ConnTyped'
      BY <1>1, <1>2, <1>3, ConsumeTyped DEF TypeInv, NetTyped, ConnTyped
    <2> QED BY <1>2, <2>1, <2>2 DEF TypeInv
  <1>4. CASE /\ Deliver(c, "auth-response", NoFile)
             /\ todo' = Do("challenge", c, "ok", Step.file) \o Tail(todo)
             /\ UNCHANGED outcome
    <2>1. [what |-> "auth-response", file |-> NoFile] \in GoodMessage
      BY DEF GoodMessage, Message, Requests, Heard
    <2>2. NetTyped' /\ ConnTyped'
      BY <1>1, <1>2, <1>4, <2>1, ConsumeTyped, DeliverTyped DEF TypeInv, NetTyped, ConnTyped
    <2>3. Step.file \in File \cup {NoFile}
      BY <1>1, StepTyped DEF TypeInv
    <2>4. [do |-> "challenge", on |-> c, what |-> "ok", file |-> Step.file] \in GoodStep
      BY <2>3 DEF GoodStep, StepRecord, Said
    <2>5. Do("challenge", c, "ok", Step.file) \in Seq(GoodStep)
      BY <2>4, OneGood
    <2>6. Tail(todo) \in Seq(GoodStep)
      BY <1>1 DEF TypeInv, ClientTyped
    <2>7. ClientTyped'
      BY <1>4, <2>5, <2>6, Joined DEF TypeInv, ClientTyped
    <2> QED BY <1>2, <2>2, <2>7 DEF TypeInv
  <1> QED BY <1>3, <1>4 DEF Auth

LEMMA TypeContents ==
  ASSUME TypeInv, NEW c \in Conn, Contents(c)
  PROVE  TypeInv'
  <1>1. todo # <<>> /\ (toC[c] # <<>> \/ toC' = toC)
    BY DEF Contents, At, Readable
  <1>2. ClientTyped'
    BY <1>1, AdvanceTyped DEF TypeInv, Contents
  <1>3. (Consume(c) /\ toC[c] # <<>>) \/ toC' = toC
    BY DEF Contents, Readable
  <1>4. NetTyped' /\ ConnTyped'
    BY <1>3, ConsumeTyped DEF TypeInv, Contents, NetTyped, ConnTyped
  <1>5. ServerTyped' /\ RestTyped'
    BY DEF TypeInv, Contents, server, ServerTyped, RestTyped
  <1> QED BY <1>2, <1>4, <1>5 DEF TypeInv

LEMMA TypeEdit ==
  ASSUME TypeInv, EditStep
  PROVE  TypeInv'
  <1>0. "main" \in Conn /\ "shadow" \in Conn
    BY DEF Conn
  <1>1. todo # <<>> /\ toC["main"] # <<>>
    BY DEF EditStep, At, Readable
  <1>2. ClientTyped'
    <2>1. CASE UNCHANGED <<todo, outcome>>
      BY <2>1 DEF TypeInv, ClientTyped
    <2>2. CASE Advance \/ Failed
      BY <1>1, <2>2, AdvanceTyped, FailedTyped DEF TypeInv
    <2>3. CASE (\E f \in File : todo' = GetFile("shadow", f) \o todo) /\ UNCHANGED outcome
      BY <1>0, <2>3, GetFileGood, Joined DEF TypeInv, ClientTyped
    <2> QED BY <2>1, <2>2, <2>3 DEF EditStep
  <1>3. NetTyped' /\ ConnTyped'
    BY <1>0, <1>1, ConsumeTyped DEF TypeInv, EditStep, NetTyped, ConnTyped
  <1>4. ServerTyped' /\ RestTyped'
    BY DEF TypeInv, EditStep, server, ServerTyped, RestTyped
  <1> QED BY <1>2, <1>3, <1>4 DEF TypeInv

LEMMA TypeBroken ==
  ASSUME TypeInv, NEW c \in Conn, Eod(c) \/ ReadPart(c) \/ GarbledToken(c) \/ GarbledString(c)
  PROVE  TypeInv'
  <1>1. todo # <<>>
    BY DEF Eod, ReadPart, GarbledToken, GarbledString, Reading, At
  <1>2. ServerTyped' /\ RestTyped'
    BY DEF TypeInv, Eod, ReadPart, GarbledToken, GarbledString, client, server,
           ServerTyped, RestTyped
  <1>3. ClientTyped'
    <2>1. CASE UNCHANGED <<todo, outcome>>
      BY <2>1 DEF TypeInv, ClientTyped
    <2>2. CASE Failed
      BY <1>1, <2>2, FailedTyped DEF TypeInv
    <2> QED
      BY <2>1, <2>2 DEF Eod, ReadPart, GarbledToken, GarbledString, client
  <1>4. toC' \in [Conn -> Seq(Answer)]
    <2>1. toC' = toC \/ (Consume(c) /\ toC[c] # <<>>)
      BY DEF Eod, ReadPart, GarbledToken, GarbledString, Garbled, net
    <2> QED BY <2>1, ConsumeTyped DEF TypeInv, NetTyped
  <1>5. UNCHANGED <<toS, conn>>
    BY DEF Eod, ReadPart, GarbledToken, GarbledString, net
  <1>6. torn' \in [Conn -> {"out", "token", "string"}]
    <2>1. \/ torn' = torn
          \/ torn' = [torn EXCEPT ![c] = "token"]
          \/ torn' = [torn EXCEPT ![c] = "string"]
      BY DEF Eod, ReadPart, GarbledToken, GarbledString, net
    <2> QED BY <2>1 DEF TypeInv, ConnTyped
  <1> QED BY <1>2, <1>3, <1>4, <1>5, <1>6 DEF TypeInv, NetTyped, ConnTyped

LEMMA TypeEnd ==
  ASSUME TypeInv, CloseShadow \/ RepairStep \/ Save
  PROVE  TypeInv'
  <1>1. ServerTyped' /\ RestTyped'
    BY DEF TypeInv, CloseShadow, RepairStep, Save, server, ServerTyped, RestTyped
  <1>2. NetTyped' /\ ConnTyped'
    BY DEF TypeInv, CloseShadow, RepairStep, Save, net, NetTyped, ConnTyped, Conn
  <1>3. ClientTyped'
    <2>1. CASE todo # <<>> /\ Advance
      BY <2>1, AdvanceTyped DEF TypeInv
    <2>2. CASE RepairStep /\ ~Advance
      <3>1. PICK f \in bad : todo' = GetFile("main", f) \o Repair("busy") /\ UNCHANGED outcome
        BY <2>2 DEF RepairStep
      <3>2. f \in File /\ "main" \in Conn
        BY <3>1 DEF TypeInv, RestTyped, Conn
      <3> QED
        BY <3>1, <3>2, GetFileGood, RepairGood, Joined DEF TypeInv, ClientTyped
    <2>3. CASE Save
      BY <2>3 DEF TypeInv, ClientTyped, Save
    <2> QED BY <2>1, <2>2, <2>3 DEF CloseShadow, RepairStep, At
  <1> QED BY <1>1, <1>2, <1>3 DEF TypeInv

\* What the server says goes to the end of what is under way to the client.
LEMMA TellTyped ==
  ASSUME TypeInv, NEW c \in Conn, NEW w \in FromServer, Tell(c, w)
  PROVE  toC' \in [Conn -> Seq(Answer)]
  <1>1. [is |-> w, for |-> serves[c]] \in Answer
    BY DEF TypeInv, ServerTyped, Answer
  <1>2. Append(toC[c], [is |-> w, for |-> serves[c]]) \in Seq(Answer)
    BY <1>1 DEF TypeInv, NetTyped
  <1> QED BY <1>2 DEF TypeInv, NetTyped, Tell

LEMMA ThenTyped ==
  ASSUME TypeInv, NEW c \in Conn, NEW next \in Seq(Word), Then(c, next)
  PROVE  script' \in [Conn -> Seq(Word)]
  BY DEF TypeInv, ServerTyped, Then

LEMMA TypeServer ==
  ASSUME TypeInv, NEW c \in Conn, Server(c)
  PROVE  TypeInv'
  <1>1. ClientTyped' /\ RestTyped'
    BY DEF TypeInv, Server, Say, SayAuth, Refuse, Hear, EditCommand, CloseEdit, AbortEdit,
           client, ClientTyped, RestTyped
  <1>2. ConnTyped'
    BY DEF TypeInv, Server, Say, SayAuth, Refuse, Hear, EditCommand, CloseEdit, AbortEdit,
           ConnTyped
  <1>3. toC' \in [Conn -> Seq(Answer)]
    <2>1. toC' = toC \/ \E w \in FromServer : Tell(c, w)
      <3>1. CASE Say(c)
        <4>1. PICK w \in Variants(Head(script[c])) : Tell(c, w)
          BY <3>1 DEF Say
        <4>2. Head(script[c]) \in Said
          BY <3>1 DEF Say, Due
        <4>3. w \in FromServer
          BY <4>2 DEF Variants, FromServer
        <4> QED BY <4>1, <4>3
      <3>2. CASE ~Say(c)
        BY <3>2 DEF Server, SayAuth, Refuse, Hear, EditCommand, CloseEdit, AbortEdit,
                    FromServer, Said
      <3> QED BY <3>1, <3>2
    <2> QED BY <2>1, TellTyped DEF TypeInv, NetTyped
  <1>4. toS' \in [Conn -> Seq(GoodMessage)]
    <2>1. CASE UNCHANGED toS
      BY <2>1 DEF TypeInv, NetTyped
    <2>2. CASE Hear(c)
      BY <2>2 DEF TypeInv, NetTyped, Hear
    <2> QED
      BY <2>1, <2>2 DEF Server, Say, SayAuth, Refuse, EditCommand, CloseEdit, AbortEdit
  <1>5. /\ edit' \in {"none", "open", "closed", "aborted", "done"}
        /\ edits' \in 0..MaxEdit
    BY BoundAssumption
       DEF TypeInv, ServerTyped, Server, Say, SayAuth, Refuse, Hear, EditCommand, CloseEdit,
           AbortEdit
  <1>6. script' \in [Conn -> Seq(Word)] /\ serves' \in [Conn -> Request]
    <2>1. script[c] \in Seq(Word) /\ <<>> \in Seq(Word)
      BY DEF TypeInv, ServerTyped
    <2>2. script[c] # <<>> => Tail(script[c]) \in Seq(Word)
      BY <2>1
    <2>3. CASE Say(c) \/ Refuse(c) \/ EditCommand(c) \/ CloseEdit(c)
      BY <2>1, <2>2, <2>3, ThenTyped
         DEF TypeInv, ServerTyped, Say, Refuse, EditCommand, CloseEdit, Due
    <2>4. CASE SayAuth(c) \/ AbortEdit(c)
      <3>1. /\ <<"auth-response", "ok">> \in Seq(Word) /\ <<"other-response", "ok">> \in Seq(Word)
            /\ <<"success", "failure">> \in Seq(Word)
        BY DEF Word, Said, Heard
      <3>2. script[c] # <<>> =>
              /\ <<"auth-response", "ok">> \o Tail(script[c]) \in Seq(Word)
              /\ <<"other-response", "ok">> \o Tail(script[c]) \in Seq(Word)
        BY <2>2, <3>1, Joined
      <3> QED
        BY <2>1, <2>2, <2>4, <3>1, <3>2, ThenTyped
           DEF TypeInv, ServerTyped, SayAuth, AbortEdit, Due
    <2>5. CASE Hear(c)
      <3>1. Head(toS[c]) \in GoodMessage
        BY <2>5 DEF Hear, TypeInv, NetTyped
      <3>2. Head(toS[c]).what \in Requests =>
              Asking(Head(toS[c]).what, Head(toS[c]).file) \in Request
        BY <3>1 DEF GoodMessage
      <3> QED
        BY <2>1, <2>2, <2>5, <3>2, ThenTyped, ScriptTyped DEF TypeInv, ServerTyped, Hear, Due
    <2> QED BY <2>3, <2>4, <2>5 DEF Server
  <1> QED
    BY <1>1, <1>2, <1>3, <1>4, <1>5, <1>6 DEF TypeInv, NetTyped, ServerTyped

LEMMA TypeCut ==
  ASSUME TypeInv, NEW c \in Conn, Cut(c)
  PROVE  TypeInv'
  <1>1. ClientTyped' /\ RestTyped' /\ ServerTyped'
    BY BoundAssumption DEF TypeInv, Cut, Then, client, ClientTyped, RestTyped, ServerTyped
  <1>2. ConnTyped'
    BY DEF TypeInv, Cut, ConnTyped
  <1>3. toS' \in [Conn -> Seq(GoodMessage)]
    BY DEF TypeInv, Cut, NetTyped
  <1>4. toC' \in [Conn -> Seq(Answer)]
    <2>1. PICK k \in 0..Len(toC[c]) :
            \/ toC' = [toC EXCEPT ![c] = SubSeq(@, 1, k)]
            \/ /\ k < Len(toC[c])
               /\ \E p \in Parts :
                    toC' = [toC EXCEPT ![c] = Append(SubSeq(@, 1, k), [@[k + 1] EXCEPT !.is = p])]
      BY DEF Cut
    <2>2. toC[c] \in Seq(Answer) /\ SubSeq(toC[c], 1, k) \in Seq(Answer)
      BY DEF TypeInv, NetTyped
    <2>3. ASSUME k < Len(toC[c]), NEW p \in Parts
          PROVE  Append(SubSeq(toC[c], 1, k), [toC[c][k + 1] EXCEPT !.is = p]) \in Seq(Answer)
      <3>1. toC[c][k + 1] \in Answer
        BY <2>2, <2>3
      <3>2. [toC[c][k + 1] EXCEPT !.is = p] \in Answer
        BY <2>3, <3>1 DEF Answer, Parts, FromServer
      <3> QED BY <2>2, <3>2
    <2> QED BY <2>1, <2>2, <2>3 DEF TypeInv, NetTyped
  <1> QED BY <1>1, <1>2, <1>3, <1>4 DEF TypeInv, NetTyped

LEMMA TypeStutter ==
  ASSUME TypeInv, UNCHANGED vars
  PROVE  TypeInv'
  BY DEF TypeInv, vars, client, net, server, ClientTyped, ConnTyped, NetTyped, ServerTyped,
         RestTyped

LEMMA TypeNext == TypeInv /\ [Next]_vars => TypeInv'
  <1> SUFFICES ASSUME TypeInv, [Next]_vars PROVE TypeInv'
    OBVIOUS
  <1>1. CASE Client
    BY <1>1, TypeReach, TypeSend, TypeReceive, TypeAuth, TypeContents, TypeBroken, TypeEdit,
       TypeEnd DEF Client
  <1>2. CASE \E c \in Conn : Server(c) \/ Cut(c)
    BY <1>2, TypeServer, TypeCut
  <1>3. CASE Done \/ UNCHANGED vars
    BY <1>3, TypeStutter DEF Done
  <1> QED BY <1>1, <1>2, <1>3 DEF Next

(***************************************************************************)
(* Every variable keeps its type; in particular get-file is never asked for*)
(* without a file, nor anything else with one.                             *)
(***************************************************************************)
THEOREM TypeCorrect == Spec => []TypeOK
  <1>1. Spec => []TypeInv
    BY TypeInit, TypeNext, PTL DEF Spec
  <1> QED BY <1>1, TypeInvImplies, PTL

=============================================================================
