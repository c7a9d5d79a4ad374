------------------------------ MODULE Session ------------------------------
(***************************************************************************)
(* One run of svnup over the svn protocol: the requests on the main        *)
(* connection, the edit, and the "shadow" connection on which the editor   *)
(* fetches files in the middle of it.  The client is sequential code that  *)
(* sends and then waits; what is left of it is the sequence todo.  A       *)
(* connection may break at any point, also in the middle of an answer, and *)
(* a get-file request is then repeated once.                               *)
(*                                                                         *)
(* The server is external: it serves one request after the other by a      *)
(* script, and may refuse anything it is asked for.                        *)
(***************************************************************************)
EXTENDS Naturals, Sequences

CONSTANTS
  File,    \* the files get-file is asked for
  NoFile,  \* no file: any other request
  MaxEdit, \* bound: commands of an edit before its end
  MaxCuts  \* bound: connections that break

ASSUME NoFileAssumption == NoFile \notin File
ASSUME BoundAssumption == MaxEdit \in Nat /\ MaxCuts \in Nat

Conn == {"main", "shadow"}

VARIABLES
  todo,    \* the steps the client has still to take
  asked,   \* the request the client is at, on each connection
  bad,     \* files the repair stage will find missing or changed
  outcome, \* of the run: "running", "failed" or "recorded"
  conn,    \* "none", "up", "cut" (the peer is gone) or "reset" (sends fail)
  torn,    \* tokenizer_state: "out" of a token, in a "token" or a "string"
  toC, toS,\* what is under way to the client and to the server
  script,  \* what the server will say or wait for in this request
  serves,  \* the request the server is at
  edit,    \* history: how far the server is with the edit
  edits, cuts

client == <<todo, asked, bad, outcome>>
net == <<conn, torn, toC, toS>>
server == <<script, serves, edit, edits>>
vars == <<client, net, server, cuts>>

-----------------------------------------------------------------------------
(***************************************************************************)
(* The program of the client, one operator per function.                   *)
(***************************************************************************)
Do(d, c, w, f) == <<[do |-> d, on |-> c, what |-> w, file |-> f]>>

Send(c, w) == Do("send", c, w, NoFile)
Await(c, w) == Do("await", c, w, NoFile)
CheckAuth(c) == Do("auth", c, "", NoFile)

Setup(c) ==
  Await(c, "greeting") \o Send(c, "greeting-response") \o CheckAuth(c)
    \o Await(c, "repos-info")

Connect(c) == Do("connect", c, "new", NoFile) \o Setup(c)

GetLatestRev ==
  Send("main", "get-latest-rev") \o CheckAuth("main") \o Await("main", "rev")

CheckPath ==
  Send("main", "check-path") \o CheckAuth("main") \o Await("main", "dir")

\* Seeded fault: the answer that follows the contents is not read.
FileAnswerShort(c) == Await(c, "file") \o Do("contents", c, "", NoFile)

\* The rest of get-file once the server has let the request pass.
FileAnswer(c) == Await(c, "file") \o Do("contents", c, "", NoFile) \o Await(c, "ok")

\* A step that has a file is one that is repeated when it fails.
GetFile(c, f) ==
  Do("send", c, "get-file", f) \o Do("auth", c, "", f) \o FileAnswer(c)

\* Seeded faults: the repeated request has lost its path; it is repeated for ever.
TryReconnectNoPath(c, f) ==
  Do("connect", c, "again", NoFile) \o Setup(c)
    \o Do("send", c, "get-file", NoFile) \o CheckAuth(c) \o FileAnswer(c)
TryReconnectEver(c, f) ==
  Do("connect", c, "again", NoFile) \o Setup(c) \o GetFile(c, f)

TryReconnect(c, f) ==
  Do("connect", c, "again", NoFile) \o Setup(c)
    \o Do("send", c, "get-file", f) \o CheckAuth(c) \o FileAnswer(c)

SetPath == Send("main", "set-path")
FinishReport == Send("main", "finish-report")

Editor ==
  CheckAuth("main") \o Connect("shadow") \o Do("edit", "main", "", NoFile)
    \o Do("close", "shadow", "", NoFile)

\* Seeded faults: the acknowledgement is not waited for; success is not said.
UpdateNoAck ==
  Send("main", "update") \o CheckAuth("main") \o SetPath \o FinishReport
    \o Editor \o Send("main", "success")
UpdateSilent ==
  Send("main", "update") \o CheckAuth("main") \o SetPath \o FinishReport
    \o Editor \o Await("main", "ok")

Update ==
  Send("main", "update") \o CheckAuth("main") \o SetPath \o FinishReport
    \o Editor \o Send("main", "success") \o Await("main", "ok")

Repair(w) == Do("repair", "main", w, NoFile) \o Do("save", "main", "", NoFile)

\* With a revision on the command line the latest one is not asked for.
Programs ==
  {Connect("main") \o latest \o CheckPath \o Update \o Repair("idle") :
     latest \in {<<>>, GetLatestRev}}

Requests == {"get-latest-rev", "check-path", "update", "get-file"}

Asking(w, f) == [what |-> w, file |-> f]
SetUp == Asking("setup", NoFile)

-----------------------------------------------------------------------------
(***************************************************************************)
(* The server's side of each request.                                      *)
(***************************************************************************)
Greeting == <<"greeting", "greeting-response", "auth", "repos-info">>

Script(w) ==
  CASE w = "get-latest-rev" -> <<"auth", "rev">>
    [] w = "check-path" -> <<"auth", "dir">>
    [] w = "get-file" -> <<"auth", "file", "contents", "ok">>
    [] w = "update" -> <<"auth", "set-path", "finish-report", "auth", "edit",
                         "success", "ok">>

\* What the server waits for; "other-response" answers a mechanism that the
\* client does not have.
Heard == {"greeting-response", "auth-response", "other-response", "set-path",
          "finish-report", "success"}

Said == {"greeting", "repos-info", "rev", "dir", "file", "contents", "ok", "failure"}

\* A server of another version; a path that is not a directory.
Variants(w) ==
  CASE w = "greeting" -> {"greeting", "other-version"}
    [] w = "dir" -> {"dir", "no-dir"}
    [] OTHER -> {w}

FromServer == Said \cup {"other-version", "no-dir", "auth-none", "auth-anonymous",
                         "auth-other", "edit", "close-edit", "abort-edit",
                         "part-token", "part-string"}

-----------------------------------------------------------------------------
StepRecord ==
  [do : {"connect", "send", "await", "auth", "challenge", "contents", "edit",
         "close", "repair", "save"},
   on : Conn,
   what : Requests \cup Heard \cup Said \cup {"", "new", "again", "idle", "busy"},
   file : File \cup {NoFile}]

Request ==
  [what : {"get-file"}, file : File]
    \cup [what : (Requests \ {"get-file"}) \cup {"setup"}, file : {NoFile}]

TypeOK ==
  /\ todo \in Seq(StepRecord)
  /\ asked \in [Conn -> Request]
  /\ bad \subseteq File
  /\ outcome \in {"running", "failed", "recorded"}
  /\ conn \in [Conn -> {"none", "up", "cut", "reset"}]
  /\ torn \in [Conn -> {"out", "token", "string"}]
  /\ toC \in [Conn -> Seq([is : FromServer, for : Request])]
  /\ toS \in [Conn -> Seq([what : Requests \cup Heard, file : File \cup {NoFile}])]
  /\ script \in [Conn -> Seq(Said \cup Heard \cup {"auth", "edit"})]
  /\ serves \in [Conn -> Request]
  /\ edit \in {"none", "open", "closed", "aborted", "done"}
  /\ edits \in 0..MaxEdit
  /\ cuts \in 0..MaxCuts

Init ==
  /\ todo \in Programs
  /\ asked = [c \in Conn |-> SetUp]
  /\ bad \in SUBSET File
  /\ outcome = "running"
  /\ conn = [c \in Conn |-> "none"]
  /\ torn = [c \in Conn |-> "out"]
  /\ toC = [c \in Conn |-> <<>>]
  /\ toS = [c \in Conn |-> <<>>]
  /\ script = [c \in Conn |-> <<>>]
  /\ serves = [c \in Conn |-> SetUp]
  /\ edit = "none"
  /\ edits = 0
  /\ cuts = 0

-----------------------------------------------------------------------------
(***************************************************************************)
(* How a step of the client ends.                                          *)
(***************************************************************************)
Step == Head(todo)
At(d, c) == todo # <<>> /\ Step.do = d /\ Step.on = c

Advance == todo' = Tail(todo) /\ UNCHANGED outcome

Authenticating == Step.do \in {"auth", "challenge"}
Repairing == todo[Len(todo) - 1].what = "busy"

\* get-file reconnects when its authentication fails; the repair stage goes on
\* with the next file; everything else ends in errx.
Failed ==
  IF Authenticating /\ Step.file # NoFile
    THEN /\ todo' = TryReconnect(Step.on, Step.file)
                      \o SubSeq(todo, 2 + Len(FileAnswer(Step.on)), Len(todo))
         /\ UNCHANGED outcome
  ELSE IF Repairing
    THEN todo' = Repair("busy") /\ UNCHANGED outcome
    ELSE todo' = <<>> /\ outcome' = "failed"

-----------------------------------------------------------------------------
(***************************************************************************)
(* Reading.  What arrived before a connection broke can still be read; what *)
(* was torn stays in the tokenizer and meets the next connection.          *)
(***************************************************************************)
Parts == {"part-token", "part-string"}

Readable(c) == toC[c] # <<>> /\ torn[c] = "out" /\ Head(toC[c]).is \notin Parts
EndOfData(c) == toC[c] = <<>> /\ conn[c] \in {"cut", "reset"}
Garbled(c) == toC[c] # <<>> /\ torn[c] # "out"

Consume(c) == toC' = [toC EXCEPT ![c] = Tail(@)]

\* Sent to a peer that is gone, the first message is lost and answered by a reset.
Deliver(c, w, f) ==
  \/ /\ conn[c] = "up"
     /\ toS' = [toS EXCEPT ![c] = Append(@, [what |-> w, file |-> f])]
     /\ conn' = conn
  \/ /\ conn[c] = "cut"
     /\ conn' = [conn EXCEPT ![c] = "reset"]
     /\ toS' = toS

-----------------------------------------------------------------------------
(***************************************************************************)
(* The steps of the client.                                                *)
(***************************************************************************)
\* The tokenizer of a connection is made once and not reset by a reconnection.
Reach(c) ==
  /\ At("connect", c)
  /\ asked' = [asked EXCEPT ![c] = SetUp]
  /\ toC' = [toC EXCEPT ![c] = <<>>] /\ toS' = [toS EXCEPT ![c] = <<>>]
  /\ torn' = [torn EXCEPT ![c] = IF Step.what = "new" THEN "out" ELSE @]
  /\ serves' = [serves EXCEPT ![c] = SetUp]
  /\ \/ /\ conn' = [conn EXCEPT ![c] = "up"]
        /\ script' = [script EXCEPT ![c] = Greeting]
        /\ Advance
     \/ /\ conn' = [conn EXCEPT ![c] = "reset"]
        /\ script' = [script EXCEPT ![c] = <<>>]
        /\ Failed
  /\ UNCHANGED <<bad, edit, edits, cuts>>

SendStep(c) ==
  /\ At("send", c)
  /\ asked' = IF Step.what \in Requests
                THEN [asked EXCEPT ![c] = Asking(Step.what, Step.file)] ELSE asked
  /\ \/ Deliver(c, Step.what, Step.file) /\ Advance
     \/ conn[c] = "reset" /\ Failed /\ UNCHANGED <<conn, toS>>
  /\ UNCHANGED <<bad, torn, toC, server, cuts>>

\* svnproto_command_response: another answer than the one asked for is an error.
Receive(c) ==
  /\ At("await", c) \/ At("challenge", c)
  /\ Readable(c) /\ Consume(c)
  /\ IF Head(toC[c]).is = Step.what THEN Advance ELSE Failed
  /\ UNCHANGED <<asked, bad, conn, torn, toS, server, cuts>>

\* Only ANONYMOUS is answered; nothing is said to a server that offers others.
Auth(c) ==
  /\ At("auth", c)
  /\ Readable(c) /\ Consume(c)
  /\ LET offer == Head(toC[c]).is IN
       \/ /\ offer = "auth-anonymous"
          /\ Deliver(c, "auth-response", NoFile)
          /\ todo' = Do("challenge", c, "ok", Step.file) \o Tail(todo)
          /\ UNCHANGED outcome
       \/ /\ offer = "auth-anonymous" /\ conn[c] = "reset"
          /\ Failed /\ UNCHANGED <<conn, toS>>
       \/ /\ offer \in {"auth-none", "auth-other"}
          /\ Advance /\ UNCHANGED <<conn, toS>>
       \/ /\ offer \notin {"auth-anonymous", "auth-none", "auth-other"}
          /\ Failed /\ UNCHANGED <<conn, toS>>
  /\ UNCHANGED <<asked, bad, torn, server, cuts>>

\* What is not a string is left to the answer that is read next.
Contents(c) ==
  /\ At("contents", c)
  /\ \/ Readable(c) /\ IF Head(toC[c]).is = "contents" THEN Consume(c) ELSE toC' = toC
     \/ EndOfData(c) /\ toC' = toC
  /\ Advance
  /\ UNCHANGED <<asked, bad, conn, torn, toS, server, cuts>>

\* One command.  A file may have to be fetched; a handler may report an error.
EditStep ==
  /\ At("edit", "main")
  /\ Readable("main") /\ Consume("main")
  /\ LET command == Head(toC["main"]).is IN
       \/ command \in {"edit", "abort-edit", "failure"} /\ UNCHANGED <<todo, outcome>>
       \/ /\ command = "edit"
          /\ \E f \in File : todo' = GetFile("shadow", f) \o todo
          /\ UNCHANGED outcome
       \/ command = "close-edit" /\ Advance
       \/ command \notin {"close-edit", "abort-edit", "failure"} /\ Failed
  /\ UNCHANGED <<asked, bad, conn, torn, toS, server, cuts>>

Reading(c) == \E d \in {"await", "auth", "challenge", "edit"} : At(d, c)

Eod(c) ==
  /\ Reading(c) /\ EndOfData(c) /\ Failed
  /\ UNCHANGED <<asked, bad, net, server, cuts>>

\* The last that a connection has brought ends in the middle.
ReadPart(c) ==
  /\ Reading(c) \/ At("contents", c)
  /\ toC[c] # <<>> /\ torn[c] = "out" /\ Head(toC[c]).is \in Parts
  /\ Consume(c)
  /\ torn' = [torn EXCEPT ![c] = IF Head(toC[c]).is = "part-token" THEN "token" ELSE "string"]
  /\ UNCHANGED <<client, conn, toS, server, cuts>>

\* The rest of a token makes an error of whatever comes, and is not skipped.
GarbledToken(c) ==
  /\ Reading(c) /\ Garbled(c) /\ torn[c] = "token" /\ Failed
  /\ UNCHANGED <<asked, bad, net, server, cuts>>

\* The rest of a string takes in what comes, and may not be complete with it.
GarbledString(c) ==
  /\ Reading(c) /\ Garbled(c) /\ torn[c] = "string"
  /\ \/ Consume(c) /\ UNCHANGED <<todo, outcome, torn>>
     \/ torn' = [torn EXCEPT ![c] = "token"] /\ Failed /\ toC' = toC
  /\ UNCHANGED <<asked, bad, conn, toS, server, cuts>>

CloseShadow ==
  /\ At("close", "shadow")
  /\ conn' = [conn EXCEPT !["shadow"] = "none"]
  /\ Advance
  /\ UNCHANGED <<asked, bad, torn, toC, toS, server, cuts>>

RepairStep ==
  /\ At("repair", "main")
  /\ \/ \E f \in bad : /\ bad' = bad \ {f}
                       /\ todo' = GetFile("main", f) \o Repair("busy")
                       /\ UNCHANGED outcome
     \/ bad = {} /\ UNCHANGED bad /\ Advance
  /\ UNCHANGED <<asked, net, server, cuts>>

Save ==
  /\ At("save", "main")
  /\ todo' = <<>> /\ outcome' = "recorded"
  /\ UNCHANGED <<asked, bad, net, server, cuts>>

Client ==
  \/ \E c \in Conn : \/ Reach(c) \/ SendStep(c) \/ Receive(c) \/ Auth(c) \/ Contents(c)
                     \/ Eod(c) \/ ReadPart(c) \/ GarbledToken(c) \/ GarbledString(c)
  \/ EditStep \/ CloseShadow \/ RepairStep \/ Save

-----------------------------------------------------------------------------
(***************************************************************************)
(* The server.                                                             *)
(***************************************************************************)
Serving(c) == outcome = "running" /\ conn[c] = "up"
Due(c, W) == script[c] # <<>> /\ Head(script[c]) \in W

Tell(c, w) == toC' = [toC EXCEPT ![c] = Append(@, [is |-> w, for |-> serves[c]])]
Then(c, next) == script' = [script EXCEPT ![c] = next]

Say(c) ==
  /\ Serving(c) /\ Due(c, Said)
  /\ \E w \in Variants(Head(script[c])) : Tell(c, w)
  /\ edit' = IF serves[c].what = "update" /\ script[c] = <<"ok">> THEN "done" ELSE edit
  /\ Then(c, Tail(script[c]))
  /\ UNCHANGED <<client, conn, torn, toS, serves, edits, cuts>>

SayAuth(c) ==
  /\ Serving(c) /\ Due(c, {"auth"})
  /\ \/ Tell(c, "auth-none") /\ Then(c, Tail(script[c]))
     \/ Tell(c, "auth-anonymous") /\ Then(c, <<"auth-response", "ok">> \o Tail(script[c]))
     \/ Tell(c, "auth-other") /\ Then(c, <<"other-response", "ok">> \o Tail(script[c]))
  /\ UNCHANGED <<client, conn, torn, toS, serves, edit, edits, cuts>>

\* A failure in the place of any answer; a session that is not set up is closed.
Refuse(c) ==
  /\ Serving(c) /\ Due(c, Said \cup {"auth"})
  /\ Tell(c, "failure") /\ Then(c, <<>>)
  /\ conn' = IF serves[c] = SetUp THEN [conn EXCEPT ![c] = "cut"] ELSE conn
  /\ UNCHANGED <<client, torn, toS, serves, edit, edits, cuts>>

\* MaxEdit bounds the edit.
EditCommand(c) ==
  /\ Serving(c) /\ Due(c, {"edit"}) /\ edits < MaxEdit
  /\ Tell(c, "edit")
  /\ edit' = "open" /\ edits' = edits + 1
  /\ UNCHANGED <<client, conn, torn, toS, script, serves, cuts>>

CloseEdit(c) ==
  /\ Serving(c) /\ Due(c, {"edit"})
  /\ Tell(c, "close-edit") /\ Then(c, Tail(script[c]))
  /\ edit' = "closed"
  /\ UNCHANGED <<client, conn, torn, toS, serves, edits, cuts>>

AbortEdit(c) ==
  /\ Serving(c) /\ Due(c, {"edit"})
  /\ \/ Tell(c, "abort-edit") /\ Then(c, <<"success", "failure">>)
     \/ Tell(c, "failure") /\ Then(c, <<>>)
  /\ edit' = "aborted"
  /\ UNCHANGED <<client, conn, torn, toS, serves, edits, cuts>>

Waits(c) == script[c] = <<>> \/ Due(c, Heard)

Hear(c) ==
  /\ Serving(c) /\ Waits(c) /\ toS[c] # <<>>
  /\ toS' = [toS EXCEPT ![c] = Tail(@)]
  /\ LET m == Head(toS[c]) IN
       \/ /\ script[c] = <<>> /\ m.what \in Requests
          /\ serves' = [serves EXCEPT ![c] = Asking(m.what, m.file)]
          /\ Then(c, Script(m.what)) /\ conn' = conn
       \/ /\ Due(c, {m.what})
          /\ Then(c, Tail(script[c])) /\ UNCHANGED <<serves, conn>>
       \/ /\ IF script[c] = <<>> THEN m.what \notin Requests ELSE ~Due(c, {m.what})
          /\ conn' = [conn EXCEPT ![c] = "cut"]
          /\ Then(c, <<>>) /\ UNCHANGED serves
  /\ UNCHANGED <<client, torn, toC, edit, edits, cuts>>

Server(c) ==
  \/ Say(c) \/ SayAuth(c) \/ Refuse(c) \/ Hear(c)
  \/ EditCommand(c) \/ CloseEdit(c) \/ AbortEdit(c)

\* A connection breaks; what was on its way arrives in part, and the last that
\* arrives may end within a token or within the contents of a file.
Cut(c) ==
  /\ Serving(c) /\ cuts < MaxCuts
  /\ cuts' = cuts + 1
  /\ \E to \in {"cut", "reset"} : conn' = [conn EXCEPT ![c] = to]
  /\ \E k \in 0..Len(toC[c]) :
       \/ toC' = [toC EXCEPT ![c] = SubSeq(@, 1, k)]
       \/ /\ k < Len(toC[c])
          /\ \E p \in Parts :
               /\ p = "part-string" => toC[c][k + 1].is \in {"file", "contents"}
               /\ toC' = [toC EXCEPT ![c] = Append(SubSeq(@, 1, k), [@[k + 1] EXCEPT !.is = p])]
  /\ toS' = [toS EXCEPT ![c] = <<>>]
  /\ Then(c, <<>>)
  /\ UNCHANGED <<client, torn, serves, edit, edits>>

-----------------------------------------------------------------------------
(***************************************************************************)
(* Both ends of a connection wait for the other one.                       *)
(***************************************************************************)
Stuck(c) ==
  /\ Serving(c) /\ Waits(c) /\ toC[c] = <<>> /\ toS[c] = <<>>
  /\ Reading(c) \/ At("contents", c)

Ended == outcome # "running" \/ \E c \in Conn : Stuck(c)

Done == Ended /\ UNCHANGED vars

Next ==
  \/ Client
  \/ \E c \in Conn : Server(c) \/ Cut(c)
  \/ Done

Spec == Init /\ [][Next]_vars

\* The client is one process; so is the server of each connection.
FairSpec == Spec /\ WF_vars(Client) /\ \A c \in Conn : WF_vars(Server(c))

-----------------------------------------------------------------------------
(***************************************************************************)
(* The client never meets the answer to another request than the one it is *)
(* at, however often requests failed or were repeated before: every path   *)
(* through a request reads all of its answers.                             *)
(***************************************************************************)
Takes(c) ==
  /\ Reading(c) \/ At("contents", c)
  /\ Readable(c) /\ toC'[c] = Tail(toC[c]) /\ todo' # todo

InStep == [][\A c \in Conn : Takes(c) => Head(toC[c]).for = asked[c]]_vars

(***************************************************************************)
(* A revision is recorded only after an edit that the server has brought to*)
(* its end and has been told of; a broken connection, a failure or an edit *)
(* that is given up never pass for the end of the edit.                    *)
(***************************************************************************)
RecordedMeansDone == outcome = "recorded" => edit = "done"

(***************************************************************************)
(* The two ends wait for each other in three situations only: the server   *)
(* has given up the edit, offers no mechanism the client has, or greets a  *)
(* client that is still within a string of the connection that broke.      *)
(***************************************************************************)
NoMutualWait ==
  \A c \in Conn :
    Stuck(c) => \/ c = "main" /\ edit = "aborted"
                \/ Due(c, {"other-response"})
                \/ torn[c] = "string"

(***************************************************************************)
(* Every session ends or gets to one of these; in particular a request is  *)
(* not repeated for ever.                                                  *)
(***************************************************************************)
SessionEnds == <>Ended

=============================================================================
