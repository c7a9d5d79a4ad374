---------------------------- MODULE HttpSession ----------------------------
(***************************************************************************)
(* One run of svnup over HTTP: OPTIONS and PROPFIND, the REPORT whose      *)
(* answer is the edit, and the files that are fetched by PROPFIND and GET, *)
(* over the shadow connection while the answer to REPORT is being parsed   *)
(* and over the main one in the repair stage.  The client is sequential;   *)
(* what is left of its program is the sequence todo, as in Session.  An    *)
(* answer is parsed by HttpParse, and what one leaves in the stream is met *)
(* by the next.                                                            *)
(***************************************************************************)
EXTENDS HttpParse

CONSTANTS
  File,       \* the files that are fetched
  NoFile,     \* no file: any other request
  MaxCuts,    \* bound: connections that are not made or end before the run
  MaxRefusals \* bound: requests the server refuses

ASSUME NoFileAssumption == NoFile \notin File
ASSUME BoundAssumption == MaxCuts \in Nat /\ MaxRefusals \in Nat

VARIABLES
  todo,    \* the steps the client has still to take
  outcome, \* of the run: "running", "failed", "crashed" or "recorded"
  known,   \* per connection, what OPTIONS has told
  edited,  \* elements of the report the editor is done with
  bad,     \* files the repair stage will find missing or changed
  got,     \* what came of the last attempt to fetch a file
  report,  \* the files the server's edit is about
  toS,     \* requests on their way to the server
  cuts, refusals

client == <<todo, outcome, known, edited, bad, got>>
server == <<report, toS, cuts, refusals>>
vars == <<parseVars, client, server>>

Requests == {"OPTIONS", "CHECK", "REPORT", "PROPFIND", "GET"}
Asking(w, f) == [what |-> w, file |-> f]
Request == [what : Requests, file : File \cup {NoFile}]

-----------------------------------------------------------------------------
(***************************************************************************)
(* The program of the client, one operator per function.                   *)
(***************************************************************************)
Do(d, c, w, f) == <<[do |-> d, on |-> c, what |-> w, file |-> f]>>

Ask(c, w, f) == Do("request", c, w, f) \o Do("parse", c, w, f)

\* The functions that begin again when there was no answer at all.
Retried == {"OPTIONS", "CHECK", "PROPFIND"}

Connect(c) == Do("connect", c, "new", NoFile) \o Ask(c, "OPTIONS", NoFile)
CheckPath == Ask("main", "CHECK", NoFile)
GetFile(c, f) == Ask(c, "PROPFIND", f) \o Ask(c, "GET", f)

Editor ==
  Connect("shadow") \o Ask("main", "REPORT", NoFile)
    \o Do("close", "shadow", "none", NoFile)

Repair(w) == Do("repair", "main", w, NoFile) \o Do("save", "main", "none", NoFile)

Program == Connect("main") \o CheckPath \o Editor \o Repair("idle")

-----------------------------------------------------------------------------
(***************************************************************************)
(* The server's answers.  A file holds an empty line, which the parser     *)
(* must not take for one of its own.                                       *)
(***************************************************************************)
Data(is, i, req) == Sym(is, i, req)

Body(req) ==
  CASE req.what = "OPTIONS" -> <<>>
    [] req.what = "CHECK" -> <<Data("collection", 1, req)>>
    [] req.what = "REPORT" -> [i \in 1..(Len(report) + 1) |-> Data("element", i, req)]
    [] req.what = "PROPFIND" -> <<Data("prop", 1, req)>>
    [] req.what = "GET" -> <<Data("cr", 1, req), Data("lf", 2, req)>>

\* The order of mod_dav_svn.
Headers(req) ==
  IF req.what = "OPTIONS"
    THEN Line(Sym("me", 0, req)) \o Line(Sym("root", 0, req)) ELSE <<>>

StatusOf(req) == IF req.what \in {"CHECK", "PROPFIND"} THEN 207 ELSE 200

\* Bound: the chunks of a report hold an element each, a file is in one chunk.
FramingsOf(req) == {"length", IF req.what = "REPORT" THEN "pieces" ELSE "whole"}

Answer(req, framing) == Encoded(StatusOf(req), Headers(req), Body(req), framing, req)

Refusal(req) == Encoded(404, <<>>, <<Data("error", 1, req)>>, "length", req)

-----------------------------------------------------------------------------
TypeOK ==
  /\ conn \in [Conn -> {"none", "up", "eof", "reset"}]
  /\ ctx \in [Conn -> Ctx]
  /\ asked \in [Conn -> Request]
  /\ verdict \in [Conn -> {"none", "done", "empty", "error"}]
  /\ stale \in [Conn -> BOOLEAN]
  /\ bitty \in Conn
  /\ late \in [Conn -> BOOLEAN]
  /\ \A c \in Conn : /\ pos[c] \in 0..Len(buf[c])
                     /\ late[c] => buf[c] = <<>>
  /\ \A i \in DOMAIN todo : todo[i].on \in Conn /\ todo[i].file \in File \cup {NoFile}
  /\ outcome \in {"running", "failed", "crashed", "recorded"}
  /\ known \in [Conn -> SUBSET {"me", "root"}]
  /\ edited \in 0..(Len(report) + 1)
  /\ bad \subseteq File
  /\ got \in [File -> {"none", "whole", "part", "lost"}]
  /\ cuts \in 0..MaxCuts /\ refusals \in 0..MaxRefusals

Init ==
  /\ conn = [c \in Conn |-> "none"]
  /\ wire = [c \in Conn |-> <<>>] /\ buf = [c \in Conn |-> <<>>]
  /\ pos = [c \in Conn |-> 0] /\ late = [c \in Conn |-> FALSE]
  /\ ctx = [c \in Conn |-> CtxOut]
  /\ asked = [c \in Conn |-> Asking("OPTIONS", NoFile)]
  /\ taken = [c \in Conn |-> <<>>]
  /\ verdict = [c \in Conn |-> "none"]
  /\ stale = [c \in Conn |-> FALSE]
  /\ bitty \in Conn
  /\ todo = Program
  /\ outcome = "running"
  /\ known = [c \in Conn |-> {}]
  /\ edited = 0
  /\ bad \in SUBSET File
  /\ got = [f \in File |-> "none"]
  /\ report \in {<<>>} \cup {<<f>> : f \in File} \cup {<<f, g>> : f, g \in File}
  /\ \A i, j \in DOMAIN report : report[i] = report[j] => i = j
  /\ toS = [c \in Conn |-> <<>>]
  /\ cuts = 0 /\ refusals = 0

-----------------------------------------------------------------------------
(***************************************************************************)
(* How a step of the client ends.                                          *)
(***************************************************************************)
Running == outcome = "running" /\ todo # <<>>
Step == Head(todo)
At(d, c) == Running /\ Step.do = d /\ Step.on = c

Advance == todo' = Tail(todo) /\ UNCHANGED outcome

\* The steps that remain when the fetching of the file at hand is given up.
WithoutFile ==
  LET k == CHOOSE i \in DOMAIN todo :
             /\ todo[i].file # Step.file
             /\ \A j \in 1..(i - 1) : todo[j].file = Step.file
  IN SubSeq(todo, k, Len(todo))

\* A file that cannot be fetched is forgotten by the repair stage, and the
\* XML editor goes on after an error; everything else ends in errx.
Failed ==
  IF Step.file # NoFile
    THEN todo' = WithoutFile /\ UNCHANGED outcome
    ELSE todo' = <<>> /\ outcome' = "failed"

Fetched(f, what) == got' = IF f = NoFile THEN got ELSE [got EXCEPT ![f] = what]

Deliver(c) ==
  \/ /\ conn[c] = "up" /\ conn' = conn
     /\ toS' = [toS EXCEPT ![c] = Append(@, Asking(Step.what, Step.file))]
  \/ /\ conn[c] = "eof" /\ toS' = toS
     /\ \E to \in {"eof", "reset"} : conn' = [conn EXCEPT ![c] = to]

-----------------------------------------------------------------------------
(***************************************************************************)
(* The steps of the client.                                                *)
(***************************************************************************)
\* svnc_connect and svnc_socket_reconnect; the stream is not reset by the
\* second.
Reach(c) ==
  /\ At("connect", c)
  /\ wire' = [wire EXCEPT ![c] = <<>>]
  /\ toS' = [toS EXCEPT ![c] = <<>>]
  /\ IF Step.what = "new" THEN Set(buf, c, <<>>) /\ Set(pos, c, 0) /\ Set(late, c, FALSE)
                          ELSE UNCHANGED <<buf, pos, late>>
  /\ Set(stale, c, Step.what = "again" /\ late[c])
  /\ \/ conn' = [conn EXCEPT ![c] = "up"] /\ Advance /\ UNCHANGED got
        /\ UNCHANGED cuts
     \/ /\ cuts < MaxCuts /\ cuts' = cuts + 1
        /\ conn' = [conn EXCEPT ![c] = "reset"] /\ Failed /\ Fetched(Step.file, "lost")
  /\ UNCHANGED <<ctx, asked, taken, verdict, bitty, known, edited, bad, report, refusals>>

\* Where a request gets its address from.
AddressedBy(w) ==
  CASE w \in {"CHECK", "PROPFIND", "GET"} -> {"root"}
    [] w = "REPORT" -> {"me"}
    [] w = "OPTIONS" -> {}

Send(c) ==
  /\ At("request", c)
  /\ AddressedBy(Step.what) \subseteq known[c]
  /\ \/ /\ Deliver(c) /\ Advance
        /\ Set(asked, c, Asking(Step.what, Step.file))
        /\ Set(ctx, c, CtxInit) /\ Set(taken, c, <<>>) /\ Set(verdict, c, "none")
        /\ UNCHANGED got
     \/ /\ conn[c] = "reset"
        /\ Failed /\ Fetched(Step.file, "lost")
        /\ UNCHANGED <<conn, toS, asked, ctx, taken, verdict>>
  /\ UNCHANGED <<stream, stale, bitty, known, edited, bad, report, cuts, refusals>>

\* Seeded fault: check-path does not ask whether it has been told the root.
SendUnaddressedCrash(c) ==
  /\ At("request", c)
  /\ ~(AddressedBy(Step.what) \subseteq known[c])
  /\ todo' = <<>> /\ outcome' = "crashed"
  /\ UNCHANGED <<parseVars, known, edited, bad, got, server>>

\* check-path looks whether it has been told the root; what the others do
\* with a null pointer is undefined and ends here in a crash.
SendUnaddressed(c) ==
  /\ At("request", c)
  /\ ~(AddressedBy(Step.what) \subseteq known[c])
  /\ IF Step.what = "CHECK" THEN Failed ELSE todo' = <<>> /\ outcome' = "crashed"
  /\ UNCHANGED <<parseVars, known, edited, bad, got, server>>

\* The editor is called by the body callback of REPORT, element by element;
\* for a file it may have to fetch it.  The last element ends the report.
EditCommand ==
  /\ At("parse", "main") /\ Step.what = "REPORT"
  /\ edited < Len(taken["main"])
  /\ edited' = edited + 1
  /\ \/ UNCHANGED todo
     \/ edited < Len(report) /\ todo' = GetFile("shadow", report[edited + 1]) \o todo
  /\ UNCHANGED <<parseVars, outcome, known, bad, got, server>>

InCallback == Step.what = "REPORT" /\ edited < Len(taken["main"])

ParseStep(c) ==
  /\ At("parse", c) /\ ~InCallback
  /\ Parse(c)
  /\ UNCHANGED <<client, server>>

\* Seeded fault: a request is repeated over the connection that has ended.
AgainHere(c) == Ask(c, Step.what, Step.file)

Again(c) == Do("connect", c, "again", Step.file) \o Ask(c, Step.what, Step.file)

Contents(c) == IF taken[c] = Body(asked[c]) THEN "whole" ELSE "part"

Returned(c) ==
  /\ At("parse", c) /\ ~InCallback
  /\ verdict[c] # "none"
  /\ Set(verdict, c, "none")
  /\ Set(known, c, known[c] \cup IF Step.what = "OPTIONS"
                                   THEN {h.is : h \in Range(taken[c])} ELSE {})
  /\ \/ /\ verdict[c] = "done"
        /\ Advance
        /\ IF Step.what = "GET" THEN Fetched(Step.file, Contents(c)) ELSE UNCHANGED got
     \/ /\ verdict[c] = "empty" /\ Step.what \in Retried
        /\ todo' = Again(c) \o Tail(todo)
        /\ UNCHANGED <<outcome, got>>
     \/ /\ verdict[c] = "error" \/ (verdict[c] = "empty" /\ Step.what \notin Retried)
        /\ Failed /\ Fetched(Step.file, "lost")
  /\ UNCHANGED <<conn, stream, ctx, asked, taken, stale, bitty, edited, bad, server>>

CloseShadow ==
  /\ At("close", "shadow")
  /\ conn' = [conn EXCEPT !["shadow"] = "none"]
  /\ Advance
  /\ UNCHANGED <<stream, ctx, asked, taken, verdict, stale, bitty, known, edited, bad, got, server>>

RepairStep ==
  /\ At("repair", "main")
  /\ \/ \E f \in bad : /\ bad' = bad \ {f}
                       /\ todo' = GetFile("main", f) \o Repair("busy")
                       /\ UNCHANGED outcome
     \/ bad = {} /\ UNCHANGED bad /\ Advance
  /\ UNCHANGED <<parseVars, known, edited, got, server>>

Save ==
  /\ At("save", "main")
  /\ todo' = <<>> /\ outcome' = "recorded"
  /\ UNCHANGED <<parseVars, known, edited, bad, got, server>>

Client ==
  \/ \E c \in Conn : \/ Reach(c) \/ Send(c) \/ SendUnaddressed(c)
                     \/ ParseStep(c) \/ Returned(c)
  \/ EditCommand \/ CloseShadow \/ RepairStep \/ Save

-----------------------------------------------------------------------------
(***************************************************************************)
(* The server answers one request after the other.                         *)
(***************************************************************************)
Serve(c) ==
  /\ outcome = "running" /\ conn[c] = "up" /\ toS[c] # <<>>
  /\ toS' = [toS EXCEPT ![c] = Tail(@)]
  /\ LET req == Head(toS[c]) IN
       \/ /\ \E framing \in FramingsOf(Head(toS[c])) : Set(wire, c, wire[c] \o Answer(req, framing))
          /\ UNCHANGED refusals
       \/ /\ refusals < MaxRefusals
          /\ Set(wire, c, wire[c] \o Refusal(req))
          /\ refusals' = refusals + 1
  /\ UNCHANGED <<conn, buf, pos, late, ctx, asked, taken, verdict, stale, bitty, client, report, cuts>>

Ends(c) ==
  /\ outcome = "running" /\ conn[c] = "up" /\ cuts < MaxCuts
  /\ cuts' = cuts + 1
  /\ \E to \in {"eof", "reset"} : Set(conn, c, to)
  /\ UNCHANGED <<buf, pos, late, ctx, asked, taken, verdict, stale, bitty, client, report, refusals>>

\* A connection ends within an answer, before it or right after it, ...
Cut(c) ==
  /\ toS[c] # <<>>
  /\ toS' = [toS EXCEPT ![c] = <<>>]
  /\ \E framing \in FramingsOf(Head(toS[c])) :
       LET answer == Answer(Head(toS[c]), framing)
       IN \E k \in 0..Len(answer) : Set(wire, c, wire[c] \o SubSeq(answer, 1, k))
  /\ Ends(c)

\* ... or when it is not in use.
Timeout(c) ==
  /\ toS[c] = <<>> /\ wire[c] = <<>>
  /\ Ends(c)
  /\ UNCHANGED <<wire, toS>>

Done == outcome # "running" /\ UNCHANGED vars

Next ==
  \/ Client
  \/ \E c \in Conn : Serve(c) \/ Cut(c) \/ Timeout(c)
  \/ Done

Spec == Init /\ [][Next]_vars

\* The client is one process; the server goes on to answer.
FairSpec == Spec /\ WF_vars(Client) /\ \A c \in Conn : WF_vars(Serve(c))

-----------------------------------------------------------------------------
(***************************************************************************)
(* Properties.                                                             *)
(***************************************************************************)
HasBody(req) == req.what \in {"GET", "REPORT"}

\* What a body callback is given is the body of one answer, in order and from
\* its beginning, however the reads of http_parse_response cut it.  It is the
\* answer to the request the client is at, unless the stream is stale: what a
\* refused answer has left may bring a later request to that of an earlier one.
TakenRight ==
  \A c \in Conn :
    HasBody(asked[c]) /\ taken[c] # <<>> =>
      /\ IsPrefix(taken[c], Body(Head(taken[c]).for))
      /\ ~stale[c] => Head(taken[c]).for = asked[c]

\* On a connection that is still there the end of an answer, for GET and
\* REPORT, is the end of its body: a CR LF within a chunk is not taken for the
\* chunk's end, nor the end of one chunk for the end of the body.
DoneMeansWhole ==
  \A c \in Conn :
    verdict[c] = "done" /\ HasBody(asked[c]) /\ conn[c] = "up" =>
      taken[c] # <<>> /\ taken[c] = Body(Head(taken[c]).for)

\* With every request accepted and every connection up, the run comes to
\* its end with the whole edit made and every file fetched whole: nothing one
\* answer leaves in the stream (the CR LF of its last chunk may be read with
\* the next) disturbs another, on either connection.  Only check-path fails,
\* when its answer comes in chunks.
NothingLost ==
  cuts = 0 /\ refusals = 0 =>
    /\ outcome # "crashed"
    /\ outcome = "failed" => asked["main"].what = "CHECK"
    /\ \A f \in File : got[f] \in {"none", "whole"}
    /\ outcome = "recorded" => edited = Len(report) + 1

\* An address OPTIONS has not told is used by no request of the main
\* connection, REPORT included, whose function does not look: check-path
\* stops the run, and the root is told after "me".  (The shadow connection
\* has no such check.)
MainAddressed == outcome = "crashed" => known["main"] = {"me", "root"}

\* The run ends: no answer, cut wherever, keeps the client waiting for more,
\* and the requests that are repeated are repeated over a new connection.
SessionEnds == <>(outcome # "running")

\* What the manual says of the exit status (man/svnup.1): zero is success.  The
\* code records a revision whose report or whose files were cut.
SuccessMeansComplete ==
  outcome = "recorded" /\ refusals = 0 =>
    edited = Len(report) + 1 /\ \A f \in File : got[f] # "part"

=============================================================================
