----------------------------- MODULE HttpParse -----------------------------
(***************************************************************************)
(* http_parse_response: one answer is parsed from the stream of a          *)
(* connection, which is read in pieces of any length.  The bytes are       *)
(* symbols: a carriage return, a line feed, one symbol for what a line     *)
(* holds besides them, and those of a body, which may look like ends of    *)
(* lines.  A symbol carries the request its answer is for, as history; the *)
(* parser never looks at it.  HttpSession says which requests are made.    *)
(***************************************************************************)
EXTENDS Integers, Sequences, SequencesExt

Conn == {"main", "shadow"}

VARIABLES
  conn,    \* "none", "up", "eof" or "reset": what there is after the wire
  wire,    \* what the server has sent and the client has not read
  buf,     \* the stream from the start of the line, chunk or body at hand
  pos,     \* SPOS, how much of buf has been gone through
  late,    \* SPOS is one beyond what has been read
  ctx,     \* the state of the parser
  asked,   \* the request the client is at
  taken,   \* what its body callback was given
  verdict, \* what http_parse_response returned, "none" before it has
  stale,   \* history: the stream may hold what is not the next answer
  bitty    \* bound: the connection that is read in pieces of any length

stream == <<wire, buf, pos, late>>
parseVars == <<conn, stream, ctx, asked, taken, verdict, stale, bitty>>

-----------------------------------------------------------------------------
(***************************************************************************)
(* Answers.  The server is external: a body comes with its length or in    *)
(* chunks, as a whole or one symbol each.                                  *)
(***************************************************************************)
Sym(is, val, req) == [is |-> is, val |-> val, for |-> req]
Line(s) == <<s, Sym("cr", 0, s.for), Sym("lf", 0, s.for)>>
EndOfLine(req) == <<Sym("cr", 0, req), Sym("lf", 0, req)>>

Chunk(c, req) == Line(Sym("size", Len(c), req)) \o c \o EndOfLine(req)

\* A framing is "length", "whole" or "pieces": six symbols for each of the body.
Chunks(body, framing, req) ==
  CASE body = <<>> -> <<>>
    [] body # <<>> /\ framing = "whole" -> Chunk(body, req)
    [] body # <<>> /\ framing = "pieces" ->
         [i \in 1..(6 * Len(body)) |->
            Chunk(<<body[((i - 1) \div 6) + 1]>>, req)[((i - 1) % 6) + 1]]

EncodedBody(body, framing, req) ==
  IF framing = "length"
    THEN Line(Sym("content-length", Len(body), req)) \o EndOfLine(req) \o body
    ELSE Line(Sym("chunked", 0, req)) \o EndOfLine(req)
           \o Chunks(body, framing, req) \o Chunk(<<>>, req)

\* headers are the lines of those the client looks at.
Encoded(status, headers, body, framing, req) ==
  Line(Sym("status", status, req)) \o headers \o EncodedBody(body, framing, req)

-----------------------------------------------------------------------------
(***************************************************************************)
(* The parser's state, and the callbacks of the requests.                  *)
(***************************************************************************)
States == {"OUT", "START", "STATUS_LINE", "HEADER_FIELD", "BODY_IN", "BODY"}

\* No length is -1; such a body is not among the answers above.
Ctx == [state : States, status : Nat, chunked : BOOLEAN, bodysz : Nat \cup {-1},
        within : BOOLEAN, size : Nat]

CtxInit == [state |-> "START", status |-> 0, chunked |-> FALSE, bodysz |-> -1,
            within |-> FALSE, size |-> 0]
CtxOut == [CtxInit EXCEPT !.state = "OUT"]

\* Seeded fault: the status is not looked at.
StatusAny(what, status) == TRUE

\* The status callbacks; check-path goes on whatever the status is, and
\* OPTIONS looks at it when a header has come.
StatusAccepted(what, status) ==
  CASE what \in {"GET", "REPORT"} -> status = 200
    [] what = "PROPFIND" -> status = 207
    [] OTHER -> TRUE

HeaderAccepted(what, status) == what = "OPTIONS" => status = 200

\* Only GET and REPORT look at the current chunk.  The others look at the
\* range of a body that came with its length, which is empty for chunks.
Given(what, data, chunked) ==
  IF chunked /\ what \notin {"GET", "REPORT"} THEN <<>> ELSE data

BodyAccepted(what, data) ==
  what = "CHECK" => \E i \in DOMAIN data : data[i].is = "collection"

-----------------------------------------------------------------------------
(***************************************************************************)
(* Reading.                                                                *)
(***************************************************************************)
Parsing(c) == ctx[c].state # "OUT"
NeedMore(c) == late[c] \/ pos[c] >= Len(buf[c])

\* Where the first CR LF of s begins, or 0.
FindCrLf(s) ==
  LET ends == {i \in 1..(Len(s) - 1) : s[i].is = "cr" /\ s[i + 1].is = "lf"}
  IN IF ends = {} THEN 0 ELSE CHOOSE i \in ends : \A j \in ends : i <= j

Set(f, c, v) == f' = [f EXCEPT ![c] = v]

\* An answer is done with, and so is what the buffer held of it.
Return(c, v) == Set(ctx, c, CtxOut) /\ Set(verdict, c, v)

\* An error leaves SPOS where it is, and the rest of the answer in the stream.
Error(c) ==
  /\ Return(c, "error")
  /\ Set(stale, c, TRUE)
  /\ Set(buf, c, SubSeq(buf[c], pos[c] + 1, Len(buf[c])))
  /\ Set(pos, c, 0)
  /\ UNCHANGED <<late, taken>>

\* Seeded fault: SPOS is not moved with what the buffer gives up.
SkipToStale(c, n) ==
  /\ Set(buf, c, SubSeq(buf[c], n + 1, Len(buf[c])))
  /\ UNCHANGED pos
  /\ Set(late, c, n > Len(buf[c]))

\* Go on after the first n symbols of the buffer, one of which may be to come.
SkipTo(c, n) ==
  /\ Set(buf, c, SubSeq(buf[c], n + 1, Len(buf[c])))
  /\ Set(pos, c, 0)
  /\ Set(late, c, n > Len(buf[c]))

Consume(c) ==
  /\ Parsing(c) /\ NeedMore(c) /\ ctx[c].state # "BODY_IN"
  /\ wire[c] # <<>>
  /\ \E k \in 1..Len(wire[c]) :
       /\ c = bitty \/ k = Len(wire[c])
       /\ Set(buf, c, buf[c] \o SubSeq(wire[c], IF late[c] THEN 2 ELSE 1, k))
       /\ Set(wire, c, SubSeq(wire[c], k + 1, Len(wire[c])))
  /\ Set(late, c, FALSE)
  /\ UNCHANGED <<conn, pos, ctx, asked, taken, verdict, stale, bitty>>

\* The end of the connection is the end of the answer, unless it comes in an
\* orderly way before the answer has begun.
NothingRead(c) ==
  /\ Parsing(c) /\ NeedMore(c) /\ ctx[c].state # "BODY_IN"
  /\ wire[c] = <<>> /\ conn[c] \in {"eof", "reset"}
  /\ Return(c, IF conn[c] = "eof" /\ ctx[c].state = "START" THEN "empty" ELSE "done")
  /\ Set(buf, c, <<>>) /\ Set(pos, c, 0)
  /\ UNCHANGED <<conn, wire, late, asked, taken, stale, bitty>>

-----------------------------------------------------------------------------
(***************************************************************************)
(* Lines: the status line and the header fields.                           *)
(***************************************************************************)
InLine(c, states) == ctx[c].state \in states /\ ~NeedMore(c)

InChunkSize(c) ==
  ctx[c].state \in {"BODY_IN", "BODY"} /\ ctx[c].chunked /\ ~ctx[c].within

Start(c) ==
  /\ ctx[c].state = "START" /\ ~NeedMore(c)
  /\ Set(ctx, c, [ctx[c] EXCEPT !.state = "STATUS_LINE"])
  /\ UNCHANGED <<conn, stream, asked, taken, verdict, stale, bitty>>

\* A line that has not come to its end is looked at again from its start.
PartOfLine(c) ==
  /\ \/ InLine(c, {"STATUS_LINE", "HEADER_FIELD"})
     \/ InChunkSize(c) /\ (NeedMore(c) => ctx[c].state = "BODY_IN")
  /\ FindCrLf(buf[c]) = 0
  /\ Set(pos, c, Len(buf[c]))
  /\ Set(ctx, c, [ctx[c] EXCEPT !.state = IF @ = "BODY_IN" THEN "BODY" ELSE @])
  /\ UNCHANGED <<conn, wire, buf, late, asked, taken, verdict, stale, bitty>>

StatusLine(c) ==
  /\ InLine(c, {"STATUS_LINE"})
  /\ LET end == FindCrLf(buf[c])
         first == Head(buf[c])
     IN /\ end # 0
        /\ \/ /\ end > 1 /\ first.is = "status"
              /\ StatusAccepted(asked[c].what, first.val)
              /\ SkipTo(c, end + 1)
              /\ Set(ctx, c, [ctx[c] EXCEPT !.state = "HEADER_FIELD", !.status = first.val])
              /\ UNCHANGED <<taken, verdict, stale>>
           \/ /\ ~(end > 1 /\ first.is = "status" /\ StatusAccepted(asked[c].what, first.val))
              /\ Error(c)
  /\ UNCHANGED <<conn, wire, asked, bitty>>

Header(h, x) ==
  CASE h.is = "content-length" -> [x EXCEPT !.bodysz = h.val]
    [] h.is = "chunked" -> [x EXCEPT !.chunked = TRUE]
    [] OTHER -> x

HeaderNames == {"content-length", "chunked", "me", "root"}

\* What the header callback of OPTIONS keeps of the line, if it keeps any.
HeaderField(c) ==
  /\ InLine(c, {"HEADER_FIELD"})
  /\ FindCrLf(buf[c]) > 1
  /\ LET h == Head(buf[c]) IN
       \/ /\ h.is \in HeaderNames /\ HeaderAccepted(asked[c].what, ctx[c].status)
          /\ SkipTo(c, FindCrLf(buf[c]) + 1)
          /\ Set(ctx, c, Header(h, ctx[c]))
          /\ Set(taken, c, IF asked[c].what = "OPTIONS" /\ h.is \in {"me", "root"}
                             THEN Append(taken[c], h) ELSE taken[c])
          /\ UNCHANGED <<verdict, stale>>
       \/ /\ ~(h.is \in HeaderNames /\ HeaderAccepted(asked[c].what, ctx[c].status))
          /\ Error(c)
  /\ UNCHANGED <<conn, wire, asked, bitty>>

EmptyLine(c) ==
  /\ InLine(c, {"HEADER_FIELD"})
  /\ FindCrLf(buf[c]) = 1
  /\ SkipTo(c, 2)
  /\ Set(ctx, c, [ctx[c] EXCEPT !.state = "BODY_IN"])
  /\ UNCHANGED <<conn, wire, asked, taken, verdict, stale, bitty>>

-----------------------------------------------------------------------------
(***************************************************************************)
(* process_body.  Its first pass follows the empty line at once, whether   *)
(* there is something to read or not.                                      *)
(***************************************************************************)
InBody(c) ==
  /\ ctx[c].state \in {"BODY_IN", "BODY"}
  /\ NeedMore(c) => ctx[c].state = "BODY_IN"

BodyCallback(c, data) ==
  LET given == Given(asked[c].what, data, ctx[c].chunked)
  IN /\ BodyAccepted(asked[c].what, given)
     /\ Set(taken, c, taken[c] \o given)

BodyRefused(c, data) ==
  ~BodyAccepted(asked[c].what, Given(asked[c].what, data, ctx[c].chunked))

ChunkSize(c) ==
  /\ InBody(c) /\ InChunkSize(c)
  /\ LET end == FindCrLf(buf[c])
         first == Head(buf[c])
     IN /\ end # 0
        /\ \/ /\ end = 2 /\ first.is = "size"
              /\ SkipTo(c, 3)
              /\ Set(ctx, c, [ctx[c] EXCEPT !.state = "BODY", !.within = TRUE,
                                            !.size = first.val])
              /\ UNCHANGED <<taken, verdict, stale>>
           \/ ~(end = 2 /\ first.is = "size") /\ Error(c)
  /\ UNCHANGED <<conn, wire, asked, bitty>>

Smaller(m, n) == IF m < n THEN m ELSE n

PartOfChunk(c) ==
  /\ InBody(c) /\ ctx[c].chunked /\ ctx[c].within
  /\ pos[c] < ctx[c].size
  /\ Set(pos, c, Smaller(ctx[c].size, Len(buf[c])))
  /\ UNCHANGED <<conn, wire, buf, late, ctx, asked, taken, verdict, stale, bitty>>

\* Seeded fault: the CR LF after a chunk is taken for read when it is not.
ChunkDataEager(c) ==
  /\ InBody(c) /\ ctx[c].chunked /\ ctx[c].within
  /\ pos[c] = ctx[c].size
  /\ LET data == SubSeq(buf[c], 1, ctx[c].size) IN
       \/ /\ BodyCallback(c, data)
          /\ SkipTo(c, Smaller(ctx[c].size + 2, Len(buf[c])))
          /\ IF ctx[c].size > 0
               THEN Set(ctx, c, [ctx[c] EXCEPT !.within = FALSE]) /\ UNCHANGED verdict
               ELSE Return(c, "done")
          /\ UNCHANGED stale
       \/ BodyRefused(c, data) /\ Error(c)
  /\ UNCHANGED <<conn, wire, asked, bitty>>

\* The CR LF that follows is skipped unseen, be it read yet or not.
ChunkData(c) ==
  /\ InBody(c) /\ ctx[c].chunked /\ ctx[c].within
  /\ pos[c] = ctx[c].size
  /\ LET data == SubSeq(buf[c], 1, ctx[c].size) IN
       \/ /\ BodyCallback(c, data)
          /\ SkipTo(c, ctx[c].size + 2)
          /\ IF ctx[c].size > 0
               THEN Set(ctx, c, [ctx[c] EXCEPT !.within = FALSE]) /\ UNCHANGED verdict
               ELSE Return(c, "done")
          /\ UNCHANGED stale
       \/ BodyRefused(c, data) /\ Error(c)
  /\ UNCHANGED <<conn, wire, asked, bitty>>

\* Seeded fault: what there is of a body is taken for all of it.
LengthBodyEager(c) ==
  /\ InBody(c) /\ ~ctx[c].chunked
  /\ \/ BodyCallback(c, buf[c]) /\ Return(c, "done")
     \/ BodyRefused(c, buf[c]) /\ Return(c, "error") /\ UNCHANGED taken
  /\ SkipTo(c, Len(buf[c]))
  /\ UNCHANGED <<conn, wire, asked, stale, bitty>>

\* A body with a length is given to the callback once it is complete.
LengthBody(c) ==
  /\ InBody(c) /\ ~ctx[c].chunked
  /\ LET n == ctx[c].bodysz
         data == SubSeq(buf[c], 1, n)
     IN \/ /\ Len(buf[c]) < n
           /\ Set(pos, c, Len(buf[c]))
           /\ Set(ctx, c, [ctx[c] EXCEPT !.state = "BODY"])
           /\ UNCHANGED <<buf, late, taken, verdict>>
        \/ /\ Len(buf[c]) >= n
           /\ BodyCallback(c, data)
           /\ SkipTo(c, n)
           /\ Return(c, "done")
        \/ /\ Len(buf[c]) >= n
           /\ BodyRefused(c, data)
           /\ Return(c, "error")
           /\ SkipTo(c, n)
           /\ UNCHANGED taken
  /\ UNCHANGED <<conn, wire, asked, stale, bitty>>

Parse(c) ==
  \/ Consume(c) \/ NothingRead(c)
  \/ Start(c) \/ PartOfLine(c)
  \/ StatusLine(c) \/ HeaderField(c) \/ EmptyLine(c)
  \/ ChunkSize(c) \/ PartOfChunk(c) \/ ChunkData(c)
  \/ LengthBody(c)

=============================================================================
