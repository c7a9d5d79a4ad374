------------------------------- MODULE Unpack -------------------------------
(***************************************************************************)
(* svnproto_unpack: what the svn server sends is read in pieces of any     *)
(* length, cut into tokens and matched with the specifications the client's*)
(* functions give, whose optional and repeated items give a token back by  *)
(* moving SPOS to its start.  The client asks for one specification after  *)
(* another (calls); callbacks ask for others from within (frames).  Offsets*)
(* count from 0, as in the code.                                           *)
(***************************************************************************)
EXTENDS Integers, Sequences, SequencesExt

CONSTANTS
  Exchanges, \* what the client calls, the tokens the server sends, and the
             \* values and the outcome this is to have
  Turns      \* as many turns of svnproto_vunpack as any of them takes

VARIABLES
  exchange, \* the one of this behaviour
  wire,     \* what the client has not read
  ended,    \* the connection ends after that
  data,     \* what the buffer holds, from offset 0 to SEOD
  pos,      \* SPOS
  st,       \* the state of the tokenizer
  phase,    \* "spec", "read" or "value": at an item, reading, or having read
  frames,   \* the specifications at hand, that of the innermost callback first
  calls,    \* what the client goes on with
  word,     \* the last word that was read
  got,      \* the values that were picked
  outcome   \* "running", "ok", "refused" or "failed"

vars == <<exchange, wire, ended, data, pos, st, phase, frames, calls, word, got, outcome>>

-----------------------------------------------------------------------------
(***************************************************************************)
(* Bytes, and what the server makes of them (external).  A letter, a digit *)
(* and a byte of a string stand for many.                                  *)
(***************************************************************************)
DigitOf == [d \in {"0", "1", "2", "3"} |->
              CASE d = "0" -> 0 [] d = "1" -> 1 [] d = "2" -> 2 [] d = "3" -> 3]
Digit == DOMAIN DigitOf
Letter == {"a", "c", "d", "e", "f", "r", "s", "t", "u"}
Space == {" ", "nul"}
Char == Digit \cup Letter \cup Space \cup {"(", ")", ":"}

Number(digits) ==
  LET val[k \in 0..Len(digits)] ==
        IF k = 0 THEN 0 ELSE 10 * val[k - 1] + DigitOf[digits[k]]
  IN  val[Len(digits)]

\* A token is what the tokenizer is to make of its bytes; a string has a size, and
\* the last is no token.
Tokens ==
  LET tok(ts, text, size) == [ts : {ts}, text : text, size : size]
  IN  tok("NUM_OUT", Seq(Digit) \ {<<>>}, {<<>>})
        \cup {t \in tok("TOK_OUT", Seq(Letter \cup Digit) \ {<<>>}, {<<>>}) : t.text[1] \in Letter}
        \cup {t \in tok("STRING_OUT", Seq(Char), Seq(Digit) \ {<<>>}) : Number(t.size) = Len(t.text)}
        \cup tok("LIST_START", {<<"(">>, <<"(", " ">>}, {<<>>})
        \cup tok("LIST_END", {<<")">>, <<")", " ">>}, {<<>>})
        \cup {t \in tok("BAD", Seq(Digit \cup {"(", ")"}), {<<>>}) :
                /\ Len(t.text) >= 2 /\ t.text[Len(t.text)] \notin Digit
                /\ \A i \in 1..(Len(t.text) - 1) : t.text[i] \in Digit}

Spelled(t) ==
  CASE t.ts = "STRING_OUT" -> t.size \o <<":">> \o Append(t.text, " ")
    [] t.ts \in {"NUM_OUT", "TOK_OUT"} -> Append(t.text, " ")
    [] OTHER -> t.text

Bytes(tokens) == FlattenSeq([j \in 1..Len(tokens) |-> Spelled(tokens[j])])

Success == <<"s", "u">>
Failure == <<"f", "a">>
TargetRev == <<"t", "r">>
AddDir == <<"a", "d">>
TextdeltaChunk == <<"t", "c">>
CloseFile == <<"c", "f">>
CloseEdit == <<"c", "e">>

-----------------------------------------------------------------------------
(***************************************************************************)
(* The specifications the client gives.  A callback is one item, named for *)
(* what its own specification reads.                                       *)
(***************************************************************************)
Setup == <<"(", "n", "n", "(", "w*", ")", "(", "w*", ")", ")">>
CheckAuth == <<"(", "(", "w*", ")", "s", ")">>
Challenge == <<"(", "s?", ")">>
LatestRev == <<"(", "n", ")">>
GetFile == <<"(", "(", "s?", ")", "n", "(", "r*prop", ")", "r?inherited", ")">>
GetDir == <<"(", "n", "(", "r*dir prop", ")", "(", "r*entry", ")", "r?inherited", ")">>
Contents == <<"S*">>
Empty == <<"(", ")">>
Errors == <<"(", "r*error", ")">>
EditorLoop == <<"r*command">>

Handler ==
  [c \in {TargetRev, AddDir, TextdeltaChunk, CloseFile, CloseEdit} |->
     CASE c = TargetRev -> <<"(", "n", ")">>
       [] c = AddDir -> <<"(", "s", "s", "s", "(", "s?", "n?", ")", ")">>
       [] c = TextdeltaChunk -> <<"(", "s", "S", ")">>
       [] c = CloseFile -> <<"(", "s", "(", "s?", ")", ")">>
       [] c = CloseEdit -> <<"(", ")">>]

DirCallback ==
  [i \in {"r*dir prop", "r*entry"} |->
     CASE i = "r*dir prop" -> <<"(", "s", "s", ")">>
       [] i = "r*entry" ->
            <<"(", "s", "w", "n", "w", "n", "(", "s?", ")", "(", "s?", ")", ")">>]

Callback ==
  [i \in {"r*prop", "r?inherited", "r*error", "r*command"} \cup DOMAIN DirCallback |->
     CASE i \in DOMAIN DirCallback -> DirCallback[i]
       [] i = "r*prop" -> <<"(", "s", "s", ")">>
       [] i = "r?inherited" -> <<"(", ")">>
       [] i = "r*error" -> <<"(", "n", "s", "s", "n", ")">>
       [] i = "r*command" -> <<"(", "w", "r handler", ")">>]

Callbacks == DOMAIN Callback \cup {"r handler"}

Repeated == {"w*", "S*", "r*prop", "r*dir prop", "r*entry", "r*error", "r*command"}
Optional == {"n?", "s?"}

Wants(item) ==
  CASE item = "(" -> "LIST_START"
    [] item = ")" -> "LIST_END"
    [] item \in {"n", "n?"} -> "NUM_OUT"
    [] item \in {"w", "w*"} -> "TOK_OUT"
    [] OTHER -> "STRING_OUT"

\* What the client does: unpack, or read the response to a command.
Unpacks(spec) == [do |-> "unpack", spec |-> spec]
Response(spec) == [do |-> "response", spec |-> spec]

Frame(item, spec) == [of |-> item, spec |-> spec]

\* A response begins with its status.
First(call) == Frame("call", IF call.do = "response" THEN <<"(", "w">> ELSE call.spec)

AfterItem(fs) == <<Frame(Head(fs).of, Tail(Head(fs).spec))>> \o Tail(fs)
Absent(item) == IF item = "n?" THEN <<"n", 0>> ELSE <<"none">>
Refusal == <<Unpacks(Errors), [do |-> "refused", spec |-> <<")">>]>>

-----------------------------------------------------------------------------
(***************************************************************************)
(* What an exchange means: svnproto_vunpack and what calls it, one token   *)
(* after the other, as if all were there and had been told apart.          *)
(***************************************************************************)
Meaningful(t) ==
  CASE t.ts = "NUM_OUT" -> <<"n", Number(t.text)>>
    [] t.ts = "TOK_OUT" -> <<"w", t.text>>
    [] t.ts = "STRING_OUT" -> <<"s", t.text>>

Took(m, item, t) ==
  [m EXCEPT !.at = @ + 1,
            !.got = IF item \in {"(", ")"} \/ (item = "S*" /\ t.text = <<>>) THEN @
                    ELSE Append(@, Meaningful(t)),
            !.word = IF item = "w" THEN t.text ELSE @,
            !.frames = IF item \in Repeated /\ ~(item = "S*" /\ t.text = <<>>) THEN @
                       ELSE AfterItem(@)]

\* What is not taken stays where it is, but for a string, which would be read again
\* without its length.
NotTook(m, item, t) ==
  IF item \notin Repeated \cup Optional
       /\ Head(m.frames).of \in {"call", "r handler", "r*dir prop"}
    THEN [m EXCEPT !.outcome = "failed"]
  ELSE IF t.ts = "STRING_OUT" THEN [m EXCEPT !.outcome = "garbled"]
  ELSE IF item \in Repeated \cup Optional
    THEN [m EXCEPT !.got = IF item \in Optional THEN Append(@, Absent(item)) ELSE @,
                   !.frames = AfterItem(@)]
  ELSE [m EXCEPT !.frames = AfterItem(Tail(@))]

Entered(m, item) ==
  IF item = "r handler" /\ m.word \notin DOMAIN Handler
    THEN [m EXCEPT !.outcome = "failed"]
    ELSE [m EXCEPT !.frames = <<Frame(item, IF item = "r handler" THEN Handler[m.word]
                                            ELSE Callback[item])>> \o @]

Left(m) ==
  LET of == Head(m.frames).of
  IN  [m EXCEPT !.frames = IF of \in Repeated /\ ~(of = "r*command" /\ m.word = CloseEdit)
                             THEN Tail(@) ELSE AfterItem(Tail(@))]

Returned(m) ==
  LET call == Head(m.calls)
      told == m.got[Len(m.got)] # <<"w", Failure>>
      next == CASE call.do = "refused" -> IF told THEN <<>> ELSE Tail(m.calls)
                [] call.do = "unpack" -> Tail(m.calls)
                [] OTHER -> (IF m.word = Success
                               THEN <<Unpacks(call.spec), Unpacks(<<")">>)>> ELSE Refusal)
                            \o Tail(m.calls)
  IN  IF call.do = "response" /\ m.word \notin {Success, Failure}
        THEN [m EXCEPT !.outcome = "failed"]
        ELSE [m EXCEPT !.calls = next,
                       !.frames = IF next = <<>> THEN <<>> ELSE <<First(Head(next))>>,
                       !.outcome = IF next # <<>> THEN "running"
                                   ELSE IF call.do = "refused" /\ told THEN "refused" ELSE "ok"]

\* A parenthesis needs a space behind it.
Illegible(tokens, at) ==
  \/ tokens[at + 1].ts = "BAD"
  \/ at > 0 /\ tokens[at].ts \in {"LIST_START", "LIST_END"} /\ Len(tokens[at].text) = 1

Turn(tokens, m) ==
  LET top == Head(m.frames)
      item == Head(top.spec)
      t == tokens[m.at + 1]
  IN  IF m.outcome # "running" THEN m
      ELSE IF top.spec = <<>> THEN IF top.of = "call" THEN Returned(m) ELSE Left(m)
      ELSE IF item \in Callbacks THEN Entered(m, item)
      ELSE IF m.at = Len(tokens) THEN [m EXCEPT !.outcome = "waits"]
      ELSE IF Illegible(tokens, m.at) THEN [m EXCEPT !.outcome = "failed"]
      ELSE IF t.ts = Wants(item) THEN Took(m, item, t)
      ELSE NotTook(m, item, t)

Start(e) ==
  [at |-> 0, frames |-> <<First(Head(e.calls))>>, calls |-> e.calls,
   word |-> <<>>, got |-> <<>>, outcome |-> "running"]

Course(e) ==
  LET course[k \in 0..Turns] ==
        IF k = 0 THEN Start(e) ELSE Turn(e.tokens, course[k - 1])
  IN  course

\* The values and the outcome of an exchange are what it means, and all of it is
\* used.
ASSUME ExchangeAssumption ==
  /\ Turns \in Nat
  /\ \A e \in Exchanges :
       LET m == Course(e)[Turns]
       IN  /\ e.tokens \in Seq(Tokens)
           /\ e.outcome \in {"ok", "refused", "failed"} /\ m.outcome = e.outcome
           /\ e.outcome # "failed" => m.got = e.wanted /\ m.at = Len(e.tokens)

-----------------------------------------------------------------------------
Out == {"START", "TOK_OUT", "NUM_OUT", "STRING_OUT"}
TokenizerStates ==
  Out \cup {"TOK_IN", "NUM_IN", "STRING_IN", "STRING_CHECK", "LIST_START", "LIST_END"}

TypeOK ==
  /\ st \in [ts : TokenizerStates, i : Nat, start : Nat, end : Nat, back : BOOLEAN]
  /\ pos \in 0..Len(data)
  /\ st.start <= pos
  /\ phase \in {"spec", "read", "value"}
  /\ outcome \in {"running", "ok", "refused", "failed"}

Init ==
  /\ exchange \in Exchanges
  /\ ended \in BOOLEAN
  /\ LET bytes == Bytes(exchange.tokens)
     IN  \E n \in 0..Len(bytes) :
           /\ ended \/ n = Len(bytes)
           /\ wire = SubSeq(bytes, 1, n)
  /\ data = <<>> /\ pos = 0
  /\ st = [ts |-> "START", i |-> 0, start |-> 0, end |-> 0, back |-> FALSE]
  /\ phase = "spec"
  /\ calls = exchange.calls
  /\ frames = <<First(Head(exchange.calls))>>
  /\ word = <<>> /\ got = <<>>
  /\ outcome = "running"

-----------------------------------------------------------------------------
(***************************************************************************)
(* read_one_value.                                                         *)
(***************************************************************************)
Running == outcome = "running" /\ frames # <<>>
Top == Head(frames)
AtItem == Running /\ Top.spec # <<>>
Item == Head(Top.spec)
NeedMore == pos >= Len(data)

GiveUp == outcome' = "failed" /\ frames' = <<>>

unpacking == <<frames, calls, word, got, outcome>>

ReadOne ==
  /\ AtItem /\ phase = "spec" /\ Item \notin Callbacks
  /\ phase' = "read"
  /\ IF st.back
       THEN pos' = st.start /\ st' = [st EXCEPT !.back = FALSE, !.ts = "START"]
       ELSE UNCHANGED <<pos, st>>
  /\ UNCHANGED <<exchange, wire, ended, data, unpacking>>

Consume ==
  /\ Running /\ phase = "read" /\ NeedMore
  /\ \E n \in 1..Len(wire) :
       /\ data' = data \o SubSeq(wire, 1, n)
       /\ wire' = SubSeq(wire, n + 1, Len(wire))
  /\ UNCHANGED <<exchange, ended, pos, st, phase, unpacking>>

EndOfData ==
  /\ Running /\ phase = "read" /\ NeedMore
  /\ wire = <<>> /\ ended
  /\ GiveUp
  /\ UNCHANGED <<exchange, wire, ended, data, pos, st, phase, calls, word, got>>

-----------------------------------------------------------------------------
(***************************************************************************)
(* parse_one_value, one byte a step.                                       *)
(***************************************************************************)
Tokenizing == Running /\ phase = "read" /\ ~NeedMore
Byte == data[pos + 1]
BetweenBytes(from, to) == SubSeq(data, from + 1, to)

Stay(s) == st' = s /\ UNCHANGED <<data, pos, phase>>
Skip(s) == st' = s /\ pos' = pos + 1 /\ UNCHANGED <<data, phase>>
Token(s) == st' = s /\ pos' = pos + 1 /\ phase' = "value"
Cleared == [data EXCEPT ![pos + 1] = "nul"]

\* The bytes of a string are not looked at.
StringBytes ==
  /\ st.ts = "STRING_IN"
  /\ IF pos < st.start + st.i
       THEN Skip(st)
       ELSE Stay([st EXCEPT !.ts = "STRING_CHECK", !.end = pos])

EndOfToken ==
  /\ Byte \in Space
  /\ \/ st.ts = "TOK_IN" /\ Token([st EXCEPT !.ts = "TOK_OUT", !.end = pos])
     \/ st.ts = "NUM_IN" /\ Token([st EXCEPT !.ts = "NUM_OUT", !.end = pos,
                                             !.i = Number(BetweenBytes(st.start, pos))])
     \/ st.ts = "STRING_CHECK" /\ Token([st EXCEPT !.ts = "STRING_OUT"])
  /\ data' = Cleared

Parenthesis ==
  /\ Byte \in {"(", ")"} /\ st.ts \in Out
  /\ Token([st EXCEPT !.ts = IF Byte = "(" THEN "LIST_START" ELSE "LIST_END",
                      !.start = pos])
  /\ UNCHANGED data

Between ==
  /\ Byte \in Space
  /\ \/ st.ts \in Out /\ Skip(st)
     \/ st.ts \in {"LIST_START", "LIST_END"} /\ Skip([st EXCEPT !.ts = "START"])

InToken ==
  \/ /\ Byte \in Digit \cup Letter /\ st.ts \in Out
     /\ Skip([st EXCEPT !.ts = IF Byte \in Digit THEN "NUM_IN" ELSE "TOK_IN",
                        !.start = pos])
  \/ Byte \in Digit /\ st.ts \in {"NUM_IN", "TOK_IN"} /\ Skip(st)
  \/ Byte \in Letter /\ st.ts = "TOK_IN" /\ Skip(st)

LengthOfString ==
  /\ Byte = ":" /\ st.ts = "NUM_IN"
  /\ st' = [st EXCEPT !.ts = "STRING_IN", !.end = pos, !.start = pos + 1,
                      !.i = Number(BetweenBytes(st.start, pos))]
  /\ pos' = pos + 1 /\ data' = Cleared
  /\ UNCHANGED phase

Tokenized ==
  \/ StringBytes
  \/ st.ts # "STRING_IN" /\ (EndOfToken \/ Parenthesis \/ Between \/ InToken
                               \/ LengthOfString)

Legal ==
  \/ st.ts = "STRING_IN"
  \/ Byte \in Space
  \/ Byte \in {"(", ")"} /\ st.ts \in Out
  \/ Byte \in Digit /\ st.ts \in Out \cup {"NUM_IN", "TOK_IN"}
  \/ Byte \in Letter /\ st.ts \in Out \cup {"TOK_IN"}
  \/ Byte = ":" /\ st.ts = "NUM_IN"

ParseOne ==
  /\ Tokenizing
  /\ \/ Legal /\ Tokenized /\ UNCHANGED unpacking
     \/ /\ ~Legal /\ GiveUp
        /\ UNCHANGED <<data, pos, st, phase, calls, word, got>>
  /\ UNCHANGED <<exchange, wire, ended>>

-----------------------------------------------------------------------------
(***************************************************************************)
(* vunpack: one item of a specification with the value that was read.      *)
(***************************************************************************)
Text == BetweenBytes(st.start, st.end)

Value ==
  CASE st.ts = "NUM_OUT" -> <<"n", st.i>>
    [] st.ts = "TOK_OUT" -> <<"w", Text>>
    [] st.ts = "STRING_OUT" -> <<"s", Text>>

Picked(v) == got' = Append(got, v)
GiveBack == st' = [st EXCEPT !.back = TRUE]

Matching == AtItem /\ phase = "value"
Matches == st.ts = Wants(Item)

Take ==
  /\ Matching /\ Matches /\ Item # "S*"
  /\ IF Item \in {"(", ")"} THEN UNCHANGED <<got, word>>
                            ELSE Picked(Value) /\ word' = IF Item = "w" THEN Text ELSE word
  /\ frames' = IF Item \in Repeated THEN frames ELSE AfterItem(frames)
  /\ phase' = "spec"
  /\ UNCHANGED <<exchange, wire, ended, data, pos, st, calls, outcome>>

\* Seeded fault: an empty string is a piece of the contents.
TakeContentsAll ==
  /\ Matching /\ Matches /\ Item = "S*"
  /\ Picked(Value)
  /\ phase' = "spec"
  /\ UNCHANGED <<exchange, wire, ended, data, pos, st, frames, calls, word, outcome>>

\* Contents end with an empty string, which is not given back.
TakeContents ==
  /\ Matching /\ Matches /\ Item = "S*"
  /\ IF Text = <<>> THEN frames' = AfterItem(frames) /\ UNCHANGED got
                    ELSE Picked(Value) /\ UNCHANGED frames
  /\ phase' = "spec"
  /\ UNCHANGED <<exchange, wire, ended, data, pos, st, calls, word, outcome>>

Miss ==
  /\ Matching /\ ~Matches /\ Item \in Repeated \cup Optional
  /\ IF Item \in Optional THEN Picked(Absent(Item)) ELSE UNCHANGED got
  /\ frames' = AfterItem(frames)
  /\ GiveBack
  /\ phase' = "spec"
  /\ UNCHANGED <<exchange, wire, ended, data, pos, calls, word, outcome>>

\* Seeded fault: what the buffer drops is not subtracted from the offsets.
RecycledStale(s) ==
  \E drop \in {0, s.start} :
    /\ data' = SubSeq(data, drop + 1, Len(data))
    /\ pos' = pos - drop
    /\ st' = s

\* bytestream_recycle drops what is before the last token, from 512 bytes on,
\* which is a choice here.
Recycled(s) ==
  \E drop \in {0, s.start} :
    /\ data' = SubSeq(data, drop + 1, Len(data))
    /\ pos' = pos - drop
    /\ st' = [s EXCEPT !.start = @ - drop, !.end = IF @ < drop THEN 0 ELSE @ - drop]

\* Seeded fault: the end of a repetition of callbacks is an error.
NoMatchFails ==
  /\ Matching /\ ~Matches /\ Item \notin Repeated \cup Optional
  /\ phase' = "spec"
  /\ GiveUp /\ GiveBack
  /\ UNCHANGED <<exchange, wire, ended, data, pos, calls, word, got>>

\* A callback whose specification does not match ends the item of its caller,
\* which goes on; the handler of a command and get-dir, at the end of its
\* properties, make another error of it, and a call from outside fails.
NoMatch ==
  /\ Matching /\ ~Matches /\ Item \notin Repeated \cup Optional
  /\ phase' = "spec"
  /\ IF Top.of \in {"call", "r handler", "r*dir prop"}
       THEN GiveUp /\ GiveBack /\ UNCHANGED <<data, pos>>
       ELSE /\ frames' = AfterItem(Tail(frames))
            /\ Recycled([st EXCEPT !.back = TRUE])
            /\ UNCHANGED outcome
  /\ UNCHANGED <<exchange, wire, ended, calls, word, got>>

Enter ==
  /\ AtItem /\ phase = "spec" /\ Item \in Callbacks
  /\ IF Item = "r handler"
       THEN IF word \in DOMAIN Handler
              THEN frames' = <<Frame(Item, Handler[word])>> \o frames /\ UNCHANGED outcome
              ELSE GiveUp
       ELSE frames' = <<Frame(Item, Callback[Item])>> \o frames /\ UNCHANGED outcome
  /\ UNCHANGED <<exchange, wire, ended, data, pos, st, phase, calls, word, got>>

\* Seeded fault: close-edit is a command like the others.
LeaveOn ==
  /\ Running /\ phase = "spec" /\ Top.spec = <<>> /\ Top.of # "call"
  /\ IF Top.of \in Repeated
       THEN frames' = Tail(frames) /\ UNCHANGED <<data, pos, st>>
       ELSE frames' = AfterItem(Tail(frames)) /\ Recycled(st)
  /\ UNCHANGED <<exchange, wire, ended, phase, calls, word, got, outcome>>

\* A callback that has matched is called again if its item is repeated;
\* close-edit ends the repetition.
Leave ==
  /\ Running /\ phase = "spec" /\ Top.spec = <<>> /\ Top.of # "call"
  /\ IF Top.of \in Repeated /\ ~(Top.of = "r*command" /\ word = CloseEdit)
       THEN frames' = Tail(frames) /\ UNCHANGED <<data, pos, st>>
       ELSE frames' = AfterItem(Tail(frames)) /\ Recycled(st)
  /\ UNCHANGED <<exchange, wire, ended, phase, calls, word, got, outcome>>

-----------------------------------------------------------------------------
(***************************************************************************)
(* The calls.  svnproto_command_response goes on as the status says; after *)
(* a failure the client gives up its request.                              *)
(***************************************************************************)
\* A failure whose list of errors is empty passes for success.
Told == Last(got) # <<"w", Failure>>

\* Seeded fault: the list of a failure is read, its end is not.
FollowingOpen ==
  IF Head(calls).do = "refused" THEN IF Told THEN <<>> ELSE Tail(calls)
  ELSE IF Head(calls).do = "unpack" THEN Tail(calls)
  ELSE IF word = Success
         THEN <<Unpacks(Head(calls).spec), Unpacks(<<")">>)>> \o Tail(calls)
  ELSE <<[do |-> "refused", spec |-> Errors]>> \o Tail(calls)

Following ==
  IF Head(calls).do = "refused" THEN IF Told THEN <<>> ELSE Tail(calls)
  ELSE IF Head(calls).do = "unpack" THEN Tail(calls)
  ELSE IF word = Success
         THEN <<Unpacks(Head(calls).spec), Unpacks(<<")">>)>> \o Tail(calls)
  ELSE Refusal \o Tail(calls)

Return ==
  /\ Running /\ phase = "spec" /\ Top.spec = <<>> /\ Top.of = "call"
  /\ IF Head(calls).do = "response" /\ word \notin {Success, Failure}
       THEN GiveUp /\ UNCHANGED calls
       ELSE /\ calls' = Following
            /\ frames' = IF Following = <<>> THEN <<>> ELSE <<First(Head(Following))>>
            /\ outcome' = IF Following # <<>> THEN "running"
                          ELSE IF Head(calls).do = "refused" /\ Told THEN "refused" ELSE "ok"
  /\ UNCHANGED <<exchange, wire, ended, data, pos, st, phase, word, got>>

Done == outcome # "running" /\ UNCHANGED vars

Step ==
  \/ ReadOne \/ Consume \/ EndOfData \/ ParseOne
  \/ Take \/ TakeContents \/ Miss \/ NoMatch
  \/ Enter \/ Leave \/ Return

Next == Step \/ Done

Spec == Init /\ [][Next]_vars

\* The client is one process, and what the server has sent arrives.
FairSpec == Spec /\ WF_vars(Step)

-----------------------------------------------------------------------------
(***************************************************************************)
(* Properties.                                                             *)
(***************************************************************************)
\* A call that returns success, or the errors of a failure, has picked the
\* values the server sent, whatever pieces they were read in and whatever was
\* given back on the way; an exchange that is cut short is never taken
\* for one of either kind.
ValuesRight ==
  outcome \in {"ok", "refused"} =>
    got = exchange.wanted /\ outcome = exchange.outcome

\* Where the next call begins to read.
Unread == BetweenBytes(IF st.back THEN st.start ELSE pos, Len(data)) \o wire

\* The client stands behind the exchange when it is done with it: nothing of
\* it is left for the next call, nothing of the next has been taken.
InStep == outcome \in {"ok", "refused"} => Range(Unread) \subseteq Space

\* The client never waits for a byte beyond the end of the exchange, which the
\* server sends only after the next request: no item looks for a repetition
\* behind the last parenthesis, and contents end at the empty string.
NeverWaits == Running /\ phase = "read" /\ NeedMore /\ wire = <<>> => ended

\* Every exchange the server sends as a whole is understood, with every
\* optional item there or not: what was read in vain is given back.
\* One that is cut short makes the client give up.
Understood == <>(outcome = exchange.outcome \/ (ended /\ outcome = "failed"))

=============================================================================
