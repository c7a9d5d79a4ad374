------------------------------ MODULE SvnDiff ------------------------------
(***************************************************************************)
(* One svndiff document from the server's encoder to the target view: the  *)
(* parser svndiff_parse_doc, which keeps its state from one chunk to the   *)
(* next, and svndiff_build_tview, which carries out the instructions of a  *)
(* window over the local file.  SvnEdit takes the result for granted:      *)
(* "fresh" is a document without source copies, "copy" one with them.      *)
(*                                                                         *)
(* A byte is a number, and so is a letter of a text; a packed (deflated)   *)
(* block is a single symbol that stands for what it unpacks to.            *)
(***************************************************************************)
EXTENDS Naturals, Sequences, SequencesExt

CONSTANTS
  Doc,       \* what may be sent: records of a base text and the windows over it
  Garbage,   \* what malloc leaves in a buffer
  Radix,     \* digits of a number are below it, 128 in the code
  MaxDigits, \* MAX_ENCODED_INT_LEN
  MaxLong,   \* the greatest long, 2^63 - 1
  MaxShort,  \* lengths up to it go into the instruction's first byte, 63 in the code
  Misread    \* windows that may come of bytes read out of step: sequences of them

Codes == 0..3
SVN_TXDELTA_SOURCE == 0
SVN_TXDELTA_TARGET == 1
SVN_TXDELTA_NEW == 2

-----------------------------------------------------------------------------
(***************************************************************************)
(* The encoder of the server: numbers most significant digit first, every  *)
(* digit but the last with the high bit; blocks packed where that helps.   *)
(***************************************************************************)
Digits(n) ==
  LET ds[m \in 0..n] == IF m < Radix THEN <<m>> ELSE Append(ds[m \div Radix], m % Radix)
  IN  ds[n]

EncNumber(n) ==
  LET ds == Digits(n)
  IN  [i \in 1..Len(ds) |-> IF i < Len(ds) THEN Radix + ds[i] ELSE ds[i]]

EncInsn(i) ==
  LET short == IF i.len <= MaxShort THEN i.len ELSE 0
  IN  <<i.code * (MaxShort + 1) + short>>
        \o (IF short = 0 THEN EncNumber(i.len) ELSE << >>)
        \o (IF i.code # SVN_TXDELTA_NEW THEN EncNumber(i.offset) ELSE << >>)

Pack(s) == <<s>>

EncBytes(s) == EncNumber(Len(s)) \o (IF Len(s) > 2 THEN Pack(s) ELSE s)

InsnBytes(w) == FlattenSeq([i \in 1..Len(w.insns) |-> EncInsn(w.insns[i])])

\* The fields of a window; a chunk may end after any of them.
EncWindow(w) ==
  LET insns == EncBytes(InsnBytes(w))
      new == EncBytes(w.new)
  IN  <<EncNumber(w.so), EncNumber(w.sl), EncNumber(w.tl),
        EncNumber(Len(insns)), EncNumber(Len(new)), insns, new>>

Version == <<83, 86, 78, 1>>

EncDoc(d) ==
  [f \in 1..(7 * Len(d.windows) + 1) |->
     IF f = 1 THEN Version
     ELSE EncWindow(d.windows[((f - 2) \div 7) + 1])[((f - 2) % 7) + 1]]

-----------------------------------------------------------------------------
(***************************************************************************)
(* What may be sent.  A number has at most MaxDigits digits, and the sum of*)
(* two of them is a long: greater ones (10 digits of 7 bits are more than  *)
(* 63) wrap in decode_number, some to negative lengths, and what becomes of*)
(* them is left out.  A new instruction has no offset; no byte of the      *)
(* version is like a digit that others follow.                             *)
(***************************************************************************)
Number == {n \in Nat : Len(Digits(n)) <= MaxDigits /\ 2 * n <= MaxLong}
Insn == {i \in [code : Codes, offset : Number, len : Number] :
           i.code = SVN_TXDELTA_NEW => i.offset = 0}
Window == [so : Number, sl : Number, tl : Number, insns : Seq(Insn), new : Seq(Nat)]

\* svndiff_wnd_t
ParsedWindow == [so : Number, sl : Number, tl : Number, insl : Number, newl : Number,
                 insns : Seq(Insn), new : Seq(Nat)]

\* The blocks are not too long for their lengths.
Sendable(w) ==
  {Len(InsnBytes(w)), Len(w.new), Len(EncBytes(InsnBytes(w))), Len(EncBytes(w.new))}
    \subseteq Number

ASSUME CodingAssumption ==
  /\ Radix \in Nat \ {0, 1} /\ MaxDigits \in Nat \ {0} /\ MaxShort \in Nat
  /\ MaxLong \in Nat
  /\ \A i \in 1..Len(Version) : Version[i] \notin Radix..(2 * Radix - 1)
ASSUME DocAssumption ==
  \A d \in Doc :
    /\ d.base \in Seq(Nat) /\ d.windows \in Seq(Window)
    /\ \A k \in 1..Len(d.windows) : Sendable(d.windows[k])
ASSUME MisreadAssumption == \A ws \in Misread : ws \in Seq(ParsedWindow)

-----------------------------------------------------------------------------
(***************************************************************************)
(* What an encoder may ask for, and what the target then is: a copy from   *)
(* the target may run into what it writes itself and repeats it.           *)
(***************************************************************************)
MayFollow(base, w, done, i) ==
  CASE i.code = SVN_TXDELTA_SOURCE -> i.offset + i.len <= w.sl
    [] i.code = SVN_TXDELTA_TARGET -> i.offset < Len(done.text)
    [] i.code = SVN_TXDELTA_NEW -> i.len <= Len(done.new)
    [] OTHER -> FALSE

Piece(base, w, done, i) ==
  CASE i.code = SVN_TXDELTA_SOURCE -> SubSeq(base, w.so + i.offset + 1, w.so + i.offset + i.len)
    [] i.code = SVN_TXDELTA_NEW -> SubSeq(done.new, 1, i.len)
    [] OTHER -> [k \in 1..i.len |->
                   done.text[i.offset + 1 + ((k - 1) % (Len(done.text) - i.offset))]]

Apply(base, w, done, i) ==
  IF done.ok /\ MayFollow(base, w, done, i)
    THEN [ok |-> TRUE,
          text |-> done.text \o Piece(base, w, done, i),
          new |-> IF i.code = SVN_TXDELTA_NEW
                    THEN SubSeq(done.new, i.len + 1, Len(done.new)) ELSE done.new]
    ELSE [done EXCEPT !.ok = FALSE]

\* What there is after each instruction, and after the last.
MeantBy(base, w) ==
  LET after[k \in 0..Len(w.insns)] ==
        IF k = 0 THEN [ok |-> w.so + w.sl <= Len(base), text |-> << >>, new |-> w.new]
        ELSE Apply(base, w, after[k - 1], w.insns[k])
  IN  after

Meant(base, w) == MeantBy(base, w)[Len(w.insns)]

Valid(d) ==
  \A k \in 1..Len(d.windows) :
    LET m == Meant(d.base, d.windows[k])
    IN  m.ok /\ Len(m.text) = d.windows[k].tl /\ m.new = << >>

-----------------------------------------------------------------------------
VARIABLES
  doc,     \* the document, and the file it is applied to
  rest,    \* the fields the server has still to send
  split,   \* history: what a chunk ended in the middle of
  chunk,   \* what svndiff_parse_doc has still to read of its chunk
  state,   \* parse_state, then building and the end
  wnd,     \* the windows parsed, the last one perhaps in part
  out,     \* the target views built
  insn,    \* how many instructions of the window are carried out
  copied,  \* how many bytes of a target copy are
  view,    \* what tview holds
  navail,  \* as in svndiff_build_tview
  used     \* pbytes, from the start of the window's bytes

sendVars == <<doc, rest, split>>
parseVars == <<chunk, wnd>>
buildVars == <<out, insn, copied, view, navail, used>>
vars == <<sendVars, state, parseVars, buildVars>>

NewWindow == [so |-> 0, sl |-> 0, tl |-> 0, insl |-> 0, newl |-> 0,
              insns |-> << >>, new |-> << >>]

Init ==
  /\ doc \in Doc
  /\ rest = EncDoc(doc)
  /\ split = "none"
  /\ chunk = << >> /\ state = "version" /\ wnd = << >>
  /\ out = << >> /\ insn = 0 /\ copied = 0 /\ view = << >> /\ navail = 0 /\ used = 0

Parsing == state \in {"version", "nwnd", "so", "sl", "tl", "insl", "newl", "insns", "bytes"}

\* "block" for the bytes of a block, "field" for the version or a number, the length
\* of a block among them.
TornIn(k, n) ==
  IF (state = "version" /\ k = 1) \/ \A j \in 1..n : rest[k][j] \in Radix..(2 * Radix - 1)
    THEN "field" ELSE "block"

\* The server flushes what it has after a field, or in the middle of one.
ReceiveChunk ==
  /\ Parsing /\ chunk = << >> /\ rest # << >>
  /\ \E k \in 1..Len(rest) :
       \/ /\ chunk' = FlattenSeq(SubSeq(rest, 1, k))
          /\ rest' = SubSeq(rest, k + 1, Len(rest))
          /\ UNCHANGED split
       \/ \E n \in 1..(Len(rest[k]) - 1) :
            /\ chunk' = FlattenSeq(SubSeq(rest, 1, k - 1)) \o SubSeq(rest[k], 1, n)
            /\ rest' = <<SubSeq(rest[k], n + 1, Len(rest[k]))>>
                         \o SubSeq(rest, k + 1, Len(rest))
            /\ split' = TornIn(k, n)
  /\ UNCHANGED <<doc, state, wnd, buildVars>>

-----------------------------------------------------------------------------
(***************************************************************************)
(* svndiff_parse_doc.  A state reads one field from the chunk; what is cut *)
(* off in the middle is not waited for, and of a block not even noticed.   *)
(***************************************************************************)
Drop(s, n) == SubSeq(s, n + 1, Len(s))

\* decode_number
Complete(s) == \E j \in 1..Len(s) : j <= MaxDigits /\ s[j] < Radix

NumberLen(s) ==
  CHOOSE j \in 1..Len(s) : s[j] < Radix /\ \A k \in 1..(j - 1) : s[k] >= Radix

NumberOf(s) ==
  LET val[k \in 0..NumberLen(s)] ==
        IF k = 0 THEN 0 ELSE (val[k - 1] * Radix) + (s[k] % Radix)
  IN  val[NumberLen(s)]

\* decode_insn; nothing is said of what is no instruction.
DecodeInsn(s) ==
  LET code == s[1] \div (MaxShort + 1)
      short == s[1] % (MaxShort + 1)
      afterLen == IF short = 0 THEN Drop(s, 1 + NumberLen(Tail(s))) ELSE Tail(s)
      hasOffset == code # SVN_TXDELTA_NEW
  IN  [insn |-> [code |-> code,
                 offset |-> IF hasOffset THEN NumberOf(afterLen) ELSE 0,
                 len |-> IF short = 0 THEN NumberOf(Tail(s)) ELSE short],
       rest |-> IF hasOffset THEN Drop(afterLen, NumberLen(afterLen)) ELSE afterLen]

InsnIsComplete(s) ==
  LET short == s[1] % (MaxShort + 1)
  IN  /\ short = 0 => Complete(Tail(s))
      /\ s[1] \div (MaxShort + 1) # SVN_TXDELTA_NEW
           => Complete(IF short = 0 THEN Drop(s, 1 + NumberLen(Tail(s))) ELSE Tail(s))

\* The loop over a block of at least so many bytes, one instruction a turn; an
\* instruction that is cut off ends it.
DecodeWhile(s, least) ==
  LET turn[k \in 0..Len(s)] ==
        IF k = 0 THEN [insns |-> << >>, rest |-> s]
        ELSE LET now == turn[k - 1]
             IN  IF Len(now.rest) < least \/ ~InsnIsComplete(now.rest) THEN now
                 ELSE [insns |-> Append(now.insns, DecodeInsn(now.rest).insn),
                       rest |-> DecodeInsn(now.rest).rest]
  IN  turn[Len(s)].insns

\* Seeded fault: an instruction of one byte at the end is not looked at.
DecodeInsnsButLast(s) == DecodeWhile(s, 2)
DecodeInsns(s) == DecodeWhile(s, 1)

\* decode_bytes: what is as long as it was is not packed.
DecodeBytes(s, encoded) ==
  LET n == NumberLen(s)
  IN  IF encoded - n = NumberOf(s) THEN SubSeq(s, n + 1, encoded) ELSE s[n + 1]

LastWnd == Len(wnd)

Refuse == state' = "refused" /\ UNCHANGED <<sendVars, parseVars, buildVars>>

Reads(field) == state = field /\ chunk # << >>

DecodeVersion ==
  /\ Reads("version")
  /\ IF Len(chunk) >= 4
       THEN /\ chunk' = Drop(chunk, 4)
            /\ state' = "nwnd"
            /\ UNCHANGED <<sendVars, wnd, buildVars>>
       ELSE Refuse

NextWindow ==
  /\ Reads("nwnd")
  /\ wnd' = Append(wnd, NewWindow)
  /\ state' = "so"
  /\ UNCHANGED <<sendVars, chunk, buildVars>>

DecodeNumber(field, next) ==
  /\ Reads(field)
  /\ IF Complete(chunk)
       THEN /\ wnd' = [wnd EXCEPT ![LastWnd][field] = NumberOf(chunk)]
            /\ chunk' = Drop(chunk, NumberLen(chunk))
            /\ state' = next
            /\ UNCHANGED <<sendVars, buildVars>>
       ELSE Refuse

\* decode_bytes takes as many bytes as the block has, also beyond the end of the
\* chunk.  Where they are no deflated data it fails; or else the rest of the block
\* is read for the next field and so on, to an error or to windows nobody sent.
OverRead ==
  \/ Refuse
  \/ /\ \E ws \in Misread : wnd' = Front(wnd) \o ws
     /\ chunk' = << >> /\ rest' = << >>
     /\ state' = "nwnd"
     /\ UNCHANGED <<doc, split, buildVars>>

DecodeBlock(field, next, encoded, value) ==
  /\ Reads(field)
  /\ IF Complete(chunk)
       THEN IF encoded <= Len(chunk)
              THEN /\ wnd' = value
                   /\ chunk' = Drop(chunk, encoded)
                   /\ state' = next
                   /\ UNCHANGED <<sendVars, buildVars>>
              ELSE OverRead
       ELSE Refuse

ParseInsns ==
  DecodeBlock("insns", "bytes", wnd[LastWnd].insl,
    [wnd EXCEPT ![LastWnd].insns = DecodeInsns(DecodeBytes(chunk, wnd[LastWnd].insl))])

ParseBytes ==
  DecodeBlock("bytes", "nwnd", wnd[LastWnd].newl,
    [wnd EXCEPT ![LastWnd].new = DecodeBytes(chunk, wnd[LastWnd].newl)])

Parse ==
  \/ DecodeVersion
  \/ NextWindow
  \/ \E f \in {<<"so", "sl">>, <<"sl", "tl">>, <<"tl", "insl">>, <<"insl", "newl">>,
               <<"newl", "insns">>} : DecodeNumber(f[1], f[2])
  \/ ParseInsns
  \/ ParseBytes

-----------------------------------------------------------------------------
(***************************************************************************)
(* svndiff_build_tview, for one window after the other.                    *)
(***************************************************************************)
Building == state = "build" /\ Len(out) < LastWnd
TheWindow == wnd[Len(out) + 1]
TheInsn == TheWindow.insns[insn + 1]

Carries(code) ==
  Building /\ insn < Len(TheWindow.insns) /\ TheInsn.code = code

\* Seeded fault: the room in the target view is not looked at.
FitsAlways == TRUE
Fits == TheInsn.len <= navail

Carried(bytes) ==
  /\ view' = view \o bytes
  /\ navail' = navail - TheInsn.len
  /\ insn' = insn + 1

\* textdelta-end and close-file: the first window.
BeginBuild ==
  /\ state = "nwnd" /\ chunk = << >> /\ rest = << >>
  /\ state' = "build"
  /\ navail' = IF wnd = << >> THEN 0 ELSE wnd[1].tl
  /\ UNCHANGED <<sendVars, parseVars, out, insn, copied, view, used>>

TooLong ==
  /\ Building /\ insn < Len(TheWindow.insns) /\ copied = 0
  /\ ~Fits
  /\ Refuse

CopySource ==
  /\ Carries(SVN_TXDELTA_SOURCE) /\ Fits
  /\ LET from == TheWindow.so + TheInsn.offset
     IN  IF TheInsn.len > 0 /\ from + TheInsn.len > Len(doc.base)
           THEN Refuse
           ELSE /\ Carried(SubSeq(doc.base, from + 1, from + TheInsn.len))
                /\ UNCHANGED <<sendVars, state, parseVars, out, copied, used>>

\* Seeded fault: pbytes stays where it is.
CopyNewAgain ==
  /\ Carries(SVN_TXDELTA_NEW) /\ Fits
  /\ IF Len(TheWindow.new) - used < TheInsn.len
       THEN Refuse
       ELSE /\ Carried(SubSeq(TheWindow.new, used + 1, used + TheInsn.len))
            /\ UNCHANGED <<sendVars, state, parseVars, out, copied, used>>

CopyNew ==
  /\ Carries(SVN_TXDELTA_NEW) /\ Fits
  /\ IF Len(TheWindow.new) - used < TheInsn.len
       THEN Refuse
       ELSE /\ Carried(SubSeq(TheWindow.new, used + 1, used + TheInsn.len))
            /\ used' = used + TheInsn.len
            /\ UNCHANGED <<sendVars, state, parseVars, out, copied>>

\* Seeded fault: a copy that runs into what it writes is taken for corrupt.
FilledOnly == TheInsn.offset + TheInsn.len <= Len(view)
TargetInRange == TheInsn.offset + TheInsn.len < TheWindow.tl

\* Byte after byte: what was just written may be read again.
CopyTarget ==
  /\ Carries(SVN_TXDELTA_TARGET)
  /\ \/ /\ copied = 0 /\ Fits /\ ~TargetInRange
        /\ Refuse
     \/ /\ copied > 0 \/ (Fits /\ TargetInRange)
        /\ copied < TheInsn.len
        /\ LET from == TheInsn.offset + copied + 1
           IN  view' = Append(view, IF from <= Len(view) THEN view[from] ELSE Garbage)
        /\ copied' = copied + 1
        /\ UNCHANGED <<sendVars, state, parseVars, out, insn, navail, used>>
     \/ /\ copied = TheInsn.len
        /\ copied > 0 \/ TargetInRange
        /\ Carried(<< >>)
        /\ copied' = 0
        /\ UNCHANGED <<sendVars, state, parseVars, out, used>>

UnknownCode == Carries(3) /\ Fits /\ Refuse

\* The view is as long as tview_len says, whatever was written to it.
FinishWindow ==
  /\ Building /\ insn = Len(TheWindow.insns)
  /\ out' = Append(out, view \o [i \in 1..navail |-> Garbage])
  /\ insn' = 0 /\ view' = << >> /\ used' = 0
  /\ navail' = IF Len(out') < LastWnd THEN wnd[Len(out') + 1].tl ELSE 0
  /\ UNCHANGED <<sendVars, state, parseVars, copied>>

Build ==
  \/ BeginBuild
  \/ TooLong
  \/ CopySource \/ CopyNew \/ CopyTarget \/ UnknownCode
  \/ FinishWindow

Built == state = "build" /\ Len(out) = LastWnd

Done == (Built \/ state = "refused") /\ UNCHANGED vars

Next == ReceiveChunk \/ Parse \/ Build \/ Done

Spec == Init /\ [][Next]_vars

-----------------------------------------------------------------------------
(***************************************************************************)
(* Whether chunks end between fields or within the version or a number,    *)
(* what is parsed to its end is what was sent: what is torn is refused and *)
(* never misread, and no window takes up a field of another                *)
(* (doc->parse_state and current_wnd).  It does not hold of a chunk that   *)
(* ends within a block of instructions or of new data: see OverRead.       *)
(***************************************************************************)
ParsedRight ==
  state = "build" /\ split # "block" =>
    /\ Len(wnd) = Len(doc.windows)
    /\ \A k \in 1..Len(wnd) :
         LET got == wnd[k]
             sent == doc.windows[k]
         IN  /\ <<got.so, got.sl, got.tl>> = <<sent.so, sent.sl, sent.tl>>
             /\ got.insns = sent.insns /\ got.new = sent.new

(***************************************************************************)
(* The checks of svndiff_build_tview are for corrupt documents only: one   *)
(* an encoder may send, cut between fields, is never refused.              *)
(***************************************************************************)
NotRefused == Valid(doc) /\ split = "none" => state # "refused"

(***************************************************************************)
(* ... and gives the target the encoder meant, byte for byte, wherever     *)
(* ParsedRight holds.                                                      *)
(***************************************************************************)
BuiltRight ==
  Built /\ Valid(doc) /\ split # "block" =>
    \A k \in 1..Len(out) : out[k] = Meant(doc.base, doc.windows[k]).text

(***************************************************************************)
(* No instruction writes past the target view or reads past the window's   *)
(* bytes, whatever it says, in a corrupt document or one read out of step: *)
(* navail tells what is left of tview_len.  This is so as long as numbers, *)
(* and the sums of two, fit a long (see Number): for greater ones the code *)
(* has no check, and nothing is claimed.                                   *)
(***************************************************************************)
InBounds ==
  Building =>
    /\ Len(view) <= TheWindow.tl
    /\ Len(view) + navail = TheWindow.tl + copied
    /\ used <= Len(TheWindow.new)

=============================================================================
