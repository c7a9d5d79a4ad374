------------------------------ MODULE MCUnpack ------------------------------
(***************************************************************************)
(* Exchanges for Unpack: the greeting, authentication, the answer to       *)
(* get-file with and without its optional parts, that to get-dir, an edit, *)
(* and failures.                                                           *)
(***************************************************************************)
EXTENDS Unpack

\* Tokens: a number, a word, a string, a list of what has tokens.
Tok(ts, text, size) == <<[ts |-> ts, text |-> text, size |-> size]>>
Num(digits) == Tok("NUM_OUT", digits, <<>>)
Word(letters) == Tok("TOK_OUT", letters, <<>>)
Str(text) == Tok("STRING_OUT", text, <<CHOOSE d \in Digit : DigitOf[d] = Len(text)>>)
List(parts) ==
  Tok("LIST_START", <<"(", " ">>, <<>>) \o FlattenSeq(parts) \o Tok("LIST_END", <<")", " ">>, <<>>)

n(digits) == <<"n", Number(digits)>>
s(text) == <<"s", text>>
w(letters) == <<"w", letters>>
none == <<"none">>

\* Strings that look like tokens.
Paren == <<")">>
Blank == <<"2", " ">>
Twelve == <<"1", "2">>

Exchange(todo, tokens, wanted, out) ==
  [calls |-> todo, tokens |-> tokens, wanted |-> wanted, outcome |-> out]

Answered(parts) == List(<<Word(Success), List(parts)>>)

Greeting ==
  Exchange(<<Response(Setup)>>,
           Answered(<<Num(<<"2">>), Num(Twelve), List(<<>>), List(<<Word(<<"e", "d">>), Word(<<"s">>)>>)>>),
           <<w(Success), n(<<"2">>), n(Twelve), w(<<"e", "d">>), w(<<"s">>)>>, "ok")

\* The challenge follows, with a token or without.
Authentication(token) ==
  Exchange(<<Response(CheckAuth), Response(Challenge)>>,
           Answered(<<List(<<Word(<<"a">>)>>), Str(<<>>)>>)
             \o Answered(IF token = none THEN <<>> ELSE <<Str(token[2])>>),
           <<w(Success), w(<<"a">>), s(<<>>), w(Success), token>>, "ok")

\* get-file: a checksum or none, properties, inherited ones or none; contents.
File(checksum, props, inherited, contents) ==
  Exchange(<<Response(GetFile), Unpacks(Contents), Response(Empty)>>,
           Answered(<<List(IF checksum = none THEN <<>> ELSE <<Str(checksum[2])>>),
                      Num(Twelve),
                      List([i \in DOMAIN props |-> List(<<Str(props[i][1]), Str(props[i][2])>>)])>>
                    \o (IF inherited THEN <<List(<<>>)>> ELSE <<>>))
             \o FlattenSeq([i \in DOMAIN contents |-> Str(contents[i])]) \o Str(<<>>)
             \o Answered(<<>>),
           <<w(Success), checksum, n(Twelve)>>
             \o FlattenSeq([i \in DOMAIN props |-> <<s(props[i][1]), s(props[i][2])>>])
             \o [i \in DOMAIN contents |-> s(contents[i])] \o <<w(Success)>>, "ok")

\* get-dir refuses every answer where the list of its properties ends.
Directory(props) ==
  Exchange(<<Response(GetDir)>>,
           Answered(<<Num(<<"3">>), List([i \in DOMAIN props |-> List(<<Str(props[i]), Str(Blank)>>)]),
                      List(<<List(<<Str(<<"f">>), Word(<<"f">>), Num(Twelve), Word(<<"f">>),
                                    Num(<<"3">>), List(<<>>), List(<<>>)>>)>>)>>),
           <<>>, "failed")

Command(c, parts) == List(<<Word(c), List(parts)>>)

\* add-dir with a source it is copied from, or without one.
Edit(copied) ==
  Exchange(<<Unpacks(EditorLoop)>>,
           Command(TargetRev, <<Num(<<"3">>)>>)
             \o Command(AddDir, <<Str(<<"d">>), Str(<<>>), Str(<<"t">>),
                                  List(IF copied THEN <<Str(<<"c">>), Num(<<"2">>)>> ELSE <<>>)>>)
             \o (IF copied THEN Command(TextdeltaChunk, <<Str(<<"t">>), Str(Blank)>>) ELSE <<>>)
             \o Command(CloseFile, <<Str(<<"t">>), List(<<Str(Paren)>>)>>)
             \o Command(CloseEdit, <<>>),
           <<w(TargetRev), n(<<"3">>), w(AddDir), s(<<"d">>), s(<<>>), s(<<"t">>)>>
             \o (IF copied THEN <<s(<<"c">>), n(<<"2">>), w(TextdeltaChunk), s(<<"t">>), s(Blank)>>
                 ELSE <<none, n(<<"0">>)>>)
             \o <<w(CloseFile), s(<<"t">>), s(Paren), w(CloseEdit)>>, "ok")

Failed(errors) ==
  Exchange(<<Response(LatestRev)>>,
           List(<<Word(Failure),
                  List([i \in DOMAIN errors |->
                          List(<<Num(Twelve), Str(errors[i]), Str(<<"f">>), Num(<<"0">>)>>)])>>),
           <<w(Failure)>>
             \o FlattenSeq([i \in DOMAIN errors |-> <<n(Twelve), s(errors[i]), s(<<"f">>), n(<<"0">>)>>]),
           IF errors = <<>> THEN "ok" ELSE "refused")

\* What the client must refuse: a status or a command it does not know, a
\* string for a number, a parenthesis within a number.
Refused(call, tokens) == Exchange(<<call>>, tokens, <<>>, "failed")

Malformed ==
  {Refused(Response(LatestRev), List(<<Word(<<"e">>), List(<<>>)>>)),
    Refused(Unpacks(EditorLoop), Command(<<"f">>, <<>>)),
    Refused(Response(LatestRev), Answered(<<Str(Paren)>>)),
    Refused(Response(LatestRev), Answered(<<Tok("LIST_END", Paren, <<>>)>>)),
    Refused(Response(LatestRev), Answered(<<Tok("BAD", <<"1", "(">>, <<>>)>>))}

MCExchanges ==
  {Greeting, Authentication(none), Authentication(s(Paren)),
    File(none, <<>>, FALSE, <<>>),
    File(s(Paren), <<<<Blank, <<>>>>, <<<<"e">>, Paren>>>>, TRUE, <<Blank, Paren>>),
    Directory(<<>>), Directory(<<Paren>>),
    Edit(TRUE), Edit(FALSE), Failed(<<>>), Failed(<<Blank, Paren>>)} \cup Malformed

=============================================================================
