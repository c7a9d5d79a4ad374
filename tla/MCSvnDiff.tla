----------------------------- MODULE MCSvnDiff -----------------------------
(***************************************************************************)
(* Documents over a base of two letters: every window of up to two         *)
(* instructions and some of three, windows that are a byte too short or    *)
(* too long for their instructions, and documents of two windows.  What is *)
(* read out of step is nothing, windows too short for a copy and for a new *)
(* piece, one that has less new data than it asks for, and a right one.    *)
(***************************************************************************)
EXTENDS SvnDiff, FiniteSets

Base == <<7, 8>>

Ins(c, o, l) == [code |-> c, offset |-> o, len |-> l]

Sources == {Ins(SVN_TXDELTA_SOURCE, o, l) : o \in {0, 1}, l \in {1, 2}}
News == {Ins(SVN_TXDELTA_NEW, 0, l) : l \in {1, 2}}
Targets == {Ins(SVN_TXDELTA_TARGET, o, l) : o \in {0, 1}, l \in {1, 3}}

Some == {Ins(SVN_TXDELTA_SOURCE, 0, 2), Ins(SVN_TXDELTA_NEW, 0, 1),
         Ins(SVN_TXDELTA_TARGET, 0, 1), Ins(SVN_TXDELTA_TARGET, 1, 3)}

Insns ==
  LET all == Sources \cup News \cup Targets
  IN  {<< >>} \cup {<<i>> : i \in all} \cup {<<i, j>> : i, j \in all}
        \cup {<<i, j, k>> : i, j, k \in Some}

Total(is) == FoldLeft(LAMBDA n, i : n + i.len, 0, is)
NewBytes(is) ==
  LET n == FoldLeft(LAMBDA m, i : IF i.code = SVN_TXDELTA_NEW THEN m + i.len ELSE m, 0, is)
  IN  [k \in 1..n |-> 10 + k]

Over(is, tl, so) ==
  [so |-> so, sl |-> Len(Base) - so, tl |-> tl, insns |-> is, new |-> NewBytes(is)]

Right == {Over(is, Total(is), 0) : is \in Insns}
Wrong ==
  {Over(is, n, 1) : is \in {<<i, j>> : i, j \in Some}, n \in 1..3}
    \cup {Over(<<Ins(3, 0, 1)>>, 1, 0)}

Pairs ==
  LET first == {Over(is, Total(is), 0) : is \in {<<i, j>> : i, j \in Some}}
      second == Over(<<Ins(SVN_TXDELTA_NEW, 0, 2), Ins(SVN_TXDELTA_SOURCE, 0, 1)>>, 3, 1)
  IN  {<<w, second>> : w \in first}

Docs ==
  {[base |-> Base, windows |-> ws] :
     ws \in {<< >>} \cup {<<w>> : w \in Right \cup Wrong} \cup Pairs}

Taken(is, tl, new) ==
  [so |-> 1, sl |-> 0, tl |-> tl, insl |-> 4, newl |-> 2, insns |-> is, new |-> new]

Misreads ==
  {<< >>,
   <<Taken(<<Ins(SVN_TXDELTA_SOURCE, 0, 1), Ins(SVN_TXDELTA_TARGET, 0, 2)>>, 2, << >>)>>,
   <<Taken(<<Ins(SVN_TXDELTA_NEW, 0, 2)>>, 1, <<20, 21>>),
     Taken(<<Ins(SVN_TXDELTA_NEW, 0, 2)>>, 3, <<22>>)>>,
   <<Taken(<<Ins(SVN_TXDELTA_NEW, 0, 1), Ins(SVN_TXDELTA_TARGET, 0, 1)>>, 3, <<23>>)>>}

=============================================================================
