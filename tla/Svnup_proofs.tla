---------------------------- MODULE Svnup_proofs ----------------------------
(***************************************************************************)
(* Theorems about Svnup, for every repository, every number of faults and  *)
(* every set of paths.                                                     *)
(***************************************************************************)
EXTENDS Svnup, TLAPS

-----------------------------------------------------------------------------
(***************************************************************************)
(* The trees of the model.                                                 *)
(***************************************************************************)
LEMMA NodeTypes ==
  /\ Absent \in Node /\ Dir \in Node
  /\ \A t \in Text \cup {Torn, NoText}, x \in BOOLEAN : File(t, x) \in Node /\ Link(t) \in Node
BY DEF Node, Kinds, Absent, Dir, File, Link

LEMMA NodeFields ==
  ASSUME NEW n \in Node
  PROVE  /\ n.kind \in Kinds
         /\ n.text \in Text \cup {Torn, NoText}
         /\ n.exec \in BOOLEAN
         /\ n.kind = "none" => n = Absent
         /\ n.kind = "dir" => n = Dir
<1>1. CASE n = Absent
  BY <1>1, Absent.kind = "none" DEF Kinds, Absent
<1>2. CASE n = Dir
  BY <1>2, Dir.kind = "dir" DEF Kinds, Dir
<1>3. CASE n \in [kind : {"file", "link"}, text : Text \cup {Torn, NoText}, exec : BOOLEAN]
  BY <1>3 DEF Kinds
<1>4. QED
  BY <1>1, <1>2, <1>3 DEF Node

LEMMA TreeTypes ==
  ASSUME NEW t, IsTree(t), NEW p \in Path
  PROVE  /\ t[p] \in Node
         /\ t[p].text \in Text \cup {NoText}
         /\ IsEntry(t[p]) => t[p].text \in Text
         /\ t[p].text # Torn
<1>1. t[p] \in Node
  BY DEF IsTree
<1>2. t[p].kind \in {"none", "dir"} => t[p].text = NoText
  BY <1>1, NodeFields DEF Absent, Dir
<1>3. IsEntry(t[p]) => t[p].text \in Text
  BY DEF IsTree
<1>4. t[p].kind \in {"none", "dir", "file", "link"}
  BY <1>1, NodeFields DEF Kinds
<1>5. QED
  BY <1>1, <1>2, <1>3, <1>4, TextAssumption DEF IsEntry

LEMMA ReportedIsTree == \A r : IsTree(ReportedTree(r))
<1>1. IsTree(EmptyTree)
  BY NodeTypes DEF IsTree, EmptyTree, Absent, IsEntry
<1>2. QED
  BY <1>1, RevAssumption DEF ReportedTree

LEMMA RunTrees ==
  ASSUME run \in Run
  PROVE  IsTree(Source) /\ IsTree(Target)
BY ReportedIsTree, RevAssumption DEF Run, Source, Target

-----------------------------------------------------------------------------
(***************************************************************************)
(* Type correctness.  It rests on the file being edited: it has a path as  *)
(* long as commands for it are owed.                                       *)
(***************************************************************************)
DocOK ==
  \/ doc = NoDoc /\ owed = {}
  \/ doc.path \in Path /\ phase = "edit"

TypeInv == TypeOK /\ DocOK

LEMMA TypeInit == Init => TypeInv
<1> SUFFICES ASSUME Init PROVE TypeInv
  OBVIOUS
<1>1. local \in [Path -> Node] /\ db \in [Path -> Text \cup {NoText}]
  BY NodeTypes DEF Init, EmptyTree
<1>2. run \in Run /\ doc \in Doc
  <2>1. PICK r \in Rev :
          run = [from |-> NoRev, to |-> r, tolerant |-> FALSE, repair |-> FALSE]
    BY DEF Init
  <2>2. run \in Run
    BY <2>1 DEF Run
  <2>3. doc \in Doc
    BY DEF Init, Doc, NoDoc, NoPath
  <2>4. QED
    BY <2>2, <2>3
<1>3. stops \in 0..MaxStops /\ mods \in 0..MaxMods
  BY BoundAssumption DEF Init
<1>4. QED
  BY <1>1, <1>2, <1>3
     DEF Init, TypeInv, TypeOK, EditTypeOK, DocOK, Phases, FileCommands

LEMMA EditTypes ==
  ASSUME EditTypeOK, NEW p \in Path
  PROVE  /\ local[p] \in Node /\ Source[p] \in Node /\ Target[p] \in Node
         /\ Source[p].text \in Text \cup {NoText} /\ Target[p].text \in Text \cup {NoText}
         /\ Opened(p) \in Node /\ Opened(p).text \in Text \cup {NoText}
         /\ IsEntry(Source[p]) => Source[p].text \in Text
         /\ IsEntry(Target[p]) => Target[p].text \in Text
<1>1. IsTree(Source) /\ IsTree(Target)
  BY RunTrees DEF EditTypeOK
<1>2. Opened(p) \in {Source[p], Absent}
  BY DEF Opened
<1>3. Absent \in Node /\ Absent.text = NoText
  BY NodeTypes DEF Absent
<1>4. QED
  BY <1>1, <1>2, <1>3, TreeTypes DEF EditTypeOK

LEMMA CheckedOutTypes ==
  ASSUME NEW f \in Node, NEW d \in Doc
  PROVE  CheckedOut(f, d) \in Node
BY NodeTypes, NodeFields DEF CheckedOut, Doc

\* The part of the type of the editor's state that a command may change.
LEMMA TypeError ==
  ASSUME TypeInv, Error, local' \in [Path -> Node]
  PROVE  EditTypeOK' /\ DocOK'
<1>1. NoDoc \in Doc
  BY DEF Doc, NoDoc, NoPath
<1>2. QED
  BY <1>1 DEF TypeInv, TypeOK, EditTypeOK, DocOK, Error, driveVars, Phases, FileCommands

LEMMA TypeErrorLeaving ==
  ASSUME TypeInv, NEW p \in Path, NEW n \in Node, ErrorLeaving(p, n)
  PROVE  EditTypeOK' /\ DocOK'
<1>1. local' \in [Path -> Node]
  BY DEF ErrorLeaving, TypeInv, TypeOK, EditTypeOK
<1>2. QED
  BY <1>1, TypeError DEF ErrorLeaving

LEMMA TypeDeleteEntry ==
  ASSUME TypeInv, NEW p \in Path, DeleteEntry(p)
  PROVE  EditTypeOK' /\ DocOK'
<1> USE DEF DeleteEntry, TypeInv, TypeOK, EditTypeOK
<1>1. local' \in [Path -> Node]
  BY NodeTypes
<1>2. db' \in [Path -> Text \cup {NoText}]
  OBVIOUS
<1>3. QED
  BY <1>1, <1>2 DEF DocOK, docVars, BetweenFiles, Editing

LEMMA TypeMakeDir ==
  ASSUME TypeInv, NEW p \in Path, DirCommand(p), MakeDir(p)
  PROVE  EditTypeOK' /\ DocOK'
<1> USE DEF MakeDir, TypeInv, TypeOK, EditTypeOK
<1>1. local' \in [Path -> Node]
  BY NodeTypes
<1>2. mine' \subseteq Path
  BY DEF Settle
<1>3. QED
  BY <1>1, <1>2 DEF DocOK, docVars, DirCommand, BetweenFiles, Editing

LEMMA TypeDirs ==
  ASSUME TypeInv, NEW p \in Path, AddDir(p) \/ OpenDir(p)
  PROVE  EditTypeOK' /\ DocOK'
<1>1. DirCommand(p) /\ local[p] \in Node
  BY EditTypes DEF AddDir, OpenDir, TypeInv, TypeOK
<1>2. CASE MakeDir(p)
  BY <1>1, <1>2, TypeMakeDir
<1>3. CASE ErrorLeaving(p, local[p])
  BY <1>1, <1>3, TypeErrorLeaving
<1>4. CASE upds' = upds \ {p} /\ UNCHANGED <<treeVars, phase, run, dels, docVars>>
  BY <1>1, <1>4 DEF TypeInv, TypeOK, EditTypeOK, DocOK, treeVars, docVars
<1>5. QED
  BY <1>2, <1>3, <1>4 DEF AddDir, OpenDir

LEMMA TypeBegin ==
  ASSUME TypeInv, NEW p \in Path, FileCommand(p), NEW d \in Doc, Begin(p, d),
         local' \in [Path -> Node], mine' \subseteq Path
  PROVE  EditTypeOK' /\ DocOK'
<1> USE DEF TypeInv, TypeOK, EditTypeOK, Begin
<1>1. doc' \in Doc /\ doc'.path = p
  BY DEF Doc
<1>2. owed' \subseteq FileCommands
  BY DEF Owed, FileCommands
<1>3. QED
  BY <1>1, <1>2 DEF DocOK, FileCommand, BetweenFiles, Editing

LEMMA TypeFiles ==
  ASSUME TypeInv, NEW p \in Path, AddFile(p) \/ OpenFile(p)
  PROVE  EditTypeOK' /\ DocOK'
<1>1. FileCommand(p) /\ local[p] \in Node /\ Source[p] \in Node
  BY EditTypes DEF AddFile, OpenFile, TypeInv, TypeOK
<1>2. NoDoc \in Doc
  BY DEF Doc, NoDoc, NoPath
<1>3. CASE Begin(p, NoDoc) /\ UNCHANGED <<local, mine>>
  BY <1>1, <1>2, <1>3, TypeBegin DEF TypeInv, TypeOK, EditTypeOK
<1>4. CASE /\ local' = [local EXCEPT ![p] = CheckedOut(Source[p], NoDoc)]
           /\ Settle(p, local'[p])
           /\ Begin(p, [NoDoc EXCEPT !.exec = Source[p].exec,
                                     !.special = Source[p].kind = "link"])
  <2>1. [NoDoc EXCEPT !.exec = Source[p].exec, !.special = Source[p].kind = "link"] \in Doc
    BY <1>1, NodeFields DEF Doc, NoDoc, NoPath
  <2>2. local' \in [Path -> Node]
    BY <1>1, <1>2, <1>4, CheckedOutTypes DEF TypeInv, TypeOK, EditTypeOK
  <2>3. mine' \subseteq Path
    BY <1>4 DEF Settle, TypeInv, TypeOK, EditTypeOK
  <2>4. QED
    BY <1>1, <1>4, <2>1, <2>2, <2>3, TypeBegin
<1>5. CASE ErrorLeaving(p, local[p]) \/ ErrorLeaving(p, Absent)
  BY <1>1, <1>5, NodeTypes, TypeErrorLeaving
<1>6. QED
  BY <1>3, <1>4, <1>5 DEF AddFile, OpenFile

LEMMA TypeDocCommands ==
  ASSUME TypeInv, NEW name,
         ApplyTextdelta \/ TextdeltaChunk \/ ChangeFileProp(name)
  PROVE  EditTypeOK' /\ DocOK'
<1> USE DEF TypeInv, TypeOK, EditTypeOK
<1>1. doc.path \in Path /\ phase = "edit"
  BY DEF ApplyTextdelta, TextdeltaChunk, ChangeFileProp, DocOK
<1>2. CASE ApplyTextdelta
  <2>1. Opened(doc.path).text \in Text \cup {NoText}
    BY <1>1, EditTypes
  <2>2. doc' \in Doc /\ doc'.path = doc.path
    BY <1>2, <2>1 DEF ApplyTextdelta, Doc
  <2>3. QED
    BY <1>1, <1>2, <2>2 DEF ApplyTextdelta, DocOK, treeVars, driveVars, FileCommands
<1>3. CASE TextdeltaChunk
  <2>1. doc' \in Doc /\ doc'.path = doc.path
    BY <1>3 DEF TextdeltaChunk, Doc
  <2>2. QED
    BY <1>1, <1>3, <2>1 DEF TextdeltaChunk, DocOK, treeVars, driveVars
<1>4. CASE ChangeFileProp(name)
  <2>1. Target[doc.path].exec \in BOOLEAN
    BY <1>1, EditTypes, NodeFields
  <2>2. doc' \in Doc /\ doc'.path = doc.path
    BY <1>4, <2>1 DEF ChangeFileProp, Doc
  <2>3. QED
    BY <1>1, <1>4, <2>2 DEF ChangeFileProp, DocOK, treeVars, driveVars
<1>5. QED
  BY <1>2, <1>3, <1>4

LEMMA TypeEditComplete ==
  ASSUME TypeInv, Closing, NEW n \in Node, EditComplete(n)
  PROVE  EditTypeOK' /\ DocOK'
<1> USE DEF TypeInv, TypeOK, EditTypeOK, Closing, EditComplete
<1>1. doc.path \in Path
  BY DEF DocOK
<1>2. Wanted.text \in Text \cup {NoText}
  BY <1>1, EditTypes DEF Wanted
<1>3. local' \in [Path -> Node] /\ db' \in [Path -> Text \cup {NoText}]
  BY <1>1, <1>2
<1>4. mine' \subseteq Path
  BY DEF Settle
<1>5. NoDoc \in Doc
  BY DEF Doc, NoDoc, NoPath
<1>6. QED
  BY <1>3, <1>4, <1>5 DEF DocOK, driveVars

LEMMA TypeCloseFile ==
  ASSUME TypeInv, CloseFile
  PROVE  EditTypeOK' /\ DocOK'
<1>1. Closing /\ doc.path \in Path /\ doc \in Doc /\ doc.exec \in BOOLEAN
  BY DEF CloseFile, Closing, TypeInv, TypeOK, EditTypeOK, DocOK, Doc
<1>2. /\ Here \in Node /\ Wanted \in Node /\ Left \in Node
      /\ Wanted.text \in Text \cup {NoText}
  BY <1>1, EditTypes, NodeTypes DEF Here, Wanted, Left, TypeInv, TypeOK
<1>3. CASE EditComplete(Here) \/ EditComplete(Left) \/ EditComplete(CheckedOut(Wanted, doc))
  BY <1>1, <1>2, <1>3, CheckedOutTypes, TypeEditComplete
<1>4. CASE ErrorLeaving(doc.path, Left)
  BY <1>1, <1>2, <1>4, TypeErrorLeaving
<1>5. CASE EditComplete(Link(Wanted.text))
  BY <1>1, <1>2, <1>5, NodeTypes, TypeEditComplete
<1>6. CASE CloseWrite
  <2> DEFINE t == CASE doc.delta # "none" -> Wanted.text
                    [] doc.delta = "none" /\ IsFile(Left) -> Left.text
                    [] OTHER -> Empty
  <2>1. t \in Text \cup {Torn, NoText}
    BY <1>2, NodeFields, TextAssumption
  <2>2. File(t, doc.exec) \in Node
    BY <1>1, <2>1, NodeTypes
  <2>3. EditComplete(File(t, doc.exec))
    BY <1>6 DEF CloseWrite
  <2>4. QED
    BY <1>1, <2>2, <2>3, TypeEditComplete
<1>7. QED
  BY <1>3, <1>4, <1>5, <1>6
     DEF CloseFile, CloseAlreadyTarget, CloseTolerated, CloseCheckout, CloseBadDelta,
         CloseSymlink, CloseRelink

LEMMA TypeEditCommand ==
  ASSUME TypeInv, EditCommand
  PROVE  EditTypeOK' /\ DocOK'
BY TypeDeleteEntry, TypeDirs, TypeFiles, TypeDocCommands, TypeCloseFile DEF EditCommand

LEMMA TypeStop ==
  ASSUME TypeInv, Stop, local' \in [Path -> Node]
  PROVE  EditTypeOK' /\ DocOK'
<1>1. NoDoc \in Doc
  BY DEF Doc, NoDoc, NoPath
<1>2. QED
  BY <1>1 DEF TypeInv, TypeOK, EditTypeOK, DocOK, Stop, driveVars, Phases, FileCommands

LEMMA HalfWrittenTypes ==
  ASSUME NEW t \in Text \cup {NoText}, NEW n \in Node, doc \in Doc
  PROVE  HalfWritten(t, n) \subseteq Node
<1>1. n.exec \in BOOLEAN /\ doc.exec \in BOOLEAN
  BY NodeFields DEF Doc
<1>2. QED
  BY <1>1, NodeTypes, TextAssumption DEF HalfWritten

LEMMA TypeStopInEdit ==
  ASSUME TypeInv, StopInEdit
  PROVE  EditTypeOK' /\ DocOK'
<1> USE DEF TypeInv, TypeOK, EditTypeOK
<1>1. CASE StopInCloseFile
  <2>1. doc.path \in Path
    BY <1>1 DEF StopInCloseFile, Closing, DocOK
  <2>2. Here \in Node /\ Wanted \in Node /\ Wanted.text \in Text \cup {NoText}
    BY <2>1, EditTypes DEF Here, Wanted
  <2>3. HalfWritten(Wanted.text, Here) \subseteq Node
    BY <2>2, HalfWrittenTypes
  <2>4. File(Empty, doc.exec) \in Node
    BY NodeTypes, TextAssumption DEF Doc
  <2>5. CloseHalfway \subseteq Node
    <3>1. BeingWritten \subseteq Node
      BY <2>3, <2>4 DEF BeingWritten
    <3>2. MakesLink => Link(Wanted.text) \in Node
      BY NodeTypes, TextAssumption DEF MakesLink
    <3>3. QED
      BY <2>2, <3>1, <3>2, NodeTypes DEF CloseHalfway
  <2>6. local' \in [Path -> Node]
    BY <1>1, <2>5 DEF StopInCloseFile
  <2>7. QED
    BY <1>1, <2>6, TypeStop DEF StopInCloseFile
<1>2. ASSUME NEW p \in Path, StopInOpenFile(p) PROVE EditTypeOK' /\ DocOK'
  <2>1. HalfWritten(Source[p].text, Source[p]) \subseteq Node
    BY EditTypes, HalfWrittenTypes
  <2>2. local' \in [Path -> Node]
    BY <1>2, <2>1 DEF StopInOpenFile
  <2>3. QED
    BY <1>2, <2>2, TypeStop DEF StopInOpenFile
<1>3. ASSUME NEW p \in Path, StopInDeleteEntry(p) PROVE EditTypeOK' /\ DocOK'
  <2>1. local' \in [Path -> Node]
    BY <1>3, NodeTypes DEF StopInDeleteEntry
  <2>2. QED
    BY <1>3, <2>1, TypeStop DEF StopInDeleteEntry
<1>4. CASE Stop /\ UNCHANGED local
  BY <1>4, TypeStop
<1>5. QED
  BY <1>1, <1>2, <1>3, <1>4 DEF StopInEdit

LEMMA TypeStart ==
  ASSUME TypeInv, NEW to \in Rev, NEW o \in Options, Start(to, o)
  PROVE  TypeInv'
<1> DEFINE recorded == IF o.clear THEN NoRev ELSE revfile
           from == IF recorded \in Rev THEN recorded ELSE NoRev
<1> USE DEF TypeInv, TypeOK, EditTypeOK, Start
<1>1. run' \in Run
  <2>1. from \in Rev \cup {NoRev} /\ o.tolerant \in BOOLEAN /\ o.repair \in BOOLEAN
    BY DEF Options
  <2>2. QED
    BY <2>1 DEF Run
<1>2. db' \in [Path -> Text \cup {NoText}]
  OBVIOUS
<1>3. dels' \subseteq Path /\ upds' \subseteq Path
  BY DEF Deleted, Updated
<1>4. DocOK'
  BY DEF DocOK, docVars
<1>5. QED
  BY <1>1, <1>2, <1>3, <1>4 DEF docVars, countVars, Phases

LEMMA TypeCheckFile ==
  ASSUME TypeInv, NEW p \in Path, CheckFile(p)
  PROVE  TypeInv'
<1> USE DEF TypeInv, TypeOK, EditTypeOK, CheckFile
<1>1. local' \in [Path -> Node] /\ mine' \subseteq Path
  <2>1. Target[p].exec \in BOOLEAN /\ local[p].exec \in BOOLEAN
    BY EditTypes, NodeFields
  <2>2. File(Target[p].text, Target[p].exec \/ local[p].exec) \in Node
    BY <2>1, EditTypes, NodeTypes
  <2>3. Restored(p) \in [Path -> Node]
    BY <2>2, NodeTypes DEF Restored
  <2>4. QED
    BY <2>3, NodeTypes DEF treeVars, Settle
<1>2. db' \in [Path -> Text \cup {NoText}]
  BY DEF treeVars
<1>3. phase' \in Phases
  BY DEF Phases
<1>4. DocOK'
  BY DEF DocOK, docVars
<1>5. QED
  BY <1>1, <1>2, <1>3, <1>4 DEF driveVars, docVars, fileVars, countVars

LEMMA TypeFromStop ==
  ASSUME TypeInv, Signal
  PROVE  stops' \in 0..MaxStops /\ cacheOK' \in BOOLEAN
<1>1. stops' \in 0..MaxStops
  BY BoundAssumption DEF TypeInv, TypeOK, Signal
<1>2. cacheOK' \in BOOLEAN
  BY Zenon DEF TypeInv, TypeOK, Signal
<1>3. QED
  BY <1>1, <1>2

LEMMA TypeStoppedInIntegrity ==
  ASSUME TypeInv, StoppedInIntegrity
  PROVE  TypeInv'
<1> USE DEF TypeInv, TypeOK, EditTypeOK, StoppedInIntegrity
<1>1. ASSUME NEW p \in checks, NeedFile(p), IsEntry(Target[p]), HalfRestored(p)
      PROVE  local' \in [Path -> Node]
  <2>1. ASSUME NEW made, local' = [q \in Path |-> IF q \in made THEN Dir ELSE local[q]]
        PROVE  local' \in [Path -> Node]
    BY <2>1, NodeTypes
  <2>2. ASSUME NEW t \in {Empty, Torn, Target[p].text},
               local' = [Restored(p) EXCEPT ![p] = File(t, local[p].exec)]
        PROVE  local' \in [Path -> Node]
    <3>1. Target[p].exec \in BOOLEAN /\ local[p].exec \in BOOLEAN
      BY EditTypes, NodeFields
    <3>2. /\ File(Target[p].text, Target[p].exec \/ local[p].exec) \in Node
          /\ File(t, local[p].exec) \in Node
      BY <3>1, EditTypes, NodeTypes, TextAssumption
    <3>3. Restored(p) \in [Path -> Node]
      BY <3>2, NodeTypes DEF Restored
    <3>4. QED
      BY <2>2, <3>2, <3>3
  <2>3. QED
    BY <1>1, <2>1, <2>2 DEF HalfRestored
<1>2. DocOK'
  BY DEF DocOK, docVars
<1>3. local' \in [Path -> Node] /\ db' \in [Path -> Text \cup {NoText}]
  BY <1>1
<1>4. QED
  BY <1>2, <1>3, TypeFromStop DEF driveVars, docVars, Phases

LEMMA TypeModify ==
  ASSUME TypeInv, NEW p \in Path, Modify(p)
  PROVE  TypeInv'
<1> USE DEF TypeInv, TypeOK, EditTypeOK, Modify
<1>1. UserNodes(p) \subseteq Node
  <2>1. local[p].exec \in BOOLEAN
    BY EditTypes, NodeFields
  <2>2. /\ \A t \in LinkText : Link(t) \in Node
        /\ \A t \in Text : File(t, local[p].exec) \in Node
    BY <2>1, NodeTypes, TextAssumption
  <2>3. QED
    BY <2>2, NodeTypes DEF UserNodes
<1>2. local' \in [Path -> Node]
  BY <1>1
<1>3. mods' \in 0..MaxMods
  BY BoundAssumption
<1>4. QED
  BY <1>2, <1>3 DEF DocOK, driveVars, docVars, fileVars

LEMMA TypeStep == TypeInv /\ [Next]_vars => TypeInv'
<1> SUFFICES ASSUME TypeInv, [Next]_vars PROVE TypeInv'
  OBVIOUS
<1> USE DEF TypeInv, TypeOK
<1>1. CASE UNCHANGED vars
  BY <1>1 DEF vars, editVars, treeVars, driveVars, docVars, fileVars, countVars,
             EditTypeOK, DocOK
<1>2. CASE EditStep
  BY <1>2, TypeEditCommand DEF EditStep, fileVars, countVars
<1>3. CASE CloseEdit
  <2>1. doc = NoDoc /\ owed = {}
    BY <1>3, PathAssumption DEF CloseEdit, BetweenFiles, DocOK, NoDoc, NoPath
  <2>2. QED
    BY <1>3, <2>1 DEF CloseEdit, EditTypeOK, DocOK, treeVars, driveVars, docVars,
                      fileVars, countVars, Phases
<1>4. CASE Finish
  BY <1>4 DEF Finish, EditTypeOK, DocOK, treeVars, driveVars, docVars, countVars,
             Phases, Run
<1>5. CASE Quit
  BY <1>5 DEF Quit, EditTypeOK, DocOK, treeVars, docVars, fileVars, countVars, Phases
<1>6. CASE StoppedInEdit
  BY <1>6, TypeStopInEdit, TypeFromStop DEF StoppedInEdit
<1>7. CASE StoppedInFinish
  BY <1>7, TypeFromStop DEF StoppedInFinish, EditTypeOK, DocOK, treeVars, driveVars,
                            docVars, Phases, Run
<1>8. QED
  BY <1>1, <1>2, <1>3, <1>4, <1>5, <1>6, <1>7,
     TypeStart, TypeCheckFile, TypeStoppedInIntegrity, TypeModify
     DEF Next, Program, Environment

(***************************************************************************)
(* Every variable keeps its type: in particular no checksum of a torn file *)
(* is ever saved, and a file that is being edited is one of the tree.      *)
(***************************************************************************)
THEOREM TypeCorrect == Spec => []TypeOK
<1>1. Spec => []TypeInv
  BY TypeInit, TypeStep, PTL DEF Spec
<1>2. TypeInv => TypeOK
  BY DEF TypeInv
<1>3. QED
  BY <1>1, <1>2, PTL

-----------------------------------------------------------------------------
(***************************************************************************)
(* The inductive invariant behind RecordedTree.  From is the tree the last *)
(* finished run left, To the one an unfinished run was on its way to.      *)
(***************************************************************************)
From == ReportedTree(revfile)
To == Repo[pending]

\* What a run knows of: with -C a run takes nothing to be there, and what an
\* earlier one has left where neither tree has an entry can be anything.
Counts(n) == "clear" \in Scenario => n.kind # "none"

\* What an unfinished run may have made of a path.
Partial(p, s, t) ==
  /\ Counts(t[p]) /\ Same(s[p], t[p]) => Same(local[p], t[p])
  /\ Counts(s[p]) => local[p].kind \in {"none", s[p].kind, t[p].kind}

\* A path the edit has still to come to, once what it replaces is deleted.
Ready(p) ==
  /\ Counts(Target[p]) /\ Same(Source[p], Target[p]) => Same(local[p], Target[p])
  /\ Counts(Source[p]) => local[p].kind \in {"none", Target[p].kind}

\* A path the edit is done with.
Done(p) == Counts(Source[p]) \/ Counts(Target[p]) => Same(local[p], Target[p])

\* Only a repair stage that cannot fetch a file forgets its checksum.
MayForget == {"repair", "getfile"} \subseteq Scenario
CacheOK(p, n) ==
  IsFile(n) => db[p] = n.text \/ (MayForget /\ db[p] = NoText)

CachePartial(p, s, t) == Same(s[p], t[p]) => CacheOK(p, t[p])

\* p is to be deleted, with a directory above it or by itself.
Doomed(p) == ({p} \cup Above(p)) \cap dels # {}

AtRest ==
  /\ \A p \in Path \ mine : Counts(From[p]) => Same(local[p], From[p])
  /\ \A p \in Path : CacheOK(p, From[p])

Unfinished ==
  /\ \A p \in Path \ mine : Partial(p, From, To)
  /\ \A p \in Path : CachePartial(p, From, To)

Aligned == Source = From /\ run.to = pending

EditSets ==
  /\ dels \subseteq Deleted(Source, Target)
  /\ upds \subseteq Updated(Source, Target)
  /\ \A p \in Path : Doomed(p) /\ Target[p].kind # "none" => p \in upds

EditPaths ==
  \A p \in Path \ mine :
    IF Doomed(p) THEN Partial(p, Source, Target)
    ELSE IF p \in upds \/ p = doc.path THEN Ready(p)
    ELSE Done(p)

EditCache ==
  \A p \in Path :
    IF p \in upds \/ p = doc.path THEN CachePartial(p, Source, Target)
    ELSE CacheOK(p, Target[p])

EditTolerant ==
  run.tolerant =>
    \A p \in Path \ mine :
      (p \in upds \/ p = doc.path) /\ Source[p].kind = Target[p].kind
        => Same(local[p], Source[p])

EditDoc ==
  doc # NoDoc =>
    LET p == doc.path IN
    /\ p \in Path \ upds /\ ~Doomed(p) /\ IsEntry(Target[p]) /\ Source[p] # Target[p]
    /\ Source[p].kind = Target[p].kind => local[p].kind # "none"
    /\ doc.base \in {NoText, Opened(p).text}
    /\ doc.special => Target[p].kind = "link"
    /\ Target[p].kind = "link" /\ Source[p].kind # "link" => doc.special \/ "special" \in owed
    /\ "special" \in owed => Target[p].kind = "link"
    /\ "textdelta-chunk" \in owed => doc.base = Opened(p).text
    /\ Same(Source[p], Target[p]) =>
         doc.delta = "none" /\ doc.base = NoText
           /\ owed \cap {"apply-textdelta", "textdelta-chunk"} = {}
    /\ ~Same(Source[p], Target[p]) =>
         \/ doc.delta # "none"
         \/ owed \cap {"apply-textdelta", "textdelta-chunk"} # {}
    /\ doc.delta # "none" => doc.base = Opened(p).text

EditInv == Aligned /\ EditSets /\ EditPaths /\ EditCache /\ EditTolerant /\ EditDoc

IntegrityInv ==
  /\ Aligned
  /\ \A p \in Path \ mine : Done(p)
  /\ \A p \in Path : CacheOK(p, Target[p])
  /\ \A p \in checks : db[p] # NoText

IInv ==
  /\ phase = "idle" /\ pending = NoRev => AtRest
  /\ phase \in {"idle", "stopped", "failed"} /\ pending # NoRev => Unfinished
  /\ phase # "idle" => pending # NoRev
  /\ phase = "edit" => EditInv
  /\ phase = "integrity" => IntegrityInv

(***************************************************************************)
(* What the user must not do: a run that did not finish is repeated,       *)
(* towards the same revision and without -t, until it does.  With -C a     *)
(* file of the repository must not hold the text of a symlink: one that is *)
(* added over a symlink becomes a symlink.  Orderly also rules -C out.     *)
(***************************************************************************)
LinksApart == \A r \in Rev, p \in Path : IsFile(Repo[r][p]) => Repo[r][p].text \notin LinkText

Repeated ==
  /\ Scenario \cap {"retarget", "retolerant"} = {}
  /\ "clear" \in Scenario => LinksApart

Orderly == Scenario \cap {"clear", "retarget", "retolerant"} = {}

\* No file is mistaken for a symlink: without -C it is not met in the place of
\* one, with -C the user's alone may hold the text of one.
PlainInv ==
  "clear" \in Scenario =>
    \A p \in Path \ mine : IsFile(local[p]) => local[p].text \notin LinkText

\* The repair stage runs only where -R is admitted.
RepairInv == run.repair \/ checks # {} => "repair" \in Scenario

LEMMA RepairInit ==
  ASSUME Init
  PROVE  RepairInv
BY DEF Init, RepairInv

LEMMA RepairEdit ==
  ASSUME EditCommand \/ StopInEdit
  PROVE  run' = run
BY DEF EditCommand, DeleteEntry, AddDir, OpenDir, MakeDir, ErrorLeaving, Error, AddFile,
       OpenFile, Begin, ApplyTextdelta, TextdeltaChunk, ChangeFileProp, CloseFile,
       CloseAlreadyTarget, CloseTolerated, CloseCheckout, CloseBadDelta, CloseSymlink,
       CloseRelink, CloseWrite, EditComplete, StopInEdit, StopInCloseFile, StopInOpenFile,
       StopInDeleteEntry, Stop

LEMMA RepairStep ==
  ASSUME RepairInv, [Next]_vars
  PROVE  RepairInv'
<1>1. CASE UNCHANGED vars
  BY <1>1 DEF RepairInv, vars, editVars
<1>2. ASSUME NEW to \in Rev, NEW o \in Options, Start(to, o) PROVE RepairInv'
  BY <1>2 DEF RepairInv, Start, Allowed
<1>3. CASE EditStep \/ StoppedInEdit
  BY <1>3, RepairEdit DEF RepairInv, EditStep, StoppedInEdit
<1>4. CASE CloseEdit
  BY <1>4 DEF RepairInv, CloseEdit
<1>5. ASSUME NEW p \in Path, CheckFile(p) PROVE RepairInv'
  BY <1>5 DEF RepairInv, CheckFile
<1>6. CASE Finish \/ Quit \/ StoppedInIntegrity \/ StoppedInFinish
  BY <1>6 DEF RepairInv, Finish, Quit, StoppedInIntegrity, StoppedInFinish
<1>7. ASSUME NEW p \in Path, Modify(p) PROVE RepairInv'
  BY <1>7 DEF RepairInv, Modify
<1>8. QED
  BY <1>1, <1>2, <1>3, <1>4, <1>5, <1>6, <1>7 DEF Next, Program, Environment

-----------------------------------------------------------------------------
(***************************************************************************)
(* The edit between two trees.                                             *)
(***************************************************************************)
LEMMA TreeShape ==
  ASSUME NEW t, IsTree(t), NEW p \in Path
  PROVE  /\ t[p].kind \in {"none", "dir", "file", "link"}
         /\ t[p].kind = "none" => t[p] = Absent
         /\ t[p].kind = "dir" => t[p] = Dir
         /\ IsEntry(t[p]) => t[p].text \in Text /\ t[p].text # NoText
         /\ t[p].kind # "none" => \A q \in Above(p) : t[q].kind = "dir"
<1>1. t[p].kind \in {"none", "dir", "file", "link"}
  BY TreeTypes, NodeFields DEF Kinds
<1>2. QED
  BY <1>1, TreeTypes, NodeFields, TextAssumption DEF IsTree

\* What is deleted, by itself or with a directory above it, does not stay
\* what it was.
LEMMA DeletedChanges ==
  ASSUME NEW s, NEW t, IsTree(s), IsTree(t), NEW p \in Path,
         ({p} \cup Above(p)) \cap Deleted(s, t) # {}, t[p].kind # "none"
  PROVE  s[p].kind # t[p].kind
<1>1. CASE p \in Deleted(s, t)
  BY <1>1 DEF Deleted
<1>2. ASSUME NEW q \in Above(p), q \in Deleted(s, t) PROVE s[p].kind = "none"
  <2>1. q \in Path /\ t[q].kind = "dir"
    BY TreeShape DEF Above
  <2>2. s[q].kind # "dir"
    BY <1>2, <2>1 DEF Deleted
  <2>3. QED
    BY <2>2, TreeShape
<1>3. QED
  BY <1>1, <1>2

\* What is gone from the target is deleted: look at the topmost directory
\* above it that is none any more.
LEMMA GoneIsDeleted ==
  ASSUME NEW s, NEW t, IsTree(s), IsTree(t), NEW p \in Path,
         t[p].kind = "none", s[p].kind # "none"
  PROVE  ({p} \cup Above(p)) \cap Deleted(s, t) # {}
<1> DEFINE Q == {q \in Above(p) : t[q].kind # "dir"}
<1>1. CASE Q = {}
  BY <1>1 DEF Deleted
<1>2. CASE Q # {}
  <2>1. PICK q \in Q : Above(q) \cap Q = {}
    BY <1>2, PathAssumption
  <2>2. q \in Path /\ Above(q) \subseteq Above(p)
    BY PathAssumption DEF Above
  <2>3. \A x \in Above(q) : t[x].kind = "dir"
    BY <2>1, <2>2
  <2>4. s[q].kind = "dir"
    BY TreeShape
  <2>5. q \in Deleted(s, t)
    BY <2>2, <2>3, <2>4 DEF Deleted
  <2>6. QED
    BY <2>5
<1>3. QED
  BY <1>1, <1>2

-----------------------------------------------------------------------------
(***************************************************************************)
(* A run that ends early leaves what Unfinished says, if what the last     *)
(* command has touched is a path that the edit changes.                    *)
(***************************************************************************)
LEMMA DocNone == NoDoc.path \notin Path /\ NoDoc.path = NoPath
BY PathAssumption DEF NoDoc, NoPath

Halfway(q) ==
  \/ local'[q] = local[q]
  \/ /\ Counts(Target[q]) => ~Same(Source[q], Target[q])
     /\ Counts(Source[q]) => local'[q].kind \in {"none", Source[q].kind, Target[q].kind}

LEMMA EditHalfway ==
  ASSUME TypeInv, EditInv, UNCHANGED <<db, mine, revfile, pending>>,
         \A q \in Path \ mine : Halfway(q)
  PROVE  Unfinished'
<1>1. From' = From /\ To' = To /\ Source = From /\ Target = To
  BY DEF From, To, EditInv, Aligned, Target
<1>2. ASSUME NEW q \in Path \ mine PROVE Partial(q, From, To)'
  <2>1. Partial(q, From, To)
    BY <1>1 DEF EditInv, EditPaths, Partial, Ready, Done, Same
  <2>2. Halfway(q)
    OBVIOUS
  <2>3. QED
    BY <1>1, <2>1, <2>2 DEF Partial, Halfway
<1>3. ASSUME NEW q \in Path PROVE CachePartial(q, From, To)'
  <2>1. CachePartial(q, From, To)
    BY <1>1 DEF EditInv, EditCache, CachePartial, CacheOK
  <2>2. QED
    BY <1>1, <2>1 DEF CachePartial, CacheOK
<1>4. QED
  BY <1>2, <1>3 DEF Unfinished

\* The invariant of what a command leaves.
After ==
  /\ phase' = "edit" => EditInv'
  /\ phase' \in {"failed", "stopped"} => Unfinished'

LEMMA ErrorAfter ==
  ASSUME TypeInv, EditInv, NEW p \in Path, NEW n, ErrorLeaving(p, n),
         UNCHANGED <<revfile, pending>>,
         \/ n = local[p]
         \/ p \in mine
         \/ ~Same(Source[p], Target[p]) /\ n.kind = "none"
  PROVE  After
<1>1. \A q \in Path \ mine : Halfway(q)
  BY DEF ErrorLeaving, Halfway, TypeInv, TypeOK, EditTypeOK
<1>2. Unfinished'
  BY <1>1, EditHalfway DEF ErrorLeaving, Error
<1>3. QED
  BY <1>2 DEF After, ErrorLeaving, Error

-----------------------------------------------------------------------------
(***************************************************************************)
(* Deletions and directories.                                              *)
(***************************************************************************)
LEMMA SameTrees ==
  ASSUME EditInv, UNCHANGED <<run, revfile, pending>>
  PROVE  Source' = Source /\ Target' = Target /\ Aligned'
BY DEF EditInv, Aligned, Source, Target, From

LEMMA EditTrees ==
  ASSUME TypeInv, NEW p \in Path
  PROVE  /\ IsTree(Source) /\ IsTree(Target)
         /\ Source[p].kind \in {"none", "dir", "file", "link"}
         /\ Target[p].kind \in {"none", "dir", "file", "link"}
         /\ Source[p].kind = "none" => Source[p] = Absent
         /\ Target[p].kind = "none" => Target[p] = Absent
         /\ Target[p].kind = "dir" => Target[p] = Dir
         /\ IsEntry(Source[p]) => Source[p].text \in Text /\ Source[p].text # NoText
         /\ IsEntry(Target[p]) => Target[p].text \in Text /\ Target[p].text # NoText
<1>1. IsTree(Source) /\ IsTree(Target)
  BY RunTrees DEF TypeInv, TypeOK, EditTypeOK
<1>2. QED
  BY <1>1, TreeShape

LEMMA DoomedChanges ==
  ASSUME TypeInv, EditInv, NEW p \in Path, Doomed(p), Target[p].kind # "none"
  PROVE  p \in upds /\ Source[p].kind # Target[p].kind
<1>1. ({p} \cup Above(p)) \cap Deleted(Source, Target) # {}
  BY DEF Doomed, EditInv, EditSets
<1>2. Source[p].kind # Target[p].kind
  BY <1>1, EditTrees, DeletedChanges
<1>3. QED
  BY <1>2 DEF EditInv, EditSets

LEMMA UpdatedExists ==
  ASSUME TypeInv, EditInv, NEW p \in upds
  PROVE  /\ p \in Path /\ Target[p].kind # "none"
         /\ IsEntry(Target[p]) => Source[p] # Target[p]
BY DEF EditInv, EditSets, Updated, IsEntry

LEMMA DeleteEntryAfter ==
  ASSUME TypeInv, EditInv, NEW p \in Path, DeleteEntry(p), UNCHANGED <<revfile, pending>>
  PROVE  After
<1> DEFINE G == {p} \cup Below(p)
<1>1. Source' = Source /\ Target' = Target /\ Aligned'
  BY SameTrees DEF DeleteEntry
<1>2. \A q \in Path : q \in G <=> p \in {q} \cup Above(q)
  BY DEF Above, Below
<1>3. \A q \in Path : /\ q \in G => Doomed(q)
                      /\ Doomed(q)' => Doomed(q)
                      /\ q \notin G => Doomed(q)' = Doomed(q)
  BY <1>2 DEF Doomed, DeleteEntry
<1>4. doc' = NoDoc /\ doc = NoDoc /\ upds' = upds /\ doc.path \notin Path
  BY DocNone DEF DeleteEntry, BetweenFiles, docVars
<1>5. EditSets'
  BY <1>1, <1>3, <1>4 DEF EditInv, EditSets, DeleteEntry
<1>6. \A q \in Path : /\ q \in G => local'[q] = Absent
                      /\ q \notin G => local'[q] = local[q]
  BY DEF DeleteEntry
<1>7. EditPaths'
  <2> SUFFICES ASSUME NEW q \in Path \ mine'
               PROVE  (IF Doomed(q) THEN Partial(q, Source, Target)
                       ELSE IF q \in upds \/ q = doc.path THEN Ready(q)
                       ELSE Done(q))'
    BY DEF EditPaths
  <2>1. CASE q \in G
    <3>1. Target[q].kind # "none" => Source[q].kind # Target[q].kind /\ q \in upds
      BY <1>3, <2>1, DoomedChanges
    <3>2. Target[q].kind = "none" => Target[q] = Absent
      BY EditTrees
    <3>3. local'[q] = Absent /\ Absent.kind = "none"
      BY <1>6, <2>1 DEF Absent
    <3>4. QED
      BY <1>1, <1>4, <3>1, <3>2, <3>3 DEF Partial, Ready, Done, Counts, Same
  <2>2. CASE q \notin G
    <3>1. q \in Path \ mine
      BY <2>2 DEF DeleteEntry
    <3>2. QED
      BY <1>1, <1>3, <1>4, <1>6, <2>2, <3>1 DEF EditInv, EditPaths, Partial, Ready, Done
  <2>3. QED
    BY <2>1, <2>2
<1>8. EditCache'
  <2>1. \A q \in Path \ {p} : db'[q] = db[q]
    BY DEF DeleteEntry, TypeInv, TypeOK, EditTypeOK
  <2>2. IsFile(Target[p]) => Source[p].kind # Target[p].kind /\ p \in upds
    BY <1>3, DoomedChanges DEF IsFile
  <2>3. QED
    BY <1>1, <1>4, <2>1, <2>2 DEF EditInv, EditCache, CachePartial, CacheOK, Same
<1>9. EditTolerant'
  <2> SUFFICES ASSUME run.tolerant, NEW q \in Path \ mine', q \in upds,
                      Source[q].kind = Target[q].kind
               PROVE  Same(local'[q], Source[q])
    BY <1>1, <1>4 DEF EditTolerant, DeleteEntry
  <2>1. q \notin G
    BY <1>3, DoomedChanges, UpdatedExists
  <2>2. QED
    BY <1>6, <2>1 DEF EditInv, EditTolerant, DeleteEntry
<1>10. EditDoc'
  BY <1>4 DEF EditDoc
<1>11. QED
  BY <1>1, <1>5, <1>7, <1>8, <1>9, <1>10 DEF After, EditInv, DeleteEntry, BetweenFiles, Editing

LEMMA MakeDirAfter ==
  ASSUME TypeInv, EditInv, NEW p \in Path, DirCommand(p), UNCHANGED <<revfile, pending>>,
         UNCHANGED <<db, phase, run, dels, docVars>>, upds' = upds \ {p},
         \A q \in Path \ {p} : local'[q] = local[q] /\ (q \in mine' <=> q \in mine),
         p \notin mine' => Same(local'[p], Target[p])
  PROVE  After
<1>1. Source' = Source /\ Target' = Target /\ Aligned'
  BY SameTrees
<1>2. doc' = NoDoc /\ doc = NoDoc /\ doc.path \notin Path
  BY DocNone DEF DirCommand, BetweenFiles, docVars
<1>3. ~Doomed(p) /\ \A q \in Path : Doomed(q)' = Doomed(q)
  BY DEF Doomed, DirCommand, Reached
<1>4. EditSets'
  BY <1>1, <1>3 DEF EditInv, EditSets
<1>5. EditPaths'
  BY <1>1, <1>2, <1>3 DEF EditInv, EditPaths, Partial, Ready, Done
<1>6. EditCache'
  BY <1>1, <1>2 DEF EditInv, EditCache, CachePartial, CacheOK, DirCommand, IsFile
<1>7. EditTolerant'
  BY <1>1, <1>2 DEF EditInv, EditTolerant
<1>8. EditDoc'
  BY <1>2 DEF EditDoc
<1>9. QED
  BY <1>1, <1>4, <1>5, <1>6, <1>7, <1>8 DEF After, EditInv, DirCommand, BetweenFiles, Editing

LEMMA DirsAfter ==
  ASSUME TypeInv, EditInv, NEW p \in Path, AddDir(p) \/ OpenDir(p),
         UNCHANGED <<revfile, pending>>
  PROVE  After
<1>1. DirCommand(p) /\ Target[p] = Dir
  BY EditTrees DEF AddDir, OpenDir, DirCommand
<1>2. CASE MakeDir(p)
  BY <1>1, <1>2, MakeDirAfter DEF MakeDir, Settle, Same, TypeInv, TypeOK, EditTypeOK
<1>3. CASE ErrorLeaving(p, local[p])
  BY <1>3, ErrorAfter
<1>4. CASE /\ local[p].kind = "link" /\ Source[p].kind = "dir"
           /\ upds' = upds \ {p}
           /\ UNCHANGED <<treeVars, phase, run, dels, docVars>>
  <2>1. ~Doomed(p) /\ p \in upds
    BY <1>1 DEF Doomed, DirCommand, Reached
  <2>2. p \in mine
    BY <1>1, <1>4, <2>1 DEF EditInv, EditPaths, Ready, Counts, Dir
  <2>3. QED
    BY <1>1, <1>4, <2>2, MakeDirAfter DEF treeVars
<1>5. QED
  BY <1>2, <1>3, <1>4 DEF AddDir, OpenDir

-----------------------------------------------------------------------------
(***************************************************************************)
(* Files: what the server compares with, and the commands it owes.         *)
(***************************************************************************)
LEMMA OpenedText ==
  ASSUME TypeInv, NEW p \in Path, IsEntry(Target[p])
  PROVE  /\ Source[p].kind = Target[p].kind => Opened(p) = Source[p]
         /\ Source[p].kind # Target[p].kind => Opened(p) = Absent /\ Opened(p).text = NoText
         /\ Same(Source[p], Target[p]) <=> Opened(p).text = Target[p].text
BY EditTrees DEF Opened, Same, Absent, IsEntry

LEMMA BeginAfter ==
  ASSUME TypeInv, EditInv, NEW p \in Path, FileCommand(p), UNCHANGED <<revfile, pending>>,
         NEW d \in Doc, d.base = NoText, d.delta = "none",
         d.special => Target[p].kind = "link",
         Begin(p, d),
         \A q \in Path \ {p} : local'[q] = local[q] /\ (q \in mine' <=> q \in mine),
         Source[p].kind = Target[p].kind => local'[p].kind # "none",
         p \notin mine' => /\ Same(Source[p], Target[p]) => Same(local'[p], Target[p])
                           /\ Counts(Source[p]) => local'[p].kind \in {"none", Target[p].kind}
                           /\ run.tolerant /\ Source[p].kind = Target[p].kind
                                => Same(local'[p], Source[p])
  PROVE  After
<1>1. Source' = Source /\ Target' = Target /\ Aligned'
  BY SameTrees DEF Begin
<1>2. /\ doc'.path = p /\ doc'.base = NoText /\ doc'.delta = "none"
      /\ doc'.special = d.special
      /\ doc = NoDoc /\ doc.path \notin Path
  BY DocNone DEF Begin, FileCommand, BetweenFiles, Doc
<1>3. ~Doomed(p) /\ \A q \in Path : Doomed(q)' = Doomed(q)
  BY DEF Doomed, FileCommand, Reached, Begin
<1>4. EditSets'
  BY <1>1, <1>3 DEF EditInv, EditSets, Begin
<1>5. EditPaths'
  BY <1>1, <1>2, <1>3 DEF EditInv, EditPaths, Partial, Ready, Done, Begin
<1>6. EditCache'
  BY <1>1, <1>2 DEF EditInv, EditCache, CachePartial, CacheOK, FileCommand, Begin
<1>7. EditTolerant'
  BY <1>1, <1>2 DEF EditInv, EditTolerant, Begin
<1>8. EditDoc'
  <2>1. Source[p] # Target[p] /\ IsEntry(Target[p]) /\ p \notin upds'
    BY UpdatedExists DEF FileCommand, Begin
  <2>2. Opened(p)' = Opened(p)
    BY <1>1 DEF Opened
  <2>3. owed' = Owed(Opened(p), Target[p])
    BY DEF Begin
  <2>4. "textdelta-chunk" \notin owed'
    BY <2>3 DEF Owed
  <2>5. "apply-textdelta" \in owed' <=> ~Same(Source[p], Target[p])
    BY <2>1, <2>3, OpenedText DEF Owed
  <2>6. "special" \in owed' => Target[p].kind = "link"
    BY <2>3 DEF Owed
  <2>7. Target[p].kind = "link" /\ Source[p].kind # "link" => "special" \in owed'
    BY <2>1, <2>3, OpenedText DEF Owed, Absent
  <2>8. p \in Path \ upds' /\ ~Doomed(p)'
    BY <1>3, <2>1
  <2>9. QED
    BY <1>1, <1>2, <2>1, <2>2, <2>4, <2>5, <2>6, <2>7, <2>8 DEF EditDoc
<1>9. QED
  BY <1>1, <1>4, <1>5, <1>6, <1>7, <1>8
     DEF After, EditInv, Begin, FileCommand, BetweenFiles, Editing

LEMMA FilesAfter ==
  ASSUME TypeInv, EditInv, NEW p \in Path, AddFile(p) \/ OpenFile(p),
         UNCHANGED <<revfile, pending>>
  PROVE  After
<1>1. FileCommand(p) /\ p \in upds /\ IsEntry(Target[p]) /\ ~Doomed(p)
  BY DEF AddFile, OpenFile, FileCommand, Doomed, Reached
<1>2. p \notin mine => /\ Ready(p)
                       /\ run.tolerant /\ Source[p].kind = Target[p].kind
                            => Same(local[p], Source[p])
  BY <1>1 DEF EditInv, EditPaths, EditTolerant
<1>0. Counts(Target[p])
  BY <1>1 DEF Counts, IsEntry
<1>3. CASE /\ Begin(p, NoDoc) /\ UNCHANGED <<local, mine>>
           /\ Source[p].kind = Target[p].kind => local[p].kind # "none"
  <2>1. /\ NoDoc.base = NoText /\ NoDoc.delta = "none" /\ NoDoc.special = FALSE
        /\ NoDoc \in Doc
    BY DEF NoDoc, NoPath, Doc
  <2>2. QED
    BY <1>0, <1>1, <1>2, <1>3, <2>1, BeginAfter DEF Ready
<1>4. CASE /\ Source[p].kind = Target[p].kind
           /\ local' = [local EXCEPT ![p] = CheckedOut(Source[p], NoDoc)]
           /\ Settle(p, local'[p])
           /\ Begin(p, [NoDoc EXCEPT !.exec = Source[p].exec,
                                     !.special = Source[p].kind = "link"])
  <2> DEFINE d == [NoDoc EXCEPT !.exec = Source[p].exec, !.special = Source[p].kind = "link"]
  <2>1. Source[p].exec \in BOOLEAN
    BY <1>1, EditTypes, NodeFields DEF TypeInv, TypeOK
  <2>5. d \in Doc
    BY <2>1 DEF Doc, NoDoc, NoPath
  <2>6. d.base = NoText /\ d.delta = "none" /\ (d.special => Source[p].kind = "link")
    BY DEF NoDoc
  <2>2. /\ local'[p] = CheckedOut(Source[p], NoDoc)
        /\ \A q \in Path \ {p} : local'[q] = local[q] /\ (q \in mine' <=> q \in mine)
    BY <1>4 DEF Settle, TypeInv, TypeOK, EditTypeOK
  <2>3. Same(CheckedOut(Source[p], NoDoc), Source[p])
    BY <1>1, <1>4 DEF CheckedOut, Same, File, IsEntry
  <2>4. QED
    BY <1>1, <1>4, <2>2, <2>3, <2>5, <2>6, BeginAfter DEF Same, IsEntry
<1>5. CASE ErrorLeaving(p, local[p])
  BY <1>5, ErrorAfter
<1>6. CASE /\ local[p].kind = "none" /\ ErrorLeaving(p, Absent)
  <2>1. p \in mine \/ ~Same(Source[p], Target[p])
    BY <1>0, <1>1, <1>2, <1>6 DEF Ready, Same, IsEntry
  <2>2. QED
    BY <1>6, <2>1, ErrorAfter DEF Absent
<1>7. CASE AddFile(p)
  BY <1>3, <1>5, <1>7 DEF AddFile
<1>8. CASE OpenFile(p)
  BY <1>3, <1>4, <1>5, <1>6, <1>8 DEF OpenFile, IsEntry
<1>9. QED
  BY <1>7, <1>8

LEMMA DocCommandsAfter ==
  ASSUME TypeInv, EditInv, NEW name,
         ApplyTextdelta \/ TextdeltaChunk \/ ChangeFileProp(name),
         UNCHANGED <<revfile, pending>>
  PROVE  After
<1> DEFINE p == doc.path
<1>1. Source' = Source /\ Target' = Target /\ Aligned'
  BY SameTrees DEF ApplyTextdelta, TextdeltaChunk, ChangeFileProp
<1>2. doc \in Doc /\ doc # NoDoc /\ phase = "edit" /\ phase' = "edit"
  <2>1. owed # {} /\ phase = "edit" /\ phase' = "edit"
    BY DEF ApplyTextdelta, TextdeltaChunk, ChangeFileProp, Editing
  <2>2. doc.path \in Path
    BY <2>1 DEF TypeInv, DocOK
  <2>3. QED
    BY <2>1, <2>2, DocNone DEF TypeInv, TypeOK, EditTypeOK
<1>3. /\ doc'.path = p /\ UNCHANGED <<local, db, mine, dels, upds>>
      /\ UNCHANGED run
  BY <1>2 DEF ApplyTextdelta, TextdeltaChunk, ChangeFileProp, Doc, treeVars, driveVars
<1>4. \A q \in Path : Doomed(q)' = Doomed(q) /\ Opened(q)' = Opened(q)
  BY <1>1, <1>3 DEF Doomed, Opened
<1>5. EditSets' /\ EditPaths' /\ EditCache' /\ EditTolerant'
  BY <1>1, <1>3, <1>4 DEF EditInv, EditSets, EditPaths, EditCache, EditTolerant,
                          Partial, Ready, Done, CachePartial, CacheOK
<1>6. EditDoc'
  <2> USE DEF EditInv, EditDoc
  <2>1. CASE ApplyTextdelta
    <3>1. /\ doc'.base = Opened(p).text /\ doc'.delta = doc.delta
          /\ doc'.special = doc.special
      BY <1>2, <2>1 DEF ApplyTextdelta, Doc
    <3>2. ~Same(Source[p], Target[p])
      BY <1>2, <2>1 DEF ApplyTextdelta
    <3>3. QED
      BY <1>1, <1>2, <1>3, <1>4, <2>1, <3>1, <3>2 DEF ApplyTextdelta
  <2>2. CASE TextdeltaChunk
    <3>1. doc'.base = doc.base /\ doc'.delta # "none" /\ doc'.special = doc.special
      BY <1>2, <2>2 DEF TextdeltaChunk, Doc
    <3>2. ~Same(Source[p], Target[p]) /\ doc.base = Opened(p).text
      BY <1>2, <2>2 DEF TextdeltaChunk
    <3>3. QED
      BY <1>1, <1>2, <1>3, <1>4, <2>2, <3>1, <3>2 DEF TextdeltaChunk
  <2>3. CASE ChangeFileProp(name)
    <3>1. /\ doc'.base = doc.base /\ doc'.delta = doc.delta
          /\ doc'.special = (name # "exec" \/ doc.special)
      BY <1>2, <2>3 DEF ChangeFileProp, Doc
    <3>2. name # "exec" => name = "special" /\ Target[p].kind = "link"
      BY <1>2, <2>3 DEF ChangeFileProp
    <3>3. owed' = owed \ {name} /\ name \in {"exec", "special"}
      BY <2>3 DEF ChangeFileProp
    <3>4. QED
      BY <1>1, <1>2, <1>3, <1>4, <3>1, <3>2, <3>3
  <2>4. QED
    BY <2>1, <2>2, <2>3
<1>7. QED
  BY <1>1, <1>2, <1>5, <1>6 DEF After, EditInv

-----------------------------------------------------------------------------
(***************************************************************************)
(* close-file.                                                             *)
(***************************************************************************)
LEMMA EditCompleteAfter ==
  ASSUME TypeInv, EditInv, Closing, NEW n, EditComplete(n),
         doc.path \notin mine => Same(n, Wanted),
         UNCHANGED <<revfile, pending>>
  PROVE  After
<1> DEFINE p == doc.path
<1> USE DEF TypeInv, TypeOK, EditTypeOK
<1>1. Source' = Source /\ Target' = Target /\ Aligned'
  BY SameTrees DEF EditComplete
<1>2. p \in Path \ upds /\ ~Doomed(p) /\ UNCHANGED <<phase, upds, dels>>
  BY DEF Closing, EditInv, EditDoc, EditComplete, driveVars
<1>3. \A q \in Path : Doomed(q)' = Doomed(q)
  BY <1>2 DEF Doomed
<1>4. doc' = NoDoc /\ doc'.path \notin Path
  BY DocNone DEF EditComplete
<1>5. /\ local'[p] = n /\ db'[p] = Target[p].text
      /\ \A q \in Path \ {p} : local'[q] = local[q] /\ db'[q] = db[q]
      /\ \A q \in Path \ {p} : q \in mine' <=> q \in mine
  BY <1>2 DEF EditComplete, Settle, Wanted
<1>6. p \notin mine' => Same(n, Target[p])
  BY DEF EditComplete, Settle, Wanted
<1>7. EditSets'
  BY <1>1, <1>2, <1>3 DEF EditInv, EditSets
<1>8. EditPaths'
  BY <1>1, <1>2, <1>3, <1>4, <1>5, <1>6 DEF EditInv, EditPaths, Partial, Ready, Done
<1>9. EditCache'
  BY <1>1, <1>2, <1>4, <1>5 DEF EditInv, EditCache, CachePartial, CacheOK
<1>10. EditTolerant'
  BY <1>1, <1>2, <1>4, <1>5 DEF EditInv, EditTolerant, EditComplete
<1>11. EditDoc'
  BY <1>4 DEF EditDoc
<1>12. phase' = "edit"
  BY <1>2 DEF Closing, Editing
<1>13. QED
  BY <1>1, <1>7, <1>8, <1>9, <1>10, <1>11, <1>12 DEF After, EditInv

\* What is known of the file when the server closes it.
LEMMA ClosingFacts ==
  ASSUME TypeInv, EditInv, Closing
  PROVE  /\ doc.path \in Path /\ doc \in Doc
         /\ IsEntry(Wanted) /\ Wanted.text \in Text /\ Wanted.text # NoText
         /\ Wanted = Target[doc.path] /\ Here = local[doc.path]
         /\ doc.special => Wanted.kind = "link"
         /\ Wanted.kind = "link" /\ Source[doc.path].kind # "link" => doc.special
         /\ doc.delta = "none" <=> Same(Source[doc.path], Wanted)
         /\ doc.delta = "none" => doc.base = NoText
         /\ doc.delta # "none" => doc.base = Opened(doc.path).text
         /\ Source[doc.path].kind = Wanted.kind =>
              Opened(doc.path) = Source[doc.path] /\ Here.kind # "none"
         /\ Source[doc.path].kind # Wanted.kind => Opened(doc.path).text = NoText
         /\ doc.path \notin mine => /\ Ready(doc.path)
                                    /\ run.tolerant /\ Source[doc.path].kind = Wanted.kind
                                         => Same(Here, Source[doc.path])
<1> DEFINE p == doc.path
<1>1. doc # NoDoc /\ owed = {}
  BY DEF Closing
<1>2. /\ p \in Path /\ p \notin upds /\ ~Doomed(p) /\ doc \in Doc /\ IsEntry(Target[p])
  BY <1>1 DEF EditInv, EditDoc, TypeInv, TypeOK, EditTypeOK
<1>3. Target[p].text \in Text /\ Target[p].text # NoText
  BY <1>2, EditTrees
<1>4. /\ Source[p].kind = Target[p].kind => Opened(p) = Source[p]
      /\ Source[p].kind # Target[p].kind => Opened(p).text = NoText
  BY <1>2, OpenedText
<1>5. /\ doc.special => Target[p].kind = "link"
      /\ Target[p].kind = "link" /\ Source[p].kind # "link" => doc.special
      /\ doc.delta = "none" <=> Same(Source[p], Target[p])
      /\ doc.delta = "none" => doc.base = NoText
      /\ doc.delta # "none" => doc.base = Opened(p).text
      /\ Source[p].kind = Target[p].kind => local[p].kind # "none"
  BY <1>1 DEF EditInv, EditDoc
<1>6. p \notin mine => /\ Ready(p)
                       /\ run.tolerant /\ Source[p].kind = Target[p].kind
                            => Same(local[p], Source[p])
  BY <1>2 DEF EditInv, EditPaths, EditTolerant
<1>7. QED
  BY <1>2, <1>3, <1>4, <1>5, <1>6 DEF Wanted, Here

\* A file that the run unlinks is the user's, or the edit changes it.
LEMMA LeftOver ==
  ASSUME TypeInv, EditInv, Closing
  PROVE  /\ Left \in {Here, Absent} /\ Absent.kind = "none"
         /\ Left # Here => IsFile(Here) /\ Here.text # Wanted.text
         /\ Left # Here => doc.path \in mine \/ ~Same(Source[doc.path], Wanted)
         /\ doc.path \notin mine /\ doc.delta = "none" => Left = Here /\ Same(Here, Wanted)
<1>1. /\ Left \in {Here, Absent} /\ Absent.kind = "none"
      /\ Left # Here => IsFile(Here) /\ Here.text # Wanted.text
  BY DEF Left, InTheWay, Absent
<1>2. doc.path \notin mine /\ Same(Source[doc.path], Wanted) => Same(Here, Wanted)
  BY ClosingFacts DEF Ready, Counts, IsEntry
<1>3. QED
  BY <1>1, <1>2, ClosingFacts DEF Same

\* What close-file meets in the place of a file the user left alone: nothing,
\* an entry of its kind, or after -C something that an earlier run has left.
LEMMA MetByClose ==
  ASSUME TypeInv, EditInv, PlainInv, Repeated, Closing, doc.path \notin mine
  PROVE  \/ Here.kind \in {"none", Wanted.kind}
         \/ /\ doc.base = NoText /\ doc.delta # "none"
            /\ Wanted.kind = "link" => doc.special
            /\ IsFile(Here) /\ Here.text = Wanted.text => IsFile(Wanted)
            /\ IsFile(Wanted) => Wanted.text \notin LinkText
<1> DEFINE p == doc.path
<1>1. /\ p \in Path /\ Ready(p) /\ IsEntry(Wanted) /\ Wanted = Target[p] /\ Here = local[p]
      /\ doc.delta = "none" <=> Same(Source[p], Wanted)
      /\ doc.delta # "none" => doc.base = Opened(p).text
      /\ Source[p].kind # Wanted.kind => Opened(p).text = NoText
      /\ Wanted.kind = "link" /\ Source[p].kind # "link" => doc.special
  BY ClosingFacts
<1>2. CASE Counts(Source[p])
  BY <1>1, <1>2 DEF Ready
<1>3. CASE ~Counts(Source[p])
  <2>1. "clear" \in Scenario /\ Source[p].kind = "none"
    BY <1>3 DEF Counts
  <2>2. doc.delta # "none" /\ doc.base = NoText
    BY <1>1, <2>1 DEF Same, IsEntry
  <2>3. IsFile(Wanted) => Wanted.text \notin LinkText
    BY <1>1, <2>1 DEF Repeated, LinksApart, Target, TypeInv, TypeOK, EditTypeOK, Run
  <2>4. IsFile(Here) => Here.text \notin LinkText
    BY <1>1, <2>1 DEF PlainInv
  <2>5. Wanted.kind = "link" => Wanted.text \in LinkText
    BY <1>1, EditTrees DEF IsTree
  <2>6. QED
    BY <1>1, <2>1, <2>2, <2>3, <2>4, <2>5 DEF IsEntry, IsFile
<1>4. QED
  BY <1>2, <1>3

\* close-file fails, and leaves what it has met or nothing; or the entry is
\* what the target has, unless the user has changed it.
ClosedRight ==
  \/ ErrorLeaving(doc.path, Left)
  \/ \E n : EditComplete(n) /\ (doc.path \notin mine => Same(n, Wanted))

LEMMA CloseFileRight ==
  ASSUME TypeInv, EditInv, PlainInv, Repeated, CloseFile
  PROVE  ClosedRight
<1> DEFINE p == doc.path
<1>1. Closing
  BY DEF CloseFile
<1>2. CASE ErrorLeaving(p, Left)
  BY <1>2 DEF ClosedRight
<1>3. p \notin mine =>
        \/ Here.kind \in {"none", Wanted.kind}
        \/ /\ doc.base = NoText /\ doc.delta # "none"
           /\ Wanted.kind = "link" => doc.special
           /\ IsFile(Here) /\ Here.text = Wanted.text => IsFile(Wanted)
           /\ IsFile(Wanted) => Wanted.text \notin LinkText
  BY <1>1, MetByClose
<1>4. CASE CloseAlreadyTarget
  <2>1. p \notin mine => Same(Here, Wanted)
    BY <1>1, <1>3, <1>4 DEF CloseAlreadyTarget, AlreadyTarget, Same, IsFile
  <2>2. QED
    BY <1>4, <2>1 DEF CloseAlreadyTarget, ClosedRight
<1>5. CASE CloseTolerated
  <2>1. p \in mine
    BY <1>1, <1>5, ClosingFacts DEF CloseTolerated, Foreign, BaseMismatch, Same
  <2>2. QED
    BY <1>5, <2>1 DEF CloseTolerated, ClosedRight
<1>6. CASE EditComplete(CheckedOut(Wanted, doc))
  <2>1. Same(CheckedOut(Wanted, doc), Wanted)
    BY <1>1, ClosingFacts DEF CheckedOut, Same, File, IsEntry
  <2>2. QED
    BY <1>6, <2>1 DEF ClosedRight
<1>7. CASE EditComplete(Left) /\ doc.delta = "none"
  <2>1. p \notin mine => Same(Left, Wanted)
    BY <1>1, <1>7, LeftOver
  <2>2. QED
    BY <1>7, <2>1 DEF ClosedRight
<1>8. CASE /\ EditComplete(Link(Wanted.text))
           /\ Wanted.text \in LinkText
           /\ doc.special \/ Left.kind = "link"
  <2>1. p \notin mine => Wanted.kind = "link"
    <3>1. Left.kind = "link" => Here.kind = "link"
      BY <1>1, LeftOver
    <3>2. QED
      BY <1>1, <1>3, <1>8, <3>1, ClosingFacts DEF IsEntry, IsFile
  <2>2. p \notin mine => Same(Link(Wanted.text), Wanted)
    BY <2>1 DEF Same, Link
  <2>3. QED
    BY <1>8, <2>2 DEF ClosedRight
<1>9. CASE CloseWrite
  <2> DEFINE t == CASE doc.delta # "none" -> Wanted.text
                    [] doc.delta = "none" /\ IsFile(Left) -> Left.text
                    [] OTHER -> Empty
  <2>1. Apply /\ (IsFile(Left) \/ (Left.kind = "none" /\ ~doc.special))
    BY <1>9 DEF CloseWrite
  <2>2. ASSUME p \notin mine PROVE IsFile(Wanted) /\ t = Wanted.text
    <3>1. CASE IsFile(Left)
      <4>1. Left = Here /\ IsFile(Here)
        BY <1>1, <3>1, LeftOver DEF IsFile
      <4>2. doc.base = NoText => Here.text # Wanted.text
        BY <2>1, <4>1 DEF Apply, Rebuilt, AlreadyTarget
      <4>3. doc.base = NoText => FALSE
        BY <4>1, <4>2 DEF Left, InTheWay, Absent, IsFile
      <4>4. IsFile(Wanted)
        BY <1>3, <2>2, <4>1, <4>3 DEF IsFile
      <4>5. QED
        BY <1>1, <2>2, <3>1, <4>1, <4>4, LeftOver DEF Same
    <3>2. CASE ~IsFile(Left)
      <4>1. doc.delta # "none"
        <5>1. doc.delta = "none" => Same(Left, Wanted) /\ Left.kind = "none"
          BY <1>1, <2>1, <2>2, <3>2, LeftOver
        <5>2. QED
          BY <1>1, <5>1, ClosingFacts DEF Same, IsEntry
      <4>2. Wanted.kind # "link"
        <5>1. Wanted.kind = "link" => Here.kind # "none"
          BY <1>1, <2>1, <3>2, ClosingFacts
        <5>2. Wanted.kind = "link" => Left = Here \/ doc.special
          BY <1>1, <1>3, <2>2, LeftOver DEF IsFile
        <5>3. QED
          BY <2>1, <3>2, <5>1, <5>2
      <4>3. QED
        BY <1>1, <4>1, <4>2, ClosingFacts DEF IsEntry, IsFile
    <3>3. QED
      BY <3>1, <3>2
  <2>3. p \notin mine => Same(File(t, doc.exec), Wanted)
    BY <2>2 DEF Same, File, IsFile
  <2>4. EditComplete(File(t, doc.exec))
    BY <1>9 DEF CloseWrite
  <2>5. QED
    BY <2>3, <2>4 DEF ClosedRight
<1>10. CASE CloseCheckout
  BY <1>2, <1>6, <1>10 DEF CloseCheckout
<1>11. CASE CloseBadDelta
  BY <1>2, <1>11 DEF CloseBadDelta
<1>12. CASE CloseSymlink
  BY <1>2, <1>7, <1>8, <1>12 DEF CloseSymlink
<1>13. CASE CloseRelink
  BY <1>2, <1>7, <1>8, <1>13 DEF CloseRelink
<1>14. QED
  BY <1>4, <1>5, <1>9, <1>10, <1>11, <1>12, <1>13 DEF CloseFile

LEMMA CloseFileAfter ==
  ASSUME TypeInv, EditInv, PlainInv, Repeated, CloseFile, UNCHANGED <<revfile, pending>>
  PROVE  After
<1>1. Closing
  BY DEF CloseFile
<1>2. CASE ErrorLeaving(doc.path, Left)
  <2>1. \/ Left = local[doc.path] \/ doc.path \in mine
        \/ ~Same(Source[doc.path], Target[doc.path]) /\ Left.kind = "none"
    BY <1>1, LeftOver, ClosingFacts
  <2>2. doc.path \in Path
    BY <1>1, ClosingFacts
  <2>3. QED
    BY <1>2, <2>1, <2>2, ErrorAfter
<1>3. ASSUME NEW n, EditComplete(n), doc.path \notin mine => Same(n, Wanted) PROVE After
  BY <1>1, <1>3, EditCompleteAfter
<1>4. QED
  BY <1>2, <1>3, CloseFileRight DEF ClosedRight

-----------------------------------------------------------------------------
(***************************************************************************)
(* The edit as a whole, and a process that stops in it.                    *)
(***************************************************************************)
LEMMA EditCommandAfter ==
  ASSUME TypeInv, EditInv, PlainInv, Repeated, EditCommand, UNCHANGED <<revfile, pending>>
  PROVE  After
BY DeleteEntryAfter, DirsAfter, FilesAfter, DocCommandsAfter, CloseFileAfter DEF EditCommand

LEMMA StopInCloseFileHalfway ==
  ASSUME TypeInv, EditInv, StopInCloseFile
  PROVE  \A q \in Path \ mine : Halfway(q)
<1> DEFINE p == doc.path
<1>1. Closing /\ p \in Path
  BY ClosingFacts DEF StopInCloseFile
<1>2. PICK n \in CloseHalfway : local' = [local EXCEPT ![p] = n]
  BY DEF StopInCloseFile
<1>3. local'[p] = n /\ \A q \in Path \ {p} : local'[q] = local[q]
  BY <1>1, <1>2 DEF TypeInv, TypeOK, EditTypeOK
<1>4. InTheWay => /\ p \in mine \/ ~Same(Source[p], Wanted)
                  /\ p \in mine \/ doc.delta # "none"
  <2>1. InTheWay => Left # Here
    BY DEF InTheWay, Left, Absent, IsFile
  <2>2. QED
    BY <1>1, <2>1, LeftOver
<1>5. \A t, m : \A x \in HalfWritten(t, m) : x.kind = "file"
  BY DEF HalfWritten, File
\* A symlink is made where one is wanted, or one is met.
<1>6. ASSUME p \notin mine, MakesLink, n = Link(Wanted.text), Counts(Source[p])
      PROVE  Wanted.kind = "link"
  <2>1. CASE doc.special
    BY <1>1, <2>1, ClosingFacts
  <2>2. CASE ~doc.special
    <3>1. Here.kind = "link"
      BY <1>1, <1>6, <2>2, LeftOver DEF MakesLink
    <3>2. Ready(p) /\ Here = local[p] /\ Wanted = Target[p]
      BY <1>1, <1>6, ClosingFacts
    <3>3. QED
      BY <1>6, <3>1, <3>2 DEF Ready
  <2>3. QED
    BY <2>1, <2>2
<1>7. \/ n \in {Here, Absent} \/ n \in BeingWritten
      \/ MakesLink /\ n = Link(Wanted.text)
  BY <1>2 DEF CloseHalfway
<1>8. MakesLink => doc.delta # "none"
  BY DEF MakesLink
<1>9. ASSUME p \notin mine, n # Here
      PROVE  /\ ~Same(Source[p], Wanted)
             /\ Counts(Source[p]) => n.kind \in {"none", Wanted.kind}
  <2>1. CASE AlreadyTarget \/ (Foreign /\ run.tolerant)
    <3>1. CloseHalfway = {Here}
      BY <2>1 DEF CloseHalfway
    <3>2. QED
      BY <1>2, <1>9, <3>1
  <2>2. CASE ~AlreadyTarget /\ InTheWay
    <3>1. doc.delta # "none" /\ ~Same(Source[p], Wanted)
      BY <1>4, <1>9, <2>2
    <3>2. ~(Foreign /\ run.tolerant)
      BY <2>2 DEF InTheWay, Foreign, BaseMismatch
    <3>3. n \in BeingWritten => n.kind = "file" /\ IsFile(Wanted)
      BY <1>5, <3>1 DEF BeingWritten
    <3>4. QED
      BY <1>6, <1>7, <1>9, <3>1, <3>3 DEF Absent, IsFile, Link
  <2>3. CASE ~AlreadyTarget /\ ~InTheWay /\ ~(Foreign /\ run.tolerant)
    <3>1. ~Same(Source[p], Wanted)
      <4>1. ASSUME Same(Source[p], Wanted) PROVE FALSE
        <5>1. doc.delta = "none" /\ doc.base = NoText /\ Same(Here, Wanted)
          BY <1>1, <1>9, <4>1, ClosingFacts, LeftOver
        <5>2. ~IsFile(Here)
          BY <2>3, <5>1 DEF AlreadyTarget, Same
        <5>3. Here.kind = "link" /\ ~IsFile(Wanted)
          BY <1>1, <5>1, <5>2, ClosingFacts DEF Same, IsEntry, IsFile
        <5>4. CloseHalfway = {Here}
          BY <1>8, <2>3, <5>1, <5>3 DEF CloseHalfway, PutAway, BeingWritten
        <5>5. QED
          BY <1>2, <1>9, <5>4
      <4>2. QED
        BY <4>1
    <3>2. n \in BeingWritten => n.kind = "file" /\ IsFile(Wanted)
      BY <1>5, <2>3 DEF BeingWritten
    <3>3. QED
      BY <1>6, <1>7, <1>9, <3>1, <3>2 DEF Absent, IsFile, Link
  <2>4. QED
    BY <2>1, <2>2, <2>3
<1>10. QED
  BY <1>1, <1>3, <1>9, ClosingFacts DEF Halfway

LEMMA StopInEditUnfinished ==
  ASSUME TypeInv, EditInv, StopInEdit, UNCHANGED <<revfile, pending>>
  PROVE  Unfinished'
<1>1. UNCHANGED <<db, mine>>
  BY DEF StopInEdit, StopInCloseFile, StopInOpenFile, StopInDeleteEntry, Stop
<1>2. CASE StopInCloseFile
  BY <1>1, <1>2, StopInCloseFileHalfway, EditHalfway
<1>3. ASSUME NEW p \in Path, StopInOpenFile(p) PROVE \A q \in Path \ mine : Halfway(q)
  <2>1. p \in upds /\ ~Doomed(p) /\ IsFile(Target[p]) /\ local[p].kind = "none"
    BY <1>3 DEF StopInOpenFile, FileCommand, Doomed, Reached
  <2>2. PICK n \in HalfWritten(Source[p].text, Source[p]) : local' = [local EXCEPT ![p] = n]
    BY <1>3 DEF StopInOpenFile
  <2>3. n.kind = "file" /\ local'[p] = n /\ \A q \in Path \ {p} : local'[q] = local[q]
    BY <2>2 DEF HalfWritten, File, TypeInv, TypeOK, EditTypeOK
  <2>4. p \notin mine => ~Same(Source[p], Target[p])
    BY <2>1 DEF EditInv, EditPaths, Ready, Counts, Same, IsFile
  <2>5. QED
    BY <2>1, <2>3, <2>4 DEF Halfway, IsFile
<1>4. ASSUME NEW p \in Path, StopInDeleteEntry(p) PROVE \A q \in Path \ mine : Halfway(q)
  <2> SUFFICES ASSUME NEW q \in Path \ mine, local'[q] # local[q] PROVE Halfway(q)
    BY DEF Halfway
  <2>1. q \in {p} \cup Below(p) /\ local[q].kind # "none" /\ local'[q] = Absent
    BY <1>4 DEF StopInDeleteEntry
  <2>2. Doomed(q)
    BY <1>4, <2>1 DEF Doomed, StopInDeleteEntry, Below, Above
  <2>3. Counts(Target[q]) => ~Same(Source[q], Target[q])
    <3>1. CASE Target[q].kind # "none"
      BY <2>2, <3>1, DoomedChanges DEF Same
    <3>2. CASE Target[q].kind = "none"
      BY <2>1, <2>2, <3>2 DEF EditInv, EditPaths, Partial, Same
    <3>3. QED
      BY <3>1, <3>2
  <2>4. QED
    BY <2>1, <2>3 DEF Halfway, Absent
<1>5. CASE UNCHANGED local
  BY <1>1, <1>5, EditHalfway DEF Halfway
<1>6. QED
  BY <1>1, <1>2, <1>3, <1>4, <1>5, EditHalfway DEF StopInEdit


-----------------------------------------------------------------------------
(***************************************************************************)
(* The start of a run.                                                     *)
(***************************************************************************)
LEMMA StartEdit ==
  ASSUME Repeated, TypeInv, IInv, NEW to \in Rev, NEW o \in Options, Start(to, o)
  PROVE  IInv'
<1> USE DEF TypeInv, TypeOK, EditTypeOK
<1>1. /\ phase = "idle" /\ phase' = "edit" /\ pending' = to /\ pending' # NoRev
      /\ UNCHANGED <<local, mine, doc>> /\ doc = NoDoc /\ doc.path \notin Path
  BY RevAssumption, DocNone DEF Start, docVars, DocOK
<1>2. /\ pending \in {NoRev, to}
      /\ o.tolerant => pending = NoRev
      /\ o.clear => "clear" \in Scenario
  BY DEF Start, Allowed, Repeated
<1>3. /\ revfile' = IF o.clear THEN NoRev ELSE revfile
      /\ db' = db \/ revfile' = NoRev
      /\ run'.to = to /\ run'.tolerant = o.tolerant
      /\ run'.from = IF revfile' \in Rev THEN revfile' ELSE NoRev
  BY Zenon DEF Start
<1>4. /\ Source' = From' /\ Target' = Repo[to] /\ Aligned'
      /\ ~o.clear => From' = From
      /\ o.clear => \A p \in Path : Source'[p] = Absent
  BY <1>1, <1>3, RevAssumption DEF Source, Target, From, ReportedTree, Aligned, EmptyTree
<1>5. dels' = Deleted(Source', Target') /\ upds' = Updated(Source', Target')
  <2>1. /\ dels' = Deleted(ReportedTree(run'.from), Repo[run'.to])
        /\ upds' = Updated(ReportedTree(run'.from), Repo[run'.to])
    BY <1>3 DEF Start
  <2>2. QED
    BY <2>1 DEF Source, Target
<1>6. IsTree(Source') /\ IsTree(Target')
  BY <1>4, ReportedIsTree, RevAssumption DEF From
<1>7. IF pending = NoRev THEN AtRest ELSE Unfinished /\ To = Target'
  BY <1>1, <1>2, <1>4 DEF IInv, To
<1>8. \A p \in Path \ mine : Partial(p, Source', Target')
  <2>1. CASE o.clear
    BY <1>2, <1>4, <2>1 DEF Partial, Counts, Same, Absent
  <2>2. CASE ~o.clear
    BY <1>4, <1>7, <2>2 DEF AtRest, Unfinished, Partial, Counts, Same
  <2>3. QED
    BY <2>1, <2>2
<1>9. \A p \in Path : Same(Source'[p], Target'[p]) /\ IsFile(Target'[p])
                       => CacheOK(p, Target[p])'
  <2>1. \A p \in Path : CachePartial(p, Source', Target')
    <3>1. CASE o.clear
      BY <1>4, <3>1 DEF CachePartial, CacheOK, Same, IsFile, Absent
    <3>2. CASE ~o.clear
      BY <1>4, <1>7, <3>2 DEF AtRest, Unfinished, CachePartial, CacheOK, Same, IsFile
    <3>3. QED
      BY <3>1, <3>2
  <2>2. revfile' = NoRev => \A p \in Path : Source'[p].kind = "none"
    BY <1>4, RevAssumption DEF From, ReportedTree, EmptyTree, Absent
  <2>3. QED
    BY <1>3, <2>1, <2>2 DEF CachePartial, CacheOK, Same, IsFile
<1>10. EditSets'
  <2> SUFFICES ASSUME NEW p \in Path, Doomed(p)', Target'[p].kind # "none"
               PROVE  p \in upds'
    BY <1>5 DEF EditSets
  <2>1. Source'[p].kind # Target'[p].kind
    BY <1>5, <1>6, DeletedChanges DEF Doomed
  <2>2. QED
    BY <1>5, <2>1 DEF Updated
<1>11. ASSUME NEW p \in Path, p \notin upds', ~Doomed(p)'
       PROVE  Source'[p] = Target'[p]
  <2>1. CASE Target'[p].kind # "none"
    BY <1>5, <1>11, <2>1 DEF Updated
  <2>2. CASE Target'[p].kind = "none"
    <3>1. Source'[p].kind = "none"
      BY <1>5, <1>6, <1>11, <2>2, GoneIsDeleted DEF Doomed
    <3>2. QED
      BY <1>6, <2>2, <3>1, TreeShape
  <2>3. QED
    BY <2>1, <2>2
<1>12. ASSUME NEW p \in upds', ~Doomed(p)'
       PROVE  Source'[p].kind \in {"none", Target'[p].kind}
  <2>1. p \in Path /\ Target'[p].kind # "none" /\ p \notin dels'
    BY <1>5, <1>12 DEF Updated, Doomed
  <2>2. \A q \in Above(p) : Target'[q].kind = "dir"
    BY <1>6, <2>1, TreeShape
  <2>3. QED
    BY <1>5, <2>1, <2>2 DEF Deleted
<1>13. EditPaths'
  BY <1>1, <1>8, <1>11, <1>12 DEF EditPaths, Partial, Ready, Done, Counts, Same
<1>14. EditCache'
  <2>1. \A p \in Path : p \notin upds' /\ IsFile(Target'[p]) => Source'[p] = Target'[p]
    BY <1>10, <1>11 DEF EditSets, IsFile
  <2>2. \A p \in Path : p \notin upds' => CacheOK(p, Target[p])'
    BY <1>9, <2>1 DEF CacheOK, Same
  <2>3. QED
    BY <1>1, <1>9, <2>2 DEF EditCache, CachePartial, CacheOK
<1>15. EditTolerant'
  <2>1. \A p \in upds' : Target'[p].kind # "none"
    BY <1>5 DEF Updated
  <2>2. CASE o.clear
    BY <1>1, <1>3, <1>4, <2>1, <2>2 DEF EditTolerant, Absent
  <2>3. CASE ~o.clear
    BY <1>1, <1>2, <1>3, <1>4, <1>7, <2>1, <2>3 DEF EditTolerant, AtRest, Counts
  <2>4. QED
    BY <2>2, <2>3
<1>16. EditDoc'
  BY <1>1 DEF EditDoc
<1>17. QED
  BY <1>1, <1>4, <1>10, <1>13, <1>14, <1>15, <1>16 DEF IInv, EditInv


-----------------------------------------------------------------------------
(***************************************************************************)
(* The end of a run, the repair stage, and the user.                       *)
(***************************************************************************)
LEMMA CloseEditIntegrity ==
  ASSUME TypeInv, IInv, CloseEdit
  PROVE  IInv'
<1>1. /\ EditInv /\ doc.path \notin Path /\ phase' = "integrity" /\ pending # NoRev
      /\ UNCHANGED <<local, db, mine, run, revfile, pending>>
  BY DocNone DEF CloseEdit, BetweenFiles, Editing, IInv, treeVars, fileVars
<1>2. Source' = Source /\ Target' = Target /\ Aligned'
  BY <1>1, SameTrees
<1>3. \A p \in Path : ~Doomed(p) /\ p \notin upds
  BY DEF CloseEdit, Doomed
<1>4. \A p \in Path \ mine : Done(p)
  BY <1>1, <1>3 DEF EditInv, EditPaths
<1>5. \A p \in Path : CacheOK(p, Target[p])
  BY <1>1, <1>3 DEF EditInv, EditCache
<1>6. \A p \in checks' : db'[p] # NoText
  BY <1>1 DEF CloseEdit
<1>7. IntegrityInv'
  BY <1>1, <1>2, <1>4, <1>5, <1>6 DEF IntegrityInv, Done, CacheOK
<1>8. QED
  BY <1>1, <1>7 DEF IInv

\* Only what the user has changed needs a file.
LEMMA NeedIsMine ==
  ASSUME TypeInv, IntegrityInv, NEW p \in checks, NeedFile(p), p \notin mine
  PROVE  Target[p].kind = "none"
<1>1. p \in Path /\ Done(p) /\ CacheOK(p, Target[p]) /\ db[p] # NoText
  BY DEF IntegrityInv, TypeInv, TypeOK
<1>2. QED
  BY <1>1 DEF NeedFile, Done, Counts, CacheOK, Same, IsFile

\* What the repair stage may leave behind when it ends early.
LEMMA IntegrityUnfinished ==
  ASSUME TypeInv, IntegrityInv, UNCHANGED <<mine, pending>>, pending # NoRev,
         revfile' \in {revfile, BlankRev, run.to},
         \A q \in Path \ mine : local'[q] = local[q],
         \A q \in Path : \/ db'[q] = db[q]
                         \/ db'[q] = NoText /\ (IsFile(Target[q]) => MayForget)
  PROVE  Unfinished'
<1>1. To' = Target
  BY DEF To, IntegrityInv, Aligned, Target
<1>2. From' \in {Source, EmptyTree, Target}
  BY RevAssumption DEF From, ReportedTree, IntegrityInv, Aligned, Target, TypeInv, TypeOK,
                       EditTypeOK, Run
<1>3. \A q \in Path : EmptyTree[q].kind = "none"
  BY DEF EmptyTree, Absent
<1>4. ASSUME NEW q \in Path \ mine PROVE Partial(q, From, To)'
  <2>1. Done(q) /\ local'[q] = local[q]
    BY DEF IntegrityInv
  <2>2. QED
    BY <1>1, <1>2, <1>3, <2>1 DEF Partial, Done, Counts, Same
<1>5. ASSUME NEW q \in Path PROVE CachePartial(q, From, To)'
  BY <1>1 DEF IntegrityInv, CachePartial, CacheOK
<1>6. QED
  BY <1>4, <1>5 DEF Unfinished

LEMMA CheckFileIntegrity ==
  ASSUME TypeInv, IInv, RepairInv, NEW p \in Path, CheckFile(p)
  PROVE  IInv'
<1> USE DEF TypeInv, TypeOK, EditTypeOK
<1>1. /\ IntegrityInv /\ p \in checks /\ pending # NoRev /\ pending' = pending
      /\ UNCHANGED <<run, revfile>> /\ checks' = checks \ {p} /\ db[p] # NoText
  BY DEF CheckFile, IInv, IntegrityInv, fileVars
<1>2. Source' = Source /\ Target' = Target /\ Aligned'
  BY <1>1 DEF IntegrityInv, Aligned, Source, Target, From
<1>3. CASE UNCHANGED <<treeVars, phase>>
  <2>1. UNCHANGED <<local, db, mine>> /\ phase' = "integrity"
    BY <1>3 DEF CheckFile, treeVars
  <2>2. IntegrityInv'
    BY <1>1, <1>2, <2>1 DEF IntegrityInv, Done, CacheOK
  <2>3. QED
    BY <1>1, <2>1, <2>2 DEF IInv
<1>4. CASE /\ NeedFile(p) /\ IsEntry(Target[p]) /\ ~Blocked(p)
           /\ local' = Restored(p)
           /\ Settle(p, local'[p])
           /\ UNCHANGED <<db, phase>>
  <2>1. \A q \in Above(p) : q \in Path /\ Target[q].kind = "dir"
    BY <1>4, EditTrees, TreeShape DEF IsEntry, Above
  <2>2. p \in mine
    BY <1>1, <1>4, NeedIsMine DEF IsEntry
  <2>3. \A q \in Path \ mine : local[q].kind = "none" => Target[q].kind = "none"
    BY <1>1 DEF IntegrityInv, Done, Counts, Same
  <2>4. \A q \in Path \ mine : local'[q] = local[q]
    BY <1>4, <2>1, <2>2, <2>3 DEF Restored
  <2>5. \A q \in Path \ mine' : Done(q)'
    BY <1>1, <1>2, <1>4, <2>4 DEF IntegrityInv, Done, Settle
  <2>6. phase' = "integrity"
    BY <1>4 DEF CheckFile
  <2>7. IntegrityInv'
    BY <1>1, <1>2, <1>4, <2>5 DEF IntegrityInv, CacheOK
  <2>8. QED
    BY <1>1, <2>6, <2>7 DEF IInv
<1>5. CASE phase' = "failed" /\ UNCHANGED treeVars
  BY <1>1, <1>5, IntegrityUnfinished DEF IInv, treeVars
<1>6. CASE /\ NeedFile(p) /\ GetFileMayFail(Target[p])
           /\ db' = [db EXCEPT ![p] = NoText]
           /\ local' = [local EXCEPT ![p] = Absent]
           /\ UNCHANGED <<mine, phase>>
  <2>1. p \notin mine => Target[p] = Absent
    BY <1>1, <1>6, NeedIsMine, EditTrees
  <2>2. phase' = "integrity"
    BY <1>6 DEF CheckFile
  <2>3. \A q \in Path \ mine : Done(q)'
    BY <1>1, <1>2, <1>6, <2>1 DEF IntegrityInv, Done, Same
  <2>4. \A q \in Path : CacheOK(q, Target[q])'
    <3>1. IsFile(Target[p]) => MayForget
      BY <1>1, <1>6 DEF GetFileMayFail, IsEntry, IsFile, RepairInv, MayForget
    <3>2. QED
      BY <1>1, <1>2, <1>6, <3>1 DEF IntegrityInv, CacheOK
  <2>5. \A q \in checks' : db'[q] # NoText
    BY <1>1, <1>6 DEF IntegrityInv
  <2>6. IntegrityInv'
    BY <1>2, <1>6, <2>3, <2>4, <2>5 DEF IntegrityInv
  <2>7. QED
    BY <1>1, <2>2, <2>6 DEF IInv
<1>7. QED
  BY <1>3, <1>4, <1>5, <1>6 DEF CheckFile

LEMMA FinishAtRest ==
  ASSUME TypeInv, IInv, Finish
  PROVE  IInv'
<1>1. /\ IntegrityInv /\ UNCHANGED <<local, db, mine>> /\ phase' = "idle"
      /\ pending' = NoRev /\ revfile' = run.to
  BY DEF Finish, IInv, treeVars
<1>2. From' = Target
  BY <1>1 DEF From, ReportedTree, Target, TypeInv, TypeOK, EditTypeOK, Run
<1>3. AtRest'
  BY <1>1, <1>2 DEF AtRest, IntegrityInv, Done, CacheOK
<1>4. QED
  BY <1>1, <1>3 DEF IInv

\* What a repair makes on its way is in the place of what the user took away.
LEMMA HalfRestoredMine ==
  ASSUME TypeInv, IntegrityInv, NEW p \in checks, NeedFile(p), IsEntry(Target[p]),
         HalfRestored(p)
  PROVE  p \in mine /\ \A q \in Path \ mine : local'[q] = local[q]
<1> USE DEF TypeInv, TypeOK, EditTypeOK
<1>1. p \in mine
  BY NeedIsMine DEF IsEntry
<1>2. \A q \in Above(p) : q \in Path /\ Target[q].kind = "dir"
  BY EditTrees, TreeShape DEF IsEntry, Above
<1>3. \A q \in Path \ mine : local[q].kind = "none" => Target[q].kind = "none"
  BY DEF IntegrityInv, Done, Counts, Same
<1>4. \A q \in Above(p) : q \notin mine => local[q].kind # "none"
  BY <1>2, <1>3
<1>5. ASSUME NEW made \in SUBSET MissingAbove(p),
             local' = [q \in Path |-> IF q \in made THEN Dir ELSE local[q]]
      PROVE  \A q \in Path \ mine : local'[q] = local[q]
  BY <1>4, <1>5 DEF MissingAbove
<1>6. ASSUME NEW t, local' = [Restored(p) EXCEPT ![p] = File(t, local[p].exec)]
      PROVE  \A q \in Path \ mine : local'[q] = local[q]
  BY <1>1, <1>4, <1>6 DEF Restored
<1>7. QED
  BY <1>1, <1>5, <1>6 DEF HalfRestored

LEMMA StoppedInIntegrityUnfinished ==
  ASSUME TypeInv, IInv, RepairInv, StoppedInIntegrity
  PROVE  IInv'
<1>1. /\ IntegrityInv /\ pending # NoRev /\ phase' = "stopped"
      /\ UNCHANGED <<mine, revfile, pending>>
  BY DEF StoppedInIntegrity, IInv
<1>2. \A q \in Path \ mine : local'[q] = local[q]
  <2>1. ASSUME NEW p \in checks, NeedFile(p), IsEntry(Target[p]), HalfRestored(p)
        PROVE  \A q \in Path \ mine : local'[q] = local[q]
    BY <1>1, <2>1, HalfRestoredMine
  <2>2. QED
    BY <2>1 DEF StoppedInIntegrity
<1>3. \A q \in Path : \/ db'[q] = db[q]
                      \/ db'[q] = NoText /\ (IsFile(Target[q]) => MayForget)
  <2>1. ASSUME NEW p \in checks, GetFileMayFail(Target[p]), IsFile(Target[p])
        PROVE  MayForget
    BY <2>1 DEF GetFileMayFail, IsEntry, IsFile, RepairInv, MayForget
  <2>2. QED
    BY <2>1 DEF StoppedInIntegrity, TypeInv, TypeOK, EditTypeOK
<1>4. QED
  BY <1>1, <1>2, <1>3, IntegrityUnfinished DEF IInv

LEMMA InitInv == Init => IInv
<1> SUFFICES ASSUME Init PROVE IInv
  OBVIOUS
<1>1. From = EmptyTree
  BY RevAssumption DEF Init, From, ReportedTree
<1>2. AtRest
  BY <1>1 DEF Init, AtRest, Same, CacheOK, IsFile, EmptyTree, Absent
<1>3. QED
  BY <1>2 DEF Init, IInv

-----------------------------------------------------------------------------
(***************************************************************************)
(* No file that a run leaves holds the text of a symlink, with -C.         *)
(***************************************************************************)
LEMMA TreesPlain ==
  ASSUME Repeated, "clear" \in Scenario, TypeInv, NEW p \in Path
  PROVE  /\ IsFile(Source[p]) => Source[p].text \notin LinkText
         /\ IsFile(Target[p]) => Target[p].text \notin LinkText
BY DEF Repeated, LinksApart, Source, Target, ReportedTree, EmptyTree, Absent, IsFile,
       TypeInv, TypeOK, EditTypeOK, Run

LEMMA PlainStart == Init => PlainInv
BY DEF Init, PlainInv, EmptyTree, Absent, IsFile

LEMMA PlainOne ==
  ASSUME TypeInv, PlainInv, NEW p \in Path, NEW n, local' = [local EXCEPT ![p] = n],
         \A q \in Path \ {p} : q \in mine => q \in mine',
         "clear" \in Scenario /\ p \notin mine' /\ IsFile(n) => n.text \notin LinkText
  PROVE  PlainInv'
BY DEF PlainInv, TypeInv, TypeOK, EditTypeOK

LEMMA PlainError ==
  ASSUME TypeInv, PlainInv, NEW p \in Path, NEW n, n = local[p] \/ n.kind = "none",
         ErrorLeaving(p, n)
  PROVE  PlainInv'
BY PlainOne DEF ErrorLeaving, Error, PlainInv, IsFile

LEMMA PlainDirs ==
  ASSUME TypeInv, PlainInv, NEW p \in Path,
         DeleteEntry(p) \/ AddDir(p) \/ OpenDir(p) \/ StopInDeleteEntry(p)
  PROVE  PlainInv'
<1>1. CASE DeleteEntry(p) \/ StopInDeleteEntry(p)
  BY <1>1 DEF DeleteEntry, StopInDeleteEntry, Stop, PlainInv, Absent, IsFile
<1>2. CASE MakeDir(p)
  BY <1>2, PlainOne DEF MakeDir, Settle, Dir, IsFile
<1>3. CASE ErrorLeaving(p, local[p])
  BY <1>3, PlainError
<1>4. CASE UNCHANGED treeVars
  BY <1>4 DEF treeVars, PlainInv
<1>5. QED
  BY <1>1, <1>2, <1>3, <1>4 DEF AddDir, OpenDir

LEMMA PlainFiles ==
  ASSUME Repeated, TypeInv, PlainInv, NEW p \in Path,
         AddFile(p) \/ OpenFile(p) \/ StopInOpenFile(p)
  PROVE  PlainInv'
<1>1. CASE UNCHANGED <<local, mine>>
  BY <1>1 DEF PlainInv
<1>2. CASE ErrorLeaving(p, local[p]) \/ ErrorLeaving(p, Absent)
  BY <1>2, PlainError DEF Absent
<1>3. CASE local' = [local EXCEPT ![p] = CheckedOut(Source[p], NoDoc)]
           /\ Settle(p, local'[p]) /\ IsEntry(Source[p])
  <2>1. "clear" \in Scenario /\ IsFile(CheckedOut(Source[p], NoDoc))
          => CheckedOut(Source[p], NoDoc).text \notin LinkText
    BY <1>3, TreesPlain DEF CheckedOut, File, IsFile, IsEntry
  <2>2. QED
    BY <1>3, <2>1, PlainOne DEF Settle
<1>4. CASE StopInOpenFile(p)
  <2>1. PICK n \in HalfWritten(Source[p].text, Source[p]) : local' = [local EXCEPT ![p] = n]
    BY <1>4 DEF StopInOpenFile
  <2>2. "clear" \in Scenario => n.text \notin LinkText
    BY <1>4, <2>1, TreesPlain, TextAssumption DEF StopInOpenFile, HalfWritten, File
  <2>3. QED
    BY <1>4, <2>1, <2>2, PlainOne DEF StopInOpenFile, Stop
<1>5. CASE AddFile(p)
  BY <1>1, <1>2, <1>5 DEF AddFile
<1>6. CASE OpenFile(p)
  <2>1. IsEntry(Source[p])
    BY <1>6 DEF OpenFile, FileCommand, IsEntry
  <2>2. QED
    BY <1>1, <1>2, <1>3, <1>6, <2>1 DEF OpenFile
<1>7. QED
  BY <1>4, <1>5, <1>6

LEMMA PlainCloseFile ==
  ASSUME Repeated, TypeInv, EditInv, PlainInv, CloseFile \/ StopInCloseFile
  PROVE  PlainInv'
<1> DEFINE p == doc.path
<1>1. Closing /\ p \in Path /\ Here = local[p] /\ Wanted = Target[p]
  BY ClosingFacts DEF CloseFile, StopInCloseFile
<1>2. "clear" \in Scenario /\ IsFile(Wanted) => Wanted.text \notin LinkText
  BY <1>1, TreesPlain
<1>3. CASE ErrorLeaving(p, Left)
  BY <1>1, <1>3, PlainError, LeftOver
<1>4. ASSUME NEW n, EditComplete(n), p \notin mine => Same(n, Wanted) PROVE PlainInv'
  <2>1. p \notin mine' => Same(n, Wanted)
    BY <1>1, <1>4 DEF EditComplete, Settle
  <2>2. "clear" \in Scenario /\ p \notin mine' /\ IsFile(n) => n.text \notin LinkText
    BY <1>2, <2>1 DEF Same, IsFile
  <2>3. QED
    BY <1>1, <1>4, <2>2, PlainOne DEF EditComplete, Settle
<1>5. CASE StopInCloseFile
  <2>1. PICK n \in CloseHalfway : local' = [local EXCEPT ![p] = n]
    BY <1>5 DEF StopInCloseFile
  <2>2. \/ n \in {Here, Absent, File(Empty, doc.exec), Link(Wanted.text)}
        \/ IsFile(Wanted) /\ n \in HalfWritten(Wanted.text, Here)
    BY <2>1 DEF CloseHalfway, BeingWritten
  <2>3. "clear" \in Scenario /\ p \notin mine /\ IsFile(n) => n.text \notin LinkText
    BY <1>1, <1>2, <2>2, TextAssumption DEF PlainInv, HalfWritten, File, Link, Absent, IsFile
  <2>4. QED
    BY <1>1, <1>5, <2>1, <2>3, PlainOne DEF StopInCloseFile, Stop
<1>6. QED
  BY <1>3, <1>4, <1>5, CloseFileRight DEF ClosedRight

LEMMA PlainEdit ==
  ASSUME Repeated, TypeInv, EditInv, PlainInv, EditCommand \/ StopInEdit
  PROVE  PlainInv'
<1>1. CASE \/ ApplyTextdelta \/ TextdeltaChunk
           \/ \E name \in {"exec", "special"} : ChangeFileProp(name)
  BY <1>1 DEF ApplyTextdelta, TextdeltaChunk, ChangeFileProp, treeVars, PlainInv
<1>2. CASE Stop /\ UNCHANGED local
  BY <1>2 DEF Stop, PlainInv
<1>3. QED
  BY <1>1, <1>2, PlainDirs, PlainFiles, PlainCloseFile DEF EditCommand, StopInEdit

LEMMA PlainCheckFile ==
  ASSUME Repeated, TypeInv, IntegrityInv, PlainInv, NEW p \in Path, CheckFile(p)
  PROVE  PlainInv'
<1>1. CASE UNCHANGED treeVars
  BY <1>1 DEF treeVars, PlainInv
<1>2. CASE /\ NeedFile(p) /\ IsEntry(Target[p])
           /\ local' = Restored(p) /\ Settle(p, local'[p])
  <2>1. p \in mine
    BY <1>2, NeedIsMine DEF CheckFile, IsEntry
  <2>2. "clear" \in Scenario /\ p \notin mine' /\ IsFile(local'[p])
          => local'[p].text \notin LinkText
    BY <1>2, <2>1, TreesPlain DEF Settle, Same, IsFile
  <2>3. \A q \in Path \ {p} : local'[q] = local[q] \/ ~IsFile(local'[q])
    BY <1>2 DEF Restored, Dir, IsFile
  <2>4. QED
    BY <1>2, <2>2, <2>3 DEF PlainInv, Settle
<1>3. CASE local' = [local EXCEPT ![p] = Absent] /\ UNCHANGED mine
  BY <1>3, PlainOne DEF Absent, IsFile
<1>4. QED
  BY <1>1, <1>2, <1>3 DEF CheckFile, treeVars

LEMMA PlainStoppedInIntegrity ==
  ASSUME TypeInv, IntegrityInv, PlainInv, StoppedInIntegrity
  PROVE  PlainInv'
<1>1. mine' = mine
  BY DEF StoppedInIntegrity
<1>2. \A q \in Path \ mine : local'[q] = local[q]
  BY HalfRestoredMine DEF StoppedInIntegrity
<1>3. QED
  BY <1>1, <1>2 DEF PlainInv

LEMMA EditingOnly ==
  ASSUME EditCommand \/ StopInEdit
  PROVE  phase = "edit"
BY DEF EditCommand, DeleteEntry, AddDir, OpenDir, DirCommand, AddFile, OpenFile,
       FileCommand, ApplyTextdelta, TextdeltaChunk, ChangeFileProp, CloseFile, Closing,
       StopInEdit, StopInCloseFile, StopInOpenFile, StopInDeleteEntry, BetweenFiles,
       Editing

LEMMA PlainStep ==
  ASSUME Repeated, TypeInv, IInv, PlainInv, [Next]_vars
  PROVE  PlainInv'
<1>1. CASE \/ CloseEdit \/ Finish \/ Quit \/ StoppedInFinish \/ UNCHANGED vars
           \/ \E to \in Rev, o \in Options : Start(to, o)
  <2>1. UNCHANGED <<local, mine>>
    BY <1>1 DEF CloseEdit, Finish, Quit, StoppedInFinish, Start, treeVars, vars, editVars
  <2>2. QED
    BY <2>1 DEF PlainInv
<1>2. CASE EditStep \/ StoppedInEdit
  <2>1. EditInv /\ (EditCommand \/ StopInEdit)
    BY <1>2, EditingOnly DEF EditStep, StoppedInEdit, IInv
  <2>2. QED
    BY <2>1, PlainEdit
<1>3. ASSUME NEW p \in Path, CheckFile(p) PROVE PlainInv'
  BY <1>3, PlainCheckFile DEF CheckFile, IInv
<1>4. CASE StoppedInIntegrity
  BY <1>4, PlainStoppedInIntegrity DEF StoppedInIntegrity, IInv
<1>5. ASSUME NEW p \in Path, Modify(p) PROVE PlainInv'
  BY <1>5 DEF Modify, PlainInv, TypeInv, TypeOK, EditTypeOK
<1>6. QED
  BY <1>1, <1>2, <1>3, <1>4, <1>5 DEF Next, Program, Environment

LEMMA IInvStep ==
  ASSUME Repeated, TypeInv, IInv, PlainInv, RepairInv, [Next]_vars
  PROVE  IInv'
<1>1. CASE UNCHANGED vars
  <2>1. /\ UNCHANGED <<local, db, mine, phase, run, dels, upds, doc, owed>>
        /\ UNCHANGED <<revfile, pending, checks>>
    BY <1>1 DEF vars, editVars, treeVars, driveVars, docVars, fileVars
  <2>2. Source' = Source /\ Target' = Target /\ From' = From /\ To' = To
    BY <2>1 DEF Source, Target, From, To
  <2>3. \A p \in Path : Doomed(p)' = Doomed(p) /\ Opened(p)' = Opened(p)
    BY <2>1, <2>2 DEF Doomed, Opened
  <2>4. phase = "edit" /\ EditInv => EditInv'
    <3>1. EditDoc => EditDoc'
      BY <2>1, <2>2, <2>3 DEF EditDoc
    <3>2. Aligned /\ EditSets /\ EditPaths /\ EditCache /\ EditTolerant
            => (Aligned /\ EditSets /\ EditPaths /\ EditCache /\ EditTolerant)'
      BY <2>1, <2>2, <2>3 DEF Aligned, EditSets, EditPaths, EditCache, EditTolerant,
                              Partial, Ready, Done, CachePartial, CacheOK
    <3>3. QED
      BY <3>1, <3>2 DEF EditInv
  <2>5. /\ AtRest => AtRest'
        /\ Unfinished => Unfinished'
        /\ IntegrityInv => IntegrityInv'
    BY <2>1, <2>2 DEF AtRest, Unfinished, IntegrityInv, Aligned, Partial, Done, CachePartial, CacheOK
  <2>6. QED
    BY <2>1, <2>4, <2>5 DEF IInv
<1>2. CASE EditStep
  <2>1. /\ EditInv /\ EditCommand /\ pending # NoRev
        /\ UNCHANGED <<revfile, pending>>
    <3>1. phase = "edit"
      BY <1>2 DEF EditStep, EditCommand, DeleteEntry, AddDir, OpenDir, DirCommand, AddFile,
                  OpenFile, FileCommand, BetweenFiles, Editing, ApplyTextdelta,
                  TextdeltaChunk, ChangeFileProp, CloseFile, Closing
    <3>2. QED
      BY <1>2, <3>1 DEF EditStep, IInv, fileVars
  <2>2. phase' \in {"edit", "failed"}
    BY <2>1, <1>2 DEF EditStep, EditCommand, DeleteEntry, AddDir, OpenDir, DirCommand,
         MakeDir, ErrorLeaving, Error, Begin, AddFile, OpenFile, FileCommand, BetweenFiles,
         Editing, ApplyTextdelta, TextdeltaChunk, ChangeFileProp, CloseFile, Closing,
         CloseAlreadyTarget, CloseTolerated, CloseCheckout, CloseBadDelta, CloseSymlink,
         CloseRelink, CloseWrite, EditComplete
  <2>3. QED
    BY <2>1, <2>2, EditCommandAfter DEF After, IInv
<1>3. CASE Quit
  <2>1. UNCHANGED <<local, db, mine, revfile, pending>> /\ phase' = "idle"
    BY <1>3 DEF Quit, treeVars, fileVars
  <2>2. Unfinished' /\ pending' # NoRev
    BY <1>3, <2>1 DEF Quit, IInv, Unfinished, Partial, CachePartial, CacheOK, From, To
  <2>3. QED
    BY <2>1, <2>2 DEF IInv
<1>4. CASE StoppedInEdit
  <2>1. phase = "edit" /\ phase' = "stopped" /\ UNCHANGED <<revfile, pending>>
    BY <1>4 DEF StoppedInEdit, StopInEdit, StopInCloseFile, StopInOpenFile,
                StopInDeleteEntry, Stop, Closing, Editing, FileCommand, BetweenFiles
  <2>2. Unfinished'
    BY <1>4, <2>1, StopInEditUnfinished DEF StoppedInEdit, IInv
  <2>3. QED
    BY <2>1, <2>2 DEF IInv
<1>5. CASE StoppedInFinish
  <2>1. /\ IntegrityInv /\ pending # NoRev /\ phase' = "stopped"
        /\ UNCHANGED <<local, db, mine, pending>> /\ revfile' \in {BlankRev, run.to}
    BY <1>5 DEF StoppedInFinish, IInv, treeVars
  <2>2. QED
    BY <2>1, IntegrityUnfinished DEF IInv
<1>6. ASSUME NEW p \in Path, Modify(p) PROVE IInv'
  <2>1. /\ UNCHANGED <<db, revfile, pending>> /\ phase = "idle" /\ phase' = "idle"
        /\ mine' = mine \cup {p} /\ \A q \in Path \ {p} : local'[q] = local[q]
    BY <1>6 DEF Modify, fileVars, TypeInv, TypeOK, EditTypeOK
  <2>2. From' = From /\ To' = To
    BY <2>1 DEF From, To
  <2>3. /\ AtRest => AtRest'
        /\ Unfinished => Unfinished'
    BY <2>1, <2>2 DEF AtRest, Unfinished, Partial, CachePartial, CacheOK
  <2>4. QED
    BY <2>1, <2>3 DEF IInv
<1>7. QED
  BY <1>1, <1>2, <1>3, <1>4, <1>5, <1>6, StartEdit, CloseEditIntegrity, CheckFileIntegrity,
     FinishAtRest, StoppedInIntegrityUnfinished DEF Next, Program, Environment

LEMMA RepeatedInvariants ==
  ASSUME Repeated
  PROVE  Spec => [](TypeInv /\ IInv)
<1>1. Init => TypeInv /\ IInv /\ PlainInv /\ RepairInv
  BY TypeInit, InitInv, PlainStart, RepairInit
<1>2. TypeInv /\ IInv /\ PlainInv /\ RepairInv /\ [Next]_vars
        => (TypeInv /\ IInv /\ PlainInv /\ RepairInv)'
  BY TypeStep, IInvStep, PlainStep, RepairStep
<1>3. QED
  BY <1>1, <1>2, PTL DEF Spec

LEMMA InvariantsHold ==
  ASSUME Orderly
  PROVE  Spec => [](TypeInv /\ IInv)
BY RepeatedInvariants DEF Orderly, Repeated

(***************************************************************************)
(* The recorded revision names the tree on disk, whatever is interrupted   *)
(* where and however often, whatever the user changes between runs, for    *)
(* every repository, if unfinished runs are repeated as Orderly says.      *)
(***************************************************************************)
THEOREM RecordedTreeCorrect ==
  ASSUME Orderly
  PROVE  Spec => []RecordedTree
<1>1. Spec => [](TypeInv /\ IInv)
  BY InvariantsHold
<1>2. TypeInv /\ IInv => RecordedTree
  BY DEF IInv, RecordedTree, Recorded, AtRest, Counts, From, ReportedTree, Orderly
<1>3. QED
  BY <1>1, <1>2, PTL

(***************************************************************************)
(* With -C at any time too: all that the recorded revision has is there,   *)
(* the user's changes apart, for every repository in which no file holds   *)
(* the text of a symlink, if unfinished runs are repeated as Repeated says.*)
(* What -C makes a run forget may stay behind, so it is not the whole tree.*)
(***************************************************************************)
THEOREM TargetPresentCorrect ==
  ASSUME Repeated
  PROVE  Spec => []TargetPresent
<1>1. Spec => [](TypeInv /\ IInv)
  BY RepeatedInvariants
<1>2. TypeInv /\ IInv => TargetPresent
  BY DEF IInv, TargetPresent, Recorded, AtRest, Counts, From, ReportedTree
<1>3. QED
  BY <1>1, <1>2, PTL

(***************************************************************************)
(* ... and the cache holds the checksum of every file of that revision, the*)
(* user's changes or not, unless -R is used and requests may fail: a repair*)
(* stage that cannot fetch a file forgets its checksum.                    *)
(***************************************************************************)
THEOREM RecordedCacheCorrect ==
  ASSUME Repeated, ~({"repair", "getfile"} \subseteq Scenario)
  PROVE  Spec => []RecordedCache
<1>1. Spec => [](TypeInv /\ IInv)
  BY RepeatedInvariants
<1>2. TypeInv /\ IInv => RecordedCache
  BY DEF IInv, RecordedCache, Recorded, AtRest, CacheOK, MayForget, From, ReportedTree
<1>3. QED
  BY <1>1, <1>2, PTL

-----------------------------------------------------------------------------
(***************************************************************************)
(* Svnup implements WorkingCopy: every step of a run, of a stop or of the  *)
(* user is a step of the abstract specification under the mapping of       *)
(* Svnup!Copy, or changes nothing it sees.                                 *)
(***************************************************************************)

\* What both revisions have, or lack, and the user left alone.
Agreed(p) == Source[p] = Target[p] /\ p \notin mine

\* A step of a run, as WorkingCopy!Work has it.
Spares ==
  /\ \A p \in Path : Agreed(p) => local'[p] = local[p]
  /\ mine' \subseteq mine

LEMMA SparesIsWork ==
  ASSUME TypeInv, pending \in Rev, Aligned, Spares, UNCHANGED <<revfile, pending>>
  PROVE  Copy!Work
<1>1. Target = Repo[pending]
  BY DEF Aligned, Target
<1>2. Source = Copy!ReportedTree(IF revfile \in Rev THEN revfile ELSE NoRev)
  BY RevAssumption DEF Aligned, From, ReportedTree, Copy!ReportedTree, EmptyTree,
     Copy!EmptyTree, Absent, Copy!Absent
<1>3. QED
  BY <1>1, <1>2 DEF Spares, Agreed, Copy!Work

-----------------------------------------------------------------------------
(***************************************************************************)
(* The edit.                                                               *)
(***************************************************************************)
LEMMA AgreedIsHere ==
  ASSUME Orderly, TypeInv, EditInv, NEW p \in Path, Agreed(p)
  PROVE  local[p].kind = Target[p].kind
BY DEF Agreed, EditInv, EditPaths, Partial, Ready, Done, Counts, Orderly, Same

LEMMA HereIsNode ==
  ASSUME TypeInv, NEW p \in Path
  PROVE  /\ local[p].kind = "none" => local[p] = Absent
         /\ local[p].kind = "dir" => local[p] = Dir
BY NodeFields DEF TypeInv, TypeOK, EditTypeOK

LEMMA AgreedStays ==
  ASSUME Orderly, TypeInv, EditInv, NEW p \in Path, NEW d \in dels, Agreed(p),
         p = d \/ p \in Below(d)
  PROVE  local[p] = Absent
<1>1. ({p} \cup Above(p)) \cap Deleted(Source, Target) # {}
  BY DEF EditInv, EditSets, TypeInv, TypeOK, EditTypeOK, Above, Below
<1>2. Target[p].kind = "none"
  BY <1>1, EditTrees, DeletedChanges DEF Agreed
<1>3. QED
  BY <1>2, AgreedIsHere, HereIsNode

LEMMA DirsSpare ==
  ASSUME Orderly, TypeInv, EditInv, NEW p \in Path, DeleteEntry(p) \/ AddDir(p) \/ OpenDir(p)
  PROVE  Spares
<1> USE DEF TypeInv, TypeOK, EditTypeOK
<1>1. CASE DeleteEntry(p)
  BY <1>1, AgreedStays DEF DeleteEntry, Spares
<1>2. ASSUME DirCommand(p), MakeDir(p) PROVE Spares
  <2>1. Agreed(p) => local[p] = Dir
    BY <1>2, AgreedIsHere, HereIsNode DEF DirCommand
  <2>2. QED
    BY <1>2, <2>1 DEF MakeDir, Settle, Spares
<1>3. ASSUME ErrorLeaving(p, local[p]) PROVE Spares
  BY <1>3 DEF ErrorLeaving, Error, Spares
<1>4. CASE UNCHANGED treeVars
  BY <1>4 DEF treeVars, Spares
<1>5. QED
  BY <1>1, <1>2, <1>3, <1>4 DEF AddDir, OpenDir

LEMMA FilesSpare ==
  ASSUME Orderly, TypeInv, EditInv, NEW p \in Path, AddFile(p) \/ OpenFile(p) \/ StopInOpenFile(p)
  PROVE  Spares
<1> USE DEF TypeInv, TypeOK, EditTypeOK
<1>1. CASE UNCHANGED <<local, mine>>
  BY <1>1 DEF Spares
<1>2. ASSUME ErrorLeaving(p, local[p]) PROVE Spares
  BY <1>2 DEF ErrorLeaving, Error, Spares
<1>3. ASSUME NEW n, FileCommand(p), local[p].kind = "none",
             local' = [local EXCEPT ![p] = n], mine' \subseteq mine
      PROVE  Spares
  <2>1. ~Agreed(p)
    BY <1>3, AgreedIsHere DEF FileCommand, IsEntry
  <2>2. QED
    BY <1>3, <2>1 DEF Spares
<1>4. CASE AddFile(p)
  BY <1>1, <1>2, <1>4 DEF AddFile
<1>5. CASE OpenFile(p)
  BY <1>1, <1>2, <1>3, <1>5 DEF OpenFile, Settle, ErrorLeaving, Error
<1>6. CASE StopInOpenFile(p)
  BY <1>3, <1>6 DEF StopInOpenFile, Stop
<1>7. QED
  BY <1>4, <1>5, <1>6

LEMMA CloseFileSpares ==
  ASSUME TypeInv, EditInv, CloseFile \/ StopInCloseFile
  PROVE  Spares
<1> USE DEF TypeInv, TypeOK, EditTypeOK
<1>1. doc.path \in Path /\ ~Agreed(doc.path)
  BY DEF CloseFile, StopInCloseFile, Closing, EditInv, EditDoc, Agreed
<1>2. ASSUME NEW n, local' = [local EXCEPT ![doc.path] = n], mine' \subseteq mine
      PROVE  Spares
  BY <1>1, <1>2 DEF Spares
<1>3. ASSUME NEW n, EditComplete(n) \/ ErrorLeaving(doc.path, n) PROVE Spares
  BY <1>2, <1>3 DEF EditComplete, ErrorLeaving, Error, Settle
<1>4. CASE StopInCloseFile
  BY <1>2, <1>4 DEF StopInCloseFile, Stop
<1>5. CASE CloseFile
  BY <1>3, <1>5 DEF CloseFile, CloseAlreadyTarget, CloseTolerated, CloseCheckout,
                    CloseBadDelta, CloseSymlink, CloseRelink, CloseWrite
<1>6. QED
  BY <1>4, <1>5

LEMMA EditSpares ==
  ASSUME Orderly, TypeInv, EditInv, EditCommand \/ StopInEdit
  PROVE  Spares
<1> USE DEF TypeInv, TypeOK, EditTypeOK
<1>1. ASSUME NEW p \in Path, StopInDeleteEntry(p) PROVE Spares
  BY <1>1, AgreedStays DEF StopInDeleteEntry, Stop, Spares
<1>2. CASE UNCHANGED local /\ Stop
  BY <1>2 DEF Stop, Spares
<1>3. CASE ApplyTextdelta \/ TextdeltaChunk \/ \E name \in {"exec", "special"} : ChangeFileProp(name)
  BY <1>3 DEF ApplyTextdelta, TextdeltaChunk, ChangeFileProp, treeVars, Spares
<1>4. QED
  BY <1>1, <1>2, <1>3, DirsSpare, FilesSpare, CloseFileSpares DEF EditCommand, StopInEdit

-----------------------------------------------------------------------------
(***************************************************************************)
(* The repair stage, and the end of the run.                               *)
(***************************************************************************)
LEMMA CheckFileSpares ==
  ASSUME Orderly, TypeInv, IntegrityInv, NEW p \in Path, CheckFile(p)
  PROVE  Spares
<1> USE DEF TypeInv, TypeOK, EditTypeOK
<1>1. CASE UNCHANGED treeVars
  BY <1>1 DEF treeVars, Spares
<1>2. CASE /\ NeedFile(p) /\ IsEntry(Target[p])
           /\ local' = Restored(p)
           /\ Settle(p, local'[p])
  <2>1. p \in mine
    BY <1>2, NeedIsMine DEF CheckFile, IsEntry
  <2>2. \A q \in Above(p) : q \in Path /\ Target[q].kind = "dir"
    BY <1>2, EditTrees, TreeShape DEF IsEntry, Above
  <2>3. \A q \in Path \ mine : local[q].kind = Target[q].kind
    BY DEF IntegrityInv, Done, Counts, Orderly, Same
  <2>4. QED
    BY <1>2, <2>1, <2>2, <2>3 DEF Restored, Settle, Spares, Agreed
<1>3. CASE /\ NeedFile(p)
           /\ local' = [local EXCEPT ![p] = Absent]
           /\ UNCHANGED mine
  <2>1. p \notin mine => local[p] = Absent
    BY <1>3, NeedIsMine, HereIsNode DEF CheckFile, IntegrityInv, Done, Counts, Orderly, Same
  <2>2. QED
    BY <1>3, <2>1 DEF Spares, Agreed
<1>4. QED
  BY <1>1, <1>2, <1>3 DEF CheckFile, treeVars

LEMMA StoppedInIntegritySpares ==
  ASSUME TypeInv, IntegrityInv, StoppedInIntegrity
  PROVE  Spares
<1>1. ASSUME NEW p \in checks, NeedFile(p), IsEntry(Target[p]), HalfRestored(p),
             UNCHANGED mine
      PROVE  Spares
  BY <1>1, HalfRestoredMine DEF Spares, Agreed
<1>2. CASE UNCHANGED local
  BY <1>2 DEF StoppedInIntegrity, Spares
<1>3. QED
  BY <1>1, <1>2 DEF StoppedInIntegrity

LEMMA IntegrityComplete ==
  ASSUME Orderly, TypeInv, IntegrityInv, pending \in Rev
  PROVE  Copy!Complete /\ run.to = pending
BY DEF IntegrityInv, Done, Counts, Orderly, Aligned, Target, Copy!Complete, Same, Copy!Same

-----------------------------------------------------------------------------
(***************************************************************************)
(* The steps.                                                              *)
(***************************************************************************)
LEMMA InitImplements ==
  ASSUME Init
  PROVE  Copy!Init
BY RevAssumption DEF Init, Copy!Init, EmptyTree, Copy!EmptyTree, Absent, Copy!Absent

LEMMA StartImplements ==
  ASSUME Orderly, NEW to \in Rev, NEW o \in Options, Start(to, o)
  PROVE  Copy!Begin(to)
<1>1. o.clear = FALSE /\ pending \in {NoRev, to}
  BY DEF Start, Allowed, Options, Orderly
<1>2. QED
  BY <1>1 DEF Start, Copy!Begin

LEMMA ModifyImplements ==
  ASSUME TypeInv, NEW p \in Path, Modify(p)
  PROVE  Copy!Touch(p)
<1>1. PICK n \in UserNodes(p) : local' = [local EXCEPT ![p] = n]
  BY DEF Modify
<1>2. local' \in [Path -> Node] /\ local'[p] = n
  BY <1>1, TypeModify DEF TypeInv, TypeOK, EditTypeOK
<1>3. n \in Copy!Node
  BY <1>2 DEF Node, Copy!Node, Absent, Copy!Absent, Dir, Copy!Dir
<1>4. QED
  BY <1>1, <1>3 DEF Modify, fileVars, Copy!Touch

LEMMA EditIsEditing ==
  ASSUME EditCommand \/ StopInEdit
  PROVE  phase = "edit"
BY DEF EditCommand, DeleteEntry, AddDir, OpenDir, DirCommand, AddFile, OpenFile,
       FileCommand, ApplyTextdelta, TextdeltaChunk, ChangeFileProp, CloseFile, Closing,
       StopInEdit, StopInCloseFile, StopInOpenFile, StopInDeleteEntry, BetweenFiles,
       Editing

LEMMA StepImplements ==
  ASSUME Orderly, TypeInv, IInv, [Next]_vars
  PROVE  [Copy!Next]_Copy!vars
<1>1. CASE UNCHANGED vars
  BY <1>1 DEF vars, editVars, treeVars, fileVars, Copy!vars
<1>2. ASSUME NEW to \in Rev, NEW o \in Options, Start(to, o) PROVE Copy!Next
  BY <1>2, StartImplements DEF Copy!Next
<1>3. CASE EditStep \/ StoppedInEdit
  <2>1. EditInv /\ pending # NoRev
    BY <1>3, EditIsEditing DEF EditStep, StoppedInEdit, IInv
  <2>2. Spares /\ UNCHANGED <<revfile, pending>>
    BY <1>3, <2>1, EditSpares DEF EditStep, StoppedInEdit, fileVars
  <2>3. QED
    BY <2>1, <2>2, SparesIsWork DEF EditInv, TypeInv, TypeOK, Copy!Next
<1>4. CASE CloseEdit \/ Quit
  BY <1>4 DEF CloseEdit, Quit, treeVars, fileVars, Copy!vars
<1>5. CASE (\E p \in Path : CheckFile(p)) \/ StoppedInIntegrity
  <2>1. IntegrityInv /\ pending # NoRev
    BY <1>5 DEF CheckFile, StoppedInIntegrity, IInv
  <2>2. Spares /\ UNCHANGED <<revfile, pending>>
    BY <1>5, <2>1, CheckFileSpares, StoppedInIntegritySpares
       DEF CheckFile, StoppedInIntegrity, fileVars
  <2>3. QED
    BY <2>1, <2>2, SparesIsWork DEF IntegrityInv, TypeInv, TypeOK, Copy!Next
<1>6. CASE Finish \/ StoppedInFinish
  <2>1. IntegrityInv /\ pending \in Rev
    BY <1>6 DEF Finish, StoppedInFinish, IInv, TypeInv, TypeOK
  <2>2. Copy!Complete /\ run.to = pending
    BY <2>1, IntegrityComplete
  <2>3. CASE Finish
    BY <2>1, <2>2, <2>3 DEF Finish, treeVars, Copy!Commit, Copy!Next
  <2>4. CASE StoppedInFinish
    BY <2>1, <2>2, <2>4, RevAssumption DEF StoppedInFinish, treeVars, Copy!Record, Copy!Next
  <2>5. QED
    BY <1>6, <2>3, <2>4
<1>7. ASSUME NEW p \in Path, Modify(p) PROVE Copy!Next
  BY <1>7, ModifyImplements DEF Copy!Next
<1>8. QED
  BY <1>1, <1>2, <1>3, <1>4, <1>5, <1>6, <1>7 DEF Next, Program, Environment

(***************************************************************************)
(* For every repository, any number of stops, failures and changes of the  *)
(* user: the runs of svnup are one update of the working copy after the    *)
(* other, and what no update is about is never touched (Implements), if    *)
(* unfinished runs are repeated as Orderly says.                           *)
(***************************************************************************)
THEOREM SvnupImplementsWorkingCopy ==
  ASSUME Orderly
  PROVE  Spec => Implements
<1>1. Spec => [](TypeInv /\ IInv)
  BY InvariantsHold
<1>2. Init => Copy!Init
  BY InitImplements
<1>3. TypeInv /\ IInv /\ [Next]_vars => [Copy!Next]_Copy!vars
  BY StepImplements
<1>4. QED
  BY <1>1, <1>2, <1>3, PTL DEF Spec, Implements, Copy!Spec

-----------------------------------------------------------------------------
(***************************************************************************)
(* What a run may touch and what it has put right when it is done with a   *)
(* file; what it is never refused and what -R restores.                    *)
(***************************************************************************)

-----------------------------------------------------------------------------
(***************************************************************************)
(* What the server has still to send is about entries of the target.       *)
(***************************************************************************)
ServerInv ==
  phase = "edit" =>
    /\ \A p \in upds : Target[p].kind # "none"
    /\ doc # NoDoc => IsEntry(Target[doc.path])

LEMMA DirsServer ==
  ASSUME ServerInv, NEW p \in Path, DeleteEntry(p) \/ AddDir(p) \/ OpenDir(p)
  PROVE  ServerInv'
<1>1. Target' = Target /\ upds' \subseteq upds /\ doc' \in {doc, NoDoc} /\ phase = "edit"
  BY DEF DeleteEntry, AddDir, OpenDir, DirCommand, BetweenFiles, Editing, MakeDir,
         ErrorLeaving, Error, driveVars, docVars, Target
<1>2. QED
  BY <1>1 DEF ServerInv

LEMMA FilesServer ==
  ASSUME TypeInv, ServerInv, NEW p \in Path, AddFile(p) \/ OpenFile(p)
  PROVE  ServerInv'
<1>1. Target' = Target /\ upds' \subseteq upds /\ phase = "edit" /\ IsEntry(Target[p])
  BY DEF AddFile, OpenFile, FileCommand, BetweenFiles, Editing, Begin, ErrorLeaving,
         Error, driveVars, Target
<1>2. doc' = NoDoc \/ doc'.path = p
  BY DEF AddFile, OpenFile, Begin, ErrorLeaving, Error, NoDoc, TypeInv, TypeOK,
         EditTypeOK, Doc
<1>3. QED
  BY <1>1, <1>2 DEF ServerInv

LEMMA DocServer ==
  ASSUME TypeInv, ServerInv,
         \/ ApplyTextdelta \/ TextdeltaChunk \/ CloseFile
         \/ \E name \in {"exec", "special"} : ChangeFileProp(name)
  PROVE  ServerInv'
<1> USE DEF TypeInv, TypeOK, EditTypeOK, Doc
<1>1. CASE CloseFile
  <2>1. Target' = Target /\ upds' = upds /\ doc' = NoDoc /\ phase = "edit"
    BY <1>1 DEF CloseFile, Closing, Editing, CloseAlreadyTarget, CloseTolerated,
                CloseCheckout, CloseBadDelta, CloseSymlink, CloseRelink, CloseWrite,
                EditComplete, ErrorLeaving, Error, driveVars, Target
  <2>2. QED
    BY <2>1 DEF ServerInv
<1>2. CASE \/ ApplyTextdelta \/ TextdeltaChunk
           \/ \E name \in {"exec", "special"} : ChangeFileProp(name)
  <2>1. Target' = Target /\ upds' = upds /\ doc'.path = doc.path /\ phase = "edit"
    BY <1>2 DEF ApplyTextdelta, TextdeltaChunk, ChangeFileProp, Editing, driveVars, Target
  <2>2. doc # NoDoc
    <3>1. owed # {}
      BY <1>2 DEF ApplyTextdelta, TextdeltaChunk, ChangeFileProp
    <3>2. QED
      BY <3>1, DocNone DEF DocOK
  <2>3. QED
    BY <2>1, <2>2 DEF ServerInv
<1>3. QED
  BY <1>1, <1>2

LEMMA StartServer ==
  ASSUME TypeInv, NEW to \in Rev, NEW o \in Options, Start(to, o)
  PROVE  ServerInv'
<1>1. Target' = Repo[to] /\ upds' \subseteq {p \in Path : Repo[to][p].kind # "none"}
  BY DEF Start, Target, Updated
<1>2. doc' = NoDoc
  BY DEF Start, docVars, TypeInv, DocOK
<1>3. QED
  BY <1>1, <1>2 DEF ServerInv

LEMMA ServerStep ==
  ASSUME TypeInv, ServerInv, [Next]_vars
  PROVE  ServerInv'
<1>1. CASE UNCHANGED vars
  BY <1>1 DEF vars, editVars, driveVars, docVars, ServerInv, Target
<1>2. CASE EditStep
  BY <1>2, DirsServer, FilesServer, DocServer DEF EditStep, EditCommand
<1>3. CASE \/ CloseEdit \/ Finish \/ Quit \/ StoppedInEdit \/ StoppedInIntegrity
           \/ StoppedInFinish \/ \E p \in Path : CheckFile(p) \/ Modify(p)
  BY <1>3 DEF CloseEdit, Finish, Quit, StoppedInEdit, StopInEdit, StopInCloseFile,
              StopInOpenFile, StopInDeleteEntry, Stop, StoppedInIntegrity,
              StoppedInFinish, CheckFile, Modify, ServerInv
<1>4. QED
  BY <1>1, <1>2, <1>3, StartServer DEF Next, Program, Environment

LEMMA ServerInvariant == Spec => [](TypeInv /\ RepairInv /\ ServerInv)
<1>1. Init => TypeInv /\ RepairInv /\ ServerInv
  BY TypeInit, RepairInit DEF Init, ServerInv
<1>2. TypeInv /\ RepairInv /\ ServerInv /\ [Next]_vars => (TypeInv /\ RepairInv /\ ServerInv)'
  BY TypeStep, RepairStep, ServerStep
<1>3. QED
  BY <1>1, <1>2, PTL DEF Spec

-----------------------------------------------------------------------------
(***************************************************************************)
(* What an edit touches.                                                   *)
(***************************************************************************)
Touchable(p) ==
  \/ ({p} \cup Above(p)) \cap dels # {}
  \/ p \in upds
  \/ doc # NoDoc /\ p = doc.path

TouchesOnly == \A p \in Path : ~Touchable(p) => local'[p] = local[p]

LEMMA DirsTouch ==
  ASSUME TypeInv, NEW d \in Path,
         DeleteEntry(d) \/ AddDir(d) \/ OpenDir(d) \/ StopInDeleteEntry(d)
  PROVE  TouchesOnly
<1> USE DEF TypeInv, TypeOK, EditTypeOK, TouchesOnly, Touchable
<1>1. CASE DeleteEntry(d) \/ StopInDeleteEntry(d)
  BY <1>1 DEF DeleteEntry, StopInDeleteEntry, Above, Below
<1>2. CASE AddDir(d) \/ OpenDir(d)
  BY <1>2 DEF AddDir, OpenDir, DirCommand, MakeDir, ErrorLeaving, treeVars
<1>3. QED
  BY <1>1, <1>2

LEMMA FilesTouch ==
  ASSUME TypeInv, NEW f \in Path, AddFile(f) \/ OpenFile(f) \/ StopInOpenFile(f)
  PROVE  TouchesOnly
BY DEF TypeInv, TypeOK, EditTypeOK, TouchesOnly, Touchable, AddFile, OpenFile,
       StopInOpenFile, FileCommand, ErrorLeaving

LEMMA DocTouches ==
  ASSUME TypeInv,
         \/ ApplyTextdelta \/ TextdeltaChunk \/ CloseFile \/ StopInCloseFile
         \/ \E name \in {"exec", "special"} : ChangeFileProp(name)
  PROVE  TouchesOnly
<1> USE DEF TypeInv, TypeOK, EditTypeOK, TouchesOnly, Touchable
<1>1. ASSUME NEW n, doc # NoDoc, EditComplete(n) \/ ErrorLeaving(doc.path, n) PROVE TouchesOnly
  BY <1>1 DEF EditComplete, ErrorLeaving
<1>2. CASE CloseFile
  <2>1. doc # NoDoc
    BY <1>2 DEF CloseFile, Closing
  <2>2. QED
    BY <1>1, <1>2, <2>1
       DEF CloseFile, CloseAlreadyTarget, CloseTolerated, CloseCheckout, CloseBadDelta,
           CloseSymlink, CloseRelink, CloseWrite
<1>3. CASE StopInCloseFile
  BY <1>3 DEF StopInCloseFile, Closing
<1>4. CASE \/ ApplyTextdelta \/ TextdeltaChunk
           \/ \E name \in {"exec", "special"} : ChangeFileProp(name)
  BY <1>4 DEF ApplyTextdelta, TextdeltaChunk, ChangeFileProp, treeVars
<1>5. QED
  BY <1>2, <1>3, <1>4

LEMMA EditTouches ==
  ASSUME TypeInv, EditCommand \/ StopInEdit
  PROVE  TouchesOnly
<1>1. CASE UNCHANGED local
  BY <1>1 DEF TouchesOnly
<1>2. QED
  BY <1>1, DirsTouch, FilesTouch, DocTouches DEF EditCommand, StopInEdit

LEMMA StepKeepsUntracked ==
  ASSUME "repair" \notin Scenario, TypeInv, RepairInv, ServerInv, [Next]_vars,
         NEW p \in Path, phase \in {"edit", "integrity"}, Untracked(p)
  PROVE  local'[p] = local[p]
<1>1. CASE EditStep \/ StoppedInEdit
  <2>1. phase = "edit"
    BY <1>1 DEF EditStep, EditCommand, DeleteEntry, AddDir, OpenDir, DirCommand, AddFile,
                OpenFile, FileCommand, BetweenFiles, ApplyTextdelta, TextdeltaChunk,
                ChangeFileProp, CloseFile, Closing, Editing, StoppedInEdit, StopInEdit,
                StopInCloseFile, StopInOpenFile, StopInDeleteEntry
  <2>2. ~Touchable(p)
    BY <2>1 DEF Touchable, Untracked, ServerInv, IsEntry
  <2>3. QED
    BY <1>1, <2>2, EditTouches DEF EditStep, StoppedInEdit, TouchesOnly
<1>2. CASE (\E q \in Path : CheckFile(q)) \/ StoppedInIntegrity
  <2>1. checks = {}
    BY DEF RepairInv
  <2>2. QED
    BY <1>2, <2>1 DEF CheckFile, StoppedInIntegrity
<1>3. CASE CloseEdit \/ Finish \/ Quit \/ StoppedInFinish \/ UNCHANGED vars
  BY <1>3 DEF CloseEdit, Finish, Quit, StoppedInFinish, treeVars, vars, editVars
<1>4. CASE \E to \in Rev, o \in Options : Start(to, o)
  BY <1>4 DEF Start
<1>5. CASE \E q \in Path : Modify(q)
  BY <1>5 DEF Modify
<1>6. QED
  BY <1>1, <1>2, <1>3, <1>4, <1>5 DEF Next, Program, Environment

(***************************************************************************)
(* Without -R, no run touches what neither of its two revisions has,       *)
(* unless a directory above it is deleted: for every repository, every     *)
(* option and every fault.                                                 *)
(***************************************************************************)
THEOREM UntrackedIsKept ==
  ASSUME "repair" \notin Scenario
  PROVE  Spec => UntrackedKept
<1> DEFINE Kept == \A p \in Path :
                     phase \in {"edit", "integrity"} /\ Untracked(p) => local'[p] = local[p]
<1>1. TypeInv /\ RepairInv /\ ServerInv /\ [Next]_vars => [Kept]_vars
  BY StepKeepsUntracked
<1>2. QED
  BY <1>1, ServerInvariant, PTL DEF Spec, UntrackedKept

-----------------------------------------------------------------------------
(***************************************************************************)
(* What close-file leaves of a file it was sent a delta for.               *)
(***************************************************************************)
PutRight ==
  /\ local'[doc.path].text = Wanted.text
  /\ Wanted.text \in LinkText \/ Same(local'[doc.path], Wanted)

LEMMA CloseFilePutsRight ==
  ASSUME TypeInv, ServerInv, CloseFile, phase' = "edit", ~run.tolerant, doc.delta # "none"
  PROVE  PutRight
<1> USE DEF TypeInv, TypeOK, EditTypeOK
<1>1. /\ doc.path \in Path /\ IsEntry(Wanted) /\ phase = "edit"
      /\ Wanted.kind = "link" => Wanted.text \in LinkText
  <2>1. doc.path \in Path /\ IsEntry(Wanted) /\ phase = "edit"
    BY DEF CloseFile, Closing, Editing, DocOK, ServerInv, Wanted
  <2>2. QED
    BY <2>1, RunTrees DEF IsTree, Wanted
<1>2. ASSUME NEW n, EditComplete(n), n.text = Wanted.text,
             n.kind = Wanted.kind \/ Wanted.text \in LinkText
      PROVE  PutRight
  BY <1>1, <1>2 DEF EditComplete, PutRight, Same
<1>3. ~ErrorLeaving(doc.path, Left)
  BY DEF ErrorLeaving, Error
<1>4. Wanted.kind = "file" \/ Wanted.text \in LinkText
  BY <1>1 DEF IsEntry
<1>5. CASE CloseAlreadyTarget
  BY <1>2, <1>4, <1>5 DEF CloseAlreadyTarget, AlreadyTarget, IsFile
<1>6. CASE CloseCheckout
  <2>1. EditComplete(CheckedOut(Wanted, doc))
    BY <1>3, <1>6 DEF CloseCheckout
  <2>2. /\ CheckedOut(Wanted, doc).text = Wanted.text
        /\ CheckedOut(Wanted, doc).kind = Wanted.kind
    BY <1>1 DEF CheckedOut, File, IsEntry
  <2>3. QED
    BY <1>2, <2>1, <2>2
<1>7. CASE CloseSymlink \/ CloseRelink
  <2>1. EditComplete(Link(Wanted.text)) /\ Wanted.text \in LinkText
    BY <1>3, <1>7 DEF CloseSymlink, CloseRelink
  <2>2. Link(Wanted.text).text = Wanted.text
    BY DEF Link
  <2>3. QED
    BY <1>2, <2>1, <2>2
<1>8. CASE CloseWrite
  <2>1. EditComplete(File(Wanted.text, doc.exec))
    BY <1>8 DEF CloseWrite
  <2>2. /\ File(Wanted.text, doc.exec).text = Wanted.text
        /\ File(Wanted.text, doc.exec).kind = "file"
    BY DEF File
  <2>3. QED
    BY <1>2, <1>4, <2>1, <2>2
<1>9. QED
  BY <1>3, <1>5, <1>6, <1>7, <1>8 DEF CloseFile, CloseTolerated, CloseBadDelta

LEMMA OnlyCloseFileCloses ==
  ASSUME TypeInv, [Next]_vars, ClosesFile
  PROVE  CloseFile
<1> USE DEF TypeInv, TypeOK, EditTypeOK, Doc
<1>1. doc # NoDoc /\ doc' = NoDoc /\ phase' = "edit" /\ doc.path \in Path /\ phase = "edit"
  BY DEF ClosesFile, DocOK
<1>2. NoDoc.path \notin Path
  BY DocNone
<1>3. CASE EditStep
  BY <1>1, <1>2, <1>3
     DEF EditStep, EditCommand, DeleteEntry, AddDir, OpenDir, DirCommand, AddFile, OpenFile,
         FileCommand, BetweenFiles, ApplyTextdelta, TextdeltaChunk, ChangeFileProp
<1>4. ~(\E to \in Rev, o \in Options : Start(to, o))
  BY <1>1 DEF Start
<1>5. CASE UNCHANGED vars
  BY <1>1, <1>5 DEF vars, editVars, docVars
<1>6. QED
  BY <1>1, <1>3, <1>4, <1>5
     DEF Next, Program, Environment, CloseEdit, BetweenFiles, CheckFile, Finish, Quit,
         StoppedInEdit, StopInEdit, StopInCloseFile, StopInOpenFile, StopInDeleteEntry,
         Stop, StoppedInIntegrity, StoppedInFinish, Modify

(***************************************************************************)
(* A file that was sent a delta is right when a run without -t is done     *)
(* with it: for every repository, every content of the file and every      *)
(* fault.                                                                  *)
(***************************************************************************)
THEOREM FixedUpAlways == Spec => FixedUp
<1> DEFINE Right == ClosesFile /\ ~run.tolerant /\ doc.delta # "none" => PutRight
<1>1. TypeInv /\ RepairInv /\ ServerInv /\ [Next]_vars => [Right]_vars
  BY OnlyCloseFileCloses, CloseFilePutsRight DEF ClosesFile
<1>2. QED
  BY <1>1, ServerInvariant, PTL DEF Spec, FixedUp, PutRight

-----------------------------------------------------------------------------
(***************************************************************************)
(* What -R restores.  The stage begins with every file of the target on    *)
(* its list, because close_edit finds a checksum for each of them.         *)
(***************************************************************************)
RestoreInv ==
  phase = "integrity" /\ run.repair =>
    \A p \in Path :
      IsFile(Target[p]) =>
        p \in checks \/ local[p].kind \in {"link", "dir"} \/ Same(local[p], Target[p])

LEMMA CloseEditRestores ==
  ASSUME "getfile" \notin Scenario, TypeInv, IInv, CloseEdit
  PROVE  RestoreInv'
<1>1. EditInv /\ doc.path \notin Path /\ UNCHANGED <<db, run>> /\ Target' = Target
  BY DocNone DEF CloseEdit, BetweenFiles, Editing, IInv, treeVars, Target
<1>2. ASSUME NEW p \in Path, IsFile(Target[p]) PROVE db[p] # NoText
  <2>1. CacheOK(p, Target[p])
    BY <1>1 DEF EditInv, EditCache, CloseEdit
  <2>2. Target[p].text # NoText
    BY <1>2, EditTrees DEF IsFile, IsEntry
  <2>3. QED
    BY <1>2, <2>1, <2>2 DEF CacheOK, MayForget
<1>3. QED
  BY <1>1, <1>2 DEF RestoreInv, CloseEdit

LEMMA CheckFileRestores ==
  ASSUME "getfile" \notin Scenario, TypeInv, IInv, RestoreInv, NEW p \in Path, CheckFile(p)
  PROVE  RestoreInv'
<1> USE DEF TypeInv, TypeOK, EditTypeOK
<1>1. /\ phase = "integrity" /\ IntegrityInv
      /\ Target' = Target /\ run' = run /\ checks' = checks \ {p}
  BY DEF CheckFile, IInv, Target
<1>2. CASE ~NeedFile(p) /\ UNCHANGED <<treeVars, phase>>
  <2>1. IsFile(Target[p]) => local[p].kind \in {"link", "dir"} \/ Same(local[p], Target[p])
    <3>1. IsFile(Target[p]) => db[p] = Target[p].text
      BY <1>1 DEF IntegrityInv, CacheOK, MayForget
    <3>2. local[p].kind \in {"none", "dir", "file", "link"}
      BY NodeFields DEF Kinds
    <3>3. QED
      BY <1>2, <3>1, <3>2 DEF NeedFile, IsFile, Same
  <2>2. QED
    BY <1>1, <1>2, <2>1 DEF RestoreInv, treeVars
<1>3. CASE local' = Restored(p)
  <2>1. IsFile(Target[p]) => Same(local'[p], Target[p])
    <3>1. local'[p] = File(Target[p].text, Target[p].exec \/ local[p].exec)
      BY <1>3, PathAssumption DEF Restored
    <3>2. QED
      BY <3>1 DEF File, IsFile, Same
  <2>2. \A q \in Path \ {p} : local'[q] = local[q] \/ local'[q].kind = "dir"
    BY <1>3 DEF Restored, Dir
  <2>3. QED
    BY <1>1, <2>1, <2>2 DEF RestoreInv
<1>4. CASE phase' = "failed"
  BY <1>4 DEF RestoreInv
<1>5. CASE GetFileMayFail(Target[p]) /\ local' = [local EXCEPT ![p] = Absent]
  BY <1>1, <1>5 DEF GetFileMayFail, RestoreInv, IsFile, IsEntry
<1>6. QED
  BY <1>2, <1>3, <1>4, <1>5 DEF CheckFile

LEMMA RestoreStep ==
  ASSUME "getfile" \notin Scenario, TypeInv, IInv, RestoreInv, [Next]_vars
  PROVE  RestoreInv'
<1>1. CASE UNCHANGED vars
  BY <1>1 DEF vars, editVars, treeVars, RestoreInv, Target
<1>2. CASE EditStep
  <2>1. phase' # "integrity"
    BY <1>2 DEF EditStep, EditCommand, DeleteEntry, AddDir, OpenDir, DirCommand, MakeDir,
         ErrorLeaving, Error, Begin, AddFile, OpenFile, FileCommand, BetweenFiles, Editing,
         ApplyTextdelta, TextdeltaChunk, ChangeFileProp, CloseFile, Closing,
         CloseAlreadyTarget, CloseTolerated, CloseCheckout, CloseBadDelta, CloseSymlink,
         CloseRelink, CloseWrite, EditComplete
  <2>2. QED
    BY <2>1 DEF RestoreInv
<1>3. CASE \/ Finish \/ Quit \/ StoppedInEdit \/ StoppedInIntegrity \/ StoppedInFinish
           \/ \E to \in Rev, o \in Options : Start(to, o)
           \/ \E p \in Path : Modify(p)
  BY <1>3 DEF RestoreInv, Finish, Quit, StoppedInEdit, StopInEdit, StopInCloseFile,
              StopInOpenFile, StopInDeleteEntry, Stop, StoppedInIntegrity,
              StoppedInFinish, Start, Modify
<1>4. QED
  BY <1>1, <1>2, <1>3, CloseEditRestores, CheckFileRestores DEF Next, Program, Environment

(***************************************************************************)
(* When -R is done, every file of the target is intact, whatever was in    *)
(* its place but a symlink or a directory: for every repository, if        *)
(* unfinished runs are repeated as Repeated says and every file can be had.*)
(***************************************************************************)
THEOREM RepairedCorrect ==
  ASSUME Repeated, "getfile" \notin Scenario
  PROVE  Spec => []Repaired
<1>1. Init => RestoreInv
  BY DEF Init, RestoreInv
<1>2. TypeInv /\ IInv /\ RestoreInv /\ [Next]_vars => RestoreInv'
  BY RestoreStep
<1>3. TypeInv /\ IInv /\ RestoreInv => Repaired
  BY DEF RestoreInv, Repaired
<1>4. QED
  BY <1>1, <1>2, <1>3, RepeatedInvariants, PTL DEF Spec

-----------------------------------------------------------------------------
(***************************************************************************)
(* What no run is refused.  Symlinks are left out: a delta against the     *)
(* text of a symlink has no file to read from.                             *)
(***************************************************************************)
NoLinks == \A r \in Rev, p \in Path : Repo[r][p].kind # "link"

CalmInv ==
  /\ mods = 0 => mine = {}
  /\ doc.delta = "copy" => doc.base # NoText

LEMMA CalmStart == Init => CalmInv
BY DEF Init, CalmInv, NoDoc

LEMMA CalmStep ==
  ASSUME TypeInv, IInv, CalmInv, [Next]_vars
  PROVE  CalmInv'
<1> USE DEF TypeInv, TypeOK, EditTypeOK, Doc, CalmInv
<1>1. CASE UNCHANGED vars
  <2>1. mods' = mods /\ mine' = mine /\ doc' = doc
    BY <1>1 DEF vars, editVars, treeVars, docVars, countVars
  <2>2. QED
    BY <2>1
<1>2. CASE EditStep
  <2>1. mods' = mods
    BY <1>2 DEF EditStep, countVars
  <2>2. mine' \subseteq mine
    BY <1>2 DEF EditStep, EditCommand, DeleteEntry, AddDir, OpenDir, MakeDir, ErrorLeaving,
         Error, Begin, AddFile, OpenFile, ApplyTextdelta, TextdeltaChunk, ChangeFileProp,
         CloseFile, CloseAlreadyTarget, CloseTolerated, CloseCheckout, CloseBadDelta,
         CloseSymlink, CloseRelink, CloseWrite, EditComplete, Settle, treeVars
  <2>3. doc'.delta = "copy" => doc'.base # NoText
    <3>1. CASE ApplyTextdelta
      <4>1. phase = "edit" /\ doc # NoDoc
        BY <3>1, DocNone DEF ApplyTextdelta, Editing, DocOK
      <4>2. doc.delta # "none" => doc.base = Opened(doc.path).text
        BY <4>1 DEF IInv, EditInv, EditDoc
      <4>3. QED
        BY <3>1, <4>2 DEF ApplyTextdelta
    <3>2. CASE TextdeltaChunk
      BY <3>2 DEF TextdeltaChunk
    <3>3. CASE \E name \in {"exec", "special"} : ChangeFileProp(name)
      BY <3>3 DEF ChangeFileProp
    <3>4. CASE \E p \in Path : AddFile(p) \/ OpenFile(p)
      <4>1. PICK p \in Path : AddFile(p) \/ OpenFile(p)
        BY <3>4
      <4>2. NoDoc.delta = "none"
        BY DEF NoDoc
      <4>3. CASE doc' = NoDoc
        BY <4>2, <4>3
      <4>4. CASE Begin(p, NoDoc)
        BY <4>4 DEF Begin, NoDoc
      <4>5. CASE Begin(p, [NoDoc EXCEPT !.exec = Source[p].exec,
                                        !.special = Source[p].kind = "link"])
        BY <4>5 DEF Begin, NoDoc
      <4>6. QED
        BY <4>1, <4>3, <4>4, <4>5 DEF AddFile, OpenFile, ErrorLeaving, Error
    <3>5. CASE CloseFile \/ \E p \in Path : DeleteEntry(p) \/ AddDir(p) \/ OpenDir(p)
      BY <3>5 DEF CloseFile, DeleteEntry, AddDir, OpenDir, MakeDir, ErrorLeaving, Error,
           CloseAlreadyTarget, CloseTolerated, CloseCheckout, CloseBadDelta, CloseSymlink,
           CloseRelink, CloseWrite, EditComplete, docVars, NoDoc
    <3>6. QED
      BY <1>2, <3>1, <3>2, <3>3, <3>4, <3>5 DEF EditStep, EditCommand
  <2>4. QED
    BY <2>1, <2>2, <2>3
<1>3. ASSUME NEW p \in Path, CheckFile(p) PROVE CalmInv'
  BY <1>3 DEF CheckFile, Settle, treeVars, docVars, countVars
<1>4. ASSUME NEW p \in Path, Modify(p) PROVE CalmInv'
  BY <1>4 DEF Modify, docVars
<1>5. CASE \/ CloseEdit \/ Finish \/ Quit \/ StoppedInIntegrity \/ StoppedInFinish
           \/ \E to \in Rev, o \in Options : Start(to, o)
  BY <1>5 DEF CloseEdit, Finish, Quit, StoppedInIntegrity, StoppedInFinish, Start,
              treeVars, docVars, countVars
<1>6. CASE StoppedInEdit
  BY <1>6 DEF StoppedInEdit, StopInEdit, StopInCloseFile, StopInOpenFile,
              StopInDeleteEntry, Stop, NoDoc
<1>7. QED
  BY <1>1, <1>2, <1>3, <1>4, <1>5, <1>6 DEF Next, Program, Environment

\* In a tree without symlinks, what a handler comes to is not there or is
\* what it wants.
LEMMA DirsAccepted ==
  ASSUME Orderly, NoLinks, TypeInv, EditInv, mine = {}, NEW p \in Path, AddDir(p) \/ OpenDir(p)
  PROVE  phase' # "failed"
<1>1. p \in upds /\ ~Doomed(p) /\ Target[p].kind = "dir" /\ phase = "edit"
  BY DEF AddDir, OpenDir, DirCommand, Reached, Doomed, BetweenFiles, Editing
<1>2. local[p].kind \in {"none", "dir"}
  BY <1>1 DEF EditInv, EditPaths, Ready, Counts, Orderly
<1>3. QED
  BY <1>1, <1>2 DEF AddDir, OpenDir, MakeDir

LEMMA FilesAccepted ==
  ASSUME Orderly, NoLinks, "getfile" \notin Scenario, TypeInv, EditInv, mine = {},
         NEW p \in Path, AddFile(p) \/ OpenFile(p)
  PROVE  phase' # "failed"
<1>1. p \in upds /\ ~Doomed(p) /\ IsEntry(Target[p]) /\ phase = "edit"
  BY DEF AddFile, OpenFile, FileCommand, Reached, Doomed, BetweenFiles, Editing
<1>2. local[p].kind \in {"none", Target[p].kind}
  BY <1>1 DEF EditInv, EditPaths, Ready, Counts, Orderly
<1>3. QED
  BY <1>1, <1>2 DEF AddFile, OpenFile, Begin, IsEntry, GetFileMayFail

LEMMA CloseAccepted ==
  ASSUME Orderly, NoLinks, "getfile" \notin Scenario, TypeInv, EditInv, CalmInv, mine = {},
         CloseFile
  PROVE  phase' # "failed"
<1>1. Closing /\ phase = "edit"
  BY DEF CloseFile, Closing, Editing
<1>2. /\ IsFile(Wanted) /\ ~doc.special
      /\ Here.kind \in {"none", "file"}
      /\ doc.delta = "copy" => IsFile(Left)
  <2>1. /\ doc.path \in Path /\ IsEntry(Wanted) /\ Wanted = Target[doc.path]
        /\ Here = local[doc.path] /\ Ready(doc.path)
    BY <1>1, ClosingFacts
  <2>2. IsFile(Wanted) /\ ~doc.special
    <3>1. Wanted.kind # "link"
      BY <2>1 DEF NoLinks, Target, TypeInv, TypeOK, EditTypeOK, Run
    <3>2. QED
      BY <1>1, <2>1, <3>1, ClosingFacts DEF IsEntry, IsFile
  <2>3. Here.kind \in {"none", "file"}
    BY <2>1, <2>2 DEF Ready, Counts, Orderly, IsFile
  <2>4. ASSUME doc.delta = "copy" PROVE IsFile(Left)
    <3>1. doc.base # NoText /\ doc.base = Opened(doc.path).text
      BY <1>1, <2>4, ClosingFacts DEF CalmInv
    <3>2. Source[doc.path].kind = Wanted.kind /\ Here.kind # "none"
      BY <1>1, <3>1, ClosingFacts
    <3>3. QED
      BY <2>3, <3>1, <3>2 DEF Left, InTheWay, IsFile
  <2>5. QED
    BY <2>2, <2>3, <2>4
<1>3. Left.kind \in {"none", "file"}
  BY <1>2 DEF Left, Absent
<1>4. ~GetFileMayFail(Wanted) /\ CanCheckout(Wanted, Left)
  BY <1>2, <1>3 DEF GetFileMayFail, CanCheckout, IsFile, IsEntry
<1>5. ~TViewFails
  BY <1>2 DEF TViewFails
<1>6. \A n : EditComplete(n) => phase' = phase
  BY DEF EditComplete
<1>7. QED
  BY <1>1, <1>2, <1>3, <1>4, <1>5, <1>6
     DEF CloseFile, CloseAlreadyTarget, CloseTolerated, CloseCheckout, CloseBadDelta,
         CloseSymlink, CloseRelink, CloseWrite

LEMMA CheckAccepted ==
  ASSUME TypeInv, IInv, mine = {}, NEW p \in Path, CheckFile(p)
  PROVE  phase' # "failed"
<1>1. phase = "integrity" /\ IntegrityInv
  BY DEF CheckFile, IInv
<1>2. IsEntry(Target[p]) => ~Blocked(p)
  <2>1. IsEntry(Target[p]) => \A q \in Above(p) : q \in Path /\ Target[q].kind = "dir"
    BY EditTrees, TreeShape DEF IsEntry, Above
  <2>2. QED
    BY <1>1, <2>1 DEF IntegrityInv, Done, Counts, Blocked, Same
<1>3. QED
  BY <1>1, <1>2 DEF CheckFile

LEMMA AcceptedStep ==
  ASSUME Orderly, NoLinks, "getfile" \notin Scenario, TypeInv, IInv, CalmInv, NeverRefused,
         [Next]_vars
  PROVE  NeverRefused'
<1> SUFFICES ASSUME mods' = 0 PROVE phase' # "failed"
  BY DEF NeverRefused
<1>1. CASE UNCHANGED vars
  BY <1>1 DEF vars, editVars, countVars, NeverRefused
<1>2. CASE \E p \in Path : Modify(p)
  BY <1>2 DEF Modify
<1>3. CASE UNCHANGED mods /\ Next
  <2>1. mods = 0 /\ mine = {} /\ phase # "failed"
    BY <1>3 DEF CalmInv, NeverRefused
  <2>2. CASE EditStep
    <3>1. phase = "edit" => EditInv
      BY DEF IInv
    <3>2. CASE CloseFile \/ \E p \in Path : AddDir(p) \/ OpenDir(p) \/ AddFile(p) \/ OpenFile(p)
      <4>1. EditInv
        BY <3>1, <3>2 DEF CloseFile, Closing, AddDir, OpenDir, DirCommand, AddFile, OpenFile,
                          FileCommand, BetweenFiles, Editing
      <4>2. QED
        BY <2>1, <3>2, <4>1, DirsAccepted, FilesAccepted, CloseAccepted
    <3>3. CASE \/ \E p \in Path : DeleteEntry(p)
               \/ ApplyTextdelta \/ TextdeltaChunk
               \/ \E name \in {"exec", "special"} : ChangeFileProp(name)
      BY <2>1, <3>3 DEF DeleteEntry, ApplyTextdelta, TextdeltaChunk, ChangeFileProp
    <3>4. QED
      BY <2>2, <3>2, <3>3 DEF EditStep, EditCommand
  <2>3. CASE \E p \in Path : CheckFile(p)
    BY <2>1, <2>3, CheckAccepted
  <2>4. CASE \/ CloseEdit \/ Finish \/ Quit \/ StoppedInEdit \/ StoppedInIntegrity
             \/ StoppedInFinish \/ \E to \in Rev, o \in Options : Start(to, o)
    BY <2>4 DEF CloseEdit, Finish, Quit, StoppedInEdit, StopInEdit, StopInCloseFile,
                StopInOpenFile, StopInDeleteEntry, Stop, StoppedInIntegrity,
                StoppedInFinish, Start
  <2>5. QED
    BY <1>2, <1>3, <2>2, <2>3, <2>4 DEF Next, Program, Environment, Modify
<1>4. QED
  BY <1>1, <1>2, <1>3
     DEF Next, Program, Environment, EditStep, CloseEdit, CheckFile, Finish, Quit, Start,
         StoppedInEdit, StoppedInIntegrity, StoppedInFinish, countVars

(***************************************************************************)
(* No run is refused what it or runs before it have left, wherever they    *)
(* were stopped and however often: for every repository without symlinks,  *)
(* as long as the user stays out of the tree, unfinished runs are repeated *)
(* as Orderly says and every file can be had.                              *)
(***************************************************************************)
THEOREM NeverRefusedCorrect ==
  ASSUME Orderly, NoLinks, "getfile" \notin Scenario
  PROVE  Spec => []NeverRefused
<1>1. Init => CalmInv /\ NeverRefused
  BY CalmStart DEF Init, NeverRefused
<1>2. TypeInv /\ IInv /\ CalmInv /\ NeverRefused /\ [Next]_vars => (CalmInv /\ NeverRefused)'
  BY CalmStep, AcceptedStep
<1>3. QED
  BY <1>1, <1>2, InvariantsHold, PTL DEF Spec

=============================================================================
