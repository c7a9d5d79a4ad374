------------------------------ MODULE SvnEdit ------------------------------
(***************************************************************************)
(* The tree editor: svnedit.c on the working copy and the checksum cache,  *)
(* driven over the svn protocol by the command handlers of                 *)
(* svnproto_editor.c.  One action is one handler.  The process may be      *)
(* stopped between two handlers or in the middle of one; a handler that    *)
(* reports an error ends the run (svnproto_editor returns it, update_cb    *)
(* calls errx).                                                            *)
(***************************************************************************)
EXTENDS SvnRepo

CONSTANT Scenario  \* which faults and habits a model admits, see Svnup

ASSUME ScenarioAssumption ==
  Scenario \subseteq {"term", "kill", "getfile", "retarget", "clear",
                      "tolerant", "retolerant", "repair", "modify", "relocate"}

VARIABLES
  local,  \* the working copy
  db,     \* the checksum cache, keyed by path
  mine,   \* history: paths the user changed and no run has put right since
  phase,  \* where run() of main.c is
  run,    \* its source and target revision and its options
  dels,   \* entries the server has still to delete
  upds,   \* entries the server has still to add or open
  doc,    \* the file being edited (static doc of svnedit.c)
  owed    \* the commands the server owes that file before close-file

treeVars == <<local, db, mine>>
driveVars == <<dels, upds>>
docVars == <<doc, owed>>
editVars == <<treeVars, phase, run, driveVars, docVars>>

NoPath == << >>
Phases == {"idle", "edit", "integrity", "stopped", "failed"}
Doc == [path : Path \cup {NoPath}, base : Text \cup {NoText},
        delta : {"none", "fresh", "copy"}, exec : BOOLEAN, special : BOOLEAN]
NoDoc == [path |-> NoPath, base |-> NoText, delta |-> "none",
          exec |-> FALSE, special |-> FALSE]
FileCommands == {"exec", "special", "apply-textdelta", "textdelta-chunk"}
Run == [from : Rev \cup {NoRev}, to : Rev, tolerant : BOOLEAN, repair : BOOLEAN]

Source == ReportedTree(run.from)
Target == Repo[run.to]

EditTypeOK ==
  /\ local \in [Path -> Node]
  /\ db \in [Path -> Text \cup {NoText}]
  /\ mine \subseteq Path
  /\ phase \in Phases
  /\ run \in Run
  /\ dels \subseteq Path /\ upds \subseteq Path
  /\ doc \in Doc /\ owed \subseteq FileCommands

(***************************************************************************)
(* What every handler has in common.                                       *)
(***************************************************************************)
Editing == phase = "edit"
BetweenFiles == Editing /\ doc = NoDoc

\* The server descends into a directory before it edits what is in it.
Reached(p) == Above(p) \cap (dels \cup upds) = {}

Error ==
  /\ phase' = "failed"
  /\ doc' = NoDoc /\ owed' = {}
  /\ UNCHANGED <<db, mine, run, driveVars>>

ErrorLeaving(p, n) == Error /\ local' = [local EXCEPT ![p] = n]

Settle(p, n) == mine' = IF Same(n, Target[p]) THEN mine \ {p} ELSE mine

(***************************************************************************)
(* checkout_file: fetch entry f over the shadow connection and create it   *)
(* where n is.  create_symlink cannot replace anything, create_file opens  *)
(* with O_NOFOLLOW.  Nothing compares the fetched text with a checksum.    *)
(***************************************************************************)
CanCheckout(f, n) ==
  \/ f.kind = "link" /\ n.kind = "none"
  \/ f.kind = "file" /\ n.kind \in {"none", "file"}

CheckedOut(f, d) == IF f.kind = "link" THEN f ELSE File(f.text, f.exec \/ d.exec)

GetFileMayFail(f) == "getfile" \in Scenario \/ ~IsEntry(f)

-----------------------------------------------------------------------------
(***************************************************************************)
(* Directories and deletions.                                              *)
(***************************************************************************)
DeleteEntry(p) ==
  /\ BetweenFiles
  /\ p \in dels /\ Reached(p)
  /\ dels' = dels \ {p}
  /\ local' = [q \in Path |-> IF q = p \/ q \in Below(p) THEN Absent ELSE local[q]]
  /\ db' = [db EXCEPT ![p] = NoText]
  /\ mine' = mine \ ({p} \cup Below(p))
  /\ UNCHANGED <<phase, run, upds, docVars>>

DirCommand(p) ==
  /\ BetweenFiles
  /\ p \in upds \ dels /\ Reached(p)
  /\ Target[p].kind = "dir"

\* Seeded fault: a directory that is there is removed and made anew.
MakeDirClean(p) ==
  /\ local' = [q \in Path |-> IF q = p THEN Dir ELSE IF q \in Below(p) THEN Absent
                             ELSE local[q]]
  /\ upds' = upds \ {p}
  /\ Settle(p, Dir)
  /\ UNCHANGED <<db, phase, run, dels, docVars>>

MakeDir(p) ==
  /\ local' = [local EXCEPT ![p] = Dir]
  /\ upds' = upds \ {p}
  /\ Settle(p, Dir)
  /\ UNCHANGED <<db, phase, run, dels, docVars>>

\* Seeded fault: mkdir without looking first, EEXIST is an error.
AddDirStrict(p) ==
  /\ DirCommand(p) /\ Source[p].kind # "dir"
  /\ \/ local[p].kind = "none" /\ MakeDir(p)
     \/ local[p].kind # "none" /\ ErrorLeaving(p, local[p])

AddDir(p) ==
  /\ DirCommand(p) /\ Source[p].kind # "dir"
  /\ \/ local[p].kind \in {"none", "dir"} /\ MakeDir(p)
     \/ local[p].kind \notin {"none", "dir"} /\ ErrorLeaving(p, local[p])

\* A symlink in the place of the directory may lead to one, or may not.
OpenDir(p) ==
  /\ DirCommand(p) /\ Source[p].kind = "dir"
  /\ \/ local[p].kind \in {"none", "dir"} /\ MakeDir(p)
     \/ /\ local[p].kind = "link"
        /\ upds' = upds \ {p}
        /\ UNCHANGED <<treeVars, phase, run, dels, docVars>>
     \/ /\ local[p].kind \in {"file", "link"}
        /\ \A q \in Below(p) : local[q] = Absent
        /\ ErrorLeaving(p, local[p])

-----------------------------------------------------------------------------
(***************************************************************************)
(* A file: add-file or open-file, the commands owed for it, close-file.    *)
(***************************************************************************)
FileCommand(p) ==
  /\ BetweenFiles
  /\ p \in upds \ dels /\ Reached(p)
  /\ IsEntry(Target[p])

\* What the server compares the entry with; an entry of another kind is gone.
Opened(p) == IF Source[p].kind = Target[p].kind THEN Source[p] ELSE Absent

Owed(s, t) ==
  (IF s.exec # t.exec THEN {"exec"} ELSE {})
    \cup (IF s.kind # t.kind /\ t.kind = "link" THEN {"special"} ELSE {})
    \cup (IF s.text # t.text THEN {"apply-textdelta"} ELSE {})

Begin(p, d) ==
  /\ doc' = [d EXCEPT !.path = p]
  /\ owed' = Owed(Opened(p), Target[p])
  /\ upds' = upds \ {p}
  /\ UNCHANGED <<db, phase, run, dels>>

AddFile(p) ==
  /\ FileCommand(p) /\ Source[p].kind # Target[p].kind
  /\ \/ local[p].kind # "dir" /\ Begin(p, NoDoc) /\ UNCHANGED <<local, mine>>
     \/ local[p].kind = "dir" /\ ErrorLeaving(p, local[p])

\* A missing file is checked out at the revision it is opened at.
OpenFile(p) ==
  /\ FileCommand(p) /\ Source[p].kind = Target[p].kind
  /\ \/ IsEntry(local[p]) /\ Begin(p, NoDoc) /\ UNCHANGED <<local, mine>>
     \/ /\ local[p].kind = "none"
        /\ local' = [local EXCEPT ![p] = CheckedOut(Source[p], NoDoc)]
        /\ Settle(p, local'[p])
        /\ Begin(p, [NoDoc EXCEPT !.exec = Source[p].exec,
                                  !.special = Source[p].kind = "link"])
     \/ local[p].kind = "none" /\ GetFileMayFail(Source[p]) /\ ErrorLeaving(p, Absent)
     \/ local[p].kind = "dir" /\ ErrorLeaving(p, local[p])

\* Seeded fault: the base is what is on disk, not what the server says it is.
ApplyTextdeltaLocal ==
  /\ Editing /\ "apply-textdelta" \in owed
  /\ doc' = [doc EXCEPT !.base = local[doc.path].text]
  /\ owed' = (owed \ {"apply-textdelta"}) \cup {"textdelta-chunk"}
  /\ UNCHANGED <<treeVars, phase, run, driveVars>>

ApplyTextdelta ==
  /\ Editing /\ "apply-textdelta" \in owed
  /\ doc' = [doc EXCEPT !.base = Opened(doc.path).text]
  /\ owed' = (owed \ {"apply-textdelta"}) \cup {"textdelta-chunk"}
  /\ UNCHANGED <<treeVars, phase, run, driveVars>>

\* The chunks of one svndiff document: new data only, or also source copies.
TextdeltaChunk ==
  /\ Editing /\ "textdelta-chunk" \in owed
  /\ \E form \in IF doc.base = NoText THEN {"fresh"} ELSE {"fresh", "copy"} :
       doc' = [doc EXCEPT !.delta = form]
  /\ owed' = owed \ {"textdelta-chunk"}
  /\ UNCHANGED <<treeVars, phase, run, driveVars>>

ChangeFileProp(name) ==
  /\ Editing /\ name \in owed \cap {"exec", "special"}
  /\ doc' = IF name = "exec" THEN [doc EXCEPT !.exec = Target[doc.path].exec]
                             ELSE [doc EXCEPT !.special = TRUE]
  /\ owed' = owed \ {name}
  /\ UNCHANGED <<treeVars, phase, run, driveVars>>

-----------------------------------------------------------------------------
(***************************************************************************)
(* close-file.  The verdict on what open(lp, O_RDWR|O_NOFOLLOW) found      *)
(* comes first; then the target view is built, verified and written.       *)
(***************************************************************************)
Here == local[doc.path]
Wanted == Target[doc.path]

BaseMismatch == IsFile(Here) /\ doc.base \notin {NoText, Here.text}
\* Seeded fault: a file that is there when one is added is taken for the same.
AlreadyThere == IsFile(Here) /\ (Here.text = Wanted.text \/ doc.base = NoText)
AlreadyTarget ==
  IsFile(Here) /\ Here.text = Wanted.text /\ (BaseMismatch \/ doc.base = NoText)
Foreign == BaseMismatch /\ Here.text # Wanted.text
InTheWay == IsFile(Here) /\ doc.base = NoText /\ Here.text # Wanted.text
Rebuilt == ~BaseMismatch /\ ~AlreadyTarget

\* The node in place once a file in the way of an add-file is unlinked.
Left == IF InTheWay THEN Absent ELSE Here

\* svndiff_build_tview: source copies need a regular file to read from, and
\* give the target text only over the text the delta was made against.
TViewFails == doc.delta = "copy" /\ ~IsFile(Left)
TView ==
  IF doc.delta = "copy" /\ Left.text # Source[doc.path].text THEN Torn ELSE Wanted.text
TViewMismatch == doc.delta # "none" /\ TView # Wanted.text

Closing == Editing /\ doc # NoDoc /\ owed = {}

EditComplete(n) ==
  /\ local' = [local EXCEPT ![doc.path] = n]
  /\ db' = [db EXCEPT ![doc.path] = Wanted.text]
  /\ Settle(doc.path, n)
  /\ doc' = NoDoc
  /\ UNCHANGED <<phase, run, driveVars, owed>>

\* Seeded fault: the early exit goes to END, past svnc_save_checksum.
CloseEarlyToEnd ==
  /\ AlreadyTarget
  /\ doc' = NoDoc
  /\ UNCHANGED <<treeVars, phase, run, driveVars, owed>>

CloseAlreadyTarget == AlreadyTarget /\ EditComplete(Here)

\* Seeded fault: SVNC_TOLERANT is not asked for.
CloseToleratedAlways == Foreign /\ EditComplete(Here)

CloseTolerated == Foreign /\ run.tolerant /\ EditComplete(Here)

CloseCheckout ==
  /\ \/ Foreign /\ ~run.tolerant
     \/ Rebuilt /\ ~TViewFails /\ TViewMismatch
  /\ \/ CanCheckout(Wanted, Left) /\ EditComplete(CheckedOut(Wanted, doc))
     \/ ~CanCheckout(Wanted, Left) /\ ErrorLeaving(doc.path, Left)
     \/ GetFileMayFail(Wanted) /\ ErrorLeaving(doc.path, Left)

CloseBadDelta == Rebuilt /\ TViewFails /\ ErrorLeaving(doc.path, Left)

Apply == Rebuilt /\ ~TViewFails /\ ~TViewMismatch

\* No regular file and svn:special was set: make the symlink.
CloseSymlink ==
  /\ Apply /\ ~IsFile(Left) /\ doc.special
  /\ \/ doc.delta = "none" /\ EditComplete(Left)
     \/ /\ doc.delta # "none"
        /\ IF Left.kind = "none" /\ Wanted.text \in LinkText
             THEN EditComplete(Link(Wanted.text))
             ELSE ErrorLeaving(doc.path, Left)

\* open(O_CREAT|O_NOFOLLOW) meets a symlink: replace it.
\* Seeded fault: the old symlink is not unlinked and stays.
CloseRelinkKeeps == Apply /\ Left.kind = "link" /\ ~doc.special /\ EditComplete(Left)

CloseRelink ==
  /\ Apply /\ Left.kind = "link" /\ ~doc.special
  /\ \/ doc.delta = "none" /\ EditComplete(Left)
     \/ /\ doc.delta # "none"
        /\ IF Wanted.text \in LinkText
             THEN EditComplete(Link(Wanted.text))
             ELSE ErrorLeaving(doc.path, Left)

\* A regular file, perhaps just created: write the windows, if there was a
\* delta, and set the mode.
CloseWrite ==
  /\ Apply
  /\ IsFile(Left) \/ (Left.kind = "none" /\ ~doc.special)
  /\ EditComplete(File(CASE doc.delta # "none" -> Wanted.text
                         [] doc.delta = "none" /\ IsFile(Left) -> Left.text
                         [] OTHER -> Empty,
                       doc.exec))

CloseFile ==
  /\ Closing
  /\ \/ CloseAlreadyTarget
     \/ CloseTolerated
     \/ CloseCheckout
     \/ CloseBadDelta
     \/ CloseSymlink
     \/ CloseRelink
     \/ CloseWrite

-----------------------------------------------------------------------------
(***************************************************************************)
(* The process stops inside a handler, before the cache is told: files are *)
(* created empty, written in pieces and chmoded last.                      *)
(***************************************************************************)
Stop ==
  /\ phase' = "stopped"
  /\ doc' = NoDoc /\ owed' = {}
  /\ UNCHANGED <<db, mine, run, driveVars>>

HalfWritten(t, n) == {File(u, x) : u \in {Empty, Torn, t}, x \in {n.exec, doc.exec}}

\* What may be in the place of the file while close-file runs: what it puts
\* away first, and the file it writes or the symlink it makes.
MakesLink ==
  /\ Apply /\ doc.delta # "none" /\ Wanted.text \in LinkText
  /\ IF doc.special THEN Left.kind = "none" ELSE Left.kind = "link"

PutAway == InTheWay \/ (MakesLink /\ Left.kind = "link")

BeingWritten ==
  IF InTheWay /\ doc.delta = "none" THEN {File(Empty, doc.exec)}
  ELSE IF IsFile(Wanted) /\ Here.kind # "link" THEN HalfWritten(Wanted.text, Here)
  ELSE {}

CloseHalfway ==
  IF AlreadyTarget \/ (Foreign /\ run.tolerant) THEN {Here}
  ELSE {Here} \cup (IF PutAway THEN {Absent} ELSE {}) \cup BeingWritten
         \cup (IF MakesLink THEN {Link(Wanted.text)} ELSE {})

StopInCloseFile ==
  /\ Closing
  /\ \E n \in CloseHalfway : local' = [local EXCEPT ![doc.path] = n]
  /\ Stop

StopInOpenFile(p) ==
  /\ FileCommand(p) /\ IsFile(Source[p]) /\ IsFile(Target[p])
  /\ local[p].kind = "none"
  /\ \E n \in HalfWritten(Source[p].text, Source[p]) : local' = [local EXCEPT ![p] = n]
  /\ Stop

\* Some of what is below p is gone, directories after what is in them, and
\* perhaps p.
StopInDeleteEntry(p) ==
  /\ BetweenFiles /\ p \in dels /\ Reached(p)
  /\ \E gone \in SUBSET {q \in {p} \cup Below(p) : local[q].kind # "none"} :
       /\ \A q \in gone : \A r \in Below(q) : r \in gone \/ local[r].kind = "none"
       /\ local' = [q \in Path |-> IF q \in gone THEN Absent ELSE local[q]]
  /\ Stop

StopInEdit ==
  \/ StopInCloseFile
  \/ \E p \in Path : StopInOpenFile(p) \/ StopInDeleteEntry(p)
  \/ Editing /\ Stop /\ UNCHANGED local

EditCommand ==
  \/ \E p \in Path :
       \/ DeleteEntry(p)
       \/ AddDir(p) \/ OpenDir(p)
       \/ AddFile(p) \/ OpenFile(p)
  \/ ApplyTextdelta
  \/ TextdeltaChunk
  \/ \E name \in {"exec", "special"} : ChangeFileProp(name)
  \/ CloseFile

=============================================================================
