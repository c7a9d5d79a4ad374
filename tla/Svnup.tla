------------------------------- MODULE Svnup -------------------------------
(***************************************************************************)
(* One working copy over many runs of svnup: run() of main.c around the    *)
(* editor of SvnEdit, the repair stage svnc_check_integrity, the files in  *)
(* which a run leaves what the next one needs, and the user who changes    *)
(* files between runs.  Runs follow one another here; Instances has them   *)
(* side by side.                                                           *)
(***************************************************************************)
EXTENDS SvnEdit, Naturals

CONSTANTS
  MaxStops,  \* how many runs are stopped by a signal
  MaxMods    \* how many files the user changes

ASSUME BoundAssumption == MaxStops \in Nat /\ MaxMods \in Nat

(***************************************************************************)
(* What a model admits, by the elements of Scenario:                       *)
(*   "term"       a run is ended by SIGTERM or SIGINT                      *)
(*   "kill"       a run is ended by SIGKILL                                *)
(*   "getfile"    a get-file request may fail                              *)
(*   "repair"     -R is used                                               *)
(*   "clear"      -C is used on a working copy that has a revision         *)
(*   "tolerant"   -t is used, but not on what an unfinished run left       *)
(*   "retolerant" -t is used even then                                     *)
(*   "retarget"   after an unfinished run another revision may be asked for*)
(*   "modify"     the user changes files                                   *)
(*   "relocate"   the user puts a symlink where a directory was            *)
(***************************************************************************)
VARIABLES
  revfile,  \* .svnup.rev
  cacheOK,  \* .svnup.cache was closed by its last writer
  pending,  \* history: the target of a run that did not finish, or NoRev
  checks,   \* keys of the cache svnc_check_integrity has still to visit
  stops,    \* runs stopped so far
  mods      \* changes of the user so far

fileVars == <<revfile, cacheOK>>
countVars == <<stops, mods>>
vars == <<editVars, fileVars, pending, checks, countVars>>

TypeOK ==
  /\ EditTypeOK
  /\ revfile \in Rev \cup {NoRev, BlankRev}
  /\ cacheOK \in BOOLEAN
  /\ pending \in Rev \cup {NoRev}
  /\ checks \subseteq Path
  /\ stops \in 0..MaxStops /\ mods \in 0..MaxMods

Init ==
  /\ local = EmptyTree
  /\ db = [p \in Path |-> NoText]
  /\ mine = {}
  /\ phase = "idle"
  /\ run \in {[from |-> NoRev, to |-> r, tolerant |-> FALSE, repair |-> FALSE] : r \in Rev}
  /\ dels = {} /\ upds = {} /\ doc = NoDoc /\ owed = {}
  /\ revfile = NoRev /\ cacheOK = TRUE
  /\ pending = NoRev
  /\ checks = {}
  /\ stops = 0 /\ mods = 0

-----------------------------------------------------------------------------
(***************************************************************************)
(* main and run up to the update command: options, .svnup.rev, dbopen,     *)
(* and the report that fixes the edit the server will drive.               *)
(***************************************************************************)
Allowed(to, o) ==
  /\ ~(o.repair /\ (o.clear \/ o.tolerant))
  /\ o.repair => "repair" \in Scenario
  /\ o.clear => "clear" \in Scenario
  /\ o.tolerant => IF pending = NoRev THEN "tolerant" \in Scenario
                                      ELSE "retolerant" \in Scenario
  /\ pending \in {NoRev, to} \/ "retarget" \in Scenario

Options == [clear : BOOLEAN, tolerant : BOOLEAN, repair : BOOLEAN]

\* dbopen truncates the cache for -C and when there is no .svnup.rev.  A
\* cache a killed run left open cannot be used otherwise.
Start(to, o) ==
  LET recorded == IF o.clear THEN NoRev ELSE revfile
      flush == recorded = NoRev
      from == IF recorded \in Rev THEN recorded ELSE NoRev
  IN
  /\ phase = "idle"
  /\ Allowed(to, o)
  /\ flush \/ cacheOK
  /\ run' = [from |-> from, to |-> to, tolerant |-> o.tolerant,
             repair |-> o.repair /\ ~flush]
  /\ revfile' = recorded
  /\ db' = IF flush THEN [p \in Path |-> NoText] ELSE db
  /\ cacheOK' = TRUE
  /\ dels' = Deleted(ReportedTree(from), Repo[to])
  /\ upds' = Updated(ReportedTree(from), Repo[to])
  /\ pending' = to
  /\ phase' = "edit"
  /\ UNCHANGED <<local, mine, docVars, checks, countVars>>

EditStep ==
  /\ EditCommand
  /\ UNCHANGED <<fileVars, pending, checks, countVars>>

CloseEdit ==
  /\ BetweenFiles /\ dels = {} /\ upds = {}
  /\ phase' = "integrity"
  /\ checks' = IF run.repair THEN {p \in Path : db[p] # NoText} ELSE {}
  /\ UNCHANGED <<treeVars, run, driveVars, docVars, fileVars, pending, countVars>>

-----------------------------------------------------------------------------
(***************************************************************************)
(* svnc_check_integrity.  Anything but a regular file or a hole is left    *)
(* alone; a file that cannot be fetched is forgotten and unlinked.         *)
(***************************************************************************)
\* Seeded fault: a file that is not there is not missed.
NeedFilePresent(p) == IsFile(local[p]) /\ local[p].text # db[p]

NeedFile(p) ==
  \/ IsFile(local[p]) /\ local[p].text # db[p]
  \/ local[p].kind = "none"

\* mkdir -p above a file that is missing, then the fetched text and, when
\* the property is there, the mode.
Restored(p) ==
  [q \in Path |->
     CASE q = p -> File(Target[p].text, Target[p].exec \/ local[p].exec)
       [] q \in Above(p) /\ local[q].kind = "none" /\ local[p].kind = "none" -> Dir
       [] OTHER -> local[q]]

Blocked(p) ==
  local[p].kind = "none" /\ \E q \in Above(p) : local[q].kind = "file"

CheckFile(p) ==
  /\ phase = "integrity" /\ p \in checks
  /\ checks' = checks \ {p}
  /\ \/ ~NeedFile(p) /\ UNCHANGED <<treeVars, phase>>
     \/ /\ NeedFile(p) /\ IsEntry(Target[p]) /\ ~Blocked(p)
        /\ local' = Restored(p)
        /\ Settle(p, local'[p])
        /\ UNCHANGED <<db, phase>>
     \/ /\ NeedFile(p) /\ IsEntry(Target[p]) /\ Blocked(p)
        /\ phase' = "failed"
        /\ UNCHANGED treeVars
     \/ /\ NeedFile(p) /\ GetFileMayFail(Target[p])
        /\ db' = [db EXCEPT ![p] = NoText]
        /\ local' = [local EXCEPT ![p] = Absent]
        /\ UNCHANGED <<mine, phase>>
  /\ UNCHANGED <<run, driveVars, docVars, fileVars, pending, countVars>>

\* The end of run(): the revision, the URL, and the cache is closed.
Finish ==
  /\ phase = "integrity" /\ checks = {}
  /\ revfile' = run.to
  /\ pending' = NoRev
  /\ phase' = "idle"
  /\ UNCHANGED <<treeVars, run, driveVars, docVars, cacheOK, checks, countVars>>

\* errx and the signal handler both go through atexit_cb: the cache is
\* closed in order, and nothing is recorded.
Quit ==
  /\ phase \in {"failed", "stopped"}
  /\ phase' = "idle"
  /\ dels' = {} /\ upds' = {} /\ checks' = {}
  /\ UNCHANGED <<treeVars, run, docVars, fileVars, pending, countVars>>

-----------------------------------------------------------------------------
(***************************************************************************)
(* Signals.  SIGKILL leaves the cache open, SIGTERM and SIGINT do not.     *)
(***************************************************************************)
Signal ==
  /\ stops < MaxStops
  /\ stops' = stops + 1
  /\ \/ "term" \in Scenario /\ UNCHANGED cacheOK
     \/ "kill" \in Scenario /\ cacheOK' = FALSE

StoppedInEdit ==
  /\ StopInEdit
  /\ Signal
  /\ UNCHANGED <<revfile, pending, checks, mods>>

\* Some of the directories above a missing file are made, from the top; the
\* file is created empty, written in pieces and chmoded last.
MissingAbove(p) == {q \in Above(p) : local[q].kind = "none" /\ local[p].kind = "none"}

HalfRestored(p) ==
  \/ \E made \in SUBSET MissingAbove(p) :
       /\ \A q \in made : MissingAbove(p) \cap Above(q) \subseteq made
       /\ local' = [q \in Path |-> IF q \in made THEN Dir ELSE local[q]]
  \/ \E t \in {Torn, Target[p].text} \cup {u \in {Empty} : ~IsFile(local[p])} :
       local' = [Restored(p) EXCEPT ![p] = File(t, local[p].exec)]

StoppedInIntegrity ==
  /\ phase = "integrity"
  /\ phase' = "stopped"
  /\ \/ UNCHANGED <<local, db>>
     \/ \E p \in checks :
          /\ NeedFile(p) /\ IsEntry(Target[p]) /\ ~Blocked(p)
          /\ HalfRestored(p)
          /\ UNCHANGED db
     \/ \E p \in checks :
          /\ NeedFile(p) /\ GetFileMayFail(Target[p])
          /\ db' = [db EXCEPT ![p] = NoText]
          /\ UNCHANGED local
  /\ Signal
  /\ UNCHANGED <<mine, run, driveVars, docVars, revfile, pending, checks, mods>>

\* .svnup.rev is opened with O_TRUNC before the revision is written to it.
StoppedInFinish ==
  /\ phase = "integrity" /\ checks = {}
  /\ phase' = "stopped"
  /\ revfile' \in {BlankRev, run.to}
  /\ Signal
  /\ UNCHANGED <<treeVars, run, driveVars, docVars, pending, checks, mods>>

-----------------------------------------------------------------------------
(***************************************************************************)
(* The user between two runs: writes a file, makes a symlink or removes    *)
(* either, or moves a directory away and leaves a symlink to it.           *)
(***************************************************************************)
UserNodes(p) ==
  IF local[p].kind = "dir"
    THEN {Link(t) : t \in IF "relocate" \in Scenario THEN LinkText ELSE {}}
    ELSE IF "modify" \in Scenario
           THEN {File(t, local[p].exec) : t \in Text} \cup {Absent}
                  \cup {Link(t) : t \in LinkText}
           ELSE {}

Modify(p) ==
  /\ phase = "idle"
  /\ mods < MaxMods
  /\ mods' = mods + 1
  /\ \A q \in Above(p) : local[q].kind \in {"dir", "link"}
  /\ \E n \in UserNodes(p) \ {local[p]} : local' = [local EXCEPT ![p] = n]
  /\ mine' = mine \cup {p}
  /\ UNCHANGED <<db, phase, run, driveVars, docVars, fileVars, pending, checks, stops>>

-----------------------------------------------------------------------------
Program ==
  \/ EditStep
  \/ CloseEdit
  \/ \E p \in Path : CheckFile(p)
  \/ Finish
  \/ Quit

Environment ==
  \/ \E to \in Rev, o \in Options : Start(to, o)
  \/ StoppedInEdit \/ StoppedInIntegrity \/ StoppedInFinish
  \/ \E p \in Path : Modify(p)

Next == Program \/ Environment

Spec == Init /\ [][Next]_vars

-----------------------------------------------------------------------------
(***************************************************************************)
(* The revision on record names the tree on disk: once a run has finished, *)
(* every path the user has not changed since has the kind and text it has  *)
(* in the recorded revision, however often runs to that revision were      *)
(* stopped and repeated (run of main.c saves the revision last).           *)
(***************************************************************************)
Recorded == phase = "idle" /\ pending = NoRev /\ revfile \in Rev

RecordedTree ==
  Recorded => \A p \in Path \ mine : Same(local[p], Repo[revfile][p])

(***************************************************************************)
(* Runs that are stopped and repeated are, together, one update of the     *)
(* working copy: .svnup.rev moves only from one complete tree to the next, *)
(* and a run never touches what both revisions have and the user left      *)
(* alone, however often it is stopped.                                     *)
(***************************************************************************)
Copy == INSTANCE WorkingCopy WITH
          tree <- local,
          rev <- IF revfile \in Rev THEN revfile ELSE NoRev,
          goal <- pending,
          own <- mine

Implements == Copy!Spec

(***************************************************************************)
(* The cache holds the checksum of every file of that revision, whoever    *)
(* changed the file: what svnc_check_integrity compares with is right.     *)
(***************************************************************************)
RecordedCache ==
  Recorded => \A p \in Path :
                IsFile(Repo[revfile][p]) => db[p] = Repo[revfile][p].text

(***************************************************************************)
(* What is left of it when a killed run is followed by -fC and everything  *)
(* is sent again: all that the revision has is there.                      *)
(***************************************************************************)
TargetPresent ==
  Recorded => \A p \in Path \ mine :
                Repo[revfile][p].kind # "none" => Same(local[p], Repo[revfile][p])

(***************************************************************************)
(* A run without -t that was sent a delta for a file has put the file      *)
(* right when close-file is done with it, whatever the file held.  Only a  *)
(* file and a symlink of the same text may stand for one another: the text *)
(* is all that the checksum of close-file covers.                          *)
(***************************************************************************)
ClosesFile == doc # NoDoc /\ doc' = NoDoc /\ phase' = "edit"

FixedUp ==
  [][ClosesFile /\ ~run.tolerant /\ doc.delta # "none"
       => /\ local'[doc.path].text = Wanted.text
          /\ Wanted.text \in LinkText \/ Same(local'[doc.path], Wanted)]_vars

(***************************************************************************)
(* The same of every regular file the run opened, delta or none: README.md *)
(* promises a full copy when something went wrong.  The code takes an      *)
(* opened file without a base checksum for an added one (svnedit.c:694).   *)
(***************************************************************************)
AlwaysFixedUp ==
  [][ClosesFile /\ ~run.tolerant /\ IsFile(Here) => Same(local'[doc.path], Wanted)]_vars

(***************************************************************************)
(* What is tracked in neither revision and is not below a deleted entry is *)
(* not touched by a run.                                                   *)
(***************************************************************************)
Untracked(p) ==
  /\ Source[p].kind = "none" /\ Target[p].kind = "none"
  /\ ({p} \cup Above(p)) \cap dels = {}

UntrackedKept ==
  [][\A p \in Path :
       phase \in {"edit", "integrity"} /\ Untracked(p) => local'[p] = local[p]]_vars

(***************************************************************************)
(* When -R is done, every file of the target is intact, the ones the user  *)
(* changed or removed included; only a symlink or a directory in the place *)
(* of a file is left alone.                                                *)
(***************************************************************************)
Repaired ==
  phase = "integrity" /\ run.repair /\ checks = {}
    => \A p \in Path :
         IsFile(Target[p]) /\ local[p].kind \notin {"link", "dir"}
           => Same(local[p], Target[p])

(***************************************************************************)
(* No run is refused what it finds: a handler reports no error over what   *)
(* earlier runs, stopped anywhere, have left behind, as long as the user   *)
(* stays out of the tree.                                                  *)
(***************************************************************************)
NeverRefused == mods = 0 => phase # "failed"

(***************************************************************************)
(* ... in particular not a first checkout that is repeated.                *)
(***************************************************************************)
CheckoutResumes == run.from = NoRev => phase # "failed"

=============================================================================
