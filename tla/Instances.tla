----------------------------- MODULE Instances -----------------------------
(***************************************************************************)
(* Several svnup processes on one directory: the lock file that main takes *)
(* and atexit_cb removes, the exclusive lock dbopen takes on the checksum  *)
(* cache (O_EXLOCK), and the revision file that run() reads before the one *)
(* and writes under the other.  Each process is one invocation.            *)
(***************************************************************************)
EXTENDS Naturals

CONSTANTS
  Proc,    \* the processes
  NoProc,  \* no process
  Rev,     \* the revisions of the repository
  NoRev,   \* no revision file, the report is start-empty
  Options, \* the options in use, out of "-f" and "-C"
  Signals  \* the signals sent, out of "term" (or INT) and "kill"

ASSUME NoProcAssumption == NoProc \notin Proc
ASSUME NoRevAssumption == NoRev \notin Rev
ASSUME OptionAssumption == Options \subseteq {"-f", "-C"} /\ Signals \subseteq {"term", "kill"}

VARIABLES
  pc,      \* how far each process is in main and run
  opts,    \* its options
  lock,    \* .svnup.lock exists
  holder,  \* which process has .svnup.cache open
  revfile, \* .svnup.rev
  src,     \* source_rev of run()
  orphaned \* history: a process died without atexit_cb and left its lock

vars == <<pc, opts, lock, holder, revfile, src, orphaned>>

Steps == {"new", "check", "create", "arm", "read", "open", "edit", "save",
          "destroy", "exit", "close", "gone"}

TypeOK ==
  /\ pc \in [Proc -> Steps]
  /\ opts \in [Proc -> SUBSET Options]
  /\ lock \in BOOLEAN
  /\ holder \in Proc \cup {NoProc}
  /\ revfile \in Rev \cup {NoRev}
  /\ src \in [Proc -> Rev \cup {NoRev}]
  /\ orphaned \in BOOLEAN

Init ==
  /\ pc = [p \in Proc |-> "new"]
  /\ opts \in [Proc -> SUBSET Options]
  /\ lock = FALSE
  /\ holder = NoProc
  /\ revfile \in Rev \cup {NoRev}
  /\ src = [p \in Proc |-> NoRev]
  /\ orphaned = FALSE

Go(p, from, to) == pc[p] = from /\ pc' = [pc EXCEPT ![p] = to]

-----------------------------------------------------------------------------
(***************************************************************************)
(* main: the exit handler first, then the lock file.                       *)
(***************************************************************************)
Atexit(p) ==
  /\ Go(p, "new", "check")
  /\ UNCHANGED <<opts, lock, holder, revfile, src, orphaned>>

LockIsFree(p) ==
  /\ ~lock
  /\ Go(p, "check", "create")
  /\ UNCHANGED <<opts, lock, holder, revfile, src, orphaned>>

ClearLock(p) ==
  /\ lock /\ "-f" \in opts[p]
  /\ Go(p, "check", "create")
  /\ lock' = FALSE
  /\ UNCHANGED <<opts, holder, revfile, src, orphaned>>

\* Seeded fault: a lock file that is there is waited for.
WaitForLock(p) ==
  /\ lock /\ "-f" \notin opts[p]
  /\ pc[p] = "check"
  /\ UNCHANGED vars

\* exit(1) calls the exit handler as well.
LockIsTaken(p) ==
  /\ lock /\ "-f" \notin opts[p]
  /\ Go(p, "check", "exit")
  /\ UNCHANGED <<opts, lock, holder, revfile, src, orphaned>>

\* open without O_EXCL: it succeeds whether the file is there or not.
CreateLock(p) ==
  /\ Go(p, "create", "arm")
  /\ lock' = TRUE
  /\ UNCHANGED <<opts, holder, revfile, src, orphaned>>

\* From here on SIGTERM and SIGINT are caught.
Sigaction(p) ==
  /\ Go(p, "arm", "read")
  /\ UNCHANGED <<opts, lock, holder, revfile, src, orphaned>>

-----------------------------------------------------------------------------
(***************************************************************************)
(* run.                                                                    *)
(***************************************************************************)
ReadRevision(p) ==
  /\ Go(p, "read", "open")
  /\ IF "-C" \in opts[p]
       THEN revfile' = NoRev /\ src' = src
       ELSE revfile' = revfile /\ src' = [src EXCEPT ![p] = revfile]
  /\ UNCHANGED <<opts, lock, holder, orphaned>>

\* Seeded fault: dbopen without O_EXLOCK.
OpenCacheShared(p) ==
  /\ Go(p, "open", "edit")
  /\ holder' = p
  /\ UNCHANGED <<opts, lock, revfile, src, orphaned>>

\* dbopen waits for the lock on the cache.
OpenCache(p) ==
  /\ Go(p, "open", "edit")
  /\ holder = NoProc
  /\ holder' = p
  /\ UNCHANGED <<opts, lock, revfile, src, orphaned>>

Update(p) ==
  /\ Go(p, "edit", "save")
  /\ UNCHANGED <<opts, lock, holder, revfile, src, orphaned>>

\* Seeded fault: the revision asked for is saved, 0 for the latest.
SaveRevisionAsked(p) ==
  /\ Go(p, "save", "destroy")
  /\ revfile' \in Rev \cup {0}
  /\ UNCHANGED <<opts, lock, holder, src, orphaned>>

SaveRevision(p) ==
  /\ Go(p, "save", "destroy")
  /\ revfile' \in Rev
  /\ UNCHANGED <<opts, lock, holder, src, orphaned>>

Release(p) == holder' = IF holder = p THEN NoProc ELSE holder

Destroy(p) ==
  /\ Go(p, "destroy", "exit")
  /\ Release(p)
  /\ UNCHANGED <<opts, lock, revfile, src, orphaned>>

\* Every errx, err and assertion of run() is an exit.
Fail(p) ==
  /\ \E from \in {"read", "open", "edit", "save"} : Go(p, from, "exit")
  /\ UNCHANGED <<opts, lock, holder, revfile, src, orphaned>>

-----------------------------------------------------------------------------
(***************************************************************************)
(* atexit_cb: whatever lock file is there goes, and then the cache.        *)
(***************************************************************************)
\* Seeded fault: the lock file is left to the next run.
KeepLock(p) ==
  /\ Go(p, "exit", "close")
  /\ UNCHANGED <<opts, lock, holder, revfile, src, orphaned>>

UnlinkLock(p) ==
  /\ Go(p, "exit", "close")
  /\ lock' = FALSE
  /\ UNCHANGED <<opts, holder, revfile, src, orphaned>>

CloseCache(p) ==
  /\ Go(p, "close", "gone")
  /\ Release(p)
  /\ UNCHANGED <<opts, lock, revfile, src, orphaned>>

-----------------------------------------------------------------------------
(***************************************************************************)
(* Signals.  A signal that is not caught ends the process on the spot; the *)
(* system closes its files.                                                *)
(***************************************************************************)
Caught == {"read", "open", "edit", "save", "destroy"}

Term(p) ==
  /\ "term" \in Signals
  /\ \E from \in Caught : Go(p, from, "exit")
  /\ UNCHANGED <<opts, lock, holder, revfile, src, orphaned>>

Die(p) ==
  /\ pc[p] # "gone" /\ pc' = [pc EXCEPT ![p] = "gone"]
  /\ Release(p)
  /\ orphaned' = (orphaned \/ pc[p] \in Caught \cup {"arm", "exit"})
  /\ UNCHANGED <<opts, lock, revfile, src>>

TermTooEarly(p) ==
  /\ "term" \in Signals
  /\ pc[p] \in {"new", "check", "create", "arm"}
  /\ Die(p)

Kill(p) == "kill" \in Signals /\ Die(p)

-----------------------------------------------------------------------------
\* Everything but the exchange with the server.
Local(p) ==
  \/ Atexit(p)
  \/ LockIsFree(p) \/ ClearLock(p) \/ LockIsTaken(p)
  \/ CreateLock(p)
  \/ Sigaction(p)
  \/ ReadRevision(p)
  \/ OpenCache(p)
  \/ SaveRevision(p)
  \/ Destroy(p)
  \/ UnlinkLock(p)
  \/ CloseCache(p)

Run(p) == Local(p) \/ Update(p)

Step(p) == Run(p) \/ Fail(p) \/ Term(p) \/ TermTooEarly(p) \/ Kill(p)

\* Every process may have ended.
Done == (\A p \in Proc : pc[p] = "gone") /\ UNCHANGED vars

Next == (\E p \in Proc : Step(p)) \/ Done

Spec == Init /\ [][Next]_vars

\* Each process is scheduled, and dbopen returns when the cache is free and
\* stays so.  An update need not end: the client may wait for its server for
\* ever.
FairSpec == Spec /\ \A p \in Proc : WF_vars(Local(p))

-----------------------------------------------------------------------------
(***************************************************************************)
(* At most one process edits the tree and saves a revision, whatever       *)
(* happens to the lock file: the cache is open from dbopen to its close.   *)
(***************************************************************************)
InEdit(p) == pc[p] \in {"edit", "save", "destroy"}

OneEditor == \A p, q \in Proc : InEdit(p) /\ InEdit(q) => p = q

(***************************************************************************)
(* A lock file has someone to remove it: a process that will run atexit_cb,*)
(* unless one died without the chance to.                                  *)
(***************************************************************************)
WillUnlink(p) == pc[p] \in Caught \cup {"arm", "exit"}

NoStaleLock == lock /\ ~orphaned => \E p \in Proc : WillUnlink(p)

(***************************************************************************)
(* The lock file keeps another instance out: one that checks it while a    *)
(* process is at work, and is not told -f, is refused.                     *)
(***************************************************************************)
LockRefuses ==
  [][\A p, q \in Proc :
       pc[p] = "check" /\ pc'[p] = "create" /\ "-f" \notin opts[p] => pc[q] \notin Caught]_vars

(***************************************************************************)
(* An invocation that checks the lock file ends, whatever lock file the    *)
(* others left, unless it waits for its server for ever, or for the cache  *)
(* that another one holds which does.                                      *)
(***************************************************************************)
WaitsForServer(p) == pc[p] = "edit"
WaitsForCache(p) == pc[p] = "open" /\ \E q \in Proc : holder = q /\ WaitsForServer(q)

EndsUnlessHung ==
  \A p \in Proc :
    pc[p] = "check" ~> pc[p] = "gone" \/ [](WaitsForServer(p) \/ WaitsForCache(p))

=============================================================================
