-------------------------- MODULE Instances_proofs --------------------------
(***************************************************************************)
(* Theorems about Instances, for any number of processes and revisions and *)
(* whatever signals and options are in use.                                *)
(***************************************************************************)
EXTENDS Instances, TLAPS

(***************************************************************************)
(* The variables keep their types through every step of main and run.      *)
(***************************************************************************)
LEMMA TypeInit == Init => TypeOK
BY DEF Init, TypeOK, Steps

LEMMA TypeStep == TypeOK /\ [Next]_vars => TypeOK'
<1> SUFFICES ASSUME TypeOK, [Next]_vars PROVE TypeOK'
  OBVIOUS
<1> USE DEF TypeOK, Steps, Go
<1>1. CASE UNCHANGED vars
  BY <1>1 DEF vars
<1>2. ASSUME NEW p \in Proc, Run(p) PROVE TypeOK'
  <2>1. CASE Atexit(p) \/ LockIsFree(p) \/ ClearLock(p) \/ LockIsTaken(p)
    BY <2>1 DEF Atexit, LockIsFree, ClearLock, LockIsTaken
  <2>2. CASE CreateLock(p) \/ Sigaction(p) \/ Update(p) \/ UnlinkLock(p)
    BY <2>2 DEF CreateLock, Sigaction, Update, UnlinkLock
  <2>3. CASE ReadRevision(p)
    BY <2>3 DEF ReadRevision
  <2>4. CASE OpenCache(p) \/ SaveRevision(p)
    BY <2>4 DEF OpenCache, SaveRevision
  <2>5. CASE Destroy(p) \/ CloseCache(p)
    BY <2>5 DEF Destroy, CloseCache, Release
  <2>6. QED
    BY <1>2, <2>1, <2>2, <2>3, <2>4, <2>5 DEF Run, Local
<1>3. ASSUME NEW p \in Proc, Fail(p) \/ Term(p) PROVE TypeOK'
  BY <1>3 DEF Fail, Term
<1>4. ASSUME NEW p \in Proc, Die(p) PROVE TypeOK'
  BY <1>4 DEF Die, Release
<1>5. QED
  BY <1>1, <1>2, <1>3, <1>4 DEF Next, Step, Done, TermTooEarly, Kill

THEOREM TypeCorrect == Spec => []TypeOK
BY TypeInit, TypeStep, PTL DEF Spec

(***************************************************************************)
(* A process that edits has the cache open, so that there is only one: the *)
(* lock dbopen takes carries what the lock file does not.                  *)
(***************************************************************************)
EditorHolds == \A p \in Proc : InEdit(p) => holder = p

LEMMA EditorHoldsStep == TypeOK /\ EditorHolds /\ [Next]_vars => EditorHolds'
<1> SUFFICES ASSUME TypeOK, EditorHolds, [Next]_vars,
                    NEW q \in Proc, InEdit(q)'
             PROVE  holder' = q
  BY DEF EditorHolds
<1> USE NoProcAssumption DEF TypeOK, EditorHolds, InEdit, Go
<1>1. CASE UNCHANGED vars
  BY <1>1 DEF vars
<1>2. ASSUME NEW p \in Proc, Run(p) PROVE holder' = q
  <2>1. CASE Atexit(p) \/ LockIsFree(p) \/ ClearLock(p) \/ LockIsTaken(p)
    BY <2>1 DEF Atexit, LockIsFree, ClearLock, LockIsTaken
  <2>2. CASE CreateLock(p) \/ Sigaction(p) \/ UnlinkLock(p)
    BY <2>2 DEF CreateLock, Sigaction, UnlinkLock
  <2>3. CASE ReadRevision(p) \/ Update(p) \/ SaveRevision(p)
    BY <2>3 DEF ReadRevision, Update, SaveRevision
  <2>4. CASE OpenCache(p)
    \* Nobody else edits: the holder would be that process.
    BY <2>4 DEF OpenCache
  <2>5. CASE Destroy(p) \/ CloseCache(p)
    BY <2>5 DEF Destroy, CloseCache, Release
  <2>6. QED
    BY <1>2, <2>1, <2>2, <2>3, <2>4, <2>5 DEF Run, Local
<1>3. ASSUME NEW p \in Proc, Fail(p) \/ Term(p) PROVE holder' = q
  BY <1>3 DEF Fail, Term
<1>4. ASSUME NEW p \in Proc, Die(p) PROVE holder' = q
  BY <1>4 DEF Die, Release
<1>5. QED
  BY <1>1, <1>2, <1>3, <1>4 DEF Next, Step, Done, TermTooEarly, Kill

THEOREM OneEditorAtATime == Spec => []OneEditor
<1>1. Init => EditorHolds
  BY DEF Init, EditorHolds, InEdit
<1>2. EditorHolds => OneEditor
  BY DEF EditorHolds, OneEditor
<1>3. QED
  BY <1>1, <1>2, TypeCorrect, EditorHoldsStep, PTL DEF Spec

(***************************************************************************)
(* A lock file without an owner is left by a process that could not run    *)
(* its exit handler, and by no other interleaving of checks, creations and *)
(* removals.                                                               *)
(***************************************************************************)
LEMMA NoStaleLockStep == TypeOK /\ NoStaleLock /\ [Next]_vars => NoStaleLock'
<1> SUFFICES ASSUME TypeOK, NoStaleLock, [Next]_vars, lock', ~orphaned'
             PROVE  \E p \in Proc : WillUnlink(p)'
  BY DEF NoStaleLock
<1> USE DEF TypeOK, NoStaleLock, WillUnlink, Caught, Go
<1>1. CASE UNCHANGED vars
  BY <1>1 DEF vars
<1>2. ASSUME NEW p \in Proc, Run(p) PROVE \E q \in Proc : WillUnlink(q)'
  <2>1. CASE CreateLock(p)
    BY <2>1 DEF CreateLock
  <2>2. CASE UnlinkLock(p) \/ ClearLock(p)
    BY <2>2 DEF UnlinkLock, ClearLock
  <2>3. CASE Atexit(p) \/ LockIsFree(p) \/ LockIsTaken(p)
    BY <2>3 DEF Atexit, LockIsFree, LockIsTaken
  <2>4. CASE Sigaction(p) \/ ReadRevision(p) \/ OpenCache(p) \/ Update(p)
    BY <2>4 DEF Sigaction, ReadRevision, OpenCache, Update
  <2>5. CASE SaveRevision(p) \/ Destroy(p) \/ CloseCache(p)
    BY <2>5 DEF SaveRevision, Destroy, CloseCache
  <2>6. QED
    BY <1>2, <2>1, <2>2, <2>3, <2>4, <2>5 DEF Run, Local
<1>3. ASSUME NEW p \in Proc, Fail(p) \/ Term(p) PROVE \E q \in Proc : WillUnlink(q)'
  BY <1>3 DEF Fail, Term
<1>4. ASSUME NEW p \in Proc, Die(p) PROVE \E q \in Proc : WillUnlink(q)'
  BY <1>4 DEF Die
<1>5. QED
  BY <1>1, <1>2, <1>3, <1>4 DEF Next, Step, Done, TermTooEarly, Kill

THEOREM StaleLockMeansDeath == Spec => []NoStaleLock
<1>1. Init => NoStaleLock
  BY DEF Init, NoStaleLock
<1>2. QED
  BY <1>1, TypeCorrect, NoStaleLockStep, PTL DEF Spec

=============================================================================
