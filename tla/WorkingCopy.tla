---------------------------- MODULE WorkingCopy ----------------------------
(***************************************************************************)
(* What svnup promises of a working copy, and nothing of how: a revision   *)
(* goes on record only when the tree is complete, and until then only what *)
(* the two revisions differ in, or the user has changed, is touched.       *)
(* Svnup implements it (Implements there).                                 *)
(***************************************************************************)
EXTENDS SvnRepo

VARIABLES
  tree,  \* the entries on disk
  rev,   \* the revision on record, or NoRev
  goal,  \* the revision that is being brought in, or NoRev
  own    \* paths the user changed and no run has put right since

vars == <<tree, rev, goal, own>>

Init ==
  /\ tree = EmptyTree
  /\ rev = NoRev /\ goal = NoRev
  /\ own = {}

\* A run begins, the first one towards r or one that takes up a stopped one.
Begin(r) ==
  /\ goal \in {NoRev, r}
  /\ goal' = r
  /\ UNCHANGED <<tree, rev, own>>

\* Any part of the work, in any order and at any stage of completion.
Work ==
  /\ goal \in Rev
  /\ \A p \in Path \ own :
       ReportedTree(rev)[p] = Repo[goal][p] => tree'[p] = tree[p]
  /\ own' \subseteq own
  /\ UNCHANGED <<rev, goal>>

Complete == goal \in Rev /\ \A p \in Path \ own : Same(tree[p], Repo[goal][p])

\* The record is replaced, which is two steps for someone who looks.
Record ==
  /\ Complete
  /\ rev' \in {NoRev, goal}
  /\ UNCHANGED <<tree, goal, own>>

Commit ==
  /\ Complete
  /\ rev' = goal /\ goal' = NoRev
  /\ UNCHANGED <<tree, own>>

\* The user, at any time.
Touch(p) ==
  /\ \E n \in Node : tree' = [tree EXCEPT ![p] = n]
  /\ own' = own \cup {p}
  /\ UNCHANGED <<rev, goal>>

Next ==
  \/ \E r \in Rev : Begin(r)
  \/ Work \/ Record \/ Commit
  \/ \E p \in Path : Touch(p)

Spec == Init /\ [][Next]_vars

=============================================================================
