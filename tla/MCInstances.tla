---------------------------- MODULE MCInstances ----------------------------
(***************************************************************************)
(* Three processes on one directory.                                       *)
(***************************************************************************)
EXTENDS Instances, TLC

CONSTANTS p1, p2, p3

Procs == {p1, p2, p3}
Symmetry == Permutations(Procs)

=============================================================================
