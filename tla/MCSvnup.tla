------------------------------ MODULE MCSvnup ------------------------------
(***************************************************************************)
(* Small repositories for Svnup.  f and d are entries of the root, g is in *)
(* d; the revisions are chosen so that between any two of them something   *)
(* is added, deleted, changed in text, changed in mode or changed in kind. *)
(***************************************************************************)
EXTENDS Svnup, TLC

CONSTANTS a, b, c, la, lb

f == <<"f">>
d == <<"d">>
g == <<"d", "g">>

Paths == {f, d, g}
Revs == 1..4
FiveRevs == 1..5

Tree(nf, nd, ng) == (f :> nf) @@ (d :> nd) @@ (g :> ng)

FileTrees ==
  <<Tree(File(a, FALSE), Dir, File(a, FALSE)),
    Tree(File(b, FALSE), Dir, File(a, TRUE)),
    Tree(Absent, File(b, FALSE), Absent),
    Tree(File(a, TRUE), Absent, Absent)>>

\* Files and symlinks: each comes, goes, changes, and takes the other's place.
MixedTrees ==
  <<Tree(File(a, FALSE), Dir, File(a, FALSE)),
    Tree(File(b, FALSE), Dir, File(a, TRUE)),
    Tree(Link(la), File(b, FALSE), Absent),
    Tree(Link(lb), Dir, Link(la)),
    Tree(File(la, TRUE), Absent, Absent)>>

\* A directory that comes and goes with a file g, and h, the name of a file
\* of the user that no revision has.
h == <<"d", "h">>
ConfPaths == {d, g, h}

ConfTree(nd, ng) == (d :> nd) @@ (g :> ng) @@ (h :> Absent)

ConfTrees ==
  <<ConfTree(Dir, File(a, FALSE)),
    ConfTree(Dir, File(b, TRUE)),
    ConfTree(Absent, Absent),
    ConfTree(File(b, FALSE), Absent),
    ConfTree(Dir, Absent)>>

=============================================================================
