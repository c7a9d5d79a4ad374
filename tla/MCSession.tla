----------------------------- MODULE MCSession -----------------------------
(***************************************************************************)
(* Two files, so that a request that went wrong is followed by another one.*)
(***************************************************************************)
EXTENDS Session

CONSTANTS f, g

Files == {f, g}

=============================================================================
