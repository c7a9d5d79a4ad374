--------------------------- MODULE MCHttpSession ---------------------------
(***************************************************************************)
(* Instances of HttpSession: one file, which the edit is about or not and  *)
(* the repair stage asks for or not.                                       *)
(***************************************************************************)
EXTENDS HttpSession

=============================================================================
