----------------------------- MODULE Optionals ------------------------------
(***************************************************************************)
(* Python's None, as a value of its own.                                   *)
(***************************************************************************)
CONSTANT None

Optional(S) == S \cup {None}
=============================================================================
