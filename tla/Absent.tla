------------------------------- MODULE Absent --------------------------------
(***************************************************************************)
(* What stands for an empty string, a NULL and a nil in the modules that    *)
(* are checked together.                                                   *)
(***************************************************************************)
CONSTANT None
=============================================================================
