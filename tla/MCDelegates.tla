---------------------------- MODULE MCDelegates ----------------------------
(***************************************************************************)
(* Delegates on small sets: the values are those of the .cfg files.        *)
(***************************************************************************)
EXTENDS Delegates
=============================================================================
