-------------------------- MODULE MCContextJournal --------------------------
(***************************************************************************)
(* ContextJournal on small conversations: the values are those of the .cfg *)
(* files.                                                                  *)
(***************************************************************************)
EXTENDS ContextJournal
=============================================================================
