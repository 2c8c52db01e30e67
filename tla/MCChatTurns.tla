----------------------------- MODULE MCChatTurns -----------------------------
(***************************************************************************)
(* ChatTurns on small sets of workers and messages.  Workers and the       *)
(* messages of one origin are interchangeable.                             *)
(***************************************************************************)
EXTENDS ChatTurns, TLC

Symmetry == Permutations(Workers) \cup Permutations(Typed)
=============================================================================
