--------------------------- MODULE MCProjectTick ---------------------------
(***************************************************************************)
(* ProjectTick on one or two projects.  Projects are interchangeable.      *)
(***************************************************************************)
EXTENDS ProjectTick, TLC

Symmetry == Permutations(Projects)
=============================================================================
