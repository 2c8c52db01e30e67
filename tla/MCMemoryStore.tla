--------------------------- MODULE MCMemoryStore ---------------------------
(***************************************************************************)
(* MemoryStore on three ids, two contents and one or two turns.            *)
(***************************************************************************)
EXTENDS MemoryStore, TLC

Symmetry == Permutations(Ids) \cup Permutations(Facts) \cup Permutations(Turns)
=============================================================================
