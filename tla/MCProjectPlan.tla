---------------------------- MODULE MCProjectPlan ----------------------------
(***************************************************************************)
(* ProjectPlan on three ids and two kinds of row.                          *)
(***************************************************************************)
EXTENDS ProjectPlan

WriterAndReader == {[writes |-> TRUE, gate |-> TRUE], [writes |-> FALSE, gate |-> FALSE]}
=============================================================================
