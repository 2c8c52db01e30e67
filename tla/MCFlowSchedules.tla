-------------------------- MODULE MCFlowSchedules --------------------------
(***************************************************************************)
(* FlowSchedules over four instants whose clock reads 0 1 and, set back an *)
(* hour, 1 2; an interval of one and a cron on two faces.                  *)
(***************************************************************************)
EXTENDS FlowSchedules

AutumnFace == [i \in 0..3 |-> IF i < 2 THEN i ELSE i - 1]
TwoTriggers == {[kind |-> "every", n |-> 1], [kind |-> "cron", at |-> {1, 2}]}
=============================================================================
