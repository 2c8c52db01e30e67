---------------------------- MODULE MCFollowUps ----------------------------
(***************************************************************************)
(* FollowUps on small sets: the values are those of the .cfg files.        *)
(***************************************************************************)
EXTENDS FollowUps
=============================================================================
