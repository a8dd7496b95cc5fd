-------------------------- MODULE MCOperatorSession --------------------------
(* Two people at one station, and the record of one wipe. *)
EXTENDS OperatorSession

CONSTANTS ann, bob, r1
=============================================================================
