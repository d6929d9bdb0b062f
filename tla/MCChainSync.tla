---------------------------- MODULE MCChainSync ----------------------------
(* Constants for model checking ChainSync. *)
EXTENDS ChainSync, TLC

CONSTANTS p1, p2

MCNode == {p1, p2}
MCSilent == {p1}
MCAnswering == {p2}
MCNone == {}
=============================================================================
