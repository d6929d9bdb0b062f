---------------------------- MODULE MCBlockRelay ----------------------------
(***************************************************************************)
(* Instances of block relay: a chain of Length blocks that every peer may  *)
(* announce.                                                               *)
(***************************************************************************)
EXTENDS BlockRelay

CONSTANT Length

Chain == 1 .. Length

Heights == [p \in Node |-> Length]
=============================================================================
