--------------------------- MODULE MCBlockDownload ---------------------------
(***************************************************************************)
(* Instances of the block download: a chain of Length blocks, all peers    *)
(* announce all of it except the ones in Behind, which lack the last block.*)
(***************************************************************************)
EXTENDS BlockDownload

CONSTANTS Length, Behind

Chain == 1 .. Length

Heights == [p \in Node |-> IF p \in Behind THEN Length - 1 ELSE Length]
==============================================================================
