-------------------------------- MODULE MCOta --------------------------------
EXTENDS Ota

CONSTANTS v1, v2, v3

(* The image v3 is too large for a partition of three blocks.              *)
MCBlocks == [i \in Images |-> IF i = v1 THEN 2 ELSE IF i = v2 THEN 3 ELSE 4]
=============================================================================
