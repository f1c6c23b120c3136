---------------------------- MODULE MCRadioDriver ----------------------------
(* Radio_Queue433 has priority 9; the key thread, which sends the learning *)
(* request itself, has 10.                                                 *)
EXTENDS RadioDriver

CONSTANTS queue, key

MCPrio == [t \in Senders |-> IF t = key THEN 10 ELSE 9]
=============================================================================
