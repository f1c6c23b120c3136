---------------------------- MODULE MCRadioQueue ----------------------------
(* Priorities of the threads that enqueue: rf_433_task and wifi-service 8, *)
(* heart and sync 10; Radio_Queue433 has 9.                                *)
EXTENDS RadioQueue

CONSTANTS radio, wifi, heart

MCPrio == [p \in Producers |-> IF p = heart THEN 10 ELSE 8]
=============================================================================
