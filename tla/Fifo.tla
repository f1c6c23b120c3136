-------------------------------- MODULE Fifo --------------------------------
(***************************************************************************)
(* What the receive ring promises the protocol parser: bytes come out once *)
(* each and in the order in which they went in.                            *)
(* Bytes are numbered as they go in.  If the build tears a store, the      *)
(* newest byte, and only that one, may be read as something else.  If the  *)
(* build misleads, a reader who has read everything may be told that there *)
(* is more; the promise ends when that happens and not before.             *)
(***************************************************************************)
EXTENDS Naturals, Sequences

CONSTANT Capacity   \* bytes that may wait

VARIABLES
  put,        \* number of bytes that went in
  taken,      \* the bytes that came out
  tears,      \* the build announces a byte before it is there
  misleads,   \* the build can show an empty queue as one that is not
  broken      \* the reader has read from an empty queue

vars == <<put, taken, tears, misleads, broken>>

Init ==
  /\ put = 0 /\ taken = <<>> /\ broken = FALSE
  /\ tears \in BOOLEAN /\ misleads \in BOOLEAN

Put ==
  /\ put - Len(taken) < Capacity
  /\ put' = put + 1
  /\ UNCHANGED <<taken, tears, misleads, broken>>

Readable ==
  IF tears /\ put = Len(taken) + 1 THEN 0 .. put ELSE {Len(taken) + 1}

Take ==
  /\ Len(taken) < put
  /\ \E b \in Readable : taken' = Append(taken, b)
  /\ UNCHANGED <<put, tears, misleads, broken>>

(* The reader is misled with nothing left to read; from then on nothing is *)
(* promised.                                                               *)
Break ==
  /\ broken \/ (misleads /\ put = Len(taken))
  /\ broken' = TRUE
  /\ UNCHANGED <<tears, misleads>>

Next == Put \/ Take \/ Break

Spec == Init /\ [][Next]_vars
=============================================================================
