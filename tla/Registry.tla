------------------------------ MODULE Registry ------------------------------
(***************************************************************************)
(* What the device registry promises the rest of the gateway: a table of   *)
(* devices in which every device is at most once, and a copy of it that    *)
(* survives a reset.  Both change together, as if the store were written   *)
(* in one piece, but for the device that is being added: until its last    *)
(* key is written a reset may lose it, or bring it back in its slot with   *)
(* an older controller and online flag.                                    *)
(***************************************************************************)
CONSTANTS Devices, Slots, None, Flag

VARIABLES
  known,    \* the entries of each device: slot, controller, online flag
  kept,     \* what a reset would make of them
  adding    \* the device that is being added, if there is one

vars == <<known, kept, adding>>

Controller == Devices \cup {None}

Init ==
  /\ known = [d \in Devices |-> {}] /\ kept = [d \in Devices |-> {}]
  /\ adding = {}

(* A device is taken up, in a slot that no other device has.               *)
Enter(d) ==
  /\ adding = {} /\ known[d] = {}
  /\ \E s \in Slots, c \in Controller :
       /\ \A x \in Devices : \A e \in known[x] : e[1] # s
       /\ known' = [known EXCEPT ![d] = {<<s, c, 1>>}]
  /\ adding' = {d} /\ UNCHANGED kept

(* A part of its entry is saved, then the last of it.                      *)
SavePart(d) ==
  /\ adding = {d}
  /\ \E e \in known[d], c \in Controller, h \in Flag :
       kept' = [kept EXCEPT ![d] = {<<e[1], c, h>>}]
  /\ UNCHANGED <<known, adding>>

SaveRest(d) ==
  /\ adding = {d}
  /\ kept' = [kept EXCEPT ![d] = known[d]]
  /\ adding' = {} /\ UNCHANGED known

Forget(d) ==
  /\ adding = {}
  /\ known' = [known EXCEPT ![d] = {}] /\ kept' = [kept EXCEPT ![d] = {}]
  /\ UNCHANGED adding

(* A device goes online or offline.                                        *)
Marked(E, h) == {<<e[1], e[2], h>> : e \in E}

Mark(d, h) ==
  /\ adding = {} /\ known[d] # {}
  /\ known' = [known EXCEPT ![d] = Marked(known[d], h)]
  /\ kept' = [kept EXCEPT ![d] = Marked(kept[d], h)]
  /\ UNCHANGED adding

Restart == known' = kept /\ adding' = {} /\ UNCHANGED kept

Next ==
  \/ \E d \in Devices :
       \/ Enter(d) \/ SavePart(d) \/ SaveRest(d) \/ Forget(d)
       \/ \E h \in Flag : Mark(d, h)
  \/ Restart

Spec == Init /\ [][Next]_vars
=============================================================================
