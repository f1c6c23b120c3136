-------------------------------- MODULE Keys --------------------------------
(***************************************************************************)
(* The two keys of the gateway: the callbacks that button_task attaches to *)
(* the events of the button library (applications/device.c).  Both keys    *)
(* share a callback's state: each looks at the other's counter to tell one *)
(* key held down from both.  The callbacks run in one thread; the key      *)
(* thread takes the semaphores that they release.                          *)
(*                                                                         *)
(* The library (external) reports BUTTON_LONG again and again while a key  *)
(* is held for longer than 2 s, BUTTON_LONG_FREE when such a key is let    *)
(* go, and BUTTON_DOWM after a short press, unless it is the second of a   *)
(* double click.                                                           *)
(***************************************************************************)
EXTENDS Integers

CONSTANTS
  MaxPresses,   \* bound: how often a key is pressed
  MaxLongs      \* bound: up to here the long events of a press are counted

ASSUME KeysAssumption == MaxPresses \in Nat /\ MaxLongs \in Nat /\ MaxLongs >= 7

VARIABLES
  down,      \* is the key held down?
  longs,     \* BUTTON_LONG events of the press that is under way
  counter,   \* K0_Long_Sem_Counter, K1_Long_Sem_Counter
  once,      \* K0_OnceFlag, K1_OnceFlag
  sem,       \* K0_Sem, K1_Sem, K0_Long_Sem, K1_Long_Sem, K0_K1_Long_Sem
  presses

keyVars == <<down, longs, counter, once, sem, presses>>

Key  == {"K0", "K1"}
Sems == {"K0", "K1", "K0_Long", "K1_Long", "K0_K1_Long"}
NoneReleased == [s \in Sems |-> 0]

KeysTypeOK ==
  /\ down \in [Key -> BOOLEAN] /\ longs \in [Key -> 0 .. MaxLongs]
  /\ counter \in [Key -> 0 .. 7] /\ once \in [Key -> 0 .. 1]
  /\ sem \in [Sems -> Nat] /\ presses \in 0 .. MaxPresses

KeysInit ==
  /\ down = [k \in Key |-> FALSE] /\ longs = [k \in Key |-> 0]
  /\ counter = [k \in Key |-> 0] /\ once = [k \in Key |-> 0]
  /\ sem = NoneReleased /\ presses = 0

-----------------------------------------------------------------------------
(* The callbacks.                                                          *)

Release(s) == sem' = [sem EXCEPT ![s] = @ + 1]
Count(k)   == counter' = [counter EXCEPT ![k] = @ + 1] /\ UNCHANGED <<once, sem>>
Ignore     == UNCHANGED <<counter, once, sem>>

K0_LongSem_Release ==
  LET fires == once["K0"] = 0 /\ counter["K0"] > 6 /\ counter["K1"] = 0 IN
  \/ fires /\ once' = [once EXCEPT !["K0"] = 1] /\ Release("K0_Long") /\ UNCHANGED counter
  \/ once["K0"] = 0 /\ counter["K0"] <= 6 /\ Count("K0")
  \/ ~fires /\ (once["K0"] = 1 \/ counter["K0"] > 6) /\ Ignore

K1_LongSem_Release ==
  \/ /\ once["K1"] = 0 /\ counter["K1"] > 6
     /\ once' = [once EXCEPT !["K1"] = 1]
     /\ Release(IF counter["K0"] > 5 THEN "K0_K1_Long" ELSE "K1_Long")
     /\ UNCHANGED counter
  \/ once["K1"] = 0 /\ counter["K1"] <= 6 /\ Count("K1")
  \/ once["K1"] = 1 /\ Ignore

(* Variation of LongFree_Release: the counter is left as it is.            *)
LongFree_Release_CounterKept(k) ==
  /\ once' = [once EXCEPT ![k] = 0]
  /\ UNCHANGED <<counter, sem>>

LongFree_Release(k) ==
  /\ once' = [once EXCEPT ![k] = 0]
  /\ counter' = [counter EXCEPT ![k] = 0]
  /\ UNCHANGED sem

-----------------------------------------------------------------------------
(* The button library.                                                     *)

Press(k) ==
  /\ ~down[k] /\ presses < MaxPresses
  /\ down' = [down EXCEPT ![k] = TRUE] /\ presses' = presses + 1
  /\ UNCHANGED <<longs, counter, once, sem>>

StillHeld(k) ==
  /\ down[k]
  /\ longs' = [longs EXCEPT ![k] = IF @ < MaxLongs THEN @ + 1 ELSE @]
  /\ IF k = "K0" THEN K0_LongSem_Release ELSE K1_LongSem_Release
  /\ UNCHANGED <<down, presses>>

LetGo(k) ==
  /\ down[k] /\ down' = [down EXCEPT ![k] = FALSE]
  /\ longs' = [longs EXCEPT ![k] = 0]
  /\ \/ longs[k] > 0 /\ LongFree_Release(k)
     \/ longs[k] = 0 /\ Release(k) /\ UNCHANGED <<counter, once>>
     \/ longs[k] = 0 /\ Ignore                       \* a double click
  /\ UNCHANGED presses

button_task == \E k \in Key : Press(k) \/ StillHeld(k) \/ LetGo(k)

-----------------------------------------------------------------------------
(* Properties.                                                             *)

(* What the callbacks ask for is what the hand on the keys meant: a        *)
(* factory reset only while both keys are held, learning only while K0     *)
(* alone is, a reset of the WiFi module only while K1 is and K0 has not    *)
(* been held for long, whatever was pressed before and in which order the  *)
(* keys went down and up.                                                  *)
Asks(s) == sem'[s] > sem[s]
GesturesMeant ==
  [][/\ Asks("K0_K1_Long") => longs["K0"] >= 6 /\ longs["K1"] >= 7
     /\ Asks("K0_Long") => longs["K0"] >= 7 /\ longs["K1"] = 0
     /\ Asks("K1_Long") => longs["K1"] >= 7 /\ longs["K0"] < 6]_keyVars
=============================================================================
