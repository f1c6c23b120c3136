------------------------- MODULE RadioDriverProofs -------------------------
(***************************************************************************)
(* Theorems about RadioDriver, for any number of senders with any          *)
(* priorities and any number of transmissions.                             *)
(*                                                                         *)
(* RxListens follows from RxInv: when the driver takes the radio for       *)
(* receiving, an interrupt is outstanding, the receiver is on, a sender is *)
(* about to change the state, or the crystal will interrupt.  The bound of *)
(* IRQ1_Sem follows from SemInv, which adds to the semaphore the edges     *)
(* that can still come before it is taken.  Guarded needs LoneInv, a       *)
(* description of where a transmission that nobody interferes with is,     *)
(* and ChipInv.                                                            *)
(***************************************************************************)
EXTENDS RadioDriver, FiniteSetTheorems, TLAPS

(* Types, without the bound of the semaphore.                              *)
Shape ==
  /\ ubRFState \in RFStates
  /\ sem \in Nat /\ timer \in {"off", "new", "old"}
  /\ chip \in ChipSet
  /\ task \in {"idle", "fifo", "fill", "commit", "enable", "power"}
  /\ sp \in [Senders -> {"idle", "prepared", "armed", "sent"}]
  /\ boot \in 0 .. 4
  /\ sends \in 0 .. MaxSends /\ overlap \in BOOLEAN

Busy == \E t \in Senders : sp[t] # "idle"

-----------------------------------------------------------------------------
(* The receiver.                                                           *)

Listens  == chip.pwr = "rx" /\ chip.mask0 = "rx" /\ chip.mask1 = "none"
Prepared == \E t \in Senders : sp[t] = "prepared"
XtalDue  == chip.mask1 = "xtal" /\ ~chip.xtal /\ chip.mask0 = "none" /\ chip.pwr # "down"

RxInv ==
  ubRFState = "rx" => sem > 0 \/ (task = "idle" /\ (Listens \/ Prepared \/ XtalDue))

-----------------------------------------------------------------------------
(* Edges that can still come before the semaphore is taken again.          *)

Low  == IF Line(chip) \/ (chip.mask0 = "none" /\ chip.mask1 = "none") THEN 0 ELSE 1
Aged == IF timer = "old" THEN 1 ELSE 0
Ahead ==
  IF task = "fifo" THEN 2 ELSE IF task \in {"fill", "commit", "enable"} THEN 1 ELSE 0

SemInv ==
  /\ sem + Low + Aged + Ahead <= 4
  /\ task = "idle" /\ ubRFState = "tx_xtalwait" => sem + Low <= 1

-----------------------------------------------------------------------------
(* Where the task is and what it takes the radio for.                      *)

Paired ==
  \/ ubRFState = "rx"
  \/ ubRFState = "tx_xtalwait" /\ task \in {"idle", "fifo"}
  \/ ubRFState = "tx_longpreamble" /\ task \in {"fill", "commit"}
  \/ ubRFState = "tx_waitdone" /\ task \in {"enable", "power", "idle"}

BootInv ==
  /\ boot < 4 =>
       /\ timer = "off" /\ task = "idle" /\ ~Busy /\ chip.mask0 = "none"
       /\ ubRFState \in {"off", "wait_xtal", "xtal_ready", "pll_ranging", "pll_ranging_done"}
  /\ boot = 4 => Paired

ChipInv ==
  /\ task # "idle" \/ chip.mask0 = "radio" => chip.mask1 = "none"
  /\ task \in {"fifo", "fill"} => ~chip.txd /\ ~chip.done
  /\ chip.txd => ~chip.done
  /\ task = "power" /\ ubRFState = "tx_waitdone" => chip.mask0 = "radio"
  /\ boot = 4 /\ task = "idle" /\ chip.pwr = "down" => sem > 0 /\ ubRFState = "rx"
  /\ timer = "old" => chip.xtal

-----------------------------------------------------------------------------
(* No thread has started a transmission in the middle of another's start.  *)

(* A thread has begun to, but has not enabled the crystal's interrupt.     *)
Beginning == \E t \in Senders : sp[t] \in {"prepared", "armed"}
Armed     == \E t \in Senders : sp[t] = "armed"

BeginInv ==
  Beginning =>
    /\ timer = "old" => task = "idle" /\ sem = 0 /\ chip.pwr = "on"
    /\ ubRFState # "rx" /\ sem > 0 => chip.xtal
    /\ task # "idle" \/ chip.pwr = "tx" => chip.xtal
    /\ Armed /\ ubRFState = "tx_waitdone" => chip.xtal

(* The interrupt for the end is enabled, or the line stays high.           *)
Masks ==
  \/ chip.mask0 = "radio"
  \/ chip.mask0 = "none" /\ chip.mask1 = "xtal" /\ chip.xtal

WaitInv ==
  task = "idle" /\ ubRFState = "tx_waitdone" =>
    /\ ~Beginning => Masks
    /\ ~Busy => \/ chip.mask0 = "radio" /\ (timer # "off" \/ sem > 0 \/ Transmitting(chip))
                \/ chip.mask0 # "radio" /\ sem = 0 /\ timer # "off"

TimerInv ==
  ~Busy =>
    /\ task # "idle" => timer # "off" \/ sem > 0
    /\ task = "idle" /\ ubRFState = "tx_xtalwait" => timer # "off"

OneBusy == \A t, u \in Senders : sp[t] # "idle" /\ sp[u] # "idle" => t = u

Lone    == OneBusy /\ BeginInv /\ WaitInv /\ TimerInv
LoneInv == ~overlap => Lone

-----------------------------------------------------------------------------
(* Edges of the interrupt line.                                            *)

Rise(a, b) == IF ~Line(a) /\ Line(b) THEN 1 ELSE 0

LEMMA RisesOne ==
  ASSUME NEW a, NEW b
  PROVE  Rises(<<a>> \o <<b>>) = Rise(a, b)
<1> DEFINE s == <<a>> \o <<b>>
           R == {i \in 2 .. Len(s) : ~Line(s[i - 1]) /\ Line(s[i])}
<1>1. Len(s) = 2 /\ s[1] = a /\ s[2] = b
  OBVIOUS
<1>2. Rises(s) = Cardinality(R)
  BY DEF Rises
<1>3. 2 .. Len(s) = {2}
  BY <1>1
<1>4. R = IF ~Line(a) /\ Line(b) THEN {2} ELSE {}
  <2> HIDE DEF s
  <2> QED BY <1>1, <1>3
<1> QED BY <1>2, <1>4, FS_EmptySet, FS_Singleton DEF Rise

LEMMA RisesTwo ==
  ASSUME NEW a, NEW b, NEW c
  PROVE  Rises(<<a>> \o <<b, c>>) = Rise(a, b) + Rise(b, c)
<1> DEFINE s == <<a>> \o <<b, c>>
           R == {i \in 2 .. Len(s) : ~Line(s[i - 1]) /\ Line(s[i])}
<1>1. Len(s) = 3 /\ s[1] = a /\ s[2] = b /\ s[3] = c
  OBVIOUS
<1>2. Rises(s) = Cardinality(R)
  BY DEF Rises
<1>3. 2 .. Len(s) = {2, 3}
  BY <1>1
<1>4. R = IF Rise(a, b) = 1 THEN {2} ELSE IF Rise(b, c) = 1 THEN {3} ELSE {}
  <2> HIDE DEF s
  <2> QED BY <1>1, <1>3 DEF Rise
<1>5. Rise(a, b) \in {0, 1} /\ Rise(b, c) \in {0, 1} /\ ~(Rise(a, b) = 1 /\ Rise(b, c) = 1)
  BY DEF Rise
<1>6. Cardinality({2}) = 1 /\ Cardinality({3}) = 1 /\ Cardinality({}) = 0
  BY FS_EmptySet, FS_Singleton
<1> HIDE DEF R
<1> QED BY <1>2, <1>4, <1>5, <1>6

LEMMA RisesNone ==
  ASSUME NEW a, NEW b, NEW c, NEW d,
         Line(b) => Line(a), Line(c) => Line(b), Line(d) => Line(c)
  PROVE  Rises(<<a>> \o <<b, c, d>>) = 0
<1> DEFINE s == <<a>> \o <<b, c, d>>
           R == {i \in 2 .. Len(s) : ~Line(s[i - 1]) /\ Line(s[i])}
<1>1. Len(s) = 4 /\ s[1] = a /\ s[2] = b /\ s[3] = c /\ s[4] = d
  OBVIOUS
<1>2. Rises(s) = Cardinality(R)
  BY DEF Rises
<1>3. 2 .. Len(s) = {2, 3, 4}
  BY <1>1
<1>4. R = {}
  <2> HIDE DEF s
  <2> QED BY <1>1, <1>3
<1> QED BY <1>2, <1>4, FS_EmptySet

LEMMA ThroughOne ==
  ASSUME NEW c, NEW k, Through(<<c>>, k)
  PROVE  chip' = c /\ sem' = sem - k + Rise(chip, c)
BY RisesOne DEF Through

LEMMA ThroughTwo ==
  ASSUME NEW c, NEW d, NEW k, Through(<<c, d>>, k)
  PROVE  chip' = d /\ sem' = sem - k + (Rise(chip, c) + Rise(c, d))
BY RisesTwo DEF Through

LEMMA ThroughNone ==
  ASSUME NEW b, NEW c, NEW d, NEW k, Through(<<b, c, d>>, k),
         Line(b) => Line(chip), Line(c) => Line(b), Line(d) => Line(c)
  PROVE  chip' = d /\ sem' = sem - k + 0
BY RisesNone DEF Through

LEMMA Reseted == Reset \in ChipSet
BY DEF Reset, ChipSet

-----------------------------------------------------------------------------
(* What the steps do to the chip.                                          *)

Others == <<ubRFState, timer, task, sp, boot, sends, overlap>>

LEMMA ChipStep ==
  ASSUME Shape, Chip
  PROVE  /\ UNCHANGED Others
         /\ sem' = sem + Rise(chip, chip') /\ (Line(chip) => Line(chip'))
         /\ \/ chip.pwr # "down" /\ ~chip.xtal /\ chip' = [chip EXCEPT !.xtal = TRUE]
            \/ ubRFState = "pll_ranging" /\ chip' = [chip EXCEPT !.ranged = TRUE]
            \/ chip.pwr = "rx" /\ chip.xtal /\ chip' = [chip EXCEPT !.rxd = TRUE]
            \/ Transmitting(chip) /\ chip' = [chip EXCEPT !.txd = FALSE, !.done = TRUE]
<1> USE DEF Shape, ChipSet, Line
<1>1. UNCHANGED Others
  BY DEF Chip, XtalReady, Ranged, PacketReceived, PacketSent, Others
<1>2. sem - 0 = sem
  OBVIOUS
<1>3. CASE XtalReady
  <2>1. chip' = [chip EXCEPT !.xtal = TRUE] /\ sem' = sem - 0 + Rise(chip, chip')
    BY <1>3, ThroughOne DEF XtalReady
  <2> QED BY <1>1, <1>2, <1>3, <2>1 DEF XtalReady
<1>4. CASE Ranged
  <2>1. chip' = [chip EXCEPT !.ranged = TRUE] /\ sem' = sem - 0 + Rise(chip, chip')
    BY <1>4, ThroughOne DEF Ranged
  <2> QED BY <1>1, <1>2, <1>4, <2>1 DEF Ranged
<1>5. CASE PacketReceived
  <2>1. chip' = [chip EXCEPT !.rxd = TRUE] /\ sem' = sem - 0 + Rise(chip, chip')
    BY <1>5, ThroughOne DEF PacketReceived
  <2> QED BY <1>1, <1>2, <1>5, <2>1 DEF PacketReceived
<1>6. CASE PacketSent
  <2>1. chip' = [chip EXCEPT !.txd = FALSE, !.done = TRUE] /\ sem' = sem - 0 + Rise(chip, chip')
    BY <1>6, ThroughOne DEF PacketSent
  <2> QED BY <1>1, <1>2, <1>6, <2>1 DEF PacketSent
<1> QED BY <1>3, <1>4, <1>5, <1>6 DEF Chip

LEMMA ReceiveStep ==
  ASSUME Shape, OnReceive
  PROVE  /\ sem > 0 /\ sem' = sem - 1
         /\ chip' = [chip EXCEPT !.rxd = FALSE, !.mask0 = "rx", !.pwr = "rx", !.txd = FALSE,
                                 !.mask1 = "none"]
<1> DEFINE c1 == [chip EXCEPT !.rxd = FALSE]
           c2 == [c1 EXCEPT !.mask0 = "rx", !.pwr = "rx", !.txd = FALSE]
           c3 == [c2 EXCEPT !.mask1 = "none"]
<1>1. Through(<<c1, c2, c3>>, 1) /\ sem > 0
  BY DEF OnReceive, Interrupt
<1>2. (Line(c1) => Line(chip)) /\ (Line(c2) => Line(c1)) /\ (Line(c3) => Line(c2))
  BY DEF Shape, ChipSet, Line
<1>3. chip' = c3 /\ sem' = sem - 1 + 0
  <2> HIDE DEF c1, c2, c3
  <2> QED BY <1>1, <1>2, ThroughNone
<1>4. chip' = [chip EXCEPT !.rxd = FALSE, !.mask0 = "rx", !.pwr = "rx", !.txd = FALSE, !.mask1 = "none"]
  BY <1>3 DEF Shape, ChipSet
<1> QED BY <1>1, <1>3, <1>4 DEF Shape

LEMMA StartupStep ==
  ASSUME Shape, NEW s, NEW t, OnStartup(s, t)
  PROVE  sem > 0 /\ sem' = sem - 1 /\ chip' = [chip EXCEPT !.mask1 = "none"]
<1> USE DEF Shape, ChipSet, Line
<1>1. chip' = [chip EXCEPT !.mask1 = "none"] /\ sem' = sem - 1 + Rise(chip, chip') /\ sem > 0
  BY ThroughOne DEF OnStartup, Interrupt
<1> QED BY <1>1 DEF Rise

LEMMA OtherStep ==
  ASSUME Shape, OnOther
  PROVE  sem > 0 /\ sem' = sem - 1 /\ chip' = [chip EXCEPT !.mask1 = "none", !.mask0 = "none"]
<1> USE DEF Shape, ChipSet, Line
<1>1. /\ chip' = [chip EXCEPT !.mask1 = "none", !.mask0 = "none"]
      /\ sem' = sem - 1 + Rise(chip, chip') /\ sem > 0
  BY ThroughOne DEF OnOther, Interrupt
<1> QED BY <1>1 DEF Rise

LEMMA XtalStep ==
  ASSUME Shape, OnXtal
  PROVE  /\ sem > 0 /\ sem' = sem - 1
         /\ chip' = [chip EXCEPT !.done = FALSE, !.rxd = FALSE, !.txd = FALSE, !.mask1 = "none"]
<1> USE DEF Shape, ChipSet, Line
<1> DEFINE c1 == [chip EXCEPT !.done = FALSE, !.rxd = FALSE, !.txd = FALSE]
           c2 == [c1 EXCEPT !.mask1 = "none"]
<1>1. Through(<<c1, c2>>, 1) /\ sem > 0
  BY DEF OnXtal, Interrupt
<1>2. chip' = c2 /\ sem' = sem - 1 + (Rise(chip, c1) + Rise(c1, c2))
  BY <1>1, ThroughTwo
<1>3. Rise(chip, c1) = 0 /\ Rise(c1, c2) = 0
  BY DEF Rise
<1> QED BY <1>1, <1>2, <1>3

LEMMA FillStep ==
  ASSUME Shape, TransmitData
  PROVE  /\ sem' = sem
         /\ \/ ubRFState = "tx_longpreamble" /\ task' = "commit"
               /\ chip' = [chip EXCEPT !.txd = TRUE]
            \/ ubRFState = "rx" /\ task' = "power" /\ chip' = chip
<1> USE DEF Shape, ChipSet, Line
<1>1. CASE ubRFState = "tx_longpreamble"
  <2>1. chip' = [chip EXCEPT !.txd = TRUE] /\ sem' = sem - 0 + Rise(chip, chip')
    BY <1>1, ThroughOne DEF TransmitData
  <2> QED BY <1>1, <2>1 DEF Rise, TransmitData
<1>2. CASE ubRFState = "rx"
  BY <1>2 DEF TransmitData
<1> QED BY <1>1, <1>2 DEF TransmitData

LEMMA MaskStep ==
  ASSUME Shape
  PROVE  /\ EnableFifo => /\ chip' = [chip EXCEPT !.mask0 = "fifo"]
                          /\ sem' = sem + Rise(chip, chip')
         /\ EnableDone => /\ chip' = [chip EXCEPT !.mask0 = "radio"]
                          /\ sem' = sem + Rise(chip, chip')
         /\ PowerTx    => chip' = [chip EXCEPT !.pwr = "tx"] /\ sem' = sem
         /\ \A t \in Senders : Prepare(t) => chip' = [chip EXCEPT !.pwr = "on"] /\ sem' = sem
<1> USE DEF Shape, ChipSet, Line
<1>1. sem - 0 = sem
  OBVIOUS
<1>2. EnableFifo => chip' = [chip EXCEPT !.mask0 = "fifo"] /\ sem' = sem + Rise(chip, chip')
  BY <1>1, ThroughOne DEF EnableFifo
<1>3. EnableDone => chip' = [chip EXCEPT !.mask0 = "radio"] /\ sem' = sem + Rise(chip, chip')
  BY <1>1, ThroughOne DEF EnableDone
<1>4. PowerTx => chip' = [chip EXCEPT !.pwr = "tx"] /\ sem' = sem
  <2>1. PowerTx => chip' = [chip EXCEPT !.pwr = "tx"] /\ sem' = sem + Rise(chip, chip')
    BY <1>1, ThroughOne DEF PowerTx
  <2> QED BY <2>1 DEF Rise
<1>5. ASSUME NEW t \in Senders, Prepare(t)
      PROVE  chip' = [chip EXCEPT !.pwr = "on"] /\ sem' = sem
  <2>1. chip' = [chip EXCEPT !.pwr = "on"] /\ sem' = sem + Rise(chip, chip')
    BY <1>1, <1>5, ThroughOne DEF Prepare
  <2> QED BY <2>1 DEF Rise
<1> QED BY <1>2, <1>3, <1>4, <1>5

LEMMA WaitDoneStep ==
  ASSUME Shape, OnWaitDone
  PROVE  /\ sem > 0 /\ timer' = "off" /\ task = "idle"
         /\ UNCHANGED <<task, sp, boot, sends, overlap>>
         /\ \/ /\ Transmitting(chip) /\ chip' = [chip EXCEPT !.done = FALSE] /\ sem' = sem - 1
               /\ ubRFState = "tx_waitdone" /\ ubRFState' = "tx_waitdone"
            \/ /\ ~Transmitting(chip) /\ chip' = Reset /\ sem' = sem
               /\ ubRFState = "tx_waitdone" /\ ubRFState' = "rx"
<1> USE DEF Shape, ChipSet, Line
<1>0. /\ sem > 0 /\ timer' = "off" /\ task = "idle" /\ ubRFState = "tx_waitdone"
      /\ UNCHANGED <<task, sp, boot, sends, overlap>>
  BY DEF OnWaitDone, Interrupt
<1>1. CASE Transmitting(chip) /\ Through(<<[chip EXCEPT !.done = FALSE]>>, 1) /\ UNCHANGED ubRFState
  <2>1. chip' = [chip EXCEPT !.done = FALSE] /\ sem' = sem - 1 + Rise(chip, chip')
    BY <1>1, ThroughOne
  <2> QED BY <1>0, <1>1, <2>1 DEF Rise
<1>2. CASE ~Transmitting(chip) /\ rf_restart(1)
  BY <1>0, <1>2 DEF rf_restart
<1> QED BY <1>1, <1>2 DEF OnWaitDone

LEMMA ArmStep ==
  ASSUME Shape, NEW t \in Senders, Arm(t)
  PROVE  /\ chip' = [chip EXCEPT !.mask0 = "none", !.mask1 = "xtal"]
         /\ sem' = sem + Rise([chip EXCEPT !.mask0 = "none"], chip')
<1> USE DEF Shape, ChipSet, Line
<1> DEFINE c1 == [chip EXCEPT !.mask0 = "none"]
           c2 == [chip EXCEPT !.mask0 = "none", !.mask1 = "xtal"]
<1>1. Through(<<c1, c2>>, 0)
  BY DEF Arm
<1>2. chip' = c2 /\ sem' = sem - 0 + (Rise(chip, c1) + Rise(c1, c2))
  BY <1>1, ThroughTwo
<1>3. Rise(chip, c1) = 0 /\ Rise(c1, c2) \in {0, 1}
  BY DEF Rise
<1> QED BY <1>2, <1>3

(* Boot starts from a semaphore that is not released.                      *)
LEMMA BootStep ==
  ASSUME Shape, Boot
  PROVE  /\ boot < 4 /\ sem = 0 /\ sem' \in 0 .. 2 /\ task = "idle" /\ chip' \in ChipSet
         /\ UNCHANGED <<timer, task, sp, sends, overlap>>
         /\ \/ boot' < 4 /\ (chip.mask0 = "none" => chip'.mask0 = "none")
               /\ ubRFState' \in {"off", "wait_xtal", "pll_ranging"}
            \/ boot' = 4 /\ ubRFState' = "rx" /\ chip' = [Reset EXCEPT !.pwr = "rx", !.mask0 = "rx"]
<1> USE DEF Shape
<1>0. boot < 4 /\ sem = 0 /\ task = "idle" /\ UNCHANGED <<timer, task, sp, sends, overlap>>
  <2>1. boot \in {0, 1, 2, 3}
    BY DEF Boot, BootReset, BootXtal, BootRanging, BootReceive
  <2>2. sem = 0 /\ task = "idle"
    BY DEF Boot, BootReset, BootXtal, BootRanging, BootReceive, TaskWaits
  <2>3. UNCHANGED <<timer, task, sp, sends, overlap>>
    BY DEF Boot, BootReset, BootXtal, BootRanging, BootReceive
  <2> QED BY <2>1, <2>2, <2>3
<1>1. \A a, b : Rise(a, b) \in {0, 1}
  BY DEF Rise
<1>2. CASE BootReset
  BY <1>0, <1>2, Reseted DEF BootReset, Reset
<1>3. CASE BootXtal
  <2>1. PICK x \in BOOLEAN :
          Through(<<[chip EXCEPT !.pwr = "on", !.xtal = x],
                    [[chip EXCEPT !.pwr = "on", !.xtal = x] EXCEPT !.mask1 = "xtal"]>>, 0)
    BY <1>3 DEF BootXtal
  <2> DEFINE c1 == [chip EXCEPT !.pwr = "on", !.xtal = x]
             c2 == [c1 EXCEPT !.mask1 = "xtal"]
  <2>2. chip' = c2 /\ sem' = sem - 0 + (Rise(chip, c1) + Rise(c1, c2))
    BY <2>1, ThroughTwo
  <2>3. chip' \in ChipSet /\ chip'.mask0 = chip.mask0
    BY <2>2 DEF ChipSet
  <2>4. Rise(chip, c1) \in {0, 1} /\ Rise(c1, c2) \in {0, 1}
    BY <1>1
  <2>5. sem' \in 0 .. 2
    <3> HIDE DEF c1, c2
    <3> QED BY <1>0, <2>2, <2>4
  <2> QED BY <1>0, <1>3, <2>3, <2>5 DEF BootXtal
<1>4. CASE BootRanging
  <2>1. chip' = [chip EXCEPT !.mask1 = "pll"] /\ sem' = sem - 0 + Rise(chip, chip')
    BY <1>4, ThroughOne DEF BootRanging
  <2>2. chip' \in ChipSet /\ chip'.mask0 = chip.mask0
    BY <2>1 DEF ChipSet
  <2>3. sem' \in 0 .. 2
    BY <1>0, <1>1, <2>1
  <2> QED BY <1>0, <1>4, <2>2, <2>3 DEF BootRanging
<1>5. CASE BootReceive
  <2>1. /\ chip' = [Reset EXCEPT !.pwr = "rx", !.mask0 = "rx"]
        /\ sem' = sem - 0 + Rise(chip, chip')
    BY <1>5, ThroughOne DEF BootReceive
  <2>2. chip' \in ChipSet
    BY <2>1, Reseted DEF ChipSet
  <2>3. sem' \in 0 .. 2
    BY <1>0, <1>1, <2>1
  <2> QED BY <1>0, <1>5, <2>1, <2>2, <2>3 DEF BootReceive
<1> QED BY <1>2, <1>3, <1>4, <1>5 DEF Boot

LEMMA RestartStep ==
  ASSUME Shape, rf_433_send_timer_callback
  PROVE  /\ timer = "old" /\ timer' = "off" /\ UNCHANGED <<task, sp, boot, sends, overlap>>
         /\ \/ ubRFState # "rx" /\ chip' = Reset /\ sem' = sem + 1 /\ ubRFState' = "rx"
            \/ ubRFState = "rx" /\ UNCHANGED <<ubRFState, sem, chip>>
<1>1. sem - 0 + 1 = sem + 1
  BY DEF Shape
<1> QED BY <1>1 DEF rf_433_send_timer_callback, rf_restart

LEMMA Edge == \A a, b : Rise(a, b) \in {0, 1} /\ (Rise(a, b) = 1 <=> ~Line(a) /\ Line(b))
BY DEF Rise

LEMMA ShapeStart == Init => Shape
<1> SUFFICES ASSUME Init PROVE Shape
  OBVIOUS
<1>1. chip \in ChipSet
  BY Reseted DEF Init
<1>2. sends \in 0 .. MaxSends /\ boot \in 0 .. 4 /\ sem \in Nat
  BY DriverAssumption DEF Init
<1>3. sp \in [Senders -> {"idle", "prepared", "armed", "sent"}]
  BY DEF Init
<1> QED BY <1>1, <1>2, <1>3 DEF Init, Shape, RFStates

LEMMA ShapeStep == Shape /\ [Next]_vars => Shape'
<1> SUFFICES ASSUME Shape, [Next]_vars PROVE Shape'
  OBVIOUS
<1> USE DEF RFStates
<1>1. CASE Chip
  <2>1. sem' \in Nat
    BY <1>1, ChipStep, Edge DEF Shape
  <2>2. chip' \in ChipSet
    BY <1>1, ChipStep DEF Shape, ChipSet
  <2> QED BY <1>1, <2>1, <2>2, ChipStep DEF Shape, Others
<1>2. CASE TimerAges
  BY <1>2 DEF TimerAges, Shape
<1>3. CASE rf_433_send_timer_callback
  BY <1>3, RestartStep, Reseted DEF Shape
<1>4. CASE OnReceive
  <2>1. sem' \in Nat
    BY <1>4, ReceiveStep DEF Shape
  <2>2. chip' \in ChipSet
    BY <1>4, ReceiveStep DEF Shape, ChipSet
  <2> QED BY <1>4, <2>1, <2>2 DEF OnReceive, Shape
<1>5. CASE OnXtal
  <2>1. sem' \in Nat
    BY <1>5, XtalStep DEF Shape
  <2>2. chip' \in ChipSet
    BY <1>5, XtalStep DEF Shape, ChipSet
  <2> QED BY <1>5, <2>1, <2>2 DEF OnXtal, Shape
<1>6. CASE EnableFifo
  <2>1. sem' \in Nat
    BY <1>6, MaskStep, Edge DEF Shape
  <2>2. chip' \in ChipSet
    BY <1>6, MaskStep DEF Shape, ChipSet
  <2> QED BY <1>6, <2>1, <2>2 DEF EnableFifo, Shape
<1>7. CASE TransmitData
  <2>1. sem' \in Nat
    BY <1>7, FillStep DEF Shape
  <2>2. chip' \in ChipSet
    BY <1>7, FillStep DEF Shape, ChipSet
  <2> QED BY <1>7, <2>1, <2>2, FillStep DEF TransmitData, Shape
<1>8. CASE Commit
  BY <1>8 DEF Commit, Shape
<1>9. CASE EnableDone
  <2>1. sem' \in Nat
    BY <1>9, MaskStep, Edge DEF Shape
  <2>2. chip' \in ChipSet
    BY <1>9, MaskStep DEF Shape, ChipSet
  <2> QED BY <1>9, <2>1, <2>2 DEF EnableDone, Shape
<1>10. CASE PowerTx
  <2>1. sem' \in Nat
    BY <1>10, MaskStep DEF Shape
  <2>2. chip' \in ChipSet
    BY <1>10, MaskStep DEF Shape, ChipSet
  <2> QED BY <1>10, <2>1, <2>2 DEF PowerTx, Shape
<1>11. CASE OnWaitDone
  <2>1. sem' \in Nat
    BY <1>11, WaitDoneStep DEF Shape
  <2>2. chip' \in ChipSet
    BY <1>11, WaitDoneStep, Reseted DEF Shape, ChipSet
  <2> QED BY <1>11, <2>1, <2>2, WaitDoneStep DEF Shape
<1>12. CASE OnOther
  <2>1. sem' \in Nat
    BY <1>12, OtherStep DEF Shape
  <2>2. chip' \in ChipSet
    BY <1>12, OtherStep DEF Shape, ChipSet
  <2> QED BY <1>12, <2>1, <2>2 DEF OnOther, Shape
<1>13. CASE OnStartup("wait_xtal", "xtal_ready") \/ OnStartup("pll_ranging", "pll_ranging_done")
  <2>1. chip' = [chip EXCEPT !.mask1 = "none"] /\ sem > 0 /\ sem' = sem - 1
    BY <1>13, StartupStep
  <2>2. chip' \in ChipSet /\ sem' \in Nat
    BY <2>1 DEF Shape, ChipSet
  <2> QED BY <1>13, <2>2 DEF OnStartup, Shape
<1>14. CASE Boot
  <2>1. boot' \in {1, 2, 3, 4}
    BY <1>14 DEF Boot, BootReset, BootXtal, BootRanging, BootReceive, Shape
  <2> QED BY <1>14, <2>1, BootStep DEF Shape
<1>15. ASSUME NEW t \in Senders, Send(t) PROVE Shape'
  <2>1. CASE Prepare(t)
    <3>1. chip' \in ChipSet /\ sem' \in Nat
      BY <2>1, MaskStep DEF Shape, ChipSet
    <3>2. sends' \in 0 .. MaxSends
      BY <2>1, DriverAssumption DEF Prepare, Shape
    <3>3. overlap' \in BOOLEAN /\ sp' \in [Senders -> {"idle", "prepared", "armed", "sent"}]
      BY <2>1 DEF Prepare, Shape
    <3> QED BY <2>1, <3>1, <3>2, <3>3 DEF Prepare, Shape
  <2>2. CASE SetState(t)
    BY <2>2 DEF SetState, Shape
  <2>3. CASE Arm(t)
    <3>1. sem' \in Nat
      BY <2>3, ArmStep, Edge DEF Shape
    <3>2. chip' \in ChipSet
      BY <2>3, ArmStep DEF Shape, ChipSet
    <3> QED BY <2>3, <3>1, <3>2 DEF Arm, Shape
  <2>4. CASE StartTimer(t)
    BY <2>4 DEF StartTimer, Shape
  <2> QED BY <1>15, <2>1, <2>2, <2>3, <2>4 DEF Send
<1>16. CASE UNCHANGED vars
  BY <1>16 DEF vars, Shape
<1> QED BY <1>1, <1>2, <1>3, <1>4, <1>5, <1>6, <1>7, <1>8, <1>9, <1>10, <1>11, <1>12, <1>13,
           <1>14, <1>15, <1>16 DEF Next, rf_433_task

-----------------------------------------------------------------------------
(* The receiver.                                                           *)

LEMMA RxStep == Shape /\ RxInv /\ [Next]_vars => RxInv'
<1> SUFFICES ASSUME Shape, RxInv, [Next]_vars, ubRFState' = "rx"
             PROVE  sem' > 0 \/ (task' = "idle" /\ (Listens' \/ Prepared' \/ XtalDue'))
  BY DEF RxInv
<1>0. sem \in Nat
  BY DEF Shape
<1>1. CASE Chip
  <2>0. UNCHANGED Others /\ sem' = sem + Rise(chip, chip')
    BY <1>1, ChipStep
  <2>1. CASE sem > 0
    BY <1>0, <2>0, <2>1, Edge
  <2>2. CASE Prepared
    BY <1>0, <2>0, <2>2, <2>1 DEF RxInv, Prepared, Others
  <2>3. CASE Listens
    BY <1>0, <1>1, <2>0, <2>1, <2>3, ChipStep DEF RxInv, Listens, Others, Shape, ChipSet
  <2>4. CASE XtalDue
    <3>1. \/ XtalDue'
          \/ chip'.mask1 = "xtal" /\ chip'.xtal
      BY <1>1, <2>4, ChipStep DEF XtalDue, Shape, ChipSet
    <3>2. chip'.mask1 = "xtal" /\ chip'.xtal => Rise(chip, chip') = 1
      BY <2>4, Edge DEF XtalDue, Line
    <3> QED BY <1>0, <2>0, <2>1, <2>4, <3>1, <3>2 DEF RxInv, Others
  <2> QED BY <2>0, <2>1, <2>2, <2>3, <2>4 DEF RxInv, Others
<1>2. CASE UNCHANGED <<ubRFState, sem, task, chip>> /\ (Prepared => Prepared')
  BY <1>2 DEF RxInv, Listens, XtalDue
<1>3. CASE TimerAges \/ UNCHANGED vars
  BY <1>2, <1>3 DEF TimerAges, Prepared, vars
<1>4. CASE rf_433_send_timer_callback
  BY <1>0, <1>2, <1>4, RestartStep DEF Prepared
<1>5. CASE OnReceive
  BY <1>5, ReceiveStep DEF OnReceive, Interrupt, Listens, Shape, ChipSet
<1>6. CASE TransmitData \/ PowerTx \/ EnableDone
  <2>1. task # "idle" /\ ubRFState = "rx"
    BY <1>6 DEF TransmitData, PowerTx, EnableDone
  <2>2. sem > 0
    BY <2>1 DEF RxInv
  <2>3. sem' \in Nat /\ sem' >= sem
    BY <1>0, <1>6, FillStep, MaskStep, Edge
  <2> QED BY <1>0, <2>2, <2>3
<1>7. CASE OnXtal \/ OnOther \/ EnableFifo \/ Commit
  BY <1>7 DEF OnXtal, OnOther, EnableFifo, Commit, Interrupt
<1>8. CASE OnStartup("wait_xtal", "xtal_ready") \/ OnStartup("pll_ranging", "pll_ranging_done")
  BY <1>8 DEF OnStartup
<1>9. CASE OnWaitDone
  BY <1>0, <1>9, WaitDoneStep
<1>10. CASE Boot
  BY <1>10, BootStep, Reseted DEF Listens, Reset
<1>11. ASSUME NEW t \in Senders, Send(t)
       PROVE  sem' > 0 \/ (task' = "idle" /\ (Listens' \/ Prepared' \/ XtalDue'))
  <2>0. sem = 0 /\ task = "idle"
    BY <1>11 DEF Send, Prepare, SetState, Arm, StartTimer, MayRun, TaskWaits
  <2>1. CASE Prepare(t)
    BY <2>0, <2>1 DEF Prepare, Prepared, Shape
  <2>2. CASE SetState(t)
    BY <2>2 DEF SetState
  <2>3. CASE Arm(t)
    <3>0. UNCHANGED <<ubRFState, task>> /\ sp[t] = "armed" /\ sp' = [sp EXCEPT ![t] = "sent"]
      BY <2>3 DEF Arm
    <3>1. CASE Prepared
      BY <2>0, <3>0, <3>1 DEF Prepared, Shape
    <3>2. CASE XtalDue
      <4>1. XtalDue'
        BY <2>3, <3>2, ArmStep DEF XtalDue, Shape, ChipSet
      <4> QED BY <2>0, <3>0, <4>1
    <3>3. CASE Listens
      <4>1. CASE chip.xtal
        <5>1. Rise([chip EXCEPT !.mask0 = "none"], chip') = 1
          <6>1. ~Line([chip EXCEPT !.mask0 = "none"])
            BY <3>3 DEF Listens, Line, Shape, ChipSet
          <6>2. Line(chip')
            BY <2>3, <4>1, ArmStep DEF Line, Shape, ChipSet
          <6> QED BY <6>1, <6>2, Edge
        <5> QED BY <2>0, <2>3, <5>1, ArmStep
      <4>2. CASE ~chip.xtal
        <5>1. XtalDue'
          BY <2>3, <3>3, <4>2, ArmStep DEF Listens, XtalDue, Shape, ChipSet
        <5> QED BY <2>0, <3>0, <5>1
      <4> QED BY <4>1, <4>2
    <3> QED BY <2>0, <3>0, <3>1, <3>2, <3>3 DEF RxInv
  <2>4. CASE StartTimer(t)
    BY <1>2, <2>4 DEF StartTimer, Prepared, Shape
  <2> QED BY <1>11, <2>1, <2>2, <2>3, <2>4 DEF Send
<1> QED BY <1>1, <1>3, <1>4, <1>5, <1>6, <1>7, <1>8, <1>9, <1>10, <1>11 DEF Next, rf_433_task

(* No order of restarts, transmissions and timeouts leaves the gateway     *)
(* deaf while its driver takes the radio for receiving.                    *)
THEOREM DriverRxListens == Spec => []RxListens
<1>1. Init => Shape /\ RxInv
  BY ShapeStart DEF Init, RxInv
<1>2. Shape /\ RxInv /\ [Next]_vars => Shape' /\ RxInv'
  BY ShapeStep, RxStep
<1>3. Shape /\ RxInv => RxListens
  BY DEF RxListens, AtRest, TaskWaits, Listening, RxInv, Listens, Prepared, XtalDue
<1> QED BY <1>1, <1>2, <1>3, PTL DEF Spec

-----------------------------------------------------------------------------
(* Start-up, and where the task is.                                        *)

LEMMA BootKept == Shape /\ BootInv /\ [Next]_vars => BootInv'
<1> SUFFICES ASSUME Shape, BootInv, [Next]_vars PROVE BootInv'
  OBVIOUS
<1>0. boot < 4 \/ boot = 4
  BY DEF Shape
<1>1. CASE Chip
  <2>1. UNCHANGED Others /\ chip'.mask0 = chip.mask0
    BY <1>1, ChipStep DEF Shape, ChipSet
  <2> QED BY <2>1 DEF BootInv, Paired, Busy, Others
<1>2. CASE TimerAges
  BY <1>0, <1>2 DEF TimerAges, BootInv, Paired
<1>3. CASE rf_433_send_timer_callback
  BY <1>0, <1>3, RestartStep DEF BootInv, Paired
<1>4. CASE OnReceive \/ OnXtal \/ OnWaitDone
  <2>1. boot = 4
    BY <1>0, <1>4 DEF OnReceive, OnXtal, OnWaitDone, Interrupt, BootInv
  <2> QED BY <1>4, <2>1, WaitDoneStep DEF OnReceive, OnXtal, Interrupt, BootInv, Paired
<1>5. CASE EnableFifo \/ Commit \/ EnableDone \/ PowerTx \/ TransmitData
  <2>1. boot = 4
    BY <1>0, <1>5 DEF EnableFifo, Commit, EnableDone, PowerTx, TransmitData, BootInv
  <2> QED BY <1>5, <2>1 DEF EnableFifo, Commit, EnableDone, PowerTx, TransmitData, BootInv,
       Paired
<1>6. CASE OnOther
  <2>1. chip'.mask0 = "none"
    BY <1>6, OtherStep DEF Shape, ChipSet
  <2> QED BY <1>0, <1>6, <2>1 DEF OnOther, Interrupt, BootInv, Paired, Busy
<1>7. CASE OnStartup("wait_xtal", "xtal_ready") \/ OnStartup("pll_ranging", "pll_ranging_done")
  <2>1. chip'.mask0 = chip.mask0
    BY <1>7, StartupStep DEF Shape, ChipSet
  <2> QED BY <1>0, <1>7, <2>1 DEF OnStartup, Interrupt, BootInv, Paired, Busy
<1>8. CASE Boot
  BY <1>8, BootStep DEF BootInv, Paired, Busy
<1>9. ASSUME NEW t \in Senders, Send(t) PROVE BootInv'
  <2>1. boot = 4 /\ boot' = 4
    BY <1>0, <1>9 DEF Send, Prepare, SetState, Arm, StartTimer, BootInv, Busy
  <2>2. task = "idle" /\ task' = "idle" /\ (ubRFState' = ubRFState \/ ubRFState' = "tx_xtalwait")
    BY <1>9 DEF Send, Prepare, SetState, Arm, StartTimer, MayRun, TaskWaits
  <2> QED BY <2>1, <2>2 DEF BootInv, Paired
<1>10. CASE UNCHANGED vars
  BY <1>10 DEF vars, BootInv, Paired, Busy
<1> QED BY <1>1, <1>2, <1>3, <1>4, <1>5, <1>6, <1>7, <1>8, <1>9, <1>10 DEF Next, rf_433_task

-----------------------------------------------------------------------------
(* The semaphore.                                                          *)

LEMMA Weights ==
  /\ Low \in 0 .. 1 /\ Aged \in 0 .. 1 /\ Ahead \in 0 .. 2
  /\ Low' \in 0 .. 1 /\ Aged' \in 0 .. 1 /\ Ahead' \in 0 .. 2
BY DEF Low, Aged, Ahead

(* An edge needs a line that was low and an interrupt that is enabled.     *)
LEMMA SameMasks ==
  ASSUME chip'.mask0 = chip.mask0, chip'.mask1 = chip.mask1, Line(chip) => Line(chip'),
         sem \in Nat, sem' = sem + Rise(chip, chip')
  PROVE  sem' + Low' = sem + Low
<1>1. CASE Rise(chip, chip') = 1
  <2>1. Low = 1 /\ Low' = 0
    BY <1>1, Edge DEF Low, Line
  <2> QED BY <1>1, <2>1
<1>2. CASE Rise(chip, chip') = 0
  <2>1. Low = Low'
    BY <1>2, Edge DEF Low
  <2> QED BY <1>2, <2>1, Weights
<1> QED BY <1>1, <1>2, Edge

LEMMA OneEdge ==
  ASSUME NEW c, sem \in Nat, sem' = sem + Rise(c, chip')
  PROVE  sem' + Low' <= sem + 1
<1>1. Rise(c, chip') = 1 => Low' = 0
  BY Edge DEF Low
<1> QED BY <1>1, Edge, Weights

LEMMA SemKept ==
  ASSUME Shape, BootInv, SemInv, [Next]_vars
  PROVE  SemInv'
<1>0. sem \in Nat /\ sem + Low + Aged + Ahead <= 4
  BY DEF Shape, SemInv
<1>a. PICK s, l, a, h : s = sem' /\ l = Low' /\ a = Aged' /\ h = Ahead'
  OBVIOUS
<1>b. l \in 0 .. 1 /\ a \in 0 .. 1 /\ h \in 0 .. 2
  BY <1>a, Weights
<1>c. Low \in 0 .. 1 /\ Aged \in 0 .. 1 /\ Ahead \in 0 .. 2
  BY Weights
<1> SUFFICES s + l + a + h <= 4 /\ (task' = "idle" /\ ubRFState' = "tx_xtalwait" => s + l <= 1)
  BY <1>a DEF SemInv
<1> USE <1>b, <1>c
<1>1. CASE s + l = sem + Low /\ UNCHANGED <<ubRFState, timer, task>>
  <2>1. s + l + a + h = sem + Low + Aged + Ahead
    BY <1>a, <1>1 DEF Aged, Ahead
  <2>2. task' = "idle" /\ ubRFState' = "tx_xtalwait" => s + l <= 1
    BY <1>1 DEF SemInv
  <2> QED BY <1>0, <2>1, <2>2
<1>2. CASE Chip
  <2>1. UNCHANGED Others /\ chip'.mask0 = chip.mask0 /\ chip'.mask1 = chip.mask1
    BY <1>a, <1>2, ChipStep DEF Shape, ChipSet
  <2>2. s + l = sem + Low
    BY <1>a, <1>0, <1>2, <2>1, ChipStep, SameMasks
  <2> QED BY <1>1, <2>1, <2>2 DEF Others
<1>3. CASE TimerAges
  <2>1. sem = 0 /\ s = 0 /\ h = 0
    BY <1>a, <1>3 DEF TimerAges, Ahead
  <2> QED BY <2>1
<1>4. CASE rf_433_send_timer_callback
  <2>1. Aged = 1 /\ a = 0 /\ h = Ahead
    BY <1>a, <1>4, RestartStep DEF Aged, Ahead
  <2>2. CASE ubRFState # "rx"
    <3>1. s = sem + 1 /\ l = 0 /\ ubRFState' = "rx"
      BY <1>a, <1>4, <2>2, RestartStep DEF Low, Reset
    <3> QED BY <1>0, <2>1, <3>1
  <2>3. CASE ubRFState = "rx"
    <3>1. s = sem /\ l = Low /\ ubRFState' = "rx"
      BY <1>a, <1>4, <2>3, RestartStep DEF Low
    <3> QED BY <1>0, <2>1, <3>1
  <2> QED BY <2>2, <2>3
<1>5. CASE sem > 0 /\ s = sem - 1 /\ a <= Aged /\ h <= Ahead /\ ubRFState' # "tx_xtalwait"
  BY <1>0, <1>5
<1>6. CASE OnReceive
  <2>1. a = Aged /\ h = Ahead /\ ubRFState' # "tx_xtalwait"
    BY <1>a, <1>6 DEF OnReceive, Interrupt, Aged, Ahead
  <2>2. sem > 0 /\ s = sem - 1
    BY <1>a, <1>6, ReceiveStep
  <2> QED BY <1>0, <1>5, <2>1, <2>2
<1>7. CASE OnOther
  <2>1. a = Aged /\ h = Ahead /\ ubRFState' # "tx_xtalwait"
    BY <1>a, <1>7 DEF OnOther, Interrupt, Aged, Ahead
  <2>2. sem > 0 /\ s = sem - 1
    BY <1>a, <1>7, OtherStep
  <2> QED BY <1>0, <1>5, <2>1, <2>2
<1>8. CASE OnStartup("wait_xtal", "xtal_ready") \/ OnStartup("pll_ranging", "pll_ranging_done")
  <2>1. a = Aged /\ h = Ahead /\ ubRFState' # "tx_xtalwait"
    BY <1>a, <1>8 DEF OnStartup, Interrupt, Aged, Ahead
  <2>2. sem > 0 /\ s = sem - 1
    BY <1>a, <1>8, StartupStep
  <2> QED BY <1>0, <1>5, <2>1, <2>2
<1>9. CASE OnWaitDone
  <2>1. a = 0 /\ h = Ahead /\ ubRFState' # "tx_xtalwait"
    BY <1>a, <1>9, WaitDoneStep DEF Aged, Ahead
  <2>2. s = sem - 1 \/ (s = sem /\ l = 0)
    BY <1>a, <1>9, WaitDoneStep DEF Low, Reset
  <2> QED BY <1>0, <1>5, <1>9, <2>1, <2>2, WaitDoneStep
<1>10. CASE OnXtal
  <2>1. sem > 0 /\ s = sem - 1
    BY <1>a, <1>10, XtalStep
  <2>2. sem + Low <= 1
    BY <1>10 DEF OnXtal, Interrupt, SemInv
  <2>3. task' = "fifo"
    BY <1>10 DEF OnXtal
  <2> QED BY <1>0, <2>1, <2>2, <2>3
<1>11. CASE EnableFifo
  <2>1. Ahead = 2 /\ h = 1 /\ a = Aged /\ ubRFState' # "tx_xtalwait"
    BY <1>a, <1>11 DEF EnableFifo, Ahead, Aged
  <2>2. l = 0
    BY <1>a, <1>11, MaskStep DEF Low, Line, Shape, ChipSet
  <2>3. s <= sem + 1 /\ s \in Nat
    BY <1>a, <1>0, <1>11, MaskStep, Edge
  <2> QED BY <1>0, <2>1, <2>2, <2>3
<1>12. CASE TransmitData
  <2>1. Ahead = 1 /\ h <= 1 /\ a = Aged /\ ubRFState' # "tx_xtalwait"
    BY <1>a, <1>12 DEF TransmitData, Ahead, Aged
  <2>2. l = Low /\ s = sem
    BY <1>a, <1>12, FillStep DEF Low, Line, Shape, ChipSet
  <2> QED BY <1>0, <2>1, <2>2
<1>13. CASE Commit
  <2>1. Ahead = 1 /\ h = 1 /\ a = Aged /\ ubRFState' # "tx_xtalwait" /\ l = Low /\ s = sem
    BY <1>a, <1>13 DEF Commit, Ahead, Aged, Low
  <2> QED BY <1>0, <2>1
<1>14. CASE EnableDone
  <2>1. Ahead = 1 /\ h = 0 /\ a = Aged
    BY <1>a, <1>14 DEF EnableDone, Ahead, Aged
  <2>2. s + l <= sem + 1 /\ s \in Nat
    BY <1>a, <1>0, <1>14, MaskStep, OneEdge, Edge
  <2>3. task' # "idle"
    BY <1>14 DEF EnableDone
  <2> QED BY <1>0, <2>1, <2>2, <2>3
<1>15. CASE PowerTx
  <2>1. Ahead = 0 /\ h = 0 /\ a = Aged
    BY <1>a, <1>15 DEF PowerTx, Ahead, Aged
  <2>2. l = Low /\ s = sem
    BY <1>a, <1>15, MaskStep DEF Low, Line, Shape, ChipSet
  <2>3. ubRFState' # "tx_xtalwait"
    BY <1>15 DEF PowerTx, BootInv, Paired, Shape
  <2> QED BY <1>0, <2>1, <2>2, <2>3
<1>16. CASE Boot
  <2>1. s \in 0 .. 2 /\ h = 0 /\ ubRFState' # "tx_xtalwait"
    BY <1>a, <1>16, BootStep DEF Ahead
  <2> QED BY <2>1
<1>17. ASSUME NEW t \in Senders, Send(t) PROVE s + l + a + h <= 4 /\ (task' = "idle" /\ ubRFState' = "tx_xtalwait" => s + l <= 1)
  <2>1. sem = 0 /\ h = 0
    BY <1>a, <1>17 DEF Send, Prepare, SetState, Arm, StartTimer, MayRun, TaskWaits, Ahead
  <2>2. CASE s = 0
    BY <2>1, <2>2
  <2>3. CASE Arm(t)
    <3>1. s + l <= 1 /\ s \in {0, 1}
      BY <1>a, <1>0, <2>1, <2>3, ArmStep, OneEdge, Edge
    <3> QED BY <2>1, <3>1
  <2>4. Arm(t) \/ s = 0
    BY <1>a, <1>17, <2>1, MaskStep DEF Send, SetState, StartTimer
  <2> QED BY <2>2, <2>3, <2>4
<1>18. CASE UNCHANGED vars
  BY <1>a, <1>1, <1>18 DEF vars, Low
<1> QED BY <1>2, <1>3, <1>4, <1>6, <1>7, <1>8, <1>9, <1>10, <1>11, <1>12, <1>13, <1>14, <1>15,
           <1>16, <1>17, <1>18 DEF Next, rf_433_task

(* Four interrupts at most are outstanding, whatever the senders, the      *)
(* timer and the chip do.                                                  *)
THEOREM DriverTypeCorrect == Spec => []TypeOK
<1>1. Init => Shape /\ BootInv /\ SemInv
  <2> SUFFICES ASSUME Init PROVE Shape /\ BootInv /\ SemInv
    OBVIOUS
  <2>1. Shape
    BY ShapeStart
  <2>2. BootInv
    BY DEF Init, BootInv, Busy, Reset
  <2>3. sem = 0 /\ Low = 0 /\ Aged = 0 /\ Ahead = 0 /\ ubRFState # "tx_xtalwait"
    BY DEF Init, Low, Aged, Ahead, Reset
  <2>4. SemInv
    BY <2>3 DEF SemInv
  <2> QED BY <2>1, <2>2, <2>4
<1>2. Shape /\ BootInv /\ SemInv /\ [Next]_vars => Shape' /\ BootInv' /\ SemInv'
  BY ShapeStep, BootKept, SemKept
<1>3. Shape /\ SemInv => TypeOK
  <2> SUFFICES ASSUME Shape, SemInv PROVE TypeOK
    OBVIOUS
  <2>1. sem \in 0 .. 4
    BY Weights DEF Shape, SemInv
  <2> QED BY <2>1 DEF Shape, TypeOK
<1> QED BY <1>1, <1>2, <1>3, PTL DEF Spec

-----------------------------------------------------------------------------
(* The chip's registers.                                                   *)

LEMMA ChipKept ==
  ASSUME Shape, BootInv, ChipInv, [Next]_vars
  PROVE  ChipInv'
<1>0. /\ sem \in Nat /\ (boot < 4 \/ boot = 4)
      /\ chip.pwr \in {"down", "on", "rx", "tx"} /\ chip.mask0 \in {"none", "rx", "fifo", "radio"}
  BY DEF Shape, ChipSet
<1>1. CASE Chip
  <2>1. UNCHANGED <<timer, task, boot, ubRFState>>
    BY <1>1, ChipStep DEF Others
  <2>2. UNCHANGED <<chip.mask0, chip.mask1, chip.pwr>> /\ (chip.xtal => chip'.xtal)
    BY <1>1, ChipStep DEF Shape, ChipSet
  <2>3. sem > 0 => sem' > 0
    BY <1>0, <1>1, ChipStep, Edge
  <2>4. \/ UNCHANGED <<chip.txd, chip.done>>
        \/ chip.txd /\ ~chip'.txd
    BY <1>1, ChipStep DEF Shape, ChipSet, Transmitting
  <2> QED BY <2>1, <2>2, <2>3, <2>4 DEF ChipInv
<1>2. CASE TimerAges
  <2>1. boot = 4
    BY <1>0, <1>2 DEF TimerAges, BootInv
  <2>2. chip.xtal
    BY <1>0, <1>2, <2>1 DEF TimerAges, ChipInv
  <2> QED BY <1>2, <2>2 DEF TimerAges, ChipInv
<1>3. CASE rf_433_send_timer_callback
  BY <1>0, <1>3, RestartStep DEF ChipInv, Reset
<1>4. CASE OnReceive
  <2>1. UNCHANGED <<ubRFState, timer, task, boot>> /\ task = "idle"
    BY <1>4 DEF OnReceive, Interrupt
  <2>2. /\ chip'.mask0 = "rx" /\ chip'.mask1 = "none" /\ chip'.pwr = "rx" /\ ~chip'.txd
        /\ UNCHANGED <<chip.done, chip.xtal>>
    BY <1>4, ReceiveStep DEF Shape, ChipSet
  <2> QED BY <2>1, <2>2 DEF ChipInv
<1>5. CASE OnXtal
  <2>1. UNCHANGED <<ubRFState, timer, boot>> /\ task' = "fifo"
    BY <1>5 DEF OnXtal
  <2>2. chip'.mask1 = "none" /\ ~chip'.txd /\ ~chip'.done /\ UNCHANGED <<chip.xtal>>
    BY <1>5, XtalStep DEF Shape, ChipSet
  <2> QED BY <2>1, <2>2 DEF ChipInv
<1>6. CASE EnableFifo
  <2>1. task = "fifo" /\ UNCHANGED <<timer, boot>> /\ task' = "fill" /\ ubRFState' = "tx_longpreamble"
    BY <1>6 DEF EnableFifo
  <2>2. chip'.mask0 = "fifo" /\ UNCHANGED <<chip.mask1, chip.txd, chip.done, chip.xtal>>
    BY <1>6, MaskStep DEF Shape, ChipSet
  <2> QED BY <2>1, <2>2 DEF ChipInv
<1>7. CASE TransmitData
  <2>1. task = "fill" /\ UNCHANGED <<timer, boot, ubRFState>>
    BY <1>7 DEF TransmitData
  <2>2. /\ UNCHANGED <<chip.mask0, chip.mask1, chip.done, chip.xtal, chip.pwr>>
        /\ \/ task' = "commit"
           \/ task' = "power" /\ ubRFState = "rx" /\ UNCHANGED <<chip.txd>>
    BY <1>7, FillStep DEF Shape, ChipSet
  <2> QED BY <2>1, <2>2 DEF ChipInv
<1>8. CASE Commit
  BY <1>8 DEF Commit, ChipInv
<1>9. CASE EnableDone
  <2>1. task = "enable" /\ task' = "power" /\ UNCHANGED <<timer, boot, ubRFState>>
    BY <1>9 DEF EnableDone
  <2>2. chip'.mask0 = "radio" /\ UNCHANGED <<chip.mask1, chip.txd, chip.done, chip.xtal>>
    BY <1>9, MaskStep DEF Shape, ChipSet
  <2> QED BY <2>1, <2>2 DEF ChipInv
<1>10. CASE PowerTx
  <2>1. task = "power" /\ task' = "idle" /\ UNCHANGED <<timer, boot, ubRFState>>
    BY <1>10 DEF PowerTx
  <2>2. /\ chip'.pwr = "tx"
        /\ UNCHANGED <<chip.mask0, chip.mask1, chip.txd, chip.done, chip.xtal>>
    BY <1>10, MaskStep DEF Shape, ChipSet
  <2> QED BY <2>1, <2>2 DEF ChipInv
<1>11. CASE OnWaitDone
  <2>1. CASE Transmitting(chip)
    <3>1. /\ chip.pwr = "tx" /\ chip'.pwr = "tx" /\ ~chip'.done
          /\ UNCHANGED <<chip.mask0, chip.mask1, chip.txd, chip.xtal>>
      BY <1>11, <2>1, WaitDoneStep DEF Transmitting, Shape, ChipSet
    <3> QED BY <1>11, <3>1, WaitDoneStep DEF ChipInv
  <2>2. CASE ~Transmitting(chip)
    BY <1>11, <2>2, WaitDoneStep DEF ChipInv, Reset
  <2> QED BY <2>1, <2>2
<1>12. CASE OnOther
  <2>1. boot < 4 /\ UNCHANGED <<ubRFState, timer, task, boot>> /\ task = "idle"
    BY <1>0, <1>12 DEF OnOther, Interrupt, BootInv, Paired
  <2>2. chip'.mask0 = "none" /\ UNCHANGED <<chip.txd, chip.done, chip.xtal>>
    BY <1>12, OtherStep DEF Shape, ChipSet
  <2> QED BY <2>1, <2>2 DEF ChipInv
<1>13. CASE OnStartup("wait_xtal", "xtal_ready") \/ OnStartup("pll_ranging", "pll_ranging_done")
  <2>1. boot < 4 /\ UNCHANGED <<timer, task, boot>> /\ task = "idle"
    BY <1>0, <1>13 DEF OnStartup, Interrupt, BootInv, Paired
  <2>2. chip'.mask1 = "none" /\ UNCHANGED <<chip.mask0, chip.txd, chip.done, chip.xtal>>
    BY <1>13, StartupStep DEF Shape, ChipSet
  <2> QED BY <2>1, <2>2 DEF ChipInv
<1>14. CASE Boot
  <2>1. timer' = "off" /\ task' = "idle"
    BY <1>14, BootStep DEF BootInv
  <2>2. chip'.mask0 \in {"none", "rx"} /\ (boot' = 4 => chip'.pwr = "rx")
    <3>1. CASE boot' < 4
      BY <1>14, <3>1, BootStep DEF BootInv
    <3>2. CASE chip' = [Reset EXCEPT !.pwr = "rx", !.mask0 = "rx"]
      BY <3>2 DEF Reset
    <3> QED BY <1>14, <3>1, <3>2, BootStep
  <2>3. chip'.txd => ~chip'.done
    <3>1. chip' = Reset \/ UNCHANGED <<chip.txd, chip.done>> \/ ~chip'.txd
      <4>1. CASE BootReset
        BY <4>1 DEF BootReset
      <4>2. CASE BootXtal
        <5>1. PICK x \in BOOLEAN :
                Through(<<[chip EXCEPT !.pwr = "on", !.xtal = x],
                          [[chip EXCEPT !.pwr = "on", !.xtal = x] EXCEPT !.mask1 = "xtal"]>>, 0)
          BY <4>2 DEF BootXtal
        <5>2. chip' = [[chip EXCEPT !.pwr = "on", !.xtal = x] EXCEPT !.mask1 = "xtal"]
          BY <5>1, ThroughTwo
        <5> QED BY <5>2 DEF Shape, ChipSet
      <4>3. CASE BootRanging
        <5>1. chip' = [chip EXCEPT !.mask1 = "pll"]
          BY <4>3, ThroughOne DEF BootRanging
        <5> QED BY <5>1 DEF Shape, ChipSet
      <4>4. CASE BootReceive
        <5>1. chip' = [Reset EXCEPT !.pwr = "rx", !.mask0 = "rx"]
          BY <4>4, ThroughOne DEF BootReceive
        <5> QED BY <5>1 DEF Reset
      <4> QED BY <1>14, <4>1, <4>2, <4>3, <4>4 DEF Boot
    <3>2. ~Reset.txd
      BY DEF Reset
    <3>3. CASE UNCHANGED <<chip.txd, chip.done>>
      BY <3>3 DEF ChipInv
    <3> QED BY <3>1, <3>2, <3>3
  <2> QED BY <2>1, <2>2, <2>3 DEF ChipInv
<1>15. ASSUME NEW t \in Senders, Send(t) PROVE ChipInv'
  <2>0. /\ task = "idle" /\ sem = 0 /\ UNCHANGED <<task, boot>>
        /\ (timer' = timer \/ timer' = "new")
        /\ boot = 4
    BY <1>0, <1>15 DEF Send, Prepare, SetState, Arm, StartTimer, MayRun, TaskWaits, BootInv,
         Busy
  <2>1. CASE Prepare(t)
    <3>1. /\ chip'.pwr = "on"
          /\ UNCHANGED <<chip.mask0, chip.mask1, chip.txd, chip.done, chip.xtal>>
      BY <2>1, MaskStep DEF Shape, ChipSet
    <3> QED BY <2>0, <3>1 DEF ChipInv
  <2>2. CASE Arm(t)
    <3>1. chip'.mask0 = "none" /\ UNCHANGED <<chip.pwr, chip.txd, chip.done, chip.xtal>>
      BY <2>2, ArmStep DEF Shape, ChipSet
    <3> QED BY <2>0, <3>1 DEF ChipInv
  <2>3. CASE SetState(t) \/ StartTimer(t)
    BY <2>0, <2>3 DEF SetState, StartTimer, ChipInv
  <2> QED BY <1>15, <2>1, <2>2, <2>3 DEF Send
<1>16. CASE UNCHANGED vars
  BY <1>16 DEF vars, ChipInv
<1> QED BY <1>1, <1>2, <1>3, <1>4, <1>5, <1>6, <1>7, <1>8, <1>9, <1>10, <1>11, <1>12, <1>13,
           <1>14, <1>15, <1>16 DEF Next, rf_433_task

-----------------------------------------------------------------------------
(* One transmission at a time.                                             *)

LEMMA SameSenders ==
  ASSUME sp' = sp
  PROVE  /\ Busy' <=> Busy
         /\ Beginning' <=> Beginning
         /\ Armed' <=> Armed
         /\ OneBusy => OneBusy'
BY DEF Busy, Beginning, Armed, OneBusy

LEMMA LoneChip ==
  ASSUME Shape, BootInv, ChipInv, Lone, Chip
  PROVE  Lone'
<1>0. UNCHANGED <<ubRFState, timer, task, sp, boot>> /\ sem \in Nat /\ (boot < 4 \/ boot = 4)
  BY ChipStep DEF Others, Shape
<1>1. UNCHANGED <<chip.mask0, chip.mask1, chip.pwr>> /\ (chip.xtal => chip'.xtal)
  BY ChipStep DEF Shape, ChipSet
<1>2. sem' \in Nat /\ sem' >= sem /\ (Line(chip) => sem' = sem)
  BY <1>0, ChipStep, Edge
<1> USE SameSenders
<1>3. BeginInv'
  <2> SUFFICES ASSUME Beginning PROVE BeginInv'
    BY <1>0 DEF BeginInv
  <2>1. boot = 4 /\ ubRFState # "pll_ranging"
    BY <1>0 DEF BootInv, Paired, Busy, Beginning
  <2>2. chip'.xtal /\ timer # "old"
    BY <2>1, ChipStep DEF Lone, BeginInv, ChipInv, Transmitting, Shape, ChipSet
  <2> QED BY <1>0, <2>2 DEF BeginInv
<1>4. WaitInv'
  <2> SUFFICES ASSUME task = "idle", ubRFState = "tx_waitdone" PROVE WaitInv'
    BY <1>0 DEF WaitInv
  <2>1. ~Beginning => Masks'
    BY <1>1 DEF Lone, WaitInv, Masks
  <2>2. CASE ~Busy /\ chip.mask0 = "radio"
    <3>1. CASE Transmitting(chip)
      <4>1. Transmitting(chip') \/ chip'.done
        BY <3>1, ChipStep DEF Transmitting, Shape, ChipSet
      <4>2. ~Line(chip)
        BY <2>2, <3>1 DEF ChipInv, Line, Transmitting
      <4>3. chip'.done => Line(chip')
        BY <1>1, <2>2 DEF Line
      <4>4. chip'.done => sem' > 0
        BY <1>0, <4>2, <4>3, ChipStep, Edge
      <4> QED BY <1>0, <1>1, <2>1, <2>2, <4>1, <4>4 DEF WaitInv
    <3>2. CASE ~Transmitting(chip)
      <4>1. timer' # "off" \/ sem' > 0
        BY <1>0, <1>2, <2>2, <3>2 DEF Lone, WaitInv
      <4> QED BY <1>0, <1>1, <2>1, <2>2, <4>1 DEF WaitInv
    <3> QED BY <3>1, <3>2
  <2>3. CASE ~Busy /\ chip.mask0 # "radio"
    <3>1. ~Beginning
      BY <2>3 DEF Busy, Beginning
    <3>2. Line(chip) /\ sem = 0 /\ timer # "off"
      BY <2>3, <3>1 DEF Lone, WaitInv, Masks, Line
    <3> QED BY <1>0, <1>1, <1>2, <2>1, <2>3, <3>2 DEF WaitInv
  <2>4. CASE Busy
    BY <1>0, <2>1, <2>4 DEF WaitInv
  <2> QED BY <2>2, <2>3, <2>4
<1>5. TimerInv'
  BY <1>0, <1>2 DEF Lone, TimerInv
<1> QED BY <1>0, <1>3, <1>4, <1>5 DEF Lone

LEMMA LoneTimer ==
  ASSUME Shape, RxInv, Lone, TimerAges \/ rf_433_send_timer_callback
  PROVE  Lone'
<1> USE SameSenders
<1>1. CASE TimerAges
  <2>1. ~Busy /\ ~Beginning
    BY <1>1 DEF TimerAges, Busy, Beginning
  <2> QED BY <1>1, <2>1 DEF TimerAges, Lone, BeginInv, WaitInv, TimerInv, Masks
<1>2. CASE rf_433_send_timer_callback
  <2>1. ubRFState' = "rx" /\ timer = "old" /\ timer' = "off" /\ task' = task /\ sp' = sp
    BY <1>2, RestartStep
  <2>2. task # "idle" => sem' > 0
    BY <1>2, RestartStep DEF RxInv, Shape
  <2>3. Beginning => task = "idle" /\ chip'.pwr # "tx"
    BY <1>2, <2>1, RestartStep DEF Lone, BeginInv, Reset
  <2> QED BY <2>1, <2>2, <2>3 DEF Lone, BeginInv, WaitInv, TimerInv
<1> QED BY <1>1, <1>2

LEMMA LoneTask ==
  ASSUME Shape, BootInv, ChipInv, Lone, rf_433_task, boot = 4
  PROVE  Lone'
<1> USE SameSenders
<1>0. sem \in Nat /\ Paired /\ sp' = sp
  BY WaitDoneStep DEF Shape, BootInv, rf_433_task, OnReceive, OnXtal, EnableFifo, TransmitData,
     Commit, EnableDone, PowerTx, OnOther, OnStartup
<1>1. CASE OnReceive
  <2>1. ubRFState' = "rx" /\ task' = "idle" /\ timer' = timer /\ sem > 0 /\ chip'.pwr = "rx"
    BY <1>1, ReceiveStep DEF OnReceive, Interrupt, Shape, ChipSet
  <2> QED BY <1>0, <2>1 DEF Lone, BeginInv, WaitInv, TimerInv
<1>2. CASE OnXtal
  <2>1. /\ task = "idle" /\ ubRFState = "tx_xtalwait" /\ ubRFState' = "tx_xtalwait"
        /\ task' = "fifo" /\ timer' = timer /\ sem > 0 /\ chip'.xtal = chip.xtal
    BY <1>2, XtalStep DEF OnXtal, Interrupt, Shape, ChipSet
  <2> QED BY <1>0, <2>1 DEF Lone, BeginInv, WaitInv, TimerInv
<1>3. CASE EnableFifo \/ TransmitData \/ Commit \/ EnableDone
  <2>1. task # "idle" /\ task' # "idle" /\ timer' = timer
    BY <1>3 DEF EnableFifo, TransmitData, Commit, EnableDone
  <2>2. chip'.xtal = chip.xtal
    BY <1>3, MaskStep, FillStep DEF Commit, Shape, ChipSet
  <2>3. sem > 0 => sem' > 0
    BY <1>0, <1>3, MaskStep, FillStep, Edge DEF Commit
  <2> QED BY <1>0, <2>1, <2>2, <2>3 DEF Lone, BeginInv, WaitInv, TimerInv
<1>4. CASE PowerTx
  <2>1. /\ task = "power" /\ task' = "idle" /\ UNCHANGED <<ubRFState, timer>> /\ sem' = sem
        /\ UNCHANGED <<chip.xtal, chip.mask0>>
    BY <1>4, MaskStep DEF PowerTx, Shape, ChipSet
  <2>2. ubRFState # "tx_xtalwait"
    BY <1>0, <2>1 DEF Paired
  <2>3. ubRFState = "tx_waitdone" => chip'.mask0 = "radio"
    BY <2>1 DEF ChipInv
  <2> QED BY <1>0, <2>1, <2>2, <2>3 DEF Lone, BeginInv, WaitInv, TimerInv, Masks
<1>5. CASE OnWaitDone
  <2>0. sem > 0 /\ timer' = "off" /\ task = "idle" /\ task' = "idle" /\ ubRFState = "tx_waitdone"
    BY <1>5, WaitDoneStep
  <2>1. CASE Transmitting(chip)
    <3>1. /\ ubRFState' = "tx_waitdone" /\ Transmitting(chip')
          /\ UNCHANGED <<chip.mask0, chip.mask1, chip.xtal, chip.pwr>>
      BY <1>5, <2>1, WaitDoneStep DEF Transmitting, Shape, ChipSet
    <3> QED BY <1>0, <2>0, <3>1 DEF Lone, BeginInv, WaitInv, TimerInv, Masks
  <2>2. CASE ~Transmitting(chip)
    <3>1. ubRFState' = "rx" /\ chip'.pwr = "down"
      BY <1>5, <2>2, WaitDoneStep DEF Reset
    <3> QED BY <1>0, <2>0, <3>1 DEF Lone, BeginInv, WaitInv, TimerInv
  <2> QED BY <2>1, <2>2
<1>6. ~OnOther /\ ~OnStartup("wait_xtal", "xtal_ready") /\ ~OnStartup("pll_ranging", "pll_ranging_done")
  BY <1>0 DEF OnOther, OnStartup, Interrupt, Paired
<1> QED BY <1>1, <1>2, <1>3, <1>4, <1>5, <1>6 DEF rf_433_task

(* Nothing is sent during start-up.                                        *)
LEMMA LoneBoot ==
  ASSUME Shape, BootInv, Lone, boot < 4, rf_433_task \/ Boot
  PROVE  Lone'
<1>0. /\ ~Busy /\ ~Beginning /\ task = "idle"
      /\ ubRFState \in {"off", "wait_xtal", "xtal_ready", "pll_ranging", "pll_ranging_done"}
  BY DEF BootInv, Busy, Beginning
<1>1. sp' = sp /\ task' = "idle" /\ ubRFState' # "tx_waitdone" /\ ubRFState' # "tx_xtalwait"
  <2>1. CASE Boot
    BY <1>0, <2>1, BootStep
  <2>2. CASE rf_433_task
    BY <1>0, <2>2 DEF rf_433_task, OnReceive, OnXtal, EnableFifo, TransmitData, Commit,
         EnableDone,
       PowerTx, OnWaitDone, OnOther, OnStartup, Interrupt
  <2> QED BY <2>1, <2>2
<1> QED BY <1>0, <1>1, SameSenders DEF Lone, BeginInv, WaitInv, TimerInv

LEMMA LoneSend ==
  ASSUME Shape, Lone, NEW t \in Senders, Send(t), ~overlap'
  PROVE  Lone'
<1>0. sem = 0 /\ task = "idle" /\ task' = "idle"
  BY DEF Send, Prepare, SetState, Arm, StartTimer, MayRun, TaskWaits
<1>00. sp \in [Senders -> {"idle", "prepared", "armed", "sent"}]
  BY DEF Shape
<1>1. CASE Prepare(t)
  <2>1. ~Busy
    BY <1>1 DEF Prepare, Busy
  <2>2. sp' = [sp EXCEPT ![t] = "prepared"] /\ timer' = timer
    BY <1>1 DEF Prepare
  <2>3. chip'.pwr = "on" /\ sem' = 0
    BY <1>0, <1>1, MaskStep DEF Shape, ChipSet
  <2>4. Busy' /\ Beginning' /\ ~Armed' /\ OneBusy'
    BY <1>00, <2>1, <2>2 DEF Busy, Beginning, Armed, OneBusy
  <2> QED BY <1>0, <2>2, <2>3, <2>4 DEF Lone, BeginInv, WaitInv, TimerInv
<1>2. CASE SetState(t)
  <2>1. sp[t] = "prepared" /\ sp' = [sp EXCEPT ![t] = "armed"] /\ ubRFState' = "tx_xtalwait"
    BY <1>2 DEF SetState
  <2>2. UNCHANGED <<sem, timer, chip, task>>
    BY <1>2 DEF SetState
  <2>3. Busy' /\ Beginning /\ Beginning' /\ OneBusy'
    BY <1>00, <2>1 DEF Busy, Beginning, OneBusy, Lone
  <2> QED BY <1>0, <2>1, <2>2, <2>3 DEF Lone, BeginInv, WaitInv, TimerInv
<1>3. CASE Arm(t)
  <2>1. sp[t] = "armed" /\ sp' = [sp EXCEPT ![t] = "sent"] /\ ubRFState' = ubRFState
    BY <1>3 DEF Arm
  <2>2. Busy' /\ Beginning /\ Armed /\ ~Beginning' /\ OneBusy'
    BY <1>00, <2>1 DEF Busy, Beginning, Armed, OneBusy, Lone
  <2>3. chip'.mask0 = "none" /\ chip'.mask1 = "xtal" /\ chip'.xtal = chip.xtal
    BY <1>3, ArmStep DEF Shape, ChipSet
  <2>4. ubRFState' = "tx_waitdone" => Masks'
    BY <2>1, <2>2, <2>3 DEF Lone, BeginInv, Masks
  <2> QED BY <2>2, <2>4 DEF Lone, BeginInv, WaitInv, TimerInv
<1>4. CASE StartTimer(t)
  <2>1. sp[t] = "sent" /\ sp' = [sp EXCEPT ![t] = "idle"] /\ timer' = "new"
    BY <1>4 DEF StartTimer
  <2>2. UNCHANGED <<ubRFState, sem, chip, task>>
    BY <1>4 DEF StartTimer
  <2>3. ~Busy' /\ ~Beginning /\ ~Beginning' /\ OneBusy'
    BY <1>00, <2>1 DEF Busy, Beginning, OneBusy, Lone
  <2>4. Masks' <=> Masks
    BY <2>2 DEF Masks
  <2> QED BY <1>0, <2>1, <2>2, <2>3, <2>4 DEF Lone, BeginInv, WaitInv, TimerInv
<1> QED BY <1>1, <1>2, <1>3, <1>4 DEF Send

LEMMA LoneKept ==
  ASSUME Shape, BootInv, ChipInv, RxInv, LoneInv, [Next]_vars
  PROVE  LoneInv'
<1> SUFFICES ASSUME ~overlap' PROVE Lone'
  BY DEF LoneInv
<1>0. boot < 4 \/ boot = 4
  BY DEF Shape
<1>1. CASE Chip
  <2>1. Lone
    BY <1>1, ChipStep DEF LoneInv, Others
  <2> QED BY <1>1, <2>1, LoneChip
<1>2. CASE TimerAges \/ rf_433_send_timer_callback
  <2>1. Lone
    BY <1>2, RestartStep DEF LoneInv, TimerAges
  <2> QED BY <1>2, <2>1, LoneTimer
<1>3. CASE rf_433_task
  <2>1. Lone
    BY <1>3, WaitDoneStep DEF LoneInv, rf_433_task, OnReceive, OnXtal, EnableFifo,
         TransmitData,
       Commit, EnableDone, PowerTx, OnOther, OnStartup
  <2> QED BY <1>0, <1>3, <2>1, LoneTask, LoneBoot
<1>4. CASE Boot
  <2>1. Lone /\ boot < 4
    BY <1>4, BootStep DEF LoneInv
  <2> QED BY <1>4, <2>1, LoneBoot
<1>5. ASSUME NEW t \in Senders, Send(t) PROVE Lone'
  <2>1. Lone
    BY <1>5 DEF LoneInv, Send, Prepare, SetState, Arm, StartTimer, Shape
  <2> QED BY <1>5, <2>1, LoneSend
<1>6. CASE UNCHANGED vars
  BY <1>6, SameSenders DEF vars, LoneInv, Lone, BeginInv, WaitInv, TimerInv, Masks
<1> QED BY <1>1, <1>2, <1>3, <1>4, <1>5, <1>6 DEF Next

(* A transmission never waits for nothing: an interrupt that is enabled    *)
(* will come, or the send timer runs, wherever the timer restarts the chip *)
(* in the task's way; as long as no start falls into another.              *)
THEOREM DriverGuarded == Spec => []Guarded
<1> DEFINE Inv == Shape /\ RxInv /\ BootInv /\ ChipInv /\ LoneInv
<1>1. Init => Inv
  <2> SUFFICES ASSUME Init PROVE Inv
    OBVIOUS
  <2>1. chip = Reset /\ ~Busy /\ ~Beginning /\ task = "idle" /\ ubRFState = "off" /\ timer = "off"
        /\ boot = 0
    BY DEF Init, Busy, Beginning
  <2>2. BootInv /\ ChipInv
    BY <2>1 DEF BootInv, ChipInv, Reset
  <2>3. LoneInv
    BY <2>1 DEF LoneInv, Lone, OneBusy, Busy, BeginInv, WaitInv, TimerInv
  <2> QED BY <2>1, <2>2, <2>3, ShapeStart DEF RxInv
<1>2. Inv /\ [Next]_vars => Inv'
  BY ShapeStep, RxStep, BootKept, ChipKept, LoneKept
<1>3. Inv => Guarded
  <2> SUFFICES ASSUME Inv, AtRest, ubRFState # "rx", ~overlap
               PROVE  timer # "off" \/ (Transmitting(chip) /\ chip.mask0 = "radio")
    BY DEF Guarded
  <2>1. task = "idle" /\ sem = 0 /\ boot = 4 /\ ~Busy
    BY DEF AtRest, TaskWaits, Busy
  <2>2. ubRFState \in {"tx_xtalwait", "tx_waitdone"}
    BY <2>1 DEF BootInv, Paired
  <2> QED BY <2>1, <2>2 DEF LoneInv, Lone, WaitInv, TimerInv
<1> QED BY <1>1, <1>2, <1>3, PTL DEF Spec
=============================================================================
