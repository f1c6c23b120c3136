---------------------------- MODULE RadioDriver ----------------------------
(***************************************************************************)
(* The driver of the AX5043 transceiver (radio/Radio_433.c and             *)
(* radio/Radio_Common.c): rf_433_task answers the chip's interrupts        *)
(* according to ubRFState, the queue and key threads start transmissions,  *)
(* a one-shot timer restarts the chip when a transmission does not end.    *)
(*                                                                         *)
(* The chip raises its interrupt line while a request that is not masked   *)
(* is pending; every rising edge releases IRQ1_Sem once.  The chip is      *)
(* modelled from how the driver uses it.  A step is a run of register      *)
(* accesses during which no other thread makes a difference.               *)
(***************************************************************************)
EXTENDS Integers, Sequences, FiniteSets

CONSTANTS
  Senders,   \* threads that call RadioSend or GatewayDataSend
  Prio,      \* their RT-Thread priorities: a smaller number runs first
  MaxSends   \* bound: transmissions that are started

ASSUME DriverAssumption ==
  /\ IsFiniteSet(Senders) /\ Prio \in [Senders -> Nat]
  /\ MaxSends \in Nat

VARIABLES
  ubRFState, sem, timer,  \* rf_433.ubRFState, IRQ1_Sem, rf_433_send_timer
  chip,                   \* the AX5043
  task, sp, boot,         \* where rf_433_task, the senders and main are
  sends, overlap          \* transmissions started; were two started at once?

vars == <<ubRFState, sem, timer, chip, task, sp, boot, sends, overlap>>

RFStates == {"off", "rx", "wait_xtal", "xtal_ready", "pll_ranging",
             "pll_ranging_done", "tx_xtalwait", "tx_longpreamble", "tx_waitdone"}

ChipSet == [pwr  : {"down", "on", "rx", "tx"},   \* PWRMODE
            xtal : BOOLEAN, ranged : BOOLEAN,    \* crystal ready, PLL ranged
            mask1 : {"none", "xtal", "pll"},     \* IRQMASK1
            mask0 : {"none", "rx", "fifo", "radio"},  \* IRQMASK0
            rxd  : BOOLEAN,   \* a received packet is in the FIFO
            txd  : BOOLEAN,   \* so is one to transmit
            done : BOOLEAN]   \* REVRDONE

(* Four interrupts at most are outstanding.                                *)
TypeOK ==
  /\ ubRFState \in RFStates
  /\ sem \in 0 .. 4 /\ timer \in {"off", "new", "old"}
  /\ chip \in ChipSet
  /\ task \in {"idle", "fifo", "fill", "commit", "enable", "power"}
  /\ sp \in [Senders -> {"idle", "prepared", "armed", "sent"}]
  /\ boot \in 0 .. 4
  /\ sends \in 0 .. MaxSends /\ overlap \in BOOLEAN

-----------------------------------------------------------------------------
(* The chip (external) and its interrupt line.                             *)

Line(c) ==
  \/ c.mask1 = "xtal" /\ c.xtal
  \/ c.mask1 = "pll" /\ c.ranged
  \/ c.mask0 = "rx" /\ c.rxd
  \/ c.mask0 = "fifo"                     \* there is room in the FIFO
  \/ c.mask0 = "radio" /\ c.done

Rises(s) == Cardinality({i \in 2 .. Len(s) : ~Line(s[i - 1]) /\ Line(s[i])})

(* The chip goes through the states s while k units of IRQ1_Sem are taken. *)
Through(s, k) ==
  /\ chip' = s[Len(s)]
  /\ sem' = sem - k + Rises(<<chip>> \o s)

Reset == [pwr |-> "down", xtal |-> FALSE, ranged |-> FALSE, mask1 |-> "none",
          mask0 |-> "none", rxd |-> FALSE, txd |-> FALSE, done |-> FALSE]

Transmitting(c) == c.pwr = "tx" /\ c.txd        \* RADIOSTATE # 0

XtalReady ==
  /\ chip.pwr # "down" /\ ~chip.xtal
  /\ Through(<<[chip EXCEPT !.xtal = TRUE]>>, 0)
  /\ UNCHANGED <<ubRFState, timer, task, sp, boot, sends, overlap>>

Ranged ==
  /\ ubRFState = "pll_ranging" /\ chip.xtal /\ ~chip.ranged
  /\ Through(<<[chip EXCEPT !.ranged = TRUE]>>, 0)
  /\ UNCHANGED <<ubRFState, timer, task, sp, boot, sends, overlap>>

PacketReceived ==
  /\ chip.pwr = "rx" /\ chip.xtal /\ ~chip.rxd
  /\ Through(<<[chip EXCEPT !.rxd = TRUE]>>, 0)
  /\ UNCHANGED <<ubRFState, timer, task, sp, boot, sends, overlap>>

PacketSent ==
  /\ Transmitting(chip)
  /\ Through(<<[chip EXCEPT !.txd = FALSE, !.done = TRUE]>>, 0)
  /\ UNCHANGED <<ubRFState, timer, task, sp, boot, sends, overlap>>

(* A second after it was started the timer expires.  By then the crystal   *)
(* has long started, what was in the FIFO has been transmitted and every   *)
(* thread has come to the end of what it was doing when it was started.    *)
TimerAges ==
  /\ timer = "new" /\ timer' = "old"
  /\ \A t \in Senders : sp[t] = "idle"
  /\ sem = 0 /\ task = "idle" /\ ~Transmitting(chip)
  /\ chip.xtal \/ chip.pwr = "down"
  /\ UNCHANGED <<ubRFState, sem, chip, task, sp, boot, sends, overlap>>

-----------------------------------------------------------------------------
(* Variation of rf_restart: the interrupt pin is not driven high and low.  *)
rf_restart_NoPulse(k) ==
  /\ chip' = Reset
  /\ sem' = sem - k
  /\ ubRFState' = "rx"

(* rf_restart resets the chip and drives its interrupt pin high and low,   *)
(* so that rf_433_task runs once more and turns the receiver on.           *)
rf_restart(k) ==
  /\ chip' = Reset
  /\ sem' = sem - k + 1
  /\ ubRFState' = "rx"

(* Variation: the callback does not look at ubRFState, the timer goes on.  *)
rf_433_send_timer_callback_Always ==
  /\ timer = "old"
  /\ rf_restart(0)
  /\ UNCHANGED <<timer, task, sp, boot, sends, overlap>>

(* Runs in the timer thread, whose priority is higher than all others;     *)
(* with a timer of an earlier transmission it can do so at any time.       *)
rf_433_send_timer_callback ==
  /\ timer = "old" /\ timer' = "off"
  /\ \/ ubRFState # "rx" /\ rf_restart(0)
     \/ ubRFState = "rx" /\ UNCHANGED <<ubRFState, sem, chip>>
  /\ UNCHANGED <<task, sp, boot, sends, overlap>>

-----------------------------------------------------------------------------
(* rf_433_task_callback.                                                   *)

Interrupt(s) == task = "idle" /\ sem > 0 /\ ubRFState = s

(* A packet, or the pulse of rf_restart: read the FIFO, then receive.      *)
OnReceive ==
  /\ Interrupt("rx")
  /\ LET c1 == [chip EXCEPT !.rxd = FALSE]            \* ReceiveData
         c2 == [c1 EXCEPT !.mask0 = "rx", !.pwr = "rx", !.txd = FALSE]
         c3 == [c2 EXCEPT !.mask1 = "none"]
     IN Through(<<c1, c2, c3>>, 1)                    \* AX5043Receiver_Continuous
  /\ UNCHANGED <<ubRFState, timer, task, sp, boot, sends, overlap>>

(* trxstate_wait_xtal and trxstate_pll_ranging, during rf_startup.         *)
OnStartup(s, t) ==
  /\ Interrupt(s)
  /\ Through(<<[chip EXCEPT !.mask1 = "none"]>>, 1)
  /\ ubRFState' = t
  /\ UNCHANGED <<timer, task, sp, boot, sends, overlap>>

(* The crystal runs; from here to PowerTx the timer may restart the chip   *)
(* between any two steps.                                                  *)
OnXtal ==
  /\ Interrupt("tx_xtalwait")
  /\ LET c1 == [chip EXCEPT !.done = FALSE, !.rxd = FALSE, !.txd = FALSE]
     IN Through(<<c1, [c1 EXCEPT !.mask1 = "none"]>>, 1)
  /\ task' = "fifo"
  /\ UNCHANGED <<ubRFState, timer, sp, boot, sends, overlap>>

EnableFifo ==
  /\ task = "fifo" /\ task' = "fill"
  /\ Through(<<[chip EXCEPT !.mask0 = "fifo"]>>, 0)
  /\ ubRFState' = "tx_longpreamble"
  /\ UNCHANGED <<timer, sp, boot, sends, overlap>>

(* A packet always fits into the FIFO at once; if the timer has restarted  *)
(* the chip in between, TransmitData finds trxstate_rx and returns.        *)
TransmitData ==
  /\ task = "fill"
  /\ \/ /\ ubRFState = "tx_longpreamble" /\ task' = "commit"
        /\ Through(<<[chip EXCEPT !.txd = TRUE]>>, 0)
     \/ /\ ubRFState = "rx" /\ task' = "power"
        /\ UNCHANGED <<chip, sem>>
  /\ UNCHANGED <<ubRFState, timer, sp, boot, sends, overlap>>

Commit ==
  /\ task = "commit" /\ task' = "enable"
  /\ ubRFState' = "tx_waitdone"
  /\ UNCHANGED <<sem, timer, chip, sp, boot, sends, overlap>>

EnableDone ==
  /\ task = "enable" /\ task' = "power"
  /\ Through(<<[chip EXCEPT !.mask0 = "radio"]>>, 0)
  /\ UNCHANGED <<ubRFState, timer, sp, boot, sends, overlap>>

PowerTx ==
  /\ task = "power" /\ task' = "idle"
  /\ Through(<<[chip EXCEPT !.pwr = "tx"]>>, 0)
  /\ UNCHANGED <<ubRFState, timer, sp, boot, sends, overlap>>

(* Variation of OnWaitDone: the chip is not restarted.                     *)
OnWaitDone_Stay ==
  /\ Interrupt("tx_waitdone")
  /\ timer' = "off"
  /\ Through(<<[chip EXCEPT !.done = FALSE]>>, 1)
  /\ UNCHANGED <<ubRFState, task, sp, boot, sends, overlap>>

OnWaitDone ==
  /\ Interrupt("tx_waitdone")
  /\ timer' = "off"
  /\ \/ /\ Transmitting(chip)
        /\ Through(<<[chip EXCEPT !.done = FALSE]>>, 1)
        /\ UNCHANGED ubRFState
     \/ /\ ~Transmitting(chip)
        /\ rf_restart(1)
  /\ UNCHANGED <<task, sp, boot, sends, overlap>>

OnOther ==
  /\ \E s \in {"off", "xtal_ready", "pll_ranging_done"} : Interrupt(s)
  /\ Through(<<[chip EXCEPT !.mask1 = "none", !.mask0 = "none"]>>, 1)
  /\ UNCHANGED <<ubRFState, timer, task, sp, boot, sends, overlap>>

rf_433_task ==
  \/ OnReceive \/ OnXtal \/ EnableFifo \/ TransmitData \/ Commit \/ EnableDone
  \/ PowerTx \/ OnWaitDone \/ OnOther
  \/ OnStartup("wait_xtal", "xtal_ready")
  \/ OnStartup("pll_ranging", "pll_ranging_done")

-----------------------------------------------------------------------------
(* Threads of lower priority than rf_433_task.                             *)

TaskWaits == task = "idle" /\ sem = 0

(* Thread t gets the processor.                                            *)
MayRun(t) ==
  TaskWaits /\ \A u \in Senders : Prio[u] < Prio[t] => sp[u] = "idle"

(* rf_433_driver_init, in main: Ax5043_OFF, Ax5043_Reset with its pulse.   *)
BootReset ==
  /\ boot = 0 /\ TaskWaits /\ boot' = 1
  /\ chip' = Reset /\ sem' = sem + 1
  /\ ubRFState' = "off"
  /\ UNCHANGED <<timer, task, sp, sends, overlap>>

(* The crystal is started before its interrupt is enabled (RadioXtalON).   *)
BootXtal ==
  /\ boot = 1 /\ TaskWaits /\ boot' = 2
  /\ \E x \in BOOLEAN :
       LET c1 == [chip EXCEPT !.pwr = "on", !.xtal = x]
       IN Through(<<c1, [c1 EXCEPT !.mask1 = "xtal"]>>, 0)
  /\ ubRFState' = "wait_xtal"
  /\ UNCHANGED <<timer, task, sp, sends, overlap>>

BootRanging ==
  /\ boot = 2 /\ TaskWaits /\ ubRFState # "wait_xtal" /\ boot' = 3
  /\ Through(<<[chip EXCEPT !.mask1 = "pll"]>>, 0)
  /\ ubRFState' = "pll_ranging"
  /\ UNCHANGED <<timer, task, sp, sends, overlap>>

(* The end of rf_startup, AX5043ReceiverON.                                *)
BootReceive ==
  /\ boot = 3 /\ TaskWaits /\ ubRFState # "pll_ranging" /\ boot' = 4
  /\ Through(<<[Reset EXCEPT !.pwr = "rx", !.mask0 = "rx"]>>, 0)
  /\ ubRFState' = "rx"
  /\ UNCHANGED <<timer, task, sp, sends, overlap>>

(* transmit_packet_task up to the assignment of ubRFState.                 *)
Prepare(t) ==
  /\ boot = 4 /\ sp[t] = "idle" /\ MayRun(t) /\ sends < MaxSends
  /\ sends' = sends + 1
  /\ overlap' = (overlap \/ \E u \in Senders : sp[u] # "idle")
  /\ Through(<<[chip EXCEPT !.pwr = "on"]>>, 0)
  /\ sp' = [sp EXCEPT ![t] = "prepared"]
  /\ UNCHANGED <<ubRFState, timer, task, boot>>

SetState(t) ==
  /\ sp[t] = "prepared" /\ MayRun(t)
  /\ ubRFState' = "tx_xtalwait"
  /\ sp' = [sp EXCEPT ![t] = "armed"]
  /\ UNCHANGED <<sem, timer, chip, task, boot, sends, overlap>>

Arm(t) ==
  /\ sp[t] = "armed" /\ MayRun(t)
  /\ Through(<<[chip EXCEPT !.mask0 = "none"],
               [chip EXCEPT !.mask0 = "none", !.mask1 = "xtal"]>>, 0)
  /\ sp' = [sp EXCEPT ![t] = "sent"]
  /\ UNCHANGED <<ubRFState, timer, task, boot, sends, overlap>>

(* Variation of StartTimer: it is forgotten.                               *)
StartTimer_Not(t) ==
  /\ sp[t] = "sent" /\ MayRun(t)
  /\ sp' = [sp EXCEPT ![t] = "idle"]
  /\ UNCHANGED <<ubRFState, sem, timer, chip, task, boot, sends, overlap>>

(* rf_433_send_timer_start                                                 *)
StartTimer(t) ==
  /\ sp[t] = "sent" /\ MayRun(t)
  /\ timer' = "new"
  /\ sp' = [sp EXCEPT ![t] = "idle"]
  /\ UNCHANGED <<ubRFState, sem, chip, task, boot, sends, overlap>>

Boot    == BootReset \/ BootXtal \/ BootRanging \/ BootReceive
Send(t) == Prepare(t) \/ SetState(t) \/ Arm(t) \/ StartTimer(t)

-----------------------------------------------------------------------------
Init ==
  /\ ubRFState = "off" /\ sem = 0 /\ timer = "off"
  /\ chip = Reset
  /\ task = "idle" /\ sp = [t \in Senders |-> "idle"]
  /\ boot = 0 /\ sends = 0 /\ overlap = FALSE

Chip == XtalReady \/ Ranged \/ PacketReceived \/ PacketSent

Next ==
  \/ Chip \/ TimerAges \/ rf_433_send_timer_callback \/ rf_433_task \/ Boot
  \/ \E t \in Senders : Send(t)

(* Threads run when they are ready and none of higher priority is; the     *)
(* timer expires; the crystal starts, the PLL finds its range and what is  *)
(* in the FIFO gets transmitted.                                           *)
Spec ==
  /\ Init /\ [][Next]_vars
  /\ WF_vars(XtalReady) /\ WF_vars(Ranged) /\ WF_vars(PacketSent)
  /\ WF_vars(TimerAges) /\ WF_vars(rf_433_send_timer_callback)
  /\ WF_vars(rf_433_task) /\ WF_vars(Boot)
  /\ \A t \in Senders : SF_vars(Send(t) /\ sp[t] # "idle")

-----------------------------------------------------------------------------
(* Properties.                                                             *)

(* No thread is busy and the crystal is not just being started.            *)
AtRest ==
  /\ TaskWaits /\ boot = 4 /\ \A t \in Senders : sp[t] = "idle"
  /\ chip.xtal \/ chip.pwr = "down"

Listening == ubRFState = "rx" /\ chip.pwr = "rx" /\ chip.mask0 = "rx"

(* When nothing is going on and the driver takes the radio for receiving   *)
(* (trxstate_rx), the chip really receives and its interrupt is enabled,   *)
(* although rf_restart leaves it powered down: no order of restarts,       *)
(* transmissions and timeouts leaves the gateway deaf.                     *)
RxListens == AtRest /\ ubRFState = "rx" => Listening

(* A transmission never waits for nothing: either an interrupt that is     *)
(* enabled will come or the send timer runs, wherever the timer restarts   *)
(* the chip and whatever arrives on the air meanwhile.  This holds as long *)
(* as no thread starts a transmission in the middle of another's start.    *)
Guarded ==
  AtRest /\ ubRFState # "rx" /\ ~overlap =>
    \/ timer # "off"
    \/ Transmitting(chip) /\ chip.mask0 = "radio"

(* The gateway receives again after its start and every transmission.      *)
ReceivesAgain == []<>(Listening \/ overlap)
=============================================================================
