----------------------------- MODULE Heartbeat -----------------------------
(***************************************************************************)
(* The heartbeat of the valve controllers (applications/heart.c): every 15 *)
(* minutes the thread "heart" polls the slots of the registry in turn,     *)
(* repeats a poll that stays unanswered for 2 s up to RetryLimit times and *)
(* marks a controller as offline when CountLimit + 1 visits in a row have  *)
(* found it silent.  Meanwhile rf_433_task records whatever controllers    *)
(* send and learns new ones, and wifi-service deletes devices and tells    *)
(* the cloud about their state (wifi/wifi-api.c).                          *)
(*                                                                         *)
(* A terminal is bound to a controller, which is all that hears its radio, *)
(* so the gateway reports it to the cloud as offline together with its     *)
(* controller.  One terminal is followed here; what its own mark says is   *)
(* left open, since any message may change it.                             *)
(*                                                                         *)
(* Flash_Set_Heart reports, writes the flash, which sleeps, and sets the   *)
(* mark last; MainAdd_Flash sets it first and writes the flash then.  What *)
(* happens before and after a write are two steps.                         *)
(***************************************************************************)
EXTENDS Integers, FiniteSets, FiniteSetsExt

CONSTANTS
  Num,          \* slots in use, each for a controller at first
  RetryLimit,   \* 6
  CountLimit    \* 5

ASSUME HeartbeatAssumption ==
  Num \in Nat \ {0} /\ {RetryLimit, CountLimit} \subseteq Nat

Slots == 1 .. Num

(* Polls that a controller leaves unanswered before it counts as offline.  *)
Patience == (RetryLimit + 1) * (CountLimit + 1)

VARIABLES
  used,                                    \* slots that hold a controller
  Heart, HeartRecv, HeartRetry, HeartCount,
  pc, num, found,   \* the thread "heart", and the slot in which
                    \* Flash_Set_Heart found the ID
  rpc, at,          \* rf_433_task, and the slot of the controller it serves
  loose,     \* slots whose mark in the flash may not be the one in memory
  alive,     \* controllers that have power
  missed,    \* history: polls of a slot in a row without an answer in time, since
             \* the last mark or restart
  owner,     \* the slot of the terminal's controller; None: the terminal is not
             \* known; Gone: its controller is not
  shown,     \* the cloud shows the terminal as online
  stray      \* history: it does so by a report that did not look at the mark
             \* of the controller, or looked too early, or a restart undid it

slotVars  == <<HeartRecv, HeartRetry, HeartCount>>
heartVars == <<pc, num, found>>
radioVars == <<rpc, at>>
cloudVars == <<owner, shown, stray>>
vars == <<used, Heart, HeartRecv, HeartRetry, HeartCount, pc, num, found, rpc, at, loose,
          alive, missed, owner, shown, stray>>

None == 0
Gone == -1

TypeOK ==
  /\ used \subseteq Slots /\ alive \subseteq used /\ loose \subseteq Slots
  /\ Heart \in [Slots -> {0, 1}] /\ HeartRecv \in [Slots -> {0, 1}]
  /\ HeartRetry \in [Slots -> 0 .. RetryLimit]
  /\ HeartCount \in [Slots -> 0 .. CountLimit]
  /\ pc \in {"pause", "poll", "wait", "up", "down"}
  /\ num \in 1 .. Num + 1 /\ found \in Slots \cup {None}
  /\ rpc \in {"idle", "up", "rest", "learn"} /\ at \in Slots
  /\ missed \in [Slots -> 0 .. Patience]
  /\ owner \in used \cup {None, Gone}
  /\ shown \in BOOLEAN /\ stray \in BOOLEAN

-----------------------------------------------------------------------------
(* The reports to the cloud.                                               *)

(* heart_callback has reported the terminals of s as offline and is about  *)
(* to set the mark.                                                        *)
GoingDown(s) == pc = "down" /\ found = s

(* Report the terminal of the controller in slot s as online or offline,   *)
(* after a look at the controller's mark: Device_Up, Device_Down.          *)
Report(s, up) ==
  /\ shown' = up
  /\ stray' = (up /\ GoingDown(s))

NoReport == UNCHANGED <<shown, stray>>

(* Set_Slave_Heart(ID, 1): the controller in slot s comes back online, and *)
(* with it those of its terminals that are.                                *)
TerminalsUp(s) == NoReport \/ (s = owner /\ Report(s, TRUE))

(* The slot with the ID of slot n.  An ID of zero is found in the highest  *)
(* empty slot.                                                             *)
Holder(n) == IF n \in used THEN n ELSE Max(Slots \ used)

-----------------------------------------------------------------------------
(* heart_callback.                                                         *)

Wake ==
  /\ pc = "pause"
  /\ num' = 1 /\ pc' = "poll"
  /\ UNCHANGED <<used, Heart, slotVars, found, radioVars, loose, alive, missed, cloudVars>>

EndOfSweep ==
  /\ pc = "poll" /\ num > Num
  /\ pc' = "pause"
  /\ UNCHANGED <<used, Heart, slotVars, num, found, radioVars, loose, alive, missed,
                 cloudVars>>

SkipSlot ==
  /\ pc = "poll" /\ num \in Slots \ used
  /\ num' = num + 1
  /\ UNCHANGED <<used, Heart, slotVars, pc, found, radioVars, loose, alive, missed,
                 cloudVars>>

Poll ==
  /\ pc = "poll" /\ num \in used
  /\ HeartRecv' = [HeartRecv EXCEPT ![num] = 0]
  /\ pc' = "wait"
  /\ UNCHANGED <<used, Heart, HeartRetry, HeartCount, num, found, radioVars, loose, alive,
                 missed, cloudVars>>

(* Variation of Answered: the visits that found it silent are not          *)
(* forgotten.                                                              *)
Answered_CountKept ==
  /\ pc = "wait" /\ HeartRecv[num] = 1
  /\ HeartRetry' = [HeartRetry EXCEPT ![num] = 0]
  /\ HeartRecv' = [HeartRecv EXCEPT ![Holder(num)] = 1]
  /\ missed' = [missed EXCEPT ![num] = 0]
  /\ IF Heart[Holder(num)] = 1
       THEN num' = num + 1 /\ pc' = "poll" /\ NoReport /\ UNCHANGED found
       ELSE pc' = "up" /\ found' = Holder(num) /\ TerminalsUp(found') /\ UNCHANGED num
  /\ UNCHANGED <<used, Heart, HeartCount, radioVars, loose, alive, owner>>

(* Heart_Upload(ID, 1): the terminals of a controller that was offline are *)
(* reported, and the flash is written.                                     *)
Answered ==
  /\ pc = "wait" /\ HeartRecv[num] = 1
  /\ HeartCount' = [HeartCount EXCEPT ![num] = 0]
  /\ HeartRetry' = [HeartRetry EXCEPT ![num] = 0]
  /\ HeartRecv' = [HeartRecv EXCEPT ![Holder(num)] = 1]
  /\ missed' = [missed EXCEPT ![num] = 0]
  /\ IF Heart[Holder(num)] = 1
       THEN num' = num + 1 /\ pc' = "poll" /\ NoReport /\ UNCHANGED found
       ELSE pc' = "up" /\ found' = Holder(num) /\ TerminalsUp(found') /\ UNCHANGED num
  /\ UNCHANGED <<used, Heart, radioVars, loose, alive, owner>>

MarkOnline ==
  /\ pc = "up"
  /\ Heart' = [Heart EXCEPT ![found] = 1] /\ loose' = loose \ {found}
  /\ num' = num + 1 /\ pc' = "poll" /\ found' = None
  /\ UNCHANGED <<used, slotVars, radioVars, alive, missed, cloudVars>>

(* No answer has come within the 2 s, in which rf_433_task finishes what   *)
(* it was doing for the controller before.                                 *)
Silent ==
  /\ pc = "wait" /\ HeartRecv[num] = 0 /\ ~(rpc # "idle" /\ at = num)
  /\ UNCHANGED <<used, Heart, HeartRecv, radioVars, alive, owner>>

(* History: one more poll of the slot without an answer.                   *)
Missed == missed' = [missed EXCEPT ![num] = IF @ < Patience THEN @ + 1 ELSE @]

(* Variation of Retry: the repetitions are not counted, as in a build      *)
(* without the debug output that the increment is part of.                 *)
Retry_Uncounted ==
  /\ Silent /\ HeartRetry[num] < RetryLimit
  /\ pc' = "poll" /\ Missed /\ NoReport
  /\ UNCHANGED <<HeartRetry, HeartCount, num, found, loose>>

(* Variation of Retry: one repetition too many.                            *)
Retry_OneMore ==
  /\ Silent /\ HeartRetry[num] <= RetryLimit
  /\ HeartRetry' = [HeartRetry EXCEPT ![num] = @ + 1]
  /\ pc' = "poll" /\ Missed /\ NoReport
  /\ UNCHANGED <<HeartCount, num, found, loose>>

Retry ==
  /\ Silent /\ HeartRetry[num] < RetryLimit
  /\ HeartRetry' = [HeartRetry EXCEPT ![num] = @ + 1]
  /\ pc' = "poll" /\ Missed /\ NoReport
  /\ UNCHANGED <<HeartCount, num, found, loose>>

NextVisit ==
  /\ Silent /\ HeartRetry[num] >= RetryLimit /\ HeartCount[num] < CountLimit
  /\ HeartCount' = [HeartCount EXCEPT ![num] = @ + 1]
  /\ HeartRetry' = [HeartRetry EXCEPT ![num] = 0]
  /\ num' = num + 1 /\ pc' = "poll" /\ Missed /\ NoReport /\ UNCHANGED <<found, loose>>

LastVisit == Silent /\ HeartRetry[num] >= RetryLimit /\ HeartCount[num] >= CountLimit

(* Flash_Set_Heart(ID, 0) leaves a controller alone that is offline.       *)
StillOffline ==
  /\ LastVisit /\ Heart[Holder(num)] = 0
  /\ HeartCount' = [HeartCount EXCEPT ![num] = 0]
  /\ HeartRetry' = [HeartRetry EXCEPT ![num] = 0]
  /\ missed' = [missed EXCEPT ![num] = 0]
  /\ num' = num + 1 /\ pc' = "poll" /\ NoReport /\ UNCHANGED <<found, loose>>

(* Otherwise the terminals are reported offline and the flash is written,  *)
(* under the ID that was passed: zero if the controller has been deleted.  *)
GiveUp ==
  /\ LastVisit /\ Heart[Holder(num)] = 1
  /\ HeartCount' = [HeartCount EXCEPT ![num] = 0]
  /\ found' = Holder(num) /\ pc' = "down" /\ Missed
  /\ IF Holder(num) = owner THEN Report(owner, FALSE) ELSE NoReport
  /\ UNCHANGED <<HeartRetry, num, loose>>

MarkOffline ==
  /\ pc = "down"
  /\ Heart' = [Heart EXCEPT ![found] = 0] /\ found' = None
  /\ HeartRetry' = [HeartRetry EXCEPT ![num] = 0]
  /\ missed' = [missed EXCEPT ![num] = 0]
  /\ num' = num + 1 /\ pc' = "poll"
  /\ UNCHANGED <<used, HeartRecv, HeartCount, radioVars, loose, alive, cloudVars>>

heart_callback ==
  \/ Wake \/ EndOfSweep \/ SkipSlot \/ Poll
  \/ Answered \/ MarkOnline \/ Retry \/ NextVisit \/ StillOffline \/ GiveUp \/ MarkOffline

-----------------------------------------------------------------------------
(* rf_433_task.                                                            *)

(* Heart_Upload(From_ID, 1) for the controller in slot s.                  *)
Heard(s) ==
  /\ HeartRecv' = [HeartRecv EXCEPT ![s] = 1] /\ at' = s
  /\ IF Heart[s] = 1 THEN rpc' = "rest" /\ NoReport
                     ELSE rpc' = "up" /\ TerminalsUp(s)
  /\ UNCHANGED <<used, Heart, HeartRetry, HeartCount, heartVars, loose, alive, missed, owner>>

Message(s) == rpc = "idle" /\ s \in alive /\ Heard(s)

MarkUp ==
  /\ rpc = "up"
  /\ Heart' = [Heart EXCEPT ![at] = 1] /\ loose' = loose \ {at}
  /\ rpc' = "rest"
  /\ UNCHANGED <<used, slotVars, heartVars, at, alive, missed, cloudVars>>

restUnchanged == <<used, Heart, slotVars, heartVars, loose, alive, missed>>

(* The message was about a terminal that is not known yet.  It is bound to *)
(* the controller that sent it, if that has not been deleted meanwhile.    *)
Bind ==
  /\ rpc = "rest" /\ owner = None
  /\ owner' = (IF at \in used THEN at ELSE Gone)
  /\ UNCHANGED <<restUnchanged, radioVars, shown, stray>>

(* It says that the terminal is online or offline: Flash_Set_Heart for the *)
(* terminal, which has no terminals of its own.  Or it is about something  *)
(* else.                                                                   *)
HearTerminal ==
  /\ rpc = "rest" /\ rpc' = "idle" /\ at' = 1
  /\ UNCHANGED <<restUnchanged, owner, shown, stray>>

(* Types 3 and 6: the terminal, whose controller may be another one, is    *)
(* reported online whatever that one's mark says.                          *)
Announce ==
  /\ rpc = "rest" /\ rpc' = "idle" /\ at' = 1 /\ owner # None
  /\ shown' = TRUE
  /\ stray' = (owner \in used /\ (Heart[owner] = 0 \/ GoingDown(owner)))
  /\ UNCHANGED <<restUnchanged, owner>>

(* MainAdd_Flash sets Heart and leaves the other marks as they are.  The   *)
(* controller may be the one whose terminal has stayed behind.  If the     *)
(* heart thread is writing a mark, it may be that of the same ID.          *)
Learn(s) ==
  /\ rpc = "idle" /\ s \in Slots \ used
  /\ rpc' = "learn" /\ at' = s
  /\ used' = used \cup {s} /\ alive' = alive \cup {s}
  /\ Heart' = [Heart EXCEPT ![s] = 1]
  /\ loose' = IF pc = "down" THEN loose \cup {s} ELSE loose \ {s}
  /\ owner' \in IF owner = Gone THEN {Gone, s} ELSE {owner}
  /\ stray' = (stray \/ (owner' = s /\ GoingDown(s)))
  /\ UNCHANGED <<slotVars, heartVars, missed, shown>>

(* The flash is written; NormalSolve ends with Heart_Upload.               *)
Learned == rpc = "learn" /\ Heard(at)

rf_433_task == MarkUp \/ HearTerminal \/ Announce \/ Learned

-----------------------------------------------------------------------------
(* wifi-service, the controllers and the power supply.                     *)

(* Variation of Heart_Request: whether the controller is online does not   *)
(* matter.                                                                 *)
Heart_Request_TerminalOnly ==
  /\ owner \in used
  /\ \E up \in BOOLEAN : Report(owner, up)
  /\ UNCHANGED <<used, Heart, slotVars, heartVars, radioVars, loose, alive, missed, owner>>

(* The cloud asks for the terminal.  Of one whose controller is offline or *)
(* not known it is not told anything.                                      *)
Heart_Request ==
  /\ owner \in used /\ Heart[owner] = 1
  /\ \E up \in BOOLEAN : Report(owner, up)
  /\ UNCHANGED <<used, Heart, slotVars, heartVars, radioVars, loose, alive, missed, owner>>

(* Del_Device leaves the marks of the slot as they are; the terminal stays *)
(* behind with the ID of a controller that is not there.  The cloud knows  *)
(* a new controller only when it has been learned.                         *)
Delete(s) ==
  /\ s \in used /\ ~(rpc = "learn" /\ at = s)
  /\ used' = used \ {s} /\ alive' = alive \ {s}
  /\ owner' = IF s = owner THEN Gone ELSE owner
  /\ loose' = loose \ {s}
  /\ UNCHANGED <<Heart, slotVars, heartVars, radioVars, missed, shown, stray>>

(* The terminal is deleted, by the cloud or by a controller (types 2, 4).  *)
DeleteTerminal ==
  /\ owner # None
  /\ owner' = None /\ shown' = FALSE /\ stray' = FALSE
  /\ UNCHANGED <<used, Heart, slotVars, heartVars, radioVars, loose, alive, missed>>

Die(s) ==
  /\ s \in alive
  /\ alive' = alive \ {s}
  /\ UNCHANGED <<used, Heart, slotVars, heartVars, radioVars, loose, missed, cloudVars>>

(* Marks that are being written to the flash, or may not be there.         *)
Unsaved ==
  loose \cup {s \in Slots : (pc \in {"up", "down"} /\ s = found)
                              \/ (rpc \in {"up", "learn"} /\ s = at)}

(* Power returns: LoadDevice2Memory.  What was being written may have got  *)
(* to the flash or not: a mark, a controller, a terminal and its binding.  *)
Restart ==
  /\ \E lost \in {{}, {s \in Slots : rpc = "learn" /\ s = at}} :
       /\ used' = used \ lost /\ alive' = alive \ lost
       /\ owner' \in {IF owner \in lost THEN Gone ELSE owner}
                      \cup IF rpc = "rest" /\ owner = at THEN {None, Gone} ELSE {}
  /\ Heart' \in {h \in [Slots -> {0, 1}] :
                  \A s \in Slots : /\ s \in used' \ Unsaved => h[s] = Heart[s]
                                   /\ s \notin used' => h[s] = 0}
  /\ HeartRecv' = [s \in Slots |-> 0]
  /\ HeartRetry' = [s \in Slots |-> 0] /\ HeartCount' = [s \in Slots |-> 0]
  /\ pc' = "pause" /\ num' = 1 /\ found' = None
  /\ rpc' = "idle" /\ at' = 1 /\ loose' = {}
  /\ shown' = (shown /\ owner' # None)
  /\ stray' = (shown' /\ (stray \/ owner' \in Unsaved))
  /\ missed' = [s \in Slots |-> 0]

-----------------------------------------------------------------------------
Init ==
  /\ used = Slots /\ alive = Slots
  /\ Heart \in [Slots -> {0, 1}]           \* as the last run left it
  /\ HeartRecv = [s \in Slots |-> 0]
  /\ HeartRetry = [s \in Slots |-> 0] /\ HeartCount = [s \in Slots |-> 0]
  /\ pc = "pause" /\ num = 1 /\ found = None
  /\ rpc = "idle" /\ at = 1 /\ loose = {}
  /\ missed = [s \in Slots |-> 0]
  /\ owner = 1 /\ shown \in {FALSE, Heart[1] = 1} /\ stray = FALSE

Next ==
  \/ heart_callback
  \/ rf_433_task \/ Bind \/ \E s \in Slots : Message(s) \/ Learn(s)
  \/ Heart_Request \/ DeleteTerminal \/ \E s \in Slots : Delete(s) \/ Die(s)
  \/ Restart

(* heart only ever sleeps for a set time, rf_433_task gets done with a     *)
(* message, and the power is not cut for ever.                             *)
Spec ==
  /\ Init /\ [][Next]_vars
  /\ WF_vars(heart_callback) /\ WF_vars(rf_433_task) /\ <>[][~Restart]_vars

-----------------------------------------------------------------------------
(* Properties.                                                             *)

(* A mark is taken back by heart_callback only after (RetryLimit + 1) *    *)
(* (CountLimit + 1) polls in a row of the slot it is polling were not      *)
(* answered in time, however messages, deletions, new controllers and a    *)
(* restart fall between them.  The polls are those of the slot: a new      *)
(* controller inherits what its predecessor missed, and when the one that  *)
(* is polled gets deleted, the mark goes to another empty slot, where one  *)
(* may just be learned.  Otherwise only a restart takes back a mark, one   *)
(* that had not reached the flash.                                         *)
OfflineOnlyWhenSilent ==
  [][\A s \in used : Heart[s] = 1 /\ Heart'[s] = 0 =>
       \/ s = found /\ missed[num] = Patience
       \/ Restart /\ s \in Unsaved]_vars

(* A controller that has died is noticed, also when others are deleted or  *)
(* learned while the thread waits for it.                                  *)
DeadIsNoticed ==
  \A s \in Slots : (s \in used \ alive) ~> (Heart[s] = 0 \/ s \notin used)

(* Flash_Set_Heart(ID, 1) has reported the terminals and not yet set the   *)
(* mark.                                                                   *)
ComingUp(s) == (rpc = "up" /\ at = s) \/ (pc = "up" /\ found = s)

(* The cloud does not show a terminal as online whose controller the       *)
(* gateway has marked offline, whatever of the two threads' steps the      *)
(* other's, the requests of the cloud, deletions and a restart come        *)
(* between.  Three things break it, and stray records them: Device_Up for  *)
(* a message of type 3 or 6, which does not ask for the mark; a report or  *)
(* a new controller between the report of GiveUp and its mark; a restart   *)
(* that finds the mark not yet in the flash.                               *)
ShownWithController ==
  owner \in used /\ Heart[owner] = 0 /\ shown => stray \/ ComingUp(owner)
=============================================================================
