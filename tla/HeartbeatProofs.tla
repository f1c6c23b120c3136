--------------------------- MODULE HeartbeatProofs ---------------------------
(***************************************************************************)
(* Proofs about the heartbeat, for any number of slots, repetitions,       *)
(* visits and restarts.                                                    *)
(***************************************************************************)
EXTENDS Heartbeat, WellFoundedInduction, TLAPS

(* The thread waits for, and marks, the controller of a slot.  It has      *)
(* looked for one only while it is marking it.                             *)
ThreadInv ==
  /\ pc \in {"wait", "up", "down"} => num \in Slots
  /\ (pc \in {"up", "down"}) <=> (found # None)

(* What HeartRetry and HeartCount stand for: so many polls in a row have   *)
(* been missed.                                                            *)
Polls(r, c) == r + c * (RetryLimit + 1)

MissedInv ==
  /\ \A s \in Slots : missed[s] = Patience \/ Polls(HeartRetry[s], HeartCount[s]) <= missed[s]
  /\ pc = "down" => missed[num] = Patience /\ HeartCount[num] = 0

(* A terminal that is shown as online while its controller is being marked *)
(* offline has been reported since; one that is not known is not shown.    *)
ShownInv ==
  /\ ShownWithController
  /\ owner \in used /\ GoingDown(owner) /\ shown => stray
  /\ owner = None => ~shown

-----------------------------------------------------------------------------
(* Bounded sets of numbers have a largest element.                         *)
LEMMA MaxIn ==
  ASSUME NEW n \in Nat, NEW S \in SUBSET (0 .. n), S # {}
  PROVE  Max(S) \in S
<1> DEFINE T == {n - x : x \in S}
<1>0. \A x \in S : x \in Nat /\ x <= n
  OBVIOUS
<1>1. T \subseteq Nat /\ T # {}
  <2>1. T \subseteq Nat
    BY <1>0
  <2>2. PICK s \in S : TRUE
    OBVIOUS
  <2>3. n - s \in T
    OBVIOUS
  <2> QED BY <2>1, <2>3, Zenon
<1>2. PICK x \in T : \A y \in T : ~ (<<y, x>> \in OpToRel(<, Nat))
  BY <1>1, WFMin, NatLessThanWellFounded, Zenon
<1>3. \A y \in T : ~ (y < x)
  BY <1>1, <1>2 DEF OpToRel
<1>4. PICK m \in S : x = n - m
  OBVIOUS
<1>5. \A y \in S : m >= y
  <2> TAKE y \in S
  <2>1. n - y \in T
    OBVIOUS
  <2> QED BY <1>0, <1>3, <1>4, <2>1
<1> QED BY <1>5 DEF Max

(* Flash_Set_Heart finds a slot, although the controller may be gone.      *)
LEMMA HolderIn ==
  ASSUME TypeOK, NEW n \in Slots
  PROVE  Holder(n) \in Slots
<1> USE HeartbeatAssumption DEF TypeOK, Slots
<1>1. CASE n \in used
  BY <1>1 DEF Holder
<1>2. CASE n \notin used
  <2>0. Slots \subseteq 0 .. Num /\ Num \in Nat
    OBVIOUS
  <2>1. Slots \ used \in SUBSET (0 .. Num) /\ Slots \ used # {}
    BY <1>2, <2>0, Zenon
  <2>2. Max(Slots \ used) \in Slots \ used
    BY <2>1, MaxIn
  <2> QED BY <1>2, <2>2 DEF Holder
<1> QED BY <1>1, <1>2

(* Slots and their successors.                                             *)
LEMMA SlotNumbers ==
  /\ None \notin Slots /\ Gone \notin Slots /\ None # Gone /\ 1 \in Slots /\ 1 \in 1 .. Num + 1
  /\ \A s \in Slots : s \in 1 .. Num + 1 /\ s + 1 \in 1 .. Num + 1
BY HeartbeatAssumption DEF Slots, None, Gone

LEMMA LimitsNat == RetryLimit \in Nat /\ CountLimit \in Nat
BY HeartbeatAssumption

LEMMA PatienceNat == Patience \in Nat /\ Patience >= 1
<1>1. RetryLimit \in Nat /\ CountLimit \in Nat
  BY LimitsNat
<1>2. \A a, b \in Nat : (a + 1) * (b + 1) \in Nat /\ (a + 1) * (b + 1) >= 1
  <2> SUFFICES ASSUME NEW a \in Nat, NEW b \in Nat
               PROVE  (a + 1) * (b + 1) \in Nat /\ (a + 1) * (b + 1) >= 1
    OBVIOUS
  <2>1. a * b \in Nat
    OBVIOUS
  <2>2. (a + 1) * (b + 1) = a * b + a + b + 1
    OBVIOUS
  <2> QED BY <2>1, <2>2
<1> QED BY <1>1, <1>2 DEF Patience

-----------------------------------------------------------------------------
(* Reports keep their types.                                               *)
LEMMA ReportTyped ==
  ASSUME TypeOK, NEW s, NEW up \in BOOLEAN, Report(s, up) \/ NoReport
  PROVE  shown' \in BOOLEAN /\ stray' \in BOOLEAN
<1>1. shown \in BOOLEAN /\ stray \in BOOLEAN
  BY DEF TypeOK
<1>2. CASE Report(s, up)
  BY <1>1, <1>2 DEF Report
<1>3. CASE NoReport
  BY <1>1, <1>3 DEF NoReport
<1> QED BY <1>2, <1>3

LEMMA TerminalsTyped ==
  ASSUME TypeOK, NEW s, TerminalsUp(s) \/ NoReport
  PROVE  shown' \in BOOLEAN /\ stray' \in BOOLEAN
BY ReportTyped DEF TerminalsUp

(* The thread keeps the types.                                             *)
LEMMA CallbackTyped ==
  TypeOK /\ ThreadInv /\ heart_callback => TypeOK' /\ ThreadInv'
<1> SUFFICES ASSUME TypeOK, ThreadInv, heart_callback
             PROVE  TypeOK' /\ ThreadInv'
  OBVIOUS
<1> USE LimitsNat, PatienceNat, SlotNumbers
<1> USE DEF TypeOK, ThreadInv, None, slotVars, cloudVars, radioVars
<1>1. CASE Wake
  BY <1>1 DEF Wake
<1>2. CASE EndOfSweep
  BY <1>2 DEF EndOfSweep
<1>3. CASE SkipSlot
  BY <1>3 DEF SkipSlot
<1>4. CASE Poll
  BY <1>4 DEF Poll
<1>5. CASE Answered
  <2>0. num \in Slots /\ found = None
    BY <1>5 DEF Answered
  <2>1. Holder(num) \in Slots
    BY <2>0, HolderIn
  <2>2. shown' \in BOOLEAN /\ stray' \in BOOLEAN
    BY <1>5, TerminalsTyped DEF Answered
  <2>3. /\ HeartCount' \in [Slots -> 0 .. CountLimit]
        /\ HeartRetry' \in [Slots -> 0 .. RetryLimit]
        /\ missed' \in [Slots -> 0 .. Patience]
    BY <1>5, <2>0 DEF Answered
  <2>4. HeartRecv' \in [Slots -> {0, 1}]
    BY <1>5, <2>1 DEF Answered
  <2>5. \/ num' = num + 1 /\ pc' = "poll" /\ found' = None
        \/ num' = num /\ pc' = "up" /\ found' \in Slots
    BY <1>5, <2>0, <2>1 DEF Answered
  <2>6. num' \in 1 .. Num + 1 /\ found' \in Slots \cup {None} /\ ThreadInv'
    BY <2>0, <2>5
  <2> QED BY <1>5, <2>2, <2>3, <2>4, <2>5, <2>6 DEF Answered
<1>6. CASE MarkOnline
  BY <1>6 DEF MarkOnline
<1>7. ASSUME Silent
      PROVE  /\ num \in Slots /\ pc = "wait" /\ found = None
             /\ used' \subseteq Slots /\ alive' \subseteq used' /\ Heart' \in [Slots -> {0, 1}]
             /\ HeartRecv' \in [Slots -> {0, 1}] /\ owner' \in used' \cup {None, Gone}
             /\ rpc' \in {"idle", "up", "rest", "learn"} /\ at' \in Slots
  BY <1>7 DEF Silent
<1>8. ASSUME Silent, Missed
      PROVE  missed' \in [Slots -> 0 .. Patience]
  BY <1>8 DEF Silent, Missed
<1>9. CASE Retry
  BY <1>7, <1>8, <1>9 DEF Retry, NoReport
<1>10. CASE NextVisit
  BY <1>7, <1>8, <1>10 DEF NextVisit, NoReport
<1>11. CASE StillOffline
  BY <1>7, <1>11 DEF StillOffline, LastVisit, NoReport
<1>12. CASE GiveUp
  <2>1. Silent
    BY <1>12 DEF GiveUp, LastVisit
  <2>2. Holder(num) \in Slots
    BY <1>7, <2>1, HolderIn
  <2>3. shown' \in BOOLEAN /\ stray' \in BOOLEAN
    BY <1>12, ReportTyped DEF GiveUp
  <2>4. missed' \in [Slots -> 0 .. Patience]
    BY <1>8, <1>12, <2>1 DEF GiveUp
  <2>5. HeartCount' \in [Slots -> 0 .. CountLimit] /\ UNCHANGED <<HeartRetry, num, loose>>
    BY <1>7, <1>12, <2>1 DEF GiveUp
  <2>6. pc' = "down" /\ found' \in Slots
    BY <1>12, <2>2 DEF GiveUp
  <2> QED BY <1>7, <2>1, <2>3, <2>4, <2>5, <2>6
<1>13. CASE MarkOffline
  BY <1>13 DEF MarkOffline
<1> QED BY <1>1, <1>2, <1>3, <1>4, <1>5, <1>6, <1>9, <1>10, <1>11, <1>12, <1>13
      DEF heart_callback

(* So does rf_433_task.                                                    *)
LEMMA HeardTyped ==
  ASSUME TypeOK, ThreadInv, NEW s \in Slots, Heard(s)
  PROVE  TypeOK' /\ ThreadInv'
<1>1. shown' \in BOOLEAN /\ stray' \in BOOLEAN
  BY TerminalsTyped DEF Heard
<1>2. HeartRecv' \in [Slots -> {0, 1}] /\ rpc' \in {"up", "rest"} /\ at' \in Slots
  BY DEF Heard, TypeOK
<1> QED BY <1>1, <1>2 DEF Heard, TypeOK, ThreadInv, heartVars

LEMMA RadioTyped ==
  ASSUME TypeOK, ThreadInv, rf_433_task \/ Bind \/ \E s \in Slots : Message(s) \/ Learn(s)
  PROVE  TypeOK' /\ ThreadInv'
<1> USE SlotNumbers DEF TypeOK, ThreadInv, slotVars, heartVars, radioVars, cloudVars,
                        restUnchanged
<1>1. ASSUME NEW s \in Slots, Message(s) \/ (Learned /\ s = at)
      PROVE  TypeOK' /\ ThreadInv'
  BY <1>1, HeardTyped DEF Message, Learned
<1>2. CASE MarkUp
  BY <1>2 DEF MarkUp
<1>3. CASE HearTerminal
  BY <1>3 DEF HearTerminal
<1>4. CASE Announce
  <2>1. shown' \in BOOLEAN /\ stray' \in BOOLEAN
    BY <1>4 DEF Announce
  <2> QED BY <1>4, <2>1 DEF Announce
<1>5. CASE Bind
  BY <1>5 DEF Bind
<1>6. ASSUME NEW s \in Slots, Learn(s)
      PROVE  TypeOK' /\ ThreadInv'
  <2>1. stray' \in BOOLEAN
    BY <1>6 DEF Learn
  <2>2. used' \subseteq Slots /\ alive' \subseteq used' /\ loose' \subseteq Slots
    BY <1>6 DEF Learn
  <2>3. owner' \in used' \cup {None, Gone}
    BY <1>6 DEF Learn
  <2> QED BY <1>6, <2>1, <2>2, <2>3 DEF Learn
<1> QED BY <1>1, <1>2, <1>3, <1>4, <1>5, <1>6 DEF rf_433_task

(* So do the other threads, the controllers and a restart.                 *)
LEMMA OthersTyped ==
  TypeOK /\ ThreadInv /\ [Next]_vars /\ ~heart_callback => TypeOK' /\ ThreadInv'
<1> SUFFICES ASSUME TypeOK, ThreadInv, [Next]_vars, ~heart_callback
             PROVE  TypeOK' /\ ThreadInv'
  OBVIOUS
<1> USE LimitsNat, PatienceNat, SlotNumbers
<1> USE DEF TypeOK, ThreadInv, slotVars, cloudVars, heartVars, radioVars
<1>1. ASSUME NEW s \in Slots, Delete(s)
      PROVE  TypeOK' /\ ThreadInv'
  BY <1>1 DEF Delete
<1>2. ASSUME NEW s \in Slots, Die(s)
      PROVE  TypeOK' /\ ThreadInv'
  BY <1>2 DEF Die
<1>3. CASE Heart_Request
  <2>1. shown' \in BOOLEAN /\ stray' \in BOOLEAN
    BY <1>3, ReportTyped DEF Heart_Request
  <2> QED BY <1>3, <2>1 DEF Heart_Request
<1>4. CASE DeleteTerminal
  BY <1>4 DEF DeleteTerminal
<1>5. CASE Restart
  <2>1. Heart' \in [Slots -> {0, 1}]
    BY <1>5 DEF Restart
  <2>2. used' \subseteq Slots /\ alive' \subseteq used' /\ owner' \in used' \cup {None, Gone}
    BY <1>5 DEF Restart
  <2>3. shown' \in BOOLEAN /\ stray' \in BOOLEAN
    BY <1>5 DEF Restart
  <2>4. num' \in 1 .. Num + 1 /\ at' \in Slots /\ loose' \subseteq Slots
    BY <1>5 DEF Restart
  <2> QED BY <1>5, <2>1, <2>2, <2>3, <2>4 DEF Restart
<1>6. CASE UNCHANGED vars
  BY <1>6 DEF vars
<1> QED BY <1>1, <1>2, <1>3, <1>4, <1>5, <1>6, RadioTyped DEF Next

(* At the start.                                                           *)
LEMMA StartTyped == Init => TypeOK /\ ThreadInv
<1> SUFFICES ASSUME Init PROVE TypeOK /\ ThreadInv
  OBVIOUS
<1>1. shown \in BOOLEAN /\ stray \in BOOLEAN
  BY DEF Init
<1> QED BY <1>1, LimitsNat, PatienceNat, SlotNumbers DEF Init, TypeOK, ThreadInv, None

LEMMA Typed == Spec => [](TypeOK /\ ThreadInv)
<1>1. TypeOK /\ ThreadInv /\ [Next]_vars => (TypeOK /\ ThreadInv)'
  BY CallbackTyped, OthersTyped
<1> QED BY <1>1, StartTyped, PTL DEF Spec

(* The counts of every slot stay below the limits at which heart_callback  *)
(* acts on them, the thread stays inside the registry, and Flash_Set_Heart *)
(* finds a slot, whoever is deleted, learned or heard during its waits.    *)
THEOREM HeartTypeCorrect == Spec => []TypeOK
BY Typed, PTL
-----------------------------------------------------------------------------
(* A step that only sets marks, of controllers that are not being marked   *)
(* offline, leaves the reports in step with them.                          *)
LEMMA MarksShown ==
  ASSUME TypeOK, ShownInv, UNCHANGED <<owner, shown, stray>>,
         owner \in used' => /\ owner \in used
                            /\ Heart'[owner] = 0 => Heart[owner] = 0
                            /\ ComingUp(owner) => ComingUp(owner)' \/ Heart'[owner] = 1
                            /\ GoingDown(owner)' => GoingDown(owner)
  PROVE  ShownInv'
<1> DEFINE Off == Heart[owner] = 0
<1> DEFINE Off1 == Heart'[owner] = 0
<1>1. Off1 => Heart'[owner] # 1
  OBVIOUS
<1>2. owner \in used' /\ Off1 /\ shown => stray \/ ComingUp(owner)'
  BY <1>1 DEF ShownInv, ShownWithController
<1>3. ShownWithController'
  BY <1>2 DEF ShownWithController, ComingUp
<1>4. (owner \in used /\ GoingDown(owner) /\ shown => stray)'
  BY DEF ShownInv, GoingDown
<1>5. (owner = None => ~shown)'
  BY DEF ShownInv
<1> QED BY <1>3, <1>4, <1>5 DEF ShownInv

(* The same for a step that leaves the marks and both threads' places.     *)
LEMMA StayShown ==
  ASSUME ShownInv, UNCHANGED <<used, Heart, found, rpc, at, owner, shown, stray>>,
         pc' = pc \/ (pc \notin {"up", "down"} /\ pc' \notin {"up", "down"})
  PROVE  ShownInv'
BY DEF ShownInv, ShownWithController, ComingUp, GoingDown

(* Flash_Set_Heart(ID, 1) up to the write, in either thread.               *)
LEMMA HeardShown ==
  ASSUME TypeOK, ThreadInv, ShownInv, NEW s \in Slots, Heard(s), rpc \notin {"up"}
  PROVE  ShownInv'
<1> USE DEF heartVars
<1>1. UNCHANGED <<used, Heart, pc, found, owner>> /\ rpc' \in {"up", "rest"} /\ at' = s
  BY DEF Heard
<1>2. CASE NoReport
  BY <1>1, <1>2 DEF NoReport, ShownInv, ShownWithController, ComingUp, GoingDown
<1>3. CASE ~NoReport
  <2>1. s = owner /\ Report(s, TRUE) /\ rpc' = "up"
    BY <1>3 DEF Heard, TerminalsUp
  <2>2. ComingUp(owner)'
    BY <1>1, <2>1 DEF ComingUp
  <2>3. GoingDown(owner)' => stray'
    BY <1>1, <2>1 DEF Report, GoingDown
  <2>4. owner' # None
    BY <1>1, <2>1, SlotNumbers
  <2> QED BY <2>2, <2>3, <2>4 DEF ShownInv, ShownWithController
<1> QED BY <1>2, <1>3

(* Every step of the thread keeps the reports in step with the marks.      *)
LEMMA CallbackShown ==
  TypeOK /\ ThreadInv /\ ShownInv /\ heart_callback => ShownInv'
<1> SUFFICES ASSUME TypeOK, ThreadInv, ShownInv, heart_callback
             PROVE  ShownInv'
  OBVIOUS
<1> USE DEF slotVars, cloudVars, radioVars
<1>1. CASE Wake \/ EndOfSweep \/ SkipSlot \/ Poll
  BY <1>1, StayShown DEF Wake, EndOfSweep, SkipSlot, Poll
<1>2. CASE Retry \/ NextVisit \/ StillOffline
  BY <1>2, StayShown DEF Retry, NextVisit, StillOffline, LastVisit, Silent, NoReport
<1>3. CASE Answered
  <2>1. /\ pc = "wait" /\ num \in Slots /\ UNCHANGED <<used, Heart, rpc, at, owner>>
        /\ pc' \in {"poll", "up"}
    BY <1>3 DEF Answered, ThreadInv
  <2>2. Holder(num) \in Slots
    BY <2>1, HolderIn
  <2>3. CASE NoReport
    BY <2>1, <2>3 DEF NoReport, ShownInv, ShownWithController, ComingUp, GoingDown
  <2>4. CASE ~NoReport
    <3>1. Holder(num) = owner /\ Report(owner, TRUE) /\ pc' = "up" /\ found' = owner
      BY <1>3, <2>4 DEF Answered, TerminalsUp
    <3>2. ComingUp(owner)' /\ ~GoingDown(owner)'
      BY <2>1, <3>1 DEF ComingUp, GoingDown
    <3>3. owner' # None
      BY <2>1, <2>2, <3>1, SlotNumbers
    <3> QED BY <3>2, <3>3 DEF ShownInv, ShownWithController
  <2> QED BY <2>3, <2>4
<1>4. CASE MarkOnline
  <2>1. /\ UNCHANGED <<used, owner, shown, stray, rpc, at>> /\ pc = "up" /\ pc' = "poll"
        /\ Heart' = [Heart EXCEPT ![found] = 1]
    BY <1>4 DEF MarkOnline
  <2>2. ASSUME owner \in used
        PROVE  Heart'[owner] = IF owner = found THEN 1 ELSE Heart[owner]
    BY <2>1, <2>2 DEF TypeOK
  <2>3. ComingUp(owner) => ComingUp(owner)' \/ owner = found
    BY <2>1 DEF ComingUp
  <2>4. ~GoingDown(owner)'
    BY <2>1 DEF GoingDown
  <2> QED BY <2>1, <2>2, <2>3, <2>4, MarksShown
<1>5. CASE GiveUp
  <2>1. /\ UNCHANGED <<used, Heart, rpc, at, owner>> /\ found' = Holder(num)
        /\ pc = "wait" /\ pc' = "down"
    BY <1>5 DEF GiveUp, LastVisit, Silent
  <2>2. CASE Holder(num) = owner
    <3>1. shown' = FALSE
      BY <1>5, <2>2 DEF GiveUp, Report
    <3> QED BY <3>1 DEF ShownInv, ShownWithController
  <2>3. CASE Holder(num) # owner
    <3>1. UNCHANGED <<shown, stray>> /\ ~GoingDown(owner)'
      BY <1>5, <2>1, <2>3 DEF GiveUp, NoReport, GoingDown
    <3>2. ComingUp(owner) => ComingUp(owner)'
      BY <2>1 DEF ComingUp
    <3> QED BY <2>1, <3>1, <3>2, MarksShown
  <2> QED BY <2>2, <2>3
<1>6. CASE MarkOffline
  <2>1. /\ UNCHANGED <<used, owner, shown, stray, rpc, at>> /\ pc = "down" /\ pc' = "poll"
        /\ Heart' = [Heart EXCEPT ![found] = 0]
    BY <1>6 DEF MarkOffline
  <2>2. ComingUp(owner) => ComingUp(owner)'
    BY <2>1 DEF ComingUp
  <2>3. ~GoingDown(owner)'
    BY <2>1 DEF GoingDown
  <2>4. CASE owner = found /\ owner \in used
    <3>1. shown => stray
      BY <2>1, <2>4 DEF ShownInv, GoingDown
    <3>2. owner # None
      BY <2>4, SlotNumbers DEF TypeOK
    <3> QED BY <2>1, <2>3, <3>1, <3>2 DEF ShownInv, ShownWithController
  <2>5. CASE owner # found \/ owner \notin used
    <3>1. owner \in used => Heart'[owner] = Heart[owner]
      BY <2>1, <2>5 DEF TypeOK
    <3> QED BY <2>1, <2>2, <2>3, <3>1, MarksShown
  <2> QED BY <2>4, <2>5
<1> QED BY <1>1, <1>2, <1>3, <1>4, <1>5, <1>6 DEF heart_callback

(* So does every step of rf_433_task.                                      *)
LEMMA RadioShown ==
  ASSUME TypeOK, ThreadInv, ShownInv,
         rf_433_task \/ Bind \/ \E s \in Slots : Message(s) \/ Learn(s)
  PROVE  ShownInv'
<1> USE DEF slotVars, cloudVars, radioVars, heartVars, restUnchanged
<1>1. ASSUME NEW s \in Slots, Message(s)
      PROVE  ShownInv'
  BY <1>1, HeardShown DEF Message
<1>2. CASE Learned
  <2>1. at \in Slots
    BY DEF TypeOK
  <2> QED BY <1>2, <2>1, HeardShown DEF Learned
<1>3. CASE MarkUp
  <2>1. /\ UNCHANGED <<used, owner, shown, stray, pc, found>>
        /\ rpc = "up" /\ Heart' = [Heart EXCEPT ![at] = 1]
    BY <1>3 DEF MarkUp
  <2>2. ASSUME owner \in used
        PROVE  Heart'[owner] = IF owner = at THEN 1 ELSE Heart[owner]
    BY <2>1, <2>2 DEF TypeOK
  <2>3. ComingUp(owner) => ComingUp(owner)' \/ owner = at
    BY <2>1 DEF ComingUp
  <2>4. GoingDown(owner)' => GoingDown(owner)
    BY <2>1 DEF GoingDown
  <2> QED BY <2>1, <2>2, <2>3, <2>4, MarksShown
<1>4. CASE HearTerminal
  BY <1>4 DEF HearTerminal, ShownInv, ShownWithController, ComingUp, GoingDown
<1>5. CASE Announce
  <2>1. UNCHANGED <<used, owner, pc, found, Heart>> /\ owner # None
        /\ stray' = (owner \in used /\ (Heart[owner] = 0 \/ GoingDown(owner)))
    BY <1>5 DEF Announce
  <2>2. owner \in used /\ (Heart[owner] = 0 \/ GoingDown(owner)) => stray'
    BY <2>1
  <2>3. GoingDown(owner)' <=> GoingDown(owner)
    BY <2>1 DEF GoingDown
  <2> QED BY <2>1, <2>2, <2>3 DEF ShownInv, ShownWithController
<1>6. CASE Bind
  <2>1. shown' = FALSE
    <3>1. owner = None /\ shown' = shown
      BY <1>6 DEF Bind
    <3>2. shown \in BOOLEAN
      BY DEF TypeOK
    <3> QED BY <3>1, <3>2 DEF ShownInv
  <2> QED BY <2>1 DEF ShownInv, ShownWithController
<1>7. ASSUME NEW s \in Slots, Learn(s)
      PROVE  ShownInv'
  <2>1. /\ s \notin used /\ UNCHANGED <<pc, found, shown>> /\ used' = used \cup {s}
        /\ rpc = "idle" /\ Heart' = [Heart EXCEPT ![s] = 1] /\ rpc' = "learn"
        /\ stray' = (stray \/ (owner' = s /\ GoingDown(s)))
        /\ owner' = owner \/ (owner = Gone /\ owner' = s)
    BY <1>7 DEF Learn
  <2>2. CASE owner' = s
    <3>1. Heart'[owner'] = 1 /\ owner' # None
      BY <2>1, <2>2, SlotNumbers DEF TypeOK
    <3>2. GoingDown(owner)' => stray'
      BY <2>1, <2>2 DEF GoingDown
    <3> QED BY <3>1, <3>2 DEF ShownInv, ShownWithController
  <2>3. CASE owner' # s
    <3>1. owner' = owner /\ (owner \in used' => owner \in used)
      BY <2>1, <2>3
    <3>2. UNCHANGED <<owner, shown, stray>>
      <4>1. stray \in BOOLEAN
        BY DEF TypeOK
      <4> QED BY <2>1, <2>3, <3>1, <4>1, Zenon
    <3>3. owner \in used => Heart'[owner] = Heart[owner]
      BY <2>1, <2>3, <3>1 DEF TypeOK
    <3>4. ComingUp(owner) => ComingUp(owner)'
      BY <2>1, <3>1 DEF ComingUp
    <3>5. GoingDown(owner)' => GoingDown(owner)
      BY <2>1, <3>1 DEF GoingDown
    <3> QED BY <3>1, <3>2, <3>3, <3>4, <3>5, MarksShown
  <2> QED BY <2>2, <2>3
<1> QED BY <1>1, <1>2, <1>3, <1>4, <1>5, <1>6, <1>7 DEF rf_433_task

(* So do deletions, requests of the cloud and a restart.                   *)
LEMMA OthersShown ==
  TypeOK /\ ThreadInv /\ ShownInv /\ [Next]_vars /\ ~heart_callback => ShownInv'
<1> SUFFICES ASSUME TypeOK, ThreadInv, ShownInv, [Next]_vars, ~heart_callback
             PROVE  ShownInv'
  OBVIOUS
<1> USE DEF slotVars, cloudVars, heartVars, radioVars
<1>1. ASSUME NEW s \in Slots, Delete(s)
      PROVE  ShownInv'
  <2>1. UNCHANGED <<Heart, pc, found, rpc, at, shown, stray>> /\ used' = used \ {s}
    BY <1>1 DEF Delete
  <2>2. CASE s = owner
    <3>1. owner' \notin used' /\ owner' # None
      BY <1>1, <2>1, <2>2, SlotNumbers DEF Delete, TypeOK
    <3> QED BY <3>1 DEF ShownInv, ShownWithController
  <2>3. CASE s # owner
    <3>1. owner' = owner
      BY <1>1, <2>3 DEF Delete
    <3> QED BY <2>1, <3>1 DEF ShownInv, ShownWithController, ComingUp, GoingDown
  <2> QED BY <2>2, <2>3
<1>2. CASE Heart_Request
  <2>1. UNCHANGED <<used, Heart, owner, pc, found>> /\ owner \in used /\ Heart[owner] = 1
    BY <1>2 DEF Heart_Request
  <2>2. PICK up \in BOOLEAN : Report(owner, up)
    BY <1>2 DEF Heart_Request
  <2>3. shown' /\ GoingDown(owner)' => stray'
    BY <2>1, <2>2 DEF Report, GoingDown
  <2>4. Heart'[owner'] = 1 /\ owner' # None
    BY <2>1, SlotNumbers DEF TypeOK
  <2> QED BY <2>3, <2>4 DEF ShownInv, ShownWithController
<1>3. CASE DeleteTerminal
  BY <1>3 DEF DeleteTerminal, ShownInv, ShownWithController
<1>4. CASE Restart
  <2>1. /\ pc' = "pause" /\ shown' = (shown /\ owner' # None)
        /\ stray' = (shown' /\ (stray \/ owner' \in Unsaved))
    BY <1>4 DEF Restart
  <2>2. ~GoingDown(owner)' /\ (owner' = None => ~shown')
    BY <2>1 DEF GoingDown
  <2>3. ASSUME owner' \in used', Heart'[owner'] = 0, shown'
        PROVE  stray'
    <3>1. owner' = owner /\ owner \in used /\ owner \in Slots
      BY <1>4, <2>3, SlotNumbers DEF Restart, TypeOK
    <3>2. CASE owner \in Unsaved
      BY <2>1, <2>3, <3>1, <3>2
    <3>3. CASE owner \notin Unsaved
      <4>1. Heart'[owner] = Heart[owner]
        BY <1>4, <2>3, <3>1, <3>3 DEF Restart
      <4>2. ~ComingUp(owner)
        BY <3>1, <3>3 DEF ComingUp, Unsaved
      <4>3. shown
        BY <2>1, <2>3
      <4>4. stray
        BY <2>3, <3>1, <4>1, <4>2, <4>3 DEF ShownInv, ShownWithController
      <4> QED BY <2>1, <2>3, <4>4
    <3> QED BY <3>2, <3>3
  <2> QED BY <2>2, <2>3 DEF ShownInv, ShownWithController
<1>5. CASE UNCHANGED <<used, Heart, pc, found, rpc, at, owner, shown, stray>>
  BY <1>5, StayShown
<1> QED BY <1>1, <1>2, <1>3, <1>4, <1>5, RadioShown DEF Next, Die, vars

(* Heart_Upload, Heart_Request, synchronisation and the heartbeat itself   *)
(* report terminals as online and offline in any order and around writes   *)
(* of the flash: the cloud never keeps showing one online whose controller *)
(* is marked offline, but for the three cases that stray stands for and    *)
(* between the report of Flash_Set_Heart(ID, 1) and its mark.              *)
THEOREM HeartShown == Spec => []ShownWithController
<1>1. Init => ShownInv
  <2> SUFFICES ASSUME Init PROVE ShownInv
    OBVIOUS
  <2>1. owner = 1 /\ pc = "pause" /\ (shown = FALSE \/ shown = (Heart[1] = 1))
    BY DEF Init
  <2>2. Heart[1] = 0 => ~(Heart[1] = 1)
    OBVIOUS
  <2>3. Heart[1] = 0 => ~shown
    BY <2>1, <2>2, Zenon
  <2> QED BY <2>1, <2>3, SlotNumbers DEF ShownInv, ShownWithController, GoingDown, None
<1>2. TypeOK /\ ThreadInv /\ ShownInv /\ [Next]_vars => ShownInv'
  BY CallbackShown, OthersShown
<1>3. ShownInv => ShownWithController
  BY DEF ShownInv
<1> QED BY <1>1, <1>2, <1>3, Typed, PTL DEF Spec

-----------------------------------------------------------------------------
(* One more visit weighs as much as RetryLimit + 1 polls.                  *)
LEMMA Visits ==
  ASSUME NEW c \in Nat
  PROVE  /\ c * (RetryLimit + 1) \in Nat
         /\ (c + 1) * (RetryLimit + 1) = RetryLimit + c * (RetryLimit + 1) + 1
<1>1. \A a, b \in Nat : a * b \in Nat /\ (a + 1) * b = a * b + b
  OBVIOUS
<1>2. RetryLimit + 1 \in Nat
  BY LimitsNat
<1>3. c * (RetryLimit + 1) \in Nat /\ (c + 1) * (RetryLimit + 1) = c * (RetryLimit + 1) + (RetryLimit + 1)
  BY <1>1, <1>2
<1> QED BY <1>3, LimitsNat

LEMMA FullPatience == Patience = RetryLimit + CountLimit * (RetryLimit + 1) + 1
<1>1. \A a, b \in Nat : (a + 1) * (b + 1) = (b + 1) * (a + 1)
  OBVIOUS
<1> QED BY <1>1, Visits, LimitsNat DEF Patience

(* A poll that stays unanswered adds one to what was missed.               *)
LEMMA SilentMissed ==
  ASSUME TypeOK, ThreadInv, MissedInv, Silent, Missed
  PROVE  /\ num \in Slots
         /\ \A s \in Slots : s # num => missed'[s] = missed[s]
         /\ missed'[num] = Patience \/ Polls(HeartRetry[num], HeartCount[num]) + 1 <= missed'[num]
<1>1. num \in Slots
  BY DEF Silent, ThreadInv
<1>2. missed' = [missed EXCEPT ![num] = IF @ < Patience THEN @ + 1 ELSE @]
  BY DEF Missed
<1>3. missed[num] \in 0 .. Patience /\ (missed[num] = Patience \/ Polls(HeartRetry[num], HeartCount[num]) <= missed[num])
  BY <1>1 DEF TypeOK, MissedInv
<1>4. Polls(HeartRetry[num], HeartCount[num]) \in Nat
  BY <1>1, Visits, LimitsNat DEF TypeOK, Polls
<1>5. missed'[num] = IF missed[num] < Patience THEN missed[num] + 1 ELSE missed[num]
  BY <1>1, <1>2 DEF TypeOK
<1>6. \A s \in Slots : s # num => missed'[s] = missed[s]
  BY <1>2 DEF TypeOK
<1> QED BY <1>1, <1>3, <1>4, <1>5, <1>6, PatienceNat

(* What a step that changes only the counts of slot num has to show.       *)
LEMMA OnlyNum ==
  ASSUME TypeOK, TypeOK', MissedInv, num \in Slots,
         \A s \in Slots : s # num => missed'[s] = missed[s] /\ HeartRetry'[s] = HeartRetry[s]
                                     /\ HeartCount'[s] = HeartCount[s],
         missed'[num] = Patience \/ Polls(HeartRetry'[num], HeartCount'[num]) <= missed'[num],
         pc' # "down" \/ (num' = num /\ missed'[num] = Patience /\ HeartCount'[num] = 0)
  PROVE  MissedInv'
BY DEF MissedInv, Polls, Patience

(* A visit that does not count weighs nothing.                             *)
LEMMA NoneMissed ==
  ASSUME TypeOK', NEW s \in Slots, HeartRetry'[s] = 0, HeartCount'[s] = 0
  PROVE  Polls(HeartRetry'[s], HeartCount'[s]) <= missed'[s]
<1>1. Polls(HeartRetry'[s], HeartCount'[s]) = 0
  BY Visits, LimitsNat DEF Polls
<1> QED BY <1>1 DEF TypeOK

LEMMA CallbackMissed ==
  TypeOK /\ ThreadInv /\ MissedInv /\ heart_callback => MissedInv'
<1> SUFFICES ASSUME TypeOK, ThreadInv, MissedInv, heart_callback
             PROVE  MissedInv'
  OBVIOUS
<1>0. TypeOK'
  BY CallbackTyped
<1>1. CASE UNCHANGED <<missed, HeartRetry, HeartCount>> /\ pc' # "down"
  BY <1>1 DEF MissedInv, Polls
<1>2. CASE Answered
  <2>1. num \in Slots
    BY <1>2 DEF Answered, ThreadInv
  <2>2. HeartRetry'[num] = 0 /\ HeartCount'[num] = 0
    BY <1>2, <2>1 DEF Answered, TypeOK
  <2>3. Polls(HeartRetry'[num], HeartCount'[num]) <= missed'[num]
    BY <1>0, <2>1, <2>2, NoneMissed
  <2>4. \A s \in Slots : s # num => missed'[s] = missed[s] /\ HeartRetry'[s] = HeartRetry[s]
                                     /\ HeartCount'[s] = HeartCount[s]
    BY <1>2, <2>1 DEF Answered, TypeOK
  <2>5. pc' # "down"
    BY <1>2 DEF Answered
  <2> QED BY <1>0, <2>1, <2>3, <2>4, <2>5, OnlyNum
<1>3. CASE Retry
  <2>1. Silent /\ Missed /\ pc' # "down" /\ HeartRetry' = [HeartRetry EXCEPT ![num] = @ + 1]
        /\ UNCHANGED HeartCount
    BY <1>3 DEF Retry
  <2>2. /\ num \in Slots /\ \A s \in Slots : s # num => missed'[s] = missed[s]
        /\ missed'[num] = Patience \/ Polls(HeartRetry[num], HeartCount[num]) + 1 <= missed'[num]
    BY <2>1, SilentMissed
  <2>3. Polls(HeartRetry'[num], HeartCount'[num]) = Polls(HeartRetry[num], HeartCount[num]) + 1
    BY <2>1, <2>2, Visits, LimitsNat DEF Polls, TypeOK
  <2>4. \A s \in Slots : s # num => HeartRetry'[s] = HeartRetry[s]
    BY <2>1, <2>2 DEF TypeOK
  <2> QED BY <1>0, <2>1, <2>2, <2>3, <2>4, OnlyNum
<1>4. CASE NextVisit
  <2>1. /\ Silent /\ Missed /\ pc' # "down" /\ HeartRetry' = [HeartRetry EXCEPT ![num] = 0]
        /\ HeartCount' = [HeartCount EXCEPT ![num] = @ + 1] /\ HeartRetry[num] >= RetryLimit
    BY <1>4 DEF NextVisit
  <2>2. /\ num \in Slots /\ \A s \in Slots : s # num => missed'[s] = missed[s]
        /\ missed'[num] = Patience \/ Polls(HeartRetry[num], HeartCount[num]) + 1 <= missed'[num]
    BY <2>1, SilentMissed
  <2>3. HeartRetry[num] = RetryLimit /\ HeartCount[num] \in Nat
    BY <2>1, <2>2, LimitsNat DEF TypeOK
  <2>4. HeartRetry'[num] = 0 /\ HeartCount'[num] = HeartCount[num] + 1
    BY <2>1, <2>2 DEF TypeOK
  <2>5. Polls(HeartRetry'[num], HeartCount'[num]) = (HeartCount[num] + 1) * (RetryLimit + 1)
    BY <2>3, <2>4, LimitsNat DEF Polls
  <2>6. Polls(HeartRetry'[num], HeartCount'[num]) = Polls(HeartRetry[num], HeartCount[num]) + 1
    BY <2>3, <2>5, Visits DEF Polls
  <2>7. \A s \in Slots : s # num => HeartRetry'[s] = HeartRetry[s] /\ HeartCount'[s] = HeartCount[s]
    BY <2>1, <2>2 DEF TypeOK
  <2> QED BY <1>0, <2>1, <2>2, <2>6, <2>7, OnlyNum
<1>5. ASSUME LastVisit, Missed
      PROVE  /\ num \in Slots /\ \A s \in Slots : s # num => missed'[s] = missed[s]
             /\ missed'[num] = Patience
  <2>1. Silent /\ Missed /\ HeartRetry[num] >= RetryLimit /\ HeartCount[num] >= CountLimit
    BY <1>5 DEF LastVisit
  <2>2. /\ num \in Slots /\ \A s \in Slots : s # num => missed'[s] = missed[s]
        /\ missed'[num] = Patience \/ Polls(HeartRetry[num], HeartCount[num]) + 1 <= missed'[num]
    BY <2>1, SilentMissed
  <2>3. HeartRetry[num] = RetryLimit /\ HeartCount[num] = CountLimit
    BY <2>1, <2>2, LimitsNat DEF TypeOK
  <2>4. Polls(HeartRetry[num], HeartCount[num]) + 1 = Patience
    BY <2>3, FullPatience, Visits, LimitsNat DEF Polls
  <2>5. missed'[num] <= Patience /\ missed'[num] \in Nat
    BY <1>0, <2>2, PatienceNat DEF TypeOK, Patience
  <2> QED BY <2>2, <2>4, <2>5, PatienceNat
<1>6. CASE StillOffline
  <2>1. /\ num \in Slots /\ pc' # "down" /\ HeartRetry' = [HeartRetry EXCEPT ![num] = 0]
        /\ HeartCount' = [HeartCount EXCEPT ![num] = 0] /\ missed' = [missed EXCEPT ![num] = 0]
    BY <1>6 DEF StillOffline, LastVisit, Silent, ThreadInv
  <2>2. \A s \in Slots : s # num => missed'[s] = missed[s] /\ HeartRetry'[s] = HeartRetry[s]
                                     /\ HeartCount'[s] = HeartCount[s]
    BY <2>1 DEF TypeOK
  <2>3. HeartRetry'[num] = 0 /\ HeartCount'[num] = 0
    BY <2>1 DEF TypeOK
  <2>4. Polls(HeartRetry'[num], HeartCount'[num]) <= missed'[num]
    BY <1>0, <2>1, <2>3, NoneMissed
  <2> QED BY <1>0, <2>1, <2>2, <2>4, OnlyNum
<1>7. CASE GiveUp
  <2>1. /\ LastVisit /\ Missed /\ UNCHANGED <<HeartRetry, num>>
        /\ HeartCount' = [HeartCount EXCEPT ![num] = 0]
    BY <1>7 DEF GiveUp
  <2>2. \A s \in Slots : s # num => HeartRetry'[s] = HeartRetry[s] /\ HeartCount'[s] = HeartCount[s]
    BY <1>5, <2>1 DEF TypeOK
  <2>3. HeartCount'[num] = 0
    BY <1>5, <2>1 DEF TypeOK
  <2> QED BY <1>0, <1>5, <2>1, <2>2, <2>3, OnlyNum
<1>8. CASE MarkOffline
  <2>1. /\ pc = "down" /\ pc' # "down" /\ HeartRetry' = [HeartRetry EXCEPT ![num] = 0]
        /\ missed' = [missed EXCEPT ![num] = 0] /\ UNCHANGED HeartCount
    BY <1>8 DEF MarkOffline
  <2>2. num \in Slots
    BY <2>1 DEF ThreadInv
  <2>3. HeartRetry'[num] = 0 /\ HeartCount'[num] = 0
    BY <2>1, <2>2 DEF MissedInv, TypeOK
  <2>4. Polls(HeartRetry'[num], HeartCount'[num]) <= missed'[num]
    BY <1>0, <2>2, <2>3, NoneMissed
  <2>5. \A s \in Slots : s # num => missed'[s] = missed[s] /\ HeartRetry'[s] = HeartRetry[s]
    BY <2>1, <2>2 DEF TypeOK
  <2> QED BY <1>0, <2>1, <2>2, <2>4, <2>5, OnlyNum
<1> QED BY <1>1, <1>2, <1>3, <1>4, <1>6, <1>7, <1>8
      DEF heart_callback, Wake, EndOfSweep, SkipSlot, Poll, MarkOnline, slotVars

LEMMA OthersMissed ==
  TypeOK /\ ThreadInv /\ MissedInv /\ [Next]_vars /\ ~heart_callback => MissedInv'
<1> SUFFICES ASSUME TypeOK, ThreadInv, MissedInv, [Next]_vars, ~heart_callback
             PROVE  MissedInv'
  OBVIOUS
<1>1. CASE UNCHANGED <<missed, HeartRetry, HeartCount, pc, num>>
  BY <1>1 DEF MissedInv, Polls
<1>2. CASE Restart
  <2>1. TypeOK' /\ pc' # "down"
    BY <1>2, OthersTyped DEF Restart
  <2>2. \A s \in Slots : HeartRetry'[s] = 0 /\ HeartCount'[s] = 0
    BY <1>2 DEF Restart
  <2>3. \A s \in Slots : Polls(HeartRetry'[s], HeartCount'[s]) <= missed'[s]
    BY <2>1, <2>2, NoneMissed
  <2> QED BY <2>1, <2>3 DEF MissedInv
<1>3. CASE rf_433_task \/ Bind \/ \E s \in Slots : Message(s) \/ Learn(s)
  <2>1. UNCHANGED <<missed, HeartRetry, HeartCount, pc, num>>
    BY <1>3 DEF rf_433_task, MarkUp, HearTerminal, Announce, Learned, Bind, Message, Heard,
                Learn, restUnchanged, slotVars, heartVars
  <2> QED BY <1>1, <2>1
<1> QED BY <1>1, <1>2, <1>3
      DEF Next, Delete, DeleteTerminal, Die, Heart_Request, slotVars, heartVars, vars

(* However messages, deletions, new controllers and restarts fall between  *)
(* the polls, heart_callback marks as offline only the slot whose polls    *)
(* have all gone unanswered, in all the visits in a row; a restart takes   *)
(* back only a mark that was not safe in the flash.                        *)
THEOREM HeartOffline == Spec => OfflineOnlyWhenSilent
<1> DEFINE Fair == \A s \in used : Heart[s] = 1 /\ Heart'[s] = 0 =>
                      \/ s = found /\ missed[num] = Patience
                      \/ Restart /\ s \in Unsaved
<1>1. Init => MissedInv
  <2> SUFFICES ASSUME Init PROVE MissedInv
    OBVIOUS
  <2>1. \A s \in Slots : Polls(HeartRetry[s], HeartCount[s]) = 0 /\ missed[s] = 0
    BY Visits, LimitsNat DEF Init, Polls
  <2> QED BY <2>1 DEF Init, MissedInv
<1>2. TypeOK /\ ThreadInv /\ MissedInv /\ [Next]_vars => MissedInv'
  BY CallbackMissed, OthersMissed
<1>3. TypeOK /\ ThreadInv /\ MissedInv /\ [Next]_vars => [Fair]_vars
  <2> SUFFICES ASSUME TypeOK, ThreadInv, MissedInv, [Next]_vars,
                      NEW s \in used, Heart[s] = 1, Heart'[s] = 0
               PROVE  \/ s = found /\ missed[num] = Patience
                      \/ Restart /\ s \in Unsaved
    OBVIOUS
  <2>0. s \in Slots /\ s # None
    BY SlotNumbers DEF TypeOK
  <2>1. CASE MarkOffline
    BY <2>0, <2>1 DEF MarkOffline, MissedInv, TypeOK
  <2>2. CASE Restart
    <3>1. CASE s \in used'
      BY <2>0, <2>2, <3>1 DEF Restart
    <3>2. CASE s \notin used'
      <4>1. rpc = "learn" /\ s = at
        BY <2>2, <3>2 DEF Restart
      <4> QED BY <2>0, <2>2, <4>1 DEF Unsaved
    <3> QED BY <3>1, <3>2
  <2>3. ASSUME NEW t, Heart' = [Heart EXCEPT ![t] = 1]
        PROVE  FALSE
    BY <2>0, <2>3 DEF TypeOK
  <2>4. CASE MarkOnline \/ MarkUp \/ \E t \in Slots : Learn(t)
    BY <2>3, <2>4 DEF MarkOnline, MarkUp, Learn
  <2>5. ASSUME UNCHANGED Heart
        PROVE  FALSE
    BY <2>5
  <2>6. ~(Wake \/ EndOfSweep \/ SkipSlot \/ Poll \/ Answered \/ Retry \/ NextVisit
          \/ StillOffline \/ GiveUp)
    BY <2>5 DEF Wake, EndOfSweep, SkipSlot, Poll, Answered, Retry, NextVisit, StillOffline,
                GiveUp, LastVisit, Silent
  <2>7. ~(HearTerminal \/ Announce \/ Learned \/ Bind \/ \E t \in Slots : Message(t))
    BY <2>5 DEF HearTerminal, Announce, Learned, Bind, Message, Heard, restUnchanged
  <2>8. ~(Heart_Request \/ DeleteTerminal \/ UNCHANGED vars
          \/ \E t \in Slots : Delete(t) \/ Die(t))
    BY <2>5 DEF Heart_Request, DeleteTerminal, Delete, Die, vars
  <2> QED BY <2>1, <2>2, <2>4, <2>6, <2>7, <2>8 DEF Next, heart_callback, rf_433_task
<1>4. Spec => [][Fair]_vars
  BY <1>1, <1>2, <1>3, Typed, PTL DEF Spec
<1> QED BY <1>4 DEF OfflineOnlyWhenSilent

-----------------------------------------------------------------------------
(* How a dead controller comes to be given up.                             *)

Tally(s) == Polls(HeartRetry[s], HeartCount[s])

(* The controller of s is dead, the mark of its last message is gone, and  *)
(* it is not being learned.                                                *)
DeadAndSilent(s) ==
  /\ s \in used \ alive /\ Heart[s] = 1 /\ HeartRecv[s] = 0
  /\ ~(rpc = "learn" /\ at = s)

(* The end of a wait for s.                                                *)
WaitOver(s) == pc = "wait" /\ num = s /\ pc' # "wait"

(* Until it is given up nothing counts for or against a dead controller    *)
(* but the polls of itself, and each of them once: no deletion of another  *)
(* one while the thread waits for it makes Flash_Set_Heart mark the dead   *)
(* one as heard, and no other slot's polls touch its counters.             *)
DeadCounted ==
  \A s \in Slots :
    /\ DeadAndSilent(s) /\ s \in used' /\ ~Restart
    /\ ~(pc = "down" /\ s \in {num, found})
    => \/ pc' = "down" /\ found' = s
       \/ /\ Heart'[s] = 1 /\ HeartRecv'[s] = 0
          /\ Tally(s)' = Tally(s) + (IF WaitOver(s) THEN 1 ELSE 0)

(* Flash_Set_Heart never takes another controller for s.                   *)
LEMMA HolderOther ==
  ASSUME TypeOK, NEW s \in used, NEW n \in Slots, n # s
  PROVE  Holder(n) \in Slots /\ Holder(n) # s
<1>1. CASE n \in used
  BY <1>1 DEF Holder
<1>2. CASE n \notin used
  <2>0. Slots \subseteq 0 .. Num /\ Num \in Nat
    BY HeartbeatAssumption DEF Slots
  <2>1. Slots \ used \in SUBSET (0 .. Num) /\ Slots \ used # {}
    BY <1>2, <2>0, Zenon
  <2>2. Max(Slots \ used) \in Slots \ used
    BY <2>0, <2>1, MaxIn
  <2> QED BY <1>2, <2>2 DEF Holder
<1> QED BY <1>1, <1>2, HolderIn

(* What a poll of s that stays unanswered adds.                            *)
LEMMA SilentTally ==
  ASSUME TypeOK, ThreadInv, NEW s \in used, pc = "wait", num = s, Retry \/ NextVisit
  PROVE  Tally(s)' = Tally(s) + 1 /\ Heart' = Heart /\ HeartRecv' = HeartRecv
<1>0. s \in Slots /\ HeartCount[s] \in Nat /\ HeartRetry[s] \in Nat
  BY LimitsNat DEF TypeOK
<1>1. UNCHANGED <<Heart, HeartRecv>>
  BY DEF Retry, NextVisit, Silent
<1>2. CASE Retry
  <2>1. HeartRetry'[s] = HeartRetry[s] + 1 /\ HeartCount'[s] = HeartCount[s]
    BY <1>0, <1>2 DEF Retry, TypeOK
  <2> QED BY <1>0, <1>1, <2>1, Visits, LimitsNat DEF Tally, Polls
<1>3. CASE NextVisit
  <2>1. /\ HeartRetry[s] = RetryLimit /\ HeartRetry'[s] = 0
        /\ HeartCount'[s] = HeartCount[s] + 1
    BY <1>0, <1>3, LimitsNat DEF NextVisit, TypeOK
  <2>2. Tally(s)' = 0 + (HeartCount[s] + 1) * (RetryLimit + 1)
    BY <2>1 DEF Tally, Polls
  <2>3. Tally(s)' = RetryLimit + HeartCount[s] * (RetryLimit + 1) + 1
    BY <1>0, <2>2, Visits, LimitsNat
  <2> QED BY <1>1, <2>1, <2>3 DEF Tally, Polls
<1> QED BY <1>2, <1>3

(* The part of DeadIsNoticed that needs no fairness: the thread "heart" is *)
(* nearer to giving a dead controller up after each poll of it, and        *)
(* nothing that happens in between, but for a restart, takes it back.      *)
THEOREM HeartDeadCounted == Spec => [][DeadCounted]_vars
<1>1. TypeOK /\ ThreadInv /\ [Next]_vars => [DeadCounted]_vars
  <2> SUFFICES ASSUME TypeOK, ThreadInv, Next, NEW s \in Slots,
                      DeadAndSilent(s), s \in used', ~Restart,
                      ~(pc = "down" /\ s \in {num, found})
               PROVE  \/ pc' = "down" /\ found' = s
                      \/ /\ Heart'[s] = 1 /\ HeartRecv'[s] = 0
                         /\ Tally(s)' = Tally(s) + (IF WaitOver(s) THEN 1 ELSE 0)
    BY DEF DeadCounted
  <2>0. /\ s \in used /\ s \notin alive /\ Heart[s] = 1 /\ HeartRecv[s] = 0
        /\ Tally(s) \in Nat /\ HeartRetry[s] \in Nat /\ HeartCount[s] \in Nat
    <3>1. HeartRetry[s] \in Nat /\ HeartCount[s] \in Nat
      BY LimitsNat DEF TypeOK
    <3> QED BY <3>1, Visits DEF DeadAndSilent, Tally, Polls
  <2>1. ASSUME Heart'[s] = 1, HeartRecv'[s] = 0, ~WaitOver(s),
               HeartRetry'[s] = HeartRetry[s], HeartCount'[s] = HeartCount[s]
        PROVE  /\ Heart'[s] = 1 /\ HeartRecv'[s] = 0
               /\ Tally(s)' = Tally(s) + (IF WaitOver(s) THEN 1 ELSE 0)
    BY <2>0, <2>1 DEF Tally, Polls
  <2>2. CASE Wake \/ EndOfSweep \/ SkipSlot
    <3>1. UNCHANGED <<Heart, HeartRecv, HeartRetry, HeartCount>> /\ ~WaitOver(s)
      BY <2>2 DEF Wake, EndOfSweep, SkipSlot, slotVars, WaitOver
    <3> QED BY <2>0, <2>1, <3>1
  <2>3. CASE Poll
    <3>1. UNCHANGED <<Heart, HeartRetry, HeartCount>> /\ ~WaitOver(s) /\ HeartRecv'[s] = 0
      BY <2>0, <2>3 DEF Poll, WaitOver, TypeOK
    <3> QED BY <2>0, <2>1, <3>1
  <2>4. CASE Answered
    <3>1. num \in Slots /\ num # s
      BY <2>0, <2>4 DEF Answered, ThreadInv
    <3>2. Holder(num) \in Slots /\ Holder(num) # s
      BY <2>0, <3>1, HolderOther
    <3>3. Heart'[s] = 1 /\ HeartRecv'[s] = 0
      BY <2>0, <2>4, <3>2 DEF Answered, TypeOK
    <3>4. HeartRetry'[s] = HeartRetry[s] /\ HeartCount'[s] = HeartCount[s]
      BY <2>4, <3>1 DEF Answered, TypeOK
    <3> QED BY <2>1, <3>1, <3>3, <3>4 DEF WaitOver
  <2>5. CASE Silent /\ num # s /\ (Retry \/ NextVisit \/ StillOffline \/ GiveUp)
    <3>1. num \in Slots /\ UNCHANGED <<Heart, HeartRecv>> /\ ~WaitOver(s)
      BY <2>5 DEF Silent, ThreadInv, WaitOver
    <3>2. HeartRetry'[s] = HeartRetry[s] /\ HeartCount'[s] = HeartCount[s]
      BY <2>5, <3>1 DEF Retry, NextVisit, StillOffline, GiveUp, TypeOK
    <3> QED BY <2>0, <2>1, <3>1, <3>2
  <2>6. CASE num = s /\ (Retry \/ NextVisit)
    <3>1. WaitOver(s) /\ pc = "wait"
      BY <2>6 DEF Retry, NextVisit, Silent, WaitOver
    <3>2. Tally(s)' = Tally(s) + 1 /\ Heart' = Heart /\ HeartRecv' = HeartRecv
      BY <2>0, <2>6, <3>1, SilentTally
    <3> QED BY <2>0, <3>1, <3>2
  <2>7. CASE num = s /\ (StillOffline \/ GiveUp)
    <3>1. Holder(num) = s
      BY <2>0, <2>7 DEF Holder
    <3>2. ~StillOffline
      BY <2>0, <3>1 DEF StillOffline
    <3>3. GiveUp => pc' = "down" /\ found' = s
      BY <3>1 DEF GiveUp
    <3> QED BY <2>7, <3>2, <3>3
  <2>8. CASE MarkOffline
    <3>1. num \in Slots /\ s # num /\ s # found /\ ~WaitOver(s)
      BY <2>8 DEF MarkOffline, ThreadInv, WaitOver
    <3>2. UNCHANGED <<HeartRecv, HeartCount>> /\ Heart'[s] = Heart[s] /\ HeartRetry'[s] = HeartRetry[s]
      BY <2>8, <3>1 DEF MarkOffline, TypeOK
    <3> QED BY <2>0, <2>1, <3>1, <3>2
  <2>9. CASE MarkOnline \/ MarkUp
    <3>1. UNCHANGED <<HeartRecv, HeartRetry, HeartCount>> /\ ~WaitOver(s)
      BY <2>9 DEF MarkOnline, MarkUp, slotVars, heartVars, WaitOver
    <3>2. Heart'[s] = 1
      BY <2>0, <2>9 DEF MarkOnline, MarkUp, TypeOK
    <3> QED BY <2>0, <2>1, <3>1, <3>2
  <2>10. ASSUME NEW t \in Slots, Message(t) \/ (Learned /\ t = at)
         PROVE  /\ Heart'[s] = 1 /\ HeartRecv'[s] = 0
                /\ Tally(s)' = Tally(s) + (IF WaitOver(s) THEN 1 ELSE 0)
    <3>1. t # s /\ Heard(t)
      BY <2>0, <2>10 DEF Message, Learned, DeadAndSilent
    <3>2. UNCHANGED <<Heart, HeartRetry, HeartCount>> /\ ~WaitOver(s)
      BY <3>1 DEF Heard, heartVars, WaitOver
    <3>3. HeartRecv'[s] = 0
      BY <2>0, <3>1 DEF Heard, TypeOK
    <3> QED BY <2>0, <2>1, <3>2, <3>3
  <2>11. ASSUME NEW t \in Slots, Learn(t)
         PROVE  /\ Heart'[s] = 1 /\ HeartRecv'[s] = 0
                /\ Tally(s)' = Tally(s) + (IF WaitOver(s) THEN 1 ELSE 0)
    <3>1. UNCHANGED <<HeartRecv, HeartRetry, HeartCount>> /\ ~WaitOver(s)
      BY <2>11 DEF Learn, slotVars, heartVars, WaitOver
    <3>2. Heart'[s] = 1
      BY <2>0, <2>11 DEF Learn, TypeOK
    <3> QED BY <2>0, <2>1, <3>1, <3>2
  <2>12. ASSUME UNCHANGED <<Heart, slotVars, heartVars>>
         PROVE  /\ Heart'[s] = 1 /\ HeartRecv'[s] = 0
                /\ Tally(s)' = Tally(s) + (IF WaitOver(s) THEN 1 ELSE 0)
    <3>1. UNCHANGED <<Heart, HeartRecv, HeartRetry, HeartCount>> /\ ~WaitOver(s)
      BY <2>12 DEF slotVars, heartVars, WaitOver
    <3> QED BY <2>0, <2>1, <3>1
  <2>13. CASE \/ HearTerminal \/ Announce \/ Bind \/ Heart_Request \/ DeleteTerminal
              \/ \E t \in Slots : Delete(t) \/ Die(t)
    BY <2>12, <2>13 DEF HearTerminal, Announce, Bind, Heart_Request, DeleteTerminal, Delete, Die,
                        restUnchanged
  <2>14. Learned => at \in Slots
    BY DEF TypeOK
  <2> QED BY <2>2, <2>3, <2>4, <2>5, <2>6, <2>7, <2>8, <2>9, <2>10, <2>11, <2>13, <2>14
        DEF Next, heart_callback, rf_433_task, Retry, NextVisit, StillOffline, GiveUp, LastVisit
<1> QED BY <1>1, Typed, PTL DEF Spec
=============================================================================
