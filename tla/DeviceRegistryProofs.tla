------------------------ MODULE DeviceRegistryProofs ------------------------
(***************************************************************************)
(* Theorems about the device registry, for any number of devices, slots    *)
(* and threads.                                                            *)
(***************************************************************************)
EXTENDS DeviceRegistry, FiniteSetTheorems, TLAPS

-----------------------------------------------------------------------------
(* Type correctness.                                                       *)

(* The operations that the handlers put into a script are well formed.     *)
LEMMA OpTypes ==
  ASSUME NEW d \in Devices, NEW b \in Devices \cup {None}, NEW f \in Flag
  PROVE  /\ AddOp(d, b) \in Op /\ DelOp(d) \in Op /\ DelAllOp(d) \in Op
         /\ HeartOp(d, f) \in Op /\ UploadOp(d, f) \in Op
BY DEF Op, AddOp, DelOp, DelAllOp, HeartOp, UploadOp, Flag

(* The empty gateway is well typed.                                        *)
LEMMA InitType == Init => TypeOK
BY SizeAssumption
DEF Init, TypeOK, Slots, Flag, Pc, Locals, NoLocals, AddPc, DelPc

(* Taking up a handler's script changes nothing else.                      *)
LEMMA RunType ==
  ASSUME TypeOK, NEW t \in Threads, NEW ops \in Seq(Op), Run(t, ops)
  PROVE  TypeOK'
BY DEF TypeOK, Run, memVars, flashVars

(* Every handler only hands its thread a script.                           *)
LEMMA HandlerType ==
  ASSUME TypeOK,
         RadioHandler \/ \E t \in Threads : OtherHandler(t)
  PROVE  TypeOK'
<1>0. ASSUME NEW d \in Devices, NormalSolve(d) PROVE TypeOK'
  <2>1. <<HeartOp(d, 1)>> \in Seq(Op)
    BY OpTypes DEF Flag
  <2> QED BY <1>0, <2>1, RunType, ThreadsAssumption DEF NormalSolve
<1>1. ASSUME RadioHandler, ~\E d \in Devices : NormalSolve(d) PROVE TypeOK'
  <2> PICK m \in Mains :
        \/ Device_Learn(m) \/ SyncDeleteAll(m)
        \/ \E d \in Terminals :
             \/ SyncHeart(m, d) \/ SyncDelete(m, d)
             \/ \E h \in Flag : SyncAdd(m, d, h)
             \/ WarnOffline(m, d)
    BY <1>1 DEF RadioHandler
  <2> m \in Devices /\ 0 \in Flag /\ 1 \in Flag /\ None \in Devices \cup {None}
      /\ m \in Devices \cup {None}
    BY DEF Devices, Flag
  <2>1. CASE Device_Learn(m)
    <3>1. <<DelOp(m), AddOp(m, None), HeartOp(m, 1)>> \in Seq(Op)
      BY OpTypes
    <3> QED BY <2>1, <3>1, RunType, ThreadsAssumption DEF Device_Learn
  <2>2. CASE SyncDeleteAll(m)
    <3>1. <<HeartOp(m, 1), DelAllOp(m)>> \in Seq(Op)
      BY OpTypes
    <3> QED BY <2>2, <3>1, RunType, ThreadsAssumption DEF SyncDeleteAll
  <2>3. ASSUME NEW d \in Terminals,
               \/ SyncHeart(m, d) \/ SyncDelete(m, d)
               \/ \E h \in Flag : SyncAdd(m, d, h)
               \/ WarnOffline(m, d)
        PROVE  TypeOK'
    <3> d \in Devices
      BY DEF Devices
    <3>1. /\ <<HeartOp(m, 1), HeartOp(d, 1)>> \in Seq(Op)
          /\ <<HeartOp(m, 1), DelOp(d)>> \in Seq(Op)
          /\ <<HeartOp(m, 1), HeartOp(d, 0)>> \in Seq(Op)
          /\ \A h \in Flag : <<HeartOp(m, 1), AddOp(d, m), HeartOp(d, h)>> \in Seq(Op)
      BY OpTypes
    <3> QED BY <2>3, <3>1, RunType, ThreadsAssumption
        DEF SyncHeart, SyncDelete, SyncAdd, WarnOffline
  <2> QED BY <2>1, <2>2, <2>3
<1>2. ASSUME NEW t \in Threads, OtherHandler(t) PROVE TypeOK'
  <2>1. ASSUME NEW d \in Devices, Remote_Delete(t, d) \/ Self_Bind_Upload(t, d)
        PROVE  TypeOK'
    <3>1. <<DelOp(d)>> \in Seq(Op) /\ <<UploadOp(d, 1)>> \in Seq(Op)
      BY OpTypes DEF Flag
    <3> QED BY <2>1, <3>1, RunType DEF Remote_Delete, Self_Bind_Upload
  <2>2. ASSUME NEW m \in Mains, NEW h \in Flag, HeartResult(t, m, h)
        PROVE  TypeOK'
    <3>1. <<HeartOp(m, h)>> \in Seq(Op)
      BY OpTypes DEF Devices
    <3> QED BY <2>2, <3>1, RunType DEF HeartResult
  <2>3. ASSUME NEW s \in Slots, ID[s] # None, Run(t, <<AddOp(ID[s], None)>>)
        PROVE  TypeOK'
    <3>1. ID[s] \in Devices
      BY <2>3 DEF TypeOK
    <3>2. <<AddOp(ID[s], None)>> \in Seq(Op)
      BY <3>1, OpTypes DEF Flag
    <3> QED BY <2>3, <3>2, RunType
  <2> QED BY <1>2, <2>1, <2>2, <2>3 DEF OtherHandler, SyncDevice
<1> QED BY <1>0, <1>1, <1>2

(* The threads' part of the type invariant, and what every operation in    *)
(* progress knows of its device.                                           *)
ThreadsOK ==
  /\ pc \in [Threads -> Pc] /\ loc \in [Threads -> Locals]
  /\ \A u \in Threads :
       pc[u] # "ready" => loc[u].dev \in Devices /\ loc[u].slot \in Slots

WellFormed(o) ==
  /\ o.op \in {"none", "add", "del", "delall", "heart", "upload"}
  /\ o.dev \in Devices /\ o.bind \in Devices \cup {None} /\ o.flag \in Flag

(* An operation that goes on to its next write keeps the threads typed.    *)
LEMMA LocateType ==
  ASSUME TypeOK, NEW t \in Threads, NEW o, WellFormed(o),
         NEW s \in Slots, NEW n \in 0 .. MainSupport, NEW l \in Pc,
         Locate(t, o, s, n), Goto(t, l)
  PROVE  ThreadsOK'
<1>1. s \in 0 .. MaxSupport - 1
  BY SizeAssumption DEF Slots
<1>2. [op |-> o.op, dev |-> o.dev, bind |-> o.bind, flag |-> o.flag,
       slot |-> s, num |-> n] \in Locals
  BY <1>1 DEF WellFormed, Locals
<1> QED BY <1>2 DEF TypeOK, ThreadsOK, WellFormed, Locate, Goto

(* So does one that returns.                                               *)
LEMMA FinishType ==
  ASSUME TypeOK, NEW t \in Threads, Finish(t)
  PROVE  ThreadsOK'
BY SizeAssumption
DEF TypeOK, ThreadsOK, Finish, Goto, NoLocals, Pc, Locals, Flag

(* Flash_Set_UploadFlag up to its write.                                   *)
LEMMA StartUploadType ==
  ASSUME TypeOK, NEW t \in Threads, NEW o, WellFormed(o), StartUpload(t, o)
  PROVE  ThreadsOK' /\ UploadFlag' \in [Slots -> Flag]
<1>1. PICK s \in Slots : /\ UploadFlag' = [UploadFlag EXCEPT ![s] = o.flag]
                         /\ Locate(t, o, s, 0) /\ Goto(t, "set_upload")
  BY DEF StartUpload
<1>2. 0 \in 0 .. MainSupport /\ "set_upload" \in Pc
  BY SizeAssumption DEF Pc
<1>3. ThreadsOK'
  BY <1>1, <1>2, LocateType
<1> QED BY <1>1, <1>3 DEF TypeOK, WellFormed

(* The end of Device_Add2Flash_Wifi.                                       *)
LEMMA UploadTailType ==
  ASSUME TypeOK, NEW t \in Threads, NEW o, WellFormed(o), UploadTail(t, o)
  PROVE  ThreadsOK' /\ UploadFlag' \in [Slots -> Flag]
<1>1. CASE Finish(t) /\ UNCHANGED UploadFlag
  BY <1>1, FinishType DEF TypeOK
<1>2. CASE StartUpload(t, o)
  BY <1>2, StartUploadType
<1> QED BY <1>1, <1>2 DEF UploadTail

(* Del_MainNums and the search for the slots to delete.                    *)
LEMMA StartSearchType ==
  ASSUME TypeOK, NEW t \in Threads, NEW o, WellFormed(o), NEW S,
         StartSearch(t, o, S)
  PROVE  ThreadsOK' /\ MainNum' \in 0 .. MainSupport
<1>1. CASE Finish(t) /\ UNCHANGED MainNum
  BY <1>1, FinishType DEF TypeOK
<1>2. ASSUME NEW s \in Slots, StartSlot(t, o, s)
      PROVE  ThreadsOK' /\ MainNum' \in 0 .. MainSupport
  <2>1. 0 \in 0 .. MainSupport /\ "del_main" \in Pc /\ "del_id" \in Pc
    BY SizeAssumption DEF Pc, DelPc
  <2>2. CASE /\ MainNum > 0 /\ MainNum' = MainNum - 1
             /\ Locate(t, o, s, MainNum - 1) /\ Goto(t, "del_main")
    <3>1. MainNum - 1 \in 0 .. MainSupport
      BY <2>2, SizeAssumption DEF TypeOK
    <3> QED BY <2>1, <2>2, <3>1, LocateType
  <2>3. CASE Locate(t, o, s, 0) /\ Goto(t, "del_id") /\ UNCHANGED MainNum
    BY <2>1, <2>3, LocateType DEF TypeOK
  <2> QED BY <1>2, <2>2, <2>3 DEF StartSlot
<1> QED BY <1>1, <1>2 DEF StartSearch

(* Device_Add2Flash_Wifi up to its first write.                            *)
LEMMA StartAddType ==
  ASSUME TypeOK, NEW t \in Threads, NEW o, WellFormed(o), StartAdd(t, o)
  PROVE  /\ ThreadsOK'
         /\ Num' \in 0 .. MaxSupport - 1 /\ MainNum' \in 0 .. MainSupport
         /\ ID' \in [Slots -> Devices \cup {None}]
         /\ Bind_ID' \in [Slots -> Devices \cup {None}]
         /\ Heart' \in [Slots -> Flag] /\ UploadFlag' \in [Slots -> Flag]
<1>0. MainNum' \in 0 .. MainSupport
  BY DEF TypeOK, StartAdd
<1>1. CASE UploadTail(t, o) /\ UNCHANGED <<Num, ID, Bind_ID, Heart>>
  BY <1>0, <1>1, UploadTailType DEF TypeOK
<1>2. CASE Finish(t) /\ UNCHANGED <<Num, ID, Bind_ID, Heart, UploadFlag>>
  BY <1>0, <1>2, FinishType DEF TypeOK
<1>3. ASSUME NEW s \in Slots, Locate(t, o, s, 0), UNCHANGED UploadFlag,
             \/ /\ Num' = s /\ Goto(t, "add_nums")
                /\ UNCHANGED <<ID, Bind_ID, Heart>>
             \/ Store(t, o, s) /\ UNCHANGED Num
      PROVE  /\ ThreadsOK'
             /\ Num' \in 0 .. MaxSupport - 1
             /\ ID' \in [Slots -> Devices \cup {None}]
             /\ Bind_ID' \in [Slots -> Devices \cup {None}]
             /\ Heart' \in [Slots -> Flag] /\ UploadFlag' \in [Slots -> Flag]
  <2>1. /\ Num' \in 0 .. MaxSupport - 1
        /\ ID' \in [Slots -> Devices \cup {None}]
        /\ Bind_ID' \in [Slots -> Devices \cup {None}]
        /\ Heart' \in [Slots -> Flag] /\ UploadFlag' \in [Slots -> Flag]
    <3>1. s \in 0 .. MaxSupport - 1 /\ 1 \in Flag
      BY SizeAssumption DEF Slots, Flag
    <3>2. CASE Num' = s /\ UNCHANGED <<ID, Bind_ID, Heart>>
      BY <1>3, <3>1, <3>2 DEF TypeOK
    <3>3. CASE Store(t, o, s) /\ UNCHANGED Num
      BY <1>3, <3>1, <3>3 DEF TypeOK, Store, WellFormed
    <3> QED BY <1>3, <3>2, <3>3
  <2>2. 0 \in 0 .. MainSupport /\ "add_nums" \in Pc /\ "add_id" \in Pc
    BY SizeAssumption DEF Pc, AddPc
  <2>3. Goto(t, "add_nums") \/ Goto(t, "add_id")
    BY <1>3 DEF Store
  <2> QED BY <1>3, <2>1, <2>2, <2>3, LocateType
<1> QED BY <1>0, <1>1, <1>2, <1>3 DEF StartAdd

(* Starting any operation keeps the state well typed.                      *)
LEMMA BeginType ==
  ASSUME TypeOK, NEW t \in Threads, Begin(t)
  PROVE  TypeOK'
<1> DEFINE o == Head(script[t])
<1>1. /\ o \in Op /\ script' \in [Threads -> Seq(Op)]
      /\ UNCHANGED <<Learn_Nums, Main_Nums, fID, fBind, fHeart, fUpload>>
  BY DEF TypeOK, Begin, flashVars
<1>2. WellFormed(o)
  BY <1>1 DEF Op, WellFormed
<1> HIDE DEF o
<1>3. CASE StartAdd(t, o)
  BY <1>1, <1>2, <1>3, StartAddType DEF TypeOK, ThreadsOK
<1>4. CASE Del_Device(t, o)
  BY <1>1, <1>2, <1>4, StartSearchType DEF TypeOK, ThreadsOK, Del_Device
<1>5. CASE Del_MainBind(t, o)
  BY <1>1, <1>2, <1>5, StartSearchType DEF TypeOK, ThreadsOK, Del_MainBind
<1>6. CASE Flash_Set_Heart(t, o)
  <2>1. CASE Finish(t) /\ UNCHANGED memVars
    BY <1>1, <2>1, FinishType DEF TypeOK, ThreadsOK, memVars
  <2>2. ASSUME NEW s \in Slots, Locate(t, o, s, 0), Goto(t, "set_heart"),
               UNCHANGED memVars
        PROVE  TypeOK'
    <3>1. 0 \in 0 .. MainSupport /\ "set_heart" \in Pc
      BY SizeAssumption DEF Pc
    <3>2. ThreadsOK'
      BY <1>2, <2>2, <3>1, LocateType
    <3> QED BY <1>1, <2>2, <3>2 DEF TypeOK, ThreadsOK, memVars
  <2> QED BY <1>6, <2>1, <2>2 DEF Flash_Set_Heart
<1>7. CASE Flash_Set_UploadFlag(t, o)
  BY <1>1, <1>2, <1>7, StartUploadType, FinishType
  DEF TypeOK, ThreadsOK, Flash_Set_UploadFlag
<1> QED BY <1>3, <1>4, <1>5, <1>6, <1>7 DEF Begin, o

(* So does every write to the store.                                       *)
LEMMA WriteType ==
  ASSUME TypeOK, NEW t \in Threads, Write(t)
  PROVE  TypeOK'
<1>0. /\ loc[t] \in Locals
      /\ pc[t] # "ready" => WellFormed(loc[t]) /\ loc[t].slot \in Slots
      /\ loc[t].num \in 0 .. MainSupport
  BY DEF TypeOK, Locals, WellFormed
<1>1. CASE Flash_LearnNums_Change(t)
  BY <1>0, <1>1, SizeAssumption
  DEF TypeOK, Flash_LearnNums_Change, Store, Goto, Pc, AddPc, Flag, Slots, WellFormed
<1>2. CASE AddWriteID(t)
  BY <1>0, <1>2 DEF TypeOK, AddWriteID, Goto, Pc, AddPc, memVars, WellFormed
<1>3. CASE AddWriteBind(t)
  BY <1>0, <1>3 DEF TypeOK, AddWriteBind, Goto, Pc, AddPc, memVars, WellFormed
<1>4. CASE AddWriteHeart(t)
  <2>1. fHeart' \in [Devices -> Flag]
    BY <1>4 DEF TypeOK, AddWriteHeart, Flag
  <2>2. CASE /\ MainNum < MainSupport /\ MainNum' = MainNum + 1
             /\ loc' = [loc EXCEPT ![t].num = MainNum + 1]
             /\ Goto(t, "add_main") /\ UNCHANGED UploadFlag
    <3>1. MainNum + 1 \in 0 .. MainSupport
      BY <2>2, SizeAssumption DEF TypeOK
    <3>2. ThreadsOK'
      <4>1. /\ [loc[t] EXCEPT !.num = MainNum + 1] \in Locals
            /\ [loc[t] EXCEPT !.num = MainNum + 1].dev = loc[t].dev
            /\ [loc[t] EXCEPT !.num = MainNum + 1].slot = loc[t].slot
        BY <1>0, <3>1 DEF Locals
      <4>2. loc' = [loc EXCEPT ![t] = [loc[t] EXCEPT !.num = MainNum + 1]]
        BY <2>2
      <4>3. pc' \in [Threads -> Pc]
        BY <2>2 DEF TypeOK, Goto, Pc, AddPc
      <4>4. loc' \in [Threads -> Locals]
        BY <4>1, <4>2 DEF TypeOK
      <4>5. loc[t].dev \in Devices /\ loc[t].slot \in Slots
        BY <1>0, <1>4 DEF AddWriteHeart, WellFormed
      <4> QED BY <2>2, <4>1, <4>2, <4>3, <4>4, <4>5 DEF TypeOK, ThreadsOK, Goto
    <3> QED BY <1>4, <2>1, <2>2, <3>1, <3>2 DEF TypeOK, ThreadsOK, AddWriteHeart
  <2>3. CASE UploadTail(t, loc[t]) /\ UNCHANGED MainNum
    BY <1>0, <1>4, <2>1, <2>3, UploadTailType DEF TypeOK, ThreadsOK, AddWriteHeart
  <2> QED BY <1>4, <2>2, <2>3 DEF AddWriteHeart
<1>5. CASE AddWriteMain(t)
  BY <1>0, <1>5, UploadTailType DEF TypeOK, ThreadsOK, AddWriteMain
<1>6. CASE DelWriteMain(t)
  BY <1>0, <1>6 DEF TypeOK, DelWriteMain, Goto, Pc, DelPc, memVars
<1>7. CASE DelWriteID(t)
  BY <1>0, <1>7 DEF TypeOK, DelWriteID, Goto, Pc, DelPc
<1>8. CASE DelWriteBind(t)
  BY <1>0, <1>8 DEF TypeOK, DelWriteBind, Goto, Pc, DelPc, WellFormed
<1>9. CASE DelWriteUpload(t)
  <2>1. fUpload' \in [Devices -> Flag] /\ UploadFlag' \in [Slots -> Flag]
    BY <1>9 DEF TypeOK, DelWriteUpload, Flag
  <2>2. ThreadsOK' /\ MainNum' \in 0 .. MainSupport
    <3>1. CASE Finish(t) /\ UNCHANGED MainNum
      BY <3>1, FinishType DEF TypeOK
    <3>2. CASE StartSearch(t, loc[t], BoundBelow(loc[t].dev, loc[t].slot))
      BY <1>0, <1>9, <3>2, StartSearchType DEF DelWriteUpload
    <3> QED BY <1>9, <3>1, <3>2 DEF DelWriteUpload
  <2> QED BY <1>9, <2>1, <2>2 DEF TypeOK, ThreadsOK, DelWriteUpload
<1>10. CASE Flash_Heart_Change(t)
  <2>1. Heart' \in [Slots -> Flag] /\ fHeart' \in [Devices -> Flag]
    BY <1>0, <1>10 DEF TypeOK, Flash_Heart_Change, WellFormed
  <2> QED BY <1>10, <2>1, FinishType DEF TypeOK, ThreadsOK, Flash_Heart_Change
<1>11. CASE Flash_UploadFlag_Change(t)
  <2>1. fUpload' \in [Devices -> Flag]
    BY <1>0, <1>11 DEF TypeOK, Flash_UploadFlag_Change, WellFormed
  <2> QED BY <1>11, <2>1, FinishType
      DEF TypeOK, ThreadsOK, Flash_UploadFlag_Change, memVars
<1> QED BY <1>1, <1>2, <1>3, <1>4, <1>5, <1>6, <1>7, <1>8, <1>9, <1>10, <1>11
    DEF Write

(* So does LoadDevice2Memory after a reset.                                *)
LEMMA ResetType == TypeOK /\ Reset => TypeOK'
<1> SUFFICES ASSUME TypeOK, Reset PROVE TypeOK'
  OBVIOUS
<1>1. ThreadsOK' /\ script' \in [Threads -> Seq(Op)]
  BY SizeAssumption DEF Reset, ThreadsOK, NoLocals, Locals, Pc, Flag
<1>2. /\ Num' \in 0 .. MaxSupport - 1 /\ MainNum' \in 0 .. MainSupport
      /\ ID' \in [Slots -> Devices \cup {None}]
      /\ Bind_ID' \in [Slots -> Devices \cup {None}]
      /\ Heart' \in [Slots -> Flag] /\ UploadFlag' \in [Slots -> Flag]
  BY DEF TypeOK, Reset, LoadDevice2Memory, Flag
<1> QED BY <1>1, <1>2 DEF TypeOK, ThreadsOK, Reset, flashVars

(* Every step of every thread, and a reset, keeps the state well typed.    *)
LEMMA NextType == TypeOK /\ [Next]_vars => TypeOK'
<1> SUFFICES ASSUME TypeOK, [Next]_vars PROVE TypeOK'
  OBVIOUS
<1>1. CASE UNCHANGED vars
  BY <1>1 DEF TypeOK, vars
<1>2. CASE Next
  BY <1>2, HandlerType, BeginType, WriteType, ResetType DEF Next
<1> QED BY <1>1, <1>2

(* Every reachable state is well typed: the counters stay within the size  *)
(* of the arrays and the number of supported controllers, however the      *)
(* threads interleave and whenever the gateway is reset.                   *)
THEOREM TypeCorrect == Spec => []TypeOK
BY InitType, NextType, PTL DEF Spec

-----------------------------------------------------------------------------
(* One thread, resets at any moment: the table and the store agree.        *)

SeqInv == ScriptInv /\ SlotInv /\ KeyInv

(* An empty table agrees with an empty store.                              *)
LEMMA InitSeq == Init => SeqInv
BY ThreadsAssumption, SizeAssumption
DEF Init, SeqInv, ScriptInv, SlotInv, KeyInv, rpc, rloc, Slots, Devices, DelPc

(* Where the thread is after Goto, Locate and Finish.                      *)
LEMMA RadioMoves ==
  ASSUME TypeOK, NEW o, NEW s, NEW n, NEW l
  PROVE  /\ Goto(Radio, l) => rpc' = l
         /\ Locate(Radio, o, s, n) =>
              rloc' = [op |-> o.op, dev |-> o.dev, bind |-> o.bind,
                       flag |-> o.flag, slot |-> s, num |-> n]
         /\ Finish(Radio) => rpc' = "ready"
BY ThreadsAssumption DEF TypeOK, Goto, Locate, Finish, rpc, rloc

(* Taking up a script disturbs neither the table nor the store.            *)
LEMMA HandlerSeq ==
  ASSUME TypeOK, SeqInv, NEW ops \in Seq({o \in Op : MainOp(o)}),
         Run(Radio, ops)
  PROVE  SeqInv'
<1>1. rpc' = rpc /\ rloc' = rloc /\ script'[Radio] = ops
  BY ThreadsAssumption DEF Run, TypeOK, rpc, rloc
<1>2. SlotInv' /\ KeyInv'
  BY <1>1 DEF Run, memVars, flashVars, SeqInv, SlotInv, KeyInv
<1> QED BY <1>1, <1>2 DEF SeqInv, ScriptInv

(* Flash_LearnNums_Change, after which the slot is filled in RAM.          *)
LEMMA LearnNumsSeq ==
  ASSUME TypeOK, SeqInv, Flash_LearnNums_Change(Radio)
  PROVE  SeqInv'
<1>1. /\ rpc = "add_nums" /\ rpc' = "add_id" /\ rloc' = rloc
      /\ script' = script
      /\ rloc.slot \in Slots /\ rloc.dev \in Devices
  BY ThreadsAssumption, RadioMoves DEF Flash_LearnNums_Change, TypeOK, Store, rpc, rloc
<1>2. /\ Learn_Nums' = rloc.slot /\ Num' = Num /\ fID' = fID
      /\ fBind' = fBind /\ fHeart' = fHeart
      /\ ID' = [ID EXCEPT ![rloc.slot] = rloc.dev]
      /\ Bind_ID' = [Bind_ID EXCEPT ![rloc.slot] = rloc.bind]
      /\ Heart' = [Heart EXCEPT ![rloc.slot] = 1]
  BY DEF Flash_LearnNums_Change, Store, rloc
<1>3. SlotInv'
  BY <1>1, <1>2, DevicesAssumption DEF SeqInv, SlotInv, TypeOK, DelPc
<1>4. KeyInv'
  BY <1>1, <1>2, DevicesAssumption DEF SeqInv, ScriptInv, MainOp, SlotInv, KeyInv, TypeOK
<1>5. ScriptInv'
  BY <1>1 DEF SeqInv, ScriptInv
<1> QED BY <1>3, <1>4, <1>5 DEF SeqInv

(* The writes of an addition's id and controller.                          *)
LEMMA AddWriteSeq ==
  ASSUME TypeOK, SeqInv, AddWriteID(Radio) \/ AddWriteBind(Radio)
  PROVE  SeqInv'
<1>0. /\ rloc' = rloc /\ script' = script /\ rloc.slot \in Slots
      /\ rloc.dev \in Devices /\ UNCHANGED memVars /\ Learn_Nums' = Learn_Nums
      /\ fHeart' = fHeart
  BY ThreadsAssumption DEF AddWriteID, AddWriteBind, TypeOK, rloc
<1>1. CASE AddWriteID(Radio)
  <2>1. /\ rpc = "add_id" /\ rpc' = "add_bind" /\ fBind' = fBind
        /\ fID' = [fID EXCEPT ![rloc.slot] = rloc.dev]
    BY <1>1, RadioMoves DEF AddWriteID, rpc, rloc
  <2> QED BY <1>0, <2>1, DevicesAssumption
      DEF SeqInv, ScriptInv, SlotInv, KeyInv, TypeOK, memVars, DelPc
<1>2. CASE AddWriteBind(Radio)
  <2>1. /\ rpc = "add_bind" /\ rpc' = "add_heart" /\ fID' = fID
        /\ fBind' = [fBind EXCEPT ![rloc.dev] = rloc.bind]
    BY <1>2, RadioMoves DEF AddWriteBind, rpc, rloc
  <2>2. SlotInv' /\ ScriptInv'
    BY <1>0, <2>1 DEF SeqInv, ScriptInv, SlotInv, memVars, DelPc
  <2>3. KeyInv'
    BY <1>0, <2>1, DevicesAssumption
    DEF SeqInv, ScriptInv, MainOp, SlotInv, KeyInv, TypeOK, memVars
  <2> QED BY <2>2, <2>3 DEF SeqInv
<1> QED BY <1>1, <1>2

(* A step that leaves slots and keys alone and has nothing left to add.    *)
LEMMA QuietSeq ==
  ASSUME SlotInv, KeyInv,
         rpc \notin {"add_nums", "add_id", "add_bind", "add_heart"},
         rpc' \in {"ready", "set_upload", "add_main"},
         UNCHANGED <<Num, ID, Bind_ID, Heart, Learn_Nums, fID, fBind, fHeart>>
  PROVE  SlotInv' /\ KeyInv'
BY DEF SlotInv, KeyInv, DelPc

(* UploadTail ends the operation or goes on with the same device.          *)
LEMMA UploadTailMoves ==
  ASSUME TypeOK, NEW o, UploadTail(Radio, o)
  PROVE  \/ rpc' = "ready"
         \/ /\ rpc' = "set_upload" /\ rloc'.op = o.op
            /\ rloc'.dev = o.dev /\ rloc'.bind = o.bind
<1>1. CASE Finish(Radio)
  BY <1>1, RadioMoves
<1>2. CASE StartUpload(Radio, o)
  BY <1>2, RadioMoves DEF StartUpload
<1> QED BY <1>1, <1>2 DEF UploadTail

(* The write of an addition's online flag.                                 *)
LEMMA AddWriteHeartSeq ==
  ASSUME TypeOK, SeqInv, AddWriteHeart(Radio)
  PROVE  SeqInv'
<1>1. /\ rpc = "add_heart" /\ rloc.slot \in Slots /\ rloc.dev \in Devices
      /\ script' = script
      /\ UNCHANGED <<Num, ID, Bind_ID, Heart, Learn_Nums, fID, fBind>>
      /\ fHeart' = [fHeart EXCEPT ![rloc.dev] = 1]
  BY ThreadsAssumption DEF AddWriteHeart, TypeOK, rpc, rloc
<1>2. /\ rpc' \in {"ready", "set_upload", "add_main"}
      /\ rpc' # "ready" => MainOp(rloc')
  <2>1. CASE /\ loc' = [loc EXCEPT ![Radio].num = MainNum + 1]
             /\ Goto(Radio, "add_main")
    <3>1. rloc' = [rloc EXCEPT !.num = MainNum + 1]
      BY <2>1, ThreadsAssumption DEF TypeOK, rloc
    <3>2. rloc \in Locals
      BY ThreadsAssumption DEF TypeOK, rloc
    <3>3. rloc'.dev = rloc.dev /\ rloc'.bind = rloc.bind /\ rloc'.op = rloc.op
      BY <3>1, <3>2 DEF Locals
    <3> QED BY <1>1, <2>1, <3>3, RadioMoves DEF SeqInv, ScriptInv, MainOp
  <2>2. CASE UploadTail(Radio, rloc)
    BY <1>1, <2>2, UploadTailMoves DEF SeqInv, ScriptInv, MainOp
  <2> QED BY <2>1, <2>2 DEF AddWriteHeart, rloc
<1>3. SlotInv'
  BY <1>1, <1>2 DEF SeqInv, SlotInv, DelPc
<1>4. KeyInv'
  BY <1>1, <1>2, DevicesAssumption DEF SeqInv, SlotInv, KeyInv, TypeOK
<1>5. ScriptInv'
  BY <1>1, <1>2 DEF SeqInv, ScriptInv
<1> QED BY <1>3, <1>4, <1>5 DEF SeqInv

(* The write of the number of controllers after an addition.               *)
LEMMA AddWriteMainSeq ==
  ASSUME TypeOK, SeqInv, AddWriteMain(Radio)
  PROVE  SeqInv'
<1>1. /\ rpc = "add_main" /\ UploadTail(Radio, rloc) /\ script' = script
      /\ UNCHANGED <<Num, ID, Bind_ID, Heart, Learn_Nums, fID, fBind, fHeart>>
  BY DEF AddWriteMain, rpc, rloc
<1>2. /\ rpc' \in {"ready", "set_upload", "add_main"}
      /\ rpc' # "ready" => MainOp(rloc')
  BY <1>1, UploadTailMoves DEF SeqInv, ScriptInv, MainOp
<1>3. SlotInv' /\ KeyInv'
  BY <1>1, <1>2, QuietSeq DEF SeqInv
<1> QED BY <1>1, <1>2, <1>3 DEF SeqInv, ScriptInv

(* The writes of the online flag and of the upload flag.                   *)
LEMMA FlagWriteSeq ==
  ASSUME TypeOK, SeqInv,
         Flash_Heart_Change(Radio) \/ Flash_UploadFlag_Change(Radio)
  PROVE  SeqInv'
<1>1. CASE Flash_Heart_Change(Radio)
  <2>1. /\ rpc = "set_heart" /\ rpc' = "ready" /\ script' = script
        /\ rloc.slot \in Slots /\ rloc.dev \in Devices
        /\ UNCHANGED <<Num, ID, Bind_ID, Learn_Nums, fID, fBind>>
        /\ fHeart' = [fHeart EXCEPT ![rloc.dev] = rloc.flag]
        /\ Heart' = [Heart EXCEPT ![rloc.slot] = rloc.flag]
    BY <1>1, ThreadsAssumption, RadioMoves DEF Flash_Heart_Change, TypeOK, rpc, rloc
  <2>2. SlotInv'
    BY <2>1 DEF SeqInv, SlotInv, DelPc
  <2>3. KeyInv'
    BY <2>1, DevicesAssumption DEF SeqInv, SlotInv, KeyInv, TypeOK
  <2> QED BY <2>1, <2>2, <2>3 DEF SeqInv, ScriptInv
<1>2. CASE Flash_UploadFlag_Change(Radio)
  <2>1. /\ rpc = "set_upload" /\ rpc' = "ready" /\ script' = script
        /\ UNCHANGED <<Num, ID, Bind_ID, Heart, Learn_Nums, fID, fBind, fHeart>>
    BY <1>2, RadioMoves DEF Flash_UploadFlag_Change, memVars, rpc
  <2>2. SlotInv' /\ KeyInv'
    BY <2>1, QuietSeq DEF SeqInv
  <2> QED BY <2>1, <2>2 DEF SeqInv, ScriptInv
<1> QED BY <1>1, <1>2

(* StartSearch ends the operation or picks a slot of S.                    *)
LEMMA StartSearchMoves ==
  ASSUME TypeOK, NEW o, NEW S, StartSearch(Radio, o, S)
  PROVE  \/ rpc' = "ready"
         \/ /\ rpc' \in {"del_main", "del_id"} /\ rloc'.slot \in S
            /\ rloc'.slot \in Slots
            /\ rloc'.op = o.op /\ rloc'.dev = o.dev /\ rloc'.bind = o.bind
<1>1. CASE Finish(Radio)
  BY <1>1, RadioMoves
<1>2. ASSUME NEW s \in Slots, s \in S, StartSlot(Radio, o, s)
      PROVE  /\ rpc' \in {"del_main", "del_id"} /\ rloc'.slot = s
             /\ rloc'.op = o.op /\ rloc'.dev = o.dev /\ rloc'.bind = o.bind
  <2>1. /\ Goto(Radio, "del_main") \/ Goto(Radio, "del_id")
        /\ \E n : Locate(Radio, o, s, n)
    BY <1>2 DEF StartSlot
  <2> QED BY <2>1, RadioMoves
<1> QED BY <1>1, <1>2 DEF StartSearch, IsLast

(* The four writes of a deletion.                                          *)
LEMMA DelWriteSeq ==
  ASSUME TypeOK, SeqInv,
         \/ DelWriteMain(Radio) \/ DelWriteID(Radio)
         \/ DelWriteBind(Radio) \/ DelWriteUpload(Radio)
  PROVE  SeqInv'
<1>0. /\ script' = script /\ Num' = Num /\ Heart' = Heart
      /\ Learn_Nums' = Learn_Nums /\ fHeart' = fHeart
      /\ rpc # "ready" /\ rloc.slot \in Slots /\ rloc.dev \in Devices
  BY ThreadsAssumption
  DEF DelWriteMain, DelWriteID, DelWriteBind, DelWriteUpload, TypeOK, memVars, rpc, rloc
<1>1. CASE DelWriteMain(Radio)
  <2>1. /\ rpc = "del_main" /\ rpc' = "del_id" /\ rloc' = rloc
        /\ UNCHANGED <<ID, Bind_ID, fID, fBind>>
    BY <1>1, RadioMoves DEF DelWriteMain, memVars, rpc, rloc
  <2> QED BY <1>0, <2>1 DEF SeqInv, ScriptInv, SlotInv, KeyInv, DelPc
<1>2. CASE DelWriteID(Radio)
  <2>1. /\ rpc = "del_id" /\ rpc' = "del_bind" /\ rloc' = rloc
        /\ Bind_ID' = Bind_ID /\ fBind' = fBind
        /\ ID' = [ID EXCEPT ![rloc.slot] = None]
        /\ fID' = [fID EXCEPT ![rloc.slot] = None]
    BY <1>2, RadioMoves DEF DelWriteID, rpc, rloc
  <2>2. SlotInv'
    BY <1>0, <2>1, DevicesAssumption DEF SeqInv, SlotInv, DelPc, TypeOK
  <2>3. KeyInv'
    BY <1>0, <2>1, DevicesAssumption DEF SeqInv, KeyInv, TypeOK, Devices
  <2> QED BY <1>0, <2>1, <2>2, <2>3 DEF SeqInv, ScriptInv
<1>3. CASE DelWriteBind(Radio)
  <2>1. /\ rpc = "del_bind" /\ rpc' = "del_upload" /\ rloc' = rloc
        /\ ID' = ID /\ fID' = fID
        /\ fBind' = [fBind EXCEPT ![rloc.dev] = None]
        /\ Bind_ID' = [Bind_ID EXCEPT ![rloc.slot] = None]
    BY <1>3, RadioMoves DEF DelWriteBind, rpc, rloc
  <2>2. SlotInv'
    BY <1>0, <2>1 DEF SeqInv, SlotInv, DelPc
  <2>3. KeyInv'
    BY <1>0, <2>1, DevicesAssumption
    DEF SeqInv, ScriptInv, MainOp, SlotInv, KeyInv, TypeOK, DelPc
  <2> QED BY <1>0, <2>1, <2>2, <2>3 DEF SeqInv, ScriptInv
<1>4. CASE DelWriteUpload(Radio)
  <2>1. /\ rpc = "del_upload" /\ UNCHANGED <<ID, Bind_ID, fID, fBind>>
        /\ \/ Finish(Radio)
           \/ /\ rloc.op = "delall"
              /\ StartSearch(Radio, rloc, BoundBelow(rloc.dev, rloc.slot))
    BY <1>4 DEF DelWriteUpload, rpc, rloc
  <2>2. \/ rpc' = "ready"
        \/ /\ rpc' \in {"del_main", "del_id"} /\ rloc'.op = "delall"
           /\ rloc'.dev = rloc.dev /\ rloc'.bind = rloc.bind
    BY <2>1, RadioMoves, StartSearchMoves
  <2>3. SlotInv'
    BY <1>0, <2>1, <2>2 DEF SeqInv, SlotInv, DelPc
  <2>4. KeyInv'
    BY <1>0, <2>1, <2>2 DEF SeqInv, KeyInv
  <2>5. MainOp(rloc) /\ (rpc' # "ready" => rloc.op = "delall")
    BY <1>0, <2>1, RadioMoves DEF SeqInv, ScriptInv
  <2>6. rpc' # "ready" => MainOp(rloc')
    BY <2>2, <2>5 DEF MainOp
  <2> QED BY <1>0, <2>3, <2>4, <2>6 DEF SeqInv, ScriptInv
<1> QED BY <1>1, <1>2, <1>3, <1>4

(* Device_Add2Flash_Wifi up to its first write.                            *)
LEMMA StartAddSeq ==
  ASSUME TypeOK, SeqInv, rpc = "ready", NEW o, WellFormed(o), MainOp(o),
         StartAdd(Radio, o), UNCHANGED flashVars
  PROVE  /\ SlotInv' /\ KeyInv'
         /\ rpc' # "ready" => MainOp(rloc')
<1>1. CASE UploadTail(Radio, o) /\ UNCHANGED <<Num, ID, Bind_ID, Heart>>
  <2>1. /\ rpc' \in {"ready", "set_upload", "add_main"}
        /\ rpc' # "ready" => MainOp(rloc')
    BY <1>1, UploadTailMoves DEF MainOp
  <2> QED BY <1>1, <2>1, QuietSeq DEF SeqInv, flashVars
<1>2. CASE Finish(Radio) /\ UNCHANGED <<Num, ID, Bind_ID, Heart>>
  <2>1. rpc' = "ready"
    BY <1>2, RadioMoves
  <2> QED BY <1>2, <2>1, QuietSeq DEF SeqInv, flashVars
<1>3. ASSUME NEW s \in Slots, IsFirst(s, Free), ~Registered(o.dev),
             Locate(Radio, o, s, 0),
             \/ /\ s > Num /\ Num' = s /\ Goto(Radio, "add_nums")
                /\ UNCHANGED <<ID, Bind_ID, Heart>>
             \/ s <= Num /\ Store(Radio, o, s) /\ UNCHANGED Num
      PROVE  SlotInv' /\ KeyInv' /\ MainOp(rloc')
  <2>1. /\ rloc'.slot = s /\ rloc'.dev = o.dev /\ rloc'.bind = o.bind
        /\ rloc'.op = o.op /\ o.dev \in Devices
        /\ UNCHANGED <<Learn_Nums, fID, fBind, fHeart>>
    BY <1>3, RadioMoves DEF flashVars, WellFormed
  <2>2. ID[s] = None /\ \A r \in Slots : ID[r] # o.dev
    BY <1>3, <2>1, DevicesAssumption
    DEF IsFirst, Free, Registered, SlotsOf, SeqInv, SlotInv
  <2>3. CASE s > Num /\ Num' = s /\ Goto(Radio, "add_nums")
             /\ UNCHANGED <<ID, Bind_ID, Heart>>
    <3>1. rpc' = "add_nums"
      BY <2>3, RadioMoves
    <3>2. SlotInv'
      BY <2>1, <2>2, <2>3, <3>1, SizeAssumption
      DEF SeqInv, SlotInv, DelPc, TypeOK, Slots
    <3>3. KeyInv'
      BY <2>1, <2>3, <3>1 DEF SeqInv, KeyInv
    <3> QED BY <2>1, <3>2, <3>3 DEF MainOp
  <2>4. CASE s <= Num /\ Store(Radio, o, s) /\ UNCHANGED Num
    <3>1. /\ rpc' = "add_id" /\ ID' = [ID EXCEPT ![s] = o.dev]
          /\ Bind_ID' = [Bind_ID EXCEPT ![s] = o.bind]
          /\ Heart' = [Heart EXCEPT ![s] = 1]
      BY <2>4, RadioMoves DEF Store
    <3>2. SlotInv'
      BY <2>1, <2>2, <2>4, <3>1, DevicesAssumption DEF SeqInv, SlotInv, DelPc, TypeOK
    <3>3. KeyInv'
      BY <2>1, <2>2, <3>1, DevicesAssumption DEF SeqInv, KeyInv, MainOp, TypeOK
    <3> QED BY <2>1, <3>2, <3>3 DEF MainOp
  <2> QED BY <1>3, <2>3, <2>4
<1> QED BY <1>1, <1>2, <1>3 DEF StartAdd

(* Starting any operation.                                                 *)
LEMMA BeginSeq ==
  ASSUME TypeOK, SeqInv, Begin(Radio)
  PROVE  SeqInv'
<1> DEFINE o == Head(script[Radio])
<1>1. /\ o \in Op /\ MainOp(o) /\ rpc = "ready" /\ UNCHANGED flashVars
      /\ script'[Radio] \in Seq({x \in Op : MainOp(x)})
  BY ThreadsAssumption DEF Begin, TypeOK, SeqInv, ScriptInv, rpc
<1>2. WellFormed(o)
  BY <1>1 DEF Op, WellFormed
<1>3. UNCHANGED <<Learn_Nums, fID, fBind, fHeart>>
  BY <1>1 DEF flashVars
<1> SUFFICES SlotInv' /\ KeyInv' /\ (rpc' # "ready" => MainOp(rloc'))
  BY <1>1 DEF SeqInv, ScriptInv
<1> HIDE DEF o
<1>4. CASE StartAdd(Radio, o)
  BY <1>1, <1>2, <1>4, StartAddSeq
<1>5. CASE Del_Device(Radio, o) \/ Del_MainBind(Radio, o)
  <2> DEFINE S == IF o.op = "del" THEN SlotsOf(o.dev) ELSE BoundBelow(o.dev, Num + 1)
  <2>1. /\ StartSearch(Radio, o, S) /\ o.op \in {"del", "delall"}
        /\ UNCHANGED <<Num, ID, Bind_ID, Heart>>
    BY <1>5 DEF Del_Device, Del_MainBind
  <2>2. \/ rpc' = "ready"
        \/ /\ rpc' \in {"del_main", "del_id"} /\ rloc'.slot \in S
           /\ rloc'.op = o.op /\ rloc'.dev = o.dev /\ rloc'.bind = o.bind
    BY <2>1, StartSearchMoves
  <2>3. SlotInv'
    BY <1>1, <1>3, <2>1, <2>2 DEF SeqInv, SlotInv, DelPc, SlotsOf
  <2>4. KeyInv'
    BY <1>1, <1>3, <2>1, <2>2 DEF SeqInv, KeyInv
  <2> QED BY <1>1, <2>2, <2>3, <2>4 DEF MainOp
<1>6. CASE Flash_Set_Heart(Radio, o)
  <2>1. UNCHANGED <<Num, ID, Bind_ID, Heart>>
    BY <1>6 DEF Flash_Set_Heart, memVars
  <2>2. CASE Finish(Radio)
    <3>1. rpc' = "ready"
      BY <2>2, RadioMoves
    <3> QED BY <1>1, <1>3, <2>1, <3>1, QuietSeq DEF SeqInv
  <2>3. ASSUME NEW s \in Slots, IsLast(s, SlotsOf(o.dev)),
               Locate(Radio, o, s, 0), Goto(Radio, "set_heart")
        PROVE  SlotInv' /\ KeyInv' /\ MainOp(rloc')
    <3>1. /\ rpc' = "set_heart" /\ rloc'.slot = s /\ rloc'.dev = o.dev
          /\ rloc'.bind = o.bind /\ rloc'.op = o.op /\ ID[s] = o.dev
      BY <2>3, RadioMoves DEF IsLast, SlotsOf
    <3>2. SlotInv'
      BY <1>1, <1>3, <2>1, <3>1 DEF SeqInv, SlotInv, DelPc
    <3>3. KeyInv'
      BY <1>1, <1>3, <2>1, <3>1 DEF SeqInv, KeyInv
    <3> QED BY <1>1, <3>1, <3>2, <3>3 DEF MainOp
  <2> QED BY <1>6, <2>2, <2>3 DEF Flash_Set_Heart
<1>7. CASE Flash_Set_UploadFlag(Radio, o)
  <2>1. UploadTail(Radio, o) /\ UNCHANGED <<Num, ID, Bind_ID, Heart>>
    BY <1>7 DEF Flash_Set_UploadFlag, UploadTail
  <2>2. /\ rpc' \in {"ready", "set_upload", "add_main"}
        /\ rpc' # "ready" => MainOp(rloc')
    BY <1>1, <2>1, UploadTailMoves DEF MainOp
  <2> QED BY <1>1, <1>3, <2>1, <2>2, QuietSeq DEF SeqInv
<1> QED BY <1>4, <1>5, <1>6, <1>7 DEF Begin, o

(* LoadDevice2Memory after a reset.                                        *)
LEMMA ResetSeq == TypeOK /\ SeqInv /\ Reset => SeqInv'
<1> SUFFICES ASSUME TypeOK, SeqInv, Reset PROVE SeqInv'
  OBVIOUS
<1>1. /\ rpc' = "ready" /\ script'[Radio] = <<>> /\ UNCHANGED flashVars
      /\ Num' = Learn_Nums
  BY ThreadsAssumption DEF Reset, LoadDevice2Memory, rpc
<1>2. ID' = fID
  <2>1. \A s \in Slots : fID[s] # None => s <= Learn_Nums
    BY DEF SeqInv, SlotInv
  <2>2. ID' = [s \in Slots |-> IF s <= Learn_Nums THEN fID[s] ELSE None]
    BY DEF Reset, LoadDevice2Memory
  <2> QED BY <2>1, <2>2 DEF TypeOK
<1>3. \A s \in Slots : fID[s] # None =>
        Bind_ID'[s] = fBind[fID[s]] /\ Heart'[s] = fHeart[fID[s]]
  BY <1>2 DEF Reset, LoadDevice2Memory, SeqInv, SlotInv
<1>4. SlotInv'
  BY <1>1, <1>2, DevicesAssumption DEF SeqInv, SlotInv, DelPc, flashVars, TypeOK
<1>5. KeyInv'
  BY <1>1, <1>2, <1>3, DevicesAssumption DEF SeqInv, KeyInv, flashVars, Devices
<1> QED BY <1>1, <1>4, <1>5 DEF SeqInv, ScriptInv

(* Every handler runs operations that bind no controller and delete with   *)
(* all that is bound to it only a controller.                              *)
LEMMA MainScripts ==
  ASSUME TypeOK, RadioHandler \/ OtherHandler(Radio)
  PROVE  \E ops \in Seq({o \in Op : MainOp(o)}) : Run(Radio, ops)
<1> DEFINE M == {o \in Op : MainOp(o)}
<1>1. /\ \A m \in Mains : DelAllOp(m) \in M
      /\ \A d \in Devices : DelOp(d) \in M /\ AddOp(d, None) \in M
      /\ \A d \in Devices, h \in Flag : HeartOp(d, h) \in M /\ UploadOp(d, h) \in M
      /\ \A d \in Terminals, m \in Mains : AddOp(d, m) \in M
  BY DevicesAssumption
  DEF MainOp, AddOp, DelAllOp, DelOp, HeartOp, UploadOp, Devices, Op, Flag
<1>2. \A x, y, z \in M : <<x>> \in Seq(M) /\ <<x, y>> \in Seq(M) /\ <<x, y, z>> \in Seq(M)
  OBVIOUS
<1> HIDE DEF M
<1>3. Mains \subseteq Devices /\ Terminals \subseteq Devices /\ 0 \in Flag /\ 1 \in Flag
  BY DEF Devices, Flag
<1>4. ASSUME NEW m \in Mains, Device_Learn(m)
      PROVE  \E ops \in Seq(M) : Run(Radio, ops)
  <2>1. <<DelOp(m), AddOp(m, None), HeartOp(m, 1)>> \in Seq(M)
    BY <1>1, <1>2, <1>3
  <2> QED BY <1>4, <2>1 DEF Device_Learn
<1>5. ASSUME NEW m \in Mains, SyncDeleteAll(m)
      PROVE  \E ops \in Seq(M) : Run(Radio, ops)
  <2>1. <<HeartOp(m, 1), DelAllOp(m)>> \in Seq(M)
    BY <1>1, <1>2, <1>3
  <2> QED BY <1>5, <2>1 DEF SyncDeleteAll
<1>6. ASSUME NEW m \in Mains, NEW d \in Terminals,
             SyncHeart(m, d) \/ SyncDelete(m, d) \/ WarnOffline(m, d)
      PROVE  \E ops \in Seq(M) : Run(Radio, ops)
  <2>1. \A h \in Flag : <<HeartOp(m, 1), HeartOp(d, h)>> \in Seq(M)
    BY <1>1, <1>2, <1>3
  <2>2. <<HeartOp(m, 1), DelOp(d)>> \in Seq(M)
    BY <1>1, <1>2, <1>3
  <2> QED BY <1>3, <1>6, <2>1, <2>2 DEF SyncHeart, SyncDelete, WarnOffline
<1>7. ASSUME NEW m \in Mains, NEW d \in Terminals, NEW h \in Flag, SyncAdd(m, d, h)
      PROVE  \E ops \in Seq(M) : Run(Radio, ops)
  <2>1. <<HeartOp(m, 1), AddOp(d, m), HeartOp(d, h)>> \in Seq(M)
    BY <1>1, <1>2, <1>3
  <2> QED BY <1>7, <2>1 DEF SyncAdd
<1>8. ASSUME NEW d \in Devices, Remote_Delete(Radio, d) \/ Self_Bind_Upload(Radio, d)
      PROVE  \E ops \in Seq(M) : Run(Radio, ops)
  <2>1. <<DelOp(d)>> \in Seq(M) /\ <<UploadOp(d, 1)>> \in Seq(M)
    BY <1>1, <1>2, <1>3
  <2> QED BY <1>8, <2>1 DEF Remote_Delete, Self_Bind_Upload
<1>9. ASSUME NEW m \in Mains, NEW h \in Flag, HeartResult(Radio, m, h)
      PROVE  \E ops \in Seq(M) : Run(Radio, ops)
  <2>1. <<HeartOp(m, h)>> \in Seq(M)
    BY <1>1, <1>2, <1>3
  <2> QED BY <1>9, <2>1 DEF HeartResult
<1>10. ASSUME NEW d \in Devices, NormalSolve(d)
       PROVE  \E ops \in Seq(M) : Run(Radio, ops)
  <2>1. <<HeartOp(d, 1)>> \in Seq(M)
    BY <1>1, <1>2, <1>3
  <2> QED BY <1>10, <2>1 DEF NormalSolve
<1>11. ASSUME SyncDevice(Radio)
       PROVE  \E ops \in Seq(M) : Run(Radio, ops)
  <2>1. PICK s \in Slots : ID[s] # None /\ Run(Radio, <<AddOp(ID[s], None)>>)
    BY <1>11 DEF SyncDevice
  <2>2. <<AddOp(ID[s], None)>> \in Seq(M)
    BY <1>1, <1>2, <2>1 DEF TypeOK
  <2> QED BY <2>1, <2>2
<1>12. CASE RadioHandler
  BY <1>12, <1>4, <1>5, <1>6, <1>7, <1>10 DEF RadioHandler, M
<1> QED BY <1>8, <1>9, <1>11, <1>12 DEF OtherHandler, M

(* A step of the only thread, or a reset, keeps the invariant.             *)
LEMMA NextSeq ==
  ASSUME Threads = {Radio}, TypeOK, SeqInv, [Next]_vars
  PROVE  SeqInv'
<1>1. CASE RadioHandler \/ OtherHandler(Radio)
  <2>1. \E ops \in Seq({o \in Op : MainOp(o)}) : Run(Radio, ops)
    BY <1>1, MainScripts
  <2> QED BY <2>1, HandlerSeq
<1>2. CASE Begin(Radio)
  BY <1>2, BeginSeq
<1>3. CASE Write(Radio)
  BY <1>3, LearnNumsSeq, AddWriteSeq, AddWriteHeartSeq, AddWriteMainSeq,
     FlagWriteSeq, DelWriteSeq DEF Write
<1>4. CASE Reset
  BY <1>4, ResetSeq
<1>5. CASE UNCHANGED vars
  BY <1>5 DEF vars, SeqInv, ScriptInv, SlotInv, KeyInv, rpc, rloc
<1> QED BY <1>1, <1>2, <1>3, <1>4, <1>5 DEF Next

(* The table and the store agree in every reachable state of one thread.   *)
LEMMA SequentialInvariant ==
  ASSUME Threads = {Radio}
  PROVE  Spec => [](TypeOK /\ SeqInv)
<1>1. Init => TypeOK /\ SeqInv
  BY InitType, InitSeq
<1>2. TypeOK /\ SeqInv /\ [Next]_vars => (TypeOK /\ SeqInv)'
  BY NextType, NextSeq
<1> QED BY <1>1, <1>2, PTL DEF Spec

(* When all the operations run in one thread, a device keeps its slot, its *)
(* controller and its online flag through a reset at any moment, except    *)
(* the one device whose keys are being written (LoadDevice2Memory after    *)
(* MainAdd_Flash, Del_Device, Del_MainBind or Flash_Set_Heart stopped at   *)
(* any write).                                                             *)
THEOREM SequentialReset ==
  ASSUME Threads = {Radio}
  PROVE  Spec => []ResetKeepsOthers
<1>1. ASSUME TypeOK, SeqInv PROVE ResetKeepsOthers
  <2>1. UNION {BeingAdded(t) : t \in Threads} = BeingAdded(Radio)
    OBVIOUS
  <2> SUFFICES ASSUME NEW d \in Devices, d \notin BeingAdded(Radio), NEW s \in Slots
               PROVE  /\ ID[s] = d <=> fID[s] = d
                      /\ ID[s] = d => /\ s <= Learn_Nums
                                      /\ Heart[s] = fHeart[d]
                                      /\ Bind_ID[s] = fBind[d]
    BY <2>1 DEF ResetKeepsOthers
  <2>2. rpc \in {"add_id", "add_bind", "add_heart"} => d # rloc.dev
    BY DEF BeingAdded, rpc, rloc
  <2>3. ID[s] = d <=> fID[s] = d
    BY <1>1, <2>2, DevicesAssumption DEF SeqInv, SlotInv
  <2>4. ID[s] = d => s <= Learn_Nums
    BY <1>1, DevicesAssumption DEF SeqInv, SlotInv
  <2>5. ID[s] = d => Heart[s] = fHeart[d] /\ Bind_ID[s] = fBind[d]
    BY <1>1, <2>2, DevicesAssumption DEF SeqInv, SlotInv, KeyInv
  <2> QED BY <2>3, <2>4, <2>5
<1> QED BY <1>1, SequentialInvariant, PTL

(* When all the operations run in one thread, no id is ever in two slots,  *)
(* in RAM or in the store, and every device is in a slot that the searches *)
(* visit: Flash_Get_Key_Valid before every addition is enough, whatever    *)
(* write a reset falls on.                                                 *)
THEOREM SequentialSlots ==
  ASSUME Threads = {Radio}
  PROVE  Spec => [](UniqueIDs /\ WithinNum)
<1>1. ASSUME TypeOK, SeqInv PROVE UniqueIDs /\ WithinNum
  <2>1. ASSUME NEW r \in Slots, NEW s \in Slots, fID[r] = fID[s], fID[r] # None
        PROVE  r = s
    BY <1>1, <2>1 DEF SeqInv, SlotInv
  <2> QED BY <1>1, <2>1 DEF SeqInv, SlotInv, UniqueIDs, WithinNum
<1> QED BY <1>1, SequentialInvariant, PTL
-----------------------------------------------------------------------------
(* The counter of controllers.                                             *)

(* Writing d into slot s changes the number of controllers by one at most. *)
LEMMA MainSlotsChange ==
  ASSUME NEW f \in [Slots -> Devices \cup {None}], NEW s \in Slots,
         NEW d \in Devices \cup {None}
  PROVE  LET n == Cardinality(MainSlots(f))
             k == Cardinality(MainSlots([f EXCEPT ![s] = d]))
         IN  /\ n \in Nat /\ k \in Nat
             /\ (d \in Mains /\ f[s] \notin Mains) => k = n + 1
             /\ (d \notin Mains /\ f[s] \in Mains) => k = n - 1
             /\ (d \in Mains <=> f[s] \in Mains) => k = n
             /\ f[s] \in Mains => n > 0
<1> DEFINE g == [f EXCEPT ![s] = d]
<1>1. IsFiniteSet(Slots)
  BY SizeAssumption, FS_Interval DEF Slots
<1>2. IsFiniteSet(MainSlots(f)) /\ IsFiniteSet(MainSlots(g))
  BY <1>1, FS_Subset DEF MainSlots
<1>3. Cardinality(MainSlots(f)) \in Nat /\ Cardinality(MainSlots(g)) \in Nat
  BY <1>2, FS_CardinalityType
<1>4. CASE d \in Mains /\ f[s] \notin Mains
  <2>1. MainSlots(g) = MainSlots(f) \cup {s} /\ s \notin MainSlots(f)
    BY <1>4 DEF MainSlots
  <2> QED BY <1>2, <1>3, <1>4, <2>1, FS_AddElement
<1>5. CASE d \notin Mains /\ f[s] \in Mains
  <2>1. MainSlots(g) = MainSlots(f) \ {s} /\ s \in MainSlots(f)
    BY <1>5 DEF MainSlots
  <2>2. Cardinality(MainSlots(g)) = Cardinality(MainSlots(f)) - 1
    BY <1>2, <2>1, FS_RemoveElement
  <2> QED BY <1>3, <1>5, <2>2
<1>6. CASE d \in Mains <=> f[s] \in Mains
  <2>1. MainSlots(g) = MainSlots(f)
    BY <1>6 DEF MainSlots
  <2>2. f[s] \in Mains => MainSlots(f) # {}
    BY DEF MainSlots
  <2>3. f[s] \in Mains => Cardinality(MainSlots(f)) # 0
    BY <1>2, <2>2, FS_EmptySet
  <2> QED BY <1>3, <1>6, <2>1, <2>3
<1> QED BY <1>4, <1>5, <1>6
(* In a state of SeqInv both numbers of controllers are natural numbers,   *)
(* and equal unless the id of an addition has not been written yet.        *)
LEMMA MainCounts ==
  ASSUME TypeOK, SeqInv
  PROVE  /\ Cardinality(MainSlots(ID)) \in Nat
         /\ Cardinality(MainSlots(fID)) \in Nat
         /\ \A s \in Slots : ID[s] \in Mains => Cardinality(MainSlots(ID)) > 0
         /\ rpc # "add_id" => MainSlots(ID) = MainSlots(fID)
<1>1. 1 \in Slots
  BY SizeAssumption DEF Slots
<1>2. ID \in [Slots -> Devices \cup {None}] /\ fID \in [Slots -> Devices \cup {None}]
  BY DEF TypeOK
<1>3. Cardinality(MainSlots(ID)) \in Nat /\ Cardinality(MainSlots(fID)) \in Nat
  BY <1>1, <1>2, MainSlotsChange
<1>4. \A s \in Slots : ID[s] \in Mains => Cardinality(MainSlots(ID)) > 0
  BY <1>2, MainSlotsChange
<1>5. rpc # "add_id" => MainSlots(ID) = MainSlots(fID)
  BY DEF SeqInv, SlotInv, MainSlots
<1> QED BY <1>3, <1>4, <1>5

(* A step that changes neither slots nor counters, and after which neither *)
(* an addition nor a deletion has the table ahead of its counter.          *)
LEMMA CountQuiet ==
  ASSUME CountInv, UNCHANGED <<ID, fID, MainNum, Main_Nums>>,
         rpc \notin {"add_main", "del_main"},
         rpc' \notin {"add_id", "add_bind", "add_heart", "add_main",
                      "del_main", "del_id"}
  PROVE  CountInv'
<1>1. MainSlots(ID)' = MainSlots(ID) /\ MainSlots(fID)' = MainSlots(fID)
  BY DEF MainSlots
<1> QED BY <1>1 DEF CountInv

(* Store, as part of either addition step.                                 *)
LEMMA StoreCount ==
  ASSUME TypeOK, SeqInv, CountInv, rpc \in {"ready", "add_nums"},
         NEW s \in Slots, NEW o, o.dev \in Devices, ID[s] = None,
         Store(Radio, o, s), rloc'.dev = o.dev,
         UNCHANGED <<MainNum, Main_Nums, fID>>
  PROVE  CountInv'
<1>1. rpc' = "add_id" /\ ID' = [ID EXCEPT ![s] = o.dev]
  BY RadioMoves DEF Store
<1>2. /\ o.dev \in Mains =>
           Cardinality(MainSlots(ID')) = Cardinality(MainSlots(ID)) + 1
      /\ o.dev \notin Mains =>
           Cardinality(MainSlots(ID')) = Cardinality(MainSlots(ID))
  <2>1. ID \in [Slots -> Devices \cup {None}] /\ ID[s] \notin Mains
    BY DevicesAssumption DEF TypeOK, Devices
  <2> QED BY <1>1, <2>1, MainSlotsChange
<1>3. MainNum \in Nat /\ Main_Nums \in Nat /\ Cardinality(MainSlots(ID)) \in Nat
  BY MainCounts DEF TypeOK
<1> QED BY <1>1, <1>2, <1>3 DEF CountInv

(* StartSearch, at the start of a deletion or between two slots of one.    *)
LEMMA SearchCount ==
  ASSUME TypeOK, SeqInv, CountInv, rpc \in {"ready", "del_upload"},
         NEW o, o.op \in {"del", "delall"}, MainOp(o),
         NEW S, o.op = "del" => \A s \in S : ID[s] = o.dev,
         StartSearch(Radio, o, S), UNCHANGED <<ID, fID, Main_Nums>>
  PROVE  CountInv'
<1>1. CASE Finish(Radio) /\ UNCHANGED MainNum
  <2>1. rpc' = "ready"
    BY <1>1, RadioMoves
  <2> QED BY <1>1, <2>1, CountQuiet
<1>2. ASSUME NEW s \in Slots, s \in S, StartSlot(Radio, o, s)
      PROVE  CountInv'
  <2>0. /\ MainNum \in Nat /\ Cardinality(MainSlots(ID)) \in Nat
        /\ ID[s] \in Mains => Cardinality(MainSlots(ID)) > 0
    BY <1>2, MainCounts DEF TypeOK
  <2>1. CASE MainNum > 0 /\ MainNum' = MainNum - 1
             /\ Locate(Radio, o, s, MainNum - 1) /\ Goto(Radio, "del_main")
    <3>1. rpc' = "del_main" /\ rloc'.slot = s /\ rloc'.num = MainNum - 1
      BY <2>1, RadioMoves
    <3>2. MainSlots(ID') = MainSlots(ID) /\ MainSlots(fID') = MainSlots(fID)
      OBVIOUS
    <3>3. rpc = "ready" \/ rpc = "del_upload"
      OBVIOUS
    <3> QED BY <2>0, <2>1, <3>1, <3>2, <3>3 DEF CountInv
  <2>2. CASE ~(o.dev \in Mains /\ MainNum > 0) /\ Locate(Radio, o, s, 0)
             /\ Goto(Radio, "del_id") /\ UNCHANGED MainNum
    <3>1. rpc' = "del_id" /\ rloc'.slot = s
      BY <2>2, RadioMoves
    <3>2. ID[s] \in Mains => MainNum = 0
      BY <1>2, <2>0, <2>2 DEF MainOp
    <3>3. MainSlots(ID') = MainSlots(ID) /\ MainSlots(fID') = MainSlots(fID)
      OBVIOUS
    <3> QED BY <2>0, <2>2, <3>1, <3>2, <3>3 DEF CountInv
  <2> QED BY <1>2, <2>1, <2>2 DEF StartSlot
<1> QED BY <1>1, <1>2 DEF StartSearch, IsLast

(* Every operation of the thread up to its first write.                    *)
LEMMA BeginCount ==
  ASSUME TypeOK, SeqInv, CountInv, Begin(Radio)
  PROVE  CountInv'
<1> DEFINE o == Head(script[Radio])
<1>1. o \in Op /\ MainOp(o) /\ rpc = "ready" /\ UNCHANGED <<Main_Nums, fID>>
  BY ThreadsAssumption DEF Begin, TypeOK, SeqInv, ScriptInv, rpc, flashVars
<1>2. o.dev \in Devices
  BY <1>1 DEF Op
<1> HIDE DEF o
<1>3. CASE StartAdd(Radio, o)
  <2>1. UNCHANGED MainNum
    BY <1>3 DEF StartAdd
  <2>2. CASE (UploadTail(Radio, o) \/ Finish(Radio)) /\ UNCHANGED ID
    <3>1. rpc' \in {"ready", "set_upload"}
      BY <2>2, RadioMoves, UploadTailMoves
    <3> QED BY <1>1, <2>1, <2>2, <3>1, CountQuiet
  <2>3. ASSUME NEW s \in Slots, IsFirst(s, Free), Locate(Radio, o, s, 0),
               \/ Goto(Radio, "add_nums") /\ UNCHANGED ID
               \/ Store(Radio, o, s)
        PROVE  CountInv'
    <3>1. ID[s] = None /\ rloc'.dev = o.dev
      BY <2>3, RadioMoves DEF IsFirst, Free
    <3>2. CASE Goto(Radio, "add_nums") /\ UNCHANGED ID
      <4>1. rpc' = "add_nums"
        BY <3>2, RadioMoves
      <4> QED BY <1>1, <2>1, <3>2, <4>1, CountQuiet
    <3>3. CASE Store(Radio, o, s)
      BY <1>1, <1>2, <2>1, <3>1, <3>3, StoreCount
    <3> QED BY <2>3, <3>2, <3>3
  <2> QED BY <1>3, <2>2, <2>3 DEF StartAdd
<1>4. CASE Del_Device(Radio, o)
  BY <1>1, <1>4, SearchCount DEF Del_Device, SlotsOf
<1>5. CASE Del_MainBind(Radio, o)
  BY <1>1, <1>5, SearchCount DEF Del_MainBind
<1>6. CASE Flash_Set_Heart(Radio, o)
  <2>1. UNCHANGED <<ID, MainNum>> /\ rpc' \in {"ready", "set_heart"}
    BY <1>6, RadioMoves DEF Flash_Set_Heart, memVars
  <2> QED BY <1>1, <2>1, CountQuiet
<1>7. CASE Flash_Set_UploadFlag(Radio, o)
  <2>1. UNCHANGED <<ID, MainNum>> /\ rpc' \in {"ready", "set_upload"}
    BY <1>7, RadioMoves DEF Flash_Set_UploadFlag, StartUpload
  <2> QED BY <1>1, <2>1, CountQuiet
<1> QED BY <1>3, <1>4, <1>5, <1>6, <1>7 DEF Begin, o

(* Every write of an addition.                                             *)
LEMMA AddCount ==
  ASSUME TypeOK, SeqInv, CountInv,
         \/ Flash_LearnNums_Change(Radio) \/ AddWriteID(Radio)
         \/ AddWriteBind(Radio) \/ AddWriteHeart(Radio) \/ AddWriteMain(Radio)
  PROVE  CountInv'
<1>0. /\ rpc # "ready" /\ rloc.slot \in Slots /\ rloc.dev \in Devices
      /\ MainNum \in Nat /\ Main_Nums \in Nat
      /\ Cardinality(MainSlots(ID)) \in Nat /\ Cardinality(MainSlots(fID)) \in Nat
  BY ThreadsAssumption, MainCounts
  DEF Flash_LearnNums_Change, AddWriteID, AddWriteBind, AddWriteHeart,
      AddWriteMain, TypeOK, rpc, rloc
<1>1. CASE Flash_LearnNums_Change(Radio)
  <2>1. /\ rpc = "add_nums" /\ rloc' = rloc /\ ID[rloc.slot] = None
        /\ Store(Radio, rloc, rloc.slot) /\ UNCHANGED <<MainNum, Main_Nums, fID>>
    BY <1>1 DEF Flash_LearnNums_Change, SeqInv, SlotInv, rpc, rloc
  <2> QED BY <1>0, <2>1, StoreCount
<1>2. CASE AddWriteID(Radio)
  <2>1. /\ rpc = "add_id" /\ rpc' = "add_bind" /\ rloc' = rloc
        /\ UNCHANGED <<ID, MainNum, Main_Nums>>
        /\ fID' = [fID EXCEPT ![rloc.slot] = rloc.dev] /\ fID[rloc.slot] = None
    BY <1>2, RadioMoves DEF AddWriteID, memVars, SeqInv, SlotInv, rpc, rloc
  <2>2. Cardinality(MainSlots(fID')) >= Cardinality(MainSlots(fID))
    <3>1. fID \in [Slots -> Devices \cup {None}] /\ fID[rloc.slot] \notin Mains
      BY <2>1, DevicesAssumption DEF TypeOK, Devices
    <3>2. \/ Cardinality(MainSlots(fID')) = Cardinality(MainSlots(fID)) + 1
          \/ Cardinality(MainSlots(fID')) = Cardinality(MainSlots(fID))
      BY <1>0, <2>1, <3>1, MainSlotsChange
    <3> QED BY <1>0, <3>2
  <2>3. Cardinality(MainSlots(fID')) \in Nat
    BY <1>0, <2>1, MainSlotsChange DEF TypeOK
  <2>4. MainSlots(ID') = MainSlots(ID)
    BY <2>1
  <2> QED BY <1>0, <2>1, <2>2, <2>3, <2>4 DEF CountInv
<1>3. CASE AddWriteBind(Radio)
  <2>1. /\ rpc = "add_bind" /\ rpc' = "add_heart" /\ rloc' = rloc
        /\ UNCHANGED <<ID, fID, MainNum, Main_Nums>>
    BY <1>3, RadioMoves DEF AddWriteBind, memVars, rpc, rloc
  <2> QED BY <2>1 DEF CountInv, MainSlots
<1>4. CASE AddWriteHeart(Radio)
  <2>1. rpc = "add_heart" /\ UNCHANGED <<ID, fID, Main_Nums>>
    BY <1>4 DEF AddWriteHeart, rpc
  <2>2. CASE /\ rloc.dev \in Mains /\ MainNum' = MainNum + 1
             /\ loc' = [loc EXCEPT ![Radio].num = MainNum + 1]
             /\ Goto(Radio, "add_main")
    <3>1. rpc' = "add_main" /\ rloc'.num = MainNum + 1
      <4>1. rloc' = [rloc EXCEPT !.num = MainNum + 1] /\ rloc \in Locals
        BY <2>2, ThreadsAssumption DEF TypeOK, rloc
      <4> QED BY <2>2, <4>1, RadioMoves DEF Locals
    <3>2. MainSlots(ID') = MainSlots(ID) /\ MainSlots(fID') = MainSlots(fID)
      BY <2>1
    <3> QED BY <1>0, <2>1, <2>2, <3>1, <3>2 DEF CountInv
  <2>3. CASE UploadTail(Radio, rloc) /\ UNCHANGED MainNum
    <3>1. rpc' \in {"ready", "set_upload"}
      BY <2>3, UploadTailMoves
    <3> QED BY <2>1, <2>3, <3>1, CountQuiet
  <2> QED BY <1>4, <2>2, <2>3 DEF AddWriteHeart, rloc
<1>5. CASE AddWriteMain(Radio)
  <2>1. /\ rpc = "add_main" /\ UNCHANGED <<ID, fID, MainNum>>
        /\ Main_Nums' = rloc.num /\ rpc' \in {"ready", "set_upload"}
    BY <1>5, UploadTailMoves DEF AddWriteMain, rpc, rloc
  <2>2. MainSlots(ID') = MainSlots(ID) /\ MainSlots(fID') = MainSlots(ID)
    BY <2>1, MainCounts
  <2> QED BY <1>0, <2>1, <2>2 DEF CountInv
<1> QED BY <1>1, <1>2, <1>3, <1>4, <1>5

(* Every write of a deletion and of a flag.                                *)
LEMMA DelCount ==
  ASSUME TypeOK, SeqInv, CountInv,
         \/ DelWriteMain(Radio) \/ DelWriteID(Radio)
         \/ DelWriteBind(Radio) \/ DelWriteUpload(Radio)
         \/ Flash_Heart_Change(Radio) \/ Flash_UploadFlag_Change(Radio)
  PROVE  CountInv'
<1>0. /\ rpc # "ready" /\ rloc.slot \in Slots
      /\ MainNum \in Nat /\ Main_Nums \in Nat
      /\ Cardinality(MainSlots(ID)) \in Nat /\ Cardinality(MainSlots(fID)) \in Nat
  BY ThreadsAssumption, MainCounts
  DEF DelWriteMain, DelWriteID, DelWriteBind, DelWriteUpload,
      Flash_Heart_Change, Flash_UploadFlag_Change, TypeOK, rpc, rloc
<1>1. CASE DelWriteMain(Radio)
  <2>1. /\ rpc = "del_main" /\ rpc' = "del_id" /\ rloc' = rloc
        /\ UNCHANGED <<ID, fID, MainNum>> /\ Main_Nums' = rloc.num
    BY <1>1, RadioMoves DEF DelWriteMain, memVars, rpc, rloc
  <2>2. MainSlots(ID') = MainSlots(ID) /\ MainSlots(fID') = MainSlots(ID)
    BY <2>1, MainCounts
  <2> QED BY <1>0, <2>1, <2>2 DEF CountInv
<1>2. CASE DelWriteID(Radio)
  <2>1. /\ rpc = "del_id" /\ rpc' = "del_bind" /\ rloc' = rloc
        /\ UNCHANGED <<MainNum, Main_Nums>>
        /\ ID' = [ID EXCEPT ![rloc.slot] = None]
        /\ fID' = [fID EXCEPT ![rloc.slot] = None]
    BY <1>2, RadioMoves DEF DelWriteID, rpc, rloc
  <2>2. /\ ID[rloc.slot] \in Mains =>
             Cardinality(MainSlots(ID')) = Cardinality(MainSlots(ID)) - 1
        /\ ID[rloc.slot] \notin Mains =>
             Cardinality(MainSlots(ID')) = Cardinality(MainSlots(ID))
    <3>1. ID \in [Slots -> Devices \cup {None}] /\ None \notin Mains
      BY DevicesAssumption DEF TypeOK, Devices
    <3> QED BY <1>0, <2>1, <3>1, MainSlotsChange
  <2>3. MainSlots(fID') = MainSlots(ID')
    BY <2>1 DEF MainSlots, SeqInv, SlotInv, TypeOK
  <2> QED BY <1>0, <2>1, <2>2, <2>3 DEF CountInv
<1>3. CASE DelWriteBind(Radio)
  <2>1. /\ rpc = "del_bind" /\ rpc' = "del_upload"
        /\ UNCHANGED <<ID, fID, MainNum, Main_Nums>>
    BY <1>3, RadioMoves DEF DelWriteBind, rpc
  <2> QED BY <2>1, CountQuiet
<1>4. CASE DelWriteUpload(Radio)
  <2>1. rpc = "del_upload" /\ UNCHANGED <<ID, fID, Main_Nums>> /\ MainOp(rloc)
    BY <1>0, <1>4 DEF DelWriteUpload, SeqInv, ScriptInv, rpc, rloc
  <2>2. CASE Finish(Radio) /\ UNCHANGED MainNum
    <3>1. rpc' = "ready"
      BY <2>2, RadioMoves
    <3> QED BY <2>1, <2>2, <3>1, CountQuiet
  <2>3. CASE /\ rloc.op = "delall"
             /\ StartSearch(Radio, rloc, BoundBelow(rloc.dev, rloc.slot))
    BY <2>1, <2>3, SearchCount
  <2> QED BY <1>4, <2>2, <2>3 DEF DelWriteUpload, rloc
<1>5. CASE Flash_Heart_Change(Radio) \/ Flash_UploadFlag_Change(Radio)
  <2>1. /\ rpc \in {"set_heart", "set_upload"} /\ rpc' = "ready"
        /\ UNCHANGED <<ID, fID, MainNum, Main_Nums>>
    BY <1>5, RadioMoves DEF Flash_Heart_Change, Flash_UploadFlag_Change, memVars, rpc
  <2> QED BY <2>1, CountQuiet
<1> QED BY <1>1, <1>2, <1>3, <1>4, <1>5

(* A step of the only thread, or a reset, keeps the counters' invariant.   *)
LEMMA NextCount ==
  ASSUME Threads = {Radio}, TypeOK, SeqInv, CountInv, [Next]_vars
  PROVE  CountInv'
<1>1. CASE RadioHandler \/ OtherHandler(Radio)
  <2>1. /\ rpc' = rpc /\ rloc' = rloc
        /\ UNCHANGED <<ID, fID, MainNum, Main_Nums>>
    BY <1>1, MainScripts DEF Run, memVars, flashVars, rpc, rloc
  <2> QED BY <2>1 DEF CountInv, MainSlots
<1>2. CASE Begin(Radio)
  BY <1>2, BeginCount
<1>3. CASE Write(Radio)
  BY <1>3, AddCount, DelCount DEF Write
<1>4. CASE Reset
  <2>1. /\ rpc' = "ready" /\ MainNum' = Main_Nums /\ UNCHANGED <<Main_Nums, fID>>
        /\ ID' = [s \in Slots |-> IF s <= Learn_Nums THEN fID[s] ELSE None]
    BY <1>4 DEF Reset, LoadDevice2Memory, flashVars, rpc
  <2>2. \A s \in Slots : fID[s] # None => s <= Learn_Nums
    BY DEF SeqInv, SlotInv
  <2>3. MainSlots(ID') = MainSlots(fID)
    BY <2>1, <2>2, DevicesAssumption DEF MainSlots, Devices
  <2>4. MainSlots(fID') = MainSlots(fID)
    BY <2>1
  <2> QED BY <2>1, <2>3, <2>4 DEF CountInv
<1>5. CASE UNCHANGED vars
  BY <1>5 DEF vars, CountInv, MainSlots, rpc, rloc
<1> QED BY <1>1, <1>2, <1>3, <1>4, <1>5 DEF Next

(* When all the operations run in one thread, a new controller is never    *)
(* refused for a phantom: at every moment, and after a reset at any write, *)
(* the counter that Add_MainNums and Del_MainNums keep is at most the      *)
(* number of controllers in the table.                                     *)
THEOREM SequentialCount ==
  ASSUME Threads = {Radio}
  PROVE  Spec => []NoPhantomMain
<1>1. Init => CountInv
  <2> SUFFICES ASSUME Init PROVE CountInv
    OBVIOUS
  <2>1. MainSlots(ID) = {} /\ MainSlots(fID) = {}
    BY DevicesAssumption DEF Init, MainSlots, Devices
  <2>2. rpc = "ready" /\ MainNum = 0 /\ Main_Nums = 0
    BY DEF Init, rpc
  <2> QED BY <2>1, <2>2, FS_EmptySet DEF CountInv
<1>2. TypeOK /\ SeqInv /\ CountInv /\ [Next]_vars => CountInv'
  BY NextCount
<1>3. ASSUME SeqInv, CountInv PROVE NoPhantomMain
  <2>1. \A s \in Slots : fID[s] # None => s <= Learn_Nums
    BY <1>3 DEF SeqInv, SlotInv
  <2>2. {s \in MainSlots(fID) : s <= Learn_Nums} = MainSlots(fID)
    BY <2>1, DevicesAssumption DEF MainSlots, Devices
  <2> QED BY <1>3, <2>2 DEF CountInv, NoPhantomMain
<1> QED BY <1>1, <1>2, <1>3, SequentialInvariant, PTL DEF Spec
-----------------------------------------------------------------------------
(* Any number of threads.                                                  *)

(* A thread that is about to save the new number of slots has raised Num   *)
(* to its slot; whatever other threads do, Num only grows until a reset.   *)
NumInv ==
  /\ WithinNum
  /\ \A t \in Threads : pc[t] = "add_nums" => loc[t].slot <= Num

(* A step of thread t that fills no slot, keeps Num and does not go to     *)
(* the write of Learn_Nums keeps NumInv.                                   *)
LEMMA NumQuiet ==
  ASSUME TypeOK, NumInv, NEW t \in Threads, UNCHANGED Num,
         \A s \in Slots : ID'[s] \in {ID[s], None},
         \A u \in Threads \ {t} : pc'[u] = pc[u] /\ loc'[u] = loc[u],
         pc'[t] # "add_nums"
  PROVE  NumInv'
BY DEF NumInv, WithinNum, TypeOK

(* Where thread t is after Goto, Locate and Finish; the others stay.       *)
LEMMA ThreadMoves ==
  ASSUME TypeOK, NEW t \in Threads, NEW o, NEW s, NEW n, NEW l
  PROVE  /\ Goto(t, l) => pc'[t] = l /\ \A u \in Threads \ {t} : pc'[u] = pc[u]
         /\ Locate(t, o, s, n) =>
              loc'[t].slot = s /\ \A u \in Threads \ {t} : loc'[u] = loc[u]
         /\ Finish(t) =>
              /\ pc'[t] = "ready"
              /\ \A u \in Threads \ {t} : pc'[u] = pc[u] /\ loc'[u] = loc[u]
BY DEF TypeOK, Goto, Locate, Finish

(* UploadTail and StartSearch go to no write of Learn_Nums.                *)
LEMMA TailMoves ==
  ASSUME TypeOK, NEW t \in Threads, NEW o, NEW S,
         UploadTail(t, o) \/ StartUpload(t, o) \/ StartSearch(t, o, S)
  PROVE  /\ pc'[t] # "add_nums"
         /\ \A u \in Threads \ {t} : pc'[u] = pc[u] /\ loc'[u] = loc[u]
<1>1. CASE Finish(t)
  BY <1>1, ThreadMoves
<1>2. CASE StartUpload(t, o)
  BY <1>2, ThreadMoves DEF StartUpload
<1>3. ASSUME NEW s, StartSlot(t, o, s)
      PROVE  /\ pc'[t] # "add_nums"
             /\ \A u \in Threads \ {t} : pc'[u] = pc[u] /\ loc'[u] = loc[u]
  <2>1. /\ Goto(t, "del_main") \/ Goto(t, "del_id")
        /\ \E n : Locate(t, o, s, n)
    BY <1>3 DEF StartSlot
  <2> QED BY <2>1, ThreadMoves
<1> QED BY <1>1, <1>2, <1>3 DEF UploadTail, StartSearch

(* Device_Add2Flash_Wifi up to its first write, and the other operations.  *)
LEMMA BeginNum ==
  ASSUME TypeOK, NumInv, NEW t \in Threads, Begin(t)
  PROVE  NumInv'
<1> DEFINE o == Head(script[t])
<1>0. o \in Op
  BY DEF Begin, TypeOK
<1>1. o.dev \in Devices
  BY <1>0 DEF Op
<1> HIDE DEF o
<1>2. CASE StartAdd(t, o)
  <2>1. CASE (UploadTail(t, o) \/ Finish(t)) /\ UNCHANGED <<Num, ID>>
    <3>1. /\ pc'[t] # "add_nums"
          /\ \A u \in Threads \ {t} : pc'[u] = pc[u] /\ loc'[u] = loc[u]
      BY <2>1, TailMoves, ThreadMoves
    <3> QED BY <2>1, <3>1, NumQuiet
  <2>2. ASSUME NEW s \in Slots, Locate(t, o, s, 0),
               \/ s > Num /\ Num' = s /\ Goto(t, "add_nums") /\ UNCHANGED ID
               \/ s <= Num /\ Store(t, o, s) /\ UNCHANGED Num
        PROVE  NumInv'
    <3>1. loc'[t].slot = s /\ \A u \in Threads \ {t} : loc'[u] = loc[u]
      BY <2>2, ThreadMoves
    <3>2. CASE s > Num /\ Num' = s /\ Goto(t, "add_nums") /\ UNCHANGED ID
      <4>1. /\ pc'[t] = "add_nums" /\ \A u \in Threads \ {t} : pc'[u] = pc[u]
        BY <3>2, ThreadMoves
      <4>3. Num \in Int /\ \A u \in Threads : pc[u] = "add_nums" => loc[u].slot \in Slots
        BY DEF TypeOK
      <4>2. \A r \in Slots : r \in Int
        BY SizeAssumption DEF Slots
      <4> QED BY <3>1, <3>2, <4>1, <4>2, <4>3 DEF NumInv, WithinNum
    <3>3. CASE s <= Num /\ Store(t, o, s) /\ UNCHANGED Num
      <4>1. /\ pc'[t] = "add_id" /\ \A u \in Threads \ {t} : pc'[u] = pc[u]
            /\ ID' = [ID EXCEPT ![s] = o.dev]
        BY <3>3, ThreadMoves DEF Store
      <4> QED BY <3>1, <3>3, <4>1 DEF NumInv, WithinNum, TypeOK
    <3> QED BY <2>2, <3>2, <3>3
  <2> QED BY <1>2, <2>1, <2>2 DEF StartAdd
<1>3. CASE Del_Device(t, o) \/ Del_MainBind(t, o)
  BY <1>3, TailMoves, NumQuiet DEF Del_Device, Del_MainBind
<1>4. CASE Flash_Set_Heart(t, o)
  <2>1. /\ UNCHANGED <<Num, ID>> /\ pc'[t] # "add_nums"
        /\ \A u \in Threads \ {t} : pc'[u] = pc[u] /\ loc'[u] = loc[u]
    BY <1>4, ThreadMoves DEF Flash_Set_Heart, memVars
  <2> QED BY <2>1, NumQuiet
<1>5. CASE Flash_Set_UploadFlag(t, o)
  BY <1>5, TailMoves, NumQuiet DEF Flash_Set_UploadFlag, UploadTail
<1> QED BY <1>2, <1>3, <1>4, <1>5 DEF Begin, o

(* The writes: only the one of Learn_Nums fills a slot.                    *)
LEMMA WriteNum ==
  ASSUME TypeOK, NumInv, NEW t \in Threads, Write(t)
  PROVE  NumInv'
<1>1. CASE Flash_LearnNums_Change(t)
  <2>1. /\ pc[t] = "add_nums" /\ pc'[t] = "add_id" /\ UNCHANGED <<Num, loc>>
        /\ \A u \in Threads \ {t} : pc'[u] = pc[u]
        /\ ID' = [ID EXCEPT ![loc[t].slot] = loc[t].dev]
    BY <1>1, ThreadMoves DEF Flash_LearnNums_Change, Store
  <2> QED BY <2>1 DEF NumInv, WithinNum, TypeOK
<1>2. CASE AddWriteID(t) \/ AddWriteBind(t) \/ DelWriteMain(t) \/ DelWriteID(t)
           \/ DelWriteBind(t)
  <2>1. /\ UNCHANGED <<Num, loc>> /\ \A s \in Slots : ID'[s] \in {ID[s], None}
        /\ \E l \in Pc \ {"add_nums"} : Goto(t, l)
    BY <1>2 DEF AddWriteID, AddWriteBind, DelWriteMain, DelWriteID, DelWriteBind,
                memVars, TypeOK, Pc, AddPc, DelPc
  <2> QED BY <2>1, ThreadMoves, NumQuiet
<1>3. CASE AddWriteHeart(t) \/ AddWriteMain(t)
  <2>1. CASE UploadTail(t, loc[t])
    BY <1>3, <2>1, TailMoves, NumQuiet DEF AddWriteHeart, AddWriteMain
  <2>2. CASE loc' = [loc EXCEPT ![t].num = MainNum + 1] /\ Goto(t, "add_main")
    <3>1. \A u \in Threads \ {t} : loc'[u] = loc[u]
      BY <2>2 DEF TypeOK
    <3> QED BY <1>3, <2>2, <3>1, ThreadMoves, NumQuiet DEF AddWriteHeart, AddWriteMain
  <2> QED BY <1>3, <2>1, <2>2 DEF AddWriteHeart, AddWriteMain
<1>4. CASE DelWriteUpload(t) \/ Flash_Heart_Change(t) \/ Flash_UploadFlag_Change(t)
  <2>1. UNCHANGED <<Num, ID>>
    BY <1>4 DEF DelWriteUpload, Flash_Heart_Change, Flash_UploadFlag_Change, memVars
  <2>2. CASE Finish(t)
    BY <2>1, <2>2, ThreadMoves, NumQuiet
  <2>3. CASE StartSearch(t, loc[t], BoundBelow(loc[t].dev, loc[t].slot))
    BY <2>1, <2>3, TailMoves, NumQuiet
  <2> QED BY <1>4, <2>2, <2>3
      DEF DelWriteUpload, Flash_Heart_Change, Flash_UploadFlag_Change
<1> QED BY <1>1, <1>2, <1>3, <1>4 DEF Write

(* However many threads run operations at the same time, and whenever the  *)
(* gateway is reset, every device is in a slot that the searches of        *)
(* flashwork.c, which start at Num, visit.                                 *)
THEOREM ConcurrentWithinNum == Spec => []WithinNum
<1>1. Init => NumInv
  BY DEF Init, NumInv, WithinNum
<1>2. ASSUME TypeOK, NumInv, [Next]_vars PROVE NumInv'
  <2>1. CASE RadioHandler \/ \E t \in Threads : OtherHandler(t)
    <3>1. UNCHANGED <<Num, ID, pc, loc>>
      BY <2>1 DEF RadioHandler, OtherHandler, Device_Learn, SyncDeleteAll, SyncHeart,
           SyncDelete, SyncAdd, WarnOffline, Remote_Delete, Self_Bind_Upload,
           HeartResult, NormalSolve, SyncDevice, Run, memVars
    <3> QED BY <1>2, <3>1 DEF NumInv, WithinNum
  <2>2. CASE \E t \in Threads : Begin(t) \/ Write(t)
    BY <1>2, <2>2, BeginNum, WriteNum
  <2>3. CASE Reset
    BY <2>3 DEF Reset, LoadDevice2Memory, NumInv, WithinNum
  <2>4. CASE UNCHANGED vars
    BY <1>2, <2>4 DEF vars, NumInv, WithinNum
  <2> QED BY <1>2, <2>1, <2>2, <2>3, <2>4 DEF Next
<1>3. NumInv => WithinNum
  BY DEF NumInv
<1> QED BY <1>1, <1>2, <1>3, TypeCorrect, PTL DEF Spec
-----------------------------------------------------------------------------
(* The registry as a table that is saved as a whole (Registry).            *)

(* The entries of device d in a table, and what its keys b and h make of   *)
(* the slots of the store.                                                 *)
Entries(id, b, h, d) == {<<s, b[s], h[s]>> : s \in {r \in Slots : id[r] = d}}
Keys(id, b, h, d)    == {<<s, b, h>> : s \in {r \in Slots : id[r] = d}}

Adding == UNION {BeingAdded(t) : t \in Threads}

(* A device without a slot has no entry.                                   *)
LEMMA NoEntry ==
  ASSUME NEW id, NEW b, NEW h, NEW d, \A s \in Slots : id[s] # d
  PROVE  Entries(id, b, h, d) = {} /\ Keys(id, b, h, d) = {}
BY DEF Entries, Keys

(* The keys matter only if the device has a slot.                          *)
LEMMA SameKeys ==
  ASSUME NEW id, NEW b, NEW h, NEW id2, NEW b2, NEW h2, NEW d,
         \A s \in Slots : id[s] = d <=> id2[s] = d,
         (\E s \in Slots : id[s] = d) => b = b2 /\ h = h2
  PROVE  Keys(id, b, h, d) = Keys(id2, b2, h2, d)
<1>1. {r \in Slots : id[r] = d} = {r \in Slots : id2[r] = d}
  OBVIOUS
<1>2. CASE \E s \in Slots : id[s] = d
  BY <1>1, <1>2 DEF Keys
<1>3. CASE \A s \in Slots : id[s] # d
  BY <1>3, NoEntry
<1> QED BY <1>2, <1>3

(* Known and Kept in these terms; no slot of the store above Learn_Nums is *)
(* used.                                                                   *)
LEMMA KnownKept ==
  ASSUME SeqInv, SeqInv', NEW d \in Devices
  PROVE  /\ Known(d) = Entries(ID, Bind_ID, Heart, d)
         /\ Known(d)' = Entries(ID', Bind_ID', Heart', d)
         /\ Kept(d) = Keys(fID, fBind[d], fHeart[d], d)
         /\ Kept(d)' = Keys(fID', fBind'[d], fHeart'[d], d)
<1>1. \A s \in Slots : fID[s] # None => s <= Learn_Nums
  BY DEF SeqInv, SlotInv
<1>2. \A s \in Slots : fID'[s] # None => s <= Learn_Nums'
  BY DEF SeqInv, SlotInv
<1>3. {r \in Slots : r <= Learn_Nums /\ fID[r] = d} = {r \in Slots : fID[r] = d}
  BY <1>1, DevicesAssumption
<1>4. {r \in Slots : r <= Learn_Nums' /\ fID'[r] = d} = {r \in Slots : fID'[r] = d}
  BY <1>2, DevicesAssumption
<1> QED BY <1>3, <1>4 DEF Known, Kept, Entries, Keys

(* Who is being added when there is one thread.                            *)
LEMMA AddingOne ==
  ASSUME Threads = {Radio}
  PROVE  /\ Adding = IF rpc \in {"add_id", "add_bind", "add_heart"} THEN {rloc.dev} ELSE {}
         /\ Adding' = IF rpc' \in {"add_id", "add_bind", "add_heart"} THEN {rloc'.dev} ELSE {}
<1>1. Adding = BeingAdded(Radio) /\ Adding' = BeingAdded(Radio)'
  BY DEF Adding
<1> QED BY <1>1 DEF BeingAdded, rpc, rloc

-----------------------------------------------------------------------------
(* Steps of the abstract table, device by device.                          *)

(* The entries of every device but d stay as they are.                     *)
OthersKept(d)  == \A x \in Devices \ {d} : Kept(x)' = Kept(x)
OthersKnown(d) == \A x \in Devices \ {d} : Known(x)' = Known(x)

LEMMA StepStutter ==
  ASSUME Adding' = Adding, \A x \in Devices : Known(x)' = Known(x) /\ Kept(x)' = Kept(x)
  PROVE  UNCHANGED Table!vars
BY DEF Table!vars, Adding

LEMMA StepEnter ==
  ASSUME NEW d \in Devices, Adding = {}, Adding' = {d}, Known(d) = {},
         NEW s \in Slots, NEW c \in Devices \cup {None}, Known(d)' = {<<s, c, 1>>},
         \A x \in Devices : \A e \in Known(x) : e[1] # s,
         OthersKnown(d), \A x \in Devices : Kept(x)' = Kept(x)
  PROVE  Table!Enter(d)
<1>1. [x \in Devices |-> Known(x)'] = [[x \in Devices |-> Known(x)] EXCEPT ![d] = {<<s, c, 1>>}]
  BY DEF OthersKnown
<1>2. [x \in Devices |-> Kept(x)'] = [x \in Devices |-> Kept(x)]
  OBVIOUS
<1> QED BY <1>1, <1>2 DEF Table!Enter, Table!Controller, Adding

LEMMA StepPart ==
  ASSUME NEW d \in Devices, Adding = {d}, Adding' = {d},
         NEW e \in Known(d), NEW c \in Devices \cup {None}, NEW h \in Flag,
         Kept(d)' = {<<e[1], c, h>>},
         OthersKept(d), \A x \in Devices : Known(x)' = Known(x)
  PROVE  Table!SavePart(d)
<1>1. [x \in Devices |-> Kept(x)'] = [[x \in Devices |-> Kept(x)] EXCEPT ![d] = {<<e[1], c, h>>}]
  BY DEF OthersKept
<1>2. [x \in Devices |-> Known(x)'] = [x \in Devices |-> Known(x)]
  OBVIOUS
<1> QED BY <1>1, <1>2 DEF Table!SavePart, Table!Controller, Adding

LEMMA StepRest ==
  ASSUME NEW d \in Devices, Adding = {d}, Adding' = {}, Kept(d)' = Known(d),
         OthersKept(d), \A x \in Devices : Known(x)' = Known(x)
  PROVE  Table!SaveRest(d)
<1>1. [x \in Devices |-> Kept(x)'] = [[x \in Devices |-> Kept(x)] EXCEPT ![d] = Known(d)]
  BY DEF OthersKept
<1>2. [x \in Devices |-> Known(x)'] = [x \in Devices |-> Known(x)]
  OBVIOUS
<1> QED BY <1>1, <1>2 DEF Table!SaveRest, Adding

LEMMA StepForget ==
  ASSUME NEW d \in Devices, Adding = {}, Adding' = {}, Known(d)' = {}, Kept(d)' = {},
         OthersKept(d), OthersKnown(d)
  PROVE  Table!Forget(d)
<1>1. /\ [x \in Devices |-> Known(x)'] = [[x \in Devices |-> Known(x)] EXCEPT ![d] = {}]
      /\ [x \in Devices |-> Kept(x)'] = [[x \in Devices |-> Kept(x)] EXCEPT ![d] = {}]
  BY DEF OthersKept, OthersKnown
<1> QED BY <1>1 DEF Table!Forget, Adding

LEMMA StepMark ==
  ASSUME NEW d \in Devices, NEW h \in Flag, Adding = {}, Adding' = {}, Known(d) # {},
         Known(d)' = Table!Marked(Known(d), h), Kept(d)' = Table!Marked(Kept(d), h),
         OthersKept(d), OthersKnown(d)
  PROVE  Table!Mark(d, h)
<1>1. /\ [x \in Devices |-> Known(x)'] =
           [[x \in Devices |-> Known(x)] EXCEPT ![d] = Table!Marked(Known(d), h)]
      /\ [x \in Devices |-> Kept(x)'] =
           [[x \in Devices |-> Kept(x)] EXCEPT ![d] = Table!Marked(Kept(d), h)]
  BY DEF OthersKept, OthersKnown
<1> QED BY <1>1 DEF Table!Mark, Adding

LEMMA StepRestart ==
  ASSUME Adding' = {}, \A x \in Devices : Known(x)' = Kept(x) /\ Kept(x)' = Kept(x)
  PROVE  Table!Restart
<1>1. /\ [x \in Devices |-> Known(x)'] = [x \in Devices |-> Kept(x)]
      /\ [x \in Devices |-> Kept(x)'] = [x \in Devices |-> Kept(x)]
  OBVIOUS
<1> QED BY <1>1 DEF Table!Restart, Adding
-----------------------------------------------------------------------------
(* Each step of the only thread is a step of the table, or none.           *)

SeqStep == /\ Threads = {Radio} /\ TypeOK /\ TypeOK' /\ SeqInv /\ SeqInv'

(* A step that leaves the slots and the keys alone.                        *)
LEMMA QuietTable ==
  ASSUME SeqStep, Adding' = Adding,
         UNCHANGED <<ID, Bind_ID, Heart, fID, fBind, fHeart>>
  PROVE  UNCHANGED Table!vars
<1>1. \A x \in Devices : Known(x)' = Known(x) /\ Kept(x)' = Kept(x)
  BY KnownKept DEF SeqStep
<1> QED BY <1>1, StepStutter

(* A slot is filled in RAM.                                                *)
LEMMA EnterTable ==
  ASSUME SeqStep, NEW d \in Devices, NEW s \in Slots, NEW c \in Devices \cup {None},
         ID[s] = None, \A r \in Slots : ID[r] # d,
         ID' = [ID EXCEPT ![s] = d], Bind_ID' = [Bind_ID EXCEPT ![s] = c],
         Heart' = [Heart EXCEPT ![s] = 1], UNCHANGED <<fID, fBind, fHeart>>,
         Adding = {}, Adding' = {d}
  PROVE  Table!Enter(d)
<1>0. SeqInv /\ SeqInv' /\ TypeOK
  BY DEF SeqStep
<1>1. \A x \in Devices : Kept(x)' = Kept(x)
  BY <1>0, KnownKept
<1>2. Known(d) = {}
  BY <1>0, KnownKept, NoEntry
<1>3. /\ ID'[s] = d /\ Bind_ID'[s] = c /\ Heart'[s] = 1
      /\ \A r \in Slots : r # s => /\ ID'[r] = ID[r] /\ Bind_ID'[r] = Bind_ID[r]
                                   /\ Heart'[r] = Heart[r]
  BY <1>0 DEF TypeOK
<1>4. Known(d)' = {<<s, c, 1>>}
  <2>1. \A r \in Slots : ID'[r] = d => r = s
    BY <1>3
  <2>2. Entries(ID', Bind_ID', Heart', d) = {<<s, Bind_ID'[s], Heart'[s]>>}
    <3>1. {r \in Slots : ID'[r] = d} = {s}
      BY <1>3, <2>1
    <3> QED BY <3>1 DEF Entries
  <2> QED BY <1>0, <1>3, <2>2, KnownKept
<1>5. OthersKnown(d)
  <2> SUFFICES ASSUME NEW x \in Devices \ {d} PROVE Known(x)' = Known(x)
    BY DEF OthersKnown
  <2>1. \A r \in Slots : ID'[r] = x <=> ID[r] = x
    BY <1>3, DevicesAssumption
  <2>2. \A r \in Slots : ID'[r] = x => Bind_ID'[r] = Bind_ID[r] /\ Heart'[r] = Heart[r]
    BY <1>3
  <2>3. {r \in Slots : ID'[r] = x} = {r \in Slots : ID[r] = x}
    BY <2>1
  <2> QED BY <2>2, <2>3 DEF Known
<1>6. \A x \in Devices : \A e \in Known(x) : e[1] # s
  <2> SUFFICES ASSUME NEW x \in Devices, NEW e \in Known(x) PROVE e[1] # s
    OBVIOUS
  <2>1. PICK r \in Slots : ID[r] = x /\ e = <<r, Bind_ID[r], Heart[r]>>
    BY DEF Known
  <2> QED BY <2>1, DevicesAssumption
<1> QED BY <1>1, <1>2, <1>4, <1>5, <1>6, StepEnter

(* Flash_LearnNums_Change.                                                 *)
LEMMA LearnNumsTable ==
  ASSUME SeqStep, Flash_LearnNums_Change(Radio)
  PROVE  [Table!Next]_Table!vars
<1>0. Threads = {Radio} /\ TypeOK /\ SeqInv
  BY DEF SeqStep
<1>1. /\ rpc = "add_nums" /\ rpc' = "add_id" /\ rloc' = rloc
      /\ rloc.slot \in Slots /\ rloc.dev \in Devices
      /\ rloc.bind \in Devices \cup {None}
  BY <1>0, ThreadsAssumption, RadioMoves
  DEF Flash_LearnNums_Change, TypeOK, Store, rpc, rloc, Locals
<1>2. /\ fID' = fID /\ fBind' = fBind /\ fHeart' = fHeart
      /\ ID' = [ID EXCEPT ![rloc.slot] = rloc.dev]
      /\ Bind_ID' = [Bind_ID EXCEPT ![rloc.slot] = rloc.bind]
      /\ Heart' = [Heart EXCEPT ![rloc.slot] = 1]
  BY DEF Flash_LearnNums_Change, Store, rloc
<1>3. Adding = {} /\ Adding' = {rloc.dev}
  BY <1>0, <1>1, AddingOne
<1>4. ID[rloc.slot] = None /\ \A r \in Slots : ID[r] # rloc.dev
  BY <1>0, <1>1, DevicesAssumption DEF SeqInv, SlotInv
<1>5. Table!Enter(rloc.dev)
  BY <1>1, <1>2, <1>3, <1>4, EnterTable
<1> QED BY <1>1, <1>5 DEF Table!Next

(* The id, the controller and the online flag of an addition are saved.    *)
LEMMA AddWriteTable ==
  ASSUME SeqStep, AddWriteID(Radio) \/ AddWriteBind(Radio) \/ AddWriteHeart(Radio)
  PROVE  [Table!Next]_Table!vars
<1> PICK d, s : d = rloc.dev /\ s = rloc.slot
  OBVIOUS
<1> DEFINE e == <<s, Bind_ID[s], Heart[s]>>
<1>0. Threads = {Radio} /\ TypeOK /\ TypeOK' /\ SeqInv /\ SeqInv'
  BY DEF SeqStep
<1>1. /\ UNCHANGED <<ID, Bind_ID, Heart>> /\ s \in Slots /\ d \in Devices
      /\ rpc \in {"add_id", "add_bind", "add_heart"}
  BY <1>0, ThreadsAssumption
  DEF AddWriteID, AddWriteBind, AddWriteHeart, TypeOK, memVars, rpc, rloc
<1>2. ID[s] = d /\ \A r \in Slots : ID[r] = d => r = s
  BY <1>0, <1>1, DevicesAssumption DEF SeqInv, SlotInv
<1>3. /\ \A x \in Devices : Known(x)' = Known(x)
      /\ Known(d) = {e}
  <2>1. \A x \in Devices : Known(x)' = Known(x)
    BY <1>0, <1>1, KnownKept
  <2>2. Entries(ID, Bind_ID, Heart, d) = {e}
    <3>1. {r \in Slots : ID[r] = d} = {s}
      BY <1>1, <1>2
    <3> QED BY <3>1 DEF Entries
  <2> HIDE DEF e
  <2> QED BY <1>0, <1>1, <2>1, <2>2, KnownKept
<1>4. ASSUME fID'[s] = d, \A r \in Slots : r # s => fID'[r] = fID[r],
             \A x \in Devices \ {d} : fBind'[x] = fBind[x] /\ fHeart'[x] = fHeart[x],
             rpc = "add_id" \/ fID' = fID
      PROVE  OthersKept(d) /\ Kept(d)' = {<<s, fBind'[d], fHeart'[d]>>}
  <2>1. \A r \in Slots : r # s => fID[r] = ID[r] /\ fID'[r] = ID[r]
    BY <1>0, <1>4 DEF SeqInv, SlotInv
  <2>2. \A r \in Slots : fID'[r] = d => r = s
    BY <1>2, <2>1
  <2>3. Keys(fID', fBind'[d], fHeart'[d], d) = {<<s, fBind'[d], fHeart'[d]>>}
    <3>1. {r \in Slots : fID'[r] = d} = {s}
      BY <1>1, <1>4, <2>2
    <3> QED BY <3>1 DEF Keys
  <2>4. ASSUME NEW x \in Devices \ {d} PROVE Kept(x)' = Kept(x)
    <3>1. fID[s] \in {d, None}
      BY <1>0, <1>1, <1>4 DEF SeqInv, SlotInv
    <3>2. \A r \in Slots : fID'[r] = x <=> fID[r] = x
      BY <1>4, <3>1, DevicesAssumption
    <3>3. Keys(fID', fBind'[x], fHeart'[x], x) = Keys(fID, fBind[x], fHeart[x], x)
      BY <1>4, <3>2, SameKeys
    <3> QED BY <1>0, <3>3, KnownKept
  <2> QED BY <1>0, <1>1, <2>3, <2>4, KnownKept DEF OthersKept
<1>5. Adding = {d}
  BY <1>0, <1>1, AddingOne
<1>6. CASE AddWriteID(Radio) \/ AddWriteBind(Radio)
  <2>1. rpc' \in {"add_bind", "add_heart"} /\ rloc' = rloc /\ rpc # "add_heart"
    BY <1>0, <1>6, RadioMoves DEF AddWriteID, AddWriteBind, rpc, rloc
  <2>2. Adding' = {d}
    BY <1>0, <2>1, AddingOne
  <2>3. /\ fID'[s] = d /\ \A r \in Slots : r # s => fID'[r] = fID[r]
        /\ \A x \in Devices \ {d} : fBind'[x] = fBind[x] /\ fHeart'[x] = fHeart[x]
        /\ rpc = "add_id" \/ fID' = fID
    <3>1. CASE AddWriteID(Radio)
      BY <1>0, <1>1, <3>1 DEF AddWriteID, TypeOK, rpc, rloc
    <3>2. CASE AddWriteBind(Radio)
      <4>1. fID[s] = d
        BY <1>0, <1>1, <1>2, <3>2 DEF AddWriteBind, SeqInv, SlotInv, rpc
      <4> QED BY <1>0, <1>1, <3>2, <4>1 DEF AddWriteBind, TypeOK, rpc, rloc
    <3> QED BY <1>6, <3>1, <3>2
  <2>4. OthersKept(d) /\ Kept(d)' = {<<s, fBind'[d], fHeart'[d]>>}
    BY <1>4, <2>3
  <2>5. fBind'[d] \in Devices \cup {None} /\ fHeart'[d] \in Flag
    BY <1>0, <1>1 DEF TypeOK
  <2>6. e \in Known(d) /\ Kept(d)' = {<<e[1], fBind'[d], fHeart'[d]>>}
    BY <1>3, <2>4
  <2> HIDE DEF e
  <2>7. Table!SavePart(d)
    BY <1>1, <1>3, <1>5, <2>2, <2>4, <2>5, <2>6, StepPart
  <2> QED BY <1>1, <2>7 DEF Table!Next
<1>7. CASE AddWriteHeart(Radio)
  <2>1. /\ rpc = "add_heart" /\ UNCHANGED <<fID, fBind>>
        /\ fHeart' = [fHeart EXCEPT ![d] = 1]
    BY <1>7 DEF AddWriteHeart, rpc, rloc
  <2>2. rpc' \in {"ready", "set_upload", "add_main"}
    <3>1. CASE Goto(Radio, "add_main")
      BY <1>0, <3>1, RadioMoves
    <3>2. CASE UploadTail(Radio, rloc)
      BY <1>0, <3>2, UploadTailMoves
    <3> QED BY <1>7, <3>1, <3>2 DEF AddWriteHeart, rloc
  <2>3. Adding' = {}
    BY <1>0, <2>2, AddingOne
  <2>4. fID[s] = d /\ Bind_ID[s] = fBind[d] /\ Heart[s] = 1
    BY <1>0, <1>1, <1>2, <2>1, DevicesAssumption DEF SeqInv, SlotInv, KeyInv
  <2>5. /\ fHeart'[d] = 1 /\ fBind'[d] = fBind[d]
        /\ \A x \in Devices \ {d} : fBind'[x] = fBind[x] /\ fHeart'[x] = fHeart[x]
    BY <1>0, <1>1, <2>1 DEF TypeOK
  <2>6. OthersKept(d) /\ Kept(d)' = {<<s, fBind'[d], fHeart'[d]>>}
    BY <1>4, <2>1, <2>4, <2>5
  <2>7. Kept(d)' = Known(d)
    BY <1>3, <2>4, <2>5, <2>6
  <2> HIDE DEF e
  <2>8. Table!SaveRest(d)
    BY <1>1, <1>3, <1>5, <2>3, <2>6, <2>7, StepRest
  <2> QED BY <1>1, <2>8 DEF Table!Next
<1> QED BY <1>6, <1>7
(* A slot is emptied in RAM and in the store.                              *)
LEMMA DelIDTable ==
  ASSUME SeqStep, DelWriteID(Radio)
  PROVE  [Table!Next]_Table!vars
<1> PICK s : s = rloc.slot
  OBVIOUS
<1>0. Threads = {Radio} /\ TypeOK /\ TypeOK' /\ SeqInv /\ SeqInv'
  BY DEF SeqStep
<1>1. /\ rpc = "del_id" /\ rpc' = "del_bind" /\ rloc' = rloc /\ s \in Slots
      /\ UNCHANGED <<Bind_ID, Heart, fBind, fHeart>>
      /\ ID' = [ID EXCEPT ![s] = None] /\ fID' = [fID EXCEPT ![s] = None]
  BY <1>0, ThreadsAssumption, RadioMoves DEF DelWriteID, TypeOK, rpc, rloc
<1>2. Adding = {} /\ Adding' = {}
  BY <1>0, <1>1, AddingOne
<1>3. fID = ID /\ fID' = ID'
  <2>1. \A r \in Slots : ID[r] = fID[r]
    BY <1>0, <1>1 DEF SeqInv, SlotInv
  <2>2. fID = ID
    BY <1>0, <2>1 DEF TypeOK
  <2> QED BY <1>1, <2>2
<1>4. CASE ID[s] = None
  <2>1. ID' = ID
    BY <1>0, <1>1, <1>4 DEF TypeOK
  <2> QED BY <1>1, <1>2, <1>3, <2>1, QuietTable
<1>5. CASE ID[s] # None
  <2> PICK d : d = ID[s]
    OBVIOUS
  <2>1. /\ d \in Devices /\ ID'[s] = None
        /\ \A r \in Slots : r # s => ID'[r] = ID[r] /\ ID[r] # d
    BY <1>0, <1>1, <1>5 DEF SeqInv, SlotInv, TypeOK
  <2>2. \A r \in Slots : ID'[r] # d
    BY <2>1, DevicesAssumption
  <2>3. Known(d)' = {} /\ Kept(d)' = {}
    BY <1>3, <2>2 DEF Known, Kept
  <2>4. ASSUME NEW x \in Devices \ {d} PROVE Known(x)' = Known(x) /\ Kept(x)' = Kept(x)
    <3>1. \A r \in Slots : ID'[r] = x <=> ID[r] = x
      BY <2>1, DevicesAssumption
    <3>2. {r \in Slots : ID'[r] = x} = {r \in Slots : ID[r] = x}
      BY <3>1
    <3>3. Known(x)' = Known(x)
      BY <1>1, <3>2 DEF Known
    <3>4. Keys(fID', fBind'[x], fHeart'[x], x) = Keys(fID, fBind[x], fHeart[x], x)
      BY <1>1, <1>3, <3>2 DEF Keys
    <3> QED BY <1>0, <3>3, <3>4, KnownKept
  <2>5. Table!Forget(d)
    BY <1>2, <2>1, <2>3, <2>4, StepForget DEF OthersKept, OthersKnown
  <2> QED BY <2>1, <2>5 DEF Table!Next
<1> QED BY <1>4, <1>5

(* The controller of a slot that is empty by then is removed; the key that *)
(* is cleared belongs to no device of the table, or is empty already.      *)
LEMMA DelBindTable ==
  ASSUME SeqStep, DelWriteBind(Radio)
  PROVE  [Table!Next]_Table!vars
<1> PICK d, s : d = rloc.dev /\ s = rloc.slot
  OBVIOUS
<1>0. Threads = {Radio} /\ TypeOK /\ TypeOK' /\ SeqInv /\ SeqInv'
  BY DEF SeqStep
<1>1. /\ rpc = "del_bind" /\ rpc' = "del_upload" /\ s \in Slots /\ d \in Devices
      /\ UNCHANGED <<ID, Heart, fID, fHeart>>
      /\ fBind' = [fBind EXCEPT ![d] = None] /\ Bind_ID' = [Bind_ID EXCEPT ![s] = None]
  BY <1>0, ThreadsAssumption, RadioMoves DEF DelWriteBind, TypeOK, rpc, rloc
<1>2. Adding = {} /\ Adding' = {}
  BY <1>0, <1>1, AddingOne
<1>3. fID = ID /\ ID[s] = None
  BY <1>0, <1>1 DEF SeqInv, SlotInv, TypeOK
<1>4. \A x \in Devices : fBind'[x] = fBind[x] \/ \A r \in Slots : ID[r] # x
  <2>1. CASE rloc.op = "del"
    BY <1>0, <1>1, <2>1 DEF SeqInv, SlotInv, TypeOK
  <2>2. CASE rloc.op = "delall"
    <3>1. d \in Mains
      BY <1>0, <1>1, <2>2 DEF SeqInv, ScriptInv, MainOp
    <3>2. fBind[d] = None
      BY <1>0, <3>1 DEF SeqInv, KeyInv
    <3> QED BY <1>0, <1>1, <3>2 DEF TypeOK
  <2> QED BY <1>0, <1>1, <2>1, <2>2 DEF SeqInv, SlotInv, DelPc
<1>5. ASSUME NEW x \in Devices PROVE Known(x)' = Known(x) /\ Kept(x)' = Kept(x)
  <2>1. \A r \in Slots : ID[r] = x => Bind_ID'[r] = Bind_ID[r]
    BY <1>0, <1>1, <1>3, DevicesAssumption DEF TypeOK
  <2>2. Known(x)' = Known(x)
    BY <1>1, <2>1 DEF Known
  <2>3. Keys(fID', fBind'[x], fHeart'[x], x) = Keys(fID, fBind[x], fHeart[x], x)
    <3>1. CASE fBind'[x] = fBind[x]
      BY <1>1, <3>1
    <3>2. CASE \A r \in Slots : ID[r] # x
      <4>1. {r \in Slots : fID[r] = x} = {}
        BY <1>3, <3>2
      <4> QED BY <1>1, <4>1 DEF Keys
    <3> QED BY <1>4, <3>1, <3>2
  <2> QED BY <1>0, <2>2, <2>3, KnownKept
<1>6. UNCHANGED Table!vars
  BY <1>2, <1>5, StepStutter
<1> QED BY <1>6

(* Flash_Heart_Change.                                                     *)
LEMMA HeartTable ==
  ASSUME SeqStep, Flash_Heart_Change(Radio)
  PROVE  [Table!Next]_Table!vars
<1> PICK d, s, h : d = rloc.dev /\ s = rloc.slot /\ h = rloc.flag
  OBVIOUS
<1>0. Threads = {Radio} /\ TypeOK /\ TypeOK' /\ SeqInv /\ SeqInv'
  BY DEF SeqStep
<1>1. /\ rpc = "set_heart" /\ rpc' = "ready" /\ s \in Slots /\ d \in Devices /\ h \in Flag
      /\ UNCHANGED <<ID, Bind_ID, fID, fBind>>
      /\ fHeart' = [fHeart EXCEPT ![d] = h] /\ Heart' = [Heart EXCEPT ![s] = h]
  BY <1>0, ThreadsAssumption, RadioMoves DEF Flash_Heart_Change, TypeOK, Locals, rpc, rloc
<1>2. Adding = {} /\ Adding' = {}
  BY <1>0, <1>1, AddingOne
<1>3. fID = ID /\ ID[s] = d /\ \A r \in Slots : ID[r] = d => r = s
  BY <1>0, <1>1, DevicesAssumption DEF SeqInv, SlotInv, TypeOK
<1>4. /\ Heart'[s] = h /\ fHeart'[d] = h
      /\ \A r \in Slots : r # s => Heart'[r] = Heart[r]
      /\ \A x \in Devices : x # d => fHeart'[x] = fHeart[x]
  BY <1>0, <1>1 DEF TypeOK
<1>5. {r \in Slots : ID[r] = d} = {s}
  BY <1>1, <1>3
<1>6. /\ Known(d) = {<<s, Bind_ID[s], Heart[s]>>}
      /\ Known(d)' = {<<s, Bind_ID[s], h>>}
  BY <1>1, <1>4, <1>5 DEF Known
<1>7. /\ Kept(d) = {<<s, fBind[d], fHeart[d]>>}
      /\ Kept(d)' = {<<s, fBind[d], h>>}
  <2>1. /\ Keys(fID, fBind[d], fHeart[d], d) = {<<s, fBind[d], fHeart[d]>>}
        /\ Keys(fID', fBind'[d], fHeart'[d], d) = {<<s, fBind[d], h>>}
    BY <1>1, <1>3, <1>4, <1>5 DEF Keys
  <2> QED BY <1>0, <1>1, <2>1, KnownKept
<1>8. /\ Known(d)' = Table!Marked(Known(d), h)
      /\ Kept(d)' = Table!Marked(Kept(d), h)
  BY <1>6, <1>7 DEF Table!Marked
<1>9. ASSUME NEW x \in Devices \ {d} PROVE Known(x)' = Known(x) /\ Kept(x)' = Kept(x)
  <2>1. \A r \in Slots : ID[r] = x => Heart'[r] = Heart[r]
    BY <1>3, <1>4
  <2>2. Known(x)' = Known(x)
    BY <1>1, <2>1 DEF Known
  <2>3. Keys(fID', fBind'[x], fHeart'[x], x) = Keys(fID, fBind[x], fHeart[x], x)
    BY <1>1, <1>4
  <2> QED BY <1>0, <2>2, <2>3, KnownKept
<1>10. Table!Mark(d, h)
  BY <1>1, <1>2, <1>6, <1>8, <1>9, StepMark DEF OthersKept, OthersKnown
<1> QED BY <1>1, <1>10 DEF Table!Next

(* LoadDevice2Memory.                                                      *)
LEMMA ResetTable ==
  ASSUME SeqStep, Reset
  PROVE  [Table!Next]_Table!vars
<1>0. Threads = {Radio} /\ TypeOK /\ TypeOK' /\ SeqInv /\ SeqInv'
  BY DEF SeqStep
<1>1. rpc' = "ready" /\ UNCHANGED <<Learn_Nums, fID, fBind, fHeart>>
  BY ThreadsAssumption DEF Reset, flashVars, rpc
<1>2. Adding' = {}
  BY <1>0, <1>1, AddingOne
<1>3. ID' = fID
  <2>1. \A s \in Slots : fID[s] # None => s <= Learn_Nums
    BY <1>0 DEF SeqInv, SlotInv
  <2>2. ID' = [s \in Slots |-> IF s <= Learn_Nums THEN fID[s] ELSE None]
    BY DEF Reset, LoadDevice2Memory
  <2> QED BY <1>0, <2>1, <2>2 DEF TypeOK
<1>4. \A s \in Slots : fID[s] # None =>
        Bind_ID'[s] = fBind[fID[s]] /\ Heart'[s] = fHeart[fID[s]]
  BY <1>3 DEF Reset, LoadDevice2Memory
<1>5. ASSUME NEW x \in Devices PROVE Known(x)' = Kept(x) /\ Kept(x)' = Kept(x)
  <2>1. Kept(x)' = Kept(x)
    BY <1>1 DEF Kept
  <2>2. \A s \in Slots : ID'[s] = x => Bind_ID'[s] = fBind[x] /\ Heart'[s] = fHeart[x]
    BY <1>3, <1>4, DevicesAssumption
  <2>3. Entries(ID', Bind_ID', Heart', x) = Keys(fID, fBind[x], fHeart[x], x)
    BY <1>3, <2>2 DEF Entries, Keys
  <2> QED BY <1>0, <2>1, <2>3, KnownKept
<1>6. Table!Restart
  BY <1>2, <1>5, StepRestart
<1> QED BY <1>6 DEF Table!Next

(* Starting an operation: only an addition that need not raise Num fills   *)
(* its slot at once.                                                       *)
LEMMA BeginTable ==
  ASSUME SeqStep, Begin(Radio)
  PROVE  [Table!Next]_Table!vars
<1> DEFINE o == Head(script[Radio])
<1>0. Threads = {Radio} /\ TypeOK /\ TypeOK' /\ SeqInv /\ SeqInv'
  BY DEF SeqStep
<1>1. o \in Op /\ rpc = "ready" /\ UNCHANGED <<Learn_Nums, fID, fBind, fHeart>>
  BY <1>0, ThreadsAssumption DEF Begin, TypeOK, flashVars, rpc
<1>2. Adding = {}
  BY <1>0, <1>1, AddingOne
<1>3. ASSUME rpc' \notin {"add_id", "add_bind", "add_heart"}, UNCHANGED <<ID, Bind_ID, Heart>>
      PROVE  [Table!Next]_Table!vars
  <2>1. Adding' = Adding
    BY <1>0, <1>2, <1>3, AddingOne
  <2> QED BY <1>1, <1>3, <2>1, QuietTable
<1> HIDE DEF o
<1>4. CASE StartAdd(Radio, o)
  <2>1. CASE UploadTail(Radio, o) /\ UNCHANGED <<ID, Bind_ID, Heart>>
    <3>1. rpc' \in {"ready", "set_upload"}
      BY <1>0, <2>1, UploadTailMoves
    <3> QED BY <1>3, <2>1, <3>1
  <2>2. CASE Finish(Radio) /\ UNCHANGED <<ID, Bind_ID, Heart>>
    <3>1. rpc' = "ready"
      BY <1>0, <2>2, RadioMoves
    <3> QED BY <1>3, <2>2, <3>1
  <2>3. ASSUME NEW s \in Slots, IsFirst(s, Free), ~Registered(o.dev), Locate(Radio, o, s, 0),
               \/ Goto(Radio, "add_nums") /\ UNCHANGED <<ID, Bind_ID, Heart>>
               \/ Store(Radio, o, s)
        PROVE  [Table!Next]_Table!vars
    <3>1. CASE Goto(Radio, "add_nums") /\ UNCHANGED <<ID, Bind_ID, Heart>>
      <4>1. rpc' = "add_nums"
        BY <1>0, <3>1, RadioMoves
      <4> QED BY <1>3, <3>1, <4>1
    <3>2. CASE Store(Radio, o, s)
      <4> PICK d, c : d = o.dev /\ c = o.bind
        OBVIOUS
      <4>1. /\ rpc' = "add_id" /\ rloc'.dev = d /\ d \in Devices /\ c \in Devices \cup {None}
            /\ ID' = [ID EXCEPT ![s] = d] /\ Bind_ID' = [Bind_ID EXCEPT ![s] = c]
            /\ Heart' = [Heart EXCEPT ![s] = 1]
        BY <1>0, <1>1, <2>3, <3>2, RadioMoves DEF Store, Op
      <4>2. ID[s] = None /\ \A r \in Slots : ID[r] # d
        BY <1>0, <2>3, <4>1, DevicesAssumption
        DEF IsFirst, Free, Registered, SlotsOf, SeqInv, SlotInv
      <4>3. Adding' = {d}
        BY <1>0, <4>1, AddingOne
      <4>4. Table!Enter(d)
        BY <1>1, <1>2, <4>1, <4>2, <4>3, EnterTable
      <4> QED BY <4>1, <4>4 DEF Table!Next
    <3> QED BY <2>3, <3>1, <3>2
  <2> QED BY <1>4, <2>1, <2>2, <2>3 DEF StartAdd
<1>5. CASE Del_Device(Radio, o) \/ Del_MainBind(Radio, o)
  <2>1. /\ \E S : StartSearch(Radio, o, S)
        /\ UNCHANGED <<ID, Bind_ID, Heart>>
    BY <1>5 DEF Del_Device, Del_MainBind
  <2>2. rpc' \in {"ready", "del_main", "del_id"}
    BY <1>0, <2>1, StartSearchMoves
  <2> QED BY <1>3, <2>1, <2>2
<1>6. CASE Flash_Set_Heart(Radio, o)
  <2>1. UNCHANGED <<ID, Bind_ID, Heart>> /\ (Finish(Radio) \/ Goto(Radio, "set_heart"))
    BY <1>6 DEF Flash_Set_Heart, memVars
  <2>2. rpc' \in {"ready", "set_heart"}
    BY <1>0, <2>1, RadioMoves
  <2> QED BY <1>3, <2>1, <2>2
<1>7. CASE Flash_Set_UploadFlag(Radio, o)
  <2>1. UploadTail(Radio, o) /\ UNCHANGED <<ID, Bind_ID, Heart>>
    BY <1>7 DEF Flash_Set_UploadFlag, UploadTail
  <2>2. rpc' \in {"ready", "set_upload"}
    BY <1>0, <2>1, UploadTailMoves
  <2> QED BY <1>3, <2>1, <2>2
<1> QED BY <1>4, <1>5, <1>6, <1>7 DEF Begin, o

(* The writes that no entry depends on.                                    *)
LEMMA OtherWriteTable ==
  ASSUME SeqStep,
         \/ AddWriteMain(Radio) \/ DelWriteMain(Radio) \/ DelWriteUpload(Radio)
         \/ Flash_UploadFlag_Change(Radio)
  PROVE  [Table!Next]_Table!vars
<1>0. Threads = {Radio} /\ TypeOK /\ TypeOK' /\ SeqInv /\ SeqInv'
  BY DEF SeqStep
<1>1. /\ rpc \in {"add_main", "del_main", "del_upload", "set_upload"}
      /\ UNCHANGED <<ID, Bind_ID, Heart, fID, fBind, fHeart>>
  BY DEF AddWriteMain, DelWriteMain, DelWriteUpload, Flash_UploadFlag_Change, memVars, rpc
<1>2. rpc' \notin {"add_id", "add_bind", "add_heart"}
  <2>1. CASE AddWriteMain(Radio)
    BY <1>0, <2>1, UploadTailMoves DEF AddWriteMain
  <2>2. CASE DelWriteMain(Radio)
    BY <1>0, <2>2, RadioMoves DEF DelWriteMain
  <2>3. CASE DelWriteUpload(Radio)
    BY <1>0, <2>3, RadioMoves, StartSearchMoves DEF DelWriteUpload
  <2>4. CASE Flash_UploadFlag_Change(Radio)
    BY <1>0, <2>4, RadioMoves DEF Flash_UploadFlag_Change
  <2> QED BY <2>1, <2>2, <2>3, <2>4
<1>3. Adding' = Adding
  BY <1>0, <1>1, <1>2, AddingOne
<1>4. UNCHANGED Table!vars
  BY <1>1, <1>3, QuietTable
<1> QED BY <1>4

(* When all the operations run in one thread the registry, for any number  *)
(* of devices and slots, is the table of Registry: whichever of its        *)
(* single-key writes a reset falls on, additions, deletions and online     *)
(* flags are seen as if the whole store were written at once, except for   *)
(* the device that is being added.                                         *)
THEOREM SequentialTable ==
  ASSUME Threads = {Radio}
  PROVE  Spec => IsRegistry
<1>1. Init => Table!Init
  <2> SUFFICES ASSUME Init PROVE Table!Init
    OBVIOUS
  <2>1. \A s \in Slots : ID[s] = None /\ fID[s] = None
    BY DEF Init
  <2>2. \A d \in Devices : Known(d) = {} /\ Kept(d) = {}
    BY <2>1, DevicesAssumption DEF Known, Kept
  <2>3. Adding = {}
    <3>1. rpc = "ready"
      BY ThreadsAssumption DEF Init, rpc
    <3> QED BY <3>1, AddingOne
  <2> QED BY <2>2, <2>3 DEF Table!Init, Adding
<1>2. TypeOK /\ TypeOK' /\ SeqInv /\ SeqInv' /\ [Next]_vars => [Table!Next]_Table!vars
  <2> SUFFICES ASSUME TypeOK, TypeOK', SeqInv, SeqInv', [Next]_vars
               PROVE  [Table!Next]_Table!vars
    OBVIOUS
  <2>0. SeqStep
    BY DEF SeqStep
  <2>1. CASE RadioHandler \/ OtherHandler(Radio)
    <3>1. \E ops \in Seq({o \in Op : MainOp(o)}) : Run(Radio, ops)
      BY <2>1, MainScripts
    <3>2. UNCHANGED <<ID, Bind_ID, Heart, fID, fBind, fHeart, pc, loc>>
      BY <3>1 DEF Run, memVars, flashVars
    <3>3. Adding' = Adding
      BY <3>2, AddingOne DEF rpc, rloc
    <3>4. UNCHANGED Table!vars
      BY <2>0, <3>2, <3>3, QuietTable
    <3> QED BY <3>4
  <2>2. CASE Begin(Radio)
    BY <2>0, <2>2, BeginTable
  <2>3. CASE Write(Radio)
    BY <2>0, <2>3, LearnNumsTable, AddWriteTable, DelIDTable, DelBindTable, HeartTable,
       OtherWriteTable DEF Write
  <2>4. CASE Reset
    BY <2>0, <2>4, ResetTable
  <2>5. CASE UNCHANGED vars
    <3>1. UNCHANGED <<ID, Bind_ID, Heart, fID, fBind, fHeart, pc, loc>>
      BY <2>5 DEF vars
    <3>2. Adding' = Adding
      BY <3>1, AddingOne DEF rpc, rloc
    <3>3. UNCHANGED Table!vars
      BY <2>0, <3>1, <3>2, QuietTable
    <3> QED BY <3>3
  <2> QED BY <2>1, <2>2, <2>3, <2>4, <2>5 DEF Next
<1> QED BY <1>1, <1>2, SequentialInvariant, PTL DEF Spec, IsRegistry, Table!Spec
=============================================================================
