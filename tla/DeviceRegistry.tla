--------------------------- MODULE DeviceRegistry ---------------------------
(***************************************************************************)
(* The device registry of the gateway (applications/flashwork.c).          *)
(*                                                                         *)
(* Global_Device is the table in RAM; the EasyFlash key-value store holds  *)
(* its persistent copy under the keys "Learn_Nums", "Main_Nums", "<slot>", *)
(* "bind:<id>", "heart:<id>" and "upload:<id>".  Every registry operation  *)
(* is a series of single-key writes, each of which takes the store's lock  *)
(* (ef_port_env_lock) and may therefore be overtaken by another thread, or *)
(* be the last thing that happens before the power is lost.  pc[t] names   *)
(* the key that thread t is about to write; one step writes that key and   *)
(* runs on to the next write.                                              *)
(*                                                                         *)
(* A radio or cloud handler is a fixed sequence of registry operations;    *)
(* script[t] holds the ones that thread t has still to start.              *)
(***************************************************************************)
EXTENDS Integers, Sequences, FiniteSets

CONSTANTS
  Mains,        \* ids 10000000..19999999: valve controllers
  Terminals,    \* ids 20000000..39999999: leak sensors and doors
  None,         \* the id 0
  Threads,      \* threads that run registry operations
  Radio,        \* the thread rf_433_task, which learns and forgets devices
  MaxSupport,   \* size of the arrays of Device_Info (slot 0 is unused)
  MainSupport   \* number of controllers the gateway accepts

Devices == Mains \cup Terminals

ASSUME DevicesAssumption == Mains \cap Terminals = {} /\ None \notin Devices
ASSUME ThreadsAssumption == Radio \in Threads
ASSUME SizeAssumption ==
  /\ MaxSupport \in Nat /\ MaxSupport > 1
  /\ MainSupport \in Nat /\ MainSupport > 0

Slots == 1 .. MaxSupport - 1
Flag  == {0, 1}

VARIABLES
  Num, MainNum, ID, Bind_ID, Heart, UploadFlag,        \* Global_Device
  Learn_Nums, Main_Nums, fID, fBind, fHeart, fUpload,  \* the key-value store
  pc, loc, script                                      \* the threads

memVars    == <<Num, MainNum, ID, Bind_ID, Heart, UploadFlag>>
flashVars  == <<Learn_Nums, Main_Nums, fID, fBind, fHeart, fUpload>>
threadVars == <<pc, loc, script>>
vars       == <<Num, MainNum, ID, Bind_ID, Heart, UploadFlag,
                Learn_Nums, Main_Nums, fID, fBind, fHeart, fUpload,
                pc, loc, script>>

-----------------------------------------------------------------------------
(* Registry operations and the local variables of the one in progress.     *)

Op == [op   : {"add", "del", "delall", "heart", "upload"},
       dev  : Devices,
       bind : Devices \cup {None},
       flag : Flag]

Locals == [op   : {"none", "add", "del", "delall", "heart", "upload"},
           dev  : Devices \cup {None},
           bind : Devices \cup {None},
           flag : Flag,
           slot : 0 .. MaxSupport - 1,
           num  : 0 .. MainSupport]

NoLocals == [op |-> "none", dev |-> None, bind |-> None, flag |-> 0,
             slot |-> 0, num |-> 0]

AddPc == {"add_nums", "add_id", "add_bind", "add_heart", "add_main"}
DelPc == {"del_main", "del_id", "del_bind", "del_upload"}
Pc    == {"ready", "set_heart", "set_upload"} \cup AddPc \cup DelPc

TypeOK ==
  /\ Num \in 0 .. MaxSupport - 1        /\ Learn_Nums \in 0 .. MaxSupport - 1
  /\ MainNum \in 0 .. MainSupport       /\ Main_Nums \in 0 .. MainSupport
  /\ ID \in [Slots -> Devices \cup {None}]
  /\ fID \in [Slots -> Devices \cup {None}]
  /\ Bind_ID \in [Slots -> Devices \cup {None}]
  /\ fBind \in [Devices -> Devices \cup {None}]
  /\ Heart \in [Slots -> Flag]          /\ fHeart \in [Devices -> Flag]
  /\ UploadFlag \in [Slots -> Flag]     /\ fUpload \in [Devices -> Flag]
  /\ pc \in [Threads -> Pc]
  /\ loc \in [Threads -> Locals]
  /\ \A t \in Threads :
       pc[t] # "ready" => loc[t].dev \in Devices /\ loc[t].slot \in Slots
  /\ script \in [Threads -> Seq(Op)]

-----------------------------------------------------------------------------
(* Searches.  New devices take the lowest free slot; every other search    *)
(* runs from Num down to 1 and stops at the first hit.                     *)

IsFirst(s, S) == s \in S /\ \A r \in S : s <= r
IsLast(s, S)  == s \in S /\ \A r \in S : r <= s

Free         == {s \in Slots : ID[s] = None}
SlotsOf(d)   == {s \in Slots : s <= Num /\ ID[s] = d}
Registered(d) == SlotsOf(d) # {}

(* Slots that Del_MainBind has still to clear for controller m below n.    *)
BoundBelow(m, n) == {s \in Slots : s < n /\ (Bind_ID[s] = m \/ ID[s] = m)}

-----------------------------------------------------------------------------
(* The handlers: which operations a message or a request runs, in order.   *)

AddOp(d, b)    == [op |-> "add", dev |-> d, bind |-> b, flag |-> 0]
DelOp(d)       == [op |-> "del", dev |-> d, bind |-> None, flag |-> 0]
DelAllOp(m)    == [op |-> "delall", dev |-> m, bind |-> None, flag |-> 0]
HeartOp(d, h)  == [op |-> "heart", dev |-> d, bind |-> None, flag |-> h]
UploadOp(d, u) == [op |-> "upload", dev |-> d, bind |-> None, flag |-> u]

Run(t, ops) ==
  /\ pc[t] = "ready" /\ script[t] = <<>>
  /\ script' = [script EXCEPT ![t] = ops]
  /\ UNCHANGED <<memVars, flashVars, pc, loc>>

(* NormalSolve of any message that teaches nothing.                        *)
NormalSolve(d) == Run(Radio, <<HeartOp(d, 1)>>)

(* Device_Learn with Data = 2, then the Heart_Upload of NormalSolve.       *)
Device_Learn(m) ==
  /\ Registered(m) \/ MainNum < MainSupport
  /\ Run(Radio, <<DelOp(m), AddOp(m, None), HeartOp(m, 1)>>)

(* GatewaySyncSolve, message of a known controller m about terminal d.     *)
SyncHeart(m, d) ==            \* type 1
  Registered(m) /\ Run(Radio, <<HeartOp(m, 1), HeartOp(d, 1)>>)
SyncDelete(m, d) ==           \* type 2
  Registered(m) /\ Run(Radio, <<HeartOp(m, 1), DelOp(d)>>)
SyncAdd(m, d, h) ==           \* types 3 and 6 (online), 5 (offline)
  Registered(m) /\ Run(Radio, <<HeartOp(m, 1), AddOp(d, m), HeartOp(d, h)>>)
SyncDeleteAll(m) ==           \* type 4
  Registered(m) /\ Run(Radio, <<HeartOp(m, 1), DelAllOp(m)>>)

(* GatewayWarningSolve, command 4: the controller reports d as offline.    *)
WarnOffline(m, d) ==
  Registered(m) /\ Run(Radio, <<HeartOp(m, 1), HeartOp(d, 0)>>)

(* Remote_Delete: the app removes a device; Self_Bind_Upload: the cloud's  *)
(* first heartbeat request for it.  Both run in the wifi service thread,   *)
(* which is any thread of the instance.                                    *)
Remote_Delete(t, d) == Run(t, <<DelOp(d)>>)
Self_Bind_Upload(t, d) ==
  /\ \E s \in Slots : IsLast(s, SlotsOf(d)) /\ UploadFlag[s] = 0
  /\ Run(t, <<UploadOp(d, 1)>>)

(* heart_callback: the heartbeat of controller m was answered, or given up.*)
HeartResult(t, m, h) == Registered(m) /\ Run(t, <<HeartOp(m, h)>>)

(* Sync_t_Callback: the device whose turn it is in a synchronisation is    *)
(* added again, without a controller, in case it is gone by then.          *)
SyncDevice(t) == \E s \in Slots : ID[s] # None /\ Run(t, <<AddOp(ID[s], None)>>)

-----------------------------------------------------------------------------
(* Starting an operation.                                                  *)

Locate(t, o, s, n) ==
  loc' = [loc EXCEPT ![t] = [op |-> o.op, dev |-> o.dev, bind |-> o.bind,
                             flag |-> o.flag, slot |-> s, num |-> n]]
Goto(t, l) == pc' = [pc EXCEPT ![t] = l]
Finish(t)  == Goto(t, "ready") /\ loc' = [loc EXCEPT ![t] = NoLocals]

(* Flash_Set_UploadFlag: the flag in RAM first, its key next.              *)
StartUpload(t, o) ==
  \E s \in Slots :
    /\ IsLast(s, SlotsOf(o.dev))
    /\ UploadFlag' = [UploadFlag EXCEPT ![s] = o.flag]
    /\ Locate(t, o, s, 0)
    /\ Goto(t, "set_upload")

(* The end of Device_Add2Flash_Wifi: a device that the cloud's list does   *)
(* not name (Remote_Get_Key_Valid) has its upload flag cleared.  The list  *)
(* is not part of this module: either answer is possible.                  *)
UploadTail(t, o) ==
  \/ Finish(t) /\ UNCHANGED UploadFlag
  \/ StartUpload(t, o)

(* The assignments of MainAdd_Flash, SlaveAdd_Flash and DoorAdd_Flash.     *)
Store(t, o, s) ==
  /\ ID' = [ID EXCEPT ![s] = o.dev]
  /\ Bind_ID' = [Bind_ID EXCEPT ![s] = o.bind]
  /\ Heart' = [Heart EXCEPT ![s] = 1]
  /\ Goto(t, "add_id")

(* Variations of StartAdd: the device is not looked up first; the count of *)
(* used slots is not raised.                                               *)
StartAdd_NoLookup(t, o) ==
  /\ o.op = "add"
  /\ \/ /\ Free = {}
        /\ Finish(t)
        /\ UNCHANGED <<Num, ID, Bind_ID, Heart>>
     \/ \E s \in Slots :
          /\ IsFirst(s, Free)
          /\ Locate(t, o, s, 0)
          /\ \/ /\ s > Num
                /\ Num' = s
                /\ Goto(t, "add_nums")
                /\ UNCHANGED <<ID, Bind_ID, Heart>>
             \/ /\ s <= Num
                /\ Store(t, o, s)
                /\ UNCHANGED Num
  /\ UNCHANGED <<MainNum, UploadFlag>>

StartAdd_NumKept(t, o) ==
  /\ o.op = "add"
  /\ \/ /\ Registered(o.dev) \/ Free = {}
        /\ Finish(t)
        /\ UNCHANGED <<ID, Bind_ID, Heart>>
     \/ /\ ~Registered(o.dev)
        /\ \E s \in Slots :
             IsFirst(s, Free) /\ Locate(t, o, s, 0) /\ Store(t, o, s)
  /\ UNCHANGED <<Num, MainNum, UploadFlag>>

(* Device_Add2Flash_Wifi, up to the first write; Get_LearnNums_Valid.      *)
StartAdd(t, o) ==
  /\ o.op = "add"
  /\ \/ /\ Registered(o.dev)
        /\ UploadTail(t, o)
        /\ UNCHANGED <<Num, ID, Bind_ID, Heart>>
     \/ /\ ~Registered(o.dev) /\ Free = {}
        /\ Finish(t)
        /\ UNCHANGED <<Num, ID, Bind_ID, Heart, UploadFlag>>
     \/ /\ ~Registered(o.dev)
        /\ \E s \in Slots :
             /\ IsFirst(s, Free)
             /\ Locate(t, o, s, 0)
             /\ \/ /\ s > Num
                   /\ Num' = s
                   /\ Goto(t, "add_nums")
                   /\ UNCHANGED <<ID, Bind_ID, Heart>>
                \/ /\ s <= Num
                   /\ Store(t, o, s)
                   /\ UNCHANGED Num
        /\ UNCHANGED UploadFlag
  /\ UNCHANGED MainNum

(* Variation of StartSlot: Del_MainNums without its test for 0.            *)
StartSlot_Unguarded(t, o, s) ==
  \/ /\ o.dev \in Mains
     /\ MainNum' = MainNum - 1
     /\ Locate(t, o, s, MainNum - 1)
     /\ Goto(t, "del_main")
  \/ /\ o.dev \notin Mains
     /\ Locate(t, o, s, 0)
     /\ Goto(t, "del_id")
     /\ UNCHANGED MainNum

(* One deletion of Del_Device or Del_MainBind: Del_MainNums first.         *)
StartSlot(t, o, s) ==
  \/ /\ o.dev \in Mains /\ MainNum > 0
     /\ MainNum' = MainNum - 1
     /\ Locate(t, o, s, MainNum - 1)
     /\ Goto(t, "del_main")
  \/ /\ ~(o.dev \in Mains /\ MainNum > 0)
     /\ Locate(t, o, s, 0)
     /\ Goto(t, "del_id")
     /\ UNCHANGED MainNum

StartSearch(t, o, S) ==
  \/ \E s \in Slots : IsLast(s, S) /\ StartSlot(t, o, s)
  \/ S = {} /\ Finish(t) /\ UNCHANGED MainNum

Del_Device(t, o) ==
  /\ o.op = "del"
  /\ StartSearch(t, o, SlotsOf(o.dev))
  /\ UNCHANGED <<Num, ID, Bind_ID, Heart, UploadFlag>>

Del_MainBind(t, o) ==
  /\ o.op = "delall"
  /\ StartSearch(t, o, BoundBelow(o.dev, Num + 1))
  /\ UNCHANGED <<Num, ID, Bind_ID, Heart, UploadFlag>>

(* Flash_Set_Heart: nothing to write when the flag has that value already. *)
Flash_Set_Heart(t, o) ==
  /\ o.op = "heart"
  /\ \/ /\ \E s \in Slots :
             /\ IsLast(s, SlotsOf(o.dev))
             /\ Heart[s] # o.flag
             /\ Locate(t, o, s, 0)
        /\ Goto(t, "set_heart")
     \/ /\ \A s \in Slots : IsLast(s, SlotsOf(o.dev)) => Heart[s] = o.flag
        /\ Finish(t)
  /\ UNCHANGED memVars

Flash_Set_UploadFlag(t, o) ==
  /\ o.op = "upload"
  /\ StartUpload(t, o) \/ (~Registered(o.dev) /\ Finish(t) /\ UNCHANGED UploadFlag)
  /\ UNCHANGED <<Num, MainNum, ID, Bind_ID, Heart>>

Begin(t) ==
  /\ pc[t] = "ready" /\ script[t] # <<>>
  /\ script' = [script EXCEPT ![t] = Tail(@)]
  /\ LET o == Head(script[t])
     IN  StartAdd(t, o) \/ Del_Device(t, o) \/ Del_MainBind(t, o)
           \/ Flash_Set_Heart(t, o) \/ Flash_Set_UploadFlag(t, o)
  /\ UNCHANGED flashVars

-----------------------------------------------------------------------------
(* The writes of an addition.                                              *)

Flash_LearnNums_Change(t) ==
  /\ pc[t] = "add_nums"
  /\ Learn_Nums' = loc[t].slot
  /\ Store(t, loc[t], loc[t].slot)
  /\ UNCHANGED <<Num, MainNum, UploadFlag, Main_Nums, fID, fBind, fHeart,
                 fUpload, loc, script>>

AddWriteID(t) ==
  /\ pc[t] = "add_id"
  /\ fID' = [fID EXCEPT ![loc[t].slot] = loc[t].dev]
  /\ Goto(t, "add_bind")
  /\ UNCHANGED <<memVars, Learn_Nums, Main_Nums, fBind, fHeart, fUpload,
                 loc, script>>

AddWriteBind(t) ==
  /\ pc[t] = "add_bind"
  /\ fBind' = [fBind EXCEPT ![loc[t].dev] = loc[t].bind]
  /\ Goto(t, "add_heart")
  /\ UNCHANGED <<memVars, Learn_Nums, Main_Nums, fID, fHeart, fUpload,
                 loc, script>>

(* The heart key, then Add_MainNums for a controller.                      *)
AddWriteHeart(t) ==
  /\ pc[t] = "add_heart"
  /\ fHeart' = [fHeart EXCEPT ![loc[t].dev] = 1]
  /\ \/ /\ loc[t].dev \in Mains /\ MainNum < MainSupport
        /\ MainNum' = MainNum + 1
        /\ loc' = [loc EXCEPT ![t].num = MainNum + 1]
        /\ Goto(t, "add_main")
        /\ UNCHANGED UploadFlag
     \/ /\ ~(loc[t].dev \in Mains /\ MainNum < MainSupport)
        /\ UploadTail(t, loc[t])
        /\ UNCHANGED MainNum
  /\ UNCHANGED <<Num, ID, Bind_ID, Heart, Learn_Nums, Main_Nums, fID, fBind,
                 fUpload, script>>

AddWriteMain(t) ==
  /\ pc[t] = "add_main"
  /\ Main_Nums' = loc[t].num
  /\ UploadTail(t, loc[t])
  /\ UNCHANGED <<Num, MainNum, ID, Bind_ID, Heart, Learn_Nums, fID, fBind,
                 fHeart, fUpload, script>>

-----------------------------------------------------------------------------
(* The writes of a deletion.  Heart is left as it was; Del_MainBind clears *)
(* the keys of the controller, not those of the terminal in the slot.      *)

(* Variations: the new count, or the emptied slot, is not saved.           *)
DelWriteMain_NotSaved(t) ==
  /\ pc[t] = "del_main"
  /\ Goto(t, "del_id")
  /\ UNCHANGED <<memVars, flashVars, loc, script>>

DelWriteID_NotSaved(t) ==
  /\ pc[t] = "del_id"
  /\ ID' = [ID EXCEPT ![loc[t].slot] = None]
  /\ Goto(t, "del_bind")
  /\ UNCHANGED <<Num, MainNum, Bind_ID, Heart, UploadFlag, flashVars, loc,
                 script>>

DelWriteMain(t) ==
  /\ pc[t] = "del_main"
  /\ Main_Nums' = loc[t].num
  /\ Goto(t, "del_id")
  /\ UNCHANGED <<memVars, Learn_Nums, fID, fBind, fHeart, fUpload, loc, script>>

DelWriteID(t) ==
  /\ pc[t] = "del_id"
  /\ fID' = [fID EXCEPT ![loc[t].slot] = None]
  /\ ID' = [ID EXCEPT ![loc[t].slot] = None]
  /\ Goto(t, "del_bind")
  /\ UNCHANGED <<Num, MainNum, Bind_ID, Heart, UploadFlag, Learn_Nums,
                 Main_Nums, fBind, fHeart, fUpload, loc, script>>

DelWriteBind(t) ==
  /\ pc[t] = "del_bind"
  /\ fBind' = [fBind EXCEPT ![loc[t].dev] = None]
  /\ Bind_ID' = [Bind_ID EXCEPT ![loc[t].slot] = None]
  /\ Goto(t, "del_upload")
  /\ UNCHANGED <<Num, MainNum, ID, Heart, UploadFlag, Learn_Nums, Main_Nums,
                 fID, fHeart, fUpload, loc, script>>

DelWriteUpload(t) ==
  /\ pc[t] = "del_upload"
  /\ fUpload' = [fUpload EXCEPT ![loc[t].dev] = 0]
  /\ UploadFlag' = [UploadFlag EXCEPT ![loc[t].slot] = 0]
  /\ \/ loc[t].op = "del" /\ Finish(t) /\ UNCHANGED MainNum
     \/ /\ loc[t].op = "delall"
        /\ StartSearch(t, loc[t], BoundBelow(loc[t].dev, loc[t].slot))
  /\ UNCHANGED <<Num, ID, Bind_ID, Heart, Learn_Nums, Main_Nums, fID, fBind,
                 fHeart, script>>

-----------------------------------------------------------------------------
(* The writes of the two flags.                                            *)

Flash_Heart_Change(t) ==
  /\ pc[t] = "set_heart"
  /\ fHeart' = [fHeart EXCEPT ![loc[t].dev] = loc[t].flag]
  /\ Heart' = [Heart EXCEPT ![loc[t].slot] = loc[t].flag]
  /\ Finish(t)
  /\ UNCHANGED <<Num, MainNum, ID, Bind_ID, UploadFlag, Learn_Nums, Main_Nums,
                 fID, fBind, fUpload, script>>

Flash_UploadFlag_Change(t) ==
  /\ pc[t] = "set_upload"
  /\ fUpload' = [fUpload EXCEPT ![loc[t].dev] = loc[t].flag]
  /\ Finish(t)
  /\ UNCHANGED <<memVars, Learn_Nums, Main_Nums, fID, fBind, fHeart, script>>

-----------------------------------------------------------------------------
(* LoadDevice2Memory after a reset: whatever was being done is forgotten.  *)

LoadDevice2Memory ==
  LET id == [s \in Slots |-> IF s <= Learn_Nums THEN fID[s] ELSE None]
  IN  /\ Num' = Learn_Nums
      /\ MainNum' = Main_Nums
      /\ ID' = id
      /\ Bind_ID' = [s \in Slots |-> IF id[s] = None THEN None ELSE fBind[id[s]]]
      /\ Heart' = [s \in Slots |-> IF id[s] = None THEN 0 ELSE fHeart[id[s]]]
      /\ UploadFlag' = [s \in Slots |-> IF id[s] = None THEN 0 ELSE fUpload[id[s]]]

Reset ==
  /\ LoadDevice2Memory
  /\ pc' = [t \in Threads |-> "ready"]
  /\ loc' = [t \in Threads |-> NoLocals]
  /\ script' = [t \in Threads |-> <<>>]
  /\ UNCHANGED flashVars

-----------------------------------------------------------------------------
(* A gateway that has never been used: the store has no key.               *)
Init ==
  /\ Num = 0 /\ MainNum = 0 /\ Learn_Nums = 0 /\ Main_Nums = 0
  /\ ID = [s \in Slots |-> None] /\ fID = [s \in Slots |-> None]
  /\ Bind_ID = [s \in Slots |-> None] /\ fBind = [d \in Devices |-> None]
  /\ Heart = [s \in Slots |-> 0] /\ fHeart = [d \in Devices |-> 0]
  /\ UploadFlag = [s \in Slots |-> 0] /\ fUpload = [d \in Devices |-> 0]
  /\ pc = [t \in Threads |-> "ready"]
  /\ loc = [t \in Threads |-> NoLocals]
  /\ script = [t \in Threads |-> <<>>]

RadioHandler ==
  \/ \E d \in Devices : NormalSolve(d)
  \/ \E m \in Mains :
       \/ Device_Learn(m)
       \/ SyncDeleteAll(m)
       \/ \E d \in Terminals :
            \/ SyncHeart(m, d)
            \/ SyncDelete(m, d)
            \/ \E h \in Flag : SyncAdd(m, d, h)
            \/ WarnOffline(m, d)

OtherHandler(t) ==
  \/ SyncDevice(t)
  \/ \E d \in Devices : Remote_Delete(t, d) \/ Self_Bind_Upload(t, d)
  \/ \E m \in Mains, h \in Flag : HeartResult(t, m, h)

Write(t) ==
  \/ Flash_LearnNums_Change(t) \/ AddWriteID(t) \/ AddWriteBind(t)
  \/ AddWriteHeart(t) \/ AddWriteMain(t)
  \/ DelWriteMain(t) \/ DelWriteID(t) \/ DelWriteBind(t) \/ DelWriteUpload(t)
  \/ Flash_Heart_Change(t) \/ Flash_UploadFlag_Change(t)

Next ==
  \/ RadioHandler
  \/ \E t \in Threads : OtherHandler(t) \/ Begin(t) \/ Write(t)
  \/ Reset

Spec == Init /\ [][Next]_vars

-----------------------------------------------------------------------------
(* Properties.                                                             *)

MainSlots(f) == {s \in Slots : f[s] \in Mains}

(* The counter that decides whether a new controller is refused ("Main is  *)
(* Full") never exceeds the number of controllers in the table, neither in *)
(* RAM nor in what a reset at this very moment would load: Add_MainNums    *)
(* runs after the slot is filled, Del_MainNums before it is emptied.       *)
NoPhantomMain ==
  /\ MainNum <= Cardinality(MainSlots(ID))
  /\ Main_Nums <= Cardinality({s \in MainSlots(fID) : s <= Learn_Nums})

(* The device whose keys an unfinished addition of thread t is writing.    *)
BeingAdded(t) ==
  IF pc[t] \in {"add_id", "add_bind", "add_heart"} THEN {loc[t].dev} ELSE {}

(* A reset at any moment keeps every device that is not being added right  *)
(* then: it is loaded back into its slot, with its controller and its      *)
(* online flag, and a device that was deleted does not come back.          *)
ResetKeepsOthers ==
  \A d \in Devices \ UNION {BeingAdded(t) : t \in Threads} :
    \A s \in Slots :
      /\ ID[s] = d <=> fID[s] = d
      /\ ID[s] = d => /\ s <= Learn_Nums
                      /\ Heart[s] = fHeart[d]
                      /\ Bind_ID[s] = fBind[d]

(* No id is in two slots, in RAM or in the store, so that the searches and *)
(* the deletions, which stop at the first hit, see all there is.           *)
UniqueIDs ==
  \A r, s \in Slots :
    /\ ID[r] = ID[s] /\ ID[r] # None => r = s
    /\ fID[r] = fID[s] /\ fID[r] # None => r = s

(* The entries of a device in the table, and in what a reset would load.   *)
Known(d) ==
  {<<s, Bind_ID[s], Heart[s]>> : s \in {r \in Slots : ID[r] = d}}
Kept(d) ==
  {<<s, fBind[d], fHeart[d]>> : s \in {r \in Slots : r <= Learn_Nums /\ fID[r] = d}}

Table == INSTANCE Registry WITH
           known  <- [d \in Devices |-> Known(d)],
           kept   <- [d \in Devices |-> Kept(d)],
           adding <- UNION {BeingAdded(t) : t \in Threads}

(* Single-key writes or not, the registry is the table that Registry       *)
(* describes: a device enters once and leaves at once, in RAM and in the   *)
(* store, and a reset at any moment brings back what was there, except for *)
(* the device that was being added.                                        *)
IsRegistry == Table!Spec

(* Every device is in a slot that the searches, which start at Num, visit. *)
WithinNum == \A s \in Slots : ID[s] # None => s <= Num

-----------------------------------------------------------------------------
(* The inductive invariants behind these properties when one thread runs   *)
(* all the operations; rpc and rloc are where that thread is.              *)

rpc  == pc[Radio]
rloc == loc[Radio]

(* Controllers are bound to nobody; only a controller is deleted with all  *)
(* that is bound to it.                                                    *)
MainOp(o) ==
  /\ o.dev \in Mains => o.bind = None
  /\ o.op = "delall" => o.dev \in Mains

ScriptInv ==
  /\ script[Radio] \in Seq({o \in Op : MainOp(o)})
  /\ rpc # "ready" => MainOp(rloc)

(* The slots of the table and of the store.                                *)
SlotInv ==
  /\ \A r, s \in Slots : ID[r] = ID[s] /\ ID[r] # None => r = s
  /\ \A s \in Slots : ID[s] # None => s <= Num
  /\ rpc # "add_nums" => Num = Learn_Nums
  /\ rpc = "add_nums" =>
       /\ Num = rloc.slot /\ ID[rloc.slot] = None
       /\ \A s \in Slots : ID[s] # None => s <= Learn_Nums /\ ID[s] # rloc.dev
  /\ \A s \in Slots : ID[s] = fID[s] \/ (rpc = "add_id" /\ s = rloc.slot)
  /\ rpc = "add_id" => fID[rloc.slot] = None
  /\ rpc \in {"add_id", "add_bind", "add_heart", "set_heart"} =>
       ID[rloc.slot] = rloc.dev
  /\ rpc \in DelPc => rloc.op \in {"del", "delall"}
  /\ rpc \in {"del_main", "del_id"} /\ rloc.op = "del" => ID[rloc.slot] = rloc.dev
  /\ rpc = "del_bind" =>
       /\ ID[rloc.slot] = None
       /\ rloc.op = "del" => \A s \in Slots : ID[s] # rloc.dev

(* The keys of the devices.                                                *)
KeyInv ==
  /\ \A m \in Mains : fBind[m] = None
  /\ \A s \in Slots : ID[s] \in Mains => Bind_ID[s] = None
  /\ \A s \in Slots : ID[s] # None =>
       /\ \/ Bind_ID[s] = fBind[ID[s]]
          \/ rpc \in {"add_id", "add_bind"} /\ s = rloc.slot
       /\ \/ Heart[s] = fHeart[ID[s]]
          \/ rpc \in {"add_id", "add_bind", "add_heart"} /\ s = rloc.slot
  /\ rpc \in {"add_id", "add_bind"} => Bind_ID[rloc.slot] = rloc.bind
  /\ rpc \in {"add_id", "add_bind", "add_heart"} => Heart[rloc.slot] = 1

(* The counters.                                                           *)
CountInv ==
  /\ MainNum <= Cardinality(MainSlots(ID))
  /\ rpc \in {"add_id", "add_bind", "add_heart"} /\ rloc.dev \in Mains =>
       MainNum + 1 <= Cardinality(MainSlots(ID))
  /\ rpc \in {"del_main", "del_id"} /\ ID[rloc.slot] \in Mains =>
       MainNum + 1 <= Cardinality(MainSlots(ID))
  /\ Main_Nums <= Cardinality(MainSlots(fID))
  /\ rpc \notin {"add_main", "del_main"} => Main_Nums = MainNum
  /\ rpc \in {"add_main", "del_main"} => rloc.num = MainNum
=============================================================================
