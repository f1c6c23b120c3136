--------------------------------- MODULE Ota ---------------------------------
(***************************************************************************)
(* Firmware update over the WiFi module: the commands UPDATE_START_CMD and *)
(* UPDATE_TRANS_CMD of data_handle (wifi/system.c), the callback           *)
(* mcu_firm_update_handle (wifi/protocol.c) and ota/wifi_ota.c.            *)
(*                                                                         *)
(* The WiFi module (external) offers an image, sends it block by block and *)
(* waits for an answer after each; it repeats a frame that stays           *)
(* unanswered.  Frames and answers may get lost.  The answers carry no     *)
(* offset.  A block is what one UPDATE_TRANS frame carries.                *)
(***************************************************************************)
EXTENDS Integers, FiniteSets

CONSTANTS
  Images,       \* firmware images the cloud may offer
  Blocks,       \* number of blocks of each image
  Cap,          \* blocks that the partition "download" holds
  MaxAttempts,  \* bound: how often the module offers an image
  MaxResets,    \* bound: how often the gateway loses power
  MayGiveUp,    \* the module may abandon a transfer and start another one
  FlashMayFail  \* erasing and writing the partition may fail

ASSUME OtaAssumption ==
  /\ IsFiniteSet(Images)
  /\ Cap \in Nat \ {0} /\ Blocks \in [Images -> Nat \ {0}]
  /\ MaxAttempts \in Nat /\ MaxResets \in Nat
  /\ MayGiveUp \in BOOLEAN /\ FlashMayFail \in BOOLEAN

VARIABLES
  firm_update_flag,      \* an update is under way (data_handle)
  firm_length,           \* its number of blocks
  update_file_cur_size,  \* blocks written so far (wifi_ota.c)
  dl,                    \* the partition "download"
  rebooted,              \* wifi_ota_end has restarted the gateway
  frame, answer,         \* what is on the serial line
  mst, img, off,         \* the module: its state, image and next block
  fault,                 \* since power came on: the module abandoned a transfer,
                         \* or the image or a block of it could not be stored
  attempts, resets

mcuVars    == <<firm_update_flag, firm_length, update_file_cur_size>>
moduleVars == <<mst, img, off>>
vars == <<firm_update_flag, firm_length, update_file_cur_size, dl, rebooted,
          frame, answer, mst, img, off, fault, attempts, resets>>

Cells   == 0 .. Cap - 1
Longest == CHOOSE n \in {Blocks[i] : i \in Images} :
             \A i \in Images : Blocks[i] <= n
Block(i, k) == <<i, k>>
Data     == {Block(i, k) : i \in Images, k \in 0 .. Longest - 1}
NoData   == <<>>          \* the data of the frame that ends the transfer
Erased   == <<"erased">>
Garbage  == <<"garbage">>
Content  == Data \cup {Erased, Garbage}

NoFrame == [cmd |-> "none"]
Start   == [cmd |-> "start", len |-> Blocks[img]]
Trans   == [cmd |-> "trans", off |-> off,
            data |-> IF off < Blocks[img] THEN Block(img, off) ELSE NoData]

TypeOK ==
  /\ firm_update_flag \in BOOLEAN
  /\ firm_length \in 0 .. Longest
  /\ update_file_cur_size \in 0 .. Cap
  /\ dl \in [Cells -> Content]
  /\ rebooted \in BOOLEAN /\ answer \in BOOLEAN /\ fault \in BOOLEAN
  /\ frame \in {NoFrame} \cup [cmd : {"start"}, len : 1 .. Longest]
                 \cup [cmd : {"trans"}, off : 0 .. Longest, data : Data \cup {NoData}]
  /\ mst \in {"idle", "start", "data"}
  /\ img \in Images /\ off \in 0 .. Longest
  /\ attempts \in 0 .. MaxAttempts /\ resets \in 0 .. MaxResets

-----------------------------------------------------------------------------
(* The WiFi module and the serial line (external).                         *)

Idle == frame = NoFrame /\ ~answer

Offer(i) ==
  /\ mst = "idle" /\ Idle /\ ~rebooted /\ attempts < MaxAttempts
  /\ attempts' = attempts + 1
  /\ mst' = "start" /\ img' = i /\ off' = 0
  /\ UNCHANGED <<mcuVars, dl, rebooted, frame, answer, fault, resets>>

(* The first time, or again after the answer has not come.                 *)
SendFrame ==
  /\ mst # "idle" /\ Idle /\ ~rebooted
  /\ frame' = IF mst = "start" THEN Start ELSE Trans
  /\ UNCHANGED <<mcuVars, dl, rebooted, answer, moduleVars, fault, attempts, resets>>

TakeAnswer ==
  /\ answer /\ answer' = FALSE
  /\ \/ mst = "start" /\ mst' = "data" /\ UNCHANGED off
     \/ mst = "data" /\ off' = off + 1 /\ UNCHANGED mst
  /\ UNCHANGED <<mcuVars, dl, rebooted, frame, img, fault, attempts, resets>>

(* The module gives up; it always does when the gateway has restarted.     *)
GatewayLost == mst = "data" /\ ~firm_update_flag
GiveUp ==
  /\ mst # "idle" /\ Idle /\ ~rebooted
  /\ MayGiveUp \/ GatewayLost
  /\ mst' = "idle"
  /\ fault' = (fault \/ ~GatewayLost)
  /\ UNCHANGED <<mcuVars, dl, rebooted, frame, answer, img, off, attempts, resets>>

Lose ==
  /\ frame # NoFrame \/ answer
  /\ frame' = NoFrame /\ answer' = FALSE
  /\ UNCHANGED <<mcuVars, dl, rebooted, moduleVars, fault, attempts, resets>>

-----------------------------------------------------------------------------
(* The gateway.                                                            *)

(* wifi_ota_begin: too large an image, or a failed erase, ends it early.   *)
wifi_ota_begin(n) ==
  \/ /\ n <= Cap
     /\ dl' = [c \in Cells |-> IF c < n THEN Erased ELSE dl[c]]
     /\ UNCHANGED fault
  \/ /\ n > Cap \/ FlashMayFail
     /\ fault' = TRUE
     /\ UNCHANGED dl

(* Erased flash takes the data; a cell that was not erased holds garbage.  *)
Written(c, d) ==
  [dl EXCEPT ![c] = IF dl[c] = Erased THEN d ELSE Garbage]

(* Variations of wifi_ota_receive: the offset is not compared; a failed    *)
(* write is counted too.                                                   *)
wifi_ota_receive_AnyOffset(o, d) ==
  \/ /\ update_file_cur_size < Cap
     /\ dl' = Written(update_file_cur_size, d)
     /\ update_file_cur_size' = update_file_cur_size + 1
     /\ UNCHANGED fault
  \/ /\ update_file_cur_size >= Cap \/ FlashMayFail
     /\ fault' = TRUE
     /\ UNCHANGED <<dl, update_file_cur_size>>

wifi_ota_receive_Uncounted(o, d) ==
  /\ update_file_cur_size' = update_file_cur_size + 1
  /\ dl' = IF update_file_cur_size < Cap THEN Written(update_file_cur_size, d) ELSE dl
  /\ UNCHANGED fault

wifi_ota_receive(o, d) ==
  \/ /\ update_file_cur_size = o /\ o < Cap
     /\ dl' = Written(o, d)
     /\ update_file_cur_size' = o + 1
     /\ UNCHANGED fault
  \/ /\ update_file_cur_size # o
     /\ UNCHANGED <<dl, update_file_cur_size, fault>>
  \/ /\ update_file_cur_size = o /\ (o >= Cap \/ FlashMayFail)
     /\ fault' = TRUE
     /\ UNCHANGED <<dl, update_file_cur_size>>

(* UPDATE_START_CMD.                                                       *)
UpdateStart ==
  /\ frame.cmd = "start"
  /\ firm_length' = frame.len
  /\ answer' = TRUE                   \* upgrade_package_choose
  /\ firm_update_flag' = TRUE
  /\ wifi_ota_begin(frame.len)
  /\ frame' = NoFrame
  /\ UNCHANGED <<update_file_cur_size, rebooted, moduleVars, attempts, resets>>

(* Variation of UpdateTrans: a block that is not the next one stays        *)
(* unanswered.                                                             *)
UpdateTrans_OldUnanswered ==
  /\ frame.cmd = "trans" /\ firm_update_flag /\ frame.data # NoData
  /\ wifi_ota_receive(frame.off, frame.data)
  /\ answer' = (frame.off = update_file_cur_size)
  /\ frame' = NoFrame
  /\ UNCHANGED <<firm_update_flag, firm_length, rebooted, moduleVars, attempts, resets>>

(* UPDATE_TRANS_CMD with data: mcu_firm_update_handle returns SUCCESS      *)
(* whatever wifi_ota_receive did, so the frame is always answered.  A      *)
(* frame with more data than the gateway has asked for would end the       *)
(* update without an answer; the module does not send one.                 *)
UpdateTrans ==
  /\ frame.cmd = "trans" /\ firm_update_flag /\ frame.data # NoData
  /\ wifi_ota_receive(frame.off, frame.data)
  /\ answer' = TRUE
  /\ frame' = NoFrame
  /\ UNCHANGED <<firm_update_flag, firm_length, rebooted, moduleVars, attempts, resets>>

(* UPDATE_TRANS_CMD without data: wifi_ota_end restarts the gateway.  With *)
(* an offset other than firm_length it would do so too, through the second *)
(* branch of data_handle; only the flag, which the restart clears, differs.*)
UpdateEnd ==
  /\ frame.cmd = "trans" /\ firm_update_flag /\ frame.data = NoData
  /\ rebooted' = TRUE
  /\ firm_update_flag' = FALSE
  /\ frame' = NoFrame
  /\ UNCHANGED <<firm_length, update_file_cur_size, dl, answer, moduleVars,
                 fault, attempts, resets>>

(* UPDATE_TRANS_CMD while no update is under way.                          *)
UpdateIgnored ==
  /\ frame.cmd = "trans" /\ ~firm_update_flag
  /\ frame' = NoFrame
  /\ UNCHANGED <<mcuVars, dl, rebooted, answer, moduleVars, fault, attempts, resets>>

(* Variation of PowerLoss: the count of written blocks survives.           *)
PowerLoss_CountKept ==
  /\ ~rebooted /\ resets < MaxResets
  /\ resets' = resets + 1
  /\ firm_update_flag' = FALSE /\ firm_length' = 0
  /\ frame' = NoFrame /\ answer' = FALSE /\ fault' = FALSE
  /\ UNCHANGED <<update_file_cur_size, dl, rebooted, moduleVars, attempts>>

(* The RAM starts afresh, so that earlier faults are forgotten as well.    *)
PowerLoss ==
  /\ ~rebooted /\ resets < MaxResets
  /\ resets' = resets + 1
  /\ firm_update_flag' = FALSE /\ firm_length' = 0 /\ update_file_cur_size' = 0
  /\ frame' = NoFrame /\ answer' = FALSE /\ fault' = FALSE
  /\ UNCHANGED <<dl, rebooted, moduleVars, attempts>>

-----------------------------------------------------------------------------
Init ==
  /\ firm_update_flag = FALSE /\ firm_length = 0 /\ update_file_cur_size = 0
  /\ dl = [c \in Cells |-> Garbage]
  /\ rebooted = FALSE
  /\ frame = NoFrame /\ answer = FALSE
  /\ mst = "idle" /\ img \in Images /\ off = 0
  /\ fault = FALSE /\ attempts = 0 /\ resets = 0

Gateway == UpdateStart \/ UpdateTrans \/ UpdateEnd \/ UpdateIgnored
Module  == (\E i \in Images : Offer(i)) \/ SendFrame \/ TakeAnswer

(* After a restart into the new firmware, or when the module has offered   *)
(* all it will offer, nothing more happens.                                *)
Done == (rebooted \/ (mst = "idle" /\ attempts = MaxAttempts)) /\ UNCHANGED vars

Next == Gateway \/ Module \/ GiveUp \/ Lose \/ PowerLoss \/ Done

(* The module keeps trying; a frame that is sent again and again arrives   *)
(* sooner or later, and so does its answer.                                *)
Spec ==
  /\ Init /\ [][Next]_vars
  /\ SF_vars(UpdateStart) /\ SF_vars(UpdateTrans) /\ SF_vars(UpdateEnd)
  /\ SF_vars(UpdateIgnored) /\ SF_vars(TakeAnswer)
  /\ WF_vars(SendFrame) /\ WF_vars(\E i \in Images : Offer(i))
  /\ SF_vars(GatewayLost /\ GiveUp)

-----------------------------------------------------------------------------
(* Properties.                                                             *)

(* "update successfully, system will boot": when wifi_ota_end restarts the *)
(* gateway, the partition holds the whole of the image that the module     *)
(* offered, although a frame or its answer may have been lost and repeated *)
(* at any point, and although transfers were abandoned and flash writes    *)
(* failed before power last came on.                                       *)
RebootComplete ==
  rebooted /\ ~fault =>
    /\ Blocks[img] <= Cap
    /\ \A k \in 0 .. Blocks[img] - 1 : dl[k] = Block(img, k)

(* Every block the module was given an answer for has been written.        *)
AnsweredIsWritten ==
  firm_update_flag /\ mst = "data" =>
    \A k \in 0 .. off - 1 : dl[k] = Block(img, k)

(* The module never gets ahead of the partition, though answers name no    *)
(* block, unless a fault has happened since power came on.                 *)
NeverAhead == ~fault => AnsweredIsWritten

(* Whatever is lost, repeated, abandoned or fails, a block that reaches    *)
(* the partition lies at its own place there.                              *)
InPlace == \A c \in Cells : dl[c] \in Data => dl[c][2] = c

(* A transfer that has begun comes to an end: the gateway never leaves the *)
(* module repeating a frame for ever, not even when it cannot store what   *)
(* the frame carries.                                                      *)
TransferEnds == (mst # "idle") ~> (mst = "idle" \/ rebooted)

(* An update that is offered often enough to outlast the power failures is *)
(* completed, unless there is a fault.                                     *)
UpdateEnds == <>(rebooted \/ fault)
=============================================================================
