------------------------------ MODULE OtaProofs ------------------------------
(***************************************************************************)
(* Proofs about the firmware update, for all images, partition sizes and   *)
(* numbers of attempts and power failures.                                 *)
(***************************************************************************)
EXTENDS Ota, FiniteSetTheorems, WellFoundedInduction, TLAPS

-----------------------------------------------------------------------------
(* Where blocks are stored.                                                *)

(* A frame under way carries the block of the offset it names.             *)
PlaceInv ==
  /\ dl = [c \in Cells |-> dl[c]]
  /\ InPlace
  /\ frame.cmd = "trans" /\ frame.data # NoData =>
       frame.data = Block(frame.data[1], frame.off)

(* What a cell holds when it is not a block of an image.                   *)
LEMMA NotData == Erased \notin Data /\ Garbage \notin Data
BY DEF Erased, Garbage, Data, Block

(* wifi_ota_begin leaves blocks where they are or erases them.             *)
LEMMA BeginInPlace ==
  ASSUME PlaceInv, NEW n, wifi_ota_begin(n)
  PROVE  dl' = [c \in Cells |-> dl'[c]] /\ InPlace'
<1>1. CASE UNCHANGED dl
  BY <1>1 DEF PlaceInv, InPlace
<1>2. CASE dl' = [c \in Cells |-> IF c < n THEN Erased ELSE dl[c]]
  BY <1>2, NotData DEF PlaceInv, InPlace
<1> QED BY <1>1, <1>2 DEF wifi_ota_begin

(* wifi_ota_receive stores the block of an offset at that offset.          *)
LEMMA ReceiveInPlace ==
  ASSUME PlaceInv, NEW o, NEW i, wifi_ota_receive(o, Block(i, o)),
         update_file_cur_size \in Nat
  PROVE  dl' = [c \in Cells |-> dl'[c]] /\ InPlace'
<1>1. CASE UNCHANGED dl
  BY <1>1 DEF PlaceInv, InPlace
<1>2. CASE dl' = Written(o, Block(i, o)) /\ o \in Cells
  <2>1. dl' = [c \in Cells |-> IF c = o THEN dl'[o] ELSE dl[c]]
    BY <1>2 DEF PlaceInv, Written
  <2>2. dl'[o] \in {Block(i, o), Garbage}
    BY <1>2 DEF PlaceInv, Written
  <2>3. Block(i, o)[2] = o
    BY DEF Block
  <2> QED BY <2>1, <2>2, <2>3, NotData, <1>2 DEF PlaceInv, InPlace
<1>3. \/ UNCHANGED dl
      \/ dl' = Written(o, Block(i, o)) /\ update_file_cur_size = o /\ o < Cap
  BY DEF wifi_ota_receive
<1> QED BY <1>1, <1>2, <1>3, OtaAssumption DEF Cells

(* Whatever is lost, repeated or abandoned, and whichever flash operations *)
(* fail, wifi_ota_receive stores a block nowhere but at its own place.     *)
THEOREM OtaInPlace == Spec => []InPlace
<1> DEFINE Inv == PlaceInv /\ update_file_cur_size \in Nat
<1>1. Init => Inv
  <2> SUFFICES ASSUME Init PROVE Inv
    OBVIOUS
  <2>1. dl = [c \in Cells |-> dl[c]] /\ \A c \in Cells : dl[c] = Garbage
    BY DEF Init
  <2> QED BY <2>1, NotData DEF Init, PlaceInv, InPlace, NoFrame
<1>2. Inv /\ [Next]_vars => Inv'
  <2> SUFFICES ASSUME Inv, [Next]_vars PROVE Inv'
    OBVIOUS
  <2>1. CASE UpdateStart
    <3>1. wifi_ota_begin(frame.len) /\ frame' = NoFrame
          /\ UNCHANGED update_file_cur_size
      BY <2>1 DEF UpdateStart
    <3> QED BY <3>1, BeginInPlace DEF PlaceInv, NoFrame
  <2>2. CASE UpdateTrans
    <3>1. wifi_ota_receive(frame.off, Block(frame.data[1], frame.off)) /\ frame' = NoFrame
      BY <2>2 DEF UpdateTrans, PlaceInv
    <3>2. update_file_cur_size' \in Nat
      BY <3>1 DEF wifi_ota_receive
    <3> QED BY <3>1, <3>2, ReceiveInPlace DEF PlaceInv, NoFrame
  <2>3. CASE SendFrame
    <3>1. UNCHANGED <<dl, update_file_cur_size>> /\ (frame' = Start \/ frame' = Trans)
      BY <2>3 DEF SendFrame, mcuVars
    <3>2. Start.cmd = "start" /\ Trans.cmd = "trans" /\ Trans.off = off
          /\ Trans.data \in {Block(img, off), NoData}
      BY DEF Start, Trans
    <3>3. Block(img, off) = Block(Block(img, off)[1], off)
      BY DEF Block
    <3> QED BY <3>1, <3>2, <3>3 DEF PlaceInv, InPlace
  <2>4. CASE UpdateEnd \/ UpdateIgnored \/ PowerLoss \/ Lose
    <3>1. UNCHANGED dl /\ frame' = NoFrame /\ update_file_cur_size' \in Nat
      BY <2>4 DEF UpdateEnd, UpdateIgnored, PowerLoss, Lose, mcuVars
    <3> QED BY <3>1 DEF PlaceInv, InPlace, NoFrame
  <2>5. CASE UNCHANGED vars \/ Done \/ TakeAnswer \/ GiveUp \/ \E i \in Images : Offer(i)
    <3>1. UNCHANGED <<dl, frame, update_file_cur_size>>
      BY <2>5 DEF vars, Done, TakeAnswer, GiveUp, Offer, mcuVars
    <3> QED BY <3>1 DEF PlaceInv, InPlace
  <2> QED BY <2>1, <2>2, <2>3, <2>4, <2>5 DEF Next, Gateway, Module
<1> QED BY <1>1, <1>2, PTL DEF Spec, PlaceInv

-----------------------------------------------------------------------------
(* What a completed transfer has stored.                                   *)

Stored(n) == \A k \in Cells : k < n => dl[k] = Block(img, k)
Clear(n)  == \A k \in Cells : n <= k /\ k < Blocks[img] => dl[k] = Erased

(* The serial line: only the frame that the module is at, or its answer.   *)
LineInv ==
  /\ frame = NoFrame \/ (mst = "start" /\ frame = Start) \/ (mst = "data" /\ frame = Trans)
  /\ frame # NoFrame => ~answer
  /\ ~firm_update_flag \/ mst = "idle" \/ rebooted => ~answer
  /\ mst = "idle" \/ rebooted => frame = NoFrame /\ ~firm_update_flag

(* The gateway is level with the module or one block ahead of it: it has   *)
(* written a block whose answer has not arrived.                           *)
LevelInv ==
  /\ ~firm_update_flag /\ ~rebooted => update_file_cur_size = 0
  /\ mst = "start" => update_file_cur_size = 0 /\ off = 0 /\ ~rebooted
  /\ mst = "start" /\ firm_update_flag => Clear(0) /\ Blocks[img] <= Cap
  /\ mst = "data" /\ firm_update_flag =>
       /\ update_file_cur_size = off \/ update_file_cur_size = off + 1
       /\ update_file_cur_size <= Blocks[img] /\ Blocks[img] <= Cap
       /\ Stored(update_file_cur_size) /\ Clear(update_file_cur_size)
       /\ answer => update_file_cur_size = off + 1
  /\ rebooted => Stored(Blocks[img]) /\ Blocks[img] <= Cap

LinkType ==
  /\ mst \in {"idle", "start", "data"} /\ img \in Images /\ off \in Nat
  /\ mst = "start" => off = 0
  /\ update_file_cur_size \in Nat
  /\ dl = [c \in Cells |-> dl[c]]
  /\ firm_update_flag \in BOOLEAN /\ rebooted \in BOOLEAN /\ answer \in BOOLEAN
  /\ fault \in BOOLEAN

LinkInv == LinkType /\ (~fault => LineInv /\ LevelInv)

(* The types hold by themselves, with faults and without.                  *)
LEMMA LinkTyped == LinkType /\ [Next]_vars => LinkType'
<1> SUFFICES ASSUME LinkType, [Next]_vars PROVE LinkType'
  OBVIOUS
<1> USE DEF LinkType
<1>1. CASE UpdateStart
  <2>1. /\ wifi_ota_begin(frame.len) /\ answer' = TRUE /\ firm_update_flag' = TRUE
        /\ UNCHANGED <<update_file_cur_size, rebooted, mst, img, off>>
    BY <1>1 DEF UpdateStart, moduleVars
  <2>2. dl' = [c \in Cells |-> dl'[c]] /\ fault' \in BOOLEAN
    BY <2>1 DEF wifi_ota_begin
  <2> QED BY <2>1, <2>2
<1>2. CASE UpdateTrans
  <2>1. /\ wifi_ota_receive(frame.off, frame.data) /\ answer' = TRUE
        /\ UNCHANGED <<firm_update_flag, rebooted, mst, img, off>>
    BY <1>2 DEF UpdateTrans, moduleVars
  <2>2. update_file_cur_size' \in Nat
    BY <2>1 DEF wifi_ota_receive
  <2>3. dl' = [c \in Cells |-> dl'[c]]
    BY <2>1 DEF wifi_ota_receive, Written
  <2>4. fault' = TRUE \/ fault' = fault
    BY <2>1 DEF wifi_ota_receive
  <2>5. fault' \in BOOLEAN
    BY <2>4, Zenon
  <2> QED BY <2>1, <2>2, <2>3, <2>5
<1>3. CASE UpdateEnd \/ UpdateIgnored \/ PowerLoss \/ Lose \/ SendFrame
  <2>1. UNCHANGED <<dl, mst, img, off>>
    BY <1>3 DEF UpdateEnd, UpdateIgnored, PowerLoss, Lose, SendFrame, moduleVars
  <2>2. update_file_cur_size' \in Nat
    BY <1>3 DEF UpdateEnd, UpdateIgnored, PowerLoss, Lose, SendFrame, mcuVars
  <2>3. /\ firm_update_flag' = FALSE \/ UNCHANGED firm_update_flag
        /\ rebooted' = TRUE \/ UNCHANGED rebooted
        /\ answer' = FALSE \/ UNCHANGED answer
        /\ fault' = FALSE \/ UNCHANGED fault
    BY <1>3 DEF UpdateEnd, UpdateIgnored, PowerLoss, Lose, SendFrame, mcuVars
  <2>4. firm_update_flag' \in BOOLEAN /\ rebooted' \in BOOLEAN /\ answer' \in BOOLEAN
        /\ fault' \in BOOLEAN
    BY <2>3, Zenon
  <2> QED BY <2>1, <2>2, <2>4
<1>4. CASE TakeAnswer
  <2>1. /\ answer' = FALSE
        /\ UNCHANGED <<mcuVars, dl, rebooted, img, fault>>
    BY <1>4 DEF TakeAnswer
  <2>2. /\ mst' \in {"idle", "start", "data"} /\ off' \in Nat
        /\ mst' = "start" => off' = 0
    BY <1>4 DEF TakeAnswer
  <2> QED BY <2>1, <2>2 DEF mcuVars
<1>5. CASE GiveUp
  <2>1. fault' \in BOOLEAN
    BY <1>5 DEF GiveUp
  <2> QED BY <1>5, <2>1 DEF GiveUp, mcuVars
<1>6. CASE \E i \in Images : Offer(i)
  BY <1>6 DEF Offer, mcuVars
<1>7. CASE UNCHANGED vars \/ Done
  BY <1>7 DEF Done, vars
<1> QED BY <1>1, <1>2, <1>3, <1>4, <1>5, <1>6, <1>7 DEF Next, Gateway, Module

(* Frames of different commands differ.                                    *)
LEMMA Frames ==
  /\ NoFrame.cmd = "none" /\ Start.cmd = "start" /\ Trans.cmd = "trans"
  /\ Start.len = Blocks[img] /\ Trans.off = off
  /\ Trans.data = IF off < Blocks[img] THEN Block(img, off) ELSE NoData
  /\ NoFrame # Start /\ NoFrame # Trans /\ Start # Trans
BY DEF NoFrame, Start, Trans

(* What UPDATE_START_CMD leaves when the image fits and is erased.         *)
LEMMA BeginClears ==
  ASSUME LinkInv, UpdateStart, ~fault'
  PROVE  LineInv' /\ LevelInv'
<1>0. ~fault
  BY DEF UpdateStart, wifi_ota_begin
<1>1. mst = "start" /\ frame = Start /\ frame.len = Blocks[img]
  BY <1>0, Frames DEF UpdateStart, LinkInv, LineInv
<1>2. /\ frame' = NoFrame /\ answer' = TRUE /\ firm_update_flag' = TRUE
      /\ UNCHANGED <<update_file_cur_size, rebooted, mst, img, off>>
      /\ wifi_ota_begin(frame.len)
  BY DEF UpdateStart, moduleVars
<1>3. Blocks[img] <= Cap
      /\ dl' = [c \in Cells |-> IF c < Blocks[img] THEN Erased ELSE dl[c]]
  BY <1>1, <1>2 DEF wifi_ota_begin
<1>4. ~rebooted
  BY <1>0, <1>1 DEF LinkInv, LevelInv
<1>5. LineInv'
  BY <1>1, <1>2, <1>4 DEF LineInv
<1>6. Clear(0)'
  BY <1>2, <1>3 DEF Clear
<1>7. LevelInv'
  BY <1>0, <1>1, <1>2, <1>3, <1>4, <1>6 DEF LinkInv, LevelInv
<1> QED BY <1>5, <1>7

(* UPDATE_TRANS_CMD writes the block unless it is there already.           *)
LEMMA TransStores ==
  ASSUME LinkInv, UpdateTrans, ~fault'
  PROVE  LineInv' /\ LevelInv'
<1> DEFINE cur == update_file_cur_size
<1>0. ~fault
  BY DEF UpdateTrans, wifi_ota_receive
<1>1. mst = "data" /\ frame = Trans /\ firm_update_flag /\ frame.off = off
  BY <1>0, Frames DEF UpdateTrans, LinkInv, LineInv
<1>2. off < Blocks[img] /\ frame.data = Block(img, off)
  BY <1>1, Frames DEF UpdateTrans
<1>3. /\ frame' = NoFrame /\ answer' = TRUE
      /\ UNCHANGED <<firm_update_flag, rebooted, mst, img, off>>
      /\ wifi_ota_receive(off, Block(img, off))
  BY <1>1, <1>2 DEF UpdateTrans, moduleVars
<1>4. Blocks[img] \in Nat /\ Cap \in Nat /\ off \in Nat /\ cur \in Nat
  BY OtaAssumption DEF LinkInv, LinkType
<1>5. /\ cur = off \/ cur = off + 1
      /\ cur <= Blocks[img] /\ Blocks[img] <= Cap /\ Stored(cur) /\ Clear(cur)
  BY <1>0, <1>1 DEF LinkInv, LevelInv
<1>6. ~rebooted
  BY <1>0, <1>1 DEF LinkInv, LineInv
<1>7. LineInv'
  BY <1>1, <1>3, <1>6 DEF LineInv
<1>8. CASE cur = off
  <2>1. dl' = Written(off, Block(img, off)) /\ cur' = off + 1
    BY <1>3, <1>4, <1>8 DEF wifi_ota_receive
  <2>2. off \in Cells /\ dl[off] = Erased
    BY <1>2, <1>4, <1>5, <1>8 DEF Cells, Clear
  <2>3. dl' = [c \in Cells |-> IF c = off THEN Block(img, off) ELSE dl[c]]
    BY <2>1, <2>2 DEF Written, LinkInv, LinkType
  <2>5. \A k \in Cells : k < off + 1 => k < off \/ k = off
    BY <1>4 DEF Cells
  <2>6. Stored(off + 1)'
    BY <2>3, <2>5, <1>3, <1>5, <1>8 DEF Stored, Block
  <2>7. \A k \in Cells : off + 1 <= k => off <= k /\ k # off
    BY <1>4 DEF Cells
  <2>8. Clear(off + 1)'
    BY <2>3, <2>7, <1>3, <1>5, <1>8 DEF Clear
  <2>9. off + 1 <= Blocks[img]
    BY <1>2, <1>4
  <2>10. LevelInv'
    BY <1>1, <1>3, <1>5, <1>6, <2>1, <2>6, <2>8, <2>9 DEF LevelInv
  <2> QED BY <1>7, <2>10
<1>9. CASE cur = off + 1
  <2>1. UNCHANGED <<dl, update_file_cur_size>>
    BY <1>3, <1>4, <1>9 DEF wifi_ota_receive
  <2>3. Stored(cur)' /\ Clear(cur)'
    BY <2>1, <1>3, <1>5 DEF Stored, Clear
  <2>4. LevelInv'
    BY <1>1, <1>3, <1>5, <1>6, <1>9, <2>1, <2>3 DEF LevelInv
  <2> QED BY <1>7, <2>4
<1> QED BY <1>5, <1>8, <1>9

(* The other steps of the gateway, of the module and of the line.  A power *)
(* loss makes up for whatever was wrong before.                            *)
LEMMA LinkOther ==
  ASSUME LinkInv, ~fault',
         \/ UpdateEnd \/ UpdateIgnored \/ PowerLoss \/ Lose \/ Done
         \/ SendFrame \/ TakeAnswer \/ GiveUp \/ UNCHANGED vars
         \/ \E i \in Images : Offer(i)
  PROVE  LineInv' /\ LevelInv'
<1>0. Blocks[img] \in Nat /\ off \in Nat /\ update_file_cur_size \in Nat
  BY OtaAssumption DEF LinkInv, LinkType
<1>1. CASE UpdateEnd
  <2>0. ~fault
    BY <1>1 DEF UpdateEnd
  <2>1. /\ mst = "data" /\ frame = Trans /\ firm_update_flag /\ ~(off < Blocks[img])
    BY <1>1, <2>0, Frames DEF UpdateEnd, LinkInv, LineInv, Block, NoData
  <2>2. /\ update_file_cur_size = Blocks[img] /\ Stored(update_file_cur_size)
        /\ Blocks[img] <= Cap
    BY <2>0, <2>1, <1>0 DEF LinkInv, LevelInv
  <2>3. ~answer
    BY <2>0, <2>1, Frames DEF LinkInv, LineInv
  <2>4. /\ rebooted' = TRUE /\ firm_update_flag' = FALSE /\ frame' = NoFrame
        /\ UNCHANGED <<update_file_cur_size, dl, answer, mst, img, off>>
    BY <1>1 DEF UpdateEnd, moduleVars
  <2>5. Stored(Blocks[img])'
    BY <2>2, <2>4 DEF Stored
  <2> QED BY <2>1, <2>2, <2>3, <2>4, <2>5 DEF LineInv, LevelInv
<1>2. CASE UpdateIgnored \/ Lose
  <2>0. ~fault
    BY <1>2 DEF UpdateIgnored, Lose
  <2>1. /\ frame' = NoFrame /\ (answer' = answer \/ answer' = FALSE)
        /\ UNCHANGED <<mcuVars, rebooted, dl, mst, img, off>>
    BY <1>2 DEF UpdateIgnored, Lose, moduleVars
  <2>2. answer' => answer
    BY <2>1
  <2>3. LineInv'
    BY <2>0, <2>1, <2>2 DEF LinkInv, LineInv, mcuVars
  <2>4. LevelInv'
    BY <2>0, <2>1, <2>2 DEF LinkInv, LevelInv, mcuVars, Stored, Clear
  <2> QED BY <2>3, <2>4
<1>3. CASE PowerLoss
  <2>1. /\ ~rebooted /\ firm_update_flag' = FALSE /\ update_file_cur_size' = 0
        /\ frame' = NoFrame /\ answer' = FALSE
        /\ UNCHANGED <<rebooted, dl, mst, img, off>>
    BY <1>3 DEF PowerLoss, moduleVars
  <2>2. mst = "start" => off = 0
    BY DEF LinkInv, LinkType
  <2> QED BY <2>1, <2>2 DEF LineInv, LevelInv
<1>4. CASE SendFrame
  <2>0. ~fault
    BY <1>4 DEF SendFrame
  <2>1. /\ mst # "idle" /\ ~answer /\ ~rebooted
        /\ frame' = IF mst = "start" THEN Start ELSE Trans
        /\ UNCHANGED <<mcuVars, rebooted, dl, answer, mst, img, off>>
    BY <1>4 DEF SendFrame, Idle, moduleVars
  <2>2. Start' = Start /\ Trans' = Trans
    BY <2>1 DEF Start, Trans
  <2>3. LineInv'
    BY <2>0, <2>1, <2>2, Frames DEF LinkInv, LinkType, LineInv, mcuVars
  <2> QED BY <2>0, <2>1, <2>3 DEF LinkInv, LevelInv, mcuVars, Stored, Clear
<1>5. CASE TakeAnswer
  <2>0. ~fault
    BY <1>5 DEF TakeAnswer
  <2>1. /\ answer /\ answer' = FALSE
        /\ UNCHANGED <<mcuVars, rebooted, dl, frame, img>>
    BY <1>5 DEF TakeAnswer
  <2>2. frame = NoFrame /\ firm_update_flag /\ ~rebooted
    BY <2>0, <2>1 DEF LinkInv, LineInv
  <2>3. CASE mst = "start" /\ mst' = "data" /\ UNCHANGED off
    <3>1. update_file_cur_size = 0 /\ off = 0 /\ Clear(0) /\ Blocks[img] <= Cap
      BY <2>0, <2>2, <2>3 DEF LinkInv, LevelInv
    <3>2. Stored(0)
      BY OtaAssumption DEF Stored, Cells
    <3>3. LineInv'
      BY <2>0, <2>1, <2>2, <2>3 DEF LinkInv, LineInv, mcuVars
    <3>4. Stored(0)' /\ Clear(0)'
      BY <2>1, <3>1, <3>2 DEF Stored, Clear
    <3>5. update_file_cur_size' = 0 /\ off' = 0 /\ ~rebooted' /\ 0 <= Blocks[img]'
          /\ Blocks[img]' <= Cap
      BY <1>0, <2>1, <2>2, <2>3, <3>1 DEF mcuVars
    <3>6. LevelInv'
      BY <2>1, <2>2, <2>3, <3>4, <3>5 DEF LevelInv, mcuVars
    <3> QED BY <3>3, <3>6
  <2>4. CASE mst = "data" /\ off' = off + 1 /\ UNCHANGED mst
    BY <1>0, <2>0, <2>1, <2>2, <2>4
    DEF LinkInv, LineInv, LevelInv, mcuVars, Stored, Clear
  <2> QED BY <1>5, <2>3, <2>4 DEF TakeAnswer
<1>6. CASE GiveUp
  <2>1. /\ GatewayLost /\ ~fault
        /\ frame = NoFrame /\ ~answer /\ ~rebooted
        /\ mst' = "idle" /\ UNCHANGED <<mcuVars, rebooted, dl, frame, answer, img, off>>
    BY <1>6 DEF GiveUp, Idle
  <2>2. ~firm_update_flag
    BY <2>1 DEF GatewayLost
  <2> QED BY <2>1, <2>2 DEF LinkInv, LineInv, LevelInv, mcuVars
<1>7. CASE \E i \in Images : Offer(i)
  <2>1. PICK i \in Images : Offer(i)
    BY <1>7
  <2>2. /\ mst = "idle" /\ frame = NoFrame /\ ~answer /\ ~rebooted /\ ~fault
        /\ mst' = "start" /\ img' = i /\ off' = 0
        /\ UNCHANGED <<mcuVars, rebooted, dl, frame, answer>>
    BY <2>1 DEF Offer, Idle
  <2> QED BY <2>2 DEF LinkInv, LineInv, LevelInv, mcuVars
<1>8. CASE UNCHANGED vars \/ Done
  <2>1. UNCHANGED vars /\ ~fault
    BY <1>8 DEF Done, vars
  <2> QED BY <2>1
      DEF vars, LinkInv, LineInv, LevelInv, Stored, Clear, Start, Trans
<1> QED BY <1>1, <1>2, <1>3, <1>4, <1>5, <1>6, <1>7, <1>8

(* The invariant holds throughout, with faults and power failures anywhere.*)
LEMMA LinkHolds == Spec => []LinkInv
<1>1. Init => LinkInv
  <2> SUFFICES ASSUME Init PROVE LinkInv
    OBVIOUS
  <2>1. dl = [c \in Cells |-> dl[c]]
    BY DEF Init
  <2>2. /\ ~firm_update_flag /\ ~rebooted /\ ~answer /\ firm_update_flag \in BOOLEAN
        /\ rebooted \in BOOLEAN /\ answer \in BOOLEAN /\ fault \in BOOLEAN
    BY DEF Init
  <2>3. /\ update_file_cur_size = 0 /\ frame = NoFrame /\ mst = "idle"
        /\ img \in Images /\ off = 0
    BY DEF Init
  <2> QED BY <2>1, <2>2, <2>3 DEF LinkInv, LinkType, LineInv, LevelInv
<1>2. LinkInv /\ [Next]_vars => LinkInv'
  <2> SUFFICES ASSUME LinkInv, [Next]_vars PROVE LinkInv'
    OBVIOUS
  <2>1. LinkType'
    BY LinkTyped DEF LinkInv
  <2>2. ~fault' => LineInv' /\ LevelInv'
    BY BeginClears, TransStores, LinkOther DEF Next, Gateway, Module
  <2> QED BY <2>1, <2>2 DEF LinkInv
<1> QED BY <1>1, <1>2, PTL DEF Spec

(* wifi_ota_end restarts the gateway only with the whole image in the      *)
(* partition, for any number of losses, repetitions and power failures,    *)
(* unless since power last came on the module has abandoned a transfer, or *)
(* the image or a block could not be stored.                               *)
THEOREM OtaComplete == Spec => []RebootComplete
<1>1. LinkInv => RebootComplete
  <2> SUFFICES ASSUME LinkInv, rebooted, ~fault PROVE RebootComplete
    BY DEF RebootComplete
  <2>1. Blocks[img] \in Nat /\ Cap \in Nat
    BY OtaAssumption DEF LinkInv, LinkType
  <2> QED BY <2>1 DEF LinkInv, LevelInv, Stored, Cells, RebootComplete
<1> QED BY <1>1, LinkHolds, PTL

(* Under the same condition the module is never told that a block has been *)
(* taken that is not in the partition.                                     *)
THEOREM OtaNeverAhead == Spec => []NeverAhead
<1>1. LinkInv => NeverAhead
  <2> SUFFICES ASSUME LinkInv, ~fault PROVE AnsweredIsWritten
    BY DEF NeverAhead
  <2>1. Blocks[img] \in Nat /\ Cap \in Nat /\ off \in Nat /\ update_file_cur_size \in Nat
    BY OtaAssumption DEF LinkInv, LinkType
  <2> QED BY <2>1 DEF LinkInv, LevelInv, Stored, Cells, AnsweredIsWritten
<1> QED BY <1>1, LinkHolds, PTL

-----------------------------------------------------------------------------
(* Types, with faults and without.                                         *)

(* Bounded sets of numbers have a largest element, and so there is a       *)
(* longest image.                                                          *)
LEMMA LastOf ==
  ASSUME NEW n \in Nat, NEW K \in SUBSET (0 .. n), 0 \in K
  PROVE  \E m \in K : m + 1 \notin K
<1> DEFINE T == {n - k : k \in K}
<1>0. \A k \in K : k \in Nat /\ k <= n
  OBVIOUS
<1>1. T \subseteq Nat /\ n - 0 \in T
  BY <1>0
<1>2. PICK x \in T : \A y \in T : ~ (<<y, x>> \in OpToRel(<, Nat))
  BY <1>1, WFMin, NatLessThanWellFounded, Zenon
<1>3. \A y \in T : ~ (y < x)
  BY <1>1, <1>2 DEF OpToRel
<1>4. PICK m \in K : x = n - m
  OBVIOUS
<1>5. m + 1 \notin K
  <2> SUFFICES ASSUME m + 1 \in K PROVE FALSE
    OBVIOUS
  <2>1. n - (m + 1) \in T
    OBVIOUS
  <2> QED BY <1>0, <1>3, <1>4, <2>1
<1> QED BY <1>5

LEMMA LongestType ==
  ASSUME Images # {}
  PROVE  Longest \in Nat /\ Longest >= 1 /\ \A i \in Images : Blocks[i] \in 1 .. Longest
<1>0. \A i \in Images : Blocks[i] \in Nat /\ Blocks[i] >= 1
  BY OtaAssumption
<1>1. \E m \in Images : \A i \in Images : Blocks[i] <= Blocks[m]
  <2>1. PICK n \in Nat : ExistsBijection(1 .. n, Images)
    BY OtaAssumption, FS_NatBijection
  <2>2. PICK f \in [1 .. n -> Images] : \A i \in Images : \E j \in 1 .. n : f[j] = i
    BY <2>1 DEF ExistsBijection, Bijection, Surjection
  <2> DEFINE K == {k \in 0 .. n : \E m \in Images : \A j \in 1 .. k : Blocks[f[j]] <= Blocks[m]}
  <2>3. 0 \in K /\ K \in SUBSET (0 .. n)
    OBVIOUS
  <2>4. PICK k \in K : k + 1 \notin K
    BY <2>3, LastOf
  <2>5. PICK m \in Images : \A j \in 1 .. k : Blocks[f[j]] <= Blocks[m]
    OBVIOUS
  <2>6. k = n
    <3> SUFFICES ASSUME k < n PROVE FALSE
      OBVIOUS
    <3>0. k \in Nat /\ k + 1 \in 1 .. n /\ f[k + 1] \in Images
      OBVIOUS
    <3>1. CASE Blocks[f[k + 1]] <= Blocks[m]
      <4>1. \A j \in 1 .. k + 1 : Blocks[f[j]] <= Blocks[m]
        BY <2>5, <3>0, <3>1
      <4> QED BY <2>4, <3>0, <4>1
    <3>2. CASE ~(Blocks[f[k + 1]] <= Blocks[m])
      <4>1. \A j \in 1 .. k : f[j] \in Images /\ Blocks[f[j]] <= Blocks[m]
        BY <2>5, <3>0
      <4>2. \A j \in 1 .. k + 1 : Blocks[f[j]] <= Blocks[f[k + 1]]
        BY <1>0, <3>0, <3>2, <4>1
      <4> QED BY <2>4, <3>0, <4>2
    <3> QED BY <3>1, <3>2
  <2> QED BY <2>2, <2>5, <2>6
<1>2. PICK m \in Images : \A i \in Images : Blocks[i] <= Blocks[m]
  BY <1>1
<1>3. /\ Longest \in {Blocks[i] : i \in Images}
      /\ \A i \in Images : Blocks[i] <= Longest
  BY <1>2 DEF Longest
<1>4. PICK l \in Images : Longest = Blocks[l]
  BY <1>3
<1> QED BY <1>0, <1>3, <1>4

(* The module is never past the end of its image: the frame that ends the  *)
(* transfer is not answered, and no answer outlives its transfer.          *)
FlowInv ==
  /\ mst = "start" => off = 0
  /\ off <= Blocks[img]
  /\ frame = NoFrame \/ (mst = "start" /\ frame = Start) \/ (mst = "data" /\ frame = Trans)
  /\ frame # NoFrame => ~answer
  /\ answer => mst \in {"start", "data"} /\ (mst = "data" => off < Blocks[img])

LEMMA FlowTyped ==
  ASSUME TypeOK, FlowInv
  PROVE  /\ Longest \in Nat /\ Longest >= 1
         /\ Blocks[img] \in 1 .. Longest /\ off \in Nat /\ update_file_cur_size \in Nat
         /\ Cap \in Nat /\ Cap >= 1 /\ MaxAttempts \in Nat /\ MaxResets \in Nat
BY LongestType, OtaAssumption DEF TypeOK

LEMMA FrameSet ==
  ASSUME TypeOK, FlowInv
  PROVE  /\ Start \in [cmd : {"start"}, len : 1 .. Longest]
         /\ Trans \in [cmd : {"trans"}, off : 0 .. Longest, data : Data \cup {NoData}]
<1>1. Longest \in Nat /\ Blocks[img] \in 1 .. Longest /\ off \in Nat /\ img \in Images
  BY FlowTyped DEF TypeOK
<1>2. Start \in [cmd : {"start"}, len : 1 .. Longest]
  BY <1>1 DEF Start
<1>3. off \in 0 .. Longest
  BY DEF TypeOK
<1>4. off < Blocks[img] => Block(img, off) \in Data
  <2>1. off < Blocks[img] => off \in 0 .. Longest - 1
    BY <1>1
  <2> QED BY <1>1, <2>1 DEF Data
<1>5. Trans \in [cmd : {"trans"}, off : 0 .. Longest, data : Data \cup {NoData}]
  BY <1>3, <1>4 DEF Trans
<1> QED BY <1>2, <1>5

(* What a frame is.                                                        *)
LEMMA FrameIs ==
  ASSUME TypeOK, FlowInv
  PROVE  /\ frame.cmd = "start" => mst = "start" /\ frame = Start /\ frame.len = Blocks[img]
         /\ frame.cmd = "trans" =>
              /\ mst = "data" /\ frame = Trans /\ frame.off = off
              /\ frame.data # NoData => off < Blocks[img] /\ frame.data \in Data
<1>1. Trans.data # NoData => off < Blocks[img]
  BY DEF Trans
<1>2. Trans.data \in Data \cup {NoData}
  BY FrameSet
<1> QED BY <1>1, <1>2, Frames DEF FlowInv

LEMMA OtaTyped ==
  ASSUME TypeOK, FlowInv, [Next]_vars
  PROVE  TypeOK' /\ FlowInv'
<1> USE DEF mcuVars, moduleVars
<1>0. dl \in [Cells -> Content] /\ Erased \in Content /\ Garbage \in Content
  BY DEF TypeOK, Content
<1>1. CASE UpdateStart
  <2>1. mst = "start" /\ frame.len \in 1 .. Longest /\ ~answer
    BY <1>1, FrameIs, FlowTyped, Frames DEF UpdateStart, FlowInv
  <2>2. dl' \in [Cells -> Content] /\ (fault' = fault \/ fault' = TRUE)
    BY <1>0, <1>1 DEF UpdateStart, wifi_ota_begin
  <2>3. firm_length' \in 0 .. Longest
    BY <1>1, <2>1, FlowTyped DEF UpdateStart
  <2>4. TypeOK'
    <3>1. UNCHANGED <<update_file_cur_size, rebooted, mst, img, off, attempts, resets>>
      BY <1>1 DEF UpdateStart
    <3>2. answer' \in BOOLEAN /\ firm_update_flag' \in BOOLEAN /\ frame' = NoFrame
      BY <1>1 DEF UpdateStart
    <3>3. fault' \in BOOLEAN
      BY <2>2, Zenon DEF TypeOK
    <3> QED BY <2>2, <2>3, <3>1, <3>2, <3>3 DEF TypeOK
  <2>5. FlowInv'
    BY <1>1, <2>1 DEF UpdateStart, FlowInv
  <2> QED BY <2>4, <2>5
<1>2. CASE UpdateTrans
  <2>1. mst = "data" /\ frame.off = off /\ off < Blocks[img] /\ frame.data \in Data
    BY <1>2, FrameIs DEF UpdateTrans
  <2>2. wifi_ota_receive(off, frame.data)
    BY <1>2, <2>1 DEF UpdateTrans
  <2>3. /\ dl' = dl \/ (off < Cap /\ dl' = Written(off, frame.data))
        /\ fault' = fault \/ fault' = TRUE
        /\ update_file_cur_size' = update_file_cur_size
           \/ (off < Cap /\ update_file_cur_size' = off + 1)
    BY <2>2 DEF wifi_ota_receive
  <2>4. dl' \in [Cells -> Content]
    BY <1>0, <2>1, <2>3 DEF Written, Content
  <2>5. update_file_cur_size' \in 0 .. Cap
    BY <2>3, FlowTyped DEF TypeOK
  <2>6. TypeOK'
    <3>1. UNCHANGED <<firm_update_flag, firm_length, rebooted, mst, img, off, attempts, resets>>
      BY <1>2 DEF UpdateTrans
    <3>2. answer' \in BOOLEAN /\ frame' = NoFrame
      BY <1>2 DEF UpdateTrans
    <3>3. fault' \in BOOLEAN
      BY <2>3, Zenon DEF TypeOK
    <3> QED BY <2>4, <2>5, <3>1, <3>2, <3>3 DEF TypeOK
  <2>7. FlowInv'
    BY <1>2, <2>1 DEF UpdateTrans, FlowInv
  <2> QED BY <2>6, <2>7
<1>3. CASE UpdateEnd \/ UpdateIgnored \/ Lose
  <2>1. /\ UNCHANGED <<firm_length, update_file_cur_size, dl, mst, img, off, fault, attempts, resets>>
        /\ frame' = NoFrame
    BY <1>3 DEF UpdateEnd, UpdateIgnored, Lose
  <2>2. /\ answer' = answer \/ answer' = FALSE
        /\ firm_update_flag' = firm_update_flag \/ firm_update_flag' = FALSE
        /\ rebooted' = rebooted \/ rebooted' = TRUE
    BY <1>3 DEF UpdateEnd, UpdateIgnored, Lose
  <2>3. answer' \in BOOLEAN /\ firm_update_flag' \in BOOLEAN /\ rebooted' \in BOOLEAN
    BY <2>2, Zenon DEF TypeOK
  <2>4. TypeOK'
    BY <2>1, <2>3 DEF TypeOK
  <2>5. answer' => answer
    BY <2>2
  <2>6. FlowInv'
    BY <2>1, <2>5 DEF FlowInv
  <2> QED BY <2>4, <2>6
<1>4. CASE PowerLoss
  <2>1. /\ UNCHANGED <<dl, rebooted, mst, img, off, attempts>> /\ frame' = NoFrame
        /\ firm_length' = 0 /\ update_file_cur_size' = 0
        /\ firm_update_flag' = FALSE /\ answer' = FALSE /\ fault' = FALSE
    BY <1>4 DEF PowerLoss
  <2>2. resets' \in 0 .. MaxResets /\ 0 \in 0 .. Longest /\ 0 \in 0 .. Cap
    BY <1>4, FlowTyped DEF PowerLoss, TypeOK
  <2>3. TypeOK'
    BY <2>1, <2>2 DEF TypeOK
  <2>4. FlowInv'
    BY <2>1 DEF FlowInv
  <2> QED BY <2>3, <2>4
<1>5. CASE SendFrame
  <2>1. UNCHANGED <<mcuVars, dl, rebooted, answer, moduleVars, fault, attempts, resets>> /\ ~answer
    BY <1>5 DEF SendFrame, Idle
  <2>2. (mst = "start" /\ frame' = Start) \/ (mst = "data" /\ frame' = Trans)
    BY <1>5 DEF SendFrame, TypeOK
  <2>3. frame' \in [cmd : {"start"}, len : 1 .. Longest]
                   \cup [cmd : {"trans"}, off : 0 .. Longest, data : Data \cup {NoData}]
    BY <2>2, FrameSet
  <2>4. TypeOK'
    BY <2>1, <2>3 DEF TypeOK
  <2>5. Start' = Start /\ Trans' = Trans
    BY <2>1 DEF Start, Trans
  <2>6. FlowInv'
    BY <2>1, <2>2, <2>5 DEF FlowInv
  <2> QED BY <2>4, <2>6
<1>6. CASE TakeAnswer
  <2>1. /\ UNCHANGED <<firm_update_flag, firm_length, update_file_cur_size, dl, rebooted, frame, img,
                       fault, attempts, resets>>
        /\ answer /\ answer' = FALSE
    BY <1>6 DEF TakeAnswer
  <2>2. frame = NoFrame
    BY <2>1 DEF FlowInv
  <2>3. \/ mst = "start" /\ mst' = "data" /\ off' = 0 /\ off = 0
        \/ mst = "data" /\ mst' = "data" /\ off' = off + 1 /\ off < Blocks[img]
    BY <1>6, <2>1 DEF TakeAnswer, FlowInv
  <2>4. mst' = "data" /\ off' <= Blocks[img] /\ off' \in 0 .. Longest
    BY <2>3, FlowTyped
  <2>5. TypeOK'
    BY <2>1, <2>4 DEF TypeOK
  <2>6. FlowInv'
    BY <2>1, <2>2, <2>4 DEF FlowInv
  <2> QED BY <2>5, <2>6
<1>7. CASE GiveUp
  <2>1. /\ UNCHANGED <<firm_update_flag, firm_length, update_file_cur_size, dl, rebooted, frame,
                       answer, img, off, attempts, resets>>
        /\ frame = NoFrame /\ ~answer /\ mst' = "idle"
    BY <1>7 DEF GiveUp, Idle
  <2>2. fault' \in BOOLEAN
    BY <1>7 DEF GiveUp
  <2> QED BY <2>1, <2>2 DEF TypeOK, FlowInv
<1>8. ASSUME NEW i \in Images, Offer(i) PROVE TypeOK' /\ FlowInv'
  <2>1. /\ UNCHANGED <<firm_update_flag, firm_length, update_file_cur_size, dl, rebooted, frame,
                       answer, fault, resets>>
        /\ frame = NoFrame /\ ~answer /\ mst' = "start" /\ img' = i /\ off' = 0
    BY <1>8 DEF Offer, Idle
  <2>2. attempts' \in 0 .. MaxAttempts
    BY <1>8, FlowTyped DEF Offer, TypeOK
  <2>3. off' <= Blocks[img'] /\ off' \in 0 .. Longest
    BY <2>1, OtaAssumption, FlowTyped
  <2>4. TypeOK'
    BY <2>1, <2>2, <2>3 DEF TypeOK
  <2>5. FlowInv'
    BY <2>1, <2>3 DEF FlowInv
  <2> QED BY <2>4, <2>5
<1>9. CASE Done \/ UNCHANGED vars
  BY <1>9 DEF Done, vars, TypeOK, FlowInv, Start, Trans
<1> QED BY <1>1, <1>2, <1>3, <1>4, <1>5, <1>6, <1>7, <1>8, <1>9 DEF Next, Gateway, Module

(* The types and what the serial line carries, at every step.              *)
LEMMA FlowHolds == Spec => [](TypeOK /\ FlowInv)
<1>1. Init => TypeOK /\ FlowInv
  <2> SUFFICES ASSUME Init PROVE TypeOK /\ FlowInv
    OBVIOUS
  <2>1. img \in Images /\ off = 0 /\ Blocks[img] \in 1 .. Longest /\ Longest \in Nat
    BY LongestType DEF Init
  <2>2. /\ 0 \in 0 .. Longest /\ 0 \in 0 .. Cap /\ 0 \in 0 .. MaxAttempts /\ 0 \in 0 .. MaxResets
        /\ 0 <= Blocks[img]
    BY <2>1, OtaAssumption
  <2>3. dl \in [Cells -> Content]
    BY DEF Init, Content
  <2>4. TypeOK
    BY <2>1, <2>2, <2>3 DEF Init, TypeOK
  <2>5. FlowInv
    BY <2>1, <2>2 DEF Init, FlowInv
  <2> QED BY <2>4, <2>5
<1>2. TypeOK /\ FlowInv /\ [Next]_vars => TypeOK' /\ FlowInv'
  BY OtaTyped
<1> QED BY <1>1, <1>2, PTL DEF Spec

(* Every counter of the transfer stays within the image and the partition: *)
(* update_file_cur_size is not counted past the partition's end, and the   *)
(* module not past the image's, with any faults.                           *)
THEOREM OtaTypeCorrect == Spec => []TypeOK
BY FlowHolds, PTL

-----------------------------------------------------------------------------
(* What a transfer still needs.                                            *)

(* The answers that the module still waits for before the transfer is over *)
(* (the end of it is not answered: the gateway restarts).                  *)
AnswersLeft ==
  CASE mst = "idle"  -> 0
    [] mst = "start" -> Blocks[img] + 2
    [] mst = "data"  -> Blocks[img] - off + 1

(* A transfer that goes on never falls back, whatever is lost, repeated or *)
(* fails and however often the power does; an answer that arrives brings   *)
(* it nearer to its end.                                                   *)
TransferAdvances ==
  /\ attempts' = attempts => AnswersLeft' <= AnswersLeft
  /\ TakeAnswer => AnswersLeft' < AnswersLeft

(* Only a transfer that is under way waits, and never for a block behind   *)
(* the end of its image.                                                   *)
AnswersBounded ==
  /\ AnswersLeft \in 0 .. Longest + 2
  /\ mst # "idle" => AnswersLeft > 0

LEMMA AnswersIn == TypeOK /\ FlowInv => AnswersBounded
<1> SUFFICES ASSUME TypeOK, FlowInv PROVE AnswersBounded
  OBVIOUS
<1>1. /\ Longest \in Nat /\ Blocks[img] \in Nat /\ Blocks[img] <= Longest /\ Blocks[img] >= 1
      /\ off \in Nat /\ off <= Blocks[img]
  BY FlowTyped DEF FlowInv
<1>2. CASE mst = "idle"
  BY <1>1, <1>2 DEF AnswersBounded, AnswersLeft
<1>3. CASE mst = "start"
  BY <1>1, <1>3 DEF AnswersBounded, AnswersLeft
<1>4. CASE mst = "data"
  BY <1>1, <1>4 DEF AnswersBounded, AnswersLeft
<1> QED BY <1>2, <1>3, <1>4 DEF TypeOK

(* What holds of a transfer without fairness: the module, which repeats    *)
(* its frames and counts the gateway's answers, needs at most two answers  *)
(* more than its image has blocks, and no step makes it need more.         *)
THEOREM OtaAdvances == Spec => []AnswersBounded /\ [][TransferAdvances]_vars
<1>1. TypeOK /\ FlowInv /\ [Next]_vars => [TransferAdvances]_vars
  <2> SUFFICES ASSUME TypeOK, FlowInv, Next PROVE TransferAdvances
    BY DEF vars
  <2>0. /\ Blocks[img] \in Nat /\ Blocks[img] >= 1 /\ off \in Nat /\ off <= Blocks[img]
        /\ attempts \in Nat /\ mst \in {"idle", "start", "data"}
    BY FlowTyped DEF FlowInv, TypeOK
  <2>1. CASE TakeAnswer
    <3>1. img' = img /\ answer
      BY <2>1 DEF TakeAnswer
    <3>2. \/ mst = "start" /\ mst' = "data" /\ off' = off
          \/ mst = "data" /\ mst' = "data" /\ off' = off + 1 /\ off < Blocks[img]
      BY <2>1, <3>1 DEF TakeAnswer, FlowInv
    <3>3. AnswersLeft \in Int /\ AnswersLeft' \in Int /\ AnswersLeft' < AnswersLeft
      BY <2>0, <3>1, <3>2 DEF AnswersLeft
    <3> QED BY <3>3 DEF TransferAdvances
  <2>2. ASSUME NEW i \in Images, Offer(i) PROVE TransferAdvances
    <3>1. attempts' # attempts /\ ~TakeAnswer
      BY <2>0, <2>2 DEF Offer, Idle, TakeAnswer
    <3> QED BY <3>1 DEF TransferAdvances
  <2>3. CASE GiveUp
    <3>1. AnswersLeft' = 0 /\ ~TakeAnswer
      BY <2>3 DEF GiveUp, AnswersLeft, Idle, TakeAnswer
    <3>2. AnswersLeft \in Nat
      BY AnswersIn, FlowTyped DEF AnswersBounded
    <3> QED BY <3>1, <3>2 DEF TransferAdvances
  <2>4. CASE ~TakeAnswer /\ (Gateway \/ SendFrame \/ Lose \/ PowerLoss \/ Done)
    <3>1. UNCHANGED <<mst, img, off>>
      BY <2>4 DEF Gateway, UpdateStart, UpdateTrans, UpdateEnd, UpdateIgnored, SendFrame, Lose,
                  PowerLoss, Done, vars, moduleVars
    <3>2. AnswersLeft' = AnswersLeft
      BY <3>1 DEF AnswersLeft
    <3>3. AnswersLeft \in Nat
      BY AnswersIn, FlowTyped DEF AnswersBounded
    <3> QED BY <2>4, <3>2, <3>3 DEF TransferAdvances
  <2> QED BY <2>1, <2>2, <2>3, <2>4 DEF Next, Module
<1> QED BY <1>1, AnswersIn, FlowHolds, PTL DEF Spec
=============================================================================
