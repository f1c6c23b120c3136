------------------------------ MODULE CloudList ------------------------------
(***************************************************************************)
(* What the gateway believes the cloud knows: Remote_Device (wifi-api.c),  *)
(* filled from the list of devices that the WiFi module sends in packages  *)
(* after each new connection (wifi-uart.c, protocol.c).  A controller that *)
(* has an entry is not reported to the cloud as new.  Controllers stand    *)
(* for their slots; the array keeps the entries in the order of arrival,   *)
(* which nothing depends on.                                               *)
(***************************************************************************)
EXTENDS Integers, Sequences

CONSTANTS Num           \* highest slot of the registry in use

Slots == 0 .. Num       \* slot 0 is never filled

VARIABLES
  wifi_connected,
  Remote_Device,    \* how many entries name the controller of the slot
  cloud,            \* controllers that the cloud knows
  due               \* packages of lists on their way, each with the
                    \* controllers it names and whether more follow

listVars == <<wifi_connected, Remote_Device, cloud, due>>

ListTypeOK(times) ==
  /\ wifi_connected \in BOOLEAN
  /\ Remote_Device \in [Slots -> 0 .. times]
  /\ cloud \subseteq Slots
  /\ \A i \in 1 .. Len(due) : due[i] \in [named : SUBSET Slots, more : BOOLEAN]

ListInit(known) ==
  /\ wifi_connected = FALSE /\ due = <<>>
  /\ Remote_Device = [s \in Slots |-> 0]
  /\ cloud = known

-----------------------------------------------------------------------------
(* The module's answer to qur_subdev_list, in one package or two           *)
(* (external).                                                             *)
Package(named, more) == [named |-> named, more |-> more]
Before(t) == {s \in cloud : s < t}

Lists ==
  {<<Package(cloud, FALSE)>>} \cup
  {<<Package(Before(t), TRUE), Package(cloud \ Before(t), FALSE)>> :
     t \in {u \in cloud : Before(u) # {}}}

(* Variation of Connected: the old list is kept.                           *)
Connected_ListKept ==
  /\ ~wifi_connected /\ wifi_connected' = TRUE
  /\ \E answer \in Lists : due' = due \o answer
  /\ UNCHANGED <<Remote_Device, cloud>>

(* wifi_status_change, to 4: Remote_Device_Clear and qur_subdev_list.      *)
Connected ==
  /\ ~wifi_connected /\ wifi_connected' = TRUE
  /\ Remote_Device' = [s \in Slots |-> 0]
  /\ \E answer \in Lists : due' = due \o answer
  /\ UNCHANGED cloud

(* wifi_status_change, to 1 or 2.                                          *)
Disconnected ==
  /\ wifi_connected /\ wifi_connected' = FALSE
  /\ UNCHANGED <<Remote_Device, cloud, due>>

(* local_subdev_list: the entries are appended.  Without memory they are   *)
(* not.                                                                    *)
TakePackage(memory) ==
  /\ due # <<>> /\ due' = Tail(due)
  /\ Remote_Device' = IF memory
                      THEN [s \in Slots |-> IF s \in Head(due).named
                                            THEN Remote_Device[s] + 1 ELSE Remote_Device[s]]
                      ELSE Remote_Device
  /\ UNCHANGED <<wifi_connected, cloud>>

(* Device_Add2Flash_Wifi for a controller that is in the registry.         *)
ReportNew(s) ==
  /\ cloud' = IF Remote_Device[s] = 0 THEN cloud \cup {s} ELSE cloud
  /\ UNCHANGED <<wifi_connected, Remote_Device, due>>

(* Remote_Device_Delete, when the cloud or the controller deletes it: one  *)
(* entry is removed.                                                       *)
Forget(s) ==
  /\ cloud' = cloud \ {s}
  /\ Remote_Device' = [Remote_Device EXCEPT ![s] = IF @ > 0 THEN @ - 1 ELSE 0]
  /\ UNCHANGED <<wifi_connected, due>>
=============================================================================
