-------------------------------- MODULE Sync --------------------------------
(***************************************************************************)
(* The synchronisation with all controllers (wifi/wifi-api.c).  When the   *)
(* cloud has sent its list of devices, Sync_Request starts a walk through  *)
(* the slots of the registry from the highest one down: the thread Sync_t  *)
(* asks the controller at Sync_Counter for its terminals and waits; each   *)
(* message it sends (Sync_Refresh) starts the timer Sync_Timeout_t anew,   *)
(* and when that expires the walk goes on to the next controller.  A       *)
(* silent controller is asked Retries times.  The baton between thread,    *)
(* timer and requests is Sync_Once_Sem.                                    *)
(*                                                                         *)
(* Time passes in Tick; what is due happens before time goes on.  The      *)
(* steps between two sleeps of Sync_t are atomic up to the flash writes of *)
(* Device_Add2Flash_Wifi (DeviceRegistry!SyncDevice), which yield.         *)
(***************************************************************************)
EXTENDS CloudList, FiniteSets

CONSTANTS
  Retries,      \* how often a silent controller is asked (3)
  Pause,        \* each of the two sleeps of Sync_t (10 s)
  Timeout,      \* period of Sync_Timeout_t (5 s)
  MaxTalk,      \* bound: messages with which a controller answers
  MaxRequests,  \* bound: connections to the cloud
  MaxDisturb    \* bound: events outside the protocol, see Disturb

ASSUME SyncAssumption ==
  /\ {Num, Retries, Pause, Timeout} \subseteq Nat \ {0}
  /\ {MaxTalk, MaxRequests, MaxDisturb} \subseteq Nat

Off   == -1             \* of the timer; 0: it is due

VARIABLES
  dev,                    \* what Global_Device holds in a slot
  Sync_Counter, Sync_Start, Sync_Recv, SyncRetry,
  sem, timer,             \* Sync_Once_Sem, Sync_Timeout_t
  pc, left,               \* where Sync_t is, what is left of its sleep
  target, talk,           \* the slot asked last, what its owner will still say
  asks, heard,            \* of this synchronisation: who was asked how often (at
                          \* most Retries + 1 are counted), who has answered
  requests, disturb

walkVars  == <<Sync_Counter, Sync_Start, Sync_Recv, SyncRetry>>
ghostVars == <<target, talk, asks, heard>>
vars == <<dev, walkVars, sem, timer, pc, left, ghostVars, requests, disturb, listVars>>

TypeOK ==
  /\ dev \in [Slots -> {"none", "main", "terminal"}] /\ dev[0] = "none"
  /\ Sync_Counter \in Slots
  /\ Sync_Start \in BOOLEAN /\ Sync_Recv \in BOOLEAN
  /\ SyncRetry \in [Slots -> 0 .. Retries + disturb]
  /\ sem \in 0 .. 1 + 2 * disturb
  /\ timer \in Off .. Timeout
  /\ pc \in {"take", "settle", "ask", "wait"} /\ left \in 0 .. Pause
  /\ target \in Slots /\ talk \in 0 .. MaxTalk
  /\ asks \in [Slots -> 0 .. Retries + 1] /\ heard \subseteq Slots
  /\ requests \in 0 .. MaxRequests /\ disturb \in 0 .. MaxDisturb
  /\ ListTypeOK(1 + disturb)

Mains == {s \in Slots : dev[s] = "main"}     \* Get_Main_Valid

Quiet == pc = "take" /\ sem = 0 /\ timer = Off

-----------------------------------------------------------------------------
Below(n) == {s \in Mains : s < n}

(* The next controller below slot n.                                       *)
Get_Next_Main(n) == CHOOSE s \in Below(n) : \A t \in Below(n) : t <= s

(* The counter goes on from n; it stays there when no controller is left.  *)
GoOn(n) == IF Below(n) = {} THEN n ELSE Get_Next_Main(n)

Undisturbed(calm) ==
  \/ calm /\ UNCHANGED disturb
  \/ ~calm /\ disturb < MaxDisturb /\ disturb' = disturb + 1

Sync_Request ==
  /\ Undisturbed(Quiet)
  /\ timer' = Off
  /\ Sync_Counter' = GoOn(Num)
  /\ sem' = sem + 1
  /\ asks' = [s \in Slots |-> 0] /\ heard' = {}
  /\ UNCHANGED <<Sync_Start, Sync_Recv, SyncRetry, pc, left, target, talk>>

(* local_subdev_list: the last package starts a synchronisation, and so    *)
(* does any for which there is no memory.                                  *)
local_subdev_list ==
  /\ \E memory \in BOOLEAN :
       /\ TakePackage(memory)
       /\ \/ (~Head(due).more \/ ~memory) /\ Sync_Request
          \/ Head(due).more /\ memory
             /\ UNCHANGED <<walkVars, sem, timer, pc, left, ghostVars, disturb>>
  /\ UNCHANGED <<dev, requests>>

(* A new connection disturbs when the list of the last one is on its way.  *)
wifi_status_change ==
  /\ \/ /\ Connected /\ Undisturbed(due = <<>>)
        /\ requests < MaxRequests /\ requests' = requests + 1
     \/ Disconnected /\ requests < MaxRequests /\ UNCHANGED <<requests, disturb>>
  /\ UNCHANGED <<dev, walkVars, sem, timer, pc, left, ghostVars>>

-----------------------------------------------------------------------------
(* Sync_t_Callback.                                                        *)

Take ==
  /\ pc = "take" /\ sem > 0 /\ sem' = sem - 1
  /\ Sync_Start' = TRUE
  /\ pc' = "settle" /\ left' = Pause
  /\ UNCHANGED <<dev, Sync_Counter, Sync_Recv, SyncRetry, timer, ghostVars,
                 requests, disturb, listVars>>

Settled ==
  /\ pc = "settle" /\ left = 0
  /\ pc' = IF dev[Sync_Counter] = "none" THEN "take" ELSE "ask"
  /\ IF dev[Sync_Counter] = "main" THEN ReportNew(Sync_Counter) ELSE UNCHANGED listVars
  /\ UNCHANGED <<dev, walkVars, sem, timer, left, ghostVars, requests, disturb>>

(* A controller may answer with any number of messages, or not at all.     *)
Ask ==
  /\ pc = "ask" /\ SyncRetry[Sync_Counter] < Retries
  /\ Sync_Recv' = FALSE
  /\ target' = Sync_Counter
  /\ \/ talk' = 0
     \/ dev[Sync_Counter] = "main" /\ talk' \in 1 .. MaxTalk
  /\ asks' = [asks EXCEPT ![Sync_Counter] = IF @ > Retries THEN @ ELSE @ + 1]
  /\ pc' = "wait" /\ left' = Pause
  /\ UNCHANGED <<dev, Sync_Counter, Sync_Start, SyncRetry, sem, timer, heard,
                 requests, disturb, listVars>>

(* Variation of Exhausted: the walk ends at a controller that is silent.   *)
Exhausted_Stop ==
  /\ pc = "ask" /\ SyncRetry[Sync_Counter] >= Retries
  /\ timer' = Off
  /\ SyncRetry' = [SyncRetry EXCEPT ![Sync_Counter] = 0]
  /\ pc' = "take"
  /\ UNCHANGED <<dev, Sync_Counter, Sync_Start, Sync_Recv, sem, left, ghostVars,
                 requests, disturb, listVars>>

(* Go on to the next controller; the last one may be asked again.          *)
Exhausted ==
  /\ pc = "ask" /\ SyncRetry[Sync_Counter] >= Retries
  /\ timer' = Off
  /\ \/ /\ Below(Sync_Counter) # {}
        /\ Sync_Counter' = Get_Next_Main(Sync_Counter)
        /\ sem' = sem + 1
        /\ UNCHANGED SyncRetry
     \/ /\ Below(Sync_Counter) = {}
        /\ SyncRetry' = [SyncRetry EXCEPT ![Sync_Counter] = 0]
        /\ UNCHANGED <<Sync_Counter, sem>>
  /\ pc' = "take"
  /\ UNCHANGED <<dev, Sync_Start, Sync_Recv, left, ghostVars, requests, disturb, listVars>>

(* Variation of Waited: a missing answer is not counted.                   *)
Waited_Uncounted ==
  /\ pc = "wait" /\ left = 0
  /\ pc' = "take"
  /\ sem' = IF Sync_Recv THEN sem ELSE sem + 1
  /\ UNCHANGED <<dev, walkVars, timer, left, ghostVars, requests, disturb, listVars>>

Waited ==
  /\ pc = "wait" /\ left = 0
  /\ pc' = "take"
  /\ \/ Sync_Recv /\ UNCHANGED <<SyncRetry, sem>>
     \/ /\ ~Sync_Recv
        /\ SyncRetry' = [SyncRetry EXCEPT ![Sync_Counter] = @ + 1]
        /\ sem' = sem + 1
  /\ UNCHANGED <<dev, Sync_Counter, Sync_Start, Sync_Recv, timer, left, ghostVars,
                 requests, disturb, listVars>>

Sync_t == Take \/ Settled \/ Ask \/ Exhausted \/ Waited

-----------------------------------------------------------------------------
Sync_Timeout_Callback ==
  /\ timer = 0 /\ timer' = Off
  /\ \/ /\ Below(Sync_Counter) # {}
        /\ Sync_Counter' = Get_Next_Main(Sync_Counter)
        /\ sem' = sem + 1
        /\ UNCHANGED Sync_Start
     \/ /\ Below(Sync_Counter) = {}
        /\ Sync_Start' = FALSE
        /\ UNCHANGED <<Sync_Counter, sem>>
  /\ UNCHANGED <<dev, Sync_Recv, SyncRetry, pc, left, ghostVars, requests, disturb, listVars>>

(* Variation of Sync_Refresh: Sync_Recv is not set.                        *)
Sync_Refresh_NotRecv ==
  \/ /\ Sync_Start
     /\ SyncRetry' = [SyncRetry EXCEPT ![Sync_Counter] = 0]
     /\ timer' = Timeout
     /\ UNCHANGED Sync_Recv
  \/ ~Sync_Start /\ UNCHANGED <<Sync_Recv, SyncRetry, timer>>

Sync_Refresh ==
  \/ /\ Sync_Start
     /\ Sync_Recv' = TRUE
     /\ SyncRetry' = [SyncRetry EXCEPT ![Sync_Counter] = 0]
     /\ timer' = Timeout
  \/ ~Sync_Start /\ UNCHANGED <<Sync_Recv, SyncRetry, timer>>

(* The controller that was asked reports a terminal, or its valve, before  *)
(* the wait is over or within Timeout of its last message.                 *)
Answer ==
  /\ talk > 0 /\ talk' = talk - 1
  /\ Sync_Counter = target /\ (pc = "wait" \/ timer # Off)
  /\ Sync_Refresh
  /\ heard' = heard \cup {target}
  /\ UNCHANGED <<dev, Sync_Counter, Sync_Start, sem, pc, left, target, asks,
                 requests, disturb, listVars>>

(* A message at another time or of another controller, or a change of the  *)
(* registry.                                                               *)
Disturb ==
  /\ disturb < MaxDisturb /\ disturb' = disturb + 1
  /\ \/ Sync_Refresh /\ UNCHANGED <<dev, listVars>>
     \/ /\ \E s \in Slots \ {0} :
             \/ dev[s] # "none" /\ dev' = [dev EXCEPT ![s] = "none"] /\ Forget(s)
             \/ dev[s] = "none" /\ dev' = [dev EXCEPT ![s] = "main"] /\ ReportNew(s)
        /\ UNCHANGED <<Sync_Recv, SyncRetry, timer>>
  /\ UNCHANGED <<Sync_Counter, Sync_Start, sem, pc, left, ghostVars, requests>>

Sleeping == pc \in {"settle", "wait"}

Tick ==
  /\ timer # 0 /\ pc # "ask" /\ (pc = "take" => sem = 0) /\ (Sleeping => left > 0)
  /\ Sleeping \/ timer # Off
  /\ left' = IF Sleeping THEN left - 1 ELSE left
  /\ timer' = IF timer = Off THEN Off ELSE timer - 1
  /\ UNCHANGED <<dev, walkVars, sem, pc, ghostVars, requests, disturb, listVars>>

-----------------------------------------------------------------------------
Init ==
  /\ dev \in [Slots -> {"none", "main", "terminal"}] /\ dev[0] = "none"
  /\ Sync_Counter = 1 /\ Sync_Start = FALSE /\ Sync_Recv = FALSE
  /\ SyncRetry = [s \in Slots |-> 0]
  /\ sem = 0 /\ timer = Off /\ pc = "take" /\ left = 0
  /\ target = 0 /\ talk = 0
  /\ asks = [s \in Slots |-> 0] /\ heard = {}
  /\ requests = 0 /\ disturb = 0
  /\ \E known \in SUBSET Mains : ListInit(known)

Next ==
  wifi_status_change \/ local_subdev_list \/ Sync_t \/ Sync_Timeout_Callback \/ Answer \/ Disturb \/ Tick

(* Time passes, the timer fires and the thread runs; controllers and the   *)
(* cloud owe nothing.                                                      *)
Spec ==
  /\ Init /\ [][Next]_vars
  /\ WF_vars(Tick) /\ WF_vars(Sync_t) /\ WF_vars(Sync_Timeout_Callback)

-----------------------------------------------------------------------------
(* Properties.                                                             *)

(* A missing answer is charged to the controller that was asked, although  *)
(* the timer may have moved Sync_Counter while Sync_t slept; and nobody    *)
(* who has answered is asked a second time.                                *)
ChargesAsked ==
  [][disturb' = 0 =>
       \A s \in Slots : /\ SyncRetry'[s] > SyncRetry[s] => s = target
                        /\ asks'[s] > asks[s] => s \notin heard]_vars

(* When a synchronisation is over, the cloud knows every controller, the   *)
(* ones that were missing on its list too, and each has answered or has    *)
(* been asked Retries times, in this one or before; so also when the list  *)
(* came in packages, some of which found no memory.  The exception is what *)
(* the code does to a controller in the highest slot: Sync_Request starts  *)
(* there and looks for the next one below.                                 *)
AllAsked ==
  Quiet /\ requests > 0 /\ due = <<>> /\ disturb = 0 =>
    \A s \in Mains :
      \/ /\ s \in cloud
         /\ s \in heard \/ asks[s] = Retries \/ (asks[s] = 0 /\ SyncRetry[s] = Retries)
      \/ s = Num /\ Below(Num) # {}

(* A synchronisation comes to an end, also when controllers are silent,    *)
(* answer late, are deleted or learned, or a second list arrives in the    *)
(* middle.                                                                 *)
SyncEnds == <>[]Quiet
=============================================================================
