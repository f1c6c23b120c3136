----------------------------- MODULE SyncProofs -----------------------------
(***************************************************************************)
(* Proofs about the synchronisation of controllers, for any number of      *)
(* slots, of retries and of disturbances, and any lengths of the sleeps    *)
(* and the timer.                                                          *)
(***************************************************************************)
EXTENDS Sync, FiniteSetTheorems, WellFoundedInduction, TLAPS

(* The baton of a synchronisation: a unit of Sync_Once_Sem; Sync_t between *)
(* taking it and passing it on; the timer; and an answer that will start   *)
(* the timer once more when the walk, set back by another request, comes   *)
(* down to who was asked.  A disturbance adds two at most.                 *)
AtWork == pc \in {"settle", "ask"} \/ (pc = "wait" /\ ~Sync_Recv)
Owed   ==
  /\ pc = "wait" /\ Sync_Recv /\ Sync_Start /\ talk > 0
  /\ target < Sync_Counter \/ (target = Sync_Counter /\ timer = Off)
Work   == IF AtWork THEN 1 ELSE 0
Arming == IF timer # Off THEN 1 ELSE 0
Owing  == IF Owed THEN 1 ELSE 0
Tokens == sem + Work + Arming + Owing

TokenInv == Tokens <= 1 + 2 * disturb

(* Where there is one baton, the walk charges whom it has asked.  Elsewhere *)
(* it charges a controller that it has not come to since the last          *)
(* disturbance.                                                            *)
Waiting == pc = "wait" /\ ~Sync_Recv
Clean   == Tokens <= 1 /\ (Waiting => Sync_Counter = target)
Spared(s) == SyncRetry[s] <= Retries + disturb - 1

Behind ==
  /\ \A s \in Slots : s < Sync_Counter => Spared(s)
  /\ Waiting /\ Sync_Counter # target => Spared(Sync_Counter)

RetryInv ==
  /\ \A s \in Slots : SyncRetry[s] <= Retries + disturb
  /\ Waiting => SyncRetry[target] < Retries
  /\ Clean \/ Behind

(* Entries for a controller, those on their way included.                  *)
Places(s)   == {i \in 1 .. Len(due) : s \in due[i].named}
Mentions(s) == Cardinality(Places(s))

EntryInv == \A s \in Slots : Remote_Device[s] + Mentions(s) <= 1 + disturb

PackageSet == [named : SUBSET Slots, more : BOOLEAN]

-----------------------------------------------------------------------------
(* A synchronisation that nothing disturbs.                                *)

Active     == sem > 0 \/ AtWork \/ timer # Off
Excused(s) == s = Num /\ Below(Num) # {}
Done(s)    ==
  /\ s \in cloud
  /\ s \in heard \/ asks[s] = Retries \/ (asks[s] = 0 /\ SyncRetry[s] = Retries)

(* Where thread and timer are.                                             *)
PlaceInv ==
  /\ pc = "wait" => Sync_Counter <= target
  /\ pc = "wait" /\ sem > 0 => Sync_Counter < target
  /\ pc = "wait" /\ Sync_Recv /\ Sync_Start /\ Sync_Counter = target => timer # Off
  /\ Waiting => Sync_Counter = target
  /\ AtWork \/ timer # Off => Sync_Start
  /\ pc = "ask" => dev[Sync_Counter] # "none"
  /\ timer # Off => Sync_Counter = target /\ Sync_Counter \in Mains
  /\ talk > 0 => target \in Mains
  /\ Active => Sync_Counter \in Mains \/ (Sync_Counter = Num /\ Below(Num) = {})

(* Who has answered.                                                       *)
HeardInv ==
  /\ \A s \in heard : s >= Sync_Counter
  /\ sem > 0 \/ AtWork => Sync_Counter \notin heard
  /\ timer # Off => Sync_Counter \in heard

(* How SyncRetry and the questions of this synchronisation go together.    *)
(* Only the controller in the lowest slot may be asked in vain again.      *)
Kept(s) == SyncRetry[s] = 0 \/ (SyncRetry[s] = Retries /\ Below(s) # {})

ChargeInv ==
  /\ \A s \in Slots : s < Sync_Counter \/ dev[s] = "none" => asks[s] = 0
  /\ \A s \in Slots : s # Sync_Counter \/ ~Active => Kept(s)
  /\ timer # Off => SyncRetry[Sync_Counter] = 0
  /\ sem > 0 \/ AtWork =>
       \/ asks[Sync_Counter] = 0 /\ Kept(Sync_Counter) /\ ~Waiting
       \/ asks[Sync_Counter] = SyncRetry[Sync_Counter] + (IF Waiting THEN 1 ELSE 0)

(* What the cloud knows.                                                   *)
CloudInv ==
  /\ \A s \in Slots : Remote_Device[s] > 0 => s \in cloud
  /\ \A i \in 1 .. Len(due) : due[i].named \subseteq cloud
  /\ due # <<>> => ~due[Len(due)].more
  /\ pc = "ask" \/ Waiting \/ timer # Off =>
       (Sync_Counter \in Mains => Sync_Counter \in cloud)

(* What the walk has behind it.                                            *)
WalkInv ==
  /\ Active => \A s \in Mains : s > Sync_Counter => Done(s) \/ Excused(s)
  /\ ~Active /\ requests > 0 /\ due = <<>> => \A s \in Mains : Done(s) \/ Excused(s)

Calm    == PlaceInv /\ HeardInv /\ ChargeInv /\ CloudInv /\ WalkInv
CalmInv == disturb = 0 => Calm

-----------------------------------------------------------------------------
(* Types, without the bounds that need an argument.                        *)

WalkShape ==
  /\ dev \in [Slots -> {"none", "main", "terminal"}] /\ dev[0] = "none"
  /\ Sync_Counter \in Slots
  /\ Sync_Start \in BOOLEAN /\ Sync_Recv \in BOOLEAN
  /\ SyncRetry \in [Slots -> Nat] /\ sem \in Nat
  /\ timer \in Off .. Timeout
  /\ pc \in {"take", "settle", "ask", "wait"} /\ left \in 0 .. Pause
  /\ target \in Slots /\ talk \in 0 .. MaxTalk
  /\ asks \in [Slots -> 0 .. Retries + 1] /\ heard \subseteq Slots
  /\ requests \in 0 .. MaxRequests /\ disturb \in 0 .. MaxDisturb

ListShape ==
  /\ wifi_connected \in BOOLEAN /\ Remote_Device \in [Slots -> Nat]
  /\ cloud \subseteq Slots /\ due \in Seq(PackageSet)

Shape == WalkShape /\ ListShape

LEMMA Numbers ==
  /\ Num \in Nat \ {0} /\ Retries \in Nat \ {0} /\ Pause \in Nat \ {0} /\ Timeout \in Nat \ {0}
  /\ MaxTalk \in Nat /\ MaxRequests \in Nat /\ MaxDisturb \in Nat
  /\ Num \in Slots /\ 0 \in Slots /\ 1 \in Slots
  /\ \A s \in Slots : s \in Nat /\ s <= Num
BY SyncAssumption DEF Slots

(* Bounded sets of numbers have a largest element.                         *)
LEMMA Largest ==
  ASSUME NEW n \in Nat, NEW S \in SUBSET (0 .. n), S # {}
  PROVE  \E m \in S : \A y \in S : y <= m
<1> DEFINE T == {n - x : x \in S}
<1>0. \A x \in S : x \in Nat /\ x <= n
  OBVIOUS
<1>1. T \subseteq Nat /\ T # {}
  <2>1. T \subseteq Nat
    BY <1>0
  <2>2. PICK s \in S : TRUE
    OBVIOUS
  <2>3. n - s \in T
    OBVIOUS
  <2> QED BY <2>1, <2>3, Zenon
<1>2. PICK x \in T : \A y \in T : ~ (<<y, x>> \in OpToRel(<, Nat))
  BY <1>1, WFMin, NatLessThanWellFounded, Zenon
<1>3. \A y \in T : ~ (y < x)
  BY <1>1, <1>2 DEF OpToRel
<1>4. PICK m \in S : x = n - m
  OBVIOUS
<1>5. \A y \in S : y <= m
  <2> TAKE y \in S
  <2>1. n - y \in T
    OBVIOUS
  <2> QED BY <1>0, <1>3, <1>4, <2>1
<1> QED BY <1>5

(* The walk goes down, and passes over no controller.                      *)
LEMMA NextMain ==
  ASSUME NEW n \in Slots, Below(n) # {}
  PROVE  /\ Get_Next_Main(n) \in Mains /\ Get_Next_Main(n) \in Slots
         /\ Get_Next_Main(n) < n
         /\ \A s \in Mains : s > Get_Next_Main(n) => s >= n
<1>1. Below(n) \in SUBSET (0 .. Num) /\ Num \in Nat
  BY Numbers DEF Below, Mains, Slots
<1>2. \E m \in Below(n) : \A t \in Below(n) : t <= m
  BY <1>1, Largest
<1>3. /\ Get_Next_Main(n) \in Below(n)
      /\ \A t \in Below(n) : t <= Get_Next_Main(n)
  BY <1>2 DEF Get_Next_Main
<1>4. Get_Next_Main(n) \in Slots /\ n \in Nat /\ Get_Next_Main(n) \in Nat
  BY <1>3, Numbers DEF Below, Mains
<1>5. \A s \in Mains : s \in Nat /\ (s < n => s \in Below(n))
  BY Numbers DEF Below, Mains
<1> QED BY <1>3, <1>4, <1>5 DEF Below

LEMMA GoOnType ==
  ASSUME NEW n \in Slots
  PROVE  GoOn(n) \in Slots
BY NextMain DEF GoOn

LEMMA Tuples ==
  ASSUME NEW S, NEW a \in S, NEW b \in S
  PROVE  <<a>> \in Seq(S) /\ <<a, b>> \in Seq(S)
OBVIOUS

(* The number of disturbances only grows, up to its bound.                 *)
LEMMA Disturbed ==
  ASSUME disturb \in 0 .. MaxDisturb, NEW calm \in BOOLEAN, Undisturbed(calm)
  PROVE  /\ disturb' \in 0 .. MaxDisturb
         /\ (calm /\ disturb' = disturb) \/ (~calm /\ disturb' = disturb + 1)
<1>1. MaxDisturb \in Nat
  BY Numbers
<1>2. CASE calm
  BY <1>2 DEF Undisturbed
<1>3. CASE ~calm
  BY <1>1, <1>3 DEF Undisturbed
<1> QED BY <1>2, <1>3

-----------------------------------------------------------------------------
LEMMA PackageTyped ==
  ASSUME Shape, NEW memory \in BOOLEAN, TakePackage(memory)
  PROVE  /\ Head(due) \in PackageSet /\ due' \in Seq(PackageSet)
         /\ Remote_Device' \in [Slots -> Nat] /\ UNCHANGED <<wifi_connected, cloud>>
<1>1. due \in Seq(PackageSet) /\ due # <<>> /\ due' = Tail(due)
  BY DEF Shape, WalkShape, ListShape, TakePackage
<1>2. Head(due) \in PackageSet /\ due' \in Seq(PackageSet)
  BY <1>1
<1>3. Remote_Device' \in [Slots -> Nat]
  <2>1. Remote_Device \in [Slots -> Nat]
    BY DEF Shape, WalkShape, ListShape
  <2>2. CASE memory
    BY <2>1, <2>2 DEF TakePackage
  <2>3. CASE ~memory
    BY <2>1, <2>3 DEF TakePackage
  <2> QED BY <2>2, <2>3
<1> QED BY <1>2, <1>3 DEF TakePackage

LEMMA RequestTyped ==
  ASSUME Shape, Sync_Request
  PROVE  /\ timer' = Off /\ Sync_Counter' \in Slots /\ sem' = sem + 1
         /\ asks' \in [Slots -> 0 .. Retries + 1] /\ heard' = {}
         /\ disturb' \in 0 .. MaxDisturb
         /\ UNCHANGED <<Sync_Start, Sync_Recv, SyncRetry, pc, left, target, talk>>
<1>1. Sync_Counter' \in Slots
  BY GoOnType, Numbers DEF Sync_Request
<1>2. disturb' \in 0 .. MaxDisturb
  <2>1. Undisturbed(Quiet) /\ disturb \in 0 .. MaxDisturb /\ Quiet \in BOOLEAN
    BY DEF Sync_Request, Quiet, Shape, WalkShape
  <2> QED BY <2>1, Disturbed
<1>3. asks' \in [Slots -> 0 .. Retries + 1]
  BY Numbers DEF Sync_Request
<1> QED BY <1>1, <1>2, <1>3 DEF Sync_Request

LEMMA ListTyped ==
  ASSUME Shape, local_subdev_list
  PROVE  Shape'
<1>1. PICK memory \in BOOLEAN :
        /\ TakePackage(memory)
        /\ \/ Sync_Request
           \/ UNCHANGED <<walkVars, sem, timer, pc, left, ghostVars, disturb>>
  BY DEF local_subdev_list
<1>2. UNCHANGED <<dev, requests>>
  BY DEF local_subdev_list
<1>3. Off \in Off .. Timeout
  BY Numbers DEF Off
<1>4. CASE Sync_Request
  <2>1. UNCHANGED <<Sync_Start, Sync_Recv, SyncRetry, pc, left, target, talk>>
    BY <1>4 DEF Sync_Request
  <2>2. sem' \in Nat
    BY <1>4 DEF Shape, WalkShape, ListShape, Sync_Request
  <2> QED BY <1>1, <1>2, <1>3, <1>4, <2>1, <2>2, PackageTyped, RequestTyped DEF Shape,
       WalkShape, ListShape
<1>5. CASE UNCHANGED <<walkVars, sem, timer, pc, left, ghostVars, disturb>>
  BY <1>1, <1>2, <1>5, PackageTyped DEF Shape, WalkShape, ListShape, walkVars, ghostVars
<1> QED BY <1>1, <1>4, <1>5

LEMMA ConnectTyped ==
  ASSUME Shape, wifi_status_change
  PROVE  Shape'
<1>1. UNCHANGED <<dev, walkVars, sem, timer, pc, left, ghostVars>>
  BY DEF wifi_status_change
<1>2. CASE Connected /\ Undisturbed(due = <<>>) /\ requests < MaxRequests /\ requests' = requests + 1
  <2>1. PICK answer \in Lists : due' = due \o answer
    BY <1>2 DEF Connected
  <2>2. answer \in Seq(PackageSet)
    <3>1. cloud \in SUBSET Slots /\ \A t : Before(t) \in SUBSET Slots
      BY DEF Shape, WalkShape, ListShape, Before
    <3>2. \A n \in SUBSET Slots : \A m \in BOOLEAN : Package(n, m) \in PackageSet
      BY DEF Package, PackageSet
    <3>3. CASE answer = <<Package(cloud, FALSE)>>
      <4>1. Package(cloud, FALSE) \in PackageSet
        BY <3>1, <3>2
      <4> QED BY <3>3, <4>1, Tuples
    <3>4. ASSUME NEW t, answer = <<Package(Before(t), TRUE), Package(cloud \ Before(t), FALSE)>>
          PROVE  answer \in Seq(PackageSet)
      <4>1. Package(Before(t), TRUE) \in PackageSet /\ Package(cloud \ Before(t), FALSE) \in PackageSet
        BY <3>1, <3>2
      <4> QED BY <3>4, <4>1, Tuples
    <3> QED BY <2>1, <3>3, <3>4 DEF Lists
  <2>3. due' \in Seq(PackageSet)
    BY <2>1, <2>2 DEF Shape, WalkShape, ListShape
  <2>4. requests' \in 0 .. MaxRequests /\ disturb' \in 0 .. MaxDisturb
    <3>1. requests' \in 0 .. MaxRequests
      BY <1>2, Numbers DEF Shape, WalkShape, ListShape
    <3>2. disturb' \in 0 .. MaxDisturb
      BY <1>2, Disturbed DEF Shape, WalkShape
    <3> QED BY <3>1, <3>2
  <2> QED BY <1>1, <1>2, <2>3, <2>4 DEF Shape, WalkShape, ListShape, Connected, walkVars,
       ghostVars
<1>3. CASE Disconnected /\ UNCHANGED <<requests, disturb>>
  BY <1>1, <1>3 DEF Shape, WalkShape, ListShape, Disconnected, walkVars, ghostVars
<1> QED BY <1>2, <1>3 DEF wifi_status_change

LEMMA ThreadTyped ==
  ASSUME Shape, Sync_t
  PROVE  Shape'
<1> USE Numbers DEF Shape, WalkShape, listVars, walkVars, ghostVars
<1>1. CASE Take
  <2>1. WalkShape'
    BY <1>1 DEF Take
  <2>2. ListShape'
    BY <1>1 DEF Take, ListShape
  <2> QED BY <2>1, <2>2
<1>2. CASE Settled
  <2>1. WalkShape'
    BY <1>2 DEF Settled
  <2>2. ReportNew(Sync_Counter) \/ UNCHANGED listVars
    BY <1>2 DEF Settled
  <2>3. ListShape'
    BY <2>2 DEF ListShape, ReportNew
  <2> QED BY <2>1, <2>3
<1>3. CASE Ask
  <2>1. PICK n : asks' = [asks EXCEPT ![Sync_Counter] = n] /\ n \in 0 .. Retries + 1
    <3>1. asks[Sync_Counter] \in 0 .. Retries + 1
      OBVIOUS
    <3>2. (IF asks[Sync_Counter] > Retries THEN asks[Sync_Counter] ELSE asks[Sync_Counter] + 1)
            \in 0 .. Retries + 1
      BY <3>1
    <3> QED BY <1>3, <3>2 DEF Ask
  <2>2. asks' \in [Slots -> 0 .. Retries + 1]
    BY <2>1
  <2>3. talk' \in 0 .. MaxTalk /\ left' \in 0 .. Pause
    BY <1>3 DEF Ask
  <2> QED BY <1>3, <2>2, <2>3 DEF Ask, ListShape
<1>4. CASE Exhausted
  <2>1. timer' = Off /\ Off \in Off .. Timeout
    BY <1>4 DEF Exhausted, Off
  <2>2. Sync_Counter' \in Slots /\ sem' \in Nat /\ SyncRetry' \in [Slots -> Nat]
    <3>1. Below(Sync_Counter) # {} => Get_Next_Main(Sync_Counter) \in Slots
      BY NextMain
    <3>2. sem + 1 \in Nat /\ [SyncRetry EXCEPT ![Sync_Counter] = 0] \in [Slots -> Nat]
      OBVIOUS
    <3> QED BY <1>4, <3>1, <3>2 DEF Exhausted
  <2> QED BY <1>4, <2>1, <2>2 DEF Exhausted, ListShape
<1>5. CASE Waited
  <2>1. sem' \in Nat /\ SyncRetry' \in [Slots -> Nat]
    <3>1. sem + 1 \in Nat
      OBVIOUS
    <3>2. SyncRetry[Sync_Counter] + 1 \in Nat
      OBVIOUS
    <3>3. [SyncRetry EXCEPT ![Sync_Counter] = SyncRetry[Sync_Counter] + 1] \in [Slots -> Nat]
      BY <3>2
    <3> QED BY <1>5, <3>1, <3>3 DEF Waited
  <2> QED BY <1>5, <2>1 DEF Waited, ListShape
<1> QED BY <1>1, <1>2, <1>3, <1>4, <1>5 DEF Sync_t

LEMMA RefreshTyped ==
  ASSUME Shape, Sync_Refresh
  PROVE  Sync_Recv' \in BOOLEAN /\ SyncRetry' \in [Slots -> Nat] /\ timer' \in Off .. Timeout
<1>1. Sync_Recv \in BOOLEAN /\ SyncRetry \in [Slots -> Nat] /\ timer \in Off .. Timeout
  BY DEF Shape, WalkShape, ListShape
<1>2. Timeout \in Off .. Timeout
  BY Numbers DEF Off
<1>3. [SyncRetry EXCEPT ![Sync_Counter] = 0] \in [Slots -> Nat]
  BY <1>1
<1> QED BY <1>1, <1>2, <1>3 DEF Sync_Refresh

LEMMA OtherTyped ==
  ASSUME Shape, Sync_Timeout_Callback \/ Answer \/ Disturb \/ Tick
  PROVE  Shape'
<1> USE Numbers DEF Shape, WalkShape, listVars, walkVars, ghostVars
<1>1. CASE Sync_Timeout_Callback
  <2>1. timer' = Off /\ Off \in Off .. Timeout
    BY <1>1 DEF Sync_Timeout_Callback, Off
  <2>2. Sync_Counter' \in Slots /\ sem' \in Nat /\ Sync_Start' \in BOOLEAN
    <3>1. Below(Sync_Counter) # {} => Get_Next_Main(Sync_Counter) \in Slots
      BY NextMain
    <3>2. sem + 1 \in Nat
      OBVIOUS
    <3> QED BY <1>1, <3>1, <3>2 DEF Sync_Timeout_Callback
  <2> QED BY <1>1, <2>1, <2>2 DEF Sync_Timeout_Callback, ListShape
<1>2. CASE Answer
  <2>1. talk' \in 0 .. MaxTalk
    BY <1>2 DEF Answer
  <2>2. Sync_Recv' \in BOOLEAN /\ SyncRetry' \in [Slots -> Nat] /\ timer' \in Off .. Timeout
    BY <1>2, RefreshTyped DEF Answer
  <2> QED BY <1>2, <2>1, <2>2 DEF Answer, ListShape
<1>3. CASE Disturb
  <2>1. disturb' \in 0 .. MaxDisturb
    BY <1>3 DEF Disturb
  <2>2. UNCHANGED <<Sync_Counter, Sync_Start, sem, pc, left, ghostVars, requests>>
    BY <1>3 DEF Disturb
  <2>3. CASE Sync_Refresh /\ UNCHANGED <<dev, listVars>>
    BY <2>1, <2>2, <2>3, RefreshTyped DEF ListShape
  <2>4. ASSUME NEW s \in Slots \ {0}, dev' = [dev EXCEPT ![s] = "none"], Forget(s),
               UNCHANGED <<Sync_Recv, SyncRetry, timer>>
        PROVE  Shape'
    <3>1. Remote_Device' \in [Slots -> Nat]
      <4>1. PICK n : Remote_Device' = [Remote_Device EXCEPT ![s] = n] /\ n \in Nat
        <5>1. Remote_Device \in [Slots -> Nat]
          BY DEF ListShape
        <5>2. (IF Remote_Device[s] > 0 THEN Remote_Device[s] - 1 ELSE 0) \in Nat
          BY <5>1
        <5> QED BY <2>4, <5>2 DEF Forget
      <4> QED BY <4>1 DEF ListShape
    <3> QED BY <2>1, <2>2, <2>4, <3>1 DEF Forget, ListShape
  <2>5. ASSUME NEW s \in Slots \ {0}, dev' = [dev EXCEPT ![s] = "main"], ReportNew(s),
               UNCHANGED <<Sync_Recv, SyncRetry, timer>>
        PROVE  Shape'
    BY <2>1, <2>2, <2>5 DEF ReportNew, ListShape
  <2> QED BY <1>3, <2>3, <2>4, <2>5 DEF Disturb
<1>4. CASE Tick
  <2>1. left' \in 0 .. Pause /\ timer' \in Off .. Timeout
    BY <1>4 DEF Tick, Sleeping, Off
  <2> QED BY <1>4, <2>1 DEF Tick, ListShape
<1> QED BY <1>1, <1>2, <1>3, <1>4

LEMMA ShapeStep == Shape /\ [Next]_vars => Shape'
<1> SUFFICES ASSUME Shape, [Next]_vars PROVE Shape'
  OBVIOUS
<1>1. CASE UNCHANGED vars
  BY <1>1 DEF vars, Shape, WalkShape, ListShape, listVars, walkVars, ghostVars
<1> QED BY <1>1, ListTyped, ConnectTyped, ThreadTyped, OtherTyped DEF Next

-----------------------------------------------------------------------------
(* The baton.                                                              *)

LEMMA TokenNumbers ==
  ASSUME Shape, Shape'
  PROVE  /\ Work \in 0 .. 1 /\ Work' \in 0 .. 1
         /\ Arming \in 0 .. 1 /\ Arming' \in 0 .. 1
         /\ Owing \in 0 .. 1 /\ Owing' \in 0 .. 1
         /\ sem \in Nat /\ sem' \in Nat /\ disturb \in Nat /\ disturb' \in Nat
BY DEF Work, Arming, Owing, Shape, WalkShape

(* The baton is passed on, or dropped.                                     *)
LEMMA TokenPassed ==
  ASSUME Shape, Shape',
         \/ sem' = sem /\ Work' <= Work /\ Arming' <= Arming /\ Owing' <= Owing
         \/ sem' = sem - 1 /\ Work = 0 /\ Arming' <= Arming /\ Owing' <= Owing
         \/ sem' \in {sem, sem + 1} /\ Work = 1 /\ Work' = 0 /\ Arming' <= Arming /\ Owing' <= Owing
         \/ sem' = sem + 1 /\ Arming = 1 /\ Arming' = 0 /\ Work' <= Work /\ Owing' <= Owing
         \/ sem' = sem /\ Work = 1 /\ Work' = 0 /\ Owing' = 0
         \/ sem' = sem /\ Owing = 1 /\ Owing' = 0 /\ Work' <= Work
  PROVE  Tokens' <= Tokens
BY TokenNumbers DEF Tokens

LEMMA TokenAdded ==
  ASSUME Shape, Shape',
         \/ sem' = sem + 1 /\ Work' <= Work /\ Arming' <= Arming
         \/ sem' = sem /\ Work' <= Work
  PROVE  Tokens' <= Tokens + 2
BY TokenNumbers DEF Tokens

(* When nothing is going on a request makes one baton.                     *)
LEMMA TokenFirst ==
  ASSUME Shape, Shape', Quiet, sem' = sem + 1, pc' = pc, timer' = timer
  PROVE  Tokens' = 1
BY DEF Quiet, Tokens, Work, Arming, Owing, AtWork, Owed

(* What happens to the batons in each step.                                *)
CalmStep  == disturb' = disturb /\ Tokens' <= Tokens
FreshStep == disturb' = disturb /\ Quiet /\ Sync_Request
RoughStep == disturb' = disturb + 1 /\ Tokens' <= Tokens + 2

LEMMA TokenThread ==
  ASSUME Shape, Shape', Sync_t
  PROVE  CalmStep
<1> USE DEF AtWork, Owed, Work, Arming, Owing, ghostVars, walkVars
<1>0. disturb' = disturb
  BY DEF Sync_t, Take, Settled, Ask, Exhausted, Waited
<1>1. CASE Take
  <2>1. sem' = sem - 1 /\ Work = 0 /\ Arming' <= Arming /\ Owing' <= Owing
    BY <1>1 DEF Take
  <2> QED BY <1>0, <2>1, TokenPassed DEF CalmStep
<1>2. CASE Settled
  <2>1. sem' = sem /\ Work' <= Work /\ Arming' <= Arming /\ Owing' <= Owing
    BY <1>2 DEF Settled
  <2> QED BY <1>0, <2>1, TokenPassed DEF CalmStep
<1>3. CASE Ask
  <2>1. sem' = sem /\ Work' <= Work /\ Arming' <= Arming /\ Owing' <= Owing
    BY <1>3 DEF Ask
  <2> QED BY <1>0, <2>1, TokenPassed DEF CalmStep
<1>4. CASE Exhausted
  <2>1. Work = 1 /\ Work' = 0 /\ Arming' <= Arming /\ Owing' <= Owing /\ sem' \in {sem, sem + 1}
    BY <1>4 DEF Exhausted
  <2> QED BY <1>0, <2>1, TokenPassed DEF CalmStep
<1>5. CASE Waited
  <2>1. CASE Sync_Recv
    <3>1. sem' = sem /\ Work' <= Work /\ Arming' <= Arming /\ Owing' <= Owing
      BY <1>5, <2>1 DEF Waited
    <3> QED BY <1>0, <3>1, TokenPassed DEF CalmStep
  <2>2. CASE ~Sync_Recv
    <3>1. sem' = sem + 1 /\ Work = 1 /\ Work' = 0 /\ Arming' <= Arming /\ Owing' <= Owing
      BY <1>5, <2>2 DEF Waited
    <3> QED BY <1>0, <3>1, TokenPassed DEF CalmStep
  <2> QED BY <2>1, <2>2
<1> QED BY <1>1, <1>2, <1>3, <1>4, <1>5 DEF Sync_t

(* Where the timer moves the walk, it comes no further than to who owes an *)
(* answer, or passes that one by.                                          *)
LEMMA TokenTimer ==
  ASSUME Shape, Shape', Sync_Timeout_Callback
  PROVE  CalmStep
<1> USE DEF AtWork, Owed, Work, Arming, Owing, ghostVars
<1>1. timer # Off /\ timer' = Off /\ disturb' = disturb /\ UNCHANGED <<pc, Sync_Recv, target, talk>>
  BY DEF Sync_Timeout_Callback, Off
<1>2. Sync_Counter \in Nat /\ target \in Nat
  BY Numbers DEF Shape, WalkShape
<1>3. CASE Below(Sync_Counter) # {}
  <2>1. Sync_Counter' < Sync_Counter /\ Sync_Counter' \in Nat
    BY <1>3, NextMain, Numbers DEF Sync_Timeout_Callback, Shape, WalkShape
  <2>2. sem' = sem + 1 /\ UNCHANGED Sync_Start
    BY <1>3 DEF Sync_Timeout_Callback
  <2>3. Work' <= Work /\ Arming = 1 /\ Arming' = 0
    BY <1>1
  <2>4. Owing' <= Owing
    BY <1>1, <1>2, <2>1, <2>2
  <2> QED BY <1>1, <2>2, <2>3, <2>4, TokenPassed DEF CalmStep
<1>4. CASE Below(Sync_Counter) = {}
  <2>1. sem' = sem /\ Work' <= Work /\ Arming' <= Arming
    BY <1>1, <1>4 DEF Sync_Timeout_Callback
  <2>2. Owing' <= Owing
    BY <1>4 DEF Sync_Timeout_Callback
  <2> QED BY <1>1, <2>1, <2>2, TokenPassed DEF CalmStep
<1> QED BY <1>3, <1>4

LEMMA TokenAnswer ==
  ASSUME Shape, Shape', Answer
  PROVE  CalmStep
<1> USE DEF AtWork, Owed, Work, Arming, Owing
<1>1. /\ disturb' = disturb /\ sem' = sem /\ Sync_Counter = target /\ talk > 0
      /\ UNCHANGED <<pc, target, Sync_Counter, Sync_Start>> /\ Sync_Refresh
      /\ pc = "wait" \/ timer # Off
  BY DEF Answer
<1>2. Timeout # Off /\ target \in Nat /\ talk \in Nat
  BY Numbers DEF Off, Shape, WalkShape
<1>3. CASE ~Sync_Start
  <2>1. UNCHANGED <<Sync_Recv, timer>>
    BY <1>1, <1>3 DEF Sync_Refresh
  <2>2. Work' <= Work /\ Arming' <= Arming /\ Owing' <= Owing
    BY <1>1, <1>3, <2>1
  <2> QED BY <1>1, <2>2, TokenPassed DEF CalmStep
<1>4. CASE Sync_Start
  <2>1. Sync_Recv' = TRUE /\ timer' # Off
    BY <1>1, <1>2, <1>4 DEF Sync_Refresh
  <2>2. Owing' = 0 /\ Work' <= Work
    BY <1>1, <1>2, <2>1
  <2>3. CASE timer # Off
    <3>1. Arming' <= Arming /\ Owing' <= Owing
      BY <2>2, <2>3
    <3> QED BY <1>1, <2>2, <3>1, TokenPassed DEF CalmStep
  <2>4. CASE timer = Off /\ ~Sync_Recv
    <3>1. Work = 1 /\ Work' = 0
      BY <1>1, <2>1, <2>4
    <3> QED BY <1>1, <2>2, <3>1, TokenPassed DEF CalmStep
  <2>5. CASE timer = Off /\ Sync_Recv
    <3>1. Owing = 1
      BY <1>1, <1>4, <2>5
    <3> QED BY <1>1, <2>2, <3>1, TokenPassed DEF CalmStep
  <2> QED BY <2>3, <2>4, <2>5
<1> QED BY <1>3, <1>4

LEMMA TokenDisturb ==
  ASSUME Shape, Shape', Disturb
  PROVE  RoughStep
<1>1. disturb' = disturb + 1 /\ sem' = sem /\ UNCHANGED <<pc>>
  BY DEF Disturb
<1>2. Sync_Recv => Sync_Recv'
  BY DEF Disturb, Sync_Refresh
<1>3. Work' <= Work
  BY <1>1, <1>2 DEF Work, AtWork
<1> QED BY <1>1, <1>3, TokenAdded DEF RoughStep

LEMMA TokenTick ==
  ASSUME Shape, Shape', Tick
  PROVE  CalmStep
<1>1. /\ disturb' = disturb /\ sem' = sem
      /\ UNCHANGED <<pc, Sync_Recv, Sync_Start, talk, target, Sync_Counter>>
  BY DEF Tick, walkVars, ghostVars
<1>2. (timer = Off <=> timer' = Off)
  BY Numbers DEF Tick, Off, Shape, WalkShape
<1>3. Work' <= Work /\ Arming' <= Arming /\ Owing' <= Owing
  BY <1>1, <1>2 DEF Work, AtWork, Arming, Owing, Owed
<1> QED BY <1>1, <1>3, TokenPassed DEF CalmStep

LEMMA TokenRequest ==
  ASSUME Shape, Shape', Sync_Request
  PROVE  FreshStep \/ RoughStep
<1>1. sem' = sem + 1 /\ timer' = Off /\ UNCHANGED <<pc, Sync_Recv>>
  BY DEF Sync_Request
<1>2. (Quiet /\ disturb' = disturb) \/ disturb' = disturb + 1
  BY Disturbed DEF Sync_Request, Quiet, Shape, WalkShape
<1>3. Work' <= Work /\ Arming' <= Arming
  BY <1>1 DEF Work, AtWork, Arming
<1>4. Tokens' <= Tokens + 2
  BY <1>1, <1>3, TokenAdded
<1> QED BY <1>2, <1>4 DEF FreshStep, RoughStep

(* Steps that leave thread, timer and semaphore alone.                     *)
LEMMA TokenSame ==
  ASSUME Shape, Shape',
         UNCHANGED <<walkVars, sem, timer, pc, left, target, talk>>,
         disturb' = disturb \/ disturb' = disturb + 1
  PROVE  CalmStep \/ RoughStep
<1>1. Work' <= Work /\ Arming' <= Arming /\ Owing' <= Owing /\ sem' = sem
  BY DEF Work, AtWork, Arming, Owing, Owed, walkVars
<1>2. Tokens' <= Tokens /\ Tokens \in Nat /\ Tokens' \in Nat
  BY <1>1, TokenPassed, TokenNumbers DEF Tokens
<1> QED BY <1>2 DEF CalmStep, RoughStep

LEMMA TokenStep ==
  ASSUME Shape, Shape', [Next]_vars
  PROVE  CalmStep \/ FreshStep \/ RoughStep
<1>1. CASE local_subdev_list
  <2>1. Sync_Request \/ UNCHANGED <<walkVars, sem, timer, pc, left, ghostVars, disturb>>
    BY <1>1 DEF local_subdev_list
  <2> QED BY <2>1, TokenRequest, TokenSame DEF ghostVars
<1>2. CASE wifi_status_change
  <2>1. UNCHANGED <<walkVars, sem, timer, pc, left, ghostVars>>
    BY <1>2 DEF wifi_status_change
  <2>2. disturb' = disturb \/ disturb' = disturb + 1
    BY <1>2 DEF wifi_status_change, Undisturbed
  <2> QED BY <2>1, <2>2, TokenSame DEF ghostVars
<1>3. CASE UNCHANGED vars
  BY <1>3, TokenSame DEF vars, ghostVars
<1> QED BY <1>1, <1>2, <1>3, TokenThread, TokenTimer, TokenAnswer, TokenDisturb, TokenTick
     DEF Next

LEMMA TokenKept ==
  ASSUME Shape, Shape', [Next]_vars, TokenInv
  PROVE  TokenInv'
<1> USE DEF TokenInv
<1>0. Tokens \in Nat /\ Tokens' \in Nat /\ disturb \in Nat /\ disturb' \in Nat
  BY TokenNumbers DEF Tokens
<1>1. CASE CalmStep
  BY <1>0, <1>1 DEF CalmStep
<1>2. CASE RoughStep
  <2>1. disturb' = disturb + 1 /\ Tokens' <= Tokens + 2 /\ Tokens <= 1 + 2 * disturb
    BY <1>2 DEF RoughStep
  <2> QED BY <1>0, <2>1
<1>3. CASE FreshStep
  <2>1. Tokens' = 1
    BY <1>3, TokenFirst DEF FreshStep, Sync_Request, Quiet
  <2>2. \A d \in Nat : 1 <= 1 + 2 * d
    OBVIOUS
  <2> QED BY <1>0, <2>1, <2>2
<1> QED BY <1>1, <1>2, <1>3, TokenStep

-----------------------------------------------------------------------------
(* What is charged.                                                        *)

LEMMA RetryNumbers ==
  ASSUME Shape
  PROVE  /\ \A s \in Slots : SyncRetry[s] \in Nat /\ s \in Nat
         /\ Retries \in Nat /\ Retries >= 1 /\ disturb \in Nat
         /\ Sync_Counter \in Slots /\ target \in Slots
BY Numbers DEF Shape, WalkShape

LEMMA RetryRough ==
  ASSUME Shape, Shape', RetryInv, disturb' = disturb + 1,
         \A s \in Slots : SyncRetry'[s] <= SyncRetry[s],
         Waiting' => Waiting /\ target' = target
  PROVE  RetryInv'
<1> USE RetryNumbers
<1>1. \A s \in Slots : SyncRetry'[s] \in Nat /\ SyncRetry'[s] <= Retries + disturb
  BY DEF RetryInv, Shape, WalkShape
<1>2. \A s \in Slots : Spared(s)'
  BY <1>1 DEF Spared
<1>3. \A s \in Slots : SyncRetry'[s] <= Retries + disturb'
  BY <1>1
<1>4. Behind'
  BY <1>2 DEF Behind, Shape, WalkShape
<1>5. Waiting' => SyncRetry'[target'] < Retries
  BY <1>1 DEF RetryInv
<1> QED BY <1>3, <1>4, <1>5 DEF RetryInv

LEMMA RetryCalm ==
  ASSUME Shape, Shape', RetryInv, CalmStep, Sync_Counter' <= Sync_Counter,
         \A s \in Slots : SyncRetry'[s] <= SyncRetry[s],
         Waiting' => /\ Waiting /\ target' = target
                     /\ Sync_Counter' = Sync_Counter \/ ~Clean
  PROVE  RetryInv'
<1> USE RetryNumbers
<1>0. disturb' = disturb /\ Tokens' <= Tokens /\ Tokens \in Nat /\ Tokens' \in Nat
  BY TokenNumbers DEF CalmStep, Tokens
<1>1. /\ \A s \in Slots : SyncRetry'[s] \in Nat
      /\ Sync_Counter' \in Slots /\ Sync_Counter' \in Nat /\ Sync_Counter \in Nat
  BY DEF Shape, WalkShape
<1>2. \A s \in Slots : Spared(s) => Spared(s)'
  BY <1>0, <1>1 DEF Spared
<1>3. \A s \in Slots : SyncRetry'[s] <= Retries + disturb'
  BY <1>0, <1>1 DEF RetryInv
<1>4. ASSUME Waiting'
      PROVE  SyncRetry'[target'] < Retries
  <2>1. Waiting /\ target' = target /\ SyncRetry'[target] <= SyncRetry[target]
    BY <1>4
  <2>2. SyncRetry[target] < Retries /\ SyncRetry'[target] \in Nat
    BY <1>1, <2>1 DEF RetryInv
  <2> QED BY <2>1, <2>2
<1>5. CASE Clean
  <2>1. Clean'
    BY <1>0, <1>5 DEF Clean
  <2> QED BY <1>3, <1>4, <2>1 DEF RetryInv
<1>6. CASE ~Clean
  <2>1. Behind
    BY <1>6 DEF RetryInv
  <2>2. \A s \in Slots : s < Sync_Counter' => Spared(s)'
    <3> TAKE s \in Slots
    <3>1. s \in Nat
      OBVIOUS
    <3>2. s < Sync_Counter' => s < Sync_Counter
      BY <1>1, <3>1
    <3> QED BY <1>2, <2>1, <3>2 DEF Behind
  <2>3. ASSUME Waiting', Sync_Counter' # target'
        PROVE  Spared(Sync_Counter)'
    <3>1. Waiting /\ target' = target
      BY <2>3
    <3>2. Sync_Counter' = Sync_Counter \/ Sync_Counter' < Sync_Counter
      BY <1>1
    <3>3. Spared(Sync_Counter')
      BY <1>1, <2>1, <2>3, <3>1, <3>2 DEF Behind
    <3> QED BY <1>0, <1>1, <3>3 DEF Spared
  <2> QED BY <1>3, <1>4, <2>2, <2>3 DEF RetryInv, Behind
<1> QED BY <1>5, <1>6

LEMMA RetryAsk ==
  ASSUME Shape, Shape', RetryInv, CalmStep, Ask
  PROVE  RetryInv'
<1> USE RetryNumbers
<1>0. disturb' = disturb /\ Tokens' <= Tokens /\ Tokens \in Nat /\ Tokens' \in Nat
  BY TokenNumbers DEF CalmStep, Tokens
<1>1. /\ UNCHANGED <<SyncRetry, Sync_Counter>> /\ target' = Sync_Counter
      /\ SyncRetry[Sync_Counter] < Retries
  BY DEF Ask
<1>2. Clean => Clean'
  BY <1>0, <1>1 DEF Clean
<1>3. Behind => Behind'
  BY <1>0, <1>1 DEF Behind, Spared
<1> QED BY <1>0, <1>1, <1>2, <1>3 DEF RetryInv

LEMMA RetryWaited ==
  ASSUME Shape, Shape', RetryInv, CalmStep, Waited
  PROVE  RetryInv'
<1> USE RetryNumbers
<1>0. disturb' = disturb /\ Tokens' <= Tokens /\ Tokens \in Nat /\ Tokens' \in Nat
  BY TokenNumbers DEF CalmStep, Tokens
<1>1. pc = "wait" /\ UNCHANGED Sync_Counter /\ ~Waiting'
  BY DEF Waited, Waiting
<1>2. CASE Sync_Recv
  <2>1. UNCHANGED SyncRetry
    BY <1>2 DEF Waited
  <2> QED BY <1>1, <2>1, RetryCalm
<1>3. CASE ~Sync_Recv
  <2>1. Waiting /\ SyncRetry' = [SyncRetry EXCEPT ![Sync_Counter] = SyncRetry[Sync_Counter] + 1]
    BY <1>1, <1>3 DEF Waited, Waiting
  <2>2. /\ SyncRetry'[Sync_Counter] = SyncRetry[Sync_Counter] + 1
        /\ \A s \in Slots : s # Sync_Counter => SyncRetry'[s] = SyncRetry[s]
    BY <2>1 DEF Shape, WalkShape
  <2>3. SyncRetry[Sync_Counter] <= Retries + disturb - 1
    <3>1. CASE Sync_Counter = target
      BY <2>1, <3>1 DEF RetryInv
    <3>2. CASE Sync_Counter # target
      BY <2>1, <3>2 DEF RetryInv, Clean, Behind, Spared
    <3> QED BY <3>1, <3>2
  <2>4. \A s \in Slots : SyncRetry'[s] <= Retries + disturb'
    BY <1>0, <2>2, <2>3 DEF RetryInv
  <2>5. Clean => Clean'
    BY <1>0, <1>1 DEF Clean
  <2>6. Behind => Behind'
    BY <1>0, <1>1, <2>2 DEF Behind, Spared
  <2> QED BY <1>1, <2>4, <2>5, <2>6 DEF RetryInv
<1> QED BY <1>2, <1>3

LEMMA RetryRefresh ==
  ASSUME Shape, Sync_Refresh, pc' = pc
  PROVE  /\ \A s \in Slots : SyncRetry'[s] <= SyncRetry[s]
         /\ Waiting' => Waiting
BY RetryNumbers DEF Sync_Refresh, Waiting, Shape, WalkShape

LEMMA RetryStep ==
  ASSUME Shape, Shape', [Next]_vars, RetryInv
  PROVE  RetryInv'
<1> USE DEF walkVars, ghostVars
<1>0. /\ \A s \in Slots : SyncRetry[s] <= SyncRetry[s]
      /\ Sync_Counter <= Sync_Counter
  BY RetryNumbers
<1>1. CASE Take \/ Settled
  <2>1. UNCHANGED <<Sync_Counter, SyncRetry, target>> /\ ~Waiting' /\ CalmStep
    BY <1>1, TokenThread DEF Take, Settled, Waiting, Sync_t
  <2> QED BY <1>0, <2>1, RetryCalm
<1>2. CASE Exhausted
  <2>1. ~Waiting' /\ CalmStep
    BY <1>2, TokenThread DEF Exhausted, Waiting, Sync_t
  <2>2. Sync_Counter' <= Sync_Counter
    BY <1>2, NextMain, RetryNumbers DEF Exhausted
  <2>3. \A s \in Slots : SyncRetry'[s] <= SyncRetry[s]
    BY <1>2, RetryNumbers DEF Exhausted, Shape, WalkShape
  <2> QED BY <2>1, <2>2, <2>3, RetryCalm
<1>3. CASE Ask \/ Waited
  BY <1>3, TokenThread, RetryAsk, RetryWaited DEF Sync_t
<1>4. CASE Sync_Timeout_Callback
  <2>1. UNCHANGED <<SyncRetry, target, pc, Sync_Recv>> /\ CalmStep /\ timer # Off
    <3>1. CalmStep
      BY <1>4, TokenTimer
    <3>2. timer # Off
      BY <1>4 DEF Sync_Timeout_Callback, Off
    <3> QED BY <1>4, <3>1, <3>2 DEF Sync_Timeout_Callback
  <2>2. Sync_Counter' <= Sync_Counter
    BY <1>4, NextMain, RetryNumbers DEF Sync_Timeout_Callback
  <2>3. Waiting => ~Clean
    <3>1. Waiting => Work = 1 /\ Arming = 1
      BY <2>1 DEF Waiting, Work, AtWork, Arming
    <3> QED BY <3>1, TokenNumbers DEF Clean, Tokens
  <2> QED BY <1>0, <2>1, <2>2, <2>3, RetryCalm DEF Waiting
<1>5. CASE Answer
  <2>1. UNCHANGED <<Sync_Counter, target, pc>> /\ Sync_Refresh /\ CalmStep
    BY <1>5, TokenAnswer DEF Answer
  <2> QED BY <1>0, <2>1, RetryRefresh, RetryCalm
<1>6. CASE Tick
  <2>1. UNCHANGED <<Sync_Counter, SyncRetry, target, pc, Sync_Recv>> /\ CalmStep
    BY <1>6, TokenTick DEF Tick
  <2> QED BY <1>0, <2>1, RetryCalm DEF Waiting
<1>7. CASE Disturb
  <2>1. UNCHANGED <<target, pc>> /\ disturb' = disturb + 1
    BY <1>7 DEF Disturb
  <2>2. Sync_Refresh \/ UNCHANGED <<Sync_Recv, SyncRetry>>
    BY <1>7 DEF Disturb
  <2> QED BY <1>0, <2>1, <2>2, RetryRefresh, RetryRough DEF Waiting
<1>8. ASSUME UNCHANGED <<walkVars, sem, timer, pc, left, target, talk>>,
             disturb' = disturb \/ disturb' = disturb + 1
      PROVE  RetryInv'
  <2>1. CalmStep \/ disturb' = disturb + 1
    BY <1>8, TokenSame DEF RoughStep
  <2> QED BY <1>0, <1>8, <2>1, RetryCalm, RetryRough DEF Waiting
<1>9. CASE Sync_Request
  <2>1. UNCHANGED <<SyncRetry, target, pc, Sync_Recv>>
    BY <1>9 DEF Sync_Request
  <2>2. CASE FreshStep
    <3>1. Clean'
      BY <2>1, <2>2, TokenFirst DEF FreshStep, Sync_Request, Quiet, Clean, Waiting
    <3>2. ~Waiting' /\ disturb' = disturb
      BY <2>1, <2>2 DEF FreshStep, Quiet, Waiting
    <3> QED BY <2>1, <3>1, <3>2 DEF RetryInv
  <2>3. CASE RoughStep
    BY <1>0, <2>1, <2>3, RetryRough DEF RoughStep, Waiting
  <2> QED BY <1>9, <2>2, <2>3, TokenRequest
<1>10. CASE local_subdev_list
  <2>1. Sync_Request \/ UNCHANGED <<walkVars, sem, timer, pc, left, ghostVars, disturb>>
    BY <1>10 DEF local_subdev_list
  <2> QED BY <1>8, <1>9, <2>1
<1>11. CASE wifi_status_change
  <2>1. UNCHANGED <<walkVars, sem, timer, pc, left, ghostVars>>
    BY <1>11 DEF wifi_status_change
  <2>2. disturb' = disturb \/ disturb' = disturb + 1
    BY <1>11 DEF wifi_status_change, Undisturbed
  <2> QED BY <1>8, <2>1, <2>2
<1>12. CASE UNCHANGED vars
  BY <1>8, <1>12 DEF vars
<1> QED BY <1>1, <1>2, <1>3, <1>4, <1>5, <1>6, <1>7, <1>10, <1>11, <1>12 DEF Next, Sync_t

-----------------------------------------------------------------------------
(* Entries for a controller.                                               *)

LEMMA MentionsType ==
  ASSUME due \in Seq(PackageSet), NEW s
  PROVE  /\ Len(due) \in Nat /\ IsFiniteSet(Places(s)) /\ Mentions(s) \in Nat
         /\ due = <<>> => Mentions(s) = 0
<1>1. Len(due) \in Nat
  OBVIOUS
<1>2. IsFiniteSet(1 .. Len(due))
  BY <1>1, FS_Interval
<1>3. Places(s) \in SUBSET (1 .. Len(due))
  BY DEF Places
<1>4. IsFiniteSet(Places(s)) /\ Mentions(s) \in Nat
  BY <1>2, <1>3, FS_Subset, FS_CardinalityType DEF Mentions
<1>5. due = <<>> => Places(s) = {}
  BY DEF Places
<1> QED BY <1>1, <1>4, <1>5, FS_EmptySet DEF Mentions

(* The first package leaves the queue.                                     *)
LEMMA MentionsTail ==
  ASSUME due \in Seq(PackageSet), due # <<>>, due' = Tail(due), NEW s
  PROVE  Mentions(s)' <= IF s \in Head(due).named THEN Mentions(s) - 1 ELSE Mentions(s)
<1> DEFINE A == Places(s)
           B == Places(s)'
           T == A \ {1}
           f == [i \in B |-> i + 1]
<1>1. Len(due) \in Nat /\ IsFiniteSet(A) /\ Cardinality(A) \in Nat
  BY MentionsType DEF Mentions
<1>2. /\ Len(due') = Len(due) - 1 /\ Len(due) >= 1 /\ Head(due) = due[1]
      /\ \A i \in 1 .. Len(due') : due'[i] = due[i + 1]
  <2>1. Len(due) >= 1 /\ Head(due) = due[1]
    BY <1>1
  <2>2. Len(due') = Len(due) - 1
    OBVIOUS
  <2>3. \A i \in 1 .. Len(due') : due'[i] = due[i + 1]
    BY <2>1, <2>2
  <2> QED BY <2>1, <2>2, <2>3
<1>3. B = {i \in 1 .. Len(due') : s \in due'[i].named} /\ A = {i \in 1 .. Len(due) : s \in due[i].named}
  BY DEF Places
<1>4. f \in Injection(B, T)
  <2>1. \A i \in B : i \in Nat /\ i + 1 \in T
    BY <1>1, <1>2, <1>3
  <2>2. f \in [B -> T]
    BY <2>1
  <2>3. \A i, j \in B : f[i] = f[j] => i = j
    BY <2>1
  <2> QED BY <2>2, <2>3 DEF Injection, IsInjective
<1>5. IsFiniteSet(T) /\ Cardinality(T) = IF 1 \in A THEN Cardinality(A) - 1 ELSE Cardinality(A)
  BY <1>1, FS_RemoveElement
<1>6. Cardinality(B) <= Cardinality(T)
  BY <1>4, <1>5, FS_Injection
<1>7. 1 \in A <=> s \in Head(due).named
  BY <1>1, <1>2, <1>3
<1> HIDE DEF A, B, T, f
<1>8. Mentions(s)' = Cardinality(B) /\ Mentions(s) = Cardinality(A)
  BY DEF Mentions, A, B
<1> QED BY <1>1, <1>5, <1>6, <1>7, <1>8

LEMMA TwoMore ==
  ASSUME NEW S, NEW q \in Seq(S), NEW a \in S, NEW b \in S
  PROVE  /\ Len(q \o <<a, b>>) = Len(q) + 2
         /\ \A i \in 1 .. Len(q) : (q \o <<a, b>>)[i] = q[i]
         /\ (q \o <<a, b>>)[Len(q) + 1] = a /\ (q \o <<a, b>>)[Len(q) + 2] = b
<1>1. Len(q) \in Nat /\ <<a, b>> \in Seq(S) /\ Len(<<a, b>>) = 2
  OBVIOUS
<1>2. Len(q \o <<a, b>>) = Len(q) + 2
  BY <1>1
<1> QED BY <1>1, <1>2

(* A list names a controller once.                                         *)
LEMMA MentionsList ==
  ASSUME due \in Seq(PackageSet), cloud \subseteq Slots, NEW answer \in Lists,
         due' = due \o answer, due' \in Seq(PackageSet), NEW s
  PROVE  Mentions(s)' <= Mentions(s) + 1
<1>1. Len(due) \in Nat /\ IsFiniteSet(Places(s)) /\ Cardinality(Places(s)) \in Nat
  BY MentionsType DEF Mentions
<1>2. PICK x : Places(s)' \subseteq Places(s) \cup {x}
  <2>1. CASE answer = <<Package(cloud, FALSE)>>
    <3>1. Places(s)' \subseteq Places(s) \cup {Len(due) + 1}
      BY <1>1, <2>1 DEF Places
    <3> QED BY <3>1
  <2>2. ASSUME NEW t, answer = <<Package(Before(t), TRUE), Package(cloud \ Before(t), FALSE)>>
        PROVE  \E x : Places(s)' \subseteq Places(s) \cup {x}
    <3> DEFINE a == Package(Before(t), TRUE)
               b == Package(cloud \ Before(t), FALSE)
    <3>1. a.named = Before(t) /\ b.named = cloud \ Before(t) /\ a \in PackageSet /\ b \in PackageSet
      BY DEF Package, PackageSet, Before
    <3>2. due' = due \o <<a, b>>
      BY <2>2
    <3> HIDE DEF a, b
    <3>3. /\ Len(due') = Len(due) + 2 /\ \A i \in 1 .. Len(due) : due'[i] = due[i]
          /\ due'[Len(due) + 1] = a /\ due'[Len(due) + 2] = b
      BY <3>1, <3>2, TwoMore
    <3>4. \A i \in Places(s)' : i \in 1 .. Len(due) + 2 /\ s \in due'[i].named
      BY <3>3 DEF Places
    <3>5. \A i \in 1 .. Len(due) + 2 : i \in 1 .. Len(due) \/ i = Len(due) + 1 \/ i = Len(due) + 2
      BY <1>1
    <3>6. CASE s \in Before(t)
      <4>1. Places(s)' \subseteq Places(s) \cup {Len(due) + 1}
        BY <3>1, <3>3, <3>4, <3>5, <3>6 DEF Places
      <4> QED BY <4>1
    <3>7. CASE s \notin Before(t)
      <4>1. Places(s)' \subseteq Places(s) \cup {Len(due) + 2}
        BY <3>1, <3>3, <3>4, <3>5, <3>7 DEF Places
      <4> QED BY <4>1
    <3> QED BY <3>6, <3>7
  <2> QED BY <2>1, <2>2 DEF Lists
<1>3. /\ IsFiniteSet(Places(s) \cup {x}) /\ Cardinality(Places(s) \cup {x}) <= Cardinality(Places(s)) + 1
      /\ Cardinality(Places(s) \cup {x}) \in Nat
  <2>1. /\ IsFiniteSet(Places(s) \cup {x})
        /\ Cardinality(Places(s) \cup {x}) =
             IF x \in Places(s) THEN Cardinality(Places(s)) ELSE Cardinality(Places(s)) + 1
    BY <1>1, FS_AddElement
  <2> QED BY <1>1, <2>1
<1>4. Cardinality(Places(s)') <= Cardinality(Places(s) \cup {x}) /\ Cardinality(Places(s)') \in Nat
  BY <1>2, <1>3, FS_Subset, FS_CardinalityType
<1> QED BY <1>1, <1>3, <1>4 DEF Mentions

LEMMA EntryNumbers ==
  ASSUME Shape
  PROVE  /\ due \in Seq(PackageSet) /\ cloud \subseteq Slots /\ Remote_Device \in [Slots -> Nat]
         /\ \A s \in Slots : Mentions(s) \in Nat /\ Remote_Device[s] \in Nat
         /\ disturb \in Nat
<1>1. due \in Seq(PackageSet) /\ cloud \subseteq Slots /\ Remote_Device \in [Slots -> Nat]
  BY DEF Shape, ListShape
<1>2. disturb \in Nat
  BY DEF Shape, WalkShape
<1> QED BY <1>1, <1>2, MentionsType

LEMMA EntryFewer ==
  ASSUME Shape, Shape', EntryInv, disturb' >= disturb, due' = due,
         \A s \in Slots : Remote_Device'[s] <= Remote_Device[s]
  PROVE  EntryInv'
<1> SUFFICES ASSUME NEW s \in Slots
             PROVE  Remote_Device'[s] + Mentions(s)' <= 1 + disturb'
  BY DEF EntryInv
<1>1. Mentions(s)' = Mentions(s)
  BY DEF Mentions, Places
<1>2. Remote_Device[s] + Mentions(s) <= 1 + disturb /\ Remote_Device'[s] <= Remote_Device[s]
  BY DEF EntryInv
<1>3. /\ Mentions(s) \in Nat /\ Remote_Device[s] \in Nat /\ disturb \in Nat
      /\ Remote_Device'[s] \in Nat /\ disturb' \in Nat
  <2>1. Mentions(s) \in Nat /\ Remote_Device[s] \in Nat /\ disturb \in Nat
    BY EntryNumbers
  <2>2. Remote_Device'[s] \in Nat
    BY DEF Shape, ListShape
  <2>3. disturb' \in Nat
    BY DEF Shape, WalkShape
  <2> QED BY <2>1, <2>2, <2>3
<1> QED BY <1>1, <1>2, <1>3

LEMMA EntryTake ==
  ASSUME Shape, Shape', EntryInv, disturb' >= disturb,
         NEW memory \in BOOLEAN, TakePackage(memory)
  PROVE  EntryInv'
<1> SUFFICES ASSUME NEW s \in Slots
             PROVE  Remote_Device'[s] + Mentions(s)' <= 1 + disturb'
  BY DEF EntryInv
<1>1. Mentions(s)' <= IF s \in Head(due).named THEN Mentions(s) - 1 ELSE Mentions(s)
  BY EntryNumbers, MentionsTail DEF TakePackage
<1>2. Remote_Device'[s] <= IF s \in Head(due).named THEN Remote_Device[s] + 1 ELSE Remote_Device[s]
  <2>1. CASE memory
    BY <2>1, EntryNumbers DEF TakePackage
  <2>2. CASE ~memory
    BY <2>2, EntryNumbers DEF TakePackage
  <2> QED BY <2>1, <2>2
<1>3. Remote_Device[s] + Mentions(s) <= 1 + disturb
  BY DEF EntryInv
<1>4. /\ Mentions(s) \in Nat /\ Remote_Device[s] \in Nat /\ disturb \in Nat
  BY EntryNumbers
<1>5. Mentions(s)' \in Nat /\ Remote_Device'[s] \in Nat /\ disturb' \in Nat
  <2>1. due' \in Seq(PackageSet)
    BY DEF Shape, ListShape
  <2>2. Mentions(s)' \in Nat
    <3>1. IsFiniteSet(1 .. Len(due')) /\ Places(s)' \in SUBSET (1 .. Len(due'))
      BY <2>1, FS_Interval DEF Places
    <3> QED BY <3>1, FS_Subset, FS_CardinalityType DEF Mentions
  <2> QED BY <2>2 DEF Shape, ListShape, WalkShape
<1> QED BY <1>1, <1>2, <1>3, <1>4, <1>5

LEMMA EntryConnect ==
  ASSUME Shape, Shape', EntryInv, Connected, Undisturbed(due = <<>>)
  PROVE  EntryInv'
<1> SUFFICES ASSUME NEW s \in Slots
             PROVE  Remote_Device'[s] + Mentions(s)' <= 1 + disturb'
  BY DEF EntryInv
<1>1. PICK answer \in Lists : due' = due \o answer
  BY DEF Connected
<1>2. due' \in Seq(PackageSet)
  BY DEF Shape, ListShape
<1>3. Mentions(s)' <= Mentions(s) + 1
  BY <1>1, <1>2, EntryNumbers, MentionsList
<1>4. Remote_Device'[s] = 0
  BY DEF Connected
<1>5. Remote_Device[s] + Mentions(s) <= 1 + disturb
  BY DEF EntryInv
<1>6. (due = <<>> /\ disturb' = disturb) \/ disturb' = disturb + 1
  BY Disturbed DEF Shape, WalkShape
<1>7. due = <<>> => Mentions(s) = 0
  BY EntryNumbers, MentionsType
<1>8. Mentions(s)' \in Nat /\ Mentions(s) \in Nat /\ Remote_Device[s] \in Nat /\ disturb \in Nat
  <2>1. IsFiniteSet(1 .. Len(due')) /\ Places(s)' \in SUBSET (1 .. Len(due'))
    BY <1>2, FS_Interval DEF Places
  <2> QED BY <2>1, FS_Subset, FS_CardinalityType, EntryNumbers DEF Mentions
<1> QED BY <1>3, <1>4, <1>5, <1>6, <1>7, <1>8

LEMMA EntryStep ==
  ASSUME Shape, Shape', [Next]_vars, EntryInv
  PROVE  EntryInv'
<1>0. /\ disturb' >= disturb
      /\ \A s \in Slots : Remote_Device[s] <= Remote_Device[s]
  <2>1. disturb' = disturb \/ disturb' = disturb + 1
    BY TokenStep DEF CalmStep, FreshStep, RoughStep
  <2> QED BY <2>1, EntryNumbers
<1>1. CASE local_subdev_list
  BY <1>0, <1>1, EntryTake DEF local_subdev_list
<1>2. CASE wifi_status_change
  <2>1. CASE Disconnected
    BY <1>0, <2>1, EntryFewer DEF Disconnected
  <2> QED BY <1>2, <2>1, EntryConnect DEF wifi_status_change
<1>3. CASE Disturb
  <2>1. due' = due
    BY <1>3 DEF Disturb, Forget, ReportNew, listVars
  <2>2. \A s \in Slots : Remote_Device'[s] <= Remote_Device[s]
    <3>1. ASSUME NEW t \in Slots, Forget(t)
          PROVE  \A s \in Slots : Remote_Device'[s] <= Remote_Device[s]
      BY <3>1, EntryNumbers DEF Forget
    <3>2. \/ UNCHANGED Remote_Device
          \/ \E t \in Slots : Forget(t)
      BY <1>3 DEF Disturb, ReportNew, listVars
    <3> QED BY <1>0, <3>1, <3>2
  <2> QED BY <1>0, <2>1, <2>2, EntryFewer
<1>4. CASE Sync_t \/ Sync_Timeout_Callback \/ Answer \/ Tick \/ UNCHANGED vars
  <2>1. UNCHANGED <<Remote_Device, due>>
    <3>1. CASE Sync_t
      BY <3>1 DEF Sync_t, Take, Settled, Ask, Exhausted, Waited, ReportNew, listVars
    <3> QED BY <1>4, <3>1 DEF Sync_Timeout_Callback, Answer, Tick, vars, listVars
  <2> QED BY <1>0, <2>1, EntryFewer
<1> QED BY <1>1, <1>2, <1>3, <1>4 DEF Next

-----------------------------------------------------------------------------
BoundInv == Shape /\ TokenInv /\ RetryInv /\ EntryInv

LEMMA BoundStart == Init => BoundInv
<1> SUFFICES ASSUME Init PROVE BoundInv
  OBVIOUS
<1> USE Numbers DEF Init, ListInit
<1>1. WalkShape
  BY DEF WalkShape, Off
<1>2. PICK known \in SUBSET Mains : ListInit(known)
  OBVIOUS
<1>3. ListShape
  BY <1>2 DEF ListShape, Mains
<1>4. Tokens = 0 /\ TokenInv
  BY DEF TokenInv, Tokens, Work, Arming, Owing, AtWork, Owed
<1>5. RetryInv
  BY <1>4 DEF RetryInv, Clean, Waiting
<1>6. EntryInv
  <2>1. \A s \in Slots : Remote_Device[s] = 0 /\ Mentions(s) = 0
    BY <1>2, <1>3, MentionsType DEF ListShape
  <2> QED BY <2>1 DEF EntryInv
<1> QED BY <1>1, <1>3, <1>4, <1>5, <1>6 DEF BoundInv, Shape

LEMMA Bounds == Spec => []BoundInv
<1>1. BoundInv /\ [Next]_vars => BoundInv'
  <2> SUFFICES ASSUME BoundInv, [Next]_vars PROVE BoundInv'
    OBVIOUS
  <2>1. Shape'
    BY ShapeStep DEF BoundInv
  <2> QED BY <2>1, TokenKept, RetryStep, EntryStep DEF BoundInv
<1> QED BY <1>1, BoundStart, PTL DEF Spec

(* Sync_Once_Sem, SyncRetry and the entries of Remote_Device are bounded:  *)
(* a request in the middle of a walk, a late answer or a second list adds  *)
(* two units, one charge and one entry each, and nothing that accumulates. *)
THEOREM SyncTypeCorrect == Spec => []TypeOK
<1>1. BoundInv => TypeOK
  <2> SUFFICES ASSUME BoundInv PROVE TypeOK
    OBVIOUS
  <2>1. sem \in 0 .. 1 + 2 * disturb
    <3>1. sem + Work + Arming + Owing <= 1 + 2 * disturb
      BY DEF BoundInv, TokenInv, Tokens
    <3>2. Work \in 0 .. 1 /\ Arming \in 0 .. 1 /\ Owing \in 0 .. 1 /\ sem \in Nat /\ disturb \in Nat
      BY DEF BoundInv, Work, Arming, Owing, Shape, WalkShape
    <3> QED BY <3>1, <3>2
  <2>2. SyncRetry \in [Slots -> 0 .. Retries + disturb]
    <3>1. SyncRetry \in [Slots -> Nat] /\ \A s \in Slots : SyncRetry[s] <= Retries + disturb
      BY DEF BoundInv, RetryInv, Shape, WalkShape
    <3>2. Retries + disturb \in Nat
      BY Numbers DEF BoundInv, Shape, WalkShape
    <3> QED BY <3>1, <3>2
  <2>3. Remote_Device \in [Slots -> 0 .. 1 + disturb]
    <3>1. \A s \in Slots : Remote_Device[s] \in 0 .. 1 + disturb
      BY EntryNumbers DEF BoundInv, EntryInv
    <3> QED BY <3>1, EntryNumbers DEF BoundInv
  <2>4. \A i \in 1 .. Len(due) : due[i] \in [named : SUBSET Slots, more : BOOLEAN]
    <3>1. due \in Seq(PackageSet)
      BY DEF BoundInv, Shape, ListShape
    <3>2. \A i \in 1 .. Len(due) : due[i] \in PackageSet
      BY <3>1
    <3> QED BY <3>2 DEF PackageSet
  <2>5. ListTypeOK(1 + disturb)
    BY <2>3, <2>4 DEF ListTypeOK, BoundInv, Shape, ListShape
  <2> QED BY <2>1, <2>2, <2>5 DEF TypeOK, BoundInv, Shape, WalkShape
<1> QED BY <1>1, Bounds, PTL

-----------------------------------------------------------------------------
(* A synchronisation that nothing disturbs has one baton.                  *)

LEMMA CalmFacts ==
  ASSUME BoundInv, disturb = 0
  PROVE  /\ sem \in 0 .. 1
         /\ sem > 0 => ~AtWork /\ timer = Off
         /\ AtWork => sem = 0 /\ timer = Off
         /\ timer # Off => sem = 0 /\ ~AtWork
         /\ \A s \in Slots : SyncRetry[s] \in 0 .. Retries /\ asks[s] \in 0 .. Retries + 1
         /\ Waiting => SyncRetry[target] < Retries
         /\ Sync_Counter \in Slots /\ target \in Slots
         /\ SyncRetry \in [Slots -> Nat] /\ asks \in [Slots -> 0 .. Retries + 1]
<1>1. /\ sem + Work + Arming + Owing <= 1
      /\ Work \in 0 .. 1 /\ Arming \in 0 .. 1 /\ Owing \in 0 .. 1 /\ sem \in Nat
  BY DEF BoundInv, TokenInv, Tokens, Work, Arming, Owing, Shape, WalkShape
<1>2. sem \in 0 .. 1
  BY <1>1
<1>3. (AtWork <=> Work = 1) /\ (timer # Off <=> Arming = 1)
  BY DEF Work, Arming
<1>4. /\ sem > 0 => Work # 1 /\ Arming # 1
      /\ Work = 1 => sem = 0 /\ Arming # 1
      /\ Arming = 1 => sem = 0 /\ Work # 1
  BY <1>1
<1>5. \A s \in Slots : SyncRetry[s] \in 0 .. Retries
  BY Numbers DEF BoundInv, RetryInv, Shape, WalkShape
<1>6. /\ Waiting => SyncRetry[target] < Retries
      /\ Sync_Counter \in Slots /\ target \in Slots
      /\ asks \in [Slots -> 0 .. Retries + 1] /\ SyncRetry \in [Slots -> Nat]
  BY DEF BoundInv, RetryInv, Shape, WalkShape
<1>7. \A s \in Slots : asks[s] \in 0 .. Retries + 1
  BY <1>6
<1> QED BY <1>2, <1>3, <1>4, <1>5, <1>6, <1>7

LEMMA MainFacts ==
  /\ Mains \subseteq Slots
  /\ \A s \in Mains : s \in Nat /\ dev[s] = "main"
  /\ \A n \in Slots, s \in Mains : s < n => s \in Below(n)
  /\ \A n : Below(n) \subseteq Mains
BY Numbers DEF Mains, Below

LEMMA SameMains ==
  ASSUME dev' = dev
  PROVE  Mains' = Mains /\ \A n : Below(n)' = Below(n)
BY DEF Mains, Below

(* Steps of thread and timer that change neither what is done nor where    *)
(* the walk is.                                                            *)
LEMMA CalmTake ==
  ASSUME BoundInv, disturb = 0, Calm, Take
  PROVE  Calm'
<1> USE DEF ghostVars, listVars, Waiting, AtWork, Active
<1>0. /\ UNCHANGED <<dev, Sync_Counter, Sync_Recv, SyncRetry, timer, target, talk, asks, heard,
                     requests, wifi_connected, Remote_Device, cloud, due>>
      /\ sem = 1 /\ sem' = 0 /\ pc = "take" /\ pc' = "settle" /\ Sync_Start' = TRUE /\ timer = Off
  BY CalmFacts DEF Take
<1>1. Mains' = Mains /\ \A n : Below(n)' = Below(n)
  BY <1>0, SameMains
<1>2. PlaceInv'
  BY <1>0, <1>1 DEF Calm, PlaceInv
<1>3. HeardInv'
  BY <1>0 DEF Calm, HeardInv
<1>4. ChargeInv'
  BY <1>0, <1>1 DEF Calm, ChargeInv, Kept
<1>5. CloudInv'
  BY <1>0 DEF Calm, CloudInv
<1>6. WalkInv'
  BY <1>0, <1>1 DEF Calm, WalkInv, Done, Excused
<1> QED BY <1>2, <1>3, <1>4, <1>5, <1>6 DEF Calm

LEMMA CalmTick ==
  ASSUME BoundInv, disturb = 0, Calm, Tick
  PROVE  Calm'
<1> USE DEF walkVars, ghostVars, listVars, Waiting, AtWork, Active
<1>0. /\ UNCHANGED <<dev, Sync_Counter, Sync_Start, Sync_Recv, SyncRetry, sem, pc, target, talk,
                     asks, heard, requests, wifi_connected, Remote_Device, cloud, due>>
      /\ timer = Off <=> timer' = Off
  <2>1. timer = Off <=> timer' = Off
    BY Numbers DEF Tick, Off, BoundInv, Shape, WalkShape
  <2> QED BY <2>1 DEF Tick
<1>1. Mains' = Mains /\ \A n : Below(n)' = Below(n)
  BY <1>0, SameMains
<1>2. PlaceInv'
  BY <1>0, <1>1 DEF Calm, PlaceInv
<1>3. HeardInv'
  BY <1>0 DEF Calm, HeardInv
<1>4. ChargeInv'
  BY <1>0, <1>1 DEF Calm, ChargeInv, Kept
<1>5. CloudInv'
  BY <1>0, <1>1 DEF Calm, CloudInv
<1>6. WalkInv'
  BY <1>0, <1>1 DEF Calm, WalkInv, Done, Excused
<1> QED BY <1>2, <1>3, <1>4, <1>5, <1>6 DEF Calm

(* The controller is reported, unless the cloud's list names it.           *)
LEMMA CalmSettled ==
  ASSUME BoundInv, disturb = 0, Calm, Settled
  PROVE  Calm'
<1> USE DEF walkVars, ghostVars, listVars, Waiting, AtWork, Active
<1>0. /\ UNCHANGED <<dev, Sync_Counter, Sync_Start, Sync_Recv, SyncRetry, sem, timer, target, talk,
                     asks, heard, requests, wifi_connected, Remote_Device, due>>
      /\ pc = "settle" /\ sem = 0 /\ timer = Off
      /\ pc' = IF dev[Sync_Counter] = "none" THEN "take" ELSE "ask"
  BY CalmFacts DEF Settled, ReportNew
<1>1. Mains' = Mains /\ \A n : Below(n)' = Below(n)
  BY <1>0, SameMains
<1>2. cloud \subseteq cloud' /\ (Sync_Counter \in Mains => Sync_Counter \in cloud')
  <2>1. CASE dev[Sync_Counter] = "main"
    <3>1. cloud' = IF Remote_Device[Sync_Counter] = 0 THEN cloud \cup {Sync_Counter} ELSE cloud
      BY <2>1 DEF Settled, ReportNew
    <3>2. Remote_Device[Sync_Counter] \in Nat
      BY CalmFacts, EntryNumbers DEF BoundInv
    <3> QED BY <3>1, <3>2, CalmFacts DEF Calm, CloudInv
  <2>2. CASE dev[Sync_Counter] # "main"
    BY <2>2, MainFacts DEF Settled
  <2> QED BY <2>1, <2>2
<1>3. PlaceInv'
  BY <1>0, <1>1 DEF Calm, PlaceInv
<1>4. HeardInv'
  BY <1>0 DEF Calm, HeardInv
<1>5. ChargeInv'
  <2>1. CASE dev[Sync_Counter] = "none"
    <3>1. asks[Sync_Counter] = 0 /\ Kept(Sync_Counter)
      BY <1>0, <2>1, CalmFacts DEF Calm, ChargeInv, Kept
    <3> QED BY <1>0, <1>1, <3>1 DEF Calm, ChargeInv, Kept
  <2>2. CASE dev[Sync_Counter] # "none"
    BY <1>0, <1>1, <2>2 DEF Calm, ChargeInv, Kept
  <2> QED BY <2>1, <2>2
<1>6. CloudInv'
  BY <1>0, <1>1, <1>2 DEF Calm, CloudInv
<1>7. WalkInv'
  <2>1. \A s \in Mains : Done(s) => Done(s)'
    BY <1>0, <1>2 DEF Done
  <2>2. \A s \in Mains : Excused(s) => Excused(s)'
    BY <1>1 DEF Excused
  <2>3. \A s \in Mains : s > Sync_Counter => Done(s)' \/ Excused(s)'
    BY <1>0, <2>1, <2>2 DEF Calm, WalkInv
  <2>4. dev[Sync_Counter] = "none" => Mains = {}
    <3> SUFFICES ASSUME dev[Sync_Counter] = "none", NEW s \in Mains PROVE FALSE
      OBVIOUS
    <3>1. Sync_Counter = Num /\ Below(Num) = {}
      BY <1>0, MainFacts DEF Calm, PlaceInv
    <3>2. s # Num /\ s \in Nat /\ s <= Num
      BY <3>1, MainFacts, Numbers
    <3> QED BY <3>1, <3>2, MainFacts, Numbers
  <2> QED BY <1>0, <1>1, <2>3, <2>4 DEF WalkInv
<1> QED BY <1>3, <1>4, <1>5, <1>6, <1>7 DEF Calm

LEMMA CalmAsk ==
  ASSUME BoundInv, disturb = 0, Calm, Ask
  PROVE  Calm'
<1> USE DEF walkVars, ghostVars, listVars, Waiting, AtWork, Active
<1>0. /\ UNCHANGED <<dev, Sync_Counter, Sync_Start, SyncRetry, sem, timer,
                     heard, requests, wifi_connected, Remote_Device, cloud, due>>
      /\ pc = "ask" /\ pc' = "wait" /\ sem = 0 /\ timer = Off /\ Sync_Recv' = FALSE
      /\ target' = Sync_Counter /\ SyncRetry[Sync_Counter] < Retries
  BY CalmFacts DEF Ask
<1>1. Mains' = Mains /\ \A n : Below(n)' = Below(n)
  BY <1>0, SameMains
<1>2. Sync_Counter \in Slots /\ Sync_Counter \in Nat /\ Retries \in Nat /\ SyncRetry[Sync_Counter] \in Nat
  BY CalmFacts, Numbers
<1>3. /\ asks'[Sync_Counter] = SyncRetry[Sync_Counter] + 1
      /\ \A s \in Slots : s # Sync_Counter => asks'[s] = asks[s]
  <2>1. asks[Sync_Counter] = SyncRetry[Sync_Counter]
    BY <1>0, <1>2, CalmFacts DEF Calm, ChargeInv, Kept
  <2> QED BY <1>0, <1>2, <2>1, CalmFacts DEF Ask
<1>4. PlaceInv'
  <2>1. talk' > 0 => dev[Sync_Counter] = "main"
    BY DEF Ask
  <2>2. talk' > 0 => Sync_Counter \in Mains
    BY <1>2, <2>1 DEF Mains
  <2> QED BY <1>0, <1>1, <1>2, <2>2 DEF Calm, PlaceInv
<1>5. HeardInv'
  BY <1>0 DEF Calm, HeardInv
<1>6. ChargeInv'
  <2>1. \A s \in Slots : s < Sync_Counter \/ dev[s] = "none" => asks'[s] = 0
    BY <1>0, <1>2, <1>3 DEF Calm, ChargeInv, PlaceInv
  <2> QED BY <1>0, <1>1, <1>3, <2>1 DEF Calm, ChargeInv, Kept
<1>7. CloudInv'
  BY <1>0, <1>1 DEF Calm, CloudInv
<1>8. WalkInv'
  <2>1. \A s \in Mains : s > Sync_Counter => s # Sync_Counter /\ s \in Slots
    BY <1>2, MainFacts
  <2>2. \A s \in Mains : s > Sync_Counter /\ Done(s) => Done(s)'
    BY <1>0, <1>3, <2>1 DEF Done
  <2> QED BY <1>0, <1>1, <2>2 DEF Calm, WalkInv, Excused
<1> QED BY <1>4, <1>5, <1>6, <1>7, <1>8 DEF Calm

(* A controller whose answers have been missing Retries times.             *)
LEMMA CalmExhausted ==
  ASSUME BoundInv, disturb = 0, Calm, Exhausted
  PROVE  Calm'
<1> USE DEF walkVars, ghostVars, listVars, Waiting, AtWork, Active
<1>0. /\ UNCHANGED <<dev, Sync_Start, Sync_Recv, target, talk,
                     asks, heard, requests, wifi_connected, Remote_Device, cloud, due>>
      /\ pc = "ask" /\ pc' = "take" /\ sem = 0 /\ timer = Off /\ timer' = Off
  BY CalmFacts DEF Exhausted
<1>1. Mains' = Mains /\ \A n : Below(n)' = Below(n)
  BY <1>0, SameMains
<1>2. /\ Sync_Counter \in Slots /\ Sync_Counter \in Nat /\ SyncRetry[Sync_Counter] = Retries
      /\ Retries \in Nat /\ Retries >= 1
  <2>1. Sync_Counter \in Slots /\ SyncRetry[Sync_Counter] \in 0 .. Retries
    BY CalmFacts
  <2>2. Sync_Counter \in Nat /\ Retries \in Nat /\ Retries >= 1
    BY <2>1, Numbers
  <2>3. SyncRetry[Sync_Counter] >= Retries
    BY DEF Exhausted
  <2> QED BY <2>1, <2>2, <2>3
<1>3. /\ asks[Sync_Counter] = Retries \/ (asks[Sync_Counter] = 0 /\ Below(Sync_Counter) # {})
      /\ Sync_Counter \in Mains => Sync_Counter \in cloud
  BY <1>0, <1>2 DEF Calm, ChargeInv, Kept, CloudInv
<1>4. CloudInv'
  BY <1>0 DEF Calm, CloudInv
<1>5. CASE Below(Sync_Counter) # {}
  <2>1. /\ sem' = 1 /\ SyncRetry' = SyncRetry /\ Sync_Counter' \in Mains /\ Sync_Counter' \in Slots
        /\ Sync_Counter' < Sync_Counter /\ Sync_Counter' \in Nat
        /\ \A s \in Mains : s > Sync_Counter' => s >= Sync_Counter
    <3>1. sem' = 1 /\ SyncRetry' = SyncRetry /\ Sync_Counter' = Get_Next_Main(Sync_Counter)
      BY <1>0, <1>5 DEF Exhausted
    <3>2. /\ Sync_Counter' \in Mains /\ Sync_Counter' \in Slots /\ Sync_Counter' < Sync_Counter
          /\ \A s \in Mains : s > Sync_Counter' => s >= Sync_Counter
      BY <1>2, <1>5, <3>1, NextMain
    <3> QED BY <3>1, <3>2, Numbers
  <2>2. \A s \in Slots : s \in Nat
    BY Numbers
  <2>3. PlaceInv'
    BY <1>0, <1>1, <2>1 DEF Calm, PlaceInv
  <2>4. HeardInv'
    <3>1. \A s \in heard : s \in Nat /\ s >= Sync_Counter
      BY <2>2 DEF Calm, HeardInv, BoundInv, Shape, WalkShape
    <3>2. \A s \in heard : s > Sync_Counter'
      BY <1>2, <2>1, <3>1
    <3> QED BY <1>0, <2>1, <3>1, <3>2 DEF HeardInv
  <2>5. ChargeInv'
    <3>1. \A s \in Slots : s < Sync_Counter' => s < Sync_Counter
      BY <1>2, <2>1, <2>2
    <3>2. \A s \in Slots : Kept(s)'
      BY <1>1, <1>2, <1>5, <2>1 DEF Calm, ChargeInv, Kept
    <3>3. asks[Sync_Counter'] = 0
      BY <2>1 DEF Calm, ChargeInv
    <3> QED BY <1>0, <2>1, <3>1, <3>2, <3>3 DEF Calm, ChargeInv
  <2>6. WalkInv'
    <3>1. \A s \in Mains : s > Sync_Counter' => s = Sync_Counter \/ s > Sync_Counter
      BY <1>2, <2>1, MainFacts
    <3>2. \A s \in Mains : Done(s) => Done(s)'
      BY <1>0, <2>1 DEF Done
    <3>3. Sync_Counter \in Mains => Done(Sync_Counter)
      BY <1>2, <1>3 DEF Done
    <3>4. \A s \in Mains : s > Sync_Counter' => Done(s)' \/ Excused(s)'
      BY <1>0, <1>1, <3>1, <3>2, <3>3 DEF Calm, WalkInv, Excused
    <3>5. Active'
      BY <2>1
    <3> QED BY <1>1, <3>4, <3>5 DEF WalkInv
  <2> QED BY <1>4, <2>3, <2>4, <2>5, <2>6 DEF Calm
<1>6. CASE Below(Sync_Counter) = {}
  <2>1. /\ sem' = 0 /\ Sync_Counter' = Sync_Counter
        /\ SyncRetry' = [SyncRetry EXCEPT ![Sync_Counter] = 0]
    BY <1>0, <1>6 DEF Exhausted
  <2>2. /\ SyncRetry'[Sync_Counter] = 0
        /\ \A s \in Slots : s # Sync_Counter => SyncRetry'[s] = SyncRetry[s]
    BY <1>2, <2>1, CalmFacts
  <2>3. PlaceInv' /\ HeardInv'
    BY <1>0, <1>1, <2>1 DEF Calm, PlaceInv, HeardInv
  <2>4. ChargeInv'
    <3>1. \A s \in Slots : Kept(s)'
      BY <1>1, <2>1, <2>2 DEF Calm, ChargeInv, Kept
    <3> QED BY <1>0, <2>1, <3>1 DEF Calm, ChargeInv
  <2>5. WalkInv'
    <3>1. \A s \in Mains : s \in Slots /\ (s = Sync_Counter \/ s > Sync_Counter)
      BY <1>2, <1>6, MainFacts
    <3>2. \A s \in Mains : s > Sync_Counter => Done(s)' \/ Excused(s)'
      <4>1. \A s \in Mains : s > Sync_Counter => s # Sync_Counter
        BY <1>2, MainFacts
      <4>2. \A s \in Mains : s > Sync_Counter /\ Done(s) => Done(s)'
        BY <1>0, <2>2, <3>1, <4>1 DEF Done
      <4>3. \A s \in Mains : Excused(s) => Excused(s)'
        BY <1>1 DEF Excused
      <4> QED BY <1>0, <4>2, <4>3 DEF Calm, WalkInv
    <3>3. Sync_Counter \in Mains => Done(Sync_Counter)'
      BY <1>0, <1>3, <1>6, <2>1 DEF Done
    <3> QED BY <1>0, <1>1, <2>1, <3>1, <3>2, <3>3 DEF WalkInv
  <2> QED BY <1>4, <2>3, <2>4, <2>5 DEF Calm
<1> QED BY <1>5, <1>6

LEMMA CalmWaited ==
  ASSUME BoundInv, disturb = 0, Calm, Waited
  PROVE  Calm'
<1> USE DEF walkVars, ghostVars, listVars, Waiting, AtWork, Active
<1>0. /\ UNCHANGED <<dev, Sync_Counter, Sync_Start, Sync_Recv, timer, target, talk,
                     asks, heard, requests, wifi_connected, Remote_Device, cloud, due>>
      /\ pc = "wait" /\ pc' = "take"
  BY DEF Waited
<1>1. Mains' = Mains /\ \A n : Below(n)' = Below(n)
  BY <1>0, SameMains
<1>2. CASE Sync_Recv
  <2>1. UNCHANGED <<SyncRetry, sem>>
    BY <1>2 DEF Waited
  <2>2. PlaceInv'
    BY <1>0, <1>1, <1>2, <2>1 DEF Calm, PlaceInv
  <2>3. HeardInv'
    BY <1>0, <1>2, <2>1 DEF Calm, HeardInv
  <2>4. ChargeInv'
    BY <1>0, <1>1, <1>2, <2>1 DEF Calm, ChargeInv, Kept
  <2>5. CloudInv'
    BY <1>0, <1>1, <1>2 DEF Calm, CloudInv
  <2>6. WalkInv'
    BY <1>0, <1>1, <1>2, <2>1 DEF Calm, WalkInv, Done, Excused
  <2> QED BY <2>2, <2>3, <2>4, <2>5, <2>6 DEF Calm
<1>3. CASE ~Sync_Recv
  <2>1. sem = 0 /\ sem' = 1 /\ timer = Off /\ Sync_Counter = target
    BY <1>0, <1>3, CalmFacts DEF Waited, Calm, PlaceInv
  <2>2. /\ SyncRetry'[Sync_Counter] = SyncRetry[Sync_Counter] + 1
        /\ \A s \in Slots : s # Sync_Counter => SyncRetry'[s] = SyncRetry[s]
    BY <1>3, CalmFacts DEF Waited
  <2>3. PlaceInv' /\ HeardInv' /\ CloudInv'
    BY <1>0, <1>1, <1>3, <2>1 DEF Calm, PlaceInv, HeardInv, CloudInv
  <2>4. ChargeInv'
    <3>1. asks[Sync_Counter] = SyncRetry'[Sync_Counter]
      BY <1>0, <1>3, <2>2 DEF Calm, ChargeInv
    <3>2. \A s \in Slots : s # Sync_Counter => Kept(s)'
      BY <1>1, <2>2 DEF Calm, ChargeInv, Kept
    <3>3. SyncRetry'[Sync_Counter] + 0 = SyncRetry'[Sync_Counter]
      <4>1. SyncRetry[Sync_Counter] \in Nat
        BY CalmFacts
      <4> QED BY <2>2, <4>1
    <3> QED BY <1>0, <2>1, <3>1, <3>2, <3>3 DEF Calm, ChargeInv
  <2>5. WalkInv'
    <3>1. \A s \in Mains : s > Sync_Counter => s \in Slots /\ s # Sync_Counter
      BY CalmFacts, Numbers, MainFacts
    <3>2. \A s \in Mains : s > Sync_Counter => Done(s)' \/ Excused(s)'
      BY <1>0, <1>1, <1>3, <2>2, <3>1 DEF Calm, WalkInv, Done, Excused
    <3> QED BY <1>0, <1>1, <2>1, <3>2 DEF WalkInv
  <2> QED BY <2>3, <2>4, <2>5 DEF Calm
<1> QED BY <1>2, <1>3

(* The timer has run down after the last message of the controller.        *)
LEMMA CalmTimer ==
  ASSUME BoundInv, disturb = 0, Calm, Sync_Timeout_Callback
  PROVE  Calm'
<1> USE DEF walkVars, ghostVars, listVars, Waiting, AtWork, Active
<1>0. /\ UNCHANGED <<dev, Sync_Recv, SyncRetry, pc, target, talk,
                     asks, heard, requests, wifi_connected, Remote_Device, cloud, due>>
      /\ timer # Off /\ timer' = Off
  BY DEF Sync_Timeout_Callback, Off
<1>1. Mains' = Mains /\ \A n : Below(n)' = Below(n)
  BY <1>0, SameMains
<1>2. /\ Sync_Counter \in Slots /\ Sync_Counter \in Nat /\ SyncRetry[Sync_Counter] = 0
      /\ Sync_Counter = target /\ Sync_Counter \in Mains /\ Done(Sync_Counter) /\ sem = 0 /\ ~AtWork
  BY <1>0, CalmFacts, Numbers DEF Calm, PlaceInv, ChargeInv, HeardInv, CloudInv, Done
<1>3. \A s \in Mains : Done(s) => Done(s)'
  BY <1>0 DEF Done
<1>4. \A s \in Slots : Kept(s)'
  BY <1>0, <1>1, <1>2 DEF Calm, ChargeInv, Kept
<1>5. CloudInv'
  BY <1>0, <1>2 DEF Calm, CloudInv
<1>6. CASE Below(Sync_Counter) # {}
  <2>1. /\ sem' = 1 /\ Sync_Counter' \in Mains /\ Sync_Counter' \in Slots
        /\ Sync_Counter' < Sync_Counter /\ Sync_Counter' \in Nat /\ Sync_Start' = Sync_Start
        /\ \A s \in Mains : s > Sync_Counter' => s >= Sync_Counter
    <3>1. sem' = 1 /\ Sync_Counter' = Get_Next_Main(Sync_Counter) /\ Sync_Start' = Sync_Start
      BY <1>2, <1>6 DEF Sync_Timeout_Callback
    <3>2. /\ Sync_Counter' \in Mains /\ Sync_Counter' \in Slots /\ Sync_Counter' < Sync_Counter
          /\ \A s \in Mains : s > Sync_Counter' => s >= Sync_Counter
      BY <1>2, <1>6, <3>1, NextMain
    <3> QED BY <3>1, <3>2, Numbers
  <2>2. \A s \in Slots : s \in Nat
    BY Numbers
  <2>3. PlaceInv'
    BY <1>0, <1>1, <1>2, <2>1 DEF Calm, PlaceInv
  <2>4. HeardInv'
    <3>1. \A s \in heard : s \in Nat /\ s >= Sync_Counter
      BY <2>2 DEF Calm, HeardInv, BoundInv, Shape, WalkShape
    <3>2. \A s \in heard : s > Sync_Counter'
      BY <1>2, <2>1, <3>1
    <3> QED BY <1>0, <2>1, <3>1, <3>2 DEF HeardInv
  <2>5. ChargeInv'
    <3>1. \A s \in Slots : s < Sync_Counter' => s < Sync_Counter
      BY <1>2, <2>1, <2>2
    <3>2. asks[Sync_Counter'] = 0
      BY <2>1 DEF Calm, ChargeInv
    <3> QED BY <1>0, <1>2, <1>4, <2>1, <3>1, <3>2 DEF Calm, ChargeInv
  <2>6. WalkInv'
    <3>1. \A s \in Mains : s > Sync_Counter' => s = Sync_Counter \/ s > Sync_Counter
      BY <1>2, <2>1, MainFacts
    <3>2. \A s \in Mains : s > Sync_Counter' => Done(s)' \/ Excused(s)'
      BY <1>0, <1>1, <1>2, <1>3, <3>1 DEF Calm, WalkInv, Excused
    <3>3. Active'
      BY <2>1
    <3> QED BY <1>1, <3>2, <3>3 DEF WalkInv
  <2> QED BY <1>5, <2>3, <2>4, <2>5, <2>6 DEF Calm
<1>7. CASE Below(Sync_Counter) = {}
  <2>1. sem' = 0 /\ Sync_Counter' = Sync_Counter /\ Sync_Start' = FALSE
    BY <1>2, <1>7 DEF Sync_Timeout_Callback
  <2>2. PlaceInv' /\ HeardInv'
    BY <1>0, <1>1, <1>2, <2>1 DEF Calm, PlaceInv, HeardInv
  <2>3. ChargeInv'
    BY <1>0, <1>2, <1>4, <2>1 DEF Calm, ChargeInv
  <2>4. WalkInv'
    <3>1. \A s \in Mains : s = Sync_Counter \/ s > Sync_Counter
      BY <1>2, <1>7, MainFacts
    <3>2. \A s \in Mains : Done(s)' \/ Excused(s)'
      BY <1>0, <1>1, <1>2, <1>3, <3>1 DEF Calm, WalkInv, Excused
    <3> QED BY <1>0, <1>1, <1>2, <2>1, <3>2 DEF WalkInv
  <2> QED BY <1>5, <2>2, <2>3, <2>4 DEF Calm
<1> QED BY <1>6, <1>7

(* The controller that was asked answers, or says more.                    *)
LEMMA CalmAnswer ==
  ASSUME BoundInv, disturb = 0, Calm, Answer
  PROVE  Calm'
<1> USE DEF Waiting, AtWork, Active
<1>0. /\ UNCHANGED <<dev, Sync_Counter, Sync_Start, sem, pc, target, asks,
                     requests, wifi_connected, Remote_Device, cloud, due>>
      /\ heard' = heard \cup {Sync_Counter} /\ Sync_Counter = target /\ talk > 0 /\ talk' = talk - 1
      /\ pc = "wait" \/ timer # Off
      /\ Sync_Refresh
  BY DEF Answer, listVars
<1>1. Mains' = Mains /\ \A n : Below(n)' = Below(n)
  BY <1>0, SameMains
<1>2. Sync_Counter \in Slots /\ Sync_Counter \in Nat /\ target \in Mains /\ sem = 0 /\ talk \in Nat
  <2>1. Sync_Counter \in Slots /\ Sync_Counter \in Nat /\ talk \in Nat
    BY CalmFacts, Numbers DEF BoundInv, Shape, WalkShape
  <2>2. target \in Mains
    BY <1>0 DEF Calm, PlaceInv
  <2>3. sem = 0
    BY <1>0, <2>1, CalmFacts DEF Calm, PlaceInv
  <2> QED BY <2>1, <2>2, <2>3
<1>3. talk' > 0 => talk > 0
  BY <1>0
<1>4. CASE ~Sync_Start
  <2>1. UNCHANGED <<Sync_Recv, SyncRetry, timer>> /\ ~Active /\ timer = Off
    BY <1>0, <1>2, <1>4 DEF Sync_Refresh, Calm, PlaceInv
  <2>2. PlaceInv'
    BY <1>0, <1>1, <1>2, <1>3, <1>4, <2>1 DEF Calm, PlaceInv
  <2>3. HeardInv'
    BY <1>0, <1>2, <2>1 DEF Calm, HeardInv
  <2>4. ChargeInv'
    BY <1>0, <1>1, <2>1 DEF Calm, ChargeInv, Kept
  <2>5. CloudInv'
    BY <1>0, <1>1, <2>1 DEF Calm, CloudInv
  <2>6. WalkInv'
    BY <1>0, <1>1, <2>1 DEF Calm, WalkInv, Done, Excused
  <2> QED BY <2>2, <2>3, <2>4, <2>5, <2>6 DEF Calm
<1>5. CASE Sync_Start
  <2>1. /\ Sync_Recv' = TRUE /\ timer' # Off
        /\ SyncRetry' = [SyncRetry EXCEPT ![Sync_Counter] = 0]
    BY <1>0, <1>5, Numbers DEF Sync_Refresh, Off
  <2>2. /\ SyncRetry'[Sync_Counter] = 0
        /\ \A s \in Slots : s # Sync_Counter => SyncRetry'[s] = SyncRetry[s]
    BY <1>2, <2>1, CalmFacts
  <2>3. Waiting \/ timer # Off
    BY <1>0, <1>5 DEF Calm, PlaceInv, BoundInv, Shape, WalkShape
  <2>4. ~AtWork'
    BY <1>0, <2>1, <2>3, CalmFacts
  <2>5. PlaceInv'
    BY <1>0, <1>1, <1>2, <1>3, <1>5, <2>1, <2>4 DEF Calm, PlaceInv
  <2>6. HeardInv'
    BY <1>0, <1>2, <2>4 DEF Calm, HeardInv
  <2>7. ChargeInv'
    <3>1. \A s \in Slots : s # Sync_Counter => Kept(s)'
      BY <1>1, <2>2 DEF Calm, ChargeInv, Kept
    <3> QED BY <1>0, <1>2, <2>1, <2>2, <2>4, <3>1 DEF Calm, ChargeInv
  <2>8. CloudInv'
    BY <1>0, <1>1, <2>3 DEF Calm, CloudInv
  <2>9. WalkInv'
    <3>1. \A s \in Mains : s > Sync_Counter => s \in Slots /\ s # Sync_Counter
      BY <1>2, MainFacts
    <3>2. \A s \in Mains : s > Sync_Counter /\ Done(s) => Done(s)'
      BY <1>0, <2>2, <3>1 DEF Done
    <3>3. \A s \in Mains : Excused(s) => Excused(s)'
      BY <1>1 DEF Excused
    <3>4. \A s \in Mains : s > Sync_Counter => Done(s)' \/ Excused(s)'
      BY <2>3, <3>2, <3>3 DEF Calm, WalkInv
    <3>5. Active'
      BY <2>1
    <3> QED BY <1>0, <1>1, <3>4, <3>5 DEF WalkInv
  <2> QED BY <2>5, <2>6, <2>7, <2>8, <2>9 DEF Calm
<1> QED BY <1>4, <1>5 DEF BoundInv, Shape, WalkShape

(* The cloud's list: what it names the cloud knows, and its last package   *)
(* starts the walk.                                                        *)
LEMMA CloudTake ==
  ASSUME BoundInv, disturb = 0, Calm, NEW memory \in BOOLEAN, TakePackage(memory)
  PROVE  /\ \A s \in Slots : Remote_Device'[s] > 0 => s \in cloud'
         /\ \A i \in 1 .. Len(due') : due'[i].named \subseteq cloud'
         /\ due' # <<>> => ~due'[Len(due')].more
         /\ Head(due).more => due' # <<>>
         /\ UNCHANGED cloud
<1>1. due \in Seq(PackageSet) /\ due # <<>> /\ due' = Tail(due) /\ cloud' = cloud
  BY DEF BoundInv, Shape, ListShape, TakePackage
<1>2. Len(due) \in Nat /\ Len(due) >= 1 /\ Head(due) = due[1] /\ Len(due') = Len(due) - 1
  BY <1>1
<1>3. \A i \in 1 .. Len(due') : due'[i] = due[i + 1] /\ i + 1 \in 1 .. Len(due)
  BY <1>1, <1>2
<1>4. \A i \in 1 .. Len(due') : due'[i].named \subseteq cloud'
  BY <1>1, <1>3 DEF Calm, CloudInv
<1>5. due' \in Seq(PackageSet)
  BY <1>1
<1>6. due' # <<>> => Len(due') \in 1 .. Len(due') /\ Len(due') + 1 = Len(due)
  BY <1>2, <1>5
<1>7. due' # <<>> => ~due'[Len(due')].more
  BY <1>1, <1>3, <1>6 DEF Calm, CloudInv
<1>8. Head(due).more => due' # <<>>
  <2>1. Len(due) = 1 => ~Head(due).more
    BY <1>1, <1>2 DEF Calm, CloudInv
  <2>2. due' = <<>> => Len(due) = 1
    BY <1>2
  <2> QED BY <2>1, <2>2
<1>9. \A s \in Slots : Remote_Device'[s] > 0 => s \in cloud'
  <2>1. Head(due).named \subseteq cloud
    BY <1>2 DEF Calm, CloudInv
  <2>2. \A s \in Slots : Remote_Device'[s] = Remote_Device[s] \/ s \in Head(due).named
    BY EntryNumbers DEF TakePackage, BoundInv
  <2> QED BY <1>1, <2>1, <2>2 DEF Calm, CloudInv
<1> QED BY <1>1, <1>4, <1>7, <1>8, <1>9

LEMMA CalmRequest ==
  ASSUME BoundInv, disturb = 0, Calm, NEW memory \in BOOLEAN, TakePackage(memory),
         Quiet, Sync_Request, UNCHANGED <<dev, requests>>
  PROVE  Calm'
<1> USE DEF Waiting, AtWork, Active
<1>0. /\ UNCHANGED <<dev, Sync_Start, Sync_Recv, SyncRetry, pc, target, talk, requests, cloud>>
      /\ pc = "take" /\ sem = 0 /\ sem' = 1 /\ timer = Off /\ timer' = Off
      /\ asks' = [s \in Slots |-> 0] /\ heard' = {}
      /\ Sync_Counter' = GoOn(Num)
  BY DEF Sync_Request, Quiet, TakePackage
<1>1. Mains' = Mains /\ \A n : Below(n)' = Below(n)
  BY <1>0, SameMains
<1>2. Sync_Counter' \in Slots /\ Num \in Slots /\ Num \in Nat
  BY <1>0, GoOnType, Numbers
<1>3. /\ Below(Num) = {} => Sync_Counter' = Num
      /\ Below(Num) # {} => /\ Sync_Counter' \in Mains
                            /\ \A s \in Mains : s > Sync_Counter' => s >= Num
  BY <1>0, <1>2, NextMain DEF GoOn
<1>4. PlaceInv'
  BY <1>0, <1>1, <1>3 DEF Calm, PlaceInv
<1>5. HeardInv'
  BY <1>0 DEF HeardInv
<1>6. ChargeInv'
  <2>1. \A s \in Slots : Kept(s)' /\ asks'[s] = 0
    BY <1>0, <1>1 DEF Calm, ChargeInv, Kept
  <2> QED BY <1>0, <1>2, <2>1 DEF ChargeInv
<1>7. CloudInv'
  BY <1>0, CloudTake DEF CloudInv
<1>8. WalkInv'
  <2>1. \A s \in Mains : s \in Nat /\ s <= Num
    BY MainFacts, Numbers
  <2>2. \A s \in Mains : s > Sync_Counter' => Excused(s)'
    BY <1>1, <1>2, <1>3, <2>1 DEF Excused
  <2>3. Active'
    BY <1>0
  <2> QED BY <1>1, <2>2, <2>3 DEF WalkInv
<1> QED BY <1>4, <1>5, <1>6, <1>7, <1>8 DEF Calm

(* Thread and timer do not move; only what is on the way from the cloud    *)
(* changes.                                                                *)
LEMMA CalmStill ==
  ASSUME Calm, UNCHANGED <<dev, walkVars, sem, timer, pc, left, ghostVars, cloud>>,
         CloudInv', due' = <<>> /\ requests' > 0 => due = <<>> /\ requests > 0
  PROVE  Calm'
<1> USE DEF walkVars, ghostVars, Waiting, AtWork, Active
<1>1. Mains' = Mains /\ \A n : Below(n)' = Below(n)
  BY SameMains
<1>2. PlaceInv'
  BY <1>1 DEF Calm, PlaceInv
<1>3. HeardInv'
  BY DEF Calm, HeardInv
<1>4. ChargeInv'
  BY <1>1 DEF Calm, ChargeInv, Kept
<1>5. WalkInv'
  BY <1>1 DEF Calm, WalkInv, Done, Excused
<1> QED BY <1>2, <1>3, <1>4, <1>5 DEF Calm

LEMMA CalmList ==
  ASSUME BoundInv, disturb = 0, disturb' = 0, Calm, local_subdev_list
  PROVE  Calm'
<1>1. PICK memory \in BOOLEAN :
        /\ TakePackage(memory)
        /\ \/ Sync_Request
           \/ Head(due).more /\ UNCHANGED <<walkVars, sem, timer, pc, left, ghostVars, disturb>>
  BY DEF local_subdev_list
<1>2. UNCHANGED <<dev, requests>>
  BY DEF local_subdev_list
<1>3. CASE Sync_Request
  <2>1. Quiet
    BY <1>3 DEF Sync_Request, Undisturbed
  <2> QED BY <1>1, <1>2, <1>3, <2>1, CalmRequest
<1>4. CASE Head(due).more /\ UNCHANGED <<walkVars, sem, timer, pc, left, ghostVars, disturb>>
  <2>1. CloudInv'
    <3>1. Mains' = Mains /\ UNCHANGED <<pc, Sync_Recv, timer, Sync_Counter>>
      BY <1>2, <1>4, SameMains DEF walkVars
    <3> QED BY <1>1, <3>1, CloudTake DEF Calm, CloudInv, Waiting
  <2>2. due' # <<>> /\ cloud' = cloud
    BY <1>1, <1>4, CloudTake
  <2> QED BY <1>2, <1>4, <2>1, <2>2, CalmStill
<1> QED BY <1>1, <1>3, <1>4

LEMMA CalmConnect ==
  ASSUME BoundInv, disturb = 0, disturb' = 0, Calm, wifi_status_change
  PROVE  Calm'
<1>0. UNCHANGED <<dev, walkVars, sem, timer, pc, left, ghostVars, cloud>>
  BY DEF wifi_status_change, Connected, Disconnected
<1>1. Mains' = Mains /\ UNCHANGED <<pc, Sync_Recv, timer, Sync_Counter>>
  BY <1>0, SameMains DEF walkVars
<1>2. CASE Disconnected /\ UNCHANGED requests
  <2>1. UNCHANGED <<due, Remote_Device>>
    BY <1>2 DEF Disconnected
  <2>2. CloudInv'
    BY <1>0, <1>1, <2>1 DEF Calm, CloudInv, Waiting
  <2> QED BY <1>0, <1>2, <2>1, <2>2, CalmStill
<1>3. CASE Connected /\ Undisturbed(due = <<>>)
  <2>1. due = <<>>
    BY <1>3 DEF Undisturbed
  <2>2. PICK answer \in Lists : due' = due \o answer
    BY <1>3 DEF Connected
  <2>3. due' = answer /\ answer # <<>> /\ ~answer[Len(answer)].more /\ \A i \in 1 .. Len(answer) : answer[i].named \subseteq cloud
    <3>1. CASE answer = <<Package(cloud, FALSE)>>
      BY <2>1, <2>2, <3>1 DEF Package
    <3>2. ASSUME NEW t, answer = <<Package(Before(t), TRUE), Package(cloud \ Before(t), FALSE)>>
          PROVE  /\ due' = answer /\ answer # <<>> /\ ~answer[Len(answer)].more
                 /\ \A i \in 1 .. Len(answer) : answer[i].named \subseteq cloud
      BY <2>1, <2>2, <3>2 DEF Package, Before
    <3> QED BY <3>1, <3>2 DEF Lists
  <2>4. \A s \in Slots : Remote_Device'[s] = 0
    BY <1>3 DEF Connected
  <2>5. CloudInv'
    BY <1>0, <1>1, <2>3, <2>4 DEF Calm, CloudInv, Waiting
  <2> QED BY <1>0, <2>3, <2>5, CalmStill
<1> QED BY <1>2, <1>3 DEF wifi_status_change

(* Only a step outside the protocol counts in disturb, and none takes back. *)
LEMMA CalmBefore ==
  ASSUME Shape, Shape', [Next]_vars, disturb' = 0
  PROVE  disturb = 0
<1>1. disturb \in Nat
  BY DEF Shape, WalkShape
<1>2. disturb' = disturb \/ disturb' = disturb + 1
  BY TokenStep DEF CalmStep, FreshStep, RoughStep
<1> QED BY <1>1, <1>2

LEMMA CalmStep_Kept ==
  ASSUME BoundInv, BoundInv', [Next]_vars, CalmInv
  PROVE  CalmInv'
<1> SUFFICES ASSUME disturb' = 0 PROVE Calm'
  BY DEF CalmInv
<1>1. disturb = 0 /\ Calm
  BY CalmBefore DEF BoundInv, CalmInv
<1>2. CASE Sync_t
  BY <1>1, <1>2, CalmTake, CalmSettled, CalmAsk, CalmExhausted, CalmWaited DEF Sync_t
<1>3. CASE Disturb
  BY <1>1, <1>3 DEF Disturb
<1>4. CASE UNCHANGED vars
  <2>1. /\ UNCHANGED <<dev, walkVars, sem, timer, pc, left, ghostVars, cloud>>
        /\ UNCHANGED <<due, requests, Remote_Device>>
    BY <1>4 DEF vars, listVars
  <2>2. Mains' = Mains /\ UNCHANGED <<pc, Sync_Recv, timer, Sync_Counter>>
    BY <2>1, SameMains DEF walkVars
  <2>3. CloudInv'
    BY <1>1, <2>1, <2>2 DEF Calm, CloudInv, Waiting
  <2> QED BY <1>1, <2>1, <2>3, CalmStill
<1> QED BY <1>1, <1>2, <1>3, <1>4, CalmList, CalmConnect, CalmTimer, CalmAnswer, CalmTick
     DEF Next

LEMMA CalmStart == Init => CalmInv
<1> SUFFICES ASSUME Init PROVE Calm
  BY DEF CalmInv
<1> USE DEF Waiting, AtWork, Active
<1>0. /\ pc = "take" /\ sem = 0 /\ timer = Off /\ talk = 0 /\ requests = 0 /\ heard = {}
      /\ \A s \in Slots : SyncRetry[s] = 0 /\ asks[s] = 0
  BY DEF Init
<1>1. PlaceInv
  BY <1>0 DEF PlaceInv
<1>2. HeardInv
  BY <1>0 DEF HeardInv
<1>3. ChargeInv
  BY <1>0 DEF ChargeInv, Kept
<1>4. CloudInv
  <2>1. due = <<>> /\ \A s \in Slots : Remote_Device[s] = 0
    BY DEF Init, ListInit
  <2> QED BY <1>0, <2>1 DEF CloudInv
<1>5. WalkInv
  BY <1>0 DEF WalkInv
<1> QED BY <1>1, <1>2, <1>3, <1>4, <1>5 DEF Calm

LEMMA Calms == Spec => [](BoundInv /\ CalmInv)
<1>1. BoundInv /\ BoundInv' /\ CalmInv /\ [Next]_vars => CalmInv'
  BY CalmStep_Kept
<1> QED BY <1>1, Bounds, CalmStart, PTL DEF Spec

-----------------------------------------------------------------------------
(* When a synchronisation is over and nothing disturbed it, every          *)
(* controller has answered or was asked Retries times, and the cloud knows *)
(* it; for every registry, list of the cloud and order of late answers.    *)
THEOREM SyncAllAsked == Spec => []AllAsked
<1>1. CalmInv => AllAsked
  <2> SUFFICES ASSUME CalmInv, Quiet, requests > 0, due = <<>>, disturb = 0,
                      NEW s \in Mains
               PROVE  \/ /\ s \in cloud
                         /\ \/ s \in heard \/ asks[s] = Retries
                            \/ asks[s] = 0 /\ SyncRetry[s] = Retries
                      \/ s = Num /\ Below(Num) # {}
    BY DEF AllAsked
  <2>1. ~Active
    BY DEF Quiet, Active, AtWork
  <2>2. Done(s) \/ Excused(s)
    BY <2>1 DEF CalmInv, Calm, WalkInv
  <2> QED BY <2>2 DEF Done, Excused
<1> QED BY <1>1, Calms, PTL

(* In an undisturbed synchronisation a missing answer is charged to the    *)
(* controller that was asked, and nobody who has answered is asked again.  *)
LEMMA ChargedStep ==
  ASSUME BoundInv, BoundInv', CalmInv, [Next]_vars, disturb' = 0, NEW s \in Slots
  PROVE  /\ SyncRetry'[s] > SyncRetry[s] => s = target
         /\ asks'[s] > asks[s] => s \notin heard
<1> USE DEF walkVars, ghostVars
<1>1. disturb = 0 /\ Calm
  BY CalmBefore DEF BoundInv, CalmInv
<1>2. SyncRetry \in [Slots -> Nat] /\ SyncRetry[s] \in Nat /\ Sync_Counter \in Slots
  BY DEF BoundInv, Shape, WalkShape
<1>3. asks \in [Slots -> Nat] /\ asks[s] \in Nat
  BY Numbers DEF BoundInv, Shape, WalkShape
<1>4. CASE SyncRetry' = SyncRetry /\ asks' = asks
  BY <1>2, <1>3, <1>4
<1>5. CASE Ask
  <2>1. SyncRetry' = SyncRetry /\ (s # Sync_Counter => asks'[s] = asks[s])
    BY <1>3, <1>5 DEF Ask
  <2>2. Sync_Counter \notin heard
    BY <1>1, <1>5 DEF Ask, Calm, HeardInv, AtWork
  <2> QED BY <1>2, <1>3, <2>1, <2>2
<1>6. CASE Waited
  <2>1. asks' = asks /\ (s # Sync_Counter => SyncRetry'[s] = SyncRetry[s])
    BY <1>2, <1>6 DEF Waited
  <2>2. Sync_Recv => SyncRetry' = SyncRetry
    BY <1>6 DEF Waited
  <2>3. ~Sync_Recv => Sync_Counter = target
    BY <1>1, <1>6 DEF Waited, Calm, PlaceInv, Waiting
  <2> QED BY <1>2, <1>3, <2>1, <2>2, <2>3
<1>7. CASE Exhausted \/ Answer
  <2>1. asks' = asks /\ (SyncRetry'[s] = SyncRetry[s] \/ SyncRetry'[s] = 0)
    BY <1>2, <1>7 DEF Exhausted, Answer, Sync_Refresh
  <2> QED BY <1>2, <1>3, <2>1
<1>8. CASE local_subdev_list
  <2>1. SyncRetry' = SyncRetry /\ (asks' = asks \/ asks'[s] = 0)
    BY <1>8 DEF local_subdev_list, Sync_Request
  <2> QED BY <1>2, <1>3, <2>1
<1>9. CASE Take \/ Settled \/ wifi_status_change \/ Sync_Timeout_Callback \/ Tick \/ UNCHANGED vars
  BY <1>4, <1>9 DEF Take, Settled, wifi_status_change, Sync_Timeout_Callback, Tick, vars
<1>10. ~Disturb
  BY <1>1 DEF Disturb
<1> QED BY <1>5, <1>6, <1>7, <1>8, <1>9, <1>10 DEF Next, Sync_t

(* The wait of Sync_t and the timer that moves Sync_Counter do not get in  *)
(* each other's way: who is charged is who was asked.                      *)
THEOREM SyncChargesAsked == Spec => ChargesAsked
<1>1. BoundInv /\ BoundInv' /\ CalmInv /\ [Next]_vars =>
        [disturb' = 0 =>
           \A s \in Slots : /\ SyncRetry'[s] > SyncRetry[s] => s = target
                            /\ asks'[s] > asks[s] => s \notin heard]_vars
  BY ChargedStep
<1> QED BY <1>1, Calms, PTL DEF Spec, ChargesAsked
=============================================================================
