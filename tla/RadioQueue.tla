----------------------------- MODULE RadioQueue -----------------------------
(***************************************************************************)
(* The transmit queue of the 433 MHz radio (radio/Radio_Encoder.c).        *)
(*                                                                         *)
(* RadioEnqueue and GatewayDataEnqueue append a message at TargetNum + 1;  *)
(* the thread Radio_Queue433 sends the messages NowNum + 1 .. TargetNum    *)
(* and rewinds both indices to 0 when it has caught up.  Nothing guards    *)
(* Queue_433: what keeps it consistent is the RT-Thread scheduler, which   *)
(* never runs a thread while one of higher priority is ready.  A step here *)
(* is one access to a shared index, or to the part of a slot that says     *)
(* whom a message is for (head) or what it says (body).                    *)
(***************************************************************************)
EXTENDS Integers, Sequences, FiniteSets

CONSTANTS
  Producers,   \* threads that enqueue
  Prio,        \* RT-Thread priority of each of them: a smaller number first
  QueuePrio,   \* priority of Radio_Queue433
  Limit,       \* TargetNum at which the queue is full (30)
  Size,        \* size of the arrays of Radio_Queue (50; slot 0 is unused)
  MaxMsgs      \* bound: how many messages are offered to the queue

ASSUME PrioAssumption == Prio \in [Producers -> Nat] /\ QueuePrio \in Nat
(* rf_433_task and wifi-service enqueue with priority 8, heart and sync    *)
(* with 10, Radio_Queue433 has 9: at most two producers share a priority,  *)
(* and the queue thread shares its priority with none of them.             *)
ASSUME PairAssumption ==
  /\ \A p \in Producers : Prio[p] # QueuePrio
  /\ \A p, q, r \in Producers :
       Prio[p] = Prio[q] /\ Prio[q] = Prio[r] => p = q \/ q = r \/ p = r
ASSUME QueueSizes ==
  /\ Limit \in Nat \ {0} /\ Size \in Nat /\ MaxMsgs \in Nat
  /\ IsFiniteSet(Producers) /\ Limit + Cardinality(Producers) <= Size

Slots == 1 .. Size - 1
Msgs  == 1 .. MaxMsgs     \* numbered in the order in which they are offered

VARIABLES
  NowNum, TargetNum, slot,  \* Queue_433; slot 0 never holds a message
  pp, idx, ld, msg,         \* where a producer is; NumTemp; the loaded index
  cp, due,                  \* where Radio_Queue433 is, and whom it sleeps for
  offered, sent             \* messages offered so far; those put on the air

queueVars    == <<NowNum, TargetNum, slot>>
producerVars == <<pp, idx, ld, msg>>
vars == <<NowNum, TargetNum, slot, pp, idx, ld, msg, cp, due, offered, sent>>

TypeOK ==
  /\ NowNum \in 0 .. Size - 1
  /\ TargetNum \in 0 .. Size - 1
  /\ slot \in [Slots -> [head : Msgs \cup {0}, body : Msgs \cup {0}]]
  /\ pp \in [Producers -> {"idle", "head", "body", "load", "store"}]
  /\ idx \in [Producers -> 0 .. Limit]
  /\ ld \in [Producers -> 0 .. Size - 1]
  /\ msg \in [Producers -> 0 .. MaxMsgs]
  /\ cp \in {"sleep", "reset", "send"}
  /\ due \subseteq Producers
  /\ offered \in 0 .. MaxMsgs
  /\ sent \in Seq([head : Msgs \cup {0}, body : Msgs \cup {0}])

-----------------------------------------------------------------------------
(* The scheduler.                                                          *)

Busy == {p \in Producers : pp[p] # "idle"}

(* No thread of a higher priority than n is in the middle of something.    *)
MayRun(n) ==
  /\ \A p \in Busy : Prio[p] >= n
  /\ cp = "reset" => QueuePrio >= n

(* A sleep of the queue thread, 50 ms at least, outlasts every enqueueing  *)
(* that is under way when it begins.                                       *)
Sleep(l) == cp' = l /\ due' = Busy
Awake    == due = {} /\ MayRun(QueuePrio)

-----------------------------------------------------------------------------
(* RadioEnqueue and GatewayDataEnqueue in thread p.                        *)

Goto(p, l) == pp' = [pp EXCEPT ![p] = l]

(* Variation of Enqueue: the queue is never full.                          *)
Enqueue_NoLimit(p) ==
  /\ pp[p] = "idle" /\ MayRun(Prio[p]) /\ offered < MaxMsgs
  /\ offered' = offered + 1
  /\ idx' = [idx EXCEPT ![p] = TargetNum + 1]
  /\ msg' = [msg EXCEPT ![p] = offered + 1]
  /\ Goto(p, "head")
  /\ UNCHANGED <<queueVars, ld, cp, due, sent>>

Enqueue(p) ==
  /\ pp[p] = "idle" /\ MayRun(Prio[p]) /\ offered < MaxMsgs
  /\ offered' = offered + 1
  /\ \/ /\ TargetNum < Limit
        /\ idx' = [idx EXCEPT ![p] = TargetNum + 1]
        /\ msg' = [msg EXCEPT ![p] = offered + 1]
        /\ Goto(p, "head")
     \/ /\ TargetNum >= Limit         \* Queue is Full
        /\ UNCHANGED <<pp, idx, msg>>
  /\ UNCHANGED <<queueVars, ld, cp, due, sent>>

WriteHead(p) ==
  /\ pp[p] = "head" /\ MayRun(Prio[p])
  /\ slot' = [slot EXCEPT ![idx[p]].head = msg[p]]
  /\ Goto(p, "body")
  /\ UNCHANGED <<NowNum, TargetNum, idx, ld, msg, cp, due, offered, sent>>

WriteBody(p) ==
  /\ pp[p] = "body" /\ MayRun(Prio[p])
  /\ slot' = [slot EXCEPT ![idx[p]].body = msg[p]]
  /\ Goto(p, "load")
  /\ UNCHANGED <<NowNum, TargetNum, idx, ld, msg, cp, due, offered, sent>>

LoadTarget(p) ==
  /\ pp[p] = "load" /\ MayRun(Prio[p])
  /\ ld' = [ld EXCEPT ![p] = TargetNum]
  /\ Goto(p, "store")
  /\ UNCHANGED <<queueVars, idx, msg, cp, due, offered, sent>>

StoreTarget(p) ==
  /\ pp[p] = "store" /\ MayRun(Prio[p])
  /\ TargetNum' = ld[p] + 1
  /\ Goto(p, "idle")
  /\ due' = due \ {p}
  /\ UNCHANGED <<NowNum, slot, idx, ld, msg, cp, offered, sent>>

-----------------------------------------------------------------------------
(* RadioDequeue.                                                           *)

(* Variations of Rewind and ResetTarget: only one of the two indices goes  *)
(* back to 0.                                                              *)
Rewind_KeepNow ==
  /\ cp = "sleep" /\ Awake
  /\ NowNum = TargetNum
  /\ cp' = "reset"
  /\ UNCHANGED <<queueVars, producerVars, due, offered, sent>>

ResetTarget_Kept ==
  /\ cp = "reset" /\ MayRun(QueuePrio)
  /\ Sleep("sleep")
  /\ UNCHANGED <<queueVars, producerVars, offered, sent>>

Rewind ==
  /\ cp = "sleep" /\ Awake
  /\ NowNum = TargetNum
  /\ NowNum' = 0
  /\ cp' = "reset"
  /\ UNCHANGED <<TargetNum, slot, producerVars, due, offered, sent>>

ResetTarget ==
  /\ cp = "reset" /\ MayRun(QueuePrio)
  /\ TargetNum' = 0
  /\ Sleep("sleep")
  /\ UNCHANGED <<NowNum, slot, producerVars, offered, sent>>

Advance ==
  /\ cp = "sleep" /\ Awake
  /\ TargetNum > NowNum
  /\ NowNum' = NowNum + 1
  /\ Sleep("send")
  /\ UNCHANGED <<TargetNum, slot, producerVars, offered, sent>>

(* RadioSend and GatewayDataSend.                                          *)
Send ==
  /\ cp = "send" /\ Awake
  /\ sent' = Append(sent, slot[NowNum])
  /\ Sleep("sleep")
  /\ UNCHANGED <<queueVars, producerVars, offered>>

-----------------------------------------------------------------------------
Init ==
  /\ NowNum = 0 /\ TargetNum = 0
  /\ slot = [s \in Slots |-> [head |-> 0, body |-> 0]]
  /\ pp = [p \in Producers |-> "idle"]
  /\ idx = [p \in Producers |-> 0]
  /\ ld = [p \in Producers |-> 0]
  /\ msg = [p \in Producers |-> 0]
  /\ cp = "sleep" /\ due = {}
  /\ offered = 0 /\ sent = <<>>

Produce(p) ==
  Enqueue(p) \/ WriteHead(p) \/ WriteBody(p) \/ LoadTarget(p) \/ StoreTarget(p)

RadioDequeue == Rewind \/ ResetTarget \/ Advance \/ Send

Next == RadioDequeue \/ \E p \in Producers : Produce(p)

(* A thread that is ready runs sooner or later once those of higher        *)
(* priority are done; whether a thread has anything to send is up to it.   *)
Spec ==
  /\ Init /\ [][Next]_vars
  /\ WF_vars(RadioDequeue)
  /\ \A p \in Producers : WF_vars(Produce(p) /\ pp[p] # "idle")

-----------------------------------------------------------------------------
(* Properties.                                                             *)

(* The queue thread never gets ahead of the producers, which would silence *)
(* the radio until they had caught up with it: lost updates of TargetNum   *)
(* by producers that overtake one another never leave it below NowNum.     *)
NoStall == NowNum <= TargetNum

(* So far only p has enqueued, and the queue thread cannot preempt it.     *)
Alone(p) ==
  Prio[p] < QueuePrio /\ \A q \in Producers \ {p} : pp[q] = "idle" /\ msg[q] = 0

(* As long as one thread of higher priority enqueues, what goes on the air *)
(* is what was enqueued, whole, once and in the order in which it was      *)
(* enqueued (messages may be missing: they are refused when the queue is   *)
(* full, or rewound before they are sent).                                 *)
SentInOrder ==
  (\E p \in Producers : Alone(p)) =>
    \A i \in 1 .. Len(sent) :
      /\ sent[i].head = sent[i].body /\ sent[i].head # 0
      /\ \A j \in 1 .. i - 1 : sent[j].head < sent[i].head

(* The queue thread catches up again and again.                            *)
Drains == []<>(NowNum = TargetNum)
=============================================================================
