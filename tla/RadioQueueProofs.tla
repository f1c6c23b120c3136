-------------------------- MODULE RadioQueueProofs --------------------------
(***************************************************************************)
(* Proofs about the transmit queue, for any producers of which at most two *)
(* share a priority, any limit, size and number of messages.               *)
(***************************************************************************)
EXTENDS RadioQueue, FiniteSetTheorems, TLAPS

(* The types, without the sizes of the arrays.                             *)
Shape ==
  /\ NowNum \in Nat /\ TargetNum \in Nat /\ offered \in Nat
  /\ pp \in [Producers -> {"idle", "head", "body", "load", "store"}]
  /\ ld \in [Producers -> Nat] /\ msg \in [Producers -> Nat]
  /\ cp \in {"sleep", "reset", "send"}

(* A producer in the middle of an enqueueing has a message.  It has begun  *)
(* after the sleep of the queue thread, or the sleep waits for it.         *)
DueInv ==
  /\ due \subseteq Busy
  /\ cp = "reset" => NowNum = 0
  /\ cp = "send" => NowNum >= 1
  /\ \A p \in Busy : msg[p] # 0

(* What a producer has loaded is at least NowNum; if the queue thread has  *)
(* gone on since, it has gone on by one.                                   *)
LoadInv ==
  \A p \in Producers : pp[p] = "store" => ld[p] >= IF p \in due THEN NowNum - 1 ELSE NowNum

(* Producers whose priority is at least that of p, and p's own.            *)
Rank(p)      == Cardinality({q \in Producers : Prio[q] <= Prio[p]})
HasRival(p)  == \E q \in Producers \ {p} : Prio[q] = Prio[p]
Contested(p) == \E q \in Busy \ {p} : Prio[q] = Prio[p]

(* How far TargetNum may have come while p enqueues: the producers of      *)
(* higher priority and its rival have raised it, each at most once above   *)
(* the limit.                                                              *)
Cap(p)  == Limit + Rank(p) - (IF Contested(p) THEN 3 ELSE 2)

CapInv ==
  \A p \in Busy : TargetNum <= Cap(p) /\ (pp[p] = "store" => ld[p] <= Cap(p))

(* p has loaded so much that its rival must not begin before p has stored  *)
(* it: TargetNum is still above the limit, and neither another producer    *)
(* nor the queue thread is about to lower it.                              *)
Full(p) == pp[p] = "store" /\ HasRival(p) /\ ld[p] > Limit + Rank(p) - 3

FullInv ==
  \A p \in Producers : Full(p) =>
    /\ TargetNum >= Limit
    /\ \A q \in Busy \ {p} : Prio[q] > Prio[p]
    /\ cp = "reset" => Prio[p] < QueuePrio

(* A producer that has begun during the sleep of the queue thread found    *)
(* the queue below its limit.                                              *)
BehindInv == \A p \in Busy \ due : NowNum < Limit

-----------------------------------------------------------------------------
(* The steps of the producers keep the queue thread behind them.           *)

BaseInv == Shape /\ DueInv /\ LoadInv /\ NoStall

LEMMA ProducerBase ==
  ASSUME BaseInv, NEW p \in Producers, Produce(p)
  PROVE  BaseInv'
<1> USE DEF BaseInv, Shape, DueInv, LoadInv, NoStall, Busy, queueVars, Goto
<1>1. CASE Enqueue(p)
  BY <1>1 DEF Enqueue
<1>2. CASE WriteHead(p)
  BY <1>2 DEF WriteHead
<1>3. CASE WriteBody(p)
  BY <1>3 DEF WriteBody
<1>4. CASE LoadTarget(p)
  BY <1>4 DEF LoadTarget
<1>5. CASE StoreTarget(p)
  BY <1>5 DEF StoreTarget
<1> QED BY <1>1, <1>2, <1>3, <1>4, <1>5 DEF Produce

LEMMA DequeueBase ==
  ASSUME BaseInv, RadioDequeue
  PROVE  BaseInv'
<1> USE DEF BaseInv, Shape, DueInv, LoadInv, NoStall, Busy, queueVars, producerVars, Sleep, Awake
<1>1. CASE Rewind
  BY <1>1 DEF Rewind
<1>2. CASE ResetTarget
  BY <1>2 DEF ResetTarget
<1>3. CASE Advance
  BY <1>3 DEF Advance
<1>4. CASE Send
  BY <1>4 DEF Send
<1> QED BY <1>1, <1>2, <1>3, <1>4 DEF RadioDequeue

LEMMA BaseStep == BaseInv /\ [Next]_vars => BaseInv'
<1> SUFFICES ASSUME BaseInv, [Next]_vars PROVE BaseInv'
  OBVIOUS
<1>1. CASE UNCHANGED vars
  BY <1>1 DEF vars, BaseInv, Shape, DueInv, LoadInv, NoStall, Busy
<1> QED BY <1>1, ProducerBase, DequeueBase DEF Next

LEMMA BaseStart == Init => BaseInv
BY DEF Init, BaseInv, Shape, DueInv, LoadInv, NoStall, Busy

LEMMA Base == Spec => []BaseInv
BY BaseStart, BaseStep, PTL DEF Spec

(* However many producers overwrite each other's increments of TargetNum,  *)
(* and wherever Radio_Queue433 rewinds, NowNum never gets above TargetNum: *)
(* the radio does not fall silent.                                         *)
THEOREM QueueNoStall == Spec => []NoStall
<1>1. BaseInv => NoStall
  BY DEF BaseInv
<1> QED BY <1>1, Base, PTL

-----------------------------------------------------------------------------
(* Ranks.                                                                  *)
LEMMA RankType ==
  ASSUME NEW p \in Producers
  PROVE  Rank(p) \in Nat /\ 1 <= Rank(p) /\ Rank(p) <= Cardinality(Producers)
<1> DEFINE A == {q \in Producers : Prio[q] <= Prio[p]}
<1>1. p \in A /\ A \in SUBSET Producers
  BY PrioAssumption
<1>2. IsFiniteSet(Producers)
  BY QueueSizes
<1>3. IsFiniteSet(A) /\ Cardinality(A) <= Cardinality(Producers)
  BY <1>1, <1>2, FS_Subset
<1>4. {p} \in SUBSET A /\ Cardinality({p}) = 1
  BY <1>1, FS_Singleton
<1>5. 1 <= Cardinality(A)
  BY <1>3, <1>4, FS_Subset
<1>6. Cardinality(A) \in Nat /\ Rank(p) = Cardinality(A)
  BY <1>3, FS_CardinalityType DEF Rank
<1> QED BY <1>3, <1>5, <1>6

(* Those of higher priority have lower ranks, by two where there are       *)
(* rivals.                                                                 *)
LEMMA RankBelow ==
  ASSUME NEW p \in Producers, NEW q \in Producers, Prio[q] < Prio[p]
  PROVE  Rank(q) + (IF HasRival(p) THEN 2 ELSE 1) <= Rank(p)
<1> DEFINE A == {r \in Producers : Prio[r] <= Prio[p]}
           B == {r \in Producers : Prio[r] <= Prio[q]}
<1>0. \A r \in Producers : Prio[r] \in Nat
  BY PrioAssumption
<1>1. IsFiniteSet(A) /\ Cardinality(A) \in Nat
  <2>1. A \in SUBSET Producers /\ IsFiniteSet(Producers)
    BY QueueSizes
  <2> QED BY <2>1, FS_Subset, FS_CardinalityType
<1>2. p \in A /\ B \in SUBSET (A \ {p})
  BY <1>0
<1>3. IsFiniteSet(A \ {p}) /\ Cardinality(A \ {p}) = Cardinality(A) - 1
  BY <1>1, <1>2, FS_RemoveElement
<1>4. CASE ~HasRival(p)
  <2>1. Cardinality(B) <= Cardinality(A) - 1
    BY <1>2, <1>3, FS_Subset
  <2>2. IsFiniteSet(B) /\ Cardinality(B) \in Nat
    BY <1>2, <1>3, FS_Subset, FS_CardinalityType
  <2> QED BY <1>1, <1>4, <2>1, <2>2 DEF Rank
<1>5. CASE HasRival(p)
  <2>1. PICK r \in Producers \ {p} : Prio[r] = Prio[p]
    BY <1>5 DEF HasRival
  <2>2. r \in A \ {p} /\ B \in SUBSET ((A \ {p}) \ {r})
    BY <1>0, <1>2, <2>1
  <2>3. IsFiniteSet((A \ {p}) \ {r}) /\ Cardinality((A \ {p}) \ {r}) = Cardinality(A) - 2
    BY <1>1, <1>3, <2>2, FS_RemoveElement
  <2>4. IsFiniteSet(B) /\ Cardinality(B) \in Nat /\ Cardinality(B) <= Cardinality(A) - 2
    BY <2>2, <2>3, FS_Subset, FS_CardinalityType
  <2> QED BY <1>1, <1>5, <2>4 DEF Rank
<1> QED BY <1>4, <1>5

LEMMA RankRival ==
  ASSUME NEW p \in Producers, NEW q \in Producers \ {p}, Prio[q] = Prio[p]
  PROVE  Rank(q) = Rank(p) /\ Rank(p) >= 2 /\ HasRival(p)
<1> DEFINE A == {r \in Producers : Prio[r] <= Prio[p]}
<1>1. IsFiniteSet(A) /\ Cardinality(A) \in Nat
  <2>1. A \in SUBSET Producers /\ IsFiniteSet(Producers)
    BY QueueSizes
  <2> QED BY <2>1, FS_Subset, FS_CardinalityType
<1>2. p \in A /\ q \in A \ {p} /\ {q} \in SUBSET (A \ {p})
  BY PrioAssumption
<1>3. IsFiniteSet(A \ {p}) /\ Cardinality(A \ {p}) = Cardinality(A) - 1
  BY <1>1, <1>2, FS_RemoveElement
<1>4. Cardinality({q}) = 1 /\ Cardinality({q}) <= Cardinality(A \ {p})
  BY <1>2, <1>3, FS_Subset, FS_Singleton
<1>5. Cardinality(A) >= 2
  BY <1>1, <1>3, <1>4
<1> QED BY <1>5 DEF Rank, HasRival

-----------------------------------------------------------------------------
(* How far TargetNum can come.                                             *)

LevelInv == CapInv /\ FullInv /\ BehindInv

LEMMA Facts ==
  /\ Limit \in Nat /\ Limit >= 1
  /\ \A p \in Producers : Prio[p] \in Nat /\ Rank(p) \in Nat /\ Rank(p) >= 1
BY PrioAssumption, QueueSizes, RankType

(* Steps during which no enqueueing begins or ends, nothing is loaded and  *)
(* TargetNum does not change.                                              *)
LEMMA LevelSame ==
  ASSUME LevelInv, UNCHANGED <<TargetNum, ld>>, Busy' = Busy,
         \A q \in Producers : pp'[q] = "store" => pp[q] = "store",
         cp' = "reset" => cp = "reset",
         (NowNum' = NowNum /\ due' = due) \/ due' = Busy
  PROVE  LevelInv'
<1>1. \A p \in Producers : Contested(p)' = Contested(p) /\ Cap(p)' = Cap(p)
  BY DEF Contested, Cap
<1>2. CapInv'
  BY <1>1 DEF LevelInv, CapInv, Busy
<1>3. \A p \in Producers : Full(p)' => Full(p)
  BY DEF Full
<1>4. FullInv'
  BY <1>3 DEF LevelInv, FullInv
<1>5. BehindInv'
  BY DEF LevelInv, BehindInv
<1> QED BY <1>2, <1>4, <1>5 DEF LevelInv

(* p begins: TargetNum is below the limit, so that no rival holds more     *)
(* than its cap from now on.                                               *)
LEMMA LevelEnqueue ==
  ASSUME BaseInv, LevelInv, NEW p \in Producers, Enqueue(p)
  PROVE  LevelInv'
<1> USE Facts
<1>1. CASE TargetNum >= Limit
  <2>1. UNCHANGED <<TargetNum, ld, pp, cp, NowNum, due>>
    BY <1>1 DEF Enqueue, BaseInv, Shape, queueVars
  <2> QED BY <2>1, LevelSame DEF Busy
<1>2. CASE TargetNum < Limit
  <2>1. /\ UNCHANGED <<TargetNum, ld, cp, NowNum, due>> /\ pp' = [pp EXCEPT ![p] = "head"]
        /\ pp[p] = "idle" /\ \A q \in Busy : Prio[q] >= Prio[p]
    BY <1>2 DEF Enqueue, BaseInv, Shape, queueVars, Goto, MayRun
  <2>2. Busy' = Busy \cup {p} /\ p \notin Busy
    BY <2>1 DEF Busy, BaseInv, Shape
  <2>3. \A q \in Producers : pp'[q] = "store" => pp[q] = "store" /\ q \in Busy
    BY <2>1 DEF BaseInv, Shape, Busy
  <2>4. \A q \in Producers : ~Full(q)
    BY <1>2 DEF LevelInv, FullInv, BaseInv, Shape
  <2>5. CapInv'
    <3> SUFFICES ASSUME NEW q \in Busy'
                 PROVE  TargetNum' <= Cap(q)' /\ (pp'[q] = "store" => ld'[q] <= Cap(q)')
      BY DEF CapInv
    <3>0. q \in Producers
      BY DEF Busy
    <3>1. CASE Contested(q)'
      <4>1. PICK r \in Busy' \ {q} : Prio[r] = Prio[q]
        BY <3>1 DEF Contested
      <4>2. r \in Producers \ {q} /\ Rank(q) >= 2 /\ HasRival(q)
        BY <3>0, <4>1, RankRival DEF Busy
      <4>3. Cap(q)' = Limit + Rank(q) - 3
        BY <3>1 DEF Cap
      <4>4. TargetNum' <= Cap(q)'
        BY <1>2, <2>1, <3>0, <4>2, <4>3 DEF BaseInv, Shape
      <4>5. pp'[q] = "store" => ld'[q] <= Cap(q)'
        BY <2>1, <2>3, <2>4, <3>0, <4>2, <4>3 DEF Full, BaseInv, Shape
      <4> QED BY <4>4, <4>5
    <3>2. CASE ~Contested(q)'
      <4>1. Cap(q)' = Limit + Rank(q) - 2
        BY <3>2 DEF Cap
      <4>2. pp'[q] = "store" => ld'[q] <= Limit + Rank(q) - 2
        BY <2>1, <2>3, <3>0 DEF LevelInv, CapInv, Cap, BaseInv, Shape
      <4> QED BY <1>2, <2>1, <3>0, <4>1, <4>2 DEF BaseInv, Shape
    <3> QED BY <3>1, <3>2
  <2>6. FullInv'
    BY <2>1, <2>3, <2>4 DEF FullInv, Full
  <2>7. BehindInv'
    BY <1>2, <2>1, <2>2 DEF LevelInv, BehindInv, BaseInv, Shape, NoStall
  <2> QED BY <2>5, <2>6, <2>7 DEF LevelInv
<1> QED BY <1>1, <1>2 DEF BaseInv, Shape

(* p loads TargetNum, which is below its cap.                              *)
LEMMA LevelLoad ==
  ASSUME BaseInv, LevelInv, NEW p \in Producers, LoadTarget(p)
  PROVE  LevelInv'
<1> USE Facts
<1>1. /\ UNCHANGED <<TargetNum, cp, NowNum, due>> /\ ld' = [ld EXCEPT ![p] = TargetNum]
      /\ pp' = [pp EXCEPT ![p] = "store"] /\ pp[p] = "load"
      /\ \A q \in Busy : Prio[q] >= Prio[p]
      /\ cp = "reset" => QueuePrio >= Prio[p]
  BY DEF LoadTarget, queueVars, Goto, MayRun
<1>2. Busy' = Busy /\ p \in Busy
  BY <1>1 DEF Busy, BaseInv, Shape
<1>3. \A q \in Producers : Contested(q)' = Contested(q) /\ Cap(q)' = Cap(q)
  BY <1>2 DEF Contested, Cap
<1>4. \A q \in Producers : q # p => ld'[q] = ld[q] /\ pp'[q] = pp[q]
  BY <1>1 DEF BaseInv, Shape
<1>5. ld'[p] = TargetNum /\ pp'[p] = "store"
  BY <1>1 DEF BaseInv, Shape
<1>6. CapInv'
  BY <1>1, <1>2, <1>3, <1>4, <1>5 DEF LevelInv, CapInv, Busy
<1>7. ASSUME NEW q \in Producers, Full(q)'
      PROVE  /\ TargetNum >= Limit
             /\ \A r \in Busy \ {q} : Prio[r] > Prio[q]
             /\ cp = "reset" => Prio[q] < QueuePrio
  <2>1. CASE q # p
    BY <1>4, <1>7, <2>1 DEF LevelInv, FullInv, Full
  <2>2. CASE q = p
    <3>1. HasRival(p) /\ TargetNum > Limit + Rank(p) - 3
      BY <1>5, <1>7, <2>2 DEF Full
    <3>2. PICK r \in Producers \ {p} : Prio[r] = Prio[p]
      BY <3>1 DEF HasRival
    <3>3. TargetNum >= Limit
      BY <3>1, <3>2, RankRival DEF BaseInv, Shape
    <3>4. ~Contested(p)
      BY <1>2, <3>1 DEF LevelInv, CapInv, Cap, BaseInv, Shape
    <3>5. \A t \in Busy \ {p} : Prio[t] > Prio[p]
      BY <1>1, <3>4 DEF Contested, Busy
    <3>6. cp = "reset" => Prio[p] < QueuePrio
      BY <1>1, PairAssumption, PrioAssumption
    <3> QED BY <2>2, <3>3, <3>5, <3>6
  <2> QED BY <2>1, <2>2
<1>8. FullInv'
  BY <1>1, <1>2, <1>7 DEF FullInv
<1>9. BehindInv'
  BY <1>1, <1>2 DEF LevelInv, BehindInv
<1> QED BY <1>6, <1>8, <1>9 DEF LevelInv

(* p stores what it has loaded, plus one.                                  *)
LEMMA LevelStore ==
  ASSUME BaseInv, LevelInv, NEW p \in Producers, StoreTarget(p)
  PROVE  LevelInv' /\ TargetNum' <= Limit + Rank(p) - 1
<1> USE Facts
<1>1. /\ UNCHANGED <<ld, cp, NowNum>> /\ TargetNum' = ld[p] + 1 /\ due' = due \ {p}
      /\ pp' = [pp EXCEPT ![p] = "idle"] /\ pp[p] = "store"
      /\ \A q \in Busy : Prio[q] >= Prio[p]
  BY DEF StoreTarget, Goto, MayRun
<1>2. Busy' = Busy \ {p} /\ p \in Busy
  BY <1>1 DEF Busy, BaseInv, Shape
<1>3. \A q \in Producers : q # p => pp'[q] = pp[q]
  BY <1>1 DEF BaseInv, Shape
<1>4. ld[p] \in Nat /\ ld[p] <= Cap(p)
  BY <1>1, <1>2 DEF LevelInv, CapInv, BaseInv, Shape
<1>5. TargetNum' <= Limit + Rank(p) - 1
  BY <1>1, <1>4 DEF Cap
<1>6. CapInv'
  <2> SUFFICES ASSUME NEW q \in Busy'
               PROVE  TargetNum' <= Cap(q)' /\ (pp'[q] = "store" => ld'[q] <= Cap(q)')
    BY DEF CapInv
  <2>0. q \in Producers \ {p} /\ q \in Busy /\ p \in Producers
    BY <1>2 DEF Busy
  <2>1. Contested(q)' => Contested(q)
    BY <1>2 DEF Contested
  <2>2. Cap(q) <= Cap(q)' /\ Cap(q) \in Int /\ Cap(q)' \in Int
    BY <2>0, <2>1 DEF Cap
  <2>3. pp'[q] = "store" => ld'[q] <= Cap(q)'
    BY <1>1, <1>3, <2>0, <2>2 DEF LevelInv, CapInv, BaseInv, Shape
  <2>4. CASE Prio[q] = Prio[p]
    <3>1. Contested(p)
      BY <2>0, <2>4 DEF Contested
    <3>2. ~Contested(q)'
      BY <1>2, <2>0, <2>4, PairAssumption DEF Contested, Busy
    <3>3. Rank(q) = Rank(p)
      BY <2>0, <2>4, RankRival
    <3> QED BY <1>1, <1>4, <2>0, <2>3, <3>1, <3>2, <3>3 DEF Cap
  <2>5. CASE Prio[q] # Prio[p]
    <3>1. Prio[p] < Prio[q]
      BY <1>1, <2>0, <2>5
    <3>2. Rank(p) + (IF HasRival(q) THEN 2 ELSE 1) <= Rank(q)
      BY <2>0, <3>1, RankBelow
    <3>3. Contested(q)' => HasRival(q)
      BY <1>2, <2>0 DEF Contested, HasRival, Busy
    <3> QED BY <1>5, <1>1, <1>4, <2>0, <2>3, <3>2, <3>3 DEF Cap
  <2> QED BY <2>4, <2>5
<1>7. FullInv'
  <2> SUFFICES ASSUME NEW q \in Producers, Full(q)'
               PROVE  FALSE
    BY DEF FullInv
  <2>1. q # p /\ Full(q) /\ q \in Busy
    BY <1>1, <1>3 DEF Full, BaseInv, Shape, Busy
  <2>2. Prio[p] > Prio[q]
    BY <1>2, <2>1 DEF LevelInv, FullInv
  <2> QED BY <1>1, <2>1, <2>2
<1>8. BehindInv'
  BY <1>1, <1>2 DEF LevelInv, BehindInv
<1> QED BY <1>5, <1>6, <1>7, <1>8 DEF LevelInv

(* The queue thread lowers TargetNum only when nobody is full.             *)
LEMMA LevelDequeue ==
  ASSUME BaseInv, LevelInv, RadioDequeue
  PROVE  LevelInv'
<1> USE Facts DEF queueVars, producerVars
<1>0. Busy' = Busy /\ UNCHANGED <<pp, ld>>
  BY DEF RadioDequeue, Rewind, ResetTarget, Advance, Send, Busy
<1>1. CASE Advance \/ Send
  <2>1. UNCHANGED TargetNum /\ cp' # "reset" /\ due' = Busy
    BY <1>1 DEF Advance, Send, Sleep
  <2> QED BY <1>0, <2>1, LevelSame
<1>2. \A p \in Producers : Contested(p)' = Contested(p) /\ Cap(p)' = Cap(p)
  BY <1>0 DEF Contested, Cap
<1>3. \A p \in Producers : Full(p)' => Full(p)
  BY <1>0 DEF Full
<1>4. CASE Rewind
  <2>1. due = {} /\ NowNum = TargetNum /\ NowNum' = 0 /\ UNCHANGED <<TargetNum, due>>
    BY <1>4 DEF Rewind, Awake
  <2>2. \A p \in Producers : ~Full(p)
    <3> SUFFICES ASSUME NEW p \in Producers, Full(p) PROVE FALSE
      OBVIOUS
    <3>1. p \in Busy \ due
      BY <2>1 DEF Full, Busy
    <3>2. NowNum < Limit /\ TargetNum >= Limit
      BY <3>1 DEF LevelInv, BehindInv, FullInv
    <3> QED BY <2>1, <3>2 DEF BaseInv, Shape
  <2>3. CapInv' /\ FullInv'
    BY <1>0, <1>2, <1>3, <2>1, <2>2 DEF LevelInv, CapInv, FullInv, Busy
  <2>4. BehindInv'
    BY <2>1 DEF BehindInv
  <2> QED BY <2>3, <2>4 DEF LevelInv
<1>5. CASE ResetTarget
  <2>1. /\ cp = "reset" /\ TargetNum' = 0 /\ due' = Busy /\ cp' = "sleep"
        /\ \A p \in Busy : Prio[p] >= QueuePrio
    BY <1>5 DEF ResetTarget, Sleep, MayRun
  <2>2. \A p \in Producers : ~Full(p)
    <3> SUFFICES ASSUME NEW p \in Producers, Full(p) PROVE FALSE
      OBVIOUS
    <3>1. p \in Busy /\ Prio[p] < QueuePrio
      BY <2>1 DEF Full, Busy, LevelInv, FullInv
    <3> QED BY <2>1, <3>1, PrioAssumption
  <2>3. FullInv' /\ BehindInv'
    BY <1>0, <1>3, <2>1, <2>2 DEF FullInv, BehindInv
  <2>4. CapInv'
    <3> SUFFICES ASSUME NEW q \in Busy
                 PROVE  0 <= Cap(q) /\ (pp[q] = "store" => ld[q] <= Cap(q))
      BY <1>0, <1>2, <2>1 DEF CapInv, Busy
    <3>1. TargetNum <= Cap(q) /\ q \in Producers
      BY DEF LevelInv, CapInv, Busy
    <3> QED BY <3>1 DEF LevelInv, CapInv, BaseInv, Shape, Cap
  <2> QED BY <2>3, <2>4 DEF LevelInv
<1> QED BY <1>1, <1>4, <1>5 DEF RadioDequeue

LEMMA LevelStep == BaseInv /\ LevelInv /\ [Next]_vars => LevelInv'
<1> SUFFICES ASSUME BaseInv, LevelInv, [Next]_vars PROVE LevelInv'
  OBVIOUS
<1>1. CASE UNCHANGED vars
  BY <1>1, LevelSame DEF vars, Busy
<1>2. ASSUME NEW p \in Producers, WriteHead(p) \/ WriteBody(p)
      PROVE  LevelInv'
  <2>1. UNCHANGED <<TargetNum, ld, cp, NowNum, due>>
    BY <1>2 DEF WriteHead, WriteBody
  <2>2. Busy' = Busy /\ \A q \in Producers : pp'[q] = "store" => pp[q] = "store"
    BY <1>2 DEF WriteHead, WriteBody, Goto, Busy, BaseInv, Shape
  <2> QED BY <2>1, <2>2, LevelSame
<1> QED BY <1>1, <1>2, LevelEnqueue, LevelLoad, LevelStore, LevelDequeue DEF Next, Produce

-----------------------------------------------------------------------------
(* Types.                                                                  *)

Message == [head : Msgs \cup {0}, body : Msgs \cup {0}]

LEMMA ProducerTyped ==
  ASSUME TypeOK, BaseInv, LevelInv, NEW p \in Producers, Produce(p), BaseInv'
  PROVE  TypeOK'
<1> USE QueueSizes DEF TypeOK, queueVars, Goto
<1>0. msg[p] \in Msgs \cup {0} /\ slot \in [Slots -> Message]
  BY DEF Msgs, Message
<1>1. CASE Enqueue(p)
  <2>1. offered' \in 0 .. MaxMsgs /\ offered + 1 \in 0 .. MaxMsgs
    BY <1>1 DEF Enqueue
  <2>2. TargetNum < Limit => TargetNum + 1 \in 0 .. Limit
    OBVIOUS
  <2>3. /\ pp' \in [Producers -> {"idle", "head", "body", "load", "store"}]
        /\ idx' \in [Producers -> 0 .. Limit] /\ msg' \in [Producers -> 0 .. MaxMsgs]
    BY <1>1, <2>1, <2>2 DEF Enqueue
  <2>4. UNCHANGED <<NowNum, TargetNum, slot, ld, cp, due, sent>>
    BY <1>1 DEF Enqueue
  <2> QED BY <2>1, <2>3, <2>4
<1>2. CASE WriteHead(p)
  <2>1. slot' \in [Slots -> Message]
    BY <1>0, <1>2 DEF WriteHead, Message
  <2>2. UNCHANGED <<NowNum, TargetNum, idx, ld, msg, cp, due, offered, sent>>
    BY <1>2 DEF WriteHead
  <2>3. pp' \in [Producers -> {"idle", "head", "body", "load", "store"}]
    BY <1>2 DEF WriteHead
  <2> QED BY <2>1, <2>2, <2>3 DEF Message
<1>3. CASE WriteBody(p)
  <2>1. slot' \in [Slots -> Message]
    BY <1>0, <1>3 DEF WriteBody, Message
  <2>2. UNCHANGED <<NowNum, TargetNum, idx, ld, msg, cp, due, offered, sent>>
    BY <1>3 DEF WriteBody
  <2>3. pp' \in [Producers -> {"idle", "head", "body", "load", "store"}]
    BY <1>3 DEF WriteBody
  <2> QED BY <2>1, <2>2, <2>3 DEF Message
<1>4. CASE LoadTarget(p)
  BY <1>4 DEF LoadTarget
<1>5. CASE StoreTarget(p)
  <2>1. TargetNum' <= Limit + Rank(p) - 1
    BY <1>5, LevelStore
  <2>2. TargetNum' \in Nat /\ Rank(p) \in Nat /\ Rank(p) <= Cardinality(Producers)
    BY RankType DEF BaseInv, Shape
  <2>3. Cardinality(Producers) \in Nat
    BY FS_CardinalityType
  <2>4. TargetNum' \in 0 .. Size - 1
    BY <2>1, <2>2, <2>3
  <2> QED BY <1>5, <2>4 DEF StoreTarget
<1> QED BY <1>1, <1>2, <1>3, <1>4, <1>5 DEF Produce

LEMMA DequeueTyped ==
  ASSUME TypeOK, BaseInv, RadioDequeue, BaseInv'
  PROVE  TypeOK'
<1> USE QueueSizes DEF TypeOK, queueVars, producerVars, Sleep
<1>0. Busy \subseteq Producers
  BY DEF Busy
<1>1. CASE Rewind
  BY <1>1 DEF Rewind
<1>2. CASE ResetTarget
  BY <1>0, <1>2 DEF ResetTarget
<1>3. CASE Advance
  <2>1. NowNum' \in 0 .. Size - 1
    BY <1>3 DEF Advance
  <2> QED BY <1>0, <1>3, <2>1 DEF Advance
<1>4. CASE Send
  <2>1. NowNum \in Slots
    BY <1>4 DEF Send, BaseInv, DueInv, Slots
  <2>2. slot[NowNum] \in Message
    BY <2>1 DEF Message
  <2>3. sent' \in Seq(Message)
    BY <1>4, <2>2 DEF Send, Message
  <2> QED BY <1>0, <1>4, <2>3 DEF Send, Message
<1> QED BY <1>1, <1>2, <1>3, <1>4 DEF RadioDequeue

LEMMA StartTyped == Init => TypeOK /\ LevelInv
<1> SUFFICES ASSUME Init PROVE TypeOK /\ LevelInv
  OBVIOUS
<1>1. Cardinality(Producers) \in Nat
  BY QueueSizes, FS_CardinalityType
<1>2. 0 \in 0 .. Size - 1
  BY <1>1, QueueSizes
<1>3. slot \in [Slots -> Message] /\ sent \in Seq(Message)
  BY DEF Init, Message
<1>4. TypeOK
  BY <1>2, <1>3, QueueSizes DEF Init, TypeOK, Message
<1>5. LevelInv
  BY DEF Init, LevelInv, CapInv, FullInv, BehindInv, Full, Busy
<1> QED BY <1>4, <1>5

LEMMA Typed == Spec => [](BaseInv /\ LevelInv /\ TypeOK)
<1>1. BaseInv /\ LevelInv /\ TypeOK /\ [Next]_vars => TypeOK'
  <2> SUFFICES ASSUME BaseInv, LevelInv, TypeOK, [Next]_vars PROVE TypeOK'
    OBVIOUS
  <2>1. BaseInv'
    BY BaseStep
  <2>2. CASE UNCHANGED vars
    BY <2>2 DEF vars, TypeOK
  <2> QED BY <2>1, <2>2, ProducerTyped, DequeueTyped DEF Next
<1> QED BY <1>1, Base, BaseStep, LevelStep, StartTyped, PTL DEF Spec

(* The limit is compared before TargetNum is raised, by producers that     *)
(* preempt one another and with a queue thread that rewinds in between:    *)
(* the indices still stay inside the arrays of Radio_Queue, if there is    *)
(* one place above the limit for each producer.                            *)
THEOREM QueueTypeCorrect == Spec => []TypeOK
BY Typed, PTL
-----------------------------------------------------------------------------
(* The order on the air.                                                   *)

(* What is still to be sent: not what a rewinding leaves behind.           *)
Pending ==
  IF cp = "reset" THEN {} ELSE (IF cp = "send" THEN NowNum ELSE NowNum + 1) .. TargetNum

(* Everything on the air or to be sent is older than message m.            *)
Newer(m) ==
  /\ \A i \in 1 .. Len(sent) : sent[i].head < m
  /\ \A k \in Pending : slot[k].head < m

SentInv ==
  \A i \in 1 .. Len(sent) :
    /\ sent[i].head = sent[i].body /\ sent[i].head # 0
    /\ \A j \in 1 .. i - 1 : sent[j].head < sent[i].head

PendingInv ==
  \A k \in Pending :
    /\ slot[k].head = slot[k].body /\ slot[k].head # 0
    /\ \A i \in 1 .. Len(sent) : sent[i].head < slot[k].head
    /\ \A j \in Pending : j < k => slot[j].head < slot[k].head

(* What p has written, and where, as long as it is the only producer.      *)
WriterInv(p) ==
  pp[p] # "idle" =>
    /\ idx[p] = TargetNum + 1 /\ msg[p] <= offered /\ Newer(msg[p])
    /\ pp[p] \in {"body", "load", "store"} => slot[idx[p]].head = msg[p]
    /\ pp[p] \in {"load", "store"} => slot[idx[p]].body = msg[p]
    /\ pp[p] = "store" => ld[p] = TargetNum

Ordered(p) == SentInv /\ PendingInv /\ Newer(offered + 1) /\ WriterInv(p)

OrderInv == \A p \in Producers : Alone(p) => Ordered(p)

LEMMA AloneBefore ==
  ASSUME BaseInv, [Next]_vars, NEW p \in Producers, Alone(p)'
  PROVE  Alone(p)
<1>1. \A q \in Producers : msg'[q] = 0 => msg[q] = 0
  <2>1. ASSUME NEW r \in Producers, Produce(r)
        PROVE  \A q \in Producers : msg'[q] = 0 => msg[q] = 0
    BY <2>1 DEF Produce, Enqueue, WriteHead, WriteBody, LoadTarget, StoreTarget, BaseInv, Shape
  <2>2. CASE RadioDequeue
    BY <2>2 DEF RadioDequeue, Rewind, ResetTarget, Advance, Send, producerVars
  <2> QED BY <2>1, <2>2 DEF Next, vars
<1> QED BY <1>1 DEF Alone, BaseInv, DueInv, Busy

(* The slots that matter are inside the array, and hold numbers.           *)
LEMMA PendingType ==
  ASSUME TypeOK, BaseInv
  PROVE  /\ Pending \subseteq Slots /\ Pending \subseteq 1 .. TargetNum
         /\ \A k \in Slots : slot[k] \in Message /\ slot[k].head \in Nat /\ slot[k].body \in Nat
         /\ \A i \in 1 .. Len(sent) :
              sent[i] \in Message /\ sent[i].head \in Nat /\ sent[i].body \in Nat
         /\ Len(sent) \in Nat /\ sent \in Seq(Message)
<1>1. Pending \subseteq Slots /\ Pending \subseteq 1 .. TargetNum
  BY QueueSizes DEF TypeOK, BaseInv, DueInv, Pending, Slots
<1>2. \A m \in Message : m.head \in Nat /\ m.body \in Nat
  BY QueueSizes DEF Message, Msgs
<1>3. sent \in Seq(Message) /\ slot \in [Slots -> Message]
  BY DEF TypeOK, Message
<1>4. Len(sent) \in Nat /\ \A i \in 1 .. Len(sent) : sent[i] \in Message
  BY <1>3
<1> QED BY <1>1, <1>2, <1>3, <1>4

(* Steps that touch nothing that is on the air or to be sent.              *)
LEMMA OrderSame ==
  ASSUME UNCHANGED <<sent, NowNum, TargetNum, cp>>, \A k \in Pending : slot'[k] = slot[k]
  PROVE  /\ Pending' = Pending
         /\ SentInv => SentInv'
         /\ PendingInv => PendingInv'
         /\ \A m \in Nat : Newer(m) => Newer(m)'
<1>1. Pending' = Pending
  BY DEF Pending
<1> QED BY <1>1 DEF SentInv, PendingInv, Newer

LEMMA OrderEnqueue ==
  ASSUME TypeOK, BaseInv, NEW p \in Producers, Ordered(p), Enqueue(p)
  PROVE  Ordered(p)'
<1>1. /\ UNCHANGED <<sent, NowNum, TargetNum, cp, slot>> /\ offered' = offered + 1
      /\ offered \in Nat /\ pp[p] = "idle"
  BY QueueSizes DEF Enqueue, queueVars, TypeOK
<1>2. SentInv' /\ PendingInv' /\ Pending' = Pending
  BY <1>1, OrderSame DEF Ordered
<1>3. Newer(offered + 1)'
  BY <1>1, <1>2, PendingType DEF Ordered, Newer
<1>4. WriterInv(p)'
  <2>1. CASE TargetNum >= Limit
    <3>1. pp'[p] = "idle"
      BY <1>1, <2>1, QueueSizes DEF Enqueue, TypeOK
    <3> QED BY <3>1 DEF WriterInv
  <2>2. CASE TargetNum < Limit
    <3>1. pp'[p] = "head" /\ idx'[p] = TargetNum + 1 /\ msg'[p] = offered + 1
      BY <2>2, QueueSizes DEF Enqueue, Goto, TypeOK
    <3>2. Newer(msg[p])'
      BY <1>1, <1>2, <3>1 DEF Ordered, Newer
    <3> QED BY <1>1, <3>1, <3>2 DEF WriterInv
  <2> QED BY <2>1, <2>2, QueueSizes DEF TypeOK
<1> QED BY <1>2, <1>3, <1>4 DEF Ordered

(* p writes its slot, the one behind what is to be sent.                   *)
LEMMA OrderWrite ==
  ASSUME TypeOK, BaseInv, NEW p \in Producers, Ordered(p), WriteHead(p) \/ WriteBody(p)
  PROVE  Ordered(p)'
<1>1. UNCHANGED <<sent, NowNum, TargetNum, cp, offered, idx, ld, msg>> /\ pp[p] # "idle"
  BY DEF WriteHead, WriteBody
<1>2. idx[p] = TargetNum + 1 /\ idx[p] \in Slots /\ idx[p] \notin Pending
  <2>1. idx[p] = TargetNum + 1 /\ TargetNum \in Nat
    BY <1>1 DEF Ordered, WriterInv, BaseInv, Shape
  <2>2. idx[p] \notin Pending
    BY <2>1, PendingType
  <2>3. idx[p] \in Slots
    <3>1. Cardinality(Producers) \in Nat /\ 1 <= Cardinality(Producers)
      BY RankType, QueueSizes, FS_CardinalityType
    <3> QED BY <2>1, <3>1, QueueSizes DEF TypeOK, Slots
  <2> QED BY <2>1, <2>2, <2>3
<1>3. \A k \in Pending : slot'[k] = slot[k]
  BY <1>2, PendingType DEF WriteHead, WriteBody, TypeOK
<1>4. SentInv' /\ PendingInv' /\ Pending' = Pending
  BY <1>1, <1>3, OrderSame DEF Ordered
<1>5. Newer(offered + 1)' /\ Newer(msg[p])'
  BY <1>1, <1>3, <1>4 DEF Ordered, WriterInv, Newer
<1>6. WriterInv(p)'
  <2>1. slot \in [Slots -> Message]
    BY DEF TypeOK, Message
  <2>2. CASE WriteHead(p)
    <3>1. pp'[p] = "body" /\ slot'[idx[p]].head = msg[p]
      BY <1>2, <2>1, <2>2 DEF WriteHead, Goto, TypeOK, Message
    <3> QED BY <1>1, <1>2, <1>5, <3>1 DEF Ordered, WriterInv
  <2>3. CASE WriteBody(p)
    <3>1. /\ pp[p] = "body" /\ pp'[p] = "load" /\ slot'[idx[p]].body = msg[p]
          /\ slot'[idx[p]].head = slot[idx[p]].head
      BY <1>2, <2>1, <2>3 DEF WriteBody, Goto, TypeOK, Message
    <3> QED BY <1>1, <1>2, <1>5, <3>1 DEF Ordered, WriterInv
  <2> QED BY <2>2, <2>3
<1> QED BY <1>4, <1>5, <1>6 DEF Ordered

LEMMA OrderLoad ==
  ASSUME TypeOK, BaseInv, NEW p \in Producers, Ordered(p), LoadTarget(p)
  PROVE  Ordered(p)'
<1>1. /\ UNCHANGED <<sent, NowNum, TargetNum, cp, slot, offered, idx, msg>>
      /\ pp[p] = "load" /\ pp'[p] = "store" /\ ld'[p] = TargetNum
  BY DEF LoadTarget, queueVars, Goto, TypeOK
<1>2. SentInv' /\ PendingInv' /\ Pending' = Pending
  BY <1>1, OrderSame DEF Ordered
<1>3. Newer(offered + 1)' /\ Newer(msg[p])'
  BY <1>1, <1>2 DEF Ordered, WriterInv, Newer
<1>4. WriterInv(p)'
  BY <1>1, <1>3 DEF Ordered, WriterInv
<1> QED BY <1>2, <1>3, <1>4 DEF Ordered

(* p's message becomes the newest to be sent, unless a rewinding is under  *)
(* way, which drops it.                                                    *)
LEMMA OrderStore ==
  ASSUME TypeOK, BaseInv, NEW p \in Producers, Ordered(p), StoreTarget(p)
  PROVE  Ordered(p)'
<1>1. /\ UNCHANGED <<sent, NowNum, cp, slot, offered>> /\ TargetNum' = TargetNum + 1
      /\ pp[p] = "store" /\ pp'[p] = "idle"
  BY DEF StoreTarget, Goto, TypeOK, Ordered, WriterInv
<1>2. /\ slot[TargetNum + 1].head = msg[p] /\ slot[TargetNum + 1].body = msg[p]
      /\ Newer(msg[p]) /\ msg[p] <= offered /\ msg[p] # 0 /\ msg[p] \in Nat /\ offered \in Nat
  BY <1>1, QueueSizes DEF Ordered, WriterInv, BaseInv, Shape, DueInv, Busy
<1>3. Pending' \subseteq Pending \cup {TargetNum + 1} /\ Pending \subseteq 1 .. TargetNum
  BY <1>1, PendingType DEF Pending, BaseInv, Shape
<1>4. SentInv' /\ Newer(offered + 1)'
  BY <1>1, <1>2, <1>3 DEF Ordered, SentInv, Newer
<1>5. PendingInv'
  <2> SUFFICES ASSUME NEW k \in Pending'
               PROVE  /\ slot[k].head = slot[k].body /\ slot[k].head # 0
                      /\ \A i \in 1 .. Len(sent) : sent[i].head < slot[k].head
                      /\ \A j \in Pending' : j < k => slot[j].head < slot[k].head
    BY <1>1 DEF PendingInv
  <2>1. CASE k \in Pending
    <3>1. \A j \in Pending' : j < k => j \in Pending
      BY <1>3, <2>1 DEF BaseInv, Shape
    <3> QED BY <2>1, <3>1 DEF Ordered, PendingInv
  <2>2. CASE k = TargetNum + 1
    <3>1. \A j \in Pending' : j < k => j \in Pending
      BY <1>3, <2>2 DEF BaseInv, Shape
    <3> QED BY <1>2, <2>2, <3>1 DEF Newer
  <2> QED BY <1>3, <2>1, <2>2
<1>6. WriterInv(p)'
  BY <1>1 DEF WriterInv
<1> QED BY <1>4, <1>5, <1>6 DEF Ordered

(* The queue thread only goes on when p is idle.                           *)
LEMMA OrderDequeue ==
  ASSUME TypeOK, BaseInv, NEW p \in Producers, Alone(p), Ordered(p), RadioDequeue
  PROVE  Ordered(p)'
<1> USE DEF queueVars, producerVars, Awake, Sleep
<1>1. UNCHANGED <<slot, pp, offered>> /\ MayRun(QueuePrio)
  BY DEF RadioDequeue, Rewind, ResetTarget, Advance, Send
<1>2. pp[p] = "idle"
  BY <1>1, PrioAssumption DEF MayRun, Alone, Busy
<1>3. WriterInv(p)'
  BY <1>1, <1>2 DEF WriterInv
<1>4. NowNum \in Nat /\ TargetNum \in Nat
  BY DEF BaseInv, Shape
<1>5. CASE Rewind \/ ResetTarget \/ Advance
  <2>1. sent' = sent
    BY <1>5 DEF Rewind, ResetTarget, Advance
  <2>2. Pending' \subseteq Pending
    <3>1. CASE Rewind
      BY <3>1 DEF Rewind, Pending
    <3>2. CASE ResetTarget
      BY <3>2 DEF ResetTarget, Pending, BaseInv, DueInv
    <3>3. CASE Advance
      BY <1>4, <3>3 DEF Advance, Pending
    <3> QED BY <1>5, <3>1, <3>2, <3>3
  <2> QED BY <1>1, <1>3, <2>1, <2>2 DEF Ordered, SentInv, PendingInv, Newer
<1>6. CASE Send
  <2>1. NowNum \in Pending /\ sent' = Append(sent, slot[NowNum])
    BY <1>4, <1>6 DEF Send, Pending, BaseInv, NoStall
  <2>2. Pending' \subseteq Pending /\ \A k \in Pending' : k > NowNum
    BY <1>4, <1>6 DEF Send, Pending
  <2>3. slot[NowNum] \in Message /\ sent \in Seq(Message) /\ Len(sent) \in Nat
    BY <2>1, PendingType
  <2>4. /\ Len(sent') = Len(sent) + 1 /\ sent'[Len(sent) + 1] = slot[NowNum]
        /\ \A i \in 1 .. Len(sent) : sent'[i] = sent[i]
    BY <2>1, <2>3
  <2>5. \A i \in 1 .. Len(sent') : i \in 1 .. Len(sent) \/ i = Len(sent) + 1
    BY <2>3, <2>4
  <2>6. SentInv'
    <3> SUFFICES ASSUME NEW i \in 1 .. Len(sent')
                 PROVE  /\ sent'[i].head = sent'[i].body /\ sent'[i].head # 0
                        /\ \A j \in 1 .. i - 1 : sent'[j].head < sent'[i].head
      BY DEF SentInv
    <3>1. \A j \in 1 .. i - 1 : j \in 1 .. Len(sent)
      BY <2>3, <2>4
    <3>2. CASE i \in 1 .. Len(sent)
      BY <2>4, <3>1, <3>2 DEF Ordered, SentInv
    <3>3. CASE i = Len(sent) + 1
      BY <2>1, <2>4, <3>1, <3>3 DEF Ordered, PendingInv
    <3> QED BY <2>5, <3>2, <3>3
  <2>7. PendingInv'
    <3>1. \A k \in Pending' : \A i \in 1 .. Len(sent') : sent'[i].head < slot[k].head
      BY <2>1, <2>2, <2>4, <2>5 DEF Ordered, PendingInv
    <3> QED BY <1>1, <2>2, <3>1 DEF Ordered, PendingInv
  <2>8. Newer(offered + 1)'
    BY <1>1, <2>1, <2>2, <2>4, <2>5 DEF Ordered, Newer
  <2> QED BY <1>3, <2>6, <2>7, <2>8 DEF Ordered
<1> QED BY <1>5, <1>6 DEF RadioDequeue

(* Another thread whose message is refused.                                *)
LEMMA OrderOther ==
  ASSUME TypeOK, BaseInv, NEW p \in Producers, Alone(p), Ordered(p), Alone(p)',
         NEW q \in Producers \ {p}, Produce(q)
  PROVE  Ordered(p)'
<1>1. pp[q] = "idle" /\ pp'[q] = "idle"
  BY DEF Alone
<1>2. Enqueue(q)
  BY <1>1 DEF Produce, WriteHead, WriteBody, LoadTarget, StoreTarget
<1>3. /\ UNCHANGED <<sent, NowNum, TargetNum, cp, slot, ld, pp, idx, msg>>
      /\ offered' = offered + 1 /\ offered \in Nat
  BY <1>1, <1>2, QueueSizes DEF Enqueue, Goto, queueVars, TypeOK
<1>4. SentInv' /\ PendingInv' /\ Pending' = Pending
  BY <1>3, OrderSame DEF Ordered
<1>5. Newer(offered + 1)'
  BY <1>3, <1>4, PendingType DEF Ordered, Newer
<1>6. WriterInv(p)'
  <2> SUFFICES ASSUME pp[p] # "idle" PROVE WriterInv(p)'
    BY <1>3 DEF WriterInv
  <2>1. Newer(msg[p])' /\ msg[p] <= offered' /\ msg[p] \in Nat
    BY <1>3, <1>4 DEF Ordered, WriterInv, Newer, BaseInv, Shape
  <2> QED BY <1>3, <2>1 DEF Ordered, WriterInv
<1> QED BY <1>4, <1>5, <1>6 DEF Ordered

LEMMA OrderStep == TypeOK /\ BaseInv /\ OrderInv /\ [Next]_vars => OrderInv'
<1> SUFFICES ASSUME TypeOK, BaseInv, OrderInv, [Next]_vars, NEW p \in Producers, Alone(p)'
             PROVE  Ordered(p)'
  BY DEF OrderInv
<1>1. Alone(p) /\ Ordered(p)
  BY AloneBefore DEF OrderInv
<1>2. CASE UNCHANGED vars
  BY <1>1, <1>2 DEF vars, Ordered, SentInv, PendingInv, Newer, WriterInv, Pending
<1>3. CASE Produce(p)
  BY <1>1, <1>3, OrderEnqueue, OrderWrite, OrderLoad, OrderStore DEF Produce
<1>4. CASE \E q \in Producers \ {p} : Produce(q)
  BY <1>1, <1>4, OrderOther
<1>5. CASE RadioDequeue
  BY <1>1, <1>5, OrderDequeue
<1> QED BY <1>2, <1>3, <1>4, <1>5 DEF Next

LEMMA OrderStart == Init => OrderInv
<1> SUFFICES ASSUME Init PROVE SentInv /\ PendingInv /\ Newer(offered + 1) /\
                               \A p \in Producers : WriterInv(p)
  BY DEF OrderInv, Ordered
<1>1. Pending = {} /\ 1 .. Len(sent) = {}
  BY DEF Init, Pending
<1> QED BY <1>1 DEF Init, SentInv, PendingInv, Newer, WriterInv

(* Producer and queue thread share the indices and the slots with nothing  *)
(* between them but the scheduler.  As long as the only producer so far    *)
(* has the higher priority, every message on the air is one message, whole *)
(* and not repeated, in the order of enqueueing.                           *)
THEOREM QueueInOrder == Spec => []SentInOrder
<1>1. OrderInv => SentInOrder
  BY DEF OrderInv, Ordered, SentInv, SentInOrder
<1> QED BY <1>1, Typed, OrderStart, OrderStep, PTL DEF Spec
=============================================================================
