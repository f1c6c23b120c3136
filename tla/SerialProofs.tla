---------------------------- MODULE SerialProofs ----------------------------
(***************************************************************************)
(* Proofs about what happens to the bytes of the serial line.              *)
(*                                                                         *)
(* The receive ring loses nothing and is a queue, for every size of the    *)
(* buffer and either order of the producer's stores, as long as fewer      *)
(* bytes than it has room for wait for the parser, and until the parser is *)
(* misled by a rewound pointer; a build that does not store the rewound    *)
(* pointer never misleads it.                                              *)
(*                                                                         *)
(* The parser hands on the frames of the line whatever the portions in     *)
(* which it gets it, for every line and every size of its buffer.          *)
(***************************************************************************)
EXTENDS UartRing, FrameParser, SequenceTheorems, WellFoundedInduction, TLAPS

(* The store of uart_receive_input has been decided on; queue_in does not  *)
(* announce the byte yet.                                                  *)
Pending == pc \in {"byte", "pointer", "last_pointer"}

(* How the pointers stand to each other while the parser is not misled.    *)
RingInv ==
  /\ ~misled
  /\ queue_in = 0 => queue_out = 0 \/ (Pending /\ rewinds)
  /\ Unread \in 0 .. MaxBacklog
  /\ Pending => /\ pos = (IF queue_in >= Size THEN 0 ELSE queue_in)
                /\ Unread < MaxBacklog
  /\ Len(got) + Unread = Stored

(* Only a build that rewinds in a store of its own misleads the parser.    *)
RingOrMisled == RingInv \/ (misled /\ rewinds)

-----------------------------------------------------------------------------
(* The pointers and the bytes of the ring stay within the buffer, for every*)
(* size of it.                                                             *)
THEOREM RingTypeCorrect == Spec => []TypeOK
<1> USE RingAssumption
<1>1. Init => TypeOK
  <2> SUFFICES ASSUME Init PROVE TypeOK
    OBVIOUS
  <2>1. misled \in BOOLEAN
    BY DEF Init
  <2> QED BY <2>1 DEF Init, TypeOK
<1>2. TypeOK /\ [Next]_vars => TypeOK'
  <2> SUFFICES ASSUME TypeOK, [Next]_vars PROVE TypeOK'
    OBVIOUS
  <2> USE DEF TypeOK
  <2>1. CASE Accept
    BY <2>1 DEF Accept, Arrives
  <2>2. CASE StoreByte
    BY <2>2 DEF StoreByte
  <2>3. CASE StorePointer
    BY <2>3 DEF StorePointer
  <2>4. CASE Queue_Read_Byte
    <3> DEFINE o == IF queue_out >= Size THEN 0 ELSE queue_out
    <3>1. o \in 0 .. Size - 1
      OBVIOUS
    <3>2. got' = Append(got, wifi_uart_rx_buf[o]) /\ queue_out' = o + 1
      BY <2>4 DEF Queue_Read_Byte
    <3>3. wifi_uart_rx_buf[o] \in 0 .. MaxBytes
      BY <3>1
    <3>4. misled' \in BOOLEAN
      BY <2>4 DEF Queue_Read_Byte
    <3> HIDE DEF o
    <3> QED BY <2>4, <3>1, <3>2, <3>3, <3>4 DEF Queue_Read_Byte
  <2>5. CASE Drop \/ Quiet \/ UNCHANGED vars
    BY <2>5 DEF Drop, Quiet, vars
  <2> QED BY <2>1, <2>2, <2>3, <2>4, <2>5 DEF Next
<1> QED BY <1>1, <1>2, PTL DEF Spec

-----------------------------------------------------------------------------
(* Reading a byte lowers the number of unread ones by one.                 *)
LEMMA ReadOne ==
  ASSUME TypeOK, RingInv, MaxBacklog < Size, Queue_Read_Byte, ~Mirage
  PROVE  Unread' = Unread - 1 /\ (queue_in = 0 => Pending /\ rewinds) /\ Unread > 0
<1> USE RingAssumption
<1>1. queue_in = 0 => Pending /\ rewinds
  BY DEF RingInv, Queue_Read_Byte
<1>2. CASE queue_out < Size
  BY <1>2 DEF TypeOK, RingInv, Unread, Queue_Read_Byte
<1>3. CASE queue_out = Size
  BY <1>3 DEF TypeOK, Unread, Queue_Read_Byte, Mirage
<1> QED BY <1>1, <1>2, <1>3 DEF TypeOK

(* A reader is misled only by a rewound pointer, with nothing to read.     *)
LEMMA MirageEmpty ==
  ASSUME TypeOK, RingInv, Mirage
  PROVE  rewinds /\ Stored = Len(got)
<1> USE RingAssumption
<1>1. Unread = 0
  BY DEF Mirage, Unread
<1>2. rewinds
  BY DEF Mirage, RingInv
<1> QED BY <1>1, <1>2 DEF RingInv, TypeOK

(* Advancing queue_in raises it by one: at most Size - 2 bytes are unread  *)
(* then, so that queue_in does not catch up with queue_out.                *)
LEMMA StoreOne ==
  ASSUME TypeOK, RingInv, MaxBacklog < Size, StorePointer
  PROVE  Unread' = Unread + 1
<1> USE RingAssumption
<1>1. Pending
  BY DEF Pending, StorePointer
<1>2. CASE queue_in < Size
  BY <1>1, <1>2 DEF TypeOK, RingInv, Unread, StorePointer
<1>3. CASE queue_in = Size
  BY <1>1, <1>3 DEF TypeOK, RingInv, Unread, StorePointer
<1> QED BY <1>2, <1>3 DEF TypeOK

(* Whoever is misled stays so, and nothing else in the build changes.      *)
LEMMA MisledStays ==
  ASSUME [Next]_vars
  PROVE  UNCHANGED <<order, rewinds>> /\ (misled => misled')
<1>1. CASE Queue_Read_Byte
  BY <1>1 DEF Queue_Read_Byte
<1>2. CASE Accept \/ Drop \/ StoreByte \/ StorePointer \/ Quiet \/ UNCHANGED vars
  BY <1>2 DEF vars, Accept, Drop, StoreByte, StorePointer, Quiet
<1> QED BY <1>1, <1>2 DEF Next

(* The invariant is kept by every step that does not mislead the parser.   *)
LEMMA RingStep ==
  ASSUME TypeOK, RingInv, [Next]_vars, MaxBacklog < Size
  PROVE  RingInv' \/ (Queue_Read_Byte /\ Mirage)
<1> USE RingAssumption
<1>0. Unread \in Int /\ Len(got) \in Nat /\ ~misled
  BY DEF TypeOK, Unread, RingInv
<1>1. CASE Accept
  <2>0. ~(queue_in >= Size /\ queue_out = 0)
    BY <1>1 DEF Accept, Full, TypeOK
  <2>1. Unread' = Unread /\ Pending' /\ ~Pending
    BY <1>1, <2>0 DEF Accept, Arrives, Unread, Pending, TypeOK
  <2>2. Stored' = Stored /\ got' = got
    BY <1>1 DEF Accept, Arrives, Stored, TypeOK
  <2>3. queue_in' = 0 => queue_out' = 0 \/ rewinds'
    BY <1>1, <2>1 DEF Accept, RingInv
  <2>4. pos' = (IF queue_in' >= Size THEN 0 ELSE queue_in') /\ misled' = misled
    BY <1>1 DEF Accept, TypeOK
  <2>5. Unread' < MaxBacklog
    BY <1>1, <2>1 DEF Accept
  <2> QED BY <1>0, <2>1, <2>2, <2>3, <2>4, <2>5 DEF RingInv
<1>2. CASE StoreByte
  <2>1. Unread' = Unread
    BY <1>2 DEF StoreByte, Unread
  <2>2. Stored' = Stored
    BY <1>2 DEF StoreByte, Stored
  <2>3. Pending' <=> Pending
    BY <1>2 DEF StoreByte, Pending
  <2> QED BY <1>2, <2>1, <2>2, <2>3 DEF StoreByte, RingInv
<1>3. CASE StorePointer
  <2>1. Unread' = Unread + 1 /\ Pending /\ ~Pending'
    BY <1>3, StoreOne DEF StorePointer, Pending
  <2>0. Stored' = Stored + 1 /\ got' = got /\ misled' = misled
    BY <1>3 DEF StorePointer, Stored, TypeOK
  <2>2. (Len(got) + Unread = Stored)'
    BY <1>0, <2>0, <2>1 DEF RingInv
  <2>3. queue_in' # 0 /\ Unread' \in 0 .. MaxBacklog
    BY <1>0, <1>3, <2>1 DEF StorePointer, RingInv, TypeOK
  <2> QED BY <1>0, <2>0, <2>1, <2>2, <2>3 DEF RingInv
<1>4. CASE Queue_Read_Byte /\ ~Mirage
  <2>1. Unread' = Unread - 1 /\ (queue_in = 0 => Pending /\ rewinds) /\ Unread > 0
    BY <1>4, ReadOne
  <2>2. Len(got') = Len(got) + 1 /\ misled' = misled
    BY <1>0, <1>4 DEF Queue_Read_Byte, TypeOK
  <2>3. Stored' = Stored
    BY <1>4 DEF Queue_Read_Byte, Stored
  <2>4. (Len(got) + Unread = Stored)'
    BY <1>0, <2>1, <2>2, <2>3 DEF RingInv
  <2>5. Pending' <=> Pending
    BY <1>4 DEF Queue_Read_Byte, Pending
  <2> QED BY <1>0, <1>4, <2>1, <2>2, <2>4, <2>5 DEF Queue_Read_Byte, RingInv
<1>5. CASE Drop \/ Quiet \/ UNCHANGED vars
  BY <1>5 DEF Drop, Quiet, vars, RingInv, Pending, Unread, Stored
<1> QED BY <1>1, <1>2, <1>3, <1>4, <1>5 DEF Next

(* The invariant, whatever the size and the build.                         *)
LEMMA RingInvariant ==
  ASSUME MaxBacklog < Size
  PROVE  Spec => [](TypeOK /\ RingOrMisled)
<1>1. Init => RingOrMisled
  <2> SUFFICES ASSUME Init PROVE RingInv
    BY DEF RingOrMisled
  <2>1. Unread = 0 /\ Stored = 0 /\ ~Pending /\ Len(got) = 0
    BY DEF Init, Unread, Stored, Pending
  <2> QED BY <2>1, RingAssumption DEF Init, RingInv
<1>2. TypeOK /\ RingOrMisled /\ [Next]_vars => RingOrMisled'
  <2> SUFFICES ASSUME TypeOK, RingOrMisled, [Next]_vars PROVE RingOrMisled'
    OBVIOUS
  <2>1. CASE RingInv
    <3>1. CASE RingInv'
      BY <3>1 DEF RingOrMisled
    <3>2. CASE Queue_Read_Byte /\ Mirage
      <4>1. rewinds /\ rewinds' = rewinds
        BY <2>1, <3>2, MirageEmpty, MisledStays
      <4>2. misled'
        BY <3>2 DEF Queue_Read_Byte
      <4> QED BY <4>1, <4>2 DEF RingOrMisled
    <3> QED BY <2>1, <3>1, <3>2, RingStep
  <2>2. CASE misled /\ rewinds
    BY <2>2, MisledStays DEF RingOrMisled
  <2> QED BY <2>1, <2>2 DEF RingOrMisled
<1> QED BY <1>1, <1>2, RingTypeCorrect, PTL DEF Spec

(* No byte that uart_receive_input has taken is lost before the parser     *)
(* reads it: whatever the size, the positions of the pointers and the      *)
(* order of the stores, if fewer than Size bytes are ever unread, until    *)
(* the parser is misled by a rewound queue_in.                             *)
THEOREM RingNoneLost ==
  ASSUME MaxBacklog < Size
  PROVE  Spec => []NoneLost
<1>1. TypeOK /\ RingOrMisled => NoneLost
  BY DEF RingInv, RingOrMisled, NoneLost
<1> QED BY <1>1, RingInvariant, PTL

(* In a build that does not store the rewound pointer, as gcc -O2 makes of *)
(* uart_receive_input, the parser is never misled: no byte is lost at all. *)
THEOREM RingNoneLostWithoutRewind ==
  ASSUME MaxBacklog < Size, TRUE \notin Rewinds
  PROVE  Spec => [](NoneLost /\ ~misled)
<1>1. TypeOK /\ RingOrMisled => NoneLost /\ ~misled
  BY DEF RingInv, RingOrMisled, NoneLost, TypeOK
<1> QED BY <1>1, RingInvariant, PTL

-----------------------------------------------------------------------------
(* What lies in the ring.                                                  *)

(* The place of the k-th unread byte.                                      *)
CellOf(k) == IF queue_out + k >= Size THEN queue_out + k - Size ELSE queue_out + k

(* The byte that is announced and not stored yet.                          *)
Torn(k) == pc = "last_byte" /\ k = Unread - 1

ContentInv ==
  /\ \A k \in 0 .. Size - 1 :
       k < Unread /\ ~Torn(k) => wifi_uart_rx_buf[CellOf(k)] = Len(got) + 1 + k
  /\ pc \in {"byte", "last_pointer"} => order = "byte"
  /\ pc \in {"pointer", "last_byte"} => order = "pointer"
  /\ pc = "last_pointer" => wifi_uart_rx_buf[pos] = accepted
  /\ pc = "last_byte" => queue_in = pos + 1
  /\ \A i \in 0 .. Size - 1 : wifi_uart_rx_buf[i] <= accepted

(* The places of different unread bytes differ, and the next byte goes to  *)
(* a free one.                                                             *)
LEMMA Places ==
  ASSUME TypeOK, RingInv, MaxBacklog < Size
  PROVE  /\ Unread \in 0 .. Size - 1
         /\ \A k \in 0 .. Size - 1 : CellOf(k) \in 0 .. Size - 1
         /\ \A j, k \in 0 .. Size - 1 : j # k => CellOf(j) # CellOf(k)
         /\ Pending => pos = CellOf(Unread)
         /\ pc = "last_byte" /\ queue_in = pos + 1 /\ Unread > 0 => pos = CellOf(Unread - 1)
<1> USE RingAssumption DEF TypeOK
<1>1. Unread \in 0 .. Size - 1
  BY DEF RingInv, Unread
<1>2. \A k \in 0 .. Size - 1 : CellOf(k) \in 0 .. Size - 1
  BY DEF CellOf
<1>3. \A j, k \in 0 .. Size - 1 : j # k => CellOf(j) # CellOf(k)
  BY DEF CellOf
<1>4. Pending => pos = CellOf(Unread)
  BY DEF CellOf, Unread, RingInv
<1>5. pc = "last_byte" /\ queue_in = pos + 1 /\ Unread > 0 => pos = CellOf(Unread - 1)
  BY DEF CellOf, Unread
<1> QED BY <1>1, <1>2, <1>3, <1>4, <1>5

(* The bytes lie in the ring in the order in which they were accepted.     *)
LEMMA ContentHolds ==
  ASSUME TypeOK, TypeOK', RingInv, RingInv', ContentInv, MaxBacklog < Size, [Next]_vars
  PROVE  ContentInv'
<1> USE RingAssumption
<1>a. Unread \in 0 .. Size - 1
  BY Places
<1>c. Len(got) \in Nat /\ accepted \in Nat
  BY DEF TypeOK
<1>b. Unread' \in 0 .. MaxBacklog
  BY DEF RingInv
<1>0. /\ Unread \in 0 .. Size - 1 /\ Unread' \in 0 .. Size - 1
      /\ Len(got) \in Nat /\ accepted \in Nat
  BY <1>a, <1>b, <1>c
<1>1. CASE Accept
  <2>1. /\ pc = "idle" /\ pc' = order /\ order \in {"byte", "pointer"}
        /\ accepted' = accepted + 1
        /\ UNCHANGED <<queue_out, wifi_uart_rx_buf, order, got>>
        /\ ~(queue_in >= Size /\ queue_out = 0)
    BY <1>1 DEF Accept, Arrives, Full, TypeOK
  <2>2. \A k \in 0 .. Size - 1 : CellOf(k)' = CellOf(k) /\ ~Torn(k)
    BY <2>1 DEF CellOf, Torn
  <2>3. Unread' = Unread
    BY <1>1, <2>1 DEF Accept, Unread, TypeOK
  <2>4. \A i \in 0 .. Size - 1 : wifi_uart_rx_buf'[i] <= accepted'
    BY <1>0, <2>1 DEF ContentInv, TypeOK
  <2> QED BY <2>1, <2>2, <2>3, <2>4 DEF ContentInv
<1>2. CASE StoreByte
  <2>1. /\ wifi_uart_rx_buf' = [wifi_uart_rx_buf EXCEPT ![pos] = accepted]
        /\ UNCHANGED <<queue_in, queue_out, order, pos, accepted, got>>
        /\ \/ pc = "byte" /\ pc' = "last_pointer"
           \/ pc = "last_byte" /\ pc' = "idle"
    BY <1>2 DEF StoreByte
  <2>2. Unread' = Unread /\ \A k \in 0 .. Size - 1 : CellOf(k)' = CellOf(k)
    BY <2>1 DEF Unread, CellOf
  <2>3. /\ wifi_uart_rx_buf'[pos] = accepted
        /\ \A i \in 0 .. Size - 1 : i # pos => wifi_uart_rx_buf'[i] = wifi_uart_rx_buf[i]
    BY <2>1 DEF TypeOK
  <2>4. \A i \in 0 .. Size - 1 : wifi_uart_rx_buf'[i] <= accepted'
    BY <1>0, <2>1, <2>3 DEF ContentInv, TypeOK
  <2>5. ASSUME NEW k \in 0 .. Size - 1, k < Unread
        PROVE  wifi_uart_rx_buf'[CellOf(k)] = Len(got) + 1 + k
    <3>1. CASE pc = "byte"
      <4>1. CellOf(k) # pos /\ CellOf(k) \in 0 .. Size - 1
        BY <1>0, <2>5, <3>1, Places DEF Pending
      <4>2. wifi_uart_rx_buf[CellOf(k)] = Len(got) + 1 + k
        BY <2>5, <3>1 DEF ContentInv, Torn
      <4> QED BY <2>3, <4>1, <4>2
    <3>2. CASE pc = "last_byte" /\ k # Unread - 1
      <4>1. CellOf(k) # pos /\ CellOf(k) \in 0 .. Size - 1
        BY <1>0, <2>5, <3>2, Places DEF ContentInv
      <4>2. wifi_uart_rx_buf[CellOf(k)] = Len(got) + 1 + k
        BY <2>5, <3>2 DEF ContentInv, Torn
      <4> QED BY <2>3, <4>1, <4>2
    <3>3. CASE pc = "last_byte" /\ k = Unread - 1
      <4>1. CellOf(k) = pos
        BY <1>0, <2>5, <3>3, Places DEF ContentInv
      <4>2. Len(got) + Unread = accepted
        BY <3>3 DEF RingInv, Stored
      <4> QED BY <1>0, <2>3, <3>3, <4>1, <4>2
    <3> QED BY <2>1, <3>1, <3>2, <3>3
  <2>6. \A k \in 0 .. Size - 1 :
          (k < Unread /\ ~Torn(k) => wifi_uart_rx_buf[CellOf(k)] = Len(got) + 1 + k)'
    BY <2>1, <2>2, <2>5
  <2>7. pc' = "last_pointer" => wifi_uart_rx_buf'[pos'] = accepted'
    BY <2>1, <2>3
  <2> QED BY <2>1, <2>4, <2>6, <2>7 DEF ContentInv
<1>3. CASE StorePointer
  <2>1. /\ queue_in' = pos + 1
        /\ UNCHANGED <<queue_out, wifi_uart_rx_buf, order, pos, accepted, got>>
        /\ \/ pc = "pointer" /\ pc' = "last_byte"
           \/ pc = "last_pointer" /\ pc' = "idle"
    BY <1>3 DEF StorePointer
  <2>2. Unread' = Unread + 1 /\ \A k \in 0 .. Size - 1 : CellOf(k)' = CellOf(k)
    BY <1>3, <2>1, StoreOne DEF CellOf
  <2>3. pos = CellOf(Unread) /\ Len(got) + Unread = accepted - 1
    BY <2>1, Places DEF Pending, RingInv, Stored
  <2>4. ASSUME NEW k \in 0 .. Size - 1, k < Unread', ~Torn(k)'
        PROVE  wifi_uart_rx_buf[CellOf(k)] = Len(got) + 1 + k
    <3>1. CASE k < Unread
      BY <2>1, <3>1 DEF ContentInv, Torn
    <3>2. CASE k = Unread
      <4>1. pc = "last_pointer"
        BY <1>0, <2>1, <2>2, <2>4, <3>2 DEF Torn
      <4> QED BY <1>0, <2>3, <3>2, <4>1 DEF ContentInv
    <3> QED BY <1>0, <2>2, <2>4, <3>1, <3>2
  <2>5. \A k \in 0 .. Size - 1 :
          (k < Unread /\ ~Torn(k) => wifi_uart_rx_buf[CellOf(k)] = Len(got) + 1 + k)'
    BY <2>1, <2>2, <2>4
  <2> QED BY <2>1, <2>5 DEF ContentInv
<1>4. CASE Queue_Read_Byte
  <2>0. ~Mirage
    BY <1>4 DEF Queue_Read_Byte, RingInv
  <2>1. /\ queue_out' = CellOf(0) + 1 /\ queue_out' \in 1 .. Size
        /\ UNCHANGED <<queue_in, wifi_uart_rx_buf, order, pc, pos, accepted>>
        /\ Len(got') = Len(got) + 1
    BY <1>4 DEF Queue_Read_Byte, TypeOK, CellOf
  <2>2. Unread' = Unread - 1
    BY <1>4, <2>0, ReadOne
  <2>3. \A k \in 0 .. Size - 2 : CellOf(k)' = CellOf(k + 1)
    BY <2>1 DEF CellOf, TypeOK
  <2>4. ASSUME NEW k \in 0 .. Size - 1, k < Unread', ~Torn(k)'
        PROVE  wifi_uart_rx_buf'[CellOf(k)'] = Len(got') + 1 + k
    <3>1. k + 1 \in 0 .. Size - 1 /\ k \in 0 .. Size - 2 /\ k + 1 < Unread
      BY <1>0, <2>2, <2>4
    <3>2. ~Torn(k + 1)
      BY <1>0, <2>1, <2>2, <2>4 DEF Torn
    <3>3. wifi_uart_rx_buf[CellOf(k + 1)] = Len(got) + 1 + (k + 1)
      BY <3>1, <3>2 DEF ContentInv
    <3> QED BY <1>0, <2>1, <2>3, <3>1, <3>3
  <2>5. \A k \in 0 .. Size - 1 :
          (k < Unread /\ ~Torn(k) => wifi_uart_rx_buf[CellOf(k)] = Len(got) + 1 + k)'
    BY <2>4
  <2> QED BY <2>1, <2>5 DEF ContentInv
<1>5. CASE Drop \/ Quiet \/ UNCHANGED vars
  BY <1>5 DEF Drop, Quiet, vars, ContentInv, CellOf, Torn, Unread
<1> QED BY <1>1, <1>2, <1>3, <1>4, <1>5 DEF Next

(* The ring is the queue that Fifo describes, for every size and either    *)
(* order of the stores: the parser reads the bytes that uart_receive_input *)
(* took, each once and in order, wherever it interrupts it; only when the  *)
(* pointer is stored first can the newest byte be read wrong, and only     *)
(* where the rewound pointer is stored, with nothing left to read, can the *)
(* parser be misled.                                                       *)
THEOREM RingIsQueue ==
  ASSUME MaxBacklog < Size
  PROVE  Spec => IsQueue
<1> USE RingAssumption
<1>1. Init => Queue!Init /\ ContentInv
  <2> SUFFICES ASSUME Init PROVE Queue!Init /\ ContentInv
    OBVIOUS
  <2>1. Queue!Init
    BY DEF Init, Queue!Init, Stored
  <2>2. Unread = 0
    BY DEF Init, Unread
  <2> QED BY <2>1, <2>2 DEF Init, ContentInv
<1>2. /\ TypeOK /\ TypeOK' /\ RingInv /\ RingInv' /\ ContentInv /\ [Next]_vars
      => ContentInv' /\ [Queue!Next]_Queue!vars
  <2> SUFFICES ASSUME TypeOK, TypeOK', RingInv, RingInv', ContentInv, [Next]_vars
               PROVE  ContentInv' /\ [Queue!Next]_Queue!vars
    OBVIOUS
  <2>a. ContentInv'
    BY ContentHolds
  <2>b. Unread \in 0 .. Size - 1 /\ Len(got) \in Nat
    BY Places DEF TypeOK
  <2>c. UNCHANGED misled
    BY DEF RingInv, TypeOK
  <2>0. ContentInv' /\ Unread \in 0 .. Size - 1 /\ Len(got) + Unread = Stored
        /\ Len(got) \in Nat
    BY <2>a, <2>b DEF RingInv
  <2>d. UNCHANGED rewinds
    BY MisledStays
  <2>1. CASE Accept \/ StoreByte \/ Drop \/ Quiet \/ UNCHANGED vars
    <3>1. UNCHANGED <<got, order>>
      BY <2>1 DEF Accept, StoreByte, Drop, Quiet, vars
    <3>2. Stored' = Stored
      <4>1. CASE Accept
        BY <4>1 DEF Accept, Arrives, Stored, TypeOK
      <4>2. CASE StoreByte
        BY <4>2 DEF StoreByte, Stored
      <4>3. CASE Drop \/ Quiet \/ UNCHANGED vars
        BY <4>3 DEF Drop, Quiet, vars, Stored
      <4> QED BY <2>1, <4>1, <4>2, <4>3
    <3> QED BY <2>0, <2>c, <2>d, <3>1, <3>2 DEF Queue!vars
  <2>2. CASE StorePointer
    <3>1. UNCHANGED <<got, order>> /\ Stored' = Stored + 1
      BY <2>2 DEF StorePointer, Stored, TypeOK
    <3>2. Unread < MaxBacklog
      BY <2>2 DEF StorePointer, RingInv, Pending
    <3>3. Stored - Len(got) < MaxBacklog
      BY <2>0, <3>2
    <3> QED BY <2>0, <2>c, <2>d, <3>1, <3>3 DEF Queue!Next, Queue!Put
  <2>3. CASE Queue_Read_Byte
    <3>1. got' = Append(got, wifi_uart_rx_buf[CellOf(0)]) /\ UNCHANGED <<order, pc, accepted>>
      BY <2>3 DEF Queue_Read_Byte, CellOf, TypeOK
    <3>2. Stored' = Stored /\ Len(got) < Stored /\ Unread > 0
      <4>1. Unread > 0
        <5>1. ~Mirage
          BY <2>3 DEF Queue_Read_Byte, RingInv
        <5> QED BY <2>3, <5>1, ReadOne
      <4> QED BY <2>0, <3>1, <4>1 DEF Stored
    <3>3. wifi_uart_rx_buf[CellOf(0)] \in Queue!Readable
      <4>1. CASE Torn(0)
        <5>1. order = "pointer" /\ Stored = accepted /\ Stored = Len(got) + 1
          BY <2>0, <4>1 DEF Torn, ContentInv, Stored
        <5>2. CellOf(0) \in 0 .. Size - 1
          BY Places
        <5>3. /\ wifi_uart_rx_buf[CellOf(0)] \in 0 .. MaxBytes
              /\ wifi_uart_rx_buf[CellOf(0)] <= accepted
          BY <5>2 DEF ContentInv, TypeOK
        <5>4. wifi_uart_rx_buf[CellOf(0)] \in 0 .. Stored
          BY <5>1, <5>3
        <5> QED BY <5>1, <5>4 DEF Queue!Readable
      <4>2. CASE ~Torn(0)
        <5>1. wifi_uart_rx_buf[CellOf(0)] = Len(got) + 1
          BY <2>0, <3>2, <4>2 DEF ContentInv
        <5> QED BY <2>0, <3>2, <5>1 DEF Queue!Readable
      <4> QED BY <4>1, <4>2
    <3> QED BY <2>0, <2>c, <2>d, <3>1, <3>2, <3>3 DEF Queue!Next, Queue!Take
  <2> QED BY <2>1, <2>2, <2>3 DEF Next
<1>3. ASSUME TypeOK, RingInv, ~RingInv', RingOrMisled', [Next]_vars
      PROVE  [Queue!Next]_Queue!vars
  <2>1. Queue_Read_Byte /\ Mirage
    BY <1>3, RingStep
  <2>2. rewinds /\ Stored = Len(got)
    BY <1>3, <2>1, MirageEmpty
  <2>3. misled' = TRUE /\ UNCHANGED <<order, rewinds>>
    BY <2>1 DEF Queue_Read_Byte
  <2> QED BY <2>2, <2>3 DEF Queue!Next, Queue!Break
<1>4. ASSUME TypeOK', misled, [Next]_vars
      PROVE  [Queue!Next]_Queue!vars
  <2>1. misled' = TRUE /\ UNCHANGED <<order, rewinds>>
    BY <1>4, MisledStays DEF TypeOK
  <2> QED BY <1>4, <2>1 DEF Queue!Next, Queue!Break
<1>5. /\ TypeOK /\ TypeOK' /\ RingOrMisled /\ RingOrMisled' /\ (misled \/ ContentInv)
      /\ [Next]_vars
      => (misled \/ ContentInv)' /\ [Queue!Next]_Queue!vars
  <2> SUFFICES ASSUME TypeOK, TypeOK', RingOrMisled, RingOrMisled', misled \/ ContentInv,
                      [Next]_vars
               PROVE  (misled \/ ContentInv)' /\ [Queue!Next]_Queue!vars
    OBVIOUS
  <2>1. CASE misled
    BY <1>4, <2>1, MisledStays
  <2>2. CASE ~misled /\ RingInv'
    BY <1>2, <2>2 DEF RingOrMisled
  <2>3. CASE ~misled /\ ~RingInv'
    BY <1>3, <2>3 DEF RingOrMisled
  <2> QED BY <2>1, <2>2, <2>3
<1> QED BY <1>1, <1>5, RingInvariant, PTL DEF Spec, IsQueue, Queue!Spec

-----------------------------------------------------------------------------
(* The parser.                                                             *)

(* No length field on the line is so large that the whole frame's length   *)
(* does not fit into the 16 bits of rx_value_len.                          *)
ShortLengths ==
  \A s \in Streams : \A i \in 2 .. Len(s.bytes) :
    ~(s.bytes[i - 1] = 255 /\ s.bytes[i] > 248)

Byte == 0 .. 255

(* What wifi_data_process_buf holds are the bytes of the line read last.   *)
WindowInv ==
  /\ stream \in Streams /\ fed \in 0 .. Len(Line)
  /\ buf \in Seq(Byte) /\ Len(buf) <= BufSize /\ Len(buf) <= fed
  /\ \A i \in 1 .. Len(buf) : buf[i] = Line[fed - Len(buf) + i]
  /\ offset \in 0 .. Len(buf) /\ turn \in {"fill", "scan"}
  /\ turn = "fill" => offset = 0
  /\ handled \subseteq 0 .. Len(Line)

Place == fed - Len(buf) + offset      \* of the parser on the line

-----------------------------------------------------------------------------
LEMMA ByteNat == \A x \in Byte : x \in Nat /\ x <= 255
BY DEF Byte

(* A part of a sequence of bytes.                                          *)
LEMMA Cut ==
  ASSUME NEW s \in Seq(Byte), NEW a \in Nat, NEW b \in Nat, a <= b, b <= Len(s)
  PROVE  /\ SubSeq(s, a + 1, b) \in Seq(Byte) /\ Len(SubSeq(s, a + 1, b)) = b - a
         /\ \A i \in 1 .. b - a : SubSeq(s, a + 1, b)[i] = s[a + i]
<1>1. \A i \in a + 1 .. b : s[i] \in Byte
  OBVIOUS
<1>2. /\ SubSeq(s, a + 1, b) \in Seq(Byte)
      /\ Len(SubSeq(s, a + 1, b)) = IF a + 1 <= b THEN b - (a + 1) + 1 ELSE 0
      /\ \A i \in 1 .. b - (a + 1) + 1 : SubSeq(s, a + 1, b)[i] = s[a + 1 + i - 1]
  <2>1. a + 1 \in Int /\ b \in Int
    OBVIOUS
  <2> QED BY <1>1, <2>1, SubSeqProperties
<1>3. /\ b - (a + 1) + 1 = b - a
      /\ \A i \in 1 .. b - a : a + 1 + i - 1 = a + i
  OBVIOUS
<1>4. (IF a + 1 <= b THEN b - (a + 1) + 1 ELSE 0) = b - a
  OBVIOUS
<1> HIDE DEF Byte
<1> QED BY <1>2, <1>3, <1>4

(* The lines.                                                              *)
LEMMA LineType ==
  ASSUME stream \in Streams
  PROVE  /\ Line \in Seq(Byte) /\ Len(Line) \in Nat
         /\ \A i \in 1 .. Len(Line) : Line[i] \in Byte
         /\ BufSize \in Nat
<1>1. Line \in Seq(Byte) /\ BufSize \in Nat
  BY ParserAssumption DEF Line, Byte
<1> QED BY <1>1

(* Lengths of frames.                                                      *)
LEMMA Lengths ==
  ASSUME NEW s \in Seq(Byte), NEW o \in Nat, o + 7 <= Len(s)
  PROVE  /\ WholeLen(s, o) \in Nat /\ WholeLen(s, o) >= 7
         /\ FrameLen(s, o) \in Nat
         /\ FrameLen(s, o) <= WholeLen(s, o)
         /\ WholeLen(s, o) < 65536 => FrameLen(s, o) = WholeLen(s, o)
<1>1. s[o + 5] \in Byte /\ s[o + 6] \in Byte
  OBVIOUS
<1>2. WholeLen(s, o) = s[o + 5] * 256 + s[o + 6] + 7
  BY <1>1 DEF WholeLen, At, HIGH, LOW, PROTOCOL_HEAD, Byte
<1>3. WholeLen(s, o) \in Nat /\ WholeLen(s, o) >= 7
  <2> DEFINE h == s[o + 5]
             l == s[o + 6]
  <2>1. h \in Nat /\ l \in Nat
    BY <1>1, ByteNat
  <2>2. WholeLen(s, o) = h * 256 + l + 7
    BY <1>2
  <2> HIDE DEF h, l
  <2> QED BY <2>1, <2>2
<1> QED
  BY <1>3 DEF FrameLen

(* What the parser looks at in the buffer is what is on the line.          *)
LEMMA SameBytes ==
  ASSUME WindowInv, Len(buf) - offset >= 7
  PROVE  /\ Place \in Nat /\ Place + 7 <= Len(Line)
         /\ \A i \in 0 .. Len(buf) - offset - 1 : At(buf, offset, i) = At(Line, Place, i)
         /\ Header(buf, offset) <=> Header(Line, Place)
         /\ WholeLen(buf, offset) = WholeLen(Line, Place)
         /\ FrameLen(buf, offset) = FrameLen(Line, Place)
<1>0. Line \in Seq(Byte) /\ Len(Line) \in Nat
  BY LineType DEF WindowInv
<1>1. Place \in Nat /\ Place + 7 <= Len(Line)
  BY <1>0 DEF WindowInv, Place
<1>2. \A i \in 0 .. Len(buf) - offset - 1 : At(buf, offset, i) = At(Line, Place, i)
  <2> SUFFICES ASSUME NEW i \in 0 .. Len(buf) - offset - 1
               PROVE  buf[offset + i + 1] = Line[Place + i + 1]
    BY DEF At
  <2>1. offset + i + 1 \in 1 .. Len(buf)
    BY DEF WindowInv
  <2>2. buf[offset + i + 1] = Line[fed - Len(buf) + (offset + i + 1)]
    BY <2>1 DEF WindowInv
  <2>3. fed - Len(buf) + (offset + i + 1) = Place + i + 1
    BY DEF WindowInv, Place
  <2> QED BY <2>2, <2>3
<1>3. \A i \in 0 .. 6 : At(buf, offset, i) = At(Line, Place, i)
  BY <1>2 DEF WindowInv
<1>4. Header(buf, offset) <=> Header(Line, Place)
  BY <1>3 DEF Header
<1>5. WholeLen(buf, offset) = WholeLen(Line, Place)
  BY <1>3 DEF WholeLen, HIGH, LOW
<1>6. FrameLen(buf, offset) = FrameLen(Line, Place)
  BY <1>5 DEF FrameLen
<1> QED BY <1>1, <1>2, <1>4, <1>5, <1>6

(* What the parser takes out of the ring at once.                          *)
LEMMA Portion ==
  ASSUME WindowInv, NEW n \in 1 .. Len(Line) - fed
  PROVE  LET k == Min({n, BufSize - Len(buf)})
             t == SubSeq(Line, fed + 1, fed + k)
         IN  /\ k \in Nat /\ Len(buf) + k <= BufSize /\ fed + k <= Len(Line)
             /\ t \in Seq(Byte) /\ Len(t) = k /\ \A i \in 1 .. k : t[i] = Line[fed + i]
<1> DEFINE k == Min({n, BufSize - Len(buf)})
           t == SubSeq(Line, fed + 1, fed + k)
<1>0. /\ Line \in Seq(Byte) /\ Len(Line) \in Nat /\ BufSize \in Nat
      /\ Len(buf) \in Nat /\ fed \in Nat
  BY LineType DEF WindowInv
<1>1. k \in Nat /\ k <= n /\ k <= BufSize - Len(buf)
  <2>1. n \in Nat /\ BufSize - Len(buf) \in Nat
    BY <1>0 DEF WindowInv
  <2>2. \E m \in {n, BufSize - Len(buf)} : \A y \in {n, BufSize - Len(buf)} : m <= y
    BY <2>1
  <2> QED BY <2>1, <2>2 DEF Min
<1> HIDE DEF k
<1> DEFINE b == fed + k
<1>2. b \in Nat /\ fed <= b /\ b - fed = k /\ b <= Len(Line) /\ Len(buf) + k <= BufSize
  BY <1>0, <1>1
<1>3. t = SubSeq(Line, fed + 1, b)
  OBVIOUS
<1> HIDE DEF b, t
<1>4. t \in Seq(Byte) /\ Len(t) = k /\ \A i \in 1 .. k : t[i] = Line[fed + i]
  BY <1>0, <1>2, <1>3, Cut
<1> QED BY <1>1, <1>2, <1>4 DEF b, k, t

-----------------------------------------------------------------------------
LEMMA WindowStart == ParserInit => WindowInv
BY LineType DEF ParserInit, WindowInv, Line

(* The window moves along the line.                                        *)
LEMMA WindowStep ==
  ASSUME WindowInv, [ParserNext]_parserVars
  PROVE  WindowInv'
<1>0. /\ Line \in Seq(Byte) /\ Len(Line) \in Nat /\ BufSize \in Nat
      /\ Len(buf) \in Nat /\ fed \in Nat
  BY LineType DEF WindowInv
<1>1. ASSUME NEW n \in 1 .. Len(Line) - fed, Fill(n) PROVE WindowInv'
  <2> DEFINE k == Min({n, BufSize - Len(buf)})
             t == SubSeq(Line, fed + 1, fed + k)
  <2>1. k \in Nat /\ Len(buf) + k <= BufSize /\ fed + k <= Len(Line)
    BY Portion
  <2>2. fed + k <= Len(Line)
    BY <2>1
  <2>3. t \in Seq(Byte) /\ Len(t) = k /\ \A i \in 1 .. k : t[i] = Line[fed + i]
    BY Portion
  <2> HIDE DEF k, t
  <2>4. /\ buf' = buf \o t /\ fed' = fed + k /\ offset' = 0 /\ turn' = "scan"
        /\ stream' = stream /\ handled' = handled /\ turn = "fill"
    BY <1>1 DEF Fill, rx_in, k, t
  <2>5. buf' \in Seq(Byte) /\ Len(buf') = Len(buf) + k
    <3>1. buf \o t \in Seq(Byte) /\ Len(buf \o t) = Len(buf) + Len(t)
      <4>1. buf \in Seq(Byte) /\ t \in Seq(Byte)
        BY <2>3 DEF WindowInv
      <4> QED BY <4>1, ConcatProperties
    <3> QED BY <2>3, <2>4, <3>1
  <2>6. ASSUME NEW i \in 1 .. Len(buf') PROVE buf'[i] = Line[fed' - Len(buf') + i]
    <3>1. fed' - Len(buf') = fed - Len(buf)
      BY <2>4, <2>5, <1>0, <2>1
    <3>2. CASE i <= Len(buf)
      <4>1. buf'[i] = buf[i]
        BY <3>2, <2>3, <2>4, <2>5, <1>0, <2>1 DEF WindowInv
      <4> QED BY <4>1, <3>1, <3>2, <1>0, <2>5, <2>1 DEF WindowInv
    <3>3. CASE i > Len(buf)
      <4>1. buf'[i] = t[i - Len(buf)] /\ i - Len(buf) \in 1 .. k
        BY <3>3, <2>3, <2>4, <2>5, <1>0, <2>1 DEF WindowInv
      <4>2. t[i - Len(buf)] = Line[fed + (i - Len(buf))]
        BY <4>1, <2>3
      <4>3. fed + (i - Len(buf)) = fed - Len(buf) + i
        BY <1>0, <2>5, <2>1
      <4> QED BY <4>1, <4>2, <4>3, <3>1
    <3> QED BY <3>2, <3>3, <1>0, <2>1, <2>5
  <2>7. Line' = Line
    BY <2>4 DEF Line
  <2> QED BY <2>1, <2>2, <2>4, <2>5, <2>6, <2>7, <1>0 DEF WindowInv
<1>2. CASE SkipByte \/ TooLong \/ BadSum
  <2>1. /\ offset' \in {offset + 1, offset + 3} /\ turn = "scan" /\ Len(buf) - offset >= 7
        /\ stream' = stream /\ fed' = fed /\ buf' = buf /\ turn' = turn /\ handled' = handled
    BY <1>2 DEF SkipByte, TooLong, BadSum, Complete, Candidate, Scanning, rx_in,
                PROTOCOL_HEAD
  <2>2. Line' = Line
    BY <2>1 DEF Line
  <2> QED BY <2>1, <2>2, <1>0 DEF WindowInv
<1>3. CASE Handle
  <2>1. /\ offset' = offset + FrameLen(buf, offset) /\ turn = "scan"
        /\ Len(buf) - offset >= 7 /\ Len(buf) - offset >= FrameLen(buf, offset)
        /\ stream' = stream /\ fed' = fed /\ buf' = buf /\ turn' = turn
        /\ handled' = handled \cup {Place}
    BY <1>3 DEF Handle, Complete, Candidate, Scanning, rx_in, PROTOCOL_HEAD, Place
  <2>2. Line' = Line
    BY <2>1 DEF Line
  <2>3. FrameLen(buf, offset) \in Nat
    <3>1. buf \in Seq(Byte) /\ offset \in Nat /\ offset + 7 <= Len(buf)
      BY <2>1, <1>0 DEF WindowInv
    <3> QED BY <3>1, Lengths
  <2>4. Place \in 0 .. Len(Line)
    BY <1>0 DEF WindowInv, Place
  <2>5. offset' \in 0 .. Len(buf)
    BY <2>1, <2>3, <1>0 DEF WindowInv
  <2> QED BY <2>1, <2>2, <2>4, <2>5, <1>0 DEF WindowInv
<1>4. CASE Keep
  <2>1. /\ buf' = SubSeq(buf, offset + 1, Len(buf)) /\ turn' = "fill" /\ offset' = 0
        /\ stream' = stream /\ fed' = fed /\ handled' = handled
    BY <1>4 DEF Keep, rx_in
  <2>2. Line' = Line
    BY <2>1 DEF Line
  <2>3. offset \in 0 .. Len(buf)
    BY DEF WindowInv
  <2>4. /\ buf' \in Seq(Byte) /\ Len(buf') = Len(buf) - offset
        /\ \A i \in 1 .. Len(buf') : buf'[i] = buf[offset + i]
    BY <2>1, <2>3, <1>0, Cut DEF WindowInv
  <2>5. ASSUME NEW i \in 1 .. Len(buf') PROVE buf'[i] = Line[fed' - Len(buf') + i]
    <3>1. offset + i \in 1 .. Len(buf)
      BY <2>3, <2>4, <1>0
    <3>2. buf[offset + i] = Line[fed - Len(buf) + (offset + i)]
      BY <3>1 DEF WindowInv
    <3>3. fed - Len(buf) + (offset + i) = fed' - Len(buf') + i
      <4>1. i \in Nat /\ fed' = fed /\ Len(buf') = Len(buf) - offset /\ offset \in Nat
        BY <2>1, <2>3, <2>4, <3>1
      <4> QED BY <4>1, <1>0
    <3> QED BY <3>2, <3>3, <2>4
  <2>6. Len(buf') \in Nat /\ Len(buf') <= Len(buf)
    BY <2>3, <2>4, <1>0
  <2>7. Len(buf') <= BufSize /\ Len(buf') <= fed
    BY <2>6, <1>0 DEF WindowInv
  <2>8. /\ stream' \in Streams /\ fed' \in 0 .. Len(Line')
        /\ handled' \subseteq 0 .. Len(Line') /\ Len(buf') <= fed'
    BY <2>1, <2>2, <2>7 DEF WindowInv
  <2>9. \A i \in 1 .. Len(buf') : buf'[i] = Line'[fed' - Len(buf') + i]
    BY <2>2, <2>5
  <2>10. offset' \in 0 .. Len(buf')
    <3>1. offset' = 0
      BY <2>1
    <3> QED BY <3>1, <2>6
  <2> QED BY <2>1, <2>4, <2>7, <2>8, <2>9, <2>10 DEF WindowInv
<1>5. CASE UNCHANGED parserVars
  BY <1>5 DEF parserVars, WindowInv, Line
<1> QED BY <1>1, <1>2, <1>3, <1>4, <1>5 DEF ParserNext


(* The buffer and the parser's place in it stay in range, whatever is on   *)
(* the line.                                                               *)
THEOREM ParserTypeCorrect == ParserSpec => []ParserTypeOK
<1>1. ParserInit => WindowInv
  BY WindowStart
<1>2. WindowInv /\ [ParserNext]_parserVars => WindowInv'
  BY WindowStep
<1>3. WindowInv => ParserTypeOK
  BY LineType DEF WindowInv, ParserTypeOK, rx_in, Byte
<1> QED BY <1>1, <1>2, <1>3, PTL DEF ParserSpec

-----------------------------------------------------------------------------
(* The frames of a line.                                                   *)

(* One round of the reference's turn, f telling what it finds further on.  *)
Round(s, p, f) ==
  IF Len(s) - p < PROTOCOL_HEAD THEN {}
  ELSE IF ~Header(s, p) THEN f[p + 1]
  ELSE IF WholeLen(s, p) > BufSize THEN f[p + 3]
  ELSE IF p + WholeLen(s, p) > Len(s) THEN {}
  ELSE IF ~SumOK(s, p) THEN f[p + 3]
  ELSE {p} \cup f[p + WholeLen(s, p)]

IsScan(s, f) == f = [p \in 0 .. Len(s) |-> Round(s, p, f)]
Scan(s)      == CHOOSE f : IsScan(s, f)

(* The recursive function of the reference is this one.                    *)
LEMMA FramesScan == \A s : FramesOf(s) = Scan(s)[0]
BY DEF FramesOf, Scan, IsScan, Round

(* A round looks only at what comes behind its place.                      *)
LEMMA RoundAhead ==
  ASSUME NEW s \in Seq(Byte), NEW p \in 0 .. Len(s),
         NEW f \in [0 .. Len(s) -> SUBSET Nat], NEW g \in [0 .. Len(s) -> SUBSET Nat],
         \A q \in 0 .. Len(s) : q > p => f[q] = g[q]
  PROVE  Round(s, p, f) = Round(s, p, g) /\ Round(s, p, f) \in SUBSET Nat
<1>1. CASE Len(s) - p < 7
  BY <1>1 DEF Round, PROTOCOL_HEAD
<1>2. CASE Len(s) - p >= 7
  <2> DEFINE w == WholeLen(s, p)
  <2>1. w \in Nat /\ w >= 7
    BY <1>2, Lengths
  <2> HIDE DEF w
  <2>2. p + 1 \in 0 .. Len(s) /\ p + 3 \in 0 .. Len(s) /\ p + 1 > p /\ p + 3 > p
    BY <1>2
  <2>3. ~(p + w > Len(s)) => p + w \in 0 .. Len(s) /\ p + w > p
    BY <2>1
  <2>4. /\ f[p + 1] = g[p + 1] /\ f[p + 3] = g[p + 3]
        /\ f[p + 1] \in SUBSET Nat /\ f[p + 3] \in SUBSET Nat
    BY <2>2
  <2>5. ~(p + w > Len(s)) => f[p + w] = g[p + w] /\ f[p + w] \in SUBSET Nat
    BY <2>3
  <2>6. p \in Nat
    OBVIOUS
  <2>7. Round(s, p, f) = Round(s, p, g)
    BY <2>4, <2>5 DEF Round, w
  <2>8. ~(p + w > Len(s)) => {p} \cup f[p + w] \in SUBSET Nat
    BY <2>5, <2>6
  <2>9. Round(s, p, f) \in SUBSET Nat
    BY <2>4, <2>8 DEF Round, w
  <2> QED BY <2>7, <2>9
<1> QED BY <1>1, <1>2

(* The reference's recursion ends, so that it defines something.           *)
LEMMA ScanExists ==
  ASSUME NEW s \in Seq(Byte) PROVE \E f \in [0 .. Len(s) -> SUBSET Nat] : IsScan(s, f)
<1> DEFINE n     == Len(s)
           F     == [0 .. n -> SUBSET Nat]
           G(k)  == {g \in F : \A p \in 0 .. n : p >= n - k => g[p] = Round(s, p, g)}
           K     == {k \in Nat : k <= n /\ G(k) = {}}
<1>0. n \in Nat
  OBVIOUS
<1>1. G(0) # {}
  <2> DEFINE g == [p \in 0 .. n |-> {}]
  <2>1. g \in F
    OBVIOUS
  <2>2. \A p \in 0 .. n : p >= n - 0 => p = n
    BY <1>0
  <2>3. Round(s, n, g) = {}
    BY <1>0 DEF Round, PROTOCOL_HEAD
  <2> QED BY <2>1, <2>2, <2>3
<1>2. ASSUME NEW k \in Nat, k + 1 <= n, G(k) # {} PROVE G(k + 1) # {}
  <2>1. PICK g \in F : \A p \in 0 .. n : p >= n - k => g[p] = Round(s, p, g)
    BY <1>2
  <2> DEFINE m == n - (k + 1)
             h == [g EXCEPT ![m] = Round(s, m, g)]
  <2>2. m \in 0 .. n
    BY <1>0, <1>2
  <2>3. Round(s, m, g) \in SUBSET Nat
    BY <2>2, RoundAhead
  <2>4. h \in F
    BY <2>3
  <2>5. \A p \in 0 .. n : p # m => h[p] = g[p]
    OBVIOUS
  <2>6. h[m] = Round(s, m, g)
    BY <2>2
  <2>7. \A p \in 0 .. n : p >= n - (k + 1) => p = m \/ (p >= n - k /\ p > m)
    BY <1>0, <2>2
  <2>8. \A p \in 0 .. n : p >= m => Round(s, p, g) = Round(s, p, h)
    <3> HIDE DEF m, h, n
    <3> SUFFICES ASSUME NEW p \in 0 .. n, p >= m PROVE Round(s, p, g) = Round(s, p, h)
      OBVIOUS
    <3>1. \A q \in 0 .. n : q > p => g[q] = h[q]
      BY <2>2, <2>5, <1>0
    <3> QED BY <3>1, <2>4, RoundAhead DEF n
  <2>9. \A p \in 0 .. n : p > m => p >= m
    BY <2>2
  <2> HIDE DEF h
  <2>10. \A p \in 0 .. n : p >= n - (k + 1) => h[p] = Round(s, p, h)
    BY <2>1, <2>2, <2>5, <2>6, <2>7, <2>8, <2>9
  <2> QED BY <2>4, <2>10
<1>3. K = {}
  <2> SUFFICES ASSUME K # {} PROVE FALSE
    OBVIOUS
  <2>1. PICK k \in K : \A j \in K : ~(<<j, k>> \in OpToRel(<, Nat))
    BY WFMin, NatLessThanWellFounded, Zenon
  <2>2. k # 0
    BY <1>1, <2>1
  <2>3. k - 1 \in Nat /\ k - 1 <= n /\ (k - 1) + 1 = k
    <3>1. k \in Nat /\ k <= n
      OBVIOUS
    <3> HIDE DEF K, n
    <3> QED BY <3>1, <2>2, <1>0
  <2>4. k - 1 \notin K
    <3>1. k \in Nat
      OBVIOUS
    <3> HIDE DEF K, n
    <3>2. <<k - 1, k>> \in OpToRel(<, Nat)
      BY <3>1, <2>3 DEF OpToRel
    <3> QED BY <3>2, <2>1
  <2>5. G(k - 1) # {}
    BY <2>3, <2>4
  <2> HIDE DEF G
  <2>6. G((k - 1) + 1) # {}
    BY <2>1, <2>3, <2>5, <1>2
  <2> QED BY <2>1, <2>3, <2>6
<1>4. G(n) # {}
  <2> HIDE DEF G, n
  <2> QED BY <1>0, <1>3
<1>5. PICK f \in F : \A p \in 0 .. n : p >= n - n => f[p] = Round(s, p, f)
  BY <1>4
<1>6. \A p \in 0 .. n : f[p] = Round(s, p, f)
  BY <1>0, <1>5
<1>7. f = [p \in 0 .. n |-> Round(s, p, f)]
  BY <1>5, <1>6
<1> QED BY <1>5, <1>7 DEF IsScan

(* Unfolding the recursion.                                                *)
LEMMA ScanRound ==
  ASSUME NEW s \in Seq(Byte)
  PROVE  \A p \in 0 .. Len(s) : Scan(s)[p] = Round(s, p, Scan(s))
<1>1. \E f : IsScan(s, f)
  BY ScanExists
<1>2. IsScan(s, Scan(s))
  BY <1>1, Zenon DEF Scan
<1> QED BY <1>2 DEF IsScan

-----------------------------------------------------------------------------
(* Portions.                                                               *)

(* What has been handed on, and what the reference finds behind the        *)
(* parser's place, are all frames of the line.                             *)
FoundInv == handled \cup Scan(Line)[Place] = Scan(Line)[0]

(* Between two calls the buffer holds less than a head, or the beginning   *)
(* of a frame that fits into it.                                           *)
RestInv ==
  turn = "fill" =>
    \/ Len(buf) < 7
    \/ /\ Header(buf, 0) /\ FrameLen(buf, 0) <= BufSize
       /\ FrameLen(buf, 0) > Len(buf)

(* What Keep leaves in the buffer.                                         *)
LEMMA RestStep ==
  ASSUME WindowInv, RestInv, [ParserNext]_parserVars
  PROVE  RestInv'
<1>0. Len(buf) \in Nat /\ buf \in Seq(Byte) /\ offset \in 0 .. Len(buf)
  BY DEF WindowInv
<1>1. CASE turn' = "scan"
  BY <1>1 DEF RestInv
<1>2. CASE Keep
  <2>1. /\ buf' = SubSeq(buf, offset + 1, Len(buf)) /\ turn' = "fill"
        /\ Len(buf) - offset < 7 \/ (Candidate /\ ~Complete)
    BY <1>2 DEF Keep, rx_in, PROTOCOL_HEAD
  <2>2. /\ Len(buf') = Len(buf) - offset
        /\ \A i \in 1 .. Len(buf') : buf'[i] = buf[offset + i]
    BY <2>1, <1>0, Cut
  <2>3. CASE Len(buf) - offset < 7
    BY <2>2, <2>3 DEF RestInv
  <2>4. CASE Len(buf) - offset >= 7
    <3>1. /\ Header(buf, offset) /\ FrameLen(buf, offset) <= BufSize
          /\ ~(Len(buf) - offset >= FrameLen(buf, offset))
      <4>1. ~(Len(buf) - offset < 7)
        BY <1>0, <2>4
      <4>2. Candidate /\ ~Complete
        BY <2>1, <4>1
      <4>3. FrameLen(buf, offset) \in Nat /\ BufSize \in Nat
        BY <1>0, <2>4, Lengths, LineType DEF WindowInv
      <4>4. /\ Header(buf, offset) /\ ~(FrameLen(buf, offset) > BufSize)
            /\ ~(Len(buf) - offset >= FrameLen(buf, offset))
        BY <4>2 DEF Candidate, Complete, TooBig, rx_in
      <4> QED BY <4>3, <4>4
    <3>2. FrameLen(buf, offset) \in Nat
      BY <1>0, <2>4, Lengths
    <3>3. \A i \in 0 .. 6 : At(buf', 0, i) = At(buf, offset, i)
      <4> SUFFICES ASSUME NEW i \in 0 .. 6 PROVE buf'[0 + i + 1] = buf[offset + i + 1]
        BY DEF At
      <4>1. i + 1 \in 1 .. Len(buf') /\ 0 + i + 1 = i + 1 /\ offset + (i + 1) = offset + i + 1
        BY <2>2, <2>4, <1>0
      <4> QED BY <4>1, <2>2
    <3>4. Header(buf', 0) <=> Header(buf, offset)
      BY <3>3 DEF Header
    <3>5. FrameLen(buf', 0) = FrameLen(buf, offset)
      BY <3>3 DEF FrameLen, WholeLen, HIGH, LOW
    <3>6. FrameLen(buf, offset) > Len(buf')
      BY <3>1, <3>2, <2>2, <1>0
    <3> QED BY <3>1, <3>4, <3>5, <3>6 DEF RestInv
  <2> QED BY <2>3, <2>4, <1>0
<1>3. CASE UNCHANGED parserVars
  BY <1>3 DEF parserVars, RestInv
<1> QED
  BY <1>1, <1>2, <1>3 DEF ParserNext, Fill, SkipByte, TooLong, BadSum, Handle,
     Complete, Candidate, Scanning

(* With short lengths 16 bits are enough.                                  *)
LEMMA SameLength ==
  ASSUME ShortLengths, WindowInv, Len(buf) - offset >= 7
  PROVE  FrameLen(buf, offset) = WholeLen(buf, offset)
<1> DEFINE o == Place
           h == Line[o + 5]
           l == Line[o + 6]
<1>0. Line \in Seq(Byte) /\ Len(Line) \in Nat /\ stream \in Streams
  BY LineType DEF WindowInv
<1>1. /\ o \in Nat /\ o + 7 <= Len(Line)
      /\ WholeLen(buf, o) = WholeLen(buf, o)
  BY SameBytes
<1>2. h \in Byte /\ l \in Byte
  BY <1>0, <1>1
<1>3. ~(h = 255 /\ l > 248)
  <2>1. o + 6 \in 2 .. Len(stream.bytes) /\ (o + 6) - 1 = o + 5
    BY <1>0, <1>1 DEF Line
  <2> QED BY <2>1, <1>0 DEF ShortLengths, Line
<1>4. WholeLen(Line, o) = h * 256 + l + 7
  BY <1>1 DEF WholeLen, At, HIGH, LOW, PROTOCOL_HEAD
<1>5. h * 256 + l + 7 < 65536
  <2> HIDE DEF h, l
  <2>1. h \in Nat /\ l \in Nat /\ h <= 255 /\ l <= 255
    BY <1>2, ByteNat
  <2> QED BY <2>1, <1>3
<1>6. FrameLen(Line, o) = WholeLen(Line, o)
  BY <1>0, <1>1, <1>4, <1>5, Lengths
<1> QED BY <1>6, SameBytes

(* A frame that is complete in the buffer has the same checksum there.     *)
LEMMA SameSum ==
  ASSUME WindowInv, Len(buf) - offset >= 7,
         FrameLen(buf, offset) > 0, FrameLen(buf, offset) <= Len(buf) - offset
  PROVE  SumOK(buf, offset) <=> SumOK(Line, Place)
<1> DEFINE n == FrameLen(buf, offset)
           a == SubSeq(buf, offset + 1, offset + n - 1)
           b == SubSeq(Line, Place + 1, Place + n - 1)
<1>0. /\ Line \in Seq(Byte) /\ Len(Line) \in Nat
      /\ buf \in Seq(Byte) /\ Len(buf) \in Nat /\ offset \in Nat /\ offset <= Len(buf)
  BY LineType DEF WindowInv
<1>1. n \in Nat /\ n > 0
  BY <1>0, Lengths
<1>2. /\ Place \in Nat
      /\ \A i \in 0 .. Len(buf) - offset - 1 : At(buf, offset, i) = At(Line, Place, i)
      /\ n = FrameLen(Line, Place)
  BY SameBytes
<1>3. Place + n <= Len(Line)
  BY <1>0, <1>1 DEF Place, WindowInv
<1> HIDE DEF n
<1>4. a \in Seq(Byte) /\ Len(a) = n - 1 /\ \A i \in 1 .. n - 1 : a[i] = buf[offset + i]
  <2> DEFINE e == offset + n - 1
  <2>1. e \in Nat /\ offset <= e /\ e <= Len(buf) /\ e - offset = n - 1
    BY <1>0, <1>1 DEF n
  <2> HIDE DEF e
  <2>2. a = SubSeq(buf, offset + 1, e)
    BY DEF e
  <2> HIDE DEF a
  <2> QED BY <2>1, <2>2, <1>0, Cut
<1>5. b \in Seq(Byte) /\ Len(b) = n - 1 /\ \A i \in 1 .. n - 1 : b[i] = Line[Place + i]
  <2> DEFINE e == Place + n - 1
  <2>1. e \in Nat /\ Place <= e /\ e <= Len(Line) /\ e - Place = n - 1
    BY <1>0, <1>1, <1>2, <1>3
  <2> HIDE DEF e
  <2>2. b = SubSeq(Line, Place + 1, e)
    BY DEF e
  <2> HIDE DEF b
  <2> QED BY <2>1, <2>2, <1>0, <1>2, Cut
<1>6. \A i \in 1 .. n - 1 : buf[offset + i] = Line[Place + i]
  <2> SUFFICES ASSUME NEW i \in 1 .. n - 1 PROVE buf[offset + i] = Line[Place + i]
    OBVIOUS
  <2>1. i - 1 \in 0 .. Len(buf) - offset - 1
    BY <1>0, <1>1 DEF n
  <2>2. At(buf, offset, i - 1) = At(Line, Place, i - 1)
    BY <1>2, <2>1
  <2>3. offset + (i - 1) + 1 = offset + i /\ Place + (i - 1) + 1 = Place + i
    BY <1>0, <1>1, <1>2
  <2> QED BY <2>2, <2>3 DEF At
<1>7. a = b
  <2> HIDE DEF a, b
  <2> QED BY <1>4, <1>5, <1>6, SeqEqual
<1>8. At(buf, offset, n - 1) = At(Line, Place, n - 1)
  <2>1. n - 1 \in 0 .. Len(buf) - offset - 1
    BY <1>0, <1>1 DEF n
  <2> QED BY <1>2, <2>1
<1>9. SumOK(buf, offset) <=> get_check_sum(a) = At(buf, offset, n - 1)
  BY DEF SumOK, n
<1>10. SumOK(Line, Place) <=> get_check_sum(b) = At(Line, Place, n - 1)
  BY <1>2 DEF SumOK
<1> HIDE DEF a, b
<1> QED BY <1>7, <1>8, <1>9, <1>10

(* Every round of the parser is one of the reference.                      *)
LEMMA FoundStep ==
  ASSUME ShortLengths, WindowInv, FoundInv, [ParserNext]_parserVars
  PROVE  FoundInv'
<1> DEFINE S == Scan(Line)
           w == WholeLen(Line, Place)
<1>0. /\ Line \in Seq(Byte) /\ Len(Line) \in Nat /\ BufSize \in Nat
      /\ buf \in Seq(Byte) /\ Len(buf) \in Nat /\ fed \in Nat /\ offset \in Nat
      /\ fed <= Len(Line) /\ Len(buf) <= fed /\ offset <= Len(buf)
  BY LineType DEF WindowInv
<1>1. Place \in 0 .. Len(Line) /\ Place \in Nat
  BY <1>0 DEF Place
<1>2. S[Place] = Round(Line, Place, S)
  BY <1>0, <1>1, ScanRound
<1> HIDE DEF S
<1>3. ASSUME stream' = stream, handled' = handled, Place' = Place PROVE FoundInv'
  BY <1>3 DEF FoundInv, Line
<1>4. ASSUME stream' = stream, handled' = handled, S[Place'] = S[Place] PROVE FoundInv'
  BY <1>4 DEF FoundInv, Line, S
<1>5. ASSUME NEW n \in 1 .. Len(Line) - fed, Fill(n) PROVE FoundInv'
  <2> DEFINE k == Min({n, BufSize - Len(buf)})
             t == SubSeq(Line, fed + 1, fed + k)
  <2>1. /\ buf' = buf \o t /\ fed' = fed + k /\ offset' = 0 /\ turn = "fill"
        /\ stream' = stream /\ handled' = handled
    BY <1>5 DEF Fill, rx_in
  <2>2. offset = 0
    BY <2>1 DEF WindowInv
  <2>3. k \in Nat /\ t \in Seq(Byte) /\ Len(t) = k
    BY <1>0, <1>5, Portion DEF WindowInv
  <2> HIDE DEF k, t
  <2>4. Len(buf') = Len(buf) + k
    <3>1. Len(buf \o t) = Len(buf) + Len(t)
      BY <2>3, <1>0, ConcatProperties
    <3> QED BY <2>1, <2>3, <3>1
  <2>5. Place' = Place
    BY <2>1, <2>2, <2>3, <2>4, <1>0 DEF Place
  <2> QED BY <1>3, <2>1, <2>5
<1>6. ASSUME Scanning
      PROVE  /\ turn = "scan" /\ Len(buf) - offset >= 7 /\ ~(Len(Line) - Place < 7)
             /\ Header(buf, offset) <=> Header(Line, Place)
             /\ FrameLen(buf, offset) = w /\ w \in Nat /\ w >= 7
  <2>1. turn = "scan" /\ Len(buf) - offset >= 7
    BY <1>6 DEF Scanning, rx_in, PROTOCOL_HEAD
  <2>2. FrameLen(buf, offset) = w
    BY <2>1, SameBytes, SameLength
  <2>3. Place + 7 <= Len(Line) /\ (Header(buf, offset) <=> Header(Line, Place))
    BY <2>1, SameBytes
  <2>4. w \in Nat /\ w >= 7
    BY <2>3, <1>0, <1>1, Lengths
  <2> QED BY <2>1, <2>2, <2>3, <2>4, <1>0, <1>1
<1>7. ASSUME offset' = offset + 1 \/ offset' = offset + 3, buf' = buf, fed' = fed
      PROVE  Place' = Place + (offset' - offset)
  BY <1>7, <1>0 DEF Place
<1>8. CASE SkipByte
  <2>1. /\ Scanning /\ ~Header(buf, offset) /\ offset' = offset + 1
        /\ buf' = buf /\ fed' = fed /\ stream' = stream /\ handled' = handled
    BY <1>8 DEF SkipByte
  <2>2. S[Place] = S[Place + 1]
    BY <2>1, <1>2, <1>6 DEF Round, PROTOCOL_HEAD
  <2>3. Place' = Place + 1
    BY <2>1, <1>0 DEF Place
  <2> QED BY <2>1, <2>2, <2>3, <1>4
<1>9. CASE TooLong
  <2>1. /\ Scanning /\ Header(buf, offset) /\ offset' = offset + 3
        /\ FrameLen(buf, offset) > BufSize
        /\ buf' = buf /\ fed' = fed /\ stream' = stream /\ handled' = handled
    BY <1>9 DEF TooLong, TooBig
  <2>2. S[Place] = S[Place + 3]
    BY <2>1, <1>2, <1>6 DEF Round, PROTOCOL_HEAD
  <2>3. Place' = Place + 3
    BY <2>1, <1>0 DEF Place
  <2> QED BY <2>1, <2>2, <2>3, <1>4
<1>10. ASSUME Complete
       PROVE  /\ Scanning /\ Header(Line, Place) /\ ~(w > BufSize)
              /\ ~(Place + w > Len(Line)) /\ Place + w <= fed
              /\ FrameLen(buf, offset) # 0
              /\ SumOK(buf, offset) <=> SumOK(Line, Place)
  <2>1. /\ Scanning /\ Header(buf, offset) /\ ~(FrameLen(buf, offset) > BufSize)
        /\ Len(buf) - offset >= FrameLen(buf, offset)
    BY <1>10 DEF Complete, Candidate, TooBig, rx_in
  <2>2. Place + w <= fed
    BY <2>1, <1>0, <1>6 DEF Place
  <2>3. SumOK(buf, offset) <=> SumOK(Line, Place)
    <3>1. /\ Len(buf) - offset >= 7 /\ FrameLen(buf, offset) > 0
          /\ FrameLen(buf, offset) <= Len(buf) - offset
      BY <2>1, <1>0, <1>6
    <3> QED BY <3>1, SameSum
  <2>4. FrameLen(buf, offset) # 0
    BY <2>1, <1>0, <1>6
  <2> QED BY <2>1, <2>2, <2>3, <2>4, <1>0, <1>1, <1>6
<1>11. CASE BadSum
  <2>1. /\ Complete /\ ~SumOK(buf, offset) /\ offset' = offset + 3
        /\ buf' = buf /\ fed' = fed /\ stream' = stream /\ handled' = handled
    BY <1>10, <1>11 DEF BadSum, Differs
  <2>2. S[Place] = S[Place + 3]
    BY <2>1, <1>2, <1>6, <1>10 DEF Round, PROTOCOL_HEAD
  <2>3. Place' = Place + 3
    BY <2>1, <1>0 DEF Place
  <2> QED BY <2>1, <2>2, <2>3, <1>4
<1>12. CASE Handle
  <2>1. /\ Complete /\ SumOK(buf, offset) /\ offset' = offset + FrameLen(buf, offset)
        /\ buf' = buf /\ fed' = fed /\ stream' = stream /\ handled' = handled \cup {Place}
    BY <1>10, <1>12 DEF Handle, Fits, rx_in, Place
  <2>2. S[Place] = {Place} \cup S[Place + w]
    BY <2>1, <1>2, <1>6, <1>10 DEF Round, PROTOCOL_HEAD
  <2>3. Place' = Place + w
    BY <2>1, <1>0, <1>6, <1>10 DEF Place
  <2>4. Line' = Line
    BY <2>1 DEF Line
  <2>5. handled \cup S[Place] = S[0]
    BY DEF FoundInv, S
  <2>6. handled' \cup S[Place'] = S[0]
    BY <2>1, <2>2, <2>3, <2>5
  <2> QED BY <2>4, <2>6 DEF FoundInv, S
<1>13. CASE Keep
  <2>1. /\ buf' = SubSeq(buf, offset + 1, Len(buf)) /\ offset' = 0
        /\ stream' = stream /\ fed' = fed /\ handled' = handled
    BY <1>13 DEF Keep, rx_in
  <2>2. Len(buf') = Len(buf) - offset
    BY <2>1, <1>0, Cut
  <2>3. Place' = Place
    <3>1. fed' = fed /\ offset' = 0
      BY <2>1
    <3> QED BY <3>1, <2>2, <1>0 DEF Place
  <2> QED BY <2>1, <2>3, <1>3
<1>14. CASE UNCHANGED parserVars
  BY <1>14, <1>3 DEF parserVars, Place
<1> QED BY <1>5, <1>8, <1>9, <1>11, <1>12, <1>13, <1>14 DEF ParserNext

(* data_handle gets the same frames however the bytes of a line are        *)
(* portioned and wherever the buffer happens to be full, for every line    *)
(* and every size of the buffer.                                           *)
THEOREM ParserPortions ==
  ASSUME ShortLengths PROVE ParserSpec => []PortionsDontMatter
<1> DEFINE Inv == WindowInv /\ RestInv /\ FoundInv
<1>1. ParserInit => Inv
  <2> SUFFICES ASSUME ParserInit PROVE Inv
    OBVIOUS
  <2>1. WindowInv
    BY WindowStart
  <2>2. Len(buf) = 0 /\ Place = 0 /\ handled = {}
    <3>1. buf = <<>> /\ fed = 0 /\ offset = 0 /\ handled = {}
      BY DEF ParserInit
    <3>2. Len(buf) = 0
      BY <3>1
    <3>3. fed = 0 /\ offset = 0
      BY <3>1
    <3>4. Place = 0
      BY <3>2, <3>3 DEF Place
    <3> QED BY <3>1, <3>2, <3>4
  <2> QED BY <2>1, <2>2 DEF RestInv, FoundInv
<1>2. Inv /\ [ParserNext]_parserVars => Inv'
  BY WindowStep, RestStep, FoundStep
<1>3. Inv => PortionsDontMatter
  <2> SUFFICES ASSUME Inv, AllParsed PROVE handled = FramesOf(Line)
    BY DEF PortionsDontMatter
  <2>0. /\ turn = "fill" /\ fed = Len(Line) /\ offset = 0 /\ Line \in Seq(Byte)
        /\ Len(Line) \in Nat /\ Len(buf) \in Nat /\ Len(buf) <= fed /\ BufSize \in Nat
    BY LineType DEF AllParsed, WindowInv
  <2>1. Place \in 0 .. Len(Line) /\ Len(Line) - Place = Len(buf)
    BY <2>0 DEF Place
  <2>2. Scan(Line)[Place] = Round(Line, Place, Scan(Line))
    BY <2>0, <2>1, ScanRound
  <2>3. CASE Len(buf) < 7
    BY <2>1, <2>2, <2>3, FramesScan DEF Round, PROTOCOL_HEAD, FoundInv
  <2>4. CASE Len(buf) >= 7
    <3>1. /\ Header(buf, offset) /\ FrameLen(buf, offset) <= BufSize
          /\ FrameLen(buf, offset) > Len(buf)
      BY <2>0, <2>4 DEF RestInv
    <3>2. Len(buf) - offset >= 7
      BY <2>0, <2>4
    <3>3. /\ Header(Line, Place) /\ WholeLen(Line, Place) <= BufSize
          /\ WholeLen(Line, Place) > Len(buf)
      BY <3>1, <3>2, SameBytes, SameLength
    <3>4. WholeLen(Line, Place) \in Nat
      BY <2>0, <2>1, <2>4, Lengths
    <3>5. Scan(Line)[Place] = {}
      BY <2>0, <2>1, <2>2, <2>4, <3>3, <3>4 DEF Round, PROTOCOL_HEAD
    <3> QED BY <3>5, FramesScan DEF FoundInv
  <2> QED BY <2>0, <2>3, <2>4
<1> QED BY <1>1, <1>2, <1>3, PTL DEF ParserSpec

-----------------------------------------------------------------------------
(* Coming back into step after an error.                                   *)

(* A frame that a buffer of BufSize bytes holds, with its checksum.        *)
FrameAt(s, p) ==
  /\ p + PROTOCOL_HEAD <= Len(s) /\ Header(s, p) /\ WholeLen(s, p) <= BufSize
  /\ p + WholeLen(s, p) <= Len(s) /\ SumOK(s, p)

(* Nothing on the line hides the frame at q: no bytes before it that look  *)
(* like a frame with a fitting checksum reach into it, none that look like *)
(* the beginning of a frame wait for more than the line has, and the two   *)
(* bytes before it are not a head, over which the parser skips three.      *)
InSight(s, q) ==
  /\ q \in 0 .. Len(s) /\ FrameAt(s, q)
  /\ q >= 2 => ~Header(s, q - 2)
  /\ \A p \in 0 .. q - 1 :
       /\ FrameAt(s, p) => p + WholeLen(s, p) <= q
       /\ Header(s, p) /\ WholeLen(s, p) <= BufSize => p + WholeLen(s, p) <= Len(s)

ClearLines == \A s \in Streams : \A q \in s.intact : InSight(s.bytes, q)

(* From one place before the frame the reference goes to another that is   *)
(* not behind it.                                                          *)
LEMMA StaysBefore ==
  ASSUME NEW s \in Seq(Byte), NEW q, InSight(s, q), NEW p \in 0 .. q,
         \A r \in 0 .. q : r > p => q \in Scan(s)[r]
  PROVE  q \in Scan(s)[p]
<1> DEFINE S == Scan(s)
           w == WholeLen(s, p)
<1>0. q \in Nat /\ Len(s) \in Nat /\ q + 7 <= Len(s) /\ p \in Nat /\ p <= q
  BY DEF InSight, FrameAt, PROTOCOL_HEAD
<1>1. ~(Len(s) - p < 7) /\ p \in 0 .. Len(s)
  BY <1>0
<1>2. S[p] = Round(s, p, S)
  BY <1>1, ScanRound
<1>3. w \in Nat /\ w >= 7
  BY <1>0, Lengths
<1>4. BufSize \in Nat
  BY ParserAssumption
<1> HIDE DEF S
<1>5. CASE p = q
  <2>1. Header(s, p) /\ ~(w > BufSize) /\ ~(p + w > Len(s)) /\ SumOK(s, p)
    BY <1>0, <1>3, <1>4, <1>5 DEF InSight, FrameAt
  <2>2. S[p] = {p} \cup S[p + w]
    BY <1>1, <1>2, <2>1 DEF Round, PROTOCOL_HEAD
  <2> QED BY <2>2, <1>5 DEF S
<1>6. CASE p < q
  <2>0. p \in 0 .. q - 1
    BY <1>0, <1>6
  <2>1. CASE ~Header(s, p)
    <3>1. S[p] = S[p + 1]
      BY <1>1, <1>2, <2>1 DEF Round, PROTOCOL_HEAD
    <3>2. p + 1 \in 0 .. q /\ p + 1 > p
      BY <1>0, <1>6
    <3> QED BY <3>1, <3>2 DEF S
  <2>2. CASE Header(s, p)
    <3>1. p + 3 \in 0 .. q /\ p + 3 > p
      <4>1. p # q - 2
        BY <1>0, <2>2 DEF InSight
      <4>2. p # q - 1
        <5> SUFFICES ASSUME p = q - 1 PROVE FALSE
          OBVIOUS
        <5>1. At(s, p, 1) = 170 /\ At(s, q, 0) = 85
          BY <2>2 DEF InSight, FrameAt, Header, FRAME_FIRST, FRAME_SECOND
        <5>2. p + 1 + 1 = q + 0 + 1
          BY <1>0
        <5> QED BY <5>1, <5>2 DEF At
      <4> QED BY <1>0, <1>6, <4>1, <4>2
    <3>2. CASE w > BufSize
      <4>1. S[p] = S[p + 3]
        BY <1>1, <1>2, <2>2, <3>2 DEF Round, PROTOCOL_HEAD
      <4> QED BY <4>1, <3>1 DEF S
    <3>3. CASE ~(w > BufSize)
      <4>1. p + w <= Len(s) /\ ~(p + w > Len(s))
        BY <1>0, <1>3, <1>4, <2>0, <2>2, <3>3 DEF InSight
      <4>2. CASE ~SumOK(s, p)
        <5>1. S[p] = S[p + 3]
          BY <1>1, <1>2, <2>2, <3>3, <4>1, <4>2 DEF Round, PROTOCOL_HEAD
        <5> QED BY <5>1, <3>1 DEF S
      <4>3. CASE SumOK(s, p)
        <5>1. FrameAt(s, p)
          BY <1>0, <1>3, <1>4, <2>2, <3>3, <4>1, <4>3 DEF FrameAt, PROTOCOL_HEAD
        <5>2. p + w <= q
          BY <2>0, <5>1 DEF InSight
        <5>3. p + w \in 0 .. q /\ p + w > p
          BY <5>2, <1>0, <1>3
        <5>4. S[p] = {p} \cup S[p + w]
          BY <1>1, <1>2, <2>2, <3>3, <4>1, <4>3 DEF Round, PROTOCOL_HEAD
        <5>5. q \in S[p + w]
          <6> HIDE DEF w
          <6> QED BY <5>3 DEF S
        <5> QED BY <5>4, <5>5 DEF S
      <4> QED BY <4>2, <4>3
    <3> QED BY <3>2, <3>3
  <2> QED BY <2>1, <2>2
<1> QED BY <1>0, <1>5, <1>6

(* A frame in sight is among the frames of the line.                       *)
LEMMA FoundInSight ==
  ASSUME NEW s \in Seq(Byte), NEW q, InSight(s, q)
  PROVE  q \in FramesOf(s)
<1> DEFINE K == {k \in Nat : k <= q /\ q \notin Scan(s)[q - k]}
<1>0. q \in Nat
  BY DEF InSight
<1>1. K = {}
  <2> SUFFICES ASSUME K # {} PROVE FALSE
    OBVIOUS
  <2>1. PICK k \in K : \A j \in K : ~(<<j, k>> \in OpToRel(<, Nat))
    BY WFMin, NatLessThanWellFounded, Zenon
  <2>2. k \in Nat /\ k <= q /\ q \notin Scan(s)[q - k]
    OBVIOUS
  <2>3. ASSUME NEW r \in 0 .. q, r > q - k PROVE q \in Scan(s)[r]
    <3>1. q - r \in Nat /\ q - r <= q /\ q - r < k /\ q - (q - r) = r
      BY <1>0, <2>2, <2>3
    <3>2. q - r \notin K
      <4> HIDE DEF K
      <4>1. <<q - r, k>> \in OpToRel(<, Nat)
        BY <2>2, <3>1 DEF OpToRel
      <4> QED BY <4>1, <2>1
    <3> QED BY <3>1, <3>2
  <2>4. q - k \in 0 .. q
    BY <1>0, <2>2
  <2> HIDE DEF K
  <2>5. q \in Scan(s)[q - k]
    BY <2>3, <2>4, StaysBefore
  <2> QED BY <2>2, <2>5
<1>2. q \in Scan(s)[q - q]
  BY <1>0, <1>1
<1>3. q - q = 0
  BY <1>0
<1> QED BY <1>2, <1>3, FramesScan

(* A damaged or truncated frame costs at most the frame that follows it,   *)
(* for every line and every size of the buffer: what lies before a frame   *)
(* that is in sight, damaged or not, does not keep wifi_uart_service from  *)
(* handing that frame to data_handle.                                      *)
THEOREM ParserResync ==
  ASSUME ShortLengths, ClearLines PROVE ParserSpec => []OneErrorOneFrame
<1>1. ParserInit => WindowInv
  BY WindowStart
<1>2. WindowInv /\ [ParserNext]_parserVars => WindowInv'
  BY WindowStep
<1>3. WindowInv /\ PortionsDontMatter => OneErrorOneFrame
  <2> SUFFICES ASSUME WindowInv, PortionsDontMatter, AllParsed, NEW q \in stream.intact
               PROVE  q \in handled
    BY DEF OneErrorOneFrame
  <2>1. stream \in Streams /\ Line \in Seq(Byte)
    BY LineType DEF WindowInv
  <2>2. InSight(Line, q)
    BY <2>1 DEF ClearLines, Line
  <2>3. q \in FramesOf(Line)
    BY <2>1, <2>2, FoundInSight
  <2> QED BY <2>3 DEF PortionsDontMatter
<1> QED BY <1>1, <1>2, <1>3, ParserPortions, PTL DEF ParserSpec

-----------------------------------------------------------------------------
(* What has been handed on had arrived.                                    *)
WholeInv ==
  /\ WindowInv
  /\ \A p \in handled : WholeLen(Line, p) \in Nat /\ p + WholeLen(Line, p) <= fed

(* Every frame given to data_handle had arrived to its last byte, for      *)
(* every line without a length that 16 bits do not hold; those are the     *)
(* lines on which it is not so.                                            *)
THEOREM ParserWholeFrames ==
  ASSUME ShortLengths PROVE ParserSpec => []WholeFrames
<1>1. ParserInit => WholeInv
  BY WindowStart DEF WholeInv, ParserInit
<1>2. WholeInv /\ [ParserNext]_parserVars => WholeInv'
  <2> SUFFICES ASSUME WholeInv, [ParserNext]_parserVars PROVE WholeInv'
    OBVIOUS
  <2>1. WindowInv /\ WindowInv'
    BY WindowStep DEF WholeInv
  <2>2. CASE Handle
    <3>1. /\ Complete /\ stream' = stream /\ fed' = fed /\ handled' = handled \cup {Place}
      BY <2>2 DEF Handle, rx_in, Place
    <3>2. Len(buf) - offset >= 7 /\ Len(buf) - offset >= FrameLen(buf, offset)
      BY <3>1 DEF Complete, Candidate, Scanning, rx_in, PROTOCOL_HEAD
    <3>3. FrameLen(buf, offset) = WholeLen(Line, Place)
      BY <2>1, <3>2, SameBytes, SameLength
    <3>4. WholeLen(Line, Place) \in Nat
      BY <2>1, <3>2, LineType, SameBytes, Lengths DEF WindowInv
    <3>5. Place + WholeLen(Line, Place) <= fed
      BY <2>1, <3>2, <3>3, <3>4 DEF Place, WindowInv
    <3> QED BY <2>1, <3>1, <3>4, <3>5 DEF WholeInv, Line, WholeLen, At
  <2>3. CASE ~Handle
    <3>1. stream' = stream /\ handled' = handled
      BY <2>3 DEF ParserNext, Fill, SkipByte, TooLong, BadSum, Keep, parserVars
    <3>2. fed \in Nat /\ fed' \in Nat
      BY <2>1, LineType, <3>1 DEF WindowInv, Line
    <3>3. fed <= fed'
      <4>1. ASSUME NEW n \in 1 .. Len(Line) - fed, Fill(n) PROVE fed <= fed'
        <5> DEFINE k == Min({n, BufSize - Len(buf)})
        <5>1. k \in Nat
          BY <2>1, Portion
        <5>2. fed' = fed + k
          BY <4>1 DEF Fill, rx_in
        <5> HIDE DEF k
        <5> QED BY <5>1, <5>2, <3>2
      <4>2. CASE fed' = fed
        BY <4>2, <3>2
      <4> QED
        BY <2>3, <4>1, <4>2 DEF ParserNext, SkipByte, TooLong, BadSum, Keep, parserVars
    <3>4. \A p \in handled : p \in Nat /\ WholeLen(Line, p) \in Nat
                               /\ p + WholeLen(Line, p) <= fed
      BY <2>1 DEF WholeInv, WindowInv
    <3>5. Line' = Line
      BY <3>1 DEF Line
    <3>6. \A p \in handled : p + WholeLen(Line, p) <= fed'
      BY <3>2, <3>3, <3>4
    <3> QED BY <2>1, <3>1, <3>4, <3>5, <3>6 DEF WholeInv, WholeLen, At
  <2> QED BY <2>2, <2>3
<1>3. WholeInv => WholeFrames
  BY DEF WholeInv, WholeFrames
<1> QED BY <1>1, <1>2, <1>3, PTL DEF ParserSpec
-----------------------------------------------------------------------------
(* The parser never goes round in circles.                                 *)

(* A frame length that the parser steps over is zero in one case only.     *)
LEMMA SomeLength ==
  ASSUME WindowInv, Len(buf) - offset >= 7, WholeLen(buf, offset) # 65536
  PROVE  FrameLen(buf, offset) \in Nat /\ FrameLen(buf, offset) > 0
<1> DEFINE h == buf[offset + 5]
           l == buf[offset + 6]
           x == WholeLen(buf, offset)
<1>1. h \in Byte /\ l \in Byte
  BY DEF WindowInv
<1>2. h \in Nat /\ l \in Nat /\ h <= 255 /\ l <= 255
  BY <1>1, ByteNat
<1>3. offset + HIGH + 1 = offset + 5 /\ offset + LOW + 1 = offset + 6
  BY DEF HIGH, LOW, WindowInv
<1>4. x = h * 256 + l + 7
  BY <1>3 DEF WholeLen, At, PROTOCOL_HEAD
<1> HIDE DEF h, l
<1>5. x \in Nat /\ x > 0 /\ x < 131072 /\ x # 65536
  BY <1>2, <1>4
<1> HIDE DEF x
<1>6. x % 65536 \in Nat /\ x % 65536 > 0
  <2>1. CASE x < 65536
    BY <1>5, <2>1
  <2>2. CASE x > 65536
    <3> DEFINE y == x - 65536
    <3>1. y \in Nat /\ y > 0 /\ y < 65536 /\ x = 65536 + y
      BY <1>5, <2>2
    <3> HIDE DEF y
    <3> QED BY <3>1
  <2> QED BY <1>5, <2>1, <2>2
<1> QED BY <1>6 DEF FrameLen, x

LEMMA Distance ==
  \A b, o, p \in Nat : /\ o <= b => (b - o) + 1 \in Nat
                       /\ o < p => (b - p) + 1 < (b - o) + 1
OBVIOUS

(* The buffer has room whenever the parser is about to fill it.            *)
RoomLeft == turn = "fill" => rx_in < BufSize

(* What is left of a call of wifi_uart_service.                            *)
RoundsLeft == IF turn = "scan" THEN (BufSize - offset) + 1 ELSE 0

(* Every step reads bytes of the line or brings the call nearer its end.   *)
Advances ==
  /\ RoundsLeft \in Nat /\ RoundsLeft' \in Nat
  /\ fed' > fed \/ (fed' = fed /\ RoundsLeft' < RoundsLeft)

(* A frame is handled whose length field is 0xFFF9.                        *)
ZeroLength == Handle /\ WholeLen(buf, offset) = 65536

(* What is left in wifi_data_process_buf never fills it, so that every     *)
(* call finds room for bytes of the line, whatever came before.            *)
THEOREM ParserRoom == ParserSpec => []RoomLeft
<1>1. ParserInit => WindowInv /\ RestInv
  <2>1. ParserInit => Len(buf) = 0
    BY DEF ParserInit
  <2> QED BY <2>1, WindowStart DEF RestInv
<1>2. WindowInv /\ RestInv /\ [ParserNext]_parserVars => WindowInv' /\ RestInv'
  BY WindowStep, RestStep
<1>3. WindowInv /\ RestInv => RoomLeft
  <2> SUFFICES ASSUME WindowInv, RestInv, turn = "fill" PROVE Len(buf) < BufSize
    BY DEF RoomLeft, rx_in
  <2>1. BufSize \in Nat /\ BufSize >= 7 /\ Len(buf) \in Nat /\ buf \in Seq(Byte)
    BY ParserAssumption DEF PROTOCOL_HEAD, WindowInv
  <2>2. CASE Len(buf) < 7
    BY <2>1, <2>2
  <2>3. CASE ~(Len(buf) < 7)
    <3>1. FrameLen(buf, 0) <= BufSize /\ FrameLen(buf, 0) > Len(buf)
      BY <2>3 DEF RestInv
    <3>2. FrameLen(buf, 0) \in Nat
      BY <2>1, <2>3, Lengths
    <3> QED BY <2>1, <3>1, <3>2
  <2> QED BY <2>2, <2>3
<1> QED BY <1>1, <1>2, <1>3, PTL DEF ParserSpec

(* wifi_uart_service goes round its loops on what is in the buffer only as *)
(* often as there is something left: every step takes bytes from the line  *)
(* or lowers the number of rounds left, both of which are bounded.  The    *)
(* one step that need not is the handling of a frame whose length field is *)
(* 0xFFF9, where offset += rx_value_len adds 0.  This is the safety part   *)
(* of EverythingParsed, for every line and every size of the buffer.       *)
THEOREM ParserAdvances == ParserSpec => [][Advances \/ ZeroLength]_parserVars
<1>1. ParserInit => WindowInv
  BY WindowStart
<1>2. WindowInv /\ [ParserNext]_parserVars => WindowInv'
  BY WindowStep
<1>3. WindowInv /\ WindowInv' /\ RoomLeft /\ [ParserNext]_parserVars 
      => [Advances \/ ZeroLength]_parserVars
  <2> SUFFICES ASSUME WindowInv, WindowInv', RoomLeft, ParserNext, parserVars' # parserVars,
                      ~ZeroLength
               PROVE  Advances
    OBVIOUS
  <2>0. /\ BufSize \in Nat /\ fed \in Nat /\ offset \in Nat /\ offset <= BufSize
        /\ fed' \in Nat /\ offset' \in Nat /\ offset' <= BufSize /\ Len(buf) \in Nat
    <3>1. BufSize \in Nat
      BY ParserAssumption
    <3>2. /\ fed \in Nat /\ offset \in Nat /\ offset <= Len(buf) /\ Len(buf) \in Nat
          /\ Len(buf) <= BufSize
      BY LineType DEF WindowInv
    <3>3. offset' \in Nat /\ offset' <= Len(buf') /\ Len(buf') \in Nat
          /\ Len(buf') <= BufSize
      BY DEF WindowInv
    <3>4. fed' \in Nat
      BY DEF WindowInv
    <3> QED BY <3>1, <3>2, <3>3, <3>4
  <2>1. RoundsLeft \in Nat /\ RoundsLeft' \in Nat
    <3>1. (BufSize - offset) + 1 \in Nat /\ (BufSize - offset') + 1 \in Nat
      BY <2>0, Distance
    <3> QED BY <3>1 DEF RoundsLeft
  <2>2. ASSUME NEW n \in 1 .. Len(Line) - fed, Fill(n) PROVE fed' > fed
    <3> DEFINE k == Min({n, BufSize - Len(buf)})
    <3>1. Len(buf) < BufSize
      BY <2>2 DEF RoomLeft, Fill, rx_in
    <3>2. k \in {n, BufSize - Len(buf)}
      <4>1. n \in Nat /\ BufSize - Len(buf) \in Nat
        BY <2>0, <3>1, LineType DEF WindowInv
      <4>2. \E m \in {n, BufSize - Len(buf)} : \A y \in {n, BufSize - Len(buf)} : m <= y
        BY <4>1
      <4> QED BY <4>2 DEF Min
    <3>3. k \in Nat /\ k > 0
      <4>1. n \in Nat /\ n > 0
        BY <2>0, LineType DEF WindowInv
      <4> HIDE DEF k
      <4> QED BY <2>0, <3>1, <3>2, <4>1
    <3>4. fed' = fed + k
      BY <2>2 DEF Fill, rx_in
    <3> HIDE DEF k
    <3> QED BY <3>3, <3>4, <2>0
  <2>3. CASE SkipByte \/ TooLong \/ BadSum
    <3>1. /\ turn = "scan" /\ turn' = turn /\ fed' = fed
          /\ offset' = offset + 1 \/ offset' = offset + 3
      BY <2>3 DEF SkipByte, TooLong, BadSum, Complete, Candidate, Scanning
    <3>0. offset' > offset
      BY <3>1, <2>0
    <3>2. (BufSize - offset') + 1 < (BufSize - offset) + 1
      BY <3>0, <2>0, Distance
    <3>3. RoundsLeft' < RoundsLeft
      BY <3>1, <3>2 DEF RoundsLeft
    <3> QED BY <3>1, <3>3, <2>1 DEF Advances
  <2>4. CASE Handle
    <3>1. /\ turn = "scan" /\ turn' = turn /\ fed' = fed /\ Len(buf) - offset >= 7
          /\ offset' = offset + FrameLen(buf, offset)
      BY <2>4 DEF Handle, Complete, Candidate, Scanning, rx_in, PROTOCOL_HEAD
    <3>2. offset' > offset
      BY <2>4, <3>1, <2>0, SomeLength DEF ZeroLength
    <3>3. (BufSize - offset') + 1 < (BufSize - offset) + 1
      BY <3>2, <2>0, Distance
    <3>4. RoundsLeft' < RoundsLeft
      BY <3>1, <3>3 DEF RoundsLeft
    <3> QED BY <3>1, <3>4, <2>1 DEF Advances
  <2>5. CASE Keep
    <3>1. turn = "scan" /\ turn' = "fill" /\ fed' = fed
      BY <2>5 DEF Keep
    <3> QED BY <3>1, <2>0, <2>1 DEF RoundsLeft, Advances
  <2> QED BY <2>1, <2>2, <2>3, <2>4, <2>5 DEF ParserNext, Advances
<1> QED BY <1>1, <1>2, <1>3, ParserRoom, PTL DEF ParserSpec
=============================================================================
