------------------------------ MODULE UartRing ------------------------------
(***************************************************************************)
(* The ring buffer between the serial line to the WiFi module and the      *)
(* protocol parser: uart_receive_input (wifi/mcu_api.c), called by the     *)
(* thread "serial", and Queue_Read_Byte (wifi/system.c), called by         *)
(* wifi-service.  wifi-service has the higher priority and may stop        *)
(* "serial" at any instruction.  queue_in is not volatile, which leaves    *)
(* two things to the compiler: it may emit the stores of the byte and of   *)
(* the pointer in "*queue_in ++ = value" either way, and it may emit the   *)
(* store "queue_in = wifi_uart_rx_buf" at the end of the buffer or drop it *)
(* for the one that follows (gcc keeps it at -O0, -O1 and -Os and drops it *)
(* at -O2, the level of the project).  Pointers are offsets into           *)
(* wifi_uart_rx_buf and may point just behind its end.  Bytes are numbered *)
(* as they are accepted.                                                   *)
(***************************************************************************)
EXTENDS Integers, Sequences

CONSTANTS
  Size,        \* sizeof(wifi_uart_rx_buf) and sizeof(wifi_data_process_buf)
  Orders,      \* which store of "*queue_in ++ = value" may come first
  Rewinds,     \* whether "queue_in = wifi_uart_rx_buf" may be a store of its own
  MaxBacklog,  \* bound: unread bytes while wifi-service is held up
  MaxBytes     \* bound: bytes that arrive, and bytes that are read

ASSUME RingAssumption ==
  /\ Size \in Nat /\ Size > 2
  /\ Orders \subseteq {"byte", "pointer"}
  /\ Rewinds \subseteq BOOLEAN
  /\ MaxBacklog \in Nat /\ MaxBytes \in Nat

VARIABLES
  queue_in, queue_out, wifi_uart_rx_buf,
  order, rewinds,   \* what the build does: the store put first; the store kept
  pc, pos,          \* thread "serial" and the place it stores a byte at
  accepted, got,    \* bytes accepted so far; the bytes wifi-service has read
  misled            \* history: wifi-service has read from an empty ring

vars == <<queue_in, queue_out, wifi_uart_rx_buf, order, rewinds, pc, pos,
          accepted, got, misled>>

TypeOK ==
  /\ queue_in \in 0 .. Size /\ queue_out \in 0 .. Size
  /\ wifi_uart_rx_buf \in [0 .. Size - 1 -> 0 .. MaxBytes]
  /\ order \in Orders /\ rewinds \in Rewinds
  /\ pc \in {"idle", "byte", "pointer", "last_byte", "last_pointer"}
  /\ pos \in 0 .. Size - 1
  /\ accepted \in 0 .. MaxBytes
  /\ got \in Seq(0 .. MaxBytes)
  /\ misled \in BOOLEAN

-----------------------------------------------------------------------------
(* The bytes between the two pointers.                                     *)
Unread ==
  IF queue_in >= queue_out THEN queue_in - queue_out
                           ELSE queue_in + Size - queue_out

-----------------------------------------------------------------------------
(* uart_receive_input.                                                     *)

Full ==
  \/ queue_out - queue_in = 1
  \/ queue_in > queue_out /\ queue_in - queue_out >= Size

Arrives == pc = "idle" /\ accepted < MaxBytes

(* Variation of Accept: the pointer wraps one byte late.                   *)
Accept_LateWrap ==
  /\ Arrives /\ ~Full /\ Unread < MaxBacklog
  /\ pos' = IF queue_in > Size THEN 0 ELSE queue_in
  /\ queue_in' = IF rewinds THEN pos' ELSE queue_in
  /\ pc' = order
  /\ accepted' = accepted + 1
  /\ UNCHANGED <<queue_out, wifi_uart_rx_buf, order, rewinds, got, misled>>

(* The tests, and the rewinding of queue_in where it is a store: then the  *)
(* parser can meet it at the start of the buffer with nothing there yet.   *)
Accept ==
  /\ Arrives /\ ~Full /\ Unread < MaxBacklog
  /\ pos' = IF queue_in >= Size THEN 0 ELSE queue_in
  /\ queue_in' = IF rewinds THEN pos' ELSE queue_in
  /\ pc' = order
  /\ accepted' = accepted + 1
  /\ UNCHANGED <<queue_out, wifi_uart_rx_buf, order, rewinds, got, misled>>

(* "Wifi Queue is Full": the byte is dropped.                              *)
Drop == Arrives /\ Full /\ UNCHANGED vars

(* Variation of StoreByte: "*++ queue_in = value".                         *)
StoreByte_PreIncrement ==
  /\ pc \in {"byte", "last_byte"}
  /\ wifi_uart_rx_buf' = [wifi_uart_rx_buf EXCEPT ![(pos + 1) % Size] = accepted]
  /\ pc' = IF pc = "byte" THEN "last_pointer" ELSE "idle"
  /\ UNCHANGED <<queue_in, queue_out, order, rewinds, pos, accepted, got, misled>>

StoreByte ==
  /\ pc \in {"byte", "last_byte"}
  /\ wifi_uart_rx_buf' = [wifi_uart_rx_buf EXCEPT ![pos] = accepted]
  /\ pc' = IF pc = "byte" THEN "last_pointer" ELSE "idle"
  /\ UNCHANGED <<queue_in, queue_out, order, rewinds, pos, accepted, got, misled>>

StorePointer ==
  /\ pc \in {"pointer", "last_pointer"}
  /\ queue_in' = pos + 1
  /\ pc' = IF pc = "pointer" THEN "last_byte" ELSE "idle"
  /\ UNCHANGED <<queue_out, wifi_uart_rx_buf, order, rewinds, pos, accepted, got, misled>>

-----------------------------------------------------------------------------
(* get_queue_total_data, which compares the pointers, and Queue_Read_Byte. *)

(* The pointers differ and there is nothing between them: queue_in has     *)
(* been rewound and queue_out is still at the end.                         *)
Mirage == queue_out = Size /\ queue_in = 0

(* Variation: the end of the buffer is not noticed in time.                *)
Queue_Read_Byte_StaleWrap ==
  /\ queue_out # queue_in /\ Len(got) < MaxBytes
  /\ LET o == IF queue_out >= Size - 1 THEN 0 ELSE queue_out IN
       /\ got' = Append(got, wifi_uart_rx_buf[o])
       /\ queue_out' = o + 1
  /\ misled' = (misled \/ Mirage)
  /\ UNCHANGED <<queue_in, wifi_uart_rx_buf, order, rewinds, pc, pos, accepted>>

Queue_Read_Byte ==
  /\ queue_out # queue_in /\ Len(got) < MaxBytes
  /\ LET o == IF queue_out >= Size THEN 0 ELSE queue_out IN
       /\ got' = Append(got, wifi_uart_rx_buf[o])
       /\ queue_out' = o + 1
  /\ misled' = (misled \/ Mirage)
  /\ UNCHANGED <<queue_in, wifi_uart_rx_buf, order, rewinds, pc, pos, accepted>>

-----------------------------------------------------------------------------
(* wifi_protocol_init.                                                     *)
Init ==
  /\ queue_in = 0 /\ queue_out = 0
  /\ wifi_uart_rx_buf = [i \in 0 .. Size - 1 |-> 0]
  /\ order \in Orders /\ rewinds \in Rewinds
  /\ pc = "idle" /\ pos = 0
  /\ accepted = 0 /\ got = <<>> /\ misled = FALSE

(* The line has gone quiet, or the bound on reads is used up.              *)
Quiet ==
  /\ pc = "idle"
  /\ \/ accepted = MaxBytes /\ queue_in = queue_out
     \/ Len(got) = MaxBytes
  /\ UNCHANGED vars

Next == Accept \/ Drop \/ StoreByte \/ StorePointer \/ Queue_Read_Byte \/ Quiet

Spec == Init /\ [][Next]_vars

-----------------------------------------------------------------------------
(* Properties.                                                             *)

(* The bytes that queue_in says have been stored.                          *)
Stored == IF pc \in {"idle", "last_byte"} THEN accepted ELSE accepted - 1

(* A byte that uart_receive_input took because the queue was "not full" is *)
(* either read or still there to be read: none is lost and none made up,   *)
(* wherever in the buffer the pointers are and whichever store is first.   *)
(* It holds until wifi-service looks at the pointers between the rewinding *)
(* of queue_in and the store of the byte with nothing left to read: that   *)
(* takes a build that rewinds in a store of its own.                       *)
NoneLost == misled \/ Len(got) + Unread = Stored

(* The two threads and their pointers implement a queue of bytes: the      *)
(* parser gets every byte, once and in order, and gets the right one,      *)
(* though it may interrupt uart_receive_input anywhere.  If the build      *)
(* stores the pointer first, the newest byte may be an old one; if it      *)
(* rewinds in a store of its own, a reader that has read everything may    *)
(* be misled, and the promise ends there.                                  *)
Queue == INSTANCE Fifo WITH Capacity <- MaxBacklog, put <- Stored,
                            taken <- got, tears <- (order = "pointer"),
                            misleads <- rewinds, broken <- misled
IsQueue == Queue!Spec
=============================================================================
