---------------------------- MODULE FrameParser ----------------------------
(***************************************************************************)
(* The protocol parser wifi_uart_service (wifi/mcu_api.c): it collects the *)
(* bytes of the serial line in wifi_data_process_buf, cuts frames          *)
(*                                                                         *)
(*   0x55 0xAA version type length_high length_low data ... checksum       *)
(*                                                                         *)
(* out of them, hands each to data_handle and keeps the rest for its next  *)
(* turn.  Bytes come in portions of any size.  One step is one round of    *)
(* one of its loops, except that the loop that fills the buffer is a step. *)
(***************************************************************************)
EXTENDS Integers, Sequences, FiniteSetsExt, SequencesExt

CONSTANTS
  Streams,   \* what may come over the line: its bytes, and the places of the
             \* frames among them that directly follow an intact frame
  BufSize    \* sizeof(wifi_data_process_buf)

PROTOCOL_HEAD == 7
FRAME_FIRST   == 85      \* 0x55
FRAME_SECOND  == 170     \* 0xAA
TYPE          == 3       \* FRAME_TYPE, LENGTH_HIGH, LENGTH_LOW: offsets
HIGH          == 4
LOW           == 5

ASSUME ParserAssumption ==
  /\ BufSize \in Nat /\ BufSize >= PROTOCOL_HEAD
  /\ \A s \in Streams : s.bytes \in Seq(0 .. 255) /\ s.intact \subseteq Nat

VARIABLES
  stream, fed,   \* the line, and how many of its bytes have been read
  buf,           \* the rx_in bytes in wifi_data_process_buf
  offset, turn,  \* wifi_uart_service
  handled        \* where in the stream the frames given to data_handle begin

parserVars == <<stream, fed, buf, offset, turn, handled>>

Line  == stream.bytes
rx_in == Len(buf)

ParserTypeOK ==
  /\ fed \in 0 .. Len(Line)
  /\ buf \in Seq(0 .. 255) /\ rx_in <= BufSize
  /\ offset \in 0 .. BufSize
  /\ turn \in {"fill", "scan"}
  /\ handled \subseteq 0 .. Len(Line)

-----------------------------------------------------------------------------
(* A frame that begins behind the first o bytes of b.                      *)

At(b, o, i)    == b[o + i + 1]
Header(b, o)   == At(b, o, 0) = FRAME_FIRST /\ At(b, o, 1) = FRAME_SECOND
WholeLen(b, o) == At(b, o, HIGH) * 256 + At(b, o, LOW) + PROTOCOL_HEAD
FrameLen(b, o) == WholeLen(b, o) % 65536       \* rx_value_len has 16 bits

get_check_sum(pack) ==
  FoldSet(LAMBDA i, sum : (sum + pack[i]) % 256, 0, DOMAIN pack)

SumOK(b, o) ==
  get_check_sum(SubSeq(b, o + 1, o + FrameLen(b, o) - 1)) = At(b, o, FrameLen(b, o) - 1)

(* The length 0xFFF9 makes rx_value_len 0: the sum of 65535 bytes from the *)
(* header on is compared with the byte before it.  Both read memory that   *)
(* is not the buffer's, so the comparison may go either way.               *)
Fits(b, o)    == FrameLen(b, o) # 0 => SumOK(b, o)
Differs(b, o) == FrameLen(b, o) # 0 => ~SumOK(b, o)

-----------------------------------------------------------------------------
(* wifi_uart_service.                                                      *)

(* Variation of Fill: the room in the buffer is not looked at.             *)
Fill_NoRoom(n) ==
  /\ turn = "fill"
  /\ buf' = buf \o SubSeq(Line, fed + 1, fed + n)
  /\ fed' = fed + n
  /\ offset' = 0 /\ turn' = "scan"
  /\ UNCHANGED <<stream, handled>>

(* n bytes are waiting in the ring; the buffer takes what it has room for. *)
Fill(n) ==
  /\ turn = "fill"
  /\ LET k == Min({n, BufSize - rx_in}) IN
       /\ buf' = buf \o SubSeq(Line, fed + 1, fed + k)
       /\ fed' = fed + k
  /\ offset' = 0 /\ turn' = "scan"
  /\ UNCHANGED <<stream, handled>>

Scanning == turn = "scan" /\ rx_in - offset >= PROTOCOL_HEAD

SkipByte ==
  /\ Scanning /\ ~Header(buf, offset)
  /\ offset' = offset + 1
  /\ UNCHANGED <<stream, fed, buf, turn, handled>>

(* Variation of TooBig: the length is not compared with the buffer.        *)
TooBig_Never == FALSE

TooBig == FrameLen(buf, offset) > BufSize

TooLong ==
  /\ Scanning /\ Header(buf, offset) /\ TooBig
  /\ offset' = offset + 3
  /\ UNCHANGED <<stream, fed, buf, turn, handled>>

Candidate == Scanning /\ Header(buf, offset) /\ ~TooBig

Complete == Candidate /\ rx_in - offset >= FrameLen(buf, offset)

(* Variations of BadSum: the whole frame is skipped; all that has been     *)
(* received is dropped.                                                    *)
BadSum_SkipFrame ==
  /\ Complete /\ Differs(buf, offset)
  /\ offset' = offset + FrameLen(buf, offset)
  /\ UNCHANGED <<stream, fed, buf, turn, handled>>

BadSum_DropAll ==
  /\ Complete /\ Differs(buf, offset)
  /\ offset' = rx_in
  /\ UNCHANGED <<stream, fed, buf, turn, handled>>

BadSum ==
  /\ Complete /\ Differs(buf, offset)
  /\ offset' = offset + 3
  /\ UNCHANGED <<stream, fed, buf, turn, handled>>

Handle ==
  /\ Complete /\ Fits(buf, offset)
  /\ handled' = handled \cup {fed - rx_in + offset}
  /\ offset' = offset + FrameLen(buf, offset)
  /\ UNCHANGED <<stream, fed, buf, turn>>

(* Variation of Keep: what has been parsed is not removed when the buffer  *)
(* holds the beginning of a frame.                                         *)
Keep_Parsed ==
  /\ turn = "scan"
  /\ rx_in - offset < PROTOCOL_HEAD \/ (Candidate /\ ~Complete)
  /\ buf' = IF Candidate THEN buf ELSE SubSeq(buf, offset + 1, rx_in)
  /\ turn' = "fill" /\ offset' = 0
  /\ UNCHANGED <<stream, fed, handled>>

(* The bytes that are left move to the beginning of the buffer.            *)
Keep ==
  /\ turn = "scan"
  /\ rx_in - offset < PROTOCOL_HEAD \/ (Candidate /\ ~Complete)
  /\ buf' = SubSeq(buf, offset + 1, rx_in)
  /\ turn' = "fill" /\ offset' = 0
  /\ UNCHANGED <<stream, fed, handled>>

-----------------------------------------------------------------------------
ParserInit ==
  /\ stream \in Streams /\ fed = 0
  /\ buf = <<>> /\ offset = 0 /\ turn = "fill"
  /\ handled = {}

ParserNext ==
  \/ \E n \in 1 .. Len(Line) - fed : Fill(n)
  \/ SkipByte \/ TooLong \/ BadSum \/ Handle \/ Keep
  \/ turn = "fill" /\ fed = Len(Line) /\ UNCHANGED parserVars  \* nothing more to read

(* wifi-service calls the parser every 10 ms; the bytes keep coming.  A    *)
(* frame of length 0 may be handled again and again: nothing makes the     *)
(* parser leave it.                                                        *)
ParserSpec ==
  /\ ParserInit /\ [][ParserNext]_parserVars
  /\ WF_parserVars(/\ Candidate => FrameLen(buf, offset) # 0
                   /\ SkipByte \/ TooLong \/ BadSum \/ Handle \/ Keep)
  /\ WF_parserVars(\E n \in 1 .. Len(Line) - fed : Fill(n))

-----------------------------------------------------------------------------
(* Properties.                                                             *)

(* Reference: the frames of a sequence of bytes that is read as a whole.   *)
FramesOf(s) ==
  LET Scan[p \in 0 .. Len(s)] ==
        IF Len(s) - p < PROTOCOL_HEAD THEN {}
        ELSE IF ~Header(s, p) THEN Scan[p + 1]
        ELSE IF WholeLen(s, p) > BufSize THEN Scan[p + 3]
        ELSE IF p + WholeLen(s, p) > Len(s) THEN {}
        ELSE IF ~SumOK(s, p) THEN Scan[p + 3]
        ELSE {p} \cup Scan[p + WholeLen(s, p)]
  IN Scan[0]

AllParsed == turn = "fill" /\ fed = Len(Line)

(* data_handle gets the same frames however wifi_uart_service finds the    *)
(* bytes portioned and wherever wifi_data_process_buf happens to be full.  *)
PortionsDontMatter == AllParsed => handled = FramesOf(Line)

(* A damaged or truncated frame costs at most the frame that follows it:   *)
(* one that directly follows an intact frame always reaches data_handle.   *)
OneErrorOneFrame == AllParsed => stream.intact \subseteq handled

(* "Reception complete": every frame given to data_handle had arrived to   *)
(* its last byte.                                                          *)
WholeFrames == \A p \in handled : p + WholeLen(Line, p) <= fed

(* wifi_uart_service never gets stuck on what is in the buffer, unless the *)
(* line holds the length 0xFFF9.                                           *)
EverythingParsed == <>AllParsed
=============================================================================
