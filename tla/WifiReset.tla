------------------------------ MODULE WifiReset ------------------------------
(***************************************************************************)
(* Requests to the WiFi module and the reset of it with its retries:       *)
(* wifi_uart_write_frame (wifi/system.c), mcu_reset_wifi (wifi/mcu_api.c)  *)
(* and Reset_WiFi with its timer (wifi/wifi-service.c).                    *)
(*                                                                         *)
(* Every thread builds its frames in the one wifi_uart_tx_buf, without a   *)
(* lock, and sends them from there byte by byte.  A thread may be stopped  *)
(* anywhere in between and another one build and send a frame of its own.  *)
(* Only the timer thread has a priority of its own, the highest: its       *)
(* callback runs as one step.  Of a frame, the buffer is told apart into   *)
(* the six bytes of the head and the byte behind them: the checksum of a   *)
(* frame without data, or the first byte of the data.                      *)
(***************************************************************************)
EXTENDS Integers

CONSTANTS
  MaxReports,   \* bound: frames with data that other threads send
  MaxAnswers    \* bound: answers that are on their way at a time

ASSUME WifiResetAssumption == MaxReports \in Nat /\ MaxAnswers \in Nat \ {0}

VARIABLES
  wifi_uart_tx_buf,
  writer,               \* the key thread and another one: step and frame
  line,                 \* the head sent last, and by whom
  reset_wifi_flag, Reset_WiFi_Counter, wifi_rst_timer,
  answers,              \* answers to a reset on their way from the module
  inform,               \* the module reports that it has been reset itself
  sent, inTime,         \* since Reset_WiFi was called: the request went out
                        \* whole, an answer came before the last retry
  result,               \* since the timer was started: what the callback logged
  reports

wifiVars == <<wifi_uart_tx_buf, writer, line, reset_wifi_flag, Reset_WiFi_Counter,
              wifi_rst_timer, answers, inform, sent, inTime, result, reports>>
resetVars == <<reset_wifi_flag, Reset_WiFi_Counter, wifi_rst_timer>>
ghostVars == <<sent, inTime, result>>

Short   == {"reset", "factory"}      \* WIFI_RESET_CMD, FACTORY_SET_CMD: no data
Frame   == Short \cup {"report"}
Writers == {"key", "other"}
Resting == [step |-> "rest", frame |-> "report"]
Quiet   == [by |-> "none", head |-> "none"]

WifiTypeOK ==
  /\ wifi_uart_tx_buf \in [head : Frame \cup {"none"}, next : Frame \cup {"none", "data"}]
  /\ writer \in [Writers -> [step : {"rest", "head", "sum", "send", "last"}, frame : Frame]]
  /\ line \in [by : Writers \cup {"none"}, head : Frame \cup {"none"}]
  /\ reset_wifi_flag \in 0 .. 1 /\ Reset_WiFi_Counter \in 0 .. 3
  /\ wifi_rst_timer \in BOOLEAN
  /\ answers \in 0 .. MaxAnswers /\ inform \in BOOLEAN
  /\ sent \in BOOLEAN /\ inTime \in BOOLEAN /\ result \in {"none", "success", "fail"}
  /\ reports \in 0 .. MaxReports

FreshTx == [head |-> "none", next |-> "none"]

WifiInit ==
  /\ wifi_uart_tx_buf = FreshTx
  /\ writer = [w \in Writers |-> Resting] /\ line = Quiet
  /\ reset_wifi_flag = 0 /\ Reset_WiFi_Counter = 0 /\ wifi_rst_timer = FALSE
  /\ answers = 0 /\ inform = FALSE
  /\ sent = FALSE /\ inTime = FALSE /\ result = "none" /\ reports = 0

-----------------------------------------------------------------------------
(* The WiFi module (external): it answers a reset and reports a factory    *)
(* reset, and what is sent to it may get lost.                             *)

Arrives(f) ==
  \/ f = "reset" /\ answers < MaxAnswers /\ answers' = answers + 1 /\ UNCHANGED inform
  \/ f = "factory" /\ inform' = TRUE /\ UNCHANGED answers
  \/ UNCHANGED <<answers, inform>>

LoseAnswer ==
  /\ answers > 0 /\ answers' = answers - 1
  /\ UNCHANGED <<wifi_uart_tx_buf, writer, line, resetVars, inform, ghostVars, reports>>

-----------------------------------------------------------------------------
(* wifi_uart_write_frame by a thread that may be interrupted.              *)

Step(w, s) == writer' = [writer EXCEPT ![w].step = s]
At(w, s)   == writer[w].step = s
txRest     == <<resetVars, inTime, result, reports>>

WriteHead(w) ==
  /\ At(w, "head") /\ Step(w, "sum")
  /\ wifi_uart_tx_buf' = [wifi_uart_tx_buf EXCEPT !.head = writer[w].frame]
  /\ UNCHANGED <<line, answers, inform, sent, txRest>>

(* The sum is taken of the head that is there now.  The sum of a frame     *)
(* with data lies farther behind.                                          *)
WriteSum(w) ==
  /\ At(w, "sum") /\ Step(w, "send")
  /\ wifi_uart_tx_buf' = IF writer[w].frame \in Short
                         THEN [wifi_uart_tx_buf EXCEPT !.next = wifi_uart_tx_buf.head]
                         ELSE wifi_uart_tx_buf
  /\ UNCHANGED <<line, answers, inform, sent, txRest>>

SendHead(w) ==
  /\ At(w, "send") /\ Step(w, "last")
  /\ line' = [by |-> w, head |-> wifi_uart_tx_buf.head]
  /\ UNCHANGED <<wifi_uart_tx_buf, answers, inform, sent, txRest>>

(* The frame is good if nothing came between its bytes and the sum fits.   *)
Whole(w) ==
  /\ writer[w].frame \in Short
  /\ line = [by |-> w, head |-> wifi_uart_tx_buf.next] /\ line.head \in Short

SendLast(w) ==
  /\ At(w, "last") /\ Step(w, "rest")
  /\ line' = Quiet
  /\ IF Whole(w) THEN /\ Arrives(line.head)
                      /\ sent' = (sent \/ line.head = "reset")
                 ELSE UNCHANGED <<answers, inform, sent>>
  /\ UNCHANGED <<wifi_uart_tx_buf, txRest>>

wifi_uart_write_frame(w) == WriteHead(w) \/ WriteSum(w) \/ SendHead(w) \/ SendLast(w)

(* Another thread puts data into the buffer and sends them.                *)
Report ==
  /\ At("other", "rest") /\ reports < MaxReports /\ reports' = reports + 1
  /\ wifi_uart_tx_buf' = [wifi_uart_tx_buf EXCEPT !.next = "data"]
  /\ Step("other", "head")
  /\ UNCHANGED <<line, resetVars, answers, inform, ghostVars>>

(* A frame that the key thread begins to write.                            *)
Begin(f) == writer' = [writer EXCEPT !["key"] = [step |-> "head", frame |-> f]]

-----------------------------------------------------------------------------
(* Reset_WiFi, called by the key thread: mcu_reset_wifi, then the counter  *)
(* and the timer.                                                          *)

mcu_reset_wifi ==
  /\ reset_wifi_flag' = 0
  /\ Begin("reset")
  /\ sent' = FALSE /\ inTime' = FALSE
  /\ UNCHANGED <<wifi_uart_tx_buf, line, Reset_WiFi_Counter, wifi_rst_timer,
                 answers, inform, result, reports>>

(* Variation of ClearCounter: the retries of the last time still count.    *)
ClearCounter_Kept == UNCHANGED wifiVars

ClearCounter ==
  /\ Reset_WiFi_Counter' = 0
  /\ UNCHANGED <<wifi_uart_tx_buf, writer, line, reset_wifi_flag, wifi_rst_timer,
                 answers, inform, ghostVars, reports>>

StartTimer ==
  /\ wifi_rst_timer' = TRUE /\ result' = "none"
  /\ UNCHANGED <<wifi_uart_tx_buf, writer, line, reset_wifi_flag, Reset_WiFi_Counter,
                 answers, inform, sent, inTime, reports>>

-----------------------------------------------------------------------------
(* Reset_WiFi_Callback, in the timer thread.                               *)

(* mcu_reset_wifi without an interruption.  In the middle of another frame *)
(* the module may not recognise it.                                        *)
RetryFrame ==
  /\ reset_wifi_flag' = 0
  /\ wifi_uart_tx_buf' = [head |-> "reset", next |-> "reset"]
  /\ line' = Quiet
  /\ Arrives("reset")
  /\ sent' = TRUE

Retry ==
  /\ Reset_WiFi_Counter' = Reset_WiFi_Counter + 1
  /\ RetryFrame
  /\ UNCHANGED <<writer, wifi_rst_timer, inTime, result, reports>>

Stop(r) ==
  /\ wifi_rst_timer' = FALSE /\ result' = r
  /\ UNCHANGED <<wifi_uart_tx_buf, writer, line, reset_wifi_flag, answers, inform,
                 sent, inTime, reports>>

(* Variations of Reset_WiFi_Callback: one retry more; the answer is not    *)
(* looked at; the retries are not counted.                                 *)
Reset_WiFi_Callback_OneMore ==
  /\ wifi_rst_timer
  /\ \/ Reset_WiFi_Counter <= 3 /\ reset_wifi_flag # 1 /\ Retry
     \/ /\ Reset_WiFi_Counter <= 3 /\ reset_wifi_flag = 1
        /\ Reset_WiFi_Counter' = Reset_WiFi_Counter + 1 /\ Stop("success")
     \/ Reset_WiFi_Counter > 3 /\ Stop("fail") /\ UNCHANGED Reset_WiFi_Counter

Reset_WiFi_Callback_Blind ==
  /\ wifi_rst_timer
  /\ \/ Reset_WiFi_Counter < 3 /\ Retry
     \/ Reset_WiFi_Counter >= 3 /\ Stop("fail") /\ UNCHANGED Reset_WiFi_Counter

Reset_WiFi_Callback_Uncounted ==
  /\ wifi_rst_timer
  /\ \/ /\ reset_wifi_flag # 1 /\ RetryFrame
        /\ UNCHANGED <<Reset_WiFi_Counter, writer, wifi_rst_timer, inTime, result, reports>>
     \/ reset_wifi_flag = 1 /\ Stop("success") /\ UNCHANGED Reset_WiFi_Counter

Reset_WiFi_Callback ==
  /\ wifi_rst_timer
  /\ \/ Reset_WiFi_Counter < 3 /\ reset_wifi_flag # 1 /\ Retry
     \/ /\ Reset_WiFi_Counter < 3 /\ reset_wifi_flag = 1
        /\ Reset_WiFi_Counter' = Reset_WiFi_Counter + 1 /\ Stop("success")
     \/ Reset_WiFi_Counter >= 3 /\ Stop("fail") /\ UNCHANGED Reset_WiFi_Counter

(* WIFI_RESET_CMD: the answer of the module, handled by wifi-service.      *)
HandleReset ==
  /\ answers > 0 /\ answers' = answers - 1
  /\ reset_wifi_flag' = 1
  /\ inTime' = (inTime \/ Reset_WiFi_Counter < 3)
  /\ UNCHANGED <<wifi_uart_tx_buf, writer, line, Reset_WiFi_Counter, wifi_rst_timer,
                 inform, sent, result, reports>>
=============================================================================
