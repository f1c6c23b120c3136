----------------------------- MODULE PanelProofs -----------------------------
(***************************************************************************)
(* Proofs about the front panel, for any number of presses, long events,   *)
(* frames of other threads and answers.                                    *)
(***************************************************************************)
EXTENDS Panel, TLAPS

(* The key thread is inside Reset_WiFi.                                    *)
Calling == key \in {"reset_sent", "start_timer"}

(* The counters of the callbacks follow the hand on the keys.              *)
HandInv ==
  \A k \in Key : /\ counter[k] = IF longs[k] > 7 THEN 7 ELSE longs[k]
                 /\ once[k] = 1 => counter[k] = 7

(* The request for a reset and the timer: a timer that has fired since the *)
(* counter was cleared has sent the request, or has seen an answer.        *)
AskInv ==
  /\ inTime => reset_wifi_flag = 1
  /\ key = "start_timer" =>
       /\ Reset_WiFi_Counter <= 1 /\ (~fired => Reset_WiFi_Counter = 0)
       /\ Reset_WiFi_Counter = 0 \/ sent \/ reset_wifi_flag = 1
  /\ ~Calling /\ wifi_rst_timer =>
       /\ result = "none" /\ (inTime => Reset_WiFi_Counter < 3)
       /\ Reset_WiFi_Counter = 0 \/ sent \/ (reset_wifi_flag = 1 /\ Reset_WiFi_Counter <= 1)
  /\ ~Calling /\ ~wifi_rst_timer /\ result = "fail" =>
       ~inTime /\ Reset_WiFi_Counter >= 3 /\ sent

-----------------------------------------------------------------------------
(* The button task keeps the types of its variables.                       *)
LEMMA KeysTyped == KeysTypeOK /\ button_task => KeysTypeOK'
<1> SUFFICES ASSUME KeysTypeOK, NEW k \in Key, Press(k) \/ StillHeld(k) \/ LetGo(k)
             PROVE  KeysTypeOK'
  BY DEF button_task
<1> USE KeysAssumption DEF KeysTypeOK, Sems
<1>1. CASE Press(k)
  BY <1>1 DEF Press
<1>2. CASE StillHeld(k)
  <2>1. longs' \in [Key -> 0 .. MaxLongs] /\ UNCHANGED <<down, presses>>
    BY <1>2 DEF StillHeld
  <2>2. CASE k = "K0"
    <3>1. K0_LongSem_Release
      BY <1>2, <2>2 DEF StillHeld
    <3> QED BY <2>1, <3>1 DEF K0_LongSem_Release, Release, Count, Ignore, Key
  <2>3. CASE k = "K1"
    <3>1. K1_LongSem_Release
      BY <1>2, <2>3 DEF StillHeld
    <3> QED BY <2>1, <3>1 DEF K1_LongSem_Release, Release, Count, Ignore, Key
  <2> QED BY <2>2, <2>3 DEF Key
<1>3. CASE LetGo(k)
  <2>1. /\ down' \in [Key -> BOOLEAN] /\ longs' \in [Key -> 0 .. MaxLongs]
        /\ UNCHANGED presses
    BY <1>3 DEF LetGo
  <2>2. counter' \in [Key -> 0 .. 7] /\ once' \in [Key -> 0 .. 1] /\ sem' \in [Sems -> Nat]
    BY <1>3 DEF LetGo, LongFree_Release, Release, Ignore, Key
  <2> QED BY <2>1, <2>2
<1> QED BY <1>1, <1>2, <1>3

(* What the gateway starts with has its types.                             *)
LEMMA Fresh ==
  /\ FreshTx \in [head : Frame \cup {"none"}, next : Frame \cup {"none", "data"}]
  /\ [w \in Writers |-> Resting]
       \in [Writers -> [step : {"rest", "head", "sum", "send", "last"}, frame : Frame]]
  /\ Quiet \in [by : Writers \cup {"none"}, head : Frame \cup {"none"}]
BY DEF FreshTx, Resting, Quiet, Frame

(* So do the writers of the shared buffer, the timer and the module.       *)
LEMMA WriterTyped ==
  ASSUME WifiTypeOK, NEW w \in Writers, wifi_uart_write_frame(w)
  PROVE  WifiTypeOK'
<1> USE WifiResetAssumption DEF WifiTypeOK
<1>0. writer[w].frame \in Frame /\ wifi_uart_tx_buf.head \in Frame \cup {"none"}
  OBVIOUS
<1>1. CASE WriteHead(w)
  BY <1>0, <1>1 DEF WriteHead, Step, txRest, resetVars
<1>2. CASE WriteSum(w)
  BY <1>0, <1>2 DEF WriteSum, Step, txRest, resetVars
<1>3. CASE SendHead(w)
  BY <1>0, <1>3 DEF SendHead, Step, txRest, resetVars
<1>4. CASE SendLast(w)
  <2>1. writer' \in [Writers -> [step : {"rest", "head", "sum", "send", "last"}, frame : Frame]]
        /\ line' = Quiet
    BY <1>4 DEF SendLast, Step
  <2>2a. answers' \in 0 .. MaxAnswers
    BY <1>4 DEF SendLast, Arrives
  <2>2b. inform' = TRUE \/ inform' = inform
    BY <1>4 DEF SendLast, Arrives
  <2>2c. sent' \in BOOLEAN
    BY <1>4 DEF SendLast
  <2>2. answers' \in 0 .. MaxAnswers /\ inform' \in BOOLEAN /\ sent' \in BOOLEAN
    BY <2>2a, <2>2b, <2>2c
  <2>3. UNCHANGED <<wifi_uart_tx_buf, txRest>>
    BY <1>4 DEF SendLast
  <2> QED BY <2>1, <2>2, <2>3 DEF txRest, resetVars, Quiet
<1> QED BY <1>1, <1>2, <1>3, <1>4 DEF wifi_uart_write_frame

LEMMA CallbackTyped ==
  ASSUME WifiTypeOK, Reset_WiFi_Callback
  PROVE  WifiTypeOK'
<1> USE WifiResetAssumption DEF WifiTypeOK
<1>1. CASE Reset_WiFi_Counter < 3 /\ Retry
  <2>1. answers' \in 0 .. MaxAnswers /\ inform' \in BOOLEAN
    BY <1>1 DEF Retry, RetryFrame, Arrives
  <2>2. wifi_uart_tx_buf' = [head |-> "reset", next |-> "reset"] /\ line' = Quiet
        /\ sent' = TRUE /\ reset_wifi_flag' = 0
        /\ Reset_WiFi_Counter' = Reset_WiFi_Counter + 1
        /\ UNCHANGED <<writer, wifi_rst_timer, inTime, result, reports>>
    BY <1>1 DEF Retry, RetryFrame
  <2> QED BY <1>1, <2>1, <2>2 DEF Quiet, Frame, Short
<1>2. ASSUME NEW r \in {"success", "fail"}, Stop(r), Reset_WiFi_Counter' \in 0 .. 3
      PROVE  WifiTypeOK'
  BY <1>2 DEF Stop
<1> QED BY <1>1, <1>2 DEF Reset_WiFi_Callback

LEMMA OthersTyped ==
  ASSUME WifiTypeOK, Report \/ HandleReset \/ LoseAnswer
  PROVE  WifiTypeOK'
<1> USE WifiResetAssumption DEF WifiTypeOK
<1>1. CASE Report
  BY <1>1 DEF Report, Step, At, resetVars, ghostVars, Writers, Frame
<1>2. CASE HandleReset
  BY <1>2 DEF HandleReset
<1>3. CASE LoseAnswer
  BY <1>3 DEF LoseAnswer, resetVars, ghostVars
<1> QED BY <1>1, <1>2, <1>3

(* The types of the panel: the counters, the semaphores, the writers and   *)
(* the retries stay in range, whatever the interleaving.                   *)
THEOREM PanelTypeCorrect == Spec => []TypeOK
<1> USE KeysAssumption, WifiResetAssumption
<1>1. Init => TypeOK
  <2> SUFFICES ASSUME Init PROVE TypeOK
    OBVIOUS
  <2>1. KeysTypeOK
    BY DEF Init, KeysInit, KeysTypeOK, NoneReleased
  <2>2. WifiTypeOK
    <3>1. /\ wifi_uart_tx_buf = FreshTx /\ writer = [w \in Writers |-> Resting] /\ line = Quiet
          /\ reset_wifi_flag = 0 /\ Reset_WiFi_Counter = 0 /\ answers = 0 /\ reports = 0
          /\ result = "none"
      BY DEF Init, WifiInit
    <3>2. wifi_rst_timer = FALSE /\ inform = FALSE /\ sent = FALSE /\ inTime = FALSE
      BY DEF Init, WifiInit
    <3>3. reset_wifi_flag \in 0 .. 1 /\ Reset_WiFi_Counter \in 0 .. 3
          /\ answers \in 0 .. MaxAnswers /\ reports \in 0 .. MaxReports
      BY <3>1
    <3> QED BY <3>1, <3>2, <3>3, Fresh, Zenon DEF WifiTypeOK
  <2> QED BY <2>1, <2>2 DEF Init, TypeOK
<1>2. TypeOK /\ [Next]_vars => TypeOK'
  <2> SUFFICES ASSUME TypeOK, [Next]_vars PROVE TypeOK'
    OBVIOUS
  <2> USE DEF TypeOK
  <2>1. CASE button_task /\ UNCHANGED <<wifiVars, key, fired, wiped, spoilt>>
    BY <2>1, KeysTyped DEF wifiVars, WifiTypeOK
  <2>2. CASE Poll
    <3>1. KeysTypeOK'
      BY <2>2 DEF Poll, KeysTypeOK, Drained
    <3>2. CASE UNCHANGED <<key, wifiVars, fired, wiped, spoilt>>
      BY <3>1, <3>2 DEF wifiVars, WifiTypeOK
    <3>3. CASE key' = "factory_frame" /\ wiped' = TRUE /\ UNCHANGED <<wifiVars, fired, spoilt>>
      BY <3>1, <3>3 DEF wifiVars, WifiTypeOK
    <3>4. CASE key' = "reset_sent" /\ mcu_reset_wifi /\ fired' = FALSE /\ UNCHANGED <<wiped, spoilt>>
      <4>1. writer' \in [Writers -> [step : {"rest", "head", "sum", "send", "last"}, frame : Frame]]
        BY <3>4 DEF mcu_reset_wifi, Begin, WifiTypeOK, Frame, Short
      <4>3. /\ reset_wifi_flag' \in 0 .. 1 /\ sent' = FALSE /\ inTime' = FALSE
            /\ UNCHANGED <<wifi_uart_tx_buf, line, Reset_WiFi_Counter, wifi_rst_timer,
                           answers, inform, result, reports>>
        BY <3>4 DEF mcu_reset_wifi
      <4>2. WifiTypeOK'
        BY <4>1, <4>3 DEF WifiTypeOK
      <4> QED BY <3>1, <3>4, <4>2
    <3> QED BY <2>2, <3>2, <3>3, <3>4 DEF Poll
  <2>3. CASE UNCHANGED keyVars /\ (FactoryFrame \/ FactorySent \/ ResetSent \/ TimerStarted)
    <3>1. KeysTypeOK'
      BY <2>3 DEF keyVars, KeysTypeOK
    <3>2. CASE FactoryFrame
      BY <3>1, <3>2 DEF FactoryFrame, Begin, WifiTypeOK, Writers, Frame, Short, resetVars,
           ghostVars
    <3>3. CASE FactorySent
      BY <3>1, <3>3 DEF FactorySent, WifiTypeOK, wifiVars
    <3>4. CASE ResetSent
      BY <3>1, <3>4 DEF ResetSent, ClearCounter, WifiTypeOK, ghostVars
    <3>5. CASE TimerStarted
      BY <3>1, <3>5 DEF TimerStarted, StartTimer, WifiTypeOK
    <3> QED BY <2>3, <3>2, <3>3, <3>4, <3>5
  <2>4. ASSUME NEW w \in Writers, wifi_uart_write_frame(w),
               UNCHANGED <<keyVars, key, fired, wiped, spoilt>>
        PROVE  TypeOK'
    BY <2>4, WriterTyped DEF keyVars, KeysTypeOK
  <2>5. CASE /\ Report \/ HandleReset \/ LoseAnswer
             /\ UNCHANGED <<keyVars, key, fired, wiped, spoilt>>
    BY <2>5, OthersTyped DEF keyVars, KeysTypeOK
  <2>6. CASE Timer
    <3>1. WifiTypeOK' /\ fired' \in BOOLEAN
      BY <2>6, CallbackTyped DEF Timer
    <3> QED BY <2>6, <3>1 DEF Timer, keyVars, KeysTypeOK
  <2>7. CASE Restart
    <3>1. KeysTypeOK'
      BY <2>7 DEF Restart, KeysTypeOK, NoneReleased
    <3>2. WifiTypeOK'
      <4>1. /\ wifi_uart_tx_buf' = FreshTx /\ writer' = [w \in Writers |-> Resting]
            /\ line' = Quiet /\ reset_wifi_flag' = 0 /\ Reset_WiFi_Counter' = 0
            /\ result' = "none" /\ UNCHANGED <<answers, reports>>
        BY <2>7 DEF Restart
      <4>2. wifi_rst_timer' = FALSE /\ inform' = FALSE /\ sent' = FALSE /\ inTime' = FALSE
        BY <2>7 DEF Restart
      <4>3. reset_wifi_flag' \in 0 .. 1 /\ Reset_WiFi_Counter' \in 0 .. 3
            /\ answers' \in 0 .. MaxAnswers /\ reports' \in 0 .. MaxReports
        BY <4>1 DEF WifiTypeOK
      <4> QED BY <4>1, <4>2, <4>3, Fresh, Zenon DEF WifiTypeOK
    <3> QED BY <2>7, <3>1, <3>2 DEF Restart
  <2>8. CASE UNCHANGED vars
    BY <2>8 DEF vars, keyVars, wifiVars, KeysTypeOK, WifiTypeOK
  <2> QED BY <2>1, <2>2, <2>3, <2>4, <2>5, <2>6, <2>7, <2>8
          DEF Next, KeyThread, Others, Writers
<1> QED BY <1>1, <1>2, PTL DEF Spec

-----------------------------------------------------------------------------
(* The semaphores that long presses release, and what they must mean.      *)
Meant ==
  /\ Asks("K0_K1_Long") => longs["K0"] >= 6 /\ longs["K1"] >= 7
  /\ Asks("K0_Long") => longs["K0"] >= 7 /\ longs["K1"] = 0
  /\ Asks("K1_Long") => longs["K1"] >= 7 /\ longs["K0"] < 6

(* A long event: either it counts, or the counter has reached seven.       *)
LEMMA HandLong ==
  ASSUME KeysTypeOK, HandInv, NEW k \in Key,
         longs' = [longs EXCEPT ![k] = IF @ < MaxLongs THEN @ + 1 ELSE @],
         once' \in [Key -> 0 .. 1],
         \/ counter[k] <= 6 /\ Count(k)
         \/ counter[k] = 7 /\ UNCHANGED counter
            /\ (\A j \in Key : once'[j] = 1 => once[j] = 1 \/ counter[j] = 7)
  PROVE  HandInv'
<1> USE KeysAssumption
<1> SUFFICES ASSUME NEW j \in Key
             PROVE  /\ counter'[j] = IF longs'[j] > 7 THEN 7 ELSE longs'[j]
                    /\ once'[j] = 1 => counter'[j] = 7
  BY DEF HandInv
<1>0. /\ counter[j] = (IF longs[j] > 7 THEN 7 ELSE longs[j]) /\ counter[j] \in 0 .. 7
      /\ longs[j] \in 0 .. MaxLongs /\ (once[j] = 1 => counter[j] = 7)
  BY DEF HandInv, KeysTypeOK
<1>1. CASE j # k
  BY <1>0, <1>1 DEF Count, KeysTypeOK
<1>2. CASE j = k
  <2>1. longs'[j] = IF longs[j] < MaxLongs THEN longs[j] + 1 ELSE longs[j]
    BY <1>2 DEF KeysTypeOK
  <2>2. CASE counter[k] <= 6 /\ Count(k)
    <3>1. counter'[j] = counter[j] + 1 /\ once' = once
      BY <1>2, <2>2 DEF Count, KeysTypeOK
    <3> QED BY <1>0, <1>2, <2>1, <2>2, <3>1
  <2>3. CASE counter[k] = 7 /\ UNCHANGED counter
    BY <1>0, <1>2, <2>1, <2>3
  <2> QED BY <2>2, <2>3
<1> QED BY <1>1, <1>2

LEMMA HandStep ==
  ASSUME KeysTypeOK, KeysTypeOK', HandInv, button_task
  PROVE  HandInv' /\ Meant
<1> USE KeysAssumption
<1>0. PICK k \in Key : Press(k) \/ StillHeld(k) \/ LetGo(k)
  BY DEF button_task
<1>a. /\ sem \in [Sems -> Nat] /\ "K0" \in Key /\ "K1" \in Key
      /\ counter \in [Key -> 0 .. 7] /\ once \in [Key -> 0 .. 1] /\ once' \in [Key -> 0 .. 1]
      /\ longs \in [Key -> 0 .. MaxLongs]
  BY DEF KeysTypeOK, Key
<1>b. UNCHANGED sem => Meant
  BY <1>a DEF Meant, Asks, Sems
<1>1. CASE Press(k)
  BY <1>1, <1>b DEF Press, HandInv
<1>2. CASE LetGo(k)
  <2>1. longs' = [longs EXCEPT ![k] = 0]
    BY <1>2 DEF LetGo
  <2>2. CASE longs[k] > 0 /\ LongFree_Release(k)
    BY <2>1, <2>2, <1>a, <1>b DEF LongFree_Release, HandInv
  <2>3. CASE longs[k] = 0 /\ Release(k) /\ UNCHANGED <<counter, once>>
    <3>1. HandInv'
      BY <2>1, <2>3, <1>a DEF HandInv
    <3>2. Meant
      BY <2>3, <1>a DEF Release, Meant, Asks, Sems, Key
    <3> QED BY <3>1, <3>2
  <2>4. CASE longs[k] = 0 /\ Ignore
    BY <2>1, <2>4, <1>a, <1>b DEF Ignore, HandInv
  <2> QED BY <1>2, <2>2, <2>3, <2>4 DEF LetGo
<1>3. CASE StillHeld("K0")
  <2>1. /\ longs' = [longs EXCEPT !["K0"] = IF @ < MaxLongs THEN @ + 1 ELSE @]
        /\ K0_LongSem_Release
    BY <1>3 DEF StillHeld
  <2>2. CASE counter["K0"] <= 6 /\ Count("K0")
    <3>1. HandInv'
      BY <2>1, <2>2, <1>a, HandLong
    <3> QED BY <2>2, <3>1, <1>b DEF Count
  <2>3. CASE counter["K0"] = 7 /\ Ignore
    <3>1. HandInv'
      BY <2>1, <2>3, <1>a, HandLong DEF Ignore
    <3> QED BY <2>3, <3>1, <1>b DEF Ignore
  <2>4. CASE /\ counter["K0"] = 7 /\ counter["K1"] = 0 /\ UNCHANGED counter
             /\ once' = [once EXCEPT !["K0"] = 1] /\ Release("K0_Long")
    <3>0. \A j \in Key : once'[j] = 1 => once[j] = 1 \/ counter[j] = 7
      BY <2>4, <1>a
    <3>1. HandInv'
      BY <2>1, <2>4, <3>0, <1>a, HandLong
    <3>2. longs["K0"] >= 7 /\ longs["K1"] = 0
      BY <2>4, <1>a DEF HandInv
    <3>3. ~Asks("K0_K1_Long") /\ ~Asks("K1_Long")
      BY <2>4, <1>a DEF Release, Asks, Sems
    <3> QED BY <3>1, <3>2, <3>3 DEF Meant
  <2>5. once["K0"] = 1 => counter["K0"] = 7
    BY <1>a DEF HandInv
  <2> QED BY <2>1, <2>2, <2>3, <2>4, <2>5, <1>a DEF K0_LongSem_Release
<1>4. CASE StillHeld("K1")
  <2>1. /\ longs' = [longs EXCEPT !["K1"] = IF @ < MaxLongs THEN @ + 1 ELSE @]
        /\ K1_LongSem_Release
    BY <1>4 DEF StillHeld
  <2>2. CASE counter["K1"] <= 6 /\ Count("K1")
    <3>1. HandInv'
      BY <2>1, <2>2, <1>a, HandLong
    <3> QED BY <2>2, <3>1, <1>b DEF Count
  <2>3. CASE counter["K1"] = 7 /\ Ignore
    <3>1. HandInv'
      BY <2>1, <2>3, <1>a, HandLong DEF Ignore
    <3> QED BY <2>3, <3>1, <1>b DEF Ignore
  <2>4. CASE /\ counter["K1"] = 7 /\ UNCHANGED counter
             /\ once' = [once EXCEPT !["K1"] = 1]
             /\ Release(IF counter["K0"] > 5 THEN "K0_K1_Long" ELSE "K1_Long")
    <3>0. \A j \in Key : once'[j] = 1 => once[j] = 1 \/ counter[j] = 7
      BY <2>4, <1>a
    <3>1. HandInv'
      BY <2>1, <2>4, <3>0, <1>a, HandLong
    <3>2. longs["K1"] >= 7 /\ (counter["K0"] > 5 <=> longs["K0"] >= 6)
      BY <2>4, <1>a DEF HandInv
    <3>3. /\ ~Asks("K0_Long")
          /\ Asks("K0_K1_Long") => counter["K0"] > 5
          /\ Asks("K1_Long") => ~(counter["K0"] > 5)
      BY <2>4, <1>a DEF Release, Asks, Sems
    <3>4. longs["K0"] \in Int
      BY <1>a
    <3> QED BY <3>1, <3>2, <3>3, <3>4 DEF Meant
  <2>5. once["K1"] = 1 => counter["K1"] = 7
    BY <1>a DEF HandInv
  <2> QED BY <2>1, <2>2, <2>3, <2>4, <2>5, <1>a DEF K1_LongSem_Release
<1> QED BY <1>0, <1>1, <1>2, <1>3, <1>4 DEF Key

(* A factory reset is asked for only while both keys are held, learning    *)
(* only while K0 alone is, and a reset of the WiFi module only while K1 is *)
(* and K0 is not or only since shortly: for any sequence of presses.       *)
THEOREM PanelGestures == Spec => GesturesMeant
<1>1. Init => HandInv
  BY DEF Init, KeysInit, HandInv
<1>2. TypeOK /\ TypeOK' /\ HandInv /\ [Next]_vars => HandInv' /\ [Meant]_keyVars
  <2> SUFFICES ASSUME TypeOK, TypeOK', HandInv, [Next]_vars
               PROVE  HandInv' /\ [Meant]_keyVars
    OBVIOUS
  <2>1. CASE button_task
    BY <2>1, HandStep DEF TypeOK
  <2>2. CASE Poll
    <3>1. sem' = Drained /\ UNCHANGED <<longs, counter, once>>
      BY <2>2 DEF Poll
    <3>2. \A s \in Sems : ~Asks(s)
      BY <3>1 DEF Drained, Asks, TypeOK, KeysTypeOK
    <3> QED BY <3>1, <3>2 DEF HandInv, Meant, Sems
  <2>3. CASE Restart
    <3>1. sem' = NoneReleased /\ longs' = [k \in Key |-> 0] /\ counter' = [k \in Key |-> 0]
          /\ once' = [k \in Key |-> 0]
      BY <2>3 DEF Restart
    <3>2. \A s \in Sems : ~Asks(s)
      BY <3>1 DEF NoneReleased, Asks, TypeOK, KeysTypeOK
    <3>3. HandInv'
      BY <3>1 DEF HandInv
    <3> QED BY <3>2, <3>3 DEF Meant, Sems
  <2>4. CASE UNCHANGED keyVars
    BY <2>4 DEF keyVars, HandInv
  <2> QED BY <2>1, <2>2, <2>3, <2>4 DEF Next, KeyThread, Others, Timer, vars
<1>3. [][Meant]_keyVars <=> GesturesMeant
  BY PTL DEF GesturesMeant, Meant
<1> QED BY <1>1, <1>2, <1>3, PanelTypeCorrect, PTL DEF Spec

-----------------------------------------------------------------------------
(* What AskInv looks at.                                                   *)
askVars == <<inTime, reset_wifi_flag, key, fired, Reset_WiFi_Counter, sent,
             wifi_rst_timer, result>>

AskType ==
  /\ inTime \in BOOLEAN /\ fired \in BOOLEAN /\ sent \in BOOLEAN /\ wifi_rst_timer \in BOOLEAN
  /\ reset_wifi_flag \in 0 .. 1 /\ Reset_WiFi_Counter \in 0 .. 3
  /\ result \in {"none", "success", "fail"}

(* A thread that writes a frame can only add to what has been sent.        *)
LEMMA WriterAsks ==
  ASSUME NEW w \in Writers, wifi_uart_write_frame(w)
  PROVE  /\ sent => sent'
         /\ UNCHANGED <<reset_wifi_flag, Reset_WiFi_Counter, wifi_rst_timer, inTime, result>>
<1>1. CASE WriteHead(w)
  BY <1>1 DEF WriteHead, txRest, resetVars
<1>2. CASE WriteSum(w)
  BY <1>2 DEF WriteSum, txRest, resetVars
<1>3. CASE SendHead(w)
  BY <1>3 DEF SendHead, txRest, resetVars
<1>4. CASE SendLast(w)
  BY <1>4 DEF SendLast, txRest, resetVars
<1> QED BY <1>1, <1>2, <1>3, <1>4 DEF wifi_uart_write_frame

(* The callback of the timer.                                              *)
LEMMA TimerAsks ==
  ASSUME AskType, AskInv, Timer
  PROVE  AskInv'
<1>1. wifi_rst_timer /\ UNCHANGED key /\ (Calling <=> Calling')
  BY DEF Timer, Reset_WiFi_Callback, Calling
<1>2. /\ Calling => ~fired /\ fired'
      /\ ~Calling => fired' = fired
  BY DEF Timer, Calling
<1>3. CASE Reset_WiFi_Counter < 3 /\ reset_wifi_flag # 1 /\ Retry
  <2>1. /\ Reset_WiFi_Counter' = Reset_WiFi_Counter + 1 /\ reset_wifi_flag' = 0
        /\ sent' /\ UNCHANGED <<wifi_rst_timer, inTime, result>>
    BY <1>3 DEF Retry, RetryFrame
  <2>2. ~inTime
    BY <1>3 DEF AskInv
  <2>3. key' = "start_timer" => Reset_WiFi_Counter' <= 1 /\ fired'
    BY <1>1, <1>2, <2>1 DEF AskInv, AskType, Calling
  <2>4. ~Calling' => result' = "none"
    BY <1>1, <2>1 DEF AskInv
  <2> QED BY <1>1, <2>1, <2>2, <2>3, <2>4 DEF AskInv
<1>4. CASE /\ Reset_WiFi_Counter < 3 /\ reset_wifi_flag = 1
           /\ Reset_WiFi_Counter' = Reset_WiFi_Counter + 1 /\ Stop("success")
  <2>1. ~wifi_rst_timer' /\ result' = "success" /\ UNCHANGED <<reset_wifi_flag, inTime, sent>>
    BY <1>4 DEF Stop
  <2>2. key' = "start_timer" => Reset_WiFi_Counter' <= 1 /\ fired'
    BY <1>1, <1>2, <1>4 DEF AskInv, AskType, Calling
  <2> QED BY <1>1, <1>4, <2>1, <2>2 DEF AskInv
<1>5. CASE Reset_WiFi_Counter >= 3 /\ Stop("fail") /\ UNCHANGED Reset_WiFi_Counter
  <2>1. ~wifi_rst_timer' /\ result' = "fail" /\ UNCHANGED <<reset_wifi_flag, inTime, sent>>
    BY <1>5 DEF Stop
  <2>2. key # "start_timer"
    BY <1>5 DEF AskInv, AskType
  <2>3. ~Calling => ~inTime /\ sent
    BY <1>1, <1>5 DEF AskInv, AskType
  <2> QED BY <1>1, <1>5, <2>1, <2>2, <2>3 DEF AskInv
<1> QED BY <1>3, <1>4, <1>5 DEF Timer, Reset_WiFi_Callback

LEMMA AskStep ==
  ASSUME TypeOK, AskInv, [Next]_vars
  PROVE  AskInv'
<1>0. AskType
  BY DEF TypeOK, WifiTypeOK, AskType
<1>1. CASE UNCHANGED askVars
  BY <1>1 DEF askVars, AskInv, Calling
<1>2. CASE Poll
  <2>1. CASE UNCHANGED <<key, wifiVars, fired, wiped, spoilt>>
    BY <1>1, <2>1 DEF wifiVars, askVars
  <2>2. CASE key' = "factory_frame" /\ wiped' = TRUE /\ UNCHANGED <<wifiVars, fired, spoilt>>
    BY <1>2, <2>2 DEF Poll, wifiVars, AskInv, Calling
  <2>3. CASE key' = "reset_sent" /\ mcu_reset_wifi /\ fired' = FALSE
    BY <2>3 DEF mcu_reset_wifi, AskInv, Calling
  <2> QED BY <1>2, <2>1, <2>2, <2>3 DEF Poll
<1>3. CASE FactoryFrame
  BY <1>3 DEF FactoryFrame, resetVars, ghostVars, AskInv, Calling
<1>4. CASE FactorySent
  BY <1>4 DEF FactorySent, wifiVars, AskInv, Calling
<1>5. CASE ResetSent
  <2>1. /\ key' = "start_timer" /\ Reset_WiFi_Counter' = 0
        /\ UNCHANGED <<reset_wifi_flag, inTime>>
    BY <1>5 DEF ResetSent, ClearCounter, ghostVars
  <2> QED BY <2>1 DEF AskInv, Calling
<1>6. CASE TimerStarted
  <2>1. /\ key = "start_timer" /\ key' = "poll" /\ wifi_rst_timer' /\ result' = "none"
        /\ UNCHANGED <<reset_wifi_flag, Reset_WiFi_Counter, sent, inTime>>
    BY <1>6 DEF TimerStarted, StartTimer
  <2> QED BY <1>0, <2>1 DEF AskInv, AskType, Calling
<1>7. ASSUME NEW w \in Writers, wifi_uart_write_frame(w), UNCHANGED <<key, fired>>
      PROVE  AskInv'
  <2>1. /\ (sent => sent') /\ UNCHANGED <<key, fired>>
        /\ UNCHANGED <<reset_wifi_flag, Reset_WiFi_Counter, wifi_rst_timer, inTime, result>>
    BY <1>7, WriterAsks
  <2> QED BY <2>1 DEF AskInv, Calling
<1>8. CASE Report /\ UNCHANGED <<key, fired>>
  BY <1>1, <1>8 DEF Report, resetVars, ghostVars, askVars
<1>9. CASE LoseAnswer /\ UNCHANGED <<key, fired>>
  BY <1>1, <1>9 DEF LoseAnswer, resetVars, ghostVars, askVars
<1>10. CASE HandleReset /\ UNCHANGED <<key, fired>>
  <2>1. /\ reset_wifi_flag' = 1 /\ (inTime' => inTime \/ Reset_WiFi_Counter < 3)
        /\ UNCHANGED <<key, fired, Reset_WiFi_Counter, wifi_rst_timer, sent, result>>
    BY <1>10 DEF HandleReset
  <2>2. ~Calling /\ wifi_rst_timer /\ inTime' => Reset_WiFi_Counter < 3
    BY <2>1 DEF AskInv
  <2>3. ~Calling /\ ~wifi_rst_timer /\ result = "fail" => ~inTime'
    BY <1>0, <2>1 DEF AskInv, AskType
  <2>4. Calling' <=> Calling
    BY <2>1 DEF Calling
  <2> QED BY <2>1, <2>2, <2>3, <2>4 DEF AskInv
<1>11. CASE Timer
  BY <1>0, <1>11, TimerAsks
<1>12. CASE Restart
  <2>1. key' = "poll" /\ ~inTime' /\ ~wifi_rst_timer' /\ result' = "none"
    BY <1>12 DEF Restart
  <2> QED BY <2>1 DEF AskInv, Calling
<1>13. CASE button_task /\ UNCHANGED <<wifiVars, key, fired, wiped, spoilt>>
  BY <1>1, <1>13 DEF wifiVars, askVars
<1>14. CASE UNCHANGED vars
  BY <1>1, <1>14 DEF vars, wifiVars, askVars
<1> QED BY <1>2, <1>3, <1>4, <1>5, <1>6, <1>7, <1>8, <1>9, <1>10, <1>11, <1>12, <1>13, <1>14
        DEF Next, KeyThread, Others, Writers

LEMMA AskInvariant == Spec => []AskInv
<1>1. Init => AskInv
  BY DEF Init, WifiInit, AskInv, Calling
<1>2. TypeOK /\ AskInv /\ [Next]_vars => AskInv'
  BY AskStep
<1> QED BY <1>1, <1>2, PanelTypeCorrect, PTL DEF Spec

(* Whatever other threads do to the shared transmit buffer, a reset of the *)
(* WiFi module that has ended was asked for in one piece, or was answered. *)
THEOREM PanelResetAsked == Spec => []ResetAsked
<1>1. TypeOK /\ AskInv => ResetAsked
  BY DEF TypeOK, WifiTypeOK, AskInv, Calling, ResetAsked
<1> QED BY <1>1, AskInvariant, PanelTypeCorrect, PTL

(* The timer never reports a failed reset when the module answered before  *)
(* the last retry.                                                         *)
THEOREM PanelFailMeansSilent == Spec => []FailMeansSilent
<1>1. AskInv => FailMeansSilent
  BY DEF AskInv, Calling, FailMeansSilent
<1> QED BY <1>1, AskInvariant, PTL
=============================================================================
