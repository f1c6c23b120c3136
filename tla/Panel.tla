-------------------------------- MODULE Panel --------------------------------
(***************************************************************************)
(* The front panel: the key thread (applications/key.c) between the keys   *)
(* and the requests to the WiFi module.  Every 10 ms it takes all five     *)
(* semaphores and serves one of them; what else it has taken is lost.      *)
(* A factory reset empties the key-value store at once and the gateway     *)
(* restarts when the module reports that it has been reset as well.        *)
(***************************************************************************)
EXTENDS Keys, WifiReset

VARIABLES
  key,       \* the key thread: "poll", or what it does next
  fired,     \* the timer has fired during this call of Reset_WiFi
  wiped,     \* the store has been emptied and the gateway still runs
  spoilt     \* the request for the module's factory reset did not arrive

vars == <<keyVars, wifiVars, key, fired, wiped, spoilt>>

TypeOK ==
  /\ KeysTypeOK /\ WifiTypeOK
  /\ key \in {"poll", "factory_frame", "factory_sent", "reset_sent", "start_timer"}
  /\ fired \in BOOLEAN /\ wiped \in BOOLEAN /\ spoilt \in BOOLEAN

-----------------------------------------------------------------------------
(* Key_Reponse_Callback.                                                   *)

Taken(s) == sem[s] > 0
Drained  == [s \in Sems |-> IF sem[s] > 0 THEN sem[s] - 1 ELSE 0]
Click    == Taken("K0") \/ Taken("K1")

Poll ==
  /\ key = "poll" /\ \E s \in Sems : Taken(s)
  /\ sem' = Drained
  /\ \/ /\ Click \/ (~Taken("K0_K1_Long") /\ Taken("K0_Long"))  \* nothing, or Start_Learn
        /\ UNCHANGED <<key, wifiVars, fired, wiped, spoilt>>
     \/ /\ ~Click /\ Taken("K0_K1_Long")            \* ef_env_set_default
        /\ key' = "factory_frame" /\ wiped' = TRUE
        /\ UNCHANGED <<wifiVars, fired, spoilt>>
     \/ /\ ~Click /\ ~Taken("K0_K1_Long") /\ ~Taken("K0_Long")
        /\ key' = "reset_sent" /\ mcu_reset_wifi /\ fired' = FALSE
        /\ UNCHANGED <<wiped, spoilt>>
  /\ UNCHANGED <<down, longs, counter, once, presses>>

(* Variation of FactoryFrame: the module is not told.                      *)
FactoryFrame_NotSent ==
  /\ key = "factory_frame" /\ key' = "poll"
  /\ UNCHANGED <<wifiVars, fired, wiped, spoilt>>

(* reset_factory_setting.                                                  *)
FactoryFrame ==
  /\ key = "factory_frame" /\ key' = "factory_sent"
  /\ Begin("factory")
  /\ UNCHANGED <<wifi_uart_tx_buf, line, resetVars, answers, inform, ghostVars, reports,
                 fired, wiped, spoilt>>

FactorySent ==
  /\ key = "factory_sent" /\ At("key", "rest") /\ key' = "poll"
  /\ spoilt' = (spoilt \/ ~inform)
  /\ UNCHANGED <<wifiVars, fired, wiped>>

(* The rest of Reset_WiFi.                                                 *)
ResetSent ==
  /\ key = "reset_sent" /\ At("key", "rest") /\ key' = "start_timer"
  /\ ClearCounter
  /\ UNCHANGED <<fired, wiped, spoilt>>

TimerStarted ==
  /\ key = "start_timer" /\ key' = "poll"
  /\ StartTimer
  /\ UNCHANGED <<fired, wiped, spoilt>>

KeyThread ==
  \/ Poll
  \/ /\ FactoryFrame \/ FactorySent \/ ResetSent \/ TimerStarted
     /\ UNCHANGED keyVars
  \/ wifi_uart_write_frame("key") /\ UNCHANGED <<keyVars, key, fired, wiped, spoilt>>

-----------------------------------------------------------------------------
(* inform_dev_del_status, local reset: rt_hw_cpu_reset.  A key that is     *)
(* held stays so, and is a new press to the restarted gateway.             *)
Restart ==
  /\ inform /\ inform' = FALSE
  /\ wifi_uart_tx_buf' = FreshTx /\ writer' = [w \in Writers |-> Resting] /\ line' = Quiet
  /\ reset_wifi_flag' = 0 /\ Reset_WiFi_Counter' = 0 /\ wifi_rst_timer' = FALSE
  /\ longs' = [k \in Key |-> 0] /\ counter' = [k \in Key |-> 0]
  /\ once' = [k \in Key |-> 0] /\ sem' = NoneReleased
  /\ key' = "poll" /\ fired' = FALSE /\ wiped' = FALSE /\ spoilt' = FALSE
  /\ sent' = FALSE /\ inTime' = FALSE /\ result' = "none"
  /\ UNCHANGED <<down, presses, answers, reports>>

Others ==
  /\ Report \/ wifi_uart_write_frame("other") \/ HandleReset \/ LoseAnswer
  /\ UNCHANGED <<keyVars, key, fired, wiped, spoilt>>

(* The period is 2 s: at most one callback falls into one Reset_WiFi.      *)
Timer ==
  /\ Reset_WiFi_Callback
  /\ IF key \in {"reset_sent", "start_timer"} THEN ~fired /\ fired' = TRUE
                                              ELSE UNCHANGED fired
  /\ UNCHANGED <<keyVars, key, wiped, spoilt>>

Init ==
  /\ KeysInit /\ WifiInit
  /\ key = "poll" /\ fired = FALSE /\ wiped = FALSE /\ spoilt = FALSE

Next ==
  \/ button_task /\ UNCHANGED <<wifiVars, key, fired, wiped, spoilt>>
  \/ KeyThread \/ Restart \/ Others \/ Timer

(* The threads run, the timer fires and a report of the module is handled. *)
Spec ==
  /\ Init /\ [][Next]_vars
  /\ WF_vars(KeyThread) /\ WF_vars(Timer) /\ WF_vars(Restart)

-----------------------------------------------------------------------------
(* Properties.                                                             *)

(* The retries repair what the threads spoil in the shared buffer: when    *)
(* the timer has stopped after a request for a reset, the request has been *)
(* sent in one piece since, or an answer came anyway.                      *)
ResetAsked ==
  key = "poll" /\ ~wifi_rst_timer /\ result # "none" => sent \/ result = "success"

(* "Wifi Reset Fail" is never reported when the module answered before the *)
(* last retry: the retries do not forget an answer, however late it is and *)
(* wherever it meets the key thread.                                       *)
FailMeansSilent == key = "poll" /\ result = "fail" => ~inTime

(* A reset of the module comes to an end, whether it answers or not.       *)
ResetEnds == wifi_rst_timer ~> ~wifi_rst_timer

(* A factory reset that has emptied the store is carried through to the    *)
(* restart, unless its one frame to the module got spoilt or lost.         *)
FactoryEnds == wiped ~> (~wiped \/ spoilt)
=============================================================================
