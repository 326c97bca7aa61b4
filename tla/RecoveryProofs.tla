----------------------------- MODULE RecoveryProofs -----------------------------
(***************************************************************************)
(* For every set of links: the restart watchdogs keep their types, the     *)
(* active uplink has an address, and a pass that found the server back     *)
(* does not restart the unit for having lost it.                           *)
(***************************************************************************)
EXTENDS Recovery, TLAPS

LEMMA InitType == Init => TypeOK
  BY DEF Init, TypeOK

LEMMA UnitType == TypeOK /\ Unit => TypeOK'
  <1> SUFFICES ASSUME TypeOK, Unit PROVE TypeOK'
    OBVIOUS
  <1> USE DEF TypeOK, unit, network, portal, watchdogs
  <1>1. CASE MqttConnected BY <1>1 DEF MqttConnected
  <1>2. CASE MqttLost
    <2>1. connected' \in BOOLEAN /\ UNCHANGED <<told, configured, cs, network, watchdogs>>
      BY <1>2, Zenon DEF MqttLost
    <2> QED BY <2>1
  <1>3. CASE CsBegin BY <1>3 DEF CsBegin
  <1>4. CASE CsEnd
    <2>1. cs' \in BOOLEAN /\ UNCHANGED <<connected, told, configured, network, watchdogs>>
      BY <1>4, Zenon DEF CsEnd
    <2> QED BY <2>1
  <1>5. CASE SetConfig BY <1>5 DEF SetConfig
  <1>6. CASE LostLonger BY <1>6 DEF LostLonger
  <1>7. CASE StuckLonger BY <1>7 DEF StuckLonger
  <1>8. CASE GraceEnds
    <2>1. grace' \in BOOLEAN /\ UNCHANGED <<unit, network, lost, stuck, pending, pass, served>>
      BY <1>8, Zenon DEF GraceEnds
    <2> QED BY <2>1
  <1> QED BY <1>1, <1>2, <1>3, <1>4, <1>5, <1>6, <1>7, <1>8 DEF Unit

(* A link that goes down takes the active uplink with it, so that one      *)
(* always has an address.                                                  *)
LEMMA EventLoopType == TypeOK /\ EventLoop => TypeOK'
  <1> SUFFICES ASSUME TypeOK, EventLoop PROVE TypeOK'
    OBVIOUS
  <1> USE DEF TypeOK, unit, network, portal, watchdogs
  <1>1. ASSUME NEW l \in Links, NetUp(l) PROVE TypeOK'
    BY <1>1 DEF NetUp
  <1>2. ASSUME NEW l \in Links, NetDown(l) PROVE TypeOK'
    BY <1>2 DEF NetDown
  <1>3. CASE OnMqttConnected
    <2>1. /\ told' \in BOOLEAN /\ lost' = "no" /\ pending' = "none"
          /\ UNCHANGED <<connected, configured, cs, network, grace, stuck, pass, served>>
      BY <1>3, Zenon DEF OnMqttConnected, clear_server_watchdog
    <2> QED BY <2>1
  <1>4. CASE OnProvisionStart BY <1>4 DEF OnProvisionStart
  <1>5. CASE OnConfigSaved
    <2>1. /\ wifi_config_ready' \in BOOLEAN /\ provision_active' \in BOOLEAN /\ busy' \in BOOLEAN
          /\ wifi_reason' = "none" /\ stuck' = "no"
          /\ UNCHANGED <<connected, told, cs, has_ip, active, grace, lost, pending, pass, served>>
      BY <1>5, Zenon DEF OnConfigSaved
    <2>2. configured' \in BOOLEAN
      BY <1>5 DEF OnConfigSaved
    <2> QED BY <2>1, <2>2
  <1>6. CASE OnStaDisconnected BY <1>6 DEF OnStaDisconnected
  <1> QED BY <1>1, <1>2, <1>3, <1>4, <1>5, <1>6 DEF EventLoop

LEMMA TaskType == TypeOK /\ app_recovery_task => TypeOK'
  <1> SUFFICES ASSUME TypeOK, app_recovery_task PROVE TypeOK'
    OBVIOUS
  <1> USE DEF TypeOK, unit, network, portal, watchdogs
  <1>1. CASE handle_server_watchdog
    BY <1>1 DEF handle_server_watchdog, clear_server_watchdog, request_reboot
  <1>2. CASE CycleEnd BY <1>2 DEF CycleEnd, request_reboot
  <1>3. CASE handle_wifi_stuck_watchdog
    BY <1>3 DEF handle_wifi_stuck_watchdog, request_reboot
  <1>4. CASE handle_pending_reboot BY <1>4 DEF handle_pending_reboot
  <1>5. CASE Restart BY <1>5 DEF Restart, esp_restart
  <1> QED BY <1>1, <1>2, <1>3, <1>4, <1>5 DEF app_recovery_task

(* The watchdogs keep their types, and the active uplink is one of those   *)
(* with an address (app_recovery.c:446-508).                               *)
THEOREM TypeCorrect == Spec => []TypeOK
  <1>1. TypeOK /\ [Next]_vars => TypeOK'
    <2>1. TypeOK /\ OtherRestart => TypeOK'
      BY DEF TypeOK, OtherRestart, esp_restart
    <2>2. TypeOK /\ UNCHANGED vars => TypeOK'
      BY DEF TypeOK, vars, unit, network, portal, watchdogs
    <2> QED BY <2>1, <2>2, UnitType, EventLoopType, TaskType DEF Next
  <1> QED BY <1>1, InitType, PTL DEF Spec

-----------------------------------------------------------------------------
(* From the pass of the server watchdog that finds a connection to the end *)
(* of the pass, no restart for a lost server is pending: only the server   *)
(* watchdog itself asks for one.                                           *)
Forgotten == pass # "idle" /\ served => pending # "SERVER_LOST" /\ pass \notin {"cycle", "long_cycle"}

LEMMA ForgottenStep == TypeOK /\ Forgotten /\ [Next]_vars => Forgotten'
  <1> SUFFICES ASSUME TypeOK, Forgotten, [Next]_vars PROVE Forgotten'
    OBVIOUS
  <1> USE DEF Forgotten
  <1>1. CASE UNCHANGED <<pass, served, pending>>
    BY <1>1
  <1>2. CASE OnMqttConnected
    BY <1>2 DEF OnMqttConnected, clear_server_watchdog
  <1>3. CASE handle_server_watchdog
    BY <1>3 DEF handle_server_watchdog, clear_server_watchdog, request_reboot
  <1>4. CASE CycleEnd
    BY <1>4 DEF CycleEnd, request_reboot
  <1>5. CASE handle_wifi_stuck_watchdog
    BY <1>5 DEF handle_wifi_stuck_watchdog, request_reboot
  <1>6. CASE handle_pending_reboot
    BY <1>6 DEF handle_pending_reboot
  <1>7. CASE Restart \/ OtherRestart
    BY <1>7 DEF Restart, OtherRestart, esp_restart
  <1>8. CASE Unit
    BY <1>1, <1>8 DEF Unit, MqttConnected, MqttLost, CsBegin, CsEnd, SetConfig, LostLonger,
       StuckLonger, GraceEnds, watchdogs
  <1>9. CASE EventLoop
    BY <1>1, <1>2, <1>9 DEF EventLoop, NetUp, NetDown, OnProvisionStart, OnConfigSaved,
       OnStaDisconnected, watchdogs
  <1>10. CASE UNCHANGED vars
    BY <1>1, <1>10 DEF vars, watchdogs
  <1> QED BY <1>3, <1>4, <1>5, <1>6, <1>7, <1>8, <1>9, <1>10 DEF Next, app_recovery_task

(* A restart for a lost server that was put off does not happen in a pass  *)
(* that found the server back, whatever kept the unit busy, however long   *)
(* its modem was being power cycled (app_recovery.c:220-386).              *)
THEOREM DeferredCorrect == Spec => []DeferredRebootForgotten
  <1>1. Init => Forgotten
    BY DEF Init, Forgotten
  <1>2. Forgotten => DeferredRebootForgotten
    BY DEF Forgotten, DeferredRebootForgotten
  <1> QED BY <1>1, <1>2, TypeCorrect, ForgottenStep, PTL DEF Spec
=============================================================================
