------------------------------- MODULE Recovery -------------------------------
(***************************************************************************)
(* The watchdogs that restart the unit (app_recovery.c).  Its task makes a *)
(* pass every second: the server watchdog, the watchdog of a WiFi that is  *)
(* configured and gets no address, and a restart that one of them asked    *)
(* for and that waits while the unit is busy.  The event loop changes what *)
(* the passes read, without a lock, and the power cycle of the modem holds *)
(* a pass up for the better part of a minute.                              *)
(*                                                                         *)
(* A tick that counts a time is the part of its limits that has passed.    *)
(* When the server watchdog stops MQTT after three and five minutes there  *)
(* is no connection, and nothing of this module changes.                   *)
(***************************************************************************)
EXTENDS Naturals

CONSTANT Links  \* the links of the unit, of "ETH", "WIFI" and "PPP"

ASSUME LinksAssumption == Links \subseteq {"ETH", "WIFI", "PPP"}

VARIABLES
  connected,         \* mqtt_service_is_connected
  told,              \* an APP_EVENT_MQTT_CONNECTED is not yet handled
  configured,        \* the stored settings name a WiFi
  cs,                \* modem_service_is_cs_session_active
  has_ip,            \* the links with s_eth_has_ip, s_wifi_has_ip, s_ppp_has_ip
  active,            \* s_active_uplink
  wifi_config_ready, \* s_wifi_config_ready
  provision_active,  \* s_provision_active
  busy,              \* s_busy_flags: only the flag of the portal is ever set
  wifi_reason,       \* s_wifi_no_ap_found "no_ap", s_wifi_auth_fail "auth", or neither "none"
  grace,             \* the APP_RECOVERY_BOOT_GRACE_MS after the start
  lost,              \* since s_server_lost_since_tick: "no", "since", "modem" (7 min), "reboot" (10 min)
  stuck,             \* since s_wifi_stuck_since_tick: "no", "since", "reboot" (10 min)
  pending,           \* s_reboot_pending with s_reboot_reason: "none", "SERVER_LOST", "WIFI_STUCK"
  pass,              \* the task: "idle", "cycle", "long_cycle" (in the power cycle), "wifi", "pending", "restart"
  served             \* whether the last pass of the server watchdog found a connection (auxiliary)

unit == <<connected, told, configured, cs>>
portal == <<provision_active, busy>>
network == <<has_ip, active, wifi_config_ready, portal, wifi_reason>>
watchdogs == <<grace, lost, stuck, pending, pass, served>>
vars == <<unit, network, watchdogs>>

(* app_recovery_init and app_recovery_start; load_initial_config_state     *)
(* reads the stored settings.                                              *)
Init ==
  /\ connected = FALSE /\ told = FALSE /\ cs = FALSE
  /\ configured \in BOOLEAN /\ wifi_config_ready = configured
  /\ has_ip = {} /\ active = "NONE" /\ wifi_reason = "none"
  /\ provision_active = FALSE /\ busy = FALSE
  /\ grace = TRUE /\ lost = "no" /\ stuck = "no" /\ pending = "none"
  /\ pass = "idle" /\ served = FALSE

-----------------------------------------------------------------------------
(* What the watchdogs watch *)

MqttConnected == /\ ~connected /\ has_ip # {}
                 /\ connected' = TRUE /\ told' = TRUE
                 /\ UNCHANGED <<configured, cs, network, watchdogs>>

MqttLost == /\ connected /\ connected' = FALSE
            /\ UNCHANGED <<told, configured, cs, network, watchdogs>>

CsBegin == /\ ~cs /\ cs' = TRUE
           /\ UNCHANGED <<connected, told, configured, network, watchdogs>>

CsEnd == /\ cs /\ cs' = FALSE
         /\ UNCHANGED <<connected, told, configured, network, watchdogs>>

(* The cloud's "set config" names another WiFi, or none.                   *)
SetConfig == /\ configured' \in BOOLEAN
             /\ UNCHANGED <<connected, told, cs, network, watchdogs>>

(* A counted time passes its next limit.                                   *)
LostLonger == /\ lost \in {"since", "modem"}
              /\ lost' = IF lost = "since" THEN "modem" ELSE "reboot"
              /\ UNCHANGED <<unit, network, grace, stuck, pending, pass, served>>

StuckLonger == /\ stuck = "since" /\ stuck' = "reboot"
               /\ UNCHANGED <<unit, network, grace, lost, pending, pass, served>>

GraceEnds == /\ grace /\ grace' = FALSE
             /\ UNCHANGED <<unit, network, lost, stuck, pending, pass, served>>

-----------------------------------------------------------------------------
(* app_event_handler and wifi_event_handler *)

NetUp(l) ==
  /\ l \notin has_ip
  /\ has_ip' = has_ip \cup {l} /\ active' = l
  /\ IF l = "WIFI" THEN wifi_reason' = "none" /\ stuck' = "no"
                   ELSE UNCHANGED <<wifi_reason, stuck>>
  /\ UNCHANGED <<unit, wifi_config_ready, portal, grace, lost, pending, pass, served>>

(* Mutated: the uplink stays the active one.                               *)
NetDown_KeepsActive(l) ==
  /\ l \in has_ip
  /\ has_ip' = has_ip \ {l}
  /\ UNCHANGED <<unit, active, wifi_config_ready, portal, wifi_reason, watchdogs>>

NetDown(l) ==
  /\ l \in has_ip
  /\ has_ip' = has_ip \ {l}
  /\ active' = IF active = l THEN "NONE" ELSE active
  /\ UNCHANGED <<unit, wifi_config_ready, portal, wifi_reason, watchdogs>>

(* Mutated: forgets only the time, and not the restart it led to.          *)
clear_server_watchdog_KeepsPending == lost' = "no" /\ UNCHANGED pending

clear_server_watchdog == lost' = "no" /\ pending' = "none"

OnMqttConnected ==
  /\ told /\ told' = FALSE
  /\ clear_server_watchdog
  /\ UNCHANGED <<connected, configured, cs, network, grace, stuck, pass, served>>

OnProvisionStart ==
  /\ provision_active' = TRUE /\ busy' = TRUE
  /\ UNCHANGED <<unit, has_ip, active, wifi_config_ready, wifi_reason, watchdogs>>

(* Mutated: the portal stays on the list of what makes the unit busy.      *)
OnConfigSaved_StaysBusy ==
  /\ configured' \in {configured, TRUE}
  /\ wifi_config_ready' = TRUE /\ provision_active' = FALSE
  /\ wifi_reason' = "none" /\ stuck' = "no"
  /\ UNCHANGED <<connected, told, cs, busy, has_ip, active, grace, lost, pending, pass, served>>

(* APP_EVENT_WIFI_CONFIG_SAVED, from the portal's form or from the cloud's *)
(* "admin set config"; the cloud may have stored that there is no WiFi.    *)
OnConfigSaved ==
  /\ configured' \in {configured, TRUE}
  /\ wifi_config_ready' = TRUE /\ provision_active' = FALSE /\ busy' = FALSE
  /\ wifi_reason' = "none" /\ stuck' = "no"
  /\ UNCHANGED <<connected, told, cs, has_ip, active, grace, lost, pending, pass, served>>

(* WIFI_EVENT_STA_DISCONNECTED and its reason.                             *)
OnStaDisconnected ==
  /\ "WIFI" \in Links
  /\ wifi_reason' \in {"none", "no_ap", "auth"}
  /\ UNCHANGED <<unit, has_ip, active, wifi_config_ready, portal, watchdogs>>

-----------------------------------------------------------------------------
(* app_recovery_task *)

HasNetwork == wifi_config_ready \/ has_ip # {}
recovery_is_busy == provision_active \/ cs \/ busy

request_reboot(reason) == pending' = IF pending = "none" THEN reason ELSE pending

handle_server_watchdog ==
  /\ pass = "idle" /\ ~grace
  /\ served' = connected
  /\ IF connected
     THEN clear_server_watchdog /\ pass' = "wifi"
     ELSE IF provision_active \/ ~HasNetwork
     THEN lost' = "no" /\ pass' = "wifi" /\ UNCHANGED pending
     ELSE IF lost = "no"
     THEN lost' = "since" /\ pass' = "wifi" /\ UNCHANGED pending
     ELSE /\ UNCHANGED lost
          /\ \/ /\ pass' = "wifi"
                /\ IF lost = "reboot" THEN request_reboot("SERVER_LOST") ELSE UNCHANGED pending
             \/ /\ lost \in {"modem", "reboot"} /\ active = "PPP" /\ ~cs
                /\ pass' = IF lost = "reboot" THEN "long_cycle" ELSE "cycle"
                /\ UNCHANGED pending
  /\ UNCHANGED <<unit, network, grace, stuck>>

(* After the power cycle of the modem.  How long the server was lost was   *)
(* computed before it.                                                     *)
CycleEnd ==
  /\ pass \in {"cycle", "long_cycle"} /\ pass' = "wifi"
  /\ IF pass = "long_cycle" THEN request_reboot("SERVER_LOST") ELSE UNCHANGED pending
  /\ UNCHANGED <<unit, network, grace, lost, stuck, served>>

(* A WiFi that should work: neither wrong password nor absent router, and  *)
(* no Ethernet to serve instead.                                           *)
WifiStuck == /\ wifi_config_ready /\ has_ip \cap {"WIFI", "ETH"} = {} /\ active # "ETH"
             /\ ~provision_active /\ wifi_reason = "none"

(* Mutated: counts only while the unit has no link at all.                 *)
handle_wifi_stuck_watchdog_NoLink ==
  /\ pass = "wifi" /\ pass' = "pending"
  /\ IF ~WifiStuck \/ has_ip # {} THEN stuck' = "no" /\ UNCHANGED pending
     ELSE IF stuck = "no" THEN stuck' = "since" /\ UNCHANGED pending
     ELSE UNCHANGED stuck /\ request_reboot("WIFI_STUCK")
  /\ UNCHANGED <<unit, network, grace, lost, served>>

handle_wifi_stuck_watchdog ==
  /\ pass = "wifi" /\ pass' = "pending"
  /\ IF ~WifiStuck THEN stuck' = "no" /\ UNCHANGED pending
     ELSE IF stuck = "no" THEN stuck' = "since" /\ UNCHANGED pending
     ELSE /\ UNCHANGED stuck
          /\ IF stuck = "reboot" THEN request_reboot("WIFI_STUCK") ELSE UNCHANGED pending
  /\ UNCHANGED <<unit, network, grace, lost, served>>

handle_pending_reboot ==
  /\ pass = "pending"
  /\ pass' = IF pending # "none" /\ ~recovery_is_busy THEN "restart" ELSE "idle"
  /\ UNCHANGED <<unit, network, grace, lost, stuck, pending, served>>

esp_restart ==
  /\ connected' = FALSE /\ told' = FALSE /\ cs' = FALSE
  /\ UNCHANGED configured /\ wifi_config_ready' = configured
  /\ has_ip' = {} /\ active' = "NONE" /\ wifi_reason' = "none"
  /\ provision_active' = FALSE /\ busy' = FALSE
  /\ grace' = TRUE /\ lost' = "no" /\ stuck' = "no" /\ pending' = "none"
  /\ pass' = "idle" /\ served' = FALSE

(* Half a second after the pass.                                           *)
Restart == pass = "restart" /\ esp_restart

(* A restart by the command 10 or 12, by a hanging modem or by hand.       *)
OtherRestart == esp_restart

-----------------------------------------------------------------------------
Unit == MqttConnected \/ MqttLost \/ CsBegin \/ CsEnd \/ SetConfig \/ LostLonger \/ StuckLonger \/ GraceEnds
EventLoop == \/ \E l \in Links : NetUp(l) \/ NetDown(l)
             \/ OnMqttConnected \/ OnProvisionStart \/ OnConfigSaved \/ OnStaDisconnected
app_recovery_task == \/ handle_server_watchdog \/ CycleEnd \/ handle_wifi_stuck_watchdog
                     \/ handle_pending_reboot \/ Restart

Next == Unit \/ EventLoop \/ app_recovery_task \/ OtherRestart

Spec == Init /\ [][Next]_vars

(* Time passes, the task runs, events are handled; a unit that is not      *)
(* restarted for ever has the modem free of CS sessions at some of its     *)
(* passes, which come every second.                                        *)
Fairness == /\ WF_vars(LostLonger) /\ WF_vars(StuckLonger) /\ WF_vars(GraceEnds)
            /\ WF_vars(OnMqttConnected) /\ WF_vars(app_recovery_task)
            /\ []<>grace \/ []<><<handle_pending_reboot /\ ~cs>>_vars

FairSpec == Spec /\ Fairness

-----------------------------------------------------------------------------
(* Types, and the active uplink is one that has an address.                *)
TypeOK ==
  /\ connected \in BOOLEAN /\ told \in BOOLEAN /\ configured \in BOOLEAN /\ cs \in BOOLEAN
  /\ has_ip \subseteq Links /\ active \in has_ip \cup {"NONE"}
  /\ wifi_config_ready \in BOOLEAN /\ provision_active \in BOOLEAN /\ busy \in BOOLEAN
  /\ wifi_reason \in {"none", "no_ap", "auth"}
  /\ grace \in BOOLEAN /\ served \in BOOLEAN
  /\ lost \in {"no", "since", "modem", "reboot"} /\ stuck \in {"no", "since", "reboot"}
  /\ pending \in {"none", "SERVER_LOST", "WIFI_STUCK"}
  /\ pass \in {"idle", "cycle", "long_cycle", "wifi", "pending", "restart"}

(* A restart for a lost server that was put off, because the unit was      *)
(* busy, is forgotten when a pass finds the server back                    *)
(* (app_recovery.c:268); what made the unit busy must not restart it later.*)
DeferredRebootForgotten == pass = "restart" /\ pending = "SERVER_LOST" => ~served

(* A server that stays out of reach ends in a restart, however the portal, *)
(* the sessions, power cycles and the other watchdog come between, unless  *)
(* the unit has no network to reach it by.                                 *)
ServerLossEnds == ~connected /\ HasNetwork /\ ~provision_active
                  ~> connected \/ provision_active \/ ~HasNetwork \/ grace

(* A WiFi that stays without an address for no known reason ends in a      *)
(* restart also while MQTT is connected over 4G, although every pass of    *)
(* the server watchdog then takes back what the other one asked for        *)
(* (app_recovery.c:254, 433); only a configuration that is saved, or a     *)
(* broker that connects, again and again keeps it from that.               *)
WifiStuckEnds == <>[][~OnConfigSaved /\ ~OnMqttConnected]_vars
                 => (WifiStuck ~> ~WifiStuck \/ grace)
=============================================================================
