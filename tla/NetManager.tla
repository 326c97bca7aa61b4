------------------------------ MODULE NetManager ------------------------------
(***************************************************************************)
(* The choice of the uplink (net_manager.c).  Ethernet goes before WiFi    *)
(* and WiFi before 4G.  The services tell of addresses through the default *)
(* event loop, whose task runs app_event_handler; the manager's own task   *)
(* looks at the deadlines every 250 ms and dials, which blocks it for up   *)
(* to a minute; a third task opens the configuration portal.  They share   *)
(* the s_* variables without a lock.                                       *)
(*                                                                         *)
(* One action is one event handled, one deadline acted on, or one part of  *)
(* a call that blocks: a dial, a hang-up (2.4 s and more, in the event     *)
(* loop or in the task) and the start of the portal.  A deadline is armed  *)
(* or not, and an armed one may be due at any time.  The MQTT client is    *)
(* the matter of MqttSession and the inside of the modem that of           *)
(* ModemService.                                                           *)
(***************************************************************************)
EXTENDS Naturals, Sequences, SequencesExt

CONSTANT
  Links,    \* the links the unit has, of "ETH", "WIFI" and "PPP"
  Troubles, \* what else happens: "session" of the modem, "portal" and a flash that fails, "server" out of reach
  QueueLen  \* how many events a service finds unhandled and still posts

ASSUME LinksAssumption == Links \subseteq {"ETH", "WIFI", "PPP"}
ASSUME TroublesAssumption == Troubles \subseteq {"session", "portal", "server"}
ASSUME QueueLenAssumption == QueueLen \in Nat \ {0}

Modes == {"IDLE", "PROVISION", "ETH_CONNECTING", "ETH_ONLINE",
          "WIFI_CONNECTING", "WIFI_ONLINE", "PPP_CONNECTING", "PPP_ONLINE"}
Uplinks == {"NONE", "ETH", "WIFI", "PPP", "AP_ONLY"}
Timers == {"wifi_retry", "ppp_retry", "wifi_probe", "wifi_lost"}

Up(l) == <<"up", l>>
Down(l) == <<"down", l>>
Saved == <<"saved", "WIFI">>
ProvisionStart == <<"provision", "AP_ONLY">>
Events == ({"up", "down"} \X {"ETH", "WIFI", "PPP"}) \cup {Saved, ProvisionStart}

VARIABLES
  mode,              \* s_mode
  active,            \* s_active_uplink
  net_ready,         \* s_net_ready
  has_ip,            \* the links with s_eth_has_ip, s_wifi_has_ip, s_ppp_has_ip
  wifi_config_ready, \* s_wifi_config_ready
  armed,             \* the deadlines that are not 0: s_wifi_retry_due_tick, s_ppp_retry_due_tick, s_wifi_retry_from_4g_tick, s_wifi_lost_tick
  eth,               \* ethernet_service has an address
  sta,               \* wifi_service: "stopped", "idle", "trying", "up"
  reconnect,         \* s_reconnect_enabled of wifi_service
  started,           \* s_wifi_started of wifi_service
  modem,             \* "off": start dials; "cmd": RUNNING without data; "wait": WAIT_IP; "up": has an address;
                     \* "cut": a hang-up took the address back; "left": it failed, start dials and data is open
  refused,           \* of the data connection: a hang-up has failed to close it
  dialing,           \* the manager's task is in modem_service_start ("start"), the power cycle ("cycle") or a hang-up ("hangup")
  cs,                \* CS session of the modem: "none", "plain", "suspended" (it cut PPP)
  restart_pending,   \* s_ppp_restart_pending_after_cs
  provision_task,    \* enter_provision_task: "no", "asked", "stopping"
  portal,            \* provision_service_is_running
  provisioning,      \* s_provision_active of app_recovery
  loop,              \* the event loop: "free", or hanging up for the address of this link
  queue              \* events posted and not yet handled

manager == <<mode, active, net_ready, has_ip, wifi_config_ready>>
wifi == <<sta, reconnect, started>>
line == <<modem, refused>>
cellular == <<line, dialing, cs, restart_pending>>
provision == <<provision_task, portal, provisioning>>
vars == <<manager, armed, eth, wifi, cellular, provision, loop, queue>>

(* Whether load_runtime_cfg finds a WiFi configured; the flash may fail.   *)
Loaded == IF "portal" \in Troubles THEN BOOLEAN ELSE {TRUE}

reset_runtime_state ==
  /\ active = "NONE" /\ net_ready = FALSE /\ has_ip = {}

(* Ethernet is started and WiFi connects, unless it cannot be started, or  *)
(* the portal is asked for when no WiFi is configured.                     *)
net_manager_start(configured, connects) ==
  /\ wifi_config_ready = configured
  /\ mode = IF configured THEN "WIFI_CONNECTING" ELSE "ETH_CONNECTING"
  /\ sta = IF configured /\ connects THEN "trying" ELSE "stopped"
  /\ reconnect = (configured /\ connects) /\ started = (configured /\ connects)
  /\ armed = IF configured /\ ~connects THEN {"wifi_retry"} ELSE {}
  /\ provision_task = IF configured THEN "no" ELSE "asked"

Init ==
  /\ reset_runtime_state
  /\ \E configured \in Loaded, connects \in BOOLEAN : net_manager_start(configured, connects)
  /\ eth = FALSE /\ modem = "off" /\ refused = FALSE /\ dialing = "no" /\ cs = "none"
  /\ restart_pending = FALSE /\ portal = FALSE /\ provisioning = FALSE
  /\ loop = "free" /\ queue = <<>>

(* Mutated: posts without looking at the queue.                            *)
Room_Always == TRUE

Room == Len(queue) < QueueLen
Better == has_ip \cap {"ETH", "WIFI"} # {}
PppIp == "PPP" \in has_ip \/ modem = "up"

(* A link that a step takes down posts its event behind those in q; of a   *)
(* connection that was left open it is not known whether it had an address.*)
LossOfPpp == IF modem \in {"off", "cmd"} \/ modem' \notin {"off", "cmd"} THEN {<<>>}
             ELSE IF modem \in {"up", "cut"} THEN {<<Down("PPP")>>}
             ELSE IF refused THEN {<<>>, <<Down("PPP")>>}
             ELSE {<<>>}
After(q) ==
  /\ \E loss \in LossOfPpp :
       queue' = q \o (IF sta = "up" /\ sta' # "up" THEN <<Down("WIFI")>> ELSE <<>>) \o loss
  /\ refused' = (modem' = "left" \/ (refused /\ modem' \notin {"off", "cmd"}))

(* modem_service_stop_ppp takes the address back, and its end is RUNNING   *)
(* or RECOVERING, by the answer of the modem and by whether PPP_LOST_IP is *)
(* handled before or after it.  When the modem refuses, the data           *)
(* connection stays open, and nobody looks at what the call returned.      *)
StopBegin == modem' = IF modem = "up" THEN "cut" ELSE modem

(* Mutated: a hang-up that fails is one that was not asked for.            *)
StopPpp_KeepsAddress ==
  \/ modem' \in {"cmd", "off"}
  \/ modem' = IF modem = "cut" THEN "up" ELSE modem

StopPpp == \/ modem' \in {"cmd", "off"}
           \/ modem \notin {"cmd", "off"} /\ modem' = "left"

(* The station is the same radio as the access point of the portal.  A     *)
(* start that fails may be of no effect or stop at the last call.          *)
wifi_service_start_sta == sta' = "trying" /\ started' = TRUE /\ portal' = FALSE
StartFails == \/ UNCHANGED <<wifi, portal>>
              \/ reconnect' = TRUE /\ UNCHANGED <<sta, started, portal>>
              \/ /\ reconnect' = TRUE /\ portal' = FALSE
                 /\ sta' = "idle" /\ started' \in {started, TRUE}

(* A radio that only the portal has started is not stopped.                *)
wifi_service_stop_sta == IF started THEN sta' = "stopped" /\ started' = FALSE
                                    ELSE UNCHANGED <<sta, started>>

(* The portal's access point starts the station too, and wifi_service      *)
(* connects it on its start event, without s_wifi_started.                 *)
provision_service_stop == portal' = FALSE /\ sta' = "stopped"
provision_service_restart(ok) ==
  /\ portal' = ok
  /\ sta' \in {"trying", "idle"} \cup (IF ok THEN {} ELSE {"stopped"})
  /\ UNCHANGED started

-----------------------------------------------------------------------------
(* The services *)

(* Their handlers run in the same event loop.                              *)
Told(e) == loop = "free" /\ Room /\ queue' = Append(queue, e)

EthGotIp == /\ "ETH" \in Links /\ ~eth /\ Told(Up("ETH"))
            /\ eth' = TRUE
            /\ UNCHANGED <<manager, armed, wifi, cellular, provision, loop>>

EthLost == /\ eth /\ Told(Down("ETH"))
           /\ eth' = FALSE
           /\ UNCHANGED <<manager, armed, wifi, cellular, provision, loop>>

WifiGotIp == /\ "WIFI" \in Links /\ sta = "trying" /\ Told(Up("WIFI"))
             /\ sta' = "up"
             /\ UNCHANGED <<manager, armed, eth, reconnect, started, cellular, provision, loop>>

(* Also the end of an attempt.  Within a second of the last one there is   *)
(* no new attempt.                                                         *)
WifiLost == /\ sta \in {"trying", "up"} /\ Told(Down("WIFI"))
            /\ sta' \in (IF reconnect /\ started THEN {"trying", "idle"} ELSE {"idle"})
            /\ UNCHANGED <<manager, armed, eth, reconnect, started, cellular, provision, loop>>

PppGotIp == /\ "PPP" \in Links /\ modem \in {"wait", "left"} /\ Told(Up("PPP"))
            /\ modem' = "up"
            /\ UNCHANGED <<manager, armed, eth, wifi, refused, dialing, cs, restart_pending,
                           provision, loop>>

PppLost == /\ modem \in {"wait", "up", "cut", "left"} /\ Told(Down("PPP"))
           /\ modem' = "off" /\ refused' = FALSE
           /\ UNCHANGED <<manager, armed, eth, wifi, dialing, cs, restart_pending, provision, loop>>

(* modem_task begins and ends a CS session for a text, a call or a poll.   *)
CsBegin == /\ "session" \in Troubles /\ cs = "none" /\ Room
           /\ IF modem \in {"wait", "up"} THEN cs' = "suspended" /\ StopPpp
                                          ELSE cs' = "plain" /\ UNCHANGED modem
           /\ UNCHANGED sta /\ After(queue)
           /\ UNCHANGED <<manager, armed, eth, reconnect, started, dialing, restart_pending,
                          provision, loop>>

CsEnd == /\ cs # "none"
         /\ cs' = "none"
         /\ restart_pending' = (restart_pending \/ cs = "suspended")
         /\ UNCHANGED <<manager, armed, eth, wifi, line, dialing, provision, loop, queue>>

-----------------------------------------------------------------------------
(* The configuration portal *)

Button == /\ "portal" \in Troubles /\ Room
          /\ queue' = Append(queue, ProvisionStart)
          /\ UNCHANGED <<manager, armed, eth, wifi, cellular, provision, loop>>

save_post_handler == /\ "portal" \in Troubles /\ portal
                     /\ Room /\ queue' = Append(queue, Saved)
                     /\ UNCHANGED <<manager, armed, eth, wifi, cellular, provision, loop>>

request_enter_provision_mode ==
  provision_task' = IF provision_task = "no" THEN "asked" ELSE provision_task

(* enter_provision_mode_now up to its delays; the portal's stop leaves no  *)
(* radio on, whoever started it.                                           *)
ProvisionBegin ==
  /\ provision_task = "asked"
  /\ provision_task' = "stopping"
  /\ active' = "AP_ONLY" /\ mode' = "PROVISION" /\ net_ready' = FALSE
  /\ armed' = armed \ {"wifi_retry"}
  /\ reconnect' = FALSE /\ started' = FALSE /\ provision_service_stop
  /\ UNCHANGED modem /\ After(queue)
  /\ UNCHANGED <<has_ip, wifi_config_ready, eth, dialing, cs, restart_pending, provisioning, loop>>

(* The rest, with the outcome of provision_service_restart.                *)
ProvisionEnd ==
  /\ provision_task = "stopping"
  /\ provision_task' = "no"
  /\ \/ provision_service_restart(TRUE) /\ active' = "AP_ONLY" /\ mode' = "PROVISION"
     \/ provision_service_restart(FALSE) /\ active' = "NONE" /\ mode' = "IDLE"
  /\ UNCHANGED modem /\ After(queue)
  /\ UNCHANGED <<net_ready, has_ip, wifi_config_ready, armed, eth, reconnect,
                 dialing, cs, restart_pending, provisioning, loop>>

-----------------------------------------------------------------------------
(* Starting a link; timers are the deadlines armed at the call             *)

start_wifi_connect(timers) ==
  \/ /\ "ETH" \in has_ip \/ active = "ETH"
     /\ armed' = timers
     /\ UNCHANGED <<mode, wifi, portal>>
  \/ /\ "ETH" \notin has_ip /\ active # "ETH"
     /\ mode' = "WIFI_CONNECTING"
     /\ \/ /\ reconnect' = TRUE /\ wifi_service_start_sta
           /\ armed' = timers \ {"wifi_retry"}
        \/ StartFails /\ armed' = timers \cup {"wifi_retry"}

(* Called with s_active_uplink = uplink, s_mode = m and s_net_ready =      *)
(* ready.  A modem that is not "off" makes modem_service_start return OK   *)
(* at once; otherwise the task is inside it until DialEnd.  A connection   *)
(* that was left open is dialled over.                                     *)
start_ppp_connect(uplink, m, ready, timers) ==
  IF cs # "none" \/ Better \/ uplink \in {"ETH", "WIFI"} \/ PppIp \/ m = "PPP_CONNECTING"
  THEN /\ active' = uplink /\ mode' = m /\ net_ready' = ready
       /\ armed' = timers /\ UNCHANGED dialing
  ELSE /\ mode' = "PPP_CONNECTING"
       /\ IF uplink = "PPP" \/ m = "PPP_ONLINE"
          THEN active' = "NONE" /\ net_ready' = FALSE
          ELSE active' = uplink /\ net_ready' = ready
       /\ IF modem \in {"off", "left"}
          THEN dialing' = "start" /\ armed' = timers
          ELSE armed' = timers \ {"ppp_retry"} /\ UNCHANGED dialing

Connected == /\ modem' = IF modem \in {"up", "cut"} THEN modem ELSE "wait"
             /\ armed' = armed \ {"ppp_retry"}
             /\ UNCHANGED <<mode, active, net_ready, has_ip>>

(* The modem may have been power cycled by then.                           *)
NotConnected ==
  /\ has_ip' = has_ip \ {"PPP"} /\ net_ready' = FALSE
  /\ active' = "NONE" /\ mode' = "IDLE"
  /\ armed' = armed \cup {"ppp_retry"} \cup
              (IF wifi_config_ready /\ ~Better THEN {"wifi_retry"} ELSE {})
  /\ modem' \in {modem, "off"}

(* modem_service_start returns; after the power cycle nobody looks at what *)
(* it returned.                                                            *)
DialEnd ==
  /\ \/ dialing = "start" /\ (Connected \/ NotConnected)
     \/ /\ dialing = "cycle"
        /\ modem' \in {"wait", modem}
        /\ UNCHANGED <<mode, active, net_ready, has_ip, armed>>
  /\ dialing' = "no" /\ UNCHANGED sta /\ After(queue)
  /\ UNCHANGED <<wifi_config_ready, eth, reconnect, started, cs, restart_pending, provision, loop>>

-----------------------------------------------------------------------------
(* app_event_handler *)

Handles(e) == loop = "free" /\ queue # <<>> /\ Head(queue) = e

(* While the handler hangs up, the tasks go on: the mode and the deadline  *)
(* of 4G are set behind it.                                                *)
OnEthUp ==
  /\ Handles(Up("ETH"))
  /\ net_ready' = TRUE /\ active' = "ETH"
  /\ reconnect' = FALSE /\ wifi_service_stop_sta
  /\ IF mode \in {"PPP_ONLINE", "PPP_CONNECTING"} \/ "PPP" \in has_ip
     THEN /\ has_ip' = (has_ip \cup {"ETH"}) \ {"WIFI"}
          /\ armed' = armed \ {"wifi_lost", "wifi_retry", "wifi_probe"}
          /\ StopBegin /\ loop' = "ETH" /\ UNCHANGED mode
     ELSE /\ has_ip' = {"ETH"} /\ armed' = {} /\ mode' = "ETH_ONLINE"
          /\ UNCHANGED <<modem, loop>>
  /\ After(Tail(queue))
  /\ UNCHANGED <<wifi_config_ready, eth, dialing, cs, restart_pending, provision>>

EthUpEnd ==
  /\ loop = "ETH" /\ loop' = "free" /\ StopPpp
  /\ has_ip' = has_ip \ {"PPP"} /\ armed' = armed \ {"ppp_retry"} /\ mode' = "ETH_ONLINE"
  /\ UNCHANGED sta /\ After(queue)
  /\ UNCHANGED <<active, net_ready, wifi_config_ready, eth, reconnect, started, dialing, cs,
                 restart_pending, provision>>

WifiOnline == /\ has_ip' = (has_ip \cup (IF loop = "free" THEN {"WIFI"} ELSE {})) \ {"PPP"}
              /\ net_ready' = TRUE /\ active' = "WIFI" /\ mode' = "WIFI_ONLINE"
              /\ armed' = {}

(* With Ethernet online the address is only noted.  4G stays the uplink    *)
(* until it is hung up.                                                    *)
OnWifiUp ==
  /\ Handles(Up("WIFI"))
  /\ IF "ETH" \in has_ip
     THEN /\ has_ip' = has_ip \cup {"WIFI"}
          /\ armed' = armed \ {"wifi_retry", "wifi_lost", "wifi_probe"}
          /\ UNCHANGED <<mode, active, net_ready, modem, loop>>
     ELSE IF mode \in {"PPP_ONLINE", "PPP_CONNECTING"} \/ active = "PPP" \/ PppIp
     THEN /\ has_ip' = has_ip \cup {"WIFI"}
          /\ StopBegin /\ loop' = "WIFI"
          /\ UNCHANGED <<mode, active, net_ready, armed>>
     ELSE WifiOnline /\ UNCHANGED <<modem, loop>>
  /\ UNCHANGED sta /\ After(Tail(queue))
  /\ UNCHANGED <<wifi_config_ready, eth, reconnect, started, dialing, cs, restart_pending,
                 provision>>

WifiUpEnd ==
  /\ loop = "WIFI" /\ loop' = "free" /\ StopPpp /\ WifiOnline
  /\ UNCHANGED sta /\ After(queue)
  /\ UNCHANGED <<wifi_config_ready, eth, reconnect, started, dialing, cs, restart_pending,
                 provision>>

PppOnline == /\ has_ip' = has_ip \cup {"PPP"}
             /\ net_ready' = TRUE /\ active' = "PPP" /\ mode' = "PPP_ONLINE"
             /\ armed' = (armed \ {"ppp_retry"}) \cup
                         (IF wifi_config_ready THEN {"wifi_probe"} ELSE {})
             /\ UNCHANGED <<modem, loop>>

(* Mutated: WiFi is not looked at.                                         *)
OnPppUp_EthOnly ==
  /\ Handles(Up("PPP"))
  /\ IF "ETH" \in has_ip \/ active = "ETH"
     THEN /\ has_ip' = has_ip \cup {"PPP"} /\ armed' = armed \ {"ppp_retry"}
          /\ StopBegin /\ loop' = "PPP"
          /\ UNCHANGED <<mode, active, net_ready>>
     ELSE PppOnline
  /\ UNCHANGED sta /\ After(Tail(queue))
  /\ UNCHANGED <<wifi_config_ready, eth, reconnect, started, dialing, cs, restart_pending,
                 provision>>

OnPppUp ==
  /\ Handles(Up("PPP"))
  /\ IF Better \/ active = "ETH"
     THEN /\ has_ip' = has_ip \cup {"PPP"} /\ armed' = armed \ {"ppp_retry"}
          /\ StopBegin /\ loop' = "PPP"
          /\ UNCHANGED <<mode, active, net_ready>>
     ELSE PppOnline
  /\ UNCHANGED sta /\ After(Tail(queue))
  /\ UNCHANGED <<wifi_config_ready, eth, reconnect, started, dialing, cs, restart_pending,
                 provision>>

(* Ethernet was online before the hang-up if it is now: no other handler   *)
(* has run since.                                                          *)
PppUpEnd ==
  /\ loop = "PPP" /\ loop' = "free" /\ StopPpp
  /\ has_ip' = has_ip \ {"PPP"} /\ armed' = armed \ {"ppp_retry"}
  /\ net_ready' = TRUE /\ active' = IF "ETH" \in has_ip THEN "ETH" ELSE "WIFI"
  /\ UNCHANGED sta /\ After(queue)
  /\ UNCHANGED <<mode, wifi_config_ready, eth, reconnect, started, dialing, cs, restart_pending,
                 provision>>

OnEthDown ==
  /\ Handles(Down("ETH"))
  /\ has_ip' = has_ip \ {"ETH"}
  /\ IF active # "ETH"
     THEN UNCHANGED <<net_ready, active, mode, armed, provision_task>>
     ELSE /\ net_ready' = FALSE /\ active' = "NONE" /\ mode' = "IDLE"
          /\ IF wifi_config_ready
             THEN /\ armed' = (armed \ {"ppp_retry"}) \cup {"wifi_lost", "wifi_retry"}
                  /\ UNCHANGED provision_task
             ELSE request_enter_provision_mode /\ UNCHANGED armed
  /\ UNCHANGED <<sta, modem>> /\ After(Tail(queue))
  /\ UNCHANGED <<wifi_config_ready, eth, reconnect, started, dialing, cs, restart_pending,
                 portal, provisioning, loop>>

OnWifiDown ==
  /\ Handles(Down("WIFI"))
  /\ has_ip' = has_ip \ {"WIFI"}
  /\ IF "ETH" \in has_ip \/ active = "ETH"
     THEN /\ armed' = armed \ {"wifi_lost", "wifi_retry"}
          /\ UNCHANGED <<mode, active, net_ready, wifi>>
     ELSE IF active = "PPP" \/ mode \in {"PPP_ONLINE", "PPP_CONNECTING"}
     THEN /\ reconnect' = FALSE /\ wifi_service_stop_sta
          /\ armed' = (armed \ {"wifi_lost", "wifi_retry", "ppp_retry"}) \cup
                      (IF wifi_config_ready THEN {"wifi_probe"} ELSE {})
          /\ UNCHANGED <<mode, active, net_ready>>
     ELSE IF active = "WIFI" \/ (active = "NONE" /\ "PPP" \notin has_ip)
     THEN /\ mode' = "WIFI_CONNECTING" /\ active' = "NONE"
          /\ net_ready' = (active = "NONE" /\ net_ready)
          /\ armed' = (IF active = "WIFI" THEN armed \ {"wifi_probe"} ELSE armed)
                      \cup {"wifi_lost", "wifi_retry", "ppp_retry"}
          /\ UNCHANGED wifi
     ELSE UNCHANGED <<mode, active, net_ready, armed, wifi>>
  /\ UNCHANGED modem /\ After(Tail(queue))
  /\ UNCHANGED <<wifi_config_ready, eth, dialing, cs, restart_pending, provision, loop>>

OnPppDown ==
  /\ Handles(Down("PPP"))
  /\ has_ip' = has_ip \ {"PPP"}
  /\ IF active = "PPP"
     THEN net_ready' = FALSE /\ active' = "NONE" /\ mode' = "IDLE"
     ELSE UNCHANGED <<net_ready, active, mode>>
  /\ armed' = IF cs # "none" THEN armed
              ELSE IF Better THEN armed \ {"ppp_retry"}
              ELSE armed \cup {"ppp_retry"} \cup
                   (IF wifi_config_ready THEN {"wifi_probe"} ELSE {})
  /\ UNCHANGED <<sta, modem>> /\ After(Tail(queue))
  /\ UNCHANGED <<wifi_config_ready, eth, reconnect, started, dialing, cs, restart_pending,
                 provision, loop>>

OnConfigSaved ==
  /\ Handles(Saved)
  /\ wifi_config_ready' \in BOOLEAN /\ provisioning' = FALSE
  /\ has_ip' = has_ip \ {"WIFI"}
  /\ LET timers == armed \ {"wifi_retry", "wifi_probe", "wifi_lost"}
     IN  IF "ETH" \in has_ip
         THEN armed' = timers /\ UNCHANGED <<mode, wifi, portal>>
         ELSE start_wifi_connect(timers)
  /\ UNCHANGED modem /\ After(Tail(queue))
  /\ UNCHANGED <<active, net_ready, eth, dialing, cs, restart_pending, provision_task, loop>>

OnProvisionStart ==
  /\ Handles(ProvisionStart)
  /\ request_enter_provision_mode /\ provisioning' = TRUE
  /\ UNCHANGED <<sta, modem>> /\ After(Tail(queue))
  /\ UNCHANGED <<manager, armed, eth, reconnect, started, dialing, cs, restart_pending,
                 portal, loop>>

-----------------------------------------------------------------------------
(* net_manager_task.  A pass looks at the deadlines in turn; an event may  *)
(* be handled between any two of them, so each is a step of its own.       *)

NetTask == dialing = "no"
TimersRun == /\ NetTask
             /\ mode # "PROVISION" /\ active # "AP_ONLY" /\ ~portal

WifiRetry ==
  /\ TimersRun /\ "wifi_retry" \in armed
  /\ IF Better \/ active \in {"ETH", "WIFI"}
     THEN /\ armed' = armed \ {"wifi_retry"}
          /\ UNCHANGED <<mode, wifi, portal>>
     ELSE start_wifi_connect(armed \ {"wifi_retry"})
  /\ UNCHANGED modem /\ After(queue)
  /\ UNCHANGED <<active, net_ready, has_ip, wifi_config_ready, eth, dialing, cs,
                 restart_pending, provision_task, provisioning, loop>>

(* The mode is left alone.                                                 *)
start_wifi_probe_from_4g == (reconnect' = TRUE /\ wifi_service_start_sta) \/ StartFails

PppAlive == active = "PPP" \/ mode = "PPP_ONLINE" \/ PppIp

(* Mutated: looks at WiFi only when 4G is gone.                            *)
WifiProbe_NotAlive ==
  /\ TimersRun /\ "wifi_probe" \in armed
  /\ armed' = armed \ {"wifi_probe"}
  /\ IF ~Better /\ wifi_config_ready /\ ~PppAlive /\ sta # "up"
     THEN start_wifi_probe_from_4g
     ELSE UNCHANGED <<wifi, portal>>
  /\ UNCHANGED modem /\ After(queue)
  /\ UNCHANGED <<manager, eth, dialing, cs, restart_pending, provision_task, provisioning, loop>>

(* While 4G serves, WiFi is tried now and then.                            *)
WifiProbe ==
  /\ TimersRun /\ "wifi_probe" \in armed
  /\ IF ~Better /\ wifi_config_ready /\ PppAlive
     THEN /\ armed' = IF active = "PPP" THEN armed ELSE armed \ {"wifi_probe"}
          /\ IF sta = "up"
             THEN UNCHANGED <<wifi, portal>>
             ELSE start_wifi_probe_from_4g
     ELSE armed' = armed \ {"wifi_probe"} /\ UNCHANGED <<wifi, portal>>
  /\ UNCHANGED modem /\ After(queue)
  /\ UNCHANGED <<manager, eth, dialing, cs, restart_pending, provision_task, provisioning, loop>>

(* A CS session that cut PPP has ended.  Whether MQTT is connected over    *)
(* the address that PPP has is not known here.                             *)
CsDone ==
  /\ TimersRun /\ cs = "none" /\ restart_pending
  /\ restart_pending' = FALSE
  /\ \/ /\ Better \/ PppIp
        /\ UNCHANGED <<manager, modem, dialing>>
     \/ /\ ~Better
        /\ has_ip' = has_ip \ {"PPP"} /\ net_ready' = FALSE
        /\ active' = "NONE" /\ mode' = "IDLE"
        /\ StopBegin /\ dialing' = "hangup"
        /\ UNCHANGED wifi_config_ready
  /\ UNCHANGED sta /\ After(queue)
  /\ UNCHANGED <<armed, eth, reconnect, started, cs, provision, loop>>

CsHangupEnd ==
  /\ dialing = "hangup" /\ dialing' = "no" /\ StopPpp
  /\ armed' = armed \cup {"ppp_retry"}
  /\ UNCHANGED sta /\ After(queue)
  /\ UNCHANGED <<manager, eth, reconnect, started, cs, restart_pending, provision, loop>>

PppRetry ==
  /\ TimersRun /\ "ppp_retry" \in armed
  /\ LET timers == armed \ {"ppp_retry"}
     IN  IF Better \/ PppIp \/ mode = "PPP_CONNECTING"
         THEN armed' = timers /\ UNCHANGED <<mode, active, net_ready, dialing>>
         ELSE start_ppp_connect("NONE", "IDLE", FALSE, timers)
  /\ UNCHANGED <<has_ip, wifi_config_ready, eth, wifi, line, cs, restart_pending,
                 provision, loop, queue>>

Served == net_ready /\ active \in {"ETH", "WIFI", "PPP"}

(* The server was out of reach for five minutes.                           *)
RecoverUplink ==
  /\ TimersRun /\ "server" \in Troubles /\ Served
  /\ \/ /\ active = "WIFI"
        /\ wifi_service_stop_sta
        /\ has_ip' = has_ip \ {"WIFI"} /\ net_ready' = FALSE /\ active' = "NONE"
        /\ armed' = armed \cup {"wifi_retry"}
     \/ /\ active = "PPP"
        /\ armed' = armed \cup {"ppp_retry"} \cup
                    (IF wifi_config_ready THEN {"wifi_probe"} ELSE {})
        /\ UNCHANGED <<active, net_ready, has_ip, sta, started>>
  /\ UNCHANGED modem /\ After(queue)
  /\ UNCHANGED <<mode, wifi_config_ready, eth, reconnect, dialing, cs, restart_pending,
                 provision, loop>>

(* The server was out of reach over 4G for ten minutes.                    *)
PowerCycle ==
  /\ TimersRun /\ "server" \in Troubles /\ Served /\ active = "PPP"
  /\ modem' = "off" /\ dialing' = "cycle"
  /\ UNCHANGED sta /\ After(queue)
  /\ UNCHANGED <<manager, armed, eth, reconnect, started, cs, restart_pending, provision, loop>>

(* WiFi has been lost for APP_WIFI_LOST_TO_4G_MS.                          *)
LostTooLong ==
  /\ NetTask /\ "wifi_lost" \in armed
  /\ has_ip = {} /\ active # "ETH"
  /\ start_ppp_connect(active, mode, net_ready,
                       (armed \ {"wifi_lost"}) \cup {"wifi_probe"})
  /\ UNCHANGED <<has_ip, wifi_config_ready, eth, wifi, line, cs, restart_pending,
                 provision, loop, queue>>

(* On 4G the deadline of the probe is armed again wherever it was lost.    *)
ArmProbe ==
  /\ NetTask /\ mode = "PPP_ONLINE" /\ "wifi_probe" \notin armed
  /\ armed' = armed \cup {"wifi_probe"}
  /\ UNCHANGED <<manager, eth, wifi, cellular, provision, loop, queue>>

(* The chip starts from nothing.                                           *)
Restarted ==
  /\ \E configured \in Loaded, connects \in BOOLEAN :
       /\ wifi_config_ready' = configured
       /\ mode' = IF configured THEN "WIFI_CONNECTING" ELSE "ETH_CONNECTING"
       /\ sta' = IF configured /\ connects THEN "trying" ELSE "stopped"
       /\ reconnect' = (configured /\ connects) /\ started' = (configured /\ connects)
       /\ armed' = IF configured /\ ~connects THEN {"wifi_retry"} ELSE {}
       /\ provision_task' = IF configured THEN "no" ELSE "asked"
  /\ active' = "NONE" /\ net_ready' = FALSE /\ has_ip' = {}
  /\ eth' = FALSE /\ modem' = "off" /\ refused' = FALSE /\ dialing' = "no"
  /\ restart_pending' = FALSE /\ loop' = "free" /\ queue' = <<>>

(* Mutated: counts only while there is a network.                          *)
Reboot_WithNetwork ==
  /\ ~portal /\ ~provisioning /\ cs = "none" /\ net_ready
  /\ Restarted /\ UNCHANGED <<cs, portal, provisioning>>

(* app_recovery restarts the chip when the server is out of reach for ten  *)
(* minutes, but not while the portal is open or a CS session runs.  That   *)
(* is longer than an event takes or WiFi is tried, so a unit without a     *)
(* network is restarted between its attempts.                              *)
Reboot ==
  /\ ~portal /\ ~provisioning /\ cs = "none"
  /\ net_ready \/ (queue = <<>> /\ loop = "free" /\ sta # "trying")
  /\ Restarted /\ UNCHANGED <<cs, portal, provisioning>>

-----------------------------------------------------------------------------
Services == \/ EthGotIp \/ EthLost \/ WifiGotIp \/ WifiLost \/ PppGotIp \/ PppLost
            \/ CsBegin \/ CsEnd
Portal == Button \/ save_post_handler \/ ProvisionBegin \/ ProvisionEnd
app_event_handler == \/ OnEthUp \/ OnWifiUp \/ OnPppUp
                     \/ EthUpEnd \/ WifiUpEnd \/ PppUpEnd
                     \/ OnEthDown \/ OnWifiDown \/ OnPppDown
                     \/ OnConfigSaved \/ OnProvisionStart
net_manager_task == \/ WifiRetry \/ WifiProbe \/ CsDone \/ CsHangupEnd \/ PppRetry
                    \/ RecoverUplink \/ PowerCycle \/ LostTooLong \/ ArmProbe \/ DialEnd

Next == Services \/ Portal \/ app_event_handler \/ net_manager_task \/ Reboot

Spec == Init /\ [][Next]_vars

(* The tasks run, and what blocks them ends; a WiFi that is tried again    *)
(* and again gives an address in the end, and the calls that start it      *)
(* succeed now and then; the watchdog restarts a unit that stays without a *)
(* network.  That the other deadlines are found due is not needed.         *)
Fairness ==
  /\ WF_vars(app_event_handler) /\ WF_vars(ProvisionBegin) /\ WF_vars(ProvisionEnd)
  /\ WF_vars(DialEnd \/ CsHangupEnd) /\ WF_vars(CsEnd)
  /\ SF_vars(WifiProbe /\ sta' = "trying")
  /\ SF_vars(WifiGotIp)
  /\ SF_vars(Reboot /\ ~net_ready /\ sta' = "trying")

FairSpec == Spec /\ Fairness

-----------------------------------------------------------------------------
(* Types, and the queue stays bounded: what handlers and tasks post by     *)
(* taking links down adds at most five events to what the services were    *)
(* allowed to post (esp_event_post with portMAX_DELAY): a loss of WiFi, a  *)
(* loss of 4G, and one more for each hang-up that fails, of the event      *)
(* loop, of the task and of a CS session.                                  *)
TypeOK ==
  /\ mode \in Modes /\ active \in Uplinks /\ net_ready \in BOOLEAN
  /\ has_ip \subseteq {"ETH", "WIFI", "PPP"} /\ wifi_config_ready \in BOOLEAN
  /\ armed \subseteq Timers
  /\ eth \in BOOLEAN /\ sta \in {"stopped", "idle", "trying", "up"} 
  /\ reconnect \in BOOLEAN /\ started \in BOOLEAN
  /\ modem \in {"off", "cmd", "wait", "up", "cut", "left"} /\ refused \in BOOLEAN
  /\ dialing \in {"no", "start", "cycle", "hangup"} /\ loop \in {"free", "ETH", "WIFI", "PPP"}
  /\ cs \in {"none", "plain", "suspended"} /\ restart_pending \in BOOLEAN
  /\ provision_task \in {"no", "asked", "stopping"}
  /\ portal \in BOOLEAN /\ provisioning \in BOOLEAN
  /\ queue \in Seq(Events) /\ Len(queue) <= QueueLen + 5

(* 4G is the uplink only while neither Ethernet nor WiFi has an address    *)
(* (net_manager.c:1403 "PPP là ưu tiên thấp nhất"), except while a handler *)
(* hangs it up for one of them; and an uplink over 4G or Ethernet has the  *)
(* address it stands for: the branch of handle_timers for MQTT over a PPP  *)
(* without address is never taken.                                         *)
PppOnlyAlone == /\ active = "PPP" => "PPP" \in has_ip
                /\ active = "PPP" /\ loop = "free" => has_ip = {"PPP"}
                /\ active = "ETH" => "ETH" \in has_ip

(* A data connection that is open beside a better uplink has its address   *)
(* still to be handled, and that handler hangs it up; or it is one that a  *)
(* hang-up has failed to close, which nothing in the code looks at again   *)
(* (modem_service.c:529, net_manager.c:527).                               *)
PppNotBeside == modem = "up" /\ active \in {"ETH", "WIFI"} /\ ~refused
                => Contains(queue, Up("PPP"))

(* A unit with a WiFi configuration that is not in the portal gets a       *)
(* network again, whatever order losses, dials, sessions and deadlines     *)
(* took; several orders leave the manager with nothing armed, and it is    *)
(* the restart of app_recovery that helps.                                 *)
NetworkFound == wifi_config_ready /\ ~net_ready ~> net_ready \/ provisioning \/ portal

(* A unit on 4G keeps trying its WiFi (net_manager.c:947).                 *)
WifiTriedOn4g == active = "PPP" /\ wifi_config_ready
                 ~> active # "PPP" \/ sta \in {"trying", "up"} \/ portal \/ ~wifi_config_ready

(* start_ppp_connect does not dial when Ethernet or WiFi is online         *)
(* (net_manager.c:436, 444), so a dial should not cost them the uplink;    *)
(* but it ends a minute later and clears what came up meanwhile.           *)
DialKeepsUplink == [][dialing = "start" /\ dialing' = "no" /\ active \in {"ETH", "WIFI"}
                      => active' = active]_vars
=============================================================================
