------------------------------ MODULE MqttSession ------------------------------
(***************************************************************************)
(* The MQTT client and who starts and stops it (mqtt_service.c and the     *)
(* MQTT part of net_manager.c).  The manager's task starts the client; it  *)
(* is stopped by that task, by the event loop when the uplink changes or   *)
(* the broker is lost, by the watchdog of app_recovery and by the portal.  *)
(* s_lock guards single accesses to the service's flags and never a whole  *)
(* operation: a stop takes the client out of s_mqtt and only then, for     *)
(* some hundred milliseconds, ends and destroys it.                        *)
(*                                                                         *)
(* A client runs its callback in a task of its own: first it compares      *)
(* itself with s_mqtt, then it sets the flags and posts the event.  A      *)
(* deadline is armed or not, and an armed one may be due at any time.      *)
(***************************************************************************)
EXTENDS Naturals, FiniteSets, Sequences

CONSTANTS
  Clients,  \* the clients that can exist at a time
  None,     \* no client
  Links,    \* the uplinks, of "ETH", "WIFI" and "PPP"
  Others,   \* how many other tasks, app_recovery's or the portal's, stop it at once: a set of them
  QueueLen  \* how many unhandled events a client finds and still posts

ASSUME ClientsAssumption == IsFiniteSet(Clients) /\ None \notin Clients
ASSUME LinksAssumption == Links \subseteq {"ETH", "WIFI", "PPP"}
ASSUME OthersAssumption == Others \cap {"loop", "net"} = {}
ASSUME QueueLenAssumption == QueueLen \in Nat \ {0}

Tasks == {"loop", "net"} \cup Others

VARIABLES
  active,     \* s_active_uplink; s_net_ready says whether there is one
  cs,         \* a CS session of the modem: PPP has no address
  settle,     \* s_wifi_settle_deadline_tick is armed
  retry,      \* s_mqtt_retry_due_tick is armed
  ready,      \* s_mqtt_ready
  pending,    \* s_mqtt_start_pending, and s_mqtt_start_tick is set
  uplink,     \* s_mqtt_uplink
  recovered,  \* s_last_mqtt_recover_tick is less than three minutes ago
  current,    \* s_mqtt
  started, connecting, connected, \* the flags of mqtt_service
  link,       \* of each client: "none", "made", "trying", "online", "ended"
  event,      \* the event in each client's callback, which found itself current
  holds,      \* the client each task has taken and is destroying
  loop,       \* the event loop: "idle", or what follows its stop: an uplink, "down", "retry"
  net,        \* the manager's task: "idle", "retry" (follows its stop), and in mqtt_service_start
              \* "begin", "start", "launch", "started"
  queue       \* MQTT events posted and not yet handled

manager == <<settle, retry, ready, pending, uplink, recovered>>
flags == <<started, connecting, connected>>
service == <<current, flags>>
vars == <<active, cs, manager, service, link, event, holds, loop, net, queue>>

(* mqtt_service_init and reset_runtime_state.                              *)
Init ==
  /\ active = "NONE" /\ cs = FALSE
  /\ settle = FALSE /\ retry = FALSE /\ ready = FALSE /\ pending = FALSE /\ uplink = "NONE"
  /\ recovered = FALSE
  /\ current = None /\ started = FALSE /\ connecting = FALSE /\ connected = FALSE
  /\ link = [c \in Clients |-> "none"] /\ event = [c \in Clients |-> "none"]
  /\ holds = [t \in Tasks |-> None]
  /\ loop = "idle" /\ net = "idle" /\ queue = <<>>

mqtt_service_is_started == started \/ connecting
Free(t) == holds[t] = None
Held == {holds[t] : t \in Tasks} \ {None}
Made == {c \in Clients : link[c] = "made"}
InCallback == {c \in Clients : event[c] # "none"}
(* Mutated: posts without looking at the queue.                            *)
Room_Always == TRUE

Room == Len(queue) + Cardinality(InCallback) < QueueLen

-----------------------------------------------------------------------------
(* mqtt_service *)

(* Mutated: the client stays in s_mqtt until it is destroyed.              *)
mqtt_service_stop_Late(t) ==
  /\ holds' = [holds EXCEPT ![t] = current]
  /\ UNCHANGED current
  /\ started' = FALSE /\ connecting' = FALSE /\ connected' = FALSE

(* Mutated: a client that is connecting still counts as started.           *)
mqtt_service_stop_KeepsConnecting(t) ==
  /\ holds' = [holds EXCEPT ![t] = current]
  /\ current' = None
  /\ started' = FALSE /\ connected' = FALSE /\ UNCHANGED connecting

(* Up to esp_mqtt_client_stop; StopEnd is the rest.                        *)
mqtt_service_stop(t) ==
  /\ holds' = [holds EXCEPT ![t] = current]
  /\ current' = None
  /\ started' = FALSE /\ connecting' = FALSE /\ connected' = FALSE

StopIfStarted(t) == IF mqtt_service_is_started \/ connected
                    THEN mqtt_service_stop(t)
                    ELSE UNCHANGED <<service, holds>>

(* esp_mqtt_client_stop waits for a callback that runs, and a client that  *)
(* is just being started is started by the time it is destroyed.           *)
StopEnd(t) ==
  /\ holds[t] # None /\ event[holds[t]] = "none" /\ holds[t] \notin Made
  /\ link' = [link EXCEPT ![holds[t]] = "none"]
  /\ holds' = [holds EXCEPT ![t] = None]
  /\ UNCHANGED <<active, cs, manager, service, event, loop, net, queue>>

(* mqtt_service_start looks again: what a late callback has set meanwhile  *)
(* makes it return without a client.                                       *)
StartBegin ==
  /\ net = "begin" /\ Free("net")
  /\ IF mqtt_service_is_started
     THEN net' = "idle" /\ UNCHANGED <<service, holds>>
     ELSE net' = "start" /\ mqtt_service_stop("net")
  /\ UNCHANGED <<active, cs, manager, link, event, loop, queue>>

(* A client that failed to start destroyed itself already; s_mqtt holds    *)
(* the client that is being started, if no one has taken it.               *)
StartClient ==
  /\ net = "start" /\ Free("net")
  /\ \E c \in Clients \ Held :
       /\ link[c] = "none"
       /\ link' = [link EXCEPT ![c] = "made"]
       /\ current' = c /\ connecting' = TRUE /\ connected' = FALSE /\ started' = FALSE
  /\ net' = "launch"
  /\ UNCHANGED <<active, cs, manager, event, holds, loop, queue>>

(* esp_mqtt_client_start succeeds, and the client's task may run before    *)
(* mqtt_service_start does.                                                *)
Launched ==
  /\ net = "launch"
  /\ link' = [c \in Clients |-> IF c \in Made THEN "trying" ELSE link[c]]
  /\ net' = "started"
  /\ UNCHANGED <<active, cs, manager, service, event, holds, loop, queue>>

(* s_started is set if the client is still the current one, whatever its   *)
(* callback has done meanwhile.                                            *)
StartReturns ==
  /\ net = "started"
  /\ started' = (started \/ current # None)
  /\ net' = "idle"
  /\ UNCHANGED <<active, cs, manager, current, connecting, connected, link, event, holds, loop, queue>>

(* esp_mqtt_client_init or esp_mqtt_client_start fails, and maybe_start_   *)
(* mqtt undoes its own part.  Of a client that another task has taken by   *)
(* then, the second destroy is not followed.                               *)
StartFailed ==
  /\ \/ net = "start" /\ Free("net") /\ UNCHANGED service
     \/ /\ net = "launch"
        /\ IF current \in Made
           THEN current' = None /\ started' = FALSE /\ connecting' = FALSE /\ connected' = FALSE
           ELSE UNCHANGED service
  /\ link' = [c \in Clients |-> IF c \in Made THEN "none" ELSE link[c]]
  /\ ready' = FALSE /\ pending' = FALSE /\ uplink' = "NONE" /\ retry' = TRUE
  /\ net' = "idle"
  /\ UNCHANGED <<active, cs, recovered, settle, event, holds, loop, queue>>

(* The broker answers or is lost.  A client that is not the current one is *)
(* not listened to.                                                        *)
ClientEvent ==
  /\ current # None /\ event[current] = "none" /\ Room
  /\ \/ /\ link[current] = "trying"
        /\ link' = [link EXCEPT ![current] = "online"]
        /\ event' = [event EXCEPT ![current] = "connected"]
     \/ /\ link[current] \in {"trying", "online"}
        /\ link' = [link EXCEPT ![current] = "ended"]
        /\ event' = [event EXCEPT ![current] = "disconnected"]
  /\ UNCHANGED <<active, cs, manager, service, holds, loop, net, queue>>

(* The rest of mqtt_event_handler.  MQTT_EVENT_CONNECTED does not look     *)
(* again whether the client is the current one.                            *)
mqtt_event_handler(c) ==
  /\ event[c] # "none"
  /\ IF event[c] = "connected"
     THEN connected' = TRUE /\ connecting' = FALSE /\ started' = TRUE
     ELSE IF c = current
     THEN connected' = FALSE /\ connecting' = FALSE /\ started' = FALSE
     ELSE UNCHANGED flags
  /\ queue' = Append(queue, event[c])
  /\ event' = [event EXCEPT ![c] = "none"]
  /\ UNCHANGED <<active, cs, manager, current, link, holds, loop, net>>

-----------------------------------------------------------------------------
(* The event loop: app_event_handler of net_manager *)

EventLoop == loop = "idle" /\ Free("loop")

netm_reset_mqtt_state ==
  /\ ready' = FALSE /\ pending' = FALSE /\ retry' = FALSE /\ uplink' = "NONE"
  /\ StopIfStarted("loop")

(* Ethernet becomes the uplink before the client is stopped, WiFi and 4G   *)
(* after it.                                                               *)
NetUp(l) ==
  /\ EventLoop
  /\ l = "PPP" => active \notin {"ETH", "WIFI"}
  /\ l = "WIFI" => active # "ETH"
  /\ active' = IF l = "ETH" THEN l ELSE active
  /\ netm_reset_mqtt_state
  /\ loop' = l
  /\ UNCHANGED <<cs, recovered, settle, link, event, net, queue>>

NetUpEnd ==
  /\ loop \in Links /\ Free("loop")
  /\ active' = loop /\ settle' = TRUE
  /\ loop' = "idle"
  /\ UNCHANGED <<cs, recovered, retry, ready, pending, uplink, service, link, event, holds, net, queue>>

(* 4G comes up beside a better uplink.                                     *)
PppUpIgnored ==
  /\ EventLoop /\ "PPP" \in Links /\ active \in {"ETH", "WIFI"}
  /\ ~connected /\ ~pending
  /\ retry' = TRUE
  /\ UNCHANGED <<active, cs, recovered, settle, ready, pending, uplink, service, link, event, holds,
                 loop, net, queue>>

(* s_net_ready falls before the client is stopped; a WiFi that is lost     *)
(* also takes the deadline with it.                                        *)
NetDown ==
  /\ EventLoop /\ active \in Links
  /\ active' = "NONE"
  /\ settle' = (settle /\ active # "WIFI")
  /\ netm_reset_mqtt_state
  /\ loop' = "down"
  /\ UNCHANGED <<cs, recovered, link, event, net, queue>>

OnConnected ==
  /\ EventLoop /\ queue # <<>> /\ Head(queue) = "connected"
  /\ ready' = TRUE /\ pending' = FALSE /\ retry' = FALSE
  /\ uplink' = active /\ recovered' = FALSE
  /\ queue' = Tail(queue)
  /\ UNCHANGED <<active, cs, settle, service, link, event, holds, loop, net>>

(* In a CS session as outside of it: only the LED differs.                 *)
OnDisconnected ==
  /\ EventLoop /\ queue # <<>> /\ Head(queue) = "disconnected"
  /\ ready' = FALSE /\ pending' = FALSE
  /\ StopIfStarted("loop")
  /\ loop' = "retry"
  /\ queue' = Tail(queue)
  /\ UNCHANGED <<active, cs, recovered, settle, retry, uplink, link, event, net>>

(* What the handler does after its stop.                                   *)
HandlerEnd ==
  /\ loop \in {"down", "retry"} /\ Free("loop")
  /\ loop' = "idle"
  /\ IF loop = "retry" THEN uplink' = "NONE" /\ retry' = TRUE ELSE UNCHANGED <<uplink, retry>>
  /\ UNCHANGED <<active, cs, recovered, settle, ready, pending, service, link, event, holds, net, queue>>

-----------------------------------------------------------------------------
(* The manager's task *)

NetTask == net = "idle" /\ Free("net")

StopAndRetry ==
  /\ ready' = FALSE /\ pending' = FALSE /\ uplink' = "NONE"
  /\ mqtt_service_stop("net")
  /\ net' = "retry"

(* Up to the call of mqtt_service_start.                                   *)
Start == /\ ready' = FALSE /\ pending' = TRUE /\ uplink' = active
         /\ net' = "begin" /\ UNCHANGED <<service, holds>>

(* maybe_start_mqtt, the armed deadlines being due.  A client that is      *)
(* being started is given its time, unless s_mqtt_start_tick says nothing. *)
maybe_start_mqtt ==
  /\ NetTask /\ active \in Links
  /\ IF active = "PPP" /\ cs
     THEN retry' = TRUE /\ UNCHANGED <<ready, pending, uplink, service, holds, net>>
     ELSE /\ retry' = FALSE
          /\ \/ /\ ready \/ connected
                /\ IF uplink = active
                   THEN UNCHANGED <<ready, pending, uplink, service, holds, net>>
                   ELSE StopAndRetry
             \/ /\ ~ready /\ ~connected /\ (pending \/ mqtt_service_is_started)
                /\ \/ pending /\ UNCHANGED <<ready, pending, uplink, service, holds, net>>
                   \/ StopAndRetry
             \/ /\ ~ready /\ ~connected /\ ~pending /\ ~mqtt_service_is_started
                /\ Start
  /\ settle' = FALSE /\ recovered' = FALSE
  /\ UNCHANGED <<active, cs, link, event, loop, queue>>

(* The deadline of the next try is due before the uplink has settled.      *)
RetryBeforeSettled ==
  /\ NetTask /\ active \in Links /\ retry /\ settle
  /\ retry' = FALSE
  /\ UNCHANGED <<active, cs, recovered, settle, ready, pending, uplink, service, link, event, holds,
                 loop, net, queue>>

RetryLater ==
  /\ net = "retry" /\ Free("net")
  /\ retry' = TRUE /\ net' = "idle"
  /\ UNCHANGED <<active, cs, recovered, settle, ready, pending, uplink, service, link, event, holds,
                 loop, queue>>

(* Mutated: keeps s_mqtt_ready.                                            *)
RestartMqtt_KeepsReady ==
  /\ NetTask /\ active \in Links /\ ~connected /\ ~recovered
  /\ pending' = FALSE /\ StopIfStarted("net")
  /\ net' = "retry" /\ recovered' = TRUE
  /\ UNCHANGED <<active, cs, settle, retry, ready, uplink, link, event, loop, queue>>

(* The broker is away for APP_MQTT_RESTART_AFTER_MS, or still away that    *)
(* long after the last restart: longer than any deadline of                *)
(* maybe_start_mqtt, which ends the time in between.                       *)
RestartMqtt ==
  /\ NetTask /\ active \in Links /\ ~connected /\ ~recovered
  /\ ready' = FALSE /\ pending' = FALSE
  /\ StopIfStarted("net")
  /\ net' = "retry" /\ recovered' = TRUE
  /\ UNCHANGED <<active, cs, settle, retry, uplink, link, event, loop, queue>>

(* PPP is dialled anew, after a CS session or on its own deadline: the     *)
(* manager forgets the client and leaves it running.                       *)
ForgetUplink ==
  /\ NetTask /\ active \in {"NONE", "PPP"} /\ "PPP" \in Links
  /\ active' = "NONE"
  /\ ready' = FALSE /\ pending' = FALSE /\ uplink' = "NONE" /\ retry' = FALSE
  /\ UNCHANGED <<cs, recovered, settle, service, link, event, holds, loop, net, queue>>

-----------------------------------------------------------------------------
(* The other tasks *)

CsBegin == /\ "PPP" \in Links /\ ~cs /\ cs' = TRUE
           /\ UNCHANGED <<active, manager, service, link, event, holds, loop, net, queue>>

CsEnd == /\ cs /\ cs' = FALSE
         /\ UNCHANGED <<active, manager, service, link, event, holds, loop, net, queue>>

RecoveryStop(t) ==
  /\ Free(t) /\ ~connected
  /\ mqtt_service_stop(t)
  /\ UNCHANGED <<active, cs, manager, link, event, loop, net, queue>>

EnterProvision(t) ==
  /\ Free(t)
  /\ active' = "NONE" /\ settle' = FALSE /\ ready' = FALSE /\ pending' = FALSE
  /\ mqtt_service_stop(t)
  /\ UNCHANGED <<cs, recovered, retry, uplink, link, event, loop, net, queue>>

-----------------------------------------------------------------------------
mqtt_service == \/ \E t \in Tasks : StopEnd(t)
                \/ StartBegin \/ StartClient \/ Launched \/ StartReturns \/ StartFailed
                \/ ClientEvent \/ \E c \in Clients : mqtt_event_handler(c)
app_event_handler == \/ \E l \in Links : NetUp(l)
                     \/ NetUpEnd \/ PppUpIgnored \/ NetDown
                     \/ OnConnected \/ OnDisconnected \/ HandlerEnd
net_manager_task == \/ maybe_start_mqtt \/ RetryBeforeSettled \/ RetryLater
                    \/ RestartMqtt \/ ForgetUplink

Next == mqtt_service \/ app_event_handler \/ net_manager_task
        \/ CsBegin \/ CsEnd \/ \E t \in Others : RecoveryStop(t) \/ EnterProvision(t)

Spec == Init /\ [][Next]_vars

(* The tasks run and a call of the client library returns; what keeps      *)
(* becoming due is found due; a start that is tried again and again        *)
(* succeeds.                                                               *)
Fairness ==
  /\ \A t \in Tasks : WF_vars(StopEnd(t))
  /\ \A c \in Clients : WF_vars(mqtt_event_handler(c))
  /\ WF_vars(NetUpEnd) /\ WF_vars(OnConnected) /\ WF_vars(OnDisconnected) /\ WF_vars(HandlerEnd)
  /\ WF_vars(CsEnd) /\ WF_vars(RetryLater)
  /\ WF_vars(StartBegin) /\ WF_vars(Launched \/ StartFailed) /\ WF_vars(StartReturns)
  /\ SF_vars(StartClient) /\ SF_vars(Launched)
  /\ SF_vars(maybe_start_mqtt) /\ SF_vars(RestartMqtt)

FairSpec == Spec /\ Fairness

-----------------------------------------------------------------------------
(* Types.                                                                  *)
TypeOK ==
  /\ active \in Links \cup {"NONE"} /\ cs \in BOOLEAN
  /\ settle \in BOOLEAN /\ retry \in BOOLEAN /\ ready \in BOOLEAN /\ pending \in BOOLEAN
  /\ uplink \in Links \cup {"NONE"} /\ recovered \in BOOLEAN
  /\ current \in Clients \cup {None}
  /\ started \in BOOLEAN /\ connecting \in BOOLEAN /\ connected \in BOOLEAN
  /\ link \in [Clients -> {"none", "made", "trying", "online", "ended"}]
  /\ event \in [Clients -> {"none", "connected", "disconnected"}]
  /\ holds \in [Tasks -> Clients \cup {None}]
  /\ loop \in Links \cup {"idle", "down", "retry"}
  /\ net \in {"idle", "retry", "begin", "start", "launch", "started"}
  /\ queue \in Seq({"connected", "disconnected"}) /\ Len(queue) <= QueueLen

(* Every client that runs is either the current one or in the hands of     *)
(* exactly one task that destroys it: none is left running with the same   *)
(* client id, and none that runs is destroyed twice, whoever stops and     *)
(* starts at once (mqtt_service_start, mqtt_service_stop).                 *)
Owners(c) == Cardinality({t \in Tasks : holds[t] = c}) + (IF current = c THEN 1 ELSE 0)
OneOwner == \A c \in Clients : link[c] \in {"trying", "online", "ended"} => Owners(c) = 1

(* Each client lives the life of ClientLife: it is made when s_mqtt is     *)
(* empty, leaves s_mqtt for one task that destroys no other, and ends      *)
(* there, or where it was when its start fails (mqtt_service.c:441-619).   *)
(* A client whose start fails in the hands of another task has ended; that *)
(* the task destroys it once more (549-560) is outside this.               *)
Alive == {c \in Clients : link[c] # "none"}
InService == {current} \cap Alive
TakenBy == [c \in Clients |-> {t \in Tasks : holds[t] = c /\ c \in Alive}]
Life == INSTANCE ClientLife WITH alive <- Alive, current <- InService, taken <- TakenBy
ImplementsClientLife == Life!Spec

(* The service's client has the broker.                                    *)
Connection == current # None /\ link[current] = "online"

(* s_connected is set, and the service's client neither has the broker nor *)
(* is just telling of it: a callback that had found its client current set *)
(* it behind the stop (mqtt_service.c:235).                                *)
LateConnected == connected /\ ~Connection /\ (current # None => event[current] = "none")

(* A unit with an uplink and no connection tries a client again, whatever  *)
(* stopped the last one and whatever was forgotten of it, unless a CS      *)
(* session has the modem.  One stale flag does prevent it: an s_connected  *)
(* that a late callback has set, which maybe_start_mqtt, the restart after *)
(* three minutes and app_recovery all take for a connection                *)
(* (net_manager.c:592, 1135, app_recovery.c:268).                          *)
MqttTriedAgain == active \in Links /\ ~Connection
                  ~> active = "NONE" \/ Connection \/ cs \/ net = "launch" \/ LateConnected

(* s_mqtt_ready without a connection, as a late MQTT_CONNECTED leaves it   *)
(* behind a stop, does not last: maybe_start_mqtt alone would take it for  *)
(* a connection for ever (net_manager.c:592).                              *)
StaleReadyEnds == active \in Links /\ ready /\ ~connected
                  ~> active = "NONE" \/ ~ready \/ connected
=============================================================================
