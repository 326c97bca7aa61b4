---------------------------- MODULE MqttSessionProofs ----------------------------
(***************************************************************************)
(* For every set of clients, links and other tasks: every client that runs *)
(* belongs to s_mqtt or to exactly one task that destroys it, and each     *)
(* lives the life of ClientLife.                                           *)
(***************************************************************************)
EXTENDS MqttSession, FiniteSetTheorems, TLAPS

States == {"none", "made", "trying", "online", "ended"}

OwnTypes == /\ holds \in [Tasks -> Clients \cup {None}]
            /\ link \in [Clients -> States]
            /\ current \in Clients \cup {None}

(* Two tasks never hold one client, and none holds the current one.        *)
Apart == /\ \A t, u \in Tasks : t # u /\ holds[t] # None => holds[u] # holds[t]
         /\ \A t \in Tasks : holds[t] # None => holds[t] # current

(* A client that exists has an owner.                                      *)
Owned == \A c \in Clients : link[c] # "none" => current = c \/ \E t \in Tasks : holds[t] = c

(* s_mqtt names a client that exists, and nothing while one is to be made. *)
Current == /\ current # None => link[current] # "none"
           /\ net = "start" => current = None

(* A client is made and not yet started only within mqtt_service_start.    *)
MadeInLaunch == \A c \in Clients : link[c] = "made" => net = "launch"

OwnInv == OwnTypes /\ Apart /\ Owned /\ Current /\ MadeInLaunch

LEMMA InitOwn == Init => OwnInv
  <1> SUFFICES ASSUME Init PROVE OwnInv
    OBVIOUS
  <1>1. /\ current = None /\ link = [c \in Clients |-> "none"]
        /\ holds = [t \in Tasks |-> None]
    BY DEF Init
  <1> QED BY <1>1 DEF OwnInv, OwnTypes, States, Apart, Owned, Current, MadeInLaunch

LEMMA Keep ==
  ASSUME OwnInv, UNCHANGED <<holds, current, link>>,
         net' = net \/ (net # "launch" /\ net' # "start")
  PROVE  OwnInv'
  BY DEF OwnInv, OwnTypes, Apart, Owned, Current, MadeInLaunch

(* The client changes hands: a free task takes it out of s_mqtt.           *)
LEMMA Stop ==
  ASSUME OwnInv, NEW t \in Tasks, Free(t), UNCHANGED link,
         holds' = [holds EXCEPT ![t] = current], current' = None,
         net' = net \/ net # "launch"
  PROVE  OwnInv'
  <1>1. OwnTypes'
    BY DEF OwnInv, OwnTypes
  <1>2. holds[t] = None /\ holds'[t] = current /\ \A u \in Tasks \ {t} : holds'[u] = holds[u]
    BY DEF OwnInv, OwnTypes, Free
  <1>3. Apart'
    BY <1>2 DEF OwnInv, Apart
  <1>4. Owned'
    <2> SUFFICES ASSUME NEW c \in Clients, link[c] # "none"
                 PROVE  \E u \in Tasks : holds'[u] = c
      BY DEF Owned
    <2>1. current = c \/ \E u \in Tasks : holds[u] = c
      BY DEF OwnInv, Owned
    <2> QED BY <1>2, <2>1, ClientsAssumption
  <1>5. Current' /\ MadeInLaunch'
    BY DEF OwnInv, Current, MadeInLaunch
  <1> QED BY <1>1, <1>3, <1>4, <1>5 DEF OwnInv

LEMMA StopMaybe ==
  ASSUME OwnInv, NEW t \in Tasks, Free(t), UNCHANGED link,
         mqtt_service_stop(t) \/ UNCHANGED <<current, holds>>,
         net' = net \/ (net # "launch" /\ net' # "start")
  PROVE  OwnInv'
  BY Stop, Keep DEF mqtt_service_stop

LEMMA ServiceOwn == OwnInv /\ mqtt_service => OwnInv'
  <1> SUFFICES ASSUME OwnInv, mqtt_service PROVE OwnInv'
    OBVIOUS
  <1> USE DEF OwnInv
  <1>1. ASSUME NEW t \in Tasks, StopEnd(t) PROVE OwnInv'
    <2>1. /\ holds[t] # None /\ holds[t] \notin Made
          /\ link' = [link EXCEPT ![holds[t]] = "none"]
          /\ holds' = [holds EXCEPT ![t] = None] /\ UNCHANGED <<current, net>>
      BY <1>1 DEF StopEnd, service
    <2>2. /\ holds'[t] = None /\ \A u \in Tasks \ {t} : holds'[u] = holds[u]
          /\ \A c \in Clients : link'[c] = IF c = holds[t] THEN "none" ELSE link[c]
      BY <2>1 DEF OwnTypes
    <2>3. OwnTypes'
      BY <2>1 DEF OwnTypes, States
    <2>4. Apart'
      BY <2>1, <2>2 DEF Apart
    <2>5. Owned'
      BY <2>1, <2>2 DEF Owned
    <2>6. Current' /\ MadeInLaunch'
      BY <2>1, <2>2 DEF Current, MadeInLaunch, Apart, OwnTypes
    <2> QED BY <2>3, <2>4, <2>5, <2>6
  <1>2. CASE StartClient
    <2>1. PICK c \in Clients \ Held :
            /\ link[c] = "none" /\ link' = [link EXCEPT ![c] = "made"] /\ current' = c
      BY <1>2 DEF StartClient
    <2>2. net = "start" /\ net' = "launch" /\ UNCHANGED holds /\ current = None
      BY <1>2 DEF StartClient, Current
    <2>3. \A t \in Tasks : holds[t] # c
      BY <2>1, ClientsAssumption DEF Held
    <2>4. \A d \in Clients : link'[d] = IF d = c THEN "made" ELSE link[d]
      BY <2>1 DEF OwnTypes
    <2>5. OwnTypes'
      BY <2>1, <2>2 DEF OwnTypes, States
    <2>6. Apart' /\ Owned'
      BY <2>1, <2>2, <2>3, <2>4, ClientsAssumption DEF Apart, Owned
    <2>7. Current' /\ MadeInLaunch'
      BY <2>1, <2>2, <2>4 DEF Current, MadeInLaunch
    <2> QED BY <2>5, <2>6, <2>7
  <1>3. CASE Launched
    <2>1. /\ UNCHANGED <<current, holds>> /\ net' = "started"
          /\ link' = [c \in Clients |-> IF c \in Made THEN "trying" ELSE link[c]]
      BY <1>3 DEF Launched, service
    <2>2. \A c \in Clients : link'[c] # "made" /\ (link'[c] = "none" <=> link[c] = "none")
      BY <2>1 DEF Made
    <2>3. OwnTypes'
      BY <2>1 DEF OwnTypes, States
    <2> QED BY <2>1, <2>2, <2>3 DEF Apart, Owned, Current, MadeInLaunch, OwnTypes
  <1>4. CASE StartFailed
    <2>1. /\ UNCHANGED holds /\ net' = "idle"
          /\ link' = [c \in Clients |-> IF c \in Made THEN "none" ELSE link[c]]
      BY <1>4 DEF StartFailed
    <2>2. IF current \in Made THEN current' = None ELSE current' = current
      <3>1. CASE net = "start"
        <4>1. UNCHANGED current /\ current = None
          BY <1>4, <3>1 DEF StartFailed, service, Current
        <4> QED BY <4>1
      <3>2. CASE net = "launch"
        BY <1>4, <3>2 DEF StartFailed, service
      <3> QED BY <1>4, <3>1, <3>2 DEF StartFailed
    <2>3. \A c \in Clients : link'[c] # "made" /\ (link'[c] # "none" => link'[c] = link[c] /\ c \notin Made)
      BY <2>1 DEF Made
    <2>4. OwnTypes'
      BY <2>1, <2>2 DEF OwnTypes, States
    <2>5. Apart'
      BY <2>1, <2>2 DEF Apart
    <2>6. Owned'
      BY <2>1, <2>2, <2>3 DEF Owned
    <2>7. Current' /\ MadeInLaunch'
      BY <2>1, <2>2, <2>3 DEF Current, MadeInLaunch, OwnTypes
    <2> QED BY <2>4, <2>5, <2>6, <2>7
  <1>5. CASE ClientEvent
    <2>1. /\ current \in Clients /\ UNCHANGED <<current, holds, net>>
          /\ \/ link[current] = "trying" /\ link' = [link EXCEPT ![current] = "online"]
             \/ /\ link[current] \in {"trying", "online"}
                /\ link' = [link EXCEPT ![current] = "ended"]
      BY <1>5 DEF ClientEvent, service, OwnTypes
    <2>2. OwnTypes'
      BY <2>1 DEF OwnTypes, States
    <2>3. \A c \in Clients : /\ link'[c] = "none" <=> link[c] = "none"
                             /\ link'[c] = "made" => link[c] = "made"
      BY <2>1 DEF OwnTypes
    <2> QED BY <2>1, <2>2, <2>3 DEF Apart, Owned, Current, MadeInLaunch
  <1>6. ASSUME NEW c \in Clients, mqtt_event_handler(c) PROVE OwnInv'
    BY <1>6, Keep DEF mqtt_event_handler
  <1>7. CASE StartBegin
    <2>1. "net" \in Tasks /\ Free("net") /\ UNCHANGED link /\ net = "begin"
      BY <1>7 DEF StartBegin, Tasks
    <2>2. CASE net' = "idle" /\ UNCHANGED <<service, holds>>
      BY <1>7, <2>1, <2>2, Keep DEF StartBegin, service
    <2>3. CASE net' = "start" /\ mqtt_service_stop("net")
      BY <2>1, <2>3, Stop DEF mqtt_service_stop
    <2> QED BY <1>7, <2>2, <2>3 DEF StartBegin
  <1>8. CASE StartReturns
    BY <1>8, Keep DEF StartReturns
  <1> QED BY <1>1, <1>2, <1>3, <1>4, <1>5, <1>6, <1>7, <1>8 DEF mqtt_service

LEMMA HandlerOwn == OwnInv /\ app_event_handler => OwnInv'
  <1> SUFFICES ASSUME OwnInv, app_event_handler PROVE OwnInv'
    OBVIOUS
  <1>1. "loop" \in Tasks
    BY DEF Tasks
  <1>2. CASE (\E l \in Links : NetUp(l)) \/ NetDown \/ OnDisconnected
    <2>1. Free("loop") /\ UNCHANGED <<link, net>> /\ StopIfStarted("loop")
      BY <1>2 DEF NetUp, NetDown, OnDisconnected, EventLoop, netm_reset_mqtt_state
    <2> QED BY <1>1, <2>1, StopMaybe DEF StopIfStarted, service
  <1>3. CASE NetUpEnd \/ PppUpIgnored \/ OnConnected \/ HandlerEnd
    BY <1>3, Keep DEF NetUpEnd, PppUpIgnored, OnConnected, HandlerEnd, service
  <1> QED BY <1>2, <1>3 DEF app_event_handler

LEMMA TaskOwn == OwnInv /\ net_manager_task => OwnInv'
  <1> SUFFICES ASSUME OwnInv, net_manager_task PROVE OwnInv'
    OBVIOUS
  <1>1. "net" \in Tasks
    BY DEF Tasks
  <1>2. CASE maybe_start_mqtt
    <2>1. net = "idle" /\ Free("net") /\ UNCHANGED link
      BY <1>2 DEF maybe_start_mqtt, NetTask
    <2>2. \/ UNCHANGED <<service, holds, net>>
          \/ StopAndRetry \/ Start
      BY <1>2 DEF maybe_start_mqtt
    <2>3. CASE UNCHANGED <<service, holds, net>>
      BY <2>1, <2>3, Keep DEF service
    <2>4. CASE StopAndRetry
      BY <1>1, <2>1, <2>4, Stop DEF StopAndRetry, mqtt_service_stop
    <2>5. CASE Start
      BY <2>1, <2>5, Keep DEF Start, service
    <2> QED BY <2>2, <2>3, <2>4, <2>5
  <1>3. CASE RestartMqtt
    <2>1. /\ net = "idle" /\ net' = "retry" /\ Free("net") /\ UNCHANGED link
          /\ StopIfStarted("net")
      BY <1>3 DEF RestartMqtt, NetTask
    <2> QED BY <1>1, <2>1, StopMaybe DEF StopIfStarted, service
  <1>4. CASE RetryBeforeSettled \/ RetryLater \/ ForgetUplink
    BY <1>4, Keep DEF RetryBeforeSettled, RetryLater, ForgetUplink, service
  <1> QED BY <1>2, <1>3, <1>4 DEF net_manager_task

LEMMA OthersOwn ==
  ASSUME OwnInv, CsBegin \/ CsEnd \/ \E t \in Others : RecoveryStop(t) \/ EnterProvision(t)
  PROVE  OwnInv'
  <1>1. CASE CsBegin \/ CsEnd
    BY <1>1, Keep DEF CsBegin, CsEnd, service
  <1>2. ASSUME NEW t \in Others, RecoveryStop(t) \/ EnterProvision(t) PROVE OwnInv'
    <2>1. t \in Tasks /\ Free(t) /\ mqtt_service_stop(t) /\ UNCHANGED <<link, net>>
      BY <1>2 DEF RecoveryStop, EnterProvision, Tasks
    <2> QED BY <2>1, StopMaybe
  <1> QED BY <1>1, <1>2

LEMMA OwnLemma == OwnInv /\ [Next]_vars => OwnInv'
  <1>1. OwnInv /\ UNCHANGED vars => OwnInv'
    BY Keep DEF vars, service
  <1> QED BY <1>1, ServiceOwn, HandlerOwn, TaskOwn, OthersOwn DEF Next

LEMMA OneOwnerLemma == OwnInv => OneOwner
  <1> SUFFICES ASSUME OwnInv, NEW c \in Clients, link[c] # "none" PROVE Owners(c) = 1
    BY DEF OneOwner
  <1> DEFINE H == {t \in Tasks : holds[t] = c}
  <1>1. CASE current = c
    <2>1. H = {}
      BY <1>1, ClientsAssumption DEF OwnInv, Apart
    <2>2. Cardinality(H) = 0
      BY <2>1, FS_EmptySet
    <2> QED BY <1>1, <2>2 DEF Owners
  <1>2. CASE current # c
    <2>1. PICK t \in Tasks : holds[t] = c
      BY <1>2 DEF OwnInv, Owned
    <2>2. H = {t}
      BY <2>1, ClientsAssumption DEF OwnInv, Apart
    <2>3. Cardinality(H) = 1
      BY <2>2, FS_Singleton
    <2> QED BY <1>2, <2>3 DEF Owners
  <1> QED BY <1>1, <1>2

(* Whoever stops and starts MQTT at once, no client that runs is lost with *)
(* its client id, and none is destroyed twice: a stop takes the client out *)
(* of s_mqtt before it ends it (mqtt_service.c:441-478, 507-560).  A       *)
(* client that failed to start does not run; see ImplementsClientLife.     *)
THEOREM OneOwnerCorrect == Spec => []OneOwner
  <1> QED BY InitOwn, OwnLemma, OneOwnerLemma, PTL DEF Spec

-----------------------------------------------------------------------------
(* Types.  A callback that runs has its place in the queue.                *)

Event == {"connected", "disconnected"}
Uplinks == Links \cup {"NONE"}

SwitchTypes == /\ cs \in BOOLEAN /\ settle \in BOOLEAN /\ retry \in BOOLEAN /\ ready \in BOOLEAN
               /\ pending \in BOOLEAN /\ recovered \in BOOLEAN /\ started \in BOOLEAN
               /\ connecting \in BOOLEAN /\ connected \in BOOLEAN
StageTypes == /\ active \in Uplinks /\ uplink \in Uplinks
              /\ loop \in Links \cup {"idle", "down", "retry"}
              /\ net \in {"idle", "retry", "begin", "start", "launch", "started"}
QueueTypes == /\ event \in [Clients -> Event \cup {"none"}] /\ queue \in Seq(Event)
              /\ Len(queue) + Cardinality(InCallback) <= QueueLen

LEMMA CallbacksFinite ==
  IsFiniteSet(InCallback) /\ Cardinality(InCallback) \in Nat
  <1>1. InCallback \subseteq Clients
    BY DEF InCallback
  <1> QED BY <1>1, ClientsAssumption, FS_Subset, FS_CardinalityType

LEMMA QueueTyped == OwnInv /\ QueueTypes /\ [Next]_vars => QueueTypes'
  <1> SUFFICES ASSUME OwnInv, QueueTypes, [Next]_vars PROVE QueueTypes'
    OBVIOUS
  <1>0. IsFiniteSet(InCallback) /\ Cardinality(InCallback) \in Nat /\ Len(queue) \in Nat
        /\ QueueLen \in Nat
    BY CallbacksFinite, QueueLenAssumption DEF QueueTypes
  <1>1. CASE ClientEvent
    <2>1. /\ current \in Clients /\ event[current] = "none" /\ queue' = queue
          /\ Len(queue) + Cardinality(InCallback) < QueueLen
          /\ \E e \in Event : event' = [event EXCEPT ![current] = e]
      BY <1>1 DEF ClientEvent, Room, Event, OwnInv, OwnTypes
    <2>2. InCallback' = InCallback \cup {current} /\ current \notin InCallback
      BY <2>1 DEF InCallback, QueueTypes, Event
    <2>3. Cardinality(InCallback') = Cardinality(InCallback) + 1
      BY <1>0, <2>2, FS_AddElement
    <2>4. Len(queue') + Cardinality(InCallback') <= QueueLen
      BY <1>0, <2>1, <2>3
    <2> QED BY <2>1, <2>4 DEF QueueTypes
  <1>2. ASSUME NEW c \in Clients, mqtt_event_handler(c) PROVE QueueTypes'
    <2>1. /\ event[c] \in Event /\ queue' = Append(queue, event[c])
          /\ event' = [event EXCEPT ![c] = "none"]
      BY <1>2 DEF mqtt_event_handler, QueueTypes
    <2>2. InCallback' = InCallback \ {c} /\ c \in InCallback
      BY <1>2, <2>1 DEF InCallback, QueueTypes, mqtt_event_handler
    <2>3. Cardinality(InCallback') = Cardinality(InCallback) - 1
      BY <1>0, <2>2, FS_RemoveElement
    <2>4. queue' \in Seq(Event) /\ Len(queue') = Len(queue) + 1
      BY <2>1 DEF QueueTypes
    <2>5. Len(queue') + Cardinality(InCallback') <= QueueLen
      BY <1>0, <2>3, <2>4 DEF QueueTypes
    <2> QED BY <2>1, <2>4, <2>5 DEF QueueTypes
  <1>3. CASE OnConnected \/ OnDisconnected
    <2>1. event' = event /\ queue # <<>> /\ queue' = Tail(queue)
      BY <1>3 DEF OnConnected, OnDisconnected
    <2>2. queue' \in Seq(Event) /\ Len(queue') = Len(queue) - 1
      BY <2>1 DEF QueueTypes
    <2>3. InCallback' = InCallback
      BY <2>1 DEF InCallback
    <2>4. Len(queue') + Cardinality(InCallback') <= QueueLen
      BY <1>0, <2>2, <2>3 DEF QueueTypes
    <2> QED BY <2>1, <2>2, <2>4 DEF QueueTypes
  <1>4. CASE UNCHANGED <<event, queue>>
    BY <1>4 DEF QueueTypes, InCallback
  <1>5. \/ ClientEvent \/ OnConnected \/ OnDisconnected \/ UNCHANGED <<event, queue>>
        \/ \E c \in Clients : mqtt_event_handler(c)
    BY DEF Next, mqtt_service, StopEnd, StartBegin, StartClient, Launched, StartReturns,
       StartFailed, app_event_handler, NetUp, NetUpEnd, PppUpIgnored, NetDown, HandlerEnd, net_manager_task, maybe_start_mqtt,
       RetryBeforeSettled, RetryLater, RestartMqtt, ForgetUplink, CsBegin, CsEnd, RecoveryStop,
       EnterProvision, vars
  <1> QED BY <1>1, <1>2, <1>3, <1>4, <1>5

LEMMA StageTyped == StageTypes /\ [Next]_vars => StageTypes'
  <1> SUFFICES ASSUME StageTypes, [Next]_vars PROVE StageTypes'
    OBVIOUS
  <1> USE DEF StageTypes, Uplinks
  <1>1. CASE mqtt_service
    BY <1>1 DEF mqtt_service, StopEnd, StartBegin, StartClient, Launched, StartReturns,
       StartFailed, ClientEvent, mqtt_event_handler, manager
  <1>2. CASE app_event_handler
    BY <1>2 DEF app_event_handler, NetUp, netm_reset_mqtt_state, NetUpEnd, PppUpIgnored, NetDown,
       OnConnected, OnDisconnected, HandlerEnd
  <1>3. CASE net_manager_task
    BY <1>3 DEF net_manager_task, maybe_start_mqtt, StopAndRetry, Start, RetryBeforeSettled,
       RetryLater, RestartMqtt, ForgetUplink
  <1>4. CASE CsBegin \/ CsEnd \/ \E t \in Others : RecoveryStop(t) \/ EnterProvision(t)
    BY <1>4 DEF CsBegin, CsEnd, RecoveryStop, EnterProvision, manager
  <1>5. CASE UNCHANGED vars
    BY <1>5 DEF vars, manager
  <1> QED BY <1>1, <1>2, <1>3, <1>4, <1>5 DEF Next

LEMMA StopSwitches ==
  ASSUME SwitchTypes, NEW t \in Tasks, StopIfStarted(t) \/ mqtt_service_stop(t)
  PROVE  started' \in BOOLEAN /\ connecting' \in BOOLEAN /\ connected' \in BOOLEAN
  BY DEF SwitchTypes, StopIfStarted, mqtt_service_stop, service, flags

LEMMA SwitchTyped == SwitchTypes /\ [Next]_vars => SwitchTypes'
  <1> SUFFICES ASSUME SwitchTypes, [Next]_vars PROVE SwitchTypes'
    OBVIOUS
  <1>0. "loop" \in Tasks /\ "net" \in Tasks /\ Others \subseteq Tasks
    BY DEF Tasks
  <1>1. CASE mqtt_service
    <2>1. CASE StartReturns
      <3> DEFINE mine == current # None
      <3>1. mine \in BOOLEAN
        OBVIOUS
      <3>2. started' \in BOOLEAN
        <4>1. started' = (started \/ mine)
          BY <2>1, Zenon DEF StartReturns
        <4> HIDE DEF mine
        <4> QED BY <3>1, <4>1, Zenon DEF SwitchTypes
      <3> QED BY <2>1, <3>2 DEF StartReturns, manager, SwitchTypes
    <2>2. CASE (\E t \in Tasks : StopEnd(t)) \/ StartClient \/ Launched \/ ClientEvent
      BY <2>2 DEF StopEnd, StartClient, Launched, ClientEvent, manager, service, flags, SwitchTypes
    <2>3. CASE StartFailed
      BY <2>3 DEF StartFailed, service, flags, SwitchTypes
    <2>4. CASE \E c \in Clients : mqtt_event_handler(c)
      BY <2>4 DEF mqtt_event_handler, manager, flags, SwitchTypes
    <2>5. CASE StartBegin
      BY <1>0, <2>5, StopSwitches DEF StartBegin, manager, service, flags, SwitchTypes
    <2> QED BY <1>1, <2>1, <2>2, <2>3, <2>4, <2>5 DEF mqtt_service
  <1>2. CASE app_event_handler
    <2>1. CASE NetDown
      <3> DEFINE other == active # "WIFI"
      <3>1. other \in BOOLEAN
        OBVIOUS
      <3>2. settle' \in BOOLEAN
        <4>1. settle' = (settle /\ other)
          BY <2>1, Zenon DEF NetDown
        <4> HIDE DEF other
        <4> QED BY <3>1, <4>1, Zenon DEF SwitchTypes
      <3> QED BY <1>0, <2>1, <3>2, StopSwitches DEF NetDown, netm_reset_mqtt_state, SwitchTypes
    <2>2. CASE (\E l \in Links : NetUp(l)) \/ OnDisconnected
      BY <1>0, <2>2, StopSwitches DEF NetUp, OnDisconnected, netm_reset_mqtt_state, SwitchTypes
    <2>3. CASE NetUpEnd \/ PppUpIgnored \/ OnConnected \/ HandlerEnd
      BY <2>3 DEF NetUpEnd, PppUpIgnored, OnConnected, HandlerEnd, service, flags, SwitchTypes
    <2> QED BY <1>2, <2>1, <2>2, <2>3 DEF app_event_handler
  <1>3. CASE net_manager_task
    <2>1. CASE maybe_start_mqtt
      BY <1>0, <2>1, StopSwitches DEF maybe_start_mqtt, StopAndRetry, Start, service, flags,
         SwitchTypes
    <2>2. CASE RestartMqtt
      BY <1>0, <2>2, StopSwitches DEF RestartMqtt, SwitchTypes
    <2>3. CASE RetryBeforeSettled \/ RetryLater \/ ForgetUplink
      BY <2>3 DEF RetryBeforeSettled, RetryLater, ForgetUplink, service, flags, SwitchTypes
    <2> QED BY <1>3, <2>1, <2>2, <2>3 DEF net_manager_task
  <1>4. CASE CsBegin \/ CsEnd \/ \E t \in Others : RecoveryStop(t) \/ EnterProvision(t)
    BY <1>0, <1>4, StopSwitches DEF CsBegin, CsEnd, RecoveryStop, EnterProvision, manager, service,
       flags, SwitchTypes
  <1>5. CASE UNCHANGED vars
    BY <1>5 DEF vars, manager, service, flags, SwitchTypes
  <1> QED BY <1>1, <1>2, <1>3, <1>4, <1>5 DEF Next

(* The variables keep their types, and the clients never fill the event    *)
(* queue beyond its length (mqtt_service.c:205-290).                       *)
THEOREM TypeCorrect == Spec => []TypeOK
  <1>1. Init => SwitchTypes /\ StageTypes /\ QueueTypes
    <2> SUFFICES ASSUME Init PROVE SwitchTypes /\ StageTypes /\ QueueTypes
      OBVIOUS
    <2>1. SwitchTypes /\ StageTypes
      BY Zenon DEF Init, SwitchTypes, StageTypes, Uplinks
    <2>2. InCallback = {}
      BY DEF Init, InCallback
    <2>3. Len(queue) + Cardinality(InCallback) <= QueueLen
      BY <2>2, FS_EmptySet, QueueLenAssumption DEF Init
    <2> QED BY <2>1, <2>3 DEF Init, QueueTypes
  <1>2. OwnInv /\ SwitchTypes /\ StageTypes /\ QueueTypes => TypeOK
    <2> SUFFICES ASSUME OwnInv, SwitchTypes, StageTypes, QueueTypes PROVE TypeOK
      OBVIOUS
    <2>1. Len(queue) <= QueueLen
      BY CallbacksFinite, QueueLenAssumption DEF QueueTypes
    <2> QED BY <2>1 DEF OwnInv, OwnTypes, States, SwitchTypes, StageTypes, Uplinks, QueueTypes,
         Event, TypeOK
  <1> QED BY <1>1, <1>2, InitOwn, OwnLemma, SwitchTyped, StageTyped, QueueTyped, PTL DEF Spec

-----------------------------------------------------------------------------
(* The life of a client *)

(* Only one client is being made at a time.                                *)
OneMade == \A c, d \in Made : c = d

LEMMA MadeKept ==
  ASSUME OneMade, \A c \in Clients : link'[c] = "made" => link[c] = "made"
  PROVE  OneMade'
  BY DEF OneMade, Made

LEMMA OneMadeStep == OwnInv /\ OneMade /\ [Next]_vars => OneMade'
  <1> SUFFICES ASSUME OwnInv, OneMade, [Next]_vars PROVE OneMade'
    OBVIOUS
  <1> USE DEF OwnInv
  <1>1. ASSUME NEW t \in Tasks, StopEnd(t) PROVE OneMade'
    BY <1>1, MadeKept DEF StopEnd, OwnTypes
  <1>2. CASE StartClient
    <2>1. \A c \in Clients : link[c] # "made"
      BY <1>2 DEF StartClient, MadeInLaunch
    <2>2. \E c \in Clients : link' = [link EXCEPT ![c] = "made"]
      BY <1>2 DEF StartClient
    <2> QED BY <2>1, <2>2 DEF OneMade, Made, OwnTypes
  <1>3. CASE Launched \/ StartFailed
    <2>1. \A c \in Clients : link'[c] # "made"
      BY <1>3 DEF Launched, StartFailed, Made
    <2> QED BY <2>1, MadeKept
  <1>4. CASE ClientEvent
    BY <1>4, MadeKept DEF ClientEvent, OwnTypes
  <1>5. CASE UNCHANGED link
    BY <1>5, MadeKept
  <1> QED
    BY <1>1, <1>2, <1>3, <1>4, <1>5
    DEF Next, mqtt_service, StartBegin, StartReturns, mqtt_event_handler, app_event_handler, NetUp, NetUpEnd, PppUpIgnored,
        NetDown, OnConnected, OnDisconnected, HandlerEnd, net_manager_task, maybe_start_mqtt,
        RetryBeforeSettled, RetryLater, RestartMqtt, ForgetUplink, CsBegin, CsEnd, RecoveryStop,
        EnterProvision, vars

(* A step that makes, moves and ends no client.                            *)
LEMMA LifeStutter ==
  ASSUME UNCHANGED <<current, holds>>,
         \A c \in Clients : link'[c] = "none" <=> link[c] = "none"
  PROVE  UNCHANGED Life!vars
  <1>1. Alive' = Alive
    BY DEF Alive
  <1>2. InService' = InService
    BY <1>1 DEF InService
  <1>3. TakenBy' = TakenBy
    BY <1>1 DEF TakenBy
  <1> QED BY <1>1, <1>2, <1>3 DEF Life!vars

(* A free task empties s_mqtt.                                             *)
LEMMA LifeStop ==
  ASSUME OwnInv, NEW t \in Tasks, Free(t), UNCHANGED link,
         holds' = [holds EXCEPT ![t] = current], current' = None
  PROVE  [Life!Next]_Life!vars
  <1>0. /\ holds'[t] = current /\ \A u \in Tasks \ {t} : holds'[u] = holds[u]
        /\ holds[t] = None
    BY DEF OwnInv, OwnTypes, Free
  <1>1. CASE current = None
    <2>1. holds' = holds
      BY <1>0, <1>1 DEF OwnInv, OwnTypes
    <2> QED BY <1>1, <2>1, LifeStutter
  <1>2. CASE current # None
    <2>1. /\ current \in Clients /\ current \in Alive /\ InService = {current}
          /\ Alive' = Alive /\ InService' = {}
      BY <1>2, ClientsAssumption DEF OwnInv, OwnTypes, Current, Alive, InService
    <2>2. \A d \in Clients : t \notin TakenBy[d]
      BY <1>0, ClientsAssumption DEF TakenBy
    <2>3. TakenBy' = [TakenBy EXCEPT ![current] = {t}]
      <3>1. {u \in Tasks : holds'[u] = current} = {t}
        BY <1>0, <1>2 DEF OwnInv, Apart
      <3>2. \A d \in Clients \ {current} :
              {u \in Tasks : holds'[u] = d} = {u \in Tasks : holds[u] = d}
        BY <1>0, ClientsAssumption
      <3>3. TakenBy'[current] = {t}
        BY <2>1, <3>1 DEF TakenBy
      <3>4. \A d \in Clients \ {current} : TakenBy'[d] = TakenBy[d]
        BY <2>1, <3>2 DEF TakenBy
      <3> QED BY <2>1, <3>3, <3>4 DEF TakenBy
    <2>4. Life!Stop(current, t)
      BY <2>1, <2>2, <2>3 DEF Life!Stop
    <2> QED BY <2>1, <2>4 DEF Life!Next
  <1> QED BY <1>1, <1>2

LEMMA LifeStopMaybe ==
  ASSUME OwnInv, NEW t \in Tasks, Free(t), UNCHANGED link,
         mqtt_service_stop(t) \/ UNCHANGED <<current, holds>>
  PROVE  [Life!Next]_Life!vars
  BY LifeStop, LifeStutter DEF mqtt_service_stop

(* A client that is alive ends.                                            *)
LEMMA LifeEnd ==
  ASSUME OwnInv, NEW c \in Clients, link[c] # "none",
         \A d \in Clients : link'[d] = "none" <=> d = c \/ link[d] = "none",
         current' = IF current = c THEN None ELSE current,
         \A u \in Tasks : holds'[u] = holds[u] \/ (holds[u] = c /\ holds'[u] = None)
  PROVE  [Life!Next]_Life!vars
  <1>1. c \in Alive /\ Alive' = Alive \ {c}
    BY DEF Alive
  <1>2. InService' = InService \ {c}
    BY <1>1, ClientsAssumption DEF InService, Alive
  <1>3. TakenBy'[c] = {}
    BY <1>1 DEF TakenBy
  <1>4. ASSUME NEW d \in Clients \ {c} PROVE TakenBy'[d] = TakenBy[d]
    <2>1. \A u \in Tasks : holds'[u] = d <=> holds[u] = d
      BY <1>4, ClientsAssumption
    <2>2. d \in Alive' <=> d \in Alive
      BY <1>1
    <2> QED BY <2>1, <2>2 DEF TakenBy
  <1>5. TakenBy' = [TakenBy EXCEPT ![c] = {}]
    BY <1>3, <1>4 DEF TakenBy
  <1> QED BY <1>1, <1>2, <1>5 DEF Life!Next, Life!End

LEMMA ServiceLives == OwnInv /\ OneMade /\ mqtt_service => [Life!Next]_Life!vars
  <1> SUFFICES ASSUME OwnInv, OneMade, mqtt_service PROVE [Life!Next]_Life!vars
    OBVIOUS
  <1>1. ASSUME NEW t \in Tasks, StopEnd(t) PROVE [Life!Next]_Life!vars
    <2> DEFINE c == holds[t]
    <2>1. /\ c \in Clients /\ UNCHANGED current /\ current # c
          /\ \A d \in Clients : link'[d] = IF d = c THEN "none" ELSE link[d]
          /\ \A u \in Tasks : holds'[u] = IF u = t THEN None ELSE holds[u]
      BY <1>1 DEF StopEnd, service, OwnInv, OwnTypes, Apart
    <2>2. CASE link[c] # "none"
      BY <2>1, <2>2, LifeEnd
    <2>3. CASE link[c] = "none"
      <3>1. Alive' = Alive /\ InService' = InService /\ c \notin Alive
        BY <2>1, <2>3 DEF Alive, InService
      <3>2. TakenBy' = TakenBy
        <4>1. \A d \in Alive : \A u \in Tasks : holds'[u] = d <=> holds[u] = d
          BY <2>1, <3>1, ClientsAssumption DEF Alive
        <4> QED BY <3>1, <4>1 DEF TakenBy
      <3> QED BY <3>1, <3>2 DEF Life!vars
    <2> QED BY <2>2, <2>3
  <1>2. CASE StartClient
    <2>1. PICK c \in Clients \ Held :
            /\ link[c] = "none" /\ link' = [link EXCEPT ![c] = "made"] /\ current' = c
      BY <1>2 DEF StartClient
    <2>2. current = None /\ holds' = holds
      BY <1>2 DEF StartClient, OwnInv, Current
    <2>3. /\ c \notin Alive /\ Alive' = Alive \cup {c}
          /\ InService = {} /\ InService' = {c}
      BY <2>1, <2>2, ClientsAssumption DEF Alive, InService, OwnInv, OwnTypes
    <2>4. \A t \in Tasks : holds[t] # c
      BY <2>1, ClientsAssumption DEF Held
    <2>5. TakenBy' = TakenBy
      BY <2>2, <2>3, <2>4 DEF TakenBy
    <2> QED BY <2>3, <2>5 DEF Life!Next, Life!Start
  <1>3. CASE Launched
    BY <1>3, LifeStutter DEF Launched, Made, service
  <1>4. CASE StartFailed
    <2>1. holds' = holds /\ link' = [c \in Clients |-> IF c \in Made THEN "none" ELSE link[c]]
      BY <1>4 DEF StartFailed
    <2>2. CASE Made = {}
      <3>1. UNCHANGED current
        BY <1>4, <2>2 DEF StartFailed, service
      <3> QED BY <2>1, <2>2, <3>1, LifeStutter
    <2>3. CASE Made # {}
      <3>1. PICK c \in Clients : link[c] = "made"
        BY <2>3 DEF Made
      <3>2. Made = {c} /\ net = "launch"
        BY <3>1 DEF Made, OneMade, OwnInv, MadeInLaunch
      <3>3. current' = IF current = c THEN None ELSE current
        BY <1>4, <3>2 DEF StartFailed, service
      <3>4. \A d \in Clients : link'[d] = "none" <=> d = c \/ link[d] = "none"
        BY <2>1, <3>2
      <3> QED BY <2>1, <3>1, <3>3, <3>4, LifeEnd
    <2> QED BY <2>2, <2>3
  <1>5. CASE ClientEvent
    <2>1. /\ UNCHANGED <<current, holds>>
          /\ \A c \in Clients : link'[c] = "none" <=> link[c] = "none"
      BY <1>5 DEF ClientEvent, service, OwnInv, OwnTypes
    <2> QED BY <2>1, LifeStutter
  <1>6. ASSUME NEW c \in Clients, mqtt_event_handler(c) PROVE [Life!Next]_Life!vars
    BY <1>6, LifeStutter DEF mqtt_event_handler
  <1>7. CASE StartBegin
    <2>1. "net" \in Tasks /\ Free("net") /\ UNCHANGED link
      BY <1>7 DEF StartBegin, Tasks
    <2>2. mqtt_service_stop("net") \/ UNCHANGED <<current, holds>>
      BY <1>7 DEF StartBegin, service
    <2> QED BY <2>1, <2>2, LifeStopMaybe
  <1>8. CASE StartReturns
    BY <1>8, LifeStutter DEF StartReturns
  <1> QED BY <1>1, <1>2, <1>3, <1>4, <1>5, <1>6, <1>7, <1>8 DEF mqtt_service

LEMMA ManagerLives ==
  OwnInv /\ (app_event_handler \/ net_manager_task) => [Life!Next]_Life!vars
  <1> SUFFICES ASSUME OwnInv, app_event_handler \/ net_manager_task
               PROVE  [Life!Next]_Life!vars
    OBVIOUS
  <1>0. "loop" \in Tasks /\ "net" \in Tasks
    BY DEF Tasks
  <1>1. CASE (\E l \in Links : NetUp(l)) \/ NetDown \/ OnDisconnected
    <2>1. Free("loop") /\ UNCHANGED link /\ StopIfStarted("loop")
      BY <1>1 DEF NetUp, NetDown, OnDisconnected, EventLoop, netm_reset_mqtt_state
    <2> QED BY <1>0, <2>1, LifeStopMaybe DEF StopIfStarted, service
  <1>2. CASE maybe_start_mqtt
    <2>1. Free("net") /\ UNCHANGED link
      BY <1>2 DEF maybe_start_mqtt, NetTask
    <2>2. \/ UNCHANGED <<service, holds, net>>
          \/ StopAndRetry \/ Start
      BY <1>2 DEF maybe_start_mqtt
    <2>3. UNCHANGED <<current, holds>>
            \/ (holds' = [holds EXCEPT !["net"] = current] /\ current' = None)
      BY <2>2 DEF StopAndRetry, mqtt_service_stop, Start, service
    <2> QED BY <1>0, <2>1, <2>3, LifeStop, LifeStutter
  <1>3. CASE RestartMqtt
    <2>1. Free("net") /\ UNCHANGED link /\ StopIfStarted("net")
      BY <1>3 DEF RestartMqtt, NetTask
    <2> QED BY <1>0, <2>1, LifeStopMaybe DEF StopIfStarted, service
  <1>4. CASE NetUpEnd \/ PppUpIgnored \/ OnConnected \/ HandlerEnd
             \/ RetryBeforeSettled \/ RetryLater \/ ForgetUplink
    BY <1>4, LifeStutter DEF NetUpEnd, PppUpIgnored, OnConnected, HandlerEnd, RetryBeforeSettled,
       RetryLater, ForgetUplink, service
  <1> QED BY <1>1, <1>2, <1>3, <1>4 DEF app_event_handler, net_manager_task

LEMMA LifeLemma == OwnInv /\ OneMade /\ [Next]_vars => [Life!Next]_Life!vars
  <1> SUFFICES ASSUME OwnInv, OneMade, [Next]_vars PROVE [Life!Next]_Life!vars
    OBVIOUS
  <1>1. CASE CsBegin \/ CsEnd
    BY <1>1, LifeStutter DEF CsBegin, CsEnd, service
  <1>2. ASSUME NEW t \in Others, RecoveryStop(t) \/ EnterProvision(t)
        PROVE  [Life!Next]_Life!vars
    <2>1. t \in Tasks /\ Free(t) /\ mqtt_service_stop(t) /\ UNCHANGED link
      BY <1>2 DEF RecoveryStop, EnterProvision, Tasks
    <2> QED BY <2>1, LifeStopMaybe
  <1>3. CASE UNCHANGED vars
    BY <1>3, LifeStutter DEF vars, service
  <1> QED BY <1>1, <1>2, <1>3, ServiceLives, ManagerLives DEF Next

(* Whichever tasks start and stop MQTT at once, and however their steps    *)
(* fall between each other, each client lives the life of ClientLife: made *)
(* when s_mqtt is empty, taken by one task that destroys no other, and     *)
(* ended there or by the failure of its start (mqtt_service.c:441-619).    *)
THEOREM LifeCorrect == Spec => ImplementsClientLife
  <1>1. Init => OneMade /\ Life!Init
    BY DEF Init, OneMade, Made, Life!Init, Alive, InService, TakenBy
  <1> QED BY <1>1, InitOwn, OwnLemma, OneMadeStep, LifeLemma, PTL
          DEF Spec, ImplementsClientLife, Life!Spec
=============================================================================
