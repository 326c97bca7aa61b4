---------------------------- MODULE NetManagerProofs ----------------------------
(***************************************************************************)
(* For every set of links and of troubles and every room in the queue: 4G  *)
(* is the uplink only alone, a data connection beside a better uplink has  *)
(* its address still to be handled unless a hang-up has failed to close    *)
(* it, and the queue stays bounded.                                        *)
(***************************************************************************)
EXTENDS NetManager, SequenceTheorems, TLAPS

(* An event that is taken from the queue and handled.                      *)
Handle(e) == Handles(e) /\ After(Tail(queue))

-----------------------------------------------------------------------------
(* The uplink and the addresses                                            *)

(* A better uplink is chosen only without a 4G address, and 4G is given    *)
(* one only together with the uplink; a hang-up of the event loop is for   *)
(* an address that is noted already.                                       *)
UplinkInv == /\ has_ip \subseteq {"ETH", "WIFI", "PPP"}
             /\ PppOnlyAlone
             /\ loop = "free" /\ active \in {"ETH", "WIFI"} => "PPP" \notin has_ip
             /\ loop = "ETH" => active # "PPP"

LEMMA InitUplink == Init => UplinkInv
  BY DEF Init, reset_runtime_state, UplinkInv, PppOnlyAlone

LEMMA SameUplink ==
  ASSUME UplinkInv, UNCHANGED <<active, has_ip, loop>>
  PROVE  UplinkInv'
  BY DEF UplinkInv, PppOnlyAlone

(* An uplink that is given up may take no address along.                   *)
LEMMA UplinkGone ==
  ASSUME UplinkInv, has_ip' \subseteq has_ip, active' \in {"NONE", "AP_ONLY"}
  PROVE  UplinkInv'
  BY DEF UplinkInv, PppOnlyAlone

LEMMA ServicesUplink == UplinkInv /\ Services => UplinkInv'
  BY SameUplink DEF Services, Told, EthGotIp, EthLost, WifiGotIp, WifiLost, PppGotIp,
     PppLost, CsBegin, CsEnd, manager

LEMMA PortalUplink == UplinkInv /\ Portal => UplinkInv'
  <1> SUFFICES ASSUME UplinkInv, Portal PROVE UplinkInv'
    OBVIOUS
  <1>1. CASE Button \/ save_post_handler
    BY <1>1, SameUplink DEF Button, save_post_handler, manager
  <1>2. CASE ProvisionBegin \/ ProvisionEnd
    <2>1. UNCHANGED has_ip /\ active' \in {"NONE", "AP_ONLY"}
      BY <1>2 DEF ProvisionBegin, ProvisionEnd
    <2> QED BY <2>1, UplinkGone
  <1> QED BY <1>1, <1>2 DEF Portal

LEMMA AddressUplink == UplinkInv /\ (OnEthUp \/ OnWifiUp \/ OnPppUp) => UplinkInv'
  <1> SUFFICES ASSUME UplinkInv, OnEthUp \/ OnWifiUp \/ OnPppUp PROVE UplinkInv'
    OBVIOUS
  <1>1. CASE OnEthUp
    <2>1. /\ active' = "ETH"
          /\ \/ has_ip' = (has_ip \cup {"ETH"}) \ {"WIFI"} /\ loop' = "ETH"
             \/ has_ip' = {"ETH"}
      BY <1>1 DEF OnEthUp
    <2> QED BY <2>1 DEF UplinkInv, PppOnlyAlone
  <1>2. CASE OnWifiUp
    <2>1. loop = "free"
      BY <1>2 DEF OnWifiUp, Handles
    <2>2. \/ /\ "ETH" \in has_ip /\ has_ip' = has_ip \cup {"WIFI"} /\ UNCHANGED <<active, loop>>
          \/ has_ip' = has_ip \cup {"WIFI"} /\ UNCHANGED active /\ loop' = "WIFI"
          \/ has_ip' = (has_ip \cup {"WIFI"}) \ {"PPP"} /\ active' = "WIFI" /\ UNCHANGED loop
      BY <1>2, <2>1 DEF OnWifiUp, WifiOnline
    <2> QED BY <2>1, <2>2 DEF UplinkInv, PppOnlyAlone
  <1>3. CASE OnPppUp
    <2>1. \/ has_ip' = has_ip \cup {"PPP"} /\ UNCHANGED active /\ loop' = "PPP"
          \/ ~Better /\ has_ip' = has_ip \cup {"PPP"} /\ active' = "PPP" /\ UNCHANGED loop
      BY <1>3 DEF OnPppUp, PppOnline
    <2>2. loop = "free"
      BY <1>3 DEF OnPppUp, Handles
    <2> QED BY <2>1, <2>2 DEF UplinkInv, PppOnlyAlone, Better
  <1> QED BY <1>1, <1>2, <1>3

LEMMA HangupUplink == UplinkInv /\ (EthUpEnd \/ WifiUpEnd \/ PppUpEnd) => UplinkInv'
  <1> SUFFICES ASSUME UplinkInv, EthUpEnd \/ WifiUpEnd \/ PppUpEnd PROVE UplinkInv'
    OBVIOUS
  <1>1. CASE EthUpEnd
    <2>1. loop = "ETH" /\ has_ip' = has_ip \ {"PPP"} /\ UNCHANGED active
      BY <1>1 DEF EthUpEnd
    <2> QED BY <2>1 DEF UplinkInv, PppOnlyAlone
  <1>2. CASE WifiUpEnd
    <2>1. has_ip' = has_ip \ {"PPP"} /\ active' = "WIFI" /\ loop' = "free"
      BY <1>2 DEF WifiUpEnd, WifiOnline
    <2> QED BY <2>1 DEF UplinkInv, PppOnlyAlone
  <1>3. CASE PppUpEnd
    <2>1. /\ has_ip' = has_ip \ {"PPP"} /\ loop' = "free"
          /\ active' = IF "ETH" \in has_ip THEN "ETH" ELSE "WIFI"
      BY <1>3 DEF PppUpEnd
    <2> QED BY <2>1 DEF UplinkInv, PppOnlyAlone
  <1> QED BY <1>1, <1>2, <1>3

LEMMA HandlerUplink == UplinkInv /\ app_event_handler => UplinkInv'
  <1> SUFFICES ASSUME UplinkInv, app_event_handler PROVE UplinkInv'
    OBVIOUS
  <1>1. CASE OnEthDown
    <2>1. has_ip' = has_ip \ {"ETH"} /\ UNCHANGED loop
      BY <1>1 DEF OnEthDown
    <2>2. active = "ETH" => active' = "NONE"
      BY <1>1 DEF OnEthDown
    <2>3. active # "ETH" => active' = active
      BY <1>1 DEF OnEthDown
    <2> QED BY <2>1, <2>2, <2>3 DEF UplinkInv, PppOnlyAlone
  <1>2. CASE OnWifiDown
    <2>1. has_ip' = has_ip \ {"WIFI"} /\ active' \in {active, "NONE"} /\ UNCHANGED loop
      BY <1>2 DEF OnWifiDown
    <2> QED BY <2>1 DEF UplinkInv, PppOnlyAlone
  <1>3. CASE OnPppDown
    <2>1. has_ip' = has_ip \ {"PPP"} /\ UNCHANGED loop
      BY <1>3 DEF OnPppDown
    <2>2. active = "PPP" => active' = "NONE"
      BY <1>3 DEF OnPppDown
    <2>3. active # "PPP" => active' = active
      BY <1>3 DEF OnPppDown
    <2> QED BY <2>1, <2>2, <2>3 DEF UplinkInv, PppOnlyAlone
  <1>4. CASE OnConfigSaved
    <2>1. has_ip' = has_ip \ {"WIFI"} /\ UNCHANGED <<active, loop>>
      BY <1>4 DEF OnConfigSaved
    <2> QED BY <2>1 DEF UplinkInv, PppOnlyAlone
  <1>5. CASE OnProvisionStart
    BY <1>5, SameUplink DEF OnProvisionStart, manager
  <1> QED BY <1>1, <1>2, <1>3, <1>4, <1>5, AddressUplink, HangupUplink DEF app_event_handler

LEMMA TaskUplink == UplinkInv /\ net_manager_task => UplinkInv'
  <1> SUFFICES ASSUME UplinkInv, net_manager_task PROVE UplinkInv'
    OBVIOUS
  <1>1. CASE WifiRetry \/ WifiProbe \/ PowerCycle \/ CsHangupEnd \/ ArmProbe
    BY <1>1, SameUplink DEF WifiRetry, WifiProbe, PowerCycle, CsHangupEnd, ArmProbe, manager
  <1>2. CASE CsDone \/ RecoverUplink
    <2>1. \/ UNCHANGED <<active, has_ip, loop>>
          \/ has_ip' \subseteq has_ip /\ active' = "NONE"
      BY <1>2 DEF CsDone, RecoverUplink, manager
    <2> QED BY <2>1, SameUplink, UplinkGone
  <1>3. CASE PppRetry \/ LostTooLong
    <2>1. UNCHANGED <<has_ip, loop>> /\ active' \in {active, "NONE"}
      BY <1>3 DEF PppRetry, LostTooLong, start_ppp_connect
    <2> QED BY <2>1, SameUplink, UplinkGone
  <1>4. CASE DialEnd
    <2>1. \/ UNCHANGED <<active, has_ip, loop>>
          \/ has_ip' \subseteq has_ip /\ active' = "NONE"
      BY <1>4 DEF DialEnd, Connected, NotConnected
    <2> QED BY <2>1, SameUplink, UplinkGone
  <1> QED BY <1>1, <1>2, <1>3, <1>4 DEF net_manager_task

LEMMA UplinkLemma == UplinkInv /\ [Next]_vars => UplinkInv'
  <1>1. UplinkInv /\ UNCHANGED vars => UplinkInv'
    BY SameUplink DEF vars, manager
  <1>2. UplinkInv /\ Reboot => UplinkInv'
    <2> SUFFICES ASSUME UplinkInv, Reboot PROVE UplinkInv'
      OBVIOUS
    <2>1. has_ip' = {} /\ active' = "NONE"
      BY DEF Reboot, Restarted
    <2> QED BY <2>1, UplinkGone
  <1> QED BY <1>1, <1>2, ServicesUplink, PortalUplink, HandlerUplink, TaskUplink DEF Next

(* 4G is the uplink only while it alone has an address, whatever order the *)
(* events, dials and deadlines come in, but for the hang-up that follows   *)
(* an address of WiFi (net_manager.c:1328-1394, 1396-1490, 501).           *)
THEOREM PppOnlyAloneCorrect == Spec => []PppOnlyAlone
  <1>1. UplinkInv => PppOnlyAlone
    BY DEF UplinkInv
  <1> QED BY <1>1, InitUplink, UplinkLemma, PTL DEF Spec
-----------------------------------------------------------------------------
(* The data connection and the events about it                             *)

(* No loss of 4G waits to be handled.                                      *)
NoLoss(q) == \A i \in 1..Len(q) : q[i] # Down("PPP")

(* An address of 4G waits to be handled, and no loss behind it.            *)
Promise(q) == \E j \in 1..Len(q) :
                /\ q[j] = Up("PPP")
                /\ \A i \in 1..Len(q) : i > j => q[i] # Down("PPP")

(* A data connection that is up and that no hang-up failed to close is     *)
(* known to the manager or will be.                                        *)
Announced == modem = "up" /\ ~refused
             => Promise(queue) \/ (NoLoss(queue) /\ "PPP" \in has_ip)

(* A dial that runs has found the modem without data, or with a connection *)
(* that was left open; and while the event loop hangs up, the address is   *)
(* taken back.                                                             *)
LineInv == /\ dialing \in {"start", "cycle"} => modem \in {"off", "cmd"} \/ refused
           /\ modem = "left" => refused
           /\ loop # "free" => modem # "up"

ModemInv == queue \in Seq(Events) /\ LineInv /\ Announced

LEMMA EventsApart ==
  /\ \A l \in {"ETH", "WIFI", "PPP"} : Up(l) \in Events /\ Down(l) \in Events
  /\ Saved \in Events /\ ProvisionStart \in Events
  /\ \A l \in {"ETH", "WIFI", "PPP"} : Up(l) # Down("PPP")
  /\ \A l \in {"ETH", "WIFI"} : Down(l) # Down("PPP") /\ Down(l) # Up("PPP") /\ Up(l) # Up("PPP")
  /\ Saved # Down("PPP") /\ ProvisionStart # Down("PPP")
  /\ Saved # Up("PPP") /\ ProvisionStart # Up("PPP")
  /\ Down("PPP") # Up("PPP")
  BY DEF Events, Up, Down, Saved, ProvisionStart

(* Any other event behind the queue changes nothing of what it promises.   *)
LEMMA Behind ==
  ASSUME NEW q \in Seq(Events), NEW e \in Events
  PROVE  /\ Append(q, e) \in Seq(Events)
         /\ e # Down("PPP") => /\ Promise(q) => Promise(Append(q, e))
                               /\ NoLoss(q) => NoLoss(Append(q, e))
         /\ e = Up("PPP") => Promise(Append(q, e))
  <1> DEFINE r == Append(q, e)
  <1>1. /\ r \in Seq(Events) /\ Len(r) = Len(q) + 1 /\ Len(q) \in Nat /\ r[Len(r)] = e
        /\ \A i \in 1..Len(q) : r[i] = q[i]
    OBVIOUS
  <1> HIDE DEF r
  <1>2. ASSUME e # Down("PPP"), Promise(q) PROVE Promise(r)
    <2>1. PICK j \in 1..Len(q) : /\ q[j] = Up("PPP")
                                 /\ \A i \in 1..Len(q) : i > j => q[i] # Down("PPP")
      BY <1>2 DEF Promise
    <2>2. j \in 1..Len(r) /\ r[j] = Up("PPP")
      BY <1>1, <2>1
    <2>3. \A i \in 1..Len(r) : i > j => r[i] # Down("PPP")
      BY <1>1, <1>2, <2>1
    <2> QED BY <2>2, <2>3 DEF Promise
  <1>3. ASSUME e # Down("PPP"), NoLoss(q) PROVE NoLoss(r)
    BY <1>1, <1>3 DEF NoLoss
  <1>4. ASSUME e = Up("PPP") PROVE Promise(r)
    <2>1. Len(r) \in 1..Len(r) /\ r[Len(r)] = Up("PPP")
      BY <1>1, <1>4
    <2> QED BY <2>1 DEF Promise
  <1> QED BY <1>1, <1>2, <1>3, <1>4 DEF r

(* What is left when the first event is handled.                           *)
LEMMA Rest ==
  ASSUME NEW q \in Seq(Events), q # <<>>
  PROVE  /\ Tail(q) \in Seq(Events)
         /\ NoLoss(q) => NoLoss(Tail(q))
         /\ Promise(q) => IF Head(q) = Up("PPP") THEN Promise(Tail(q)) \/ NoLoss(Tail(q))
                                                ELSE Promise(Tail(q))
  <1> DEFINE r == Tail(q)
  <1>1. /\ r \in Seq(Events) /\ Len(r) = Len(q) - 1 /\ Len(q) \in Nat \ {0}
        /\ \A i \in 1..Len(r) : r[i] = q[i + 1]
        /\ Head(q) = q[1]
    BY HeadTailProperties, EmptySeq
  <1> HIDE DEF r
  <1>2. ASSUME NoLoss(q) PROVE NoLoss(r)
    <2>1. \A i \in 1..Len(r) : i + 1 \in 1..Len(q)
      BY <1>1
    <2> QED BY <1>1, <1>2, <2>1 DEF NoLoss
  <1>3. ASSUME Promise(q)
        PROVE  IF Head(q) = Up("PPP") THEN Promise(r) \/ NoLoss(r) ELSE Promise(r)
    <2>1. PICK j \in 1..Len(q) : /\ q[j] = Up("PPP")
                                 /\ \A i \in 1..Len(q) : i > j => q[i] # Down("PPP")
      BY <1>3 DEF Promise
    <2>2. CASE j = 1
      <3>1. \A i \in 1..Len(r) : i + 1 \in 1..Len(q) /\ i + 1 > j
        BY <1>1, <2>2
      <3>2. NoLoss(r)
        BY <1>1, <2>1, <3>1 DEF NoLoss
      <3> QED BY <1>1, <2>1, <2>2, <3>2
    <2>3. CASE j # 1
      <3>1. j - 1 \in 1..Len(r) /\ r[j - 1] = Up("PPP")
        BY <1>1, <2>1, <2>3
      <3>2. \A i \in 1..Len(r) : i > j - 1 => r[i] # Down("PPP")
        <4> SUFFICES ASSUME NEW i \in 1..Len(r), i > j - 1 PROVE r[i] # Down("PPP")
          OBVIOUS
        <4>1. i + 1 \in 1..Len(q) /\ i + 1 > j
          BY <1>1
        <4> QED BY <1>1, <2>1, <4>1
      <3>3. Promise(r)
        BY <3>1, <3>2 DEF Promise
      <3> QED BY <3>3
    <2> QED BY <2>2, <2>3
  <1> QED BY <1>1, <1>2, <1>3 DEF r

(* A step that leaves the data connection up posts at most a loss of WiFi. *)
LEMMA AfterLemma ==
  ASSUME NEW q \in Seq(Events), After(q)
  PROVE  /\ queue' \in Seq(Events)
         /\ modem' = "up" => /\ Promise(q) => Promise(queue')
                             /\ NoLoss(q) => NoLoss(queue')
                             /\ ~refused' => ~refused
  <1> DEFINE w == q \o (IF sta = "up" /\ sta' # "up" THEN <<Down("WIFI")>> ELSE <<>>)
  <1>1. w = q \/ w = Append(q, Down("WIFI"))
    OBVIOUS
  <1>2. /\ w \in Seq(Events)
        /\ Promise(q) => Promise(w)
        /\ NoLoss(q) => NoLoss(w)
    BY <1>1, Behind, EventsApart
  <1>3. PICK loss \in LossOfPpp : queue' = w \o loss
    BY DEF After
  <1> HIDE DEF w
  <1>4. loss \in {<<>>, <<Down("PPP")>>} /\ (modem' = "up" => loss = <<>>)
    BY <1>3 DEF LossOfPpp
  <1>5. queue' \in Seq(Events) /\ (loss = <<>> => queue' = w)
    <2>1. <<Down("PPP")>> \in Seq(Events)
      BY EventsApart
    <2>2. loss \in Seq(Events)
      BY <1>4, <2>1, EmptySeq
    <2> QED BY <1>2, <1>3, <2>2
  <1>6. modem' = "up" /\ ~refused' => ~refused
    BY DEF After
  <1> QED BY <1>2, <1>4, <1>5, <1>6

(* A step that takes no data connection up.                                *)
LEMMA AfterLine ==
  ASSUME LineInv, NEW q, After(q), UNCHANGED dialing \/ dialing' \in {"no", "hangup"},
         \/ UNCHANGED modem
         \/ modem' \in {"off", "cmd", "left"}
         \/ modem = "up" /\ modem' = "cut",
         UNCHANGED loop \/ loop' = "free" \/ modem' # "up"
  PROVE  LineInv'
  BY DEF LineInv, After

LEMMA InitModem == Init => ModemInv
  BY EmptySeq DEF Init, ModemInv, LineInv, Announced

(* A step that handles no event and leaves the 4G address alone, or the    *)
(* data connection down.                                                   *)
LEMMA KeepModem ==
  ASSUME ModemInv, After(queue), LineInv', UNCHANGED <<has_ip, modem>> \/ modem' # "up"
  PROVE  ModemInv'
  <1>1. queue' \in Seq(Events)
    BY AfterLemma DEF ModemInv
  <1>2. Announced'
    BY AfterLemma DEF ModemInv, Announced
  <1> QED BY <1>1, <1>2 DEF ModemInv

(* A step of which the modem knows nothing.                                *)
LEMMA SameModem ==
  ASSUME ModemInv, UNCHANGED <<has_ip, dialing, modem, refused, loop, queue>>
  PROVE  ModemInv'
  BY DEF ModemInv, LineInv, Announced

(* The end of a data connection leaves nothing to be announced.            *)
LEMMA OffModem ==
  ASSUME queue' \in Seq(Events), LineInv', modem' # "up"
  PROVE  ModemInv'
  BY DEF ModemInv, Announced

(* An event that is posted, other than a loss of 4G.                       *)
LEMMA PostModem ==
  ASSUME ModemInv, NEW e \in Events, e # Down("PPP"), queue' = Append(queue, e),
         UNCHANGED <<has_ip, dialing, modem, refused, loop>>
  PROVE  ModemInv'
  BY Behind DEF ModemInv, LineInv, Announced

LEMMA ServicesModem == ModemInv /\ Services => ModemInv'
  <1> SUFFICES ASSUME ModemInv, Services PROVE ModemInv'
    OBVIOUS
  <1>1. CASE EthGotIp
    BY <1>1, PostModem, EventsApart DEF EthGotIp, Told, manager, cellular, line
  <1>2. CASE EthLost
    BY <1>2, PostModem, EventsApart DEF EthLost, Told, manager, cellular, line
  <1>3. CASE WifiGotIp
    BY <1>3, PostModem, EventsApart DEF WifiGotIp, Told, manager, cellular, line
  <1>4. CASE WifiLost
    BY <1>4, PostModem, EventsApart DEF WifiLost, Told, manager, cellular, line
  <1>5. CASE PppGotIp
    <2>1. /\ modem \in {"wait", "left"} /\ modem' = "up" /\ loop = "free"
          /\ queue' = Append(queue, Up("PPP"))
          /\ UNCHANGED <<dialing, refused, loop>>
      BY <1>5 DEF PppGotIp, Told
    <2>2. LineInv'
      BY <2>1 DEF ModemInv, LineInv
    <2> QED BY <2>1, <2>2, Behind, EventsApart DEF ModemInv, Announced
  <1>6. CASE PppLost
    <2>1. modem' = "off" /\ queue' = Append(queue, Down("PPP"))
      BY <1>6 DEF PppLost, Told
    <2>2. queue' \in Seq(Events) /\ LineInv'
      BY <2>1, Behind, EventsApart DEF ModemInv, LineInv
    <2> QED BY <2>1, <2>2, OffModem
  <1>7. CASE CsBegin
    <2>1. UNCHANGED <<has_ip, dialing, loop>> /\ After(queue)
      BY <1>7 DEF CsBegin, manager
    <2>2. UNCHANGED modem \/ modem' \in {"cmd", "off", "left"}
      BY <1>7 DEF CsBegin, StopPpp
    <2> QED BY <2>1, <2>2, AfterLine, KeepModem DEF ModemInv
  <1>8. CASE CsEnd
    BY <1>8, SameModem DEF CsEnd, manager, line
  <1> QED BY <1>1, <1>2, <1>3, <1>4, <1>5, <1>6, <1>7, <1>8 DEF Services

LEMMA PortalModem == ModemInv /\ Portal => ModemInv'
  <1> SUFFICES ASSUME ModemInv, Portal PROVE ModemInv'
    OBVIOUS
  <1>1. CASE Button
    BY <1>1, PostModem, EventsApart DEF Button, manager, cellular, line
  <1>2. CASE save_post_handler
    BY <1>2, PostModem, EventsApart DEF save_post_handler, manager, cellular, line
  <1>3. CASE ProvisionBegin \/ ProvisionEnd
    <2>1. UNCHANGED <<has_ip, dialing, modem, loop>> /\ After(queue)
      BY <1>3 DEF ProvisionBegin, ProvisionEnd
    <2> QED BY <2>1, AfterLine, KeepModem DEF ModemInv
  <1> QED BY <1>1, <1>2, <1>3 DEF Portal

(* An event handled that is not about 4G, by a step that drops the address *)
(* of 4G only together with the data connection.                           *)
LEMMA OtherHandled ==
  ASSUME ModemInv, NEW e, Handle(e), e # Up("PPP"), LineInv',
         \/ modem' # "up"
         \/ UNCHANGED modem /\ ("PPP" \in has_ip => "PPP" \in has_ip')
  PROVE  ModemInv'
  <1>1. queue # <<>> /\ Head(queue) = e /\ After(Tail(queue)) /\ queue \in Seq(Events)
    BY DEF Handle, Handles, ModemInv
  <1>2. queue' \in Seq(Events)
    BY <1>1, Rest, AfterLemma
  <1>3. CASE modem' # "up"
    BY <1>2, <1>3, OffModem
  <1>4. CASE UNCHANGED modem /\ ("PPP" \in has_ip => "PPP" \in has_ip')
    <2>1. modem = "up" => /\ Promise(queue) => Promise(queue')
                          /\ NoLoss(queue) => NoLoss(queue')
                          /\ ~refused' => ~refused
      BY <1>1, <1>4, Rest, AfterLemma
    <2> QED BY <1>2, <1>4, <2>1 DEF ModemInv, Announced
  <1> QED BY <1>3, <1>4

(* The handler of an address hangs up, or leaves the line alone.           *)
LEMMA AddressModem == ModemInv /\ (OnEthUp \/ OnWifiUp \/ OnPppUp) => ModemInv'
  <1> SUFFICES ASSUME ModemInv, OnEthUp \/ OnWifiUp \/ OnPppUp PROVE ModemInv'
    OBVIOUS
  <1>1. CASE OnEthUp
    <2>1. Handle(Up("ETH")) /\ UNCHANGED dialing
      BY <1>1 DEF OnEthUp, Handle
    <2>2. \/ StopBegin /\ modem' # "up"
          \/ UNCHANGED <<modem, loop>> /\ "PPP" \notin has_ip
      BY <1>1 DEF OnEthUp, StopBegin
    <2>3. LineInv'
      BY <2>1, <2>2, AfterLine DEF ModemInv, Handle, StopBegin
    <2> QED BY <2>1, <2>2, <2>3, OtherHandled, EventsApart
  <1>2. CASE OnWifiUp
    <2>1. Handle(Up("WIFI")) /\ UNCHANGED dialing
      BY <1>2 DEF OnWifiUp, Handle
    <2>2. \/ StopBegin /\ modem' # "up"
          \/ UNCHANGED <<modem, loop>> /\ ("PPP" \in has_ip => "PPP" \in has_ip')
          \/ UNCHANGED <<modem, loop>> /\ modem # "up"
      BY <1>2 DEF OnWifiUp, StopBegin, PppIp
    <2>3. LineInv'
      BY <2>1, <2>2, AfterLine DEF ModemInv, Handle, StopBegin
    <2> QED BY <2>1, <2>2, <2>3, OtherHandled, EventsApart
  <1>3. CASE OnPppUp
    <2>1. /\ queue # <<>> /\ Head(queue) = Up("PPP") /\ After(Tail(queue))
          /\ queue \in Seq(Events) /\ UNCHANGED dialing
      BY <1>3 DEF OnPppUp, Handles, ModemInv
    <2>2. queue' \in Seq(Events) /\ Tail(queue) \in Seq(Events)
      BY <2>1, Rest, AfterLemma
    <2>3. \/ StopBegin /\ modem' # "up"
          \/ UNCHANGED <<modem, loop>> /\ "PPP" \in has_ip'
      BY <1>3 DEF OnPppUp, PppOnline, StopBegin
    <2>4. LineInv'
      BY <2>1, <2>3, AfterLine DEF ModemInv, StopBegin
    <2>5. CASE modem' # "up"
      BY <2>2, <2>4, <2>5, OffModem
    <2>6. CASE UNCHANGED modem /\ "PPP" \in has_ip'
      <3>1. modem = "up" /\ ~refused => Promise(Tail(queue)) \/ NoLoss(Tail(queue))
        BY <2>1, Rest DEF ModemInv, Announced
      <3>2. modem = "up" /\ ~refused' => Promise(queue') \/ NoLoss(queue')
        BY <2>1, <2>2, <2>6, <3>1, AfterLemma
      <3> QED BY <2>2, <2>4, <2>6, <3>2 DEF ModemInv, Announced
    <2> QED BY <2>3, <2>5, <2>6
  <1> QED BY <1>1, <1>2, <1>3

LEMMA HandlerModem == ModemInv /\ app_event_handler => ModemInv'
  <1> SUFFICES ASSUME ModemInv, app_event_handler PROVE ModemInv'
    OBVIOUS
  <1>1. CASE EthUpEnd \/ WifiUpEnd \/ PppUpEnd
    <2>1. After(queue) /\ UNCHANGED dialing /\ loop' = "free" /\ modem' \in {"cmd", "off", "left"}
      BY <1>1 DEF EthUpEnd, WifiUpEnd, PppUpEnd, StopPpp
    <2> QED BY <2>1, AfterLine, KeepModem DEF ModemInv
  <1>2. CASE OnEthDown
    <2>1. Handle(Down("ETH")) /\ UNCHANGED <<dialing, modem, loop>> /\ has_ip' = has_ip \ {"ETH"}
      BY <1>2 DEF OnEthDown, Handle
    <2>2. LineInv'
      BY <2>1, AfterLine DEF ModemInv, Handle
    <2> QED BY <2>1, <2>2, OtherHandled, EventsApart
  <1>3. CASE OnWifiDown
    <2>1. Handle(Down("WIFI")) /\ UNCHANGED <<dialing, modem, loop>> /\ has_ip' = has_ip \ {"WIFI"}
      BY <1>3 DEF OnWifiDown, Handle
    <2>2. LineInv'
      BY <2>1, AfterLine DEF ModemInv, Handle
    <2> QED BY <2>1, <2>2, OtherHandled, EventsApart
  <1>4. CASE OnPppDown
    <2>1. /\ queue # <<>> /\ Head(queue) = Down("PPP") /\ After(Tail(queue))
          /\ queue \in Seq(Events) /\ UNCHANGED <<dialing, modem, loop>>
      BY <1>4 DEF OnPppDown, Handles, ModemInv
    <2>2. queue' \in Seq(Events) /\ Tail(queue) \in Seq(Events)
      BY <2>1, Rest, AfterLemma
    <2>3. ~NoLoss(queue)
      <3>1. 1 \in 1..Len(queue) /\ queue[1] = Down("PPP")
        BY <2>1, EmptySeq, HeadTailProperties
      <3> QED BY <3>1 DEF NoLoss
    <2>4. modem = "up" /\ ~refused => Promise(Tail(queue))
      BY <2>1, <2>3, Rest, EventsApart DEF ModemInv, Announced
    <2>5. modem = "up" /\ ~refused' => Promise(queue')
      BY <2>1, <2>2, <2>4, AfterLemma
    <2>6. LineInv'
      BY <2>1, AfterLine DEF ModemInv
    <2> QED BY <2>1, <2>2, <2>5, <2>6 DEF ModemInv, Announced
  <1>5. CASE OnConfigSaved
    <2>1. Handle(Saved) /\ UNCHANGED <<dialing, modem, loop>> /\ has_ip' = has_ip \ {"WIFI"}
      BY <1>5 DEF OnConfigSaved, Handle
    <2>2. LineInv'
      BY <2>1, AfterLine DEF ModemInv, Handle
    <2> QED BY <2>1, <2>2, OtherHandled, EventsApart
  <1>6. CASE OnProvisionStart
    <2>1. Handle(ProvisionStart) /\ UNCHANGED <<dialing, modem, loop, has_ip>>
      BY <1>6 DEF OnProvisionStart, Handle, manager
    <2>2. LineInv'
      BY <2>1, AfterLine DEF ModemInv, Handle
    <2> QED BY <2>1, <2>2, OtherHandled, EventsApart
  <1> QED BY <1>1, <1>2, <1>3, <1>4, <1>5, <1>6, AddressModem DEF app_event_handler

LEMMA TaskModem == ModemInv /\ net_manager_task => ModemInv'
  <1> SUFFICES ASSUME ModemInv, net_manager_task PROVE ModemInv'
    OBVIOUS
  <1>1. CASE WifiRetry \/ WifiProbe
    <2>1. After(queue) /\ UNCHANGED <<has_ip, modem, dialing, loop>>
      BY <1>1 DEF WifiRetry, WifiProbe, manager
    <2> QED BY <2>1, AfterLine, KeepModem DEF ModemInv
  <1>2. CASE CsDone
    <2>1. After(queue) /\ UNCHANGED loop
      BY <1>2 DEF CsDone
    <2>2. \/ StopBegin /\ modem' # "up" /\ dialing' = "hangup"
          \/ UNCHANGED <<has_ip, modem, dialing>>
      BY <1>2 DEF CsDone, StopBegin, manager
    <2>3. LineInv'
      BY <2>1, <2>2, AfterLine DEF ModemInv, StopBegin
    <2> QED BY <2>1, <2>2, <2>3, KeepModem
  <1>3. CASE CsHangupEnd
    <2>1. After(queue) /\ UNCHANGED loop /\ dialing' = "no" /\ modem' \in {"cmd", "off", "left"}
      BY <1>3 DEF CsHangupEnd, StopPpp
    <2> QED BY <2>1, AfterLine, KeepModem DEF ModemInv
  <1>4. CASE PppRetry \/ LostTooLong
    <2>1. /\ UNCHANGED <<has_ip, line, queue, loop>>
          /\ UNCHANGED dialing \/ modem \in {"off", "left"}
      BY <1>4 DEF PppRetry, LostTooLong, start_ppp_connect
    <2> QED BY <2>1 DEF ModemInv, LineInv, Announced, line
  <1>5. CASE RecoverUplink
    <2>1. After(queue) /\ UNCHANGED <<dialing, modem, loop>>
          /\ ("PPP" \in has_ip => "PPP" \in has_ip')
      BY <1>5 DEF RecoverUplink
    <2>2. queue' \in Seq(Events)
      BY <2>1, AfterLemma DEF ModemInv
    <2>3. Announced'
      BY <2>1, AfterLemma DEF ModemInv, Announced
    <2>4. LineInv'
      BY <2>1, AfterLine DEF ModemInv
    <2> QED BY <2>2, <2>3, <2>4 DEF ModemInv
  <1>6. CASE PowerCycle
    <2>1. After(queue) /\ modem' = "off"
      BY <1>6 DEF PowerCycle
    <2>2. LineInv'
      BY <2>1 DEF LineInv
    <2> QED BY <2>1, <2>2, KeepModem
  <1>7. CASE ArmProbe
    BY <1>7, SameModem DEF ArmProbe, manager, cellular, line
  <1>8. CASE DialEnd
    <2>1. /\ After(queue) /\ dialing \in {"start", "cycle"} /\ dialing' = "no" /\ UNCHANGED loop
          /\ modem' \in {"wait", "off", modem}
      BY <1>8 DEF DialEnd, Connected, NotConnected
    <2>2. modem' = "up" => refused /\ modem = "up"
      BY <2>1 DEF ModemInv, LineInv
    <2>3. LineInv'
      BY <2>1 DEF ModemInv, LineInv, After
    <2>4. modem' = "up" => refused'
      BY <2>1, <2>2 DEF After
    <2>5. queue' \in Seq(Events)
      BY <2>1, AfterLemma DEF ModemInv
    <2> QED BY <2>3, <2>4, <2>5 DEF ModemInv, Announced
  <1> QED BY <1>1, <1>2, <1>3, <1>4, <1>5, <1>6, <1>7, <1>8 DEF net_manager_task

LEMMA ModemLemma == ModemInv /\ [Next]_vars => ModemInv'
  <1>1. ModemInv /\ UNCHANGED vars => ModemInv'
    BY SameModem DEF vars, manager, cellular, line
  <1>2. ModemInv /\ Reboot => ModemInv'
    <2> SUFFICES ASSUME ModemInv, Reboot PROVE ModemInv'
      OBVIOUS
    <2>1. modem' = "off" /\ queue' = <<>> /\ dialing' = "no" /\ loop' = "free"
      BY DEF Reboot, Restarted
    <2> QED BY <2>1, EmptySeq, OffModem DEF LineInv
  <1> QED BY <1>1, <1>2, ServicesModem, PortalModem, HandlerModem, TaskModem DEF Next

(* A data connection beside Ethernet or WiFi has its address still in the  *)
(* queue, whose handler hangs up, or a hang-up has failed to close it: no  *)
(* order of dials, losses, sessions, hang-ups and better links leaves 4G   *)
(* open unnoticed in any other way (net_manager.c:1403-1416).              *)
THEOREM PppNotBesideCorrect == Spec => []PppNotBeside
  <1>1. UplinkInv /\ ModemInv => PppNotBeside
    <2> SUFFICES ASSUME UplinkInv, ModemInv, modem = "up", active \in {"ETH", "WIFI"}, ~refused
                 PROVE  Contains(queue, Up("PPP"))
      BY DEF PppNotBeside
    <2>1. Promise(queue)
      BY DEF UplinkInv, ModemInv, LineInv, Announced
    <2> QED BY <2>1 DEF Promise, Contains
  <1> QED BY <1>1, InitUplink, UplinkLemma, InitModem, ModemLemma, PTL DEF Spec

-----------------------------------------------------------------------------
(* Types *)

ManagerTypes == /\ mode \in Modes /\ active \in Uplinks
                /\ net_ready \in BOOLEAN /\ wifi_config_ready \in BOOLEAN
                /\ armed \subseteq Timers

LinkTypes == /\ eth \in BOOLEAN /\ sta \in {"stopped", "idle", "trying", "up"}
             /\ reconnect \in BOOLEAN /\ started \in BOOLEAN

LineTypes == /\ modem \in {"off", "cmd", "wait", "up", "cut", "left"} /\ refused \in BOOLEAN
             /\ dialing \in {"no", "start", "cycle", "hangup"}
             /\ loop \in {"free", "ETH", "WIFI", "PPP"}
             /\ cs \in {"none", "plain", "suspended"} /\ restart_pending \in BOOLEAN

PortalTypes == /\ provision_task \in {"no", "asked", "stopping"}
               /\ portal \in BOOLEAN /\ provisioning \in BOOLEAN

TypesInv == ManagerTypes /\ LinkTypes /\ LineTypes /\ PortalTypes

LEMMA InitTypes == Init => TypesInv
  BY DEF Init, Loaded, reset_runtime_state, net_manager_start, TypesInv, ManagerTypes,
     LinkTypes, LineTypes, PortalTypes, Modes, Uplinks, Timers

LEMMA ServicesManagerTypes == TypesInv /\ Services => ManagerTypes'
  <1> SUFFICES ASSUME TypesInv, Services PROVE ManagerTypes'
    OBVIOUS
  <1> USE DEF TypesInv, ManagerTypes, start_wifi_connect, start_ppp_connect, Connected, NotConnected, WifiOnline,
              PppOnline, manager, Modes, Uplinks, Timers
  <1>1. CASE EthGotIp
    BY <1>1 DEF EthGotIp
  <1>2. CASE EthLost
    BY <1>2 DEF EthLost
  <1>3. CASE WifiGotIp
    BY <1>3 DEF WifiGotIp
  <1>4. CASE WifiLost
    BY <1>4 DEF WifiLost
  <1>5. CASE PppGotIp
    BY <1>5 DEF PppGotIp
  <1>6. CASE PppLost
    BY <1>6 DEF PppLost
  <1>7. CASE CsBegin
    BY <1>7 DEF CsBegin
  <1>8. CASE CsEnd
    BY <1>8 DEF CsEnd
  <1> QED BY <1>1, <1>2, <1>3, <1>4, <1>5, <1>6, <1>7, <1>8 DEF Services

LEMMA PortalManagerTypes == TypesInv /\ Portal => ManagerTypes'
  <1> SUFFICES ASSUME TypesInv, Portal PROVE ManagerTypes'
    OBVIOUS
  <1> USE DEF TypesInv, ManagerTypes, start_wifi_connect, start_ppp_connect, Connected, NotConnected, WifiOnline,
              PppOnline, manager, Modes, Uplinks, Timers
  <1>1. CASE Button
    BY <1>1 DEF Button
  <1>2. CASE save_post_handler
    BY <1>2 DEF save_post_handler
  <1>3. CASE ProvisionBegin
    BY <1>3 DEF ProvisionBegin
  <1>4. CASE ProvisionEnd
    BY <1>4 DEF ProvisionEnd
  <1> QED BY <1>1, <1>2, <1>3, <1>4 DEF Portal

LEMMA HandlerManagerTypes == TypesInv /\ app_event_handler => ManagerTypes'
  <1> SUFFICES ASSUME TypesInv, app_event_handler PROVE ManagerTypes'
    OBVIOUS
  <1> USE DEF TypesInv, ManagerTypes, start_wifi_connect, start_ppp_connect, Connected, NotConnected, WifiOnline,
              PppOnline, manager, Modes, Uplinks, Timers
  <1>1. CASE OnEthUp
    BY <1>1 DEF OnEthUp
  <1>2. CASE OnWifiUp
    BY <1>2 DEF OnWifiUp
  <1>3. CASE OnPppUp
    BY <1>3 DEF OnPppUp
  <1>4. CASE EthUpEnd
    BY <1>4 DEF EthUpEnd
  <1>5. CASE WifiUpEnd
    BY <1>5 DEF WifiUpEnd
  <1>6. CASE PppUpEnd
    BY <1>6 DEF PppUpEnd
  <1>7. CASE OnEthDown
    BY <1>7 DEF OnEthDown
  <1>8. CASE OnWifiDown
    BY <1>8 DEF OnWifiDown
  <1>9. CASE OnPppDown
    BY <1>9 DEF OnPppDown
  <1>10. CASE OnConfigSaved
    BY <1>10 DEF OnConfigSaved
  <1>11. CASE OnProvisionStart
    BY <1>11 DEF OnProvisionStart
  <1> QED BY <1>1, <1>2, <1>3, <1>4, <1>5, <1>6, <1>7, <1>8, <1>9, <1>10, <1>11 DEF app_event_handler

LEMMA TaskManagerTypes == TypesInv /\ net_manager_task => ManagerTypes'
  <1> SUFFICES ASSUME TypesInv, net_manager_task PROVE ManagerTypes'
    OBVIOUS
  <1> USE DEF TypesInv, ManagerTypes, start_wifi_connect, start_ppp_connect, Connected, NotConnected, WifiOnline,
              PppOnline, manager, Modes, Uplinks, Timers
  <1>1. CASE WifiRetry
    BY <1>1 DEF WifiRetry
  <1>2. CASE WifiProbe
    BY <1>2 DEF WifiProbe
  <1>3. CASE CsDone
    BY <1>3 DEF CsDone
  <1>4. CASE CsHangupEnd
    BY <1>4 DEF CsHangupEnd
  <1>5. CASE PppRetry
    BY <1>5 DEF PppRetry
  <1>6. CASE RecoverUplink
    BY <1>6 DEF RecoverUplink
  <1>7. CASE PowerCycle
    BY <1>7 DEF PowerCycle
  <1>8. CASE LostTooLong
    BY <1>8 DEF LostTooLong
  <1>9. CASE ArmProbe
    BY <1>9 DEF ArmProbe
  <1>10. CASE DialEnd
    BY <1>10 DEF DialEnd
  <1> QED BY <1>1, <1>2, <1>3, <1>4, <1>5, <1>6, <1>7, <1>8, <1>9, <1>10 DEF net_manager_task

LEMMA ServicesLinkTypes == TypesInv /\ Services => LinkTypes'
  <1> SUFFICES ASSUME TypesInv, Services PROVE LinkTypes'
    OBVIOUS
  <1> USE DEF TypesInv, LinkTypes, start_wifi_connect, start_wifi_probe_from_4g, StartFails,
              wifi_service_start_sta, wifi_service_stop_sta, provision_service_stop,
              provision_service_restart, wifi
  <1>1. CASE EthGotIp
    BY <1>1 DEF EthGotIp
  <1>2. CASE EthLost
    BY <1>2 DEF EthLost
  <1>3. CASE WifiGotIp
    BY <1>3 DEF WifiGotIp
  <1>4. CASE WifiLost
    BY <1>4 DEF WifiLost
  <1>5. CASE PppGotIp
    BY <1>5 DEF PppGotIp
  <1>6. CASE PppLost
    BY <1>6 DEF PppLost
  <1>7. CASE CsBegin
    BY <1>7 DEF CsBegin
  <1>8. CASE CsEnd
    BY <1>8 DEF CsEnd
  <1> QED BY <1>1, <1>2, <1>3, <1>4, <1>5, <1>6, <1>7, <1>8 DEF Services

LEMMA PortalLinkTypes == TypesInv /\ Portal => LinkTypes'
  <1> SUFFICES ASSUME TypesInv, Portal PROVE LinkTypes'
    OBVIOUS
  <1> USE DEF TypesInv, LinkTypes, start_wifi_connect, start_wifi_probe_from_4g, StartFails,
              wifi_service_start_sta, wifi_service_stop_sta, provision_service_stop,
              provision_service_restart, wifi
  <1>1. CASE Button
    BY <1>1 DEF Button
  <1>2. CASE save_post_handler
    BY <1>2 DEF save_post_handler
  <1>3. CASE ProvisionBegin
    BY <1>3 DEF ProvisionBegin
  <1>4. CASE ProvisionEnd
    BY <1>4 DEF ProvisionEnd
  <1> QED BY <1>1, <1>2, <1>3, <1>4 DEF Portal

LEMMA HandlerLinkTypes == TypesInv /\ app_event_handler => LinkTypes'
  <1> SUFFICES ASSUME TypesInv, app_event_handler PROVE LinkTypes'
    OBVIOUS
  <1> USE DEF TypesInv, LinkTypes, start_wifi_connect, start_wifi_probe_from_4g, StartFails,
              wifi_service_start_sta, wifi_service_stop_sta, provision_service_stop,
              provision_service_restart, wifi
  <1>1. CASE OnEthUp
    BY <1>1 DEF OnEthUp
  <1>2. CASE OnWifiUp
    BY <1>2 DEF OnWifiUp
  <1>3. CASE OnPppUp
    BY <1>3 DEF OnPppUp
  <1>4. CASE EthUpEnd
    BY <1>4 DEF EthUpEnd
  <1>5. CASE WifiUpEnd
    BY <1>5 DEF WifiUpEnd
  <1>6. CASE PppUpEnd
    BY <1>6 DEF PppUpEnd
  <1>7. CASE OnEthDown
    BY <1>7 DEF OnEthDown
  <1>8. CASE OnWifiDown
    BY <1>8 DEF OnWifiDown
  <1>9. CASE OnPppDown
    BY <1>9 DEF OnPppDown
  <1>10. CASE OnConfigSaved
    BY <1>10 DEF OnConfigSaved
  <1>11. CASE OnProvisionStart
    BY <1>11 DEF OnProvisionStart
  <1> QED BY <1>1, <1>2, <1>3, <1>4, <1>5, <1>6, <1>7, <1>8, <1>9, <1>10, <1>11 DEF app_event_handler

LEMMA TaskLinkTypes == TypesInv /\ net_manager_task => LinkTypes'
  <1> SUFFICES ASSUME TypesInv, net_manager_task PROVE LinkTypes'
    OBVIOUS
  <1> USE DEF TypesInv, LinkTypes, start_wifi_connect, start_wifi_probe_from_4g, StartFails,
              wifi_service_start_sta, wifi_service_stop_sta, provision_service_stop,
              provision_service_restart, wifi
  <1>1. CASE WifiRetry
    BY <1>1 DEF WifiRetry
  <1>2. CASE WifiProbe
    BY <1>2 DEF WifiProbe
  <1>3. CASE CsDone
    BY <1>3 DEF CsDone
  <1>4. CASE CsHangupEnd
    BY <1>4 DEF CsHangupEnd
  <1>5. CASE PppRetry
    BY <1>5 DEF PppRetry
  <1>6. CASE RecoverUplink
    BY <1>6 DEF RecoverUplink
  <1>7. CASE PowerCycle
    BY <1>7 DEF PowerCycle
  <1>8. CASE LostTooLong
    BY <1>8 DEF LostTooLong
  <1>9. CASE ArmProbe
    BY <1>9 DEF ArmProbe
  <1>10. CASE DialEnd
    BY <1>10 DEF DialEnd
  <1> QED BY <1>1, <1>2, <1>3, <1>4, <1>5, <1>6, <1>7, <1>8, <1>9, <1>10 DEF net_manager_task

LEMMA ServicesLineTypes == TypesInv /\ Services => LineTypes'
  <1> SUFFICES ASSUME TypesInv, Services PROVE LineTypes'
    OBVIOUS
  <1> USE DEF TypesInv, LineTypes, StopBegin, StopPpp, start_ppp_connect, Connected, NotConnected,
              WifiOnline, PppOnline, After, cellular, line
  <1>1. CASE EthGotIp
    BY <1>1 DEF EthGotIp
  <1>2. CASE EthLost
    BY <1>2 DEF EthLost
  <1>3. CASE WifiGotIp
    BY <1>3 DEF WifiGotIp
  <1>4. CASE WifiLost
    BY <1>4 DEF WifiLost
  <1>5. CASE PppGotIp
    BY <1>5 DEF PppGotIp
  <1>6. CASE PppLost
    BY <1>6 DEF PppLost
  <1>7. CASE CsBegin
    BY <1>7 DEF CsBegin
  <1>8. CASE CsEnd
    BY <1>8 DEF CsEnd
  <1> QED BY <1>1, <1>2, <1>3, <1>4, <1>5, <1>6, <1>7, <1>8 DEF Services

LEMMA PortalLineTypes == TypesInv /\ Portal => LineTypes'
  <1> SUFFICES ASSUME TypesInv, Portal PROVE LineTypes'
    OBVIOUS
  <1> USE DEF TypesInv, LineTypes, StopBegin, StopPpp, start_ppp_connect, Connected, NotConnected,
              WifiOnline, PppOnline, After, cellular, line
  <1>1. CASE Button
    BY <1>1 DEF Button
  <1>2. CASE save_post_handler
    BY <1>2 DEF save_post_handler
  <1>3. CASE ProvisionBegin
    BY <1>3 DEF ProvisionBegin
  <1>4. CASE ProvisionEnd
    BY <1>4 DEF ProvisionEnd
  <1> QED BY <1>1, <1>2, <1>3, <1>4 DEF Portal

LEMMA HandlerLineTypes == TypesInv /\ app_event_handler => LineTypes'
  <1> SUFFICES ASSUME TypesInv, app_event_handler PROVE LineTypes'
    OBVIOUS
  <1> USE DEF TypesInv, LineTypes, StopBegin, StopPpp, start_ppp_connect, Connected, NotConnected,
              WifiOnline, PppOnline, After, cellular, line
  <1>1. CASE OnEthUp
    BY <1>1 DEF OnEthUp
  <1>2. CASE OnWifiUp
    BY <1>2 DEF OnWifiUp
  <1>3. CASE OnPppUp
    BY <1>3 DEF OnPppUp
  <1>4. CASE EthUpEnd
    BY <1>4 DEF EthUpEnd
  <1>5. CASE WifiUpEnd
    BY <1>5 DEF WifiUpEnd
  <1>6. CASE PppUpEnd
    BY <1>6 DEF PppUpEnd
  <1>7. CASE OnEthDown
    BY <1>7 DEF OnEthDown
  <1>8. CASE OnWifiDown
    BY <1>8 DEF OnWifiDown
  <1>9. CASE OnPppDown
    BY <1>9 DEF OnPppDown
  <1>10. CASE OnConfigSaved
    BY <1>10 DEF OnConfigSaved
  <1>11. CASE OnProvisionStart
    BY <1>11 DEF OnProvisionStart
  <1> QED BY <1>1, <1>2, <1>3, <1>4, <1>5, <1>6, <1>7, <1>8, <1>9, <1>10, <1>11 DEF app_event_handler

LEMMA TaskLineTypes == TypesInv /\ net_manager_task => LineTypes'
  <1> SUFFICES ASSUME TypesInv, net_manager_task PROVE LineTypes'
    OBVIOUS
  <1> USE DEF TypesInv, LineTypes, StopBegin, StopPpp, start_ppp_connect, Connected, NotConnected,
              WifiOnline, PppOnline, After, cellular, line
  <1>1. CASE WifiRetry
    BY <1>1 DEF WifiRetry
  <1>2. CASE WifiProbe
    BY <1>2 DEF WifiProbe
  <1>3. CASE CsDone
    BY <1>3 DEF CsDone
  <1>4. CASE CsHangupEnd
    BY <1>4 DEF CsHangupEnd
  <1>5. CASE PppRetry
    BY <1>5 DEF PppRetry
  <1>6. CASE RecoverUplink
    BY <1>6 DEF RecoverUplink
  <1>7. CASE PowerCycle
    BY <1>7 DEF PowerCycle
  <1>8. CASE LostTooLong
    BY <1>8 DEF LostTooLong
  <1>9. CASE ArmProbe
    BY <1>9 DEF ArmProbe
  <1>10. CASE DialEnd
    BY <1>10 DEF DialEnd
  <1> QED BY <1>1, <1>2, <1>3, <1>4, <1>5, <1>6, <1>7, <1>8, <1>9, <1>10 DEF net_manager_task

LEMMA ServicesPortalTypes == TypesInv /\ Services => PortalTypes'
  <1> SUFFICES ASSUME TypesInv, Services PROVE PortalTypes'
    OBVIOUS
  <1> USE DEF TypesInv, PortalTypes, start_wifi_connect, start_wifi_probe_from_4g, StartFails,
              wifi_service_start_sta, provision_service_stop,
              provision_service_restart, request_enter_provision_mode, provision
  <1>1. CASE EthGotIp
    BY <1>1 DEF EthGotIp
  <1>2. CASE EthLost
    BY <1>2 DEF EthLost
  <1>3. CASE WifiGotIp
    BY <1>3 DEF WifiGotIp
  <1>4. CASE WifiLost
    BY <1>4 DEF WifiLost
  <1>5. CASE PppGotIp
    BY <1>5 DEF PppGotIp
  <1>6. CASE PppLost
    BY <1>6 DEF PppLost
  <1>7. CASE CsBegin
    BY <1>7 DEF CsBegin
  <1>8. CASE CsEnd
    BY <1>8 DEF CsEnd
  <1> QED BY <1>1, <1>2, <1>3, <1>4, <1>5, <1>6, <1>7, <1>8 DEF Services

LEMMA PortalPortalTypes == TypesInv /\ Portal => PortalTypes'
  <1> SUFFICES ASSUME TypesInv, Portal PROVE PortalTypes'
    OBVIOUS
  <1> USE DEF TypesInv, PortalTypes, start_wifi_connect, start_wifi_probe_from_4g, StartFails,
              wifi_service_start_sta, provision_service_stop,
              provision_service_restart, request_enter_provision_mode, provision
  <1>1. CASE Button
    BY <1>1 DEF Button
  <1>2. CASE save_post_handler
    BY <1>2 DEF save_post_handler
  <1>3. CASE ProvisionBegin
    BY <1>3 DEF ProvisionBegin
  <1>4. CASE ProvisionEnd
    BY <1>4 DEF ProvisionEnd
  <1> QED BY <1>1, <1>2, <1>3, <1>4 DEF Portal

LEMMA HandlerPortalTypes == TypesInv /\ app_event_handler => PortalTypes'
  <1> SUFFICES ASSUME TypesInv, app_event_handler PROVE PortalTypes'
    OBVIOUS
  <1> USE DEF TypesInv, PortalTypes, start_wifi_connect, start_wifi_probe_from_4g, StartFails,
              wifi_service_start_sta, provision_service_stop,
              provision_service_restart, request_enter_provision_mode, provision
  <1>1. CASE OnEthUp
    BY <1>1 DEF OnEthUp
  <1>2. CASE OnWifiUp
    BY <1>2 DEF OnWifiUp
  <1>3. CASE OnPppUp
    BY <1>3 DEF OnPppUp
  <1>4. CASE EthUpEnd
    BY <1>4 DEF EthUpEnd
  <1>5. CASE WifiUpEnd
    BY <1>5 DEF WifiUpEnd
  <1>6. CASE PppUpEnd
    BY <1>6 DEF PppUpEnd
  <1>7. CASE OnEthDown
    BY <1>7 DEF OnEthDown
  <1>8. CASE OnWifiDown
    BY <1>8 DEF OnWifiDown
  <1>9. CASE OnPppDown
    BY <1>9 DEF OnPppDown
  <1>10. CASE OnConfigSaved
    BY <1>10 DEF OnConfigSaved
  <1>11. CASE OnProvisionStart
    BY <1>11 DEF OnProvisionStart
  <1> QED BY <1>1, <1>2, <1>3, <1>4, <1>5, <1>6, <1>7, <1>8, <1>9, <1>10, <1>11 DEF app_event_handler

LEMMA TaskPortalTypes == TypesInv /\ net_manager_task => PortalTypes'
  <1> SUFFICES ASSUME TypesInv, net_manager_task PROVE PortalTypes'
    OBVIOUS
  <1> USE DEF TypesInv, PortalTypes, start_wifi_connect, start_wifi_probe_from_4g, StartFails,
              wifi_service_start_sta, provision_service_stop,
              provision_service_restart, request_enter_provision_mode, provision
  <1>1. CASE WifiRetry
    BY <1>1 DEF WifiRetry
  <1>2. CASE WifiProbe
    BY <1>2 DEF WifiProbe
  <1>3. CASE CsDone
    BY <1>3 DEF CsDone
  <1>4. CASE CsHangupEnd
    BY <1>4 DEF CsHangupEnd
  <1>5. CASE PppRetry
    BY <1>5 DEF PppRetry
  <1>6. CASE RecoverUplink
    BY <1>6 DEF RecoverUplink
  <1>7. CASE PowerCycle
    BY <1>7 DEF PowerCycle
  <1>8. CASE LostTooLong
    BY <1>8 DEF LostTooLong
  <1>9. CASE ArmProbe
    BY <1>9 DEF ArmProbe
  <1>10. CASE DialEnd
    BY <1>10 DEF DialEnd
  <1> QED BY <1>1, <1>2, <1>3, <1>4, <1>5, <1>6, <1>7, <1>8, <1>9, <1>10 DEF net_manager_task

LEMMA TypesLemma == TypesInv /\ [Next]_vars => TypesInv'
  <1>1. TypesInv /\ UNCHANGED vars => TypesInv'
    BY DEF vars, manager, wifi, cellular, line, provision, TypesInv, ManagerTypes, LinkTypes,
       LineTypes, PortalTypes
  <1>2. TypesInv /\ Reboot => TypesInv'
    BY DEF Reboot, Restarted, Loaded, TypesInv, ManagerTypes, LinkTypes, LineTypes,
       PortalTypes, Modes, Uplinks, Timers
  <1> QED BY <1>1, <1>2, ServicesManagerTypes, ServicesLinkTypes, ServicesLineTypes,
             ServicesPortalTypes, PortalManagerTypes, PortalLinkTypes, PortalLineTypes,
             PortalPortalTypes, HandlerManagerTypes, HandlerLinkTypes, HandlerLineTypes,
             HandlerPortalTypes, TaskManagerTypes, TaskLinkTypes, TaskLineTypes,
             TaskPortalTypes DEF Next, TypesInv

-----------------------------------------------------------------------------
(* The length of the queue                                                 *)

One(owed) == IF owed THEN 1 ELSE 0

(* A hang-up that has begun, or that will follow a session, may leave a    *)
(* connection open whose loss is posted later; a link that has its address *)
(* may still post its loss.  Neither waits for room.                       *)
Hangups == One(loop # "free") + One(cs = "suspended" \/ restart_pending) + One(dialing = "hangup")
Links4G == One(modem \in {"up", "cut", "left"} \/ refused)
LinksWifi == One(sta = "up")
Load == LinksWifi + Links4G + Hangups

BoundInv == queue \in Seq(Events) /\ Len(queue) + Load <= QueueLen + 5

LEMMA LoadRange ==
  /\ LinksWifi \in 0..1 /\ Links4G \in 0..1 /\ Hangups \in 0..3 /\ Load \in 0..5
  /\ LinksWifi' \in 0..1 /\ Links4G' \in 0..1 /\ Hangups' \in 0..3 /\ Load' \in 0..5
  BY DEF LinksWifi, Links4G, Hangups, Load, One

LEMMA Short ==
  ASSUME queue' \in Seq(Events), Len(queue') <= QueueLen
  PROVE  BoundInv'
  <1>1. Len(queue') \in Nat
    OBVIOUS
  <1> QED BY <1>1, LoadRange, QueueLenAssumption DEF BoundInv

LEMMA InitBound == Init => BoundInv
  <1>1. Init => queue = <<>>
    BY DEF Init
  <1>2. Len(<<>>) = 0 /\ <<>> \in Seq(Events)
    BY EmptySeq
  <1> QED BY <1>1, <1>2, LoadRange, QueueLenAssumption DEF BoundInv

(* An event posted by a service that found room.                           *)
LEMMA PostBound ==
  ASSUME BoundInv, Room, NEW e \in Events, queue' = Append(queue, e)
  PROVE  BoundInv'
  <1>1. queue' \in Seq(Events) /\ Len(queue') = Len(queue) + 1 /\ Len(queue) \in Nat
    BY DEF BoundInv
  <1> QED BY <1>1, Short, QueueLenAssumption DEF Room

(* What a step posts by taking links down.                                 *)
NewLeft == modem' = "left" /\ modem # "left"

LEMMA AfterLength ==
  ASSUME NEW q \in Seq(Events), After(q),
         modem' \in {"up", "cut"} => modem \in {"up", "cut"}
  PROVE  /\ queue' \in Seq(Events) /\ Len(queue') \in Nat
         /\ Len(queue') <= Len(q) + One(sta = "up" /\ sta' # "up")
                                 + Links4G - Links4G' + One(NewLeft)
  <1> DEFINE w == IF sta = "up" /\ sta' # "up" THEN <<Down("WIFI")>> ELSE <<>>
  <1>1. w \in Seq(Events) /\ Len(w) = One(sta = "up" /\ sta' # "up")
    <2>1. <<Down("WIFI")>> \in Seq(Events) /\ Len(<<Down("WIFI")>>) = 1
      BY EventsApart
    <2>2. <<>> \in Seq(Events) /\ Len(<<>>) = 0
      BY EmptySeq
    <2> QED BY <2>1, <2>2 DEF One
  <1>2. PICK loss \in LossOfPpp : queue' = (q \o w) \o loss
    BY DEF After
  <1> HIDE DEF w
  <1>3. loss \in Seq(Events) /\ Len(loss) \in Nat
        /\ Len(loss) <= Links4G - Links4G' + One(NewLeft)
    <2>1. <<Down("PPP")>> \in Seq(Events) /\ Len(<<Down("PPP")>>) = 1
      BY EventsApart
    <2>2. <<>> \in Seq(Events) /\ Len(<<>>) = 0
      BY EmptySeq
    <2>3. loss = <<>> \/ loss = <<Down("PPP")>>
      BY <1>2 DEF LossOfPpp
    <2>4. modem' \in {"off", "cmd"} => ~refused'
      BY DEF After
    <2>5. loss = <<Down("PPP")>> /\ <<>> # <<Down("PPP")>>
          => modem' \in {"off", "cmd"} /\ (modem \in {"up", "cut"} \/ refused)
      BY <1>2 DEF LossOfPpp
    <2>6. <<>> # <<Down("PPP")>>
      BY <2>1, <2>2
    <2>7. modem' \in {"off", "cmd"} => Links4G' = 0
      BY <2>4 DEF Links4G, One
    <2>8. loss = <<Down("PPP")>> => Links4G = 1 /\ Links4G' = 0
      BY <2>5, <2>6, <2>7 DEF Links4G, One
    <2>9. Links4G' <= Links4G + One(NewLeft)
      <3>1. refused' => refused \/ modem' = "left"
        BY DEF After
      <3> QED BY <3>1 DEF Links4G, One, NewLeft
    <2>10. One(NewLeft) \in 0..1
      BY DEF One
    <2>11. CASE loss = <<>>
      BY <2>2, <2>9, <2>10, <2>11, LoadRange
    <2>12. CASE loss = <<Down("PPP")>>
      BY <2>1, <2>8, <2>10, <2>12
    <2> QED BY <2>3, <2>11, <2>12
  <1>4. q \o w \in Seq(Events) /\ Len(q \o w) = Len(q) + Len(w)
    BY <1>1, ConcatProperties
  <1>5. queue' \in Seq(Events) /\ Len(queue') = Len(q) + Len(w) + Len(loss)
    BY <1>2, <1>3, <1>4, ConcatProperties
  <1>6. One(NewLeft) \in 0..1 /\ Len(q) \in Nat /\ Len(w) \in Nat
    BY <1>1 DEF One
  <1> QED BY <1>1, <1>3, <1>5, <1>6, LoadRange

LEMMA Reckoning ==
  ASSUME NEW a \in Nat, NEW b \in Nat, NEW c \in Nat, NEW n \in 0..1,
         NEW w \in 0..1, NEW w1 \in 0..1, NEW l \in 0..1, NEW l1 \in 0..1,
         NEW h \in 0..3, NEW h1 \in 0..3,
         b + h1 + n <= a + h,
         c <= b + (w - w1) + l - l1 + n,
         a + (w + l + h) <= QueueLen + 5
  PROVE  c + (w1 + l1 + h1) <= QueueLen + 5
  BY QueueLenAssumption

(* A step that gives no link its address posts no more losses than it      *)
(* takes links down, and a hang-up that fails has been reckoned with.      *)
LEMMA AfterBound ==
  ASSUME BoundInv, NEW q \in Seq(Events), After(q),
         Len(q) + Hangups' + One(NewLeft) <= Len(queue) + Hangups,
         sta' = "up" => sta = "up",
         modem' \in {"up", "cut"} => modem \in {"up", "cut"}
  PROVE  BoundInv'
  <1>1. /\ queue' \in Seq(Events) /\ Len(queue') \in Nat
        /\ Len(queue') <= Len(q) + One(sta = "up" /\ sta' # "up")
                                + Links4G - Links4G' + One(NewLeft)
    BY AfterLength
  <1>2. One(sta = "up" /\ sta' # "up") = LinksWifi - LinksWifi'
    BY DEF One, LinksWifi
  <1>3. One(NewLeft) \in 0..1 /\ Len(q) \in Nat /\ Len(queue) \in Nat
    BY DEF One, BoundInv
  <1>4. Len(queue) + (LinksWifi + Links4G + Hangups) <= QueueLen + 5
    BY DEF BoundInv, Load
  <1>5. Len(queue') + (LinksWifi' + Links4G' + Hangups') <= QueueLen + 5
    <2>1. Len(queue') <= Len(q) + (LinksWifi - LinksWifi') + Links4G - Links4G' + One(NewLeft)
      BY <1>1, <1>2
    <2> QED BY <1>1, <1>3, <1>4, <2>1, LoadRange, Reckoning
  <1> QED BY <1>1, <1>5 DEF BoundInv, Load

LEMMA KeepBound ==
  ASSUME BoundInv, After(queue), Hangups' + One(NewLeft) <= Hangups,
         sta' = "up" => sta = "up",
         modem' \in {"up", "cut"} => modem \in {"up", "cut"}
  PROVE  BoundInv'
  <1>1. queue \in Seq(Events) /\ Len(queue) \in Nat /\ One(NewLeft) \in 0..1
    BY DEF BoundInv, One
  <1>2. Len(queue) + Hangups' + One(NewLeft) <= Len(queue) + Hangups
    BY <1>1, LoadRange
  <1> QED BY <1>1, <1>2, AfterBound

LEMMA SameBound ==
  ASSUME BoundInv, UNCHANGED <<queue, sta, modem, refused>>, Hangups' <= Hangups
  PROVE  BoundInv'
  <1>1. LinksWifi' = LinksWifi /\ Links4G' = Links4G
    BY DEF LinksWifi, Links4G, One
  <1>2. Len(queue) \in Nat
    BY DEF BoundInv
  <1> QED BY <1>1, <1>2, LoadRange, QueueLenAssumption DEF BoundInv, Load

(* An event handled makes room for the one hang-up that it may begin.      *)
LEMMA HandledBound ==
  ASSUME BoundInv, NEW e, Handle(e), UNCHANGED <<cs, restart_pending, dialing>>,
         sta' = "up" => sta = "up", UNCHANGED modem \/ StopBegin
  PROVE  BoundInv'
  <1>1. queue # <<>> /\ After(Tail(queue)) /\ queue \in Seq(Events)
    BY DEF Handle, Handles, BoundInv
  <1>2. /\ Tail(queue) \in Seq(Events) /\ Len(Tail(queue)) = Len(queue) - 1
        /\ Len(queue) \in Nat
    BY <1>1, HeadTailProperties
  <1>3. Hangups' <= Hangups + 1
    BY DEF Hangups, One
  <1>4. One(NewLeft) = 0 /\ (modem' \in {"up", "cut"} => modem \in {"up", "cut"})
    BY DEF One, NewLeft, StopBegin
  <1>5. Len(Tail(queue)) + Hangups' + One(NewLeft) <= Len(queue) + Hangups
    BY <1>2, <1>3, <1>4, LoadRange
  <1> QED BY <1>1, <1>2, <1>4, <1>5, AfterBound

LEMMA ServicesBound == BoundInv /\ Services => BoundInv'
  <1> SUFFICES ASSUME BoundInv, Services PROVE BoundInv'
    OBVIOUS
  <1>1. CASE \/ EthGotIp \/ EthLost \/ WifiGotIp \/ WifiLost \/ PppGotIp \/ PppLost
    <2>1. \E e \in Events : Room /\ queue' = Append(queue, e)
      BY <1>1, EventsApart DEF EthGotIp, EthLost, WifiGotIp, WifiLost, PppGotIp, PppLost, Told
    <2> QED BY <2>1, PostBound
  <1>2. CASE CsBegin
    <2>1. /\ Room /\ After(queue) /\ UNCHANGED sta
          /\ UNCHANGED modem \/ modem' \in {"cmd", "off", "left"}
      BY <1>2 DEF CsBegin, StopPpp
    <2>2. One(sta = "up" /\ sta' # "up") = 0 /\ One(NewLeft) \in 0..1
      BY <2>1 DEF One
    <2>3. One(NewLeft) = 1 => Links4G' = 1
      BY DEF One, NewLeft, Links4G
    <2>4. queue \in Seq(Events) /\ Len(queue) \in Nat
      BY DEF BoundInv
    <2>5. /\ queue' \in Seq(Events) /\ Len(queue') \in Nat
          /\ Len(queue') <= Len(queue) + One(sta = "up" /\ sta' # "up")
                                      + Links4G - Links4G' + One(NewLeft)
      BY <2>1, <2>4, AfterLength
    <2>6. Len(queue') <= QueueLen
      BY <2>1, <2>2, <2>3, <2>4, <2>5, LoadRange, QueueLenAssumption DEF Room
    <2> QED BY <2>5, <2>6, Short
  <1>3. CASE CsEnd
    <2>1. UNCHANGED <<queue, sta, modem, refused, loop, dialing>>
      BY <1>3 DEF CsEnd, wifi, line
    <2>2. cs' = "suspended" \/ restart_pending' => cs = "suspended" \/ restart_pending
      BY <1>3 DEF CsEnd
    <2>3. Hangups' <= Hangups
      BY <2>1, <2>2 DEF Hangups, One
    <2> QED BY <2>1, <2>3, SameBound
  <1> QED BY <1>1, <1>2, <1>3 DEF Services

LEMMA PortalBound == BoundInv /\ Portal => BoundInv'
  <1> SUFFICES ASSUME BoundInv, Portal PROVE BoundInv'
    OBVIOUS
  <1>1. CASE Button \/ save_post_handler
    <2>1. \E e \in Events : Room /\ queue' = Append(queue, e)
      BY <1>1, EventsApart DEF Button, save_post_handler
    <2> QED BY <2>1, PostBound
  <1>2. CASE ProvisionBegin \/ ProvisionEnd
    <2>1. After(queue) /\ sta' # "up" /\ UNCHANGED <<modem, loop, cs, restart_pending, dialing>>
      BY <1>2 DEF ProvisionBegin, ProvisionEnd, provision_service_stop,
         provision_service_restart
    <2>2. Hangups' + One(NewLeft) <= Hangups
      BY <2>1, LoadRange DEF Hangups, One, NewLeft
    <2> QED BY <2>1, <2>2, KeepBound
  <1> QED BY <1>1, <1>2 DEF Portal

LEMMA HandlerBound == BoundInv /\ app_event_handler => BoundInv'
  <1> SUFFICES ASSUME BoundInv, app_event_handler PROVE BoundInv'
    OBVIOUS
  <1>1. CASE EthUpEnd \/ WifiUpEnd \/ PppUpEnd
    <2>1. /\ After(queue) /\ loop # "free" /\ loop' = "free"
          /\ UNCHANGED <<sta, cs, restart_pending, dialing>>
      BY <1>1 DEF EthUpEnd, WifiUpEnd, PppUpEnd
    <2>2. modem' \notin {"up", "cut"}
      BY <1>1 DEF EthUpEnd, WifiUpEnd, PppUpEnd, StopPpp
    <2>3. Hangups' + One(NewLeft) <= Hangups
      BY <2>1 DEF Hangups, One
    <2> QED BY <2>1, <2>2, <2>3, KeepBound
  <1>2. CASE OnEthUp \/ OnWifiUp \/ OnPppUp
    <2>1. PICK e : Handle(e)
      BY <1>2 DEF OnEthUp, OnWifiUp, OnPppUp, Handle
    <2>2. UNCHANGED <<cs, restart_pending, dialing>> /\ (sta' = "up" => sta = "up")
      BY <1>2 DEF OnEthUp, OnWifiUp, OnPppUp, wifi_service_stop_sta
    <2>3. UNCHANGED modem \/ StopBegin
      BY <1>2 DEF OnEthUp, OnWifiUp, OnPppUp, PppOnline
    <2> QED BY <2>1, <2>2, <2>3, HandledBound
  <1>3. CASE OnEthDown \/ OnWifiDown \/ OnPppDown \/ OnConfigSaved \/ OnProvisionStart
    <2>1. PICK e : Handle(e)
      BY <1>3 DEF OnEthDown, OnWifiDown, OnPppDown, OnConfigSaved, OnProvisionStart, Handle
    <2>2. UNCHANGED <<modem, cs, restart_pending, dialing>>
      BY <1>3 DEF OnEthDown, OnWifiDown, OnPppDown, OnConfigSaved, OnProvisionStart
    <2>3. sta' = "up" => sta = "up"
      BY <1>3 DEF OnEthDown, OnWifiDown, OnPppDown, OnConfigSaved, OnProvisionStart,
         start_wifi_connect, StartFails, wifi_service_start_sta, wifi_service_stop_sta, wifi
    <2> QED BY <2>1, <2>2, <2>3, HandledBound
  <1> QED BY <1>1, <1>2, <1>3 DEF app_event_handler

LEMMA TaskBound == BoundInv /\ net_manager_task => BoundInv'
  <1> SUFFICES ASSUME BoundInv, net_manager_task PROVE BoundInv'
    OBVIOUS
  <1>1. CASE WifiRetry \/ WifiProbe \/ RecoverUplink
    <2>1. After(queue) /\ UNCHANGED <<modem, loop, cs, restart_pending, dialing>>
      BY <1>1 DEF WifiRetry, WifiProbe, RecoverUplink
    <2>2. sta' = "up" => sta = "up"
      BY <1>1 DEF WifiRetry, WifiProbe, RecoverUplink, start_wifi_connect,
         start_wifi_probe_from_4g, StartFails, wifi_service_start_sta, wifi_service_stop_sta, wifi
    <2>3. Hangups' + One(NewLeft) <= Hangups
      BY <2>1, LoadRange DEF Hangups, One, NewLeft
    <2> QED BY <2>1, <2>2, <2>3, KeepBound
  <1>2. CASE CsDone
    <2>1. /\ After(queue) /\ UNCHANGED <<sta, loop, cs>> /\ dialing = "no"
          /\ restart_pending /\ ~restart_pending' /\ cs = "none"
      BY <1>2 DEF CsDone, TimersRun, NetTask
    <2>2. UNCHANGED modem \/ StopBegin
      BY <1>2 DEF CsDone
    <2>3. Hangups' + One(NewLeft) <= Hangups
      BY <2>1, <2>2 DEF Hangups, One, NewLeft, StopBegin
    <2>4. modem' \in {"up", "cut"} => modem \in {"up", "cut"}
      BY <2>2 DEF StopBegin
    <2> QED BY <2>1, <2>3, <2>4, KeepBound
  <1>3. CASE CsHangupEnd
    <2>1. /\ After(queue) /\ UNCHANGED <<sta, loop, cs, restart_pending>>
          /\ dialing = "hangup" /\ dialing' = "no" /\ modem' \notin {"up", "cut"}
      BY <1>3 DEF CsHangupEnd, StopPpp
    <2>2. Hangups' + One(NewLeft) <= Hangups
      BY <2>1 DEF Hangups, One
    <2> QED BY <2>1, <2>2, KeepBound
  <1>4. CASE PppRetry \/ LostTooLong
    <2>1. /\ UNCHANGED <<queue, sta, modem, refused, loop, cs, restart_pending>>
          /\ dialing = "no" /\ dialing' \in {"no", "start"}
      BY <1>4 DEF PppRetry, LostTooLong, TimersRun, NetTask, start_ppp_connect, wifi, line
    <2>2. Hangups' <= Hangups
      BY <2>1, LoadRange DEF Hangups, One
    <2> QED BY <2>1, <2>2, SameBound
  <1>5. CASE PowerCycle
    <2>1. /\ After(queue) /\ UNCHANGED <<sta, loop, cs, restart_pending>>
          /\ dialing = "no" /\ dialing' = "cycle" /\ modem' = "off"
      BY <1>5 DEF PowerCycle, TimersRun, NetTask
    <2>2. Hangups' + One(NewLeft) <= Hangups
      BY <2>1, LoadRange DEF Hangups, One, NewLeft
    <2> QED BY <2>1, <2>2, KeepBound
  <1>6. CASE ArmProbe
    <2>1. UNCHANGED <<queue, sta, modem, refused, loop, cs, restart_pending, dialing>>
      BY <1>6 DEF ArmProbe, wifi, cellular, line
    <2>2. Hangups' <= Hangups
      BY <2>1, LoadRange DEF Hangups, One
    <2> QED BY <2>1, <2>2, SameBound
  <1>7. CASE DialEnd
    <2>1. /\ After(queue) /\ UNCHANGED <<sta, loop, cs, restart_pending>>
          /\ dialing # "hangup" /\ dialing' = "no"
      BY <1>7 DEF DialEnd
    <2>2. modem' \in {modem, "wait", "off"}
      BY <1>7 DEF DialEnd, Connected, NotConnected
    <2>3. Hangups' + One(NewLeft) <= Hangups
      BY <2>1, <2>2, LoadRange DEF Hangups, One, NewLeft
    <2> QED BY <2>1, <2>2, <2>3, KeepBound
  <1> QED BY <1>1, <1>2, <1>3, <1>4, <1>5, <1>6, <1>7 DEF net_manager_task

LEMMA BoundLemma == BoundInv /\ [Next]_vars => BoundInv'
  <1>1. BoundInv /\ UNCHANGED vars => BoundInv'
    <2> SUFFICES ASSUME BoundInv, UNCHANGED vars PROVE BoundInv'
      OBVIOUS
    <2>1. UNCHANGED <<queue, sta, modem, refused>> /\ Hangups' <= Hangups
      BY LoadRange DEF vars, wifi, cellular, line, Hangups, One
    <2> QED BY <2>1, SameBound
  <1>2. BoundInv /\ Reboot => BoundInv'
    <2> SUFFICES ASSUME BoundInv, Reboot PROVE BoundInv'
      OBVIOUS
    <2>1. queue' = <<>>
      BY DEF Reboot, Restarted
    <2>2. queue' \in Seq(Events) /\ Len(queue') = 0
      BY <2>1, EmptySeq
    <2> QED BY <2>2, Short, QueueLenAssumption
  <1> QED BY <1>1, <1>2, ServicesBound, PortalBound, HandlerBound, TaskBound DEF Next

(* Every state of the manager is one the code names, and the losses that   *)
(* handlers and tasks post by taking links down leave the queue at most    *)
(* five events longer than what the services may fill.                     *)
THEOREM TypeCorrect == Spec => []TypeOK
  <1>1. UplinkInv /\ TypesInv /\ BoundInv => TypeOK
    <2> SUFFICES ASSUME UplinkInv, TypesInv, BoundInv PROVE TypeOK
      OBVIOUS
    <2>1. queue \in Seq(Events) /\ Len(queue) <= QueueLen + 5
      <3>1. Len(queue) \in Nat
        BY DEF BoundInv
      <3> QED BY <3>1, LoadRange, QueueLenAssumption DEF BoundInv
    <2> QED BY <2>1 DEF UplinkInv, TypesInv, ManagerTypes, LinkTypes, LineTypes, PortalTypes,
               TypeOK
  <1> QED BY <1>1, InitUplink, UplinkLemma, InitTypes, TypesLemma, InitBound, BoundLemma, PTL
          DEF Spec

=============================================================================
