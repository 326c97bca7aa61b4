--------------------------- MODULE ModemServiceProofs ---------------------------
(***************************************************************************)
(* For every set of dialling tasks, room in the event queue and size of    *)
(* the inbox: the bound on the queue of IP events, that a shown address    *)
(* has a link or its loss is on the way, and that the count of early       *)
(* losses never reaches two.                                               *)
(***************************************************************************)
EXTENDS ModemService, SequenceTheorems, TLAPS

-----------------------------------------------------------------------------
(* The line: the link, its events and the address                          *)

Kind == {"got", "lost"}

(* A link that is up leaves room for the event of its end.                 *)
QueueOK == /\ link \in {"down", "dialled", "up"}
           /\ events \in Seq(Kind) /\ Len(events) <= EventLen + 1
           /\ link = "up" => Len(events) <= EventLen

(* Without a link no address is shown, or the last event that waits is its *)
(* loss.                                                                   *)
Told == link # "up" => IF events = <<>> THEN ~ip_ready ELSE events[Len(events)] = "lost"

(* An early loss is counted only while PPP is down.                        *)
EarlyOK == /\ up_tick \in {"zero", "recent", "old"}
           /\ early \in 0..1 /\ (up_tick # "zero" => early = 0)

LineInv == QueueOK /\ Told /\ EarlyOK

LEMMA InitLine == Init => LineInv
  <1> SUFFICES ASSUME Init PROVE LineInv
    OBVIOUS
  <1>1. link = "down" /\ events = <<>> /\ up_tick = "zero" /\ early = 0
    BY DEF Init
  <1>2. ~ip_ready
    BY DEF Init
  <1> QED BY <1>1, <1>2, BoundsAssumption DEF LineInv, QueueOK, Told, EarlyOK

LEMMA LineKept ==
  ASSUME QueueOK, Told, UNCHANGED <<link, events>>, ip_ready' => ip_ready
  PROVE  QueueOK' /\ Told'
  BY DEF QueueOK, Told

(* A link that is cut leaves its loss behind.                              *)
LEMMA EndsLine ==
  ASSUME QueueOK, Told, Ends, ip_ready' => ip_ready
  PROVE  QueueOK' /\ Told'
  <1>1. CASE link = "up"
    <2>1. link' = "down" /\ events' = Append(events, "lost")
      BY <1>1 DEF Ends
    <2>2. /\ events' \in Seq(Kind) /\ Len(events') = Len(events) + 1
          /\ events'[Len(events')] = "lost" /\ events' # <<>>
      BY <2>1 DEF QueueOK, Kind
    <2> QED BY <1>1, <2>1, <2>2, BoundsAssumption DEF QueueOK, Told
  <1>2. CASE link # "up"
    <2>1. link' = "down" /\ events' = events
      BY <1>2 DEF Ends
    <2> QED BY <1>2, <2>1 DEF QueueOK, Told
  <1> QED BY <1>1, <1>2

LEMMA StopEndLine ==
  ASSUME QueueOK, Told, StopEnd, ip_ready' => ip_ready
  PROVE  QueueOK' /\ Told'
  BY EndsLine, LineKept DEF StopEnd

LEMMA SyncFailsLine ==
  ASSUME QueueOK, Told, SyncFails, ip_ready' => ip_ready
  PROVE  QueueOK' /\ Told'
  BY EndsLine, LineKept DEF SyncFails

(* Taking the first event of the queue leaves the last one last.           *)
LEMMA TailLine ==
  ASSUME QueueOK, events # <<>>, events' = Tail(events)
  PROVE  /\ events' \in Seq(Kind) /\ Len(events') = Len(events) - 1
         /\ events' # <<>> => events'[Len(events')] = events[Len(events)]
         /\ events' = <<>> => Len(events) = 1 /\ events[Len(events)] = Head(events)
  <1>1. events \in Seq(Kind) /\ Len(events) \in Nat \ {0}
    BY DEF QueueOK
  <1>2. events' \in Seq(Kind) /\ Len(events') = Len(events) - 1
    BY <1>1
  <1>3. events' # <<>> => events'[Len(events')] = events[Len(events)]
    BY <1>1, <1>2
  <1>4. events' = <<>> => Len(events) = 1 /\ events[Len(events)] = Head(events)
    <2> SUFFICES ASSUME events' = <<>> PROVE Len(events) = 1 /\ events[1] = Head(events)
      OBVIOUS
    <2>1. Len(events') = 0
      BY EmptySeq
    <2>2. Len(events) = 1
      BY <1>1, <1>2, <2>1
    <2>3. Head(events) = events[1]
      BY <1>1, HeadTailProperties
    <2> QED BY <2>2, <2>3
  <1> QED BY <1>2, <1>3, <1>4

LEMMA ModemLine == LineInv /\ Modem => LineInv'
  <1> SUFFICES ASSUME LineInv, Modem PROVE LineInv'
    OBVIOUS
  <1>1. CASE PppGotIp
    <2>1. /\ link = "dialled" /\ Len(events) < EventLen /\ link' = "up"
          /\ events' = Append(events, "got") /\ UNCHANGED <<up_tick, early>>
      BY <1>1 DEF PppGotIp, Room
    <2>2. events' \in Seq(Kind) /\ Len(events') = Len(events) + 1
      BY <2>1 DEF LineInv, QueueOK, Kind
    <2> QED BY <2>1, <2>2, BoundsAssumption DEF LineInv, QueueOK, Told, EarlyOK
  <1>2. CASE PppEnds
    <2>1. /\ Len(events) < EventLen /\ link' = "down"
          /\ events' = Append(events, "lost") /\ UNCHANGED <<up_tick, early>>
      BY <1>2 DEF PppEnds, Room
    <2>2. /\ events' \in Seq(Kind) /\ Len(events') = Len(events) + 1
          /\ events'[Len(events')] = "lost" /\ events' # <<>>
      BY <2>1 DEF LineInv, QueueOK, Kind
    <2> QED BY <2>1, <2>2, BoundsAssumption DEF LineInv, QueueOK, Told, EarlyOK
  <1>3. CASE Later
    BY <1>3, LineKept DEF Later, LineInv, EarlyOK
  <1>4. CASE Receive
    BY <1>4, LineKept DEF Receive, line, LineInv, EarlyOK
  <1> QED BY <1>1, <1>2, <1>3, <1>4 DEF Modem

LEMMA EventLine == LineInv /\ EventLoop => LineInv'
  <1> SUFFICES ASSUME LineInv, EventLoop PROVE LineInv'
    OBVIOUS
  <1>0. events \in Seq(Kind) /\ EventLen \in Nat
    BY BoundsAssumption DEF LineInv, QueueOK
  <1>1. CASE OnGotIp
    <2>1. /\ events # <<>> /\ Head(events) = "got" /\ events' = Tail(events)
          /\ up_tick' = "recent" /\ early' = 0 /\ UNCHANGED link
      BY <1>1 DEF OnGotIp
    <2>2. QueueOK'
      BY <1>0, <2>1, TailLine DEF LineInv, QueueOK
    <2>3. Told'
      BY <2>1, TailLine DEF LineInv, Told
    <2> QED BY <2>1, <2>2, <2>3 DEF LineInv, EarlyOK
  <1>2. CASE OnLostIp
    <2>1. /\ events # <<>> /\ events' = Tail(events) /\ ~ip_ready' /\ up_tick' = "zero"
      BY <1>2 DEF OnLostIp
    <2>2. early' \in 0..1 /\ UNCHANGED link
      <3> DEFINE losses == IF up_tick = "recent" THEN early + 1 ELSE 0
      <3>1. losses \in 0..1
        BY DEF LineInv, EarlyOK
      <3>2. IF losses >= 2 THEN early' = 0 /\ link' = "down"
                           ELSE early' = losses /\ UNCHANGED link
        BY <1>2 DEF OnLostIp
      <3> HIDE DEF losses
      <3> QED BY <3>1, <3>2
    <2>3. QueueOK'
      BY <1>0, <2>1, <2>2, TailLine DEF LineInv, QueueOK
    <2>4. Told'
      BY <2>1, <2>2, TailLine DEF LineInv, Told
    <2> QED BY <2>1, <2>2, <2>3, <2>4 DEF LineInv, EarlyOK
  <1>3. CASE BetterLink
    <2>1. ~ip_ready' /\ up_tick' = "zero" /\ UNCHANGED <<link, events, early>>
      BY <1>3 DEF BetterLink, StopBegin
    <2> QED BY <2>1, LineKept DEF LineInv, EarlyOK
  <1>4. CASE BetterLinkEnd
    <2>1. StopEnd /\ UNCHANGED <<ip_ready, up_tick, early>>
      BY <1>4 DEF BetterLinkEnd
    <2> QED BY <2>1, StopEndLine DEF LineInv, EarlyOK
  <1> QED BY <1>1, <1>2, <1>3, <1>4 DEF EventLoop

LEMMA DiallingLine ==
  ASSUME LineInv, NEW d \in Dialers, Dialling(d)
  PROVE  LineInv'
  <1>1. CASE modem_service_power_cycle_and_restart(d)
    <2>1. ~ip_ready' /\ up_tick' = "zero" /\ Ends /\ UNCHANGED early
      BY <1>1 DEF modem_service_power_cycle_and_restart
    <2> QED BY <2>1, EndsLine DEF LineInv, EarlyOK
  <1>2. CASE Cycled(d)
    <2>1. /\ ip_ready' => ip_ready
          /\ up_tick' \in {up_tick, "zero"} /\ UNCHANGED <<link, events, early>>
      BY <1>2 DEF Cycled, modem_service_start
    <2> QED BY <2>1, LineKept DEF LineInv, EarlyOK
  <1>3. CASE SyncEnd(d)
    <2>1. SyncFails \/ UNCHANGED <<link, events>>
      BY <1>3 DEF SyncEnd
    <2>2. UNCHANGED <<ip_ready, up_tick, early>>
      BY <1>3 DEF SyncEnd
    <2> QED BY <2>1, <2>2, SyncFailsLine, LineKept DEF LineInv, EarlyOK
  <1>4. CASE ReadyEnd(d) \/ Settled(d)
    BY <1>4, LineKept DEF ReadyEnd, Settled, line, LineInv, EarlyOK
  <1>5. CASE DataMode(d)
    <2>1. /\ UNCHANGED <<ip_ready, events, up_tick, early>>
          /\ link' = link \/ (link = "down" /\ link' = "dialled")
      BY <1>5 DEF DataMode
    <2> QED BY <2>1 DEF LineInv, QueueOK, Told, EarlyOK
  <1> QED BY <1>1, <1>2, <1>3, <1>4, <1>5 DEF Dialling

LEMMA NetLine == LineInv /\ NetTask => LineInv'
  <1> SUFFICES ASSUME LineInv, NetTask PROVE LineInv'
    OBVIOUS
  <1>1. CASE Start
    <2>1. /\ ip_ready' => ip_ready
          /\ up_tick' \in {up_tick, "zero"} /\ UNCHANGED <<link, events, early>>
      BY <1>1 DEF Start, modem_service_start
    <2> QED BY <2>1, LineKept DEF LineInv, EarlyOK
  <1>2. CASE TakeRead
    BY <1>2, LineKept DEF TakeRead, line, LineInv, EarlyOK
  <1>3. CASE TakeClear
    <2>1. /\ ip_ready' => ip_ready
          /\ up_tick' \in {up_tick, "zero"} /\ UNCHANGED <<link, events, early>>
      BY <1>3 DEF TakeClear, StopBegin
    <2> QED BY <2>1, LineKept DEF LineInv, EarlyOK
  <1>4. CASE HungUp
    <2>1. StopEnd /\ UNCHANGED <<ip_ready, up_tick, early>>
      BY <1>4 DEF HungUp
    <2> QED BY <2>1, StopEndLine DEF LineInv, EarlyOK
  <1> QED BY <1>1, <1>2, <1>3, <1>4 DEF NetTask

LEMMA SessionLine == LineInv /\ ModemTask => LineInv'
  <1> SUFFICES ASSUME LineInv, ModemTask PROVE LineInv'
    OBVIOUS
  <1>1. CASE modem_service_begin_cs_session
    <2>1. /\ ip_ready' => ip_ready
          /\ up_tick' \in {up_tick, "zero"} /\ UNCHANGED <<link, events, early>>
      BY <1>1 DEF modem_service_begin_cs_session, StopBegin
    <2> QED BY <2>1, LineKept DEF LineInv, EarlyOK
  <1>2. CASE Stopped
    <2>1. StopEnd /\ UNCHANGED <<ip_ready, up_tick, early>>
      BY <1>2 DEF Stopped
    <2> QED BY <2>1, StopEndLine DEF LineInv, EarlyOK
  <1>3. CASE NotSynced
    <2>1. SyncFails /\ UNCHANGED <<ip_ready, up_tick, early>>
      BY <1>3 DEF NotSynced
    <2> QED BY <2>1, SyncFailsLine DEF LineInv, EarlyOK
  <1>4. CASE CycleEnd
    <2>1. Ends /\ UNCHANGED <<ip_ready, up_tick, early>>
      BY <1>4 DEF CycleEnd
    <2> QED BY <2>1, EndsLine DEF LineInv, EarlyOK
  <1>5. CASE Synced \/ SendText \/ Call \/ (\E obeyed \in BOOLEAN : PollInbox(obeyed))
              \/ PollNothing \/ DeleteAll
    <2>1. UNCHANGED line
      BY <1>5 DEF Synced, SendText, Call, PollInbox, PollNothing, DeleteAll,
         modem_service_end_cs_session
    <2> QED BY <2>1, LineKept DEF line, LineInv, EarlyOK
  <1> QED BY <1>1, <1>2, <1>3, <1>4, <1>5 DEF ModemTask

LEMMA LineLemma == LineInv /\ [Next]_vars => LineInv'
  <1>1. LineInv /\ UNCHANGED vars => LineInv'
    BY LineKept DEF vars, line, LineInv, EarlyOK
  <1> QED BY <1>1, ModemLine, EventLine, DiallingLine, NetLine, SessionLine DEF Next

(* An address that is shown has a link, or the event of its loss waits to  *)
(* be handled: whatever a hang-up, a session, a power cycle or a late      *)
(* PPP_GOT_IP leaves behind is taken back (modem_service.c:339-393, 517).  *)
THEOREM IpReadyCorrect == Spec => []IpReadyEnds
  <1>1. LineInv => IpReadyEnds
    <2> SUFFICES ASSUME LineInv, ip_ready, link # "up" PROVE Contains(events, "lost")
      BY DEF IpReadyEnds
    <2>1. events # <<>> /\ events[Len(events)] = "lost" /\ events \in Seq(Kind)
      BY DEF LineInv, QueueOK, Told
    <2>2. Len(events) \in 1..Len(events)
      BY <2>1
    <2> QED BY <2>1, <2>2 DEF Contains
  <1> QED BY <1>1, InitLine, LineLemma, PTL DEF Spec

(* Every address clears the count of early losses, which therefore never   *)
(* reaches two: the power cycle that the second one in a row is to cause   *)
(* never happens (modem_service.c:347, 378).                               *)
THEOREM EarlyLossCorrect == Spec => []EarlyLossNeverTwice
  <1>1. LineInv => EarlyLossNeverTwice
    BY DEF LineInv, EarlyOK, EarlyLossNeverTwice
  <1> QED BY <1>1, InitLine, LineLemma, PTL DEF Spec

-----------------------------------------------------------------------------
(* The tasks and the inbox *)

FlagTypes == /\ state \in States /\ ip_ready \in BOOLEAN
             /\ suspended \in BOOLEAN /\ cs_active \in BOOLEAN /\ had_ppp \in BOOLEAN
             /\ at_fails \in 0..2 /\ restart_pending \in BOOLEAN
             /\ session \in {"none", "stopping", "sync", "work", "cycle"}
             /\ loop \in {"idle", "stopping"}

DialState == {"idle", "cycle", "sync", "ready", "data", "settling", "stopping", "yes", "no"}
DialType == dial \in [Dialers -> DialState]

InboxType == inbox \in [Places -> {"none", "text", "blank", "error"}]

(* The state a stop or a failed sync leaves.                               *)
LEMMA StopState ==
  ASSUME state \in States, StopEnd \/ SyncFails
  PROVE  state' \in States
  BY DEF StopEnd, SyncFails, States

LEMMA EndSessionTypes ==
  ASSUME FlagTypes, modem_service_end_cs_session
  PROVE  FlagTypes'
  <1>1. restart_pending' \in BOOLEAN
    <2>1. restart_pending' = (restart_pending \/ had_ppp)
      BY Zenon DEF modem_service_end_cs_session
    <2> QED BY <2>1, Zenon DEF FlagTypes
  <1>2. /\ session' = "none" /\ suspended' = FALSE /\ cs_active' = FALSE /\ had_ppp' = FALSE
        /\ UNCHANGED <<state, ip_ready, at_fails, loop>>
    BY DEF modem_service_end_cs_session, Release, line
  <1> QED BY <1>1, <1>2 DEF FlagTypes

LEMMA SessionTypes == FlagTypes /\ ModemTask => FlagTypes'
  <1> SUFFICES ASSUME FlagTypes, ModemTask PROVE FlagTypes'
    OBVIOUS
  <1>1. CASE modem_service_begin_cs_session
    <2> DEFINE cut == ip_ready \/ state \in {"DATA", "WAIT_IP"}
    <2>1. cut \in BOOLEAN
      OBVIOUS
    <2>2. had_ppp' = cut /\ suspended' = cut /\ cs_active' = TRUE
      BY <1>1, Zenon DEF modem_service_begin_cs_session
    <2>3. session' \in {"stopping", "sync"} /\ ip_ready' \in {FALSE, ip_ready}
      BY <1>1 DEF modem_service_begin_cs_session, StopBegin
    <2>4. UNCHANGED <<state, at_fails, restart_pending, loop>>
      BY <1>1 DEF modem_service_begin_cs_session
    <2> HIDE DEF cut
    <2> QED BY <2>1, <2>2, <2>3, <2>4 DEF FlagTypes
  <1>2. CASE Stopped
    BY <1>2, StopState DEF Stopped, FlagTypes
  <1>3. CASE Synced
    BY <1>3 DEF Synced, line, FlagTypes
  <1>4. CASE NotSynced
    <2> DEFINE fails == IF at_fails < 2 THEN at_fails + 1 ELSE 2
               cycle == ~had_ppp /\ fails = 2
    <2>1. session' \in {"cycle", "none"} /\ at_fails' \in {0, fails}
      BY <1>4 DEF NotSynced
    <2>2. fails \in 0..2
      BY DEF FlagTypes
    <2>3. restart_pending' \in BOOLEAN
      <3>1. restart_pending' = (restart_pending \/ had_ppp)
        BY <1>4, Zenon DEF NotSynced
      <3> QED BY <3>1, Zenon DEF FlagTypes
    <2>4. /\ SyncFails /\ suspended' = FALSE /\ cs_active' = FALSE /\ had_ppp' = FALSE
          /\ UNCHANGED <<ip_ready, loop>>
      BY <1>4 DEF NotSynced, Release
    <2> HIDE DEF fails
    <2>5. at_fails' \in 0..2
      BY <2>1, <2>2
    <2>6. state' \in States
      BY <2>4, StopState DEF FlagTypes
    <2> QED BY <2>1, <2>3, <2>4, <2>5, <2>6 DEF FlagTypes
  <1>5. CASE CycleEnd
    BY <1>5 DEF CycleEnd, States, FlagTypes
  <1>6. CASE SendText \/ Call \/ (\E obeyed \in BOOLEAN : PollInbox(obeyed)) \/ PollNothing \/ DeleteAll
    BY <1>6, EndSessionTypes DEF SendText, Call, PollInbox, PollNothing, DeleteAll
  <1> QED BY <1>1, <1>2, <1>3, <1>4, <1>5, <1>6 DEF ModemTask

LEMMA OtherTypes ==
  ASSUME FlagTypes, Modem \/ EventLoop \/ NetTask \/ \E d \in Dialers : Dialling(d)
  PROVE  FlagTypes'
  <1>1. CASE Modem
    BY <1>1 DEF Modem, PppGotIp, PppEnds, Later, Receive, line, cs, FlagTypes
  <1>2. CASE EventLoop
    <2>1. CASE OnGotIp \/ OnLostIp
      BY <2>1 DEF OnGotIp, OnLostIp, cs, States, FlagTypes
    <2>2. CASE BetterLink \/ BetterLinkEnd
      BY <2>2, StopState DEF BetterLink, BetterLinkEnd, StopBegin, cs, FlagTypes
    <2> QED BY <1>2, <2>1, <2>2 DEF EventLoop
  <1>3. CASE NetTask
    BY <1>3, StopState DEF NetTask, Start, modem_service_start, TakeRead, TakeClear, StopBegin,
       HungUp, line, cs, States, FlagTypes
  <1>4. CASE \E d \in Dialers : Dialling(d)
    BY <1>4, StopState DEF Dialling, modem_service_power_cycle_and_restart, Cycled,
       modem_service_start, SyncEnd, ReadyEnd, DataMode, Settled, line, cs, States, FlagTypes
  <1> QED BY <1>1, <1>2, <1>3, <1>4

LEMMA DialTypes == DialType /\ [Next]_vars => DialType'
  <1> SUFFICES ASSUME DialType, [Next]_vars PROVE DialType'
    OBVIOUS
  <1>1. \/ dial' = dial
        \/ \E d \in Dialers : \E s \in DialState : dial' = [dial EXCEPT ![d] = s]
    <2>1. CASE NetTask
      BY <2>1 DEF NetTask, Start, modem_service_start, TakeRead, TakeClear, HungUp, DialState
    <2>2. CASE \E d \in Dialers : Dialling(d)
      BY <2>2 DEF Dialling, modem_service_power_cycle_and_restart, Cycled,
         modem_service_start, SyncEnd, ReadyEnd, DataMode, Settled, DialState
    <2>3. CASE Modem \/ EventLoop \/ ModemTask \/ UNCHANGED vars
      BY <2>3 DEF Modem, PppGotIp, PppEnds, Later, Receive, EventLoop, OnGotIp, OnLostIp,
         BetterLink, BetterLinkEnd, ModemTask, modem_service_begin_cs_session, Stopped, Synced,
         NotSynced, CycleEnd, SendText, Call, PollInbox, PollNothing, DeleteAll,
         modem_service_end_cs_session, vars
    <2> QED BY <2>1, <2>2, <2>3 DEF Next
  <1> QED BY <1>1 DEF DialType

LEMMA InboxTypes == InboxType /\ [Next]_vars => InboxType'
  <1> SUFFICES ASSUME InboxType, [Next]_vars PROVE InboxType'
    OBVIOUS
  <1>1. CASE Receive
    BY <1>1 DEF Receive, InboxType
  <1>2. CASE \E obeyed \in BOOLEAN : PollInbox(obeyed)
    <2>1. inbox' = inbox \/ \E i : inbox' = [inbox EXCEPT ![i] = "none"]
      BY <1>2 DEF PollInbox
    <2> QED BY <2>1 DEF InboxType
  <1>3. CASE DeleteAll
    BY <1>3 DEF DeleteAll, InboxType
  <1>4. CASE UNCHANGED inbox
    BY <1>4 DEF InboxType
  <1>5. \/ Receive \/ (\E obeyed \in BOOLEAN : PollInbox(obeyed))
        \/ DeleteAll \/ UNCHANGED inbox
    BY DEF Next, Modem, PppGotIp, PppEnds, Later, EventLoop, OnGotIp, OnLostIp,
       BetterLink, BetterLinkEnd, NetTask, Start, TakeRead, TakeClear, HungUp,
       ModemTask, modem_service_begin_cs_session, Stopped, Synced,
       NotSynced, CycleEnd, SendText, Call, PollNothing, Dialling,
       modem_service_power_cycle_and_restart, Cycled, SyncEnd, ReadyEnd, DataMode, Settled, vars
  <1> QED BY <1>1, <1>2, <1>3, <1>4, <1>5

(* The variables keep their types, and what a stop or a power cycle adds   *)
(* to the waiting IP events is one at most (modem_service.c:339-393).      *)
THEOREM TypeCorrect == Spec => []TypeOK
  <1> DEFINE Types == FlagTypes /\ DialType /\ InboxType
  <1>1. Init => Types
    <2> SUFFICES ASSUME Init PROVE Types
      OBVIOUS
    <2>1. FlagTypes
      <3>1. /\ state = "INIT" /\ ip_ready = FALSE /\ suspended = FALSE /\ cs_active = FALSE
            /\ had_ppp = FALSE /\ at_fails = 0 /\ restart_pending = FALSE
            /\ session = "none" /\ loop = "idle"
        BY Zenon DEF Init
      <3>2. 0 \in 0..2
        OBVIOUS
      <3> QED BY <3>1, <3>2, Zenon DEF FlagTypes, States
    <2>2. DialType
      BY DEF Init, DialType, DialState
    <2>3. InboxType
      BY BoundsAssumption DEF Init, InboxType
    <2> QED BY <2>1, <2>2, <2>3
  <1>2. Types /\ [Next]_vars => Types'
    <2>1. FlagTypes /\ UNCHANGED vars => FlagTypes'
      BY DEF vars, line, cs, FlagTypes
    <2>2. FlagTypes /\ [Next]_vars => FlagTypes'
      BY <2>1, SessionTypes, OtherTypes DEF Next
    <2> QED BY <2>2, DialTypes, InboxTypes
  <1>3. LineInv /\ Types => TypeOK
    BY DEF LineInv, QueueOK, Kind, EarlyOK, FlagTypes, DialType, DialState, InboxType, TypeOK
  <1> HIDE DEF Types
  <1> QED BY <1>1, <1>2, <1>3, InitLine, LineLemma, PTL DEF Spec
=============================================================================
