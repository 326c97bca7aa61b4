----------------------------- MODULE ModemService -----------------------------
(***************************************************************************)
(* The 4G modem (modem_service.c): one serial line that is either in data  *)
(* mode, carrying PPP, or in command mode, for texts and calls.  The       *)
(* manager's task dials, and so does app_recovery after a power cycle;     *)
(* modem_task cuts PPP for a CS session; the event loop hangs up when a    *)
(* better link is there and handles PPP_GOT_IP and PPP_LOST_IP.  Only the  *)
(* sessions take s_cs_op_lock; s_state and the address bit have no lock.   *)
(*                                                                         *)
(* A blocking call is one step for each thing that others can see between  *)
(* its AT commands.  What the modem answers is not determined.  The state  *)
(* of the SIM, which only the display and the poll interval follow, is     *)
(* left out.                                                               *)
(***************************************************************************)
EXTENDS Naturals, Sequences, FiniteSets, SequencesExt

CONSTANTS
  Dialers,   \* the tasks that start PPP, of "net" and "recovery"
  EventLen,  \* how many unhandled IP events the PPP stack finds and still posts
  InboxSize, \* the messages the modem holds
  MeSize,    \* how many of them in its own memory; the others are on the SIM
  ListSize   \* the messages whose listing fits s_sms_resp_buf

ASSUME DialersAssumption == Dialers \subseteq {"net", "recovery"}
ASSUME BoundsAssumption == /\ EventLen \in Nat \ {0} /\ InboxSize \in Nat
                           /\ MeSize \in Nat /\ ListSize \in Nat

VARIABLES
  state,     \* s_state
  ip_ready,  \* MODEM_IP_READY_BIT
  link,      \* the PPP link: "down" (command mode), "dialled", "up"
  events,    \* PPP_GOT_IP and PPP_LOST_IP not yet handled: "got", "lost"
  up_tick,   \* s_ppp_up_tick: "zero", "recent" (APP_MODEM_EARLY_PPP_LOST_MS) or "old"
  early,     \* s_early_ppp_lost_count
  suspended, \* s_manual_ppp_suspend
  cs_active, \* s_cs_session_active
  had_ppp,   \* s_cs_session_had_ppp
  at_fails,  \* s_cs_at_sync_fail_count, counted up to 2
  restart_pending, \* s_ppp_restart_pending_after_cs
  session,   \* modem_task: "none", "stopping", "sync", "work", "cycle"
  dial,      \* of each dialer: "idle", "cycle", "sync", "ready", "data", "settling", "stopping"; "yes" and "no": in modem_service_take_..., with what it has read
  loop,      \* the event loop: "idle" or "stopping"
  inbox      \* in each place: "none", "text", "blank" (no number or no text), "error" (ERROR is in it)

line == <<ip_ready, link, events, up_tick, early>>
cs == <<suspended, cs_active, had_ppp, at_fails, session>>
vars == <<state, line, cs, restart_pending, dial, loop, inbox>>

States == {"OFF", "INIT", "SYNC", "DATA", "WAIT_IP", "RUNNING", "RECOVERING"}

Places == 1..InboxSize

(* modem_service_init.                                                     *)
Init ==
  /\ state = "INIT" /\ ip_ready = FALSE /\ link = "down" /\ events = <<>>
  /\ up_tick = "zero" /\ early = 0
  /\ suspended = FALSE /\ cs_active = FALSE /\ had_ppp = FALSE /\ at_fails = 0
  /\ restart_pending = FALSE /\ session = "none"
  /\ dial = [d \in Dialers |-> "idle"] /\ loop = "idle"
  /\ inbox = [i \in Places |-> "none"]

(* Mutated: the PPP stack posts without looking at the queue.              *)
Room_Always == TRUE

Room == Len(events) < EventLen

-----------------------------------------------------------------------------
(* The modem and the PPP stack *)

(* The line leaves data mode: the stack tells of the end of a link that    *)
(* was up.                                                                 *)
Ends == /\ link' = "down"
        /\ events' = IF link = "up" THEN Append(events, "lost") ELSE events

PppGotIp ==
  /\ link = "dialled" /\ Room
  /\ link' = "up" /\ events' = Append(events, "got")
  /\ UNCHANGED <<state, ip_ready, up_tick, early, cs, restart_pending, dial, loop, inbox>>

PppEnds ==
  /\ link # "down" /\ Room
  /\ link' = "down" /\ events' = Append(events, "lost")
  /\ UNCHANGED <<state, ip_ready, up_tick, early, cs, restart_pending, dial, loop, inbox>>

Later ==
  /\ up_tick = "recent" /\ up_tick' = "old"
  /\ UNCHANGED <<state, ip_ready, link, events, early, cs, restart_pending, dial, loop, inbox>>

Receive ==
  /\ \E i \in Places, kind \in {"text", "blank", "error"} :
        inbox[i] = "none" /\ inbox' = [inbox EXCEPT ![i] = kind]
  /\ UNCHANGED <<state, line, cs, restart_pending, dial, loop>>

-----------------------------------------------------------------------------
(* on_ip_event *)

(* Mutated: an address does not forget the early losses.                   *)
OnGotIp_KeepsEarly ==
  /\ loop = "idle" /\ events # <<>> /\ Head(events) = "got"
  /\ ip_ready' = TRUE /\ state' = "RUNNING" /\ up_tick' = "recent"
  /\ events' = Tail(events)
  /\ UNCHANGED <<link, early, cs, restart_pending, dial, loop, inbox>>

OnGotIp ==
  /\ loop = "idle" /\ events # <<>> /\ Head(events) = "got"
  /\ ip_ready' = TRUE /\ state' = "RUNNING" /\ up_tick' = "recent" /\ early' = 0
  /\ events' = Tail(events)
  /\ UNCHANGED <<link, cs, restart_pending, dial, loop, inbox>>

(* Mutated: in a suspended session the loss is taken as told already.      *)
OnLostIp_NotSuspended ==
  /\ loop = "idle" /\ events # <<>> /\ Head(events) = "lost"
  /\ ip_ready' = (ip_ready /\ suspended)
  /\ state' = (IF suspended THEN "OFF" ELSE "RECOVERING") /\ up_tick' = "zero"
  /\ early' = IF up_tick = "recent" THEN early + 1 ELSE 0
  /\ events' = Tail(events)
  /\ UNCHANGED <<link, cs, restart_pending, dial, loop, inbox>>

(* The second early loss in a row power cycles the modem.                  *)
OnLostIp ==
  /\ loop = "idle" /\ events # <<>> /\ Head(events) = "lost"
  /\ ip_ready' = FALSE /\ up_tick' = "zero"
  /\ state' = IF suspended THEN "OFF" ELSE "RECOVERING"
  /\ LET losses == IF up_tick = "recent" THEN early + 1 ELSE 0
     IN  IF losses >= 2
         THEN early' = 0 /\ link' = "down"
         ELSE early' = losses /\ UNCHANGED link
  /\ events' = Tail(events)
  /\ UNCHANGED <<cs, restart_pending, dial, loop, inbox>>

-----------------------------------------------------------------------------
(* modem_service_stop_ppp, and the sync of the AT commands *)

StopBegin == ip_ready' = FALSE /\ up_tick' = "zero"

StopEnd ==
  \/ Ends /\ state' = "RUNNING"
  \/ state' = "RECOVERING" /\ UNCHANGED <<link, events>>

(* modem_sync_with_recover fails: after APP_MODEM_HARD_RECOVER_FAILS       *)
(* failures, whoever met them, it power cycles the modem.                  *)
SyncFails == UNCHANGED <<state, link, events>> \/ (Ends /\ state' = "INIT")

-----------------------------------------------------------------------------
(* Dialling *)

modem_service_start(d) ==
  IF state \in {"WAIT_IP", "RUNNING"}
  THEN /\ dial' = [dial EXCEPT ![d] = "idle"]
       /\ UNCHANGED <<state, ip_ready, up_tick>>
  ELSE /\ dial' = [dial EXCEPT ![d] = "sync"]
       /\ state' = "SYNC" /\ ip_ready' = FALSE /\ up_tick' = "zero"

(* start_ppp_connect of net_manager looks at the session first.            *)
Start ==
  /\ "net" \in Dialers /\ dial["net"] = "idle"
  /\ ~cs_active /\ ~ip_ready
  /\ modem_service_start("net")
  /\ UNCHANGED <<link, events, early, cs, restart_pending, loop, inbox>>

(* net_manager power cycles the modem without looking at the session.      *)
modem_service_power_cycle_and_restart(d) ==
  /\ dial[d] = "idle" /\ (d = "recovery" => ~cs_active)
  /\ dial' = [dial EXCEPT ![d] = "cycle"]
  /\ ip_ready' = FALSE /\ up_tick' = "zero" /\ state' = "RECOVERING" /\ Ends
  /\ UNCHANGED <<early, cs, restart_pending, loop, inbox>>

Cycled(d) ==
  /\ dial[d] = "cycle"
  /\ modem_service_start(d)
  /\ UNCHANGED <<link, events, early, cs, restart_pending, loop, inbox>>

SyncEnd(d) ==
  /\ dial[d] = "sync"
  /\ \/ dial' = [dial EXCEPT ![d] = "ready"] /\ UNCHANGED <<state, link, events>>
     \/ dial' = [dial EXCEPT ![d] = "idle"] /\ SyncFails
  /\ UNCHANGED <<ip_ready, up_tick, early, cs, restart_pending, loop, inbox>>

(* modem_wait_ready_for_ppp: the SIM, the network and the signal.          *)
ReadyEnd(d) ==
  /\ dial[d] = "ready"
  /\ \/ dial' = [dial EXCEPT ![d] = "data"] /\ state' = "DATA"
     \/ dial' = [dial EXCEPT ![d] = "idle"] /\ UNCHANGED state
  /\ UNCHANGED <<line, cs, restart_pending, loop, inbox>>

DataMode(d) ==
  /\ dial[d] = "data"
  /\ \/ /\ dial' = [dial EXCEPT ![d] = "settling"]
        /\ link' = IF link = "down" THEN "dialled" ELSE link
     \/ dial' = [dial EXCEPT ![d] = "idle"] /\ UNCHANGED link
  /\ UNCHANGED <<state, ip_ready, events, up_tick, early, cs, restart_pending, loop, inbox>>

(* Two seconds later, whatever s_state is by then.                         *)
Settled(d) ==
  /\ dial[d] = "settling"
  /\ dial' = [dial EXCEPT ![d] = "idle"] /\ state' = "WAIT_IP"
  /\ UNCHANGED <<line, cs, restart_pending, loop, inbox>>

-----------------------------------------------------------------------------
(* Hanging up *)

(* modem_service_take_ppp_restart_pending_after_cs reads the flag and      *)
(* clears it in two steps.                                                 *)
TakeRead ==
  /\ "net" \in Dialers /\ dial["net"] = "idle" /\ ~cs_active
  /\ dial' = [dial EXCEPT !["net"] = IF restart_pending THEN "yes" ELSE "no"]
  /\ UNCHANGED <<state, line, cs, restart_pending, loop, inbox>>

(* A taken request hangs up what is left of PPP, unless the uplink needs   *)
(* no restart.                                                             *)
TakeClear ==
  /\ "net" \in Dialers /\ dial["net"] \in {"yes", "no"}
  /\ restart_pending' = FALSE
  /\ \/ dial' = [dial EXCEPT !["net"] = "idle"] /\ UNCHANGED <<ip_ready, up_tick>>
     \/ /\ dial["net"] = "yes"
        /\ dial' = [dial EXCEPT !["net"] = "stopping"] /\ StopBegin
  /\ UNCHANGED <<state, link, events, early, cs, loop, inbox>>

HungUp ==
  /\ "net" \in Dialers /\ dial["net"] = "stopping"
  /\ dial' = [dial EXCEPT !["net"] = "idle"] /\ StopEnd
  /\ UNCHANGED <<ip_ready, up_tick, early, cs, restart_pending, loop, inbox>>

(* A better link came up: the event loop hangs up.                         *)
BetterLink ==
  /\ loop = "idle" /\ loop' = "stopping" /\ StopBegin
  /\ UNCHANGED <<state, link, events, early, cs, restart_pending, dial, inbox>>

BetterLinkEnd ==
  /\ loop = "stopping" /\ loop' = "idle" /\ StopEnd
  /\ UNCHANGED <<ip_ready, up_tick, early, cs, restart_pending, dial, inbox>>

-----------------------------------------------------------------------------
(* CS sessions *)

modem_service_begin_cs_session ==
  /\ session = "none"
  /\ cs_active' = TRUE
  /\ had_ppp' = (ip_ready \/ state \in {"DATA", "WAIT_IP"})
  /\ suspended' = had_ppp'
  /\ IF had_ppp' THEN session' = "stopping" /\ StopBegin
                 ELSE session' = "sync" /\ UNCHANGED <<ip_ready, up_tick>>
  /\ UNCHANGED <<state, link, events, early, at_fails, restart_pending, dial, loop, inbox>>

Stopped ==
  /\ session = "stopping" /\ session' = "sync" /\ StopEnd
  /\ UNCHANGED <<ip_ready, up_tick, early, suspended, cs_active, had_ppp, at_fails,
                 restart_pending, dial, loop, inbox>>

Synced ==
  /\ session = "sync" /\ session' = "work" /\ at_fails' = 0
  /\ UNCHANGED <<state, line, suspended, cs_active, had_ppp, restart_pending, dial, loop, inbox>>

Release == suspended' = FALSE /\ cs_active' = FALSE /\ had_ppp' = FALSE

(* A modem that does not answer: what was cut is left to net_manager, and  *)
(* in command mode the second failure power cycles it.                     *)
NotSynced ==
  /\ session = "sync" /\ Release /\ SyncFails
  /\ LET fails == IF at_fails < 2 THEN at_fails + 1 ELSE 2
         cycle == ~had_ppp /\ fails = 2
     IN  /\ session' = IF cycle THEN "cycle" ELSE "none"
         /\ at_fails' = IF cycle THEN 0 ELSE fails
  /\ restart_pending' = (restart_pending \/ had_ppp)
  /\ UNCHANGED <<ip_ready, up_tick, early, dial, loop, inbox>>

CycleEnd ==
  /\ session = "cycle" /\ session' = "none"
  /\ state' = "INIT" /\ Ends
  /\ UNCHANGED <<ip_ready, up_tick, early, suspended, cs_active, had_ppp, at_fails,
                 restart_pending, dial, loop, inbox>>

(* Mutated: the flag that suspends PPP is forgotten.                       *)
modem_service_end_cs_session_KeepsActive ==
  /\ session' = "none"
  /\ suspended' = FALSE /\ had_ppp' = FALSE /\ UNCHANGED cs_active
  /\ restart_pending' = (restart_pending \/ had_ppp)
  /\ UNCHANGED <<state, line, at_fails, dial, loop>>

modem_service_end_cs_session ==
  /\ session' = "none" /\ Release
  /\ restart_pending' = (restart_pending \/ had_ppp)
  /\ UNCHANGED <<state, line, at_fails, dial, loop>>

(* A text sent or a look at the signal leaves nothing behind but the       *)
(* session, and so does a call, which keeps it while it rings.             *)
SendText ==
  /\ session = "work"
  /\ modem_service_end_cs_session
  /\ UNCHANGED inbox

Call ==
  /\ session = "work"
  /\ modem_service_end_cs_session
  /\ UNCHANGED inbox

(* AT+CMGL="ALL" with a store selected: MT is all the memory, SM the SIM.  *)
(* The listing is cut where the response buffer ends.                      *)
Listed(store) ==
  LET stored == {i \in Places : inbox[i] # "none" /\ (store = "SM" => i > MeSize)}
  IN  {i \in stored : Cardinality({j \in stored : j <= i}) <= ListSize}

(* ERROR in the listing, a message's own words too, is a failed command.   *)
Shows(store) == Listed(store) # {} /\ \A i \in Listed(store) : inbox[i] # "error"

(* Mutated: the SIM is not looked at.                                      *)
Store_MtOnly(obeyed) == "MT"

(* SM is read when the modem does not let MT be selected, or when MT shows *)
(* nothing, but not when what MT shows cannot be read.                     *)
Store(obeyed) == IF obeyed /\ Shows("MT") THEN "MT" ELSE "SM"

(* The first message listed with a number and a text.                      *)
FirstText(store) ==
  {i \in Listed(store) : /\ Shows(store) /\ inbox[i] = "text"
                         /\ \A j \in Listed(store) : j < i => inbox[j] # "text"}

(* The message found is deleted, and nobody looks whether that succeeded.  *)
PollInbox(obeyed) ==
  /\ session = "work"
  /\ modem_service_end_cs_session
  /\ \E i \in FirstText(Store(obeyed)) : inbox' \in {inbox, [inbox EXCEPT ![i] = "none"]}

(* Nothing is found, or the modem does not let the inbox be read.          *)
PollNothing ==
  /\ session = "work"
  /\ modem_service_end_cs_session
  /\ UNCHANGED inbox

DeleteAll ==
  /\ session = "work"
  /\ modem_service_end_cs_session
  /\ inbox' \in {inbox, [i \in Places |-> "none"]}

-----------------------------------------------------------------------------
Modem == PppGotIp \/ PppEnds \/ Later \/ Receive
EventLoop == OnGotIp \/ OnLostIp \/ BetterLink \/ BetterLinkEnd
Dialling(d) == \/ modem_service_power_cycle_and_restart(d) \/ Cycled(d)
               \/ SyncEnd(d) \/ ReadyEnd(d) \/ DataMode(d) \/ Settled(d)
NetTask == Start \/ TakeRead \/ TakeClear \/ HungUp
ModemTask == \/ modem_service_begin_cs_session \/ Stopped \/ Synced \/ NotSynced \/ CycleEnd
             \/ SendText \/ Call \/ PollNothing \/ DeleteAll
             \/ \E obeyed \in BOOLEAN : PollInbox(obeyed)

Next == \/ Modem \/ EventLoop \/ NetTask \/ ModemTask
        \/ \E d \in Dialers : Dialling(d)

Spec == Init /\ [][Next]_vars

(* A call of the modem returns; modem_task polls again and again, and the  *)
(* modem does not refuse for ever, to answer, to list what it can and to   *)
(* delete.                                                                 *)
Fairness ==
  /\ WF_vars(Stopped) /\ WF_vars(Synced \/ NotSynced) /\ WF_vars(CycleEnd)
  /\ WF_vars(SendText \/ Call \/ PollNothing \/ DeleteAll)
  /\ WF_vars(modem_service_begin_cs_session) /\ SF_vars(Synced)
  /\ SF_vars(PollInbox(TRUE) /\ inbox' # inbox)

FairSpec == Spec /\ Fairness

-----------------------------------------------------------------------------
(* Types, and the queue of IP events stays bounded: a stop or a power      *)
(* cycle adds at most one to what the stack was allowed to post.           *)
TypeOK ==
  /\ state \in States /\ ip_ready \in BOOLEAN
  /\ link \in {"down", "dialled", "up"}
  /\ events \in Seq({"got", "lost"}) /\ Len(events) <= EventLen + 1
  /\ up_tick \in {"zero", "recent", "old"} /\ early \in 0..2
  /\ suspended \in BOOLEAN /\ cs_active \in BOOLEAN /\ had_ppp \in BOOLEAN
  /\ at_fails \in 0..2 /\ restart_pending \in BOOLEAN
  /\ session \in {"none", "stopping", "sync", "work", "cycle"}
  /\ dial \in [Dialers -> {"idle", "cycle", "sync", "ready", "data", "settling", "stopping",
                           "yes", "no"}]
  /\ loop \in {"idle", "stopping"}
  /\ inbox \in [Places -> {"none", "text", "blank", "error"}]

(* An address that is shown without a link is taken back: its loss is on   *)
(* the way behind it, however a stop, a session or a power cycle came      *)
(* between PPP_GOT_IP and its handler (modem_service.c:347, 517).          *)
IpReadyEnds == ip_ready => link = "up" \/ Contains(events, "lost")

(* A new address clears the count of early losses, so the power cycle      *)
(* after two of them (modem_service.c:378) is never reached.               *)
EarlyLossNeverTwice == ~(early = 1 /\ up_tick = "recent")

(* A session that is shown as active ends: a modem that does not answer    *)
(* must not leave the application busy (modem_service.c:634).              *)
SessionEnds == cs_active ~> ~cs_active

(* An inbox that is full, and so receives nothing more, gets room again    *)
(* while a text is within reach of a listing: in that of MT, when no       *)
(* ERROR is in it, or in that of the SIM, when MT is lost to an ERROR and  *)
(* the SIM is not (modem_service.c:1326 "Đọc SMS ở MT trước").  A text     *)
(* that only ERROR or the end of the buffer hides is out of reach, and an  *)
(* inbox full of such stays full.                                          *)
Full == \A i \in Places : inbox[i] # "none"
Reachable(i) ==
  /\ inbox[i] = "text"
  /\ \/ i <= ListSize /\ \A j \in 1..ListSize \cap Places : inbox[j] # "error"
     \/ /\ i > MeSize /\ i <= MeSize + ListSize
        /\ \A j \in Places : MeSize < j /\ j <= MeSize + ListSize => inbox[j] # "error"
        /\ \E j \in 1..ListSize \cap Places : inbox[j] = "error"
FullInboxRead == Full /\ (\E i \in Places : Reachable(i)) ~> ~Full
=============================================================================
