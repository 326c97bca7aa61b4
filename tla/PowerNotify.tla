----------------------------- MODULE PowerNotify -----------------------------
(***************************************************************************)
(* components/app_logic/app_logic.c: the text and the call of a mains      *)
(* outage, its reminders and the text of the return of the mains.  Three   *)
(* tasks write the flags without a lock: the power monitor's task runs     *)
(* on_power_monitor_event, publish_task the boot check and the process_*   *)
(* functions, modem_task reports the job it has done.  The monitor itself  *)
(* is the one of PowerMonitor, reduced to the changes it declares.  Other  *)
(* jobs of modem_task are left out: they delay these, and fill the queue,  *)
(* as these do themselves.                                                 *)
(*                                                                         *)
(* A pending/sent pair of flags is one value, "idle", "wanted" or "sent",  *)
(* since every writer writes both.  A time stamp is its age: the delay it  *)
(* starts is running ("recent") or has passed ("due"); a stamp of 0 allows *)
(* a text or call at once ("due") and no reminder ("unset").               *)
(***************************************************************************)
EXTENDS Integers, Sequences

CONSTANTS QueueLen,        \* length of s_modem_queue
          NotifyMax,       \* the limit process_power_lost_reminder tests
          ConfigChanges    \* the alarm numbers may be edited

(* At least two: an outage noted after a reminder's test counts as one text *)
(* and the reminder adds its own.                                          *)
ASSUME LimitAssumption == QueueLen \in Nat \ {0} /\ NotifyMax \in Nat \ {0, 1}
ASSUME SwitchAssumption == ConfigChanges \in BOOLEAN

Job == {"POWER_LOST", "POWER_RESTORED", "CALL"}
Timers == {"lost", "restored", "call", "notify"}
Age == {"unset", "recent", "due"}
Notice == {"idle", "wanted", "sent"}
PC == {"boot", "boot noted", "lost", "restored", "reminder", "remind", "call"}

VARIABLES
  supply,                   \* g_pm.state
  event,                    \* the event whose callback is about to run
  pc,                       \* the next function of publish_task's pass
  boot_checked,             \* s_power_boot_checked
  sensor_ready,             \* s_boot_sensor_ready
  sms_target, call_target,  \* the numbers in s_runtime_cfg
  lost_sms, restored_sms,   \* s_power_lost_sms_*, s_power_restored_sms_*
  lost_call,                \* s_power_lost_call_*; "sent" stands for done
  age,                      \* the time stamps
  notify_count,             \* s_power_lost_notify_count
  queue, work,              \* s_modem_queue and the job in hand
  told, stale,              \* history: this outage was told; the text in hand
                            \* is of an earlier one
  torn                      \* history: the last event of the monitor was refused
                            \* by the bus, or noted between a test of
                            \* publish_task and the writes it decides

boot == <<boot_checked, sensor_ready>>
settings == <<sms_target, call_target>>
monitor == <<supply, event>>
notices == <<lost_sms, restored_sms, lost_call>>
history == <<told, stale, torn>>
vars == <<monitor, pc, boot, settings, notices, age, notify_count, queue, work,
          history>>

Unset == [t \in Timers |-> IF t = "notify" THEN "unset" ELSE "due"]
Busy == work # "NONE"

Init ==
  /\ supply \in {"UNKNOWN", "MAIN_OK", "MAIN_LOST"} /\ event = "NONE"
  /\ pc = "boot" /\ boot_checked = FALSE /\ sensor_ready = FALSE
  /\ sms_target = TRUE /\ call_target = TRUE
  /\ lost_sms = "idle" /\ restored_sms = "idle" /\ lost_call = "idle"
  /\ age = Unset /\ notify_count = 0
  /\ queue = <<>> /\ work = "NONE"
  /\ told = FALSE /\ stale = FALSE /\ torn = FALSE

-----------------------------------------------------------------------------
(* The power monitor's task                                                *)

(* process_sample leaves POWER_STATE_UNKNOWN without an event.             *)
LearnSupply ==
  /\ supply = "UNKNOWN"
  /\ supply' \in {"MAIN_OK", "MAIN_LOST"}
  /\ UNCHANGED <<event, pc, boot, settings, notices, age, notify_count, queue,
                 work, history>>

(* A confirmed change sets the state, then publish_and_notify goes for the *)
(* callback unless the bus is full; nothing more is sampled before the     *)
(* callback has returned.                                                  *)
ChangeSupply ==
  /\ event = "NONE"
  /\ \/ /\ supply = "MAIN_OK" /\ supply' = "MAIN_LOST"
        /\ event' \in {"MAIN_LOST", "NONE"}
     \/ /\ supply = "MAIN_LOST" /\ supply' = "MAIN_OK"
        /\ event' \in {"MAIN_RESTORED", "NONE"}
  /\ told' = FALSE /\ stale' = (work = "POWER_LOST")
  /\ torn' = (torn \/ event' = "NONE")
  /\ UNCHANGED <<pc, boot, settings, notices, age, notify_count, queue, work>>

(* What the boot check, the callback and the reminder all do to have an    *)
(* outage told: the text now, the call once the text was sent.             *)
TellOutage(n) ==
  /\ lost_sms' = "wanted" /\ lost_call' = "idle"
  /\ notify_count' = n
  /\ age' = [age EXCEPT !["lost"] = "due", !["call"] = "due", !["notify"] = "recent"]

NoteLost ==
  /\ event = "MAIN_LOST"
  /\ restored_sms' = "idle"
  /\ lost_sms' = "wanted" /\ lost_call' = "idle"
  /\ notify_count' = 1
  /\ age' = [t \in Timers |-> IF t = "notify" THEN "recent" ELSE "due"]

NoteRestored ==
  /\ event = "MAIN_RESTORED"
  /\ restored_sms' = "wanted"
  /\ lost_sms' = "idle" /\ lost_call' = "idle"
  /\ notify_count' = 0
  /\ age' = Unset

on_power_monitor_event ==
  /\ NoteLost \/ NoteRestored
  /\ event' = "NONE"
  /\ torn' = (pc \in {"boot noted", "remind"})
  /\ UNCHANGED <<supply, pc, boot, settings, queue, work, told, stale>>

-----------------------------------------------------------------------------
(* publish_task                                                            *)

(* A temperature was read; and once after start, an outage the monitor     *)
(* learned without an event.                                               *)
BootCheck ==
  /\ pc = "boot"
  /\ pc' = IF ~boot_checked /\ supply = "MAIN_LOST" THEN "boot noted" ELSE "lost"
  /\ boot_checked' = TRUE /\ sensor_ready' \in {sensor_ready, TRUE}
  /\ UNCHANGED <<monitor, settings, notices, age, notify_count, queue, work, history>>

BootNote ==
  /\ pc = "boot noted" /\ pc' = "lost"
  /\ TellOutage(1)
  /\ UNCHANGED <<monitor, boot, settings, restored_sms, queue, work, history>>

(* Mutated: the queue has no limit.                                        *)
QueueNotice_NoLimit(job, timer) ==
  IF age[timer] = "recent" \/ Busy
    THEN UNCHANGED <<age, queue>>
    ELSE /\ age' = [age EXCEPT ![timer] = "recent"] /\ queue' = Append(queue, job)

(* A wanted notice is queued unless its last try is recent or the modem is *)
(* busy; the retry delay starts even when the queue is full.  There is no  *)
(* job_queued flag.                                                        *)
QueueNotice(job, timer) ==
  IF age[timer] = "recent" \/ Busy
    THEN UNCHANGED <<age, queue>>
    ELSE /\ age' = [age EXCEPT ![timer] = "recent"]
         /\ queue' = IF Len(queue) < QueueLen THEN Append(queue, job) ELSE queue

(* With no number to write to, the outage counts as told.                  *)
process_power_lost_sms ==
  /\ pc = "lost" /\ pc' = "restored"
  /\ CASE lost_sms # "wanted" \/ ~sensor_ready -> UNCHANGED <<lost_sms, age, queue, told>>
       [] lost_sms = "wanted" /\ sensor_ready /\ ~sms_target ->
            lost_sms' = "sent" /\ told' = TRUE /\ UNCHANGED <<age, queue>>
       [] OTHER -> QueueNotice("POWER_LOST", "lost") /\ UNCHANGED <<lost_sms, told>>
  /\ UNCHANGED <<monitor, boot, settings, restored_sms, lost_call, notify_count,
                 work, stale, torn>>

process_power_restored_sms ==
  /\ pc = "restored" /\ pc' = "reminder"
  /\ CASE restored_sms # "wanted" \/ ~sensor_ready -> UNCHANGED <<restored_sms, age, queue>>
       [] restored_sms = "wanted" /\ sensor_ready /\ ~sms_target ->
            restored_sms' = "sent" /\ UNCHANGED <<age, queue>>
       [] OTHER -> QueueNotice("POWER_RESTORED", "restored") /\ UNCHANGED restored_sms
  /\ UNCHANGED <<monitor, boot, settings, lost_sms, lost_call, notify_count,
                 work, history>>

(* process_power_lost_reminder, its tests: the state it read is used after *)
(* the monitor may have changed it.                                        *)
ReminderTest ==
  LET due == supply = "MAIN_LOST" /\ age["notify"] = "due" /\ ~Busy IN
  /\ pc = "reminder"
  /\ pc' = IF due /\ notify_count < NotifyMax THEN "remind" ELSE "call"
  /\ age' = IF due /\ notify_count >= NotifyMax
              THEN [age EXCEPT !["notify"] = "recent"] ELSE age
  /\ UNCHANGED <<monitor, boot, settings, notices, notify_count, queue, work,
                 history>>

(* Mutated: the reminder asks for the call alone.                          *)
Remind_CallOnly ==
  /\ pc = "remind" /\ pc' = "call"
  /\ lost_call' = "wanted" /\ notify_count' = notify_count + 1
  /\ age' = [age EXCEPT !["call"] = "due", !["notify"] = "recent"]
  /\ UNCHANGED <<monitor, boot, settings, lost_sms, restored_sms, queue, work,
                 history>>

Remind ==
  /\ pc = "remind" /\ pc' = "call"
  /\ TellOutage(notify_count + 1)
  /\ UNCHANGED <<monitor, boot, settings, restored_sms, queue, work, history>>

process_power_lost_call ==
  /\ pc = "call" /\ pc' = "boot"
  /\ CASE lost_call # "wanted" -> UNCHANGED <<lost_call, age, queue>>
       [] lost_call = "wanted" /\ ~call_target ->
            lost_call' = "sent" /\ UNCHANGED <<age, queue>>
       [] OTHER -> QueueNotice("CALL", "call") /\ UNCHANGED lost_call
  /\ UNCHANGED <<monitor, boot, settings, lost_sms, restored_sms, notify_count,
                 work, history>>

publish_task == BootCheck \/ BootNote \/ process_power_lost_sms
                  \/ process_power_restored_sms \/ ReminderTest \/ Remind
                  \/ process_power_lost_call

-----------------------------------------------------------------------------
(* modem_task                                                              *)

ReceiveJob ==
  /\ ~Busy /\ queue # <<>>
  /\ work' = Head(queue) /\ queue' = Tail(queue)
  /\ UNCHANGED <<monitor, pc, boot, settings, notices, age, notify_count, history>>

(* Mutated: a call that went through is not taken off.                     *)
JobDone_NoCallDone(done) ==
  /\ lost_sms' = IF done /\ work = "POWER_LOST" THEN "sent" ELSE lost_sms
  /\ restored_sms' = IF done /\ work = "POWER_RESTORED" THEN "sent" ELSE restored_sms
  /\ lost_call' = IF done /\ work = "POWER_LOST" THEN "wanted" ELSE lost_call
  /\ age' = IF done /\ work = "POWER_LOST" THEN [age EXCEPT !["call"] = "due"] ELSE age

(* The report of a job; `done' says every number got the text, or none is  *)
(* set, or the call went through.  The outage's text asks for its call.    *)
JobDone(done) ==
  /\ lost_sms' = IF done /\ work = "POWER_LOST" THEN "sent" ELSE lost_sms
  /\ restored_sms' = IF done /\ work = "POWER_RESTORED" THEN "sent" ELSE restored_sms
  /\ lost_call' = CASE done /\ work = "POWER_LOST" -> "wanted"
                    [] done /\ work = "CALL" -> "sent"
                    [] OTHER -> lost_call
  /\ age' = IF done /\ work = "POWER_LOST" THEN [age EXCEPT !["call"] = "due"] ELSE age

FinishJob(done) ==
  /\ Busy /\ work' = "NONE"
  /\ JobDone(done)
  /\ stale' = FALSE
  /\ told' = (told \/ (done /\ work = "POWER_LOST" /\ ~stale))
  /\ UNCHANGED <<monitor, pc, boot, settings, notify_count, queue, torn>>

modem_task == ReceiveJob \/ \E done \in BOOLEAN : FinishJob(done)

-----------------------------------------------------------------------------
Elapse(t) == /\ age[t] = "recent"
             /\ age' = [age EXCEPT ![t] = "due"]
             /\ UNCHANGED <<monitor, pc, boot, settings, notices, notify_count,
                            queue, work, history>>

ChangeSettings ==
  /\ ConfigChanges
  /\ sms_target' \in BOOLEAN /\ call_target' \in BOOLEAN /\ (call_target' => sms_target')
  /\ UNCHANGED <<monitor, pc, boot, notices, age, notify_count, queue, work,
                 history>>

Next == \/ LearnSupply \/ ChangeSupply \/ on_power_monitor_event
        \/ publish_task \/ modem_task
        \/ \E t \in Timers : Elapse(t)
        \/ ChangeSettings

Spec == Init /\ [][Next]_vars

(* The tasks run, time passes, and a number tried for ever is reached.     *)
FairSpec ==
  /\ Spec
  /\ WF_vars(on_power_monitor_event) /\ WF_vars(publish_task) /\ WF_vars(ReceiveJob)
  /\ WF_vars(\E done \in BOOLEAN : FinishJob(done))
  /\ \A j \in Job : SF_vars(work = j /\ FinishJob(TRUE))
  /\ \A t \in Timers : WF_vars(Elapse(t))

-----------------------------------------------------------------------------
TypeOK ==
  /\ supply \in {"UNKNOWN", "MAIN_OK", "MAIN_LOST"}
  /\ event \in {"NONE", "MAIN_LOST", "MAIN_RESTORED"}
  /\ pc \in PC /\ boot_checked \in BOOLEAN /\ sensor_ready \in BOOLEAN
  /\ sms_target \in BOOLEAN /\ call_target \in BOOLEAN
  /\ lost_sms \in Notice /\ restored_sms \in Notice /\ lost_call \in Notice
  /\ age \in [Timers -> Age]
  /\ notify_count \in 0 .. NotifyMax
  /\ queue \in Seq(Job) /\ Len(queue) <= QueueLen
  /\ work \in Job \cup {"NONE"}
  /\ told \in BOOLEAN /\ stale \in BOOLEAN /\ torn \in BOOLEAN

(* The call of an outage is asked for only when its text was sent: an      *)
(* event, a reminder or the boot check that wants the text again takes     *)
(* back the call (app_logic.c:2990-2997, 3894-3902, 3923-3966).            *)
CallAfterText == lost_call = "wanted" => lost_sms = "sent"

(* An outage app_logic has noted and that lasts is told by a text composed *)
(* in it: the reminders make good a text whose report came too late        *)
(* (app_logic.c:3856-3907).                                                *)
NotedOutageTold ==
  <>[](/\ supply = "MAIN_LOST" /\ notify_count > 0 /\ ~torn /\ sensor_ready
       /\ sms_target)
    => <>[]told

(* Once the mains stays, no text is left wanted and the modem has nothing  *)
(* more to do (app_logic.c:2990-3027, 3792-3854, 3971-4004).               *)
ReturnSettles ==
  <>[](supply = "MAIN_OK" /\ sensor_ready /\ sms_target /\ call_target)
    => <>[](/\ lost_sms # "wanted" /\ restored_sms # "wanted" /\ lost_call # "wanted"
            /\ queue = <<>> /\ ~Busy)
=============================================================================
