----------------------------- MODULE AlarmNotify -----------------------------
(***************************************************************************)
(* components/app_logic/app_logic.c: the temperature and humidity alarms   *)
(* and their texts and calls.  publish_task runs a pass of process_*       *)
(* functions every 500 ms; modem_task takes one job at a time from         *)
(* s_modem_queue and reports its result in flags both tasks write without  *)
(* a lock.  One process_* function is one step; modem_task's report is two *)
(* steps, the tests it makes and the writes those tests decide.            *)
(*                                                                         *)
(* A reading is the zone it falls in.  A time stamp is its age: "recent"   *)
(* while the delay it starts is running, "due" afterwards.  A stamp of 0   *)
(* allows a text or a call at once ("due"), and neither raises an alarm    *)
(* nor reminds of one ("unset").                                           *)
(***************************************************************************)
EXTENDS Integers, Sequences, FiniteSets

CONSTANTS Channels,        \* the monitored channels, of "TEMP" and "HUM"
          Zones,           \* the readings of the instance
          QueueLen,        \* length of s_modem_queue
          MaxCalls,        \* cap of s_alarm_call_request_count
          NotifyMax,       \* notifications of one alarm, the first included
          OtherJobs,       \* jobs of the rest of publish_task: texts, polls
          Numbers,         \* which numbers the settings may hold: "first", the
                           \* one that is called, only "others", or "none"
          ConfigChanges,   \* the settings may be edited
          Preempt          \* publish_task may run between a test of
                           \* modem_task and the write it decides

ASSUME ChannelAssumption == Channels # {} /\ Channels \subseteq {"TEMP", "HUM"}
ASSUME ZoneAssumption ==
  Zones \subseteq {"low", "lowband", "normal", "highband", "high", "invalid"}
ASSUME NumberAssumption ==
  Numbers \subseteq {"first", "others", "none"} /\ Numbers \ {"none"} # {}
ASSUME LimitAssumption == /\ QueueLen \in Nat \ {0}
                          /\ MaxCalls \in Nat \ {0}
                          /\ NotifyMax \in Nat \ {0}
ASSUME SwitchAssumption ==
  ConfigChanges \in BOOLEAN /\ Preempt \in BOOLEAN /\ OtherJobs \subseteq {"TEXT", "POLL"}

AlarmText(c) == <<"ALARM", c>>
RestoredText(c) == <<"RESTORED", c>>
AlarmCall == <<"CALL", "">>
Other(k) == <<"OTHER", k>>
NoJob == <<"NONE", "">>

(* The jobs with a job_queued flag, and all jobs                           *)
Flagged == {AlarmText(c) : c \in Channels} \cup {RestoredText(c) : c \in Channels}
             \cup {AlarmCall}
Job == Flagged \cup {Other(k) : k \in OtherJobs}

Timers == {"assert", "sms", "restored", "call"} \cup Channels
Age == {"unset", "recent", "due"}
Zero(t) == IF t \in {"sms", "restored", "call"} THEN "due" ELSE "unset"
Side == {"none", "low", "high"}
Verdict == {"restored sent", "alarms sent", "call again", "call now", "call done"}

VARIABLES
  hum_enabled, sms_target, call_target,  \* the settings in s_runtime_cfg
  reading,          \* s_last_temp1_c, s_last_humidity and their valid flags
  pc,               \* the next function of publish_task's pass
  alarm_active,     \* s_alarm_active
  side,             \* s_alarm_X_was_active and s_X_low/high_alarm_active
  count,            \* s_X_alarm_notify_count
  age,              \* the time stamps
  new_pending,      \* s_new_X_alarm_pending
  restore_pending,  \* s_restore_X_pending
  sms_pending, sms_sent,                 \* s_alarm_sms_*
  restored_sent,                         \* s_alarm_restored_sms_sent
  call_pending, call_done, call_count,   \* s_alarm_call_*
  job_queued,       \* the s_*_job_queued flags
  queue,            \* s_modem_queue
  work,             \* the job modem_task has in hand; s_modem_busy is work # NoJob
  verdict,          \* what modem_task's tests decided and it has not written yet
  closing,          \* modem_task stands between its tests and its writes
  texts,            \* history: texts delivered of the alarm in force
  carried,          \* history: its texts that no flag stood for when it began
  stale             \* history: the text in hand was composed for an earlier alarm

settings == <<hum_enabled, sms_target, call_target>>
alarm == <<alarm_active, side, count, new_pending, restore_pending>>
notice == <<sms_pending, sms_sent, restored_sent, call_pending, call_done, call_count>>
modem == <<queue, work, verdict, closing>>
history == <<texts, carried, stale>>
vars == <<settings, reading, pc, alarm, age, notice, job_queued, modem, history>>

Busy == work # NoJob
Outstanding(j) == (work = j /\ ~closing) \/ \E i \in DOMAIN queue : queue[i] = j

Init ==
  /\ hum_enabled = TRUE
  /\ \E n \in Numbers \ {"none"} : sms_target = TRUE /\ call_target = (n = "first")
  /\ reading \in [Channels -> Zones]
  /\ pc = "sample"
  /\ alarm_active = FALSE
  /\ side = [c \in Channels |-> "none"]
  /\ count = [c \in Channels |-> 0]
  /\ age = [t \in Timers |-> Zero(t)]
  /\ new_pending = [c \in Channels |-> FALSE]
  /\ restore_pending = [c \in Channels |-> FALSE]
  /\ sms_pending = FALSE /\ sms_sent = FALSE /\ restored_sent = FALSE
  /\ call_pending = FALSE /\ call_done = FALSE /\ call_count = 0
  /\ job_queued = [j \in Flagged |-> FALSE]
  /\ queue = <<>> /\ work = NoJob /\ verdict = {} /\ closing = FALSE
  /\ texts = [c \in Channels |-> 0] /\ carried = [c \in Channels |-> 0] /\ stale = FALSE

-----------------------------------------------------------------------------
(* publish_task                                                            *)

(* publish_task is at function f; it goes on to g.                         *)
Step(f, g) == pc = f /\ pc' = g /\ (closing => Preempt)

(* The ages of the timers in T are set to a.                               *)
Aged(T, a) == [t \in Timers |-> IF t \in T THEN a ELSE age[t]]

(* The time stamps of the timers in T are set to 0.                        *)
Reset(T) == [t \in Timers |-> IF t \in T THEN Zero(t) ELSE age[t]]

(* F with the value v on the channels in C                                 *)
On(F, C, v) == [c \in Channels |-> IF c \in C THEN v ELSE F[c]]

Monitored(c) == c = "HUM" => hum_enabled
AlarmNow(c) == Monitored(c) /\ reading[c] \in {"low", "high"}

(* is_X_low/high_restored_with_hyst, by the side the alarm is on           *)
RestoredNow(c) ==
  \/ side[c] = "low" /\ reading[c] \in {"normal", "highband"}
  \/ side[c] = "high" /\ reading[c] \in {"normal", "lowband"}

(* sample_sensors; with humidity switched off it also drops what is queued *)
(* for the humidity channel.                                               *)
sample_sensors ==
  LET off == {c \in Channels : ~Monitored(c)} IN
  /\ Step("sample", "logic")
  /\ reading' \in [Channels -> Zones]
  /\ new_pending' = On(new_pending, off, FALSE)
  /\ restore_pending' = On(restore_pending, off, FALSE)
  /\ count' = On(count, off, 0)
  /\ age' = Reset(off)
  /\ job_queued' = [j \in Flagged |->
                      job_queued[j] /\ ~\E c \in off : j = AlarmText(c)]
  /\ UNCHANGED <<settings, alarm_active, side, notice, modem, history>>

(* Mutated: the count of requests has no cap.                              *)
arm_alarm_call_requests_NoCap(n) ==
  call_count' = call_count + n /\ call_pending' = TRUE /\ call_done' = FALSE

(* arm_alarm_call_requests for the n channels of a new alarm or a reminder *)
arm_alarm_call_requests(n) ==
  /\ call_count' = IF call_count + n > MaxCalls THEN MaxCalls ELSE call_count + n
  /\ call_pending' = TRUE /\ call_done' = FALSE

(* Mutated: a text that was sent before counts for the new request.        *)
AskForText_KeepsSent == sms_pending' = TRUE /\ UNCHANGED sms_sent

AskForText == sms_pending' = TRUE /\ sms_sent' = FALSE

(* The texts of c in the queue, and those of them no flag stands for: an   *)
(* edit cleared it, or it stands for the text in hand.                     *)
Waiting(c) == Cardinality({i \in DOMAIN queue : queue[i] = AlarmText(c)})
Unclaimed(c) ==
  IF job_queued[AlarmText(c)] /\ (work = AlarmText(c) => closing)
    THEN Waiting(c) - 1 ELSE Waiting(c)

(* The channels in C start (or end) an alarm: nothing is delivered of it,  *)
(* a text in hand for one of them belongs to the alarm before, and one     *)
(* that waits will be composed for this alarm.                             *)
Renewed(C) == /\ texts' = On(texts, C, 0)
              /\ carried' = [c \in Channels |-> IF c \notin C THEN carried[c]
                                        ELSE IF side'[c] = "none" THEN 0 ELSE Unclaimed(c)]
              /\ stale' = (stale \/ \E c \in C : work = AlarmText(c))

(* An alarm must be asserted for APP_ALARM_ASSERT_MS before it is raised.  *)
AssertAlarm ==
  /\ ~alarm_active
  /\ age' = Aged({"assert"}, CASE \A c \in Channels : ~AlarmNow(c) -> "unset"
                               [] age["assert"] = "unset" -> "recent"
                               [] OTHER -> age["assert"])
  /\ age["assert"] # "due" \/ \A c \in Channels : ~AlarmNow(c)
  /\ UNCHANGED <<alarm, notice, history>>

RaiseAlarm ==
  LET New == {c \in Channels : AlarmNow(c)} IN
  /\ ~alarm_active /\ New # {} /\ age["assert"] = "due"
  /\ alarm_active' = TRUE
  /\ side' = [c \in Channels |-> IF c \in New THEN reading[c] ELSE "none"]
  /\ new_pending' = [c \in Channels |-> c \in New]
  /\ count' = On(count, New, 1)
  /\ age' = [t \in Timers |-> CASE t \in New -> "recent"
                                [] t \in Channels \ New -> age[t]
                                [] OTHER -> Zero(t)]
  /\ AskForText
  /\ restored_sent' = FALSE
  /\ arm_alarm_call_requests(Cardinality(New))
  /\ Renewed(New)
  /\ UNCHANGED restore_pending

(* Mutated: the alarm ends only with a channel that is back to normal.     *)
AllEnded_RestoredOnly ==
  /\ \E c \in Channels : Monitored(c) /\ RestoredNow(c)
  /\ \A c \in Channels : side'[c] = "none"

(* The last channel in alarm has ended, back to normal or switched off.    *)
AllEnded == \A c \in Channels : side'[c] = "none"

(* The alarm in force: the sides are refreshed, then                       *)
(* check_new_alarm_causes_and_queue_notify takes up the channels in New,   *)
(* then check_individual_restore_and_queue_sms ends those in Back, and     *)
(* without a text those in Off; after the last one everything is cleared,  *)
(* except call_count and new_pending.                                      *)
FollowAlarm ==
  LET New  == {c \in Channels : AlarmNow(c) /\ side[c] = "none"}
      Back == {c \in Channels : Monitored(c) /\ RestoredNow(c)}
      Off  == {c \in Channels : ~Monitored(c) /\ side[c] # "none"}
      over == AllEnded
      told == IF New \cup Back = {} THEN {} ELSE {"restored"}
  IN
  /\ alarm_active
  /\ side' = [c \in Channels |-> IF AlarmNow(c) THEN reading[c]
                                 ELSE IF c \in Back \cup Off THEN "none" ELSE side[c]]
  /\ alarm_active' = ~over
  /\ new_pending' = On(On(new_pending, New, TRUE), Off, FALSE)
  /\ restore_pending' = On(On(restore_pending, Back, TRUE), Off, FALSE)
  /\ count' = IF over THEN [c \in Channels |-> 0]
                      ELSE On(On(count, New, 1), Back \cup Off, 0)
  /\ age' = IF over
              THEN Reset({"assert", "sms", "call"} \cup Channels \cup told)
              ELSE [t \in Timers |->
                      CASE t \in New -> "recent"
                        [] t \in Back \cup Off \cup told -> Zero(t)
                        [] t \in {"sms", "call"} /\ New # {} -> Zero(t)
                        [] OTHER -> age[t]]
  /\ CASE over -> /\ sms_pending' = FALSE /\ sms_sent' = FALSE
                  /\ call_pending' = FALSE /\ call_done' = FALSE
                  /\ UNCHANGED call_count
       [] ~over /\ New # {} -> /\ AskForText
                               /\ arm_alarm_call_requests(Cardinality(New))
       [] OTHER -> UNCHANGED <<sms_pending, sms_sent, call_pending, call_done, call_count>>
  /\ restored_sent' = (restored_sent /\ told = {})
  /\ Renewed(New \cup Back \cup Off)

process_alarm_logic ==
  /\ Step("logic", "reminder")
  /\ AssertAlarm \/ RaiseAlarm \/ FollowAlarm
  /\ job_queued' = [j \in Flagged |->
       job_queued[j] /\ ~\E c \in Channels :
                          /\ alarm_active /\ ~Monitored(c) /\ side[c] # "none"
                          /\ j = AlarmText(c)]
  /\ UNCHANGED <<settings, reading, modem>>

(* Mutated: one reminder too many.                                         *)
ReminderDue_OneMore(c) ==
  side[c] # "none" /\ count[c] \in 1 .. NotifyMax /\ age[c] = "due"

ReminderDue(c) ==
  side[c] # "none" /\ count[c] \in 1 .. NotifyMax - 1 /\ age[c] = "due"

(* Every ten minutes of an alarm, NotifyMax times at most, the text and    *)
(* the call are asked for again.                                           *)
process_alarm_reminder ==
  LET Due == {c \in Channels : alarm_active /\ ~Busy /\ ReminderDue(c)} IN
  /\ Step("reminder", "sms")
  /\ IF Due = {} THEN UNCHANGED <<alarm, age, notice>>
     ELSE /\ new_pending' = On(new_pending, Due, TRUE)
          /\ count' = [c \in Channels |-> IF c \in Due THEN count[c] + 1 ELSE count[c]]
          /\ age' = [t \in Timers |-> CASE t \in Due -> "recent"
                                        [] t \in {"sms", "call"} -> Zero(t)
                                        [] OTHER -> age[t]]
          /\ AskForText
          /\ arm_alarm_call_requests(Cardinality(Due))
          /\ UNCHANGED <<alarm_active, side, restore_pending, restored_sent>>
  /\ UNCHANGED <<settings, reading, job_queued, modem, history>>

(* enqueue_modem_job, with no waiting, for the channels of `pending' with  *)
(* no such job queued, temperature first: the jobs the queue took.         *)
Taken(kind, pending) ==
  LET job(c) == IF /\ c \in Channels /\ pending[c]
                   /\ ~job_queued[<<kind, c>>] THEN <<<<kind, c>>>> ELSE <<>>
      wanted == job("TEMP") \o job("HUM")
      room   == QueueLen - Len(queue)
  IN  IF Len(wanted) <= room THEN wanted ELSE SubSeq(wanted, 1, room)

(* Mutated: the flag of a text the queue refused is set.                   *)
QueueTexts_FlagsRefused(kind, pending, timer) ==
  LET took == IF age[timer] = "recent" \/ Busy THEN <<>> ELSE Taken(kind, pending) IN
  /\ queue' = queue \o took
  /\ job_queued' = [j \in Flagged |-> job_queued[j] \/ (~Busy /\ j[1] = kind /\ pending[j[2]])]
  /\ age' = IF took = <<>> THEN age ELSE Aged({timer}, "recent")
  /\ UNCHANGED <<settings, reading, alarm, notice, work, verdict, closing, history>>

(* The jobs of `kind' are queued unless the last try is recent or the      *)
(* modem is busy; the retry delay starts when one was taken.               *)
QueueTexts(kind, pending, timer) ==
  LET took == IF age[timer] = "recent" \/ Busy THEN <<>> ELSE Taken(kind, pending) IN
  /\ queue' = queue \o took
  /\ job_queued' = [j \in Flagged |->
                      job_queued[j] \/ \E i \in DOMAIN took : took[i] = j]
  /\ age' = IF took = <<>> THEN age ELSE Aged({timer}, "recent")
  /\ UNCHANGED <<settings, reading, alarm, notice, work, verdict, closing, history>>

Unflagged(kind) == [j \in Flagged |-> job_queued[j] /\ j[1] # kind]

(* No number to write to: the alarm counts as announced.                   *)
process_alarm_sms ==
  /\ Step("sms", "restored")
  /\ CASE ~sms_pending \/ sms_sent ->
            UNCHANGED <<settings, reading, alarm, age, notice, job_queued, modem, history>>
       [] sms_pending /\ ~sms_sent /\ sms_target ->
            QueueTexts("ALARM", new_pending, "sms")
       [] OTHER ->
            /\ sms_pending' = FALSE /\ sms_sent' = TRUE
            /\ new_pending' = On(new_pending, Channels, FALSE)
            /\ job_queued' = Unflagged("ALARM")
            /\ UNCHANGED <<settings, reading, alarm_active, side, count, restore_pending,
                 age, restored_sent, call_pending, call_done, call_count, modem, history>>

process_alarm_restored_sms ==
  LET any == \E c \in Channels : restore_pending[c] IN
  /\ Step("restored", "call")
  /\ CASE ~any \/ restored_sent ->
            UNCHANGED <<settings, reading, alarm, age, notice, job_queued, modem, history>>
       [] any /\ ~restored_sent /\ sms_target ->
            QueueTexts("RESTORED", restore_pending, "restored")
       [] OTHER ->
            /\ restored_sent' = TRUE
            /\ restore_pending' = On(restore_pending, Channels, FALSE)
            /\ job_queued' = Unflagged("RESTORED")
            /\ UNCHANGED <<settings, reading, alarm_active, side, count, new_pending, age,
                 sms_pending, sms_sent, call_pending, call_done, call_count, modem, history>>

(* The delay starts whether or not the queue takes the call.               *)
QueueCall ==
  IF job_queued[AlarmCall] \/ age["call"] = "recent" \/ Busy
    THEN UNCHANGED <<age, job_queued, queue>>
    ELSE /\ age' = Aged({"call"}, "recent")
         /\ IF Len(queue) < QueueLen
              THEN /\ job_queued' = [job_queued EXCEPT ![AlarmCall] = TRUE]
                   /\ queue' = Append(queue, AlarmCall)
              ELSE UNCHANGED <<job_queued, queue>>

process_alarm_call ==
  /\ Step("call", "sample")
  /\ CASE ~call_pending \/ call_done ->
            UNCHANGED <<age, call_pending, call_done, call_count, job_queued, queue>>
       [] call_pending /\ ~call_done /\ call_target /\ call_count > 0 ->
            QueueCall /\ UNCHANGED <<call_pending, call_done, call_count>>
       [] OTHER ->
            /\ call_pending' = FALSE /\ call_done' = TRUE
            /\ call_count' = 0
            /\ job_queued' = [job_queued EXCEPT ![AlarmCall] = FALSE]
            /\ UNCHANGED <<age, queue>>
  /\ UNCHANGED <<settings, reading, alarm, sms_pending, sms_sent, restored_sent,
                 work, verdict, closing, history>>

publish_task == sample_sensors \/ process_alarm_logic \/ process_alarm_reminder
                  \/ process_alarm_sms \/ process_alarm_restored_sms \/ process_alarm_call

-----------------------------------------------------------------------------
(* modem_task                                                              *)

(* xQueueReceive; the text is composed now.                                *)
ReceiveJob ==
  /\ ~Busy /\ queue # <<>>
  /\ work' = Head(queue) /\ queue' = Tail(queue)
  /\ UNCHANGED <<settings, reading, pc, alarm, age, notice, job_queued, verdict, closing,
                 history>>

(* Mutated: the flag of the job in hand is not cleared.                    *)
Unqueued_Never == job_queued

(* Clear the flag of the job in hand.                                      *)
Unqueued == [j \in Flagged |-> job_queued[j] /\ j # work]

(* What came of a job: every number got the text, there was no number when *)
(* they were read, or something failed.                                    *)
Outcome == {"sent", "failed"} \cup (IF ConfigChanges THEN {"skipped"} ELSE {})

(* The tests after a text; a text of which some numbers got a copy and one *)
(* did not has failed.                                                     *)
ReportText(outcome) ==
  LET done == outcome # "failed" IN
  /\ work[1] \in {"ALARM", "RESTORED"} \/ work = Other("TEXT")
  /\ new_pending' = [c \in Channels |->
                       new_pending[c] /\ ~(done /\ work = AlarmText(c))]
  /\ restore_pending' = [c \in Channels |->
                           restore_pending[c] /\ ~(done /\ work = RestoredText(c))]
  /\ verdict' =
       (IF /\ done /\ work[1] = "RESTORED"
           /\ \A c \in Channels : c # work[2] => ~restore_pending[c]
          THEN {"restored sent"} ELSE {})
       \cup (IF \A c \in Channels : ~new_pending'[c] THEN {"alarms sent"} ELSE {})
  /\ texts' = [c \in Channels |->
                 IF outcome = "sent" /\ work = AlarmText(c) /\ ~stale /\ side[c] # "none"
                   THEN texts[c] + 1 ELSE texts[c]]
  /\ UNCHANGED <<alarm_active, side, count, call_count>>

(* A poll of the inbox has nothing to report here.                         *)
ReportPoll ==
  /\ work = Other("POLL")
  /\ verdict' = {}
  /\ UNCHANGED <<alarm, call_count, texts>>

ReportCall(outcome) ==
  LET done == outcome # "failed" IN
  /\ work = AlarmCall
  /\ call_count' = IF done /\ call_count > 0 THEN call_count - 1 ELSE call_count
  /\ verdict' = CASE ~done -> {"call again"}
                  [] done /\ call_count' > 0 -> {"call again", "call now"}
                  [] OTHER -> {"call done"}
  /\ UNCHANGED <<alarm, texts>>

TestJob(outcome) ==
  /\ Busy /\ ~closing
  /\ closing' = TRUE
  /\ job_queued' = Unqueued
  /\ ReportText(outcome) \/ ReportPoll \/ ReportCall(outcome)
  /\ UNCHANGED <<settings, reading, pc, age, sms_pending, sms_sent, restored_sent,
                 call_pending, call_done, queue, work, carried, stale>>

(* The writes the tests decided; then s_modem_busy is cleared.             *)
CloseJob ==
  /\ closing
  /\ closing' = FALSE /\ verdict' = {} /\ work' = NoJob
  /\ sms_pending' = (sms_pending /\ "alarms sent" \notin verdict)
  /\ sms_sent' = (sms_sent \/ "alarms sent" \in verdict)
  /\ restored_sent' = (restored_sent \/ "restored sent" \in verdict)
  /\ call_pending' = ((call_pending /\ "call done" \notin verdict)
                        \/ "call again" \in verdict)
  /\ call_done' = ((call_done /\ "call again" \notin verdict) \/ "call done" \in verdict)
  /\ age' = IF "call now" \in verdict THEN Reset({"call"}) ELSE age
  /\ stale' = FALSE
  /\ UNCHANGED <<settings, reading, pc, alarm, call_count, job_queued, queue, texts, carried>>

modem_task == ReceiveJob \/ (\E outcome \in Outcome : TestJob(outcome)) \/ CloseJob

-----------------------------------------------------------------------------
(* The rest of the system                                                  *)

Elapse(t) == /\ age[t] = "recent"
             /\ age' = [age EXCEPT ![t] = "due"]
             /\ UNCHANGED <<settings, reading, pc, alarm, notice, job_queued, modem, history>>

(* The power and sensor texts share the queue.                             *)
EnqueueOther ==
  /\ Len(queue) < QueueLen
  /\ \E k \in OtherJobs \ {"POLL"} : queue' = Append(queue, Other(k))
  /\ UNCHANGED <<settings, reading, pc, alarm, age, notice, job_queued, work, verdict,
                 closing, history>>

(* The poll of the inbox is only asked for while the modem has no job.     *)
QueuePoll ==
  /\ ~Busy /\ Len(queue) < QueueLen
  /\ queue' = Append(queue, Other("POLL"))
  /\ UNCHANGED <<settings, reading, pc, alarm, age, notice, job_queued, work, verdict,
                 closing, history>>

(* A poll that has found the modem busy for more than a minute restarts    *)
(* the chip; only the settings are kept.                                   *)
Restart ==
  /\ Busy /\ (closing => Preempt)
  /\ reading' \in [Channels -> Zones]
  /\ pc' = "sample"
  /\ alarm_active' = FALSE /\ side' = [c \in Channels |-> "none"]
  /\ count' = [c \in Channels |-> 0]
  /\ age' = [t \in Timers |-> Zero(t)]
  /\ new_pending' = [c \in Channels |-> FALSE]
  /\ restore_pending' = [c \in Channels |-> FALSE]
  /\ sms_pending' = FALSE /\ sms_sent' = FALSE /\ restored_sent' = FALSE
  /\ call_pending' = FALSE /\ call_done' = FALSE /\ call_count' = 0
  /\ job_queued' = [j \in Flagged |-> FALSE]
  /\ queue' = <<>> /\ work' = NoJob /\ verdict' = {} /\ closing' = FALSE
  /\ texts' = [c \in Channels |-> 0] /\ carried' = [c \in Channels |-> 0]
  /\ stale' = FALSE
  /\ UNCHANGED settings

process_incoming_sms_commands == "POLL" \in OtherJobs /\ (QueuePoll \/ Restart)

(* An SMS command or the cloud edits the settings.                         *)
ChangeSettings ==
  /\ ConfigChanges
  /\ hum_enabled' \in {TRUE, "HUM" \notin Channels}
  /\ \E n \in Numbers : sms_target' = (n # "none") /\ call_target' = (n = "first")
  /\ UNCHANGED <<reading, pc, alarm, age, notice, job_queued, modem, history>>

(* An SMS command or the cloud sets limits beyond which the reading now    *)
(* lies, on another side than before: handle_web_limit_update has the      *)
(* alarm raised at once, in the task of the modem or of the cloud, with    *)
(* publish_task between any two functions of its pass.                     *)
LimitUpdate(c) ==
  /\ ConfigChanges /\ Monitored(c)
  /\ \E z \in (Zones \cap {"low", "high"}) \ {reading[c]} :
       reading' = [reading EXCEPT ![c] = z] /\ side' = [side EXCEPT ![c] = z]
  /\ alarm_active' = TRUE
  /\ new_pending' = On(new_pending, {c}, TRUE)
  /\ count' = On(count, {c}, 1)
  /\ age' = [t \in Timers |-> CASE t = c -> "recent"
                                [] t \in Channels \ {c} -> age[t]
                                [] OTHER -> Zero(t)]
  /\ AskForText
  /\ restored_sent' = FALSE
  /\ arm_alarm_call_requests(1)
  /\ Renewed({c})
  /\ UNCHANGED <<settings, pc, restore_pending, job_queued, modem>>

Next == \/ publish_task \/ modem_task
        \/ \E t \in Timers : Elapse(t)
        \/ EnqueueOther \/ process_incoming_sms_commands
        \/ ChangeSettings \/ \E c \in Channels : LimitUpdate(c)

Spec == Init /\ [][Next]_vars

(* Both tasks are run, time passes, and a number that is tried for ever is *)
(* reached at last.                                                        *)
Fairness ==
  /\ WF_vars(publish_task) /\ WF_vars(ReceiveJob) /\ WF_vars(CloseJob)
  /\ WF_vars(\E outcome \in Outcome : TestJob(outcome))
  /\ \A j \in Flagged : SF_vars(work = j /\ TestJob("sent"))
  /\ \A t \in Timers : WF_vars(Elapse(t))

FairSpec == Spec /\ Fairness

-----------------------------------------------------------------------------
TypeOK ==
  /\ hum_enabled \in BOOLEAN /\ sms_target \in BOOLEAN /\ call_target \in BOOLEAN
  /\ reading \in [Channels -> Zones]
  /\ pc \in {"sample", "logic", "reminder", "sms", "restored", "call"}
  /\ alarm_active \in BOOLEAN
  /\ side \in [Channels -> Side]
  /\ count \in [Channels -> 0 .. NotifyMax]
  /\ age \in [Timers -> Age]
  /\ new_pending \in [Channels -> BOOLEAN] /\ restore_pending \in [Channels -> BOOLEAN]
  /\ sms_pending \in BOOLEAN /\ sms_sent \in BOOLEAN /\ restored_sent \in BOOLEAN
  /\ call_pending \in BOOLEAN /\ call_done \in BOOLEAN /\ call_count \in 0 .. MaxCalls
  /\ job_queued \in [Flagged -> BOOLEAN]
  /\ queue \in Seq(Job) /\ Len(queue) <= QueueLen
  /\ work \in Job \cup {NoJob} /\ verdict \subseteq Verdict
  /\ closing \in BOOLEAN /\ (closing => Busy)
  /\ texts \in [Channels -> Nat] /\ carried \in [Channels -> Nat]
  /\ stale \in BOOLEAN

(* A job_queued flag stands for a job that is still to report: a flag left *)
(* over would silence that text or call for ever (app_logic.c:2117-2139,   *)
(* 2222-2238).                                                             *)
JobFlagsLive == \A j \in Flagged : job_queued[j] => Outstanding(j)

(* The alarm is in force exactly while one of the channels is, and a       *)
(* channel out of alarm has no notifications counted                       *)
(* (app_logic.c:1636-1696).                                                *)
AlarmIsItsChannels ==
  /\ alarm_active = \E c \in Channels : side[c] # "none"
  /\ \A c \in Channels : side[c] = "none" => count[c] = 0

(* "Toi da 3 lan tong cong" (app_logic.c:2285-2320), as far as the code    *)
(* keeps it: every number is told of an alarm by as many texts as its      *)
(* schedule of first notification and reminders has, whatever fails, is    *)
(* skipped or is tried again, and by one more for each text that the alarm *)
(* found in the queue without its flag, which HUM_OFF or an edit of the    *)
(* numbers had cleared.  A text that failed for one number is sent to all  *)
(* of them again; only the one that reaches all is counted.                *)
TextsWithinSchedule == \A c \in Channels : texts[c] <= NotifyMax + carried[c]

(* A text that is in the queue or in hand has its flag and is there once:  *)
(* no retry queues it a second time (app_logic.c:2117-2139, 2170-2192).    *)
(* It holds while no edit of the settings clears the flag of a text that   *)
(* still waits.                                                            *)
OneTextAtATime ==
  \A j \in Flagged \ {AlarmCall} :
    /\ Outstanding(j) => job_queued[j]
    /\ \A i, k \in DOMAIN queue : queue[i] = j /\ queue[k] = j => i = k
    /\ work = j /\ ~closing => \A i \in DOMAIN queue : queue[i] # j

TextWanted(c) == new_pending[c] /\ sms_pending /\ ~sms_sent

(* An alarm in force of which nobody was told is not forgotten, whatever   *)
(* fails, is full, or is overtaken by the report of an earlier text: its   *)
(* text is asked for or a reminder that will ask for it is still to come   *)
(* (app_logic.c:1532-1542, 2285-2331).  A limit of one notification would  *)
(* not do, since a report may take the first request down with it.         *)
UntoldAlarmRemembered ==
  \A c \in Channels : side[c] # "none" /\ texts[c] = 0 =>
    TextWanted(c) \/ (count[c] < NotifyMax /\ age[c] # "unset")

(* A reading that stays beyond its limit is announced by a text composed   *)
(* for that alarm: the reminders make good what the first round lost.      *)
LastingAlarmAnnounced ==
  \A c \in Channels : <>[](AlarmNow(c) /\ sms_target) => <>[](texts[c] > 0)

(* Readings that stay normal end the alarm, deliver the restored texts and *)
(* leave the modem with nothing to do.                                     *)
SettlesDown ==
  <>[](sms_target /\ call_target /\ \A c \in Channels : reading[c] = "normal")
    => <>[](/\ ~alarm_active /\ queue = <<>> /\ ~Busy
            /\ ~call_pending
            /\ \A c \in Channels : ~restore_pending[c])
=============================================================================
