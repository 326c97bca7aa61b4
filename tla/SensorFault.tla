----------------------------- MODULE SensorFault -----------------------------
(***************************************************************************)
(* components/app_logic/app_logic.c: the fault of one sensor, the NTC or   *)
(* the SHT30.  Every pass of publish_task samples the sensor and confirms  *)
(* a fault or its end by counting samples; a confirmed fault and its end   *)
(* are each told by a text that modem_task sends, and every change of the  *)
(* raw state by an event for the server.  The two sensors run the same     *)
(* code except that the NTC is silent for the first seconds after start    *)
(* and its restored text needs a fault text before it, while the SHT30 can *)
(* be switched off.                                                        *)
(*                                                                         *)
(* A pending/sent pair of flags is one value, as in PowerNotify; a time    *)
(* stamp is its age, "recent" while the retry delay is running.  The       *)
(* counters stop at the value they are compared with (the code's at 255).  *)
(***************************************************************************)
EXTENDS Integers, Sequences

CONSTANTS Kinds,           \* the sensors of the instance, of "NTC" and "SHT"
          Reasons,         \* why a reading may be refused
          FaultConfirm,    \* APP_NTC_FAULT_CONFIRM_COUNT, APP_SHT_FAULT_...
          RestoreConfirm,  \* APP_NTC_RESTORE_CONFIRM_COUNT, APP_SHT_...
          QueueLen,        \* length of s_modem_queue
          OtherJobs,       \* other jobs share the queue
          ConfigChanges    \* the numbers and HUM_ON/HUM_OFF may be edited

ASSUME KindAssumption == Kinds # {} /\ Kinds \subseteq {"NTC", "SHT"}
ASSUME ReasonAssumption == Reasons # {} /\ {"none", "hum_off"} \cap Reasons = {}
ASSUME CountAssumption == /\ FaultConfirm \in Nat \ {0}
                          /\ RestoreConfirm \in Nat \ {0}
                          /\ QueueLen \in Nat \ {0}
ASSUME SwitchAssumption == OtherJobs \in BOOLEAN /\ ConfigChanges \in BOOLEAN

Texts == {"FAULT", "RESTORED"}
Job == Texts \cup {"OTHER"}
Age == {"recent", "due"}
Notice == {"idle", "wanted", "sent"}

VARIABLES
  kind,                             \* which of the two sensors this is
  hum_enabled, sms_target,          \* settings in s_runtime_cfg
  grace,                            \* APP_NTC_BOOT_GRACE_MS has not passed
  pc,                               \* the next function of publish_task's pass
  active, reason, notify_pending,   \* s_X_fault_active, _reason, _notify_pending
  confirmed, sent_once,             \* s_X_fault_confirmed, s_X_fault_sms_sent_once
  fault_count, restore_count,       \* s_X_fault_confirm_count, s_X_restore_...
  sms,                              \* s_X_fault_sms_* and s_X_restored_sms_*
  age,                              \* s_last_X_*_sms_try_ms
  job_queued,                       \* s_X_*_sms_job_queued
  queue, work,                      \* s_modem_queue and the job in hand
  told,                             \* history: the last text that was done with
  informed,                         \* history: of the fault in force, "sent" once a
                                    \* fault text went out to every number,
                                    \* "skipped" once there was no number for one
  cloud,                            \* history: the last event for the server
  bad, good                         \* history: runs of samples, capped

settings == <<kind, hum_enabled, sms_target, grace>>
fault == <<active, reason, notify_pending>>
confirm == <<confirmed, fault_count, restore_count>>
notice == <<sms, age, job_queued, sent_once>>
modem == <<queue, work>>
history == <<told, informed>>
vars == <<settings, pc, fault, confirm, notice, modem, history, cloud, bad, good>>

Busy == work # "NONE"
Outstanding(t) == work = t \/ \E i \in DOMAIN queue : queue[i] = t

None == [t \in Texts |-> "idle"]
Refused == <<TRUE, "refused">>
Untried == [t \in Texts |-> "due"]
Unflagged == [t \in Texts |-> FALSE]

Init ==
  /\ kind \in Kinds /\ hum_enabled = TRUE /\ sms_target = TRUE
  /\ grace = (kind = "NTC")
  /\ pc = "sample"
  /\ active = FALSE /\ reason = "none" /\ notify_pending = FALSE
  /\ confirmed = FALSE /\ sent_once = FALSE /\ fault_count = 0 /\ restore_count = 0
  /\ sms = None /\ age = Untried /\ job_queued = Unflagged
  /\ queue = <<>> /\ work = "NONE"
  /\ told = "NONE" /\ informed = "no" /\ cloud = <<FALSE, "none">> /\ bad = 0 /\ good = 0

-----------------------------------------------------------------------------
(* publish_task                                                            *)

Silent == grace \/ ~hum_enabled

(* Mutated: a fault that changes its reason is not reported again.         *)
update_sensor_fault_state_ActiveOnly(r) ==
  LET now == r \in Reasons IN
  /\ active' = now /\ reason' = r
  /\ notify_pending' = (notify_pending \/ active # now)

update_sensor_fault_state(r) ==
  LET now == r \in Reasons IN
  /\ active' = now /\ reason' = r
  /\ notify_pending' = (notify_pending \/ active # now \/ (now /\ reason # r))

(* In the grace of the NTC, or with the humidity switched off              *)
StaySilent ==
  /\ confirmed' = FALSE /\ sent_once' = FALSE
  /\ fault_count' = 0 /\ restore_count' = 0
  /\ sms' = None /\ age' = Untried /\ job_queued' = Unflagged
  /\ informed' = "no"

(* Mutated: the count of faulty samples has no limit.                      *)
Faulty_NoCap ==
  /\ restore_count' = 0
  /\ fault_count' = fault_count + 1
  /\ IF ~confirmed /\ fault_count' = FaultConfirm
       THEN /\ confirmed' = TRUE
            /\ sms' = [t \in Texts |-> IF t = "FAULT" THEN "wanted" ELSE "idle"]
            /\ age' = Untried /\ job_queued' = Unflagged /\ informed' = "no"
       ELSE UNCHANGED <<confirmed, sms, age, job_queued, informed>>
  /\ UNCHANGED sent_once

Faulty ==
  /\ restore_count' = 0
  /\ fault_count' = IF fault_count < FaultConfirm THEN fault_count + 1 ELSE fault_count
  /\ IF ~confirmed /\ fault_count' = FaultConfirm
       THEN /\ confirmed' = TRUE
            /\ sms' = [t \in Texts |-> IF t = "FAULT" THEN "wanted" ELSE "idle"]
            /\ age' = Untried /\ job_queued' = Unflagged /\ informed' = "no"
       ELSE UNCHANGED <<confirmed, sms, age, job_queued, informed>>
  /\ UNCHANGED sent_once

(* Mutated: the end of a fault leaves its text wanted.                     *)
Restored_KeepsFault ==
  /\ confirmed' = FALSE /\ restore_count' = 0 /\ informed' = "no"
  /\ sms' = [sms EXCEPT !["RESTORED"] = IF sent_once \/ kind = "SHT" THEN "wanted"
                                                                     ELSE "idle"]
  /\ age' = [age EXCEPT !["RESTORED"] = "due"]
  /\ job_queued' = [job_queued EXCEPT !["RESTORED"] = FALSE]

(* The fault has ended: the NTC tells it only when the fault was told, and *)
(* then leaves a fault text that is still wanted as it is.                 *)
Restored ==
  /\ confirmed' = FALSE /\ restore_count' = 0 /\ informed' = "no"
  /\ IF sent_once \/ kind = "SHT"
       THEN /\ sms' = [t \in Texts |-> IF t = "RESTORED" THEN "wanted" ELSE "idle"]
            /\ age' = Untried /\ job_queued' = Unflagged
       ELSE /\ sms' = [sms EXCEPT !["RESTORED"] = "idle"]
            /\ age' = [age EXCEPT !["RESTORED"] = "due"]
            /\ job_queued' = [job_queued EXCEPT !["RESTORED"] = FALSE]

(* Mutated: a good sample does not restart the count of faulty ones.       *)
Working_KeepsCount ==
  /\ UNCHANGED <<fault_count, sent_once>>
  /\ CASE ~confirmed ->
            /\ restore_count' = 0
            /\ sms' = IF sms["RESTORED"] = "wanted" THEN [sms EXCEPT !["RESTORED"] = "idle"]
                                                   ELSE sms
            /\ UNCHANGED <<confirmed, age, job_queued, informed>>
       [] confirmed /\ restore_count + 1 < RestoreConfirm ->
            /\ restore_count' = restore_count + 1
            /\ UNCHANGED <<confirmed, sms, age, job_queued, informed>>
       [] OTHER -> Restored

(* With no fault confirmed every good sample withdraws a restored text     *)
(* that is still wanted.                                                   *)
Working ==
  /\ fault_count' = 0
  /\ CASE ~confirmed ->
            /\ restore_count' = 0
            /\ sms' = IF sms["RESTORED"] = "wanted" THEN [sms EXCEPT !["RESTORED"] = "idle"]
                                                   ELSE sms
            /\ UNCHANGED <<confirmed, age, job_queued, informed>>
       [] confirmed /\ restore_count + 1 < RestoreConfirm ->
            /\ restore_count' = restore_count + 1
            /\ UNCHANGED <<confirmed, sms, age, job_queued, informed>>
       [] OTHER -> Restored
  /\ UNCHANGED sent_once

Grow(n, max) == IF n < max THEN n + 1 ELSE max

(* The sensor's part of sample_sensors                                     *)
sample_sensors ==
  /\ pc = "sample" /\ pc' = "fault"
  /\ \E r \in Reasons \cup {"none"} :
       /\ update_sensor_fault_state(IF hum_enabled THEN r ELSE "hum_off")
       /\ CASE Silent -> StaySilent
            [] ~Silent /\ r \in Reasons -> Faulty
            [] OTHER -> Working
       /\ bad' = IF r \in Reasons /\ ~Silent THEN Grow(bad, FaultConfirm) ELSE 0
       /\ good' = IF r = "none" /\ ~Silent THEN Grow(good, RestoreConfirm) ELSE 0
  /\ UNCHANGED <<settings, modem, told, cloud>>

(* The text t is done with: it went out to every number ("sent"), or there *)
(* was no number to send it to ("skipped").  The code marks both alike.    *)
MarkSent(t, how) ==
  /\ sms' = [sms EXCEPT ![t] = "sent"]
  /\ job_queued' = [job_queued EXCEPT ![t] = FALSE]
  /\ sent_once' = (t = "FAULT")
  /\ told' = t
  /\ informed' = IF t = "FAULT" /\ confirmed /\ informed # "sent" THEN how ELSE informed

(* process_X_fault_sms and process_X_restored_sms                          *)
ProcessText(t) ==
  CASE sms[t] # "wanted" -> UNCHANGED <<notice, queue, history>>
    [] sms[t] = "wanted" /\ ~sms_target ->
         MarkSent(t, "skipped") /\ UNCHANGED <<age, queue>>
    [] OTHER ->
         /\ IF age[t] # "recent" /\ ~Busy /\ ~job_queued[t] /\ Len(queue) < QueueLen
              THEN /\ queue' = Append(queue, t)
                   /\ job_queued' = [job_queued EXCEPT ![t] = TRUE]
                   /\ age' = [age EXCEPT ![t] = "recent"]
              ELSE UNCHANGED <<queue, job_queued, age>>
         /\ UNCHANGED <<sms, sent_once, history>>

process_fault_sms ==
  /\ pc = "fault" /\ pc' = "restored"
  /\ ProcessText("FAULT")
  /\ UNCHANGED <<settings, fault, confirm, work, cloud, bad, good>>

process_restored_sms ==
  /\ pc = "restored" /\ pc' = "notify"
  /\ ProcessText("RESTORED")
  /\ UNCHANGED <<settings, fault, confirm, work, cloud, bad, good>>

(* Nothing is done while the server is out of reach; when it is reached,   *)
(* publish_sensor_fault_event's result is not looked at.                   *)
process_sensor_fault_notifications ==
  /\ pc = "notify" /\ pc' = "sample"
  /\ \/ UNCHANGED <<notify_pending, cloud>>
     \/ /\ ~Busy /\ notify_pending /\ notify_pending' = FALSE
        /\ cloud' \in {<<active, reason>>, Refused}
  /\ UNCHANGED <<settings, active, reason, confirm, notice, modem, history, bad, good>>

publish_task == sample_sensors \/ process_fault_sms \/ process_restored_sms
                  \/ process_sensor_fault_notifications

-----------------------------------------------------------------------------
(* modem_task                                                              *)

ReceiveJob ==
  /\ ~Busy /\ queue # <<>>
  /\ work' = Head(queue) /\ queue' = Tail(queue)
  /\ UNCHANGED <<settings, pc, fault, confirm, notice, history, cloud, bad, good>>

(* Mutated: the flag of a text that failed stays.                          *)
Report_KeepsFlag(outcome) ==
  IF outcome # "failed" THEN MarkSent(work, outcome)
                        ELSE UNCHANGED <<job_queued, sms, sent_once, history>>

(* Mutated: the end of a fault does not forget that the fault was told.    *)
Report_KeepsOnce(outcome) ==
  IF outcome = "failed"
    THEN /\ job_queued' = [job_queued EXCEPT ![work] = FALSE]
         /\ UNCHANGED <<sms, sent_once, history>>
    ELSE /\ job_queued' = [job_queued EXCEPT ![work] = FALSE]
         /\ sms' = [sms EXCEPT ![work] = "sent"]
         /\ sent_once' = (sent_once \/ work = "FAULT")
         /\ told' = work /\ UNCHANGED informed

(* A text of which one number got no copy has failed.                      *)
Report(outcome) ==
  IF outcome # "failed"
    THEN MarkSent(work, outcome)
    ELSE /\ job_queued' = [job_queued EXCEPT ![work] = FALSE]
         /\ UNCHANGED <<sms, sent_once, history>>

Outcome == {"sent", "failed", "skipped"}

FinishJob(outcome) ==
  /\ Busy /\ work' = "NONE"
  /\ outcome = "skipped" => ~sms_target
  /\ IF work \in Texts THEN Report(outcome)
                       ELSE UNCHANGED <<job_queued, sms, sent_once, history>>
  /\ UNCHANGED <<settings, pc, fault, confirm, age, queue, cloud, bad, good>>

modem_task == ReceiveJob \/ \E outcome \in Outcome : FinishJob(outcome)

-----------------------------------------------------------------------------
Elapse(t) == /\ age[t] = "recent" /\ age' = [age EXCEPT ![t] = "due"]
             /\ UNCHANGED <<settings, pc, fault, confirm, sms, job_queued, sent_once,
                            modem, history, cloud, bad, good>>

EndGrace == /\ grace /\ grace' = FALSE
            /\ UNCHANGED <<kind, hum_enabled, sms_target, pc, fault, confirm, notice,
                           modem, history, cloud, bad, good>>

EnqueueOther ==
  /\ OtherJobs /\ Len(queue) < QueueLen
  /\ queue' = Append(queue, "OTHER")
  /\ UNCHANGED <<settings, pc, fault, confirm, notice, work, history, cloud, bad, good>>

ChangeSettings ==
  /\ ConfigChanges
  /\ hum_enabled' \in {TRUE, kind = "NTC"} /\ sms_target' \in BOOLEAN
  /\ UNCHANGED <<kind, grace, pc, fault, confirm, notice, modem, history, cloud, bad, good>>

Next == \/ publish_task \/ modem_task
        \/ \E t \in Texts : Elapse(t)
        \/ EndGrace \/ EnqueueOther \/ ChangeSettings

Spec == Init /\ [][Next]_vars

(* The tasks run, time passes, and a number tried for ever is reached.     *)
FairSpec ==
  /\ Spec
  /\ WF_vars(publish_task) /\ WF_vars(ReceiveJob)
  /\ WF_vars(\E outcome \in Outcome : FinishJob(outcome))
  /\ \A j \in Job : SF_vars(work = j /\ FinishJob("sent"))
  /\ \A t \in Texts : WF_vars(Elapse(t))

-----------------------------------------------------------------------------
TypeOK ==
  /\ kind \in Kinds /\ hum_enabled \in BOOLEAN /\ sms_target \in BOOLEAN /\ grace \in BOOLEAN
  /\ pc \in {"sample", "fault", "restored", "notify"}
  /\ active \in BOOLEAN /\ reason \in Reasons \cup {"none", "hum_off"}
  /\ notify_pending \in BOOLEAN
  /\ confirmed \in BOOLEAN /\ sent_once \in BOOLEAN
  /\ fault_count \in 0 .. FaultConfirm /\ restore_count \in 0 .. RestoreConfirm - 1
  /\ sms \in [Texts -> Notice] /\ age \in [Texts -> Age] /\ job_queued \in [Texts -> BOOLEAN]
  /\ queue \in Seq(Job) /\ Len(queue) <= QueueLen
  /\ work \in Job \cup {"NONE"} /\ told \in Texts \cup {"NONE"}
  /\ informed \in {"no", "sent", "skipped"}
  /\ cloud \in BOOLEAN \X (Reasons \cup {"none", "hum_off", "refused"})
  /\ bad \in 0 .. FaultConfirm /\ good \in 0 .. RestoreConfirm

(* The NTC asks for a restored text only while the last text done with was *)
(* a fault text: no end is asked to be told a second time, and none        *)
(* without a fault text before it that went out, or had no number to go to *)
(* (app_logic.c:2557-2578, 3028-3043, 3658-3664).  That text may speak of  *)
(* an earlier fault: a good sample withdraws the restored text and leaves  *)
(* s_ntc_fault_sms_sent_once, so the end of a later fault that was not     *)
(* told answers it (2580-2583).  A job in the queue whose request was      *)
(* withdrawn goes out all the same and is not looked at.                   *)
RestoredFollowsFault ==
  kind = "NTC" /\ sms["RESTORED"] = "wanted" => told = "FAULT"

(* A fault text of the SHT30 is wanted only while the fault is confirmed:  *)
(* it is withdrawn when the fault ends (app_logic.c:2820-2840).            *)
WantedFaultIsConfirmed ==
  kind = "SHT" /\ sms["FAULT"] = "wanted" => confirmed

(* With no event waiting and none refused, the last event told the server  *)
(* whether there is a fault, and which (app_logic.c:845-870, 994-1013).    *)
ServerIsTold ==
  ~notify_pending /\ cloud # Refused => cloud[1] = active /\ (active => cloud[2] = reason)

(* A fault is confirmed, and ended, only by the sample that completes a    *)
(* run of samples without one of the other kind, or by being switched off  *)
(* (app_logic.c:2525-2583, 2763-2849).                                     *)
ConfirmedByRun ==
  [][/\ ~confirmed /\ confirmed' => bad' = FaultConfirm
     /\ confirmed /\ ~confirmed' => good' = RestoreConfirm \/ ~hum_enabled]_vars

(* A fault that stays is told in the end: a fault text has gone out to     *)
(* every number since it was confirmed, once no other job holds the modem  *)
(* for ever, whatever failed or was edited before.  It may be the one that *)
(* was in hand or queued for the fault before.  The exception is a fault   *)
(* whose text found no number: the code takes it for told, and tells no    *)
(* number that is added later (app_logic.c:2525-2548, 3028-3043,           *)
(* 3652-3690).                                                             *)
LastingFaultTold ==
  <>[](active /\ ~Silent /\ sms_target /\ ~Outstanding("OTHER"))
    => <>[](informed = "sent") \/ <>[](informed = "skipped")
=============================================================================
