--------------------------- MODULE SensorFaultProofs ---------------------------
(***************************************************************************)
(* For every set of reasons, every count and every queue length: what the  *)
(* server was told of a sensor, and when its fault is confirmed and told   *)
(* by text, and never forgotten before it is.  The two are proved apart,   *)
(* since the event for the server follows the raw state and the texts the  *)
(* confirmed one.                                                          *)
(***************************************************************************)
EXTENDS SensorFault, TLAPS

-----------------------------------------------------------------------------
(* The server *)

ServerType ==
  /\ active \in BOOLEAN /\ reason \in Reasons \cup {"none", "hum_off"}
  /\ notify_pending \in BOOLEAN
  /\ cloud \in BOOLEAN \X (Reasons \cup {"none", "hum_off", "refused"})

ServerInv == ServerType /\ ServerIsTold

LEMMA InitServer == Init => ServerInv
  <1> SUFFICES ASSUME Init PROVE ServerInv
    OBVIOUS
  <1>1. /\ active = FALSE /\ reason = "none" /\ notify_pending = FALSE
        /\ cloud = <<FALSE, "none">>
    BY Zenon DEF Init
  <1>2. ServerType
    BY <1>1 DEF ServerType
  <1>3. ServerIsTold
    BY <1>1 DEF ServerIsTold
  <1> QED BY <1>2, <1>3 DEF ServerInv

(* A sample that leaves no event waiting changed neither the state nor,    *)
(* in a fault, its reason.                                                 *)
LEMMA UpdateServer ==
  ASSUME ServerInv, NEW r \in Reasons \cup {"none", "hum_off"},
         update_sensor_fault_state(r), UNCHANGED cloud
  PROVE  ServerInv'
  <1> DEFINE now == r \in Reasons
  <1>1. now \in BOOLEAN
    OBVIOUS
  <1>2. active' = now /\ reason' = r
    BY Zenon DEF update_sensor_fault_state
  <1>3. notify_pending' = (notify_pending \/ active # now \/ (now /\ reason # r))
    BY Zenon DEF update_sensor_fault_state
  <1> HIDE DEF now
  <1>4. active' \in BOOLEAN /\ notify_pending' \in BOOLEAN
    BY <1>1, <1>2, <1>3, Zenon
  <1>5. ServerType'
    BY <1>2, <1>4 DEF ServerInv, ServerType
  <1>6. ASSUME ~notify_pending', cloud' # Refused
        PROVE  cloud'[1] = active' /\ (active' => cloud'[2] = reason')
    <2>1. ~notify_pending /\ active = now /\ (now => reason = r)
      BY <1>3, <1>6, Zenon
    <2>2. cloud[1] = active /\ (active => cloud[2] = reason)
      BY <1>6, <2>1, Zenon DEF ServerInv, ServerIsTold
    <2>3. cloud'[1] = active'
      BY <1>2, <2>1, <2>2, Zenon
    <2>4. ASSUME active' PROVE cloud'[2] = reason'
      <3>1. now /\ active
        BY <1>2, <2>1, <2>4, Zenon
      <3>2. cloud[2] = reason /\ reason = r
        BY <2>1, <2>2, <3>1, Zenon
      <3> QED BY <1>2, <3>2
    <2> QED BY <2>3, <2>4
  <1>7. ServerIsTold'
    BY <1>6, Zenon DEF ServerIsTold, Refused
  <1> QED BY <1>5, <1>7 DEF ServerInv

LEMMA NotifyServer ==
  ASSUME ServerInv, process_sensor_fault_notifications
  PROVE  ServerInv'
  <1>1. active' = active /\ reason' = reason
    BY DEF process_sensor_fault_notifications
  <1>2. CASE UNCHANGED <<notify_pending, cloud>>
    BY <1>1, <1>2 DEF ServerInv, ServerType, ServerIsTold, Refused
  <1>3. CASE notify_pending' = FALSE /\ cloud' \in {<<active, reason>>, Refused}
    <2>1. CASE cloud' = <<active, reason>>
      BY <1>1, <1>3, <2>1 DEF ServerInv, ServerType, ServerIsTold, Refused
    <2>2. CASE cloud' = Refused
      BY <1>1, <1>3, <2>2 DEF ServerInv, ServerType, ServerIsTold, Refused
    <2> QED BY <1>3, <2>1, <2>2
  <1> QED BY <1>2, <1>3, Zenon DEF process_sensor_fault_notifications

LEMMA ServerStep == ServerInv /\ [Next]_vars => ServerInv'
  <1> SUFFICES ASSUME ServerInv, [Next]_vars PROVE ServerInv'
    OBVIOUS
  <1>1. CASE UNCHANGED <<fault, cloud>>
    BY <1>1 DEF fault, ServerInv, ServerType, ServerIsTold, Refused
  <1>2. CASE sample_sensors
    <2>1. PICK r \in Reasons \cup {"none"} :
            update_sensor_fault_state(IF hum_enabled THEN r ELSE "hum_off")
      BY <1>2, Zenon DEF sample_sensors
    <2>2. (IF hum_enabled THEN r ELSE "hum_off") \in Reasons \cup {"none", "hum_off"}
      OBVIOUS
    <2>3. UNCHANGED cloud
      BY <1>2 DEF sample_sensors
    <2> QED BY <2>1, <2>2, <2>3, UpdateServer
  <1>3. CASE process_sensor_fault_notifications
    BY <1>3, NotifyServer
  <1>4. CASE process_fault_sms \/ process_restored_sms
    BY <1>1, <1>4, Zenon DEF process_fault_sms, process_restored_sms
  <1>5. CASE modem_task
    BY <1>1, <1>5, Zenon DEF modem_task, ReceiveJob, FinishJob
  <1>6. CASE EndGrace \/ EnqueueOther \/ ChangeSettings \/ \E t \in Texts : Elapse(t)
    BY <1>1, <1>6, Zenon DEF EndGrace, EnqueueOther, ChangeSettings, Elapse
  <1>7. CASE UNCHANGED vars
    BY <1>1, <1>7, Zenon DEF vars
  <1> QED BY <1>2, <1>3, <1>4, <1>5, <1>6, <1>7 DEF Next, publish_task

(* With no event waiting and none refused, the last event tells the server *)
(* the sensor's state and the reason of its fault, although the two are    *)
(* sampled on while an event waits (app_logic.c:845-870, 994-1013).        *)
THEOREM ServerCorrect == Spec => []ServerIsTold
  <1>1. ServerInv => ServerIsTold
    BY DEF ServerInv
  <1> QED BY <1>1, InitServer, ServerStep, PTL DEF Spec

-----------------------------------------------------------------------------
(* The texts *)

NoticeType ==
  /\ confirmed \in BOOLEAN /\ sent_once \in BOOLEAN
  /\ sms \in [Texts -> Notice] /\ age \in [Texts -> Age] /\ job_queued \in [Texts -> BOOLEAN]

HistoryType ==
  told \in Texts \cup {"NONE"} /\ informed \in {"no", "sent", "skipped"}

CountType ==
  /\ fault_count \in 0 .. FaultConfirm /\ restore_count \in 0 .. RestoreConfirm - 1
  /\ bad \in 0 .. FaultConfirm /\ good \in 0 .. RestoreConfirm

ModemType ==
  /\ queue \in Seq(Job) /\ Len(queue) <= QueueLen
  /\ work \in Job \cup {"NONE"}

SettingsType ==
  /\ kind \in Kinds /\ hum_enabled \in BOOLEAN /\ sms_target \in BOOLEAN /\ grace \in BOOLEAN
  /\ pc \in {"sample", "fault", "restored", "notify"}

(* The count of faulty samples is the length of their run; the count of    *)
(* good ones is at most that of theirs, since it starts only with a fault  *)
(* confirmed.                                                              *)
CountsAreRuns == fault_count = bad /\ restore_count <= good

(* In the grace after start no fault is confirmed, so its end ends none.   *)
NoneInGrace == grace => ~confirmed

(* What the NTC asks before it tells the end of a fault.                   *)
OnceIsTold == sent_once => told = "FAULT"

NoticeInv == /\ NoticeType /\ NoneInGrace /\ OnceIsTold
             /\ RestoredFollowsFault /\ WantedFaultIsConfirmed

CountInv == CountType /\ CountsAreRuns

TextInv == SettingsType /\ ModemType /\ CountInv /\ NoticeInv

LEMMA InitTexts == Init => TextInv
  <1> SUFFICES ASSUME Init PROVE TextInv
    OBVIOUS
  <1>1. SettingsType
    <2>1. grace \in BOOLEAN
      <3> DEFINE ntc == kind = "NTC"
      <3>1. grace = ntc
        BY Zenon DEF Init
      <3>2. ntc \in BOOLEAN
        OBVIOUS
      <3> HIDE DEF ntc
      <3> QED BY <3>1, <3>2, Zenon
    <2>2. kind \in Kinds /\ hum_enabled = TRUE /\ sms_target = TRUE /\ pc = "sample"
      BY Zenon DEF Init
    <2> QED BY <2>1, <2>2 DEF SettingsType
  <1>2. ModemType
    <2>1. queue = <<>> /\ work = "NONE"
      BY Zenon DEF Init
    <2> QED BY <2>1, CountAssumption DEF ModemType
  <1>3. CountInv
    <2>1. fault_count = 0 /\ restore_count = 0 /\ bad = 0 /\ good = 0
      BY Zenon DEF Init
    <2> QED BY <2>1, CountAssumption DEF CountInv, CountType, CountsAreRuns
  <1>4. NoticeInv
    <2>1. confirmed = FALSE /\ sent_once = FALSE
      BY Zenon DEF Init
    <2>2. sms = None /\ age = Untried /\ job_queued = Unflagged
      BY Zenon DEF Init
    <2>3. NoticeType
      BY <2>1, <2>2 DEF NoticeType, None, Untried, Unflagged, Notice, Age
    <2>4. RestoredFollowsFault /\ WantedFaultIsConfirmed
      BY <2>2 DEF RestoredFollowsFault, WantedFaultIsConfirmed, None, Texts
    <2> QED BY <2>1, <2>3, <2>4 DEF NoticeInv, NoneInGrace, OnceIsTold
  <1> QED BY <1>1, <1>2, <1>3, <1>4 DEF TextInv

(* One sample, by what it counts as.                                       *)
LEMMA SilentSample ==
  ASSUME NoticeInv, CountInv, StaySilent, bad' = 0, good' = 0,
         UNCHANGED <<kind, grace, told>>
  PROVE  NoticeInv' /\ CountInv'
  <1>1. NoticeType'
    BY DEF StaySilent, NoticeType, None, Untried, Unflagged, Notice, Age
  <1>2. CountInv'
    BY CountAssumption DEF StaySilent, CountInv, CountType, CountsAreRuns
  <1>3. NoneInGrace' /\ OnceIsTold'
    BY DEF StaySilent, NoneInGrace, OnceIsTold
  <1>4. RestoredFollowsFault' /\ WantedFaultIsConfirmed'
    BY DEF StaySilent, RestoredFollowsFault, WantedFaultIsConfirmed, None, Texts
  <1> QED BY <1>1, <1>2, <1>3, <1>4 DEF NoticeInv

LEMMA FaultySample ==
  ASSUME NoticeInv, CountInv, Faulty, bad' = Grow(bad, FaultConfirm), good' = 0, ~grace,
         UNCHANGED <<kind, grace, told>>
  PROVE  NoticeInv' /\ CountInv'
  <1>1. CountInv'
    BY CountAssumption DEF Faulty, Grow, CountInv, CountType, CountsAreRuns
  <1>2. sent_once' = sent_once
    BY DEF Faulty
  <1>3. CASE UNCHANGED <<confirmed, sms, age, job_queued>>
    BY <1>1, <1>2, <1>3 DEF NoticeInv, NoticeType, NoneInGrace, OnceIsTold,
       RestoredFollowsFault, WantedFaultIsConfirmed
  <1>4. CASE /\ confirmed' = TRUE
             /\ sms' = [t \in Texts |-> IF t = "FAULT" THEN "wanted" ELSE "idle"]
             /\ age' = Untried /\ job_queued' = Unflagged
    <2>1. NoticeType'
      BY <1>2, <1>4 DEF NoticeInv, NoticeType, Untried, Unflagged, Notice, Age
    <2>2. RestoredFollowsFault' /\ WantedFaultIsConfirmed'
      BY <1>4 DEF RestoredFollowsFault, WantedFaultIsConfirmed, Texts
    <2>3. NoneInGrace' /\ OnceIsTold'
      BY <1>2, Zenon DEF NoticeInv, NoneInGrace, OnceIsTold
    <2> QED BY <1>1, <2>1, <2>2, <2>3 DEF NoticeInv
  <1> QED BY <1>3, <1>4, Zenon DEF Faulty

LEMMA RestoredNotice ==
  ASSUME NoticeInv, Restored, UNCHANGED <<kind, grace, told, sent_once>>
  PROVE  NoticeInv'
  <1>1. confirmed' = FALSE
    BY DEF Restored
  <1>2. CASE /\ sent_once \/ kind = "SHT"
             /\ sms' = [t \in Texts |-> IF t = "RESTORED" THEN "wanted" ELSE "idle"]
             /\ age' = Untried /\ job_queued' = Unflagged
    <2>1. NoticeType'
      BY <1>1, <1>2 DEF NoticeInv, NoticeType, Untried, Unflagged, Notice, Age
    <2>2. RestoredFollowsFault'
      BY <1>2 DEF NoticeInv, OnceIsTold, RestoredFollowsFault
    <2>3. WantedFaultIsConfirmed'
      BY <1>2 DEF WantedFaultIsConfirmed, Texts
    <2> QED BY <1>1, <2>1, <2>2, <2>3 DEF NoticeInv, NoneInGrace, OnceIsTold
  <1>3. CASE /\ kind # "SHT"
             /\ sms' = [sms EXCEPT !["RESTORED"] = "idle"]
             /\ age' = [age EXCEPT !["RESTORED"] = "due"]
             /\ job_queued' = [job_queued EXCEPT !["RESTORED"] = FALSE]
    <2>1. NoticeType'
      BY <1>1, <1>3 DEF NoticeInv, NoticeType, Notice, Age
    <2>2. RestoredFollowsFault'
      BY <1>3 DEF NoticeInv, NoticeType, RestoredFollowsFault, Texts
    <2>3. WantedFaultIsConfirmed'
      BY <1>3 DEF WantedFaultIsConfirmed
    <2> QED BY <1>1, <2>1, <2>2, <2>3 DEF NoticeInv, NoneInGrace, OnceIsTold
  <1> QED BY <1>2, <1>3, Zenon DEF Restored

LEMMA WorkingSample ==
  ASSUME NoticeInv, CountInv, Working, bad' = 0, good' = Grow(good, RestoreConfirm),
         UNCHANGED <<kind, grace, told>>
  PROVE  NoticeInv' /\ CountInv'
  <1>1. fault_count' = 0 /\ sent_once' = sent_once
    BY DEF Working
  <1>2. CASE /\ ~confirmed /\ restore_count' = 0
             /\ sms' \in {sms, [sms EXCEPT !["RESTORED"] = "idle"]}
             /\ UNCHANGED <<confirmed, age, job_queued>>
    <2>1. NoticeType'
      BY <1>1, <1>2 DEF NoticeInv, NoticeType, Notice
    <2>2. RestoredFollowsFault' /\ WantedFaultIsConfirmed'
      BY <1>2 DEF NoticeInv, NoticeType, RestoredFollowsFault, WantedFaultIsConfirmed, Texts
    <2>3. CountInv'
      BY <1>1, <1>2, CountAssumption DEF CountInv, CountType, CountsAreRuns, Grow
    <2>4. NoneInGrace' /\ OnceIsTold'
      BY <1>1, <1>2 DEF NoticeInv, NoneInGrace, OnceIsTold
    <2> QED BY <2>1, <2>2, <2>3, <2>4 DEF NoticeInv
  <1>3. CASE /\ restore_count + 1 < RestoreConfirm /\ restore_count' = restore_count + 1
             /\ UNCHANGED <<confirmed, sms, age, job_queued>>
    <2>1. CountInv'
      BY <1>1, <1>3, CountAssumption DEF CountInv, CountType, CountsAreRuns, Grow
    <2>2. NoticeInv'
      BY <1>1, <1>3 DEF NoticeInv, NoticeType, NoneInGrace, OnceIsTold,
         RestoredFollowsFault, WantedFaultIsConfirmed
    <2> QED BY <2>1, <2>2
  <1>4. CASE Restored
    <2>1. CountInv'
      BY <1>1, <1>4, CountAssumption DEF Restored, CountInv, CountType, CountsAreRuns, Grow
    <2> QED BY <1>1, <1>4, <2>1, RestoredNotice
  <1> QED BY <1>2, <1>3, <1>4 DEF Working

LEMMA SampleTexts == TextInv /\ sample_sensors => TextInv'
  <1> SUFFICES ASSUME TextInv, sample_sensors PROVE TextInv'
    OBVIOUS
  <1>1. PICK r \in Reasons \cup {"none"} :
          /\ CASE Silent -> StaySilent
               [] ~Silent /\ r \in Reasons -> Faulty
               [] OTHER -> Working
          /\ bad' = IF r \in Reasons /\ ~Silent THEN Grow(bad, FaultConfirm) ELSE 0
          /\ good' = IF r = "none" /\ ~Silent THEN Grow(good, RestoreConfirm) ELSE 0
    BY Zenon DEF sample_sensors
  <1>2. pc' = "fault" /\ UNCHANGED <<kind, hum_enabled, sms_target, grace, queue, work, told>>
    BY DEF sample_sensors, settings, modem
  <1>3. SettingsType' /\ ModemType'
    BY <1>2 DEF TextInv, SettingsType, ModemType
  <1>4. NoticeInv /\ CountInv
    BY DEF TextInv
  <1>5. "none" \notin Reasons
    BY ReasonAssumption
  <1>6. CASE Silent
    <2>1. StaySilent /\ bad' = 0 /\ good' = 0
      BY <1>1, <1>6, Zenon
    <2> QED BY <1>2, <1>3, <1>4, <2>1, SilentSample DEF TextInv
  <1>7. CASE ~Silent /\ r \in Reasons
    <2>1. Faulty
      BY <1>1, <1>7, Zenon
    <2>2. bad' = Grow(bad, FaultConfirm) /\ good' = 0 /\ ~grace
      BY <1>1, <1>5, <1>7, Zenon DEF Silent
    <2> QED BY <1>2, <1>3, <1>4, <2>1, <2>2, FaultySample DEF TextInv
  <1>8. CASE ~Silent /\ r \notin Reasons
    <2>1. Working
      BY <1>1, <1>8, Zenon
    <2>2. bad' = 0 /\ good' = Grow(good, RestoreConfirm)
      BY <1>1, <1>8, Zenon
    <2> QED BY <1>2, <1>3, <1>4, <2>1, <2>2, WorkingSample DEF TextInv
  <1> QED BY <1>6, <1>7, <1>8

(* A text is marked as sent, and as the last one, together.                *)
LEMMA TextSent ==
  ASSUME NoticeInv, NEW t \in Texts,
         sms' = [sms EXCEPT ![t] = "sent"],
         sent_once \in BOOLEAN, sent_once' = (t = "FAULT"), told' = t,
         job_queued' = [job_queued EXCEPT ![t] = FALSE],
         UNCHANGED <<kind, grace, confirmed, age>>
  PROVE  NoticeInv'
  <1>1. sent_once' \in BOOLEAN
    <2> DEFINE f == t = "FAULT"
    <2>1. f \in BOOLEAN
      OBVIOUS
    <2>2. sent_once' = f
      BY Zenon
    <2> HIDE DEF f
    <2> QED BY <2>1, <2>2, Zenon
  <1>2. NoticeType'
    BY <1>1 DEF NoticeInv, NoticeType, Notice
  <1>3. OnceIsTold'
    BY Zenon DEF OnceIsTold
  <1>4. NoneInGrace'
    BY Zenon DEF NoticeInv, NoneInGrace
  <1>5. RestoredFollowsFault'
    BY DEF NoticeInv, NoticeType, RestoredFollowsFault, Texts
  <1>6. WantedFaultIsConfirmed'
    BY DEF NoticeInv, NoticeType, WantedFaultIsConfirmed, Texts
  <1> QED BY <1>2, <1>3, <1>4, <1>5, <1>6 DEF NoticeInv

LEMMA TextsKept ==
  ASSUME NoticeInv, job_queued' \in [Texts -> BOOLEAN], age' \in [Texts -> Age],
         UNCHANGED <<kind, grace, confirmed, sms, sent_once, told>>
  PROVE  NoticeInv'
  BY DEF NoticeInv, NoticeType, NoneInGrace, OnceIsTold, RestoredFollowsFault, WantedFaultIsConfirmed

LEMMA ProcessTexts ==
  ASSUME TextInv, NEW t \in Texts, ProcessText(t), pc' \in {"restored", "notify"},
         UNCHANGED <<settings, fault, confirm, work, cloud, bad, good>>
  PROVE  TextInv'
  <1>1. SettingsType' /\ CountInv'
    BY DEF TextInv, SettingsType, CountInv, CountType, CountsAreRuns, settings, confirm
  <1>2. NoticeInv /\ ModemType
    BY DEF TextInv
  <1>3. UNCHANGED <<kind, grace, confirmed, work>>
    BY DEF settings, confirm
  <1>4. CASE sms[t] # "wanted"
    <2>1. UNCHANGED <<sms, age, job_queued, sent_once, queue, told>>
      BY <1>4 DEF ProcessText, notice, history
    <2> QED BY <1>1, <1>2, <1>3, <2>1, TextsKept DEF TextInv, ModemType, NoticeInv, NoticeType
  <1>5. CASE sms[t] = "wanted" /\ ~sms_target
    <2>1. /\ sms' = [sms EXCEPT ![t] = "sent"]
          /\ job_queued' = [job_queued EXCEPT ![t] = FALSE]
          /\ sent_once' = (t = "FAULT") /\ told' = t
          /\ UNCHANGED <<age, queue>>
      BY <1>5, Zenon DEF ProcessText, MarkSent
    <2>2. NoticeInv'
      BY <1>2, <1>3, <2>1, TextSent DEF NoticeInv, NoticeType
    <2>3. ModemType'
      BY <1>2, <1>3, <2>1 DEF ModemType
    <2> QED BY <1>1, <2>2, <2>3 DEF TextInv
  <1>6. CASE sms[t] = "wanted" /\ sms_target
    <2>1. UNCHANGED <<sms, sent_once, told>>
      BY <1>6 DEF ProcessText, history
    <2>2. CASE UNCHANGED <<queue, job_queued, age>>
      BY <1>1, <1>2, <1>3, <2>1, <2>2, TextsKept DEF TextInv, ModemType, NoticeInv, NoticeType
    <2>3. CASE /\ Len(queue) < QueueLen /\ queue' = Append(queue, t)
               /\ job_queued' = [job_queued EXCEPT ![t] = TRUE]
               /\ age' = [age EXCEPT ![t] = "recent"]
      <3>1. job_queued' \in [Texts -> BOOLEAN] /\ age' \in [Texts -> Age]
        BY <1>2, <2>3 DEF NoticeInv, NoticeType, Age
      <3>2. queue' \in Seq(Job) /\ Len(queue') <= QueueLen
        BY <1>2, <2>3, CountAssumption DEF ModemType, Job
      <3>3. ModemType'
        BY <1>2, <1>3, <2>1, <3>2 DEF ModemType
      <3> QED BY <1>1, <1>2, <1>3, <2>1, <3>1, <3>3, TextsKept DEF TextInv
    <2> QED BY <1>6, <2>2, <2>3, Zenon DEF ProcessText
  <1> QED BY <1>4, <1>5, <1>6

LEMMA ModemTexts == TextInv /\ modem_task => TextInv'
  <1> SUFFICES ASSUME TextInv, modem_task PROVE TextInv'
    OBVIOUS
  <1>1. NoticeInv /\ ModemType
    BY DEF TextInv
  <1>2. CASE ReceiveJob
    <2>1. UNCHANGED <<settings, pc, confirm, notice, told, bad, good>>
      BY <1>2, Zenon DEF ReceiveJob, history
    <2>2. work' \in Job /\ queue' \in Seq(Job) /\ Len(queue') <= QueueLen
      BY <1>1, <1>2, CountAssumption DEF ReceiveJob, ModemType
    <2>3. SettingsType' /\ CountInv' /\ ModemType'
      BY <2>1, <2>2 DEF TextInv, SettingsType, CountInv, CountType, CountsAreRuns, ModemType,
         settings, confirm
    <2>4. NoticeInv'
      BY <1>1, <2>1, TextsKept DEF NoticeInv, NoticeType, settings, confirm, notice
    <2> QED BY <2>3, <2>4 DEF TextInv
  <1>3. ASSUME NEW outcome \in Outcome, FinishJob(outcome) PROVE TextInv'
    <2>1. work' = "NONE" /\ UNCHANGED <<settings, pc, confirm, age, queue, bad, good>>
      BY <1>3, Zenon DEF FinishJob
    <2>2. SettingsType' /\ CountInv'
      BY <2>1 DEF TextInv, SettingsType, CountInv, CountType, CountsAreRuns, settings, confirm
    <2>3. UNCHANGED <<kind, grace, confirmed>>
      BY <2>1 DEF settings, confirm
    <2>4. CASE work \in Texts /\ outcome # "failed"
      <3>1. /\ sms' = [sms EXCEPT ![work] = "sent"]
            /\ job_queued' = [job_queued EXCEPT ![work] = FALSE]
            /\ sent_once' = (work = "FAULT") /\ told' = work
        BY <1>3, <2>4, Zenon DEF FinishJob, Report, MarkSent
      <3>2. NoticeInv'
        BY <1>1, <2>1, <2>3, <2>4, <3>1, TextSent DEF NoticeInv, NoticeType
      <3>3. ModemType'
        BY <1>1, <2>1, <2>4, <3>1 DEF ModemType
      <3> QED BY <2>2, <3>2, <3>3 DEF TextInv
    <2>5. CASE ~(work \in Texts /\ outcome # "failed")
      <3>1. UNCHANGED <<sms, sent_once, told>>
        BY <1>3, <2>5, Zenon DEF FinishJob, Report, history
      <3>2. job_queued' \in {job_queued, [job_queued EXCEPT ![work] = FALSE]}
        BY <1>3, <2>5 DEF FinishJob, Report
      <3>3. job_queued' \in [Texts -> BOOLEAN] /\ age' \in [Texts -> Age]
        BY <1>1, <2>1, <3>2 DEF NoticeInv, NoticeType
      <3>4. NoticeInv'
        BY <1>1, <2>3, <3>1, <3>3, TextsKept
      <3>5. ModemType'
        BY <1>1, <2>1, <3>1 DEF ModemType
      <3> QED BY <2>2, <3>4, <3>5 DEF TextInv
    <2> QED BY <2>4, <2>5
  <1> QED BY <1>2, <1>3 DEF modem_task

(* Time and edits.  That the grace ends takes nothing from NoneInGrace.    *)
LEMMA OtherTexts ==
  ASSUME TextInv, EndGrace \/ EnqueueOther \/ ChangeSettings \/ \E t \in Texts : Elapse(t)
  PROVE  TextInv'
  <1>1. NoticeInv /\ ModemType
    BY DEF TextInv
  <1>2. ASSUME NEW t \in Texts, Elapse(t) PROVE TextInv'
    <2>1. age' = [age EXCEPT ![t] = "due"]
      BY <1>2 DEF Elapse
    <2>2. UNCHANGED <<settings, pc, confirm, sms, job_queued, sent_once, modem, told, bad, good>>
      BY <1>2, Zenon DEF Elapse, history
    <2>3. age' \in [Texts -> Age]
      BY <1>1, <2>1 DEF NoticeInv, NoticeType, Age
    <2>4. NoticeInv'
      BY <1>1, <2>2, <2>3, TextsKept DEF NoticeInv, NoticeType, settings, confirm, modem
    <2> QED BY <2>2, <2>4 DEF TextInv, SettingsType, CountInv, CountType, CountsAreRuns, ModemType,
       settings, confirm, modem
  <1>3. CASE EndGrace
    <2>1. grace' = FALSE /\ UNCHANGED <<kind, hum_enabled, sms_target, pc, confirm, notice, modem, told, bad, good>>
      BY <1>3, Zenon DEF EndGrace, history
    <2>2. NoticeInv'
      BY <1>1, <2>1 DEF NoticeInv, NoticeType, NoneInGrace, OnceIsTold, RestoredFollowsFault,
         WantedFaultIsConfirmed, confirm, notice, modem
    <2> QED BY <2>1, <2>2 DEF TextInv, SettingsType, CountInv, CountType, CountsAreRuns, ModemType,
       confirm, modem
  <1>4. CASE EnqueueOther
    <2>1. UNCHANGED <<settings, pc, confirm, notice, work, told, bad, good>>
      BY <1>4, Zenon DEF EnqueueOther, history
    <2>2. queue' \in Seq(Job) /\ Len(queue') <= QueueLen
      BY <1>1, <1>4, CountAssumption DEF EnqueueOther, ModemType, Job
    <2>3. NoticeInv'
      BY <1>1, <2>1, TextsKept DEF NoticeInv, NoticeType, settings, confirm, notice
    <2> QED BY <2>1, <2>2, <2>3 DEF TextInv, SettingsType, CountInv, CountType, CountsAreRuns,
       ModemType, settings, confirm
  <1>5. CASE ChangeSettings
    <2>1. UNCHANGED <<kind, grace, pc, confirm, notice, modem, told, bad, good>>
      BY <1>5, Zenon DEF ChangeSettings, history
    <2>2. hum_enabled' \in BOOLEAN /\ sms_target' \in BOOLEAN
      BY <1>5 DEF ChangeSettings
    <2>3. NoticeInv'
      BY <1>1, <2>1, TextsKept DEF NoticeInv, NoticeType, confirm, notice, modem
    <2> QED BY <2>1, <2>2, <2>3 DEF TextInv, SettingsType, CountInv, CountType, CountsAreRuns,
       ModemType, confirm, modem
  <1> QED BY <1>2, <1>3, <1>4, <1>5

LEMMA TextStep == TextInv /\ [Next]_vars => TextInv'
  <1> SUFFICES ASSUME TextInv, [Next]_vars PROVE TextInv'
    OBVIOUS
  <1>1. CASE process_fault_sms
    <2>1. ProcessText("FAULT") /\ pc' = "restored"
      BY <1>1 DEF process_fault_sms
    <2>2. UNCHANGED <<settings, fault, confirm, work, cloud, bad, good>>
      BY <1>1, Zenon DEF process_fault_sms
    <2> QED BY <2>1, <2>2, ProcessTexts DEF Texts
  <1>2. CASE process_restored_sms
    <2>1. ProcessText("RESTORED") /\ pc' = "notify"
      BY <1>2 DEF process_restored_sms
    <2>2. UNCHANGED <<settings, fault, confirm, work, cloud, bad, good>>
      BY <1>2, Zenon DEF process_restored_sms
    <2> QED BY <2>1, <2>2, ProcessTexts DEF Texts
  <1>3. CASE process_sensor_fault_notifications
    <2>1. pc' = "sample" /\ UNCHANGED <<settings, confirm, notice, modem, told, bad, good>>
      BY <1>3, Zenon DEF process_sensor_fault_notifications, history
    <2>2. NoticeInv'
      BY <2>1, TextsKept DEF TextInv, NoticeInv, NoticeType, settings, confirm, notice, modem
    <2> QED BY <2>1, <2>2 DEF TextInv, SettingsType, CountInv, CountType, CountsAreRuns, ModemType,
       settings, confirm, modem
  <1>4. CASE UNCHANGED vars
    <2>1. UNCHANGED <<settings, pc, confirm, notice, modem, told, bad, good>>
      BY <1>4, Zenon DEF vars, history
    <2>2. NoticeInv'
      BY <2>1, TextsKept DEF TextInv, NoticeInv, NoticeType, settings, confirm, notice, modem
    <2> QED BY <2>1, <2>2 DEF TextInv, SettingsType, CountInv, CountType, CountsAreRuns, ModemType,
       settings, confirm, modem
  <1> QED BY <1>1, <1>2, <1>3, <1>4, SampleTexts, ModemTexts, OtherTexts DEF Next, publish_task

(* What became of the texts *)
LEMMA HistoryStep == HistoryType /\ [Next]_vars => HistoryType'
  <1> SUFFICES ASSUME HistoryType, [Next]_vars PROVE HistoryType'
    OBVIOUS
  <1>1. CASE UNCHANGED history
    BY <1>1 DEF HistoryType, history
  <1>2. CASE sample_sensors
    <2>1. told' = told
      BY <1>2 DEF sample_sensors
    <2>2. informed' = "no" \/ informed' = informed
      BY <1>2 DEF sample_sensors, StaySilent, Faulty, Working, Restored
    <2> QED BY <2>1, <2>2 DEF HistoryType
  <1>3. ASSUME NEW t \in Texts, NEW how \in {"sent", "skipped"}, MarkSent(t, how)
        PROVE  HistoryType'
    <2>1. told' = t /\ informed' \in {how, informed}
      BY <1>3, Zenon DEF MarkSent
    <2> QED BY <2>1 DEF HistoryType
  <1>4. ASSUME NEW t \in Texts, ProcessText(t) PROVE HistoryType'
    BY <1>1, <1>3, <1>4, Zenon DEF ProcessText
  <1>5. ASSUME NEW outcome \in Outcome, FinishJob(outcome) PROVE HistoryType'
    <2>1. CASE work \in Texts /\ outcome # "failed"
      <3>1. MarkSent(work, outcome) /\ outcome \in {"sent", "skipped"}
        BY <1>5, <2>1 DEF FinishJob, Report, Outcome
      <3> QED BY <1>3, <2>1, <3>1
    <2>2. CASE ~(work \in Texts /\ outcome # "failed")
      BY <1>1, <1>5, <2>2, Zenon DEF FinishJob, Report
    <2> QED BY <2>1, <2>2
  <1>6. CASE process_fault_sms \/ process_restored_sms
    BY <1>4, <1>6 DEF process_fault_sms, process_restored_sms, Texts
  <1>7. CASE process_sensor_fault_notifications \/ ReceiveJob \/ EndGrace \/ EnqueueOther
             \/ ChangeSettings \/ (\E t \in Texts : Elapse(t)) \/ UNCHANGED vars
    BY <1>1, <1>7, Zenon DEF process_sensor_fault_notifications, ReceiveJob, EndGrace,
       EnqueueOther, ChangeSettings, Elapse, vars
  <1> QED BY <1>2, <1>5, <1>6, <1>7 DEF Next, publish_task, modem_task

-----------------------------------------------------------------------------
(* The counters stay below the firmware's numbers and the queue within its *)
(* length, whatever is switched off, edited or refused.                    *)
THEOREM TypeCorrect == Spec => []TypeOK
  <1>1. TextInv /\ ServerInv /\ HistoryType => TypeOK
    BY DEF TextInv, SettingsType, ModemType, CountInv, CountType, NoticeInv, NoticeType,
       ServerInv, ServerType, HistoryType, TypeOK
  <1>2. Init => HistoryType
    BY Zenon DEF Init, HistoryType
  <1> QED BY <1>1, <1>2, InitTexts, TextStep, InitServer, ServerStep, HistoryStep, PTL DEF Spec

(* The NTC asks for a restored text only after a fault text that went out  *)
(* or had no number to go to, and that no restored text has answered,      *)
(* whichever report comes late (app_logic.c:2557-2578, 3028-3043,          *)
(* 3658-3664).                                                             *)
THEOREM RestoredCorrect == Spec => []RestoredFollowsFault
  <1>1. TextInv => RestoredFollowsFault
    BY DEF TextInv, NoticeInv
  <1> QED BY <1>1, InitTexts, TextStep, PTL DEF Spec

(* A fault text of the SHT30 is wanted only while its fault is confirmed   *)
(* (app_logic.c:2820-2840).                                                *)
THEOREM WantedCorrect == Spec => []WantedFaultIsConfirmed
  <1>1. TextInv => WantedFaultIsConfirmed
    BY DEF TextInv, NoticeInv
  <1> QED BY <1>1, InitTexts, TextStep, PTL DEF Spec

(* A fault begins and ends only with the sample that completes a run, for  *)
(* every pair of counts (app_logic.c:2525-2583, 2763-2849).                *)
THEOREM ConfirmedCorrect == Spec => ConfirmedByRun
  <1> DEFINE Run == /\ ~confirmed /\ confirmed' => bad' = FaultConfirm
                    /\ confirmed /\ ~confirmed' => good' = RestoreConfirm \/ ~hum_enabled
  <1>1. TextInv /\ TextInv' /\ [Next]_vars => [Run]_vars
    <2> SUFFICES ASSUME TextInv, TextInv', [Next]_vars PROVE Run
      OBVIOUS
    <2>1. CASE confirmed' = confirmed
      BY <2>1, Zenon
    <2>2. CASE sample_sensors
      <3>1. PICK r \in Reasons \cup {"none"} :
              /\ CASE Silent -> StaySilent
                   [] ~Silent /\ r \in Reasons -> Faulty
                   [] OTHER -> Working
              /\ good' = IF r = "none" /\ ~Silent THEN Grow(good, RestoreConfirm) ELSE 0
        BY <2>2, Zenon DEF sample_sensors
      <3>2. NoneInGrace /\ CountInv /\ CountInv'
        BY DEF TextInv, NoticeInv
      <3>3. CASE Silent
        <4>1. confirmed' = FALSE
          BY <3>1, <3>3 DEF StaySilent
        <4>2. confirmed => ~hum_enabled
          BY <3>2, <3>3, Zenon DEF Silent, NoneInGrace
        <4> QED BY <4>1, <4>2, Zenon
      <3>4. CASE ~Silent /\ r \in Reasons
        <4>1. Faulty
          BY <3>1, <3>4, Zenon
        <4>2. CASE ~confirmed /\ fault_count' = FaultConfirm
          <5>1. confirmed' = TRUE
            BY <4>1, <4>2, Zenon DEF Faulty
          <5>2. bad' = FaultConfirm
            BY <3>2, <4>2 DEF CountInv, CountsAreRuns
          <5> QED BY <4>2, <5>1, <5>2, Zenon
        <4>3. CASE ~(~confirmed /\ fault_count' = FaultConfirm)
          <5>1. confirmed' = confirmed
            BY <4>1, <4>3, Zenon DEF Faulty
          <5> QED BY <5>1, Zenon
        <4> QED BY <4>2, <4>3, Zenon
      <3>5. CASE ~Silent /\ r \notin Reasons
        <4>1. Working /\ good' = Grow(good, RestoreConfirm)
          BY <3>1, <3>5, Zenon
        <4>2. CASE confirmed /\ ~(restore_count + 1 < RestoreConfirm)
          <5>1. confirmed' = FALSE
            BY <4>1, <4>2, Zenon DEF Working, Restored
          <5>2. good' = RestoreConfirm
            BY <3>2, <4>1, <4>2, CountAssumption DEF CountInv, CountType, CountsAreRuns, Grow
          <5> QED BY <4>2, <5>1, <5>2, Zenon
        <4>3. CASE ~(confirmed /\ ~(restore_count + 1 < RestoreConfirm))
          <5>1. confirmed' = confirmed
            BY <4>1, <4>3, Zenon DEF Working
          <5> QED BY <5>1, Zenon
        <4> QED BY <4>2, <4>3, Zenon
      <3> QED BY <3>3, <3>4, <3>5
    <2>3. CASE process_fault_sms \/ process_restored_sms \/ process_sensor_fault_notifications
      BY <2>1, <2>3, Zenon DEF process_fault_sms, process_restored_sms,
         process_sensor_fault_notifications, confirm
    <2>4. CASE modem_task
      BY <2>1, <2>4, Zenon DEF modem_task, ReceiveJob, FinishJob, confirm
    <2>5. CASE EndGrace \/ EnqueueOther \/ ChangeSettings \/ \E t \in Texts : Elapse(t)
      BY <2>1, <2>5, Zenon DEF EndGrace, EnqueueOther, ChangeSettings, Elapse, confirm
    <2>6. CASE UNCHANGED vars
      BY <2>1, <2>6, Zenon DEF vars, confirm
    <2> QED BY <2>2, <2>3, <2>4, <2>5, <2>6 DEF Next, publish_task
  <1> QED BY <1>1, InitTexts, TextStep, PTL DEF Spec, ConfirmedByRun

-----------------------------------------------------------------------------
(* A fault is not forgotten *)

(* A confirmed fault has its text wanted until one went out or found no    *)
(* number, and a text that counts as queued is in the queue or with the    *)
(* modem: a flag that says so for nothing would keep it from ever being    *)
(* tried again.                                                            *)
Known == sms["FAULT"] = "wanted" \/ informed # "no"

FaultRemembered ==
  /\ confirmed => Known
  /\ \A t \in Texts : job_queued[t] => Outstanding(t)

LEMMA AppendOutstanding ==
  ASSUME queue \in Seq(Job), UNCHANGED work, NEW j \in Job, queue' = Append(queue, j)
  PROVE  /\ Outstanding(j)'
         /\ \A t \in Texts : Outstanding(t) => Outstanding(t)'
  <1>1. /\ Len(queue') = Len(queue) + 1 /\ queue'[Len(queue) + 1] = j
        /\ \A i \in 1 .. Len(queue) : queue'[i] = queue[i]
        /\ DOMAIN queue = 1 .. Len(queue) /\ DOMAIN queue' = 1 .. Len(queue) + 1
        /\ Len(queue) \in Nat
    OBVIOUS
  <1>2. Len(queue) + 1 \in DOMAIN queue' /\ DOMAIN queue \subseteq DOMAIN queue'
    BY <1>1
  <1>3. Outstanding(j)'
    BY <1>1, <1>2 DEF Outstanding
  <1>4. ASSUME NEW t \in Texts, Outstanding(t) PROVE Outstanding(t)'
    <2>1. CASE work = t
      BY <2>1 DEF Outstanding
    <2>2. CASE \E i \in DOMAIN queue : queue[i] = t
      <3>1. PICK i \in DOMAIN queue : queue[i] = t
        BY <2>2
      <3>2. i \in DOMAIN queue' /\ queue'[i] = t
        BY <1>1, <1>2, <3>1
      <3> QED BY <3>2 DEF Outstanding
    <2> QED BY <1>4, <2>1, <2>2 DEF Outstanding
  <1> QED BY <1>3, <1>4

LEMMA ReceivedOutstanding ==
  ASSUME queue \in Seq(Job), queue # <<>>, work = "NONE",
         work' = Head(queue), queue' = Tail(queue), NEW t \in Texts, Outstanding(t)
  PROVE  Outstanding(t)'
  <1>1. /\ DOMAIN queue = 1 .. Len(queue) /\ DOMAIN queue' = 1 .. Len(queue) - 1
        /\ work' = queue[1] /\ \A i \in 1 .. Len(queue) - 1 : queue'[i] = queue[i + 1]
        /\ Len(queue) \in Nat
    OBVIOUS
  <1>2. PICK i \in DOMAIN queue : queue[i] = t
    BY DEF Outstanding, Texts
  <1>3. CASE i = 1
    BY <1>1, <1>2, <1>3 DEF Outstanding
  <1>4. CASE i # 1
    <2>1. i - 1 \in DOMAIN queue' /\ queue'[i - 1] = t
      BY <1>1, <1>2, <1>4
    <2> QED BY <2>1 DEF Outstanding
  <1> QED BY <1>3, <1>4

(* A step that leaves the queue, and flags no other text.                  *)
LEMMA FaultKept ==
  ASSUME FaultRemembered, UNCHANGED <<queue, work>>,
         \A t \in Texts : job_queued'[t] => job_queued[t],
         confirmed' => Known'
  PROVE  FaultRemembered'
  <1>1. \A t \in Texts : Outstanding(t)' <=> Outstanding(t)
    BY DEF Outstanding
  <1> QED BY <1>1, Zenon DEF FaultRemembered

LEMMA SampleRemembered == TextInv /\ FaultRemembered /\ sample_sensors => FaultRemembered'
  <1> SUFFICES ASSUME TextInv, FaultRemembered, sample_sensors PROVE FaultRemembered'
    OBVIOUS
  <1>1. PICK r \in Reasons \cup {"none"} :
          CASE Silent -> StaySilent
            [] ~Silent /\ r \in Reasons -> Faulty
            [] OTHER -> Working
    BY Zenon DEF sample_sensors
  <1>2. UNCHANGED <<queue, work>>
    BY DEF sample_sensors, modem
  <1>3. NoticeType /\ (confirmed => Known)
    BY DEF TextInv, NoticeInv, FaultRemembered
  <1>4. CASE StaySilent
    <2>1. ~confirmed' /\ \A t \in Texts : ~job_queued'[t]
      BY <1>4 DEF StaySilent, Unflagged
    <2> QED BY <1>2, <2>1, FaultKept
  <1>5. CASE Faulty
    <2>1. CASE UNCHANGED <<confirmed, sms, age, job_queued, informed>>
      BY <1>2, <1>3, <2>1, FaultKept DEF Known
    <2>2. CASE /\ sms' = [t \in Texts |-> IF t = "FAULT" THEN "wanted" ELSE "idle"]
               /\ job_queued' = Unflagged
      <3>1. Known' /\ \A t \in Texts : ~job_queued'[t]
        BY <2>2 DEF Texts, Unflagged, Known
      <3> QED BY <1>2, <3>1, FaultKept
    <2> QED BY <1>5, <2>1, <2>2, Zenon DEF Faulty
  <1>6. CASE Working
    <2>1. CASE Restored
      <3>1. ~confirmed'
        BY <2>1 DEF Restored
      <3>2. job_queued' = Unflagged \/ job_queued' = [job_queued EXCEPT !["RESTORED"] = FALSE]
        BY <2>1, Zenon DEF Restored
      <3>3. \A t \in Texts : job_queued'[t] => job_queued[t]
        BY <1>3, <3>2 DEF NoticeType, Unflagged
      <3> QED BY <1>2, <3>1, <3>3, FaultKept
    <2>2. CASE /\ sms' \in {sms, [sms EXCEPT !["RESTORED"] = "idle"]}
               /\ UNCHANGED <<confirmed, age, job_queued, informed>>
      <3>1. Known' <=> Known
        BY <1>3, <2>2 DEF NoticeType, Texts, Known
      <3> QED BY <1>2, <1>3, <2>2, <3>1, FaultKept
    <2>3. \/ Restored
          \/ /\ sms' \in {sms, [sms EXCEPT !["RESTORED"] = "idle"]}
             /\ UNCHANGED <<confirmed, age, job_queued, informed>>
      BY <1>6 DEF Working
    <2> QED BY <2>1, <2>2, <2>3
  <1> QED BY <1>1, <1>4, <1>5, <1>6

(* A text that is done with is no longer wanted; a fault text tells the    *)
(* fault in force.                                                         *)
LEMMA MarkKnown ==
  ASSUME NoticeType, NEW t \in Texts, NEW how \in {"sent", "skipped"}, MarkSent(t, how),
         confirmed => Known, UNCHANGED confirmed
  PROVE  confirmed' => Known'
  <1>1. /\ sms' = [sms EXCEPT ![t] = "sent"]
        /\ informed' = IF t = "FAULT" /\ confirmed /\ informed # "sent" THEN how ELSE informed
    BY Zenon DEF MarkSent
  <1>2. CASE t = "FAULT"
    BY <1>1, <1>2, Zenon DEF Known
  <1>3. CASE t # "FAULT"
    BY <1>1, <1>3 DEF Known, NoticeType, Texts
  <1> QED BY <1>2, <1>3

LEMMA ProcessRemembered ==
  ASSUME TextInv, FaultRemembered, NEW t \in Texts, ProcessText(t), UNCHANGED <<confirmed, work>>
  PROVE  FaultRemembered'
  <1>1. NoticeType /\ queue \in Seq(Job) /\ (confirmed => Known)
    BY DEF TextInv, NoticeInv, ModemType, FaultRemembered
  <1>2. CASE UNCHANGED <<sms, job_queued, queue, informed>>
    BY <1>1, <1>2, FaultKept DEF Known
  <1>3. CASE MarkSent(t, "skipped") /\ UNCHANGED queue
    <2>1. confirmed' => Known'
      BY <1>1, <1>3, MarkKnown
    <2>2. \A u \in Texts : job_queued'[u] => job_queued[u]
      BY <1>1, <1>3 DEF NoticeType, MarkSent
    <2> QED BY <1>3, <2>1, <2>2, FaultKept
  <1>4. CASE /\ queue' = Append(queue, t) /\ job_queued' = [job_queued EXCEPT ![t] = TRUE]
             /\ UNCHANGED <<sms, informed>>
    <2>1. Outstanding(t)' /\ \A u \in Texts : Outstanding(u) => Outstanding(u)'
      BY <1>1, <1>4, AppendOutstanding DEF Job
    <2>2. \A u \in Texts : job_queued'[u] => u = t \/ job_queued[u]
      BY <1>1, <1>4 DEF NoticeType
    <2>3. confirmed' => Known'
      BY <1>1, <1>4, Zenon DEF Known
    <2> QED BY <2>1, <2>2, <2>3, Zenon DEF FaultRemembered
  <1>5. \/ UNCHANGED <<sms, job_queued, queue, informed>>
        \/ MarkSent(t, "skipped") /\ UNCHANGED queue
        \/ /\ queue' = Append(queue, t) /\ job_queued' = [job_queued EXCEPT ![t] = TRUE]
           /\ UNCHANGED <<sms, informed>>
    BY Zenon DEF ProcessText, notice, history
  <1> QED BY <1>2, <1>3, <1>4, <1>5

LEMMA ModemRemembered == TextInv /\ FaultRemembered /\ modem_task => FaultRemembered'
  <1> SUFFICES ASSUME TextInv, FaultRemembered, modem_task PROVE FaultRemembered'
    OBVIOUS
  <1>1. NoticeType /\ queue \in Seq(Job) /\ (confirmed => Known)
    BY DEF TextInv, NoticeInv, ModemType, FaultRemembered
  <1>2. CASE ReceiveJob
    <2>1. /\ work = "NONE" /\ queue # <<>> /\ work' = Head(queue) /\ queue' = Tail(queue)
          /\ UNCHANGED <<confirmed, sms, job_queued, informed>>
      BY <1>2, Zenon DEF ReceiveJob, Busy, confirm, notice, history
    <2>2. \A t \in Texts : Outstanding(t) => Outstanding(t)'
      BY <1>1, <2>1, ReceivedOutstanding
    <2> QED BY <2>1, <2>2, Zenon DEF FaultRemembered, Known
  <1>3. ASSUME NEW outcome \in Outcome, FinishJob(outcome) PROVE FaultRemembered'
    <2>1. UNCHANGED <<confirmed, queue>> /\ work' = "NONE"
      BY <1>3, Zenon DEF FinishJob, confirm
    <2>4. confirmed' => Known'
      <3>1. CASE work \in Texts /\ outcome # "failed"
        <4>1. MarkSent(work, outcome) /\ outcome \in {"sent", "skipped"}
          BY <1>3, <3>1 DEF FinishJob, Report, Outcome
        <4> QED BY <1>1, <2>1, <3>1, <4>1, MarkKnown
      <3>2. CASE ~(work \in Texts /\ outcome # "failed")
        <4>1. UNCHANGED <<sms, informed>>
          BY <1>3, <3>2, Zenon DEF FinishJob, Report, history
        <4> QED BY <1>1, <2>1, <4>1, Zenon DEF Known
      <3> QED BY <3>1, <3>2
    <2>5. \A t \in Texts : job_queued'[t] => job_queued[t] /\ t # work
      <3>1. CASE work \in Texts
        <4>1. job_queued' = [job_queued EXCEPT ![work] = FALSE]
          BY <1>3, <3>1, Zenon DEF FinishJob, Report, MarkSent
        <4> QED BY <1>1, <3>1, <4>1 DEF NoticeType
      <3>2. CASE work \notin Texts
        <4>1. job_queued' = job_queued
          BY <1>3, <3>2, Zenon DEF FinishJob
        <4> QED BY <3>2, <4>1
      <3> QED BY <3>1, <3>2
    <2>6. \A t \in Texts : Outstanding(t) /\ t # work => Outstanding(t)'
      BY <2>1 DEF Outstanding
    <2> QED BY <2>4, <2>5, <2>6, Zenon DEF FaultRemembered
  <1> QED BY <1>2, <1>3 DEF modem_task

LEMMA RememberedStep == TextInv /\ FaultRemembered /\ [Next]_vars => FaultRemembered'
  <1> SUFFICES ASSUME TextInv, FaultRemembered, [Next]_vars PROVE FaultRemembered'
    OBVIOUS
  <1>1. CASE process_fault_sms \/ process_restored_sms
    <2>1. ProcessText("FAULT") \/ ProcessText("RESTORED")
      BY <1>1, Zenon DEF process_fault_sms, process_restored_sms
    <2>2. UNCHANGED <<confirmed, work>>
      BY <1>1, Zenon DEF process_fault_sms, process_restored_sms, confirm
    <2> QED BY <2>1, <2>2, ProcessRemembered DEF Texts
  <1>2. CASE EnqueueOther
    <2>1. UNCHANGED <<work, confirmed, sms, job_queued, informed>> /\ queue' = Append(queue, "OTHER")
      BY <1>2, Zenon DEF EnqueueOther, confirm, notice, history
    <2>2. \A t \in Texts : Outstanding(t) => Outstanding(t)'
      BY <2>1, AppendOutstanding DEF TextInv, ModemType, Job
    <2> QED BY <2>1, <2>2, Zenon DEF FaultRemembered, Known
  <1>3. CASE UNCHANGED <<queue, work, confirmed, sms, job_queued, informed>>
    BY <1>3, FaultKept DEF FaultRemembered, Known
  <1>4. CASE process_sensor_fault_notifications \/ EndGrace \/ ChangeSettings
             \/ (\E t \in Texts : Elapse(t)) \/ UNCHANGED vars
    BY <1>3, <1>4, Zenon DEF process_sensor_fault_notifications, EndGrace, ChangeSettings, Elapse,
       vars, confirm, notice, modem, history
  <1> QED BY <1>1, <1>2, <1>4, SampleRemembered, ModemRemembered DEF Next, publish_task

(* A confirmed fault is not forgotten before a fault text went out in it   *)
(* or found no number, whatever was queued, failed, reported late,         *)
(* switched off or edited: no flag keeps a text that is wanted out of the  *)
(* queue for nothing                                                       *)
(* (app_logic.c:2525-2583, 2763-2849, 3028-3043, 3652-3790).               *)
THEOREM RememberedCorrect == Spec => []FaultRemembered
  <1>1. Init => FaultRemembered
    BY Zenon DEF Init, FaultRemembered, Unflagged
  <1> QED BY <1>1, InitTexts, TextStep, RememberedStep, PTL DEF Spec
=============================================================================
