-------------------------- MODULE AlarmNotifyProofs --------------------------
(***************************************************************************)
(* For every set of channels and readings, queue length and limits, with   *)
(* settings edited and tasks preempted at any point: the variables keep    *)
(* their types, every job_queued flag stands for a job that is still in    *)
(* the queue or in modem_task's hands, and no alarm is told by more texts   *)
(* than its schedule has and it found in the queue without a flag.  With   *)
(* the settings left alone, no text is queued twice and no alarm that      *)
(* nobody was told of is forgotten.                                        *)
(***************************************************************************)
EXTENDS AlarmNotify, FiniteSetTheorems, TLAPS

IInv == TypeOK /\ JobFlagsLive

(* No flagged job is mistaken for another job or for none.                 *)
LEMMA JobsDistinct ==
  /\ \A j \in Flagged : j # NoJob
  /\ Flagged \subseteq Job
  /\ \A c \in Channels : AlarmText(c) \in Flagged /\ RestoredText(c) \in Flagged
  /\ AlarmCall \in Flagged
  <1>1. ASSUME NEW j \in Flagged PROVE j # NoJob
    <2>1. CASE \E c \in Channels : j = <<"ALARM", c>> \/ j = <<"RESTORED", c>>
      <3>1. PICK c \in Channels : j = <<"ALARM", c>> \/ j = <<"RESTORED", c>>
        BY <2>1
      <3>2. j[1] # "NONE"
        BY <3>1
      <3>3. NoJob[1] = "NONE"
        BY DEF NoJob
      <3> QED BY <3>2, <3>3
    <2>2. CASE j = <<"CALL", "">>
      BY <2>2 DEF NoJob
    <2> QED BY <2>1, <2>2 DEF Flagged, AlarmText, RestoredText, AlarmCall
  <1> QED BY <1>1 DEF Flagged, Job

LEMMA OnType ==
  ASSUME NEW S, NEW F \in [Channels -> S], NEW C, NEW v \in S
  PROVE  On(F, C, v) \in [Channels -> S]
  BY DEF On

LEMMA AgedType ==
  ASSUME age \in [Timers -> Age], NEW T, NEW a \in Age
  PROVE  Aged(T, a) \in [Timers -> Age]
  BY DEF Aged

LEMMA ResetType ==
  ASSUME age \in [Timers -> Age], NEW T
  PROVE  Reset(T) \in [Timers -> Age]
  BY DEF Reset, Zero, Age

(* A step that adds jobs to the queue, drops flags, and sets flags only    *)
(* for the jobs it adds keeps the flags honest.                            *)
LEMMA QueueGrows ==
  ASSUME TypeOK, JobFlagsLive, UNCHANGED <<work, closing>>,
         NEW took \in Seq(Job), queue' = queue \o took,
         \A j \in Flagged : job_queued'[j]
                              => job_queued[j] \/ \E i \in DOMAIN took : took[i] = j
  PROVE  JobFlagsLive'
  <1> SUFFICES ASSUME NEW j \in Flagged, job_queued'[j]
               PROVE  Outstanding(j)'
    BY DEF JobFlagsLive
  <1>1. queue \in Seq(Job)
    BY DEF TypeOK
  <1>2. \A i \in DOMAIN queue : i \in DOMAIN queue' /\ queue'[i] = queue[i]
    BY <1>1
  <1>3. \A i \in DOMAIN took : /\ Len(queue) + i \in DOMAIN queue'
                               /\ queue'[Len(queue) + i] = took[i]
    BY <1>1
  <1>4. CASE job_queued[j]
    BY <1>2, <1>4 DEF JobFlagsLive, Outstanding
  <1>5. CASE \E i \in DOMAIN took : took[i] = j
    BY <1>3, <1>5 DEF Outstanding
  <1> QED BY <1>4, <1>5

LEMMA QueueKept ==
  ASSUME JobFlagsLive, UNCHANGED <<work, closing, queue>>,
         \A j \in Flagged : job_queued'[j] => job_queued[j]
  PROVE  JobFlagsLive'
  BY DEF JobFlagsLive, Outstanding

(* What enqueue_modem_job takes are flagged jobs that fit the queue.       *)
LEMMA TakenType ==
  ASSUME TypeOK, NEW kind \in {"ALARM", "RESTORED"}, NEW pending
  PROVE  /\ Taken(kind, pending) \in Seq(Job)
         /\ Len(Taken(kind, pending)) <= QueueLen - Len(queue)
  <1> DEFINE job(c) == IF /\ c \in Channels /\ pending[c]
                          /\ ~job_queued[<<kind, c>>] THEN <<<<kind, c>>>> ELSE <<>>
             wanted == job("TEMP") \o job("HUM")
             room   == QueueLen - Len(queue)
  <1>1. \A c \in Channels : <<kind, c>> \in Job
    BY DEF Job, Flagged, AlarmText, RestoredText
  <1>2. ASSUME NEW c PROVE job(c) \in Seq(Job)
    <2>1. CASE job(c) = <<>>
      BY <2>1
    <2>2. CASE job(c) # <<>>
      <3>1. c \in Channels /\ job(c) = <<<<kind, c>>>>
        BY <2>2
      <3>2. <<kind, c>> \in Job
        BY <1>1, <3>1
      <3> HIDE DEF job
      <3> QED BY <3>1, <3>2
    <2> QED BY <2>1, <2>2
  <1>3. wanted \in Seq(Job)
    <2> HIDE DEF job
    <2> QED BY <1>2
  <1>4. room \in Nat
    BY LimitAssumption DEF TypeOK
  <1>5. Taken(kind, pending) = IF Len(wanted) <= room THEN wanted
                               ELSE SubSeq(wanted, 1, room)
    BY DEF Taken
  <1> HIDE DEF wanted, room
  <1>6. Taken(kind, pending) \in Seq(Job) /\ Len(Taken(kind, pending)) <= room
    BY <1>3, <1>4, <1>5
  <1> QED BY <1>6 DEF room

-----------------------------------------------------------------------------
(* publish_task, one lemma per function                                    *)

LEMMA ChannelsFinite == \A C \in SUBSET Channels : Cardinality(C) \in Nat
  <1>1. IsFiniteSet({"TEMP"}) /\ {"TEMP", "HUM"} = {"TEMP"} \cup {"HUM"}
    BY FS_Singleton
  <1>2. IsFiniteSet({"TEMP", "HUM"})
    BY <1>1, FS_AddElement
  <1> QED BY <1>2, ChannelAssumption, FS_Subset, FS_CardinalityType

LEMMA CallsArmed ==
  ASSUME TypeOK, NEW n \in Nat, arm_alarm_call_requests(n)
  PROVE  call_count' \in 0 .. MaxCalls /\ call_pending' \in BOOLEAN /\ call_done' \in BOOLEAN
  <1>1. call_count \in 0 .. MaxCalls /\ MaxCalls \in Nat
    BY LimitAssumption DEF TypeOK
  <1>2. call_count' \in 0 .. MaxCalls
    BY <1>1 DEF arm_alarm_call_requests
  <1> QED BY <1>2 DEF arm_alarm_call_requests

LEMMA WaitingType ==
  ASSUME queue \in Seq(Job), NEW c
  PROVE  Waiting(c) \in Nat
  <1>1. DOMAIN queue = 1 .. Len(queue) /\ Len(queue) \in Nat
    OBVIOUS
  <1>2. IsFiniteSet(1 .. Len(queue))
    BY <1>1, FS_Interval
  <1>3. IsFiniteSet({i \in DOMAIN queue : queue[i] = AlarmText(c)})
    BY <1>1, <1>2, FS_Subset
  <1> QED BY <1>3, FS_CardinalityType DEF Waiting

(* A flag stands for a text in the queue, or for the one in hand.          *)
LEMMA UnclaimedType ==
  ASSUME IInv, NEW c \in Channels
  PROVE  Unclaimed(c) \in Nat
  <1>1. Waiting(c) \in Nat
    BY WaitingType DEF IInv, TypeOK
  <1>2. CASE job_queued[AlarmText(c)] /\ (work = AlarmText(c) => closing)
    <2> DEFINE W == {i \in DOMAIN queue : queue[i] = AlarmText(c)}
    <2>1. PICK i \in DOMAIN queue : queue[i] = AlarmText(c)
      BY <1>2, JobsDistinct DEF IInv, JobFlagsLive, Outstanding
    <2>2. IsFiniteSet(W)
      <3>1. DOMAIN queue = 1 .. Len(queue) /\ Len(queue) \in Nat
        BY DEF IInv, TypeOK
      <3>2. IsFiniteSet(DOMAIN queue)
        BY <3>1, FS_Interval
      <3> QED BY <3>2, FS_Subset
    <2>3. Cardinality(W) # 0
      BY <2>1, <2>2, FS_EmptySet
    <2> QED BY <1>1, <1>2, <2>3 DEF Unclaimed, Waiting
  <1>3. CASE ~(job_queued[AlarmText(c)] /\ (work = AlarmText(c) => closing))
    BY <1>1, <1>3 DEF Unclaimed
  <1> QED BY <1>2, <1>3

LEMMA RenewedType ==
  ASSUME IInv, NEW C, Renewed(C)
  PROVE  texts' \in [Channels -> Nat] /\ carried' \in [Channels -> Nat] /\ stale' \in BOOLEAN
  <1>1. texts' \in [Channels -> Nat]
    BY OnType DEF IInv, TypeOK, Renewed
  <1>2. carried' = [c \in Channels |-> IF c \notin C THEN carried[c]
                                       ELSE IF side'[c] = "none" THEN 0 ELSE Unclaimed(c)]
    BY DEF Renewed
  <1>3. carried \in [Channels -> Nat]
    BY DEF IInv, TypeOK
  <1>4. carried' \in [Channels -> Nat]
    BY <1>2, <1>3, UnclaimedType
  <1> QED BY <1>1, <1>4 DEF IInv, TypeOK, Renewed

LEMMA SampleLemma == IInv /\ sample_sensors => IInv'
  <1> SUFFICES ASSUME IInv, sample_sensors PROVE IInv'
    OBVIOUS
  <1> DEFINE off == {c \in Channels : ~Monitored(c)}
  <1>1. job_queued' \in [Flagged -> BOOLEAN] /\ \A j \in Flagged : job_queued'[j] => job_queued[j]
    BY DEF sample_sensors, IInv, TypeOK
  <1>2. /\ new_pending' \in [Channels -> BOOLEAN] /\ restore_pending' \in [Channels -> BOOLEAN]
        /\ count' \in [Channels -> 0 .. NotifyMax] /\ age' \in [Timers -> Age]
    <2>1. FALSE \in BOOLEAN /\ 0 \in 0 .. NotifyMax
      BY LimitAssumption
    <2>2. /\ new_pending' = On(new_pending, off, FALSE)
          /\ restore_pending' = On(restore_pending, off, FALSE)
          /\ count' = On(count, off, 0) /\ age' = Reset(off)
      BY DEF sample_sensors
    <2>3. /\ new_pending \in [Channels -> BOOLEAN] /\ restore_pending \in [Channels -> BOOLEAN]
          /\ count \in [Channels -> 0 .. NotifyMax] /\ age \in [Timers -> Age]
      BY DEF IInv, TypeOK
    <2> HIDE DEF off
    <2>4. new_pending' \in [Channels -> BOOLEAN]
      BY <2>1, <2>2, <2>3, OnType
    <2>5. restore_pending' \in [Channels -> BOOLEAN]
      BY <2>1, <2>2, <2>3, OnType
    <2>6. count' \in [Channels -> 0 .. NotifyMax]
      BY <2>1, <2>2, <2>3, OnType
    <2>7. age' \in [Timers -> Age]
      BY <2>2, <2>3, ResetType
    <2> QED BY <2>4, <2>5, <2>6, <2>7
  <1>3. JobFlagsLive'
    BY <1>1, QueueKept DEF sample_sensors, IInv, modem
  <1>5. /\ reading' \in [Channels -> Zones] /\ pc' = "logic"
        /\ UNCHANGED <<settings, alarm_active, side, notice, modem, history>>
    BY DEF sample_sensors, Step
  <1>4. TypeOK'
    BY <1>1, <1>2, <1>5 DEF IInv, TypeOK, settings, notice, modem, history, Busy
  <1> QED BY <1>3, <1>4 DEF IInv

LEMMA LogicLemma == IInv /\ process_alarm_logic => IInv'
  <1> SUFFICES ASSUME IInv, process_alarm_logic PROVE IInv'
    OBVIOUS
  <1>1. job_queued' \in [Flagged -> BOOLEAN] /\ \A j \in Flagged : job_queued'[j] => job_queued[j]
    BY DEF process_alarm_logic, IInv, TypeOK
  <1>2. JobFlagsLive'
    BY <1>1, QueueKept DEF process_alarm_logic, IInv, modem
  <1> DEFINE Alarm == /\ alarm_active \in BOOLEAN /\ side \in [Channels -> Side]
                      /\ count \in [Channels -> 0 .. NotifyMax] /\ age \in [Timers -> Age]
                      /\ new_pending \in [Channels -> BOOLEAN]
                      /\ restore_pending \in [Channels -> BOOLEAN]
             Notice == /\ sms_pending \in BOOLEAN /\ sms_sent \in BOOLEAN
                       /\ restored_sent \in BOOLEAN /\ call_pending \in BOOLEAN
                       /\ call_done \in BOOLEAN /\ call_count \in 0 .. MaxCalls
             History == /\ texts \in [Channels -> Nat] /\ carried \in [Channels -> Nat]
                        /\ stale \in BOOLEAN
  <1>a. /\ 0 \in 0 .. NotifyMax /\ 1 \in 0 .. NotifyMax
    BY LimitAssumption
  <1>3. ASSUME AssertAlarm PROVE Alarm' /\ Notice' /\ History'
    BY <1>3, AgedType DEF AssertAlarm, alarm, notice, history, IInv, TypeOK, Age, Timers
  <1>4. ASSUME RaiseAlarm PROVE Alarm' /\ Notice' /\ History'
    <2> DEFINE New == {c \in Channels : AlarmNow(c)}
    <2>1. alarm_active' = TRUE /\ sms_pending' = TRUE /\ sms_sent' = FALSE
          /\ restored_sent' = FALSE /\ restore_pending' = restore_pending
          /\ count' = On(count, New, 1)
      BY <1>4 DEF RaiseAlarm, AskForText
    <2>2. side' \in [Channels -> Side] /\ new_pending' \in [Channels -> BOOLEAN]
      BY <1>4 DEF RaiseAlarm, AlarmNow, Side
    <2>3. age' \in [Timers -> Age]
      BY <1>4 DEF RaiseAlarm, Zero, Age, IInv, TypeOK
    <2>4. count' \in [Channels -> 0 .. NotifyMax]
      BY <1>a, <2>1, OnType DEF IInv, TypeOK
    <2>5. arm_alarm_call_requests(Cardinality(New)) /\ Cardinality(New) \in Nat
      BY ChannelsFinite, <1>4 DEF RaiseAlarm
    <2>6. call_count' \in 0 .. MaxCalls /\ call_pending' \in BOOLEAN /\ call_done' \in BOOLEAN
      BY <2>5, CallsArmed DEF IInv
    <2>7. History'
      BY <1>4, RenewedType DEF RaiseAlarm
    <2> QED BY <2>1, <2>2, <2>3, <2>4, <2>6, <2>7 DEF IInv, TypeOK
  <1>5. ASSUME FollowAlarm PROVE Alarm' /\ Notice' /\ History'
    <2> DEFINE New  == {c \in Channels : AlarmNow(c) /\ side[c] = "none"}
               Back == {c \in Channels : Monitored(c) /\ RestoredNow(c)}
               Off  == {c \in Channels : ~Monitored(c) /\ side[c] # "none"}
               over == AllEnded
               told == IF New \cup Back = {} THEN {} ELSE {"restored"}
    <2>1. side' \in [Channels -> Side]
      BY <1>5 DEF FollowAlarm, AlarmNow, Side, IInv, TypeOK
    <2>2. alarm_active' \in BOOLEAN
      BY <1>5 DEF FollowAlarm, AllEnded
    <2>3. /\ new_pending' \in [Channels -> BOOLEAN]
          /\ restore_pending' \in [Channels -> BOOLEAN]
      BY <1>5, OnType DEF FollowAlarm, IInv, TypeOK
    <2>4. count' \in [Channels -> 0 .. NotifyMax]
      <3>1. On(On(count, New, 1), Back \cup Off, 0) \in [Channels -> 0 .. NotifyMax]
        BY <1>a, OnType DEF IInv, TypeOK
      <3> QED BY <1>5, <1>a, <3>1 DEF FollowAlarm
    <2>5. age' \in [Timers -> Age]
      <3>1. Reset({"assert", "sms", "call"} \cup Channels \cup told) \in [Timers -> Age]
        BY ResetType DEF IInv, TypeOK
      <3>2. [t \in Timers |-> CASE t \in New -> "recent"
                               [] t \in Back \cup Off \cup told -> Zero(t)
                               [] t \in {"sms", "call"} /\ New # {} -> Zero(t)
                               [] OTHER -> age[t]] \in [Timers -> Age]
        <4> HIDE DEF New, Back, Off, told
        <4> QED BY DEF IInv, TypeOK, Zero, Age
      <3> QED BY <1>5, <3>1, <3>2 DEF FollowAlarm
    <2>6. New # {} => Cardinality(New) \in Nat
      BY ChannelsFinite
    <2>7. /\ sms_pending' \in BOOLEAN /\ sms_sent' \in BOOLEAN /\ call_pending' \in BOOLEAN
          /\ call_done' \in BOOLEAN /\ call_count' \in 0 .. MaxCalls
      <3>1. CASE over
        BY <1>5, <3>1 DEF FollowAlarm, IInv, TypeOK
      <3>2. CASE ~over /\ New # {}
        <4>1. AskForText /\ arm_alarm_call_requests(Cardinality(New))
          BY <1>5, <3>2 DEF FollowAlarm
        <4> QED BY <2>6, <3>2, <4>1, CallsArmed DEF AskForText, IInv
      <3>3. CASE ~over /\ New = {}
        BY <1>5, <3>3 DEF FollowAlarm, IInv, TypeOK
      <3> QED BY <3>1, <3>2, <3>3
    <2>8. restored_sent' \in BOOLEAN
      BY <1>5 DEF FollowAlarm
    <2>9. History'
      BY <1>5, RenewedType DEF FollowAlarm
    <2> QED BY <2>1, <2>2, <2>3, <2>4, <2>5, <2>7, <2>8, <2>9
  <1>6. Alarm' /\ Notice' /\ History'
    BY <1>3, <1>4, <1>5 DEF process_alarm_logic
  <1>7. UNCHANGED <<settings, reading, modem>> /\ pc' = "reminder"
    BY DEF process_alarm_logic, Step
  <1> HIDE DEF Alarm, Notice, History
  <1>8. TypeOK'
    BY <1>1, <1>6, <1>7 DEF Alarm, Notice, History, IInv, TypeOK, settings, modem, Busy
  <1> QED BY <1>2, <1>8 DEF IInv

LEMMA ReminderLemma == IInv /\ process_alarm_reminder => IInv'
  <1> SUFFICES ASSUME IInv, process_alarm_reminder PROVE IInv'
    OBVIOUS
  <1> DEFINE Due == {c \in Channels : alarm_active /\ ~Busy /\ ReminderDue(c)}
  <1>1. /\ UNCHANGED <<settings, reading, job_queued, modem, history>> /\ pc' = "sms"
    BY DEF process_alarm_reminder, Step
  <1>2. JobFlagsLive'
    BY <1>1, QueueKept DEF IInv, modem
  <1>3. CASE Due = {}
    <2>1. UNCHANGED <<alarm, age, notice>>
      BY <1>3 DEF process_alarm_reminder
    <2>2. TypeOK'
      BY <1>1, <2>1 DEF IInv, TypeOK, settings, modem, history, alarm, notice, Busy
    <2> QED BY <1>2, <2>2 DEF IInv
  <1>4. CASE Due # {}
    <2>1. /\ UNCHANGED <<alarm_active, side, restore_pending, restored_sent>>
          /\ new_pending' = On(new_pending, Due, TRUE)
          /\ count' = [c \in Channels |-> IF c \in Due THEN count[c] + 1 ELSE count[c]]
          /\ age' = [t \in Timers |-> CASE t \in Due -> "recent"
                                        [] t \in {"sms", "call"} -> Zero(t)
                                        [] OTHER -> age[t]]
          /\ AskForText /\ arm_alarm_call_requests(Cardinality(Due))
      BY <1>4 DEF process_alarm_reminder
    <2>2. \A c \in Due : count[c] \in 1 .. NotifyMax - 1
      BY DEF ReminderDue
    <2>3. Cardinality(Due) \in Nat
      BY ChannelsFinite
    <2> HIDE DEF Due
    <2>4. new_pending' \in [Channels -> BOOLEAN]
      BY <2>1, OnType DEF IInv, TypeOK
    <2>5. count' \in [Channels -> 0 .. NotifyMax]
      <3>1. count \in [Channels -> 0 .. NotifyMax] /\ NotifyMax \in Nat \ {0}
        BY LimitAssumption DEF IInv, TypeOK
      <3>2. ASSUME NEW c \in Channels
            PROVE  (IF c \in Due THEN count[c] + 1 ELSE count[c]) \in 0 .. NotifyMax
        BY <2>2, <3>1
      <3> QED BY <2>1, <3>2
    <2>6. age' \in [Timers -> Age]
      BY <2>1 DEF IInv, TypeOK, Zero, Age
    <2>7. call_count' \in 0 .. MaxCalls /\ call_pending' \in BOOLEAN /\ call_done' \in BOOLEAN
      BY <2>1, <2>3, CallsArmed DEF IInv
    <2>8. TypeOK'
      BY <1>1, <2>1, <2>4, <2>5, <2>6, <2>7
         DEF AskForText, IInv, TypeOK, settings, modem, history, Busy
    <2> QED BY <1>2, <2>8 DEF IInv
  <1> QED BY <1>3, <1>4

(* The part of a pass that queues texts, and the one that gives up on them *)
LEMMA QueueTextsLemma ==
  ASSUME IInv, NEW kind \in {"ALARM", "RESTORED"}, NEW pending,
         NEW timer \in Timers, QueueTexts(kind, pending, timer),
         pc' \in {"sample", "logic", "reminder", "sms", "restored", "call"}
  PROVE  IInv'
  <1> DEFINE took == IF age[timer] = "recent" \/ Busy THEN <<>> ELSE Taken(kind, pending)
  <1>1. took \in Seq(Job) /\ Len(took) <= QueueLen - Len(queue)
    <2>1. <<>> \in Seq(Job) /\ Len(<<>>) = 0 /\ 0 <= QueueLen - Len(queue)
      BY LimitAssumption DEF IInv, TypeOK
    <2>2. /\ Taken(kind, pending) \in Seq(Job)
          /\ Len(Taken(kind, pending)) <= QueueLen - Len(queue)
      BY TakenType DEF IInv
    <2> QED BY <2>1, <2>2
  <1>2. /\ queue' = queue \o took
        /\ job_queued' = [j \in Flagged |->
                            job_queued[j] \/ \E i \in DOMAIN took : took[i] = j]
        /\ age' = IF took = <<>> THEN age ELSE Aged({timer}, "recent")
        /\ UNCHANGED <<settings, reading, alarm, notice, work, verdict, closing, history>>
    BY DEF QueueTexts
  <1> HIDE DEF took
  <1>3. JobFlagsLive'
    BY <1>1, <1>2, QueueGrows DEF IInv
  <1>4. queue' \in Seq(Job) /\ Len(queue') <= QueueLen
    BY <1>1, <1>2, LimitAssumption DEF IInv, TypeOK
  <1>5. job_queued' \in [Flagged -> BOOLEAN]
    BY <1>2 DEF IInv, TypeOK
  <1>6. age' \in [Timers -> Age]
    BY <1>2, AgedType DEF IInv, TypeOK, Age
  <1>7. /\ UNCHANGED <<settings, reading, alarm, notice, work, verdict, closing, history>>
        /\ pc' \in {"sample", "logic", "reminder", "sms", "restored", "call"}
    BY <1>2
  <1>8. TypeOK'
    BY <1>4, <1>5, <1>6, <1>7 DEF IInv, TypeOK, settings, alarm, notice, history, Busy
  <1> QED BY <1>3, <1>8 DEF IInv

LEMMA TextsLemma == IInv /\ process_alarm_sms => IInv'
  <1> SUFFICES ASSUME IInv, process_alarm_sms PROVE IInv'
    OBVIOUS
  <1>1. pc' = "restored"
    BY DEF process_alarm_sms, Step
  <1>2. CASE ~sms_pending \/ sms_sent
    <2>1. UNCHANGED <<settings, reading, alarm, age, notice, job_queued, modem, history>>
      BY <1>2 DEF process_alarm_sms
    <2>2. JobFlagsLive'
      BY <2>1, QueueKept DEF IInv, modem
    <2>3. TypeOK'
      BY <1>1, <2>1 DEF IInv, TypeOK, settings, alarm, notice, modem, history, Busy
    <2> QED BY <2>2, <2>3 DEF IInv
  <1>3. CASE sms_pending /\ ~sms_sent /\ sms_target
    BY <1>1, <1>3, QueueTextsLemma DEF process_alarm_sms, Timers
  <1>4. CASE sms_pending /\ ~sms_sent /\ ~sms_target
    <2>1. /\ sms_pending' = FALSE /\ sms_sent' = TRUE
          /\ new_pending' = On(new_pending, Channels, FALSE)
          /\ job_queued' = Unflagged("ALARM")
          /\ UNCHANGED <<settings, reading, alarm_active, side, count, restore_pending,
               age, restored_sent, call_pending, call_done, call_count, modem, history>>
      BY <1>4 DEF process_alarm_sms
    <2>2. /\ job_queued' \in [Flagged -> BOOLEAN]
          /\ \A j \in Flagged : job_queued'[j] => job_queued[j]
      BY <2>1 DEF Unflagged, IInv, TypeOK
    <2>3. new_pending' \in [Channels -> BOOLEAN]
      BY <2>1, OnType DEF IInv, TypeOK
    <2>4. JobFlagsLive'
      BY <2>1, <2>2, QueueKept DEF IInv, modem
    <2>5. TypeOK'
      BY <1>1, <2>1, <2>2, <2>3 DEF IInv, TypeOK, settings, modem, history, Busy
    <2> QED BY <2>4, <2>5 DEF IInv
  <1> QED BY <1>2, <1>3, <1>4 DEF IInv, TypeOK

LEMMA RestoredTextsLemma == IInv /\ process_alarm_restored_sms => IInv'
  <1> SUFFICES ASSUME IInv, process_alarm_restored_sms PROVE IInv'
    OBVIOUS
  <1> DEFINE any == \E c \in Channels : restore_pending[c]
  <1>1. pc' = "call"
    BY DEF process_alarm_restored_sms, Step
  <1>2. CASE ~any \/ restored_sent
    <2>1. UNCHANGED <<settings, reading, alarm, age, notice, job_queued, modem, history>>
      BY <1>2 DEF process_alarm_restored_sms
    <2>2. JobFlagsLive'
      BY <2>1, QueueKept DEF IInv, modem
    <2>3. TypeOK'
      BY <1>1, <2>1 DEF IInv, TypeOK, settings, alarm, notice, modem, history, Busy
    <2> QED BY <2>2, <2>3 DEF IInv
  <1>3. CASE any /\ ~restored_sent /\ sms_target
    BY <1>1, <1>3, QueueTextsLemma DEF process_alarm_restored_sms, Timers
  <1>4. CASE any /\ ~restored_sent /\ ~sms_target
    <2>1. /\ restored_sent' = TRUE
          /\ restore_pending' = On(restore_pending, Channels, FALSE)
          /\ job_queued' = Unflagged("RESTORED")
          /\ UNCHANGED <<settings, reading, alarm_active, side, count, new_pending, age,
               sms_pending, sms_sent, call_pending, call_done, call_count, modem, history>>
      BY <1>4 DEF process_alarm_restored_sms
    <2>2. /\ job_queued' \in [Flagged -> BOOLEAN]
          /\ \A j \in Flagged : job_queued'[j] => job_queued[j]
      BY <2>1 DEF Unflagged, IInv, TypeOK
    <2>3. restore_pending' \in [Channels -> BOOLEAN]
      BY <2>1, OnType DEF IInv, TypeOK
    <2>4. JobFlagsLive'
      BY <2>1, <2>2, QueueKept DEF IInv, modem
    <2>5. TypeOK'
      BY <1>1, <2>1, <2>2, <2>3 DEF IInv, TypeOK, settings, modem, history, Busy
    <2> QED BY <2>4, <2>5 DEF IInv
  <1> QED BY <1>2, <1>3, <1>4 DEF IInv, TypeOK

LEMMA CallLemma == IInv /\ process_alarm_call => IInv'
  <1> SUFFICES ASSUME IInv, process_alarm_call PROVE IInv'
    OBVIOUS
  <1>1. /\ pc' = "sample"
        /\ UNCHANGED <<settings, reading, alarm, sms_pending, sms_sent, restored_sent,
                       work, verdict, closing, history>>
    BY DEF process_alarm_call, Step
  <1>2. CASE UNCHANGED <<age, call_pending, call_done, call_count, job_queued, queue>>
    <2>1. JobFlagsLive'
      BY <1>1, <1>2, QueueKept DEF IInv
    <2>2. TypeOK'
      BY <1>1, <1>2 DEF IInv, TypeOK, settings, alarm, history, Busy
    <2> QED BY <2>1, <2>2 DEF IInv
  <1>3. CASE /\ age' = Aged({"call"}, "recent")
             /\ Len(queue) < QueueLen
             /\ job_queued' = [job_queued EXCEPT ![AlarmCall] = TRUE]
             /\ queue' = Append(queue, AlarmCall)
             /\ UNCHANGED <<call_pending, call_done, call_count>>
    <2>1. AlarmCall \in Flagged /\ AlarmCall \in Job
      BY JobsDistinct
    <2>2. /\ queue \in Seq(Job) /\ Len(queue) \in Nat
          /\ queue' = queue \o <<AlarmCall>> /\ <<AlarmCall>> \in Seq(Job)
          /\ \E i \in DOMAIN <<AlarmCall>> : <<AlarmCall>>[i] = AlarmCall
      BY <1>3, <2>1 DEF IInv, TypeOK
    <2>3. \A j \in Flagged : job_queued'[j] => \/ job_queued[j]
                                               \/ j = AlarmCall
      BY <1>3 DEF IInv, TypeOK
    <2>4. JobFlagsLive'
      BY <1>1, <2>2, <2>3, QueueGrows DEF IInv
    <2>5. queue' \in Seq(Job) /\ Len(queue') <= QueueLen
      BY <1>3, <2>1, <2>2, LimitAssumption DEF IInv, TypeOK
    <2>6. job_queued' \in [Flagged -> BOOLEAN]
      BY <1>3, <2>1 DEF IInv, TypeOK
    <2>7. age' \in [Timers -> Age]
      BY <1>3, AgedType DEF IInv, TypeOK, Age
    <2>8. TypeOK'
      BY <1>1, <1>3, <2>5, <2>6, <2>7 DEF IInv, TypeOK, settings, alarm, history, Busy
    <2> QED BY <2>4, <2>8 DEF IInv
  <1>4. CASE /\ age' = Aged({"call"}, "recent")
             /\ UNCHANGED <<job_queued, queue, call_pending, call_done, call_count>>
    <2>1. JobFlagsLive'
      BY <1>1, <1>4, QueueKept DEF IInv
    <2>2. age' \in [Timers -> Age]
      BY <1>4, AgedType DEF IInv, TypeOK, Age
    <2>3. TypeOK'
      BY <1>1, <1>4, <2>2 DEF IInv, TypeOK, settings, alarm, history, Busy
    <2> QED BY <2>1, <2>3 DEF IInv
  <1>5. CASE /\ call_pending' = FALSE /\ call_done' = TRUE /\ call_count' = 0
             /\ job_queued' = [job_queued EXCEPT ![AlarmCall] = FALSE]
             /\ UNCHANGED <<age, queue>>
    <2>1. /\ job_queued' \in [Flagged -> BOOLEAN]
          /\ \A j \in Flagged : job_queued'[j] => job_queued[j]
      BY <1>5 DEF IInv, TypeOK
    <2>2. JobFlagsLive'
      BY <1>1, <1>5, <2>1, QueueKept DEF IInv
    <2>3. call_count' \in 0 .. MaxCalls
      BY <1>5, LimitAssumption
    <2>4. TypeOK'
      BY <1>1, <1>5, <2>1, <2>3 DEF IInv, TypeOK, settings, alarm, history, Busy
    <2> QED BY <2>2, <2>4 DEF IInv
  <1> QED BY <1>2, <1>3, <1>4, <1>5 DEF process_alarm_call, QueueCall

-----------------------------------------------------------------------------
(* modem_task                                                              *)

(* A job taken from the queue is still outstanding in the modem's hands.   *)
LEMMA ReceiveLemma == IInv /\ ReceiveJob => IInv'
  <1> SUFFICES ASSUME IInv, ReceiveJob PROVE IInv'
    OBVIOUS
  <1>1. /\ work = NoJob /\ queue # <<>> /\ work' = Head(queue) /\ queue' = Tail(queue)
        /\ UNCHANGED <<settings, reading, pc, alarm, age, notice, job_queued, verdict,
                       closing, history>>
    BY DEF ReceiveJob, Busy
  <1>2. /\ queue \in Seq(Job) /\ Len(queue) <= QueueLen /\ ~closing
    BY <1>1 DEF IInv, TypeOK, Busy
  <1>3. work' \in Job /\ queue' \in Seq(Job) /\ Len(queue') <= QueueLen
    BY <1>1, <1>2, LimitAssumption
  <1>4. \A i \in DOMAIN queue : \/ queue[i] = work'
                                \/ i - 1 \in DOMAIN queue' /\ queue'[i - 1] = queue[i]
    BY <1>1, <1>2
  <1>5. ASSUME NEW j \in Flagged, job_queued'[j] PROVE Outstanding(j)'
    <2>1. j # NoJob
      BY JobsDistinct
    <2>2. PICK i \in DOMAIN queue : queue[i] = j
      BY <1>1, <1>5, <2>1 DEF IInv, JobFlagsLive, Outstanding
    <2> QED BY <1>1, <1>2, <1>4, <2>2 DEF Outstanding
  <1>6. JobFlagsLive'
    BY <1>5 DEF JobFlagsLive
  <1>7. TypeOK'
    BY <1>1, <1>2, <1>3 DEF IInv, TypeOK, settings, alarm, notice, history, Busy
  <1> QED BY <1>6, <1>7 DEF IInv

(* The job in hand reports: it is no longer outstanding, and its flag goes *)
(* with it.                                                                *)
LEMMA TestLemma ==
  ASSUME IInv, NEW outcome \in Outcome, TestJob(outcome)
  PROVE  IInv'
  <1>1. /\ Busy /\ ~closing /\ closing' = TRUE /\ job_queued' = Unqueued
        /\ UNCHANGED <<settings, reading, pc, age, sms_pending, sms_sent, restored_sent,
                       call_pending, call_done, queue, work, carried, stale>>
    BY DEF TestJob
  <1>2. /\ job_queued' \in [Flagged -> BOOLEAN]
        /\ \A j \in Flagged : job_queued'[j] => job_queued[j] /\ j # work
    BY <1>1 DEF Unqueued, IInv, TypeOK
  <1>3. JobFlagsLive'
    BY <1>1, <1>2 DEF IInv, JobFlagsLive, Outstanding
  <1> DEFINE Report == /\ alarm_active \in BOOLEAN /\ side \in [Channels -> Side]
                       /\ count \in [Channels -> 0 .. NotifyMax]
                       /\ new_pending \in [Channels -> BOOLEAN]
                       /\ restore_pending \in [Channels -> BOOLEAN]
                       /\ call_count \in 0 .. MaxCalls /\ verdict \subseteq Verdict
                       /\ texts \in [Channels -> Nat]
  <1>4. ASSUME ReportText(outcome) PROVE Report'
    <2>1. /\ new_pending' \in [Channels -> BOOLEAN]
          /\ restore_pending' \in [Channels -> BOOLEAN]
      BY <1>4 DEF ReportText, IInv, TypeOK
    <2>2. verdict' \subseteq Verdict
      BY <1>4 DEF ReportText, Verdict
    <2>3. texts' \in [Channels -> Nat]
      <3>1. texts \in [Channels -> Nat]
        BY DEF IInv, TypeOK
      <3>2. \A c \in Channels : texts[c] \in Nat /\ texts[c] + 1 \in Nat
        BY <3>1
      <3>3. texts' = [c \in Channels |->
                        IF outcome = "sent" /\ work = AlarmText(c) /\ ~stale /\ side[c] # "none"
                          THEN texts[c] + 1 ELSE texts[c]]
        BY <1>4, Zenon DEF ReportText
      <3> QED BY <3>2, <3>3
    <2>4. UNCHANGED <<alarm_active, side, count, call_count>>
      BY <1>4 DEF ReportText
    <2> QED BY <2>1, <2>2, <2>3, <2>4 DEF IInv, TypeOK
  <1>5. ASSUME ReportPoll PROVE Report'
    BY <1>5 DEF ReportPoll, IInv, TypeOK, alarm
  <1>6. ASSUME ReportCall(outcome) PROVE Report'
    <2>1. UNCHANGED <<alarm, texts>> /\ verdict' \subseteq Verdict
      BY <1>6 DEF ReportCall, Verdict
    <2>2. call_count' \in 0 .. MaxCalls
      <3>1. call_count \in 0 .. MaxCalls /\ MaxCalls \in Nat
        BY LimitAssumption DEF IInv, TypeOK
      <3>2. call_count' = IF outcome # "failed" /\ call_count > 0 THEN call_count - 1 ELSE call_count
        BY <1>6 DEF ReportCall
      <3> QED BY <3>1, <3>2
    <2> QED BY <2>1, <2>2 DEF IInv, TypeOK, alarm
  <1>7. Report'
    BY <1>4, <1>5, <1>6 DEF TestJob
  <1> HIDE DEF Report
  <1>8. TypeOK'
    BY <1>1, <1>2, <1>7 DEF Report, IInv, TypeOK, settings, Busy
  <1> QED BY <1>3, <1>8 DEF IInv

LEMMA CloseLemma == IInv /\ CloseJob => IInv'
  <1> SUFFICES ASSUME IInv, CloseJob PROVE IInv'
    OBVIOUS
  <1>1. /\ closing /\ closing' = FALSE /\ verdict' = {} /\ work' = NoJob /\ stale' = FALSE
        /\ UNCHANGED <<settings, reading, pc, alarm, call_count, job_queued, queue, texts,
                       carried>>
    BY DEF CloseJob
  <1>2. JobFlagsLive'
    BY <1>1 DEF IInv, JobFlagsLive, Outstanding
  <1>3. /\ sms_pending' \in BOOLEAN /\ sms_sent' \in BOOLEAN /\ restored_sent' \in BOOLEAN
        /\ call_pending' \in BOOLEAN /\ call_done' \in BOOLEAN
    BY DEF CloseJob
  <1>4. age' \in [Timers -> Age]
    BY ResetType DEF CloseJob, IInv, TypeOK, Age
  <1>5. TypeOK'
    BY <1>1, <1>3, <1>4 DEF IInv, TypeOK, settings, alarm, Busy
  <1> QED BY <1>2, <1>5 DEF IInv

-----------------------------------------------------------------------------
LEMMA RestartLemma ==
  ASSUME IInv, Restart
  PROVE  IInv'
  <1>1. JobFlagsLive'
    BY DEF Restart, JobFlagsLive
  <1>2. queue' \in Seq(Job) /\ Len(queue') <= QueueLen
    <2>1. queue' = <<>>
      BY DEF Restart
    <2> QED BY <2>1, LimitAssumption
  <1>3. 0 \in 0 .. NotifyMax /\ 0 \in 0 .. MaxCalls
    BY LimitAssumption
  <1>4. /\ side' \in [Channels -> Side] /\ count' \in [Channels -> 0 .. NotifyMax]
        /\ age' \in [Timers -> Age] /\ new_pending' \in [Channels -> BOOLEAN]
        /\ restore_pending' \in [Channels -> BOOLEAN] /\ job_queued' \in [Flagged -> BOOLEAN]
        /\ texts' \in [Channels -> Nat] /\ carried' \in [Channels -> Nat]
        /\ call_count' \in 0 .. MaxCalls
    BY <1>3 DEF Restart, Side, Zero, Age
  <1>5. /\ reading' \in [Channels -> Zones] /\ pc' = "sample" /\ alarm_active' = FALSE
        /\ sms_pending' = FALSE /\ sms_sent' = FALSE /\ restored_sent' = FALSE
        /\ call_pending' = FALSE /\ call_done' = FALSE
        /\ work' = NoJob /\ verdict' = {} /\ closing' = FALSE /\ stale' = FALSE
        /\ UNCHANGED settings
    BY DEF Restart
  <1>6. TypeOK'
    BY <1>2, <1>4, <1>5 DEF IInv, TypeOK, settings
  <1> QED BY <1>1, <1>6 DEF IInv

LEMMA EnvironmentLemma ==
  ASSUME IInv, (\E t \in Timers : Elapse(t)) \/ EnqueueOther
          \/ process_incoming_sms_commands \/ ChangeSettings
  PROVE  IInv'
  <1>1. CASE \E t \in Timers : Elapse(t)
    <2>1. /\ UNCHANGED <<settings, reading, pc, alarm, notice, job_queued, modem, history>>
          /\ age' \in [Timers -> Age]
      BY <1>1 DEF Elapse, IInv, TypeOK, Age
    <2>2. JobFlagsLive'
      BY <2>1, QueueKept DEF IInv, modem
    <2>3. TypeOK'
      BY <2>1 DEF IInv, TypeOK, settings, alarm, notice, modem, history, Busy
    <2> QED BY <2>2, <2>3 DEF IInv
  <1>2. CASE EnqueueOther \/ (QueuePoll /\ "POLL" \in OtherJobs)
    <2>1. PICK k \in OtherJobs : queue' = Append(queue, Other(k))
      BY <1>2 DEF EnqueueOther, QueuePoll
    <2>2. /\ UNCHANGED <<settings, reading, pc, alarm, age, notice, job_queued, work,
                         verdict, closing, history>>
          /\ Len(queue) < QueueLen /\ queue \in Seq(Job) /\ Other(k) \in Job
      BY <1>2 DEF EnqueueOther, QueuePoll, IInv, TypeOK, Job
    <2>3. /\ queue' = queue \o <<Other(k)>> /\ <<Other(k)>> \in Seq(Job)
          /\ queue' \in Seq(Job) /\ Len(queue') <= QueueLen
      BY <2>1, <2>2, LimitAssumption
    <2>4. JobFlagsLive'
      BY <2>2, <2>3, QueueGrows DEF IInv
    <2>5. TypeOK'
      BY <2>2, <2>3 DEF IInv, TypeOK, settings, alarm, notice, history, Busy
    <2> QED BY <2>4, <2>5 DEF IInv
  <1>3. CASE ChangeSettings
    <2>1. /\ hum_enabled' \in BOOLEAN /\ sms_target' \in BOOLEAN /\ call_target' \in BOOLEAN
          /\ UNCHANGED <<reading, pc, alarm, age, notice, job_queued, modem, history>>
      BY <1>3 DEF ChangeSettings
    <2>2. JobFlagsLive'
      BY <2>1, QueueKept DEF IInv, modem
    <2>3. TypeOK'
      BY <2>1 DEF IInv, TypeOK, alarm, notice, modem, history, Busy
    <2> QED BY <2>2, <2>3 DEF IInv
  <1>4. CASE Restart
    BY <1>4, RestartLemma
  <1> QED BY <1>1, <1>2, <1>3, <1>4 DEF process_incoming_sms_commands

LEMMA LimitLemma ==
  ASSUME IInv, NEW c \in Channels, LimitUpdate(c)
  PROVE  IInv'
  <1>1. PICK z \in Zones \cap {"low", "high"} :
          /\ reading' = [reading EXCEPT ![c] = z]
          /\ side' = [side EXCEPT ![c] = z]
    BY DEF LimitUpdate
  <1>2. /\ alarm_active' = TRUE /\ sms_pending' = TRUE /\ sms_sent' = FALSE
        /\ restored_sent' = FALSE
        /\ new_pending' = On(new_pending, {c}, TRUE) /\ count' = On(count, {c}, 1)
        /\ UNCHANGED <<settings, pc, restore_pending, job_queued, modem>>
    BY DEF LimitUpdate, AskForText
  <1>3. reading' \in [Channels -> Zones] /\ side' \in [Channels -> Side]
    BY <1>1 DEF IInv, TypeOK, Side
  <1>4. 1 \in 0 .. NotifyMax
    BY LimitAssumption
  <1>5. new_pending' \in [Channels -> BOOLEAN]
    BY <1>2, OnType DEF IInv, TypeOK
  <1>6. count' \in [Channels -> 0 .. NotifyMax]
    BY <1>2, <1>4, OnType DEF IInv, TypeOK
  <1>7. age' \in [Timers -> Age]
    BY DEF LimitUpdate, Zero, Age, IInv, TypeOK
  <1>8. call_count' \in 0 .. MaxCalls /\ call_pending' \in BOOLEAN /\ call_done' \in BOOLEAN
    BY CallsArmed DEF LimitUpdate, IInv
  <1>9. texts' \in [Channels -> Nat] /\ carried' \in [Channels -> Nat] /\ stale' \in BOOLEAN
    BY RenewedType DEF LimitUpdate
  <1>10. JobFlagsLive'
    BY <1>2, QueueKept DEF IInv, modem
  <1>11. TypeOK'
    BY <1>2, <1>3, <1>5, <1>6, <1>7, <1>8, <1>9 DEF IInv, TypeOK, settings, modem, Busy
  <1> QED BY <1>10, <1>11 DEF IInv

LEMMA InitLemma == Init => IInv
  <1> SUFFICES ASSUME Init PROVE IInv
    OBVIOUS
  <1>1. JobFlagsLive
    BY DEF Init, JobFlagsLive
  <1>2. queue \in Seq(Job) /\ Len(queue) <= QueueLen
    <2>1. queue = <<>>
      BY DEF Init
    <2> QED BY <2>1, LimitAssumption
  <1>3. 0 \in 0 .. NotifyMax /\ 0 \in 0 .. MaxCalls
    BY LimitAssumption
  <1>4. /\ side \in [Channels -> Side] /\ count \in [Channels -> 0 .. NotifyMax]
        /\ age \in [Timers -> Age] /\ new_pending \in [Channels -> BOOLEAN]
        /\ restore_pending \in [Channels -> BOOLEAN] /\ job_queued \in [Flagged -> BOOLEAN]
        /\ texts \in [Channels -> Nat] /\ carried \in [Channels -> Nat]
        /\ call_count \in 0 .. MaxCalls
    BY <1>3 DEF Init, Side, Zero, Age
  <1>5. /\ hum_enabled = TRUE /\ sms_target = TRUE /\ call_target \in BOOLEAN
        /\ reading \in [Channels -> Zones] /\ pc = "sample" /\ alarm_active = FALSE
        /\ sms_pending = FALSE /\ sms_sent = FALSE /\ restored_sent = FALSE
        /\ call_pending = FALSE /\ call_done = FALSE
        /\ work = NoJob /\ verdict = {} /\ closing = FALSE /\ stale = FALSE
    BY DEF Init
  <1>6. TypeOK
    BY <1>2, <1>4, <1>5 DEF TypeOK
  <1> QED BY <1>1, <1>6 DEF IInv

LEMMA NextLemma == IInv /\ [Next]_vars => IInv'
  <1> SUFFICES ASSUME IInv, [Next]_vars PROVE IInv'
    OBVIOUS
  <1>1. CASE publish_task
    BY <1>1, SampleLemma, LogicLemma, ReminderLemma, TextsLemma, RestoredTextsLemma,
       CallLemma DEF publish_task
  <1>2. CASE modem_task
    BY <1>2, ReceiveLemma, TestLemma, CloseLemma DEF modem_task
  <1>3. CASE (\E t \in Timers : Elapse(t)) \/ EnqueueOther
          \/ process_incoming_sms_commands \/ ChangeSettings
    BY <1>3, EnvironmentLemma
  <1>4. CASE UNCHANGED vars
    <2>1. JobFlagsLive'
      BY <1>4, QueueKept DEF vars, modem, IInv
    <2>2. TypeOK'
      BY <1>4 DEF vars, IInv, TypeOK, settings, alarm, notice, modem, history, Busy
    <2> QED BY <2>1, <2>2 DEF IInv
  <1>5. CASE \E c \in Channels : LimitUpdate(c)
    BY <1>5, LimitLemma
  <1> QED BY <1>1, <1>2, <1>3, <1>4, <1>5 DEF Next

(* The variables keep their types; in particular the queue never exceeds   *)
(* its length, the call requests never exceed their cap and no alarm is    *)
(* notified more than NotifyMax times (app_logic.c:583-598, 1970-2331).    *)
THEOREM TypeCorrect == Spec => []TypeOK
  <1>1. IInv => TypeOK
    BY DEF IInv
  <1> QED BY <1>1, InitLemma, NextLemma, PTL DEF Spec

(* No text and no call is ever silenced by a flag left over: a job_queued  *)
(* flag always stands for a job that is still to report, whatever the      *)
(* settings, the failures and the interleaving of the two tasks.           *)
THEOREM JobFlagsCorrect == Spec => []JobFlagsLive
  <1>1. IInv => JobFlagsLive
    BY DEF IInv
  <1> QED BY <1>1, InitLemma, NextLemma, PTL DEF Spec

(* Three functions of the pass and the limit updates touch what            *)
(* AlarmIsItsChannels is about.                                            *)
LEMMA ChannelsLemma == TypeOK /\ AlarmIsItsChannels /\ [Next]_vars => AlarmIsItsChannels'
  <1> SUFFICES ASSUME TypeOK, AlarmIsItsChannels, [Next]_vars PROVE AlarmIsItsChannels'
    OBVIOUS
  <1>1. CASE UNCHANGED <<alarm_active, side, count>>
    BY <1>1 DEF AlarmIsItsChannels
  <1>2. CASE sample_sensors
    BY <1>2 DEF sample_sensors, On, TypeOK, AlarmIsItsChannels
  <1>3. CASE process_alarm_logic
    <2>1. CASE AssertAlarm
      BY <2>1 DEF AssertAlarm, alarm, AlarmIsItsChannels
    <2>2. CASE RaiseAlarm
      <3> DEFINE New == {c \in Channels : AlarmNow(c)}
      <3>1. /\ New # {} /\ alarm_active' = TRUE /\ ~alarm_active
            /\ side' = [c \in Channels |-> IF c \in New THEN reading[c] ELSE "none"]
            /\ count' = On(count, New, 1)
        BY <2>2 DEF RaiseAlarm
      <3>2. \A c \in New : c \in Channels /\ side'[c] # "none"
        BY <3>1 DEF AlarmNow
      <3>3. \A c \in Channels : count[c] = 0
        BY <3>1 DEF AlarmIsItsChannels
      <3> HIDE DEF New
      <3>4. \A c \in Channels : side'[c] = "none" => count'[c] = 0
        BY <3>1, <3>2, <3>3 DEF On
      <3> QED BY <3>1, <3>2, <3>4 DEF AlarmIsItsChannels
    <2>3. CASE FollowAlarm
      <3> DEFINE New  == {c \in Channels : AlarmNow(c) /\ side[c] = "none"}
                 Back == {c \in Channels : Monitored(c) /\ RestoredNow(c)}
                 Off  == {c \in Channels : ~Monitored(c) /\ side[c] # "none"}
                 over == AllEnded
      <3>1. /\ side' = [c \in Channels |-> IF AlarmNow(c) THEN reading[c]
                                           ELSE IF c \in Back \cup Off THEN "none" ELSE side[c]]
            /\ alarm_active' = ~over
            /\ count' = IF over THEN [c \in Channels |-> 0]
                                ELSE On(On(count, New, 1), Back \cup Off, 0)
        BY <2>3 DEF FollowAlarm
      <3>2. over = \A c \in Channels : side'[c] = "none"
        BY DEF AllEnded
      <3>3. \A c \in Channels : c \in New => side'[c] # "none"
        BY <3>1 DEF AlarmNow
      <3>4. ASSUME NEW c \in Channels, side'[c] = "none" PROVE count'[c] = 0
        <4>1. c \notin New
          BY <3>3, <3>4
        <4>2. c \in Back \cup Off \/ side[c] = "none"
          BY <3>1, <3>4 DEF AlarmNow
        <4>3. side[c] = "none" => count[c] = 0
          BY DEF AlarmIsItsChannels
        <4> HIDE DEF New, Back, Off, over
        <4> QED BY <3>1, <4>1, <4>2, <4>3 DEF On
      <3> HIDE DEF over
      <3> QED BY <3>1, <3>2, <3>4 DEF AlarmIsItsChannels
    <2> QED BY <1>3, <2>1, <2>2, <2>3 DEF process_alarm_logic
  <1>4. CASE process_alarm_reminder
    <2> DEFINE Due == {c \in Channels : alarm_active /\ ~Busy /\ ReminderDue(c)}
    <2>1. CASE Due = {}
      BY <1>4, <2>1 DEF process_alarm_reminder, alarm, AlarmIsItsChannels
    <2>2. CASE Due # {}
      <3>1. /\ UNCHANGED <<alarm_active, side>>
            /\ count' = [c \in Channels |-> IF c \in Due THEN count[c] + 1 ELSE count[c]]
        BY <1>4, <2>2 DEF process_alarm_reminder
      <3>2. \A c \in Due : side[c] # "none"
        BY DEF ReminderDue
      <3> HIDE DEF Due
      <3> QED BY <3>1, <3>2 DEF AlarmIsItsChannels
    <2> QED BY <2>1, <2>2
  <1>5. CASE process_alarm_sms \/ process_alarm_restored_sms \/ process_alarm_call
    BY <1>1, <1>5 DEF process_alarm_sms, process_alarm_restored_sms, process_alarm_call,
                      QueueTexts, alarm
  <1>6. CASE modem_task
    BY <1>1, <1>6 DEF modem_task, ReceiveJob, TestJob, ReportText, ReportPoll, ReportCall,
                      CloseJob, alarm
  <1>7. CASE (\E t \in Timers : Elapse(t)) \/ EnqueueOther
          \/ process_incoming_sms_commands \/ ChangeSettings
    BY <1>1, <1>7 DEF Elapse, EnqueueOther, process_incoming_sms_commands, QueuePoll, Restart,
                      ChangeSettings, alarm, AlarmIsItsChannels
  <1>8. CASE UNCHANGED vars
    BY <1>1, <1>8 DEF vars, alarm
  <1>9. CASE \E c \in Channels : LimitUpdate(c)
    <2>1. PICK c \in Channels : LimitUpdate(c)
      BY <1>9
    <2>2. PICK z \in {"low", "high"} : side' = [side EXCEPT ![c] = z]
      BY <2>1 DEF LimitUpdate
    <2>3. alarm_active' = TRUE /\ count' = On(count, {c}, 1)
      BY <2>1 DEF LimitUpdate
    <2>4. side'[c] # "none" /\ \A d \in Channels \ {c} : side'[d] = side[d]
      BY <2>2 DEF TypeOK
    <2>5. \A d \in Channels \ {c} : count'[d] = count[d]
      BY <2>3 DEF On
    <2> QED BY <2>3, <2>4, <2>5 DEF AlarmIsItsChannels
  <1> QED BY <1>2, <1>3, <1>4, <1>5, <1>6, <1>7, <1>8, <1>9 DEF Next, publish_task

(* The alarm is in force exactly while a channel is, and a channel out of  *)
(* alarm has no notifications counted (app_logic.c:1636-1696).             *)
THEOREM ChannelsCorrect == Spec => []AlarmIsItsChannels
  <1>1. Init => AlarmIsItsChannels
    BY DEF Init, AlarmIsItsChannels
  <1> QED BY <1>1, TypeCorrect, ChannelsLemma, PTL DEF Spec

-----------------------------------------------------------------------------
(* The schedule.  The load of a channel is what it has told and may still  *)
(* tell without being asked again: the texts delivered, those in the queue *)
(* and in hand, and one that is asked for and has no flag.  A failed text  *)
(* leaves the load as it is, and only a notification counted adds to it.   *)
(* With nothing counted, which HUM_OFF leaves behind, nothing is asked for.*)
InHand(c) == IF work = AlarmText(c) /\ ~closing /\ ~stale THEN 1 ELSE 0
Asked(c) ==
  IF /\ new_pending[c]
     /\ ~job_queued[AlarmText(c)] \/ (work = AlarmText(c) /\ ~closing /\ stale)
    THEN 1 ELSE 0
Load(c) == texts[c] + Waiting(c) + InHand(c) + Asked(c)

Told(c) == /\ texts[c] <= NotifyMax + carried[c]
           /\ side[c] # "none" =>
                /\ count[c] = 0 => ~new_pending[c] /\ Load(c) <= NotifyMax + carried[c]
                /\ count[c] > 0 => Load(c) <= count[c] + carried[c]

Schedule == (stale => Busy) /\ \A c \in Channels : Told(c)

LEMMA LoadType ==
  ASSUME TypeOK, NEW c \in Channels
  PROVE  /\ Waiting(c) \in Nat /\ InHand(c) \in {0, 1} /\ Asked(c) \in {0, 1}
         /\ texts[c] \in Nat /\ carried[c] \in Nat /\ count[c] \in 0 .. NotifyMax
         /\ Load(c) \in Nat /\ texts[c] <= Load(c) /\ NotifyMax \in Nat
  <1>1. Waiting(c) \in Nat
    BY WaitingType DEF TypeOK
  <1>2. texts[c] \in Nat /\ carried[c] \in Nat /\ count[c] \in 0 .. NotifyMax
    BY DEF TypeOK
  <1>3. InHand(c) \in {0, 1} /\ Asked(c) \in {0, 1}
    BY Zenon DEF InHand, Asked
  <1>4. NotifyMax \in Nat
    BY LimitAssumption
  <1> QED BY <1>1, <1>2, <1>3, <1>4 DEF Load

LEMMA LoadTypeNext ==
  ASSUME TypeOK', NEW c \in Channels
  PROVE  texts'[c] \in Nat /\ Load(c)' \in Nat /\ texts'[c] <= Load(c)'
  <1>1. DOMAIN queue' = 1 .. Len(queue') /\ Len(queue') \in Nat
    BY DEF TypeOK
  <1>2. IsFiniteSet(DOMAIN queue')
    BY <1>1, FS_Interval
  <1>3. IsFiniteSet({i \in DOMAIN queue' : queue'[i] = AlarmText(c)})
    BY <1>2, FS_Subset
  <1>4. Waiting(c)' \in Nat
    BY <1>3, FS_CardinalityType DEF Waiting
  <1>5. InHand(c)' \in {0, 1} /\ Asked(c)' \in {0, 1}
    BY Zenon DEF InHand, Asked
  <1>6. texts'[c] \in Nat
    BY DEF TypeOK
  <1> QED BY <1>4, <1>5, <1>6 DEF Load

(* A step that counts nothing and does not add to the load.                *)
LEMMA ToldKept ==
  ASSUME TypeOK, TypeOK', NEW c \in Channels, Told(c),
         side'[c] = side[c], count'[c] = count[c], carried'[c] = carried[c],
         new_pending'[c] => new_pending[c], Load(c)' <= Load(c),
         side[c] = "none" => texts'[c] = texts[c]
  PROVE  Told(c)'
  <1>1. /\ texts[c] \in Nat /\ carried[c] \in Nat /\ count[c] \in 0 .. NotifyMax
        /\ Load(c) \in Nat /\ NotifyMax \in Nat
    BY LoadType
  <1>2. texts'[c] \in Nat /\ Load(c)' \in Nat /\ texts'[c] <= Load(c)'
    BY LoadTypeNext
  <1>3. CASE side[c] = "none"
    BY <1>1, <1>3 DEF Told
  <1>4. CASE side[c] # "none" /\ count[c] = 0
    <2>1. ~new_pending'[c] /\ Load(c) <= NotifyMax + carried[c]
      BY <1>4 DEF Told
    <2>2. Load(c)' <= NotifyMax + carried'[c] /\ texts'[c] <= NotifyMax + carried'[c]
      BY <1>1, <1>2, <2>1
    <2>3. ~(count'[c] > 0)
      BY <1>4
    <2> QED BY <2>1, <2>2, <2>3, Zenon DEF Told
  <1>5. CASE side[c] # "none" /\ count[c] # 0
    <2>1. Load(c) <= count[c] + carried[c]
      BY <1>1, <1>5 DEF Told
    <2>2. Load(c)' <= count'[c] + carried'[c] /\ texts'[c] <= NotifyMax + carried'[c]
      BY <1>1, <1>2, <2>1
    <2> QED BY <1>5, <2>2, Zenon DEF Told
  <1> QED BY <1>3, <1>4, <1>5

LEMMA LoadKept ==
  ASSUME NEW c \in Channels, UNCHANGED <<work, closing, queue>>, texts'[c] = texts[c],
         new_pending'[c] <=> new_pending[c],
         job_queued'[AlarmText(c)] <=> job_queued[AlarmText(c)],
         work = AlarmText(c) => (stale' <=> stale)
  PROVE  Load(c)' = Load(c)
  <1>1. Waiting(c)' = Waiting(c)
    BY DEF Waiting
  <1>2. InHand(c)' = InHand(c)
    BY Zenon DEF InHand
  <1>3. Asked(c)' = Asked(c)
    BY Zenon DEF Asked
  <1> QED BY <1>1, <1>2, <1>3 DEF Load

(* A step that takes the request away.                                     *)
LEMMA LoadDropped ==
  ASSUME TypeOK, NEW c \in Channels, UNCHANGED <<work, closing, queue, stale>>,
         texts'[c] = texts[c], ~new_pending'[c]
  PROVE  Load(c)' <= Load(c)
  <1>1. Waiting(c)' = Waiting(c)
    BY DEF Waiting
  <1>2. InHand(c)' = InHand(c)
    BY Zenon DEF InHand
  <1>3. Asked(c)' = 0
    BY Zenon DEF Asked
  <1>4. texts[c] \in Nat /\ Waiting(c) \in Nat /\ InHand(c) \in {0, 1} /\ Asked(c) \in {0, 1}
    BY LoadType
  <1> QED BY <1>1, <1>2, <1>3, <1>4 DEF Load

(* A channel whose alarm is new has its own text to send, and those that   *)
(* were left in the queue.                                                 *)
LEMMA ToldNew ==
  ASSUME IInv, NEW c \in Channels, UNCHANGED <<work, closing, queue>>, texts'[c] = 0,
         count'[c] = 1, carried'[c] = Unclaimed(c), work = AlarmText(c) => stale',
         job_queued'[AlarmText(c)] <=> job_queued[AlarmText(c)]
  PROVE  Told(c)'
  <1>1. Waiting(c)' = Waiting(c) /\ Waiting(c) \in Nat /\ Unclaimed(c) \in Nat
    BY LoadType, UnclaimedType DEF Waiting, IInv
  <1>2. InHand(c)' = 0
    BY Zenon DEF InHand
  <1>3. Asked(c)' \in {0, 1}
    BY Zenon DEF Asked
  <1>4. CASE job_queued[AlarmText(c)] /\ (work = AlarmText(c) => closing)
    <2>1. Asked(c)' = 0
      BY <1>4, Zenon DEF Asked
    <2>2. Unclaimed(c) = Waiting(c) - 1
      BY <1>4, Zenon DEF Unclaimed
    <2>3. Load(c)' <= count'[c] + carried'[c]
      BY <1>1, <1>2, <2>1, <2>2 DEF Load
    <2> QED BY <1>1, <2>3, LimitAssumption DEF Told
  <1>5. CASE ~(job_queued[AlarmText(c)] /\ (work = AlarmText(c) => closing))
    <2>1. Unclaimed(c) = Waiting(c)
      BY <1>5, Zenon DEF Unclaimed
    <2>2. Load(c)' <= count'[c] + carried'[c]
      BY <1>1, <1>2, <1>3, <2>1 DEF Load
    <2> QED BY <1>1, <2>2, LimitAssumption DEF Told
  <1> QED BY <1>4, <1>5

LEMMA ToldOver ==
  ASSUME NEW c \in Channels, texts'[c] = 0, carried'[c] = 0, side'[c] = "none"
  PROVE  Told(c)'
  BY LimitAssumption DEF Told

LEMMA SampleTold == IInv /\ TypeOK' /\ Schedule /\ sample_sensors => Schedule'
  <1> SUFFICES ASSUME IInv, TypeOK', Schedule, sample_sensors, NEW c \in Channels
               PROVE  Told(c)'
    BY DEF Schedule, sample_sensors, modem, history, Busy
  <1> DEFINE off == {d \in Channels : ~Monitored(d)}
  <1>1. /\ new_pending' = On(new_pending, off, FALSE)
        /\ count' = On(count, off, 0)
        /\ job_queued' = [j \in Flagged |-> job_queued[j] /\ ~\E d \in off : j = AlarmText(d)]
        /\ UNCHANGED <<texts, carried, stale, side, queue, work, closing>>
    BY DEF sample_sensors, history, modem
  <1> HIDE DEF off
  <1>2. AlarmText(c) \in Flagged /\ TypeOK /\ Told(c)
    BY DEF Flagged, IInv, Schedule
  <1>3. job_queued'[AlarmText(c)] <=> (job_queued[AlarmText(c)] /\ ~\E d \in off : AlarmText(c) = AlarmText(d))
    BY <1>1, <1>2, Zenon
  <1>4. CASE c \in off
    <2>1. count'[c] = 0 /\ ~new_pending'[c]
      BY <1>1, <1>4 DEF On
    <2>2. Load(c)' <= Load(c)
      BY <1>1, <1>2, <2>1, LoadDropped
    <2>3. /\ carried[c] \in Nat /\ count[c] \in 0 .. NotifyMax /\ Load(c) \in Nat
          /\ NotifyMax \in Nat
      BY <1>2, LoadType
    <2>4. Load(c)' \in Nat
      BY LoadTypeNext
    <2>5. side[c] # "none" => Load(c) <= NotifyMax + carried[c]
      BY <1>2, <2>3 DEF Told
    <2>6. side[c] # "none" => Load(c)' <= NotifyMax + carried'[c]
      BY <1>1, <2>2, <2>3, <2>4, <2>5
    <2>7. ~(count'[c] > 0) /\ texts'[c] <= NotifyMax + carried'[c]
      BY <1>1, <1>2, <2>1 DEF Told
    <2> QED BY <1>1, <2>1, <2>6, <2>7, Zenon DEF Told
  <1>5. CASE c \notin off
    <2>1. new_pending'[c] = new_pending[c] /\ count'[c] = count[c]
      BY <1>1, <1>5 DEF On
    <2>2. job_queued'[AlarmText(c)] <=> job_queued[AlarmText(c)]
      BY <1>3, <1>5 DEF AlarmText
    <2>3. Load(c)' = Load(c)
      BY <1>1, <2>1, <2>2, LoadKept
    <2>4. Load(c)' <= Load(c)
      BY <1>2, <2>3, LoadType
    <2> QED BY <1>1, <1>2, <2>1, <2>4, ToldKept
  <1> QED BY <1>4, <1>5

(* The flags process_alarm_logic drops are those of the channels that are  *)
(* switched off in an alarm.                                               *)
LEMMA LogicFlags ==
  ASSUME process_alarm_logic, NEW c \in Channels
  PROVE  /\ \/ alarm_active /\ ~Monitored(c) /\ side[c] # "none"
            \/ job_queued'[AlarmText(c)] <=> job_queued[AlarmText(c)]
         /\ UNCHANGED <<work, closing, queue>>
  <1>1. AlarmText(c) \in Flagged
    BY DEF Flagged
  <1>2. job_queued'[AlarmText(c)] <=>
          /\ job_queued[AlarmText(c)]
          /\ ~\E d \in Channels : /\ alarm_active /\ ~Monitored(d) /\ side[d] # "none"
                                  /\ AlarmText(c) = AlarmText(d)
    BY <1>1, Zenon DEF process_alarm_logic
  <1>3. \A d \in Channels : AlarmText(c) = AlarmText(d) => c = d
    BY DEF AlarmText
  <1> QED BY <1>2, <1>3 DEF process_alarm_logic, modem

LEMMA LogicTold == IInv /\ TypeOK' /\ Schedule /\ process_alarm_logic => Schedule'
  <1> SUFFICES ASSUME IInv, TypeOK', Schedule, process_alarm_logic PROVE Schedule'
    OBVIOUS
  <1>1. ASSUME stale' PROVE Busy'
    <2>1. stale \/ \E c \in Channels : work = AlarmText(c)
      BY <1>1 DEF process_alarm_logic, AssertAlarm, RaiseAlarm, FollowAlarm, Renewed, history
    <2>2. Busy
      BY <2>1, JobsDistinct DEF Schedule, Busy
    <2> QED BY <2>2 DEF process_alarm_logic, modem, Busy
  <1>2. ASSUME NEW c \in Channels PROVE Told(c)'
    <2>1. /\ Told(c) /\ c \in {"TEMP", "HUM"} /\ TypeOK
          /\ UNCHANGED <<work, closing, queue>>
          /\ \A d \in Channels : AlarmText(d) = AlarmText(c) => d = c
      BY ChannelAssumption, LogicFlags DEF Schedule, IInv, AlarmText
    <2>3. CASE AssertAlarm
      <3>1. /\ UNCHANGED <<alarm, history>>
            /\ (job_queued'[AlarmText(c)] <=> job_queued[AlarmText(c)])
        BY <2>3, LogicFlags DEF AssertAlarm
      <3>2. Load(c)' = Load(c)
        BY <2>1, <3>1, LoadKept DEF alarm, history
      <3>3. Load(c)' <= Load(c)
        BY <2>1, <3>2, LoadType
      <3> QED BY <2>1, <3>1, <3>3, ToldKept DEF alarm, history
    <2>4. CASE RaiseAlarm
      <3> DEFINE New == {d \in Channels : AlarmNow(d)}
      <3>1. /\ side' = [d \in Channels |-> IF d \in New THEN reading[d] ELSE "none"]
            /\ count' = On(count, New, 1) /\ texts' = On(texts, New, 0)
            /\ carried' = [d \in Channels |-> IF d \notin New THEN carried[d]
                                              ELSE IF side'[d] = "none" THEN 0 ELSE Unclaimed(d)]
            /\ stale' = (stale \/ \E d \in New : work = AlarmText(d))
        BY <2>4 DEF RaiseAlarm, Renewed
      <3>2. c \in New => side'[c] # "none"
        BY <3>1 DEF AlarmNow
      <3>3. job_queued'[AlarmText(c)] <=> job_queued[AlarmText(c)]
        BY <2>4, LogicFlags DEF RaiseAlarm
      <3> HIDE DEF New
      <3>4. CASE c \in New
        <4>1. /\ texts'[c] = 0 /\ count'[c] = 1 /\ carried'[c] = Unclaimed(c)
              /\ work = AlarmText(c) => stale'
          BY <3>1, <3>2, <3>4 DEF On
        <4> QED BY <2>1, <3>3, <4>1, ToldNew
      <3>5. CASE c \notin New
        BY <2>1, <3>1, <3>5 DEF On, Told
      <3> QED BY <3>4, <3>5
    <2>5. CASE FollowAlarm
      <3> DEFINE New  == {d \in Channels : AlarmNow(d) /\ side[d] = "none"}
                 Back == {d \in Channels : Monitored(d) /\ RestoredNow(d)}
                 Off  == {d \in Channels : ~Monitored(d) /\ side[d] # "none"}
                 over == AllEnded
                 Ren  == New \cup Back \cup Off
      <3>1. /\ side' = [d \in Channels |-> IF AlarmNow(d) THEN reading[d]
                                           ELSE IF d \in Back \cup Off THEN "none" ELSE side[d]]
            /\ new_pending' = On(On(new_pending, New, TRUE), Off, FALSE)
            /\ count' = IF over THEN [d \in Channels |-> 0]
                                ELSE On(On(count, New, 1), Back \cup Off, 0)
            /\ texts' = On(texts, Ren, 0)
            /\ carried' = [d \in Channels |-> IF d \notin Ren THEN carried[d]
                                              ELSE IF side'[d] = "none" THEN 0 ELSE Unclaimed(d)]
            /\ stale' = (stale \/ \E d \in Ren : work = AlarmText(d))
        BY <2>5 DEF FollowAlarm, Renewed
      <3>2. over => side'[c] = "none"
        BY DEF AllEnded
      <3>3. c \in Back \cup Off => ~AlarmNow(c)
        BY <2>1 DEF RestoredNow, AlarmNow
      <3>4. (c \in New => AlarmNow(c)) /\ (AlarmNow(c) => c \in New \/ side[c] # "none")
        OBVIOUS
      <3>5. AlarmNow(c) => reading[c] # "none"
        BY DEF AlarmNow
      <3>6. c \notin Off => (job_queued'[AlarmText(c)] <=> job_queued[AlarmText(c)])
        BY LogicFlags
      <3>7. Ren \subseteq Channels
        OBVIOUS
      <3> Ren = New \cup Back \cup Off
        OBVIOUS
      <3> HIDE DEF New, Back, Off, over, Ren
      <3>8. CASE c \in Back \cup Off
        <4>1. side'[c] = "none" /\ texts'[c] = 0 /\ carried'[c] = 0
          BY <3>1, <3>3, <3>8 DEF On
        <4> QED BY <4>1, ToldOver
      <3>9. CASE c \in New /\ c \notin Back \cup Off
        <4>1. ~over /\ side'[c] # "none"
          BY <3>1, <3>2, <3>4, <3>5, <3>9
        <4>2. /\ texts'[c] = 0 /\ count'[c] = 1 /\ carried'[c] = Unclaimed(c)
              /\ work = AlarmText(c) => stale'
          BY <3>1, <3>9, <4>1 DEF On
        <4> QED BY <2>1, <3>6, <3>9, <4>2, ToldNew
      <3>10. CASE c \notin Ren
        <4>1. /\ texts'[c] = texts[c] /\ new_pending'[c] = new_pending[c]
              /\ carried'[c] = carried[c]
          BY <3>1, <3>10 DEF On
        <4>2. work = AlarmText(c) => (stale' <=> stale)
          BY <2>1, <3>1, <3>7, <3>10
        <4>3. CASE side'[c] = "none"
          BY <2>1, <4>1, <4>3 DEF Told
        <4>4. CASE side'[c] # "none"
          <5>1. count'[c] = count[c]
            BY <3>1, <3>2, <3>10, <4>4 DEF On
          <5>2. side[c] # "none"
            BY <3>1, <3>4, <3>10, <4>4
          <5>3. Load(c)' = Load(c)
            BY <2>1, <3>6, <3>10, <4>1, <4>2, LoadKept
          <5>4. Load(c)' <= Load(c)
            BY <2>1, <5>3, LoadType
          <5> QED BY <2>1, <4>1, <4>4, <5>1, <5>2, <5>3, LoadType DEF Told
        <4> QED BY <4>3, <4>4
      <3> QED BY <3>8, <3>9, <3>10
    <2> QED BY <2>3, <2>4, <2>5 DEF process_alarm_logic
  <1> QED BY <1>1, <1>2 DEF Schedule

LEMMA ReminderTold == IInv /\ TypeOK' /\ Schedule /\ process_alarm_reminder => Schedule'
  <1> SUFFICES ASSUME IInv, TypeOK', Schedule, process_alarm_reminder PROVE Schedule'
    OBVIOUS
  <1>0. UNCHANGED <<stale, work>>
    BY DEF process_alarm_reminder, modem, history
  <1> SUFFICES ASSUME NEW c \in Channels PROVE Told(c)'
    BY <1>0 DEF Schedule, Busy
  <1> DEFINE Due == {d \in Channels : alarm_active /\ ~Busy /\ ReminderDue(d)}
  <1>1. Told(c) /\ TypeOK /\ UNCHANGED <<texts, carried, stale, job_queued, work, closing, queue>>
    BY DEF process_alarm_reminder, history, modem, Schedule, IInv
  <1>2. CASE Due = {}
    <2>1. UNCHANGED alarm
      BY <1>2 DEF process_alarm_reminder
    <2>2. Load(c)' = Load(c)
      BY <1>1, <2>1, LoadKept DEF alarm
    <2>3. Load(c)' <= Load(c)
      BY <1>1, <2>2, LoadType
    <2> QED BY <1>1, <2>1, <2>3, ToldKept DEF alarm
  <1>3. CASE Due # {}
    <2>1. /\ side' = side /\ new_pending' = On(new_pending, Due, TRUE)
          /\ count' = [d \in Channels |-> IF d \in Due THEN count[d] + 1 ELSE count[d]]
      BY <1>3 DEF process_alarm_reminder
    <2>2. c \in Due => side[c] # "none" /\ count[c] > 0
      BY LimitAssumption DEF ReminderDue
    <2> HIDE DEF Due
    <2>4. CASE c \in Due
      <3>1. Waiting(c)' = Waiting(c) /\ InHand(c)' = InHand(c)
        BY <1>1 DEF Waiting, InHand
      <3>2. Asked(c)' \in {0, 1}
        BY Zenon DEF Asked
      <3>3. /\ texts[c] \in Nat /\ Waiting(c) \in Nat /\ InHand(c) \in {0, 1}
            /\ Asked(c) \in {0, 1} /\ carried[c] \in Nat /\ count[c] \in Nat
        BY <1>1, LoadType
      <3>4. Load(c) <= count[c] + carried[c]
        BY <1>1, <2>2, <2>4 DEF Told
      <3>5. count'[c] = count[c] + 1
        BY <2>1, <2>4
      <3>6. Load(c)' <= count'[c] + carried'[c] /\ count'[c] # 0
        BY <1>1, <3>1, <3>2, <3>3, <3>4, <3>5 DEF Load
      <3>7. texts'[c] <= NotifyMax + carried'[c]
        BY <1>1 DEF Told
      <3> QED BY <3>6, <3>7, Zenon DEF Told
    <2>5. CASE c \notin Due
      <3>1. new_pending'[c] = new_pending[c] /\ count'[c] = count[c]
        BY <2>1, <2>5 DEF On
      <3>2. Load(c)' = Load(c)
        BY <1>1, <3>1, LoadKept
      <3>3. Load(c)' <= Load(c)
        BY <1>1, <3>2, LoadType
      <3> QED BY <1>1, <2>1, <3>1, <3>3, ToldKept
    <2> QED BY <2>4, <2>5
  <1> QED BY <1>2, <1>3

(* A job is flagged only for a channel whose text is asked for.            *)
LEMMA TakenPending ==
  ASSUME TypeOK, NEW kind \in {"ALARM", "RESTORED"}, NEW pending,
         NEW i \in DOMAIN Taken(kind, pending)
  PROVE  \E c \in Channels : pending[c] /\ Taken(kind, pending)[i] = <<kind, c>>
  <1> DEFINE WantedJobs == {<<kind, c>> : c \in {d \in Channels : pending[d]}}
             job(c) == IF /\ c \in Channels /\ pending[c]
                          /\ ~job_queued[<<kind, c>>] THEN <<<<kind, c>>>> ELSE <<>>
             wanted == job("TEMP") \o job("HUM")
             room   == QueueLen - Len(queue)
  <1>1. ASSUME NEW c PROVE job(c) \in Seq(WantedJobs)
    <2>1. CASE job(c) = <<>>
      BY <2>1
    <2>2. CASE job(c) # <<>>
      <3>1. c \in Channels /\ pending[c] /\ job(c) = <<<<kind, c>>>>
        BY <2>2
      <3>2. <<kind, c>> \in WantedJobs
        BY <3>1
      <3> HIDE DEF job, WantedJobs
      <3> QED BY <3>1, <3>2
    <2> QED BY <2>1, <2>2
  <1>2. wanted \in Seq(WantedJobs)
    <2> HIDE DEF job, WantedJobs
    <2> QED BY <1>1
  <1>3. room \in Nat
    BY LimitAssumption DEF TypeOK
  <1>4. Taken(kind, pending) = IF Len(wanted) <= room THEN wanted
                               ELSE SubSeq(wanted, 1, room)
    BY DEF Taken
  <1> HIDE DEF wanted, room, WantedJobs
  <1>5. Taken(kind, pending) \in Seq(WantedJobs)
    BY <1>2, <1>3, <1>4
  <1>6. Taken(kind, pending)[i] \in WantedJobs
    BY <1>5
  <1> QED BY <1>6 DEF WantedJobs

(* What enqueue_modem_job takes had no flag and is taken once.             *)
LEMMA TakenOnce ==
  ASSUME TypeOK, NEW kind \in {"ALARM", "RESTORED"}, NEW pending
  PROVE  LET took == Taken(kind, pending) IN
         /\ \A i \in DOMAIN took : ~job_queued[took[i]]
         /\ \A i, k \in DOMAIN took : took[i] = took[k] => i = k
  <1> DEFINE job(c) == IF /\ c \in Channels /\ pending[c]
                          /\ ~job_queued[<<kind, c>>] THEN <<<<kind, c>>>> ELSE <<>>
             wanted == job("TEMP") \o job("HUM")
             room   == QueueLen - Len(queue)
  <1>1. room \in Nat
    BY LimitAssumption DEF TypeOK
  <1>2. Taken(kind, pending) = IF Len(wanted) <= room THEN wanted
                               ELSE SubSeq(wanted, 1, room)
    BY DEF Taken
  <1>3. \A c : job(c) = <<>> \/ (job(c) = <<<<kind, c>>>> /\ ~job_queued[<<kind, c>>])
    OBVIOUS
  <1>4. <<kind, "TEMP">> # <<kind, "HUM">>
    OBVIOUS
  <1>5. /\ wanted \in Seq({<<kind, "TEMP">>, <<kind, "HUM">>})
        /\ \A i \in DOMAIN wanted : ~job_queued[wanted[i]]
        /\ \A i, k \in DOMAIN wanted : wanted[i] = wanted[k] => i = k
    <2> HIDE DEF job
    <2>1. CASE job("TEMP") = <<>> /\ job("HUM") = <<>>
      <3>1. wanted = <<>>
        BY <2>1
      <3> HIDE DEF wanted
      <3> QED BY <3>1
    <2>2. CASE job("TEMP") = <<>> /\ job("HUM") # <<>>
      <3> DEFINE second == <<kind, "HUM">>
      <3>1. wanted = <<>> \o <<second>> /\ ~job_queued[second]
        BY <1>3, <2>2
      <3> HIDE DEF wanted, second
      <3>2. wanted = <<second>>
        BY <3>1
      <3>3. /\ wanted \in Seq({second}) /\ \A i \in DOMAIN wanted : ~job_queued[wanted[i]]
            /\ \A i, k \in DOMAIN wanted : i = k
        BY <3>1, <3>2
      <3> QED BY <3>3 DEF second
    <2>3. CASE job("TEMP") # <<>> /\ job("HUM") = <<>>
      <3> DEFINE first == <<kind, "TEMP">>
      <3>1. wanted = <<first>> \o <<>> /\ ~job_queued[first]
        BY <1>3, <2>3
      <3> HIDE DEF wanted, first
      <3>2. wanted = <<first>>
        BY <3>1
      <3>3. /\ wanted \in Seq({first}) /\ \A i \in DOMAIN wanted : ~job_queued[wanted[i]]
            /\ \A i, k \in DOMAIN wanted : i = k
        BY <3>1, <3>2
      <3> QED BY <3>3 DEF first
    <2>4. CASE job("TEMP") # <<>> /\ job("HUM") # <<>>
      <3> DEFINE first == <<kind, "TEMP">>
                 second == <<kind, "HUM">>
      <3>1. /\ wanted = <<first>> \o <<second>>
            /\ ~job_queued[first] /\ ~job_queued[second] /\ first # second
        BY <1>3, <1>4, <2>4
      <3> HIDE DEF wanted, first, second
      <3>2. /\ wanted \in Seq({first, second}) /\ Len(wanted) = 2
            /\ wanted[1] = first /\ wanted[2] = second
        BY <3>1
      <3>3. DOMAIN wanted = 1 .. 2
        BY <3>2
      <3>4. \A i \in DOMAIN wanted : ~job_queued[wanted[i]]
        BY <3>1, <3>2, <3>3
      <3>5. \A i, k \in DOMAIN wanted : wanted[i] = wanted[k] => i = k
        BY <3>1, <3>2, <3>3
      <3> QED BY <3>2, <3>4, <3>5 DEF first, second
    <2> QED BY <2>1, <2>2, <2>3, <2>4
  <1> HIDE DEF wanted, room
  <1> QED BY <1>1, <1>2, <1>5

(* Texts of c that are queued: one at most, and only if it is asked for    *)
(* and has no flag.                                                        *)
LEMMA WaitingGrows ==
  ASSUME TypeOK, NEW c \in Channels, NEW took \in Seq(Job), queue' = queue \o took,
         \A i, k \in DOMAIN took : took[i] = took[k] => i = k
  PROVE  /\ Waiting(c)' \in Nat /\ Waiting(c)' <= Waiting(c) + 1
         /\ (\A i \in DOMAIN took : took[i] # AlarmText(c)) => Waiting(c)' <= Waiting(c)
  <1> DEFINE W  == {i \in DOMAIN queue : queue[i] = AlarmText(c)}
             W1 == {i \in DOMAIN queue' : queue'[i] = AlarmText(c)}
  <1>1. DOMAIN queue = 1 .. Len(queue) /\ Len(queue) \in Nat
    BY DEF TypeOK
  <1>2. IsFiniteSet(DOMAIN queue)
    BY <1>1, FS_Interval
  <1>3. IsFiniteSet(W) /\ Cardinality(W) \in Nat
    BY <1>2, FS_Subset, FS_CardinalityType
  <1>4. ASSUME NEW i \in DOMAIN queue'
        PROVE  \/ i \in DOMAIN queue /\ queue'[i] = queue[i]
               \/ i - Len(queue) \in DOMAIN took /\ queue'[i] = took[i - Len(queue)] /\ i \in Int
    BY <1>4 DEF TypeOK
  <1>5. CASE \A i \in DOMAIN took : took[i] # AlarmText(c)
    <2>1. W1 \in SUBSET W
      BY <1>4, <1>5
    <2> HIDE DEF W, W1
    <2>2. IsFiniteSet(W1) /\ Cardinality(W1) <= Cardinality(W)
      BY <1>3, <2>1, FS_Subset
    <2>3. Cardinality(W1) \in Nat
      BY <2>2, FS_CardinalityType
    <2>4. Waiting(c) = Cardinality(W) /\ Waiting(c)' = Cardinality(W1)
      BY DEF Waiting, W, W1
    <2> QED BY <1>3, <2>2, <2>3, <2>4
  <1>6. CASE \E k \in DOMAIN took : took[k] = AlarmText(c)
    <2>1. PICK k \in DOMAIN took : took[k] = AlarmText(c)
      BY <1>6
    <2>2. ASSUME NEW i \in W1 PROVE i \in W \cup {Len(queue) + k}
      <3>1. CASE i \in DOMAIN queue /\ queue'[i] = queue[i]
        BY <3>1
      <3>2. CASE i - Len(queue) \in DOMAIN took /\ queue'[i] = took[i - Len(queue)] /\ i \in Int
        <4>1. i - Len(queue) = k
          BY <2>1, <3>2
        <4> QED BY <1>1, <3>2, <4>1
      <3> QED BY <1>4, <3>1, <3>2
    <2> HIDE DEF W, W1
    <2>3. W1 \in SUBSET (W \cup {Len(queue) + k})
      BY <2>2
    <2>4. /\ IsFiniteSet(W \cup {Len(queue) + k})
          /\ Cardinality(W \cup {Len(queue) + k}) <= Cardinality(W) + 1
          /\ Cardinality(W \cup {Len(queue) + k}) \in Nat
      <3>1. /\ IsFiniteSet(W \cup {Len(queue) + k})
            /\ Cardinality(W \cup {Len(queue) + k}) =
                 IF Len(queue) + k \in W THEN Cardinality(W) ELSE Cardinality(W) + 1
        BY <1>3, FS_AddElement
      <3> QED BY <1>3, <3>1
    <2>5. IsFiniteSet(W1) /\ Cardinality(W1) <= Cardinality(W \cup {Len(queue) + k})
      BY <2>3, <2>4, FS_Subset
    <2>6. Cardinality(W1) \in Nat
      BY <2>5, FS_CardinalityType
    <2>7. Cardinality(W1) <= Cardinality(W) + 1
      BY <1>3, <2>4, <2>5, <2>6
    <2> QED BY <1>6, <2>6, <2>7 DEF Waiting, W, W1
  <1> QED BY <1>5, <1>6

(* The head of the queue leaves it.                                        *)
LEMMA WaitingShrinks ==
  ASSUME TypeOK, NEW c \in Channels, queue # <<>>, queue' = Tail(queue)
  PROVE  /\ Waiting(c)' \in Nat /\ Waiting(c)' <= Waiting(c)
         /\ Head(queue) = AlarmText(c) => Waiting(c)' <= Waiting(c) - 1
  <1> DEFINE W  == {i \in DOMAIN queue : queue[i] = AlarmText(c)}
             W1 == {i \in DOMAIN queue' : queue'[i] = AlarmText(c)}
             f  == [i \in W1 |-> i + 1]
  <1>1. /\ DOMAIN queue = 1 .. Len(queue) /\ Len(queue) \in Nat /\ Len(queue) > 0
        /\ DOMAIN queue' = 1 .. Len(queue) - 1
        /\ \A i \in DOMAIN queue' : queue'[i] = queue[i + 1]
        /\ Head(queue) = queue[1]
    BY DEF TypeOK
  <1>2. IsFiniteSet(W)
    <2>1. IsFiniteSet(DOMAIN queue) /\ W \subseteq DOMAIN queue
      BY <1>1, FS_Interval
    <2> HIDE DEF W
    <2> QED BY <2>1, FS_Subset
  <1>3. IsFiniteSet(W \ {1}) /\ Cardinality(W) \in Nat
        /\ Cardinality(W \ {1}) = IF 1 \in W THEN Cardinality(W) - 1 ELSE Cardinality(W)
    BY <1>2, FS_RemoveElement, FS_CardinalityType
  <1>4. f \in Injection(W1, W \ {1})
    <2>1. f \in [W1 -> W \ {1}]
      BY <1>1
    <2>2. \A a, b \in W1 : f[a] = f[b] => a = b
      BY <1>1
    <2> HIDE DEF f, W, W1
    <2> QED BY <2>1, <2>2 DEF Injection, IsInjective
  <1> HIDE DEF f
  <1>5. IsFiniteSet(W1) /\ Cardinality(W1) <= Cardinality(W \ {1})
    BY <1>3, <1>4, FS_Injection
  <1>6. Cardinality(W1) \in Nat
    BY <1>5, FS_CardinalityType
  <1>7. Head(queue) = AlarmText(c) => 1 \in W
    BY <1>1
  <1>8. Waiting(c) = Cardinality(W) /\ Waiting(c)' = Cardinality(W1)
    BY DEF Waiting
  <1> HIDE DEF W, W1
  <1> QED BY <1>3, <1>5, <1>6, <1>7, <1>8

LEMMA QueueTold ==
  ASSUME IInv, TypeOK', Schedule, NEW kind \in {"ALARM", "RESTORED"}, NEW pending, NEW timer,
         kind = "ALARM" => pending = new_pending, QueueTexts(kind, pending, timer)
  PROVE  Schedule'
  <1> DEFINE took == IF age[timer] = "recent" \/ Busy THEN <<>> ELSE Taken(kind, pending)
  <1>1. /\ job_queued' = [j \in Flagged |-> job_queued[j] \/ \E i \in DOMAIN took : took[i] = j]
        /\ queue' = queue \o took
        /\ UNCHANGED <<alarm, history, work, closing>>
    BY DEF QueueTexts
  <1>2. TypeOK
    BY DEF IInv
  <1>3. CASE took = <<>>
    <2>1. queue' = queue
      BY <1>1, <1>2, <1>3 DEF TypeOK
    <2>2. job_queued' = job_queued
      <3> HIDE DEF took
      <3> QED BY <1>1, <1>2, <1>3 DEF TypeOK
    <2>3. ASSUME NEW c \in Channels PROVE Told(c)'
      <3>1. Load(c)' = Load(c)
        BY <1>1, <2>1, <2>2, LoadKept DEF alarm, history
      <3>2. Load(c)' <= Load(c)
        BY <1>2, <3>1, LoadType
      <3> QED BY <1>1, <1>2, <3>2, ToldKept DEF alarm, history, Schedule
    <2> QED BY <1>1, <2>3 DEF Schedule, Busy, history
  <1>4. CASE took # <<>>
    <2>1. took = Taken(kind, pending) /\ ~Busy
      BY <1>4
    <2>2. took \in Seq(Job)
      BY <1>2, <2>1, TakenType
    <2>3. /\ \A i \in DOMAIN took : ~job_queued[took[i]]
          /\ \A i, k \in DOMAIN took : took[i] = took[k] => i = k
      BY <1>2, <2>1, TakenOnce
    <2>4. ASSUME NEW c \in Channels PROVE Told(c)'
      <3>1. AlarmText(c) \in Flagged
        BY DEF Flagged
      <3>2. work # AlarmText(c) /\ UNCHANGED <<work, closing>>
        BY <1>1, <2>1, JobsDistinct DEF Busy
      <3>3. ASSUME NEW i \in DOMAIN took, took[i] = AlarmText(c)
            PROVE  new_pending[c] /\ ~job_queued[AlarmText(c)]
        <4>1. PICK d \in Channels : pending[d] /\ took[i] = <<kind, d>>
          BY <1>2, <2>1, TakenPending
        <4>2. kind = "ALARM" /\ d = c
          BY <3>3, <4>1 DEF AlarmText
        <4> QED BY <2>3, <3>3, <4>1, <4>2
      <3> HIDE DEF took
      <3>4. /\ Waiting(c)' \in Nat /\ Waiting(c)' <= Waiting(c) + 1
            /\ (\A i \in DOMAIN took : took[i] # AlarmText(c)) => Waiting(c)' <= Waiting(c)
        BY <1>1, <1>2, <2>2, <2>3, WaitingGrows
      <3>5. InHand(c)' = 0 /\ InHand(c) = 0
        BY <3>2, Zenon DEF InHand
      <3>6. /\ Waiting(c) \in Nat /\ texts[c] \in Nat /\ Asked(c) \in {0, 1}
            /\ texts'[c] = texts[c]
        BY <1>1, <1>2, LoadType DEF history
      <3>7. job_queued'[AlarmText(c)] <=>
              job_queued[AlarmText(c)] \/ \E i \in DOMAIN took : took[i] = AlarmText(c)
        BY <1>1, <3>1, Zenon
      <3>8. new_pending'[c] <=> new_pending[c]
        BY <1>1 DEF alarm
      <3>9. CASE \E i \in DOMAIN took : took[i] = AlarmText(c)
        <4>1. new_pending[c] /\ ~job_queued[AlarmText(c)] /\ job_queued'[AlarmText(c)]
          BY <3>3, <3>7, <3>9
        <4>2. Asked(c) = 1 /\ Asked(c)' = 0
          BY <3>2, <4>1, Zenon DEF Asked
        <4>3. Load(c)' <= Load(c)
          BY <3>4, <3>5, <3>6, <4>2 DEF Load
        <4> QED BY <1>1, <1>2, <4>3, ToldKept DEF alarm, history, Schedule
      <3>10. CASE \A i \in DOMAIN took : took[i] # AlarmText(c)
        <4>1. job_queued'[AlarmText(c)] <=> job_queued[AlarmText(c)]
          BY <3>7, <3>10
        <4>2. Asked(c)' = Asked(c)
          BY <3>2, <3>8, <4>1, Zenon DEF Asked
        <4>3. Load(c)' <= Load(c)
          BY <3>4, <3>5, <3>6, <3>10, <4>2 DEF Load
        <4> QED BY <1>1, <1>2, <4>3, ToldKept DEF alarm, history, Schedule
      <3> QED BY <3>9, <3>10
    <2> HIDE DEF took
    <2> QED BY <1>1, <2>4 DEF Schedule, Busy, history
  <1> QED BY <1>3, <1>4

(* A step of publish_task that leaves the queue, the modem and what was    *)
(* counted.                                                                *)
LEMMA PassTold ==
  ASSUME IInv, TypeOK', Schedule, UNCHANGED <<queue, work, closing, side, count, history>>,
         \A c \in Channels :
           \/ ~new_pending'[c]
           \/ /\ new_pending'[c] <=> new_pending[c]
              /\ job_queued'[AlarmText(c)] <=> job_queued[AlarmText(c)]
  PROVE  Schedule'
  <1>1. TypeOK /\ UNCHANGED <<texts, carried, stale>>
    BY DEF IInv, history
  <1>2. ASSUME NEW c \in Channels PROVE Told(c)'
    <2>1. CASE ~new_pending'[c]
      <3>1. Load(c)' <= Load(c)
        BY <1>1, <2>1, LoadDropped
      <3> QED BY <1>1, <2>1, <3>1, ToldKept DEF Schedule
    <2>2. CASE /\ new_pending'[c] <=> new_pending[c]
               /\ job_queued'[AlarmText(c)] <=> job_queued[AlarmText(c)]
      <3>1. Load(c)' = Load(c)
        BY <1>1, <2>2, LoadKept
      <3>2. Load(c)' <= Load(c)
        BY <1>1, <3>1, LoadType
      <3> QED BY <1>1, <2>2, <3>2, ToldKept DEF Schedule
    <2> QED BY <2>1, <2>2
  <1> QED BY <1>1, <1>2 DEF Schedule, Busy

LEMMA TextsTold == IInv /\ TypeOK' /\ Schedule /\ process_alarm_sms => Schedule'
  <1> SUFFICES ASSUME IInv, TypeOK', Schedule, process_alarm_sms PROVE Schedule'
    OBVIOUS
  <1>1. CASE ~sms_pending \/ sms_sent
    BY <1>1, PassTold DEF process_alarm_sms, alarm, modem
  <1>2. CASE sms_pending /\ ~sms_sent /\ sms_target
    BY <1>2, QueueTold DEF process_alarm_sms
  <1>3. CASE sms_pending /\ ~sms_sent /\ ~sms_target
    <2>1. /\ new_pending' = On(new_pending, Channels, FALSE)
          /\ UNCHANGED <<side, count, modem, history>>
      BY <1>3 DEF process_alarm_sms
    <2>2. \A c \in Channels : ~new_pending'[c]
      BY <2>1 DEF On
    <2> QED BY <2>1, <2>2, PassTold DEF modem
  <1> QED BY <1>1, <1>2, <1>3

LEMMA RestoredTextsTold ==
  IInv /\ TypeOK' /\ Schedule /\ process_alarm_restored_sms => Schedule'
  <1> SUFFICES ASSUME IInv, TypeOK', Schedule, process_alarm_restored_sms PROVE Schedule'
    OBVIOUS
  <1> DEFINE any == \E c \in Channels : restore_pending[c]
  <1>1. CASE ~any \/ restored_sent
    BY <1>1, PassTold DEF process_alarm_restored_sms, alarm, modem
  <1>2. CASE any /\ ~restored_sent /\ sms_target
    <2>1. QueueTexts("RESTORED", restore_pending, "restored")
      BY <1>2 DEF process_alarm_restored_sms
    <2> QED BY <2>1, QueueTold
  <1>3. CASE any /\ ~restored_sent /\ ~sms_target
    <2>1. /\ job_queued' = Unflagged("RESTORED")
          /\ UNCHANGED <<new_pending, side, count, modem, history>>
      BY <1>3 DEF process_alarm_restored_sms
    <2>2. ASSUME NEW c \in Channels
          PROVE  job_queued'[AlarmText(c)] <=> job_queued[AlarmText(c)]
      <3>1. AlarmText(c) \in Flagged /\ AlarmText(c)[1] # "RESTORED"
        BY DEF Flagged, AlarmText
      <3> QED BY <2>1, <3>1 DEF Unflagged
    <2> QED BY <2>1, <2>2, PassTold DEF modem
  <1> QED BY <1>1, <1>2, <1>3

(* A job that is no text of an alarm is queued.                            *)
LEMMA OtherTold ==
  ASSUME IInv, TypeOK', Schedule, NEW j \in Job, queue' = Append(queue, j),
         \A c \in Channels : j # AlarmText(c),
         UNCHANGED <<work, closing, side, count, new_pending, history>>,
         \A c \in Channels : job_queued'[AlarmText(c)] <=> job_queued[AlarmText(c)]
  PROVE  Schedule'
  <1>1. TypeOK /\ UNCHANGED <<texts, carried, stale>>
    BY DEF IInv, history
  <1>2. ASSUME NEW c \in Channels PROVE Told(c)'
    <2>1. queue' = queue \o <<j>> /\ <<j>> \in Seq(Job)
      BY <1>1 DEF TypeOK
    <2>2. /\ \A i, k \in DOMAIN <<j>> : <<j>>[i] = <<j>>[k] => i = k
          /\ \A i \in DOMAIN <<j>> : <<j>>[i] # AlarmText(c)
      OBVIOUS
    <2>3. Waiting(c)' \in Nat /\ Waiting(c)' <= Waiting(c)
      BY <1>1, <2>1, <2>2, WaitingGrows
    <2>4. InHand(c)' = InHand(c) /\ Asked(c)' = Asked(c)
      BY <1>1, Zenon DEF InHand, Asked
    <2>5. Waiting(c) \in Nat /\ texts[c] \in Nat /\ InHand(c) \in {0, 1} /\ Asked(c) \in {0, 1}
      BY <1>1, LoadType
    <2>6. Load(c)' <= Load(c)
      BY <1>1, <2>3, <2>4, <2>5 DEF Load
    <2> QED BY <1>1, <2>6, ToldKept DEF Schedule
  <1> QED BY <1>1, <1>2 DEF Schedule, Busy

(* The alarm call in the queue is no text.                                 *)
LEMMA CallTold == IInv /\ TypeOK' /\ Schedule /\ process_alarm_call => Schedule'
  <1> SUFFICES ASSUME IInv, TypeOK', Schedule, process_alarm_call PROVE Schedule'
    OBVIOUS
  <1>1. /\ \/ job_queued' = job_queued
           \/ job_queued' = [job_queued EXCEPT ![AlarmCall] = TRUE]
           \/ job_queued' = [job_queued EXCEPT ![AlarmCall] = FALSE]
        /\ queue' = queue \/ queue' = Append(queue, AlarmCall)
        /\ UNCHANGED <<alarm, history, work, closing>>
    BY Zenon DEF process_alarm_call, QueueCall
  <1>2. ASSUME NEW c \in Channels
        PROVE  job_queued'[AlarmText(c)] <=> job_queued[AlarmText(c)]
    <2>1. AlarmText(c) \in Flagged /\ AlarmText(c) # AlarmCall
      BY DEF Flagged, AlarmText, AlarmCall
    <2> QED BY <1>1, <2>1 DEF IInv, TypeOK
  <1>3. CASE queue' = queue
    BY <1>1, <1>2, <1>3, PassTold DEF alarm
  <1>4. CASE queue' = Append(queue, AlarmCall)
    BY <1>1, <1>2, <1>4, JobsDistinct, OtherTold DEF alarm, AlarmText, AlarmCall
  <1> QED BY <1>1, <1>3, <1>4

LEMMA ReceiveTold == IInv /\ TypeOK' /\ Schedule /\ ReceiveJob => Schedule'
  <1> SUFFICES ASSUME IInv, TypeOK', Schedule, ReceiveJob PROVE Schedule'
    OBVIOUS
  <1>1. /\ ~Busy /\ queue # <<>> /\ work' = Head(queue) /\ queue' = Tail(queue) /\ TypeOK
        /\ UNCHANGED <<alarm, job_queued, closing, history>>
    BY DEF ReceiveJob, IInv
  <1>2. ~stale /\ ~stale'
    BY <1>1 DEF Schedule, history
  <1>3. ASSUME NEW c \in Channels PROVE Told(c)'
    <2>1. /\ Waiting(c)' \in Nat /\ Waiting(c)' <= Waiting(c)
          /\ Head(queue) = AlarmText(c) => Waiting(c)' <= Waiting(c) - 1
      BY <1>1, WaitingShrinks
    <2>2. InHand(c) = 0 /\ InHand(c)' \in {0, 1} /\ (InHand(c)' = 1 => Head(queue) = AlarmText(c))
      <3>1. work # AlarmText(c)
        BY <1>1, JobsDistinct DEF Busy
      <3>2. InHand(c) = 0
        BY <3>1, Zenon DEF InHand
      <3>3. InHand(c)' = IF work' = AlarmText(c) /\ ~closing' /\ ~stale' THEN 1 ELSE 0
        BY Zenon DEF InHand
      <3> QED BY <1>1, <3>2, <3>3
    <2>3. Asked(c)' = Asked(c)
      <3>1. (new_pending'[c] <=> new_pending[c]) /\ job_queued' = job_queued
        BY <1>1 DEF alarm
      <3> QED BY <1>2, <3>1, Zenon DEF Asked
    <2>4. Waiting(c) \in Nat /\ texts[c] \in Nat /\ Asked(c) \in {0, 1} /\ texts'[c] = texts[c]
      BY <1>1, LoadType DEF history
    <2>5. Load(c)' <= Load(c)
      BY <2>1, <2>2, <2>3, <2>4 DEF Load
    <2> QED BY <1>1, <2>5, ToldKept DEF alarm, history, Schedule
  <1> QED BY <1>2, <1>3 DEF Schedule

(* A text that reports leaves modem_task's hands and is counted or not; if *)
(* it failed, what asked for it has no flag any more.                      *)
LEMMA TestTold ==
  ASSUME IInv, TypeOK', Schedule, NEW outcome \in Outcome, TestJob(outcome)
  PROVE  Schedule'
  <1>1. /\ ~closing /\ closing' /\ UNCHANGED <<queue, work, stale, carried>> /\ TypeOK
    BY DEF TestJob, IInv
  <1>2. ASSUME NEW c \in Channels PROVE Told(c)'
    <2>1. AlarmText(c) \in Flagged /\ Told(c)
      BY DEF Flagged, Schedule
    <2>2. job_queued'[AlarmText(c)] <=> (job_queued[AlarmText(c)] /\ AlarmText(c) # work)
      BY <2>1, Zenon DEF TestJob, Unqueued
    <2>3. Waiting(c)' = Waiting(c) /\ InHand(c)' = 0
      BY <1>1, Zenon DEF Waiting, InHand
    <2>4. /\ Waiting(c) \in Nat /\ texts[c] \in Nat /\ InHand(c) \in {0, 1}
          /\ Asked(c) \in {0, 1} /\ Asked(c)' \in {0, 1}
      BY <1>1, LoadType DEF Asked
    <2>5. CASE ReportText(outcome)
      <3>1. /\ side' = side /\ count' = count
            /\ new_pending'[c] <=> (new_pending[c] /\ ~(outcome # "failed" /\ work = AlarmText(c)))
        BY <2>5, Zenon DEF ReportText
      <3>2. texts'[c] = IF outcome = "sent" /\ work = AlarmText(c) /\ ~stale /\ side[c] # "none"
                          THEN texts[c] + 1 ELSE texts[c]
        BY <2>5, Zenon DEF ReportText
      <3>3. CASE work # AlarmText(c)
        <4>1. texts'[c] = texts[c] /\ InHand(c) = 0 /\ Asked(c)' = Asked(c)
          BY <2>2, <3>1, <3>2, <3>3, <1>1, Zenon DEF InHand, Asked
        <4>2. Load(c)' <= Load(c)
          BY <2>3, <2>4, <4>1 DEF Load
        <4> QED BY <1>1, <2>1, <3>1, <4>1, <4>2, ToldKept
      <3>4. CASE work = AlarmText(c) /\ outcome = "failed"
        <4>1. texts'[c] = texts[c]
          BY <3>2, <3>4
        <4>2. Asked(c)' = 1 => InHand(c) = 1 \/ Asked(c) = 1
          BY <1>1, <3>1, <3>4, Zenon DEF InHand, Asked
        <4>3. Load(c)' <= Load(c)
          BY <2>3, <2>4, <4>1, <4>2 DEF Load
        <4> QED BY <1>1, <2>1, <3>1, <4>1, <4>3, ToldKept
      <3>5. CASE work = AlarmText(c) /\ outcome # "failed"
        <4>1. ~new_pending'[c] /\ Asked(c)' = 0
          BY <3>1, <3>5, Zenon DEF Asked
        <4>2. texts'[c] = texts[c] \/ (texts'[c] = texts[c] + 1 /\ InHand(c) = 1 /\ side[c] # "none")
          BY <1>1, <3>2, <3>5, Zenon DEF InHand
        <4>3. Load(c)' <= Load(c)
          BY <2>3, <2>4, <4>1, <4>2 DEF Load
        <4>4. side[c] = "none" => texts'[c] = texts[c]
          BY <3>2
        <4> QED BY <1>1, <2>1, <3>1, <4>1, <4>3, <4>4, ToldKept
      <3> QED BY <3>3, <3>4, <3>5
    <2>6. CASE ReportPoll \/ ReportCall(outcome)
      <3>1. UNCHANGED <<alarm, texts>>
        BY <2>6 DEF ReportPoll, ReportCall
      <3>2. work # AlarmText(c)
        <4>1. work = Other("POLL") \/ work = AlarmCall
          BY <2>6, Zenon DEF ReportPoll, ReportCall
        <4>2. AlarmText(c)[1] # Other("POLL")[1] /\ AlarmText(c)[1] # AlarmCall[1]
          BY DEF AlarmText, AlarmCall, Other
        <4> QED BY <4>1, <4>2, Zenon
      <3>3. InHand(c) = 0 /\ Asked(c)' = Asked(c)
        <4>1. new_pending' = new_pending
          BY <3>1 DEF alarm
        <4>2. job_queued'[AlarmText(c)] <=> job_queued[AlarmText(c)]
          BY <2>2, <3>2, Zenon
        <4> QED BY <1>1, <3>2, <4>1, <4>2, Zenon DEF InHand, Asked
      <3>4. Load(c)' <= Load(c)
        BY <2>3, <2>4, <3>1, <3>3 DEF Load
      <3> QED BY <1>1, <2>1, <3>1, <3>4, ToldKept DEF alarm
    <2> QED BY <2>5, <2>6 DEF TestJob
  <1> QED BY <1>1, <1>2 DEF Schedule, Busy

LEMMA CloseTold == IInv /\ TypeOK' /\ Schedule /\ CloseJob => Schedule'
  <1> SUFFICES ASSUME IInv, TypeOK', Schedule, CloseJob PROVE Schedule'
    OBVIOUS
  <1>1. /\ closing /\ ~closing' /\ work' = NoJob /\ ~stale' /\ TypeOK
        /\ UNCHANGED <<alarm, job_queued, queue, texts, carried>>
    BY DEF CloseJob, IInv
  <1>2. ASSUME NEW c \in Channels PROVE Told(c)'
    <2>1. Waiting(c)' = Waiting(c) /\ InHand(c) = 0 /\ InHand(c)' = 0
      <3>1. NoJob # AlarmText(c)
        BY DEF NoJob, AlarmText
      <3>2. Waiting(c)' = Waiting(c)
        BY <1>1 DEF Waiting
      <3> QED BY <1>1, <3>1, <3>2, Zenon DEF InHand
    <2>2. Asked(c)' = Asked(c)
      BY <1>1, Zenon DEF Asked, alarm
    <2>3. Load(c)' = Load(c)
      BY <1>1, <2>1, <2>2 DEF Load
    <2>4. Load(c)' <= Load(c)
      BY <1>1, <2>3, LoadType
    <2> QED BY <1>1, <2>4, ToldKept DEF alarm, Schedule
  <1> QED BY <1>1, <1>2 DEF Schedule

LEMMA LimitTold ==
  ASSUME IInv, TypeOK', Schedule, NEW d \in Channels, LimitUpdate(d)
  PROVE  Schedule'
  <1>1. /\ new_pending' = On(new_pending, {d}, TRUE) /\ count' = On(count, {d}, 1)
        /\ texts' = On(texts, {d}, 0) /\ TypeOK
        /\ UNCHANGED <<job_queued, queue, work, closing>>
        /\ carried' = [c \in Channels |-> IF c \notin {d} THEN carried[c]
                                          ELSE IF side'[c] = "none" THEN 0 ELSE Unclaimed(c)]
        /\ stale' = (stale \/ \E c \in {d} : work = AlarmText(c))
    BY DEF LimitUpdate, Renewed, modem, IInv
  <1>2. side'[d] # "none" /\ \A c \in Channels \ {d} : side'[c] = side[c]
    BY DEF LimitUpdate, TypeOK, IInv
  <1>3. ASSUME stale' PROVE Busy'
    <2>1. stale \/ work = AlarmText(d)
      BY <1>1, <1>3
    <2> QED BY <1>1, <2>1, JobsDistinct DEF Schedule, Busy
  <1>4. ASSUME NEW c \in Channels PROVE Told(c)'
    <2>1. CASE c = d
      <3>1. texts'[c] = 0 /\ count'[c] = 1 /\ carried'[c] = Unclaimed(c) /\ (work = AlarmText(c) => stale')
        BY <1>1, <1>2, <2>1 DEF On
      <3> QED BY <1>1, <3>1, ToldNew
    <2>2. CASE c # d
      <3>1. /\ texts'[c] = texts[c] /\ count'[c] = count[c] /\ carried'[c] = carried[c]
            /\ new_pending'[c] = new_pending[c] /\ side'[c] = side[c]
        BY <1>1, <1>2, <2>2 DEF On
      <3>2. work = AlarmText(c) => (stale' <=> stale)
        <4>1. AlarmText(d) # AlarmText(c)
          BY <2>2 DEF AlarmText
        <4>2. stale' <=> (stale \/ work = AlarmText(d))
          BY <1>1, Zenon
        <4> QED BY <4>1, <4>2
      <3>3. Load(c)' = Load(c)
        BY <1>1, <3>1, <3>2, LoadKept
      <3>4. Load(c)' <= Load(c)
        BY <1>1, <3>3, LoadType
      <3> QED BY <1>1, <3>1, <3>4, ToldKept DEF Schedule
    <2> QED BY <2>1, <2>2
  <1> QED BY <1>3, <1>4 DEF Schedule

LEMMA ScheduleLemma == IInv /\ TypeOK' /\ Schedule /\ [Next]_vars => Schedule'
  <1> SUFFICES ASSUME IInv, TypeOK', Schedule, [Next]_vars PROVE Schedule'
    OBVIOUS
  <1>1. CASE UNCHANGED <<alarm, job_queued, history, queue, work, closing>>
    BY <1>1, PassTold DEF alarm
  <1>2. CASE publish_task
    BY <1>2, SampleTold, LogicTold, ReminderTold, TextsTold, RestoredTextsTold, CallTold
       DEF publish_task
  <1>3. CASE modem_task
    BY <1>3, ReceiveTold, TestTold, CloseTold DEF modem_task
  <1>4. CASE (\E t \in Timers : Elapse(t)) \/ ChangeSettings
    BY <1>1, <1>4 DEF Elapse, ChangeSettings, modem
  <1>5. CASE EnqueueOther \/ (QueuePoll /\ "POLL" \in OtherJobs)
    <2>1. PICK k \in OtherJobs : queue' = Append(queue, Other(k))
      BY <1>5 DEF EnqueueOther, QueuePoll
    <2>2. Other(k) \in Job /\ \A c \in Channels : Other(k) # AlarmText(c)
      BY DEF Job, Other, AlarmText
    <2>3. UNCHANGED <<alarm, job_queued, work, closing, history>>
      BY <1>5 DEF EnqueueOther, QueuePoll
    <2> QED BY <2>1, <2>2, <2>3, OtherTold DEF alarm
  <1>6. CASE Restart
    <2>1. ASSUME NEW c \in Channels PROVE Told(c)'
      <3>1. texts'[c] = 0 /\ carried'[c] = 0 /\ side'[c] = "none"
        BY <1>6 DEF Restart
      <3> QED BY <3>1, ToldOver
    <2> QED BY <1>6, <2>1 DEF Restart, Schedule
  <1>7. CASE \E c \in Channels : LimitUpdate(c)
    BY <1>7, LimitTold
  <1>8. CASE UNCHANGED vars
    BY <1>1, <1>8 DEF vars, modem
  <1> QED BY <1>2, <1>3, <1>4, <1>5, <1>6, <1>7, <1>8 DEF Next, process_incoming_sms_commands

(* No alarm is told to all numbers more often than its schedule and the    *)
(* texts it found in the queue without a flag allow, for every length of   *)
(* the queue, whatever fails, is tried again, is edited or is switched off *)
(* (app_logic.c:2285-2320).                                                *)
THEOREM ScheduleCorrect == Spec => []TextsWithinSchedule
  <1>1. Init => Schedule
    <2> SUFFICES ASSUME Init PROVE Schedule
      OBVIOUS
    <2>1. ASSUME NEW c \in Channels PROVE Told(c)
      <3>1. texts[c] = 0 /\ carried[c] = 0 /\ side[c] = "none"
        BY DEF Init
      <3> QED BY <3>1, LimitAssumption DEF Told
    <2> QED BY <2>1 DEF Init, Schedule
  <1>2. Schedule => TextsWithinSchedule
    BY DEF Schedule, Told, TextsWithinSchedule
  <1>3. IInv /\ Schedule /\ [Next]_vars => IInv' /\ Schedule'
    <2>1. IInv' => TypeOK'
      BY DEF IInv
    <2> QED BY <2>1, NextLemma, ScheduleLemma
  <1> QED BY <1>1, <1>2, <1>3, InitLemma, PTL DEF Spec
-----------------------------------------------------------------------------
(* With the settings left alone: one text at a time *)

Text == Flagged \ {AlarmCall}

(* No edit switches humidity off or takes the numbers away.                *)
SettingsKept == hum_enabled = TRUE /\ sms_target = TRUE

(* The part of OneTextAtATime that is about the text j.                    *)
Once(j) ==
  /\ Outstanding(j) => job_queued[j]
  /\ \A i, k \in DOMAIN queue : queue[i] = j /\ queue[k] = j => i = k
  /\ work = j /\ ~closing => \A i \in DOMAIN queue : queue[i] # j

(* Without edits of the settings these stay as they were.                  *)
LEMMA SettingsLemma == ~ConfigChanges /\ SettingsKept /\ [Next]_vars => SettingsKept'
  <1> SUFFICES ASSUME ~ConfigChanges, SettingsKept, [Next]_vars PROVE SettingsKept'
    OBVIOUS
  <1>1. CASE UNCHANGED settings
    BY <1>1 DEF SettingsKept, settings
  <1>2. CASE publish_task
    BY <1>1, <1>2 DEF publish_task, sample_sensors, process_alarm_logic, process_alarm_reminder,
       process_alarm_sms, process_alarm_restored_sms, process_alarm_call, QueueTexts
  <1>3. CASE modem_task \/ (\E t \in Timers : Elapse(t)) \/ EnqueueOther
          \/ process_incoming_sms_commands
    BY <1>1, <1>3 DEF modem_task, ReceiveJob, TestJob, CloseJob, Elapse, EnqueueOther,
       process_incoming_sms_commands, QueuePoll, Restart
  <1>4. CASE UNCHANGED vars
    BY <1>1, <1>4 DEF vars
  <1>5. ~ChangeSettings /\ \A c \in Channels : ~LimitUpdate(c)
    BY DEF ChangeSettings, LimitUpdate
  <1> QED BY <1>2, <1>3, <1>4, <1>5 DEF Next

(* A step that appends to the queue keeps a text that it does not append,  *)
(* and one that it appends once with its flag.                             *)
LEMMA OnceAppended ==
  ASSUME NEW j, Once(j), UNCHANGED <<work, closing>>, queue \in Seq(Job),
         NEW took \in Seq(Job), queue' = queue \o took,
         job_queued[j] => job_queued'[j],
         \A i \in DOMAIN took : took[i] = j => ~job_queued[j] /\ job_queued'[j],
         \A i, k \in DOMAIN took : took[i] = j /\ took[k] = j => i = k
  PROVE  Once(j)'
  <1>1. ASSUME NEW i \in DOMAIN queue'
        PROVE  \/ i \in DOMAIN queue /\ queue'[i] = queue[i]
               \/ i - Len(queue) \in DOMAIN took /\ queue'[i] = took[i - Len(queue)]
    BY <1>1
  <1>2. CASE job_queued[j]
    <2>1. \A i \in DOMAIN took : took[i] # j
      BY <1>2
    <2> QED BY <1>1, <1>2, <2>1 DEF Once, Outstanding
  <1>3. CASE ~job_queued[j]
    <2>1. ~(work = j /\ ~closing) /\ \A i \in DOMAIN queue : queue[i] # j
      BY <1>3 DEF Once, Outstanding
    <2>2. \A i \in DOMAIN queue' : queue'[i] = j =>
            i - Len(queue) \in DOMAIN took /\ took[i - Len(queue)] = j
      BY <1>1, <2>1
    <2>3. \A i, k \in DOMAIN queue' : queue'[i] = j /\ queue'[k] = j =>
            i - Len(queue) = k - Len(queue)
      BY <2>2
    <2>4. Outstanding(j)' => job_queued'[j]
      BY <2>1, <2>2 DEF Outstanding
    <2>5. DOMAIN queue' \subseteq Int /\ Len(queue) \in Int
      BY DEF Job
    <2>6. \A i, k \in DOMAIN queue' : queue'[i] = j /\ queue'[k] = j => i = k
      BY <2>3, <2>5
    <2> QED BY <2>1, <2>4, <2>6 DEF Once
  <1> QED BY <1>2, <1>3

(* A step that leaves the queue and the flag leaves the text.              *)
LEMMA OnceKept ==
  ASSUME NEW j, Once(j), UNCHANGED <<work, closing, queue>>, job_queued'[j] <=> job_queued[j]
  PROVE  Once(j)'
  BY DEF Once, Outstanding

(* Every step, one case for each action that can reach the modem's queue.  *)
LEMMA OnceLemma ==
  ASSUME TypeOK, SettingsKept, ~ConfigChanges, OneTextAtATime, [Next]_vars
  PROVE  OneTextAtATime'
  <1> SUFFICES ASSUME NEW j \in Text PROVE Once(j)'
    BY DEF OneTextAtATime, Once, Text
  <1>1. /\ Once(j) /\ j \in Flagged /\ j # AlarmCall /\ j # NoJob
        /\ \A k : j # Other(k)
    <2>1. j[1] \in {"ALARM", "RESTORED"}
      BY DEF Text, Flagged, AlarmText, RestoredText
    <2> QED BY <2>1, JobsDistinct DEF OneTextAtATime, Once, Text, Other
  <1>2. CASE UNCHANGED <<work, closing, queue, job_queued>>
    BY <1>1, <1>2, OnceKept
  <1>3. \A c \in Channels : Monitored(c)
    BY DEF SettingsKept, Monitored
  <1>4. CASE sample_sensors \/ process_alarm_logic
    <2>2. job_queued'[j] <=> job_queued[j]
      BY <1>1, <1>3, <1>4, Zenon DEF sample_sensors, process_alarm_logic
    <2> QED BY <1>1, <1>4, <2>2, OnceKept DEF sample_sensors, process_alarm_logic, modem
  <1>5. CASE process_alarm_reminder
    BY <1>2, <1>5 DEF process_alarm_reminder, modem
  <1>6. ASSUME NEW kind \in {"ALARM", "RESTORED"}, NEW pending, NEW timer,
               QueueTexts(kind, pending, timer)
        PROVE  Once(j)'
    <2> DEFINE took == IF age[timer] = "recent" \/ Busy THEN <<>> ELSE Taken(kind, pending)
    <2>1. /\ queue' = queue \o took /\ UNCHANGED <<work, closing>>
          /\ job_queued' = [k \in Flagged |-> job_queued[k] \/ \E i \in DOMAIN took : took[i] = k]
      BY <1>6 DEF QueueTexts
    <2>2. took \in Seq(Job)
      BY TakenType
    <2>3. /\ \A i \in DOMAIN took : ~job_queued[took[i]]
          /\ \A i, k \in DOMAIN took : took[i] = took[k] => i = k
      BY TakenOnce
    <2> HIDE DEF took
    <2>4. job_queued'[j] = (job_queued[j] \/ \E i \in DOMAIN took : took[i] = j)
      BY <1>1, <2>1, Zenon
    <2>5. (job_queued[j] => job_queued'[j])
          /\ \A i \in DOMAIN took : took[i] = j => ~job_queued[j] /\ job_queued'[j]
      BY <2>3, <2>4, Zenon
    <2>6. queue \in Seq(Job)
      BY DEF TypeOK
    <2> QED BY <1>1, <2>1, <2>2, <2>3, <2>5, <2>6, OnceAppended
  <1>7. CASE process_alarm_sms \/ process_alarm_restored_sms
    <2>1. \/ UNCHANGED <<job_queued, modem>>
          \/ QueueTexts("ALARM", new_pending, "sms")
          \/ QueueTexts("RESTORED", restore_pending, "restored")
      BY <1>7 DEF process_alarm_sms, process_alarm_restored_sms, SettingsKept
    <2> QED BY <1>2, <1>6, <2>1 DEF modem
  <1>8. ASSUME NEW k \in Job, k # j, queue' = Append(queue, k), UNCHANGED <<work, closing>>,
               job_queued'[j] = job_queued[j]
        PROVE  Once(j)'
    <2>1. queue \in Seq(Job) /\ <<k>> \in Seq(Job)
      BY <1>8 DEF TypeOK
    <2>2. queue' = queue \o <<k>>
      BY <1>8, <2>1
    <2>3. \A i \in DOMAIN <<k>> : <<k>>[i] # j
      BY <1>8
    <2> QED BY <1>1, <1>8, <2>1, <2>2, <2>3, OnceAppended
  <1>9. CASE process_alarm_call
    <2>1. /\ UNCHANGED <<work, closing>>
          /\ queue' = queue \/ queue' = Append(queue, AlarmCall)
          /\ \/ job_queued' = job_queued
             \/ job_queued' = [job_queued EXCEPT ![AlarmCall] = TRUE]
             \/ job_queued' = [job_queued EXCEPT ![AlarmCall] = FALSE]
      BY <1>9 DEF process_alarm_call, QueueCall
    <2>2. job_queued'[j] = job_queued[j]
      BY <1>1, <2>1 DEF TypeOK
    <2> QED BY <1>1, <1>8, <2>1, <2>2, OnceKept, JobsDistinct
  <1>10. CASE EnqueueOther \/ process_incoming_sms_commands
    <2>1. CASE EnqueueOther \/ (QueuePoll /\ "POLL" \in OtherJobs)
      <3>1. PICK k \in OtherJobs : queue' = Append(queue, Other(k))
        BY <2>1 DEF EnqueueOther, QueuePoll
      <3>2. UNCHANGED <<work, closing, job_queued>> /\ Other(k) \in Job
        BY <2>1 DEF EnqueueOther, QueuePoll, Job
      <3> QED BY <1>1, <1>8, <3>1, <3>2
    <2>2. CASE Restart
      <3>1. queue' = <<>> /\ work' = NoJob
        BY <2>2 DEF Restart
      <3> QED BY <1>1, <3>1 DEF Once, Outstanding
    <2> QED BY <1>10, <2>1, <2>2 DEF process_incoming_sms_commands
  <1>11. CASE ReceiveJob
    <2>1. /\ work = NoJob /\ queue # <<>> /\ work' = Head(queue) /\ queue' = Tail(queue)
          /\ job_queued' = job_queued /\ closing' = closing /\ queue \in Seq(Job)
      BY <1>11 DEF ReceiveJob, Busy, TypeOK
    <2>2. 1 \in DOMAIN queue /\ work' = queue[1]
      BY <2>1
    <2>3. \A i \in DOMAIN queue' : i + 1 \in DOMAIN queue /\ queue'[i] = queue[i + 1]
                                   /\ i + 1 # 1 /\ i \in Nat
      BY <2>1
    <2>4. Outstanding(j)' => Outstanding(j)
      BY <2>1, <2>2, <2>3 DEF Outstanding
    <2>5. \A i, k \in DOMAIN queue' : queue'[i] = j /\ queue'[k] = j => i + 1 = k + 1
      BY <1>1, <2>3 DEF Once
    <2>6. \A i, k \in DOMAIN queue' : queue'[i] = j /\ queue'[k] = j => i = k
      BY <2>3, <2>5
    <2>7. work' = j => \A i \in DOMAIN queue' : queue'[i] # j
      BY <1>1, <2>2, <2>3 DEF Once
    <2> QED BY <1>1, <2>1, <2>4, <2>6, <2>7 DEF Once
  <1>12. CASE \E outcome \in Outcome : TestJob(outcome)
    <2>1. /\ ~closing /\ closing' = TRUE /\ queue' = queue /\ work' = work
          /\ job_queued' = [k \in Flagged |-> job_queued[k] /\ k # work]
      BY <1>12 DEF TestJob, Unqueued
    <2>2. job_queued'[j] = (job_queued[j] /\ j # work)
      BY <1>1, <2>1, Zenon
    <2>3. Outstanding(j)' => Outstanding(j) /\ j # work
      BY <1>1, <2>1 DEF Outstanding, Once
    <2>4. Outstanding(j)' => job_queued'[j]
      BY <1>1, <2>2, <2>3, Zenon DEF Once
    <2> QED BY <1>1, <2>1, <2>4 DEF Once
  <1>13. CASE CloseJob
    <2>1. work' = NoJob /\ UNCHANGED <<queue, job_queued>>
      BY <1>13 DEF CloseJob
    <2> QED BY <1>1, <2>1 DEF Once, Outstanding
  <1>14. CASE (\E t \in Timers : Elapse(t)) \/ UNCHANGED vars
    BY <1>2, <1>14 DEF Elapse, modem, vars
  <1>15. ~ChangeSettings /\ \A c \in Channels : ~LimitUpdate(c)
    BY DEF ChangeSettings, LimitUpdate
  <1> QED BY <1>4, <1>5, <1>7, <1>9, <1>10, <1>11, <1>12, <1>13, <1>14, <1>15
          DEF Next, publish_task, modem_task

(* No retry queues a text a second time while the settings are left alone  *)
(* (app_logic.c:2117-2139, 2170-2192).                                     *)
THEOREM OneTextCorrect == ~ConfigChanges /\ Spec => []OneTextAtATime
  <1>1. Init => SettingsKept /\ OneTextAtATime
    BY JobsDistinct DEF Init, SettingsKept, OneTextAtATime, Outstanding
  <1>2. CASE ConfigChanges
    BY <1>2
  <1>3. CASE ~ConfigChanges
    <2>1. SettingsKept /\ [Next]_vars => SettingsKept'
      BY <1>3, SettingsLemma
    <2>2. TypeOK /\ SettingsKept /\ OneTextAtATime /\ [Next]_vars => OneTextAtATime'
      BY <1>3, OnceLemma
    <2> QED BY <1>1, <2>1, <2>2, TypeCorrect, PTL DEF Spec
  <1> QED BY <1>2, <1>3
-----------------------------------------------------------------------------
(* With the settings left alone: an alarm nobody was told of *)

(* A channel in alarm has its first notification and its reminder counted  *)
(* from its start.  What could take its request down, the report of a text *)
(* composed for an earlier alarm or a verdict reached before it was asked  *)
(* for, is over before its first reminder.                                 *)
Remembered(c) ==
  /\ side[c] # "none" => count[c] >= 1 /\ age[c] # "unset"
  /\ stale /\ work = AlarmText(c) => count[c] <= 1
  /\ closing /\ "alarms sent" \in verdict /\ new_pending[c] => count[c] <= 1
  /\ side[c] # "none" /\ texts[c] = 0 => TextWanted(c) \/ count[c] < NotifyMax

AlarmsRemembered == (stale => Busy) /\ \A c \in Channels : Remembered(c)

(* A step that leaves the channel's alarm and the modem's report alone.    *)
LEMMA RememberedKept ==
  ASSUME NEW c \in Channels, Remembered(c),
         UNCHANGED <<side, count, new_pending, texts, stale, work, closing, verdict>>,
         age[c] # "unset" => age'[c] # "unset", TextWanted(c) => TextWanted(c)'
  PROVE  Remembered(c)'
  BY DEF Remembered

(* A channel whose alarm begins has its first reminder before it.          *)
LEMMA RememberedNew ==
  ASSUME NEW c \in Channels, NotifyMax >= 2, count'[c] = 1, age'[c] # "unset"
  PROVE  Remembered(c)'
  BY LimitAssumption DEF Remembered

(* A channel out of alarm has nothing to remember.                         *)
LEMMA RememberedOver ==
  ASSUME NEW c \in Channels, side'[c] = "none", count'[c] = 0
  PROVE  Remembered(c)'
  BY DEF Remembered

(* Raising and ending alarms: the channels that begin have their count and *)
(* time stamp set, the others keep their request.                          *)
LEMMA LogicRemembered ==
  ASSUME TypeOK, AlarmIsItsChannels, AlarmsRemembered, NotifyMax >= 2, SettingsKept,
         process_alarm_logic
  PROVE  AlarmsRemembered'
  <1>1. UNCHANGED <<modem, work, verdict, closing>> /\ (stale => Busy)
    BY DEF process_alarm_logic, modem, AlarmsRemembered
  <1>2. CASE AssertAlarm
    <2>1. UNCHANGED <<side, count, new_pending, texts, stale, sms_pending, sms_sent>>
          /\ \A c \in Channels : age'[c] = age[c]
      BY <1>2, ChannelAssumption DEF AssertAlarm, alarm, notice, history, Aged, Timers
    <2> QED BY <1>1, <2>1, RememberedKept DEF AlarmsRemembered, TextWanted, Busy
  <1>3. CASE RaiseAlarm
    <2> DEFINE New == {c \in Channels : AlarmNow(c)}
    <2>1. /\ side' = [c \in Channels |-> IF c \in New THEN reading[c] ELSE "none"]
          /\ new_pending' = [c \in Channels |-> c \in New]
          /\ count' = On(count, New, 1)
          /\ texts' = On(texts, New, 0)
          /\ stale' = (stale \/ \E c \in New : work = AlarmText(c))
          /\ ~alarm_active
      BY <1>3 DEF RaiseAlarm, Renewed
    <2>2. \A c \in New : age'[c] = "recent"
      BY <1>3 DEF RaiseAlarm, Timers
    <2>3. stale' => Busy'
      BY <1>1, <2>1, JobsDistinct DEF Busy
    <2> HIDE DEF New
    <2>4. ASSUME NEW c \in Channels PROVE Remembered(c)'
      <3>1. CASE c \in New
        <4>1. count'[c] = 1
          BY <2>1, <3>1 DEF On
        <4> QED BY <2>2, <3>1, <4>1, RememberedNew
      <3>2. CASE c \notin New
        <4>1. side'[c] = "none" /\ count'[c] = count[c]
          BY <2>1, <3>2 DEF On
        <4>2. count[c] = 0
          BY <2>1 DEF AlarmIsItsChannels
        <4> QED BY <4>1, <4>2, RememberedOver
      <3> QED BY <3>1, <3>2
    <2> QED BY <2>3, <2>4 DEF AlarmsRemembered
  <1>4. CASE FollowAlarm
    <2> DEFINE New  == {c \in Channels : AlarmNow(c) /\ side[c] = "none"}
               Back == {c \in Channels : Monitored(c) /\ RestoredNow(c)}
               Off  == {c \in Channels : ~Monitored(c) /\ side[c] # "none"}
               over == AllEnded
               told == IF New \cup Back = {} THEN {} ELSE {"restored"}
    <2>0. Off = {}
      BY DEF SettingsKept, Monitored
    <2>1. /\ side' = [c \in Channels |-> IF AlarmNow(c) THEN reading[c]
                                         ELSE IF c \in Back \cup Off THEN "none" ELSE side[c]]
          /\ new_pending' = On(On(new_pending, New, TRUE), Off, FALSE)
          /\ count' = IF over THEN [c \in Channels |-> 0]
                              ELSE On(On(count, New, 1), Back \cup Off, 0)
          /\ texts' = On(texts, New \cup Back \cup Off, 0)
          /\ stale' = (stale \/ \E c \in New \cup Back \cup Off : work = AlarmText(c))
      BY <1>4 DEF FollowAlarm, Renewed
    <2>2. ~over => age' = [t \in Timers |->
                      CASE t \in New -> "recent"
                        [] t \in Back \cup Off \cup told -> Zero(t)
                        [] t \in {"sms", "call"} /\ New # {} -> Zero(t)
                        [] OTHER -> age[t]]
      BY <1>4 DEF FollowAlarm
    <2>3. ~over => \/ sms_pending' = TRUE /\ sms_sent' = FALSE
                   \/ UNCHANGED <<sms_pending, sms_sent>>
      BY <1>4 DEF FollowAlarm, AskForText
    <2>4. over => \A c \in Channels : side'[c] = "none"
      BY DEF AllEnded
    <2>5. \A c \in Channels : c \in Back => ~AlarmNow(c)
      BY DEF RestoredNow, AlarmNow
    <2>6. \A c \in Channels : AlarmNow(c) => c \in New \/ side[c] # "none"
      OBVIOUS
    <2>7. \A c \in Channels : c \in Timers /\ c \notin told /\ c \notin {"sms", "call"}
      BY ChannelAssumption DEF Timers
    <2>8. stale' => Busy'
      <3>1. \A c \in Channels : work = AlarmText(c) => work # NoJob
        BY JobsDistinct
      <3> QED BY <1>1, <2>1, <3>1 DEF Busy
    <2>9. \A c \in New : AlarmNow(c) /\ reading[c] # "none"
      BY DEF AlarmNow
    <2>10. New \subseteq Channels
      OBVIOUS
    <2> HIDE DEF New, Back, Off, over, told
    <2>11. ASSUME NEW c \in Channels PROVE Remembered(c)'
      <3>1. CASE over
        <4>1. side'[c] = "none" /\ count'[c] = 0
          BY <2>1, <2>4, <3>1
        <4> QED BY <4>1, RememberedOver
      <3>2. CASE ~over /\ c \in Back
        <4>1. side'[c] = "none" /\ count'[c] = 0
          BY <2>1, <2>5, <3>2 DEF On
        <4> QED BY <4>1, RememberedOver
      <3>3. CASE ~over /\ c \in New /\ c \notin Back
        <4>1. count'[c] = 1
          BY <2>0, <2>1, <3>3 DEF On
        <4>2. age'[c] = "recent"
          BY <2>0, <2>2, <2>7, <3>3
        <4> QED BY <4>1, <4>2, RememberedNew
      <3>4. CASE ~over /\ c \notin New \cup Back
        <4>1. /\ count'[c] = count[c] /\ texts'[c] = texts[c] /\ new_pending'[c] = new_pending[c]
              /\ (side'[c] # "none" => side[c] # "none")
          BY <2>0, <2>1, <2>6, <3>4 DEF On
        <4>2. age'[c] = age[c]
          BY <2>0, <2>2, <2>7, <3>4
        <4>3. TextWanted(c) => TextWanted(c)'
          BY <2>3, <3>4, <4>1 DEF TextWanted
        <4>4. stale' /\ work' = AlarmText(c) => stale
          <5>1. \A d \in New \cup Back : AlarmText(d) # AlarmText(c)
            BY <3>4 DEF AlarmText
          <5> QED BY <1>1, <2>0, <2>1, <5>1
        <4>5. Remembered(c)
          BY DEF AlarmsRemembered
        <4> QED BY <1>1, <4>1, <4>2, <4>3, <4>4, <4>5 DEF Remembered
      <3> QED BY <3>1, <3>2, <3>3, <3>4
    <2> QED BY <2>8, <2>11 DEF AlarmsRemembered
  <1> QED BY <1>2, <1>3, <1>4 DEF process_alarm_logic

(* A reminder is made only while the modem is idle, so no report is late.  *)
LEMMA ReminderRemembered ==
  ASSUME TypeOK, AlarmsRemembered, process_alarm_reminder
  PROVE  AlarmsRemembered'
  <1> DEFINE Due == {d \in Channels : alarm_active /\ ~Busy /\ ReminderDue(d)}
  <1>1. UNCHANGED <<work, verdict, closing, texts, stale>>
    BY DEF process_alarm_reminder, modem, history
  <1>2. CASE Due = {}
    <2>1. UNCHANGED <<side, count, new_pending, age, sms_pending, sms_sent>>
      BY <1>2 DEF process_alarm_reminder, alarm, notice
    <2> QED BY <1>1, <2>1, RememberedKept DEF AlarmsRemembered, TextWanted, Busy
  <1>3. CASE Due # {}
    <2>1. /\ side' = side /\ new_pending' = On(new_pending, Due, TRUE)
          /\ count' = [c \in Channels |-> IF c \in Due THEN count[c] + 1 ELSE count[c]]
          /\ sms_pending' = TRUE /\ sms_sent' = FALSE
          /\ age' = [t \in Timers |-> CASE t \in Due -> "recent"
                                        [] t \in {"sms", "call"} -> Zero(t)
                                        [] OTHER -> age[t]]
      BY <1>3 DEF process_alarm_reminder, AskForText
    <2>2. work = NoJob /\ ~closing
      BY <1>3 DEF Busy, TypeOK
    <2>3. \A c \in Due : count[c] >= 1 /\ count[c] \in Int
      BY LimitAssumption DEF ReminderDue
    <2> HIDE DEF Due
    <2>4. ASSUME NEW c \in Channels PROVE Remembered(c)'
      <3>1. AlarmText(c) # NoJob
        BY JobsDistinct
      <3>2. c \in Timers /\ c \notin {"sms", "call"}
        BY ChannelAssumption DEF Timers
      <3>3. Remembered(c)
        BY DEF AlarmsRemembered
      <3>4. CASE c \in Due
        <4>1. TextWanted(c)' /\ age'[c] = "recent" /\ count'[c] = count[c] + 1
          BY <2>1, <3>2, <3>4 DEF On, TextWanted
        <4>2. count'[c] >= 1
          BY <2>3, <3>4, <4>1
        <4> QED BY <1>1, <2>2, <3>1, <4>1, <4>2 DEF Remembered
      <3>5. CASE c \notin Due
        <4>1. /\ TextWanted(c) => TextWanted(c)'
              /\ age'[c] = age[c] /\ count'[c] = count[c]
          BY <2>1, <3>2, <3>5 DEF On, TextWanted
        <4> QED BY <1>1, <2>1, <2>2, <3>1, <3>3, <4>1 DEF Remembered
      <3> QED BY <3>4, <3>5
    <2> QED BY <1>1, <2>4 DEF AlarmsRemembered, Busy
  <1> QED BY <1>2, <1>3

(* A report that counts no text leaves the request; the one exception is a *)
(* text composed for an earlier alarm, after which the reminder comes.     *)
LEMMA TestRemembered ==
  ASSUME TypeOK, AlarmsRemembered, NotifyMax >= 2,
         ~ConfigChanges, NEW outcome \in Outcome, TestJob(outcome)
  PROVE  AlarmsRemembered'
  <1>1. UNCHANGED <<age, sms_pending, sms_sent, work, stale>> /\ ~closing /\ Busy
    BY DEF TestJob
  <1>2. ASSUME NEW c \in Channels PROVE Remembered(c)'
    <2>1. Remembered(c)
      BY DEF AlarmsRemembered
    <2>2. CASE ReportText(outcome)
      <3> DEFINE done == outcome # "failed"
      <3>0. done => outcome = "sent"
        BY DEF Outcome
      <3>1. /\ side' = side /\ count' = count
            /\ new_pending'[c] <=> (new_pending[c] /\ ~(done /\ work = AlarmText(c)))
            /\ texts'[c] = IF outcome = "sent" /\ work = AlarmText(c) /\ ~stale
                                /\ side[c] # "none"
                             THEN texts[c] + 1 ELSE texts[c]
        BY <2>2, Zenon DEF ReportText
      <3>2. "alarms sent" \in verdict' => ~new_pending'[c]
        BY <2>2 DEF ReportText
      <3>3. texts[c] \in Nat /\ count[c] \in 0 .. NotifyMax /\ NotifyMax \in Nat
        BY LimitAssumption DEF TypeOK
      <3>4. CASE done /\ work = AlarmText(c)
        <4>2. CASE stale
          <5>1. count[c] <= 1
            BY <2>1, <3>4, <4>2, Zenon DEF Remembered
          <5>2. count[c] < NotifyMax
            BY <3>3, <5>1
          <5> QED BY <1>1, <2>1, <3>1, <3>2, <5>1, <5>2 DEF Remembered
        <4>3. CASE ~stale
          <5>1. side[c] # "none" => texts'[c] # 0
            BY <3>0, <3>1, <3>3, <3>4, <4>3
          <5> QED BY <1>1, <2>1, <3>1, <3>2, <4>3, <5>1 DEF Remembered
        <4> QED BY <4>2, <4>3
      <3>5. CASE ~(done /\ work = AlarmText(c))
        <4>1. texts'[c] = texts[c] /\ (TextWanted(c) => TextWanted(c)')
          BY <1>1, <3>1, <3>5 DEF TextWanted
        <4> QED BY <1>1, <2>1, <3>1, <3>2, <4>1 DEF Remembered
      <3> QED BY <3>4, <3>5
    <2>3. CASE ReportPoll \/ ReportCall(outcome)
      <3>1. UNCHANGED <<alarm, texts>> /\ "alarms sent" \notin verdict'
        BY <2>3 DEF ReportPoll, ReportCall
      <3>2. TextWanted(c) => TextWanted(c)'
        BY <1>1, <3>1 DEF TextWanted, alarm
      <3> QED BY <1>1, <2>1, <3>1, <3>2 DEF Remembered, alarm
    <2> QED BY <2>2, <2>3 DEF TestJob
  <1> QED BY <1>1, <1>2 DEF AlarmsRemembered, Busy

(* A verdict that takes requests down was reached with none, and those     *)
(* that came since have their first reminder before them.                  *)
LEMMA CloseRemembered ==
  ASSUME TypeOK, AlarmsRemembered, NotifyMax >= 2, CloseJob
  PROVE  AlarmsRemembered'
  <1>1. /\ closing /\ closing' = FALSE /\ work' = NoJob /\ stale' = FALSE
        /\ UNCHANGED <<side, count, new_pending, texts>>
        /\ sms_pending' = (sms_pending /\ "alarms sent" \notin verdict)
        /\ sms_sent' = (sms_sent \/ "alarms sent" \in verdict)
    BY DEF CloseJob, alarm
  <1>2. \A c \in Channels : age'[c] = age[c]
    BY ChannelAssumption DEF CloseJob, Reset, Timers
  <1>3. ASSUME NEW c \in Channels PROVE Remembered(c)'
    <2>1. Remembered(c)
      BY DEF AlarmsRemembered
    <2>2. CASE "alarms sent" \notin verdict
      <3>1. TextWanted(c) => TextWanted(c)'
        BY <1>1, <2>2 DEF TextWanted
      <3> QED BY <1>1, <1>2, <2>1, <3>1 DEF Remembered
    <2>3. CASE "alarms sent" \in verdict
      <3>1. count[c] \in 0 .. NotifyMax /\ NotifyMax \in Nat
        BY LimitAssumption DEF TypeOK
      <3>2. TextWanted(c) => count[c] <= 1
        BY <1>1, <2>1, <2>3, Zenon DEF Remembered, TextWanted
      <3>3. count[c] <= 1 => count[c] < NotifyMax
        BY <3>1
      <3> QED BY <1>1, <1>2, <2>1, <3>2, <3>3 DEF Remembered
    <2> QED BY <2>2, <2>3
  <1> QED BY <1>1, <1>3 DEF AlarmsRemembered

(* Every step keeps what is remembered of the alarms.                      *)
LEMMA RememberedLemma ==
  ASSUME TypeOK, AlarmIsItsChannels, SettingsKept, AlarmsRemembered,
         ~ConfigChanges, NotifyMax >= 2, [Next]_vars
  PROVE  AlarmsRemembered'
  <1>1. ASSUME UNCHANGED <<side, count, new_pending, texts, stale, work, closing, verdict,
                           sms_pending, sms_sent>>,
               \A c \in Channels : age[c] # "unset" => age'[c] # "unset"
        PROVE  AlarmsRemembered'
    BY <1>1, RememberedKept DEF AlarmsRemembered, TextWanted, Busy
  <1>2. CASE sample_sensors
    <2> DEFINE off == {c \in Channels : ~Monitored(c)}
    <2>1. off = {}
      BY DEF SettingsKept, Monitored
    <2>2. /\ new_pending' = On(new_pending, off, FALSE) /\ count' = On(count, off, 0)
          /\ age' = Reset(off) /\ UNCHANGED <<side, notice, modem, history>>
      BY <1>2 DEF sample_sensors
    <2> HIDE DEF off
    <2>3. new_pending' = new_pending /\ count' = count /\ age' = age
      BY <2>1, <2>2 DEF On, Reset, TypeOK
    <2> QED BY <1>1, <2>2, <2>3 DEF notice, modem, history
  <1>3. CASE process_alarm_sms \/ process_alarm_restored_sms \/ process_alarm_call
    <2>1. UNCHANGED <<side, count, new_pending, texts, stale, work, closing, verdict,
                      sms_pending, sms_sent>>
      BY <1>3 DEF process_alarm_sms, process_alarm_restored_sms, process_alarm_call, QueueTexts,
         SettingsKept, alarm, notice, modem, history
    <2>2. \E t \in {"sms", "restored", "call"} : age' \in {age, Aged({t}, "recent")}
      BY <1>3 DEF process_alarm_sms, process_alarm_restored_sms, process_alarm_call, QueueTexts,
         QueueCall, SettingsKept
    <2>3. \A c \in Channels : age'[c] = age[c]
      BY <2>2, ChannelAssumption DEF Aged, Timers
    <2> QED BY <1>1, <2>1, <2>3
  <1>4. CASE ReceiveJob
    <2>1. /\ ~stale /\ ~closing /\ UNCHANGED <<side, count, new_pending, texts, stale, closing,
             verdict, sms_pending, sms_sent, age>>
      BY <1>4 DEF ReceiveJob, AlarmsRemembered, TypeOK, alarm, notice, history
    <2>2. \A c \in Channels : Remembered(c) => Remembered(c)'
      BY <2>1 DEF Remembered, TextWanted
    <2> QED BY <2>1, <2>2 DEF AlarmsRemembered
  <1>5. CASE \E t \in Timers : Elapse(t)
    <2>1. PICK t \in Timers : Elapse(t)
      BY <1>5
    <2>2. \A c \in Channels : age[c] # "unset" => age'[c] # "unset"
      BY <2>1 DEF Elapse, TypeOK, Age, Timers
    <2> QED BY <1>1, <2>1, <2>2 DEF Elapse, alarm, notice, modem, history
  <1>6. CASE EnqueueOther \/ process_incoming_sms_commands
    <2>1. CASE EnqueueOther \/ QueuePoll
      BY <1>1, <2>1 DEF EnqueueOther, QueuePoll, alarm, notice, history
    <2>2. CASE Restart
      <3>1. ASSUME NEW c \in Channels PROVE Remembered(c)'
        <4>1. side'[c] = "none" /\ count'[c] = 0
          BY <2>2 DEF Restart
        <4> QED BY <4>1, RememberedOver
      <3> QED BY <2>2, <3>1 DEF Restart, AlarmsRemembered
    <2> QED BY <1>6, <2>1, <2>2 DEF process_incoming_sms_commands
  <1>7. CASE UNCHANGED vars
    BY <1>1, <1>7 DEF vars, alarm, notice, modem, history
  <1>8. ~ChangeSettings /\ \A c \in Channels : ~LimitUpdate(c)
    BY DEF ChangeSettings, LimitUpdate
  <1> QED BY <1>2, <1>3, <1>4, <1>5, <1>6, <1>7, <1>8, LogicRemembered, ReminderRemembered,
             TestRemembered, CloseRemembered DEF Next, publish_task, modem_task

(* With two notifications or more and the settings left alone, an alarm    *)
(* that nobody was told of always has its text asked for or a reminder to  *)
(* come, whatever fails, is full or reports late                           *)
(* (app_logic.c:1532-1542, 2285-2331).                                     *)
THEOREM UntoldRememberedCorrect ==
  ~ConfigChanges /\ NotifyMax >= 2 /\ Spec => []UntoldAlarmRemembered
  <1>1. Init => SettingsKept /\ AlarmsRemembered
    BY DEF Init, SettingsKept, AlarmsRemembered, Remembered
  <1>2. AlarmsRemembered => UntoldAlarmRemembered
    BY DEF AlarmsRemembered, Remembered, UntoldAlarmRemembered
  <1>3. CASE ~(~ConfigChanges /\ NotifyMax >= 2)
    BY <1>3
  <1>4. CASE ~ConfigChanges /\ NotifyMax >= 2
    <2>1. SettingsKept /\ [Next]_vars => SettingsKept'
      BY <1>4, SettingsLemma
    <2>2. TypeOK /\ AlarmIsItsChannels /\ SettingsKept /\ AlarmsRemembered
            /\ [Next]_vars => AlarmsRemembered'
      BY <1>4, RememberedLemma
    <2>3. ~ConfigChanges
      BY <1>4
    <2> QED BY <1>1, <1>2, <2>1, <2>2, <2>3, TypeCorrect, ChannelsCorrect, PTL DEF Spec
  <1> QED BY <1>3, <1>4
=============================================================================
