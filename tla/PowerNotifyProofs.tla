--------------------------- MODULE PowerNotifyProofs ---------------------------
(***************************************************************************)
(* For every queue length and limit of reminders: the flags of an outage   *)
(* keep their types, and its call is asked for only once its text was      *)
(* sent, whichever of the three tasks writes last; and an outage that was  *)
(* noted is never forgotten before it is told.                             *)
(***************************************************************************)
EXTENDS PowerNotify, TLAPS

(* The type says nothing of what a reminder that is under way finds: with  *)
(* the count below the limit when it was tested, it is still below it when *)
(* the monitor has noted another outage or its end in between.             *)
Reminding == pc = "remind" => notify_count < NotifyMax

NInv == TypeOK /\ Reminding /\ CallAfterText

LEMMA InitNotify == Init => NInv
  <1> SUFFICES ASSUME Init PROVE NInv
    OBVIOUS
  <1> USE DEF Init
  <1>1. age \in [Timers -> Age]
    BY DEF Unset, Age
  <1>2. queue \in Seq(Job) /\ Len(queue) <= QueueLen /\ notify_count \in 0 .. NotifyMax
    BY LimitAssumption
  <1>3. lost_sms \in Notice /\ restored_sms \in Notice /\ lost_call \in Notice /\ pc \in PC
    BY DEF Notice, PC
  <1> QED BY <1>1, <1>2, <1>3 DEF NInv, TypeOK, Reminding, CallAfterText

LEMMA FirstCount == 1 \in 0 .. NotifyMax
  BY LimitAssumption

LEMMA AgeType ==
  ASSUME NEW a \in [Timers -> Age], NEW t \in Timers, NEW v \in Age
  PROVE  [a EXCEPT ![t] = v] \in [Timers -> Age]
  OBVIOUS

(* A notice is queued only while there is room.                            *)
LEMMA QueueNoticeType ==
  ASSUME TypeOK, NEW j \in Job, NEW t \in Timers, QueueNotice(j, t)
  PROVE  age' \in [Timers -> Age] /\ queue' \in Seq(Job) /\ Len(queue') <= QueueLen
  <1>1. age' \in [Timers -> Age]
    BY AgeType DEF QueueNotice, TypeOK, Age
  <1>2. queue' \in Seq(Job) /\ Len(queue') <= QueueLen
    BY LimitAssumption DEF QueueNotice, TypeOK
  <1> QED BY <1>1, <1>2

LEMMA MonitorNotify ==
  ASSUME NInv, LearnSupply \/ ChangeSupply \/ on_power_monitor_event
  PROVE  NInv'
  <1> USE DEF NInv, TypeOK, Reminding, CallAfterText, boot, settings, monitor, notices, history
  <1>1. CASE LearnSupply BY <1>1 DEF LearnSupply
  <1>2. CASE ChangeSupply
    <2>1. told' \in BOOLEAN /\ stale' \in BOOLEAN /\ torn' \in BOOLEAN
      BY <1>2, Zenon DEF ChangeSupply
    <2> QED BY <1>2, <2>1 DEF ChangeSupply
  <1>3. CASE on_power_monitor_event
    <2>1. torn' \in BOOLEAN
      <3> DEFINE cut == pc \in {"boot noted", "remind"}
      <3>1. torn' = cut
        BY <1>3, Zenon DEF on_power_monitor_event
      <3>2. cut \in BOOLEAN
        OBVIOUS
      <3> HIDE DEF cut
      <3> QED BY <3>1, <3>2, Zenon
    <2>2. /\ lost_sms' \in Notice /\ restored_sms' \in Notice /\ lost_call' = "idle"
          /\ notify_count' \in {0, 1} /\ age' \in [Timers -> Age]
      BY <1>3 DEF on_power_monitor_event, NoteLost, NoteRestored, Unset, Notice, Age, Timers
    <2>3. /\ event' = "NONE"
          /\ UNCHANGED <<supply, pc, boot, settings, queue, work, told, stale>>
      BY <1>3 DEF on_power_monitor_event
    <2> QED BY <2>1, <2>2, <2>3, LimitAssumption DEF Notice
  <1> QED BY <1>1, <1>2, <1>3

(* Every function of publish_task's pass; only the one that sends nothing  *)
(* for want of a number changes the text's flag without taking the call.   *)
LEMMA PublishNotify == NInv /\ publish_task => NInv'
  <1> SUFFICES ASSUME NInv, publish_task PROVE NInv'
    OBVIOUS
  <1> USE DEF NInv, TypeOK, Reminding, CallAfterText, boot, settings, monitor, notices, history, PC
  <1>1. CASE BootCheck
    <2>1. boot_checked' \in BOOLEAN /\ sensor_ready' \in BOOLEAN
      BY <1>1, Zenon DEF BootCheck
    <2> QED BY <1>1, <2>1 DEF BootCheck
  <1>2. CASE BootNote
    <2>1. age' \in [Timers -> Age]
      BY <1>2, AgeType DEF BootNote, TellOutage, Age, Timers
    <2>2. /\ lost_sms' = "wanted" /\ lost_call' = "idle" /\ notify_count' = 1 /\ pc' = "lost"
          /\ UNCHANGED <<monitor, boot, settings, restored_sms, queue, work, history>>
      BY <1>2 DEF BootNote, TellOutage
    <2>3. lost_sms' \in Notice /\ lost_call' \in Notice
      BY <2>2 DEF Notice
    <2>4. notify_count' \in 0 .. NotifyMax
      BY <2>2, FirstCount
    <2>5. CallAfterText' /\ Reminding'
      BY <2>2
    <2> QED BY <2>1, <2>2, <2>3, <2>4, <2>5
  <1>3. CASE process_power_lost_sms
    <2>1. /\ pc' = "restored" /\ lost_sms' \in {lost_sms, "sent"}
          /\ UNCHANGED <<monitor, boot, settings, restored_sms, lost_call, notify_count,
                         work, stale, torn>>
      BY <1>3 DEF process_power_lost_sms
    <2>2. told' \in BOOLEAN
      BY <1>3, Zenon DEF process_power_lost_sms
    <2>3. age' \in [Timers -> Age] /\ queue' \in Seq(Job) /\ Len(queue') <= QueueLen
      BY <1>3, QueueNoticeType DEF process_power_lost_sms, Job, Timers
    <2>4. lost_sms' \in Notice
      BY <2>1 DEF Notice
    <2>5. CallAfterText'
      BY <2>1
    <2> QED BY <2>1, <2>2, <2>3, <2>4, <2>5
  <1>4. CASE process_power_restored_sms
    <2>1. /\ pc' = "reminder" /\ restored_sms' \in {restored_sms, "sent"}
          /\ UNCHANGED <<monitor, boot, settings, lost_sms, lost_call, notify_count,
                         work, history>>
      BY <1>4 DEF process_power_restored_sms
    <2>2. age' \in [Timers -> Age] /\ queue' \in Seq(Job) /\ Len(queue') <= QueueLen
      BY <1>4, QueueNoticeType DEF process_power_restored_sms, Job, Timers
    <2>3. restored_sms' \in Notice
      BY <2>1 DEF Notice
    <2>4. CallAfterText'
      BY <2>1
    <2> QED BY <2>1, <2>2, <2>3, <2>4
  <1>5. CASE ReminderTest
    <2>1. age' \in [Timers -> Age]
      BY <1>5, AgeType DEF ReminderTest, Age, Timers
    <2> QED BY <1>5, <2>1 DEF ReminderTest
  <1>6. CASE Remind
    <2>1. age' \in [Timers -> Age]
      BY <1>6, AgeType DEF Remind, TellOutage, Age, Timers
    <2> QED BY <1>6, <2>1, LimitAssumption DEF Remind, TellOutage, Notice
  <1>7. CASE process_power_lost_call
    <2>1. /\ pc' = "boot" /\ lost_call' \in {lost_call, "sent"}
          /\ UNCHANGED <<monitor, boot, settings, lost_sms, restored_sms, notify_count,
                         work, history>>
      BY <1>7 DEF process_power_lost_call
    <2>2. age' \in [Timers -> Age] /\ queue' \in Seq(Job) /\ Len(queue') <= QueueLen
      BY <1>7, QueueNoticeType DEF process_power_lost_call, Job, Timers
    <2>3. lost_sms' \in Notice /\ restored_sms' \in Notice /\ lost_call' \in Notice
      BY <2>1 DEF Notice
    <2>4. CallAfterText'
      BY <2>1
    <2> QED BY <2>1, <2>2, <2>3, <2>4
  <1> QED BY <1>1, <1>2, <1>3, <1>4, <1>5, <1>6, <1>7 DEF publish_task

(* The report that asks for the call marks the text as sent.               *)
LEMMA ModemNotify == NInv /\ modem_task => NInv'
  <1> SUFFICES ASSUME NInv, modem_task PROVE NInv'
    OBVIOUS
  <1> USE DEF NInv, TypeOK, Reminding, CallAfterText, boot, settings, monitor, notices, history
  <1>1. CASE ReceiveJob
    <2>1. queue' \in Seq(Job) /\ Len(queue') <= QueueLen /\ work' \in Job
      BY <1>1, LimitAssumption DEF ReceiveJob
    <2> QED BY <1>1, <2>1 DEF ReceiveJob
  <1>2. ASSUME NEW done \in BOOLEAN, FinishJob(done) PROVE NInv'
    <2>1. told' \in BOOLEAN /\ stale' \in BOOLEAN
      BY <1>2, Zenon DEF FinishJob
    <2>2. age' \in [Timers -> Age]
      BY <1>2, AgeType DEF FinishJob, JobDone, Age, Timers
    <2>3. /\ lost_sms' \in Notice /\ restored_sms' \in Notice /\ lost_call' \in Notice
          /\ lost_call' = "wanted" => lost_sms' = "sent"
      BY <1>2 DEF FinishJob, JobDone, Notice
    <2> QED BY <1>2, <2>1, <2>2, <2>3 DEF FinishJob
  <1> QED BY <1>1, <1>2 DEF modem_task

LEMMA NotifyStep == NInv /\ [Next]_vars => NInv'
  <1> SUFFICES ASSUME NInv, [Next]_vars PROVE NInv'
    OBVIOUS
  <1> USE DEF NInv, TypeOK, Reminding, CallAfterText, boot, settings, monitor, notices, history
  <1>1. ASSUME NEW t \in Timers, Elapse(t) PROVE NInv'
    <2>1. age' \in [Timers -> Age]
      BY <1>1, AgeType DEF Elapse, Age
    <2> QED BY <1>1, <2>1 DEF Elapse
  <1>2. CASE ChangeSettings BY <1>2 DEF ChangeSettings
  <1>3. CASE UNCHANGED vars BY <1>3 DEF vars
  <1> QED BY <1>1, <1>2, <1>3, MonitorNotify, PublishNotify, ModemNotify DEF Next

(* The reminders stay within their limit, although the monitor may note an *)
(* outage between the test of the limit and the count                      *)
(* (app_logic.c:3871-3907), and the queue within its length.               *)
THEOREM TypeCorrect == Spec => []TypeOK
  <1>1. NInv => TypeOK
    BY DEF NInv
  <1> QED BY <1>1, InitNotify, NotifyStep, PTL DEF Spec

(* The call of an outage is asked for only when its text was sent, in any  *)
(* order of the monitor's events, the boot check, the reminders and the    *)
(* late reports of modem_task (app_logic.c:2990-2997, 3923-3966).          *)
THEOREM CallAfterTextCorrect == Spec => []CallAfterText
  <1>1. NInv => CallAfterText
    BY DEF NInv
  <1> QED BY <1>1, InitNotify, NotifyStep, PTL DEF Spec

-----------------------------------------------------------------------------
(* A noted outage is not forgotten *)

(* The mains is lost, app_logic has noted it, and no step of the monitor   *)
(* cut into publish_task when it did.                                      *)
Noted == supply = "MAIN_LOST" /\ event = "NONE" /\ notify_count > 0 /\ ~torn

(* An outage that was noted and not told has its text asked for, or a      *)
(* reminder that will ask for it still to come.                            *)
NotedOutageRemembered ==
  Noted /\ ~told =>
    lost_sms = "wanted" \/ (notify_count < NotifyMax /\ age["notify"] # "unset")

(* A text of an earlier outage is in hand since before this one was noted, *)
(* so no reminder of this one was made; an outage that is counted has its  *)
(* reminder timed; and a unit that has not learned its supply has counted  *)
(* nothing.                                                                *)
LateText ==
  stale => /\ work = "POWER_LOST"
           /\ Noted => notify_count <= 1 /\ pc # "remind"
Timed == notify_count > 0 => age["notify"] # "unset"
Unlearned ==
  supply = "UNKNOWN" => /\ ~stale /\ notify_count = 0 /\ event = "NONE"
                        /\ pc \notin {"boot noted", "remind"}
ToldOrWanted == Noted /\ ~told => lost_sms = "wanted" \/ notify_count < NotifyMax

RInv == LateText /\ Timed /\ Unlearned /\ ToldOrWanted

(* A step that leaves the supply, the reminders and the modem's job.       *)
LEMMA RememberedKept ==
  ASSUME RInv, UNCHANGED <<supply, event, stale, work, told, torn>>,
         notify_count' = notify_count,
         pc' = pc \/ pc' \notin {"boot noted", "remind"},
         age'["notify"] = age["notify"] \/ age'["notify"] = "recent",
         lost_sms' = lost_sms
  PROVE  RInv'
  BY DEF RInv, LateText, Timed, Unlearned, ToldOrWanted, Noted

LEMMA CountBelow == ASSUME TypeOK PROVE notify_count <= 1 => notify_count < NotifyMax
  BY LimitAssumption DEF TypeOK

LEMMA MonitorRemembered ==
  ASSUME RInv, LearnSupply \/ ChangeSupply \/ on_power_monitor_event
  PROVE  RInv'
  <1>1. CASE LearnSupply
    <2>1. /\ supply = "UNKNOWN" /\ supply' # "UNKNOWN"
          /\ UNCHANGED <<pc, notify_count, age, lost_sms, stale>>
      BY <1>1, Zenon DEF LearnSupply, history, notices
    <2>2. ~stale /\ notify_count = 0
      BY <2>1, Zenon DEF RInv, Unlearned
    <2>3. ~stale'
      BY <2>1, <2>2, Zenon
    <2>4. ~(notify_count' > 0)
      BY <2>1, <2>2
    <2> QED BY <2>1, <2>3, <2>4, Zenon DEF RInv, LateText, Timed, Unlearned, ToldOrWanted, Noted
  <1>2. CASE ChangeSupply
    <2>1. /\ supply' # "UNKNOWN"
          /\ event' = "NONE" => torn'
          /\ stale' => work' = "POWER_LOST"
          /\ UNCHANGED <<notify_count, age>>
      BY <1>2, Zenon DEF ChangeSupply, notices
    <2>2. ~Noted'
      BY <2>1, Zenon DEF Noted
    <2> QED BY <2>1, <2>2, Zenon DEF RInv, LateText, Timed, Unlearned, ToldOrWanted
  <1>3. CASE on_power_monitor_event
    <2>1. /\ UNCHANGED <<supply, pc, work, told, stale>>
          /\ ~torn' => pc' \notin {"boot noted", "remind"}
      BY <1>3, Zenon DEF on_power_monitor_event
    <2>2. event # "NONE"
      BY <1>3 DEF on_power_monitor_event, NoteLost, NoteRestored
    <2>3. supply' # "UNKNOWN" /\ (stale' => work' = "POWER_LOST")
      BY <2>1, <2>2, Zenon DEF RInv, LateText, Unlearned
    <2>4. CASE NoteLost
      <3>1. notify_count' <= 1 /\ lost_sms' = "wanted" /\ age'["notify"] # "unset"
        BY <2>4 DEF NoteLost, Timers
      <3> QED BY <2>1, <2>3, <3>1, Zenon DEF RInv, LateText, Timed, Unlearned, ToldOrWanted, Noted
    <2>5. CASE NoteRestored
      <3>1. ~(notify_count' > 0)
        BY <2>5 DEF NoteRestored
      <3> QED BY <2>1, <2>3, <3>1, Zenon DEF RInv, LateText, Timed, Unlearned, ToldOrWanted, Noted
    <2> QED BY <1>3, <2>4, <2>5 DEF on_power_monitor_event
  <1> QED BY <1>1, <1>2, <1>3

LEMMA NoticeQueued ==
  ASSUME TypeOK, NEW j, NEW t \in Timers, t # "notify", QueueNotice(j, t)
  PROVE  age'["notify"] = age["notify"]
  BY DEF QueueNotice, TypeOK, Timers

LEMMA PublishRemembered == NInv /\ RInv /\ publish_task => RInv'
  <1> SUFFICES ASSUME NInv, RInv, publish_task PROVE RInv'
    OBVIOUS
  <1> TypeOK
    BY DEF NInv
  <1>1. CASE BootCheck
    <2>1. /\ UNCHANGED <<supply, event, stale, work, told, torn, notify_count, age, lost_sms>>
          /\ pc' # "remind" /\ (pc' = "boot noted" => supply = "MAIN_LOST")
      BY <1>1 DEF BootCheck, monitor, history, notices
    <2>2. LateText' /\ Timed' /\ ToldOrWanted'
      BY <2>1, Zenon DEF RInv, LateText, Timed, ToldOrWanted, Noted
    <2>3. Unlearned'
      BY <2>1, Zenon DEF RInv, Unlearned
    <2> QED BY <2>2, <2>3 DEF RInv
  <1>2. CASE BootNote
    <2>1. /\ UNCHANGED <<supply, event, stale, work, told, torn>> /\ pc = "boot noted"
          /\ pc' = "lost" /\ lost_sms' = "wanted"
          /\ age'["notify"] = "recent"
      BY <1>2 DEF BootNote, TellOutage, monitor, history, TypeOK, Timers
    <2>2. notify_count' = 1
      BY <1>2, Zenon DEF BootNote, TellOutage
    <2>3. notify_count' <= 1
      BY <2>2
    <2> QED BY <2>1, <2>3, Zenon DEF RInv, LateText, Timed, Unlearned, ToldOrWanted, Noted
  <1>3. CASE process_power_lost_sms
    <2>1. /\ UNCHANGED <<supply, event, stale, work, torn, notify_count>> /\ pc' = "restored"
          /\ \/ lost_sms' = lost_sms /\ told' = told
             \/ told' = TRUE
          /\ age'["notify"] = age["notify"]
      BY <1>3, NoticeQueued DEF process_power_lost_sms, monitor, Timers
    <2> QED BY <2>1 DEF RInv, LateText, Timed, Unlearned, ToldOrWanted, Noted
  <1>4. CASE process_power_restored_sms
    <2>1. /\ UNCHANGED <<supply, event, stale, work, told, torn, notify_count, lost_sms>>
          /\ pc' = "reminder" /\ age'["notify"] = age["notify"]
      BY <1>4, NoticeQueued DEF process_power_restored_sms, monitor, history, Timers
    <2> QED BY <2>1, RememberedKept
  <1>5. CASE ReminderTest
    <2>1. /\ UNCHANGED <<supply, event, stale, work, told, torn, notify_count, lost_sms>>
          /\ age'["notify"] = age["notify"] \/ age'["notify"] = "recent"
          /\ pc' # "boot noted" /\ (pc' = "remind" => supply = "MAIN_LOST" /\ work = "NONE")
      BY <1>5 DEF ReminderTest, monitor, history, notices, TypeOK, Timers, Busy
    <2> QED BY <2>1 DEF RInv, LateText, Timed, Unlearned, ToldOrWanted, Noted
  <1>6. CASE Remind
    <2>1. /\ UNCHANGED <<supply, event, stale, work, told, torn>> /\ pc = "remind"
          /\ pc' = "call" /\ notify_count' = notify_count + 1 /\ lost_sms' = "wanted"
          /\ age'["notify"] = "recent"
      BY <1>6 DEF Remind, TellOutage, monitor, history, TypeOK, Timers
    <2>2. notify_count \in Nat
      BY LimitAssumption DEF TypeOK
    <2>3. Noted' => Noted \/ notify_count = 0
      BY <2>1, <2>2 DEF Noted
    <2> QED BY <2>1, <2>2, <2>3 DEF RInv, LateText, Timed, Unlearned, ToldOrWanted, Noted
  <1>7. CASE process_power_lost_call
    <2>1. /\ UNCHANGED <<supply, event, stale, work, told, torn, notify_count, lost_sms>>
          /\ pc' = "boot" /\ age'["notify"] = age["notify"]
      BY <1>7, NoticeQueued DEF process_power_lost_call, monitor, history, Timers
    <2> QED BY <2>1, RememberedKept
  <1> QED BY <1>1, <1>2, <1>3, <1>4, <1>5, <1>6, <1>7 DEF publish_task

(* A text counts as told unless it is of an earlier outage, and then the   *)
(* first reminder of this one is still to come.                            *)
LEMMA ModemRemembered == NInv /\ RInv /\ modem_task => RInv'
  <1> SUFFICES ASSUME NInv, RInv, modem_task PROVE RInv'
    OBVIOUS
  <1>1. CASE ReceiveJob
    <2>1. /\ work = "NONE"
          /\ UNCHANGED <<supply, event, pc, stale, told, torn, notify_count, age, lost_sms>>
      BY <1>1 DEF ReceiveJob, Busy, monitor, history, notices
    <2>2. ~stale'
      BY <2>1, Zenon DEF RInv, LateText
    <2>3. Timed' /\ ToldOrWanted'
      BY <2>1, Zenon DEF RInv, Timed, ToldOrWanted, Noted
    <2>4. Unlearned'
      BY <2>1, <2>2, Zenon DEF RInv, Unlearned
    <2> QED BY <2>2, <2>3, <2>4 DEF RInv, LateText
  <1>2. ASSUME NEW done \in BOOLEAN, FinishJob(done) PROVE RInv'
    <2>1. /\ UNCHANGED <<supply, event, pc, torn, notify_count>> /\ ~stale'
          /\ age'["notify"] = age["notify"]
      BY <1>2 DEF FinishJob, JobDone, monitor, NInv, TypeOK, Timers
    <2>2. LateText' /\ Timed'
      BY <2>1, Zenon DEF RInv, LateText, Timed
    <2>3. Unlearned'
      BY <2>1, Zenon DEF RInv, Unlearned
    <2>4. ToldOrWanted'
      <3>1. CASE done /\ work = "POWER_LOST" /\ stale
        <4>1. Noted => notify_count < NotifyMax
          BY <3>1, CountBelow, Zenon DEF RInv, LateText, NInv
        <4> QED BY <2>1, <4>1, Zenon DEF ToldOrWanted, Noted
      <3>2. CASE done /\ work = "POWER_LOST" /\ ~stale
        <4>1. told'
          BY <1>2, <3>2, Zenon DEF FinishJob
        <4> QED BY <4>1 DEF ToldOrWanted
      <3>3. CASE ~(done /\ work = "POWER_LOST")
        <4>1. lost_sms' = lost_sms
          BY <1>2, <3>3, Zenon DEF FinishJob, JobDone
        <4>2. told => told'
          BY <1>2, <3>3, Zenon DEF FinishJob
        <4> QED BY <2>1, <4>1, <4>2, Zenon DEF RInv, ToldOrWanted, Noted
      <3> QED BY <3>1, <3>2, <3>3
    <2> QED BY <2>2, <2>3, <2>4 DEF RInv
  <1> QED BY <1>1, <1>2 DEF modem_task

LEMMA RememberedStep == NInv /\ RInv /\ [Next]_vars => RInv'
  <1> SUFFICES ASSUME NInv, RInv, [Next]_vars PROVE RInv'
    OBVIOUS
  <1>1. ASSUME NEW t \in Timers, Elapse(t) PROVE RInv'
    <2>1. /\ UNCHANGED <<supply, event, pc, stale, work, told, torn, notify_count, lost_sms>>
          /\ age'["notify"] = age["notify"] \/ age'["notify"] = "due"
      BY <1>1 DEF Elapse, monitor, history, notices, NInv, TypeOK, Timers
    <2> QED BY <2>1 DEF RInv, LateText, Timed, Unlearned, ToldOrWanted, Noted
  <1>2. CASE ChangeSettings
    BY <1>2, RememberedKept DEF ChangeSettings, monitor, history, notices
  <1>3. CASE UNCHANGED vars
    BY <1>3, RememberedKept DEF vars, monitor, history, notices
  <1> QED BY <1>1, <1>2, <1>3, MonitorRemembered, PublishRemembered, ModemRemembered DEF Next

(* An outage that app_logic noted is never forgotten before it is told:    *)
(* not by a full queue, a failed text, a late report of a text of the      *)
(* outage before, nor an edit of the numbers (app_logic.c:2990-2997,       *)
(* 3856-3907, 3923-3966).                                                  *)
THEOREM NotedRememberedCorrect == Spec => []NotedOutageRemembered
  <1>1. Init => RInv
    BY DEF Init, RInv, LateText, Timed, Unlearned, ToldOrWanted, Noted
  <1>2. RInv => NotedOutageRemembered
    BY DEF RInv, Timed, ToldOrWanted, Noted, NotedOutageRemembered
  <1> QED BY <1>1, <1>2, InitNotify, NotifyStep, RememberedStep, PTL DEF Spec
=============================================================================
