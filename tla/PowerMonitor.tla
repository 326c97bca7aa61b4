---------------------------- MODULE PowerMonitor ----------------------------
(***************************************************************************)
(* components/power_monitor: monitor_task samples the mains and the backup *)
(* battery once per period, process_sample debounces the mains and raises  *)
(* events; an event goes to the event bus first and, only when the bus     *)
(* took it, to the callback app_logic registered; net_stub_task empties    *)
(* the bus.  Sequence numbers and time stamps are only logged and are left *)
(* out.  Voltages are integers (tenths of a volt in the instances).        *)
(***************************************************************************)
EXTENDS Integers, Sequences

CONSTANTS Debounce,             \* PM_MAIN_DEBOUNCE_COUNT
          QueueLen,             \* PM_EVENT_QUEUE_LEN
          MainLostV,            \* PM_MAIN_LOST_THRESHOLD_V
          MainRestoreV,         \* PM_MAIN_RESTORE_THRESHOLD_V
          BkPresentV, BkLowV,   \* PM_BK_PRESENT_THRESHOLD_V, PM_BK_LOW_THRESHOLD_V
          MainVolts, BkVolts    \* the voltages the converter may read

ASSUME DebounceAssumption == Debounce \in Nat \ {0}
ASSUME QueueAssumption == QueueLen \in Nat \ {0}
ASSUME VoltAssumption ==
  /\ MainLostV \in Int /\ MainRestoreV \in Int /\ MainLostV < MainRestoreV
  /\ BkPresentV \in Int /\ BkLowV \in Int
  /\ MainVolts \subseteq Int /\ BkVolts \subseteq Int

PowerState == {"UNKNOWN", "MAIN_OK", "MAIN_LOST"}
MainEvent == {"MAIN_LOST", "MAIN_RESTORED"}
PowerEvent == MainEvent \cup {"BK_LOW"}

VARIABLES
  state, lost_counter, restore_counter, bk_low_reported, latest_sample,
  bus,          \* the event queue, oldest first
  cb,           \* a callback is registered
  told,         \* history: the last change of the mains the callback received
  missed,       \* history: the last change of the mains was not delivered
  below, above  \* history: runs of consecutive low and high samples, capped

vars == <<state, lost_counter, restore_counter, bk_low_reported, latest_sample,
          bus, cb, told, missed, below, above>>

Init ==
  /\ state = "UNKNOWN"
  /\ lost_counter = 0 /\ restore_counter = 0
  /\ bk_low_reported = FALSE
  /\ latest_sample \in MainVolts
  /\ bus = <<>>
  /\ cb = FALSE
  /\ told = "NONE" /\ missed = FALSE
  /\ below = 0 /\ above = 0

-----------------------------------------------------------------------------
(* Mutated: a mains that is down at the first sample stays unknown.        *)
derive_initial_state_OnlyUp(v) ==
  IF v >= MainRestoreV THEN "MAIN_OK" ELSE "UNKNOWN"

derive_initial_state(v) ==
  IF v >= MainRestoreV THEN "MAIN_OK"
  ELSE IF v <= MainLostV THEN "MAIN_LOST" ELSE "UNKNOWN"

(* Mutated: the bus has no limit.                                          *)
AcceptedAll(es) == es

(* event_bus_publish of the events in es, in order; the first one that     *)
(* finds the bus full ends the sample (ESP_RETURN_ON_ERROR).  Each event   *)
(* the bus took is handed to the callback.                                 *)
Accepted(es) ==
  LET room == QueueLen - Len(bus) IN
  IF Len(es) <= room THEN es ELSE SubSeq(es, 1, room)

(* Mutated: only the loss is published.                                    *)
publish_and_notify_Losses(es) ==
  LET got == IF es = <<"MAIN_LOST">> THEN Accepted(es) ELSE <<>> IN
  /\ bus' = bus \o got
  /\ IF got # <<>> THEN told' = (IF cb THEN es[1] ELSE told) /\ missed' = ~cb
                   ELSE UNCHANGED <<told, missed>>

publish_and_notify(es) ==
  LET got == Accepted(es) IN
  /\ bus' = bus \o got
  /\ IF es # <<>> /\ es[1] \in MainEvent
       THEN /\ told' = IF got # <<>> /\ cb THEN es[1] ELSE told
            /\ missed' = (got = <<>> \/ ~cb)
       ELSE UNCHANGED <<told, missed>>

(* The battery is fitted, low, and not reported since `reported' was reset *)
BkLow(bk, reported) == bk > BkPresentV /\ bk < BkLowV /\ ~reported

Learn(v) ==
  /\ state = "UNKNOWN"
  /\ state' = derive_initial_state(v)
  /\ UNCHANGED <<lost_counter, restore_counter, bk_low_reported, bus, told, missed>>

(* Mutated: a good sample does not restart the count of low ones.          *)
OnMain_KeepsCount(v) ==
  /\ state = "MAIN_OK"
  /\ IF v < MainLostV /\ lost_counter + 1 >= Debounce
       THEN /\ state' = "MAIN_LOST"
            /\ lost_counter' = 0 /\ restore_counter' = 0
            /\ bk_low_reported' = FALSE
            /\ publish_and_notify(<<"MAIN_LOST">>)
       ELSE /\ lost_counter' = IF v < MainLostV THEN lost_counter + 1 ELSE lost_counter
            /\ UNCHANGED <<state, restore_counter, bk_low_reported, bus, told, missed>>

OnMain(v) ==
  /\ state = "MAIN_OK"
  /\ IF v >= MainLostV
       THEN /\ lost_counter' = 0
            /\ UNCHANGED <<state, restore_counter, bk_low_reported, bus, told, missed>>
     ELSE IF lost_counter + 1 < Debounce
       THEN /\ lost_counter' = lost_counter + 1
            /\ restore_counter' = 0
            /\ UNCHANGED <<state, bk_low_reported, bus, told, missed>>
     ELSE   /\ state' = "MAIN_LOST"
            /\ lost_counter' = 0
            /\ restore_counter' = 0
            /\ bk_low_reported' = FALSE
            /\ publish_and_notify(<<"MAIN_LOST">>)

(* The battery check runs after the mains check of the same sample, with   *)
(* the reporting flag the mains check may just have reset.                 *)
OnBattery(v, bk) ==
  LET back == v > MainRestoreV /\ restore_counter + 1 >= Debounce
      full == Len(bus) = QueueLen
      low  == BkLow(bk, bk_low_reported /\ ~back) /\ ~(back /\ full)
      es   == (IF back THEN <<"MAIN_RESTORED">> ELSE <<>>)
                 \o (IF low THEN <<"BK_LOW">> ELSE <<>>)
  IN
  /\ state = "MAIN_LOST"
  /\ state' = IF back THEN "MAIN_OK" ELSE state
  /\ restore_counter' = IF v > MainRestoreV /\ ~back THEN restore_counter + 1 ELSE 0
  /\ lost_counter' = IF v > MainRestoreV THEN 0 ELSE lost_counter
  /\ bk_low_reported' = (low \/ (bk_low_reported /\ ~back))
  /\ publish_and_notify(es)

Grow(run) == IF run < Debounce THEN run + 1 ELSE Debounce

process_sample(v, bk) ==
  /\ latest_sample' = v
  /\ below' = IF v < MainLostV THEN Grow(below) ELSE 0
  /\ above' = IF v > MainRestoreV THEN Grow(above) ELSE 0
  /\ Learn(v) \/ OnMain(v) \/ OnBattery(v, bk)
  /\ UNCHANGED cb

(* One round of monitor_task.  A failed conversion changes nothing and is  *)
(* a stuttering step.                                                      *)
monitor_task == \E v \in MainVolts, bk \in BkVolts : process_sample(v, bk)

net_stub_task ==
  /\ bus # <<>>
  /\ bus' = Tail(bus)
  /\ UNCHANGED <<state, lost_counter, restore_counter, bk_low_reported,
                 latest_sample, cb, told, missed, below, above>>

(* app_logic_init registers on_power_monitor_event while the task runs.    *)
power_monitor_register_callback ==
  /\ ~cb
  /\ cb' = TRUE
  /\ UNCHANGED <<state, lost_counter, restore_counter, bk_low_reported,
                 latest_sample, bus, told, missed, below, above>>

Next == monitor_task \/ net_stub_task \/ power_monitor_register_callback

Spec == Init /\ [][Next]_vars

(* monitor_task samples for ever: when its rounds change nothing any more, *)
(* it is because the reading stays and one more round of it would not.     *)
SamplesForEver ==
  \/ []<><<monitor_task>>_vars
  \/ []<>(\E bk \in BkVolts : ~ENABLED <<process_sample(latest_sample, bk)>>_vars)

(* Both tasks run for ever and the converter keeps answering.              *)
FairSpec == Spec /\ SamplesForEver /\ WF_vars(net_stub_task)

-----------------------------------------------------------------------------
TypeOK ==
  /\ state \in PowerState
  /\ lost_counter \in 0 .. Debounce - 1
  /\ restore_counter \in 0 .. Debounce - 1
  /\ bk_low_reported \in BOOLEAN
  /\ latest_sample \in MainVolts
  /\ bus \in Seq(PowerEvent) /\ Len(bus) <= QueueLen
  /\ cb \in BOOLEAN
  /\ told \in MainEvent \cup {"NONE"}
  /\ missed \in BOOLEAN
  /\ below \in 0 .. Debounce
  /\ above \in 0 .. Debounce

(* The counters of process_sample are the lengths of the current runs:     *)
(* never a remainder of an earlier, interrupted run.                       *)
CountersAreRuns ==
  /\ lost_counter = IF state = "MAIN_OK" THEN below ELSE 0
  /\ restore_counter = IF state = "MAIN_LOST" THEN above ELSE 0

IInv == TypeOK /\ CountersAreRuns

(* A change of the mains is declared only by the sample that ends a run of *)
(* Debounce samples beyond the threshold (power_monitor.c:108-145).        *)
ChangeConfirmed ==
  [][/\ state = "MAIN_OK" /\ state' = "MAIN_LOST" => below' = Debounce
     /\ state = "MAIN_LOST" /\ state' = "MAIN_OK" => above' = Debounce]_vars

(* What app_logic was last told about the mains agrees with the monitor's  *)
(* state unless the last change was lost on a full bus or came before the  *)
(* callback was registered (publish_and_notify's early return).            *)
ToldTheTruth ==
  told # "NONE" /\ ~missed => (told = "MAIN_LOST") = (state = "MAIN_LOST")

(* A mains that stays below the threshold ends up declared lost, and one   *)
(* that stays above ends up declared good, whatever was read before.       *)
LastingStateDeclared ==
  /\ <>[](latest_sample < MainLostV) => <>[](state = "MAIN_LOST")
  /\ <>[](latest_sample > MainRestoreV) => <>[](state = "MAIN_OK")

(* The counters implement the promise stated over runs of samples.         *)
Debounced == INSTANCE SupplyDebounce WITH supply <- state
ImplementsDebounce == Debounced!Spec
=============================================================================
