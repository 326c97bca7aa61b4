------------------------- MODULE PowerMonitorProofs -------------------------
(***************************************************************************)
(* The supply, and the outputs that follow it.                             *)
(*                                                                         *)
(* For every debounce length, bus length and set of voltages: the counters *)
(* of process_sample are the lengths of the current runs of samples, so a  *)
(* change is declared only at the end of a full run, and the monitor       *)
(* implements SupplyDebounce.                                              *)
(*                                                                         *)
(* For every set of tasks that edit the limits: a call of                  *)
(* update_do1_output_state that no other call overlaps leaves the siren    *)
(* and output 1 as the alarm and the supply want them.                     *)
(***************************************************************************)
EXTENDS PowerMonitor, OutputControl, TLAPS

(* What one publication does to the bus and to the listener's knowledge.   *)
LEMMA PublishLemma ==
  ASSUME NEW es \in Seq(PowerEvent), TypeOK, publish_and_notify(es)
  PROVE  /\ bus' \in Seq(PowerEvent) /\ Len(bus') <= QueueLen
         /\ told' \in MainEvent \cup {"NONE"}
         /\ missed' \in BOOLEAN
  <1>1. Accepted(es) \in Seq(PowerEvent) /\ Len(Accepted(es)) <= QueueLen - Len(bus)
    BY QueueAssumption DEF TypeOK, Accepted
  <1>2. bus' \in Seq(PowerEvent) /\ Len(bus') <= QueueLen
    BY <1>1, QueueAssumption DEF TypeOK, publish_and_notify
  <1>3. told' \in MainEvent \cup {"NONE"} /\ missed' \in BOOLEAN
    BY DEF TypeOK, publish_and_notify
  <1> QED BY <1>2, <1>3

(* The inductive step over one sample, by the state it finds.              *)
LEMMA SampleLemma ==
  ASSUME IInv, NEW v \in MainVolts, NEW bk \in BkVolts, process_sample(v, bk)
  PROVE  IInv'
  <1> USE DebounceAssumption, VoltAssumption
  <1>1. latest_sample' \in MainVolts /\ cb' \in BOOLEAN
        /\ below' \in 0 .. Debounce /\ above' \in 0 .. Debounce
    BY DEF IInv, TypeOK, process_sample, Grow
  <1>2. CASE Learn(v)
    BY <1>1, <1>2 DEF IInv, TypeOK, CountersAreRuns, Learn, derive_initial_state,
                      PowerState, process_sample, Grow
  <1>3. CASE OnMain(v)
    <2>1. CASE v >= MainLostV
      BY <1>1, <1>3, <2>1 DEF IInv, TypeOK, CountersAreRuns, OnMain, PowerState,
                              process_sample, Grow
    <2>2. CASE v < MainLostV /\ lost_counter + 1 < Debounce
      BY <1>1, <1>3, <2>2 DEF IInv, TypeOK, CountersAreRuns, OnMain, PowerState,
                              process_sample, Grow
    <2>3. CASE v < MainLostV /\ lost_counter + 1 >= Debounce
      <3>1. publish_and_notify(<<"MAIN_LOST">>)
        BY <1>3, <2>3 DEF OnMain, IInv, TypeOK
      <3>2. <<"MAIN_LOST">> \in Seq(PowerEvent)
        BY DEF PowerEvent, MainEvent
      <3>3. /\ bus' \in Seq(PowerEvent) /\ Len(bus') <= QueueLen
            /\ told' \in MainEvent \cup {"NONE"} /\ missed' \in BOOLEAN
        BY <3>1, <3>2, PublishLemma DEF IInv
      <3>4. /\ state = "MAIN_OK" /\ state' = "MAIN_LOST"
            /\ lost_counter' = 0 /\ restore_counter' = 0 /\ bk_low_reported' = FALSE
        BY <1>3, <2>3 DEF OnMain, IInv, TypeOK
      <3>5. above' = 0
        BY <2>3 DEF process_sample
      <3> QED BY <1>1, <3>3, <3>4, <3>5 DEF IInv, TypeOK, CountersAreRuns, PowerState
    <2> QED BY <2>1, <2>2, <2>3 DEF IInv, TypeOK
  <1>4. CASE OnBattery(v, bk)
    <2> DEFINE back == v > MainRestoreV /\ restore_counter + 1 >= Debounce
               low  == BkLow(bk, bk_low_reported /\ ~back)
                          /\ ~(back /\ Len(bus) = QueueLen)
               es   == (IF back THEN <<"MAIN_RESTORED">> ELSE <<>>)
                          \o (IF low THEN <<"BK_LOW">> ELSE <<>>)
    <2>1. publish_and_notify(es)
      BY <1>4 DEF OnBattery
    <2>2. es \in Seq(PowerEvent)
      <3> HIDE DEF back, low
      <3>1. /\ <<>> \in Seq(PowerEvent)
            /\ <<"MAIN_RESTORED">> \in Seq(PowerEvent)
            /\ <<"BK_LOW">> \in Seq(PowerEvent)
        BY DEF PowerEvent, MainEvent
      <3>2. /\ (IF back THEN <<"MAIN_RESTORED">> ELSE <<>>) \in Seq(PowerEvent)
            /\ (IF low THEN <<"BK_LOW">> ELSE <<>>) \in Seq(PowerEvent)
        BY <3>1, Zenon
      <3>3. \A s, t \in Seq(PowerEvent) : s \o t \in Seq(PowerEvent)
        OBVIOUS
      <3> QED BY <3>2, <3>3 DEF es
    <2>3. /\ bus' \in Seq(PowerEvent) /\ Len(bus') <= QueueLen
          /\ told' \in MainEvent \cup {"NONE"} /\ missed' \in BOOLEAN
      BY <2>1, <2>2, PublishLemma DEF IInv
    <2>4. bk_low_reported' \in BOOLEAN
      BY <1>4 DEF OnBattery
    <2>5. /\ state = "MAIN_LOST" /\ state' = IF back THEN "MAIN_OK" ELSE state
          /\ restore_counter' = IF v > MainRestoreV /\ ~back
                                  THEN restore_counter + 1 ELSE 0
          /\ lost_counter' = IF v > MainRestoreV THEN 0 ELSE lost_counter
      BY <1>4 DEF OnBattery
    <2> HIDE DEF es, low
    <2> QED BY <1>1, <2>3, <2>4, <2>5 DEF IInv, TypeOK, CountersAreRuns, PowerState,
                                          process_sample, Grow
  <1> QED BY <1>2, <1>3, <1>4 DEF process_sample

LEMMA InitLemma == Init => IInv
  <1> SUFFICES ASSUME Init PROVE IInv
    OBVIOUS
  <1>1. bus \in Seq(PowerEvent) /\ Len(bus) <= QueueLen
    <2>1. bus = <<>>
      BY DEF Init
    <2> QED BY <2>1, QueueAssumption
  <1>2. /\ state = "UNKNOWN" /\ lost_counter = 0 /\ restore_counter = 0
        /\ bk_low_reported = FALSE /\ latest_sample \in MainVolts /\ cb = FALSE
        /\ told = "NONE" /\ missed = FALSE /\ below = 0 /\ above = 0
    BY DEF Init
  <1>3. 0 \in 0 .. Debounce - 1 /\ 0 \in 0 .. Debounce
    BY DebounceAssumption
  <1>4. TypeOK
    BY <1>1, <1>2, <1>3 DEF TypeOK, PowerState
  <1>5. CountersAreRuns
    BY <1>2 DEF CountersAreRuns
  <1> QED BY <1>4, <1>5 DEF IInv

LEMMA NextLemma == IInv /\ [Next]_vars => IInv'
  <1> SUFFICES ASSUME IInv, [Next]_vars PROVE IInv'
    OBVIOUS
  <1>1. CASE monitor_task
    BY <1>1, SampleLemma DEF monitor_task
  <1>2. CASE net_stub_task
    <2>1. bus' \in Seq(PowerEvent) /\ Len(bus') <= QueueLen
      BY <1>2, QueueAssumption DEF net_stub_task, IInv, TypeOK
    <2> QED BY <1>2, <2>1 DEF net_stub_task, IInv, TypeOK, CountersAreRuns
  <1>3. CASE power_monitor_register_callback
    BY <1>3 DEF power_monitor_register_callback, IInv, TypeOK, CountersAreRuns
  <1>4. CASE UNCHANGED vars
    BY <1>4 DEF vars, IInv, TypeOK, CountersAreRuns
  <1> QED BY <1>1, <1>2, <1>3, <1>4 DEF Next

(* The variables keep their types and the bus its limit                    *)
(* (power_monitor.c:94-162, event_bus.c:21-44).                            *)
THEOREM TypeCorrect == Spec => []TypeOK
  <1>1. IInv => TypeOK
    BY DEF IInv
  <1> QED BY <1>1, InitLemma, NextLemma, PTL DEF Spec

(* No remainder of an interrupted run is ever counted.                     *)
THEOREM CountersCorrect == Spec => []CountersAreRuns
  <1>1. IInv => CountersAreRuns
    BY DEF IInv
  <1> QED BY <1>1, InitLemma, NextLemma, PTL DEF Spec

(* A change of the mains is declared only by the last sample of a full run.*)
THEOREM ChangeConfirmedCorrect == Spec => ChangeConfirmed
  <1> DEFINE Confirmed == /\ state = "MAIN_OK" /\ state' = "MAIN_LOST" => below' = Debounce
                          /\ state = "MAIN_LOST" /\ state' = "MAIN_OK" => above' = Debounce
  <1>1. IInv /\ [Next]_vars => [Confirmed]_vars
    <2> SUFFICES ASSUME IInv, Next PROVE Confirmed
      BY DEF vars
    <2> USE DebounceAssumption, VoltAssumption
    <2>1. ASSUME NEW v \in MainVolts, NEW bk \in BkVolts, process_sample(v, bk)
          PROVE  Confirmed
      <3>1. CASE Learn(v)
        BY <3>1 DEF Learn
      <3>2. CASE OnMain(v)
        BY <2>1, <3>2 DEF OnMain, IInv, TypeOK, CountersAreRuns, process_sample, Grow
      <3>3. CASE OnBattery(v, bk)
        BY <2>1, <3>3 DEF OnBattery, IInv, TypeOK, CountersAreRuns, process_sample, Grow
      <3> QED BY <2>1, <3>1, <3>2, <3>3 DEF process_sample
    <2> QED BY <2>1 DEF Next, monitor_task, net_stub_task,
                        power_monitor_register_callback
  <1> QED BY <1>1, InitLemma, NextLemma, PTL DEF Spec, ChangeConfirmed

(* The first event of a sample, seen by the listener or marked as missed.  *)
LEMMA HeardLemma ==
  ASSUME NEW es \in Seq(PowerEvent), es # <<>>, es[1] \in MainEvent,
         publish_and_notify(es)
  PROVE  missed' \/ told' = es[1]
  BY DEF publish_and_notify

(* Nobody is told anything before the mains is known.                      *)
ToldInv == ToldTheTruth /\ (state = "UNKNOWN" => told = "NONE")

LEMMA ToldLemma == IInv /\ ToldInv /\ [Next]_vars => ToldInv'
  <1> SUFFICES ASSUME IInv, ToldInv, [Next]_vars PROVE ToldInv'
    OBVIOUS
  <1>1. ASSUME NEW v \in MainVolts, NEW bk \in BkVolts, process_sample(v, bk)
        PROVE  ToldInv'
    <2>1. CASE Learn(v)
      BY <2>1 DEF Learn, ToldInv, ToldTheTruth
    <2>2. CASE OnMain(v)
      <3>1. CASE state' = state /\ told' = told /\ missed' = missed
        BY <3>1 DEF ToldInv, ToldTheTruth
      <3>2. CASE state' = "MAIN_LOST" /\ publish_and_notify(<<"MAIN_LOST">>)
        <4>1. <<"MAIN_LOST">> \in Seq(PowerEvent) /\ <<"MAIN_LOST">>[1] \in MainEvent
          BY DEF PowerEvent, MainEvent
        <4>2. missed' \/ told' = "MAIN_LOST"
          BY <3>2, <4>1, HeardLemma
        <4> QED BY <3>2, <4>2 DEF ToldInv, ToldTheTruth
      <3> QED BY <2>2, <3>1, <3>2 DEF OnMain
    <2>3. CASE OnBattery(v, bk)
      <3> DEFINE back == v > MainRestoreV /\ restore_counter + 1 >= Debounce
                 low  == BkLow(bk, bk_low_reported /\ ~back)
                            /\ ~(back /\ Len(bus) = QueueLen)
                 tail == IF low THEN <<"BK_LOW">> ELSE <<>>
                 es   == (IF back THEN <<"MAIN_RESTORED">> ELSE <<>>) \o tail
      <3>1. publish_and_notify(es) /\ state = "MAIN_LOST"
            /\ state' = IF back THEN "MAIN_OK" ELSE state
        BY <2>3 DEF OnBattery
      <3>2. tail \in Seq(PowerEvent) /\ (tail = <<>> \/ tail = <<"BK_LOW">>)
        <4>1. <<>> \in Seq(PowerEvent) /\ <<"BK_LOW">> \in Seq(PowerEvent)
          BY DEF PowerEvent
        <4>2. tail = <<>> \/ tail = <<"BK_LOW">>
          OBVIOUS
        <4> QED BY <4>1, <4>2
      <3> HIDE DEF back, low, tail
      <3>3. CASE back
        <4>1. /\ <<"MAIN_RESTORED">> \in Seq(PowerEvent)
              /\ <<"MAIN_RESTORED">> \o tail \in Seq(PowerEvent)
              /\ <<"MAIN_RESTORED">> \o tail # <<>>
              /\ (<<"MAIN_RESTORED">> \o tail)[1] = "MAIN_RESTORED"
          BY <3>2 DEF PowerEvent, MainEvent
        <4>2. missed' \/ told' = "MAIN_RESTORED"
          BY <3>1, <3>3, <4>1, HeardLemma DEF MainEvent
        <4> QED BY <3>1, <3>3, <4>2 DEF ToldInv, ToldTheTruth
      <3>4. CASE ~back
        <4>1. es = tail
          BY <3>2, <3>4
        <4>2. es = <<>> \/ es[1] \notin MainEvent
          BY <3>2, <4>1 DEF MainEvent
        <4>3. told' = told /\ missed' = missed
          BY <3>1, <4>2 DEF publish_and_notify
        <4> QED BY <3>1, <3>4, <4>3 DEF ToldInv, ToldTheTruth
      <3> QED BY <3>3, <3>4
    <2> QED BY <1>1, <2>1, <2>2, <2>3 DEF process_sample
  <1>2. CASE net_stub_task
    BY <1>2 DEF net_stub_task, ToldInv, ToldTheTruth
  <1>3. CASE power_monitor_register_callback
    BY <1>3 DEF power_monitor_register_callback, ToldInv, ToldTheTruth
  <1>4. CASE UNCHANGED vars
    BY <1>4 DEF vars, ToldInv, ToldTheTruth
  <1> QED BY <1>1, <1>2, <1>3, <1>4 DEF Next, monitor_task

(* What the listener was last told agrees with the monitor unless the last *)
(* change never reached it (power_monitor.c:68-92).                        *)
THEOREM ToldCorrect == Spec => []ToldTheTruth
  <1>1. Init => ToldInv
    BY DEF Init, ToldInv, ToldTheTruth
  <1>2. ToldInv => ToldTheTruth
    BY DEF ToldInv
  <1> QED BY <1>1, <1>2, InitLemma, NextLemma, ToldLemma, PTL DEF Spec

(* The step simulation: the counters decide exactly as the runs would.     *)
LEMMA SimulationLemma == IInv /\ [Next]_vars => [Debounced!Next]_(Debounced!vars)
  <1> SUFFICES ASSUME IInv, [Next]_vars
               PROVE  [Debounced!Next]_(Debounced!vars)
    OBVIOUS
  <1> USE DebounceAssumption, VoltAssumption
  <1>1. ASSUME NEW v \in MainVolts, NEW bk \in BkVolts, process_sample(v, bk)
        PROVE  Debounced!Sample
    <2> DEFINE kind == IF v < MainLostV THEN "low"
                       ELSE IF v > MainRestoreV THEN "high" ELSE "band"
    <2>0. v \in Int /\ kind \in {"low", "band", "high"}
      OBVIOUS
    <2>1. Debounced!Measure(kind)
      BY <1>1 DEF process_sample, Grow, Debounced!Measure, Debounced!Grow
    <2>2. ASSUME Learn(v) PROVE Debounced!Learn(kind)
      BY <2>0, <2>2 DEF Learn, derive_initial_state, Debounced!Learn
    <2>3. ASSUME OnMain(v)
          PROVE  Debounced!Change("MAIN_OK", "MAIN_LOST", below', "MAIN_LOST")
      <3>1. state = "MAIN_OK"
        BY <2>3 DEF OnMain
      <3>2. CASE v < MainLostV /\ lost_counter + 1 >= Debounce
        <4>1. state' = "MAIN_LOST" /\ publish_and_notify(<<"MAIN_LOST">>)
          BY <2>0, <2>3, <3>2 DEF OnMain, IInv, TypeOK
        <4>2. told' \in {told, "MAIN_LOST"}
          BY <4>1 DEF publish_and_notify, MainEvent
        <4>3. below' = Debounce
          BY <1>1, <3>1, <3>2 DEF IInv, TypeOK, CountersAreRuns, process_sample, Grow
        <4> QED BY <3>1, <4>1, <4>2, <4>3 DEF Debounced!Change
      <3>3. CASE ~(v < MainLostV /\ lost_counter + 1 >= Debounce)
        <4>1. state' = state /\ told' = told
          BY <2>0, <2>3, <3>3 DEF OnMain, IInv, TypeOK
        <4>2. below' # Debounce
          BY <1>1, <2>0, <3>1, <3>3 DEF IInv, TypeOK, CountersAreRuns, process_sample, Grow
        <4> QED BY <3>1, <4>1, <4>2 DEF Debounced!Change
      <3> QED BY <3>2, <3>3
    <2>4. ASSUME OnBattery(v, bk)
          PROVE  Debounced!Change("MAIN_LOST", "MAIN_OK", above', "MAIN_RESTORED")
      <3> DEFINE back == v > MainRestoreV /\ restore_counter + 1 >= Debounce
                 low  == BkLow(bk, bk_low_reported /\ ~back)
                            /\ ~(back /\ Len(bus) = QueueLen)
                 tail == IF low THEN <<"BK_LOW">> ELSE <<>>
                 es   == (IF back THEN <<"MAIN_RESTORED">> ELSE <<>>) \o tail
      <3>1. publish_and_notify(es) /\ state = "MAIN_LOST"
            /\ state' = IF back THEN "MAIN_OK" ELSE state
        BY <2>4 DEF OnBattery
      <3>2. back = (above' = Debounce)
        BY <1>1, <2>0, <3>1 DEF IInv, TypeOK, CountersAreRuns, process_sample, Grow
      <3>3. <<>> \in Seq(PowerEvent) /\ <<"BK_LOW">> \in Seq(PowerEvent)
        BY DEF PowerEvent
      <3>4. tail = <<>> \/ tail = <<"BK_LOW">>
        OBVIOUS
      <3> HIDE DEF back, low, tail
      <3>5. CASE back
        <4>1. es[1] = "MAIN_RESTORED"
          BY <3>3, <3>4, <3>5
        <4>2. told' \in {told, "MAIN_RESTORED"}
          BY <3>1, <4>1 DEF publish_and_notify
        <4> QED BY <3>1, <3>2, <3>5, <4>2 DEF Debounced!Change
      <3>6. CASE ~back
        <4>1. es = <<>> \/ es[1] \notin MainEvent
          BY <3>3, <3>4, <3>6 DEF MainEvent
        <4>2. told' = told
          BY <3>1, <4>1 DEF publish_and_notify
        <4> QED BY <3>1, <3>2, <3>6, <4>2 DEF Debounced!Change
      <3> QED BY <3>5, <3>6
    <2> QED BY <1>1, <2>0, <2>1, <2>2, <2>3, <2>4 DEF process_sample, Debounced!Sample
  <1>2. CASE net_stub_task
    BY <1>2 DEF net_stub_task, Debounced!vars
  <1>3. CASE power_monitor_register_callback
    BY <1>3 DEF power_monitor_register_callback, Debounced!vars
  <1>4. CASE UNCHANGED vars
    BY <1>4 DEF vars, Debounced!vars
  <1> QED BY <1>1, <1>2, <1>3, <1>4 DEF Next, monitor_task, Debounced!Next

(* The monitor keeps the promise of SupplyDebounce for every debounce      *)
(* length, bus length and set of voltages.                                 *)
THEOREM Implementation == Spec => ImplementsDebounce
  <1>1. Init => Debounced!Init
    BY DEF Init, Debounced!Init
  <1> QED BY <1>1, InitLemma, NextLemma, SimulationLemma, PTL
          DEF Spec, ImplementsDebounce, Debounced!Spec

-----------------------------------------------------------------------------
(* The outputs *)

(* Every variable of OutputControl keeps its type.                         *)
OutputsTypes ==
  /\ alarm_active \in BOOLEAN /\ lost \in BOOLEAN /\ alone \in BOOLEAN
  /\ pc \in [Tasks -> {"idle", "supply", "decide", "load", "store", "send"}
                                \X {"both", "DO1", "DO2"}]
  /\ saw_lost \in [Tasks -> BOOLEAN] /\ want \in [Tasks -> BOOLEAN]
  /\ byte \in [Tasks -> SUBSET Pins]
  /\ output_state \in SUBSET Pins /\ port \in SUBSET Pins

(* What the outputs should be, by the state of now.                        *)
Wanted == alarm_active \/ lost

(* The pin p of a byte, the shadow register or the port is as wanted.      *)
Has(pins, p) == p \in pins <=> Wanted

(* What a call that nothing overlaps has done so far: the supply it read   *)
(* and what it decided are those of now, and the pins it has treated are   *)
(* as wanted in its byte and in the shadow register.                       *)
CallOf(t) ==
  /\ pc[t] = decide => (saw_lost[t] <=> lost)
  /\ pc[t][1] \in {"load", "store", "send"} => (want[t] <=> Wanted)
  /\ pc[t] \in {<<"store", "DO1">>, <<"send", "DO1">>} => Has(byte[t], "DO1")
  /\ pc[t] = <<"send", "DO1">> => output_state = byte[t]
  /\ pc[t] = <<"load", "DO2">> => Has(output_state, "DO1")
  /\ pc[t] \in {<<"store", "DO2">>, <<"send", "DO2">>} =>
       Has(byte[t], "DO1") /\ Has(byte[t], "DO2")

(* While no call overlapped the last one, at most one task is in a call,   *)
(* and between calls the port is as wanted.                                *)
LoneInv ==
  alone => /\ \A t \in Tasks : ~Idle(t) =>
                /\ CallOf(t)
                /\ \A u \in Tasks : u # t => Idle(u)
           /\ Quiet => Has(port, "DO1") /\ Has(port, "DO2")

(* No step of a task takes a variable out of its type.                     *)
LEMMA OutputsTypesStep == OutputsTypes /\ [OutputsNext]_outputs => OutputsTypes'
  <1> SUFFICES ASSUME OutputsTypes, [OutputsNext]_outputs PROVE OutputsTypes'
    OBVIOUS
  <1> USE DEF OutputsTypes
  <1>1. ASSUME NEW t \in Tasks, Call(t), alarm_active' \in BOOLEAN, lost' \in BOOLEAN
        PROVE  OutputsTypes'
    <2>1. alone' \in BOOLEAN
      BY <1>1, Zenon DEF Call, Quiet
    <2> QED BY <1>1, <2>1 DEF Call, supply
  <1>2. CASE \E t \in AlarmTasks : ChangeAlarm(t)
    BY <1>1, <1>2 DEF ChangeAlarm, Tasks
  <1>3. CASE ChangeSupply
    BY <1>1, <1>3 DEF ChangeSupply, Tasks
  <1>4. ASSUME NEW t \in Tasks, update_do1_output_state(t) PROVE OutputsTypes'
    <2>1. CASE ReadSupply(t)
      BY <2>1 DEF ReadSupply, At, decide
    <2>2. CASE Decide(t)
      BY <2>2 DEF Decide, At
    <2>3. ASSUME NEW p \in Pins, Load(t, p) PROVE OutputsTypes'
      BY <2>3 DEF Load, At, Pins
    <2>4. ASSUME NEW p \in Pins, Store(t, p) PROVE OutputsTypes'
      BY <2>4 DEF Store, At, Pins
    <2>5. ASSUME NEW p \in Pins, Send(t, p) PROVE OutputsTypes'
      BY <2>5 DEF Send, At, Pins, idle
    <2> QED BY <1>4, <2>1, <2>2, <2>3, <2>4, <2>5
            DEF update_do1_output_state, tca9555_write_pin
  <1>5. CASE UNCHANGED outputs
    BY <1>5 DEF outputs
  <1> QED BY <1>2, <1>3, <1>4, <1>5 DEF OutputsNext

(* A call that begins is alone only if every task was idle.                *)
LEMMA LoneCalls ==
  ASSUME LoneInv, NEW t \in Tasks, OutputsTypes, Call(t)
  PROVE  LoneInv'
  <1>1. alone' = Quiet /\ pc' = [pc EXCEPT ![t] = supply]
    BY DEF Call
  <1>2. pc'[t] = <<"supply", "both">> /\ \A u \in Tasks : u # t => pc'[u] = pc[u]
    BY <1>1 DEF OutputsTypes, supply
  <1>3. CallOf(t)'
    BY <1>2 DEF CallOf, decide
  <1> SUFFICES ASSUME alone' PROVE /\ \A u \in Tasks : u # t => pc'[u] = idle
                                   /\ pc'[t] # idle
    BY <1>3 DEF LoneInv, Quiet, Idle
  <1>4. Quiet
    BY <1>1, Zenon
  <1> QED BY <1>2, <1>4 DEF Quiet, Idle, idle, supply

(* A step inside a call: it is enough that it keeps what that call has     *)
(* done, or leaves the port as wanted when it is the last one.             *)
LEMMA LoneStep ==
  ASSUME LoneInv, OutputsTypes, NEW t \in Tasks, NEW here, NEW there,
         At(t, here, there), here # idle,
         CallOf(t) => IF there = idle THEN Has(port, "DO1")' /\ Has(port, "DO2")'
                                            ELSE CallOf(t)'
  PROVE  LoneInv'
  <1>1. pc[t] = here /\ pc'[t] = there /\ (\A u \in Tasks : u # t => pc'[u] = pc[u])
        /\ alone' = alone
    BY DEF At, OutputsTypes
  <1> SUFFICES ASSUME alone
               PROVE  /\ \A s \in Tasks : pc'[s] # idle =>
                          CallOf(s)' /\ \A u \in Tasks : u # s => pc'[u] = idle
                      /\ (\A s \in Tasks : pc'[s] = idle)
                           => Has(port, "DO1")' /\ Has(port, "DO2")'
    BY <1>1 DEF LoneInv, Quiet, Idle
  <1>2. CallOf(t) /\ \A u \in Tasks : u # t => pc[u] = idle
    BY <1>1 DEF LoneInv, Idle
  <1> QED BY <1>1, <1>2

(* Every step keeps the invariant, one case for each part of the function. *)
LEMMA LoneInvStep == LoneInv /\ OutputsTypes /\ [OutputsNext]_outputs => LoneInv'
  <1> SUFFICES ASSUME LoneInv, OutputsTypes, [OutputsNext]_outputs PROVE LoneInv'
    OBVIOUS
  <1>1. CASE ChangeSupply \/ \E t \in AlarmTasks : ChangeAlarm(t)
    BY <1>1, LoneCalls DEF ChangeAlarm, ChangeSupply, Tasks
  <1>2. ASSUME NEW t \in Tasks, update_do1_output_state(t) PROVE LoneInv'
    <2> USE DEF CallOf, Has, Wanted, idle, supply, decide
    <2>1. CASE ReadSupply(t)
      <3>1. At(t, supply, decide) /\ saw_lost'[t] = lost /\ lost' = lost
            /\ pc'[t] = <<"decide", "both">>
        BY <2>1 DEF ReadSupply, At, OutputsTypes
      <3> QED BY <3>1, LoneStep
    <2>2. CASE Decide(t)
      <3>1. /\ At(t, decide, <<"load", "DO1">>)
            /\ pc[t] = <<"decide", "both">> /\ pc'[t] = <<"load", "DO1">>
            /\ lost' = lost /\ alarm_active' = alarm_active
        BY <2>2 DEF Decide, At, OutputsTypes
      <3>2. want'[t] <=> alarm_active \/ saw_lost[t]
        <4> DEFINE decided == alarm_active \/ saw_lost[t]
        <4>1. want'[t] = decided
          BY <2>2 DEF Decide, OutputsTypes
        <4> QED BY <4>1, Zenon
      <3>3. CallOf(t) => CallOf(t)'
        BY <3>1, <3>2
      <3> QED BY <3>1, <3>3, LoneStep
    <2>3. ASSUME NEW p \in Pins, Load(t, p) PROVE LoneInv'
      <3>1. /\ At(t, <<"load", p>>, <<"store", p>>)
            /\ pc[t] = <<"load", p>> /\ pc'[t] = <<"store", p>>
            /\ UNCHANGED <<alarm_active, lost, want>>
            /\ byte'[t] = IF want[t] THEN output_state \cup {p} ELSE output_state \ {p}
        BY <2>3 DEF Load, At, OutputsTypes
      <3>2. CallOf(t) => CallOf(t)'
        BY <3>1 DEF Pins
      <3> QED BY <3>1, <3>2, LoneStep
    <2>4. ASSUME NEW p \in Pins, Store(t, p) PROVE LoneInv'
      <3>1. /\ At(t, <<"store", p>>, <<"send", p>>)
            /\ pc[t] = <<"store", p>> /\ pc'[t] = <<"send", p>>
            /\ UNCHANGED <<alarm_active, lost, want, byte>> /\ output_state' = byte[t]
        BY <2>4 DEF Store, At, OutputsTypes
      <3>2. CallOf(t) => CallOf(t)'
        BY <3>1 DEF Pins
      <3> QED BY <3>1, <3>2, LoneStep
    <2>5. ASSUME NEW p \in Pins, Send(t, p) PROVE LoneInv'
      <3>1. /\ At(t, <<"send", p>>, IF p = "DO1" THEN <<"load", "DO2">> ELSE idle)
            /\ pc[t] = <<"send", p>>
            /\ pc'[t] = (IF p = "DO1" THEN <<"load", "DO2">> ELSE idle)
            /\ UNCHANGED <<alarm_active, lost, want, byte, output_state>>
            /\ port' = byte[t]
        BY <2>5 DEF Send, At, OutputsTypes
      <3>2. CASE p = "DO1"
        <4>1. CallOf(t) => CallOf(t)'
          BY <3>1, <3>2
        <4> QED BY <3>1, <3>2, <4>1, LoneStep
      <3>3. CASE p = "DO2"
        <4>1. CallOf(t) => Has(port, "DO1")' /\ Has(port, "DO2")'
          BY <3>1, <3>3
        <4> QED BY <3>1, <3>3, <4>1, LoneStep
      <3> QED BY <3>2, <3>3 DEF Pins
    <2> QED BY <1>2, <2>1, <2>2, <2>3, <2>4, <2>5
            DEF update_do1_output_state, tca9555_write_pin
  <1>3. CASE UNCHANGED outputs
    BY <1>3 DEF outputs, LoneInv, CallOf, Has, Wanted, Quiet, Idle
  <1> QED BY <1>1, <1>2, <1>3 DEF OutputsNext

(* A call that no other call overlaps leaves both outputs as the alarm and *)
(* the supply want them, whatever a collision before it left in the shadow *)
(* register, for every set of tasks that edit the limits                   *)
(* (app_logic.c:885-902).                                                  *)
THEOREM LoneCallCorrect == OutputsSpec => []LoneCallSetsOutputs
  <1>1. OutputsInit => OutputsTypes /\ LoneInv
    <2> SUFFICES ASSUME OutputsInit PROVE OutputsTypes /\ LoneInv
      OBVIOUS
    <2>1. /\ alarm_active = FALSE /\ lost = FALSE /\ alone = TRUE
          /\ output_state = {} /\ port = {}
          /\ pc = [t \in Tasks |-> <<"idle", "both">>]
          /\ saw_lost = [t \in Tasks |-> FALSE] /\ want = [t \in Tasks |-> FALSE]
          /\ byte = [t \in Tasks |-> {}]
      BY DEF OutputsInit, idle
    <2>2. OutputsTypes
      BY <2>1 DEF OutputsTypes
    <2>3. \A t \in Tasks : Idle(t)
      BY <2>1 DEF Idle, idle
    <2>4. Has(port, "DO1") /\ Has(port, "DO2")
      BY <2>1 DEF Has, Wanted
    <2> QED BY <2>2, <2>3, <2>4 DEF LoneInv
  <1>2. OutputsTypes /\ LoneInv => LoneCallSetsOutputs
    <2> SUFFICES ASSUME OutputsTypes, LoneInv, Quiet, alone
                 PROVE  port = IF alarm_active \/ lost THEN Pins ELSE {}
      BY DEF LoneCallSetsOutputs
    <2>1. port \subseteq {"DO1", "DO2"} /\ Has(port, "DO1") /\ Has(port, "DO2")
      BY DEF OutputsTypes, LoneInv, Pins
    <2> QED BY <2>1 DEF Has, Wanted, Pins
  <1> QED BY <1>1, <1>2, OutputsTypesStep, LoneInvStep, PTL DEF OutputsSpec
=============================================================================
