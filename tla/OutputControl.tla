---------------------------- MODULE OutputControl ----------------------------
(***************************************************************************)
(* The siren and output 1: every task that changes the alarm or the supply *)
(* calls update_do1_output_state afterwards, which computes what both      *)
(* outputs should be and writes them one by one through the shadow         *)
(* register of the TCA9555 expander.  publish_task raises and ends alarms, *)
(* the power monitor's callback follows the mains, and an edit of the      *)
(* limits (modem_task for an SMS, the cloud task for a web update) raises  *)
(* or ends an alarm at once.  Nothing is locked; only a single transfer on *)
(* the I2C bus is atomic.  Failed transfers are left out.                  *)
(***************************************************************************)
EXTENDS Naturals

CONSTANT LimitTasks   \* the tasks that may edit the limits

ASSUME TaskAssumption == LimitTasks \subseteq {"modem", "cloud"}

AlarmTasks == {"publish"} \cup LimitTasks
Tasks == {"monitor"} \cup AlarmTasks
Pins == {"DO1", "DO2"}

(* Where a task stands in update_do1_output_state; for each pin in turn,   *)
(* tca9555_write_pin loads the shadow byte, stores it and sends it.        *)
idle == <<"idle", "both">>
supply == <<"supply", "both">>
decide == <<"decide", "both">>

VARIABLES
  alarm_active,   \* s_alarm_active
  lost,           \* g_pm.state is POWER_STATE_MAIN_LOST
  pc,             \* where each task stands
  saw_lost,       \* power_lost, the task's copy of the supply state
  want,           \* do1_should_on and do2_should_on
  byte,           \* the pins that are set in the byte the task computed
  output_state,   \* the pins that are set in the shadow byte
  port,           \* the pins the expander drives
  alone           \* history: no call overlapped the last one

outputs == <<alarm_active, lost, pc, saw_lost, want, byte, output_state, port, alone>>

Idle(t) == pc[t] = idle
Quiet == \A t \in Tasks : Idle(t)

(* As app_logic_init leaves it, with the outputs off.  A supply that is    *)
(* still unknown is the matter of PowerNotify.                             *)
OutputsInit ==
  /\ alarm_active = FALSE /\ lost = FALSE
  /\ pc = [t \in Tasks |-> idle]
  /\ saw_lost = [t \in Tasks |-> FALSE] /\ want = [t \in Tasks |-> FALSE]
  /\ byte = [t \in Tasks |-> {}]
  /\ output_state = {} /\ port = {} /\ alone = TRUE

-----------------------------------------------------------------------------
(* Task t has changed what the outputs depend on and calls                 *)
(* update_do1_output_state.                                                *)
Call(t) == /\ Idle(t)
           /\ pc' = [pc EXCEPT ![t] = supply]
           /\ alone' = Quiet
           /\ UNCHANGED <<saw_lost, want, byte, output_state, port>>

(* An alarm begins or ends, in publish_task or by an edit of the limits.   *)
ChangeAlarm(t) == Call(t) /\ alarm_active' = ~alarm_active /\ UNCHANGED lost

(* process_sample sets the state and goes for the callback.                *)
ChangeSupply == Call("monitor") /\ lost' = ~lost /\ UNCHANGED alarm_active

At(t, here, there) == /\ pc[t] = here
                      /\ pc' = [pc EXCEPT ![t] = there]
                      /\ UNCHANGED <<alarm_active, lost, alone>>

(* power_monitor_get_latest                                                *)
ReadSupply(t) ==
  /\ At(t, supply, decide)
  /\ saw_lost' = [saw_lost EXCEPT ![t] = lost]
  /\ UNCHANGED <<want, byte, output_state, port>>

(* Mutated: the outputs follow the alarm alone.                            *)
Decide_AlarmOnly(t) ==
  /\ At(t, decide, <<"load", "DO1">>)
  /\ want' = [want EXCEPT ![t] = alarm_active]
  /\ UNCHANGED <<saw_lost, byte, output_state, port>>

Decide(t) ==
  /\ At(t, decide, <<"load", "DO1">>)
  /\ want' = [want EXCEPT ![t] = alarm_active \/ saw_lost[t]]
  /\ UNCHANGED <<saw_lost, byte, output_state, port>>

Load(t, p) ==
  /\ At(t, <<"load", p>>, <<"store", p>>)
  /\ byte' = [byte EXCEPT ![t] = IF want[t] THEN output_state \cup {p}
                                            ELSE output_state \ {p}]
  /\ UNCHANGED <<saw_lost, want, output_state, port>>

Store(t, p) ==
  /\ At(t, <<"store", p>>, <<"send", p>>)
  /\ output_state' = byte[t]
  /\ UNCHANGED <<saw_lost, want, byte, port>>

Send(t, p) ==
  /\ At(t, <<"send", p>>, IF p = "DO1" THEN <<"load", "DO2">> ELSE idle)
  /\ port' = byte[t]
  /\ UNCHANGED <<saw_lost, want, byte, output_state>>

tca9555_write_pin(t, p) == Load(t, p) \/ Store(t, p) \/ Send(t, p)

update_do1_output_state(t) ==
  ReadSupply(t) \/ Decide(t) \/ \E p \in Pins : tca9555_write_pin(t, p)

OutputsNext ==
  \/ \E t \in AlarmTasks : ChangeAlarm(t)
  \/ ChangeSupply
  \/ \E t \in Tasks : update_do1_output_state(t)

OutputsSpec == OutputsInit /\ [][OutputsNext]_outputs

-----------------------------------------------------------------------------
(* "Coi ON, Output 1 ON" in an alarm or an outage, off otherwise: a call   *)
(* that no other call overlaps leaves both outputs as they should be,      *)
(* whatever a collision before it did to the shadow byte and the port      *)
(* (app_logic.c:885-902).                                                  *)
LoneCallSetsOutputs ==
  Quiet /\ alone => port = IF alarm_active \/ lost THEN Pins ELSE {}
=============================================================================
