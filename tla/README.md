# A formal model of the VN2511 environment monitor

The firmware under `src/` watches temperature, humidity and the mains of a
site, drives a siren and an output, and tells up to five phone numbers and a
server what happens. It runs on an ESP32 (two cores, FreeRTOS, preemptive
priorities) and reaches its server over Ethernet, WiFi or 4G. This directory
holds TLA+ modules translated from that source, TLC configurations that check
them on small instances, and proofs checked by the TLA+ proof system.

## 1. The system

### 1.1 Components, state, operations

| component (src/components) | state it keeps | operations | modelled |
|---|---|---|---|
| power_monitor | mains state, two debounce counters, low-battery flag, event bus, callback | one sample per second; publish an event; register the callback; drain the bus | `PowerMonitor`, `SupplyDebounce` |
| app_logic: alarms | alarm flags per channel, new/restore/sms/call flags, notification counts, time stamps, job flags | pass of publish_task every 500 ms; limit updates; modem_task and its inbox poll | `AlarmNotify` |
| app_logic: outage | outage and return flags, reminder count, time stamps | boot check, monitor callback, texts, call, reminder | `PowerNotify` |
| app_logic + tca9555: outputs | shadow register, driven port | update_do1_output_state from every task that changes an alarm or the supply | `OutputControl` |
| app_logic: sensor faults | fault state, confirmation counters, text flags, server event | sample, texts, reports, server event | `SensorFault` |
| net_manager | mode, active uplink, address flags, deadlines | address events, deadlines, start of each uplink, portal; start and stop of MQTT | `NetManager`, `MqttSession` |
| modem_service | PPP state, address bit, CS session, restart request | dial, hang up, power cycle, text, call, inbox | `ModemService` |
| mqtt_service | client handle, started, connecting, connected | start, stop, event handler; publish | `MqttSession`, `ClientLife` (all but publish) |
| app_recovery | watchdog times, busy flags, requested restart | pass every second, events | `Recovery` |
| wifi_service, ethernet_service, provision_service, system_supervisor, app_events | link, retries, access point, button | driver events, portal, default event loop | as `NetManager`, `MqttSession` and `Recovery` meet them |
| sms_command, config_sync, cloud_cmd_task | none beyond the configuration | SET commands, HUM_ON/OFF, limits, server commands | their effect in `AlarmNotify`, `SensorFault`, `Recovery` |
| runtime_config, daily text, telemetry | configuration in NVS; day of the last text | load, save; text at 07h; publish | not modelled (section 5) |
| sd_logger, gps_service, display, clock, sensor drivers, board, diagnostics, OTA, W5500, legacy_ec800 | snapshots and registers | input and output | not modelled (section 5) |

### 1.2 Interaction

* `publish_task` (priority 8) samples the sensors and runs all `process_*` functions in a
  fixed order every 500 ms. `modem_task` (priority 7) takes one job at a time from
  `s_modem_queue`; a text or call takes seconds to minutes, and its result goes into
  flags that `publish_task` also reads and writes. `monitor_task` (priority 5) calls
  `on_power_monitor_event` in its own context.
* The **default event loop** is one task that runs the handlers of net_manager,
  app_recovery and modem_service in turn. The cloud's commands change the
  configuration in a task of their own (`cloud_cmd_task`). Services
  post to it; a handler that stops a link posts to the queue it is served from.
* **net_manager's task** looks at its deadlines every 250 ms, starts MQTT, and dials,
  which blocks it for up to a minute. Another task opens the configuration **portal**.
* **app_recovery's task** makes a pass every second and restarts the chip in the end.
* The **MQTT client** runs its callbacks in a task of its own.

Only the CS sessions of the modem are serialised (`s_cs_op_lock`). mqtt_service
guards single accesses (`s_lock`). None of the other `s_*` flags is locked and the tasks
have no core affinity: any two steps of different tasks may interleave.

### 1.3 What is hard, and what has to hold

* **Lost, stale and repeated notifications.** A report of a text reaches flags
  that stand for a later alarm; retries, reminders, a full queue and edits of
  the numbers interleave. A flag must stand for a live job, an alarm is told
  neither never nor too often, and things come to rest afterwards.
* **Test, then write.** modem_task tests flags and writes others; publish_task
  reads the supply and acts later; three tasks write one shadow byte.
* **Debounce and confirmation.** Interrupted runs must not add up.
* **Choice of the uplink.** Addresses come and go while deadlines run and a dial is under
  way. 4G must serve only where nothing better does, and the manager must not come
  to rest without a network.
* **Owners.** Four tasks stop one MQTT client and one of them starts it: each client has to be
  destroyed once, by one of them.
* **One line for two purposes.** The modem carries PPP or takes commands. A session must end
  and what is shown of PPP must be true or be corrected.
* **Watchdogs.** A restart that waits while the unit is busy must be forgotten when its reason
  is gone and not before.

`PROJECT.json` lists the hazards at their lines, with the properties that cover
them.

## 2. Modules

Conventions: definitions keep the names of the C functions where there is one.
An action is one function of a task's loop or one event handled, or a part of it
where another task may cut in. A pending/sent pair of flags that every writer writes together is one
value (`idle`, `wanted`, `sent`). A time stamp of app_logic is its age: `recent` while the delay it
starts runs, `due` afterwards (a stamp of 0 is `due` where it allows a try at once and
`unset` where it stands for "not running"). A deadline of net_manager is armed or not, and an armed one may be
due at any time. A comment "Mutated" marks a version of a definition with a
plausible bug, used to test that the properties notice it; it is part of no
specification. Variables marked history or auxiliary record what happened and influence nothing.

### SupplyDebounce (abstract) and PowerMonitor

`SupplyDebounce` says what a debounced supply is: the state may change only
when a run of `Debounce` samples beyond a threshold ends. `PowerMonitor`
translates `power_monitor.c`, `event_bus.c` and `net_stub.c`: `process_sample`
(`Learn`, `OnMain`, `OnBattery`), `publish_and_notify` with its early return on a
full bus, the callback's registration, and the bus's consumer. Sequence numbers,
time stamps and logs are left out; a failed conversion changes nothing. The
refinement maps the supply to `state`; the runs are history variables.

### AlarmNotify

The alarm pass of `publish_task` in code order: `sample_sensors` (and what HUM_OFF
clears there), `process_alarm_logic` (with
`check_new_alarm_causes_and_queue_notify` and
`check_individual_restore_and_queue_sms`), `process_alarm_reminder`,
`process_alarm_sms`, `process_alarm_restored_sms`, `process_alarm_call`, the request for an inbox
poll (`process_incoming_sms_commands`, only while the modem is idle); and
`modem_task`. A text ends as `sent` (every number got it), `failed` or `skipped` (no number to write to), and the settings have
no number, the one that is called too, or only others (`Numbers`). `Restart` is the restart of the chip when a poll finds the modem busy for
more than a minute: everything but the settings is forgotten. `LimitUpdate` is `trigger_alarm_immediately_after_limit_update_internal`,
one step that may come between any two functions of the pass. A reading is the zone it falls in (beyond a limit, inside the
hysteresis band, normal, invalid). A function of publish_task is one step; the report of
modem_task is two, its tests (`TestJob`) and the writes they decide
(`CloseJob`); with `Preempt` publish_task may run in between. `texts` (history) says how often an alarm went out to every number, and `carried` (history) counts the texts without
a flag that a new alarm found in the queue. `s_alarm_restored_sms_pending`
and the restored call are not variables: the former is read by the daily text
only, the latter is never armed.

### PowerNotify

The outage side of app_logic: the one-shot boot check, `on_power_monitor_event`
in the monitor's task, the texts, the call and the reminder of publish_task, and the
reports of modem_task. The monitor is reduced to the changes `PowerMonitor`
allows: `UNKNOWN` is left without an event, every later change raises one, which
the bus may refuse. The boot check and the reminder are split between the state they
read and the flags they write, and the monitor may run in between; `torn`
(history) remembers that the last event was refused or noted in such a gap.
Other jobs of modem_task are left out: the texts and the call fill the queue
themselves.

### OutputControl

`update_do1_output_state` with the reading of the supply, the decision, and for each
pin the load, store and I2C transfer of `tca9555_write_pin`, for
publish_task, the monitor and the tasks that edit limits, all interleaved. Its specification is called `OutputsSpec`, since its
proofs stand in one module with those of `PowerMonitor`.

### SensorFault

One sensor, `kind`, the NTC or the SHT30 (both are initial states of the run):
`update_sensor_fault_state`, the confirmation in `sample_sensors`, the two texts, the server event and the
reports, of which a text that found no number is one of its own (`skipped`): the code takes it for sent and nothing went out, and the
history `informed` keeps the two apart. The NTC has a silent time after start and forgets a fault it did not tell;
the SHT30 can be switched off. Both withdraw a restored text that still waits as soon
as the next good sample comes. `good` and `bad` are histories of the current run.

### NetManager

`app_event_handler` of `net_manager.c`, one action per event and link (`OnEthUp` ...
`OnProvisionStart`); `handle_timers` and the loop of its task, one action per deadline
(`WifiRetry`, `WifiProbe`, `CsDone`, `PppRetry`, `RecoverUplink`, `PowerCycle`, `LostTooLong`);
the start of WiFi and of 4G as operators that both use. What blocks is two steps, and the second works on the state as it is then.
A dial begins where `start_ppp_connect` calls `modem_service_start`, and `DialEnd` is the rest of it. A hang-up
(`stop_ppp_connect`, 2.4 s and more) is made by the event loop for an address of Ethernet, WiFi or 4G (`EthUpEnd`,
`WifiUpEnd`, `PppUpEnd`) or by the manager's task (`CsHangupEnd`); it may fail, which leaves the data connection open (`left`, `refused`),
since nobody looks at the result. `enter_provision_mode_now` waits in the middle. The services are what the manager sees of them: a link
gets and loses its address and posts an event when the queue has `Room`; a step that takes a link down
posts its loss behind what it leaves in the queue (`After`). The portal's access point starts the station
as well, which wifi_service then connects (`provision_service_restart`), and a saved configuration may fail to load (`Loaded`). `has_ip` is the set of the three
address flags, `armed` that of the deadlines. `Reboot` is the restart by app_recovery.

### ClientLife (abstract) and MqttSession

`ClientLife` is what mqtt_service promises of a client without flags, events and deadlines: it is made when the
service has none, belongs to the service until one task that destroys no other takes it, and to that task until it is gone.

`MqttSession` is `mqtt_service.c` (start, stop and the callback) with what net_manager does about
MQTT: `netm_reset_mqtt_state` and the MQTT events in the event loop, `maybe_start_mqtt`, the restart after
three minutes and the state forgotten when PPP is dialled anew. A stop takes the client out of
`s_mqtt`, and `StopEnd` destroys it later: `holds` says which task has which
client. A start is five: the flags of `maybe_start_mqtt` (`Start`), the second look at the service's flags (`StartBegin`), the new client
(`StartClient`), its launch (`Launched`) and the setting of `s_started` behind it (`StartReturns`), with the client's callback free to run in
between. A callback is two steps, the comparison with `s_mqtt` and the flags it
sets. The refinement maps the clients that exist to `alive`, `s_mqtt` to `current` and `holds` to `taken`. The uplink is reduced to `active`; where it
comes from is NetManager's matter.

### ModemService

`modem_service.c`: a dial with its phases (`SyncEnd`, `ReadyEnd`, `DataMode`, `Settled`), the hang-up
(`StopBegin`, `StopEnd`), the power cycle, a CS session from
`modem_service_begin_cs_session` to `modem_service_end_cs_session` with text, call and the three inbox operations,
`on_ip_event`, and the restart request read and cleared in two steps. The inbox is what each place holds: nothing, a text, a message without
a number or text, or one with ERROR in it. `Listed` is what of a store fits the response buffer, `Shows` that it has no ERROR, and
`FirstText` the first text of what is shown. MT lists every place and SM those behind `MeSize`; SM is read when MT cannot be selected or shows nothing. What the modem answers
is not determined: each phase succeeds or fails. `link` is the PPP link itself, which
nobody can read; `events` are the IP events that wait for the event loop. A power cycle may come at any time,
from net_manager also in a session.

### Recovery

`app_recovery.c`: a pass is `handle_server_watchdog`, the power cycle of the modem it may wait for
(`CycleEnd`), `handle_wifi_stuck_watchdog`, `handle_pending_reboot` and, half a second later,
`Restart`; the event loop runs in between. A counted time is the part of its limits that has
passed (7 and 10 minutes). `served` (auxiliary) is what the last pass of the server watchdog found.

## 3. Model checking

| run | instance | what it shows |
|---|---|---|
| power_monitor | the firmware's count 5; a voltage on, below, between and above each threshold; bus of 2 | the callback's last event tells the truth unless it was not delivered; the abstract debounce is implemented, so a change needs a full run; a lasting state is declared |
| alarm_notify | humidity; edits of HUM_ON/OFF, numbers and limits; a queue of two places shared with other texts and polls; preemption; a restart | job flags stand for live jobs, the alarm is that of its channels; an alarm is told to all numbers at most as often as its schedule says and once more for each text without a flag it found in the queue |
| alarm_live | temperature with a hysteresis band, settings left alone, fair tasks | an alarm nobody was told of has its text asked for or a reminder to come; a lasting alarm is announced; a lasting return brings everything to rest |
| power_notify | refused events, edits, a queue of one place, a monitor that cuts into publish_task's tests, fair tasks | the call comes after its text; a noted outage is told; a lasting return brings everything to rest |
| output_control | three tasks | a call that runs alone leaves the outputs right, whatever collisions came before |
| sensor_fault | both sensors, the firmware's counts 3 and 2, a queue of one place with other jobs, edits, refused events, fair tasks | confirmation by runs, the NTC's restored text answers a fault text that was done with, what the server knows; a fault that stays is told unless its text found no number |
| net_manager | all links, portal and a flash that fails, a queue of 2 | 4G serves only alone; the queue stays bounded |
| net_live | all links, CS sessions, unreachable server, a queue of 1, fair tasks | the data connection of 4G is not left open beside a better link, unless a hang-up failed to close it; a unit without a network finds one again; a unit on 4G keeps trying its WiFi |
| mqtt_session | 2 clients, WiFi and 4G, one task besides the two of net_manager, a queue of 1, fair tasks | each client lives as `ClientLife` says: made only when the service has none, and taken by one task that destroys no other; a unit with an uplink and no broker tries again unless a late callback left `s_connected` set; a stale "ready" does not last |
| modem_service | net_manager as the dialer, one waiting IP event, an inbox of 2 of which a listing shows one, fair tasks | a shown address is true or about to be taken back; a session ends; a full inbox gets room while a listing shows a text; the count of early losses never reaches 2 |
| recovery | all links, fair tasks | a server that stays lost and a WiFi that stays stuck end in a restart; a restart put off is forgotten when the server is back |

One run is refuted, by a statement of the repository:

| run | statement | what happens |
|---|---|---|
| net_dial | no dial beside Ethernet or WiFi (comments, net_manager.c:436, 444) | WiFi comes up while `modem_service_start` blocks; the dial fails a minute later and clears the uplink and the network flag (501) |

### Further disagreements

Met while modelling. They have no run of their own; the models contain the behaviour, and the
properties above hold with it unless said otherwise.

*Notices.*
- "toi da 3 lan tong cong" (app_logic.c:2285, 2301): HUM_OFF, or an edit that removes the numbers, clears the job flag of a text
  that still waits in the modem's queue. A new alarm or the setting switched on again queues a second one, and both are sent, so an alarm can be told
  to everybody a fourth time; it takes a queue of two places. `TextsWithinSchedule` counts that telling and allows one more for each such text the alarm
  found waiting (`carried`). A text that failed for one number is sent to all of them again every `APP_SMS_RETRY_MS`, without a limit; these
  partial tellings are not counted. After a restart the alarm is told from the start.
- A late report of an earlier alarm's text clears the flag of the next alarm (app_logic.c:2928); the reminder ten minutes later repairs it.
- modem_task tests, publish_task notes a restoral, modem_task writes "sent": the restored text is never sent (2957). `alarm_live` checks `SettlesDown` without this preemption.
- An outage text that completes after the return arms the call of an outage that is over (2995).
- Overlapping calls of `update_do1_output_state` leave the outputs wrong until the next change (901).
- A fault whose text found no number counts as told (3658-3664, 3728-3734): a number that is added while it lasts never learns of it.
  `LastingFaultTold` has this as its exception.
- A good sample withdraws the NTC's restored text that still waits but leaves `s_ntc_fault_sms_sent_once` (2580-2583), so the end of a
  later fault that nobody was told of asks for a restored text; and a job whose request was withdrawn goes out all the same, so the
  numbers may be told twice of one end. With more than one place in the queue a fault text reported late marks the next fault as told, and the
  numbers read "restored" last while that fault lasts. `RestoredFollowsFault` is about requests, not about what arrives.
- The restored text that the comment at 2824-2831 says is queued is withdrawn by the next good sample when the modem was busy (2848).
- The comment at 3881-3885 says the third notice of an outage is not sent; the code sends three.
- The boot check and the reminder act on a supply they read before the monitor noted its return (`torn`).
- An outage that is the first state the monitor learns raises no event and is never told; the same holds while no NTC reading has been valid since start (3827).
- sms_command.c:481 passes the limits just stored as the old ones for HUM_OFF; `app_logic_handle_hum_disabled` is never called.

*Uplinks (net_manager.c).*
- A portal that fails to open leaves mode IDLE without any deadline; a configuration with a wrong password, once saved, leaves the active uplink AP_ONLY, with which the deadlines do not run.
- The deadline of 4G is consumed by a CS session (428); a modem that a session left in RUNNING makes the next dial return at once without dialling, and the mode PPP_CONNECTING then keeps everyone else from it. `NetworkFound` needs the restart by app_recovery because of these.
- A hang-up that the modem refuses (modem_service.c:529-534) is ignored at net_manager.c:527-531: the data connection stays open
  beside WiFi or Ethernet, its address flag is cleared, and nothing tries again.
- An Ethernet address that comes during the delays of `enter_provision_mode_now` is overwritten; `netm_server_lost_watchdog` (730-850) is never called.

*MQTT (mqtt_service.c).*
- MQTT_EVENT_CONNECTED does not look again whether the client is the current one (235-240). A callback that had found itself current before
  a stop leaves `s_connected` set with no client in `s_mqtt`, and maybe_start_mqtt (net_manager.c:592), the restart after three minutes (1135) and
  app_recovery (268) then see a connection: nothing is started until the uplink changes. `MqttTriedAgain` has this state, `LateConnected`, as its
  one exception; without it TLC finds the trace.
- A start that fails while another task has taken the client destroys it a second time (549-560). The client was never launched: `OneOwner`
  speaks of running ones, and for `ClientLife` it has ended with the first destroy, so the second is outside both. The publish functions use the handle after unlocking (304-385).

*Modem (modem_service.c).*
- A new address clears the count of early losses, so the power cycle at 378 is dead code (proved: `EarlyLossCorrect`).
- A request set between the test and the clearing at 1674 is lost. A loss of the address during the two seconds of settling is overwritten with WAIT_IP (477).
- A dial under way does not stop for a CS session, and the power cycle (1236 of net_manager.c) does not look for one.
- A listing with ERROR anywhere in it, as in the text of a message, fails as a whole (1263, 1275), and it is cut at 2048 bytes (27, 1249): texts
  behind either are never read, and an inbox full of such receives nothing more. `FullInboxRead` is about a text that a listing shows.
  The result of deleting a message is not looked at.
- "Đọc SMS ở MT trước / Nếu MT không có SMS thì đọc tiếp SM" (1326-1329): SM is read as well when the listing of MT fails, and not when MT shows
  only messages that cannot be read (1330-1352).

*Watchdogs (app_recovery.c).*
- A portal that net_manager opens by itself does not set `s_provision_active` (net_manager.c:1495, 1906), so the unit restarts after ten minutes against the comment at 273-275; a restart asked for before the portal opened is not cleared but waits (202, 276).
- The unit is restarted half a second after the test for being busy (237; comment 381). BUSY_ALARM, BUSY_CONFIG and BUSY_MODEM_CS are never set.

*Configuration.* Several tasks load, change and save the whole configuration and lose each other's
changes (config_sync.c:220-263); `s_wifi_reconnect_pending` is overwritten (278).

### Bounds

A queue of one place (the firmware has more) is empty or full, and with other jobs in it
full at every point a job can be refused; `alarm_notify` has two, so that a text whose flag was cleared waits beside its successor. `MaxCalls` 1 is reached by every alarm and exceeded by a reminder or a second channel.
`NotifyMax` is 1 or 2 where the code has 3: the reminder's guard is met and then
refused. `UntoldAlarmRemembered` is false with 1: a late report of an earlier text takes the only request down with it. For an outage it must be at least 2, since an outage noted between the reminder's test and its
count leaves the count at 2. `texts` and `carried` have no cap of their own: the property bounds the one by the other, and the queue the other. Where a run has
no other jobs (`alarm_live`, `power_notify`) it is because a queue others fill for ever
starves everything, and without polls `alarm_live` has no restart; `LastingFaultTold` assumes the same.
`FaultConfirm` and `RestoreConfirm` have the firmware's values and the counters
stop there, since they are only compared. Voltages are the thresholds and their
neighbours, in tenths of a volt. One alarm channel is checked with edits and a shared
queue and the other for liveness; that both together keep the flags right is proved for every
`Channels`.

`QueueLen` of the event loop is what a service finds unhandled and still posts; handlers post
beyond it, since the real queue is longer. With 2, a loss waits behind the address it takes back or in front of the next one, and up to
five more wait behind it: a loss of WiFi, one of 4G and one for each of three hang-ups that can be under way. `net_manager` has the portal, `net_live` sessions and
the lost server. With sessions and the portal in one run the state space, 5.7 million states with a queue of 1, is too large; the theorems hold for
every set of troubles and every length. Two MQTT clients are the one being destroyed and its
successor; a task that finds no client to make waits, and a third would
only be another one in the hands of a stopping task. Two failed syncs, two early losses and the limits of the watchdogs are the
numbers the code compares with. An inbox of 2, with one place in the modem's memory and one on the SIM, and a listing of 1 have a message that cannot be read,
or one that fails the listing, in front of one that can, and a text behind the end of the buffer.

### Fairness

publish_task, modem_task, the monitor, the event loop and app_recovery's task loop for ever and the
scheduler runs them, hence weak fairness of their steps; `Elapse`, `LostLonger` and the like are the clock. A round of
the monitor that reads the same voltage again may change nothing, so `SamplesForEver` says
that rounds which change something keep coming unless one more of the same reading would not:
plain weak fairness would force the voltage to change. A job
that modem_task holds ends, and a number that is tried again and again is reached
at last (strong fairness of a successful report per kind of job): without this
last assumption nothing can be promised about a text. Readings, settings, mains
and links have no fairness, but for:

- `NetManager`: a dial and a hang-up return (WF). A network that is tried for ever gives an address in the end (SF of `WifiGotIp`), the call that starts
  the probe of WiFi succeeds in the end (SF), and `Reboot` comes when the unit stays without a network, and finds a WiFi that can be started (SF). Its guard is a timing
  assumption: ten minutes are longer than an event waits or an attempt takes, so the restart falls
  between attempts. That the manager's own deadlines are found due is not needed for `NetworkFound`.
- `MqttSession`: a call of the client library returns (WF); a start that is tried again and again finds memory for its client and succeeds, and what
  keeps becoming due is found due (SF).
- `ModemService`: the modem does not refuse for ever to answer, to list what a listing can show and to delete it (SF of a
  poll that obeys the choice of store and removes a message). The fairness says nothing of a listing that ERROR or the buffer spoils.
- `Recovery`: at some of the passes no CS session is open (`[]<>grace \/ []<><<handle_pending_reboot /\ ~cs>>`). A
  session ends, and a pass comes every second; a unit whose sessions
  left no such second would never be restarted.

Deadlock is checked in every run.

### Granularity

Apart from the splits named above, the writes of one function are one
step. In app_logic two of them are approximations: a job is put in the queue and its flag set
in one step (modem_task has a lower priority, but may run on the other
core), and the flags a report or the callback writes change together. Runs with
`Preempt` off show what holds when no task cuts in between a test and its
writes; the runs with it on say what else can happen. In NetManager the handling of an event or of a deadline
is one step but for the dial, the hang-up and the portal, though the two tasks share its variables without a
lock: an event handled in the middle of a deadline's action is not followed, nor is the time a handler spends in stopping MQTT
(`netm_reset_mqtt_state`; MqttSession has it as `NetUpEnd` and `HandlerEnd`) and the settings the cloud pushes (config_sync.c:334). In MqttSession the flags that a stopping task resets change together with the taking of
the client, and the tests of `maybe_start_mqtt` are one step up to its call of `mqtt_service_start`.

## 4. Proofs

For every value of the constants, under the named `ASSUME`s of the modules (positive bounds, thresholds in
order, links and troubles among the known ones, switches Boolean), each safety property that a passing run checks is a theorem.
The others below are stated in the proof modules.

- **PowerMonitorProofs**: `TypeCorrect`, `CountersCorrect`, `ChangeConfirmedCorrect`,
  `ToldCorrect` and `Implementation` (the monitor implements `SupplyDebounce`). The inductive invariant is `IInv`: types, and
  each counter equal to the history's run length in the state where it counts and 0 in
  the other. The second part is needed: the type alone does not exclude a counter left over
  from an earlier run. `ToldTheTruth` is proved with the relation of what was told, what was missed and the state.
  The module also holds `LoneCallCorrect` of `OutputControl`, for every set of tasks. `LoneInv` ties `alone` to the tasks: while it is
  set, every other task is idle and the one at work is at a place of `CallOf`, a list of what has been loaded, stored and sent so far.
- **AlarmNotifyProofs**: `TypeCorrect`, `JobFlagsCorrect`, `ChannelsCorrect`, `ScheduleCorrect`, `OneTextCorrect`,
  `UntoldRememberedCorrect`. The invariant is types together with
  `JobFlagsLive`: the count of notifications is bounded because a reminder is due only below
  `NotifyMax`, and a flag is set only with its job appended and cleared by the report
  of that job, which needs that a job is outstanding in the queue or in hand. One lemma per
  action, over lemmas about `On`, `Aged`, `Taken` and the queue. For the schedule: the `Load` of a channel is what it has told and may still tell without being asked again, the texts delivered, waiting
  and in hand and one that is asked for (`Asked`). It never exceeds the notifications counted and the texts `carried` over from before;
  a failed text leaves it as it is. So the property holds for every queue length and every number of texts without a flag.
  `OneTextCorrect` (a text that waits has its flag and is there once) holds with `~ConfigChanges` only: HUM_OFF and an edit of the
  numbers clear the flag of a text that waits (section 3, further disagreements). `UntoldRememberedCorrect` rests on it and on
  `NotifyMax >= 2` (the firmware has 3): of the two ways to lose a request, a text of an earlier alarm that is reported late and a
  verdict reached before the request, each is over before the channel's first reminder, which `Remembered` says and induction needs.
- **NetManagerProofs**: `TypeCorrect`, `PppOnlyAloneCorrect`, `PppNotBesideCorrect`. The first has a bound on the queue: `Load` counts each link that
  is up as the loss it may still post, and each hang-up under way, or to follow a session, as the loss of a connection it may leave open.
  The second is inductive with `UplinkInv`: Ethernet or WiFi is the uplink only without a PPP address or while
  the event loop hangs up. The third needs what happens
  between a dial and its report: a dial that runs finds the modem without data or with a connection that a hang-up left open (`LineInv`),
  and a data connection that is up and was not `refused` its end is either known (`has_ip`) with no loss waiting, or its `Up("PPP")` is in the queue with no
  `Down("PPP")` behind it (`Announced`). Lemmas say what appending to and taking from the queue leaves of this.
- **MqttSessionProofs**: `TypeCorrect` (an event waits or a callback is about to post it), `OneOwnerCorrect` (every running client is
  the current one or in the hands of one task) and `LifeCorrect`, the refinement of `ClientLife`. The invariant `OwnInv` says that no two tasks hold the same client and none holds the current
  one, that a running client is owned, and that a client that is made but not launched exists only between its making and its launch inside `mqtt_service_start`.
  For the refinement there is in addition at most one such client (`OneMade`), and each action is shown to be a `Start`, `Stop` or `End` or to stutter.
- **ModemServiceProofs**: `TypeCorrect`, `IpReadyCorrect` and `EarlyLossCorrect`. While the link is not up, the last waiting event is a
  loss, and with none waiting no address is shown; a stamp that is recent comes with a count of 0.
- **RecoveryProofs**: `TypeCorrect` and `DeferredCorrect` (a pass that found a connection leaves no restart for a lost server behind
  it, and no step before `Restart` brings one back).
- **PowerNotifyProofs**: `TypeCorrect`, `CallAfterTextCorrect`, `NotedRememberedCorrect`. The type is not inductive: a reminder whose test
  has passed (`pc = "remind"`) still has a count below the limit when it writes, whatever the monitor noted in between.
  That a noted outage which nobody was told of has its text wanted or a reminder to come is the safety part of `NotedOutageTold`;
  its invariant says that a text of an earlier outage can be in hand only before the first reminder of this one (`LateText`), that a
  counted outage has its reminder timed, and that a unit which has not learned its supply has counted nothing. `torn` outages are excluded.
- **SensorFaultProofs**: `TypeCorrect`, `ServerCorrect`, `RestoredCorrect`, `WantedCorrect`, `ConfirmedCorrect`, `RememberedCorrect`. What the
  server knows follows the raw state and is proved apart. For the texts the counters are tied to the current run (`fault_count` is
  its length, `restore_count` at most that), nothing is confirmed in the silent time, and `s_ntc_fault_sms_sent_once` stands for a fault text as the
  last one done with, gone out or without a number to go to. `RememberedCorrect` is the safety part of `LastingFaultTold`: a confirmed fault has
  its text wanted until one went out or found no number in that fault, and a flag of a text stands for one in the queue or with the modem.

`OneOwner`, `ChangeConfirmed`, `OneTextAtATime`, `NotedOutageRemembered` and `FaultRemembered` have a theorem and no run: the
first two follow from the refinements the runs check, the others were model-checked on the instances of their modules before they were proved.

**Model-checked only.** Liveness under fairness and everything about ENABLED are
beyond this prover: `LastingStateDeclared`, `LastingAlarmAnnounced`, `SettlesDown`, `NotedOutageTold`, `ReturnSettles`, `LastingFaultTold`,
`NetworkFound`, `WifiTriedOn4g`, `MqttTriedAgain`, `StaleReadyEnds`, `SessionEnds`, `FullInboxRead`, `ServerLossEnds` and `WifiStuckEnds`.
`DialKeepsUplink` is refuted. The run of `LoneCallSetsOutputs` has three tasks (publish_task, the monitor and modem_task); with the cloud's
task as a fourth one the state space, more than 20 million states, is too large for a run, and the theorem covers it. No
module uses a recursive definition.

## 5. Not modelled, and why

- **runtime_config**: keys are saved one by one; a reset in between mixes two configurations, and nothing
  checks what is loaded but ranges. There is no statement of the code about it to check against.
- **Telemetry and the daily text**: formatting of readings on a schedule; a telemetry that fails is dropped.
- **Wording and choice of numbers**: a text that failed for one number counts as failed, as in the code,
  and is sent again to all. NTC2 raises no alarm.
- **AT dialogue, HTTP pages, JSON, parsing of commands**: a success, a failure or their effect.
- **publish, subscribe and unsubscribe** of mqtt_service: they keep no state; their use of the handle after the
  unlock is a matter of the client library's memory.
- **Length of the default event loop's queue**: a setting of the SDK. That a handler which posts to a full
  queue would wait for itself is listed as a hazard.
- **Drivers, display, clock, SD, GPS, ADC, board, diagnostics, OTA**: input and output whose results are inputs of the models;
  **W5500** is a vendored driver; **legacy_ec800** is unused.

## 6. What is left

In the order of what it would add: an interleaved event handler and deadline of NetManager below the
level of one function; the composition of NetManager with ModemService, in which the manager's view of the
modem (`off`, `cmd`, `wait`, `up`, `cut`, `left`) would be shown to be implemented; the daily text against the alarm flags it waits for.
