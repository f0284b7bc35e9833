# Verification of the ESP32-C3 IoT firmware

TLA+ models of the firmware in `src/`, their TLC configurations, and theorems about them that
TLAPS checks. `PROJECT.json` maps every definition to the lines it stands for and lists the
runs, the mutants, the findings, the hazards and the theorems.

## 1. The system

One firmware for ten products (an ESP-IDF build chooses a profile) on a single-core ESP32-C3
(`CONFIG_FREERTOS_UNICORE=y`, `src/sdkconfig:1207`). Tasks are preempted by priority; equal
priorities share the core by time slices.

| Task | Priority | Loop |
|---|---|---|
| IDF event task | 20 (IDF) | runs `wifi_event` for every Wi-Fi and IP event |
| wdt | 14 | feeds the task watchdog every 2 s |
| sensor | 12 | waits for the semaphore or 1 s, calls the profile's sensor hook, fills `sample_q` |
| cmd | 11 | takes from `command_q`, runs the profile's command hook, provisioning included |
| NimBLE host | IDF | runs the GATT and GAP callbacks |
| mqtt_pump | 8 | takes from `telemetry_q`, publishes |
| proc | 7 | `sample_q` to the FF02 cache, BLE notification and `telemetry_q` |
| MQTT client | IDF | runs `mqtt_event`, one task per client |
| ota | 4 | downloads an image, reboots |
| diag | 3 | logs the heap and counters |
| app_main | 1 | boot, first connection, then returns |

### Components

* **Telemetry path** (`iot_tasks.c`, `iot_mqtt.c`, `iot_ble_notify_sensor`). State: `s_seq`,
  the semaphore, two queues of 16, the FF02 cache, the client handle and state. Correct if no
  sample is duplicated, forgotten or reordered, and BLE and MQTT agree.
  Hard: four tasks, two full queues, a connection that goes down between check and publish,
  several pumps on one queue, shutdown in the middle of an iteration.
* **Wi-Fi manager** (`iot_wifi.c`). State: `s_state` under a mutex, bits `WIFI_IP` and
  `MQTT_UP` of `system_evt` outside it, the backoff, events queued in IDF's event loop.
  Operations: `iot_wifi_init`, `iot_wifi_start`, the handler `wifi_event`, `iot_wifi_stop`
  (not called anywhere), getters. Correct if state and bits say what the link is, or an event that corrects them is queued.
  Hard: it is called by app_main and the command task while events of an older connection
  are still queued.
* **MQTT client** (`iot_mqtt.c`). State: `s_state`, `s_client`, `s_run`, one pump handle, no lock.
  Operations: init, start, stop (not called anywhere), publish, `mqtt_event`. Correct if one
  client exists, and the state and `MQTT_UP` are those of its session.
* **Boot** (`main.c`): NVS, configuration, profile, tasks, BLE, Wi-Fi, MQTT, confirmation of
  the OTA image. Correct if it always ends, and what it set up works: the pulse interrupt too.
  Hard: it goes on while commands change what it has read; it returns early in three places.
* **Provisioning** (`iot_provision.c`): runs on the command task: checks and saves a JSON,
  starts Wi-Fi, waits up to 30 s, starts MQTT if it is down. Correct if it returns, and does
  not disturb what boot has started.
* **Command path** (`iot_ble.c` writes, `mqtt_event` DATA, `command_q` of 8, `cmd_task`,
  `iot_profile.c`, `iot_services.c`, `iot_security.c`). Correct if an accepted command is
  executed once and in order, after validation. Hard: the queue fills while provisioning
  waits; five profiles call back into the dispatcher.
* **BLE GATT server** (`iot_ble.c`): `s_connected`, the FF01 reassembly buffer, the FF02
  cache, advertising. Correct if a queued provisioning JSON consists of the fragments of one
  transaction and the buffer is never overrun. Hard: disconnection between fragments, failures of advertising.
* **Configuration store** (`iot_config.c`): `s_cfg` under a mutex and nine NVS keys written
  one by one, errors ignored. Correct if the copy is what the next boot loads, and a
  provisioned device has credentials of one provisioning. Hard: a reset between two keys, a
  load or a key that fails.
* **OTA** (`iot_ota.c`): `s_state`, `s_url`, a task per accepted request. Correct if the device
  can always run some image and an image does not stay on trial. Hard: overlapping tasks on
  one slot, resets anywhere, the confirmation.
* **Use cases** (`iot_uc_*.c`): one static record per product (water valve and meter, industrial
  state machine, energy limits and calibration, EV, CAN filter, tracker, pump, cold chain,
  robot), used by the sensor task and the command task without a lock. Correct if outputs
  follow the record, alarms and locks hold, and what is counted is counted once.
* **OSAL** (`iot_rtos.c`): FreeRTOS calls on the target; a ring buffer and polled event bits
  in the Win32 host build. Correct if its queue is a bounded FIFO queue.
* **Drivers, diagnostics, board, log, errors**: argument checks around IDF calls, counters,
  tables. Hard: read-modify-write by several tasks.
* **Host tools** (Python, Docker, CI): outside the firmware.

### How they interact

Queues (`sample_q`, `telemetry_q`, `command_q`), one binary semaphore, the event group
`system_evt`, and unlocked globals (`s_state` and `s_client` of MQTT, `s_sensor_cache`, the
use-case records). BLE and MQTT callbacks only queue commands; the command task does
everything they ask for. `WIFI_IP` is the only bit that anyone waits for, and two tasks wait for it.

## 2. The modules

| Module | What it is |
|---|---|
| `TelemetryStream` | abstract: numbered samples, each pending until delivered or lost |
| `Telemetry` | the telemetry path of the target, with `Stream` the refinement mapping |
| `Telemetry_proofs` | its theorems |
| `Connectivity` | app_main, the command task, the event handler, the driver, the clients |
| `Connectivity_proofs` | its theorems |
| `CommandStream` | abstract: numbered commands, each handled once, in order and by what it is for, or dropped from a full queue |
| `Commands` | GATT writes, GAP events, MQTT DATA, `command_q`, the command task and its dispatch, with `Stream` the refinement mapping |
| `Commands_proofs` | its theorems |
| `UcTask` | the command task and the sensor hook on one record |
| `Water`, `Industrial`, `Energy`, `Gateways`, `Field` | the records of the nine products, one handler after another |
| `UseCases` | their composition, and the properties |
| `UseCases_proofs` | its theorems |
| `ConfigStore` | the configuration in RAM and NVS |
| `Ota` | the update, with slots and boot loader |
| `SafeUpdate` | abstract: an image to go back to, another to fetch and to try for one start |
| `Device` | both, with app_main and the command task, over resets, with `Update` the refinement mapping |
| `Device_proofs` | its theorems |
| `BoundedQueue` | abstract: a bounded FIFO queue whose calls take effect between their begin and their end |
| `HostQueue` | the ring buffer of the host build, with `Abstract` the refinement mapping |
| `HostQueue_proofs` | its theorems |
| `LeadsToRules` | two rules of temporal logic that the liveness theorems take as hypotheses |

### Telemetry

A message is its sequence number; payloads are carried unchanged. `sensor`, `proc` and
`pump[p]` are the places of the tasks between two points at which another task can see or
change what they use. `SensorCheck`, `SensorWake`, `SensorSend` are one iteration of
`sensor_task`: the poll of `s_shutdown`, the wait (whose result the code ignores) with the
numbering and the hook, and `iot_queue_send`. `ProcCheck`, `ProcRecv`, `ProcNotify`,
`ProcSend` are `proc_task`. `PumpRecv` is `mqtt_pump`, `PumpCheck` and `PumpPublish` the two
halves of `iot_mqtt_publish_telemetry`, between which the connection may change. `MqttStart(p)`
is a call of `iot_mqtt_start` with its three outcomes; it may happen more than once because
boot and provisioning both call it (section 5). `MqttEvent` lets the state change at any time.

`RequestShutdown` sets the flag and `ShutdownEvent` the event bit. The bit is `1 << 31`, which
FreeRTOS keeps for its own use and asserts against, and a task function that returns aborts
(`CONFIG_FREERTOS_TASK_FUNCTION_WRAPPER`): both end the boot, as `halted`. One behaviour is one boot.

What is abstracted: time (a wait ends when what it waits for is there, or by timeout at any
moment), the payload (every sensor hook returns a non-empty JSON, so that FF02 is always written),
use-case replies (published by the command task directly, outside the numbered stream).
The FF02 cache is written in one step.

### Connectivity

`pc.main` and `pc.cmd` are the places of app_main and of the command task. `WifiInit` (up to
`esp_wifi_init`, which makes the driver usable), `WifiRegister` (the handler, for Wi-Fi events and then for the address)
and `WifiReset` (the state, without mutex and bits) are `iot_wifi_init`, in the middle of which a provisioning
command can start the station, for BLE accepts commands by then; `Unhandled` is the event loop dropping
an event that has no handler yet, and `missed` remembers that it was one to connect upon. `WifiConfig`,
`WifiAccepted`, `WifiStart`, `WifiFailed` are `iot_wifi_start`; a `set_state` by a task is two
steps, because the mutex covers only the assignment and the event task can come in between.
`set_state` by the handler is one step (`SetState`), because no task of the firmware can
preempt the event task; only `vTaskDelay` gives up the core, between `OnDisconnected` and `Reconnect`.
`WifiWait` is `iot_event_wait(WIFI_IP, 30 s)`. `MqttCreate`, `MqttAnnounce`, `MqttLaunch` are
`iot_mqtt_start` up to each point where another task can see a difference (the pump, its last act, is in
`Telemetry`); `MqttInit` is
`iot_mqtt_init` and the test that follows; `MqttCheck` is provisioning's test of the state.
`Provision` is a command up to the saved configuration: rejected, or saved and `PROVISIONED` set.

External: the driver (`link`, the bounded event queue, `EspWifiConnect`, which may be
refused, and the network's moves), the event loop and when the MQTT library calls `mqtt_event`
(`OnMqttConnected` ... `OnMqttError`). Two assumptions on them: a client reports DISCONNECTED
after ERROR before it connects again, and a station that leaves the network reports it once.
A failure that `ESP_ERROR_CHECK` turns into a restart has no step.

Not in this module: shutdown (its effect is the end of the boot), `iot_mqtt_stop` and
`iot_wifi_stop` (nothing calls them), credentials (`Device` has them) and status records, and the backoff, whose
value is limited to 50 ms before it is used (`iot_wifi.c:353`) and so never matters.

### Commands

A GATT or GAP callback runs on the NimBLE host task, touches nothing that another task
modifies except `command_q`, and is one step. `OnSync`, `GapConnect`, `GapConnectFails`,
`GapDisconnect` are `ble_on_sync` and the cases of `gap_event`, with `StartAdvertising` the
call they make and ignore the result of. `BleInitReturns` is the assignment `app_main`
makes after it has started the host task, which may have accepted a connection by then.
A write of FF01 is a fragment: its length, and whether it begins with `{` and ends with `}`;
each return of `gatt_access` is an action (`ConfigRejected`, `ConfigBadStart`, `ConfigPart`,
`ConfigWhole`). The buffer holds pieces, a fragment with the offset it was copied to and the number of
the write. `ControlWrite` and `MqttData` are the two other senders. `Post` is `iot_queue_send` with
timeout 0. `CmdRecv`, `CmdHook`, `CmdProfile`, `CmdServices`, `CmdProvision` are `cmd_task`
and the functions it calls, in order; `cmd[1].kind` is which branches the command takes.
`dispatching`, chosen at the start, says which product is built: in five of ten the handler
of the profile calls the dispatcher it was called by.

What is abstracted: the payload but for what the branches test, the use case itself (it
returns, or it is `plt.shutdown`), the download (a task of its own), and provisioning after its
call (`Connectivity` and `Device` have it). Reads are left out, so is a torn FF02 cache.

`Stream` maps this to `CommandStream`, which has one queue of what waits, the command at hand included,
and a table of what handles what (`Handler`); the dispatch, of up to four calls, is one step of it.

The properties speak of writes, not of connections: a fragment that a connection leaves in the buffer is
continued by the next one. Nothing in the code or its documents says otherwise; it is listed under the hazards.

### UseCases

A use case is a handler on one static record that no lock covers; the sensor hook of the
product feeds samples into the same record. `sensor_task` (priority 12) preempts `cmd_task`
(11) on the one core and is never preempted by it, so that a sample is one step, and a
handler is a chain of steps, each with at most one access to what the hook uses too: `pc`
is the next access, `reg` the local variables. `WaterMeter` to `StoreBilling`, for instance,
are the statements of `iot_uc_water_meter` around their reads and writes of `w`, with the
compound assignments of lines 80 and 81 as a load and a store; `SetFlag` and `ValvePin` are the two
lines of `apply_valve`. A handler that touches one field, or whose product has a command
handler that never reaches it (`Recursing`, see `Commands`), is one step.

`record` (which of the nine) and `sampled` (whether this is the product that was built, so that
the hook runs) are chosen at the start and stay: every handler can be reached over
`iot_uc_run_json` in every product, but the hook only feeds its own. The records share
nothing, so that one at a time is enough. `disturbed` remembers whether a sample has come since the
last handler ended; `exti`, `billable` and `metered` are what the properties compare
with: the pulses that came, those that are to be billed, and whether a command fed the meter.
A read that the build makes once is one read: `-Og` loads `last_pulses` once for the two
places that line 75 names it in. `ReadP` and `Eval` are read by read, `Eval` up to the first limit that trips.

`Field` is `iot_uc_field.c` with tracker, pump, cold chain and robot; `Gateways` is EV and CAN.
Readings are small numbers that lie on both sides of the limits of the code; a CAN identifier
from the bus is one byte, as in the profile, so that `FrameIds` are 5 and 255.
Left out: tank level, operating hours, energy registers and trip counts, decoded CAN
signals, batteries, humidity, the irrigation window, feature extraction of the predictive
product, and the handlers that only read. None of them decides about what is modelled.
Sessions are counted in 32 bits in the code; `MaxSession` stops long before.

### ConfigStore, Ota, Device

`Load`, `SaveOpens`, `SaveKey`, `SaveEnds` and `SaveRefused` are `iot_config_load` and
`iot_config_save`, one NVS call a step: opening may be refused, a key may fail unnoticed (both bounded
by `MaxFailures`). A value is the number of the provisioning that gave it, 0 the default.
`OtaStart` is `iot_ota_start`, `OtaDownloading` to `OtaFinish` the stretches of `ota_task`
between its writes to `s_state` and to the slot. Two tasks may be at work at once, because only DOWNLOADING
turns a request away, and only the new task sets it. External: `Overwrite` (the slot while it is
written), `BootLoader` (rollback: an image that was started once and not confirmed is not
started again) and resets.

`Device` puts `app_main` (`MainLoad` ... `MainMark`, with its early returns, `MainStops`) and the
commands that change the configuration or the firmware on top: provisioning, settings,
factory reset, OTA, `plt.mark_ota_valid`. `MainSsid` to `MainReadPass` are the copies of
`iot_wifi_start` that the command task can come between; the command task's own
(`CmdWifi`) are one step, for app_main has the lowest priority, up to the driver call
(`CmdSetConfig`), for which it blocks. `PowerCut` may come at any step, `Crash` is that of a bad image before its
end of `app_main`, `OtaReboot` the restart that ends `ota_task`; all of them take the RAM with them and keep
NVS and the slots. `sem` and `isr` are the semaphore of the pulse interrupt and its installation.
Left out of `Provisioned` is the branch for an empty SSID, which stores the copy as unprovisioned.

`Update` maps this to `SafeUpdate`, which has neither slots nor tasks: `Home` is the image of the slot the boot loader
would go back to, `Guest` that of the other one, `Phase` whether the other one is aside, selected for the next
start or on trial now. The two slots change their parts when an image is confirmed.

### HostQueue

`host_q_send` and `iot_queue_recv` statement by statement: wait for the semaphore (or time
out, `SendFull`, `RecvEmpty`), lock, copy, advance, unlock, release the other semaphore. `mtx` is the set
of its holders, so that a mutex that does not exclude can be expressed. Deletion is left out
(nothing deletes a queue), so are the event bits, which the host build polls and the models
of the target take from FreeRTOS.

## 3. What is checked

| Run | Bounds | Shows |
|---|---|---|
| `telemetry` | queues of 1 and 2, two pumps, 4 samples | `TypeOK`, `Accounted`, `OrderIsKept` (`InOrder` and `BleInStep`), `TasksCanRun`; `StreamSpec`: the path implements `TelemetryStream`; `OneSampleAfterShutdown`, `EverySampleSettles` |
| `connectivity` | 2 clients, event queue of 2, 2 provisionings | `TypeOK`, `BitsAreTrue` (`IpBitMeansIp` and `MqttUpBit`), `LinkIsFollowed` (`IpReadyIsCurrent` and `AttemptIsDue`), `UpMatches`, `ProvisioningStartsOne`, `TasksCanRun`; `TasksReturn` (`BootCompletes` and `CommandReturns`), `Reconnects` |
| `mqtt_started_once` | 2 clients, 1 provisioning | finding: MQTT starts twice |
| `ip_ready_signalled` | 2 clients, 1 provisioning | finding: `IP_READY` without `WIFI_IP` |
| `commands` | buffer of 4, fragments of 1 and 2, 4 writes, 1 other command, queue of 1, both kinds of product | `TypeOK`, `JsonsAreSound` (`WholeJson` and `WritesUsedOnce`), `Discoverable`; `StreamSpec`: the path implements `CommandStream`; `QueuedIsHandled` |
| `uc_is_executed` | 1 write, 2 commands | finding: a use case is never reached |
| `usecases` | 3 commands, readings on both sides of each limit, 3 pulses | `TypeOK`, `TamperKeepsShut`, `BillsOnce`, `LocksHold` (`InhibitStopsPump` and `ColdAlarmHolds`), `SampleRestores` |
| `latched_faults` | the same | finding: a sample takes a latched fault back |
| `device` | 2 OTA tasks, 2 commands, 1 failing NVS call, 2 power cuts | `TypeOK`, `CacheIsStored`, `WholePair`, `DriverIsStored`, `BootCanGoOn`, `SettingsKeepCredentials`; `UpdateSpec`: boot and update implement `SafeUpdate`; `TrialEnds` |
| `wifi_pair` | 1 OTA task, 2 provisionings, 1 cut | finding: an SSID with the password of another |
| `pulse_input` | the same | finding: the pulse interrupt is never installed |
| `host_queue` | 2 senders, 2 receivers, 2 slots, 4 items | `TypeOK`, `SlotsAccounted`; `BoundedQueueSpec`: the ring implements `BoundedQueue`; `EverythingIsReceived` |

Why the bounds are enough: the capacities (16 in the code) enter only as full, empty or in
between, which queues of 1 and 2 have, with four samples, enough to fill both queues while
proc_task and a pump hold one each; the theorems of section 6 hold for every capacity. Two pumps are what two calls
of `iot_mqtt_start` leave. Two clients are one for app_main and one for a provisioning, or one for each of two
provisionings; a third call finds no handle left, as it would without memory. The
event queue of 2 can hold an old disconnection before a new address and can be full; IDF's has 32.
A buffer of 4 holds three bytes: a JSON of one, two or three fragments, fragments that fit
exactly, and fragments too long for what is left; four writes make two JSONs, with a rejected one
between them.
Three commands let one come before, one in the middle and one after a sample that interrupts
it. Two power cuts hit a save, and the boot that follows it; two OTA tasks are what two
requests leave, and a third would do to the slot what the second does. A ring of two slots
wraps around twice with four items, and two threads on either side meet in the mutex, in
the semaphores and across them.
`CHECK_DEADLOCK FALSE` because the models stop by design: the firmware halts on shutdown, and
`MaxSeq`, `MaxProvisions`, `MaxCommands`, `MaxCuts` and `MaxSends` bound the input. A bound counts what comes from
outside; no bound stops a step of the firmware itself, but for `MaxSession` and `MaxBusOff`, which are counters.

`TasksCanRun` (of `Telemetry` and of `Connectivity`) and `BootCanGoOn` say in terms of
ENABLED where a task is never stuck. They are checked as invariants, where a wait without a timeout or a send that
waits breaks them, and are what the liveness theorems of section 6 assume besides fairness.
`CommandsAccounted` and `Recoverable` are proved but named by no run: the runs check what they are about as
`StreamSpec` and `UpdateSpec`.

No run uses symmetry: `Fresh` takes one client that was not used yet, and which one tells nothing.

What the properties exempt, each where the code leaves it open: `Reconnects` and `AttemptIsDue` a refused
connect and a lost STA_START (section 5, remarks); `WholePair` the cut between two keys of a provisioned device,
a failed `nvs_set` and a refused load; `SettingsKeepCredentials` a refused load (remarks);
`CacheIsStored` and `DriverIsStored` calls that failed, the latter also every boot in which app_main starts Wi-Fi itself;
`BillsOnce` everything after a command has fed the meter; `SampleRestores` the latched faults (finding 6).

### Fairness

Weak fairness of each task of the firmware and of the event task: each blocks in every
iteration, those above it too, and equal priorities are sliced, so that a task that is ready
runs in the end. Nothing is assumed of the network, the broker, the library or the commands:
`EverySampleSettles` counts a lost sample as settled, and `Reconnects` demands an attempt, not
success. `Reconnects` exempts a refused `esp_wifi_connect` and an event that came before its handler, since nothing in the code
tries again after either. `QueuedIsHandled` assumes the same of the command task and exempts
the products whose handler dispatches; its mutant makes every handler dispatch.
`Device` has weak fairness of app_main and of the crash of a bad image, and none of
commands, updates or power cuts: `TrialEnds` has to hold without any help of theirs.
`HostQueue` has weak fairness of a call that is past its wait and of a receiver for which
there is something (the tasks of the host build receive in a loop), and strong fairness of the mutex, which
Windows hands out in turn. `UseCases` has none: its properties are all about safety.

## 4. Mutants

Every property has a mutant, a plausible slip in the code it is about (the operators headed
"A slip" in the modules): a queue one too long, a send repeated, a message sent to the
front, a send that waits for ever, a peek instead of a receive, a flag not looked
at, a pump that stops, a state left until the delay is over, a bit left to another module, a
state announced late, a failed start undone, a wait without timeout (in `Connectivity` and in `Device`), no room for the
terminator, a buffer not reset, a command left in the queue, no advertising after a disconnection; a count that may go back, a valve opened despite tampering,
a frozen meter that catches up later,
an acknowledgement that forgets the door, a burst seen only on
an open valve; a key too many, a copy not renewed, the flag before the credentials, Wi-Fi
started after a refused save, an image confirmed early or only on line, a refused load taken
for an empty store; an index that runs over, a slot released early, a mutex not waited for or not given back.
TLC finds each of them.

## 5. Findings

1. `MqttStartedOnce`: "Do not start MQTT twice" (`iot_provision.c:550`). Boot and provisioning
   wake up on the same bit; app_main does not look at the state (`main.c:307`), and the look of
   provisioning is separate from its start. Two clients with one client id then take turns at
   the broker, two pumps share the queue, and samples can be published out of order.
2. `IpReadyIsSignalled`: `set_state` changes the bits outside the mutex. An address that
   arrives between the two halves of a task's `set_state` leaves `IP_READY` without `WIFI_IP`,
   and whoever waits runs into the timeout.
3. `UcIsExecuted`: `docs/usecases/README.md:5` says that a payload with a `"uc"` key is executed
   on the command task. In the tracker, agriculture, cold-chain and predictive products, and in
   robotics but for `move`, the handler calls `iot_profile_dispatch_cmd`, which calls the
   handler (`iot_profile_rest.c:35`, `iot_profile.c:83`): the command ends the boot.

4. `WifiIsThreadSafe`: `iot_wifi.h:5` calls the manager thread-safe. Its credentials are in
   two static buffers that `iot_wifi_start` writes and reads back without a lock
   (`iot_wifi.c:619-690`); a provisioning that comes while app_main is between two of the copies leaves
   the driver with the SSID of one and the password of the other, until the next reset.
5. `PulsesAreCounted`: `INTEGRATION_REVIEW.md:55` traces a pulse from the GPIO to the sensor
   task. The water and industrial profiles install the interrupt only if its semaphore exists
   (`iot_profile_water.c:28`, `iot_profile_industrial.c:31`), and app_main initialises the profile
   (`main.c:188`) before the tasks and the semaphore (`main.c:231`, `iot_tasks.c:488`): it is
   never installed. In `UseCases` the pulses come as if it were.

6. `LatchedFaultsStay`: the command catalogue describes `ev.fault` as "Latch over-temp display fault"
   (`iot_uc.c:80`) and `industrial.ack` as "Acknowledge latched FAULT to IDLE" (`iot_uc.c:56`). The EV fault is
   overwritten by the next sample (`iot_uc_ev_auto.c:63`); an unacknowledged FAULT becomes WARN as soon as a reading
   is over the vibration limit only (`iot_uc_industrial.c:82-84`), and RUN or IDLE after that, with
   `ack_needed` set for good. The run stops at one of the two; each alone violates the property in two steps.

### Remarks

What the properties name as exemptions, because it happens:

* *A lost STA_START.* BLE accepts commands (`main.c:245`) before `iot_wifi_init` is through. A provisioning that
  starts the station between `esp_wifi_init` (`iot_wifi.c:533`) and the registration of the handler (`:549-570`)
  loses the event that makes the handler connect: the station stays idle, refused by nobody, although `iot_wifi.h:5`
  announces "reconnect/backoff". A later `iot_wifi_start`, app_main's own included, helps only if the driver
  reports the started station as an error (`iot_wifi.c:751`), else a reset does. If the address event is lost
  (before `:562`), `WIFI_IP` is not set until the next address. A start before `:586` has its state
  overwritten by `WIFI_DISCONNECTED`, without the mutex.
* *A refused load.* `iot_config_load` answers a refused `nvs_open` with the copy in RAM and `IOT_OK`
  (`iot_config.c:103-109`). At boot that copy is the defaults, whose identity is the unprovisioned one, so that app_main
  saves them over the stored credentials (`main.c:159-174`), if the store opens again by then. A setting that comes while the copy is not what is stored
  does the same. `iot_core/README.md` has defaults for an empty and for a corrupt store only.
* *Older credentials.* app_main starts Wi-Fi with what it read at boot (`main.c:273`), also when a provisioning has
  given the driver newer ones in between. No property judges it: no document says which win, and the next reset uses the new ones.

The comment at `iot_tasks.c:254-256` says that the old telemetry is dropped
when `telemetry_q` is full; the code drops the new message, and `Telemetry` models that. And some
behaviour is weaker than its name, without a document that promises more: `water.meter` without pulses bills everything again
(`iot_uc_water.c:70`), and the CAN filter accepts nothing that the hook can feed it
(`iot_profile_automotive.c:43`).

## 6. What is proved

For every value of the constants, from the assumptions named in the modules (capacities
and lengths are positive, `NoClient` is no client). Every safety property of a passing run,
invariant, action property or refinement, is a theorem but for the three invariants about ENABLED. Every
liveness property is a theorem under hypotheses that "Liveness" below lists.

*Telemetry.* `TypeCorrect`, with the queue bounds. `OrderedAlways`: the numbers increase from
the client's side of the path back to the sensor (`Ordered`); this is what makes "a message is in one
place" inductive, since the type invariant alone allows one number in two queues. From it
`AccountedAlways` (with `Apart`: no two places share a number) and `PathImplementsStream`,
where the lemma `Moves` says which of pending, delivered and lost each action changes.
`InOrderAlways` needs `OneOrdered`, which speaks of what the one pump holds between the queue and
the publish. `BleInStepAlways` needs `CacheInStep`, which says that the message in
`proc_task`'s hand is the next one for the cache before `ProcNotify` and the cached one after it; `OrderAlways`
is `InOrderAlways` with it.
`ShutdownStopsSampling` is an invariant of the state after the request (`Bounded(n)`): one more
sample only if the sensor task is past its check.

*Connectivity.* `TypeCorrect`. `IpBitAlways` and `IpReadyAlways` from `IpCurrent`, which says of the bit, of the state and of a queued
GOT_IP alike that the address is current, or followed by the disconnection that outdates it, and from
`BeforeWifi` (no event before there is a driver, and no address before its handler is registered); this is
where the order of the event queue matters. `LinkIsFollowedAlways` adds `AttemptIsDue`: a station
without a connection has an event queued that makes the handler connect, or the handler is about to, or
the driver refused, or the event was dropped before the handler was registered. It is what is safe about `Reconnects`; the handler takes only the event it acts on off the queue (`EventTaken`), and on a disconnection
it gets ready to connect. `MqttUpBitAlways` is inductive with the types; `BitsAlways` is `IpBitAlways` with it.
`UpMatchesAlways` and `ProvisioningStartsOneAlways` follow from `Lifecycle`, which relates
the record of calls, the place of the caller, the client it holds and the state.
`TasksReturnAlways` is liveness: app_main and a command go through a finite chain of places.
`OnlineMoves`, `MainMoves` and `CmdMoves` say where a step of the task leads from each place, `NextMoves` that
no other step moves it, and weak fairness with `TasksCanRun` that it does not stay; the temporal
prover puts the chain together.

*Commands.* `TypeCorrect`, which needs that the 16-bit subtraction does not wrap (`RoomBound`), true because
every path leaves the accumulated length below the buffer's. `WholeJsonAlways` with
`BufferInv` (what is in the buffer is the beginning of a JSON, up to the last write), and
`WritesUsedOnceAlways` with `Older` (what waits was written before); `JsonsAlways` is both. `NextWaiting` says once what a
step does to the commands that wait: nothing, one more, or the first one handled; from it also
`CommandsAccountedAlways`, inductive with the types. `CommandsAreStream` adds `Destined` (a command is only where
the dispatch sends its kind, and what comes from FF01 is for provisioning): what `NextWaiting` calls one more is
`Accept` or `Drop`, the first one handled is `Handle`, with `HandledRight` for who handled it. `DiscoverableAlways` is inductive. All of it holds for
both values of `dispatching`.

*UseCases.* `TypeCorrect` from `BaseInv`: the types, `PlaceInv` (a handler is in the code of its own
record, and a shared part of it goes on where it was called) and `MeterInv`. `TamperShut` from `ShutInv`:
a meter that was tampered with counts as shut, and its pin is shut but while the handler
that shuts it is on its way. `BilledOnce` from `BillInv`: while no command feeds the meter, the last count is that of
the pulses and both registers hold what is billable. `InhibitHeld` from `PumpInv`. `ColdAlarmHeld` is
inductive with the types; `LocksHeld` is both. `Restored` needs what a record is while the handler of another runs (`RestInv`), and
that a sample settles each record from any state of its handler.

*Device.* `TypeCorrect`. `AlwaysRecoverable` from `SlotInv` with `TrialInv`: while an image is on trial
nobody writes the other slot, and a slot is tried first only when a whole image was put there;
the interesting steps are those of a second OTA task that overwrites what the first one has selected.
`CacheStored` and `SettingsKeep` from `StoreInv`: `Order` (who saves when), `Record` (what is in
the record), `Written` and `Sync` (the keys passed are new, those to come are those of the copy); `SettingsKeep` also
needs `ReadInv`, that the copy has the stored credentials while the boot or a setting saves it, unless the load was refused. `PairIsWhole` adds
`WholeInv`, that the copy is a whole pair wherever nothing failed; `DriverStored` adds `DriverInv`.
`UpdateIsSafe` uses `SlotInv` again, with `Quiet` (nothing is fetched before app_main has started the tasks):
`UpdateStep` goes through the actions that touch a slot, the restarts included. `TrialEndsAlways` is
liveness over resets. `After` are the places app_main goes on to, on a way without a circle; in a trial a step is one of
these (`TrialMoves`), or leaves app_main, the image and a save of app_main's alone, or ends the trial (`TrialSteps`).
Its save counts up the keys (`SaveGoesOn`), `MarkEnds` is the last step, of a good image or a bad one, and
a reset ends the trial at once (`ResetEnds`).

*HostQueue.* `Inv`: the two sums of `SlotsAccounted`, mutual exclusion (`Exclusive`) and that what a sender has
copied is still at the head (`Copied`). `AccountsCorrect` counts threads by place, with the cardinality theorems of
the library. `Implements`: `Put` is `AdvanceHead`, `Get` is `CopyOut`, the rest are beginnings, ends or stutters.

### Liveness

What TLC explores as a graph is proved from three things: what a step does, where a step is possible, and how
often it is taken. The hypotheses of a liveness theorem are `FairSpec`, a condition about ENABLED, and
where something waits in a queue instances of the rules of `LeadsToRules`.

*ENABLED.* The prover knows nothing of it; its temporal logic takes it as an atom, with which weak and
strong fairness mean what they should. Whether an action is enabled in every state it should be is left to
TLC for `TasksCanRun` (twice) and `BootCanGoOn`, which a wait can break. `CmdCanRun` (`Commands_proofs`) and `CallsCanGoOn`
(`HostQueue_proofs`) hold by the guards: the steps cover every place of the command task, and a call's step is guarded by its
own place and by what the condition says. They are written out as hypotheses, and no run repeats them.

*Chains.* `TasksReturnAlways` and `TrialEndsAlways` need no more: the places of app_main and of a command are finitely
many, and the temporal prover puts the chain together.

*Ranks.* The other four follow something through a queue whose length is a constant. For each there is a measure of how
far it is from its end, and an action property that no step of anybody makes it grow and the steps of its
owner make it smaller. These four are theorems of `Spec`, without further hypotheses:

| Theorem | What is measured |
|---|---|
| `SampleComesNearer` | a sample: messages before it in the queue, then the places of the task that has to take them; for the sensor task, `proc_task` and each pump |
| `QueuedComesNearer` | a command: those before it in `command_q`, then the places of the dispatch |
| `AttemptComesNearer` | an attempt to connect: the events before the one that makes the handler connect |
| `ItemComesNearer` | an item of the host's ring: its place in the ring; it moves when a receiver copies |

From them `EverySampleSettlesByRank`, `QueuedIsHandledByRank`, `ReconnectsByRank` and
`EverythingIsReceivedByRank` derive the properties the runs check. One step nearer is proved for each rank from fairness;
that a rank which comes nearer as long as it can arrives, and that what each of several tasks leads to some
task leads to, are the two rules. `LatticeRule` is induction over the rank and `CaseRule` a quantifier over
leads-to formulas; both hold of every behaviour whatever the predicates, but neither can be derived here, since the
induction theorems take an operator as a parameter, which the provers cannot instantiate, and the
temporal prover is propositional. So they are named as hypotheses, and nothing about the code is in them.

In `EverySampleSettlesByRank` a sample goes from the sensor task to `proc_task`, to a pump that was
created, and out of its hand; each leg is a lemma (`FromSensor`, `FromProc`, `FromPump`, `FromHand`).
In `EverythingIsReceivedByRank` the mutex comes free again and again, since who holds it goes on (`MutexComesFree`),
so that strong fairness gives it to each who waits (`WaiterGetsIt`); `SomebodyIsDue` is why an item in the ring is not
forgotten: it is announced, or a sender is about to announce one, or a receiver is past its wait and has not
read. That there is a receiver is a hypothesis, for without one nothing is received.

Only model-checked: the three invariants about ENABLED.

## 7. Not modelled

* Command validation (`iot_security.c`): a stateless function; its verdict is a choice.
* Drivers, board, log, error mapping: one IDF call or a table each. The levels that matter
  (valve pin, PWM, LED) are variables of the use-case models.
* Diagnostics: counters that only a report shows. They are incremented without a lock and may lose updates.
* The FF02 cache read while it is written: the models write it in one step, and nothing but
  a central looks at its bytes.
* What the command task publishes as the response to a use case, outside the numbered telemetry.
* Event bits of the host build, which are polled every 5 ms; the deletion of queues.
* Parsing and formatting of JSON; the Python tools and the dashboard.
* Threats: no model has an attacker; who may send a command is not a question asked here.
