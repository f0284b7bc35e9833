------------------------------ MODULE Telemetry ------------------------------
(***************************************************************************)
(* The telemetry path of iot_tasks.c and iot_mqtt.c on the target: the     *)
(* sensor task numbers a sample and puts it in sample_q, the processing    *)
(* task takes it out, gives it to BLE and puts it in telemetry_q, and a    *)
(* pump task per successful iot_mqtt_start hands it to the MQTT client.    *)
(*                                                                         *)
(* A message is its sequence number: the payload is carried unchanged.     *)
(* A task's local message variable is <<n>> while it holds message n and   *)
(* <<>> otherwise.  One behaviour is one boot: a task function that        *)
(* returns makes the FreeRTOS task wrapper abort the firmware              *)
(* (CONFIG_FREERTOS_TASK_FUNCTION_WRAPPER in sdkconfig), which ends it.    *)
(***************************************************************************)
EXTENDS Naturals, Sequences

CONSTANTS
    SampleCap,     \* length of sample_q (16 in the code)
    TelemetryCap,  \* length of telemetry_q (16 in the code)
    Pumps,         \* the pump tasks that calls of iot_mqtt_start can create
    MaxSeq         \* bound on s_seq, for model checking

ASSUME SampleCapAssumption == SampleCap \in Nat \ {0}
ASSUME TelemetryCapAssumption == TelemetryCap \in Nat \ {0}
ASSUME MaxSeqAssumption == MaxSeq \in Nat

VARIABLES
    s_shutdown,      \* the shutdown flag every task polls at the top of its loop
    halted,          \* the wrapper has aborted the firmware
    s_seq,           \* the last sequence number given out
    sensor_isr_sem,  \* the binary semaphore that kicks the sensor task
    sensor,          \* where the sensor task is
    msg,             \* its message
    sample_q,
    proc,            \* where the processing task is
    out,             \* its message
    s_sensor_cache,  \* the message FF02 returns to a reader, 0 before the first
    telemetry_q,
    s_client,        \* an MQTT client handle exists
    s_state,         \* what iot_mqtt.c believes of the connection
    pump,            \* where each pump task is, "none" before it is created
    held,            \* the message of each pump task
    published,       \* the messages the MQTT client accepted, in order
    lost             \* the messages given up on the way

sensorVars == <<s_seq, sensor_isr_sem, sensor, msg>>
procVars == <<proc, out>>
mqttVars == <<s_client, s_state>>
pumpVars == <<pump, held, published>>
vars == <<s_shutdown, halted, sensorVars, sample_q, procVars, s_sensor_cache,
          telemetry_q, mqttVars, pumpVars, lost>>

MqttState == {"DOWN", "CONNECTING", "UP", "ERROR"}
SensorPc == {"check", "take", "send"}
ProcPc == {"check", "recv", "notify", "send"}
PumpPc == {"none", "recv", "check", "publish"}

(* The queues and tasks are those iot_tasks_start leaves: queues empty, the *)
(* semaphore given once by hand, every task at the top of its loop.         *)
Init ==
    /\ s_shutdown = FALSE
    /\ halted = FALSE
    /\ s_seq = 0
    /\ sensor_isr_sem = TRUE
    /\ sensor = "check"
    /\ msg = <<>>
    /\ sample_q = <<>>
    /\ proc = "check"
    /\ out = <<>>
    /\ s_sensor_cache = 0
    /\ telemetry_q = <<>>
    /\ s_client = FALSE
    /\ s_state = "DOWN"
    /\ pump = [p \in Pumps |-> "none"]
    /\ held = [p \in Pumps |-> <<>>]
    /\ published = <<>>
    /\ lost = {}

Content(q) == {q[i] : i \in 1..Len(q)}
-----------------------------------------------------------------------------
(* sensor_task *)

(* A slip: the flag is not looked at. *)
SensorCheckNoFlag ==
    /\ ~halted
    /\ sensor = "check"
    /\ sensor' = "take"
    /\ UNCHANGED <<s_shutdown, halted, s_seq, sensor_isr_sem, msg, sample_q, procVars,
                   s_sensor_cache, telemetry_q, mqttVars, pumpVars, lost>>

SensorCheck ==
    /\ ~halted
    /\ sensor = "check"
    /\ IF s_shutdown
         THEN halted' = TRUE /\ UNCHANGED sensor
         ELSE sensor' = "take" /\ UNCHANGED halted
    /\ UNCHANGED <<s_shutdown, s_seq, sensor_isr_sem, msg, sample_q, procVars,
                   s_sensor_cache, telemetry_q, mqttVars, pumpVars, lost>>

(* The result of the wait is ignored: given or timed out, a sample follows. *)
(* A hook that fails has used up its sequence number.                       *)
SensorWake ==
    /\ ~halted
    /\ sensor = "take"
    /\ s_seq < MaxSeq
    /\ s_seq' = s_seq + 1
    /\ sensor_isr_sem' = FALSE
    /\ \/ sensor' = "send" /\ msg' = <<s_seq + 1>> /\ UNCHANGED lost
       \/ sensor' = "check" /\ lost' = lost \cup {s_seq + 1} /\ UNCHANGED msg
    /\ UNCHANGED <<s_shutdown, halted, sample_q, procVars, s_sensor_cache,
                   telemetry_q, mqttVars, pumpVars>>

(* A slip: the sample is queued, taken for unsent and sent again. *)
SensorSendRetried ==
    /\ ~halted
    /\ sensor = "send"
    /\ \/ /\ Len(sample_q) < SampleCap
          /\ sample_q' = sample_q \o msg
          /\ \/ sensor' = "check" /\ msg' = <<>>
             \/ UNCHANGED <<sensor, msg>>
          /\ UNCHANGED lost
       \/ /\ Len(sample_q) = SampleCap
          /\ lost' = lost \cup Content(msg)
          /\ sensor' = "check" /\ msg' = <<>>
          /\ UNCHANGED sample_q
    /\ UNCHANGED <<s_shutdown, halted, s_seq, sensor_isr_sem, procVars, s_sensor_cache,
                   telemetry_q, mqttVars, pumpVars>>

(* A slip: one message more than the queue holds. *)
SensorSendOffByOne ==
    /\ ~halted
    /\ sensor = "send"
    /\ \/ Len(sample_q) <= SampleCap /\ sample_q' = sample_q \o msg /\ UNCHANGED lost
       \/ Len(sample_q) > SampleCap /\ lost' = lost \cup Content(msg) /\ UNCHANGED sample_q
    /\ sensor' = "check"
    /\ msg' = <<>>
    /\ UNCHANGED <<s_shutdown, halted, s_seq, sensor_isr_sem, procVars, s_sensor_cache,
                   telemetry_q, mqttVars, pumpVars>>

(* iot_queue_send waits up to 10 ms for a slot, then the sample is dropped. *)
SensorSend ==
    /\ ~halted
    /\ sensor = "send"
    /\ \/ Len(sample_q) < SampleCap /\ sample_q' = sample_q \o msg /\ UNCHANGED lost
       \/ Len(sample_q) = SampleCap /\ lost' = lost \cup Content(msg) /\ UNCHANGED sample_q
    /\ sensor' = "check"
    /\ msg' = <<>>
    /\ UNCHANGED <<s_shutdown, halted, s_seq, sensor_isr_sem, procVars, s_sensor_cache,
                   telemetry_q, mqttVars, pumpVars>>
-----------------------------------------------------------------------------
(* proc_task *)

ProcCheck ==
    /\ ~halted
    /\ proc = "check"
    /\ IF s_shutdown
         THEN halted' = TRUE /\ UNCHANGED proc
         ELSE proc' = "recv" /\ UNCHANGED halted
    /\ UNCHANGED <<s_shutdown, sensorVars, sample_q, out, s_sensor_cache, telemetry_q,
                   mqttVars, pumpVars, lost>>

ProcRecv ==
    /\ ~halted
    /\ proc = "recv"
    /\ \/ /\ sample_q # <<>>
          /\ out' = <<Head(sample_q)>>
          /\ sample_q' = Tail(sample_q)
          /\ proc' = "notify"
       \/ /\ sample_q = <<>>
          /\ proc' = "check"
          /\ UNCHANGED <<out, sample_q>>
    /\ UNCHANGED <<s_shutdown, halted, sensorVars, s_sensor_cache, telemetry_q,
                   mqttVars, pumpVars, lost>>

(* iot_ble_notify_sensor: the cache is written whether or not a central is  *)
(* connected; a notification that is not sent or fails changes nothing.     *)
ProcNotify ==
    /\ ~halted
    /\ proc = "notify"
    /\ s_sensor_cache' = out[1]
    /\ proc' = "send"
    /\ UNCHANGED <<s_shutdown, halted, sensorVars, sample_q, out, telemetry_q,
                   mqttVars, pumpVars, lost>>

(* A slip: the message is sent to the front of the queue. *)
ProcSendToFront ==
    /\ ~halted
    /\ proc = "send"
    /\ \/ /\ Len(telemetry_q) < TelemetryCap
          /\ telemetry_q' = out \o telemetry_q
          /\ UNCHANGED lost
       \/ /\ Len(telemetry_q) = TelemetryCap
          /\ lost' = lost \cup Content(out)
          /\ UNCHANGED telemetry_q
    /\ out' = <<>>
    /\ proc' = "check"
    /\ UNCHANGED <<s_shutdown, halted, sensorVars, sample_q, s_sensor_cache, mqttVars,
                   pumpVars>>

(* A slip: the message waits for a slot for as long as it takes. *)
ProcSendWaits ==
    /\ ~halted
    /\ proc = "send"
    /\ Len(telemetry_q) < TelemetryCap
    /\ telemetry_q' = telemetry_q \o out
    /\ out' = <<>>
    /\ proc' = "check"
    /\ UNCHANGED <<s_shutdown, halted, sensorVars, sample_q, s_sensor_cache, mqttVars,
                   pumpVars, lost>>

(* A message that finds telemetry_q full is dropped; nothing else notices. *)
ProcSend ==
    /\ ~halted
    /\ proc = "send"
    /\ \/ /\ Len(telemetry_q) < TelemetryCap
          /\ telemetry_q' = telemetry_q \o out
          /\ UNCHANGED lost
       \/ /\ Len(telemetry_q) = TelemetryCap
          /\ lost' = lost \cup Content(out)
          /\ UNCHANGED telemetry_q
    /\ out' = <<>>
    /\ proc' = "check"
    /\ UNCHANGED <<s_shutdown, halted, sensorVars, sample_q, s_sensor_cache, mqttVars,
                   pumpVars>>
-----------------------------------------------------------------------------
(* mqtt_pump and iot_mqtt_publish_telemetry *)

(* Slips: the message stays in the queue until it is published, and the    *)
(* loop ends on the first message that is refused.                          *)
PumpRecvPeek(p) ==
    /\ ~halted
    /\ pump[p] = "recv"
    /\ telemetry_q # <<>>
    /\ held' = [held EXCEPT ![p] = <<Head(telemetry_q)>>]
    /\ pump' = [pump EXCEPT ![p] = "check"]
    /\ UNCHANGED <<s_shutdown, halted, sensorVars, sample_q, procVars, s_sensor_cache,
                   telemetry_q, mqttVars, published, lost>>

PumpCheckStops(p) ==
    /\ ~halted
    /\ pump[p] = "check"
    /\ IF ~s_client \/ s_state # "UP"
         THEN /\ lost' = lost \cup Content(held[p])
              /\ held' = [held EXCEPT ![p] = <<>>]
              /\ pump' = [pump EXCEPT ![p] = "none"]
         ELSE /\ pump' = [pump EXCEPT ![p] = "publish"]
              /\ UNCHANGED <<held, lost>>
    /\ UNCHANGED <<s_shutdown, halted, sensorVars, sample_q, procVars, s_sensor_cache,
                   telemetry_q, mqttVars, published>>

(* A receive that times out goes round the loop: s_run stays TRUE, since    *)
(* nothing calls iot_mqtt_stop, and the pump does not look at s_shutdown.   *)
PumpRecv(p) ==
    /\ ~halted
    /\ pump[p] = "recv"
    /\ telemetry_q # <<>>
    /\ held' = [held EXCEPT ![p] = <<Head(telemetry_q)>>]
    /\ telemetry_q' = Tail(telemetry_q)
    /\ pump' = [pump EXCEPT ![p] = "check"]
    /\ UNCHANGED <<s_shutdown, halted, sensorVars, sample_q, procVars, s_sensor_cache,
                   mqttVars, published, lost>>

(* The message has left the queue: one refused because the connection is   *)
(* not up is lost.                                                          *)
PumpCheck(p) ==
    /\ ~halted
    /\ pump[p] = "check"
    /\ IF ~s_client \/ s_state # "UP"
         THEN /\ lost' = lost \cup Content(held[p])
              /\ held' = [held EXCEPT ![p] = <<>>]
              /\ pump' = [pump EXCEPT ![p] = "recv"]
         ELSE /\ pump' = [pump EXCEPT ![p] = "publish"]
              /\ UNCHANGED <<held, lost>>
    /\ UNCHANGED <<s_shutdown, halted, sensorVars, sample_q, procVars, s_sensor_cache,
                   telemetry_q, mqttVars, published>>

(* esp_mqtt_client_publish accepts the message or returns a negative id,    *)
(* whatever has become of the connection since the check.                   *)
PumpPublish(p) ==
    /\ ~halted
    /\ pump[p] = "publish"
    /\ \/ published' = published \o held[p] /\ UNCHANGED lost
       \/ lost' = lost \cup Content(held[p]) /\ UNCHANGED published
    /\ held' = [held EXCEPT ![p] = <<>>]
    /\ pump' = [pump EXCEPT ![p] = "recv"]
    /\ UNCHANGED <<s_shutdown, halted, sensorVars, sample_q, procVars, s_sensor_cache,
                   telemetry_q, mqttVars>>
-----------------------------------------------------------------------------
(* The rest of the firmware, as far as this path sees it. *)

(* iot_mqtt_start, called by app_main or by provisioning: the client cannot *)
(* be created, or it (or the task) fails to start, or a pump task is added. *)
MqttStart(p) ==
    /\ ~halted
    /\ pump[p] = "none"
    /\ \/ s_client' = FALSE /\ UNCHANGED <<s_state, pump>>
       \/ /\ s_client' = TRUE
          /\ s_state' = "CONNECTING"
          /\ UNCHANGED pump
       \/ /\ s_client' = TRUE
          /\ s_state' = "CONNECTING"
          /\ pump' = [pump EXCEPT ![p] = "recv"]
    /\ UNCHANGED <<s_shutdown, halted, sensorVars, sample_q, procVars, s_sensor_cache,
                   telemetry_q, held, published, lost>>

(* mqtt_event, on the MQTT client's task; only the state is seen here. *)
MqttEvent ==
    /\ ~halted
    /\ s_client
    /\ s_state' \in {"UP", "CONNECTING", "ERROR"}
    /\ UNCHANGED <<s_shutdown, halted, sensorVars, sample_q, procVars, s_sensor_cache,
                   telemetry_q, s_client, pumpVars, lost>>

(* iot_tasks_request_shutdown, by the plt.shutdown use case: the flag, then *)
(* an event bit.  The bit, 31, is one that FreeRTOS keeps for itself, so    *)
(* its assertion (enabled in sdkconfig) ends the firmware then and there.   *)
RequestShutdown ==
    /\ ~halted
    /\ s_shutdown' = TRUE
    /\ UNCHANGED <<halted, sensorVars, sample_q, procVars, s_sensor_cache, telemetry_q,
                   mqttVars, pumpVars, lost>>
ShutdownEvent ==
    /\ ~halted
    /\ s_shutdown
    /\ halted' = TRUE
    /\ UNCHANGED <<s_shutdown, sensorVars, sample_q, procVars, s_sensor_cache, telemetry_q,
                   mqttVars, pumpVars, lost>>
-----------------------------------------------------------------------------
SensorStep == SensorCheck \/ SensorWake \/ SensorSend
ProcStep == ProcCheck \/ ProcRecv \/ ProcNotify \/ ProcSend
PumpStep(p) == PumpRecv(p) \/ PumpCheck(p) \/ PumpPublish(p)

Next ==
    \/ SensorStep
    \/ ProcStep
    \/ \E p \in Pumps : PumpStep(p) \/ MqttStart(p)
    \/ MqttEvent
    \/ RequestShutdown
    \/ ShutdownEvent

Spec == Init /\ [][Next]_vars

(* A ready task runs in the end: each blocks in every iteration, the ones   *)
(* above them too, and equal priorities share the core by time slices.      *)
PumpIsFair(p) == WF_vars(PumpStep(p))

Fairness ==
    /\ WF_vars(SensorStep)
    /\ WF_vars(ProcStep)
    /\ \A p \in Pumps : PumpIsFair(p)

FairSpec == Spec /\ Fairness
-----------------------------------------------------------------------------
Started == {p \in Pumps : pump[p] # "none"}

Holding(h, P) == UNION {Content(h[p]) : p \in P}

AtHand == Holding(held, Pumps)

InFlight ==
    Content(msg) \cup Content(sample_q) \cup Content(out) \cup
    Content(telemetry_q) \cup AtHand

Increasing(s) == \A i, j \in 1..Len(s) : i < j => s[i] < s[j]

(* What a task's message variable can be when messages 1..k exist. *)
Slot(k) == {<<>>} \cup {<<n>> : n \in 1..k}

(* Every variable has its type, the queues respect their length, and a task *)
(* holds a message exactly where its code has one.                          *)
TypeOK ==
    /\ s_shutdown \in BOOLEAN
    /\ halted \in BOOLEAN
    /\ s_seq \in Nat
    /\ sensor_isr_sem \in BOOLEAN
    /\ sensor \in SensorPc
    /\ msg \in Slot(s_seq) /\ (msg # <<>> <=> sensor = "send")
    /\ sample_q \in Seq(1..s_seq) /\ Len(sample_q) <= SampleCap
    /\ proc \in ProcPc
    /\ out \in Slot(s_seq) /\ (out # <<>> <=> proc \in {"notify", "send"})
    /\ s_sensor_cache \in 0..s_seq
    /\ telemetry_q \in Seq(1..s_seq) /\ Len(telemetry_q) <= TelemetryCap
    /\ s_client \in BOOLEAN
    /\ s_state \in MqttState
    /\ pump \in [Pumps -> PumpPc]
    /\ held \in [Pumps -> Slot(s_seq)]
    /\ \A p \in Pumps : held[p] # <<>> <=> pump[p] \in {"check", "publish"}
    /\ published \in Seq(1..s_seq)
    /\ lost \in SUBSET (1..s_seq)

(* Conservation: every number the sensor task gave out is on its way, or   *)
(* was handed to the MQTT client, or was given up, and only one of these;  *)
(* no two pumps hold one message and none is handed over twice.  However    *)
(* many pumps iot_mqtt_start has created, and whenever MQTT comes and goes. *)
Accounted ==
    /\ InFlight \cup Content(published) \cup lost = 1..s_seq
    /\ InFlight \cap Content(published) = {}
    /\ InFlight \cap lost = {}
    /\ Content(published) \cap lost = {}
    /\ \A p, q \in Pumps : p # q => Content(held[p]) \cap Content(held[q]) = {}
    /\ \A i, j \in 1..Len(published) : published[i] = published[j] => i = j

(* As long as at most one pump was created, the MQTT client receives the    *)
(* messages in the order they were sampled, over losses and reconnections.  *)
InOrder == (\A p, q \in Started : p = q) => Increasing(published)

(* BLE is never behind MQTT and never goes back: what proc_task has passed  *)
(* on towards MQTT was in the FF02 cache before, and what it has not taken  *)
(* yet is newer than the cache.                                             *)
BleInStep ==
    /\ \A n \in Content(telemetry_q) \cup AtHand \cup Content(published) :
         n <= s_sensor_cache
    /\ \A n \in Content(sample_q) \cup Content(msg) : n > s_sensor_cache

(* Both ways out keep the order of the samples. *)
OrderIsKept == InOrder /\ BleInStep

(* Once shutdown is requested the sensor task, which may be blocked on the  *)
(* semaphore past its check of the flag, takes at most one more sample.     *)
OneSampleAfterShutdown ==
    \A n \in 0..MaxSeq :
        []((s_shutdown /\ s_seq = n) => [](s_seq <= n + 1))

(* Nothing is stuck: with a pump running, a sample is in the end handed to  *)
(* the MQTT client or given up, unless the firmware stops first.            *)
EverySampleSettles ==
    \A n \in 1..MaxSeq :
        (n <= s_seq /\ Started # {}) ~>
            (halted \/ n \in lost \/ n \in Content(published))

(* No task is stuck: short of the end of the firmware, neither a full queue *)
(* nor a connection that is down keeps the sensor task from sending what it *)
(* has numbered, the processing task from its next step, or a pump from     *)
(* what is at its hand or in telemetry_q.                                   *)
PumpCanRun(p) ==
    \/ pump[p] \in {"check", "publish"}
    \/ pump[p] = "recv" /\ telemetry_q # <<>>
    => ENABLED <<PumpStep(p)>>_vars

TasksCanRun ==
    ~halted =>
        /\ sensor = "send" => ENABLED <<SensorStep>>_vars
        /\ ENABLED <<ProcStep>>_vars
        /\ \A p \in Pumps : PumpCanRun(p)

(* The path implements the stream of TelemetryStream. *)
Stream == INSTANCE TelemetryStream
            WITH sampled <- s_seq, pending <- InFlight, delivered <- published

StreamSpec == Stream!Spec
=============================================================================
