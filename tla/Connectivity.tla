---------------------------- MODULE Connectivity ----------------------------
(***************************************************************************)
(* How the device gets on line: the end of app_main, the provisioning that *)
(* the command task runs, the Wi-Fi manager with its event handler, and    *)
(* the life of the MQTT clients, over the shared event group system_evt.    *)
(*                                                                         *)
(* The chip has one core.  The IDF event task is above every task of the    *)
(* firmware, so its handler is one step except where it sleeps; app_main    *)
(* (priority 1) and the command task (11) interleave with it and with each  *)
(* other, from the start of BLE on: a command can preempt iot_wifi_init.    *)
(* The Wi-Fi driver and the MQTT library are external.  Time is not         *)
(* modelled: a wait may time out at any moment.  Where the code aborts and  *)
(* the chip restarts (ESP_ERROR_CHECK), the model has no step.              *)
(***************************************************************************)
EXTENDS Naturals, Sequences, FiniteSets

CONSTANTS
    Clients,        \* the MQTT clients that can be created
    NoClient,       \* the null handle
    EventQueue,     \* length of the event loop's queue; the driver waits when it is full
    MaxProvisions   \* bound on the provisioning commands taken

ASSUME ClientsAssumption == NoClient \notin Clients
ASSUME EventQueueAssumption == EventQueue \in Nat \ {0}
ASSUME MaxProvisionsAssumption == MaxProvisions \in Nat

VARIABLES
    pc,          \* where app_main and the command task are
    provisioned, \* what app_main loaded from NVS: provisioned with an SSID
    provisions,  \* how many provisioning commands were taken
    wifi,        \* s_state of iot_wifi.c
    evt,         \* the bits of system_evt
    loop,        \* whether the event handler sleeps before a reconnect
    events,      \* the events queued to the IDF event loop
    link,        \* the Wi-Fi driver: the station's connection
    refused,     \* the last esp_wifi_connect was refused
    missed,      \* history: no connect since an event that asks for one found no handler
    mqtt,        \* s_state of iot_mqtt.c
    s_client,    \* the global client handle
    client,      \* the state of every client
    calls        \* who called into iot_mqtt.c: "init", then the starting tasks

bootVars == <<provisioned, provisions>>
wifiVars == <<wifi, loop, events, link, refused, missed>>
mqttVars == <<mqtt, s_client, client, calls>>
vars == <<pc, bootVars, evt, wifiVars, mqttVars>>

Task == {"main", "cmd"}

WifiState == {"DISCONNECTED", "CONNECTING", "CONNECTED", "IP_READY", "ERROR", "RECONNECTING"}
MqttState == {"DOWN", "CONNECTING", "UP", "ERROR"}
Event == {"STA_START", "STA_CONNECTED", "STA_DISCONNECTED", "GOT_IP"}
Link == {"absent", "stopped", "idle", "connecting", "associated", "ip"}
ClientState == {"none", "created", "down", "subscribing", "up", "failing"}

(* iot_wifi_init is at wifi_init, register, register_ip or wifi_state.      *)
(* iot_wifi_start is at config, accepted (its set_state(CONNECTING) has     *)
(* written the state and not yet the bits), start or failed (likewise, of   *)
(* WIFI_ERROR); iot_mqtt_start is at create, announce or launch.            *)
Pc == {"wifi_init", "register", "register_ip", "wifi_state", "mqtt_init", "idle",
       "config", "accepted", "start", "failed", "wait", "check", "create", "announce", "launch", "done"}

Initialising == {"wifi_init", "register", "register_ip", "wifi_state", "mqtt_init"}

WIFI_IP == "WIFI_IP"
MQTT_UP == "MQTT_UP"
PROVISIONED == "PROVISIONED"

(* app_main has started the tasks and BLE, so that the command task runs,   *)
(* and is about to initialise Wi-Fi.                                        *)
Init ==
    /\ pc = [main |-> "wifi_init", cmd |-> "idle"]
    /\ provisioned \in BOOLEAN
    /\ provisions = 0
    /\ wifi = "DISCONNECTED"
    /\ evt = {}
    /\ loop = "idle"
    /\ events = <<>>
    /\ link = "absent"
    /\ refused = FALSE
    /\ missed = FALSE
    /\ mqtt = "DOWN"
    /\ s_client = NoClient
    /\ client = [c \in Clients |-> "none"]
    /\ calls = <<>>

Goto(t, label) == pc' = [pc EXCEPT ![t] = label]
-----------------------------------------------------------------------------
(* set_state.  The mutex covers the assignment and not the bits. *)

StateBits(st) ==
    IF st = "IP_READY" THEN evt \cup {WIFI_IP} ELSE evt \ {WIFI_IP, MQTT_UP}

(* By the event handler, which no task that calls set_state can interrupt. *)
SetState(st) == wifi' = st /\ evt' = StateBits(st)
-----------------------------------------------------------------------------
(* The Wi-Fi driver and the network (external) *)

(* esp_wifi_connect, with q the events queued so far.  On a live connection *)
(* it does nothing or starts over; it may always be refused.                *)
EspWifiConnect(q, ok) ==
    /\ refused' = ~ok
    /\ missed' = FALSE
    /\ \/ UNCHANGED link /\ events' = q /\ (ok => link \notin {"absent", "stopped", "idle"})
       \/ ok /\ link = "idle" /\ link' = "connecting" /\ events' = q
       \/ /\ ok /\ link \in {"associated", "ip"} /\ Len(q) < EventQueue
          /\ link' = "connecting"
          /\ events' = Append(q, "STA_DISCONNECTED")

LinkStep(from, to, e) ==
    /\ link \in from
    /\ Len(events) < EventQueue
    /\ link' = to
    /\ events' = Append(events, e)
    /\ UNCHANGED <<pc, bootVars, evt, wifi, loop, refused, missed, mqttVars>>

Associates == LinkStep({"connecting"}, "associated", "STA_CONNECTED")
GetsIp == LinkStep({"associated"}, "ip", "GOT_IP")
LosesLink == LinkStep({"connecting", "associated", "ip"}, "idle", "STA_DISCONNECTED")

(* wifi_event, on the event task, once app_main has registered it *)

Handled(e) ==
    /\ pc.main \notin {"wifi_init", "register"}
    /\ e = "GOT_IP" => pc.main # "register_ip"

(* The event loop takes the next event, which has a handler. *)
Takes(e) == loop = "idle" /\ events # <<>> /\ Head(events) = e /\ Handled(e)

(* The event loop drops an event that nobody has registered for. *)
Unhandled ==
    /\ loop = "idle" /\ events # <<>> /\ ~Handled(Head(events))
    /\ events' = Tail(events)
    /\ missed' = (missed \/ Head(events) \in {"STA_START", "STA_DISCONNECTED"})
    /\ UNCHANGED <<pc, bootVars, evt, wifi, loop, link, refused, mqttVars>>

OnStart ==
    /\ Takes("STA_START")
    /\ SetState("CONNECTING")
    /\ \E ok \in BOOLEAN : EspWifiConnect(Tail(events), ok)
    /\ UNCHANGED <<pc, bootVars, loop, mqttVars>>

OnConnected ==
    /\ Takes("STA_CONNECTED")
    /\ SetState("CONNECTED")
    /\ events' = Tail(events)
    /\ UNCHANGED <<pc, bootVars, loop, link, refused, missed, mqttVars>>

(* A slip: a disconnection is dealt with only if a connection was made. *)
OnDisconnectedOnceUp ==
    /\ Takes("STA_DISCONNECTED")
    /\ IF wifi \in {"CONNECTED", "IP_READY"}
         THEN SetState("RECONNECTING") /\ loop' = "delay"
         ELSE UNCHANGED <<wifi, evt, loop>>
    /\ events' = Tail(events)
    /\ UNCHANGED <<pc, bootVars, link, refused, missed, mqttVars>>

(* A slip: the state is left until the delay is over. *)
OnDisconnectedLate ==
    /\ Takes("STA_DISCONNECTED")
    /\ loop' = "delay"
    /\ events' = Tail(events)
    /\ UNCHANGED <<pc, bootVars, wifi, evt, link, refused, missed, mqttVars>>

(* The handler goes on in Reconnect, after a delay: min(backoff, 50 ms).  *)
OnDisconnected ==
    /\ Takes("STA_DISCONNECTED")
    /\ SetState("RECONNECTING")
    /\ loop' = "delay"
    /\ events' = Tail(events)
    /\ UNCHANGED <<pc, bootVars, link, refused, missed, mqttVars>>

(* The state is CONNECTING even if the connect was refused. *)
Reconnect ==
    /\ loop = "delay"
    /\ \E ok \in BOOLEAN : EspWifiConnect(events, ok)
    /\ SetState("CONNECTING")
    /\ loop' = "idle"
    /\ UNCHANGED <<pc, bootVars, mqttVars>>

OnGotIp ==
    /\ Takes("GOT_IP")
    /\ SetState("IP_READY")
    /\ events' = Tail(events)
    /\ UNCHANGED <<pc, bootVars, loop, link, refused, missed, mqttVars>>
-----------------------------------------------------------------------------
(* iot_wifi_init, and iot_wifi_start as called by task t *)

(* esp_wifi_init makes the driver usable, or fails and ends the call. *)
WifiInit ==
    /\ pc.main = "wifi_init"
    /\ \/ link' = "stopped" /\ Goto("main", "register")
       \/ UNCHANGED link /\ Goto("main", "mqtt_init")
    /\ UNCHANGED <<bootVars, evt, wifi, loop, events, refused, missed, mqttVars>>

(* The handler is registered, for Wi-Fi events and then for the address. *)
WifiRegister ==
    /\ \/ pc.main = "register" /\ Goto("main", "register_ip")
       \/ pc.main = "register_ip" /\ Goto("main", "wifi_state")
    /\ UNCHANGED <<bootVars, evt, wifiVars, mqttVars>>

(* esp_wifi_set_mode asks for the mode the driver has from its start.  The  *)
(* state is written without the mutex and without the bits, whatever a      *)
(* command has made of Wi-Fi meanwhile.                                     *)
WifiReset ==
    /\ pc.main = "wifi_state"
    /\ wifi' = "DISCONNECTED"
    /\ Goto("main", "mqtt_init")
    /\ UNCHANGED <<bootVars, evt, loop, events, link, refused, missed, mqttVars>>

(* esp_wifi_set_config may be refused at any time and is before wifi_init. *)
WifiConfig(t) ==
    /\ pc[t] = "config"
    /\ \/ link # "absent" /\ wifi' = "CONNECTING" /\ Goto(t, "accepted")
       \/ wifi' = "ERROR" /\ Goto(t, "failed")
    /\ UNCHANGED <<bootVars, evt, loop, events, link, refused, missed, mqttVars>>

WifiAccepted(t) ==
    /\ pc[t] = "accepted"
    /\ evt' = StateBits("CONNECTING")
    /\ Goto(t, "start")
    /\ UNCHANGED <<bootVars, wifiVars, mqttVars>>

(* esp_wifi_start starts a stopped station.  A started one is left as it is *)
(* or reported as ESP_ERR_WIFI_STATE, upon which the code connects.         *)
WifiStart(t) ==
    /\ pc[t] = "start"
    /\ \/ /\ link = "stopped" /\ link' = "idle"
          /\ Len(events) < EventQueue
          /\ events' = Append(events, "STA_START")
          /\ Goto(t, "wait")
          /\ UNCHANGED <<wifi, refused, missed>>
       \/ /\ link # "stopped"
          /\ Goto(t, "wait")
          /\ UNCHANGED <<wifi, events, link, refused, missed>>
       \/ /\ link # "stopped"
          /\ EspWifiConnect(events, TRUE)
          /\ Goto(t, "wait")
          /\ UNCHANGED wifi
       \/ /\ \/ link # "stopped" /\ EspWifiConnect(events, FALSE)
             \/ UNCHANGED <<events, link, refused, missed>>
          /\ wifi' = "ERROR"
          /\ Goto(t, "failed")
    /\ UNCHANGED <<bootVars, evt, loop, mqttVars>>

(* A slip: app_main gives up as provisioning does. *)
WifiFailedGivesUp(t) ==
    /\ pc[t] = "failed"
    /\ evt' = StateBits("ERROR")
    /\ Goto(t, "idle")
    /\ UNCHANGED <<bootVars, wifiVars, mqttVars>>

(* app_main ignores the error and waits; provisioning gives up. *)
WifiFailed(t) ==
    /\ pc[t] = "failed"
    /\ evt' = StateBits("ERROR")
    /\ Goto(t, IF t = "main" THEN "wait" ELSE "idle")
    /\ UNCHANGED <<bootVars, wifiVars, mqttVars>>

(* A slip: the wait has no timeout. *)
WifiWaitForever(t) ==
    /\ pc[t] = "wait"
    /\ WIFI_IP \in evt
    /\ Goto(t, IF t = "main" THEN "create" ELSE "check")
    /\ UNCHANGED <<bootVars, evt, wifiVars, mqttVars>>

(* iot_event_wait returns when the bit is set or after 30 s; what it returns *)
(* are the bits at that moment.                                              *)
WifiWait(t) ==
    /\ pc[t] = "wait"
    /\ IF WIFI_IP \in evt
         THEN Goto(t, IF t = "main" THEN "create" ELSE "check")
         ELSE Goto(t, IF t = "main" THEN "done" ELSE "idle")
    /\ UNCHANGED <<bootVars, evt, wifiVars, mqttVars>>
-----------------------------------------------------------------------------
(* iot_mqtt_start, as called by task t *)

Return(t) == Goto(t, IF t = "main" THEN "done" ELSE "idle")

(* The new handle: which one it is tells nothing. *)
Fresh == CHOOSE c \in Clients : client[c] = "none"

(* esp_mqtt_client_init: no memory, or a new client in the global handle. *)
MqttCreate(t) ==
    /\ pc[t] = "create"
    /\ calls' = Append(calls, t)
    /\ \/ s_client' = NoClient /\ Return(t) /\ UNCHANGED client
       \/ \E c \in Clients :
            /\ client[c] = "none" /\ c = Fresh
            /\ client' = [client EXCEPT ![c] = "created"]
            /\ s_client' = c
            /\ Goto(t, "announce")
    /\ UNCHANGED <<bootVars, evt, wifiVars, mqtt>>

MqttAnnounce(t) ==
    /\ pc[t] = "announce"
    /\ mqtt' = "CONNECTING"
    /\ Goto(t, "launch")
    /\ UNCHANGED <<bootVars, evt, wifiVars, s_client, client, calls>>

(* Slips: the state is announced after the client was started; a failed    *)
(* start puts the state back.                                              *)
MqttLaunchThenAnnounce(t) ==
    /\ pc[t] = "launch"
    /\ \/ /\ s_client # NoClient /\ client[s_client] = "created"
          /\ client' = [client EXCEPT ![s_client] = "down"]
          /\ UNCHANGED <<pc, mqtt>>
       \/ /\ s_client # NoClient /\ client[s_client] # "created"
          /\ mqtt' = "CONNECTING" /\ Return(t)
          /\ UNCHANGED client
       \/ UNCHANGED <<client, mqtt>> /\ Return(t)
    /\ UNCHANGED <<bootVars, evt, wifiVars, s_client, calls>>

MqttLaunchUndone(t) ==
    /\ pc[t] = "launch"
    /\ \/ /\ s_client # NoClient /\ client[s_client] = "created"
          /\ client' = [client EXCEPT ![s_client] = "down"]
          /\ mqtt' \in {mqtt, "DOWN"}
       \/ UNCHANGED client /\ mqtt' = "DOWN"
    /\ Return(t)
    /\ UNCHANGED <<bootVars, evt, wifiVars, s_client, calls>>

(* esp_mqtt_client_start takes the global handle, and refuses a null one or *)
(* a client that runs.  A started client's pump is created last (Telemetry  *)
(* has the pumps); that may fail too, and nothing here tells the difference. *)
(* The state stays CONNECTING in every case.                                *)
MqttLaunch(t) ==
    /\ pc[t] = "launch"
    /\ \/ /\ s_client # NoClient /\ client[s_client] = "created"
          /\ client' = [client EXCEPT ![s_client] = "down"]
       \/ UNCHANGED client
    /\ Return(t)
    /\ UNCHANGED <<bootVars, evt, wifiVars, mqtt, s_client, calls>>
-----------------------------------------------------------------------------
(* mqtt_event, on the task of client c (external: when the library calls it) *)

(* Its connection is made: the state is UP, and the three subscriptions are *)
(* sent before the bit is set.                                              *)
OnMqttConnected(c) ==
    /\ client[c] = "down" /\ link = "ip"
    /\ client' = [client EXCEPT ![c] = "subscribing"]
    /\ mqtt' = "UP"
    /\ UNCHANGED <<pc, bootVars, evt, wifiVars, s_client, calls>>

OnMqttSubscribed(c) ==
    /\ client[c] = "subscribing"
    /\ client' = [client EXCEPT ![c] = "up"]
    /\ evt' = evt \cup {MQTT_UP}
    /\ UNCHANGED <<pc, bootVars, wifiVars, mqtt, s_client, calls>>

(* A slip: the bit is left to the Wi-Fi manager. *)
OnMqttDisconnectedStateOnly(c) ==
    /\ client[c] \in {"down", "up", "failing"}
    /\ client' = [client EXCEPT ![c] = "down"]
    /\ mqtt' = "CONNECTING"
    /\ UNCHANGED <<pc, bootVars, evt, wifiVars, s_client, calls>>

(* The library ends a connection or an attempt, after an error or without. *)
OnMqttDisconnected(c) ==
    /\ client[c] \in {"down", "up", "failing"}
    /\ client' = [client EXCEPT ![c] = "down"]
    /\ mqtt' = "CONNECTING"
    /\ evt' = evt \ {MQTT_UP}
    /\ UNCHANGED <<pc, bootVars, wifiVars, s_client, calls>>

(* MQTT_UP is left alone. *)
OnMqttError(c) ==
    /\ client[c] \in {"down", "up"}
    /\ client' = [client EXCEPT ![c] = "failing"]
    /\ mqtt' = "ERROR"
    /\ UNCHANGED <<pc, bootVars, evt, wifiVars, s_client, calls>>
-----------------------------------------------------------------------------
(* app_main and the command task *)

MqttInit ==
    /\ pc.main = "mqtt_init"
    /\ mqtt' = "DOWN"
    /\ calls' = Append(calls, "init")
    /\ Goto("main", IF provisioned THEN "config" ELSE "done")
    /\ UNCHANGED <<bootVars, evt, wifiVars, s_client, client>>

(* A provisioning command, up to iot_wifi_start: rejected for what it says  *)
(* or because NVS fails, or saved.                                          *)
Provision ==
    /\ pc.cmd = "idle"
    /\ provisions < MaxProvisions
    /\ provisions' = provisions + 1
    /\ \/ evt' = evt \cup {PROVISIONED} /\ Goto("cmd", "config")
       \/ UNCHANGED <<evt, pc>>
    /\ UNCHANGED <<provisioned, wifiVars, mqttVars>>

(* "Do not start MQTT twice." *)
MqttCheck ==
    /\ pc.cmd = "check"
    /\ Goto("cmd", IF mqtt = "DOWN" THEN "create" ELSE "idle")
    /\ UNCHANGED <<bootVars, evt, wifiVars, mqttVars>>
-----------------------------------------------------------------------------
OnlineStep(t) ==
    \/ WifiConfig(t) \/ WifiAccepted(t) \/ WifiStart(t) \/ WifiFailed(t) \/ WifiWait(t)
    \/ MqttCreate(t) \/ MqttAnnounce(t) \/ MqttLaunch(t)

MainStep == WifiInit \/ WifiRegister \/ WifiReset \/ MqttInit \/ OnlineStep("main")
CmdStep == MqttCheck \/ OnlineStep("cmd")
LoopStep == Unhandled \/ OnStart \/ OnConnected \/ OnDisconnected \/ Reconnect \/ OnGotIp
LinkMoves == Associates \/ GetsIp \/ LosesLink
ClientStep(c) ==
    \/ OnMqttConnected(c) \/ OnMqttSubscribed(c)
    \/ OnMqttDisconnected(c) \/ OnMqttError(c)

Next ==
    \/ MainStep
    \/ CmdStep
    \/ Provision
    \/ LoopStep
    \/ LinkMoves
    \/ \E c \in Clients : ClientStep(c)

Spec == Init /\ [][Next]_vars

(* Both tasks and the event task run whenever they are ready.  Nothing is   *)
(* assumed of the network, of the MQTT library or of the commands.          *)
Fairness == WF_vars(MainStep) /\ WF_vars(CmdStep) /\ WF_vars(LoopStep)

FairSpec == Spec /\ Fairness
-----------------------------------------------------------------------------
Pending == {events[i] : i \in 1..Len(events)}

Running == {c \in Clients : client[c] \notin {"none", "created"}}

(* Every variable has its type, the event queue its length, and app_main   *)
(* and the command task are where their own code can be.                   *)
TypeOK ==
    /\ pc \in [Task -> Pc]
    /\ pc.main \notin {"idle", "check"}
    /\ pc.cmd \notin Initialising \cup {"done"}
    /\ provisioned \in BOOLEAN
    /\ provisions \in 0..MaxProvisions
    /\ wifi \in WifiState
    /\ evt \subseteq {WIFI_IP, MQTT_UP, PROVISIONED}
    /\ loop \in {"idle", "delay"}
    /\ events \in Seq(Event) /\ Len(events) <= EventQueue
    /\ link \in Link
    /\ refused \in BOOLEAN
    /\ missed \in BOOLEAN
    /\ mqtt \in MqttState
    /\ s_client \in Clients \cup {NoClient}
    /\ client \in [Clients -> ClientState]
    /\ calls \in Seq(Task \cup {"init"})

(* Nobody is let through by an old connection for good: while WIFI_IP is    *)
(* set the station has its address, or the event that takes the bit back is *)
(* on its way to the handler.  The state s_state may say anything: the end  *)
(* of iot_wifi_init and set_state write it apart from the bits.             *)
IpBitMeansIp ==
    WIFI_IP \in evt => link = "ip" \/ "STA_DISCONNECTED" \in Pending

(* IP_READY is never wrong for good: the station has its address, or the    *)
(* event that says otherwise is on its way to the handler.                  *)
IpReadyIsCurrent ==
    wifi = "IP_READY" => link = "ip" \/ "STA_DISCONNECTED" \in Pending

(* However many clients there are and whatever Wi-Fi does meanwhile, the    *)
(* MQTT_UP bit is set only while the session of some client lasts.          *)
MqttUpBit == MQTT_UP \in evt => \E c \in Clients : client[c] \in {"up", "failing"}

(* What the event bits promise to those who wait for them is so. *)
BitsAreTrue == IpBitMeansIp /\ MqttUpBit

(* With one call of iot_mqtt_start, made after iot_mqtt_init, the state     *)
(* that iot_mqtt_publish_telemetry checks is UP exactly while the client is *)
(* connected: no step of the caller overwrites what the client's task wrote. *)
UpMatches ==
    \A t \in Task :
        calls = <<"init", t>> =>
            (mqtt = "UP" <=> \E c \in Clients : client[c] \in {"subscribing", "up"})

(* Provisioning never starts a second client by itself: if app_main makes   *)
(* no start and none came before iot_mqtt_init, at most one client exists,  *)
(* over any number of provisionings, failures and reconnections.            *)
ProvisioningStartsOne ==
    (calls # <<>> /\ calls[1] = "init" /\ \A i \in 1..Len(calls) : calls[i] # "main") =>
        Cardinality({c \in Clients : client[c] # "none"}) <= 1

(* No task waits for what may never come: neither a missing network, nor a  *)
(* full event queue, nor a call that is refused keeps app_main from its     *)
(* next step before its end, the command task before it is through with a   *)
(* command, or the handler while there is an event.                         *)
TasksCanRun ==
    /\ pc.main # "done" => ENABLED <<MainStep>>_vars
    /\ pc.cmd # "idle" => ENABLED <<CmdStep>>_vars
    /\ loop = "delay" \/ events # <<>> => ENABLED <<LoopStep>>_vars

(* A station without a connection has not been forgotten: an event that     *)
(* makes the handler connect is on its way, or the handler is about to; or  *)
(* the driver refused the last attempt, or the event came before app_main   *)
(* had registered the handler, which leaves the station idle for good.      *)
AttemptIsDue ==
    link = "idle" =>
        \/ refused \/ missed
        \/ loop = "delay" \/ Pending \cap {"STA_START", "STA_DISCONNECTED"} # {}

(* What the driver does is known to the firmware or on its way to it. *)
LinkIsFollowed == IpReadyIsCurrent /\ AttemptIsDue

(* app_main gets to the end whatever the network does, and the command task *)
(* always comes back for the next command.                                  *)
BootCompletes == <>(pc.main = "done")
CommandReturns == pc.cmd # "idle" ~> pc.cmd = "idle"
TasksReturn == BootCompletes /\ CommandReturns

(* A station that is not connected tries again, unless the driver refused   *)
(* its last attempt or the event that asks for one came before its handler, *)
(* after either of which nothing in the firmware tries again by itself.     *)
Reconnects == link = "idle" ~> (link # "idle" \/ refused \/ missed)

(* What the comment in iot_provision_apply_json promises: "Do not start     *)
(* MQTT twice."                                                             *)
MqttStartedOnce == Cardinality(Running) <= 1

(* What the comments of iot_wifi.c and the module's README say: IP_READY    *)
(* sets WIFI_IP, for which MQTT waits.                                      *)
IpReadyIsSignalled ==
    (wifi = "IP_READY" /\ \A t \in Task : pc[t] \notin {"accepted", "failed"}) =>
        WIFI_IP \in evt
=============================================================================
