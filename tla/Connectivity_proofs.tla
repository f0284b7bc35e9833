------------------------- MODULE Connectivity_proofs -------------------------
(***************************************************************************)
(* Proofs about how the device gets on line, for every set of MQTT         *)
(* clients, every length of the event queue and any number of provisioning *)
(* commands.                                                               *)
(***************************************************************************)
EXTENDS Connectivity, LeadsToRules, FiniteSetTheorems, SequenceTheorems, TLAPS

-----------------------------------------------------------------------------
(* The event queue *)

LEMMA AddEvent ==
    ASSUME NEW S, NEW q \in Seq(S), NEW e \in S
    PROVE  /\ Append(q, e) \in Seq(S)
           /\ Len(Append(q, e)) = Len(q) + 1
           /\ Append(q, e)[Len(q) + 1] = e
           /\ \A i \in 1..Len(q) : Append(q, e)[i] = q[i]
  OBVIOUS

LEMMA TakeEvent ==
    ASSUME NEW S, NEW q \in Seq(S), q # <<>>
    PROVE  /\ Head(q) \in S
           /\ Head(q) = q[1]
           /\ Len(q) \in Nat \ {0}
           /\ Tail(q) \in Seq(S)
           /\ Len(Tail(q)) = Len(q) - 1
           /\ \A i \in 1..Len(Tail(q)) : Tail(q)[i] = q[i + 1]
  OBVIOUS

(* What the driver does with the queue it is given. *)
LEMMA ConnectEffect ==
    ASSUME NEW q \in Seq(Event), Len(q) <= EventQueue, NEW ok \in BOOLEAN,
           EspWifiConnect(q, ok), link \in Link
    PROVE  /\ link' \in Link /\ refused' \in BOOLEAN /\ missed' = FALSE
           /\ events' \in Seq(Event) /\ Len(events') <= EventQueue
           /\ \/ link' = link /\ events' = q
              \/ link = "idle" /\ link' = "connecting" /\ events' = q
              \/ /\ link \in {"associated", "ip"} /\ link' = "connecting"
                 /\ events' = Append(q, "STA_DISCONNECTED")
  <1>1. "STA_DISCONNECTED" \in Event /\ "connecting" \in Link
    BY DEF Event, Link
  <1>2. Append(q, "STA_DISCONNECTED") \in Seq(Event)
        /\ Len(Append(q, "STA_DISCONNECTED")) = Len(q) + 1
    BY <1>1, AddEvent
  <1>3. Len(q) \in Nat /\ EventQueue \in Nat
    BY EventQueueAssumption
  <1> QED
    BY <1>1, <1>2, <1>3 DEF EspWifiConnect

LEMMA BitsType ==
    ASSUME NEW st, evt \subseteq {WIFI_IP, MQTT_UP, PROVISIONED}
    PROVE  StateBits(st) \subseteq {WIFI_IP, MQTT_UP, PROVISIONED}
  BY DEF StateBits

LEMMA TypeInit == Init => TypeOK
  <1> SUFFICES ASSUME Init PROVE TypeOK
    OBVIOUS
  <1>1. (events \in Seq(Event) /\ Len(events) <= EventQueue
         /\ calls \in Seq(Task \cup {"init"}))
    BY EventQueueAssumption DEF Init
  <1>2. /\ pc \in [Task -> Pc] /\ pc.main = "wifi_init"
        /\ pc.cmd \notin Initialising \cup {"done"}
    BY DEF Init, Task, Pc, Initialising
  <1>3. provisions \in 0..MaxProvisions
    BY MaxProvisionsAssumption DEF Init
  <1>4. client \in [Clients -> ClientState]
    BY DEF Init, ClientState
  <1> QED
    BY <1>1, <1>2, <1>3, <1>4 DEF Init, TypeOK, WifiState, Link, MqttState

(* Each group of actions keeps the types. *)

LEMMA LoopTypes == TypeOK /\ LoopStep => TypeOK'
  <1> SUFFICES ASSUME TypeOK, LoopStep PROVE TypeOK'
    OBVIOUS
  <1> USE DEF bootVars, mqttVars, Takes
  <1>0. events \in Seq(Event) /\ Len(events) <= EventQueue /\ link \in Link
        /\ Len(events) \in Nat /\ EventQueue \in Nat
    BY EventQueueAssumption DEF TypeOK
  <1>1. events # <<>> => Tail(events) \in Seq(Event) /\ Len(Tail(events)) <= EventQueue
    BY <1>0, TakeEvent
  <1>2. \A st : StateBits(st) \subseteq {WIFI_IP, MQTT_UP, PROVISIONED}
    BY BitsType DEF TypeOK
  <1>3. CASE OnStart
    <2>1. PICK ok \in BOOLEAN : EspWifiConnect(Tail(events), ok)
      BY <1>3 DEF OnStart
    <2>2. (link \in Link /\ refused \in BOOLEAN /\ missed \in BOOLEAN
           /\ events \in Seq(Event) /\ Len(events) <= EventQueue)'
      BY <1>0, <1>1, <1>3, <2>1, ConnectEffect DEF OnStart
    <2> QED
      BY <1>2, <1>3, <2>2 DEF TypeOK, OnStart, SetState, WifiState
  <1>4. CASE Reconnect
    <2>1. PICK ok \in BOOLEAN : EspWifiConnect(events, ok)
      BY <1>4 DEF Reconnect
    <2>2. (link \in Link /\ refused \in BOOLEAN /\ missed \in BOOLEAN
           /\ events \in Seq(Event) /\ Len(events) <= EventQueue)'
      BY <1>0, <2>1, ConnectEffect
    <2> QED
      BY <1>2, <1>4, <2>2 DEF TypeOK, Reconnect, SetState, WifiState
  <1>5. CASE OnConnected \/ OnDisconnected \/ OnGotIp
    BY <1>1, <1>2, <1>5
    DEF TypeOK, OnConnected, OnDisconnected, OnGotIp, SetState, WifiState
  <1>6. CASE Unhandled
    BY <1>1, <1>6 DEF TypeOK, Unhandled
  <1> QED
    BY <1>3, <1>4, <1>5, <1>6 DEF LoopStep

LEMMA LinkTypes == TypeOK /\ LinkMoves => TypeOK'
  <1> SUFFICES ASSUME TypeOK, LinkMoves PROVE TypeOK'
    OBVIOUS
  <1> USE DEF bootVars, mqttVars
  <1>1. PICK from \in SUBSET Link, to \in Link, e \in Event : LinkStep(from, to, e)
    BY DEF LinkMoves, Associates, GetsIp, LosesLink, Link, Event
  <1>2. Append(events, e) \in Seq(Event) /\ Len(Append(events, e)) = Len(events) + 1
        /\ Len(events) \in Nat /\ EventQueue \in Nat
    BY AddEvent, EventQueueAssumption DEF TypeOK
  <1>3. events' \in Seq(Event) /\ Len(events') <= EventQueue /\ link' \in Link
    BY <1>1, <1>2 DEF LinkStep
  <1> QED
    BY <1>1, <1>3 DEF LinkStep, TypeOK

LEMMA TaskTypes ==
    ASSUME TypeOK, NEW t \in Task, OnlineStep(t)
    PROVE  TypeOK'
  <1> USE DEF bootVars, wifiVars, mqttVars, Goto, Initialising
  <1>0. t \in {"main", "cmd"} /\ pc \in [Task -> Pc] /\ Task = {"main", "cmd"}
    BY DEF TypeOK, Task
  <1>1. \A st : StateBits(st) \subseteq {WIFI_IP, MQTT_UP, PROVISIONED}
    BY BitsType DEF TypeOK
  <1>2. CASE WifiConfig(t)
    BY <1>0, <1>2 DEF WifiConfig, TypeOK, Pc, WifiState
  <1>3. CASE WifiAccepted(t)
    BY <1>0, <1>1, <1>3 DEF WifiAccepted, TypeOK, Pc
  <1>4. CASE WifiStart(t)
    <2>0. events \in Seq(Event) /\ Len(events) <= EventQueue /\ link \in Link
          /\ Len(events) \in Nat /\ EventQueue \in Nat /\ "STA_START" \in Event
      BY EventQueueAssumption DEF TypeOK, Event
    <2>1. (link \in Link /\ refused \in BOOLEAN /\ missed \in BOOLEAN
           /\ events \in Seq(Event) /\ Len(events) <= EventQueue)'
      <3>1. CASE EspWifiConnect(events, TRUE) \/ EspWifiConnect(events, FALSE)
        BY <2>0, <3>1, ConnectEffect
      <3>2. CASE UNCHANGED <<events, link, refused, missed>>
        BY <2>0, <3>2 DEF TypeOK
      <3>3. CASE /\ Len(events) < EventQueue /\ link' = "idle" /\ UNCHANGED <<refused, missed>>
                 /\ events' = Append(events, "STA_START")
        BY <2>0, <3>3, AddEvent DEF TypeOK, Link
      <3> QED
        BY <1>4, <3>1, <3>2, <3>3 DEF WifiStart
    <2>2. pc' \in [Task -> Pc] /\ pc'.main \notin {"idle", "check"}
          /\ pc'.cmd \notin Initialising \cup {"done"}
      BY <1>0, <1>4 DEF WifiStart, TypeOK, Pc
    <2> QED
      BY <1>4, <2>1, <2>2 DEF WifiStart, TypeOK, WifiState
  <1>5. CASE WifiFailed(t)
    BY <1>0, <1>1, <1>5 DEF WifiFailed, TypeOK, Pc
  <1>6. CASE WifiWait(t)
    BY <1>0, <1>6 DEF WifiWait, TypeOK, Pc
  <1>7. CASE MqttCreate(t)
    <2>1. calls' \in Seq(Task \cup {"init"})
      BY <1>7 DEF MqttCreate, TypeOK
    <2>2. (client \in [Clients -> ClientState] /\ s_client \in Clients \cup {NoClient})'
      BY <1>7 DEF MqttCreate, TypeOK, ClientState
    <2>3. pc' \in [Task -> Pc] /\ pc'.main \notin {"idle", "check"}
          /\ pc'.cmd \notin Initialising \cup {"done"}
      BY <1>0, <1>7 DEF MqttCreate, Return, TypeOK, Pc
    <2> QED
      BY <1>7, <2>1, <2>2, <2>3 DEF MqttCreate, TypeOK
  <1>8. CASE MqttAnnounce(t)
    BY <1>0, <1>8 DEF MqttAnnounce, TypeOK, Pc, MqttState
  <1>9. CASE MqttLaunch(t)
    <2>1. client' \in [Clients -> ClientState]
      BY <1>9 DEF MqttLaunch, TypeOK, ClientState
    <2>2. pc' \in [Task -> Pc] /\ pc'.main \notin {"idle", "check"}
          /\ pc'.cmd \notin Initialising \cup {"done"}
      BY <1>0, <1>9 DEF MqttLaunch, Return, TypeOK, Pc
    <2> QED
      BY <1>9, <2>1, <2>2 DEF MqttLaunch, TypeOK
  <1> QED
    BY <1>2, <1>3, <1>4, <1>5, <1>6, <1>7, <1>8, <1>9 DEF OnlineStep

LEMMA TypeNext == TypeOK /\ [Next]_vars => TypeOK'
  <1> SUFFICES ASSUME TypeOK, [Next]_vars PROVE TypeOK'
    OBVIOUS
  <1> USE DEF bootVars, wifiVars, mqttVars, Goto, Task, Initialising
  <1>1. CASE WifiInit \/ WifiRegister \/ WifiReset
    BY <1>1 DEF WifiInit, WifiRegister, WifiReset, TypeOK, Pc, Link, WifiState
  <1>2. CASE MqttInit
    <2>1. calls' \in Seq(Task \cup {"init"})
      BY <1>2 DEF MqttInit, TypeOK
    <2> QED
      BY <1>2, <2>1 DEF MqttInit, TypeOK, Pc, MqttState
  <1>3. CASE Provision
    BY <1>3, MaxProvisionsAssumption DEF Provision, TypeOK, Pc
  <1>4. CASE MqttCheck
    BY <1>4 DEF MqttCheck, TypeOK, Pc
  <1>5. ASSUME NEW c \in Clients, ClientStep(c) PROVE TypeOK'
    BY <1>5 DEF ClientStep, OnMqttConnected, OnMqttSubscribed, OnMqttDisconnected,
                OnMqttError, TypeOK, ClientState, MqttState
  <1>6. CASE UNCHANGED vars
    BY <1>6 DEF vars, TypeOK
  <1> QED
    BY <1>1, <1>2, <1>3, <1>4, <1>5, <1>6, LoopTypes, LinkTypes, TaskTypes
    DEF Next, MainStep, CmdStep

(* Type correctness; among it, app_main never gets into the provisioning    *)
(* code's states and the command task always has a way back to its loop.    *)
THEOREM TypeCorrect == Spec => []TypeOK
  BY TypeInit, TypeNext, PTL DEF Spec
-----------------------------------------------------------------------------
(* The ways of the two tasks: each goes from place to place without a circle. *)

(* The places that follow a place, for either task. *)
Follow(x) ==
    CASE x = "wifi_init" -> {"register", "mqtt_init"}
      [] x = "register" -> {"register_ip"}
      [] x = "register_ip" -> {"wifi_state"}
      [] x = "wifi_state" -> {"mqtt_init"}
      [] x = "mqtt_init" -> {"config", "done"}
      [] x = "config" -> {"accepted", "failed"}
      [] x = "accepted" -> {"start"}
      [] x = "start" -> {"failed", "wait"}
      [] x = "failed" -> {"wait", "idle"}
      [] x = "wait" -> {"create", "check", "done", "idle"}
      [] x = "check" -> {"create", "idle"}
      [] x = "create" -> {"announce", "done", "idle"}
      [] x = "announce" -> {"launch"}
      [] x = "launch" -> {"done", "idle"}
      [] OTHER -> {}

(* A step of a task moves it on, and moves nobody else. *)
LEMMA OnlineMoves ==
    ASSUME TypeOK, NEW t \in Task, OnlineStep(t)
    PROVE  pc'[t] \in Follow(pc[t]) /\ \A u \in Task \ {t} : pc'[u] = pc[u]
  <1>0. pc \in [Task -> Pc]
    BY DEF TypeOK
  <1> USE <1>0 DEF Goto, Return, Follow
  <1>1. CASE WifiConfig(t)
    BY <1>1 DEF WifiConfig
  <1>2. CASE WifiAccepted(t)
    BY <1>2 DEF WifiAccepted
  <1>3. CASE WifiStart(t)
    BY <1>3 DEF WifiStart
  <1>4. CASE WifiFailed(t)
    BY <1>4 DEF WifiFailed
  <1>5. CASE WifiWait(t)
    BY <1>5 DEF WifiWait
  <1>6. CASE MqttCreate(t)
    BY <1>6 DEF MqttCreate
  <1>7. CASE MqttAnnounce(t)
    BY <1>7 DEF MqttAnnounce
  <1>8. CASE MqttLaunch(t)
    BY <1>8 DEF MqttLaunch
  <1> QED
    BY <1>1, <1>2, <1>3, <1>4, <1>5, <1>6, <1>7, <1>8 DEF OnlineStep

LEMMA MainMoves ==
    ASSUME TypeOK, MainStep
    PROVE  pc'.main \in Follow(pc.main) /\ pc'.cmd = pc.cmd
  <1>0. pc \in [Task -> Pc] /\ "main" \in Task /\ "cmd" \in Task \ {"main"}
    BY DEF TypeOK, Task
  <1>1. CASE WifiInit \/ WifiRegister \/ WifiReset \/ MqttInit
    BY <1>0, <1>1 DEF WifiInit, WifiRegister, WifiReset, MqttInit, Goto, Follow
  <1>2. CASE OnlineStep("main")
    BY <1>0, <1>2, OnlineMoves
  <1> QED
    BY <1>1, <1>2 DEF MainStep

LEMMA CmdMoves ==
    ASSUME TypeOK, CmdStep
    PROVE  pc'.cmd \in Follow(pc.cmd) /\ pc'.main = pc.main
  <1>0. pc \in [Task -> Pc] /\ "cmd" \in Task /\ "main" \in Task \ {"cmd"}
    BY DEF TypeOK, Task
  <1>1. CASE MqttCheck
    BY <1>0, <1>1 DEF MqttCheck, Goto, Follow
  <1>2. CASE OnlineStep("cmd")
    BY <1>0, <1>2, OnlineMoves
  <1> QED
    BY <1>1, <1>2 DEF CmdStep

(* Whatever happens, each task stays or moves on; the command task leaves   *)
(* "idle" when there is a command.                                          *)
LEMMA NextMoves ==
    ASSUME TypeOK, [Next]_vars
    PROVE  /\ pc'.main = pc.main \/ pc'.main \in Follow(pc.main)
           /\ pc'.cmd = pc.cmd \/ pc'.cmd \in Follow(pc.cmd) \/ pc.cmd = "idle"
  <1>1. CASE MainStep
    BY <1>1, MainMoves
  <1>2. CASE CmdStep
    BY <1>2, CmdMoves
  <1>3. CASE Provision
    BY <1>3 DEF Provision, Goto, TypeOK, Task
  <1>4. CASE LoopStep \/ LinkMoves \/ UNCHANGED vars
    BY <1>4 DEF LoopStep, LinkMoves, Unhandled, OnStart, OnConnected, OnDisconnected, Reconnect, OnGotIp,
                Associates, GetsIp, LosesLink, LinkStep, vars
  <1>5. CASE \E c \in Clients : ClientStep(c)
    BY <1>5 DEF ClientStep, OnMqttConnected, OnMqttSubscribed, OnMqttDisconnected, OnMqttError
  <1> QED
    BY <1>1, <1>2, <1>3, <1>4, <1>5 DEF Next

(* Where each task is, and where it will be, is on its own way. *)
LEMMA OwnPlaces ==
    ASSUME TypeOK, [Next]_vars
    PROVE  /\ pc.main \in Pc \ {"idle", "check"}
           /\ pc'.main \in Pc \ {"idle", "check"}
           /\ pc.cmd \in Pc \ (Initialising \cup {"done"})
           /\ pc'.cmd \in Pc \ (Initialising \cup {"done"})
  <1>1. TypeOK'
    BY TypeNext
  <1> QED
    BY <1>1 DEF TypeOK, Task

-----------------------------------------------------------------------------
(* Before app_main is through with iot_wifi_init.  Without esp_wifi_init    *)
(* there are no events; before the handler is registered nobody says that   *)
(* there is an address, so that an event that is dropped corrects nothing.  *)

BeforeWifi ==
    /\ pc.main = "wifi_init" => link = "absent"
    /\ link = "absent" => events = <<>> /\ loop = "idle"
    /\ pc.main \in {"wifi_init", "register"} => wifi # "IP_READY" /\ WIFI_IP \notin evt

LEMMA BitsFacts ==
    /\ WIFI_IP \in StateBits("IP_READY")
    /\ \A st : st # "IP_READY" => WIFI_IP \notin StateBits(st) /\ MQTT_UP \notin StateBits(st)
    /\ \A st : StateBits(st) \subseteq evt \cup {WIFI_IP}
  BY DEF StateBits, WIFI_IP, MQTT_UP

(* Only the handler says that there is an address. *)
NoNewIp == (wifi' = "IP_READY" => wifi = "IP_READY") /\ (WIFI_IP \in evt' => WIFI_IP \in evt)

LEMMA OnlyGotIp ==
    ASSUME [Next]_vars, ~OnGotIp
    PROVE  NoNewIp
  <1> USE DEF bootVars, wifiVars, mqttVars, NoNewIp, Task
  <1>1. CASE LoopStep
    BY <1>1, BitsFacts DEF LoopStep, Unhandled, OnStart, OnConnected, OnDisconnected,
                           Reconnect, SetState
  <1>2. CASE LinkMoves
    BY <1>2 DEF LinkMoves, Associates, GetsIp, LosesLink, LinkStep
  <1>3. CASE WifiInit \/ WifiRegister \/ WifiReset \/ MqttInit
    BY <1>3 DEF WifiInit, WifiRegister, WifiReset, MqttInit
  <1>4. ASSUME NEW t \in Task, OnlineStep(t) PROVE NoNewIp
    BY <1>4, BitsFacts DEF OnlineStep, WifiConfig, WifiAccepted, WifiStart, WifiFailed,
                           WifiWait, MqttCreate, MqttAnnounce, MqttLaunch
  <1>5. CASE Provision \/ MqttCheck
    BY <1>5 DEF Provision, MqttCheck, WIFI_IP, PROVISIONED
  <1>6. ASSUME NEW c \in Clients, ClientStep(c) PROVE NoNewIp
    BY <1>6 DEF ClientStep, OnMqttConnected, OnMqttSubscribed, OnMqttDisconnected,
                OnMqttError, WIFI_IP, MQTT_UP
  <1>7. CASE UNCHANGED vars
    BY <1>7 DEF vars
  <1> QED
    BY <1>1, <1>2, <1>3, <1>4, <1>5, <1>6, <1>7 DEF Next, MainStep, CmdStep

(* Without a driver there is nothing to happen on it; esp_wifi_init is not  *)
(* undone.                                                                  *)
LEMMA DriverAbsent ==
    ASSUME [Next]_vars, link = "absent", events = <<>>, loop = "idle"
    PROVE  UNCHANGED <<link, events, loop>> \/ WifiInit
  <1> USE DEF bootVars, wifiVars, mqttVars, Task
  <1>1. CASE LoopStep
    BY <1>1 DEF LoopStep, Unhandled, OnStart, OnConnected, OnDisconnected, Reconnect,
                OnGotIp, Takes
  <1>2. CASE LinkMoves
    BY <1>2 DEF LinkMoves, Associates, GetsIp, LosesLink, LinkStep
  <1>3. CASE WifiInit \/ WifiRegister \/ WifiReset \/ MqttInit
    BY <1>3 DEF WifiInit, WifiRegister, WifiReset, MqttInit
  <1>4. ASSUME NEW t \in Task, OnlineStep(t) PROVE UNCHANGED <<link, events, loop>>
    BY <1>4 DEF OnlineStep, WifiConfig, WifiAccepted, WifiStart, EspWifiConnect, WifiFailed,
                WifiWait, MqttCreate, MqttAnnounce, MqttLaunch
  <1>5. CASE Provision \/ MqttCheck \/ UNCHANGED vars
    BY <1>5 DEF Provision, MqttCheck, vars
  <1>6. ASSUME NEW c \in Clients, ClientStep(c) PROVE UNCHANGED <<link, events, loop>>
    BY <1>6 DEF ClientStep, OnMqttConnected, OnMqttSubscribed, OnMqttDisconnected, OnMqttError
  <1> QED
    BY <1>1, <1>2, <1>3, <1>4, <1>5, <1>6 DEF Next, MainStep, CmdStep

LEMMA DriverStays ==
    ASSUME [Next]_vars, link # "absent"
    PROVE  link' # "absent"
  <1> USE DEF bootVars, wifiVars, mqttVars, Task
  <1>1. CASE LoopStep
    BY <1>1 DEF LoopStep, Unhandled, OnStart, OnConnected, OnDisconnected, Reconnect,
                OnGotIp, EspWifiConnect
  <1>2. CASE LinkMoves
    BY <1>2 DEF LinkMoves, Associates, GetsIp, LosesLink, LinkStep
  <1>3. CASE WifiInit \/ WifiRegister \/ WifiReset \/ MqttInit
    BY <1>3 DEF WifiInit, WifiRegister, WifiReset, MqttInit
  <1>4. ASSUME NEW t \in Task, OnlineStep(t) PROVE link' # "absent"
    BY <1>4 DEF OnlineStep, WifiConfig, WifiAccepted, WifiStart, EspWifiConnect, WifiFailed,
                WifiWait, MqttCreate, MqttAnnounce, MqttLaunch
  <1>5. CASE Provision \/ MqttCheck \/ UNCHANGED vars
    BY <1>5 DEF Provision, MqttCheck, vars
  <1>6. ASSUME NEW c \in Clients, ClientStep(c) PROVE link' # "absent"
    BY <1>6 DEF ClientStep, OnMqttConnected, OnMqttSubscribed, OnMqttDisconnected, OnMqttError
  <1> QED
    BY <1>1, <1>2, <1>3, <1>4, <1>5, <1>6 DEF Next, MainStep, CmdStep

LEMMA BeforeWifiNext == TypeOK /\ BeforeWifi /\ [Next]_vars => BeforeWifi'
  <1> SUFFICES ASSUME TypeOK, BeforeWifi, [Next]_vars PROVE BeforeWifi'
    OBVIOUS
  <1>1. /\ pc'.main = "wifi_init" => pc.main = "wifi_init"
        /\ pc'.main = "register" => pc.main \in {"wifi_init", "register"}
    BY NextMoves, OwnPlaces DEF Follow
  <1>2. link = "absent" => UNCHANGED <<link, events, loop>> \/ WifiInit
    BY DriverAbsent DEF BeforeWifi
  <1>3. link # "absent" => link' # "absent"
    BY DriverStays
  <1>4. WifiInit => UNCHANGED <<events, loop>> /\ pc'.main # "wifi_init"
    BY DEF WifiInit, Goto, TypeOK, Task
  <1>5. pc'.main \in {"wifi_init", "register"} => NoNewIp
    BY <1>1, OnlyGotIp DEF OnGotIp, Takes, Handled
  <1> QED
    BY <1>1, <1>2, <1>3, <1>4, <1>5 DEF BeforeWifi, NoNewIp

LEMMA BeforeWifiAlways == Spec => []BeforeWifi
  <1>1. Init => BeforeWifi
    BY DEF Init, BeforeWifi
  <1> QED
    BY <1>1, TypeCorrect, BeforeWifiNext, PTL DEF Spec
-----------------------------------------------------------------------------
(* IP_READY and WIFI_IP.  An address event still in the queue is not newer  *)
(* than the link, or the loss of the link is queued behind it.  State and   *)
(* bit are written apart, and no step keeps them together; each by itself   *)
(* is taken back by the handler, which no task can interrupt.               *)

GotIpCurrent ==
    \A i \in 1..Len(events) :
        events[i] = "GOT_IP" =>
            link = "ip" \/ \E j \in (i + 1)..Len(events) : events[j] = "STA_DISCONNECTED"

IpCurrent == IpReadyIsCurrent /\ IpBitMeansIp /\ GotIpCurrent

LEMMA PendingAdd ==
    ASSUME TypeOK, NEW e \in Event, events' = Append(events, e)
    PROVE  /\ Pending' = Pending \cup {e}
           /\ (GotIpCurrent /\ (link # "ip" \/ e = "STA_DISCONNECTED" \/ link' = "ip")
                /\ (e = "GOT_IP" => link' = "ip")) => GotIpCurrent'
  <1>1. events \in Seq(Event) /\ Len(events) \in Nat
    BY DEF TypeOK
  <1>2. Len(events') = Len(events) + 1 /\ events'[Len(events) + 1] = e
        /\ \A i \in 1..Len(events) : events'[i] = events[i]
    BY <1>1, AddEvent
  <1>3. 1..Len(events') = 1..Len(events) \cup {Len(events) + 1}
    BY <1>1, <1>2
  <1>4. Pending' = Pending \cup {e}
    BY <1>2, <1>3 DEF Pending
  <1>5. ASSUME GotIpCurrent, link # "ip" \/ e = "STA_DISCONNECTED" \/ link' = "ip",
               e = "GOT_IP" => link' = "ip"
        PROVE  GotIpCurrent'
    <2> SUFFICES ASSUME NEW i \in 1..Len(events'), events'[i] = "GOT_IP", link' # "ip"
                 PROVE  \E j \in (i + 1)..Len(events') : events'[j] = "STA_DISCONNECTED"
      BY DEF GotIpCurrent
    <2>1. i \in 1..Len(events) /\ events[i] = "GOT_IP"
      BY <1>2, <1>3, <1>5
    <2>2. CASE link = "ip"
      BY <1>1, <1>2, <1>5, <2>1, <2>2
    <2>3. CASE link # "ip"
      <3>1. PICK j \in (i + 1)..Len(events) : events[j] = "STA_DISCONNECTED"
        BY <1>5, <2>1, <2>3 DEF GotIpCurrent
      <3>2. j \in (i + 1)..Len(events') /\ events'[j] = "STA_DISCONNECTED"
        BY <1>1, <1>2, <2>1, <3>1
      <3> QED
        BY <3>2
    <2> QED
      BY <2>2, <2>3
  <1> QED
    BY <1>4, <1>5

LEMMA PendingTake ==
    ASSUME TypeOK, events # <<>>, events' = Tail(events), GotIpCurrent, link' = link
    PROVE  /\ GotIpCurrent'
           /\ Head(events) # "STA_DISCONNECTED" /\ "STA_DISCONNECTED" \in Pending =>
                "STA_DISCONNECTED" \in Pending'
           /\ Head(events) = "GOT_IP" => link' = "ip" \/ "STA_DISCONNECTED" \in Pending'
  <1>1. /\ Len(events) \in Nat \ {0} /\ Head(events) = events[1]
        /\ Len(events') = Len(events) - 1
        /\ \A i \in 1..Len(events') : events'[i] = events[i + 1]
    BY TakeEvent DEF TypeOK
  <1>2. ASSUME NEW j \in 2..Len(events), events[j] = "STA_DISCONNECTED"
        PROVE  j - 1 \in 1..Len(events') /\ events'[j - 1] = "STA_DISCONNECTED"
    BY <1>1, <1>2
  <1>3. GotIpCurrent'
    <2> SUFFICES ASSUME NEW i \in 1..Len(events'), events'[i] = "GOT_IP", link' # "ip"
                 PROVE  \E j \in (i + 1)..Len(events') : events'[j] = "STA_DISCONNECTED"
      BY DEF GotIpCurrent
    <2>1. i + 1 \in 1..Len(events) /\ events[i + 1] = "GOT_IP"
      BY <1>1
    <2>2. PICK j \in (i + 2)..Len(events) : events[j] = "STA_DISCONNECTED"
      BY <2>1, <1>1 DEF GotIpCurrent
    <2>3. j \in 2..Len(events) /\ j - 1 \in (i + 1)..Len(events')
      BY <1>1, <2>2
    <2> QED
      BY <1>2, <2>2, <2>3
  <1>4. ASSUME NEW j \in 2..Len(events), events[j] = "STA_DISCONNECTED"
        PROVE  "STA_DISCONNECTED" \in Pending'
    BY <1>2, <1>4 DEF Pending
  <1>5. Head(events) # "STA_DISCONNECTED" /\ "STA_DISCONNECTED" \in Pending =>
          "STA_DISCONNECTED" \in Pending'
    BY <1>1, <1>4 DEF Pending
  <1>6. Head(events) = "GOT_IP" => link' = "ip" \/ "STA_DISCONNECTED" \in Pending'
    BY <1>1, <1>4 DEF GotIpCurrent
  <1> QED
    BY <1>3, <1>5, <1>6

LEMMA IpCurrentNext == TypeOK /\ BeforeWifi /\ IpCurrent /\ [Next]_vars => IpCurrent'
  <1> SUFFICES ASSUME TypeOK, BeforeWifi, IpCurrent, [Next]_vars PROVE IpCurrent'
    OBVIOUS
  <1> USE DEF bootVars, wifiVars, mqttVars, Goto, Takes
  <1>0. events \in Seq(Event) /\ Len(events) \in Nat /\ GotIpCurrent /\ IpReadyIsCurrent
        /\ IpBitMeansIp
        /\ "STA_START" \in Event /\ "STA_CONNECTED" \in Event
        /\ "STA_DISCONNECTED" \in Event /\ "GOT_IP" \in Event
    BY DEF TypeOK, IpCurrent, Event
  <1>01. ASSUME GotIpCurrent', wifi' # "IP_READY", WIFI_IP \notin evt'
         PROVE  IpCurrent'
    BY <1>01 DEF IpCurrent, IpReadyIsCurrent, IpBitMeansIp
  <1>1. ASSUME UNCHANGED <<events, link>>, NoNewIp
        PROVE  IpCurrent'
    BY <1>0, <1>1 DEF IpCurrent, IpReadyIsCurrent, IpBitMeansIp, GotIpCurrent, Pending, NoNewIp
  <1>2. ASSUME events' = Append(events, "STA_DISCONNECTED"), link' # "ip"
        PROVE  IpCurrent'
    BY <1>0, <1>2, PendingAdd DEF IpCurrent, IpReadyIsCurrent, IpBitMeansIp
  <1>3. ASSUME events' = events, link # "ip", NoNewIp
        PROVE  IpCurrent'
    BY <1>0, <1>3 DEF IpCurrent, IpReadyIsCurrent, IpBitMeansIp, GotIpCurrent, Pending, NoNewIp
  <1>4. ASSUME NEW ok \in BOOLEAN, EspWifiConnect(events, ok), NoNewIp
        PROVE  IpCurrent'
    BY <1>1, <1>2, <1>3, <1>4 DEF EspWifiConnect
  <1>5. CASE LoopStep
    <2>1. CASE OnStart
      <3>1. /\ wifi' = "CONNECTING" /\ WIFI_IP \notin evt'
            /\ events # <<>> /\ Head(events) = "STA_START"
        BY <2>1, BitsFacts DEF OnStart, SetState
      <3>2. PICK ok \in BOOLEAN : EspWifiConnect(Tail(events), ok)
        BY <2>1 DEF OnStart
      <3>3. GotIpCurrent'
        <4>1. Tail(events) \in Seq(Event) /\ Len(Tail(events)) = Len(events) - 1
              /\ Len(events) \in Nat \ {0}
              /\ \A i \in 1..Len(Tail(events)) : Tail(events)[i] = events[i + 1]
          BY <1>0, <3>1, TakeEvent
        <4>2. ASSUME NEW i \in 1..Len(Tail(events)), Tail(events)[i] = "GOT_IP"
              PROVE  link = "ip" \/ \E j \in (i + 1)..Len(Tail(events)) :
                                       Tail(events)[j] = "STA_DISCONNECTED"
          <5>1. i + 1 \in 1..Len(events) /\ events[i + 1] = "GOT_IP"
            BY <4>1, <4>2
          <5> SUFFICES ASSUME link # "ip"
                       PROVE  \E j \in (i + 1)..Len(Tail(events)) :
                                Tail(events)[j] = "STA_DISCONNECTED"
            OBVIOUS
          <5>2. PICK j \in (i + 2)..Len(events) : events[j] = "STA_DISCONNECTED"
            BY <1>0, <4>1, <5>1 DEF GotIpCurrent
          <5>3. j - 1 \in (i + 1)..Len(Tail(events)) /\ Tail(events)[j - 1] = events[j]
            BY <4>1, <5>2
          <5> QED
            BY <5>2, <5>3
        <4>3. CASE events' = Tail(events) /\ (link' = link \/ link # "ip")
          BY <4>2, <4>3 DEF GotIpCurrent
        <4>4. CASE events' = Append(Tail(events), "STA_DISCONNECTED")
          <5>1. /\ Len(events') = Len(Tail(events)) + 1
                /\ events'[Len(Tail(events)) + 1] = "STA_DISCONNECTED"
            BY <1>0, <4>1, <4>4, AddEvent
          <5> SUFFICES ASSUME NEW i \in 1..Len(events'), events'[i] = "GOT_IP"
                       PROVE  \E j \in (i + 1)..Len(events') : events'[j] = "STA_DISCONNECTED"
            BY DEF GotIpCurrent
          <5>2. i # Len(events')
            BY <5>1
          <5>3. Len(events') \in (i + 1)..Len(events')
            <6>1. Len(events') \in Nat /\ i \in Nat /\ i <= Len(events')
              BY <4>1, <5>1
            <6> QED
              BY <5>2, <6>1
          <5> QED
            BY <5>1, <5>3
        <4> QED
          BY <3>2, <4>3, <4>4 DEF EspWifiConnect
      <3> QED
        BY <1>01, <3>1, <3>3
    <2>2. CASE OnConnected \/ OnDisconnected
      <3>1. /\ wifi' # "IP_READY" /\ WIFI_IP \notin evt'
            /\ events # <<>> /\ events' = Tail(events) /\ link' = link
        BY <2>2, BitsFacts DEF OnConnected, OnDisconnected, SetState
      <3> QED
        BY <1>0, <1>01, <3>1, PendingTake
    <2>3. CASE OnGotIp
      <3>1. events # <<>> /\ events' = Tail(events) /\ Head(events) = "GOT_IP" /\ link' = link
        BY <2>3 DEF OnGotIp
      <3> QED
        BY <1>0, <3>1, PendingTake DEF IpCurrent, IpReadyIsCurrent, IpBitMeansIp
    <2>4. CASE Reconnect
      <3>1. NoNewIp
        BY <2>4, BitsFacts DEF Reconnect, SetState, NoNewIp
      <3> QED
        BY <1>4, <2>4, <3>1 DEF Reconnect
    (* The handler is missing altogether, or only for GOT_IP. *)
    <2>5. CASE Unhandled
      <3>1. /\ events # <<>> /\ events' = Tail(events)
            /\ UNCHANGED <<link, wifi, evt>>
        BY <2>5 DEF Unhandled
      <3>2. GotIpCurrent'
        BY <1>0, <3>1, PendingTake
      <3>3. CASE pc.main \in {"wifi_init", "register"}
        BY <1>01, <3>1, <3>2, <3>3 DEF BeforeWifi
      <3>4. CASE Head(events) = "GOT_IP"
        <4>1. "STA_DISCONNECTED" \in Pending => "STA_DISCONNECTED" \in Pending'
          BY <1>0, <3>1, <3>4, PendingTake
        <4> QED
          BY <1>0, <3>1, <3>2, <4>1 DEF IpCurrent, IpReadyIsCurrent, IpBitMeansIp
      <3> QED
        BY <2>5, <3>3, <3>4 DEF Unhandled, Handled
    <2> QED
      BY <1>5, <2>1, <2>2, <2>3, <2>4, <2>5 DEF LoopStep
  <1>6. CASE LinkMoves
    <2>1. CASE LosesLink
      BY <1>2, <2>1 DEF LosesLink, LinkStep
    <2>2. CASE Associates \/ GetsIp
      <3>1. PICK e \in {"STA_CONNECTED", "GOT_IP"} :
              /\ events' = Append(events, e) /\ link # "ip" /\ UNCHANGED <<wifi, evt>>
              /\ e = "GOT_IP" => link' = "ip"
        BY <2>2 DEF Associates, GetsIp, LinkStep
      <3> QED
        BY <1>0, <3>1, PendingAdd DEF IpCurrent, IpReadyIsCurrent, IpBitMeansIp, NoNewIp
    <2> QED
      BY <1>6, <2>1, <2>2 DEF LinkMoves
  <1>7. CASE WifiInit \/ WifiRegister \/ WifiReset
    <2>1. CASE WifiInit
      <3>1. /\ events = <<>> /\ events' = <<>> /\ UNCHANGED <<wifi, evt>>
            /\ wifi # "IP_READY" /\ WIFI_IP \notin evt
        BY <2>1 DEF WifiInit, BeforeWifi
      <3>2. GotIpCurrent'
        BY <3>1 DEF GotIpCurrent
      <3> QED
        BY <1>01, <3>1, <3>2
    <2>2. CASE WifiRegister \/ WifiReset
      BY <1>1, <2>2 DEF WifiRegister, WifiReset, NoNewIp
    <2> QED
      BY <1>7, <2>1, <2>2
  <1>8. ASSUME NEW t \in Task, WifiStart(t) PROVE IpCurrent'
    <2>0. NoNewIp
      BY <1>8 DEF WifiStart, NoNewIp
    <2>1. CASE \E ok \in BOOLEAN : EspWifiConnect(events, ok)
      BY <1>4, <2>0, <2>1
    <2>2. CASE UNCHANGED <<events, link>>
      BY <1>1, <2>0, <2>2
    <2>3. CASE link = "stopped" /\ events' = Append(events, "STA_START")
      BY <1>0, <2>0, <2>3, PendingAdd
      DEF IpCurrent, IpReadyIsCurrent, IpBitMeansIp, NoNewIp
    <2> QED
      BY <1>8, <2>1, <2>2, <2>3 DEF WifiStart
  <1>9. ASSUME NEW t \in Task,
                \/ WifiConfig(t) \/ WifiAccepted(t) \/ WifiFailed(t) \/ WifiWait(t)
                \/ MqttCreate(t) \/ MqttAnnounce(t) \/ MqttLaunch(t)
         PROVE  IpCurrent'
    <2>1. UNCHANGED <<events, link>> /\ NoNewIp
      BY <1>9, BitsFacts DEF WifiConfig, WifiAccepted, WifiFailed, WifiWait, MqttCreate,
                              MqttAnnounce, MqttLaunch, NoNewIp
    <2> QED
      BY <1>1, <2>1
  <1>10. CASE MqttInit \/ Provision \/ MqttCheck \/ UNCHANGED vars
    <2>1. UNCHANGED <<events, link>> /\ NoNewIp
      BY <1>10 DEF MqttInit, Provision, MqttCheck, vars, NoNewIp, WIFI_IP, PROVISIONED
    <2> QED
      BY <1>1, <2>1
  <1>11. ASSUME NEW c \in Clients, ClientStep(c) PROVE IpCurrent'
    <2>1. UNCHANGED <<events, link>> /\ NoNewIp
      BY <1>11 DEF ClientStep, OnMqttConnected, OnMqttSubscribed, OnMqttDisconnected,
                   OnMqttError, NoNewIp, WIFI_IP, MQTT_UP
    <2> QED
      BY <1>1, <2>1
  <1> QED
    BY <1>5, <1>6, <1>7, <1>8, <1>9, <1>10, <1>11
    DEF Next, MainStep, CmdStep, OnlineStep, Task

LEMMA IpCurrentAlways == Spec => []IpCurrent
  <1>1. Init => IpCurrent
    BY DEF Init, IpCurrent, IpReadyIsCurrent, IpBitMeansIp, GotIpCurrent
  <1> QED
    BY <1>1, IpCurrentNext, TypeCorrect, BeforeWifiAlways, PTL DEF Spec

(* A set WIFI_IP, on which iot_mqtt_start waits, is never stale for good:   *)
(* the station has its address, or the event that clears the bit is queued, *)
(* also when the address came while iot_wifi_init was not yet through.      *)
THEOREM IpBitAlways == Spec => []IpBitMeansIp
  BY IpCurrentAlways, PTL DEF IpCurrent

(* iot_wifi_state never says IP_READY of a connection that is gone without  *)
(* the event that corrects it being queued: re-provisioning, reconnecting   *)
(* and an event handler that sleeps in between do not lose the correction.  *)
THEOREM IpReadyAlways == Spec => []IpReadyIsCurrent
  BY IpCurrentAlways, PTL DEF IpCurrent
-----------------------------------------------------------------------------
(* MQTT_UP *)

LEMMA MqttUpNext == TypeOK /\ MqttUpBit /\ [Next]_vars => MqttUpBit'
  <1> SUFFICES ASSUME TypeOK, MqttUpBit, [Next]_vars PROVE MqttUpBit'
    OBVIOUS
  <1> USE DEF bootVars, wifiVars, mqttVars, Goto
  <1>0. client \in [Clients -> ClientState]
    BY DEF TypeOK
  <1>1. ASSUME client' = client, MQTT_UP \in evt' => MQTT_UP \in evt
        PROVE  MqttUpBit'
    BY <1>1 DEF MqttUpBit
  <1>2. CASE LoopStep
    BY <1>1, <1>2 DEF LoopStep, Unhandled, OnStart, OnConnected, OnDisconnected, Reconnect,
                      OnGotIp, SetState, StateBits, WIFI_IP, MQTT_UP
  <1>3. CASE LinkMoves
    BY <1>1, <1>3 DEF LinkMoves, Associates, GetsIp, LosesLink, LinkStep
  <1>4. ASSUME NEW t \in Task,
               \/ WifiConfig(t) \/ WifiAccepted(t) \/ WifiStart(t) \/ WifiFailed(t)
               \/ WifiWait(t) \/ MqttAnnounce(t)
        PROVE  MqttUpBit'
    BY <1>1, <1>4, BitsFacts DEF WifiConfig, WifiAccepted, WifiStart, WifiFailed, WifiWait,
                                 MqttAnnounce
  <1>5. ASSUME NEW t \in Task, MqttCreate(t) \/ MqttLaunch(t) PROVE MqttUpBit'
    <2>1. evt' = evt
      BY <1>5 DEF MqttCreate, MqttLaunch
    <2>2. \A c \in Clients : client[c] \in {"up", "failing"} => client'[c] = client[c]
      BY <1>0, <1>5 DEF MqttCreate, MqttLaunch
    <2> QED
      BY <2>1, <2>2 DEF MqttUpBit
  <1>6. CASE WifiInit \/ WifiRegister \/ WifiReset \/ MqttInit \/ MqttCheck \/ Provision
    BY <1>1, <1>6 DEF WifiInit, WifiRegister, WifiReset, MqttInit, MqttCheck, Provision, MQTT_UP, PROVISIONED
  <1>7. ASSUME NEW c \in Clients, ClientStep(c) PROVE MqttUpBit'
    <2>1. CASE OnMqttConnected(c)
      BY <1>0, <2>1 DEF OnMqttConnected, MqttUpBit
    <2>2. CASE OnMqttSubscribed(c)
      BY <1>0, <2>2 DEF OnMqttSubscribed, MqttUpBit
    <2>3. CASE OnMqttDisconnected(c)
      BY <2>3 DEF OnMqttDisconnected, MqttUpBit
    <2>4. CASE OnMqttError(c)
      BY <1>0, <2>4 DEF OnMqttError, MqttUpBit
    <2> QED
      BY <1>7, <2>1, <2>2, <2>3, <2>4 DEF ClientStep
  <1>8. CASE UNCHANGED vars
    BY <1>1, <1>8 DEF vars
  <1> QED
    BY <1>2, <1>3, <1>4, <1>5, <1>6, <1>7, <1>8
    DEF Next, MainStep, CmdStep, OnlineStep, Task

(* The MQTT_UP bit does not outlive the sessions, with any number of        *)
(* clients sharing it and the Wi-Fi manager clearing it too.                *)
THEOREM MqttUpBitAlways == Spec => []MqttUpBit
  <1>1. Init => MqttUpBit
    BY DEF Init, MqttUpBit
  <1> QED
    BY <1>1, MqttUpNext, TypeCorrect, PTL DEF Spec

(* A task that is woken by WIFI_IP or MQTT_UP is never woken by what is     *)
(* over: each bit is withdrawn by the step that ends what it stands for.    *)
THEOREM BitsAlways == Spec => []BitsAreTrue
  BY IpBitAlways, MqttUpBitAlways, PTL DEF BitsAreTrue
-----------------------------------------------------------------------------
(* The MQTT client.  What was called so far says what there can be: nothing *)
(* before the first iot_mqtt_start, one client after one call, and one      *)
(* client as long as only provisioning calls, which looks at the state.     *)

Starting(t) == pc[t] \in {"announce", "launch"}

NoStartYet ==
    calls \in {<<>>, <<"init">>} =>
        /\ \A c \in Clients : client[c] = "none"
        /\ mqtt = "DOWN"
        /\ \A t \in Task : ~Starting(t)

InitFirst == calls # <<>> /\ calls[1] = "init"

InitOnce == InitFirst => pc.main \notin Initialising

OneStart ==
    \A t \in Task :
        calls = <<"init", t>> =>
            /\ \A c \in Clients : client[c] # "none" => c = s_client
            /\ \A u \in Task \ {t} : ~Starting(u)
            /\ mqtt = "UP" <=> \E c \in Clients : client[c] \in {"subscribing", "up"}
            /\ pc[t] = "announce" => \A c \in Clients : client[c] \in {"none", "created"}

ByProvisioning == InitFirst /\ \A i \in 1..Len(calls) : calls[i] # "main"

ProvisioningCareful ==
    ByProvisioning =>
        /\ \A c, d \in Clients : client[c] # "none" /\ client[d] # "none" => c = d
        /\ ~Starting("main")
        /\ pc.cmd = "create" => \A c \in Clients : client[c] = "none"
        /\ (\E c \in Clients : client[c] # "none") => mqtt # "DOWN" \/ pc.cmd = "announce"

Lifecycle == NoStartYet /\ InitOnce /\ OneStart /\ ProvisioningCareful

LEMMA CallAdd ==
    ASSUME TypeOK, NEW x \in Task \cup {"init"}, calls' = Append(calls, x)
    PROVE  /\ Len(calls') = Len(calls) + 1 /\ calls' # <<>>
           /\ calls'[Len(calls) + 1] = x
           /\ \A i \in 1..Len(calls) : calls'[i] = calls[i]
           /\ InitFirst' <=> (InitFirst \/ (calls = <<>> /\ x = "init"))
           /\ ByProvisioning' => x # "main" /\ (ByProvisioning \/ (calls = <<>> /\ x = "init"))
           /\ calls' = <<"init">> => calls = <<>> /\ x = "init"
           /\ \A t : calls' = <<"init", t>> => calls = <<"init">> /\ x = t
  <1>1. calls \in Seq(Task \cup {"init"}) /\ Len(calls) \in Nat
    BY DEF TypeOK
  <1>2. /\ Len(calls') = Len(calls) + 1 /\ calls' # <<>>
        /\ calls'[Len(calls) + 1] = x
        /\ \A i \in 1..Len(calls) : calls'[i] = calls[i]
    BY <1>1
  <1>3. calls = <<>> <=> Len(calls) = 0
    BY <1>1
  <1>4. InitFirst' <=> (InitFirst \/ (calls = <<>> /\ x = "init"))
    BY <1>1, <1>2, <1>3 DEF InitFirst
  <1>5. ByProvisioning' => x # "main" /\ (ByProvisioning \/ (calls = <<>> /\ x = "init"))
    BY <1>1, <1>2, <1>3, <1>4 DEF ByProvisioning
  <1>6. calls' = <<"init">> => calls = <<>> /\ x = "init"
    BY <1>1, <1>2, <1>3
  <1>7. ASSUME NEW t, calls' = <<"init", t>> PROVE calls = <<"init">> /\ x = t
    <2>1. Len(calls') = 2 /\ calls'[1] = "init" /\ calls'[2] = t
      BY <1>7
    <2>2. Len(calls) = 1
      <3>1. \A n \in Nat : n + 1 = 2 => n = 1
        OBVIOUS
      <3>2. Len(calls) \in Nat /\ Len(calls) + 1 = 2
        BY <1>1, <1>2, <2>1
      <3> QED
        BY <3>1, <3>2
    <2>3. calls[1] = "init" /\ x = t
      BY <1>2, <2>1, <2>2
    <2> QED
      BY <1>1, <2>2, <2>3
  <1> QED
    BY <1>2, <1>4, <1>5, <1>6, <1>7

(* A step that leaves MQTT alone and moves no task into it. *)
LEMMA LifecycleElsewhere ==
    ASSUME TypeOK, Lifecycle, UNCHANGED mqttVars,
           \A t \in Task : Starting(t)' => Starting(t),
           \A t \in Task : pc'[t] = "announce" <=> pc[t] = "announce",
           pc'.cmd = "create" => pc.cmd = "create",
           pc'.main \in Initialising => pc.main \in Initialising
    PROVE  Lifecycle'
  <1>1. InitFirst' = InitFirst /\ ByProvisioning' = ByProvisioning
    BY DEF mqttVars, InitFirst, ByProvisioning
  <1>2. NoStartYet' /\ InitOnce'
    BY <1>1 DEF Lifecycle, NoStartYet, InitOnce, mqttVars
  <1>3. OneStart'
    BY DEF Lifecycle, OneStart, mqttVars
  <1>4. ProvisioningCareful'
    BY <1>1 DEF Lifecycle, ProvisioningCareful, mqttVars, Task
  <1> QED
    BY <1>2, <1>3, <1>4 DEF Lifecycle

LEMMA LifecycleInit == Init => Lifecycle
  BY DEF Init, Lifecycle, NoStartYet, InitOnce, OneStart, ProvisioningCareful, InitFirst,
         ByProvisioning, Starting, Task

LEMMA LifecycleNext == TypeOK /\ Lifecycle /\ [Next]_vars => Lifecycle'
  <1> SUFFICES ASSUME TypeOK, Lifecycle, [Next]_vars PROVE Lifecycle'
    OBVIOUS
  <1> USE DEF bootVars, wifiVars, Initialising
  <1>0. pc \in [Task -> Pc] /\ client \in [Clients -> ClientState] /\ Task = {"main", "cmd"}
        /\ NoStartYet /\ InitOnce /\ OneStart /\ ProvisioningCareful
    BY DEF TypeOK, Task, Lifecycle
  <1>1. ASSUME UNCHANGED <<pc, mqttVars>> PROVE Lifecycle'
    BY <1>1, LifecycleElsewhere DEF Starting
  <1>2. ASSUME NEW t \in Task,
               \/ WifiConfig(t) \/ WifiAccepted(t) \/ WifiStart(t) \/ WifiFailed(t)
               \/ WifiWait(t)
        PROVE  Lifecycle'
    <2>1. UNCHANGED mqttVars
      BY <1>2 DEF WifiConfig, WifiAccepted, WifiStart, WifiFailed, WifiWait
    <2>2. /\ \A u \in Task \ {t} : pc'[u] = pc[u]
          /\ pc[t] \in {"config", "accepted", "start", "failed", "wait"}
          /\ pc'[t] \in {"accepted", "start", "failed", "wait", "check", "idle", "done", "create"}
          /\ pc'[t] = "create" => t = "main"
      BY <1>0, <1>2 DEF WifiConfig, WifiAccepted, WifiStart, WifiFailed, WifiWait, Goto
    <2> QED
      BY <1>0, <2>1, <2>2, LifecycleElsewhere DEF Starting
  <1>3. CASE WifiInit \/ WifiRegister \/ WifiReset
    <2>1. /\ UNCHANGED mqttVars /\ pc'.cmd = pc.cmd
          /\ pc.main \in Initialising /\ pc'.main \in Initialising
      BY <1>0, <1>3 DEF WifiInit, WifiRegister, WifiReset, Goto, Initialising
    <2> QED
      BY <1>0, <2>1, LifecycleElsewhere DEF Starting, Initialising
  <1>4. CASE Provision
    <2>1. UNCHANGED mqttVars /\ (pc' = pc \/ (pc.cmd = "idle" /\ pc' = [pc EXCEPT !.cmd = "config"]))
      BY <1>4 DEF Provision, Goto
    <2> QED
      BY <1>0, <1>1, <2>1, LifecycleElsewhere DEF Starting
  <1>5. CASE MqttCheck
    <2>1. /\ UNCHANGED mqttVars /\ pc.cmd = "check" /\ pc'.main = pc.main
          /\ pc'.cmd \in {"create", "idle"} /\ (pc'.cmd = "create" => mqtt = "DOWN")
      BY <1>0, <1>5 DEF MqttCheck, Goto
    <2>2. InitFirst' = InitFirst /\ ByProvisioning' = ByProvisioning
      BY <2>1 DEF mqttVars, InitFirst, ByProvisioning
    <2>3. NoStartYet' /\ InitOnce' /\ OneStart'
      BY <1>0, <2>1, <2>2 DEF NoStartYet, InitOnce, OneStart, mqttVars, Starting
    <2>4. ProvisioningCareful'
      BY <1>0, <2>1, <2>2 DEF ProvisioningCareful, mqttVars, Starting
    <2> QED
      BY <2>3, <2>4 DEF Lifecycle
  <1>6. CASE MqttInit
    <2>1. /\ pc.main = "mqtt_init" /\ mqtt' = "DOWN" /\ calls' = Append(calls, "init")
          /\ UNCHANGED <<client, s_client>>
          /\ pc'.cmd = pc.cmd /\ pc'.main \in {"config", "done"}
      BY <1>0, <1>6 DEF MqttInit, Goto
    <2>2. ~InitFirst
      BY <1>0, <2>1 DEF InitOnce
    <2>3. InitOnce'
      BY <2>1 DEF InitOnce
    <2>4. NoStartYet'
      <3>1. calls' \in {<<>>, <<"init">>} => calls = <<>>
        BY <2>1, CallAdd
      <3> QED
        BY <1>0, <2>1, <3>1 DEF NoStartYet, Starting
    <2>5. OneStart'
      <3>1. \A t \in Task : calls' # <<"init", t>>
        BY <2>1, CallAdd DEF Task
      <3> QED
        BY <3>1 DEF OneStart
    <2>6. ProvisioningCareful'
      <3>1. ByProvisioning' => calls = <<>>
        BY <2>1, <2>2, CallAdd DEF ByProvisioning
      <3> QED
        BY <1>0, <2>1, <3>1 DEF NoStartYet, ProvisioningCareful, Starting
    <2> QED
      BY <2>3, <2>4, <2>5, <2>6 DEF Lifecycle
  <1>7. ASSUME NEW t \in Task, MqttCreate(t) PROVE Lifecycle'
    <2>1. /\ pc[t] = "create" /\ calls' = Append(calls, t) /\ UNCHANGED mqtt
          /\ \A u \in Task \ {t} : pc'[u] = pc[u]
          /\ pc'[t] \in {"done", "idle", "announce"}
      BY <1>0, <1>7 DEF MqttCreate, Return, Goto
    <2>2. \/ client' = client /\ ~Starting(t)'
          \/ \E c \in Clients :
               /\ client[c] = "none" /\ client' = [client EXCEPT ![c] = "created"]
               /\ s_client' = c /\ pc'[t] = "announce"
      BY <1>0, <1>7 DEF MqttCreate, Return, Goto, Starting
    <2>3. NoStartYet'
      BY <2>1, CallAdd DEF NoStartYet, Task
    <2>4. InitOnce'
      <3>1. InitFirst' => InitFirst
        BY <2>1, CallAdd DEF Task
      <3> QED
        BY <1>0, <2>1, <3>1 DEF InitOnce
    <2>5. OneStart'
      <3> SUFFICES ASSUME NEW v \in Task, calls' = <<"init", v>>
                   PROVE  /\ \A c \in Clients : client'[c] # "none" => c = s_client'
                          /\ \A u \in Task \ {v} : ~Starting(u)'
                          /\ mqtt' = "UP" <=> \E c \in Clients : client'[c] \in {"subscribing", "up"}
                          /\ pc'[v] = "announce" =>
                               \A c \in Clients : client'[c] \in {"none", "created"}
        BY DEF OneStart
      <3>1. calls = <<"init">> /\ v = t
        BY <2>1, CallAdd
      <3>2. (\A c \in Clients : client[c] = "none") /\ mqtt = "DOWN"
            /\ \A u \in Task : ~Starting(u)
        BY <1>0, <3>1 DEF NoStartYet
      <3>3. \A c \in Clients : client'[c] \in {"none", "created"}
        BY <1>0, <2>2, <3>2
      <3>4. \A c \in Clients : client'[c] # "none" => c = s_client'
        BY <1>0, <2>2, <3>2
      <3>5. \A u \in Task \ {v} : ~Starting(u)'
        BY <2>1, <3>1, <3>2 DEF Starting
      <3> QED
        BY <2>1, <3>2, <3>3, <3>4, <3>5
    <2>6. ProvisioningCareful'
      <3> SUFFICES ASSUME ByProvisioning' PROVE ProvisioningCareful'
        BY DEF ProvisioningCareful
      <3>1. t = "cmd" /\ ByProvisioning
        BY <1>0, <2>1, CallAdd
      <3>2. /\ \A c \in Clients : client[c] = "none"
            /\ ~Starting("main")
        BY <1>0, <2>1, <3>1 DEF ProvisioningCareful
      <3>3. ~Starting("main")'
        BY <1>0, <2>1, <3>1, <3>2 DEF Starting
      <3>4. pc'.cmd # "create"
        BY <2>1, <3>1
      <3>5. \A c, d \in Clients : client'[c] # "none" /\ client'[d] # "none" => c = d
        BY <1>0, <2>2, <3>2
      <3>6. (\E c \in Clients : client'[c] # "none") => pc'.cmd = "announce"
        BY <2>2, <3>1, <3>2
      <3> QED
        BY <2>1, <3>2, <3>3, <3>4, <3>5, <3>6 DEF ProvisioningCareful
    <2> QED
      BY <2>3, <2>4, <2>5, <2>6 DEF Lifecycle
  <1>8. ASSUME NEW t \in Task, MqttAnnounce(t) PROVE Lifecycle'
    <2>1. /\ pc[t] = "announce" /\ pc'[t] = "launch" /\ mqtt' = "CONNECTING"
          /\ \A u \in Task \ {t} : pc'[u] = pc[u]
          /\ UNCHANGED <<client, s_client, calls>>
      BY <1>0, <1>8 DEF MqttAnnounce, Goto
    <2>2. InitFirst' = InitFirst /\ ByProvisioning' = ByProvisioning
      BY <2>1 DEF InitFirst, ByProvisioning
    <2>3. NoStartYet' /\ InitOnce'
      BY <1>0, <2>1, <2>2 DEF NoStartYet, InitOnce, Starting
    <2>4. OneStart'
      BY <1>0, <2>1 DEF OneStart, Starting
    <2>5. ProvisioningCareful'
      BY <1>0, <2>1, <2>2 DEF ProvisioningCareful, Starting
    <2> QED
      BY <2>3, <2>4, <2>5 DEF Lifecycle
  <1>9. ASSUME NEW t \in Task, MqttLaunch(t) PROVE Lifecycle'
    <2>1. /\ pc[t] = "launch" /\ pc'[t] \in {"done", "idle"}
          /\ \A u \in Task \ {t} : pc'[u] = pc[u]
          /\ UNCHANGED <<mqtt, s_client, calls>>
      BY <1>0, <1>9 DEF MqttLaunch, Return, Goto
    <2>2. \/ UNCHANGED client
          \/ /\ s_client \in Clients /\ client[s_client] = "created"
             /\ client' = [client EXCEPT ![s_client] = "down"]
      BY <1>9 DEF MqttLaunch, TypeOK
    <2>3. InitFirst' = InitFirst /\ ByProvisioning' = ByProvisioning
      BY <2>1 DEF InitFirst, ByProvisioning
    <2>4. NoStartYet' /\ InitOnce'
      BY <1>0, <2>1, <2>3 DEF NoStartYet, InitOnce, Starting
    <2>5. \A c \in Clients : /\ client'[c] = "none" <=> client[c] = "none"
                             /\ client'[c] \in {"subscribing", "up"} <=>
                                  client[c] \in {"subscribing", "up"}
      BY <1>0, <2>2
    <2>6. OneStart'
      <3>1. \A u \in Task : pc'[u] # "announce" \/ (pc[u] = "announce" /\ u # t)
        BY <2>1
      <3> QED
        BY <1>0, <2>1, <2>5, <3>1 DEF OneStart, Starting
    <2>7. ProvisioningCareful'
      <3> SUFFICES ASSUME ByProvisioning' PROVE ProvisioningCareful'
        BY DEF ProvisioningCareful
      <3>1. ByProvisioning /\ t = "cmd"
        BY <1>0, <2>1, <2>3 DEF ProvisioningCareful, Starting
      <3> QED
        BY <1>0, <2>1, <2>5, <3>1 DEF ProvisioningCareful, Starting
    <2> QED
      BY <2>4, <2>6, <2>7 DEF Lifecycle
  <1>10. ASSUME NEW c \in Clients, ClientStep(c) PROVE Lifecycle'
    <2>1. /\ UNCHANGED <<pc, s_client, calls>>
          /\ client[c] \notin {"none", "created"}
          /\ \E st \in {"down", "subscribing", "up", "failing"} :
               /\ client' = [client EXCEPT ![c] = st]
               /\ \/ st \in {"subscribing", "up"} /\ (mqtt' = "UP" \/ (mqtt' = mqtt /\ client[c] = "subscribing"))
                  \/ st \notin {"subscribing", "up"} /\ mqtt' \in {"CONNECTING", "ERROR"}
      BY <1>10 DEF ClientStep, OnMqttConnected, OnMqttSubscribed, OnMqttDisconnected, OnMqttError
    <2>2. InitFirst' = InitFirst /\ ByProvisioning' = ByProvisioning
      BY <2>1 DEF InitFirst, ByProvisioning
    <2>3. NoStartYet' /\ InitOnce'
      BY <1>0, <2>1, <2>2 DEF NoStartYet, InitOnce, Starting
    <2>4. OneStart'
      <3> SUFFICES ASSUME NEW t \in Task, calls = <<"init", t>>
                   PROVE  /\ \A d \in Clients : client'[d] # "none" => d = s_client
                          /\ \A u \in Task \ {t} : ~Starting(u)
                          /\ mqtt' = "UP" <=> \E d \in Clients : client'[d] \in {"subscribing", "up"}
                          /\ pc[t] = "announce" =>
                               \A d \in Clients : client'[d] \in {"none", "created"}
        BY <2>1 DEF OneStart, Starting
      <3>1. /\ \A d \in Clients : client[d] # "none" => d = s_client
            /\ \A u \in Task \ {t} : ~Starting(u)
            /\ mqtt = "UP" <=> \E d \in Clients : client[d] \in {"subscribing", "up"}
            /\ pc[t] = "announce" => \A d \in Clients : client[d] \in {"none", "created"}
        BY <1>0 DEF OneStart
      <3>2. c = s_client /\ pc[t] # "announce" /\ \A d \in Clients \ {c} : client'[d] = "none"
        BY <1>0, <2>1, <3>1
      <3>3. mqtt' = "UP" <=> client'[c] \in {"subscribing", "up"}
        BY <1>0, <2>1, <3>1
      <3> QED
        BY <3>1, <3>2, <3>3
    <2>5. ProvisioningCareful'
      <3> SUFFICES ASSUME ByProvisioning' PROVE ProvisioningCareful'
        BY DEF ProvisioningCareful
      <3>1. \A d \in Clients : client'[d] = "none" <=> client[d] = "none"
        BY <1>0, <2>1
      <3>2. mqtt' = "DOWN" => mqtt = "DOWN"
        BY <2>1
      <3>3. client'[c] \notin {"none", "created"}
        BY <1>0, <2>1
      <3> QED
        BY <1>0, <2>1, <2>2, <3>1, <3>2, <3>3 DEF ProvisioningCareful, Starting
    <2> QED
      BY <2>3, <2>4, <2>5 DEF Lifecycle
  <1>11. CASE LoopStep \/ LinkMoves \/ UNCHANGED vars
    BY <1>1, <1>11 DEF LoopStep, LinkMoves, Unhandled, OnStart, OnConnected, OnDisconnected, Reconnect,
                       OnGotIp, Associates, GetsIp, LosesLink, LinkStep, vars
  <1> QED
    BY <1>2, <1>3, <1>4, <1>5, <1>6, <1>7, <1>8, <1>9, <1>10, <1>11
    DEF Next, MainStep, CmdStep, OnlineStep, Task

LEMMA LifecycleAlways == Spec => []Lifecycle
  BY TypeCorrect, LifecycleInit, LifecycleNext, PTL DEF Spec

(* After one iot_mqtt_start, the state that iot_mqtt_publish_telemetry      *)
(* checks follows the client: the order in iot_mqtt_start, the state before *)
(* the client, leaves nothing for the caller to overwrite.                  *)
THEOREM UpMatchesAlways == Spec => []UpMatches
  <1>1. Lifecycle => UpMatches
    BY DEF Lifecycle, OneStart, UpMatches
  <1> QED
    BY <1>1, LifecycleAlways, PTL

(* Provisioning alone never has two clients: the check of the               *)
(* state in iot_provision_apply_json is enough when app_main does not start *)
(* MQTT, however often the device is provisioned.                           *)
THEOREM ProvisioningStartsOneAlways == Spec => []ProvisioningStartsOne
  <1>1. ASSUME Lifecycle PROVE ProvisioningStartsOne
    <2> DEFINE S == {c \in Clients : client[c] # "none"}
    <2> SUFFICES ASSUME ByProvisioning PROVE Cardinality(S) <= 1
      BY DEF ProvisioningStartsOne, ByProvisioning, InitFirst
    <2>1. \A c, d \in S : c = d
      BY <1>1 DEF Lifecycle, ProvisioningCareful
    <2>2. S = {} \/ \E c \in S : S = {c}
      BY <2>1
    <2>3. Cardinality({}) = 0 /\ \A c : Cardinality({c}) = 1
      BY FS_EmptySet, FS_Singleton
    <2>4. Cardinality(S) \in {0, 1}
      <3> HIDE DEF S
      <3> QED
        BY <2>2, <2>3
    <2> QED
      BY <2>4
  <1> QED
    BY <1>1, LifecycleAlways, PTL
-----------------------------------------------------------------------------
(* The attempt that is due.  The core of Reconnects: what remains for the   *)
(* fairness of the event task is to come to the event that is due.          *)

LEMMA EventAdded ==
    ASSUME TypeOK, NEW e \in Event, events' = Append(events, e)
    PROVE  Pending' = Pending \cup {e}
  <1>1. events \in Seq(Event) /\ Len(events) \in Nat
    BY DEF TypeOK
  <1>2. Len(events') = Len(events) + 1 /\ events'[Len(events) + 1] = e
        /\ \A i \in 1..Len(events) : events'[i] = events[i]
    BY <1>1, AddEvent
  <1>3. 1..Len(events') = 1..Len(events) \cup {Len(events) + 1}
    BY <1>1, <1>2
  <1> QED
    BY <1>2, <1>3 DEF Pending

LEMMA EventTaken ==
    ASSUME TypeOK, events # <<>>, events' = Tail(events)
    PROVE  Pending \ {Head(events)} \subseteq Pending'
  <1>1. /\ Len(events) \in Nat \ {0} /\ Head(events) = events[1]
        /\ Len(events') = Len(events) - 1
        /\ \A i \in 1..Len(events') : events'[i] = events[i + 1]
    BY TakeEvent DEF TypeOK
  <1>2. ASSUME NEW i \in 1..Len(events), events[i] # Head(events)
        PROVE  i - 1 \in 1..Len(events') /\ events'[i - 1] = events[i]
    BY <1>1, <1>2
  <1> QED
    BY <1>1, <1>2 DEF Pending

LEMMA AttemptIsDueNext == TypeOK /\ AttemptIsDue /\ [Next]_vars => AttemptIsDue'
  <1> SUFFICES ASSUME TypeOK, AttemptIsDue, [Next]_vars PROVE AttemptIsDue'
    OBVIOUS
  <1> USE DEF bootVars, wifiVars, mqttVars
  <1>0. Event = {"STA_START", "STA_CONNECTED", "STA_DISCONNECTED", "GOT_IP"}
    BY DEF Event
  <1>1. ASSUME UNCHANGED <<events, link, refused, missed, loop>>
        PROVE  AttemptIsDue'
    BY <1>1 DEF AttemptIsDue, Pending
  <1>2. ASSUME link' # "idle"
        PROVE  AttemptIsDue'
    BY <1>2 DEF AttemptIsDue
  <1>3. ASSUME NEW e \in {"STA_START", "STA_DISCONNECTED"}, events' = Append(events, e)
        PROVE  AttemptIsDue'
    BY <1>0, <1>3, EventAdded DEF AttemptIsDue
  (* A connection that is tried leaves "idle", or is refused. *)
  <1>4. ASSUME NEW q, NEW ok \in BOOLEAN, EspWifiConnect(q, ok)
        PROVE  AttemptIsDue'
    BY <1>4 DEF EspWifiConnect, AttemptIsDue
  <1>5. CASE LoopStep
    <2>1. CASE OnStart \/ Reconnect
      BY <1>4, <2>1 DEF OnStart, Reconnect
    <2>2. CASE OnDisconnected
      BY <2>2 DEF OnDisconnected, AttemptIsDue
    <2>3. CASE OnConnected \/ OnGotIp
      <3>1. /\ events # <<>> /\ events' = Tail(events)
            /\ Head(events) \notin {"STA_START", "STA_DISCONNECTED"}
            /\ UNCHANGED <<link, refused, missed, loop>>
        BY <2>3 DEF OnConnected, OnGotIp, Takes
      <3> QED
        BY <3>1, EventTaken DEF AttemptIsDue
    (* An event that is dropped either asks for nothing or is noted. *)
    <2>4. CASE Unhandled
      <3>1. /\ events # <<>> /\ events' = Tail(events)
            /\ Head(events) \notin {"STA_START", "STA_DISCONNECTED"} \/ missed'
            /\ missed => missed'
            /\ UNCHANGED <<link, refused, loop>>
        BY <2>4 DEF Unhandled
      <3> QED
        BY <3>1, EventTaken DEF AttemptIsDue
    <2> QED
      BY <1>5, <2>1, <2>2, <2>3, <2>4 DEF LoopStep
  <1>6. CASE LinkMoves
    BY <1>2, <1>3, <1>6 DEF LinkMoves, Associates, GetsIp, LosesLink, LinkStep
  <1>7. CASE WifiInit \/ WifiRegister \/ WifiReset
    BY <1>1, <1>2, <1>7 DEF WifiInit, WifiRegister, WifiReset
  <1>8. ASSUME NEW t \in Task, WifiStart(t) PROVE AttemptIsDue'
    BY <1>1, <1>3, <1>4, <1>8 DEF WifiStart
  <1>9. ASSUME NEW t \in Task,
               \/ WifiConfig(t) \/ WifiAccepted(t) \/ WifiFailed(t) \/ WifiWait(t)
               \/ MqttCreate(t) \/ MqttAnnounce(t) \/ MqttLaunch(t)
        PROVE  AttemptIsDue'
    BY <1>1, <1>9 DEF WifiConfig, WifiAccepted, WifiFailed, WifiWait, MqttCreate,
                      MqttAnnounce, MqttLaunch
  <1>10. CASE MqttInit \/ Provision \/ MqttCheck
    BY <1>1, <1>10 DEF MqttInit, Provision, MqttCheck
  <1>11. ASSUME NEW c \in Clients, ClientStep(c) PROVE AttemptIsDue'
    BY <1>1, <1>11 DEF ClientStep, OnMqttConnected, OnMqttSubscribed, OnMqttDisconnected,
                       OnMqttError
  <1>12. CASE UNCHANGED vars
    BY <1>1, <1>12 DEF vars
  <1> QED
    BY <1>5, <1>6, <1>7, <1>8, <1>9, <1>10, <1>11, <1>12
    DEF Next, MainStep, CmdStep, OnlineStep, Task

(* What the driver does is followed: IP_READY is right or corrected by an   *)
(* event that is queued; and a station without a connection has an attempt  *)
(* coming, or was refused, or its event came before there was a handler.    *)
THEOREM LinkIsFollowedAlways == Spec => []LinkIsFollowed
  <1>1. Init => AttemptIsDue
    BY DEF Init, AttemptIsDue
  <1>2. Spec => []AttemptIsDue
    BY <1>1, AttemptIsDueNext, TypeCorrect, PTL DEF Spec
  <1>3. IpReadyIsCurrent /\ AttemptIsDue => LinkIsFollowed
    BY DEF LinkIsFollowed
  <1> QED
    BY <1>2, <1>3, IpReadyAlways, PTL
-----------------------------------------------------------------------------
(* The two tasks come to an end.  A task goes from place to place on a way  *)
(* without a circle.  That it can always go on, TasksCanRun, speaks of      *)
(* ENABLED, which has no proof rules here: it is an hypothesis of the       *)
(* theorem, and TLC checks it.                                              *)

(* app_main reaches its end and every command comes back, for any network,  *)
(* any number of clients and any length of the event queue: the waits of    *)
(* app_main and of provisioning time out, and no way leads back.  That the   *)
(* next step is possible wherever they are is TasksCanRun, an invariant      *)
(* about ENABLED, which TLC checks.                                         *)
THEOREM TasksReturnAlways == FairSpec /\ []TasksCanRun => TasksReturn
  <1>1. FairSpec /\ []TasksCanRun => BootCompletes
    <2>1. TypeOK /\ [Next]_vars =>
            /\ pc.main = "wifi_init" => (pc.main = "wifi_init" \/ pc.main = "register" \/ pc.main = "mqtt_init")'
            /\ pc.main = "register" => (pc.main = "register" \/ pc.main = "register_ip")'
            /\ pc.main = "register_ip" => (pc.main = "register_ip" \/ pc.main = "wifi_state")'
            /\ pc.main = "wifi_state" => (pc.main = "wifi_state" \/ pc.main = "mqtt_init")'
            /\ pc.main = "mqtt_init" => (pc.main = "mqtt_init" \/ pc.main = "config" \/ pc.main = "done")'
            /\ pc.main = "config" => (pc.main = "config" \/ pc.main = "accepted" \/ pc.main = "failed")'
            /\ pc.main = "accepted" => (pc.main = "accepted" \/ pc.main = "start")'
            /\ pc.main = "start" => (pc.main = "start" \/ pc.main = "failed" \/ pc.main = "wait")'
            /\ pc.main = "failed" => (pc.main = "failed" \/ pc.main = "wait")'
            /\ pc.main = "wait" => (pc.main = "wait" \/ pc.main = "create" \/ pc.main = "done")'
            /\ pc.main = "create" => (pc.main = "create" \/ pc.main = "announce" \/ pc.main = "done")'
            /\ pc.main = "announce" => (pc.main = "announce" \/ pc.main = "launch")'
            /\ pc.main = "launch" => (pc.main = "launch" \/ pc.main = "done")'
      BY NextMoves, OwnPlaces DEF Follow, Initialising
    <2>2. TypeOK /\ <<MainStep>>_vars =>
            /\ pc.main = "wifi_init" => (pc.main = "register" \/ pc.main = "mqtt_init")'
            /\ pc.main = "register" => (pc.main = "register_ip")'
            /\ pc.main = "register_ip" => (pc.main = "wifi_state")'
            /\ pc.main = "wifi_state" => (pc.main = "mqtt_init")'
            /\ pc.main = "mqtt_init" => (pc.main = "config" \/ pc.main = "done")'
            /\ pc.main = "config" => (pc.main = "accepted" \/ pc.main = "failed")'
            /\ pc.main = "accepted" => (pc.main = "start")'
            /\ pc.main = "start" => (pc.main = "failed" \/ pc.main = "wait")'
            /\ pc.main = "failed" => (pc.main = "wait")'
            /\ pc.main = "wait" => (pc.main = "create" \/ pc.main = "done")'
            /\ pc.main = "create" => (pc.main = "announce" \/ pc.main = "done")'
            /\ pc.main = "announce" => (pc.main = "launch")'
            /\ pc.main = "launch" => (pc.main = "done")'
      BY MainMoves, OwnPlaces DEF Follow, Next, Initialising
    <2>3. TasksCanRun => pc.main = "done" \/ ENABLED <<MainStep>>_vars
      BY DEF TasksCanRun
    <2>4. Init => pc.main = "wifi_init"
      BY DEF Init
    <2>5. pc.main = "done" =>
            /\ pc.main # "wifi_init" /\ pc.main # "register" /\ pc.main # "register_ip"
            /\ pc.main # "wifi_state" /\ pc.main # "mqtt_init" /\ pc.main # "config"
            /\ pc.main # "accepted" /\ pc.main # "start" /\ pc.main # "failed"
            /\ pc.main # "wait" /\ pc.main # "create" /\ pc.main # "announce"
            /\ pc.main # "launch"
      OBVIOUS
    <2> QED
      BY <2>1, <2>2, <2>3, <2>4, <2>5, TypeCorrect, PTL DEF Spec, FairSpec, Fairness, BootCompletes
  <1>2. FairSpec /\ []TasksCanRun => CommandReturns
    <2>1. TypeOK /\ [Next]_vars =>
            /\ pc.cmd = "config" => (pc.cmd = "config" \/ pc.cmd = "accepted" \/ pc.cmd = "failed")'
            /\ pc.cmd = "accepted" => (pc.cmd = "accepted" \/ pc.cmd = "start")'
            /\ pc.cmd = "start" => (pc.cmd = "start" \/ pc.cmd = "failed" \/ pc.cmd = "wait")'
            /\ pc.cmd = "failed" => (pc.cmd = "failed" \/ pc.cmd = "wait" \/ pc.cmd = "idle")'
            /\ pc.cmd = "wait" => (pc.cmd = "wait" \/ pc.cmd = "create" \/ pc.cmd = "check" \/ pc.cmd = "idle")'
            /\ pc.cmd = "check" => (pc.cmd = "check" \/ pc.cmd = "create" \/ pc.cmd = "idle")'
            /\ pc.cmd = "create" => (pc.cmd = "create" \/ pc.cmd = "announce" \/ pc.cmd = "idle")'
            /\ pc.cmd = "announce" => (pc.cmd = "announce" \/ pc.cmd = "launch")'
            /\ pc.cmd = "launch" => (pc.cmd = "launch" \/ pc.cmd = "idle")'
      BY NextMoves, OwnPlaces DEF Follow, Initialising
    <2>2. TypeOK /\ <<CmdStep>>_vars =>
            /\ pc.cmd = "config" => (pc.cmd = "accepted" \/ pc.cmd = "failed")'
            /\ pc.cmd = "accepted" => (pc.cmd = "start")'
            /\ pc.cmd = "start" => (pc.cmd = "failed" \/ pc.cmd = "wait")'
            /\ pc.cmd = "failed" => (pc.cmd = "wait" \/ pc.cmd = "idle")'
            /\ pc.cmd = "wait" => (pc.cmd = "create" \/ pc.cmd = "check" \/ pc.cmd = "idle")'
            /\ pc.cmd = "check" => (pc.cmd = "create" \/ pc.cmd = "idle")'
            /\ pc.cmd = "create" => (pc.cmd = "announce" \/ pc.cmd = "idle")'
            /\ pc.cmd = "announce" => (pc.cmd = "launch")'
            /\ pc.cmd = "launch" => (pc.cmd = "idle")'
      BY CmdMoves, OwnPlaces DEF Follow, Next, Initialising
    <2>3. TasksCanRun => pc.cmd = "idle" \/ ENABLED <<CmdStep>>_vars
      BY DEF TasksCanRun
    <2>4. TypeOK =>
            \/ pc.cmd = "idle" \/ pc.cmd = "config" \/ pc.cmd = "accepted"
            \/ pc.cmd = "start" \/ pc.cmd = "failed" \/ pc.cmd = "wait"
            \/ pc.cmd = "check" \/ pc.cmd = "create" \/ pc.cmd = "announce"
            \/ pc.cmd = "launch"
      BY DEF TypeOK, Pc, Task, Initialising
    <2>5. pc.cmd = "idle" =>
            /\ pc.cmd # "config" /\ pc.cmd # "accepted" /\ pc.cmd # "start"
            /\ pc.cmd # "failed" /\ pc.cmd # "wait" /\ pc.cmd # "check"
            /\ pc.cmd # "create" /\ pc.cmd # "announce" /\ pc.cmd # "launch"
      OBVIOUS
    <2> QED
      BY <2>1, <2>2, <2>3, <2>4, <2>5, TypeCorrect, PTL DEF Spec, FairSpec, Fairness, CommandReturns
  <1> QED
    BY <1>1, <1>2, PTL DEF TasksReturn
-----------------------------------------------------------------------------
(* How near the next attempt to connect is: the events before the one that  *)
(* makes the handler connect, and its delay.  The rank behind Reconnects.   *)

AttemptDue(k) ==
    \/ loop = "delay" /\ k = 1
    \/ /\ loop = "idle"
       /\ \E i \in 1..Len(events) :
            events[i] \in {"STA_START", "STA_DISCONNECTED"} /\ k = i + 1

Attempted == link # "idle" \/ refused \/ missed

(* No step puts the attempt off, whatever the driver reports meanwhile, and *)
(* a step of the event task brings it nearer.                               *)
AttemptNears ==
    \A k \in Nat : AttemptDue(k) /\ ~Attempted =>
        \/ \E j \in 1..k : (j = k => ~LoopStep) /\ AttemptDue(j)'
        \/ Attempted'

LEMMA AttemptAhead ==
    ASSUME TypeOK, NEW k \in Nat, AttemptDue(k), loop' = loop,
           events' = events \/ \E e \in Event : events' = Append(events, e)
    PROVE  k \in 1..k /\ AttemptDue(k)'
  <1>1. events \in Seq(Event) /\ Len(events) \in Nat
    BY DEF TypeOK
  <1>2. CASE loop = "delay" /\ k = 1
    BY <1>2 DEF AttemptDue
  <1>3. ASSUME loop = "idle",
               NEW i \in 1..Len(events),
               events[i] \in {"STA_START", "STA_DISCONNECTED"}, k = i + 1
        PROVE  k \in 1..k /\ AttemptDue(k)'
    <2>1. i \in 1..Len(events') /\ events'[i] = events[i]
      BY <1>1, AppendProperties
    <2> QED
      BY <1>1, <1>3, <2>1 DEF AttemptDue
  <1> QED
    BY <1>2, <1>3 DEF AttemptDue

LEMMA LoopAttempts ==
    ASSUME TypeOK, NEW k \in Nat, AttemptDue(k), ~Attempted, LoopStep
    PROVE  (\E j \in 1..k - 1 : AttemptDue(j)') \/ Attempted'
  <1>1. events \in Seq(Event) /\ Len(events) \in Nat
    BY DEF TypeOK
  (* A connection that is tried leaves "idle", or is refused. *)
  <1>2. CASE OnStart \/ Reconnect
    BY <1>2 DEF OnStart, Reconnect, EspWifiConnect, Attempted
  <1>3. CASE OnDisconnected
    <2>1. loop = "idle" /\ loop' = "delay"
      BY <1>3 DEF OnDisconnected, Takes
    <2>2. 1 \in 1..k - 1
      BY <1>1, <2>1 DEF AttemptDue
    <2> QED
      BY <2>1, <2>2 DEF AttemptDue
  <1>4. CASE OnConnected \/ OnGotIp \/ (Unhandled /\ ~missed')
    <2>1. /\ loop = "idle" /\ loop' = "idle"
          /\ events # <<>> /\ events' = Tail(events)
          /\ Head(events) \notin {"STA_START", "STA_DISCONNECTED"}
      BY <1>4 DEF OnConnected, OnGotIp, Unhandled, Takes
    <2>2. PICK i \in 1..Len(events) :
              events[i] \in {"STA_START", "STA_DISCONNECTED"} /\ k = i + 1
      BY <2>1 DEF AttemptDue
    <2>3. /\ Len(events') = Len(events) - 1
          /\ \A m \in 1..Len(events') : events'[m] = events[m + 1]
          /\ Head(events) = events[1]
      BY <1>1, <2>1, HeadTailProperties
    <2>4. i # 1
      BY <2>1, <2>2, <2>3
    <2>5. i - 1 \in 1..Len(events') /\ events'[i - 1] = events[i]
      BY <1>1, <2>3, <2>4
    <2>6. i \in 1..k - 1 /\ i = (i - 1) + 1
      BY <1>1, <2>2
    <2>7. AttemptDue(i)'
      BY <2>1, <2>2, <2>5, <2>6 DEF AttemptDue
    <2> QED
      BY <2>6, <2>7
  <1> QED
    BY <1>2, <1>3, <1>4 DEF LoopStep, Attempted

(* The steps of the others do nothing to the event at hand. *)
LEMMA OthersAttempt ==
    ASSUME TypeOK, [Next]_vars, ~LoopStep, ~Attempted
    PROVE  \/ Attempted'
           \/ /\ loop' = loop
              /\ events' = events \/ \E e \in Event : events' = Append(events, e)
  <1> USE DEF bootVars, wifiVars, mqttVars
  <1>1. CASE LinkMoves
    BY <1>1 DEF LinkMoves, Associates, GetsIp, LosesLink, LinkStep, Event
  <1>2. CASE WifiInit \/ WifiRegister \/ WifiReset
    BY <1>2 DEF WifiInit, WifiRegister, WifiReset
  <1>3. ASSUME NEW t \in Task, WifiStart(t)
        PROVE  \/ Attempted'
               \/ /\ loop' = loop
                  /\ events' = events \/ \E e \in Event : events' = Append(events, e)
    BY <1>3 DEF WifiStart, EspWifiConnect, Event
  <1>4. ASSUME NEW t \in Task,
               \/ WifiConfig(t) \/ WifiAccepted(t) \/ WifiFailed(t) \/ WifiWait(t)
               \/ MqttCreate(t) \/ MqttAnnounce(t) \/ MqttLaunch(t)
        PROVE  loop' = loop /\ events' = events
    BY <1>4 DEF WifiConfig, WifiAccepted, WifiFailed, WifiWait, MqttCreate,
                MqttAnnounce, MqttLaunch
  <1>5. CASE MqttInit \/ Provision \/ MqttCheck
    BY <1>5 DEF MqttInit, Provision, MqttCheck
  <1>6. ASSUME NEW c \in Clients, ClientStep(c) PROVE loop' = loop /\ events' = events
    BY <1>6 DEF ClientStep, OnMqttConnected, OnMqttSubscribed, OnMqttDisconnected,
                OnMqttError
  <1>7. CASE UNCHANGED vars
    BY <1>7 DEF vars
  <1> QED
    BY <1>1, <1>2, <1>3, <1>4, <1>5, <1>6, <1>7
    DEF Next, MainStep, CmdStep, OnlineStep, Task

LEMMA AttemptNearsNext == TypeOK /\ [Next]_vars => AttemptNears
  <1> SUFFICES ASSUME TypeOK, [Next]_vars, NEW k \in Nat, AttemptDue(k), ~Attempted
               PROVE  \/ \E j \in 1..k : (j = k => ~LoopStep) /\ AttemptDue(j)'
                      \/ Attempted'
    BY DEF AttemptNears
  <1>1. CASE LoopStep
    <2>1. (\E j \in 1..k - 1 : AttemptDue(j)') \/ Attempted'
      BY <1>1, LoopAttempts
    <2>2. \A j \in 1..k - 1 : j \in 1..k /\ j # k
      OBVIOUS
    <2> QED
      BY <2>1, <2>2
  <1>2. CASE ~LoopStep
    BY <1>2, OthersAttempt, AttemptAhead
  <1> QED
    BY <1>1, <1>2

(* While the station has no connection and an attempt is due (none was      *)
(* refused, no event came before the handler was registered), the handler   *)
(* gets nearer to the next attempt with each of its steps, and no           *)
(* connection that is lost meanwhile, no provisioning and no client puts    *)
(* it back.                                                                 *)
THEOREM AttemptComesNearer == Spec => [][AttemptNears]_vars
  BY AttemptNearsNext, TypeCorrect, PTL DEF Spec
-----------------------------------------------------------------------------
(* From the rank to Reconnects *)

AttemptRule == LatticeRule(LAMBDA k : AttemptDue(k), Attempted)

LEMMA AttemptOneNearer ==
    ASSUME NEW k \in Nat
    PROVE  FairSpec /\ []TasksCanRun =>
               (AttemptDue(k) ~> (Attempted \/ \E j \in 1..k - 1 : AttemptDue(j)))
  <1> DEFINE Nearer == \E j \in 1..k - 1 : AttemptDue(j)
  <1>1. TypeOK /\ [Next]_vars /\ AttemptDue(k) =>
            Attempted \/ (AttemptDue(k) \/ Attempted \/ Nearer)'
    <2> SUFFICES ASSUME TypeOK, [Next]_vars, AttemptDue(k), ~Attempted
                 PROVE  (AttemptDue(k) \/ Attempted \/ Nearer)'
      OBVIOUS
    <2>1. ASSUME NEW j \in 1..k, AttemptDue(j)' PROVE (AttemptDue(k) \/ Nearer)'
      BY <2>1
    <2> QED
      BY <2>1, AttemptNearsNext DEF AttemptNears
  <1>2. TypeOK /\ <<LoopStep>>_vars /\ AttemptDue(k) => Attempted \/ (Attempted \/ Nearer)'
    BY LoopAttempts
  <1>3. TypeOK /\ TasksCanRun /\ AttemptDue(k) => ENABLED <<LoopStep>>_vars
    <2>1. TypeOK /\ AttemptDue(k) => loop = "delay" \/ events # <<>>
      BY EmptySeq DEF TypeOK, AttemptDue
    <2> QED
      BY <2>1 DEF TasksCanRun
  <1> QED
    BY <1>1, <1>2, <1>3, TypeCorrect, PTL DEF FairSpec, Fairness, Spec

(* A station that is not connected tries again, for any network and any     *)
(* length of the event queue.  The hypotheses are the invariant about       *)
(* ENABLED that TLC checks, and an instance of a rule of LeadsToRules, a    *)
(* truth of logic.                                                          *)
THEOREM ReconnectsByRank == FairSpec /\ []TasksCanRun /\ AttemptRule => Reconnects
  <1>1. FairSpec /\ []TasksCanRun =>
            \A k \in Nat :
                AttemptDue(k) ~> (Attempted \/ \E j \in 1..k - 1 : AttemptDue(j))
    BY AttemptOneNearer
  <1>2. TypeOK /\ LinkIsFollowed /\ link = "idle" => Attempted \/ \E k \in Nat : AttemptDue(k)
    <2> SUFFICES ASSUME TypeOK, LinkIsFollowed, link = "idle", ~Attempted
                 PROVE  \E k \in Nat : AttemptDue(k)
      OBVIOUS
    <2>1. CASE loop = "delay"
      BY <2>1 DEF AttemptDue
    <2>2. CASE loop # "delay"
      <3>1. PICK i \in 1..Len(events) : events[i] \in {"STA_START", "STA_DISCONNECTED"}
        BY <2>2 DEF LinkIsFollowed, AttemptIsDue, Attempted, Pending
      <3>2. loop = "idle" /\ i + 1 \in Nat
        BY <2>2 DEF TypeOK
      <3> QED
        BY <3>1, <3>2 DEF AttemptDue
    <2> QED
      BY <2>1, <2>2
  <1> QED
    BY <1>1, <1>2, TypeCorrect, LinkIsFollowedAlways, PTL
    DEF AttemptRule, LatticeRule, FairSpec, Reconnects, Attempted
=============================================================================
