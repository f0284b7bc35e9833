--------------------------------- MODULE Field --------------------------------
(***************************************************************************)
(* The asset tracker, agriculture, cold-chain and robotics records           *)
(* (iot_uc_field.c, iot_profile_rest.c).  On their own products the sensor    *)
(* hook alone uses them; on the others, the command task alone: every        *)
(* handler is one step.  Batteries, humidity, the minutes of an excursion and *)
(* the irrigation window are left out; near is whether the tracker's RSSI is  *)
(* within the limit of a geofence.                                            *)
(***************************************************************************)
EXTENDS UcTask, Integers

CONSTANTS
    Moistures,       \* readings of the soil sensor
    Degrees,         \* readings of the cold-chain sensor
    SleepTimes,      \* what tracker.sleep asks for, valid or not
    MaxSilence       \* the heartbeat is not aged further, for model checking

ASSUME FieldAssumption == /\ Moistures \subseteq Int /\ Degrees \subseteq Int
                          /\ SleepTimes \subseteq Int /\ MaxSilence \in Nat

VARIABLES
    tr, ag, cd, rb,  \* the records
    duty             \* the pump's PWM is on

fieldVars == <<tr, ag, cd, rb, duty>>

thresh == 30
t_max == 8

FieldInit ==
    /\ tr = [moving |-> FALSE, near |-> TRUE, geo_inside |-> TRUE, sleep_s |-> 30]
    /\ ag = [moist |-> 0, pump |-> FALSE, inhibit |-> FALSE]
    /\ cd = [t |-> 0, door |-> FALSE, alarm |-> FALSE, acked |-> FALSE]
    /\ rb = [uart_n |-> 0, hb_age |-> 0, estop |-> FALSE]
    /\ duty = FALSE
-----------------------------------------------------------------------------
(* The tracker *)

TrackerHandler(after) ==
    /\ Take("tracker")
    /\ tr' = after
    /\ Done
    /\ UNCHANGED <<ag, cd, rb, duty>>

(* The hook passes constants: a strong signal, not moving. *)
TrackerSample ==
    /\ Sampling("tracker")
    /\ tr' = [tr EXCEPT !.near = TRUE, !.moving = FALSE]
    /\ UNCHANGED <<ag, cd, rb, duty>>

TrackerBeacon == \E near \in BOOLEAN : TrackerHandler([tr EXCEPT !.near = near])
TrackerMotion == \E moving \in BOOLEAN : TrackerHandler([tr EXCEPT !.moving = moving])
TrackerGeo == TrackerHandler([tr EXCEPT !.geo_inside = tr.near])

(* From 5 seconds to an hour; anything else is refused. *)
TrackerSleep ==
    \E t \in SleepTimes : TrackerHandler([tr EXCEPT !.sleep_s = IF 5 <= t /\ t <= 3600 THEN t ELSE @])

TrackerCommand == TrackerBeacon \/ TrackerMotion \/ TrackerGeo \/ TrackerSleep
-----------------------------------------------------------------------------
(* Agriculture: the PWM is initialised on its own product only, on the      *)
(* others iot_pwm_set_duty is refused.                                      *)

PumpHw(m, on) ==
    LET runs == on /\ ~m.inhibit
    IN  /\ ag' = [m EXCEPT !.pump = runs]
        /\ duty' = IF sampled THEN runs ELSE duty

AgriSample(moist) ==
    /\ Sampling("agriculture")
    /\ PumpHw([ag EXCEPT !.moist = moist], moist < thresh)
    /\ UNCHANGED <<tr, cd, rb>>

AgriTake == Take("agriculture") /\ Done /\ UNCHANGED <<tr, cd, rb>>

AgriSoil ==
    /\ AgriTake
    /\ \E moist \in Moistures : ag' = [ag EXCEPT !.moist = moist]
    /\ UNCHANGED duty

AgriPumpAuto == AgriTake /\ PumpHw(ag, ag.moist < thresh)
AgriPumpOn == AgriTake /\ PumpHw(ag, TRUE)
AgriPumpOff == AgriTake /\ PumpHw(ag, FALSE)

AgriInhibit ==
    /\ AgriTake
    /\ \/ PumpHw([ag EXCEPT !.inhibit = TRUE], FALSE)
       \/ ag' = [ag EXCEPT !.inhibit = FALSE] /\ UNCHANGED duty

AgriCommand == AgriSoil \/ AgriPumpAuto \/ AgriPumpOn \/ AgriPumpOff \/ AgriInhibit
-----------------------------------------------------------------------------
(* The cold chain *)

ColdHandler(after) ==
    /\ Take("coldchain")
    /\ cd' = after
    /\ Done
    /\ UNCHANGED <<tr, ag, rb, duty>>

(* iot_uc_cold_sample, _door and _excursion *)
ColdSampled(m, t) == [m EXCEPT !.t = t, !.alarm = t > t_max \/ m.door]

Door(m, open) == [m EXCEPT !.door = open, !.alarm = @ \/ open]

Excursion(m) == IF m.t > t_max THEN [m EXCEPT !.alarm = TRUE, !.acked = FALSE] ELSE m

(* The hook of the product has no door switch. *)
ColdSample(t) ==
    /\ Sampling("coldchain")
    /\ cd' = Excursion(Door(ColdSampled(cd, t), FALSE))
    /\ UNCHANGED <<tr, ag, rb, duty>>

ColdSampleCommand == \E t \in Degrees : ColdHandler(ColdSampled(cd, t))
ColdDoor == \E open \in BOOLEAN : ColdHandler(Door(cd, open))
ColdExcursion == ColdHandler(Excursion(cd))

(* A slip: the door does not keep the alarm up. *)
ColdAckDoor ==
    ColdHandler([cd EXCEPT !.acked = TRUE, !.alarm = @ /\ cd.t > t_max])

ColdAck ==
    ColdHandler([cd EXCEPT !.acked = TRUE, !.alarm = @ /\ (cd.door \/ cd.t > t_max)])

ColdCommand == ColdSampleCommand \/ ColdDoor \/ ColdExcursion \/ ColdAck
-----------------------------------------------------------------------------
(* Robotics: the age of the heartbeat counts in 200 ms, as the code adds    *)
(* them, once a sample without a byte from the robot.                       *)

RobotHandler(after) ==
    /\ Take("robotics")
    /\ rb' = after
    /\ Done
    /\ UNCHANGED <<tr, ag, cd, duty>>

Uart(m, n) == [m EXCEPT !.uart_n = n, !.hb_age = IF n > 0 THEN 0 ELSE @]

Heartbeat(m) == [m EXCEPT !.hb_age = IF m.uart_n = 0 /\ @ < MaxSilence THEN @ + 1 ELSE @]

RobotSample(n) ==
    /\ Sampling("robotics")
    /\ rb' = Heartbeat(Uart(rb, n))
    /\ UNCHANGED <<tr, ag, cd, duty>>

(* The number of bytes is not a key of a command and stays 0. *)
RobotUart == RobotHandler(Uart(rb, 0))
RobotHeartbeat == RobotHandler(Heartbeat(rb))
RobotEstop == \E estop \in BOOLEAN : RobotHandler([rb EXCEPT !.estop = estop])

(* robot.reject_motion, on the robotics product too for a payload with "move" *)
RobotReject == RobotHandler(rb)

RobotCommand == RobotUart \/ RobotHeartbeat \/ RobotEstop \/ RobotReject

(* What a sample leaves behind. *)
FieldAgrees ==
    sampled =>
        /\ ag.pump = duty
        /\ record = "agriculture" => ag.pump = (ag.moist < thresh /\ ~ag.inhibit)
        /\ rb.uart_n > 0 => rb.hb_age = 0
===============================================================================
