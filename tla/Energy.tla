-------------------------------- MODULE Energy --------------------------------
(***************************************************************************)
(* The energy monitor (iot_uc_energy.c, iot_profile_energy.c): measurement,  *)
(* alarm limits, calibration and the alarm LED.  The energy registers and    *)
(* the trip counter are left out; readings are small numbers.                *)
(***************************************************************************)
EXTENDS UcTask

CONSTANTS
    Readings,        \* the voltages and currents at the inputs
    Scales,          \* the scales that a command gives, valid or not
    Limits           \* the limits that a command gives

ASSUME EnergyAssumption == /\ Readings \subseteq Nat /\ Scales \subseteq Nat /\ Limits \subseteq Nat
                           /\ 1 \in Scales

VARIABLES
    s,               \* the record
    led              \* IOT_PIN_LED

energyVars == <<s, led>>

LimitName == {"over_w", "over_v", "under_v", "over_i"}

EnergyInit ==
    /\ s = [v_scale |-> 1, i_scale |-> 1, vrms |-> 2, irms |-> 0, p |-> 0, pf |-> 1,
            over_w |-> 4, over_v |-> 3, under_v |-> 1, over_i |-> 3, alarm |-> FALSE]
    /\ led = FALSE
-----------------------------------------------------------------------------
(* sensor_task: iot_uc_energy_on_adc, _measure, eval_alarms and _led_alarm *)

Power(m) == m.vrms * m.irms * m.pf

(* eval_alarms *)
Alarm(m) == m.p > m.over_w \/ m.vrms > m.over_v \/ m.vrms < m.under_v \/ m.irms > m.over_i

(* The scale is applied by on_adc and again by measure; a voltage that is   *)
(* not positive leaves the old one.                                         *)
Measured(v, i) ==
    LET read == [s EXCEPT !.vrms = IF v * s.v_scale > 0 THEN v * s.v_scale * s.v_scale ELSE @,
                          !.irms = i * s.i_scale * s.i_scale]
        powered == [read EXCEPT !.p = Power(read)]
    IN  [powered EXCEPT !.alarm = Alarm(powered)]

EnergySample(v, i) ==
    /\ Sampling("energy")
    /\ s' = Measured(v, i)
    /\ led' = s'.alarm
-----------------------------------------------------------------------------
(* The command task *)

KeepLed == UNCHANGED led

EnergyWrites(label, next, m) ==
    /\ At(label)
    /\ s' = m
    /\ Goto(next, reg)
    /\ KeepLed

EnergyReads(label, next, locals) ==
    /\ At(label)
    /\ Goto(next, locals)
    /\ UNCHANGED s
    /\ KeepLed

(* energy.measure *)
EnergyMeasure ==
    /\ Take("energy")
    /\ \E v \in Readings : s' = [s EXCEPT !.vrms = IF v > 0 THEN v * s.v_scale ELSE @]
    /\ Goto("measure_i", Blank)
    /\ KeepLed

MeasureI ==
    \E i \in Readings : EnergyWrites("measure_i", "read_p", [s EXCEPT !.irms = i * s.i_scale])

(* The product, then its store; also the end of energy.pf. *)
ReadP ==
    \/ EnergyReads("read_p", "read_i", [reg EXCEPT !.n = s.vrms])
    \/ EnergyReads("read_i", "set_p", [reg EXCEPT !.n = @ * s.irms * s.pf])

SetP == EnergyWrites("set_p", IF reg.next = "idle" THEN "eval" ELSE "idle", [s EXCEPT !.p = reg.n])

(* The disjunction of eval_alarms, read by read, up to the first that holds. *)
Trips(label, trips, otherwise) ==
    EnergyReads(label, IF trips THEN "set_alarm" ELSE otherwise,
                [Blank EXCEPT !.b = trips, !.next = "led"])

Eval ==
    \/ Trips("eval", s.p > s.over_w, "eval_over")
    \/ Trips("eval_over", s.vrms > s.over_v, "eval_under")
    \/ Trips("eval_under", s.vrms < s.under_v, "eval_i")
    \/ Trips("eval_i", s.irms > s.over_i, "set_alarm")

SetAlarm ==
    /\ At("set_alarm")
    /\ s' = [s EXCEPT !.alarm = reg.b]
    /\ Goto(reg.next, Blank)
    /\ KeepLed

(* energy.led_alarm, also the end of energy.measure *)
LedAlarm ==
    /\ Take("energy")
    /\ Goto("led", Blank)
    /\ UNCHANGED s
    /\ KeepLed

ReadAlarm == EnergyReads("led", "set_led", [Blank EXCEPT !.b = s.alarm])

SetLed ==
    /\ At("set_led")
    /\ led' = reg.b
    /\ Done
    /\ UNCHANGED s

(* energy.over_power, over_voltage, under_voltage and over_current: each    *)
(* makes the alarm that of its own limit, and none drives the LED.          *)
EnergyCheck ==
    /\ Take("energy")
    /\ \E b \in {s.p > s.over_w, s.vrms > s.over_v, s.vrms < s.under_v, s.irms > s.over_i} :
         Goto("set_alarm", [Blank EXCEPT !.b = b])
    /\ UNCHANGED s
    /\ KeepLed

(* energy.set_limits, one key of the command. *)
EnergySetLimits ==
    /\ Take("energy")
    /\ \E name \in LimitName, lim \in Limits : s' = [s EXCEPT ![name] = lim]
    /\ Done
    /\ KeepLed

(* energy.pf; a factor out of range is refused. *)
EnergyPf ==
    /\ Take("energy")
    /\ \/ \E pf \in {1, 2} : s' = [s EXCEPT !.pf = pf] /\ Goto("read_p", [Blank EXCEPT !.next = "pf"])
       \/ Done /\ UNCHANGED s
    /\ KeepLed

(* energy.calibrate: the scales given, each optional, are written one after *)
(* the other; one that is out of range is refused, but only after that.     *)
EnergyCalibrate ==
    /\ Take("energy")
    /\ \E v \in Scales \cup {s.v_scale} : s' = [s EXCEPT !.v_scale = v]
    /\ Goto("calibrate_i", Blank)
    /\ KeepLed

CalibrateI ==
    \E i \in Scales \cup {s.i_scale} : EnergyWrites("calibrate_i", "idle", [s EXCEPT !.i_scale = i])

EnergyCommand ==
    EnergyMeasure \/ LedAlarm \/ EnergyCheck \/ EnergySetLimits \/ EnergyPf \/ EnergyCalibrate

EnergyHandler ==
    MeasureI \/ ReadP \/ SetP \/ Eval \/ SetAlarm \/ ReadAlarm \/ SetLed \/ CalibrateI

(* What a sample leaves behind: the alarm is that of the four limits and    *)
(* the LED shows it.                                                        *)
EnergyAgrees == sampled => s.alarm = Alarm(s) /\ led = s.alarm
===============================================================================
