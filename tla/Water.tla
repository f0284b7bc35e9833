-------------------------------- MODULE Water ---------------------------------
(***************************************************************************)
(* The water meter (iot_uc_water.c, iot_profile_water.c): metering, leak and *)
(* burst detection, the valve with its GPIO, tamper and billing.             *)
(*                                                                          *)
(* Volumes are counted in pulses and the tank level is left out.  Flow is in *)
(* litres per minute, as in the code: 60 litres for each litre of a sample.  *)
(***************************************************************************)
EXTENDS UcTask

CONSTANTS
    KFactors,        \* the valid k factors that a command sets
    MaxPulses        \* no pulse comes after so many, for model checking

ASSUME KFactorsAssumption == 2 \in KFactors /\ KFactors \subseteq Nat \ {0}
ASSUME MaxPulsesAssumption == MaxPulses \in Nat

VARIABLES
    w,               \* the record
    valve,           \* IOT_PIN_PWM_OUT: the valve is driven open
    exti,            \* how many pulses have come
    billable,        \* how many of those were sampled while not frozen
    metered          \* a command has fed the meter

waterVars == <<w, valve, exti, billable, metered>>

burst_lpm == 40

(* The pin is low before it is first written. *)
WaterInit ==
    /\ w = [k_ppl |-> 2, flow |-> 0, liters |-> 0, billing |-> 0, last_pulses |-> 0,
            valve_open |-> TRUE, leak |-> FALSE, burst |-> FALSE, tamper |-> FALSE,
            frozen |-> FALSE]
    /\ valve = FALSE
    /\ exti = 0
    /\ billable = 0
    /\ metered = FALSE
-----------------------------------------------------------------------------
(* sensor_task: iot_profile_water_sensor, iot_uc_water_on_sample, _meter, _leak and _burst *)

(* A slip: the count is taken never to go back. *)
DeltaForward(pulses) == pulses - w.last_pulses

Delta(pulses) == IF pulses >= w.last_pulses THEN pulses - w.last_pulses ELSE 0

Flow(d) == (60 * d) \div w.k_ppl

Metered(pulses) ==
    LET d == Delta(pulses)
        burst == Flow(d) > burst_lpm
        counted == IF w.frozen THEN 0 ELSE d
    IN  [w EXCEPT !.last_pulses = pulses, !.flow = Flow(d),
                  !.liters = @ + counted, !.billing = @ + counted,
                  !.leak = Flow(d) > 0 /\ ~w.valve_open,
                  !.burst = burst, !.valve_open = @ /\ ~burst]

(* Slips: the valve is driven only when it counts as open; the last count   *)
(* is not kept up while the billing is frozen.                              *)
WaterSampleIfOpen(n) ==
    /\ Sampling("water")
    /\ exti + n <= MaxPulses
    /\ exti' = exti + n
    /\ w' = Metered(exti + n)
    /\ valve' = IF w'.burst /\ w.valve_open THEN FALSE ELSE valve
    /\ billable' = IF w.frozen THEN billable ELSE billable + n
    /\ UNCHANGED metered

WaterSampleFrozenLater(n) ==
    /\ Sampling("water")
    /\ exti + n <= MaxPulses
    /\ exti' = exti + n
    /\ w' = [Metered(exti + n) EXCEPT !.last_pulses = IF w.frozen THEN w.last_pulses ELSE @]
    /\ valve' = (valve /\ ~w'.burst)
    /\ billable' = IF w.frozen THEN billable ELSE billable + n
    /\ UNCHANGED metered

(* n pulses have come since the last sample: none as long as app_main calls  *)
(* iot_profile_init before the sensor task has its semaphore (see Device),   *)
(* but the metering is meant for any number.                                 *)
WaterSample(n) ==
    /\ Sampling("water")
    /\ exti + n <= MaxPulses
    /\ exti' = exti + n
    /\ w' = Metered(exti + n)
    /\ valve' = (valve /\ ~w'.burst)
    /\ billable' = IF w.frozen THEN billable ELSE billable + n
    /\ UNCHANGED metered
-----------------------------------------------------------------------------
(* The command task *)

KeepPins == UNCHANGED <<valve, exti, billable, metered>>

(* apply_valve: the flag, then the pin. *)
SetFlag(open, meter) ==
    /\ w' = [meter EXCEPT !.valve_open = open]
    /\ Goto("valve_pin", [Blank EXCEPT !.b = open])

ValvePin ==
    /\ At("valve_pin")
    /\ record = "water"
    /\ valve' = reg.b
    /\ Done
    /\ UNCHANGED <<w, exti, billable, metered>>

(* A slip: tamper is not looked at. *)
WaterValveOpenAlways ==
    /\ Take("water")
    /\ SetFlag(TRUE, w)
    /\ KeepPins

WaterValveOpen ==
    /\ Take("water")
    /\ \/ ~w.tamper /\ SetFlag(TRUE, w)
       \/ w.tamper /\ Done /\ UNCHANGED w
    /\ KeepPins

WaterValveClose ==
    /\ Take("water")
    /\ SetFlag(FALSE, w)
    /\ KeepPins

WaterTamper ==
    /\ Take("water")
    /\ SetFlag(FALSE, [w EXCEPT !.tamper = TRUE])
    /\ KeepPins

WaterBilling ==
    /\ Take("water")
    /\ \E freeze \in BOOLEAN : w' = [w EXCEPT !.frozen = freeze]
    /\ Done
    /\ KeepPins

(* A factor out of range is refused. *)
WaterSetK ==
    /\ Take("water")
    /\ \E k \in KFactors \cup {0} : w' = [w EXCEPT !.k_ppl = IF k \in KFactors THEN k ELSE @]
    /\ Done
    /\ KeepPins

(* water.meter: without "pulses" in the command the count is 0.  (The code   *)
(* names last_pulses twice in one expression; the build optimises, -Og in    *)
(* sdkconfig:453, and loads it once.)                                        *)
WaterMeter ==
    /\ Take("water")
    /\ \E pulses \in {0, MaxPulses} :
         Goto("meter_last", [Blank EXCEPT !.n = pulses, !.d = Delta(pulses)])
    /\ metered' = TRUE
    /\ UNCHANGED <<w, valve, exti, billable>>

MeterLast ==
    /\ At("meter_last")
    /\ w' = [w EXCEPT !.last_pulses = reg.n]
    /\ Goto("meter_flow", reg)
    /\ KeepPins

MeterFlow ==
    /\ At("meter_flow")
    /\ w' = [w EXCEPT !.flow = Flow(reg.d)]
    /\ Goto(IF w.frozen THEN "leak_flow" ELSE "load_liters", [reg EXCEPT !.next = "burst_flow"])
    /\ KeepPins

(* A float is added in software: loaded, and stored later. *)
Load(label, value, next) ==
    /\ At(label)
    /\ Goto(next, [reg EXCEPT !.n = value])
    /\ UNCHANGED w
    /\ KeepPins

LoadLiters == Load("load_liters", w.liters, "store_liters")
LoadBilling == Load("load_billing", w.billing, "store_billing")

StoreLiters ==
    /\ At("store_liters")
    /\ w' = [w EXCEPT !.liters = reg.n + reg.d]
    /\ Goto("load_billing", reg)
    /\ KeepPins

StoreBilling ==
    /\ At("store_billing")
    /\ w' = [w EXCEPT !.billing = reg.n + reg.d]
    /\ Goto("leak_flow", reg)
    /\ KeepPins

(* water.leak, also the second part of water.meter *)
WaterLeak ==
    /\ Take("water")
    /\ Goto("leak_flow", Blank)
    /\ UNCHANGED w
    /\ KeepPins

LeakFlow ==
    /\ At("leak_flow")
    /\ Goto(IF w.flow > 0 THEN "leak_valve" ELSE "leak_set", [reg EXCEPT !.b = FALSE])
    /\ UNCHANGED w
    /\ KeepPins

LeakValve ==
    /\ At("leak_valve")
    /\ Goto("leak_set", [reg EXCEPT !.b = ~w.valve_open])
    /\ UNCHANGED w
    /\ KeepPins

LeakSet ==
    /\ At("leak_set")
    /\ w' = [w EXCEPT !.leak = reg.b]
    /\ Goto(reg.next, Blank)
    /\ KeepPins

(* water.burst, also the last part of water.meter *)
WaterBurst ==
    /\ Take("water")
    /\ Goto("burst_flow", Blank)
    /\ UNCHANGED w
    /\ KeepPins

BurstFlow ==
    /\ At("burst_flow")
    /\ Goto("burst_set", [Blank EXCEPT !.b = w.flow > burst_lpm])
    /\ UNCHANGED w
    /\ KeepPins

BurstSet ==
    /\ At("burst_set")
    /\ w' = [w EXCEPT !.burst = reg.b]
    /\ Goto(IF reg.b THEN "valve_flag" ELSE "idle", Blank)
    /\ KeepPins

BurstShuts ==
    /\ At("valve_flag")
    /\ SetFlag(FALSE, w)
    /\ KeepPins

WaterCommand ==
    \/ WaterValveOpen \/ WaterValveClose \/ WaterTamper \/ WaterBilling \/ WaterSetK
    \/ WaterMeter \/ WaterLeak \/ WaterBurst

WaterHandler ==
    \/ ValvePin \/ MeterLast \/ MeterFlow \/ LoadLiters \/ StoreLiters \/ LoadBilling
    \/ StoreBilling \/ LeakFlow \/ LeakValve \/ LeakSet \/ BurstFlow \/ BurstSet \/ BurstShuts

(* What a sample leaves behind: a burst has shut the valve, flag and pin. *)
WaterAgrees == sampled /\ w.burst => ~w.valve_open /\ ~valve
===============================================================================
