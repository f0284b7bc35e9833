------------------------------- MODULE UseCases -------------------------------
(***************************************************************************)
(* The use cases of all products between the sensor hook and the command    *)
(* task, and their properties.                                              *)
(***************************************************************************)
EXTENDS Water, Industrial, Energy, Gateways, Field

vars == <<taskVars, waterVars, g, energyVars, gatewayVars, fieldVars>>

Init ==
    /\ TaskInit
    /\ WaterInit
    /\ IndInit
    /\ EnergyInit
    /\ GatewaysInit
    /\ FieldInit

(* The hook of the product, once a period. *)
Sample ==
    \/ /\ \E n \in 0..MaxPulses : WaterSample(n)
       /\ UNCHANGED <<g, energyVars, gatewayVars, fieldVars>>
    \/ /\ \E temp \in Temps, vib \in Vibs, running \in BOOLEAN : IndSample(temp, vib, running)
       /\ UNCHANGED <<waterVars, energyVars, gatewayVars, fieldVars>>
    \/ /\ \E v, i \in Readings : EnergySample(v, i)
       /\ UNCHANGED <<waterVars, g, gatewayVars, fieldVars>>
    \/ /\ (\E mv \in Millivolts : EvSample(mv)) \/ (\E id \in FrameIds : AutoSample(id))
       /\ UNCHANGED <<waterVars, g, energyVars, fieldVars>>
    \/ /\ \/ TrackerSample
          \/ \E moist \in Moistures : AgriSample(moist)
          \/ \E t \in Degrees : ColdSample(t)
          \/ \E n \in 0..1 : RobotSample(n)
       /\ UNCHANGED <<waterVars, g, energyVars, gatewayVars>>

(* A command begins. *)
Command ==
    \/ WaterCommand /\ UNCHANGED <<g, energyVars, gatewayVars, fieldVars>>
    \/ IndCommand /\ UNCHANGED <<waterVars, energyVars, gatewayVars, fieldVars>>
    \/ EnergyCommand /\ UNCHANGED <<waterVars, g, gatewayVars, fieldVars>>
    \/ EvCommand /\ UNCHANGED <<waterVars, g, energyVars, fieldVars>>
    \/ AutoCommand /\ UNCHANGED <<waterVars, g, energyVars, fieldVars>>
    \/ /\ TrackerCommand \/ AgriCommand \/ ColdCommand \/ RobotCommand
       /\ UNCHANGED <<waterVars, g, energyVars, gatewayVars>>

(* A handler goes on. *)
Handler ==
    \/ WaterHandler /\ UNCHANGED <<g, energyVars, gatewayVars, fieldVars>>
    \/ IndHandler /\ UNCHANGED <<waterVars, energyVars, gatewayVars, fieldVars>>
    \/ EnergyHandler /\ UNCHANGED <<waterVars, g, gatewayVars, fieldVars>>
    \/ GatewayHandler /\ UNCHANGED <<waterVars, g, energyVars, fieldVars>>

Next == Sample \/ Command \/ Handler

Spec == Init /\ [][Next]_vars
-----------------------------------------------------------------------------
Place ==
    {"idle", "valve_pin", "meter_last", "meter_flow", "load_liters", "store_liters",
     "load_billing", "store_billing", "leak_flow", "leak_valve", "leak_set", "burst_flow",
     "burst_set", "valve_flag", "sample_vib", "sample_run", "step_over", "set_fault", "set_ack",
     "step_vib", "set_warn", "step_fault", "step_run", "set_run", "ack_idle", "ack_clear",
     "measure_i", "read_p", "read_i", "set_p", "eval", "eval_over", "eval_under", "eval_i",
     "set_alarm", "led", "set_led", "calibrate_i", "ev_temp", "ev_fault", "auto_accept"}

(* Every variable has its type: the handler is somewhere in its record's     *)
(* code, pulses, sessions and the heartbeat's age stay within their bounds,  *)
(* and what a command sets and the code validates is valid.                  *)
TypeOK ==
    /\ record \in Records /\ sampled \in BOOLEAN /\ disturbed \in BOOLEAN
    /\ pc \in Place
    /\ reg \in [n : Nat, d : Nat, b : BOOLEAN, next : {"idle", "burst_flow", "pf", "led"}]
    /\ asked \in 0..MaxCommands
    /\ w \in [k_ppl : KFactors, flow : Nat, liters : Nat, billing : Nat, last_pulses : 0..MaxPulses,
              valve_open : BOOLEAN, leak : BOOLEAN, burst : BOOLEAN, tamper : BOOLEAN,
              frozen : BOOLEAN]
    /\ valve \in BOOLEAN /\ metered \in BOOLEAN
    /\ exti \in 0..MaxPulses /\ billable \in 0..MaxPulses
    /\ g \in [temp : Temps, vib : Vibs, running : BOOLEAN, t_lim : Temps, vib_lim : Vibs,
              st : IndState, ack_needed : BOOLEAN]
    /\ s \in [v_scale : Scales, i_scale : Scales, vrms : Nat, irms : Nat, p : Nat, pf : {1, 2},
              over_w : Nat, over_v : Nat, under_v : Nat, over_i : Nat, alarm : BOOLEAN]
    /\ led \in BOOLEAN
    /\ ev \in [state : {"Idle", "Charging", "Fault"}, session : 0..MaxSession + 1,
               fault : BOOLEAN, temp : Nat]
    /\ can \in [last_id : FrameIds \cup {0}, accepted : BOOLEAN, bus_off : 0..MaxBusOff,
                dtc : BOOLEAN]
    /\ tr \in [moving : BOOLEAN, near : BOOLEAN, geo_inside : BOOLEAN, sleep_s : 5..3600]
    /\ ag \in [moist : Moistures \cup {0}, pump : BOOLEAN, inhibit : BOOLEAN]
    /\ cd \in [t : Degrees \cup {0}, door : BOOLEAN, alarm : BOOLEAN, acked : BOOLEAN]
    /\ rb \in [uart_n : 0..1, hb_age : 0..MaxSilence, estop : BOOLEAN]
    /\ duty \in BOOLEAN

(* A meter that was tampered with keeps its valve shut, flag and pin,       *)
(* whatever commands and bursts follow.                                     *)
TamperKeepsShut == pc = "idle" /\ w.tamper => ~w.valve_open /\ ~valve

(* Every pulse is billed once, but those of a frozen time never, unless a    *)
(* command has fed the meter; liters and billing are the same then.          *)
BillsOnce == ~metered => w.billing = billable /\ w.liters = billable

(* An inhibited pump is off, whatever switched it on before or after.        *)
InhibitStopsPump == ag.inhibit => ~ag.pump /\ ~duty

(* The cold-chain alarm stays up as long as it is too warm or the door is    *)
(* open: acknowledging, opening, closing and sampling in any order.          *)
ColdAlarmHolds == cd.door \/ cd.t > t_max => cd.alarm

(* Both locks hold at once, each against every command and sample of its    *)
(* record, whatever was acknowledged or switched before they set in.         *)
LocksHold == InhibitStopsPump /\ ColdAlarmHolds

(* One sample after the command task has left the record alone, state and    *)
(* outputs are those of the readings, whatever the two have left there: a    *)
(* valve that an interrupted command has driven open in a burst is shut, the *)
(* LED shows the alarm, the machine is in FAULT when over a limit and in RUN *)
(* only when it runs.  It says nothing of the faults that LatchedFaultsStay  *)
(* is about: whether a fault outlasts the readings that led to it.           *)
SampleRestores ==
    ~disturbed => WaterAgrees /\ IndAgrees /\ EnergyAgrees /\ GatewaysAgree /\ FieldAgrees

(* No sample takes back a fault that is latched: that of the display of the  *)
(* EV gateway (iot_uc.c:80, "Latch over-temp display fault"), and FAULT of   *)
(* the machine monitor until it is acknowledged (iot_uc.c:56, "Acknowledge   *)
(* latched FAULT to IDLE").                                                  *)
LatchedFaultsStay ==
    [][Sample => /\ ev.fault => ev'.fault
                 /\ g.st = "FAULT" /\ g.ack_needed => g'.st = "FAULT"]_vars
===============================================================================
