--------------------------- MODULE UseCases_proofs ---------------------------
(***************************************************************************)
(* Proofs about the use cases: for any readings, limits and numbers of       *)
(* commands, with the sensor hook between any two steps of a handler.        *)
(***************************************************************************)
EXTENDS UseCases, TLAPS

-----------------------------------------------------------------------------
(* The steps by the record that they use *)

WaterNext ==
    \/ \E n \in 0..MaxPulses : WaterSample(n)
    \/ WaterCommand
    \/ WaterHandler

IndNext ==
    \/ \E temp \in Temps, vib \in Vibs, running \in BOOLEAN : IndSample(temp, vib, running)
    \/ IndCommand
    \/ IndHandler

EnergyNext == (\E v, i \in Readings : EnergySample(v, i)) \/ EnergyCommand \/ EnergyHandler

EvNext == (\E mv \in Millivolts : EvSample(mv)) \/ EvCommand \/ EvReadTemp \/ EvSetFault

AutoNext == (\E id \in FrameIds : AutoSample(id)) \/ AutoCommand \/ AutoAccept

FieldNext ==
    \/ TrackerSample \/ TrackerCommand
    \/ (\E moist \in Moistures : AgriSample(moist)) \/ AgriCommand
    \/ (\E t \in Degrees : ColdSample(t)) \/ ColdCommand
    \/ (\E n \in 0..1 : RobotSample(n)) \/ RobotCommand

LEMMA NextParts ==
    ASSUME Next
    PROVE  \/ WaterNext /\ UNCHANGED <<g, energyVars, gatewayVars, fieldVars>>
           \/ IndNext /\ UNCHANGED <<waterVars, energyVars, gatewayVars, fieldVars>>
           \/ EnergyNext /\ UNCHANGED <<waterVars, g, gatewayVars, fieldVars>>
           \/ EvNext /\ UNCHANGED <<waterVars, g, energyVars, can, fieldVars>>
           \/ AutoNext /\ UNCHANGED <<waterVars, g, energyVars, ev, fieldVars>>
           \/ FieldNext /\ UNCHANGED <<waterVars, g, energyVars, gatewayVars>>
  <1>1. EvCommand \/ EvReadTemp \/ EvSetFault \/ (\E mv \in Millivolts : EvSample(mv)) => UNCHANGED can
    BY DEF EvCommand, EvStart, EvStop, EvSession, EvFault, EvSampleCommand, EvReadTemp, EvSetFault,
           EvSample, EvHandler, gatewayVars
  <1>2. AutoCommand \/ AutoAccept \/ (\E id \in FrameIds : AutoSample(id)) => UNCHANGED ev
    BY DEF AutoCommand, AutoFilter, AutoBusOff, AutoDtc, AutoAccept, AutoSample
  <1>3. CASE Sample
    BY <1>1, <1>2, <1>3 DEF Sample, WaterNext, IndNext, EnergyNext, EvNext, AutoNext, FieldNext
  <1>4. CASE Command
    BY <1>1, <1>2, <1>4 DEF Command, WaterNext, IndNext, EnergyNext, EvNext, AutoNext, FieldNext
  <1>5. CASE Handler
    BY <1>1, <1>2, <1>5 DEF Handler, GatewayHandler, WaterNext, IndNext, EnergyNext, EvNext, AutoNext
  <1> QED
    BY <1>3, <1>4, <1>5 DEF Next

-----------------------------------------------------------------------------
(* Where the handlers are *)

WaterPlace ==
    {"valve_pin", "meter_last", "meter_flow", "load_liters", "store_liters", "load_billing",
     "store_billing", "leak_flow", "leak_valve", "leak_set", "burst_flow", "burst_set", "valve_flag"}
IndPlace ==
    {"sample_vib", "sample_run", "step_over", "set_fault", "set_ack", "step_vib", "set_warn",
     "step_fault", "step_run", "set_run", "ack_idle", "ack_clear"}
EnergyPlace ==
    {"measure_i", "read_p", "read_i", "set_p", "eval", "eval_over", "eval_under", "eval_i",
     "set_alarm", "led", "set_led", "calibrate_i"}

(* A handler is in the code of its record, and a shared part of it goes on  *)
(* where it was called.                                                      *)
PlaceInv ==
    /\ record \in Records
    /\ pc \in Place
    /\ pc \in WaterPlace => record = "water"
    /\ pc \in IndPlace => record = "industrial"
    /\ pc \in EnergyPlace => record = "energy"
    /\ pc \in {"ev_temp", "ev_fault"} => record = "ev"
    /\ pc = "auto_accept" => record = "automotive"
    /\ reg.next \in {"idle", "burst_flow", "pf", "led"}
    /\ reg.next = "burst_flow" =>
         pc \in {"load_liters", "store_liters", "load_billing", "store_billing", "leak_flow",
                 "leak_valve", "leak_set"}
    /\ reg.next = "pf" => pc \in {"read_p", "read_i", "set_p"}
    /\ reg.next = "led" => pc \in {"eval_over", "eval_under", "eval_i", "set_alarm"}

Locals == [n : Nat, d : Nat, b : BOOLEAN, next : {"idle", "burst_flow", "pf", "led"}]

RegType == reg \in Locals

LEMMA PlaceInit == Init => PlaceInv
  BY DEF Init, TaskInit, PlaceInv, Place, Blank, WaterPlace, IndPlace, EnergyPlace

(* A step of a handler, for the invariant above. *)
LEMMA Goes ==
    ASSUME PlaceInv, NEW label, NEW locals, Goto(label, locals),
           \/ label = "idle"
           \/ /\ label \in WaterPlace /\ record = "water"
              /\ \/ locals.next = "idle"
                 \/ locals.next = "burst_flow"
                    /\ label \in {"load_liters", "store_liters", "load_billing", "store_billing",
                                  "leak_flow", "leak_valve", "leak_set"}
           \/ label \in IndPlace /\ record = "industrial" /\ locals.next = "idle"
           \/ /\ label \in EnergyPlace /\ record = "energy"
              /\ \/ locals.next = "idle"
                 \/ locals.next = "pf" /\ label \in {"read_p", "read_i", "set_p"}
                 \/ locals.next = "led" /\ label \in {"eval_over", "eval_under", "eval_i", "set_alarm"}
           \/ label \in {"ev_temp", "ev_fault"} /\ record = "ev" /\ locals.next = "idle"
           \/ label = "auto_accept" /\ record = "automotive" /\ locals.next = "idle"
    PROVE  PlaceInv'
  BY DEF PlaceInv, Place, WaterPlace, IndPlace, EnergyPlace, Goto, Blank

LEMMA IdleGoes == ASSUME PlaceInv, Done PROVE PlaceInv'
  BY Goes DEF Done

LEMMA Stays == ASSUME PlaceInv, UNCHANGED <<record, pc, reg>> PROVE PlaceInv'
  BY DEF PlaceInv

LEMMA BlankIs ==
    /\ Blank.next = "idle"
    /\ \A x : [Blank EXCEPT !.b = x].next = "idle" /\ [Blank EXCEPT !.n = x].next = "idle"
    /\ \A x, y : [Blank EXCEPT !.n = x, !.d = y].next = "idle"
    /\ \A x : [Blank EXCEPT !.next = x].next = x
    /\ \A x, y : [Blank EXCEPT !.b = x, !.next = y].next = y
  BY DEF Blank

LEMMA RegIs ==
    ASSUME RegType
    PROVE  /\ \A x : [reg EXCEPT !.n = x].next = reg.next /\ [reg EXCEPT !.b = x].next = reg.next
           /\ \A x : [reg EXCEPT !.next = x].next = x
  BY DEF RegType, Locals

LEMMA WaterPlaceKept ==
    ASSUME PlaceInv, RegType, WaterNext
    PROVE  PlaceInv'
  <1>1. CASE \E n \in 0..MaxPulses : WaterSample(n)
    BY <1>1, Stays DEF WaterSample, Sampling
  <1>2. CASE WaterValveOpen \/ WaterValveClose \/ WaterTamper \/ BurstShuts
    BY <1>2, Goes, IdleGoes, BlankIs
    DEF WaterValveOpen, WaterValveClose, WaterTamper, BurstShuts, SetFlag, Take, At, PlaceInv, WaterPlace
  <1>3. CASE WaterBilling \/ WaterSetK \/ ValvePin
    BY <1>3, IdleGoes DEF WaterBilling, WaterSetK, ValvePin
  <1>4. CASE WaterMeter \/ WaterLeak \/ WaterBurst
    <2>1. CASE WaterMeter
      <3>1. PICK x, y : Goto("meter_last", [Blank EXCEPT !.n = x, !.d = y]) /\ record = "water"
        BY <2>1 DEF WaterMeter, Take
      <3>2. PICK locals : locals = [Blank EXCEPT !.n = x, !.d = y]
        OBVIOUS
      <3>3. locals.next = "idle"
        BY <3>2 DEF Blank
      <3> QED
        BY <3>1, <3>2, <3>3, Goes DEF WaterPlace
    <2>2. CASE WaterLeak \/ WaterBurst
      BY <2>2, Goes, BlankIs DEF WaterLeak, WaterBurst, Take, WaterPlace
    <2> QED
      BY <1>4, <2>1, <2>2
  <1>5. CASE MeterLast \/ MeterFlow
    BY <1>5, Goes, RegIs DEF MeterLast, MeterFlow, At, PlaceInv, WaterPlace
  <1>6. CASE LoadLiters \/ StoreLiters \/ LoadBilling \/ StoreBilling
    BY <1>6, Goes, RegIs
    DEF LoadLiters, StoreLiters, LoadBilling, StoreBilling, Load, At, PlaceInv, WaterPlace, EnergyPlace
  <1>7. CASE LeakFlow \/ LeakValve
    BY <1>7, Goes, RegIs DEF LeakFlow, LeakValve, At, PlaceInv, WaterPlace, EnergyPlace
  <1>8. CASE LeakSet \/ BurstFlow \/ BurstSet
    BY <1>8, Goes, BlankIs DEF LeakSet, BurstFlow, BurstSet, At, PlaceInv, WaterPlace, EnergyPlace
  <1> QED
    BY <1>1, <1>2, <1>3, <1>4, <1>5, <1>6, <1>7, <1>8 DEF WaterNext, WaterCommand, WaterHandler

LEMMA IndPlaceKept ==
    ASSUME PlaceInv, RegType, IndNext
    PROVE  PlaceInv'
  <1>1. CASE \E temp \in Temps, vib \in Vibs, running \in BOOLEAN : IndSample(temp, vib, running)
    BY <1>1, Stays DEF IndSample, Sampling
  <1>2. CASE IndStateMachine \/ IndSampleCommand \/ IndAck \/ IndSetLimits
    BY <1>2, Goes, IdleGoes, BlankIs
    DEF IndStateMachine, IndSampleCommand, IndAck, IndSetLimits, Take, IndPlace
  <1>3. CASE IndSampleVib \/ IndSampleRun \/ SetFault \/ SetAck \/ SetWarn \/ SetRun \/ AckIdle \/ AckClear
    BY <1>3, Goes
    DEF IndSampleVib, IndSampleRun, SetFault, SetAck, SetWarn, SetRun, AckIdle, AckClear, IndWrites, At,
        PlaceInv, IndPlace, WaterPlace, EnergyPlace
  <1>4. CASE StepOver \/ StepVib \/ StepFault \/ StepRun
    BY <1>4, Goes, BlankIs DEF StepOver, StepVib, StepFault, StepRun, At, PlaceInv, IndPlace
  <1> QED
    BY <1>1, <1>2, <1>3, <1>4 DEF IndNext, IndCommand, IndHandler

LEMMA EnergyPlaceKept ==
    ASSUME PlaceInv, RegType, EnergyNext
    PROVE  PlaceInv'
  <1>1. CASE \E v, i \in Readings : EnergySample(v, i)
    BY <1>1, Stays DEF EnergySample, Sampling
  <1>2. CASE EnergyMeasure \/ LedAlarm \/ EnergyCalibrate
    BY <1>2, Goes, BlankIs DEF EnergyMeasure, LedAlarm, EnergyCalibrate, Take, EnergyPlace
  <1>3. CASE EnergyCheck
    <2>1. PICK b : Goto("set_alarm", [Blank EXCEPT !.b = b]) /\ record = "energy"
      BY <1>3 DEF EnergyCheck, Take
    <2> QED
      BY <2>1, Goes, BlankIs DEF EnergyPlace
  <1>4. CASE EnergySetLimits \/ SetLed
    BY <1>4, IdleGoes DEF EnergySetLimits, SetLed
  <1>5. CASE EnergyPf
    BY <1>5, Goes, IdleGoes, BlankIs DEF EnergyPf, Take, EnergyPlace
  <1>6. CASE MeasureI \/ CalibrateI
    BY <1>6, Goes DEF MeasureI, CalibrateI, EnergyWrites, At, PlaceInv, EnergyPlace, WaterPlace
  <1>7. CASE ReadP
    BY <1>7, Goes, RegIs DEF ReadP, EnergyReads, At, PlaceInv, EnergyPlace, WaterPlace
  <1>8. CASE SetP
    BY <1>8, Goes, RegIs DEF SetP, EnergyWrites, At, PlaceInv, EnergyPlace, WaterPlace
  <1>9. CASE Eval
    <2>1. PICK label \in {"eval_over", "eval_under", "eval_i", "set_alarm"} :
            \E b : Goto(label, [Blank EXCEPT !.b = b, !.next = "led"])
      BY <1>9 DEF Eval, Trips, EnergyReads
    <2>2. PICK locals :
            Goto(label, locals) /\ \E b : locals = [Blank EXCEPT !.b = b, !.next = "led"]
      BY <2>1
    <2>3. locals.next = "led"
      BY <2>2 DEF Blank
    <2>4. record = "energy" /\ label \in EnergyPlace
      BY <1>9, <2>1 DEF Eval, Trips, EnergyReads, At, PlaceInv, EnergyPlace
    <2> QED
      BY <2>1, <2>2, <2>3, <2>4, Goes
  <1>10. CASE SetAlarm
    BY <1>10, Goes, BlankIs DEF SetAlarm, At, PlaceInv, EnergyPlace, WaterPlace
  <1>11. CASE ReadAlarm
    BY <1>11, Goes, BlankIs DEF ReadAlarm, EnergyReads, At, PlaceInv, EnergyPlace
  <1> QED
    BY <1>1, <1>2, <1>3, <1>4, <1>5, <1>6, <1>7, <1>8, <1>9, <1>10, <1>11
    DEF EnergyNext, EnergyCommand, EnergyHandler

LEMMA GatewayPlaceKept ==
    ASSUME PlaceInv, RegType, EvNext \/ AutoNext
    PROVE  PlaceInv'
  <1>1. CASE (\E mv \in Millivolts : EvSample(mv)) \/ (\E id \in FrameIds : AutoSample(id))
    BY <1>1, Stays DEF EvSample, AutoSample, Sampling
  <1>2. CASE EvStart \/ EvStop \/ EvSession \/ EvFault \/ EvSetFault
    BY <1>2, IdleGoes DEF EvStart, EvStop, EvSession, EvFault, EvSetFault, EvHandler
  <1>3. CASE EvSampleCommand
    BY <1>3, Goes, BlankIs DEF EvSampleCommand, Take
  <1>4. CASE EvReadTemp
    <2>1. PICK b : Goto("ev_fault", [Blank EXCEPT !.b = b]) /\ pc = "ev_temp"
      BY <1>4 DEF EvReadTemp, At
    <2> QED
      BY <2>1, Goes, BlankIs DEF PlaceInv
  <1>5. CASE AutoFilter
    BY <1>5, Goes, BlankIs DEF AutoFilter, Take
  <1>6. CASE AutoBusOff \/ AutoDtc \/ AutoAccept
    BY <1>6, IdleGoes DEF AutoBusOff, AutoDtc, AutoAccept
  <1> QED
    BY <1>1, <1>2, <1>3, <1>4, <1>5, <1>6 DEF EvNext, AutoNext, EvCommand, AutoCommand

LEMMA FieldPlaceKept ==
    ASSUME PlaceInv, FieldNext
    PROVE  PlaceInv'
  <1>1. CASE TrackerSample \/ (\E moist \in Moistures : AgriSample(moist))
             \/ (\E t \in Degrees : ColdSample(t)) \/ (\E n \in 0..1 : RobotSample(n))
    BY <1>1, Stays DEF TrackerSample, AgriSample, ColdSample, RobotSample, Sampling
  <1>2. CASE TrackerCommand \/ AgriCommand \/ ColdCommand \/ RobotCommand
    BY <1>2, IdleGoes
    DEF TrackerCommand, TrackerBeacon, TrackerMotion, TrackerGeo, TrackerSleep, TrackerHandler,
        AgriCommand, AgriSoil, AgriPumpAuto, AgriPumpOn, AgriPumpOff, AgriInhibit, AgriTake,
        ColdCommand, ColdSampleCommand, ColdDoor, ColdExcursion, ColdAck, ColdHandler,
        RobotCommand, RobotUart, RobotHeartbeat, RobotEstop, RobotReject, RobotHandler
  <1> QED
    BY <1>1, <1>2 DEF FieldNext

(* Each step is one of the record that the behaviour is about. *)
LEMMA RecordOf ==
    ASSUME PlaceInv
    PROVE  /\ WaterNext => record = "water" /\ record' = record
           /\ IndNext => record = "industrial" /\ record' = record
           /\ EnergyNext => record = "energy" /\ record' = record
           /\ EvNext => record = "ev" /\ record' = record
           /\ AutoNext => record = "automotive" /\ record' = record
           /\ FieldNext => record \in Recursing /\ record' = record
  <1>1. WaterNext => record = "water" /\ record' = record
    BY DEF PlaceInv, WaterPlace, Sampling, Take, At, Goto, Done, WaterNext, WaterSample, WaterCommand,
           WaterHandler, WaterValveOpen, WaterValveClose, WaterTamper, WaterBilling, WaterSetK, WaterMeter,
           WaterLeak, WaterBurst, ValvePin, MeterLast, MeterFlow, LoadLiters, StoreLiters, LoadBilling,
           StoreBilling, Load, LeakFlow, LeakValve, LeakSet, BurstFlow, BurstSet, BurstShuts, SetFlag
  <1>2. IndNext => record = "industrial" /\ record' = record
    BY DEF PlaceInv, IndPlace, Sampling, Take, At, Goto, Done, IndNext, IndSample, IndCommand, IndHandler,
           IndStateMachine, IndSampleCommand, IndAck, IndSetLimits, IndSampleVib, IndSampleRun, StepOver,
           SetFault, SetAck, StepVib, SetWarn, StepFault, StepRun, SetRun, AckIdle, AckClear, IndWrites
  <1>3. EnergyNext => record = "energy" /\ record' = record
    BY DEF PlaceInv, EnergyPlace, Sampling, Take, At, Goto, Done, EnergyNext, EnergySample, EnergyCommand,
           EnergyHandler, EnergyMeasure, LedAlarm, EnergyCheck, EnergySetLimits, EnergyPf, EnergyCalibrate,
           MeasureI, ReadP, SetP, Eval, Trips, SetAlarm, ReadAlarm, SetLed, CalibrateI, EnergyWrites, EnergyReads
  <1>4. EvNext => record = "ev" /\ record' = record
    BY DEF PlaceInv, Sampling, Take, At, Goto, Done, EvNext, EvSample, EvCommand, EvReadTemp, EvSetFault,
           EvStart, EvStop, EvSession, EvFault, EvSampleCommand, EvHandler
  <1>5. AutoNext => record = "automotive" /\ record' = record
    BY DEF PlaceInv, Sampling, Take, At, Goto, Done, AutoNext, AutoSample, AutoCommand, AutoAccept,
           AutoFilter, AutoBusOff, AutoDtc
  <1>6. FieldNext => record \in Recursing /\ record' = record
    BY DEF Recursing, Sampling, Take, Goto, Done, FieldNext, TrackerSample, TrackerCommand, AgriSample,
           AgriCommand, ColdSample, ColdCommand, RobotSample, RobotCommand, TrackerBeacon, TrackerMotion,
           TrackerGeo, TrackerSleep, TrackerHandler, AgriSoil, AgriPumpAuto, AgriPumpOn, AgriPumpOff,
           AgriInhibit, AgriTake, ColdSampleCommand, ColdDoor, ColdExcursion, ColdAck, ColdHandler,
           RobotUart, RobotHeartbeat, RobotEstop, RobotReject, RobotHandler
  <1> QED
    BY <1>1, <1>2, <1>3, <1>4, <1>5, <1>6

LEMMA PlaceKept ==
    ASSUME PlaceInv, RegType, [Next]_vars
    PROVE  PlaceInv'
  BY NextParts, Stays, WaterPlaceKept, IndPlaceKept, EnergyPlaceKept, GatewayPlaceKept, FieldPlaceKept
  DEF vars, taskVars

-----------------------------------------------------------------------------
(* Types *)

WaterType ==
    w \in [k_ppl : KFactors, flow : Nat, liters : Nat, billing : Nat, last_pulses : 0..MaxPulses,
           valve_open : BOOLEAN, leak : BOOLEAN, burst : BOOLEAN, tamper : BOOLEAN,
           frozen : BOOLEAN]
PulseType == exti \in 0..MaxPulses /\ billable \in 0..MaxPulses
IndType ==
    g \in [temp : Temps, vib : Vibs, running : BOOLEAN, t_lim : Temps, vib_lim : Vibs,
           st : IndState, ack_needed : BOOLEAN]
EnergyType ==
    s \in [v_scale : Scales, i_scale : Scales, vrms : Nat, irms : Nat, p : Nat, pf : {1, 2},
           over_w : Nat, over_v : Nat, under_v : Nat, over_i : Nat, alarm : BOOLEAN]
EvType ==
    ev \in [state : {"Idle", "Charging", "Fault"}, session : 0..MaxSession + 1,
            fault : BOOLEAN, temp : Nat]
CanType ==
    can \in [last_id : FrameIds \cup {0}, accepted : BOOLEAN, bus_off : 0..MaxBusOff, dtc : BOOLEAN]
TrackerType == tr \in [moving : BOOLEAN, near : BOOLEAN, geo_inside : BOOLEAN, sleep_s : 5..3600]
AgriType == ag \in [moist : Moistures \cup {0}, pump : BOOLEAN, inhibit : BOOLEAN]
ColdType == cd \in [t : Degrees \cup {0}, door : BOOLEAN, alarm : BOOLEAN, acked : BOOLEAN]
RobotType == rb \in [uart_n : 0..1, hb_age : 0..MaxSilence, estop : BOOLEAN]
FlagType ==
    /\ sampled \in BOOLEAN /\ disturbed \in BOOLEAN /\ valve \in BOOLEAN /\ metered \in BOOLEAN
    /\ led \in BOOLEAN /\ duty \in BOOLEAN

RecordTypes ==
    /\ WaterType /\ PulseType /\ IndType /\ EnergyType /\ EvType /\ CanType
    /\ TrackerType /\ AgriType /\ ColdType /\ RobotType

LEMMA TypeParts ==
    TypeOK <=> /\ record \in Records /\ pc \in Place /\ RegType /\ asked \in 0..MaxCommands
               /\ FlagType /\ RecordTypes
  BY DEF TypeOK, RegType, Locals, FlagType, RecordTypes, WaterType, PulseType, IndType, EnergyType, EvType,
         CanType, TrackerType, AgriType, ColdType, RobotType

LEMMA TypeInit == Init => TypeOK
  <1> SUFFICES ASSUME Init PROVE TypeOK
    OBVIOUS
  <1>1. record \in Records /\ pc \in Place /\ RegType
    BY DEF Init, TaskInit, Place, RegType, Locals, Blank
  <1>2. FlagType
    BY DEF Init, TaskInit, WaterInit, EnergyInit, FieldInit, FlagType
  <1>3. asked \in 0..MaxCommands /\ PulseType
    <2>1. asked = 0 /\ exti = 0 /\ billable = 0
      BY DEF Init, TaskInit, WaterInit
    <2> QED
      BY <2>1, MaxCommandsAssumption, MaxPulsesAssumption DEF PulseType
  <1>4. WaterType
    <2>1. 0 \in 0..MaxPulses /\ 2 \in KFactors
      BY MaxPulsesAssumption, KFactorsAssumption
    <2> QED
      BY <2>1 DEF Init, WaterInit, WaterType
  <1>5. IndType /\ EnergyType
    BY ReadingsAssumption, EnergyAssumption DEF Init, IndInit, EnergyInit, IndType, EnergyType, IndState
  <1>6. EvType /\ CanType
    <2>1. 0 \in 0..MaxSession + 1 /\ 0 \in 0..MaxBusOff
      BY GatewaysAssumption
    <2> QED
      BY <2>1 DEF Init, GatewaysInit, EvType, CanType
  <1>7. TrackerType /\ AgriType /\ ColdType
    BY DEF Init, FieldInit, TrackerType, AgriType, ColdType
  <1>8. RobotType
    <2>1. 0 \in 0..MaxSilence
      BY FieldAssumption
    <2> QED
      BY <2>1 DEF Init, FieldInit, RobotType
  <1> QED
    BY <1>1, <1>2, <1>3, <1>4, <1>5, <1>6, <1>7, <1>8, TypeParts DEF RecordTypes

(* The local variables *)

LEMMA LocalsGo ==
    ASSUME RegType, NEW label, NEW locals, Goto(label, locals), label = "idle" \/ locals \in Locals
    PROVE  RegType'
  BY DEF RegType, Locals, Goto, Blank

LEMMA BlankTypes ==
    /\ Blank \in Locals
    /\ \A x \in BOOLEAN : [Blank EXCEPT !.b = x] \in Locals
    /\ \A x \in Nat : [Blank EXCEPT !.n = x] \in Locals
    /\ \A x, y \in Nat : [Blank EXCEPT !.n = x, !.d = y] \in Locals
    /\ \A x \in {"pf", "led"} : [Blank EXCEPT !.next = x] \in Locals
    /\ \A x \in BOOLEAN, y \in {"pf", "led"} : [Blank EXCEPT !.b = x, !.next = y] \in Locals
  BY DEF Blank, Locals

LEMMA RegTypes ==
    ASSUME RegType
    PROVE  /\ reg \in Locals
           /\ \A x \in BOOLEAN : [reg EXCEPT !.b = x] \in Locals
           /\ \A x \in Nat : [reg EXCEPT !.n = x] \in Locals
           /\ [reg EXCEPT !.next = "burst_flow"] \in Locals
  BY DEF RegType, Locals

(* The meter: what is billable has come, and what a command feeds it is      *)
(* within the bound too.                                                     *)
MeterInv ==
    /\ billable <= exti
    /\ pc = "meter_last" => reg.n \in {0, MaxPulses}

LEMMA DeltaType ==
    ASSUME WaterType, NEW pulses \in 0..MaxPulses
    PROVE  Delta(pulses) \in 0..MaxPulses
  BY MaxPulsesAssumption DEF Delta, WaterType

LEMMA Divided ==
    ASSUME NEW x \in Nat, NEW k \in Nat \ {0}
    PROVE  x \div k \in Nat
  BY Z3

LEMMA FlowType ==
    ASSUME WaterType, NEW d \in Nat
    PROVE  Flow(d) \in Nat
  <1>1. PICK x \in Nat : x = 60 * d
    OBVIOUS
  <1>2. PICK k \in Nat \ {0} : k = w.k_ppl
    BY KFactorsAssumption DEF WaterType
  <1> QED
    BY <1>1, <1>2, Divided DEF Flow

LEMMA MeteredType ==
    ASSUME WaterType, NEW pulses \in 0..MaxPulses
    PROVE  Metered(pulses) \in
             [k_ppl : KFactors, flow : Nat, liters : Nat, billing : Nat, last_pulses : 0..MaxPulses,
              valve_open : BOOLEAN, leak : BOOLEAN, burst : BOOLEAN, tamper : BOOLEAN,
              frozen : BOOLEAN]
  <1>1. PICK d \in Nat : d = Delta(pulses)
    BY DeltaType
  <1>2. PICK f \in Nat : f = Flow(d)
    BY FlowType
  <1>3. PICK c \in Nat : c = IF w.frozen THEN 0 ELSE d
    OBVIOUS
  <1>4. PICK b \in BOOLEAN : b = (f > burst_lpm)
    <2>1. (f > burst_lpm) \in BOOLEAN
      BY DEF burst_lpm
    <2> QED
      BY <2>1
  <1>5. PICK l \in BOOLEAN : l = (f > 0 /\ ~w.valve_open)
    OBVIOUS
  <1>6. Metered(pulses) =
          [w EXCEPT !.last_pulses = pulses, !.flow = f, !.liters = @ + c, !.billing = @ + c,
                    !.leak = l, !.burst = b, !.valve_open = @ /\ ~b]
    BY <1>1, <1>2, <1>3, <1>4, <1>5 DEF Metered
  <1>7. PICK v \in BOOLEAN : v = (w.valve_open /\ ~b)
    OBVIOUS
  <1>8. w.liters + c \in Nat /\ w.billing + c \in Nat
    BY DEF WaterType
  <1> QED
    BY <1>6, <1>7, <1>8 DEF WaterType

LEMMA WaterKept ==
    ASSUME TypeOK, PlaceInv, MeterInv, WaterNext
    PROVE  WaterType' /\ PulseType' /\ RegType'
  <1> USE TypeParts DEF RecordTypes
  <1>1. CASE \E n \in 0..MaxPulses : WaterSample(n)
    <2>1. PICK n \in 0..MaxPulses : WaterSample(n)
      BY <1>1
    <2>2. exti + n \in 0..MaxPulses
      BY <2>1 DEF WaterSample, PulseType
    <2>3. WaterType'
      BY <2>1, <2>2, MeteredType DEF WaterSample, WaterType
    <2>5. PulseType'
      BY <2>1, <2>2, MaxPulsesAssumption DEF WaterSample, PulseType, MeterInv
    <2>4. RegType'
      BY <2>1 DEF WaterSample, Sampling, RegType
    <2> QED
      BY <2>3, <2>4, <2>5
  <1>2. CASE WaterValveOpen \/ WaterValveClose \/ WaterTamper \/ BurstShuts
    <2>1. RegType'
      BY <1>2, LocalsGo, BlankTypes
      DEF WaterValveOpen, WaterValveClose, WaterTamper, BurstShuts, SetFlag, Done
    <2>2. WaterType'
      BY <1>2 DEF WaterValveOpen, WaterValveClose, WaterTamper, BurstShuts, SetFlag, WaterType
    <2>3. PulseType'
      BY <1>2 DEF WaterValveOpen, WaterValveClose, WaterTamper, BurstShuts, KeepPins, PulseType
    <2> QED
      BY <2>1, <2>2, <2>3
  <1>3. CASE WaterBilling \/ WaterSetK \/ ValvePin
    <2>1. RegType'
      BY <1>3, LocalsGo DEF WaterBilling, WaterSetK, ValvePin, Done
    <2>2. WaterType'
      BY <1>3 DEF WaterBilling, WaterSetK, ValvePin, WaterType
    <2>3. PulseType'
      BY <1>3 DEF WaterBilling, WaterSetK, ValvePin, KeepPins, PulseType
    <2> QED
      BY <2>1, <2>2, <2>3
  <1>4. CASE WaterMeter \/ WaterLeak \/ WaterBurst
    <2>1. RegType'
      <3>1. CASE WaterMeter
        <4>1. PICK n \in {0, MaxPulses} : Goto("meter_last", [Blank EXCEPT !.n = n, !.d = Delta(n)])
          BY <3>1 DEF WaterMeter
        <4>2. n \in Nat /\ Delta(n) \in Nat
          BY MaxPulsesAssumption, DeltaType
        <4> QED
          BY <4>1, <4>2, LocalsGo, BlankTypes
      <3> QED
        BY <1>4, <3>1, LocalsGo, BlankTypes DEF WaterLeak, WaterBurst
    <2> QED
      BY <1>4, <2>1 DEF WaterMeter, WaterLeak, WaterBurst, KeepPins, WaterType, PulseType
  <1>5. CASE MeterLast \/ MeterFlow
    <2>1. RegType'
      BY <1>5, LocalsGo, RegTypes DEF MeterLast, MeterFlow
    <2>2. reg.d \in Nat
      BY DEF RegType, Locals
    <2>3. MeterFlow => WaterType'
      BY <2>2, FlowType DEF MeterFlow, WaterType
    <2>4. MeterLast => WaterType'
      BY MaxPulsesAssumption DEF MeterLast, At, MeterInv, WaterType
    <2>5. PulseType'
      BY <1>5 DEF MeterLast, MeterFlow, KeepPins, PulseType
    <2> QED
      BY <1>5, <2>1, <2>3, <2>4, <2>5
  <1>6. CASE LoadLiters \/ StoreLiters \/ LoadBilling \/ StoreBilling
    <2>1. RegType'
      BY <1>6, LocalsGo, RegTypes
      DEF LoadLiters, StoreLiters, LoadBilling, StoreBilling, Load, WaterType
    <2>2. reg.n + reg.d \in Nat
      BY DEF RegType, Locals
    <2>3. WaterType'
      BY <1>6, <2>2 DEF LoadLiters, StoreLiters, LoadBilling, StoreBilling, Load, WaterType
    <2>4. PulseType'
      BY <1>6 DEF LoadLiters, StoreLiters, LoadBilling, StoreBilling, Load, KeepPins, PulseType
    <2> QED
      BY <2>1, <2>3, <2>4
  <1>7. CASE LeakFlow \/ LeakValve
    <2>1. RegType'
      BY <1>7, LocalsGo, RegTypes DEF LeakFlow, LeakValve
    <2> QED
      BY <1>7, <2>1 DEF LeakFlow, LeakValve, KeepPins, WaterType, PulseType
  <1>8. CASE LeakSet \/ BurstFlow \/ BurstSet
    <2>1. RegType'
      <3>1. CASE BurstFlow
        <4>1. (w.flow > burst_lpm) \in BOOLEAN
          BY DEF burst_lpm, WaterType
        <4> QED
          BY <3>1, <4>1, LocalsGo, BlankTypes DEF BurstFlow
      <3> QED
        BY <1>8, <3>1, LocalsGo, BlankTypes DEF LeakSet, BurstSet
    <2>2. WaterType'
      BY <1>8 DEF LeakSet, BurstFlow, BurstSet, WaterType, RegType, Locals
    <2>3. PulseType'
      BY <1>8 DEF LeakSet, BurstFlow, BurstSet, KeepPins, PulseType
    <2> QED
      BY <2>1, <2>2, <2>3
  <1> QED
    BY <1>1, <1>2, <1>3, <1>4, <1>5, <1>6, <1>7, <1>8 DEF WaterNext, WaterCommand, WaterHandler

(* The machine *)
LEMMA IndKept ==
    ASSUME TypeOK, PlaceInv, IndNext
    PROVE  IndType' /\ RegType'
  <1> USE TypeParts DEF RecordTypes
  <1>1. CASE \E temp \in Temps, vib \in Vibs, running \in BOOLEAN : IndSample(temp, vib, running)
    <2>1. PICK temp \in Temps, vib \in Vibs, running \in BOOLEAN : IndSample(temp, vib, running)
      BY <1>1
    <2>2. PICK m : m = [g EXCEPT !.temp = temp, !.vib = vib, !.running = running]
      OBVIOUS
    <2>3. m \in [temp : Temps, vib : Vibs, running : BOOLEAN, t_lim : Temps, vib_lim : Vibs,
                 st : IndState, ack_needed : BOOLEAN]
      BY <2>2 DEF IndType
    <2>4. g' = Stepped(m)
      BY <2>1, <2>2 DEF IndSample
    <2>5. m.temp \in Nat /\ m.vib \in Nat /\ m.t_lim \in Nat /\ m.vib_lim \in Nat
      BY <2>3, ReadingsAssumption
    <2>6. \/ Stepped(m) = m
          \/ Stepped(m) = [m EXCEPT !.st = "FAULT", !.ack_needed = TRUE]
          \/ \E st \in IndState : Stepped(m) = [m EXCEPT !.st = st]
      BY <2>5 DEF Stepped, IndState
    <2>7. IndType'
      BY <2>3, <2>4, <2>6 DEF IndType, IndState
    <2> QED
      BY <2>1, <2>7 DEF IndSample, Sampling, RegType
  <1>2. CASE IndStateMachine \/ IndSampleCommand \/ IndAck \/ IndSetLimits
    <2>1. RegType'
      BY <1>2, LocalsGo, BlankTypes DEF IndStateMachine, IndSampleCommand, IndAck, IndSetLimits, Done
    <2> QED
      BY <1>2, <2>1 DEF IndStateMachine, IndSampleCommand, IndAck, IndSetLimits, IndType
  <1>3. CASE IndSampleVib \/ IndSampleRun \/ SetFault \/ SetAck \/ SetWarn \/ SetRun \/ AckIdle \/ AckClear
    <2>1. RegType'
      BY <1>3, LocalsGo, RegTypes
      DEF IndSampleVib, IndSampleRun, SetFault, SetAck, SetWarn, SetRun, AckIdle, AckClear, IndWrites
    <2>2. IndType'
      BY <1>3
      DEF IndSampleVib, IndSampleRun, SetFault, SetAck, SetWarn, SetRun, AckIdle, AckClear, IndWrites,
          IndType, IndState
    <2> QED
      BY <2>1, <2>2
  <1>4. CASE StepOver \/ StepVib \/ StepFault \/ StepRun
    <2>1. RegType'
      BY <1>4, LocalsGo, BlankTypes DEF StepOver, StepVib, StepFault, StepRun, IndType
    <2> QED
      BY <1>4, <2>1 DEF StepOver, StepVib, StepFault, StepRun, IndType
  <1> QED
    BY <1>1, <1>2, <1>3, <1>4 DEF IndNext, IndCommand, IndHandler

(* The energy monitor *)

LEMMA Product == ASSUME NEW x \in Nat, NEW y \in Nat PROVE x * y \in Nat
  OBVIOUS

LEMMA ScaleType ==
    ASSUME EnergyType
    PROVE  s.v_scale \in Nat /\ s.i_scale \in Nat
  BY EnergyAssumption DEF EnergyType

EnergyFields ==
    [v_scale : Scales, i_scale : Scales, vrms : Nat, irms : Nat, p : Nat, pf : {1, 2},
     over_w : Nat, over_v : Nat, under_v : Nat, over_i : Nat, alarm : BOOLEAN]

LEMMA PowerType == ASSUME NEW m \in EnergyFields PROVE Power(m) \in Nat
  <1>1. m.vrms \in Nat /\ m.irms \in Nat /\ m.pf \in Nat
    BY DEF EnergyFields
  <1>2. m.vrms * m.irms \in Nat
    BY <1>1, Product
  <1> QED
    BY <1>1, <1>2, Product DEF Power

LEMMA AlarmType == ASSUME NEW m \in EnergyFields PROVE Alarm(m) \in BOOLEAN
  BY DEF Alarm, EnergyFields

LEMMA MeasuredType ==
    ASSUME EnergyType, NEW v \in Readings, NEW i \in Readings
    PROVE  Measured(v, i) \in EnergyFields
  <1>1. v \in Nat /\ i \in Nat /\ s.v_scale \in Nat /\ s.i_scale \in Nat
    BY ScaleType, EnergyAssumption
  <1>2. v * s.v_scale \in Nat /\ i * s.i_scale \in Nat
    BY <1>1, Product
  <1>3. v * s.v_scale * s.v_scale \in Nat /\ i * s.i_scale * s.i_scale \in Nat
    BY <1>1, <1>2, Product
  <1>4. PICK x \in Nat : x = IF v * s.v_scale > 0 THEN v * s.v_scale * s.v_scale ELSE s.vrms
    BY <1>3 DEF EnergyType
  <1>5. PICK y \in Nat : y = i * s.i_scale * s.i_scale
    BY <1>3
  <1>6. PICK m : m = [s EXCEPT !.vrms = x, !.irms = y]
    OBVIOUS
  <1>7. m \in EnergyFields
    BY <1>6 DEF EnergyType, EnergyFields
  <1>8. PICK n : n = [m EXCEPT !.p = Power(m)]
    OBVIOUS
  <1>9. n \in EnergyFields
    BY <1>7, <1>8, PowerType DEF EnergyFields
  <1>10. Measured(v, i) = [n EXCEPT !.alarm = Alarm(n)]
    BY <1>4, <1>5, <1>6, <1>8 DEF Measured
  <1>11. Alarm(n) \in BOOLEAN
    BY <1>9, AlarmType
  <1> QED
    BY <1>9, <1>10, <1>11 DEF EnergyFields

LEMMA EnergyKept ==
    ASSUME TypeOK, PlaceInv, EnergyNext
    PROVE  EnergyType' /\ RegType'
  <1>1. RegType /\ EnergyType /\ s \in EnergyFields
    BY TypeParts DEF RecordTypes, EnergyType, EnergyFields
  <1>2. EnergyType' <=> s' \in EnergyFields
    BY DEF EnergyType, EnergyFields
  <1>3. CASE \E v, i \in Readings : EnergySample(v, i)
    BY <1>1, <1>2, <1>3, MeasuredType DEF EnergySample, Sampling, RegType
  <1>4. CASE EnergyMeasure
    <2>1. PICK v \in Readings : s' = [s EXCEPT !.vrms = IF v > 0 THEN v * s.v_scale ELSE @]
      BY <1>4 DEF EnergyMeasure
    <2>2. v * s.v_scale \in Nat
      BY <1>1, ScaleType, Product, EnergyAssumption
    <2>3. s' \in EnergyFields
      BY <1>1, <2>1, <2>2 DEF EnergyFields
    <2> QED
      BY <1>1, <1>2, <1>4, <2>3, LocalsGo, BlankTypes DEF EnergyMeasure
  <1>5. CASE LedAlarm \/ ReadAlarm
    <2>1. RegType' /\ s' = s
      BY <1>1, <1>5, LocalsGo, BlankTypes DEF LedAlarm, ReadAlarm, EnergyReads, EnergyFields
    <2> QED
      BY <1>1, <1>2, <2>1
  <1>6. CASE EnergyCheck
    <2>1. PICK b \in {s.p > s.over_w, s.vrms > s.over_v, s.vrms < s.under_v, s.irms > s.over_i} :
             Goto("set_alarm", [Blank EXCEPT !.b = b])
      BY <1>6 DEF EnergyCheck
    <2>2. /\ (s.p > s.over_w) \in BOOLEAN /\ (s.vrms > s.over_v) \in BOOLEAN
          /\ (s.vrms < s.under_v) \in BOOLEAN /\ (s.irms > s.over_i) \in BOOLEAN
      BY <1>1 DEF EnergyFields
    <2>3. b \in BOOLEAN
      BY <2>2
    <2> QED
      BY <1>1, <1>2, <1>6, <2>1, <2>3, LocalsGo, BlankTypes DEF EnergyCheck
  <1>7. CASE EnergySetLimits
    <2>1. PICK name \in LimitName, lim \in Limits : s' = [s EXCEPT ![name] = lim]
      BY <1>7 DEF EnergySetLimits
    <2>2. lim \in Nat
      BY EnergyAssumption
    <2>3. s' \in EnergyFields
      BY <1>1, <2>1, <2>2 DEF EnergyFields, LimitName
    <2> QED
      BY <1>1, <1>2, <1>7, <2>3, LocalsGo DEF EnergySetLimits, Done
  <1>8. CASE EnergyPf
    <2>1. s' \in EnergyFields
      BY <1>1, <1>8 DEF EnergyPf, EnergyFields
    <2> QED
      BY <1>1, <1>2, <1>8, <2>1, LocalsGo, BlankTypes DEF EnergyPf, Done
  <1>9. CASE EnergyCalibrate \/ CalibrateI
    <2>1. s' \in EnergyFields
      BY <1>1, <1>9 DEF EnergyCalibrate, CalibrateI, EnergyWrites, EnergyFields
    <2> QED
      BY <1>1, <1>2, <1>9, <2>1, LocalsGo, BlankTypes, RegTypes DEF EnergyCalibrate, CalibrateI, EnergyWrites
  <1>10. CASE MeasureI
    <2>1. PICK i \in Readings : EnergyWrites("measure_i", "read_p", [s EXCEPT !.irms = i * s.i_scale])
      BY <1>10 DEF MeasureI
    <2>2. i * s.i_scale \in Nat
      BY <1>1, ScaleType, Product, EnergyAssumption
    <2>3. s' \in EnergyFields
      BY <1>1, <2>1, <2>2 DEF EnergyWrites, EnergyFields
    <2> QED
      BY <1>1, <1>2, <2>1, <2>3, LocalsGo, RegTypes DEF EnergyWrites
  <1>11. CASE ReadP \/ Eval
    <2>1. /\ s.vrms \in Nat /\ s.irms \in Nat /\ s.pf \in Nat /\ s.p \in Nat
          /\ s.over_w \in Nat /\ s.over_v \in Nat /\ s.under_v \in Nat /\ s.over_i \in Nat
          /\ reg.n \in Nat
      BY <1>1 DEF EnergyFields, RegType, Locals
    <2>2. reg.n * s.irms \in Nat
      BY <2>1, Product
    <2>3. reg.n * s.irms * s.pf \in Nat
      BY <2>1, <2>2, Product
    <2>4. CASE ReadP
      <3>1. /\ [reg EXCEPT !.n = s.vrms] \in Locals
            /\ [reg EXCEPT !.n = @ * s.irms * s.pf] \in Locals
        BY <1>1, <2>1, <2>3 DEF RegType, Locals
      <3>2. RegType' /\ s' = s
        BY <1>1, <2>4, <3>1, LocalsGo DEF ReadP, EnergyReads
      <3> QED
        BY <1>1, <1>2, <3>2
    <2>5. CASE Eval
      <3>1. \A b \in BOOLEAN : \A label, otherwise :
                Trips(label, b, otherwise) => RegType' /\ s' = s
        BY <1>1, <1>2, LocalsGo, BlankTypes DEF Trips, EnergyReads
      <3>2. /\ (s.p > s.over_w) \in BOOLEAN /\ (s.vrms > s.over_v) \in BOOLEAN
            /\ (s.vrms < s.under_v) \in BOOLEAN /\ (s.irms > s.over_i) \in BOOLEAN
        BY <2>1
      <3>3. RegType' /\ s' = s
        BY <2>5, <3>1, <3>2, Zenon DEF Eval
      <3> QED
        BY <1>1, <1>2, <3>3
    <2> QED
      BY <1>1, <1>2, <1>11, <2>4, <2>5
  <1>12. CASE SetP
    <2>1. reg.n \in Nat
      BY <1>1 DEF RegType, Locals
    <2>2. s' \in EnergyFields
      BY <1>1, <1>12, <2>1 DEF SetP, EnergyWrites, EnergyFields
    <2> QED
      BY <1>1, <1>2, <1>12, <2>2, LocalsGo, RegTypes DEF SetP, EnergyWrites
  <1>13. CASE SetAlarm \/ SetLed
    <2>1. reg.b \in BOOLEAN
      BY <1>1 DEF RegType, Locals
    <2>2. s' \in EnergyFields
      BY <1>1, <1>13, <2>1 DEF SetAlarm, SetLed, EnergyFields
    <2> QED
      BY <1>1, <1>2, <1>13, <2>2, LocalsGo, BlankTypes DEF SetAlarm, SetLed, Done
  <1> QED
    BY <1>3, <1>4, <1>5, <1>6, <1>7, <1>8, <1>9, <1>10, <1>11, <1>12, <1>13
    DEF EnergyNext, EnergyCommand, EnergyHandler

(* The gateways and the field records *)

LEMMA EvHandled ==
    ASSUME EvType, EvStart \/ EvStop \/ EvSession \/ EvFault
    PROVE  EvType'
  <1>1. CASE EvStart
    <2>1. PICK n \in 0..MaxSession + 1 : n = IF ev.session = 0 THEN 1 ELSE ev.session
      BY GatewaysAssumption DEF EvType
    <2>2. ev' = ev \/ ev' = [ev EXCEPT !.state = "Charging", !.session = n]
      BY <1>1, <2>1 DEF EvStart, EvHandler
    <2>3. CASE ev' = ev
      BY <2>3 DEF EvType
    <2>4. CASE ev' = [ev EXCEPT !.state = "Charging", !.session = n]
      BY <2>4 DEF EvType
    <2> QED
      BY <2>2, <2>3, <2>4
  <1>2. CASE EvStop
    BY <1>2 DEF EvStop, EvHandler, EvType
  <1>3. CASE EvFault
    <2>1. PICK b \in BOOLEAN : b = TRUE
      OBVIOUS
    <2>2. ev' = [ev EXCEPT !.fault = b, !.state = "Fault"]
      BY <1>3, <2>1 DEF EvFault, EvHandler
    <2> QED
      BY <2>2 DEF EvType
  <1>4. CASE EvSession
    <2>1. PICK zero, next \in Nat : zero = 0 /\ next = ev.session + 1
      BY DEF EvType
    <2>2. \/ ev' = [ev EXCEPT !.session = zero, !.state = "Idle"]
          \/ ev.session < MaxSession /\ ev' = [ev EXCEPT !.session = next]
      BY <1>4, <2>1 DEF EvSession, EvHandler
    <2>3. zero \in 0..MaxSession + 1 /\ (ev.session < MaxSession => next \in 0..MaxSession + 1)
      BY <2>1, GatewaysAssumption DEF EvType
    <2>4. CASE ev' = [ev EXCEPT !.session = zero, !.state = "Idle"]
      BY <2>3, <2>4 DEF EvType
    <2>5. CASE ev.session < MaxSession /\ ev' = [ev EXCEPT !.session = next]
      BY <2>3, <2>5 DEF EvType
    <2> QED
      BY <2>2, <2>4, <2>5
  <1> QED
    BY <1>1, <1>2, <1>3, <1>4

LEMMA EvKept ==
    ASSUME TypeOK, EvNext
    PROVE  EvType' /\ RegType'
  <1>1. RegType /\ EvType
    BY TypeParts DEF RecordTypes
  <1>2. \A mv \in Millivolts \cup {0} : Celsius(mv) \in Nat
    <2> SUFFICES ASSUME NEW mv \in Millivolts \cup {0} PROVE Celsius(mv) \in Nat
      OBVIOUS
    <2>1. mv \in Nat
      BY GatewaysAssumption
    <2>2. PICK x \in Nat : x = mv % 200
      BY <2>1
    <2>3. x \div 20 \in Nat
      BY <2>2, Divided
    <2> QED
      BY <2>2, <2>3 DEF Celsius
  <1>3. CASE \E mv \in Millivolts : EvSample(mv)
    <2>1. PICK mv \in Millivolts : EvSample(mv)
      BY <1>3
    <2>2. PICK t \in Nat : t = Celsius(mv)
      BY <1>2
    <2>3. ev' = [ev EXCEPT !.temp = t, !.fault = t > 70]
      BY <2>1, <2>2 DEF EvSample, EvSampled
    <2>4. (t > 70) \in BOOLEAN
      OBVIOUS
    <2>5. EvType'
      BY <1>1, <2>3, <2>4 DEF EvType
    <2> QED
      BY <1>1, <2>1, <2>5 DEF EvSample, Sampling, RegType
  <1>4. CASE EvStart \/ EvStop \/ EvSession \/ EvFault
    <2>1. RegType'
      BY <1>1, <1>4, LocalsGo DEF EvStart, EvStop, EvSession, EvFault, EvHandler, Done
    <2>2. EvType'
      BY <1>1, <1>4, EvHandled
    <2> QED
      BY <2>1, <2>2
  <1>5. CASE EvSampleCommand
    <2>1. ev' = [ev EXCEPT !.temp = Celsius(0)] /\ Celsius(0) \in Nat
      BY <1>2, <1>5 DEF EvSampleCommand
    <2>2. EvType'
      BY <1>1, <2>1 DEF EvType
    <2> QED
      BY <1>1, <1>5, <2>2, LocalsGo, BlankTypes DEF EvSampleCommand
  <1>6. CASE EvReadTemp
    <2>1. (ev.temp > 70) \in BOOLEAN
      BY <1>1 DEF EvType
    <2>2. RegType'
      BY <1>1, <1>6, <2>1, LocalsGo, BlankTypes DEF EvReadTemp
    <2> QED
      BY <1>1, <1>6, <2>2 DEF EvReadTemp, gatewayVars, EvType
  <1>7. CASE EvSetFault
    <2>1. EvType'
      BY <1>1, <1>7 DEF EvSetFault, EvType, RegType, Locals
    <2> QED
      BY <1>1, <1>7, <2>1, LocalsGo DEF EvSetFault, Done
  <1> QED
    BY <1>3, <1>4, <1>5, <1>6, <1>7 DEF EvNext, EvCommand

LEMMA AutoKept ==
    ASSUME TypeOK, AutoNext
    PROVE  CanType' /\ RegType'
  <1>1. RegType /\ CanType
    BY TypeParts DEF RecordTypes
  <1>2. \A id \in FrameIds \cup {0} : id \in Nat /\ Allowed(id) \in BOOLEAN
    BY GatewaysAssumption DEF Allowed
  <1>3. CASE \E id \in FrameIds : AutoSample(id)
    <2>1. PICK id \in FrameIds : AutoSample(id)
      BY <1>3
    <2>2. PICK b \in BOOLEAN : b = Allowed(id)
      BY <1>2
    <2>3. can' = [can EXCEPT !.last_id = id, !.accepted = b]
      BY <2>1, <2>2 DEF AutoSample
    <2> QED
      BY <1>1, <2>1, <2>3 DEF AutoSample, Sampling, RegType, CanType
  <1>4. CASE AutoFilter \/ AutoDtc
    <2>1. RegType'
      BY <1>1, <1>4, LocalsGo, BlankTypes DEF AutoFilter, AutoDtc, Done
    <2> QED
      BY <1>1, <1>4, <2>1 DEF AutoFilter, AutoDtc, CanType
  <1>5. CASE AutoBusOff
    <2>1. can.bus_off + 1 \in 0..MaxBusOff
      BY <1>1, <1>5, GatewaysAssumption DEF AutoBusOff, CanType
    <2>2. CanType'
      BY <1>1, <1>5, <2>1 DEF AutoBusOff, CanType
    <2> QED
      BY <1>1, <1>5, <2>2, LocalsGo DEF AutoBusOff, Done
  <1>6. CASE AutoAccept
    <2>1. PICK b \in BOOLEAN : b = Allowed(0)
      BY <1>2
    <2>2. can' = [can EXCEPT !.accepted = b]
      BY <1>6, <2>1 DEF AutoAccept
    <2> QED
      BY <1>1, <1>6, <2>2, LocalsGo DEF AutoAccept, Done, CanType
  <1> QED
    BY <1>3, <1>4, <1>5, <1>6 DEF AutoNext, AutoCommand

LEMMA FieldRegKept ==
    ASSUME TypeOK, FieldNext
    PROVE  RegType'
  <1>1. RegType
    BY TypeParts
  <1>2. CASE TrackerSample \/ (\E moist \in Moistures : AgriSample(moist))
             \/ (\E t \in Degrees : ColdSample(t)) \/ (\E n \in 0..1 : RobotSample(n))
    BY <1>1, <1>2 DEF TrackerSample, AgriSample, ColdSample, RobotSample, Sampling, RegType
  <1>3. CASE TrackerCommand \/ AgriCommand \/ ColdCommand \/ RobotCommand
    BY <1>1, <1>3, LocalsGo
    DEF TrackerCommand, TrackerBeacon, TrackerMotion, TrackerGeo, TrackerSleep, TrackerHandler,
        AgriCommand, AgriSoil, AgriPumpAuto, AgriPumpOn, AgriPumpOff, AgriInhibit, AgriTake,
        ColdCommand, ColdSampleCommand, ColdDoor, ColdExcursion, ColdAck, ColdHandler,
        RobotCommand, RobotUart, RobotHeartbeat, RobotEstop, RobotReject, RobotHandler, Done
  <1> QED
    BY <1>2, <1>3 DEF FieldNext

(* Which of the four records a step is about. *)
TrackerNext == TrackerSample \/ TrackerCommand
AgriNext == (\E moist \in Moistures : AgriSample(moist)) \/ AgriCommand
ColdNext == (\E t \in Degrees : ColdSample(t)) \/ ColdCommand
RobotNext == (\E n \in 0..1 : RobotSample(n)) \/ RobotCommand

LEMMA FieldParts ==
    ASSUME FieldNext
    PROVE  \/ TrackerNext /\ record = "tracker" /\ UNCHANGED <<ag, cd, rb, duty>>
           \/ AgriNext /\ record = "agriculture" /\ UNCHANGED <<tr, cd, rb>>
           \/ ColdNext /\ record = "coldchain" /\ UNCHANGED <<tr, ag, rb, duty>>
           \/ RobotNext /\ record = "robotics" /\ UNCHANGED <<tr, ag, cd, duty>>
  <1>1. TrackerNext => record = "tracker" /\ UNCHANGED <<ag, cd, rb, duty>>
    BY DEF TrackerNext, TrackerSample, Sampling, TrackerCommand, TrackerBeacon, TrackerMotion, TrackerGeo,
           TrackerSleep, TrackerHandler, Take
  <1>2. AgriNext => record = "agriculture" /\ UNCHANGED <<tr, cd, rb>>
    BY DEF AgriNext, AgriSample, Sampling, AgriCommand, AgriSoil, AgriPumpAuto, AgriPumpOn, AgriPumpOff,
           AgriInhibit, AgriTake, Take
  <1>3. ColdNext => record = "coldchain" /\ UNCHANGED <<tr, ag, rb, duty>>
    BY DEF ColdNext, ColdSample, Sampling, ColdCommand, ColdSampleCommand, ColdDoor, ColdExcursion, ColdAck,
           ColdHandler, Take
  <1>4. RobotNext => record = "robotics" /\ UNCHANGED <<tr, ag, cd, duty>>
    BY DEF RobotNext, RobotSample, Sampling, RobotCommand, RobotUart, RobotHeartbeat, RobotEstop, RobotReject,
           RobotHandler, Take
  <1> QED
    BY <1>1, <1>2, <1>3, <1>4 DEF FieldNext, TrackerNext, AgriNext, ColdNext, RobotNext

LEMMA PumpType ==
    ASSUME NEW m, NEW on \in BOOLEAN, PumpHw(m, on),
           m \in [moist : Moistures \cup {0}, pump : BOOLEAN, inhibit : BOOLEAN],
           duty \in BOOLEAN
    PROVE  AgriType' /\ duty' \in BOOLEAN
  BY DEF PumpHw, AgriType

LEMMA AgriKept ==
    ASSUME AgriType, duty \in BOOLEAN, AgriNext
    PROVE  AgriType' /\ duty' \in BOOLEAN
  <1>1. ag \in [moist : Moistures \cup {0}, pump : BOOLEAN, inhibit : BOOLEAN]
    BY DEF AgriType
  <1>2. \A x \in Moistures \cup {0} : (x < thresh) \in BOOLEAN
    BY FieldAssumption DEF thresh
  <1>3. CASE \E moist \in Moistures : AgriSample(moist)
    <2>1. PICK moist \in Moistures : AgriSample(moist)
      BY <1>3
    <2>2. PICK m : m = [ag EXCEPT !.moist = moist]
      OBVIOUS
    <2>3. PICK b \in BOOLEAN : b = (moist < thresh)
      BY <1>2
    <2>4. PumpHw(m, b)
      BY <2>1, <2>2, <2>3 DEF AgriSample
    <2> QED
      BY <1>1, <2>2, <2>4, PumpType
  <1>4. CASE AgriPumpAuto
    <2>1. PICK b \in BOOLEAN : b = (ag.moist < thresh)
      BY <1>1, <1>2
    <2> QED
      BY <1>1, <1>4, <2>1, PumpType DEF AgriPumpAuto
  <1>5. CASE AgriSoil \/ AgriPumpOn \/ AgriPumpOff
    BY <1>1, <1>5, PumpType DEF AgriSoil, AgriPumpOn, AgriPumpOff, AgriType
  <1>6. CASE AgriInhibit
    <2>1. PICK m : m = [ag EXCEPT !.inhibit = TRUE]
      OBVIOUS
    <2>2. m \in [moist : Moistures \cup {0}, pump : BOOLEAN, inhibit : BOOLEAN]
      BY <1>1, <2>1
    <2>3. PumpHw(m, FALSE) \/ (ag' = [ag EXCEPT !.inhibit = FALSE] /\ duty' = duty)
      BY <1>6, <2>1 DEF AgriInhibit
    <2> QED
      BY <1>1, <2>2, <2>3, PumpType DEF AgriType
  <1> QED
    BY <1>3, <1>4, <1>5, <1>6 DEF AgriNext, AgriCommand

LEMMA TrackerKept ==
    ASSUME TrackerType, TrackerNext
    PROVE  TrackerType'
  <1>1. CASE TrackerSample
    <2>1. PICK b, c \in BOOLEAN : b = TRUE /\ c = FALSE
      OBVIOUS
    <2>2. PICK m : m = [tr EXCEPT !.near = b]
      OBVIOUS
    <2>3. m \in [moving : BOOLEAN, near : BOOLEAN, geo_inside : BOOLEAN, sleep_s : 5..3600]
      BY <2>2 DEF TrackerType
    <2>4. tr' = [m EXCEPT !.moving = c]
      BY <1>1, <2>1, <2>2 DEF TrackerSample
    <2> QED
      BY <2>3, <2>4 DEF TrackerType
  <1>3. CASE TrackerBeacon
    <2>1. PICK b \in BOOLEAN : tr' = [tr EXCEPT !.near = b]
      BY <1>3 DEF TrackerBeacon, TrackerHandler
    <2> QED
      BY <2>1 DEF TrackerType
  <1>4. CASE TrackerMotion
    <2>1. PICK b \in BOOLEAN : tr' = [tr EXCEPT !.moving = b]
      BY <1>4 DEF TrackerMotion, TrackerHandler
    <2> QED
      BY <2>1 DEF TrackerType
  <1>5. CASE TrackerGeo
    <2>1. PICK b \in BOOLEAN : b = tr.near
      BY DEF TrackerType
    <2>2. tr' = [tr EXCEPT !.geo_inside = b]
      BY <1>5, <2>1 DEF TrackerGeo, TrackerHandler
    <2> QED
      BY <2>2 DEF TrackerType
  <1>2. CASE TrackerSleep
    <2>1. PICK t \in SleepTimes : tr' = [tr EXCEPT !.sleep_s = IF 5 <= t /\ t <= 3600 THEN t ELSE @]
      BY <1>2 DEF TrackerSleep, TrackerHandler
    <2>2. t \in Int
      BY FieldAssumption
    <2>3. PICK x \in 5..3600 : x = IF 5 <= t /\ t <= 3600 THEN t ELSE tr.sleep_s
      <3>1. tr.sleep_s \in 5..3600
        BY DEF TrackerType
      <3> QED
        BY <2>2, <3>1
    <2>4. tr' = [tr EXCEPT !.sleep_s = x]
      BY <2>1, <2>3
    <2> QED
      BY <2>4 DEF TrackerType
  <1> QED
    BY <1>1, <1>2, <1>3, <1>4, <1>5 DEF TrackerNext, TrackerCommand

ColdFields == [t : Degrees \cup {0}, door : BOOLEAN, alarm : BOOLEAN, acked : BOOLEAN]

LEMMA WarmType == ASSUME NEW t \in Degrees \cup {0} PROVE (t > t_max) \in BOOLEAN
  BY FieldAssumption DEF t_max

LEMMA ColdSampledType ==
    ASSUME NEW m \in ColdFields, NEW t \in Degrees
    PROVE  ColdSampled(m, t) \in ColdFields
  <1>1. PICK b \in BOOLEAN : b = (t > t_max)
    BY WarmType
  <1>2. ColdSampled(m, t) = [m EXCEPT !.t = t, !.alarm = b \/ m.door]
    BY <1>1 DEF ColdSampled
  <1> QED
    BY <1>2 DEF ColdFields

LEMMA DoorType ==
    ASSUME NEW m \in ColdFields, NEW open \in BOOLEAN
    PROVE  Door(m, open) \in ColdFields
  BY DEF Door, ColdFields

LEMMA ExcursionType ==
    ASSUME NEW m \in ColdFields
    PROVE  Excursion(m) \in ColdFields
  BY DEF Excursion, ColdFields

LEMMA ColdKept ==
    ASSUME ColdType, ColdNext
    PROVE  ColdType'
  <1>1. cd \in ColdFields /\ (ColdType' <=> cd' \in ColdFields)
    BY DEF ColdType, ColdFields
  <1>2. CASE \E t \in Degrees : ColdSample(t)
    <2>1. PICK t \in Degrees : cd' = Excursion(Door(ColdSampled(cd, t), FALSE))
      BY <1>2 DEF ColdSample
    <2>2. PICK m \in ColdFields : m = ColdSampled(cd, t)
      BY <1>1, ColdSampledType
    <2>3. PICK n \in ColdFields : n = Door(m, FALSE)
      BY DoorType
    <2> QED
      BY <1>1, <2>1, <2>2, <2>3, ExcursionType
  <1>3. CASE ColdSampleCommand \/ ColdDoor \/ ColdExcursion
    BY <1>1, <1>3, ColdSampledType, DoorType, ExcursionType
    DEF ColdSampleCommand, ColdDoor, ColdExcursion, ColdHandler
  <1>4. CASE ColdAck
    <2>1. PICK b \in BOOLEAN : b = (cd.t > t_max)
      BY <1>1, WarmType DEF ColdFields
    <2>2. cd' = [cd EXCEPT !.acked = TRUE, !.alarm = @ /\ (cd.door \/ b)]
      BY <1>4, <2>1 DEF ColdAck, ColdHandler
    <2> QED
      BY <1>1, <2>2 DEF ColdFields
  <1> QED
    BY <1>2, <1>3, <1>4 DEF ColdNext, ColdCommand

RobotFields == [uart_n : 0..1, hb_age : 0..MaxSilence, estop : BOOLEAN]

LEMMA HeartbeatType ==
    ASSUME NEW m \in RobotFields
    PROVE  Heartbeat(m) \in RobotFields
  <1>1. PICK x \in 0..MaxSilence : x = IF m.uart_n = 0 /\ m.hb_age < MaxSilence THEN m.hb_age + 1 ELSE m.hb_age
    BY FieldAssumption DEF RobotFields
  <1>2. Heartbeat(m) = [m EXCEPT !.hb_age = x]
    BY <1>1 DEF Heartbeat
  <1> QED
    BY <1>2 DEF RobotFields

LEMMA UartType ==
    ASSUME NEW m \in RobotFields, NEW n \in 0..1
    PROVE  Uart(m, n) \in RobotFields
  <1>1. 0 \in 0..MaxSilence
    BY FieldAssumption
  <1> QED
    BY <1>1 DEF Uart, RobotFields

LEMMA RobotKept ==
    ASSUME RobotType, RobotNext
    PROVE  RobotType'
  <1>1. rb \in RobotFields /\ (RobotType' <=> rb' \in RobotFields)
    BY DEF RobotType, RobotFields
  <1>2. CASE \E n \in 0..1 : RobotSample(n)
    <2>1. PICK n \in 0..1 : rb' = Heartbeat(Uart(rb, n))
      BY <1>2 DEF RobotSample
    <2>2. PICK m \in RobotFields : m = Uart(rb, n)
      BY <1>1, UartType
    <2> QED
      BY <1>1, <2>1, <2>2, HeartbeatType
  <1>3. CASE RobotCommand
    BY <1>1, <1>3, UartType, HeartbeatType
    DEF RobotCommand, RobotUart, RobotHeartbeat, RobotEstop, RobotReject, RobotHandler, RobotFields
  <1> QED
    BY <1>2, <1>3 DEF RobotNext

(* The flags *)

LEMMA TaskKept ==
    ASSUME PlaceInv, Next
    PROVE  /\ sampled' = sampled
           /\ disturbed' \in BOOLEAN
           /\ asked' = asked \/ (asked < MaxCommands /\ asked' = asked + 1)
  <1>1. WaterNext => sampled' = sampled /\ disturbed' \in BOOLEAN
                     /\ (asked' = asked \/ (asked < MaxCommands /\ asked' = asked + 1))
    BY DEF Sampling, Take, At, Goto, Done, WaterNext, WaterSample, WaterCommand,
           WaterHandler, WaterValveOpen, WaterValveClose, WaterTamper, WaterBilling, WaterSetK, WaterMeter,
           WaterLeak, WaterBurst, ValvePin, MeterLast, MeterFlow, LoadLiters, StoreLiters, LoadBilling,
           StoreBilling, Load, LeakFlow, LeakValve, LeakSet, BurstFlow, BurstSet, BurstShuts, SetFlag
  <1>2. IndNext => sampled' = sampled /\ disturbed' \in BOOLEAN
                   /\ (asked' = asked \/ (asked < MaxCommands /\ asked' = asked + 1))
    BY DEF Sampling, Take, At, Goto, Done, IndNext, IndSample, IndCommand, IndHandler,
           IndStateMachine, IndSampleCommand, IndAck, IndSetLimits, IndSampleVib, IndSampleRun, StepOver,
           SetFault, SetAck, StepVib, SetWarn, StepFault, StepRun, SetRun, AckIdle, AckClear, IndWrites
  <1>3. EnergyNext => sampled' = sampled /\ disturbed' \in BOOLEAN
                      /\ (asked' = asked \/ (asked < MaxCommands /\ asked' = asked + 1))
    BY DEF Sampling, Take, At, Goto, Done, EnergyNext, EnergySample, EnergyCommand,
           EnergyHandler, EnergyMeasure, LedAlarm, EnergyCheck, EnergySetLimits, EnergyPf, EnergyCalibrate,
           MeasureI, ReadP, SetP, Eval, Trips, SetAlarm, ReadAlarm, SetLed, CalibrateI, EnergyWrites, EnergyReads
  <1>4. EvNext \/ AutoNext => sampled' = sampled /\ disturbed' \in BOOLEAN
                              /\ (asked' = asked \/ (asked < MaxCommands /\ asked' = asked + 1))
    BY DEF Sampling, Take, At, Goto, Done, EvNext, EvSample, EvCommand, EvReadTemp, EvSetFault,
           EvStart, EvStop, EvSession, EvFault, EvSampleCommand, EvHandler, AutoNext, AutoSample, AutoCommand,
           AutoAccept, AutoFilter, AutoBusOff, AutoDtc
  <1>5. FieldNext => sampled' = sampled /\ disturbed' \in BOOLEAN
                     /\ (asked' = asked \/ (asked < MaxCommands /\ asked' = asked + 1))
    BY DEF Sampling, Take, Goto, Done, FieldNext, TrackerSample, TrackerCommand, AgriSample,
           AgriCommand, ColdSample, ColdCommand, RobotSample, RobotCommand, TrackerBeacon, TrackerMotion,
           TrackerGeo, TrackerSleep, TrackerHandler, AgriSoil, AgriPumpAuto, AgriPumpOn, AgriPumpOff,
           AgriInhibit, AgriTake, ColdSampleCommand, ColdDoor, ColdExcursion, ColdAck, ColdHandler,
           RobotUart, RobotHeartbeat, RobotEstop, RobotReject, RobotHandler
  <1> QED
    BY <1>1, <1>2, <1>3, <1>4, <1>5, NextParts

LEMMA WaterFlagsKept ==
    ASSUME TypeOK, WaterNext
    PROVE  valve' \in BOOLEAN /\ metered' \in BOOLEAN
  <1>1. FlagType /\ RegType
    BY TypeParts
  <1>2. metered' \in BOOLEAN
    BY <1>1
    DEF FlagType, KeepPins, WaterNext, WaterSample, WaterCommand,
        WaterHandler, WaterValveOpen, WaterValveClose, WaterTamper, WaterBilling, WaterSetK, WaterMeter,
        WaterLeak, WaterBurst, ValvePin, MeterLast, MeterFlow, LoadLiters, StoreLiters, LoadBilling,
        StoreBilling, Load, LeakFlow, LeakValve, LeakSet, BurstFlow, BurstSet, BurstShuts
  <1>3. CASE \E n \in 0..MaxPulses : WaterSample(n)
    BY <1>1, <1>2, <1>3 DEF WaterSample, FlagType
  <1>4. CASE WaterCommand \/ WaterHandler
    BY <1>1, <1>2, <1>4
    DEF FlagType, RegType, Locals, KeepPins, WaterCommand,
        WaterHandler, WaterValveOpen, WaterValveClose, WaterTamper, WaterBilling, WaterSetK, WaterMeter,
        WaterLeak, WaterBurst, ValvePin, MeterLast, MeterFlow, LoadLiters, StoreLiters, LoadBilling,
        StoreBilling, Load, LeakFlow, LeakValve, LeakSet, BurstFlow, BurstSet, BurstShuts
  <1> QED
    BY <1>3, <1>4 DEF WaterNext

LEMMA EnergyFlagsKept ==
    ASSUME TypeOK, EnergyNext
    PROVE  led' \in BOOLEAN
  <1>1. FlagType /\ RegType /\ EnergyType
    BY TypeParts DEF RecordTypes
  <1>2. CASE \E v, i \in Readings : EnergySample(v, i)
    <2>1. PICK v \in Readings, i \in Readings : EnergySample(v, i)
      BY <1>2
    <2>2. s' = Measured(v, i) /\ led' = s'.alarm
      BY <2>1 DEF EnergySample
    <2>3. s'.alarm \in BOOLEAN
      BY <1>1, <2>2, MeasuredType DEF EnergyFields
    <2> QED
      BY <1>1, <2>2, <2>3 DEF FlagType
  <1>3. CASE SetLed
    BY <1>1, <1>3 DEF SetLed, FlagType, RegType, Locals
  <1>4. CASE EnergyCommand \/ MeasureI \/ ReadP \/ SetP \/ Eval \/ SetAlarm \/ ReadAlarm \/ CalibrateI
    BY <1>1, <1>4
    DEF FlagType, KeepLed, EnergyCommand, EnergyMeasure, LedAlarm, EnergyCheck, EnergySetLimits, EnergyPf,
        EnergyCalibrate, MeasureI, ReadP, SetP, Eval, Trips, SetAlarm, ReadAlarm, CalibrateI, EnergyWrites,
        EnergyReads
  <1> QED
    BY <1>2, <1>3, <1>4 DEF EnergyNext, EnergyHandler

LEMMA FieldKept ==
    ASSUME TypeOK, FieldNext
    PROVE  TrackerType' /\ AgriType' /\ ColdType' /\ RobotType' /\ duty' \in BOOLEAN
  <1>1. TrackerType /\ AgriType /\ ColdType /\ RobotType /\ duty \in BOOLEAN
    BY TypeParts DEF RecordTypes, FlagType
  <1>2. CASE TrackerNext /\ UNCHANGED <<ag, cd, rb, duty>>
    BY <1>1, <1>2, TrackerKept DEF AgriType, ColdType, RobotType
  <1>3. CASE AgriNext /\ UNCHANGED <<tr, cd, rb>>
    BY <1>1, <1>3, AgriKept DEF TrackerType, ColdType, RobotType
  <1>4. CASE ColdNext /\ UNCHANGED <<tr, ag, rb, duty>>
    BY <1>1, <1>4, ColdKept DEF TrackerType, AgriType, RobotType
  <1>5. CASE RobotNext /\ UNCHANGED <<tr, ag, cd, duty>>
    BY <1>1, <1>5, RobotKept DEF TrackerType, AgriType, ColdType
  <1> QED
    BY <1>2, <1>3, <1>4, <1>5, FieldParts

LEMMA NextKept ==
    ASSUME TypeOK, PlaceInv, MeterInv, Next
    PROVE  TypeOK'
  <1>1. RegType /\ RecordTypes /\ FlagType /\ asked \in 0..MaxCommands
    BY TypeParts
  <1>2. record' \in Records /\ pc' \in Place
    BY <1>1, PlaceKept DEF PlaceInv
  <1>3. asked' \in 0..MaxCommands
    <2>1. asked' = asked \/ (asked < MaxCommands /\ asked' = asked + 1)
      BY TaskKept
    <2> QED
      BY <1>1, <2>1, MaxCommandsAssumption
  <1>4. sampled' \in BOOLEAN /\ disturbed' \in BOOLEAN
    BY <1>1, TaskKept DEF FlagType
  <1>5. RegType' /\ RecordTypes' /\ FlagType'
    <2>1. CASE WaterNext /\ UNCHANGED <<g, energyVars, gatewayVars, fieldVars>>
      BY <1>1, <1>4, <2>1, WaterKept, WaterFlagsKept
      DEF RecordTypes, FlagType, energyVars, gatewayVars, fieldVars, IndType, EnergyType, EvType, CanType,
          TrackerType, AgriType, ColdType, RobotType
    <2>2. CASE IndNext /\ UNCHANGED <<waterVars, energyVars, gatewayVars, fieldVars>>
      BY <1>1, <1>4, <2>2, IndKept
      DEF RecordTypes, FlagType, waterVars, energyVars, gatewayVars, fieldVars, WaterType, PulseType,
          EnergyType, EvType, CanType, TrackerType, AgriType, ColdType, RobotType
    <2>3. CASE EnergyNext /\ UNCHANGED <<waterVars, g, gatewayVars, fieldVars>>
      BY <1>1, <1>4, <2>3, EnergyKept, EnergyFlagsKept
      DEF RecordTypes, FlagType, waterVars, gatewayVars, fieldVars, WaterType, PulseType, IndType, EvType,
          CanType, TrackerType, AgriType, ColdType, RobotType
    <2>4. CASE EvNext /\ UNCHANGED <<waterVars, g, energyVars, can, fieldVars>>
      BY <1>1, <1>4, <2>4, EvKept
      DEF RecordTypes, FlagType, waterVars, energyVars, fieldVars, WaterType, PulseType, IndType,
          EnergyType, CanType, TrackerType, AgriType, ColdType, RobotType
    <2>5. CASE AutoNext /\ UNCHANGED <<waterVars, g, energyVars, ev, fieldVars>>
      BY <1>1, <1>4, <2>5, AutoKept
      DEF RecordTypes, FlagType, waterVars, energyVars, fieldVars, WaterType, PulseType, IndType,
          EnergyType, EvType, TrackerType, AgriType, ColdType, RobotType
    <2>6. CASE FieldNext /\ UNCHANGED <<waterVars, g, energyVars, gatewayVars>>
      BY <1>1, <1>4, <2>6, FieldRegKept, FieldKept
      DEF RecordTypes, FlagType, waterVars, energyVars, gatewayVars, WaterType, PulseType, IndType,
          EnergyType, EvType, CanType
    <2> QED
      BY <2>1, <2>2, <2>3, <2>4, <2>5, <2>6, NextParts
  <1>6. TypeOK' <=> /\ record' \in Records /\ pc' \in Place /\ RegType' /\ asked' \in 0..MaxCommands
                    /\ FlagType' /\ RecordTypes'
    <2>1. TypeOK' <=> (/\ record \in Records /\ pc \in Place /\ RegType /\ asked \in 0..MaxCommands
                       /\ FlagType /\ RecordTypes)'
      BY TypeParts, PTL
    <2> QED
      BY <2>1
  <1> QED
    BY <1>2, <1>3, <1>5, <1>6

LEMMA MeterInit == Init => MeterInv
  BY DEF Init, TaskInit, WaterInit, MeterInv

LEMMA MeterKept ==
    ASSUME TypeOK, PlaceInv, MeterInv, Next
    PROVE  MeterInv'
  <1>1. RegType /\ WaterType /\ PulseType
    BY TypeParts DEF RecordTypes
  <1>2. CASE WaterNext
    <2>1. billable' <= exti'
      <3>1. CASE \E n \in 0..MaxPulses : WaterSample(n)
        <4>1. PICK n \in 0..MaxPulses : WaterSample(n)
          BY <3>1
        <4>2. exti' = exti + n /\ (billable' = billable \/ billable' = billable + n)
          BY <4>1 DEF WaterSample
        <4> QED
          BY <1>1, <4>2, MaxPulsesAssumption DEF PulseType, MeterInv
      <3>2. CASE WaterCommand \/ WaterHandler
        <4>1. UNCHANGED <<exti, billable>>
          BY <3>2
          DEF KeepPins, WaterCommand,
              WaterHandler, WaterValveOpen, WaterValveClose, WaterTamper, WaterBilling, WaterSetK, WaterMeter,
              WaterLeak, WaterBurst, ValvePin, MeterLast, MeterFlow, LoadLiters, StoreLiters, LoadBilling,
              StoreBilling, Load, LeakFlow, LeakValve, LeakSet, BurstFlow, BurstSet, BurstShuts
        <4> QED
          BY <4>1 DEF MeterInv
      <3> QED
        BY <1>2, <3>1, <3>2 DEF WaterNext
    <2>2. pc' = "meter_last" => reg'.n \in {0, MaxPulses}
      <3>1. CASE WaterMeter
        <4>1. PICK n \in {0, MaxPulses} : reg' = [Blank EXCEPT !.n = n, !.d = Delta(n)]
          BY <3>1 DEF WaterMeter, Goto
        <4> QED
          BY <4>1 DEF Blank
      <3>2. CASE \E n \in 0..MaxPulses : WaterSample(n)
        BY <3>2 DEF WaterSample, Sampling, MeterInv
      <3>3. ASSUME WaterCommand \/ WaterHandler, ~WaterMeter
            PROVE  pc' # "meter_last"
        BY <3>3
        DEF PlaceInv, Take, Goto, Done, WaterCommand, SetFlag,
            WaterHandler, WaterValveOpen, WaterValveClose, WaterTamper, WaterBilling, WaterSetK,
            WaterLeak, WaterBurst, ValvePin, MeterLast, MeterFlow, LoadLiters, StoreLiters, LoadBilling,
            StoreBilling, Load, LeakFlow, LeakValve, LeakSet, BurstFlow, BurstSet, BurstShuts
      <3> QED
        BY <1>2, <3>1, <3>2, <3>3 DEF WaterNext
    <2> QED
      BY <2>1, <2>2 DEF MeterInv
  <1>3. CASE ~WaterNext
    <2>1. UNCHANGED waterVars
      BY <1>3, NextParts DEF waterVars
    <2>2. pc' # "meter_last"
      <3>1. record' # "water"
        BY <1>3, NextParts, RecordOf DEF Recursing
      <3>2. PlaceInv'
        BY <1>1, PlaceKept
      <3> QED
        BY <3>1, <3>2 DEF PlaceInv, WaterPlace
    <2> QED
      BY <2>1, <2>2 DEF MeterInv, waterVars
  <1> QED
    BY <1>2, <1>3

(* What the types rest on *)
BaseInv == TypeOK /\ PlaceInv /\ MeterInv

LEMMA BaseInit == Init => BaseInv
  BY TypeInit, PlaceInit, MeterInit DEF BaseInv

LEMMA BaseKept ==
    ASSUME BaseInv, [Next]_vars
    PROVE  BaseInv'
  <1>1. TypeOK /\ PlaceInv /\ MeterInv /\ RegType
    BY TypeParts DEF BaseInv
  <1>2. CASE Next
    BY <1>1, <1>2, NextKept, PlaceKept, MeterKept DEF BaseInv
  <1>3. CASE UNCHANGED vars
    <2>1. UNCHANGED <<record, sampled, pc, reg, asked, disturbed, w, valve, exti, billable, metered>>
      BY <1>3 DEF vars, taskVars, waterVars
    <2>2. UNCHANGED <<g, s, led, ev, can, tr, ag, cd, rb, duty>>
      BY <1>3 DEF vars, energyVars, gatewayVars, fieldVars
    <2>3. TypeOK'
      BY <1>1, <2>1, <2>2, SMTT(30) DEF TypeOK
    <2>4. PlaceInv'
      BY <1>1, <2>1, SMTT(30) DEF PlaceInv
    <2>5. MeterInv'
      BY <1>1, <2>1, SMTT(30) DEF MeterInv
    <2> QED
      BY <2>3, <2>4, <2>5 DEF BaseInv
  <1> QED
    BY <1>2, <1>3

LEMMA BaseHolds == Spec => []BaseInv
  BY BaseInit, BaseKept, PTL DEF Spec

(* TypeOK for any readings, limits and numbers of commands: a sample in the  *)
(* middle of a handler never takes a record out of its type.                 *)
THEOREM TypeCorrect == Spec => []TypeOK
  <1>1. BaseInv => TypeOK
    BY DEF BaseInv
  <1> QED
    BY <1>1, BaseHolds, PTL

-----------------------------------------------------------------------------
(* Field records *)

(* The PWM is initialised on its own product only. *)
PumpInv == InhibitStopsPump /\ (~sampled => ~duty)

LEMMA PumpSwitched ==
    ASSUME NEW m \in [moist : Moistures \cup {0}, pump : BOOLEAN, inhibit : BOOLEAN],
           NEW on \in BOOLEAN, PumpInv, PumpHw(m, on), sampled' = sampled
    PROVE  PumpInv'
  <1>1. PICK runs \in BOOLEAN : runs = (on /\ ~m.inhibit)
    OBVIOUS
  <1>2. ag' = [m EXCEPT !.pump = runs] /\ duty' = IF sampled THEN runs ELSE duty
    BY <1>1 DEF PumpHw
  <1>3. ag'.pump = runs /\ ag'.inhibit = m.inhibit
    BY <1>2
  <1>4. (sampled => duty' = runs) /\ (~sampled => duty' = duty)
    BY <1>2
  <1>5. m.inhibit => ~runs
    BY <1>1
  <1> QED
    BY <1>3, <1>4, <1>5 DEF PumpInv, InhibitStopsPump

LEMMA PumpKept ==
    ASSUME BaseInv, PumpInv, [Next]_vars
    PROVE  PumpInv'
  <1>1. AgriType /\ duty \in BOOLEAN /\ PlaceInv
    BY TypeParts DEF BaseInv, RecordTypes, FlagType
  <1>2. ag \in [moist : Moistures \cup {0}, pump : BOOLEAN, inhibit : BOOLEAN]
    BY <1>1 DEF AgriType
  <1>3. CASE Next /\ AgriNext
    <2>1. sampled' = sampled
      BY <1>1, <1>3, TaskKept
    <2>2. \A x \in Moistures \cup {0} : (x < thresh) \in BOOLEAN
      BY FieldAssumption DEF thresh
    <2>3. CASE \E moist \in Moistures : AgriSample(moist)
      <3>1. PICK moist \in Moistures : PumpHw([ag EXCEPT !.moist = moist], moist < thresh)
        BY <2>3 DEF AgriSample
      <3>2. PICK b \in BOOLEAN : b = (moist < thresh)
        BY <2>2
      <3>3. PICK m : m = [ag EXCEPT !.moist = moist]
        OBVIOUS
      <3>4. PumpHw(m, b) /\ m \in [moist : Moistures \cup {0}, pump : BOOLEAN, inhibit : BOOLEAN]
        BY <1>1, <3>1, <3>2, <3>3 DEF AgriType
      <3> QED
        BY <2>1, <3>4, PumpSwitched
    <2>4. CASE AgriPumpAuto
      <3>1. PICK b \in BOOLEAN : b = (ag.moist < thresh)
        BY <1>1, <2>2 DEF AgriType
      <3> QED
        BY <1>2, <2>1, <2>4, <3>1, PumpSwitched DEF AgriPumpAuto
    <2>5. CASE AgriPumpOn \/ AgriPumpOff
      BY <1>2, <2>1, <2>5, PumpSwitched DEF AgriPumpOn, AgriPumpOff
    <2>6. CASE AgriSoil
      BY <1>1, <2>1, <2>6 DEF AgriSoil, AgriType, PumpInv, InhibitStopsPump
    <2>7. CASE AgriInhibit
      <3>1. PICK m : m = [ag EXCEPT !.inhibit = TRUE]
        OBVIOUS
      <3>2. m \in [moist : Moistures \cup {0}, pump : BOOLEAN, inhibit : BOOLEAN]
        BY <1>1, <3>1 DEF AgriType
      <3>3. CASE PumpHw(m, FALSE)
        BY <2>1, <3>2, <3>3, PumpSwitched
      <3>4. CASE ag' = [ag EXCEPT !.inhibit = FALSE] /\ UNCHANGED duty
        BY <1>1, <2>1, <3>4 DEF AgriType, PumpInv, InhibitStopsPump
      <3> QED
        BY <2>7, <3>1, <3>3, <3>4 DEF AgriInhibit
    <2> QED
      BY <1>3, <2>3, <2>4, <2>5, <2>6, <2>7 DEF AgriNext, AgriCommand
  <1>4. CASE UNCHANGED <<ag, duty, sampled>>
    BY <1>4 DEF PumpInv, InhibitStopsPump
  <1>5. Next => sampled' = sampled
    BY <1>1, TaskKept
  <1> QED
    BY <1>3, <1>4, <1>5, NextParts, FieldParts DEF vars, taskVars, fieldVars

(* InhibitStopsPump for any readings: neither the soil nor a command runs an  *)
(* inhibited pump, in the record or at its PWM.                              *)
THEOREM InhibitHeld == Spec => []InhibitStopsPump
  <1>1. Init => PumpInv
    BY DEF Init, FieldInit, PumpInv, InhibitStopsPump
  <1>2. PumpInv => InhibitStopsPump
    BY DEF PumpInv
  <1> QED
    BY <1>1, <1>2, PumpKept, BaseHolds, PTL DEF Spec

Alarmed(m) == m.door \/ m.t > t_max => m.alarm

LEMMA ColdKeeps ==
    ASSUME ColdType, ColdAlarmHolds, ColdNext
    PROVE  ColdAlarmHolds'
  <1>1. cd \in ColdFields /\ Alarmed(cd)
    BY DEF ColdType, ColdFields, ColdAlarmHolds, Alarmed
  <1>2. SUFFICES Alarmed(cd')
    BY DEF ColdAlarmHolds, Alarmed
  <1>3. \A m \in ColdFields, t \in Degrees : Alarmed(ColdSampled(m, t))
    BY DEF ColdFields, ColdSampled, Alarmed
  <1>4. \A m \in ColdFields, open \in BOOLEAN : Alarmed(m) => Alarmed(Door(m, open))
    BY DEF ColdFields, Door, Alarmed
  <1>5. \A m \in ColdFields : Alarmed(m) => Alarmed(Excursion(m))
    BY DEF ColdFields, Excursion, Alarmed
  <1>6. CASE \E t \in Degrees : ColdSample(t)
    <2>1. PICK t \in Degrees : cd' = Excursion(Door(ColdSampled(cd, t), FALSE))
      BY <1>6 DEF ColdSample
    <2>2. PICK m \in ColdFields : m = ColdSampled(cd, t)
      BY <1>1, ColdSampledType
    <2>3. PICK n \in ColdFields : n = Door(m, FALSE)
      BY DoorType
    <2> QED
      BY <1>1, <1>3, <1>4, <1>5, <2>1, <2>2, <2>3
  <1>7. CASE ColdSampleCommand \/ ColdDoor \/ ColdExcursion
    BY <1>1, <1>3, <1>4, <1>5, <1>7 DEF ColdSampleCommand, ColdDoor, ColdExcursion, ColdHandler
  <1>8. CASE ColdAck
    <2>1. PICK b \in BOOLEAN : b = (cd.t > t_max)
      BY <1>1, WarmType DEF ColdFields
    <2>2. cd' = [cd EXCEPT !.acked = TRUE, !.alarm = @ /\ (cd.door \/ b)]
      BY <1>8, <2>1 DEF ColdAck, ColdHandler
    <2>3. cd'.door = cd.door /\ cd'.t = cd.t /\ cd'.alarm = (cd.alarm /\ (cd.door \/ b))
      BY <1>1, <2>2 DEF ColdFields
    <2>4. cd.door \/ b => cd.alarm
      BY <1>1, <2>1 DEF Alarmed
    <2> QED
      BY <2>1, <2>3, <2>4 DEF Alarmed
  <1> QED
    BY <1>6, <1>7, <1>8 DEF ColdNext, ColdCommand

(* ColdAlarmHolds for any readings: no order of samples, door events and     *)
(* acknowledgements takes the alarm down while its cause lasts.              *)
THEOREM ColdAlarmHeld == Spec => []ColdAlarmHolds
  <1>1. Init => ColdAlarmHolds
    BY DEF Init, FieldInit, ColdAlarmHolds, t_max
  <1>2. ASSUME BaseInv, ColdAlarmHolds, [Next]_vars
        PROVE  ColdAlarmHolds'
    <2>1. ColdType
      BY <1>2, TypeParts DEF BaseInv, RecordTypes
    <2>2. CASE ColdNext
      BY <1>2, <2>1, <2>2, ColdKeeps
    <2>3. CASE UNCHANGED cd
      BY <1>2, <2>3 DEF ColdAlarmHolds
    <2> QED
      BY <1>2, <2>2, <2>3, NextParts, FieldParts DEF vars, fieldVars
  <1> QED
    BY <1>1, <1>2, BaseHolds, PTL DEF Spec

(* LocksHold: the inhibition of the pump and the cold-chain alarm, each for  *)
(* every order of commands and samples on its record.                        *)
THEOREM LocksHeld == Spec => []LocksHold
  <1>1. InhibitStopsPump /\ ColdAlarmHolds => LocksHold
    BY DEF LocksHold
  <1> QED
    BY <1>1, InhibitHeld, ColdAlarmHeld, PTL

-----------------------------------------------------------------------------
(* The water meter *)

(* A meter that was tampered with counts as shut, and its pin is shut but    *)
(* while a handler still has to shut it.                                     *)
ShutInv ==
    w.tamper => /\ ~w.valve_open
                /\ valve => pc = "valve_pin"
                /\ pc = "valve_pin" => ~reg.b

LEMMA ShutKept ==
    ASSUME BaseInv, ShutInv, [Next]_vars
    PROVE  ShutInv'
  <1>1. PlaceInv /\ WaterType /\ RegType /\ valve \in BOOLEAN
    BY TypeParts DEF BaseInv, RecordTypes, FlagType
  <1>2. CASE \E n \in 0..MaxPulses : WaterSample(n)
    <2>1. PICK n \in 0..MaxPulses : WaterSample(n)
      BY <1>2
    <2>2. w'.tamper = w.tamper
      BY <1>1, <2>1 DEF WaterSample, Metered, WaterType
    <2>3. ~w.valve_open => ~w'.valve_open
      BY <1>1, <2>1 DEF WaterSample, Metered, WaterType
    <2>4. valve' => valve
      BY <2>1 DEF WaterSample
    <2> QED
      BY <2>1, <2>2, <2>3, <2>4 DEF WaterSample, Sampling, ShutInv
  <1>3. CASE WaterValveOpen \/ WaterValveClose \/ WaterTamper \/ BurstShuts
    <2>1. Blank.b = FALSE /\ \A b : [Blank EXCEPT !.b = b].b = b
      BY DEF Blank
    <2> QED
      BY <1>1, <1>3, <2>1
      DEF WaterValveOpen, WaterValveClose, WaterTamper, BurstShuts, SetFlag, KeepPins, Take, At, Goto, Done,
          ShutInv, WaterType
  <1>4. CASE ValvePin
    BY <1>1, <1>4 DEF ValvePin, At, Done, Goto, ShutInv, WaterType, RegType, Locals
  <1>5. ASSUME w'.tamper = w.tamper, w'.valve_open = w.valve_open, valve' = valve, pc # "valve_pin",
               pc' # "valve_pin"
        PROVE  ShutInv'
    BY <1>5 DEF ShutInv
  <1>6. CASE WaterBilling \/ WaterSetK \/ WaterMeter \/ WaterLeak \/ WaterBurst
    BY <1>1, <1>5, <1>6
    DEF WaterBilling, WaterSetK, WaterMeter, WaterLeak, WaterBurst, Take, Goto, Done, KeepPins, WaterType
  <1>7. CASE MeterLast \/ MeterFlow \/ LoadLiters \/ StoreLiters \/ LoadBilling \/ StoreBilling
             \/ LeakFlow \/ LeakValve \/ LeakSet \/ BurstFlow \/ BurstSet
    <2>1. reg.next # "valve_pin"
      BY <1>1 DEF PlaceInv
    <2> QED
      BY <1>1, <1>5, <1>7, <2>1
      DEF MeterLast, MeterFlow, LoadLiters, StoreLiters, LoadBilling, StoreBilling, Load, LeakFlow,
          LeakValve, LeakSet, BurstFlow, BurstSet, At, Goto, KeepPins, WaterType
  <1>8. CASE UNCHANGED waterVars /\ ~WaterNext /\ Next
    <2>1. record # "water" /\ record' # "water"
      BY <1>1, <1>8, NextParts, RecordOf DEF Recursing
    <2>2. PlaceInv'
      BY <1>1, <1>8, PlaceKept
    <2>3. pc # "valve_pin" /\ pc' # "valve_pin"
      BY <1>1, <2>1, <2>2 DEF PlaceInv, WaterPlace
    <2> QED
      BY <1>5, <1>8, <2>3 DEF waterVars
  <1>9. CASE UNCHANGED vars
    BY <1>9 DEF vars, taskVars, waterVars, ShutInv
  <1> QED
    BY <1>2, <1>3, <1>4, <1>6, <1>7, <1>8, <1>9, NextParts
    DEF WaterNext, WaterCommand, WaterHandler, waterVars

(* TamperKeepsShut for any readings: neither a command nor a handler that    *)
(* was interrupted opens the valve of a meter that was tampered with.        *)
THEOREM TamperShut == Spec => []TamperKeepsShut
  <1>1. Init => ShutInv
    BY DEF Init, WaterInit, ShutInv
  <1>2. ShutInv => TamperKeepsShut
    BY DEF ShutInv, TamperKeepsShut
  <1> QED
    BY <1>1, <1>2, ShutKept, BaseHolds, PTL DEF Spec

(* Until a command feeds the meter, the handler is in none of its code, the  *)
(* last count is that of the pulses and both registers hold the billable.    *)
MeterPlace ==
    {"meter_last", "meter_flow", "load_liters", "store_liters", "load_billing", "store_billing"}

BillInv ==
    ~metered => /\ pc \notin MeterPlace
                /\ reg.next # "burst_flow"
                /\ w.last_pulses = exti
                /\ w.billing = billable
                /\ w.liters = billable

LEMMA SampleBills ==
    ASSUME WaterType, PulseType, BillInv, NEW n \in 0..MaxPulses, WaterSample(n), ~metered
    PROVE  BillInv'
  <1>1. w.last_pulses = exti /\ w.billing = billable /\ w.liters = billable
    BY DEF BillInv
  <1>2. exti \in Nat /\ billable \in Nat /\ n \in Nat
    BY MaxPulsesAssumption DEF PulseType
  <1>3. Delta(exti + n) = n
    BY <1>1, <1>2 DEF Delta
  <1>4. PICK c \in Nat : c = IF w.frozen THEN 0 ELSE n
    BY <1>2
  <1>5. PICK x : x = Metered(exti + n)
    OBVIOUS
  <1>6. /\ x.last_pulses = exti + n
        /\ x.liters = w.liters + c
        /\ x.billing = w.billing + c
    BY <1>3, <1>4, <1>5 DEF Metered, WaterType
  <1>7. w' = x /\ exti' = exti + n /\ metered' = metered
    BY <1>5 DEF WaterSample
  <1>8. billable' = billable + c
    BY <1>2, <1>4 DEF WaterSample
  <1>9. UNCHANGED <<pc, reg>>
    BY DEF WaterSample, Sampling
  <1> QED
    BY <1>1, <1>6, <1>7, <1>8, <1>9 DEF BillInv

LEMMA BillKept ==
    ASSUME BaseInv, BillInv, [Next]_vars
    PROVE  BillInv'
  <1>1. PlaceInv /\ WaterType /\ PulseType /\ RegType /\ metered \in BOOLEAN
    BY TypeParts DEF BaseInv, RecordTypes, FlagType
  <1>2. CASE \E n \in 0..MaxPulses : WaterSample(n)
    <2>1. metered' = metered
      BY <1>2 DEF WaterSample
    <2> QED
      BY <1>1, <1>2, <2>1, SampleBills DEF BillInv
  <1>3. ASSUME UNCHANGED <<exti, billable, metered>>, w'.last_pulses = w.last_pulses,
               w'.billing = w.billing, w'.liters = w.liters,
               ~metered => pc' \notin MeterPlace /\ reg'.next # "burst_flow"
        PROVE  BillInv'
    BY <1>3 DEF BillInv
  <1>4. CASE WaterMeter
    BY <1>4 DEF WaterMeter, BillInv
  <1>5. Blank.next = "idle" /\ \A b : [Blank EXCEPT !.b = b].next = "idle"
    BY DEF Blank
  <1>6. CASE WaterValveOpen \/ WaterValveClose \/ WaterTamper \/ BurstShuts \/ ValvePin
             \/ WaterBilling \/ WaterSetK
    BY <1>1, <1>3, <1>5, <1>6
    DEF WaterValveOpen, WaterValveClose, WaterTamper, BurstShuts, ValvePin, WaterBilling, WaterSetK, SetFlag,
        KeepPins, Goto, Done, WaterType, MeterPlace
  <1>7. CASE WaterLeak \/ WaterBurst \/ LeakSet \/ BurstFlow \/ BurstSet
    <2>1. reg.next \notin MeterPlace
      BY <1>1 DEF PlaceInv, MeterPlace
    <2> QED
      BY <1>1, <1>3, <1>5, <1>7, <2>1
      DEF WaterLeak, WaterBurst, LeakSet, BurstFlow, BurstSet, KeepPins, Goto, WaterType, MeterPlace
  <1>8. CASE LeakFlow \/ LeakValve
    <2>1. UNCHANGED <<exti, billable, metered, w>> /\ pc' \notin MeterPlace
      BY <1>8 DEF LeakFlow, LeakValve, KeepPins, Goto, MeterPlace
    <2>2. reg'.next = reg.next
      BY <1>1, <1>8, RegIs DEF LeakFlow, LeakValve, Goto
    <2> QED
      BY <1>3, <2>1, <2>2 DEF BillInv
  <1>9. CASE MeterLast \/ MeterFlow \/ LoadLiters \/ StoreLiters \/ LoadBilling \/ StoreBilling
    <2>1. metered /\ metered' = metered
      BY <1>1, <1>9
      DEF MeterLast, MeterFlow, LoadLiters, StoreLiters, LoadBilling, StoreBilling, Load, At, KeepPins,
          BillInv, MeterPlace
    <2> QED
      BY <2>1 DEF BillInv
  <1>10. CASE UNCHANGED waterVars /\ ~WaterNext /\ Next
    <2>1. record' # "water"
      BY <1>1, <1>10, NextParts, RecordOf DEF Recursing
    <2>2. PlaceInv'
      BY <1>1, <1>10, PlaceKept
    <2>3. pc' \notin MeterPlace /\ reg'.next # "burst_flow"
      BY <2>1, <2>2 DEF PlaceInv, WaterPlace, MeterPlace
    <2> QED
      BY <1>3, <1>10, <2>3 DEF waterVars
  <1>11. CASE UNCHANGED vars
    BY <1>11 DEF vars, taskVars, waterVars, BillInv
  <1> QED
    BY <1>2, <1>4, <1>6, <1>7, <1>8, <1>9, <1>10, <1>11, NextParts
    DEF WaterNext, WaterCommand, WaterHandler, waterVars

(* BillsOnce for any number of pulses: however commands open, close, freeze,  *)
(* set k and test for a leak between samples, no pulse is billed twice.      *)
THEOREM BilledOnce == Spec => []BillsOnce
  <1>1. Init => BillInv
    BY DEF Init, TaskInit, WaterInit, BillInv, MeterPlace, Blank
  <1>2. BillInv => BillsOnce
    BY DEF BillInv, BillsOnce
  <1> QED
    BY <1>1, <1>2, BillKept, BaseHolds, PTL DEF Spec

-----------------------------------------------------------------------------
(* What a sample leaves behind *)

CanAgrees == sampled => can.accepted = Allowed(can.last_id)
AgriAgrees ==
    sampled => /\ ag.pump = duty
               /\ record = "agriculture" => ag.pump = (ag.moist < thresh /\ ~ag.inhibit)
RobotAgrees == sampled => (rb.uart_n > 0 => rb.hb_age = 0)

(* A record that the behaviour is not about agrees all the time. *)
RestInv ==
    /\ record # "water" \/ ~disturbed => WaterAgrees
    /\ record # "industrial" \/ ~disturbed => IndAgrees
    /\ record # "energy" \/ ~disturbed => EnergyAgrees
    /\ record # "automotive" \/ ~disturbed => CanAgrees
    /\ record # "agriculture" \/ ~disturbed => AgriAgrees
    /\ record # "robotics" \/ ~disturbed => RobotAgrees

LEMMA RestImplies == RestInv => SampleRestores
  BY DEF RestInv, SampleRestores, GatewaysAgree, FieldAgrees, CanAgrees, AgriAgrees, RobotAgrees

LEMMA RestInit == Init => RestInv
  <1> SUFFICES ASSUME Init PROVE RestInv
    OBVIOUS
  <1>1. disturbed = TRUE /\ record \in Records
    BY DEF Init, TaskInit
  <1>2. WaterAgrees
    BY DEF Init, WaterInit, WaterAgrees
  <1>3. IndAgrees
    BY DEF Init, IndInit, IndAgrees
  <1>4. EnergyAgrees
    <2>1. s.p = 0 /\ s.vrms = 2 /\ s.irms = 0 /\ s.over_w = 4 /\ s.over_v = 3 /\ s.under_v = 1 /\ s.over_i = 3
      BY DEF Init, EnergyInit
    <2>2. ~Alarm(s)
      BY <2>1 DEF Alarm
    <2>3. s.alarm = FALSE /\ led = FALSE
      BY DEF Init, EnergyInit
    <2>4. Alarm(s) = FALSE
      BY <2>2 DEF Alarm
    <2> QED
      BY <2>3, <2>4 DEF EnergyAgrees
  <1>5. CanAgrees
    <2>1. can.accepted = FALSE /\ can.last_id = 0
      BY DEF Init, GatewaysInit
    <2>2. Allowed(can.last_id) = FALSE
      BY <2>1 DEF Allowed
    <2> QED
      BY <2>1, <2>2 DEF CanAgrees
  <1>6. record # "agriculture" => AgriAgrees
    BY DEF Init, FieldInit, AgriAgrees
  <1>7. RobotAgrees
    BY DEF Init, FieldInit, RobotAgrees
  <1> QED
    BY <1>1, <1>2, <1>3, <1>4, <1>5, <1>6, <1>7 DEF RestInv

(* The command task disturbs. *)
LEMMA Disturbs ==
    /\ WaterCommand \/ WaterHandler => disturbed'
    /\ IndCommand \/ IndHandler => disturbed'
    /\ EnergyCommand \/ EnergyHandler => disturbed'
    /\ EvCommand \/ EvReadTemp \/ EvSetFault => disturbed'
    /\ AutoCommand \/ AutoAccept => disturbed'
    /\ AgriCommand => disturbed'
    /\ RobotCommand => disturbed'
  <1>1. WaterCommand \/ WaterHandler => disturbed'
    BY DEF Goto, Done, WaterCommand,
           WaterHandler, WaterValveOpen, WaterValveClose, WaterTamper, WaterBilling, WaterSetK, WaterMeter,
           WaterLeak, WaterBurst, ValvePin, MeterLast, MeterFlow, LoadLiters, StoreLiters, LoadBilling,
           StoreBilling, Load, LeakFlow, LeakValve, LeakSet, BurstFlow, BurstSet, BurstShuts, SetFlag
  <1>2. IndCommand \/ IndHandler => disturbed'
    BY DEF Goto, Done, IndCommand, IndHandler,
           IndStateMachine, IndSampleCommand, IndAck, IndSetLimits, IndSampleVib, IndSampleRun, StepOver,
           SetFault, SetAck, StepVib, SetWarn, StepFault, StepRun, SetRun, AckIdle, AckClear, IndWrites
  <1>3. EnergyCommand \/ EnergyHandler => disturbed'
    BY DEF Goto, Done, EnergyCommand,
           EnergyHandler, EnergyMeasure, LedAlarm, EnergyCheck, EnergySetLimits, EnergyPf, EnergyCalibrate,
           MeasureI, ReadP, SetP, Eval, Trips, SetAlarm, ReadAlarm, SetLed, CalibrateI, EnergyWrites, EnergyReads
  <1>4. EvCommand \/ EvReadTemp \/ EvSetFault => disturbed'
    BY DEF Goto, Done, EvCommand, EvReadTemp, EvSetFault,
           EvStart, EvStop, EvSession, EvFault, EvSampleCommand, EvHandler
  <1>5. AutoCommand \/ AutoAccept => disturbed'
    BY DEF Goto, Done, AutoCommand, AutoAccept, AutoFilter, AutoBusOff, AutoDtc
  <1>6. AgriCommand => disturbed'
    BY DEF Goto, Done, AgriCommand, AgriSoil, AgriPumpAuto, AgriPumpOn, AgriPumpOff, AgriInhibit, AgriTake
  <1>7. RobotCommand => disturbed'
    BY DEF Goto, Done, RobotCommand, RobotUart, RobotHeartbeat, RobotEstop, RobotReject, RobotHandler
  <1> QED
    BY <1>1, <1>2, <1>3, <1>4, <1>5, <1>6, <1>7

LEMMA WaterRestored ==
    ASSUME WaterType, valve \in BOOLEAN, NEW n \in 0..MaxPulses, WaterSample(n)
    PROVE  WaterAgrees'
  <1>1. PICK x : x = Metered(exti + n)
    OBVIOUS
  <1>2. PICK b : b = (Flow(Delta(exti + n)) > burst_lpm)
    OBVIOUS
  <1>3. x.burst = b /\ x.valve_open = (w.valve_open /\ ~b)
    BY <1>1, <1>2 DEF Metered, WaterType
  <1>4. w' = x /\ valve' = (valve /\ ~x.burst)
    BY <1>1 DEF WaterSample
  <1> QED
    BY <1>3, <1>4 DEF WaterAgrees

LEMMA IndRestored ==
    ASSUME IndType, NEW temp \in Temps, NEW vib \in Vibs, NEW running \in BOOLEAN,
           IndSample(temp, vib, running)
    PROVE  IndAgrees'
  <1>1. PICK m : m = [g EXCEPT !.temp = temp, !.vib = vib, !.running = running]
    OBVIOUS
  <1>2. m \in [temp : Temps, vib : Vibs, running : BOOLEAN, t_lim : Temps, vib_lim : Vibs,
               st : IndState, ack_needed : BOOLEAN]
    BY <1>1 DEF IndType
  <1>3. m.temp \in Nat /\ m.vib \in Nat /\ m.t_lim \in Nat /\ m.vib_lim \in Nat
    BY <1>2, ReadingsAssumption
  <1>4. g' = Stepped(m)
    BY <1>1 DEF IndSample
  <1>5. CASE m.temp > m.t_lim
    <2>1. g' = [m EXCEPT !.st = "FAULT", !.ack_needed = TRUE]
      BY <1>3, <1>4, <1>5 DEF Stepped
    <2> QED
      BY <1>2, <1>3, <1>5, <2>1 DEF IndAgrees
  <1>6. CASE m.temp <= m.t_lim /\ m.vib > m.vib_lim
    <2>1. g' = [m EXCEPT !.st = "WARN"]
      BY <1>3, <1>4, <1>6 DEF Stepped
    <2> QED
      BY <1>2, <1>3, <1>6, <2>1 DEF IndAgrees
  <1>7. CASE m.temp <= m.t_lim /\ m.vib <= m.vib_lim /\ m.st = "FAULT"
    <2>1. g' = m
      BY <1>3, <1>4, <1>7 DEF Stepped
    <2> QED
      BY <1>3, <1>7, <2>1 DEF IndAgrees
  <1>8. CASE m.temp <= m.t_lim /\ m.vib <= m.vib_lim /\ m.st # "FAULT"
    <2>1. g' = [m EXCEPT !.st = IF m.running THEN "RUN" ELSE "IDLE"]
      BY <1>3, <1>4, <1>8 DEF Stepped
    <2> QED
      BY <1>2, <1>3, <1>8, <2>1 DEF IndAgrees
  <1> QED
    BY <1>3, <1>5, <1>6, <1>7, <1>8

LEMMA EnergyRestored ==
    ASSUME EnergyType, NEW v \in Readings, NEW i \in Readings, EnergySample(v, i)
    PROVE  EnergyAgrees'
  <1>1. PICK n : n = [[s EXCEPT !.vrms = IF v * s.v_scale > 0 THEN v * s.v_scale * s.v_scale ELSE @,
                                !.irms = i * s.i_scale * s.i_scale]
                        EXCEPT !.p = Power([s EXCEPT !.vrms = IF v * s.v_scale > 0
                                                             THEN v * s.v_scale * s.v_scale ELSE @,
                                                     !.irms = i * s.i_scale * s.i_scale])]
    OBVIOUS
  <1>2. s' = [n EXCEPT !.alarm = Alarm(n)] /\ led' = s'.alarm
    BY <1>1 DEF EnergySample, Measured
  <1>3. "alarm" \in DOMAIN n
    BY <1>1 DEF EnergyType
  <1>4. s'.alarm = Alarm(n)
    BY <1>2, <1>3
  <1>5. /\ s'.p = n.p /\ s'.vrms = n.vrms /\ s'.irms = n.irms /\ s'.over_w = n.over_w
        /\ s'.over_v = n.over_v /\ s'.under_v = n.under_v /\ s'.over_i = n.over_i
    BY <1>2
  <1>6. Alarm(s)' = Alarm(n)
    BY <1>5 DEF Alarm
  <1> QED
    BY <1>2, <1>4, <1>6 DEF EnergyAgrees

LEMMA CanRestored ==
    ASSUME CanType, NEW id \in FrameIds, AutoSample(id)
    PROVE  CanAgrees'
  <1>1. PICK b : b = Allowed(id)
    OBVIOUS
  <1>2. can' = [can EXCEPT !.last_id = id, !.accepted = b]
    BY <1>1 DEF AutoSample
  <1>3. can'.last_id = id /\ can'.accepted = b
    BY <1>2 DEF CanType
  <1> QED
    BY <1>1, <1>3 DEF CanAgrees

LEMMA AgriRestored ==
    ASSUME AgriType, NEW moist \in Moistures, AgriSample(moist)
    PROVE  AgriAgrees'
  <1>1. PICK b \in BOOLEAN : b = (moist < thresh)
    <2>1. (moist < thresh) \in BOOLEAN
      BY FieldAssumption DEF thresh
    <2> QED
      BY <2>1
  <1>2. PICK m : m = [ag EXCEPT !.moist = moist]
    OBVIOUS
  <1>3. PumpHw(m, b) /\ sampled /\ sampled' = sampled
    BY <1>1, <1>2 DEF AgriSample, Sampling
  <1>4. PICK runs \in BOOLEAN : runs = (b /\ ~m.inhibit)
    OBVIOUS
  <1>5. ag' = [m EXCEPT !.pump = runs] /\ duty' = runs
    BY <1>3, <1>4 DEF PumpHw
  <1>6. ag'.pump = runs /\ ag'.moist = moist /\ ag'.inhibit = m.inhibit
    BY <1>2, <1>5 DEF AgriType
  <1>7. (moist < thresh /\ ~m.inhibit) <=> runs
    BY <1>1, <1>4
  <1>8. (ag'.moist < thresh /\ ~ag'.inhibit) <=> runs
    BY <1>6, <1>7
  <1>9. runs = (ag'.moist < thresh /\ ~ag'.inhibit)
    BY <1>8, Zenon
  <1> QED
    BY <1>5, <1>6, <1>9 DEF AgriAgrees

LEMMA RobotRestored ==
    ASSUME RobotType, NEW n \in 0..1, RobotSample(n)
    PROVE  RobotAgrees'
  <1>1. PICK m \in RobotFields : m = Uart(rb, n)
    BY UartType DEF RobotType, RobotFields
  <1>2. rb' = Heartbeat(m)
    BY <1>1 DEF RobotSample
  <1>3. rb'.uart_n = m.uart_n /\ (m.uart_n > 0 => rb'.hb_age = m.hb_age)
    BY <1>2 DEF Heartbeat, RobotFields
  <1>4. m.uart_n > 0 => m.hb_age = 0
    BY <1>1 DEF Uart, RobotType
  <1> QED
    BY <1>3, <1>4 DEF RobotAgrees

LEMMA RestKept ==
    ASSUME BaseInv, RestInv, [Next]_vars
    PROVE  RestInv'
  <1>1. TypeOK /\ PlaceInv /\ RegType /\ RecordTypes /\ FlagType
    BY TypeParts DEF BaseInv
  <1>2. CASE UNCHANGED vars
    BY <1>2
    DEF vars, taskVars, waterVars, energyVars, gatewayVars, fieldVars, RestInv, WaterAgrees, IndAgrees,
        EnergyAgrees, CanAgrees, AgriAgrees, RobotAgrees, Alarm, Allowed
  <1>3. CASE Next
    <2>1. sampled' = sampled /\ record' = record
      BY <1>1, <1>3, TaskKept, NextParts, RecordOf
    <2>2. UNCHANGED waterVars /\ WaterAgrees => WaterAgrees'
      BY <2>1 DEF WaterAgrees, waterVars
    <2>3. UNCHANGED g /\ IndAgrees => IndAgrees'
      BY <2>1 DEF IndAgrees
    <2>4. UNCHANGED energyVars /\ EnergyAgrees => EnergyAgrees'
      BY <2>1 DEF EnergyAgrees, Alarm, energyVars
    <2>6. UNCHANGED can /\ CanAgrees => CanAgrees'
      BY <2>1 DEF CanAgrees, Allowed
    <2>7. UNCHANGED <<ag, duty>> /\ AgriAgrees => AgriAgrees'
      BY <2>1 DEF AgriAgrees
    <2>8. UNCHANGED rb /\ RobotAgrees => RobotAgrees'
      BY <2>1 DEF RobotAgrees
    <2>9. CASE WaterNext /\ UNCHANGED <<g, energyVars, gatewayVars, fieldVars>>
      <3>1. record = "water" /\ (disturbed' \/ WaterAgrees')
        BY <1>1, <2>9, RecordOf, Disturbs, WaterRestored DEF WaterNext, RecordTypes, FlagType
      <3> QED
        BY <2>1, <2>3, <2>4, <2>6, <2>7, <2>8, <2>9, <3>1 DEF RestInv, gatewayVars, fieldVars
    <2>10. CASE IndNext /\ UNCHANGED <<waterVars, energyVars, gatewayVars, fieldVars>>
      <3>1. record = "industrial" /\ (disturbed' \/ IndAgrees')
        BY <1>1, <2>10, RecordOf, Disturbs, IndRestored DEF IndNext, RecordTypes
      <3> QED
        BY <2>1, <2>2, <2>4, <2>6, <2>7, <2>8, <2>10, <3>1 DEF RestInv, gatewayVars, fieldVars
    <2>11. CASE EnergyNext /\ UNCHANGED <<waterVars, g, gatewayVars, fieldVars>>
      <3>1. record = "energy" /\ (disturbed' \/ EnergyAgrees')
        BY <1>1, <2>11, RecordOf, Disturbs, EnergyRestored DEF EnergyNext, RecordTypes
      <3> QED
        BY <2>1, <2>2, <2>3, <2>6, <2>7, <2>8, <2>11, <3>1 DEF RestInv, gatewayVars, fieldVars
    <2>12. CASE EvNext /\ UNCHANGED <<waterVars, g, energyVars, can, fieldVars>>
      <3>1. record = "ev"
        BY <1>1, <2>12, RecordOf DEF EvNext
      <3> QED
        BY <2>1, <2>2, <2>3, <2>4, <2>6, <2>7, <2>8, <2>12, <3>1 DEF RestInv, fieldVars
    <2>13. CASE AutoNext /\ UNCHANGED <<waterVars, g, energyVars, ev, fieldVars>>
      <3>1. record = "automotive" /\ (disturbed' \/ CanAgrees')
        BY <1>1, <2>13, RecordOf, Disturbs, CanRestored DEF AutoNext, RecordTypes
      <3> QED
        BY <2>1, <2>2, <2>3, <2>4, <2>7, <2>8, <2>13, <3>1 DEF RestInv, fieldVars
    <2>14. CASE FieldNext /\ UNCHANGED <<waterVars, g, energyVars, gatewayVars>>
      <3>1. record \in Recursing
        BY <1>1, <2>14, RecordOf
      <3>2. RestInv' <=> (record # "agriculture" \/ ~disturbed' => AgriAgrees')
                         /\ (record # "robotics" \/ ~disturbed' => RobotAgrees')
        BY <2>1, <2>2, <2>3, <2>4, <2>6, <2>14, <3>1 DEF RestInv, gatewayVars, Recursing
      <3>3. CASE AgriNext /\ record = "agriculture" /\ UNCHANGED <<tr, cd, rb>>
        <4>1. disturbed' \/ AgriAgrees'
          BY <1>1, <3>3, Disturbs, AgriRestored DEF AgriNext, RecordTypes
        <4> QED
          BY <2>8, <3>2, <3>3, <4>1 DEF RestInv
      <3>4. CASE RobotNext /\ record = "robotics" /\ UNCHANGED <<tr, ag, cd, duty>>
        <4>1. disturbed' \/ RobotAgrees'
          BY <1>1, <3>4, Disturbs, RobotRestored DEF RobotNext, RecordTypes
        <4> QED
          BY <2>7, <3>2, <3>4, <4>1 DEF RestInv
      <3>5. CASE record \in {"tracker", "coldchain"} /\ UNCHANGED <<ag, rb, duty>>
        BY <2>7, <2>8, <3>2, <3>5 DEF RestInv
      <3> QED
        BY <2>14, <3>3, <3>4, <3>5, FieldParts
    <2> QED
      BY <1>3, <2>9, <2>10, <2>11, <2>12, <2>13, <2>14, NextParts
  <1> QED
    BY <1>2, <1>3

(* SampleRestores for any readings and limits: whatever an interrupted        *)
(* handler has left in a record or at a pin, the first sample after it has    *)
(* ended puts right.  The faults of LatchedFaultsStay are not part of it.     *)
THEOREM Restored == Spec => []SampleRestores
  BY RestInit, RestKept, RestImplies, BaseHolds, PTL DEF Spec
===============================================================================
