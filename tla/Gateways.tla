------------------------------- MODULE Gateways -------------------------------
(***************************************************************************)
(* The EV charger gateway and the CAN gateway (iot_uc_ev_auto.c,             *)
(* iot_profile_ev.c, iot_profile_automotive.c).  The energy register and the *)
(* decoded signals are left out.                                             *)
(***************************************************************************)
EXTENDS UcTask

CONSTANTS
    Millivolts,      \* what the ADC of the EV gateway reads
    FrameIds,        \* the identifiers that the SPI transfer delivers, 8 bits
    MaxSession,      \* no session starts after so many, for model checking
    MaxBusOff        \* no bus-off is counted after so many

ASSUME GatewaysAssumption == /\ Millivolts \subseteq Nat /\ FrameIds \subseteq 0..255
                             /\ MaxSession \in Nat /\ MaxBusOff \in Nat

VARIABLES ev, can

gatewayVars == <<ev, can>>

GatewaysInit ==
    /\ ev = [state |-> "Idle", session |-> 0, fault |-> FALSE, temp |-> 0]
    /\ can = [last_id |-> 0, accepted |-> FALSE, bus_off |-> 0, dtc |-> FALSE]
-----------------------------------------------------------------------------
(* iot_uc_ev_sample: the display temperature from the ADC *)

Celsius(mv) == 25 + (mv % 200) \div 20

EvSampled(mv) == [ev EXCEPT !.temp = Celsius(mv), !.fault = Celsius(mv) > 70]

EvSample(mv) ==
    /\ Sampling("ev")
    /\ ev' = EvSampled(mv)
    /\ UNCHANGED can

(* The handlers of the EV gateway meet the sample only in temp and fault,   *)
(* which each writes at most once: each is one step, but for ev.sample,     *)
(* which without a JSON value sees 0 mV.                                     *)
EvHandler(after) ==
    /\ Take("ev")
    /\ ev' = after
    /\ Done
    /\ UNCHANGED can

(* A contactor command is denied in iot_uc_ev_start, and by ev.reject_contactor. *)
EvStart ==
    \/ EvHandler([ev EXCEPT !.state = "Charging", !.session = IF @ = 0 THEN 1 ELSE @])
    \/ EvHandler(ev)

EvStop == EvHandler([ev EXCEPT !.state = "Idle"])

EvSession ==
    \/ EvHandler([ev EXCEPT !.session = 0, !.state = "Idle"])
    \/ ev.session < MaxSession /\ EvHandler([ev EXCEPT !.session = @ + 1])

EvFault == EvHandler([ev EXCEPT !.fault = TRUE, !.state = "Fault"])

EvSampleCommand ==
    /\ Take("ev")
    /\ ev' = [ev EXCEPT !.temp = Celsius(0)]
    /\ Goto("ev_temp", Blank)
    /\ UNCHANGED can

EvReadTemp ==
    /\ At("ev_temp")
    /\ Goto("ev_fault", [Blank EXCEPT !.b = ev.temp > 70])
    /\ UNCHANGED gatewayVars

EvSetFault ==
    /\ At("ev_fault")
    /\ ev' = [ev EXCEPT !.fault = reg.b]
    /\ Done
    /\ UNCHANGED can

EvCommand == EvStart \/ EvStop \/ EvSession \/ EvFault \/ EvSampleCommand
-----------------------------------------------------------------------------
(* iot_uc_auto_filter and _decode: allow_min to allow_max is 0x100 to 0x7FF *)

Allowed(id) == 256 <= id /\ id <= 2047

AutoSample(id) ==
    /\ Sampling("automotive")
    /\ can' = [can EXCEPT !.last_id = id, !.accepted = Allowed(id)]
    /\ UNCHANGED ev

(* auto.filter: the identifier is not a key of a command and stays 0.       *)
AutoFilter ==
    /\ Take("automotive")
    /\ can' = [can EXCEPT !.last_id = 0]
    /\ Goto("auto_accept", Blank)
    /\ UNCHANGED ev

AutoAccept ==
    /\ At("auto_accept")
    /\ can' = [can EXCEPT !.accepted = Allowed(0)]
    /\ Done
    /\ UNCHANGED ev

AutoBusOff ==
    /\ Take("automotive")
    /\ can.bus_off < MaxBusOff
    /\ can' = [can EXCEPT !.bus_off = @ + 1]
    /\ Done
    /\ UNCHANGED ev

AutoDtc ==
    /\ Take("automotive")
    /\ \E code \in BOOLEAN : can' = [can EXCEPT !.dtc = code]
    /\ Done
    /\ UNCHANGED ev

AutoCommand == AutoFilter \/ AutoBusOff \/ AutoDtc

GatewayHandler == EvReadTemp \/ EvSetFault \/ AutoAccept

(* What a sample leaves behind: the frame's acceptance is that of the       *)
(* allow-list.                                                               *)
GatewaysAgree == sampled => can.accepted = Allowed(can.last_id)
===============================================================================
