------------------------------ MODULE Industrial ------------------------------
(***************************************************************************)
(* The machine monitor (iot_uc_industrial.c, iot_profile_industrial.c): the  *)
(* STOP / IDLE / RUN / WARN / FAULT machine, stepped by each sample and by   *)
(* commands.                                                                 *)
(*                                                                          *)
(* temp stands for the three quantities whose limits lead to FAULT           *)
(* (temperature, current, pressure) and t_lim for these limits; running is   *)
(* whether the current is that of a running machine.  The pulse counter and  *)
(* the operating hours are left out.                                         *)
(***************************************************************************)
EXTENDS UcTask

CONSTANTS Temps, Vibs     \* the readings and limits, in steps

ASSUME ReadingsAssumption == Temps \subseteq Nat /\ Vibs \subseteq Nat /\ 0 \in Temps \cap Vibs
                             /\ 1 \in Temps \cap Vibs

VARIABLE g

IndState == {"STOP", "IDLE", "RUN", "WARN", "FAULT"}

IndInit ==
    g = [temp |-> 0, vib |-> 0, running |-> FALSE, t_lim |-> 1, vib_lim |-> 1,
         st |-> "IDLE", ack_needed |-> FALSE]
-----------------------------------------------------------------------------
(* sensor_task: iot_uc_ind_on_sample and iot_uc_ind_sample *)

(* ind_step_state *)
Stepped(m) ==
    CASE m.temp > m.t_lim -> [m EXCEPT !.st = "FAULT", !.ack_needed = TRUE]
      [] m.temp <= m.t_lim /\ m.vib > m.vib_lim -> [m EXCEPT !.st = "WARN"]
      [] m.temp <= m.t_lim /\ m.vib <= m.vib_lim /\ m.st = "FAULT" -> m
      [] OTHER -> [m EXCEPT !.st = IF m.running THEN "RUN" ELSE "IDLE"]

IndSample(temp, vib, running) ==
    /\ Sampling("industrial")
    /\ g' = Stepped([g EXCEPT !.temp = temp, !.vib = vib, !.running = running])
-----------------------------------------------------------------------------
(* The command task, where ind_step_state is taken apart *)

IndWrites(label, next, m) == At(label) /\ g' = m /\ Goto(next, reg)

(* industrial.state *)
IndStateMachine ==
    /\ Take("industrial")
    /\ Goto("step_over", Blank)
    /\ UNCHANGED g

(* industrial.sample: the readings of the command, one by one. *)
IndSampleCommand ==
    /\ Take("industrial")
    /\ \E temp \in Temps : g' = [g EXCEPT !.temp = temp]
    /\ Goto("sample_vib", Blank)

IndSampleVib == \E vib \in Vibs : IndWrites("sample_vib", "sample_run", [g EXCEPT !.vib = vib])

IndSampleRun ==
    \E running \in BOOLEAN : IndWrites("sample_run", "step_over", [g EXCEPT !.running = running])

StepOver ==
    /\ At("step_over")
    /\ Goto(IF g.temp > g.t_lim THEN "set_fault" ELSE "step_vib", Blank)
    /\ UNCHANGED g

SetFault == IndWrites("set_fault", "set_ack", [g EXCEPT !.st = "FAULT"])
SetAck == IndWrites("set_ack", "idle", [g EXCEPT !.ack_needed = TRUE])

StepVib ==
    /\ At("step_vib")
    /\ Goto(IF g.vib > g.vib_lim THEN "set_warn" ELSE "step_fault", Blank)
    /\ UNCHANGED g

SetWarn == IndWrites("set_warn", "idle", [g EXCEPT !.st = "WARN"])

StepFault ==
    /\ At("step_fault")
    /\ Goto(IF g.st = "FAULT" THEN "idle" ELSE "step_run", Blank)
    /\ UNCHANGED g

StepRun ==
    /\ At("step_run")
    /\ Goto("set_run", [Blank EXCEPT !.b = g.running])
    /\ UNCHANGED g

SetRun == IndWrites("set_run", "idle", [g EXCEPT !.st = IF reg.b THEN "RUN" ELSE "IDLE"])

(* industrial.ack *)
IndAck ==
    /\ Take("industrial")
    /\ Goto(IF g.st = "FAULT" THEN "ack_idle" ELSE "idle", Blank)
    /\ UNCHANGED g

AckIdle == IndWrites("ack_idle", "ack_clear", [g EXCEPT !.st = "IDLE"])
AckClear == IndWrites("ack_clear", "idle", [g EXCEPT !.ack_needed = FALSE])

(* industrial.set_limits; several keys in one command write one after the   *)
(* other, like several commands.                                            *)
IndSetLimits ==
    /\ Take("industrial")
    /\ \/ \E lim \in Temps : g' = [g EXCEPT !.t_lim = lim]
       \/ \E lim \in Vibs : g' = [g EXCEPT !.vib_lim = lim]
    /\ Done

IndCommand == IndStateMachine \/ IndSampleCommand \/ IndAck \/ IndSetLimits

IndHandler ==
    \/ IndSampleVib \/ IndSampleRun \/ StepOver \/ SetFault \/ SetAck \/ StepVib \/ SetWarn
    \/ StepFault \/ StepRun \/ SetRun \/ AckIdle \/ AckClear

(* What a sample leaves behind: FAULT when over a limit, an alarm when the  *)
(* vibration is, WARN and RUN only for the readings they are for.           *)
IndAgrees ==
    sampled =>
        /\ g.temp > g.t_lim => g.st = "FAULT" /\ g.ack_needed
        /\ g.vib > g.vib_lim => g.st \in {"WARN", "FAULT"}
        /\ g.st = "WARN" => g.vib > g.vib_lim
        /\ g.st = "RUN" => g.running
===============================================================================
