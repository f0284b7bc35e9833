-------------------------------- MODULE UcTask --------------------------------
(***************************************************************************)
(* The two tasks that use the record of a product: sensor_task, whose hook  *)
(* feeds a sample into it, and the command task, which runs the handlers of *)
(* iot_uc.c on it.  No lock covers a record.                                *)
(*                                                                          *)
(* sensor_task has the higher priority, on one core: its hook is one step,  *)
(* which may come between any two accesses of a handler.  (A hook that       *)
(* waits for the mutex of iot_gpio_write comes, in effect, after the pin     *)
(* was written.)  A handler is a chain of steps, each with at most one       *)
(* access to what the hook uses too; pc says which one comes next and reg    *)
(* what the handler has read.                                                *)
(*                                                                          *)
(* The records are independent: a behaviour looks at one, chosen at the      *)
(* start.                                                                    *)
(***************************************************************************)
EXTENDS Naturals

CONSTANT MaxCommands     \* bound on the commands, for model checking

ASSUME MaxCommandsAssumption == MaxCommands \in Nat

VARIABLES
    record,       \* whose record this is
    sampled,      \* the product is its own: the sensor hook feeds the record
    pc,           \* where the handler is, "idle" between two commands
    reg,          \* its local variables
    asked,        \* how many commands were taken
    disturbed     \* no sample since the command task used the record, or none yet

taskVars == <<record, sampled, pc, reg, asked, disturbed>>

Records == {"water", "industrial", "energy", "ev", "automotive",
            "tracker", "agriculture", "coldchain", "robotics"}

(* The products whose command handler comes back to itself for every        *)
(* command, see Commands: there no use case is ever run by the command task. *)
Recursing == {"tracker", "agriculture", "coldchain", "robotics"}

(* n is a number, b a flag, next where a shared part of a handler goes on.  *)
Blank == [n |-> 0, d |-> 0, b |-> FALSE, next |-> "idle"]

TaskInit ==
    /\ record \in Records
    /\ sampled \in BOOLEAN
    /\ pc = "idle"
    /\ reg = Blank
    /\ asked = 0
    /\ disturbed = TRUE

(* The hook of a product, which leaves the handler where it is. *)
Sampling(r) ==
    /\ record = r
    /\ sampled
    /\ disturbed' = (pc # "idle")
    /\ UNCHANGED <<record, sampled, pc, reg, asked>>

(* Where the handler goes on, and with which local variables. *)
Goto(label, locals) ==
    /\ pc' = label
    /\ reg' = IF label = "idle" THEN Blank ELSE locals
    /\ disturbed' = TRUE
    /\ UNCHANGED <<record, sampled>>

Done == Goto("idle", Blank)

(* iot_uc_run_json finds the handler by its name and calls it. *)
Take(r) ==
    /\ record = r
    /\ sampled => r \notin Recursing
    /\ pc = "idle"
    /\ asked < MaxCommands
    /\ asked' = asked + 1

At(label) == pc = label /\ UNCHANGED asked
===============================================================================
