--------------------------- MODULE TelemetryStream ---------------------------
(***************************************************************************)
(* What the telemetry path promises its readers, with none of its tasks   *)
(* and queues: samples are numbered 1, 2, 3, ...; each one is pending      *)
(* until it is either delivered to the MQTT client or lost, and neither    *)
(* is ever undone.  So nothing is delivered that was not sampled, nothing  *)
(* twice, and every sample that was not delivered is accounted for.        *)
(***************************************************************************)
EXTENDS Naturals, Sequences

VARIABLES
    sampled,    \* how many samples were taken
    pending,    \* the samples somewhere on the way
    delivered,  \* the samples handed over, in the order of delivery
    lost        \* the samples given up

vars == <<sampled, pending, delivered, lost>>

Init ==
    /\ sampled = 0
    /\ pending = {}
    /\ delivered = <<>>
    /\ lost = {}

Sample ==
    /\ sampled' = sampled + 1
    /\ pending' = pending \cup {sampled + 1}
    /\ UNCHANGED <<delivered, lost>>

Deliver(n) ==
    /\ n \in pending
    /\ pending' = pending \ {n}
    /\ delivered' = Append(delivered, n)
    /\ UNCHANGED <<sampled, lost>>

Lose(n) ==
    /\ n \in pending
    /\ pending' = pending \ {n}
    /\ lost' = lost \cup {n}
    /\ UNCHANGED <<sampled, delivered>>

(* A sample whose reading fails is numbered and lost in the same moment. *)
SampleFails ==
    /\ sampled' = sampled + 1
    /\ lost' = lost \cup {sampled + 1}
    /\ UNCHANGED <<pending, delivered>>

Next ==
    \/ Sample
    \/ SampleFails
    \/ \E n \in pending : Deliver(n) \/ Lose(n)

Spec == Init /\ [][Next]_vars
=============================================================================
