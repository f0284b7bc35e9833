---------------------------- MODULE BoundedQueue ----------------------------
(***************************************************************************)
(* What iot_queue_send and iot_queue_recv promise: a queue of bounded        *)
(* length, first in, first out.  A call that went past its wait takes effect *)
(* once, at some moment before it returns.  A send may find the queue full,  *)
(* and a receive may find nothing, because of calls that are under way.      *)
(***************************************************************************)
EXTENDS Naturals, Sequences, FiniteSets

CONSTANTS Senders, Receivers, Length, Item

VARIABLES
    queue,
    phase,     \* thread -> whether its call has begun, and has taken effect
    item       \* thread -> what its call sends or has brought, 0 if it was refused

vars == <<queue, phase, item>>

Thread == Senders \union Receivers

Init ==
    /\ queue = <<>>
    /\ phase = [t \in Thread |-> "out"]
    /\ item = [t \in Thread |-> 0]

Step(t, from, to) == phase[t] = from /\ phase' = [phase EXCEPT ![t] = to]

BeginSend(t) ==
    /\ Step(t, "out", "in")
    /\ \E i \in Item : item' = [item EXCEPT ![t] = i]
    /\ UNCHANGED queue

BeginRecv(t) == Step(t, "out", "in") /\ UNCHANGED <<queue, item>>

Put(t) ==
    /\ Step(t, "in", "done")
    /\ Len(queue) < Length
    /\ queue' = Append(queue, item[t])
    /\ UNCHANGED item

Get(t) ==
    /\ Step(t, "in", "done")
    /\ queue # <<>>
    /\ item' = [item EXCEPT ![t] = Head(queue)]
    /\ queue' = Tail(queue)

End(t) == Step(t, "done", "out") /\ UNCHANGED <<queue, item>>

UnderWay == Cardinality({t \in Thread : phase[t] # "out"})

(* IOT_ERR_QUEUE_FULL and IOT_ERR_TIMEOUT. *)
Full(t) ==
    /\ phase[t] = "out"
    /\ Len(queue) + UnderWay >= Length
    /\ item' = [item EXCEPT ![t] = 0]
    /\ UNCHANGED <<queue, phase>>

Empty(t) ==
    /\ phase[t] = "out"
    /\ Len(queue) <= UnderWay
    /\ item' = [item EXCEPT ![t] = 0]
    /\ UNCHANGED <<queue, phase>>

Next ==
    \/ \E t \in Senders : BeginSend(t) \/ Put(t) \/ Full(t)
    \/ \E t \in Receivers : BeginRecv(t) \/ Get(t) \/ Empty(t)
    \/ \E t \in Thread : End(t)

Spec == Init /\ [][Next]_vars
===============================================================================
