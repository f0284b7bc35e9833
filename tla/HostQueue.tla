------------------------------ MODULE HostQueue ------------------------------
(***************************************************************************)
(* The queue of the Windows host build (iot_rtos.c, iot_host_queue_t): a     *)
(* ring of slots under a mutex, with a semaphore for the free slots and one  *)
(* for the filled ones.  The semaphores are taken before the mutex and given *)
(* after it, so that their values and count part while calls are under way.  *)
(*                                                                          *)
(* Everything between two calls of Windows is a step, and so is a copy.      *)
(***************************************************************************)
EXTENDS Naturals, Sequences, FiniteSets

CONSTANTS
    Senders, Receivers,
    Length,             \* of the queue
    MaxSends            \* bound on the sends, for model checking

ASSUME ThreadsAssumption ==
    IsFiniteSet(Senders) /\ IsFiniteSet(Receivers) /\ Senders \intersect Receivers = {}
ASSUME LengthAssumption == Length \in Nat \ {0}
ASSUME MaxSendsAssumption == MaxSends \in Nat

VARIABLES
    mtx,                \* the threads that hold the mutex
    space, items,       \* the semaphores
    buf,                \* slot -> item, 0 in one never written
    head, tail, count,
    pc,                 \* thread -> where its call is
    item,               \* thread -> the item it sends, or has received
    sends               \* how many sends there were

vars == <<mtx, space, items, buf, head, tail, count, pc, item, sends>>

Thread == Senders \union Receivers
Slot == 0..Length - 1

Init ==
    /\ mtx = {}
    /\ space = Length
    /\ items = 0
    /\ buf = [s \in Slot |-> 0]
    /\ head = 0
    /\ tail = 0
    /\ count = 0
    /\ pc = [t \in Thread |-> "out"]
    /\ item = [t \in Thread |-> 0]
    /\ sends = 0

Goto(t, from, to) == pc[t] = from /\ pc' = [pc EXCEPT ![t] = to]

(* A slip: the ring has one slot more. *)
AfterOneMore(slot) == (slot + 1) % (Length + 1)

After(slot) == (slot + 1) % Length
-----------------------------------------------------------------------------
(* Both calls *)

(* A slip: nobody waits for the mutex. *)
LockNoWait(t) ==
    /\ Goto(t, "lock", "copy")
    /\ mtx' = mtx \union {t}
    /\ UNCHANGED <<space, items, buf, head, tail, count, item, sends>>

Lock(t) ==
    /\ Goto(t, "lock", "copy")
    /\ mtx = {}
    /\ mtx' = {t}
    /\ UNCHANGED <<space, items, buf, head, tail, count, item, sends>>

(* A slip: the mutex is kept. *)
UnlockNot(t) ==
    /\ Goto(t, "unlock", "release")
    /\ UNCHANGED <<mtx, space, items, buf, head, tail, count, item, sends>>

Unlock(t) ==
    /\ Goto(t, "unlock", "release")
    /\ mtx' = mtx \ {t}
    /\ UNCHANGED <<space, items, buf, head, tail, count, item, sends>>

(* host_q_send *)

TakeSpace(t) ==
    /\ Goto(t, "out", "lock")
    /\ space > 0
    /\ space' = space - 1
    /\ sends < MaxSends
    /\ sends' = sends + 1
    /\ item' = [item EXCEPT ![t] = sends']
    /\ UNCHANGED <<mtx, items, buf, head, tail, count>>

(* IOT_ERR_QUEUE_FULL after the timeout. *)
SendFull(t) ==
    /\ pc[t] = "out"
    /\ space = 0
    /\ item' = [item EXCEPT ![t] = 0]
    /\ UNCHANGED <<mtx, space, items, buf, head, tail, count, pc, sends>>

CopyIn(t) ==
    /\ Goto(t, "copy", "advance")
    /\ buf' = [buf EXCEPT ![head] = item[t]]
    /\ UNCHANGED <<mtx, space, items, head, tail, count, item, sends>>

AdvanceHead(t) ==
    /\ Goto(t, "advance", "unlock")
    /\ head' = After(head)
    /\ count' = count + 1
    /\ UNCHANGED <<mtx, space, items, buf, tail, item, sends>>

GiveItems(t) ==
    /\ Goto(t, "release", "out")
    /\ items' = items + 1
    /\ UNCHANGED <<mtx, space, buf, head, tail, count, item, sends>>

(* iot_queue_recv *)

(* A slip: the slot is free again before it is read. *)
TakeItemsEarly(t) ==
    /\ Goto(t, "out", "lock")
    /\ items > 0
    /\ items' = items - 1
    /\ space' = space + 1
    /\ UNCHANGED <<mtx, buf, head, tail, count, item, sends>>

TakeItems(t) ==
    /\ Goto(t, "out", "lock")
    /\ items > 0
    /\ items' = items - 1
    /\ UNCHANGED <<mtx, space, buf, head, tail, count, item, sends>>

(* IOT_ERR_TIMEOUT. *)
RecvEmpty(t) ==
    /\ pc[t] = "out"
    /\ items = 0
    /\ item' = [item EXCEPT ![t] = 0]
    /\ UNCHANGED <<mtx, space, items, buf, head, tail, count, pc, sends>>

CopyOut(t) ==
    /\ Goto(t, "copy", "advance")
    /\ item' = [item EXCEPT ![t] = buf[tail]]
    /\ UNCHANGED <<mtx, space, items, buf, head, tail, count, sends>>

AdvanceTail(t) ==
    /\ Goto(t, "advance", "unlock")
    /\ tail' = After(tail)
    /\ count' = count - 1
    /\ UNCHANGED <<mtx, space, items, buf, head, item, sends>>

GiveSpace(t) ==
    /\ Goto(t, "release", "out")
    /\ space' = space + 1
    /\ UNCHANGED <<mtx, items, buf, head, tail, count, item, sends>>

SendStep(t) == TakeSpace(t) \/ SendFull(t) \/ CopyIn(t) \/ AdvanceHead(t) \/ GiveItems(t)
RecvStep(t) == TakeItems(t) \/ RecvEmpty(t) \/ CopyOut(t) \/ AdvanceTail(t) \/ GiveSpace(t)

Next ==
    \/ \E t \in Senders : SendStep(t)
    \/ \E t \in Receivers : RecvStep(t)
    \/ \E t \in Thread : Lock(t) \/ Unlock(t)

Spec == Init /\ [][Next]_vars

(* A call that went past its wait goes on, and the mutex is handed out in   *)
(* turn.  Callers come back when they like, receivers sooner or later.       *)
SendOn(t) == CopyIn(t) \/ AdvanceHead(t) \/ GiveItems(t)
RecvOn(t) == TakeItems(t) \/ CopyOut(t) \/ AdvanceTail(t) \/ GiveSpace(t)

SenderIsFair(t) == WF_vars(SendOn(t))
ReceiverIsFair(t) == WF_vars(RecvOn(t))
MutexIsFair(t) == SF_vars(Lock(t)) /\ WF_vars(Unlock(t))

FairSpec ==
    /\ Spec
    /\ \A t \in Senders : SenderIsFair(t)
    /\ \A t \in Receivers : ReceiverIsFair(t)
    /\ \A t \in Thread : MutexIsFair(t)
-----------------------------------------------------------------------------
TypeOK ==
    /\ mtx \subseteq Thread
    /\ space \in 0..Length /\ items \in 0..Length /\ count \in 0..Length
    /\ head \in Slot /\ tail \in Slot
    /\ buf \in [Slot -> Nat]
    /\ pc \in [Thread -> {"out", "lock", "copy", "advance", "unlock", "release"}]
    /\ item \in [Thread -> Nat]
    /\ sends \in 0..MaxSends

(* Where a call has its place in the queue, or has used it up. *)
Before == {"lock", "copy", "advance"}
Behind == {"unlock", "release"}

At(threads, places) == Cardinality({t \in threads : pc[t] \in places})

(* Every slot is accounted for: it is free for the taking, kept for a        *)
(* sender, filled, or on the way back from a receiver; and every item is     *)
(* announced, about to be, or promised to a receiver.  So no semaphore is    *)
(* ever given beyond its maximum (where Windows would refuse and a slot      *)
(* would be lost), no sender overwrites an item, and no receiver that went   *)
(* past its wait finds the ring empty.                                       *)
SlotsAccounted ==
    /\ space + At(Senders, Before) + count + At(Receivers, Behind) = Length
    /\ items + At(Senders, Behind) + At(Receivers, Before) = count
    /\ head = (tail + count) % Length

(* The ring is a bounded queue, first in, first out. *)
Reading == IF \E t \in Receivers : pc[t] = "advance" THEN 1 ELSE 0

Contents == [i \in 1..(count - Reading) |-> buf[(tail + Reading + i - 1) % Length]]

Phase(t) ==
    IF pc[t] = "out" THEN "out"
    ELSE IF pc[t] \in {"lock", "copy"} \/ (t \in Senders /\ pc[t] = "advance") THEN "in"
    ELSE "done"

Abstract == INSTANCE BoundedQueue WITH
    Item <- 1..MaxSends,
    queue <- Contents,
    phase <- [t \in Thread |-> Phase(t)]

(* iot_queue_send and iot_queue_recv are the calls of a bounded queue: each  *)
(* item is received once, in the order in which the senders had the mutex,   *)
(* and a send is refused only if the queue with the calls under way is full. *)
BoundedQueueSpec == Abstract!Spec

(* A send that went past its wait is received: no order of the calls leaves *)
(* an item in the ring that no semaphore tells of, and nobody waits for the  *)
(* mutex for ever.                                                           *)
EverythingIsReceived ==
    \A n \in 1..MaxSends :
        (\E t \in Senders : pc[t] = "lock" /\ item[t] = n) ~> (\E r \in Receivers : item[r] = n)
===============================================================================
