---------------------------- MODULE CommandStream ----------------------------
(***************************************************************************)
(* What the command path promises those who send: commands are numbered    *)
(* 1, 2, 3, ... as they come in.  One that finds the queue full is dropped,   *)
(* and only the senders on FF01 are told.  The others are handled one after  *)
(* another as they came, each once and by what it is for.                    *)
(***************************************************************************)
EXTENDS Naturals, Sequences

CONSTANTS
    CommandCap,     \* how many commands wait besides the one at hand
    Opcode,         \* where they come in
    Kind            \* and what they are for

VARIABLES
    sent,           \* how many commands came in
    waiting,        \* those that wait, and the one at hand
    handled,        \* those that are through, and what did it
    dropped,
    refused         \* those whose sender was told so

vars == <<sent, waiting, handled, dropped, refused>>

(* What handles a command. *)
Handler(kind) ==
    CASE kind = "invalid" -> "rejected"
      [] kind = "other" -> "none"
      [] OTHER -> kind

Init ==
    /\ sent = 0
    /\ waiting = <<>>
    /\ handled = <<>>
    /\ dropped = {}
    /\ refused = {}

Accept(opcode, kind) ==
    /\ Len(waiting) <= CommandCap
    /\ sent' = sent + 1
    /\ waiting' = Append(waiting, [id |-> sent + 1, opcode |-> opcode, kind |-> kind])
    /\ UNCHANGED <<handled, dropped, refused>>

(* Nothing is dropped as long as there is room. *)
Drop(opcode) ==
    /\ Len(waiting) >= CommandCap
    /\ sent' = sent + 1
    /\ dropped' = dropped \cup {[id |-> sent + 1, opcode |-> opcode]}
    /\ refused' = IF opcode = "FF01" THEN refused \cup {sent + 1} ELSE refused
    /\ UNCHANGED <<waiting, handled>>

Handle ==
    /\ waiting # <<>>
    /\ waiting' = Tail(waiting)
    /\ handled' = Append(handled, [id |-> Head(waiting).id, by |-> Handler(Head(waiting).kind)])
    /\ UNCHANGED <<sent, dropped, refused>>

Next ==
    \/ \E o \in Opcode, k \in Kind : (o = "FF01" => k = "provision") /\ (Accept(o, k) \/ Drop(o))
    \/ Handle

Spec == Init /\ [][Next]_vars
==============================================================================
