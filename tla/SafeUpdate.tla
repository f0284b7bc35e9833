------------------------------ MODULE SafeUpdate ------------------------------
(***************************************************************************)
(* What the update promises, with none of its slots, requests and tasks:    *)
(* the device has a home image, which it keeps while it fetches another and  *)
(* tries it.  A trial lasts one start.  It ends with the new image confirmed *)
(* or with the next reset, after which the device is at home again.          *)
(***************************************************************************)

VARIABLES
    home,       \* the image to go back to
    guest,      \* what the device has besides: an image, or a part of one
    phase,      \* "aside", "ready" to be tried, or on "trial": the guest runs
    started,    \* the firmware has got past its first step since the reset
    forced      \* an image was confirmed before it was through its start

vars == <<home, guest, phase, started, forced>>

Image == {"good", "bad"}

Init ==
    /\ home = "good"
    /\ guest = "good"
    /\ phase = "aside"
    /\ started = FALSE
    /\ forced = FALSE

Start ==
    /\ ~started
    /\ started' = TRUE
    /\ UNCHANGED <<home, guest, phase, forced>>

(* Whatever is written is written to the guest, and never during a trial. *)
Write ==
    /\ started
    /\ phase # "trial"
    /\ guest' \in Image \cup {"partial"}
    /\ UNCHANGED <<home, phase, started, forced>>

Select ==
    /\ started
    /\ phase = "aside"
    /\ guest # "partial"
    /\ phase' = "ready"
    /\ UNCHANGED <<home, guest, started, forced>>

Settle ==
    /\ started
    /\ phase = "trial"
    /\ home' = guest
    /\ guest' = home
    /\ phase' = "aside"
    /\ UNCHANGED started

(* The image that was on trial becomes the home: a good one that is through, *)
(* or any that somebody vouches for.                                         *)
Confirm == Settle /\ guest = "good" /\ UNCHANGED forced
Force == Settle /\ forced' = TRUE

(* A reset tries what is ready and whole, for one start. *)
Boot ==
    /\ started' = FALSE
    /\ phase' = IF phase = "ready" /\ guest # "partial" THEN "trial" ELSE "aside"
    /\ UNCHANGED <<home, guest, forced>>

Next == Start \/ Write \/ Select \/ Confirm \/ Force \/ Boot

Spec == Init /\ [][Next]_vars
===============================================================================
