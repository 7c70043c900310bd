--------------------------- MODULE DurableImage ----------------------------
(***************************************************************************)
(* What a power-safe record store promises its caller, without saying how: *)
(* there is one durable image, and it only ever changes to a payload the   *)
(* caller asked to save or back to the last one acknowledged.              *)
(***************************************************************************)
CONSTANTS Payload, NoImage

VARIABLES
    image,     \* what a reboot would restore
    acked,     \* the image last acknowledged (by a save that succeeded, or a load)
    attempts   \* payloads submitted since then

dvars == <<image, acked, attempts>>

Init == image = NoImage /\ acked = NoImage /\ attempts = {}

Submit(p) ==
    /\ attempts' = attempts \cup {p}
    /\ UNCHANGED <<image, acked>>

(* A save that fails or is cut off: any submitted payload, or none, took. *)
Settle ==
    /\ image' \in {acked} \cup attempts
    /\ UNCHANGED <<acked, attempts>>

Acknowledge(p) ==
    /\ p \in attempts
    /\ image' = p
    /\ acked' = p
    /\ attempts' = {}

Reload ==
    /\ acked' = image
    /\ attempts' = {}
    /\ UNCHANGED image

Next ==
    \/ \E p \in Payload : Submit(p) \/ Acknowledge(p)
    \/ Settle
    \/ Reload

Spec == Init /\ [][Next]_dvars
============================================================================
