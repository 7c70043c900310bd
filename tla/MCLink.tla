------------------------------- MODULE MCLink -------------------------------
(* The two ends of the link: telecommands on their way in (Uplink) and      *)
(* telemetry that is kept for ground (PktStore).  They share no variable,   *)
(* so a behaviour of both is a behaviour of each, and one run explores them *)
(* side by side: moves says which of them moves, the other one rests in its *)
(* initial state.                                                           *)
EXTENDS Uplink, PktStore

VARIABLE moves
linkvars == <<uvars, pvars, moves>>

(* Two-byte headers and five-byte buffers: telecommands of the least size,  *)
(* of one in between and of the largest, and one that does not fit and      *)
(* whose rest reads as headers of either kind.                              *)
MCBytes   == 0 .. 3
MCPackets == {<<1, 0, 3>>, <<0, 1, 0, 0>>, <<1, 2, 3, 3, 3>>, <<0, 3, 1, 0, 2, 0>>}

(* At rest, the packet store has refused the boot event as too long. *)
LinkInit ==
    /\ UInit /\ PInit
    /\ \/ moves = "uplink" /\ log = <<>>
       \/ moves = "packets"

LinkNext ==
    \/ moves = "uplink" /\ UNext /\ UNCHANGED <<pvars, moves>>
    \/ moves = "packets" /\ PNext /\ UNCHANGED <<uvars, moves>>

(* The fairness of UFairSpec and of FairPSpec, for the one that moves. *)
LinkSpec ==
    /\ LinkInit /\ [][LinkNext]_linkvars
    /\ WF_uvars(moves = "uplink" /\ UartIsr)
    /\ WF_uvars(moves = "uplink" /\ Loop)
    /\ WF_pvars(moves = "packets" /\ PNext)
=============================================================================
