----------------------------- MODULE MCDispatch -----------------------------
(* The dispatch of telecommands: the router, with the large-data transfer   *)
(* that shares its counts (LargeData), and the handler of PUS-20 (Datapool).*)
(* The router knows an answer by its size only and the two share no         *)
(* variable, so one run explores them side by side: moves says which of     *)
(* them moves, the other one rests in an initial state.                     *)
EXTENDS MCRouter, MCDatapool

VARIABLE moves
dispatchvars == <<lvars, dvars, moves>>

DispatchInit ==
    /\ LInit /\ DInit
    /\ \/ moves = "router" /\ fw = "v1" /\ flash = NoRecord
       \/ moves = "datapool"

DispatchNext ==
    \/ moves = "router" /\ LNext /\ UNCHANGED <<dvars, moves>>
    \/ moves = "datapool" /\ DNext /\ UNCHANGED <<lvars, moves>>

DispatchSpec == DispatchInit /\ [][DispatchNext]_dispatchvars
=============================================================================
