------------------------------ MODULE MCRouter -------------------------------
(* The baseline's service reports at their largest: [17,2], [3,25] of eight *)
(* four-byte parameters, [20,2] of eight, [11,12] of eight, [15,13].        *)
EXTENDS LargeData
MCReplies == {<<"17,2", 18>>, <<"3,25", 52>>, <<"20,2", 67>>, <<"11,12", 83>>, <<"15,13", 29>>}
============================================================================
