----------------------------- MODULE MCDatapool -----------------------------
(* Three firmwares over four parameters.  The second changes the type of   *)
(* p_b and its own identity p_r; the table of the third has a duplicate, so *)
(* its init refuses it.                                                     *)
EXTENDS Datapool, TLC

CONSTANTS p_a, p_b, p_r, p_c

MCIds == {p_a, p_b, p_r, p_c}
Param(id, access, type, number) ==
    [id |-> id, access |-> access, value |-> [type |-> type, number |-> number]]
MCFirmware ==
    [v1 |-> <<Param(p_a, "RW", "u8", 0), Param(p_b, "RW", "i16", -1), Param(p_r, "RO", "u8", 0)>>,
     v2 |-> <<Param(p_a, "RW", "u8", 1), Param(p_b, "RW", "u8", 0), Param(p_r, "RO", "u8", 1)>>,
     v3 |-> <<Param(p_a, "RW", "u8", 1), Param(p_a, "RW", "u16", 0)>>]

(* None, or the record of a newer firmware that gave p_c a type of its own: *)
(* p_a is restored, p_b behind it is not.                                   *)
MCOldRecords ==
    {NoRecord,
     Record([count |-> 3, entries |-> <<[id |-> p_a, type |-> "u8", bytes |-> <<1>>],
                                        [id |-> p_c, type |-> "u64", bytes |-> <<1, 0, 1, 0, 1, 0, 1, 0>>],
                                        [id |-> p_b, type |-> "i16", bytes |-> <<0, 1>>]>>])}
=============================================================================
