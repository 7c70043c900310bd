----------------------------- MODULE MCNvStore ------------------------------
(* A small instance of NvStore: two record types, two values per record.   *)
EXTENDS NvStore, TLC

CONSTANTS dp, sched, v1, v2

MCRecordTypes == {dp, sched}
MCValues      == {v1, v2}
(* v1 is a short record, v2 a long one; two long records do not fit. *)
MCRecordLen   == (v1 :> 1) @@ (v2 :> 4)

(* The two record types are interchangeable. *)
Perms == Permutations({dp, sched})
============================================================================
