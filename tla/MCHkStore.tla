------------------------------ MODULE MCHkStore -----------------------------
(* Two slots, two structure identifiers and the reserved one; q is not in   *)
(* the datapool.  Two requests are refused for their number of parameters.  *)
EXTENDS HkStore

CONSTANTS p, q, framework_diag, s1, s2

Request(sid, params, interval) == [sid |-> sid, params |-> params, interval |-> interval]
MCRequests ==
    {Request(s1, <<p>>, 1), Request(s1, <<p, p>>, 3), Request(s2, <<p, q>>, 1), Request(s2, <<p>>, 0),
     Request(framework_diag, <<p>>, 1), Request(s1, <<>>, 1), Request(s2, <<p, p, p>>, 1)}

(* No record, a good one, one of a firmware with more slots, one whose      *)
(* second entry has more parameters than this firmware allows, one whose    *)
(* entries end before its count, and one with an identifier twice.          *)
Entry(sid, params, interval) ==
    [sid |-> sid, params |-> params, interval |-> interval, enabled |-> TRUE]
Good == Entry(s1, <<p>>, 1)
MCOldRecords ==
    {NoRecord, [count |-> 1, entries |-> <<Good>>],
     [count |-> 3, entries |-> <<Good, Entry(s2, <<p>>, 1), Entry(framework_diag, <<p>>, 1)>>],
     [count |-> 2, entries |-> <<Good, Entry(s2, <<p, p, p>>, 1)>>],
     [count |-> 2, entries |-> <<Good>>],
     [count |-> 2, entries |-> <<Good, Entry(s1, <<p, p>>, 3)>>]}
=============================================================================
