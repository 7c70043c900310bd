----------------------------- MODULE TimeTable ------------------------------
(***************************************************************************)
(* What the on-board schedule promises: a set of activities, one per       *)
(* request identifier, that hands out a due activity with the earliest     *)
(* release time while enabled and takes it out, and that a power cycle     *)
(* takes back to the last persisted table with the clock at zero.  An      *)
(* activity fired after the last Persist is in that table still: across a  *)
(* power cycle it may fire a second time.                                  *)
(***************************************************************************)
EXTENDS Naturals, FiniteSets

CONSTANTS Ids, Times, TcLens, Capacity, NoActivity

Activity == [id : Ids, time : Times, len : TcLens]

VARIABLES
    table,     \* the scheduled activities
    enabled,
    now,
    popped,    \* the activity handed out for dispatch, or NoActivity
    kept       \* the persisted table and enabled flag

tvars == <<table, enabled, now, popped, kept>>

Init ==
    /\ table = {} /\ enabled = FALSE /\ now = 0 /\ popped = NoActivity
    /\ kept = [table |-> {}, enabled |-> FALSE]

Tick     == now' >= now /\ UNCHANGED <<table, enabled, popped, kept>>
Persist  == kept' = [table |-> table, enabled |-> enabled]
            /\ now' >= now /\ UNCHANGED <<table, enabled, popped>>
Switch   == enabled' \in BOOLEAN /\ UNCHANGED <<table, now, kept>>
            /\ popped' \in {popped, NoActivity}
Clear    == table' = {} /\ UNCHANGED <<enabled, now, kept>>
            /\ popped' \in {popped, NoActivity}

Add(a) ==
    /\ \A b \in table : b.id # a.id
    /\ Cardinality(table) < Capacity
    /\ table' = table \cup {a}
    /\ UNCHANGED <<enabled, now, popped, kept>>

Remove(id) ==
    /\ table' = {b \in table : b.id # id}
    /\ UNCHANGED <<enabled, now, popped, kept>>

Fire(a) ==
    /\ enabled /\ popped = NoActivity
    /\ a \in table /\ a.time <= now
    /\ \A b \in table : a.time <= b.time
    /\ popped' = a
    /\ table' = table \ {a}
    /\ UNCHANGED <<enabled, now, kept>>

Dispatched == popped' = NoActivity /\ UNCHANGED <<table, enabled, now, kept>>

PowerCycle ==
    /\ table' = kept.table /\ enabled' = kept.enabled
    /\ now' = 0 /\ popped' = NoActivity
    /\ UNCHANGED kept

Next ==
    \/ Tick \/ Persist \/ Switch \/ Clear \/ Dispatched \/ PowerCycle
    \/ \E a \in Activity : Add(a) \/ Fire(a)
    \/ \E id \in Ids : Remove(id)

Spec == Init /\ [][Next]_tvars
============================================================================
