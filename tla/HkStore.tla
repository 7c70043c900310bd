------------------------------ MODULE HkStore -------------------------------
(***************************************************************************)
(* The housekeeping-structure store (lib/hkstore), its ground interface    *)
(* (the structure management of PUS-3, lib/pus/src/pus3.c), and the main   *)
(* loop's use of them: the save tick, the restore at boot, the periodic    *)
(* framework report with its live-tunable period, and the emission tick,   *)
(* which reports at most one structure per iteration.                      *)
(*                                                                         *)
(* An iteration reads the clock once; the clock restarts at every boot.    *)
(* Up to two telecommands end it, a released one and a received one.       *)
(***************************************************************************)
EXTENDS Integers, Sequences, FiniteSets, FiniteSetsExt

CONSTANTS
    Capacity,     \* MIGRIS_HKSTORE_CAPACITY
    MaxParams,    \* MIGRIS_HKSTORE_MAX_PARAMS
    Reserved,     \* structure identifiers below MIGRIS_HKSTORE_SID_MIN
    Known,        \* the parameters the datapool defines
    Requests,     \* [3,1] requests: identifier, parameters, interval
    OldRecords,   \* records the flash may hold at the first boot
    Periods,      \* values ground gives the framework report's period
    TimeMod,      \* 2^32: the clock is a uint32_t
    Free,         \* a slot not in use
    MaxTime,      \* bound: seconds since boot
    MaxStep       \* bound: seconds an iteration takes

ASSUME HkAssumption ==
    /\ Capacity \in Nat \ {0} /\ MaxParams \in Nat /\ MaxStep \in Nat
    /\ MaxTime \in Nat /\ TimeMod \in Nat /\ MaxTime < TimeMod
    /\ Periods \subseteq 0 .. TimeMod - 1
    /\ \A r \in Requests : r.interval \in 0 .. TimeMod - 1

Slots == 1 .. Capacity
Sids  == {r.sid : r \in Requests}

(* A record is the count and the packed entries.  Another firmware may     *)
(* have written it, with other limits than this one's.                     *)
Entries == [sid : Sids, params : {r.params : r \in Requests},
            interval : {r.interval : r \in Requests}, enabled : BOOLEAN]
NoRecord == [count |-> 0, entries |-> <<>>]   \* none on flash restores as little

ASSUME RecordAssumption ==
    \A f \in OldRecords : f.count \in Nat /\ f.entries \in Seq(Entries)

(* A structure as it is defined: its identifier, parameters, interval and  *)
(* flag; and in its slot, with the time of its latest emission.            *)
Definition(s) == [sid |-> s.sid, params |-> s.params, interval |-> s.interval, enabled |-> s.enabled]
Structure(d, enabled, stamp) ==
    [sid |-> d.sid, params |-> d.params, interval |-> d.interval, enabled |-> enabled, last_emit |-> stamp]

Structures(t) == [sid : Sids \ Reserved, params : {r.params : r \in Requests},
                  interval : {r.interval : r \in Requests}, enabled : BOOLEAN, last_emit : 0 .. t]

(* The framework's own report is no structure, nor is a free slot. *)
ASSUME NamesAssumption == "framework" \notin Sids /\ Free \notin Structures(MaxTime)

VARIABLES
    slots,      \* store->structures
    count,      \* store->count
    dirty,      \* store->generation # last_saved_gen_hk
    flash,      \* the HKSTORE record
    now,        \* now_sec
    period,     \* parameter HK_PERIOD_SEC of the datapool
    last_hk,    \* last_hk_emit_sec
    phase,      \* part of the iteration: "top", "hk", "dyn", "released", "received"
    sent,       \* history: time of each structure's latest report, or of boot
    passed      \* history: for each slot, the slots served while it was due

hvars == <<slots, count, dirty, flash, now, period, last_hk, phase, sent, passed>>
store == <<slots, count>>
past  == <<sent, passed>>

----------------------------------------------------------------------------
InUse       == {i \in Slots : slots[i] # Free}
IndexOf(sid) == {i \in InUse : slots[i].sid = sid}

(* Unsigned arithmetic. *)
Elapsed(since) == (now - since) % TimeMod

(* Mutant: the structure is due one second early. *)
DueEarly(i) ==
    /\ slots[i] # Free /\ slots[i].enabled /\ slots[i].interval # 0
    /\ Elapsed(slots[i].last_emit) + 1 >= slots[i].interval

Due(i) ==
    /\ slots[i] # Free /\ slots[i].enabled /\ slots[i].interval # 0
    /\ Elapsed(slots[i].last_emit) >= slots[i].interval
DueSlots == {i \in Slots : Due(i)}

(* Mutant: the first due slot is served. *)
BestFirst == Min(DueSlots)

(* migris_hkstore_due: the due structure that has waited longest. *)
Best ==
    CHOOSE i \in DueSlots :
        \A j \in DueSlots :
            \/ slots[i].last_emit < slots[j].last_emit
            \/ slots[i].last_emit = slots[j].last_emit /\ i <= j

(* The slots in use among the first n, packed, without stamps. *)
PackedUpto(n) ==
    LET packed[i \in 0 .. Capacity] ==
          IF i = 0 THEN <<>>
          ELSE IF slots[i] = Free THEN packed[i - 1]
          ELSE Append(packed[i - 1], Definition(slots[i]))
    IN  packed[n]

(* Mutant: the scan looks at as many slots as there are structures. *)
SerializeCount == [count |-> count, entries |-> PackedUpto(count)]

(* migris_hkstore_serialize: store->count, then every slot in use. *)
Serialize == [count |-> count, entries |-> PackedUpto(Capacity)]

AllFree == [i \in Slots |-> Free]

(* hkstore_read_struct accepts the structure. *)
Readable(d) == d.sid \notin Reserved /\ Len(d.params) <= MaxParams

(* Mutant: a restored structure is stamped with the clock of the boot before. *)
RearmedNow(d) == Structure(d, d.enabled, now)

(* "Re-arm from now after restore": the clock is at zero. *)
Rearmed(d) == Structure(d, d.enabled, 0)

(* The record is accepted: the count has room, that many entries follow    *)
(* (what is behind them is not looked at), each of them is readable and    *)
(* none has the identifier of another.                                     *)
Restorable(record) ==
    /\ record.count <= Capacity
    /\ record.count <= Len(record.entries)
    /\ \A k \in 1 .. record.count : Readable(record.entries[k])
    /\ \A j, k \in 1 .. record.count : record.entries[j].sid = record.entries[k].sid => j = k

(* migris_hkstore_deserialize: the structures of the record, or none. *)
Deserialize(record) ==
    IF Restorable(record)
      THEN [i \in Slots |-> IF i <= record.count THEN Rearmed(record.entries[i]) ELSE Free]
      ELSE AllFree
RestoredCount(record) == IF Restorable(record) THEN record.count ELSE 0

----------------------------------------------------------------------------
HInit ==
    /\ flash \in OldRecords
    /\ now = 0 /\ last_hk = 0
    /\ slots = Deserialize(flash) /\ count = RestoredCount(flash) /\ dirty = FALSE
    /\ period \in Periods
    /\ phase = "top"
    /\ sent = [s \in Sids \cup {"framework"} |-> 0]
    /\ passed = [i \in Slots |-> {}]

(* The top of an iteration: read the clock, save the store if it changed. *)
SaveTick ==
    /\ phase = "top"
    /\ now' \in now .. Min({MaxTime, now + MaxStep})
    /\ flash' = IF dirty THEN Serialize ELSE flash
    /\ dirty' = FALSE
    /\ phase' = "hk"
    /\ UNCHANGED <<store, period, last_hk, past>>

(* The periodic framework report; a period of zero disables it. *)
FrameworkDue == period # 0 /\ Elapsed(last_hk) >= period

EmitFramework ==
    /\ phase = "hk"
    /\ IF FrameworkDue
         THEN last_hk' = now /\ sent' = [sent EXCEPT !["framework"] = now]
         ELSE UNCHANGED <<last_hk, sent>>
    /\ phase' = "dyn"
    /\ UNCHANGED <<store, dirty, flash, now, period, passed>>

EmitNothing ==
    /\ phase = "dyn" /\ DueSlots = {}
    /\ phase' = "released"
    /\ UNCHANGED <<store, dirty, flash, now, period, last_hk, past>>

(* migris_pus3_build_dynamic_hk_report: a structure that names a parameter *)
(* the datapool lacks makes no report.                                     *)
Resolves(s) == \A k \in DOMAIN s.params : s.params[k] \in Known

(* Mutant: a structure that cannot be reported keeps its stamp. *)
EmitDueStampSent ==
    /\ phase = "dyn" /\ DueSlots # {}
    /\ LET b == Best
       IN  IF Resolves(slots[b])
             THEN /\ slots' = [slots EXCEPT ![b].last_emit = now]
                  /\ sent' = [sent EXCEPT ![slots[b].sid] = now]
                  /\ passed' = [i \in Slots |-> IF i # b /\ Due(i) THEN passed[i] \cup {b} ELSE {}]
             ELSE UNCHANGED <<slots, past>>
    /\ phase' = "released"
    /\ UNCHANGED <<count, dirty, flash, now, period, last_hk>>

(* The emission tick: the structure is stamped before its report is built, *)
(* whether or not it can be.                                               *)
EmitDue ==
    /\ phase = "dyn" /\ DueSlots # {}
    /\ LET b == Best
       IN  /\ slots' = [slots EXCEPT ![b].last_emit = now]
           /\ sent' = IF Resolves(slots[b]) THEN [sent EXCEPT ![slots[b].sid] = now] ELSE sent
           /\ passed' = [i \in Slots |-> IF i # b /\ Due(i) THEN passed[i] \cup {b} ELSE {}]
    /\ phase' = "released"
    /\ UNCHANGED <<count, dirty, flash, now, period, last_hk>>

----------------------------------------------------------------------------
(* Telecommands: one may be released from the schedule, one received. *)
Dispatching == phase \in {"released", "received"}
AfterTc     == IF phase = "released" THEN "received" ELSE "top"

(* None, a [3,27] poll, one for another service, or a malformed one. *)
OtherTc ==
    /\ Dispatching
    /\ phase' = AfterTc
    /\ UNCHANGED <<store, dirty, flash, now, period, last_hk, past>>

(* [20,3] sets the period. *)
SetPeriod(p) ==
    /\ Dispatching
    /\ phase' = AfterTc
    /\ period' = p
    /\ UNCHANGED <<store, dirty, flash, now, last_hk, past>>

(* Mutant: a second structure with the same identifier is let in. *)
CreatableTwice(r) ==
    /\ r.params # <<>> /\ Len(r.params) <= MaxParams /\ r.sid \notin Reserved
    /\ InUse # Slots

Creatable(r) ==
    /\ r.params # <<>> /\ Len(r.params) <= MaxParams /\ r.sid \notin Reserved
    /\ IndexOf(r.sid) = {}
    /\ InUse # Slots

(* Slot i changes hands: its history, and what it did to others, is over. *)
Forget(i) == passed' = [j \in Slots |-> IF j = i THEN {} ELSE passed[j] \ {i}]

(* [3,1]: pus3_exec_create and migris_hkstore_create *)
Create(r) ==
    /\ Dispatching
    /\ phase' = AfterTc
    /\ IF Creatable(r)
         THEN LET i == Min(Slots \ InUse)
              IN  /\ slots' = [slots EXCEPT ![i] = Structure(r, FALSE, 0)]
                  /\ count' = count + 1
                  /\ dirty' = TRUE
                  /\ sent' = [sent EXCEPT ![r.sid] = 0]
                  /\ Forget(i)
         ELSE UNCHANGED <<store, dirty, past>>
    /\ UNCHANGED <<flash, now, period, last_hk>>

(* [3,2]: migris_hkstore_delete *)
Delete(sid) ==
    /\ Dispatching
    /\ phase' = AfterTc
    /\ IF IndexOf(sid) # {}
         THEN LET i == Min(IndexOf(sid))
              IN  /\ slots' = [slots EXCEPT ![i] = Free]
                  /\ count' = count - 1
                  /\ dirty' = TRUE
                  /\ Forget(i)
         ELSE UNCHANGED <<store, dirty, passed>>
    /\ UNCHANGED <<flash, now, period, last_hk, sent>>

(* [3,5], [3,6]: migris_hkstore_set_enabled; the stamp is kept, and an     *)
(* unchanged flag is no change.                                            *)
SetEnabled(sid, next) ==
    /\ Dispatching
    /\ phase' = AfterTc
    /\ \/ /\ \E i \in IndexOf(sid) :
              /\ slots[i].enabled # next
              /\ slots' = [slots EXCEPT ![i].enabled = next]
              /\ passed' = [passed EXCEPT ![i] = {}]
          /\ dirty' = TRUE
       \/ /\ \A i \in IndexOf(sid) : slots[i].enabled = next
          /\ UNCHANGED <<slots, dirty, passed>>
    /\ UNCHANGED <<count, flash, now, period, last_hk, sent>>

(* Power loss and reboot; the period comes back with the datapool. *)
Reboot ==
    /\ slots' = Deserialize(flash)
    /\ count' = RestoredCount(flash)
    /\ dirty' = FALSE /\ now' = 0 /\ last_hk' = 0 /\ phase' = "top"
    /\ sent' = [s \in DOMAIN sent |-> 0]
    /\ passed' = [i \in Slots |-> {}]
    /\ UNCHANGED <<flash, period>>

TcStep ==
    \/ OtherTc
    \/ \E p \in Periods : SetPeriod(p)
    \/ \E r \in Requests : Create(r)
    \/ \E sid \in Sids :
         \/ Delete(sid)
         \/ \E next \in BOOLEAN : SetEnabled(sid, next)

LoopStep == SaveTick \/ EmitFramework \/ EmitNothing \/ EmitDue

HNext == LoopStep \/ TcStep \/ Reboot

HSpec == HInit /\ [][HNext]_hvars

(* The loop never blocks. *)
FairHSpec == HSpec /\ WF_hvars(LoopStep \/ TcStep)

----------------------------------------------------------------------------
(* Stamps never lie in the future of the clock they are subtracted from. *)
HTypeOK ==
    /\ slots \in [Slots -> {Free} \cup Structures(now)]
    /\ count \in 0 .. Capacity
    /\ dirty \in BOOLEAN
    /\ now \in 0 .. MaxTime /\ last_hk \in 0 .. now
    /\ period \in Periods
    /\ phase \in {"top", "hk", "dyn", "released", "received"}

(* A structure identifier addresses one structure, and the count is the    *)
(* number of them, also after a record of another firmware was restored or *)
(* refused midway.                                                         *)
OneStructurePerSid ==
    /\ count = Cardinality(InUse)
    /\ \A i, j \in InUse : slots[i].sid = slots[j].sid => i = j

(* Whenever the loop sees no change, a power cycle brings back the same    *)
(* structures, each enabled or not as it is; only slots may differ.  The   *)
(* count written is the number of entries behind it and every entry passes *)
(* the checks of the restore, or all of them would be lost.                *)
Definitions(s) == {Definition(s[i]) : i \in {k \in Slots : s[k] # Free}}
CleanMeansRestored == ~dirty => Definitions(Deserialize(flash)) = Definitions(slots)

(* Reports come no faster than asked for: when a structure's report is     *)
(* made, its interval has passed since its latest report and since boot,   *)
(* through disabling and enabling, and across the restart of the clock.    *)
Spaced ==
    /\ (phase = "dyn" /\ DueSlots # {}) =>
           now - sent[slots[Best].sid] >= slots[Best].interval
    /\ (phase = "hk" /\ FrameworkDue) => now - sent["framework"] >= period

(* "Emissions round-robin in staleness order": no structure is served      *)
(* twice while another one is due, one that cannot be reported included.   *)
NoSecondPass ==
    (phase = "dyn" /\ DueSlots # {}) => \A i \in DueSlots : Best \notin passed[i]

(* A due structure does not wait for ever: it is served, or disabled,      *)
(* deleted or restarted by a reboot.                                       *)
DueIsServed == \A i \in Slots : Due(i) ~> ~Due(i)
============================================================================
