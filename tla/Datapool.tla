------------------------------ MODULE Datapool ------------------------------
(***************************************************************************)
(* The parameter datapool (lib/datapool), its ground interface PUS-20      *)
(* (lib/pus/src/pus20.c), and what the sample does with them: the save     *)
(* tick, the restore at boot, and a boot into another firmware, whose      *)
(* parameter table may differ from the one that wrote the record on flash. *)
(*                                                                         *)
(* Values are typed and are encoded and decoded as the code does it, most  *)
(* significant byte first at the width of their type; only the size of a   *)
(* byte is a parameter.  A set request is validated in one step and then   *)
(* applied one parameter per step, as the two passes of the code do.       *)
(***************************************************************************)
EXTENDS Integers, Sequences, FiniteSets

CONSTANTS
    Ids,        \* parameter identifiers
    Firmware,   \* the firmwares that can be booted: name -> parameter table
    OldRecords, \* what the flash may hold at the first boot
    Radix,      \* 2^8: the values of a byte
    Capacity,   \* MIGRIS_DATAPOOL_CAPACITY
    MaxPerTc,   \* MIGRIS_PUS20_MAX_PARAMS_PER_TC
    MaxBytes    \* bound: value bytes in a request item

Types == {"u8", "u16", "u32", "i8", "i16", "i32", "f32"}

(* migris_dp_type_width *)
Width(type) == CASE type \in {"u8", "i8"}          -> 1
                 [] type \in {"u16", "i16"}        -> 2
                 [] type \in {"u32", "i32", "f32"} -> 4

(* What a bit pattern counts for when it is shifted left by k bytes. *)
Place[k \in 0 .. 4] == IF k = 0 THEN 1 ELSE Radix * Place[k - 1]

(* The numbers a type holds; a float is its bit pattern. *)
Signed(type) == type \in {"i8", "i16", "i32"}
Span(type)   == Place[Width(type)]
Numbers(type) ==
    IF Signed(type) THEN -(Span(type) \div 2) .. Span(type) \div 2 - 1 ELSE 0 .. Span(type) - 1
Value == UNION {[type : {t}, number : Numbers(t)] : t \in Types}
Byte  == 0 .. Radix - 1
Parameter == [id : Ids, access : {"RO", "RW"}, value : Value]

ASSUME DatapoolAssumption ==
    /\ Radix \in Nat \ {0} /\ Radix % 2 = 0
    /\ Capacity \in Nat /\ MaxPerTc \in Nat /\ MaxBytes \in Nat
    /\ \A f \in DOMAIN Firmware : Firmware[f] \in Seq(Parameter)

----------------------------------------------------------------------------
(* The value codec. *)

(* dp_value_bits, dp_value_from_bits: two's complement. *)
Bits(v) == v.number % Span(v.type)

FromBits(type, bits) ==
    [type   |-> type,
     number |-> IF Signed(type) /\ bits >= Span(type) \div 2 THEN bits - Span(type) ELSE bits]

(* migris_dp_value_encode *)
Encode(v) ==
    [i \in 1 .. Width(v.type) |-> (Bits(v) \div Place[Width(v.type) - i]) % Radix]

(* migris_dp_value_decode, given as many bytes as the type is wide: bits   *)
(* after each turn of its loop, and at the end.                            *)
Shifted(bytes) ==
    LET bits[k \in 0 .. Len(bytes)] == IF k = 0 THEN 0 ELSE bits[k - 1] * Radix + bytes[k]
    IN  bits
Decode(type, bytes) == FromBits(type, Shifted(bytes)[Len(bytes)])

----------------------------------------------------------------------------
(* The store: a table from identifiers to parameters. *)
Empty == [id \in {} |-> {}]

(* The DATAPOOL record on flash, if there is one: a count and entries. *)
NoRecord  == <<>>
Record(r) == <<r>>

(* A record of a firmware that is not in the table above: its identifiers  *)
(* are distinct, its types may be newer than this code.                    *)
Foreign(r) ==
    /\ r.count \in Nat /\ Len(r.entries) \in Nat
    /\ \A k \in 1 .. Len(r.entries) : r.entries[k].bytes \in Seq(Byte)
    /\ \A j, k \in 1 .. Len(r.entries) : r.entries[j].id = r.entries[k].id => j = k

ASSUME RecordAssumption ==
    \A record \in OldRecords :
        record = NoRecord \/ (record = Record(record[1]) /\ Foreign(record[1]))

(* dp_validate; a table of valid types is the assumption above. *)
ValidTable(table) ==
    /\ Len(table) <= Capacity
    /\ \A j, k \in DOMAIN table : table[j].id = table[k].id => j = k

(* migris_datapool_init: a bad table leaves the pool empty. *)
Defaults(table) ==
    IF ValidTable(table)
      THEN [id \in {table[k].id : k \in DOMAIN table} |->
              table[CHOOSE k \in DOMAIN table : table[k].id = id]]
      ELSE Empty

(* migris_datapool_serialize: the count and every parameter in the order   *)
(* of the table that init took, read-only ones too.                        *)
Entry(p, id)    == [id |-> id, type |-> p[id].value.type, bytes |-> Encode(p[id].value)]
Serialize(f, p) ==
    IF ValidTable(Firmware[f])
      THEN [count   |-> Len(Firmware[f]),
            entries |-> [k \in DOMAIN Firmware[f] |-> Entry(p, Firmware[f][k].id)]]
      ELSE [count |-> 0, entries |-> <<>>]

(* The walk of migris_datapool_deserialize gives up where the record ends, *)
(* at a type code this firmware does not know, or at a value that is cut   *)
(* short; what it took before that stays restored.                         *)
Readable(e) == e.type \in Types /\ Len(e.bytes) = Width(e.type)
Taken(r) ==
    {r.entries[k] : k \in {i \in 1 .. Len(r.entries) :
                            i <= r.count /\ \A j \in 1 .. i : Readable(r.entries[j])}}

(* Mutant: an entry is restored whatever its type. *)
MatchesId(e, param) == e.id = param.id

(* Restored are the entries that match in identifier and type. *)
Matches(e, param) == e.id = param.id /\ e.type = param.value.type

Restore(p, entries) ==
    [id \in DOMAIN p |->
        LET found == {e \in entries : Matches(e, p[id])}
        IN  IF found = {} THEN p[id]
            ELSE LET e == CHOOSE e \in found : TRUE
                 IN  [p[id] EXCEPT !.value = Decode(e.type, e.bytes)]]

(* migris_datapool_deserialize over the defaults p *)
Deserialize(p, r) == Restore(p, Taken(r))

(* The boot sequence of main(). *)
Booted(f, record) ==
    LET p == Defaults(Firmware[f])
    IN  IF record = NoRecord THEN p ELSE Deserialize(p, record[1])

(* migris_datapool_set succeeds *)
SetOk(p, id, v) == id \in DOMAIN p /\ v.type = p[id].value.type /\ p[id].access = "RW"

----------------------------------------------------------------------------
VARIABLES
    fw,       \* the firmware that is running
    pool,     \* dp->params
    dirty,    \* dp->generation # last_saved_gen_dp
    flash,    \* the DATAPOOL record, or NoRecord
    phase,    \* "top" of the loop, telecommand dispatch "tc", pass two of a set "apply"
    todo,     \* decoded items still to be applied
    report,   \* the parameter value report going out
    batch,    \* history: the items of the set being applied
    before,   \* history: the pool when it was accepted
    ground    \* history: the value bytes ground last set, where they must still hold

dvars == <<fw, pool, dirty, flash, phase, todo, report, batch, before, ground>>

DInit ==
    /\ fw \in DOMAIN Firmware /\ flash \in OldRecords
    /\ pool = Booted(fw, flash) /\ dirty = FALSE
    /\ phase = "top" /\ todo = <<>> /\ report = <<>>
    /\ batch = <<>> /\ before = Empty /\ ground = Empty

(* Top of an iteration: save the pool if it changed. *)
SaveTick ==
    /\ phase = "top"
    /\ flash' = IF dirty THEN Record(Serialize(fw, pool)) ELSE flash
    /\ dirty' = FALSE
    /\ phase' = "tc" /\ report' = <<>>
    /\ UNCHANGED <<fw, pool, todo, batch, before, ground>>

(* No telecommand, one for another service, or an unknown subtype. *)
OtherTc ==
    /\ phase = "tc"
    /\ phase' = "top"
    /\ UNCHANGED <<fw, pool, dirty, flash, todo, report, batch, before, ground>>

(* Mutant: every value of the report is the first parameter's. *)
ReportFirstValue(ids) ==
    /\ phase = "tc"
    /\ report' = IF Len(ids) <= MaxPerTc /\ \A k \in DOMAIN ids : ids[k] \in DOMAIN pool
                   THEN [k \in DOMAIN ids |-> [id |-> ids[k], bytes |-> Encode(pool[ids[1]].value)]]
                   ELSE report
    /\ phase' = "top"
    /\ UNCHANGED <<fw, pool, dirty, flash, todo, batch, before, ground>>

(* [20,1]: one report of all the parameters asked for, or none. *)
ReportValues(ids) ==
    /\ phase = "tc"
    /\ report' = IF Len(ids) <= MaxPerTc /\ \A k \in DOMAIN ids : ids[k] \in DOMAIN pool
                   THEN [k \in DOMAIN ids |-> [id |-> ids[k], bytes |-> Encode(pool[ids[k]].value)]]
                   ELSE report
    /\ phase' = "top"
    /\ UNCHANGED <<fw, pool, dirty, flash, todo, batch, before, ground>>

(* pus20_decode_sets: the walk gives up at the first identifier that is    *)
(* unknown or read-only, at a value that is cut short, and at the end if   *)
(* bytes are left over.                                                    *)
Settable(items) ==
    /\ Len(items) <= MaxPerTc
    /\ \A k \in DOMAIN items :
          /\ items[k].id \in DOMAIN pool
          /\ pool[items[k].id].access = "RW"
          /\ Len(items[k].bytes) = Width(pool[items[k].id].value.type)

Decoded(items) ==
    [k \in DOMAIN items |->
        [id    |-> items[k].id,
         value |-> Decode(pool[items[k].id].value.type, items[k].bytes)]]

(* [20,3], pass one. *)
SetValues(items) ==
    /\ phase = "tc"
    /\ IF Settable(items)
         THEN phase' = "apply" /\ todo' = Decoded(items) /\ batch' = items /\ before' = pool
         ELSE phase' = "top" /\ UNCHANGED <<todo, batch, before>>
    /\ UNCHANGED <<fw, pool, dirty, flash, report, ground>>

(* Mutant: the set does not count as a change. *)
ApplySetUncounted ==
    /\ phase = "apply" /\ todo # <<>>
    /\ IF SetOk(pool, Head(todo).id, Head(todo).value)
         THEN pool' = [pool EXCEPT ![Head(todo).id].value = Head(todo).value] /\ UNCHANGED dirty
         ELSE UNCHANGED <<pool, dirty>>
    /\ todo' = Tail(todo)
    /\ UNCHANGED <<fw, flash, phase, report, batch, before, ground>>

(* Mutant: a parameter that was already written by this request is kept. *)
ApplySetFirstWins ==
    /\ phase = "apply" /\ todo # <<>>
    /\ IF SetOk(pool, Head(todo).id, Head(todo).value) /\ pool[Head(todo).id] = before[Head(todo).id]
         THEN pool' = [pool EXCEPT ![Head(todo).id].value = Head(todo).value] /\ dirty' = TRUE
         ELSE UNCHANGED <<pool, dirty>>
    /\ todo' = Tail(todo)
    /\ UNCHANGED <<fw, flash, phase, report, batch, before, ground>>

(* [20,3], pass two: one migris_datapool_set, its return code ignored. *)
ApplySet ==
    /\ phase = "apply" /\ todo # <<>>
    /\ IF SetOk(pool, Head(todo).id, Head(todo).value)
         THEN pool' = [pool EXCEPT ![Head(todo).id].value = Head(todo).value] /\ dirty' = TRUE
         ELSE UNCHANGED <<pool, dirty>>
    /\ todo' = Tail(todo)
    /\ UNCHANGED <<fw, flash, phase, report, batch, before, ground>>

(* The bytes the request being applied gives last for a parameter. *)
LastBytes(id) ==
    LET named == {k \in DOMAIN batch : batch[k].id = id}
    IN  batch[CHOOSE k \in named : \A j \in named : j <= k].bytes
Named == {batch[k].id : k \in DOMAIN batch}

ApplyDone ==
    /\ phase = "apply" /\ todo = <<>>
    /\ phase' = "top"
    /\ ground' = [id \in DOMAIN ground \cup Named |->
                    IF id \in Named THEN LastBytes(id) ELSE ground[id]]
    /\ batch' = <<>> /\ before' = Empty
    /\ UNCHANGED <<fw, pool, dirty, flash, todo, report>>

(* Power loss and reboot, into the same firmware or another one.  What     *)
(* ground set must still hold if it had been saved and the booted firmware *)
(* has the parameter with the type it had.                                 *)
Reboot(f) ==
    /\ fw' = f
    /\ pool' = Booted(f, flash)
    /\ dirty' = FALSE /\ phase' = "top" /\ todo' = <<>> /\ report' = <<>>
    /\ batch' = <<>> /\ before' = Empty
    /\ ground' = LET table == Defaults(Firmware[f])
                     kept  == {id \in DOMAIN ground \cap DOMAIN table :
                                 table[id].value.type = pool[id].value.type}
                 IN  IF dirty THEN Empty ELSE [id \in kept |-> ground[id]]
    /\ UNCHANGED flash

(* Requests up to one item too many.  Ground encodes at the registered     *)
(* width; only the last value may be cut short or followed by more bytes.  *)
ByteStrings == UNION {[1 .. n -> Byte] : n \in 0 .. MaxBytes}
Items       == [id : Ids, bytes : ByteStrings]
WellSized   == {i \in Items : i.id \in DOMAIN pool => Len(i.bytes) = Width(pool[i.id].value.type)}
Requests ==
    {<<>>} \cup {<<i>> : i \in Items} \cup {<<i, j>> : i \in WellSized, j \in Items}
           \cup {[k \in 1 .. MaxPerTc + 1 |-> i] : i \in WellSized}
IdLists == UNION {[1 .. n -> Ids] : n \in 0 .. MaxPerTc + 1}

DNext ==
    \/ SaveTick
    \/ OtherTc
    \/ \E ids \in IdLists : ReportValues(ids)
    \/ \E items \in Requests : SetValues(items)
    \/ ApplySet
    \/ ApplyDone
    \/ \E f \in DOMAIN Firmware : Reboot(f)

DSpec == DInit /\ [][DNext]_dvars

----------------------------------------------------------------------------
(* The running firmware's parameters, each with its declared access and a  *)
(* value of its declared type - whatever firmware wrote the record that    *)
(* was restored.                                                           *)
DTypeOK ==
    /\ fw \in DOMAIN Firmware
    /\ DOMAIN pool = DOMAIN Defaults(Firmware[fw])
    /\ \A id \in DOMAIN pool :
          /\ pool[id].access = Defaults(Firmware[fw])[id].access
          /\ pool[id].value.type = Defaults(Firmware[fw])[id].value.type
          /\ pool[id].value \in Value
    /\ dirty \in BOOLEAN
    /\ phase \in {"top", "tc", "apply"}
    /\ phase # "apply" => todo = <<>> /\ batch = <<>>

(* "No write here can fail": at every point of pass two the remaining      *)
(* items name read-write parameters of the live pool with values of their  *)
(* types, so the discarded return codes hide no failure.                   *)
NoSetCanFail ==
    phase = "apply" => \A k \in DOMAIN todo : SetOk(pool, todo[k].id, todo[k].value)

(* "All-or-nothing ... the last value wins": no write of an accepted set   *)
(* can fail, and it ends with the last value of each parameter it names,   *)
(* and with every other parameter as it was.                               *)
AllOrNothing ==
    /\ NoSetCanFail
    /\ (phase = "apply" /\ todo = <<>>) =>
           \A id \in DOMAIN pool :
               pool[id] = IF id \in Named
                            THEN [before[id] EXCEPT !.value = Decode(@.type, LastBytes(id))]
                            ELSE before[id]

(* Whenever the loop sees no change, a power cycle into the same firmware  *)
(* changes nothing: save and restore are inverse through the codec, also   *)
(* for a record left by a firmware with other parameters or other types,   *)
(* one at which the restore gave up midway included.                       *)
CleanMeansSaved == ~dirty => Booted(fw, flash) = pool

(* Ground reads back the bytes it set: through decoding, the pool, the     *)
(* record on flash, a reboot and even an update to a firmware that still   *)
(* has the parameter, a report carries the bytes of the last set.          *)
ReadYourWrites ==
    \A k \in DOMAIN report :
        report[k].id \in DOMAIN ground => report[k].bytes = ground[report[k].id]

(* "Firmware-identity values surfaced through the read-only datapool       *)
(* parameters": a read-only parameter has the value the running firmware   *)
(* declares for it.                                                        *)
IdentityIsRunning ==
    \A id \in DOMAIN pool : pool[id].access = "RO" => pool[id] = Defaults(Firmware[fw])[id]
============================================================================
