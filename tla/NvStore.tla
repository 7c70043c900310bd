------------------------------ MODULE NvStore ------------------------------
(***************************************************************************)
(* The A/B record store of lib/nvstore on top of a flash device.           *)
(*                                                                         *)
(* The store keeps one RAM payload (at most one record per type) and       *)
(* writes it as one complete image, alternating between flash sectors, so  *)
(* that a power loss at any instant leaves an image to come back to.       *)
(*                                                                         *)
(* A sector is abstracted to what migris_nvstore_load tells apart: whether *)
(* its header parses, the sequence number in it, whether the CRC matches,  *)
(* and the payload.  save() is three steps of the program counter `pc`,    *)
(* because power can be lost, or the backend can fail, inside the erase    *)
(* and inside the write.                                                   *)
(***************************************************************************)
EXTENDS Naturals, FiniteSets, Functions

CONSTANTS
    RecordTypes,    \* MIGRIS_NVSTORE_RECORD_*
    Values,         \* serialised subsystem states
    RecordLen,      \* length in bytes of each serialised state
    PayloadMax,     \* MIGRIS_NVSTORE_PAYLOAD_MAX
    Absent,         \* "no record of this type"
    NoImage,        \* "no valid image on flash"
    SectorCount,    \* backend.sector_count
    SeqMod,         \* 2^32 in the code: loaded_seq is a uint32_t
    MaxSeq,         \* bound: the highest sequence number a save is tried with
    ReadFaults,     \* may backend.read fail?
    BackendFaults   \* may backend.erase and backend.write fail?

(* backend_ok() admits any geometry of two or more sectors. *)
ASSUME GeometryAssumption == SectorCount \in Nat /\ SectorCount >= 2
ASSUME SeqAssumption      == SeqMod \in Nat /\ MaxSeq \in Nat /\ 1 < SeqMod /\ MaxSeq <= SeqMod
ASSUME FaultAssumption    == ReadFaults \in BOOLEAN /\ BackendFaults \in BOOLEAN
ASSUME ValueAssumption    == Absent \notin Values
ASSUME LenAssumption      == RecordLen \in [Values -> Nat] /\ PayloadMax \in Nat

RECORD_OVERHEAD == 3
Sectors == 0 .. SectorCount - 1
AB      == {0, 1}                  \* the only two sectors load() ever reads
Seqs    == 0 .. SeqMod - 1
Payload == [RecordTypes -> Values \cup {Absent}]
Empty   == [t \in RecordTypes |-> Absent]

ASSUME NoImageAssumption == NoImage \notin Payload

(* What a sector can hold. A header that does not parse (erased flash,     *)
(* foreign magic, other format version) makes the rest unreadable.         *)
SectorState == [header : BOOLEAN, seq : Seqs, crc : BOOLEAN, payload : Payload]
Blank       == [header |-> FALSE, seq |-> 0, crc |-> FALSE, payload |-> Empty]
Torn(s)     == [header |-> TRUE, seq |-> s, crc |-> FALSE, payload |-> Empty]
Image(s, p) == [header |-> TRUE, seq |-> s, crc |-> TRUE, payload |-> p]
Damaged     == {Blank} \cup {Torn(s) : s \in Seqs}

VARIABLES
    flash,          \* contents of every sector
    payload,        \* store->payload
    loaded,         \* store->loaded
    loaded_seq,     \* store->loaded_seq
    loaded_sector,  \* store->loaded_sector
    pc,             \* "off", "idle", or the flash operation save() is in
    acked,          \* history: the image the store last promised
    attempts        \* history: payloads handed to save() since that promise

store == <<payload, loaded, loaded_seq, loaded_sector>>
vars  == <<flash, payload, loaded, loaded_seq, loaded_sector, pc, acked, attempts>>

----------------------------------------------------------------------------
(* Pure parts of the store.                                                *)

(* A record counts its bytes and its type/length prefix. *)
PayloadLen(p) ==
    SumFunctionOnSet([t \in RecordTypes |->
        IF p[t] = Absent THEN 0 ELSE RECORD_OVERHEAD + RecordLen[p[t]]], RecordTypes)

(* put() drops the old record of the type before it looks whether the new  *)
(* one fits, so ERR_FULL leaves the payload without either.                *)
Drop(p, t)    == [p EXCEPT ![t] = Absent]
Fits(p, t, v) == PayloadLen(Drop(p, t)) + RECORD_OVERHEAD + RecordLen[v] <= PayloadMax
AfterPut(p, t, v) == IF Fits(p, t, v) THEN [p EXCEPT ![t] = v] ELSE Drop(p, t)

(* Mutant: load() prefers the lower sequence number. *)
FirstLowest(f, valid) ==
    IF valid[1] /\ (~valid[0] \/ f[1].seq < f[0].seq) THEN 1 ELSE 0

(* Order of attempts in load(): the higher sequence number first, the      *)
(* lower index on a tie.                                                   *)
First(f, valid) ==
    IF valid[1] /\ (~valid[0] \/ f[1].seq > f[0].seq) THEN 1 ELSE 0

(* nvstore_try_load_sector(): body[i] says whether its reads succeed. *)
TryLoad(f, body, i) == body[i] /\ f[i].header /\ f[i].crc

LoadedFrom(f, i) == [loaded |-> TRUE, seq |-> f[i].seq, sector |-> i, payload |-> f[i].payload]

LoadedNothing == [loaded |-> FALSE, seq |-> 0, sector |-> 0, payload |-> Empty]

(* The header pass of load(): hdr[i] says whether its read succeeds. *)
ValidHeaders(f, hdr) == [i \in AB |-> hdr[i] /\ f[i].header]

(* The whole of load(): the preferred sector, the other one, or nothing. *)
LoadOutcome(f, hdr, body) ==
    LET valid  == ValidHeaders(f, hdr)
        first  == First(f, valid)
        second == 1 - first
    IN  IF valid[first] /\ TryLoad(f, body, first) THEN LoadedFrom(f, first)
        ELSE IF valid[second] /\ TryLoad(f, body, second) THEN LoadedFrom(f, second)
        ELSE LoadedNothing

AllReadable == [i \in AB |-> TRUE]

(* What a reboot whose reads all succeed would restore from flash. *)
Recoverable ==
    LET out == LoadOutcome(flash, AllReadable, AllReadable)
    IN  IF out.loaded THEN out.payload ELSE NoImage

(* Mutant: the live sector is reused. *)
SaveTargetInPlace == loaded_sector

SaveTarget == IF loaded THEN (loaded_sector + 1) % SectorCount ELSE 0
NewSeq     == (loaded_seq + 1) % SeqMod

----------------------------------------------------------------------------
Init ==
    /\ flash = [i \in Sectors |-> Blank]
    /\ payload = Empty /\ loaded = FALSE /\ loaded_seq = 0 /\ loaded_sector = 0
    /\ pc = "off"
    /\ acked = NoImage
    /\ attempts = {}

ReadOutcomes == IF ReadFaults THEN [AB -> BOOLEAN] ELSE {AllReadable}

(* Boot: init() then load().  What is now promised is what is on flash. *)
Load ==
    /\ pc = "off"
    /\ \E hdr, body \in ReadOutcomes :
         LET out == LoadOutcome(flash, hdr, body)
         IN  /\ payload' = out.payload
             /\ loaded' = out.loaded
             /\ loaded_seq' = out.seq
             /\ loaded_sector' = out.sector
    /\ pc' = "idle"
    /\ acked' = Recoverable
    /\ attempts' = {}
    /\ UNCHANGED flash

Put(t, v) ==
    /\ pc = "idle"
    /\ payload' = AfterPut(payload, t, v)
    /\ UNCHANGED <<flash, loaded, loaded_seq, loaded_sector, pc, acked, attempts>>

(* save(): build the image, enter backend.erase. *)
SaveBegin ==
    /\ pc = "idle"
    /\ loaded_seq < MaxSeq
    /\ pc' = "erasing"
    /\ attempts' = attempts \cup {payload}
    /\ UNCHANGED <<flash, store, acked>>

EraseDone ==
    /\ pc = "erasing"
    /\ flash' = [flash EXCEPT ![SaveTarget] = Blank]
    /\ pc' = "writing"
    /\ UNCHANGED <<store, acked, attempts>>

(* backend.erase returned an error: the sector is as it was, or damaged. *)
EraseError ==
    /\ pc = "erasing"
    /\ BackendFaults
    /\ \E d \in Damaged \cup {flash[SaveTarget]} : flash' = [flash EXCEPT ![SaveTarget] = d]
    /\ pc' = "idle"
    /\ UNCHANGED <<store, acked, attempts>>

WriteDone ==
    /\ pc = "writing"
    /\ flash' = [flash EXCEPT ![SaveTarget] = Image(NewSeq, payload)]
    /\ loaded_seq' = NewSeq
    /\ loaded_sector' = SaveTarget
    /\ loaded' = TRUE
    /\ pc' = "idle"
    /\ acked' = payload
    /\ attempts' = {}
    /\ UNCHANGED payload

(* Mutant: the error path still switches to the new sector. *)
WriteErrorSwitches ==
    /\ pc = "writing"
    /\ BackendFaults
    /\ \E d \in Damaged \cup {Image(NewSeq, payload)} :
           flash' = [flash EXCEPT ![SaveTarget] = d]
    /\ loaded' = TRUE /\ loaded_seq' = NewSeq /\ loaded_sector' = SaveTarget
    /\ pc' = "idle"
    /\ UNCHANGED <<payload, acked, attempts>>

(* backend.write returned an error: nothing, a prefix, or (an error raised *)
(* after the last byte) everything is on flash; the store is unchanged.    *)
WriteError ==
    /\ pc = "writing"
    /\ BackendFaults
    /\ \E d \in Damaged \cup {Image(NewSeq, payload)} :
           flash' = [flash EXCEPT ![SaveTarget] = d]
    /\ pc' = "idle"
    /\ UNCHANGED <<store, acked, attempts>>

(* Power can be lost at any point; the sector being erased or written then *)
(* holds anything the interrupted operation can leave.                     *)
Interrupted ==
    CASE pc = "erasing" -> Damaged \cup {flash[SaveTarget]}
      [] pc = "writing" -> Damaged \cup {Image(NewSeq, payload)}
      [] OTHER          -> {flash[SaveTarget]}

PowerLoss ==
    /\ pc # "off"
    /\ \E d \in Interrupted : flash' = [flash EXCEPT ![SaveTarget] = d]
    /\ pc' = "off"
    /\ payload' = Empty /\ loaded' = FALSE /\ loaded_seq' = 0 /\ loaded_sector' = 0
    /\ UNCHANGED <<acked, attempts>>

Next ==
    \/ Load
    \/ \E t \in RecordTypes, v \in Values : Put(t, v)
    \/ SaveBegin
    \/ EraseDone
    \/ EraseError
    \/ WriteDone
    \/ WriteError
    \/ PowerLoss

Spec == Init /\ [][Next]_vars

----------------------------------------------------------------------------
(* Sectors hold parsed headers or damage, and the store's idea of the live  *)
(* sector is always a sector of the device.                                 *)
TypeOK ==
    /\ flash \in [Sectors -> SectorState]
    /\ payload \in Payload
    /\ loaded \in BOOLEAN
    /\ loaded_seq \in Seqs
    /\ loaded_sector \in Sectors
    /\ pc \in {"off", "idle", "erasing", "writing"}
    /\ acked \in Payload \cup {NoImage}
    /\ attempts \in SUBSET Payload

(* Power safety, the reason for the A/B pair: whenever power is lost - in  *)
(* the middle of an erase or of a write, after any number of failed saves  *)
(* and reboots - load() brings back the image the last successful save or  *)
(* load promised, or one save() was asked to write since; never an older   *)
(* image, never nothing, never a mixture.                                  *)
PowerSafe == Recoverable \in {acked} \cup attempts

(* Restart transparency: what the running store believes about flash (the  *)
(* sector and sequence number save() will build on) is what a reboot would *)
(* find, unless a failed save left a newer image in the spare sector.      *)
BeliefMatchesFlash ==
    (pc = "idle" /\ loaded) =>
        LET out == LoadOutcome(flash, AllReadable, AllReadable)
        IN  /\ TryLoad(flash, AllReadable, loaded_sector)
            /\ flash[loaded_sector].seq = loaded_seq
            /\ out.sector # loaded_sector => out.payload \in attempts

----------------------------------------------------------------------------
(* What the store promises, without sectors or sequence numbers. *)
Durable == INSTANCE DurableImage WITH image <- Recoverable

(* The two-sector store implements the atomic durable image. *)
Refines == Durable!Spec

============================================================================
