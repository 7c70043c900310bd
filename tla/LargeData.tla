----------------------------- MODULE LargeData ------------------------------
(***************************************************************************)
(* The large-data downlink (lib/largedata, lib/pus/src/pus13.c): a session *)
(* cuts a data unit into part packets, one per iteration of the main loop, *)
(* composed with the other telemetry of the application process (Router),  *)
(* with which the parts share the sequence count and the output buffer.    *)
(*                                                                         *)
(* The bytes of a unit are its positions; a part carries a range of them.  *)
(* The ground's collection of parts is a history variable.                 *)
(***************************************************************************)
EXTENDS Router

CONSTANTS
    PartSize,       \* MIGRIS_PUS13_PART_SIZE
    UnitMax,        \* MIGRIS_LARGEDATA_UNIT_MAX
    PartMod,        \* 2^16: part numbers are a uint16_t
    Transactions,   \* transaction identifiers the application uses
    UnitLens,       \* lengths of the units it hands over
    PartBuffers     \* sizes of the buffers it hands to next_part

(* Secondary header, part header and checksum around a part's payload. *)
PART_OVERHEAD == 24

(* Ceiling division. *)
PartsOf(len) == ((len + PartSize - 1) \div PartSize) % PartMod

ASSUME LargeDataAssumption ==
    /\ PartSize \in Nat \ {0} /\ UnitMax \in Nat /\ PartMod \in Nat \ {0}
    /\ UnitLens \subseteq Nat /\ PartBuffers \subseteq Nat
    /\ UnitMax <= PartSize * (PartMod - 1)   \* the part count fits its field

VARIABLES
    session,    \* migris_largedata_session_t
    parts       \* history: the parts of the latest transfer, as received

lvars == <<rvars, session, parts>>

Idle == [state |-> "IDLE", unit_len |-> 0, cursor |-> 0, transaction_id |-> 0,
         next_part |-> 0, total_parts |-> 0]

(* pus13_subtype_for *)
SubtypeFor(number, total) ==
    IF number = total - 1 THEN "13,3" ELSE IF number = 0 THEN "13,1" ELSE "13,2"

----------------------------------------------------------------------------
LInit == RInit /\ session = Idle /\ parts = <<>>

(* Mutant: a new unit replaces the one being sent. *)
StartableAnytime(len) == len # 0 /\ len <= UnitMax

Startable(len) == len # 0 /\ session.state = "IDLE" /\ len <= UnitMax

(* migris_largedata_start *)
Start(id, len) ==
    /\ IF Startable(len)
         THEN /\ session' = [state |-> "ACTIVE", unit_len |-> len, cursor |-> 0,
                             transaction_id |-> id, next_part |-> 0, total_parts |-> PartsOf(len)]
              /\ parts' = IF session.state = "IDLE" THEN <<>> ELSE parts
         ELSE UNCHANGED <<session, parts>>
    /\ UNCHANGED rvars

(* Mutant: every part is a full one. *)
ChunkFull == PartSize

(* At most one part size of the remainder. *)
Chunk ==
    IF session.unit_len - session.cursor > PartSize THEN PartSize
    ELSE session.unit_len - session.cursor

Subtype == SubtypeFor(session.next_part, session.total_parts)

(* migris_pus13_build_part into a buffer of the given size. *)
BuildPart(cap) ==
    IF session.next_part >= session.total_parts \/ Chunk = 0 THEN Writing("0")
    ELSE Build([Writing("0") EXCEPT !.room = cap], Subtype, Subtype, PART_OVERHEAD + Chunk)

Part ==
    [transaction_id |-> session.transaction_id, number |-> session.next_part,
     total |-> session.total_parts, subtype |-> Subtype,
     from |-> session.cursor, upto |-> session.cursor + Chunk]

(* migris_largedata_next_part and the transmission of the part; a part     *)
(* that does not fit the buffer leaves the session as it is.               *)
NextPart(cap) ==
    /\ session.state = "ACTIVE"
    /\ Report(BuildPart(cap))
    /\ IF BuildPart(cap).out = <<>> THEN UNCHANGED <<session, parts>>
       ELSE /\ session' = [session EXCEPT
                  !.cursor = @ + Chunk,
                  !.next_part = (@ + 1) % PartMod,
                  !.state = IF (session.next_part + 1) % PartMod >= session.total_parts
                              THEN "IDLE" ELSE @]
            /\ parts' = Append(parts, Part)

(* Everything else the loop sends. *)
OtherTelemetry == RNext /\ UNCHANGED <<session, parts>>

LNext ==
    \/ \E id \in Transactions, len \in UnitLens : Start(id, len)
    \/ \E cap \in PartBuffers : NextPart(cap)
    \/ OtherTelemetry

LSpec == LInit /\ [][LNext]_lvars

----------------------------------------------------------------------------
(* The session never points past its unit: the borrowed pointer is read    *)
(* only inside the buffer the application handed over.                     *)
LTypeOK ==
    /\ RTypeOK
    /\ session.state \in {"IDLE", "ACTIVE"}
    /\ session.unit_len \in 0 .. UnitMax
    /\ session.cursor \in 0 .. session.unit_len
    /\ session.total_parts \in 0 .. PartMod - 1
    /\ session.next_part \in 0 .. session.total_parts
    /\ session.state = "ACTIVE" => Chunk \in 1 .. PartSize

(* The ground's rules of docs/wire/pus-13.md: parts of one transaction     *)
(* that agree on the total are complete when every number has come once,   *)
(* and the unit is the payloads in the order of their numbers.             *)
Agree      == \A k \in DOMAIN parts :
                  /\ parts[k].transaction_id = session.transaction_id
                  /\ parts[k].total = session.total_parts
Complete   == /\ parts # <<>>
              /\ Len(parts) = parts[1].total
              /\ {parts[k].number : k \in DOMAIN parts} = 0 .. parts[1].total - 1
PartNumber(n) == CHOOSE p \in {parts[k] : k \in DOMAIN parts} : p.number = n
Contiguous == \A n \in 0 .. Len(parts) - 1 :
                  PartNumber(n).from = IF n = 0 THEN 0 ELSE PartNumber(n - 1).upto

(* The labels delimit a transfer: one last part, the final one, and a      *)
(* first part only in front of others.                                     *)
Delimited ==
    \A k \in DOMAIN parts :
        /\ (parts[k].subtype = "13,3") = (k = parts[k].total)
        /\ (parts[k].subtype = "13,1") = (k = 1 /\ parts[k].total > 1)

(* Whatever telecommands, refused starts and parts that did not fit come   *)
(* in between, ground has the whole unit exactly when the session is over, *)
(* and sees from the labels where it begins and ends.                      *)
Reassembled ==
    parts # <<>> =>
        /\ Agree /\ Delimited
        /\ Complete <=> session.state = "IDLE"
        /\ Complete => Contiguous /\ PartNumber(Len(parts) - 1).upto = session.unit_len
============================================================================
