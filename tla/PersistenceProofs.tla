------------------------- MODULE PersistenceProofs -------------------------
(***************************************************************************)
(* Proofs about the A/B record store and the loop that saves into it.      *)
(*                                                                         *)
(* The store: type correctness for every geometry, and power safety and    *)
(* the refinement of DurableImage for the two-sector geometry, with reads  *)
(* that succeed and sequence numbers that do not wrap.                     *)
(*                                                                         *)
(* The loop uses the store only through its operations, so what is proved  *)
(* about the store holds in the loop; and what the loop takes for saved is *)
(* in the RAM image, for every set of subsystems, record sizes and buffer  *)
(* sizes.                                                                  *)
(***************************************************************************)
EXTENDS Autosave, TLAPS

----------------------------------------------------------------------------
(* The record store *)

(* Sector i holds an image load() would accept. *)
GoodIn(f, i) == f[i].header /\ f[i].crc
Good(i)      == GoodIn(flash, i)

(* The spare sector of the pair. *)
Spare == 1 - loaded_sector

(* While the store runs on a loaded image, that image is intact and is the *)
(* acknowledged one; the spare sector holds something older, or something  *)
(* a failed save wrote with the next sequence number.                      *)
LoadedInv ==
    (pc # "off" /\ loaded) =>
        /\ Good(loaded_sector)
        /\ flash[loaded_sector].seq = loaded_seq
        /\ flash[loaded_sector].payload = acked
        /\ Good(Spare) => \/ flash[Spare].seq < loaded_seq
                          \/ /\ flash[Spare].seq = loaded_seq + 1
                             /\ flash[Spare].payload \in attempts

(* While it runs on nothing, nothing was promised, and only sector 0 can   *)
(* hold an image, left by a save that reported failure.                    *)
UnloadedInv ==
    (pc # "off" /\ ~loaded) =>
        /\ acked = NoImage
        /\ loaded_seq = 0
        /\ ~Good(1)
        /\ Good(0) => flash[0].payload \in attempts

(* Between the erase and the write the target is blank, and the payload    *)
(* being written is one of the attempts.                                   *)
SavingInv ==
    /\ pc \in {"erasing", "writing"} => payload \in attempts /\ loaded_seq < MaxSeq
    /\ pc = "writing" => flash[SaveTarget] = Blank

(* Powered off, two images never carry the same sequence number and the    *)
(* one load() prefers is a promised or attempted one.                      *)
OffInv ==
    pc = "off" =>
        /\ Good(0) /\ Good(1) => flash[0].seq # flash[1].seq
        /\ Recoverable \in {acked} \cup attempts

IInv == TypeOK /\ LoadedInv /\ UnloadedInv /\ SavingInv /\ OffInv

----------------------------------------------------------------------------
(* load() with reads that all succeed, case by case: a sector counts iff   *)
(* it is intact, and the higher sequence number wins.                      *)
LEMMA LoadCases ==
    ASSUME SectorCount = 2, NEW f \in [Sectors -> SectorState]
    PROVE  LoadOutcome(f, AllReadable, AllReadable) =
             IF GoodIn(f, 1) /\ (~GoodIn(f, 0) \/ f[1].seq > f[0].seq) THEN LoadedFrom(f, 1)
             ELSE IF GoodIn(f, 0) THEN LoadedFrom(f, 0)
             ELSE LoadedNothing
  <1> DEFINE valid == ValidHeaders(f, AllReadable)
             first == First(f, valid)
  <1>1. /\ 0 \in AB /\ 1 \in AB /\ 0 \in Sectors /\ 1 \in Sectors
        /\ AllReadable[0] /\ AllReadable[1]
    BY DEF AB, Sectors, AllReadable
  <1>2. /\ valid[0] = (AllReadable[0] /\ f[0].header)
        /\ valid[1] = (AllReadable[1] /\ f[1].header)
    BY <1>1 DEF ValidHeaders
  <1>3. \A i \in AB : f[i].header \in BOOLEAN /\ f[i].crc \in BOOLEAN /\ f[i].seq \in Nat
    BY <1>1 DEF AB, SectorState, Seqs
  <1>4. \A i \in AB : TryLoad(f, AllReadable, i) = GoodIn(f, i)
    BY <1>1, <1>3, Zenon DEF TryLoad, GoodIn, AB
  <1>5. \A i \in AB : valid[i] /\ TryLoad(f, AllReadable, i) <=> GoodIn(f, i)
    BY <1>1, <1>2, <1>3, <1>4 DEF AB, GoodIn
  <1>6. first = 1 \/ first = 0
    BY DEF First
  <1>7. QED
    BY <1>1, <1>2, <1>3, <1>5, <1>6 DEF LoadOutcome, First, GoodIn

(* The payload a reboot restores from sectors f, or NoImage. *)
Best(f) == IF GoodIn(f, 1) /\ (~GoodIn(f, 0) \/ f[1].seq > f[0].seq) THEN f[1].payload
           ELSE IF GoodIn(f, 0) THEN f[0].payload ELSE NoImage

(* The same case split for what a reboot restores. *)
LEMMA RecoverableCases ==
    ASSUME SectorCount = 2
    PROVE  /\ TypeOK => Recoverable = Best(flash)
           /\ TypeOK' => Recoverable' = Best(flash')
  <1>1. ASSUME NEW f \in [Sectors -> SectorState]
        PROVE  Best(f) = IF LoadOutcome(f, AllReadable, AllReadable).loaded
                         THEN LoadOutcome(f, AllReadable, AllReadable).payload ELSE NoImage
    BY LoadCases DEF Best, LoadedFrom, LoadedNothing
  <1>2. QED
    BY <1>1 DEF TypeOK, Recoverable, AllReadable

----------------------------------------------------------------------------
(* Facts about the definitions the model is built from. *)
LEMMA SectorTypes ==
    /\ Empty \in Payload
    /\ Blank \in SectorState
    /\ Damaged \subseteq SectorState
    /\ \A s \in Seqs, p \in Payload : Image(s, p) \in SectorState
    /\ 0 \in Seqs /\ 0 \in Sectors /\ 1 \in Sectors
    /\ AB \subseteq Sectors
  <1>1. Empty \in Payload
    BY DEF Empty, Payload
  <1>2. 0 \in Seqs /\ 0 \in Sectors /\ 1 \in Sectors /\ AB \subseteq Sectors
    BY SeqAssumption, GeometryAssumption DEF Seqs, Sectors, AB
  <1>3. Blank \in SectorState
    BY <1>1, <1>2 DEF Blank, SectorState
  <1>4. \A s \in Seqs : Torn(s) \in SectorState
    BY <1>1 DEF Torn, SectorState
  <1>5. \A s \in Seqs, p \in Payload : Image(s, p) \in SectorState
    BY DEF Image, SectorState
  <1>6. QED
    BY <1>1, <1>2, <1>3, <1>4, <1>5 DEF Damaged

(* put() leaves a payload, whether the record fits or not. *)
LEMMA PutType ==
    ASSUME NEW p \in Payload, NEW t \in RecordTypes, NEW v \in Values
    PROVE  AfterPut(p, t, v) \in Payload
  <1>1. [p EXCEPT ![t] = v] \in Payload /\ Drop(p, t) \in Payload
    BY DEF Payload, Drop
  <1>2. QED
    BY <1>1 DEF AfterPut

(* save() aims at a sector of the device, with a sequence number in range. *)
LEMMA TargetType ==
    ASSUME TypeOK
    PROVE  SaveTarget \in Sectors /\ NewSeq \in Seqs
  <1>1. (loaded_sector + 1) % SectorCount \in Sectors
    BY GeometryAssumption DEF TypeOK, Sectors
  <1>2. NewSeq \in Seqs
    BY SeqAssumption DEF TypeOK, NewSeq, Seqs
  <1>3. QED
    BY <1>1, <1>2, SectorTypes DEF SaveTarget

(* load() leaves a well-formed store, whatever its reads return. *)
LEMMA LoadType ==
    ASSUME TypeOK, NEW hdr \in ReadOutcomes, NEW body \in ReadOutcomes
    PROVE  /\ LoadOutcome(flash, hdr, body).payload \in Payload
           /\ LoadOutcome(flash, hdr, body).loaded \in BOOLEAN
           /\ LoadOutcome(flash, hdr, body).seq \in Seqs
           /\ LoadOutcome(flash, hdr, body).sector \in Sectors
  <1> DEFINE out == LoadOutcome(flash, hdr, body)
             first == First(flash, ValidHeaders(flash, hdr))
  <1>1. first \in AB /\ 1 - first \in AB
    BY DEF First, AB
  <1>2. \/ out = LoadedFrom(flash, first)
        \/ out = LoadedFrom(flash, 1 - first)
        \/ out = LoadedNothing
    BY DEF LoadOutcome
  <1>3. \A i \in AB : /\ flash[i].seq \in Seqs
                      /\ flash[i].payload \in Payload
                      /\ i \in Sectors
    BY SectorTypes DEF TypeOK, SectorState
  <1>4. ASSUME NEW i \in AB
        PROVE  /\ LoadedFrom(flash, i).payload \in Payload
               /\ LoadedFrom(flash, i).loaded \in BOOLEAN
               /\ LoadedFrom(flash, i).seq \in Seqs
               /\ LoadedFrom(flash, i).sector \in Sectors
    BY <1>3 DEF LoadedFrom
  <1>5. /\ LoadedNothing.payload \in Payload
        /\ LoadedNothing.loaded \in BOOLEAN
        /\ LoadedNothing.seq \in Seqs
        /\ LoadedNothing.sector \in Sectors
    BY SectorTypes DEF LoadedNothing
  <1>6. QED
    BY <1>1, <1>2, <1>4, <1>5, Zenon

(* A reboot restores a payload or nothing. *)
LEMMA RecoverableType ==
    ASSUME TypeOK
    PROVE  Recoverable \in Payload \cup {NoImage}
  <1>1. /\ \A i \in AB : flash[i].payload \in Payload
        /\ LoadedNothing.loaded = FALSE
        /\ \A i \in AB : LoadedFrom(flash, i).payload = flash[i].payload
    BY SectorTypes DEF TypeOK, SectorState, LoadedFrom, LoadedNothing
  <1> DEFINE out   == LoadOutcome(flash, AllReadable, AllReadable)
             first == First(flash, ValidHeaders(flash, AllReadable))
  <1>2. first \in AB /\ 1 - first \in AB
    BY DEF First, AB
  <1>3. \/ out = LoadedFrom(flash, first)
        \/ out = LoadedFrom(flash, 1 - first)
        \/ out = LoadedNothing
    BY DEF LoadOutcome
  <1>4. QED
    BY <1>1, <1>2, <1>3 DEF Recoverable

----------------------------------------------------------------------------
(* Every step of the store, failed or interrupted ones included, keeps its  *)
(* indices and counters in range.                                           *)
LEMMA TypeStep ==
    ASSUME TypeOK, [Next]_vars
    PROVE  TypeOK'
  <1>1. CASE Load
    <2>1. PICK hdr \in ReadOutcomes, body \in ReadOutcomes :
            /\ payload' = LoadOutcome(flash, hdr, body).payload
            /\ loaded' = LoadOutcome(flash, hdr, body).loaded
            /\ loaded_seq' = LoadOutcome(flash, hdr, body).seq
            /\ loaded_sector' = LoadOutcome(flash, hdr, body).sector
      BY <1>1, Zenon DEF Load
    <2>2. pc' = "idle" /\ acked' = Recoverable /\ attempts' = {} /\ flash' = flash
      BY <1>1 DEF Load
    <2>3. QED
      BY <2>1, <2>2, LoadType, RecoverableType DEF TypeOK
  <1>2. ASSUME NEW t \in RecordTypes, NEW v \in Values, Put(t, v)
        PROVE  TypeOK'
    BY <1>2, PutType DEF Put, TypeOK
  <1>3. CASE SaveBegin
    BY <1>3 DEF SaveBegin, TypeOK, store
  <1>4. CASE EraseDone
    BY <1>4, SectorTypes DEF EraseDone, TypeOK, store
  <1>5. CASE EraseError
    BY <1>5, SectorTypes, TargetType DEF EraseError, TypeOK, store
  <1>6. CASE WriteDone
    BY <1>6, SectorTypes, TargetType DEF WriteDone, TypeOK
  <1>7. CASE WriteError
    BY <1>7, SectorTypes, TargetType DEF WriteError, TypeOK, store
  <1>8. CASE PowerLoss
    <2>1. Interrupted \subseteq SectorState
      BY SectorTypes, TargetType DEF Interrupted, TypeOK
    <2>2. QED
      BY <1>8, <2>1, SectorTypes, TargetType DEF PowerLoss, TypeOK
  <1>9. CASE UNCHANGED vars
    BY <1>9 DEF vars, TypeOK
  <1>10. QED
    BY <1>1, <1>2, <1>3, <1>4, <1>5, <1>6, <1>7, <1>8, <1>9 DEF Next

(* Type correctness, for every geometry, fault model and record sizes: no  *)
(* sequence of loads, puts, saves, failures and power losses takes the     *)
(* store's indices and counters out of range.                              *)
THEOREM TypeCorrect == Spec => []TypeOK
  <1>1. Init => TypeOK
    BY SectorTypes DEF Init, TypeOK
  <1>2. TypeOK /\ [Next]_vars => TypeOK'
    BY TypeStep
  <1>3. QED
    BY <1>1, <1>2, PTL DEF Spec

----------------------------------------------------------------------------
(* Power safety of the running store follows from the invariant. *)
LEMMA RunningSafe ==
    ASSUME SectorCount = 2, TypeOK, LoadedInv, UnloadedInv, pc # "off"
    PROVE  Recoverable \in {acked} \cup attempts
  <1>1. /\ loaded_sector \in {0, 1} /\ loaded \in BOOLEAN
        /\ flash[0].seq \in Nat /\ flash[1].seq \in Nat /\ loaded_seq \in Nat
    BY SectorTypes DEF TypeOK, Sectors, SectorState, Seqs
  <1>2. Recoverable = Best(flash)
    BY RecoverableCases
  <1>3. CASE loaded
    BY <1>1, <1>2, <1>3 DEF LoadedInv, Spare, Best, Good
  <1>4. CASE ~loaded
    BY <1>1, <1>2, <1>4 DEF UnloadedInv, Best, Good
  <1>5. QED
    BY <1>1, <1>3, <1>4

(* No image the store recovers from is ever at risk in the sector a save   *)
(* works on: replacing the target by anything load() rejects, or by the    *)
(* image being written, keeps the running-store invariants.                *)
LEMMA TargetWrite ==
    ASSUME SectorCount = 2, MaxSeq < SeqMod, TypeOK, LoadedInv, UnloadedInv,
           pc # "off", pc' # "off", payload \in attempts, loaded_seq < MaxSeq,
           NEW d \in Damaged \cup {Image(NewSeq, payload), flash[SaveTarget]},
           flash' = [flash EXCEPT ![SaveTarget] = d],
           UNCHANGED <<loaded, loaded_seq, loaded_sector, acked, attempts>>
    PROVE  LoadedInv' /\ UnloadedInv'
  <1>1. /\ loaded_sector \in {0, 1} /\ loaded \in BOOLEAN /\ loaded_seq \in Nat
        /\ flash \in [{0, 1} -> SectorState]
        /\ NewSeq = loaded_seq + 1
    BY SeqAssumption DEF TypeOK, Sectors, Seqs, NewSeq
  <1>2. \/ ~(d.header /\ d.crc)
        \/ d.header /\ d.crc /\ d.seq = loaded_seq + 1 /\ d.payload \in attempts
        \/ d = flash[SaveTarget]
    BY <1>1 DEF Damaged, Blank, Torn, Image
  <1>3. CASE loaded
    <2>1. SaveTarget = 1 - loaded_sector /\ SaveTarget \in {0, 1} /\ SaveTarget # loaded_sector
      BY <1>1, <1>3 DEF SaveTarget
    <2>2. flash'[loaded_sector] = flash[loaded_sector] /\ flash'[SaveTarget] = d
      BY <1>1, <2>1
    <2>3. QED
      BY <1>1, <1>2, <1>3, <2>1, <2>2 DEF LoadedInv, UnloadedInv, Good, GoodIn, Spare
  <1>4. CASE ~loaded
    <2>1. SaveTarget = 0
      BY <1>4 DEF SaveTarget
    <2>2. flash'[1] = flash[1] /\ flash'[0] = d
      BY <1>1, <2>1
    <2>3. QED
      BY <1>1, <1>2, <1>4, <2>1, <2>2 DEF LoadedInv, UnloadedInv, Good, GoodIn
  <1>5. QED
    BY <1>1, <1>3, <1>4

(* The strengthened invariant is inductive on the code's own geometry.     *)
LEMMA Inductive ==
    ASSUME SectorCount = 2, ReadFaults = FALSE, MaxSeq < SeqMod,
           IInv, TypeOK', [Next]_vars
    PROVE  IInv'
  <1> USE DEF IInv
  <1>1. CASE Load
    <2> DEFINE out == LoadOutcome(flash, AllReadable, AllReadable)
    <2>1. /\ payload' = out.payload /\ loaded' = out.loaded
          /\ loaded_seq' = out.seq /\ loaded_sector' = out.sector
      BY <1>1, Zenon DEF Load, ReadOutcomes
    <2>2. pc = "off" /\ pc' = "idle" /\ flash' = flash /\ acked' = Recoverable /\ attempts' = {}
      BY <1>1 DEF Load
    <2>3. flash[0].seq \in Nat /\ flash[1].seq \in Nat
      BY SectorTypes DEF TypeOK, SectorState, Seqs
    <2>4. Good(0)' = Good(0) /\ Good(1)' = Good(1)
      BY <2>2 DEF Good, GoodIn
    <2>5. CASE Good(1) /\ (~Good(0) \/ flash[1].seq > flash[0].seq)
      <3>1. out = LoadedFrom(flash, 1)
        BY <2>5, LoadCases DEF TypeOK, Good
      <3>2. /\ loaded' = TRUE /\ loaded_sector' = 1 /\ loaded_seq' = flash[1].seq
            /\ acked' = flash[1].payload
        BY <2>1, <2>2, <3>1 DEF LoadedFrom, Recoverable
      <3>3. QED
        BY <2>2, <2>3, <2>4, <2>5, <3>2
           DEF LoadedInv, UnloadedInv, SavingInv, OffInv, Good, GoodIn, Spare
    <2>6. CASE Good(0) /\ ~(Good(1) /\ flash[1].seq > flash[0].seq)
      <3>1. out = LoadedFrom(flash, 0)
        BY <2>6, LoadCases DEF TypeOK, Good
      <3>2. /\ loaded' = TRUE /\ loaded_sector' = 0 /\ loaded_seq' = flash[0].seq
            /\ acked' = flash[0].payload
        BY <2>1, <2>2, <3>1 DEF LoadedFrom, Recoverable
      <3>3. QED
        BY <2>2, <2>3, <2>4, <2>6, <3>2
           DEF LoadedInv, UnloadedInv, SavingInv, OffInv, Good, GoodIn, Spare
    <2>7. CASE ~Good(0) /\ ~Good(1)
      <3>1. out = LoadedNothing
        BY <2>7, LoadCases DEF TypeOK, Good
      <3>2. loaded' = FALSE /\ loaded_seq' = 0 /\ acked' = NoImage
        BY <2>1, <2>2, <3>1 DEF LoadedNothing, Recoverable
      <3>3. QED
        BY <2>2, <2>4, <2>7, <3>2
           DEF LoadedInv, UnloadedInv, SavingInv, OffInv, Good, GoodIn
    <2>8. QED
      BY <2>5, <2>6, <2>7
  <1>2. ASSUME NEW t \in RecordTypes, NEW v \in Values, Put(t, v)
        PROVE  IInv'
    BY <1>2 DEF Put, LoadedInv, UnloadedInv, SavingInv, OffInv, Good, GoodIn, Spare
  <1>3. CASE SaveBegin
    BY <1>3 DEF SaveBegin, store, LoadedInv, UnloadedInv, SavingInv, OffInv, Good, GoodIn, Spare
  <1>4. CASE EraseDone
    <2>1. LoadedInv' /\ UnloadedInv'
      <3>1. Blank \in Damaged
        BY DEF Damaged
      <3>2. QED
        BY <1>4, <3>1, TargetWrite DEF EraseDone, store, SavingInv
    <2>2. SaveTarget' = SaveTarget
      BY <1>4 DEF EraseDone, store, SaveTarget
    <2>3. QED
      BY <1>4, <2>1, <2>2, TargetType DEF EraseDone, store, SavingInv, OffInv, TypeOK
  <1>5. CASE EraseError
    <2>1. LoadedInv' /\ UnloadedInv'
      BY <1>5, TargetWrite DEF EraseError, store, SavingInv
    <2>2. QED
      BY <1>5, <2>1 DEF EraseError, SavingInv, OffInv
  <1>6. CASE WriteDone
    <2>1. /\ loaded_sector \in {0, 1} /\ loaded \in BOOLEAN /\ loaded_seq \in Nat
          /\ flash \in [{0, 1} -> SectorState]
          /\ NewSeq = loaded_seq + 1
      BY <1>6, SeqAssumption DEF TypeOK, Sectors, Seqs, NewSeq, SavingInv, WriteDone
    <2>2. SaveTarget \in {0, 1} /\ (loaded => SaveTarget = 1 - loaded_sector) /\ (~loaded => SaveTarget = 0)
      BY <2>1 DEF SaveTarget
    <2>3. flash'[SaveTarget] = Image(NewSeq, payload) /\ flash'[1 - SaveTarget] = flash[1 - SaveTarget]
      BY <1>6, <2>1, <2>2 DEF WriteDone
    <2>4. LoadedInv'
      BY <1>6, <2>1, <2>2, <2>3 DEF WriteDone, LoadedInv, UnloadedInv, Good, GoodIn, Spare, Image
    <2>5. QED
      BY <1>6, <2>4 DEF WriteDone, UnloadedInv, SavingInv, OffInv
  <1>7. CASE WriteError
    <2>1. LoadedInv' /\ UnloadedInv'
      BY <1>7, TargetWrite DEF WriteError, store, SavingInv
    <2>2. QED
      BY <1>7, <2>1 DEF WriteError, SavingInv, OffInv
  <1>8. CASE PowerLoss
    <2>1. pc # "off" /\ pc' = "off" /\ acked' = acked /\ attempts' = attempts
      BY <1>8 DEF PowerLoss
    <2>2. PICK d \in Interrupted : flash' = [flash EXCEPT ![SaveTarget] = d]
      BY <1>8 DEF PowerLoss
    <2>3. /\ loaded_sector \in {0, 1} /\ loaded \in BOOLEAN /\ loaded_seq \in Nat
          /\ flash \in [{0, 1} -> SectorState] /\ flash' \in [{0, 1} -> SectorState]
          /\ flash[0].seq \in Nat /\ flash[1].seq \in Nat
      BY DEF TypeOK, Sectors, Seqs, SectorState
    <2>4. \/ ~(d.header /\ d.crc)
          \/ d.header /\ d.crc /\ d.seq = loaded_seq + 1 /\ d.payload \in attempts
          \/ d = flash[SaveTarget]
      <3>1. pc = "writing" => NewSeq = loaded_seq + 1 /\ payload \in attempts
        BY <2>3, SeqAssumption DEF NewSeq, SavingInv
      <3>2. QED
        BY <3>1 DEF Interrupted, Damaged, Blank, Torn, Image
    <2>5. SaveTarget \in {0, 1} /\ (loaded => SaveTarget = 1 - loaded_sector) /\ (~loaded => SaveTarget = 0)
      BY <2>3 DEF SaveTarget
    <2>6. flash'[SaveTarget] = d /\ flash'[1 - SaveTarget] = flash[1 - SaveTarget]
      BY <2>2, <2>3, <2>5
    <2>7. /\ GoodIn(flash', 0) /\ GoodIn(flash', 1) => flash'[0].seq # flash'[1].seq
          /\ Best(flash') \in {acked} \cup attempts
      <3>1. CASE loaded
        BY <2>1, <2>3, <2>4, <2>5, <2>6, <3>1 DEF LoadedInv, Good, GoodIn, Spare, Best
      <3>2. CASE ~loaded
        BY <2>1, <2>3, <2>4, <2>5, <2>6, <3>2 DEF UnloadedInv, Good, GoodIn, Best
      <3>3. QED
        BY <2>3, <3>1, <3>2
    <2>8. Recoverable' = Best(flash')
      BY RecoverableCases
    <2>9. OffInv'
      BY <2>1, <2>7, <2>8 DEF OffInv, Good
    <2>10. LoadedInv' /\ UnloadedInv' /\ SavingInv'
      BY <2>1 DEF LoadedInv, UnloadedInv, SavingInv
    <2>11. QED
      BY <2>9, <2>10
  <1>9. CASE UNCHANGED vars
    <2>1. Recoverable' = Recoverable /\ SaveTarget' = SaveTarget
      BY <1>9 DEF vars, Recoverable, SaveTarget
    <2>2. QED
      BY <1>9, <2>1 DEF vars, LoadedInv, UnloadedInv, SavingInv, OffInv, Good, GoodIn, Spare
  <1>10. QED
    BY <1>1, <1>2, <1>3, <1>4, <1>5, <1>6, <1>7, <1>8, <1>9 DEF Next

(* A blank device satisfies the strengthened invariant. *)
LEMMA InitIInv ==
    ASSUME SectorCount = 2, Init
    PROVE  IInv
  <1>1. TypeOK
    BY SectorTypes DEF Init, TypeOK
  <1>2. flash[0] = Blank /\ flash[1] = Blank
    BY SectorTypes DEF Init
  <1>3. ~GoodIn(flash, 0) /\ ~GoodIn(flash, 1)
    BY <1>2 DEF Blank, GoodIn
  <1>4. Recoverable = NoImage
    BY <1>1, <1>3, RecoverableCases DEF Best
  <1>5. QED
    BY <1>1, <1>3, <1>4 DEF Init, IInv, LoadedInv, UnloadedInv, SavingInv, OffInv, Good

(* The strengthened invariant implies power safety, also while off. *)
LEMMA IInvSafe ==
    ASSUME SectorCount = 2, IInv
    PROVE  PowerSafe
  BY RunningSafe DEF IInv, OffInv, PowerSafe

(* The strengthened invariant holds in every reachable state. *)
LEMMA Invariance ==
    ASSUME SectorCount = 2, ReadFaults = FALSE, MaxSeq < SeqMod
    PROVE  Spec => []IInv
  <1>1. Init => IInv
    BY InitIInv
  <1>2. IInv /\ TypeOK' /\ [Next]_vars => IInv'
    BY Inductive
  <1>3. QED
    BY <1>1, <1>2, TypeCorrect, PTL DEF Spec

(* Power safety for any records, values, sizes and number of saves: with   *)
(* the two-sector geometry of nv_flash_backend.c, reads that succeed and   *)
(* sequence numbers short of the uint32_t wrap, a power loss anywhere in   *)
(* migris_nvstore_save, and any backend failure, leaves load() the last    *)
(* acknowledged image or one save() was asked for since.                   *)
THEOREM PowerSafety ==
    ASSUME SectorCount = 2, ReadFaults = FALSE, MaxSeq < SeqMod
    PROVE  Spec => []PowerSafe
  <1>1. IInv => PowerSafe
    BY IInvSafe
  <1>2. QED
    BY <1>1, Invariance, PTL

(* The sector and sequence number the running store builds its next save   *)
(* on are those of an intact image, and a reboot finds either it or what a *)
(* failed save left.                                                       *)
THEOREM BeliefCorrect ==
    ASSUME SectorCount = 2, ReadFaults = FALSE, MaxSeq < SeqMod
    PROVE  Spec => []BeliefMatchesFlash
  <1>1. ASSUME IInv
        PROVE  BeliefMatchesFlash
    <2> SUFFICES ASSUME pc = "idle", loaded
                 PROVE  LET out == LoadOutcome(flash, AllReadable, AllReadable)
                        IN  /\ TryLoad(flash, AllReadable, loaded_sector)
                            /\ flash[loaded_sector].seq = loaded_seq
                            /\ out.sector # loaded_sector => out.payload \in attempts
      BY DEF BeliefMatchesFlash
    <2> DEFINE out == LoadOutcome(flash, AllReadable, AllReadable)
    <2>1. /\ loaded_sector \in {0, 1} /\ loaded_seq \in Nat
          /\ flash[0].seq \in Nat /\ flash[1].seq \in Nat
      BY <1>1, SectorTypes DEF IInv, TypeOK, Sectors, Seqs, SectorState
    <2>2. /\ GoodIn(flash, loaded_sector)
          /\ flash[loaded_sector].seq = loaded_seq
          /\ GoodIn(flash, Spare) => \/ flash[Spare].seq < loaded_seq
                                     \/ flash[Spare].payload \in attempts
      BY <1>1 DEF IInv, LoadedInv, Good
    <2>3. TryLoad(flash, AllReadable, loaded_sector)
      BY <2>1, <2>2 DEF TryLoad, GoodIn, AllReadable, AB
    <2>4. out = IF GoodIn(flash, 1) /\ (~GoodIn(flash, 0) \/ flash[1].seq > flash[0].seq)
                THEN LoadedFrom(flash, 1)
                ELSE IF GoodIn(flash, 0) THEN LoadedFrom(flash, 0) ELSE LoadedNothing
      BY <1>1, LoadCases DEF IInv, TypeOK
    <2>5. out.sector # loaded_sector => out.payload \in attempts
      BY <2>1, <2>2, <2>4 DEF LoadedFrom, LoadedNothing, Spare
    <2>6. QED
      BY <2>2, <2>3, <2>5
  <1>2. QED
    BY <1>1, Invariance, PTL

(* The store implements the atomic durable image: every step of load, put, *)
(* save and the failures is a step of DurableImage or leaves it unchanged. *)
THEOREM Implements ==
    ASSUME SectorCount = 2, ReadFaults = FALSE, MaxSeq < SeqMod
    PROVE  Spec => Refines
  <1>1. Init => Durable!Init
    <2> SUFFICES ASSUME Init PROVE Durable!Init
      OBVIOUS
    <2>1. TypeOK /\ ~GoodIn(flash, 0) /\ ~GoodIn(flash, 1)
      BY InitIInv, SectorTypes DEF IInv, Init, Blank, GoodIn
    <2>2. QED
      BY <2>1, RecoverableCases DEF Best, Init, Durable!Init
  <1>2. ASSUME IInv, IInv', [Next]_vars
        PROVE  [Durable!Next]_(Durable!dvars)
    <2>1. PowerSafe /\ PowerSafe' /\ payload \in Payload
      <3>1. PowerSafe
        BY <1>2, IInvSafe
      <3>2. IInv' => PowerSafe'
        BY IInvSafe, PTL
      <3>3. QED
        BY <1>2, <3>1, <3>2 DEF IInv, TypeOK
    <2>2. CASE Load
      <3>1. Recoverable' = Recoverable
        BY <2>2 DEF Load, Recoverable
      <3>2. QED
        BY <2>2, <3>1 DEF Load, Durable!Next, Durable!Reload
    <2>3. ASSUME NEW t \in RecordTypes, NEW v \in Values, Put(t, v)
          PROVE  UNCHANGED Durable!dvars
      BY <2>3 DEF Put, Recoverable, Durable!dvars
    <2>4. CASE SaveBegin
      <3>1. Recoverable' = Recoverable
        BY <2>4 DEF SaveBegin, Recoverable
      <3>2. QED
        BY <2>1, <2>4, <3>1 DEF SaveBegin, Durable!Next, Durable!Submit
    <2>5. CASE EraseDone \/ EraseError \/ WriteError \/ PowerLoss
      <3>1. acked' = acked /\ attempts' = attempts
        BY <2>5 DEF EraseDone, EraseError, WriteError, PowerLoss
      <3>2. QED
        BY <2>1, <3>1 DEF PowerSafe, Durable!Next, Durable!Settle
    <2>6. CASE WriteDone
      <3>1. acked' = payload /\ attempts' = {} /\ payload \in attempts
        BY <1>2, <2>6 DEF WriteDone, IInv, SavingInv
      <3>2. QED
        BY <2>1, <3>1 DEF PowerSafe, Durable!Next, Durable!Acknowledge
    <2>7. CASE UNCHANGED vars
      BY <2>7 DEF vars, Recoverable, Durable!dvars
    <2>8. QED
      BY <1>2, <2>2, <2>3, <2>4, <2>5, <2>6, <2>7 DEF Next
  <1>3. QED
    BY <1>1, <1>2, Invariance, PTL DEF Spec, Refines, Durable!Spec

----------------------------------------------------------------------------
(* The persistence loop *)

(* What CleanMeansInImage rests on: the loop and the store are off          *)
(* together, a snapshot never runs ahead of its generation (or a later      *)
(* change would look saved), and a running mode manager has left BOOT (or   *)
(* the mode that is saved would not be the one the next boot comes to).     *)
OffTogether == phase = "off" <=> pc = "off"
Ahead       == \A t \in RecordTypes : last_saved_gen[t] <= gen[t]
LeftBoot    == phase # "off" => \A t \in RecordTypes : t = ModeType => live[t] # BootMode

AInv == ATypeOK /\ CleanMeansInImage /\ OffTogether /\ Ahead /\ LeftBoot

(* A boot gives every subsystem a state, and the mode manager one that is   *)
(* not BOOT.                                                                *)
LEMMA BootTypes ==
    ASSUME NEW p \in Payload
    PROVE  /\ BootLive(p) \in [RecordTypes -> Values]
           /\ BootGen(p) \in [RecordTypes -> 0 .. MaxGen]
           /\ \A t \in RecordTypes : t = ModeType => BootLive(p)[t] # BootMode
  <1>1. Restored(p) \in [RecordTypes -> Values]
    BY SubsystemAssumption DEF Restored, Payload
  <1>2. QED
    BY <1>1, SubsystemAssumption DEF BootLive, BootGen, LeavesBoot

(* What a boot would make of one record depends on that record alone.       *)
LEMMA BootLocal ==
    ASSUME NEW p \in Payload, NEW q \in Payload, NEW t \in RecordTypes, p[t] = q[t]
    PROVE  BootLive(p)[t] = BootLive(q)[t]
  BY DEF BootLive, Restored, LeavesBoot

(* A record that is present comes back, unless it says BOOT.                *)
LEMMA BootPresent ==
    ASSUME NEW p \in Payload, NEW t \in RecordTypes, p[t] \in Values,
           t = ModeType => p[t] # BootMode
    PROVE  BootLive(p)[t] = p[t]
  BY ValueAssumption DEF BootLive, Restored, LeavesBoot

(* Every step of the loop is an operation of the store or leaves it alone.  *)
LEMMA LoopUsesStore ==
    ASSUME ATypeOK, [ANext]_avars
    PROVE  [Next]_vars
  <1>1. CASE TickPut
    <2>1. cursor \in DOMAIN Order /\ Order[cursor] \in RecordTypes
      BY <1>1, OrderAssumption DEF TickPut, ATypeOK
    <2>2. live[Order[cursor]] \in Values
      BY <2>1 DEF ATypeOK
    <2>3. Put(Order[cursor], live[Order[cursor]])
      BY <1>1 DEF TickPut
    <2>4. QED
      BY <2>1, <2>2, <2>3 DEF Next
  <1>2. CASE Boot \/ TickSave \/ SaveStep \/ Reset
    BY <1>2 DEF Boot, TickSave, SaveStep, Reset, Next
  <1>3. CASE TickSkip \/ TickClean \/ NextIteration \/ UNCHANGED avars
    BY <1>3 DEF TickSkip, TickClean, NextIteration, avars, vars
  <1>4. ASSUME NEW t \in RecordTypes, NEW v \in Changes[t], Command(t, v)
        PROVE  [Next]_vars
    BY <1>4 DEF Command
  <1>5. QED
    BY <1>1, <1>2, <1>3, <1>4 DEF ANext, LoopStep

(* Types are kept by every step of the loop.                                *)
LEMMA ATypeStep ==
    ASSUME AInv, [ANext]_avars
    PROVE  ATypeOK'
  <1>1. TypeOK'
    BY LoopUsesStore, TypeStep DEF AInv, ATypeOK
  <1>2. Len(Order) \in Nat
    BY OrderAssumption
  <1>3. CASE Boot
    <2>1. payload' \in Payload
      BY <1>1 DEF TypeOK
    <2>2. live' \in [RecordTypes -> Values] /\ gen' \in [RecordTypes -> 0 .. MaxGen]
      BY <1>3, <2>1, BootTypes DEF Boot
    <2>3. last_saved_gen' \in [RecordTypes -> 0 .. MaxGen]
      BY <1>3, SubsystemAssumption DEF Boot
    <2>4. phase' = "tick" /\ cursor' \in 1 .. Len(Order) + 1
      BY <1>2, <1>3 DEF Boot
    <2>5. nv_dirty' \in BOOLEAN /\ save_failed' \in BOOLEAN
      BY <1>3 DEF Boot
    <2>6. QED
      BY <1>1, <2>2, <2>3, <2>4, <2>5 DEF ATypeOK
  <1>4. CASE TickPut
    <2>1. last_saved_gen' \in [RecordTypes -> 0 .. MaxGen]
      BY <1>4 DEF TickPut, AInv, ATypeOK
    <2>2. nv_dirty' \in BOOLEAN
      BY <1>4 DEF TickPut, AInv, ATypeOK
    <2>3. cursor' \in 1 .. Len(Order) + 1
      BY <1>2, <1>4 DEF TickPut, AInv, ATypeOK
    <2>4. phase' = phase /\ live' = live /\ gen' = gen /\ save_failed' = save_failed
      BY <1>4 DEF TickPut
    <2>5. QED
      BY <1>1, <2>1, <2>2, <2>3, <2>4 DEF AInv, ATypeOK
  <1>5. CASE TickSkip \/ TickSave \/ TickClean \/ NextIteration
    <2>1. live' = live /\ gen' = gen /\ last_saved_gen' = last_saved_gen /\ save_failed' = save_failed
      BY <1>5 DEF TickSkip, TickSave, TickClean, NextIteration
    <2>2. phase' \in {"tick", "save", "work"} /\ cursor' \in 1 .. Len(Order) + 1
      BY <1>2, <1>5 DEF TickSkip, TickSave, TickClean, NextIteration, AInv, ATypeOK
    <2>3. nv_dirty' \in BOOLEAN
      BY <1>5 DEF TickSkip, TickSave, TickClean, NextIteration, AInv, ATypeOK
    <2>4. QED
      BY <1>1, <2>1, <2>2, <2>3 DEF AInv, ATypeOK
  <1>6. CASE SaveStep
    BY <1>1, <1>6 DEF SaveStep, AInv, ATypeOK
  <1>7. ASSUME NEW t \in RecordTypes, NEW v \in Changes[t], Command(t, v)
        PROVE  ATypeOK'
    <2>1. v \in Values
      BY SubsystemAssumption
    <2>2. live' \in [RecordTypes -> Values]
      BY <1>7, <2>1 DEF Command, AInv, ATypeOK
    <2>3. gen' \in [RecordTypes -> 0 .. MaxGen]
      BY <1>7, SubsystemAssumption DEF Command, AInv, ATypeOK
    <2>4. QED
      BY <1>1, <1>7, <2>2, <2>3 DEF Command, AInv, ATypeOK
  <1>8. CASE Reset
    <2>1. phase' = "off" /\ cursor' \in 1 .. Len(Order) + 1
      BY <1>2, <1>8 DEF Reset
    <2>2. nv_dirty' \in BOOLEAN /\ save_failed' \in BOOLEAN
      BY <1>8 DEF Reset
    <2>3. /\ live' \in [RecordTypes -> Values]
          /\ gen' \in [RecordTypes -> 0 .. MaxGen]
          /\ last_saved_gen' \in [RecordTypes -> 0 .. MaxGen]
      BY <1>8, SubsystemAssumption DEF Reset
    <2>4. QED
      BY <1>1, <2>1, <2>2, <2>3 DEF ATypeOK
  <1>9. CASE UNCHANGED avars
    BY <1>1, <1>9 DEF avars, loopVars, AInv, ATypeOK
  <1>10. QED
    BY <1>3, <1>4, <1>5, <1>6, <1>7, <1>8, <1>9 DEF ANext, LoopStep

(* The loop is off with its store, snapshots stay behind generations, and   *)
(* the mode manager does not return to BOOT.                                *)
LEMMA SupportStep ==
    ASSUME AInv, ATypeOK', [ANext]_avars
    PROVE  OffTogether' /\ Ahead' /\ LeftBoot'
  <1> USE DEF AInv
  <1>1. CASE Boot
    <2>1. payload' \in Payload
      BY DEF ATypeOK, TypeOK
    <2>2. gen' \in [RecordTypes -> 0 .. MaxGen]
      BY DEF ATypeOK
    <2>3. OffTogether' /\ Ahead'
      BY <1>1, <2>2 DEF Boot, Load, OffTogether, Ahead
    <2>4. LeftBoot'
      BY <1>1, <2>1, BootTypes DEF Boot, LeftBoot
    <2>5. QED
      BY <2>3, <2>4
  <1>2. CASE TickSkip \/ TickSave \/ TickClean \/ NextIteration
    <2>1. OffTogether'
      BY <1>2 DEF TickSkip, TickSave, TickClean, NextIteration, SaveBegin, vars, OffTogether
    <2>2. Ahead' /\ LeftBoot'
      BY <1>2 DEF TickSkip, TickSave, TickClean, NextIteration, Ahead, LeftBoot
    <2>3. QED
      BY <2>1, <2>2
  <1>3. CASE TickPut
    <2>1. OffTogether' /\ LeftBoot'
      BY <1>3 DEF TickPut, Put, OffTogether, LeftBoot
    <2>2. gen' = gen /\ gen \in [RecordTypes -> Int]
      BY <1>3 DEF TickPut, ATypeOK
    <2>3. \A t \in RecordTypes : last_saved_gen'[t] \in {last_saved_gen[t], gen[t]}
      BY <1>3 DEF TickPut, ATypeOK
    <2>4. Ahead'
      BY <2>2, <2>3 DEF Ahead
    <2>5. QED
      BY <2>1, <2>4
  <1>4. CASE SaveStep
    <2>1. pc # "off" /\ pc' # "off"
      BY <1>4 DEF SaveStep, EraseDone, EraseError, WriteDone, WriteError
    <2>2. phase # "off" /\ phase' # "off"
      BY <1>4, <2>1 DEF SaveStep, OffTogether
    <2>3. QED
      BY <1>4, <2>1, <2>2 DEF SaveStep, OffTogether, Ahead, LeftBoot
  <1>5. ASSUME NEW t \in RecordTypes, NEW v \in Changes[t], Command(t, v)
        PROVE  OffTogether' /\ Ahead' /\ LeftBoot'
    <2>1. OffTogether'
      BY <1>5 DEF Command, vars, OffTogether
    <2>2. Ahead'
      BY <1>5 DEF Command, Ahead, ATypeOK
    <2>3. t = ModeType => v # BootMode
      BY BootAssumption
    <2>4. LeftBoot'
      BY <1>5, <2>3 DEF Command, LeftBoot, ATypeOK
    <2>5. QED
      BY <2>1, <2>2, <2>4
  <1>6. CASE Reset
    BY <1>6 DEF Reset, PowerLoss, OffTogether, Ahead, LeftBoot
  <1>7. CASE UNCHANGED avars
    BY <1>7 DEF avars, vars, loopVars, OffTogether, Ahead, LeftBoot
  <1>8. QED
    BY <1>1, <1>2, <1>3, <1>4, <1>5, <1>6, <1>7 DEF ANext, LoopStep

(* A put moves one record and at most one snapshot, together.               *)
LEMMA PutKeepsClean ==
    ASSUME AInv, ATypeOK', TickPut
    PROVE  CleanMeansInImage'
  <1> DEFINE u == Order[cursor]
  <1>1. u \in RecordTypes
    BY OrderAssumption DEF AInv, ATypeOK, TickPut
  <1>2. payload \in Payload /\ payload' \in Payload
    BY DEF AInv, ATypeOK, TypeOK
  <1>3. /\ payload' = AfterPut(payload, u, live[u]) /\ phase = "tick"
        /\ live' = live /\ gen' = gen /\ gen[u] # last_saved_gen[u]
    BY DEF TickPut, Put
  <1>4. ASSUME NEW t \in RecordTypes, t # u
        PROVE  payload'[t] = payload[t] /\ last_saved_gen'[t] = last_saved_gen[t]
    <2>1. payload'[t] = payload[t]
      BY <1>1, <1>2, <1>3, <1>4 DEF AfterPut, Drop, Payload
    <2>2. last_saved_gen'[t] = last_saved_gen[t]
      BY <1>4 DEF TickPut, AInv, ATypeOK
    <2>3. QED
      BY <2>1, <2>2
  <1>5. ASSUME gen'[u] = last_saved_gen'[u]
        PROVE  BootLive(payload')[u] = live'[u]
    <2>1. Fits(payload, u, live[u])
      BY <1>3, <1>5 DEF TickPut
    <2>2. payload'[u] = live[u] /\ live[u] \in Values
      BY <1>1, <1>2, <1>3, <2>1 DEF AfterPut, Payload, AInv, ATypeOK
    <2>3. u = ModeType => live[u] # BootMode
      BY <1>1, <1>3 DEF AInv, LeftBoot
    <2>4. QED
      BY <1>1, <1>2, <1>3, <2>2, <2>3, BootPresent
  <1>6. ASSUME NEW t \in RecordTypes, gen'[t] = last_saved_gen'[t]
        PROVE  BootLive(payload')[t] = live'[t]
    <2>1. CASE t = u
      BY <1>5, <1>6, <2>1
    <2>2. CASE t # u
      <3>1. BootLive(payload')[t] = BootLive(payload)[t]
        BY <1>2, <1>4, <2>2, BootLocal
      <3>2. BootLive(payload)[t] = live[t]
        BY <1>3, <1>4, <1>6, <2>2 DEF AInv, CleanMeansInImage
      <3>3. QED
        BY <1>3, <3>1, <3>2
    <2>3. QED
      BY <2>1, <2>2
  <1>7. QED
    BY <1>6 DEF CleanMeansInImage

(* No step of the loop makes a clean subsystem differ from its record.      *)
LEMMA CleanStep ==
    ASSUME AInv, ATypeOK', [ANext]_avars
    PROVE  CleanMeansInImage'
  <1>1. CASE Boot
    <2>1. ASSUME NEW t \in RecordTypes PROVE BootLive(payload')[t] = live'[t]
      BY <1>1 DEF Boot
    <2>2. QED
      BY <2>1 DEF CleanMeansInImage
  <1>2. CASE TickSkip \/ TickSave \/ TickClean \/ NextIteration
    <2>1. phase # "off" /\ payload' = payload
      BY <1>2 DEF TickSkip, TickSave, TickClean, NextIteration, SaveBegin, vars, store
    <2>2. live' = live /\ gen' = gen /\ last_saved_gen' = last_saved_gen
      BY <1>2 DEF TickSkip, TickSave, TickClean, NextIteration
    <2>3. QED
      BY <2>1, <2>2 DEF AInv, CleanMeansInImage, BootLive, Restored, LeavesBoot
  <1>3. CASE TickPut
    BY <1>3, PutKeepsClean
  <1>4. CASE SaveStep
    <2>1. phase # "off" /\ payload' = payload
      BY <1>4 DEF SaveStep, EraseDone, EraseError, WriteDone, WriteError, store, AInv, OffTogether
    <2>2. live' = live /\ gen' = gen /\ last_saved_gen' = last_saved_gen
      BY <1>4 DEF SaveStep
    <2>3. QED
      BY <2>1, <2>2 DEF AInv, CleanMeansInImage, BootLive, Restored, LeavesBoot
  <1>5. ASSUME NEW u \in RecordTypes, NEW v \in Changes[u], Command(u, v)
        PROVE  CleanMeansInImage'
    <2>1. phase # "off" /\ payload' = payload /\ last_saved_gen' = last_saved_gen
      BY <1>5 DEF Command, vars
    <2>2. gen'[u] # last_saved_gen'[u]
      BY <1>5, <2>1 DEF Command, AInv, Ahead, ATypeOK
    <2>3. \A t \in RecordTypes : t # u => gen'[t] = gen[t] /\ live'[t] = live[t]
      BY <1>5 DEF Command, AInv, ATypeOK
    <2>4. QED
      BY <2>1, <2>2, <2>3 DEF AInv, CleanMeansInImage, BootLive, Restored, LeavesBoot
  <1>6. CASE Reset
    BY <1>6 DEF Reset, CleanMeansInImage
  <1>7. CASE UNCHANGED avars
    BY <1>7 DEF avars, vars, loopVars, AInv, CleanMeansInImage, BootLive, Restored, LeavesBoot
  <1>8. QED
    BY <1>1, <1>2, <1>3, <1>4, <1>5, <1>6, <1>7 DEF ANext, LoopStep

----------------------------------------------------------------------------
(* The strengthened invariant holds in every reachable state of the loop.   *)
LEMMA LoopInvariance == ASpec => []AInv
  <1>1. AInit => AInv
    <2> SUFFICES ASSUME AInit PROVE AInv
      OBVIOUS
    <2>1. TypeOK
      BY SectorTypes DEF AInit, Init, TypeOK
    <2>2. Len(Order) \in Nat
      BY OrderAssumption
    <2>3. nv_dirty \in BOOLEAN /\ save_failed \in BOOLEAN
      BY DEF AInit
    <2>4. ATypeOK
      BY <2>1, <2>2, <2>3, SubsystemAssumption DEF AInit, ATypeOK
    <2>5. QED
      BY <2>4 DEF AInit, Init, AInv, CleanMeansInImage, OffTogether, Ahead, LeftBoot
  <1>2. AInv /\ [ANext]_avars => AInv'
    BY ATypeStep, SupportStep, CleanStep DEF AInv
  <1>3. QED
    BY <1>1, <1>2, PTL DEF ASpec

(* The save tick, the restore and the record store under them stay well-    *)
(* typed: generations and snapshots in range, a state for every subsystem   *)
(* after every restore.                                                     *)
THEOREM LoopTypeCorrect == ASpec => []ATypeOK
  <1>1. AInv => ATypeOK
    BY DEF AInv
  <1>2. QED
    BY <1>1, LoopInvariance, PTL

(* What nv_autosave_tick takes for saved is in the image: through refused   *)
(* puts, states that do not serialise, failed saves and restores, for any   *)
(* number of subsystems and any sizes.                                      *)
THEOREM CleanIsInImage == ASpec => []CleanMeansInImage
  <1>1. AInv => CleanMeansInImage
    BY DEF AInv
  <1>2. QED
    BY <1>1, LoopInvariance, PTL

(* The loop uses the store as the store's specification says, so that power *)
(* safety, proved of the store alone, holds in the flight software.         *)
THEOREM LoopKeepsStore == ASpec => Spec
  <1>1. AInit => Init
    BY DEF AInit
  <1>2. AInv /\ [ANext]_avars => [Next]_vars
    BY LoopUsesStore DEF AInv
  <1>3. QED
    BY <1>1, <1>2, LoopInvariance, PTL DEF ASpec, Spec

(* In the flight software too, a power loss at any point of the loop leaves *)
(* an image that was promised or asked for since.                           *)
THEOREM LoopPowerSafety ==
    ASSUME SectorCount = 2, ReadFaults = FALSE, MaxSeq < SeqMod
    PROVE  ASpec => []PowerSafe
  BY LoopKeepsStore, PowerSafety, PTL


----------------------------------------------------------------------------
(* What the loss window rests on: unless the latest save failed, nothing    *)
(* but the promised image can be on flash between saves, and while this     *)
(* iteration has put nothing, every clean subsystem is in that image.       *)
PromisedImage == IF acked = NoImage THEN Empty ELSE acked
Busy    == phase = "save" <=> pc \in {"erasing", "writing"}
Settled == (~save_failed /\ phase \in {"tick", "work"}) => attempts = {}
Covered ==
    (~save_failed /\ (phase = "work" \/ (phase = "tick" /\ ~nv_dirty))) =>
        \A t \in RecordTypes :
            gen[t] = last_saved_gen[t] => BootLive(PromisedImage)[t] = live[t]

WInv == Busy /\ Settled /\ Covered

(* What a reboot makes of the promise depends on the promise alone.         *)
LEMMA PromiseKept ==
    ASSUME acked' = acked
    PROVE  BootLive(PromisedImage)' = BootLive(PromisedImage)
  BY DEF BootLive, PromisedImage, Restored, LeavesBoot

(* load() brings into RAM what is promised.                                 *)
LEMMA BootPromised ==
    ASSUME ReadFaults = FALSE, TypeOK, Load
    PROVE  payload' = PromisedImage'
  <1> DEFINE out == LoadOutcome(flash, AllReadable, AllReadable)
  <1>1. payload' = out.payload /\ acked' = Recoverable
    BY Zenon DEF Load, ReadOutcomes
  <1>2. CASE out.loaded
    <2>1. Recoverable = out.payload
      BY <1>2 DEF Recoverable
    <2>2. Recoverable # NoImage
      <3> DEFINE first == First(flash, ValidHeaders(flash, AllReadable))
      <3>1. first \in AB /\ 1 - first \in AB
        BY DEF First, AB
      <3>2. out = LoadedFrom(flash, first) \/ out = LoadedFrom(flash, 1 - first)
        BY <1>2 DEF LoadOutcome, LoadedNothing
      <3>3. \A i \in AB : LoadedFrom(flash, i).payload \in Payload
        BY SectorTypes DEF TypeOK, SectorState, LoadedFrom
      <3>4. out.payload \in Payload
        BY <3>1, <3>2, <3>3
      <3>5. QED
        BY <2>1, <3>4, NoImageAssumption
    <2>3. QED
      BY <1>1, <2>1, <2>2 DEF PromisedImage
  <1>3. CASE ~out.loaded
    <2>1. Recoverable = NoImage
      BY <1>3 DEF Recoverable
    <2>2. out = LoadedNothing
      BY <1>3 DEF LoadOutcome, LoadedFrom
    <2>3. QED
      BY <1>1, <2>1, <2>2 DEF PromisedImage, LoadedNothing
  <1>4. QED
    BY <1>2, <1>3

LEMMA WindowStep ==
    ASSUME ReadFaults = FALSE, AInv, AInv', WInv, [ANext]_avars
    PROVE  WInv'
  <1> USE DEF WInv
  <1>0. TypeOK /\ ATypeOK /\ payload \in Payload /\ OffTogether /\ CleanMeansInImage
    BY DEF AInv, ATypeOK, TypeOK
  <1>1. CASE Boot
    <2>1. /\ Load /\ live' = BootLive(payload') /\ phase' = "tick" /\ pc' = "idle"
          /\ attempts' = {}
      BY <1>1 DEF Boot, Load
    <2>2. payload' = PromisedImage'
      BY <1>0, <2>1, BootPromised
    <2>3. BootLive(PromisedImage)' = BootLive(payload')
      BY <2>2 DEF BootLive, Restored, LeavesBoot
    <2>4. QED
      BY <2>1, <2>3 DEF Busy, Settled, Covered
  <1>2. CASE TickSkip \/ TickClean \/ NextIteration
    <2>1. /\ UNCHANGED vars
          /\ live' = live /\ gen' = gen /\ last_saved_gen' = last_saved_gen
          /\ save_failed' = save_failed
      BY <1>2 DEF TickSkip, TickClean, NextIteration
    <2>2. /\ phase \in {"tick", "work"} /\ phase' \in {"tick", "work"}
          /\ (phase' = "tick" /\ ~nv_dirty') \/ phase' = "work" =>
                 phase = "work" \/ (phase = "tick" /\ ~nv_dirty)
      BY <1>2 DEF TickSkip, TickClean, NextIteration
    <2>3. acked' = acked /\ attempts' = attempts /\ pc' = pc
      BY <2>1 DEF vars
    <2>4. QED
      BY <2>1, <2>2, <2>3, PromiseKept DEF Busy, Settled, Covered
  <1>3. CASE TickPut
    <2>1. /\ phase = "tick" /\ phase' = "tick" /\ live' = live /\ gen' = gen /\ save_failed' = save_failed
          /\ acked' = acked /\ attempts' = attempts /\ pc' = pc
      BY <1>3 DEF TickPut, Put
    <2>2. nv_dirty' = TRUE \/ (nv_dirty' = nv_dirty /\ last_saved_gen' = last_saved_gen)
      BY <1>3, Zenon DEF TickPut
    <2>3. QED
      BY <2>1, <2>2, PromiseKept DEF Busy, Settled, Covered
  <1>4. CASE TickSave
    BY <1>4 DEF TickSave, SaveBegin, Busy, Settled, Covered
  <1>5. CASE SaveStep
    <2>1. /\ live' = live /\ gen' = gen /\ last_saved_gen' = last_saved_gen
          /\ phase' = IF pc' = "idle" THEN "work" ELSE "save"
      BY <1>5 DEF SaveStep
    <2>2. CASE EraseDone
      BY <2>1, <2>2 DEF EraseDone, Busy, Settled, Covered
    <2>3. CASE WriteDone /\ save_failed' = FALSE
      <3>1. pc' = "idle" /\ acked' = payload /\ attempts' = {} /\ phase # "off"
        BY <1>0, <2>3 DEF WriteDone, OffTogether
      <3>2. PromisedImage' = payload
        BY <1>0, <3>1, NoImageAssumption DEF PromisedImage
      <3>3. BootLive(PromisedImage)' = BootLive(payload)
        BY <3>2 DEF BootLive, Restored, LeavesBoot
      <3>4. QED
        BY <1>0, <2>1, <3>1, <3>3 DEF CleanMeansInImage, Busy, Settled, Covered
    <2>4. CASE (EraseError \/ WriteError) /\ save_failed' = TRUE
      BY <2>1, <2>4 DEF EraseError, WriteError, Busy, Settled, Covered
    <2>5. QED
      BY <1>5, <2>2, <2>3, <2>4 DEF SaveStep
  <1>6. ASSUME NEW u \in RecordTypes, NEW v \in Changes[u], Command(u, v)
        PROVE  WInv'
    <2>1. /\ phase = "work" /\ phase' = "work" /\ last_saved_gen' = last_saved_gen
          /\ save_failed' = save_failed /\ acked' = acked /\ attempts' = attempts /\ pc' = pc
      BY <1>6 DEF Command, vars
    <2>2. gen'[u] # last_saved_gen'[u]
      BY <1>6, <2>1 DEF Command, AInv, Ahead, ATypeOK
    <2>3. \A t \in RecordTypes : t # u => gen'[t] = gen[t] /\ live'[t] = live[t]
      BY <1>6 DEF Command, AInv, ATypeOK
    <2>4. QED
      BY <2>1, <2>2, <2>3, PromiseKept DEF Busy, Settled, Covered
  <1>7. CASE Reset
    BY <1>7 DEF Reset, PowerLoss, Busy, Settled, Covered
  <1>8. CASE UNCHANGED avars
    <2>1. acked' = acked
      BY <1>8 DEF avars, vars
    <2>2. QED
      BY <1>8, <2>1, PromiseKept DEF avars, vars, loopVars, Busy, Settled, Covered
  <1>9. QED
    BY <1>1, <1>2, <1>3, <1>4, <1>5, <1>6, <1>7, <1>8 DEF ANext, LoopStep

(* The loss window of the save tick is one iteration: once a tick has run   *)
(* and its migris_nvstore_save did not fail, a power loss brings back every *)
(* subsystem as it is, for any number of subsystems, whatever puts were     *)
(* refused and whatever failed saves and reboots came before.               *)
THEOREM LossWindow ==
    ASSUME SectorCount = 2, ReadFaults = FALSE, MaxSeq < SeqMod
    PROVE  ASpec => []OneIterationWindow
  <1>1. AInit => WInv
    BY DEF AInit, Init, WInv, Busy, Settled, Covered
  <1>2. AInv /\ AInv' /\ WInv /\ [ANext]_avars => WInv'
    BY WindowStep
  <1>3. ASSUME AInv, WInv, PowerSafe
        PROVE  OneIterationWindow
    <2> SUFFICES ASSUME phase = "work", gen = last_saved_gen, ~save_failed
                 PROVE  AfterReboot = live
      BY DEF OneIterationWindow
    <2>1. Recoverable = acked
      BY <1>3 DEF WInv, Settled, PowerSafe
    <2>2. AfterReboot = BootLive(PromisedImage)
      BY <2>1 DEF AfterReboot, PromisedImage
    <2>3. \A t \in RecordTypes : BootLive(PromisedImage)[t] = live[t]
      BY <1>3 DEF WInv, Covered
    <2>4. DOMAIN BootLive(PromisedImage) = RecordTypes /\ BootLive(PromisedImage) = [t \in RecordTypes |-> BootLive(PromisedImage)[t]]
      BY DEF BootLive
    <2>5. live = [t \in RecordTypes |-> live[t]]
      BY <1>3 DEF AInv, ATypeOK
    <2>6. QED
      BY <2>2, <2>3, <2>4, <2>5
  <1>4. QED
    BY <1>1, <1>2, <1>3, LoopInvariance, LoopPowerSafety, PTL DEF ASpec
============================================================================
