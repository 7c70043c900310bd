---------------------------- MODULE HkStoreProofs ---------------------------
(***************************************************************************)
(* The housekeeping structures, proved for every capacity, every set of    *)
(* requests and periods and every clock that stays below its width.        *)
(*                                                                         *)
(* The record on flash takes part in the invariant: a power loss puts it   *)
(* in the place of the live store in the middle of anything.               *)
(***************************************************************************)
EXTENDS HkStore, NumberLemmas, SequenceTheorems, FiniteSetTheorems, TLAPS

Used(s) == {i \in Slots : s[i] # Free}

StoreOK(s, t) ==
    /\ s \in [Slots -> {Free} \cup Structures(t)]
    /\ \A i, j \in Used(s) : s[i].sid = s[j].sid => i = j
    /\ \A i \in Used(s) : Len(s[i].params) <= MaxParams

Records == [sid : Sids \ Reserved, params : {r.params : r \in Requests},
            interval : {r.interval : r \in Requests}, enabled : BOOLEAN]

(* The entries packed from the slots make a record that is accepted. *)
Accepted(q) ==
    /\ q \in Seq(Records) /\ Len(q) <= Capacity
    /\ \A k \in DOMAIN q : Readable(q[k])
    /\ \A j, k \in DOMAIN q : q[j].sid = q[k].sid => j = k
Contents(q) == {q[k] : k \in DOMAIN q}

(* What restoring the record leaves is a store. *)
Loads(f) ==
    /\ StoreOK(Deserialize(f), 0)
    /\ RestoredCount(f) = Cardinality(Used(Deserialize(f)))
    /\ \A i \in Used(Deserialize(f)) : Deserialize(f)[i].last_emit = 0

(* A structure was not reported after its stamp. *)
Stamped(s, told, t) ==
    /\ told \in [Sids \cup {"framework"} -> 0 .. t]
    /\ \A i \in Used(s) : told[s[i].sid] <= s[i].last_emit

(* What was served while another waited bears a later stamp than it. *)
Ordered(s, before) ==
    /\ before \in [Slots -> SUBSET Slots]
    /\ \A i \in Slots : \A b \in before[i] :
          i \in Used(s) /\ b \in Used(s) /\ s[i].last_emit < s[b].last_emit

ClockOK == now \in 0 .. MaxTime /\ last_hk \in 0 .. now /\ sent["framework"] <= last_hk

SavedOK == Loads(flash) /\ CleanMeansRestored

RestOK ==
    /\ dirty \in BOOLEAN /\ period \in Periods
    /\ phase \in {"top", "hk", "dyn", "released", "received"}

HInv ==
    /\ StoreOK(slots, now) /\ count = Cardinality(Used(slots))
    /\ SavedOK
    /\ Stamped(slots, sent, now)
    /\ Ordered(slots, passed)
    /\ ClockOK /\ RestOK

----------------------------------------------------------------------------
(* Structures and slots *)

LEMMA StructureFields ==
    ASSUME NEW d, NEW e, NEW t
    PROVE  /\ Structure(d, e, t).sid = d.sid /\ Structure(d, e, t).params = d.params
           /\ Structure(d, e, t).interval = d.interval /\ Structure(d, e, t).enabled = e
           /\ Structure(d, e, t).last_emit = t
           /\ Definition(Structure(d, e, t)) = [sid |-> d.sid, params |-> d.params,
                                                interval |-> d.interval, enabled |-> e]
  BY DEF Structure, Definition

LEMMA UsedType ==
    ASSUME NEW t \in 0 .. MaxTime, NEW s, StoreOK(s, t)
    PROVE  /\ Free \notin Structures(t)
           /\ \A i \in Used(s) : i \in Slots /\ s[i] \in Structures(t)
           /\ \A i \in Slots : i \notin Used(s) => s[i] = Free
<1>1. Structures(t) \subseteq Structures(MaxTime)
  <2>1. 0 .. t \subseteq 0 .. MaxTime
    BY HkAssumption
  <2> QED
    BY <2>1 DEF Structures
<1>2. Free \notin Structures(t)
  BY <1>1, NamesAssumption
<1> QED
  BY <1>2 DEF Used, StoreOK

LEMMA StructureType ==
    ASSUME NEW t, NEW x \in Structures(t)
    PROVE  /\ x.sid \in Sids /\ x.sid \notin Reserved /\ x.last_emit \in 0 .. t /\ x.enabled \in BOOLEAN
           /\ x.interval \in 0 .. TimeMod - 1
           /\ Definition(x) \in Records
           /\ Definition(x).sid = x.sid /\ Definition(x).params = x.params
<1>1. x.interval \in {r.interval : r \in Requests}
  BY DEF Structures
<1> QED
  BY <1>1, HkAssumption DEF Structures, Definition, Records

LEMMA StoreLater ==
    ASSUME NEW t \in Nat, NEW u \in Nat, t <= u, NEW s, StoreOK(s, t)
    PROVE  StoreOK(s, u)
<1>1. 0 .. t \subseteq 0 .. u
  OBVIOUS
<1>2. Structures(t) \subseteq Structures(u)
  BY <1>1 DEF Structures
<1> QED
  BY <1>2 DEF StoreOK

LEMMA SlotsFinite ==
    /\ IsFiniteSet(Slots) /\ Cardinality(Slots) = Capacity
    /\ \A T \in SUBSET Slots : IsFiniteSet(T) /\ Cardinality(T) \in 0 .. Capacity
<1>1. IsFiniteSet(Slots) /\ Cardinality(Slots) = Capacity
  BY FS_Interval, HkAssumption DEF Slots
<1>2. ASSUME NEW T \in SUBSET Slots
      PROVE  IsFiniteSet(T) /\ Cardinality(T) \in 0 .. Capacity
  <2>1. IsFiniteSet(T) /\ Cardinality(T) <= Capacity
    BY <1>1, FS_Subset
  <2>2. Cardinality(T) \in Nat
    BY <2>1, FS_CardinalityType
  <2> QED
    BY <2>1, <2>2, HkAssumption
<1> QED
  BY <1>1, <1>2

LEMMA MinProperties ==
    ASSUME NEW T \in SUBSET Nat, T # {}
    PROVE  Min(T) \in T /\ \A y \in T : Min(T) <= y
  BY LeastNumber DEF Min

----------------------------------------------------------------------------
(* The record *)

(* The scan of the slots, after each of them. *)
Packed(s, q, n) ==
    /\ q \in Seq(Records) /\ Len(q) <= n
    /\ \A k \in DOMAIN q : \E i \in Used(s) : i <= n /\ q[k] = Definition(s[i])
    /\ \A i \in Used(s) : i <= n => \E k \in DOMAIN q : q[k] = Definition(s[i])
    /\ \A j, k \in DOMAIN q : q[j].sid = q[k].sid => j = k
    /\ Len(q) = Cardinality({i \in Used(s) : i <= n})

LEMMA PackedStep ==
    ASSUME NEW t \in 0 .. MaxTime, NEW s, StoreOK(s, t), NEW n \in Nat, NEW q, Packed(s, q, n),
           n + 1 \in Slots
    PROVE  Packed(s, IF s[n + 1] = Free THEN q ELSE Append(q, Definition(s[n + 1])), n + 1)
<1>1. /\ q \in Seq(Records) /\ Len(q) \in Nat /\ Len(q) <= n /\ DOMAIN q = 1 .. Len(q)
  BY LenProperties DEF Packed
<1>2. \A i \in Used(s) : i \in Nat
  BY DEF Used, Slots
<1>3. CASE s[n + 1] = Free
  <2>1. n + 1 \notin Used(s)
    BY <1>3 DEF Used
  <2>2. \A i \in Used(s) : i <= n + 1 <=> i <= n
    BY <1>2, <2>1
  <2>3. Len(q) <= n + 1
    BY <1>1
  <2>4. {i \in Used(s) : i <= n + 1} = {i \in Used(s) : i <= n}
    BY <2>2
  <2> QED
    BY <1>3, <2>2, <2>3, <2>4 DEF Packed
<1>4. CASE s[n + 1] # Free
  <2> DEFINE d == Definition(s[n + 1])
             g == Append(q, d)
  <2>1. n + 1 \in Used(s)
    BY <1>4 DEF Used
  <2>2. d \in Records /\ d.sid = s[n + 1].sid
    BY <2>1, UsedType, StructureType
  <2>3. \A i \in Used(s) : Definition(s[i]).sid = s[i].sid
    BY UsedType, StructureType
  <2> HIDE DEF d
  <2>4. /\ g \in Seq(Records) /\ Len(g) = Len(q) + 1 /\ DOMAIN g = 1 .. Len(q) + 1
        /\ \A k \in 1 .. Len(q) : g[k] = q[k]
        /\ g[Len(q) + 1] = d
    BY <1>1, <2>2, AppendProperties, LenProperties
  <2> HIDE DEF g
  <2>5. \A k \in DOMAIN g : k \in DOMAIN q \/ k = Len(q) + 1
    BY <1>1, <2>4
  <2>6. ASSUME NEW k \in DOMAIN g
        PROVE  \E i \in Used(s) : i <= n + 1 /\ g[k] = Definition(s[i])
    <3>1. CASE k \in DOMAIN q
      <4>1. PICK i \in Used(s) : i <= n /\ q[k] = Definition(s[i])
        BY <3>1 DEF Packed
      <4>2. i <= n + 1
        BY <1>2, <4>1
      <4> QED
        BY <1>1, <2>4, <3>1, <4>1, <4>2
    <3>2. CASE k = Len(q) + 1
      <4>1. n + 1 <= n + 1
        OBVIOUS
      <4> QED
        BY <2>1, <2>4, <3>2, <4>1 DEF d
    <3> QED
      BY <2>5, <3>1, <3>2
  <2>7. ASSUME NEW i \in Used(s), i <= n + 1
        PROVE  \E k \in DOMAIN g : g[k] = Definition(s[i])
    <3>1. CASE i = n + 1
      <4>1. Len(q) + 1 \in DOMAIN g
        BY <1>1, <2>4
      <4> QED
        BY <2>4, <3>1, <4>1 DEF d
    <3>2. CASE i <= n
      <4>1. PICK k \in DOMAIN q : q[k] = Definition(s[i])
        BY <3>2 DEF Packed
      <4>2. k \in DOMAIN g /\ g[k] = q[k]
        BY <1>1, <2>4
      <4> QED
        BY <4>1, <4>2
    <3> QED
      BY <1>2, <2>7, <3>1, <3>2
  <2>8. ASSUME NEW k \in DOMAIN q
        PROVE  q[k].sid # d.sid
    <3>1. PICK i \in Used(s) : i <= n /\ q[k] = Definition(s[i])
      BY DEF Packed
    <3>2. i # n + 1
      BY <1>2, <3>1
    <3>3. s[i].sid # s[n + 1].sid
      BY <2>1, <3>2 DEF StoreOK
    <3> QED
      BY <2>2, <2>3, <3>1, <3>3
  <2>9. ASSUME NEW j \in DOMAIN g, NEW k \in DOMAIN g, g[j].sid = g[k].sid
        PROVE  j = k
    <3>1. CASE j \in DOMAIN q /\ k \in DOMAIN q
      BY <1>1, <2>4, <2>9, <3>1 DEF Packed
    <3>2. CASE j \in DOMAIN q /\ k = Len(q) + 1
      BY <1>1, <2>4, <2>8, <2>9, <3>2
    <3>3. CASE k \in DOMAIN q /\ j = Len(q) + 1
      BY <1>1, <2>4, <2>8, <2>9, <3>3
    <3>4. CASE j = Len(q) + 1 /\ k = Len(q) + 1
      BY <3>4
    <3> QED
      BY <2>5, <3>1, <3>2, <3>3, <3>4
  <2>10. Len(g) <= n + 1
    BY <1>1, <2>4
  <2>11. Len(g) = Cardinality({i \in Used(s) : i <= n + 1})
    <3> DEFINE S == {i \in Used(s) : i <= n}
               T == {i \in Used(s) : i <= n + 1}
    <3>1. n + 1 \notin S /\ T = S \cup {n + 1}
      BY <1>2, <2>1
    <3>2. IsFiniteSet(S) /\ Cardinality(S) = Len(q)
      BY SlotsFinite DEF Used, Packed
    <3> HIDE DEF S, T
    <3>3. Cardinality(T) = Cardinality(S) + 1
      BY <3>1, <3>2, FS_AddElement
    <3>4. Len(g) = Cardinality(T)
      BY <1>1, <2>4, <3>2, <3>3
    <3> QED
      BY <3>4 DEF T
  <2>12. Packed(s, g, n + 1)
    BY <2>4, <2>6, <2>7, <2>9, <2>10, <2>11 DEF Packed
  <2> QED
    BY <1>4, <2>12 DEF d, g
<1> QED
  BY <1>3, <1>4


(* migris_hkstore_serialize writes each structure in use once. *)
LEMMA SerializePacks ==
    ASSUME NEW t \in 0 .. MaxTime, StoreOK(slots, t)
    PROVE  Packed(slots, PackedUpto(Capacity), Capacity)
<1> DEFINE V == Seq(Records)
           Next(i, q) == IF slots[i] = Free THEN q ELSE Append(q, Definition(slots[i]))
           step == [i \in 1 .. Capacity |-> [q \in V |-> Next(i, q)]]
           IsScan(f) == f = [i \in 0 .. Capacity |->
                               IF i = 0 THEN <<>>
                               ELSE IF slots[i] = Free THEN f[i - 1]
                               ELSE Append(f[i - 1], Definition(slots[i]))]
           packed == CHOOSE f : IsScan(f)
<1>1. PackedUpto(Capacity) = packed[Capacity]
  BY DEF PackedUpto
<1>2. Capacity \in Nat /\ Slots = 1 .. Capacity
  BY HkAssumption DEF Slots
<1>3. \A i \in 1 .. Capacity, q \in V : Next(i, q) \in V
  <2> SUFFICES ASSUME NEW i \in 1 .. Capacity, NEW q \in V
               PROVE  Next(i, q) \in V
    OBVIOUS
  <2>1. CASE slots[i] = Free
    BY <2>1
  <2>2. CASE slots[i] # Free
    <3>1. Definition(slots[i]) \in Records
      BY <1>2, <2>2, UsedType, StructureType DEF Used
    <3> QED
      BY <2>2, <3>1, AppendProperties
  <2> QED
    BY <2>1, <2>2
<1>4. PICK f : Iterates(f, Capacity, V, <<>>, step)
  <2>1. <<>> \in V
    BY EmptySeq
  <2>2. step \in [1 .. Capacity -> [V -> V]]
    BY <1>3
  <2> HIDE DEF step, V
  <2> QED
    BY <1>2, <2>1, <2>2, Recursion
<1>5. IsScan(f)
  <2>1. f \in [0 .. Capacity -> V] /\ f[0] = <<>>
    BY <1>4 DEF Iterates
  <2>2. ASSUME NEW i \in 1 .. Capacity
        PROVE  f[i] = Next(i, f[i - 1])
    <3>1. f[i] = step[i][f[i - 1]]
      BY <1>4 DEF Iterates
    <3>2. f[i - 1] \in V
      BY <1>2, <2>1
    <3> QED
      BY <3>1, <3>2
  <2>3. ASSUME NEW i \in 0 .. Capacity
        PROVE  f[i] = IF i = 0 THEN <<>>
                      ELSE IF slots[i] = Free THEN f[i - 1] ELSE Append(f[i - 1], Definition(slots[i]))
    <3>1. CASE i = 0
      BY <2>1, <3>1
    <3>2. CASE i # 0
      <4>1. i \in 1 .. Capacity
        BY <1>2, <3>2
      <4> QED
        BY <2>2, <3>2, <4>1
    <3> QED
      BY <3>1, <3>2
  <2> QED
    BY <2>1, <2>3
<1>6. IsScan(packed)
  <2> HIDE DEF IsScan
  <2> QED
    BY <1>5, Zenon
<1> HIDE DEF packed
<1>7. packed[0] = <<>> /\ \A n \in 0 .. Capacity - 1 : packed[n + 1] = Next(n + 1, packed[n])
  <2>1. packed[0] = <<>>
    BY <1>2, <1>6
  <2>2. ASSUME NEW n \in 0 .. Capacity - 1
        PROVE  packed[n + 1] = Next(n + 1, packed[n])
    <3>1. n + 1 \in 0 .. Capacity /\ n + 1 # 0 /\ n + 1 - 1 = n
      BY <1>2
    <3>2. \A i \in 0 .. Capacity : i # 0 => packed[i] = Next(i, packed[i - 1])
      BY <1>6
    <3>3. packed[n + 1] = Next(n + 1, packed[n + 1 - 1])
      BY <3>1, <3>2
    <3> QED
      BY <3>1, <3>3
  <2> QED
    BY <2>1, <2>2
<1> DEFINE T == {n \in Nat : n <= Capacity => Packed(slots, packed[n], n)}
<1>8. 0 \in T
  <2>1. \A i \in Used(slots) : ~(i <= 0)
    BY DEF Used, Slots
  <2>2. {i \in Used(slots) : i <= 0} = {}
    BY <2>1
  <2>3. Packed(slots, <<>>, 0)
    BY <2>1, <2>2, FS_EmptySet DEF Packed
  <2> QED
    BY <1>7, <2>3
<1>9. ASSUME NEW n \in Nat, n \in T
      PROVE  n + 1 \in T
  <2> SUFFICES ASSUME n + 1 <= Capacity
               PROVE  Packed(slots, packed[n + 1], n + 1)
    OBVIOUS
  <2>1. n \in 0 .. Capacity - 1 /\ n + 1 \in Slots /\ n <= Capacity
    BY <1>2
  <2>2. Packed(slots, packed[n], n)
    BY <1>9, <2>1
  <2>3. Packed(slots, Next(n + 1, packed[n]), n + 1)
    BY <2>1, <2>2, PackedStep
  <2> QED
    BY <1>7, <2>1, <2>3
<1> HIDE DEF T
<1>10. Capacity \in T
  BY <1>2, <1>8, <1>9, Induction
<1>11. Packed(slots, packed[Capacity], Capacity)
  BY <1>2, <1>10 DEF T
<1> QED
  BY <1>1, <1>11

(* ... so that the count is the number of entries, and each is readable. *)
LEMMA SerializeIsAccepted ==
    ASSUME NEW t \in 0 .. MaxTime, StoreOK(slots, t), count = Cardinality(Used(slots))
    PROVE  /\ Accepted(Serialize.entries) /\ Contents(Serialize.entries) = Definitions(slots)
           /\ Serialize.count = Len(Serialize.entries)
<1> DEFINE q == PackedUpto(Capacity)
<1>0. Serialize.entries = q /\ Serialize.count = count
  BY DEF Serialize
<1>1. Packed(slots, q, Capacity)
  BY SerializePacks
<1>2. \A i \in Used(slots) : i \in Slots /\ i <= Capacity /\ slots[i] \in Structures(t)
  BY UsedType, HkAssumption DEF Slots
<1> HIDE DEF q
<1>3. ASSUME NEW k \in DOMAIN q
      PROVE  Readable(q[k]) /\ q[k] \in Definitions(slots)
  <2>1. PICK i \in Used(slots) : q[k] = Definition(slots[i])
    BY <1>1 DEF Packed
  <2>2. slots[i] \in Structures(t) /\ Len(slots[i].params) <= MaxParams
    BY <1>2 DEF StoreOK
  <2>3. Readable(q[k])
    BY <2>1, <2>2, StructureType DEF Readable
  <2> QED
    BY <2>1, <2>3 DEF Definitions, Used
<1>4. Definitions(slots) \subseteq Contents(q)
  <2> SUFFICES ASSUME NEW i \in Used(slots)
               PROVE  Definition(slots[i]) \in Contents(q)
    BY DEF Definitions, Used
  <2> QED
    BY <1>1, <1>2 DEF Packed, Contents
<1>5. Contents(q) \subseteq Definitions(slots)
  BY <1>3 DEF Contents
<1>6. Accepted(q)
  BY <1>1, <1>3 DEF Accepted, Packed
<1>7. count = Len(q)
  <2>1. {i \in Used(slots) : i <= Capacity} = Used(slots)
    BY <1>2
  <2> QED
    BY <1>1, <2>1 DEF Packed
<1> QED
  BY <1>0, <1>4, <1>5, <1>6, <1>7

(* migris_hkstore_deserialize of any record: a store, which holds the       *)
(* first count entries if the record is accepted, and nothing if not.       *)
LEMMA DeserializeLoads ==
    ASSUME NEW f, f.count \in Nat, f.entries \in Seq(Entries)
    PROVE  /\ Loads(f)
           /\ Restorable(f) => Definitions(Deserialize(f)) = {f.entries[k] : k \in 1 .. f.count}
<1> DEFINE s == Deserialize(f)
           e == f.entries
           n == f.count
<1>0. Capacity \in Nat /\ n \in Nat /\ Slots = 1 .. Capacity
  BY HkAssumption DEF Slots
<1>1. CASE ~Restorable(f)
  <2>1. s = AllFree /\ RestoredCount(f) = 0
    BY <1>1 DEF Deserialize, RestoredCount
  <2>2. Used(s) = {} /\ s \in [Slots -> {Free} \cup Structures(0)]
    BY <2>1 DEF Used, AllFree
  <2>3. StoreOK(s, 0)
    BY <2>2 DEF StoreOK
  <2>4. Cardinality(Used(s)) = 0
    BY <2>2, FS_EmptySet
  <2> QED
    BY <1>1, <2>1, <2>2, <2>3, <2>4 DEF Loads
<1>2. CASE Restorable(f)
  <2>1. s = [i \in Slots |-> IF i <= n THEN Rearmed(e[i]) ELSE Free] /\ RestoredCount(f) = n
    BY <1>2 DEF Deserialize, RestoredCount
  <2>2. n <= Capacity /\ n <= Len(e)
    BY <1>2 DEF Restorable
  <2>3. ASSUME NEW k \in 1 .. n
        PROVE  /\ k \in Slots /\ s[k] = Rearmed(e[k]) /\ Rearmed(e[k]) \in Structures(0)
               /\ Rearmed(e[k]).sid = e[k].sid /\ Len(Rearmed(e[k]).params) <= MaxParams
               /\ Rearmed(e[k]).last_emit = 0 /\ Definition(Rearmed(e[k])) = e[k]
    <3>1. k \in Slots /\ k <= n
      BY <1>0, <2>2
    <3>2. e[k] \in Entries
      <4>1. Len(e) \in Nat
        BY LenProperties
      <4>2. k \in 1 .. Len(e)
        BY <1>0, <2>2, <4>1
      <4> QED
        BY <4>2, ElementOfSeq
    <3>3. Readable(e[k])
      BY <1>2 DEF Restorable
    <3>4. \A d \in Entries : Readable(d) =>
            /\ Rearmed(d) \in Structures(0) /\ Rearmed(d).sid = d.sid
            /\ Len(Rearmed(d).params) <= MaxParams
            /\ Rearmed(d).last_emit = 0 /\ Definition(Rearmed(d)) = d
      <4> SUFFICES ASSUME NEW d \in Entries, Readable(d)
                   PROVE  /\ Rearmed(d) \in Structures(0) /\ Rearmed(d).sid = d.sid
                          /\ Len(Rearmed(d).params) <= MaxParams
                          /\ Rearmed(d).last_emit = 0 /\ Definition(Rearmed(d)) = d
        OBVIOUS
      <4>1. Rearmed(d) \in Structures(0)
        BY DEF Rearmed, Structure, Structures, Entries, Readable
      <4>2. Definition(Rearmed(d)) = d
        BY DEF Rearmed, Structure, Definition, Entries
      <4>3. Len(d.params) <= MaxParams
        BY DEF Readable
      <4> QED
        BY <4>1, <4>2, <4>3, StructureFields DEF Rearmed
    <3> QED
      BY <2>1, <3>1, <3>2, <3>3, <3>4
  <2>4. \A i \in Slots : i \in 1 .. n \/ s[i] = Free
    BY <1>0, <2>1
  <2>5. Free \notin Structures(0)
    <3>1. 0 .. 0 \subseteq 0 .. MaxTime
      BY HkAssumption
    <3>2. Structures(0) \subseteq Structures(MaxTime)
      BY <3>1 DEF Structures
    <3> QED
      BY <3>2, NamesAssumption
  <2>6. \A j, k \in 1 .. n : e[j].sid = e[k].sid => j = k
    BY <1>2 DEF Restorable
  <2>7. s \in [Slots -> {Free} \cup Structures(0)]
    <3>1. \A i \in Slots : s[i] \in {Free} \cup Structures(0)
      BY <2>3, <2>4
    <3> QED
      BY <2>1, <3>1
  <2> HIDE DEF s, e, n
  <2>8. Used(s) = 1 .. n
    BY <2>3, <2>4, <2>5 DEF Used
  <2>9. StoreOK(s, 0)
    <3>1. \A i, j \in Used(s) : s[i].sid = s[j].sid => i = j
      BY <2>3, <2>6, <2>8
    <3>2. \A i \in Used(s) : Len(s[i].params) <= MaxParams
      BY <2>3, <2>8
    <3> QED
      BY <2>7, <3>1, <3>2 DEF StoreOK
  <2>10. Cardinality(Used(s)) = n
    BY <1>0, <2>8, FS_Interval
  <2>11. \A i \in Used(s) : s[i].last_emit = 0
    BY <2>3, <2>8
  <2>12. Definitions(s) = {e[k] : k \in 1 .. n}
    <3>1. Definitions(s) = {Definition(s[i]) : i \in Used(s)}
      BY DEF Definitions, Used
    <3>2. \A i \in 1 .. n : Definition(s[i]) = e[i]
      BY <2>3
    <3> QED
      BY <2>8, <3>1, <3>2
  <2> QED
    BY <2>1, <2>9, <2>10, <2>11, <2>12 DEF Loads, s, e, n
<1> QED
  BY <1>1, <1>2

(* Saving and restoring, with all the checks of the latter, keeps every     *)
(* structure.                                                               *)
LEMMA SerializeRestores ==
    ASSUME NEW t \in 0 .. MaxTime, StoreOK(slots, t), count = Cardinality(Used(slots))
    PROVE  Loads(Serialize) /\ Definitions(Deserialize(Serialize)) = Definitions(slots)
<1> DEFINE f == Serialize
           q == f.entries
<1>1. Accepted(q) /\ Contents(q) = Definitions(slots) /\ f.count = Len(q)
  BY SerializeIsAccepted
<1> HIDE DEF f
<1>2. q \in Seq(Records) /\ Len(q) \in Nat /\ Len(q) <= Capacity /\ DOMAIN q = 1 .. Len(q)
  BY <1>1, LenProperties DEF Accepted
<1>3. q \in Seq(Entries)
  <2>1. Records \subseteq Entries
    BY DEF Records, Entries
  <2> QED
    BY <1>2, <2>1, ElementOfSeq, SeqDef
<1>4. Restorable(f)
  BY <1>1, <1>2 DEF Accepted, Restorable
<1>5. Definitions(Deserialize(f)) = {q[k] : k \in 1 .. Len(q)} /\ Loads(f)
  BY <1>1, <1>2, <1>3, <1>4, DeserializeLoads
<1>6. {q[k] : k \in 1 .. Len(q)} = Contents(q)
  BY <1>2 DEF Contents
<1> QED
  BY <1>1, <1>5, <1>6 DEF f

----------------------------------------------------------------------------
(* The emission *)

(* Unsigned subtraction of a stamp that is not in the future. *)
LEMMA ElapsedSince ==
    ASSUME now \in 0 .. MaxTime, NEW x \in 0 .. now
    PROVE  Elapsed(x) = now - x
<1>1. now \in Int /\ x \in Int /\ 0 <= now - x /\ now - x < TimeMod /\ TimeMod \in Nat \ {0}
  BY HkAssumption
<1>2. now - x \in Int
  BY <1>1
<1> QED
  BY <1>1, <1>2, ModSmall DEF Elapsed

LEMMA DueType ==
    ASSUME now \in 0 .. MaxTime, StoreOK(slots, now), NEW i \in DueSlots
    PROVE  /\ i \in Used(slots) /\ i \in Slots /\ slots[i] \in Structures(now)
           /\ slots[i].last_emit \in 0 .. now /\ slots[i].interval \in Nat \ {0}
           /\ now - slots[i].last_emit >= slots[i].interval
<1>1. i \in Slots /\ Due(i)
  BY DEF DueSlots
<1>2. i \in Used(slots) /\ slots[i] \in Structures(now) /\ slots[i].interval # 0
  BY <1>1, UsedType DEF Due, Used
<1>3. slots[i].last_emit \in 0 .. now /\ slots[i].interval \in Nat
  BY <1>2, StructureType, HkAssumption
<1>4. Elapsed(slots[i].last_emit) = now - slots[i].last_emit
  BY <1>3, ElapsedSince
<1> QED
  BY <1>1, <1>2, <1>3, <1>4 DEF Due

(* migris_hkstore_due finds the due structure with the oldest stamp. *)
LEMMA BestProperties ==
    ASSUME now \in 0 .. MaxTime, StoreOK(slots, now), DueSlots # {}
    PROVE  Best \in DueSlots /\ \A j \in DueSlots : slots[Best].last_emit <= slots[j].last_emit
<1> DEFINE E == {slots[i].last_emit : i \in DueSlots}
<1>1. \A i \in DueSlots : i \in Nat /\ slots[i].last_emit \in Nat
  BY DueType DEF Slots
<1>2. PICK e \in E : \A y \in E : e <= y
  <2>1. E \in SUBSET Nat /\ E # {}
    BY <1>1
  <2> QED
    BY <2>1, LeastNumber
<1> DEFINE I == {i \in DueSlots : slots[i].last_emit = e}
<1>3. PICK i \in I : \A y \in I : i <= y
  <2>1. I \in SUBSET Nat /\ I # {}
    BY <1>1, <1>2
  <2> QED
    BY <2>1, LeastNumber
<1>4. ASSUME NEW j \in DueSlots
      PROVE  \/ slots[i].last_emit < slots[j].last_emit
             \/ slots[i].last_emit = slots[j].last_emit /\ i <= j
  <2>1. e <= slots[j].last_emit /\ e \in Nat /\ slots[j].last_emit \in Nat
    BY <1>1, <1>2
  <2>2. CASE e = slots[j].last_emit
    BY <1>3, <2>2
  <2>3. CASE e < slots[j].last_emit
    BY <1>3, <2>3
  <2> QED
    BY <2>1, <2>2, <2>3
<1>5. \E k \in DueSlots : \A j \in DueSlots :
          \/ slots[k].last_emit < slots[j].last_emit
          \/ slots[k].last_emit = slots[j].last_emit /\ k <= j
  BY <1>3, <1>4
<1>6. /\ Best \in DueSlots
      /\ \A j \in DueSlots :
            \/ slots[Best].last_emit < slots[j].last_emit
            \/ slots[Best].last_emit = slots[j].last_emit /\ Best <= j
  BY <1>5, Zenon DEF Best
<1> QED
  BY <1>1, <1>6

(* A slot that is written keeps its structure, but for the stamp or flag. *)
Touched(s, u, b) ==
    /\ Used(u) = Used(s)
    /\ \A i \in Slots : i # b => u[i] = s[i]
    /\ u[b].sid = s[b].sid /\ u[b].params = s[b].params

LEMMA TouchedStore ==
    ASSUME NEW t \in 0 .. MaxTime, NEW s, NEW u, StoreOK(s, t), NEW b \in Used(s),
           u \in [Slots -> {Free} \cup Structures(t)], Touched(s, u, b)
    PROVE  StoreOK(u, t)
<1>1. \A i \in Used(s) : i \in Slots /\ u[i].sid = s[i].sid /\ u[i].params = s[i].params
  BY DEF Touched, Used
<1> QED
  BY <1>1 DEF StoreOK, Touched

LEMMA StampSlot ==
    ASSUME now \in 0 .. MaxTime, StoreOK(slots, now), NEW b \in Used(slots), NEW u,
           u = [slots EXCEPT ![b].last_emit = now]
    PROVE  /\ Touched(slots, u, b) /\ StoreOK(u, now)
           /\ u[b].last_emit = now /\ Definition(u[b]) = Definition(slots[b])
<1>1. b \in Slots /\ slots[b] \in Structures(now) /\ Free \notin Structures(now)
  BY UsedType
<1> DEFINE x == [slots[b] EXCEPT !.last_emit = now]
<1>2. now \in 0 .. now
  BY HkAssumption
<1>3. /\ x \in Structures(now) /\ x.sid = slots[b].sid /\ x.params = slots[b].params /\ x.last_emit = now
      /\ Definition(x) = Definition(slots[b])
  BY <1>1, <1>2 DEF Structures, Definition
<1>4. slots \in [Slots -> {Free} \cup Structures(now)]
  BY DEF StoreOK
<1>5. u = [slots EXCEPT ![b] = x]
  BY <1>1, <1>4
<1> HIDE DEF x
<1>6. u[b] = x /\ (\A i \in Slots : i # b => u[i] = slots[i]) /\ u \in [Slots -> {Free} \cup Structures(now)]
  BY <1>1, <1>3, <1>4, <1>5
<1>7. Used(u) = Used(slots)
  <2>1. u[b] # Free /\ slots[b] # Free
    BY <1>1, <1>3, <1>6
  <2>2. \A i \in Slots : u[i] # Free <=> slots[i] # Free
    BY <1>6, <2>1
  <2> QED
    BY <2>2 DEF Used
<1>8. Touched(slots, u, b)
  BY <1>3, <1>6, <1>7 DEF Touched
<1> QED
  BY <1>3, <1>6, <1>8, TouchedStore

LEMMA FlagSlot ==
    ASSUME now \in 0 .. MaxTime, StoreOK(slots, now), NEW b \in Used(slots), NEW next \in BOOLEAN, NEW u,
           u = [slots EXCEPT ![b].enabled = next]
    PROVE  /\ Touched(slots, u, b) /\ StoreOK(u, now)
           /\ u[b].last_emit = slots[b].last_emit
<1>1. b \in Slots /\ slots[b] \in Structures(now) /\ Free \notin Structures(now)
  BY UsedType
<1> DEFINE x == [slots[b] EXCEPT !.enabled = next]
<1>3. /\ x \in Structures(now) /\ x.sid = slots[b].sid /\ x.params = slots[b].params
      /\ x.last_emit = slots[b].last_emit
  BY <1>1 DEF Structures
<1>4. slots \in [Slots -> {Free} \cup Structures(now)]
  BY DEF StoreOK
<1>5. u = [slots EXCEPT ![b] = x]
  BY <1>1, <1>4
<1> HIDE DEF x
<1>6. u[b] = x /\ (\A i \in Slots : i # b => u[i] = slots[i]) /\ u \in [Slots -> {Free} \cup Structures(now)]
  BY <1>1, <1>3, <1>4, <1>5
<1>7. Used(u) = Used(slots)
  <2>1. u[b] # Free /\ slots[b] # Free
    BY <1>1, <1>3, <1>6
  <2>2. \A i \in Slots : u[i] # Free <=> slots[i] # Free
    BY <1>6, <2>1
  <2> QED
    BY <2>2 DEF Used
<1>8. Touched(slots, u, b)
  BY <1>3, <1>6, <1>7 DEF Touched
<1> QED
  BY <1>3, <1>6, <1>8, TouchedStore


----------------------------------------------------------------------------
(* The steps *)

LEMMA EmitDueStep == HInv /\ EmitDue => HInv'
<1> SUFFICES ASSUME HInv, EmitDue
             PROVE  HInv'
  OBVIOUS
<1> DEFINE b == Best
<1>1. /\ now \in 0 .. MaxTime /\ StoreOK(slots, now) /\ Stamped(slots, sent, now) /\ Ordered(slots, passed)
      /\ count = Cardinality(Used(slots))
  BY DEF HInv, ClockOK
<1>2. DueSlots # {} /\ slots' = [slots EXCEPT ![b].last_emit = now]
  BY DEF EmitDue
<1>3. /\ sent' = IF Resolves(slots[b]) THEN [sent EXCEPT ![slots[b].sid] = now] ELSE sent
      /\ passed' = [i \in Slots |-> IF i # b /\ Due(i) THEN passed[i] \cup {b} ELSE {}]
      /\ phase' = "released" /\ UNCHANGED <<count, dirty, flash, now, period, last_hk>>
  BY DEF EmitDue
<1>4. b \in DueSlots
  BY <1>1, <1>2, BestProperties
<1> HIDE DEF b
<1>5. b \in Used(slots) /\ b \in Slots /\ slots[b] \in Structures(now)
  BY <1>1, <1>4, DueType
<1>6. /\ Touched(slots, slots', b) /\ StoreOK(slots', now) /\ slots'[b].last_emit = now
      /\ Definition(slots'[b]) = Definition(slots[b])
  BY <1>1, <1>2, <1>5, StampSlot
<1>7. Used(slots') = Used(slots) /\ (\A i \in Slots : i # b => slots'[i] = slots[i]) /\ slots'[b].sid = slots[b].sid
  BY <1>6 DEF Touched
<1>8. slots[b].sid \in Sids /\ slots[b].sid # "framework" /\ now \in 0 .. now /\ now \in Nat
  BY <1>1, <1>5, StructureType, NamesAssumption, HkAssumption
<1>9. sent' \in [Sids \cup {"framework"} -> 0 .. now]
  BY <1>1, <1>3, <1>8 DEF Stamped
<1>10. sent'["framework"] = sent["framework"]
  BY <1>1, <1>3, <1>8 DEF Stamped
<1>11. ASSUME NEW i \in Used(slots)
       PROVE  sent'[slots'[i].sid] <= slots'[i].last_emit
  <2>1. i \in Slots /\ slots[i].sid \in Sids
    BY <1>1, UsedType, StructureType
  <2>2. CASE i = b
    <3>1. sent'[slots[b].sid] \in 0 .. now
      BY <1>8, <1>9
    <3> QED
      BY <1>6, <1>7, <1>8, <2>2, <3>1
  <2>3. CASE i # b
    <3>1. slots[i].sid # slots[b].sid
      BY <1>1, <1>5, <2>3 DEF StoreOK
    <3>2. sent'[slots[i].sid] = sent[slots[i].sid]
      BY <1>1, <1>3, <2>1, <3>1 DEF Stamped
    <3> QED
      BY <1>1, <1>7, <2>1, <2>3, <3>2 DEF Stamped
  <2> QED
    BY <2>2, <2>3
<1>12. Stamped(slots', sent', now)
  BY <1>7, <1>9, <1>11 DEF Stamped
<1>13. Ordered(slots', passed')
  <2>1. passed' \in [Slots -> SUBSET Slots]
    BY <1>1, <1>3, <1>5 DEF Ordered
  <2>2. ASSUME NEW i \in Slots, NEW c \in passed'[i]
        PROVE  i \in Used(slots) /\ c \in Used(slots) /\ slots'[i].last_emit < slots'[c].last_emit
    <3>1. i # b /\ Due(i) /\ (c \in passed[i] \/ c = b)
      BY <1>3
    <3>2. i \in DueSlots
      BY <3>1 DEF DueSlots
    <3>3. i \in Used(slots) /\ slots[i].last_emit \in 0 .. now /\ slots[i].last_emit < now
      <4>1. /\ i \in Used(slots) /\ slots[i].last_emit \in 0 .. now /\ slots[i].interval \in Nat \ {0}
            /\ now - slots[i].last_emit >= slots[i].interval
        BY <1>1, <3>2, DueType
      <4> QED
        BY <1>8, <4>1
    <3>4. slots'[i] = slots[i]
      BY <1>7, <3>1
    <3>5. CASE c = b
      BY <1>5, <1>6, <3>3, <3>4, <3>5
    <3>6. CASE c # b
      <4>1. c \in passed[i] /\ c \in Slots
        BY <1>1, <3>1, <3>6 DEF Ordered
      <4>2. c \in Used(slots) /\ slots[i].last_emit < slots[c].last_emit
        BY <1>1, <4>1 DEF Ordered
      <4> QED
        BY <1>7, <3>3, <3>4, <3>6, <4>1, <4>2
    <3> QED
      BY <3>5, <3>6
  <2> QED
    BY <1>7, <2>1, <2>2 DEF Ordered
<1>14. Definitions(slots') = Definitions(slots)
  <2>1. Definitions(slots') = {Definition(slots'[i]) : i \in Used(slots')}
    BY DEF Definitions, Used
  <2>2. Definitions(slots) = {Definition(slots[i]) : i \in Used(slots)}
    BY DEF Definitions, Used
  <2>3. \A i \in Used(slots) : Definition(slots'[i]) = Definition(slots[i])
    BY <1>6, <1>7 DEF Used
  <2> QED
    BY <1>7, <2>1, <2>2, <2>3
<1>15. SavedOK'
  BY <1>3, <1>14 DEF HInv, SavedOK, CleanMeansRestored
<1>16. ClockOK'
  BY <1>3, <1>10 DEF HInv, ClockOK
<1>17. RestOK'
  BY <1>3 DEF HInv, RestOK
<1>18. now' = now /\ count' = count
  BY <1>3
<1> QED
  BY <1>1, <1>6, <1>7, <1>12, <1>13, <1>15, <1>16, <1>17, <1>18 DEF HInv

LEMMA SaveTickStep == HInv /\ SaveTick => HInv'
<1> SUFFICES ASSUME HInv, SaveTick
             PROVE  HInv'
  OBVIOUS
<1>1. /\ now \in 0 .. MaxTime /\ StoreOK(slots, now) /\ last_hk \in 0 .. now
      /\ count = Cardinality(Used(slots))
  BY DEF HInv, ClockOK
<1>2. /\ now' \in now .. Min({MaxTime, now + MaxStep})
      /\ flash' = (IF dirty THEN Serialize ELSE flash) /\ dirty' = FALSE /\ phase' = "hk"
      /\ slots' = slots /\ count' = count /\ period' = period /\ last_hk' = last_hk
      /\ sent' = sent /\ passed' = passed
  BY DEF SaveTick, store, past
<1>3. now' \in Nat /\ now \in Nat /\ now <= now' /\ now' <= MaxTime
  <2> DEFINE T == {MaxTime, now + MaxStep}
  <2>1. T \in SUBSET Nat /\ T # {} /\ MaxTime \in T
    BY <1>1, HkAssumption
  <2>2. now' \in now .. Min(T)
    BY <1>2
  <2> HIDE DEF T
  <2>3. Min(T) \in Nat /\ Min(T) <= MaxTime
    BY <2>1, MinProperties
  <2> QED
    BY <1>1, <2>2, <2>3, HkAssumption
<1>4. StoreOK(slots, now')
  BY <1>1, <1>3, StoreLater
<1>5. Loads(flash') /\ Definitions(Deserialize(flash')) = Definitions(slots)
  <2>1. CASE dirty
    BY <1>1, <1>2, <2>1, SerializeRestores
  <2>2. CASE ~dirty
    BY <1>2, <2>2 DEF HInv, SavedOK, CleanMeansRestored
  <2> QED
    BY <2>1, <2>2
<1>6. SavedOK'
  BY <1>2, <1>5 DEF SavedOK, CleanMeansRestored
<1>7. 0 .. now \subseteq 0 .. now'
  BY <1>3
<1>8. Stamped(slots, sent, now')
  BY <1>7 DEF HInv, Stamped
<1>9. ClockOK'
  BY <1>1, <1>2, <1>3, <1>7, HkAssumption DEF HInv, ClockOK
<1>10. RestOK'
  BY <1>2 DEF HInv, RestOK
<1> QED
  BY <1>2, <1>4, <1>6, <1>8, <1>9, <1>10 DEF HInv

LEMMA EmitFrameworkStep == HInv /\ EmitFramework => HInv'
<1> SUFFICES ASSUME HInv, EmitFramework
             PROVE  HInv'
  OBVIOUS
<1>1. /\ now \in 0 .. MaxTime /\ StoreOK(slots, now) /\ last_hk \in 0 .. now
      /\ Stamped(slots, sent, now) /\ sent["framework"] <= last_hk
  BY DEF HInv, ClockOK
<1>2. /\ \/ last_hk' = now /\ sent' = [sent EXCEPT !["framework"] = now]
         \/ last_hk' = last_hk /\ sent' = sent
      /\ phase' = "dyn" /\ slots' = slots /\ count' = count
      /\ UNCHANGED <<dirty, flash, now, period, passed>>
  BY DEF EmitFramework, store
<1>3. now \in Nat /\ now \in 0 .. now
  BY <1>1, HkAssumption
<1>4. Stamped(slots, sent', now) /\ sent'["framework"] <= last_hk' /\ last_hk' \in 0 .. now
  <2>1. CASE last_hk' = last_hk /\ sent' = sent
    BY <1>1, <2>1
  <2>2. CASE last_hk' = now /\ sent' = [sent EXCEPT !["framework"] = now]
    <3>1. sent' \in [Sids \cup {"framework"} -> 0 .. now] /\ sent'["framework"] = now
      BY <1>1, <1>3, <2>2 DEF Stamped
    <3>2. ASSUME NEW i \in Used(slots)
          PROVE  sent'[slots[i].sid] <= slots[i].last_emit
      <4>1. slots[i].sid \in Sids /\ slots[i].sid # "framework"
        BY <1>1, UsedType, StructureType, NamesAssumption
      <4>2. sent'[slots[i].sid] = sent[slots[i].sid]
        BY <1>1, <2>2, <4>1 DEF Stamped
      <4> QED
        BY <1>1, <4>2 DEF Stamped
    <3> QED
      BY <1>3, <2>2, <3>1, <3>2 DEF Stamped
  <2> QED
    BY <1>2, <2>1, <2>2
<1>5. SavedOK'
  BY <1>2 DEF HInv, SavedOK, CleanMeansRestored
<1>6. RestOK'
  BY <1>2 DEF HInv, RestOK
<1>7. ClockOK'
  BY <1>1, <1>2, <1>4 DEF ClockOK
<1> QED
  BY <1>1, <1>2, <1>4, <1>5, <1>6, <1>7 DEF HInv

LEMMA RebootStep == HInv /\ Reboot => HInv'
<1> SUFFICES ASSUME HInv, Reboot
             PROVE  HInv'
  OBVIOUS
<1> DEFINE s == Deserialize(flash)
<1>1. Loads(flash)
  BY DEF HInv, SavedOK
<1>2. /\ slots' = s /\ count' = RestoredCount(flash)
      /\ dirty' = FALSE /\ now' = 0 /\ last_hk' = 0 /\ phase' = "top"
      /\ sent' = [x \in DOMAIN sent |-> 0] /\ passed' = [i \in Slots |-> {}]
      /\ flash' = flash /\ period' = period
  BY DEF Reboot
<1>3. /\ StoreOK(s, 0) /\ RestoredCount(flash) = Cardinality(Used(s))
      /\ \A i \in Used(s) : s[i].last_emit = 0
  BY <1>1 DEF Loads
<1>4. SavedOK'
  BY <1>1, <1>2 DEF SavedOK, CleanMeansRestored
<1> HIDE DEF s
<1>5. count' = Cardinality(Used(slots'))
  BY <1>2, <1>3
<1>6. DOMAIN sent = Sids \cup {"framework"}
  BY DEF HInv, Stamped
<1>7. \A i \in Used(s) : s[i].sid \in Sids
  <2>1. 0 \in 0 .. MaxTime
    BY HkAssumption
  <2> QED
    BY <1>3, <2>1, UsedType, StructureType
<1>8. Stamped(s, sent', 0)
  <2>1. \A x \in Sids \cup {"framework"} : sent'[x] = 0
    BY <1>2, <1>6
  <2>2. sent' \in [Sids \cup {"framework"} -> 0 .. 0]
    BY <1>2, <1>6
  <2>3. \A i \in Used(s) : sent'[s[i].sid] <= s[i].last_emit
    BY <1>3, <1>7, <2>1
  <2> QED
    BY <2>2, <2>3 DEF Stamped
<1>9. Ordered(s, passed')
  BY <1>2 DEF Ordered
<1>10. ClockOK'
  <2>1. sent'["framework"] = 0
    BY <1>2, <1>6
  <2> QED
    BY <1>2, <2>1, HkAssumption DEF ClockOK
<1>11. RestOK'
  BY <1>2 DEF HInv, RestOK
<1> QED
  BY <1>2, <1>3, <1>4, <1>5, <1>8, <1>9, <1>10, <1>11 DEF HInv


(* A step that leaves the store, the record and the clock alone. *)
LEMMA OtherStep ==
    ASSUME HInv, UNCHANGED <<slots, count, dirty, flash, now, last_hk, sent, passed>>, RestOK'
    PROVE  HInv'
  BY DEF HInv, SavedOK, CleanMeansRestored, ClockOK

LEMMA CreateStep ==
    ASSUME HInv, NEW r \in Requests, Create(r)
    PROVE  HInv'
<1>1. /\ now \in 0 .. MaxTime /\ StoreOK(slots, now) /\ Stamped(slots, sent, now) /\ Ordered(slots, passed)
      /\ count = Cardinality(Used(slots)) /\ Loads(flash)
  BY DEF HInv, ClockOK, SavedOK
<1>2. UNCHANGED <<flash, now, period, last_hk>> /\ phase' = AfterTc
  BY DEF Create
<1>3. phase' \in {"top", "hk", "dyn", "released", "received"} /\ period' \in Periods
  BY <1>2 DEF HInv, RestOK, AfterTc
<1>4. CASE ~Creatable(r)
  <2>1. UNCHANGED <<slots, count, dirty, sent, passed>>
    BY <1>4 DEF Create, store, past
  <2>2. RestOK'
    BY <1>3, <2>1 DEF HInv, RestOK
  <2> QED
    BY <1>2, <2>1, <2>2, OtherStep
<1>5. CASE Creatable(r)
  <2> DEFINE i == Min(Slots \ InUse)
             x == Structure(r, FALSE, 0)
  <2>1. /\ Len(r.params) <= MaxParams /\ r.sid \notin Reserved /\ IndexOf(r.sid) = {} /\ InUse # Slots
    BY <1>5 DEF Creatable
  <2>2. /\ slots' = [slots EXCEPT ![i] = x] /\ count' = count + 1 /\ dirty' = TRUE
        /\ sent' = [sent EXCEPT ![r.sid] = 0]
        /\ passed' = [j \in Slots |-> IF j = i THEN {} ELSE passed[j] \ {i}]
    BY <1>5 DEF Create, Forget
  <2>3. InUse = Used(slots) /\ Used(slots) \subseteq Slots
    BY DEF InUse, Used
  <2>4. i \in Slots /\ i \notin Used(slots)
    <3> DEFINE T == Slots \ InUse
    <3>a. Slots \subseteq Nat
      BY DEF Slots
    <3>b. T # {}
      BY <2>1, <2>3
    <3>1. T \in SUBSET Nat /\ T # {}
      BY <3>a, <3>b
    <3> HIDE DEF T
    <3>2. Min(T) \in T
      BY <3>1, MinProperties
    <3> QED
      BY <2>3, <3>2 DEF T
  <2> HIDE DEF i
  <2>5. r.sid \in Sids /\ r.sid # "framework"
    BY NamesAssumption DEF Sids
  <2>6. x \in Structures(now) /\ x.sid = r.sid /\ x.params = r.params /\ x.last_emit = 0
    <3>1. 0 \in 0 .. now
      BY <1>1, HkAssumption
    <3> QED
      BY <2>1, <2>5, <3>1 DEF Structure, Structures
  <2>7. x # Free
    BY <1>1, <2>6, UsedType
  <2>8. slots \in [Slots -> {Free} \cup Structures(now)]
    BY <1>1 DEF StoreOK
  <2> HIDE DEF x
  <2>9. /\ slots' \in [Slots -> {Free} \cup Structures(now)]
        /\ slots'[i] = x /\ \A j \in Slots : j # i => slots'[j] = slots[j]
    BY <2>2, <2>4, <2>6, <2>8
  <2>10. Used(slots') = Used(slots) \cup {i}
    BY <2>4, <2>7, <2>9 DEF Used
  <2>11. \A j \in Used(slots) : j \in Slots /\ slots[j].sid # r.sid /\ slots[j].sid \in Sids
    <3>1. \A j \in Used(slots) : slots[j].sid # r.sid
      BY <2>1, <2>3 DEF IndexOf
    <3> QED
      BY <1>1, <3>1, UsedType, StructureType
  <2>12. StoreOK(slots', now)
    <3>1. ASSUME NEW j \in Used(slots'), NEW k \in Used(slots'), slots'[j].sid = slots'[k].sid
          PROVE  j = k
      <4>1. CASE j \in Used(slots) /\ k \in Used(slots)
        BY <1>1, <2>4, <2>9, <2>11, <3>1, <4>1 DEF StoreOK
      <4>2. CASE j = i /\ k \in Used(slots)
        BY <2>4, <2>6, <2>9, <2>11, <3>1, <4>2
      <4>3. CASE k = i /\ j \in Used(slots)
        BY <2>4, <2>6, <2>9, <2>11, <3>1, <4>3
      <4>4. CASE j = i /\ k = i
        BY <4>4
      <4> QED
        BY <2>10, <4>1, <4>2, <4>3, <4>4
    <3>2. ASSUME NEW j \in Used(slots')
          PROVE  Len(slots'[j].params) <= MaxParams
      <4>1. CASE j = i
        BY <2>1, <2>6, <2>9, <4>1
      <4>2. CASE j \in Used(slots)
        BY <1>1, <2>4, <2>9, <2>11, <4>2 DEF StoreOK
      <4> QED
        BY <2>10, <4>1, <4>2
    <3> QED
      BY <2>9, <3>1, <3>2 DEF StoreOK
  <2>13. count' = Cardinality(Used(slots'))
    <3>1. IsFiniteSet(Used(slots))
      BY <2>3, SlotsFinite
    <3>2. Cardinality(Used(slots) \cup {i}) = Cardinality(Used(slots)) + 1
      BY <2>4, <3>1, FS_AddElement
    <3> QED
      BY <1>1, <2>2, <2>10, <3>2
  <2>14. Stamped(slots', sent', now) /\ sent'["framework"] = sent["framework"]
    <3>1. 0 \in 0 .. now
      BY <1>1, HkAssumption
    <3>2. /\ sent' \in [Sids \cup {"framework"} -> 0 .. now] /\ sent'[r.sid] = 0
          /\ sent'["framework"] = sent["framework"]
      BY <1>1, <2>2, <2>5, <3>1 DEF Stamped
    <3>3. ASSUME NEW j \in Used(slots')
          PROVE  sent'[slots'[j].sid] <= slots'[j].last_emit
      <4>1. CASE j = i
        BY <2>6, <2>9, <3>2, <4>1
      <4>2. CASE j \in Used(slots)
        <5>1. slots'[j] = slots[j] /\ sent'[slots[j].sid] = sent[slots[j].sid]
          BY <1>1, <2>2, <2>4, <2>9, <2>11, <4>2 DEF Stamped
        <5> QED
          BY <1>1, <4>2, <5>1 DEF Stamped
      <4> QED
        BY <2>10, <4>1, <4>2
    <3> QED
      BY <3>2, <3>3 DEF Stamped
  <2>15. Ordered(slots', passed')
    <3>1. passed' \in [Slots -> SUBSET Slots]
      BY <1>1, <2>2 DEF Ordered
    <3>2. ASSUME NEW j \in Slots, NEW c \in passed'[j]
          PROVE  j \in Used(slots') /\ c \in Used(slots') /\ slots'[j].last_emit < slots'[c].last_emit
      <4>1. j # i /\ c \in passed[j] /\ c # i
        BY <2>2
      <4>2. j \in Used(slots) /\ c \in Used(slots) /\ slots[j].last_emit < slots[c].last_emit
        BY <1>1, <4>1 DEF Ordered
      <4> QED
        BY <2>9, <2>10, <2>11, <4>1, <4>2
    <3> QED
      BY <3>1, <3>2 DEF Ordered
  <2>16. SavedOK'
    BY <1>1, <1>2, <2>2 DEF SavedOK, CleanMeansRestored
  <2>17. ClockOK'
    BY <1>2, <2>14 DEF HInv, ClockOK
  <2>18. RestOK'
    BY <1>3, <2>2 DEF RestOK
  <2> QED
    BY <1>2, <2>12, <2>13, <2>14, <2>15, <2>16, <2>17, <2>18 DEF HInv
<1> QED
  BY <1>4, <1>5

LEMMA DeleteStep ==
    ASSUME HInv, NEW sid \in Sids, Delete(sid)
    PROVE  HInv'
<1>1. /\ now \in 0 .. MaxTime /\ StoreOK(slots, now) /\ Stamped(slots, sent, now) /\ Ordered(slots, passed)
      /\ count = Cardinality(Used(slots)) /\ Loads(flash)
  BY DEF HInv, ClockOK, SavedOK
<1>2. UNCHANGED <<flash, now, period, last_hk, sent>> /\ phase' = AfterTc
  BY DEF Delete
<1>3. phase' \in {"top", "hk", "dyn", "released", "received"} /\ period' \in Periods
  BY <1>2 DEF HInv, RestOK, AfterTc
<1>4. CASE IndexOf(sid) = {}
  <2>1. UNCHANGED <<slots, count, dirty, passed>>
    BY <1>4 DEF Delete, store
  <2>2. RestOK'
    BY <1>3, <2>1 DEF HInv, RestOK
  <2> QED
    BY <1>2, <2>1, <2>2, OtherStep
<1>5. CASE IndexOf(sid) # {}
  <2> DEFINE i == Min(IndexOf(sid))
  <2>1. /\ slots' = [slots EXCEPT ![i] = Free] /\ count' = count - 1 /\ dirty' = TRUE
        /\ passed' = [j \in Slots |-> IF j = i THEN {} ELSE passed[j] \ {i}]
    BY <1>5 DEF Delete, Forget
  <2>2. InUse = Used(slots) /\ Used(slots) \subseteq Slots
    BY DEF InUse, Used
  <2>3. i \in Used(slots) /\ i \in Slots
    <3> DEFINE T == IndexOf(sid)
    <3>1. T \in SUBSET Nat /\ T # {} /\ T \subseteq Used(slots)
      BY <1>5, <2>2 DEF IndexOf, Slots
    <3> HIDE DEF T
    <3>2. Min(T) \in T
      BY <3>1, MinProperties
    <3> QED
      BY <2>2, <3>1, <3>2 DEF T
  <2> HIDE DEF i
  <2>4. slots \in [Slots -> {Free} \cup Structures(now)]
    BY <1>1 DEF StoreOK
  <2>5. /\ slots' \in [Slots -> {Free} \cup Structures(now)]
        /\ slots'[i] = Free /\ \A j \in Slots : j # i => slots'[j] = slots[j]
    BY <2>1, <2>3, <2>4
  <2>6. Used(slots') = Used(slots) \ {i}
    BY <2>3, <2>5 DEF Used
  <2>7. \A j \in Used(slots') : j \in Used(slots) /\ slots'[j] = slots[j]
    BY <2>2, <2>5, <2>6
  <2>8. StoreOK(slots', now)
    BY <1>1, <2>5, <2>7 DEF StoreOK
  <2>9. count' = Cardinality(Used(slots'))
    <3>1. IsFiniteSet(Used(slots))
      BY <2>2, SlotsFinite
    <3>2. Cardinality(Used(slots) \ {i}) = Cardinality(Used(slots)) - 1
      BY <2>3, <3>1, FS_RemoveElement
    <3> QED
      BY <1>1, <2>1, <2>6, <3>2
  <2>10. Stamped(slots', sent, now)
    BY <1>1, <2>7 DEF Stamped
  <2>11. Ordered(slots', passed')
    <3>1. passed' \in [Slots -> SUBSET Slots]
      BY <1>1, <2>1 DEF Ordered
    <3>2. ASSUME NEW j \in Slots, NEW c \in passed'[j]
          PROVE  j \in Used(slots') /\ c \in Used(slots') /\ slots'[j].last_emit < slots'[c].last_emit
      <4>1. j # i /\ c \in passed[j] /\ c # i
        BY <2>1
      <4>2. j \in Used(slots) /\ c \in Used(slots) /\ slots[j].last_emit < slots[c].last_emit
        BY <1>1, <4>1 DEF Ordered
      <4>3. j \in Used(slots') /\ c \in Used(slots')
        BY <2>6, <4>1, <4>2
      <4> QED
        BY <2>7, <4>2, <4>3
    <3> QED
      BY <3>1, <3>2 DEF Ordered
  <2>12. SavedOK'
    BY <1>1, <1>2, <2>1 DEF SavedOK, CleanMeansRestored
  <2>13. ClockOK'
    BY <1>2 DEF HInv, ClockOK
  <2>14. RestOK'
    BY <1>3, <2>1 DEF RestOK
  <2> QED
    BY <1>2, <2>8, <2>9, <2>10, <2>11, <2>12, <2>13, <2>14 DEF HInv
<1> QED
  BY <1>4, <1>5

LEMMA SetEnabledStep ==
    ASSUME HInv, NEW sid \in Sids, NEW next \in BOOLEAN, SetEnabled(sid, next)
    PROVE  HInv'
<1>1. /\ now \in 0 .. MaxTime /\ StoreOK(slots, now) /\ Stamped(slots, sent, now) /\ Ordered(slots, passed)
      /\ count = Cardinality(Used(slots)) /\ Loads(flash)
  BY DEF HInv, ClockOK, SavedOK
<1>2. UNCHANGED <<count, flash, now, period, last_hk, sent>> /\ phase' = AfterTc
  BY DEF SetEnabled
<1>3. phase' \in {"top", "hk", "dyn", "released", "received"} /\ period' \in Periods
  BY <1>2 DEF HInv, RestOK, AfterTc
<1>4. CASE UNCHANGED <<slots, dirty, passed>>
  <2>1. RestOK'
    BY <1>3, <1>4 DEF HInv, RestOK
  <2> QED
    BY <1>2, <1>4, <2>1, OtherStep
<1>5. ASSUME NEW i \in IndexOf(sid), slots' = [slots EXCEPT ![i].enabled = next],
             passed' = [passed EXCEPT ![i] = {}], dirty' = TRUE
      PROVE  HInv'
  <2>1. i \in Used(slots) /\ i \in Slots
    BY DEF IndexOf, InUse, Used
  <2>2. Touched(slots, slots', i) /\ StoreOK(slots', now) /\ slots'[i].last_emit = slots[i].last_emit
    BY <1>1, <1>5, <2>1, FlagSlot
  <2>3. /\ Used(slots') = Used(slots)
        /\ \A j \in Used(slots) : slots'[j].sid = slots[j].sid /\ slots'[j].last_emit = slots[j].last_emit
    BY <2>2 DEF Touched, Used
  <2>4. Stamped(slots', sent, now)
    BY <1>1, <2>3 DEF Stamped
  <2>5. Ordered(slots', passed')
    <3>1. passed' \in [Slots -> SUBSET Slots]
      BY <1>1, <1>5, <2>1 DEF Ordered
    <3>2. ASSUME NEW j \in Slots, NEW c \in passed'[j]
          PROVE  j \in Used(slots') /\ c \in Used(slots') /\ slots'[j].last_emit < slots'[c].last_emit
      <4>1. j # i /\ c \in passed[j]
        BY <1>1, <1>5, <2>1 DEF Ordered
      <4>2. j \in Used(slots) /\ c \in Used(slots) /\ slots[j].last_emit < slots[c].last_emit
        BY <1>1, <4>1 DEF Ordered
      <4> QED
        BY <2>3, <4>2
    <3> QED
      BY <3>1, <3>2 DEF Ordered
  <2>6. SavedOK'
    BY <1>1, <1>2, <1>5 DEF SavedOK, CleanMeansRestored
  <2>7. ClockOK'
    BY <1>2 DEF HInv, ClockOK
  <2>8. RestOK'
    BY <1>3, <1>5 DEF RestOK
  <2> QED
    BY <1>1, <1>2, <2>2, <2>3, <2>4, <2>5, <2>6, <2>7, <2>8 DEF HInv
<1> QED
  BY <1>4, <1>5 DEF SetEnabled

LEMMA HInitInv == HInit => HInv
<1> SUFFICES ASSUME HInit
             PROVE  HInv
  OBVIOUS
<1>1. /\ slots = Deserialize(flash) /\ count = RestoredCount(flash) /\ now = 0
      /\ flash.count \in Nat /\ flash.entries \in Seq(Entries)
  BY RecordAssumption DEF HInit
<1>2. Loads(flash)
  BY <1>1, DeserializeLoads
<1>3. StoreOK(slots, now) /\ count = Cardinality(Used(slots)) /\ \A i \in Used(slots) : slots[i].last_emit = 0
  BY <1>1, <1>2 DEF Loads
<1>4. SavedOK
  BY <1>1, <1>2 DEF SavedOK, CleanMeansRestored
<1>5. \A i \in Used(slots) : slots[i].sid \in Sids
  <2>1. 0 \in 0 .. MaxTime
    BY HkAssumption
  <2> QED
    BY <1>1, <1>3, <2>1, UsedType, StructureType
<1>6. now = 0 /\ last_hk = 0 /\ sent = [x \in Sids \cup {"framework"} |-> 0] /\ passed = [i \in Slots |-> {}]
  BY DEF HInit
<1>7. Stamped(slots, sent, now)
  <2>1. \A i \in Used(slots) : sent[slots[i].sid] = 0
    BY <1>5, <1>6
  <2>2. sent \in [Sids \cup {"framework"} -> 0 .. now]
    BY <1>6
  <2> QED
    BY <1>3, <2>1, <2>2 DEF Stamped
<1>8. Ordered(slots, passed)
  BY <1>6 DEF Ordered
<1>9. ClockOK
  BY <1>6, HkAssumption DEF ClockOK
<1>10. RestOK
  BY DEF HInit, RestOK
<1> QED
  BY <1>3, <1>4, <1>5, <1>7, <1>8, <1>9, <1>10 DEF HInv

(* The inductive invariant of the structures, their record and the clock.   *)
THEOREM HkStoreInvariant == HSpec => []HInv
<1>1. HInv /\ [HNext]_hvars => HInv'
  <2> SUFFICES ASSUME HInv, [HNext]_hvars
               PROVE  HInv'
    OBVIOUS
  <2>1. CASE EmitNothing
    <3>1. /\ UNCHANGED <<slots, count, dirty, flash, now, period, last_hk, sent, passed>>
          /\ phase' = "released"
      BY <2>1 DEF EmitNothing, store, past
    <3>2. RestOK'
      BY <3>1 DEF HInv, RestOK
    <3> QED
      BY <3>1, <3>2, OtherStep
  <2>2. CASE OtherTc
    <3>1. /\ UNCHANGED <<slots, count, dirty, flash, now, period, last_hk, sent, passed>>
          /\ phase' = AfterTc
      BY <2>2 DEF OtherTc, store, past
    <3>2. RestOK'
      BY <3>1 DEF HInv, RestOK, AfterTc
    <3> QED
      BY <3>1, <3>2, OtherStep
  <2>3. ASSUME NEW p \in Periods, SetPeriod(p)
        PROVE  HInv'
    <3>1. /\ UNCHANGED <<slots, count, dirty, flash, now, last_hk, sent, passed>>
          /\ phase' = AfterTc /\ period' = p
      BY <2>3 DEF SetPeriod, store, past
    <3>2. RestOK'
      BY <3>1 DEF HInv, RestOK, AfterTc
    <3> QED
      BY <3>1, <3>2, OtherStep
  <2>4. CASE UNCHANGED hvars
    <3>1. UNCHANGED <<slots, count, dirty, flash, now, period, last_hk, phase, sent, passed>>
      BY <2>4 DEF hvars
    <3>2. RestOK'
      BY <3>1 DEF HInv, RestOK
    <3> QED
      BY <3>1, <3>2, OtherStep
  <2> QED
    BY <2>1, <2>2, <2>3, <2>4, SaveTickStep, EmitFrameworkStep, EmitDueStep, CreateStep, DeleteStep,
       SetEnabledStep, RebootStep
    DEF HNext, LoopStep, TcStep
<1> QED
  BY <1>1, HInitInv, PTL DEF HSpec

(* Stamps never lie in the future of the clock they are subtracted from,    *)
(* through the restarts of the clock and the restore of the structures.     *)
THEOREM HkStoreTypeCorrect == HSpec => []HTypeOK
<1>1. HInv => HTypeOK
  <2> SUFFICES ASSUME HInv
               PROVE  HTypeOK
    OBVIOUS
  <2>1. count \in 0 .. Capacity
    <3>1. Used(slots) \in SUBSET Slots
      BY DEF Used
    <3> QED
      BY <3>1, SlotsFinite DEF HInv
  <2> QED
    BY <2>1 DEF HInv, HTypeOK, StoreOK, ClockOK, RestOK
<1> QED
  BY <1>1, HkStoreInvariant, PTL

(* migris_hkstore_create never lets an identifier in twice, and the count   *)
(* that heads the record is the number of structures in it.                 *)
THEOREM OneStructureEach == HSpec => []OneStructurePerSid
<1>1. HInv => OneStructurePerSid
  BY DEF HInv, StoreOK, OneStructurePerSid, InUse, Used
<1> QED
  BY <1>1, HkStoreInvariant, PTL

(* When nothing waits to be saved, a power loss at this very moment brings  *)
(* back the structures there are: the count written is the number of the    *)
(* entries packed behind it, through the holes that deletions leave, and    *)
(* the entries pass every check of the restore.                             *)
THEOREM CleanStoreIsRestored == HSpec => []CleanMeansRestored
<1>1. HInv => CleanMeansRestored
  BY DEF HInv, SavedOK
<1> QED
  BY <1>1, HkStoreInvariant, PTL

(* A structure, and the framework report, is never reported before its      *)
(* interval has passed since its latest report and since boot.              *)
THEOREM ReportsSpaced == HSpec => []Spaced
<1>1. HInv => Spaced
  <2> SUFFICES ASSUME HInv
               PROVE  Spaced
    OBVIOUS
  <2>1. /\ now \in 0 .. MaxTime /\ StoreOK(slots, now) /\ Stamped(slots, sent, now)
        /\ last_hk \in 0 .. now /\ sent["framework"] <= last_hk /\ period \in Periods
    BY DEF HInv, ClockOK, RestOK
  <2>2. ASSUME DueSlots # {}
        PROVE  now - sent[slots[Best].sid] >= slots[Best].interval
    <3> DEFINE b == Best
    <3>1. b \in DueSlots
      BY <2>1, <2>2, BestProperties
    <3> HIDE DEF b
    <3>2. /\ b \in Used(slots) /\ slots[b] \in Structures(now) /\ slots[b].last_emit \in 0 .. now
          /\ slots[b].interval \in Nat \ {0} /\ now - slots[b].last_emit >= slots[b].interval
      BY <2>1, <3>1, DueType
    <3>3. sent[slots[b].sid] <= slots[b].last_emit /\ sent[slots[b].sid] \in 0 .. now
      BY <2>1, <3>2, StructureType DEF Stamped
    <3>4. now \in Nat
      BY <2>1, HkAssumption
    <3>5. now - sent[slots[b].sid] >= slots[b].interval
      BY <3>2, <3>3, <3>4
    <3> QED
      BY <3>5 DEF b
  <2>3. ASSUME FrameworkDue
        PROVE  now - sent["framework"] >= period
    <3>1. Elapsed(last_hk) = now - last_hk
      BY <2>1, ElapsedSince
    <3>2. now - last_hk >= period
      BY <2>3, <3>1 DEF FrameworkDue
    <3>3. sent["framework"] \in 0 .. now
      BY <2>1 DEF Stamped
    <3>4. now \in Nat /\ period \in Nat /\ last_hk \in Nat
      BY <2>1, HkAssumption
    <3> QED
      BY <2>1, <3>2, <3>3, <3>4
  <2> QED
    BY <2>2, <2>3 DEF Spaced
<1> QED
  BY <1>1, HkStoreInvariant, PTL

(* Emissions go round in the order of staleness: no structure is served a   *)
(* second time while another one is due.                                    *)
THEOREM ServedInTurn == HSpec => []NoSecondPass
<1>1. HInv => NoSecondPass
  <2> SUFFICES ASSUME HInv, DueSlots # {}, NEW i \in DueSlots, Best \in passed[i]
               PROVE  FALSE
    BY DEF NoSecondPass
  <2> DEFINE b == Best
  <2>1. now \in 0 .. MaxTime /\ StoreOK(slots, now) /\ Ordered(slots, passed)
    BY DEF HInv, ClockOK
  <2>2. b \in DueSlots /\ slots[b].last_emit <= slots[i].last_emit
    BY <2>1, BestProperties
  <2>3. slots[i].last_emit \in 0 .. now /\ slots[b].last_emit \in 0 .. now /\ i \in Slots
    BY <2>1, <2>2, DueType
  <2> HIDE DEF b
  <2>4. b \in passed[i]
    BY DEF b
  <2>5. slots[i].last_emit < slots[b].last_emit
    BY <2>1, <2>3, <2>4 DEF Ordered
  <2> QED
    BY <2>2, <2>3, <2>5
<1> QED
  BY <1>1, HkStoreInvariant, PTL
============================================================================
