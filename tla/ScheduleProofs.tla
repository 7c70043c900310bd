--------------------------- MODULE ScheduleProofs ---------------------------
(***************************************************************************)
(* The on-board schedule, proved for every capacity, every set of request  *)
(* identifiers, release times and telecommand lengths.                     *)
(*                                                                         *)
(* What makes the two passes of [11,4] and [11,5] safe is that the array   *)
(* never holds one identifier twice, on board or in the record on flash:   *)
(* a reboot replaces the live array by that record in the middle of        *)
(* anything.  The inductive invariant says so.                             *)
(***************************************************************************)
EXTENDS Schedule, NumberLemmas, SequenceTheorems, FiniteSetTheorems, TLAPS

(* The inductive invariant: STypeOK has the live array and the record      *)
(* well formed.                                                            *)
SInv == STypeOK /\ NoInsertCanFail /\ CleanMeansSaved

----------------------------------------------------------------------------
(* The operators of lib/schedule *)

(* What moving the last element into the gap leaves of the array. *)
LEMMA FillGapProperties ==
    ASSUME NEW s \in Seq(Activity), NEW i \in DOMAIN s
    PROVE  /\ FillGap(s, i) \in Seq(Activity)
           /\ Len(s) \in Nat \ {0}
           /\ Len(FillGap(s, i)) = Len(s) - 1
           /\ \A j \in 1 .. Len(s) - 1 : FillGap(s, i)[j] = IF j = i THEN s[Len(s)] ELSE s[j]
<1>1. Len(s) \in Nat /\ DOMAIN s = 1 .. Len(s) /\ Len(s) \in 1 .. Len(s)
  BY LenProperties
<1> DEFINE e == [s EXCEPT ![i] = s[Len(s)]]
<1>2. s[Len(s)] \in Activity
  BY <1>1, ElementOfSeq
<1>3. /\ \A j \in 1 .. Len(s) : e[j] = IF j = i THEN s[Len(s)] ELSE s[j]
      /\ \A j \in 1 .. Len(s) : e[j] \in Activity
  BY <1>1, <1>2, ElementOfSeq
<1> HIDE DEF e
<1>4. /\ SubSeq(e, 1, Len(s) - 1) \in Seq(Activity)
      /\ Len(SubSeq(e, 1, Len(s) - 1)) = Len(s) - 1
      /\ \A j \in 1 .. Len(s) - 1 : SubSeq(e, 1, Len(s) - 1)[j] = e[j]
  <2>1. \A j \in 1 .. Len(s) - 1 : e[j] \in Activity
    BY <1>1, <1>3
  <2>2. 1 \in Int /\ Len(s) - 1 \in Int
    BY <1>1
  <2>3. /\ SubSeq(e, 1, Len(s) - 1) \in Seq(Activity)
        /\ Len(SubSeq(e, 1, Len(s) - 1)) = IF 1 <= Len(s) - 1 THEN Len(s) - 1 - 1 + 1 ELSE 0
        /\ \A j \in 1 .. Len(s) - 1 - 1 + 1 : SubSeq(e, 1, Len(s) - 1)[j] = e[1 + j - 1]
    BY <2>1, <2>2, SubSeqProperties
  <2> QED
    BY <2>3, <1>1
<1>5. FillGap(s, i) = SubSeq(e, 1, Len(s) - 1)
  BY DEF FillGap, e
<1> QED
  BY <1>1, <1>3, <1>4, <1>5

(* It removes exactly the activity at i from the set of activities, and    *)
(* keeps identifiers distinct.                                             *)
LEMMA FillGapRemoves ==
    ASSUME NEW s \in Seq(Activity), NEW i \in DOMAIN s, Distinct(s)
    PROVE  /\ Distinct(FillGap(s, i))
           /\ ToTable(FillGap(s, i)) = ToTable(s) \ {s[i]}
           /\ ToTable(FillGap(s, i)) = {b \in ToTable(s) : b.id # s[i].id}
<1> DEFINE g == FillGap(s, i)
<1>1. /\ g \in Seq(Activity)
      /\ Len(s) \in Nat \ {0}
      /\ Len(g) = Len(s) - 1
      /\ \A j \in 1 .. Len(s) - 1 : g[j] = IF j = i THEN s[Len(s)] ELSE s[j]
  BY FillGapProperties
<1> HIDE DEF g
<1>2. DOMAIN s = 1 .. Len(s) /\ DOMAIN g = 1 .. Len(s) - 1
  BY <1>1, LenProperties
<1>3. Distinct(g)
  BY <1>1, <1>2, Distinct(s) DEF Distinct
<1>4. \A j \in DOMAIN g : \E k \in DOMAIN s : k # i /\ g[j] = s[k]
  BY <1>1, <1>2
<1>5. \A k \in DOMAIN s : k # i => \E j \in DOMAIN g : g[j] = s[k]
  <2> TAKE k \in DOMAIN s
  <2> HAVE k # i
  <2>1. CASE k = Len(s)
    BY <1>1, <1>2, <2>1
  <2>2. CASE k # Len(s)
    BY <1>1, <1>2, <2>2
  <2> QED
    BY <2>1, <2>2
<1>6. ToTable(g) = {b \in ToTable(s) : b.id # s[i].id}
  BY <1>4, <1>5, Distinct(s) DEF Distinct, ToTable
<1>7. ToTable(s) \ {s[i]} = {b \in ToTable(s) : b.id # s[i].id}
  BY Distinct(s) DEF Distinct, ToTable
<1> QED
  BY <1>3, <1>6, <1>7 DEF g

(* Appending a new identifier keeps identifiers distinct. *)
LEMMA AppendAdds ==
    ASSUME NEW s \in Seq(Activity), NEW a \in Activity, Distinct(s), a.id \notin Scheduled(s)
    PROVE  /\ Append(s, a) \in Seq(Activity)
           /\ Len(Append(s, a)) = Len(s) + 1
           /\ Distinct(Append(s, a))
           /\ ToTable(Append(s, a)) = ToTable(s) \cup {a}
           /\ Scheduled(Append(s, a)) = Scheduled(s) \cup {a.id}
<1> DEFINE g == Append(s, a)
<1>1. /\ g \in Seq(Activity)
      /\ Len(g) = Len(s) + 1
      /\ \A i \in 1 .. Len(s) : g[i] = s[i]
      /\ g[Len(s) + 1] = a
  BY AppendProperties
<1> HIDE DEF g
<1>2. Len(s) \in Nat /\ DOMAIN s = 1 .. Len(s) /\ DOMAIN g = 1 .. Len(s) + 1
  BY <1>1, LenProperties
<1>3. Distinct(g)
  BY <1>1, <1>2, Distinct(s), a.id \notin Scheduled(s) DEF Distinct, Scheduled
<1>4. ToTable(g) = ToTable(s) \cup {a}
  <2>1. ToTable(g) \subseteq ToTable(s) \cup {a}
    BY <1>1, <1>2 DEF ToTable
  <2>2. ToTable(s) \subseteq ToTable(g) /\ a \in ToTable(g)
    BY <1>1, <1>2 DEF ToTable
  <2> QED
    BY <2>1, <2>2
<1>5. Scheduled(g) = Scheduled(s) \cup {a.id}
  <2>1. Scheduled(g) \subseteq Scheduled(s) \cup {a.id}
    BY <1>1, <1>2 DEF Scheduled
  <2>2. Scheduled(s) \subseteq Scheduled(g) /\ a.id \in Scheduled(g)
    BY <1>1, <1>2 DEF Scheduled
  <2> QED
    BY <2>1, <2>2
<1> QED
  BY <1>1, <1>3, <1>4, <1>5 DEF g

(* sched_index_of finds an entry with that identifier when there is one. *)
LEMMA IndexOfProperties ==
    ASSUME NEW s \in Seq(Activity), NEW id \in Scheduled(s)
    PROVE  IndexOf(s, id) \in DOMAIN s /\ s[IndexOf(s, id)].id = id
<1>1. Len(s) \in Nat /\ DOMAIN s = 1 .. Len(s)
  BY LenProperties
<1> DEFINE T == {i \in DOMAIN s : s[i].id = id}
<1>2. T \in SUBSET Nat /\ T # {}
  BY <1>1 DEF Scheduled
<1>3. PICK i \in T : \A j \in T : i <= j
  BY <1>2, LeastNumber
<1>4. i \in DOMAIN s /\ s[i].id = id /\ \A j \in 1 .. i - 1 : s[j].id # id
  BY <1>1, <1>3
<1> QED
  BY <1>4 DEF IndexOf

(* The scan of pop_due finds a due activity, and none is earlier. *)
LEMMA DueIndexProperties ==
    ASSUME NEW s \in Seq(Activity), NEW t \in Nat, Due(s, t) # {}
    PROVE  /\ DueIndex(s, t) \in DOMAIN s
           /\ s[DueIndex(s, t)].time <= t
           /\ \A b \in ToTable(s) : s[DueIndex(s, t)].time <= b.time
<1>1. Len(s) \in Nat /\ DOMAIN s = 1 .. Len(s)
  BY LenProperties
<1>2. \A i \in DOMAIN s : s[i].time \in Nat
  <2>1. \A i \in DOMAIN s : s[i] \in Activity
    BY <1>1, ElementOfSeq
  <2> QED
    BY <2>1, ScheduleAssumption DEF Activity
<1> DEFINE T == {s[i].time : i \in Due(s, t)}
<1>3. T \in SUBSET Nat /\ T # {}
  BY <1>2 DEF Due
<1>4. PICK m \in T : \A n \in T : m <= n
  BY <1>3, LeastNumber
<1> DEFINE E == {i \in Due(s, t) : s[i].time = m}
<1>5. E \in SUBSET Nat /\ E # {}
  BY <1>1, <1>4 DEF Due
<1>6. PICK i \in E : \A j \in E : i <= j
  BY <1>5, LeastNumber
<1>7. \A j \in Due(s, t) : s[i].time < s[j].time \/ (s[i].time = s[j].time /\ i <= j)
  <2> TAKE j \in Due(s, t)
  <2>1. m <= s[j].time /\ s[j].time \in Nat /\ s[i].time = m /\ m \in Nat
    BY <1>2, <1>3, <1>4, <1>6 DEF Due
  <2>2. s[j].time = m => i <= j
    BY <1>6
  <2> QED
    BY <2>1, <2>2
<1>8. i \in Due(s, t)
  BY <1>6
<1>9. /\ DueIndex(s, t) \in Due(s, t)
      /\ \A j \in Due(s, t) : \/ s[DueIndex(s, t)].time < s[j].time
                              \/ s[DueIndex(s, t)].time = s[j].time /\ DueIndex(s, t) <= j
  BY <1>7, <1>8 DEF DueIndex
<1>10. \A b \in ToTable(s) : s[DueIndex(s, t)].time <= b.time
  <2> DEFINE d == DueIndex(s, t)
  <2>1. d \in DOMAIN s /\ s[d].time \in Nat /\ s[d].time <= t
    BY <1>2, <1>9 DEF Due
  <2> HIDE DEF d
  <2>2. SUFFICES ASSUME NEW j \in DOMAIN s PROVE s[d].time <= s[j].time
    BY DEF ToTable, d
  <2>3. s[j].time \in Nat
    BY <1>2
  <2>4. CASE s[j].time <= t
    <3>1. j \in Due(s, t)
      BY <2>4 DEF Due
    <3>2. s[d].time < s[j].time \/ s[d].time = s[j].time
      BY <1>9, <3>1 DEF d
    <3> QED
      BY <2>1, <2>3, <3>2
  <2>5. CASE ~ (s[j].time <= t)
    BY <2>1, <2>3, <2>5
  <2> QED
    BY <2>4, <2>5
<1> QED
  BY <1>9, <1>10 DEF Due

(* A schedule with room is a table with room. *)
LEMMA TableCardinality ==
    ASSUME NEW s \in Seq(Activity)
    PROVE  Cardinality(ToTable(s)) \in Nat /\ Cardinality(ToTable(s)) <= Len(s)
<1>1. Len(s) \in Nat /\ DOMAIN s = 1 .. Len(s) /\ s \in [1 .. Len(s) -> Activity]
  BY LenProperties
<1>2. s \in Surjection(1 .. Len(s), ToTable(s))
  BY <1>1 DEF Surjection, ToTable
<1>3. IsFiniteSet(1 .. Len(s)) /\ Cardinality(1 .. Len(s)) = Len(s)
  BY <1>1, FS_Interval
<1>4. IsFiniteSet(ToTable(s)) /\ Cardinality(ToTable(s)) <= Cardinality(1 .. Len(s))
  BY <1>2, <1>3, FS_Surjection
<1> QED
  BY <1>3, <1>4, FS_CardinalityType

----------------------------------------------------------------------------
(* The inductive invariant *)

(* Requests are sequences, whatever their length. *)
LEMMA RequestsAreSequences ==
    Batches \subseteq Seq(Activity) /\ IdLists \subseteq Seq(Ids)
<1>1. MaxPerTc + 1 \in Nat /\ \A n \in 0 .. MaxPerTc : n \in Nat
  BY ScheduleAssumption
<1>2. ASSUME NEW S
      PROVE  (UNION {[1 .. n -> S] : n \in 0 .. MaxPerTc}) \cup OverlongOf(S) \subseteq Seq(S)
  <2>1. \A n \in 0 .. MaxPerTc : [1 .. n -> S] \subseteq Seq(S)
    BY <1>1, SeqDef
  <2>2. OverlongOf(S) \subseteq [1 .. MaxPerTc + 1 -> S]
    BY DEF OverlongOf
  <2>3. [1 .. MaxPerTc + 1 -> S] \subseteq Seq(S)
    BY <1>1, SeqDef
  <2> QED
    BY <2>1, <2>2, <2>3
<1> QED
  BY <1>2 DEF Batches, IdLists

LEMMA EmptyIsWellFormed == WellFormed(<<>>)
BY EmptySeq, ScheduleAssumption DEF WellFormed, Distinct

(* deserialize refuses nothing that a well-formed schedule wrote. *)
LEMMA RestoresAll ==
    ASSUME NEW record, WellFormed(record.acts)
    PROVE  Deserialize(record) = record
BY DEF Deserialize, WellFormed

LEMMA InitInv == SInit => SInv
<1> SUFFICES ASSUME SInit PROVE SInv
  OBVIOUS
<1>1. WellFormed(acts) /\ WellFormed(saved.acts)
  BY EmptyIsWellFormed DEF SInit
<1>2. STypeOK
  <2>1. enabled \in BOOLEAN /\ dirty \in BOOLEAN /\ armed \in BOOLEAN /\ saved.enabled \in BOOLEAN
    BY DEF SInit
  <2>2. saved = [acts |-> saved.acts, enabled |-> saved.enabled]
    BY DEF SInit
  <2> QED
    BY <1>1, <2>1, <2>2 DEF SInit, STypeOK
<1>3. NoInsertCanFail
  BY DEF SInit, NoInsertCanFail
<1>4. CleanMeansSaved
  BY <1>1, RestoresAll DEF SInit, CleanMeansSaved, Image
<1> QED
  BY <1>2, <1>3, <1>4 DEF SInv

(* Dispatching a telecommand that touches nothing of the two passes. *)
LEMMA FinishTcKeepsPasses ==
    ASSUME SInv, AcceptsTc, FinishTc
    PROVE  /\ phase' \in {"top", "tc"} /\ popped' = NoActivity
           /\ ret' = ret /\ todo' = <<>> /\ todo = <<>>
BY DEF SInv, STypeOK, AcceptsTc, FinishTc, After

(* After a removal the schedule is well formed. *)
LEMMA RemovalKeepsInv ==
    ASSUME WellFormed(acts), NEW i \in DOMAIN acts, acts' = FillGap(acts, i)
    PROVE  WellFormed(acts')
<1>1. /\ acts \in Seq(Activity) /\ Len(acts) <= Capacity /\ Distinct(acts)
      /\ \A k \in DOMAIN acts : SizeOk(acts[k].len)
  BY DEF WellFormed
<1>2. /\ acts' \in Seq(Activity) /\ Len(acts') = Len(acts) - 1 /\ Len(acts) \in Nat \ {0}
      /\ \A j \in 1 .. Len(acts) - 1 : acts'[j] = IF j = i THEN acts[Len(acts)] ELSE acts[j]
  BY <1>1, FillGapProperties
<1>3. Distinct(acts')
  BY <1>1, FillGapRemoves
<1>4. Len(acts') <= Capacity
  BY <1>1, <1>2, ScheduleAssumption
<1>5. DOMAIN acts = 1 .. Len(acts) /\ DOMAIN acts' = 1 .. Len(acts) - 1
  BY <1>1, <1>2, LenProperties
<1>6. ASSUME NEW k \in DOMAIN acts' PROVE SizeOk(acts'[k].len)
  <2>1. /\ Len(acts) \in DOMAIN acts /\ k \in DOMAIN acts
        /\ acts'[k] = IF k = i THEN acts[Len(acts)] ELSE acts[k]
    BY <1>2, <1>5, <1>6
  <2> QED
    BY <1>1, <2>1
<1> QED
  BY <1>2, <1>3, <1>4, <1>6 DEF WellFormed

(* After a successful migris_schedule_insert the schedule is well formed. *)
LEMMA InsertKeepsInv ==
    ASSUME WellFormed(acts), NEW a \in Activity, InsertOk(acts, a), acts' = Append(acts, a)
    PROVE  WellFormed(acts')
<1>1. /\ acts \in Seq(Activity) /\ Len(acts) <= Capacity /\ Distinct(acts)
      /\ \A k \in DOMAIN acts : SizeOk(acts[k].len)
      /\ Len(acts) \in Nat
  BY LenProperties DEF WellFormed
<1>2. a.id \notin Scheduled(acts) /\ Len(acts) < Capacity /\ SizeOk(a.len)
  BY DEF InsertOk
<1>3. acts' \in Seq(Activity) /\ Len(acts') = Len(acts) + 1 /\ Distinct(acts')
  BY <1>1, <1>2, AppendAdds
<1>4. Len(acts') <= Capacity
  BY <1>1, <1>2, <1>3, ScheduleAssumption
<1>5. ASSUME NEW k \in DOMAIN acts' PROVE SizeOk(acts'[k].len)
  <2>1. \A b \in ToTable(acts') : SizeOk(b.len)
    BY <1>1, <1>2, AppendAdds DEF ToTable
  <2> QED
    BY <1>5, <2>1 DEF ToTable
<1> QED
  BY <1>3, <1>4, <1>5 DEF WellFormed

(* One step per action.  An action that leaves the array, the image and    *)
(* the record alone can disturb only the type of what the loop holds.      *)
LEMMA StepInv == SInv /\ [SNext]_svars => SInv'
<1> SUFFICES ASSUME SInv, [SNext]_svars PROVE SInv'
  OBVIOUS
<1>0. /\ STypeOK /\ NoInsertCanFail /\ CleanMeansSaved
      /\ WellFormed(acts) /\ WellFormed(saved.acts)
      /\ enabled \in BOOLEAN /\ saved.enabled \in BOOLEAN
      /\ saved = [acts |-> saved.acts, enabled |-> saved.enabled]
      /\ acts \in Seq(Activity)
  BY DEF SInv, STypeOK, WellFormed
<1>1. CASE SaveTick
  <2>1. saved' = (IF dirty THEN Image ELSE saved) /\ dirty' = FALSE /\ UNCHANGED <<acts, enabled>>
    BY <1>1 DEF SaveTick
  <2>2. /\ WellFormed(saved'.acts) /\ saved'.enabled \in BOOLEAN
        /\ saved' = [acts |-> saved'.acts, enabled |-> saved'.enabled]
        /\ Deserialize(saved') = [acts |-> acts, enabled |-> enabled]
    <3>1. CASE dirty
      <4>1. saved' = [acts |-> acts, enabled |-> enabled]
        BY <2>1, <3>1 DEF Image
      <4>2. saved'.acts = acts /\ saved'.enabled = enabled
        BY <4>1
      <4> QED
        BY <1>0, <4>1, <4>2, RestoresAll
    <3>2. CASE ~dirty
      <4>1. saved' = saved
        BY <2>1, <3>2
      <4>2. Deserialize(saved) = [acts |-> acts, enabled |-> enabled]
        BY <1>0, <3>2 DEF CleanMeansSaved, Image
      <4> QED
        BY <1>0, <4>1, <4>2
    <3> QED
      BY <3>1, <3>2, <1>0 DEF STypeOK
  <2>3. STypeOK'
    <3>1. now' \in Nat
      BY <1>0, <1>1, ScheduleAssumption DEF SaveTick, STypeOK
    <3>2. WellFormed(acts')
      BY <1>0, <2>1
    <3> QED
      BY <1>0, <1>1, <2>1, <2>2, <3>1, <3>2
      DEF SaveTick, STypeOK, WellFormed, Distinct, SizeOk
  <2>4. NoInsertCanFail'
    BY <1>1 DEF SaveTick, NoInsertCanFail
  <2>5. CleanMeansSaved'
    BY <2>1, <2>2 DEF CleanMeansSaved, Image, Deserialize, SizeOk
  <2> QED
    BY <2>3, <2>4, <2>5 DEF SInv
<1>2. CASE ReleaseNothing
  <2>1. phase' = "tc" /\ UNCHANGED <<acts, enabled, dirty, saved, now, ret, todo, popped, armed>>
    BY <1>2 DEF ReleaseNothing
  <2>2. phase = "release"
    BY <1>2 DEF ReleaseNothing
  <2>3. STypeOK'
    BY <1>0, <2>1, <2>2 DEF STypeOK, WellFormed, Distinct, SizeOk
  <2>4. NoInsertCanFail' /\ CleanMeansSaved'
    BY <1>0, <2>1 DEF NoInsertCanFail, CleanMeansSaved, Image, Deserialize, SizeOk
  <2> QED
    BY <2>3, <2>4 DEF SInv
<1>3. CASE ReleaseDue
  <2> DEFINE i == DueIndex(acts, now)
  <2>1. i \in DOMAIN acts
    BY <1>0, <1>3, DueIndexProperties DEF ReleaseDue, Releasable, STypeOK
  <2>2. acts' = FillGap(acts, i) /\ popped' = acts[i] /\ dirty' = TRUE /\ phase' = "dispatch"
    BY <1>3 DEF ReleaseDue
  <2> HIDE DEF i
  <2>3. WellFormed(acts')
    BY <1>0, <2>1, <2>2, RemovalKeepsInv
  <2>4. popped' \in Activity
    BY <1>0, <2>1, <2>2, ElementOfSeq, LenProperties
  <2>5. UNCHANGED <<enabled, saved, now, ret, todo, armed>> /\ phase = "release"
    BY <1>3 DEF ReleaseDue
  <2>6. STypeOK'
    BY <1>0, <2>2, <2>3, <2>4, <2>5 DEF STypeOK, WellFormed, Distinct, SizeOk
  <2>7. NoInsertCanFail' /\ CleanMeansSaved'
    BY <2>2 DEF NoInsertCanFail, CleanMeansSaved
  <2> QED
    BY <2>6, <2>7 DEF SInv
<1>4. CASE ApplyInsert
  <2> DEFINE a == Head(todo)
  <2>1. /\ todo \in Seq(Activity) /\ todo # <<>> /\ phase = "insert" /\ phase' = phase
        /\ todo' = Tail(todo)
        /\ UNCHANGED <<enabled, saved, now, ret, popped, armed>>
    BY <1>0, <1>4 DEF ApplyInsert, STypeOK
  <2>2. /\ a \in Activity /\ todo' \in Seq(Activity) /\ Len(todo') = Len(todo) - 1
        /\ \A k \in 1 .. Len(todo') : todo'[k] = todo[k + 1]
        /\ Len(todo) \in Nat \ {0} /\ a = todo[1]
    BY <2>1, HeadTailProperties, EmptySeq
  <2>3. DOMAIN todo = 1 .. Len(todo) /\ DOMAIN todo' = 1 .. Len(todo')
    BY <2>1, <2>2, LenProperties
  <2>4. /\ Len(acts) \in Nat /\ Len(acts) + Len(todo) <= Capacity
        /\ \A k \in DOMAIN todo : /\ SizeOk(todo[k].len)
                                   /\ todo[k].id \notin Scheduled(acts)
                                   /\ \A j \in 1 .. k - 1 : todo[j].id # todo[k].id
    BY <1>0, <2>1, LenProperties DEF NoInsertCanFail
  <2>5. InsertOk(acts, a)
    BY <2>2, <2>3, <2>4, ScheduleAssumption DEF InsertOk
  <2>6. acts' = Append(acts, a) /\ dirty' = TRUE
    BY <1>4, <2>5 DEF ApplyInsert
  <2>7. /\ Len(acts') = Len(acts) + 1
        /\ Scheduled(acts') = Scheduled(acts) \cup {a.id}
    BY <1>0, <2>2, <2>5, <2>6, AppendAdds DEF InsertOk, WellFormed
  <2>8. WellFormed(acts')
    BY <1>0, <2>2, <2>5, <2>6, InsertKeepsInv
  <2> HIDE DEF a
  <2>9. STypeOK'
    BY <1>0, <2>1, <2>2, <2>6, <2>8 DEF STypeOK, WellFormed, Distinct, SizeOk
  <2>10. NoInsertCanFail'
    <3>1. Len(acts') + Len(todo') <= Capacity
      BY <2>2, <2>4, <2>7, ScheduleAssumption
    <3>2. ASSUME NEW k \in DOMAIN todo'
          PROVE  /\ SizeOk(todo'[k].len)
                 /\ todo'[k].id \notin Scheduled(acts')
                 /\ \A j \in 1 .. k - 1 : todo'[j].id # todo'[k].id
      <4>1. k + 1 \in DOMAIN todo /\ todo'[k] = todo[k + 1] /\ k \in Nat /\ 1 \in 1 .. (k + 1) - 1
        BY <2>2, <2>3, <3>2
      <4>2. todo'[k].id # a.id /\ todo'[k].id \notin Scheduled(acts) /\ SizeOk(todo'[k].len)
        BY <4>1, <2>2, <2>4
      <4>3. ASSUME NEW j \in 1 .. k - 1 PROVE todo'[j].id # todo'[k].id
        <5>1. j + 1 \in 1 .. (k + 1) - 1 /\ j \in 1 .. Len(todo')
          BY <4>1, <4>3, <2>2, <2>3
        <5>2. todo'[j] = todo[j + 1]
          BY <5>1, <2>2
        <5> QED
          BY <5>1, <5>2, <4>1, <2>4
      <4> QED
        BY <4>2, <4>3, <2>7
    <3> QED
      BY <3>1, <3>2 DEF NoInsertCanFail, SizeOk
  <2>11. CleanMeansSaved'
    BY <2>6 DEF CleanMeansSaved
  <2> QED
    BY <2>9, <2>10, <2>11 DEF SInv
<1>5. CASE ApplyDelete
  <2>1. /\ todo \in Seq(Ids) /\ todo # <<>> /\ phase = "delete" /\ phase' = phase
        /\ todo' = Tail(todo)
        /\ UNCHANGED <<enabled, saved, now, ret, popped, armed>>
    BY <1>0, <1>5 DEF ApplyDelete, STypeOK
  <2>2. todo' \in Seq(Ids)
    BY <2>1, HeadTailProperties
  <2>3. NoInsertCanFail'
    BY <2>1 DEF NoInsertCanFail
  <2>4. CASE Head(todo) \in Scheduled(acts)
    <3>1. acts' = FillGap(acts, IndexOf(acts, Head(todo))) /\ dirty' = TRUE
      BY <1>5, <2>4 DEF ApplyDelete
    <3>2. IndexOf(acts, Head(todo)) \in DOMAIN acts
      BY <1>0, <2>4, IndexOfProperties
    <3>3. WellFormed(acts')
      BY <1>0, <3>1, <3>2, RemovalKeepsInv
    <3>4. STypeOK'
      BY <1>0, <2>1, <2>2, <3>1, <3>3 DEF STypeOK, WellFormed, Distinct, SizeOk
    <3>5. CleanMeansSaved'
      BY <3>1 DEF CleanMeansSaved
    <3> QED
      BY <2>3, <3>4, <3>5 DEF SInv
  <2>5. CASE Head(todo) \notin Scheduled(acts)
    <3>1. UNCHANGED <<acts, dirty>>
      BY <1>5, <2>5 DEF ApplyDelete
    <3>2. STypeOK'
      BY <1>0, <2>1, <2>2, <3>1 DEF STypeOK, WellFormed, Distinct, SizeOk
    <3>3. CleanMeansSaved'
      BY <1>0, <2>1, <3>1 DEF CleanMeansSaved, Image, Deserialize, SizeOk
    <3> QED
      BY <2>3, <3>2, <3>3 DEF SInv
  <2> QED
    BY <2>4, <2>5
<1>6. CASE ApplyDone
  <2>1. /\ phase \in {"insert", "delete"} /\ todo = <<>> /\ phase' = ret
        /\ UNCHANGED <<acts, enabled, dirty, saved, now, ret, todo, popped, armed>>
    BY <1>6 DEF ApplyDone
  <2>2. STypeOK'
    BY <1>0, <2>1 DEF STypeOK, WellFormed, Distinct, SizeOk
  <2>3. NoInsertCanFail'
    BY <1>0, <2>1 DEF STypeOK, NoInsertCanFail
  <2>4. CleanMeansSaved'
    BY <1>0, <2>1 DEF CleanMeansSaved, Image, Deserialize, SizeOk
  <2> QED
    BY <2>2, <2>3, <2>4 DEF SInv
<1>7. CASE OtherTc
  <2>1. /\ phase' \in {"top", "tc"} /\ popped' = NoActivity
        /\ ret' = ret /\ todo' = <<>>
    BY <1>7, FinishTcKeepsPasses DEF OtherTc
  <2>2. UNCHANGED <<acts, enabled, dirty, saved, now, armed>>
    BY <1>7 DEF OtherTc
  <2>3. STypeOK'
    BY <1>0, <2>1, <2>2 DEF STypeOK, WellFormed, Distinct, SizeOk
  <2>4. NoInsertCanFail'
    BY <2>1 DEF NoInsertCanFail
  <2>5. CleanMeansSaved'
    BY <1>0, <2>2 DEF CleanMeansSaved, Image, Deserialize, SizeOk
  <2> QED
    BY <2>3, <2>4, <2>5 DEF SInv
<1>8. CASE \E on \in BOOLEAN : Switch(on)
  <2>1. PICK on \in BOOLEAN : Switch(on)
    BY <1>8
  <2>2. /\ phase' \in {"top", "tc"} /\ popped' = NoActivity
        /\ ret' = ret /\ todo' = <<>>
    BY <2>1, FinishTcKeepsPasses DEF Switch
  <2>3. /\ enabled' = on /\ dirty' = (dirty \/ enabled # on) /\ armed' = (armed \/ on)
        /\ UNCHANGED <<acts, saved, now>>
    BY <2>1 DEF Switch
  <2>4. enabled' \in BOOLEAN /\ dirty' \in BOOLEAN /\ armed' \in BOOLEAN
    BY <1>0, <2>3 DEF STypeOK
  <2>5. STypeOK'
    BY <1>0, <2>2, <2>3, <2>4 DEF STypeOK, WellFormed, Distinct, SizeOk
  <2>6. CleanMeansSaved'
    BY <1>0, <2>3 DEF CleanMeansSaved, Image, Deserialize, SizeOk
  <2>7. NoInsertCanFail'
    BY <2>2 DEF NoInsertCanFail
  <2> QED
    BY <2>5, <2>6, <2>7 DEF SInv
<1>9. CASE ResetSchedule
  <2>1. /\ phase' \in {"top", "tc"} /\ popped' = NoActivity
        /\ ret' = ret /\ todo' = <<>>
    BY <1>9, FinishTcKeepsPasses DEF ResetSchedule
  <2>2. acts' = <<>> /\ dirty' = TRUE /\ UNCHANGED <<enabled, saved, now, armed>>
    BY <1>9 DEF ResetSchedule
  <2>3. WellFormed(acts')
    BY <2>2, EmptyIsWellFormed
  <2>4. STypeOK'
    BY <1>0, <2>1, <2>2, <2>3 DEF STypeOK, WellFormed, Distinct, SizeOk
  <2>5. NoInsertCanFail' /\ CleanMeansSaved'
    BY <2>1, <2>2 DEF NoInsertCanFail, CleanMeansSaved
  <2> QED
    BY <2>4, <2>5 DEF SInv
<1>10. CASE \E batch \in Batches : Insert(batch)
  <2>1. PICK batch \in Batches : Insert(batch)
    BY <1>10, Zenon
  <2>2. batch \in Seq(Activity)
    BY RequestsAreSequences
  <2>3. /\ AcceptsTc /\ UNCHANGED <<acts, enabled, dirty, saved, now, armed>>
    BY <2>1 DEF Insert
  <2>4. CleanMeansSaved'
    BY <1>0, <2>3 DEF CleanMeansSaved, Image, Deserialize, SizeOk
  <2>5. CASE Insertable(batch)
    <3>1. phase' = "insert" /\ ret' = After /\ todo' = batch /\ popped' = NoActivity
      BY <2>1, <2>5 DEF Insert
    <3>2. ret' \in {"top", "tc"}
      BY <2>3, <3>1 DEF AcceptsTc, After
    <3>3. STypeOK'
      BY <1>0, <2>2, <2>3, <3>1, <3>2 DEF STypeOK, WellFormed, Distinct, SizeOk
    <3>4. ASSUME NEW k \in DOMAIN batch PROVE SizeOk(batch[k].len)
      <4>1. batch[k] \in Activity
        BY <2>2, <3>4, ElementOfSeq, LenProperties
      <4>2. batch[k].len \in Nat /\ batch[k].len >= 7
        BY <4>1, ScheduleAssumption DEF Activity, MinTc
      <4> QED
        BY <2>5, <4>2, ScheduleAssumption DEF Insertable, SizeOk, RequestIdSize
    <3>5. NoInsertCanFail'
      BY <2>3, <2>5, <3>1, <3>4 DEF NoInsertCanFail, Insertable, Scheduled, SizeOk
    <3> QED
      BY <2>4, <3>3, <3>5 DEF SInv
  <2>6. CASE ~Insertable(batch)
    <3>1. /\ phase' \in {"top", "tc"} /\ popped' = NoActivity
          /\ ret' = ret /\ todo' = <<>>
      BY <2>1, <2>3, <2>6, FinishTcKeepsPasses DEF Insert
    <3>2. STypeOK'
      BY <1>0, <2>3, <3>1 DEF STypeOK, WellFormed, Distinct, SizeOk
    <3>3. NoInsertCanFail'
      BY <3>1 DEF NoInsertCanFail
    <3> QED
      BY <2>4, <3>2, <3>3 DEF SInv
  <2> QED
    BY <2>5, <2>6
<1>11. CASE \E ids \in IdLists : Delete(ids)
  <2>1. PICK ids \in IdLists : Delete(ids)
    BY <1>11, Zenon
  <2>2. ids \in Seq(Ids)
    BY RequestsAreSequences
  <2>3. /\ AcceptsTc
        /\ UNCHANGED <<acts, enabled, dirty, saved, now, armed>>
    BY <2>1 DEF Delete
  <2>4. CleanMeansSaved'
    BY <1>0, <2>3 DEF CleanMeansSaved, Image, Deserialize, SizeOk
  <2>5. CASE Len(ids) <= MaxPerTc /\ \A k \in DOMAIN ids : ids[k] \in Scheduled(acts)
    <3>1. phase' = "delete" /\ ret' = After /\ todo' = ids /\ popped' = NoActivity
      BY <2>1, <2>5 DEF Delete
    <3>2. ret' \in {"top", "tc"}
      BY <2>3, <3>1 DEF AcceptsTc, After
    <3>3. STypeOK'
      BY <1>0, <2>2, <2>3, <3>1, <3>2 DEF STypeOK, WellFormed, Distinct, SizeOk
    <3>4. NoInsertCanFail'
      BY <3>1 DEF NoInsertCanFail
    <3> QED
      BY <2>4, <3>3, <3>4 DEF SInv
  <2>6. CASE ~(Len(ids) <= MaxPerTc /\ \A k \in DOMAIN ids : ids[k] \in Scheduled(acts))
    <3>1. FinishTc
      BY <2>1, <2>6 DEF Delete
    <3>2. /\ phase' \in {"top", "tc"} /\ popped' = NoActivity
          /\ ret' = ret /\ todo' = <<>>
      BY <2>3, <3>1, FinishTcKeepsPasses
    <3>3. STypeOK'
      BY <1>0, <2>3, <3>2 DEF STypeOK, WellFormed, Distinct, SizeOk
    <3>4. NoInsertCanFail'
      BY <3>2 DEF NoInsertCanFail
    <3> QED
      BY <2>4, <3>3, <3>4 DEF SInv
  <2> QED
    BY <2>5, <2>6
<1>12. CASE PowerCycle
  <2>1. /\ acts' = saved.acts /\ enabled' = saved.enabled /\ dirty' = FALSE /\ now' = 0
        /\ phase' = "top" /\ ret' = "top" /\ todo' = <<>> /\ popped' = NoActivity
        /\ armed' = FALSE /\ saved' = saved
    BY <1>0, <1>12, RestoresAll DEF PowerCycle
  <2>2. WellFormed(acts')
    BY <1>0, <2>1
  <2>3. STypeOK'
    BY <1>0, <2>1, <2>2 DEF STypeOK, WellFormed, Distinct, SizeOk
  <2>4. NoInsertCanFail'
    BY <2>1 DEF NoInsertCanFail
  <2>5. CleanMeansSaved'
    <3>1. Deserialize(saved') = [acts |-> acts', enabled |-> enabled']
      BY <1>0, <2>1, RestoresAll
    <3> QED
      BY <3>1 DEF CleanMeansSaved, Image, Deserialize, SizeOk
  <2> QED
    BY <2>3, <2>4, <2>5 DEF SInv
<1>13. CASE UNCHANGED svars
  <2>1. UNCHANGED <<acts, enabled, dirty, saved, now, phase, ret, todo, popped, armed>>
    BY <1>13 DEF svars
  <2>2. STypeOK'
    BY <1>0, <2>1 DEF STypeOK, WellFormed, Distinct, SizeOk
  <2>3. NoInsertCanFail'
    BY <1>0, <2>1 DEF NoInsertCanFail, Scheduled, SizeOk
  <2>4. CleanMeansSaved'
    BY <1>0, <2>1 DEF CleanMeansSaved, Image, Deserialize, SizeOk
  <2> QED
    BY <2>2, <2>3, <2>4 DEF SInv
<1> QED
  BY <1>1, <1>2, <1>3, <1>4, <1>5, <1>6, <1>7, <1>8, <1>9, <1>10, <1>11, <1>12, <1>13
  DEF SNext, LoopStep, TcStep

(* Every reachable state satisfies the inductive invariant.  Stated for    *)
(* the specification without fairness: fairness adds nothing to safety.    *)
THEOREM ScheduleInvariant == SSpec => []SInv
<1> QED
  BY InitInv, StepInv, PTL DEF SSpec

(* The live schedule and the record on flash never outgrow the array, hold *)
(* no request identifier twice and no telecommand of a bad length, and the *)
(* loop's buffers hold something only in the phase that uses them          *)
(* (lib/schedule, pus11.c).                                                *)
THEOREM ScheduleTypeCorrect == SSpec => []STypeOK
<1>1. SInv => STypeOK
  BY DEF SInv
<1> QED
  BY <1>1, ScheduleInvariant, PTL

(* No migris_schedule_insert of pass two of [11,4] fails, whatever the     *)
(* batch, the schedule and the resets before it: the return codes that     *)
(* pus11.c discards are all success.                                       *)
THEOREM InsertNeverFails == SSpec => []NoInsertCanFail
<1>1. SInv => NoInsertCanFail
  BY DEF SInv
<1> QED
  BY <1>1, ScheduleInvariant, PTL

(* The dirty test of the save tick misses no change: a clean schedule is   *)
(* the one a reboot would restore.                                         *)
THEOREM CleanScheduleIsSaved == SSpec => []CleanMeansSaved
<1>1. SInv => CleanMeansSaved
  BY DEF SInv
<1> QED
  BY <1>1, ScheduleInvariant, PTL

----------------------------------------------------------------------------
(* The array implements the table *)

LEMMA InitRefines == SInit => Table!Init
<1> SUFFICES ASSUME SInit PROVE Table!Init
  OBVIOUS
<1>1. ToTable(<<>>) = {}
  BY EmptySeq DEF ToTable
<1>2. ToTable(acts) = {} /\ ToTable(saved.acts) = {} /\ saved.enabled = FALSE
  BY <1>1 DEF SInit
<1> QED
  BY <1>2 DEF SInit, Table!Init

(* A step that leaves the array, the flag, the clock and the record alone  *)
(* and gives up the release buffer is a step of the table or a stutter.    *)
LEMMA HandledRefines ==
    ASSUME popped' = NoActivity, UNCHANGED <<acts, enabled, now, saved>>
    PROVE  Table!Next
BY DEF Table!Next, Table!Dispatched

(* The table counts with the same Cardinality. *)
LEMMA TableCountsAlike == \A S : Table!Cardinality(S) = Cardinality(S)
BY Zenon DEF Table!Cardinality, Cardinality

LEMMA StepRefines == SInv /\ [SNext]_svars => [Table!Next]_(Table!tvars)
<1> SUFFICES ASSUME SInv, [SNext]_svars PROVE [Table!Next]_(Table!tvars)
  OBVIOUS
<1>0. /\ acts \in Seq(Activity) /\ Distinct(acts) /\ now \in Nat
      /\ enabled \in BOOLEAN /\ STypeOK /\ WellFormed(saved.acts)
  BY DEF SInv, STypeOK, WellFormed
<1>1. CASE SaveTick
  <2>1. now' >= now
    BY <1>0, <1>1 DEF SaveTick
  <2>2. CASE dirty
    <3>1. saved' = [acts |-> acts, enabled |-> enabled] /\ UNCHANGED <<acts, enabled, popped>>
      BY <1>1, <2>2 DEF SaveTick, Image
    <3>2. Table!Persist
      BY <2>1, <3>1 DEF Table!Persist
    <3> QED
      BY <3>2 DEF Table!Next
  <2>3. CASE ~dirty
    <3>1. UNCHANGED <<acts, enabled, popped, saved>>
      BY <1>1, <2>3 DEF SaveTick
    <3>2. Table!Tick
      BY <2>1, <3>1 DEF Table!Tick
    <3> QED
      BY <3>2 DEF Table!Next
  <2> QED
    BY <2>2, <2>3
<1>2. CASE ReleaseNothing
  BY <1>2 DEF ReleaseNothing, Table!tvars
<1>3. CASE ReleaseDue
  <2> DEFINE i == DueIndex(acts, now)
  <2>1. /\ i \in DOMAIN acts
        /\ acts[i].time <= now
        /\ \A b \in ToTable(acts) : acts[i].time <= b.time
    BY <1>0, <1>3, DueIndexProperties DEF ReleaseDue, Releasable
  <2>2. /\ acts' = FillGap(acts, i) /\ popped' = acts[i]
        /\ enabled /\ phase = "release"
        /\ UNCHANGED <<enabled, saved, now>>
    BY <1>3 DEF ReleaseDue, Releasable
  <2> HIDE DEF i
  <2>3. popped = NoActivity
    BY <1>0, <2>2 DEF STypeOK
  <2>4. ToTable(acts') = ToTable(acts) \ {acts[i]}
    BY <1>0, <2>1, <2>2, FillGapRemoves
  <2>5. acts[i] \in ToTable(acts) /\ acts[i] \in Table!Activity
    BY <1>0, <2>1, ElementOfSeq, LenProperties DEF ToTable, Activity, Table!Activity
  <2>6. Table!Fire(acts[i])
    BY <2>1, <2>2, <2>3, <2>4, <2>5 DEF Table!Fire
  <2> QED
    BY <2>5, <2>6 DEF Table!Next
<1>4. CASE ApplyInsert
  <2> DEFINE a == Head(todo)
  <2>1. todo \in Seq(Activity) /\ todo # <<>>
    BY <1>4 DEF ApplyInsert, SInv, STypeOK
  <2>2. a \in Activity
    BY <2>1, HeadTailProperties
  <2>3. UNCHANGED <<enabled, saved, now, popped>>
    BY <1>4 DEF ApplyInsert
  <2>4. CASE InsertOk(acts, a)
    <3>1. acts' = Append(acts, a) /\ a.id \notin Scheduled(acts) /\ Len(acts) < Capacity
      BY <1>4, <2>4 DEF ApplyInsert, InsertOk
    <3>2. ToTable(acts') = ToTable(acts) \cup {a}
      BY <1>0, <2>2, <3>1, AppendAdds
    <3>3. Cardinality(ToTable(acts)) < Capacity
      <4>1. Cardinality(ToTable(acts)) \in Nat /\ Cardinality(ToTable(acts)) <= Len(acts) /\ Len(acts) \in Nat
        BY <1>0, TableCardinality, LenProperties
      <4> QED
        BY <3>1, <4>1, ScheduleAssumption
    <3>4. \A b \in ToTable(acts) : b.id # a.id
      BY <3>1 DEF ToTable, Scheduled
    <3> HIDE DEF a
    <3>5. Table!Add(a)
      <4>1. Table!Cardinality(ToTable(acts)) < Capacity
        BY <3>3, TableCountsAlike
      <4> QED
        BY <2>3, <3>2, <3>4, <4>1 DEF Table!Add
    <3>6. a \in Table!Activity
      BY <2>2 DEF Activity, Table!Activity
    <3> QED
      BY <3>5, <3>6 DEF Table!Next
  <2>5. CASE ~InsertOk(acts, a)
    <3>1. UNCHANGED acts
      BY <1>4, <2>5 DEF ApplyInsert
    <3> QED
      BY <2>3, <3>1 DEF Table!tvars
  <2> QED
    BY <2>4, <2>5
<1>5. CASE ApplyDelete
  <2> DEFINE id == Head(todo)
  <2>1. todo \in Seq(Ids) /\ todo # <<>>
    BY <1>5 DEF ApplyDelete, SInv, STypeOK
  <2>2. id \in Ids
    BY <2>1, HeadTailProperties
  <2>3. UNCHANGED <<enabled, saved, now, popped>>
    BY <1>5 DEF ApplyDelete
  <2>4. CASE id \in Scheduled(acts)
    <3> DEFINE i == IndexOf(acts, id)
    <3>1. acts' = FillGap(acts, i) /\ i \in DOMAIN acts /\ acts[i].id = id
      BY <1>0, <1>5, <2>4, IndexOfProperties DEF ApplyDelete
    <3> HIDE DEF i, id
    <3>2. ToTable(acts') = {b \in ToTable(acts) : b.id # id}
      BY <1>0, <3>1, FillGapRemoves
    <3>3. Table!Remove(id)
      BY <2>3, <3>2 DEF Table!Remove
    <3> QED
      BY <2>2, <3>3 DEF Table!Next
  <2>5. CASE id \notin Scheduled(acts)
    <3>1. UNCHANGED acts
      BY <1>5, <2>5 DEF ApplyDelete
    <3> QED
      BY <2>3, <3>1 DEF Table!tvars
  <2> QED
    BY <2>4, <2>5
<1>6. CASE ApplyDone
  BY <1>6 DEF ApplyDone, Table!tvars
<1>7. CASE OtherTc
  BY <1>7, HandledRefines DEF OtherTc, FinishTc
<1>8. CASE \E on \in BOOLEAN : Switch(on)
  <2>1. enabled' \in BOOLEAN /\ popped' = NoActivity /\ UNCHANGED <<acts, saved, now>>
    BY <1>8 DEF Switch, FinishTc
  <2>2. Table!Switch
    BY <2>1 DEF Table!Switch
  <2> QED
    BY <2>2 DEF Table!Next
<1>9. CASE ResetSchedule
  <2>1. acts' = <<>> /\ popped' = NoActivity /\ UNCHANGED <<enabled, saved, now>>
    BY <1>9 DEF ResetSchedule, FinishTc
  <2>2. ToTable(acts') = {}
    BY <2>1, EmptySeq DEF ToTable
  <2>3. Table!Clear
    BY <2>1, <2>2 DEF Table!Clear
  <2> QED
    BY <2>3 DEF Table!Next
<1>10. CASE \E batch \in Batches : Insert(batch)
  BY <1>10, HandledRefines DEF Insert, FinishTc
<1>11. CASE \E ids \in IdLists : Delete(ids)
  <2>1. PICK ids \in IdLists : Delete(ids)
    BY <1>11, Zenon
  <2>2. popped' = NoActivity /\ UNCHANGED <<acts, enabled, saved, now>>
    BY <2>1 DEF Delete, FinishTc
  <2> QED
    BY <2>2, HandledRefines
<1>12. CASE PowerCycle
  <2>1. /\ acts' = saved.acts /\ enabled' = saved.enabled /\ now' = 0
        /\ popped' = NoActivity /\ UNCHANGED saved
    BY <1>0, <1>12, RestoresAll DEF PowerCycle
  <2>2. Table!PowerCycle
    BY <2>1 DEF Table!PowerCycle
  <2> QED
    BY <2>2 DEF Table!Next
<1>13. CASE UNCHANGED svars
  BY <1>13 DEF svars, Table!tvars
<1> QED
  BY <1>1, <1>2, <1>3, <1>4, <1>5, <1>6, <1>7, <1>8, <1>9, <1>10, <1>11, <1>12, <1>13
  DEF SNext, LoopStep, TcStep

(* The unordered array with its two-pass requests, its save tick and its   *)
(* reboots implements the table keyed by request identifier: every release *)
(* hands out a due activity with the earliest release time and removes it  *)
(* alone, every delete removes its identifier alone, and a reboot brings   *)
(* back the table last persisted.                                          *)
THEOREM ScheduleRefinesTable == SSpec => RefinesTable
<1> QED
  BY ScheduleInvariant, InitRefines, StepRefines, PTL DEF SSpec, RefinesTable, Table!Spec
============================================================================
