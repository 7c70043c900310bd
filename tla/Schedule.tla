------------------------------ MODULE Schedule ------------------------------
(***************************************************************************)
(* The on-board schedule (lib/schedule), its ground interface PUS-11       *)
(* (lib/pus/src/pus11.c) and the parts of the main loop that drive them:   *)
(* the save tick, the release tick and the dispatch of released and        *)
(* received telecommands.                                                  *)
(*                                                                         *)
(* An activity is a release time with the request identifier and the       *)
(* length of its telecommand; the schedule is the code's unordered array,  *)
(* in which a removal moves the last element into the gap.  Multi-item     *)
(* requests are validated in one step and then applied one item per step,  *)
(* as the two passes of the code do.                                       *)
(***************************************************************************)
EXTENDS Integers, Sequences, FiniteSets

CONSTANTS
    Ids,          \* request identifiers
    Times,        \* release times
    TcLens,       \* lengths an embedded telecommand may declare
    TcMax,        \* MIGRIS_SCHEDULE_TC_MAX, also sizeof(released)
    Capacity,     \* MIGRIS_SCHEDULE_CAPACITY
    MaxPerTc,     \* MIGRIS_PUS11_MAX_PER_TC
    NoActivity,
    MaxTime       \* bound: the FSW clock stops advancing here

RequestIdSize == 4    \* MIGRIS_SCHEDULE_REQUEST_ID_SIZE
MinTc         == 7    \* migris_ccsds_packet_total_size(0)

ASSUME ScheduleAssumption ==
    /\ Times \subseteq Nat
    /\ TcLens \subseteq Nat /\ (\A n \in TcLens : n >= MinTc) /\ TcMax \in Nat
    /\ Capacity \in Nat \ {0} /\ MaxPerTc \in Nat /\ MaxTime \in Nat

Activity == [id : Ids, time : Times, len : TcLens]
ASSUME NoActivityAssumption == NoActivity \notin Activity

VARIABLES
    acts,      \* sched->activities[0 .. count - 1]
    enabled,   \* sched->enabled
    dirty,     \* sched->generation # last_saved_gen_sched
    saved,     \* the schedule record on flash
    now,       \* now_sec of this iteration
    phase,     \* "top", "release", "dispatch", "tc", "insert" or "delete"
    ret,       \* where the loop goes on after an insert or a delete
    todo,      \* items of the validated request still to be applied
    popped,    \* released[]: the telecommand being dispatched
    armed      \* history: has ground sent [11,1] since boot?

svars == <<acts, enabled, dirty, saved, now, phase, ret, todo, popped, armed>>

----------------------------------------------------------------------------
(* lib/schedule *)

Scheduled(s) == {s[i].id : i \in DOMAIN s}
ToTable(s)   == {s[i] : i \in DOMAIN s}

(* Mutant: the last activity fills the gap and stays where it was. *)
FillGapKeepsLast(s, i) == [s EXCEPT ![i] = s[Len(s)]]

(* activities[i] = activities[count - 1]; count-- *)
FillGap(s, i) == SubSeq([s EXCEPT ![i] = s[Len(s)]], 1, Len(s) - 1)

(* sched_index_of *)
IndexOf(s, id) == CHOOSE i \in DOMAIN s : s[i].id = id /\ \A j \in 1 .. i - 1 : s[j].id # id

(* The length a stored telecommand may have, for insert and deserialize. *)
SizeOk(len) == len >= RequestIdSize /\ len <= TcMax

InsertOk(s, a) == SizeOk(a.len) /\ a.id \notin Scheduled(s) /\ Len(s) < Capacity

(* Mutant: an activity is due only after its release time. *)
DueLate(s, t) == {i \in DOMAIN s : s[i].time < t}

Due(s, t) == {i \in DOMAIN s : s[i].time <= t}

(* Mutant: a later activity is not displaced by an earlier one. *)
DueIndexFirst(s, t) == CHOOSE i \in Due(s, t) : \A j \in Due(s, t) : i <= j

(* The scan of pop_due: earliest release time, first in the array on a tie. *)
DueIndex(s, t) ==
    CHOOSE i \in Due(s, t) :
        \A j \in Due(s, t) : s[i].time < s[j].time \/ (s[i].time = s[j].time /\ i <= j)

(* pop_due hands one out: nothing is released while the earliest due       *)
(* telecommand does not fit the caller's buffer.                           *)
Releasable == enabled /\ Due(acts, now) # {} /\ acts[DueIndex(acts, now)].len <= TcMax

Image == [acts |-> acts, enabled |-> enabled]

(* deserialize: a record with too many activities or a telecommand of a    *)
(* bad length leaves the schedule empty and disabled.                      *)
Deserialize(record) ==
    IF Len(record.acts) <= Capacity /\ \A i \in DOMAIN record.acts : SizeOk(record.acts[i].len)
      THEN record
      ELSE [acts |-> <<>>, enabled |-> FALSE]

----------------------------------------------------------------------------
SInit ==
    /\ acts = <<>> /\ enabled = FALSE /\ dirty = FALSE
    /\ saved = [acts |-> <<>>, enabled |-> FALSE]
    /\ now = 0 /\ phase = "top" /\ ret = "top" /\ todo = <<>>
    /\ popped = NoActivity /\ armed = FALSE

(* Top of an iteration: read the clock, save the schedule if it changed. *)
SaveTick ==
    /\ phase = "top"
    /\ now' \in {now} \cup {t \in {now + 1} : t <= MaxTime}
    /\ saved' = IF dirty THEN Image ELSE saved
    /\ dirty' = FALSE
    /\ phase' = "release"
    /\ UNCHANGED <<acts, enabled, ret, todo, popped, armed>>

(* migris_schedule_pop_due returns 0 or BUF_TOO_SMALL. *)
ReleaseNothing ==
    /\ phase = "release"
    /\ ~Releasable
    /\ phase' = "tc"
    /\ UNCHANGED <<acts, enabled, dirty, saved, now, ret, todo, popped, armed>>

(* migris_schedule_pop_due returns 1: one activity per iteration. *)
ReleaseDue ==
    /\ phase = "release"
    /\ Releasable
    /\ LET i == DueIndex(acts, now)
       IN  popped' = acts[i] /\ acts' = FillGap(acts, i)
    /\ dirty' = TRUE
    /\ phase' = "dispatch"
    /\ UNCHANGED <<enabled, saved, now, ret, todo, armed>>

(* Where a telecommand comes from, and where the loop goes after it: the   *)
(* released one is followed by the inbound one, that by the next iteration.*)
After == CASE phase = "dispatch" -> "tc"
           [] phase = "tc"       -> "top"
AcceptsTc == phase \in {"dispatch", "tc"}

FinishTc == phase' = After /\ popped' = NoActivity /\ UNCHANGED <<ret, todo>>

(* The released telecommand is for another service, is rejected, or no     *)
(* telecommand was received.                                               *)
OtherTc ==
    /\ AcceptsTc
    /\ FinishTc
    /\ UNCHANGED <<acts, enabled, dirty, saved, now, armed>>

(* Mutant: every [11,1] or [11,2] leaves the image as it was. *)
SwitchUnsaved(on) ==
    /\ AcceptsTc
    /\ enabled' = on
    /\ armed' = (armed \/ on)
    /\ FinishTc
    /\ UNCHANGED <<acts, dirty, saved, now>>

(* [11,1] enable and [11,2] disable; an unchanged value is not a mutation. *)
Switch(on) ==
    /\ AcceptsTc
    /\ enabled' = on
    /\ dirty' = (dirty \/ enabled # on)
    /\ armed' = (armed \/ on)
    /\ FinishTc
    /\ UNCHANGED <<acts, saved, now>>

(* [11,3] *)
ResetSchedule ==
    /\ AcceptsTc
    /\ acts' = <<>>
    /\ dirty' = TRUE
    /\ FinishTc
    /\ UNCHANGED <<enabled, saved, now, armed>>

(* Mutant: no check of the batch against itself. *)
InsertableLive(batch) ==
    /\ Len(batch) <= MaxPerTc
    /\ Len(acts) + Len(batch) <= Capacity
    /\ \A k \in DOMAIN batch : batch[k].len <= TcMax /\ batch[k].id \notin Scheduled(acts)

(* pus11_decode_inserts: count, room, and telecommands that are not too    *)
(* long, with identifiers that are new to the batch and to the schedule.   *)
Insertable(batch) ==
    /\ Len(batch) <= MaxPerTc
    /\ Len(acts) + Len(batch) <= Capacity
    /\ \A k \in DOMAIN batch :
          /\ batch[k].len <= TcMax
          /\ batch[k].id \notin Scheduled(acts)
          /\ \A j \in 1 .. k - 1 : batch[j].id # batch[k].id

(* [11,4], pass one. *)
Insert(batch) ==
    /\ AcceptsTc
    /\ IF Insertable(batch)
         THEN phase' = "insert" /\ ret' = After /\ todo' = batch /\ popped' = NoActivity
         ELSE FinishTc
    /\ UNCHANGED <<acts, enabled, dirty, saved, now, armed>>

(* [11,4], pass two: one migris_schedule_insert, its return code ignored. *)
ApplyInsert ==
    /\ phase = "insert" /\ todo # <<>>
    /\ IF InsertOk(acts, Head(todo))
         THEN acts' = Append(acts, Head(todo)) /\ dirty' = TRUE
         ELSE UNCHANGED <<acts, dirty>>
    /\ todo' = Tail(todo)
    /\ UNCHANGED <<enabled, saved, now, phase, ret, popped, armed>>

(* [11,5], pass one: every identifier must be scheduled. *)
Delete(ids) ==
    /\ AcceptsTc
    /\ IF Len(ids) <= MaxPerTc /\ \A k \in DOMAIN ids : ids[k] \in Scheduled(acts)
         THEN phase' = "delete" /\ ret' = After /\ todo' = ids /\ popped' = NoActivity
         ELSE FinishTc
    /\ UNCHANGED <<acts, enabled, dirty, saved, now, armed>>

(* [11,5], pass two: a repeated identifier deletes once. *)
ApplyDelete ==
    /\ phase = "delete" /\ todo # <<>>
    /\ IF Head(todo) \in Scheduled(acts)
         THEN acts' = FillGap(acts, IndexOf(acts, Head(todo))) /\ dirty' = TRUE
         ELSE UNCHANGED <<acts, dirty>>
    /\ todo' = Tail(todo)
    /\ UNCHANGED <<enabled, saved, now, phase, ret, popped, armed>>

ApplyDone ==
    /\ phase \in {"insert", "delete"} /\ todo = <<>>
    /\ phase' = ret
    /\ UNCHANGED <<acts, enabled, dirty, saved, now, ret, todo, popped, armed>>

(* Power loss and reboot: init, then deserialize the record on flash,      *)
(* which brings back the activities and the enabled flag.  Uptime, the     *)
(* FSW clock, starts again at zero.                                        *)
PowerCycle ==
    /\ acts' = Deserialize(saved).acts /\ enabled' = Deserialize(saved).enabled
    /\ dirty' = FALSE
    /\ now' = 0 /\ phase' = "top" /\ ret' = "top" /\ todo' = <<>>
    /\ popped' = NoActivity /\ armed' = FALSE
    /\ UNCHANGED saved

(* Requests of every length up to one item too many; of a request with too *)
(* many items only the count is read.                                      *)
OverlongOf(S) == {[k \in 1 .. MaxPerTc + 1 |-> x] : x \in S}
Batches == (UNION {[1 .. n -> Activity] : n \in 0 .. MaxPerTc}) \cup OverlongOf(Activity)
IdLists == (UNION {[1 .. n -> Ids] : n \in 0 .. MaxPerTc}) \cup OverlongOf(Ids)

TcStep ==
    \/ OtherTc
    \/ \E on \in BOOLEAN : Switch(on)
    \/ ResetSchedule
    \/ \E batch \in Batches : Insert(batch)
    \/ \E ids \in IdLists : Delete(ids)

LoopStep ==
    \/ SaveTick
    \/ ReleaseNothing
    \/ ReleaseDue
    \/ ApplyInsert
    \/ ApplyDelete
    \/ ApplyDone

SNext == LoopStep \/ TcStep \/ PowerCycle

SSpec == SInit /\ [][SNext]_svars

(* The loop never blocks: it takes its own steps, and gets past the places *)
(* where a telecommand may be dispatched whether or not there is one.      *)
(* Power cycles are up to the environment.                                 *)
FairSSpec == SSpec /\ WF_svars(LoopStep) /\ WF_svars(TcStep)

----------------------------------------------------------------------------
Distinct(s) == \A i, j \in DOMAIN s : s[i].id = s[j].id => i = j

(* An array of at most Capacity activities, one per request identifier,    *)
(* each of a length the release buffer can take.                           *)
WellFormed(s) ==
    /\ s \in Seq(Activity) /\ Len(s) <= Capacity
    /\ Distinct(s)
    /\ \A i \in DOMAIN s : SizeOk(s[i].len)

(* The live schedule and the record on flash are well formed through every *)
(* removal, batch and restore, and the loop's buffers hold something only  *)
(* in the phase that uses them.                                            *)
STypeOK ==
    /\ WellFormed(acts) /\ WellFormed(saved.acts)
    /\ enabled \in BOOLEAN /\ dirty \in BOOLEAN /\ armed \in BOOLEAN
    /\ saved = [acts |-> saved.acts, enabled |-> saved.enabled] /\ saved.enabled \in BOOLEAN
    /\ now \in Nat
    /\ phase \in {"top", "release", "dispatch", "tc", "insert", "delete"}
    /\ ret \in {"top", "tc"}
    /\ phase = "insert" => todo \in Seq(Activity)
    /\ phase = "delete" => todo \in Seq(Ids)
    /\ phase \notin {"insert", "delete"} => todo = <<>>
    /\ popped = NoActivity \/ (popped \in Activity /\ phase = "dispatch")

(* "pus11_decode_inserts verified room, per-TC size and request-id         *)
(* uniqueness, so no insert here can fail": at every point of pass two the *)
(* remaining items fit, none is too short or too long, and none collides   *)
(* with the live schedule or with an earlier item - the discarded return   *)
(* codes hide no failure, and the insert is all or nothing.                *)
NoInsertCanFail ==
    phase = "insert" =>
        /\ Len(acts) + Len(todo) <= Capacity
        /\ \A k \in DOMAIN todo :
              /\ SizeOk(todo[k].len)
              /\ todo[k].id \notin Scheduled(acts)
              /\ \A j \in 1 .. k - 1 : todo[j].id # todo[k].id

(* The generation counter misses nothing and deserialize refuses nothing   *)
(* that was saved: whenever the loop sees no change, a power cycle would   *)
(* bring back exactly the live schedule.                                   *)
CleanMeansSaved == ~dirty => Deserialize(saved) = Image

(* An activity due no later than a joins the schedule. *)
Overtakes(a) ==
    \E b \in Activity :
        /\ phase = "insert" /\ b.time <= a.time
        /\ b \notin ToTable(acts) /\ b \in ToTable(acts')

(* An activity that is due while the schedule is enabled does not stay: it *)
(* is released, removed, or the schedule is disabled or power-cycled.      *)
(* Releases run in time order, one per iteration, so the one exception is  *)
(* that telecommands keep inserting activities due no later than it - as   *)
(* early is enough, for FillGap moves the newest ahead of the oldest.      *)
DueIsReleased ==
    \A a \in {b \in Activity : SizeOk(b.len)} :
        \/ (enabled /\ a \in ToTable(acts) /\ a.time <= now) ~>
               (a \notin ToTable(acts) \/ ~enabled \/ now < a.time)
        \/ []<><<Overtakes(a)>>_svars

(* "Starts disabled - a freshly booted FSW does not autonomously fire a    *)
(* stale schedule until ground sends [11,1]" (docs/wire/pus-11.md).        *)
NoStaleFire == [][(popped' # NoActivity /\ popped' # popped) => armed]_svars

----------------------------------------------------------------------------
(* The array of activities implements the table keyed by identifier. *)
Table == INSTANCE TimeTable WITH
    table <- ToTable(acts),
    kept  <- [table |-> ToTable(saved.acts), enabled |-> saved.enabled]

(* Unordered removals, batches and restores keep the schedule a set of     *)
(* activities with unique identifiers, and a release hands out a due       *)
(* activity with the earliest release time and takes it out of the set.    *)
(* That is once per scheduling only while the power stays on: what was     *)
(* released after the last save comes back with the record, and is handed  *)
(* out again.                                                              *)
RefinesTable == Table!Spec
============================================================================
