-------------------------------- MODULE Fdir --------------------------------
(***************************************************************************)
(* Fault detection, isolation and recovery: the anomaly registry with its  *)
(* confirmation counters (lib/fdir/src/fdir.c), the event ring             *)
(* (event_fifo.c), the mode manager (lib/mode/src/mode.c), the PUS-5       *)
(* message counters (pus5.c), and the main loop that feeds, drains and     *)
(* persists them, with the UART receive interrupt counting dropped bytes   *)
(* beside it.                                                              *)
(*                                                                         *)
(* One iteration of the loop visits the phases "save", "rx", "report",     *)
(* "drain", "release", "inbound" in that order.                            *)
(***************************************************************************)
EXTENDS Integers, Sequences, FiniteSets

CONSTANTS
    Capacity,     \* MIGRIS_FDIR_EVENT_FIFO_CAPACITY
    Thresholds,   \* confirmation policy handed to arm_recovery; 0 = never
    OccMax,       \* 0xFFFF: the occurrence counters saturate
    DropMod,      \* 2^32: rx_ring_overflow_drops is a uint32_t
    CounterMod,   \* 2^8: PUS-5 message counters
    NoRecord,     \* no MODE record on flash
    MaxOps,       \* bound: anomalies and mission calls per boot
    MaxLost       \* bound: bytes the receive ring drops per boot

Anomalies  == {"TC_REJECTED", "RX_OVERFLOW"}
Modes      == {"BOOT", "NOMINAL", "SAFE"}
Severities == {"INFO", "LOW", "MEDIUM", "HIGH"}

ASSUME FdirAssumption ==
    /\ Capacity \in Nat \ {0} /\ OccMax \in Nat \ {0}
    /\ Thresholds \in [Anomalies -> 0 .. OccMax]
    /\ DropMod \in Nat \ {0, 1} /\ CounterMod \in Nat \ {0, 1}
    /\ NoRecord \notin Modes
    /\ MaxOps \in Nat /\ MaxLost \in Nat

(* The sample's mode table. *)
AllowedTargets == [BOOT |-> {"NOMINAL", "SAFE"}, NOMINAL |-> {"SAFE"}, SAFE |-> {"NOMINAL"}]
SafeMode       == "SAFE"

(* The registry: how each event classifies on the wire. *)
Severity == [FSW_BOOT     |-> "INFO",   MODE_CHANGED  |-> "INFO", TC_REJECTED |-> "LOW",
             RX_OVERFLOW  |-> "MEDIUM", FDIR_RECOVERY |-> "HIGH"]
EventIds == DOMAIN Severity

(* An event record: its detail word (dropped bytes, or the generation of a *)
(* mode change), who caused it, and (history) how many events of its       *)
(* severity had been raised when it was.                                   *)
Event == [id : EventIds, detail : Nat, by : {"fdir", "other"}, n : Nat]

VARIABLES
    fifo,              \* ctx->fifo: ring slots, head, count, dropped; history: log, raised
    occurrences, confirmed, recovery_enabled,
    mode,              \* mgr->current
    generation,        \* mgr->generation
    saved,             \* MODE record on flash, and the loop's last_saved_gen_mode
    msg_counter,       \* PUS-5 message counters
    rx_drops,          \* rx_ring_overflow_drops, written by the interrupt
    rx_snapshot,       \* the loop's local copy
    last_reported,     \* last_reported_rx_drops
    phase,
    sent,              \* history: PUS-5 reports on the wire since boot, with their counter
    lost,              \* history: bytes dropped by the receive ring since boot
    told,              \* history: bytes reported as dropped since boot
    reports,           \* history: anomalies of each type since arming
    recoveries,        \* history: recoveries fired for each type since arming
    undisturbed,       \* history: neither suppressed nor commanded out of SAFE since arming
    ops

fault == <<occurrences, confirmed, recovery_enabled, reports, recoveries, undisturbed>>
rx    == <<rx_drops, rx_snapshot, last_reported, lost, told>>
fvars == <<fifo, fault, mode, generation, saved, msg_counter, rx, phase, sent, ops>>

----------------------------------------------------------------------------
(* event_fifo.c: a ring of Capacity slots. *)
Slots     == 0 .. Capacity - 1
NoEvent   == [id |-> "FSW_BOOT", detail |-> 0, by |-> "other", n |-> 0]
EmptyFifo == [slots |-> [i \in Slots |-> NoEvent], head |-> 0, count |-> 0, dropped |-> 0,
              log |-> <<>>, raised |-> [s \in Severities |-> IF s = "INFO" THEN 1 ELSE 0]]

(* Mutant: the head is left out of the index of the free slot. *)
TailSlotNoHead(f) == f.count

TailSlot(f) == (f.head + f.count) % Capacity

(* Drop-newest: a full ring refuses the event and counts it. *)
Push(f, id, detail, by) ==
    LET s  == Severity[id]
        g  == [f EXCEPT !.raised[s] = @ + 1]
        ev == [id |-> id, detail |-> detail, by |-> by, n |-> g.raised[s]]
    IN  IF f.count >= Capacity
          THEN [g EXCEPT !.dropped = @ + 1]
          ELSE [g EXCEPT !.slots[TailSlot(f)] = ev, !.count = @ + 1, !.log = Append(@, ev)]

(* Mutant: the head runs off the end of the ring. *)
PoppedNoModulo(f) == [f EXCEPT !.head = @ + 1, !.count = @ - 1]

Popped(f) == [f EXCEPT !.head = (@ + 1) % Capacity, !.count = @ - 1]

(* The queued records, oldest first. *)
Queue(f) == [i \in 1 .. f.count |-> f.slots[(f.head + i - 1) % Capacity]]

----------------------------------------------------------------------------
(* migris_mode_request into the ring f: a forbidden target changes nothing. *)
ModeRequest(f, target, by) ==
    IF target \in AllowedTargets[mode]
      THEN /\ mode' = target
           /\ generation' = generation + 1
           /\ fifo' = Push(f, "MODE_CHANGED", generation + 1, by)
      ELSE fifo' = f /\ UNCHANGED <<mode, generation>>

(* Mutant: the mode is commanded before FDIR_RECOVERY is enqueued. *)
RecoverEffectFirst(f) ==
    IF SafeMode \in AllowedTargets[mode]
      THEN /\ mode' = SafeMode
           /\ generation' = generation + 1
           /\ fifo' = Push(Push(f, "MODE_CHANGED", generation + 1, "fdir"), "FDIR_RECOVERY", 0, "fdir")
      ELSE fifo' = Push(f, "FDIR_RECOVERY", 0, "fdir") /\ UNCHANGED <<mode, generation>>

Recover(f) == ModeRequest(Push(f, "FDIR_RECOVERY", 0, "fdir"), SafeMode, "fdir")

Saturated(n) == IF n < OccMax THEN n + 1 ELSE n
Below(a, n)  == Thresholds[a] = 0 \/ n < Thresholds[a]

(* The confirmation edge. *)
Confirms(a, n) == ~Below(a, n) /\ ~confirmed[a]

(* fdir_observe, on the ring f that already holds the anomaly's report. *)
Observe(f, a) ==
    LET n        == Saturated(occurrences[a])
        recovers == Confirms(a, n) /\ recovery_enabled
    IN  /\ occurrences' = [occurrences EXCEPT ![a] = n]
        /\ confirmed' = [confirmed EXCEPT ![a] = @ \/ Confirms(a, n)]
        /\ IF recovers THEN Recover(f)
                       ELSE fifo' = f /\ UNCHANGED <<mode, generation>>
        /\ reports' = [reports EXCEPT ![a] = @ + 1]
        /\ recoveries' = [recoveries EXCEPT ![a] = @ + IF recovers THEN 1 ELSE 0]
        /\ UNCHANGED <<recovery_enabled, undisturbed>>

(* Mutant: an anomaly whose report did not fit is not counted. *)
ReportOnlyQueued(a, detail) ==
    IF fifo.count >= Capacity
      THEN /\ fifo' = Push(fifo, a, detail, "other")
           /\ reports' = [reports EXCEPT ![a] = @ + 1]
           /\ UNCHANGED <<occurrences, confirmed, recovery_enabled, mode, generation,
                          recoveries, undisturbed>>
      ELSE Observe(Push(fifo, a, detail, "other"), a)

(* Both producers: the typed report_anomaly and the router's event sink. *)
Report(a, detail) == Observe(Push(fifo, a, detail, "other"), a)

----------------------------------------------------------------------------
Disarmed == [a \in Anomalies |-> 0]

(* migris_fdir_arm_recovery *)
Armed ==
    /\ occurrences' = Disarmed
    /\ confirmed' = [a \in Anomalies |-> FALSE]
    /\ recovery_enabled' = TRUE
    /\ reports' = Disarmed /\ recoveries' = Disarmed /\ undisturbed' = TRUE

(* After the boot event and the boot-time transition: BOOT is left for     *)
(* NOMINAL, an operational mode that was restored is kept.                 *)
BootReport == [id |-> "FSW_BOOT", detail |-> 0, by |-> "other", n |-> 1, counter |-> 0]

FInit ==
    /\ fifo = Push(EmptyFifo, "MODE_CHANGED", 1, "other")
    /\ occurrences = Disarmed /\ confirmed = [a \in Anomalies |-> FALSE]
    /\ recovery_enabled = TRUE
    /\ reports = Disarmed /\ recoveries = Disarmed /\ undisturbed = TRUE
    /\ mode = "NOMINAL" /\ generation = 1
    /\ saved = [mode |-> NoRecord, gen |-> 0]
    /\ msg_counter = [s \in Severities |-> IF s = "INFO" THEN 1 ELSE 0]
    /\ rx_drops = 0 /\ rx_snapshot = 0 /\ last_reported = 0 /\ lost = 0 /\ told = 0
    /\ phase = "save" /\ sent = <<BootReport>> /\ ops = 0

(* Power loss and reboot. *)
Reboot ==
    LET restored == IF saved.mode = NoRecord THEN "BOOT" ELSE saved.mode
    IN  /\ IF restored = "BOOT"
             THEN /\ mode' = "NOMINAL" /\ generation' = 1
                  /\ fifo' = Push(EmptyFifo, "MODE_CHANGED", 1, "other")
             ELSE mode' = restored /\ generation' = 0 /\ fifo' = EmptyFifo
        /\ saved' = [saved EXCEPT !.gen = 0]
        /\ Armed
        /\ msg_counter' = [s \in Severities |-> IF s = "INFO" THEN 1 ELSE 0]
        /\ rx_drops' = 0 /\ rx_snapshot' = 0 /\ last_reported' = 0 /\ lost' = 0 /\ told' = 0
        /\ phase' = "save" /\ sent' = <<BootReport>> /\ ops' = 0

(* Mutant: the boot-time change of mode counts as already saved. *)
SaveTickMissesBoot ==
    /\ phase = "save"
    /\ saved' = IF generation > 1 THEN [mode |-> mode, gen |-> generation] ELSE saved
    /\ phase' = "rx"
    /\ UNCHANGED <<fifo, fault, mode, generation, msg_counter, rx, sent, ops>>

(* The save tick, first in the iteration; the record store works. *)
SaveTick ==
    /\ phase = "save"
    /\ saved' = IF generation # saved.gen THEN [mode |-> mode, gen |-> generation] ELSE saved
    /\ phase' = "rx"
    /\ UNCHANGED <<fifo, fault, mode, generation, msg_counter, rx, sent, ops>>

(* The interrupt finds the receive ring full - at any time.  Fewer than    *)
(* 2^32 bytes arrive within an iteration.                                  *)
RxDrop ==
    /\ lost < MaxLost /\ lost - told < DropMod - 1
    /\ rx_drops' = (rx_drops + 1) % DropMod
    /\ lost' = lost + 1
    /\ UNCHANGED <<fifo, fault, mode, generation, saved, msg_counter, phase, sent, ops,
                   rx_snapshot, last_reported, told>>

(* The detector's single read of the volatile counter. *)
RxSnapshot ==
    /\ phase = "rx"
    /\ rx_snapshot' = rx_drops
    /\ phase' = IF rx_drops # last_reported THEN "report" ELSE "drain"
    /\ UNCHANGED <<fifo, fault, mode, generation, saved, msg_counter, sent, ops,
                   rx_drops, last_reported, lost, told>>

(* Mutant: the counter is read again once the anomaly is reported. *)
RxReportRereads ==
    /\ phase = "report"
    /\ LET delta == (rx_snapshot - last_reported) % DropMod
       IN  Report("RX_OVERFLOW", delta) /\ told' = told + delta
    /\ last_reported' = rx_drops
    /\ phase' = "drain"
    /\ UNCHANGED <<saved, msg_counter, sent, ops, rx_drops, rx_snapshot, lost>>

(* Report the increase since the last report. *)
RxReport ==
    /\ phase = "report"
    /\ LET delta == (rx_snapshot - last_reported) % DropMod
       IN  Report("RX_OVERFLOW", delta) /\ told' = told + delta
    /\ last_reported' = rx_snapshot
    /\ phase' = "drain"
    /\ UNCHANGED <<saved, msg_counter, sent, ops, rx_drops, rx_snapshot, lost>>

(* Mutant: an iteration may pass a queued event by. *)
DrainSkips ==
    /\ phase = "drain"
    /\ phase' = "release"
    /\ UNCHANGED <<fifo, fault, mode, generation, saved, msg_counter, rx, sent, ops>>

(* migris_fdir_drain with an empty ring. *)
DrainNothing ==
    /\ phase = "drain" /\ fifo.count = 0
    /\ phase' = "release"
    /\ UNCHANGED <<fifo, fault, mode, generation, saved, msg_counter, rx, sent, ops>>

(* One event per iteration: popped, built with the next message counter of *)
(* its severity, transmitted.                                              *)
Drain ==
    /\ phase = "drain" /\ fifo.count > 0
    /\ LET ev == fifo.slots[fifo.head]
           s  == Severity[ev.id]
       IN  /\ sent' = Append(sent, [id |-> ev.id, detail |-> ev.detail, by |-> ev.by,
                                    n |-> ev.n, counter |-> msg_counter[s]])
           /\ msg_counter' = [msg_counter EXCEPT ![s] = (@ + 1) % CounterMod]
    /\ fifo' = Popped(fifo)
    /\ phase' = "release"
    /\ UNCHANGED <<fault, mode, generation, saved, rx, ops>>

(* The released and the inbound telecommand: at most one of each, ...      *)
Dispatches == phase \in {"release", "inbound"}
Dispatched == phase' = IF phase = "release" THEN "inbound" ELSE "save"
Costs      == ops < MaxOps /\ ops' = ops + 1

(* ... accepted, or none; *)
NoReject ==
    /\ Dispatches /\ Dispatched
    /\ UNCHANGED <<fifo, fault, mode, generation, saved, msg_counter, rx, sent, ops>>

(* ... or rejected: the router reports it through the event sink.          *)
RejectTc ==
    /\ Dispatches /\ Costs
    /\ Report("TC_REJECTED", 0)
    /\ Dispatched
    /\ UNCHANGED <<saved, msg_counter, rx, sent>>

(* Mission code on top of the framework, in the same context. *)
MissionMode(m) ==
    /\ Dispatches /\ Costs
    /\ ModeRequest(fifo, m, "other")
    /\ undisturbed' = (undisturbed /\ m = SafeMode)
    /\ Dispatched
    /\ UNCHANGED <<occurrences, confirmed, recovery_enabled, reports, recoveries,
                   saved, msg_counter, rx, sent>>

SetEnabled(on) ==
    /\ Dispatches /\ Costs
    /\ recovery_enabled' = on
    /\ undisturbed' = (undisturbed /\ on)
    /\ Dispatched
    /\ UNCHANGED <<fifo, occurrences, confirmed, reports, recoveries, mode, generation,
                   saved, msg_counter, rx, sent>>

Rearm ==
    /\ Dispatches /\ Costs
    /\ Armed
    /\ Dispatched
    /\ UNCHANGED <<fifo, mode, generation, saved, msg_counter, rx, sent>>

LoopStep ==
    \/ SaveTick
    \/ RxSnapshot
    \/ RxReport
    \/ DrainNothing
    \/ Drain

DispatchStep ==
    \/ NoReject
    \/ RejectTc
    \/ \E m \in Modes : MissionMode(m)
    \/ \E on \in BOOLEAN : SetEnabled(on)
    \/ Rearm

FNext == LoopStep \/ DispatchStep \/ RxDrop \/ Reboot

FSpec == FInit /\ [][FNext]_fvars

(* The loop never blocks; the environment may do nothing. *)
FairFSpec == FSpec /\ WF_fvars(LoopStep) /\ WF_fvars(DispatchStep)

----------------------------------------------------------------------------
(* Ring indices, saturating and wrapping counters stay in their ranges. *)
FTypeOK ==
    /\ fifo.slots \in [Slots -> Event]
    /\ fifo.head \in Slots /\ fifo.count \in 0 .. Capacity /\ fifo.dropped \in Nat
    /\ occurrences \in [Anomalies -> 0 .. OccMax]
    /\ confirmed \in [Anomalies -> BOOLEAN]
    /\ recovery_enabled \in BOOLEAN /\ undisturbed \in BOOLEAN
    /\ mode \in Modes /\ generation \in Nat
    /\ saved.mode \in Modes \cup {NoRecord} /\ saved.gen \in 0 .. generation
    /\ msg_counter \in [Severities -> 0 .. CounterMod - 1]
    /\ rx_drops \in 0 .. DropMod - 1 /\ last_reported \in 0 .. DropMod - 1
    /\ phase \in {"save", "rx", "report", "drain", "release", "inbound"}

(* The wire preserves the order of events: the reports sent since the boot *)
(* report are exactly the oldest accepted events, the ring holds the rest  *)
(* in order - whatever was refused in between and however often head and   *)
(* tail wrapped.                                                           *)
AsEvent(r) == [id |-> r.id, detail |-> r.detail, by |-> r.by, n |-> r.n]
WireOrder == fifo.log = [i \in 1 .. Len(sent) - 1 |-> AsEvent(sent[i + 1])] \o Queue(fifo)

(* "The per-severity PUS-5 message counter already lets ground detect a    *)
(* sequence gap on the wire" (event_fifo.h): when the ring refused events  *)
(* between two reports of a severity that follow each other on the wire,   *)
(* their counters do not follow each other.                                *)
Successive(i, j) ==
    /\ i < j /\ Severity[sent[i].id] = Severity[sent[j].id]
    /\ \A k \in i + 1 .. j - 1 : Severity[sent[k].id] # Severity[sent[i].id]
GapsAreVisible ==
    \A i, j \in DOMAIN sent :
        (Successive(i, j) /\ sent[j].n > sent[i].n + 1) =>
            sent[j].counter # (sent[i].counter + 1) % CounterMod

(* "Enqueued before the mode request so the cause precedes the             *)
(* MODE_CHANGED effect on the wire" - also when the ring overflows in the  *)
(* middle of the three events: the wire never shows FDIR_RECOVERY without  *)
(* the anomaly that confirmed it just before, nor the autonomous mode      *)
(* change without FDIR_RECOVERY just before.                               *)
CauseBeforeEffect ==
    \A i \in DOMAIN fifo.log :
        /\ fifo.log[i].id = "FDIR_RECOVERY" => i > 1 /\ fifo.log[i - 1].id \in Anomalies
        /\ (fifo.log[i].id = "MODE_CHANGED" /\ fifo.log[i].by = "fdir") =>
               i > 1 /\ fifo.log[i - 1].id = "FDIR_RECOVERY"

(* What ground has seen, a reboot does not undo: a mode change on the wire *)
(* was on flash before (save tick first, one event drained per iteration). *)
SeenIsDurable ==
    \A i \in DOMAIN sent : sent[i].id = "MODE_CHANGED" => sent[i].detail <= saved.gen

(* Every byte the interrupt drops is reported exactly once, although the   *)
(* interrupt writes the counter between the loop's read and its report,    *)
(* and the counter wraps.                                                  *)
DropsToldOnce == told + ((rx_drops - last_reported) % DropMod) = lost

(* Recovery is neither missed nor repeated: once an anomaly has been       *)
(* reported as often as its threshold, the vehicle is in SAFE, lost event  *)
(* reports notwithstanding, unless mission code suppressed recovery or     *)
(* commanded another mode; and it fires at most once per anomaly type and  *)
(* arming, whatever is suppressed and enabled again in between.            *)
RecoversOnce ==
    \A a \in Anomalies :
        /\ (undisturbed /\ Thresholds[a] > 0 /\ reports[a] >= Thresholds[a]) => mode = SafeMode
        /\ recoveries[a] <= 1

(* An accepted event reaches the ground unless the power fails first:      *)
(* either the ring ends up empty for good, or it is drained again and      *)
(* again - and WireOrder says that draining takes the oldest event.        *)
EventsReachGround == <>[](fifo.count = 0) \/ []<><<Drain \/ Reboot>>_fvars
============================================================================
