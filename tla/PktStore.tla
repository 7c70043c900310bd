------------------------------ MODULE PktStore ------------------------------
(***************************************************************************)
(* The on-board packet store (lib/pktstore), its ground interface PUS-15   *)
(* (lib/pus/src/pus15.c) and the main loop that taps every live TM packet  *)
(* into it (transmit_tm) and drains an armed retrieval one packet per      *)
(* iteration.                                                              *)
(*                                                                         *)
(* A packet is its number in the order of emission, its length and its     *)
(* storage time.  The store is the code's ring: slots, head and count,     *)
(* with a retrieval cursor counted from the head.                          *)
(***************************************************************************)
EXTENDS Integers, Sequences, FiniteSets

CONSTANTS
    Capacity,     \* MIGRIS_PKTSTORE_CAPACITY
    PacketMax,    \* MIGRIS_PKTSTORE_PACKET_MAX
    OutCap,       \* size of the loop's output buffer
    Lens,         \* packet lengths
    MaxBurst,     \* packets a telecommand can be answered with
    MaxTime,      \* bound: the FSW clock stops advancing here
    MaxPackets    \* bound: live packets emitted

(* Every live packet is built in the output buffer. *)
ASSUME StoreAssumption ==
    /\ Capacity \in Nat \ {0} /\ PacketMax \in Nat /\ OutCap \in Nat
    /\ Lens \subseteq 1 .. OutCap
    /\ MaxBurst \in Nat /\ MaxTime \in Nat /\ MaxPackets \in Nat

Times  == 0 .. MaxTime
Phases == <<"hk", "dynamic", "event", "release", "replay", "part", "inbound">>

VARIABLES
    st,          \* the store: slots, head, count, enabled, active, end, cursor
    now,         \* now_sec of this iteration
    at,          \* position in Phases
    emitted,     \* live packets so far
    log,         \* history: every packet the store accepted
    window,      \* history: what the armed retrieval has to replay
    replayed     \* history: what it has replayed

pvars == <<st, now, at, emitted, log, window, replayed>>

----------------------------------------------------------------------------
(* pktstore.c *)
Slot(s, k)  == (s.head + k) % Capacity
Contents(s) == [i \in 1 .. s.count |-> s.slots[Slot(s, i - 1)]]

Fresh == [slots |-> [i \in 0 .. Capacity - 1 |-> [n |-> 0, len |-> 0, time |-> 0]],
          head |-> 0, count |-> 0, enabled |-> TRUE, active |-> FALSE, end |-> 0, cursor |-> 0]

(* Mutant: a retrieval does not suspend storage. *)
AcceptsAlways(s, p) == p.len <= PacketMax /\ s.enabled

Accepts(s, p) == p.len <= PacketMax /\ s.enabled /\ ~s.active

(* A full ring gives up its oldest packet. *)
MakeRoom(s) ==
    IF s.count >= Capacity THEN [s EXCEPT !.head = Slot(s, 1), !.count = @ - 1] ELSE s

(* migris_pktstore_store *)
Store(s, p) ==
    LET r == MakeRoom(s)
    IN  IF Accepts(s, p) THEN [r EXCEPT !.slots[Slot(r, r.count)] = p, !.count = @ + 1] ELSE s

(* Offset of the first packet at or after t: the leading run before it is  *)
(* what delete_up_to(t - 1) removes and what a retrieval from t skips.     *)
FirstAtOrAfter(s, t) ==
    CHOOSE k \in 0 .. s.count :
        /\ \A i \in 0 .. k - 1 : s.slots[Slot(s, i)].time < t
        /\ k < s.count => s.slots[Slot(s, k)].time >= t

(* Mutant: the count shrinks, the head stays. *)
DeleteKeepsHead(s, t) ==
    IF s.active THEN s ELSE [s EXCEPT !.count = @ - FirstAtOrAfter(s, t + 1)]

(* migris_pktstore_delete_up_to *)
DeleteUpTo(s, t) ==
    LET k == FirstAtOrAfter(s, t + 1)
    IN  IF s.active THEN s ELSE [s EXCEPT !.head = Slot(s, k), !.count = @ - k]

Arms(s, from, to) == from <= to /\ ~s.active
ArmRetrieval(s, from, to) ==
    [s EXCEPT !.cursor = FirstAtOrAfter(s, from), !.end = to, !.active = TRUE]

(* The packet retrieve_next would hand out. *)
AtCursor(s) == s.slots[Slot(s, s.cursor)]

InWindow(s) == s.cursor < s.count /\ AtCursor(s).time <= s.end

(* What a retrieval over [from, to] has to replay: those among the first k *)
(* packets, and among all of them; defined on the contents alone, whatever *)
(* their order.                                                            *)
Chosen(s, from, to) ==
    LET chosen[k \in 0 .. s.count] ==
            IF k = 0 THEN <<>>
            ELSE IF from <= Contents(s)[k].time /\ Contents(s)[k].time <= to
                   THEN Append(chosen[k - 1], Contents(s)[k])
                   ELSE chosen[k - 1]
    IN  chosen
Window(s, from, to) == Chosen(s, from, to)[s.count]

----------------------------------------------------------------------------
(* transmit_tm taps a packet that went out; log follows the store. *)
Tap(x, p) ==
    [store |-> Store(x.store, p), log |-> IF Accepts(x.store, p) THEN Append(x.log, p) ELSE x.log]

(* ... and so the packets of a burst, one by one. *)
Sent(lens, i) == [n |-> emitted + i, len |-> lens[i], time |-> now]
Tapped(s, lens) ==
    LET tapped[i \in 0 .. Len(lens)] ==
            IF i = 0 THEN [store |-> s, log |-> log] ELSE Tap(tapped[i - 1], Sent(lens, i))
    IN  tapped

Transmit(s, lens) ==
    /\ emitted + Len(lens) <= MaxPackets
    /\ st' = Tapped(s, lens)[Len(lens)].store
    /\ log' = Tapped(s, lens)[Len(lens)].log
    /\ emitted' = emitted + Len(lens)

NextPhase ==
    /\ at' = IF at = Len(Phases) THEN 1 ELSE at + 1
    /\ now' \in IF at = Len(Phases) THEN {now} \cup {t \in Times : t = now + 1} ELSE {now}

Bursts(k) == UNION {[1 .. i -> Lens] : i \in 0 .. k}

----------------------------------------------------------------------------
(* At boot the store is empty and the boot event is the first packet. *)
PInit ==
    /\ \E l \in Lens :
         LET boot == [n |-> 1, len |-> l, time |-> 0]
         IN  st = Store(Fresh, boot) /\ log = IF Accepts(Fresh, boot) THEN <<boot>> ELSE <<>>
    /\ now = 0 /\ at = 1 /\ emitted = 1 /\ window = <<>> /\ replayed = <<>>

(* Housekeeping, event and large-data ticks: at most one packet each. *)
EmitTick(lens) ==
    /\ Phases[at] \in {"hk", "dynamic", "event", "part"}
    /\ Transmit(st, lens)
    /\ NextPhase
    /\ UNCHANGED <<window, replayed>>

Dispatches == Phases[at] \in {"release", "inbound"}

(* No telecommand, one for another service, a rejected one, a report       *)
(* [15,12]: whatever the answer, it is tapped.                             *)
OtherTc(lens) ==
    /\ Dispatches
    /\ Transmit(st, lens)
    /\ NextPhase
    /\ UNCHANGED <<window, replayed>>

(* [15,1] and [15,2]: the answer is tapped under the new setting. *)
Switch(on, lens) ==
    /\ Dispatches
    /\ Transmit([st EXCEPT !.enabled = on], lens)
    /\ NextPhase
    /\ UNCHANGED <<window, replayed>>

(* [15,11]; refused while a retrieval is active. *)
Delete(t, lens) ==
    /\ Dispatches
    /\ Transmit(DeleteUpTo(st, t), lens)
    /\ NextPhase
    /\ UNCHANGED <<window, replayed>>

(* [15,9]; refused for an inverted window or while a retrieval is active.  *)
Downlink(from, to, lens) ==
    /\ Dispatches
    /\ IF Arms(st, from, to)
         THEN /\ Transmit(ArmRetrieval(st, from, to), lens)
              /\ window' = Window(st, from, to) /\ replayed' = <<>>
         ELSE /\ Transmit(st, lens)
              /\ UNCHANGED <<window, replayed>>
    /\ NextPhase

(* migris_pktstore_retrieve_next with no retrieval, or past its window. *)
ReplayNothing ==
    /\ Phases[at] = "replay"
    /\ ~(st.active /\ InWindow(st))
    /\ st' = [st EXCEPT !.active = FALSE]
    /\ NextPhase
    /\ UNCHANGED <<emitted, log, window, replayed>>

(* Mutant: the cursor is not advanced. *)
ReplayStuck ==
    /\ Phases[at] = "replay"
    /\ st.active /\ InWindow(st)
    /\ NextPhase
    /\ UNCHANGED <<st, emitted, log, window, replayed>>

(* ... and with a packet: re-emitted verbatim, not tapped.  A packet that  *)
(* does not fit the buffer leaves the cursor where it is.                  *)
ReplayOne ==
    /\ Phases[at] = "replay"
    /\ st.active /\ InWindow(st)
    /\ IF AtCursor(st).len <= OutCap
         THEN /\ st' = [st EXCEPT !.cursor = @ + 1]
              /\ replayed' = Append(replayed, AtCursor(st))
         ELSE UNCHANGED <<st, replayed>>
    /\ NextPhase
    /\ UNCHANGED <<emitted, log, window>>

Tick     == \E lens \in Bursts(1) : EmitTick(lens)
TcDispatch ==
    \E lens \in Bursts(MaxBurst) :
        \/ OtherTc(lens)
        \/ \E on \in BOOLEAN : Switch(on, lens)
        \/ \E t \in Times : Delete(t, lens)
        \/ \E from, to \in Times : Downlink(from, to, lens)

PNext == Tick \/ TcDispatch \/ ReplayNothing \/ ReplayOne

PSpec == PInit /\ [][PNext]_pvars

(* The loop never blocks. *)
FairPSpec == PSpec /\ WF_pvars(PNext)

----------------------------------------------------------------------------
(* "The most recent telemetry is always kept": the store holds the newest  *)
(* accepted packets without a hole, oldest first - through overwriting,    *)
(* deletions, suspended storage and retrievals.                            *)
NewestRun ==
    LET c == Contents(st)
    IN  /\ c = SubSeq(log, Len(log) - Len(c) + 1, Len(log))
        /\ \A i \in 1 .. Len(c) - 1 : c[i].time <= c[i + 1].time

(* A retrieval replays exactly the packets stored in its inclusive window  *)
(* when it was armed, in order and once each, although telemetry is        *)
(* emitted and telecommands arrive between any two of them.                *)
ReplayExact ==
    /\ \E k \in 0 .. Len(window) : replayed = SubSeq(window, 1, k)
    /\ ~st.active => replayed = window

(* The store does not stay frozen: every retrieval ends. *)
RetrievalEnds == st.active ~> ~st.active
============================================================================
