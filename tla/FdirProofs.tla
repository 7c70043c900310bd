----------------------------- MODULE FdirProofs -----------------------------
(***************************************************************************)
(* Fault detection, isolation and recovery, proved for every ring          *)
(* capacity, confirmation policy and counter width, and for any number of  *)
(* anomalies, mission calls and dropped bytes.                             *)
(***************************************************************************)
EXTENDS Fdir, NumberLemmas, SequenceTheorems, FiniteSetTheorems, TLAPS

----------------------------------------------------------------------------
(* The event ring *)

Ring == [slots : [Slots -> Event], head : Slots, count : 0 .. Capacity, dropped : Nat,
         log : Seq(Event), raised : [Severities -> Nat]]

LEMMA SeverityTypes == \A id \in EventIds : Severity[id] \in Severities
BY DEF Severity, EventIds, Severities

(* The index of a queued record, without the modulus. *)
LEMMA SlotIndex ==
    ASSUME NEW h \in Slots, NEW k \in 0 .. Capacity
    PROVE  /\ (h + k) % Capacity = IF h + k < Capacity THEN h + k ELSE h + k - Capacity
           /\ (h + k) % Capacity \in Slots
<1>1. Capacity \in Nat \ {0} /\ h \in 0 .. Capacity - 1
  BY FdirAssumption DEF Slots
<1>2. CASE h + k < Capacity
  <2>1. (h + k) % Capacity = h + k
    BY <1>1, <1>2, ModSmall
  <2> QED
    BY <1>1, <1>2, <2>1 DEF Slots
<1>3. CASE ~ (h + k < Capacity)
  <2> DEFINE x == h + k - Capacity
  <2>1. x \in Int /\ 0 <= x /\ x < Capacity /\ x + Capacity = h + k
    BY <1>1, <1>3
  <2> HIDE DEF x
  <2>2. (x + Capacity) % Capacity = x
    BY <1>1, <2>1, ModSmall
  <2>3. (h + k) % Capacity = x
    BY <2>1, <2>2
  <2> QED
    BY <1>1, <1>3, <2>1, <2>3 DEF Slots, x
<1> QED
  BY <1>2, <1>3

(* The queue is a sequence of count events. *)
LEMMA QueueType ==
    ASSUME NEW f \in Ring
    PROVE  /\ Queue(f) \in Seq(Event) /\ Len(Queue(f)) = f.count /\ f.count \in Nat
           /\ \A i \in 1 .. f.count : Queue(f)[i] = f.slots[(f.head + i - 1) % Capacity]
<1>1. f.slots \in [Slots -> Event] /\ f.head \in Slots /\ f.count \in 0 .. Capacity
  BY DEF Ring
<1>2. \A i \in 1 .. f.count : f.slots[(f.head + i - 1) % Capacity] \in Event
  <2> TAKE i \in 1 .. f.count
  <2>1. i - 1 \in 0 .. Capacity /\ f.head + i - 1 = f.head + (i - 1)
    BY <1>1, FdirAssumption DEF Slots
  <2>2. (f.head + (i - 1)) % Capacity \in Slots
    BY <1>1, <2>1, SlotIndex
  <2> QED
    BY <1>1, <2>1, <2>2
<1>3. f.count \in Nat
  BY <1>1, FdirAssumption
<1>4. Queue(f) \in [1 .. f.count -> Event]
  BY <1>2 DEF Queue
<1>5. Queue(f) \in Seq(Event)
  BY <1>3, <1>4, SeqDef
<1>6. Len(Queue(f)) = f.count
  BY <1>3, <1>4, <1>5, LenProperties
<1> QED
  BY <1>3, <1>5, <1>6 DEF Queue

(* What Push does to the ring: nothing the consumer can see when it is     *)
(* full, else one more record at the end of the queue and of the log.      *)
PushedTo(f, g, id, detail, by) ==
    /\ g \in Ring
    /\ f.count >= Capacity => g.count = f.count /\ g.log = f.log /\ Queue(g) = Queue(f)
    /\ f.count < Capacity =>
          \E ev \in Event : /\ ev.id = id /\ ev.detail = detail /\ ev.by = by
                            /\ g.count = f.count + 1
                            /\ g.log = Append(f.log, ev)
                            /\ Queue(g) = Append(Queue(f), ev)

LEMMA PushProperties ==
    ASSUME NEW f \in Ring, NEW id \in EventIds, NEW detail \in Nat, NEW by \in {"fdir", "other"}
    PROVE  PushedTo(f, Push(f, id, detail, by), id, detail, by)
<1> DEFINE s  == Severity[id]
           g  == [f EXCEPT !.raised[s] = @ + 1]
           ev == [id |-> id, detail |-> detail, by |-> by, n |-> g.raised[s]]
           h  == Push(f, id, detail, by)
<1>1. /\ f.slots \in [Slots -> Event] /\ f.head \in Slots /\ f.count \in 0 .. Capacity
      /\ f.dropped \in Nat /\ f.log \in Seq(Event) /\ f.raised \in [Severities -> Nat]
  BY DEF Ring
<1>2. s \in Severities
  BY SeverityTypes
<1>3. g \in Ring
  <2>1. g = [f EXCEPT !.raised = [f.raised EXCEPT ![s] = f.raised[s] + 1]]
    OBVIOUS
  <2>2. [f.raised EXCEPT ![s] = f.raised[s] + 1] \in [Severities -> Nat]
    BY <1>1, <1>2
  <2> QED
    BY <2>1, <2>2 DEF Ring
<1>4. /\ g.slots = f.slots /\ g.head = f.head /\ g.count = f.count
      /\ g.dropped = f.dropped /\ g.log = f.log /\ g.raised[s] \in Nat
  BY <1>1, <1>2 DEF Ring
<1>5. ev \in Event
  BY <1>4 DEF Event
<1>6. h = IF f.count >= Capacity
            THEN [g EXCEPT !.dropped = @ + 1]
            ELSE [g EXCEPT !.slots[TailSlot(f)] = ev, !.count = @ + 1, !.log = Append(@, ev)]
  BY DEF Push
<1>e. ev.id = id /\ ev.detail = detail /\ ev.by = by
  OBVIOUS
<1> HIDE DEF s, g, ev, h
<1>7. CASE f.count >= Capacity
  <2>1. h = [g EXCEPT !.dropped = @ + 1]
    BY <1>6, <1>7
  <2>2. h.slots = f.slots /\ h.head = f.head /\ h.count = f.count /\ h.log = f.log
    BY <2>1, <1>3, <1>4 DEF Ring
  <2>r. h \in Ring
    <3>1. g.dropped + 1 \in Nat /\ h = [g EXCEPT !.dropped = g.dropped + 1]
      BY <1>1, <1>4, <2>1
    <3> QED
      BY <1>3, <3>1 DEF Ring
  <2>3. Queue(h) = Queue(f)
    BY <2>2 DEF Queue
  <2>4. ~(f.count < Capacity)
    BY <1>1, <1>7, FdirAssumption
  <2> QED
    BY <2>2, <2>r, <2>3, <2>4 DEF h, PushedTo
<1>8. CASE f.count < Capacity
  <2>0. ~(f.count >= Capacity) /\ f.count \in Nat
    BY <1>1, <1>8, FdirAssumption
  <2>1. h = [g EXCEPT !.slots[TailSlot(f)] = ev, !.count = @ + 1, !.log = Append(@, ev)]
    BY <1>6, <2>0
  <2>2. TailSlot(f) \in Slots
    BY <1>1, SlotIndex DEF TailSlot
  <2>3. /\ h.slots = [f.slots EXCEPT ![TailSlot(f)] = ev] /\ h.head = f.head
        /\ h.count = f.count + 1 /\ h.log = Append(f.log, ev)
    BY <2>1, <1>3, <1>4 DEF Ring
  <2>4. h \in Ring
    <3>1. h.slots \in [Slots -> Event]
      BY <1>1, <1>5, <2>2, <2>3
    <3>2. h.count \in 0 .. Capacity
      BY <1>1, <1>8, <2>3, FdirAssumption
    <3>3. h.log \in Seq(Event)
      BY <1>1, <1>5, <2>3, AppendProperties
    <3>4. h.dropped \in Nat /\ h.raised \in [Severities -> Nat]
      BY <2>1, <1>3 DEF Ring
    <3>5. h = [slots |-> h.slots, head |-> h.head, count |-> h.count, dropped |-> h.dropped,
               log |-> h.log, raised |-> h.raised]
      BY <2>1, <1>3 DEF Ring
    <3> QED
      BY <1>1, <2>3, <3>1, <3>2, <3>3, <3>4, <3>5 DEF Ring
  <2>5. Queue(h) = Append(Queue(f), ev)
    <3>1. /\ Queue(f) \in Seq(Event) /\ Len(Queue(f)) = f.count
          /\ \A i \in 1 .. f.count : Queue(f)[i] = f.slots[(f.head + i - 1) % Capacity]
      BY QueueType
    <3>2. /\ Queue(h) \in Seq(Event) /\ Len(Queue(h)) = f.count + 1
          /\ \A i \in 1 .. f.count + 1 : Queue(h)[i] = h.slots[(f.head + i - 1) % Capacity]
      BY <2>3, <2>4, QueueType
    <3>3. /\ Append(Queue(f), ev) \in Seq(Event)
          /\ Len(Append(Queue(f), ev)) = f.count + 1
          /\ \A i \in 1 .. f.count : Append(Queue(f), ev)[i] = Queue(f)[i]
          /\ Append(Queue(f), ev)[f.count + 1] = ev
      BY <3>1, <1>5, AppendProperties
    <3>4. ASSUME NEW i \in 1 .. f.count + 1
          PROVE  Queue(h)[i] = Append(Queue(f), ev)[i]
      <4>1. CASE i = f.count + 1
        <5>1. f.head + i - 1 = f.head + f.count
          BY <2>0, <4>1, <1>1, FdirAssumption DEF Slots
        <5>2. Queue(h)[i] = h.slots[TailSlot(f)]
          BY <3>2, <5>1 DEF TailSlot
        <5>3. h.slots[TailSlot(f)] = ev
          BY <2>2, <2>3, <1>1
        <5> QED
          BY <3>3, <4>1, <5>2, <5>3
      <4>2. CASE i \in 1 .. f.count
        <5>1. /\ i - 1 \in 0 .. Capacity /\ f.count \in 0 .. Capacity /\ i - 1 < f.count
              /\ f.head + i - 1 = f.head + (i - 1) /\ f.head \in 0 .. Capacity - 1
          BY <4>2, <1>1, <1>8, FdirAssumption DEF Slots
        <5> DEFINE x == (f.head + (i - 1)) % Capacity
                   y == (f.head + f.count) % Capacity
        <5>2. /\ x = IF f.head + (i - 1) < Capacity THEN f.head + (i - 1) ELSE f.head + (i - 1) - Capacity
              /\ x \in Slots
          BY <1>1, <5>1, SlotIndex
        <5>3. y = IF f.head + f.count < Capacity THEN f.head + f.count ELSE f.head + f.count - Capacity
          BY <1>1, <5>1, SlotIndex
        <5> HIDE DEF x, y
        <5>4. x # y
          BY <5>1, <5>2, <5>3, <1>8, FdirAssumption
        <5>5. h.slots[x] = f.slots[x]
          BY <1>1, <2>3, <5>2, <5>4 DEF TailSlot, y
        <5> QED
          BY <3>1, <3>2, <3>3, <4>2, <5>1, <5>5 DEF x
      <4>3. i = f.count + 1 \/ i \in 1 .. f.count
        BY <2>0
      <4> QED
        BY <4>1, <4>2, <4>3
    <3> QED
      BY <3>2, <3>3, <3>4, SeqEqual
  <2> QED
    BY <1>5, <1>e, <2>0, <2>3, <2>4, <2>5 DEF h, PushedTo
<1> QED
  BY <1>1, <1>7, <1>8, FdirAssumption

(* Popping takes the head of the queue. *)
LEMMA PoppedProperties ==
    ASSUME NEW f \in Ring, f.count > 0
    PROVE  /\ Popped(f) \in Ring
           /\ Popped(f).log = f.log /\ Popped(f).count = f.count - 1
           /\ f.slots[f.head] \in Event
           /\ Queue(f) # <<>> /\ Head(Queue(f)) = f.slots[f.head]
           /\ Queue(Popped(f)) = Tail(Queue(f))
<1>1. /\ f.slots \in [Slots -> Event] /\ f.head \in Slots /\ f.count \in 0 .. Capacity
      /\ Capacity \in Nat \ {0} /\ f.count \in Nat \ {0} /\ f.head \in 0 .. Capacity - 1
  BY FdirAssumption DEF Ring, Slots
<1> DEFINE g == Popped(f)
<1>2. (f.head + 1) % Capacity = (IF f.head + 1 < Capacity THEN f.head + 1 ELSE f.head + 1 - Capacity)
      /\ (f.head + 1) % Capacity \in Slots
  <2>1. 1 \in 0 .. Capacity
    BY <1>1
  <2> QED
    BY <1>1, <2>1, SlotIndex
<1>3. /\ g.slots = f.slots /\ g.head = (f.head + 1) % Capacity /\ g.count = f.count - 1
      /\ g.log = f.log
  BY DEF Popped, Ring
<1>4. g \in Ring
  <2>1. f.count - 1 \in 0 .. Capacity
    BY <1>1
  <2> QED
    BY <1>2, <2>1 DEF Popped, Ring
<1> HIDE DEF g
<1>5. /\ Queue(f) \in Seq(Event) /\ Len(Queue(f)) = f.count
      /\ \A i \in 1 .. f.count : Queue(f)[i] = f.slots[(f.head + i - 1) % Capacity]
  BY QueueType
<1>6. /\ Queue(g) \in Seq(Event) /\ Len(Queue(g)) = f.count - 1
      /\ \A i \in 1 .. f.count - 1 : Queue(g)[i] = f.slots[(g.head + i - 1) % Capacity]
  BY <1>3, <1>4, QueueType
<1>7. Queue(f) # <<>>
  BY <1>1, <1>5, EmptySeq
<1>8. /\ Tail(Queue(f)) \in Seq(Event) /\ Len(Tail(Queue(f))) = f.count - 1
      /\ \A i \in 1 .. f.count - 1 : Tail(Queue(f))[i] = Queue(f)[i + 1]
  BY <1>5, <1>7, HeadTailProperties
<1>9. Head(Queue(f)) = f.slots[f.head] /\ f.slots[f.head] \in Event
  <2>1. f.head + 1 - 1 = f.head /\ f.head % Capacity = f.head /\ 1 \in 1 .. f.count
    BY <1>1, ModSmall
  <2>2. Head(Queue(f)) = Queue(f)[1]
    BY <1>5, <1>7
  <2> QED
    BY <1>1, <1>5, <2>1, <2>2
<1>10. ASSUME NEW i \in 1 .. f.count - 1 PROVE Queue(g)[i] = Tail(Queue(f))[i]
  <2>1. /\ i \in 0 .. Capacity /\ i - 1 \in 0 .. Capacity /\ i + 1 \in 1 .. f.count
        /\ f.head + (i + 1) - 1 = f.head + i /\ i < Capacity
    BY <1>1
  <2> DEFINE h == g.head
  <2>2. h \in Slots /\ h \in 0 .. Capacity - 1
        /\ h = IF f.head + 1 < Capacity THEN f.head + 1 ELSE f.head + 1 - Capacity
    BY <1>1, <1>2, <1>3 DEF Slots
  <2> HIDE DEF h
  <2>3. (f.head + i) % Capacity = IF f.head + i < Capacity THEN f.head + i ELSE f.head + i - Capacity
    BY <1>1, <2>1, SlotIndex
  <2>4. (h + (i - 1)) % Capacity = IF h + (i - 1) < Capacity THEN h + (i - 1) ELSE h + (i - 1) - Capacity
    BY <2>1, <2>2, SlotIndex
  <2>5. h + i - 1 = h + (i - 1)
    BY <2>1, <2>2
  <2>6. (h + i - 1) % Capacity = (f.head + i) % Capacity
    BY <1>1, <2>1, <2>2, <2>3, <2>4, <2>5
  <2> QED
    BY <1>5, <1>6, <1>8, <2>1, <2>6 DEF h
<1>11. Queue(g) = Tail(Queue(f))
  BY <1>6, <1>8, <1>10, SeqEqual
<1> QED
  BY <1>3, <1>4, <1>7, <1>9, <1>11 DEF g

----------------------------------------------------------------------------
(* What the producers keep about the ring.                                 *)

(* CauseBeforeEffect, of any log. *)
Caused(s) ==
    \A i \in DOMAIN s :
        /\ s[i].id = "FDIR_RECOVERY" => i > 1 /\ s[i - 1].id \in Anomalies
        /\ (s[i].id = "MODE_CHANGED" /\ s[i].by = "fdir") => i > 1 /\ s[i - 1].id = "FDIR_RECOVERY"

LastIs(s, ids) == s # <<>> /\ s[Len(s)].id \in ids

(* Of a ring f: the log is what was sent (out) and what is queued, causes  *)
(* precede effects, a queued mode change is not newer than gen, and one    *)
(* that is next to be sent is not newer than first.                        *)
RingInv(f, out, gen, first) ==
    /\ f \in Ring
    /\ f.log = out \o Queue(f)
    /\ Caused(f.log)
    /\ \A i \in 1 .. f.count : Queue(f)[i].id = "MODE_CHANGED" => Queue(f)[i].detail <= gen
    /\ (f.count > 0 /\ Queue(f)[1].id = "MODE_CHANGED") => Queue(f)[1].detail <= first

LEMMA CausedAppend ==
    ASSUME NEW s \in Seq(Event), NEW ev \in Event, Caused(s),
           ev.id = "FDIR_RECOVERY" => LastIs(s, Anomalies),
           (ev.id = "MODE_CHANGED" /\ ev.by = "fdir") => LastIs(s, {"FDIR_RECOVERY"})
    PROVE  Caused(Append(s, ev)) /\ LastIs(Append(s, ev), {ev.id})
<1> DEFINE t == Append(s, ev)
<1>1. /\ t \in Seq(Event) /\ t # <<>> /\ Len(t) = Len(s) + 1
      /\ \A i \in 1 .. Len(s) : t[i] = s[i]
      /\ t[Len(s) + 1] = ev
  BY AppendProperties
<1> HIDE DEF t
<1>2. Len(s) \in Nat /\ DOMAIN s = 1 .. Len(s) /\ DOMAIN t = 1 .. Len(s) + 1
  BY <1>1, LenProperties
<1>3. LastIs(t, {ev.id})
  BY <1>1 DEF LastIs
<1>4. ASSUME NEW i \in DOMAIN t
      PROVE  /\ t[i].id = "FDIR_RECOVERY" => i > 1 /\ t[i - 1].id \in Anomalies
             /\ (t[i].id = "MODE_CHANGED" /\ t[i].by = "fdir") => i > 1 /\ t[i - 1].id = "FDIR_RECOVERY"
  <2>1. CASE i \in 1 .. Len(s)
    <3>1. t[i] = s[i] /\ (i > 1 => t[i - 1] = s[i - 1])
      BY <1>1, <1>2, <2>1
    <3> QED
      BY <1>2, <2>1, <3>1, Caused(s) DEF Caused
  <2>2. CASE i = Len(s) + 1
    <3>1. t[i] = ev
      BY <1>1, <2>2
    <3>2. s # <<>> => i > 1 /\ i - 1 = Len(s) /\ t[i - 1] = s[Len(s)]
      <4>1. s # <<>> => Len(s) \in Nat \ {0}
        BY EmptySeq
      <4> QED
        BY <1>1, <1>2, <2>2, <4>1
    <3> QED
      BY <3>1, <3>2 DEF LastIs
  <2>3. i \in 1 .. Len(s) \/ i = Len(s) + 1
    BY <1>2
  <2> QED
    BY <2>1, <2>2, <2>3
<1> QED
  BY <1>3, <1>4 DEF Caused, t

LEMMA PushKeepsRing ==
    ASSUME NEW f, NEW out \in Seq(Event), NEW gen \in Nat, NEW gen2 \in Nat, gen <= gen2,
           NEW first \in Nat, RingInv(f, out, gen, first),
           NEW id \in EventIds, NEW detail \in Nat, NEW by \in {"fdir", "other"},
           id = "MODE_CHANGED" => detail <= gen2 /\ (f.count > 0 \/ detail <= first),
           (id = "FDIR_RECOVERY" /\ f.count < Capacity) => LastIs(f.log, Anomalies),
           (id = "MODE_CHANGED" /\ by = "fdir" /\ f.count < Capacity) => LastIs(f.log, {"FDIR_RECOVERY"})
    PROVE  /\ RingInv(Push(f, id, detail, by), out, gen2, first)
           /\ Push(f, id, detail, by).count > 0
           /\ Push(f, id, detail, by).count < Capacity => LastIs(Push(f, id, detail, by).log, {id})
<1> DEFINE g == Push(f, id, detail, by)
<1>1. f \in Ring /\ f.log = out \o Queue(f) /\ Caused(f.log) /\ f.log \in Seq(Event)
  BY DEF RingInv, Ring
<1>2. PushedTo(f, g, id, detail, by)
  BY <1>1, PushProperties
<1>3. /\ Queue(f) \in Seq(Event) /\ Len(Queue(f)) = f.count /\ f.count \in 0 .. Capacity
      /\ Capacity \in Nat \ {0}
  BY <1>1, QueueType, FdirAssumption DEF Ring
<1>4. CASE f.count >= Capacity
  <2>1. g.count = f.count /\ g.log = f.log /\ Queue(g) = Queue(f)
    BY <1>2, <1>4 DEF PushedTo
  <2> HIDE DEF g
  <2>2. g.count > 0 /\ ~(g.count < Capacity)
    BY <1>3, <1>4, <2>1
  <2>3. \A i \in 1 .. f.count : Queue(f)[i] \in Event
    BY <1>3, ElementOfSeq
  <2>4. \A i \in 1 .. f.count : Queue(f)[i].id = "MODE_CHANGED" => Queue(f)[i].detail <= gen2
    <3> TAKE i \in 1 .. f.count
    <3> HAVE Queue(f)[i].id = "MODE_CHANGED"
    <3>1. Queue(f)[i].detail \in Nat /\ Queue(f)[i].detail <= gen
      BY <2>3 DEF RingInv, Event
    <3> QED
      BY <3>1
  <2>5. RingInv(g, out, gen2, first)
    BY <1>1, <1>2, <2>1, <2>4 DEF RingInv, PushedTo
  <2> QED
    BY <2>2, <2>5 DEF g
<1>5. CASE f.count < Capacity
  <2>1. PICK ev \in Event :
           /\ ev.id = id /\ ev.detail = detail /\ ev.by = by
           /\ g.count = f.count + 1
           /\ g.log = Append(f.log, ev)
           /\ Queue(g) = Append(Queue(f), ev)
    BY <1>2, <1>5 DEF PushedTo
  <2> HIDE DEF g
  <2>2. Caused(g.log) /\ LastIs(g.log, {id})
    BY <1>1, <1>5, <2>1, CausedAppend
  <2>3. g.log = out \o Queue(g)
    <3>1. Append(f.log, ev) = f.log \o <<ev>> /\ Append(Queue(f), ev) = Queue(f) \o <<ev>>
      BY <1>1, <1>3, AppendIsConcat
    <3>2. <<ev>> \in Seq(Event)
      OBVIOUS
    <3>3. (out \o Queue(f)) \o <<ev>> = out \o (Queue(f) \o <<ev>>)
      BY <1>3, <3>2, ConcatAssociative
    <3> QED
      BY <1>1, <2>1, <3>1, <3>3
  <2>4. /\ \A i \in 1 .. f.count : Queue(g)[i] = Queue(f)[i]
        /\ Queue(g)[f.count + 1] = ev
    BY <1>3, <2>1, AppendProperties
  <2>5. \A i \in 1 .. g.count : Queue(g)[i].id = "MODE_CHANGED" => Queue(g)[i].detail <= gen2
    <3> TAKE i \in 1 .. g.count
    <3> HAVE Queue(g)[i].id = "MODE_CHANGED"
    <3>1. CASE i \in 1 .. f.count
      <4>1. Queue(f)[i] \in Event /\ Queue(g)[i] = Queue(f)[i]
        BY <1>3, <2>4, <3>1, ElementOfSeq
      <4>2. Queue(g)[i].detail \in Nat /\ Queue(g)[i].detail <= gen
        BY <3>1, <4>1 DEF RingInv, Event
      <4> QED
        BY <4>2
    <3>2. CASE i = f.count + 1
      BY <2>1, <2>4, <3>2
    <3> QED
      BY <1>3, <2>1, <3>1, <3>2
  <2>6. (g.count > 0 /\ Queue(g)[1].id = "MODE_CHANGED") => Queue(g)[1].detail <= first
    <3>1. CASE f.count > 0
      <4>1. Queue(g)[1] = Queue(f)[1]
        BY <1>3, <2>4, <3>1
      <4> QED
        BY <3>1, <4>1 DEF RingInv
    <3>2. CASE f.count = 0
      <4>1. Queue(g)[1] = ev
        BY <2>4, <3>2
      <4> QED
        BY <3>2, <4>1, <2>1
    <3> QED
      BY <1>3, <3>1, <3>2
  <2>7. RingInv(g, out, gen2, first)
    BY <1>2, <2>2, <2>3, <2>5, <2>6 DEF RingInv, PushedTo
  <2>8. g.count > 0
    BY <1>3, <2>1
  <2> QED
    BY <2>2, <2>7, <2>8 DEF g
<1> QED
  BY <1>3, <1>4, <1>5

(* A looser bound on the next mode change. *)
LEMMA RingInvLooser ==
    ASSUME NEW f, NEW out, NEW gen \in Nat, NEW first \in Nat, NEW first2 \in Nat,
           first <= first2, RingInv(f, out, gen, first)
    PROVE  RingInv(f, out, gen, first2)
<1>1. f.count > 0 => Queue(f)[1].detail \in Nat
  <2>1. Queue(f) \in Seq(Event) /\ Len(Queue(f)) = f.count /\ f.count \in Nat
    BY QueueType DEF RingInv
  <2>2. f.count > 0 => Queue(f)[1] \in Event
    BY <2>1, ElementOfSeq
  <2> QED
    BY <2>2 DEF Event
<1>2. (f.count > 0 /\ Queue(f)[1].id = "MODE_CHANGED") => Queue(f)[1].detail <= first2
  BY <1>1 DEF RingInv
<1> QED
  BY <1>2 DEF RingInv

----------------------------------------------------------------------------
(* The inductive invariant *)

SentReport == [id : EventIds, detail : Nat, by : {"fdir", "other"}, n : Nat,
               counter : 0 .. CounterMod - 1]

(* The reports sent after the boot report, as events of the ring. *)
SentEvents(s) == [i \in 1 .. Len(s) - 1 |-> AsEvent(s[i + 1])]

(* Bound on a mode change that is next on the wire: between the save tick  *)
(* and the drain it is on flash.                                           *)
NextBound == IF phase \in {"rx", "report", "drain"} THEN saved.gen ELSE generation

Shapes ==
    /\ saved \in [mode : Modes \cup {NoRecord}, gen : Nat]
    /\ sent \in Seq(SentReport) /\ sent # <<>>
    /\ rx_snapshot \in 0 .. DropMod - 1 /\ lost \in Nat /\ told \in Nat
    /\ reports \in [Anomalies -> Nat] /\ recoveries \in [Anomalies -> {0, 1}]

SavedFirst == phase \in {"rx", "report"} => saved.gen = generation

(* The reports among the first n of s that have severity v. *)
OfSeverity(s, n, v) == {k \in 1 .. n : Severity[s[k].id] = v}

(* The counters c continue the numbering of the reports s. *)
Numbering(s, c) ==
    /\ \A i \in DOMAIN s : s[i].counter = Cardinality(OfSeverity(s, i - 1, Severity[s[i].id])) % CounterMod
    /\ \A v \in Severities : c[v] = Cardinality(OfSeverity(s, Len(s), v)) % CounterMod

(* The snapshot lies between the last report and the live counter. *)
SnapshotBetween ==
    phase = "report" => (rx_snapshot - last_reported) % DropMod <= (rx_drops - last_reported) % DropMod

(* Recovery follows the confirmation edge, and the edge the counter. *)
Confirmation ==
    /\ \A a \in Anomalies :
          /\ occurrences[a] = OccMax \/ occurrences[a] = reports[a]
          /\ (Thresholds[a] > 0 /\ reports[a] >= Thresholds[a]) => confirmed[a]
          /\ recoveries[a] = 1 => confirmed[a]
    /\ undisturbed => recovery_enabled /\ (\A a \in Anomalies : confirmed[a] => mode = SafeMode)

FInv ==
    /\ FTypeOK /\ Shapes
    /\ RingInv(fifo, SentEvents(sent), generation, NextBound)
    /\ SavedFirst /\ SeenIsDurable /\ Numbering(sent, msg_counter)
    /\ DropsToldOnce /\ SnapshotBetween
    /\ Confirmation

(* A queued mode change that is next is bounded by the generation, too. *)
LEMMA RingInvOwn ==
    ASSUME NEW f, NEW out, NEW gen \in Nat, NEW first, RingInv(f, out, gen, first)
    PROVE  RingInv(f, out, gen, gen)
<1>1. f.count \in Nat
  BY QueueType DEF RingInv
<1>2. (f.count > 0 /\ Queue(f)[1].id = "MODE_CHANGED") => Queue(f)[1].detail <= gen
  BY <1>1 DEF RingInv
<1> QED
  BY <1>2 DEF RingInv

LEMMA ModeTypes ==
    ASSUME NEW m \in Modes
    PROVE  /\ AllowedTargets[m] \subseteq Modes
           /\ m # SafeMode => SafeMode \in AllowedTargets[m]
           /\ SafeMode \in Modes
BY DEF AllowedTargets, Modes, SafeMode

(* migris_mode_request on a ring. *)
LEMMA ModeRequestKeeps ==
    ASSUME NEW f, NEW out \in Seq(Event), NEW first \in Nat, generation \in Nat, mode \in Modes,
           RingInv(f, out, generation, first), NEW target \in Modes, NEW by \in {"fdir", "other"},
           f.count > 0 \/ generation + 1 <= first,
           (by = "fdir" /\ f.count < Capacity) => LastIs(f.log, {"FDIR_RECOVERY"}),
           ModeRequest(f, target, by)
    PROVE  /\ RingInv(fifo', out, generation', first)
           /\ generation' \in Nat /\ generation <= generation'
           /\ mode' \in Modes /\ (target = SafeMode => mode' = SafeMode)
<1>1. CASE target \in AllowedTargets[mode]
  <2>1. mode' = target /\ generation' = generation + 1 /\ fifo' = Push(f, "MODE_CHANGED", generation + 1, by)
    BY <1>1 DEF ModeRequest
  <2>2. "MODE_CHANGED" \in EventIds
    BY DEF EventIds, Severity
  <2> DEFINE d == generation + 1
  <2>3. d \in Nat /\ generation <= d /\ d <= d /\ (f.count > 0 \/ d <= first)
    OBVIOUS
  <2> HIDE DEF d
  <2>4. "MODE_CHANGED" # "FDIR_RECOVERY"
    OBVIOUS
  <2>5. RingInv(Push(f, "MODE_CHANGED", d, by), out, d, first)
    BY <2>2, <2>3, <2>4, PushKeepsRing
  <2> QED
    BY <2>1, <2>3, <2>5 DEF d
<1>2. CASE target \notin AllowedTargets[mode]
  <2>1. fifo' = f /\ mode' = mode /\ generation' = generation
    BY <1>2 DEF ModeRequest
  <2>2. target = SafeMode => mode = SafeMode
    BY <1>2, ModeTypes
  <2> QED
    BY <2>1, <2>2
<1> QED
  BY <1>1, <1>2

LEMMA AnomaliesAreEvents ==
    /\ Anomalies \subseteq EventIds
    /\ "FDIR_RECOVERY" \in EventIds
    /\ \A a \in Anomalies : a # "MODE_CHANGED" /\ a # "FDIR_RECOVERY"
BY DEF Anomalies, EventIds, Severity

(* An anomaly report, with the recovery it may confirm. *)
LEMMA ReportKeepsRing ==
    ASSUME NEW out \in Seq(Event), NEW first \in Nat, generation \in Nat, mode \in Modes,
           RingInv(fifo, out, generation, first), NEW a \in Anomalies, NEW detail \in Nat,
           Report(a, detail)
    PROVE  /\ RingInv(fifo', out, generation', first)
           /\ generation' \in Nat /\ generation <= generation'
           /\ mode' \in Modes
<1> DEFINE f == Push(fifo, a, detail, "other")
           g == Push(f, "FDIR_RECOVERY", 0, "fdir")
<1>1. /\ RingInv(f, out, generation, first) /\ f.count > 0
      /\ f.count < Capacity => LastIs(f.log, {a})
  <2>1. a \in EventIds /\ a # "MODE_CHANGED" /\ a # "FDIR_RECOVERY" /\ generation <= generation
    BY AnomaliesAreEvents
  <2> QED
    BY <2>1, PushKeepsRing
<1>2. \/ fifo' = f /\ mode' = mode /\ generation' = generation
      \/ ModeRequest(g, SafeMode, "fdir")
  BY DEF Report, Observe, Recover
<1> HIDE DEF f
<1>3. /\ RingInv(g, out, generation, first) /\ g.count > 0
      /\ g.count < Capacity => LastIs(g.log, {"FDIR_RECOVERY"})
  <2>1. "FDIR_RECOVERY" \in EventIds /\ 0 \in Nat /\ generation <= generation
    BY AnomaliesAreEvents
  <2>2. f.count < Capacity => LastIs(f.log, Anomalies)
    BY <1>1 DEF LastIs
  <2> QED
    BY <1>1, <2>1, <2>2, PushKeepsRing
<1> HIDE DEF g
<1>4. CASE fifo' = f /\ mode' = mode /\ generation' = generation
  BY <1>1, <1>4
<1>5. CASE ModeRequest(g, SafeMode, "fdir")
  <2>1. SafeMode \in Modes
    BY DEF SafeMode, Modes
  <2> QED
    BY <1>3, <1>5, <2>1, ModeRequestKeeps
<1> QED
  BY <1>2, <1>4, <1>5

(* fdir_observe keeps the relation of counters, confirmations and mode. *)
LEMMA ReportKeepsFault ==
    ASSUME FTypeOK, Shapes, Confirmation, NEW a \in Anomalies, NEW detail, Report(a, detail)
    PROVE  /\ occurrences' \in [Anomalies -> 0 .. OccMax]
           /\ confirmed' \in [Anomalies -> BOOLEAN]
           /\ reports' \in [Anomalies -> Nat] /\ recoveries' \in [Anomalies -> {0, 1}]
           /\ UNCHANGED <<recovery_enabled, undisturbed>>
           /\ Confirmation'
<1> DEFINE n        == Saturated(occurrences[a])
           edge     == Confirms(a, n)
           recovers == edge /\ recovery_enabled
<1>1. /\ occurrences' = [occurrences EXCEPT ![a] = n]
      /\ confirmed' = [confirmed EXCEPT ![a] = @ \/ edge]
      /\ reports' = [reports EXCEPT ![a] = @ + 1]
      /\ recoveries' = [recoveries EXCEPT ![a] = @ + IF recovers THEN 1 ELSE 0]
      /\ UNCHANGED <<recovery_enabled, undisturbed>>
  BY DEF Report, Observe
<1>2. /\ recovers => mode' = SafeMode
      /\ ~recovers => mode' = mode
      /\ mode' \in {mode, SafeMode}
  <2>1. recovers => ModeRequest(Push(Push(fifo, a, detail, "other"), "FDIR_RECOVERY", 0, "fdir"), SafeMode, "fdir")
    BY DEF Report, Observe, Recover
  <2>2. mode \in Modes
    BY DEF FTypeOK
  <2>3. recovers => mode' = SafeMode
    BY <2>1, <2>2, ModeTypes DEF ModeRequest
  <2>4. ~recovers => mode' = mode
    BY DEF Report, Observe
  <2> QED
    BY <2>3, <2>4
<1>3. /\ occurrences \in [Anomalies -> 0 .. OccMax] /\ confirmed \in [Anomalies -> BOOLEAN]
      /\ reports \in [Anomalies -> Nat] /\ recoveries \in [Anomalies -> {0, 1}]
      /\ OccMax \in Nat \ {0} /\ Thresholds \in [Anomalies -> 0 .. OccMax]
  BY FdirAssumption DEF FTypeOK, Shapes
<1>4. n \in 0 .. OccMax /\ (n = OccMax \/ n = occurrences[a] + 1)
  BY <1>3 DEF Saturated
<1>5. edge = (Thresholds[a] # 0 /\ ~(n < Thresholds[a]) /\ ~confirmed[a])
  BY DEF Confirms, Below
<1>e. edge \in BOOLEAN /\ recovers \in BOOLEAN
  BY <1>5
<1> HIDE DEF n, edge
<1>6. occurrences' \in [Anomalies -> 0 .. OccMax]
  BY <1>1, <1>3, <1>4
<1>7. reports' \in [Anomalies -> Nat]
  BY <1>1, <1>3
<1>8. /\ confirmed'[a] = (confirmed[a] \/ edge)
      /\ \A b \in Anomalies : b # a => confirmed'[b] = confirmed[b]
  BY <1>1, <1>3
<1>9. confirmed' \in [Anomalies -> BOOLEAN]
  BY <1>1, <1>3, <1>e
<1>10. recoveries[a] = 1 => confirmed[a]
  BY DEF Confirmation
<1>11. recoveries'[a] = (IF recovers THEN 1 ELSE recoveries[a]) /\ recoveries' \in [Anomalies -> {0, 1}]
  <2>1. recovers => recoveries[a] = 0
    BY <1>3, <1>5, <1>10
  <2>2. CASE recovers
    BY <1>1, <1>3, <2>1, <2>2
  <2>3. CASE ~recovers
    BY <1>1, <1>3, <2>3
  <2> QED
    BY <2>2, <2>3
<1>12. ASSUME NEW b \in Anomalies
       PROVE  /\ occurrences'[b] = OccMax \/ occurrences'[b] = reports'[b]
              /\ (Thresholds[b] > 0 /\ reports'[b] >= Thresholds[b]) => confirmed'[b]
              /\ recoveries'[b] = 1 => confirmed'[b]
  <2>1. CASE b # a
    <3>1. /\ occurrences'[b] = occurrences[b] /\ reports'[b] = reports[b]
          /\ recoveries'[b] = recoveries[b] /\ confirmed'[b] = confirmed[b]
      BY <1>1, <1>3, <1>8, <2>1
    <3> QED
      BY <3>1 DEF Confirmation
  <2>2. CASE b = a
    <3>1. occurrences'[a] = n /\ reports'[a] = reports[a] + 1
      BY <1>1, <1>3
    <3>2. n = OccMax \/ n = reports[a] + 1
      BY <1>3, <1>4 DEF Confirmation, Saturated, n
    <3>3. (Thresholds[a] > 0 /\ reports'[a] >= Thresholds[a]) => ~(n < Thresholds[a]) /\ Thresholds[a] # 0
      BY <1>3, <3>1, <3>2
    <3>4. recoveries'[a] = 1 => confirmed'[a]
      BY <1>8, <1>10, <1>11
    <3> QED
      BY <1>5, <1>8, <2>2, <3>1, <3>2, <3>3, <3>4
  <2> QED
    BY <2>1, <2>2
<1>13. undisturbed' => recovery_enabled' /\ (\A b \in Anomalies : confirmed'[b] => mode' = SafeMode)
  <2> SUFFICES ASSUME undisturbed', NEW b \in Anomalies
               PROVE  recovery_enabled' /\ (confirmed'[b] => mode' = SafeMode)
    BY DEF Anomalies
  <2>1. recovery_enabled /\ recovery_enabled' /\ (confirmed[b] => mode = SafeMode)
    BY <1>1 DEF Confirmation
  <2>2. CASE edge
    BY <1>2, <2>1, <2>2
  <2>3. CASE ~edge
    <3>1. confirmed'[b] = confirmed[b]
      BY <1>3, <1>8, <2>3
    <3> QED
      BY <1>2, <2>1, <2>3, <3>1
  <2> QED
    BY <2>2, <2>3
<1> QED
  BY <1>1, <1>6, <1>7, <1>9, <1>11, <1>12, <1>13 DEF Confirmation

----------------------------------------------------------------------------
(* The wire *)

LEMMA SentEventsType ==
    ASSUME NEW s \in Seq(SentReport), s # <<>>
    PROVE  /\ SentEvents(s) \in Seq(Event) /\ Len(SentEvents(s)) = Len(s) - 1
           /\ \A i \in 1 .. Len(s) - 1 : SentEvents(s)[i] = AsEvent(s[i + 1])
           /\ Len(s) \in Nat \ {0} /\ DOMAIN s = 1 .. Len(s)
<1>1. Len(s) \in Nat \ {0} /\ DOMAIN s = 1 .. Len(s)
  BY EmptySeq, LenProperties
<1>2. \A i \in 1 .. Len(s) - 1 : AsEvent(s[i + 1]) \in Event
  <2> TAKE i \in 1 .. Len(s) - 1
  <2>1. s[i + 1] \in SentReport
    BY <1>1, ElementOfSeq
  <2> QED
    BY <2>1 DEF SentReport, AsEvent, Event
<1>3. SentEvents(s) \in [1 .. Len(s) - 1 -> Event] /\ Len(s) - 1 \in Nat
  BY <1>1, <1>2 DEF SentEvents
<1>4. SentEvents(s) \in Seq(Event)
  BY <1>3, SeqDef
<1>5. Len(SentEvents(s)) = Len(s) - 1
  BY <1>3, <1>4, LenProperties
<1> QED
  BY <1>1, <1>4, <1>5 DEF SentEvents

(* Sending a report moves its event from the queue to the wire. *)
LEMMA SentEventsAppend ==
    ASSUME NEW s \in Seq(SentReport), s # <<>>, NEW r \in SentReport
    PROVE  SentEvents(Append(s, r)) = Append(SentEvents(s), AsEvent(r))
<1> DEFINE t == Append(s, r)
           e == AsEvent(r)
<1>1. /\ t \in Seq(SentReport) /\ t # <<>> /\ Len(t) = Len(s) + 1
      /\ \A i \in 1 .. Len(s) : t[i] = s[i]
      /\ t[Len(s) + 1] = r
  BY AppendProperties
<1>2. e \in Event
  BY DEF SentReport, AsEvent, Event
<1> HIDE DEF t, e
<1>3. /\ SentEvents(s) \in Seq(Event) /\ Len(SentEvents(s)) = Len(s) - 1 /\ Len(s) \in Nat \ {0}
      /\ \A i \in 1 .. Len(s) - 1 : SentEvents(s)[i] = AsEvent(s[i + 1])
  BY SentEventsType
<1>4. /\ SentEvents(t) \in Seq(Event) /\ Len(SentEvents(t)) = Len(s) + 1 - 1
      /\ \A i \in 1 .. Len(s) + 1 - 1 : SentEvents(t)[i] = AsEvent(t[i + 1])
  BY <1>1, SentEventsType
<1> DEFINE u == Append(SentEvents(s), e)
<1>5. /\ u \in Seq(Event) /\ Len(u) = Len(s)
      /\ \A i \in 1 .. Len(s) - 1 : u[i] = AsEvent(s[i + 1])
      /\ u[Len(s)] = e
  BY <1>2, <1>3, AppendProperties
<1> HIDE DEF u
<1>6. ASSUME NEW i \in 1 .. Len(s) PROVE SentEvents(t)[i] = u[i]
  <2>1. SentEvents(t)[i] = AsEvent(t[i + 1])
    BY <1>3, <1>4
  <2>2. CASE i = Len(s)
    BY <1>1, <1>5, <2>1, <2>2 DEF e
  <2>3. CASE i \in 1 .. Len(s) - 1
    BY <1>1, <1>3, <1>5, <2>1, <2>3
  <2>4. i = Len(s) \/ i \in 1 .. Len(s) - 1
    BY <1>3
  <2> QED
    BY <2>2, <2>3, <2>4
<1>7. SentEvents(t) = u
  <2>1. Len(SentEvents(t)) = Len(s)
    BY <1>3, <1>4
  <2> QED
    BY <1>4, <1>5, <1>6, <2>1, SeqEqual
<1> QED
  BY <1>7 DEF t, u, e

LEMMA ShiftHead ==
    ASSUME NEW o \in Seq(Event), NEW q \in Seq(Event), q # <<>>
    PROVE  o \o q = Append(o, Head(q)) \o Tail(q)
<1>1. /\ Head(q) \in Event /\ Tail(q) \in Seq(Event) /\ Len(Tail(q)) = Len(q) - 1
      /\ \A i \in 1 .. Len(Tail(q)) : Tail(q)[i] = q[i + 1]
      /\ Len(q) \in Nat \ {0} /\ Head(q) = q[1] /\ Len(o) \in Nat
  BY HeadTailProperties, EmptySeq, LenProperties
<1> DEFINE p == Append(o, Head(q))
<1>2. /\ p \in Seq(Event) /\ Len(p) = Len(o) + 1
      /\ \A i \in 1 .. Len(o) : p[i] = o[i]
      /\ p[Len(o) + 1] = q[1]
  BY <1>1, AppendProperties
<1> HIDE DEF p
<1>3. /\ o \o q \in Seq(Event) /\ Len(o \o q) = Len(o) + Len(q)
      /\ \A i \in 1 .. Len(o) + Len(q) : (o \o q)[i] = IF i <= Len(o) THEN o[i] ELSE q[i - Len(o)]
  BY ConcatProperties
<1>4. /\ p \o Tail(q) \in Seq(Event) /\ Len(p \o Tail(q)) = Len(p) + Len(Tail(q))
      /\ \A i \in 1 .. Len(p) + Len(Tail(q)) :
            (p \o Tail(q))[i] = IF i <= Len(p) THEN p[i] ELSE Tail(q)[i - Len(p)]
  BY <1>1, <1>2, ConcatProperties
<1>5. Len(p \o Tail(q)) = Len(o) + Len(q) /\ Len(p) + Len(Tail(q)) = Len(o) + Len(q)
  BY <1>1, <1>2, <1>4
<1>6. ASSUME NEW i \in 1 .. Len(o) + Len(q) PROVE (o \o q)[i] = (p \o Tail(q))[i]
  <2>1. CASE i <= Len(o)
    BY <1>1, <1>2, <1>3, <1>4, <1>5, <2>1
  <2>2. CASE i = Len(o) + 1
    <3>1. (o \o q)[i] = q[1]
      BY <1>1, <1>3, <2>2
    <3>2. (p \o Tail(q))[i] = q[1]
      BY <1>1, <1>2, <1>4, <1>5, <2>2
    <3> QED
      BY <3>1, <3>2
  <2>3. CASE i > Len(o) + 1
    <3>1. (o \o q)[i] = q[i - Len(o)]
      BY <1>1, <1>3, <2>3
    <3>2. (p \o Tail(q))[i] = Tail(q)[i - (Len(o) + 1)]
      BY <1>1, <1>2, <1>4, <1>5, <2>3
    <3>3. i - (Len(o) + 1) \in 1 .. Len(Tail(q)) /\ (i - (Len(o) + 1)) + 1 = i - Len(o)
      BY <1>1, <2>3
    <3> QED
      BY <1>1, <3>1, <3>2, <3>3
  <2>4. i <= Len(o) \/ i = Len(o) + 1 \/ i > Len(o) + 1
    BY <1>1
  <2> QED
    BY <2>1, <2>2, <2>3, <2>4
<1>7. o \o q = p \o Tail(q)
  BY <1>3, <1>4, <1>5, <1>6, SeqEqual
<1> QED
  BY <1>7 DEF p

(* One more report takes the next number of its severity. *)
LEMMA NumberingAppend ==
    ASSUME NEW s \in Seq(SentReport), NEW c \in [Severities -> 0 .. CounterMod - 1],
           NEW r \in SentReport, Numbering(s, c), r.counter = c[Severity[r.id]]
    PROVE  Numbering(Append(s, r), [c EXCEPT ![Severity[r.id]] = (@ + 1) % CounterMod])
<1> DEFINE t == Append(s, r)
           w == Severity[r.id]
           d == [c EXCEPT ![w] = (@ + 1) % CounterMod]
<1>1. /\ t \in Seq(SentReport) /\ Len(t) = Len(s) + 1 /\ Len(s) \in Nat
      /\ \A i \in 1 .. Len(s) : t[i] = s[i]
      /\ t[Len(s) + 1] = r
      /\ DOMAIN s = 1 .. Len(s) /\ DOMAIN t = 1 .. Len(s) + 1
  BY AppendProperties, LenProperties
<1>2. w \in Severities /\ CounterMod \in Nat \ {0}
  BY SeverityTypes, FdirAssumption DEF SentReport
<1>3. d[w] = (c[w] + 1) % CounterMod /\ \A v \in Severities : v # w => d[v] = c[v]
  BY <1>2
<1>r. r.counter = c[w]
  OBVIOUS
<1>w. Severity[r.id] = w
  OBVIOUS
<1> HIDE DEF t, w, d
<1>4. \A v : \A n \in 0 .. Len(s) : OfSeverity(t, n, v) = OfSeverity(s, n, v)
  BY <1>1 DEF OfSeverity
<1>5. \A v : OfSeverity(t, Len(s) + 1, v) =
                IF v = w THEN OfSeverity(s, Len(s), v) \cup {Len(s) + 1} ELSE OfSeverity(s, Len(s), v)
  <2> TAKE v
  <2>1. OfSeverity(t, Len(s) + 1, v) \subseteq OfSeverity(s, Len(s), v) \cup {Len(s) + 1}
    BY <1>1 DEF OfSeverity
  <2>2. OfSeverity(s, Len(s), v) \subseteq OfSeverity(t, Len(s) + 1, v)
    BY <1>1 DEF OfSeverity
  <2>3. Len(s) + 1 \in OfSeverity(t, Len(s) + 1, v) <=> v = w
    BY <1>1, <1>w DEF OfSeverity
  <2>4. CASE v = w
    BY <2>1, <2>2, <2>3, <2>4
  <2>5. CASE v # w
    <3>1. Len(s) + 1 \notin OfSeverity(t, Len(s) + 1, v)
      BY <2>3, <2>5
    <3>2. OfSeverity(t, Len(s) + 1, v) = OfSeverity(s, Len(s), v)
      BY <2>1, <2>2, <3>1
    <3> QED
      BY <2>5, <3>2
  <2> QED
    BY <2>4, <2>5
<1>6. \A v : IsFiniteSet(OfSeverity(s, Len(s), v)) /\ Len(s) + 1 \notin OfSeverity(s, Len(s), v)
  <2> TAKE v
  <2>1. IsFiniteSet(1 .. Len(s)) /\ OfSeverity(s, Len(s), v) \in SUBSET (1 .. Len(s))
    BY <1>1, FS_Interval DEF OfSeverity
  <2>2. IsFiniteSet(OfSeverity(s, Len(s), v))
    BY <2>1, FS_Subset
  <2> QED
    BY <1>1, <2>1, <2>2
<1>7. ASSUME NEW v \in Severities
      PROVE  d[v] = Cardinality(OfSeverity(t, Len(s) + 1, v)) % CounterMod
  <2> DEFINE n == Cardinality(OfSeverity(s, Len(s), v))
  <2>1. n \in Nat /\ c[v] = n % CounterMod
    BY <1>6, FS_CardinalityType DEF Numbering
  <2>2. CASE v = w
    <3>1. Cardinality(OfSeverity(t, Len(s) + 1, v)) = n + 1
      BY <1>5, <1>6, <2>2, FS_AddElement
    <3> HIDE DEF n
    <3>2. n \in Int
      BY <2>1
    <3>3. ((n % CounterMod) + 1) % CounterMod = (n + 1) % CounterMod
      BY <1>2, <3>2, ModSucc
    <3> QED
      BY <1>3, <2>1, <2>2, <3>1, <3>3
  <2>3. CASE v # w
    BY <1>3, <1>5, <2>1, <2>3
  <2> QED
    BY <2>2, <2>3
<1>8. ASSUME NEW i \in DOMAIN t
      PROVE  t[i].counter = Cardinality(OfSeverity(t, i - 1, Severity[t[i].id])) % CounterMod
  <2>1. CASE i \in 1 .. Len(s)
    <3>1. i - 1 \in 0 .. Len(s) /\ t[i] = s[i]
      BY <1>1, <2>1
    <3>2. s[i].counter = Cardinality(OfSeverity(s, i - 1, Severity[s[i].id])) % CounterMod
      BY <1>1, <2>1 DEF Numbering
    <3> QED
      BY <1>4, <3>1, <3>2
  <2>2. CASE i = Len(s) + 1
    <3>1. i - 1 = Len(s) /\ Len(s) \in 0 .. Len(s) /\ t[i] = r
      BY <1>1, <2>2
    <3>2. c[w] = Cardinality(OfSeverity(s, Len(s), w)) % CounterMod
      BY <1>2 DEF Numbering
    <3> QED
      BY <1>4, <1>r, <1>w, <3>1, <3>2
  <2> QED
    BY <1>1, <2>1, <2>2
<1>9. Len(t) = Len(s) + 1
  BY <1>1
<1>10. Numbering(t, d)
  BY <1>7, <1>8, <1>9 DEF Numbering
<1> QED
  BY <1>10 DEF t, d, w

(* The reset counters. *)
FirstCounters == [s \in Severities |-> IF s = "INFO" THEN 1 ELSE 0]

(* What a boot puts on the wire and in the ring. *)
LEMMA BootWire ==
    /\ <<BootReport>> \in Seq(SentReport) /\ <<BootReport>> # <<>>
    /\ FirstCounters \in [Severities -> 0 .. CounterMod - 1]
    /\ Numbering(<<BootReport>>, FirstCounters)
    /\ RingInv(EmptyFifo, SentEvents(<<BootReport>>), 0, 0)
    /\ RingInv(Push(EmptyFifo, "MODE_CHANGED", 1, "other"), SentEvents(<<BootReport>>), 1, 1)
<1> DEFINE s == <<BootReport>>
<1>0. CounterMod \in Nat \ {0, 1} /\ Capacity \in Nat \ {0}
  BY FdirAssumption
<1>1. BootReport \in SentReport
  <2>1. "FSW_BOOT" \in EventIds
    BY DEF EventIds, Severity
  <2> QED
    BY <1>0, <2>1 DEF BootReport, SentReport
<1>2. s \in Seq(SentReport) /\ s # <<>> /\ Len(s) = 1 /\ s[1] = BootReport /\ DOMAIN s = 1 .. 1
  BY <1>1
<1> HIDE DEF s
<1>3. FirstCounters \in [Severities -> 0 .. CounterMod - 1]
  BY <1>0 DEF FirstCounters
<1>4. Severity[BootReport.id] = "INFO" /\ BootReport.counter = 0
  BY DEF BootReport, Severity
<1>5. \A v : OfSeverity(s, 0, v) = {} /\ OfSeverity(s, 1, v) = IF v = "INFO" THEN {1} ELSE {}
  <2> TAKE v
  <2>1. OfSeverity(s, 0, v) = {}
    BY DEF OfSeverity
  <2>2. CASE v = "INFO"
    <3>1. OfSeverity(s, 1, v) = {1}
      BY <1>2, <1>4, <2>2 DEF OfSeverity
    <3> QED
      BY <2>1, <2>2, <3>1
  <2>3. CASE v # "INFO"
    <3>1. OfSeverity(s, 1, v) = {}
      BY <1>2, <1>4, <2>3 DEF OfSeverity
    <3> QED
      BY <2>1, <2>3, <3>1
  <2> QED
    BY <2>2, <2>3
<1>6. Cardinality({}) = 0 /\ Cardinality({1}) = 1 /\ 0 % CounterMod = 0 /\ 1 % CounterMod = 1
  <2>1. Cardinality({}) = 0 /\ Cardinality({1}) = 1
    BY FS_EmptySet, FS_Singleton
  <2>2. 0 % CounterMod = 0
    BY <1>0
  <2>3. 1 % CounterMod = 1
    BY <1>0
  <2> QED
    BY <2>1, <2>2, <2>3
<1>7. Numbering(s, FirstCounters)
  <2>1. \A i \in DOMAIN s : s[i].counter = Cardinality(OfSeverity(s, i - 1, Severity[s[i].id])) % CounterMod
    <3> TAKE i \in DOMAIN s
    <3>1. i = 1 /\ i - 1 = 0 /\ s[i].counter = 0
      BY <1>2, <1>4
    <3>2. OfSeverity(s, i - 1, Severity[s[i].id]) = {}
      BY <1>5, <3>1
    <3> QED
      BY <1>6, <3>1, <3>2
  <2>2. \A v \in Severities : FirstCounters[v] = Cardinality(OfSeverity(s, Len(s), v)) % CounterMod
    BY <1>2, <1>5, <1>6 DEF FirstCounters
  <2> QED
    BY <2>1, <2>2 DEF Numbering
<1>8. SentEvents(s) \in Seq(Event) /\ SentEvents(s) = <<>>
  <2>1. SentEvents(s) \in Seq(Event) /\ Len(SentEvents(s)) = 0
    BY <1>2, SentEventsType
  <2> QED
    BY <2>1, EmptySeq
<1>9. EmptyFifo \in Ring
  <2>1. NoEvent \in Event
    BY DEF NoEvent, Event, EventIds, Severity
  <2>2. 0 \in Slots /\ 0 \in 0 .. Capacity /\ <<>> \in Seq(Event)
    BY <1>0 DEF Slots
  <2>3. [v \in Severities |-> IF v = "INFO" THEN 1 ELSE 0] \in [Severities -> Nat]
    OBVIOUS
  <2>4. [i \in Slots |-> NoEvent] \in [Slots -> Event]
    BY <2>1
  <2> QED
    BY <2>2, <2>3, <2>4 DEF EmptyFifo, Ring
<1>10. EmptyFifo.count = 0 /\ EmptyFifo.log = <<>>
  BY DEF EmptyFifo
<1>11. Queue(EmptyFifo) = <<>>
  <2>1. Queue(EmptyFifo) \in Seq(Event) /\ Len(Queue(EmptyFifo)) = 0
    BY <1>9, <1>10, QueueType
  <2> QED
    BY <2>1, EmptySeq
<1>12. \A g \in Nat : RingInv(EmptyFifo, SentEvents(s), g, g)
  <2>1. <<>> \o <<>> = <<>> /\ DOMAIN <<>> = {}
    OBVIOUS
  <2>2. Caused(<<>>)
    BY <2>1 DEF Caused
  <2> QED
    BY <1>8, <1>9, <1>10, <1>11, <2>1, <2>2 DEF RingInv
<1>13. RingInv(Push(EmptyFifo, "MODE_CHANGED", 1, "other"), SentEvents(s), 1, 1)
  <2>1. "MODE_CHANGED" \in EventIds /\ "MODE_CHANGED" # "FDIR_RECOVERY" /\ "other" # "fdir"
    BY DEF EventIds, Severity
  <2>2. RingInv(EmptyFifo, SentEvents(s), 1, 1) /\ 1 \in Nat /\ 1 <= 1
    BY <1>12
  <2> QED
    BY <1>8, <2>1, <2>2, PushKeepsRing
<1> QED
  BY <1>2, <1>3, <1>7, <1>12, <1>13 DEF s

LEMMA FInitInv == FInit => FInv
<1> SUFFICES ASSUME FInit PROVE FInv
  OBVIOUS
<1>1. /\ fifo = Push(EmptyFifo, "MODE_CHANGED", 1, "other") /\ sent = <<BootReport>>
      /\ generation = 1 /\ phase = "save" /\ msg_counter = FirstCounters
      /\ mode = "NOMINAL" /\ saved = [mode |-> NoRecord, gen |-> 0]
      /\ rx_drops = 0 /\ rx_snapshot = 0 /\ last_reported = 0 /\ lost = 0 /\ told = 0
  BY DEF FInit, FirstCounters
<1>2. RingInv(fifo, SentEvents(sent), generation, NextBound)
  BY <1>1, BootWire DEF NextBound
<1>3. Shapes
  BY <1>1, BootWire, FdirAssumption DEF Shapes, FInit, Disarmed
<1>4. FTypeOK
  <2>1. fifo.slots \in [Slots -> Event] /\ fifo.head \in Slots /\ fifo.count \in 0 .. Capacity
        /\ fifo.dropped \in Nat
    BY <1>2 DEF RingInv, Ring
  <2>2. /\ occurrences \in [Anomalies -> 0 .. OccMax] /\ confirmed \in [Anomalies -> BOOLEAN]
        /\ recovery_enabled \in BOOLEAN /\ undisturbed \in BOOLEAN
    BY FdirAssumption DEF FInit, Disarmed
  <2> QED
    BY <1>1, <2>1, <2>2, BootWire, FdirAssumption DEF FTypeOK, Modes
<1>5. SavedFirst /\ SnapshotBetween
  BY <1>1 DEF SavedFirst, SnapshotBetween
<1>6. SeenIsDurable
  BY <1>1 DEF SeenIsDurable, BootReport
<1>7. Numbering(sent, msg_counter)
  BY <1>1, BootWire
<1>8. DropsToldOnce
  <2>1. (0 - 0) % DropMod = 0
    BY FdirAssumption
  <2> QED
    BY <1>1, <2>1 DEF DropsToldOnce
<1>9. Confirmation
  BY FdirAssumption DEF Confirmation, FInit, Disarmed
<1> QED
  BY <1>2, <1>3, <1>4, <1>5, <1>6, <1>7, <1>8, <1>9 DEF FInv

(* The ring's part of the type invariant. *)
LEMMA RingTypes ==
    ASSUME NEW out, NEW g, NEW b, RingInv(fifo, out, g, b)
    PROVE  /\ fifo.slots \in [Slots -> Event] /\ fifo.head \in Slots
           /\ fifo.count \in 0 .. Capacity /\ fifo.dropped \in Nat
BY DEF RingInv, Ring

LEMMA RingTypesNext ==
    ASSUME NEW out, NEW g, NEW b, RingInv(fifo', out, g, b)
    PROVE  /\ fifo'.slots \in [Slots -> Event] /\ fifo'.head \in Slots
           /\ fifo'.count \in 0 .. Capacity /\ fifo'.dropped \in Nat
BY DEF RingInv, Ring

(* Draining: the head of the queue goes out with the next number of its    *)
(* severity; it was on flash if it is a mode change.                       *)
LEMMA DrainStep == FInv /\ Drain => FInv'
<1> SUFFICES ASSUME FInv, Drain PROVE FInv'
  OBVIOUS
<1> DEFINE ev == fifo.slots[fifo.head]
           v  == Severity[ev.id]
           r  == [id |-> ev.id, detail |-> ev.detail, by |-> ev.by, n |-> ev.n, counter |-> msg_counter[v]]
<1>1. /\ phase = "drain" /\ fifo.count > 0 /\ phase' = "release"
      /\ sent' = Append(sent, r)
      /\ msg_counter' = [msg_counter EXCEPT ![v] = (@ + 1) % CounterMod]
      /\ fifo' = Popped(fifo)
      /\ UNCHANGED <<fault, mode, generation, saved, rx, ops>>
  BY DEF Drain
<1>2. /\ RingInv(fifo, SentEvents(sent), generation, saved.gen) /\ fifo \in Ring
      /\ generation \in Nat /\ saved.gen \in 0 .. generation
      /\ sent \in Seq(SentReport) /\ sent # <<>>
      /\ msg_counter \in [Severities -> 0 .. CounterMod - 1]
      /\ CounterMod \in Nat \ {0}
      /\ fifo.log = SentEvents(sent) \o Queue(fifo)
  BY <1>1, FdirAssumption DEF FInv, FTypeOK, Shapes, NextBound, RingInv
<1>3. /\ fifo' \in Ring /\ fifo'.log = fifo.log /\ fifo'.count = fifo.count - 1
      /\ ev \in Event /\ Queue(fifo) # <<>> /\ Head(Queue(fifo)) = ev
      /\ Queue(fifo') = Tail(Queue(fifo))
  BY <1>1, <1>2, PoppedProperties
<1>4. /\ Queue(fifo) \in Seq(Event) /\ Len(Queue(fifo)) = fifo.count /\ fifo.count \in Nat
  BY <1>2, QueueType
<1>5. /\ Queue(fifo)[1] = ev
      /\ \A i \in 1 .. fifo.count - 1 : Tail(Queue(fifo))[i] = Queue(fifo)[i + 1]
  BY <1>3, <1>4, HeadTailProperties
<1>6. v \in Severities
  BY <1>3, SeverityTypes DEF Event
<1>7. r \in SentReport /\ AsEvent(r) = ev
  <2>1. msg_counter[v] \in 0 .. CounterMod - 1
    BY <1>2, <1>6
  <2>2. r \in SentReport
    BY <1>3, <2>1 DEF Event, SentReport
  <2>3. AsEvent(r) = ev
    BY <1>3 DEF Event, AsEvent
  <2> QED
    BY <2>2, <2>3
<1>r. r.id = ev.id /\ r.detail = ev.detail /\ r.counter = msg_counter[Severity[r.id]] /\ v = Severity[r.id]
  OBVIOUS
<1> HIDE DEF ev, v, r
<1>8. sent' \in Seq(SentReport) /\ sent' # <<>> /\ SentEvents(sent') = Append(SentEvents(sent), ev)
  BY <1>1, <1>2, <1>7, AppendProperties, SentEventsAppend
<1>9. RingInv(fifo', SentEvents(sent'), generation', NextBound')
  <2>1. SentEvents(sent) \in Seq(Event)
    BY <1>2, SentEventsType
  <2>2. fifo'.log = SentEvents(sent') \o Queue(fifo')
    BY <1>2, <1>3, <1>4, <1>8, <2>1, ShiftHead
  <2>3. Caused(fifo'.log)
    BY <1>2, <1>3 DEF RingInv
  <2>4. \A i \in 1 .. fifo'.count : Queue(fifo')[i].id = "MODE_CHANGED" => Queue(fifo')[i].detail <= generation
    <3> TAKE i \in 1 .. fifo'.count
    <3>1. i + 1 \in 1 .. fifo.count /\ Queue(fifo')[i] = Queue(fifo)[i + 1]
      BY <1>3, <1>4, <1>5
    <3> QED
      BY <1>2, <3>1 DEF RingInv
  <2>5. (fifo'.count > 0 /\ Queue(fifo')[1].id = "MODE_CHANGED") => Queue(fifo')[1].detail <= generation
    BY <1>3, <1>4, <2>4
  <2>6. NextBound' = generation /\ generation' = generation
    BY <1>1 DEF NextBound
  <2> QED
    BY <1>3, <2>2, <2>3, <2>4, <2>5, <2>6 DEF RingInv
<1>10. SeenIsDurable'
  <2>1. ev.id = "MODE_CHANGED" => ev.detail <= saved.gen
    BY <1>1, <1>2, <1>5 DEF RingInv
  <2>2. /\ DOMAIN sent' = 1 .. Len(sent) + 1 /\ DOMAIN sent = 1 .. Len(sent) /\ Len(sent) \in Nat
        /\ \A i \in 1 .. Len(sent) : sent'[i] = sent[i]
        /\ sent'[Len(sent) + 1] = r
    BY <1>1, <1>2, <1>7, <1>8, AppendProperties, LenProperties
  <2>3. \A i \in 1 .. Len(sent) : sent[i].id = "MODE_CHANGED" => sent[i].detail <= saved.gen
    BY <2>2 DEF FInv, SeenIsDurable
  <2>4. saved' = saved
    BY <1>1
  <2> QED
    BY <1>r, <2>1, <2>2, <2>3, <2>4 DEF SeenIsDurable
<1>11. Numbering(sent', msg_counter')
  <2>1. Numbering(sent, msg_counter)
    BY DEF FInv
  <2> QED
    BY <1>1, <1>2, <1>7, <1>r, <2>1, NumberingAppend
<1>12. FTypeOK'
  <2>1. msg_counter' \in [Severities -> 0 .. CounterMod - 1]
    <3>1. (msg_counter[v] + 1) % CounterMod \in 0 .. CounterMod - 1
      BY <1>2, <1>6
    <3> QED
      BY <1>1, <1>2, <3>1
  <2>2. /\ fifo'.slots \in [Slots -> Event] /\ fifo'.head \in Slots
        /\ fifo'.count \in 0 .. Capacity /\ fifo'.dropped \in Nat
    BY <1>9, RingTypesNext
  <2> QED
    BY <1>1, <2>1, <2>2 DEF FInv, FTypeOK, fault, rx
<1>13. Shapes'
  BY <1>1, <1>8 DEF FInv, Shapes, fault, rx
<1>14. SavedFirst' /\ SnapshotBetween' /\ DropsToldOnce' /\ Confirmation'
  BY <1>1 DEF FInv, SavedFirst, SnapshotBetween, DropsToldOnce, Confirmation, fault, rx
<1> QED
  BY <1>9, <1>10, <1>11, <1>12, <1>13, <1>14 DEF FInv

(* The interrupt moves the counter one further from the last report. *)
LEMMA RxDropStep == FInv /\ RxDrop => FInv'
<1> SUFFICES ASSUME FInv, RxDrop PROVE FInv'
  OBVIOUS
<1>1. /\ lost - told < DropMod - 1
      /\ rx_drops' = (rx_drops + 1) % DropMod /\ lost' = lost + 1
      /\ UNCHANGED <<fifo, fault, mode, generation, saved, msg_counter, phase, sent, ops,
                     rx_snapshot, last_reported, told>>
  BY DEF RxDrop
<1>2. /\ DropMod \in Nat \ {0, 1} /\ rx_drops \in 0 .. DropMod - 1 /\ last_reported \in 0 .. DropMod - 1
      /\ lost \in Nat /\ told \in Nat /\ rx_snapshot \in 0 .. DropMod - 1
      /\ told + ((rx_drops - last_reported) % DropMod) = lost
  BY FdirAssumption DEF FInv, FTypeOK, Shapes, DropsToldOnce
<1>3. rx_drops' \in 0 .. DropMod - 1
      /\ rx_drops' = IF rx_drops + 1 < DropMod THEN rx_drops + 1 ELSE 0
  <2>1. CASE rx_drops + 1 < DropMod
    BY <1>1, <1>2, <2>1, ModSmall
  <2>2. CASE ~(rx_drops + 1 < DropMod)
    <3>1. rx_drops + 1 = DropMod
      BY <1>2, <2>2
    <3>2. DropMod % DropMod = 0
      BY <1>2
    <3> QED
      BY <1>1, <1>2, <2>2, <3>1, <3>2
  <2> QED
    BY <2>1, <2>2
<1>4. (rx_drops' - last_reported) % DropMod = ((rx_drops - last_reported) % DropMod) + 1
  <2> DEFINE x == rx_drops
             y == last_reported
             z == rx_drops'
  <2>1. (x - y) % DropMod = IF y <= x THEN x - y ELSE x - y + DropMod
    BY <1>2, Distance
  <2>2. (z - y) % DropMod = IF y <= z THEN z - y ELSE z - y + DropMod
    BY <1>2, <1>3, Distance
  <2> QED
    BY <1>1, <1>2, <1>3, <2>1, <2>2
<1>5. (rx_drops - last_reported) % DropMod \in Nat
  BY <1>2
<1>6. DropsToldOnce'
  BY <1>1, <1>2, <1>4, <1>5 DEF DropsToldOnce
<1>7. SnapshotBetween'
  <2>1. (rx_snapshot - last_reported) % DropMod \in Nat
    BY <1>2
  <2>2. phase = "report" => (rx_snapshot - last_reported) % DropMod <= (rx_drops - last_reported) % DropMod
    BY DEF FInv, SnapshotBetween
  <2> QED
    BY <1>1, <1>4, <1>5, <2>1, <2>2 DEF SnapshotBetween
<1>8. FTypeOK'
  BY <1>1, <1>3 DEF FInv, FTypeOK, fault
<1>9. Shapes'
  BY <1>1, <1>2 DEF FInv, Shapes, fault
<1>10. RingInv(fifo', SentEvents(sent'), generation', NextBound')
  BY <1>1 DEF FInv, NextBound
<1>11. SavedFirst' /\ SeenIsDurable' /\ Numbering(sent', msg_counter') /\ Confirmation'
  BY <1>1 DEF FInv, SavedFirst, SeenIsDurable, Confirmation, fault
<1> QED
  BY <1>6, <1>7, <1>8, <1>9, <1>10, <1>11 DEF FInv

(* The report moves the last report up to the snapshot, not to the counter *)
(* as it is by now.                                                        *)
LEMMA RxReportStep == FInv /\ RxReport => FInv'
<1> SUFFICES ASSUME FInv, RxReport PROVE FInv'
  OBVIOUS
<1> DEFINE delta == (rx_snapshot - last_reported) % DropMod
<1>1. /\ phase = "report" /\ phase' = "drain" /\ Report("RX_OVERFLOW", delta)
      /\ told' = told + delta /\ last_reported' = rx_snapshot
      /\ UNCHANGED <<saved, msg_counter, sent, ops, rx_drops, rx_snapshot, lost>>
  BY DEF RxReport
<1>2. /\ DropMod \in Nat \ {0, 1} /\ rx_drops \in 0 .. DropMod - 1 /\ last_reported \in 0 .. DropMod - 1
      /\ lost \in Nat /\ told \in Nat /\ rx_snapshot \in 0 .. DropMod - 1
      /\ told + ((rx_drops - last_reported) % DropMod) = lost
      /\ delta <= (rx_drops - last_reported) % DropMod
  BY <1>1, FdirAssumption DEF FInv, FTypeOK, Shapes, DropsToldOnce, SnapshotBetween
<1>3. delta \in Nat
  BY <1>2
<1>4. delta + ((rx_drops - rx_snapshot) % DropMod) = (rx_drops - last_reported) % DropMod
  <2>1. delta = IF last_reported <= rx_snapshot THEN rx_snapshot - last_reported
                                                ELSE rx_snapshot - last_reported + DropMod
    BY <1>2, Distance
  <2>2. (rx_drops - last_reported) % DropMod =
          IF last_reported <= rx_drops THEN rx_drops - last_reported ELSE rx_drops - last_reported + DropMod
    BY <1>2, Distance
  <2>3. (rx_drops - rx_snapshot) % DropMod =
          IF rx_snapshot <= rx_drops THEN rx_drops - rx_snapshot ELSE rx_drops - rx_snapshot + DropMod
    BY <1>2, Distance
  <2> HIDE DEF delta
  <2> QED
    BY <1>2, <2>1, <2>2, <2>3
<1>5. (rx_drops - rx_snapshot) % DropMod \in Nat
  BY <1>2
<1> HIDE DEF delta
<1>6. DropsToldOnce'
  <2> DEFINE e == (rx_drops - rx_snapshot) % DropMod
  <2>1. e \in Nat /\ told + (delta + e) = lost
    BY <1>2, <1>4, <1>5
  <2>2. (rx_drops' - last_reported') % DropMod = e
    BY <1>1
  <2> HIDE DEF e
  <2>3. told' + e = lost'
    BY <1>1, <1>2, <1>3, <2>1
  <2> QED
    BY <2>2, <2>3 DEF DropsToldOnce
<1>7. /\ RingInv(fifo, SentEvents(sent), generation, saved.gen) /\ saved.gen \in Nat
      /\ SentEvents(sent) \in Seq(Event) /\ generation \in Nat /\ mode \in Modes
      /\ saved.gen \in 0 .. generation
  BY <1>1, SentEventsType DEF FInv, FTypeOK, Shapes, NextBound
<1>8. "RX_OVERFLOW" \in Anomalies
  BY DEF Anomalies
<1>9. /\ RingInv(fifo', SentEvents(sent), generation', saved.gen)
      /\ generation' \in Nat /\ generation <= generation' /\ mode' \in Modes
  BY <1>1, <1>3, <1>7, <1>8, ReportKeepsRing
<1>10. /\ occurrences' \in [Anomalies -> 0 .. OccMax] /\ confirmed' \in [Anomalies -> BOOLEAN]
       /\ reports' \in [Anomalies -> Nat] /\ recoveries' \in [Anomalies -> {0, 1}]
       /\ UNCHANGED <<recovery_enabled, undisturbed>> /\ Confirmation'
  BY <1>1, <1>8, ReportKeepsFault DEF FInv
<1>11. RingInv(fifo', SentEvents(sent'), generation', NextBound')
  BY <1>1, <1>9 DEF NextBound
<1>12. FTypeOK'
  <2>1. /\ fifo'.slots \in [Slots -> Event] /\ fifo'.head \in Slots
        /\ fifo'.count \in 0 .. Capacity /\ fifo'.dropped \in Nat
    BY <1>9, RingTypesNext
  <2>2. saved'.gen \in 0 .. generation'
    BY <1>1, <1>7, <1>9
  <2>3. recovery_enabled' \in BOOLEAN /\ undisturbed' \in BOOLEAN
    BY <1>10 DEF FInv, FTypeOK
  <2> QED
    BY <1>1, <1>2, <1>9, <1>10, <2>1, <2>2, <2>3 DEF FInv, FTypeOK
<1>13. Shapes'
  BY <1>1, <1>2, <1>3, <1>10 DEF FInv, Shapes
<1>14. SavedFirst' /\ SeenIsDurable' /\ SnapshotBetween' /\ Numbering(sent', msg_counter')
  BY <1>1 DEF FInv, SavedFirst, SeenIsDurable, SnapshotBetween
<1> QED
  BY <1>6, <1>10, <1>11, <1>12, <1>13, <1>14 DEF FInv

(* Power loss and reboot: everything but the record starts again. *)
LEMMA RebootStep == FInv /\ Reboot => FInv'
<1> SUFFICES ASSUME FInv, Reboot PROVE FInv'
  OBVIOUS
<1>1. /\ saved' = [saved EXCEPT !.gen = 0] /\ Armed /\ msg_counter' = FirstCounters
      /\ rx_drops' = 0 /\ rx_snapshot' = 0 /\ last_reported' = 0 /\ lost' = 0 /\ told' = 0
      /\ phase' = "save" /\ sent' = <<BootReport>>
  BY DEF Reboot, FirstCounters
<1>2. \/ mode' = "NOMINAL" /\ generation' = 1 /\ fifo' = Push(EmptyFifo, "MODE_CHANGED", 1, "other")
      \/ mode' = saved.mode /\ mode' \in Modes /\ generation' = 0 /\ fifo' = EmptyFifo
  BY DEF Reboot, FInv, FTypeOK, Modes
<1>3. generation' \in Nat /\ mode' \in Modes
  BY <1>2 DEF Modes
<1>4. RingInv(fifo', SentEvents(sent'), generation', NextBound')
  BY <1>1, <1>2, BootWire DEF NextBound
<1>5. Shapes'
  <2>1. saved' \in [mode : Modes \cup {NoRecord}, gen : Nat]
    BY <1>1 DEF FInv, Shapes
  <2>2. reports' \in [Anomalies -> Nat] /\ recoveries' \in [Anomalies -> {0, 1}]
    BY <1>1 DEF Armed, Disarmed
  <2> QED
    BY <1>1, <2>1, <2>2, BootWire, FdirAssumption DEF Shapes
<1>6. FTypeOK'
  <2>1. /\ fifo'.slots \in [Slots -> Event] /\ fifo'.head \in Slots
        /\ fifo'.count \in 0 .. Capacity /\ fifo'.dropped \in Nat
    BY <1>4, RingTypesNext
  <2>2. /\ occurrences' \in [Anomalies -> 0 .. OccMax] /\ confirmed' \in [Anomalies -> BOOLEAN]
        /\ recovery_enabled' \in BOOLEAN /\ undisturbed' \in BOOLEAN
    BY <1>1, FdirAssumption DEF Armed, Disarmed
  <2>3. saved'.mode \in Modes \cup {NoRecord} /\ saved'.gen \in 0 .. generation'
    BY <1>1, <1>3 DEF FInv, Shapes
  <2> QED
    BY <1>1, <1>3, <2>1, <2>2, <2>3, BootWire, FdirAssumption DEF FTypeOK
<1>7. SavedFirst' /\ SnapshotBetween'
  BY <1>1 DEF SavedFirst, SnapshotBetween
<1>8. SeenIsDurable'
  BY <1>1 DEF SeenIsDurable, BootReport
<1>9. Numbering(sent', msg_counter')
  BY <1>1, BootWire
<1>10. DropsToldOnce'
  <2>1. (0 - 0) % DropMod = 0
    BY FdirAssumption
  <2> QED
    BY <1>1, <2>1 DEF DropsToldOnce
<1>11. Confirmation'
  BY <1>1, FdirAssumption DEF Confirmation, Armed, Disarmed
<1> QED
  BY <1>4, <1>5, <1>6, <1>7, <1>8, <1>9, <1>10, <1>11 DEF FInv

(* The other steps of the loop leave the ring alone. *)
LEMMA QuietStep ==
    ASSUME FInv, SaveTick \/ RxSnapshot \/ DrainNothing \/ NoReject \/ UNCHANGED fvars
    PROVE  FInv'
<1>1. /\ UNCHANGED <<fifo, fault, mode, generation, msg_counter, rx_drops, last_reported, lost, told, sent>>
      /\ SaveTick \/ saved' = saved
      /\ RxSnapshot \/ rx_snapshot' = rx_snapshot
  BY DEF SaveTick, RxSnapshot, DrainNothing, NoReject, fvars, rx
<1>2. /\ generation \in Nat /\ saved.gen \in 0 .. generation /\ mode \in Modes
      /\ saved \in [mode : Modes \cup {NoRecord}, gen : Nat]
      /\ RingInv(fifo, SentEvents(sent), generation, NextBound)
  BY DEF FInv, FTypeOK, Shapes
<1>3. /\ saved' \in [mode : Modes \cup {NoRecord}, gen : Nat]
      /\ saved'.gen \in 0 .. generation /\ saved.gen <= saved'.gen
      /\ SaveTick => saved'.gen = generation
  <2>1. CASE SaveTick
    <3>1. CASE generation # saved.gen
      <4>1. saved' = [mode |-> mode, gen |-> generation]
        BY <2>1, <3>1 DEF SaveTick
      <4> QED
        BY <1>2, <4>1
    <3>2. CASE generation = saved.gen
      <4>1. saved' = saved
        BY <2>1, <3>2 DEF SaveTick
      <4> QED
        BY <1>2, <3>2, <4>1
    <3> QED
      BY <3>1, <3>2
  <2>2. CASE saved' = saved /\ ~SaveTick
    BY <1>2, <2>2
  <2> QED
    BY <1>1, <2>1, <2>2
<1>4. /\ phase' \in {"save", "rx", "report", "drain", "release", "inbound"}
      /\ phase' = "rx" => SaveTick \/ phase' = phase
      /\ phase' = "report" => RxSnapshot \/ phase' = phase
      /\ phase' = "drain" => RxSnapshot \/ phase' = phase
      /\ RxSnapshot => phase = "rx" /\ rx_snapshot' = rx_drops
      /\ (phase' = phase) => saved' = saved /\ rx_snapshot' = rx_snapshot
  BY DEF FInv, FTypeOK, SaveTick, RxSnapshot, DrainNothing, NoReject, Dispatches, Dispatched, fvars, rx
<1>5. SavedFirst'
  <2>1. CASE phase' = phase
    BY <1>1, <1>4, <2>1 DEF FInv, SavedFirst
  <2>2. CASE SaveTick
    BY <1>1, <1>3, <2>2 DEF SavedFirst
  <2>3. CASE RxSnapshot /\ ~SaveTick
    BY <1>1, <1>4, <2>3 DEF FInv, SavedFirst
  <2>4. CASE phase' \notin {"rx", "report"}
    BY <2>4 DEF SavedFirst
  <2> QED
    BY <1>4, <2>1, <2>2, <2>3, <2>4
<1>6. RingInv(fifo', SentEvents(sent'), generation', NextBound')
  <2>1. RingInv(fifo, SentEvents(sent), generation, generation)
    BY <1>2, RingInvOwn
  <2>2. CASE phase' \in {"rx", "report"}
    <3>1. NextBound' = generation
      BY <1>1, <1>5, <2>2 DEF NextBound, SavedFirst
    <3> QED
      BY <1>1, <2>1, <3>1
  <2>3. CASE phase' = "drain"
    <3>1. CASE phase' = phase
      BY <1>1, <1>2, <1>4, <2>3, <3>1 DEF NextBound
    <3>2. CASE RxSnapshot
      <4>1. saved.gen = generation /\ ~SaveTick
        BY <1>4, <3>2 DEF FInv, SavedFirst, SaveTick
      <4>2. NextBound' = generation
        BY <1>1, <2>3, <4>1 DEF NextBound
      <4> QED
        BY <1>1, <2>1, <4>2
    <3> QED
      BY <1>4, <2>3, <3>1, <3>2
  <2>4. CASE phase' \notin {"rx", "report", "drain"}
    <3>1. NextBound' = generation
      BY <1>1, <2>4 DEF NextBound
    <3> QED
      BY <1>1, <2>1, <3>1
  <2> QED
    BY <2>2, <2>3, <2>4
<1>7. SnapshotBetween'
  <2>1. CASE phase' = phase
    BY <1>1, <1>4, <2>1 DEF FInv, SnapshotBetween
  <2>2. CASE RxSnapshot
    <3>1. (rx_drops - last_reported) % DropMod \in Int
      BY FdirAssumption DEF FInv, FTypeOK
    <3> QED
      BY <1>1, <1>4, <2>2, <3>1 DEF SnapshotBetween
  <2>3. CASE phase' # "report"
    BY <2>3 DEF SnapshotBetween
  <2> QED
    BY <1>4, <2>1, <2>2, <2>3
<1>8. FTypeOK'
  <2>1. saved'.mode \in Modes \cup {NoRecord}
    BY <1>3
  <2> QED
    BY <1>1, <1>3, <1>4, <2>1 DEF FInv, FTypeOK, fault
<1>9. Shapes'
  <2>1. rx_snapshot' \in 0 .. DropMod - 1
    BY <1>1, <1>4 DEF FInv, FTypeOK, Shapes
  <2> QED
    BY <1>1, <1>3, <2>1 DEF FInv, Shapes, fault
<1>10. SeenIsDurable'
  <2>1. \A i \in DOMAIN sent : sent[i].detail \in Nat
    <3>1. sent \in Seq(SentReport)
      BY DEF FInv, Shapes
    <3>2. \A i \in DOMAIN sent : sent[i] \in SentReport
      BY <3>1
    <3> QED
      BY <3>2 DEF SentReport
  <2>2. saved.gen \in Nat /\ saved'.gen \in Nat
    BY <1>2, <1>3
  <2> QED
    BY <1>1, <1>3, <2>1, <2>2 DEF FInv, SeenIsDurable
<1>11. Numbering(sent', msg_counter') /\ DropsToldOnce' /\ Confirmation'
  BY <1>1 DEF FInv, DropsToldOnce, Confirmation, fault
<1> QED
  BY <1>5, <1>6, <1>7, <1>8, <1>9, <1>10, <1>11 DEF FInv

(* What is left of the invariant after a telecommand, once the step keeps  *)
(* the ring and the fault counters.                                        *)
LEMMA DispatchedKeeps ==
    ASSUME FInv, Dispatches, Dispatched, UNCHANGED <<saved, msg_counter, rx, sent>>,
           generation' \in Nat, generation <= generation', mode' \in Modes,
           NEW first, RingInv(fifo', SentEvents(sent), generation', first),
           occurrences' \in [Anomalies -> 0 .. OccMax], confirmed' \in [Anomalies -> BOOLEAN],
           recovery_enabled' \in BOOLEAN, undisturbed' \in BOOLEAN,
           reports' \in [Anomalies -> Nat], recoveries' \in [Anomalies -> {0, 1}],
           Confirmation'
    PROVE  FInv'
<1>1. phase' \in {"inbound", "save"}
  BY DEF Dispatched
<1>2. RingInv(fifo', SentEvents(sent'), generation', NextBound')
  <2>1. RingInv(fifo', SentEvents(sent), generation', generation')
    BY RingInvOwn
  <2> QED
    BY <1>1, <2>1 DEF NextBound
<1>3. FTypeOK'
  <2>1. /\ fifo'.slots \in [Slots -> Event] /\ fifo'.head \in Slots
        /\ fifo'.count \in 0 .. Capacity /\ fifo'.dropped \in Nat
    BY RingTypesNext
  <2>2. saved'.gen \in 0 .. generation'
    BY DEF FInv, FTypeOK
  <2> QED
    BY <1>1, <2>1, <2>2 DEF FInv, FTypeOK, rx
<1>4. Shapes'
  BY DEF FInv, Shapes, rx
<1>5. SavedFirst' /\ SnapshotBetween'
  BY <1>1 DEF SavedFirst, SnapshotBetween
<1>6. SeenIsDurable' /\ Numbering(sent', msg_counter') /\ DropsToldOnce'
  BY DEF FInv, SeenIsDurable, DropsToldOnce, rx
<1> QED
  BY <1>2, <1>3, <1>4, <1>5, <1>6 DEF FInv

LEMMA DispatchStepInv == FInv /\ DispatchStep => FInv'
<1> SUFFICES ASSUME FInv, DispatchStep PROVE FInv'
  OBVIOUS
<1>0. /\ FTypeOK /\ Shapes /\ Confirmation /\ generation \in Nat /\ mode \in Modes
      /\ generation <= generation
      /\ SentEvents(sent) \in Seq(Event) /\ generation + 1 \in Nat
      /\ recovery_enabled \in BOOLEAN /\ undisturbed \in BOOLEAN
      /\ occurrences \in [Anomalies -> 0 .. OccMax] /\ confirmed \in [Anomalies -> BOOLEAN]
      /\ reports \in [Anomalies -> Nat] /\ recoveries \in [Anomalies -> {0, 1}]
  BY SentEventsType DEF FInv, FTypeOK, Shapes
<1>g. RingInv(fifo, SentEvents(sent), generation, generation)
  BY <1>0, RingInvOwn DEF FInv
<1>1. CASE NoReject
  BY <1>1, QuietStep
<1>2. CASE RejectTc
  <2>1. /\ Dispatches /\ Dispatched /\ Report("TC_REJECTED", 0)
        /\ UNCHANGED <<saved, msg_counter, rx, sent>>
    BY <1>2 DEF RejectTc
  <2>2. "TC_REJECTED" \in Anomalies /\ 0 \in Nat
    BY DEF Anomalies
  <2>3. /\ RingInv(fifo', SentEvents(sent), generation', generation)
        /\ generation' \in Nat /\ generation <= generation' /\ mode' \in Modes
    BY <1>0, <1>g, <2>1, <2>2, ReportKeepsRing
  <2>4. /\ occurrences' \in [Anomalies -> 0 .. OccMax] /\ confirmed' \in [Anomalies -> BOOLEAN]
        /\ reports' \in [Anomalies -> Nat] /\ recoveries' \in [Anomalies -> {0, 1}]
        /\ UNCHANGED <<recovery_enabled, undisturbed>> /\ Confirmation'
    BY <1>0, <2>1, <2>2, ReportKeepsFault
  <2>5. recovery_enabled' \in BOOLEAN /\ undisturbed' \in BOOLEAN
    BY <1>0, <2>4
  <2> QED
    BY <2>1, <2>3, <2>4, <2>5, DispatchedKeeps
<1>3. CASE \E m \in Modes : MissionMode(m)
  <2>1. PICK m \in Modes : MissionMode(m)
    BY <1>3, Zenon
  <2>2. /\ Dispatches /\ Dispatched /\ ModeRequest(fifo, m, "other")
        /\ undisturbed' = (undisturbed /\ m = SafeMode)
        /\ UNCHANGED <<occurrences, confirmed, recovery_enabled, reports, recoveries>>
        /\ UNCHANGED <<saved, msg_counter, rx, sent>>
    BY <2>1 DEF MissionMode
  <2>3. RingInv(fifo, SentEvents(sent), generation, generation + 1)
    <3>1. generation <= generation + 1
      BY <1>0
    <3> QED
      BY <1>0, <1>g, <3>1, RingInvLooser
  <2>4. /\ RingInv(fifo', SentEvents(sent), generation', generation + 1)
        /\ generation' \in Nat /\ generation <= generation' /\ mode' \in Modes
        /\ m = SafeMode => mode' = SafeMode
    <3>1. generation + 1 <= generation + 1 /\ "other" # "fdir"
      BY <1>0
    <3> DEFINE d == generation + 1
    <3>2. d \in Nat /\ RingInv(fifo, SentEvents(sent), generation, d) /\ generation + 1 <= d
      BY <1>0, <2>3, <3>1
    <3> HIDE DEF d
    <3>3. /\ RingInv(fifo', SentEvents(sent), generation', d)
          /\ generation' \in Nat /\ generation <= generation' /\ mode' \in Modes
          /\ m = SafeMode => mode' = SafeMode
      BY <1>0, <2>2, <3>1, <3>2, ModeRequestKeeps
    <3> QED
      BY <3>3 DEF d
  <2>5. undisturbed' \in BOOLEAN
    BY <1>0, <2>2
  <2>6. Confirmation'
    <3>1. undisturbed' => undisturbed /\ mode' = SafeMode
      BY <2>2, <2>4
    <3> QED
      BY <1>0, <2>2, <3>1 DEF Confirmation
  <2>7. /\ occurrences' \in [Anomalies -> 0 .. OccMax] /\ confirmed' \in [Anomalies -> BOOLEAN]
        /\ reports' \in [Anomalies -> Nat] /\ recoveries' \in [Anomalies -> {0, 1}]
        /\ recovery_enabled' \in BOOLEAN
    BY <1>0, <2>2
  <2> QED
    BY <2>2, <2>4, <2>5, <2>6, <2>7, DispatchedKeeps
<1>4. CASE \E on \in BOOLEAN : SetEnabled(on)
  <2>1. PICK on \in BOOLEAN : SetEnabled(on)
    BY <1>4
  <2>2. /\ Dispatches /\ Dispatched /\ recovery_enabled' = on /\ undisturbed' = (undisturbed /\ on)
        /\ UNCHANGED <<fifo, occurrences, confirmed, reports, recoveries, mode, generation>>
        /\ UNCHANGED <<saved, msg_counter, rx, sent>>
    BY <2>1 DEF SetEnabled
  <2>3. undisturbed' \in BOOLEAN /\ recovery_enabled' \in BOOLEAN
    BY <1>0, <2>2
  <2>4. Confirmation'
    <3>1. undisturbed' => undisturbed /\ recovery_enabled'
      BY <2>2
    <3> QED
      BY <1>0, <2>2, <3>1 DEF Confirmation
  <2>5. /\ RingInv(fifo', SentEvents(sent), generation', generation)
        /\ generation' \in Nat /\ generation <= generation' /\ mode' \in Modes
        /\ occurrences' \in [Anomalies -> 0 .. OccMax] /\ confirmed' \in [Anomalies -> BOOLEAN]
        /\ reports' \in [Anomalies -> Nat] /\ recoveries' \in [Anomalies -> {0, 1}]
    BY <1>0, <1>g, <2>2
  <2> QED
    BY <2>2, <2>3, <2>4, <2>5, DispatchedKeeps
<1>5. CASE Rearm
  <2>1. /\ Dispatches /\ Dispatched /\ Armed
        /\ UNCHANGED <<fifo, mode, generation>> /\ UNCHANGED <<saved, msg_counter, rx, sent>>
    BY <1>5 DEF Rearm
  <2>2. Confirmation'
    BY <2>1, FdirAssumption DEF Confirmation, Armed, Disarmed
  <2>3. /\ occurrences' \in [Anomalies -> 0 .. OccMax] /\ confirmed' \in [Anomalies -> BOOLEAN]
        /\ recovery_enabled' \in BOOLEAN /\ undisturbed' \in BOOLEAN
        /\ reports' \in [Anomalies -> Nat] /\ recoveries' \in [Anomalies -> {0, 1}]
    BY <2>1, FdirAssumption DEF Armed, Disarmed
  <2>4. /\ RingInv(fifo', SentEvents(sent), generation', generation)
        /\ generation' \in Nat /\ generation <= generation' /\ mode' \in Modes
    BY <1>0, <1>g, <2>1
  <2> QED
    BY <2>1, <2>2, <2>3, <2>4, DispatchedKeeps
<1> QED
  BY <1>1, <1>2, <1>3, <1>4, <1>5 DEF DispatchStep


----------------------------------------------------------------------------
LEMMA FStepInv == FInv /\ [FNext]_fvars => FInv'
<1> SUFFICES ASSUME FInv, [FNext]_fvars
             PROVE  FInv'
  OBVIOUS
<1>1. CASE SaveTick \/ RxSnapshot \/ DrainNothing \/ UNCHANGED fvars
  BY <1>1, QuietStep
<1>2. CASE RxReport
  BY <1>2, RxReportStep
<1>3. CASE Drain
  BY <1>3, DrainStep
<1>4. CASE DispatchStep
  BY <1>4, DispatchStepInv
<1>5. CASE RxDrop
  BY <1>5, RxDropStep
<1>6. CASE Reboot
  BY <1>6, RebootStep
<1> QED
  BY <1>1, <1>2, <1>3, <1>4, <1>5, <1>6 DEF FNext, LoopStep

(* The inductive invariant of the FDIR loop, with the UART interrupt and   *)
(* power loss between any two of its steps.                                *)
THEOREM FdirInvariant == FSpec => []FInv
<1>1. FInit => FInv
  BY FInitInv
<1>2. FInv /\ [FNext]_fvars => FInv'
  BY FStepInv
<1> QED
  BY <1>1, <1>2, PTL DEF FSpec

(* migris_event_fifo_push and _pop never index outside the ring, the       *)
(* occurrence counters saturate (fdir_observe) and the uint8 and uint32    *)
(* counters stay in their width.                                           *)
THEOREM FdirTypeCorrect == FSpec => []FTypeOK
<1>1. FInv => FTypeOK
  BY DEF FInv
<1> QED
  BY <1>1, FdirInvariant, PTL

(* migris_fdir_drain transmits the accepted events oldest first and the    *)
(* ring holds the rest in order, however often head and tail wrapped and   *)
(* whatever was refused in between.                                        *)
THEOREM EventsInWireOrder == FSpec => []WireOrder
<1>1. FInv => WireOrder
  BY DEF FInv, RingInv, SentEvents, WireOrder
<1> QED
  BY <1>1, FdirInvariant, PTL

(* migris_pus5_build_event_report numbers a report when it is drained: its *)
(* counter is the number of reports of its severity sent before it, modulo *)
(* the counter's width, whatever was raised in between.  No refusal of     *)
(* the ring ever shows in the counters, against what event_fifo.h says of  *)
(* them (GapsAreVisible).                                                  *)
NumberedWhenSent ==
    \A i \in DOMAIN sent :
        sent[i].counter =
            Cardinality({k \in 1 .. i - 1 : Severity[sent[k].id] = Severity[sent[i].id]}) % CounterMod
THEOREM ReportsNumberedWhenSent == FSpec => []NumberedWhenSent
<1>1. FInv => NumberedWhenSent
  BY DEF FInv, Numbering, OfSeverity, NumberedWhenSent
<1> QED
  BY <1>1, FdirInvariant, PTL

(* fdir_observe enqueues FDIR_RECOVERY before it requests SAFE: also when  *)
(* the ring overflows between the three events of one anomaly, the log     *)
(* never shows an effect without its cause just before it.                 *)
THEOREM CausesPrecedeEffects == FSpec => []CauseBeforeEffect
<1>1. FInv => CauseBeforeEffect
  BY DEF FInv, RingInv, Caused, CauseBeforeEffect
<1> QED
  BY <1>1, FdirInvariant, PTL

(* The save tick comes first in the iteration and one event is drained per *)
(* iteration: a mode change the ground has seen is on flash, and a reboot  *)
(* does not undo it.                                                       *)
THEOREM SeenModeIsDurable == FSpec => []SeenIsDurable
<1>1. FInv => SeenIsDurable
  BY DEF FInv
<1> QED
  BY <1>1, FdirInvariant, PTL

(* The receive-overflow detector tells every byte the interrupt dropped    *)
(* exactly once, through the wrap of the 32-bit counter.                   *)
THEOREM EveryDropToldOnce == FSpec => []DropsToldOnce
<1>1. FInv => DropsToldOnce
  BY DEF FInv
<1> QED
  BY <1>1, FdirInvariant, PTL

(* The confirmation edge of fdir_observe: an undisturbed vehicle is in     *)
(* SAFE once an anomaly reached its threshold, and recovery fires at most  *)
(* once per anomaly type and arming.                                       *)
THEOREM RecoveryFiresOnce == FSpec => []RecoversOnce
<1>1. FInv => RecoversOnce
  BY DEF FInv, FTypeOK, Shapes, Confirmation, RecoversOnce
<1> QED
  BY <1>1, FdirInvariant, PTL
============================================================================
