----------------------------- MODULE LinkProofs -----------------------------
(***************************************************************************)
(* The two ends of the link, each with a specification of its own.         *)
(*                                                                         *)
(* Telecommands: the buffer is never overrun, for every buffer, header and *)
(* ring size and every traffic; and what is handed to the router is what   *)
(* ground sent, as long as nothing was lost.                               *)
(*                                                                         *)
(* Telemetry: the packet store holds the newest packets, and a retrieval   *)
(* replays its window exactly, for every capacity, packet size and number  *)
(* of packets.                                                             *)
(***************************************************************************)
EXTENDS Uplink, PktStore, NumberLemmas, SequenceTheorems, TLAPS

----------------------------------------------------------------------------
(* Telecommands: the buffer *)

(* Why it holds: the size is unknown only while the header is being read;   *)
(* once known it fits the buffer and is still ahead of what was collected.  *)
Collecting ==
    IF Len(tc) < Header THEN want = 0 ELSE Len(tc) < want /\ want <= BufSize

UInv == UTypeOK /\ BufferSafe /\ Collecting

(* The store of one byte stays inside the buffer. *)
LEMMA TakeSafe ==
    ASSUME UInv, NEW b \in Bytes, Take(b)
    PROVE  /\ rx_ring' \in Seq(Bytes) /\ Len(rx_ring') <= RingSize
           /\ wire' \in Seq(Bytes) /\ drops' \in Nat
           /\ stored' \in Nat /\ stored' <= BufSize
           /\ Len(tc) \in Nat
           /\ b \in Nat
  <1> USE UplinkAssumption
  <1>1. Len(tc) \in Nat /\ Len(tc) + 1 <= BufSize
    BY DEF UInv, UTypeOK, Collecting
  <1>2. rx_ring' \in Seq(Bytes) /\ Len(rx_ring') <= RingSize
    BY DEF UInv, UTypeOK, BufferSafe, Take
  <1>3. QED
    BY <1>1, <1>2 DEF UInv, UTypeOK, BufferSafe, Take

(* Every step of the loop, the interrupt and ground keeps the invariant. *)
LEMMA UInvStep == UInv /\ [UNext]_uvars => UInv'
  <1> USE UplinkAssumption
  <1> SUFFICES ASSUME UInv, [UNext]_uvars PROVE UInv'
    OBVIOUS
  <1>1. CASE UNCHANGED uvars
    BY <1>1 DEF uvars, UInv, UTypeOK, BufferSafe, Collecting
  <1>2. ASSUME NEW p \in Packets, Send(p) PROVE UInv'
    <2>1. p \in Seq(Bytes) /\ wire \in Seq(Bytes)
      BY DEF UInv, UTypeOK
    <2>2. wire' \in Seq(Bytes)
      BY <1>2, <2>1 DEF Send
    <2>3. QED
      BY <1>2, <2>2 DEF Send, UInv, UTypeOK, BufferSafe, Collecting
  <1>3. CASE UartIsr
    <2>1. wire' \in Seq(Bytes) /\ Head(wire) \in Bytes
      BY <1>3 DEF UartIsr, UInv, UTypeOK
    <2>2. rx_ring' \in Seq(Bytes) /\ Len(rx_ring') <= RingSize /\ drops' \in Nat
      <3>1. CASE Len(rx_ring) < RingSize
        <4>1. rx_ring' = Append(rx_ring, Head(wire)) /\ drops' = drops
          BY <1>3, <3>1 DEF UartIsr
        <4>2. rx_ring \in Seq(Bytes) /\ drops \in Nat /\ Len(rx_ring) \in Nat
          BY DEF UInv, UTypeOK
        <4>3. rx_ring' \in Seq(Bytes) /\ Len(rx_ring') = Len(rx_ring) + 1
          BY <2>1, <4>1, <4>2
        <4>4. QED
          BY <3>1, <4>1, <4>2, <4>3
      <3>2. CASE ~ (Len(rx_ring) < RingSize)
        BY <1>3, <3>2 DEF UartIsr, UInv, UTypeOK, BufferSafe
      <3>3. QED
        BY <3>1, <3>2
    <2>3. QED
      BY <1>3, <2>1, <2>2 DEF UartIsr, UInv, UTypeOK, BufferSafe, Collecting
  <1>4. ASSUME NEW b \in Bytes, Resync(b) PROVE UInv'
    <2>1. Take(b)
      BY <1>4 DEF Resync
    <2>2. tc' = <<>> /\ want' = 0
      BY <1>4 DEF Resync
    <2>3. Len(tc') = 0 /\ tc' \in Seq(Bytes)
      BY <2>2
    <2>4. QED
      BY <2>1, <2>2, <2>3, TakeSafe DEF UInv, UTypeOK, BufferSafe, Collecting
  <1>5. ASSUME NEW b \in Bytes, Dispatch(b) PROVE UInv'
    <2>1. Take(b)
      BY <1>5 DEF Dispatch
    <2>2. tc' = <<>> /\ want' = 0
      BY <1>5 DEF Dispatch
    <2>3. Len(tc') = 0 /\ tc' \in Seq(Bytes)
      BY <2>2
    <2>4. QED
      BY <2>1, <2>2, <2>3, TakeSafe DEF UInv, UTypeOK, BufferSafe, Collecting
  <1>6. ASSUME NEW b \in Bytes, Collect(b) PROVE UInv'
    <2>1. Take(b) /\ tc' = Append(tc, b) /\ want' = WantAfter(b)
      BY <1>6 DEF Collect
    <2>2. tc' \in Seq(Bytes) /\ Len(tc') = Len(tc) + 1
      BY <2>1 DEF UInv, UTypeOK
    <2>3. b \in Nat /\ Len(tc) \in Nat /\ want \in Nat
      BY <2>1, TakeSafe DEF UInv, UTypeOK
    <2>4. CASE Len(tc) + 1 = Header
      <3>1. want' = Header + b + 1
        BY <2>1, <2>4 DEF WantAfter, TotalSize
      <3>2. want' <= BufSize
        BY <1>6, <2>1, <2>3, <2>4, <3>1 DEF Collect, OutOfSync, Oversize
      <3>3. QED
        BY <2>1, <2>2, <2>3, <2>4, <3>1, <3>2, TakeSafe DEF UInv, UTypeOK, BufferSafe, Collecting
    <2>5. CASE Len(tc) + 1 # Header
      <3>1. want' = want
        BY <2>1, <2>5 DEF WantAfter
      <3>2. ~ (want # 0 /\ Len(tc) + 1 = want)
        BY <1>6, <2>5 DEF Collect, Complete, WantAfter
      <3>3. Collecting'
        BY <2>2, <2>3, <2>5, <3>1, <3>2 DEF UInv, Collecting
      <3>4. QED
        BY <2>1, <2>2, <2>3, <3>1, <3>3, TakeSafe DEF UInv, UTypeOK, BufferSafe
    <2>6. QED
      BY <2>4, <2>5
  <1>7. CASE Idle
    BY <1>7 DEF Idle, uvars, UInv, UTypeOK, BufferSafe, Collecting
  <1>8. QED
    BY <1>1, <1>2, <1>3, <1>4, <1>5, <1>6, <1>7 DEF UNext, Loop

(* tc[have++] in the main loop never writes past TC_BUF_SIZE, though the    *)
(* code tests no bound there: the oversize check on the announced length    *)
(* is enough, whatever bytes arrive and however many are lost.  And the     *)
(* interrupt stays inside its ring.                                         *)
THEOREM NoOverrun == USpec => []BufferSafe
  <1>1. UInit => UInv
    BY UplinkAssumption DEF UInit, UInv, UTypeOK, BufferSafe, Collecting
  <1>2. UInv => BufferSafe
    BY DEF UInv
  <1>3. QED
    BY <1>1, <1>2, UInvStep, PTL DEF USpec


----------------------------------------------------------------------------
(* Framing *)

(* Ground sends space packets: the data length field tells the size. *)
WellFormed == \A p \in Packets : Header < Len(p) /\ Len(p) = TotalSize(p[Header])

(* The bytes that are underway: in the buffer t, the ring r, the line w. *)
Underway(t, r, w) ==
    [i \in 1 .. Len(t) + Len(r) + Len(w) |->
        IF i <= Len(t) THEN t[i]
        ELSE IF i <= Len(t) + Len(r) THEN r[i - Len(t)]
        ELSE w[i - Len(t) - Len(r)]]

(* off[k] bytes were sent before the k-th telecommand. *)
Offsets(off, s) ==
    /\ off \in [1 .. Len(s) + 1 -> Nat]
    /\ \A k \in 1 .. Len(s) : off[k + 1] = off[k] + Len(s[k])
    /\ \A j, k \in 1 .. Len(s) + 1 : j <= k => off[j] <= off[k]

(* The bytes u underway are those of the telecommands after the n-th. *)
Carries(u, s, n, off) ==
    /\ DOMAIN u = 1 .. off[Len(s) + 1] - off[n + 1]
    /\ \A k \in n + 1 .. Len(s) : \A j \in 1 .. Len(s[k]) : u[off[k] - off[n + 1] + j] = s[k][j]

(* The telecommand being collected is the next one sent, and its size, once *)
(* known, is that one's.                                                    *)
Collected(t, w, s, n) ==
    /\ t # <<>> => n < Len(s) /\ Len(t) < Len(s[n + 1])
    /\ Header <= Len(t) => w = TotalSize(t[Header])

(* The first telecommands were dispatched as they were sent. *)
Delivered(d, s) ==
    /\ d \in Seq(Seq(Bytes)) /\ Len(d) <= Len(s)
    /\ \A k \in 1 .. Len(d) : d[k] = s[k]

Framing ==
    /\ Delivered(dispatched, sent)
    /\ Collected(tc, want, sent, Len(dispatched))
    /\ \E off : Offsets(off, sent) /\ Carries(Underway(tc, rx_ring, wire), sent, Len(dispatched), off)

FramingInv == UInv /\ sent \in Seq(Packets) /\ (Clean => Framing)

(* A byte that moves on, from the line to the ring or from the ring to the  *)
(* buffer, is still underway, in its place.                                 *)
LEMMA MoveToRing ==
    ASSUME NEW t \in Seq(Bytes), NEW r \in Seq(Bytes), NEW w \in Seq(Bytes), w # <<>>
    PROVE  Underway(t, Append(r, Head(w)), Tail(w)) = Underway(t, r, w)
<1> DEFINE b == Head(w)
           v == Tail(w)
           q == Append(r, b)
<1>1. Len(t) \in Nat /\ Len(r) \in Nat /\ Len(w) \in Nat /\ b = w[1] /\ b \in Bytes
  BY LenProperties, HeadTailProperties
<1>2. v \in Seq(Bytes) /\ Len(v) = Len(w) - 1 /\ \A i \in 1 .. Len(v) : v[i] = w[i + 1]
  BY HeadTailProperties
<1>3. Len(q) = Len(r) + 1 /\ (\A i \in 1 .. Len(r) : q[i] = r[i]) /\ q[Len(r) + 1] = b
  BY <1>1, AppendProperties
<1> HIDE DEF b, v, q
<1>4. Len(t) + Len(q) + Len(v) = Len(t) + Len(r) + Len(w) /\ 0 < Len(w)
  BY <1>1, <1>2, <1>3, LenProperties
<1>5. ASSUME NEW i \in 1 .. Len(t) + Len(r) + Len(w)
      PROVE  Underway(t, q, v)[i] = Underway(t, r, w)[i]
  <2>1. CASE i <= Len(t)
    BY <1>4, <2>1 DEF Underway
  <2>2. CASE Len(t) < i /\ i <= Len(t) + Len(r)
    <3>1. i - Len(t) \in 1 .. Len(r) /\ ~(i <= Len(t)) /\ i <= Len(t) + Len(q)
      BY <1>1, <1>3, <2>2
    <3> QED
      BY <1>3, <1>4, <2>2, <3>1 DEF Underway
  <2>3. CASE i = Len(t) + Len(r) + 1
    <3>1. /\ ~(i <= Len(t)) /\ ~(i <= Len(t) + Len(r)) /\ i <= Len(t) + Len(q)
          /\ i - Len(t) = Len(r) + 1 /\ i - Len(t) - Len(r) = 1
      BY <1>1, <1>3, <2>3
    <3> QED
      BY <1>1, <1>3, <1>4, <3>1 DEF Underway
  <2>4. CASE Len(t) + Len(r) + 1 < i
    <3>1. /\ ~(i <= Len(t)) /\ ~(i <= Len(t) + Len(r)) /\ ~(i <= Len(t) + Len(q))
          /\ i - Len(t) - Len(q) \in 1 .. Len(v)
          /\ i - Len(t) - Len(q) + 1 = i - Len(t) - Len(r)
      BY <1>1, <1>2, <1>3, <2>4
    <3> QED
      BY <1>2, <1>4, <3>1 DEF Underway
  <2> QED
    BY <1>1, <2>1, <2>2, <2>3, <2>4
<1>6. /\ Underway(t, q, v) = [i \in 1 .. Len(t) + Len(r) + Len(w) |-> Underway(t, q, v)[i]]
      /\ Underway(t, r, w) = [i \in 1 .. Len(t) + Len(r) + Len(w) |-> Underway(t, r, w)[i]]
  BY <1>4 DEF Underway
<1>7. Underway(t, q, v) = Underway(t, r, w)
  BY <1>5, <1>6
<1> QED
  BY <1>7 DEF b, v, q

LEMMA MoveToBuffer ==
    ASSUME NEW t \in Seq(Bytes), NEW r \in Seq(Bytes), NEW w \in Seq(Bytes), r # <<>>
    PROVE  Underway(Append(t, Head(r)), Tail(r), w) = Underway(t, r, w)
<1> DEFINE b == Head(r)
           v == Tail(r)
           q == Append(t, b)
<1>1. Len(t) \in Nat /\ Len(r) \in Nat /\ Len(w) \in Nat /\ b = r[1] /\ b \in Bytes
  BY LenProperties, HeadTailProperties
<1>2. v \in Seq(Bytes) /\ Len(v) = Len(r) - 1 /\ \A i \in 1 .. Len(v) : v[i] = r[i + 1]
  BY HeadTailProperties
<1>3. Len(q) = Len(t) + 1 /\ (\A i \in 1 .. Len(t) : q[i] = t[i]) /\ q[Len(t) + 1] = b
  BY <1>1, AppendProperties
<1> HIDE DEF b, v, q
<1>4. /\ Len(q) + Len(v) + Len(w) = Len(t) + Len(r) + Len(w) /\ Len(q) + Len(v) = Len(t) + Len(r)
      /\ 0 < Len(r)
  BY <1>1, <1>2, <1>3, LenProperties
<1>5. ASSUME NEW i \in 1 .. Len(t) + Len(r) + Len(w)
      PROVE  Underway(q, v, w)[i] = Underway(t, r, w)[i]
  <2>1. CASE i <= Len(t)
    <3>1. i \in 1 .. Len(t) /\ i <= Len(q)
      BY <1>1, <1>3, <2>1
    <3> QED
      BY <1>3, <1>4, <2>1, <3>1 DEF Underway
  <2>2. CASE i = Len(t) + 1
    <3>1. i <= Len(q) /\ ~(i <= Len(t)) /\ i <= Len(t) + Len(r) /\ i - Len(t) = 1
      BY <1>1, <1>3, <1>4, <2>2
    <3> QED
      BY <1>1, <1>3, <1>4, <2>2, <3>1 DEF Underway
  <2>3. CASE Len(t) + 1 < i /\ i <= Len(t) + Len(r)
    <3>1. /\ ~(i <= Len(q)) /\ ~(i <= Len(t)) /\ i <= Len(q) + Len(v)
          /\ i - Len(q) \in 1 .. Len(v) /\ i - Len(q) + 1 = i - Len(t)
      BY <1>1, <1>2, <1>3, <1>4, <2>3
    <3> QED
      BY <1>2, <1>4, <2>3, <3>1 DEF Underway
  <2>4. CASE Len(t) + Len(r) < i
    <3>1. /\ ~(i <= Len(q)) /\ ~(i <= Len(t)) /\ ~(i <= Len(q) + Len(v)) /\ ~(i <= Len(t) + Len(r))
          /\ i - Len(q) - Len(v) = i - Len(t) - Len(r)
      BY <1>1, <1>2, <1>3, <1>4, <2>4
    <3> QED
      BY <1>4, <3>1 DEF Underway
  <2> QED
    BY <1>1, <2>1, <2>2, <2>3, <2>4
<1>6. /\ Underway(q, v, w) = [i \in 1 .. Len(t) + Len(r) + Len(w) |-> Underway(q, v, w)[i]]
      /\ Underway(t, r, w) = [i \in 1 .. Len(t) + Len(r) + Len(w) |-> Underway(t, r, w)[i]]
  BY <1>4 DEF Underway
<1>7. Underway(q, v, w) = Underway(t, r, w)
  BY <1>5, <1>6
<1> QED
  BY <1>7 DEF b, v, q

(* Emptying the buffer leaves the rest. *)
LEMMA EmptyBuffer ==
    ASSUME NEW t \in Seq(Bytes), NEW r \in Seq(Bytes), NEW w \in Seq(Bytes)
    PROVE  /\ DOMAIN Underway(<<>>, r, w) = 1 .. Len(r) + Len(w)
           /\ \A i \in 1 .. Len(r) + Len(w) : Underway(<<>>, r, w)[i] = Underway(t, r, w)[Len(t) + i]
<1>1. Len(t) \in Nat /\ Len(r) \in Nat /\ Len(w) \in Nat /\ Len(<<>>) = 0
  BY LenProperties
<1>2. DOMAIN Underway(<<>>, r, w) = 1 .. Len(r) + Len(w)
  BY <1>1 DEF Underway
<1>3. ASSUME NEW i \in 1 .. Len(r) + Len(w)
      PROVE  Underway(<<>>, r, w)[i] = Underway(t, r, w)[Len(t) + i]
  <2> DEFINE k == Len(t) + i
             e == <<>>
  <2>1. /\ k \in 1 .. Len(t) + Len(r) + Len(w) /\ ~(k <= Len(t)) /\ k - Len(t) = i
        /\ (k <= Len(t) + Len(r) <=> i <= Len(r)) /\ k - Len(t) - Len(r) = i - Len(r)
    BY <1>1
  <2>2. Len(e) = 0 /\ i \in 1 .. Len(e) + Len(r) + Len(w) /\ ~(i <= Len(e))
        /\ (i <= Len(e) + Len(r) <=> i <= Len(r)) /\ i - Len(e) = i /\ i - Len(e) - Len(r) = i - Len(r)
    BY <1>1
  <2> HIDE DEF k, e
  <2>3. Underway(e, r, w)[i] = IF i <= Len(r) THEN r[i] ELSE w[i - Len(r)]
    BY <2>2 DEF Underway
  <2>4. Underway(t, r, w)[k] = IF i <= Len(r) THEN r[i] ELSE w[i - Len(r)]
    BY <2>1 DEF Underway
  <2> QED
    BY <2>3, <2>4 DEF k, e
<1> QED
  BY <1>2, <1>3

(* v is u, of N bytes, with p behind it. *)
Extends(v, u, p, N) ==
    /\ DOMAIN v = 1 .. N + Len(p)
    /\ \A i \in 1 .. N : v[i] = u[i]
    /\ \A j \in 1 .. Len(p) : v[N + j] = p[j]

(* A telecommand on the line is underway behind the others. *)
LEMMA SendUnderway ==
    ASSUME NEW t \in Seq(Bytes), NEW r \in Seq(Bytes), NEW w \in Seq(Bytes), NEW p \in Seq(Bytes)
    PROVE  Extends(Underway(t, r, w \o p), Underway(t, r, w), p, Len(t) + Len(r) + Len(w))
<1> DEFINE v == w \o p
           N == Len(t) + Len(r) + Len(w)
<1>1. Len(t) \in Nat /\ Len(r) \in Nat /\ Len(w) \in Nat /\ Len(p) \in Nat
  BY LenProperties
<1>2. /\ Len(v) = Len(w) + Len(p)
      /\ \A i \in 1 .. Len(w) + Len(p) : v[i] = IF i <= Len(w) THEN w[i] ELSE p[i - Len(w)]
  BY ConcatProperties
<1> HIDE DEF v
<1>3. DOMAIN Underway(t, r, v) = 1 .. N + Len(p) /\ Len(t) + Len(r) + Len(v) = N + Len(p)
  BY <1>1, <1>2 DEF Underway
<1>4. ASSUME NEW i \in 1 .. N
      PROVE  Underway(t, r, v)[i] = Underway(t, r, w)[i]
  <2>1. i \in 1 .. Len(t) + Len(r) + Len(v)
    BY <1>1, <1>3
  <2>2. CASE i <= Len(t) + Len(r)
    BY <2>1, <2>2 DEF Underway
  <2>3. CASE ~(i <= Len(t) + Len(r))
    <3>1. i - Len(t) - Len(r) \in 1 .. Len(w) + Len(p) /\ i - Len(t) - Len(r) <= Len(w) /\ ~(i <= Len(t))
      BY <1>1, <2>3
    <3>2. v[i - Len(t) - Len(r)] = w[i - Len(t) - Len(r)]
      BY <1>2, <3>1
    <3> QED
      BY <2>1, <2>3, <3>1, <3>2 DEF Underway
  <2> QED
    BY <2>2, <2>3
<1>5. ASSUME NEW j \in 1 .. Len(p)
      PROVE  Underway(t, r, v)[N + j] = p[j]
  <2>1. /\ N + j \in 1 .. Len(t) + Len(r) + Len(v) /\ ~(N + j <= Len(t)) /\ ~(N + j <= Len(t) + Len(r))
        /\ N + j - Len(t) - Len(r) = Len(w) + j
    BY <1>1, <1>3
  <2>2. Len(w) + j \in 1 .. Len(w) + Len(p) /\ ~(Len(w) + j <= Len(w)) /\ Len(w) + j - Len(w) = j
    BY <1>1
  <2>3. v[Len(w) + j] = p[j]
    BY <1>2, <2>2
  <2> DEFINE k == N + j
  <2>4. /\ k \in 1 .. Len(t) + Len(r) + Len(v) /\ ~(k <= Len(t)) /\ ~(k <= Len(t) + Len(r))
        /\ k - Len(t) - Len(r) = Len(w) + j
    BY <2>1
  <2> HIDE DEF k
  <2>5. Underway(t, r, v)[k] = v[k - Len(t) - Len(r)]
    BY <2>4 DEF Underway
  <2>6. Underway(t, r, v)[k] = p[j]
    BY <2>3, <2>4, <2>5
  <2> QED
    BY <2>6 DEF k
<1>6. Extends(Underway(t, r, v), Underway(t, r, w), p, N)
  BY <1>3, <1>4, <1>5 DEF Extends
<1> QED
  BY <1>6 DEF v


(* Ground's next telecommand goes behind those underway. *)
LEMMA SendFraming ==
    ASSUME NEW s \in Seq(Packets), NEW n \in Nat, n <= Len(s), NEW p \in Packets, NEW off, Offsets(off, s),
           NEW t \in Seq(Bytes), NEW r \in Seq(Bytes), NEW w \in Seq(Bytes),
           Carries(Underway(t, r, w), s, n, off)
    PROVE  \E x : Offsets(x, Append(s, p)) /\ Carries(Underway(t, r, w \o p), Append(s, p), n, x)
<1> DEFINE m == Len(s)
           g == Append(s, p)
           l == Len(p)
           x == [k \in 1 .. m + 2 |-> IF k = m + 2 THEN off[m + 1] + l ELSE off[k]]
           N == Len(t) + Len(r) + Len(w)
           u == Underway(t, r, w)
           v == Underway(t, r, w \o p)
<1>1. p \in Seq(Bytes) /\ m \in Nat /\ l \in Nat /\ N \in Nat
  BY LenProperties, UplinkAssumption
<1>2. Len(g) = m + 1 /\ (\A k \in 1 .. m : g[k] = s[k]) /\ g[m + 1] = p
  BY AppendProperties
<1>3. /\ off \in [1 .. m + 1 -> Nat] /\ (\A k \in 1 .. m : off[k + 1] = off[k] + Len(s[k]))
      /\ \A j, k \in 1 .. m + 1 : j <= k => off[j] <= off[k]
  BY DEF Offsets
<1>4. /\ DOMAIN u = 1 .. off[m + 1] - off[n + 1]
      /\ \A k \in n + 1 .. m : \A j \in 1 .. Len(s[k]) : u[off[k] - off[n + 1] + j] = s[k][j]
  BY DEF Carries
<1>5. DOMAIN u = 1 .. N
  BY DEF Underway
<1>0. Extends(v, u, p, N)
  BY <1>1, SendUnderway
<1> HIDE DEF u, v, N, g, m
<1>6. /\ DOMAIN v = 1 .. N + l
      /\ \A i \in 1 .. N : v[i] = u[i]
      /\ \A j \in 1 .. l : v[N + j] = p[j]
  BY <1>0 DEF Extends
<1> HIDE DEF l
<1>7. n + 1 \in 1 .. m + 1 /\ m + 1 \in 1 .. m + 1 /\ m + 2 \in 1 .. m + 2
  BY <1>1 DEF m
<1>8. /\ x[m + 2] = off[m + 1] + l /\ \A k \in 1 .. m + 1 : x[k] = off[k] /\ x[k] \in Nat
      /\ x \in [1 .. m + 2 -> Nat]
  BY <1>1, <1>3
<1> HIDE DEF x
<1>9. off[n + 1] \in Nat /\ off[m + 1] \in Nat /\ off[n + 1] <= off[m + 1]
  BY <1>1, <1>3, <1>7
<1>10. N = off[m + 1] - off[n + 1]
  <2>1. off[m + 1] - off[n + 1] \in Nat
    BY <1>9
  <2> QED
    BY <1>1, <1>4, <1>5, <2>1
<1>11. Offsets(x, g)
  <2>1. m + 1 + 1 = m + 2
    BY <1>1
  <2>2. ASSUME NEW k \in 1 .. m + 1
        PROVE  x[k + 1] = x[k] + Len(g[k])
    <3>1. CASE k = m + 1
      BY <1>1, <1>2, <1>7, <1>8, <2>1, <3>1 DEF l
    <3>2. CASE k \in 1 .. m
      <4>1. k + 1 \in 1 .. m + 1
        BY <1>1, <3>2
      <4> QED
        BY <1>2, <1>3, <1>8, <3>2, <4>1
    <3> QED
      BY <1>1, <3>1, <3>2
  <2>3. ASSUME NEW j \in 1 .. m + 2, NEW k \in 1 .. m + 2, j <= k
        PROVE  x[j] <= x[k]
    <3>1. CASE k \in 1 .. m + 1
      <4>1. j \in 1 .. m + 1
        BY <1>1, <2>3, <3>1
      <4> QED
        BY <1>3, <1>8, <2>3, <3>1, <4>1
    <3>2. CASE k = m + 2 /\ j = m + 2
      BY <1>1, <1>8, <1>9, <3>2
    <3>3. CASE k = m + 2 /\ j \in 1 .. m + 1
      <4>1. x[j] <= off[m + 1] /\ x[j] \in Nat
        BY <1>1, <1>3, <1>7, <1>8, <3>3
      <4> QED
        BY <1>1, <1>8, <1>9, <3>3, <4>1
    <3> QED
      BY <1>1, <3>1, <3>2, <3>3
  <2> QED
    BY <1>2, <1>8, <2>1, <2>2, <2>3 DEF Offsets
<1>12. Carries(v, g, n, x)
  <2>1. x[n + 1] = off[n + 1] /\ m + 1 + 1 = m + 2
    BY <1>1, <1>7, <1>8
  <2>2. DOMAIN v = 1 .. x[m + 2] - x[n + 1]
    <3> DEFINE a == off[m + 1]
               z == off[n + 1]
    <3>1. x[m + 2] = a + l /\ x[n + 1] = z /\ a \in Nat /\ z \in Nat /\ N = a - z
      BY <1>8, <1>9, <1>10, <2>1
    <3> HIDE DEF a, z
    <3>2. (a + l) - z = N + l
      BY <1>1, <3>1
    <3> QED
      BY <1>6, <3>1, <3>2
  <2>3. ASSUME NEW k \in n + 1 .. m + 1, NEW j \in 1 .. Len(g[k])
        PROVE  v[x[k] - x[n + 1] + j] = g[k][j]
    <3>1. CASE k = m + 1
      <4>1. x[k] - x[n + 1] = N /\ g[k] = p
        BY <1>2, <1>7, <1>8, <1>10, <2>1, <3>1
      <4> QED
        BY <1>6, <2>3, <4>1 DEF l
    <3>2. CASE k \in n + 1 .. m
      <4>1. k \in 1 .. m /\ k \in 1 .. m + 1 /\ k + 1 \in 1 .. m + 1 /\ n + 1 <= k /\ k + 1 <= m + 1
        BY <1>1, <3>2
      <4>2. g[k] = s[k] /\ x[k] = off[k] /\ off[k] \in Nat /\ off[n + 1] <= off[k]
        BY <1>2, <1>3, <1>7, <1>8, <4>1
      <4>3. off[k + 1] = off[k] + Len(s[k]) /\ off[k + 1] <= off[m + 1] /\ off[k + 1] \in Nat
        BY <1>3, <1>7, <4>1
      <4>4. Len(s[k]) \in Nat
        BY <4>1, ElementOfSeq, LenProperties, UplinkAssumption DEF m
      <4> DEFINE a == off[k]
                 z == off[n + 1]
                 y == off[m + 1]
                 h == Len(s[k])
                 i == a - z + j
      <4>5. j \in 1 .. h
        BY <4>2
      <4>6. a \in Nat /\ z \in Nat /\ y \in Nat /\ h \in Nat /\ z <= a /\ a + h <= y /\ N = y - z
        BY <1>9, <1>10, <4>2, <4>3, <4>4
      <4> HIDE DEF a, z, y, h
      <4>7. i \in 1 .. N
        BY <4>5, <4>6
      <4>8. v[i] = u[i]
        BY <1>6, <4>7
      <4>9. u[i] = s[k][j]
        BY <1>4, <3>2, <4>5 DEF a, z, h
      <4>10. x[k] - x[n + 1] + j = i
        BY <2>1, <4>2 DEF a, z
      <4> QED
        BY <4>2, <4>8, <4>9, <4>10
    <3> QED
      BY <1>1, <3>1, <3>2
  <2> QED
    BY <1>2, <2>1, <2>2, <2>3 DEF Carries
<1>13. \E y : Offsets(y, g) /\ Carries(v, g, n, y)
  BY <1>11, <1>12, Zenon
<1> QED
  BY <1>13 DEF g, v


(* The byte the loop takes is the next one of the telecommand it collects,  *)
(* which is the next one sent.                                              *)
InPlace(t, r, p) ==
    /\ Len(t) < Len(p) /\ Head(r) = p[Len(t) + 1]
    /\ \A i \in 1 .. Len(t) : t[i] = p[i]

LEMMA NextByte ==
    ASSUME WellFormed, NEW s \in Seq(Packets), NEW n \in Nat, n <= Len(s), NEW off, Offsets(off, s),
           NEW t \in Seq(Bytes), NEW r \in Seq(Bytes), NEW w \in Seq(Bytes), r # <<>>,
           Carries(Underway(t, r, w), s, n, off), t # <<>> => n < Len(s) /\ Len(t) < Len(s[n + 1])
    PROVE  n < Len(s) /\ InPlace(t, r, s[n + 1])
<1> DEFINE m == Len(s)
           u == Underway(t, r, w)
           p == s[n + 1]
           i == Len(t) + 1
<1>1. m \in Nat /\ Len(t) \in Nat /\ Len(r) \in Nat /\ Len(w) \in Nat /\ Len(r) # 0 /\ Head(r) = r[1]
  BY LenProperties, HeadTailProperties, EmptySeq
<1>2. i \in 1 .. Len(t) + Len(r) + Len(w) /\ ~(i <= Len(t)) /\ i <= Len(t) + Len(r) /\ i - Len(t) = 1
  BY <1>1
<1>3. DOMAIN u = 1 .. Len(t) + Len(r) + Len(w) /\ u[i] = Head(r)
      /\ \A j \in 1 .. Len(t) : u[j] = t[j]
  <2>1. \A j \in 1 .. Len(t) : j \in 1 .. Len(t) + Len(r) + Len(w) /\ j <= Len(t)
    BY <1>1
  <2> HIDE DEF i
  <2> QED
    BY <1>1, <1>2, <2>1 DEF Underway
<1>4. /\ DOMAIN u = 1 .. off[m + 1] - off[n + 1]
      /\ \A k \in n + 1 .. m : \A j \in 1 .. Len(s[k]) : u[off[k] - off[n + 1] + j] = s[k][j]
  BY DEF Carries
<1>5. off \in [1 .. m + 1 -> Nat]
  BY DEF Offsets
<1> HIDE DEF u
<1>6. n < m
  <2> SUFFICES ASSUME n = m PROVE FALSE
    BY <1>1 DEF m
  <2>1. m + 1 \in 1 .. m + 1
    BY <1>1
  <2>2. off[m + 1] - off[n + 1] = 0
    BY <1>5, <2>1
  <2>3. i \in 1 .. 0
    BY <1>2, <1>3, <1>4, <2>2
  <2> QED
    BY <2>3
<1>7. n + 1 \in 1 .. m /\ n + 1 \in n + 1 .. m /\ n + 1 \in 1 .. m + 1
  BY <1>1, <1>6
<1>8. p \in Packets /\ p \in Seq(Bytes)
  BY <1>7, ElementOfSeq, UplinkAssumption
<1>9. Len(p) \in Nat /\ Header < Len(p)
  BY <1>8, LenProperties DEF WellFormed
<1>10. Len(t) < Len(p)
  <2>1. CASE t = <<>>
    BY <1>9, <2>1, UplinkAssumption
  <2>2. CASE t # <<>>
    BY <2>2
  <2> QED
    BY <2>1, <2>2
<1>11. \A j \in 1 .. Len(p) : u[j] = p[j]
  <2> TAKE j \in 1 .. Len(p)
  <2>1. u[off[n + 1] - off[n + 1] + j] = p[j]
    BY <1>4, <1>7
  <2>2. off[n + 1] \in Nat
    BY <1>5, <1>7
  <2>3. off[n + 1] - off[n + 1] + j = j
    BY <1>9, <2>2
  <2> QED
    BY <2>1, <2>3
<1>12. i \in 1 .. Len(p) /\ \A j \in 1 .. Len(t) : j \in 1 .. Len(p)
  BY <1>1, <1>9, <1>10
<1>13. InPlace(t, r, p)
  <2> HIDE DEF p
  <2> QED
    BY <1>3, <1>10, <1>11, <1>12 DEF InPlace
<1> QED
  BY <1>6, <1>13

(* A complete telecommand leaves the buffer: the next ones are underway. *)
LEMMA DispatchFraming ==
    ASSUME NEW s \in Seq(Packets), NEW n \in Nat, n < Len(s), NEW off, Offsets(off, s),
           NEW t \in Seq(Bytes), NEW r \in Seq(Bytes), NEW w \in Seq(Bytes),
           Len(t) = Len(s[n + 1]), Carries(Underway(t, r, w), s, n, off)
    PROVE  Carries(Underway(<<>>, r, w), s, n + 1, off)
<1> DEFINE m == Len(s)
           u == Underway(t, r, w)
           v == Underway(<<>>, r, w)
           M == Len(r) + Len(w)
           l == Len(t)
           a == off[n + 1]
           c == off[n + 2]
           y == off[m + 1]
<1>1. m \in Nat /\ l \in Nat /\ Len(r) \in Nat /\ Len(w) \in Nat /\ M \in Nat
  BY LenProperties
<1>2. DOMAIN v = 1 .. M /\ \A i \in 1 .. M : v[i] = u[l + i]
  BY EmptyBuffer
<1>3. DOMAIN u = 1 .. l + M
  <2>1. DOMAIN u = 1 .. Len(t) + Len(r) + Len(w)
    BY DEF Underway
  <2> DEFINE i == Len(t)
             j == Len(r)
             k == Len(w)
  <2>2. i \in Nat /\ j \in Nat /\ k \in Nat
    BY <1>1
  <2>3. DOMAIN u = 1 .. i + j + k
    BY <2>1
  <2> HIDE DEF i, j, k
  <2>4. i + j + k = i + (j + k)
    BY <2>2
  <2>5. DOMAIN u = 1 .. i + (j + k)
    BY <2>3, <2>4
  <2> QED
    BY <2>5 DEF i, j, k
<1>4. /\ DOMAIN u = 1 .. y - a
      /\ \A k \in n + 1 .. m : \A j \in 1 .. Len(s[k]) : u[off[k] - a + j] = s[k][j]
  BY DEF Carries
<1>5. /\ off \in [1 .. m + 1 -> Nat] /\ (\A k \in 1 .. m : off[k + 1] = off[k] + Len(s[k]))
      /\ \A j, k \in 1 .. m + 1 : j <= k => off[j] <= off[k]
  BY DEF Offsets
<1>6. /\ n + 1 \in 1 .. m /\ n + 1 \in 1 .. m + 1 /\ n + 2 \in 1 .. m + 1 /\ m + 1 \in 1 .. m + 1
      /\ n + 1 + 1 = n + 2 /\ n + 2 <= m + 1
  BY <1>1
<1>7. a \in Nat /\ c \in Nat /\ y \in Nat /\ c = a + l /\ c <= y
  BY <1>5, <1>6
<1> HIDE DEF m, u, v, M, l, a, c, y
<1>8. y - c = M
  <2>1. y - a \in Nat /\ l + M \in Nat
    BY <1>1, <1>7
  <2>2. y - a = l + M
    BY <1>3, <1>4, <2>1
  <2> QED
    BY <1>1, <1>7, <2>2
<1>9. ASSUME NEW k \in n + 2 .. m, NEW j \in 1 .. Len(s[k])
      PROVE  v[off[k] - c + j] = s[k][j]
  <2>1. /\ k \in n + 1 .. m /\ k \in 1 .. m /\ k \in 1 .. m + 1 /\ k + 1 \in 1 .. m + 1
        /\ n + 2 <= k /\ k + 1 <= m + 1
    BY <1>1, <1>9
  <2>2. s[k] \in Seq(Bytes)
    BY <2>1, ElementOfSeq, UplinkAssumption DEF m
  <2> DEFINE h == Len(s[k])
             o == off[k]
  <2>3. h \in Nat
    BY <2>2, LenProperties
  <2>4. o \in Nat /\ c <= o /\ o + h <= y
    BY <1>5, <1>6, <2>1 DEF c, y
  <2>5. u[o - a + j] = s[k][j] /\ j \in 1 .. h
    BY <1>4, <1>9, <2>1
  <2> HIDE DEF h, o
  <2>6. o - c + j \in 1 .. M /\ l + (o - c + j) = o - a + j
    BY <1>1, <1>7, <1>8, <2>3, <2>4, <2>5
  <2>7. v[o - c + j] = u[o - a + j]
    BY <1>2, <2>6
  <2> QED
    BY <2>5, <2>7 DEF o
<1>10. Carries(v, s, n + 1, off)
  <2>1. n + 1 + 1 = n + 2
    BY <1>1
  <2> QED
    BY <1>2, <1>8, <1>9, <2>1 DEF Carries, c, y, m
<1> QED
  BY <1>10 DEF v


(* Ground sends one more telecommand. *)
LEMMA SendStep ==
    ASSUME FramingInv, NEW p \in Packets, Send(p)
    PROVE  sent' \in Seq(Packets) /\ (Clean' => Framing')
<1> DEFINE s == sent
           g == Append(s, p)
           n == Len(dispatched)
<1>1. /\ s \in Seq(Packets) /\ sent' = g /\ wire' = wire \o p
      /\ UNCHANGED <<rx_ring, drops, tc, want, dispatched>>
  BY DEF Send, FramingInv
<1>2. /\ g \in Seq(Packets) /\ Len(g) = Len(s) + 1 /\ Len(s) \in Nat
      /\ \A k \in 1 .. Len(s) : g[k] = s[k]
  BY <1>1, AppendProperties, LenProperties
<1>3. tc \in Seq(Bytes) /\ rx_ring \in Seq(Bytes) /\ wire \in Seq(Bytes)
  BY DEF FramingInv, UInv, UTypeOK
<1> HIDE DEF g
<1> SUFFICES ASSUME Clean' PROVE Framing'
  BY <1>1, <1>2
<1>4. Clean
  <2>1. DOMAIN s = 1 .. Len(s) /\ DOMAIN g = 1 .. Len(s) + 1
    BY <1>1, <1>2, LenProperties
  <2>2. drops = 0
    BY <1>1 DEF Clean
  <2>3. ASSUME NEW i \in DOMAIN s PROVE ~ Oversize(Len(s[i]))
    <3>1. i \in DOMAIN g /\ g[i] = s[i]
      BY <1>2, <2>1
    <3>2. ~ Oversize(Len(g[i]))
      BY <1>1, <3>1 DEF Clean, Oversize
    <3> QED
      BY <3>1, <3>2
  <2> QED
    BY <2>2, <2>3 DEF Clean
<1>5. Framing
  BY <1>4 DEF FramingInv
<1>6. n \in Nat /\ n <= Len(s) /\ dispatched \in Seq(Seq(Bytes))
  BY <1>5, LenProperties DEF Framing, Delivered
<1>7. Delivered(dispatched, g)
  <2>1. \A k \in 1 .. n : k \in 1 .. Len(s) /\ dispatched[k] = s[k]
    BY <1>2, <1>5, <1>6 DEF Framing, Delivered
  <2> QED
    BY <1>2, <1>6, <2>1 DEF Delivered
<1>8. Collected(tc, want, g, n)
  <2>1. ASSUME tc # <<>> PROVE n < Len(g) /\ Len(tc) < Len(g[n + 1])
    <3>1. n < Len(s) /\ Len(tc) < Len(s[n + 1])
      BY <1>5, <2>1 DEF Framing, Collected
    <3>2. n + 1 \in 1 .. Len(s)
      BY <1>2, <1>6, <3>1
    <3> QED
      BY <1>2, <1>6, <3>1, <3>2
  <2>2. Header <= Len(tc) => want = TotalSize(tc[Header])
    BY <1>5 DEF Framing, Collected
  <2> QED
    BY <2>1, <2>2 DEF Collected
<1>9. \E x : Offsets(x, g) /\ Carries(Underway(tc, rx_ring, wire \o p), g, n, x)
  <2>1. PICK off : Offsets(off, s) /\ Carries(Underway(tc, rx_ring, wire), s, n, off)
    BY <1>5, Zenon DEF Framing
  <2> HIDE DEF n
  <2> QED
    BY <1>1, <1>3, <1>6, <2>1, SendFraming DEF g
<1> QED
  BY <1>1, <1>7, <1>8, <1>9, Zenon DEF Framing

(* The interrupt: nothing was dropped, so the byte found room. *)
LEMMA IsrStep ==
    ASSUME FramingInv, UartIsr
    PROVE  sent' \in Seq(Packets) /\ (Clean' => Framing')
<1>1. /\ sent \in Seq(Packets) /\ tc \in Seq(Bytes) /\ rx_ring \in Seq(Bytes) /\ wire \in Seq(Bytes)
      /\ drops \in Nat /\ wire # <<>> /\ wire' = Tail(wire)
      /\ UNCHANGED <<sent, tc, want, dispatched>>
  BY DEF FramingInv, UInv, UTypeOK, UartIsr
<1> SUFFICES ASSUME Clean' PROVE Framing'
  BY <1>1
<1>2. drops' = 0 /\ drops' # drops + 1
  BY <1>1 DEF Clean
<1>3. rx_ring' = Append(rx_ring, Head(wire)) /\ drops' = drops
  BY <1>2 DEF UartIsr
<1>4. Clean
  BY <1>1, <1>2, <1>3 DEF Clean, Oversize
<1>5. Underway(tc', rx_ring', wire') = Underway(tc, rx_ring, wire)
  BY <1>1, <1>3, MoveToRing
<1> QED
  BY <1>1, <1>4, <1>5, Zenon DEF FramingInv, Framing

(* The loop takes a byte: which one it is, and that it is no oversize one. *)
LEMMA TakenByte ==
    ASSUME WellFormed, FramingInv, Clean, NEW b \in Bytes, Take(b)
    PROVE  /\ Len(dispatched) < Len(sent) /\ InPlace(tc, rx_ring, sent[Len(dispatched) + 1])
           /\ sent[Len(dispatched) + 1] \in Packets /\ Len(sent[Len(dispatched) + 1]) <= BufSize
<1> DEFINE n == Len(dispatched)
<1>1. Framing /\ sent \in Seq(Packets)
  BY DEF FramingInv
<1>2. tc \in Seq(Bytes) /\ rx_ring \in Seq(Bytes) /\ wire \in Seq(Bytes) /\ rx_ring # <<>>
  BY DEF FramingInv, UInv, UTypeOK, Take
<1>3. n \in Nat /\ n <= Len(sent)
  BY <1>1, LenProperties DEF Framing, Delivered
<1>4. PICK off : Offsets(off, sent) /\ Carries(Underway(tc, rx_ring, wire), sent, n, off)
  BY <1>1, Zenon DEF Framing
<1>5. tc # <<>> => n < Len(sent) /\ Len(tc) < Len(sent[n + 1])
  BY <1>1 DEF Framing, Collected
<1> HIDE DEF n
<1>6. n < Len(sent) /\ InPlace(tc, rx_ring, sent[n + 1])
  BY <1>1, <1>2, <1>3, <1>4, <1>5, NextByte
<1>7. n + 1 \in DOMAIN sent /\ sent[n + 1] \in Packets
  BY <1>1, <1>3, <1>6, LenProperties, ElementOfSeq
<1>8. sent[n + 1] \in Seq(Bytes) /\ Len(sent[n + 1]) \in Nat
  BY <1>7, LenProperties, UplinkAssumption
<1>9. Len(sent[n + 1]) <= BufSize
  BY <1>7, <1>8, UplinkAssumption DEF Clean, Oversize
<1> QED
  BY <1>6, <1>7, <1>9 DEF n


(* The size the loop works with is that of the telecommand it collects: the *)
(* oversize check never fires and the frame ends where the telecommand does. *)
LEMMA SizeKnown ==
    ASSUME WellFormed, FramingInv, Clean, NEW b \in Bytes, Take(b), NEW p \in Packets,
           InPlace(tc, rx_ring, p), Len(p) <= BufSize
    PROVE  /\ ~ OutOfSync(b) /\ (Complete(b) <=> Len(tc) + 1 = Len(p))
           /\ Header <= Len(tc) + 1 => WantAfter(b) = Len(p)
<1>1. Framing /\ Collecting /\ tc \in Seq(Bytes) /\ want \in Nat
  BY DEF FramingInv, UInv, UTypeOK
<1>2. Len(tc) \in Nat /\ p \in Seq(Bytes) /\ Len(p) \in Nat /\ Header \in Nat \ {0}
  BY <1>1, LenProperties, UplinkAssumption
<1>3. Header < Len(p) /\ Len(p) = TotalSize(p[Header])
  BY DEF WellFormed
<1>4. b = p[Len(tc) + 1] /\ Len(tc) < Len(p) /\ \A i \in 1 .. Len(tc) : tc[i] = p[i]
  BY DEF InPlace, Take
<1>5. Header <= Len(tc) => want = TotalSize(tc[Header])
  BY <1>1 DEF Framing, Collected
<1>6. CASE Len(tc) + 1 < Header
  <2>1. WantAfter(b) = want /\ want = 0
    BY <1>1, <1>2, <1>6 DEF WantAfter, Collecting
  <2> QED
    BY <1>2, <1>3, <1>6, <2>1 DEF OutOfSync, Complete
<1>7. CASE Len(tc) + 1 = Header
  <2>1. WantAfter(b) = Len(p)
    BY <1>3, <1>4, <1>7 DEF WantAfter
  <2> QED
    BY <1>2, <1>3, <1>7, <2>1, UplinkAssumption DEF OutOfSync, Complete, Oversize
<1>8. CASE Header < Len(tc) + 1
  <2>1. Header \in 1 .. Len(tc) /\ Header <= Len(tc) /\ Len(tc) + 1 # Header
    BY <1>2, <1>8
  <2>2. tc[Header] = p[Header]
    BY <1>4, <2>1
  <2>3. WantAfter(b) = Len(p)
    BY <1>3, <1>5, <2>1, <2>2 DEF WantAfter
  <2> QED
    BY <1>2, <1>3, <2>1, <2>3 DEF OutOfSync, Complete
<1> QED
  BY <1>2, <1>6, <1>7, <1>8

(* The telecommand is complete and goes to the router. *)
LEMMA DispatchStep ==
    ASSUME WellFormed, FramingInv, Clean, NEW b \in Bytes, Dispatch(b)
    PROVE  Framing'
<1> DEFINE n == Len(dispatched)
           p == sent[n + 1]
           t == Append(tc, b)
           r == Tail(rx_ring)
<1>1. /\ Framing /\ sent \in Seq(Packets) /\ Take(b) /\ b = Head(rx_ring) /\ Complete(b)
      /\ tc \in Seq(Bytes) /\ rx_ring \in Seq(Bytes) /\ wire \in Seq(Bytes) /\ rx_ring # <<>>
  BY DEF FramingInv, UInv, UTypeOK, Dispatch, Take
<1>2. /\ sent' = sent /\ wire' = wire /\ rx_ring' = r /\ tc' = <<>> /\ want' = 0
      /\ dispatched' = Append(dispatched, t)
  BY DEF Dispatch, Take
<1>3. n < Len(sent) /\ InPlace(tc, rx_ring, p) /\ p \in Packets /\ Len(p) <= BufSize
  BY <1>1, TakenByte
<1>4. n \in Nat /\ dispatched \in Seq(Seq(Bytes)) /\ \A k \in 1 .. n : dispatched[k] = sent[k]
  BY <1>1, LenProperties DEF Framing, Delivered
<1>5. p \in Seq(Bytes) /\ Len(p) \in Nat /\ Len(tc) \in Nat /\ Len(sent) \in Nat
  BY <1>1, <1>3, LenProperties, UplinkAssumption
<1>6. /\ t \in Seq(Bytes) /\ Len(t) = Len(tc) + 1 /\ t[Len(tc) + 1] = b
      /\ \A i \in 1 .. Len(tc) : t[i] = tc[i]
  BY <1>1, AppendProperties
<1>7. r \in Seq(Bytes)
  BY <1>1, HeadTailProperties
<1> HIDE DEF p, t, r
<1>8. Len(tc) + 1 = Len(p)
  BY <1>1, <1>3, SizeKnown
<1>9. t = p
  <2>1. ASSUME NEW i \in 1 .. Len(p) PROVE t[i] = p[i]
    <3>1. CASE i = Len(tc) + 1
      BY <1>1, <1>3, <1>6, <3>1 DEF InPlace
    <3>2. CASE i \in 1 .. Len(tc)
      BY <1>3, <1>6, <3>2 DEF InPlace
    <3> QED
      BY <1>5, <1>8, <3>1, <3>2
  <2> QED
    BY <1>5, <1>6, <1>8, <2>1, SeqEqual
<1>10. Underway(t, r, wire) = Underway(tc, rx_ring, wire)
  BY <1>1, MoveToBuffer DEF t, r
<1>11. PICK off : Offsets(off, sent) /\ Carries(Underway(tc, rx_ring, wire), sent, n, off)
  BY <1>1, Zenon DEF Framing
<1> DEFINE d == Append(dispatched, t)
<1>12. /\ d \in Seq(Seq(Bytes)) /\ Len(d) = n + 1 /\ d[n + 1] = t
       /\ \A k \in 1 .. n : d[k] = dispatched[k]
  BY <1>4, <1>6, AppendProperties
<1> HIDE DEF d, n
<1>13. Carries(Underway(<<>>, r, wire), sent, n + 1, off)
  <2>1. Len(t) = Len(sent[n + 1]) /\ Carries(Underway(t, r, wire), sent, n, off)
    BY <1>9, <1>10, <1>11 DEF p
  <2> QED
    BY <1>1, <1>3, <1>4, <1>6, <1>7, <1>11, <2>1, DispatchFraming
<1>14. Delivered(d, sent)
  <2>1. ASSUME NEW k \in 1 .. n + 1 PROVE d[k] = sent[k]
    <3>1. CASE k = n + 1
      BY <1>9, <1>12, <3>1 DEF p
    <3>2. CASE k \in 1 .. n
      BY <1>4, <1>12, <3>2
    <3> QED
      BY <1>4, <3>1, <3>2
  <2>2. n + 1 <= Len(sent)
    BY <1>3, <1>4, <1>5
  <2> QED
    BY <1>12, <2>1, <2>2 DEF Delivered
<1>15. Collected(<<>>, 0, sent, n + 1)
  <2>1. Len(<<>>) = 0 /\ ~(Header <= 0)
    BY UplinkAssumption
  <2> QED
    BY <2>1 DEF Collected
<1>16. /\ Delivered(dispatched', sent') /\ Collected(tc', want', sent', Len(dispatched'))
       /\ Offsets(off, sent') /\ Carries(Underway(tc', rx_ring', wire'), sent', Len(dispatched'), off)
  BY <1>2, <1>11, <1>12, <1>13, <1>14, <1>15 DEF d
<1> QED
  BY <1>16, Zenon DEF Framing

(* The telecommand is not complete: one byte more of it is in the buffer. *)
LEMMA CollectStep ==
    ASSUME WellFormed, FramingInv, Clean, NEW b \in Bytes, Collect(b)
    PROVE  Framing'
<1> DEFINE n == Len(dispatched)
           p == sent[n + 1]
           t == Append(tc, b)
<1>1. /\ Framing /\ sent \in Seq(Packets) /\ Take(b) /\ b = Head(rx_ring) /\ ~ Complete(b)
      /\ tc \in Seq(Bytes) /\ rx_ring \in Seq(Bytes) /\ wire \in Seq(Bytes) /\ rx_ring # <<>>
  BY DEF FramingInv, UInv, UTypeOK, Collect, Take
<1>2. /\ sent' = sent /\ wire' = wire /\ rx_ring' = Tail(rx_ring) /\ tc' = t /\ want' = WantAfter(b)
      /\ dispatched' = dispatched
  BY DEF Collect, Take
<1>3. n < Len(sent) /\ InPlace(tc, rx_ring, p) /\ p \in Packets /\ Len(p) <= BufSize
  BY <1>1, TakenByte
<1>4. p \in Seq(Bytes) /\ Len(p) \in Nat /\ Len(tc) \in Nat /\ Header \in Nat \ {0}
  BY <1>1, <1>3, LenProperties, UplinkAssumption
<1>5. /\ Len(t) = Len(tc) + 1 /\ t[Len(tc) + 1] = b
      /\ \A i \in 1 .. Len(tc) : t[i] = tc[i]
  BY <1>1, AppendProperties
<1>6. Underway(t, Tail(rx_ring), wire) = Underway(tc, rx_ring, wire)
  BY <1>1, MoveToBuffer
<1> HIDE DEF p, t
<1>7. Len(tc) + 1 # Len(p) /\ (Header <= Len(tc) + 1 => WantAfter(b) = Len(p))
  BY <1>1, <1>3, SizeKnown
<1>8. Len(t) < Len(p) /\ Len(tc) < Len(p)
  BY <1>3, <1>4, <1>5, <1>7 DEF InPlace
<1>9. Header <= Len(t) => WantAfter(b) = TotalSize(t[Header])
  <2> SUFFICES ASSUME Header <= Len(t) PROVE WantAfter(b) = TotalSize(t[Header])
    OBVIOUS
  <2>1. WantAfter(b) = TotalSize(p[Header])
    BY <1>3, <1>5, <1>7 DEF WellFormed
  <2>2. t[Header] = p[Header]
    <3>1. CASE Header = Len(tc) + 1
      BY <1>1, <1>3, <1>5, <3>1 DEF InPlace
    <3>2. CASE Header \in 1 .. Len(tc)
      BY <1>3, <1>5, <3>2 DEF InPlace
    <3> QED
      BY <1>4, <1>5, <3>1, <3>2
  <2> QED
    BY <2>1, <2>2
<1>10. Collected(t, WantAfter(b), sent, n)
  BY <1>3, <1>8, <1>9 DEF Collected, p
<1>11. /\ Delivered(dispatched', sent') /\ Collected(tc', want', sent', Len(dispatched'))
       /\ Underway(tc', rx_ring', wire') = Underway(tc, rx_ring, wire)
  BY <1>1, <1>2, <1>6, <1>10 DEF Framing
<1> QED
  BY <1>1, <1>2, <1>11, Zenon DEF Framing

(* Every step keeps the framing exact. *)
LEMMA FramingStep ==
    ASSUME WellFormed, FramingInv, [UNext]_uvars
    PROVE  FramingInv'
<1>1. UInv'
  BY UInvStep DEF FramingInv
<1> SUFFICES sent' \in Seq(Packets) /\ (Clean' => Framing')
  BY <1>1 DEF FramingInv
<1>2. CASE UNCHANGED uvars
  BY <1>2 DEF uvars, FramingInv, Clean, Oversize, Framing
<1>3. ASSUME NEW p \in Packets, Send(p) PROVE sent' \in Seq(Packets) /\ (Clean' => Framing')
  BY <1>3, SendStep
<1>4. CASE UartIsr
  BY <1>4, IsrStep
<1>5. ASSUME NEW b \in Bytes, Take(b)
      PROVE  sent' \in Seq(Packets) /\ (Clean' => Clean)
  BY <1>5 DEF Take, FramingInv, Clean, Oversize
<1>6. ASSUME NEW b \in Bytes, Resync(b) PROVE sent' \in Seq(Packets) /\ (Clean' => Framing')
  <2>1. Take(b) /\ OutOfSync(b)
    BY <1>6 DEF Resync
  <2>2. ~ Clean
    BY <1>6, <2>1, TakenByte, SizeKnown
  <2> QED
    BY <1>5, <2>1, <2>2
<1>7. ASSUME NEW b \in Bytes, Dispatch(b) PROVE sent' \in Seq(Packets) /\ (Clean' => Framing')
  BY <1>5, <1>7, DispatchStep DEF Dispatch
<1>8. ASSUME NEW b \in Bytes, Collect(b) PROVE sent' \in Seq(Packets) /\ (Clean' => Framing')
  BY <1>5, <1>8, CollectStep DEF Collect
<1>9. CASE Idle
  BY <1>2, <1>9 DEF Idle
<1> QED
  BY <1>2, <1>3, <1>4, <1>6, <1>7, <1>8, <1>9 DEF UNext, Loop

(* Delimiting by the announced length is exact: if every telecommand ground *)
(* sends announces its own size, then as long as the interrupt dropped no   *)
(* byte and nothing sent exceeds TC_BUF_SIZE, what the main loop hands to   *)
(* the router is what was sent, whole, in order and once each - for every   *)
(* ring size and every way the bytes of several telecommands meet in it.    *)
THEOREM DelimitingIsExact ==
    ASSUME WellFormed
    PROVE  USpec => []FramedInOrder
<1>1. UInit => FramingInv
  <2> SUFFICES ASSUME UInit PROVE FramingInv
    OBVIOUS
  <2> DEFINE e == <<>>
             off == [k \in 1 .. 1 |-> 0]
  <2>1. UInv
    BY UplinkAssumption DEF UInit, UInv, UTypeOK, BufferSafe, Collecting
  <2>2. /\ sent = e /\ wire = e /\ rx_ring = e /\ tc = e /\ want = 0 /\ dispatched = e
    BY DEF UInit
  <2>3. Len(e) = 0 /\ e \in Seq(Packets) /\ e \in Seq(Seq(Bytes)) /\ ~(Header <= 0)
    BY UplinkAssumption
  <2>4. off \in [1 .. 1 -> Nat] /\ off[1] = 0
    OBVIOUS
  <2> HIDE DEF e, off
  <2>5. Delivered(e, e)
    BY <2>3 DEF Delivered
  <2>6. Collected(e, 0, e, Len(e))
    BY <2>3 DEF Collected, e
  <2>7. Offsets(off, e)
    BY <2>3, <2>4 DEF Offsets
  <2>8. Carries(Underway(e, e, e), e, Len(e), off)
    <3>1. DOMAIN Underway(e, e, e) = 1 .. 0
      BY <2>3 DEF Underway
    <3>2. off[Len(e) + 1] - off[Len(e) + 1] = 0
      BY <2>3, <2>4
    <3> QED
      BY <2>3, <3>1, <3>2 DEF Carries
  <2>9. Framing
    BY <2>2, <2>5, <2>6, <2>7, <2>8, Zenon DEF Framing
  <2> QED
    BY <2>1, <2>2, <2>3, <2>9 DEF FramingInv
<1>2. FramingInv /\ [UNext]_uvars => FramingInv'
  BY FramingStep
<1>3. FramingInv => FramedInOrder
  <2> SUFFICES ASSUME FramingInv, Clean PROVE IsPrefix(dispatched, sent)
    BY DEF FramedInOrder
  <2>1. Delivered(dispatched, sent) /\ sent \in Seq(Packets)
    BY DEF FramingInv, Framing
  <2>2. dispatched \in Seq(Seq(Bytes)) /\ sent \in Seq(Seq(Bytes)) /\ Len(dispatched) <= Len(sent)
    BY <2>1, UplinkAssumption DEF Delivered
  <2>3. \A k \in 1 .. Len(dispatched) : dispatched[k] = sent[k]
    BY <2>1 DEF Delivered
  <2> QED
    BY <2>2, <2>3 DEF IsPrefix
<1> QED
  BY <1>1, <1>2, <1>3, PTL DEF USpec

----------------------------------------------------------------------------
(* The packet store *)

Packet == [n : Nat, len : Nat, time : Nat]
StoreType ==
    [slots : [0 .. Capacity - 1 -> Packet], head : 0 .. Capacity - 1, count : 0 .. Capacity,
     enabled : BOOLEAN, active : BOOLEAN, end : Nat, cursor : Nat]

(* The packet at an offset from the head. *)
PacketAt(s, i) == s.slots[Slot(s, i)]

(* The ring s is the tail of the log l; both are in the order of time, up to *)
(* now, and every packet fits the output buffer it came from.               *)
Keeps(s, l, t) ==
    /\ s \in StoreType /\ l \in Seq(Packet) /\ s.count <= Len(l)
    /\ \A i \in 0 .. s.count - 1 : PacketAt(s, i) = l[Len(l) - s.count + 1 + i]
    /\ \A i, j \in 1 .. Len(l) : i <= j => l[i].time <= l[j].time
    /\ \A i \in 1 .. Len(l) : l[i].time <= t /\ l[i].len <= OutCap

(* The packets w are those from offset f of the ring s up to the first that  *)
(* is later than to.                                                        *)
Spans(s, w, f, to) ==
    /\ f + Len(w) <= s.count
    /\ \A i \in 1 .. Len(w) : w[i] = PacketAt(s, f + i - 1)
    /\ \A i \in f .. s.count - 1 : PacketAt(s, i).time <= to <=> i < f + Len(w)

(* A retrieval of w has replayed r. *)
Replaying(s, w, r) == \E f \in 0 .. s.count : s.cursor = f + Len(r) /\ Spans(s, w, f, s.end)

PInv ==
    /\ Keeps(st, log, now) /\ now \in Times /\ emitted \in Nat
    /\ window \in Seq(Packet) /\ replayed \in Seq(Packet) /\ Len(replayed) <= Len(window)
    /\ \A i \in 1 .. Len(replayed) : replayed[i] = window[i]
    /\ st.active => Replaying(st, window, replayed)
    /\ ~st.active => Len(replayed) = Len(window)


----------------------------------------------------------------------------
(* Offsets in the ring *)

LEMMA RingIndex ==
    ASSUME NEW C \in Nat \ {0}, NEW h \in 0 .. C - 1, NEW k \in 0 .. C
    PROVE  /\ (h + k) % C = IF h + k < C THEN h + k ELSE h + k - C
           /\ (h + k) % C \in 0 .. C - 1
<1>1. CASE h + k < C
  <2>1. (h + k) % C = h + k
    BY <1>1, ModSmall
  <2> QED
    BY <1>1, <2>1
<1>2. CASE ~ (h + k < C)
  <2> DEFINE x == h + k - C
  <2>1. x \in Int /\ 0 <= x /\ x < C /\ x + C = h + k
    BY <1>2
  <2> HIDE DEF x
  <2>2. (x + C) % C = x
    BY <2>1, ModSmall
  <2>3. (h + k) % C = x
    BY <2>1, <2>2
  <2> QED
    BY <1>2, <2>1, <2>3 DEF x
<1> QED
  BY <1>1, <1>2

(* Moving the head moves the offsets; two offsets are two slots. *)
LEMMA RingMoves ==
    ASSUME NEW C \in Nat \ {0}, NEW h \in 0 .. C - 1, NEW k \in 0 .. C, NEW i \in 0 .. C, k + i <= C
    PROVE  (((h + k) % C) + i) % C = (h + (k + i)) % C
<1> DEFINE g == (h + k) % C
<1>1. g \in 0 .. C - 1 /\ g = IF h + k < C THEN h + k ELSE h + k - C
  BY RingIndex
<1> HIDE DEF g
<1>2. (g + i) % C = IF g + i < C THEN g + i ELSE g + i - C
  BY <1>1, RingIndex
<1>3. k + i \in 0 .. C
  OBVIOUS
<1> DEFINE m == k + i
<1>4. (h + m) % C = IF h + m < C THEN h + m ELSE h + m - C
  BY <1>3, RingIndex
<1>5. (g + i) % C = (h + m) % C
  BY <1>1, <1>2, <1>4
<1> QED
  BY <1>5 DEF g

LEMMA RingApart ==
    ASSUME NEW C \in Nat \ {0}, NEW h \in 0 .. C - 1, NEW i \in 0 .. C - 1, NEW j \in 0 .. C - 1, i # j
    PROVE  (h + i) % C # (h + j) % C
<1>1. i \in 0 .. C /\ j \in 0 .. C
  OBVIOUS
<1>2. /\ (h + i) % C = IF h + i < C THEN h + i ELSE h + i - C
      /\ (h + j) % C = IF h + j < C THEN h + j ELSE h + j - C
  BY <1>1, RingIndex
<1> QED
  BY <1>2

LEMMA CapacityType == Capacity \in Nat \ {0}
BY StoreAssumption

LEMMA StoreFields ==
    ASSUME NEW s \in StoreType
    PROVE  /\ s.slots \in [0 .. Capacity - 1 -> Packet] /\ s.head \in 0 .. Capacity - 1
           /\ s.count \in 0 .. Capacity /\ s.count \in Nat
           /\ \A i \in 0 .. Capacity : Slot(s, i) \in 0 .. Capacity - 1 /\ PacketAt(s, i) \in Packet
<1>1. s.slots \in [0 .. Capacity - 1 -> Packet] /\ s.head \in 0 .. Capacity - 1 /\ s.count \in 0 .. Capacity
  BY DEF StoreType
<1>2. s.count \in Nat
  BY <1>1, CapacityType
<1>3. ASSUME NEW i \in 0 .. Capacity
      PROVE  Slot(s, i) \in 0 .. Capacity - 1
  BY <1>1, CapacityType, RingIndex DEF Slot
<1> QED
  BY <1>1, <1>2, <1>3 DEF PacketAt

----------------------------------------------------------------------------
(* Storing *)

(* Of a store whose head moved by k: the packets from offset k on. *)
Behead(s, k) == [s EXCEPT !.head = Slot(s, k), !.count = @ - k]

LEMMA BeheadKeeps ==
    ASSUME NEW s, NEW l, NEW t, Keeps(s, l, t), NEW k \in 0 .. s.count
    PROVE  /\ Keeps(Behead(s, k), l, t)
           /\ Behead(s, k).count = s.count - k
           /\ Behead(s, k).active = s.active /\ Behead(s, k).slots = s.slots
<1> DEFINE C == Capacity
           r == Behead(s, k)
           c == s.count
           h == s.head
<1>1. s \in StoreType /\ l \in Seq(Packet) /\ c <= Len(l)
  BY DEF Keeps
<1>2. c \in 0 .. C /\ h \in 0 .. C - 1 /\ C \in Nat \ {0} /\ c \in Nat /\ k \in 0 .. C
  BY <1>1, StoreFields, CapacityType
<1>3. Slot(s, k) \in 0 .. C - 1 /\ c - k \in 0 .. C
  <2>1. Slot(s, k) \in 0 .. C - 1
    BY <1>1, <1>2, StoreFields
  <2>2. c - k \in 0 .. C
    <3> HIDE DEF c
    <3> QED
      BY <1>2 DEF c
  <2> QED
    BY <2>1, <2>2
<1>4. r \in StoreType /\ r.head = Slot(s, k) /\ r.count = c - k /\ r.slots = s.slots /\ r.active = s.active
  BY <1>1, <1>3 DEF Behead, StoreType
<1> HIDE DEF r
<1>5. Len(l) \in Nat
  BY <1>1, LenProperties
<1>6. ASSUME NEW i \in 0 .. r.count - 1
      PROVE  PacketAt(r, i) = l[Len(l) - r.count + 1 + i]
  <2> DEFINE L == Len(l)
             m == k + i
  <2>1. i \in 0 .. C /\ k + i <= C /\ m \in 0 .. c - 1 /\ L - (c - k) + 1 + i = L - c + 1 + m /\ i \in 0 .. (c - k) - 1
    BY <1>2, <1>4, <1>5
  <2>2. Slot(r, i) = Slot(s, m)
    <3>1. r.head = (h + k) % C
      BY <1>4 DEF Slot
    <3>2. Slot(r, i) = (((h + k) % C) + i) % C
      BY <3>1, Zenon DEF Slot
    <3>3. Slot(s, m) = (h + (k + i)) % C
      BY DEF Slot
    <3> HIDE DEF h, C, m
    <3>4. (((h + k) % C) + i) % C = (h + (k + i)) % C
      BY <1>2, <2>1, RingMoves
    <3> QED
      BY <3>2, <3>3, <3>4, Zenon
  <2>3. PacketAt(s, m) = l[L - c + 1 + m]
    BY <2>1 DEF Keeps
  <2>4. PacketAt(r, i) = PacketAt(s, m)
    BY <1>4, <2>2 DEF PacketAt
  <2> HIDE DEF m, L, c
  <2> QED
    BY <1>4, <2>1, <2>3, <2>4 DEF L
<1>7. r.count <= Len(l)
  BY <1>1, <1>2, <1>4, <1>5
<1>8. Keeps(r, l, t)
  BY <1>1, <1>4, <1>6, <1>7 DEF Keeps
<1> QED
  BY <1>4, <1>8 DEF r

(* A packet put behind the newest one, where there is room. *)
PutLast(s, p) == [s EXCEPT !.slots[Slot(s, s.count)] = p, !.count = @ + 1]

LEMMA PutLastKeeps ==
    ASSUME NEW s, NEW l, NEW t \in Nat, Keeps(s, l, t), s.count < Capacity,
           NEW p \in Packet, p.time = t, p.len <= OutCap
    PROVE  Keeps(PutLast(s, p), Append(l, p), t) /\ PutLast(s, p).active = s.active
<1> DEFINE C == Capacity
           r == PutLast(s, p)
           c == s.count
           x == Slot(s, c)
           L == Len(l)
           m == Append(l, p)
<1>1. s \in StoreType /\ l \in Seq(Packet) /\ c <= L
  BY DEF Keeps
<1>2. c \in 0 .. C - 1 /\ c \in Nat /\ s.head \in 0 .. C - 1 /\ C \in Nat \ {0} /\ L \in Nat
      /\ c + 1 \in 0 .. C /\ c \in 0 .. C
  <2>1. c \in 0 .. C /\ c \in Nat /\ s.head \in 0 .. C - 1 /\ C \in Nat \ {0} /\ L \in Nat /\ c < C
    BY <1>1, StoreFields, CapacityType, LenProperties
  <2> HIDE DEF c, L
  <2> QED
    BY <2>1
<1>3. x \in 0 .. C - 1 /\ s.slots \in [0 .. C - 1 -> Packet]
  BY <1>1, <1>2, StoreFields
<1>4. /\ r \in StoreType /\ r.head = s.head /\ r.count = c + 1 /\ r.active = s.active
      /\ r.slots = [s.slots EXCEPT ![x] = p]
  <2> HIDE DEF x, c
  <2>1. [s.slots EXCEPT ![x] = p] \in [0 .. C - 1 -> Packet]
    BY <1>3
  <2> DEFINE q == [s.slots EXCEPT ![x] = p]
  <2>2. r = [s EXCEPT !.slots = q, !.count = c + 1]
    BY <1>1 DEF PutLast, x, c, StoreType
  <2> HIDE DEF q, r
  <2>3. /\ r \in StoreType /\ r.head = s.head /\ r.count = c + 1 /\ r.active = s.active /\ r.slots = q
    BY <1>1, <1>2, <2>1, <2>2 DEF StoreType, q
  <2> QED
    BY <2>3 DEF q
<1>5. /\ m \in Seq(Packet) /\ Len(m) = L + 1 /\ m[L + 1] = p
      /\ \A i \in 1 .. L : m[i] = l[i]
  BY <1>1, AppendProperties
<1> HIDE DEF r, m, c, L
<1>6. ASSUME NEW i \in 0 .. r.count - 1
      PROVE  PacketAt(r, i) = m[Len(m) - r.count + 1 + i]
  <2>1. i \in 0 .. c /\ Len(m) - r.count + 1 + i = L - c + 1 + i /\ i \in 0 .. C - 1
    BY <1>2, <1>4, <1>5
  <2>2. PacketAt(r, i) = [s.slots EXCEPT ![x] = p][Slot(s, i)]
    BY <1>4 DEF PacketAt, Slot
  <2>3. CASE i = c
    <3>1. PacketAt(r, i) = p
      BY <1>3, <2>2, <2>3
    <3>2. L - c + 1 + i = L + 1
      BY <1>2, <2>3
    <3> QED
      BY <1>5, <2>1, <3>1, <3>2
  <2>4. CASE i # c
    <3>1. i \in 0 .. c - 1 /\ L - c + 1 + i \in 1 .. L
      BY <1>1, <1>2, <2>1, <2>4 DEF c, L
    <3>2. Slot(s, i) # x /\ Slot(s, i) \in 0 .. C - 1
      <4>1. Slot(s, i) # x
        BY <1>2, <2>1, <2>4, RingApart DEF Slot
      <4>2. i \in 0 .. C
        BY <1>2, <2>1
      <4> QED
        BY <1>1, <4>1, <4>2, StoreFields
    <3>3. PacketAt(r, i) = PacketAt(s, i)
      BY <1>3, <2>2, <3>2 DEF PacketAt
    <3>4. PacketAt(s, i) = l[L - c + 1 + i]
      BY <3>1 DEF Keeps, c, L
    <3> QED
      BY <1>5, <2>1, <3>1, <3>3, <3>4
  <2> QED
    BY <2>3, <2>4
<1>7. /\ \A i \in 1 .. L : l[i].time <= t /\ l[i].len <= OutCap
      /\ \A i, j \in 1 .. L : i <= j => l[i].time <= l[j].time
  BY DEF Keeps, L
<1>8. \A i \in 1 .. L + 1 : m[i].time <= t /\ m[i].len <= OutCap
  <2> TAKE i \in 1 .. L + 1
  <2>1. CASE i = L + 1
    BY <1>5, <2>1
  <2>2. CASE i \in 1 .. L
    BY <1>5, <1>7, <2>2
  <2> QED
    BY <1>2, <2>1, <2>2
<1>9. ASSUME NEW i \in 1 .. L + 1, NEW j \in 1 .. L + 1, i <= j
      PROVE  m[i].time <= m[j].time
  <2>1. CASE j = L + 1
    BY <1>5, <1>8, <2>1
  <2>2. CASE j \in 1 .. L
    <3>1. i \in 1 .. L
      BY <1>2, <1>9, <2>2
    <3> QED
      BY <1>5, <1>7, <1>9, <2>2, <3>1
  <2> QED
    BY <1>2, <2>1, <2>2
<1>10. r.count <= Len(m)
  BY <1>1, <1>2, <1>4, <1>5
<1>11. Keeps(r, m, t)
  <2>1. \A i \in 1 .. Len(m) : m[i].time <= t /\ m[i].len <= OutCap
    BY <1>5, <1>8
  <2>2. \A i, j \in 1 .. Len(m) : i <= j => m[i].time <= m[j].time
    BY <1>5, <1>9
  <2> QED
    BY <1>4, <1>5, <1>6, <1>10, <2>1, <2>2 DEF Keeps
<1> QED
  BY <1>4, <1>11 DEF r, m

(* migris_pktstore_store, with the log following it. *)
LEMMA TapKeeps ==
    ASSUME NEW x, NEW t \in Nat, Keeps(x.store, x.log, t), NEW p \in Packet, p.time = t, p.len <= OutCap
    PROVE  /\ Keeps(Tap(x, p).store, Tap(x, p).log, t)
           /\ Tap(x, p).store.active = x.store.active
           /\ x.store.active => Tap(x, p).store = x.store /\ Tap(x, p).log = x.log
<1> DEFINE s == x.store
           l == x.log
           r == MakeRoom(s)
<1>1. s \in StoreType /\ s.count \in 0 .. Capacity /\ Capacity \in Nat \ {0}
  BY StoreFields, CapacityType DEF Keeps
<1>2. CASE ~ Accepts(s, p)
  <2>1. Tap(x, p).store = s /\ Tap(x, p).log = l
    BY <1>2 DEF Tap, Store
  <2> QED
    BY <2>1
<1>3. CASE Accepts(s, p)
  <2>1. Tap(x, p).store = PutLast(r, p) /\ Tap(x, p).log = Append(l, p) /\ ~ s.active
    BY <1>3 DEF Tap, Store, PutLast, Accepts
  <2>2. Keeps(r, l, t) /\ r.count < Capacity /\ r.active = s.active
    <3>1. CASE s.count >= Capacity
      <4>1. s.count = Capacity /\ 1 \in 0 .. s.count
        BY <1>1, <3>1
      <4>2. r = Behead(s, 1)
        BY <3>1 DEF MakeRoom, Behead
      <4> HIDE DEF s, l, r
      <4>3. Keeps(r, l, t) /\ r.count = s.count - 1 /\ r.active = s.active
        BY <4>1, <4>2, BeheadKeeps DEF s, l
      <4> QED
        BY <1>1, <4>1, <4>3
    <3>2. CASE ~ (s.count >= Capacity)
      BY <1>1, <3>2 DEF MakeRoom
    <3> QED
      BY <3>1, <3>2
  <2> HIDE DEF r
  <2>3. Keeps(PutLast(r, p), Append(l, p), t) /\ PutLast(r, p).active = r.active
    BY <2>2, PutLastKeeps
  <2> QED
    BY <2>1, <2>2, <2>3
<1> QED
  BY <1>2, <1>3


----------------------------------------------------------------------------
(* Bursts *)

(* What Tapped defines. *)
Taps(f, s, lens) ==
    /\ DOMAIN f = 0 .. Len(lens)
    /\ f[0] = [store |-> s, log |-> log]
    /\ \A i \in 1 .. Len(lens) : f[i] = Tap(f[i - 1], Sent(lens, i))

LEMMA BurstType ==
    ASSUME NEW k \in Nat, NEW lens \in Bursts(k)
    PROVE  /\ Len(lens) \in Nat
           /\ \A i \in 1 .. Len(lens) : lens[i] \in Nat /\ lens[i] <= OutCap
<1>1. PICK n \in 0 .. k : lens \in [1 .. n -> Lens]
  BY DEF Bursts
<1>2. n \in Nat /\ Lens \subseteq 1 .. OutCap /\ OutCap \in Nat
  BY StoreAssumption
<1>3. lens \in Seq(Lens) /\ DOMAIN lens = 1 .. n
  BY <1>1, <1>2, SeqDef
<1>4. Len(lens) = n
  BY <1>2, <1>3, LenProperties
<1>5. ASSUME NEW i \in 1 .. n
      PROVE  lens[i] \in Nat /\ lens[i] <= OutCap
  <2>1. lens[i] \in 1 .. OutCap
    BY <1>1, <1>2
  <2> QED
    BY <1>2, <2>1
<1> QED
  BY <1>2, <1>4, <1>5

LEMMA SentType ==
    ASSUME emitted \in Nat, now \in Nat, NEW lens, NEW i \in Nat, lens[i] \in Nat, lens[i] <= OutCap
    PROVE  Sent(lens, i) \in Packet /\ Sent(lens, i).time = now /\ Sent(lens, i).len <= OutCap
BY DEF Sent, Packet

(* The store type alone is enough for the burst to be defined. *)
LEMMA StoreStays ==
    ASSUME NEW s \in StoreType, NEW p \in Packet
    PROVE  Store(s, p) \in StoreType
<1> DEFINE C == Capacity
           r == MakeRoom(s)
<1>1. s.count \in 0 .. C /\ C \in Nat \ {0} /\ s.count \in Nat /\ Slot(s, 1) \in 0 .. C - 1
  <2>1. s.count \in 0 .. C /\ C \in Nat \ {0} /\ s.count \in Nat
    BY StoreFields, CapacityType
  <2>2. 1 \in 0 .. C
    BY <2>1
  <2> QED
    BY <2>1, <2>2, StoreFields
<1>2. r \in StoreType /\ r.count \in 0 .. C - 1
  <2>1. CASE s.count >= C
    <3>1. r = [s EXCEPT !.head = Slot(s, 1), !.count = @ - 1]
      BY <2>1 DEF MakeRoom
    <3>2. s.count - 1 \in 0 .. C - 1 /\ s.count - 1 \in 0 .. C
      BY <1>1, <2>1
    <3> HIDE DEF r
    <3> QED
      BY <1>1, <3>1, <3>2 DEF StoreType
  <2>2. CASE ~ (s.count >= C)
    BY <1>1, <2>2 DEF MakeRoom
  <2> QED
    BY <2>1, <2>2
<1> HIDE DEF r
<1> DEFINE x == Slot(r, r.count)
           q == [r.slots EXCEPT ![x] = p]
<1>3. r.count \in 0 .. C /\ r.count + 1 \in 0 .. C
  BY <1>1, <1>2
<1>4. q \in [0 .. C - 1 -> Packet]
  BY <1>2, <1>3, StoreFields
<1>5. PutLast(r, p) = [r EXCEPT !.slots = q, !.count = r.count + 1]
  BY <1>2 DEF PutLast, StoreType
<1> HIDE DEF q
<1>6. PutLast(r, p) \in StoreType
  BY <1>2, <1>3, <1>4, <1>5 DEF StoreType
<1>7. Store(s, p) = IF Accepts(s, p) THEN PutLast(r, p) ELSE s
  BY DEF Store, PutLast, r
<1> QED
  BY <1>6, <1>7

LEMMA TappedDef ==
    ASSUME NEW s \in StoreType, log \in Seq(Packet), emitted \in Nat, now \in Nat,
           NEW k \in Nat, NEW lens \in Bursts(k)
    PROVE  Taps(Tapped(s, lens), s, lens)
<1> DEFINE N == Len(lens)
           V == [store : StoreType, log : Seq(Packet)]
           start == [store |-> s, log |-> log]
           step == [i \in 1 .. N |-> [x \in V |-> Tap(x, Sent(lens, i))]]
           P(f) == f = [i \in 0 .. N |-> IF i = 0 THEN start ELSE Tap(f[i - 1], Sent(lens, i))]
<1>1. N \in Nat /\ \A i \in 1 .. N : lens[i] \in Nat /\ lens[i] <= OutCap
  BY BurstType
<1>2. ASSUME NEW i \in 1 .. N, NEW x \in V
      PROVE  Tap(x, Sent(lens, i)) \in V
  <2> DEFINE p == Sent(lens, i)
  <2>1. p \in Packet
    BY <1>1, SentType
  <2> HIDE DEF p
  <2>2. Store(x.store, p) \in StoreType
    BY <2>1, StoreStays
  <2>3. Append(x.log, p) \in Seq(Packet) /\ x.log \in Seq(Packet)
    BY <2>1, AppendProperties
  <2> QED
    BY <2>2, <2>3 DEF Tap, p
<1>3. step \in [1 .. N -> [V -> V]] /\ start \in V
  BY <1>2
<1>4. \A i \in 1 .. N : \A x \in V : step[i][x] = Tap(x, Sent(lens, i))
  OBVIOUS
<1> HIDE DEF V, start, step
<1>5. PICK f : Iterates(f, N, V, start, step)
  BY <1>1, <1>3, Recursion
<1>6. f \in [0 .. N -> V] /\ f[0] = start /\ \A i \in 1 .. N : f[i] = step[i][f[i - 1]]
  BY <1>5 DEF Iterates
<1>7. ASSUME NEW i \in 0 .. N
      PROVE  f[i] = IF i = 0 THEN start ELSE Tap(f[i - 1], Sent(lens, i))
  <2>1. CASE i = 0
    BY <1>6, <2>1
  <2>2. CASE i # 0
    <3>1. i \in 1 .. N /\ i - 1 \in 0 .. N
      BY <1>1, <2>2
    <3> QED
      BY <1>4, <1>6, <2>2, <3>1
  <2> QED
    BY <2>1, <2>2
<1>8. P(f)
  BY <1>6, <1>7
<1>9. Tapped(s, lens) = CHOOSE g : P(g)
  BY DEF Tapped, start
<1> DEFINE T == Tapped(s, lens)
<1>10. P(T)
  <2> HIDE DEF P
  <2> QED
    BY <1>8, <1>9, Zenon
<1> HIDE DEF T
<1>11. DOMAIN T = 0 .. N /\ T[0] = start
  BY <1>1, <1>10
<1>12. ASSUME NEW i \in 1 .. N
       PROVE  T[i] = Tap(T[i - 1], Sent(lens, i))
  <2>1. i \in 0 .. N /\ i # 0
    BY <1>1
  <2> QED
    BY <1>10, <2>1
<1>13. Taps(T, s, lens)
  BY <1>11, <1>12 DEF Taps, start
<1> QED
  BY <1>13 DEF T

(* transmit_tm keeps the ring the tail of the log, and leaves an active      *)
(* retrieval alone.                                                         *)
LEMMA TransmitKeeps ==
    ASSUME NEW s, Keeps(s, log, now), emitted \in Nat, now \in Nat,
           NEW k \in Nat, NEW lens \in Bursts(k), Transmit(s, lens)
    PROVE  /\ Keeps(st', log', now) /\ emitted' \in Nat
           /\ st'.active = s.active /\ (s.active => st' = s)
<1> DEFINE N == Len(lens)
           f == Tapped(s, lens)
           Fine(x) == /\ Keeps(x.store, x.log, now) /\ x.store.active = s.active
                      /\ s.active => x.store = s
           T == {i \in Nat : i <= N => Fine(f[i])}
<1>1. N \in Nat /\ \A i \in 1 .. N : lens[i] \in Nat /\ lens[i] <= OutCap
  BY BurstType
<1>2. s \in StoreType /\ log \in Seq(Packet)
  BY DEF Keeps
<1>3. Taps(f, s, lens)
  BY <1>2, TappedDef
<1>4. st' = f[N].store /\ log' = f[N].log /\ emitted' = emitted + N
  BY DEF Transmit
<1> HIDE DEF f, N
<1>5. 0 \in T
  <2>1. f[0].store = s /\ f[0].log = log
    BY <1>3 DEF Taps
  <2> QED
    BY <2>1
<1>6. ASSUME NEW n \in Nat, n \in T
      PROVE  n + 1 \in T
  <2> SUFFICES ASSUME n + 1 <= N
               PROVE  Fine(f[n + 1])
    OBVIOUS
  <2> DEFINE i == n + 1
             x == f[n]
             p == Sent(lens, i)
  <2>1. i \in 1 .. N /\ i - 1 = n /\ n <= N /\ i \in Nat
    BY <1>1
  <2> HIDE DEF i
  <2>2. f[i] = Tap(x, p)
    <3>1. f[i] = Tap(f[i - 1], Sent(lens, i))
      BY <1>3, <2>1 DEF Taps, N
    <3> QED
      BY <2>1, <3>1, Zenon
  <2>3. p \in Packet /\ p.time = now /\ p.len <= OutCap
    BY <1>1, <2>1, SentType
  <2>4. Fine(x)
    BY <1>6, <2>1
  <2> HIDE DEF x, p
  <2>5. /\ Keeps(Tap(x, p).store, Tap(x, p).log, now)
        /\ Tap(x, p).store.active = x.store.active
        /\ x.store.active => Tap(x, p).store = x.store
    BY <2>3, <2>4, TapKeeps
  <2>6. Fine(Tap(x, p))
    BY <2>4, <2>5
  <2>7. Fine(f[i])
    BY <2>2, <2>6, Zenon
  <2> QED
    BY <2>7 DEF i
<1> HIDE DEF T
<1>7. N \in T
  BY <1>1, <1>5, <1>6, Induction
<1>8. Fine(f[N])
  BY <1>1, <1>7 DEF T
<1>9. emitted' \in Nat
  BY <1>1, <1>4
<1> QED
  BY <1>4, <1>8, <1>9

----------------------------------------------------------------------------
(* Deletion and retrieval *)

(* The loop over the leading packets older than t ends at one that is not. *)
LEMMA FirstExists ==
    ASSUME NEW s \in StoreType, NEW t \in Int
    PROVE  LET k == FirstAtOrAfter(s, t)
           IN  /\ k \in 0 .. s.count
               /\ \A i \in 0 .. k - 1 : PacketAt(s, i).time < t
               /\ k < s.count => PacketAt(s, k).time >= t
<1> DEFINE c == s.count
           time(i) == s.slots[Slot(s, i)].time
           Q(k) == /\ \A i \in 0 .. k - 1 : time(i) < t
                   /\ k < c => time(k) >= t
           T == {k \in 0 .. c : k < c => time(k) >= t}
<1>1. c \in Nat /\ \A i \in 0 .. c : time(i) \in Nat
  <2>1. c \in 0 .. Capacity /\ c \in Nat /\ Capacity \in Nat
    BY StoreFields, CapacityType
  <2>2. ASSUME NEW i \in 0 .. c
        PROVE  time(i) \in Nat
    <3>1. i \in 0 .. Capacity
      BY <2>1
    <3>2. PacketAt(s, i) \in Packet
      BY <3>1, StoreFields
    <3> QED
      BY <3>2 DEF PacketAt, Packet
  <2> QED
    BY <2>1, <2>2
<1>2. FirstAtOrAfter(s, t) = CHOOSE k \in 0 .. c : Q(k)
  BY DEF FirstAtOrAfter
<1> HIDE DEF c, time
<1>3. T \in SUBSET Nat /\ c \in T
  BY <1>1
<1>4. PICK k \in T : \A j \in T : k <= j
  BY <1>3, LeastNumber
<1>5. k \in 0 .. c /\ (k < c => time(k) >= t)
  BY <1>4
<1>6. ASSUME NEW i \in 0 .. k - 1
      PROVE  time(i) < t
  <2>1. i \in 0 .. c /\ i < c /\ ~ (k <= i) /\ time(i) \in Nat
    BY <1>1, <1>5
  <2>2. i \notin T
    BY <1>4, <2>1
  <2>3. ~ (time(i) >= t)
    BY <2>1, <2>2
  <2> QED
    BY <2>1, <2>3
<1>7. Q(k)
  BY <1>5, <1>6
<1> DEFINE m == FirstAtOrAfter(s, t)
<1>8. m \in 0 .. c /\ Q(m)
  <2> HIDE DEF Q
  <2> QED
    BY <1>2, <1>5, <1>7, Zenon
<1> HIDE DEF m
<1>9. /\ m \in 0 .. s.count
      /\ \A i \in 0 .. m - 1 : PacketAt(s, i).time < t
      /\ m < s.count => PacketAt(s, m).time >= t
  BY <1>8 DEF c, time, PacketAt
<1> QED
  BY <1>9 DEF m

(* The ring is in the order of time. *)
LEMMA RingSorted ==
    ASSUME NEW s, NEW l, NEW t, Keeps(s, l, t), NEW i \in 0 .. s.count - 1, NEW j \in 0 .. s.count - 1, i <= j
    PROVE  /\ PacketAt(s, i).time <= PacketAt(s, j).time
           /\ PacketAt(s, i) \in Packet /\ PacketAt(s, i).len <= OutCap
<1> DEFINE c == s.count
           L == Len(l)
           a == L - c + 1 + i
           b == L - c + 1 + j
<1>1. c \in Nat /\ L \in Nat /\ c <= L /\ l \in Seq(Packet)
  BY StoreFields, LenProperties DEF Keeps
<1>2. a \in 1 .. L /\ b \in 1 .. L /\ a <= b
  <2> HIDE DEF c, L
  <2> QED
    BY <1>1 DEF c, L
<1>3. PacketAt(s, i) = l[a] /\ PacketAt(s, j) = l[b]
  BY DEF Keeps
<1>4. l[a].time <= l[b].time /\ l[a].len <= OutCap
  <2> HIDE DEF a, b, c
  <2> QED
    BY <1>2 DEF Keeps
<1>5. l[a] \in Packet
  BY <1>1, <1>2, ElementOfSeq
<1> QED
  BY <1>3, <1>4, <1>5


(* What Chosen defines. *)
Chooses(g, s, from, to) ==
    /\ g[0] = <<>>
    /\ \A k \in 1 .. s.count :
          g[k] = IF from <= PacketAt(s, k - 1).time /\ PacketAt(s, k - 1).time <= to
                   THEN Append(g[k - 1], PacketAt(s, k - 1)) ELSE g[k - 1]
    /\ \A k \in 0 .. s.count : g[k] \in Seq(Packet)

LEMMA ContentsAre ==
    ASSUME NEW s \in StoreType
    PROVE  /\ Contents(s) \in Seq(Packet) /\ Len(Contents(s)) = s.count /\ DOMAIN Contents(s) = 1 .. s.count
           /\ \A k \in 1 .. s.count : Contents(s)[k] = PacketAt(s, k - 1) /\ PacketAt(s, k - 1) \in Packet
<1> DEFINE c == s.count
           q == Contents(s)
<1>1. c \in Nat /\ c \in 0 .. Capacity /\ Capacity \in Nat
  BY StoreFields, CapacityType
<1>2. q = [k \in 1 .. c |-> PacketAt(s, k - 1)]
  BY DEF Contents, PacketAt
<1>3. ASSUME NEW k \in 1 .. c
      PROVE  PacketAt(s, k - 1) \in Packet
  <2>1. k - 1 \in 0 .. Capacity
    BY <1>1
  <2> QED
    BY <2>1, StoreFields
<1> HIDE DEF q, c
<1>4. q \in [1 .. c -> Packet]
  BY <1>2, <1>3
<1>5. q \in Seq(Packet) /\ DOMAIN q = 1 .. c
  BY <1>1, <1>4, SeqDef
<1>6. Len(q) = c
  BY <1>1, <1>5, LenProperties
<1>7. \A k \in 1 .. c : q[k] = PacketAt(s, k - 1)
  BY <1>2
<1> QED
  BY <1>3, <1>5, <1>6, <1>7 DEF q, c

LEMMA ChosenDef ==
    ASSUME NEW s \in StoreType, NEW from, NEW to
    PROVE  Chooses(Chosen(s, from, to), s, from, to)
<1> DEFINE N == s.count
           V == Seq(Packet)
           q == Contents(s)
           Take1(k, w) == IF from <= q[k].time /\ q[k].time <= to THEN Append(w, q[k]) ELSE w
           step == [k \in 1 .. N |-> [w \in V |-> Take1(k, w)]]
           P(f) == f = [k \in 0 .. N |-> IF k = 0 THEN <<>> ELSE Take1(k, f[k - 1])]
<1>1. N \in Nat
  BY StoreFields
<1>2. \A k \in 1 .. N : q[k] = PacketAt(s, k - 1) /\ q[k] \in Packet
  BY ContentsAre
<1>3. Chosen(s, from, to) = CHOOSE g : P(g)
  BY DEF Chosen
<1> HIDE DEF q, N
<1>4. ASSUME NEW k \in 1 .. N, NEW w \in V
      PROVE  Take1(k, w) \in V
  BY <1>2, AppendProperties
<1> HIDE DEF Take1
<1>5. step \in [1 .. N -> [V -> V]] /\ <<>> \in V
  BY <1>4
<1>6. \A k \in 1 .. N : \A w \in V : step[k][w] = Take1(k, w)
  OBVIOUS
<1> HIDE DEF V, step
<1>7. PICK f : Iterates(f, N, V, <<>>, step)
  BY <1>1, <1>5, Recursion
<1>8. f \in [0 .. N -> V] /\ f[0] = <<>> /\ \A k \in 1 .. N : f[k] = step[k][f[k - 1]]
  BY <1>7 DEF Iterates
<1>9. ASSUME NEW k \in 0 .. N
      PROVE  f[k] = IF k = 0 THEN <<>> ELSE Take1(k, f[k - 1])
  <2>1. CASE k = 0
    BY <1>8, <2>1
  <2>2. CASE k # 0
    <3>1. k \in 1 .. N /\ k - 1 \in 0 .. N
      BY <1>1, <2>2
    <3> QED
      BY <1>6, <1>8, <2>2, <3>1
  <2> QED
    BY <2>1, <2>2
<1>10. P(f)
  BY <1>8, <1>9
<1> DEFINE g == Chosen(s, from, to)
           U == {n \in Nat : n <= N => g[n] \in V}
<1>11. P(g)
  <2> HIDE DEF P
  <2> QED
    BY <1>3, <1>10, Zenon
<1> HIDE DEF g
<1>12. g[0] = <<>>
  BY <1>1, <1>11
<1>13. ASSUME NEW k \in 1 .. N
       PROVE  g[k] = Take1(k, g[k - 1])
  <2>1. k \in 0 .. N /\ k # 0
    BY <1>1
  <2> QED
    BY <1>11, <2>1
<1>14. 0 \in U
  BY <1>5, <1>12
<1>15. ASSUME NEW n \in Nat, n \in U
       PROVE  n + 1 \in U
  <2> SUFFICES ASSUME n + 1 <= N
               PROVE  g[n + 1] \in V
    OBVIOUS
  <2> DEFINE k == n + 1
  <2>1. k \in 1 .. N /\ k - 1 = n /\ n <= N
    BY <1>1
  <2> HIDE DEF k
  <2>2. g[k - 1] \in V
    BY <1>15, <2>1
  <2>3. g[k] \in V
    BY <1>4, <1>13, <2>1, <2>2
  <2> QED
    BY <2>3 DEF k
<1> HIDE DEF U
<1>16. \A k \in 0 .. N : g[k] \in V
  <2>1. \A k \in Nat : k \in U
    BY <1>14, <1>15, Induction
  <2> QED
    BY <1>1, <2>1 DEF U
<1>17. Chooses(g, s, from, to)
  BY <1>2, <1>12, <1>13, <1>16 DEF Chooses, Take1, N, V
<1> QED
  BY <1>17 DEF g

(* In a ring in the order of time the packets of a window are consecutive:   *)
(* they start where the retrieval starts, and end at the first later packet. *)
LEMMA WindowSpans ==
    ASSUME NEW s, NEW l, NEW t, Keeps(s, l, t), NEW from \in Nat, NEW to \in Nat
    PROVE  /\ Window(s, from, to) \in Seq(Packet)
           /\ Spans(s, Window(s, from, to), FirstAtOrAfter(s, from), to)
<1> DEFINE c == s.count
           f == FirstAtOrAfter(s, from)
           g == Chosen(s, from, to)
           time(i) == PacketAt(s, i).time
           Prefix(w, k) == /\ Len(w) = 0 \/ f + Len(w) <= k
                           /\ \A i \in 1 .. Len(w) : w[i] = PacketAt(s, f + i - 1)
                           /\ \A i \in f .. k - 1 : time(i) <= to <=> i < f + Len(w)
           T == {k \in Nat : k <= c => Prefix(g[k], k)}
<1>1. s \in StoreType /\ c \in Nat
  BY StoreFields DEF Keeps
<1>2. /\ f \in 0 .. c /\ f \in Nat
      /\ \A i \in 0 .. f - 1 : time(i) < from
      /\ f < c => time(f) >= from
  <2>1. /\ f \in 0 .. c /\ \A i \in 0 .. f - 1 : time(i) < from
        /\ f < c => time(f) >= from
    BY <1>1, FirstExists
  <2> HIDE DEF f, c
  <2> QED
    BY <1>1, <2>1
<1>3. Chooses(g, s, from, to)
  BY <1>1, ChosenDef
<1>4. \A i, j \in 0 .. c - 1 : i <= j => time(i) <= time(j)
  BY RingSorted
<1>5. \A i \in 0 .. c - 1 : time(i) \in Nat
  <2> TAKE i \in 0 .. c - 1
  <2>1. i <= i
    BY <1>1
  <2>2. PacketAt(s, i) \in Packet
    BY <2>1, RingSorted
  <2> QED
    BY <2>2 DEF Packet
<1>6. Window(s, from, to) = g[c]
  BY DEF Window
<1>7. /\ g[0] = <<>>
      /\ \A k \in 1 .. c : g[k] = IF from <= time(k - 1) /\ time(k - 1) <= to
                                    THEN Append(g[k - 1], PacketAt(s, k - 1)) ELSE g[k - 1]
      /\ \A k \in 0 .. c : g[k] \in Seq(Packet)
  BY <1>3 DEF Chooses
<1> HIDE DEF c, f, g, time
<1>8. 0 \in T
  <2>1. Len(g[0]) = 0
    BY <1>7
  <2> DEFINE w == g[0]
  <2> HIDE DEF w
  <2>2. Len(w) = 0
    BY <2>1 DEF w
  <2>3. Prefix(w, 0)
    BY <1>2, <2>2
  <2> QED
    BY <2>3 DEF w
<1>9. ASSUME NEW n \in Nat, n \in T
      PROVE  n + 1 \in T
  <2> SUFFICES ASSUME n + 1 <= c
               PROVE  Prefix(g[n + 1], n + 1)
    OBVIOUS
  <2> DEFINE w == g[n]
             v == g[n + 1]
             p == PacketAt(s, n)
  <2>1. n \in 0 .. c - 1 /\ n \in 0 .. c /\ n <= c
    BY <1>1
  <2>2. v = IF from <= time(n) /\ time(n) <= to THEN Append(w, p) ELSE w
    <3> DEFINE k == n + 1
    <3>1. k \in 1 .. c /\ k - 1 = n
      BY <2>1, <1>1
    <3> HIDE DEF k
    <3>2. g[k] = IF from <= time(k - 1) /\ time(k - 1) <= to
                   THEN Append(g[k - 1], PacketAt(s, k - 1)) ELSE g[k - 1]
      BY <1>7, <3>1
    <3>3. g[k] = IF from <= time(n) /\ time(n) <= to THEN Append(g[n], PacketAt(s, n)) ELSE g[n]
      BY <3>1, <3>2, Zenon
    <3> QED
      BY <3>3 DEF k
  <2>3. w \in Seq(Packet) /\ Len(w) \in Nat
    BY <1>7, <2>1, LenProperties
  <2>4. /\ Len(w) = 0 \/ f + Len(w) <= n
        /\ \A i \in 1 .. Len(w) : w[i] = PacketAt(s, f + i - 1)
        /\ \A i \in f .. n - 1 : time(i) <= to <=> i < f + Len(w)
    BY <1>9, <2>1
  <2>5. time(n) \in Nat
    BY <1>5, <2>1
  <2>6. p \in Packet
    BY <1>1, <2>1, RingSorted DEF c
  <2> HIDE DEF w, v, p
  <2>7. CASE n < f
    <3>1. n \in 0 .. f - 1
      BY <1>2, <2>7
    <3>2. time(n) < from
      BY <1>2, <3>1
    <3>3. v = w
      BY <2>2, <2>5, <3>2
    <3>4. Prefix(v, n + 1)
      BY <1>2, <2>3, <2>4, <2>7, <3>3
    <3> QED
      BY <3>4 DEF v
  <2>8. CASE f <= n /\ time(n) <= to
    <3>1. f \in 0 .. c - 1 /\ f < c
      BY <1>1, <1>2, <2>1, <2>8
    <3>2. time(f) <= time(n) /\ time(f) >= from /\ time(f) \in Nat
      BY <1>2, <1>4, <1>5, <2>1, <2>8, <3>1
    <3>3. from <= time(n)
      BY <2>5, <3>2
    <3>4. v = Append(w, p)
      BY <2>2, <2>8, <3>3
    <3>5. Len(w) = n - f
      <4>1. CASE n = f
        BY <1>2, <2>3, <2>4, <4>1
      <4>2. CASE n # f
        <5> DEFINE m == n - 1
        <5>1. m \in f .. n - 1 /\ m \in 0 .. c - 1 /\ m <= n
          BY <1>1, <1>2, <2>1, <2>8, <4>2
        <5>2. time(m) <= time(n) /\ time(m) \in Nat
          BY <1>4, <1>5, <2>1, <5>1
        <5>3. time(m) <= to
          BY <2>5, <2>8, <5>2
        <5>4. m < f + Len(w)
          BY <2>4, <5>1, <5>3
        <5> QED
          BY <1>2, <2>3, <2>4, <2>8, <5>4
      <4> QED
        BY <4>1, <4>2
    <3>6. /\ Len(v) = Len(w) + 1 /\ v[Len(w) + 1] = p
          /\ \A i \in 1 .. Len(w) : v[i] = w[i]
      BY <2>3, <2>6, <3>4, AppendProperties
    <3>7. f + Len(v) = n + 1
      BY <1>2, <2>3, <3>5, <3>6
    <3>8. ASSUME NEW i \in 1 .. Len(v)
          PROVE  v[i] = PacketAt(s, f + i - 1)
      <4>1. CASE i \in 1 .. Len(w)
        BY <2>4, <3>6, <4>1
      <4>2. CASE i = Len(w) + 1
        <5>1. f + i - 1 = n
          BY <1>2, <2>3, <3>5, <4>2
        <5>2. v[i] = p
          BY <3>6, <4>2
        <5> QED
          BY <5>1, <5>2, Zenon DEF p
      <4> QED
        BY <2>3, <3>6, <4>1, <4>2
    <3>9. ASSUME NEW i \in f .. n
          PROVE  time(i) <= to
      <4>1. i \in 0 .. c - 1 /\ i <= n
        BY <1>1, <1>2, <2>1
      <4>2. time(i) <= time(n) /\ time(i) \in Nat
        BY <1>4, <1>5, <2>1, <4>1
      <4> QED
        BY <2>5, <2>8, <4>2
    <3>10. \A i \in f .. (n + 1) - 1 : time(i) <= to <=> i < f + Len(v)
      BY <1>2, <3>7, <3>9
    <3>11. Prefix(v, n + 1)
      BY <3>7, <3>8, <3>10
    <3> QED
      BY <3>11 DEF v
  <2>9. CASE f <= n /\ ~ (time(n) <= to)
    <3>1. v = w
      BY <2>2, <2>9
    <3>2. ~ (n < f + Len(w))
      BY <1>2, <2>3, <2>4, <2>9
    <3>3. \A i \in f .. (n + 1) - 1 : time(i) <= to <=> i < f + Len(w)
      <4> TAKE i \in f .. (n + 1) - 1
      <4>1. i = n \/ i \in f .. n - 1
        BY <1>2
      <4> QED
        BY <2>4, <2>9, <3>2, <4>1
    <3>4. Len(w) = 0 \/ f + Len(w) <= n + 1
      BY <1>2, <2>3, <2>4
    <3>5. Prefix(v, n + 1)
      BY <2>4, <3>1, <3>3, <3>4
    <3> QED
      BY <3>5 DEF v
  <2> QED
    BY <1>2, <2>7, <2>8, <2>9
<1> HIDE DEF T
<1>10. c \in T
  BY <1>1, <1>8, <1>9, Induction
<1> DEFINE w == g[c]
<1>11. w \in Seq(Packet) /\ Len(w) \in Nat
  BY <1>1, <1>7, LenProperties
<1>12. Prefix(w, c)
  BY <1>1, <1>10 DEF T
<1> HIDE DEF w
<1>13. f + Len(w) <= c
  BY <1>1, <1>2, <1>11, <1>12
<1>14. Spans(s, w, f, to)
  BY <1>12, <1>13 DEF Spans, c, time
<1> QED
  BY <1>6, <1>11, <1>14 DEF w, f


----------------------------------------------------------------------------
(* The invariant is inductive *)

LEMMA ClockMoves ==
    ASSUME NextPhase, now \in Times
    PROVE  now' \in Times /\ now \in Nat /\ now' \in Nat /\ now <= now'
BY StoreAssumption DEF NextPhase, Times

LEMMA KeepsLater ==
    ASSUME NEW s, NEW l, NEW t \in Nat, NEW u \in Nat, t <= u, Keeps(s, l, t)
    PROVE  Keeps(s, l, u)
<1>1. l \in Seq(Packet) /\ \A i \in 1 .. Len(l) : l[i].time <= t /\ l[i].len <= OutCap
  BY DEF Keeps
<1>2. ASSUME NEW i \in 1 .. Len(l)
      PROVE  l[i].time <= u /\ l[i].len <= OutCap
  <2>1. l[i] \in Packet
    BY <1>1, ElementOfSeq
  <2>2. l[i].time \in Nat
    BY <2>1 DEF Packet
  <2> QED
    BY <1>1, <2>2
<1> QED
  BY <1>2 DEF Keeps

LEMMA PInitInv == PInit => PInv
<1> SUFFICES ASSUME PInit
             PROVE  PInv
  OBVIOUS
<1>1. PICK len \in Lens :
        LET boot == [n |-> 1, len |-> len, time |-> 0]
        IN  st = Store(Fresh, boot) /\ log = IF Accepts(Fresh, boot) THEN <<boot>> ELSE <<>>
  BY DEF PInit
<1> DEFINE boot == [n |-> 1, len |-> len, time |-> 0]
           x == [store |-> Fresh, log |-> <<>>]
<1>2. boot \in Packet /\ boot.time = 0 /\ boot.len <= OutCap
  BY StoreAssumption DEF Packet
<1>3. Fresh \in StoreType /\ Fresh.count = 0 /\ ~ Fresh.active
  BY CapacityType DEF Fresh, StoreType, Packet
<1>4. Keeps(Fresh, <<>>, 0)
  <2>1. Len(<<>>) = 0 /\ <<>> \in Seq(Packet)
    OBVIOUS
  <2> DEFINE e == <<>>
  <2> HIDE DEF e
  <2>2. Len(e) = 0 /\ e \in Seq(Packet)
    BY <2>1 DEF e
  <2>3. Keeps(Fresh, e, 0)
    BY <1>3, <2>2 DEF Keeps
  <2> QED
    BY <2>3 DEF e
<1>5. st = Tap(x, boot).store /\ log = Tap(x, boot).log
  <2>1. Append(<<>>, boot) = <<boot>>
    OBVIOUS
  <2> QED
    BY <1>1, <2>1 DEF Tap
<1>6. x.store = Fresh /\ x.log = <<>>
  OBVIOUS
<1> HIDE DEF boot, x
<1>7. Keeps(st, log, 0) /\ ~ st.active
  BY <1>2, <1>3, <1>4, <1>5, <1>6, TapKeeps
<1>8. now = 0 /\ emitted = 1 /\ window = <<>> /\ replayed = <<>> /\ 0 \in Times
  BY StoreAssumption DEF PInit, Times
<1> QED
  BY <1>7, <1>8 DEF PInv

(* A burst, after the store s has been switched, cleared or left alone: with *)
(* no retrieval armed or with the one that was.                             *)
LEMMA BurstStep ==
    ASSUME PInv, NEW s, Keeps(s, log, now), NEW k \in Nat, NEW lens \in Bursts(k), Transmit(s, lens),
           NextPhase, window' \in Seq(Packet), replayed' \in Seq(Packet), Len(replayed') <= Len(window'),
           \A i \in 1 .. Len(replayed') : replayed'[i] = window'[i],
           s.active => Replaying(s, window', replayed'),
           ~ s.active => Len(replayed') = Len(window')
    PROVE  PInv'
<1>1. now \in Times /\ emitted \in Nat
  BY DEF PInv
<1>2. now' \in Times /\ now \in Nat /\ now' \in Nat /\ now <= now'
  BY <1>1, ClockMoves
<1>3. /\ Keeps(st', log', now) /\ emitted' \in Nat
      /\ st'.active = s.active /\ (s.active => st' = s)
  BY <1>1, <1>2, TransmitKeeps
<1>4. Keeps(st', log', now')
  BY <1>2, <1>3, KeepsLater
<1>5. st'.active => Replaying(st', window', replayed')
  BY <1>3
<1>6. ~ st'.active => Len(replayed') = Len(window')
  BY <1>3
<1> QED
  BY <1>2, <1>3, <1>4, <1>5, <1>6 DEF PInv

(* A retrieval does not depend on whether storage is enabled. *)
LEMMA SwitchKeeps ==
    ASSUME NEW s, NEW l, NEW t, Keeps(s, l, t), NEW on \in BOOLEAN, NEW w, NEW r
    PROVE  /\ Keeps([s EXCEPT !.enabled = on], l, t)
           /\ [s EXCEPT !.enabled = on].active = s.active
           /\ Replaying(s, w, r) => Replaying([s EXCEPT !.enabled = on], w, r)
<1> DEFINE q == [s EXCEPT !.enabled = on]
<1>1. s \in StoreType
  BY DEF Keeps
<1>2. /\ q \in StoreType /\ q.count = s.count /\ q.slots = s.slots /\ q.head = s.head
      /\ q.active = s.active /\ q.cursor = s.cursor /\ q.end = s.end
  BY <1>1 DEF StoreType
<1> HIDE DEF q
<1>3. \A i : PacketAt(q, i) = PacketAt(s, i)
  BY <1>2 DEF PacketAt, Slot
<1>4. Keeps(q, l, t)
  BY <1>2, <1>3 DEF Keeps
<1>5. Replaying(s, w, r) => Replaying(q, w, r)
  BY <1>2, <1>3 DEF Replaying, Spans
<1> QED
  BY <1>2, <1>4, <1>5 DEF q

LEMMA DeleteKeeps ==
    ASSUME NEW s, NEW l, NEW t, Keeps(s, l, t), NEW u \in Nat
    PROVE  /\ Keeps(DeleteUpTo(s, u), l, t) /\ DeleteUpTo(s, u).active = s.active
           /\ s.active => DeleteUpTo(s, u) = s
<1> DEFINE k == FirstAtOrAfter(s, u + 1)
<1>1. s \in StoreType /\ u + 1 \in Int
  BY DEF Keeps
<1>2. k \in 0 .. s.count
  BY <1>1, FirstExists
<1>3. DeleteUpTo(s, u) = IF s.active THEN s ELSE Behead(s, k)
  BY DEF DeleteUpTo, Behead
<1> HIDE DEF k
<1>4. Keeps(Behead(s, k), l, t) /\ Behead(s, k).active = s.active
  BY <1>2, BeheadKeeps
<1> QED
  BY <1>3, <1>4

LEMMA ArmKeeps ==
    ASSUME NEW s, NEW l, NEW t, Keeps(s, l, t), NEW from \in Nat, NEW to \in Nat
    PROVE  /\ Keeps(ArmRetrieval(s, from, to), l, t)
           /\ ArmRetrieval(s, from, to).active
           /\ Window(s, from, to) \in Seq(Packet)
           /\ Replaying(ArmRetrieval(s, from, to), Window(s, from, to), <<>>)
<1> DEFINE f == FirstAtOrAfter(s, from)
           q == ArmRetrieval(s, from, to)
           w == Window(s, from, to)
           e == <<>>
<1>1. s \in StoreType /\ s.count \in Nat
  BY StoreFields DEF Keeps
<1>2. f \in 0 .. s.count /\ f \in Nat
  <2>1. f \in 0 .. s.count
    BY <1>1, FirstExists
  <2> HIDE DEF f
  <2> QED
    BY <1>1, <2>1
<1>3. w \in Seq(Packet) /\ Spans(s, w, f, to)
  BY WindowSpans
<1>4. q = [s EXCEPT !.cursor = f, !.end = to, !.active = TRUE]
  BY DEF ArmRetrieval
<1> HIDE DEF f, q, w
<1>5. /\ q \in StoreType /\ q.count = s.count /\ q.slots = s.slots /\ q.head = s.head
      /\ q.active = TRUE /\ q.cursor = f /\ q.end = to
  BY <1>1, <1>2, <1>4 DEF StoreType
<1>6. \A i : PacketAt(q, i) = PacketAt(s, i)
  BY <1>5 DEF PacketAt, Slot
<1>7. Keeps(q, l, t)
  BY <1>5, <1>6 DEF Keeps
<1>8. Spans(q, w, f, to)
  BY <1>3, <1>5, <1>6 DEF Spans
<1>9. Len(e) = 0
  OBVIOUS
<1> HIDE DEF e
<1>10. f = f + Len(e)
  BY <1>2, <1>9
<1>11. Replaying(q, w, e)
  BY <1>2, <1>5, <1>8, <1>10 DEF Replaying
<1> QED
  BY <1>3, <1>5, <1>7, <1>11 DEF q, w, e

LEMMA TelemetryStep ==
    ASSUME PInv, Tick \/ TcDispatch
    PROVE  PInv'
<1>1. /\ Keeps(st, log, now) /\ window \in Seq(Packet) /\ replayed \in Seq(Packet)
      /\ Len(replayed) <= Len(window) /\ \A i \in 1 .. Len(replayed) : replayed[i] = window[i]
      /\ st.active => Replaying(st, window, replayed)
      /\ ~ st.active => Len(replayed) = Len(window)
      /\ now \in Times
  BY DEF PInv
<1>2. 1 \in Nat /\ MaxBurst \in Nat /\ \A t \in Times : t \in Nat
  BY StoreAssumption DEF Times
<1>3. ASSUME NEW k \in Nat, NEW lens \in Bursts(k), Transmit(st, lens), NextPhase, UNCHANGED <<window, replayed>>
      PROVE  PInv'
  BY <1>1, <1>3, BurstStep
<1>4. CASE Tick
  BY <1>2, <1>3, <1>4 DEF Tick, EmitTick
<1>5. ASSUME NEW lens \in Bursts(MaxBurst), OtherTc(lens)
      PROVE  PInv'
  BY <1>2, <1>3, <1>5 DEF OtherTc
<1>6. ASSUME NEW lens \in Bursts(MaxBurst), NEW on \in BOOLEAN, Switch(on, lens)
      PROVE  PInv'
  <2> DEFINE s == [st EXCEPT !.enabled = on]
  <2>1. Transmit(s, lens) /\ NextPhase /\ window' = window /\ replayed' = replayed
    BY <1>6 DEF Switch
  <2>2. /\ Keeps(s, log, now) /\ s.active = st.active
        /\ Replaying(st, window, replayed) => Replaying(s, window, replayed)
    BY <1>1, SwitchKeeps
  <2> HIDE DEF s
  <2> QED
    BY <1>1, <1>2, <2>1, <2>2, BurstStep
<1>7. ASSUME NEW lens \in Bursts(MaxBurst), NEW t \in Times, Delete(t, lens)
      PROVE  PInv'
  <2> DEFINE s == DeleteUpTo(st, t)
  <2>1. Transmit(s, lens) /\ NextPhase /\ window' = window /\ replayed' = replayed
    BY <1>7 DEF Delete
  <2>2. Keeps(s, log, now) /\ s.active = st.active /\ (st.active => s = st)
    BY <1>1, <1>2, DeleteKeeps
  <2> HIDE DEF s
  <2> QED
    BY <1>1, <1>2, <2>1, <2>2, BurstStep
<1>8. ASSUME NEW lens \in Bursts(MaxBurst), NEW from \in Times, NEW to \in Times, Downlink(from, to, lens)
      PROVE  PInv'
  <2>1. CASE ~ Arms(st, from, to)
    BY <1>2, <1>3, <1>8, <2>1 DEF Downlink
  <2>2. CASE Arms(st, from, to)
    <3> DEFINE s == ArmRetrieval(st, from, to)
               w == Window(st, from, to)
    <3>1. Transmit(s, lens) /\ NextPhase /\ window' = w /\ replayed' = <<>>
      BY <1>8, <2>2 DEF Downlink
    <3>2. Keeps(s, log, now) /\ s.active /\ w \in Seq(Packet) /\ Replaying(s, w, <<>>)
      BY <1>1, <1>2, ArmKeeps
    <3> HIDE DEF s, w
    <3>3. Len(<<>>) = 0 /\ <<>> \in Seq(Packet) /\ Len(w) \in Nat
      BY <3>2, LenProperties
    <3>4. /\ window' \in Seq(Packet) /\ replayed' \in Seq(Packet) /\ Len(replayed') <= Len(window')
          /\ \A i \in 1 .. Len(replayed') : replayed'[i] = window'[i]
      BY <3>1, <3>2, <3>3
    <3> QED
      BY <1>2, <3>1, <3>2, <3>4, BurstStep
  <2> QED
    BY <2>1, <2>2
<1>9. CASE TcDispatch
  BY <1>5, <1>6, <1>7, <1>8, <1>9 DEF TcDispatch
<1> QED
  BY <1>4, <1>9

(* The offset of the cursor in the window. *)
LEMMA CursorAt ==
    ASSUME PInv, st.active
    PROVE  /\ InWindow(st) <=> Len(replayed) < Len(window)
           /\ InWindow(st) => /\ AtCursor(st) = window[Len(replayed) + 1]
                              /\ AtCursor(st) \in Packet /\ AtCursor(st).len <= OutCap
<1> DEFINE c == st.count
           R == Len(replayed)
           W == Len(window)
<1>1. PICK f \in 0 .. c : st.cursor = f + R /\ Spans(st, window, f, st.end)
  BY DEF PInv, Replaying
<1>2. Keeps(st, log, now) /\ st \in StoreType /\ c \in Nat /\ R \in Nat /\ W \in Nat /\ R <= W
  BY StoreFields, LenProperties DEF PInv, Keeps
<1>3. /\ f + W <= c /\ \A i \in 1 .. W : window[i] = PacketAt(st, f + i - 1)
      /\ \A i \in f .. c - 1 : PacketAt(st, i).time <= st.end <=> i < f + W
  BY <1>1 DEF Spans
<1>4. AtCursor(st) = PacketAt(st, st.cursor)
  BY DEF AtCursor, PacketAt
<1>5. f \in Nat
  <2> HIDE DEF c
  <2> QED
    BY <1>2
<1> DEFINE k == st.cursor
<1>6. InWindow(st) <=> k < c /\ PacketAt(st, k).time <= st.end
  BY <1>4 DEF InWindow
<1>7. k = f + R
  BY <1>1
<1> HIDE DEF k, c, R, W
<1>8. k < c => k \in f .. c - 1 /\ k \in 0 .. c - 1
  BY <1>2, <1>5, <1>7
<1>9. InWindow(st) <=> R < W
  BY <1>2, <1>3, <1>5, <1>6, <1>7, <1>8
<1>10. ASSUME InWindow(st)
       PROVE  /\ AtCursor(st) = window[R + 1]
              /\ AtCursor(st) \in Packet /\ AtCursor(st).len <= OutCap
  <2>1. R + 1 \in 1 .. W /\ f + (R + 1) - 1 = k /\ k \in 0 .. c - 1 /\ k <= k
    BY <1>2, <1>5, <1>6, <1>7, <1>8, <1>9, <1>10
  <2>2. window[R + 1] = PacketAt(st, f + (R + 1) - 1)
    BY <1>3, <2>1
  <2>3. window[R + 1] = PacketAt(st, k)
    BY <2>1, <2>2, Zenon
  <2>4. PacketAt(st, k) \in Packet /\ PacketAt(st, k).len <= OutCap
    BY <1>2, <2>1, RingSorted DEF c
  <2> QED
    BY <1>4, <2>3, <2>4 DEF k
<1> QED
  BY <1>9, <1>10 DEF R, W

LEMMA ReplayStep ==
    ASSUME PInv, ReplayNothing \/ ReplayOne
    PROVE  PInv'
<1> DEFINE R == Len(replayed)
           W == Len(window)
<1>1. /\ Keeps(st, log, now) /\ window \in Seq(Packet) /\ replayed \in Seq(Packet)
      /\ R <= W /\ \A i \in 1 .. R : replayed[i] = window[i]
      /\ st.active => Replaying(st, window, replayed)
      /\ ~ st.active => R = W
      /\ now \in Times /\ emitted \in Nat
  BY DEF PInv
<1>2. R \in Nat /\ W \in Nat /\ st \in StoreType /\ st.active \in BOOLEAN
  BY <1>1, LenProperties DEF Keeps, StoreType
<1>3. /\ NextPhase /\ emitted' = emitted /\ log' = log /\ window' = window
  BY DEF ReplayNothing, ReplayOne
<1>4. now' \in Times /\ now \in Nat /\ now' \in Nat /\ now <= now'
  BY <1>1, <1>3, ClockMoves
<1>5. CASE ReplayNothing
  <2> DEFINE q == [st EXCEPT !.active = FALSE]
  <2>1. st' = q /\ replayed' = replayed /\ ~ (st.active /\ InWindow(st))
    BY <1>5 DEF ReplayNothing
  <2>2. q \in StoreType /\ q.count = st.count /\ q.slots = st.slots /\ q.head = st.head /\ ~ q.active
    BY <1>2 DEF StoreType
  <2> HIDE DEF q
  <2>3. \A i : PacketAt(q, i) = PacketAt(st, i)
    BY <2>2 DEF PacketAt, Slot
  <2>4. Keeps(q, log, now)
    BY <1>1, <2>2, <2>3 DEF Keeps
  <2>5. Keeps(q, log, now')
    BY <1>4, <2>4, KeepsLater
  <2>6. R = W
    <3>1. CASE st.active
      <4>1. ~ (R < W)
        BY <2>1, <3>1, CursorAt
      <4> QED
        BY <1>1, <1>2, <4>1
    <3>2. CASE ~ st.active
      BY <1>1, <3>2
    <3> QED
      BY <3>1, <3>2
  <2> QED
    BY <1>1, <1>3, <1>4, <2>1, <2>2, <2>5, <2>6 DEF PInv
<1>6. CASE ReplayOne
  <2> DEFINE p == AtCursor(st)
             q == [st EXCEPT !.cursor = st.cursor + 1]
             v == Append(replayed, p)
  <2>1. st.active /\ InWindow(st)
    BY <1>6 DEF ReplayOne
  <2>2. R < W /\ p = window[R + 1] /\ p \in Packet /\ p.len <= OutCap
    BY <2>1, CursorAt
  <2>3. st' = q /\ replayed' = v
    BY <1>6, <2>2 DEF ReplayOne
  <2>4. /\ q \in StoreType /\ q.count = st.count /\ q.slots = st.slots /\ q.head = st.head
        /\ q.active = st.active /\ q.end = st.end /\ q.cursor = st.cursor + 1
    BY <1>2 DEF StoreType
  <2> HIDE DEF p, q
  <2>5. v \in Seq(Packet) /\ Len(v) = R + 1 /\ v[R + 1] = p /\ \A i \in 1 .. R : v[i] = replayed[i]
    BY <1>1, <2>2, AppendProperties
  <2> HIDE DEF v
  <2>6. \A i \in 1 .. R + 1 : v[i] = window[i]
    <3> TAKE i \in 1 .. R + 1
    <3>1. i = R + 1 \/ i \in 1 .. R
      BY <1>2
    <3> QED
      BY <1>1, <2>2, <2>5, <3>1
  <2>7. \A i : PacketAt(q, i) = PacketAt(st, i)
    BY <2>4 DEF PacketAt, Slot
  <2>8. Keeps(q, log, now)
    BY <1>1, <2>4, <2>7 DEF Keeps
  <2>9. Keeps(q, log, now')
    BY <1>4, <2>8, KeepsLater
  <2>10. Replaying(q, window, v)
    <3>1. PICK f \in 0 .. st.count : st.cursor = f + R /\ Spans(st, window, f, st.end)
      BY <1>1, <2>1 DEF Replaying
    <3>2. Spans(q, window, f, q.end)
      BY <2>4, <2>7, <3>1 DEF Spans
    <3>3. f \in Int
      OBVIOUS
    <3> HIDE DEF R
    <3>4. q.cursor = f + Len(v)
      BY <1>2, <2>4, <2>5, <3>1, <3>3
    <3> QED
      BY <2>4, <3>2, <3>4 DEF Replaying
  <2>11. Len(v) <= W /\ \A i \in 1 .. Len(v) : v[i] = window[i]
    BY <1>2, <2>2, <2>5, <2>6
  <2> QED
    BY <1>1, <1>3, <1>4, <2>1, <2>3, <2>4, <2>5, <2>9, <2>10, <2>11 DEF PInv
<1> QED
  BY <1>5, <1>6

LEMMA PStepInv == PInv /\ [PNext]_pvars => PInv'
<1> SUFFICES ASSUME PInv, [PNext]_pvars
             PROVE  PInv'
  OBVIOUS
<1>1. CASE UNCHANGED pvars
  BY <1>1 DEF pvars, PInv
<1> QED
  BY <1>1, TelemetryStep, ReplayStep DEF PNext

----------------------------------------------------------------------------
(* What follows for the packet store *)

(* The invariant: the ring is the tail of what was accepted, in the order of *)
(* time, and an armed retrieval stands behind what it has replayed of its    *)
(* window, which is a run of consecutive packets of the ring.                *)
THEOREM PktStoreInvariant == PSpec => []PInv
<1>1. PInit => PInv
  BY PInitInv
<1>2. PInv /\ [PNext]_pvars => PInv'
  BY PStepInv
<1> QED
  BY <1>1, <1>2, PTL DEF PSpec

(* The store holds the newest accepted packets without a hole, oldest first, *)
(* for every capacity, packet size and length of a burst.                    *)
THEOREM NewestAreKept == PSpec => []NewestRun
<1>1. PInv => NewestRun
  <2> SUFFICES ASSUME PInv
               PROVE  NewestRun
    OBVIOUS
  <2> DEFINE c == Contents(st)
             n == st.count
             L == Len(log)
             m == L - n
  <2>1. Keeps(st, log, now) /\ st \in StoreType /\ log \in Seq(Packet) /\ n <= L
    BY DEF PInv, Keeps
  <2>2. n \in Nat /\ L \in Nat
    BY <2>1, StoreFields, LenProperties
  <2>3. c \in Seq(Packet) /\ Len(c) = n /\ \A k \in 1 .. n : c[k] = PacketAt(st, k - 1)
    BY <2>1, ContentsAre
  <2>4. \A i \in 0 .. n - 1 : PacketAt(st, i) = log[L - n + 1 + i]
    BY <2>1 DEF Keeps
  <2>5. \A i, j \in 0 .. n - 1 : i <= j => PacketAt(st, i).time <= PacketAt(st, j).time
    BY <2>1, RingSorted
  <2> HIDE DEF c, n, L
  <2>6. m \in Nat /\ m + n = L /\ L - n + 1 = m + 1
    BY <2>1, <2>2 DEF n, L
  <2> DEFINE q == SubSeq(log, m + 1, L)
  <2>7. /\ q \in Seq(Packet) /\ Len(q) = n
        /\ \A i \in 1 .. n : q[i] = log[m + i]
    <3>1. q = [i \in 1 .. L - (m + 1) + 1 |-> log[i + (m + 1) - 1]]
      BY <2>1, <2>2, <2>6
    <3>2. L - (m + 1) + 1 = n /\ \A i \in 1 .. n : i + (m + 1) - 1 = m + i
      BY <2>2, <2>6
    <3>3. \A i \in 1 .. n : m + i \in 1 .. L
      BY <2>2, <2>6
    <3> HIDE DEF q, m
    <3>4. q = [i \in 1 .. n |-> log[m + i]]
      BY <3>1, <3>2
    <3>5. \A i \in 1 .. n : log[m + i] \in Packet
      BY <2>1, <3>3, ElementOfSeq DEF L
    <3>6. q \in [1 .. n -> Packet]
      BY <3>4, <3>5
    <3>7. q \in Seq(Packet) /\ DOMAIN q = 1 .. n
      BY <2>2, <3>6, SeqDef
    <3>8. Len(q) = n
      BY <2>2, <3>7, LenProperties
    <3> QED
      BY <3>4, <3>7, <3>8
  <2> HIDE DEF q
  <2>8. ASSUME NEW i \in 1 .. n
        PROVE  c[i] = q[i]
    <3> DEFINE j == i - 1
    <3>1. j \in 0 .. n - 1 /\ L - n + 1 + j = m + i
      BY <2>2, <2>6
    <3>2. PacketAt(st, j) = log[L - n + 1 + j]
      BY <2>4, <3>1
    <3>3. c[i] = PacketAt(st, j)
      BY <2>3
    <3> QED
      BY <2>7, <3>1, <3>2, <3>3, Zenon
  <2>9. c = q
    <3>1. c \in [1 .. n -> Packet] /\ q \in [1 .. n -> Packet]
      BY <2>3, <2>7, LenProperties
    <3> DEFINE D == 1 .. n
    <3>2. c \in [D -> Packet] /\ q \in [D -> Packet] /\ \A i \in D : c[i] = q[i]
      BY <2>8, <3>1
    <3> HIDE DEF D
    <3> QED
      BY <3>2
  <2>10. ASSUME NEW i \in 1 .. n - 1
         PROVE  c[i].time <= c[i + 1].time
    <3> DEFINE a == i - 1
               b == i + 1 - 1
    <3>1. i \in 1 .. n /\ i + 1 \in 1 .. n /\ a \in 0 .. n - 1 /\ b \in 0 .. n - 1 /\ a <= b
      BY <2>2
    <3>2. c[i] = PacketAt(st, a) /\ c[i + 1] = PacketAt(st, b)
      BY <2>3, <3>1
    <3> HIDE DEF a, b
    <3>3. PacketAt(st, a).time <= PacketAt(st, b).time
      BY <2>5, <3>1
    <3> QED
      BY <3>2, <3>3, Zenon
  <2>11. c = SubSeq(log, L - n + 1, L)
    BY <2>6, <2>9, Zenon DEF q
  <2> QED
    BY <2>3, <2>10, <2>11 DEF NewestRun, c, n, L
<1> QED
  BY <1>1, PktStoreInvariant, PTL

(* A retrieval replays exactly the packets of its inclusive window, in order *)
(* and once each, whatever is emitted and commanded between two of them.     *)
THEOREM ReplayIsExact == PSpec => []ReplayExact
<1>1. PInv => ReplayExact
  <2> SUFFICES ASSUME PInv
               PROVE  ReplayExact
    OBVIOUS
  <2> DEFINE R == Len(replayed)
             W == Len(window)
             q == SubSeq(window, 1, R)
  <2>1. /\ window \in Seq(Packet) /\ replayed \in Seq(Packet) /\ R <= W
        /\ \A i \in 1 .. R : replayed[i] = window[i]
        /\ ~ st.active => R = W
    BY DEF PInv
  <2>2. R \in Nat /\ W \in Nat
    BY <2>1, LenProperties
  <2>3. q = [i \in 1 .. R - 1 + 1 |-> window[i + 1 - 1]]
    BY <2>1, <2>2
  <2>4. R - 1 + 1 = R /\ \A i \in 1 .. R : i + 1 - 1 = i
    BY <2>2
  <2>5. replayed \in [1 .. R -> Packet] /\ window \in [1 .. W -> Packet]
    BY <2>1, LenProperties
  <2> HIDE DEF q, R, W
  <2>6. q = [i \in 1 .. R |-> window[i]]
    BY <2>3, <2>4
  <2>7. replayed = q
    BY <2>1, <2>5, <2>6
  <2>8. R \in 0 .. W
    BY <2>1, <2>2
  <2>9. \E k \in 0 .. Len(window) : replayed = SubSeq(window, 1, k)
    BY <2>7, <2>8, Zenon DEF q, W
  <2>10. ASSUME ~ st.active
         PROVE  replayed = window
    <3>1. R = W
      BY <2>1, <2>10
    <3> DEFINE D == 1 .. R
               a == replayed
               b == window
    <3>2. a \in [D -> Packet] /\ b \in [D -> Packet] /\ \A i \in D : a[i] = b[i]
      BY <2>1, <2>5, <3>1
    <3> HIDE DEF D, a, b
    <3>3. a = b
      BY <3>2
    <3> QED
      BY <3>3 DEF a, b
  <2> QED
    BY <2>9, <2>10 DEF ReplayExact
<1> QED
  BY <1>1, PktStoreInvariant, PTL
============================================================================
