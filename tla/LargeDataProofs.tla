-------------------------- MODULE LargeDataProofs ---------------------------
(***************************************************************************)
(* The router's verification and numbering, and the large-data downlink    *)
(* composed with it, proved for every set of service reports, counter      *)
(* width, part size, unit length and buffer size, and for any number of    *)
(* transmissions.                                                          *)
(***************************************************************************)
EXTENDS LargeData, NumberLemmas, SequenceTheorems, TLAPS

----------------------------------------------------------------------------
(* What the counts on the wire look like *)

Streams(out) == {Stream(out[i]) : i \in DOMAIN out}

(* The packets out continue the counts q (sequence count) and c (message    *)
(* counters), and seq and msg continue them; no stream occurs twice.        *)
Continues(out, seq, msg, q, c) ==
    /\ \A i \in DOMAIN out : /\ out[i].seq = (q + i) % SeqMod
                             /\ out[i].counter = (c[Stream(out[i])] + 1) % CounterMod
    /\ \A i, j \in DOMAIN out : Stream(out[i]) = Stream(out[j]) => i = j
    /\ seq = (q + Len(out) + 1) % SeqMod
    /\ \A s \in Counters : msg[s] = IF s \in Streams(out) THEN (c[s] + 1 + 1) % CounterMod
                                                          ELSE (c[s] + 1) % CounterMod

(* The counts on the wire after the burst. *)
WireSeq     == IF burst = <<>> THEN last_seq ELSE burst[Len(burst)].seq
WireCounter == [s \in Counters |->
    LET sent == {i \in DOMAIN burst : Stream(burst[i]) = s}
    IN  IF sent = {} THEN last_counter[s] ELSE burst[CHOOSE i \in sent : TRUE].counter]

Buffer(dest) == [out : Seq(Packet), room : Int, seq : 0 .. SeqMod - 1,
                 msg : [Counters -> 0 .. CounterMod - 1], dest : {dest}]

(* A buffer that is being written: well-formed, in sequence, at most n      *)
(* packets of the streams S.                                                *)
Written(b, dest, q, c, S, n) ==
    /\ b \in Buffer(dest)
    /\ Continues(b.out, b.seq, b.msg, q, c)
    /\ Streams(b.out) \subseteq S
    /\ Len(b.out) <= n

RInv ==
    /\ RTypeOK
    /\ last_seq \in 0 .. SeqMod - 1 /\ last_counter \in [Counters -> 0 .. CounterMod - 1]
    /\ Continues(burst, tm_seq_count, msg_counter, last_seq, last_counter)

(* A packet of this process belongs to a stream that has a counter. *)
LEMMA StreamType ==
    ASSUME NEW p \in Packet
    PROVE  Stream(p) \in Counters
  BY DEF Packet, Stream, Counters

(* The next burst starts where the wire is. *)
LEMMA WireContinues ==
    ASSUME RInv
    PROVE  /\ WireSeq \in 0 .. SeqMod - 1 /\ WireCounter \in [Counters -> 0 .. CounterMod - 1]
           /\ tm_seq_count = (WireSeq + 1) % SeqMod
           /\ \A s \in Counters : msg_counter[s] = (WireCounter[s] + 1) % CounterMod
<1>1. /\ burst \in Seq(Packet) /\ SeqMod \in Nat \ {0} /\ CounterMod \in Nat \ {0}
      /\ last_seq \in 0 .. SeqMod - 1 /\ last_counter \in [Counters -> 0 .. CounterMod - 1]
      /\ Continues(burst, tm_seq_count, msg_counter, last_seq, last_counter)
  BY RouterAssumption DEF RInv, RTypeOK
<1>2. Len(burst) \in Nat /\ DOMAIN burst = 1 .. Len(burst) /\ \A i \in DOMAIN burst : burst[i] \in Packet
  BY <1>1, ElementOfSeq, LenProperties
<1>3. WireSeq \in 0 .. SeqMod - 1 /\ tm_seq_count = (WireSeq + 1) % SeqMod
  <2>1. CASE burst = <<>>
    BY <1>1, <2>1 DEF Continues, WireSeq
  <2>2. CASE burst # <<>>
    <3>1. Len(burst) \in DOMAIN burst /\ WireSeq = burst[Len(burst)].seq
      BY <1>1, <1>2, <2>2 DEF WireSeq
    <3>2. /\ WireSeq = (last_seq + Len(burst)) % SeqMod
          /\ tm_seq_count = (last_seq + Len(burst) + 1) % SeqMod
      BY <1>1, <3>1 DEF Continues
    <3>3. last_seq + Len(burst) \in Int
      BY <1>1, <1>2
    <3>4. (((last_seq + Len(burst)) % SeqMod) + 1) % SeqMod = (last_seq + Len(burst) + 1) % SeqMod
      BY <1>1, <3>3, ModSucc
    <3> QED
      BY <1>1, <3>2, <3>3, <3>4, ModRange
  <2> QED
    BY <2>1, <2>2
<1>4. ASSUME NEW s \in Counters
      PROVE  /\ WireCounter[s] \in 0 .. CounterMod - 1
             /\ msg_counter[s] = (WireCounter[s] + 1) % CounterMod
  <2> DEFINE sent == {i \in DOMAIN burst : Stream(burst[i]) = s}
  <2>1. WireCounter[s] = IF sent = {} THEN last_counter[s] ELSE burst[CHOOSE i \in sent : TRUE].counter
    BY DEF WireCounter
  <2>2. CASE sent = {}
    <3>1. s \notin Streams(burst)
      BY <2>2 DEF Streams
    <3> QED
      BY <1>1, <2>1, <2>2, <3>1 DEF Continues
  <2>3. CASE sent # {}
    <3> DEFINE k == CHOOSE i \in sent : TRUE
    <3>1. k \in sent
      BY <2>3
    <3>2. k \in DOMAIN burst /\ Stream(burst[k]) = s /\ s \in Streams(burst)
      BY <3>1 DEF Streams
    <3> HIDE DEF k
    <3>3. /\ burst[k].counter = (last_counter[s] + 1) % CounterMod
          /\ msg_counter[s] = (last_counter[s] + 1 + 1) % CounterMod
      BY <1>1, <3>2 DEF Continues
    <3>4. last_counter[s] + 1 \in Int
      BY <1>1
    <3>5. (((last_counter[s] + 1) % CounterMod) + 1) % CounterMod = (last_counter[s] + 1 + 1) % CounterMod
      BY <1>1, <3>4, ModSucc
    <3>6. WireCounter[s] = burst[k].counter
      BY <2>1, <2>3 DEF k
    <3> QED
      BY <1>1, <3>3, <3>4, <3>5, <3>6, ModRange
  <2> QED
    BY <2>2, <2>3
<1>5. WireCounter \in [Counters -> 0 .. CounterMod - 1]
  BY <1>4 DEF WireCounter
<1> QED
  BY <1>3, <1>4, <1>5

(* An empty output buffer is in sequence with the wire. *)
LEMMA WritingWritten ==
    ASSUME RInv, NEW dest
    PROVE  /\ Written(Writing(dest), dest, WireSeq, WireCounter, {}, 0)
           /\ \A room \in Int :
                 Written([Writing(dest) EXCEPT !.room = room], dest, WireSeq, WireCounter, {}, 0)
<1>1. \A r \in Int :
        [out |-> <<>>, room |-> r, seq |-> tm_seq_count, msg |-> msg_counter, dest |-> dest] \in Buffer(dest)
  BY EmptySeq DEF RInv, RTypeOK, Buffer
<1>2. Continues(<<>>, tm_seq_count, msg_counter, WireSeq, WireCounter)
  <2>1. /\ tm_seq_count = (WireSeq + 1) % SeqMod /\ WireSeq \in Int
        /\ \A s \in Counters : msg_counter[s] = (WireCounter[s] + 1) % CounterMod
    BY WireContinues
  <2>2. Len(<<>>) = 0 /\ DOMAIN <<>> = {}
    OBVIOUS
  <2>3. Streams(<<>>) = {}
    BY <2>2 DEF Streams
  <2> QED
    BY <2>1, <2>2, <2>3 DEF Continues
<1>3. Streams(<<>>) \subseteq {}
  BY DEF Streams
<1>4. /\ Writing(dest) = [out |-> <<>>, room |-> OutCap, seq |-> tm_seq_count, msg |-> msg_counter, dest |-> dest]
      /\ \A room \in Int : [Writing(dest) EXCEPT !.room = room] =
            [out |-> <<>>, room |-> room, seq |-> tm_seq_count, msg |-> msg_counter, dest |-> dest]
  BY DEF Writing
<1>5. OutCap \in Int
  BY RouterAssumption
<1> QED
  BY <1>1, <1>2, <1>3, <1>4, <1>5 DEF Written

LEMMA WrittenLooser ==
    ASSUME NEW dest, NEW q, NEW c, NEW S, NEW T, NEW n \in Nat, NEW m \in Nat, NEW b,
           Written(b, dest, q, c, S, n), S \subseteq T, n <= m
    PROVE  Written(b, dest, q, c, T, m)
<1>1. Len(b.out) \in Nat
  BY LenProperties DEF Written, Buffer
<1>2. Len(b.out) <= m
  BY <1>1 DEF Written
<1>3. Streams(b.out) \subseteq T
  BY DEF Written
<1> QED
  BY <1>2, <1>3 DEF Written

(* The report builder, case by case. *)
Built(b, g, counter, subtype, size) ==
    /\ b.room < size => g = b
    /\ ~(b.room < size) =>
         /\ g = [out  |-> Append(b.out, [subtype |-> subtype, size |-> size, dest |-> b.dest,
                                         seq |-> b.seq, counter |-> b.msg[counter]]),
                 room |-> b.room - size, seq |-> (b.seq + 1) % SeqMod,
                 msg  |-> [b.msg EXCEPT ![counter] = (@ + 1) % CounterMod], dest |-> b.dest]

LEMMA BuildCases ==
    ASSUME NEW dest, NEW b \in Buffer(dest), NEW counter, NEW subtype, NEW size
    PROVE  Built(b, Build(b, counter, subtype, size), counter, subtype, size)
<1>1. CASE b.room < size
  BY <1>1 DEF Build, Built
<1>2. CASE ~(b.room < size)
  BY <1>2 DEF Build, Built, Buffer
<1> QED
  BY <1>1, <1>2


(* One more packet, numbered with the next counts, keeps the sequence. *)
StillContinues(out, seq, msg, q, c, p, k) ==
    /\ Continues(Append(out, p), (seq + 1) % SeqMod, [msg EXCEPT ![k] = (@ + 1) % CounterMod], q, c)
    /\ Streams(Append(out, p)) = Streams(out) \cup {k}

LEMMA ContinuesAppend ==
    ASSUME NEW q \in Nat, NEW c, \A s \in Counters : c[s] \in Nat,
           NEW out \in Seq(Packet), NEW seq, NEW msg, DOMAIN msg = Counters,
           Continues(out, seq, msg, q, c),
           NEW p \in Packet, NEW k \in Counters, Stream(p) = k, k \notin Streams(out),
           p.seq = seq, p.counter = msg[k]
    PROVE  StillContinues(out, seq, msg, q, c, p, k)
<1> DEFINE new == Append(out, p)
           num == [msg EXCEPT ![k] = (@ + 1) % CounterMod]
<1>1. SeqMod \in Nat \ {0} /\ CounterMod \in Nat \ {0} /\ Len(out) \in Nat /\ DOMAIN out = 1 .. Len(out)
  BY RouterAssumption, LenProperties
<1>2. /\ Len(new) = Len(out) + 1 /\ DOMAIN new = 1 .. Len(out) + 1
      /\ \A i \in 1 .. Len(out) : new[i] = out[i]
      /\ new[Len(out) + 1] = p
  BY AppendProperties, LenProperties
<1>3. num[k] = (msg[k] + 1) % CounterMod /\ \A s \in Counters : s # k => num[s] = msg[s]
  OBVIOUS
<1> HIDE DEF new, num
<1>4. Streams(new) = Streams(out) \cup {k}
  <2>1. Streams(new) \subseteq Streams(out) \cup {k}
    <3> SUFFICES ASSUME NEW i \in DOMAIN new
                 PROVE  Stream(new[i]) \in Streams(out) \cup {k}
      BY DEF Streams
    <3>1. i \in 1 .. Len(out) \/ i = Len(out) + 1
      BY <1>1, <1>2
    <3> QED
      BY <1>1, <1>2, <3>1 DEF Streams
  <2>2. Streams(out) \subseteq Streams(new)
    <3> SUFFICES ASSUME NEW i \in DOMAIN out
                 PROVE  Stream(out[i]) \in Streams(new)
      BY DEF Streams
    <3>1. i \in DOMAIN new /\ new[i] = out[i]
      BY <1>1, <1>2
    <3> QED
      BY <3>1 DEF Streams
  <2>3. k \in Streams(new)
    <3>1. Len(out) + 1 \in DOMAIN new
      BY <1>1, <1>2
    <3> QED
      BY <1>2, <3>1 DEF Streams
  <2> QED
    BY <2>1, <2>2, <2>3
<1>5. ASSUME NEW i \in DOMAIN new
      PROVE  /\ new[i].seq = (q + i) % SeqMod
             /\ new[i].counter = (c[Stream(new[i])] + 1) % CounterMod
  <2>1. CASE i \in 1 .. Len(out)
    BY <1>1, <1>2, <2>1 DEF Continues
  <2>2. CASE i = Len(out) + 1
    <3>1. q + Len(out) + 1 = q + i
      BY <1>1, <2>2
    <3>2. seq = (q + i) % SeqMod
      BY <3>1 DEF Continues
    <3>3. msg[k] = (c[k] + 1) % CounterMod
      BY DEF Continues
    <3>4. new[i] = p
      BY <1>2, <2>2
    <3> QED
      BY <3>2, <3>3, <3>4
  <2> QED
    BY <1>1, <1>2, <2>1, <2>2
<1>6. ASSUME NEW i \in DOMAIN new, NEW j \in DOMAIN new, Stream(new[i]) = Stream(new[j])
      PROVE  i = j
  <2>1. \A l \in DOMAIN new : l \in 1 .. Len(out) \/ l = Len(out) + 1
    BY <1>1, <1>2
  <2>2. \A l \in 1 .. Len(out) : new[l] = out[l] /\ Stream(out[l]) \in Streams(out)
    BY <1>1, <1>2 DEF Streams
  <2>3. CASE i \in 1 .. Len(out) /\ j \in 1 .. Len(out)
    BY <1>1, <1>6, <2>2, <2>3 DEF Continues
  <2>4. CASE i = Len(out) + 1 /\ j = Len(out) + 1
    BY <2>4
  <2>5. CASE i = Len(out) + 1 /\ j \in 1 .. Len(out)
    BY <1>2, <1>6, <2>2, <2>5
  <2>6. CASE j = Len(out) + 1 /\ i \in 1 .. Len(out)
    BY <1>2, <1>6, <2>2, <2>6
  <2> QED
    BY <2>1, <2>3, <2>4, <2>5, <2>6
<1>7. (seq + 1) % SeqMod = (q + Len(new) + 1) % SeqMod
  <2>1. seq = (q + Len(out) + 1) % SeqMod /\ q + Len(out) + 1 \in Int
    BY <1>1 DEF Continues
  <2>2. (((q + Len(out) + 1) % SeqMod) + 1) % SeqMod = (q + Len(out) + 1 + 1) % SeqMod
    BY <1>1, <2>1, ModSucc
  <2>3. q + Len(new) + 1 = q + Len(out) + 1 + 1
    BY <1>1, <1>2
  <2> QED
    BY <2>1, <2>2, <2>3
<1>8. ASSUME NEW s \in Counters
      PROVE  num[s] = IF s \in Streams(new) THEN (c[s] + 1 + 1) % CounterMod ELSE (c[s] + 1) % CounterMod
  <2>1. CASE s = k
    <3>1. msg[s] = (c[s] + 1) % CounterMod /\ c[s] + 1 \in Int
      BY <2>1 DEF Continues
    <3>2. (((c[s] + 1) % CounterMod) + 1) % CounterMod = (c[s] + 1 + 1) % CounterMod
      BY <1>1, <3>1, ModSucc
    <3> QED
      BY <1>3, <1>4, <2>1, <3>1, <3>2
  <2>2. CASE s # k
    BY <1>3, <1>4, <2>2 DEF Continues
  <2> QED
    BY <2>1, <2>2
<1>9. Continues(new, (seq + 1) % SeqMod, num, q, c)
  BY <1>5, <1>6, <1>7, <1>8 DEF Continues
<1> QED
  BY <1>4, <1>9 DEF new, num, StillContinues

(* The stream of a report to a destination. *)
StreamOf(subtype, dest) == IF subtype = "3,25" /\ dest = "0" THEN LoopHk ELSE subtype

(* One more report keeps the buffer in sequence. *)
LEMMA BuildWritten ==
    ASSUME NEW dest \in {"0", "source"}, NEW q \in 0 .. SeqMod - 1, NEW c \in [Counters -> 0 .. CounterMod - 1],
           NEW S, NEW n \in Nat, NEW b, Written(b, dest, q, c, S, n),
           NEW k \in Counters, k \notin S, NEW subtype \in Subtypes, NEW size \in Nat,
           StreamOf(subtype, dest) = k,
           NEW T, S \subseteq T, k \in T, NEW m \in Nat, n + 1 <= m
    PROVE  Written(Build(b, k, subtype, size), dest, q, c, T, m)
<1> DEFINE g == Build(b, k, subtype, size)
           p == [subtype |-> subtype, size |-> size, dest |-> b.dest, seq |-> b.seq, counter |-> b.msg[k]]
<1>1. /\ b \in Buffer(dest) /\ Continues(b.out, b.seq, b.msg, q, c)
      /\ Streams(b.out) \subseteq S /\ Len(b.out) <= n
  BY DEF Written
<1>2. Built(b, g, k, subtype, size)
  BY <1>1, BuildCases
<1>3. /\ b.out \in Seq(Packet) /\ b.room \in Int /\ b.seq \in 0 .. SeqMod - 1
      /\ b.msg \in [Counters -> 0 .. CounterMod - 1] /\ b.dest = dest
  BY <1>1 DEF Buffer
<1>4. Len(b.out) \in Nat
  BY <1>3, LenProperties
<1>5. p \in Packet /\ Stream(p) = k /\ p.seq = b.seq /\ p.counter = b.msg[k]
  BY <1>3 DEF Packet, Stream, StreamOf
<1>6. CASE b.room < size
  <2>1. g = b
    BY <1>2, <1>6 DEF Built
  <2>2. Streams(b.out) \subseteq T
    BY <1>1
  <2>3. Len(b.out) <= m
    BY <1>1, <1>4
  <2> QED
    BY <1>1, <2>1, <2>2, <2>3 DEF Written
<1>7. CASE ~(b.room < size)
  <2> DEFINE out == Append(b.out, p)
             msg == [b.msg EXCEPT ![k] = (@ + 1) % CounterMod]
             seq == (b.seq + 1) % SeqMod
  <2>1. g = [out |-> out, room |-> b.room - size, seq |-> seq, msg |-> msg, dest |-> b.dest]
    BY <1>2, <1>7 DEF Built
  <2> HIDE DEF g, p
  <2>2. out \in Seq(Packet) /\ Len(out) = Len(b.out) + 1
    BY <1>3, <1>5, AppendProperties
  <2>3. Continues(out, seq, msg, q, c) /\ Streams(out) = Streams(b.out) \cup {k}
    <3>1. q \in Nat /\ (\A s \in Counters : c[s] \in Nat) /\ DOMAIN b.msg = Counters
      BY <1>3
    <3>2. k \notin Streams(b.out)
      BY <1>1
    <3>3. StillContinues(b.out, b.seq, b.msg, q, c, p, k)
      BY <1>1, <1>3, <1>5, <3>1, <3>2, ContinuesAppend
    <3> QED
      BY <3>3 DEF StillContinues
  <2>4. seq \in 0 .. SeqMod - 1 /\ msg \in [Counters -> 0 .. CounterMod - 1]
    <3>1. SeqMod \in Nat \ {0} /\ CounterMod \in Nat \ {0} /\ b.seq + 1 \in Int /\ b.msg[k] + 1 \in Int
      BY <1>3, RouterAssumption
    <3>2. seq \in 0 .. SeqMod - 1 /\ (b.msg[k] + 1) % CounterMod \in 0 .. CounterMod - 1
      BY <3>1, ModRange
    <3> QED
      BY <1>3, <3>2
  <2> HIDE DEF out, msg, seq
  <2>5. b.room - size \in Int
    BY <1>3
  <2>6. g \in Buffer(dest) /\ g.out = out /\ g.seq = seq /\ g.msg = msg
    BY <1>3, <2>1, <2>2, <2>4, <2>5 DEF Buffer
  <2>7. Len(out) <= m
    BY <1>1, <1>4, <2>2
  <2>8. Streams(out) \subseteq T
    BY <1>1, <2>3
  <2> QED
    BY <2>3, <2>6, <2>7, <2>8 DEF Written, g
<1> QED
  BY <1>6, <1>7


----------------------------------------------------------------------------
(* The router's bursts *)

(* What was written is transmitted: the counts on the wire are history, the *)
(* burst continues them.                                                    *)
LEMMA TransmitKeeps ==
    ASSUME RInv, NEW dest, NEW S, NEW b, Written(b, dest, WireSeq, WireCounter, S, 3),
           Transmit(b), tc' \in Telecommands
    PROVE  RInv'
<1>1. /\ b \in Buffer(dest) /\ Continues(b.out, b.seq, b.msg, WireSeq, WireCounter) /\ Len(b.out) <= 3
  BY DEF Written
<1>2. /\ burst' = b.out /\ tm_seq_count' = b.seq /\ msg_counter' = b.msg
      /\ last_seq' = WireSeq /\ last_counter' = WireCounter
  BY DEF Transmit, WireSeq, WireCounter
<1>3. /\ b.out \in Seq(Packet) /\ b.seq \in 0 .. SeqMod - 1 /\ b.msg \in [Counters -> 0 .. CounterMod - 1]
  BY <1>1 DEF Buffer
<1>4. RTypeOK'
  BY <1>1, <1>2, <1>3 DEF RTypeOK
<1>5. last_seq' \in 0 .. SeqMod - 1 /\ last_counter' \in [Counters -> 0 .. CounterMod - 1]
  BY <1>2, WireContinues
<1>6. Continues(burst', tm_seq_count', msg_counter', last_seq', last_counter')
  BY <1>1, <1>2
<1> QED
  BY <1>4, <1>5, <1>6 DEF RInv

LEMMA SubtypeTypes ==
    /\ "1,1" \in Subtypes /\ "1,2" \in Subtypes /\ "1,7" \in Subtypes /\ "1,8" \in Subtypes
    /\ "5" \in Subtypes /\ "3,25" \in Subtypes
    /\ "13,1" \in Subtypes /\ "13,2" \in Subtypes /\ "13,3" \in Subtypes
    /\ \A r \in Replies : r[1] \in Subtypes /\ r[1] \notin Verification /\ r[2] \in Nat
    /\ Subtypes \subseteq Counters /\ LoopHk \in Counters
<1>1. \A r \in Replies : r[1] \in Subtypes
  BY DEF Subtypes
<1>2. \A r \in Replies : r[1] \notin Verification /\ r[2] \in Nat
  BY RouterAssumption
<1>3. /\ "1,1" \in Subtypes /\ "1,2" \in Subtypes /\ "1,7" \in Subtypes /\ "1,8" \in Subtypes
      /\ "5" \in Subtypes /\ "3,25" \in Subtypes
      /\ "13,1" \in Subtypes /\ "13,2" \in Subtypes /\ "13,3" \in Subtypes
  BY DEF Subtypes, Verification, Spontaneous
<1> QED
  BY <1>1, <1>2, <1>3 DEF Counters

(* A telecommand by its verdict. *)
LEMMA TelecommandCases ==
    ASSUME NEW t \in Telecommands
    PROVE  /\ t.verdict = "ok" => t \in Accepted /\ t.acks \in Acks /\ t.answer \in Answers
           /\ t.verdict = "noise" <=> t = Noise
           /\ t.verdict \in {"ok", "noise", "length", "crc", "version", "service"}
           /\ t.verdict \in {"crc", "version", "service"} => t.acks \in Acks
<1>1. CASE t = Noise
  BY <1>1 DEF Noise
<1>2. CASE t = BadLen
  BY <1>2 DEF BadLen, Noise
<1>3. CASE t \in Failing
  BY <1>3 DEF Failing, Noise
<1>4. CASE t \in Accepted
  BY <1>4 DEF Accepted, Noise
<1> QED
  BY <1>1, <1>2, <1>3, <1>4 DEF Telecommands

LEMMA AnswerCases ==
    ASSUME NEW a \in Answers
    PROVE  /\ a.kind \in {"quiet", "unknown subtype", "failure", "report"}
           /\ a.kind = "report" => a.reply \in Replies
  BY DEF Answers

LEMMA SizeTypes == SUCCESS_SIZE \in Nat /\ FAILURE_SIZE \in Nat /\ HK_SIZE \in Nat /\ EVENT_SIZE \in Nat
  BY DEF SUCCESS_SIZE, FAILURE_SIZE, HK_SIZE, EVENT_SIZE

(* An accepted telecommand is answered in sequence: at most one packet of   *)
(* each stream.                                                             *)
LEMMA AcceptedWritten ==
    ASSUME RInv, NEW t \in Telecommands, t.verdict = "ok"
    PROVE  \E S : Written(WriteAccepted(t), "source", WireSeq, WireCounter, S, 3)
<1> DEFINE q  == WireSeq
           c  == WireCounter
           b  == Writing("source")
           b0 == IF "acceptance" \in t.acks THEN BuildAcceptance(b, TRUE) ELSE b
           b1 == Route(b0, t.answer)
           ok == Executed(b0, b1, t.answer)
           b2 == BuildCompletion(b1, ok)
           R  == IF t.answer.kind = "report" THEN {t.answer.reply[1]} ELSE {}
           a  == "1,1"
           N  == {}
           S0 == {"1,1"}
           S1 == {"1,1"} \cup R
<1>1. q \in 0 .. SeqMod - 1 /\ c \in [Counters -> 0 .. CounterMod - 1]
  BY WireContinues
<1>2. t.answer \in Answers
  BY TelecommandCases
<1>3. N \subseteq S0 /\ S0 \subseteq S1 /\ a \in S0 /\ a \notin N
  OBVIOUS
<1>a. a \in Counters /\ a \in Subtypes /\ StreamOf(a, "source") = a
  BY SubtypeTypes DEF StreamOf
<1>r. /\ "1,7" \notin S1 /\ "1,8" \notin S1
      /\ t.answer.kind = "report" =>
           /\ t.answer.reply \in Replies
           /\ t.answer.reply[1] \in S1 /\ t.answer.reply[1] \notin S0
  BY <1>2, AnswerCases, SubtypeTypes DEF Verification
<1>4. Written(b, "source", q, c, N, 0)
  BY WritingWritten
<1> HIDE DEF q, c, b, R, S0, S1, N, a
<1>5. Written(b0, "source", q, c, S0, 1)
  <2>1. CASE "acceptance" \in t.acks
    <3>1. b0 = Build(b, a, a, SUCCESS_SIZE)
      BY <2>1 DEF BuildAcceptance, a
    <3>2. Written(Build(b, a, a, SUCCESS_SIZE), "source", q, c, S0, 1)
      BY <1>1, <1>3, <1>4, <1>a, SizeTypes, BuildWritten
    <3> QED
      BY <3>1, <3>2
  <2>2. CASE "acceptance" \notin t.acks
    <3>1. b0 = b
      BY <2>2
    <3>2. Written(b, "source", q, c, S0, 1)
      BY <1>3, <1>4, WrittenLooser
    <3> QED
      BY <3>1, <3>2
  <2> QED
    BY <2>1, <2>2
<1> HIDE DEF b0
<1>6. Written(b1, "source", q, c, S1, 2)
  <2>1. CASE t.answer.kind = "report"
    <3> DEFINE r == t.answer.reply
    <3>1. r \in Replies /\ r[1] \in S1 /\ r[1] \notin S0
      BY <1>r, <2>1
    <3>2. b1 = Build(b0, r[1], r[1], r[2])
      BY <2>1 DEF Route
    <3> HIDE DEF r, b1
    <3>3. r[1] \in Subtypes /\ r[1] \in Counters /\ r[2] \in Nat
      BY <3>1, SubtypeTypes
    <3>4. StreamOf(r[1], "source") = r[1]
      BY DEF StreamOf
    <3>5. Written(Build(b0, r[1], r[1], r[2]), "source", q, c, S1, 2)
      BY <1>1, <1>3, <1>5, <3>1, <3>3, <3>4, BuildWritten
    <3> QED
      BY <3>2, <3>5
  <2>2. CASE t.answer.kind # "report"
    <3>1. b1 = b0
      BY <2>2 DEF Route
    <3> QED
      BY <1>3, <1>5, <3>1, WrittenLooser
  <2> QED
    BY <2>1, <2>2
<1> HIDE DEF b1
<1>7. \E S : Written(b2, "source", q, c, S, 3)
  <2> DEFINE k == IF ok THEN "1,7" ELSE "1,8"
             z == IF ok THEN SUCCESS_SIZE ELSE FAILURE_SIZE
             T == S1 \cup {k}
  <2>1. b2 = Build(b1, k, k, z)
    BY DEF BuildCompletion
  <2>2. k \in Subtypes /\ k \in Counters /\ k \notin S1 /\ StreamOf(k, "source") = k /\ z \in Nat
    BY <1>r, SubtypeTypes, SizeTypes DEF StreamOf
  <2>3. S1 \subseteq T /\ k \in T
    OBVIOUS
  <2> HIDE DEF b2, k, z, ok, T
  <2>4. Written(Build(b1, k, k, z), "source", q, c, T, 3)
    BY <1>1, <1>6, <2>2, <2>3, BuildWritten
  <2>5. Written(b2, "source", q, c, T, 3)
    BY <2>1, <2>4
  <2> QED
    BY <2>5, Zenon
<1>8. \E S : Written(b1, "source", q, c, S, 3)
  <2>1. S1 \subseteq S1
    OBVIOUS
  <2>2. Written(b1, "source", q, c, S1, 3)
    BY <1>6, <2>1, WrittenLooser
  <2> QED
    BY <2>2, Zenon
<1>9. WriteAccepted(t) = IF "completion" \in t.acks THEN b2 ELSE b1
  BY DEF WriteAccepted, b, b0, b1
<1> HIDE DEF b2
<1> QED
  BY <1>7, <1>8, <1>9 DEF q, c

(* A rejected one by at most one report. *)
LEMMA FailureWritten ==
    ASSUME RInv, NEW dest \in {"0", "source"}
    PROVE  Written(BuildAcceptance(Writing(dest), FALSE), dest, WireSeq, WireCounter, {"1,2"}, 3)
<1> DEFINE b == Writing(dest)
           a == "1,2"
           N == {}
           T == {a}
<1>1. Written(b, dest, WireSeq, WireCounter, N, 0)
  BY WritingWritten
<1>2. a \in Counters /\ a \in Subtypes /\ StreamOf(a, dest) = a
  BY SubtypeTypes DEF StreamOf
<1>3. BuildAcceptance(b, FALSE) = Build(b, a, a, FAILURE_SIZE)
  BY DEF BuildAcceptance
<1>4. N \subseteq T /\ a \in T /\ a \notin N
  OBVIOUS
<1> HIDE DEF a, b, N, T
<1>5. Written(Build(b, a, a, FAILURE_SIZE), dest, WireSeq, WireCounter, T, 3)
  BY <1>1, <1>2, <1>4, WireContinues, SizeTypes, BuildWritten
<1> QED
  BY <1>3, <1>5 DEF a, b, T

LEMMA RejectedWritten ==
    ASSUME RInv, NEW t
    PROVE  \E S : Written(WriteRejected(t), "source", WireSeq, WireCounter, S, 3)
<1> DEFINE d == "source"
           b == Writing(d)
           f == BuildAcceptance(b, FALSE)
           N == {}
           T == {"1,2"}
<1>1. WriteRejected(t) = b \/ WriteRejected(t) = f
  BY DEF WriteRejected
<1>2. Written(b, d, WireSeq, WireCounter, N, 0) /\ N \subseteq N
  BY WritingWritten
<1>3. Written(f, d, WireSeq, WireCounter, T, 3)
  BY FailureWritten
<1> HIDE DEF b, d, f, N, T
<1>4. Written(b, d, WireSeq, WireCounter, N, 3)
  BY <1>2, WrittenLooser
<1>5. \E S : Written(WriteRejected(t), d, WireSeq, WireCounter, S, 3)
  BY <1>1, <1>3, <1>4, Zenon
<1> QED
  BY <1>5 DEF d

(* A burst of one report of the loop's own. *)
LEMMA ReportWritten ==
    ASSUME RInv, NEW b, Written(b, "0", WireSeq, WireCounter, {}, 0),
           NEW k \in Counters, NEW subtype \in Subtypes, NEW size \in Nat, StreamOf(subtype, "0") = k
    PROVE  Written(Build(b, k, subtype, size), "0", WireSeq, WireCounter, {k}, 3)
<1> DEFINE d == "0"
           N == {}
           T == {k}
<1>1. d \in {"0", "source"} /\ N \subseteq T /\ k \in T /\ k \notin N
  OBVIOUS
<1>2. Written(b, d, WireSeq, WireCounter, N, 0) /\ StreamOf(subtype, d) = k
  OBVIOUS
<1> HIDE DEF d, N, T
<1>3. Written(Build(b, k, subtype, size), d, WireSeq, WireCounter, T, 3)
  BY <1>1, <1>2, WireContinues, BuildWritten
<1> QED
  BY <1>3 DEF d, T

(* A spontaneous transmission leaves the router's counts alone. *)
LEMMA ReportStep ==
    ASSUME RInv, NEW b, NEW S, Written(b, "0", WireSeq, WireCounter, S, 3), Report(b)
    PROVE  RInv'
<1>1. /\ Transmit(b) /\ tc' = Noise
  BY DEF Report
<1>2. tc' \in Telecommands
  BY <1>1 DEF Telecommands
<1> QED
  BY <1>1, <1>2, TransmitKeeps

LEMMA RInitInv == RInit => RInv
<1> SUFFICES ASSUME RInit
             PROVE  RInv
  OBVIOUS
<1>1. SeqMod \in Nat \ {0} /\ CounterMod \in Nat \ {0}
  BY RouterAssumption
<1>2. /\ burst = <<>> /\ burst \in Seq(Packet) /\ Len(burst) = 0 /\ DOMAIN burst = {}
  BY DEF RInit
<1>3. RTypeOK
  BY <1>1, <1>2 DEF RInit, RTypeOK, Telecommands
<1>4. Continues(burst, tm_seq_count, msg_counter, last_seq, last_counter)
  <2>1. Streams(burst) = {}
    BY <1>2 DEF Streams
  <2>2. \A s \in Counters : msg_counter[s] = 0 /\ last_counter[s] = CounterMod - 1
    BY DEF RInit
  <2>3. (CounterMod - 1 + 1) % CounterMod = 0 /\ (SeqMod - 1 + 0 + 1) % SeqMod = 0
    BY <1>1
  <2>4. tm_seq_count = (last_seq + Len(burst) + 1) % SeqMod
    BY <1>2, <2>3 DEF RInit
  <2> QED
    BY <1>2, <2>1, <2>2, <2>3, <2>4 DEF Continues
<1> QED
  BY <1>1, <1>3, <1>4 DEF RInv, RInit

LEMMA RStepInv == RInv /\ RNext => RInv'
<1> SUFFICES ASSUME RInv, RNext
             PROVE  RInv'
  OBVIOUS
<1>1. ASSUME NEW t \in Telecommands, Accept(t)
      PROVE  RInv'
  <2>1. PICK S : Written(WriteAccepted(t), "source", WireSeq, WireCounter, S, 3)
    BY <1>1, AcceptedWritten DEF Accept
  <2>2. Transmit(WriteAccepted(t)) /\ tc' \in Telecommands
    BY <1>1 DEF Accept
  <2> QED
    BY <2>1, <2>2, TransmitKeeps
<1>2. ASSUME NEW t \in Telecommands, RejectLength(t)
      PROVE  RInv'
  <2>1. \E S : Written(WriteLengthError, "0", WireSeq, WireCounter, S, 3)
    BY FailureWritten DEF WriteLengthError
  <2>2. Transmit(WriteLengthError) /\ tc' \in Telecommands
    BY <1>2 DEF RejectLength
  <2> QED
    BY <2>1, <2>2, TransmitKeeps
<1>3. ASSUME NEW t \in Telecommands, Reject(t)
      PROVE  RInv'
  <2>1. PICK S : Written(WriteRejected(t), "source", WireSeq, WireCounter, S, 3)
    BY RejectedWritten
  <2>2. Transmit(WriteRejected(t)) /\ tc' \in Telecommands
    BY <1>3 DEF Reject
  <2> QED
    BY <2>1, <2>2, TransmitKeeps
<1>4. ASSUME NEW t \in Telecommands, Ignore(t)
      PROVE  RInv'
  <2> DEFINE b == Writing("0")
             N == {}
  <2>1. Written(b, "0", WireSeq, WireCounter, N, 0) /\ N \subseteq N
    BY WritingWritten
  <2>2. Transmit(b) /\ tc' \in Telecommands
    BY <1>4 DEF Ignore
  <2> HIDE DEF b, N
  <2>3. Written(b, "0", WireSeq, WireCounter, N, 3)
    BY <2>1, WrittenLooser
  <2> QED
    BY <2>2, <2>3, TransmitKeeps
<1>5. CASE ReportEvent
  <2> DEFINE b == Writing("0")
             g == Build(b, "5", "5", EVENT_SIZE)
  <2>1. Written(b, "0", WireSeq, WireCounter, {}, 0)
    BY WritingWritten
  <2>2. "5" \in Counters /\ "5" \in Subtypes /\ StreamOf("5", "0") = "5"
    BY SubtypeTypes DEF StreamOf
  <2>3. \E S : Written(g, "0", WireSeq, WireCounter, S, 3)
    BY <2>1, <2>2, SizeTypes, ReportWritten
  <2>4. Report(g)
    BY <1>5 DEF ReportEvent
  <2> HIDE DEF g
  <2> QED
    BY <2>3, <2>4, ReportStep
<1>6. CASE ReportHk
  <2> DEFINE b == Writing("0")
             g == Build(b, LoopHk, "3,25", HK_SIZE)
  <2>1. Written(b, "0", WireSeq, WireCounter, {}, 0)
    BY WritingWritten
  <2>2. LoopHk \in Counters /\ "3,25" \in Subtypes /\ StreamOf("3,25", "0") = LoopHk
    BY SubtypeTypes DEF StreamOf
  <2>3. \E S : Written(g, "0", WireSeq, WireCounter, S, 3)
    BY <2>1, <2>2, SizeTypes, ReportWritten
  <2>4. Report(g)
    BY <1>6 DEF ReportHk
  <2> HIDE DEF g
  <2> QED
    BY <2>3, <2>4, ReportStep
<1> QED
  BY <1>1, <1>2, <1>3, <1>4, <1>5, <1>6 DEF RNext


----------------------------------------------------------------------------
(* The large-data session *)

Session == [state : {"IDLE", "ACTIVE"}, unit_len : 0 .. UnitMax, cursor : Nat,
            transaction_id : Transactions \cup {0}, next_part : Nat, total_parts : 0 .. PartMod - 1]

(* The position behind the first n parts of a unit. *)
Behind(n, total, len) == IF n = total THEN len ELSE n * PartSize

(* total parts of PartSize positions cover the unit, and one less does not. *)
Covers(total, len) ==
    \/ total = 0 /\ len = 0
    \/ total > 0 /\ (total - 1) * PartSize < len /\ len <= total * PartSize

(* The parts the ground has are the first ones of the session's unit. *)
PartAt(s, k) ==
    [transaction_id |-> s.transaction_id, number |-> k - 1, total |-> s.total_parts,
     subtype |-> SubtypeFor(k - 1, s.total_parts),
     from |-> Behind(k - 1, s.total_parts, s.unit_len), upto |-> Behind(k, s.total_parts, s.unit_len)]

Cut(s, ps) ==
    /\ s \in Session
    /\ Covers(s.total_parts, s.unit_len)
    /\ s.next_part <= s.total_parts
    /\ s.state = "IDLE" <=> s.next_part = s.total_parts
    /\ s.cursor = Behind(s.next_part, s.total_parts, s.unit_len)
    /\ ps = [k \in 1 .. s.next_part |-> PartAt(s, k)]

LInv == RInv /\ Cut(session, parts)

(* The ceiling division of migris_largedata_start, for a unit that fits.    *)
LEMMA PartsOfCovers ==
    ASSUME NEW len \in Nat, len # 0, len <= UnitMax
    PROVE  PartsOf(len) \in 1 .. PartMod - 1 /\ Covers(PartsOf(len), len)
<1> DEFINE S == PartSize
           P == PartMod
           T == (len + S - 1) \div S
<1>1. S \in Nat \ {0} /\ P \in Nat \ {0} /\ UnitMax \in Nat /\ UnitMax <= S * (P - 1)
  BY LargeDataAssumption
<1>2. PartsOf(len) = T % P
  BY DEF PartsOf
<1> HIDE DEF S, P
<1>3. /\ T \in Int /\ T * S <= len + S - 1 /\ len + S - 1 < T * S + S
  BY <1>1
<1> HIDE DEF T
<1>4. len <= T * S /\ (T - 1) * S < len
  <2>1. (T - 1) * S = T * S - S
    BY <1>1, <1>3
  <2> QED
    BY <1>1, <1>3, <2>1
<1>5. 0 < T
  <2>1. ASSUME T <= 0
        PROVE  FALSE
    <3>1. T * S <= 0
      BY <1>1, <1>3, <2>1
    <3> QED
      BY <1>1, <1>3, <1>4, <3>1
  <2> QED
    BY <1>3, <2>1
<1>6. T < P
  <2>1. ASSUME P <= T
        PROVE  FALSE
    <3>1. (P - 1) * S <= (T - 1) * S
      BY <1>1, <1>3, <2>1
    <3>2. (P - 1) * S = S * (P - 1)
      BY <1>1
    <3> QED
      BY <1>1, <1>3, <1>4, <3>1, <3>2
  <2> QED
    BY <1>1, <1>3, <2>1
<1>7. T % P = T
  BY <1>1, <1>3, <1>5, <1>6, ModSmall
<1> QED
  BY <1>1, <1>2, <1>3, <1>4, <1>5, <1>6, <1>7 DEF Covers, S, P

(* The next part: where it starts, how long it is and what it leaves.       *)
LEMMA ChunkCases ==
    ASSUME Cut(session, parts), session.state = "ACTIVE"
    PROVE  /\ session.next_part < session.total_parts
           /\ session.cursor < session.unit_len
           /\ Chunk \in 1 .. PartSize
           /\ session.cursor = Behind(session.next_part, session.total_parts, session.unit_len)
           /\ session.cursor + Chunk = Behind(session.next_part + 1, session.total_parts, session.unit_len)
           /\ (session.next_part + 1) % PartMod = session.next_part + 1
<1> DEFINE S == PartSize
           n == session.next_part
           T == session.total_parts
           L == session.unit_len
           c == session.cursor
<1>1. S \in Nat \ {0} /\ PartMod \in Nat \ {0}
  BY LargeDataAssumption
<1>2. n \in Nat /\ T \in Nat /\ T < PartMod /\ L \in Nat /\ c \in Nat
  BY <1>1, LargeDataAssumption DEF Cut, Session
<1>3. Covers(T, L) /\ n <= T /\ n # T /\ c = Behind(n, T, L)
  BY DEF Cut
<1>4. Chunk = IF L - c > S THEN S ELSE L - c
  BY DEF Chunk
<1>5. Behind(n, T, L) = n * S /\ Behind(n + 1, T, L) = IF n + 1 = T THEN L ELSE (n + 1) * S
  BY <1>3 DEF Behind
<1>6. 0 < T /\ (T - 1) * S < L /\ L <= T * S
  BY <1>2, <1>3 DEF Covers, S
<1> HIDE DEF S, n, T, L, c
<1>7. n < T /\ n + 1 <= T
  BY <1>2, <1>3
<1>8. c = n * S /\ (n + 1) * S = n * S + S /\ n * S \in Int /\ (n + 1) * S \in Int
  BY <1>1, <1>2, <1>3, <1>5
<1>9. ASSUME n + 1 = T
      PROVE  c < L /\ Chunk \in 1 .. S /\ c + Chunk = Behind(n + 1, T, L)
  <2>1. (T - 1) * S = n * S /\ T * S = (n + 1) * S
    BY <1>2, <1>9
  <2>2. c < L /\ ~(L - c > S) /\ L - c <= S
    BY <1>1, <1>2, <1>6, <1>8, <2>1
  <2>3. Chunk = L - c
    BY <1>4, <2>2
  <2>4. c + Chunk = L
    BY <1>2, <2>3
  <2>5. Chunk \in 1 .. S
    BY <1>1, <1>2, <2>2, <2>3
  <2>6. c + Chunk = Behind(n + 1, T, L)
    BY <1>5, <1>9, <2>4
  <2> QED
    BY <2>2, <2>5, <2>6
<1>10. ASSUME n + 1 # T
       PROVE  c < L /\ Chunk \in 1 .. S /\ c + Chunk = Behind(n + 1, T, L)
  <2>1. n + 1 <= T - 1
    BY <1>2, <1>7, <1>10
  <2>2. (n + 1) * S <= (T - 1) * S
    BY <1>1, <1>2, <2>1
  <2>3. (T - 1) * S \in Int
    BY <1>1, <1>2
  <2>4. c < L /\ L - c > S
    BY <1>1, <1>2, <1>6, <1>8, <2>2, <2>3
  <2>5. Chunk = S
    BY <1>4, <2>4
  <2>6. c + Chunk = (n + 1) * S
    BY <1>8, <2>5
  <2>7. Chunk \in 1 .. S
    BY <1>1, <2>5
  <2>8. c + Chunk = Behind(n + 1, T, L)
    BY <1>5, <1>10, <2>6
  <2> QED
    BY <2>4, <2>7, <2>8
<1>11. (n + 1) % PartMod = n + 1
  <2>1. n + 1 \in Int /\ 0 <= n + 1 /\ n + 1 < PartMod
    BY <1>1, <1>2, <1>7
  <2> QED
    BY <1>1, <2>1, ModSmall
<1> QED
  BY <1>3, <1>7, <1>9, <1>10, <1>11 DEF S, n, T, L, c


(* A start keeps the cut: it is refused, or it begins an empty transfer.    *)
LEMMA StartStep ==
    ASSUME Cut(session, parts), NEW id \in Transactions, NEW len \in UnitLens, Start(id, len)
    PROVE  Cut(session, parts)'
<1>1. CASE ~Startable(len)
  <2>1. session' = session /\ parts' = parts
    BY <1>1 DEF Start
  <2> QED
    BY <2>1
<1>2. CASE Startable(len)
  <2> DEFINE T == PartsOf(len)
             s == [state |-> "ACTIVE", unit_len |-> len, cursor |-> 0, transaction_id |-> id,
                   next_part |-> 0, total_parts |-> T]
  <2>1. len \in Nat /\ len # 0 /\ len <= UnitMax /\ session.state = "IDLE"
    BY <1>2, LargeDataAssumption DEF Startable
  <2>2. session' = s /\ parts' = <<>>
    BY <1>2, <2>1 DEF Start
  <2>3. T \in 1 .. PartMod - 1 /\ Covers(T, len)
    BY <2>1, PartsOfCovers
  <2>4. T \in Nat /\ 0 < T
    BY <2>3, LargeDataAssumption
  <2> HIDE DEF T
  <2>5. s \in Session
    BY <2>1, <2>3, <2>4, LargeDataAssumption DEF Session
  <2>6. Behind(0, T, len) = 0
    BY <2>4, LargeDataAssumption DEF Behind
  <2>7. <<>> = [k \in 1 .. 0 |-> PartAt(s, k)]
    BY Zenon, SMT
  <2>8. Cut(s, <<>>)
    BY <2>3, <2>4, <2>5, <2>6, <2>7 DEF Cut
  <2> QED
    BY <2>2, <2>8
<1> QED
  BY <1>1, <1>2

(* A part that goes out moves the cut on by one part.                       *)
LEMMA CutStep ==
    ASSUME Cut(session, parts), session.state = "ACTIVE",
           NEW s, NEW ps,
           s = [session EXCEPT !.cursor = @ + Chunk,
                               !.next_part = (@ + 1) % PartMod,
                               !.state = IF (session.next_part + 1) % PartMod >= session.total_parts
                                           THEN "IDLE" ELSE @],
           ps = Append(parts, Part)
    PROVE  Cut(s, ps)
<1> DEFINE n == session.next_part
           T == session.total_parts
           L == session.unit_len
<1>1. /\ n < T /\ Chunk \in 1 .. PartSize /\ session.cursor = Behind(n, T, L)
      /\ session.cursor + Chunk = Behind(n + 1, T, L) /\ (n + 1) % PartMod = n + 1
  BY ChunkCases
<1>2. /\ session \in Session /\ n \in Nat /\ T \in Nat /\ session.cursor \in Nat /\ Covers(T, L)
      /\ parts = [k \in 1 .. n |-> PartAt(session, k)]
  BY LargeDataAssumption DEF Cut, Session
<1>3. /\ s.next_part = n + 1 /\ s.total_parts = T /\ s.unit_len = L
      /\ s.transaction_id = session.transaction_id /\ s.cursor = session.cursor + Chunk
      /\ s.state = IF n + 1 >= T THEN "IDLE" ELSE "ACTIVE"
  BY <1>1, <1>2 DEF Session
<1>4. s \in Session
  <2>1. session.cursor + Chunk \in Nat /\ n + 1 \in Nat
    BY <1>1, <1>2, LargeDataAssumption
  <2> QED
    BY <1>1, <1>2, <2>1 DEF Session
<1>5. n + 1 <= T /\ (s.state = "IDLE" <=> n + 1 = T)
  BY <1>1, <1>2, <1>3
<1>6. ps = [k \in 1 .. n + 1 |-> PartAt(s, k)]
  <2>1. \A k : PartAt(s, k) = PartAt(session, k)
    BY <1>3 DEF PartAt
  <2>2. Part = PartAt(s, n + 1)
    <3>1. n + 1 - 1 = n
      BY <1>2
    <3> DEFINE p == [transaction_id |-> session.transaction_id, number |-> n, total |-> T,
                     subtype |-> SubtypeFor(n, T), from |-> Behind(n, T, L), upto |-> Behind(n + 1, T, L)]
    <3>2. PartAt(s, n + 1) = p
      <4> DEFINE m == n + 1
      <4>1. m - 1 = n
        BY <1>2
      <4>2. PartAt(s, m) = [transaction_id |-> session.transaction_id, number |-> m - 1, total |-> T,
                            subtype |-> SubtypeFor(m - 1, T),
                            from |-> Behind(m - 1, T, L), upto |-> Behind(m, T, L)]
        <5> HIDE DEF m, T, L
        <5>1. s.transaction_id = session.transaction_id /\ s.total_parts = T /\ s.unit_len = L
          BY <1>3 DEF T, L
        <5> QED
          BY <5>1, Zenon DEF PartAt
      <4> HIDE DEF m, n, T, L
      <4>3. p = [transaction_id |-> session.transaction_id, number |-> m - 1, total |-> T,
                 subtype |-> SubtypeFor(m - 1, T),
                 from |-> Behind(m - 1, T, L), upto |-> Behind(m, T, L)]
        BY <4>1, Zenon DEF p, m
      <4> QED
        BY <4>2, <4>3 DEF m
    <3>3. Part = p
      BY <1>1, Zenon DEF Part, Subtype
    <3> QED
      BY <3>2, <3>3
  <2>3. Append([k \in 1 .. n |-> PartAt(s, k)], PartAt(s, n + 1)) = [k \in 1 .. n + 1 |-> PartAt(s, k)]
    BY <1>2
  <2> QED
    BY <1>2, <2>1, <2>2, <2>3
<1> QED
  BY <1>1, <1>2, <1>3, <1>4, <1>5, <1>6 DEF Cut


(* A part is a report of the loop's own, sent or not. *)
LEMMA PartWritten ==
    ASSUME LInv, NEW cap \in PartBuffers, session.state = "ACTIVE"
    PROVE  \E S : Written(BuildPart(cap), "0", WireSeq, WireCounter, S, 3)
<1> DEFINE b == [Writing("0") EXCEPT !.room = cap]
           k == Subtype
           z == PART_OVERHEAD + Chunk
           g == Build(b, k, k, z)
<1>1. BuildPart(cap) = Writing("0") \/ BuildPart(cap) = g
  BY DEF BuildPart
<1>2. /\ Written(Writing("0"), "0", WireSeq, WireCounter, {}, 0)
      /\ Written(b, "0", WireSeq, WireCounter, {}, 0)
  BY WritingWritten, LargeDataAssumption DEF LInv
<1>3. k \in Subtypes /\ k \in Counters /\ StreamOf(k, "0") = k
  <2>1. k \in {"13,1", "13,2", "13,3"}
    BY DEF Subtype, SubtypeFor
  <2> QED
    BY <2>1, SubtypeTypes DEF StreamOf
<1>4. z \in Nat
  <2>1. Chunk \in 1 .. PartSize
    BY ChunkCases DEF LInv
  <2> QED
    BY <2>1, LargeDataAssumption DEF PART_OVERHEAD
<1> HIDE DEF b, k, z
<1>5. Written(g, "0", WireSeq, WireCounter, {k}, 3)
  BY <1>2, <1>3, <1>4, ReportWritten DEF LInv
<1>6. Written(Writing("0"), "0", WireSeq, WireCounter, {}, 3)
  <2> DEFINE N == {}
  <2>1. Written(Writing("0"), "0", WireSeq, WireCounter, N, 0) /\ N \subseteq N
    BY <1>2
  <2> HIDE DEF N
  <2>2. Written(Writing("0"), "0", WireSeq, WireCounter, N, 3)
    BY <2>1, WrittenLooser
  <2> QED
    BY <2>2 DEF N
<1> HIDE DEF g
<1> QED
  BY <1>1, <1>5, <1>6, Zenon

LEMMA LStepInv == LInv /\ [LNext]_lvars => LInv'
<1> SUFFICES ASSUME LInv, [LNext]_lvars
             PROVE  LInv'
  OBVIOUS
<1>0. RInv /\ Cut(session, parts)
  BY DEF LInv
<1>1. ASSUME NEW id \in Transactions, NEW len \in UnitLens, Start(id, len)
      PROVE  LInv'
  <2>1. Cut(session, parts)'
    BY <1>0, <1>1, StartStep
  <2>2. UNCHANGED rvars
    BY <1>1 DEF Start
  <2>3. RInv'
    BY <1>0, <2>2 DEF rvars, RInv, RTypeOK
  <2> QED
    BY <2>1, <2>3 DEF LInv
<1>2. ASSUME NEW cap \in PartBuffers, NextPart(cap)
      PROVE  LInv'
  <2>1. /\ session.state = "ACTIVE" /\ Report(BuildPart(cap))
        /\ IF BuildPart(cap).out = <<>> THEN UNCHANGED <<session, parts>>
           ELSE /\ session' = [session EXCEPT
                      !.cursor = @ + Chunk,
                      !.next_part = (@ + 1) % PartMod,
                      !.state = IF (session.next_part + 1) % PartMod >= session.total_parts
                                  THEN "IDLE" ELSE @]
                /\ parts' = Append(parts, Part)
    BY <1>2 DEF NextPart
  <2>2. RInv'
    <3>1. PICK S : Written(BuildPart(cap), "0", WireSeq, WireCounter, S, 3)
      BY <2>1, PartWritten
    <3> QED
      BY <1>0, <2>1, <3>1, ReportStep
  <2>3. Cut(session, parts)'
    <3>1. CASE BuildPart(cap).out = <<>>
      <4>1. session' = session /\ parts' = parts
        BY <2>1, <3>1
      <4> QED
        BY <1>0, <4>1
    <3>2. CASE BuildPart(cap).out # <<>>
      <4>1. Cut(session', parts')
        BY <1>0, <2>1, <3>2, CutStep
      <4> QED
        BY <4>1
    <3> QED
      BY <3>1, <3>2
  <2> QED
    BY <2>2, <2>3 DEF LInv
<1>3. CASE OtherTelemetry
  <2>1. RNext /\ session' = session /\ parts' = parts
    BY <1>3 DEF OtherTelemetry
  <2> QED
    BY <1>0, <2>1, RStepInv DEF LInv
<1>4. CASE UNCHANGED lvars
  BY <1>0, <1>4 DEF lvars, rvars, LInv, RInv, RTypeOK
<1> QED
  BY <1>1, <1>2, <1>3, <1>4 DEF LNext

LEMMA LInitInv == LInit => LInv
<1> SUFFICES ASSUME LInit
             PROVE  LInv
  OBVIOUS
<1>1. RInv
  BY RInitInv DEF LInit
<1>2. Cut(Idle, <<>>)
  <2>1. Idle \in Session
    BY LargeDataAssumption DEF Idle, Session
  <2>2. <<>> = [k \in 1 .. 0 |-> PartAt(Idle, k)]
    BY Zenon, SMT
  <2>3. Covers(0, 0) /\ Behind(0, 0, 0) = 0
    BY DEF Covers, Behind
  <2> QED
    BY <2>1, <2>2, <2>3 DEF Cut, Idle
<1> QED
  BY <1>1, <1>2 DEF LInit, LInv

(* The inductive invariant of the router composed with the downlink.        *)
THEOREM LargeDataInvariant == LSpec => []LInv
<1>1. LInv /\ [LNext]_lvars => LInv'
  BY LStepInv
<1> QED
  BY <1>1, LInitInv, PTL DEF LSpec


(* The session never points past its unit, its part numbers keep to their   *)
(* field, and an active one has at least a byte and at most a part to send. *)
THEOREM LargeDataTypeCorrect == LSpec => []LTypeOK
<1>1. LInv => LTypeOK
  <2> SUFFICES ASSUME LInv
               PROVE  LTypeOK
    OBVIOUS
  <2>1. RTypeOK /\ Cut(session, parts)
    BY DEF LInv, RInv
  <2>2. session \in Session /\ PartMod \in Nat \ {0} /\ UnitMax \in Nat
    BY <2>1, LargeDataAssumption DEF Cut
  <2>3. session.next_part \in 0 .. session.total_parts
    BY <2>1, <2>2 DEF Cut, Session
  <2>4. session.cursor \in 0 .. session.unit_len
    <3>1. CASE session.state = "IDLE"
      BY <2>1, <2>2, <3>1 DEF Cut, Session, Behind
    <3>2. CASE session.state = "ACTIVE"
      BY <2>1, <2>2, <3>2, ChunkCases DEF Session
    <3> QED
      BY <2>2, <3>1, <3>2 DEF Session
  <2>5. session.state = "ACTIVE" => Chunk \in 1 .. PartSize
    BY <2>1, ChunkCases
  <2> QED
    BY <2>1, <2>2, <2>3, <2>4, <2>5 DEF LTypeOK, Session
<1> QED
  BY <1>1, LargeDataInvariant, PTL

(* Neither gap nor duplicate in the sequence count and in the message       *)
(* counter of each stream, whatever telecommands, events, housekeeping and  *)
(* parts interleave, across the wrap of either count.                       *)
THEOREM NumberingIsUnbroken == LSpec => []NumberingUnbroken
<1>1. LInv => NumberingUnbroken
  BY DEF LInv, RInv, Continues, NumberingUnbroken
<1> QED
  BY <1>1, LargeDataInvariant, PTL

LEMMA PartFields ==
    ASSUME NEW s, NEW k
    PROVE  /\ PartAt(s, k).transaction_id = s.transaction_id
           /\ PartAt(s, k).number = k - 1
           /\ PartAt(s, k).total = s.total_parts
           /\ PartAt(s, k).subtype = SubtypeFor(k - 1, s.total_parts)
           /\ PartAt(s, k).from = Behind(k - 1, s.total_parts, s.unit_len)
           /\ PartAt(s, k).upto = Behind(k, s.total_parts, s.unit_len)
  BY DEF PartAt

(* The part with a number, found among those received. *)
LEMMA NumberedPart ==
    ASSUME Cut(session, parts), NEW m \in 0 .. session.next_part - 1
    PROVE  PartNumber(m) = PartAt(session, m + 1)
<1> DEFINE n  == session.next_part
           ps == {parts[k] : k \in DOMAIN parts}
<1>1. n \in Nat /\ parts = [k \in 1 .. n |-> PartAt(session, k)]
  BY DEF Cut, Session
<1>2. \A k \in 1 .. n : parts[k] = PartAt(session, k) /\ PartAt(session, k).number = k - 1
  BY <1>1, PartFields
<1>3. DOMAIN parts = 1 .. n
  BY <1>1
<1>4. m + 1 \in 1 .. n /\ m + 1 - 1 = m
  BY <1>1
<1>5. PartAt(session, m + 1) \in ps /\ PartAt(session, m + 1).number = m
  BY <1>2, <1>3, <1>4
<1> DEFINE p == CHOOSE p \in ps : p.number = m
<1>6. p \in ps /\ p.number = m
  BY <1>5, Zenon
<1>7. PICK k \in 1 .. n : p = parts[k]
  BY <1>3, <1>6
<1>8. p = PartNumber(m)
  BY DEF PartNumber
<1> HIDE DEF p, ps, n
<1>9. p = PartAt(session, k) /\ p.number = k - 1
  BY <1>2, <1>7
<1>10. k - 1 = m
  BY <1>6, <1>9
<1>11. k = m + 1
  BY <1>1, <1>10
<1> QED
  BY <1>8, <1>9, <1>11

(* Whatever comes between its parts, the ground has the whole unit exactly  *)
(* when the session is over, can put it together by the part numbers, and   *)
(* sees from the labels where it begins and ends.                           *)
THEOREM UnitsReassembled == LSpec => []Reassembled
<1>1. LInv => Reassembled
  <2> SUFFICES ASSUME LInv, parts # <<>>
               PROVE  /\ Agree /\ Delimited
                      /\ Complete <=> session.state = "IDLE"
                      /\ Complete => Contiguous /\ PartNumber(Len(parts) - 1).upto = session.unit_len
    BY DEF Reassembled
  <2> DEFINE n == session.next_part
             T == session.total_parts
             L == session.unit_len
  <2>0. Cut(session, parts)
    BY DEF LInv
  <2>1. /\ session \in Session /\ n \in Nat /\ T \in Nat /\ n <= T
        /\ session.state = "IDLE" <=> n = T
        /\ parts = [k \in 1 .. n |-> PartAt(session, k)]
    BY <2>0, LargeDataAssumption DEF Cut, Session
  <2>2. DOMAIN parts = 1 .. n /\ \A k \in 1 .. n : parts[k] = PartAt(session, k)
    BY <2>1
  <2>3. 0 < n
    <3>1. ASSUME n = 0
          PROVE  FALSE
      <4>1. DOMAIN parts = {}
        BY <2>2, <3>1
      <4>2. parts = [k \in 1 .. 0 |-> PartAt(session, k)]
        BY <2>1, <3>1
      <4>3. <<>> = [k \in 1 .. 0 |-> PartAt(session, k)]
        BY Zenon, SMT
      <4> QED
        BY <4>2, <4>3
    <3> QED
      BY <2>1, <3>1
  <2>4. Len(parts) = n
    BY <2>1
  <2>5. \A k \in 1 .. n :
          /\ parts[k].transaction_id = session.transaction_id
          /\ parts[k].number = k - 1
          /\ parts[k].total = T
          /\ parts[k].subtype = SubtypeFor(k - 1, T)
          /\ parts[k].from = Behind(k - 1, T, L)
          /\ parts[k].upto = Behind(k, T, L)
    <3> SUFFICES ASSUME NEW k \in 1 .. n
                 PROVE  /\ parts[k].transaction_id = session.transaction_id
                        /\ parts[k].number = k - 1
                        /\ parts[k].total = T
                        /\ parts[k].subtype = SubtypeFor(k - 1, T)
                        /\ parts[k].from = Behind(k - 1, T, L)
                        /\ parts[k].upto = Behind(k, T, L)
      OBVIOUS
    <3>1. parts[k] = PartAt(session, k)
      BY <2>2
    <3> QED
      BY <3>1, PartFields
  <2>6. Agree
    BY <2>2, <2>5 DEF Agree
  <2>7. Delimited
    <3> SUFFICES ASSUME NEW k \in 1 .. n
                 PROVE  /\ (parts[k].subtype = "13,3") = (k = parts[k].total)
                        /\ (parts[k].subtype = "13,1") = (k = 1 /\ parts[k].total > 1)
      BY <2>2 DEF Delimited
    <3>1. parts[k].total = T /\ parts[k].subtype = SubtypeFor(k - 1, T)
      BY <2>5
    <3> HIDE DEF n, T, L
    <3>a. k \in Nat /\ 1 <= k /\ k <= n /\ k <= T /\ n \in Nat /\ T \in Nat
      BY <2>1
    <3>2. CASE k = T
      <4>1. SubtypeFor(k - 1, T) = "13,3"
        BY <3>2 DEF SubtypeFor
      <4>2. (k = 1 /\ T > 1) = FALSE /\ (k = T) = TRUE
        BY <3>a, <3>2
      <4> QED
        BY <3>1, <4>1, <4>2
    <3>3. CASE k # T /\ k = 1
      <4>1. SubtypeFor(k - 1, T) = "13,1"
        <5>1. k - 1 # T - 1 /\ k - 1 = 0
          BY <3>a, <3>3
        <5> QED
          BY <5>1 DEF SubtypeFor
      <4>2. (k = 1 /\ T > 1) = TRUE /\ (k = T) = FALSE
        BY <3>a, <3>3
      <4> QED
        BY <3>1, <4>1, <4>2
    <3>4. CASE k # T /\ k # 1
      <4>1. SubtypeFor(k - 1, T) = "13,2"
        <5>1. k - 1 # T - 1 /\ k - 1 # 0
          BY <3>a, <3>4
        <5> QED
          BY <5>1 DEF SubtypeFor
      <4>2. (k = 1 /\ T > 1) = FALSE /\ (k = T) = FALSE
        BY <3>4
      <4> QED
        BY <3>1, <4>1, <4>2
    <3> QED
      BY <3>2, <3>3, <3>4
  <2>8. Complete <=> n = T
    <3>1. {parts[k].number : k \in DOMAIN parts} = 0 .. n - 1
      <4>1. ASSUME NEW k \in DOMAIN parts
            PROVE  parts[k].number \in 0 .. n - 1
        <5>1. parts[k].number = k - 1 /\ k \in 1 .. n
          BY <2>2, <2>5
        <5> QED
          BY <2>1, <5>1
      <4>2. ASSUME NEW m \in 0 .. n - 1
            PROVE  m \in {parts[k].number : k \in DOMAIN parts}
        <5>1. m + 1 \in 1 .. n /\ m + 1 - 1 = m
          BY <2>1
        <5> QED
          BY <2>2, <2>5, <5>1
      <4> QED
        BY <4>1, <4>2
    <3>2. parts[1].total = T
      BY <2>1, <2>3, <2>5
    <3> HIDE DEF n, T
    <3> QED
      BY <2>4, <3>1, <3>2 DEF Complete
  <2>9. ASSUME n = T
        PROVE  Contiguous /\ PartNumber(Len(parts) - 1).upto = L
    <3>1. \A m \in 0 .. n - 1 : /\ PartNumber(m).from = Behind(m, T, L)
                                /\ PartNumber(m).upto = Behind(m + 1, T, L)
      <4> SUFFICES ASSUME NEW m \in 0 .. n - 1
                   PROVE  /\ PartNumber(m).from = Behind(m, T, L)
                          /\ PartNumber(m).upto = Behind(m + 1, T, L)
        OBVIOUS
      <4>1. PartNumber(m) = PartAt(session, m + 1)
        BY <2>0, NumberedPart
      <4>2. m + 1 \in 1 .. n /\ m + 1 - 1 = m
        BY <2>1
      <4>3. PartAt(session, m + 1) = parts[m + 1]
        BY <2>2, <4>2
      <4> QED
        BY <2>5, <4>1, <4>2, <4>3
    <3>2. Behind(0, T, L) = 0
      BY <2>1, <2>3, <2>9, LargeDataAssumption DEF Behind
    <3> HIDE DEF n, T, L
    <3>3. Contiguous
      <4> SUFFICES ASSUME NEW m \in 0 .. n - 1
                   PROVE  PartNumber(m).from = IF m = 0 THEN 0 ELSE PartNumber(m - 1).upto
        BY <2>4 DEF Contiguous
      <4>1. CASE m = 0
        BY <3>1, <3>2, <4>1
      <4>2. CASE m # 0
        <5>1. m - 1 \in 0 .. n - 1 /\ m - 1 + 1 = m
          BY <2>1, <4>2
        <5>2. PartNumber(m - 1).upto = Behind(m, T, L)
          BY <3>1, <5>1
        <5> QED
          BY <3>1, <4>2, <5>2
      <4> QED
        BY <4>1, <4>2
    <3>4. PartNumber(n - 1).upto = L
      <4>1. n - 1 \in 0 .. n - 1 /\ n - 1 + 1 = n
        BY <2>1, <2>3
      <4>2. PartNumber(n - 1).upto = Behind(n, T, L)
        BY <3>1, <4>1
      <4> QED
        BY <2>9, <4>2 DEF Behind
    <3> QED
      BY <2>4, <3>3, <3>4
  <2> QED
    BY <2>1, <2>6, <2>7, <2>8, <2>9
<1> QED
  BY <1>1, LargeDataInvariant, PTL


----------------------------------------------------------------------------
(* The reports a telecommand asked for *)

(* "The worst case is 22 + 67 + 22": acceptance, the largest service report *)
(* and completion fit the buffer the router insists on, and so do           *)
(* acceptance and a failed completion.                                      *)
WorstCaseFits ==
    /\ \A r \in Replies : SUCCESS_SIZE + r[2] + SUCCESS_SIZE <= OutCap
    /\ SUCCESS_SIZE + FAILURE_SIZE <= OutCap

SubtypesOf(out) == [i \in DOMAIN out |-> out[i].subtype]

(* A buffer with the reports ss in it and room for r bytes more. *)
Holds(b, dest, ss, r) ==
    /\ b \in Buffer(dest)
    /\ ss \in Seq(Subtypes) /\ SubtypesOf(b.out) = ss
    /\ r <= b.room

Kept == tc # Noise => SubtypesOf(burst) = Promised(tc)

LEMMA SubtypesAppend ==
    ASSUME NEW out \in Seq(Packet), NEW p \in Packet
    PROVE  /\ SubtypesOf(out) \in Seq(Subtypes)
           /\ SubtypesOf(Append(out, p)) = SubtypesOf(out) \o <<p.subtype>>
<1> DEFINE n  == Len(out)
           ss == SubtypesOf(out)
           x  == p.subtype
<1>1. n \in Nat /\ DOMAIN out = 1 .. n /\ \A i \in 1 .. n : out[i] \in Packet
  BY LenProperties, ElementOfSeq
<1>2. ss = [i \in 1 .. n |-> out[i].subtype]
  BY <1>1 DEF SubtypesOf
<1>3. \A q \in Packet : q.subtype \in Subtypes
  BY DEF Packet
<1>4. ss \in [1 .. n -> Subtypes]
  BY <1>1, <1>2, <1>3
<1>5. ss \in Seq(Subtypes)
  BY <1>1, <1>4, SeqDef
<1>6. Len(ss) = n
  BY <1>1, <1>2, <1>5, LenProperties
<1>7. /\ DOMAIN Append(out, p) = 1 .. n + 1
      /\ \A i \in 1 .. n : Append(out, p)[i] = out[i]
      /\ Append(out, p)[n + 1] = p
  BY <1>1, AppendProperties, LenProperties
<1>8. x \in Subtypes
  BY <1>3
<1> HIDE DEF x
<1>9. /\ Append(ss, x) \in Seq(Subtypes) /\ Len(Append(ss, x)) = n + 1
      /\ \A i \in 1 .. n : Append(ss, x)[i] = ss[i]
      /\ Append(ss, x)[n + 1] = x
  <2> HIDE DEF ss, n
  <2> QED
    BY <1>1, <1>5, <1>6, <1>8, AppendProperties
<1>10. Append(ss, x) = [i \in 1 .. n + 1 |-> Append(out, p)[i].subtype]
  <2>1. DOMAIN Append(ss, x) = 1 .. n + 1
    <3> HIDE DEF ss, n
    <3> QED
      BY <1>9, LenProperties
  <2>2. ASSUME NEW i \in 1 .. n + 1
        PROVE  Append(ss, x)[i] = Append(out, p)[i].subtype
    <3>1. CASE i \in 1 .. n
      BY <1>2, <1>7, <1>9, <3>1
    <3>2. CASE i = n + 1
      BY <1>7, <1>9, <3>2 DEF x
    <3>3. i \in 1 .. n \/ i = n + 1
      <4> HIDE DEF n
      <4> QED
        BY <1>1
    <3> QED
      BY <3>1, <3>2, <3>3
  <2>3. Append(ss, x) = [i \in DOMAIN Append(ss, x) |-> Append(ss, x)[i]]
    <3> HIDE DEF ss, n
    <3> QED
      BY <1>9, LenProperties
  <2> HIDE DEF ss, n
  <2> QED
    BY <2>1, <2>2, <2>3, Zenon
<1>11. SubtypesOf(Append(out, p)) = Append(ss, x)
  BY <1>7, <1>10 DEF SubtypesOf
<1>12. Append(ss, x) = ss \o <<x>>
  <2> HIDE DEF ss, n
  <2> QED
    BY <1>5, <1>8, AppendIsConcat
<1> QED
  BY <1>5, <1>11, <1>12 DEF x

(* A report that fits is written. *)
LEMMA BuildHolds ==
    ASSUME NEW dest \in {"0", "source"}, NEW b, NEW ss, NEW r \in Int, Holds(b, dest, ss, r),
           NEW k \in Counters, NEW subtype \in Subtypes, NEW size \in Nat, size <= r
    PROVE  /\ Holds(Build(b, k, subtype, size), dest, ss \o <<subtype>>, r - size)
           /\ Build(b, k, subtype, size) # b
<1> DEFINE g == Build(b, k, subtype, size)
           p == [subtype |-> subtype, size |-> size, dest |-> b.dest, seq |-> b.seq, counter |-> b.msg[k]]
           out == Append(b.out, p)
           msg == [b.msg EXCEPT ![k] = (@ + 1) % CounterMod]
           seq == (b.seq + 1) % SeqMod
<1>1. /\ b \in Buffer(dest) /\ ss \in Seq(Subtypes) /\ SubtypesOf(b.out) = ss /\ r <= b.room
  BY DEF Holds
<1>2. /\ b.out \in Seq(Packet) /\ b.room \in Int /\ b.seq \in 0 .. SeqMod - 1
      /\ b.msg \in [Counters -> 0 .. CounterMod - 1] /\ b.dest = dest
  BY <1>1 DEF Buffer
<1>3. Built(b, g, k, subtype, size)
  BY <1>1, BuildCases
<1>4. ~(b.room < size) /\ b.room - size \in Int /\ r - size <= b.room - size
  BY <1>1, <1>2
<1>5. g = [out |-> out, room |-> b.room - size, seq |-> seq, msg |-> msg, dest |-> b.dest]
  BY <1>3, <1>4 DEF Built
<1>6. p \in Packet /\ p.subtype = subtype
  BY <1>2 DEF Packet
<1> HIDE DEF g, p
<1>7. out \in Seq(Packet) /\ Len(out) = Len(b.out) + 1 /\ Len(b.out) \in Nat
  BY <1>2, <1>6, AppendProperties, LenProperties
<1>8. seq \in 0 .. SeqMod - 1 /\ msg \in [Counters -> 0 .. CounterMod - 1]
  <2>1. SeqMod \in Nat \ {0} /\ CounterMod \in Nat \ {0} /\ b.seq + 1 \in Int /\ b.msg[k] + 1 \in Int
    BY <1>2, RouterAssumption
  <2>2. seq \in 0 .. SeqMod - 1 /\ (b.msg[k] + 1) % CounterMod \in 0 .. CounterMod - 1
    BY <2>1, ModRange
  <2> QED
    BY <1>2, <2>2
<1>9. SubtypesOf(out) \in Seq(Subtypes) /\ SubtypesOf(out) = ss \o <<subtype>>
  <2>1. SubtypesOf(out) = ss \o <<subtype>>
    BY <1>1, <1>2, <1>6, SubtypesAppend
  <2>2. SubtypesOf(out) \in Seq(Subtypes)
    <3> HIDE DEF out
    <3> QED
      BY <1>6, <1>7, SubtypesAppend
  <2> QED
    BY <2>1, <2>2
<1> HIDE DEF out, msg, seq
<1>10. g \in Buffer(dest) /\ g.out = out /\ g.room = b.room - size
  BY <1>2, <1>4, <1>5, <1>7, <1>8 DEF Buffer
<1>11. g # b
  BY <1>7, <1>10
<1>12. Holds(g, dest, ss \o <<subtype>>, r - size)
  BY <1>4, <1>9, <1>10 DEF Holds
<1> QED
  BY <1>11, <1>12 DEF g

LEMMA WritingHolds ==
    ASSUME RInv, NEW dest
    PROVE  Holds(Writing(dest), dest, <<>>, OutCap)
<1>1. Writing(dest) \in Buffer(dest)
  BY WritingWritten DEF Written
<1>2. Writing(dest).out = <<>> /\ Writing(dest).room = OutCap
  BY DEF Writing
<1>3. SubtypesOf(<<>>) = <<>> /\ <<>> \in Seq(Subtypes)
  BY DEF SubtypesOf
<1>4. OutCap <= OutCap
  BY RouterAssumption
<1> QED
  BY <1>1, <1>2, <1>3, <1>4 DEF Holds


(* An accepted telecommand gets every report it asked for. *)
LEMMA AcceptedKept ==
    ASSUME RInv, WorstCaseFits, NEW t \in Telecommands, t.verdict = "ok"
    PROVE  SubtypesOf(WriteAccepted(t).out) = Promised(t)
<1> DEFINE d  == "source"
           b  == Writing(d)
           b0 == IF "acceptance" \in t.acks THEN BuildAcceptance(b, TRUE) ELSE b
           b1 == Route(b0, t.answer)
           ok == Executed(b0, b1, t.answer)
           b2 == BuildCompletion(b1, ok)
           a  == "1,1"
           report   == t.answer.kind = "report"
           executed == t.answer.kind \in {"quiet", "report"}
           accept   == IF "acceptance" \in t.acks THEN <<a>> ELSE <<>>
           service  == IF report THEN <<t.answer.reply[1]>> ELSE <<>>
           complete == IF "completion" \in t.acks THEN <<IF executed THEN "1,7" ELSE "1,8">> ELSE <<>>
           R0 == OutCap - SUCCESS_SIZE
           R1 == IF executed THEN SUCCESS_SIZE ELSE FAILURE_SIZE
<1>1. Promised(t) = accept \o service \o complete
  BY DEF Promised
<1>2. /\ t.answer \in Answers /\ (report => t.answer.reply \in Replies)
      /\ t.answer.kind \in {"quiet", "unknown subtype", "failure", "report"}
  BY TelecommandCases, AnswerCases
<1>3. /\ d \in {"0", "source"} /\ a \in Counters /\ a \in Subtypes
  BY SubtypeTypes
<1>4. /\ OutCap \in Int /\ R0 \in Int /\ R1 \in Int /\ R0 <= OutCap /\ R1 <= R0
      /\ SUCCESS_SIZE \in Nat /\ SUCCESS_SIZE <= OutCap
  BY RouterAssumption DEF WorstCaseFits, SUCCESS_SIZE, FAILURE_SIZE
<1>5. report => t.answer.reply[2] \in Nat /\ R1 <= R0 - t.answer.reply[2] /\ t.answer.reply[2] <= R0
  <2> SUFFICES ASSUME report
               PROVE  t.answer.reply[2] \in Nat /\ R1 <= R0 - t.answer.reply[2] /\ t.answer.reply[2] <= R0
    OBVIOUS
  <2> DEFINE z == t.answer.reply[2]
  <2>1. z \in Nat /\ SUCCESS_SIZE + z + SUCCESS_SIZE <= OutCap
    BY <1>2, SubtypeTypes DEF WorstCaseFits
  <2>2. R1 = SUCCESS_SIZE
    OBVIOUS
  <2> HIDE DEF z, R1
  <2>3. z \in Nat /\ R1 <= R0 - z /\ z <= R0
    BY <1>4, <2>1, <2>2
  <2> QED
    BY <2>3 DEF z
<1>6. Holds(b, d, <<>>, OutCap)
  BY WritingHolds
<1>7. WriteAccepted(t) = IF "completion" \in t.acks THEN b2 ELSE b1
  BY DEF WriteAccepted
<1> HIDE DEF d, b, a, R0, R1
<1>8. Holds(b0, d, accept, R0)
  <2>1. CASE "acceptance" \in t.acks
    <3>1. b0 = Build(b, a, a, SUCCESS_SIZE) /\ accept = <<a>>
      BY <2>1 DEF BuildAcceptance, a
    <3>2. Holds(Build(b, a, a, SUCCESS_SIZE), d, <<>> \o <<a>>, OutCap - SUCCESS_SIZE)
      BY <1>3, <1>4, <1>6, BuildHolds
    <3>3. <<a>> \in Seq(Subtypes) /\ <<>> \o <<a>> = <<a>>
      BY <1>3
    <3> QED
      BY <3>1, <3>2, <3>3 DEF R0
  <2>2. CASE "acceptance" \notin t.acks
    <3>1. b0 = b /\ accept = <<>>
      BY <2>2
    <3>2. b.room \in Int /\ OutCap <= b.room
      BY <1>6 DEF Holds, Buffer
    <3>3. R0 <= b.room
      BY <1>4, <3>2
    <3> QED
      BY <1>6, <3>1, <3>3 DEF Holds
  <2> QED
    BY <2>1, <2>2
<1> HIDE DEF b0, accept
<1>9. Holds(b1, d, accept \o service, R1) /\ (report => b1 # b0)
  <2>1. CASE report
    <3> DEFINE x == t.answer.reply[1]
               z == t.answer.reply[2]
    <3>1. x \in Subtypes /\ x \in Counters /\ z \in Nat /\ R1 <= R0 - z /\ z <= R0
      BY <1>2, <1>5, <2>1, SubtypeTypes
    <3>2. b1 = Build(b0, x, x, z) /\ service = <<x>>
      BY <2>1 DEF Route
    <3> HIDE DEF x, z, b1, service
    <3>3. Holds(b1, d, accept \o service, R0 - z) /\ b1 # b0
      <4>1. /\ Holds(Build(b0, x, x, z), d, accept \o <<x>>, R0 - z)
            /\ Build(b0, x, x, z) # b0
        BY <1>3, <1>4, <1>8, <3>1, BuildHolds
      <4> QED
        BY <3>2, <4>1
    <3>4. b1.room \in Int /\ R0 - z <= b1.room /\ R0 - z \in Int
      BY <1>4, <3>1, <3>3 DEF Holds, Buffer
    <3>5. R1 <= b1.room
      BY <1>4, <3>1, <3>4
    <3> QED
      BY <3>3, <3>5 DEF Holds
  <2>2. CASE ~report
    <3>1. b1 = b0 /\ service = <<>>
      BY <2>2 DEF Route
    <3>2. accept \o <<>> = accept
      BY <1>8, ConcatEmptySeq DEF Holds
    <3>3. b0.room \in Int /\ R0 <= b0.room
      BY <1>8 DEF Holds, Buffer
    <3>4. R1 <= b0.room
      BY <1>4, <3>3
    <3> HIDE DEF report
    <3> QED
      BY <1>8, <2>2, <3>1, <3>2, <3>4 DEF Holds
  <2> QED
    BY <2>1, <2>2
<1> HIDE DEF b1, service
<1>10. ok <=> executed
  <2>1. CASE report
    BY <1>9, <2>1 DEF Executed
  <2>2. CASE ~report
    BY <1>2, <2>2 DEF Executed
  <2> QED
    BY <2>1, <2>2
<1>11. ASSUME "completion" \in t.acks
       PROVE  SubtypesOf(b2.out) = accept \o service \o complete
  <2> DEFINE k == IF executed THEN "1,7" ELSE "1,8"
  <2>1. b2 = Build(b1, k, k, R1)
    BY <1>10 DEF BuildCompletion, R1
  <2>2. complete = <<k>>
    BY <1>11
  <2>3. k \in Subtypes /\ k \in Counters /\ R1 \in Nat
    BY SubtypeTypes, SizeTypes DEF R1
  <2> HIDE DEF b2, k, complete
  <2>4. R1 <= R1
    BY <2>3
  <2>5. Holds(Build(b1, k, k, R1), d, accept \o service \o <<k>>, R1 - R1)
    <3> DEFINE as == accept \o service
    <3>1. Holds(b1, d, as, R1)
      BY <1>9
    <3> HIDE DEF as
    <3>2. Holds(Build(b1, k, k, R1), d, as \o <<k>>, R1 - R1)
      <4> HIDE DEF executed
      <4> QED
        BY <1>3, <1>4, <2>3, <2>4, <3>1, BuildHolds
    <3> QED
      BY <3>2 DEF as
  <2> QED
    BY <2>1, <2>2, <2>5 DEF Holds
<1>12. ASSUME "completion" \notin t.acks
       PROVE  SubtypesOf(b1.out) = accept \o service \o complete
  <2> DEFINE as == accept \o service
  <2>1. as \in Seq(Subtypes) /\ SubtypesOf(b1.out) = as
    BY <1>9 DEF Holds
  <2>2. complete = <<>>
    BY <1>12
  <2> HIDE DEF as, complete
  <2>3. as \o <<>> = as
    BY <2>1, ConcatEmptySeq
  <2> QED
    BY <2>1, <2>2, <2>3 DEF as
<1> HIDE DEF b2
<1> QED
  BY <1>1, <1>7, <1>11, <1>12 DEF accept, service

(* A rejected one the failure report it asked for, or cannot decline. *)
LEMMA FailureKept ==
    ASSUME RInv, WorstCaseFits, NEW dest \in {"0", "source"}
    PROVE  SubtypesOf(BuildAcceptance(Writing(dest), FALSE).out) = <<"1,2">>
<1> DEFINE b == Writing(dest)
           a == "1,2"
<1>1. a \in Subtypes /\ a \in Counters
  BY SubtypeTypes
<1>2. BuildAcceptance(b, FALSE) = Build(b, a, a, FAILURE_SIZE)
  BY DEF BuildAcceptance
<1>3. FAILURE_SIZE \in Nat /\ FAILURE_SIZE <= OutCap /\ OutCap \in Int
  BY RouterAssumption DEF WorstCaseFits, FAILURE_SIZE, SUCCESS_SIZE
<1>4. Holds(b, dest, <<>>, OutCap)
  BY WritingHolds
<1> HIDE DEF a, b
<1>5. Holds(Build(b, a, a, FAILURE_SIZE), dest, <<>> \o <<a>>, OutCap - FAILURE_SIZE)
  BY <1>1, <1>3, <1>4, BuildHolds
<1>6. <<>> \o <<a>> = <<a>>
  BY <1>1
<1>7. SubtypesOf(BuildAcceptance(b, FALSE).out) = <<a>>
  BY <1>2, <1>5, <1>6 DEF Holds
<1> QED
  BY <1>7 DEF a, b

LEMMA RejectedKept ==
    ASSUME RInv, WorstCaseFits, NEW t \in Telecommands, t.verdict \in {"crc", "version", "service"}
    PROVE  SubtypesOf(WriteRejected(t).out) = Promised(t)
<1> DEFINE b == Writing("source")
           f == BuildAcceptance(b, FALSE)
           asked == "acceptance" \in t.acks
<1>1. Promised(t) = IF asked THEN <<"1,2">> ELSE <<>>
  BY DEF Promised
<1>2. WriteRejected(t) = IF asked THEN f ELSE b
  BY DEF WriteRejected
<1>3. SubtypesOf(f.out) = <<"1,2">>
  BY FailureKept
<1>4. SubtypesOf(b.out) = <<>>
  BY WritingHolds DEF Holds
<1> HIDE DEF asked, b, f
<1> QED
  BY <1>1, <1>2, <1>3, <1>4

LEMMA KeptStep ==
    ASSUME WorstCaseFits
    PROVE  LInv /\ Kept /\ [LNext]_lvars => Kept'
<1> SUFFICES ASSUME LInv, Kept, [LNext]_lvars
             PROVE  Kept'
  OBVIOUS
<1>0. RInv
  BY DEF LInv
<1>1. ASSUME NEW t \in Telecommands, Accept(t)
      PROVE  Kept'
  <2>1. burst' = WriteAccepted(t).out /\ tc' = t /\ t.verdict = "ok"
    BY <1>1 DEF Accept, Transmit
  <2>2. SubtypesOf(WriteAccepted(t).out) = Promised(t)
    BY <1>0, <2>1, AcceptedKept
  <2> QED
    BY <2>1, <2>2 DEF Kept
<1>2. ASSUME NEW t \in Telecommands, Reject(t)
      PROVE  Kept'
  <2>1. burst' = WriteRejected(t).out /\ tc' = t /\ t.verdict \in {"crc", "version", "service"}
    BY <1>2 DEF Reject, Transmit
  <2>2. SubtypesOf(WriteRejected(t).out) = Promised(t)
    BY <1>0, <2>1, RejectedKept
  <2> QED
    BY <2>1, <2>2 DEF Kept
<1>8. ASSUME NEW t \in Telecommands, RejectLength(t)
      PROVE  Kept'
  <2>1. burst' = WriteLengthError.out /\ tc' = t /\ t.verdict = "length"
    BY <1>8 DEF RejectLength, Transmit
  <2>2. SubtypesOf(WriteLengthError.out) = <<"1,2">>
    BY <1>0, FailureKept DEF WriteLengthError
  <2>3. Promised(t) = <<"1,2">>
    BY <2>1 DEF Promised
  <2> QED
    BY <2>1, <2>2, <2>3 DEF Kept
<1>3. ASSUME NEW t \in Telecommands, Ignore(t)
      PROVE  Kept'
  <2>1. tc' = t /\ t = Noise
    BY <1>3, TelecommandCases DEF Ignore
  <2> QED
    BY <2>1 DEF Kept
<1>4. CASE ReportEvent \/ ReportHk \/ \E cap \in PartBuffers : NextPart(cap)
  <2>1. tc' = Noise
    BY <1>4 DEF ReportEvent, ReportHk, NextPart, Report
  <2> QED
    BY <2>1 DEF Kept
<1>5. CASE UNCHANGED rvars
  <2>1. tc' = tc /\ burst' = burst
    BY <1>5 DEF rvars
  <2> QED
    BY <2>1 DEF Kept
<1>6. ASSUME NEW id \in Transactions, NEW len \in UnitLens, Start(id, len)
      PROVE  UNCHANGED rvars
  BY <1>6 DEF Start
<1>7. UNCHANGED lvars => UNCHANGED rvars
  BY DEF lvars
<1> QED
  BY <1>1, <1>2, <1>3, <1>4, <1>5, <1>6, <1>7, <1>8 DEF LNext, OtherTelemetry, RNext

(* "No individual report can run out of space mid-burst": with a buffer for *)
(* the worst case, every telecommand gets each report it asked for, in the  *)
(* order acceptance, service, completion, and no other.                     *)
THEOREM EveryReportEmitted ==
    ASSUME WorstCaseFits
    PROVE  LSpec => []VerificationComplete
<1>1. LInit => Kept
  BY DEF LInit, RInit, Kept
<1>2. LInv /\ Kept /\ [LNext]_lvars => Kept'
  BY KeptStep
<1>3. Kept => VerificationComplete
  BY DEF Kept, SubtypesOf, VerificationComplete
<1> QED
  BY <1>1, <1>2, <1>3, LargeDataInvariant, PTL DEF LSpec
============================================================================
