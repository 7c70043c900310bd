------------------------------- MODULE Router -------------------------------
(***************************************************************************)
(* The telecommand router (lib/pus/src/tc_router.c): acceptance, PUS-1     *)
(* verification (pus1.c) around the routed service, and the counters of    *)
(* the telemetry it shares with the spontaneous reports of the main loop - *)
(* the CCSDS sequence count of the application process and the message     *)
(* counter of each report subtype.                                         *)
(*                                                                         *)
(* A telecommand is what acceptance makes of it and, when accepted, what   *)
(* its service handler answers; a packet is its subtype, size and counts.  *)
(***************************************************************************)
EXTENDS Integers, Sequences, FiniteSets

CONSTANTS
    OutCap,       \* MIGRIS_TC_ROUTER_MAX_TM
    Replies,      \* service reports: pairs of subtype and size
    SeqMod,       \* 2^14
    CounterMod,   \* 2^8
    MaxBursts     \* bound: transmissions

SUCCESS_SIZE == 22
FAILURE_SIZE == 23
HK_SIZE      == 47
EVENT_SIZE   == 28   \* eight bytes of auxiliary data

Verification == {"1,1", "1,2", "1,7", "1,8"}
Spontaneous  == {"5", "3,25", "13,1", "13,2", "13,3"}   \* one severity of event
Subtypes     == Verification \cup Spontaneous \cup {r[1] : r \in Replies}

ASSUME RouterAssumption ==
    /\ OutCap \in Nat /\ SeqMod \in Nat \ {0} /\ CounterMod \in Nat \ {0} /\ MaxBursts \in Nat
    /\ \A r \in Replies : r[2] \in Nat
    /\ \A r \in Replies : r[1] \notin Verification   \* only the router verifies

(* The message counters the contexts hold.  Reports [3,25] have two: the   *)
(* router's context for polls and the main loop's own for periodic and     *)
(* dynamic reports.                                                        *)
LoopHk   == "3,25 of the loop"
Counters == Subtypes \cup {LoopHk}

(* Telecommands by the verdict of migris_tc_accept: not for this process;  *)
(* a length error (acknowledgement flags unknown); another failure; or     *)
(* accepted, with the handler's answer.                                    *)
Acks     == SUBSET {"acceptance", "completion"}
Noise    == [verdict |-> "noise"]
BadLen   == [verdict |-> "length"]
Failing  == [verdict : {"crc", "version", "service"}, acks : Acks]
Answers  == [kind : {"quiet", "unknown subtype", "failure"}] \cup
            [kind : {"report"}, reply : Replies]
Accepted == [verdict : {"ok"}, acks : Acks, answer : Answers]
Telecommands == {Noise, BadLen} \cup Failing \cup Accepted

VARIABLES
    tm_seq_count,   \* shared CCSDS sequence count
    msg_counter,    \* message counters
    tc_accepted_count, tc_rejected_count,
    burst,          \* the packets of the last transmission
    tc,             \* history: the telecommand it answers; Noise for a spontaneous report
    last_seq,       \* history: sequence count of the packet before the burst
    last_counter,   \* history: per numbering, the message counter on the wire before the burst
    last_hk,        \* history: the message counter of the last [3,25] before the burst, of any kind
    bursts

rvars == <<tm_seq_count, msg_counter, tc_accepted_count, tc_rejected_count, burst, tc,
           last_seq, last_counter, last_hk, bursts>>

----------------------------------------------------------------------------
(* The output buffer while a burst is being written, for the source of a   *)
(* telecommand or, spontaneous, for destination 0.                         *)
Writing(dest) ==
    [out |-> <<>>, room |-> OutCap, seq |-> tm_seq_count, msg |-> msg_counter, dest |-> dest]

(* A report builder: a report that does not fit changes nothing; otherwise *)
(* the packet is built and both counts advance.                            *)
Build(b, counter, subtype, size) ==
    IF b.room < size THEN b
    ELSE [b EXCEPT !.out = Append(@, [subtype |-> subtype, size |-> size, dest |-> b.dest,
                                      seq |-> b.seq, counter |-> b.msg[counter]]),
                   !.room = @ - size,
                   !.seq = (@ + 1) % SeqMod,
                   !.msg[counter] = (@ + 1) % CounterMod]

BuildAcceptance(b, ok) ==
    IF ok THEN Build(b, "1,1", "1,1", SUCCESS_SIZE) ELSE Build(b, "1,2", "1,2", FAILURE_SIZE)
BuildCompletion(b, ok) ==
    IF ok THEN Build(b, "1,7", "1,7", SUCCESS_SIZE) ELSE Build(b, "1,8", "1,8", FAILURE_SIZE)

(* router_route: the service's report, if it has one and it fits. *)
Route(b, answer) ==
    IF answer.kind = "report" THEN Build(b, answer.reply[1], answer.reply[1], answer.reply[2]) ELSE b

(* The handler succeeded: a report that was built, or no report to build. *)
Executed(b, routed, answer) ==
    \/ answer.kind = "quiet"
    \/ answer.kind = "report" /\ routed # b

(* Mutant: an accepted telecommand always gets its completion report. *)
WriteIgnoringCompletionFlag(t) ==
    LET b  == Writing("source")
        b0 == IF "acceptance" \in t.acks THEN BuildAcceptance(b, TRUE) ELSE b
        b1 == Route(b0, t.answer)
    IN  BuildCompletion(b1, Executed(b0, b1, t.answer))

(* The accepted telecommand's burst: acceptance, service, completion. *)
WriteAccepted(t) ==
    LET b  == Writing("source")
        b0 == IF "acceptance" \in t.acks THEN BuildAcceptance(b, TRUE) ELSE b
        b1 == Route(b0, t.answer)
    IN  IF "completion" \in t.acks THEN BuildCompletion(b1, Executed(b0, b1, t.answer)) ELSE b1

(* Without a valid length neither the source nor the flags are known: the  *)
(* rejection is always answered, to destination 0.                         *)
WriteLengthError == BuildAcceptance(Writing("0"), FALSE)

(* Mutant: a rejection is answered from a fresh sequence count. *)
WriteRejectedRestart(t) ==
    IF "acceptance" \in t.acks
      THEN BuildAcceptance([Writing("source") EXCEPT !.seq = 0], FALSE)
      ELSE Writing("source")

(* Another acceptance failure is answered if the telecommand asked for it. *)
WriteRejected(t) ==
    IF "acceptance" \in t.acks THEN BuildAcceptance(Writing("source"), FALSE) ELSE Writing("source")

(* The numbering the code gives a packet.  Polled and periodic [3,25] are  *)
(* numbered by two contexts; their destinations tell them apart, as long   *)
(* as no telecommand comes from source 0.                                  *)
Stream(pkt) == IF pkt.subtype = "3,25" /\ pkt.dest = "0" THEN LoopHk ELSE pkt.subtype

(* transmit_tm of what was written. *)
Transmit(b) ==
    /\ burst' = b.out
    /\ tm_seq_count' = b.seq
    /\ msg_counter' = b.msg
    /\ last_seq' = IF burst = <<>> THEN last_seq ELSE burst[Len(burst)].seq
    /\ last_counter' = [s \in Counters |->
         LET sent == {i \in DOMAIN burst : Stream(burst[i]) = s}
         IN  IF sent = {} THEN last_counter[s] ELSE burst[CHOOSE i \in sent : TRUE].counter]
    /\ last_hk' =
         LET sent == {i \in DOMAIN burst : burst[i].subtype = "3,25"}
         IN  IF sent = {} THEN last_hk ELSE burst[CHOOSE i \in sent : TRUE].counter

(* The bound on the bursts that are explored. *)
Counted == bursts < MaxBursts /\ bursts' = bursts + 1

----------------------------------------------------------------------------
RInit ==
    /\ tm_seq_count = 0 /\ msg_counter = [c \in Counters |-> 0]
    /\ tc_accepted_count = 0 /\ tc_rejected_count = 0
    /\ burst = <<>> /\ tc = Noise
    /\ last_seq = SeqMod - 1 /\ last_counter = [s \in Counters |-> CounterMod - 1]
    /\ last_hk = CounterMod - 1
    /\ bursts = 0

(* migris_tc_router_dispatch of an accepted telecommand *)
Accept(t) ==
    /\ t.verdict = "ok"
    /\ Counted /\ Transmit(WriteAccepted(t))
    /\ tc' = t
    /\ tc_accepted_count' = tc_accepted_count + 1
    /\ UNCHANGED tc_rejected_count

(* ... of one whose length is wrong, and of one that fails another check.  *)
(* Both also report an anomaly to FDIR (Fdir.RejectTc).                    *)
RejectLength(t) ==
    /\ t.verdict = "length"
    /\ Counted /\ Transmit(WriteLengthError)
    /\ tc' = t
    /\ tc_rejected_count' = tc_rejected_count + 1
    /\ UNCHANGED tc_accepted_count

Reject(t) ==
    /\ t.verdict \in {"crc", "version", "service"}
    /\ Counted /\ Transmit(WriteRejected(t))
    /\ tc' = t
    /\ tc_rejected_count' = tc_rejected_count + 1
    /\ UNCHANGED tc_accepted_count

(* A packet that is not for this process is ignored. *)
Ignore(t) ==
    /\ t.verdict = "noise"
    /\ Transmit(Writing("0"))
    /\ tc' = t
    /\ UNCHANGED <<tc_accepted_count, tc_rejected_count, bursts>>

(* A report of the main loop's own. *)
Report(b) ==
    /\ Counted /\ Transmit(b)
    /\ tc' = Noise
    /\ UNCHANGED <<tc_accepted_count, tc_rejected_count>>

(* An event, drained from FDIR. *)
ReportEvent == Report(Build(Writing("0"), "5", "5", EVENT_SIZE))

(* Periodic and dynamic housekeeping, with the loop's context. *)
ReportHk == Report(Build(Writing("0"), LoopHk, "3,25", HK_SIZE))

RNext ==
    \/ \E t \in Telecommands : Accept(t) \/ RejectLength(t) \/ Reject(t) \/ Ignore(t)
    \/ ReportEvent
    \/ ReportHk

RSpec == RInit /\ [][RNext]_rvars

----------------------------------------------------------------------------
Packet == [subtype : Subtypes, size : Nat, dest : {"0", "source"},
           seq : 0 .. SeqMod - 1, counter : 0 .. CounterMod - 1]

(* The counts keep to their widths (14-bit sequence count, 8-bit message   *)
(* counters) and a burst never holds more than its three reports.          *)
RTypeOK ==
    /\ tm_seq_count \in 0 .. SeqMod - 1
    /\ msg_counter \in [Counters -> 0 .. CounterMod - 1]
    /\ burst \in Seq(Packet) /\ Len(burst) <= 3
    /\ tc \in Telecommands

(* What PUS-1 promises for a telecommand, whatever the room in the buffer. *)
Promised(t) ==
    LET ok       == t.answer.kind \in {"quiet", "report"}
        accept   == IF "acceptance" \in t.acks THEN <<"1,1">> ELSE <<>>
        service  == IF t.answer.kind = "report" THEN <<t.answer.reply[1]>> ELSE <<>>
        complete == IF "completion" \in t.acks THEN <<IF ok THEN "1,7" ELSE "1,8">> ELSE <<>>
    IN  CASE t.verdict = "ok"     -> accept \o service \o complete
          [] t.verdict = "length" -> <<"1,2">>
          [] t.verdict \in {"crc", "version", "service"} ->
                 IF "acceptance" \in t.acks THEN <<"1,2">> ELSE <<>>

(* "With a worst-case-sized buffer no individual report can run out of     *)
(* space": every report a telecommand asked for is emitted, in the order   *)
(* acceptance, service, completion - none of the ignored builder failures  *)
(* ever happens.                                                           *)
VerificationComplete ==
    tc # Noise => [i \in DOMAIN burst |-> burst[i].subtype] = Promised(tc)

(* "Strictly monotonic across boot, verification/service bursts, periodic  *)
(* housekeeping and anomalies": neither gap nor duplicate on the wire, in  *)
(* the CCSDS sequence count and in every message counter the code keeps,   *)
(* through bursts that mix subtypes and between the router and the loop.   *)
(* For [3,25] these are two counters where the documents have one: see     *)
(* OneHkCounter.                                                           *)
NumberingUnbroken ==
    \A i \in DOMAIN burst :
        /\ burst[i].seq = (last_seq + i) % SeqMod
        /\ burst[i].counter = (last_counter[Stream(burst[i])] + 1) % CounterMod

(* docs/wire/pus-3.md: "Message Counter | Per (service, subtype) - one     *)
(* counter for [25]", polled and periodic alike.  Violated: the loop       *)
(* numbers its reports from a context of its own, so a poll and the        *)
(* periodic report after it bear the same counter.                         *)
OneHkCounter ==
    \A i \in DOMAIN burst :
        burst[i].subtype = "3,25" => burst[i].counter = (last_hk + 1) % CounterMod
============================================================================
