------------------------------- MODULE Uplink -------------------------------
(***************************************************************************)
(* The receive path of the tc_uart sample (samples/tc_uart/src/main.c):    *)
(* the UART interrupt puts bytes into a bounded ring and drops those that  *)
(* find it full; the main loop takes one byte per iteration and delimits   *)
(* telecommands by the CCSDS packet data length alone.  There is no time-  *)
(* out and no resynchronisation but the oversize check.                    *)
(***************************************************************************)
EXTENDS Integers, Sequences, SequencesExt

CONSTANTS
    Header,     \* MIGRIS_CCSDS_PRIMARY_HEADER_SIZE; its last byte is the length
    BufSize,    \* TC_BUF_SIZE
    RingSize,   \* RX_RING_SIZE
    Bytes,      \* the values of a byte
    Packets,    \* the telecommands ground sends
    MaxSent     \* bound: telecommands sent

ASSUME UplinkAssumption ==
    /\ Header \in Nat \ {0} /\ BufSize \in Nat /\ Header < BufSize
    /\ RingSize \in Nat \ {0} /\ MaxSent \in Nat
    /\ Bytes \subseteq Nat
    /\ Packets \subseteq Seq(Bytes)

VARIABLES
    sent,         \* history: telecommands ground has sent
    wire,         \* bytes on the line
    rx_ring,      \* the ring the interrupt fills
    drops,        \* rx_ring_overflow_drops
    tc, want,     \* the telecommand being collected, its size once known
    stored,       \* history: highest index of tc[] ever written, plus one
    dispatched    \* history: frames handed to the router

uvars == <<sent, wire, rx_ring, drops, tc, want, stored, dispatched>>

----------------------------------------------------------------------------
(* Mutant: the data length field is taken for the length itself. *)
TotalSizeAsIs(data_length) == Header + data_length

(* migris_ccsds_packet_total_size *)
TotalSize(data_length) == Header + data_length + 1

(* Mutant: a telecommand one byte longer than the buffer is let through. *)
OversizeOffByOne(size) == size > BufSize + 1

Oversize(size) == size > BufSize

(* The size once byte b has been stored: known with the header's last byte. *)
WantAfter(b) == IF Len(tc) + 1 = Header THEN TotalSize(b) ELSE want

UInit ==
    /\ sent = <<>> /\ wire = <<>> /\ rx_ring = <<>> /\ drops = 0
    /\ tc = <<>> /\ want = 0 /\ stored = 0 /\ dispatched = <<>>

(* Ground sends a telecommand over the line. *)
Send(p) ==
    /\ Len(sent) < MaxSent
    /\ sent' = Append(sent, p)
    /\ wire' = wire \o p
    /\ UNCHANGED <<rx_ring, drops, tc, want, stored, dispatched>>

(* Mutant: a byte that finds the ring full overwrites the newest one and   *)
(* is not counted.                                                         *)
UartIsrOverwrites ==
    /\ wire # <<>>
    /\ wire' = Tail(wire)
    /\ rx_ring' = IF Len(rx_ring) < RingSize THEN Append(rx_ring, Head(wire))
                  ELSE [rx_ring EXCEPT ![RingSize] = Head(wire)]
    /\ UNCHANGED <<sent, drops, tc, want, stored, dispatched>>

(* The interrupt, at any point of the loop: a byte that finds the ring     *)
(* full is dropped and counted.                                            *)
UartIsr ==
    /\ wire # <<>>
    /\ wire' = Tail(wire)
    /\ IF Len(rx_ring) < RingSize
         THEN rx_ring' = Append(rx_ring, Head(wire)) /\ UNCHANGED drops
         ELSE drops' = drops + 1 /\ UNCHANGED rx_ring
    /\ UNCHANGED <<sent, tc, want, stored, dispatched>>

(* One byte of the ring goes into tc[have++] ... *)
Take(b) ==
    /\ rx_ring # <<>> /\ b = Head(rx_ring)
    /\ rx_ring' = Tail(rx_ring)
    /\ stored' = IF Len(tc) + 1 > stored THEN Len(tc) + 1 ELSE stored
    /\ UNCHANGED <<sent, wire, drops>>

(* ... the size just learned does not fit: out of sync, listen again, *)
OutOfSync(b) == Len(tc) + 1 = Header /\ Oversize(WantAfter(b))

Resync(b) ==
    /\ Take(b)
    /\ OutOfSync(b)
    /\ tc' = <<>> /\ want' = 0
    /\ UNCHANGED dispatched

(* ... or the telecommand is complete: dispatched, whatever the verdict, *)
Complete(b) == WantAfter(b) # 0 /\ Len(tc) + 1 = WantAfter(b)

Dispatch(b) ==
    /\ Take(b)
    /\ ~ OutOfSync(b) /\ Complete(b)
    /\ dispatched' = Append(dispatched, Append(tc, b))
    /\ tc' = <<>> /\ want' = 0

(* ... or it is not. *)
Collect(b) ==
    /\ Take(b)
    /\ ~ OutOfSync(b) /\ ~ Complete(b)
    /\ tc' = Append(tc, b) /\ want' = WantAfter(b)
    /\ UNCHANGED dispatched

(* Nothing received: the loop sleeps and comes back. *)
Idle == rx_ring = <<>> /\ UNCHANGED uvars

Loop == \/ \E b \in Bytes : Resync(b) \/ Dispatch(b) \/ Collect(b)
        \/ Idle

UNext == \/ \E p \in Packets : Send(p)
         \/ UartIsr
         \/ Loop

USpec == UInit /\ [][UNext]_uvars

(* Bytes on the line arrive, and the main loop runs for ever. *)
UFairSpec == USpec /\ WF_uvars(UartIsr) /\ WF_uvars(Loop)

----------------------------------------------------------------------------
(* Sequences of bytes within the sizes of the ring and the buffer. *)
UTypeOK ==
    /\ wire \in Seq(Bytes) /\ drops \in Nat
    /\ rx_ring \in Seq(Bytes)
    /\ tc \in Seq(Bytes) /\ want \in Nat /\ stored \in Nat

(* tc[have++] never writes past TC_BUF_SIZE, whatever lengths arrive and   *)
(* whatever is lost, although no bound is tested at the store itself; nor  *)
(* does the interrupt overfill its ring.                                   *)
BufferSafe == stored <= BufSize /\ Len(rx_ring) <= RingSize

(* Nothing lost and nothing oversize so far. *)
Clean == drops = 0 /\ \A i \in DOMAIN sent : ~ Oversize(Len(sent[i]))

(* Delimiting is exact: as long as nothing was dropped, the frames handed  *)
(* to the router are the telecommands sent, whole, in order, once each -   *)
(* however the bytes of several of them meet in the ring.                  *)
FramedInOrder == Clean => IsPrefix(dispatched, sent)

(* A telecommand that was sent is handed to the router, unless bytes were  *)
(* dropped (and counted) or the line carried an oversize one.              *)
AllDelivered ==
    \A n \in 1 .. MaxSent : (Len(sent) >= n) ~> (Len(dispatched) >= n \/ ~ Clean)
============================================================================
