# TLA+ verification of the fsw-core flight software

TLA+ models of the core of fsw-core, checked by TLC on small instances, and
theorems checked by TLAPS for every instance. `PROJECT.json` maps every
definition to the source lines it stands for, lists the runs, the mutants (a
plausible bug for each property, which the property must catch), the hazards
and the theorems.

## 1. The system

fsw-core is single-threaded flight software in C. `samples/tc_uart/src/main.c`
shows how its libraries are composed: after a boot sequence one endless loop
runs, and beside it a UART interrupt receives bytes. Every iteration runs, in
this order:

1. the save tick: each persisted subsystem whose generation counter moved is
   serialised into the RAM image, and the image is saved once if any was;
2. periodic and dynamic housekeeping;
3. the receive-overflow detector, which reports bytes the interrupt dropped;
4. the drain of one queued event;
5. the release and dispatch of one due scheduled activity;
6. the replay of one stored packet, if a retrieval is active;
7. one part of a large-data transfer;
8. one received byte and, when it completes a telecommand, its dispatch.

All telemetry leaves through `transmit_tm`, which also taps it into the packet
store.

### Inventory

| Component | State | Operations | What makes it correct |
|---|---|---|---|
| Record store `lib/nvstore` | RAM payload, `loaded`, sequence number, live sector; two flash sectors | init, load, get, put, save | no power loss or failed flash operation loses an acknowledged image |
| Persistence in `main.c` | generations and `last_saved_gen_*` | boot-time restore, `nv_autosave_tick`, coalesced save | a subsystem taken for saved is saved; every change becomes durable |
| Schedule and PUS-11 `lib/schedule`, `pus11.c` | unordered array of activities, enabled, generation | enable, disable, reset, insert, delete, report, pop_due, (de)serialise | a table with unique identifiers; earliest due first; batches all or nothing |
| FDIR and event ring `lib/fdir` | occurrence counters, latches, ring | report, arm, enable, drain | recovery exactly when confirmed; order and cause on the wire |
| Mode manager `lib/mode` | current mode, generation | request, init, (de)serialise | only allowed transitions; what ground saw survives |
| Packet store and PUS-15 `lib/pktstore`, `pus15.c` | ring, enabled, retrieval cursor | store, delete, arm, retrieve_next | newest packets kept; a retrieval replays its window exactly and ends |
| Router, acceptance and PUS-1 `tc_router.c`, `pus1.c` | shared sequence count, message counters, tallies | dispatch | every requested report is emitted, numbered without gaps |
| Uplink in `main.c` | receive ring, drop counter, telecommand buffer | `uart_isr`, byte collection | no overrun; exact framing while nothing is dropped |
| PUS-5 `pus5.c` | message counter per severity | build | numbering |
| Housekeeping store and PUS-3 `lib/hkstore`, `pus3.c` | slots of structures (parameters, interval, enabled, last emission), count, generation | create, delete, enable, disable, take_due, (de)serialise; the framework report with its tunable period | one structure per identifier; each is reported at its interval, none early, none starved; definitions survive |
| Datapool and PUS-20 `lib/datapool`, `pus20.c` | typed parameters with access rights, generation | init from a table, get, set, report, (de)serialise | a set of several parameters is all or nothing; ground reads back what it wrote |
| Large data and PUS-13 `lib/largedata`, `pus13.c` | one session: unit, cursor, part numbers | start, next part | ground can put the unit together from the parts |
| CCSDS/PUS codecs, CRC, PUS-17 | none | encode, decode | bit layout |

### Where it is hard

- Power can be lost between any two steps, and inside a flash erase or write.
- A flash operation can report failure after part, or all, of its effect.
- The interrupt runs between any two steps of the loop, fills the ring and
  increments a counter the loop reads.
- A released telecommand can change the schedule it came from.
- Ring buffers (events, packets, received bytes) are used at their limits.
- Return codes are ignored in many places because an earlier check is meant to
  make failure impossible (`pus11.c` and `pus20.c` pass two, report builders in
  the router).
- One event, one activity, one housekeeping structure, one replayed packet, one
  large-data part per iteration: something must keep anything from waiting for
  ever, and everything else happens between two of them.
- The record on flash may have been written by another firmware, with other
  parameters and other types.
- Times are seconds since boot, subtracted without sign; saved state outlives
  the clock.

## 2. Modules

| Module | Models | Composition |
|---|---|---|
| `DurableImage` | abstract specification: one durable image that changes atomically | refined by `NvStore` |
| `NvStore` | `nvstore.c` over flash | |
| `Autosave` | restore, save tick and save in `main.c` | extends `NvStore`: its save steps are `NvStore`'s |
| `PersistenceProofs` | theorems about `NvStore` and `Autosave` | extends `Autosave` |
| `TimeTable` | abstract specification: a set of activities handed out earliest first | refined by `Schedule` |
| `Schedule` | `schedule.c`, `pus11.c`, release and dispatch in `main.c` | |
| `ScheduleProofs` | theorems about `Schedule` | extends `Schedule`, `NumberLemmas` |
| `Fdir` | `fdir.c`, `event_fifo.c`, `mode.c`, PUS-5 counters, detector, drain and save tick | composes FDIR, mode manager, interrupt and loop |
| `FdirProofs` | theorems about `Fdir` | extends `Fdir`, `NumberLemmas` |
| `PktStore` | `pktstore.c`, `pus15.c`, `transmit_tm` and the replay tick | |
| `Router` | `migris_tc_accept` by verdict, `tc_router.c`, `pus1.c`, spontaneous reports | |
| `LargeData` | `largedata.c`, `pus13.c`, the part tick of `main.c` | extends `Router`: parts go out between its bursts, numbered by the same counts |
| `LargeDataProofs` | theorems about `Router` and `LargeData` | extends `LargeData`, `NumberLemmas` |
| `Datapool` | `datapool.c`, `pus20.c`, save tick, restore, boot into another firmware | |
| `DatapoolProofs` | the codec, and theorems about `Datapool` | extends `Datapool`, `NumberLemmas` |
| `HkStore` | `hkstore.c`, structure management of `pus3.c`, both emission ticks, save tick, restore | |
| `HkStoreProofs` | theorems about `HkStore` | extends `HkStore`, `NumberLemmas` |
| `Uplink` | `uart_isr` and the byte collection of `main.c` | |
| `LinkProofs` | theorems about `Uplink` and `PktStore` | extends both, `NumberLemmas`; the two specifications stay apart |
| `NumberLemmas` | lemmas the proofs share: counters that wrap, least numbers, induction, recursion | |
| `MC*` | constants of the instances | |

Conventions. An action is one handler, or one step of a handler where power can
fail or another actor can run in between. A variable `pc`, `phase` or `at` is
the position of the loop. Variables marked *history* exist for the properties
and appear in no guard. Bounds on otherwise unbounded counters are the
constants named `Max...`; the guards that use them are marked. Definitions
under a comment that starts with "Mutant" are the deliberately wrong variants
`PROJECT.json` lists; no specification uses them.

### NvStore and Autosave

A sector is reduced to what `load` distinguishes: does its header parse, which
sequence number, does the CRC match, which payload. `save` is `SaveBegin`,
`EraseDone | EraseError`, `WriteDone | WriteError`. An erase or write that
fails, or that power loss cuts off, leaves the sector blank, with an arbitrary
header and a bad CRC, as it was (erase), or with the complete new image (write
that failed after the last byte). A damaged sector whose CRC happens to match
is excluded. `put` drops the old record before it tests for room, as the code
does. The history variable `acked` is the image the last successful save or
load promised, `attempts` the payloads handed to `save` since.

`Autosave` adds the subsystems (state and generation), `nv_autosave_tick` in
the code's order, the coalesced save whose result is discarded, and the
boot-time transition from BOOT to NOMINAL. A telecommand that sets a subsystem
to the value it has still advances its generation, except for the mode manager,
which refuses it. The history variable `save_failed` says whether the latest
save returned an error, which the loop discards; the durability properties
excuse exactly that case, and `RetriedUntilDurable` does not.

### Schedule

The array, the swap-with-last removal and the first-of-the-earliest scan are
the code's. An activity has the length its telecommand declares, so that the
two length checks, that of the decoding pass (`Insertable`: not too long) and
that of `migris_schedule_insert` (`SizeOk`: between 4 and 64 bytes), can
disagree; no telecommand declares fewer than 7 bytes, the size of a packet with
data length 0. Both passes of insert and delete are separate steps. Ground and
the released telecommands may insert without end. `saved` is the record on
flash; the record store itself is `NvStore`'s business and is taken to work. A
power cycle deserialises the record, with its refusals, and restarts the clock
at zero.

An activity that was released after the last save is still in the record: after
a power loss it is released a second time. `TimeTable` says so (`PowerCycle`
goes back to the last persisted table), and `RefinesTable` promises a single
release only while the power stays on.

`DueIsReleased` is about each activity: once due in an enabled schedule it does
not stay, unless telecommands for ever insert activities that are due no later
than it (`Overtakes`). That exception is the code's and is as small as it can
be. Releases run in time order, one per iteration; and of two activities with
the same time the one that stands first in the array goes first, where a
removal has put the newest in front of an older one. With `<` in place of `<=`
in `Overtakes` TLC shows such a tie starving an activity.

### Fdir

The ring is the code's (slots, head, count, drop-newest). A report pushes the
anomaly, counts it, and on the confirmation edge pushes FDIR_RECOVERY and
requests SAFE, which pushes MODE_CHANGED. The detector is two steps, the
volatile read and the report, with the interrupt in between. Mission code
(mode requests, suppression, re-arming) acts where telecommands are dispatched.
Every event has a number, which counts what was raised; the message counter is
given when it is drained, as in the code. `GapsAreVisible` compares the two.

### PktStore

Every phase of the loop that transmits may emit packets; each is tapped, in the
order of the burst, unless the store is disabled, retrieving, or the packet too
long. The history variable `log` follows the store packet by packet. `[15,9]`, `[15,11]`,
`[15,1]` and `[15,2]` come with their verification reports, which are tapped
after the command took effect.

### Router

A telecommand is its verdict, its acknowledgement flags and its handler's
answer. Builders refuse a report that does not fit and otherwise advance both
counts. The sizes are the code's, and so is the 128-byte buffer. A rejection has
two places in the code, and two actions: a wrong length is always answered, to
destination 0 (`RejectLength`), any other failure to the source and only if the
telecommand asked for it (`Reject`). The anomaly either raises belongs to
`Fdir`. The code has two counters for [3,25], in the router's context for polls
and in the loop's for periodic and dynamic reports; `Stream` assigns a packet to
the counter that numbered it. `NumberingUnbroken` is about the counters the code
has, `OneHkCounter` about the one the documents promise.

### LargeData

The session, its start with the refusals in the code's order, and `next_part`
are the code's; a part carries the range of the unit it was copied from. A part
that does not fit the buffer it is given changes nothing and is tried again.
The history variable `parts` is what ground has received of the latest
transfer; `Reassembled` states the collection rules of `docs/wire/pus-13.md`
over it. Everything `Router` does may happen between two parts.
No handler answers with a verification report of its own: that the router alone
verifies is part of `RouterAssumption`.

### Datapool

Values are typed numbers; `Encode` and `Decode` are the code's big-endian
two's-complement codec, with the size of a byte as a parameter (`Place[k]` is
what a shift by k bytes multiplies by, `Shifted` the loop of the decoder). A
[20,3]
request is validated whole (`SetValues`) and applied one parameter per step
(`ApplySet`), each step with the tests of `migris_datapool_set`. `Reboot` picks
any firmware: its table gives the defaults, over which the entries of the
record that match in identifier and type are restored. The record is a count
and entries in the order of the table; the restore takes them one by one up to
the count, and stops at the first whose type code it does not know or whose
value is cut short (`Readable`), keeping what it took before (`Taken`). Before
the first boot the flash may hold the record of a firmware that is not among
the modelled ones (`OldRecords`). The history variable
`ground` keeps the bytes ground last set, as long as they are bound to hold:
until power is lost before a save tick, or a firmware is booted that lacks the
parameter or gives it another type.

### HkStore

Slots, the free-slot search, the count, and the scan of `take_due` (longest
waiting first, lowest slot on a tie) are the code's. An iteration reads the
clock once and then goes through the framework report, the dynamic report and
two places where a telecommand may be dispatched. A structure that names a
parameter the datapool lacks is taken and stamped but not reported, as in the
code. A power loss restarts the clock and restores the definitions with their
stamps at zero. A record is the store's count and, behind it, the used slots
that the walk over all slots finds (`PackedUpto`): the two come from different
variables, and agree only if the count is right. `Restorable` is the restore's
verdict on a record: its count has room, that many entries follow it, each is
readable and none repeats an identifier; otherwise nothing is restored. Before
the first boot the flash may hold a record of another firmware (`OldRecords`)
that fails any of these. The history variables are `sent`, the time of the latest
report, and `passed`, the slots served while a slot was due.

### Uplink

Bytes, ring, collection and the oversize check are the code's; only the sizes
are scaled. A header's last byte is its length field (one byte instead of two).

## 3. Runs

Passing runs (distinct states in parentheses); all check for deadlock.
`ATypeOK`, `STypeOK`, `FTypeOK`, `LTypeOK`, `DTypeOK` and `HTypeOK` are the type
invariants, with the relations between variables that belong to them.

| Run | Checks | Shows |
|---|---|---|
| `autosave` (18 500) | `ATypeOK`, `CleanMeansInImage`, `OneIterationWindow`, `PowerSafe`, `BeliefMatchesFlash`, `Refines`, `EventuallyDurable` | power loss and failing flash at any point, over any number of reboots; refused puts, unserialisable states; unless a save fails the loss window is one iteration |
| `schedule` (138 000) | `STypeOK`, `NoInsertCanFail`, `CleanMeansSaved`, `RefinesTable`, `DueIsReleased` | batches with telecommands of the largest allowed length and of one byte more, self-modifying schedules, power cycles; under inserts without end, a due activity waits only for activities that keep coming and are due no later than it |
| `fdir` (456 000) | `FTypeOK`, `WireOrder`, `CauseBeforeEffect`, `SeenIsDurable`, `DropsToldOnce`, `RecoversOnce`, `EventsReachGround` | overflow in the middle of a recovery, interrupt in the detector, power loss; accepted events are transmitted |
| `link` (762 000) | `BufferSafe`, `FramedInOrder`, `AllDelivered`; `NewestRun`, `ReplayExact`, `RetrievalEnds` | every traffic of three telecommands with drops; traffic and telecommands between replayed packets, and the store does not stay frozen |
| `dispatch` (625 000) | `LTypeOK`, `VerificationComplete`, `NumberingUnbroken`, `Reassembled`; `DTypeOK`, `AllOrNothing`, `CleanMeansSaved`, `ReadYourWrites` | every verdict, flag and answer combination, between the parts of large-data transfers; sets that name a parameter twice, power loss between two writes, boots into other firmwares, a record the restore gives up halfway |
| `hkstore` (133 000) | `HTypeOK`, `OneStructurePerSid`, `CleanMeansRestored`, `Spaced`, `NoSecondPass`, `DueIsServed` | structures with short intervals and slow iterations, one that can never be reported, disabling, deletion and power loss in between, records of other firmwares that are refused; no due structure waits for ever |

`link` (`MCLink`) and `dispatch` (`MCDispatch`) each look at two parts that share
no variable. A behaviour of such a pair is a behaviour of each part, and what
the other one does in between changes nothing; so these runs let one of the two
move and the other rest, and their states are those of both parts together.

Runs that show a disagreement between the code and what its comments or docs
say:

| Run | Statement | What happens |
|---|---|---|
| `nv_read_fault` | `load` reports ERR_BACKEND; `save` erases "the older (or empty) sector" | a failed read counts as an empty sector; the next save may erase the newest image |
| `autosave_retry` | "a backend failure leaves the last_saved_gen_* snapshots unchanged so the next iteration retries" | snapshots advance at the put; no retry |
| `schedule_stale` | a freshly booted FSW does not fire a stale schedule until ground sends [11,1] | the enabled flag is restored |
| `dp_identity` | firmware-identity values, which mirror "the migris-fsw-core project version", are surfaced through read-only parameters | the record holds read-only parameters too and is restored over them: a new firmware reports the version of the old one |
| `fdir_gap` | the message counter "already lets ground detect a sequence gap on the wire" (`event_fifo.h`) | a refused event was never numbered: the reports before and after it bear successive counters |
| `router_hk` | "one counter for [25]", "shared between the framework and dynamic reports" (`docs/wire/pus-3.md`) | two contexts number [3,25]: a poll and the periodic report after it both bear counter 0 |

Smaller observations made while modelling, without a run of their own:

- `backend_ok` admits more than two sectors, and `save` rotates through all of
  them, but `load` reads only sectors 0 and 1. An instance of `NvStore` with
  `SectorCount = 3` loses an acknowledged image. The sample has two sectors.
- The sequence number of images wraps after 2^32 saves, and the image numbered
  0 then loses against the one before it. No flash lasts that long.
- A comment on the restore of housekeeping structures in `main.c` says that
  emission "re-arms from now so a long boot does not fire an immediate downlink
  burst"; the stamps are set to 0, and the clock is the time since boot. After a
  boot longer than an interval the structure is due in the first iteration;
  `Spaced` therefore counts from boot, and one report per iteration is made.
- `tc_router.h` computes a worst-case burst of 111 bytes; an [11,12] report of
  eight activities with both acknowledgements is 127 bytes. The buffer of 128
  holds it, as `VerificationComplete` confirms with the real sizes.

### Bounds and why they are enough

- `Autosave` with `NvStore`: one ordinary subsystem and the mode manager, the
  only one the boot sequence changes; values that fit, do not fit beside another
  record, and do not serialise; two changes per subsystem between boots; four
  saves, enough to use each sector twice and to save after a failed save and
  after a reboot. The theorems remove the bounds.
- `Schedule`: three identifiers, two release times, capacity three, batches of
  up to two and requests of one item too many, telecommands of 64 bytes and of
  65; inserts are not bounded. Filling gaps at the front, middle and end, ties
  and a full table all occur.
- `Fdir`: ring of two (a recovery raises three events), thresholds one and two
  (edge at once and debounced), counters that wrap at three and four.
- `PktStore`: ring of two, lengths on both sides of the limit, three times,
  four packets: head and tail wrap twice.
- `Router` with `LargeData`: real sizes; counts modulo 4 and 2 so that both
  wrap within four transmissions; units of one full part, of two full parts and
  one byte, too long, and empty; buffers that hold a part and that do not.
- `Uplink`: header 2, buffer 5, ring 2; telecommands of least, middle, largest
  and excessive size.
- `Datapool`: a byte is one bit, which keeps widths, sign and byte order and
  makes every value of every type occur; four identifiers; three firmwares (the
  second changes a type and the identity, the table of the third is refused);
  requests of up to two items, one too many, and values of any length up to
  three bytes.
- `HkStore`: two slots for three identifiers, one of them reserved; requests
  that are refused for too many parameters, that name an unknown parameter and
  that ask for interval 0; iterations of up to two seconds, so that several
  structures are due at once; five seconds between boots. The flash first holds
  no record, a good one, or one that fails by its count, at a later entry, by
  its end or by an identifier that occurs twice.
- `fdir_gap` and `router_hk` have counters of the code's eight bits, so that
  their counterexamples owe nothing to a wrap.

### Fairness

The main loop has no blocking call, so its steps are weakly fair
(`LoopStep`, `TcStep`, `DispatchStep`, `Loop`, `PNext`): it gets past each
place where a telecommand may be dispatched whether or not there is one. In
`HkStore` the loop is fair as a whole (`LoopStep \/ TcStep`): one of the two is
always its next step. The
interrupt handler is weakly fair (`UartIsr`): a byte on the line arrives.
Ground, mission code, drops and power losses have no fairness. `Autosave`
assumes also that a flash operation returns, and that one tried again and again
succeeds at last (strong fairness of `EraseDone` and `WriteDone`); this is what
makes the counterexample of `autosave_retry` one about the missing retry and
not about the flash.

## 4. Proofs

Every safety property of a passing run is a theorem. The theorems hold for every value of the constants that the named
assumptions admit and have no bounds: the `Max...` constants are arbitrary
numbers in them. Each proof follows one pattern: an inductive invariant, first
checked by TLC on the instance of the run, one lemma per action (or group of
actions) that preserves it, and the listed theorems as its consequences.

**`PersistenceProofs`, the record store.**

- `TypeCorrect`: `Spec => []TypeOK`, for every geometry, record set, fault
  setting and bound the assumptions of `NvStore` admit.
- `PowerSafety`, `BeliefCorrect`, `Implements`: `PowerSafe`,
  `BeliefMatchesFlash` and `Refines`, assuming two sectors
  (`SectorCount = 2`), reads that succeed (`~ReadFaults`) and a sequence number
  that does not wrap (`MaxSeq < SeqMod`). The first two assumptions are
  necessary, as the three-sector instance and the run `nv_read_fault` show; the third
  holds for any flash, whose endurance is far below 2^32 erasures.

  None of the three properties is inductive: they say nothing about which
  sector the next save will destroy. The inductive invariant `IInv` adds four
  parts to `TypeOK`. `LoadedInv`: while the store runs on an image, that image is intact in
  the live sector and acknowledged, and the spare sector holds something older
  or an attempt with the next sequence number. `UnloadedInv`: while it runs on
  nothing, nothing was promised and sector 1 is bad. `SavingInv`: between erase
  and write the target is blank. `OffInv`: without power two good images never
  have the same number, so that `load`'s preference is well-defined. The key
  step is `TargetWrite`: a save only touches the spare sector. The lemmas
  `LoadCases` and `RecoverableCases` reduce the two passes of `load` to a case
  distinction once.

**`PersistenceProofs`, the loop**, for every set of subsystems, order of the
tick, record and buffer sizes:

- `LoopTypeCorrect` and `CleanIsInImage`: `ATypeOK` and `CleanMeansInImage`.
  The latter is not inductive. `AInv` adds what it rests on: the loop and the
  store are off together (`OffTogether`); a snapshot never runs ahead of its
  generation (`Ahead`), or a later change would look saved; and a running mode
  manager has left BOOT (`LeftBoot`), or the saved mode would not be the one the
  next boot comes to. This last part needs the assumption that no telecommand
  leads back to BOOT (`BootAssumption`), which the sample's mode table grants.
- `LoopKeepsStore`: `ASpec => Spec`, the loop uses the store only through its
  operations; hence `LoopPowerSafety`: `PowerSafe` holds in the loop, under the
  assumptions of `PowerSafety`.
- `LossWindow`: `OneIterationWindow`, under the same assumptions. `WInv` says
  where the promise stands at each place of the loop: `Busy`, a save is under
  way only where the loop is in one; `Settled`, between saves nothing but the
  promised image can be on flash; `Covered`, while the iteration has put
  nothing a subsystem taken for saved would boot from the promise as it is. The
  last two hold unless the latest save failed.

**`ScheduleProofs`**, for every capacity, set of activities and batch size.
`ScheduleTypeCorrect`, `InsertNeverFails` and `CleanScheduleIsSaved` state
`STypeOK`, `NoInsertCanFail` and `CleanMeansSaved`; `ScheduleRefinesTable`
states `RefinesTable`, step by step, from the lemmas on `FillGap`, the earliest
scan and the two passes. The three properties together are inductive (`SInv`).
`STypeOK` has the array and the record on flash well formed (capacity, unique
identifiers, lengths), because a reboot puts the record in the place of the
array in the middle of anything; `RestoresAll` says that such a record is not
refused.

**`FdirProofs`**, for every ring capacity, confirmation policy and counter
width: `FdirTypeCorrect`, `EventsInWireOrder`, `ReportsNumberedWhenSent`,
`CausesPrecedeEffects`, `SeenModeIsDurable`, `EveryDropToldOnce`, `RecoveryFiresOnce`. `FInv` consists
of `RingInv` (what was raised and accepted is what was sent followed by what is
queued; an effect follows its cause; a queued mode change is not newer than
the generation, and the next one to be sent not newer than what is saved),
`SavedFirst` (after the save tick the mode on flash is the current one),
`Numbering` (the counters are the numbers of events of each severity, modulo
their width), `SnapshotBetween` (the value the detector read lies between the
last one reported and the live counter, around the wrap) and `Confirmation`
(the latch follows the counter, and recovery the latch).
`ReportsNumberedWhenSent` is the general form of what `fdir_gap` shows: a
report's counter is the number of reports of its severity sent before it, so it
cannot tell ground of a loss. Its proof found that the counters must have at
least two values (`CounterMod # 1`), which is part of `FdirAssumption`; the
code's have 2^8.

**`LargeDataProofs`**, for every set of reports and sizes, part size, unit
length, buffer and counter width:

- `NumberingIsUnbroken`, from `RInv`: the packets of a burst continue the counts
  of the wire, each stream occurs at most once in it, and the contexts hold the
  numbers that come next (`Continues`).
- `EveryReportEmitted`: `VerificationComplete`, assuming that the largest reply
  fits the buffer between two success reports, and a failure report after an
  acceptance (`WorstCaseFits`). With the code's sizes this is 127 <= 128 bytes.
- `LargeDataTypeCorrect` and `UnitsReassembled`, from `Cut`: the parts received
  so far are the first `next_part` pieces of the unit, and the cursor stands
  behind them; the session is idle exactly when there are no more. The lemma
  `PartsOfCovers` is about the ceiling division that computes the total.

**`HkStoreProofs`**, for every capacity, set of requests and periods:
`HkStoreTypeCorrect`, `OneStructureEach`, `CleanStoreIsRestored`,
`ReportsSpaced`, `ServedInTurn`. `HInv` consists of `StoreOK` (identifiers are
unique, and the count counts the used slots), `SavedOK` (what a boot makes of
the record on flash is a well-formed store and, unless a save is due, one with
the definitions on board),
`Stamped` (no structure was reported after its stamp), `Ordered` (what was
served while another one waited bears a later stamp than it, which is why it
does not come again before it) and `ClockOK`. Assumed are a clock that stays
below its width and that the model's names for no structure and for the
framework report name nothing else (`NamesAssumption`). Of the records that may
be on flash at first nothing is assumed beyond their type: `DeserializeLoads`
says that whatever is accepted is well formed, `SerializeIsAccepted` that what
this store writes is accepted.

**`DatapoolProofs`**, for every set of tables, every sequence of firmwares and
every even number of values of a byte. `DecodeOfEncode` and `EncodeOfDecode`:
the codec is its own inverse in both directions, for all seven types, by
induction over the loop of `migris_dp_value_encode` and of `_decode`; then
`SavedIsRestored`: deserialising what was serialised gives the pool back.
`DatapoolTypeCorrect`, `SetIsAllOrNothing`, `CleanPoolIsSaved` and
`GroundReadsBack` follow from `DatapoolInvariant`. Its invariant `DInv` says
that the pool suits the running firmware's table, that the entries the restore
takes from the record decode and are unique, that what ground set is in the pool (`Holds`) and, unless
a save is due, in the record with the type it has in the pool (`Stores`), and
that in pass two the pool is the earlier one with the first items applied, the
last one winning (`Applying`).

**`LinkProofs`, telecommands.** `NoOverrun`: `BufferSafe`, for every buffer larger than
the header, every ring and any bytes. The code tests no bound where it stores a
byte; the invariant `Collecting` says why none is needed: the size is unknown
only while the header is being read, and once known it fits the buffer and is
still ahead of what was collected. `DelimitingIsExact`: `FramedInOrder`,
assuming that what ground sends announces its own size (`WellFormed`). The
invariant `FramingInv` says that as long as nothing was dropped or oversize, the
bytes in the buffer, the ring and on the line, in this order (`Underway`), are
those of the telecommands not yet dispatched (`Carries`, over the `Offsets` of
the telecommands in the stream), and that the buffer holds a proper prefix of
the first.

**`LinkProofs`, the packet store**, for every capacity, packet size, burst and
number of packets: `NewestAreKept` (`NewestRun`) and `ReplayIsExact`
(`ReplayExact`). `PInv` consists of `Keeps` (the ring is the tail of `log`, the
accepted packets; their times do not decrease nor pass the clock, and each fits
the buffer it came from, so that a replay is never refused) and, while a
retrieval is active, `Replaying` (its window is a run of consecutive packets of
the ring, `Spans`, and the cursor stands behind those replayed). The lemma
`WindowSpans` is why a cursor is enough: in the order of time the packets of a
window, selected one by one in the definition, are consecutive, from the first
not too early to the first too late. `TransmitKeeps` follows a burst packet by
packet.

**Induction over data.** The induction theorems of the library take an operator
as a parameter, which the provers cannot instantiate. `NumberLemmas` restates
what the proofs need over sets and functions: `LeastNumber`, every non-empty set
of naturals has a least element; `Induction`, over a set of numbers;
`Recursion`, a function defined by steps exists. Recursive functions
(`Place`, `Shifted`, `Tapped`, `Chosen`, the walk `PackedUpto` of `HkStore`) are reasoned about through the
last.

**Only model-checked**

- Liveness: `EventuallyDurable`, `DueIsReleased`, `EventsReachGround`,
  `RetrievalEnds`, `AllDelivered`, `DueIsServed`. Fairness and ENABLED are
  outside the prover.
- The six properties the code violates, by their counterexamples.

## 5. Not modelled

- Bit layout, CRC arithmetic, header codecs, formatting: functions of one
  packet, without state, covered by the unit tests. The one codec that is
  modelled is the datapool's, because its values travel through flash and
  firmware updates.
- The contents of service reports: `Router` knows their sizes; `Datapool`
  models the contents of [20,2].
- Validation of arbitrary mode tables by `migris_mode_init`: `Fdir` uses the
  sample's table.
- Restrictions the models share: sequence numbers of flash images do not wrap,
  a damaged image does not pass its CRC, and the clock does not reach 2^32
  seconds.
- The record stores of `Schedule`, `Datapool` and `HkStore` are single records
  that are saved whole by the save tick; that this is what the record store
  gives them, unless a save fails, is what `Autosave` shows.

## 6. Plan

Done, in this order: record store and its proof; persistence in the loop;
schedule; FDIR, modes and events; packet store; router; uplink and its proof;
housekeeping structures; datapool; large data, composed with the router; the
proofs of the persistence loop, the schedule and its refinement of `TimeTable`,
FDIR, the router with large data, the housekeeping store, framing, the packet
store, and the datapool with its codec.

Left to model: validation of mode tables in `mode.c` and the acceptance checks
of `pus_tc.c`, both functions of one table or packet.

Left to prove: only the liveness properties of section 4 remain without a
theorem. What could be stated beyond the present properties: that the loop over
the record store implements the single records `Schedule`, `Datapool` and
`HkStore` assume, as a refinement of one record at a time.
