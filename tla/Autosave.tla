------------------------------ MODULE Autosave ------------------------------
(***************************************************************************)
(* Persistence of the flight software: the persisted subsystems (datapool, *)
(* schedule, hkstore, mode), the boot-time restore and the save tick of    *)
(* the main loop (samples/tc_uart/src/main.c), composed with the record    *)
(* store and its flash (NvStore).                                          *)
(*                                                                         *)
(* A subsystem is its serialisable state and its generation counter.  One  *)
(* loop iteration is: one nv_autosave_tick per subsystem in Order, one     *)
(* migris_nvstore_save if any record was put, then the rest of the loop,   *)
(* where released and received telecommands change subsystems.             *)
(***************************************************************************)
EXTENDS NvStore, Sequences

CONSTANTS
    Order,          \* the save tick's order of subsystems
    Default,        \* state of each subsystem after its init()
    Changes,        \* what telecommands can set each subsystem to
    ModeType,       \* the mode subsystem's record type
    BootMode, NominalMode,
    BufCap,         \* size of the serialisation buffer
    MaxGen          \* bound: mutations per subsystem between two boots

ASSUME OrderAssumption ==
    /\ Order \in Seq(RecordTypes)
    /\ \A t \in RecordTypes : \E k \in DOMAIN Order : Order[k] = t
ASSUME SubsystemAssumption ==
    /\ Default \in [RecordTypes -> Values]
    /\ Changes \in [RecordTypes -> SUBSET Values]
    /\ NominalMode \in Values /\ BootMode # NominalMode
    /\ MaxGen \in Nat \ {0} /\ BufCap \in Nat
(* No mode of the sample's table may go back to BOOT. *)
ASSUME BootAssumption == ModeType \in RecordTypes => BootMode \notin Changes[ModeType]

VARIABLES
    phase,           \* "off", or the part of the loop iteration: "tick", "save", "work"
    cursor,          \* next subsystem of the save tick
    nv_dirty,        \* has this iteration put a record?
    live,            \* state of each subsystem
    gen,             \* its generation counter
    last_saved_gen,  \* the loop's snapshot of it
    save_failed      \* history: the latest save returned an error, which the loop discards

loopVars == <<phase, cursor, nv_dirty, live, gen, last_saved_gen, save_failed>>
avars    == <<vars, loopVars>>

----------------------------------------------------------------------------
(* Mutant: a record is deserialised without asking whether there is one. *)
RestoredBlindly(p) == p

(* Restore: init() every subsystem, then deserialise the records found. *)
Restored(p) == [t \in RecordTypes |-> IF p[t] = Absent THEN Default[t] ELSE p[t]]

(* Mutant: the boot-time transition ignores the restored mode. *)
LeavesAnyMode(r, t) == t = ModeType

(* The boot-time transition: BOOT is left for NOMINAL unless the restored  *)
(* mode is already an operational one.                                     *)
LeavesBoot(r, t) == t = ModeType /\ r[t] = BootMode
BootLive(p)      == LET r == Restored(p)
                    IN  [t \in RecordTypes |-> IF LeavesBoot(r, t) THEN NominalMode ELSE r[t]]
BootGen(p)       == LET r == Restored(p)
                    IN  [t \in RecordTypes |-> IF LeavesBoot(r, t) THEN 1 ELSE 0]

(* What a reboot at this instant would come back with. *)
AfterReboot == BootLive(IF Recoverable = NoImage THEN Empty ELSE Recoverable)

Serializes(v) == RecordLen[v] <= BufCap

----------------------------------------------------------------------------
AInit ==
    /\ Init
    /\ phase = "off" /\ cursor = 1 /\ nv_dirty = FALSE
    /\ live = Default
    /\ gen = [t \in RecordTypes |-> 0]
    /\ last_saved_gen = [t \in RecordTypes |-> 0]
    /\ save_failed = FALSE

(* main() up to the loop. *)
Boot ==
    /\ Load
    /\ live' = BootLive(payload')
    /\ gen' = BootGen(payload')
    /\ last_saved_gen' = [t \in RecordTypes |-> 0]
    /\ phase' = "tick" /\ cursor' = 1 /\ nv_dirty' = FALSE /\ save_failed' = FALSE

(* nv_autosave_tick for a subsystem that did not change, or whose state    *)
(* does not serialise: nothing happens.                                    *)
TickSkip ==
    /\ phase = "tick" /\ cursor <= Len(Order)
    /\ LET t == Order[cursor]
       IN  gen[t] = last_saved_gen[t] \/ ~Serializes(live[t])
    /\ cursor' = cursor + 1
    /\ UNCHANGED <<vars, phase, nv_dirty, live, gen, last_saved_gen, save_failed>>

(* Mutants: the snapshot advances although the put was refused; a put does *)
(* not make the image dirty.                                               *)
TickPutUnchecked ==
    /\ phase = "tick" /\ cursor <= Len(Order)
    /\ LET t == Order[cursor]
       IN  /\ gen[t] # last_saved_gen[t]
           /\ Serializes(live[t])
           /\ Put(t, live[t])
           /\ last_saved_gen' = [last_saved_gen EXCEPT ![t] = gen[t]]
           /\ nv_dirty' = TRUE
    /\ cursor' = cursor + 1
    /\ UNCHANGED <<phase, live, gen, save_failed>>

TickPutNotDirty ==
    /\ phase = "tick" /\ cursor <= Len(Order)
    /\ LET t == Order[cursor]
       IN  /\ gen[t] # last_saved_gen[t]
           /\ Serializes(live[t])
           /\ Put(t, live[t])
           /\ last_saved_gen' = [last_saved_gen EXCEPT ![t] = gen[t]]
    /\ cursor' = cursor + 1
    /\ UNCHANGED <<phase, live, gen, nv_dirty, save_failed>>

(* nv_autosave_tick for a subsystem that changed: put its record; only a   *)
(* put that fits advances the snapshot and makes the image dirty.          *)
TickPut ==
    /\ phase = "tick" /\ cursor <= Len(Order)
    /\ LET t == Order[cursor]
       IN  /\ gen[t] # last_saved_gen[t]
           /\ Serializes(live[t])
           /\ Put(t, live[t])
           /\ IF Fits(payload, t, live[t])
                THEN /\ last_saved_gen' = [last_saved_gen EXCEPT ![t] = gen[t]]
                     /\ nv_dirty' = TRUE
                ELSE UNCHANGED <<last_saved_gen, nv_dirty>>
    /\ cursor' = cursor + 1
    /\ UNCHANGED <<phase, live, gen, save_failed>>

(* if (nv_dirty != 0) migris_nvstore_save(): its steps are NvStore's. *)
TickSave ==
    /\ phase = "tick" /\ cursor = Len(Order) + 1
    /\ nv_dirty
    /\ SaveBegin
    /\ phase' = "save"
    /\ UNCHANGED <<cursor, nv_dirty, live, gen, last_saved_gen, save_failed>>

TickClean ==
    /\ phase = "tick" /\ cursor = Len(Order) + 1
    /\ ~nv_dirty
    /\ phase' = "work"
    /\ UNCHANGED <<vars, cursor, nv_dirty, live, gen, last_saved_gen, save_failed>>

(* save() has returned, with whatever code: the loop discards it. *)
SaveStep ==
    /\ \/ EraseDone /\ UNCHANGED save_failed
       \/ WriteDone /\ save_failed' = FALSE
       \/ (EraseError \/ WriteError) /\ save_failed' = TRUE
    /\ phase' = IF pc' = "idle" THEN "work" ELSE "save"
    /\ UNCHANGED <<cursor, nv_dirty, live, gen, last_saved_gen>>

(* A telecommand, released or received, or an FDIR recovery changes a      *)
(* subsystem; the mode manager refuses a transition to the current mode.   *)
Command(t, v) ==
    /\ phase = "work"
    /\ t = ModeType => live[t] # v
    /\ gen[t] < MaxGen /\ loaded_seq < MaxSeq   \* bounds: leave the save tick a sequence number
    /\ live' = [live EXCEPT ![t] = v]
    /\ gen' = [gen EXCEPT ![t] = @ + 1]
    /\ UNCHANGED <<vars, phase, cursor, nv_dirty, last_saved_gen, save_failed>>

NextIteration ==
    /\ phase = "work"
    /\ phase' = "tick" /\ cursor' = 1 /\ nv_dirty' = FALSE
    /\ UNCHANGED <<vars, live, gen, last_saved_gen, save_failed>>

Reset ==
    /\ PowerLoss
    /\ phase' = "off" /\ cursor' = 1 /\ nv_dirty' = FALSE
    /\ live' = Default
    /\ gen' = [t \in RecordTypes |-> 0]
    /\ last_saved_gen' = [t \in RecordTypes |-> 0]
    /\ save_failed' = FALSE

LoopStep ==
    \/ Boot
    \/ TickSkip
    \/ TickPut
    \/ TickSave
    \/ TickClean
    \/ NextIteration

ANext ==
    \/ LoopStep
    \/ SaveStep
    \/ \E t \in RecordTypes : \E v \in Changes[t] : Command(t, v)
    \/ Reset

ASpec == AInit /\ [][ANext]_avars

(* The main loop never blocks, so each of its steps eventually happens;    *)
(* a flash operation returns, and one tried again and again succeeds.      *)
(* Commands and power losses are up to the environment.                    *)
Fairness ==
    /\ WF_avars(LoopStep)
    /\ WF_avars(SaveStep)
    /\ SF_avars(SaveStep /\ EraseDone)
    /\ SF_avars(SaveStep /\ WriteDone)

FairASpec == ASpec /\ Fairness

----------------------------------------------------------------------------
(* Generations, snapshots and the tick's cursor stay in their ranges, and  *)
(* every subsystem has a state of its own after a restore.                 *)
ATypeOK ==
    /\ TypeOK
    /\ phase \in {"off", "tick", "save", "work"}
    /\ cursor \in 1 .. Len(Order) + 1
    /\ nv_dirty \in BOOLEAN /\ save_failed \in BOOLEAN
    /\ live \in [RecordTypes -> Values]
    /\ gen \in [RecordTypes -> 0 .. MaxGen]
    /\ last_saved_gen \in [RecordTypes -> 0 .. MaxGen]

(* The RAM image never lies about a clean subsystem: whenever the loop     *)
(* believes a subsystem's current generation is in the image, a reboot     *)
(* from that image would bring back exactly its current state - through    *)
(* refused puts, failed saves and restores that came from older images.    *)
CleanMeansInImage ==
    phase # "off" =>
        \A t \in RecordTypes :
            gen[t] = last_saved_gen[t] => BootLive(payload)[t] = live[t]

(* The loss window is one iteration: once the save tick has run and its    *)
(* save succeeded, every change made in earlier iterations survives a      *)
(* power loss, all subsystems together.                                    *)
OneIterationWindow ==
    (phase = "work" /\ gen = last_saved_gen /\ ~save_failed) => AfterReboot = live

(* Changes never get stuck in RAM: a subsystem state that stays is, sooner *)
(* or later, what a reboot restores - unless power is lost first, a save   *)
(* has failed, or the state is too large for its buffer or the image.      *)
EventuallyDurable ==
    \A t \in RecordTypes : \A v \in Values :
        (phase # "off" /\ live[t] = v) ~>
            \/ AfterReboot[t] = v \/ live[t] # v \/ phase = "off"
            \/ save_failed \/ ~Serializes(v) \/ ~Fits(payload, t, v)

(* "A backend failure leaves the snapshots unchanged so the next iteration *)
(* retries": with records that fit, a failed save delays a change, it does *)
(* not lose it.                                                            *)
RetriedUntilDurable ==
    \A t \in RecordTypes : \A v \in Values :
        (phase # "off" /\ live[t] = v) ~>
            (AfterReboot[t] = v \/ live[t] # v \/ phase = "off")
============================================================================
