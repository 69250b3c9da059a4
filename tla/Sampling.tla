------------------------------ MODULE Sampling ------------------------------
(***************************************************************************)
(* Sampling on one core of wperf-driver: the PMU overflow interrupt        *)
(* (arm64_pmi_ISR, device.c), the SAMPLE_SET_SRC, SAMPLE_START, SAMPLE_GET *)
(* and SAMPLE_STOP IOCTLs (devioctl.c) with their work item (workitem.c),  *)
(* and the client that collects the samples (pmu_device.cpp).              *)
(*                                                                         *)
(* The interrupt runs to completion on its core, so the parts of an IOCTL  *)
(* that the work item runs there never see it half way; the thread that    *)
(* serves the IOCTL runs on any core and does.  They share the buffer,     *)
(* which SampleLock protects, and two tallies, which nothing protects.     *)
(*                                                                         *)
(* A sample is its number since SAMPLE_START, 0 is an all-zero frame.  A   *)
(* counter is "loaded" while it is going to overflow after its interval,   *)
(* otherwise its next overflow is up to 2^32 events away.                  *)
(***************************************************************************)
EXTENDS Integers, Sequences, FiniteSets

CONSTANTS Sources,     \* counters that can be sampled on
          Cycle,       \* the one that is PMCCNTR, not a general purpose one
          BufferSize,  \* SAMPLE_CHAIN_BUFFER_SIZE
          MaxSamples   \* bound on the samples of one SAMPLE_START

ASSUME CycleAssumption == Cycle \in Sources
ASSUME BufferSizeAssumption == BufferSize \in Nat \ {0}
ASSUME MaxSamplesAssumption == MaxSamples \in Nat

VARIABLES
  phase,             \* where the client that holds the lock is in its run
  pc,                \* what the queue's thread is doing
  wanted,            \* sources of the SAMPLE_SET_SRC under way
  dpcs,              \* the DPCs of get_pmu_resource wait to run
  enabled,           \* PMCR.E
  irq,               \* PMINTENSET: counters that interrupt
  ov,                \* PMOVSCLR: counters that have overflowed
  loaded,            \* counters that count towards their interval
  ov_mask,           \* core->ov_mask
  SampleLock,        \* who holds core->SampleLock
  isr,               \* how far the interrupt is
  flags,             \* its ov_flags
  slot,              \* the index it has written its sample at
  samples,           \* core->samples
  sample_idx,        \* core->sample_idx
  sample_generated,  \* core->sample_generated
  sample_dropped,    \* core->sample_dropped
  raw_samples,       \* the client's raw_samples
  inherited,         \* history: the client forced the lock from another one
  disturbed          \* history: sampling was on before SAMPLE_START, or a DPC came late

pmuVars    == <<enabled, irq, ov, loaded>>
isrVars    == <<isr, flags, slot>>
bufferVars == <<SampleLock, samples, sample_idx>>
tallies    == <<sample_generated, sample_dropped>>
history    == <<inherited, disturbed>>
vars == <<phase, pc, wanted, dpcs, pmuVars, ov_mask, isrVars, bufferVars, tallies,
          raw_samples, history>>

Phases == {"off", "locked", "stopped", "set", "sampling", "done"}
Pcs == {"idle", "stop", "set_reset", "set_program", "start", "get_lock", "get_copy",
        "stop_counters", "stop_irqs"}
Slots == 0 .. (BufferSize - 1)
Frames == 0 .. MaxSamples

TypeOK == /\ phase \in Phases
          /\ pc \in Pcs
          /\ wanted \in SUBSET Sources
          /\ dpcs \in BOOLEAN
          /\ enabled \in BOOLEAN
          /\ irq \in SUBSET Sources
          /\ ov \in SUBSET Sources
          /\ loaded \in SUBSET Sources
          /\ ov_mask \in SUBSET Sources
          /\ SampleLock \in {"free", "isr", "get"}
          /\ isr \in {"idle", "try", "check", "recorded", "reload"}
          /\ flags \in SUBSET Sources
          /\ slot \in Slots
          /\ samples \in [Slots -> Frames]
          /\ sample_idx \in 0 .. BufferSize
          /\ sample_generated \in 0 .. MaxSamples
          /\ sample_dropped \in 0 .. MaxSamples
          /\ raw_samples \in Seq(Frames)
          /\ inherited \in BOOLEAN
          /\ disturbed \in BOOLEAN

Init == /\ phase = "off"
        /\ pc = "idle"
        /\ wanted = {}
        /\ dpcs = FALSE
        /\ enabled = TRUE     \* by DeviceCreate's dpc_queue
        /\ irq = {}
        /\ ov = {}
        /\ loaded = {}
        /\ ov_mask = {}
        /\ SampleLock = "free"
        /\ isr = "idle"
        /\ flags = {}
        /\ slot = 0
        /\ samples = [i \in Slots |-> 0]
        /\ sample_idx = 0
        /\ sample_generated = 0
        /\ sample_dropped = 0
        /\ raw_samples = <<>>
        /\ inherited = FALSE
        /\ disturbed = FALSE

-----------------------------------------------------------------------------
(* The counters, and the interrupt of the core.                            *)

Overflow(s) ==
  /\ enabled
  /\ ov' = ov \cup {s}
  /\ loaded' = loaded \ {s}
  /\ UNCHANGED <<phase, pc, wanted, dpcs, enabled, irq, ov_mask, isrVars, bufferVars,
                 tallies, raw_samples, history>>

\* The overflow flags are read and cleared, also those of no interest.
PmiBegins ==
  /\ isr = "idle"
  /\ ov \cap irq # {}
  /\ sample_generated < MaxSamples
  /\ ov' = {}
  /\ IF ov \cap ov_mask = {}
       THEN UNCHANGED <<isr, flags, sample_generated>>
       ELSE /\ isr' = "try"
            /\ flags' = ov \cap ov_mask
            /\ sample_generated' = sample_generated + 1
  /\ UNCHANGED <<phase, pc, wanted, dpcs, enabled, irq, loaded, ov_mask, slot, bufferVars,
                 sample_dropped, raw_samples, history>>

PmiReturns == isr' = "idle" /\ flags' = {} /\ slot' = 0

Drop == sample_dropped' = sample_dropped + 1 /\ PmiReturns

\* KeTryToAcquireSpinLockAtDpcLevel.
PmiFindsLockTaken ==
  /\ isr = "try"
  /\ SampleLock # "free"
  /\ Drop
  /\ UNCHANGED <<phase, pc, wanted, dpcs, pmuVars, ov_mask, bufferVars, sample_generated,
                 raw_samples, history>>

PmiLocks ==
  /\ isr = "try"
  /\ SampleLock = "free"
  /\ SampleLock' = "isr"
  /\ isr' = "check"
  /\ UNCHANGED <<phase, pc, wanted, dpcs, pmuVars, ov_mask, flags, slot, samples,
                 sample_idx, tallies, raw_samples, history>>

BufferFull == sample_idx = BufferSize

\* Mutant: the counters are stopped before the test.
PmiFindsBufferFullStopped ==
  /\ isr = "check"
  /\ BufferFull
  /\ SampleLock' = "free"
  /\ enabled' = FALSE
  /\ Drop
  /\ UNCHANGED <<phase, pc, wanted, dpcs, irq, ov, loaded, ov_mask, samples, sample_idx,
                 sample_generated, raw_samples, history>>

\* Mutant: the early return keeps the spin lock.
PmiFindsBufferFullLocked ==
  /\ isr = "check"
  /\ BufferFull
  /\ Drop
  /\ UNCHANGED <<phase, pc, wanted, dpcs, pmuVars, ov_mask, bufferVars, sample_generated,
                 raw_samples, history>>

PmiFindsBufferFull ==
  /\ isr = "check"
  /\ BufferFull
  /\ SampleLock' = "free"
  /\ Drop
  /\ UNCHANGED <<phase, pc, wanted, dpcs, pmuVars, ov_mask, samples, sample_idx,
                 sample_generated, raw_samples, history>>

PmiRecords ==
  /\ isr = "check"
  /\ ~BufferFull
  /\ enabled' = FALSE
  /\ samples' = [samples EXCEPT ![sample_idx] = sample_generated]
  /\ slot' = sample_idx
  /\ isr' = "recorded"
  /\ UNCHANGED <<phase, pc, wanted, dpcs, irq, ov, loaded, ov_mask, flags, SampleLock,
                 sample_idx, tallies, raw_samples, history>>

\* sample_idx++: SAMPLE_START may have written it since it was read as the
\* slot, and the compiler may have kept that value or read it again.
PmiAdvances ==
  /\ isr = "recorded"
  /\ sample_idx' \in {slot + 1, sample_idx + 1}
  /\ SampleLock' = "free"
  /\ isr' = "reload"
  /\ UNCHANGED <<phase, pc, wanted, dpcs, pmuVars, ov_mask, flags, slot, samples,
                 tallies, raw_samples, history>>

\* Mutant: the counters are restarted from where they are.
PmiReloadsNothing ==
  /\ isr = "reload"
  /\ enabled' = TRUE
  /\ PmiReturns
  /\ UNCHANGED <<phase, pc, wanted, dpcs, irq, ov, loaded, ov_mask, bufferVars, tallies,
                 raw_samples, history>>

\* The counters that overflowed start on their next interval.
PmiReloads ==
  /\ isr = "reload"
  /\ loaded' = loaded \cup flags
  /\ enabled' = TRUE
  /\ PmiReturns
  /\ UNCHANGED <<phase, pc, wanted, dpcs, irq, ov, ov_mask, bufferVars, tallies, raw_samples,
                 history>>

Pmi == \/ PmiBegins \/ PmiFindsLockTaken \/ PmiLocks \/ PmiFindsBufferFull
       \/ PmiRecords \/ PmiAdvances \/ PmiReloads

-----------------------------------------------------------------------------
(* The lock, as far as it concerns sampling.                               *)

\* LOCK_ACQUIRE of an idle driver: get_pmu_resource queues its two DPCs.
Acquire ==
  /\ phase = "off"
  /\ pc = "idle"
  /\ phase' = "locked"
  /\ dpcs' = TRUE
  /\ inherited' = FALSE
  /\ disturbed' = FALSE
  /\ raw_samples' = <<>>
  /\ UNCHANGED <<pc, wanted, pmuVars, ov_mask, isrVars, bufferVars, tallies>>

\* arm64pmc_enable_default, which silences every counter, and reset_dpc; which
\* of them comes second decides whether the counters run.
LeaseDpcs ==
  /\ dpcs
  /\ isr = "idle"
  /\ dpcs' = FALSE
  /\ irq' = {}
  /\ ov' = {}
  /\ loaded' = loaded \cap {Cycle}
  /\ enabled' \in BOOLEAN
  /\ disturbed' = (disturbed \/ phase # "locked" \/ pc # "idle")
  /\ UNCHANGED <<phase, pc, wanted, ov_mask, isrVars, bufferVars, tallies, raw_samples,
                 inherited>>

\* A forced LOCK_ACQUIRE of a held lock leaves the PMU to its fate.
TakeOver ==
  /\ phase # "off"
  /\ pc = "idle"
  /\ phase' = "locked"
  /\ inherited' = TRUE
  /\ disturbed' = FALSE
  /\ raw_samples' = <<>>
  /\ UNCHANGED <<pc, wanted, dpcs, pmuVars, ov_mask, isrVars, bufferVars, tallies>>

\* LOCK_RELEASE, after an error at any point of the run; the DPCs are removed,
\* interrupts and counters left alone.
Release ==
  /\ phase # "off"
  /\ pc = "idle"
  /\ phase' = "off"
  /\ dpcs' = FALSE
  /\ UNCHANGED <<pc, wanted, pmuVars, ov_mask, isrVars, bufferVars, tallies, raw_samples,
                 history>>

-----------------------------------------------------------------------------
(* The IOCTLs of a run.  A step that waits for isr = "idle" is the work    *)
(* item's, on the core itself.                                             *)

Request(op) == pc = "idle" /\ pc' = op

\* STOP of the counters, before sampling is set up.
StopBegins ==
  /\ phase \in {"locked", "done"}
  /\ Request("stop")
  /\ UNCHANGED <<phase, wanted, dpcs, pmuVars, ov_mask, isrVars, bufferVars, tallies,
                 raw_samples, history>>

StopPmu ==
  /\ pc = "stop" /\ pc' = "idle"
  /\ isr = "idle"
  /\ phase' = "stopped"
  /\ enabled' = FALSE
  /\ UNCHANGED <<wanted, dpcs, irq, ov, loaded, ov_mask, isrVars, bufferVars, tallies,
                 raw_samples, history>>

SetSrcBegins(sources) ==
  /\ phase = "stopped"
  /\ Request("set_reset")
  /\ wanted' = sources
  /\ UNCHANGED <<phase, dpcs, pmuVars, ov_mask, isrVars, bufferVars, tallies, raw_samples,
                 history>>

\* CoreCounterReset clears the general purpose counters and stops them all.
SetSrcResets ==
  /\ pc = "set_reset" /\ pc' = "set_program"
  /\ isr = "idle"
  /\ enabled' = FALSE
  /\ loaded' = loaded \cap {Cycle}
  /\ UNCHANGED <<phase, wanted, dpcs, irq, ov, ov_mask, isrVars, bufferVars, tallies,
                 raw_samples, history>>

\* The sources are loaded and may interrupt from here on; the interrupts of
\* general purpose counters that are not wanted are switched off, and their
\* flags with them, PMCCNTR's is left as it was.
SetSrcPrograms ==
  /\ pc = "set_program" /\ pc' = "idle"
  /\ isr = "idle"
  /\ phase' = "set"
  /\ irq' = wanted \cup (irq \cap {Cycle})
  /\ ov' = ov \cap (wanted \cup {Cycle})
  /\ loaded' = loaded \cup wanted
  /\ ov_mask' = wanted
  /\ wanted' = {}
  /\ UNCHANGED <<dpcs, enabled, isrVars, bufferVars, tallies, raw_samples, history>>

\* SAMPLE_START zeroes the tallies and the index without SampleLock.  It takes
\* for granted that nothing samples yet, but a flag that was up when SET_SRC let
\* its counter interrupt has the interrupt start the counters ...
StartClears ==
  /\ phase = "set"
  /\ Request("start")
  /\ sample_dropped' = 0
  /\ sample_generated' = 0
  /\ sample_idx' = 0
  /\ raw_samples' = <<>>
  /\ disturbed' = (disturbed \/ enabled \/ isr # "idle")
  /\ UNCHANGED <<phase, wanted, dpcs, pmuVars, ov_mask, isrVars, SampleLock, samples,
                 inherited>>

\* ... and its work item starts the counters.
StartPmu ==
  /\ pc = "start" /\ pc' = "idle"
  /\ isr = "idle"
  /\ phase' = "sampling"
  /\ enabled' = TRUE
  /\ UNCHANGED <<wanted, dpcs, irq, ov, loaded, ov_mask, isrVars, bufferVars, tallies,
                 raw_samples, history>>

GetBegins ==
  /\ phase = "sampling"
  /\ Request("get_lock")
  /\ UNCHANGED <<phase, wanted, dpcs, pmuVars, ov_mask, isrVars, bufferVars, tallies,
                 raw_samples, history>>

GetLocks ==
  /\ pc = "get_lock" /\ pc' = "get_copy"
  /\ SampleLock = "free"
  /\ SampleLock' = "get"
  /\ UNCHANGED <<phase, wanted, dpcs, pmuVars, ov_mask, isrVars, samples, sample_idx,
                 tallies, raw_samples, history>>

\* The payload is zeroed and as many samples as there are copied into it.
Payload == [i \in 1 .. BufferSize |-> IF i <= sample_idx THEN samples[i - 1] ELSE 0]

\* Mutant: the samples stay in the buffer.
GetCopiesKeeping ==
  /\ pc = "get_copy" /\ pc' = "idle"
  /\ SampleLock' = "free"
  /\ raw_samples' = IF sample_idx > 0 THEN raw_samples \o Payload ELSE raw_samples
  /\ UNCHANGED <<phase, wanted, dpcs, pmuVars, ov_mask, isrVars, samples, sample_idx, tallies,
                 history>>

\* The client appends every frame a payload has room for, if it has a sample.
GetCopies ==
  /\ pc = "get_copy" /\ pc' = "idle"
  /\ sample_idx' = 0
  /\ SampleLock' = "free"
  /\ raw_samples' = IF sample_idx > 0 THEN raw_samples \o Payload ELSE raw_samples
  /\ UNCHANGED <<phase, wanted, dpcs, pmuVars, ov_mask, isrVars, samples, tallies, history>>

\* SAMPLE_STOP: the counters, then the interrupts of the sources.
SampleStopBegins ==
  /\ phase = "sampling"
  /\ Request("stop_counters")
  /\ UNCHANGED <<phase, wanted, dpcs, pmuVars, ov_mask, isrVars, bufferVars, tallies,
                 raw_samples, history>>

SampleStopCounters ==
  /\ pc = "stop_counters" /\ pc' = "stop_irqs"
  /\ isr = "idle"
  /\ enabled' = FALSE
  /\ UNCHANGED <<phase, wanted, dpcs, irq, ov, loaded, ov_mask, isrVars, bufferVars, tallies,
                 raw_samples, history>>

\* Mutant: only the interrupts of general purpose counters are switched off.
SampleStopIrqsNotCycle ==
  /\ pc = "stop_irqs" /\ pc' = "idle"
  /\ isr = "idle"
  /\ phase' = "done"
  /\ irq' = irq \ (ov_mask \ {Cycle})
  /\ ov' = ov \ (ov_mask \ {Cycle})
  /\ UNCHANGED <<wanted, dpcs, enabled, loaded, ov_mask, isrVars, bufferVars, tallies,
                 raw_samples, history>>

\* What is still in the buffer is not handed out any more.
SampleStopIrqs ==
  /\ pc = "stop_irqs" /\ pc' = "idle"
  /\ isr = "idle"
  /\ phase' = "done"
  /\ irq' = irq \ ov_mask
  /\ ov' = ov \ ov_mask
  /\ UNCHANGED <<wanted, dpcs, enabled, loaded, ov_mask, isrVars, bufferVars, tallies,
                 raw_samples, history>>

-----------------------------------------------------------------------------
Client == \/ Acquire \/ TakeOver \/ Release \/ StopBegins
          \/ \E sources \in (SUBSET Sources) \ {{}} : SetSrcBegins(sources)
          \/ StartClears \/ GetBegins \/ SampleStopBegins

Thread == \/ StopPmu \/ SetSrcResets \/ SetSrcPrograms \/ StartPmu
          \/ GetLocks \/ GetCopies \/ SampleStopCounters \/ SampleStopIrqs

Next == \/ Client
        \/ Thread
        \/ Pmi
        \/ LeaseDpcs
        \/ \E s \in Sources : Overflow(s)

Spec == Init /\ [][Next]_vars

-----------------------------------------------------------------------------
(* Properties.                                                             *)

\* Where raw_samples has frames that main.cpp resolves: a zero frame has no
\* overflow flag.
Resolved == {i \in 1 .. Len(raw_samples) : raw_samples[i] # 0}

InFlight == IF isr \in {"try", "check", "recorded"} THEN 1 ELSE 0

\* Every generated sample is handed out, in the buffer, dropped, or being
\* dealt with: nothing is lost between the interrupt and SAMPLE_GET, nor
\* counted twice; what SAMPLE_STOP reports can be relied on.
Accounting ==
  ~disturbed /\ phase \in {"sampling", "done"} =>
    sample_generated = sample_dropped + Cardinality(Resolved) + sample_idx + InFlight

\* The client resolves samples in the order they were taken, none twice, none
\* from an earlier run, and the buffer holds later ones, in order as well.
InOrder ==
  ~disturbed /\ phase \in {"sampling", "done"} =>
    /\ \A i, j \in Resolved : i < j => raw_samples[i] < raw_samples[j]
    /\ \A i \in Resolved, k \in 0 .. (sample_idx - 1) : raw_samples[i] < samples[k]
    /\ \A k, l \in 0 .. (sample_idx - 1) : k < l => samples[k] < samples[l]
    /\ \A i \in Resolved : raw_samples[i] \in 1 .. sample_generated
    /\ \A k \in 0 .. (sample_idx - 1) : samples[k] \in 1 .. sample_generated

\* Between the interrupt and the report no sample is lost, doubled or moved.
SamplesKept == TypeOK /\ Accounting /\ InOrder

\* No path of the interrupt leaves the counters stopped behind.
KeepsSampling ==
  ~disturbed /\ phase = "sampling" /\ pc \notin {"stop_irqs"} =>
    enabled \/ isr \in {"recorded", "reload"}

\* The only way for a source to lose its interval is a dropped sample.
DisarmedByDrop ==
  ~disturbed /\ phase = "sampling" =>
    \A s \in ov_mask : s \in loaded \cup ov \/ (isr # "idle" /\ s \in flags) \/ sample_dropped > 0

\* No interrupt, wherever it finds the buffer or the lock, leaves the counters
\* stopped or a source without an interval, unless it dropped a sample.
SamplingGoesOn == KeepsSampling /\ DisarmedByDrop

\* SAMPLE_STOP leaves nothing behind that could sample: an interrupt that came
\* between its two halves is over, whatever it restarted.  PMCCNTR may go on to
\* interrupt where the DPCs of LOCK_ACQUIRE did not silence what an earlier
\* client left on, because the lock was forced or they have not run yet.
StoppedIsQuiet == phase = "done" /\ ~inherited /\ ~dpcs => isr = "idle" /\ irq = {}

\* Whoever holds the spin lock is on its way to release it, on every path: the
\* interrupt, which only tries, would drop every further sample, and SAMPLE_GET
\* would spin for ever and the driver's queue with it.
LockReleased == /\ SampleLock = "isr" <=> isr \in {"check", "recorded"}
                /\ SampleLock = "get" <=> pc = "get_copy"
=============================================================================
