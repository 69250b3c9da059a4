-------------------------- MODULE Sampling_proofs --------------------------
(* The safety of Sampling, proved for any sources, any size of the buffer   *)
(* and any number of samples.                                               *)
EXTENDS Sampling, FiniteSetTheorems, SequenceTheorems, TLAPS

-----------------------------------------------------------------------------
(* The inductive invariants.                                                *)

\* Which IOCTL the thread may be in, in each phase of the client's run.
Control ==
  /\ pc = "stop" => phase \in {"locked", "done"}
  /\ pc \in {"set_reset", "set_program"} => phase = "stopped"
  /\ pc = "start" => phase = "set"
  /\ pc \in {"get_lock", "get_copy", "stop_counters", "stop_irqs"} => phase = "sampling"

\* The interrupt counts a sample before it can drop it, unless SAMPLE_START has
\* zeroed the tallies in between; then it finds room and the lock free.  Room it
\* has found is still there when it advances.
Tallies ==
  /\ sample_dropped <= sample_generated
  /\ isr \in {"try", "check"} => \/ sample_dropped < sample_generated
                                 \/ pc = "start" /\ sample_idx = 0
  /\ isr = "recorded" => sample_idx < BufferSize

\* Of a client that got the lock when it was free and whose DPCs have run, only
\* the sources of its SAMPLE_SET_SRC interrupt, and only from there to
\* SAMPLE_STOP.
QuietInv ==
  ~inherited /\ ~dpcs =>
    /\ phase \in {"locked", "stopped", "done"} => isr = "idle" /\ irq = {}
    /\ phase \in {"set", "sampling"} => irq \subseteq ov_mask

\* SAMPLE_START has zeroed the tallies, and nothing sampled then.
Undisturbed == ~disturbed /\ (phase \in {"sampling", "done"} \/ pc = "start")

\* A source without an interval has overflowed and is waiting for the interrupt,
\* is being dealt with, or was dropped; before SAMPLE_START all sources have
\* theirs, unless an interrupt has started the counters already.
ArmedInv ==
  /\ KeepsSampling
  /\ Undisturbed => \A s \in ov_mask : \/ s \in loaded \cup ov
                                       \/ isr # "idle" /\ s \in flags
                                       \/ sample_dropped > 0
                                       \/ phase = "done"
  /\ ~disturbed /\ phase = "set" /\ pc # "start" =>
       enabled \/ isr \in {"recorded", "reload"} \/ ov_mask \subseteq loaded

\* What the interrupt is dealing with is the latest sample, and it sits behind the
\* ones in the buffer.
InSlot == isr = "recorded" => slot = sample_idx /\ samples[slot] = sample_generated

\* Accounting and InOrder, of the samples the interrupt is done with.
Counted == sample_generated = sample_dropped + Cardinality(Resolved) + sample_idx + InFlight

Ordered ==
  /\ \A i, j \in Resolved : i < j => raw_samples[i] < raw_samples[j]
  /\ \A i \in Resolved, k \in 0 .. (sample_idx - 1) : raw_samples[i] < samples[k]
  /\ \A k, l \in 0 .. (sample_idx - 1) : k < l => samples[k] < samples[l]
  /\ \A i \in Resolved : raw_samples[i] \in 1 .. (sample_generated - InFlight)
  /\ \A k \in 0 .. (sample_idx - 1) : samples[k] \in 1 .. (sample_generated - InFlight)

KeptInv == Undisturbed => InSlot /\ Counted /\ Ordered

SamplingInv == TypeOK /\ Control /\ LockReleased /\ Tallies /\ QuietInv /\ ArmedInv /\ KeptInv

-----------------------------------------------------------------------------
(* The steps.  Each lemma takes every action on its own, then the stutter.  *)

\* The frames to resolve can be counted.
LEMMA ResolvedFinite ==
    ASSUME raw_samples \in Seq(Frames)
    PROVE  /\ IsFiniteSet(Resolved) /\ Cardinality(Resolved) \in Nat
           /\ Resolved \subseteq 1 .. Len(raw_samples)
<1>1. Len(raw_samples) \in Nat
    OBVIOUS
<1>2. IsFiniteSet(1 .. Len(raw_samples)) /\ Resolved \subseteq 1 .. Len(raw_samples)
    BY <1>1, FS_Interval DEF Resolved
<1> QED
    BY <1>2, FS_Subset, FS_CardinalityType

\* The client starts with no samples, and gets frames.
LEMMA NoFramesYet == << >> \in Seq(Frames)
    OBVIOUS

\* A payload has BufferSize frames.
LEMMA PayloadTyping ==
    ASSUME TypeOK
    PROVE  Payload \in Seq(Frames) /\ Len(Payload) = BufferSize
<1>1. \A i \in 1 .. BufferSize : i <= sample_idx => i - 1 \in Slots
    BY BufferSizeAssumption DEF TypeOK, Slots
<1>2. 0 \in Frames /\ \A k \in Slots : samples[k] \in Frames
    BY MaxSamplesAssumption DEF TypeOK, Frames
<1>3. Payload \in [1 .. BufferSize -> Frames]
    BY <1>1, <1>2 DEF Payload
<1> QED
    BY <1>3, BufferSizeAssumption

\* The samples of the buffer are the first frames of the payload, the others zero.
LEMMA AppendsPayload ==
    ASSUME TypeOK
    PROVE  LET n == Len(raw_samples) IN
           /\ Len(raw_samples \o Payload) = n + BufferSize
           /\ \A i \in 1 .. n : (raw_samples \o Payload)[i] = raw_samples[i]
           /\ \A i \in (n + 1) .. (n + BufferSize) :
                (raw_samples \o Payload)[i] = IF i - n <= sample_idx THEN samples[i - n - 1] ELSE 0
<1> DEFINE n == Len(raw_samples)
<1>1. raw_samples \in Seq(Frames) /\ n \in Nat
    BY DEF TypeOK
<1>2. /\ Len(raw_samples \o Payload) = n + BufferSize
      /\ \A i \in 1 .. (n + BufferSize) :
           (raw_samples \o Payload)[i] = IF i <= n THEN raw_samples[i] ELSE Payload[i - n]
    BY <1>1, PayloadTyping, ConcatProperties
<1>3. \A i \in (n + 1) .. (n + BufferSize) : i - n \in 1 .. BufferSize /\ ~(i <= n)
    BY <1>1, BufferSizeAssumption
<1>4. \A k \in 1 .. BufferSize : Payload[k] = IF k <= sample_idx THEN samples[k - 1] ELSE 0
    BY DEF Payload
<1> QED
    BY <1>1, <1>2, <1>3, <1>4, BufferSizeAssumption

\* Samples that stay where they are stay in order.
LEMMA StaysOrdered ==
    ASSUME Ordered, UNCHANGED <<raw_samples, sample_idx>>,
           \A k \in 0 .. (sample_idx - 1) : samples'[k] = samples[k],
           NEW top \in Int, top = sample_generated - InFlight,
           NEW next \in Int, next = sample_generated' - InFlight', top <= next
    PROVE  Ordered'
<1>1. Resolved' = Resolved
    BY DEF Resolved
<1>2. 1 .. top \subseteq 1 .. next
    OBVIOUS
<1>3. \A i \in Resolved : raw_samples[i] \in 1 .. next
    BY <1>2 DEF Ordered
<1>4. \A k \in 0 .. (sample_idx - 1) : samples[k] \in 1 .. next
    BY <1>2 DEF Ordered
<1> QED
    BY <1>1, <1>3, <1>4 DEF Ordered

\* The sample behind the ones in the buffer is later than all of them.
LEMMA AdvancesInOrder ==
    ASSUME Ordered, UNCHANGED <<raw_samples, samples>>, sample_idx \in Nat,
           sample_idx' = sample_idx + 1, NEW top \in Nat, top >= 1,
           sample_generated - InFlight = top - 1, sample_generated' - InFlight' = top,
           samples[sample_idx] = top
    PROVE  Ordered'
<1>1. Resolved' = Resolved
    BY DEF Resolved
<1>2. \A k \in 0 .. (sample_idx' - 1) : k \in 0 .. (sample_idx - 1) \/ k = sample_idx
    OBVIOUS
<1>3. \A i \in Resolved : raw_samples[i] \in 1 .. top /\ raw_samples[i] < top
    BY DEF Ordered
<1>4. \A k \in 0 .. (sample_idx - 1) : samples[k] \in 1 .. top /\ samples[k] < top
    BY DEF Ordered
<1>5. \A i \in Resolved, k \in 0 .. (sample_idx' - 1) : raw_samples[i] < samples[k]
    BY <1>2, <1>3 DEF Ordered
<1>6. \A k \in 0 .. (sample_idx' - 1) : samples[k] \in 1 .. top
    BY <1>2, <1>4
<1>7. \A k, l \in 0 .. (sample_idx' - 1) : k < l => samples[k] < samples[l]
    BY <1>2, <1>4 DEF Ordered
<1> QED
    BY <1>1, <1>3, <1>5, <1>6, <1>7 DEF Ordered

\* SAMPLE_GET moves the samples of the buffer behind the ones handed out, and
\* frames without a sample behind them.
LEMMA HandsOut ==
    ASSUME TypeOK, sample_idx > 0, raw_samples' = raw_samples \o Payload,
           \A k \in 0 .. (sample_idx - 1) : samples[k] # 0
    PROVE  LET n == Len(raw_samples)
               new == (n + 1) .. (n + sample_idx)
           IN  /\ n \in Nat
               /\ Resolved' = Resolved \cup new
               /\ Cardinality(Resolved') = Cardinality(Resolved) + sample_idx
               /\ \A i \in Resolved : i \in 1 .. n /\ raw_samples'[i] = raw_samples[i]
               /\ \A i \in new : /\ i - n - 1 \in 0 .. (sample_idx - 1)
                                 /\ raw_samples'[i] = samples[i - n - 1]
<1> DEFINE n == Len(raw_samples)
           new == (n + 1) .. (n + sample_idx)
<1>1. n \in Nat /\ sample_idx \in 1 .. BufferSize /\ BufferSize \in Nat /\ raw_samples \in Seq(Frames)
    BY BufferSizeAssumption DEF TypeOK
<1>2. /\ Len(raw_samples') = n + BufferSize
      /\ \A i \in 1 .. n : raw_samples'[i] = raw_samples[i]
      /\ \A i \in (n + 1) .. (n + BufferSize) :
           raw_samples'[i] = IF i - n <= sample_idx THEN samples[i - n - 1] ELSE 0
    BY AppendsPayload
<1>3. IsFiniteSet(Resolved) /\ Cardinality(Resolved) \in Nat /\ Resolved \subseteq 1 .. n
    BY <1>1, ResolvedFinite
<1>4. \A i \in new : i - n - 1 \in 0 .. (sample_idx - 1) /\ raw_samples'[i] = samples[i - n - 1]
    BY <1>1, <1>2
<1>5. new \subseteq 1 .. (n + BufferSize) /\ 1 .. n \subseteq 1 .. (n + BufferSize)
    BY <1>1
<1>6. Resolved \cap new = {}
    BY <1>1, <1>3
<1>7. Resolved' = Resolved \cup new
  <2>1. ASSUME NEW i \in 1 .. (n + BufferSize)
        PROVE  raw_samples'[i] # 0 <=> i \in Resolved \cup new
    <3>1. CASE i \in 1 .. n
      <4>1. i \notin new
        BY <1>1, <3>1
      <4> QED
        BY <1>2, <3>1, <4>1 DEF Resolved
    <3>2. CASE i \in new
        BY <1>4, <3>2
    <3>3. CASE i \in (n + sample_idx + 1) .. (n + BufferSize)
      <4>1. i \notin Resolved /\ i \notin new
        BY <1>1, <1>3, <3>3
      <4> QED
        BY <1>1, <1>2, <3>3, <4>1
    <3>4. i \in 1 .. n \/ i \in new \/ i \in (n + sample_idx + 1) .. (n + BufferSize)
        BY <1>1
    <3> QED
        BY <3>1, <3>2, <3>3, <3>4
  <2> HIDE DEF new
  <2> QED
    BY <1>2, <1>3, <1>5, <2>1 DEF Resolved
<1>8. Cardinality(Resolved') = Cardinality(Resolved) + sample_idx
  <2>1. n + 1 \in Int /\ n + sample_idx \in Int /\ ~(n + 1 > n + sample_idx)
        /\ (n + sample_idx) - (n + 1) + 1 = sample_idx
    BY <1>1
  <2>2. IsFiniteSet(new) /\ Cardinality(new) = sample_idx
    BY <2>1, FS_Interval
  <2>3. Cardinality({}) = 0
    BY FS_EmptySet
  <2> HIDE DEF new
  <2>4. Cardinality(Resolved \cup new) = Cardinality(Resolved) + Cardinality(new) - 0
    BY <1>3, <1>6, <2>2, <2>3, FS_Union
  <2> QED
    BY <1>1, <1>3, <1>7, <2>2, <2>4
<1>9. \A i \in Resolved : i \in 1 .. n /\ raw_samples'[i] = raw_samples[i]
    BY <1>2, <1>3
<1> QED
    BY <1>1, <1>4, <1>7, <1>8, <1>9

\* What it hands out is in order behind what was.
LEMMA HandsOutInOrder ==
    ASSUME TypeOK, Ordered, sample_idx > 0, sample_idx' = 0,
           raw_samples' = raw_samples \o Payload,
           NEW top \in Int, sample_generated - InFlight = top, sample_generated' - InFlight' = top
    PROVE  Ordered' /\ Cardinality(Resolved') = Cardinality(Resolved) + sample_idx
<1> DEFINE n == Len(raw_samples)
           new == (n + 1) .. (n + sample_idx)
<1>1. \A k \in 0 .. (sample_idx - 1) : samples[k] \in 1 .. top /\ samples[k] # 0
    BY DEF Ordered
<1>2. /\ n \in Nat
      /\ Resolved' = Resolved \cup new
      /\ Cardinality(Resolved') = Cardinality(Resolved) + sample_idx
      /\ \A i \in Resolved : i \in 1 .. n /\ raw_samples'[i] = raw_samples[i]
      /\ \A i \in new : i - n - 1 \in 0 .. (sample_idx - 1) /\ raw_samples'[i] = samples[i - n - 1]
    BY <1>1, HandsOut
<1>3. \A i \in new : i \in Int /\ i > n
    BY <1>2 DEF TypeOK
<1>4. \A i \in Resolved' : raw_samples'[i] \in 1 .. top
  <2> HIDE DEF new
  <2> QED
    BY <1>1, <1>2 DEF Ordered
<1>5. ASSUME NEW i \in Resolved', NEW j \in Resolved', i < j
      PROVE  raw_samples'[i] < raw_samples'[j]
  <2> HIDE DEF new
  <2>1. CASE i \in Resolved /\ j \in Resolved
    BY <1>2, <1>5, <2>1 DEF Ordered
  <2>2. CASE i \in Resolved /\ j \in new
    BY <1>2, <2>2 DEF Ordered
  <2>3. CASE i \in new /\ j \in new
    <3>1. i - n - 1 < j - n - 1
        BY <1>2, <1>3, <1>5, <2>3
    <3> QED
        BY <1>2, <2>3, <3>1 DEF Ordered
  <2>4. ~(i \in new /\ j \in Resolved)
    BY <1>2, <1>3, <1>5
  <2> QED
    BY <1>2, <2>1, <2>2, <2>3, <2>4
<1>6. \A k \in 0 .. (sample_idx' - 1) : FALSE
    OBVIOUS
<1> QED
    BY <1>2, <1>4, <1>5, <1>6 DEF Ordered

\* Every action keeps every variable in its range: sample_idx within the buffer,
\* sample_dropped behind sample_generated.
LEMMA TypingStep ==
    ASSUME TypeOK, Control, LockReleased, Tallies, [Next]_vars
    PROVE  TypeOK'
<1> USE CycleAssumption, BufferSizeAssumption, MaxSamplesAssumption DEF TypeOK,
              Phases, Pcs, Slots, Frames, LockReleased, Tallies, Control,
              pmuVars, isrVars, bufferVars, tallies, history
<1>1. CASE Acquire
  <2>1. raw_samples' \in Seq(Frames)
    BY <1>1, NoFramesYet DEF Acquire
  <2> QED
    BY <1>1, <2>1 DEF Acquire
<1>2. CASE TakeOver
  <2>1. raw_samples' \in Seq(Frames)
    BY <1>2, NoFramesYet DEF TakeOver
  <2> QED
    BY <1>2, <2>1 DEF TakeOver
<1>3. CASE Release
    BY <1>3 DEF Release
<1>4. CASE StopBegins
    BY <1>4 DEF StopBegins, Request
<1>5. ASSUME NEW sources \in SUBSET Sources, SetSrcBegins(sources) PROVE TypeOK'
    BY <1>5 DEF SetSrcBegins, Request
<1>6. CASE StartClears
    BY <1>6 DEF StartClears, Request
<1>7. CASE GetBegins
    BY <1>7 DEF GetBegins, Request
<1>8. CASE SampleStopBegins
    BY <1>8 DEF SampleStopBegins, Request
<1>9. CASE StopPmu
    BY <1>9 DEF StopPmu
<1>10. CASE SetSrcResets
    BY <1>10 DEF SetSrcResets
<1>11. CASE SetSrcPrograms
    BY <1>11 DEF SetSrcPrograms
<1>12. CASE StartPmu
    BY <1>12 DEF StartPmu
<1>13. CASE GetLocks
    BY <1>13 DEF GetLocks
<1>14. CASE GetCopies
  <2>1. raw_samples' \in Seq(Frames)
    BY <1>14, PayloadTyping, ConcatProperties DEF GetCopies
  <2>2. sample_idx' \in 0 .. BufferSize
    BY <1>14 DEF GetCopies
  <2> QED
    BY <1>14, <2>1, <2>2 DEF GetCopies
<1>15. CASE SampleStopCounters
    BY <1>15 DEF SampleStopCounters
<1>16. CASE SampleStopIrqs
    BY <1>16 DEF SampleStopIrqs
<1>17. CASE PmiBegins
    BY <1>17 DEF PmiBegins
<1>18. CASE PmiFindsLockTaken
    BY <1>18 DEF PmiFindsLockTaken, Drop, PmiReturns
<1>19. CASE PmiLocks
    BY <1>19 DEF PmiLocks
<1>20. CASE PmiFindsBufferFull
    BY <1>20 DEF PmiFindsBufferFull, Drop, PmiReturns, BufferFull
<1>21. CASE PmiRecords
  <2>1. sample_idx \in Slots /\ sample_generated \in Frames
    BY <1>21 DEF PmiRecords, BufferFull
  <2>2. samples' \in [Slots -> Frames] /\ slot' \in Slots
    BY <1>21, <2>1 DEF PmiRecords
  <2> QED
    BY <1>21, <2>2 DEF PmiRecords
<1>22. CASE PmiAdvances
    BY <1>22 DEF PmiAdvances
<1>23. CASE PmiReloads
    BY <1>23 DEF PmiReloads, PmiReturns
<1>24. CASE LeaseDpcs
    BY <1>24 DEF LeaseDpcs
<1>25. ASSUME NEW s \in Sources, Overflow(s) PROVE TypeOK'
    BY <1>25 DEF Overflow
<1>26. CASE UNCHANGED vars
    BY <1>26 DEF vars
<1> QED
    BY <1>1, <1>2, <1>3, <1>4, <1>5, <1>6, <1>7, <1>8, <1>9, <1>10, <1>11,
       <1>12, <1>13, <1>14, <1>15, <1>16, <1>17, <1>18, <1>19, <1>20, <1>21,
       <1>22, <1>23, <1>24, <1>25, <1>26 DEF Next, Client, Thread, Pmi

\* The thread takes up and finishes its IOCTLs in the phases they belong to.
LEMMA ControlStep ==
    ASSUME TypeOK, Control, [Next]_vars
    PROVE  Control'
<1> USE DEF TypeOK, Control, pmuVars, isrVars, bufferVars, tallies, history
<1>1. CASE Acquire
    BY <1>1 DEF Acquire
<1>2. CASE TakeOver
    BY <1>2 DEF TakeOver
<1>3. CASE Release
    BY <1>3 DEF Release
<1>4. CASE StopBegins
    BY <1>4 DEF StopBegins, Request
<1>5. ASSUME NEW sources \in SUBSET Sources, SetSrcBegins(sources) PROVE Control'
    BY <1>5 DEF SetSrcBegins, Request
<1>6. CASE StartClears
    BY <1>6 DEF StartClears, Request
<1>7. CASE GetBegins
    BY <1>7 DEF GetBegins, Request
<1>8. CASE SampleStopBegins
    BY <1>8 DEF SampleStopBegins, Request
<1>9. CASE StopPmu
    BY <1>9 DEF StopPmu
<1>10. CASE SetSrcResets
    BY <1>10 DEF SetSrcResets
<1>11. CASE SetSrcPrograms
    BY <1>11 DEF SetSrcPrograms
<1>12. CASE StartPmu
    BY <1>12 DEF StartPmu
<1>13. CASE GetLocks
    BY <1>13 DEF GetLocks
<1>14. CASE GetCopies
    BY <1>14 DEF GetCopies
<1>15. CASE SampleStopCounters
    BY <1>15 DEF SampleStopCounters
<1>16. CASE SampleStopIrqs
    BY <1>16 DEF SampleStopIrqs
<1>17. CASE PmiBegins
    BY <1>17 DEF PmiBegins
<1>18. CASE PmiFindsLockTaken
    BY <1>18 DEF PmiFindsLockTaken, Drop, PmiReturns
<1>19. CASE PmiLocks
    BY <1>19 DEF PmiLocks
<1>20. CASE PmiFindsBufferFull
    BY <1>20 DEF PmiFindsBufferFull, Drop, PmiReturns, BufferFull
<1>21. CASE PmiRecords
    BY <1>21 DEF PmiRecords, BufferFull
<1>22. CASE PmiAdvances
    BY <1>22 DEF PmiAdvances
<1>23. CASE PmiReloads
    BY <1>23 DEF PmiReloads, PmiReturns
<1>24. CASE LeaseDpcs
    BY <1>24 DEF LeaseDpcs
<1>25. ASSUME NEW s \in Sources, Overflow(s) PROVE Control'
    BY <1>25 DEF Overflow
<1>26. CASE UNCHANGED vars
    BY <1>26 DEF vars
<1> QED
    BY <1>1, <1>2, <1>3, <1>4, <1>5, <1>6, <1>7, <1>8, <1>9, <1>10, <1>11,
       <1>12, <1>13, <1>14, <1>15, <1>16, <1>17, <1>18, <1>19, <1>20, <1>21,
       <1>22, <1>23, <1>24, <1>25, <1>26 DEF Next, Client, Thread, Pmi

\* The interrupt and SAMPLE_GET take the lock only when it is free.
LEMMA LockStep ==
    ASSUME TypeOK, LockReleased, [Next]_vars
    PROVE  LockReleased'
<1> USE DEF TypeOK, LockReleased, pmuVars, isrVars, bufferVars, tallies, history
<1>1. CASE Acquire
    BY <1>1 DEF Acquire
<1>2. CASE TakeOver
    BY <1>2 DEF TakeOver
<1>3. CASE Release
    BY <1>3 DEF Release
<1>4. CASE StopBegins
    BY <1>4 DEF StopBegins, Request
<1>5. ASSUME NEW sources \in SUBSET Sources, SetSrcBegins(sources) PROVE LockReleased'
    BY <1>5 DEF SetSrcBegins, Request
<1>6. CASE StartClears
    BY <1>6 DEF StartClears, Request
<1>7. CASE GetBegins
    BY <1>7 DEF GetBegins, Request
<1>8. CASE SampleStopBegins
    BY <1>8 DEF SampleStopBegins, Request
<1>9. CASE StopPmu
    BY <1>9 DEF StopPmu
<1>10. CASE SetSrcResets
    BY <1>10 DEF SetSrcResets
<1>11. CASE SetSrcPrograms
    BY <1>11 DEF SetSrcPrograms
<1>12. CASE StartPmu
    BY <1>12 DEF StartPmu
<1>13. CASE GetLocks
    BY <1>13 DEF GetLocks
<1>14. CASE GetCopies
    BY <1>14 DEF GetCopies
<1>15. CASE SampleStopCounters
    BY <1>15 DEF SampleStopCounters
<1>16. CASE SampleStopIrqs
    BY <1>16 DEF SampleStopIrqs
<1>17. CASE PmiBegins
    BY <1>17 DEF PmiBegins
<1>18. CASE PmiFindsLockTaken
    BY <1>18 DEF PmiFindsLockTaken, Drop, PmiReturns
<1>19. CASE PmiLocks
    BY <1>19 DEF PmiLocks
<1>20. CASE PmiFindsBufferFull
    BY <1>20 DEF PmiFindsBufferFull, Drop, PmiReturns, BufferFull
<1>21. CASE PmiRecords
    BY <1>21 DEF PmiRecords, BufferFull
<1>22. CASE PmiAdvances
    BY <1>22 DEF PmiAdvances
<1>23. CASE PmiReloads
    BY <1>23 DEF PmiReloads, PmiReturns
<1>24. CASE LeaseDpcs
    BY <1>24 DEF LeaseDpcs
<1>25. ASSUME NEW s \in Sources, Overflow(s) PROVE LockReleased'
    BY <1>25 DEF Overflow
<1>26. CASE UNCHANGED vars
    BY <1>26 DEF vars
<1> QED
    BY <1>1, <1>2, <1>3, <1>4, <1>5, <1>6, <1>7, <1>8, <1>9, <1>10, <1>11,
       <1>12, <1>13, <1>14, <1>15, <1>16, <1>17, <1>18, <1>19, <1>20, <1>21,
       <1>22, <1>23, <1>24, <1>25, <1>26 DEF Next, Client, Thread, Pmi

\* SAMPLE_START writes the tallies and the index behind the interrupt's back, but
\* leaves room and finds the lock free.
LEMMA TalliesStep ==
    ASSUME TypeOK, Control, LockReleased, Tallies, [Next]_vars
    PROVE  Tallies'
<1> USE CycleAssumption, BufferSizeAssumption, MaxSamplesAssumption DEF TypeOK,
              Tallies, Slots, LockReleased, Control, pmuVars, isrVars,
              bufferVars, tallies, history
<1>1. CASE Acquire
    BY <1>1 DEF Acquire
<1>2. CASE TakeOver
    BY <1>2 DEF TakeOver
<1>3. CASE Release
    BY <1>3 DEF Release
<1>4. CASE StopBegins
    BY <1>4 DEF StopBegins, Request
<1>5. ASSUME NEW sources \in SUBSET Sources, SetSrcBegins(sources) PROVE Tallies'
    BY <1>5 DEF SetSrcBegins, Request
<1>6. CASE StartClears
    BY <1>6 DEF StartClears, Request
<1>7. CASE GetBegins
    BY <1>7 DEF GetBegins, Request
<1>8. CASE SampleStopBegins
    BY <1>8 DEF SampleStopBegins, Request
<1>9. CASE StopPmu
    BY <1>9 DEF StopPmu
<1>10. CASE SetSrcResets
    BY <1>10 DEF SetSrcResets
<1>11. CASE SetSrcPrograms
    BY <1>11 DEF SetSrcPrograms
<1>12. CASE StartPmu
    BY <1>12 DEF StartPmu
<1>13. CASE GetLocks
    BY <1>13 DEF GetLocks
<1>14. CASE GetCopies
    BY <1>14 DEF GetCopies
<1>15. CASE SampleStopCounters
    BY <1>15 DEF SampleStopCounters
<1>16. CASE SampleStopIrqs
    BY <1>16 DEF SampleStopIrqs
<1>17. CASE PmiBegins
    BY <1>17 DEF PmiBegins
<1>18. CASE PmiFindsLockTaken
    BY <1>18 DEF PmiFindsLockTaken, Drop, PmiReturns
<1>19. CASE PmiLocks
    BY <1>19 DEF PmiLocks
<1>20. CASE PmiFindsBufferFull
    BY <1>20 DEF PmiFindsBufferFull, Drop, PmiReturns, BufferFull
<1>21. CASE PmiRecords
    BY <1>21 DEF PmiRecords, BufferFull
<1>22. CASE PmiAdvances
    BY <1>22 DEF PmiAdvances
<1>23. CASE PmiReloads
    BY <1>23 DEF PmiReloads, PmiReturns
<1>24. CASE LeaseDpcs
    BY <1>24 DEF LeaseDpcs
<1>25. ASSUME NEW s \in Sources, Overflow(s) PROVE Tallies'
    BY <1>25 DEF Overflow
<1>26. CASE UNCHANGED vars
    BY <1>26 DEF vars
<1> QED
    BY <1>1, <1>2, <1>3, <1>4, <1>5, <1>6, <1>7, <1>8, <1>9, <1>10, <1>11,
       <1>12, <1>13, <1>14, <1>15, <1>16, <1>17, <1>18, <1>19, <1>20, <1>21,
       <1>22, <1>23, <1>24, <1>25, <1>26 DEF Next, Client, Thread, Pmi

\* Interrupts are switched on by SAMPLE_SET_SRC only.
LEMMA QuietStep ==
    ASSUME TypeOK, Control, QuietInv, [Next]_vars
    PROVE  QuietInv'
<1> USE DEF TypeOK, Control, QuietInv, pmuVars, isrVars, bufferVars, tallies,
              history
<1>1. CASE Acquire
    BY <1>1 DEF Acquire
<1>2. CASE TakeOver
    BY <1>2 DEF TakeOver
<1>3. CASE Release
    BY <1>3 DEF Release
<1>4. CASE StopBegins
    BY <1>4 DEF StopBegins, Request
<1>5. ASSUME NEW sources \in SUBSET Sources, SetSrcBegins(sources) PROVE QuietInv'
    BY <1>5 DEF SetSrcBegins, Request
<1>6. CASE StartClears
    BY <1>6 DEF StartClears, Request
<1>7. CASE GetBegins
    BY <1>7 DEF GetBegins, Request
<1>8. CASE SampleStopBegins
    BY <1>8 DEF SampleStopBegins, Request
<1>9. CASE StopPmu
    BY <1>9 DEF StopPmu
<1>10. CASE SetSrcResets
    BY <1>10 DEF SetSrcResets
<1>11. CASE SetSrcPrograms
    BY <1>11 DEF SetSrcPrograms
<1>12. CASE StartPmu
    BY <1>12 DEF StartPmu
<1>13. CASE GetLocks
    BY <1>13 DEF GetLocks
<1>14. CASE GetCopies
    BY <1>14 DEF GetCopies
<1>15. CASE SampleStopCounters
    BY <1>15 DEF SampleStopCounters
<1>16. CASE SampleStopIrqs
    BY <1>16 DEF SampleStopIrqs
<1>17. CASE PmiBegins
    BY <1>17 DEF PmiBegins
<1>18. CASE PmiFindsLockTaken
    BY <1>18 DEF PmiFindsLockTaken, Drop, PmiReturns
<1>19. CASE PmiLocks
    BY <1>19 DEF PmiLocks
<1>20. CASE PmiFindsBufferFull
    BY <1>20 DEF PmiFindsBufferFull, Drop, PmiReturns, BufferFull
<1>21. CASE PmiRecords
    BY <1>21 DEF PmiRecords, BufferFull
<1>22. CASE PmiAdvances
    BY <1>22 DEF PmiAdvances
<1>23. CASE PmiReloads
    BY <1>23 DEF PmiReloads, PmiReturns
<1>24. CASE LeaseDpcs
    BY <1>24 DEF LeaseDpcs
<1>25. ASSUME NEW s \in Sources, Overflow(s) PROVE QuietInv'
    BY <1>25 DEF Overflow
<1>26. CASE UNCHANGED vars
    BY <1>26 DEF vars
<1> QED
    BY <1>1, <1>2, <1>3, <1>4, <1>5, <1>6, <1>7, <1>8, <1>9, <1>10, <1>11,
       <1>12, <1>13, <1>14, <1>15, <1>16, <1>17, <1>18, <1>19, <1>20, <1>21,
       <1>22, <1>23, <1>24, <1>25, <1>26 DEF Next, Client, Thread, Pmi

\* Every path of the interrupt restarts the counters it stopped, and loads the
\* sources whose flags it took or counts a drop.
LEMMA ArmedStep ==
    ASSUME TypeOK, Control, LockReleased, ArmedInv, [Next]_vars
    PROVE  ArmedInv'
<1> USE DEF TypeOK, Control, LockReleased, ArmedInv, KeepsSampling, Undisturbed,
              pmuVars, isrVars, bufferVars, tallies, history
<1>1. CASE Acquire
    BY <1>1 DEF Acquire
<1>2. CASE TakeOver
    BY <1>2 DEF TakeOver
<1>3. CASE Release
    BY <1>3 DEF Release
<1>4. CASE StopBegins
    BY <1>4 DEF StopBegins, Request
<1>5. ASSUME NEW sources \in SUBSET Sources, SetSrcBegins(sources) PROVE ArmedInv'
    BY <1>5 DEF SetSrcBegins, Request
<1>6. CASE StartClears
    BY <1>6 DEF StartClears, Request
<1>7. CASE GetBegins
    BY <1>7 DEF GetBegins, Request
<1>8. CASE SampleStopBegins
    BY <1>8 DEF SampleStopBegins, Request
<1>9. CASE StopPmu
    BY <1>9 DEF StopPmu
<1>10. CASE SetSrcResets
    BY <1>10 DEF SetSrcResets
<1>11. CASE SetSrcPrograms
    BY <1>11 DEF SetSrcPrograms
<1>12. CASE StartPmu
    BY <1>12 DEF StartPmu
<1>13. CASE GetLocks
    BY <1>13 DEF GetLocks
<1>14. CASE GetCopies
    BY <1>14 DEF GetCopies
<1>15. CASE SampleStopCounters
    BY <1>15 DEF SampleStopCounters
<1>16. CASE SampleStopIrqs
    BY <1>16 DEF SampleStopIrqs
<1>17. CASE PmiBegins
    BY <1>17 DEF PmiBegins
<1>18. CASE PmiFindsLockTaken
    BY <1>18 DEF PmiFindsLockTaken, Drop, PmiReturns
<1>19. CASE PmiLocks
    BY <1>19 DEF PmiLocks
<1>20. CASE PmiFindsBufferFull
    BY <1>20 DEF PmiFindsBufferFull, Drop, PmiReturns, BufferFull
<1>21. CASE PmiRecords
    BY <1>21 DEF PmiRecords, BufferFull
<1>22. CASE PmiAdvances
    BY <1>22 DEF PmiAdvances
<1>23. CASE PmiReloads
    BY <1>23 DEF PmiReloads, PmiReturns
<1>24. CASE LeaseDpcs
    BY <1>24 DEF LeaseDpcs
<1>25. ASSUME NEW s \in Sources, Overflow(s) PROVE ArmedInv'
    BY <1>25 DEF Overflow
<1>26. CASE UNCHANGED vars
    BY <1>26 DEF vars
<1> QED
    BY <1>1, <1>2, <1>3, <1>4, <1>5, <1>6, <1>7, <1>8, <1>9, <1>10, <1>11,
       <1>12, <1>13, <1>14, <1>15, <1>16, <1>17, <1>18, <1>19, <1>20, <1>21,
       <1>22, <1>23, <1>24, <1>25, <1>26 DEF Next, Client, Thread, Pmi

\* What the interrupt and SAMPLE_GET do to the buffer keeps every sample, in order.
LEMMA KeptStep ==
    ASSUME TypeOK, Control, LockReleased, Tallies, KeptInv, [Next]_vars
    PROVE  KeptInv'
<1> USE CycleAssumption, BufferSizeAssumption, MaxSamplesAssumption DEF TypeOK,
              Control, LockReleased, Tallies, KeptInv, Undisturbed, InSlot,
              Counted, Ordered, InFlight, Slots, Frames, pmuVars, isrVars,
              bufferVars, tallies, history
<1>a. UNCHANGED raw_samples => Resolved' = Resolved
    BY DEF Resolved
<1>b. Cardinality(Resolved) \in Nat /\ Resolved \subseteq 1 .. Len(raw_samples)
    BY ResolvedFinite
<1>1. CASE Acquire
    BY <1>1, <1>a, <1>b DEF Acquire
<1>2. CASE TakeOver
    BY <1>2, <1>a, <1>b DEF TakeOver
<1>3. CASE Release
    BY <1>3, <1>a, <1>b DEF Release
<1>4. CASE StopBegins
    BY <1>4, <1>a, <1>b DEF StopBegins, Request
<1>5. ASSUME NEW sources \in SUBSET Sources, SetSrcBegins(sources) PROVE KeptInv'
    BY <1>5, <1>a, <1>b DEF SetSrcBegins, Request
<1>6. CASE StartClears
    BY <1>6, <1>a, <1>b DEF StartClears, Request
<1>7. CASE GetBegins
    BY <1>7, <1>a, <1>b DEF GetBegins, Request
<1>8. CASE SampleStopBegins
    BY <1>8, <1>a, <1>b DEF SampleStopBegins, Request
<1>9. CASE StopPmu
    BY <1>9, <1>a, <1>b DEF StopPmu
<1>10. CASE SetSrcResets
    BY <1>10, <1>a, <1>b DEF SetSrcResets
<1>11. CASE SetSrcPrograms
    BY <1>11, <1>a, <1>b DEF SetSrcPrograms
<1>12. CASE StartPmu
    BY <1>12, <1>a, <1>b DEF StartPmu
<1>13. CASE GetLocks
    BY <1>13, <1>a, <1>b DEF GetLocks
<1>14. CASE GetCopies
  <2>1. /\ sample_idx' = 0
        /\ raw_samples' = IF sample_idx > 0 THEN raw_samples \o Payload ELSE raw_samples
        /\ UNCHANGED <<phase, disturbed, samples, sample_generated, sample_dropped, isr, slot>>
    BY <1>14 DEF GetCopies, isrVars
  <2> SUFFICES ASSUME Undisturbed' PROVE InSlot' /\ Counted' /\ Ordered'
    OBVIOUS
  <2>2. Undisturbed /\ InFlight' = InFlight /\ isr # "recorded"
    BY <1>14, <2>1 DEF GetCopies
  <2>3. CASE sample_idx = 0
    <3>1. UNCHANGED <<raw_samples, sample_idx, samples, sample_generated, InFlight>>
        BY <2>1, <2>2, <2>3
    <3>2. InSlot' /\ Counted'
        BY <1>a, <1>b, <2>1, <2>2, <3>1
    <3>3. Ordered'
        BY <2>2, <3>1, StaysOrdered
    <3> QED
        BY <3>2, <3>3
  <2>4. CASE sample_idx > 0
    <3>1. sample_generated - InFlight \in Int /\ sample_generated' - InFlight' = sample_generated - InFlight
        BY <2>1, <2>2
    <3>2. Ordered' /\ Cardinality(Resolved') = Cardinality(Resolved) + sample_idx
        BY <2>1, <2>2, <2>4, <3>1, HandsOutInOrder
    <3>3. InSlot' /\ Counted'
        BY <1>b, <2>1, <2>2, <3>2
    <3> QED
        BY <3>2, <3>3
  <2> QED
    BY <2>3, <2>4
<1>15. CASE SampleStopCounters
    BY <1>15, <1>a, <1>b DEF SampleStopCounters
<1>16. CASE SampleStopIrqs
    BY <1>16, <1>a, <1>b DEF SampleStopIrqs
<1>17. CASE PmiBegins
  <2>1. CASE ov \cap ov_mask = {}
    BY <1>17, <1>a, <1>b, <2>1 DEF PmiBegins
  <2>2. CASE ov \cap ov_mask # {}
    <3>1. /\ isr = "idle" /\ isr' = "try" /\ sample_generated' = sample_generated + 1
          /\ UNCHANGED <<phase, pc, disturbed, samples, sample_idx, sample_dropped, raw_samples>>
        BY <1>17, <2>2 DEF PmiBegins
    <3> SUFFICES ASSUME Undisturbed' PROVE InSlot' /\ Counted' /\ Ordered'
        OBVIOUS
    <3>2. Undisturbed /\ InFlight = 0 /\ InFlight' = 1
        BY <3>1
    <3>3. InSlot' /\ Counted'
        BY <1>a, <1>b, <3>1, <3>2
    <3>4. Ordered'
        BY <3>1, <3>2, StaysOrdered
    <3> QED
        BY <3>3, <3>4
  <2> QED
    BY <2>1, <2>2
<1>18. CASE PmiFindsLockTaken
  <2>1. /\ isr \in {"try", "check"} /\ isr' = "idle" /\ sample_dropped' = sample_dropped + 1
        /\ UNCHANGED <<phase, pc, disturbed, samples, sample_idx, sample_generated, raw_samples>>
    BY <1>18 DEF PmiFindsLockTaken, Drop, PmiReturns
  <2> SUFFICES ASSUME Undisturbed' PROVE InSlot' /\ Counted' /\ Ordered'
    OBVIOUS
  <2>2. Undisturbed /\ InFlight = 1 /\ InFlight' = 0
    BY <2>1
  <2>3. InSlot' /\ Counted'
    BY <1>a, <1>b, <2>1, <2>2
  <2>4. Ordered'
    BY <2>1, <2>2, StaysOrdered
  <2> QED
    BY <2>3, <2>4
<1>19. CASE PmiLocks
    BY <1>19, <1>a, <1>b DEF PmiLocks
<1>20. CASE PmiFindsBufferFull
  <2>1. /\ isr \in {"try", "check"} /\ isr' = "idle" /\ sample_dropped' = sample_dropped + 1
        /\ UNCHANGED <<phase, pc, disturbed, samples, sample_idx, sample_generated, raw_samples>>
    BY <1>20 DEF PmiFindsBufferFull, Drop, PmiReturns
  <2> SUFFICES ASSUME Undisturbed' PROVE InSlot' /\ Counted' /\ Ordered'
    OBVIOUS
  <2>2. Undisturbed /\ InFlight = 1 /\ InFlight' = 0
    BY <2>1
  <2>3. InSlot' /\ Counted'
    BY <1>a, <1>b, <2>1, <2>2
  <2>4. Ordered'
    BY <2>1, <2>2, StaysOrdered
  <2> QED
    BY <2>3, <2>4
<1>21. CASE PmiRecords
  <2>1. /\ isr = "check" /\ isr' = "recorded" /\ sample_idx \in Slots
        /\ samples' = [samples EXCEPT ![sample_idx] = sample_generated] /\ slot' = sample_idx
        /\ UNCHANGED <<phase, pc, disturbed, sample_idx, sample_generated, sample_dropped, raw_samples>>
    BY <1>21 DEF PmiRecords, BufferFull
  <2> SUFFICES ASSUME Undisturbed' PROVE InSlot' /\ Counted' /\ Ordered'
    OBVIOUS
  <2>2. Undisturbed /\ InFlight = 1 /\ InFlight' = 1
    BY <2>1
  <2>3. InSlot' /\ Counted'
    BY <1>a, <1>b, <2>1, <2>2
  <2>4. \A k \in 0 .. (sample_idx - 1) : samples'[k] = samples[k]
    BY <2>1
  <2>5. Ordered'
    BY <2>1, <2>2, <2>4, StaysOrdered
  <2> QED
    BY <2>3, <2>5
<1>22. CASE PmiAdvances
  <2>1. /\ isr = "recorded" /\ isr' = "reload" /\ sample_idx' \in {slot + 1, sample_idx + 1}
        /\ UNCHANGED <<phase, pc, disturbed, samples, sample_generated, sample_dropped, raw_samples>>
    BY <1>22 DEF PmiAdvances
  <2> SUFFICES ASSUME Undisturbed' PROVE InSlot' /\ Counted' /\ Ordered'
    OBVIOUS
  <2>2. Undisturbed /\ InFlight = 1 /\ InFlight' = 0
    BY <2>1
  <2>3. /\ sample_idx' = sample_idx + 1 /\ sample_idx \in Slots
        /\ samples[sample_idx] = sample_generated
    BY <2>1, <2>2
  <2>4. InSlot' /\ Counted'
    BY <1>a, <1>b, <2>1, <2>2, <2>3
  <2>5. \A k \in 0 .. (sample_idx' - 1) : k \in 0 .. (sample_idx - 1) \/ k = sample_idx
    BY <2>3
  <2>6. Ordered'
    <3>1. sample_generated >= 1 /\ sample_generated - 1 \in Int
        BY <1>b, <2>2, <2>3
    <3>2. sample_generated' - InFlight' = sample_generated
        BY <2>1, <2>2
    <3> QED
        BY <2>1, <2>2, <2>3, <2>5, <3>1, <3>2, AdvancesInOrder
  <2> QED
    BY <2>4, <2>6
<1>23. CASE PmiReloads
    BY <1>23, <1>a, <1>b DEF PmiReloads, PmiReturns
<1>24. CASE LeaseDpcs
    BY <1>24, <1>a, <1>b DEF LeaseDpcs
<1>25. ASSUME NEW s \in Sources, Overflow(s) PROVE KeptInv'
    BY <1>25, <1>a, <1>b DEF Overflow
<1>26. CASE UNCHANGED vars
    BY <1>26, <1>a, <1>b DEF vars
<1> QED
    BY <1>1, <1>2, <1>3, <1>4, <1>5, <1>6, <1>7, <1>8, <1>9, <1>10, <1>11,
       <1>12, <1>13, <1>14, <1>15, <1>16, <1>17, <1>18, <1>19, <1>20, <1>21,
       <1>22, <1>23, <1>24, <1>25, <1>26 DEF Next, Client, Thread, Pmi

-----------------------------------------------------------------------------
(* The theorems.                                                            *)

\* The driver is created with nothing to sample on.
LEMMA InitHolds == Init => SamplingInv
<1> SUFFICES ASSUME Init PROVE SamplingInv
    OBVIOUS
<1>1. TypeOK
  <2>1. /\ 0 \in Slots /\ 0 \in Frames /\ 0 \in 0 .. BufferSize /\ 0 \in 0 .. MaxSamples
        /\ raw_samples \in Seq(Frames)
    BY BufferSizeAssumption, MaxSamplesAssumption, NoFramesYet DEF Init, Slots,
       Frames
  <2>2. samples \in [Slots -> Frames]
    BY <2>1 DEF Init
  <2> QED
    BY <2>1, <2>2 DEF Init, TypeOK, Phases, Pcs
<1>2. Control /\ LockReleased /\ Tallies /\ QuietInv /\ ArmedInv /\ KeptInv
    BY DEF Init, Control, LockReleased, Tallies, QuietInv, ArmedInv,
       KeepsSampling, KeptInv,
           Undisturbed
<1> QED
    BY <1>1, <1>2 DEF SamplingInv

\* The invariant is inductive: nothing the client, the queue's thread, the
\* interrupt, the counters or the DPCs do, in any order, breaks it.
THEOREM Inductive == Spec => []SamplingInv
<1>1. SamplingInv /\ [Next]_vars => SamplingInv'
    BY TypingStep, ControlStep, LockStep, TalliesStep, QuietStep, ArmedStep,
       KeptStep
       DEF SamplingInv
<1> QED
    BY <1>1, InitHolds, PTL DEF Spec

\* Whatever path the interrupt takes, and whenever SAMPLE_GET comes, the spin lock
\* is held by one that is about to release it, for any size of the buffer.
THEOREM LockAlwaysReleased == Spec => []LockReleased
<1>1. SamplingInv => LockReleased
    BY DEF SamplingInv
<1> QED
    BY <1>1, Inductive, PTL

\* For any sources, buffer and number of samples, what the interrupt generated is
\* what the client resolves, in order and once, and what is in the buffer, dropped
\* or in flight, from a SAMPLE_START that found nothing sampling to the next run.
THEOREM NoSampleLost == Spec => []SamplesKept
<1>1. SamplingInv => SamplesKept
  <2> SUFFICES ASSUME SamplingInv PROVE SamplesKept
    OBVIOUS
  <2>1. Accounting
    BY DEF SamplingInv, KeptInv, Undisturbed, Counted, Accounting
  <2>2. ASSUME ~disturbed, phase \in {"sampling", "done"}
        PROVE  1 .. (sample_generated - InFlight) \subseteq 1 .. sample_generated
    BY MaxSamplesAssumption DEF SamplingInv, TypeOK, InFlight
  <2>3. InOrder
    BY <2>2 DEF SamplingInv, KeptInv, Undisturbed, Ordered, InOrder
  <2> QED
    BY <2>1, <2>3 DEF SamplingInv, SamplesKept
<1> QED
    BY <1>1, Inductive, PTL

\* For any sources and buffer, the counters of a client that samples are stopped
\* only by an interrupt that is about to restart them, and a source is without its
\* interval only while its overflow is pending or after a dropped sample.
THEOREM NeverStalls == Spec => []SamplingGoesOn
<1>1. SamplingInv => SamplingGoesOn
    BY DEF SamplingInv, ArmedInv, Undisturbed, SamplingGoesOn, DisarmedByDrop
<1> QED
    BY <1>1, Inductive, PTL

\* For any sources, no interrupt is under way or can come after SAMPLE_STOP of a
\* client that got the lock when it was free and whose DPCs have run.
THEOREM StopIsFinal == Spec => []StoppedIsQuiet
<1>1. SamplingInv => StoppedIsQuiet
    BY DEF SamplingInv, QuietInv, StoppedIsQuiet
<1> QED
    BY <1>1, Inductive, PTL
=============================================================================
