------------------------- MODULE LibSession_proofs -------------------------
(* The safety of LibSession, proved for any product, caller, lists of cores *)
(* and samples, and that its lists implement the abstract Generator.        *)
EXTENDS LibSession, SequenceTheorems, WellFoundedInduction, TLAPS

-----------------------------------------------------------------------------
(* The inductive invariants.                                                *)

\* A list of metrics that moving on overwrites is still one of metrics.
MetricInv == MetricTypes /\ list_metrics \in Seq(ToSet(Metrics))

\* During a wperf_stat there is room for what its last reading is asked for, and
\* nothing is yielded yet.
StatInv ==
  /\ StatTypes
  /\ InStat => /\ asked \in Asked /\ core_index = 0 /\ stat_event_index = 0
               /\ \A c \in Cores : countings[c] + asked <= MaxCounts

\* The lock that names the device's file object is that of the device there is;
\* only a caller that does not close after a wperf_init that failed can lose
\* one that has it. What is opened is alive, and only a caller that does can
\* close what is not. Nothing is open at the exit.
SessionInv ==
  /\ holder = "device" => device = "held"
  /\ habit = "doc" => holder # "leaked"
  /\ opened => device = "held" /\ cfg = "live" /\ holder # "leaked"
  /\ habit = "app" => cfg # "deletedTwice"
  /\ device = "deleted" => holder \notin {"device", "leaked"}
  /\ pc = "exited" /\ habit = "doc" => device \notin {"held", "refused"}

\* A process spawned to be counted or sampled runs only within that call.
ChildInv == pc \notin {"counting", "timeline", "sampling", "annotating"} => child # "running"

\* Nothing stands collected, and no call is under way, that was not made on an
\* open session. The names of the metrics still to come are as they were
\* collected, and every core to come has counts.
FreshInv ==
  /\ ~opened => fresh = {} /\ pc \in {"idle", "exited"}
  /\ InStat => "stat" \notin fresh
  /\ "metrics" \in fresh =>
       /\ Len(list_metrics) = Len(Metrics)
       /\ \A k \in DOMAIN Metrics : k > metrics_index => list_metrics[k] = Metrics[k]
  /\ "stat" \in fresh => \A k \in DOMAIN cores_idx : countings[cores_idx[k]] > 0

\* While wperf_sample collects, none of its two lists has anything to yield.
SampleInv ==
  /\ SampleTypes
  /\ InSample => /\ {"sample", "annotate"} \cap fresh = {}
                 /\ sample_event_index = 0 /\ sample_index = 0
                 /\ annotate_event_index = 0 /\ annotate_index = 0

\* While wperf_test collects, the list has nothing to yield.
TestInv == TestTypes /\ (pc = "testing" => "test" \notin fresh /\ test_index = 0)

-----------------------------------------------------------------------------
(* Helpers.                                                                 *)

\* No list of wperf_test is longer than the longest.
LEMMA RowsBounded ==
    /\ \A i \in 1 .. 3 : TestRows[i] \in ToSet(TestRows)
    /\ Max(ToSet(TestRows)) \in Nat
    /\ \A n \in ToSet(TestRows) \cup {0} : n \in Nat /\ n <= Max(ToSet(TestRows))
<1> DEFINE rows == ToSet(TestRows)
<1>1. DOMAIN TestRows = {1, 2, 3} /\ \A i \in {1, 2, 3} : TestRows[i] \in Nat
  <2>1. TestRows \in Seq(Nat) /\ Len(TestRows) = 3
      BY SizesAssumption
  <2>2. DOMAIN TestRows = 1 .. 3 /\ TestRows \in [1 .. 3 -> Nat]
      BY <2>1, LenProperties
  <2>3. 1 .. 3 = {1, 2, 3}
      OBVIOUS
  <2> QED
      BY <2>2, <2>3
<1>2. rows = {TestRows[1], TestRows[2], TestRows[3]}
    BY <1>1 DEF ToSet
<1>3. PICK m \in rows : \A n \in rows : m >= n
    BY <1>1, <1>2
<1>4. Max(rows) \in rows /\ \A n \in rows : Max(rows) >= n
    BY <1>3 DEF Max
<1>5. \A n \in rows : n \in Nat
    BY <1>1, <1>2
<1> HIDE DEF rows
<1> QED
    BY <1>1, <1>2, <1>4, <1>5 DEF rows

\* An answer that comes from elsewhere is no routine's.
LEMMA ElsewhereApart == Elsewhere \notin Routines
BY AnswersAssumption DEF Routines

\* The answer of a collecting call is no other one.
LEMMA CollectedApart == Collected # Elsewhere /\ Collected # End /\ Collected # Garbage /\ Collected \notin Nat
BY AnswersAssumption

-----------------------------------------------------------------------------
(* What a step can touch: every other call leaves the list alone.           *)

\* Who touches the list of events, or says anything of it.
LEMMA EventsTouched ==
    ASSUME [Next]_vars
    PROVE  \/ wperf_close
           \/ CollectEvents
           \/ wperf_list_events
           \/ /\ UNCHANGED eventVars /\ ("events" \in fresh' <=> "events" \in fresh)
              /\ said' = said \/ said'.of # "events"
<1> USE ElsewhereApart DEF Routines, eventVars, metricVars, statVars, sampleVars,
              annotateVars, testVars, listVars, deviceVars, Says, Quiet,
              SampleOvertakes
<1>1. CASE Session \/ OthersTakeAndGive \/ OthersForce
    BY <1>1 DEF Session, InitRefused, InitFails, wperf_init, Exit,
       OthersTakeAndGive, OthersForce
<1>2. CASE Lists
    BY <1>2 DEF Lists, CollectMetrics, wperf_list_metrics, wperf_list_metricsEnds
<1>3. CASE Stat
    BY <1>3 DEF Stat, StatFails, StatBegin, StatRound, StatEnd, StatDenied,
       wperf_stat, wperf_statEnds, StatYields
<1>4. CASE Sample
    BY <1>4 DEF Sample, SampleRejected, SampleFails, SampleUnnamed, SampleBegin,
       SampleEnd, SampleDenied, wperf_sample, wperf_sampleEnds,
       wperf_sample_annotate, wperf_sample_annotateEnds, SampleYields,
       AnnotateYields
<1>5. CASE Test
    BY <1>5 DEF Test, TestBegin, TestRefused, TestEnd, TestFails, wperf_test
<1>6. CASE UNCHANGED vars
    BY <1>6 DEF vars
<1> QED
    BY <1>1, <1>2, <1>3, <1>4, <1>5, <1>6 DEF Next

\* Who touches the list of metrics.
LEMMA MetricsTouched ==
    ASSUME [Next]_vars
    PROVE  \/ wperf_close
           \/ CollectMetrics
           \/ wperf_list_metrics
           \/ wperf_list_metricsEnds
           \/ /\ UNCHANGED metricVars /\ ("metrics" \in fresh' <=> "metrics" \in fresh)
              /\ said' = said \/ said'.of # "metrics"
<1> USE ElsewhereApart DEF Routines, eventVars, metricVars, statVars,
              sampleVars, annotateVars, testVars, listVars, deviceVars, Says,
              Quiet, SampleOvertakes
<1>1. CASE Session \/ OthersTakeAndGive \/ OthersForce
    BY <1>1 DEF Session, InitRefused, InitFails, wperf_init, Exit,
       OthersTakeAndGive, OthersForce
<1>2. CASE Lists
    BY <1>2 DEF Lists, CollectEvents, wperf_list_events
<1>3. CASE Stat
    BY <1>3 DEF Stat, StatFails, StatBegin, StatRound, StatEnd, StatDenied,
       wperf_stat, wperf_statEnds, StatYields
<1>4. CASE Sample
    BY <1>4 DEF Sample, SampleRejected, SampleFails, SampleUnnamed, SampleBegin,
       SampleEnd, SampleDenied, wperf_sample, wperf_sampleEnds,
       wperf_sample_annotate, wperf_sample_annotateEnds, SampleYields,
       AnnotateYields
<1>5. CASE Test
    BY <1>5 DEF Test, TestBegin, TestRefused, TestEnd, TestFails, wperf_test
<1>6. CASE UNCHANGED vars
    BY <1>6 DEF vars
<1> QED
    BY <1>1, <1>2, <1>3, <1>4, <1>5, <1>6 DEF Next

\* Who touches the counts and the cores they are yielded for.
LEMMA StatTouched ==
    ASSUME [Next]_vars
    PROVE  \/ InitRefused
           \/ InitFails
           \/ wperf_init
           \/ wperf_close
           \/ \E cs \in Counting : StatFails(cs)
           \/ \E cs \in Counting, n \in Asked, spawn \in BOOLEAN, mode \in {"counting", "timeline"} :
                StatBegin(cs, n, spawn, mode)
           \/ StatRound
           \/ StatEnd
           \/ StatDenied
           \/ wperf_stat
           \/ wperf_statEnds
           \/ \E c \in Sampled : SampleFails(c)
           \/ \E c \in Sampled : SampleUnnamed(c)
           \/ \E c \in Sampled, spawn \in BOOLEAN, mode \in {"sampling", "annotating"} : SampleBegin(c, spawn, mode)
           \/ /\ UNCHANGED <<cores_idx, statVars>> /\ (InStat' => InStat)
              /\ "stat" \in fresh' <=> "stat" \in fresh
              /\ said' = said \/ said'.of # "stat"
<1> USE ElsewhereApart DEF Routines, eventVars, metricVars, statVars,
              sampleVars, annotateVars, testVars, listVars, deviceVars, Says,
              Quiet, SampleOvertakes, InStat, InSample
<1>1. CASE Session \/ OthersTakeAndGive \/ OthersForce
    BY <1>1 DEF Session, Exit, OthersTakeAndGive, OthersForce
<1>2. CASE Lists
    BY <1>2 DEF Lists, CollectEvents, wperf_list_events, CollectMetrics,
       wperf_list_metrics, wperf_list_metricsEnds
<1>3. CASE Stat
    BY <1>3 DEF Stat
<1>4. CASE Sample
    BY <1>4 DEF Sample, SampleRejected, SampleEnd, SampleDenied, wperf_sample,
       wperf_sampleEnds, wperf_sample_annotate, wperf_sample_annotateEnds,
       SampleYields, AnnotateYields
<1>5. CASE Test
    BY <1>5 DEF Test, TestBegin, TestRefused, TestEnd, TestFails, wperf_test
<1>6. CASE UNCHANGED vars
    BY <1>6 DEF vars
<1> QED
    BY <1>1, <1>2, <1>3, <1>4, <1>5, <1>6 DEF Next

\* Who touches the samples and their lines, or says anything of these.
LEMMA SamplesTouched ==
    ASSUME [Next]_vars
    PROVE  \/ wperf_close
           \/ SampleRejected
           \/ \E c \in Sampled : SampleFails(c)
           \/ \E c \in Sampled : SampleUnnamed(c)
           \/ \E c \in Sampled, spawn \in BOOLEAN, mode \in {"sampling", "annotating"} : SampleBegin(c, spawn, mode)
           \/ \E profile \in Profiles : SampleEnd(profile)
           \/ wperf_sample
           \/ wperf_sampleEnds
           \/ wperf_sample_annotate
           \/ wperf_sample_annotateEnds
           \/ /\ UNCHANGED <<sampleVars, annotateVars>> /\ (InSample' => InSample)
              /\ ("sample" \in fresh' <=> "sample" \in fresh) /\ ("annotate" \in fresh' <=> "annotate" \in fresh)
              /\ said' = said \/ said'.of \notin {"sample", "annotate"}
<1> USE ElsewhereApart DEF Routines, eventVars, metricVars, statVars, sampleVars,
              annotateVars, testVars, listVars, deviceVars, Says, Quiet,
              SampleOvertakes, InStat, InSample
<1>1. CASE Session \/ OthersTakeAndGive \/ OthersForce
    BY <1>1 DEF Session, InitRefused, InitFails, wperf_init, Exit,
       OthersTakeAndGive, OthersForce
<1>2. CASE Lists
    BY <1>2 DEF Lists, CollectEvents, wperf_list_events, CollectMetrics,
       wperf_list_metrics, wperf_list_metricsEnds
<1>3. CASE Stat
    BY <1>3 DEF Stat, StatFails, StatBegin, StatRound, StatEnd, StatDenied,
       wperf_stat, wperf_statEnds, StatYields
<1>4. CASE Sample
    BY <1>4 DEF Sample, SampleDenied
<1>5. CASE Test
    BY <1>5 DEF Test, TestBegin, TestRefused, TestEnd, TestFails, wperf_test
<1>6. CASE UNCHANGED vars
    BY <1>6 DEF vars
<1> QED
    BY <1>1, <1>2, <1>3, <1>4, <1>5, <1>6 DEF Next

\* Who touches the list of wperf_test, or says anything of it.
LEMMA TestsTouched ==
    ASSUME [Next]_vars
    PROVE  \/ wperf_close
           \/ TestBegin
           \/ TestRefused
           \/ TestEnd
           \/ TestFails
           \/ wperf_test
           \/ /\ UNCHANGED testVars /\ ("test" \in fresh' <=> "test" \in fresh)
              /\ said' = said \/ said'.of # "test"
              /\ pc' = "testing" => pc = "testing"
<1> USE ElsewhereApart DEF Routines, eventVars, metricVars, statVars, sampleVars,
              annotateVars, testVars, listVars, deviceVars, Says, Quiet,
              SampleOvertakes
<1>1. CASE Session \/ OthersTakeAndGive \/ OthersForce
    BY <1>1 DEF Session, InitRefused, InitFails, wperf_init, Exit,
       OthersTakeAndGive, OthersForce
<1>2. CASE Lists
    BY <1>2 DEF Lists, CollectEvents, wperf_list_events, CollectMetrics,
       wperf_list_metrics, wperf_list_metricsEnds
<1>3. CASE Stat
    BY <1>3 DEF Stat, StatFails, StatBegin, StatRound, StatEnd, StatDenied,
       wperf_stat, wperf_statEnds, StatYields
<1>4. CASE Sample
    BY <1>4 DEF Sample, SampleRejected, SampleFails, SampleUnnamed, SampleBegin,
       SampleEnd, SampleDenied, wperf_sample, wperf_sampleEnds,
       wperf_sample_annotate, wperf_sample_annotateEnds, SampleYields,
       AnnotateYields
<1>5. CASE Test
    BY <1>5 DEF Test
<1>6. CASE UNCHANGED vars
    BY <1>6 DEF vars
<1> QED
    BY <1>1, <1>2, <1>3, <1>4, <1>5, <1>6 DEF Next

-----------------------------------------------------------------------------
(* The steps.                                                               *)

\* Every call keeps the session's own variables in their ranges.
LEMMA SessionTyping ==
    ASSUME SessionTypes, [Next]_vars
    PROVE  SessionTypes'
<1> USE DEF SessionTypes, Routines, Says, Quiet, SampleOvertakes, eventVars,
              metricVars, statVars, sampleVars, annotateVars, testVars,
              listVars, deviceVars
<1>1. CASE InitRefused
    BY <1>1 DEF InitRefused, CanInit, Forgotten
<1>2. CASE InitFails
    BY <1>2 DEF InitFails, CanInit
<1>3. CASE wperf_init
    BY <1>3 DEF wperf_init, CanInit
<1>4. CASE wperf_close
    BY <1>4 DEF wperf_close, Unlocked, Deleted
<1>5. CASE Exit
    BY <1>5 DEF Exit
<1>6. CASE OthersTakeAndGive
    BY <1>6 DEF OthersTakeAndGive
<1>7. CASE OthersForce
    BY <1>7 DEF OthersForce
<1>8. CASE CollectEvents
  <2>1. /\ UNCHANGED <<habit, pc, deviceVars, child>>
        /\ fresh' = fresh \cup {"events"} \/ fresh' = fresh \ {"events"}
        /\ said'.of \in {"events", Elsewhere}
      BY <1>8 DEF CollectEvents
  <2>2. fresh' \subseteq Routines /\ said'.of \in Routines \cup {Elsewhere}
      BY <2>1
  <2> HIDE DEF Routines
  <2> QED
      BY <2>1, <2>2
<1>9. CASE wperf_list_events
    BY <1>9 DEF wperf_list_events, CanCall
<1>10. CASE CollectMetrics
    BY <1>10 DEF CollectMetrics, CanCall
<1>11. CASE wperf_list_metrics
    BY <1>11 DEF wperf_list_metrics, CanCall
<1>12. CASE wperf_list_metricsEnds
    BY <1>12 DEF wperf_list_metricsEnds, CanCall
<1>13. ASSUME NEW cs \in Counting, StatFails(cs)
      PROVE  SessionTypes'
    BY <1>13 DEF StatFails, CanCall, StatClears
<1>14. ASSUME NEW cs \in Counting, NEW n \in Asked, NEW spawn \in BOOLEAN,
             NEW mode \in {"counting", "timeline"}, StatBegin(cs, n, spawn, mode)
      PROVE  SessionTypes'
    BY <1>14 DEF StatBegin, CanCall, StatClears
<1>15. CASE StatRound
    BY <1>15 DEF StatRound, StatReads
<1>16. CASE StatEnd
    BY <1>16 DEF StatEnd, InStat, StatReads, Terminated
<1>17. CASE StatDenied
    BY <1>17 DEF StatDenied, InStat, Terminated
<1>18. CASE wperf_stat
    BY <1>18 DEF wperf_stat, CanCall, StatYields
<1>19. CASE wperf_statEnds
    BY <1>19 DEF wperf_statEnds, CanCall
<1>20. CASE SampleRejected
    BY <1>20 DEF SampleRejected, CanCall, SampleClears
<1>21. ASSUME NEW c \in Sampled, SampleFails(c)
      PROVE  SessionTypes'
    BY <1>21 DEF SampleFails, CanCall, SampleClears, SampleOvertakes
<1>22. ASSUME NEW c \in Sampled, SampleUnnamed(c)
      PROVE  SessionTypes'
    BY <1>22 DEF SampleUnnamed, CanCall, SampleClears, SampleOvertakes
<1>23. ASSUME NEW c \in Sampled, NEW spawn \in BOOLEAN, NEW mode \in {"sampling", "annotating"}, SampleBegin(c, spawn, mode)
      PROVE  SessionTypes'
    BY <1>23 DEF SampleBegin, CanCall, SampleClears, SampleOvertakes
<1>24. ASSUME NEW profile \in Profiles, SampleEnd(profile)
      PROVE  SessionTypes'
    BY <1>24 DEF SampleEnd, InSample, Terminated
<1>25. CASE SampleDenied
    BY <1>25 DEF SampleDenied, InSample, Terminated
<1>26. CASE wperf_sample
    BY <1>26 DEF wperf_sample, CanCall, SampleYields
<1>27. CASE wperf_sampleEnds
    BY <1>27 DEF wperf_sampleEnds, CanCall
<1>28. CASE wperf_sample_annotate
    BY <1>28 DEF wperf_sample_annotate, CanCall, AnnotateYields
<1>29. CASE wperf_sample_annotateEnds
    BY <1>29 DEF wperf_sample_annotateEnds, CanCall
<1>30. CASE TestBegin
    BY <1>30 DEF TestBegin, CanCall
<1>31. CASE TestRefused
    BY <1>31 DEF TestRefused, CanCall
<1>32. CASE TestEnd
    BY <1>32 DEF TestEnd
<1>33. CASE TestFails
    BY <1>33 DEF TestFails
<1>34. CASE wperf_test
    BY <1>34 DEF wperf_test, CanCall
<1>35. CASE UNCHANGED vars
    BY <1>35 DEF vars
<1> QED
    BY <1>1, <1>2, <1>3, <1>4, <1>5, <1>6, <1>7, <1>8, <1>9, <1>10, <1>11,
       <1>12, <1>13, <1>14, <1>15, <1>16, <1>17, <1>18, <1>19, <1>20, <1>21,
       <1>22, <1>23, <1>24, <1>25, <1>26, <1>27, <1>28, <1>29, <1>30, <1>31,
       <1>32, <1>33, <1>34, <1>35 DEF Next, Session, Lists, Stat, Sample, Test

\* No call leaves a device behind that has the lock.
LEMMA SessionStep ==
    ASSUME SessionInv, [Next]_vars
    PROVE  SessionInv'
<1> USE DEF SessionInv, eventVars, metricVars, statVars,
              sampleVars, annotateVars, testVars, listVars, deviceVars
<1>1. CASE InitRefused
    BY <1>1 DEF InitRefused, CanInit, Forgotten
<1>2. CASE InitFails
    BY <1>2 DEF InitFails, CanInit
<1>3. CASE wperf_init
    BY <1>3 DEF wperf_init, CanInit
<1>4. CASE wperf_close
    BY <1>4 DEF wperf_close, Unlocked, Deleted
<1>5. CASE Exit
    BY <1>5 DEF Exit
<1>6. CASE OthersTakeAndGive
    BY <1>6 DEF OthersTakeAndGive
<1>7. CASE OthersForce
    BY <1>7 DEF OthersForce
<1>8. CASE CollectEvents
    BY <1>8 DEF CollectEvents, CanCall
<1>9. CASE wperf_list_events
    BY <1>9 DEF wperf_list_events, CanCall
<1>10. CASE CollectMetrics
    BY <1>10 DEF CollectMetrics, CanCall
<1>11. CASE wperf_list_metrics
    BY <1>11 DEF wperf_list_metrics, CanCall
<1>12. CASE wperf_list_metricsEnds
    BY <1>12 DEF wperf_list_metricsEnds, CanCall
<1>13. ASSUME NEW cs \in Counting, StatFails(cs)
      PROVE  SessionInv'
    BY <1>13 DEF StatFails, CanCall, StatClears
<1>14. ASSUME NEW cs \in Counting, NEW n \in Asked, NEW spawn \in BOOLEAN,
             NEW mode \in {"counting", "timeline"}, StatBegin(cs, n, spawn, mode)
      PROVE  SessionInv'
    BY <1>14 DEF StatBegin, CanCall, StatClears
<1>15. CASE StatRound
    BY <1>15 DEF StatRound, StatReads
<1>16. CASE StatEnd
    BY <1>16 DEF StatEnd, InStat, StatReads, Terminated
<1>17. CASE StatDenied
    BY <1>17 DEF StatDenied, InStat, Terminated
<1>18. CASE wperf_stat
    BY <1>18 DEF wperf_stat, CanCall, StatYields
<1>19. CASE wperf_statEnds
    BY <1>19 DEF wperf_statEnds, CanCall
<1>20. CASE SampleRejected
    BY <1>20 DEF SampleRejected, CanCall, SampleClears
<1>21. ASSUME NEW c \in Sampled, SampleFails(c)
      PROVE  SessionInv'
    BY <1>21 DEF SampleFails, CanCall, SampleClears, SampleOvertakes
<1>22. ASSUME NEW c \in Sampled, SampleUnnamed(c)
      PROVE  SessionInv'
    BY <1>22 DEF SampleUnnamed, CanCall, SampleClears, SampleOvertakes
<1>23. ASSUME NEW c \in Sampled, NEW spawn \in BOOLEAN, NEW mode \in {"sampling", "annotating"}, SampleBegin(c, spawn, mode)
      PROVE  SessionInv'
    BY <1>23 DEF SampleBegin, CanCall, SampleClears, SampleOvertakes
<1>24. ASSUME NEW profile \in Profiles, SampleEnd(profile)
      PROVE  SessionInv'
    BY <1>24 DEF SampleEnd, InSample, Terminated
<1>25. CASE SampleDenied
    BY <1>25 DEF SampleDenied, InSample, Terminated
<1>26. CASE wperf_sample
    BY <1>26 DEF wperf_sample, CanCall, SampleYields
<1>27. CASE wperf_sampleEnds
    BY <1>27 DEF wperf_sampleEnds, CanCall
<1>28. CASE wperf_sample_annotate
    BY <1>28 DEF wperf_sample_annotate, CanCall, AnnotateYields
<1>29. CASE wperf_sample_annotateEnds
    BY <1>29 DEF wperf_sample_annotateEnds, CanCall
<1>30. CASE TestBegin
    BY <1>30 DEF TestBegin, CanCall
<1>31. CASE TestRefused
    BY <1>31 DEF TestRefused, CanCall
<1>32. CASE TestEnd
    BY <1>32 DEF TestEnd
<1>33. CASE TestFails
    BY <1>33 DEF TestFails
<1>34. CASE wperf_test
    BY <1>34 DEF wperf_test, CanCall
<1>35. CASE UNCHANGED vars
    BY <1>35 DEF vars
<1> QED
    BY <1>1, <1>2, <1>3, <1>4, <1>5, <1>6, <1>7, <1>8, <1>9, <1>10, <1>11,
       <1>12, <1>13, <1>14, <1>15, <1>16, <1>17, <1>18, <1>19, <1>20, <1>21,
       <1>22, <1>23, <1>24, <1>25, <1>26, <1>27, <1>28, <1>29, <1>30, <1>31,
       <1>32, <1>33, <1>34, <1>35 DEF Next, Session, Lists, Stat, Sample, Test

\* No call leaves its process running.
LEMMA ChildStep ==
    ASSUME ChildInv, [Next]_vars
    PROVE  ChildInv'
<1> USE DEF ChildInv, eventVars, metricVars, statVars, sampleVars, annotateVars,
              testVars, listVars, deviceVars
<1>1. CASE InitRefused
    BY <1>1 DEF InitRefused, CanInit, Forgotten
<1>2. CASE InitFails
    BY <1>2 DEF InitFails, CanInit
<1>3. CASE wperf_init
    BY <1>3 DEF wperf_init, CanInit
<1>4. CASE wperf_close
    BY <1>4 DEF wperf_close, Unlocked
<1>5. CASE Exit
    BY <1>5 DEF Exit
<1>6. CASE OthersTakeAndGive
    BY <1>6 DEF OthersTakeAndGive
<1>7. CASE OthersForce
    BY <1>7 DEF OthersForce
<1>8. CASE CollectEvents
    BY <1>8 DEF CollectEvents, CanCall
<1>9. CASE wperf_list_events
    BY <1>9 DEF wperf_list_events, CanCall
<1>10. CASE CollectMetrics
    BY <1>10 DEF CollectMetrics, CanCall
<1>11. CASE wperf_list_metrics
    BY <1>11 DEF wperf_list_metrics, CanCall
<1>12. CASE wperf_list_metricsEnds
    BY <1>12 DEF wperf_list_metricsEnds, CanCall
<1>13. ASSUME NEW cs \in Counting, StatFails(cs)
      PROVE  ChildInv'
    BY <1>13 DEF StatFails, CanCall, StatClears
<1>14. ASSUME NEW cs \in Counting, NEW n \in Asked, NEW spawn \in BOOLEAN,
             NEW mode \in {"counting", "timeline"}, StatBegin(cs, n, spawn, mode)
      PROVE  ChildInv'
    BY <1>14 DEF StatBegin, CanCall, StatClears
<1>15. CASE StatRound
    BY <1>15 DEF StatRound, StatReads
<1>16. CASE StatEnd
    BY <1>16 DEF StatEnd, InStat, StatReads, Terminated
<1>17. CASE StatDenied
    BY <1>17 DEF StatDenied, InStat, Terminated
<1>18. CASE wperf_stat
    BY <1>18 DEF wperf_stat, CanCall, StatYields
<1>19. CASE wperf_statEnds
    BY <1>19 DEF wperf_statEnds, CanCall
<1>20. CASE SampleRejected
    BY <1>20 DEF SampleRejected, CanCall, SampleClears
<1>21. ASSUME NEW c \in Sampled, SampleFails(c)
      PROVE  ChildInv'
    BY <1>21 DEF SampleFails, CanCall, SampleClears, SampleOvertakes
<1>22. ASSUME NEW c \in Sampled, SampleUnnamed(c)
      PROVE  ChildInv'
    BY <1>22 DEF SampleUnnamed, CanCall, SampleClears, SampleOvertakes
<1>23. ASSUME NEW c \in Sampled, NEW spawn \in BOOLEAN, NEW mode \in {"sampling", "annotating"}, SampleBegin(c, spawn, mode)
      PROVE  ChildInv'
    BY <1>23 DEF SampleBegin, CanCall, SampleClears, SampleOvertakes
<1>24. ASSUME NEW profile \in Profiles, SampleEnd(profile)
      PROVE  ChildInv'
    BY <1>24 DEF SampleEnd, InSample, Terminated
<1>25. CASE SampleDenied
    BY <1>25 DEF SampleDenied, InSample, Terminated
<1>26. CASE wperf_sample
    BY <1>26 DEF wperf_sample, CanCall, SampleYields
<1>27. CASE wperf_sampleEnds
    BY <1>27 DEF wperf_sampleEnds, CanCall
<1>28. CASE wperf_sample_annotate
    BY <1>28 DEF wperf_sample_annotate, CanCall, AnnotateYields
<1>29. CASE wperf_sample_annotateEnds
    BY <1>29 DEF wperf_sample_annotateEnds, CanCall
<1>30. CASE TestBegin
    BY <1>30 DEF TestBegin, CanCall
<1>31. CASE TestRefused
    BY <1>31 DEF TestRefused, CanCall
<1>32. CASE TestEnd
    BY <1>32 DEF TestEnd
<1>33. CASE TestFails
    BY <1>33 DEF TestFails
<1>34. CASE wperf_test
    BY <1>34 DEF wperf_test, CanCall
<1>35. CASE UNCHANGED vars
    BY <1>35 DEF vars
<1> QED
    BY <1>1, <1>2, <1>3, <1>4, <1>5, <1>6, <1>7, <1>8, <1>9, <1>10, <1>11,
       <1>12, <1>13, <1>14, <1>15, <1>16, <1>17, <1>18, <1>19, <1>20, <1>21,
       <1>22, <1>23, <1>24, <1>25, <1>26, <1>27, <1>28, <1>29, <1>30, <1>31,
       <1>32, <1>33, <1>34, <1>35 DEF Next, Session, Lists, Stat, Sample, Test

\* The list of events stays within the product's.
LEMMA EventStep ==
    ASSUME EventTypes, [Next]_vars
    PROVE  EventTypes'
<1> USE SizesAssumption DEF EventTypes, eventVars
<1>1. CASE wperf_close
    BY <1>1 DEF wperf_close
<1>2. CASE CollectEvents
    BY <1>2 DEF CollectEvents
<1>3. CASE wperf_list_events
    BY <1>3 DEF wperf_list_events
<1>4. CASE UNCHANGED eventVars
    BY <1>4
<1> QED
    BY <1>1, <1>2, <1>3, <1>4, EventsTouched

\* Moving on in the list of metrics keeps its length.
LEMMA MetricStep ==
    ASSUME MetricInv, [Next]_vars
    PROVE  MetricInv'
<1> USE DEF MetricInv, MetricTypes, metricVars
<1>1. CASE wperf_close
    BY <1>1 DEF wperf_close
<1>2. CASE CollectMetrics
    BY <1>2, SizesAssumption DEF CollectMetrics
<1>3. CASE wperf_list_metrics
  <2>1. /\ metrics_index \in Nat /\ metrics_index + 1 \in DOMAIN list_metrics
        /\ list_metrics[metrics_index + 1] \in ToSet(Metrics)
      BY <1>3 DEF wperf_list_metrics
  <2>2. CASE UNCHANGED list_metrics
    <3>1. /\ metrics_index' \in {metrics_index, metrics_index + 1}
          /\ metric_event_index' \in {metric_event_index + 1, 0, 1}
        BY <1>3 DEF wperf_list_metrics
    <3>2. metrics_index + 1 \in 0 .. Len(Metrics)
        BY <2>1, SizesAssumption
    <3> QED
        BY <2>2, <3>1, <3>2
  <2>3. ASSUME NEW next \in ToSet(Metrics), list_metrics' = [list_metrics EXCEPT ![metrics_index + 1] = next]
        PROVE  list_metrics' \in Seq(ToSet(Metrics)) /\ Len(list_metrics') = Len(list_metrics)
      BY <2>1, <2>3
  <2>4. CASE ~UNCHANGED list_metrics
    <3>1. /\ metrics_index' = metrics_index + 1 /\ metrics_index' < Len(list_metrics)
          /\ list_metrics' = [list_metrics EXCEPT ![metrics_index + 1] = list_metrics[metrics_index' + 1]]
          /\ metric_event_index' = 1
        BY <1>3, <2>1, <2>4 DEF wperf_list_metrics
    <3>2. list_metrics[metrics_index' + 1] \in ToSet(Metrics)
        BY <2>1, <3>1
    <3> QED
        BY <2>3, <3>1, <3>2
  <2> QED
      BY <2>2, <2>4
<1>4. CASE wperf_list_metricsEnds \/ UNCHANGED metricVars
    BY <1>4 DEF wperf_list_metricsEnds
<1> QED
    BY <1>1, <1>2, <1>3, <1>4, MetricsTouched

\* A timeline stops counting before there are more counts than there is room for.
LEMMA StatStep ==
    ASSUME StatInv, [Next]_vars
    PROVE  StatInv'
<1> USE DEF StatInv, StatTypes, statVars
<1>1. ASSUME NEW idx \in Counting \cup {<<>>} \cup {<<c>> : c \in Cores}, cores_idx' = idx,
             UNCHANGED statVars, ~InStat'
      PROVE  StatInv'
    BY <1>1
<1>2. ASSUME NEW idx \in Counting \cup {<<>>} \cup {<<c>> : c \in Cores}, cores_idx' = idx, StatClears,
             asked' \in Asked \/ (~InStat' /\ UNCHANGED asked)
      PROVE  StatInv'
    BY <1>2, SizesAssumption DEF StatClears, Nothing
<1>3. \A c \in Sampled : <<c>> \in {<<d>> : d \in Cores}
    BY SizesAssumption DEF Cores
<1>4. CASE InitRefused \/ InitFails \/ wperf_init
    BY <1>1, <1>4 DEF InitRefused, InitFails, wperf_init, CanInit, InStat
<1>5. CASE wperf_close
  <2>1. cores_idx' = <<>> /\ countings' = Nothing /\ ~InStat' /\ UNCHANGED <<core_index, stat_event_index, asked>>
      BY <1>5 DEF wperf_close, InStat
  <2> QED
      BY <2>1, SizesAssumption DEF Nothing
<1>6. ASSUME NEW cs \in Counting, StatFails(cs)
      PROVE  StatInv'
    BY <1>2, <1>6 DEF StatFails, CanCall, InStat
<1>7. ASSUME NEW cs \in Counting, NEW n \in Asked, NEW spawn \in BOOLEAN,
             NEW mode \in {"counting", "timeline"}, StatBegin(cs, n, spawn, mode)
      PROVE  StatInv'
    BY <1>2, <1>7 DEF StatBegin
<1>8. InStat => asked \in Nat
    BY SizesAssumption
<1>9. CASE StatRound
  <2>1. /\ InStat /\ asked' = asked /\ core_index' = core_index /\ stat_event_index' = stat_event_index
        /\ cores_idx' = cores_idx /\ \A c \in Cores : countings[c] + 2 * asked <= MaxCounts
      BY <1>9 DEF StatRound, InStat
  <2>2. ASSUME NEW c \in Cores
        PROVE  countings'[c] \in 0 .. MaxCounts /\ countings'[c] + asked <= MaxCounts
      BY <1>8, <1>9, <2>1, SizesAssumption DEF StatRound, StatReads
  <2>3. countings' \in [Cores -> 0 .. MaxCounts]
      BY <1>9, <2>2 DEF StatRound, StatReads
  <2> QED
      BY <2>1, <2>2, <2>3
<1>10. CASE StatEnd
  <2>1. InStat /\ ~InStat' /\ asked' = 0
      BY <1>10 DEF StatEnd, InStat
  <2>2. ASSUME NEW c \in Cores
        PROVE  countings'[c] \in 0 .. MaxCounts
      BY <1>8, <1>10, <2>1, SizesAssumption DEF StatEnd, StatReads
  <2>3. countings' \in [Cores -> 0 .. MaxCounts]
      BY <1>10, <2>2 DEF StatEnd, StatReads
  <2> QED
      BY <1>10, <2>1, <2>3 DEF StatEnd
<1>11. CASE wperf_stat
    BY <1>11 DEF wperf_stat, CanCall, StatYields, InStat
<1>12. ASSUME NEW c \in Sampled, SampleFails(c) \/ SampleUnnamed(c)
       PROVE  StatInv'
    BY <1>1, <1>3, <1>12 DEF SampleFails, SampleUnnamed, CanCall, InStat
<1>13. ASSUME NEW c \in Sampled, NEW spawn \in BOOLEAN, NEW mode \in {"sampling", "annotating"},
              SampleBegin(c, spawn, mode)
       PROVE  StatInv'
    BY <1>1, <1>3, <1>13 DEF SampleBegin, InStat
<1>14. CASE StatDenied \/ wperf_statEnds \/ (UNCHANGED <<cores_idx, statVars>> /\ (InStat' => InStat))
    BY <1>14 DEF StatDenied, wperf_statEnds, CanCall, InStat
<1> QED
    BY <1>4, <1>5, <1>6, <1>7, <1>9, <1>10, <1>11, <1>12, <1>13, <1>14, StatTouched

\* What a step does to the session it is made in.
LEMMA SessionTouched ==
    ASSUME [Next]_vars
    PROVE  \/ CanInit /\ ((pc' = pc /\ fresh' = fresh) \/ opened')
           \/ wperf_close
           \/ Exit
           \/ UNCHANGED <<opened, pc, fresh>>
           \/ UNCHANGED opened /\ (CanCall \/ InStat \/ InSample \/ pc = "testing")
<1> USE DEF eventVars, metricVars, statVars, sampleVars, annotateVars, testVars,
              listVars, deviceVars
<1>1. CASE Session \/ OthersTakeAndGive \/ OthersForce
    BY <1>1 DEF Session, InitRefused, InitFails, wperf_init, OthersTakeAndGive,
       OthersForce
<1>2. CASE Lists
    BY <1>2 DEF Lists, CollectEvents, wperf_list_events, CollectMetrics,
       wperf_list_metrics, wperf_list_metricsEnds
<1>3. CASE Stat
    BY <1>3 DEF Stat, StatFails, StatBegin, StatRound, StatEnd, StatDenied,
       wperf_stat, wperf_statEnds, StatYields
<1>4. CASE Sample
    BY <1>4 DEF Sample, SampleRejected, SampleFails, SampleUnnamed, SampleBegin,
       SampleEnd, SampleDenied, wperf_sample, wperf_sampleEnds,
       wperf_sample_annotate, wperf_sample_annotateEnds, SampleYields,
       AnnotateYields
<1>5. CASE Test
    BY <1>5 DEF Test, TestBegin, TestRefused, TestEnd, TestFails, wperf_test
<1>6. CASE UNCHANGED vars
    BY <1>6 DEF vars
<1> QED
    BY <1>1, <1>2, <1>3, <1>4, <1>5, <1>6 DEF Next

\* Only an open session collects, and what it has collected is still there.
LEMMA FreshStep ==
    ASSUME FreshInv, MetricInv, StatInv, [Next]_vars
    PROVE  FreshInv'
<1> DEFINE Opened   == ~opened => fresh = {} /\ pc \in {"idle", "exited"}
           Apart    == InStat => "stat" \notin fresh
           Named    == "metrics" \in fresh =>
                         /\ Len(list_metrics) = Len(Metrics)
                         /\ \A k \in DOMAIN Metrics : k > metrics_index => list_metrics[k] = Metrics[k]
           Counted  == "stat" \in fresh => \A k \in DOMAIN cores_idx : countings[cores_idx[k]] > 0
<1> USE DEF eventVars, metricVars, statVars, sampleVars, annotateVars, testVars,
              listVars, deviceVars
<1>1. Opened'
  <2>1. CASE CanInit /\ ((pc' = pc /\ fresh' = fresh) \/ opened')
      BY <2>1 DEF FreshInv, CanInit
  <2>2. CASE wperf_close
      BY <2>2 DEF wperf_close
  <2>3. CASE Exit
      BY <2>3 DEF Exit, FreshInv
  <2>4. CASE UNCHANGED <<opened, pc, fresh>>
      BY <2>4 DEF FreshInv
  <2>5. CASE UNCHANGED opened /\ (CanCall \/ InStat \/ InSample \/ pc = "testing")
      BY <2>5 DEF FreshInv, CanCall, InStat, InSample
  <2> QED
      BY <2>1, <2>2, <2>3, <2>4, <2>5, SessionTouched
<1>2. Named'
  <2>1. CASE wperf_close
      BY <2>1 DEF wperf_close
  <2>2. CASE CollectMetrics
      BY <2>2, SizesAssumption DEF CollectMetrics
  <2>3. CASE wperf_list_metrics
    <3>1. /\ fresh' = fresh /\ metrics_index \in Nat /\ metrics_index' \in {metrics_index, metrics_index + 1}
          /\ \/ list_metrics' = list_metrics
             \/ list_metrics' = [list_metrics EXCEPT ![metrics_index + 1] = list_metrics[metrics_index' + 1]]
                /\ metrics_index' = metrics_index + 1
        BY <2>3 DEF wperf_list_metrics, MetricInv, MetricTypes
    <3>2. \A k \in DOMAIN Metrics : k \in Nat
        BY SizesAssumption
    <3>3. list_metrics \in Seq(ToSet(Metrics)) /\ list_metrics' \in Seq(ToSet(Metrics))
        BY MetricStep DEF MetricInv
    <3>4. Len(list_metrics') = Len(list_metrics)
        BY <3>1, <3>3, LenProperties
    <3>5. ASSUME NEW k \in DOMAIN Metrics, k > metrics_index', "metrics" \in fresh
          PROVE  list_metrics'[k] = Metrics[k]
      <4>1. (k > metrics_index /\ k # metrics_index + 1) \/ (list_metrics' = list_metrics /\ k > metrics_index)
          BY <3>1, <3>2, <3>5
      <4>2. list_metrics'[k] = list_metrics[k]
        <5>1. k \in DOMAIN list_metrics
            BY <3>3, <3>5, SizesAssumption, LenProperties DEF FreshInv
        <5> QED
            BY <3>1, <4>1, <5>1
      <4> QED
          BY <3>5, <4>1, <4>2 DEF FreshInv
    <3> QED
        BY <3>1, <3>4, <3>5 DEF FreshInv
  <2>4. CASE wperf_list_metricsEnds \/ (UNCHANGED metricVars /\ ("metrics" \in fresh' <=> "metrics" \in fresh))
      BY <2>4 DEF wperf_list_metricsEnds, FreshInv
  <2> QED
      BY <2>1, <2>2, <2>3, <2>4, MetricsTouched
<1>3. Apart' /\ Counted'
  <2> USE DEF FreshInv
  <2>1. CASE InitRefused \/ InitFails \/ wperf_init
      BY <2>1 DEF InitRefused, InitFails, wperf_init, CanInit, InStat
  <2>2. CASE wperf_close
      BY <2>2 DEF wperf_close
  <2>3. CASE "stat" \notin fresh'
      BY <2>3
  <2>4. CASE StatEnd
    <3>1. ~InStat' /\ cores_idx' = cores_idx
        BY <2>4 DEF StatEnd, InStat
    <3>2. ASSUME NEW k \in DOMAIN cores_idx
          PROVE  countings'[cores_idx[k]] > 0
      <4>1. cores_idx[k] \in ToSet(cores_idx)
          BY DEF ToSet
      <4>2. cores_idx[k] \in Cores
        <5>1. CASE cores_idx \in Counting
            BY <4>1, <5>1 DEF Cores
        <5>2. CASE cores_idx \in {<<c>> : c \in Cores}
            BY <5>2
        <5> QED
            BY <5>1, <5>2 DEF StatInv, StatTypes
      <4>3. countings[cores_idx[k]] \in Nat
          BY <4>2 DEF StatInv, StatTypes
      <4>4. countings'[cores_idx[k]] = countings[cores_idx[k]] + asked
          BY <2>4, <4>1, <4>2 DEF StatEnd, StatReads
      <4>5. asked \in Nat /\ asked > 0
          BY <2>4, SizesAssumption DEF StatEnd, StatInv
      <4> QED
          BY <4>3, <4>4, <4>5
    <3> QED
        BY <3>1, <3>2
  <2>5. CASE StatRound
      BY <2>5 DEF StatRound, InStat
  <2>6. CASE wperf_stat \/ wperf_statEnds \/ StatDenied
      BY <2>6 DEF wperf_stat, wperf_statEnds, StatDenied, StatYields, CanCall,
         InStat
  <2>7. CASE UNCHANGED <<cores_idx, statVars>> /\ (InStat' => InStat) /\ ("stat" \in fresh' <=> "stat" \in fresh)
      BY <2>7
  <2> QED
      BY <2>1, <2>2, <2>3, <2>4, <2>5, <2>6, <2>7, StatTouched
      DEF StatFails, StatBegin, SampleFails, SampleUnnamed, SampleBegin, SampleOvertakes
<1> QED
    BY <1>1, <1>2, <1>3 DEF FreshInv

\* What is yielded of the samples, and what is read out of bounds of them.
LEMMA AnnotateStep ==
    ASSUME SampleTypes, AnnotateReadsInBounds, [Next]_vars
    PROVE  SampleTypes' /\ AnnotateReadsInBounds'
<1> USE DEF SampleTypes, AnnotateReadsInBounds, sampleVars, annotateVars
<1>1. CASE SampleClears /\ Quiet
    BY <1>1, AnswersAssumption DEF SampleClears, Quiet
<1>2. CASE wperf_close
    BY <1>2, AnswersAssumption DEF wperf_close, Quiet
<1>3. ASSUME NEW profile \in Profiles, SampleEnd(profile)
      PROVE  SampleTypes' /\ AnnotateReadsInBounds'
    BY <1>3 DEF SampleEnd, Says
<1>4. CASE wperf_sample
    BY <1>4, AnswersAssumption DEF wperf_sample, SampleYields, Says
<1>5. CASE wperf_sample_annotate
  <2>1. ASSUME NEW e \in DOMAIN samples, NEW k \in Nat, k = 0 \/ k < samples[e].lines, AnnotateYields(e, k)
        PROVE  annotate_index' \in Nat /\ AnnotateReadsInBounds'
    <3>1. samples \in Profiles /\ samples[e].hits > 0 /\ samples[e].lines \in Nat
        BY ProfilesAssumption
    <3>2. samples' = samples
        BY <1>5 DEF wperf_sample_annotate
    <3>3. CASE k < samples[e].lines
      <4>1. said'.item = <<samples[e].event, k + 1>> /\ k + 1 \in 1 .. samples[e].lines
          BY <2>1, <3>1, <3>3 DEF AnnotateYields, Says
      <4>2. said'.item # Garbage
          BY <3>1, <4>1, AnswersAssumption
      <4> QED
          BY <2>1, <4>2 DEF AnnotateYields
    <3>4. CASE samples[e].lines = 0
        BY <2>1, <3>1, <3>2, <3>4 DEF AnnotateYields
    <3> QED
        BY <2>1, <3>1, <3>3, <3>4
  <2>2. /\ samples' = samples /\ UNCHANGED <<sample_event_index, sample_index>>
        /\ annotate_event_index' \in {annotate_event_index, annotate_event_index + 1}
        /\ annotate_event_index < Len(samples)
      BY <1>5 DEF wperf_sample_annotate
  <2>3. \A e \in Nat : 0 < e /\ e <= Len(samples) => e \in DOMAIN samples /\ samples[e].lines \in Nat
      BY ProfilesAssumption
  <2>4. CASE annotate_index < samples[annotate_event_index + 1].lines
    <3>1. AnnotateYields(annotate_event_index + 1, annotate_index)
        BY <1>5, <2>4 DEF wperf_sample_annotate
    <3>2. annotate_event_index + 1 \in DOMAIN samples
        BY <2>2, <2>3
    <3> QED
        BY <2>1, <2>2, <2>4, <3>1, <3>2
  <2>5. CASE /\ ~(annotate_index < samples[annotate_event_index + 1].lines)
             /\ annotate_event_index' >= Len(samples)
      BY <1>5, <2>2, <2>5, AnswersAssumption DEF wperf_sample_annotate, Says
  <2>6. CASE /\ ~(annotate_index < samples[annotate_event_index + 1].lines)
             /\ ~(annotate_event_index' >= Len(samples))
    <3>1. annotate_event_index' = annotate_event_index + 1 /\ AnnotateYields(annotate_event_index' + 1, 0)
        BY <1>5, <2>6 DEF wperf_sample_annotate
    <3>2. annotate_event_index' + 1 \in DOMAIN samples
        BY <2>2, <2>3, <2>6, <3>1
    <3> QED
        BY <2>1, <2>2, <3>1, <3>2
  <2> QED
      BY <2>4, <2>5, <2>6
<1>6. CASE wperf_sample_annotateEnds
    BY <1>6, AnswersAssumption DEF wperf_sample_annotateEnds, Says
<1>7. CASE \/ wperf_sampleEnds
           \/ UNCHANGED <<sampleVars, annotateVars>> /\ (said' = said \/ said'.of # "annotate")
    BY <1>7 DEF wperf_sampleEnds, Says
<1> QED
    BY <1>1, <1>2, <1>3, <1>4, <1>5, <1>6, <1>7, SamplesTouched
    DEF SampleRejected, SampleFails, SampleUnnamed, SampleBegin

\* A call that begins to sample starts both lists over.
LEMMA SampleStep ==
    ASSUME SampleInv, AnnotateReadsInBounds, [Next]_vars
    PROVE  SampleInv' /\ AnnotateReadsInBounds'
<1> DEFINE Over == InSample => /\ {"sample", "annotate"} \cap fresh = {}
                               /\ sample_event_index = 0 /\ sample_index = 0
                               /\ annotate_event_index = 0 /\ annotate_index = 0
<1>1. SampleTypes' /\ AnnotateReadsInBounds'
    BY AnnotateStep DEF SampleInv
<1>2. CASE ~InSample'
    BY <1>1, <1>2 DEF SampleInv
<1>3. ASSUME NEW c \in Sampled, NEW spawn \in BOOLEAN, NEW mode \in {"sampling", "annotating"},
             SampleBegin(c, spawn, mode)
      PROVE  Over'
    BY <1>3 DEF SampleBegin, SampleClears, SampleOvertakes
<1>4. CASE /\ UNCHANGED <<sampleVars, annotateVars>> /\ (InSample' => InSample)
           /\ ("sample" \in fresh' <=> "sample" \in fresh) /\ ("annotate" \in fresh' <=> "annotate" \in fresh)
  <2>1. InSample => "sample" \notin fresh /\ "annotate" \notin fresh
      BY DEF SampleInv
  <2>2. Over'
      BY <1>4, <2>1 DEF SampleInv, sampleVars, annotateVars
  <2> QED
      BY <1>1, <2>2 DEF SampleInv
<1>5. CASE \/ wperf_close \/ SampleRejected
           \/ wperf_sample \/ wperf_sampleEnds \/ wperf_sample_annotate \/ wperf_sample_annotateEnds
  <2>1. ~InSample'
      BY <1>5 DEF wperf_close, SampleRejected, wperf_sample, wperf_sampleEnds, wperf_sample_annotate,
         wperf_sample_annotateEnds, CanCall, InSample
  <2> QED
      BY <1>2, <2>1
<1>6. ASSUME NEW c \in Sampled, SampleFails(c) \/ SampleUnnamed(c)
      PROVE  SampleInv' /\ AnnotateReadsInBounds'
  <2>1. ~InSample'
      BY <1>6 DEF SampleFails, SampleUnnamed, CanCall, InSample
  <2> QED
      BY <1>2, <2>1
<1>7. ASSUME NEW profile \in Profiles, SampleEnd(profile)
      PROVE  SampleInv' /\ AnnotateReadsInBounds'
  <2>1. ~InSample'
      BY <1>7 DEF SampleEnd, InSample
  <2> QED
      BY <1>2, <2>1
<1>8. Over' => SampleInv'
    BY <1>1 DEF SampleInv
<1> HIDE DEF Over
<1> QED
    BY <1>1, <1>3, <1>4, <1>5, <1>6, <1>7, <1>8, SamplesTouched

\* The list of wperf_test stays within its longest, and none is yielded of one
\* that is still being collected.
LEMMA TestStep ==
    ASSUME TestInv, [Next]_vars
    PROVE  TestInv'
<1> USE RowsBounded DEF TestInv, TestTypes, testVars
<1> HIDE DEF Max
<1>1. CASE wperf_close
    BY <1>1 DEF wperf_close
<1>2. CASE TestBegin
    BY <1>2 DEF TestBegin
<1>3. CASE TestRefused
    BY <1>3 DEF TestRefused
<1>4. CASE TestEnd
    BY <1>4 DEF TestEnd
<1>5. CASE TestFails
    BY <1>5 DEF TestFails
<1>6. CASE wperf_test
  <2>1. test_index' \in 0 .. Max(ToSet(TestRows))
      BY <1>6 DEF wperf_test
  <2> QED
      BY <1>6, <2>1 DEF wperf_test, CanCall
<1>7. CASE UNCHANGED testVars /\ ("test" \in fresh' <=> "test" \in fresh) /\ (pc' = "testing" => pc = "testing")
    BY <1>7
<1> QED
    BY <1>1, <1>2, <1>3, <1>4, <1>5, <1>6, <1>7, TestsTouched

-----------------------------------------------------------------------------
(* The theorems.                                                            *)

\* The inductive invariant.
LibInv == /\ SessionTypes /\ EventTypes /\ MetricInv /\ StatInv /\ SampleInv
          /\ SessionInv /\ ChildInv /\ TestInv /\ FreshInv /\ AnnotateReadsInBounds

\* A process starts with nothing collected, opened or locked.
LEMMA InitHolds == Init => LibInv
<1> SUFFICES ASSUME Init
             PROVE  LibInv
    OBVIOUS
<1>1. SessionTypes /\ SessionInv /\ ChildInv
    BY DEF Init, SessionTypes, SessionInv, ChildInv, Routines
<1>2. EventTypes /\ MetricInv
    BY SizesAssumption DEF Init, EventTypes, MetricInv, MetricTypes
<1>3. StatInv
    BY SizesAssumption DEF Init, StatInv, StatTypes, InStat, Nothing
<1>4. SampleInv /\ AnnotateReadsInBounds
    BY AnswersAssumption DEF Init, SampleInv, SampleTypes, InSample, AnnotateReadsInBounds
<1>5. TestInv /\ FreshInv
    BY RowsBounded DEF Init, TestInv, TestTypes, FreshInv, InStat
<1> QED
    BY <1>1, <1>2, <1>3, <1>4, <1>5 DEF LibInv

\* The invariant is inductive: no call in any order, and nothing other users of
\* the driver do in between, breaks it.
THEOREM Inductive == Spec => []LibInv
<1>1. LibInv /\ [Next]_vars => LibInv'
    BY SessionTyping, SessionStep, ChildStep, EventStep, MetricStep, StatStep,
       SampleStep, TestStep, FreshStep DEF LibInv
<1> QED
    BY <1>1, InitHolds, PTL DEF Spec

\* For any caller of either habit and whatever others do with the lock, an open
\* session has its configuration and a lock of its own, unless others forced it,
\* and wperf_close leaves neither behind. A caller that always closes has left
\* the lock to others at its exit, and one that closes only what was opened has
\* deleted nothing twice (~pmu_device, wperf-lib.cpp:110-115).
THEOREM SessionGivenBack == Spec => []SessionKept
<1>1. LibInv => SessionKept
    BY DEF LibInv, MetricInv, StatInv, SampleInv, TestInv, SessionInv, SessionKept, TypeOK,
       LockGivenBack, DeletedOnce
<1> QED
    BY <1>1, Inductive, PTL

\* For any calls, a process spawned by wperf_stat or wperf_sample has been ended
\* when the call returns, in their exception handlers too.
THEOREM ChildrenEnd == Spec => []ChildEndsWithCall
<1>1. LibInv => ChildEndsWithCall
    BY DEF LibInv, ChildInv, ChildEndsWithCall
<1> QED
    BY <1>1, Inductive, PTL

\* For any samples, wperf_sample_annotate only reads past the end of an event
\* whose hits have no line: stepping over one event, and not until the next one
\* with lines, is the only way to get there.
THEOREM AnnotateInBounds == Spec => []AnnotateReadsInBounds
<1>1. LibInv => AnnotateReadsInBounds
    BY DEF LibInv
<1> QED
    BY <1>1, Inductive, PTL

-----------------------------------------------------------------------------
(* Lists of lists.  What FlattenSeq computes is proved by induction, each   *)
(* time from the least number at which the claim would fail.                *)

\* "Less than" as the library's relations are, so that its facts apply.
LEMMA LessIsWellFounded ==
    \E R : IsWellFoundedOn(R, Nat) /\ \A x, y \in Nat : x < y => <<x, y>> \in R
<1> DEFINE R == OpToRel(<, Nat)
<1>1. \A x, y \in Nat : x < y => <<x, y>> \in R
    BY DEF OpToRel
<1>2. IsWellFoundedOn(R, Nat)
    BY NatLessThanWellFounded
<1> HIDE DEF R
<1> QED
    BY <1>1, <1>2

\* Induction: what does not hold of all numbers fails at a least one.
LEMMA LeastNumber ==
    ASSUME NEW T \in SUBSET Nat, T # {}
    PROVE  \E m \in T : \A k \in T : m <= k
<1>1. PICK R : IsWellFoundedOn(R, Nat) /\ \A x, y \in Nat : x < y => <<x, y>> \in R
    BY LessIsWellFounded
<1>2. IsWellFoundedOn(R, Nat) /\ T \subseteq Nat
    BY <1>1
<1>3. PICK m \in T : \A y \in T : ~(<<y, m>> \in R)
    BY <1>2, WFMin
<1>4. \A k \in T : ~(k < m)
    BY <1>1, <1>3
<1> QED
    BY <1>3, <1>4

\* f is what FlattenSeq builds, f[i] from the first i sequences of ss.
Flattens(f, ss, n) ==
  \A i \in 1 .. n : f[i] = IF i = 1 THEN ss[i] ELSE f[i-1] \o ss[i]

\* There is such a function, for any finite sequence of sequences.
LEMMA FlattenExists ==
    ASSUME NEW S, NEW ss \in Seq(Seq(S)), NEW n \in 0 .. Len(ss)
    PROVE  \E f \in [1 .. n -> Seq(S)] : Flattens(f, ss, n)
<1> DEFINE Built(m) == \E f \in [1 .. m -> Seq(S)] : Flattens(f, ss, m)
           Bad == {m \in Nat : m <= Len(ss) /\ ~Built(m)}
<1> HIDE DEF Built
<1>1. Len(ss) \in Nat
    BY LenProperties
<1>2. SUFFICES Built(n)
    BY DEF Built
<1>3. SUFFICES ASSUME Bad # {}
               PROVE  FALSE
    BY <1>1
<1>4. PICK m \in Bad : \A k \in Bad : m <= k
    BY <1>3, LeastNumber
<1>5. m # 0
  <2>1. [i \in 1 .. 0 |-> <<>>] \in [1 .. 0 -> Seq(S)]
      OBVIOUS
  <2>2. Flattens([i \in 1 .. 0 |-> <<>>], ss, 0)
      BY DEF Flattens
  <2> QED
      BY <1>4, <2>1, <2>2 DEF Built
<1>6. m - 1 \in Nat /\ m - 1 <= Len(ss) /\ m - 1 \notin Bad
    BY <1>1, <1>4, <1>5
<1>7. PICK g \in [1 .. (m - 1) -> Seq(S)] : Flattens(g, ss, m - 1)
    BY <1>6 DEF Built
<1> DEFINE f == [i \in 1 .. m |-> IF i = m THEN IF m = 1 THEN ss[m] ELSE g[m-1] \o ss[m] ELSE g[i]]
<1>8. m \in 1 .. Len(ss) /\ ss[m] \in Seq(S)
    BY <1>1, <1>4, <1>5, ElementOfSeq
<1>9. f \in [1 .. m -> Seq(S)]
  <2>1. ASSUME NEW i \in 1 .. m
        PROVE  f[i] \in Seq(S)
    <3>1. CASE i # m
        BY <3>1, <1>8
    <3>2. CASE i = m /\ m = 1
        BY <3>2, <1>8
    <3>3. CASE i = m /\ m # 1
      <4>1. g[m-1] \in Seq(S)
          BY <1>8, <3>3
      <4> QED
          BY <3>3, <1>8, <4>1, ConcatProperties
    <3> QED
        BY <3>1, <3>2, <3>3
  <2> QED
      BY <2>1
<1>10. Flattens(f, ss, m)
  <2>1. ASSUME NEW i \in 1 .. m
        PROVE  f[i] = IF i = 1 THEN ss[i] ELSE f[i-1] \o ss[i]
    <3>1. CASE i # m
      <4>1. i \in 1 .. (m - 1) /\ f[i] = g[i]
          BY <3>1, <1>8
      <4>2. i # 1 => i - 1 \in 1 .. m /\ i - 1 # m /\ f[i-1] = g[i-1]
          BY <4>1, <1>8
      <4> QED
          BY <1>7, <4>1, <4>2 DEF Flattens
    <3>2. CASE i = m
      <4>1. m # 1 => m - 1 \in 1 .. m /\ m - 1 # m /\ f[m-1] = g[m-1]
          BY <1>8
      <4> QED
          BY <3>2, <4>1, <1>8
    <3> QED
        BY <3>1, <3>2
  <2> HIDE DEF f
  <2> QED
      BY <2>1 DEF Flattens
<1> HIDE DEF f
<1> QED
    BY <1>4, <1>9, <1>10 DEF Built

\* All it has built on the way are sequences of the same elements.
LEMMA FlattenPieces ==
    ASSUME NEW S, NEW ss, NEW n \in Nat, NEW f, Flattens(f, ss, n),
           \A i \in 1 .. n : ss[i] \in Seq(S)
    PROVE  \A i \in 1 .. n : f[i] \in Seq(S)
<1> DEFINE Typed(m) == f[m] \in Seq(S)
           Bad == {m \in Nat : m \in 1 .. n /\ ~Typed(m)}
<1>1. \A s, t \in Seq(S) : s \o t \in Seq(S)
    BY ConcatProperties
<1>2. ASSUME NEW m \in 1 .. n, m # 1 => Typed(m - 1)
      PROVE  Typed(m)
  <2>1. f[m] = IF m = 1 THEN ss[m] ELSE f[m-1] \o ss[m]
      BY DEF Flattens
  <2> QED
      BY <1>1, <1>2, <2>1
<1> SUFFICES \A m \in 1 .. n : Typed(m)
    OBVIOUS
<1> HIDE DEF Typed
<1>3. SUFFICES ASSUME Bad # {}
               PROVE  FALSE
    OBVIOUS
<1>4. PICK m \in Bad : \A k \in Bad : m <= k
    BY <1>3, LeastNumber
<1>5. m # 1 => m - 1 \in 1 .. n /\ m - 1 \notin Bad
    BY <1>4
<1> QED
    BY <1>2, <1>4, <1>5

\* Each f is the one before, continued by a sequence of ts.
Chained(S, f, ts, n) == \A m \in 1 .. n : ts[m] \in Seq(S) /\ f[m + 1] = f[m] \o ts[m]

\* f builds what g does, behind its first sequence.
Ahead(f, g, n) == \A m \in 1 .. n : f[m + 1] = f[1] \o g[m]

\* Whether the first sequence is put in front early or late is the same.
LEMMA FlattenAhead ==
    ASSUME NEW S, NEW n \in Nat, NEW f, NEW g, NEW ts,
           f[1] \in Seq(S), Flattens(g, ts, n), Chained(S, f, ts, n)
    PROVE  Ahead(f, g, n)
<1> DEFINE Reached(m) == f[m + 1] = f[1] \o g[m]
           Bad == {m \in Nat : m \in 1 .. n /\ ~Reached(m)}
<1>1. \A b, c \in Seq(S) : (f[1] \o b) \o c = f[1] \o (b \o c)
  <2>1. PICK a \in Seq(S) : a = f[1]
      OBVIOUS
  <2>2. \A b, c \in Seq(S) : (a \o b) \o c = a \o (b \o c)
      BY ConcatAssociative
  <2> QED
      BY <2>1, <2>2
<1>2. \A m \in 1 .. n : g[m] \in Seq(S)
    BY FlattenPieces DEF Chained
<1>3. ASSUME NEW m \in 1 .. n, m # 1 => Reached(m - 1)
      PROVE  Reached(m)
  <2>1. /\ g[m] = IF m = 1 THEN ts[m] ELSE g[m-1] \o ts[m]
        /\ f[m + 1] = f[m] \o ts[m]
      BY DEF Flattens, Chained
  <2>2. CASE m = 1
      BY <2>1, <2>2
  <2>3. CASE m # 1
    <3>1. m - 1 \in 1 .. n /\ (m - 1) + 1 = m
        BY <2>3
    <3>2. f[m] = f[1] \o g[m-1] /\ g[m-1] \in Seq(S) /\ ts[m] \in Seq(S)
        BY <1>2, <1>3, <2>3, <3>1 DEF Chained
    <3> QED
        BY <1>1, <2>1, <2>3, <3>2
  <2> QED
      BY <2>2, <2>3
<1> SUFFICES \A m \in 1 .. n : Reached(m)
    BY DEF Ahead
<1> HIDE DEF Reached
<1>4. SUFFICES ASSUME Bad # {}
               PROVE  FALSE
    OBVIOUS
<1>5. PICK m \in Bad : \A k \in Bad : m <= k
    BY <1>4, LeastNumber
<1>6. m # 1 => m - 1 \in 1 .. n /\ m - 1 \notin Bad
    BY <1>5
<1> QED
    BY <1>3, <1>5, <1>6

\* FlattenSeq is the last of what such a function builds.
LEMMA FlattenIs ==
    ASSUME NEW S, NEW ss \in Seq(Seq(S)), ss # <<>>
    PROVE  \E f : /\ Flattens(f, ss, Len(ss)) /\ FlattenSeq(ss) = f[Len(ss)]
                  /\ \A i \in 1 .. Len(ss) : f[i] \in Seq(S)
<1> DEFINE n == Len(ss)
           IsFlat(f) == f = [i \in 1 .. n |-> IF i = 1 THEN ss[i] ELSE f[i-1] \o ss[i]]
           flat == CHOOSE f : IsFlat(f)
<1>1. n \in Nat /\ n # 0 /\ \A i \in 1 .. n : ss[i] \in Seq(S)
    BY EmptySeq, LenProperties, ElementOfSeq
<1>2. PICK f \in [1 .. n -> Seq(S)] : Flattens(f, ss, n)
    BY <1>1, FlattenExists, SMTT(30)
<1>3. IsFlat(f)
    BY <1>2 DEF Flattens
<1>4. IsFlat(flat)
    BY <1>3
<1>5. FlattenSeq(ss) = flat[n]
    BY <1>1 DEF FlattenSeq
<1>6. Flattens(flat, ss, n)
  <2> HIDE DEF flat
  <2> QED
      BY <1>4 DEF Flattens
<1> HIDE DEF flat
<1>7. \A i \in 1 .. n : flat[i] \in Seq(S)
    BY <1>1, <1>6, FlattenPieces
<1> QED
    BY <1>5, <1>6, <1>7

\* FlattenSeq can be unfolded at the first sequence.
LEMMA FlattenFromHead ==
    ASSUME NEW S, NEW ss \in Seq(Seq(S)), ss # <<>>
    PROVE  /\ ss[1] \in Seq(S)
           /\ FlattenSeq(Tail(ss)) \in Seq(S)
           /\ FlattenSeq(ss) = ss[1] \o FlattenSeq(Tail(ss))
<1> DEFINE n == Len(ss)
<1>1. PICK ts \in Seq(Seq(S)) : ts = Tail(ss)
    BY HeadTailProperties
<1>2. /\ n \in Nat /\ n # 0 /\ Len(ts) = n - 1
      /\ \A i \in 1 .. (n - 1) : ts[i] = ss[i + 1]
      /\ \A i \in 1 .. n : ss[i] \in Seq(S)
    BY <1>1, EmptySeq, LenProperties, HeadTailProperties, ElementOfSeq
<1>3. PICK f : /\ Flattens(f, ss, n) /\ FlattenSeq(ss) = f[n]
               /\ \A i \in 1 .. n : f[i] \in Seq(S)
    BY FlattenIs
<1>4. /\ ss[1] \in Seq(S) /\ f[1] = ss[1]
      /\ \A m \in 1 .. (n - 1) : ts[m] \in Seq(S) /\ f[m + 1] = f[m] \o ts[m]
  <2>1. ss[1] \in Seq(S) /\ f[1] = ss[1]
      BY <1>2, <1>3 DEF Flattens
  <2>2. ASSUME NEW m \in 1 .. (n - 1)
        PROVE  ts[m] \in Seq(S) /\ f[m + 1] = f[m] \o ts[m]
    <3>1. m + 1 \in 1 .. n /\ m + 1 # 1 /\ (m + 1) - 1 = m /\ ts[m] = ss[m + 1]
        BY <1>2
    <3>2. f[m + 1] = IF m + 1 = 1 THEN ss[m + 1] ELSE f[(m + 1) - 1] \o ss[m + 1]
        BY <1>3, <3>1 DEF Flattens
    <3> QED
        BY <1>2, <3>1, <3>2
  <2> QED
      BY <2>1, <2>2
<1>5. CASE n = 1
  <2>1. ts = <<>> /\ FlattenSeq(<<>>) = <<>>
      BY <1>2, <1>5, EmptySeq DEF FlattenSeq
  <2>2. ss[1] \o <<>> = ss[1] /\ <<>> \in Seq(S)
      BY <1>4, ConcatEmptySeq, EmptySeq
  <2> QED
      BY <1>1, <1>3, <1>4, <1>5, <2>1, <2>2
<1>6. CASE n # 1
  <2>1. PICK k \in Nat : k = n - 1 /\ k \in 1 .. k /\ k + 1 = n /\ k = Len(ts) /\ ts # <<>>
      BY <1>2, <1>6, EmptySeq
  <2>2. PICK g : /\ Flattens(g, ts, Len(ts)) /\ FlattenSeq(ts) = g[Len(ts)]
                 /\ \A i \in 1 .. Len(ts) : g[i] \in Seq(S)
      BY <2>1, FlattenIs
  <2>3. k \in Nat /\ f[1] \in Seq(S) /\ Flattens(g, ts, k) /\ Chained(S, f, ts, k)
      BY <1>4, <2>1, <2>2 DEF Chained
  <2>4. Ahead(f, g, k)
      BY <2>3, FlattenAhead
  <2>5. f[n] = ss[1] \o g[k] /\ g[k] \in Seq(S) /\ FlattenSeq(ts) = g[k]
      BY <1>4, <2>1, <2>2, <2>4 DEF Ahead
  <2> QED
      BY <1>1, <1>3, <1>4, <2>5
<1> QED
    BY <1>5, <1>6
\* The head and the tail of two sequences in a row are those of the first.
LEMMA HeadTailOfConcat ==
    ASSUME NEW S, NEW s \in Seq(S), NEW t \in Seq(S), s # <<>>
    PROVE  s \o t # <<>> /\ Head(s \o t) = Head(s) /\ Tail(s \o t) = Tail(s) \o t
<1>1. /\ Len(s) \in Nat /\ Len(s) # 0 /\ Len(t) \in Nat
      /\ Tail(s) \in Seq(S) /\ Len(Tail(s)) = Len(s) - 1
      /\ \A i \in 1 .. Len(Tail(s)) : Tail(s)[i] = s[i + 1]
    BY EmptySeq, LenProperties, HeadTailProperties
<1>2. /\ s \o t \in Seq(S) /\ Len(s \o t) = Len(s) + Len(t)
      /\ \A i \in 1 .. Len(s) + Len(t) : (s \o t)[i] = IF i <= Len(s) THEN s[i] ELSE t[i - Len(s)]
    BY ConcatProperties
<1>3. PICK u \in Seq(S) : u = s \o t
    BY <1>2
<1>4. u # <<>> /\ Head(u) = s[1] /\ Head(s) = s[1]
    BY <1>1, <1>2, <1>3, EmptySeq
<1>5. /\ Tail(u) \in Seq(S) /\ Len(Tail(u)) = Len(s) + Len(t) - 1
      /\ \A i \in 1 .. Len(Tail(u)) : Tail(u)[i] = u[i + 1]
    BY <1>2, <1>3, <1>4, HeadTailProperties
<1>6. PICK v \in Seq(S) : /\ v = Tail(s) \o t
                          /\ Len(v) = Len(s) - 1 + Len(t)
                          /\ \A i \in 1 .. Len(s) - 1 + Len(t) :
                               v[i] = IF i <= Len(s) - 1 THEN Tail(s)[i] ELSE t[i - (Len(s) - 1)]
  <2>1. PICK w \in Seq(S) : w = Tail(s) /\ Len(w) = Len(s) - 1
      BY <1>1
  <2>2. /\ w \o t \in Seq(S) /\ Len(w \o t) = Len(w) + Len(t)
        /\ \A i \in 1 .. Len(w) + Len(t) : (w \o t)[i] = IF i <= Len(w) THEN w[i] ELSE t[i - Len(w)]
      BY ConcatProperties
  <2>3. PICK x \in Seq(S) : x = w \o t
      BY <2>2
  <2>4. x = Tail(s) \o t
      BY <2>1, <2>3
  <2>5. /\ Len(x) = Len(s) - 1 + Len(t)
        /\ \A i \in 1 .. Len(s) - 1 + Len(t) :
             x[i] = IF i <= Len(s) - 1 THEN w[i] ELSE t[i - (Len(s) - 1)]
      BY <2>1, <2>2, <2>3
  <2> QED
      BY <2>1, <2>4, <2>5
<1>7. \A i \in 1 .. Len(Tail(u)) : Tail(u)[i] = v[i]
  <2>1. ASSUME NEW i \in 1 .. Len(Tail(u))
        PROVE  Tail(u)[i] = v[i]
    <3>1. Tail(u)[i] = IF i + 1 <= Len(s) THEN s[i + 1] ELSE t[i + 1 - Len(s)]
        BY <1>1, <1>2, <1>3, <1>5
    <3>2. i \in 1 .. Len(s) - 1 + Len(t)
        BY <1>1, <1>5
    <3>3. v[i] = IF i <= Len(s) - 1 THEN Tail(s)[i] ELSE t[i - (Len(s) - 1)]
        BY <1>6, <3>2
    <3>4. i <= Len(s) - 1 => Tail(s)[i] = s[i + 1]
        BY <1>1, <3>2
    <3>5. i - (Len(s) - 1) = i + 1 - Len(s) /\ (i <= Len(s) - 1 <=> i + 1 <= Len(s))
        BY <1>1, <3>2
    <3> QED
        BY <3>1, <3>3, <3>4, <3>5
  <2> QED
      BY <2>1
<1>8. Tail(u) \in Seq(S) /\ v \in Seq(S) /\ Len(Tail(u)) = Len(v)
    BY <1>1, <1>5, <1>6
<1>9. Tail(u) = v
    BY <1>7, <1>8, SeqEqual
<1> QED
    BY <1>3, <1>4, <1>6, <1>9

\* What is left of one part, each element under the name of the part.
LEMMA TaggedIsTaken ==
    ASSUME NEW S, NEW tag \in S, NEW n \in Nat, NEW i \in Nat
    PROVE  /\ Tagged(tag, Rest(n, i)) \in Seq(S \X Nat)
           /\ i < n => /\ Tagged(tag, Rest(n, i)) # <<>>
                       /\ Head(Tagged(tag, Rest(n, i))) = <<tag, i + 1>>
                       /\ Tail(Tagged(tag, Rest(n, i))) = Tagged(tag, Rest(n, i + 1))
           /\ ~(i < n) => Tagged(tag, Rest(n, i)) = <<>>
<1> DEFINE T == S \X Nat
           Numbered(j, len) == [k \in 1 .. len |-> <<tag, j + k>>]
<1>1. ASSUME NEW j \in Nat
      PROVE  Tagged(tag, Rest(n, j)) = Numbered(j, IF n > j THEN n - j ELSE 0)
    BY DEF Tagged, Rest
<1>2. ASSUME NEW j \in Nat, NEW len \in Nat
      PROVE  /\ Numbered(j, len) \in Seq(T) /\ Len(Numbered(j, len)) = len
             /\ \A k \in 1 .. len : Numbered(j, len)[k] = <<tag, j + k>>
  <2>1. \A k \in 1 .. len : <<tag, j + k>> \in T
      OBVIOUS
  <2> HIDE DEF T
  <2> QED
      BY <2>1
<1> HIDE DEF T, Numbered
<1>3. ASSUME i < n
      PROVE  /\ Tagged(tag, Rest(n, i)) # <<>>
             /\ Head(Tagged(tag, Rest(n, i))) = <<tag, i + 1>>
             /\ Tail(Tagged(tag, Rest(n, i))) = Tagged(tag, Rest(n, i + 1))
  <2>1. PICK len \in Nat : len = n - i /\ len - 1 \in Nat
      BY <1>3
  <2>2. PICK s \in Seq(T) : /\ s = Numbered(i, len) /\ Len(s) = len
                            /\ \A k \in 1 .. len : s[k] = <<tag, i + k>>
      BY <1>2
  <2>3. PICK t \in Seq(T) : /\ t = Numbered(i + 1, len - 1) /\ Len(t) = len - 1
                            /\ \A k \in 1 .. (len - 1) : t[k] = <<tag, i + 1 + k>>
    <3>1. PICK j \in Nat, l \in Nat : j = i + 1 /\ l = len - 1
        BY <2>1
    <3>2. /\ Numbered(j, l) \in Seq(T) /\ Len(Numbered(j, l)) = l
          /\ \A k \in 1 .. l : Numbered(j, l)[k] = <<tag, j + k>>
        BY <1>2
    <3> QED
        BY <3>1, <3>2
  <2>4. Tagged(tag, Rest(n, i)) = s /\ Tagged(tag, Rest(n, i + 1)) = t
      BY <1>1, <1>3, <2>1, <2>2, <2>3
  <2>5. s # <<>> /\ Head(s) = <<tag, i + 1>>
      BY <2>1, <2>2, EmptySeq
  <2>6. /\ Tail(s) \in Seq(T) /\ Len(Tail(s)) = len - 1
        /\ \A k \in 1 .. (len - 1) : Tail(s)[k] = s[k + 1]
      BY <2>2, <2>5, HeadTailProperties
  <2>7. \A k \in 1 .. (len - 1) : Tail(s)[k] = t[k]
    <3>1. ASSUME NEW k \in 1 .. (len - 1)
          PROVE  Tail(s)[k] = t[k]
      <4>1. k + 1 \in 1 .. len /\ i + (k + 1) = i + 1 + k
          BY <2>1
      <4> QED
          BY <2>2, <2>3, <2>6, <4>1
    <3> QED
        BY <3>1
  <2>8. Tail(s) = t
      BY <2>3, <2>6, <2>7, SeqEqual
  <2> QED
      BY <2>4, <2>5, <2>8
<1>4. Tagged(tag, Rest(n, i)) \in Seq(T) /\ (~(i < n) => Tagged(tag, Rest(n, i)) = <<>>)
  <2>1. (IF n > i THEN n - i ELSE 0) \in Nat
      OBVIOUS
  <2>2. PICK len \in Nat : len = IF n > i THEN n - i ELSE 0
      BY <2>1
  <2>3. Numbered(i, len) \in Seq(T) /\ Len(Numbered(i, len)) = len
      BY <1>2
  <2> QED
      BY <1>1, <2>2, <2>3, EmptySeq
<1> QED
    BY <1>3, <1>4 DEF T

\* Parts of a list: a name each, and how many elements it has.
Parts(S) == Seq([tag : S, size : Nat])

\* The fields of parts.
LEMMA PartTypes ==
    ASSUME NEW S, NEW parts \in Parts(S)
    PROVE  Len(parts) \in Nat /\ \A k \in 1 .. Len(parts) : parts[k].tag \in S /\ parts[k].size \in Nat
<1> DEFINE R == [tag : S, size : Nat]
<1>1. parts \in Seq(R) /\ \A part \in R : part.tag \in S /\ part.size \in Nat
    BY DEF Parts
<1> HIDE DEF R
<1>2. Len(parts) \in Nat /\ \A k \in 1 .. Len(parts) : parts[k] \in R
    BY <1>1, LenProperties, ElementOfSeq
<1> QED
    BY <1>1, <1>2

\* What is left from within a part is the rest of it, and all later parts.
LEMMA LeftFromPart ==
    ASSUME NEW S, NEW parts \in Parts(S), NEW p \in Nat, NEW i \in Nat
    PROVE  /\ p >= Len(parts) => Left(parts, p, i) = <<>>
           /\ p < Len(parts) =>
                /\ Left(parts, p + 1, 0) \in Seq(S \X Nat)
                /\ Left(parts, p, i) = Tagged(parts[p + 1].tag, Rest(parts[p + 1].size, i)) \o Left(parts, p + 1, 0)
<1> DEFINE Piece(q, j, k) == Tagged(parts[q + k].tag, Rest(parts[q + k].size, IF k = 1 THEN j ELSE 0))
           Pieces(q, j, len) == [k \in 1 .. len |-> Piece(q, j, k)]
           T == S \X Nat
<1>1. Len(parts) \in Nat /\ \A k \in 1 .. Len(parts) : parts[k].tag \in S /\ parts[k].size \in Nat
    BY PartTypes
<1>2. ASSUME NEW q \in Nat, NEW j \in Nat
      PROVE  Left(parts, q, j) = FlattenSeq(Pieces(q, j, IF Len(parts) > q THEN Len(parts) - q ELSE 0))
    BY DEF Left
<1>3. ASSUME NEW q \in Nat, NEW j \in Nat, NEW len \in Nat, q + len <= Len(parts)
      PROVE  /\ Pieces(q, j, len) \in Seq(Seq(T)) /\ Len(Pieces(q, j, len)) = len
             /\ \A k \in 1 .. len : Pieces(q, j, len)[k] = Piece(q, j, k)
  <2>1. ASSUME NEW k \in 1 .. len
        PROVE  Piece(q, j, k) \in Seq(T)
    <3>1. q + k \in 1 .. Len(parts)
        BY <1>1, <1>3
    <3>2. parts[q + k].tag \in S /\ parts[q + k].size \in Nat /\ (IF k = 1 THEN j ELSE 0) \in Nat
        BY <1>1, <3>1
    <3> QED
        BY <3>2, TaggedIsTaken
  <2> HIDE DEF T, Piece
  <2> QED
      BY <2>1
<1> HIDE DEF T, Pieces, Piece
<1>4. CASE p >= Len(parts)
  <2>1. (IF Len(parts) > p THEN Len(parts) - p ELSE 0) = 0
      BY <1>1, <1>4
  <2>2. Left(parts, p, i) = FlattenSeq(Pieces(p, i, 0))
      BY <1>2, <2>1
  <2>3. Pieces(p, i, 0) = <<>>
      BY DEF Pieces
  <2> QED
      BY <1>1, <1>4, <2>2, <2>3, EmptySeq DEF FlattenSeq
<1>5. CASE p < Len(parts)
  <2>1. PICK len \in Nat : /\ len = Len(parts) - p /\ len # 0 /\ len - 1 \in Nat /\ p + 1 \in Nat
                           /\ p + len <= Len(parts) /\ p + 1 + (len - 1) <= Len(parts)
      BY <1>1, <1>5
  <2>2. PICK ss \in Seq(Seq(T)) : /\ ss = Pieces(p, i, len) /\ Len(ss) = len
                                  /\ \A k \in 1 .. len : ss[k] = Piece(p, i, k)
    <3>1. /\ Pieces(p, i, len) \in Seq(Seq(T)) /\ Len(Pieces(p, i, len)) = len
          /\ \A k \in 1 .. len : Pieces(p, i, len)[k] = Piece(p, i, k)
        BY <1>3, <2>1
    <3> QED
        BY <3>1
  <2>3. PICK ts \in Seq(Seq(T)) : /\ ts = Pieces(p + 1, 0, len - 1) /\ Len(ts) = len - 1
                                  /\ \A k \in 1 .. (len - 1) : ts[k] = Piece(p + 1, 0, k)
    <3>1. PICK q \in Nat, l \in Nat, j \in Nat : q = p + 1 /\ l = len - 1 /\ j = 0
        BY <2>1
    <3>2. q + l <= Len(parts)
        BY <2>1, <3>1
    <3>3. /\ Pieces(q, j, l) \in Seq(Seq(T)) /\ Len(Pieces(q, j, l)) = l
          /\ \A k \in 1 .. l : Pieces(q, j, l)[k] = Piece(q, j, k)
        BY <1>3, <3>2
    <3> QED
        BY <3>1, <3>3
  <2>4. ss # <<>>
      BY <2>1, <2>2, EmptySeq
  <2>5. /\ Tail(ss) \in Seq(Seq(T)) /\ Len(Tail(ss)) = len - 1
        /\ \A k \in 1 .. (len - 1) : Tail(ss)[k] = ss[k + 1]
      BY <2>2, <2>4, HeadTailProperties
  <2>6. \A k \in 1 .. (len - 1) : Tail(ss)[k] = ts[k]
    <3>1. ASSUME NEW k \in 1 .. (len - 1)
          PROVE  Tail(ss)[k] = ts[k]
      <4>1. k + 1 \in 1 .. len /\ p + (k + 1) = p + 1 + k /\ k + 1 # 1
          BY <2>1
      <4>2. Piece(p, i, k + 1) = Piece(p + 1, 0, k)
          BY <4>1 DEF Piece
      <4> QED
          BY <2>2, <2>3, <2>5, <4>1, <4>2
    <3> QED
        BY <3>1
  <2>7. Tail(ss) = ts
    <3> DEFINE TT == Seq(T)
    <3>1. Tail(ss) \in Seq(TT) /\ ts \in Seq(TT) /\ Len(Tail(ss)) = Len(ts)
          /\ \A k \in 1 .. Len(Tail(ss)) : Tail(ss)[k] = ts[k]
        BY <2>3, <2>5, <2>6
    <3> HIDE DEF TT
    <3> QED
        BY <3>1, SeqEqual
  <2>8. Left(parts, p, i) = FlattenSeq(ss)
      BY <1>1, <1>2, <1>5, <2>1, <2>2
  <2>9. Left(parts, p + 1, 0) = FlattenSeq(ts)
      BY <1>1, <1>2, <2>1, <2>3
  <2>10. ss[1] = Tagged(parts[p + 1].tag, Rest(parts[p + 1].size, i))
      BY <2>1, <2>2 DEF Piece
  <2>11. FlattenSeq(ts) \in Seq(T) /\ FlattenSeq(ss) = ss[1] \o FlattenSeq(ts)
      BY <2>4, <2>7, FlattenFromHead
  <2> QED
      BY <1>1, <1>5, <2>8, <2>9, <2>10, <2>11, SMTT(30) DEF T
<1> QED
    BY <1>1, <1>4, <1>5

\* What yielding does to a list of parts: it takes the head while the part it is
\* in has elements, and goes on to the next part when it has not.
LEMMA LeftIsTaken ==
    ASSUME NEW S, NEW parts \in Parts(S), NEW p \in Nat, NEW i \in Nat
    PROVE  /\ Left(parts, p, i) \in Seq(S \X Nat)
           /\ p >= Len(parts) => Left(parts, p, i) = <<>>
           /\ p < Len(parts) /\ i < parts[p + 1].size =>
                /\ Left(parts, p, i) # <<>>
                /\ Head(Left(parts, p, i)) = <<parts[p + 1].tag, i + 1>>
                /\ Tail(Left(parts, p, i)) = Left(parts, p, i + 1)
           /\ p < Len(parts) /\ ~(i < parts[p + 1].size) =>
                Left(parts, p, i) = Left(parts, p + 1, 0)
<1> DEFINE T == S \X Nat
<1>1. Len(parts) \in Nat /\ \A k \in 1 .. Len(parts) : parts[k].tag \in S /\ parts[k].size \in Nat
    BY PartTypes
<1>2. CASE p >= Len(parts)
  <2>1. Left(parts, p, i) = <<>>
      BY <1>2, LeftFromPart
  <2>2. ~(p < Len(parts)) /\ <<>> \in Seq(T)
      BY <1>1, <1>2, EmptySeq
  <2> QED
      BY <2>1, <2>2
<1>3. CASE p < Len(parts)
  <2>1. PICK tag \in S, n \in Nat : tag = parts[p + 1].tag /\ n = parts[p + 1].size
    <3>1. p + 1 \in 1 .. Len(parts)
        BY <1>1, <1>3
    <3> QED
        BY <1>1, <3>1
  <2>2. PICK rest \in Seq(T) : rest = Left(parts, p + 1, 0)
      BY <1>3, LeftFromPart
  <2>3. ASSUME NEW j \in Nat
        PROVE  Left(parts, p, j) = Tagged(tag, Rest(n, j)) \o rest
      BY <1>3, <2>1, <2>2, LeftFromPart
  <2>4. PICK s \in Seq(T) : s = Tagged(tag, Rest(n, i))
      BY TaggedIsTaken
  <2>5. /\ i < n => s # <<>> /\ Head(s) = <<tag, i + 1>> /\ Tail(s) = Tagged(tag, Rest(n, i + 1))
        /\ ~(i < n) => s = <<>>
    <3>1. /\ i < n => /\ Tagged(tag, Rest(n, i)) # <<>>
                      /\ Head(Tagged(tag, Rest(n, i))) = <<tag, i + 1>>
                      /\ Tail(Tagged(tag, Rest(n, i))) = Tagged(tag, Rest(n, i + 1))
          /\ ~(i < n) => Tagged(tag, Rest(n, i)) = <<>>
        BY TaggedIsTaken
    <3> QED
        BY <2>4, <3>1
  <2>6. Left(parts, p, i) = s \o rest
      BY <2>3, <2>4
  <2> HIDE DEF T
  <2>7. s \o rest \in Seq(T) /\ <<>> \o rest = rest
      BY ConcatProperties, ConcatEmptySeq
  <2>8. CASE i < n
    <3>1. s \o rest # <<>> /\ Head(s \o rest) = Head(s) /\ Tail(s \o rest) = Tail(s) \o rest
        BY <2>5, <2>8, HeadTailOfConcat
    <3>2. PICK j \in Nat : j = i + 1
        OBVIOUS
    <3>3. Left(parts, p, j) = Tagged(tag, Rest(n, j)) \o rest
        BY <2>3
    <3>4. Tail(s \o rest) = Left(parts, p, i + 1)
        BY <2>5, <2>8, <3>1, <3>2, <3>3
    <3> DEFINE left == s \o rest
    <3>5. left \in Seq(T) /\ left # <<>> /\ Head(left) = <<tag, i + 1>> /\ Tail(left) = Left(parts, p, i + 1)
        BY <2>5, <2>7, <2>8, <3>1, <3>4
    <3>6. Left(parts, p, i) = left
        BY <2>6
    <3> HIDE DEF left
    <3> QED
        BY <1>1, <1>3, <2>1, <2>8, <3>5, <3>6 DEF T
  <2>9. CASE ~(i < n)
    <3>1. Left(parts, p, i) = rest
        BY <2>5, <2>6, <2>7, <2>9
    <3> QED
        BY <1>1, <1>3, <2>1, <2>2, <2>9, <3>1 DEF T
  <2> QED
      BY <2>8, <2>9
<1> QED
    BY <1>1, <1>2, <1>3, SMTT(30)
\* A yielding call, from part p, position i, to part q, position j: it yields
\* from the part it is in, or else from the start of the next one, which is
\* never empty; behind the last part it says there is no more.
Walks(parts, p, i, q, j, item) ==
  \/ /\ p < Len(parts) /\ i < parts[p + 1].size
     /\ q = p /\ j = i + 1 /\ item = <<parts[p + 1].tag, i + 1>>
  \/ /\ p < Len(parts) /\ ~(i < parts[p + 1].size) /\ p + 1 < Len(parts)
     /\ q = p + 1 /\ j = 1 /\ item = <<parts[p + 2].tag, 1>>
  \/ /\ p < Len(parts) /\ ~(i < parts[p + 1].size) /\ ~(p + 1 < Len(parts))
     /\ q = p + 1 /\ j = 0 /\ item = End
  \/ /\ p >= Len(parts)
     /\ q = p /\ j = i /\ item = End

\* A call that walks so is one step of the generator.
LEMMA WalkYields ==
    ASSUME NEW S, NEW parts \in Parts(S), NEW p \in Nat, NEW i \in Nat, NEW q, NEW j, NEW item,
           Walks(parts, p, i, q, j, item), \A k \in 1 .. Len(parts) : parts[k].size > 0
    PROVE  \/ /\ Left(parts, p, i) # <<>> /\ item = Head(Left(parts, p, i))
              /\ Left(parts, q, j) = Tail(Left(parts, p, i))
           \/ /\ Left(parts, p, i) = <<>> /\ item = End
              /\ Left(parts, q, j) = Left(parts, p, i)
<1>1. Len(parts) \in Nat
    BY PartTypes
<1>2. CASE /\ p < Len(parts) /\ i < parts[p + 1].size
           /\ q = p /\ j = i + 1 /\ item = <<parts[p + 1].tag, i + 1>>
    BY <1>2, LeftIsTaken
<1>3. CASE /\ p < Len(parts) /\ ~(i < parts[p + 1].size) /\ p + 1 < Len(parts)
           /\ q = p + 1 /\ j = 1 /\ item = <<parts[p + 2].tag, 1>>
  <2>1. PICK r \in Nat, z \in Nat : r = p + 1 /\ z = 0 /\ r < Len(parts) /\ z < parts[r + 1].size
    <3>1. p + 2 \in 1 .. Len(parts) /\ (p + 1) + 1 = p + 2
        BY <1>1, <1>3
    <3> QED
        BY <1>3, <3>1
  <2>2. /\ Left(parts, r, z) # <<>> /\ Head(Left(parts, r, z)) = <<parts[r + 1].tag, z + 1>>
        /\ Tail(Left(parts, r, z)) = Left(parts, r, z + 1)
      BY <2>1, LeftIsTaken
  <2>3. Left(parts, p, i) = Left(parts, p + 1, 0)
      BY <1>3, LeftIsTaken
  <2>4. r + 1 = p + 2 /\ z + 1 = 1
      BY <2>1
  <2> QED
      BY <1>3, <2>1, <2>2, <2>3, <2>4
<1>4. CASE /\ p < Len(parts) /\ ~(i < parts[p + 1].size) /\ ~(p + 1 < Len(parts))
           /\ q = p + 1 /\ j = 0 /\ item = End
  <2>1. PICK r \in Nat, z \in Nat : r = p + 1 /\ z = 0 /\ r >= Len(parts)
      BY <1>1, <1>4
  <2>2. Left(parts, r, z) = <<>>
      BY <2>1, LeftIsTaken
  <2>3. Left(parts, p, i) = Left(parts, p + 1, 0)
      BY <1>4, LeftIsTaken
  <2> QED
      BY <1>4, <2>1, <2>2, <2>3
<1>5. CASE p >= Len(parts) /\ q = p /\ j = i /\ item = End
    BY <1>5, LeftIsTaken
<1> QED
    BY <1>2, <1>3, <1>4, <1>5 DEF Walks

-----------------------------------------------------------------------------
(* The lists implement the Generator.                                       *)

\* What is left of a list is a sequence of numbers; yielding takes its head.
LEMMA RestIsTaken ==
    ASSUME NEW n \in Nat, NEW i \in Nat
    PROVE  /\ Rest(n, i) \in Seq(Nat) /\ Rest(n, i) # Unknown
           /\ i < n => /\ Rest(n, i) # << >>
                       /\ Head(Rest(n, i)) = i + 1
                       /\ Tail(Rest(n, i)) = Rest(n, i + 1)
           /\ ~(i < n) => Rest(n, i) = << >>
<1> DEFINE len == IF n > i THEN n - i ELSE 0
<1>1. len \in Nat /\ Rest(n, i) = [k \in 1 .. len |-> i + k]
    BY DEF Rest
<1>2. \A k \in 1 .. len : i + k \in Nat
    BY <1>1
<1>3. /\ Rest(n, i) \in Seq(Nat) /\ Len(Rest(n, i)) = len
      /\ \A k \in 1 .. len : Rest(n, i)[k] = i + k
  <2> HIDE DEF len
  <2> QED
      BY <1>1, <1>2
<1>4. Rest(n, i) # Unknown
    BY <1>3, AnswersAssumption
<1>5. ASSUME i < n
      PROVE  Rest(n, i) # << >> /\ Head(Rest(n, i)) = i + 1 /\ Tail(Rest(n, i)) = Rest(n, i + 1)
  <2>1. len = n - i /\ 1 \in 1 .. len
      BY <1>5
  <2>2. Rest(n, i) # << >> /\ Head(Rest(n, i)) = i + 1
      BY <1>3, <2>1
  <2>3. Rest(n, i + 1) = [k \in 1 .. (len - 1) |-> i + 1 + k]
      BY <2>1 DEF Rest
  <2>4. /\ Tail(Rest(n, i)) \in Seq(Nat) /\ Len(Tail(Rest(n, i))) = len - 1
        /\ \A k \in 1 .. (len - 1) : Tail(Rest(n, i))[k] = Rest(n, i)[k + 1]
      BY <1>3, <2>2, HeadTailProperties
  <2>5. Tail(Rest(n, i)) = [k \in 1 .. (len - 1) |-> i + 1 + k]
    <3>1. \A k \in 1 .. (len - 1) : Tail(Rest(n, i))[k] = i + 1 + k
        BY <1>3, <2>1, <2>4
    <3> QED
        BY <2>4, <3>1, LenProperties
  <2> QED
      BY <2>2, <2>3, <2>5
<1>6. ~(i < n) => Rest(n, i) = << >>
    BY <1>3
<1> QED
    BY <1>3, <1>4, <1>5, <1>6

\* A step of the session is one of the list of events as the Generator has it.
LEMMA EventsRefined ==
    ASSUME EventTypes, [Next]_vars
    PROVE  [EventList!Next]_(EventList!vars)
<1> USE ElsewhereApart, CollectedApart DEF Routines, EventList!Next, EventList!vars,
              EventList!Collect,
              EventList!Lose, EventList!Yield,
                           EventList!NoMore, EventList!Other, IfFresh, Answer, Says, Quiet, eventVars
<1>1. CASE wperf_close
    BY <1>1 DEF wperf_close
<1>2. CASE CollectEvents
    BY <1>2 DEF CollectEvents
<1>3. CASE wperf_list_events
  <2>1. list_events \in Nat /\ list_index \in Nat
      BY SizesAssumption DEF EventTypes
  <2>2. /\ said'.of = "events" /\ list_events' = list_events /\ fresh' = fresh
        /\ list_index < list_events => said'.item = list_index + 1 /\ list_index' = list_index + 1
        /\ ~(list_index < list_events) => said'.item = End /\ list_index' = list_index
      BY <1>3 DEF wperf_list_events
  <2>3. CASE "events" \notin fresh
      BY <2>1, <2>2, <2>3
  <2>4. CASE "events" \in fresh /\ list_index < list_events
      BY <2>1, <2>2, <2>4, RestIsTaken
  <2>5. CASE "events" \in fresh /\ ~(list_index < list_events)
      BY <2>1, <2>2, <2>5, RestIsTaken
  <2> QED
      BY <2>3, <2>4, <2>5
<1>4. CASE /\ UNCHANGED eventVars /\ ("events" \in fresh' <=> "events" \in fresh)
           /\ said' = said \/ said'.of # "events"
    BY <1>4
<1> QED
    BY <1>1, <1>2, <1>3, <1>4, EventsTouched

\* The same of the list of wperf_test; while it is collected it yields nothing.
LEMMA TestsRefined ==
    ASSUME TestInv, [Next]_vars
    PROVE  [TestList!Next]_(TestList!vars)
<1> USE ElsewhereApart, CollectedApart DEF Routines, TestList!Next, TestList!vars, TestList!Collect,
              TestList!Lose, TestList!Yield,
                           TestList!NoMore, TestList!Other, IfFresh, Answer, Says, Quiet, testVars
<1>1. CASE wperf_close
    BY <1>1 DEF wperf_close
<1>2. CASE TestBegin
    BY <1>2 DEF TestBegin
<1>3. CASE TestRefused
    BY <1>3 DEF TestRefused
<1>4. CASE TestEnd
  <2>1. /\ test_index' = 0 /\ tests' = TestRows[3] /\ "test" \in fresh'
        /\ said' = [of |-> "test", item |-> Collected]
      BY <1>4 DEF TestEnd, TestInv
  <2> QED
      BY <2>1
<1>5. CASE TestFails
    BY <1>5 DEF TestFails, TestInv
<1>6. CASE wperf_test
  <2>1. tests \in Nat /\ test_index \in Nat
      BY RowsBounded DEF TestInv, TestTypes
  <2>2. /\ said'.of = "test" /\ tests' = tests /\ fresh' = fresh
        /\ test_index < tests => said'.item = test_index + 1 /\ test_index' = test_index + 1
        /\ ~(test_index < tests) => said'.item = End /\ test_index' = test_index
      BY <1>6 DEF wperf_test
  <2>3. CASE "test" \notin fresh
      BY <2>1, <2>2, <2>3
  <2>4. CASE "test" \in fresh /\ test_index < tests
      BY <2>1, <2>2, <2>4, RestIsTaken
  <2>5. CASE "test" \in fresh /\ ~(test_index < tests)
      BY <2>1, <2>2, <2>5, RestIsTaken
  <2> QED
      BY <2>3, <2>4, <2>5
<1>7. CASE /\ UNCHANGED testVars /\ ("test" \in fresh' <=> "test" \in fresh)
           /\ said' = said \/ said'.of # "test"
    BY <1>7
<1> QED
    BY <1>1, <1>2, <1>3, <1>4, <1>5, <1>6, <1>7, TestsTouched

\* A function of the right fields is a sequence of parts.
LEMMA PartsAre ==
    ASSUME NEW S, NEW n \in Nat, NEW parts, parts = [k \in 1 .. n |-> parts[k]],
           \A k \in 1 .. n : parts[k] \in [tag : S, size : Nat]
    PROVE  parts \in Parts(S) /\ Len(parts) = n
<1> DEFINE R == [tag : S, size : Nat]
<1>1. parts = [k \in 1 .. n |-> parts[k]] /\ \A k \in 1 .. n : parts[k] \in R
    OBVIOUS
<1> HIDE DEF R
<1>2. parts \in Seq(R) /\ Len(parts) = n
    BY <1>1
<1> QED
    BY <1>2 DEF Parts, R

\* The parts of the list of metrics; every metric there is has events.
LEMMA MetricPartsAre ==
    /\ MetricParts \in Parts(ToSet(Metrics)) /\ Len(MetricParts) = Len(Metrics)
    /\ \A k \in 1 .. Len(Metrics) : /\ MetricParts[k].tag = Metrics[k] /\ Metrics[k] \in ToSet(Metrics)
                                    /\ MetricParts[k].size = MetricSize[Metrics[k]]
                                    /\ MetricParts[k].size > 0
<1>1. Len(Metrics) \in Nat /\ DOMAIN Metrics = 1 .. Len(Metrics)
    BY SizesAssumption, LenProperties
<1>2. ASSUME NEW k \in 1 .. Len(Metrics)
      PROVE  Metrics[k] \in ToSet(Metrics) /\ MetricSize[Metrics[k]] \in Nat \ {0}
  <2>1. Metrics[k] \in ToSet(Metrics)
      BY <1>1 DEF ToSet
  <2> QED
      BY <2>1, SizesAssumption
<1>3. ASSUME NEW k \in 1 .. Len(Metrics)
      PROVE  /\ MetricParts[k] \in [tag : ToSet(Metrics), size : Nat]
             /\ MetricParts[k].tag = Metrics[k]
             /\ MetricParts[k].size = MetricSize[Metrics[k]]
    BY <1>1, <1>2 DEF MetricParts
<1>4. MetricParts = [k \in 1 .. Len(Metrics) |-> MetricParts[k]]
    BY <1>1 DEF MetricParts
<1>5. MetricParts \in Parts(ToSet(Metrics)) /\ Len(MetricParts) = Len(Metrics)
    BY <1>1, <1>3, <1>4, PartsAre
<1> QED
    BY <1>2, <1>3, <1>5

\* A step of the session is one of the list of metrics: what is yielded of it is
\* read from the list whose names are overwritten, and is right.
LEMMA MetricsRefined ==
    ASSUME MetricInv, FreshInv, [Next]_vars
    PROVE  [MetricList!Next]_(MetricList!vars)
<1> USE ElsewhereApart, CollectedApart DEF Routines, MetricList!Next, MetricList!vars,
              MetricList!Collect,
              MetricList!Lose, MetricList!Yield, MetricList!NoMore, MetricList!Other,
              IfFresh, Answer, Says, Quiet, metricVars
<1>1. CASE wperf_close
    BY <1>1 DEF wperf_close
<1>2. CASE CollectMetrics
    BY <1>2 DEF CollectMetrics
<1>3. CASE wperf_list_metrics \/ wperf_list_metricsEnds
  <2>1. said'.of = "metrics" /\ fresh' = fresh
      BY <1>3 DEF wperf_list_metrics, wperf_list_metricsEnds
  <2>2. CASE "metrics" \notin fresh
    <3>1. said'.item # Collected
      <4>1. CASE wperf_list_metricsEnds
          BY <4>1 DEF wperf_list_metricsEnds
      <4>2. CASE wperf_list_metrics
        <5>1. /\ Len(list_metrics) \in Nat /\ metrics_index \in Nat /\ metric_event_index \in Nat
              /\ \A k \in 1 .. Len(list_metrics) : list_metrics[k] \in ToSet(Metrics)
            BY LenProperties, ElementOfSeq DEF MetricInv, MetricTypes
        <5>2. /\ metrics_index < Len(list_metrics)
              /\ \/ said'.item = End
                 \/ said'.item = <<list_metrics[metrics_index + 1], metric_event_index + 1>>
                 \/ /\ ~(metrics_index + 1 >= Len(list_metrics))
                    /\ said'.item = <<list_metrics[metrics_index + 1 + 1], 1>>
            BY <4>2 DEF wperf_list_metrics
        <5>3. /\ metrics_index + 1 \in 1 .. Len(list_metrics)
              /\ ~(metrics_index + 1 >= Len(list_metrics)) => metrics_index + 1 + 1 \in 1 .. Len(list_metrics)
            BY <5>1, <5>2
        <5>4. said'.item = End \/ \E m \in ToSet(Metrics), k \in Nat : said'.item = <<m, k>>
            BY <5>1, <5>2, <5>3
        <5>5. \A m \in ToSet(Metrics), k \in Nat : Collected # <<m, k>>
            BY AnswersAssumption
        <5> QED
            BY <5>4, <5>5
      <4> QED
          BY <1>3, <4>1, <4>2
    <3> QED
        BY <2>1, <2>2, <3>1
  <2>3. CASE "metrics" \in fresh
    <3>1. /\ Len(list_metrics) = Len(Metrics) /\ Len(Metrics) \in Nat
          /\ \A k \in 1 .. Len(Metrics) : k > metrics_index => list_metrics[k] = Metrics[k]
          /\ metrics_index \in Nat /\ metric_event_index \in Nat
      <4>1. Len(Metrics) \in Nat /\ DOMAIN Metrics = 1 .. Len(Metrics)
          BY SizesAssumption, LenProperties
      <4> QED
          BY <2>3, <4>1 DEF FreshInv, MetricInv, MetricTypes
    <3>2. metrics_index < Len(Metrics) =>
            /\ list_metrics[metrics_index + 1] = MetricParts[metrics_index + 1].tag
            /\ MetricSize[list_metrics[metrics_index + 1]] = MetricParts[metrics_index + 1].size
      <4>1. metrics_index < Len(Metrics) =>
              metrics_index + 1 \in 1 .. Len(Metrics) /\ metrics_index + 1 > metrics_index
          BY <3>1
      <4> QED
          BY <3>1, <4>1, MetricPartsAre
    <3>3. metrics_index + 1 < Len(Metrics) => list_metrics[metrics_index + 2] = MetricParts[metrics_index + 2].tag
      <4>1. metrics_index + 1 < Len(Metrics) =>
              metrics_index + 2 \in 1 .. Len(Metrics) /\ metrics_index + 2 > metrics_index
          BY <3>1
      <4> QED
          BY <3>1, <4>1, MetricPartsAre
    <3>4. Walks(MetricParts, metrics_index, metric_event_index, metrics_index', metric_event_index', said'.item)
      <4>1. CASE wperf_list_metricsEnds
          BY <3>1, <4>1, MetricPartsAre DEF wperf_list_metricsEnds, Walks
      <4>2. CASE wperf_list_metrics
        <5>1. metrics_index < Len(Metrics) /\ (metrics_index + 1) + 1 = metrics_index + 2
            BY <3>1, <4>2 DEF wperf_list_metrics
        <5>2. CASE metric_event_index < MetricParts[metrics_index + 1].size
            BY <3>1, <3>2, <4>2, <5>1, <5>2, MetricPartsAre DEF
               wperf_list_metrics, Walks
        <5>3. CASE ~(metric_event_index < MetricParts[metrics_index + 1].size) /\ metrics_index + 1 < Len(Metrics)
          <6>1. /\ metrics_index' = metrics_index + 1 /\ metric_event_index' = 1
                /\ said'.item = <<list_metrics[metrics_index + 2], 1>>
              BY <3>1, <3>2, <4>2, <5>1, <5>3 DEF wperf_list_metrics
          <6> QED
              BY <3>1, <3>3, <5>1, <5>3, <6>1, MetricPartsAre DEF Walks
        <5>4. CASE ~(metric_event_index < MetricParts[metrics_index + 1].size) /\ ~(metrics_index + 1 < Len(Metrics))
          <6>1. metrics_index' = metrics_index + 1 /\ metric_event_index' = 0 /\ said'.item = End
              BY <3>1, <3>2, <4>2, <5>1, <5>4 DEF wperf_list_metrics
          <6> QED
              BY <3>1, <5>1, <5>4, <6>1, MetricPartsAre DEF Walks
        <5> QED
            BY <5>2, <5>3, <5>4
      <4> QED
          BY <1>3, <4>1, <4>2
    <3> DEFINE left == Left(MetricParts, metrics_index, metric_event_index)
    <3>5. left # Unknown
      <4>1. left \in Seq(ToSet(Metrics) \X Nat)
          BY <3>1, MetricPartsAre, LeftIsTaken
      <4> QED
          BY <4>1, AnswersAssumption
    <3>6. \/ left # <<>> /\ said'.item = Head(left) /\ Left(MetricParts, metrics_index', metric_event_index') = Tail(left)
          \/ left = <<>> /\ said'.item = End /\ Left(MetricParts, metrics_index', metric_event_index') = left
        BY <3>1, <3>4, MetricPartsAre, WalkYields
    <3> QED
        BY <2>1, <2>3, <3>5, <3>6 DEF MetricParts
  <2> QED
      BY <2>2, <2>3
<1>4. CASE /\ UNCHANGED metricVars /\ ("metrics" \in fresh' <=> "metrics" \in fresh)
           /\ said' = said \/ said'.of # "metrics"
    BY <1>4
<1> QED
    BY <1>1, <1>2, <1>3, <1>4, MetricsTouched

\* The cores that counts are yielded for are cores, collected or not.
LEMMA CoresAreCores ==
    ASSUME StatInv
    PROVE  /\ Len(cores_idx) \in Nat /\ DOMAIN cores_idx = 1 .. Len(cores_idx)
           /\ \A k \in 1 .. Len(cores_idx) : cores_idx[k] \in Cores
<1>1. Len(cores_idx) \in Nat /\ DOMAIN cores_idx = 1 .. Len(cores_idx)
  <2>1. CASE cores_idx \in Counting
      BY <2>1, SizesAssumption, LenProperties
  <2>2. CASE cores_idx = <<>> \/ cores_idx \in {<<c>> : c \in Cores}
      BY <2>2
  <2> QED
      BY <2>1, <2>2 DEF StatInv, StatTypes
<1>2. ASSUME NEW k \in 1 .. Len(cores_idx)
      PROVE  cores_idx[k] \in Cores
  <2>1. CASE cores_idx \in Counting
    <3>1. cores_idx[k] \in ToSet(cores_idx)
        BY <1>1 DEF ToSet
    <3> QED
        BY <2>1, <3>1 DEF Cores
  <2>2. CASE cores_idx = <<>> \/ cores_idx \in {<<c>> : c \in Cores}
      BY <2>2
  <2> QED
      BY <2>1, <2>2 DEF StatInv, StatTypes
<1> QED
    BY <1>1, <1>2

\* The parts of the list of counts, once it is collected: each core has some.
LEMMA StatPartsAre ==
    ASSUME StatInv, FreshInv, "stat" \in fresh
    PROVE  /\ StatParts \in Parts(Cores) /\ Len(StatParts) = Len(cores_idx) /\ Len(cores_idx) \in Nat
           /\ \A k \in 1 .. Len(cores_idx) : /\ StatParts[k].tag = cores_idx[k]
                                             /\ StatParts[k].size = countings[cores_idx[k]]
                                             /\ StatParts[k].size > 0
<1>1. Len(cores_idx) \in Nat /\ DOMAIN cores_idx = 1 .. Len(cores_idx)
    BY CoresAreCores
<1>2. \A k \in 1 .. Len(cores_idx) : cores_idx[k] \in Cores
    BY CoresAreCores
<1>3. ASSUME NEW k \in 1 .. Len(cores_idx)
      PROVE  countings[cores_idx[k]] \in Nat /\ countings[cores_idx[k]] > 0
    BY <1>1, <1>2 DEF StatInv, StatTypes, FreshInv
<1>4. ASSUME NEW k \in 1 .. Len(cores_idx)
      PROVE  /\ StatParts[k] \in [tag : Cores, size : Nat]
             /\ StatParts[k].tag = cores_idx[k]
             /\ StatParts[k].size = countings[cores_idx[k]]
    BY <1>1, <1>2, <1>3 DEF StatParts
<1>5. StatParts = [k \in 1 .. Len(cores_idx) |-> StatParts[k]]
    BY <1>1 DEF StatParts
<1>6. StatParts \in Parts(Cores) /\ Len(StatParts) = Len(cores_idx)
  <2>1. PICK n \in Nat : n = Len(cores_idx)
      BY <1>1
  <2>2. StatParts = [k \in 1 .. n |-> StatParts[k]] /\ \A k \in 1 .. n : StatParts[k] \in [tag : Cores, size : Nat]
      BY <1>4, <1>5, <2>1
  <2>3. StatParts \in Parts(Cores) /\ Len(StatParts) = n
      BY <2>2, PartsAre
  <2> QED
      BY <2>1, <2>3
<1> QED
    BY <1>1, <1>3, <1>4, <1>6

\* The same of the list of counts, which does not read past a core's end.
LEMMA StatRefined ==
    ASSUME StatInv, FreshInv, [Next]_vars
    PROVE  [StatList!Next]_(StatList!vars)
<1> USE ElsewhereApart, CollectedApart DEF Routines, StatList!Next, StatList!vars, StatList!Collect,
              StatList!Lose, StatList!Yield, StatList!NoMore, StatList!Other,
              IfFresh, Answer, Says, Quiet, statVars
<1>1. CASE InitRefused \/ InitFails \/ wperf_init
  <2>1. fresh = {} /\ fresh' = fresh /\ Quiet
      BY <1>1 DEF InitRefused, InitFails, wperf_init, CanInit, FreshInv
  <2> QED
      BY <2>1
<1>2. CASE wperf_close
    BY <1>2 DEF wperf_close
<1>3. CASE "stat" \notin fresh' /\ Quiet
    BY <1>3
<1>4. CASE StatEnd
  <2>1. core_index' = 0 /\ stat_event_index' = 0 /\ "stat" \in fresh' /\ said' = [of |-> "stat", item |-> Collected]
      BY <1>4 DEF StatEnd, StatInv
  <2> QED
      BY <2>1
<1>5. CASE StatRound
  <2>1. "stat" \notin fresh' /\ "stat" \notin fresh /\ said' = said
      BY <1>5 DEF StatRound, FreshInv, InStat
  <2> QED
      BY <2>1
<1>6. CASE StatDenied
    BY <1>6 DEF StatDenied
<1>7. CASE wperf_stat \/ wperf_statEnds
  <2>1. said'.of = "stat" /\ fresh' = fresh /\ cores_idx' = cores_idx /\ countings' = countings
      BY <1>7 DEF wperf_stat, wperf_statEnds, StatYields
  <2>2. CASE "stat" \notin fresh
    <3>1. said'.item # Collected
      <4>1. CASE wperf_statEnds
          BY <4>1 DEF wperf_statEnds
      <4>2. CASE wperf_stat
        <5>1. /\ Len(cores_idx) \in Nat /\ \A k \in 1 .. Len(cores_idx) : cores_idx[k] \in Cores
              /\ core_index \in Nat /\ stat_event_index \in Nat
            BY CoresAreCores DEF StatInv, StatTypes
        <5>2. /\ core_index < Len(cores_idx)
              /\ \/ said'.item \in {End, Garbage}
                 \/ said'.item = <<cores_idx[core_index + 1], stat_event_index + 1>>
                 \/ /\ ~(core_index + 1 >= Len(cores_idx))
                    /\ said'.item = <<cores_idx[core_index + 1 + 1], 0 + 1>>
            BY <4>2 DEF wperf_stat, StatYields
        <5>3. /\ core_index + 1 \in 1 .. Len(cores_idx)
              /\ ~(core_index + 1 >= Len(cores_idx)) => core_index + 1 + 1 \in 1 .. Len(cores_idx)
            BY <5>1, <5>2
        <5>4. said'.item \in {End, Garbage} \/ \E c \in Cores, k \in Nat : said'.item = <<c, k>>
            BY <5>1, <5>2, <5>3
        <5>5. \A c \in Cores, k \in Nat : Collected # <<c, k>>
            BY AnswersAssumption DEF Cores
        <5> QED
            BY <5>4, <5>5
      <4> QED
          BY <1>7, <4>1, <4>2
    <3> QED
        BY <2>1, <2>2, <3>1
  <2>3. CASE "stat" \in fresh
    <3>1. /\ StatParts \in Parts(Cores) /\ Len(StatParts) = Len(cores_idx) /\ Len(cores_idx) \in Nat
          /\ \A k \in 1 .. Len(cores_idx) : /\ StatParts[k].tag = cores_idx[k]
                                            /\ StatParts[k].size = countings[cores_idx[k]]
                                            /\ StatParts[k].size > 0
          /\ core_index \in Nat /\ stat_event_index \in Nat
        BY <2>3, StatPartsAre DEF StatInv, StatTypes
    <3>2. Walks(StatParts, core_index, stat_event_index, core_index', stat_event_index', said'.item)
      <4>1. CASE wperf_statEnds
          BY <3>1, <4>1 DEF wperf_statEnds, Walks
      <4>2. CASE wperf_stat
        <5>1. core_index < Len(cores_idx) /\ core_index + 1 \in 1 .. Len(cores_idx)
            BY <3>1, <4>2 DEF wperf_stat
        <5>2. CASE stat_event_index < StatParts[core_index + 1].size
          <6>1. /\ core_index' = core_index /\ stat_event_index' = stat_event_index + 1
                /\ said'.item = <<cores_idx[core_index + 1], stat_event_index + 1>>
              BY <3>1, <4>2, <5>1, <5>2 DEF wperf_stat, StatYields
          <6> QED
              BY <3>1, <5>1, <5>2, <6>1 DEF Walks
        <5>3. CASE ~(stat_event_index < StatParts[core_index + 1].size) /\ core_index + 1 < Len(cores_idx)
          <6>1. core_index + 2 \in 1 .. Len(cores_idx) /\ (core_index + 1) + 1 = core_index + 2
              BY <3>1, <5>3
          <6>2. core_index' = core_index + 1 /\ StatYields(cores_idx[core_index + 2], 0)
              BY <3>1, <4>2, <5>1, <5>3, <6>1 DEF wperf_stat
          <6>3. stat_event_index' = 1 /\ said'.item = <<cores_idx[core_index + 2], 1>>
              BY <3>1, <6>1, <6>2 DEF StatYields
          <6> QED
              BY <3>1, <5>1, <5>3, <6>1, <6>2, <6>3 DEF Walks
        <5>4. CASE ~(stat_event_index < StatParts[core_index + 1].size) /\ ~(core_index + 1 < Len(cores_idx))
          <6>1. core_index' = core_index + 1 /\ stat_event_index' = 0 /\ said'.item = End
              BY <3>1, <4>2, <5>1, <5>4 DEF wperf_stat
          <6> QED
              BY <3>1, <5>1, <5>4, <6>1 DEF Walks
        <5> QED
            BY <5>2, <5>3, <5>4
      <4> QED
          BY <1>7, <4>1, <4>2
    <3> DEFINE left == Left(StatParts, core_index, stat_event_index)
    <3>3. left # Unknown
      <4>1. left \in Seq(Cores \X Nat)
          BY <3>1, LeftIsTaken
      <4> QED
          BY <4>1, AnswersAssumption DEF Cores
    <3>4. \/ left # <<>> /\ said'.item = Head(left) /\ Left(StatParts, core_index', stat_event_index') = Tail(left)
          \/ left = <<>> /\ said'.item = End /\ Left(StatParts, core_index', stat_event_index') = left
        BY <3>1, <3>2, WalkYields
    <3> QED
        BY <2>1, <2>3, <3>3, <3>4 DEF StatParts
  <2> QED
      BY <2>2, <2>3
<1>8. CASE /\ UNCHANGED <<cores_idx, statVars>> /\ ("stat" \in fresh' <=> "stat" \in fresh)
           /\ said' = said \/ said'.of # "stat"
  <2>1. StatParts' = StatParts
      BY <1>8 DEF StatParts
  <2> QED
      BY <1>8, <2>1
<1> QED
    BY <1>1, <1>2, <1>3, <1>4, <1>5, <1>6, <1>7, <1>8, StatTouched
    DEF StatFails, StatBegin, SampleFails, SampleUnnamed, SampleBegin, SampleOvertakes

\* The parts of the list of samples; an event is only there when it was hit.
LEMMA SamplePartsAre ==
    ASSUME SampleTypes
    PROVE  /\ SampleParts \in Parts({samples[i].event : i \in DOMAIN samples})
           /\ Len(SampleParts) = Len(samples) /\ Len(samples) \in Nat
           /\ \A k \in 1 .. Len(samples) : /\ SampleParts[k].tag = samples[k].event
                                           /\ SampleParts[k].size = samples[k].hits
                                           /\ SampleParts[k].size > 0
<1> DEFINE Names == {samples[i].event : i \in DOMAIN samples}
<1>1. /\ Len(samples) \in Nat /\ DOMAIN samples = 1 .. Len(samples)
      /\ \A k \in 1 .. Len(samples) : samples[k].hits \in Nat \ {0}
  <2>1. CASE samples \in Profiles
    <3>1. samples \in Seq(ToSet(samples)) /\ \A k \in DOMAIN samples : samples[k].hits \in Nat \ {0}
        BY <2>1, ProfilesAssumption
    <3>2. Len(samples) \in Nat /\ DOMAIN samples = 1 .. Len(samples)
        BY <3>1, LenProperties
    <3> QED
        BY <3>1, <3>2
  <2>2. CASE samples = <<>>
      BY <2>2
  <2> QED
      BY <2>1, <2>2 DEF SampleTypes
<1>2. ASSUME NEW k \in 1 .. Len(samples)
      PROVE  samples[k].event \in Names
    BY <1>1
<1> HIDE DEF Names
<1>3. ASSUME NEW k \in 1 .. Len(samples)
      PROVE  /\ SampleParts[k] \in [tag : Names, size : Nat]
             /\ SampleParts[k].tag = samples[k].event
             /\ SampleParts[k].size = samples[k].hits
    BY <1>1, <1>2 DEF SampleParts
<1>4. SampleParts = [k \in 1 .. Len(samples) |-> SampleParts[k]]
    BY <1>1 DEF SampleParts
<1>5. SampleParts \in Parts(Names) /\ Len(SampleParts) = Len(samples)
    BY <1>1, <1>3, <1>4, PartsAre
<1> QED
    BY <1>1, <1>3, <1>5 DEF Names

\* What wperf_sample yields is a symbol of an event.
LEMMA SampleYieldsSymbols ==
    ASSUME SampleTypes, wperf_sample \/ wperf_sampleEnds
    PROVE  said'.of = "sample" /\ said'.item # Collected
<1>1. CASE wperf_sampleEnds
    BY <1>1, CollectedApart DEF wperf_sampleEnds, Says
<1>2. CASE wperf_sample
  <2> DEFINE Names == {samples[i].event : i \in DOMAIN samples}
  <2>1. /\ Len(samples) \in Nat /\ sample_event_index \in Nat /\ sample_index \in Nat
        /\ \A k \in 1 .. Len(samples) : samples[k].event \in Names
    <3>1. CASE samples \in Profiles
      <4>1. samples \in Seq(ToSet(samples))
          BY <3>1, ProfilesAssumption
      <4>2. Len(samples) \in Nat /\ DOMAIN samples = 1 .. Len(samples)
          BY <4>1, LenProperties
      <4> QED
          BY <4>2 DEF SampleTypes
    <3>2. CASE samples = <<>>
        BY <3>2 DEF SampleTypes
    <3> QED
        BY <3>1, <3>2 DEF SampleTypes
  <2>2. /\ sample_event_index < Len(samples) /\ said'.of = "sample"
        /\ \/ said'.item = End
           \/ said'.item = <<samples[sample_event_index + 1].event, sample_index + 1>>
           \/ /\ ~(sample_event_index + 1 >= Len(samples))
              /\ said'.item = <<samples[sample_event_index + 1 + 1].event, 0 + 1>>
      BY <1>2 DEF wperf_sample, SampleYields, Says
  <2>3. said'.item = End \/ \E name \in Names, k \in Nat : said'.item = <<name, k>>
    <3> HIDE DEF Names
    <3>1. /\ sample_event_index + 1 \in 1 .. Len(samples)
          /\ ~(sample_event_index + 1 >= Len(samples)) => sample_event_index + 1 + 1 \in 1 .. Len(samples)
        BY <2>1, <2>2
    <3> QED
        BY <2>1, <2>2, <3>1
  <2>4. \A name \in Names, k \in Nat : Collected # <<name, k>>
    <3>1. CASE samples \in Profiles
        BY <3>1, AnswersAssumption
    <3>2. CASE samples = <<>>
        BY <3>2
    <3> QED
        BY <3>1, <3>2 DEF SampleTypes
  <2> QED
      BY <2>2, <2>3, <2>4, CollectedApart
<1> QED
    BY <1>1, <1>2

\* The same of the list of samples, whatever is sampled and counted meanwhile.
LEMMA SamplesRefined ==
    ASSUME SampleInv, [Next]_vars
    PROVE  [SampleList!Next]_(SampleList!vars)
<1> USE ElsewhereApart, CollectedApart DEF Routines, SampleList!Next, SampleList!vars,
              SampleList!Collect,
              SampleList!Lose, SampleList!Yield, SampleList!NoMore, SampleList!Other,
              IfFresh, Answer, Says, Quiet, sampleVars
<1>1. CASE "sample" \notin fresh' /\ Quiet
    BY <1>1
<1>2. ASSUME NEW profile \in Profiles, SampleEnd(profile)
      PROVE  [SampleList!Next]_(SampleList!vars)
  <2>1. /\ sample_event_index' = 0 /\ sample_index' = 0 /\ "sample" \in fresh'
        /\ said' = [of |-> "sample", item |-> Collected]
      BY <1>2 DEF SampleEnd, SampleInv
  <2> QED
      BY <2>1
<1>3. CASE wperf_sample \/ wperf_sampleEnds
  <2>1. said'.of = "sample" /\ fresh' = fresh /\ samples' = samples
      BY <1>3 DEF wperf_sample, wperf_sampleEnds, SampleYields
  <2>2. CASE "sample" \notin fresh
    <3>1. said'.item # Collected
        BY <1>3, SampleYieldsSymbols DEF SampleInv
    <3> QED
        BY <2>1, <2>2, <3>1
  <2>3. CASE "sample" \in fresh
    <3> DEFINE Names == {samples[i].event : i \in DOMAIN samples}
    <3>1. /\ SampleParts \in Parts(Names)
          /\ Len(SampleParts) = Len(samples) /\ Len(samples) \in Nat
          /\ \A k \in 1 .. Len(samples) : /\ SampleParts[k].tag = samples[k].event
                                          /\ SampleParts[k].size = samples[k].hits
                                          /\ SampleParts[k].size > 0
          /\ sample_event_index \in Nat /\ sample_index \in Nat
        BY SamplePartsAre DEF SampleInv, SampleTypes
    <3>2. Unknown \notin Seq(Names \X Nat)
      <4>1. CASE samples \in Profiles
          BY <4>1, AnswersAssumption
      <4>2. CASE samples = <<>>
          BY <4>2, AnswersAssumption, EmptySeq
      <4> QED
          BY <4>1, <4>2 DEF SampleInv, SampleTypes
    <3> HIDE DEF Names
    <3>3. Walks(SampleParts, sample_event_index, sample_index, sample_event_index', sample_index', said'.item)
      <4>1. CASE wperf_sampleEnds
          BY <3>1, <4>1 DEF wperf_sampleEnds, Walks
      <4>2. CASE wperf_sample
        <5>1. sample_event_index < Len(samples) /\ sample_event_index + 1 \in 1 .. Len(samples)
            BY <3>1, <4>2 DEF wperf_sample
        <5>2. CASE sample_index < SampleParts[sample_event_index + 1].size
          <6>1. /\ sample_event_index' = sample_event_index /\ sample_index' = sample_index + 1
                /\ said'.item = <<samples[sample_event_index + 1].event, sample_index + 1>>
              BY <3>1, <4>2, <5>1, <5>2 DEF wperf_sample, SampleYields
          <6> QED
              BY <3>1, <5>1, <5>2, <6>1 DEF Walks
        <5>3. CASE ~(sample_index < SampleParts[sample_event_index + 1].size) /\ sample_event_index + 1 < Len(samples)
          <6>1. sample_event_index + 2 \in 1 .. Len(samples) /\ (sample_event_index + 1) + 1 = sample_event_index + 2
              BY <3>1, <5>3
          <6>2. sample_event_index' = sample_event_index + 1 /\ SampleYields(sample_event_index + 2, 0)
              BY <3>1, <4>2, <5>1, <5>3, <6>1 DEF wperf_sample
          <6>3. sample_index' = 1 /\ said'.item = <<samples[sample_event_index + 2].event, 1>>
              BY <6>2 DEF SampleYields
          <6> QED
              BY <3>1, <5>1, <5>3, <6>1, <6>2, <6>3 DEF Walks
        <5>4. CASE ~(sample_index < SampleParts[sample_event_index + 1].size) /\ ~(sample_event_index + 1 < Len(samples))
          <6>1. sample_event_index' = sample_event_index + 1 /\ sample_index' = 0 /\ said'.item = End
              BY <3>1, <4>2, <5>1, <5>4 DEF wperf_sample
          <6> QED
              BY <3>1, <5>1, <5>4, <6>1 DEF Walks
        <5> QED
            BY <5>2, <5>3, <5>4
      <4> QED
          BY <1>3, <4>1, <4>2
    <3> DEFINE left == Left(SampleParts, sample_event_index, sample_index)
    <3>4. left # Unknown
      <4>1. left \in Seq(Names \X Nat)
          BY <3>1, LeftIsTaken
      <4> QED
          BY <3>2, <4>1
    <3>5. \/ left # <<>> /\ said'.item = Head(left) /\ Left(SampleParts, sample_event_index', sample_index') = Tail(left)
          \/ left = <<>> /\ said'.item = End /\ Left(SampleParts, sample_event_index', sample_index') = left
        BY <3>1, <3>3, WalkYields
    <3> QED
        BY <2>1, <2>3, <3>4, <3>5 DEF SampleParts
  <2> QED
      BY <2>2, <2>3
<1>4. CASE wperf_sample_annotate \/ wperf_sample_annotateEnds
  <2>1. UNCHANGED sampleVars /\ fresh' = fresh /\ said'.of = "annotate"
      BY <1>4 DEF wperf_sample_annotate, wperf_sample_annotateEnds, AnnotateYields
  <2>2. SampleParts' = SampleParts
      BY <2>1 DEF SampleParts
  <2> QED
      BY <2>1, <2>2
<1>5. CASE /\ UNCHANGED <<sampleVars, annotateVars>> /\ ("sample" \in fresh' <=> "sample" \in fresh)
           /\ said' = said \/ said'.of \notin {"sample", "annotate"}
  <2>1. SampleParts' = SampleParts
      BY <1>5 DEF SampleParts
  <2> QED
      BY <1>5, <2>1
<1> QED
    BY <1>1, <1>2, <1>3, <1>4, <1>5, SamplesTouched
    DEF wperf_close, SampleRejected, SampleFails, SampleUnnamed, SampleBegin, SampleOvertakes

\* What each line is yielded of, when every event has one.
LEMMA LinePartsAre ==
    ASSUME SampleTypes, HasLines
    PROVE  /\ LineParts \in Parts({samples[i].event : i \in DOMAIN samples})
           /\ Len(LineParts) = Len(samples) /\ Len(samples) \in Nat
           /\ \A k \in 1 .. Len(samples) : /\ LineParts[k].tag = samples[k].event
                                           /\ LineParts[k].size = samples[k].lines
                                           /\ LineParts[k].size > 0
<1> DEFINE Names == {samples[i].event : i \in DOMAIN samples}
<1>1. /\ Len(samples) \in Nat /\ DOMAIN samples = 1 .. Len(samples)
      /\ \A k \in 1 .. Len(samples) : samples[k].lines \in Nat /\ samples[k].lines > 0
  <2>1. CASE samples \in Profiles
    <3>1. samples \in Seq(ToSet(samples)) /\ \A k \in DOMAIN samples : samples[k].lines \in Nat
        BY <2>1, ProfilesAssumption
    <3>2. Len(samples) \in Nat /\ DOMAIN samples = 1 .. Len(samples)
        BY <3>1, LenProperties
    <3> QED
        BY <3>1, <3>2 DEF HasLines
  <2>2. CASE samples = <<>>
      BY <2>2
  <2> QED
      BY <2>1, <2>2 DEF SampleTypes
<1>2. ASSUME NEW k \in 1 .. Len(samples)
      PROVE  samples[k].event \in Names
    BY <1>1
<1> HIDE DEF Names
<1>3. ASSUME NEW k \in 1 .. Len(samples)
      PROVE  /\ LineParts[k] \in [tag : Names, size : Nat]
             /\ LineParts[k].tag = samples[k].event
             /\ LineParts[k].size = samples[k].lines
    BY <1>1, <1>2 DEF LineParts
<1>4. LineParts = [k \in 1 .. Len(samples) |-> LineParts[k]]
    BY <1>1 DEF LineParts
<1>5. LineParts \in Parts(Names) /\ Len(LineParts) = Len(samples)
  <2>1. PICK n \in Nat : n = Len(samples)
      BY <1>1
  <2>2. LineParts = [k \in 1 .. n |-> LineParts[k]] /\ \A k \in 1 .. n : LineParts[k] \in [tag : Names, size : Nat]
      BY <1>3, <1>4, <2>1
  <2>3. LineParts \in Parts(Names) /\ Len(LineParts) = n
      BY <2>2, PartsAre
  <2> QED
      BY <2>1, <2>3
<1> QED
    BY <1>1, <1>3, <1>5 DEF Names

\* What a step says of the lines, case by case.
LEMMA LinesSaidIs ==
    /\ said'.of \notin {"sample", "annotate"} => LinesSaid' = Elsewhere
    /\ "annotate" \notin fresh' /\ said'.of = "sample" => LinesSaid' = Elsewhere
    /\ said'.of = "sample" /\ said'.item # Collected => LinesSaid' = Elsewhere
    /\ ~HasLines' => LinesSaid' = Elsewhere
    /\ HasLines' /\ "annotate" \in fresh' /\ said'.of = "sample" /\ said'.item = Collected =>
         LinesSaid' = Collected
    /\ HasLines' /\ said'.of = "annotate" => LinesSaid' = said'.item
<1> HIDE DEF HasLines
<1> QED
    BY DEF LinesSaid, Answer

\* A yielding call walks the lines.
LEMMA LinesWalked ==
    ASSUME SampleInv, HasLines, wperf_sample_annotate \/ wperf_sample_annotateEnds
    PROVE  Walks(LineParts, annotate_event_index, annotate_index,
                 annotate_event_index', annotate_index', said'.item)
<1>1. /\ Len(LineParts) = Len(samples) /\ Len(samples) \in Nat
      /\ \A k \in 1 .. Len(samples) : /\ LineParts[k].tag = samples[k].event
                                      /\ LineParts[k].size = samples[k].lines
                                      /\ LineParts[k].size > 0
      /\ annotate_event_index \in Nat /\ annotate_index \in Nat
    BY LinePartsAre DEF SampleInv, SampleTypes
<1> HIDE DEF HasLines
<1>2. CASE wperf_sample_annotateEnds
    BY <1>1, <1>2 DEF wperf_sample_annotateEnds, Walks, Says, annotateVars
<1>3. CASE wperf_sample_annotate
  <2>1. annotate_event_index < Len(samples) /\ annotate_event_index + 1 \in 1 .. Len(samples)
      BY <1>1, <1>3 DEF wperf_sample_annotate
  <2>2. CASE annotate_index < LineParts[annotate_event_index + 1].size
    <3>1. /\ annotate_event_index' = annotate_event_index /\ annotate_index' = annotate_index + 1
          /\ said'.item = <<samples[annotate_event_index + 1].event, annotate_index + 1>>
        BY <1>1, <1>3, <2>1, <2>2 DEF wperf_sample_annotate, AnnotateYields, Says
    <3> QED
        BY <1>1, <2>1, <2>2, <3>1 DEF Walks
  <2>3. CASE ~(annotate_index < LineParts[annotate_event_index + 1].size) /\ annotate_event_index + 1 < Len(samples)
    <3>1. annotate_event_index + 2 \in 1 .. Len(samples) /\ (annotate_event_index + 1) + 1 = annotate_event_index + 2
        BY <1>1, <2>3
    <3>2. annotate_event_index' = annotate_event_index + 1 /\ AnnotateYields(annotate_event_index + 2, 0)
        BY <1>1, <1>3, <2>1, <2>3, <3>1 DEF wperf_sample_annotate
    <3>3. LineParts[annotate_event_index + 2].size > 0 /\ samples[annotate_event_index + 2].lines > 0
        BY <1>1, <3>1
    <3>4. annotate_index' = 1 /\ said'.item = <<samples[annotate_event_index + 2].event, 1>>
        BY <3>2, <3>3 DEF AnnotateYields, Says
    <3> QED
        BY <1>1, <2>1, <2>3, <3>1, <3>2, <3>4 DEF Walks
  <2>4. CASE ~(annotate_index < LineParts[annotate_event_index + 1].size) /\ ~(annotate_event_index + 1 < Len(samples))
    <3>1. annotate_event_index' = annotate_event_index + 1 /\ annotate_index' = 0 /\ said'.item = End
        BY <1>1, <1>3, <2>1, <2>4 DEF wperf_sample_annotate, Says
    <3> QED
        BY <1>1, <2>1, <2>4, <3>1 DEF Walks
  <2> QED
      BY <2>2, <2>3, <2>4
<1> QED
    BY <1>2, <1>3

\* What wperf_sample_annotate says is not that it has collected.
LEMMA LinesNotCollected ==
    ASSUME SampleInv, wperf_sample_annotate \/ wperf_sample_annotateEnds
    PROVE  said'.of = "annotate" /\ said'.item # Collected
<1>1. CASE wperf_sample_annotateEnds
    BY <1>1, CollectedApart DEF wperf_sample_annotateEnds, Says
<1>2. CASE wperf_sample_annotate
  <2> DEFINE Names == {samples[i].event : i \in DOMAIN samples}
  <2>1. /\ Len(samples) \in Nat /\ annotate_event_index \in Nat /\ annotate_index \in Nat
        /\ \A k \in 1 .. Len(samples) : samples[k].event \in Names
    <3>1. CASE samples \in Profiles
      <4>1. samples \in Seq(ToSet(samples))
          BY <3>1, ProfilesAssumption
      <4>2. Len(samples) \in Nat /\ DOMAIN samples = 1 .. Len(samples)
          BY <4>1, LenProperties
      <4> QED
          BY <4>2 DEF SampleInv, SampleTypes
    <3>2. CASE samples = <<>>
        BY <3>2 DEF SampleInv, SampleTypes
    <3> QED
        BY <3>1, <3>2 DEF SampleInv, SampleTypes
  <2>2. /\ annotate_event_index < Len(samples) /\ said'.of = "annotate"
        /\ \/ said'.item \in {End, Garbage}
           \/ said'.item = <<samples[annotate_event_index + 1].event, annotate_index + 1>>
           \/ /\ ~(annotate_event_index + 1 >= Len(samples))
              /\ said'.item = <<samples[annotate_event_index + 1 + 1].event, 0 + 1>>
      BY <1>2 DEF wperf_sample_annotate, AnnotateYields, Says
  <2>3. said'.item \in {End, Garbage} \/ \E name \in Names, k \in Nat : said'.item = <<name, k>>
    <3> HIDE DEF Names
    <3>1. /\ annotate_event_index + 1 \in 1 .. Len(samples)
          /\ ~(annotate_event_index + 1 >= Len(samples)) => annotate_event_index + 1 + 1 \in 1 .. Len(samples)
        BY <2>1, <2>2
    <3> QED
        BY <2>1, <2>2, <3>1
  <2>4. \A name \in Names, k \in Nat : Collected # <<name, k>>
    <3>1. CASE samples \in Profiles
        BY <3>1, AnswersAssumption
    <3>2. CASE samples = <<>>
        BY <3>2
    <3> QED
        BY <3>1, <3>2 DEF SampleInv, SampleTypes
  <2> QED
      BY <2>2, <2>3, <2>4, CollectedApart
<1> QED
    BY <1>1, <1>2

\* The same of the list of lines, while every event has one.
LEMMA LinesRefined ==
    ASSUME SampleInv, [Next]_vars
    PROVE  [LineList!Next]_(LineList!vars)
<1> USE ElsewhereApart, CollectedApart DEF Routines, LineList!Next, LineList!vars, LineList!Collect,
              LineList!Lose, LineList!Yield, LineList!NoMore, LineList!Other
<1> HIDE DEF HasLines, LinesSaid, LinesLeft, LineParts, Left
<1>1. CASE "annotate" \notin fresh' /\ Quiet
  <2>1. LinesLeft' = Unknown /\ LinesSaid' = Elsewhere
      BY <1>1, LinesSaidIs DEF LinesLeft, IfFresh, Quiet
  <2> QED
      BY <2>1
<1>2. ASSUME NEW profile \in Profiles, SampleEnd(profile)
      PROVE  [LineList!Next]_(LineList!vars)
  <2>1. said'.of = "sample" /\ said'.item = Collected /\ annotate_event_index' = 0 /\ annotate_index' = 0
      BY <1>2 DEF SampleEnd, SampleInv, Says, annotateVars
  <2>2. CASE "annotate" \in fresh' /\ HasLines'
    <3>1. LinesLeft' = Left(LineParts, 0, 0)' /\ LinesSaid' = Collected
        BY <2>1, <2>2, LinesSaidIs DEF LinesLeft, IfFresh
    <3> QED
        BY <3>1
  <2>3. CASE "annotate" \notin fresh' \/ ~HasLines'
    <3>1. LinesLeft' = Unknown /\ LinesSaid' = Elsewhere
        BY <2>1, <2>3, LinesSaidIs DEF LinesLeft, IfFresh
    <3> QED
        BY <3>1
  <2> QED
      BY <2>2, <2>3
<1>3. ASSUME UNCHANGED samples
      PROVE  HasLines' = HasLines /\ LineParts' = LineParts
    BY <1>3 DEF HasLines, LineParts
<1>4. ASSUME UNCHANGED <<samples, annotate_event_index, annotate_index>>,
             "annotate" \in fresh' <=> "annotate" \in fresh
      PROVE  LinesLeft' = LinesLeft
    BY <1>3, <1>4 DEF LinesLeft, IfFresh, Left
<1>5. CASE wperf_sample \/ wperf_sampleEnds
  <2>1. UNCHANGED <<samples, annotate_event_index, annotate_index, fresh>>
      BY <1>5 DEF wperf_sample, wperf_sampleEnds, sampleVars, annotateVars
  <2>2. said'.of = "sample" /\ said'.item # Collected
      BY <1>5, SampleYieldsSymbols DEF SampleInv
  <2>3. LinesLeft' = LinesLeft /\ LinesSaid' = Elsewhere
      BY <1>4, <2>1, <2>2, LinesSaidIs
  <2> QED
      BY <2>3
<1>6. CASE wperf_sample_annotate \/ wperf_sample_annotateEnds
  <2>1. UNCHANGED <<samples, fresh>>
      BY <1>6 DEF wperf_sample_annotate, wperf_sample_annotateEnds, sampleVars
  <2>2. said'.of = "annotate" /\ said'.item # Collected
      BY <1>6, LinesNotCollected
  <2>3. CASE "annotate" \notin fresh \/ ~HasLines
    <3>1. LinesLeft' = Unknown /\ LinesSaid' # Collected
        BY <1>3, <2>1, <2>2, <2>3, LinesSaidIs DEF LinesLeft, IfFresh
    <3> QED
        BY <3>1
  <2>4. CASE "annotate" \in fresh /\ HasLines
    <3> DEFINE Names == {samples[i].event : i \in DOMAIN samples}
               left == Left(LineParts, annotate_event_index, annotate_index)
    <3>1. /\ LineParts \in Parts(Names)
          /\ Len(LineParts) = Len(samples) /\ Len(samples) \in Nat
          /\ \A k \in 1 .. Len(samples) : LineParts[k].size > 0
          /\ annotate_event_index \in Nat /\ annotate_index \in Nat
        BY <2>4, LinePartsAre DEF SampleInv, SampleTypes
    <3>2. Unknown \notin Seq(Names \X Nat)
      <4>1. CASE samples \in Profiles
          BY <4>1, AnswersAssumption
      <4>2. CASE samples = <<>>
          BY <4>2, AnswersAssumption, EmptySeq
      <4> QED
          BY <4>1, <4>2 DEF SampleInv, SampleTypes
    <3> HIDE DEF Names
    <3>3. left # Unknown
      <4>1. left \in Seq(Names \X Nat)
          BY <3>1, LeftIsTaken
      <4> QED
          BY <3>2, <4>1
    <3>4. \/ left # <<>> /\ said'.item = Head(left) /\ Left(LineParts, annotate_event_index', annotate_index') = Tail(left)
          \/ left = <<>> /\ said'.item = End /\ Left(LineParts, annotate_event_index', annotate_index') = left
      <4>1. Walks(LineParts, annotate_event_index, annotate_index,
                  annotate_event_index', annotate_index', said'.item)
          BY <1>6, <2>4, LinesWalked
      <4> QED
          BY <3>1, <4>1, WalkYields
    <3>5. LinesLeft = left /\ LinesSaid' = said'.item
        BY <1>3, <2>1, <2>2, <2>4, LinesSaidIs DEF LinesLeft, IfFresh
    <3>6. LinesLeft' = Left(LineParts, annotate_event_index', annotate_index')
        BY <1>3, <2>1, <2>4 DEF LinesLeft, IfFresh, Left
    <3> HIDE DEF left
    <3> QED
        BY <3>3, <3>4, <3>5, <3>6
  <2> QED
      BY <2>3, <2>4
<1>7. CASE /\ UNCHANGED <<sampleVars, annotateVars>> /\ ("annotate" \in fresh' <=> "annotate" \in fresh)
           /\ said' = said \/ said'.of \notin {"sample", "annotate"}
  <2>1. LinesLeft' = LinesLeft /\ HasLines' = HasLines
      BY <1>3, <1>4, <1>7 DEF sampleVars, annotateVars
  <2>2. CASE said' = said
    <3>1. LinesSaid' = LinesSaid
        BY <1>7, <2>1, <2>2 DEF LinesSaid, Answer
    <3> QED
        BY <2>1, <3>1
  <2>3. CASE said'.of \notin {"sample", "annotate"}
    <3>1. LinesSaid' = Elsewhere
        BY <2>3, LinesSaidIs
    <3> QED
        BY <2>1, <3>1
  <2> QED
      BY <1>7, <2>2, <2>3
<1> QED
    BY <1>1, <1>2, <1>5, <1>6, <1>7, SamplesTouched
    DEF wperf_close, SampleRejected, SampleFails, SampleUnnamed, SampleBegin, SampleOvertakes

\* For any number of events and any calls in between, wperf_list_events is the
\* generator wperf-lib.h promises: each event once, in order, then the end.
THEOREM EventsAreGenerated == Spec => EventsGenerate
<1>1. Init => EventList!Init
    BY DEF Init, EventList!Init, IfFresh, Answer
<1>2. LibInv /\ [Next]_vars => [EventList!Next]_(EventList!vars)
    BY EventsRefined DEF LibInv
<1> QED
    BY <1>1, <1>2, Inductive, PTL DEF Spec, EventList!Spec, EventsGenerate

\* For any number of rows, so is wperf_test, although a call that fails half way
\* leaves rows in the list it shares with the next.
THEOREM TestsAreGenerated == Spec => TestsGenerate
<1>1. Init => TestList!Init
    BY DEF Init, TestList!Init, IfFresh, Answer
<1>2. LibInv /\ [Next]_vars => [TestList!Next]_(TestList!vars)
    BY TestsRefined DEF LibInv
<1> QED
    BY <1>1, <1>2, Inductive, PTL DEF Spec, TestList!Spec, TestsGenerate

\* For any number of metrics of any sizes, wperf_list_metrics yields every event
\* of every metric, once, in order and under its own metric's name, although it
\* overwrites names of the list it walks.
THEOREM MetricsAreGenerated == Spec => MetricsGenerate
<1>1. Init => MetricList!Init
    BY DEF Init, MetricList!Init, IfFresh, Answer
<1>2. LibInv /\ [Next]_vars => [MetricList!Next]_(MetricList!vars)
    BY MetricsRefined DEF LibInv
<1> QED
    BY <1>1, <1>2, Inductive, PTL DEF Spec, MetricList!Spec, MetricsGenerate

\* For any lists of cores, any number of counts asked of a core and any rounds
\* of a timeline, wperf_stat begins with the first count of the first core,
\* yields each of all cores once and under its core, and never reads past the
\* counts of one; a sampling or a new wperf_init in between ends the list.
THEOREM StatIsGenerated == Spec => StatGenerates
<1>1. Init => StatList!Init
    BY DEF Init, StatList!Init, IfFresh, Answer
<1>2. LibInv /\ [Next]_vars => [StatList!Next]_(StatList!vars)
    BY StatRefined DEF LibInv
<1> QED
    BY <1>1, <1>2, Inductive, PTL DEF Spec, StatList!Spec, StatGenerates

\* For any samples, wperf_sample yields every symbol of every event once.
THEOREM SamplesAreGenerated == Spec => SamplesGenerate
<1>1. Init => SampleList!Init
    BY DEF Init, SampleList!Init, IfFresh, Answer
<1>2. LibInv /\ [Next]_vars => [SampleList!Next]_(SampleList!vars)
    BY SamplesRefined DEF LibInv
<1> QED
    BY <1>1, <1>2, Inductive, PTL DEF Spec, SampleList!Spec, SamplesGenerate

\* For any samples whose events all have lines, wperf_sample_annotate yields every
\* line of every event once.
THEOREM LinesAreGenerated == Spec => LinesGenerate
<1>1. Init => LineList!Init
    BY ElsewhereApart DEF Init, LineList!Init, LinesLeft, LinesSaid, IfFresh, Answer, Routines
<1>2. LibInv /\ [Next]_vars => [LineList!Next]_(LineList!vars)
    BY LinesRefined DEF LibInv
<1> QED
    BY <1>1, <1>2, Inductive, PTL DEF Spec, LineList!Spec, LinesGenerate

\* The lists of the C API are the generators wperf-lib.h promises, that of
\* wperf_sample_annotate as long as every event sampled has a line, for any
\* product, any caller of either habit and any mixture of the routines: once
\* collected, each begins with its first element, wherever it was left.
THEOREM ListsAreGenerated == Spec => Generates
BY EventsAreGenerated, MetricsAreGenerated, StatIsGenerated,
   SamplesAreGenerated, LinesAreGenerated, TestsAreGenerated DEF Generates
=============================================================================
