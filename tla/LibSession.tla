---------------------------- MODULE LibSession ----------------------------
(***************************************************************************)
(* A process linked with wperf-lib: the globals of wperf-lib.cpp, the life *)
(* of the pmu_device they point to, and the routines that collect a list   *)
(* with a null pointer and then yield it element by element.  Each list    *)
(* has its own position, kept in globals or function statics, and the      *)
(* caller may mix the routines in any order.  Other users of the driver    *)
(* take its lock, also by force, between any two requests.                 *)
(*                                                                         *)
(* The caller follows one of the two habits the repository shows: "doc",   *)
(* the examples of wperf-lib.h and the C test, closes after every          *)
(* wperf_init; "app", wperf-lib-app, closes only after one that succeeded. *)
(***************************************************************************)
EXTENDS Integers, Sequences, FiniteSets, SequencesExt

CONSTANTS NumEvents,   \* core events of the product
          Metrics,     \* names of the builtin metrics with grouped events
          MetricSize,  \* how many events each of them has
          Counting,    \* lists of cores a wperf_stat may be asked for
          Sampled,     \* cores a wperf_sample may be asked for
          Profiles,    \* what a sampling run may resolve to, see SampleEnd
          Asked,       \* counts a round of a wperf_stat may read from a core
          TestRows,    \* rows wperf_test has before its second query, when it
                       \* comes to the metrics asked for, and in the end
          MaxCounts,   \* bound: counts kept per core over a timeline
          Together,    \* bound: sets of lists that one caller uses
          Unknown, Collected, End, Elsewhere, Garbage

ASSUME SizesAssumption == /\ NumEvents \in Nat
                          /\ Metrics \in Seq(ToSet(Metrics))
                          /\ MetricSize \in [ToSet(Metrics) -> Nat \ {0}]
                          /\ TestRows \in Seq(Nat) /\ Len(TestRows) = 3
                          /\ MaxCounts \in Nat
                          /\ \A n \in Asked : n \in Nat \ {0} /\ n <= MaxCounts
                          /\ \A cs \in Counting : cs \in Seq(ToSet(cs)) /\ IsInjective(cs) /\ cs # <<>>
                          /\ Sampled \subseteq UNION {ToSet(cs) : cs \in Counting}

\* __sample_events names an event for its first hit.
ASSUME ProfilesAssumption ==
  \A profile \in Profiles : /\ profile \in Seq(ToSet(profile))
                            /\ \A i \in DOMAIN profile : /\ profile[i].hits \in Nat \ {0}
                                                          /\ profile[i].lines \in Nat

\* What is no element of a list is not taken for one.
ASSUME AnswersAssumption ==
  /\ Elsewhere \notin {"events", "metrics", "stat", "sample", "annotate", "test"}
  /\ Garbage # End
  /\ Collected \notin {End, Garbage, Elsewhere} \cup Nat
  /\ Collected \notin ToSet(Metrics) \X Nat
  /\ Collected \notin (UNION {ToSet(cs) : cs \in Counting}) \X Nat
  /\ \A profile \in Profiles : \A i \in DOMAIN profile : Collected \notin {profile[i].event} \X Nat
  /\ \A profile \in Profiles : \A i \in DOMAIN profile :
       \A k \in 1 .. profile[i].lines : <<profile[i].event, k>> # Garbage
  /\ Unknown \notin Seq(Nat)
  /\ Unknown \notin Seq(ToSet(Metrics) \X Nat)
  /\ Unknown \notin Seq((UNION {ToSet(cs) : cs \in Counting}) \X Nat)
  /\ \A profile \in Profiles : Unknown \notin Seq({profile[i].event : i \in DOMAIN profile} \X Nat)

VARIABLES
  habit,        \* the caller's: "doc" or "app"
  pc,           \* "idle", inside a collecting call, or "exited"
  holder,       \* whose file object current_status names
  device,       \* __pmu_device: null, lock held, lock refused, deleted
  cfg,          \* __pmu_cfg
  opened,       \* wperf_init answered true
  child,        \* the process a call spawned
  cores_idx,    \* __pmu_device->cores_idx
  list_events, list_index,                              \* wperf_list_events
  list_metrics, metrics_index, metric_event_index,      \* wperf_list_metrics
  countings, core_index, stat_event_index, asked,       \* wperf_stat
  samples, sample_event_index, sample_index,            \* wperf_sample
  annotate_event_index, annotate_index,                 \* wperf_sample_annotate
  tests, test_index,                                    \* wperf_test
  fresh,        \* routines whose last collection succeeded and still stands
  said          \* the last call's routine and answer

eventVars    == <<list_events, list_index>>
metricVars   == <<list_metrics, metrics_index, metric_event_index>>
statVars     == <<countings, core_index, stat_event_index, asked>>
sampleVars   == <<samples, sample_event_index, sample_index>>
annotateVars == <<annotate_event_index, annotate_index>>
testVars     == <<tests, test_index>>
listVars     == <<eventVars, metricVars, statVars, sampleVars, annotateVars, testVars, fresh, said>>
deviceVars   == <<holder, device, cfg, opened>>
vars         == <<habit, pc, deviceVars, child, cores_idx, listVars>>

Cores    == UNION {ToSet(cs) : cs \in Counting}
Routines == {"events", "metrics", "stat", "sample", "annotate", "test"}
Nothing  == [c \in Cores |-> 0]

SessionTypes ==
  /\ habit \in {"doc", "app"}
  /\ pc \in {"idle", "counting", "timeline", "sampling", "annotating", "testing", "exited"}
  /\ holder \in {"nobody", "device", "leaked", "other"}
  /\ device \in {"null", "held", "refused", "deleted"}
  /\ cfg \in {"null", "live", "deleted", "deletedTwice"}
  /\ opened \in BOOLEAN
  /\ child \in {"none", "running", "unnamed"}
  /\ fresh \subseteq Routines
  /\ said.of \in Routines \cup {Elsewhere}

EventTypes == list_events \in {0, NumEvents} /\ list_index \in 0 .. NumEvents

MetricTypes == /\ Len(list_metrics) \in {0, Len(Metrics)}
               /\ metrics_index \in 0 .. Len(Metrics)
               /\ metric_event_index \in Nat

StatTypes == /\ cores_idx \in Counting \cup {<<>>} \cup {<<c>> : c \in Cores}
             /\ countings \in [Cores -> 0 .. MaxCounts]
             /\ {core_index, stat_event_index} \subseteq Nat
             /\ asked \in Asked \cup {0}

SampleTypes ==
  /\ samples \in Profiles \cup {<<>>}
  /\ {sample_event_index, sample_index, annotate_event_index, annotate_index} \subseteq Nat

TestTypes == tests \in ToSet(TestRows) \cup {0} /\ test_index \in 0 .. Max(ToSet(TestRows))

TypeOK == SessionTypes /\ EventTypes /\ MetricTypes /\ StatTypes /\ SampleTypes /\ TestTypes

Init ==
  /\ habit \in {"doc", "app"} /\ pc = "idle"
  /\ holder = "nobody" /\ device = "null" /\ cfg = "null"
  /\ opened = FALSE /\ child = "none"
  /\ cores_idx = <<>>
  /\ list_events = 0 /\ list_index = 0
  /\ list_metrics = <<>> /\ metrics_index = 0 /\ metric_event_index = 0
  /\ countings = Nothing /\ core_index = 0 /\ stat_event_index = 0 /\ asked = 0
  /\ samples = <<>> /\ sample_event_index = 0 /\ sample_index = 0
  /\ annotate_event_index = 0 /\ annotate_index = 0
  /\ tests = 0 /\ test_index = 0
  /\ fresh = {} /\ said = [of |-> Elsewhere, item |-> Elsewhere]

Says(routine, item) == said' = [of |-> routine, item |-> item]

Quiet == said' = [of |-> Elsewhere, item |-> Elsewhere]

-----------------------------------------------------------------------------
(* wperf_init, wperf_close and the lock.                                   *)

\* The new pmu_device replaces the pointer whatever the old one still holds.
Forgotten == IF holder = "device" THEN "leaked" ELSE holder

CanInit == /\ pc = "idle" /\ ~opened
           /\ device \in {"held", "refused"} => habit = "app"

\* wperf_init as far as the lock: the constructor and init_device always run.
InitRefused ==
  /\ CanInit
  /\ holder # "nobody"
  /\ holder' = Forgotten
  /\ device' = "refused" /\ cores_idx' = <<>>
  /\ Quiet
  /\ UNCHANGED <<habit, pc, cfg, opened, child, eventVars, metricVars,
                 statVars, sampleVars, annotateVars, testVars, fresh>>

\* core_init, dsu_init or dmc_init throws with the lock already taken.
InitFails ==
  /\ CanInit
  /\ holder = "nobody"
  /\ holder' = "device"
  /\ device' = "held" /\ cores_idx' = <<>>
  /\ Quiet
  /\ UNCHANGED <<habit, pc, cfg, opened, child, eventVars, metricVars,
                 statVars, sampleVars, annotateVars, testVars, fresh>>

\* Mutant: a configuration that was made once is not made again.
wperf_initKeepsCfg ==
  /\ CanInit
  /\ holder = "nobody"
  /\ holder' = "device"
  /\ device' = "held" /\ opened' = TRUE /\ cores_idx' = <<>>
  /\ cfg' = IF cfg = "null" THEN "live" ELSE cfg
  /\ Quiet
  /\ UNCHANGED <<habit, pc, child, eventVars, metricVars,
                 statVars, sampleVars, annotateVars, testVars, fresh>>

\* The pointer to it is that of an earlier session until then.
wperf_init ==
  /\ CanInit
  /\ holder = "nobody"
  /\ holder' = "device"
  /\ device' = "held" /\ cfg' = "live" /\ opened' = TRUE /\ cores_idx' = <<>>
  /\ Quiet
  /\ UNCHANGED <<habit, pc, child, eventVars, metricVars,
                 statVars, sampleVars, annotateVars, testVars, fresh>>

\* Mutant: the destructor closes the handle and leaves the lock.
UnlockedNever == holder

\* ~pmu_device unlocks only what lock() had locked, and swallows a refusal.
Unlocked == IF device = "held" /\ holder = "device" THEN "nobody" ELSE holder

\* delete of whatever __pmu_cfg points to.
Deleted == CASE cfg = "null" -> "null"
             [] cfg = "live" -> "deleted"
             [] OTHER        -> "deletedTwice"

\* The pointers are not cleared, and neither are the positions.
wperf_close ==
  /\ pc = "idle"
  /\ IF habit = "doc" THEN device \in {"held", "refused"} ELSE opened
  /\ holder' = Unlocked
  /\ device' = "deleted" /\ opened' = FALSE
  /\ cfg' = Deleted
  /\ cores_idx' = <<>>
  /\ list_events' = 0 /\ list_metrics' = <<>> /\ countings' = Nothing /\ samples' = <<>> /\ tests' = 0
  /\ fresh' = {} /\ Quiet
  /\ UNCHANGED <<habit, pc, child, list_index, metrics_index, metric_event_index, core_index,
                 stat_event_index, asked, sample_event_index, sample_index, annotateVars, test_index>>

Exit == /\ pc = "idle" /\ ~opened
        /\ device \in {"held", "refused"} => habit = "app"
        /\ pc' = "exited"
        /\ UNCHANGED <<habit, deviceVars, child, cores_idx, listVars>>

\* Every other process that uses the driver; to a session that lost the lock
\* it is the same whether anybody has it.
OthersTakeAndGive ==
  /\ ~opened
  /\ \/ holder = "nobody" /\ holder' = "other"
     \/ holder = "other" /\ holder' = "nobody"
  /\ UNCHANGED <<habit, pc, device, cfg, opened, child, cores_idx, listVars>>

OthersForce ==
  /\ holder \in {"device", "leaked"} /\ holder' = "other"
  /\ UNCHANGED <<habit, pc, device, cfg, opened, child, cores_idx, listVars>>

-----------------------------------------------------------------------------
(* Callers call between a wperf_init that answered true and wperf_close; a *)
(* request succeeds while the lock names the device's file object.         *)

CanCall == pc = "idle" /\ opened

Granted == holder = "device"

Used == {routine \in {"events", "metrics", "stat", "sample", "test"} :
           \/ routine = "events" /\ eventVars # <<0, 0>>
           \/ routine = "metrics" /\ metricVars # <<<<>>, 0, 0>>
           \/ routine = "test" /\ testVars # <<0, 0>>
           \/ routine = "stat" /\ statVars # <<Nothing, 0, 0, 0>>
           \/ routine = "sample" /\ <<sampleVars, annotateVars>> # <<<<<<>>, 0, 0>>, <<0, 0>>>>}

\* The bound Together; stat and sample are the lists that share state.
MayUse(routine) == \E lists \in Together : Used \cup {routine} \subseteq lists

\* wperf_list_events(conf, NULL): the list is empty when the query is denied.
CollectEvents ==
  /\ CanCall /\ MayUse("events")
  /\ IF Granted
     THEN /\ list_events' = NumEvents /\ list_index' = 0
          /\ fresh' = fresh \cup {"events"} /\ Says("events", Collected)
     ELSE /\ list_events' = 0
          /\ fresh' = fresh \ {"events"} /\ Quiet
          /\ UNCHANGED list_index
  /\ UNCHANGED <<habit, pc, deviceVars, child, cores_idx, metricVars, statVars, sampleVars, annotateVars, testVars>>

wperf_list_events ==
  /\ CanCall
  /\ IF list_index < list_events
     THEN Says("events", list_index + 1) /\ list_index' = list_index + 1
     ELSE Says("events", End) /\ UNCHANGED list_index
  /\ UNCHANGED <<habit, pc, deviceVars, child, cores_idx, list_events, metricVars, statVars,
                 sampleVars, annotateVars, testVars, fresh>>

CollectMetrics ==
  /\ CanCall /\ MayUse("metrics")
  /\ list_metrics' = Metrics /\ metrics_index' = 0 /\ metric_event_index' = 0
  /\ fresh' = fresh \cup {"metrics"} /\ Says("metrics", Collected)
  /\ UNCHANGED <<habit, pc, deviceVars, child, cores_idx, eventVars, statVars, sampleVars, annotateVars, testVars>>

\* Moving on assigns through the reference "metric": the name of the metric
\* just finished is overwritten in the list by the next one's.
wperf_list_metrics ==
  /\ CanCall
  /\ metrics_index < Len(list_metrics)
  /\ LET metric == list_metrics[metrics_index + 1] IN
     IF metric_event_index < MetricSize[metric]
     THEN /\ Says("metrics", <<metric, metric_event_index + 1>>)
          /\ metric_event_index' = metric_event_index + 1
          /\ UNCHANGED <<metrics_index, list_metrics>>
     ELSE /\ metrics_index' = metrics_index + 1
          /\ IF metrics_index' >= Len(list_metrics)
             THEN /\ Says("metrics", End) /\ metric_event_index' = 0
                  /\ UNCHANGED list_metrics
             ELSE LET next == list_metrics[metrics_index' + 1] IN
                  /\ list_metrics' = [list_metrics EXCEPT ![metrics_index + 1] = next]
                  /\ Says("metrics", <<next, 1>>) /\ metric_event_index' = 1
  /\ UNCHANGED <<habit, pc, deviceVars, child, cores_idx, eventVars, statVars, sampleVars,
                 annotateVars, testVars, fresh>>

wperf_list_metricsEnds ==
  /\ CanCall
  /\ metrics_index >= Len(list_metrics)
  /\ Says("metrics", End)
  /\ UNCHANGED <<habit, pc, deviceVars, child, cores_idx, eventVars, metricVars, statVars,
                 sampleVars, annotateVars, testVars, fresh>>

-----------------------------------------------------------------------------
(* wperf_stat.                                                             *)

\* Mutant: a new collection begins where the last one was left.
StatClearsCounts == countings' = Nothing /\ UNCHANGED <<core_index, stat_event_index>>

StatClears == countings' = Nothing /\ core_index' = 0 /\ stat_event_index' = 0

\* A denied request, an unknown metric, a failed spawn or affinity: after
\* post_init and before the first start; a child is terminated on the spot.
StatFails(cs) ==
  /\ CanCall
  /\ StatClears /\ cores_idx' = cs
  /\ fresh' = fresh \ {"stat"} /\ Quiet
  /\ UNCHANGED <<habit, pc, deviceVars, child, asked, eventVars, metricVars, sampleVars, annotateVars, testVars>>

\* As far as the first start; only one core when a process is spawned.
StatBegin(cs, n, spawn, mode) ==
  /\ CanCall /\ MayUse("stat") /\ Granted
  /\ spawn => Len(cs) = 1 /\ child = "none"
  /\ StatClears /\ cores_idx' = cs /\ asked' = n
  /\ child' = IF spawn THEN "running" ELSE child
  /\ pc' = mode
  /\ fresh' = fresh \ {"stat"} /\ Quiet
  /\ UNCHANGED <<habit, deviceVars, eventVars, metricVars, sampleVars, annotateVars, testVars>>

InStat == pc \in {"counting", "timeline"}

Terminated == IF child = "running" THEN "none" ELSE child

\* Stop and read: for every core the counts of the cycle counter and of what
\* is asked for, appended to what earlier rounds of a timeline left.
StatReads == countings' = [c \in Cores |->
                             IF c \in ToSet(cores_idx) THEN countings[c] + asked ELSE countings[c]]

StatRound ==
  /\ pc = "timeline" /\ Granted
  /\ \A c \in Cores : countings[c] + 2 * asked <= MaxCounts
  /\ StatReads
  /\ UNCHANGED <<habit, pc, deviceVars, child, cores_idx, eventVars, metricVars, core_index,
                 stat_event_index, asked, sampleVars, annotateVars, testVars, fresh, said>>

StatEnd ==
  /\ InStat /\ Granted
  /\ StatReads
  /\ pc' = "idle" /\ child' = Terminated /\ asked' = 0
  /\ fresh' = fresh \cup {"stat"} /\ Says("stat", Collected)
  /\ UNCHANGED <<habit, deviceVars, cores_idx, eventVars, metricVars, core_index,
                 stat_event_index, sampleVars, annotateVars, testVars>>

\* Mutant: the exception handler forgets the child.
StatDeniedLeaves ==
  /\ InStat /\ ~Granted
  /\ pc' = "idle" /\ asked' = 0 /\ UNCHANGED child
  /\ fresh' = fresh \ {"stat"} /\ Quiet
  /\ UNCHANGED <<habit, deviceVars, cores_idx, eventVars, metricVars, countings, core_index,
                 stat_event_index, sampleVars, annotateVars, testVars>>

\* A request between start and read is denied: the exception handler.
StatDenied ==
  /\ InStat /\ ~Granted
  /\ pc' = "idle" /\ child' = Terminated /\ asked' = 0
  /\ fresh' = fresh \ {"stat"} /\ Quiet
  /\ UNCHANGED <<habit, deviceVars, cores_idx, eventVars, metricVars, countings, core_index,
                 stat_event_index, sampleVars, annotateVars, testVars>>

StatYields(core, i) ==
  /\ Says("stat", IF i < countings[core] THEN <<core, i + 1>> ELSE Garbage)
  /\ stat_event_index' = i + 1

\* Mutant: the next core is begun where the previous one was left.
wperf_statKeepsIndex ==
  /\ CanCall
  /\ core_index < Len(cores_idx)
  /\ IF stat_event_index < countings[cores_idx[core_index + 1]]
     THEN /\ StatYields(cores_idx[core_index + 1], stat_event_index)
          /\ UNCHANGED core_index
     ELSE /\ core_index' = core_index + 1
          /\ IF core_index' >= Len(cores_idx)
             THEN Says("stat", End) /\ stat_event_index' = 0
             ELSE StatYields(cores_idx[core_index' + 1], stat_event_index)
  /\ UNCHANGED <<habit, pc, deviceVars, child, cores_idx, eventVars, metricVars, countings, asked,
                 sampleVars, annotateVars, testVars, fresh>>

\* The cores are the device's, not the ones the counts were made on, and
\* only one of them is stepped over.
wperf_stat ==
  /\ CanCall
  /\ core_index < Len(cores_idx)
  /\ IF stat_event_index < countings[cores_idx[core_index + 1]]
     THEN /\ StatYields(cores_idx[core_index + 1], stat_event_index)
          /\ UNCHANGED core_index
     ELSE /\ core_index' = core_index + 1
          /\ IF core_index' >= Len(cores_idx)
             THEN Says("stat", End) /\ stat_event_index' = 0
             ELSE StatYields(cores_idx[core_index' + 1], 0)
  /\ UNCHANGED <<habit, pc, deviceVars, child, cores_idx, eventVars, metricVars, countings, asked,
                 sampleVars, annotateVars, testVars, fresh>>

wperf_statEnds ==
  /\ CanCall
  /\ core_index >= Len(cores_idx)
  /\ Says("stat", End)
  /\ UNCHANGED <<habit, pc, deviceVars, child, cores_idx, eventVars, metricVars, statVars,
                 sampleVars, annotateVars, testVars, fresh>>

-----------------------------------------------------------------------------
(* wperf_sample and wperf_sample_annotate.                                 *)

SampleClears == /\ samples' = <<>> /\ sample_event_index' = 0 /\ sample_index' = 0
                /\ annotate_event_index' = 0 /\ annotate_index' = 0

\* No file, core or event given: before post_init.
SampleRejected ==
  /\ CanCall
  /\ SampleClears
  /\ fresh' = fresh \ {"sample", "annotate"} /\ Quiet
  /\ UNCHANGED <<habit, pc, deviceVars, child, cores_idx, eventVars, metricVars, statVars, testVars>>

\* post_init gives the device the sampled core, and with it to wperf_stat.
SampleOvertakes == fresh \ {"stat", "sample", "annotate"}

\* After post_init: a denied request, files that do not parse, no such process.
SampleFails(core) ==
  /\ CanCall
  /\ SampleClears /\ cores_idx' = <<core>>
  /\ fresh' = SampleOvertakes /\ Quiet
  /\ UNCHANGED <<habit, pc, deviceVars, child, eventVars, metricVars, statVars, testVars>>

\* The child runs and its module has no name: a plain return.
SampleUnnamed(core) ==
  /\ CanCall /\ Granted /\ child = "none"
  /\ SampleClears /\ cores_idx' = <<core>>
  /\ child' = "unnamed"
  /\ fresh' = SampleOvertakes /\ Quiet
  /\ UNCHANGED <<habit, pc, deviceVars, eventVars, metricVars, statVars, testVars>>

\* As far as start_sample.
SampleBegin(core, spawn, mode) ==
  /\ CanCall /\ MayUse("sample") /\ Granted
  /\ spawn => child = "none"
  /\ SampleClears /\ cores_idx' = <<core>>
  /\ child' = IF spawn THEN "running" ELSE child
  /\ pc' = mode
  /\ fresh' = SampleOvertakes /\ Quiet
  /\ UNCHANGED <<habit, deviceVars, eventVars, metricVars, statVars, testVars>>

InSample == pc \in {"sampling", "annotating"}

\* The samples are resolved: for each event, in order, how many symbols were
\* hit and, when annotation was asked for, how many source lines.
SampleEnd(profile) ==
  /\ InSample /\ Granted
  /\ pc = "sampling" => \A i \in DOMAIN profile : profile[i].lines = 0
  /\ samples' = profile
  /\ pc' = "idle" /\ child' = Terminated
  /\ fresh' = fresh \cup (IF pc = "annotating" THEN {"sample", "annotate"} ELSE {"sample"})
  /\ Says("sample", Collected)
  /\ UNCHANGED <<habit, deviceVars, cores_idx, eventVars, metricVars, statVars,
                 sample_event_index, sample_index, annotateVars, testVars>>

SampleDenied ==
  /\ InSample /\ ~Granted
  /\ pc' = "idle" /\ child' = Terminated
  /\ Quiet
  /\ UNCHANGED <<habit, deviceVars, cores_idx, eventVars, metricVars, statVars, sampleVars,
                 annotateVars, testVars, fresh>>

SampleYields(e, i) == Says("sample", <<samples[e].event, i + 1>>) /\ sample_index' = i + 1

wperf_sample ==
  /\ CanCall
  /\ sample_event_index < Len(samples)
  /\ IF sample_index < samples[sample_event_index + 1].hits
     THEN SampleYields(sample_event_index + 1, sample_index) /\ UNCHANGED sample_event_index
     ELSE /\ sample_event_index' = sample_event_index + 1
          /\ IF sample_event_index' >= Len(samples)
             THEN Says("sample", End) /\ sample_index' = 0
             ELSE SampleYields(sample_event_index' + 1, 0)
  /\ UNCHANGED <<habit, pc, deviceVars, child, cores_idx, eventVars, metricVars, statVars, samples,
                 annotateVars, testVars, fresh>>

wperf_sampleEnds ==
  /\ CanCall
  /\ sample_event_index >= Len(samples)
  /\ Says("sample", End)
  /\ UNCHANGED <<habit, pc, deviceVars, child, cores_idx, eventVars, metricVars, statVars,
                 sampleVars, annotateVars, testVars, fresh>>

AnnotateYields(e, i) ==
  /\ Says("annotate", IF i < samples[e].lines THEN <<samples[e].event, i + 1>> ELSE Garbage)
  /\ annotate_index' = i + 1

\* Mutant: the position in the lines is not started over.
wperf_sample_annotateKeepsIndex ==
  /\ CanCall
  /\ annotate_event_index < Len(samples)
  /\ IF annotate_index < samples[annotate_event_index + 1].lines
     THEN AnnotateYields(annotate_event_index + 1, annotate_index) /\ UNCHANGED annotate_event_index
     ELSE /\ annotate_event_index' = annotate_event_index + 1
          /\ IF annotate_event_index' >= Len(samples)
             THEN Says("annotate", End) /\ annotate_index' = 0
             ELSE AnnotateYields(annotate_event_index' + 1, annotate_index)
  /\ UNCHANGED <<habit, pc, deviceVars, child, cores_idx, eventVars, metricVars, statVars, sampleVars, testVars, fresh>>

\* Only one event is stepped over, whether the next one has lines or not.
wperf_sample_annotate ==
  /\ CanCall
  /\ annotate_event_index < Len(samples)
  /\ IF annotate_index < samples[annotate_event_index + 1].lines
     THEN AnnotateYields(annotate_event_index + 1, annotate_index) /\ UNCHANGED annotate_event_index
     ELSE /\ annotate_event_index' = annotate_event_index + 1
          /\ IF annotate_event_index' >= Len(samples)
             THEN Says("annotate", End) /\ annotate_index' = 0
             ELSE AnnotateYields(annotate_event_index' + 1, 0)
  /\ UNCHANGED <<habit, pc, deviceVars, child, cores_idx, eventVars, metricVars, statVars, sampleVars, testVars, fresh>>

wperf_sample_annotateEnds ==
  /\ CanCall
  /\ annotate_event_index >= Len(samples)
  /\ Says("annotate", End)
  /\ UNCHANGED <<habit, pc, deviceVars, child, cores_idx, eventVars, metricVars, statVars,
                 sampleVars, annotateVars, testVars, fresh>>

-----------------------------------------------------------------------------
(* wperf_test.                                                             *)

\* The hardware is queried, and the rows that need no more are there.
TestBegin ==
  /\ CanCall /\ MayUse("test") /\ Granted
  /\ tests' = TestRows[1] /\ test_index' = 0
  /\ pc' = "testing"
  /\ fresh' = fresh \ {"test"} /\ Quiet
  /\ UNCHANGED <<habit, deviceVars, child, cores_idx, eventVars, metricVars, statVars, sampleVars, annotateVars>>

TestRefused ==
  /\ CanCall /\ ~Granted
  /\ tests' = 0 /\ test_index' = 0
  /\ fresh' = fresh \ {"test"} /\ Quiet
  /\ UNCHANGED <<habit, pc, deviceVars, child, cores_idx, eventVars, metricVars, statVars, sampleVars, annotateVars>>

TestEnd ==
  /\ pc = "testing" /\ Granted
  /\ tests' = TestRows[3]
  /\ pc' = "idle"
  /\ fresh' = fresh \cup {"test"} /\ Says("test", Collected)
  /\ UNCHANGED <<habit, deviceVars, child, cores_idx, eventVars, metricVars, statVars, sampleVars, annotateVars,
                 test_index>>

\* The events are not told any more, or a metric asked for is unknown: the rows
\* there are stay in the list.
TestFails ==
  /\ pc = "testing"
  /\ IF Granted THEN tests' = TestRows[2] ELSE UNCHANGED tests
  /\ pc' = "idle"
  /\ Quiet
  /\ UNCHANGED <<habit, deviceVars, child, cores_idx, eventVars, metricVars, statVars, sampleVars, annotateVars,
                 test_index, fresh>>

wperf_test ==
  /\ CanCall
  /\ IF test_index < tests
     THEN Says("test", test_index + 1) /\ test_index' = test_index + 1
     ELSE Says("test", End) /\ UNCHANGED test_index
  /\ UNCHANGED <<habit, pc, deviceVars, child, cores_idx, eventVars, metricVars, statVars, sampleVars, annotateVars,
                 tests, fresh>>

-----------------------------------------------------------------------------
Session == InitRefused \/ InitFails \/ wperf_init \/ wperf_close \/ Exit

Lists == \/ CollectEvents \/ wperf_list_events
         \/ CollectMetrics \/ wperf_list_metrics \/ wperf_list_metricsEnds

Stat == \/ \E cs \in Counting : \/ StatFails(cs)
                                \/ \E n \in Asked, spawn \in BOOLEAN, mode \in {"counting", "timeline"} :
                                     StatBegin(cs, n, spawn, mode)
        \/ StatRound \/ StatEnd \/ StatDenied
        \/ wperf_stat \/ wperf_statEnds

Sample == \/ SampleRejected
          \/ \E c \in Sampled : \/ SampleFails(c)
                                \/ SampleUnnamed(c)
                                \/ \E spawn \in BOOLEAN, mode \in {"sampling", "annotating"} :
                                     SampleBegin(c, spawn, mode)
          \/ \E profile \in Profiles : SampleEnd(profile)
          \/ SampleDenied
          \/ wperf_sample \/ wperf_sampleEnds
          \/ wperf_sample_annotate \/ wperf_sample_annotateEnds

Test == TestBegin \/ TestRefused \/ TestEnd \/ TestFails \/ wperf_test

Next == Session \/ OthersTakeAndGive \/ OthersForce \/ Lists \/ Stat \/ Sample \/ Test

Spec == Init /\ [][Next]_vars

-----------------------------------------------------------------------------
(* Properties.                                                             *)

\* Elements i+1 .. n of a list of n, as the routines number them.
Rest(n, i) == [k \in 1 .. (IF n > i THEN n - i ELSE 0) |-> i + k]

Tagged(tag, s) == [k \in DOMAIN s |-> <<tag, s[k]>>]

\* What is left of a list of lists from part p, position i within it.
Left(parts, p, i) ==
  FlattenSeq([k \in 1 .. (IF Len(parts) > p THEN Len(parts) - p ELSE 0) |->
                Tagged(parts[p + k].tag, Rest(parts[p + k].size, IF k = 1 THEN i ELSE 0))])

Answer(routine) == IF said.of = routine THEN said.item ELSE Elsewhere

IfFresh(routine, left) == IF routine \in fresh THEN left ELSE Unknown

EventList == INSTANCE Generator WITH
  list <- Rest(NumEvents, 0),
  todo <- IfFresh("events", Rest(list_events, list_index)), answer <- Answer("events")

MetricParts == [i \in DOMAIN Metrics |-> [tag |-> Metrics[i], size |-> MetricSize[Metrics[i]]]]

MetricList == INSTANCE Generator WITH
  list <- Left(MetricParts, 0, 0),
  todo <- IfFresh("metrics", Left(MetricParts, metrics_index, metric_event_index)),
  answer <- Answer("metrics")

StatParts == [i \in DOMAIN cores_idx |-> [tag |-> cores_idx[i], size |-> countings[cores_idx[i]]]]

StatList == INSTANCE Generator WITH
  list <- Left(StatParts, 0, 0),
  todo <- IfFresh("stat", Left(StatParts, core_index, stat_event_index)), answer <- Answer("stat")

SampleParts == [i \in DOMAIN samples |-> [tag |-> samples[i].event, size |-> samples[i].hits]]

SampleList == INSTANCE Generator WITH
  list <- Left(SampleParts, 0, 0),
  todo <- IfFresh("sample", Left(SampleParts, sample_event_index, sample_index)),
  answer <- Answer("sample")

LineParts == [i \in DOMAIN samples |-> [tag |-> samples[i].event, size |-> samples[i].lines]]

HasLines == \A i \in DOMAIN samples : samples[i].lines > 0

LinesLeft == IF HasLines THEN IfFresh("annotate", Left(LineParts, annotate_event_index, annotate_index))
                         ELSE Unknown

\* It is wperf_sample that collects the lines.
LinesSaid == IF HasLines
               THEN IF "annotate" \in fresh /\ said.of = "sample" /\ said.item = Collected
                      THEN Collected ELSE Answer("annotate")
               ELSE Elsewhere

LineList == INSTANCE Generator WITH
  list <- Left(LineParts, 0, 0), todo <- LinesLeft, answer <- LinesSaid

TestList == INSTANCE Generator WITH
  list <- Rest(TestRows[3], 0),
  todo <- IfFresh("test", Rest(tests, test_index)), answer <- Answer("test")

\* wperf_list_events yields every event once, in order, whatever other
\* routines are called in between; collected again, from the first.
EventsGenerate == EventList!Spec

\* wperf_list_metrics yields every event under the name of its own metric,
\* although moving on overwrites names in the list it walks.
MetricsGenerate == MetricList!Spec

\* wperf_stat yields every count of every core once and under its core, until
\* another collection, or a sampling, takes its place.
StatGenerates == StatList!Spec

\* wperf_sample yields every symbol of every event once.
SamplesGenerate == SampleList!Spec

\* wperf_sample_annotate yields every line of every event once, if every event
\* was hit at some line; if not, it reads past the end (wperf-lib.cpp:1171) and
\* only AnnotateReadsInBounds is claimed.
LinesGenerate == LineList!Spec

\* wperf_test yields every row of the last call that succeeded, and none that
\* an earlier call left unread or a failed one left behind.
TestsGenerate == TestList!Spec

\* The lists of the C API are the generators its comments promise (wperf-lib.h:150,
\* 210, 451, 569, 659, 782), each on its own and whatever the others do: once
\* collected they begin with their first element.  wperf_sample_annotate is one
\* as long as every event sampled has a line.
Generates == /\ EventsGenerate /\ MetricsGenerate /\ StatGenerates
             /\ SamplesGenerate /\ LinesGenerate /\ TestsGenerate

\* wperf_sample_annotate reads past the lines of an event only when some event
\* was hit and none of its hits could be put down to a line.
AnnotateReadsInBounds ==
  said.of = "annotate" /\ said.item = Garbage =>
     \E i \in DOMAIN samples : samples[i].hits > 0 /\ samples[i].lines = 0

\* A process that a call spawned does not outlive it, through timelines,
\* failures and denied requests, but for the return of SampleUnnamed.
ChildEndsWithCall == pc = "idle" => child # "running"

\* After wperf_close the lock is no longer this process's, and while a session
\* is open it is its device's or was taken by force.  A caller that closes after
\* every wperf_init, successful or not, has left it to others when it is done.
\* One that does not close after a failed wperf_init may keep it, for good.
LockGivenBack ==
  /\ device = "deleted" => holder \notin {"device", "leaked"}
  /\ opened => device = "held" /\ holder # "leaked"
  /\ habit = "doc" /\ pc = "exited" => holder \notin {"device", "leaked"}

\* wperf_close has not yet deleted what a session that is open has, so that it
\* deletes that once.  A caller that closes only what was opened deletes nothing
\* twice; one that closes after a wperf_init that answered false, too, deletes
\* the __pmu_cfg of its last session again (wperf-lib.cpp:113-114).
DeletedOnce ==
  /\ opened => cfg = "live"
  /\ habit = "app" => cfg # "deletedTwice"

\* What a session that wperf_init opened has, wperf_close gives back, once: the
\* lock, the device and its configuration.  After a wperf_init that failed, only
\* habit doc gives back the lock, and only habit app deletes nothing twice.
SessionKept == TypeOK /\ LockGivenBack /\ DeletedOnce
=============================================================================
