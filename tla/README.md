# A TLA+ model of WindowsPerf

WindowsPerf is a profiler for Windows on Arm: a kernel driver
(`wperf-driver`) that owns the performance monitoring unit (PMU) of every core,
and user programs (`wperf`, `wperf-lib`) that ask it to count events or to sample.
Most of what is hard to get right is in the driver: requests of several
processes, work items that touch one core's registers, periodic timers with DPCs,
and an overflow interrupt share state, mostly without locks. The user programs drive it
through long sequences of requests any of which can fail or be refused. Both are
modelled here. Run everything from this directory, for example

    tlc -config DriverLock.cfg MCDriverLock.tla
    tlapm DriverLock_proofs.tla

## 1. The system

### Components, their state and their operations

| component | sources | state | operations |
|---|---|---|---|
| driver lock | `utilities.c`, `devioctl.c` | `current_status` (status, owner's file object, `pmu_held`) | LOCK_ACQUIRE (plain, forced), LOCK_RELEASE, the `IsLockOwner` test of other requests |
| PMU lease | `device.c` | `pmc_resource_handle`, `counter_idx_map`, `numFreeGPC`, the HAL's allocation | `get_pmu_resource`, `free_pmu_resource` |
| queue, work items | `queue.c`, `workitem.c` | one request and one work item at a time | sequential dispatch; enqueue and flush |
| counting | `devioctl.c`, `workitem.c`, `dpc.c`, `core.c` | per core: PMCR, counters, `events[].value`, timer, DPCs | ASSIGN_EVENTS, START, STOP, RESET, READ_COUNTING; tick, reset and default DPC |
| multiplexing | `dpc.c` | per core: `timer_round`, `scheduled`, what each counter is programmed for | `multiplex_dpc`, `overflow_dpc` |
| sampling | `device.c`, `devioctl.c`, `workitem.c` | per core: sample buffer and index, `SampleLock`, tallies, `ov_mask`, interval registers | SAMPLE_SET_SRC, _START, _GET, _STOP; overflow interrupt |
| device life cycle | `device.c`, `driver.c` | `InUse`, `AskedToRemove`, `running` | FileCreate, FileClose, QueryRemove, IOCleanup, suspend/resume |
| SPE driver | `spe.c`, `spe.h` | profiling buffer, `lastCopiedPtr`, `spe_bytesToCopy`, timer | SPE_INIT, _START, _STOP, _GET_SIZE, _GET_BUFFER; overflow DPC |
| DSU | `dsu.c` | counters shared by a cluster | same requests, flag `CTL_FLAG_DSU` |
| DMC | `dmc.c` | counters of memory controllers | same requests, flag `CTL_FLAG_DMC` |
| `wperf` | `main.cpp`, `pmu_device.cpp` | `lock_successful`, `raw_samples`, results | the order of requests of count, sample, record and list runs |
| padding | `padding.cpp` | event list sent to the driver | lays groups out in windows of counters |
| command line | `user_request.cpp`, `parsers.cpp` | the request | two passes over the arguments; event lists, groups, sampling sources |
| text out | `metric.cpp`, `output.cpp`, `json.h`, ... | none that outlives a call | formatting |
| SPE parser | `spe_device.cpp` | parser state | packets to records |
| `wperf-lib` | `wperf-lib.cpp` | globals: session, results, iterator positions | C API: initialise, collect a list, yield it, close |
| `wperf-devgen`, installer, scripts | | none | install and test |

### How they interact

* A process opens the device (FileCreate), acquires the lock (LOCK_ACQUIRE also
  leases the counters from the HAL and queues two DPCs on every core), sends
  requests, releases the lock, closes the handle.
* The driver's queue is sequential, so requests never overlap. A request that
  must touch a core's registers enqueues a work item, which moves to that core,
  and waits for it.
* START sets a periodic timer on every core. Its DPC adds the counters to
  `events[].value`, resets and restarts them. DPCs run on their own core, at any
  time with respect to the queue's thread on another core.
* While sampling, a counter's overflow interrupts its core. The interrupt shares
  the buffer with SAMPLE_GET under a spin lock it only tries to take.
* `wperf` is one thread of requests around a process it spawns or finds, with a Ctrl-C
  handler of its own; whatever ends a run, it should give the lock back and end what it
  spawned. A user of `wperf-lib` calls it in any order.
* A forced LOCK_ACQUIRE takes the lock from its owner, alive or dead, and leaves
  timers, DPCs, counters and interrupts as they are.

### What is hard, and what correct means

The list with source lines is `hazards` in PROJECT.json. In short:

* **Lock.** A client can die, be forced out, find the HAL exhausted, or come
  back with the address of a closed file object. Correct: the fields of the lock
  agree, counters are leased exactly while it is held, force always works, and a
  client whose release succeeded had the driver to itself.
* **Counting.** Timers are cancelled but DPCs they have queued are not; RESET queues DPCs
  and does not wait for them. Correct: nothing counted before RESET is reported after it,
  a started core counts, a released driver is quiet.
* **Multiplexing.** The current window is computed, not stored. Correct: every count goes
  to the event it was counted on, and every event gets its share.
* **Sampling.** Interrupt against thread. Correct: every sample is accounted for once
  and in order, the spin lock is always released, and stopping stops.
* **SPE.** One buffer, one pointer into it and one running total serve every core and
  every client; the pointer is read in one request and used in the next. Correct: a client
  gets what its core wrote, once, in order and all of it.

* **DSU and DMC.** Counters shared by cores, collected on the timers of several. Correct:
  what they counted is credited once, and a number is not made of two events' counts. Which
  event a DSU counter counts, and the counts of clk events, the code gets wrong (section 3).
* **Device life.** Handles open and close in parallel with removal. Correct: nothing runs
  on freed memory, and a removal is answered and ends.
* **`wperf`.** Any request can be refused because someone forced the lock, anything can
  fail, and the user or the process can end the run. Correct: a run ends, leaves nothing
  behind, reports only its own numbers and under the right names.
* **`wperf-lib`.** Positions of lists in globals. Correct: collected, each list is yielded from
  its beginning, once and in order, however calls are mixed; what a session has is given back once.

## 2. The modules

| module | models | state and actions against the code |
|---|---|---|
| `LockSpec` | what the lock promises | `holder`, `lease`; Grant, Steal, Release |
| `DriverLock` | the lock, the lease and the clients' view of both | the fields of `current_status`, the three globals of the lease, `hal` for the HAL's own record; one action per outcome of each IOCTL, `FileCreate`, `FileClose` |
| `MCDriverLock` | | instances of DriverLock for TLC |
| `CoreCounting` | counting: thread, work items, timers, DPCs | `pc` and `todo` are where the queue's thread is in its loop over cores; `queued` and `exec` are the DPC queue and the DPC a core is running |
| `Multiplex` | one core's ticks, event by event | `programmed` is the PMU's type registers, `timer_round` and `scheduled` the driver's |
| `Sampling` | one core's interrupt against the IOCTLs | `isr` is how far the interrupt is, `pc` how far the IOCTL; `samples`, `sample_idx`, tallies and `SampleLock` as in `CoreInfo` |
| `SpeBuffer` | the profiling buffer and its watchdog | `mem`, `lastCopied`, `bytesToCopy` are the driver's globals in records, `ptr`, `enabled`, `full` each core's PMB registers; SPE_START and SPE_STOP are split at the work item and at each register a DPC or an old writer could meet |
| `Uncore` | DSU and DMC counters: requests and ticks | `dsuReg`, `dmcReg` are the shared counters, `dsuEvents`, `clk`, `clkdiv2` the driver's events; one action per IOCTL, a DSU tick split between reading and clearing the counters |
| `DeviceLife` | creation, handles, suspension, QueryRemove, IOCleanup | `InUse`, `running`, `AskedToRemove`, `core_info`; `pnp` is the callback the PnP manager is in, `handler` the step of the queue's thread; `InUse++` is a load and a store |
| `Generator` | what `wperf-lib.h` promises of each listing call | `list`, which it only reads, `todo`, `answer`; Collect, Yield, NoMore |
| `LibSession` | `wperf-lib`: session, collections and the positions of its six lists: events, metrics, counts, samples, annotations, tests | the globals and function statics of `wperf-lib.cpp` by their names; a collection is a sequence of requests at `pc`, a yielding call one action |
| `EventRequest` | event lists, groups and padding | pure: `parse_events_str`, `set_event_padding`, folds over tokens and groups |
| `Catalog` | what names stand for: events and metrics of the architecture, the product and the files of `-C` and `-E` | pure: the tables of `metric.cpp` and of the product as constants, `get_event_index`, the list of `wperf list` |
| `CommandLine` | the two passes over the arguments | pure: `init(args)` is the request or how parsing it ends |
| `StatReport` | what is made of the counts that are read: tables, totals, metrics, files of a timeline | pure: a count is where it was read, the core, cluster or channel and its place in the reading |
| `SpeRecords` | packets and records of the profiling extension | pure: `add` is one byte, `read_spe_buffer` the records of a buffer; `Encode` is what hardware writes |
| `WperfRun` | a run of `wperf`, with another `wperf`, the process and Ctrl-C | `pc` is the next request or call of `main.cpp`; `request` is what `CommandLine` makes of `args` |
| `MCUncore`, `MCLibSession`, `MCWperfRun` | | instances for TLC: requests, metrics, command lines and profiles |
| `DriverLock_proofs`, `CoreCounting_proofs`, `Sampling_proofs`, `SpeBuffer_proofs`, `Uncore_proofs`, `LibSession_proofs`, `WperfRun_proofs`, `MultiplexDevice_proofs` | theorems | a module for each module they are about, but for `Multiplex` and `DeviceLife`, which share one: of two state machines that one module extends the names must differ, so `Multiplex` has `multiplexVars`, `MultiplexInit` and so on; `WperfRun_proofs` is about `EventRequest`, too |

`DriverLock` implements `LockSpec` (`ImplementsLock`): `file_object` is the holder, and
the lease is the index map while the driver is busy. The six lists of `LibSession`
implement `Generator` (`Generates`), with the whole list as `list` and what is left of it from its positions as
`todo`: a collecting call is a `Collect` only if it leaves the positions at the first element. That of
annotations does as long as every event sampled has lines; else it can read past its end, of which there is a
property of its own (`AnnotateReadsInBounds`).
`WperfRun` extends `SpeRecords` and `StatReport`, which extends `CommandLine`, which extends
`Catalog`, which extends `EventRequest`.

Atomicity. In `DriverLock` one IOCTL is one action, which the sequential queue
justifies: only opens, closes and other kernel modules interleave with it, and
they share with it nothing it reads twice. In `CoreCounting` a step is one core's
turn of one loop; LOCK_GET_FORCE is split where AcquireLockForce comes after
`get_pmu_resource` has queued its DPCs, and a tick is split between reading
`value` and writing it. In `Sampling` the interrupt is split at every access to
what SAMPLE_GET, SAMPLE_START or the summary share with it. A work item runs on
the core itself, so its steps wait until that core is in no DPC or interrupt.

In `Uncore` and `WperfRun` one request is one action: what happens inside it is the matter
of the modules above. In `LibSession` the requests of a collection are actions, between
which others take the lock. In `DeviceLife` the loops over cores are a core a step.

Abstractions.

* `CoreCounting` keeps of a count only where it comes from: `none`, `new`
  (this measurement) or `old` (something before it is in it). An event that
  happens before the client's RESET has begun is old. Errors in *how much* is
  counted are not visible, errors in *what* is counted are.
* `Multiplex` keeps of a value the set of events counted in it.
* `Sampling` numbers samples; a zero frame is 0. Of a counter it keeps whether
  it counts towards its interval (`loaded`) or is its full range away.
* `SpeBuffer` numbers records; a zeroed one is 0, one of a client that died is -1.
  Filters and latencies are left out. A client dies between two requests, because the
  driver finishes the one it has begun.
* `Uncore` lets every event happen once per unit of time, so a number is how much time it
  was counted, and keeps with it the events it was counted on.
* `WperfRun` keeps of a text only what parsing tells apart: a token has a class, a form
  and a number, an argument a word and a value. Durations go in the loop's steps; one that
  never ends goes round by tens. Samples are an address and the counters that overflowed.
* `LibSession` keeps of counts and samples how many there are for each core and event.
* Validation of requests (sizes, flags, core numbers) is left out: clients send
  what `pmu_device.cpp` sends.
* History variables (`meddled`, `torn`, `overran`, `inherited`,
  `disturbed`, `trace`, `strayed`, `made`, `mixed`) are read by
  properties only.
* `sync_reset_dpc` and `cpunos` are left out of `CoreCounting`. The driver waits
  on the event with a timeout of zero, so they influence nothing.

Idealisations to know about.

* HAL counters taken by other modules are taken and given back one at a time,
  at any moment.
* `numFreeGPC` counters are modelled by position in `Multiplex` and by
  identity in `DriverLock`.
* A DPC queued with high importance may overtake another, so any queued DPC of
  a core may run next, and the order of two is never relied on.
* In `Sampling`, `sample_idx++` of the interrupt races with SAMPLE_START's
  plain store; both outcomes a compiler can produce are in `PmiAdvances`.

## 3. What is checked

| run | bounds | shows |
|---|---|---|
| `DriverLock.cfg` | 3 clients, one of which also uses SPE, 2 counters, every failure of the HAL | `TypeOK`, `LockSound`, `UndisturbedSession`, `NoOrphanCounters`, `ForceRecovers`, `ImplementsLock` |
| `CoreCounting.cfg` | 2 cores | `TimersInOrder`, `FreshValues`, `StartedCounts` |
| `CoreCountingLive.cfg` | 1 core | `CountingResumes`, `CountsCollected` |
| `Multiplex.cfg` | 3 counters, up to 7 events, 9 rounds | `FairShare`, `GroupsCountTogether`, `TrueCounts` |
| `MultiplexTimeline.cfg` | 3 counters, 4 events, repeated measurement | violates `TrueCounts` |
| `Sampling.cfg` | cycle counter and one other, buffer of 2, 3 samples | `SamplesKept`, `LockReleased`, `SamplingGoesOn`, `StoppedIsQuiet` |
| `SpeBuffer.cfg` | 2 cores, 2 clients in turn, 3 records | `TypeOK`, `Conserved`, `FetchedAll`, `CopiesInBounds`, `NotCutShort` |
| `LibSession.cfg` | 2 events, 2 metrics, counting on one or two cores, two counts a core and round (`Asked`; the proof is for any), samplings with lines and without, 3 lists of tests, another process | `SessionKept`, `AnnotateReadsInBounds`, `ChildEndsWithCall`, `Generates` |
| `Uncore.cfg` | a cluster of 2 cores, 1 memory controller, 2 clients in turn, 3 requests, 2 ticks a core | `Conserved`, `StartedCounts` |
| `DeviceLife.cfg` | 2 cores, 2 file handles | `TornDownInOrder`, `RemovalAnswered`, `RemovalEnds` |
| `WperfRun.cfg` | 60 command lines, 3 cores in 2 clusters, 4 counters, 2 samples, profiles of a few records, up to 2 failing calls | `LeavesNothing`, `OwnResults`, `LaidOut`, `SamplesNamed`, `TablesTell`, `MetricsTogether`, `ColumnsNamed`, `RunEnds` |
| `WperfList.cfg` | `wperf list`, with and without events of the user's own | violates `ListedCanBeAsked` |

Several properties are conjunctions of named parts, which their modules state and comment one
by one: `LockSound` is `LockAgrees` and `LeaseIsLive`, `TimersInOrder` is `TimersKnown` and `ReleasedQuiet`, `SamplesKept` is `Accounting`
and `InOrder`, `SamplingGoesOn` is `KeepsSampling` and `DisarmedByDrop`, `TornDownInOrder` is
`FreedIsQuiet` and `StallHolds` with `TypeOK`, `Uncore!Conserved` has
for the DSU a part about amounts, one about what `wperf` reports of them and one about the events they are of
(`DsuConserved`, `DsuReported`, `DsuCountsOwn`), and two about clkdiv2 events (`Div2Conserved`,
`Div2CountsOwn`), all with `TypeOK`. `SessionKept` is `TypeOK`, `LockGivenBack` and `DeletedOnce`,
`Generates` a property of each of the six lists.

Why the bounds suffice. Three clients allow an owner, one who takes over and one
who meddles or is refused; two counters allow one that is free and one that is not.
Two cores allow a loop to be between cores and a client to count on one core while
another core still has the last client's timer. Seven events on three counters wrap
the window with every remainder, and nine rounds pass the full cycle of seven
(theorem `Fairness` covers every other number). A buffer of two is empty, partly
full and full, and three samples overflow it. A second SPE client meets all the first can leave
behind: a running unit, a set timer, a queued DPC, a total, a full buffer. `CoreCounting` has no
bounds but the number of cores. In `Uncore` the second client meets what the first left running,
its core is not the one the cluster is read on, and two events share one counter. Two handles can
overlap in `InUse`, or one can hold up the removal the other asks about. The command lines of
`MCWperfRun` take every branch of the parser and of the run: each kind of mistake, groups with
every remainder of a window, every mode with and without `--force-lock`, `--timeout`, a process,
a timeline. One fault is one at every call of the run; a second meets what the first left, as when
the unlock fails after a process that turned out to have no name. Three cores in two clusters
make a cluster that is not full, and four counters that are not the first four of the hardware tell
a counter's number from its position. Two samples tell two functions or two counters apart.
`MaxRound`, `MaxSamples`, `MaxSessions`, `MaxUnits`, `MaxRounds`, `MaxClients`, `MaxCounts`,
`MaxFrames` and `MaxFaults` are the bounds in guards; `Together` bounds which lists of
`wperf-lib` one caller mixes.

No run uses symmetry. Deadlock is checked
but in `SpeBuffer` and `Uncore`, where no client need come after the last, `DeviceLife`, where
the device is gone in the end, and `WperfRun`, where the program has exited.

Fairness. `CoreCounting!FairSpec`: queued DPCs run, a set timer expires, and the
thread finishes a request it has begun. These are the kernel's scheduling
guarantees. Nothing is assumed of clients, which may stop at any point, and no
event is assumed to happen. A core is only ever asked to resume while the
client is in its `started` phase. `DeviceLife!FairSpec`: the queue's thread finishes the IOCTL it is in,
callbacks that were called return, the PnP manager carries on with the callbacks it has begun,
and whoever holds a handle closes it sooner or later, because its requests are refused.
`WperfRun!FairSpec`: `wmain`, one sequential thread, goes on while it can; nothing is
assumed of the user, the process or the other `wperf`. `RunEnds` is about runs whose user presses
Ctrl-C or whose process ends.

### What the violations show

`TrueCounts` with `Timeline`: RESET (`devioctl.c:752`) rewinds `timer_round` and not the counters'
programming. From the second count of `wperf stat -t` on, the first round of a
multiplexed event holds another event's count.

`ListedCanBeAsked`: `list` shows the events of the product (`pmu_device.cpp:1286-1289`), and `-e` looks
names up among those of the architecture and the user's own (`parsers.cpp:383`). An event only the
product has, such as `trb_wrap`, is listed and refused as unknown, against README.md:84 of `wperf`.

### Seen while modelling

Kept in the models as the code has them, and no property claims otherwise:

* Requests of `SPE_IOCTL` (`spe.h:68`) do not test ownership, against README.md 247-248 of
  `wperf`; with them `UndisturbedSession` fails.
* RESET waits for its DPCs with a timeout of zero (`devioctl.c:773`), so it does not. A late
  reset DPC stops the counters of a measurement under way; `CountingResumes` shows that the next
  tick restarts them.
* The sampling interrupt's drop paths (`device.c:128-140`) return without reloading the
  interval. `SamplingGoesOn` shows that nothing else disarms a source.
* `spe_start` sets the timer and `profiling_running` before its work item resets the pointer
  (`spe.c:347`, `:349`, `:76`). A DPC in between takes the last session's full buffer for this
  one's, and nobody watches this session's buffer. The unit itself stops at the
  limit, so nothing is overwritten (`Conserved`).
* The samples since the last fetch, of which there is one a second, are lost when the program that is
  sampled ends (`main.cpp:745-797`): a shorter run reports nothing, and succeeds.
* `wperf sample` goes on when no process has the name it was given. `--timeout 0` is for ever.
* `do_version` and `do_test` (`main.cpp:243`, `:261`) are outside of any `try`: an exception there
  keeps the lock until someone forces it.
* A group whose last event is written in digits, `{a,0x1b}`, is never closed, because the number's
  parser ignores the brace (`parsers.cpp:327`), and has no header. The walk of `padding.cpp:59-102` takes what
  stands where a header should: it drops the event, or reads its number as the group's size.
* Reads whose outcome the language leaves open, which the models end or leave undetermined: a group
  of events of different classes (`parsers.cpp`) or one whose size is an event's number
  (`ReadsBeyond`), a record of the profiling
  extension without an event of a known name (`spe_device.cpp:273`).
* Formulas of `neoverse-n3.def:288,319,325` and `neoverse-v3.def:318,349,355` name `cpu_cycle`, which
  is none of the metric's events: the metric is always zero. `neoverse-n2-r0p3` has the numbers of
  its relatives and is never the one detected. A metric of `-C` with the name of a product's
  keeps the product's formula, whatever its events (`MetricsTogether` exempts it).
* The place of a cluster in what `wperf` reports of a DSU holds what the cluster's last core
  collected (`pmu_device.cpp:1231-1241`). Counting on all cores that is nothing, because only the first core
  of each cluster collects (`devioctl.c:690-691`); counting on several it is that core's share.
* The work item that programs a DSU's counters takes the events from `core->events`
  (`workitem.c:146`), not from `core->dsu_events`; `Uncore` has what that makes of them. Without
  multiplexing, and in the first round with it, a DSU number is therefore of whatever event its counter
  was given, not of the one asked for (`DsuCountsOwn`).
* Without a DSU, events of one are accepted all the same: the loop of `devioctl.c:147` with clusters
  of no cores does not end, and `pmu_device.cpp:1229` divides by zero. The models have
  a DSU wherever one is asked for.
* Reading a memory controller's clk events starts at `DMC_CLKDIV2_EVT_NUM` (`dmc.c:129`), the number of
  clkdiv2 events there can be and not of those there are; and assigning clkdiv2 events empties the list of clk
  events assigned before (`devioctl.c:1079`). The model has both, and no property promises anything of clk
  counts but that their counters, once started, are not left stopped (`StartedCounts`).
* `wperf_close` clears neither of its pointers (`wperf-lib.cpp:110-115`): a caller that closes after a `wperf_init`
  that failed deletes the `__pmu_cfg` of its last session again. One that does not close keeps the lock the
  failed `wperf_init` may have taken.
* What a core counted since its last tick is not collected by STOP (`devioctl.c:731`): up to one period
  is missing from each value.

### Where a property has an exemption

Each exemption is a race or a failure the code really has, kept in the model and named by a
history variable, so that the property says exactly how far the code can be trusted:
`FreshValues` exempts a core where RESET zeroed values under a running tick
(`torn`); `StartedCounts` one whose reset DPC came late (`overran`); the sampling
properties a run where the interrupt started the counters before SAMPLE_START, or a
DPC of LOCK_ACQUIRE ran late (`disturbed`); `StoppedIsQuiet` a client that forced
the lock (`inherited`) or whose DPCs are still queued; `NoOrphanCounters` a failure
of KeSetHardwareCounterConfiguration, after which the code returns with the
counters kept (`device.c:343`); `SpeBuffer!Conserved` and `FetchedAll` exempt a client
whose SPE_START found another core's unit still writing for a client that died
(`strayed`): both write into the same buffer. `Uncore!Conserved` exempts a cluster
on which two ticks overlapped or one of another client's timers ran (`mixed.dsu`), and the controllers while two
ticks overlap there (`mixed.dmc`). Of the events DSU numbers are of (`DsuCountsOwn`) it says less: without
multiplexing, that a number is all of the event its counter is programmed with, which need not be the one asked
for (`workitem.c:146`); with multiplexing, that it is of the event asked for, for events after those of the first
round (`j > dsu_numGPC`), on a core that ticks for its cluster alone and whose round no tick from before START
has moved on (`mixed.rounds`). Clk events are in no part of it (`dmc.c:129`, `devioctl.c:1079`).
`SessionKept` asks both things of every session that `wperf_init` opened: the lock is given back, and the
configuration was not deleted before it is. After a `wperf_init` that failed it asks one thing of each habit:
a caller that always closes (`doc`) leaves the lock to others, but may delete `__pmu_cfg` again
(`wperf-lib.cpp:113-114`); one that closes only what was opened (`app`) deletes nothing twice, but may keep the lock.
`LinesGenerate`, the part of `Generates` about annotations, exempts samples of which some event has no line
(`wperf-lib.cpp:1171`).
`StallHolds` and `RemovalAnswered` exempt file callbacks that overlapped in `InUse`
(`overlapped`), `StallHolds` also a handle opened after the wait for handles was over (`late`).
`AnnotateReadsInBounds` exempts events that were hit at no known line, where
`wperf_sample_annotate` does read past the lines; `ChildEndsWithCall` exempts the return at `wperf-lib.cpp:780`, which
forgets the child. `LeavesNothing` exempts a process that turns out to have no name, which is thrown before
`spawned_process` is set (`main.cpp:576-581`, `nameless`), a run that is killed by Ctrl-C before
the handler is there or by an exception no `try` is around (`killed`), and an unlock that itself fails
(`unlock_failed`). `why` is the set of exceptions a run has met, since the unlock can fail after another.
`MetricsTogether` exempts metrics that `-C` has redefined, `ColumnsNamed` headers that the code
lays out by another count than its lines (`HeadedWell`).

## 4. What is proved

For every set of clients, every number of cores, counters, handles and events, every command line, and
measurements of any length. Assumptions are only those on the constants, named in the
modules that declare them; TLC evaluates each of them in a run. Every safety invariant that a run checks
is proved, but for five of `WperfRun` named at the end. Each module of proofs has the same plan: an inductive invariant made
of named parts, one lemma a part saying that every action keeps it, with a step for each
action, and theorems that draw the properties from it.

`DriverLock_proofs`:

* `Typing`: `TypeOK`.
* `LockSafety`: `LockSound`. With `TypeOK` its two parts form `LockInv`,
  which is inductive: a lease is only ever taken by an idle driver (which
  `LockAgrees` ties to `pmu_held = 0`), so what `GetSucceeds` leases was free, and
  no other module takes a counter the driver owns.
* `Exclusive`: `UndisturbedSession`. The invariant says
  that only the owner can be `finished` next, and that no request that looks at the lock has cut into
  the owner's session as long as it is the owner: every action that meddles in a session either is the
  owner's own or takes ownership away, but for SPE requests, which `meddled` tells apart.
* `NoOrphans`: `NoOrphanCounters`. The invariant says that
  the counters the HAL sees as the driver's are those of the handle while the
  lock is held, or were leaked when configuration failed.
* `Refinement`: `DriverLock` implements `LockSpec`.
* `ForceAlwaysRecovers`, `TakeOverOnlyByForce`: two action properties.

`CoreCounting_proofs`, for any number of cores:

* `Inductive`: `CountingInv`. The properties speak of the client's phases, between two requests; the
  invariant says what holds half way through a request, of the cores its loop has visited and of those
  still in `todo`. `Control` ties the thread's place to the phase.
* `TimersSafe`: `TimersInOrder`. Of the cores LOCK_RELEASE has visited the timer is
  gone and nothing waits; of the core it is at, the timer is gone before the DPC is removed, so nothing
  can queue it again.
* `CountingStarts`: `StartedCounts`. A counter that is not running is about to be restarted by the tick
  that stopped it, or a reset DPC has come late (`Runs`).
* `ResetIsClean`: `FreshValues`. Freshness has to be claimed of the counters, of the values and
  of what a tick has read and not yet written, together (`Fresh`): each flows into the next.

`MultiplexDevice_proofs`, of `Multiplex`:

* `Typing`: every variable keeps its type.
* `Fairness`: `FairShare`. That is not inductive; `ShareInv` is, and gives
  `scheduled` in closed form: with `Turns = numFreeGPC * timer_round`, event e has been
  scheduled `Turns \div numEvents` times, once more if `e < Turns % numEvents`. The
  lemmas above it (`Division`, `DivisionUnique`, `Advance`, `WindowMembers`) are the
  arithmetic of the rotating window.
* `GroupsStayTogether`: `GroupsCountTogether`, from the closed form too: when the events come in whole groups
  of `numFreeGPC`, `Turns % numEvents` is a multiple of it, and a multiple separates no two members
  of a group (`GroupBoundary`).
* `Attribution`: `TrueCounts` when measurements are not repeated. The inductive
  invariant `WindowInv` says that while counting, each counter is programmed for
  the event that `timer_round` gives it; RESET keeps it only because
  ASSIGN_EVENTS came just before, which is what a repeated measurement
  breaks.

`Sampling_proofs`, for any sources, size of the buffer and number of samples, from `SamplingInv`:

* `LockAlwaysReleased`: `LockReleased`, which is inductive with the typing.
* `NoSampleLost`: `SamplesKept`. What the client resolves, the buffer in its order and the sample in the
  interrupt's hands are, in this order, as many increasing numbers as were given out and not dropped
  (`Counted`, `Ordered`); `InSlot` says that the frame the interrupt is writing is the latest and lies behind
  all others, for which `Tallies` shows that room it has found is still there when it advances.
* `NeverStalls`: `SamplingGoesOn`. A source without its interval has overflowed, is in the interrupt's
  hands or was dropped (`ArmedInv`).
* `StopIsFinal`: `StoppedIsQuiet`, of which `QuietInv` says what is enabled before and after.

`SpeBuffer_proofs`, for any cores, clients and size of the buffer:

* `Typing`, `NothingLost`, `Complete`, `NoOverrun`, `SamplingGoesOn`: all five invariants of
  the run, from the inductive `BufferInv`. It says where `lastCopiedPtr`, the total and
  the pointer stand to each other at each point of the protocol (`Positions`), that after
  STOP the pointer no longer moves (`Halted`), that no other core writes
  (`Alone`), and that records are numbered in the order they are written
  (`Contents`), from which `Conserved` follows position by position. `OnlyAtLimit` is
  the unsigned comparison of the DPC: below the limit the difference wraps to
  more than the threshold, since `Limit + Threshold < Width`.

`MultiplexDevice_proofs`, of `DeviceLife`, for any number of cores and handles, fewer than a USHORT has values:

* `TearDown`: `TornDownInOrder`. `CleanInv` follows the removal step by step: once the queue is stopped
  its thread is given nothing, when it has been waited for it is idle, and the cores IOCleanup has
  visited stay quiet, because only that thread sets timers and only timers queue DPCs.
* `InUseIsTrue`: without overlapping callbacks `InUse` is the number of handles (`CountInv`): the one
  callback under way has read what is still there. `StallHolds` rests on it.

`LibSession_proofs`, for any product, lists of cores, samples and caller, from `LibInv`:

* `SessionGivenBack`: `SessionKept`, with an invariant of the device, the lock and who closes what (`SessionInv`):
  of an open session the lock and a configuration that is not yet deleted, of a failed `wperf_init` what each
  habit does about it.
* `ChildrenEnd`: `ChildEndsWithCall`: a child runs only inside of the calls that spawn one.
* `AnnotateInBounds`: `AnnotateReadsInBounds`: one event without lines is all it takes, and the only
  way.
* `ListsAreGenerated`: the six lists implement `Generator` (`Generates`), each by a theorem of its own
  (`EventsAreGenerated`, `MetricsAreGenerated`, `StatIsGenerated`, `SamplesAreGenerated`, `LinesAreGenerated`,
  `TestsAreGenerated`), step by step. A call that collects leaves the positions at the first element, which for counts
  and samples they are from the first request of the collection on; so what is left then is the whole
  list. Of the other steps: lemmas such as `EventsTouched` say which calls touch the list at all, and every other one is a
  step of the `Generator` that leaves it alone; a call of `wperf_test` that fails leaves rows that are never
  yielded. What is left of a list of metrics, counts or samples is the concatenation of the parts not begun and
  the rest of the one that is; `FreshInv` says where its positions can be while it may be yielded, above all
  that `wperf_list_metrics` has overwritten only the names it has passed, and that no core in `cores_idx` is
  without counts. `FlattenFromHead` gives the concatenation one part at a time.

`Uncore_proofs`, for any number of cores, clusters, counters and memory controllers and for any requests, from
`UncoreInv`:

* `UncoreInvariant`: it is inductive. `Conserved` is silent about the middle of a tick, where the values have what
  the counters still show; the invariant says how it stands there: a cluster in a tick has stopped, the one core
  that ticks for it is the client's own, and what its counters show has been credited, so it no longer
  counts (`DsuLeft`, `Balanced`; `DmcLeft` for the controllers, whose counters also keep the types of the client's
  events). Around that, what is assigned is what was asked for (`AssignedInv`) and a core that multiplexes
  has events (`ProfInv`). Whose counts they are `DsuOwnInv` says: those in a counter are of the type it is programmed
  with, those credited of the event of their place, because in every round but the first a counter has the type of the event
  (`Turned`) of the round that the core's counters are programmed for, which inside of a tick is one ahead of
  `timer_round` (`Rounds`), as long as no other core turns it (`Followed`). What the first round credits lies within the
  first `dsu_numGPC` events, of which nothing is said.
* `StartedKeepsCounting`: `StartedCounts`. `CountsAreConserved`: `Conserved`. Where events share
  counters, a tick gives every counter to exactly one event, so the sum over events of the sums over their turns is
  the sum over the counters (`SumParts`), whatever `timer_round` says.

`WperfRun_proofs`, for every command line and any number of failures, from `RunInv`:

* `NothingIsLeft`: `LeavesNothing`. A process that was started and runs is one
  the run knows of until the exit ends it (`ProcessInv`), and who owns the lock knows that it must be given back
  (`LockInv`); `Control` says which steps belong to which kind of run, and where the Ctrl-C handler is installed.
* `ReportsItsOwn`: `OwnResults`. As long as the lock is its own, what was programmed and read is the run's own
  (`ResultsInv`); what is read after the lock is lost, which the profiling extension allows, is never reported,
  because a request that the driver refuses comes in between.
* `ListParsed`: whatever tokens are parsed, for whatever metric and on top of whatever lists, what comes of them
  is events by their numbers, and a header's size is between 1 and the counters of its class: `Refused` sees to
  that. `EmptyLists` and `ListsJoined` are the other ways in which `CommandLine` makes such lists.
* `PaddingLaysOut`: for any such lists and any number of counters the list the driver gets has whole windows, every
  group lies in one of them, in its order, and its note is on its slots and no others; every event that is in no
  group stands once, in its order, and what is left is padding (`IsLaidOut`). It assumes that every
  header is where the walk of `padding.cpp` looks for one (`WellHeaded`), as `LaidOut` does, and that the walk stays within the
  list. The invariant is `LaidSoFar`, from group to group: the list is of whole windows, and ends with
  less than one of padding. So the padding a group may take lies within the last window, and a group that does not
  take it begins a new one. Later groups and events fill up padding and nothing else (`Extended`), which keeps
  what is laid.

Induction. The library's induction schemes take an operator as a parameter and cannot be used. Where a sum, a
concatenation or a finite set called for induction it is done from the least counterexample
(`LeastNumber`, `SubsetInduction`): the library's order on the numbers is well founded, so a
nonempty set of numbers has a least member. Of the recursive functions of the community modules (`SumFunction`,
`FlattenSeq`, `FoldLeft`) it is shown first that the function the recursion describes exists, then what it
computes (`SumExists`, `SumIs`). A fold goes through a sequence of states, one for each element (`FoldExists`,
`FoldRuns`), along which an invariant is proved from the least state that breaks it (`LayRuns`, `AllLaid`).

Only model-checked:

* `LaidOut`, `SamplesNamed`, `TablesTell`, `MetricsTogether` and `ColumnsNamed` of `WperfRun`. They are stated with
  `SelectSeq`, `SortSeq` or `SetToSortSeq`, for which the prover has no definition, and they are about what
  whole command lines, profiles and readings come to: folds over tokens, bytes and rows, as many
  inductions as there are folds. The part of `LaidOut` that is `padding.cpp` is proved (`PaddingLaysOut`); that
  `wperf test` shows the same list, and how often each event was asked for, is checked.
* Liveness (`CountingResumes`, `CountsCollected`, `RemovalAnswered`, `RemovalEnds`, `RunEnds`), which together with
  ENABLED is out of the prover's reach.
* `TrueCounts` of repeated measurements and `ListedCanBeAsked`, which do not hold.

## 5. The plan

Done, in this order: the lock and its proofs, counting, multiplexing and its proofs, sampling, the
profiling buffer and its proofs, `wperf-lib`, DSU and DMC, the life of the device, a run of
`wperf` with its command line, padding, names, tables and SPE parser; then the proofs of counting, sampling,
the life of the device, the run, `wperf-lib` with all its lists, DSU and DMC, parsing and padding.

Left:

1. A composition of lock, counting and sampling for a client that dies while it samples and
   one that takes over and counts (`device.c:165`).
2. Ticks that a RESET overtakes in `Multiplex` (`dpc.c:232`), and the delta reading of the cycle
   counter (`dpc.c:79-91`).
3. Proofs: that lists whose groups are closed and of one class are `WellHeaded`, from the tokens; the
   order of the tables of `StatReport`.

## 6. What is not modelled, and why

* Queries of hardware and version: they read constants and change nothing. Of the query of events,
  `Catalog` has what `list` and `test` make of the answer.
* The printing of results, lists and JSON: formatting. Which counts a metric's formula stands for
  is modelled (`StatReport`), the arithmetic of the formula is not.
* Modules of a process, PE and PDB files, disassembly, perf.data: pure input and output.
* `wperf-devgen`, installer, CI, scripts: one pass, no state. Tests and samples.
* The multiplexing rounds raced by a late tick (`dpc.c:232`), the interrupts that a client that died
  leaves to the next one's count (`device.c:165`) and the cycle counter's deltas (`dpc.c:79-91`), see the plan.
* Failures of the driver's own making that leave it half made: a failed creation of the device
  (`device.c:671`), of the mapping of a memory controller, which leaves a pointer to freed memory
  (`devioctl.c:1383`), and of the search for memory controllers, which half way leaves their number
  set (`pmu_device.cpp:3011`), and buffers of requests that cannot be retrieved (`queue.c:189-375`).
* Hardware registers beyond enable, overflow, interrupt enable and what a
  counter is programmed for.
