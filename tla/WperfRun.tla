------------------------------ MODULE WperfRun ------------------------------
(* One run of wperf (main.cpp), from its command line to its exit, request  *)
(* by request to the driver, next to the process it counts, the user's      *)
(* Ctrl-C, and another wperf that may take the lock by force at any time.   *)
(* What the driver does with a request is left to the driver's modules: it  *)
(* refuses whoever does not hold the lock, but for SPE's requests.          *)
EXTENDS StatReport, SpeRecords

CONSTANTS CommandLines,      \* the command lines run
          counter_idx_map,   \* the counters that are free, in the order they are taken
          SampleFrames,      \* what a sample may be: [pc, ov_flags]
          MaxFrames,         \* bound on the samples of a run
          Profiles,          \* what the profiling extension may record in a run
          Symbols,           \* of the executable: [name, from, size]
          MaxFaults          \* bound on the calls that fail in a run

ASSUME RunAssumption ==
  /\ Len(counter_idx_map) = gpc_nums["EVT_CORE"]
  /\ MaxFrames \in Nat /\ MaxFaults \in Nat

VARIABLES
  args, request,      \* the command line, and the request it makes when it is parsed
  pc,                 \* where the run is
  exit_code, why,     \* how it ends, and the exceptions that were thrown
  nth,                \* how many of a loop's requests have been sent
  left,               \* t_count1, t_count2: what is left of a duration
  times,              \* counting_timeline_times
  installed, no_ctrl_c,   \* the Ctrl-C handler
  process, handle,    \* the process looked at, and whether it can be asked
  spawned_process, image, \* whether to terminate it, and its last exit code
  lock_successful,    \* whether to give the lock back
  owner,              \* who holds the lock: "us", "them" or "nobody"
  assigned,           \* the event each of the driver's counters samples
  frames,             \* raw_samples of the counters
  profile,            \* what the extension records if it is started, and what
                      \* wperf makes of the bytes of that, m_spe_buffer
  faults,
  data,               \* history: whose the counters' contents are,
  fetched, reported   \* those read since the last RESET, and those reported

runVars    == <<exit_code, why, pc>>
loopVars   == <<nth, left, times>>
ctrlVars   == <<installed, no_ctrl_c>>
childVars  == <<process, handle, spawned_process, image>>
sampleVars == <<assigned, frames, profile>>
lockVars   == <<lock_successful, owner>>
history    == <<data, fetched, reported>>
vars == <<args, request, runVars, loopVars, ctrlVars, childVars, lockVars, sampleVars, faults, history>>

Wants(what) == what \in request.do
Counts      == Wants("count")
Samples     == ~Counts /\ (Wants("sample") \/ Wants("record"))
Spawns      == IF Counts THEN request.pe_file # NoFile ELSE Wants("record")
Cores_idx   == ToSet(request.cores_idx)

\* The bytes are only looked at once all of them are there.
Profile(p) == [recorded |-> p, records |-> read_spe_buffer(Encode(p))]

Init == /\ args \in CommandLines
        /\ request = init(args)
        /\ profile \in (IF request.spe THEN {Profile(p) : p \in Profiles} ELSE {Profile(<<>>)})
        /\ pc = "begin" /\ exit_code = "none" /\ why = {}
        /\ nth = 0 /\ left = 0 /\ times = 0
        /\ installed = FALSE /\ no_ctrl_c = TRUE
        /\ process = "none" /\ handle = FALSE /\ spawned_process = FALSE /\ image = "unasked"
        /\ lock_successful = FALSE /\ owner \in {"nobody", "them"}
        /\ assigned = <<>> /\ frames = <<>>
        /\ faults = 0 /\ data = "none" /\ fetched = {} /\ reported = {}

-----------------------------------------------------------------------------
(* The other wperf, the process, the user.                                 *)

TheyTakeOver == /\ owner # "them" /\ pc # "exited"
                /\ owner' = "them" /\ data' = "theirs"
                /\ UNCHANGED <<args, request, runVars, loopVars, ctrlVars, childVars, lock_successful, sampleVars, faults,
                               fetched, reported>>

TheyRelease == /\ owner = "them" /\ pc # "exited"
               /\ owner' = "nobody"
               /\ UNCHANGED <<args, request, runVars, loopVars, ctrlVars, childVars, lock_successful, sampleVars, faults, history>>

ProcessExits == /\ process = "running"
                /\ process' = "exited"
                /\ UNCHANGED <<args, request, runVars, loopVars, ctrlVars, handle, spawned_process, image, lockVars,
                               sampleVars, faults, history>>

\* Without a handler Ctrl-C ends the run there and then.
ctrl_handler ==
  /\ pc \notin {"begin", "exited"} /\ no_ctrl_c
  /\ IF installed THEN no_ctrl_c' = FALSE /\ UNCHANGED runVars
     ELSE exit_code' = "killed" /\ pc' = "exited" /\ UNCHANGED <<why, no_ctrl_c>>
  /\ UNCHANGED <<args, request, loopVars, installed, childVars, lockVars, sampleVars, faults, history>>

-----------------------------------------------------------------------------
(* Requests to the driver.                                                 *)

SpeRequests == {"spe_init", "spe_start", "spe_get", "spe_stop", "spe_get_last"}
Requests == SpeRequests \cup
  {"query_hw_cfg", "dsu_init", "dmc_init", "version", "test", "list", "stop_all", "assign", "reset", "start",
   "stop", "read", "stop_core", "set_sample_src", "start_sample", "get", "stop_sample"}

\* Outside of any try the exception ends the program.
Throw_(w) == IF pc \in {"version", "test"}
               THEN exit_code' = "killed" /\ why' = why \cup {w} /\ pc' = "exited"
               ELSE exit_code' = "failure" /\ why' = why \cup {w} /\ pc' = "exit"

Ends(code) == exit_code' = code /\ pc' = "exit" /\ UNCHANGED why

Goes(step) == pc' = step /\ UNCHANGED <<exit_code, why>>

\* DeviceAsyncIoControl: the driver answers ERROR_BAD_COMMAND.
RequestDenied ==
  /\ pc \in Requests \ SpeRequests /\ owner # "us"
  /\ Throw_("lock_denied")
  /\ UNCHANGED <<args, request, loopVars, ctrlVars, childVars, lockVars, sampleVars, faults, history>>

\* A request, or a call to the system, that fails for another reason.
CallFails ==
  /\ pc \in Requests \cup {"open", "lock", "man", "handler", "symbols", "spawn"}
  /\ faults < MaxFaults /\ faults' = faults + 1
  /\ Throw_("fatal")
  /\ UNCHANGED <<args, request, loopVars, ctrlVars, childVars, lockVars, sampleVars, history>>

\* Mutant: the driver carries out whatever it is sent.
SendsAnyway(step) == pc = step

Sends(step) == pc = step /\ (step \in SpeRequests \/ owner = "us")

\* The requests that change nothing here; a loop sends n of them.
Sent(step, n, next) ==
  /\ Sends(step)
  /\ nth' = IF nth + 1 < n THEN nth + 1 ELSE 0
  /\ Goes(IF nth + 1 < n THEN step ELSE next)
  /\ UNCHANGED <<args, request, left, times, ctrlVars, childVars, lockVars, sampleVars, faults>>

Plain(step, next) == Sent(step, 1, next) /\ UNCHANGED history

-----------------------------------------------------------------------------
(* Up to the request.                                                      *)

Moves(next) == Goes(next) /\ UNCHANGED <<args, request, loopVars, ctrlVars, childVars, lockVars, sampleVars, faults, history>>
Quits(code) == Ends(code) /\ UNCHANGED <<args, request, loopVars, ctrlVars, childVars, lockVars, sampleVars, faults, history>>

\* A lone --help, or nothing at all, needs no device.
Start == /\ pc = "begin"
         /\ IF args = <<>> \/ (Len(args) = 1 /\ is_help(args)) THEN Quits("success") ELSE Moves("open")

init_device == pc = "open" /\ Moves("lock")

lock ==
  /\ pc = "lock"
  /\ IF owner = "nobody" \/ is_force_lock(args) THEN owner' = "us" /\ lock_successful' = TRUE /\ Goes("query_hw_cfg")
     ELSE Throw_("locked") /\ UNCHANGED lockVars
  /\ UNCHANGED <<args, request, loopVars, ctrlVars, childVars, sampleVars, faults, history>>

AfterSpe == "parse"
AfterDmc == IF has_spe THEN "spe_init" ELSE AfterSpe
AfterDsu == IF "EVT_DMC_CLK" \in Classes THEN "dmc_init" ELSE AfterDmc

core_init == Plain("query_hw_cfg", IF "EVT_DSU" \in Classes THEN "dsu_init" ELSE AfterDsu)
dsu_init  == Plain("dsu_init", AfterDsu)
dmc_init  == Plain("dmc_init", AfterDmc)
spe_init  == Plain("spe_init", AfterSpe)

\* What is read out of bounds may be anything; here it ends the program.
ParseRequest ==
  /\ pc = "parse"
  /\ \/ request.outcome = "parsed" /\ Goes("dispatch")
     \/ request.outcome = "throw" /\ Throw_("fatal")
     \/ request.outcome = "undefined" /\ exit_code' = "killed" /\ pc' = "exited" /\ UNCHANGED why
  /\ UNCHANGED <<args, request, loopVars, ctrlVars, childVars, lockVars, sampleVars, faults, history>>

\* In this order, whatever else the command line asks for.
Dispatch ==
  /\ pc = "dispatch"
  /\ CASE Wants("detect") \/ Wants("help") -> Quits("success")
       [] Wants("man")     -> Moves("man")
       [] Wants("version") -> Moves("version")
       [] Wants("test")    -> Moves("test")
       [] Wants("list")    -> Moves("list")
       [] Counts           -> IF has_events(request) THEN Moves("handler") ELSE Quits("failure")
       [] Samples          -> Moves(IF request.spe THEN "stop_all" ELSE "handler")
       [] OTHER            -> Quits("success")

man == pc = "man" /\ Quits("success")

\* A driver of another version is an error.
do_version == /\ Sends("version")
              /\ \E code \in {"success", "failure"} : Ends(code)
              /\ UNCHANGED <<args, request, loopVars, ctrlVars, childVars, lockVars, sampleVars, faults, history>>
do_list == Plain("list", "exit")

\* What `wperf test' says of the events: the classes the driver is told of, how
\* many events there are, and how those of the request are laid out.
Flag == "EVT_CORE" :> "CTL_FLAG_CORE" @@ "EVT_DSU" :> "CTL_FLAG_DSU"
        @@ "EVT_DMC_CLK" :> "CTL_FLAG_DMC" @@ "EVT_DMC_CLKDIV2" :> "CTL_FLAG_DMC"
enable_bits(r) == {Flag[c] : c \in e_classes(r)}

get_event_scheduling_test_data(events) == [i \in DOMAIN events |-> [index |-> events[i].ev, note |-> events[i].note]]

do_test_prep_tests(r) ==
  [enable_bits |-> enable_bits(r),
   query       |-> [c \in Classes |-> IF c \in DOMAIN events_query THEN Cardinality(events_query[c]) ELSE 0],
   scheduling  |-> [c \in Classes |-> get_event_scheduling_test_data(r.ioctl_events[c])]]

\* It queries the events, and the hardware once more.
do_test == Sent("test", 2, "exit") /\ UNCHANGED history

-----------------------------------------------------------------------------
(* Counting and sampling: what both begin with.                            *)

\* The first stop and the assignments come before the handler with SPE.
stop_all == Plain("stop_all", "assign")

events_assign == Sent("assign", Len(request.cores_idx),
                      IF ~Counts THEN "handler" ELSE IF Spawns THEN "spawn" ELSE "reset")
                 /\ data' = "ours" /\ UNCHANGED <<fetched, reported>>

SetConsoleCtrlHandler ==
  /\ pc = "handler"
  /\ installed' = TRUE
  /\ IF Samples /\ Len(request.cores_idx) > 1 THEN Throw_("fatal")
     ELSE Goes(IF Counts THEN "stop_all" ELSE "symbols")
  /\ times' = request.timeline
  /\ UNCHANGED <<args, request, nth, left, no_ctrl_c, childVars, lockVars, sampleVars, faults, history>>

AfterSources == IF Wants("record") THEN "spawn" ELSE "attach"

\* parse_pe_file and parse_pdb_file.
parse_files == pc = "symbols" /\ Moves(IF request.spe THEN AfterSources ELSE "stop_core")

stop_core == Plain("stop_core", "set_sample_src")

\* The driver takes its counters in order, but the fixed one for cycles.
Assigned(sources) ==
  LET general == SelectSeq(sources, LAMBDA s : s.ev # CYCLE_EVT_IDX)
  IN [c \in {counter_idx_map[k] : k \in DOMAIN general} \cup
            (IF Len(general) < Len(sources) \/ sources = <<>> THEN {31} ELSE {}) |->
        IF c = 31 THEN CYCLE_EVT_IDX ELSE general[CHOOSE k \in DOMAIN general : counter_idx_map[k] = c].ev]

set_sample_src ==
  /\ Sends("set_sample_src")
  /\ assigned' = Assigned(request.sources)
  /\ data' = "ours"
  /\ Goes(AfterSources)
  /\ UNCHANGED <<args, request, loopVars, ctrlVars, childVars, lockVars, frames, profile, faults, fetched,
                 reported>>

-----------------------------------------------------------------------------
(* The process.                                                            *)

Measures == IF Counts \/ request.spe THEN "reset" ELSE "start_sample"

SpawnProcess ==
  /\ pc = "spawn"
  /\ Len(request.cores_idx) = 1
  /\ process' = "running" /\ spawned_process' = TRUE
  /\ \E opened \in BOOLEAN : /\ handle' = opened
                             /\ faults' = IF opened THEN faults ELSE faults + 1
  /\ faults' <= MaxFaults
  /\ Goes(Measures)
  /\ UNCHANGED <<args, request, loopVars, ctrlVars, image, lockVars, sampleVars, history>>

SpawnRefused ==
  /\ pc = "spawn" /\ Len(request.cores_idx) > 1
  /\ Throw_("fatal")
  /\ UNCHANGED <<args, request, loopVars, ctrlVars, childVars, lockVars, sampleVars, faults, history>>

\* It never gets a pid, or cannot be bound to its core.
SpawnGivenUp ==
  /\ pc = "spawn" /\ Len(request.cores_idx) = 1
  /\ faults < MaxFaults /\ faults' = faults + 1
  /\ process' = "terminated"
  /\ Throw_("fatal")
  /\ UNCHANGED <<args, request, loopVars, ctrlVars, handle, spawned_process, image, lockVars, sampleVars, history>>

\* GetModuleFileNameEx fails, and what was started is forgotten.
SpawnNameless ==
  /\ pc = "spawn" /\ Wants("record") /\ ~Counts
  /\ faults < MaxFaults /\ faults' = faults + 1
  /\ process' = "running"
  /\ Throw_("nameless")
  /\ UNCHANGED <<args, request, loopVars, ctrlVars, handle, spawned_process, image, lockVars, sampleVars, history>>

\* Without a process of that name the run goes on all the same.
FindProcess ==
  /\ pc = "attach"
  /\ \E found, opened \in BOOLEAN : /\ process' = (IF found THEN "running" ELSE "none")
                                    /\ handle' = (found /\ opened)
  /\ Goes(Measures)
  /\ UNCHANGED <<args, request, loopVars, ctrlVars, spawned_process, image, lockVars, sampleVars, faults, history>>

\* GetExitCodeProcess.
Asked == IF ~handle THEN image ELSE IF process = "running" THEN "active" ELSE "exited"

Terminated == IF process = "running" THEN "terminated" ELSE process

-----------------------------------------------------------------------------
(* Durations: in steps of 100 ms; one that never ends, INT64_MAX of them,  *)
(* goes round by tens, which is how often samples are fetched.             *)

Forever == request.duration <= 0
Duration == IF Forever THEN 7 ELSE request.duration \div 10000
Less(n) == IF Forever /\ n = 1 THEN 10 ELSE n - 1

-----------------------------------------------------------------------------
(* Counting.                                                               *)

reset == Plain("reset", "start")

start ==
  /\ Sends("start")
  /\ fetched' = {}
  /\ image' = "unasked"
  /\ left' = IF Counts THEN Duration ELSE 0
  /\ Goes(IF Counts THEN "wait" ELSE "spe_start")
  /\ UNCHANGED <<args, request, nth, times, ctrlVars, process, handle, spawned_process, lockVars, sampleVars, faults,
                 data, reported>>

\* Mutant: the wait is not cut short by Ctrl-C.
WaitRegardless ==
  /\ pc = "wait"
  /\ IF left > 0
       THEN /\ left' = Less(left)
            /\ image' = IF Spawns THEN Asked ELSE image
            /\ Goes(IF image' = "exited" THEN "stop" ELSE "wait")
       ELSE Goes("stop") /\ UNCHANGED <<left, image>>
  /\ UNCHANGED <<args, request, nth, times, ctrlVars, process, handle, spawned_process, lockVars, sampleVars, faults,
                 history>>

Wait ==
  /\ pc = "wait"
  /\ IF left > 0 /\ no_ctrl_c
       THEN /\ left' = Less(left)
            /\ image' = IF Spawns THEN Asked ELSE image
            /\ Goes(IF image' = "exited" THEN "stop" ELSE "wait")
       ELSE Goes("stop") /\ UNCHANGED <<left, image>>
  /\ UNCHANGED <<args, request, nth, times, ctrlVars, process, handle, spawned_process, lockVars, sampleVars, faults,
                 history>>

stop == Plain("stop", "read")

\* core_events_read and dsu_events_read ask core by core, dmc_events_read once.
Reads == LET per(c, n) == IF c \in e_classes(request) THEN n ELSE 0
             all == Cardinality(Cores_idx)
         IN IF ~Counts THEN all
            ELSE per("EVT_CORE", all) + per("EVT_DSU", all)
                 + (IF {"EVT_DMC_CLK", "EVT_DMC_CLKDIV2"} \cap e_classes(request) # {} THEN 1 ELSE 0)

events_read == /\ Sent("read", Reads, IF Counts THEN "print" ELSE "leave")
               /\ fetched' = fetched \cup {data} /\ UNCHANGED <<data, reported>>

\* print_core_stat and its like: each class after it is read, here together.
print_stat ==
  /\ pc = "print"
  /\ reported' = reported \cup fetched
  /\ left' = IF Wants("timeline") /\ request.interval > 0 THEN request.interval \div 50000 ELSE 0
  /\ Goes("interval")
  /\ UNCHANGED <<args, request, nth, times, ctrlVars, childVars, lockVars, sampleVars, faults, data, fetched>>

Interval ==
  /\ pc = "interval"
  /\ IF left > 0 /\ no_ctrl_c THEN left' = left - 1 /\ UNCHANGED runVars
     ELSE Goes("iterate") /\ UNCHANGED left
  /\ UNCHANGED <<args, request, nth, times, ctrlVars, childVars, lockVars, sampleVars, faults, history>>

LastTime == \/ times = 1
            \/ Spawns /\ image # "active"
            \/ ~Wants("timeline") \/ ~no_ctrl_c

\* The process ends with the last measurement.
Iterate ==
  /\ pc = "iterate"
  /\ times' = IF times > 0 THEN times - 1 ELSE times
  /\ IF LastTime THEN /\ process' = (IF Spawns THEN Terminated ELSE process)
                      /\ spawned_process' = FALSE
                      /\ Ends("success")
                 ELSE Goes("reset") /\ UNCHANGED <<process, spawned_process>>
  /\ UNCHANGED <<args, request, nth, left, ctrlVars, handle, image, lockVars, sampleVars, faults, history>>

-----------------------------------------------------------------------------
(* Sampling.                                                               *)

Sampling == left' = Duration /\ image' = "unasked" /\ Goes("sampling")

start_sample ==
  /\ Sends("start_sample")
  /\ Sampling
  /\ UNCHANGED <<args, request, nth, times, ctrlVars, process, handle, spawned_process, lockVars, sampleVars, faults,
                 history>>

spe_start ==
  /\ Sends("spe_start")
  /\ Sampling
  /\ UNCHANGED <<args, request, nth, times, ctrlVars, process, handle, spawned_process, lockVars, sampleVars, faults,
                 history>>

SampleTick ==
  /\ pc = "sampling"
  /\ left' = Less(left)
  /\ Goes(IF (left' % 10) # 0 THEN "check" ELSE IF request.spe THEN "spe_get" ELSE "get")
  /\ UNCHANGED <<args, request, nth, times, ctrlVars, childVars, lockVars, sampleVars, faults, history>>

get_sample ==
  /\ Sends("get")
  /\ \E new \in BoundedSeq({f \in SampleFrames : f.ov_flags \subseteq DOMAIN assigned}, MaxFrames - Len(frames)) :
       frames' = frames \o new
  /\ fetched' = fetched \cup {data}
  /\ Goes("check")
  /\ UNCHANGED <<args, request, loopVars, ctrlVars, childVars, lockVars, assigned, profile, faults, data,
                 reported>>

spe_get == Sent("spe_get", 1, "check") /\ fetched' = fetched \cup {data} /\ UNCHANGED <<data, reported>>

GetExitCodeProcess ==
  /\ pc = "check"
  /\ image' = Asked
  /\ Goes(IF image' # "exited" /\ left > 0 /\ no_ctrl_c THEN "sampling"
          ELSE IF request.spe THEN "spe_stop" ELSE "stop_sample")
  /\ UNCHANGED <<args, request, loopVars, ctrlVars, process, handle, spawned_process, lockVars, sampleVars, faults,
                 history>>

spe_stop == Plain("spe_stop", "spe_get_last")

spe_get_last == Sent("spe_get_last", 1, "stop") /\ fetched' = fetched \cup {data} /\ UNCHANGED <<data, reported>>

stop_sample == Plain("stop_sample", "leave")

LeaveProcess ==
  /\ pc = "leave"
  /\ process' = IF Wants("record") THEN Terminated ELSE process
  /\ spawned_process' = FALSE /\ handle' = FALSE
  /\ IF Undefined(profile.records) THEN exit_code' = "killed" /\ pc' = "exited" /\ UNCHANGED why
     ELSE Goes("report")
  /\ UNCHANGED <<args, request, loopVars, ctrlVars, image, lockVars, sampleVars, faults, history>>

-----------------------------------------------------------------------------
(* The report of the samples.                                              *)

Address(bytes) == FoldRight(LAMBDA byte, n : byte + (256 * n), bytes, 0)

\* The function of the executable a sample is in.
Name(at) == LET found == {i \in DOMAIN Symbols : at >= Symbols[i].from /\ at < Symbols[i].from + Symbols[i].size}
            IN IF found = {} THEN "unknown" ELSE Symbols[Min(found)].name

\* counter_idx_unmap, and 31 for itself: the counters in order.
counter_idx_unmap(c) == IF c = 31 THEN 31 ELSE CHOOSE i \in DOMAIN counter_idx_map : counter_idx_map[i] = c

event_src(c) == IF counter_idx_unmap(c) = 31 THEN CYCLE_EVT_IDX ELSE request.sources[counter_idx_unmap(c)].ev

\* Every event of every sample: an overflow of a counter, or a record.
Hits ==
  IF request.spe
    THEN LET samples == get_samples(profile.records)
         IN [i \in DOMAIN samples |-> [name |-> Name(Address(samples[i].pc)), event_src |-> samples[i].spe_event_idx]]
    ELSE LET Of(f) == LET cs == SetToSortSeq(f.ov_flags, <)
                      IN [i \in DOMAIN cs |-> [name |-> Name(f.pc), event_src |-> event_src(cs[i])]]
         IN FoldLeft(LAMBDA s, f : s \o Of(f), <<>>, frames)

resolved_samples ==
  LET Add(rows, hit) ==
        LET same == {i \in DOMAIN rows : rows[i].name = hit.name /\ rows[i].event_src = hit.event_src}
        IN IF same = {} THEN Append(rows, [name |-> hit.name, event_src |-> hit.event_src, freq |-> 1])
           ELSE [rows EXCEPT ![Min(same)].freq = @ + 1]
  IN FoldLeft(Add, <<>>, Hits)

\* Cycles come first, then event by event, the most frequent function first.
sort_samples(a, b) ==
  IF a.event_src # b.event_src
    THEN a.event_src = CYCLE_EVT_IDX \/ (b.event_src # CYCLE_EVT_IDX /\ a.event_src < b.event_src)
    ELSE a.freq > b.freq

SortedSamples == SortSeq(resolved_samples, sort_samples)

\* The groups of the report: a new one begins where the event changes.
GroupOf(rows, i) == Cardinality({j \in 2 .. i : rows[j].event_src # rows[j - 1].event_src})
total_samples(rows, g) ==
  FoldLeft(LAMBDA acc, i : IF GroupOf(rows, i) = g THEN acc + rows[i].freq ELSE acc, 0,
           [i \in DOMAIN rows |-> i])

report ==
  /\ pc = "report"
  /\ reported' = reported \cup fetched
  /\ Ends("success")
  /\ UNCHANGED <<args, request, loopVars, ctrlVars, childVars, lockVars, sampleVars, faults, data, fetched>>

-----------------------------------------------------------------------------
(* The exit.                                                               *)

\* Mutant: the exit leaves the process it started running.
ExitWithoutTerminating ==
  /\ pc = "exit"
  /\ exit_code' = IF exit_code = "none" THEN "success" ELSE exit_code
  /\ pc' = IF lock_successful THEN "unlock" ELSE "exited"
  /\ UNCHANGED <<args, request, why, loopVars, ctrlVars, childVars, lockVars, sampleVars, faults, history>>

clean_exit ==
  /\ pc = "exit"
  /\ process' = IF spawned_process THEN Terminated ELSE process
  /\ exit_code' = IF exit_code = "none" THEN "success" ELSE exit_code
  /\ pc' = IF lock_successful THEN "unlock" ELSE "exited"
  /\ UNCHANGED <<args, request, why, loopVars, ctrlVars, handle, spawned_process, image, lockVars, sampleVars, faults,
                 history>>

\* ~pmu_device: that the driver refuses only makes a message.
unlock == /\ pc = "unlock"
          /\ owner' = (IF owner = "us" THEN "nobody" ELSE owner)
          /\ lock_successful' = (owner # "us")
          /\ Goes("exited")
          /\ UNCHANGED <<args, request, loopVars, ctrlVars, childVars, sampleVars, faults, history>>

UnlockFails == /\ pc = "unlock"
               /\ faults < MaxFaults /\ faults' = faults + 1
               /\ pc' = "exited" /\ why' = why \cup {"unlock_failed"}
               /\ UNCHANGED <<args, request, exit_code, loopVars, ctrlVars, childVars, lockVars, sampleVars, history>>

-----------------------------------------------------------------------------
(* The specification.                                                      *)

Begins == \/ Start \/ init_device \/ lock \/ core_init \/ dsu_init \/ dmc_init \/ spe_init
          \/ ParseRequest \/ Dispatch \/ man \/ do_version \/ do_test \/ do_list
Prepares == \/ stop_all \/ events_assign \/ SetConsoleCtrlHandler \/ parse_files \/ stop_core \/ set_sample_src
            \/ SpawnProcess \/ SpawnRefused \/ SpawnGivenUp \/ SpawnNameless \/ FindProcess
Measure == \/ reset \/ start \/ Wait \/ stop \/ events_read \/ print_stat \/ Interval \/ Iterate
           \/ start_sample \/ spe_start \/ SampleTick \/ get_sample \/ spe_get \/ GetExitCodeProcess
           \/ spe_stop \/ spe_get_last \/ stop_sample \/ LeaveProcess \/ report
Ends_ == clean_exit \/ unlock \/ UnlockFails

wmain == RequestDenied \/ CallFails \/ Begins \/ Prepares \/ Measure \/ Ends_

Others == TheyTakeOver \/ TheyRelease \/ ProcessExits \/ ctrl_handler

Next == wmain \/ Others

Spec == Init /\ [][Next]_vars

\* wperf is scheduled, and its calls return.
FairSpec == Spec /\ WF_vars(wmain)

-----------------------------------------------------------------------------
(* Properties.                                                             *)

Spawned == Wants("record") \/ (Counts /\ Spawns)

\* A run that is over has left nothing behind, whatever failed and whoever
\* took the lock: the process it started has ended and the lock is not its
\* own. Not so when the run is cut off, when the release itself fails, and
\* when the process spawned to be sampled turns out to have no name, which
\* is thrown before spawned_process is set (main.cpp:576-581).
LeavesNothing ==
  pc = "exited" =>
    /\ Spawned => process # "running" \/ "nameless" \in why
    /\ owner = "us" => exit_code = "killed" \/ "unlock_failed" \in why

\* What is reported is what the run itself counted or sampled, although
\* another may have taken the counters by force at any time and the requests
\* of the profiling extension are carried out all the same; and a count that
\* succeeds has reported something.
OwnResults == /\ reported \subseteq {"ours"}
              /\ pc = "exited" /\ Counts /\ installed /\ exit_code = "success" => reported # {}

\* The groups that are asked for with {a,b}, by class.
AskedGroups(tokens, c) ==
  {SubSeq(tokens, q[1], q[2]) : q \in {p \in (DOMAIN tokens) \X (DOMAIN tokens) :
     /\ p[1] < p[2] /\ tokens[p[1]].open /\ tokens[p[2]].close
     /\ \A k \in p[1] .. p[2] : tokens[k].cls = c
     /\ \A k \in (p[1] + 1) .. (p[2] - 1) : ~tokens[k].open /\ ~tokens[k].close}}

EventsAsked == {i \in DOMAIN args : Has(args[i], "events")}

Resolved(tokens, extra) ==
  [i \in DOMAIN tokens |->
     IF tokens[i].form = "name" THEN [tokens[i] EXCEPT !.ev = get_event_index(extra, @, tokens[i].cls)] ELSE tokens[i]]

\* The definitions of a metric on the command line that can be used.
Redefined(m) ==
  LET lines == FlattenSeq([i \in DOMAIN args |-> IF Has(args[i], "lines") THEN args[i].lines ELSE <<>>])
      Usable(raw) == parse_events_str([NoEvents EXCEPT !.extra = request.extra], raw, m).outcome = "parsed"
  IN SelectSeq(lines, LAMBDA line : line.key = m /\ Usable(line.raw))

\* The last of them counts, and then what wperf knows of the name last.
MetricTokens(m) ==
  IF Redefined(m) # <<>> THEN Resolved(Last(Redefined(m)).raw, request.extra)
  ELSE (OfDmc @@ OfDsu @@ OfProduct @@ Predefined)[m]

\* What metrics are made of is asked for as if it stood next to the events.
TokensAsked ==
  LET listed == SetToSeq(EventsAsked)
      metric == request.asked
  IN FlattenSeq([i \in DOMAIN listed |-> Resolved(args[listed[i]].events, request.extra)]
                \o [i \in DOMAIN metric |-> MetricTokens(metric[i])])

\* Window w of the list: what is counted together.
InWindow(rows, group, w, gpc_num) ==
  \E s \in 0 .. (gpc_num - Len(group)) :
    \A k \in DOMAIN group : LET i == (w * gpc_num) + s + k
                            IN i \in DOMAIN rows /\ rows[i].index = group[k].ev /\ rows[i].note[1] = "g"

\* The headers are where the walk looks for them: not if a group was not closed,
\* or has events of several classes.
WellHeaded(items) == \A i \in DOMAIN items : items[i].hdr <=> i \in Heads(items)

\* Whatever the events and metrics, if they are accepted and every group is closed
\* and of one class: the driver is told of the classes asked for and of no other, and
\* asked to count each event as often as the user asked for it, and every group lies
\* within one window of the counters; all this as `wperf test' shows it.
LaidOut ==
  /\ pc = "dispatch" /\ Cardinality(EventsAsked) <= 1 /\ ~request.spe
  /\ \A c \in Classes : WellHeaded(parse_raw_args(args).counting.groups[c])
  =>
    LET tokens == TokensAsked
        test   == do_test_prep_tests(request)
    IN /\ test.enable_bits = {Flag[tokens[i].cls] : i \in DOMAIN tokens}
       /\ \A c \in Classes :
            LET rows == test.scheduling[c]
                real == SelectSeq(rows, LAMBDA row : row.note # <<"p">>)
                Laid(ev) == Cardinality({i \in DOMAIN real : real[i].index = ev})
                Wanted(ev) == Cardinality({i \in DOMAIN tokens : tokens[i].cls = c /\ tokens[i].ev = ev})
            IN /\ \A ev \in {tokens[i].ev : i \in DOMAIN tokens} \cup {real[i].index : i \in DOMAIN real} :
                    Laid(ev) = Wanted(ev)
               /\ \A group \in AskedGroups(tokens, c) :
                    \E w \in 0 .. Len(rows) : InWindow(rows, group, w, gpc_nums[c])

\* An event the list shows can be asked for with -e, under the name it is shown
\* by, and is then that event.
ListedCanBeAsked ==
  pc = "list" =>
    \A row \in do_list_prep_events(request.extra) :
      row.name # unknown_event => get_event_index(request.extra, row.name, row.cls) = row.index

\* The tables of a count tell what was asked for, core by core, cluster by
\* cluster and channel by channel: events that are asked for as a group carry
\* one number, which no event outside of it carries, padding has no row, but
\* on the memory controllers, and the overall row of an event adds up what
\* every unit shows in its row of it.
TablesTell ==
  pc = "print" =>
    \A c \in e_classes(request) :
      LET stat == StatOf(request, c)
          slots == request.ioctl_events[c]
          OfGroup(n) == {i \in DOMAIN slots : slots[i].note = <<"g", n>>}
          Headed == GroupsOf(parse_raw_args(args).counting.groups[c])
      IN /\ \A unit \in DOMAIN stat.tables :
              LET rows == stat.tables[unit]
                  Numbered(n) == SelectSeq(rows, LAMBDA row : row.note = <<"g", n>>)
              IN /\ \A n \in 0 .. Len(slots) :
                      [k \in DOMAIN Numbered(n) |-> Numbered(n)[k].ev] =
                        IF n + 1 \in DOMAIN Headed THEN [k \in DOMAIN Headed[n + 1] |-> Headed[n + 1][k].ev] ELSE <<>>
                 /\ c \notin DmcClasses => \A k \in DOMAIN rows : rows[k].note # <<"p">>
         /\ \A k \in DOMAIN stat.overall :
              stat.overall[k].counts =
                {row.count : row \in {t \in UNION {ToSet(stat.tables[unit]) : unit \in DOMAIN stat.tables} :
                                        t.count[2] = (CHOOSE p \in stat.overall[k].counts : TRUE)[2]}}

\* Place j of a reading is counted in this window of the events.
WindowOf(c, j) == (j - Len(fixed(c)) - 1) \div gpc_nums[c]

Together(c, places) == \A i, j \in places : WindowOf(c, i) = WindowOf(c, j)

\* What a row of metrics is to be calculated from: under every name of the
\* formula that is an event of the metric there is a count of that event, and
\* these counts are of one window.
WellBound(row) ==
  LET metric == product_metrics[row.metric]
      named  == {k \in DOMAIN metric.formula_sy : \E ev \in ToSet(metric.events_raw) : metric.formula_sy[k] = <<"name", ev>>}
  IN /\ \A k \in named : /\ row.value[k][1] = "count"
                         /\ evts(request, "EVT_CORE")[row.value[k][2]] = metric.formula_sy[k][2]
     /\ Together("EVT_CORE", {row.value[k][2] : k \in named})

\* Whatever else is counted and however it is laid out: every metric of the
\* product that is asked for is calculated for every core, from counts of its
\* events that were made at the same time; not so one that -C has given other
\* events, as it keeps the product's formula. The L3 miss rate has both its
\* counts and the bandwidth of a channel its one.
MetricsTogether ==
  pc = "print" =>
    /\ LET rows == ToSet(print_core_metrics(request))
       IN /\ \A m \in ToSet(request.asked) \cap DOMAIN product_metrics, core \in ToSet(cores_idx(request)) :
               \E row \in rows : row.metric = m /\ row.core = core
          /\ \A row \in rows : WellBound(row) \/ Redefined(row.metric) # <<>>
    /\ "l3_cache" \in ToSet(request.asked) => 0 \notin {l3_cache(request).access, l3_cache(request).refill}
    /\ "ddr_bw" \in ToSet(request.asked) => ddr_bw(request) # 0

\* The columns of this class are headed as they should be: not for clusters
\* that have more than a core of the request, or are multiplexed when the
\* cores are not, as they are headed as the cores; nor for memory controllers
\* with padding, which has values but no names; nor if the file holds the
\* columns of another class, its name being the same.
HeadedWell(c) ==
  /\ c = "EVT_DSU" => /\ Len(dsu_cores(request)) = Len(cores_idx(request))
                      /\ multiplexings(request, c) = multiplexings(request, "EVT_CORE")
  /\ c \in DmcClasses => RealEvents(request, c) = request.ioctl_events[c]
  /\ request.csv = <<>> \/ request.csv[1].per_class \/ Len(timeline_headers(request)) = 1

\* In the file of a timeline every line has a value under each name, of the
\* unit and the event that head its column, whatever padding and rounds the
\* list of events has; the metrics stand under their own names.
ColumnsNamed ==
  pc = "print" /\ Wants("timeline") =>
    \A c \in {c \in e_classes(request) : HeadedWell(c)} :
      LET csv == print(request, InFile(request, filename(request, c)))
      IN /\ [k \in DOMAIN csv.line |-> csv.line[k].unit] = csv.cores
         /\ [k \in DOMAIN csv.line |-> csv.line[k].name] = csv.names
         /\ {csv.cores[k][1] : k \in DOMAIN csv.cores} = {c}

\* The events of the report, with their totals.
Total(rows, src) ==
  LET g == GroupOf(rows, Min({i \in DOMAIN rows : rows[i].event_src = src})) IN total_samples(rows, g)
Reported(rows) == {rows[i].event_src : i \in DOMAIN rows}

\* What a record of the profile is called.
Described(r) == <<get_desc([h0 |-> 72 + r.class, payload |-> <<r.op>>]), r.bits \cap NamedBits>>

\* The report names each event once, with as many samples as that event
\* caused: an overflow counts for the event its counter was assigned, though
\* the driver numbers counters as it finds them free and wperf as it sorted
\* the sources; a record of the profile counts for its own description.
SamplesNamed ==
  pc = "report" =>
    LET rows == SortedSamples
        Expected(src) ==
          IF request.spe THEN Cardinality({i \in DOMAIN profile.recorded :
                                              Described(profile.recorded[i]) = spe_event_map(profile.records)[src]})
          ELSE Cardinality({p \in (DOMAIN frames) \X (DOMAIN assigned) :
                              p[2] \in frames[p[1]].ov_flags /\ assigned[p[2]] = src})
    IN /\ \A src \in Reported(rows) : Total(rows, src) = Expected(src)
       /\ IF request.spe THEN {Described(profile.recorded[i]) : i \in DOMAIN profile.recorded}
                                = {spe_event_map(profile.records)[s] : s \in Reported(rows)}
          ELSE \A i \in DOMAIN frames : \A c \in frames[i].ov_flags : assigned[c] \in Reported(rows)

\* Ctrl-C, once its handler is there, ends a run, and so does the end of the
\* process it looks at, also of one that would count for ever: no loop waits
\* on without asking for both.
RunEnds == /\ installed /\ ~no_ctrl_c ~> pc = "exited"
           /\ handle /\ process = "exited" ~> pc = "exited"
=============================================================================
