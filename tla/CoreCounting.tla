---------------------------- MODULE CoreCounting ----------------------------
(***************************************************************************)
(* Counting on the cores of wperf-driver: the START, STOP and RESET IOCTLs *)
(* (devioctl.c), their work item that touches the PMU of each core         *)
(* (workitem.c), the periodic timer of each core with its DPC, and the     *)
(* reset DPC (dpc.c), together with what LOCK_ACQUIRE and LOCK_RELEASE do  *)
(* to them (device.c).                                                     *)
(*                                                                         *)
(* One thread serves the sequential queue; it runs the IOCTL and waits for *)
(* the work item, so both are steps of that thread.  A DPC runs on its own *)
(* core above the thread's priority, in parallel to what the thread does   *)
(* to memory.  Timer expiry, DPC execution and the thread interleave.      *)
(*                                                                         *)
(* Counts are abstracted to where they come from: what a counter or a value*)
(* holds is "none", "new" (events of the client's current measurement, the *)
(* one its last RESET began) or "old" (anything else is in it too).        *)
(***************************************************************************)
EXTENDS Integers, FiniteSets

CONSTANTS numCores

ASSUME numCoresAssumption == numCores \in Nat \ {0}

Cores == 0 .. (numCores - 1)

VARIABLES
  status,        \* current_status.status
  phase,         \* where the client that holds the lock is in its run
  mine,          \* cores the current client counts on (ctl_req->cores_idx)
  pc,            \* what the queue's thread is doing
  todo,          \* cores its current loop has still to visit
  enabled,       \* PMCR.E of each core
  hw,            \* what the event counters of each core hold
  value,         \* core->events[].value
  armed,         \* core->timer is set
  timer_running, \* core->timer_running
  queued,        \* DPCs of each core waiting to run
  exec,          \* the DPC each core is in the middle of
  saved,         \* what a tick has read of value before adding to it
  torn,          \* history: a tick was adding to value while RESET zeroed it
  overran        \* history: a reset DPC ran after RESET had returned

lockVars  == <<status, phase, mine>>
threadVars == <<pc, todo>>
pmuVars   == <<enabled, hw>>
timerVars == <<armed, timer_running>>
history   == <<torn, overran>>
vars == <<status, phase, mine, pc, todo, enabled, hw, value, armed, timer_running,
          queued, exec, saved, torn, overran>>

Counts == {"none", "new", "old"}
Dpcs == {"tick", "reset", "default"}
Phases == {"free", "locked", "stopped", "ready", "resetting", "reset", "started", "read"}
Pcs == {"idle", "get_queue", "force_queue", "start_pmu", "start_timer", "stop_pmu",
        "stop_timer", "assign_values", "assign_pmu", "reset_pmu", "reset_values",
        "reset_wait", "free_timer", "free_dpc", "force_own"}

TypeOK == /\ status \in {"STS_IDLE", "STS_BUSY"}
          /\ phase \in Phases
          /\ mine \in SUBSET Cores
          /\ pc \in Pcs
          /\ todo \in SUBSET Cores
          /\ enabled \in [Cores -> BOOLEAN]
          /\ hw \in [Cores -> Counts]
          /\ value \in [Cores -> Counts]
          /\ armed \in [Cores -> BOOLEAN]
          /\ timer_running \in [Cores -> {0, 1}]
          /\ queued \in [Cores -> SUBSET Dpcs]
          /\ exec \in [Cores -> {"none", "tick"}]
          /\ saved \in [Cores -> Counts]
          /\ torn \in [Cores -> BOOLEAN]
          /\ overran \in [Cores -> BOOLEAN]

Init == /\ status = "STS_IDLE"
        /\ phase = "free"
        /\ mine = {}
        /\ pc = "idle"
        /\ todo = {}
        /\ enabled = [c \in Cores |-> TRUE]     \* by DeviceCreate's dpc_queue
        /\ hw = [c \in Cores |-> "none"]
        /\ value = [c \in Cores |-> "none"]
        /\ armed = [c \in Cores |-> FALSE]
        /\ timer_running = [c \in Cores |-> 0]
        /\ queued = [c \in Cores |-> {}]
        /\ exec = [c \in Cores |-> "none"]
        /\ saved = [c \in Cores |-> "none"]
        /\ torn = [c \in Cores |-> FALSE]
        /\ overran = [c \in Cores |-> FALSE]

-----------------------------------------------------------------------------
(* The PMU of a core (core.c).  CoreCounterReset writes PMCR with nothing  *)
(* but the reset bit, so it also clears the enable bit.                    *)

CoreCounterStart(c) == enabled' = [enabled EXCEPT ![c] = TRUE] /\ UNCHANGED hw

CoreCounterStop(c) == enabled' = [enabled EXCEPT ![c] = FALSE] /\ UNCHANGED hw

CoreCounterReset(c) == /\ enabled' = [enabled EXCEPT ![c] = FALSE]
                       /\ hw' = [hw EXCEPT ![c] = "none"]

Sum(a, b) == IF a = "none" THEN b ELSE IF b = "none" THEN a
             ELSE IF a = b THEN a ELSE "old"

\* The client is between the start of a RESET and its own end.
Measuring == phase \in {"resetting", "reset", "started", "read"}

\* An event happens on a core that is counting.
Count(c) == /\ enabled[c]
            /\ hw' = [hw EXCEPT ![c] = Sum(@, IF Measuring /\ c \in mine THEN "new" ELSE "old")]
            /\ UNCHANGED <<lockVars, threadVars, enabled, value, timerVars, queued, exec, saved, history>>

-----------------------------------------------------------------------------
(* Timers and DPCs.  A DPC object is in its core's queue at most once; the *)
(* high importance they have lets a later one overtake an earlier one, so  *)
(* any queued DPC may be next.                                             *)

\* Mutant: a timer that expires once instead of periodically.
TimerFiresOnce(c) ==
  /\ armed[c]
  /\ queued' = [queued EXCEPT ![c] = @ \cup {"tick"}]
  /\ armed' = [armed EXCEPT ![c] = FALSE]
  /\ UNCHANGED <<lockVars, threadVars, pmuVars, value, timer_running, exec, saved, history>>

TimerFires(c) == /\ armed[c]
                 /\ queued' = [queued EXCEPT ![c] = @ \cup {"tick"}]
                 /\ UNCHANGED <<lockVars, threadVars, pmuVars, value, timerVars, exec, saved, history>>

Dequeue(c, dpc) == /\ dpc \in queued[c]
                   /\ exec[c] = "none"
                   /\ queued' = [queued EXCEPT ![c] = @ \ {dpc}]

\* overflow_dpc or multiplex_dpc: stops the counters and reads value ...
TickBegins(c) ==
  /\ Dequeue(c, "tick")
  /\ status = "STS_BUSY"
  /\ CoreCounterStop(c)
  /\ exec' = [exec EXCEPT ![c] = "tick"]
  /\ saved' = [saved EXCEPT ![c] = value[c]]
  /\ UNCHANGED <<lockVars, threadVars, value, timerVars, history>>

\* Mutant: the tick leaves the counters stopped.
TickEndsStopped(c) ==
  /\ exec[c] = "tick"
  /\ value' = [value EXCEPT ![c] = Sum(saved[c], hw[c])]
  /\ hw' = [hw EXCEPT ![c] = "none"]
  /\ exec' = [exec EXCEPT ![c] = "none"]
  /\ saved' = [saved EXCEPT ![c] = "none"]
  /\ UNCHANGED <<lockVars, threadVars, enabled, timerVars, queued, history>>

\* Mutant: the tick does not reset the counters it has read.
TickEndsUnreset(c) ==
  /\ exec[c] = "tick"
  /\ value' = [value EXCEPT ![c] = Sum(saved[c], hw[c])]
  /\ enabled' = [enabled EXCEPT ![c] = TRUE]
  /\ exec' = [exec EXCEPT ![c] = "none"]
  /\ saved' = [saved EXCEPT ![c] = "none"]
  /\ UNCHANGED <<lockVars, threadVars, hw, timerVars, queued, history>>

\* ... adds what the counters hold, resets and restarts them.
TickEnds(c) ==
  /\ exec[c] = "tick"
  /\ value' = [value EXCEPT ![c] = Sum(saved[c], hw[c])]
  /\ hw' = [hw EXCEPT ![c] = "none"]
  /\ enabled' = [enabled EXCEPT ![c] = TRUE]
  /\ exec' = [exec EXCEPT ![c] = "none"]
  /\ saved' = [saved EXCEPT ![c] = "none"]
  /\ UNCHANGED <<lockVars, threadVars, timerVars, queued, history>>

\* reset_dpc.  Its cpunos and sync_reset_dpc are left out: RESET waits on the
\* event with a zero timeout (ResetReturns), so they influence nothing.
ResetDpc(c) ==
  /\ Dequeue(c, "reset")
  /\ status = "STS_BUSY"
  /\ CoreCounterReset(c)
  /\ overran' = [overran EXCEPT ![c] = Measuring /\ phase # "resetting"]
  /\ UNCHANGED <<lockVars, threadVars, value, timerVars, exec, saved, torn>>

\* A tick or reset DPC that finds the driver idle returns at once.
DpcFindsIdle(c) ==
  /\ status = "STS_IDLE"
  /\ Dequeue(c, "tick") \/ Dequeue(c, "reset")
  /\ UNCHANGED <<lockVars, threadVars, pmuVars, value, timerVars, exec, saved, history>>

\* arm64pmc_enable_default, which does not look at the lock.
DefaultDpc(c) ==
  /\ Dequeue(c, "default")
  /\ enabled' = [enabled EXCEPT ![c] = TRUE]
  /\ hw' = [hw EXCEPT ![c] = "none"]
  /\ UNCHANGED <<lockVars, threadVars, value, timerVars, exec, saved, history>>

Dpc(c) == TickBegins(c) \/ TickEnds(c) \/ ResetDpc(c) \/ DpcFindsIdle(c) \/ DefaultDpc(c)

-----------------------------------------------------------------------------
(* The queue's thread.  Loops visit the cores in ascending order.          *)

Begin(op, cores) == pc = "idle" /\ pc' = op /\ todo' = cores

IsNext(c) == c \in todo /\ \A d \in todo : c <= d

\* One turn of the loop of op on core c; next begins when the loop is done.
Turn(op, c, next, cores) ==
  /\ pc = op
  /\ IsNext(c)
  /\ IF todo = {c} THEN pc' = next /\ todo' = cores
                   ELSE pc' = op /\ todo' = todo \ {c}

\* Reaching the end of the IOCTL moves the client on to its next phase.
Completes(next) == IF pc' = "idle" THEN phase' = next ELSE UNCHANGED phase

\* The work item runs on core c, hence not in the middle of a DPC there.  The
\* lock cannot go while the queue is busy, so its test of status succeeds.
WorkItemTurn(op, c, next, cores) == Turn(op, c, next, cores) /\ exec[c] = "none"

\* Whatever was counted up to here belongs to an old measurement.
Aged(counts) == [c \in Cores |-> IF counts[c] = "none" THEN "none" ELSE "old"]

NewMeasurement ==
  /\ hw' = Aged(hw)
  /\ value' = Aged(value)
  /\ saved' = Aged(saved)
  /\ torn' = [c \in Cores |-> FALSE]
  /\ overran' = [c \in Cores |-> FALSE]

(* LOCK_ACQUIRE.  LOCK_GET owns the lock before get_pmu_resource queues its *)
(* DPCs, LOCK_GET_FORCE after it; one of a held lock touches nothing.       *)

LockGet(cores) ==
  /\ status = "STS_IDLE"
  /\ Begin("get_queue", {})
  /\ status' = "STS_BUSY"
  /\ mine' = cores
  /\ UNCHANGED <<phase, pmuVars, value, timerVars, queued, exec, saved, history>>

LockForce(cores) ==
  /\ status = "STS_IDLE"
  /\ Begin("force_queue", {})
  /\ mine' = cores
  /\ UNCHANGED <<status, phase, pmuVars, value, timerVars, queued, exec, saved, history>>

TakeOver(cores) ==
  /\ status = "STS_BUSY"
  /\ pc = "idle"
  /\ mine' = cores
  /\ phase' = "locked"
  /\ NewMeasurement
  /\ UNCHANGED <<status, threadVars, enabled, timerVars, queued, exec>>

\* The tail of get_pmu_resource: default events, on top of the values that are
\* there, and both DPCs on every core.
QueueDefaults ==
  /\ \/ pc = "get_queue" /\ pc' = "idle" /\ phase' = "locked"
     \/ pc = "force_queue" /\ pc' = "force_own" /\ UNCHANGED phase
  /\ queued' = [c \in Cores |-> queued[c] \cup {"default", "reset"}]
  /\ UNCHANGED <<status, mine, todo, pmuVars, value, timerVars, exec, saved, history>>

\* AcquireLockForce.
ForceOwns ==
  /\ pc = "force_own"
  /\ pc' = "idle"
  /\ status' = "STS_BUSY"
  /\ phase' = "locked"
  /\ UNCHANGED <<mine, todo, pmuVars, value, timerVars, queued, exec, saved, history>>

(* STOP: counters first, by the work item; then the timers.                *)

StopBegins ==
  /\ phase \in {"locked", "started"}
  /\ Begin("stop_pmu", mine)
  /\ UNCHANGED <<lockVars, pmuVars, value, timerVars, queued, exec, saved, history>>

StopPmu(c) ==
  /\ WorkItemTurn("stop_pmu", c, "stop_timer", mine)
  /\ CoreCounterStop(c)
  /\ UNCHANGED <<lockVars, value, timerVars, queued, exec, saved, history>>

\* KeCancelTimer takes the timer out; a DPC it has queued stays queued.
CancelTimer(c) ==
  IF timer_running[c] = 1
    THEN /\ armed' = [armed EXCEPT ![c] = FALSE]
         /\ timer_running' = [timer_running EXCEPT ![c] = 0]
    ELSE UNCHANGED timerVars

StopTimer(c) ==
  /\ Turn("stop_timer", c, "idle", {})
  /\ Completes(IF phase = "started" THEN "read" ELSE "stopped")
  /\ CancelTimer(c)
  /\ UNCHANGED <<status, mine, pmuVars, value, queued, exec, saved, history>>

(* ASSIGN_EVENTS, one IOCTL per core: new events with zero values, then the *)
(* work item that programmes the counters.                                 *)

AssignBegins ==
  /\ phase = "stopped"
  /\ Begin("assign_values", mine)
  /\ UNCHANGED <<lockVars, pmuVars, value, timerVars, queued, exec, saved, history>>

AssignValues(c) ==
  /\ pc = "assign_values"
  /\ IsNext(c)
  /\ pc' = "assign_pmu"
  /\ value' = [value EXCEPT ![c] = "none"]
  /\ UNCHANGED <<lockVars, todo, pmuVars, timerVars, queued, exec, saved, history>>

\* What a counter is programmed for does not change where it counts from.
AssignPmu(c) ==
  /\ pc = "assign_pmu"
  /\ IsNext(c)
  /\ exec[c] = "none"
  /\ todo' = todo \ {c}
  /\ IF todo' = {} THEN pc' = "idle" /\ phase' = "ready"
                   ELSE pc' = "assign_values" /\ UNCHANGED phase
  /\ UNCHANGED <<status, mine, pmuVars, value, timerVars, queued, exec, saved, history>>

(* RESET: counters by the work item; then, core by core, the values and a  *)
(* reset DPC; then a wait that does not wait.                              *)

ResetBegins ==
  /\ phase \in {"ready", "read"}
  /\ Begin("reset_pmu", mine)
  /\ phase' = "resetting"
  /\ NewMeasurement
  /\ UNCHANGED <<status, mine, enabled, timerVars, queued, exec>>

\* Mutant: the work item stops the counters and does not reset them.
ResetPmuStopsOnly(c) ==
  /\ WorkItemTurn("reset_pmu", c, "reset_values", mine)
  /\ CoreCounterStop(c)
  /\ UNCHANGED <<lockVars, value, timerVars, queued, exec, saved, history>>

ResetPmu(c) ==
  /\ WorkItemTurn("reset_pmu", c, "reset_values", mine)
  /\ CoreCounterReset(c)
  /\ UNCHANGED <<lockVars, value, timerVars, queued, exec, saved, history>>

ResetValues(c) ==
  /\ Turn("reset_values", c, "reset_wait", {})
  /\ value' = [value EXCEPT ![c] = "none"]
  /\ queued' = [queued EXCEPT ![c] = @ \cup {"reset"}]
  /\ torn' = [torn EXCEPT ![c] = exec[c] = "tick"]
  /\ UNCHANGED <<lockVars, pmuVars, timerVars, exec, saved, overran>>

\* KeWaitForSingleObject with a timeout of zero: returns, signalled or not.
ResetReturns ==
  /\ pc = "reset_wait"
  /\ pc' = "idle"
  /\ phase' = "reset"
  /\ UNCHANGED <<status, mine, todo, pmuVars, value, timerVars, queued, exec, saved, history>>

(* START: counters by the work item; then a fresh periodic timer per core. *)

StartBegins ==
  /\ phase = "reset"
  /\ Begin("start_pmu", mine)
  /\ UNCHANGED <<lockVars, pmuVars, value, timerVars, queued, exec, saved, history>>

StartPmu(c) ==
  /\ WorkItemTurn("start_pmu", c, "start_timer", mine)
  /\ CoreCounterStart(c)
  /\ UNCHANGED <<lockVars, value, timerVars, queued, exec, saved, history>>

\* A timer still running is cancelled, then it is initialised and set anew.
StartTimer(c) ==
  /\ Turn("start_timer", c, "idle", {})
  /\ Completes("started")
  /\ timer_running' = [timer_running EXCEPT ![c] = 1]
  /\ armed' = [armed EXCEPT ![c] = TRUE]
  /\ UNCHANGED <<status, mine, pmuVars, value, queued, exec, saved, history>>

(* READ copies the values of a core as they are, at any time: it neither   *)
(* stops the counters nor waits for a tick.                                *)

READ_COUNTING(c) == value[c]

(* LOCK_RELEASE: idle first, then free_pmu_resource on every core.         *)

ReleaseBegins ==
  /\ phase # "free"
  /\ Begin("free_timer", Cores)
  /\ status' = "STS_IDLE"
  /\ phase' = "locked"
  /\ mine' = {}
  /\ NewMeasurement
  /\ UNCHANGED <<enabled, timerVars, queued, exec>>

FreeTimer(c) ==
  /\ pc = "free_timer"
  /\ IsNext(c)
  /\ pc' = "free_dpc"
  /\ armed' = [armed EXCEPT ![c] = FALSE]
  /\ timer_running' = [timer_running EXCEPT ![c] = 0]
  /\ UNCHANGED <<lockVars, todo, pmuVars, value, queued, exec, saved, history>>

\* Mutant: only the DPCs of get_pmu_resource are removed.
FreeDpcKeepsTick(c) ==
  /\ pc = "free_dpc"
  /\ IsNext(c)
  /\ todo' = todo \ {c}
  /\ IF todo' = {} THEN pc' = "idle" /\ phase' = "free"
                   ELSE pc' = "free_timer" /\ UNCHANGED phase
  /\ queued' = [queued EXCEPT ![c] = @ \cap {"tick"}]
  /\ UNCHANGED <<status, mine, pmuVars, value, timerVars, exec, saved, history>>

FreeDpc(c) ==
  /\ pc = "free_dpc"
  /\ IsNext(c)
  /\ todo' = todo \ {c}
  /\ IF todo' = {} THEN pc' = "idle" /\ phase' = "free"
                   ELSE pc' = "free_timer" /\ UNCHANGED phase
  /\ queued' = [queued EXCEPT ![c] = {}]
  /\ UNCHANGED <<status, mine, pmuVars, value, timerVars, exec, saved, history>>

-----------------------------------------------------------------------------
\* What clients ask for, in the order wperf asks for it.  A client that dies
\* leaves everything as it is until another one forces the lock.
Client == \/ \E cores \in (SUBSET Cores) \ {{}} : LockGet(cores) \/ LockForce(cores) \/ TakeOver(cores)
          \/ StopBegins \/ AssignBegins \/ ResetBegins \/ StartBegins \/ ReleaseBegins

\* What the thread does of itself once it has a request.
Thread == \/ QueueDefaults
          \/ ForceOwns
          \/ ResetReturns
          \/ \E c \in Cores : \/ StopPmu(c) \/ StopTimer(c)
                              \/ AssignValues(c) \/ AssignPmu(c)
                              \/ ResetPmu(c) \/ ResetValues(c)
                              \/ StartPmu(c) \/ StartTimer(c)
                              \/ FreeTimer(c) \/ FreeDpc(c)

Next == \/ Client
        \/ Thread
        \/ \E c \in Cores : TimerFires(c) \/ Dpc(c) \/ Count(c)

Spec == Init /\ [][Next]_vars

\* Queued DPCs run and timers expire; the thread finishes what it began.
\* Nothing is assumed of clients, nor that anything happens that is counted.
FairSpec == /\ Spec
            /\ WF_vars(Thread)
            /\ \A c \in Cores : WF_vars(TimerFires(c)) /\ WF_vars(Dpc(c))

-----------------------------------------------------------------------------
(* Properties.                                                             *)

\* The driver knows of every timer that is set, or it could not stop it: STOP
\* and START cancel a timer only when timer_running says so.
TimersKnown == \A c \in Cores : armed[c] <=> timer_running[c] = 1

\* Once LOCK_RELEASE has handed the counters back, no timer is set and no DPC
\* waits: cancelling and removing DPCs in this order leaves no gap in which a
\* timer can queue one more.
ReleasedQuiet ==
  phase = "free" /\ pc # "force_own" =>
    \A c \in Cores : ~armed[c] /\ queued[c] = {}

\* The timers are set, found again and taken down in order, as above.
TimersInOrder == TypeOK /\ TimersKnown /\ ReleasedQuiet

\* From the end of RESET to the next one, neither what READ hands out nor the
\* counters of the client's cores contain anything counted before it, through
\* late ticks of earlier timers and take-overs, unless a tick was adding to the
\* values at the very moment they were zeroed.
FreshValues ==
  phase \in {"reset", "started", "read"} =>
    \A c \in mine : torn[c] \/ "old" \notin {READ_COUNTING(c), hw[c]}

\* Between START and STOP the client's cores count, but for the time of a tick
\* and where a reset DPC came late.
StartedCounts ==
  phase = "started" /\ pc = "idle" =>
    \A c \in mine : enabled[c] \/ exec[c] = "tick" \/ overran[c]

\* Even a core that a late reset DPC has stopped counts again, as long as the
\* client lets it: the next tick restarts it.
CountingResumes ==
  \A c \in Cores : phase = "started" /\ c \in mine /\ ~enabled[c]
                     ~> enabled[c] \/ phase # "started"

\* What a core has counted is collected before its counter overflows: it does
\* not stay in the counter for ever while the client counts.
CountsCollected ==
  \A c \in Cores : phase = "started" /\ c \in mine /\ hw[c] # "none"
                     ~> hw[c] = "none" \/ phase # "started"
=============================================================================
