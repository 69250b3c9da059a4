----------------------------- MODULE DeviceLife -----------------------------
(***************************************************************************)
(* The device object of wperf-driver from WindowsPerfDeviceCreate to       *)
(* WindowsPerfDeviceIOCleanup (device.c): file handles that open and close *)
(* in parallel, the queue's thread in an IOCTL (queue.c), the timers and   *)
(* DPCs that IOCTLs set up, and the PnP manager, which asks for the        *)
(* removal, suspends, resumes and removes.                                 *)
(*                                                                         *)
(* The PnP manager, the order of the framework's callbacks and the timers  *)
(* of the kernel are external.  A handle closes only when no request of    *)
(* its file is open, and WdfIoQueueStopSynchronously waits for the one the *)
(* driver has.  InUse is incremented and decremented by callbacks that run *)
(* in parallel: a load and a store.                                        *)
(***************************************************************************)
EXTENDS Integers, FiniteSets

CONSTANTS numCores,
          Files,         \* file objects; each opens at most once
          Width          \* values of a USHORT

ASSUME SizesAssumption == /\ numCores \in Nat \ {0}
                          /\ IsFiniteSet(Files)
                          /\ Width \in Nat /\ Width > Cardinality(Files)

Cores == 0 .. (numCores - 1)

VARIABLES
  pnp,            \* where the PnP manager is with the device
  at,             \* the core its loop is at
  queue,          \* the default queue: "absent", "stopped" or "started"
  core_info,      \* "none", "live" or "freed"
  running, AskedToRemove, InUse,
  file,           \* each file object's life
  loaded,         \* what its callback has read of InUse
  handler,        \* the IOCTL the queue's thread is in: its file and step
  status,         \* current_status.status
  armed, queued,  \* each core's timer, and DPCs of it that wait
  exec,           \* DPCs past their tests
  overlapped,     \* history: two file callbacks ran at the same time
  late            \* history: files opened after the wait for handles

pnpVars  == <<pnp, at>>
flagVars == <<running, AskedToRemove>>
fileVars == <<InUse, file, loaded>>
dpcVars  == <<armed, queued, exec>>
history  == <<overlapped, late>>
vars == <<pnpVars, queue, core_info, flagVars, fileVars, handler, status, dpcVars, history>>

Idle == [file |-> "none", step |-> "idle"]

TypeOK ==
  /\ pnp \in {"absent", "created", "started", "asked", "waited", "removing", "cancelling", "flushing",
              "agreed", "suspending", "suspended", "leaving", "cleaning", "freeing", "gone"}
  /\ at \in 0 .. numCores
  /\ queue \in {"absent", "stopped", "started"}
  /\ core_info \in {"none", "live", "freed"}
  /\ {running, AskedToRemove} \subseteq {0, 1}
  /\ InUse \in 0 .. (Width - 1)
  /\ file \in [Files -> {"new", "creating", "open", "closing", "closed"}]
  /\ loaded \in [Files -> 0 .. (Width - 1)]
  /\ handler = Idle \/ handler \in [file : Files, step : {"start_pmu", "start_timer", "stop_timer", "release"}]
  /\ status \in {"STS_IDLE", "STS_BUSY"}
  /\ armed \in [Cores -> BOOLEAN] /\ queued \in [Cores -> BOOLEAN] /\ exec \in [Cores -> BOOLEAN]
  /\ overlapped \in BOOLEAN /\ late \subseteq Files

Init == /\ pnp = "absent" /\ at = 0
        /\ queue = "absent" /\ core_info = "none"
        /\ running = 1 /\ AskedToRemove = 0 /\ InUse = 0
        /\ file = [f \in Files |-> "new"] /\ loaded = [f \in Files |-> 0]
        /\ handler = Idle /\ status = "STS_IDLE"
        /\ armed = [c \in Cores |-> FALSE] /\ queued = [c \in Cores |-> FALSE]
        /\ exec = [c \in Cores |-> FALSE]
        /\ overlapped = FALSE /\ late = {}

-----------------------------------------------------------------------------
(* Creation.  A step that fails ends it, and nobody undoes what was done.  *)

WindowsPerfDeviceCreate ==
  /\ pnp = "absent"
  /\ queue' = "stopped"              \* WindowsPerfQueueInitialize
  /\ \E fails \in {"no PMU", "core_info", "later", "never"} :
       /\ pnp' = IF fails = "never" THEN "created" ELSE "gone"
       /\ core_info' = IF fails \in {"later", "never"} THEN "live" ELSE "none"
       /\ queued' \in [Cores -> BOOLEAN]     \* dpc_queue of the cores it came to
       /\ fails = "never" => \A c \in Cores : queued'[c]
       /\ fails \in {"no PMU", "core_info"} => \A c \in Cores : ~queued'[c]
  /\ UNCHANGED <<at, flagVars, fileVars, handler, status, armed, exec, history>>

\* EvtDeviceSelfManagedIoInit or ...Restart.
WindowsPerfEvtDeviceSelfManagedIoStart ==
  /\ pnp \in {"created", "suspended"}
  /\ pnp' = "started"
  /\ queue' = "started"
  /\ UNCHANGED <<at, core_info, flagVars, fileVars, handler, status, dpcVars, history>>

-----------------------------------------------------------------------------
(* File handles.                                                           *)

Overlaps(f) == \E g \in Files \ {f} : file[g] \in {"creating", "closing"}

Present == pnp \notin {"absent", "created", "gone"}

\* FileCreate does not look at AskedToRemove.
FileCreate(f) ==
  /\ Present /\ file[f] = "new"
  /\ file' = [file EXCEPT ![f] = "creating"]
  /\ loaded' = [loaded EXCEPT ![f] = InUse]
  /\ overlapped' = (overlapped \/ Overlaps(f))
  /\ UNCHANGED <<pnpVars, queue, core_info, flagVars, InUse, handler, status, dpcVars, late>>

FileCreated(f) ==
  /\ file[f] = "creating"
  /\ file' = [file EXCEPT ![f] = "open"]
  /\ InUse' = ((loaded[f] + 1) % Width)
  /\ late' = IF pnp \in {"started", "asked", "suspending", "suspended"} THEN late ELSE late \cup {f}
  /\ UNCHANGED <<pnpVars, queue, core_info, flagVars, loaded, handler, status, dpcVars, overlapped>>

FileClose(f) ==
  /\ file[f] = "open" /\ handler.file # f
  /\ file' = [file EXCEPT ![f] = "closing"]
  /\ loaded' = [loaded EXCEPT ![f] = InUse]
  /\ overlapped' = (overlapped \/ Overlaps(f))
  /\ UNCHANGED <<pnpVars, queue, core_info, flagVars, InUse, handler, status, dpcVars, late>>

\* Mutant: a handle that closes is not counted off.
FileClosedUncounted(f) ==
  /\ file[f] = "closing"
  /\ file' = [file EXCEPT ![f] = "closed"]
  /\ UNCHANGED <<pnpVars, queue, core_info, flagVars, InUse, loaded, handler, status, dpcVars, history>>

FileClosed(f) ==
  /\ file[f] = "closing"
  /\ file' = [file EXCEPT ![f] = "closed"]
  /\ InUse' = ((loaded[f] - 1) % Width)
  /\ UNCHANGED <<pnpVars, queue, core_info, flagVars, loaded, handler, status, dpcVars, history>>

-----------------------------------------------------------------------------
(* The queue's thread: START, STOP and LOCK_RELEASE, as far as timers go.  *)

\* AskedToRemove is tested once, before deviceControl.
WindowsPerfEvtDeviceControl(f) ==
  /\ queue = "started" /\ handler = Idle /\ file[f] = "open" /\ AskedToRemove = 0
  /\ \E step \in {"start_pmu", "stop_timer", "release"} : handler' = [file |-> f, step |-> step]
  /\ status' = IF handler'.step = "release" THEN "STS_IDLE" ELSE "STS_BUSY"
  /\ UNCHANGED <<pnpVars, queue, core_info, flagVars, fileVars, dpcVars, history>>

\* START's work item; without running it returns, and START goes on.
StartPmu ==
  /\ handler.step = "start_pmu"
  /\ handler' = [handler EXCEPT !.step = "start_timer"]
  /\ UNCHANGED <<pnpVars, queue, core_info, flagVars, fileVars, status, dpcVars, history>>

StartTimers ==
  /\ handler.step = "start_timer"
  /\ handler' = Idle
  /\ armed' = [c \in Cores |-> TRUE]
  /\ UNCHANGED <<pnpVars, queue, core_info, flagVars, fileVars, status, queued, exec, history>>

StopTimers ==
  /\ handler.step = "stop_timer"
  /\ handler' = Idle
  /\ armed' = [c \in Cores |-> FALSE]
  /\ UNCHANGED <<pnpVars, queue, core_info, flagVars, fileVars, status, queued, exec, history>>

\* free_pmu_resource, on all cores at once here: CoreCounting has its order.
ReleaseTimers ==
  /\ handler.step = "release"
  /\ handler' = Idle
  /\ armed' = [c \in Cores |-> FALSE] /\ queued' = [c \in Cores |-> FALSE]
  /\ UNCHANGED <<pnpVars, queue, core_info, flagVars, fileVars, status, exec, history>>

Handler == StartPmu \/ StartTimers \/ StopTimers \/ ReleaseTimers

-----------------------------------------------------------------------------
(* Timers and DPCs.                                                        *)

TimerFires(c) ==
  /\ armed[c]
  /\ queued' = [queued EXCEPT ![c] = TRUE]
  /\ UNCHANGED <<pnpVars, queue, core_info, flagVars, fileVars, handler, status, armed, exec, history>>

\* A DPC that finds the driver stopping or idle returns; another goes on to
\* the core's data.
DpcBegins(c) ==
  /\ queued[c] /\ ~exec[c]
  /\ queued' = [queued EXCEPT ![c] = FALSE]
  /\ exec' = [exec EXCEPT ![c] = running = 1 /\ status = "STS_BUSY"]
  /\ UNCHANGED <<pnpVars, queue, core_info, flagVars, fileVars, handler, status, armed, history>>

DpcEnds(c) ==
  /\ exec[c]
  /\ exec' = [exec EXCEPT ![c] = FALSE]
  /\ UNCHANGED <<pnpVars, queue, core_info, flagVars, fileVars, handler, status, armed, queued, history>>

-----------------------------------------------------------------------------
(* IRP_MN_QUERY_REMOVE_DEVICE.                                             *)

AskRemove ==
  /\ pnp = "started"
  /\ pnp' = "asked"
  /\ AskedToRemove' = 1
  /\ running' = 0
  /\ UNCHANGED <<at, queue, core_info, fileVars, handler, status, dpcVars, history>>

\* The loop ends when it finds InUse zero.
HandlesClosed ==
  /\ pnp = "asked" /\ InUse = 0
  /\ pnp' = "waited"
  /\ UNCHANGED <<at, queue, core_info, flagVars, fileVars, handler, status, dpcVars, history>>

\* The wait for sync_reset_dpc ends after 10 ms, signalled or not.
WaitEnds ==
  /\ pnp = "waited"
  /\ pnp' = "removing" /\ at' = 0
  /\ UNCHANGED <<queue, core_info, flagVars, fileVars, handler, status, dpcVars, history>>

RemoveDpcs ==
  /\ pnp = "removing" /\ at < numCores
  /\ pnp' = "cancelling"
  /\ queued' = [queued EXCEPT ![at] = FALSE]
  /\ UNCHANGED <<at, queue, core_info, flagVars, fileVars, handler, status, armed, exec, history>>

CancelTimer ==
  /\ pnp = "cancelling"
  /\ pnp' = IF at + 1 = numCores THEN "flushing" ELSE "removing"
  /\ at' = at + 1
  /\ armed' = [armed EXCEPT ![at] = FALSE]
  /\ UNCHANGED <<queue, core_info, flagVars, fileVars, handler, status, queued, exec, history>>

\* WdfWorkItemFlush: the work item that START has queued has run.
FlushWorkItem ==
  /\ pnp = "flushing" /\ handler.step # "start_pmu"
  /\ pnp' = "agreed"
  /\ UNCHANGED <<at, queue, core_info, flagVars, fileVars, handler, status, dpcVars, history>>

WindowsPerfDeviceQueryRemove ==
  AskRemove \/ HandlesClosed \/ WaitEnds \/ RemoveDpcs \/ CancelTimer \/ FlushWorkItem

\* Another driver or application vetoes: the device goes on, with its flags.
CancelRemove ==
  /\ pnp = "agreed"
  /\ pnp' = "started"
  /\ UNCHANGED <<at, queue, core_info, flagVars, fileVars, handler, status, dpcVars, history>>

-----------------------------------------------------------------------------
(* Suspend, for sleep and before a removal; the removal itself, which may  *)
(* come unasked; IOCleanup.                                                *)

BeginSuspend ==
  /\ \/ pnp = "started" /\ pnp' \in {"suspending", "leaving"}
     \/ pnp = "agreed" /\ pnp' = "leaving"
  /\ queue' = "stopped"
  /\ UNCHANGED <<at, core_info, flagVars, fileVars, handler, status, dpcVars, history>>

\* Mutant: the queue is stopped without waiting for the request it has given.
SuspendedUnwaited ==
  /\ pnp \in {"suspending", "leaving"}
  /\ pnp' = IF pnp = "suspending" THEN "suspended" ELSE "cleaning"
  /\ at' = 0
  /\ UNCHANGED <<queue, core_info, flagVars, fileVars, handler, status, dpcVars, history>>

\* Mutant: the handles are waited for once more.
SuspendedAfterHandles ==
  /\ pnp \in {"suspending", "leaving"} /\ handler = Idle /\ InUse = 0
  /\ pnp' = IF pnp = "suspending" THEN "suspended" ELSE "cleaning"
  /\ at' = 0
  /\ UNCHANGED <<queue, core_info, flagVars, fileVars, handler, status, dpcVars, history>>

\* WdfIoQueueStopSynchronously returns.
Suspended ==
  /\ pnp \in {"suspending", "leaving"} /\ handler = Idle
  /\ pnp' = IF pnp = "suspending" THEN "suspended" ELSE "cleaning"
  /\ at' = 0
  /\ UNCHANGED <<queue, core_info, flagVars, fileVars, handler, status, dpcVars, history>>

\* free_pmu_resource of IOCleanup, core by core: timer, then DPCs ...
CleanCore ==
  /\ pnp = "cleaning" /\ at < numCores
  /\ AskedToRemove' = 1 /\ running' = 0
  /\ armed' = [armed EXCEPT ![at] = FALSE]
  /\ pnp' = "freeing"
  /\ UNCHANGED <<at, queue, core_info, fileVars, handler, status, queued, exec, history>>

CleanDpcs ==
  /\ pnp = "freeing"
  /\ queued' = [queued EXCEPT ![at] = FALSE]
  /\ at' = at + 1
  /\ pnp' = "cleaning"
  /\ UNCHANGED <<queue, core_info, flagVars, fileVars, handler, status, armed, exec, history>>

\* ... then the memory.
FreeCores ==
  /\ pnp = "cleaning" /\ at = numCores
  /\ core_info' = "freed"
  /\ pnp' = "gone"
  /\ UNCHANGED <<at, queue, flagVars, fileVars, handler, status, dpcVars, history>>

WindowsPerfDeviceIOCleanup == CleanCore \/ CleanDpcs \/ FreeCores

Pnp == \/ WindowsPerfDeviceCreate \/ WindowsPerfEvtDeviceSelfManagedIoStart
       \/ WindowsPerfDeviceQueryRemove \/ CancelRemove
       \/ BeginSuspend \/ Suspended \/ WindowsPerfDeviceIOCleanup

FileCallback(f) == FileCreated(f) \/ FileClosed(f)

Next == \/ Pnp \/ Handler
        \/ \E f \in Files : FileCreate(f) \/ FileClose(f) \/ FileCallback(f) \/ WindowsPerfEvtDeviceControl(f)
        \/ \E c \in Cores : TimerFires(c) \/ DpcBegins(c) \/ DpcEnds(c)

Spec == Init /\ [][Next]_vars

\* The driver's own code goes on, also QueryRemove once it has been asked, and
\* whoever holds a handle closes it sooner or later: its requests are refused.
FairSpec == /\ Spec
            /\ WF_vars(HandlesClosed \/ WaitEnds \/ RemoveDpcs \/ CancelTimer \/ FlushWorkItem)
            /\ WF_vars(Suspended \/ WindowsPerfDeviceIOCleanup)
            /\ WF_vars(Handler)
            /\ \A f \in Files : WF_vars(FileCallback(f)) /\ WF_vars(FileClose(f))

-----------------------------------------------------------------------------
(* Properties.                                                             *)

\* When the cores' data is freed, no timer that would queue a DPC in it is set,
\* no such DPC waits, and the queue's thread is in no IOCTL: however START, a
\* timer and the two removals come together, and also when the removal was
\* not asked for or did not wait for every handle.
FreedIsQuiet ==
  core_info = "freed" =>
    /\ handler = Idle
    /\ \A c \in Cores : ~armed[c] /\ ~queued[c]

\* QueryRemove goes on only when every handle that was open has closed, as long
\* as no two file callbacks run at the same time; one that opens later, which
\* nothing prevents, cannot be served any more.
StallHolds ==
  pnp \in {"waited", "removing", "cancelling", "flushing", "agreed"} /\ ~overlapped =>
    \A f \in Files \ late : file[f] \in {"new", "creating", "closed"}

\* The tearing down comes after everything that uses what it tears down.
TornDownInOrder == TypeOK /\ FreedIsQuiet /\ StallHolds

\* A removal that was asked for is answered, when the handles close one after
\* another: neither START nor a handle that opens late holds it up for ever.
RemovalAnswered == pnp = "asked" ~> pnp # "asked" \/ overlapped

\* And one that has begun ends, overlapped or not: what the queue's thread is
\* in does not wait for the removal that waits for it.
RemovalEnds == pnp = "leaving" ~> pnp = "gone"
=============================================================================
