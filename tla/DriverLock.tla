----------------------------- MODULE DriverLock -----------------------------
(***************************************************************************)
(* The lock of wperf-driver and the PMU counters it goes with: LOCK_ACQUIRE*)
(* and LOCK_RELEASE of wperf-driver/devioctl.c, the lock primitives of     *)
(* utilities.c, get_pmu_resource and free_pmu_resource of device.c, and the*)
(* file object callbacks.  The driver's queue is sequential (queue.c), so  *)
(* one IOCTL is one action; opens and closes of handles are not queued and *)
(* interleave with the IOCTLs.                                             *)
(*                                                                         *)
(* A client is a process that runs wperf (or uses wperf-lib) and owns one  *)
(* file object.  It may die at any point, which closes its handle, and the *)
(* kernel may give the address of a closed file object to a new one.       *)
(***************************************************************************)
EXTENDS Integers, FiniteSets

CONSTANTS Files,       \* addresses a WDFFILEOBJECT can have
          NoFile,      \* the null file object of current_status
          numGPC,      \* general purpose counters of the PMU (PMCR.N)
          HalFailures, \* what may fail after the probe: "alloc", "config"
          SpeClients   \* clients that also send SPE requests

ASSUME NoFileAssumption == NoFile \notin Files
ASSUME numGPCAssumption == numGPC \in Nat
ASSUME FailuresAssumption == HalFailures \subseteq {"alloc", "config"}

Counters == 0 .. (numGPC - 1)

VARIABLES
  client,       \* what the process behind each file object is doing
  meddled,      \* history: sessions another client's request cut into, and which kind
  status,       \* current_status.status
  file_object,  \* current_status.file_object
  pmu_held,     \* current_status.pmu_held
  handle,       \* counters pmc_resource_handle stands for, {} for NULL
  mapped,       \* physical counters in counter_idx_map
  numFreeGPC,   \* counters the event code thinks it can program
  hal,          \* who owns each counter, as the HAL sees it
  leaked        \* history: counters kept by a failure of GetConfigFails

lockVars == <<status, file_object>>
pmuVars  == <<pmu_held, handle, mapped, numFreeGPC, hal, leaked>>
vars     == <<client, meddled, status, file_object, pmu_held, handle, mapped, numFreeGPC, hal, leaked>>

\* "none": no such handle.  "locked": pmu_device::lock_successful.
\* "denied": a request came back as ERROR_BAD_COMMAND (lock_denied_exception).
\* "refused": pmu_device::lock threw.  "finished", "failed": unlock's outcome.
ClientStates == {"none", "opened", "locked", "denied", "refused", "finished", "failed"}

\* Requests that begin with IsLockOwner, or are answered by the lock, and SPE's.
RequestKinds == {"checked", "spe"}

TypeOK == /\ client \in [Files -> ClientStates]
          /\ meddled \in SUBSET (Files \X RequestKinds)
          /\ status \in {"STS_IDLE", "STS_BUSY"}
          /\ file_object \in Files \cup {NoFile}
          /\ pmu_held \in {0, 1}
          /\ handle \in SUBSET Counters
          /\ mapped \in SUBSET Counters
          /\ numFreeGPC \in Nat
          /\ hal \in [Counters -> {"free", "driver", "other"}]
          /\ leaked \in SUBSET Counters

Init == /\ client = [f \in Files |-> "none"]
        /\ meddled = {}
        /\ status = "STS_IDLE"
        /\ file_object = NoFile
        /\ pmu_held = 0
        /\ handle = {}
        /\ mapped = {}
        /\ numFreeGPC = 0
        /\ hal = [c \in Counters |-> "free"]
        /\ leaked = {}

Becomes(f, state) == client' = [client EXCEPT ![f] = state]

\* A request of f that the driver carries out reaches into every other
\* session still under way.
Meddles(f, kind) == meddled \cup {<<g, kind>> : g \in {g \in Files \ {f} : client[g] = "locked"}}

\* A session begins with nothing said of it.
Forget(f, sessions) == sessions \ ({f} \X RequestKinds)

-----------------------------------------------------------------------------
(* The lock primitives of utilities.c, each under current_status.sts_lock. *)

TakenByAnother(f) == file_object # f /\ status = "STS_BUSY"

SetOwner(f) == status' = "STS_BUSY" /\ file_object' = f

\* Mutant: any file object passes while somebody holds the lock.
IsLockOwnerWhenBusy(f) == status = "STS_BUSY"

IsLockOwner(f) == file_object = f

ClearOwner == status' = "STS_IDLE" /\ file_object' = NoFile

-----------------------------------------------------------------------------
(* PMU counters, leased from the HAL.                                      *)

\* Mutant: the probe goes one counter too far and takes its success for granted.
FreeCountersOneMore == {c \in 0 .. numGPC : c = numGPC \/ hal[c] = "free"}

FreeCounters == {c \in Counters : hal[c] = "free"}

Lease(cs) == [c \in Counters |-> IF c \in cs THEN "driver" ELSE hal[c]]

Return(cs) == [c \in Counters |-> IF c \in cs THEN "free" ELSE hal[c]]

GetSucceeds ==
  /\ FreeCounters # {}
  /\ handle' = FreeCounters
  /\ mapped' = FreeCounters
  /\ numFreeGPC' = Cardinality(FreeCounters)
  /\ hal' = Lease(FreeCounters)

\* The probe loop allocates and frees each counter alone and leaves the last
\* such handle behind; counter_idx_map is rewritten before anything can fail.
GetFindsNothing ==
  /\ FreeCounters = {}
  /\ mapped' = {}
  /\ UNCHANGED <<handle, numFreeGPC, hal, leaked>>

GetAllocFails ==
  /\ "alloc" \in HalFailures
  /\ \E last \in FreeCounters : /\ \A c \in FreeCounters : c <= last
                               /\ handle' = {last}
  /\ mapped' = FreeCounters
  /\ UNCHANGED <<numFreeGPC, hal, leaked>>

\* KeSetHardwareCounterConfiguration fails: returns with the counters kept.
GetConfigFails ==
  /\ "config" \in HalFailures
  /\ GetSucceeds
  /\ leaked' = leaked \cup FreeCounters

get_pmu_resource_fails == GetFindsNothing \/ GetAllocFails \/ GetConfigFails

\* The counters of whatever handle is left go back to the HAL.
free_pmu_resource ==
  /\ handle' = {}
  /\ hal' = Return(handle)
  /\ UNCHANGED <<mapped, numFreeGPC>>

-----------------------------------------------------------------------------
(* IOCTL handlers.                                                         *)

\* LOCK_GET: BUSY is answered to everybody but the owner.
LockRefused(f) ==
  /\ client[f] = "opened"
  /\ TakenByAnother(f)
  /\ Becomes(f, "refused")
  /\ UNCHANGED <<meddled, lockVars, pmuVars>>

LockAcquire(f) ==
  /\ client[f] = "opened"
  /\ ~TakenByAnother(f)
  /\ SetOwner(f)
  /\ IF pmu_held = 0 THEN GetSucceeds ELSE UNCHANGED <<handle, mapped, numFreeGPC, hal>>
  /\ pmu_held' = 1
  /\ Becomes(f, "locked")
  /\ meddled' = Forget(f, Meddles(f, "checked"))
  /\ UNCHANGED leaked

\* Mutant: the lock is kept although the counters cannot be had.
LockAcquireFailsKeeping(f) ==
  /\ client[f] = "opened"
  /\ ~TakenByAnother(f)
  /\ pmu_held = 0
  /\ get_pmu_resource_fails
  /\ SetOwner(f)
  /\ Becomes(f, "refused")
  /\ UNCHANGED <<meddled, pmu_held>>

\* The lock just taken is released again when the counters cannot be had.
LockAcquireFails(f) ==
  /\ client[f] = "opened"
  /\ ~TakenByAnother(f)
  /\ pmu_held = 0
  /\ get_pmu_resource_fails
  /\ ClearOwner
  /\ Becomes(f, "refused")
  /\ UNCHANGED <<meddled, pmu_held>>

\* Mutant: a forced acquisition leases anew what the driver has leased.
LockAcquireForceAnew(f) ==
  /\ client[f] = "opened"
  /\ GetSucceeds
  /\ pmu_held' = 1
  /\ SetOwner(f)
  /\ Becomes(f, "locked")
  /\ meddled' = Forget(f, Meddles(f, "checked"))
  /\ UNCHANGED leaked

LockAcquireForce(f) ==
  /\ client[f] = "opened"
  /\ IF pmu_held = 0 THEN GetSucceeds ELSE UNCHANGED <<handle, mapped, numFreeGPC, hal>>
  /\ pmu_held' = 1
  /\ SetOwner(f)
  /\ Becomes(f, "locked")
  /\ meddled' = Forget(f, Meddles(f, "checked"))
  /\ UNCHANGED leaked

\* Mutant: the forced acquisition asks the HAL whoever holds the counters.
LockAcquireForceAlwaysAsks(f) ==
  /\ client[f] = "opened"
  /\ get_pmu_resource_fails
  /\ Becomes(f, "refused")
  /\ UNCHANGED <<meddled, lockVars, pmu_held>>

LockAcquireForceFails(f) ==
  /\ client[f] = "opened"
  /\ pmu_held = 0
  /\ get_pmu_resource_fails
  /\ Becomes(f, "refused")
  /\ UNCHANGED <<meddled, lockVars, pmu_held>>

\* Mutant: pmu_held is cleared before it is tested.
LockReleaseForgets(f) ==
  /\ client[f] \in {"locked", "denied"}
  /\ IsLockOwner(f)
  /\ ClearOwner
  /\ pmu_held' = 0
  /\ IF pmu_held' = 1 THEN free_pmu_resource ELSE UNCHANGED <<handle, mapped, numFreeGPC, hal>>
  /\ Becomes(f, "finished")
  /\ meddled' = Meddles(f, "checked")
  /\ UNCHANGED leaked

LockRelease(f) ==
  /\ client[f] \in {"locked", "denied"}
  /\ IsLockOwner(f)
  /\ ClearOwner
  /\ pmu_held' = 0
  /\ IF pmu_held = 1 THEN free_pmu_resource ELSE UNCHANGED <<handle, mapped, numFreeGPC, hal>>
  /\ Becomes(f, "finished")
  /\ meddled' = Meddles(f, "checked")
  /\ UNCHANGED leaked

LockReleaseDenied(f) ==
  /\ client[f] \in {"locked", "denied"}
  /\ ~IsLockOwner(f)
  /\ Becomes(f, "failed")
  /\ UNCHANGED <<meddled, lockVars, pmuVars>>

\* Every other IOCTL but SPE's begins with IsLockOwner.
Request(f) ==
  /\ client[f] = "locked"
  /\ IsLockOwner(f)
  /\ meddled' = Meddles(f, "checked")
  /\ UNCHANGED <<client, lockVars, pmuVars>>

RequestDenied(f) ==
  /\ client[f] = "locked"
  /\ ~IsLockOwner(f)
  /\ Becomes(f, "denied")
  /\ UNCHANGED <<meddled, lockVars, pmuVars>>

\* The cases of SPE_IOCTL run for whoever sends them.
SpeRequest(f) ==
  /\ f \in SpeClients
  /\ client[f] = "locked"
  /\ meddled' = Meddles(f, "spe")
  /\ UNCHANGED <<client, lockVars, pmuVars>>

-----------------------------------------------------------------------------
(* Handles, and the other users of the PMU.                                *)

FileCreate(f) ==
  /\ client[f] = "none"
  /\ Becomes(f, "opened")
  /\ meddled' = Forget(f, meddled)
  /\ UNCHANGED <<lockVars, pmuVars>>

\* At the end of a run or because the process died; current_status keeps
\* naming the file object.
FileClose(f) ==
  /\ client[f] # "none"
  /\ Becomes(f, "none")
  /\ UNCHANGED <<meddled, lockVars, pmuVars>>

OtherModule(c) ==
  /\ \/ hal[c] = "free" /\ hal' = [hal EXCEPT ![c] = "other"]
     \/ hal[c] = "other" /\ hal' = [hal EXCEPT ![c] = "free"]
  /\ UNCHANGED <<client, meddled, lockVars, pmu_held, handle, mapped, numFreeGPC, leaked>>

Ioctl(f) == \/ LockRefused(f)
            \/ LockAcquire(f)
            \/ LockAcquireFails(f)
            \/ LockAcquireForce(f)
            \/ LockAcquireForceFails(f)
            \/ LockRelease(f)
            \/ LockReleaseDenied(f)
            \/ Request(f)
            \/ RequestDenied(f)
            \/ SpeRequest(f)

Next == \/ \E f \in Files : Ioctl(f) \/ FileCreate(f) \/ FileClose(f)
        \/ \E c \in Counters : OtherModule(c)

Spec == Init /\ [][Next]_vars

-----------------------------------------------------------------------------
(* Properties.                                                             *)

\* The three fields of current_status never disagree: BUSY, an owner and
\* pmu_held go together, through failed acquisitions and forced ones.
LockAgrees == /\ status = "STS_BUSY" <=> file_object # NoFile
              /\ status = "STS_BUSY" <=> pmu_held = 1

\* While the lock is held the driver's view of its counters is the HAL's:
\* the handle is live, the index map and numFreeGPC describe the same
\* counters, and there is at least one (a multiplexing tick divides by it).
LeaseIsLive == status = "STS_BUSY" =>
                 /\ \A c \in handle : hal[c] = "driver"
                 /\ mapped = handle
                 /\ numFreeGPC = Cardinality(handle)
                 /\ handle # {}

\* The lock and its counters, which a forced acquisition relies on: whether it
\* has to lease counters is decided from pmu_held alone.
LockSound == LockAgrees /\ LeaseIsLive

\* README 3.5: "prevents others from interfering with current wperf run": a
\* run whose unlock succeeded was never cut into, not even between two of its
\* requests and not by a take-over it failed to notice; but by the requests of
\* another client for the profiling extension, which look at no lock.
UndisturbedSession ==
  \A f \in Files : client[f] = "finished" =>
    /\ <<f, "checked">> \notin meddled
    /\ <<f, "spe">> \in meddled => SpeClients \ {f} # {}

\* An idle driver owes nothing to the HAL, so the next client, or another
\* kernel module, can have every counter: but those KeSetHardwareCounterConfiguration
\* failed for, which nobody ever gives back.
NoOrphanCounters ==
  status = "STS_IDLE" => \A c \in Counters : hal[c] = "driver" => c \in leaked

\* "Use --force-lock to recover from wperf crash": a forced acquisition of a
\* lock somebody holds, dead or alive, succeeds whatever the HAL answers.
ForceRecovers ==
  [][\A f \in Files : (LockAcquireForce(f) \/ LockAcquireForceFails(f)) /\ status = "STS_BUSY"
        => file_object' = f /\ UNCHANGED hal]_vars

\* Ownership moves from a file object only by its own release or by force;
\* the crash of a client, a refused lock and a failed one leave it alone.
OnlyForceTakesOver ==
  [][\A f \in Files : file_object = f /\ file_object' # f =>
        \/ client[f] \in {"locked", "denied"} /\ client'[f] = "finished"
        \/ \E g \in Files \ {f} : LockAcquireForce(g)]_vars

Lock == INSTANCE LockSpec WITH holder <- file_object,
                               lease <- IF status = "STS_BUSY" THEN mapped ELSE {}

\* The lock implements LockSpec: a lease begins with a grant, survives every
\* take-over unchanged, and ends with the holder's release.
ImplementsLock == Lock!Spec
=============================================================================
