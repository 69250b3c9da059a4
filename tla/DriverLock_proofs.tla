-------------------------- MODULE DriverLock_proofs --------------------------
(***************************************************************************)
(* The properties of DriverLock, proved for any set of clients, any number *)
(* of counters and any combination of HAL failures.                        *)
(***************************************************************************)
EXTENDS DriverLock, FiniteSetTheorems, TLAPS

\* The counters found free are finitely many, so numFreeGPC is a number.
LEMMA FreeCountersFinite ==
  FreeCounters \in SUBSET Counters /\ Cardinality(FreeCounters) \in Nat
<1>1. IsFiniteSet(Counters)
  BY FS_Interval, numGPCAssumption DEF Counters
<1>2. FreeCounters \subseteq Counters
  BY DEF FreeCounters
<1> QED
  BY <1>1, <1>2, FS_Subset, FS_CardinalityType

\* Whatever get_pmu_resource comes back with, its globals keep their types.
LEMMA GetPmuResourceTyping ==
  ASSUME TypeOK, (GetSucceeds /\ UNCHANGED leaked) \/ get_pmu_resource_fails
  PROVE  /\ handle' \in SUBSET Counters
         /\ mapped' \in SUBSET Counters
         /\ numFreeGPC' \in Nat
         /\ hal' \in [Counters -> {"free", "driver", "other"}]
         /\ leaked' \in SUBSET Counters
<1>1. CASE GetSucceeds /\ UNCHANGED leaked
  BY <1>1, FreeCountersFinite DEF GetSucceeds, Lease, TypeOK
<1>2. CASE GetFindsNothing
  BY <1>2 DEF GetFindsNothing, TypeOK
<1>3. CASE GetAllocFails
  BY <1>3, FreeCountersFinite DEF GetAllocFails, TypeOK
<1>4. CASE GetConfigFails
  BY <1>4, FreeCountersFinite DEF GetConfigFails, GetSucceeds, Lease, TypeOK
<1> QED
  BY <1>1, <1>2, <1>3, <1>4 DEF get_pmu_resource_fails

\* Nor does giving the counters back.
LEMMA FreePmuResourceTyping ==
  ASSUME TypeOK, free_pmu_resource, UNCHANGED leaked
  PROVE  /\ handle' \in SUBSET Counters
         /\ mapped' \in SUBSET Counters
         /\ numFreeGPC' \in Nat
         /\ hal' \in [Counters -> {"free", "driver", "other"}]
         /\ leaked' \in SUBSET Counters
BY DEF free_pmu_resource, Return, TypeOK

-----------------------------------------------------------------------------
\* Every handler keeps every field of the driver and every client within its
\* type, for any number of clients and counters.
THEOREM Typing == Spec => []TypeOK
<1>1. Init => TypeOK
  BY DEF Init, TypeOK, ClientStates
<1>2. TypeOK /\ [Next]_vars => TypeOK'
  <2> SUFFICES ASSUME TypeOK, [Next]_vars PROVE TypeOK'
    OBVIOUS
  <2> USE DEF Becomes, ClientStates, RequestKinds, Meddles, Forget, SetOwner, ClearOwner, lockVars, pmuVars
  <2>1. ASSUME NEW f \in Files, LockRefused(f) PROVE TypeOK'
    BY <2>1 DEF LockRefused, TypeOK
  <2>2. ASSUME NEW f \in Files, LockAcquire(f) PROVE TypeOK'
    <3>1. CASE pmu_held = 0
      BY <2>2, <3>1, GetPmuResourceTyping DEF LockAcquire, TypeOK
    <3>2. CASE pmu_held # 0
      BY <2>2, <3>2 DEF LockAcquire, TypeOK
    <3> QED
      BY <3>1, <3>2
  <2>3. ASSUME NEW f \in Files, LockAcquireFails(f) PROVE TypeOK'
    BY <2>3, GetPmuResourceTyping DEF LockAcquireFails, TypeOK
  <2>4. ASSUME NEW f \in Files, LockAcquireForce(f) PROVE TypeOK'
    <3>1. CASE pmu_held = 0
      BY <2>4, <3>1, GetPmuResourceTyping DEF LockAcquireForce, TypeOK
    <3>2. CASE pmu_held # 0
      BY <2>4, <3>2 DEF LockAcquireForce, TypeOK
    <3> QED
      BY <3>1, <3>2
  <2>5. ASSUME NEW f \in Files, LockAcquireForceFails(f) PROVE TypeOK'
    BY <2>5, GetPmuResourceTyping DEF LockAcquireForceFails, TypeOK
  <2>6. ASSUME NEW f \in Files, LockRelease(f) PROVE TypeOK'
    <3>1. CASE pmu_held = 1
      BY <2>6, <3>1, FreePmuResourceTyping DEF LockRelease, TypeOK
    <3>2. CASE pmu_held # 1
      BY <2>6, <3>2 DEF LockRelease, TypeOK
    <3> QED
      BY <3>1, <3>2
  <2>7. ASSUME NEW f \in Files,
               LockReleaseDenied(f) \/ Request(f) \/ RequestDenied(f) \/ SpeRequest(f)
        PROVE  TypeOK'
    BY <2>7 DEF LockReleaseDenied, Request, RequestDenied, SpeRequest, TypeOK
  <2>8. ASSUME NEW f \in Files, FileCreate(f) \/ FileClose(f) PROVE TypeOK'
    BY <2>8 DEF FileCreate, FileClose, TypeOK
  <2>9. ASSUME NEW c \in Counters, OtherModule(c) PROVE TypeOK'
    BY <2>9 DEF OtherModule, TypeOK
  <2>10. CASE UNCHANGED vars
    BY <2>10 DEF vars, TypeOK
  <2> QED
    BY <2>1, <2>2, <2>3, <2>4, <2>5, <2>6, <2>7, <2>8, <2>9, <2>10 DEF Next, Ioctl
<1> QED
  BY <1>1, <1>2, PTL DEF Spec

-----------------------------------------------------------------------------
\* The inductive invariant: the fields of current_status agree, and a held
\* lock comes with a live lease.  Neither half is inductive alone: that a
\* failing get_pmu_resource cannot spoil a held lease needs LockAgrees, which
\* keeps it from being called while the lock is held.
LockInv == TypeOK /\ LockAgrees /\ LeaseIsLive

\* With the lock idle no handler but a successful acquisition matters to
\* LockInv: status and owner stay cleared.
LEMMA IdleKeepsInvariant ==
  ASSUME TypeOK', status' = "STS_IDLE", file_object' = NoFile, pmu_held' = 0
  PROVE  LockAgrees' /\ LeaseIsLive'
BY DEF LockAgrees, LeaseIsLive

\* A successful get_pmu_resource leaves exactly what LeaseIsLive asks for.
LEMMA FreshLeaseIsLive ==
  ASSUME TypeOK, GetSucceeds
  PROVE  LeaseIsLive'
BY DEF GetSucceeds, Lease, LeaseIsLive, FreeCounters

\* Taking or being handed the lock, by LOCK_GET or LOCK_GET_FORCE.
LEMMA AcquiringKeepsInvariant ==
  ASSUME LockInv, NEW f \in Files, LockAcquire(f) \/ LockAcquireForce(f)
  PROVE  LockAgrees' /\ LeaseIsLive'
<1>1. status' = "STS_BUSY" /\ file_object' = f /\ pmu_held' = 1
  BY DEF LockAcquire, LockAcquireForce, SetOwner
<1>2. LockAgrees'
  BY <1>1, NoFileAssumption DEF LockAgrees
<1>3. CASE pmu_held = 0
  BY <1>2, <1>3, FreshLeaseIsLive DEF LockAcquire, LockAcquireForce, LockInv
<1>4. CASE pmu_held # 0
  <2>1. status = "STS_BUSY"
    BY <1>4 DEF LockInv, LockAgrees, TypeOK
  <2>2. UNCHANGED <<handle, mapped, numFreeGPC, hal>>
    BY <1>4 DEF LockAcquire, LockAcquireForce
  <2> QED
    BY <1>2, <2>1, <2>2 DEF LockInv, LeaseIsLive
<1> QED
  BY <1>2, <1>3, <1>4

\* LockInv is inductive.
LEMMA LockInvStep == LockInv /\ TypeOK' /\ [Next]_vars => LockInv'
<1> SUFFICES ASSUME LockInv, TypeOK', [Next]_vars PROVE LockAgrees' /\ LeaseIsLive'
  BY DEF LockInv
<1>1. ASSUME NEW f \in Files, LockAcquire(f) \/ LockAcquireForce(f)
      PROVE  LockAgrees' /\ LeaseIsLive'
  BY <1>1, AcquiringKeepsInvariant
<1>2. ASSUME NEW f \in Files, LockAcquireFails(f) PROVE LockAgrees' /\ LeaseIsLive'
  BY <1>2, IdleKeepsInvariant DEF LockAcquireFails, ClearOwner
<1>3. ASSUME NEW f \in Files, LockAcquireForceFails(f) PROVE LockAgrees' /\ LeaseIsLive'
  <2>1. status = "STS_IDLE" /\ file_object = NoFile
    BY <1>3 DEF LockAcquireForceFails, LockInv, LockAgrees, TypeOK
  <2> QED
    BY <1>3, <2>1, IdleKeepsInvariant DEF LockAcquireForceFails, lockVars
<1>4. ASSUME NEW f \in Files, LockRelease(f) PROVE LockAgrees' /\ LeaseIsLive'
  BY <1>4, IdleKeepsInvariant DEF LockRelease, ClearOwner
<1>5. ASSUME NEW f \in Files,
             \/ LockRefused(f) \/ LockReleaseDenied(f) \/ Request(f) \/ RequestDenied(f)
             \/ SpeRequest(f) \/ FileCreate(f) \/ FileClose(f)
      PROVE  LockAgrees' /\ LeaseIsLive'
  <2>1. UNCHANGED <<lockVars, pmuVars>>
    BY <1>5 DEF LockRefused, LockReleaseDenied, Request, RequestDenied, SpeRequest,
                FileCreate, FileClose
  <2> QED
    BY <2>1 DEF LockInv, LockAgrees, LeaseIsLive, lockVars, pmuVars
<1>6. ASSUME NEW c \in Counters, OtherModule(c) PROVE LockAgrees' /\ LeaseIsLive'
  <2>1. LockAgrees'
    BY <1>6 DEF OtherModule, LockInv, LockAgrees, lockVars
  <2>2. \A d \in Counters : hal[d] = "driver" => hal'[d] = "driver"
    BY <1>6 DEF OtherModule, LockInv, TypeOK
  <2>3. UNCHANGED <<status, handle, mapped, numFreeGPC>>
    BY <1>6 DEF OtherModule, lockVars
  <2>4. handle \in SUBSET Counters
    BY DEF LockInv, TypeOK
  <2> QED
    BY <2>1, <2>2, <2>3, <2>4 DEF LockInv, LeaseIsLive
<1>7. CASE UNCHANGED vars
  BY <1>7 DEF vars, LockInv, LockAgrees, LeaseIsLive
<1> QED
  BY <1>1, <1>2, <1>3, <1>4, <1>5, <1>6, <1>7 DEF Next, Ioctl

\* current_status is consistent after every handler, and whoever holds the
\* lock has a live, correctly mapped, non-empty set of counters.
THEOREM LockSafety == Spec => []LockSound
<1>1. Init => LockInv
  BY NoFileAssumption DEF Init, LockInv, TypeOK, LockAgrees, LeaseIsLive, ClientStates
<1>2. LockInv => LockSound
  BY DEF LockInv, LockSound
<1> QED
  BY <1>1, <1>2, LockInvStep, Typing, PTL DEF Spec

-----------------------------------------------------------------------------
\* What makes UndisturbedSession inductive: the session of the owner has not
\* been cut into, and a client told it lost the lock never owns it again.
SessionInv == /\ UndisturbedSession
              /\ \A f \in Files : file_object = f /\ client[f] = "locked" => <<f, "checked">> \notin meddled
              /\ \A f \in Files : <<f, "spe">> \in meddled => SpeClients \ {f} # {}
              /\ \A f \in Files : client[f] = "denied" => file_object # f

LEMMA SessionInvStep == TypeOK /\ SessionInv /\ [Next]_vars => SessionInv'
<1> SUFFICES ASSUME TypeOK, SessionInv, [Next]_vars PROVE SessionInv'
  OBVIOUS
<1> USE DEF SessionInv, UndisturbedSession, TypeOK, Becomes, RequestKinds, lockVars, pmuVars
<1>1. ASSUME NEW f \in Files, LockAcquire(f) \/ LockAcquireForce(f) PROVE SessionInv'
  <2>1. /\ file_object' = f
        /\ client' = [client EXCEPT ![f] = "locked"]
        /\ meddled' = Forget(f, Meddles(f, "checked"))
    BY <1>1 DEF LockAcquire, LockAcquireForce, SetOwner
  <2> QED
    BY <2>1 DEF Meddles, Forget
<1>2. ASSUME NEW f \in Files, LockAcquireFails(f) PROVE SessionInv'
  BY <1>2, NoFileAssumption DEF LockAcquireFails, ClearOwner
<1>3. ASSUME NEW f \in Files,
             LockAcquireForceFails(f) \/ LockRefused(f) \/ LockReleaseDenied(f)
      PROVE  SessionInv'
  BY <1>3 DEF LockAcquireForceFails, LockRefused, LockReleaseDenied
<1>4. ASSUME NEW f \in Files, LockRelease(f) PROVE SessionInv'
  BY <1>4, NoFileAssumption DEF LockRelease, IsLockOwner, ClearOwner, Meddles
<1>5. ASSUME NEW f \in Files, Request(f) PROVE SessionInv'
  BY <1>5 DEF Request, IsLockOwner, Meddles
<1>6. ASSUME NEW f \in Files, RequestDenied(f) PROVE SessionInv'
  BY <1>6 DEF RequestDenied, IsLockOwner
<1>7. ASSUME NEW f \in Files, FileCreate(f) \/ FileClose(f) PROVE SessionInv'
  BY <1>7 DEF FileCreate, FileClose, Forget
<1>8. ASSUME NEW c \in Counters, OtherModule(c) PROVE SessionInv'
  BY <1>8 DEF OtherModule
<1>9. ASSUME NEW f \in Files, SpeRequest(f) PROVE SessionInv'
  <2>1. /\ f \in SpeClients
        /\ meddled' = Meddles(f, "spe")
        /\ UNCHANGED <<client, file_object>>
    BY <1>9 DEF SpeRequest
  <2>2. \A g \in Files : <<g, "checked">> \in meddled' => <<g, "checked">> \in meddled
    BY <2>1 DEF Meddles
  <2>3. \A g \in Files : <<g, "spe">> \in meddled' => <<g, "spe">> \in meddled \/ f \in SpeClients \ {g}
    BY <2>1 DEF Meddles
  <2> QED
    BY <2>1, <2>2, <2>3
<1>10. CASE UNCHANGED vars
  BY <1>10 DEF vars
<1> QED
  BY <1>1, <1>2, <1>3, <1>4, <1>5, <1>6, <1>7, <1>8, <1>9, <1>10 DEF Next, Ioctl

\* The lock gives what the README says: a run that ends with a successful
\* unlock had the driver to itself from lock to unlock, through crashes, forced
\* take-overs and reused file object addresses, but for SPE requests.
THEOREM Exclusive == Spec => []UndisturbedSession
<1>1. Init => SessionInv
  BY NoFileAssumption DEF Init, SessionInv, UndisturbedSession
<1>2. SessionInv => UndisturbedSession
  BY DEF SessionInv
<1>3. TypeOK /\ SessionInv /\ [Next]_vars => SessionInv'
  BY SessionInvStep
<1> QED
  BY <1>1, <1>2, <1>3, Typing, PTL DEF Spec

-----------------------------------------------------------------------------
\* Every counter the HAL counts as the driver's is in the handle of a held
\* lock or was kept by a failure.
CountersAccounted ==
  \A c \in Counters : hal[c] = "driver" => c \in leaked \/ (status = "STS_BUSY" /\ c \in handle)

LEMMA CountersAccountedStep ==
  LockInv /\ CountersAccounted /\ [Next]_vars => CountersAccounted'
<1> SUFFICES ASSUME LockInv, CountersAccounted, [Next]_vars PROVE CountersAccounted'
  OBVIOUS
<1> USE DEF CountersAccounted, LockInv, TypeOK
<1>1. ASSUME NEW f \in Files, LockAcquire(f) \/ LockAcquireForce(f)
      PROVE  CountersAccounted'
  <2>1. status' = "STS_BUSY"
    BY <1>1 DEF LockAcquire, LockAcquireForce, SetOwner
  <2>2. CASE pmu_held = 0
    <3>1. \A c \in Counters : hal[c] = "driver" => c \in leaked
      BY <2>2 DEF LockAgrees
    <3>2. GetSucceeds /\ UNCHANGED leaked
      BY <1>1, <2>2 DEF LockAcquire, LockAcquireForce
    <3> QED
      BY <2>1, <3>1, <3>2 DEF GetSucceeds, Lease
  <2>3. CASE pmu_held # 0
    BY <1>1, <2>1, <2>3 DEF LockAcquire, LockAcquireForce
  <2> QED
    BY <2>2, <2>3
<1>2. ASSUME NEW f \in Files, LockAcquireFails(f) \/ LockAcquireForceFails(f)
      PROVE  CountersAccounted'
  <2>1. \A c \in Counters : hal[c] = "driver" => c \in leaked
    BY <1>2 DEF LockAcquireFails, LockAcquireForceFails, LockAgrees
  <2>2. UNCHANGED <<hal, leaked>> \/ GetConfigFails
    BY <1>2 DEF LockAcquireFails, LockAcquireForceFails, get_pmu_resource_fails,
                GetFindsNothing, GetAllocFails
  <2>3. \A c \in Counters : hal'[c] = "driver" => c \in leaked'
    BY <2>1, <2>2 DEF GetConfigFails, GetSucceeds, Lease
  <2> QED
    BY <2>3
<1>3. ASSUME NEW f \in Files, LockRelease(f) PROVE CountersAccounted'
  <2>1. file_object = f
    BY <1>3 DEF LockRelease, IsLockOwner
  <2>2. pmu_held = 1
    BY <2>1, NoFileAssumption DEF LockAgrees
  <2>3. hal' = Return(handle) /\ UNCHANGED leaked
    BY <1>3, <2>2 DEF LockRelease, free_pmu_resource
  <2> QED
    BY <2>3 DEF Return
<1>4. ASSUME NEW f \in Files,
             \/ LockRefused(f) \/ LockReleaseDenied(f) \/ Request(f) \/ RequestDenied(f)
             \/ SpeRequest(f) \/ FileCreate(f) \/ FileClose(f)
      PROVE  CountersAccounted'
  BY <1>4 DEF LockRefused, LockReleaseDenied, Request, RequestDenied, SpeRequest,
              FileCreate, FileClose, lockVars, pmuVars
<1>5. ASSUME NEW c \in Counters, OtherModule(c) PROVE CountersAccounted'
  BY <1>5 DEF OtherModule, lockVars
<1>6. CASE UNCHANGED vars
  BY <1>6 DEF vars
<1> QED
  BY <1>1, <1>2, <1>3, <1>4, <1>5, <1>6 DEF Next, Ioctl

\* An idle driver has given every counter back, whichever acquisitions failed
\* before, but those kept when KeSetHardwareCounterConfiguration failed.
THEOREM NoOrphans == Spec => []NoOrphanCounters
<1>1. Init => LockInv /\ CountersAccounted
  BY NoFileAssumption DEF Init, LockInv, TypeOK, LockAgrees, LeaseIsLive,
                          ClientStates, CountersAccounted
<1>2. CountersAccounted => NoOrphanCounters
  BY DEF CountersAccounted, NoOrphanCounters
<1>3. LockInv /\ CountersAccounted /\ [Next]_vars => CountersAccounted'
  BY CountersAccountedStep
<1> QED
  BY <1>1, <1>2, <1>3, LockInvStep, Typing, PTL DEF Spec

-----------------------------------------------------------------------------
\* The refinement mapping of Lock, named for the proof.
LeaseOf == IF status = "STS_BUSY" THEN mapped ELSE {}

\* An acquisition is a grant when the lock was idle and a take-over otherwise.
LEMMA AcquiringRefines ==
  ASSUME LockInv, LockInv', NEW f \in Files, LockAcquire(f) \/ LockAcquireForce(f)
  PROVE  Lock!Next
<1>1. status' = "STS_BUSY" /\ file_object' = f
  BY DEF LockAcquire, LockAcquireForce, SetOwner
<1>2. CASE status = "STS_IDLE"
  <2>1. file_object = NoFile
    BY <1>2 DEF LockInv, LockAgrees
  <2>2. mapped' \in (SUBSET Counters) \ {{}}
    BY <1>1 DEF LockInv, LeaseIsLive, TypeOK
  <2>3. Lock!Grant(f)
    BY <1>1, <2>1, <2>2 DEF Lock!Grant
  <2> QED
    BY <2>3 DEF Lock!Next
<1>3. CASE status = "STS_BUSY"
  <2>1. file_object # NoFile /\ pmu_held = 1
    BY <1>3 DEF LockInv, LockAgrees
  <2>2. UNCHANGED mapped
    BY <2>1 DEF LockAcquire, LockAcquireForce
  <2>3. Lock!Steal(f)
    BY <1>1, <1>3, <2>1, <2>2 DEF Lock!Steal
  <2> QED
    BY <2>3 DEF Lock!Next
<1> QED
  BY <1>2, <1>3 DEF LockInv, TypeOK

LEMMA StepRefines ==
  LockInv /\ LockInv' /\ [Next]_vars => [Lock!Next]_<<file_object, LeaseOf>>
<1> SUFFICES ASSUME LockInv, LockInv', [Next]_vars
             PROVE  Lock!Next \/ UNCHANGED <<file_object, LeaseOf>>
  OBVIOUS
<1>1. ASSUME NEW f \in Files, LockAcquire(f) \/ LockAcquireForce(f) PROVE Lock!Next
  BY <1>1, AcquiringRefines
<1>2. ASSUME NEW f \in Files, LockRelease(f) PROVE Lock!Next
  <2>1. file_object = f /\ status' = "STS_IDLE" /\ file_object' = NoFile
    BY <1>2 DEF LockRelease, IsLockOwner, ClearOwner
  <2>2. Lock!Release
    BY <2>1, NoFileAssumption DEF Lock!Release
  <2> QED
    BY <2>2 DEF Lock!Next
<1>3. ASSUME NEW f \in Files, LockAcquireFails(f) \/ LockAcquireForceFails(f)
      PROVE  UNCHANGED <<file_object, LeaseOf>>
  <2>1. status = "STS_IDLE" /\ file_object = NoFile
    BY <1>3 DEF LockAcquireFails, LockAcquireForceFails, LockInv, LockAgrees, TypeOK
  <2>2. status' = "STS_IDLE" /\ file_object' = NoFile
    BY <1>3, <2>1 DEF LockAcquireFails, LockAcquireForceFails, ClearOwner, lockVars
  <2> QED
    BY <2>1, <2>2 DEF LeaseOf
<1>4. ASSUME NEW f \in Files,
             \/ LockRefused(f) \/ LockReleaseDenied(f) \/ Request(f) \/ RequestDenied(f)
             \/ SpeRequest(f) \/ FileCreate(f) \/ FileClose(f)
      PROVE  UNCHANGED <<file_object, LeaseOf>>
  BY <1>4 DEF LockRefused, LockReleaseDenied, Request, RequestDenied, SpeRequest,
              FileCreate, FileClose, lockVars, pmuVars, LeaseOf
<1>5. ASSUME NEW c \in Counters, OtherModule(c) PROVE UNCHANGED <<file_object, LeaseOf>>
  BY <1>5 DEF OtherModule, lockVars, LeaseOf
<1>6. CASE UNCHANGED vars
  BY <1>6 DEF vars, LeaseOf
<1> QED
  BY <1>1, <1>2, <1>3, <1>4, <1>5, <1>6 DEF Next, Ioctl

\* The driver's lock, with its PMU counters, implements LockSpec.
THEOREM Refinement == Spec => ImplementsLock
<1>1. Init => Lock!Init
  BY DEF Init, Lock!Init
<1>2. LockInv /\ LockInv' /\ [Next]_vars => [Lock!Next]_<<file_object, LeaseOf>>
  BY StepRefines
<1>3. Init => LockInv
  BY NoFileAssumption DEF Init, LockInv, TypeOK, LockAgrees, LeaseIsLive, ClientStates
<1> QED
  BY <1>1, <1>2, <1>3, LockInvStep, Typing, PTL DEF Spec, ImplementsLock, Lock!Spec, LeaseOf

-----------------------------------------------------------------------------
\* README 3.5: --force-lock gets a held lock from a dead or living owner
\* whatever the HAL would answer, and takes no counter from it or for itself.
THEOREM ForceAlwaysRecovers == Spec => ForceRecovers
<1> DEFINE Forced == \A f \in Files :
             (LockAcquireForce(f) \/ LockAcquireForceFails(f)) /\ status = "STS_BUSY"
                => file_object' = f /\ UNCHANGED hal
<1>1. LockInv => [Forced]_vars
  <2> SUFFICES ASSUME LockInv, status = "STS_BUSY", NEW f \in Files,
                      LockAcquireForce(f) \/ LockAcquireForceFails(f)
               PROVE  file_object' = f /\ UNCHANGED hal
    OBVIOUS
  <2>1. pmu_held = 1
    BY DEF LockInv, LockAgrees
  <2> QED
    BY <2>1 DEF LockAcquireForce, LockAcquireForceFails, SetOwner
<1>2. Init => LockInv
  BY NoFileAssumption DEF Init, LockInv, TypeOK, LockAgrees, LeaseIsLive, ClientStates
<1> QED
  BY <1>1, <1>2, LockInvStep, Typing, PTL DEF Spec, ForceRecovers

\* The lock leaves a file object only by that client's own unlock or because
\* another one forced it; no refused or failed acquisition, crash or request
\* of anybody moves it.
THEOREM TakeOverOnlyByForce == Spec => OnlyForceTakesOver
<1> DEFINE Moved == \A f \in Files : file_object = f /\ file_object' # f =>
             \/ client[f] \in {"locked", "denied"} /\ client'[f] = "finished"
             \/ \E g \in Files \ {f} : LockAcquireForce(g)
<1>1. LockInv /\ [Next]_vars => [Moved]_vars
  <2> SUFFICES ASSUME LockInv, Next, NEW f \in Files, file_object = f, file_object' # f
               PROVE  \/ client[f] \in {"locked", "denied"} /\ client'[f] = "finished"
                      \/ \E g \in Files \ {f} : LockAcquireForce(g)
    OBVIOUS
  <2>1. status = "STS_BUSY" /\ pmu_held = 1
    BY NoFileAssumption DEF LockInv, LockAgrees
  <2>2. ASSUME NEW g \in Files, LockAcquire(g) PROVE FALSE
    BY <2>1, <2>2 DEF LockAcquire, TakenByAnother, SetOwner
  <2>3. ASSUME NEW g \in Files, LockAcquireForce(g) PROVE g # f
    BY <2>3 DEF LockAcquireForce, SetOwner
  <2>4. ASSUME NEW g \in Files, LockRelease(g)
        PROVE  client[f] \in {"locked", "denied"} /\ client'[f] = "finished"
    BY <2>4 DEF LockRelease, IsLockOwner, Becomes, LockInv, TypeOK
  <2>5. ASSUME NEW g \in Files, LockAcquireFails(g) \/ LockAcquireForceFails(g) PROVE FALSE
    BY <2>1, <2>5 DEF LockAcquireFails, LockAcquireForceFails
  <2>6. ASSUME NEW g \in Files,
               \/ LockRefused(g) \/ LockReleaseDenied(g) \/ Request(g) \/ RequestDenied(g)
               \/ SpeRequest(g) \/ FileCreate(g) \/ FileClose(g)
        PROVE  FALSE
    BY <2>6 DEF LockRefused, LockReleaseDenied, Request, RequestDenied, SpeRequest,
                FileCreate, FileClose, lockVars
  <2>7. ASSUME NEW c \in Counters, OtherModule(c) PROVE FALSE
    BY <2>7 DEF OtherModule, lockVars
  <2> QED
    BY <2>2, <2>3, <2>4, <2>5, <2>6, <2>7 DEF Next, Ioctl
<1>2. Init => LockInv
  BY NoFileAssumption DEF Init, LockInv, TypeOK, LockAgrees, LeaseIsLive, ClientStates
<1> QED
  BY <1>1, <1>2, LockInvStep, Typing, PTL DEF Spec, OnlyForceTakesOver
=============================================================================
