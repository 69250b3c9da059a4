------------------------------ MODULE LockSpec ------------------------------
(***************************************************************************)
(* What the driver promises about its lock, with nothing about how it is   *)
(* kept: at most one file object holds it, the hardware counters are       *)
(* leased from the HAL exactly while somebody holds it, a forced take-over *)
(* inherits the lease as it is, and only the holder gives both back.       *)
(***************************************************************************)
CONSTANTS Files,      \* file objects of the open handles to the driver
          NoFile,     \* the null file object
          Counters    \* the general purpose counters of the PMU

VARIABLES holder,     \* the file object that holds the lock, or NoFile
          lease       \* the counters leased to the holder

Init == holder = NoFile /\ lease = {}

\* An idle lock is granted together with a lease on what the HAL has free.
Grant(f) == /\ holder = NoFile
            /\ holder' = f
            /\ lease' \in (SUBSET Counters) \ {{}}

\* A held lock changes hands (--force-lock) without the lease ending.
Steal(f) == /\ holder # NoFile
            /\ holder' = f
            /\ UNCHANGED lease

Release == /\ holder # NoFile
           /\ holder' = NoFile
           /\ lease' = {}

Next == (\E f \in Files : Grant(f) \/ Steal(f)) \/ Release

Spec == Init /\ [][Next]_<<holder, lease>>
=============================================================================
