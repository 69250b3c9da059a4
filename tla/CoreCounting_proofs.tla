------------------------- MODULE CoreCounting_proofs -------------------------
(* The safety of CoreCounting, proved for any number of cores.              *)
EXTENDS CoreCounting, TLAPS

-----------------------------------------------------------------------------
(* The inductive invariants: what holds half way through an IOCTL.          *)

\* Which IOCTL the thread may be in, in each phase of the client's run.
Control ==
  /\ phase = "free" => pc \in {"idle", "get_queue", "force_queue", "force_own"}
  /\ status = "STS_IDLE" => phase = "free" \/ pc \in {"free_timer", "free_dpc"}
  /\ pc = "get_queue" => status = "STS_BUSY"
  /\ pc \in {"start_pmu", "start_timer"} => phase = "reset"
  /\ pc \in {"reset_pmu", "reset_values", "reset_wait"} => phase = "resetting"

\* LOCK_RELEASE is done with the cores it has visited: their timer is gone and
\* nothing waits; of the core it is at, the timer is gone already.
ReleaseInv ==
  /\ TimersKnown
  /\ ReleasedQuiet
  /\ pc \in {"free_timer", "free_dpc"} =>
       \A c \in Cores \ todo : ~armed[c] /\ queued[c] = {}
  /\ pc = "free_dpc" => \A c \in Cores : IsNext(c) => ~armed[c]

\* The counters of a core run, or a tick is about to restart them, or a reset
\* DPC has stopped them since RESET returned.
Runs(c) == enabled[c] \/ exec[c] = "tick" \/ overran[c]

\* START has started the counters of the cores its work item has visited; they
\* run on while it sets the timers.
StartInv ==
  /\ StartedCounts
  /\ pc = "start_pmu" => \A c \in mine \ todo : Runs(c)
  /\ pc = "start_timer" => \A c \in mine : Runs(c)

\* What a core has counted, collected, and read to be collected is the
\* measurement's own, but for a tick that RESET caught half way.
Fresh(c) == ~torn[c] => /\ "old" \notin {value[c], hw[c]}
                        /\ exec[c] = "tick" => saved[c] # "old"

\* RESET has reset the counters of the cores its work item has visited, then the
\* values of the cores it has visited; from then on they stay fresh.
ResetInv ==
  /\ pc = "reset_pmu" => \A c \in mine \ todo : hw[c] # "old"
  /\ pc = "reset_values" => /\ \A c \in mine : hw[c] # "old"
                            /\ \A c \in mine \ todo : Fresh(c)
  /\ pc = "reset_wait" => \A c \in mine : Fresh(c)
  /\ phase \in {"reset", "started", "read"} => \A c \in mine : Fresh(c)

-----------------------------------------------------------------------------
(* The steps.  Each lemma takes every action on its own, then the stutter.  *)

\* The core a loop is at is the only one it can be at.
LEMMA OneAtATime ==
    ASSUME NEW c \in Cores, NEW d \in Cores, todo \in SUBSET Cores, IsNext(c), IsNext(d)
    PROVE  c = d
BY numCoresAssumption DEF IsNext, Cores

\* Every action keeps every variable in its range.
LEMMA TypingStep ==
    ASSUME TypeOK, [Next]_vars
    PROVE  TypeOK'
<1> USE DEF TypeOK, Counts, Dpcs, Phases, Pcs, Measuring, Sum, Aged, lockVars,
              threadVars, pmuVars, timerVars, history
<1>1. ASSUME NEW cores \in SUBSET Cores, LockGet(cores) PROVE TypeOK'
    BY <1>1 DEF LockGet, Begin
<1>2. ASSUME NEW cores \in SUBSET Cores, LockForce(cores) PROVE TypeOK'
    BY <1>2 DEF LockForce, Begin
<1>3. ASSUME NEW cores \in SUBSET Cores, TakeOver(cores) PROVE TypeOK'
    BY <1>3 DEF TakeOver, NewMeasurement
<1>4. CASE StopBegins
    BY <1>4 DEF StopBegins, Begin
<1>5. CASE AssignBegins
    BY <1>5 DEF AssignBegins, Begin
<1>6. CASE ResetBegins
    BY <1>6 DEF ResetBegins, Begin, NewMeasurement
<1>7. CASE StartBegins
    BY <1>7 DEF StartBegins, Begin
<1>8. CASE ReleaseBegins
    BY <1>8 DEF ReleaseBegins, Begin, NewMeasurement
<1>9. CASE QueueDefaults
    BY <1>9 DEF QueueDefaults
<1>10. CASE ForceOwns
    BY <1>10 DEF ForceOwns
<1>11. CASE ResetReturns
    BY <1>11 DEF ResetReturns
<1>12. ASSUME NEW c \in Cores, StopPmu(c) PROVE TypeOK'
    BY <1>12 DEF StopPmu, WorkItemTurn, Turn, CoreCounterStop
<1>13. ASSUME NEW c \in Cores, StopTimer(c) PROVE TypeOK'
    BY <1>13 DEF StopTimer, Turn, Completes, CancelTimer
<1>14. ASSUME NEW c \in Cores, AssignValues(c) PROVE TypeOK'
    BY <1>14 DEF AssignValues
<1>15. ASSUME NEW c \in Cores, AssignPmu(c) PROVE TypeOK'
    BY <1>15 DEF AssignPmu
<1>16. ASSUME NEW c \in Cores, ResetPmu(c) PROVE TypeOK'
    BY <1>16 DEF ResetPmu, WorkItemTurn, Turn, CoreCounterReset
<1>17. ASSUME NEW c \in Cores, ResetValues(c) PROVE TypeOK'
    BY <1>17 DEF ResetValues, Turn
<1>18. ASSUME NEW c \in Cores, StartPmu(c) PROVE TypeOK'
    BY <1>18 DEF StartPmu, WorkItemTurn, Turn, CoreCounterStart
<1>19. ASSUME NEW c \in Cores, StartTimer(c) PROVE TypeOK'
    BY <1>19 DEF StartTimer, Turn, Completes
<1>20. ASSUME NEW c \in Cores, FreeTimer(c) PROVE TypeOK'
    BY <1>20 DEF FreeTimer
<1>21. ASSUME NEW c \in Cores, FreeDpc(c) PROVE TypeOK'
    BY <1>21 DEF FreeDpc
<1>22. ASSUME NEW c \in Cores, TimerFires(c) PROVE TypeOK'
    BY <1>22 DEF TimerFires
<1>23. ASSUME NEW c \in Cores, TickBegins(c) PROVE TypeOK'
    BY <1>23 DEF TickBegins, Dequeue, CoreCounterStop
<1>24. ASSUME NEW c \in Cores, TickEnds(c) PROVE TypeOK'
    BY <1>24 DEF TickEnds
<1>25. ASSUME NEW c \in Cores, ResetDpc(c) PROVE TypeOK'
    BY <1>25 DEF ResetDpc, Dequeue, CoreCounterReset
<1>26. ASSUME NEW c \in Cores, DpcFindsIdle(c) PROVE TypeOK'
    BY <1>26 DEF DpcFindsIdle, Dequeue
<1>27. ASSUME NEW c \in Cores, DefaultDpc(c) PROVE TypeOK'
    BY <1>27 DEF DefaultDpc, Dequeue
<1>28. ASSUME NEW c \in Cores, Count(c) PROVE TypeOK'
    BY <1>28 DEF Count
<1>29. CASE UNCHANGED vars
    BY <1>29 DEF vars
<1> QED
    BY <1>1, <1>2, <1>3, <1>4, <1>5, <1>6, <1>7, <1>8, <1>9, <1>10, <1>11,
       <1>12, <1>13, <1>14, <1>15, <1>16, <1>17, <1>18, <1>19, <1>20, <1>21,
       <1>22, <1>23, <1>24, <1>25, <1>26, <1>27, <1>28, <1>29 DEF Next, Client,
       Thread, Dpc

\* The thread takes up and finishes its IOCTLs in the phases they belong to.
LEMMA ControlStep ==
    ASSUME TypeOK, Control, [Next]_vars
    PROVE  Control'
<1> USE DEF TypeOK, Control, lockVars, threadVars, pmuVars, timerVars, history
<1>1. ASSUME NEW cores \in SUBSET Cores, LockGet(cores) PROVE Control'
    BY <1>1 DEF LockGet, Begin
<1>2. ASSUME NEW cores \in SUBSET Cores, LockForce(cores) PROVE Control'
    BY <1>2 DEF LockForce, Begin
<1>3. ASSUME NEW cores \in SUBSET Cores, TakeOver(cores) PROVE Control'
    BY <1>3 DEF TakeOver, NewMeasurement
<1>4. CASE StopBegins
    BY <1>4 DEF StopBegins, Begin
<1>5. CASE AssignBegins
    BY <1>5 DEF AssignBegins, Begin
<1>6. CASE ResetBegins
    BY <1>6 DEF ResetBegins, Begin, NewMeasurement
<1>7. CASE StartBegins
    BY <1>7 DEF StartBegins, Begin
<1>8. CASE ReleaseBegins
    BY <1>8 DEF ReleaseBegins, Begin, NewMeasurement
<1>9. CASE QueueDefaults
    BY <1>9 DEF QueueDefaults
<1>10. CASE ForceOwns
    BY <1>10 DEF ForceOwns
<1>11. CASE ResetReturns
    BY <1>11 DEF ResetReturns
<1>12. ASSUME NEW c \in Cores, StopPmu(c) PROVE Control'
    BY <1>12 DEF StopPmu, WorkItemTurn, Turn, CoreCounterStop
<1>13. ASSUME NEW c \in Cores, StopTimer(c) PROVE Control'
    BY <1>13 DEF StopTimer, Turn, Completes, CancelTimer
<1>14. ASSUME NEW c \in Cores, AssignValues(c) PROVE Control'
    BY <1>14 DEF AssignValues
<1>15. ASSUME NEW c \in Cores, AssignPmu(c) PROVE Control'
    BY <1>15 DEF AssignPmu
<1>16. ASSUME NEW c \in Cores, ResetPmu(c) PROVE Control'
    BY <1>16 DEF ResetPmu, WorkItemTurn, Turn, CoreCounterReset
<1>17. ASSUME NEW c \in Cores, ResetValues(c) PROVE Control'
    BY <1>17 DEF ResetValues, Turn
<1>18. ASSUME NEW c \in Cores, StartPmu(c) PROVE Control'
    BY <1>18 DEF StartPmu, WorkItemTurn, Turn, CoreCounterStart
<1>19. ASSUME NEW c \in Cores, StartTimer(c) PROVE Control'
    BY <1>19 DEF StartTimer, Turn, Completes
<1>20. ASSUME NEW c \in Cores, FreeTimer(c) PROVE Control'
    BY <1>20 DEF FreeTimer
<1>21. ASSUME NEW c \in Cores, FreeDpc(c) PROVE Control'
    BY <1>21 DEF FreeDpc
<1>22. ASSUME NEW c \in Cores, TimerFires(c) PROVE Control'
    BY <1>22 DEF TimerFires
<1>23. ASSUME NEW c \in Cores, TickBegins(c) PROVE Control'
    BY <1>23 DEF TickBegins, Dequeue, CoreCounterStop
<1>24. ASSUME NEW c \in Cores, TickEnds(c) PROVE Control'
    BY <1>24 DEF TickEnds
<1>25. ASSUME NEW c \in Cores, ResetDpc(c) PROVE Control'
    BY <1>25 DEF ResetDpc, Dequeue, CoreCounterReset
<1>26. ASSUME NEW c \in Cores, DpcFindsIdle(c) PROVE Control'
    BY <1>26 DEF DpcFindsIdle, Dequeue
<1>27. ASSUME NEW c \in Cores, DefaultDpc(c) PROVE Control'
    BY <1>27 DEF DefaultDpc, Dequeue
<1>28. ASSUME NEW c \in Cores, Count(c) PROVE Control'
    BY <1>28 DEF Count
<1>29. CASE UNCHANGED vars
    BY <1>29 DEF vars
<1> QED
    BY <1>1, <1>2, <1>3, <1>4, <1>5, <1>6, <1>7, <1>8, <1>9, <1>10, <1>11,
       <1>12, <1>13, <1>14, <1>15, <1>16, <1>17, <1>18, <1>19, <1>20, <1>21,
       <1>22, <1>23, <1>24, <1>25, <1>26, <1>27, <1>28, <1>29 DEF Next, Client,
       Thread, Dpc

\* No step of LOCK_RELEASE is undone by a timer or a DPC of a core it has left,
\* and no other IOCTL arms or queues anything meanwhile.
LEMMA ReleaseStep ==
    ASSUME TypeOK, Control, ReleaseInv, [Next]_vars
    PROVE  ReleaseInv'
<1> USE DEF TypeOK, Control, ReleaseInv, TimersKnown, ReleasedQuiet, IsNext,
              lockVars, threadVars, pmuVars, timerVars, history
<1>1. ASSUME NEW cores \in SUBSET Cores, LockGet(cores) PROVE ReleaseInv'
    BY <1>1 DEF LockGet, Begin
<1>2. ASSUME NEW cores \in SUBSET Cores, LockForce(cores) PROVE ReleaseInv'
    BY <1>2 DEF LockForce, Begin
<1>3. ASSUME NEW cores \in SUBSET Cores, TakeOver(cores) PROVE ReleaseInv'
    BY <1>3 DEF TakeOver, NewMeasurement
<1>4. CASE StopBegins
    BY <1>4 DEF StopBegins, Begin
<1>5. CASE AssignBegins
    BY <1>5 DEF AssignBegins, Begin
<1>6. CASE ResetBegins
    BY <1>6 DEF ResetBegins, Begin, NewMeasurement
<1>7. CASE StartBegins
    BY <1>7 DEF StartBegins, Begin
<1>8. CASE ReleaseBegins
    BY <1>8 DEF ReleaseBegins, Begin, NewMeasurement
<1>9. CASE QueueDefaults
    BY <1>9 DEF QueueDefaults
<1>10. CASE ForceOwns
    BY <1>10 DEF ForceOwns
<1>11. CASE ResetReturns
    BY <1>11 DEF ResetReturns
<1>12. ASSUME NEW c \in Cores, StopPmu(c) PROVE ReleaseInv'
    BY <1>12 DEF StopPmu, WorkItemTurn, Turn, CoreCounterStop
<1>13. ASSUME NEW c \in Cores, StopTimer(c) PROVE ReleaseInv'
    BY <1>13 DEF StopTimer, Turn, Completes, CancelTimer
<1>14. ASSUME NEW c \in Cores, AssignValues(c) PROVE ReleaseInv'
    BY <1>14 DEF AssignValues
<1>15. ASSUME NEW c \in Cores, AssignPmu(c) PROVE ReleaseInv'
    BY <1>15 DEF AssignPmu
<1>16. ASSUME NEW c \in Cores, ResetPmu(c) PROVE ReleaseInv'
    BY <1>16 DEF ResetPmu, WorkItemTurn, Turn, CoreCounterReset
<1>17. ASSUME NEW c \in Cores, ResetValues(c) PROVE ReleaseInv'
    BY <1>17 DEF ResetValues, Turn
<1>18. ASSUME NEW c \in Cores, StartPmu(c) PROVE ReleaseInv'
    BY <1>18 DEF StartPmu, WorkItemTurn, Turn, CoreCounterStart
<1>19. ASSUME NEW c \in Cores, StartTimer(c) PROVE ReleaseInv'
    BY <1>19 DEF StartTimer, Turn, Completes
<1>20. ASSUME NEW c \in Cores, FreeTimer(c) PROVE ReleaseInv'
    BY <1>20, OneAtATime DEF FreeTimer
<1>21. ASSUME NEW c \in Cores, FreeDpc(c) PROVE ReleaseInv'
    BY <1>21 DEF FreeDpc
<1>22. ASSUME NEW c \in Cores, TimerFires(c) PROVE ReleaseInv'
    BY <1>22 DEF TimerFires
<1>23. ASSUME NEW c \in Cores, TickBegins(c) PROVE ReleaseInv'
    BY <1>23 DEF TickBegins, Dequeue, CoreCounterStop
<1>24. ASSUME NEW c \in Cores, TickEnds(c) PROVE ReleaseInv'
    BY <1>24 DEF TickEnds
<1>25. ASSUME NEW c \in Cores, ResetDpc(c) PROVE ReleaseInv'
    BY <1>25 DEF ResetDpc, Dequeue, CoreCounterReset
<1>26. ASSUME NEW c \in Cores, DpcFindsIdle(c) PROVE ReleaseInv'
    BY <1>26 DEF DpcFindsIdle, Dequeue
<1>27. ASSUME NEW c \in Cores, DefaultDpc(c) PROVE ReleaseInv'
    BY <1>27 DEF DefaultDpc, Dequeue
<1>28. ASSUME NEW c \in Cores, Count(c) PROVE ReleaseInv'
    BY <1>28 DEF Count
<1>29. CASE UNCHANGED vars
    BY <1>29 DEF vars
<1> QED
    BY <1>1, <1>2, <1>3, <1>4, <1>5, <1>6, <1>7, <1>8, <1>9, <1>10, <1>11,
       <1>12, <1>13, <1>14, <1>15, <1>16, <1>17, <1>18, <1>19, <1>20, <1>21,
       <1>22, <1>23, <1>24, <1>25, <1>26, <1>27, <1>28, <1>29 DEF Next, Client,
       Thread, Dpc

\* Ticks and reset DPCs that come during START leave the cores it has started
\* running, or on record.
LEMMA StartStep ==
    ASSUME TypeOK, Control, StartInv, [Next]_vars
    PROVE  StartInv'
<1> USE DEF TypeOK, Control, StartInv, StartedCounts, Runs, Measuring, lockVars,
              threadVars, pmuVars, timerVars, history
<1>1. ASSUME NEW cores \in SUBSET Cores, LockGet(cores) PROVE StartInv'
    BY <1>1 DEF LockGet, Begin
<1>2. ASSUME NEW cores \in SUBSET Cores, LockForce(cores) PROVE StartInv'
    BY <1>2 DEF LockForce, Begin
<1>3. ASSUME NEW cores \in SUBSET Cores, TakeOver(cores) PROVE StartInv'
    BY <1>3 DEF TakeOver, NewMeasurement
<1>4. CASE StopBegins
    BY <1>4 DEF StopBegins, Begin
<1>5. CASE AssignBegins
    BY <1>5 DEF AssignBegins, Begin
<1>6. CASE ResetBegins
    BY <1>6 DEF ResetBegins, Begin, NewMeasurement
<1>7. CASE StartBegins
    BY <1>7 DEF StartBegins, Begin
<1>8. CASE ReleaseBegins
    BY <1>8 DEF ReleaseBegins, Begin, NewMeasurement
<1>9. CASE QueueDefaults
    BY <1>9 DEF QueueDefaults
<1>10. CASE ForceOwns
    BY <1>10 DEF ForceOwns
<1>11. CASE ResetReturns
    BY <1>11 DEF ResetReturns
<1>12. ASSUME NEW c \in Cores, StopPmu(c) PROVE StartInv'
    BY <1>12 DEF StopPmu, WorkItemTurn, Turn, CoreCounterStop
<1>13. ASSUME NEW c \in Cores, StopTimer(c) PROVE StartInv'
    BY <1>13 DEF StopTimer, Turn, Completes, CancelTimer
<1>14. ASSUME NEW c \in Cores, AssignValues(c) PROVE StartInv'
    BY <1>14 DEF AssignValues
<1>15. ASSUME NEW c \in Cores, AssignPmu(c) PROVE StartInv'
    BY <1>15 DEF AssignPmu
<1>16. ASSUME NEW c \in Cores, ResetPmu(c) PROVE StartInv'
    BY <1>16 DEF ResetPmu, WorkItemTurn, Turn, CoreCounterReset
<1>17. ASSUME NEW c \in Cores, ResetValues(c) PROVE StartInv'
    BY <1>17 DEF ResetValues, Turn
<1>18. ASSUME NEW c \in Cores, StartPmu(c) PROVE StartInv'
    BY <1>18 DEF StartPmu, WorkItemTurn, Turn, CoreCounterStart
<1>19. ASSUME NEW c \in Cores, StartTimer(c) PROVE StartInv'
    BY <1>19 DEF StartTimer, Turn, Completes
<1>20. ASSUME NEW c \in Cores, FreeTimer(c) PROVE StartInv'
    BY <1>20 DEF FreeTimer
<1>21. ASSUME NEW c \in Cores, FreeDpc(c) PROVE StartInv'
    BY <1>21 DEF FreeDpc
<1>22. ASSUME NEW c \in Cores, TimerFires(c) PROVE StartInv'
    BY <1>22 DEF TimerFires
<1>23. ASSUME NEW c \in Cores, TickBegins(c) PROVE StartInv'
    BY <1>23 DEF TickBegins, Dequeue, CoreCounterStop
<1>24. ASSUME NEW c \in Cores, TickEnds(c) PROVE StartInv'
    BY <1>24 DEF TickEnds
<1>25. ASSUME NEW c \in Cores, ResetDpc(c) PROVE StartInv'
    BY <1>25 DEF ResetDpc, Dequeue, CoreCounterReset
<1>26. ASSUME NEW c \in Cores, DpcFindsIdle(c) PROVE StartInv'
    BY <1>26 DEF DpcFindsIdle, Dequeue
<1>27. ASSUME NEW c \in Cores, DefaultDpc(c) PROVE StartInv'
    BY <1>27 DEF DefaultDpc, Dequeue
<1>28. ASSUME NEW c \in Cores, Count(c) PROVE StartInv'
    BY <1>28 DEF Count
<1>29. CASE UNCHANGED vars
    BY <1>29 DEF vars
<1> QED
    BY <1>1, <1>2, <1>3, <1>4, <1>5, <1>6, <1>7, <1>8, <1>9, <1>10, <1>11,
       <1>12, <1>13, <1>14, <1>15, <1>16, <1>17, <1>18, <1>19, <1>20, <1>21,
       <1>22, <1>23, <1>24, <1>25, <1>26, <1>27, <1>28, <1>29 DEF Next, Client,
       Thread, Dpc

\* No DPC, and nothing that is counted, brings old counts back behind RESET.
LEMMA ResetStep ==
    ASSUME TypeOK, Control, ResetInv, [Next]_vars
    PROVE  ResetInv'
<1> USE DEF TypeOK, Control, ResetInv, Fresh, Measuring, Sum, Aged, Counts,
              lockVars, threadVars, pmuVars, timerVars, history
<1>1. ASSUME NEW cores \in SUBSET Cores, LockGet(cores) PROVE ResetInv'
    BY <1>1 DEF LockGet, Begin
<1>2. ASSUME NEW cores \in SUBSET Cores, LockForce(cores) PROVE ResetInv'
    BY <1>2 DEF LockForce, Begin
<1>3. ASSUME NEW cores \in SUBSET Cores, TakeOver(cores) PROVE ResetInv'
    BY <1>3 DEF TakeOver, NewMeasurement
<1>4. CASE StopBegins
    BY <1>4 DEF StopBegins, Begin
<1>5. CASE AssignBegins
    BY <1>5 DEF AssignBegins, Begin
<1>6. CASE ResetBegins
    BY <1>6 DEF ResetBegins, Begin, NewMeasurement
<1>7. CASE StartBegins
    BY <1>7 DEF StartBegins, Begin
<1>8. CASE ReleaseBegins
    BY <1>8 DEF ReleaseBegins, Begin, NewMeasurement
<1>9. CASE QueueDefaults
    BY <1>9 DEF QueueDefaults
<1>10. CASE ForceOwns
    BY <1>10 DEF ForceOwns
<1>11. CASE ResetReturns
    BY <1>11 DEF ResetReturns
<1>12. ASSUME NEW c \in Cores, StopPmu(c) PROVE ResetInv'
    BY <1>12 DEF StopPmu, WorkItemTurn, Turn, CoreCounterStop
<1>13. ASSUME NEW c \in Cores, StopTimer(c) PROVE ResetInv'
    BY <1>13 DEF StopTimer, Turn, Completes, CancelTimer
<1>14. ASSUME NEW c \in Cores, AssignValues(c) PROVE ResetInv'
    BY <1>14 DEF AssignValues
<1>15. ASSUME NEW c \in Cores, AssignPmu(c) PROVE ResetInv'
    BY <1>15 DEF AssignPmu
<1>16. ASSUME NEW c \in Cores, ResetPmu(c) PROVE ResetInv'
    BY <1>16 DEF ResetPmu, WorkItemTurn, Turn, CoreCounterReset
<1>17. ASSUME NEW c \in Cores, ResetValues(c) PROVE ResetInv'
    BY <1>17 DEF ResetValues, Turn
<1>18. ASSUME NEW c \in Cores, StartPmu(c) PROVE ResetInv'
    BY <1>18 DEF StartPmu, WorkItemTurn, Turn, CoreCounterStart
<1>19. ASSUME NEW c \in Cores, StartTimer(c) PROVE ResetInv'
    BY <1>19 DEF StartTimer, Turn, Completes
<1>20. ASSUME NEW c \in Cores, FreeTimer(c) PROVE ResetInv'
    BY <1>20 DEF FreeTimer
<1>21. ASSUME NEW c \in Cores, FreeDpc(c) PROVE ResetInv'
    BY <1>21 DEF FreeDpc
<1>22. ASSUME NEW c \in Cores, TimerFires(c) PROVE ResetInv'
    BY <1>22 DEF TimerFires
<1>23. ASSUME NEW c \in Cores, TickBegins(c) PROVE ResetInv'
    BY <1>23 DEF TickBegins, Dequeue, CoreCounterStop
<1>24. ASSUME NEW c \in Cores, TickEnds(c) PROVE ResetInv'
    BY <1>24 DEF TickEnds
<1>25. ASSUME NEW c \in Cores, ResetDpc(c) PROVE ResetInv'
    BY <1>25 DEF ResetDpc, Dequeue, CoreCounterReset
<1>26. ASSUME NEW c \in Cores, DpcFindsIdle(c) PROVE ResetInv'
    BY <1>26 DEF DpcFindsIdle, Dequeue
<1>27. ASSUME NEW c \in Cores, DefaultDpc(c) PROVE ResetInv'
    BY <1>27 DEF DefaultDpc, Dequeue
<1>28. ASSUME NEW c \in Cores, Count(c) PROVE ResetInv'
    BY <1>28 DEF Count
<1>29. CASE UNCHANGED vars
    BY <1>29 DEF vars
<1> QED
    BY <1>1, <1>2, <1>3, <1>4, <1>5, <1>6, <1>7, <1>8, <1>9, <1>10, <1>11,
       <1>12, <1>13, <1>14, <1>15, <1>16, <1>17, <1>18, <1>19, <1>20, <1>21,
       <1>22, <1>23, <1>24, <1>25, <1>26, <1>27, <1>28, <1>29 DEF Next, Client,
       Thread, Dpc

-----------------------------------------------------------------------------
(* The theorems.                                                            *)

\* All of the above together, which is inductive.
CountingInv == TypeOK /\ Control /\ ReleaseInv /\ StartInv /\ ResetInv

\* The driver is created with counters that count nothing of interest, and with
\* no timer.
LEMMA InitHolds == Init => CountingInv
BY DEF Init, CountingInv, TypeOK, Control, ReleaseInv, StartInv, ResetInv,
   TimersKnown,
       ReleasedQuiet, StartedCounts, Counts, Dpcs, Phases, Pcs

\* The invariant is inductive: nothing the queue's thread, a timer, a DPC or the
\* counters do, in any order, breaks it.
THEOREM Inductive == Spec => []CountingInv
<1>1. CountingInv /\ [Next]_vars => CountingInv'
    BY TypingStep, ControlStep, ReleaseStep, StartStep, ResetStep DEF CountingInv
<1> QED
    BY <1>1, InitHolds, PTL DEF Spec

\* For any number of cores, the driver knows every timer that is set, and after
\* LOCK_RELEASE (free_pmu_resource, core by core, against timers that fire and
\* DPCs that run) none is set and no DPC waits.
THEOREM TimersSafe == Spec => []TimersInOrder
<1>1. CountingInv => TimersInOrder
    BY DEF CountingInv, ReleaseInv, TimersInOrder
<1> QED
    BY <1>1, Inductive, PTL

\* For any number of cores, START leaves the counters of the client's cores
\* running, and they keep running: a tick restarts what it stops, and only a
\* reset DPC that came after RESET had returned stops one.
THEOREM CountingStarts == Spec => []StartedCounts
<1>1. CountingInv => StartedCounts
    BY DEF CountingInv, StartInv
<1> QED
    BY <1>1, Inductive, PTL

\* For any number of cores, from RESET on neither values nor counters hold what
\* was counted before it, unless a tick was at work while its core's values were
\* zeroed: this race in ResetValues is the only way for old counts to survive.
THEOREM ResetIsClean == Spec => []FreshValues
<1>1. CountingInv => FreshValues
    BY DEF CountingInv, ResetInv, Fresh, FreshValues, READ_COUNTING
<1> QED
    BY <1>1, Inductive, PTL
=============================================================================
