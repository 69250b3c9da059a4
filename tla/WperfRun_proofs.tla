--------------------------- MODULE WperfRun_proofs ---------------------------
(* The safety of a run of wperf, proved for every command line and machine,  *)
(* and however many calls fail: what it leaves behind, and whose counts it   *)
(* reports. Then how the events it asks for are laid out, for any lists of   *)
(* events and groups and any number of counters.                            *)
EXTENDS WperfRun, FiniteSetTheorems, WellFoundedInduction, TLAPS

-----------------------------------------------------------------------------
(* The inductive invariants.                                                *)

\* The parts of a run, by where it is: before anything is counted or sampled,
\* only when counting, only when sampling, and after it.
Before == {"begin", "open", "lock", "query_hw_cfg", "dsu_init", "dmc_init", "spe_init", "parse", "dispatch",
           "man", "version", "test", "list"}
OfCounting == {"wait", "print", "interval", "iterate"}
OfSampling == {"symbols", "attach", "stop_core", "set_sample_src", "start_sample", "spe_start", "sampling", "check",
               "get", "spe_get", "spe_stop", "spe_get_last", "stop_sample", "leave", "report"}
Over == {"exit", "unlock", "exited"}

\* Counting and sampling go through steps of their own; with the profiling
\* extension the first of them come before the handler of Ctrl-C is there. A
\* process is started by those who are to start one.
Control ==
  /\ pc \in Before => ~installed
  /\ ~installed => pc \in Before \cup Over \cup {"handler"} \cup (IF Counts THEN {} ELSE {"stop_all", "assign"})
  /\ pc \in OfCounting => Counts
  /\ pc \in OfSampling => ~Counts
  /\ pc = "spawn" => Spawns
  /\ pc = "attach" => ~Wants("record")

\* The process a run started and that still runs is known to it, until its exit
\* has made it end; one without a name is forgotten at once.
ProcessInv ==
  /\ ~installed \/ (Counts /\ ~Spawns) => process = "none"
  /\ ~installed => ~spawned_process
  /\ Spawned /\ process = "running" => spawned_process \/ "nameless" \in why
  /\ pc \in {"unlock", "exited"} /\ Spawned => process # "running" \/ "nameless" \in why

\* Who has the lock knows that it must be given back, and does so at the exit.
LockInv ==
  /\ owner = "us" => lock_successful
  /\ pc = "exited" /\ owner = "us" => exit_code = "killed" \/ "unlock_failed" \in why

\* Where the counters have been programmed for this run.
Programmed ==
  \/ pc \in OfCounting \cup {"spawn", "attach", "reset", "start", "stop", "read"}
  \/ pc \in {"start_sample", "spe_start", "sampling", "check", "get", "spe_get", "spe_stop", "spe_get_last", "stop_sample"}
  \/ pc \in {"handler", "symbols"} /\ ~Counts /\ request.spe

\* While the lock is still its own, the counters and what was read of them are
\* too; so is what is read with the lock, and then reported. What the profiling
\* extension gives without it is never reported: the run reads once more after
\* that, which the driver refuses.
ResultsInv ==
  /\ pc \in Before \cup {"handler", "stop_all", "assign", "symbols", "stop_core", "set_sample_src"} => fetched = {}
  /\ Programmed /\ owner = "us" => data = "ours" /\ fetched \subseteq {"ours"}
  /\ pc \in {"print", "leave", "report"} => fetched \subseteq {"ours"}
  /\ reported \subseteq {"ours"}
  /\ pc = "print" => fetched # {}
  /\ pc \in {"interval", "iterate"} => reported # {}
  /\ pc \in Over /\ Counts /\ installed =>
       exit_code # "none" /\ (exit_code = "success" => reported # {})

RunInv == Control /\ ProcessInv /\ LockInv /\ ResultsInv

-----------------------------------------------------------------------------
(* The steps.  Each lemma takes every action on its own, then the stutter.  *)

\* Each step of a run is taken in the phase it belongs to.
LEMMA ControlStep ==
    ASSUME Control, [Next]_vars
    PROVE  Control'
<1> USE DEF Control, Before, Over, OfCounting, OfSampling, Counts, Samples,
              Wants, Spawns, Goes, runVars, loopVars, ctrlVars, childVars,
              sampleVars, lockVars, history
<1>1. CASE RequestDenied
    BY <1>1 DEF RequestDenied, Throw_, Requests, SpeRequests
<1>2. CASE CallFails
    BY <1>2 DEF CallFails, Throw_, Requests, SpeRequests
<1>3. CASE Start
    BY <1>3 DEF Start, Quits, Moves, Ends
<1>4. CASE init_device
    BY <1>4 DEF init_device, Moves
<1>5. CASE lock
    BY <1>5 DEF lock, Throw_
<1>6. CASE core_init
    BY <1>6 DEF core_init, Plain, Sent, Sends, AfterDsu, AfterDmc, AfterSpe
<1>7. CASE dsu_init
    BY <1>7 DEF dsu_init, Plain, Sent, Sends, AfterDsu, AfterDmc, AfterSpe
<1>8. CASE dmc_init
    BY <1>8 DEF dmc_init, Plain, Sent, Sends, AfterDmc, AfterSpe
<1>9. CASE spe_init
    BY <1>9 DEF spe_init, Plain, Sent, Sends, AfterSpe
<1>10. CASE ParseRequest
    BY <1>10 DEF ParseRequest, Throw_
<1>11. CASE Dispatch
    BY <1>11 DEF Dispatch, Quits, Moves, Ends
<1>12. CASE man
    BY <1>12 DEF man, Quits, Ends
<1>13. CASE do_version
    BY <1>13 DEF do_version, Sends, Ends
<1>14. CASE do_test
    BY <1>14 DEF do_test, Sent, Sends
<1>15. CASE do_list
    BY <1>15 DEF do_list, Plain, Sent, Sends
<1>16. CASE stop_all
    BY <1>16 DEF stop_all, Plain, Sent, Sends
<1>17. CASE events_assign
    BY <1>17 DEF events_assign, Sent, Sends
<1>18. CASE SetConsoleCtrlHandler
    BY <1>18 DEF SetConsoleCtrlHandler, Throw_
<1>19. CASE parse_files
    BY <1>19 DEF parse_files, Moves, AfterSources
<1>20. CASE stop_core
    BY <1>20 DEF stop_core, Plain, Sent, Sends
<1>21. CASE set_sample_src
    BY <1>21 DEF set_sample_src, Sends, AfterSources
<1>22. CASE SpawnProcess
    BY <1>22 DEF SpawnProcess, Measures
<1>23. CASE SpawnRefused
    BY <1>23 DEF SpawnRefused, Throw_
<1>24. CASE SpawnGivenUp
    BY <1>24 DEF SpawnGivenUp, Throw_
<1>25. CASE SpawnNameless
    BY <1>25 DEF SpawnNameless, Throw_
<1>26. CASE FindProcess
    BY <1>26 DEF FindProcess, Measures
<1>27. CASE reset
    BY <1>27 DEF reset, Plain, Sent, Sends
<1>28. CASE start
    BY <1>28 DEF start, Sends
<1>29. CASE Wait
    BY <1>29 DEF Wait
<1>30. CASE stop
    BY <1>30 DEF stop, Plain, Sent, Sends
<1>31. CASE events_read
    BY <1>31 DEF events_read, Sent, Sends, SpeRequests
<1>32. CASE print_stat
    BY <1>32 DEF print_stat
<1>33. CASE Interval
    BY <1>33 DEF Interval
<1>34. CASE Iterate
    BY <1>34 DEF Iterate, Ends, Terminated
<1>35. CASE start_sample
    BY <1>35 DEF start_sample, Sends, Sampling
<1>36. CASE spe_start
    BY <1>36 DEF spe_start, Sends, Sampling
<1>37. CASE SampleTick
    BY <1>37 DEF SampleTick
<1>38. CASE get_sample
    BY <1>38 DEF get_sample, Sends
<1>39. CASE spe_get
    BY <1>39 DEF spe_get, Sent, Sends
<1>40. CASE GetExitCodeProcess
    BY <1>40 DEF GetExitCodeProcess
<1>41. CASE spe_stop
    BY <1>41 DEF spe_stop, Plain, Sent, Sends
<1>42. CASE spe_get_last
    BY <1>42 DEF spe_get_last, Sent, Sends
<1>43. CASE stop_sample
    BY <1>43 DEF stop_sample, Plain, Sent, Sends, SpeRequests
<1>44. CASE LeaveProcess
    BY <1>44 DEF LeaveProcess, Terminated
<1>45. CASE report
    BY <1>45 DEF report, Ends
<1>46. CASE clean_exit
    BY <1>46 DEF clean_exit, Terminated
<1>47. CASE unlock
    BY <1>47 DEF unlock
<1>48. CASE UnlockFails
    BY <1>48 DEF UnlockFails
<1>49. CASE TheyTakeOver
    BY <1>49 DEF TheyTakeOver
<1>50. CASE TheyRelease
    BY <1>50 DEF TheyRelease
<1>51. CASE ProcessExits
    BY <1>51 DEF ProcessExits
<1>52. CASE ctrl_handler
    BY <1>52 DEF ctrl_handler
<1>53. CASE UNCHANGED vars
    BY <1>53 DEF vars
<1> QED
    BY <1>1, <1>2, <1>3, <1>4, <1>5, <1>6, <1>7, <1>8, <1>9, <1>10, <1>11,
       <1>12, <1>13, <1>14, <1>15, <1>16, <1>17, <1>18, <1>19, <1>20, <1>21,
       <1>22, <1>23, <1>24, <1>25, <1>26, <1>27, <1>28, <1>29, <1>30, <1>31,
       <1>32, <1>33, <1>34, <1>35, <1>36, <1>37, <1>38, <1>39, <1>40, <1>41,
       <1>42, <1>43, <1>44, <1>45, <1>46, <1>47, <1>48, <1>49, <1>50, <1>51,
       <1>52, <1>53 DEF Next, wmain, Others, Begins, Prepares, Measure, Ends_

\* What is started is remembered until it has been made to end.
LEMMA ProcessStep ==
    ASSUME Control, ProcessInv, [Next]_vars
    PROVE  ProcessInv'
<1> USE DEF Control, Before, Over, OfCounting, OfSampling, ProcessInv, Spawned,
              Counts, Samples, Wants, Spawns, Goes, runVars, loopVars, ctrlVars,
              childVars, sampleVars, lockVars, history
<1>1. CASE RequestDenied
    BY <1>1 DEF RequestDenied, Throw_, Requests, SpeRequests
<1>2. CASE CallFails
    BY <1>2 DEF CallFails, Throw_, Requests, SpeRequests
<1>3. CASE Start
    BY <1>3 DEF Start, Quits, Moves, Ends
<1>4. CASE init_device
    BY <1>4 DEF init_device, Moves
<1>5. CASE lock
    BY <1>5 DEF lock, Throw_
<1>6. CASE core_init
    BY <1>6 DEF core_init, Plain, Sent, Sends, AfterDsu, AfterDmc, AfterSpe
<1>7. CASE dsu_init
    BY <1>7 DEF dsu_init, Plain, Sent, Sends, AfterDsu, AfterDmc, AfterSpe
<1>8. CASE dmc_init
    BY <1>8 DEF dmc_init, Plain, Sent, Sends, AfterDmc, AfterSpe
<1>9. CASE spe_init
    BY <1>9 DEF spe_init, Plain, Sent, Sends, AfterSpe
<1>10. CASE ParseRequest
    BY <1>10 DEF ParseRequest, Throw_
<1>11. CASE Dispatch
    BY <1>11 DEF Dispatch, Quits, Moves, Ends
<1>12. CASE man
    BY <1>12 DEF man, Quits, Ends
<1>13. CASE do_version
    BY <1>13 DEF do_version, Sends, Ends
<1>14. CASE do_test
    BY <1>14 DEF do_test, Sent, Sends
<1>15. CASE do_list
    BY <1>15 DEF do_list, Plain, Sent, Sends
<1>16. CASE stop_all
    BY <1>16 DEF stop_all, Plain, Sent, Sends
<1>17. CASE events_assign
    BY <1>17 DEF events_assign, Sent, Sends
<1>18. CASE SetConsoleCtrlHandler
    BY <1>18 DEF SetConsoleCtrlHandler, Throw_
<1>19. CASE parse_files
    BY <1>19 DEF parse_files, Moves, AfterSources
<1>20. CASE stop_core
    BY <1>20 DEF stop_core, Plain, Sent, Sends
<1>21. CASE set_sample_src
    BY <1>21 DEF set_sample_src, Sends, AfterSources
<1>22. CASE SpawnProcess
    BY <1>22 DEF SpawnProcess, Measures
<1>23. CASE SpawnRefused
    BY <1>23 DEF SpawnRefused, Throw_
<1>24. CASE SpawnGivenUp
    BY <1>24 DEF SpawnGivenUp, Throw_
<1>25. CASE SpawnNameless
    BY <1>25 DEF SpawnNameless, Throw_
<1>26. CASE FindProcess
    BY <1>26 DEF FindProcess, Measures
<1>27. CASE reset
    BY <1>27 DEF reset, Plain, Sent, Sends
<1>28. CASE start
    BY <1>28 DEF start, Sends
<1>29. CASE Wait
    BY <1>29 DEF Wait
<1>30. CASE stop
    BY <1>30 DEF stop, Plain, Sent, Sends
<1>31. CASE events_read
    BY <1>31 DEF events_read, Sent, Sends, SpeRequests
<1>32. CASE print_stat
    BY <1>32 DEF print_stat
<1>33. CASE Interval
    BY <1>33 DEF Interval
<1>34. CASE Iterate
    BY <1>34 DEF Iterate, Ends, Terminated
<1>35. CASE start_sample
    BY <1>35 DEF start_sample, Sends, Sampling
<1>36. CASE spe_start
    BY <1>36 DEF spe_start, Sends, Sampling
<1>37. CASE SampleTick
    BY <1>37 DEF SampleTick
<1>38. CASE get_sample
    BY <1>38 DEF get_sample, Sends
<1>39. CASE spe_get
    BY <1>39 DEF spe_get, Sent, Sends
<1>40. CASE GetExitCodeProcess
    BY <1>40 DEF GetExitCodeProcess
<1>41. CASE spe_stop
    BY <1>41 DEF spe_stop, Plain, Sent, Sends
<1>42. CASE spe_get_last
    BY <1>42 DEF spe_get_last, Sent, Sends
<1>43. CASE stop_sample
    BY <1>43 DEF stop_sample, Plain, Sent, Sends, SpeRequests
<1>44. CASE LeaveProcess
    BY <1>44 DEF LeaveProcess, Terminated
<1>45. CASE report
    BY <1>45 DEF report, Ends
<1>46. CASE clean_exit
    BY <1>46 DEF clean_exit, Terminated
<1>47. CASE unlock
    BY <1>47 DEF unlock
<1>48. CASE UnlockFails
    BY <1>48 DEF UnlockFails
<1>49. CASE TheyTakeOver
    BY <1>49 DEF TheyTakeOver
<1>50. CASE TheyRelease
    BY <1>50 DEF TheyRelease
<1>51. CASE ProcessExits
    BY <1>51 DEF ProcessExits
<1>52. CASE ctrl_handler
    BY <1>52 DEF ctrl_handler
<1>53. CASE UNCHANGED vars
    BY <1>53 DEF vars
<1> QED
    BY <1>1, <1>2, <1>3, <1>4, <1>5, <1>6, <1>7, <1>8, <1>9, <1>10, <1>11,
       <1>12, <1>13, <1>14, <1>15, <1>16, <1>17, <1>18, <1>19, <1>20, <1>21,
       <1>22, <1>23, <1>24, <1>25, <1>26, <1>27, <1>28, <1>29, <1>30, <1>31,
       <1>32, <1>33, <1>34, <1>35, <1>36, <1>37, <1>38, <1>39, <1>40, <1>41,
       <1>42, <1>43, <1>44, <1>45, <1>46, <1>47, <1>48, <1>49, <1>50, <1>51,
       <1>52, <1>53 DEF Next, wmain, Others, Begins, Prepares, Measure, Ends_

\* The lock is not its own without lock_successful.
LEMMA LockStep ==
    ASSUME LockInv, [Next]_vars
    PROVE  LockInv'
<1> USE DEF LockInv, Counts, Samples, Wants, Spawns, Goes, runVars, loopVars,
              ctrlVars, childVars, sampleVars, lockVars, history
<1>1. CASE RequestDenied
    BY <1>1 DEF RequestDenied, Throw_, Requests, SpeRequests
<1>2. CASE CallFails
    BY <1>2 DEF CallFails, Throw_, Requests, SpeRequests
<1>3. CASE Start
    BY <1>3 DEF Start, Quits, Moves, Ends
<1>4. CASE init_device
    BY <1>4 DEF init_device, Moves
<1>5. CASE lock
    BY <1>5 DEF lock, Throw_
<1>6. CASE core_init
    BY <1>6 DEF core_init, Plain, Sent, Sends, AfterDsu, AfterDmc, AfterSpe
<1>7. CASE dsu_init
    BY <1>7 DEF dsu_init, Plain, Sent, Sends, AfterDsu, AfterDmc, AfterSpe
<1>8. CASE dmc_init
    BY <1>8 DEF dmc_init, Plain, Sent, Sends, AfterDmc, AfterSpe
<1>9. CASE spe_init
    BY <1>9 DEF spe_init, Plain, Sent, Sends, AfterSpe
<1>10. CASE ParseRequest
    BY <1>10 DEF ParseRequest, Throw_
<1>11. CASE Dispatch
    BY <1>11 DEF Dispatch, Quits, Moves, Ends
<1>12. CASE man
    BY <1>12 DEF man, Quits, Ends
<1>13. CASE do_version
    BY <1>13 DEF do_version, Sends, Ends
<1>14. CASE do_test
    BY <1>14 DEF do_test, Sent, Sends
<1>15. CASE do_list
    BY <1>15 DEF do_list, Plain, Sent, Sends
<1>16. CASE stop_all
    BY <1>16 DEF stop_all, Plain, Sent, Sends
<1>17. CASE events_assign
    BY <1>17 DEF events_assign, Sent, Sends
<1>18. CASE SetConsoleCtrlHandler
    BY <1>18 DEF SetConsoleCtrlHandler, Throw_
<1>19. CASE parse_files
    BY <1>19 DEF parse_files, Moves, AfterSources
<1>20. CASE stop_core
    BY <1>20 DEF stop_core, Plain, Sent, Sends
<1>21. CASE set_sample_src
    BY <1>21 DEF set_sample_src, Sends, AfterSources
<1>22. CASE SpawnProcess
    BY <1>22 DEF SpawnProcess, Measures
<1>23. CASE SpawnRefused
    BY <1>23 DEF SpawnRefused, Throw_
<1>24. CASE SpawnGivenUp
    BY <1>24 DEF SpawnGivenUp, Throw_
<1>25. CASE SpawnNameless
    BY <1>25 DEF SpawnNameless, Throw_
<1>26. CASE FindProcess
    BY <1>26 DEF FindProcess, Measures
<1>27. CASE reset
    BY <1>27 DEF reset, Plain, Sent, Sends
<1>28. CASE start
    BY <1>28 DEF start, Sends
<1>29. CASE Wait
    BY <1>29 DEF Wait
<1>30. CASE stop
    BY <1>30 DEF stop, Plain, Sent, Sends
<1>31. CASE events_read
    BY <1>31 DEF events_read, Sent, Sends, SpeRequests
<1>32. CASE print_stat
    BY <1>32 DEF print_stat
<1>33. CASE Interval
    BY <1>33 DEF Interval
<1>34. CASE Iterate
    BY <1>34 DEF Iterate, Ends, Terminated
<1>35. CASE start_sample
    BY <1>35 DEF start_sample, Sends, Sampling
<1>36. CASE spe_start
    BY <1>36 DEF spe_start, Sends, Sampling
<1>37. CASE SampleTick
    BY <1>37 DEF SampleTick
<1>38. CASE get_sample
    BY <1>38 DEF get_sample, Sends
<1>39. CASE spe_get
    BY <1>39 DEF spe_get, Sent, Sends
<1>40. CASE GetExitCodeProcess
    BY <1>40 DEF GetExitCodeProcess
<1>41. CASE spe_stop
    BY <1>41 DEF spe_stop, Plain, Sent, Sends
<1>42. CASE spe_get_last
    BY <1>42 DEF spe_get_last, Sent, Sends
<1>43. CASE stop_sample
    BY <1>43 DEF stop_sample, Plain, Sent, Sends, SpeRequests
<1>44. CASE LeaveProcess
    BY <1>44 DEF LeaveProcess, Terminated
<1>45. CASE report
    BY <1>45 DEF report, Ends
<1>46. CASE clean_exit
    BY <1>46 DEF clean_exit, Terminated
<1>47. CASE unlock
    BY <1>47 DEF unlock
<1>48. CASE UnlockFails
    BY <1>48 DEF UnlockFails
<1>49. CASE TheyTakeOver
    BY <1>49 DEF TheyTakeOver
<1>50. CASE TheyRelease
    BY <1>50 DEF TheyRelease
<1>51. CASE ProcessExits
    BY <1>51 DEF ProcessExits
<1>52. CASE ctrl_handler
    BY <1>52 DEF ctrl_handler
<1>53. CASE UNCHANGED vars
    BY <1>53 DEF vars
<1> QED
    BY <1>1, <1>2, <1>3, <1>4, <1>5, <1>6, <1>7, <1>8, <1>9, <1>10, <1>11,
       <1>12, <1>13, <1>14, <1>15, <1>16, <1>17, <1>18, <1>19, <1>20, <1>21,
       <1>22, <1>23, <1>24, <1>25, <1>26, <1>27, <1>28, <1>29, <1>30, <1>31,
       <1>32, <1>33, <1>34, <1>35, <1>36, <1>37, <1>38, <1>39, <1>40, <1>41,
       <1>42, <1>43, <1>44, <1>45, <1>46, <1>47, <1>48, <1>49, <1>50, <1>51,
       <1>52, <1>53 DEF Next, wmain, Others, Begins, Prepares, Measure, Ends_

\* No reading that can be reported has another's counts in it.
LEMMA ResultsStep ==
    ASSUME Control, ResultsInv, [Next]_vars
    PROVE  ResultsInv'
<1> USE DEF Control, Before, Over, OfCounting, OfSampling, ResultsInv,
              Programmed, Counts, Samples, Wants, Spawns, Goes, runVars,
              loopVars, ctrlVars, childVars, sampleVars, lockVars, history
<1>1. CASE RequestDenied
    BY <1>1 DEF RequestDenied, Throw_, Requests, SpeRequests
<1>2. CASE CallFails
    BY <1>2 DEF CallFails, Throw_, Requests, SpeRequests
<1>3. CASE Start
    BY <1>3 DEF Start, Quits, Moves, Ends
<1>4. CASE init_device
    BY <1>4 DEF init_device, Moves
<1>5. CASE lock
    BY <1>5 DEF lock, Throw_
<1>6. CASE core_init
    BY <1>6 DEF core_init, Plain, Sent, Sends, AfterDsu, AfterDmc, AfterSpe
<1>7. CASE dsu_init
    BY <1>7 DEF dsu_init, Plain, Sent, Sends, AfterDsu, AfterDmc, AfterSpe
<1>8. CASE dmc_init
    BY <1>8 DEF dmc_init, Plain, Sent, Sends, AfterDmc, AfterSpe
<1>9. CASE spe_init
    BY <1>9 DEF spe_init, Plain, Sent, Sends, AfterSpe
<1>10. CASE ParseRequest
    BY <1>10 DEF ParseRequest, Throw_
<1>11. CASE Dispatch
    BY <1>11 DEF Dispatch, Quits, Moves, Ends
<1>12. CASE man
    BY <1>12 DEF man, Quits, Ends
<1>13. CASE do_version
    BY <1>13 DEF do_version, Sends, Ends
<1>14. CASE do_test
    BY <1>14 DEF do_test, Sent, Sends
<1>15. CASE do_list
    BY <1>15 DEF do_list, Plain, Sent, Sends
<1>16. CASE stop_all
    BY <1>16 DEF stop_all, Plain, Sent, Sends
<1>17. CASE events_assign
    BY <1>17 DEF events_assign, Sent, Sends
<1>18. CASE SetConsoleCtrlHandler
    BY <1>18 DEF SetConsoleCtrlHandler, Throw_
<1>19. CASE parse_files
    BY <1>19 DEF parse_files, Moves, AfterSources
<1>20. CASE stop_core
    BY <1>20 DEF stop_core, Plain, Sent, Sends
<1>21. CASE set_sample_src
    BY <1>21 DEF set_sample_src, Sends, AfterSources
<1>22. CASE SpawnProcess
    BY <1>22 DEF SpawnProcess, Measures
<1>23. CASE SpawnRefused
    BY <1>23 DEF SpawnRefused, Throw_
<1>24. CASE SpawnGivenUp
    BY <1>24 DEF SpawnGivenUp, Throw_
<1>25. CASE SpawnNameless
    BY <1>25 DEF SpawnNameless, Throw_
<1>26. CASE FindProcess
    BY <1>26 DEF FindProcess, Measures
<1>27. CASE reset
    BY <1>27 DEF reset, Plain, Sent, Sends
<1>28. CASE start
    BY <1>28 DEF start, Sends
<1>29. CASE Wait
    BY <1>29 DEF Wait
<1>30. CASE stop
    BY <1>30 DEF stop, Plain, Sent, Sends
<1>31. CASE events_read
    BY <1>31 DEF events_read, Sent, Sends, SpeRequests
<1>32. CASE print_stat
  <2>1. pc = "print" /\ pc' = "interval" /\ reported' = reported \cup fetched
      BY <1>32 DEF print_stat
  <2>2. fetched \subseteq {"ours"} /\ fetched # {} /\ reported \subseteq {"ours"}
      BY <2>1
  <2>3. reported' \subseteq {"ours"} /\ reported' # {}
      BY <2>1, <2>2
  <2>4. /\ owner' = owner /\ data' = data /\ fetched' = fetched
        /\ ~(pc' \in Before \cup {"handler", "stop_all", "assign", "symbols", "stop_core", "set_sample_src"})
        /\ pc' \notin {"print", "leave", "report"} /\ pc' \notin Over
      BY <1>32, <2>1 DEF print_stat
  <2> QED
      BY <2>1, <2>2, <2>3, <2>4
<1>33. CASE Interval
    BY <1>33 DEF Interval
<1>34. CASE Iterate
    BY <1>34 DEF Iterate, Ends, Terminated
<1>35. CASE start_sample
    BY <1>35 DEF start_sample, Sends, Sampling
<1>36. CASE spe_start
    BY <1>36 DEF spe_start, Sends, Sampling
<1>37. CASE SampleTick
    BY <1>37 DEF SampleTick
<1>38. CASE get_sample
    BY <1>38 DEF get_sample, Sends
<1>39. CASE spe_get
    BY <1>39 DEF spe_get, Sent, Sends
<1>40. CASE GetExitCodeProcess
    BY <1>40 DEF GetExitCodeProcess
<1>41. CASE spe_stop
    BY <1>41 DEF spe_stop, Plain, Sent, Sends
<1>42. CASE spe_get_last
    BY <1>42 DEF spe_get_last, Sent, Sends
<1>43. CASE stop_sample
    BY <1>43 DEF stop_sample, Plain, Sent, Sends, SpeRequests
<1>44. CASE LeaveProcess
    BY <1>44 DEF LeaveProcess, Terminated
<1>45. CASE report
    BY <1>45 DEF report, Ends
<1>46. CASE clean_exit
    BY <1>46 DEF clean_exit, Terminated
<1>47. CASE unlock
    BY <1>47 DEF unlock
<1>48. CASE UnlockFails
    BY <1>48 DEF UnlockFails
<1>49. CASE TheyTakeOver
    BY <1>49 DEF TheyTakeOver
<1>50. CASE TheyRelease
    BY <1>50 DEF TheyRelease
<1>51. CASE ProcessExits
    BY <1>51 DEF ProcessExits
<1>52. CASE ctrl_handler
    BY <1>52 DEF ctrl_handler
<1>53. CASE UNCHANGED vars
    BY <1>53 DEF vars
<1> QED
    BY <1>1, <1>2, <1>3, <1>4, <1>5, <1>6, <1>7, <1>8, <1>9, <1>10, <1>11,
       <1>12, <1>13, <1>14, <1>15, <1>16, <1>17, <1>18, <1>19, <1>20, <1>21,
       <1>22, <1>23, <1>24, <1>25, <1>26, <1>27, <1>28, <1>29, <1>30, <1>31,
       <1>32, <1>33, <1>34, <1>35, <1>36, <1>37, <1>38, <1>39, <1>40, <1>41,
       <1>42, <1>43, <1>44, <1>45, <1>46, <1>47, <1>48, <1>49, <1>50, <1>51,
       <1>52, <1>53 DEF Next, wmain, Others, Begins, Prepares, Measure, Ends_

-----------------------------------------------------------------------------
(* The theorems.                                                            *)

\* A run begins with no process, no lock, and nothing read.
LEMMA InitHolds == Init => RunInv
BY DEF Init, RunInv, Control, Before, Over, OfCounting, OfSampling, ProcessInv,
   LockInv, ResultsInv, Programmed, Spawned

\* The invariant is inductive: no step of the run, no failure, and nothing the
\* other wperf, the process or the user do breaks it.
THEOREM Inductive == Spec => []RunInv
<1>1. RunInv /\ [Next]_vars => RunInv'
    BY ControlStep, ProcessStep, LockStep, ResultsStep DEF RunInv
<1> QED
    BY <1>1, InitHolds, PTL DEF Spec

\* For every command line and any number of failures, a run that is over has
\* ended the process it started and given back the lock (the handlers at the end
\* of wmain and ~pmu_device), but for the three exceptions LeavesNothing names.
THEOREM NothingIsLeft == Spec => []LeavesNothing
<1>1. RunInv => LeavesNothing
    BY DEF RunInv, ProcessInv, LockInv, LeavesNothing
<1> QED
    BY <1>1, Inductive, PTL

\* For every command line, at whatever moment another wperf takes the counters by
\* force, what a run reports is its own, and a count that succeeds reports
\* something: the lock denies the last READ to whoever has lost it.
THEOREM ReportsItsOwn == Spec => []OwnResults
<1>1. RunInv => OwnResults
    BY DEF RunInv, ResultsInv, OwnResults, Over
<1> QED
    BY <1>1, Inductive, PTL

-----------------------------------------------------------------------------
(* The lists of events. A fold over a sequence is a recursion over sets of   *)
(* indices; it goes through one state for each element.                     *)

\* The order of the numbers is well-founded.
LEMMA LessIsWellFounded ==
    \E R : IsWellFoundedOn(R, Nat) /\ \A x, y \in Nat : x < y => <<x, y>> \in R
<1> DEFINE R == OpToRel(<, Nat)
<1>1. \A x, y \in Nat : x < y => <<x, y>> \in R
    BY DEF OpToRel
<1>2. IsWellFoundedOn(R, Nat)
    BY NatLessThanWellFounded
<1> HIDE DEF R
<1> QED
    BY <1>1, <1>2

\* There is a least of some numbers.
LEMMA LeastNumber ==
    ASSUME NEW T \in SUBSET Nat, T # {}
    PROVE  \E m \in T : \A k \in T : m <= k
<1>1. PICK R : IsWellFoundedOn(R, Nat) /\ \A x, y \in Nat : x < y => <<x, y>> \in R
    BY LessIsWellFounded
<1>2. IsWellFoundedOn(R, Nat) /\ T \subseteq Nat
    BY <1>1
<1>3. PICK m \in T : \A y \in T : ~(<<y, m>> \in R)
    BY <1>2, WFMin
<1>4. \A k \in T : ~(k < m)
    BY <1>1, <1>3
<1> QED
    BY <1>3, <1>4

\* Some of the numbers up to n have a greatest.
LEMMA GreatestUpTo ==
    ASSUME NEW n \in Nat, NEW s \in SUBSET (0 .. n), s # {}
    PROVE  Max(s) \in s /\ \A k \in s : k <= Max(s)
<1> DEFINE Below == {d \in Nat : \E k \in s : k = n - d}
<1>1. Below # {}
  <2>1. PICK k \in s : TRUE
      OBVIOUS
  <2>2. n - k \in Nat /\ k = n - (n - k)
      OBVIOUS
  <2> QED
      BY <2>1, <2>2
<1>2. PICK d \in Below : \A k \in Below : d <= k
    BY <1>1, LeastNumber
<1>3. \A k \in s : n - k \in Below
    OBVIOUS
<1>4. n - d \in s /\ \A k \in s : k <= n - d
    BY <1>2, <1>3
<1> QED
    BY <1>4 DEF Max

\* So do some of the first n.
LEMMA GreatestOfSome ==
    ASSUME NEW n \in Nat, NEW s \in SUBSET (1 .. n), s # {}
    PROVE  Max(s) \in s /\ \A k \in s : k <= Max(s)
<1>1. s \in SUBSET (0 .. n)
    OBVIOUS
<1> QED
    BY <1>1, GreatestUpTo

\* The states a fold over n elements goes through: step says what becomes of a
\* state by the k-th element.
Folds(f, n, base, step) == f[0] = base /\ \A k \in 1 .. n : f[k] = step[k][f[k - 1]]

IsFold(n, D, base, step) == n \in Nat /\ base \in D /\ step \in [1 .. n -> [D -> D]]

\* What FoldLeft takes its value from, for the elements in s.
FoldedTo(I, s, base, step) == IF s = {} THEN base ELSE step[Max(s)][I[s \ {Max(s)}]]

\* I goes through the elements of s from the least, as far as its values are
\* in D at all.
Recursion(I, n, D, base, step) ==
  \A s \in SUBSET (1 .. n) : (s # {} => I[s \ {Max(s)}] \in D) => I[s] = FoldedTo(I, s, base, step)

\* There is what the recursion of FoldLeft describes.
LEMMA FoldExists ==
    ASSUME NEW n, NEW D, NEW base, NEW step, IsFold(n, D, base, step)
    PROVE  \E I \in [SUBSET (1 .. n) -> D] : Recursion(I, n, D, base, step)
<1>0. n \in Nat /\ base \in D /\ step \in [1 .. n -> [D -> D]]
    BY DEF IsFold
<1> DEFINE S == SUBSET (1 .. n)
           Built(m) == \E I \in [S -> D] : \A s \in S : s \subseteq 1 .. m => I[s] = FoldedTo(I, s, base, step)
           Bad == {m \in Nat : ~Built(m)}
<1> USE <1>0
<1>1. SUFFICES Bad = {}
  <2>1. Built(n)
      BY <1>1
  <2> QED
      BY <2>1 DEF Recursion
<1>2. SUFFICES ASSUME Bad # {}
               PROVE  FALSE
    OBVIOUS
<1> HIDE DEF Built
<1>3. PICK m \in Bad : \A k \in Bad : m <= k
    BY <1>2, LeastNumber
<1>4. m # 0
  <2>1. [s \in S |-> base] \in [S -> D]
      OBVIOUS
  <2>2. \A s \in S : s \subseteq 1 .. 0 => s = {}
      OBVIOUS
  <2>3. Built(0)
      BY <2>1, <2>2 DEF Built, FoldedTo
  <2> QED
      BY <1>3, <2>3
<1>5. m - 1 \in Nat /\ m - 1 \notin Bad
    BY <1>3, <1>4
<1>6. PICK g \in [S -> D] : \A s \in S : s \subseteq 1 .. (m - 1) => g[s] = FoldedTo(g, s, base, step)
    BY <1>5 DEF Built
<1> DEFINE h == [s \in S |-> IF s \subseteq 1 .. (m - 1) THEN g[s] ELSE FoldedTo(g, s, base, step)]
<1>7. ASSUME NEW s \in S, s # {}
      PROVE  /\ Max(s) \in 1 .. n /\ s \ {Max(s)} \in S
             /\ s \subseteq 1 .. m => s \ {Max(s)} \subseteq 1 .. (m - 1)
  <2>1. PICK x \in s : x = Max(s) /\ \A k \in s : k <= x
      BY <1>7, GreatestOfSome
  <2>2. x \in 1 .. n /\ s \ {x} \in S
      OBVIOUS
  <2>3. ASSUME s \subseteq 1 .. m
        PROVE  s \ {x} \subseteq 1 .. (m - 1)
    <3>1. \A k \in s \ {x} : k \in 1 .. m /\ x \in 1 .. m /\ k <= x /\ k # x
        BY <2>1, <2>3
    <3> QED
        BY <1>3, <3>1
  <2> QED
      BY <2>1, <2>2, <2>3
<1>8. \A s \in S : FoldedTo(g, s, base, step) \in D
  <2>1. \A s \in S : s # {} => g[s \ {Max(s)}] \in D /\ Max(s) \in 1 .. n
      BY <1>7
  <2>2. \A d \in D, k \in 1 .. n : step[k][d] \in D
      OBVIOUS
  <2> QED
      BY <2>1, <2>2 DEF FoldedTo
<1>9. h \in [S -> D]
    BY <1>8
<1>10. ASSUME NEW s \in S, s \subseteq 1 .. m
       PROVE  h[s] = FoldedTo(h, s, base, step)
  <2>1. h[s] = FoldedTo(g, s, base, step)
      BY <1>6
  <2>2. s # {} => h[s \ {Max(s)}] = g[s \ {Max(s)}]
      BY <1>7, <1>10
  <2> QED
      BY <2>1, <2>2 DEF FoldedTo
<1> QED
    BY <1>3, <1>9, <1>10 DEF Built

\* The function chosen by such a recursion goes through the states of a fold.
LEMMA FoldRuns ==
    ASSUME NEW n, NEW D, NEW base, NEW step, IsFold(n, D, base, step),
           NEW I, Recursion(I, n, D, base, step)
    PROVE  \E f \in [0 .. n -> D] : Folds(f, n, base, step) /\ f[n] = I[1 .. n]
<1>0. n \in Nat /\ base \in D /\ step \in [1 .. n -> [D -> D]]
    BY DEF IsFold
<1> USE <1>0
<1> DEFINE f == [k \in 0 .. n |-> I[1 .. k]]
<1>1. f[0] = base
  <2>1. 1 .. 0 = {} /\ {} \in SUBSET (1 .. n)
      OBVIOUS
  <2>2. I[{}] = base
      BY <2>1 DEF Recursion, FoldedTo
  <2> QED
      BY <2>1, <2>2
<1>2. ASSUME NEW k \in 1 .. n, f[k - 1] \in D
      PROVE  f[k] = step[k][f[k - 1]]
  <2>1. 1 .. k \in SUBSET (1 .. n) /\ 1 .. k # {}
    <3>1. k \in 1 .. k
        OBVIOUS
    <3>2. \A i \in 1 .. k : i \in 1 .. n
        OBVIOUS
    <3>3. 1 .. k # {}
        BY ONLY <3>1
    <3> QED
        BY ONLY <3>2, <3>3
  <2>2. Max(1 .. k) = k
    <3>1. Max(1 .. k) \in 1 .. k /\ \A i \in 1 .. k : i <= Max(1 .. k)
        BY <2>1, GreatestOfSome
    <3> QED
        BY <3>1
  <2>3. (1 .. k) \ {k} = 1 .. (k - 1) /\ k \in 0 .. n /\ k - 1 \in 0 .. n
      OBVIOUS
  <2>4. I[1 .. (k - 1)] \in D
      BY <1>2, <2>3
  <2>5. I[1 .. k] = step[k][I[1 .. (k - 1)]]
      BY <2>1, <2>2, <2>3, <2>4 DEF Recursion, FoldedTo
  <2> QED
      BY <2>3, <2>5
<1>3. \A k \in 0 .. n : f[k] \in D
  <2> DEFINE Bad == {k \in 0 .. n : f[k] \notin D}
  <2> HIDE DEF f
  <2>1. SUFFICES ASSUME Bad # {} PROVE FALSE
      OBVIOUS
  <2>2. PICK k \in Bad : \A i \in Bad : k <= i
    <3>1. Bad \in SUBSET Nat
        OBVIOUS
    <3> QED
        BY <2>1, <3>1, LeastNumber
  <2>3. k # 0
      BY <1>1, <2>2
  <2>4. k \in 1 .. n /\ f[k - 1] \in D
      BY <2>2, <2>3
  <2>5. step[k][f[k - 1]] \in D
      BY <2>4
  <2> QED
      BY <1>2, <2>2, <2>4, <2>5
<1>4. f \in [0 .. n -> D]
    BY <1>3
<1>5. f[n] = I[1 .. n]
    OBVIOUS
<1> HIDE DEF f
<1>6. Folds(f, n, base, step)
  <2>1. \A k \in 1 .. n : k - 1 \in 0 .. n
      OBVIOUS
  <2> QED
      BY <1>1, <1>2, <1>3, <2>1 DEF Folds
<1> QED
    BY <1>4, <1>5, <1>6

-----------------------------------------------------------------------------
(* Padding: what the list is made of, and how it grows.                      *)

MetricNames == STRING \cup {NoMetric}
NotedEvents == [ev : Nat, metric : MetricNames, group : Int]

\* A slot of the list, with its note; only padding is noted as such.
Notes == {<<"e">>, <<"p">>} \cup {<<"g", n>> : n \in Nat}
Slots == {s \in [ev : Nat, metric : MetricNames, group : Int, type : {"EVT_NORMAL", "EVT_GROUPED", "EVT_PADDING"}, note : Notes] :
            s.type = "EVT_PADDING" <=> s.note = <<"p">>}
LaidStates == [slots : Seq(Slots), rest : Seq(NotedEvents)]

LayGroup(laid, group, group_num, gpc_num) ==
  padding_ioctl_events([laid EXCEPT !.slots = PlaceGroup(@, group, group_num)], gpc_num)

\* The notes of events, of padding and of groups are all different.
LEMMA NotesDiffer ==
    /\ <<"e">> # <<"p">>
    /\ \A n \in Nat : <<"g", n>> # <<"e">> /\ <<"g", n>> # <<"p">>
    /\ \A n, m \in Nat : <<"g", n>> = <<"g", m>> => n = m
OBVIOUS

\* What is pushed onto the list for an event.
LEMMA SlotTypes ==
    ASSUME NEW x \in NotedEvents, NEW n \in Nat
    PROVE  /\ push_ioctl_normal_event(x) \in Slots
           /\ push_ioctl_normal_event(x).ev = x.ev /\ push_ioctl_normal_event(x).note = <<"e">>
           /\ push_ioctl_normal_event(x).type = "EVT_NORMAL"
           /\ push_ioctl_grouped_event(x, n) \in Slots
           /\ push_ioctl_grouped_event(x, n).ev = x.ev /\ push_ioctl_grouped_event(x, n).note = <<"g", n>>
           /\ push_ioctl_grouped_event(x, n).type = "EVT_GROUPED"
           /\ Slot(x, "EVT_GROUPED", <<"g", n>>) \in Slots
           /\ Slot(x, "EVT_GROUPED", <<"g", n>>).ev = x.ev /\ Slot(x, "EVT_GROUPED", <<"g", n>>).note = <<"g", n>>
           /\ Slot(x, "EVT_GROUPED", <<"g", n>>).type = "EVT_GROUPED"
    BY NotesDiffer DEF push_ioctl_normal_event, push_ioctl_grouped_event, Slot, Slots, Notes, NotedEvents

\* And for padding.
LEMMA PaddingTypes ==
    /\ push_ioctl_padding_event \in Slots
    /\ push_ioctl_padding_event.note = <<"p">> /\ push_ioctl_padding_event.type = "EVT_PADDING"
<1>1. Noted(PMU_EVENT_INST_SPEC, NoMetric, 0) \in NotedEvents
    BY DEF Noted, MetricNames, PMU_EVENT_INST_SPEC, NotedEvents
<1>2. \A x \in NotedEvents : /\ Slot(x, "EVT_PADDING", <<"p">>) \in Slots
                             /\ Slot(x, "EVT_PADDING", <<"p">>).note = <<"p">> /\ Slot(x, "EVT_PADDING", <<"p">>).type = "EVT_PADDING"
    BY NotesDiffer DEF Slot, Slots, Notes, NotedEvents
<1> QED
    BY <1>1, <1>2 DEF push_ioctl_padding_event

\* set_event_padding goes through states, one for each group that is laid.
LEMMA LayRuns ==
    ASSUME NEW st, NEW c,
           GroupsOf(st.groups[c]) \in Seq(Seq(NotedEvents)),
           st.events[c] \in Seq(NotedEvents),
           \A laid \in LaidStates, k \in 1 .. Len(GroupsOf(st.groups[c])) :
              LayGroup(laid, GroupsOf(st.groups[c])[k], k - 1, gpc_nums[c]) \in LaidStates
    PROVE  \E f \in [0 .. Len(GroupsOf(st.groups[c])) -> LaidStates] :
              LET groups == GroupsOf(st.groups[c])
                  all    == f[Len(groups)].slots \o Normal(f[Len(groups)].rest)
              IN /\ f[0] = [slots |-> <<>>, rest |-> st.events[c]]
                 /\ \A k \in 1 .. Len(groups) : f[k] = LayGroup(f[k - 1], groups[k], k - 1, gpc_nums[c])
                 /\ set_event_padding(st, c) =
                      IF st.groups[c] = <<>> THEN all ELSE padding_ioctl_events([slots |-> all, rest |-> <<>>], gpc_nums[c]).slots
<1> DEFINE groups == GroupsOf(st.groups[c])
           n == Len(groups)
           base == [slots |-> <<>>, rest |-> st.events[c]]
           step == [k \in 1 .. n |-> [laid \in LaidStates |-> LayGroup(laid, groups[k], k - 1, gpc_nums[c])]]
           ks == [k \in DOMAIN groups |-> k]
           Lay(laid, k) == padding_ioctl_events([laid EXCEPT !.slots = PlaceGroup(@, groups[k], k - 1)], gpc_nums[c])
           Is(iter) == iter = [s \in SUBSET DOMAIN ks |-> IF s = {} THEN base ELSE LET x == Max(s) IN Lay(iter[s \ {x}], ks[x])]
           I == CHOOSE iter : Is(iter)
<1>1. n \in Nat /\ base \in LaidStates /\ step \in [1 .. n -> [LaidStates -> LaidStates]]
  <2>1. n \in Nat /\ <<>> \in Seq(Slots)
      OBVIOUS
  <2>2. base \in LaidStates
      BY <2>1 DEF LaidStates
  <2> QED
      BY <2>1, <2>2
<1> IsFold(n, LaidStates, base, step)
    BY <1>1 DEF IsFold
<1>2. set_event_padding(st, c) = LET all == I[DOMAIN ks].slots \o Normal(I[DOMAIN ks].rest)
                 IN   IF st.groups[c] = <<>> THEN all ELSE padding_ioctl_events([slots |-> all, rest |-> <<>>], gpc_nums[c]).slots
  BY DEF set_event_padding, FoldLeft, MapThenFoldSet
<1>3. \E iter : Is(iter)
  <2>1. PICK iter \in [SUBSET (1 .. n) -> LaidStates] : Recursion(iter, n, LaidStates, base, step)
    <3> HIDE DEF n, base, step
    <3> QED
        BY FoldExists
  <2>2. DOMAIN ks = 1 .. n /\ \A k \in 1 .. n : ks[k] = k
      OBVIOUS
  <2> HIDE DEF ks
  <2>3. ASSUME NEW s \in SUBSET (1 .. n), s # {}
        PROVE  FoldedTo(iter, s, base, step) = Lay(iter[s \ {Max(s)}], ks[Max(s)])
    <3>1. Max(s) \in 1 .. n /\ s \ {Max(s)} \in SUBSET (1 .. n)
        BY <1>1, <2>3, GreatestOfSome
    <3>2. iter[s \ {Max(s)}] \in LaidStates
        BY <3>1
    <3> QED
        BY <2>2, <2>3, <3>1, <3>2 DEF FoldedTo, LayGroup
  <2>4. \A s \in SUBSET (1 .. n) : iter[s] = IF s = {} THEN base ELSE LET x == Max(s) IN Lay(iter[s \ {x}], ks[x])
    <3>1. \A s \in SUBSET (1 .. n) : s # {} => iter[s \ {Max(s)}] \in LaidStates
        BY <1>1, GreatestOfSome
    <3> QED
        BY <2>1, <2>3, <3>1 DEF Recursion, FoldedTo
  <2>5. Is(iter)
    <3> HIDE DEF Lay, base
    <3> QED
        BY <2>1, <2>2, <2>4
  <2> QED
      BY <2>5
<1>4. Is(I)
    BY <1>3
<1>5. Recursion(I, n, LaidStates, base, step)
  <2>1. DOMAIN ks = 1 .. n /\ \A k \in 1 .. n : ks[k] = k
      OBVIOUS
  <2> HIDE DEF ks
  <2>2. \A s \in SUBSET (1 .. n) : s # {} => I[s] = Lay(I[s \ {Max(s)}], ks[Max(s)])
    <3> HIDE DEF I, Lay, base
    <3> QED
        BY <1>4, <2>1
  <2>0. I[{}] = base
    <3> HIDE DEF I, Lay, base
    <3> QED
        BY <1>4
  <2> HIDE DEF I
  <2>3. ASSUME NEW s \in SUBSET (1 .. n), s # {}, I[s \ {Max(s)}] \in LaidStates
        PROVE  I[s] = FoldedTo(I, s, base, step)
    <3>1. Max(s) \in 1 .. n
        BY <1>1, <2>3, GreatestOfSome
    <3> QED
        BY <2>1, <2>2, <2>3, <3>1 DEF FoldedTo, LayGroup
  <2> QED
      BY <2>0, <2>3 DEF Recursion, FoldedTo
<1>7. PICK f \in [0 .. n -> LaidStates] : Folds(f, n, base, step) /\ f[n] = I[1 .. n]
  <2> HIDE DEF n, base, step, I
  <2> QED
      BY <1>5, FoldRuns
<1>8. \A k \in 1 .. n : f[k] = LayGroup(f[k - 1], groups[k], k - 1, gpc_nums[c])
  <2>1. \A k \in 1 .. n : k - 1 \in 0 .. n
    <3> HIDE DEF n
    <3> QED
        BY <1>1
  <2>2. \A k \in 1 .. n : f[k - 1] \in LaidStates
    <3> HIDE DEF n
    <3> QED
        BY <2>1
  <2> QED
      BY <1>7, <2>2 DEF Folds
<1>9. f[0] = base
    BY <1>7 DEF Folds
<1>10. DOMAIN ks = 1 .. n
    OBVIOUS
<1> QED
  <2> HIDE DEF I
  <2> QED
      BY <1>2, <1>7, <1>8, <1>9, <1>10

\* What is missing to whole windows.
LEMMA MissingIs ==
    ASSUME NEW S, NEW slots \in Seq(S), NEW g \in Nat \ {0}
    PROVE  /\ Missing(slots, g) \in 0 .. (g - 1)
           /\ \A w \in Nat : Len(slots) = w * g => Missing(slots, g) = 0
           /\ \A w \in Nat, r \in 1 .. g : Len(slots) = w * g + r => Missing(slots, g) = g - r
           /\ \E w \in Nat : Len(slots) + Missing(slots, g) = w * g
<1>1. Len(slots) \in Nat
    OBVIOUS
<1>2. \A L \in Nat : /\ (g - (L % g)) % g \in 0 .. (g - 1)
                     /\ \A w \in Nat : L = w * g => (g - (L % g)) % g = 0
                     /\ \A w \in Nat, r \in 1 .. g : L = w * g + r => (g - (L % g)) % g = g - r
  <2>1. \A L \in Nat : (g - (L % g)) % g \in 0 .. (g - 1)
      OBVIOUS
  <2>2. ASSUME NEW w \in Nat, NEW r \in 0 .. (g - 1)
        PROVE (w * g + r) % g = r
      OBVIOUS
  <2>3. ASSUME NEW L \in Nat, NEW w \in Nat, L = w * g
        PROVE (g - (L % g)) % g = 0
      BY <2>3
  <2>4. ASSUME NEW L \in Nat, NEW w \in Nat, NEW r \in 1 .. g, L = w * g + r
        PROVE (g - (L % g)) % g = g - r
      BY <2>4
  <2> QED
      BY <2>1, <2>3, <2>4
<1>3. \A L \in Nat : \E w \in Nat : L + ((g - (L % g)) % g) = w * g
  <2> SUFFICES ASSUME NEW L \in Nat PROVE \E w \in Nat : L + ((g - (L % g)) % g) = w * g
      OBVIOUS
  <2>1. PICK w \in Nat, r \in 0 .. (g - 1) : L = w * g + r
    <3>1. L = (L \div g) * g + (L % g) /\ L \div g \in Nat /\ L % g \in 0 .. (g - 1)
        OBVIOUS
    <3> QED
        BY <3>1
  <2>2. CASE r = 0
    <3>1. L = w * g
        BY <2>1, <2>2
    <3>2. (g - (L % g)) % g = 0
        BY <1>2, <3>1
    <3>3. L + ((g - (L % g)) % g) = w * g
        BY <3>1, <3>2
    <3> QED
        BY <3>3
  <2>3. CASE r # 0
    <3>1. r \in 1 .. g
        BY <2>3
    <3>2. (g - (L % g)) % g = g - r
        BY <1>2, <2>1, <3>1
    <3>3. L + ((g - (L % g)) % g) = (w + 1) * g /\ w + 1 \in Nat
        BY <2>1, <3>2
    <3> QED
        BY <3>3
  <2> QED
      BY <2>2, <2>3
<1> QED
    BY <1>1, <1>2, <1>3 DEF Missing

\* The smaller of two numbers.
LEMMA LeastOfTwo ==
    ASSUME NEW m \in Nat, NEW n \in Nat
    PROVE  Min({m, n}) = IF m <= n THEN m ELSE n
    BY DEF Min

\* p is what is laid and then n slots more, take of them of events.
IsPadded(p, laid, n, take) ==
  /\ take <= Len(laid.rest) /\ (take = n \/ take = Len(laid.rest))
  /\ p \in LaidStates
  /\ Len(p.slots) = Len(laid.slots) + n
  /\ \A i \in 1 .. Len(laid.slots) : p.slots[i] = laid.slots[i]
  /\ \A i \in 1 .. take : p.slots[Len(laid.slots) + i] = push_ioctl_normal_event(laid.rest[i])
  /\ \A i \in (take + 1) .. n : p.slots[Len(laid.slots) + i] = push_ioctl_padding_event
  /\ Len(p.rest) = Len(laid.rest) - take
  /\ \A i \in 1 .. (Len(laid.rest) - take) : p.rest[i] = laid.rest[take + i]

\* Padding appends: events while there are any, then padding.
LEMMA PaddedIs ==
    ASSUME NEW laid \in LaidStates, NEW g \in Nat \ {0}
    PROVE  \E take \in 0 .. Missing(laid.slots, g) :
              IsPadded(padding_ioctl_events(laid, g), laid, Missing(laid.slots, g), take)
<1> DEFINE n == Missing(laid.slots, g)
           take == Min({n, Len(laid.rest)})
           slots == laid.slots
           rest == laid.rest
           normal == Normal(SubSeq(rest, 1, take))
           padding == PaddingSlots(n - take)
<1>1. slots \in Seq(Slots) /\ rest \in Seq(NotedEvents)
    BY DEF LaidStates
<1>2. n \in Nat /\ Len(rest) \in Nat /\ Len(slots) \in Nat
    BY <1>1, MissingIs
<1>3. take \in 0 .. n /\ take <= Len(rest) /\ (take = n \/ take = Len(rest))
    BY <1>2, LeastOfTwo
<1> HIDE DEF n, take
<1>4. /\ SubSeq(rest, 1, take) \in Seq(NotedEvents) /\ Len(SubSeq(rest, 1, take)) = take
      /\ \A i \in 1 .. take : SubSeq(rest, 1, take)[i] = rest[i]
    BY <1>1, <1>2, <1>3
<1>5. /\ SubSeq(rest, take + 1, Len(rest)) \in Seq(NotedEvents) /\ Len(SubSeq(rest, take + 1, Len(rest))) = Len(rest) - take
      /\ \A i \in 1 .. (Len(rest) - take) : SubSeq(rest, take + 1, Len(rest))[i] = rest[take + i]
    BY <1>1, <1>2, <1>3
<1>6. /\ normal \in Seq(Slots) /\ Len(normal) = take
      /\ \A i \in 1 .. take : normal[i] = push_ioctl_normal_event(rest[i])
  <2>1. \A i \in 1 .. take : rest[i] \in NotedEvents
      BY <1>1, <1>2, <1>3
  <2>2. \A i \in 1 .. take : push_ioctl_normal_event(rest[i]) \in Slots
      BY <2>1, SlotTypes
  <2>3. DOMAIN SubSeq(rest, 1, take) = 1 .. take
      BY <1>3, <1>4
  <2>4. normal = [i \in 1 .. take |-> push_ioctl_normal_event(rest[i])]
      BY <1>4, <2>3 DEF Normal
  <2> HIDE DEF normal
  <2> QED
      BY <1>2, <1>3, <2>2, <2>4
<1>7. /\ padding \in Seq(Slots) /\ Len(padding) = n - take
      /\ \A i \in 1 .. (n - take) : padding[i] = push_ioctl_padding_event
    BY <1>2, <1>3, PaddingTypes DEF PaddingSlots
<1> DEFINE p == padding_ioctl_events(laid, g)
<1>8. p = [slots |-> slots \o normal \o padding, rest |-> SubSeq(rest, take + 1, Len(rest))]
    BY DEF padding_ioctl_events, n, take
<1> HIDE DEF normal, padding
<1>9. /\ slots \o normal \o padding \in Seq(Slots)
      /\ Len(slots \o normal \o padding) = Len(slots) + n
      /\ \A i \in 1 .. Len(slots) : (slots \o normal \o padding)[i] = slots[i]
      /\ \A i \in 1 .. take : (slots \o normal \o padding)[Len(slots) + i] = normal[i]
      /\ \A i \in (take + 1) .. n : (slots \o normal \o padding)[Len(slots) + i] = padding[i - take]
  <2> HIDE DEF slots
  <2>1. /\ slots \o normal \in Seq(Slots) /\ Len(slots \o normal) = Len(slots) + take
        /\ \A i \in 1 .. Len(slots) : (slots \o normal)[i] = slots[i]
        /\ \A i \in 1 .. take : (slots \o normal)[Len(slots) + i] = normal[i]
      BY <1>1, <1>6
  <2> DEFINE front == slots \o normal
  <2> HIDE DEF front
  <2>2. /\ front \o padding \in Seq(Slots) /\ Len(front \o padding) = Len(front) + (n - take)
        /\ \A i \in 1 .. Len(front) : (front \o padding)[i] = front[i]
        /\ \A i \in 1 .. (n - take) : (front \o padding)[Len(front) + i] = padding[i]
    <3>1. front \in Seq(Slots) /\ padding \in Seq(Slots) /\ Len(padding) = n - take
        BY <1>7, <2>1 DEF front
    <3> QED
        BY <3>1
  <2>3. /\ Len(front) = Len(slots) + take
        /\ \A i \in 1 .. Len(slots) : front[i] = slots[i]
        /\ \A i \in 1 .. take : front[Len(slots) + i] = normal[i]
      BY <2>1 DEF front
  <2>4. Len(front \o padding) = Len(slots) + n
      BY <1>2, <1>3, <2>2, <2>3
  <2>5. \A i \in 1 .. Len(slots) : (front \o padding)[i] = slots[i]
      BY <1>2, <1>3, <2>2, <2>3
  <2>6. \A i \in 1 .. take : (front \o padding)[Len(slots) + i] = normal[i]
    <3>1. \A i \in 1 .. take : Len(slots) + i \in 1 .. Len(front)
        BY <1>2, <1>3, <2>3
    <3> QED
        BY <2>2, <2>3, <3>1
  <2>7. ASSUME NEW i \in (take + 1) .. n
        PROVE  (front \o padding)[Len(slots) + i] = padding[i - take]
    <3>1. i - take \in 1 .. (n - take)
        BY <1>2, <1>3
    <3>2. Len(slots) + i = Len(front) + (i - take)
        BY <1>2, <1>3, <2>3
    <3> QED
        BY <2>2, <3>1, <3>2
  <2> QED
      BY <2>2, <2>4, <2>5, <2>6, <2>7 DEF front
<1>10. p \in LaidStates
    BY <1>5, <1>8, <1>9 DEF LaidStates
<1> HIDE DEF p
<1>11. \A i \in (take + 1) .. n : p.slots[Len(slots) + i] = push_ioctl_padding_event
  <2>1. \A i \in (take + 1) .. n : i - take \in 1 .. (n - take)
      BY <1>2, <1>3
  <2> QED
      BY <1>7, <1>8, <1>9, <2>1
<1>12. \A i \in 1 .. take : p.slots[Len(slots) + i] = push_ioctl_normal_event(rest[i])
    BY <1>6, <1>8, <1>9
<1>13. /\ Len(p.slots) = Len(slots) + n
       /\ \A i \in 1 .. Len(slots) : p.slots[i] = slots[i]
       /\ Len(p.rest) = Len(rest) - take
       /\ \A i \in 1 .. (Len(rest) - take) : p.rest[i] = rest[take + i]
    BY <1>5, <1>8, <1>9
<1>14. IsPadded(p, laid, n, take)
    BY <1>3, <1>10, <1>11, <1>12, <1>13 DEF IsPadded
<1> QED
    BY <1>3, <1>14 DEF n, p

\* The padding a list ends with is the longest such.
LEMMA TrailingPaddingIs ==
    ASSUME NEW slots \in Seq(Slots)
    PROVE  LET n == TrailingPadding(slots)
           IN /\ n \in 0 .. Len(slots)
              /\ \A i \in (Len(slots) - n + 1) .. Len(slots) : slots[i].note = <<"p">>
              /\ \A i \in 1 .. Len(slots) : slots[i].note # <<"p">> => n <= Len(slots) - i
<1> DEFINE L == Len(slots)
           Paddings == {n \in 0 .. L : \A i \in (L - n + 1) .. L : slots[i].type = "EVT_PADDING"}
           n == TrailingPadding(slots)
<1>1. L \in Nat
    OBVIOUS
<1>2. 0 \in Paddings
    BY <1>1
<1>3. n = Max(Paddings)
    BY DEF TrailingPadding
<1>4. n \in Paddings
  <2> HIDE DEF n
  <2> QED
      BY <1>1, <1>2, <1>3, GreatestUpTo
<1>5. \A i \in 1 .. L : slots[i] \in Slots
    OBVIOUS
<1>6. \A i \in 1 .. L : slots[i].type = "EVT_PADDING" <=> slots[i].note = <<"p">>
    BY <1>5 DEF Slots
<1>7. n \in 0 .. L /\ \A i \in (L - n + 1) .. L : slots[i].type = "EVT_PADDING"
    BY <1>4
<1> HIDE DEF n
<1>8. \A i \in (L - n + 1) .. L : i \in 1 .. L
    BY <1>1, <1>7
<1>9. ASSUME NEW i \in 1 .. L, slots[i].note # <<"p">>
      PROVE  n <= L - i
  <2>1. i \notin (L - n + 1) .. L
      BY <1>6, <1>7, <1>9
  <2> QED
      BY <1>1, <1>7, <2>1
<1> QED
    BY <1>6, <1>7, <1>8, <1>9 DEF n

\* Of slots, nothing but padding is changed, and that and what is new is noted so.
Extended(slots, more, notes) ==
  /\ Len(slots) <= Len(more)
  /\ \A i \in 1 .. Len(more) :
       \/ i \in 1 .. Len(slots) /\ more[i] = slots[i]
       \/ (i \in 1 .. Len(slots) => slots[i].note = <<"p">>) /\ more[i].note \in notes

\* The group is noted num, and so is nothing else, and it is behind first.
Holds(slots, group, num, first) ==
  /\ \A j \in 1 .. Len(group) : first + j \in 1 .. Len(slots) /\ slots[first + j].ev = group[j].ev
  /\ \A i \in 1 .. Len(slots) : slots[i].note = <<"g", num>> <=> i \in (first + 1) .. (first + Len(group))

\* Where a group is put.
Behind(slots, group) == IF TrailingPadding(slots) >= Len(group) THEN Len(slots) - TrailingPadding(slots) ELSE Len(slots)

\* Where PlaceGroup puts a group, and that it changes nothing but padding.
LEMMA PlacedIs ==
    ASSUME NEW slots \in Seq(Slots), NEW group \in Seq(NotedEvents), NEW num \in Nat
    PROVE  LET p     == PlaceGroup(slots, group, num)
               first == Behind(slots, group)
           IN /\ p \in Seq(Slots) /\ Extended(slots, p, {<<"g", num>>}) /\ first \in 0 .. Len(slots)
              /\ Len(p) = IF TrailingPadding(slots) >= Len(group) THEN Len(slots) ELSE Len(slots) + Len(group)
              /\ (\A i \in 1 .. Len(slots) : slots[i].note # <<"g", num>>) => Holds(p, group, num, first)
<1> DEFINE L == Len(slots)
           G == Len(group)
           n == TrailingPadding(slots)
           first == L - n
           Fresh == \A i \in 1 .. L : slots[i].note # <<"g", num>>
           p == PlaceGroup(slots, group, num)
<1>1. L \in Nat /\ G \in Nat /\ \A i \in 1 .. L : slots[i] \in Slots
    OBVIOUS
<1>2. /\ n \in 0 .. L
      /\ \A i \in (L - n + 1) .. L : slots[i].note = <<"p">>
    BY TrailingPaddingIs
<1> HIDE DEF n
<1>3. \A j \in 1 .. G : group[j] \in NotedEvents
    OBVIOUS
<1>4. CASE n >= G
  <2> DEFINE slot(i) == IF i - first \in 1 .. G THEN Slot(group[i - first], "EVT_GROUPED", <<"g", num>>) ELSE slots[i]
  <2>1. p = [i \in 1 .. L |-> slot(i)]
      BY <1>4 DEF PlaceGroup, n
  <2>2. \A i \in 1 .. L : slot(i) \in Slots
      BY <1>1, <1>3, SlotTypes
  <2> HIDE DEF p, slot
  <2>3. p \in Seq(Slots) /\ Len(p) = L /\ \A i \in 1 .. L : p[i] = slot(i)
      BY <1>1, <2>1, <2>2
  <2>4. ASSUME NEW i \in 1 .. L
        PROVE  IF i - first \in 1 .. G THEN p[i].note = <<"g", num>> /\ p[i].ev = group[i - first].ev /\ slots[i].note = <<"p">>
               ELSE p[i] = slots[i]
    <3>1. CASE i - first \in 1 .. G
      <4>1. p[i] = Slot(group[i - first], "EVT_GROUPED", <<"g", num>>)
          BY <2>3, <3>1 DEF slot
      <4>2. p[i].note = <<"g", num>> /\ p[i].ev = group[i - first].ev
          BY <1>3, <3>1, <4>1, SlotTypes
      <4>3. i \in (L - n + 1) .. L
          BY <1>1, <1>2, <3>1
      <4> QED
          BY <1>2, <3>1, <4>2, <4>3
    <3>2. CASE i - first \notin 1 .. G
        BY <2>3, <3>2 DEF slot
    <3> QED
        BY <3>1, <3>2
  <2>5. Extended(slots, p, {<<"g", num>>})
    <3>1. \A i \in 1 .. L : p[i] = slots[i] \/ (slots[i].note = <<"p">> /\ p[i].note = <<"g", num>>)
        BY <2>4
    <3>2. Len(p) = L /\ L <= L
        BY <1>1, <2>3
    <3> HIDE DEF first
    <3> QED
        BY <3>1, <3>2 DEF Extended
  <2>6. \A j \in 1 .. G : first + j \in 1 .. L /\ (first + j) - first = j
      BY <1>1, <1>2, <1>4
  <2>7. \A j \in 1 .. G : p[first + j].ev = group[j].ev
      BY <2>4, <2>6
  <2>8. \A i \in 1 .. L : i - first \in 1 .. G <=> i \in (first + 1) .. (first + G)
      BY <1>1, <1>2
  <2>9. Fresh => \A i \in 1 .. L : p[i].note = <<"g", num>> <=> i \in (first + 1) .. (first + G)
      BY <2>4, <2>8
  <2>10. Fresh => Holds(p, group, num, first)
      BY <2>3, <2>6, <2>7, <2>9 DEF Holds
  <2>11. first \in 0 .. L /\ Behind(slots, group) = first
      BY <1>1, <1>2, <1>4 DEF Behind, n
  <2> QED
      BY <1>4, <2>3, <2>5, <2>10, <2>11 DEF n, p
<1>5. CASE ~(n >= G)
  <2> DEFINE t == [i \in 1 .. G |-> push_ioctl_grouped_event(group[i], num)]
  <2>1. p = slots \o t
      BY <1>5 DEF PlaceGroup, n
  <2>2. \A i \in 1 .. G : push_ioctl_grouped_event(group[i], num) \in Slots
      BY <1>3, SlotTypes
  <2>3. t \in Seq(Slots) /\ Len(t) = G
      BY <1>1, <2>2
  <2>4. \A i \in 1 .. G : t[i].note = <<"g", num>> /\ t[i].ev = group[i].ev
      BY <1>3, SlotTypes
  <2> HIDE DEF p, t
  <2>5. /\ p \in Seq(Slots) /\ Len(p) = L + G /\ \A i \in 1 .. L : p[i] = slots[i]
        /\ \A j \in 1 .. G : p[L + j] = t[j]
    <3>1. Len(slots \o t) = L + G /\ slots \o t \in Seq(Slots)
        BY <2>3
    <3>2. \A i \in 1 .. L : (slots \o t)[i] = slots[i]
        BY <1>1, <2>3
    <3>3. \A j \in 1 .. G : (slots \o t)[L + j] = t[j]
        BY <1>1, <2>3
    <3> QED
        BY <2>1, <3>1, <3>2, <3>3
  <2>6. \A i \in 1 .. (L + G) : i \notin 1 .. L => i - L \in 1 .. G /\ L + (i - L) = i
      BY <1>1
  <2>7. ASSUME NEW i \in 1 .. (L + G), i \notin 1 .. L
        PROVE  p[i].note = <<"g", num>>
    <3>1. PICK j \in 1 .. G : L + j = i
        BY <2>6, <2>7
    <3>2. p[i] = t[j]
        BY <2>5, <3>1
    <3> QED
        BY <2>4, <3>2
  <2>8. Extended(slots, p, {<<"g", num>>})
    <3>1. Len(slots) <= Len(p) /\ Len(p) = L + G
        BY <1>1, <2>5
    <3> QED
        BY <2>5, <2>7, <3>1 DEF Extended
  <2>9. Fresh => \A i \in 1 .. (L + G) : p[i].note = <<"g", num>> <=> i \in (L + 1) .. (L + G)
    <3>1. \A i \in 1 .. (L + G) : i \in (L + 1) .. (L + G) <=> i \notin 1 .. L
        BY <1>1
    <3> QED
        BY <2>5, <2>7, <3>1
  <2>10. Fresh => Holds(p, group, num, L)
    <3>1. \A j \in 1 .. G : L + j \in 1 .. (L + G)
        BY <1>1
    <3> QED
        BY <2>4, <2>5, <2>9, <3>1 DEF Holds
  <2>11. L \in 0 .. L /\ Behind(slots, group) = L
      BY <1>1, <1>5 DEF Behind, n
  <2> QED
      BY <1>5, <2>5, <2>8, <2>10, <2>11 DEF n, p
<1> QED
    BY <1>4, <1>5

-----------------------------------------------------------------------------
(* What is laid stays laid.                                                  *)

\* The group lies within one window of the counters.
Placed(slots, group, num, g) == \E w \in Nat, s \in 0 .. (g - Len(group)) : Holds(slots, group, num, w * g + s)

\* The first n of the events stand at these places, in their order, and no others.
Listed(at, slots, events, n) ==
  /\ at \in [1 .. n -> 1 .. Len(slots)]
  /\ \A j, k \in 1 .. n : j < k => at[j] < at[k]
  /\ \A j \in 1 .. n : slots[at[j]].ev = events[j].ev
  /\ \A i \in 1 .. Len(slots) : slots[i].note = <<"e">> <=> \E j \in 1 .. n : at[j] = i

\* What the list is while groups are placed: the first k are.
LaidSoFar(laid, groups, events, k, g) ==
  /\ laid \in LaidStates
  /\ \E w \in Nat : Len(laid.slots) = w * g
  /\ TrailingPadding(laid.slots) < g
  /\ \A m \in 1 .. k : Placed(laid.slots, groups[m], m - 1, g)
  /\ \A i \in 1 .. Len(laid.slots), n \in Nat : laid.slots[i].note = <<"g", n>> => n < k
  /\ Len(laid.rest) <= Len(events)
  /\ \A i \in 1 .. Len(laid.rest) : laid.rest[i] = events[(Len(events) - Len(laid.rest)) + i]
  /\ \E at : Listed(at, laid.slots, events, Len(events) - Len(laid.rest))

\* A group stays where it is when the list is extended.
LEMMA HoldsKept ==
    ASSUME NEW slots \in Seq(Slots), NEW more \in Seq(Slots), NEW notes, Extended(slots, more, notes),
           NEW group \in Seq(NotedEvents), NEW num \in Nat, NEW first \in Nat, Holds(slots, group, num, first),
           <<"g", num>> \notin notes
    PROVE  Holds(more, group, num, first)
<1>1. Len(slots) \in Nat /\ Len(more) \in Nat /\ Len(group) \in Nat /\ Len(slots) <= Len(more)
    BY DEF Extended
<1>2. \A i \in 1 .. Len(slots) : i \in 1 .. Len(more)
    BY <1>1
<1>3. \A i \in 1 .. Len(more) : \/ i \in 1 .. Len(slots) /\ more[i] = slots[i]
                                \/ (i \in 1 .. Len(slots) => slots[i].note = <<"p">>) /\ more[i].note # <<"g", num>>
    BY DEF Extended
<1>4. <<"g", num>> # <<"p">>
    BY NotesDiffer
<1>5. \A i \in (first + 1) .. (first + Len(group)) : i \in 1 .. Len(slots)
  <2>1. \A i \in (first + 1) .. (first + Len(group)) : i - first \in 1 .. Len(group) /\ first + (i - first) = i
      BY <1>1
  <2>2. \A j \in 1 .. Len(group) : first + j \in 1 .. Len(slots)
      BY DEF Holds
  <2> QED
      BY <2>1, <2>2
<1>6. \A i \in 1 .. Len(slots) : slots[i].note = <<"g", num>> <=> i \in (first + 1) .. (first + Len(group))
    BY DEF Holds
<1>7. \A i \in 1 .. Len(more) : more[i].note = <<"g", num>> <=> i \in (first + 1) .. (first + Len(group))
    BY <1>3, <1>4, <1>5, <1>6
<1>8. ASSUME NEW j \in 1 .. Len(group)
      PROVE  first + j \in 1 .. Len(more) /\ more[first + j].ev = group[j].ev
  <2>1. first + j \in 1 .. Len(slots) /\ slots[first + j].ev = group[j].ev
      BY DEF Holds
  <2>2. first + j \in (first + 1) .. (first + Len(group))
      BY <1>1
  <2>3. more[first + j] = slots[first + j]
      BY <1>2, <1>3, <1>4, <1>6, <2>1, <2>2
  <2> QED
      BY <1>2, <2>1, <2>3
<1> QED
    BY <1>7, <1>8 DEF Holds

\* It stays within its window.
LEMMA PlacedKept ==
    ASSUME NEW slots \in Seq(Slots), NEW more \in Seq(Slots), NEW notes, Extended(slots, more, notes),
           NEW group \in Seq(NotedEvents), NEW num \in Nat, NEW g \in Nat, Placed(slots, group, num, g),
           <<"g", num>> \notin notes
    PROVE  Placed(more, group, num, g)
<1>1. PICK w \in Nat, s \in 0 .. (g - Len(group)) : Holds(slots, group, num, w * g + s)
    BY DEF Placed
<1>2. w * g + s \in Nat
    OBVIOUS
<1>3. Holds(more, group, num, w * g + s)
    BY <1>1, <1>2, HoldsKept
<1> QED
    BY <1>3 DEF Placed

\* The events stay in their places when no others are added.
LEMMA ListedKept ==
    ASSUME NEW slots \in Seq(Slots), NEW more \in Seq(Slots), NEW notes, Extended(slots, more, notes),
           NEW at, NEW events, NEW n \in Nat, Listed(at, slots, events, n), <<"e">> \notin notes
    PROVE  Listed(at, more, events, n)
<1>1. Len(slots) \in Nat /\ Len(more) \in Nat /\ Len(slots) <= Len(more)
    BY DEF Extended
<1>2. \A i \in 1 .. Len(slots) : i \in 1 .. Len(more)
    BY <1>1
<1>3. \A i \in 1 .. Len(more) : \/ i \in 1 .. Len(slots) /\ more[i] = slots[i]
                                \/ (i \in 1 .. Len(slots) => slots[i].note = <<"p">>) /\ more[i].note # <<"e">>
    BY DEF Extended
<1>4. <<"e">> # <<"p">>
    BY NotesDiffer
<1>5. /\ \A j \in 1 .. n : at[j] \in 1 .. Len(slots) /\ slots[at[j]].note = <<"e">>
      /\ at = [j \in 1 .. n |-> at[j]]
    BY DEF Listed
<1>6. \A j \in 1 .. n : at[j] \in 1 .. Len(more) /\ more[at[j]] = slots[at[j]]
    BY <1>2, <1>3, <1>4, <1>5
<1>7. at \in [1 .. n -> 1 .. Len(more)]
    BY <1>5, <1>6
<1>8. \A i \in 1 .. Len(more) : more[i].note = <<"e">> <=> \E j \in 1 .. n : at[j] = i
  <2>1. \A i \in 1 .. Len(slots) : slots[i].note = <<"e">> <=> \E j \in 1 .. n : at[j] = i
      BY DEF Listed
  <2> QED
      BY <1>3, <1>5, <1>6, <2>1
<1> QED
    BY <1>6, <1>7, <1>8 DEF Listed

\* To events that are listed the next ones are added.
LEMMA ListedMore ==
    ASSUME NEW slots \in Seq(Slots), NEW more \in Seq(Slots), NEW n \in Nat, NEW take \in Nat, NEW at, NEW events,
           Listed(at, slots, events, n), Extended(slots, more, {<<"e">>, <<"p">>}),
           \A i \in 1 .. Len(slots) : more[i] = slots[i],
           \A i \in 1 .. take : Len(slots) + i \in 1 .. Len(more),
           \A i \in 1 .. Len(more) : i > Len(slots) => (more[i].note = <<"e">> <=> i <= Len(slots) + take),
           \A j \in 1 .. take : more[Len(slots) + j].ev = events[n + j].ev
    PROVE  \E longer : Listed(longer, more, events, n + take)
<1> DEFINE L == Len(slots)
           longer == [j \in 1 .. (n + take) |-> IF j <= n THEN at[j] ELSE L + (j - n)]
<1>1. L \in Nat /\ Len(more) \in Nat /\ L <= Len(more)
    BY DEF Extended
<1>2. \A j \in 1 .. n : at[j] \in 1 .. L
    BY DEF Listed
<1>3. \A j \in 1 .. (n + take) : IF j <= n THEN j \in 1 .. n ELSE j - n \in 1 .. take /\ n + (j - n) = j
    OBVIOUS
<1>4. \A j \in 1 .. n : longer[j] = at[j] /\ j \in 1 .. (n + take)
    OBVIOUS
<1>5. \A j \in 1 .. take : longer[n + j] = L + j /\ n + j \in 1 .. (n + take)
    OBVIOUS
<1>6. longer \in [1 .. (n + take) -> 1 .. Len(more)]
  <2>1. \A j \in 1 .. (n + take) : (IF j <= n THEN at[j] ELSE L + (j - n)) \in 1 .. Len(more)
    <3>1. \A j \in 1 .. n : at[j] \in 1 .. Len(more)
        BY <1>1, <1>2
    <3>2. \A j \in 1 .. (n + take) : ~(j <= n) => L + (j - n) \in 1 .. Len(more)
        BY <1>3
    <3> QED
        BY <1>3, <3>1, <3>2
  <2> QED
      BY <2>1
<1>7. \A j \in 1 .. (n + take) : IF j <= n THEN longer[j] = at[j] ELSE longer[j] = L + (j - n)
    OBVIOUS
<1> HIDE DEF longer
<1>8. \A j, k \in 1 .. (n + take) : j < k => longer[j] < longer[k]
  <2>1. \A j, k \in 1 .. n : j < k => at[j] < at[k]
      BY DEF Listed
  <2>2. \A j \in 1 .. n : at[j] \in Nat /\ at[j] <= L
      BY <1>1, <1>2
  <2>3. ASSUME NEW j \in 1 .. (n + take), NEW k \in 1 .. (n + take), j < k
        PROVE  longer[j] < longer[k]
    <3>1. CASE k <= n
      <4>1. j \in 1 .. n /\ k \in 1 .. n /\ j <= n
          BY <2>3, <3>1
      <4> QED
          BY <1>7, <2>1, <2>3, <3>1, <4>1
    <3>2. CASE ~(k <= n) /\ j <= n
      <4>1. j \in 1 .. n /\ k - n \in Nat /\ k - n > 0
          BY <3>2
      <4>2. longer[j] = at[j] /\ longer[k] = L + (k - n)
          BY <1>7, <3>2
      <4>3. at[j] \in Nat /\ at[j] <= L
          BY <2>2, <4>1
      <4> QED
          BY <1>1, <4>1, <4>2, <4>3
    <3>3. CASE ~(k <= n) /\ ~(j <= n)
      <4>1. longer[j] = L + (j - n) /\ longer[k] = L + (k - n)
          BY <1>7, <3>3
      <4> QED
          BY <1>1, <2>3, <4>1
    <3> QED
        BY <3>1, <3>2, <3>3
  <2> QED
      BY <2>3
<1>9. \A j \in 1 .. (n + take) : more[longer[j]].ev = events[j].ev
  <2>1. \A j \in 1 .. n : slots[at[j]].ev = events[j].ev
      BY DEF Listed
  <2>2. ASSUME NEW j \in 1 .. (n + take)
        PROVE  more[longer[j]].ev = events[j].ev
    <3>1. CASE j <= n
        BY <1>2, <1>3, <1>7, <2>1, <3>1
    <3>2. CASE ~(j <= n)
      <4>1. j - n \in 1 .. take /\ n + (j - n) = j /\ longer[j] = L + (j - n)
          BY <1>3, <1>7, <3>2
      <4> QED
          BY <4>1
    <3> QED
        BY <3>1, <3>2
  <2> QED
      BY <2>2
<1>10. ASSUME NEW i \in 1 .. Len(more)
       PROVE  more[i].note = <<"e">> <=> \E j \in 1 .. (n + take) : longer[j] = i
  <2>1. CASE i \in 1 .. L
    <3>1. more[i].note = <<"e">> <=> \E j \in 1 .. n : at[j] = i
        BY <2>1 DEF Listed
    <3>2. \A j \in 1 .. (n + take) : longer[j] = i => j <= n
        BY <1>1, <1>7, <2>1
    <3> QED
        BY <1>3, <1>4, <1>7, <3>1, <3>2
  <2>2. CASE i \notin 1 .. L
    <3>1. i > L /\ (i <= L + take => i - L \in 1 .. take /\ L + (i - L) = i)
        BY <1>1, <2>2
    <3>2. i <= L + take => \E j \in 1 .. (n + take) : longer[j] = i
        BY <1>5, <3>1
    <3>3. \A j \in 1 .. (n + take) : longer[j] = i => i <= L + take
      <4>1. \A j \in 1 .. (n + take) : longer[j] = i => ~(j <= n)
          BY <1>1, <1>2, <1>3, <1>7, <2>2
      <4> QED
          BY <1>1, <1>7, <4>1
    <3> QED
        BY <3>1, <3>2, <3>3
  <2> QED
      BY <2>1, <2>2
<1>11. Listed(longer, more, events, n + take)
    BY <1>6, <1>8, <1>9, <1>10 DEF Listed
<1> QED
    BY <1>11

\* At first nothing is laid.
LEMMA NothingLaid ==
    ASSUME NEW events \in Seq(NotedEvents), NEW groups, NEW g \in Nat \ {0}
    PROVE  LaidSoFar([slots |-> <<>>, rest |-> events], groups, events, 0, g)
<1> DEFINE laid == [slots |-> <<>>, rest |-> events]
<1>1. <<>> \in Seq(Slots) /\ Len(<<>>) = 0 /\ Len(events) \in Nat
    OBVIOUS
<1>2. laid \in LaidStates
    BY <1>1 DEF LaidStates
<1>3. Len(laid.slots) = 0 * g /\ 0 \in Nat
    BY <1>1
<1>4. TrailingPadding(<<>>) = 0
  <2>1. TrailingPadding(<<>>) \in 0 .. Len(<<>>)
      BY <1>1, TrailingPaddingIs
  <2> DEFINE n == TrailingPadding(<<>>)
  <2>2. n \in 0 .. 0
      BY <1>1, <2>1
  <2> HIDE DEF n
  <2>3. n = 0
      BY <2>2
  <2> QED
      BY <2>3 DEF n
<1>5. Listed(<<>>, laid.slots, events, Len(events) - Len(laid.rest))
    BY <1>1 DEF Listed
<1>6. \A i \in 1 .. Len(laid.rest) : laid.rest[i] = events[(Len(events) - Len(laid.rest)) + i]
    BY <1>1
<1> QED
    BY <1>1, <1>2, <1>3, <1>4, <1>5, <1>6 DEF LaidSoFar

\* What is laid stays laid when slots are added or padding is taken.
LEMMA PaddedListed ==
    ASSUME NEW laid \in LaidStates, NEW p, NEW n \in Nat, NEW take \in 0 .. n, IsPadded(p, laid, n, take),
           NEW at, NEW events, Len(events) \in Nat, Len(laid.rest) <= Len(events),
           Listed(at, laid.slots, events, Len(events) - Len(laid.rest)),
           \A i \in 1 .. Len(laid.rest) : laid.rest[i] = events[(Len(events) - Len(laid.rest)) + i]
    PROVE  /\ Extended(laid.slots, p.slots, {<<"e">>, <<"p">>})
           /\ Len(p.rest) <= Len(events)
           /\ \A i \in 1 .. Len(p.rest) : p.rest[i] = events[(Len(events) - Len(p.rest)) + i]
           /\ \E longer : Listed(longer, p.slots, events, Len(events) - Len(p.rest))
<1> DEFINE L == Len(laid.slots)
           R == Len(laid.rest)
           E == Len(events)
<1>1. /\ laid.slots \in Seq(Slots) /\ laid.rest \in Seq(NotedEvents)
      /\ p.slots \in Seq(Slots) /\ p.rest \in Seq(NotedEvents)
    BY DEF IsPadded, LaidStates
<1>2. L \in Nat /\ R \in Nat /\ E \in Nat /\ R <= E
    BY <1>1
<1>3. /\ take <= R /\ Len(p.slots) = L + n
      /\ \A i \in 1 .. L : p.slots[i] = laid.slots[i]
      /\ \A i \in 1 .. take : p.slots[L + i] = push_ioctl_normal_event(laid.rest[i])
      /\ \A i \in (take + 1) .. n : p.slots[L + i] = push_ioctl_padding_event
      /\ Len(p.rest) = R - take
      /\ \A i \in 1 .. (R - take) : p.rest[i] = laid.rest[take + i]
    BY DEF IsPadded
<1>4. \A i \in 1 .. take : i \in 1 .. R /\ laid.rest[i] \in NotedEvents
    BY <1>1, <1>2, <1>3
<1>5. \A i \in 1 .. take : p.slots[L + i].note = <<"e">> /\ p.slots[L + i].ev = laid.rest[i].ev
  <2>1. \A x \in NotedEvents : push_ioctl_normal_event(x).ev = x.ev /\ push_ioctl_normal_event(x).note = <<"e">>
    <3> SUFFICES ASSUME NEW x \in NotedEvents
                 PROVE  push_ioctl_normal_event(x).ev = x.ev /\ push_ioctl_normal_event(x).note = <<"e">>
        OBVIOUS
    <3>1. 0 \in Nat
        OBVIOUS
    <3> QED
        BY <3>1, SlotTypes
  <2> QED
      BY <1>3, <1>4, <2>1
<1>6. \A i \in (take + 1) .. n : p.slots[L + i].note = <<"p">> /\ <<"p">> # <<"e">>
    BY <1>3, PaddingTypes, NotesDiffer
<1>7. ASSUME NEW i \in 1 .. (L + n), i > L
      PROVE  /\ p.slots[i].note \in {<<"e">>, <<"p">>}
             /\ p.slots[i].note = <<"e">> <=> i <= L + take
  <2>1. PICK j \in 1 .. n : i = L + j
    <3>1. i - L \in 1 .. n /\ i = L + (i - L)
        BY <1>2, <1>7
    <3> QED
        BY <3>1
  <2>2. CASE j \in 1 .. take
    <3>1. i <= L + take
        BY <1>2, <2>1, <2>2
    <3> QED
        BY <1>5, <2>1, <2>2, <3>1
  <2>3. CASE j \in (take + 1) .. n
    <3>1. ~(i <= L + take)
        BY <1>2, <2>1, <2>3
    <3> QED
        BY <1>6, <2>1, <2>3, <3>1
  <2> QED
      BY <2>2, <2>3
<1>8. Extended(laid.slots, p.slots, {<<"e">>, <<"p">>})
  <2>1. \A i \in 1 .. (L + n) : i \in 1 .. L \/ (i > L /\ i \notin 1 .. L)
      BY <1>2
  <2>2. Len(laid.slots) <= Len(p.slots)
      BY <1>2, <1>3
  <2> HIDE DEF L
  <2>3. \A i \in 1 .. Len(p.slots) : \/ i \in 1 .. L /\ p.slots[i] = laid.slots[i]
                                     \/ i \notin 1 .. L /\ p.slots[i].note \in {<<"e">>, <<"p">>}
      BY <1>3, <1>7, <2>1
  <2> QED
      BY <2>2, <2>3 DEF Extended, L
<1>9. \A j \in 1 .. R : (E - R) + j \in Nat /\ laid.rest[j] = events[(E - R) + j]
  <2>1. \A j \in 1 .. R : (E - R) + j \in Nat
      BY <1>2
  <2>2. \A j \in 1 .. R : laid.rest[j] = events[(E - R) + j]
      OBVIOUS
  <2> QED
      BY <2>1, <2>2
<1>10. \A i \in 1 .. (R - take) : p.rest[i] = events[(E - (R - take)) + i]
  <2>1. \A i \in 1 .. (R - take) : take + i \in 1 .. R /\ (E - R) + (take + i) = (E - (R - take)) + i
      BY <1>2, <1>3
  <2> QED
      BY <1>3, <1>9, <2>1
<1>11. \E longer : Listed(longer, p.slots, events, (E - R) + take)
  <2>1. \A i \in 1 .. take : L + i \in 1 .. Len(p.slots)
      BY <1>2, <1>3
  <2>2. \A j \in 1 .. take : p.slots[L + j].ev = events[(E - R) + j].ev
      BY <1>4, <1>5, <1>9
  <2>3. E - R \in Nat /\ take \in Nat
      BY <1>2
  <2>4. \A i \in 1 .. Len(p.slots) : i > L => (p.slots[i].note = <<"e">> <=> i <= L + take)
      BY <1>3, <1>7
  <2> DEFINE m == E - R
  <2>5. m \in Nat /\ Listed(at, laid.slots, events, m) /\ \A j \in 1 .. take : p.slots[L + j].ev = events[m + j].ev
      BY <2>2, <2>3
  <2> HIDE DEF m
  <2>6. \E longer : Listed(longer, p.slots, events, m + take)
      BY <1>1, <1>3, <1>8, <2>1, <2>3, <2>4, <2>5, ListedMore
  <2> QED
      BY <2>6 DEF m
<1>12. (E - R) + take = E - (R - take) /\ R - take <= E
    BY <1>2
<1> QED
    BY <1>3, <1>8, <1>10, <1>11, <1>12

\* Laying a group leaves the list well formed.
LEMMA LayTypes ==
    ASSUME NEW laid \in LaidStates, NEW group \in Seq(NotedEvents), NEW num \in Nat, NEW g \in Nat \ {0}
    PROVE  LayGroup(laid, group, num, g) \in LaidStates
<1>1. PlaceGroup(laid.slots, group, num) \in Seq(Slots)
    BY PlacedIs DEF LaidStates
<1>2. [laid EXCEPT !.slots = PlaceGroup(@, group, num)] \in LaidStates
    BY <1>1 DEF LaidStates
<1>3. padding_ioctl_events([laid EXCEPT !.slots = PlaceGroup(@, group, num)], g) \in LaidStates
    BY <1>2, PaddedIs DEF IsPadded
<1> QED
    BY <1>3 DEF LayGroup

-----------------------------------------------------------------------------
(* Group after group.                                                        *)

\* One more group is laid, and what was laid before it is kept.
LEMMA GroupLaid ==
    ASSUME NEW laid, NEW groups \in Seq(Seq(NotedEvents)), NEW events \in Seq(NotedEvents), NEW g \in Nat \ {0},
           NEW k \in 1 .. Len(groups), Len(groups[k]) \in 1 .. g,
           LaidSoFar(laid, groups, events, k - 1, g)
    PROVE  LaidSoFar(LayGroup(laid, groups[k], k - 1, g), groups, events, k, g)
<1> DEFINE group == groups[k]
           num   == k - 1
           note  == <<"g", num>>
           S     == laid.slots
           L     == Len(S)
           G     == Len(group)
           n     == TrailingPadding(S)
           first == Behind(S, group)
           p     == PlaceGroup(S, group, num)
           mid   == [laid EXCEPT !.slots = p]
           q     == LayGroup(laid, group, num, g)
           miss  == Missing(p, g)
<1>1. /\ group \in Seq(NotedEvents) /\ num \in Nat /\ G \in 1 .. g
      /\ Len(groups) \in Nat /\ Len(events) \in Nat /\ k \in Nat
    OBVIOUS
<1>2. /\ laid \in LaidStates /\ S \in Seq(Slots) /\ L \in Nat /\ laid.rest \in Seq(NotedEvents)
    BY DEF LaidSoFar, LaidStates
<1>3. PICK w \in Nat : L = w * g
    BY DEF LaidSoFar
<1>4. /\ n < g
      /\ \A m \in 1 .. (k - 1) : Placed(S, groups[m], m - 1, g)
      /\ \A i \in 1 .. L, m \in Nat : S[i].note = <<"g", m>> => m < k - 1
      /\ Len(laid.rest) <= Len(events)
      /\ \A i \in 1 .. Len(laid.rest) : laid.rest[i] = events[(Len(events) - Len(laid.rest)) + i]
    BY DEF LaidSoFar
<1>5. PICK at : Listed(at, S, events, Len(events) - Len(laid.rest))
    BY DEF LaidSoFar
<1>6. \A i \in 1 .. L : S[i].note # note
    BY <1>1, <1>4
<1>7. /\ p \in Seq(Slots) /\ Extended(S, p, {note}) /\ first \in 0 .. L
      /\ Len(p) = IF n >= G THEN L ELSE L + G
      /\ Holds(p, group, num, first)
    BY <1>1, <1>2, <1>6, PlacedIs
<1>8. n \in 0 .. L
    BY <1>2, TrailingPaddingIs
<1> HIDE DEF p, n, group
<1>9. first = IF n >= G THEN L - n ELSE L
    BY DEF Behind, n
<1> HIDE DEF first
<1>10. \E v \in Nat, s \in 0 .. (g - G) : first = v * g + s
  <2>1. CASE n >= G
    <3>1. w - 1 \in Nat
      <4>1. w # 0
          BY <1>1, <1>3, <1>8, <2>1
      <4> QED
          BY <4>1
    <3>2. g - n \in 0 .. (g - G)
        BY <1>1, <1>4, <1>8, <2>1
    <3>3. first = (w - 1) * g + (g - n)
        BY <1>3, <1>8, <1>9, <2>1
    <3> QED
        BY <3>1, <3>2, <3>3
  <2>2. CASE ~(n >= G)
    <3>1. first = w * g + 0 /\ 0 \in 0 .. (g - G)
        BY <1>1, <1>3, <1>9, <2>2
    <3> QED
        BY <3>1
  <2> QED
      BY <2>1, <2>2
<1>11. Placed(p, group, num, g)
    BY <1>7, <1>10 DEF Placed
<1>12. mid \in LaidStates /\ mid.slots = p /\ mid.rest = laid.rest
    BY <1>2, <1>7 DEF LaidStates
<1>13. q = padding_ioctl_events(mid, g)
    BY DEF LayGroup, p
<1> HIDE DEF mid, q
<1>14. PICK take \in 0 .. miss : IsPadded(q, mid, miss, take)
    BY <1>12, <1>13, PaddedIs
<1>15. /\ miss \in 0 .. (g - 1) /\ miss \in Nat
       /\ \A v \in Nat : Len(p) = v * g => miss = 0
       /\ \A v \in Nat, r \in 1 .. g : Len(p) = v * g + r => miss = g - r
       /\ \E v \in Nat : Len(p) + miss = v * g
  <2>1. /\ miss \in 0 .. (g - 1)
        /\ \A v \in Nat : Len(p) = v * g => miss = 0
        /\ \A v \in Nat, r \in 1 .. g : Len(p) = v * g + r => miss = g - r
        /\ \E v \in Nat : Len(p) + miss = v * g
      BY <1>7, MissingIs
  <2> HIDE DEF miss
  <2>2. miss \in Nat
      BY <2>1
  <2> QED
      BY <2>1, <2>2
<1> HIDE DEF miss
<1>16. q \in LaidStates /\ q.slots \in Seq(Slots) /\ Len(q.slots) = Len(p) + miss
    BY <1>12, <1>14 DEF IsPadded, LaidStates
<1>17. <<"e">> \notin {note} /\ <<"g", num>> \notin {<<"e">>, <<"p">>} /\ note # <<"p">>
    BY <1>1, NotesDiffer
<1>18. Listed(at, p, events, Len(events) - Len(laid.rest))
  <2>1. Len(events) - Len(laid.rest) \in Nat
      BY <1>1, <1>2, <1>4
  <2> DEFINE N == Len(events) - Len(laid.rest)
  <2>2. N \in Nat /\ Listed(at, S, events, N)
      BY <1>5, <2>1
  <2> HIDE DEF N
  <2>3. Listed(at, p, events, N)
      BY <1>2, <1>7, <1>17, <2>2, ListedKept
  <2> QED
      BY <2>3 DEF N
<1>19. /\ Extended(p, q.slots, {<<"e">>, <<"p">>})
       /\ Len(q.rest) <= Len(events)
       /\ \A i \in 1 .. Len(q.rest) : q.rest[i] = events[(Len(events) - Len(q.rest)) + i]
       /\ \E longer : Listed(longer, q.slots, events, Len(events) - Len(q.rest))
  <2>1. Listed(at, mid.slots, events, Len(events) - Len(mid.rest))
      BY <1>12, <1>18
  <2>2. \A i \in 1 .. Len(mid.rest) : mid.rest[i] = events[(Len(events) - Len(mid.rest)) + i]
      BY <1>4, <1>12
  <2>3. Len(mid.rest) <= Len(events)
      BY <1>4, <1>12
  <2>4. /\ Extended(mid.slots, q.slots, {<<"e">>, <<"p">>})
        /\ Len(q.rest) <= Len(events)
        /\ \A i \in 1 .. Len(q.rest) : q.rest[i] = events[(Len(events) - Len(q.rest)) + i]
        /\ \E longer : Listed(longer, q.slots, events, Len(events) - Len(q.rest))
      BY <1>1, <1>12, <1>14, <1>15, <2>1, <2>2, <2>3, PaddedListed
  <2> QED
      BY <1>12, <2>4
<1>20. ASSUME NEW m \in 1 .. k
       PROVE  Placed(q.slots, groups[m], m - 1, g)
  <2>1. groups[m] \in Seq(NotedEvents) /\ m - 1 \in Nat
      BY <1>1
  <2>2. CASE m = k
      BY <1>1, <1>7, <1>11, <1>16, <1>17, <1>19, <2>2, PlacedKept DEF group
  <2>3. CASE m # k
    <3>1. m \in 1 .. (k - 1)
        BY <1>1, <2>3
    <3>2. <<"g", m - 1>> \notin {note} /\ <<"g", m - 1>> \notin {<<"e">>, <<"p">>}
        BY <1>1, <2>1, <2>3, NotesDiffer
    <3>3. Placed(S, groups[m], m - 1, g)
        BY <1>4, <3>1
    <3>4. Placed(p, groups[m], m - 1, g)
        BY <1>2, <1>7, <2>1, <3>2, <3>3, PlacedKept
    <3> DEFINE other == groups[m]
               fill  == {<<"e">>, <<"p">>}
               no    == m - 1
               more  == q.slots
    <3>5. /\ other \in Seq(NotedEvents) /\ no \in Nat /\ g \in Nat /\ Placed(p, other, no, g) /\ <<"g", no>> \notin fill
          /\ p \in Seq(Slots) /\ more \in Seq(Slots) /\ Extended(p, more, fill)
        BY <1>7, <1>16, <1>19, <2>1, <3>2, <3>4
    <3> HIDE DEF other, fill, no, more
    <3>6. Placed(more, other, no, g)
        BY <3>5, PlacedKept
    <3> QED
        BY <3>6 DEF more, other, no
  <2> QED
      BY <2>2, <2>3
<1>21. ASSUME NEW i \in 1 .. Len(q.slots), NEW m \in Nat, q.slots[i].note = <<"g", m>>
       PROVE  m < k
  <2>1. i \in 1 .. Len(p) /\ q.slots[i] = p[i]
      BY <1>19, <1>21, NotesDiffer DEF Extended
  <2>2. p[i].note = note \/ (i \in 1 .. L /\ p[i] = S[i])
      BY <1>7, <2>1 DEF Extended
  <2>3. CASE p[i].note = note
      BY <1>1, <1>21, <2>1, <2>3, NotesDiffer
  <2>4. CASE i \in 1 .. L /\ p[i] = S[i]
    <3>1. m < k - 1
        BY <1>4, <1>21, <2>1, <2>4
    <3> QED
        BY <1>1, <3>1
  <2> QED
      BY <2>2, <2>3, <2>4
<1>22. TrailingPadding(q.slots) < g
  <2> DEFINE t == TrailingPadding(q.slots)
             N == Len(q.slots)
  <2>1. first + 1 \in 1 .. Len(p) /\ p[first + 1].note = note
    <3>1. 1 \in 1 .. G
        BY <1>1
    <3>2. first + 1 \in 1 .. Len(p)
        BY <3>1, <1>7 DEF Holds
    <3>3. first + 1 \in (first + 1) .. (first + G)
        BY <1>1, <1>7
    <3> QED
        BY <1>7, <3>2, <3>3 DEF Holds
  <2>2. first + 1 \in 1 .. N /\ q.slots[first + 1].note = note
    <3>1. \A i \in 1 .. Len(p) : i \in 1 .. N
        BY <1>7, <1>15, <1>16
    <3>2. first + 1 \in 1 .. N
        BY <2>1, <3>1
    <3> HIDE DEF N
    <3>3. q.slots[first + 1] = p[first + 1] \/ p[first + 1].note = <<"p">>
        BY <1>19, <2>1, <3>2 DEF Extended, N
    <3> QED
        BY <1>17, <2>1, <3>2, <3>3
  <2>3. t <= N - (first + 1) /\ t \in Nat
    <3>1. t \in 0 .. N /\ \A i \in 1 .. N : q.slots[i].note # <<"p">> => t <= N - i
        BY <1>16, TrailingPaddingIs
    <3>2. q.slots[first + 1].note # <<"p">>
        BY <1>17, <2>2
    <3> HIDE DEF t, N
    <3> QED
        BY <2>2, <3>1, <3>2
  <2>4. N <= first + g
    <3>1. CASE n >= G
      <4>1. miss = 0 /\ Len(p) = L
          BY <1>3, <1>7, <1>15, <3>1
      <4> QED
          BY <1>1, <1>2, <1>4, <1>8, <1>9, <1>16, <3>1, <4>1
    <3>2. CASE ~(n >= G)
      <4>1. Len(p) = w * g + G
          BY <1>3, <1>7, <3>2
      <4>2. miss = g - G
          BY <1>1, <1>15, <4>1
      <4> QED
          BY <1>1, <1>2, <1>3, <1>9, <1>16, <3>2, <4>1, <4>2
    <3> QED
        BY <3>1, <3>2
  <2>5. N \in Nat /\ first \in Nat
      BY <1>7, <1>16
  <2> HIDE DEF t, N
  <2>6. t < g
      BY <2>3, <2>4, <2>5
  <2> QED
      BY <2>6 DEF t
<1>23. \E v \in Nat : Len(q.slots) = v * g
    BY <1>15, <1>16
<1>24. LaidSoFar(q, groups, events, k, g)
    BY <1>16, <1>19, <1>20, <1>21, <1>22, <1>23 DEF LaidSoFar
<1> QED
    BY <1>24 DEF q, group

\* How the events of a class must be laid out for the driver.
IsLaidOut(slots, groups, events, g) ==
  /\ slots \in Seq(Slots)
  /\ \E w \in Nat : Len(slots) = w * g
  /\ \A m \in 1 .. Len(groups) : Placed(slots, groups[m], m - 1, g)
  /\ \A i \in 1 .. Len(slots), n \in Nat : slots[i].note = <<"g", n>> => n < Len(groups)
  /\ \E at : Listed(at, slots, events, Len(events))

\* What a list that is filled up keeps of the groups.
LEMMA GroupsKept ==
    ASSUME NEW slots \in Seq(Slots), NEW more \in Seq(Slots), Extended(slots, more, {<<"e">>, <<"p">>}),
           NEW groups \in Seq(Seq(NotedEvents)), NEW g \in Nat,
           \A m \in 1 .. Len(groups) : Placed(slots, groups[m], m - 1, g),
           \A i \in 1 .. Len(slots), n \in Nat : slots[i].note = <<"g", n>> => n < Len(groups)
    PROVE  /\ \A m \in 1 .. Len(groups) : Placed(more, groups[m], m - 1, g)
           /\ \A i \in 1 .. Len(more), n \in Nat : more[i].note = <<"g", n>> => n < Len(groups)
<1>1. ASSUME NEW m \in 1 .. Len(groups)
      PROVE  Placed(more, groups[m], m - 1, g)
  <2> DEFINE group == groups[m]
             num   == m - 1
             fill  == {<<"e">>, <<"p">>}
  <2>1. group \in Seq(NotedEvents) /\ num \in Nat
      OBVIOUS
  <2>2. <<"g", num>> \notin fill /\ Placed(slots, group, num, g) /\ Extended(slots, more, fill)
      BY <2>1, NotesDiffer
  <2> HIDE DEF group, num, fill
  <2>3. Placed(more, group, num, g)
      BY <2>1, <2>2, PlacedKept
  <2> QED
      BY <2>3 DEF group, num
<1>2. ASSUME NEW i \in 1 .. Len(more), NEW n \in Nat, more[i].note = <<"g", n>>
      PROVE  n < Len(groups)
  <2>1. i \in 1 .. Len(slots) /\ more[i] = slots[i]
      BY <1>2, NotesDiffer DEF Extended
  <2> QED
      BY <1>2, <2>1
<1> QED
    BY <1>1, <1>2

\* The slots of events.
LEMMA NormalIs ==
    ASSUME NEW rest \in Seq(NotedEvents)
    PROVE  /\ Normal(rest) \in Seq(Slots) /\ Len(Normal(rest)) = Len(rest)
           /\ \A i \in 1 .. Len(rest) : Normal(rest)[i] = push_ioctl_normal_event(rest[i])
<1> DEFINE R == Len(rest)
           all == Normal(rest)
<1>0. R \in Nat
    OBVIOUS
<1>1. \A i \in 1 .. R : push_ioctl_normal_event(rest[i]) \in Slots
  <2>1. 0 \in Nat /\ \A i \in 1 .. R : rest[i] \in NotedEvents
      OBVIOUS
  <2> HIDE DEF R
  <2> QED
      BY <2>1, SlotTypes
<1>2. all = [i \in 1 .. R |-> push_ioctl_normal_event(rest[i])]
    BY DEF Normal
<1> HIDE DEF all, R
<1>3. all \in Seq(Slots) /\ Len(all) = R /\ \A i \in 1 .. R : all[i] = push_ioctl_normal_event(rest[i])
    BY <1>0, <1>1, <1>2
<1> QED
    BY <1>3 DEF all, R

\* Slots are appended to slots.
LEMMA SlotsJoined ==
    ASSUME NEW a \in Seq(Slots), NEW b \in Seq(Slots)
    PROVE  /\ a \o b \in Seq(Slots) /\ Len(a \o b) = Len(a) + Len(b)
           /\ \A i \in 1 .. Len(a) : (a \o b)[i] = a[i]
           /\ \A i \in 1 .. Len(b) : (a \o b)[Len(a) + i] = b[i]
<1>1. a \o b \in Seq(Slots) /\ Len(a \o b) = Len(a) + Len(b)
    OBVIOUS
<1>2. \A i \in 1 .. Len(a) : (a \o b)[i] = a[i]
    OBVIOUS
<1>3. \A i \in 1 .. Len(b) : (a \o b)[Len(a) + i] = b[i]
    OBVIOUS
<1> QED
    BY <1>1, <1>2, <1>3

\* To append all events that are left is to fill up with as many.
LEMMA RestIsPadding ==
    ASSUME NEW laid \in LaidStates, NEW more \in Seq(Slots), NEW normal,
           Len(more) = Len(laid.slots) + Len(laid.rest),
           \A i \in 1 .. Len(laid.slots) : more[i] = laid.slots[i],
           \A i \in 1 .. Len(laid.rest) : more[Len(laid.slots) + i] = normal[i],
           \A i \in 1 .. Len(laid.rest) : normal[i] = push_ioctl_normal_event(laid.rest[i])
    PROVE  IsPadded([slots |-> more, rest |-> <<>>], laid, Len(laid.rest), Len(laid.rest))
<1> DEFINE p == [slots |-> more, rest |-> <<>>]
           S == laid.slots
           rest == laid.rest
           R == Len(rest)
<1>1. R \in Nat /\ Len(S) \in Nat
    BY DEF LaidStates
<1>2. p \in LaidStates /\ p.slots = more /\ p.rest = <<>> /\ Len(p.rest) = 0
    BY DEF LaidStates
<1> HIDE DEF p
<1>3. R <= R /\ R - R = 0 /\ 1 .. (R - R) = {} /\ (R + 1) .. R = {}
    BY <1>1
<1>4. \A i \in 1 .. R : more[Len(S) + i] = push_ioctl_normal_event(rest[i])
    OBVIOUS
<1>5. Len(p.slots) = Len(S) + R /\ (\A i \in 1 .. Len(S) : p.slots[i] = S[i])
    BY <1>2
<1>6. IsPadded(p, laid, R, R)
    BY <1>2, <1>3, <1>4, <1>5 DEF IsPadded
<1> QED
    BY <1>6 DEF p

\* The events that are left, and padding, complete what is laid.
LEMMA RestLaid ==
    ASSUME NEW laid, NEW groups \in Seq(Seq(NotedEvents)), NEW events \in Seq(NotedEvents), NEW g \in Nat \ {0},
           LaidSoFar(laid, groups, events, Len(groups), g)
    PROVE  LET all == laid.slots \o Normal(laid.rest)
           IN  IsLaidOut(padding_ioctl_events([slots |-> all, rest |-> <<>>], g).slots, groups, events, g)
<1> DEFINE S    == laid.slots
           rest == laid.rest
           R    == Len(rest)
           normal == Normal(rest)
           all  == S \o normal
           mid  == [slots |-> all, rest |-> <<>>]
           q    == padding_ioctl_events(mid, g)
           miss == Missing(all, g)
           fill == {<<"e">>, <<"p">>}
<1>1. /\ laid \in LaidStates /\ S \in Seq(Slots) /\ Len(S) \in Nat /\ rest \in Seq(NotedEvents) /\ R \in Nat
      /\ Len(events) \in Nat /\ Len(groups) \in Nat
    BY DEF LaidSoFar, LaidStates
<1>2. /\ \A m \in 1 .. Len(groups) : Placed(S, groups[m], m - 1, g)
      /\ \A i \in 1 .. Len(S), m \in Nat : S[i].note = <<"g", m>> => m < Len(groups)
      /\ R <= Len(events)
      /\ \A i \in 1 .. R : rest[i] = events[(Len(events) - R) + i]
    BY DEF LaidSoFar
<1>3. PICK at : Listed(at, S, events, Len(events) - R)
    BY DEF LaidSoFar
<1>4. normal \in Seq(Slots) /\ Len(normal) = R /\ \A i \in 1 .. R : normal[i] = push_ioctl_normal_event(rest[i])
    BY <1>1, NormalIs
<1> HIDE DEF normal
<1>5. /\ all \in Seq(Slots) /\ Len(all) = Len(S) + R
      /\ \A i \in 1 .. Len(S) : all[i] = S[i]
      /\ \A i \in 1 .. R : all[Len(S) + i] = normal[i]
  <2>1. /\ all \in Seq(Slots) /\ Len(all) = Len(S) + Len(normal)
        /\ \A i \in 1 .. Len(S) : all[i] = S[i]
        /\ \A i \in 1 .. Len(normal) : all[Len(S) + i] = normal[i]
      BY <1>1, <1>4, SlotsJoined
  <2> QED
      BY <1>4, <2>1
<1> HIDE DEF all
<1>6. mid \in LaidStates /\ mid.slots = all /\ mid.rest = <<>> /\ Len(mid.rest) = 0
    BY <1>5 DEF LaidStates
<1>7. IsPadded(mid, laid, R, R)
    BY <1>1, <1>4, <1>5, RestIsPadding
<1> HIDE DEF mid
<1>8. /\ Extended(S, all, fill)
      /\ \E longer : Listed(longer, all, events, Len(events) - 0)
  <2>1. R \in 0 .. R
      BY <1>1
  <2>2. /\ Extended(laid.slots, mid.slots, fill)
        /\ \E longer : Listed(longer, mid.slots, events, Len(events) - Len(mid.rest))
      BY <1>1, <1>2, <1>3, <1>7, <2>1, PaddedListed
  <2> QED
      BY <1>6, <2>2
<1>9. PICK longer : Listed(longer, all, events, Len(events) - 0)
    BY <1>8
<1>10. /\ miss \in Nat /\ \E w \in Nat : Len(all) + miss = w * g
  <2>1. miss \in 0 .. (g - 1) /\ \E w \in Nat : Len(all) + miss = w * g
      BY <1>5, MissingIs
  <2> HIDE DEF miss
  <2>2. miss \in Nat
      BY <2>1
  <2> QED
      BY <2>1, <2>2
<1>11. PICK take \in 0 .. miss : IsPadded(q, mid, miss, take)
    BY <1>6, PaddedIs
<1> HIDE DEF q, miss
<1>12. /\ q \in LaidStates /\ q.slots \in Seq(Slots) /\ Len(q.slots) = Len(all) + miss
       /\ take = 0 /\ Len(q.rest) = 0
    BY <1>6, <1>11 DEF IsPadded, LaidStates
<1>13. /\ Extended(all, q.slots, fill)
       /\ \E last : Listed(last, q.slots, events, Len(events) - 0)
  <2>1. /\ Len(mid.rest) <= Len(events)
        /\ Listed(longer, mid.slots, events, Len(events) - Len(mid.rest))
        /\ \A i \in 1 .. Len(mid.rest) : mid.rest[i] = events[(Len(events) - Len(mid.rest)) + i]
      BY <1>1, <1>6, <1>9
  <2>2. /\ Extended(mid.slots, q.slots, fill)
        /\ \E last : Listed(last, q.slots, events, Len(events) - Len(q.rest))
      BY <1>1, <1>6, <1>10, <1>11, <2>1, PaddedListed
  <2> QED
      BY <1>6, <1>12, <2>2
<1>14. /\ \A m \in 1 .. Len(groups) : Placed(all, groups[m], m - 1, g)
       /\ \A i \in 1 .. Len(all), m \in Nat : all[i].note = <<"g", m>> => m < Len(groups)
    BY <1>1, <1>2, <1>5, <1>8, GroupsKept
<1>15. /\ \A m \in 1 .. Len(groups) : Placed(q.slots, groups[m], m - 1, g)
       /\ \A i \in 1 .. Len(q.slots), m \in Nat : q.slots[i].note = <<"g", m>> => m < Len(groups)
    BY <1>5, <1>12, <1>13, <1>14, GroupsKept
<1>16. Len(events) - 0 = Len(events)
    BY <1>1
<1>17. IsLaidOut(q.slots, groups, events, g)
    BY <1>10, <1>12, <1>13, <1>15, <1>16 DEF IsLaidOut
<1> QED
    BY <1>17 DEF q, mid, all, normal

\* Group after group is laid.
LEMMA AllLaid ==
    ASSUME NEW groups \in Seq(Seq(NotedEvents)), NEW events \in Seq(NotedEvents), NEW g \in Nat \ {0},
           \A k \in 1 .. Len(groups) : Len(groups[k]) \in 1 .. g,
           NEW f \in [0 .. Len(groups) -> LaidStates],
           f[0] = [slots |-> <<>>, rest |-> events],
           \A k \in 1 .. Len(groups) : f[k] = LayGroup(f[k - 1], groups[k], k - 1, g)
    PROVE  LaidSoFar(f[Len(groups)], groups, events, Len(groups), g)
<1> DEFINE N == Len(groups)
           Bad == {k \in 0 .. N : ~LaidSoFar(f[k], groups, events, k, g)}
<1>1. N \in Nat /\ Bad \in SUBSET Nat
    OBVIOUS
<1>2. SUFFICES ASSUME Bad # {} PROVE FALSE
    BY <1>1
<1>3. PICK k \in Bad : \A i \in Bad : k <= i
    BY <1>1, <1>2, LeastNumber
<1>4. k # 0
    BY <1>3, NothingLaid
<1>5. k \in 1 .. N /\ k - 1 \in 0 .. N /\ k - 1 \notin Bad
    BY <1>1, <1>3, <1>4
<1>6. LaidSoFar(f[k - 1], groups, events, k - 1, g)
    BY <1>5
<1>7. LaidSoFar(LayGroup(f[k - 1], groups[k], k - 1, g), groups, events, k, g)
    BY <1>5, <1>6, GroupLaid
<1> QED
    BY <1>3, <1>5, <1>7

\* Padding by groups of any size up to a window.
LEMMA GroupsLaid ==
    ASSUME NEW st, NEW c, gpc_nums[c] \in Nat \ {0}, st.groups[c] # <<>>,
           GroupsOf(st.groups[c]) \in Seq(Seq(NotedEvents)),
           \A k \in 1 .. Len(GroupsOf(st.groups[c])) : Len(GroupsOf(st.groups[c])[k]) \in 1 .. gpc_nums[c],
           st.events[c] \in Seq(NotedEvents)
    PROVE  IsLaidOut(set_event_padding(st, c), GroupsOf(st.groups[c]), st.events[c], gpc_nums[c])
<1> DEFINE groups == GroupsOf(st.groups[c])
           events == st.events[c]
           g      == gpc_nums[c]
           N      == Len(groups)
<1>1. \A laid \in LaidStates, k \in 1 .. N : LayGroup(laid, groups[k], k - 1, g) \in LaidStates
  <2>1. \A k \in 1 .. N : groups[k] \in Seq(NotedEvents) /\ k - 1 \in Nat
      OBVIOUS
  <2> HIDE DEF groups, g
  <2> SUFFICES ASSUME NEW laid \in LaidStates, NEW k \in 1 .. N
               PROVE  LayGroup(laid, groups[k], k - 1, g) \in LaidStates
      OBVIOUS
  <2>2. g \in Nat \ {0}
      BY DEF g
  <2> QED
      BY <2>1, <2>2, LayTypes
<1>2. PICK f \in [0 .. N -> LaidStates] :
          LET all == f[N].slots \o Normal(f[N].rest)
          IN /\ f[0] = [slots |-> <<>>, rest |-> events]
             /\ \A k \in 1 .. N : f[k] = LayGroup(f[k - 1], groups[k], k - 1, g)
             /\ set_event_padding(st, c) =
                  IF st.groups[c] = <<>> THEN all ELSE padding_ioctl_events([slots |-> all, rest |-> <<>>], g).slots
    BY <1>1, LayRuns
<1> DEFINE laid == f[N]
           slots == set_event_padding(st, c)
<1>3. slots = padding_ioctl_events([slots |-> laid.slots \o Normal(laid.rest), rest |-> <<>>], g).slots
    BY <1>2
<1>4. /\ groups \in Seq(Seq(NotedEvents)) /\ events \in Seq(NotedEvents) /\ g \in Nat \ {0}
      /\ \A k \in 1 .. N : Len(groups[k]) \in 1 .. g
      /\ f[0] = [slots |-> <<>>, rest |-> events]
      /\ \A k \in 1 .. N : f[k] = LayGroup(f[k - 1], groups[k], k - 1, g)
    BY <1>2
<1> HIDE DEF groups, events, g, slots
<1>5. LaidSoFar(laid, groups, events, N, g)
    BY <1>4, AllLaid
<1> HIDE DEF laid
<1>6. IsLaidOut(slots, groups, events, g)
    BY <1>3, <1>4, <1>5, RestLaid
<1> QED
    BY <1>6 DEF groups, events, g, slots

-----------------------------------------------------------------------------
(* The groups of a list, and the lists that are parsed.                      *)

\* What a list of groups is made of: members, and headers with a size that
\* fits into the counters.
Items(g) == {item \in [hdr : BOOLEAN, n : NotedEvents] : item.hdr => item.n.ev \in 1 .. g}

\* Of some numbers there is a first, a second, and so on.
LEMMA RankExists ==
    ASSUME NEW n \in Nat, NEW T \in SUBSET (1 .. n), NEW k \in 1 .. Cardinality(T)
    PROVE  \E h \in T : Cardinality({i \in T : i <= h}) = k
<1> DEFINE Upto(m) == {i \in T : i <= m}
           Enough == {m \in Nat : Cardinality(Upto(m)) >= k}
<1>0. /\ \A i \in T : i \in Nat /\ i > 0 /\ i <= n
      /\ \A i, m \in Nat : i <= m <=> i <= m - 1 \/ i = m
      /\ \A m \in Nat : ~(m <= m - 1)
    OBVIOUS
<1>1. IsFiniteSet(T) /\ \A m \in Nat : IsFiniteSet(Upto(m)) /\ Cardinality(Upto(m)) \in Nat
  <2>1. IsFiniteSet(1 .. n)
      BY FS_Interval
  <2>2. IsFiniteSet(T)
      BY <2>1, FS_Subset
  <2>3. \A m \in Nat : IsFiniteSet(Upto(m))
      BY <2>2, FS_Subset
  <2> QED
      BY <2>2, <2>3, FS_CardinalityType
<1>2. n \in Enough
  <2>1. Upto(n) = T
      BY <1>0
  <2>2. k <= Cardinality(T)
      BY <1>1, FS_CardinalityType
  <2> QED
      BY <2>1, <2>2
<1>3. PICK m \in Enough : \A i \in Enough : m <= i
    BY <1>2, LeastNumber
<1>4. k \in Nat /\ k > 0
    BY <1>1, FS_CardinalityType
<1>5. m # 0
  <2>1. \A i \in T : ~(i <= 0)
      BY <1>0
  <2>3. Upto(0) = {}
      BY <2>1
  <2>2. Cardinality(Upto(0)) = 0
      BY <2>3, FS_EmptySet
  <2> QED
      BY <1>3, <1>4, <2>2
<1>6. m \in Nat /\ m - 1 \in Nat /\ ~(Cardinality(Upto(m - 1)) >= k)
  <2>1. m \in Nat /\ m - 1 \in Nat /\ ~(m <= m - 1)
      BY <1>3, <1>5
  <2>2. m - 1 \notin Enough
      BY <1>3, <2>1
  <2> QED
      BY <2>1, <2>2
<1>7. m \in T
  <2>1. SUFFICES ASSUME m \notin T PROVE FALSE
      OBVIOUS
  <2>2. Upto(m) = Upto(m - 1)
    <3>1. \A i \in T : i <= m <=> i <= m - 1
        BY <1>0, <1>6, <2>1
    <3> QED
        BY <3>1
  <2> QED
      BY <1>3, <1>6, <2>2
<1>8. Cardinality(Upto(m)) = Cardinality(Upto(m - 1)) + 1
  <2>1. Upto(m) = Upto(m - 1) \cup {m} /\ m \notin Upto(m - 1)
    <3>1. \A i \in T : i <= m <=> i <= m - 1 \/ i = m
        BY <1>0, <1>6
    <3>2. ~(m <= m - 1)
        BY <1>0, <1>6
    <3> QED
        BY <1>7, <3>1, <3>2
  <2> DEFINE U == Upto(m - 1)
  <2>2. IsFiniteSet(U) /\ m \notin U
      BY <1>1, <1>6, <2>1
  <2> HIDE DEF U
  <2>3. Cardinality(U \cup {m}) = Cardinality(U) + 1
      BY <2>2, FS_AddElement
  <2> QED
      BY <2>1, <2>3 DEF U
<1>9. Cardinality(Upto(m)) = k
  <2>1. Cardinality(Upto(m)) \in Nat /\ Cardinality(Upto(m - 1)) \in Nat /\ Cardinality(Upto(m)) >= k
      BY <1>1, <1>3, <1>6
  <2> HIDE DEF Upto
  <2> QED
      BY <1>4, <1>6, <1>8, <2>1
<1> QED
    BY <1>7, <1>9

\* The groups of a list that is well headed are of events, and fit into the
\* counters.
LEMMA GroupsAre ==
    ASSUME NEW g \in Nat \ {0}, NEW items \in Seq(Items(g)), WellHeaded(items), ~ReadsBeyond(items)
    PROVE  /\ GroupsOf(items) \in Seq(Seq(NotedEvents))
           /\ \A k \in 1 .. Len(GroupsOf(items)) : Len(GroupsOf(items)[k]) \in 1 .. g
<1> DEFINE L == Len(items)
           T == GroupHeads(items)
           N == Cardinality(T)
<1>1. L \in Nat /\ DOMAIN items = 1 .. L /\ \A i \in 1 .. L : items[i] \in Items(g)
    OBVIOUS
<1>2. T \in SUBSET (1 .. L) /\ T \subseteq Heads(items)
    BY <1>1 DEF GroupHeads, Heads
<1>3. N \in Nat
  <2>1. IsFiniteSet(1 .. L)
      BY <1>1, FS_Interval
  <2>2. IsFiniteSet(T)
      BY <1>2, <2>1, FS_Subset
  <2> QED
      BY <2>2, FS_CardinalityType
<1>4. \A h \in T : GroupSize(items[h]) \in 1 .. g
    BY <1>1, <1>2 DEF WellHeaded, Items, GroupSize
<1>5. \A h \in T : h + GroupSize(items[h]) <= L
    BY <1>2, <1>4 DEF ReadsBeyond
<1>6. \A k \in 1 .. N : HeadAt(items, k) \in T
  <2> SUFFICES ASSUME NEW k \in 1 .. N PROVE HeadAt(items, k) \in T
      OBVIOUS
  <2>1. \E h \in T : Cardinality({i \in T : i <= h}) = k
      BY <1>1, <1>2, RankExists
  <2> QED
      BY <2>1 DEF HeadAt
<1>7. ASSUME NEW k \in 1 .. N
      PROVE  GroupAt(items, k) \in Seq(NotedEvents) /\ Len(GroupAt(items, k)) \in 1 .. g
  <2> DEFINE h == HeadAt(items, k)
             s == GroupSize(items[h])
  <2>1. h \in 1 .. L /\ s \in 1 .. g /\ h + s <= L
      BY <1>2, <1>4, <1>5, <1>6
  <2>2. GroupAt(items, k) = [j \in 1 .. s |-> items[h + j].n]
      BY DEF GroupAt
  <2> HIDE DEF h, s
  <2>3. \A j \in 1 .. s : h + j \in 1 .. L
      BY <1>1, <2>1
  <2>4. \A j \in 1 .. s : items[h + j].n \in NotedEvents
      BY <1>1, <2>3 DEF Items
  <2>5. s \in Nat
      BY <2>1
  <2>6. [j \in 1 .. s |-> items[h + j].n] \in Seq(NotedEvents) /\ Len([j \in 1 .. s |-> items[h + j].n]) = s
      BY <2>4, <2>5
  <2> QED
      BY <2>1, <2>2, <2>6
<1>8. GroupsOf(items) = [k \in 1 .. N |-> GroupAt(items, k)]
    BY DEF GroupsOf
<1> HIDE DEF N
<1>9. GroupsOf(items) \in Seq(Seq(NotedEvents)) /\ Len(GroupsOf(items)) = N
    BY <1>3, <1>7, <1>8
<1> QED
    BY <1>7, <1>8, <1>9

\* Padding lays out lists with groups that are well headed.
LEMMA GroupsOfListLaid ==
    ASSUME NEW c \in Classes, gpc_nums[c] > 0,
           NEW st, st.groups[c] \in Seq(Items(gpc_nums[c])), st.events[c] \in Seq(NotedEvents),
           st.groups[c] # <<>>, WellHeaded(st.groups[c]), ~ReadsBeyond(st.groups[c])
    PROVE  IsLaidOut(set_event_padding(st, c), GroupsOf(st.groups[c]), st.events[c], gpc_nums[c])
<1>1. gpc_nums[c] \in Nat \ {0}
    BY ClassesAssumption
<1> DEFINE items == st.groups[c]
           g == gpc_nums[c]
<1>2. g \in Nat \ {0} /\ items \in Seq(Items(g)) /\ WellHeaded(items) /\ ~ReadsBeyond(items)
    BY <1>1
<1> HIDE DEF items, g
<1>3. /\ GroupsOf(items) \in Seq(Seq(NotedEvents))
      /\ \A k \in 1 .. Len(GroupsOf(items)) : Len(GroupsOf(items)[k]) \in 1 .. g
    BY <1>2, GroupsAre
<1> QED
    BY <1>1, <1>3, GroupsLaid DEF items, g

Extras == [cls : Classes, name : Int, num : Nat]
Tokens == {t \in [cls : Classes, form : {"name", "raw", "digits"}, ev : Int, open : BOOLEAN, close : BOOLEAN] :
             t.form # "name" => t.ev \in Nat}

ParseStates ==
  [events : [Classes -> Seq(NotedEvents)],
   groups : {groups \in [Classes -> Seq([hdr : BOOLEAN, n : NotedEvents])] :
               \A c \in Classes : groups[c] \in Seq(Items(gpc_nums[c]))},
   extra : Seq(Extras), size : Nat, outcome : {"parsed", "throw", "undefined"}]

\* A member is an item.
LEMMA ItemTypes ==
    ASSUME NEW g, NEW n \in NotedEvents
    PROVE  /\ Member(n) \in Items(g)
           /\ Items(g) \subseteq [hdr : BOOLEAN, n : NotedEvents]
    BY DEF Member, Items

\* A sequence over a set is one over any larger set.
LEMMA SeqWider ==
    ASSUME NEW S, NEW T, S \subseteq T, NEW s \in Seq(S)
    PROVE  s \in Seq(T)
<1>1. \A i \in 1 .. Len(s) : s[i] \in T
    OBVIOUS
<1>2. Len(s) \in Nat /\ s = [i \in 1 .. Len(s) |-> s[i]]
    OBVIOUS
<1> DEFINE n == Len(s)
<1> HIDE DEF n
<1>3. n \in Nat /\ \A i \in 1 .. n : s[i] \in T
    BY <1>1, <1>2 DEF n
<1>4. [i \in 1 .. n |-> s[i]] \in Seq(T)
    BY <1>3
<1> QED
    BY <1>2, <1>4 DEF n

\* An item is inserted into a sequence.
LEMMA InsertedItem ==
    ASSUME NEW S, NEW s \in Seq(S), NEW i \in 1 .. (Len(s) + 1), NEW e \in S
    PROVE  InsertAt(s, i, e) \in Seq(S)
<1>1. i - 1 \in 0 .. Len(s) /\ Len(s) \in Nat /\ i \in Int
    OBVIOUS
<1>2. SubSeq(s, 1, i - 1) \in Seq(S)
  <2>1. \A j \in 1 .. (i - 1) : s[j] \in S
      BY <1>1
  <2> QED
      BY <1>1, <2>1
<1>3. SubSeq(s, i, Len(s)) \in Seq(S)
    BY <1>1
<1>4. <<e>> \in Seq(S)
    OBVIOUS
<1> QED
    BY <1>2, <1>3, <1>4 DEF InsertAt

\* An event that is not refused has a number.
LEMMA IndexIsNumber ==
    ASSUME NEW st \in ParseStates, NEW t \in Tokens, t.form = "name" => ~(get_event_index(st.extra, t.ev, t.cls) < 0)
    PROVE  Index(st, t) \in Nat
<1>1. CASE t.form # "name"
    BY <1>1 DEF Index, Tokens
<1>2. CASE t.form = "name"
  <2> DEFINE named == ExtrasNamed(st.extra, t.cls, t.ev)
             i == get_event_index(st.extra, t.ev, t.cls)
  <2>1. CASE named # {}
    <3>1. st.extra \in Seq(Extras) /\ named \in SUBSET Nat /\ named \subseteq DOMAIN st.extra
        BY DEF ExtrasNamed, ParseStates
    <3>2. PICK m \in named : \A k \in named : m <= k
        BY <2>1, <3>1, LeastNumber
    <3>3. Min(named) \in named
        BY <3>2 DEF Min
    <3>4. i = st.extra[Min(named)].num
        BY <2>1 DEF get_event_index
    <3> HIDE DEF named, i
    <3>5. st.extra[Min(named)] \in Extras
      <4> DEFINE extra == st.extra
                 k == Min(named)
      <4>1. extra \in Seq(Extras) /\ k \in DOMAIN extra
          BY <3>1, <3>3
      <4> HIDE DEF extra, k
      <4>2. extra[k] \in Extras
          BY <4>1
      <4> QED
          BY <4>2 DEF extra, k
    <3>6. i \in Nat
        BY <3>4, <3>5 DEF Extras
    <3> QED
        BY <1>2, <3>6 DEF Index, i
  <2>2. CASE named = {}
    <3>1. i = IF t.ev \in builtin_events[t.cls] THEN t.ev ELSE -1
        BY <2>2 DEF get_event_index
    <3> HIDE DEF i
    <3>2. i \in Int /\ i >= 0
        BY <1>2, <3>1 DEF Tokens, i
    <3> QED
        BY <1>2, <3>2 DEF Index, i
  <2> QED
      BY <2>1, <2>2
<1> QED
    BY <1>1, <1>2

\* A token adds an event, or a member and maybe a header whose size is no
\* larger than the counters are many: that is what Refused is for.
LEMMA TokenParsed ==
    ASSUME NEW st \in ParseStates, NEW t \in Tokens, NEW metric \in MetricNames
    PROVE  ParseToken(st, t, metric) \in ParseStates
<1> DEFINE c == t.cls
           g == gpc_nums[c]
           now == Noticed(st, t)
           members == Grouped(now, t, metric)
           n == now.size + 1
<1>1. c \in Classes /\ t.ev \in Int /\ g \in Nat
    BY ClassesAssumption DEF Tokens
<1>2. now \in ParseStates
  <2>1. CASE t.form = "name" \/ Misplaced(st, t)
      BY <2>1 DEF Noticed
  <2>2. CASE ~(t.form = "name" \/ Misplaced(st, t))
    <3>1. t.ev \in Nat
        BY <2>2 DEF Tokens
    <3>2. Extra(c, RawName(t.ev), t.ev) \in Extras
        BY <1>1, <3>1 DEF Extra, RawName, Extras
    <3>3. st.extra \in Seq(Extras)
        BY DEF ParseStates
    <3>4. push_raw_extra_event(st.extra, t.ev, c) \in Seq(Extras)
        BY <3>2, <3>3 DEF push_raw_extra_event, AddExtra
    <3>5. now = [st EXCEPT !.extra = push_raw_extra_event(@, t.ev, c)]
        BY <2>2 DEF Noticed
    <3> QED
        BY <3>4, <3>5 DEF ParseStates
  <2> QED
      BY <2>1, <2>2
<1> HIDE DEF now
<1>3. /\ now.events \in [Classes -> Seq(NotedEvents)] /\ now.size \in Nat
      /\ now.groups[c] \in Seq(Items(g)) /\ now.groups \in [Classes -> Seq([hdr : BOOLEAN, n : NotedEvents])]
      /\ \A d \in Classes : now.groups[d] \in Seq(Items(gpc_nums[d]))
      /\ now.extra \in Seq(Extras) /\ now.outcome \in {"parsed", "throw", "undefined"}
    BY <1>1, <1>2 DEF ParseStates
<1>4. ASSUME ~Refused(now, t)
      PROVE  /\ Index(now, t) \in Nat
             /\ members \in Seq(Items(g)) /\ Len(members) = Len(now.groups[c]) + 1
             /\ Noted(Index(now, t), metric, EVT_NOTED_NO_GROUP) \in NotedEvents
  <2>1. t.form = "name" => ~(get_event_index(now.extra, t.ev, c) < 0)
      BY <1>4 DEF Refused
  <2>2. Index(now, t) \in Nat
      BY <1>2, <2>1, IndexIsNumber
  <2>3. Headers(now.groups[c]) \in Nat
    <3>1. IsFiniteSet(DOMAIN now.groups[c])
      <4> DEFINE l == Len(now.groups[c])
      <4>1. DOMAIN now.groups[c] = 1 .. l /\ l \in Nat
          BY <1>3
      <4> HIDE DEF l
      <4>2. IsFiniteSet(1 .. l)
          BY <4>1, FS_Interval
      <4> QED
          BY <4>1, <4>2
    <3>2. IsFiniteSet({i \in DOMAIN now.groups[c] : now.groups[c][i].hdr})
        BY <3>1, FS_Subset
    <3> QED
        BY <3>2, FS_CardinalityType DEF Headers
  <2>4. /\ Noted(Index(now, t), metric, EVT_NOTED_NO_GROUP) \in NotedEvents
        /\ Noted(Index(now, t), metric, Headers(now.groups[c])) \in NotedEvents
      BY <2>2, <2>3 DEF Noted, NotedEvents, EVT_NOTED_NO_GROUP
  <2>5. Member(Noted(Index(now, t), metric, Headers(now.groups[c]))) \in Items(g)
      BY <2>4, ItemTypes
  <2> QED
      BY <1>3, <2>2, <2>4, <2>5 DEF Grouped
<1>5. ASSUME NEW more \in Seq(Items(g)), NEW size \in Nat
      PROVE  [now EXCEPT !.size = size, !.groups[c] = more] \in ParseStates
  <2>2. more \in Seq([hdr : BOOLEAN, n : NotedEvents])
    <3>1. Items(g) \subseteq [hdr : BOOLEAN, n : NotedEvents]
        BY DEF Items
    <3> QED
        BY <3>1, SeqWider
  <2> DEFINE groups == [now.groups EXCEPT ![c] = more]
  <2>3. groups \in [Classes -> Seq([hdr : BOOLEAN, n : NotedEvents])]
      BY <1>3, <2>2
  <2>4. \A d \in Classes : groups[d] \in Seq(Items(gpc_nums[d]))
      BY <1>1, <1>3
  <2>5. [now EXCEPT !.size = size, !.groups[c] = more] = [now EXCEPT !.size = size, !.groups = groups]
      OBVIOUS
  <2> HIDE DEF groups
  <2> QED
      BY <1>2, <2>3, <2>4, <2>5 DEF ParseStates
<1>6. ASSUME NEW outcome \in {"parsed", "throw", "undefined"}
      PROVE  [now EXCEPT !.outcome = outcome] \in ParseStates
    BY <1>2 DEF ParseStates
<1>7. ASSUME ~Refused(now, t), Closes(t)
      PROVE  CloseGroup(now, t, members, n, metric) \in ParseStates
  <2>1. members \in Seq(Items(g)) /\ Len(members) \in Nat
      BY <1>4, <1>7
  <2>2. n \in 1 .. g
    <3>1. ~(now.size + 1 > gpc_nums[t.cls])
        BY <1>7 DEF Refused
    <3> QED
        BY <1>1, <1>3, <3>1
  <2> HIDE DEF members, n, g
  <2>3. Hdr(n, metric) \in Items(g)
    <3>1. n \in Nat
        BY <1>1, <2>2 DEF g
    <3> QED
        BY <2>2, <3>1 DEF Hdr, Noted, Items, NotedEvents, EVT_NOTED_NO_GROUP
  <2>4. CASE Len(members) < n
      BY <1>6, <2>4 DEF CloseGroup
  <2>5. CASE ~(Len(members) < n)
    <3>1. Len(members) - n + 1 \in 1 .. (Len(members) + 1)
        BY <1>1, <2>1, <2>2, <2>5 DEF g
    <3>2. InsertAt(members, Len(members) - n + 1, Hdr(n, metric)) \in Seq(Items(g))
        BY <2>1, <2>3, <3>1, InsertedItem
    <3> QED
        BY <1>5, <2>5, <3>2 DEF CloseGroup
  <2> QED
      BY <2>4, <2>5
<1>8. ASSUME ~Refused(now, t)
      PROVE  [now EXCEPT !.size = @ + 1, !.groups[c] = members] \in ParseStates
  <2>1. members \in Seq(Items(g)) /\ now.size + 1 \in Nat
      BY <1>3, <1>4, <1>8
  <2>2. [now EXCEPT !.size = now.size + 1, !.groups[c] = members] \in ParseStates
      BY <1>5, <2>1
  <2> QED
      BY <2>2
<1>9. ASSUME ~Refused(now, t)
      PROVE  [now EXCEPT !.events[c] = Append(@, Noted(Index(now, t), metric, EVT_NOTED_NO_GROUP))] \in ParseStates
  <2> DEFINE e == Noted(Index(now, t), metric, EVT_NOTED_NO_GROUP)
             events == [now.events EXCEPT ![c] = Append(@, e)]
  <2>1. e \in NotedEvents
      BY <1>4, <1>9
  <2> HIDE DEF e
  <2>2. Append(now.events[c], e) \in Seq(NotedEvents)
      BY <1>1, <1>3, <2>1
  <2>3. events \in [Classes -> Seq(NotedEvents)]
      BY <1>3, <2>2
  <2>4. [now EXCEPT !.events[c] = Append(@, e)] = [now EXCEPT !.events = events]
      OBVIOUS
  <2> HIDE DEF events
  <2>5. [now EXCEPT !.events = events] \in ParseStates
      BY <1>2, <2>3 DEF ParseStates
  <2> QED
      BY <2>4, <2>5 DEF e
<1>10. AddToken(now, t, metric) \in ParseStates
    BY <1>6, <1>7, <1>8, <1>9 DEF AddToken
<1> QED
    BY <1>10 DEF ParseToken, now

\* Parsing makes no lists but such (parse_events_str): events by their numbers,
\* and every group that is closed fits into the counters of its class.
THEOREM ListParsed ==
    ASSUME NEW st \in ParseStates, NEW tokens \in Seq(Tokens), NEW metric \in MetricNames
    PROVE  parse_events_str(st, tokens, metric) \in ParseStates
<1> DEFINE n == Len(tokens)
           step == [k \in 1 .. n |-> [s \in ParseStates |-> ParseToken(s, tokens[k], metric)]]
           Is(iter) == iter = [s \in SUBSET DOMAIN tokens |->
                                 IF s = {} THEN st ELSE LET x == Max(s) IN ParseToken(iter[s \ {x}], tokens[x], metric)]
           I == CHOOSE iter : Is(iter)
<1>1. n \in Nat /\ DOMAIN tokens = 1 .. n /\ step \in [1 .. n -> [ParseStates -> ParseStates]]
  <2>1. n \in Nat /\ DOMAIN tokens = 1 .. n /\ \A k \in 1 .. n : tokens[k] \in Tokens
      OBVIOUS
  <2> HIDE DEF n
  <2>2. \A k \in 1 .. n, s \in ParseStates : ParseToken(s, tokens[k], metric) \in ParseStates
      BY <2>1, TokenParsed
  <2> QED
      BY <2>1, <2>2
<1> IsFold(n, ParseStates, st, step)
    BY <1>1 DEF IsFold
<1>2. parse_events_str(st, tokens, metric) = [I[DOMAIN tokens] EXCEPT !.size = 0]
    BY DEF parse_events_str, FoldLeft, MapThenFoldSet
<1>3. \E iter : Is(iter)
  <2>1. PICK iter \in [SUBSET (1 .. n) -> ParseStates] : Recursion(iter, n, ParseStates, st, step)
    <3> HIDE DEF n, step
    <3> QED
        BY FoldExists
  <2>3. ASSUME NEW s \in SUBSET (1 .. n), s # {}
        PROVE  FoldedTo(iter, s, st, step) = ParseToken(iter[s \ {Max(s)}], tokens[Max(s)], metric)
    <3>1. Max(s) \in 1 .. n /\ s \ {Max(s)} \in SUBSET (1 .. n)
        BY <1>1, <2>3, GreatestOfSome
    <3>2. iter[s \ {Max(s)}] \in ParseStates
        BY <3>1
    <3> QED
        BY <2>3, <3>1, <3>2 DEF FoldedTo
  <2>4. \A s \in SUBSET (1 .. n) : iter[s] = IF s = {} THEN st ELSE LET x == Max(s) IN ParseToken(iter[s \ {x}], tokens[x], metric)
    <3>1. \A s \in SUBSET (1 .. n) : s # {} => iter[s \ {Max(s)}] \in ParseStates
        BY <1>1, GreatestOfSome
    <3> QED
        BY <2>1, <2>3, <3>1 DEF Recursion, FoldedTo
  <2> HIDE DEF n
  <2> QED
      BY <1>1, <2>1, <2>4
<1>4. Is(I)
    BY <1>3
<1>5. Recursion(I, n, ParseStates, st, step)
  <2>2. \A s \in SUBSET (1 .. n) : s # {} => I[s] = ParseToken(I[s \ {Max(s)}], tokens[Max(s)], metric)
    <3> HIDE DEF I, n
    <3> QED
        BY <1>1, <1>4
  <2>0. I[{}] = st
    <3> HIDE DEF I, n
    <3> QED
        BY <1>1, <1>4
  <2> HIDE DEF I
  <2>3. ASSUME NEW s \in SUBSET (1 .. n), s # {}, I[s \ {Max(s)}] \in ParseStates
        PROVE  I[s] = FoldedTo(I, s, st, step)
    <3>1. Max(s) \in 1 .. n
        BY <1>1, <2>3, GreatestOfSome
    <3> QED
        BY <2>2, <2>3, <3>1 DEF FoldedTo
  <2> QED
      BY <2>0, <2>3 DEF Recursion, FoldedTo
<1>6. PICK f \in [0 .. n -> ParseStates] : Folds(f, n, st, step) /\ f[n] = I[1 .. n]
  <2> HIDE DEF n, step, I
  <2> QED
      BY <1>5, FoldRuns
<1>7. n \in 0 .. n
  <2> HIDE DEF n
  <2> QED
      BY <1>1
<1>8. I[DOMAIN tokens] \in ParseStates
  <2> HIDE DEF n, step, I
  <2> QED
      BY <1>1, <1>6, <1>7
<1> HIDE DEF I
<1>9. [I[DOMAIN tokens] EXCEPT !.size = 0] \in ParseStates
    BY <1>8 DEF ParseStates
<1> QED
    BY <1>2, <1>9

\* What parsing begins with, and whatever names are known already.
LEMMA EmptyLists ==
    ASSUME NEW extra \in Seq(Extras)
    PROVE  [NoEvents EXCEPT !.extra = extra] \in ParseStates
<1>1. \A S : <<>> \in Seq(S)
    OBVIOUS
<1>2. [c \in Classes |-> <<>>] \in [Classes -> Seq(NotedEvents)]
    BY <1>1
<1>3. [c \in Classes |-> <<>>] \in [Classes -> Seq([hdr : BOOLEAN, n : NotedEvents])]
    BY <1>1
<1>4. \A d \in Classes : [c \in Classes |-> <<>>][d] \in Seq(Items(gpc_nums[d]))
    BY <1>1
<1> DEFINE none == [c \in Classes |-> <<>>]
<1>5. [NoEvents EXCEPT !.extra = extra] =
        [events |-> none, groups |-> none, extra |-> extra, size |-> 0, outcome |-> "parsed"]
    BY DEF NoEvents
<1> HIDE DEF none
<1>6. /\ none \in [Classes -> Seq(NotedEvents)] /\ none \in [Classes -> Seq([hdr : BOOLEAN, n : NotedEvents])]
      /\ \A d \in Classes : none[d] \in Seq(Items(gpc_nums[d]))
    BY <1>2, <1>3, <1>4 DEF none
<1>7. none \in {groups \in [Classes -> Seq([hdr : BOOLEAN, n : NotedEvents])] :
                  \A d \in Classes : groups[d] \in Seq(Items(gpc_nums[d]))}
    BY <1>6
<1>8. [events |-> none, groups |-> none, extra |-> extra, size |-> 0, outcome |-> "parsed"] \in ParseStates
    BY <1>6, <1>7 DEF ParseStates
<1> QED
    BY <1>5, <1>8

\* The lists of a metric are appended to those of the events.
LEMMA ListsJoined ==
    ASSUME NEW st \in ParseStates, NEW desc \in ParseStates
    PROVE  [st EXCEPT !.events = [c \in Classes |-> @[c] \o desc.events[c]],
                      !.groups = [c \in Classes |-> @[c] \o desc.groups[c]]] \in ParseStates
<1>1. \A S : \A a, b \in Seq(S) : a \o b \in Seq(S)
    OBVIOUS
<1> DEFINE events == [c \in Classes |-> st.events[c] \o desc.events[c]]
           groups == [c \in Classes |-> st.groups[c] \o desc.groups[c]]
<1>2. events \in [Classes -> Seq(NotedEvents)]
  <2>1. \A c \in Classes : st.events[c] \in Seq(NotedEvents) /\ desc.events[c] \in Seq(NotedEvents)
      BY DEF ParseStates
  <2>2. \A c \in Classes : st.events[c] \o desc.events[c] \in Seq(NotedEvents)
      BY <1>1, <2>1
  <2> QED
      BY <2>2
<1>3. groups \in [Classes -> Seq([hdr : BOOLEAN, n : NotedEvents])]
  <2> DEFINE S == [hdr : BOOLEAN, n : NotedEvents]
  <2>1. \A c \in Classes : st.groups[c] \in Seq(S) /\ desc.groups[c] \in Seq(S)
      BY DEF ParseStates
  <2> HIDE DEF S
  <2>2. \A c \in Classes : st.groups[c] \o desc.groups[c] \in Seq(S)
      BY <1>1, <2>1
  <2>3. groups \in [Classes -> Seq(S)]
      BY <2>2
  <2> QED
      BY <2>3 DEF S
<1>4. \A d \in Classes : groups[d] \in Seq(Items(gpc_nums[d]))
  <2>1. \A d \in Classes : st.groups[d] \in Seq(Items(gpc_nums[d])) /\ desc.groups[d] \in Seq(Items(gpc_nums[d]))
      BY DEF ParseStates
  <2>2. \A d \in Classes : groups[d] = st.groups[d] \o desc.groups[d]
      OBVIOUS
  <2> HIDE DEF groups
  <2> QED
      BY <1>1, <2>1, <2>2
<1> HIDE DEF events, groups
<1>5. [st EXCEPT !.events = events, !.groups = groups] \in ParseStates
    BY <1>2, <1>3, <1>4 DEF ParseStates
<1> QED
    BY <1>5 DEF events, groups

\* With no groups the events are asked for as they come.
LEMMA NoGroupsLaid ==
    ASSUME NEW st, NEW c, st.groups[c] = <<>>, st.events[c] \in Seq(NotedEvents)
    PROVE  set_event_padding(st, c) = Normal(st.events[c])
<1> DEFINE items  == st.groups[c]
           groups == GroupsOf(items)
<1>1. groups = <<>>
  <2>1. DOMAIN items = {}
      OBVIOUS
  <2>2. GroupHeads(items) = {}
      BY <2>1 DEF GroupHeads, Heads
  <2>3. Cardinality(GroupHeads(items)) = 0
      BY <2>2, FS_EmptySet
  <2>4. groups = [k \in 1 .. 0 |-> GroupAt(items, k)]
      BY <2>3 DEF GroupsOf
  <2> HIDE DEF groups
  <2>5. groups \in Seq({}) /\ Len(groups) = 0
      BY <2>4
  <2> QED
      BY <2>5
<1>2. <<>> \in Seq(Seq(NotedEvents)) /\ Len(<<>>) = 0
    OBVIOUS
<1>3. groups \in Seq(Seq(NotedEvents)) /\ Len(groups) = 0
    BY <1>1, <1>2
<1>4. PICK f \in [0 .. Len(groups) -> LaidStates] :
          LET all == f[Len(groups)].slots \o Normal(f[Len(groups)].rest)
          IN /\ f[0] = [slots |-> <<>>, rest |-> st.events[c]]
             /\ \A k \in 1 .. Len(groups) : f[k] = LayGroup(f[k - 1], groups[k], k - 1, gpc_nums[c])
             /\ set_event_padding(st, c) =
                  IF st.groups[c] = <<>> THEN all ELSE padding_ioctl_events([slots |-> all, rest |-> <<>>], gpc_nums[c]).slots
  <2>1. \A laid \in LaidStates, k \in 1 .. Len(groups) : LayGroup(laid, groups[k], k - 1, gpc_nums[c]) \in LaidStates
    <3> HIDE DEF groups
    <3> QED
        BY <1>3
  <2>2. groups \in Seq(Seq(NotedEvents)) /\ st.events[c] \in Seq(NotedEvents)
      BY <1>3
  <2> QED
      BY ONLY <2>1, <2>2, LayRuns, Zenon
<1> HIDE DEF groups
<1>5. set_event_padding(st, c) = <<>> \o Normal(st.events[c])
  <2>1. f[Len(groups)] = [slots |-> <<>>, rest |-> st.events[c]]
      BY <1>3, <1>4
  <2>2. set_event_padding(st, c) = f[Len(groups)].slots \o Normal(f[Len(groups)].rest)
      BY <1>4
  <2> QED
      BY <2>1, <2>2
<1>6. Normal(st.events[c]) \in Seq(Slots)
    BY NormalIs
<1> QED
    BY <1>5, <1>6

\* For every class that has counters, however many, and whatever events, groups and
\* metrics were parsed, if the walk of padding.cpp finds the headers where they are:
\* the list the driver is given (set_event_padding) is one of whole windows, in which
\* every group is held by one window and by nothing else, and every other event of the
\* class stands once, in the order it was asked for; the rest is padding. With no
\* groups it is the events as they came.
THEOREM PaddingLaysOut ==
    ASSUME NEW st \in ParseStates, NEW c \in Classes, gpc_nums[c] > 0,
           WellHeaded(st.groups[c]), ~ReadsBeyond(st.groups[c])
    PROVE  IF st.groups[c] = <<>> THEN set_event_padding(st, c) = Normal(st.events[c])
           ELSE IsLaidOut(set_event_padding(st, c), GroupsOf(st.groups[c]), st.events[c], gpc_nums[c])
<1>1. st.events[c] \in Seq(NotedEvents) /\ st.groups[c] \in Seq(Items(gpc_nums[c]))
    BY DEF ParseStates
<1>2. CASE st.groups[c] = <<>>
    BY <1>1, <1>2, NoGroupsLaid
<1>3. CASE st.groups[c] # <<>>
    BY <1>1, <1>3, GroupsOfListLaid
<1> QED
    BY <1>2, <1>3
=============================================================================
