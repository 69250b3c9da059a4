----------------------------- MODULE Multiplex -----------------------------
(***************************************************************************)
(* Counting more events than a core has counters (dpc.c, multiplex_dpc):   *)
(* at every tick of the timer the counters in use are credited to the      *)
(* events of the current window and programmed for the next one.  Which    *)
(* window is current is not stored, it is computed from timer_round, so    *)
(* what the PMU is programmed for and what the driver believes it is       *)
(* programmed for can come apart.                                          *)
(*                                                                         *)
(* One core, seen from its ticks; events are numbered as they are in       *)
(* core->events after the fixed counter, and every counter counts something*)
(* between two ticks.  A value is the set of events whose counts it holds. *)
(***************************************************************************)
EXTENDS Integers

CONSTANTS numFreeGPC,   \* counters the driver has leased
          MaxEvents,    \* MAX_MANAGED_CORE_EVENTS - numFPC
          Timeline,     \* is a measurement repeated (request.do_timeline)?
          MaxRound      \* bound on the ticks of one measurement

ASSUME numFreeGPCAssumption == numFreeGPC \in Nat \ {0}
ASSUME MaxEventsAssumption == MaxEvents \in Nat /\ numFreeGPC <= MaxEvents
ASSUME TimelineAssumption == Timeline \in BOOLEAN
ASSUME MaxRoundAssumption == MaxRound \in Nat

Events == 0 .. (MaxEvents - 1)
GPCs == 0 .. (numFreeGPC - 1)

\* A counter that still counts one of default_events.
Default == -1

VARIABLES
  phase,        \* "idle", "ready", "reset", "counting", "read"
  numEvents,    \* core->events_num - numFPC
  programmed,   \* the event in the type register of each counter
  timer_round,  \* core->timer_round
  scheduled,    \* events[].scheduled
  value         \* events[].value

multiplexVars == <<phase, numEvents, programmed, timer_round, scheduled, value>>

MultiplexTypes ==
  /\ phase \in {"idle", "ready", "reset", "counting", "read"}
  /\ numEvents \in 1 .. MaxEvents
  /\ programmed \in [GPCs -> Events \cup {Default}]
  /\ timer_round \in Nat
  /\ scheduled \in [Events -> Nat]
  /\ value \in [Events -> SUBSET (Events \cup {Default})]

Assigned == 0 .. (numEvents - 1)

Multiplexing == numEvents > numFreeGPC

\* Mutant: the window moves on by one event a round instead of numFreeGPC.
WindowByOne(round, i) == ((round % numEvents) + i) % numEvents

\* The event the i-th counter belongs to in a round.
Window(round, i) == (((numFreeGPC * round) % numEvents) + i) % numEvents

\* The counter an event is counted on in a round, if it is.
CountedBy(round, e, i) == IF Multiplexing THEN Window(round, i) = e ELSE i = e

MultiplexInit ==
  /\ phase = "idle"
  /\ numEvents = numFreeGPC
  /\ programmed = [i \in GPCs |-> Default]
  /\ timer_round = 0
  /\ scheduled = [e \in Events |-> 0]
  /\ value = [e \in Events |-> {}]

\* ASSIGN_EVENTS with n events: the first of them go into the counters, as many
\* as there are; timer_round is left as it was.
AssignEvents(n) ==
  /\ phase = "idle"
  /\ phase' = "ready"
  /\ numEvents' = n
  /\ programmed' = [i \in GPCs |-> IF i < n THEN i ELSE programmed[i]]
  /\ scheduled' = [e \in Events |-> 0]
  /\ value' = [e \in Events |-> {}]
  /\ UNCHANGED timer_round

\* Mutant: RESET leaves the round where it was.
ResetKeepsRound ==
  /\ phase = "ready" \/ (phase = "read" /\ Timeline)
  /\ phase' = "reset"
  /\ scheduled' = [e \in Events |-> IF e \in Assigned THEN 0 ELSE scheduled[e]]
  /\ value' = [e \in Events |-> IF e \in Assigned THEN {} ELSE value[e]]
  /\ UNCHANGED <<numEvents, programmed, timer_round>>

\* RESET: counts and bookkeeping, not what the counters are programmed for.
Reset ==
  /\ phase = "ready" \/ (phase = "read" /\ Timeline)
  /\ phase' = "reset"
  /\ timer_round' = 0
  /\ scheduled' = [e \in Events |-> IF e \in Assigned THEN 0 ELSE scheduled[e]]
  /\ value' = [e \in Events |-> IF e \in Assigned THEN {} ELSE value[e]]
  /\ UNCHANGED <<numEvents, programmed>>

Start == phase = "reset" /\ phase' = "counting"
         /\ UNCHANGED <<numEvents, programmed, timer_round, scheduled, value>>

\* Every event counted in this round gets what its counter has counted.
Credit ==
  /\ value' = [e \in Events |->
                 value[e] \cup {programmed[i] : i \in {j \in GPCs : e \in Assigned /\ CountedBy(timer_round, e, j)}}]
  /\ scheduled' = [e \in Events |->
                 IF e \in Assigned /\ \E i \in GPCs : CountedBy(timer_round, e, i)
                   THEN scheduled[e] + 1 ELSE scheduled[e]]

\* Mutant: the counters are programmed for the round that has just ended.
MultiplexTickBehind ==
  /\ phase = "counting" /\ Multiplexing /\ timer_round < MaxRound
  /\ Credit
  /\ timer_round' = timer_round + 1
  /\ programmed' = [i \in GPCs |-> Window(timer_round, i)]
  /\ UNCHANGED <<phase, numEvents>>

\* multiplex_dpc: credit the window, programme the next one.
MultiplexTick ==
  /\ phase = "counting" /\ Multiplexing /\ timer_round < MaxRound
  /\ Credit
  /\ timer_round' = timer_round + 1
  /\ programmed' = [i \in GPCs |-> Window(timer_round + 1, i)]
  /\ UNCHANGED <<phase, numEvents>>

\* overflow_dpc: each event has its own counter.
OverflowTick ==
  /\ phase = "counting" /\ ~Multiplexing /\ timer_round < MaxRound
  /\ Credit
  /\ timer_round' = timer_round + 1
  /\ UNCHANGED <<phase, numEvents, programmed>>

\* STOP: what was counted since the last tick is never credited.
Stop == phase = "counting" /\ phase' = "read"
        /\ UNCHANGED <<numEvents, programmed, timer_round, scheduled, value>>

\* The client leaves; get_pmu_resource installs the default events for the next
\* one, and leaves what was counted for the old ones where it is.
NextClient ==
  /\ phase # "idle"
  /\ phase' = "idle"
  /\ numEvents' = numFreeGPC
  /\ programmed' = [i \in GPCs |-> Default]
  /\ timer_round' = 0
  /\ UNCHANGED <<scheduled, value>>

\* Another client forces the lock: nothing in the driver changes.
TakeOver == phase # "idle" /\ phase' = "idle"
            /\ UNCHANGED <<numEvents, programmed, timer_round, scheduled, value>>

MultiplexNext ==
  \/ \E n \in 1 .. MaxEvents : AssignEvents(n)
  \/ Reset
  \/ Start
  \/ MultiplexTick
  \/ OverflowTick
  \/ Stop
  \/ NextClient
  \/ TakeOver

MultiplexSpec == MultiplexInit /\ [][MultiplexNext]_multiplexVars

-----------------------------------------------------------------------------
(* Properties.                                                             *)

Measured == phase \in {"reset", "counting", "read"}

\* Every event gets its share of the rounds: numFreeGPC * timer_round counter
\* turns spread over numEvents events, to within one turn.  So no event starves,
\* scheduled/round is the fraction the scaled value assumes, and an event has
\* been scheduled at all once the window has gone round.
FairShare ==
  Measured /\ Multiplexing =>
    \A e \in Assigned :
      /\ numEvents * scheduled[e] < numFreeGPC * timer_round + numEvents
      /\ numEvents * scheduled[e] > numFreeGPC * timer_round - numEvents

\* When events come in whole groups of numFreeGPC (padding.cpp sees to that),
\* the events of a group are always counted in the same rounds.
GroupsCountTogether ==
  Measured /\ Multiplexing /\ (numEvents % numFreeGPC) = 0 =>
    \A d, e \in Assigned : d \div numFreeGPC = e \div numFreeGPC => scheduled[d] = scheduled[e]

\* What is reported for an event was counted on that event.
TrueCounts == \A e \in Events : value[e] \subseteq {e}
=============================================================================
