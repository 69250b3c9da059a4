------------------------------- MODULE Uncore -------------------------------
(***************************************************************************)
(* Counting outside the cores: the DSU, whose counters the cores of a      *)
(* cluster share, and the memory controllers (DMC), whose counters all     *)
(* cores share.  One client after another programs them, counts, reads and *)
(* reports (wperf/pmu_device.cpp); the driver accumulates them on the      *)
(* timers of the cores the client counts on (dpc.c, dsu.c, dmc.c).         *)
(*                                                                         *)
(* Every event happens once per unit of time, so a counter that is on and  *)
(* running shows how much time it saw, and the events a number was counted *)
(* on are kept with it.  The DSU's cycle counter and scheduled are left    *)
(* out (they follow the event counters, and Multiplex), and so is memory   *)
(* that cannot be allocated or mapped.                                     *)
(*                                                                         *)
(* An IOCTL is one step: what happens between its work item and the rest   *)
(* of it is the matter of CoreCounting.                                    *)
(***************************************************************************)
EXTENDS Integers, Sequences, FiniteSets, SequencesExt, FiniteSetsExt, Functions

CONSTANTS numCores, dsu_sizeCluster, dsu_numGPC, numFreeGPC,
          dmc_num,              \* memory controllers
          DMC_CLKDIV2_NUMGPC, DMC_CLK_NUMGPC, DMC_CLKDIV2_EVT_NUM,
          Requests,             \* what clients may ask for
          MaxUnits,             \* bound on the time of a measurement and in a counter
          MaxRounds,            \* bound on the ticks of a core between RESETs
          MaxClients            \* bound on the clients, one after another

ASSUME SizesAssumption ==
  /\ {numCores, dsu_sizeCluster, dsu_numGPC, numFreeGPC, dmc_num} \subseteq Nat \ {0}
  /\ {DMC_CLKDIV2_NUMGPC, DMC_CLK_NUMGPC, DMC_CLKDIV2_EVT_NUM, MaxUnits, MaxRounds, MaxClients} \subseteq Nat
  /\ (numCores % dsu_sizeCluster) = 0
ASSUME RequestsAssumption ==
  /\ Requests # {}
  /\ \A r \in Requests : /\ r.cores \in Seq(0 .. (numCores - 1)) /\ r.cores # <<>>
                         /\ \A types \in {r.core, r.dsu, r.clk, r.clkdiv2} : types \in Seq(ToSet(types))
                         /\ \A i, j \in DOMAIN r.cores : i < j => r.cores[i] < r.cores[j]
                         /\ Len(r.clkdiv2) <= DMC_CLKDIV2_NUMGPC /\ Len(r.clk) <= DMC_CLK_NUMGPC

Cores    == 0 .. (numCores - 1)
Cluster(c) == c \div dsu_sizeCluster
Clusters == {Cluster(c) : c \in Cores}
DsuGPCs  == 0 .. (dsu_numGPC - 1)
Channels == 0 .. (dmc_num - 1)
DmcGPCs  == 0 .. (DMC_CLKDIV2_NUMGPC + DMC_CLK_NUMGPC - 1)

VARIABLES
  status,      \* current_status.status
  phase,       \* where the client that holds the lock is in its run
  request,     \* what it asks for
  clients,     \* how many clients there have been
  assigned,    \* how many of its cores it has assigned events to
  coreEvents,  \* core->events after the fixed counter: type and counter
  dsuEvents,   \* core->dsu_events after the fixed counter, by event
  value,       \* their .value, with the events it was counted on
  prof_dsu, prof_dmc,      \* core->prof_dsu, core->prof_dmc
  timer_round,             \* core->timer_round
  armed, queued,           \* the core's timer, and its DPC that waits
  exec,                    \* where the DPC is that the core is in
  dsuReg, dsuOn,           \* the DSU's counters and enable bit, by cluster
  clk, clkdiv2,            \* dmc->clk_events, dmc->clkdiv2_events
  dmcReg,                  \* the counters of each memory controller
  made,        \* history: what each counter counted since RESET
  mixed        \* history: where, since RESET, a tick took counts that this
               \* client's START did not set up, or two ticks overlapped; and
               \* the cores whose timer_round such a tick moved on

clientVars == <<status, phase, request, clients, assigned>>
assignVars == <<coreEvents, dsuEvents, clk, clkdiv2>>
timerVars  == <<prof_dsu, prof_dmc, timer_round, armed, queued, exec>>
regVars    == <<dsuReg, dsuOn, dmcReg>>
history    == <<made, mixed>>
vars == <<clientVars, assignVars, timerVars, regVars, value, history>>

Zero == [n |-> 0, of |-> {}]
Plus(a, b) == [n |-> a.n + b.n, of |-> a.of \cup b.of]
Zeros(s) == [j \in DOMAIN s |-> Zero]

\* Types a counter may have: an event of some request, one of default_events,
\* or the zeros an assignment leaves behind the events it has.
Default == "default"
NoEvent == "zero"
InvalidCounter == -1
Types == {Default, NoEvent} \cup
         UNION {ToSet(r.core) \cup ToSet(r.dsu) \cup ToSet(r.clk) \cup ToSet(r.clkdiv2) : r \in Requests}

Counts == [n : Nat, of : SUBSET (Types \cup {"garbage"})]
Reg == [type : Types, on : BOOLEAN, count : Counts]
DmcEvents == Seq([type : Types, value : Counts])
Phases == {"free", "releasing", "locked", "assigning", "ready", "reset", "counting", "stopped", "read"}

TypeOK == /\ status \in {"STS_IDLE", "STS_BUSY"}
          /\ phase \in Phases
          /\ request \in Requests
          /\ clients \in 0 .. MaxClients /\ assigned \in 0 .. Len(request.cores)
          /\ coreEvents \in [Cores -> Seq([type : Types, counter : Int])]
          /\ dsuEvents \in [Cores -> Seq(Types)]
          /\ value \in [Cores -> Seq(Counts)]
          /\ \A c \in Cores : Len(value[c]) = Len(dsuEvents[c])
          /\ prof_dsu \in [Cores -> {"DISABLED", "NORMAL", "MULTIPLEX"}]
          /\ timer_round \in [Cores -> Nat]
          /\ \A flags \in {prof_dmc, armed, queued} : flags \in [Cores -> BOOLEAN]
          /\ exec \in [Cores -> {"none", "dsu", "dmc", "dmc_read"}]
          /\ dsuReg \in [Clusters -> [DsuGPCs -> Reg]] /\ dsuOn \in [Clusters -> BOOLEAN]
          /\ clk \in [Channels -> DmcEvents] /\ clkdiv2 \in [Channels -> DmcEvents]
          /\ dmcReg \in [Channels -> [DmcGPCs -> Reg]]
          /\ made \in [dsu : [Clusters -> [DsuGPCs -> Nat]], dmc : [Channels -> [DmcGPCs -> Nat]]]
          /\ mixed \in [dsu : SUBSET Clusters, rounds : SUBSET Cores, dmc : BOOLEAN]

Off == [type |-> NoEvent, on |-> FALSE, count |-> Zero]

Init == /\ status = "STS_IDLE" /\ phase = "free" /\ clients = 0 /\ assigned = 0
        /\ request = CHOOSE r \in Requests : TRUE      \* nobody's
        /\ coreEvents = [c \in Cores |-> <<>>]
        /\ dsuEvents = [c \in Cores |-> <<>>] /\ value = dsuEvents
        /\ prof_dsu = [c \in Cores |-> "DISABLED"] /\ timer_round = [c \in Cores |-> 0]
        /\ prof_dmc = [c \in Cores |-> FALSE]
        /\ armed = prof_dmc /\ queued = prof_dmc /\ exec = [c \in Cores |-> "none"]
        /\ dsuReg = [k \in Clusters |-> [i \in DsuGPCs |-> Off]] /\ dsuOn = [k \in Clusters |-> FALSE]
        /\ clk = [ch \in Channels |-> <<>>] /\ clkdiv2 = clk
        /\ dmcReg = [ch \in Channels |-> [i \in DmcGPCs |-> Off]]
        /\ made = [dsu |-> [k \in Clusters |-> [i \in DsuGPCs |-> 0]],
                   dmc |-> [ch \in Channels |-> [i \in DmcGPCs |-> 0]]]
        /\ mixed = [dsu |-> {}, rounds |-> {}, dmc |-> FALSE]

Mine     == ToSet(request.cores)
MyClusters == {Cluster(c) : c \in Mine}
WantsDsu == request.dsu # <<>>
WantsDmc == request.clk # <<>> \/ request.clkdiv2 # <<>>

\* Of all cores the heads of the clusters tick for the DSU, of some all do;
\* the last core ticks for the memory controllers.
ProfDsu(c) == IF ~WantsDsu \/ (Mine = Cores /\ (c % dsu_sizeCluster) # 0) THEN "DISABLED"
              ELSE IF Len(dsuEvents[c]) > dsu_numGPC THEN "MULTIPLEX" ELSE "NORMAL"
ProfDmc(c) == WantsDmc /\ c = Max(Mine)

-----------------------------------------------------------------------------
(* Time.                                                                   *)

Counted(reg) == [reg EXCEPT !.count = Plus(@, [n |-> 1, of |-> {reg.type}])]

\* A unit of time, in which every event happens once.
Elapse ==
  LET dsu(k, i)  == dsuOn[k] /\ dsuReg[k][i].on
      dmc(ch, i) == dmcReg[ch][i].on
      One(b)     == IF b THEN 1 ELSE 0
  IN /\ \E k \in Clusters, i \in DsuGPCs : dsu(k, i)
        \/ \E ch \in Channels, j \in DmcGPCs : dmc(ch, j)
     /\ \A k \in Clusters, i \in DsuGPCs : dsu(k, i) => Max({made.dsu[k][i], dsuReg[k][i].count.n}) < MaxUnits
     /\ \A ch \in Channels, i \in DmcGPCs : dmc(ch, i) => Max({made.dmc[ch][i], dmcReg[ch][i].count.n}) < MaxUnits
     /\ dsuReg' = [k \in Clusters |-> [i \in DsuGPCs |->
                     IF dsu(k, i) THEN Counted(dsuReg[k][i]) ELSE dsuReg[k][i]]]
     /\ dmcReg' = [ch \in Channels |-> [i \in DmcGPCs |->
                     IF dmc(ch, i) THEN Counted(dmcReg[ch][i]) ELSE dmcReg[ch][i]]]
     /\ made' = [dsu |-> [k \in Clusters |-> [i \in DsuGPCs |-> made.dsu[k][i] + One(dsu(k, i))]],
                 dmc |-> [ch \in Channels |-> [i \in DmcGPCs |-> made.dmc[ch][i] + One(dmc(ch, i))]]]
     /\ UNCHANGED <<clientVars, assignVars, timerVars, dsuOn, value, mixed>>

TimerFires(c) == /\ armed[c] /\ ~queued[c] /\ timer_round[c] < MaxRounds
                 /\ queued' = [queued EXCEPT ![c] = TRUE]
                 /\ UNCHANGED <<clientVars, assignVars, prof_dsu, prof_dmc, timer_round, armed, exec,
                                regVars, value, history>>

-----------------------------------------------------------------------------
(* The tick of a core, overflow_dpc or multiplex_dpc: the cluster first,   *)
(* then the memory controllers.                                            *)

DSUCounterReset(regs) == [i \in DsuGPCs |-> [regs[i] EXCEPT !.count = Zero]]

\* DSUEventGetCounting; an event beyond the counters has INVALID_COUNTER_IDX.
DSUEventGetCounting(c, j) ==
  IF j <= dsu_numGPC THEN dsuReg[Cluster(c)][j - 1].count ELSE [n |-> 0, of |-> {"garbage"}]

\* The event on a counter in a round; events are counted from 1, counters from 0.
Window(c, round, i) == 1 + (((dsu_numGPC * round + i) % Len(dsuEvents[c])))

\* Mutant: multiplex_dpc gives the counts to the events of the next round.
CreditedNext(c) ==
  IF prof_dsu[c] = "NORMAL"
    THEN [j \in DOMAIN value[c] |-> Plus(value[c][j], DSUEventGetCounting(c, j))]
    ELSE LET Turn(j) == {i \in DsuGPCs : Window(c, timer_round[c] + 1, i) = j}
             Seen(i) == dsuReg[Cluster(c)][i].count
         IN [j \in DOMAIN value[c] |->
               Plus(value[c][j], [n  |-> SumFunction([i \in Turn(j) |-> Seen(i).n]),
                                  of |-> UNION {Seen(i).of : i \in Turn(j)}])]

\* What the values of a core's events become: DSUUpdateDSUCounting, or the
\* share multiplex_dpc gives the events of the round.
Credited(c) ==
  IF prof_dsu[c] = "NORMAL"
    THEN [j \in DOMAIN value[c] |-> Plus(value[c][j], DSUEventGetCounting(c, j))]
    ELSE LET Turn(j) == {i \in DsuGPCs : Window(c, timer_round[c], i) = j}
             Seen(i) == dsuReg[Cluster(c)][i].count
         IN [j \in DOMAIN value[c] |->
               Plus(value[c][j], [n  |-> SumFunction([i \in Turn(j) |-> Seen(i).n]),
                                  of |-> UNION {Seen(i).of : i \in Turn(j)}])]

\* Mutant: the counters keep what has been added to the values.
RestartedUnreset(c) ==
  IF prof_dsu[c] = "NORMAL" THEN dsuReg[Cluster(c)]
  ELSE [i \in DsuGPCs |-> [type |-> dsuEvents[c][Window(c, timer_round[c] + 1, i)],
                            on |-> TRUE, count |-> Zero]]

\* The counters a tick leaves: reset, and for the next round's events.
Restarted(c) ==
  IF prof_dsu[c] = "NORMAL" THEN DSUCounterReset(dsuReg[Cluster(c)])
  ELSE [i \in DsuGPCs |-> [type |-> dsuEvents[c][Window(c, timer_round[c] + 1, i)],
                            on |-> TRUE, count |-> Zero]]

\* The driver is idle: the DPC returns at once.
TickFindsIdle(c) ==
  /\ queued[c] /\ exec[c] = "none" /\ status = "STS_IDLE"
  /\ queued' = [queued EXCEPT ![c] = FALSE]
  /\ UNCHANGED <<clientVars, assignVars, prof_dsu, prof_dmc, timer_round, armed, exec,
                 regVars, value, history>>

\* The DPC comes to its next part, or its end.
Continues(c, next) ==
  /\ exec' = [exec EXCEPT ![c] = next]
  /\ timer_round' = IF next = "none" THEN [timer_round EXCEPT ![c] = @ + 1] ELSE timer_round

\* It stops the cluster's counters and adds them to the values ...
TickCredits(c) ==
  /\ queued[c] /\ exec[c] = "none" /\ status = "STS_BUSY"
  /\ queued' = [queued EXCEPT ![c] = FALSE]
  /\ IF prof_dsu[c] = "DISABLED"
       THEN /\ Continues(c, IF prof_dmc[c] THEN "dmc" ELSE "none")
            /\ mixed' = IF c \in Mine /\ prof_dsu[c] # ProfDsu(c)
                         THEN [mixed EXCEPT !.rounds = @ \cup {c}] ELSE mixed
            /\ UNCHANGED <<value, dsuOn>>
       ELSE /\ Continues(c, "dsu")
            /\ value' = [value EXCEPT ![c] = Credited(c)]
            /\ dsuOn' = [dsuOn EXCEPT ![Cluster(c)] = FALSE]
            /\ mixed' = IF \/ c \notin Mine \/ prof_dsu[c] # ProfDsu(c)
                          \/ \E d \in Cores : exec[d] = "dsu" /\ Cluster(d) = Cluster(c)
                         THEN [mixed EXCEPT !.dsu = @ \cup {Cluster(c)}] ELSE mixed
  /\ UNCHANGED <<clientVars, assignVars, prof_dsu, prof_dmc, armed, dsuReg, dmcReg, made>>

\* Mutant: multiplexing does not start the counters again.
TickRestartsStopped(c) ==
  /\ exec[c] = "dsu"
  /\ Continues(c, IF prof_dmc[c] THEN "dmc" ELSE "none")
  /\ dsuReg' = [dsuReg EXCEPT ![Cluster(c)] = Restarted(c)]
  /\ dsuOn' = [dsuOn EXCEPT ![Cluster(c)] = prof_dsu[c] = "NORMAL"]
  /\ UNCHANGED <<clientVars, assignVars, prof_dsu, prof_dmc, armed, queued, dmcReg, value, history>>

\* ... resets and starts them ...
TickRestarts(c) ==
  /\ exec[c] = "dsu"
  /\ Continues(c, IF prof_dmc[c] THEN "dmc" ELSE "none")
  /\ dsuReg' = [dsuReg EXCEPT ![Cluster(c)] = Restarted(c)]
  /\ dsuOn' = [dsuOn EXCEPT ![Cluster(c)] = TRUE]
  /\ UNCHANGED <<clientVars, assignVars, prof_dsu, prof_dmc, armed, queued, dmcReg, value, history>>

\* DmcChannelIterator: f on the counters of every event assigned.
DmcCounters(ch) == {i \in DmcGPCs : \/ i < Len(clkdiv2[ch])
                                   \/ i - DMC_CLKDIV2_NUMGPC \in 0 .. (Len(clk[ch]) - 1)}
DmcChannelIterator(f(_)) ==
  dmcReg' = [ch \in Channels |-> [i \in DmcGPCs |->
              IF i \in DmcCounters(ch) THEN f(dmcReg[ch][i]) ELSE dmcReg[ch][i]]]

DmcCounterStart(reg) == [reg EXCEPT !.on = TRUE]
DmcCounterStop(reg)  == [reg EXCEPT !.on = FALSE]
DmcCounterReset(reg) == [reg EXCEPT !.count = Zero]
DmcCounterRead(ch, i) ==
  IF i \in DmcGPCs THEN dmcReg[ch][i].count ELSE [n |-> 0, of |-> {"garbage"}]

\* UpdateDmcCounting: it stops the controllers' counters and adds them.  The
\* counters of clk events are looked for behind the events clkdiv2 knows, not
\* behind the counters it has.
TickDmcCredits(c) ==
  LET Credit(ch, i, e) == [e EXCEPT !.value = Plus(@, DmcCounterRead(ch, i))]
  IN /\ exec[c] = "dmc"
     /\ Continues(c, "dmc_read")
     /\ clk' = [ch \in Channels |-> [j \in DOMAIN clk[ch] |->
                  Credit(ch, DMC_CLKDIV2_EVT_NUM + j - 1, clk[ch][j])]]
     /\ clkdiv2' = [ch \in Channels |-> [j \in DOMAIN clkdiv2[ch] |-> Credit(ch, j - 1, clkdiv2[ch][j])]]
     /\ DmcChannelIterator(DmcCounterStop)
     /\ mixed' = [mixed EXCEPT !.dmc = @ \/ \E d \in Cores : exec[d] = "dmc_read"]
     /\ UNCHANGED <<clientVars, coreEvents, dsuEvents, prof_dsu, prof_dmc, armed, queued,
                    dsuReg, dsuOn, value, made>>

DmcRestart(reg) == DmcCounterStart(DmcCounterReset(reg))

\* ... resets and starts them.
TickDmcRestarts(c) ==
  /\ exec[c] = "dmc_read"
  /\ Continues(c, "none")
  /\ DmcChannelIterator(DmcRestart)
  /\ UNCHANGED <<clientVars, assignVars, prof_dsu, prof_dmc, armed, queued,
                 dsuReg, dsuOn, value, history>>

Tick(c) == TickCredits(c) \/ TickRestarts(c) \/ TickDmcCredits(c) \/ TickDmcRestarts(c)

-----------------------------------------------------------------------------
(* LOCK_ACQUIRE and the start of a client.  Of an idle driver it gives all *)
(* cores default_events; taking a held lock by force changes no counter.   *)

LockAcquire(r) ==
  /\ status = "STS_IDLE" /\ phase = "free"
  /\ status' = "STS_BUSY" /\ phase' = "locked" /\ request' = r /\ assigned' = 0
  /\ clients < MaxClients /\ clients' = clients + 1
  /\ coreEvents' = [c \in Cores |-> [j \in 1 .. numFreeGPC |-> [type |-> Default, counter |-> j - 1]]]
  /\ timer_round' = [c \in Cores |-> 0]
  /\ UNCHANGED <<dsuEvents, clk, clkdiv2, prof_dsu, prof_dmc, armed, queued, exec, regVars, value, history>>

\* The client that held it has died or will be refused whatever it asks.
TakeOver(r) ==
  /\ status = "STS_BUSY"
  /\ phase' = "locked" /\ request' = r /\ assigned' = 0
  /\ clients < MaxClients /\ clients' = clients + 1
  /\ UNCHANGED <<status, assignVars, timerVars, regVars, value, history>>

\* LOCK_RELEASE gives the lock up first ...
Release ==
  /\ status = "STS_BUSY" /\ \A c \in Cores : exec[c] = "none"
  /\ status' = "STS_IDLE" /\ phase' = "releasing"
  /\ UNCHANGED <<request, clients, assigned, assignVars, timerVars, regVars, value, history>>

\* ... and then has free_pmu_resource leave no timer and no DPC.
free_pmu_resource ==
  /\ phase = "releasing" /\ phase' = "free"
  /\ armed' = [c \in Cores |-> FALSE] /\ queued' = [c \in Cores |-> FALSE]
  /\ UNCHANGED <<status, request, clients, assigned, assignVars, prof_dsu, prof_dmc, timer_round, exec,
                 regVars, value, history>>

-----------------------------------------------------------------------------
(* ASSIGN_EVENTS, core by core; a class that is not asked for is left as   *)
(* it was.                                                                 *)

evt_assign_core(c) ==
  coreEvents' = [coreEvents EXCEPT ![c] =
    IF request.core = <<>> THEN @
    ELSE [j \in DOMAIN request.core |->
            [type |-> request.core[j], counter |-> IF j <= numFreeGPC THEN j - 1 ELSE InvalidCounter]]]

evt_assign_dsu(c) ==
  IF WantsDsu THEN /\ dsuEvents' = [dsuEvents EXCEPT ![c] = request.dsu]
                   /\ value' = [value EXCEPT ![c] = Zeros(request.dsu)]
              ELSE UNCHANGED <<dsuEvents, value>>

\* The slot the work item takes for the j-th DSU event: it looks in
\* core->events, where zeros follow the events there are.
CoreSlot(events, j) == IF j \in DOMAIN events THEN events[j] ELSE [type |-> NoEvent, counter |-> 0]

DSUEventEnable(c) ==
  LET events  == coreEvents'[c]
      Slots   == IF WantsDsu THEN 1 .. Min({Len(request.dsu), numFreeGPC}) ELSE {}
      Final(i) == Max({j \in Slots : CoreSlot(events, j).counter = i})
  IN dsuReg' = [dsuReg EXCEPT ![Cluster(c)] = [i \in DsuGPCs |->
                  IF \E j \in Slots : CoreSlot(events, j).counter = i
                    THEN [@[i] EXCEPT !.type = CoreSlot(events, Final(i)).type, !.on = TRUE]
                    ELSE @[i]]]

\* Mutant: the counters of the events keep the types they had.
AssignDmcUntyped ==
  LET List(types) == [j \in DOMAIN types |-> [type |-> types[j], value |-> Zero]]
      div2Last == request.clkdiv2 # <<>>
  IN IF WantsDmc
       THEN /\ clk' = [ch \in Channels |-> IF div2Last THEN <<>> ELSE List(request.clk)]
            /\ clkdiv2' = [ch \in Channels |-> List(request.clkdiv2)]
            /\ UNCHANGED dmcReg
       ELSE UNCHANGED <<clk, clkdiv2, dmcReg>>

\* Each class empties the lists of both, and clkdiv2 comes after clk; both
\* give their counters their types.
AssignDmc ==
  LET List(types) == [j \in DOMAIN types |-> [type |-> types[j], value |-> Zero]]
      div2Last == request.clkdiv2 # <<>>
      Type(i, reg) ==
        CASE i + 1 \in DOMAIN request.clkdiv2 -> [reg EXCEPT !.type = request.clkdiv2[i + 1]]
          [] i + 1 - DMC_CLKDIV2_NUMGPC \in DOMAIN request.clk ->
               [reg EXCEPT !.type = request.clk[i + 1 - DMC_CLKDIV2_NUMGPC]]
          [] OTHER -> reg
  IN IF WantsDmc
       THEN /\ clk' = [ch \in Channels |-> IF div2Last THEN <<>> ELSE List(request.clk)]
            /\ clkdiv2' = [ch \in Channels |-> List(request.clkdiv2)]
            /\ dmcReg' = [ch \in Channels |-> [i \in DmcGPCs |-> Type(i, dmcReg[ch][i])]]
       ELSE UNCHANGED <<clk, clkdiv2, dmcReg>>

Assign ==
  /\ phase = "assigning"
  /\ LET c == request.cores[assigned + 1]
     IN /\ exec[c] = "none"
        /\ evt_assign_core(c) /\ evt_assign_dsu(c) /\ DSUEventEnable(c) /\ AssignDmc
  /\ assigned' = assigned + 1
  /\ phase' = IF assigned' = Len(request.cores) THEN "ready" ELSE "assigning"
  /\ UNCHANGED <<status, request, clients, timerVars, dsuOn, history>>

-----------------------------------------------------------------------------
(* START, STOP and RESET of the classes in flags, and READ.                *)

\* The work item runs on the client's cores: not in the middle of their DPCs.
WorkItem == \A c \in Mine : exec[c] = "none"

SetDsu(dsu, on) == dsuOn' = [k \in Clusters |-> IF dsu /\ k \in MyClusters THEN on ELSE dsuOn[k]]

Stop(dsu, dmc) ==
  /\ WorkItem
  /\ SetDsu(dsu, FALSE)
  /\ IF dmc THEN DmcChannelIterator(DmcCounterStop) ELSE UNCHANGED dmcReg
  /\ armed' = [c \in Cores |-> armed[c] /\ c \notin Mine]
  /\ UNCHANGED <<status, request, clients, assignVars, prof_dsu, prof_dmc, timer_round, queued, exec,
                 dsuReg, value, history>>

\* stop_bits, before anything is assigned: every class the machine has.
StopAll == phase = "locked" /\ phase' = "assigning" /\ assigned' = 0 /\ Stop(TRUE, TRUE)

StopMine == phase = "counting" /\ phase' = "stopped" /\ UNCHANGED assigned /\ Stop(WantsDsu, WantsDmc)

ResetDmc ==
  LET Zeroed(list) == [ch \in Channels |-> [j \in DOMAIN list[ch] |-> [list[ch][j] EXCEPT !.value = Zero]]]
  IN IF WantsDmc THEN /\ DmcChannelIterator(DmcCounterReset)
                      /\ clk' = Zeroed(clk) /\ clkdiv2' = Zeroed(clkdiv2)
                 ELSE UNCHANGED <<clk, clkdiv2, dmcReg>>

Reset ==
  /\ phase \in {"ready", "read"} /\ phase' = "reset"
  /\ WorkItem
  /\ dsuReg' = [k \in Clusters |-> IF WantsDsu /\ k \in MyClusters THEN DSUCounterReset(dsuReg[k])
                                                                 ELSE dsuReg[k]]
  /\ SetDsu(WantsDsu, FALSE)
  /\ timer_round' = [c \in Cores |-> IF c \in Mine THEN 0 ELSE timer_round[c]]
  /\ value' = [c \in Cores |-> IF c \in Mine THEN Zeros(value[c]) ELSE value[c]]
  /\ ResetDmc
  /\ made' = [dsu |-> [k \in Clusters |-> [i \in DsuGPCs |-> 0]],
              dmc |-> [ch \in Channels |-> [i \in DmcGPCs |-> 0]]]
  /\ mixed' = [dsu |-> {Cluster(c) : c \in {d \in Cores : exec[d] = "dsu"}}, rounds |-> {},
               dmc |-> \E c \in Cores : exec[c] = "dmc_read"]
  /\ UNCHANGED <<status, request, clients, assigned, coreEvents, dsuEvents, prof_dsu, prof_dmc, armed, queued,
                 exec>>

Start ==
  /\ phase = "reset" /\ phase' = "counting"
  /\ WorkItem
  /\ SetDsu(WantsDsu, TRUE)
  /\ IF WantsDmc THEN DmcChannelIterator(DmcCounterStart) ELSE UNCHANGED dmcReg
  /\ prof_dsu' = [c \in Cores |-> IF c \in Mine THEN ProfDsu(c) ELSE prof_dsu[c]]
  /\ prof_dmc' = [c \in Cores |-> IF c \in Mine THEN ProfDmc(c) ELSE prof_dmc[c]]
  /\ armed' = [c \in Cores |-> IF c \in Mine
                 THEN request.core # <<>> \/ ProfDsu(c) # "DISABLED" \/ ProfDmc(c) ELSE armed[c]]
  /\ mixed' = [mixed EXCEPT !.dmc = @ \/ \E c \in Cores : exec[c] = "dmc_read"]
  /\ UNCHANGED <<status, request, clients, assigned, assignVars, timer_round, queued, exec, dsuReg, value, made>>

\* READ hands out a core's events, whether the core is the head of its cluster
\* or not, and those of every memory controller; it touches no counter.
DSU_CTL_READ_COUNTING(c)  == value[c]
DMC_CTL_READ_COUNTING(ch) == [clk |-> clk[ch], clkdiv2 |-> clkdiv2[ch]]

\* dsu_events_read asks for core after core into the place of its cluster.
dsu_outs(k) == DSU_CTL_READ_COUNTING(Max({c \in Mine : Cluster(c) = k}))

\* dmc_events_read asks for all memory controllers at once.
dmc_outs == [ch \in Channels |-> DMC_CTL_READ_COUNTING(ch)]

Read ==
  /\ phase = "stopped" /\ phase' = "read"
  /\ UNCHANGED <<status, request, clients, assigned, assignVars, timerVars, regVars, value, history>>

Client == \/ \E r \in Requests : LockAcquire(r) \/ TakeOver(r)
          \/ StopAll \/ Assign \/ Reset \/ Start \/ StopMine \/ Read \/ Release
          \/ free_pmu_resource

Next == \/ Client \/ Elapse
        \/ \E c \in Cores : TimerFires(c) \/ TickFindsIdle(c) \/ Tick(c)

Spec == Init /\ [][Next]_vars

-----------------------------------------------------------------------------
(* Properties.                                                             *)

Measuring == phase \in {"reset", "counting", "stopped", "read"}

\* What the client's cores of a cluster have of an event.
Valued(k, j) == SumFunction([c \in {c \in Mine : Cluster(c) = k} |-> DSU_CTL_READ_COUNTING(c)[j].n])

\* What a cluster's counters have counted since RESET is in the values of the
\* client's cores or still in the counters, once, but for the time between the
\* two halves of a tick: whichever core ticks, and across late ticks, unless
\* one that another client's START set up has taken some or two overlapped.
\* This is about amounts; of which events, DsuCountsOwn tells.
DsuConserved ==
  Measuring /\ WantsDsu =>
    \A k \in MyClusters \ (mixed.dsu \cup {Cluster(c) : c \in {d \in Cores : exec[d] = "dsu"}}) :
      IF Len(request.dsu) <= dsu_numGPC
        THEN \A j \in DOMAIN request.dsu : Valued(k, j) + dsuReg[k][j - 1].count.n = made.dsu[k][j - 1]
        ELSE SumFunction([j \in DOMAIN request.dsu |-> Valued(k, j)])
               + SumFunction([i \in DsuGPCs |-> dsuReg[k][i].count.n]) = SumFunction(made.dsu[k])

\* No other core of the client's ticks for the core's cluster.
TicksAlone(c) == \A d \in Mine : Cluster(d) = Cluster(c) /\ ProfDsu(d) # "DISABLED" => d = c

\* A DSU number was counted on one event.  Without multiplexing that is the
\* event its counter is programmed with, which workitem.c:146 takes from the
\* core's events, so that it need not be the one asked for.  With multiplexing
\* it is the event asked for, for the events that the first round after RESET,
\* whose counters are programmed the same way, leaves out; unless cores share
\* the rounds of a cluster, or a tick from before START has moved them on.
DsuCountsOwn ==
  Measuring /\ WantsDsu =>
    \A c \in Mine : Cluster(c) \notin mixed.dsu =>
      \A j \in DOMAIN DSU_CTL_READ_COUNTING(c) :
        IF Len(request.dsu) <= dsu_numGPC
          THEN DSU_CTL_READ_COUNTING(c)[j].of \subseteq {dsuReg[Cluster(c)][j - 1].type}
          ELSE j > dsu_numGPC /\ TicksAlone(c) /\ c \notin mixed.rounds =>
                 DSU_CTL_READ_COUNTING(c)[j].of \subseteq {request.dsu[j]}

\* What DsuConserved says, of the clkdiv2 events of every memory controller.
\* Their values are shared by all ticks, so not even another client's takes
\* anything away, as long as two do not overlap.  Of clk events nothing is
\* promised: UpdateDmcCounting reads other counters for them (dmc.c:129), and
\* their list is empty if clkdiv2 events are assigned too (devioctl.c:1079).
Div2Conserved ==
  Measuring /\ WantsDmc /\ ~mixed.dmc /\ (\A c \in Cores : exec[c] # "dmc_read") =>
    \A ch \in Channels : \A j \in DOMAIN dmc_outs[ch].clkdiv2 :
      dmc_outs[ch].clkdiv2[j].value.n + dmcReg[ch][j - 1].count.n = made.dmc[ch][j - 1]

\* A clkdiv2 number was counted on its own event alone, also where a late tick
\* of an earlier assignment has started the counters before RESET.
Div2CountsOwn ==
  Measuring /\ WantsDmc =>
    \A ch \in Channels : \A j \in DOMAIN dmc_outs[ch].clkdiv2 :
      dmc_outs[ch].clkdiv2[j].value.of \subseteq {request.clkdiv2[j]}

\* Of a cluster it counts on with one core, the client reports all of that.
\* With more cores the last one's share is all it reports, which is nothing
\* when it counts on all cores of the machine and the heads alone tick.
DsuReported ==
  phase = "read" /\ WantsDsu /\ Len(request.dsu) <= dsu_numGPC =>
    \A k \in MyClusters \ (mixed.dsu \cup {Cluster(c) : c \in {d \in Cores : exec[d] = "dsu"}}) :
      (\A c, d \in Mine : Cluster(c) = k /\ Cluster(d) = k => c = d) =>
        \A j \in DOMAIN dsu_outs(k) : dsu_outs(k)[j].n + dsuReg[k][j - 1].count.n = made.dsu[k][j - 1]

\* No amount that the counters of a DSU or of clkdiv2 events counted is lost or
\* credited twice (dsu.c, dmc.c, dpc.c), and no number mixes the counts of two
\* events; clkdiv2 and multiplexed DSU numbers are those of the event they
\* stand for.  The parts name what each exempts; clk events are in none.
Conserved == TypeOK /\ DsuConserved /\ DsuReported /\ DsuCountsOwn /\ Div2Conserved /\ Div2CountsOwn

\* From START to STOP the DSU of every cluster the client counts on and all
\* its events on the memory controllers count, but in the middle of a tick: no
\* tick, of whatever core, leaves them stopped.
StartedCounts ==
  phase = "counting" =>
    /\ WantsDsu => \A k \in MyClusters : dsuOn[k] \/ \E c \in Cores : Cluster(c) = k /\ exec[c] = "dsu"
    /\ WantsDmc /\ (\A c \in Cores : exec[c] # "dmc_read") => \A ch \in Channels : \A i \in DmcCounters(ch) : dmcReg[ch][i].on
=============================================================================
