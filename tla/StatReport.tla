----------------------------- MODULE StatReport -----------------------------
(* What wperf makes of the counts it reads: the tables of print_core_stat,  *)
(* print_dsu_stat and print_dmc_stat, the metrics, and the CSV files of a   *)
(* timeline (pmu_device.cpp, timeline.cpp). A count is represented by where *)
(* it was read: the core, cluster or channel, and its place in the reading. *)
EXTENDS CommandLine

CONSTANTS dsu_cluster_size,   \* cores in a cluster
          dmc_num             \* memory controllers, each of one channel

DmcClasses == {"EVT_DMC_CLK", "EVT_DMC_CLKDIV2"}

-----------------------------------------------------------------------------
(* What is read.                                                           *)

\* Sorted, and each only once.
cores_idx(r) == SetToSortSeq(ToSet(r.cores_idx), <)
dsu_cores(r) == SetToSortSeq({c \div dsu_cluster_size : c \in ToSet(r.cores_idx)}, <)
Channels(r)  == IF r.dmc_idx = ALL_DMC_CHANNEL THEN [i \in 1 .. dmc_num |-> i - 1] ELSE <<r.dmc_idx>>
Units(r, c)  == CASE c = "EVT_CORE" -> cores_idx(r) [] c = "EVT_DSU" -> dsu_cores(r) [] OTHER -> Channels(r)

all_cores_p(r) == Len(cores_idx(r)) > 1
multiplexings(r, c) == Len(r.ioctl_events[c]) > gpc_nums[c]

\* The events of a reading, the fixed counter before those that were assigned;
\* the memory controllers have none.
fixed(c)   == IF c \in DmcClasses THEN <<>> ELSE <<CYCLE_EVT_IDX>>
evts(r, c) == fixed(c) \o [i \in DOMAIN r.ioctl_events[c] |-> r.ioctl_events[c][i].ev]

\* The event that was asked for in place j of a reading.
EventAt(r, c, j) == r.ioctl_events[c][j - Len(fixed(c))]

-----------------------------------------------------------------------------
(* Tables.                                                                 *)

\* The places of a reading that are shown; padding counts on the memory
\* controllers as any event.
Shown(r, c) ==
  SelectSeq([j \in DOMAIN evts(r, c) |-> j],
            LAMBDA j : c \in DmcClasses \/ j = 1 \/ EventAt(r, c, j).type # "EVT_PADDING")

\* Mutant: the note is not shifted by the fixed counter as the event is.
NoteUnshifted(r, c, j) ==
  IF evts(r, c)[j] = CYCLE_EVT_IDX THEN <<"e">> ELSE r.ioctl_events[c][Min({j, Len(r.ioctl_events[c])})].note

Note(r, c, j) == IF evts(r, c)[j] = CYCLE_EVT_IDX THEN <<"e">> ELSE EventAt(r, c, j).note

Row(r, c, unit, j) == [ev |-> evts(r, c)[j], note |-> Note(r, c, j), count |-> <<unit, j>>]
Table(r, c, unit)  == [k \in DOMAIN Shown(r, c) |-> Row(r, c, unit, Shown(r, c)[k])]
Tables(r, c)       == [unit \in ToSet(Units(r, c)) |-> Table(r, c, unit)]

\* The sums over all units, which a timeline has none of; those of cores and
\* clusters for more than a core.
Overall(r, c) ==
  LET Sum(j) == [ev |-> evts(r, c)[j], note |-> Note(r, c, j), counts |-> {<<unit, j>> : unit \in ToSet(Units(r, c))}]
  IN IF "timeline" \notin r.do /\ (c \in DmcClasses \/ all_cores_p(r)) THEN [k \in DOMAIN Shown(r, c) |-> Sum(Shown(r, c)[k])] ELSE <<>>

StatOf(r, c) == [tables |-> Tables(r, c), overall |-> Overall(r, c)]

print_core_stat(r) == StatOf(r, "EVT_CORE")
print_dsu_stat(r)  == StatOf(r, "EVT_DSU")
print_dmc_stat(r)  == [c \in DmcClasses \cap Classes |-> StatOf(r, c)]

-----------------------------------------------------------------------------
(* Metrics.                                                                *)

\* The last place of a reading that shows an event, 0 if there is none.
LastPlace(r, c, ev) == Max({j \in ToSet(Shown(r, c)) : evts(r, c)[j] = ev} \cup {0})

\* Without an access the miss rate is 100 %.
l3_cache(r) == [access |-> LastPlace(r, "EVT_DSU", PMU_EVENT_L3D_CACHE),
                refill |-> LastPlace(r, "EVT_DSU", PMU_EVENT_L3D_CACHE_REFILL)]

ddr_bw(r) == LastPlace(r, "EVT_DMC_CLKDIV2", DMC_EVENT_RDWR)

\* The groups that have events noted for a metric with a formula.
event_metrics(r) ==
  LET noted == {r.ioctl_events["EVT_CORE"][k] : k \in DOMAIN r.ioctl_events["EVT_CORE"]}
  IN SetToSeq({<<e.metric, e.group>> : e \in {n \in noted : n.metric \in DOMAIN product_metrics}})

CoreEventName(r, k) == pmu_events_get_event_name(r.extra, "EVT_CORE", evts(r, "EVT_CORE")[k])

\* Mutant: the fixed counter is not allowed for.
varsFromFirst(r, metric, group) ==
  LET events == r.ioctl_events["EVT_CORE"]
      Of(k)  == events[k].metric = metric /\ events[k].group = group
      Name(k) == CoreEventName(r, k)
  IN [name \in {Name(k) : k \in {k \in DOMAIN events : Of(k)}} |->
        Max({k \in DOMAIN events : Of(k) /\ Name(k) = name})]

\* The counts there are by name: of several counts of an event the last.
vars_(r, metric, group) ==
  LET events == r.ioctl_events["EVT_CORE"]
      Of(k)  == events[k].metric = metric /\ events[k].group = group
      Name(k) == CoreEventName(r, k + 1)
  IN [name \in {Name(k) : k \in {k \in DOMAIN events : Of(k)}} |->
        Max({k + 1 : k \in {k \in DOMAIN events : Of(k) /\ Name(k) = name}})]

\* A formula's names stand for counts, or for 0 if there is none of that name.
\* The arithmetic is left out.
metric_calculate_shunting_yard_expression(vars, formula_sy) ==
  LET Operand(t) == IF t[1] # "name" THEN t ELSE IF t[2] \in DOMAIN vars THEN <<"count", vars[t[2]]>> ELSE <<"number", 0>>
  IN [i \in DOMAIN formula_sy |-> Operand(formula_sy[i])]

\* Core by core, for each core the same.
print_core_metrics(r) ==
  LET Calculated(metric, group) ==
        metric_calculate_shunting_yard_expression(vars_(r, metric, group), product_metrics[metric].formula_sy)
      Rows(core) == [i \in DOMAIN event_metrics(r) |->
                       [core |-> core, metric |-> event_metrics(r)[i][1],
                        value |-> Calculated(event_metrics(r)[i][1], event_metrics(r)[i][2])]]
  IN FlattenSeq([i \in DOMAIN cores_idx(r) |-> Rows(cores_idx(r)[i])])

-----------------------------------------------------------------------------
(* A timeline. A column has the unit it is of and its name over it, and a   *)
(* line has a count, a number of times scheduled or a metric in it, which   *)
(* is represented by the unit and the name it should have.                  *)

\* Mutant: the header has padding in it, as the list of events has.
RealEventsWithPadding(r, c) == r.ioctl_events[c]

RealEvents(r, c) == SelectSeq(r.ioctl_events[c], LAMBDA e : e.type # "EVT_PADDING")

\* For the header of any class it is the cores' events that tell.
HeaderUnits(r, c) == IF c \in DmcClasses THEN Channels(r) ELSE cores_idx(r)
HeaderMultiplexing(r, c) == c \notin DmcClasses /\ multiplexings(r, "EVT_CORE")

Unit(c, i) == <<c, IF c = "EVT_DSU" THEN i \div dsu_cluster_size ELSE i>>

comma_num2(r, c) ==
  LET real == Len(RealEvents(r, c))
  IN IF c \in DmcClasses THEN real - 1 ELSE IF HeaderMultiplexing(r, c) THEN (real + 1) * 2 - 1 ELSE real

timeline_header_cores(r, c) ==
  FlattenSeq([i \in DOMAIN HeaderUnits(r, c) |-> [k \in 1 .. comma_num2(r, c) + 1 |-> Unit(c, HeaderUnits(r, c)[i])]])

EventName(ev) == <<"event", ev>>
SchedTimes    == <<"sched_times">>
MetricName(m) == <<"metric", m>>

timeline_header_event_names(r, c) ==
  LET events == fixed(c) \o [k \in DOMAIN RealEvents(r, c) |-> RealEvents(r, c)[k].ev]
      Names(ev) == IF HeaderMultiplexing(r, c) THEN <<EventName(ev), SchedTimes>> ELSE <<EventName(ev)>>
      Block == FlattenSeq([k \in DOMAIN events |-> Names(events[k])])
  IN FlattenSeq([i \in DOMAIN HeaderUnits(r, c) |-> Block])

\* A line of values, as the tables are printed.
timeline_header_event_values(r, c) ==
  LET Cell(unit, name) == [unit |-> <<c, unit>>, name |-> name]
      Values(row) == IF c \notin DmcClasses /\ multiplexings(r, c)
                       THEN <<Cell(row.count[1], EventName(row.ev)), Cell(row.count[1], SchedTimes)>>
                       ELSE <<Cell(row.count[1], EventName(row.ev))>>
      Line(unit) == FlattenSeq([k \in DOMAIN Table(r, c, unit) |-> Values(Table(r, c, unit)[k])])
  IN FlattenSeq([i \in DOMAIN Units(r, c) |-> Line(Units(r, c)[i])])

\* The metrics come after the counts.
timeline_header_metric_values(r, c) ==
  IF c # "EVT_CORE" THEN <<>>
  ELSE [i \in DOMAIN print_core_metrics(r) |->
          [unit |-> <<c, print_core_metrics(r)[i].core>>, name |-> MetricName(print_core_metrics(r)[i].metric)]]

\* Their units: as many for each core as there are metrics for each.
MetricCores(r, c) ==
  LET per_core == Len(timeline_header_metric_values(r, c)) \div Len(cores_idx(r))
  IN FlattenSeq([i \in DOMAIN cores_idx(r) |-> [m \in 1 .. per_core |-> Unit(c, cores_idx(r)[i])]])

print(r, c) ==
  [cores |-> timeline_header_cores(r, c) \o (IF c = "EVT_CORE" THEN MetricCores(r, c) ELSE <<>>),
   names |-> timeline_header_event_names(r, c) \o
               [i \in DOMAIN timeline_header_metric_values(r, c) |-> timeline_header_metric_values(r, c)[i].name],
   line  |-> timeline_header_event_values(r, c) \o timeline_header_metric_values(r, c)]

\* The classes there are files for, in the order they are written.
timeline_headers(r) ==
  LET enabled == {c \in Classes : r.ioctl_events[c] # <<>>}
      Has_(c) == c \in enabled \/ (c \in DmcClasses /\ DmcClasses \cap enabled # {})
  IN SelectSeq(<<"EVT_CORE", "EVT_DSU", "EVT_DMC_CLK", "EVT_DMC_CLKDIV2">>, Has_)

filename(r, c) == IF r.csv = <<>> THEN <<"default", c>>
                  ELSE IF r.csv[1].per_class THEN <<r.csv[1].name, c>> ELSE <<r.csv[1].name>>

\* A file holds what was written last.
InFile(r, name) ==
  LET written == SelectSeq(timeline_headers(r), LAMBDA c : filename(r, c) = name) IN Last(written)
=============================================================================
