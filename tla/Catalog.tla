------------------------------ MODULE Catalog ------------------------------
(* What the names of metrics and events stand for: the predefined metrics   *)
(* (metric.cpp), the telemetry data of the processor that is detected, the  *)
(* metrics of DSU and memory controllers (pmu_device.cpp), and the files    *)
(* given with -C and -E (user_request.cpp, parsers.cpp).                    *)
EXTENDS EventRequest, TLC

CONSTANTS
  vendor_id, part_id,        \* of the cores, as the driver reports them
  has_dsu, has_dmc,          \* whether there are a DSU and memory controllers
  metric_builtin,            \* events of the predefined metrics, by name
  product_names,             \* the products and their aliases, in the order of their names
  m_product_configuration,   \* [implementer, part_num], by product
  m_product_alias,           \* the product, by alias
  m_product_metrics,         \* [events_raw, formula_sy], by product and metric
  m_product_groups_metrics,  \* names of metrics, by product and group
  m_product_events,          \* events the product has, by product
  dsu_evt_mask               \* events the DSU says it has

m_PRODUCT_ARMV8A == "armv8-a"

PMU_EVENT_L3D_CACHE_REFILL == 42
PMU_EVENT_L3D_CACHE == 43
DMC_EVENT_RDWR == 18

-----------------------------------------------------------------------------
(* The product.                                                            *)

Configuration(name) ==
  IF name \in DOMAIN m_product_alias THEN m_product_configuration[m_product_alias[name]]
  ELSE m_product_configuration[name]

\* The products the processor may be; of several the first by its name.
Matching == {i \in DOMAIN product_names :
               /\ Configuration(product_names[i]) = [implementer |-> vendor_id, part_num |-> part_id]
               /\ product_names[i] \in DOMAIN m_product_metrics}

m_product_name ==
  IF Matching = {} THEN m_PRODUCT_ARMV8A
  ELSE LET name == product_names[Min(Matching)]
       IN IF name \in DOMAIN m_product_alias THEN m_product_alias[name] ELSE name

product_metrics == IF m_product_name \in DOMAIN m_product_metrics THEN m_product_metrics[m_product_name] ELSE <<>>

groups_of_metrics ==
  IF m_product_name \in DOMAIN m_product_groups_metrics THEN m_product_groups_metrics[m_product_name] ELSE <<>>

product_events == IF m_product_name \in DOMAIN m_product_events THEN m_product_events[m_product_name] ELSE {}

-----------------------------------------------------------------------------
(* The events there are.                                                   *)

unknown_event == 1000000

\* The name an event is printed under: of a core's that of the product.
pmu_events_get_event_name(extra, cls, ev) ==
  LET named == {i \in DOMAIN extra : extra[i].cls = cls /\ extra[i].num = ev}
  IN IF cls = "EVT_CORE" /\ ev \in product_events THEN ev
     ELSE IF named # {} THEN extra[Min(named)].name
     ELSE IF ev \in builtin_events[cls] THEN ev ELSE unknown_event

Evt_hdr(cls, events) == << [evt_class |-> cls, events |-> events] >>

\* What the driver answers, header by header: the architecture's events, those
\* the DSU has bits for, and as many as it knows of a memory controller.
QUERY_SUPP_EVENTS ==
  LET Numbered(cls) == Evt_hdr(cls, 0 .. (Cardinality(builtin_events[cls]) - 1))
  IN Evt_hdr("EVT_CORE", builtin_events["EVT_CORE"])
     \o (IF has_dsu THEN Evt_hdr("EVT_DSU", dsu_evt_mask) ELSE <<>>)
     \o (IF has_dmc THEN Numbered("EVT_DMC_CLK") \o Numbered("EVT_DMC_CLKDIV2") ELSE <<>>)

events_query_driver ==
  [cls \in {hdr.evt_class : hdr \in ToSet(QUERY_SUPP_EVENTS)} |->
     UNION {hdr.events : hdr \in {h \in ToSet(QUERY_SUPP_EVENTS) : h.evt_class = cls}}]

\* Of the cores it is not the driver who knows, but the product's data.
events_query ==
  [cls \in (DOMAIN events_query_driver \ {"EVT_CORE"})
            \cup (IF m_product_name \in DOMAIN m_product_events THEN {"EVT_CORE"} ELSE {}) |->
     IF cls = "EVT_CORE" THEN product_events ELSE events_query_driver[cls]]

\* The rows of `wperf list' that are events; extra ones come after the others.
ListRow(extra, cls, ev) == [name |-> pmu_events_get_event_name(extra, cls, ev), cls |-> cls, index |-> ev]
do_list_prep_events(extra) ==
  UNION {{ListRow(extra, cls, ev) : ev \in events_query[cls]} : cls \in DOMAIN events_query}
  \cup {ListRow(extra, extra[i].cls, extra[i].num) : i \in DOMAIN extra}

-----------------------------------------------------------------------------
(* Metrics. What is parsed of one is kept by its name; one whose events     *)
(* cannot be counted together, or are not known, is left out.               *)

Known(metrics, name, desc) == IF desc.outcome = "throw" THEN metrics ELSE (name :> desc) @@ metrics

set_builtin_metrics(metrics, name, raw) == Known(metrics, name, parse_events_str(NoEvents, raw, name))

Event(cls, ev) == [cls |-> cls, form |-> "name", ev |-> ev, open |-> FALSE, close |-> FALSE]

Group(evs) == [i \in DOMAIN evs |-> [Event("EVT_CORE", evs[i]) EXCEPT !.open = (i = 1), !.close = (i = Len(evs))]]

metric_gen_metric_based_on_gpc_num(name, gpc_num) ==
  Group(SubSeq(metric_builtin[name], 1, Min({gpc_num, Len(metric_builtin[name])})))

\* What every name that comes with wperf is defined as, the later first.
Predefined == IF vendor_id \in {65, 81}
                THEN [name \in DOMAIN metric_builtin |-> metric_gen_metric_based_on_gpc_num(name, gpc_nums["EVT_CORE"])]
                ELSE <<>>
OfProduct  == [name \in DOMAIN product_metrics |-> Group(product_metrics[name].events_raw)]
OfDsu      == IF has_dsu THEN "l3_cache" :> <<Event("EVT_DSU", PMU_EVENT_L3D_CACHE), Event("EVT_DSU", PMU_EVENT_L3D_CACHE_REFILL)>>
              ELSE <<>>
OfDmc      == IF has_dmc THEN "ddr_bw" :> <<Event("EVT_DMC_CLKDIV2", DMC_EVENT_RDWR)>> ELSE <<>>

SetAll(metrics, defined) ==
  FoldSet(LAMBDA name, so_far : set_builtin_metrics(so_far, name, defined[name]), metrics, DOMAIN defined)

hw_cfg_detected == SetAll(SetAll(<<>>, Predefined), OfProduct)
builtin_metrics == SetAll(SetAll(hw_cfg_detected, OfDsu), OfDmc)

-----------------------------------------------------------------------------
(* -C and -E. A file of metrics is a sequence of lines [key, raw, more],    *)
(* with more than a name and its events or not; extra events are a sequence *)
(* [cls, name, num, good], each well formed or not.                         *)

\* The first pass over the arguments: what -C and -E have defined so far.
Nothing == [waiting |-> {}, metrics |-> <<>>, extra |-> <<>>, outcome |-> "parsed"]

\* A metric that cannot be counted is passed over, and defines nothing.
Defined(st, key, desc) ==
  CASE desc.outcome = "parsed"    -> [st EXCEPT !.metrics = (key :> desc) @@ @, !.extra = desc.extra]
    [] desc.outcome = "throw"     -> [st EXCEPT !.extra = desc.extra]
    [] desc.outcome = "undefined" -> [st EXCEPT !.outcome = "undefined"]

ConfigLine(st, line) ==
  IF st.outcome # "parsed" THEN st
  ELSE [Defined(st, line.key, parse_events_str([NoEvents EXCEPT !.extra = st.extra], line.raw, line.key))
          EXCEPT !.outcome = IF line.more THEN "throw" ELSE @]

load_config_metrics(st, file) ==
  IF "lines" \notin DOMAIN file THEN [st EXCEPT !.outcome = "throw"]
  ELSE FoldLeft(ConfigLine, st, file.lines)

parse_events_extra(st, e) ==
  IF st.outcome # "parsed" THEN st
  ELSE IF ~e.good THEN [st EXCEPT !.outcome = "throw"]
  ELSE [st EXCEPT !.extra = AddExtra(@, Extra(e.cls, e.name, e.num))]

\* What is no file is read as the events themselves.
load_config_events(st, file) ==
  IF "extra" \notin DOMAIN file THEN [st EXCEPT !.outcome = "throw"]
  ELSE FoldLeft(parse_events_extra, st, file.extra)
=============================================================================
