----------------------------- MODULE CommandLine ----------------------------
(* user_request.cpp: the request a command line makes. An argument is a     *)
(* record with its `word'; one that is the value of an option has what the  *)
(* option reads it as besides:                                              *)
(*   events  tokens of EventRequest, of -e before `sample' or `record'      *)
(*   metrics of -m: names of metrics and of groups of them                  *)
(*   sources [ev, interval, known, valid], of -e after them                 *)
(*   spe     of -e arm_spe_0/.../: whether its filters are good             *)
(*   cores   of -c                                                          *)
(*   n       of -n and --dmc                                                *)
(*   hundredths, unit   of a duration or interval                           *)
(*   exists  of a file that is read                                         *)
(*   lines, extra       of -C and -E: what the file defines                 *)
(*   name, per_class    of a file that is written: whether {class} is in it *)
(* A value without the field is one the option cannot read.                 *)
EXTENDS Catalog

CONSTANTS core_num, total_gpc_num, has_spe

MAX_PMU_CTL_CORES_COUNT == 128

\* CYCLE_EVT_IDX is larger than every event number.
CYCLE_EVT_IDX == 2147483647

Unset == -1
NoFile == "none"
ALL_DMC_CHANNEL == 255

Blank == [do |-> {}, waiting |-> "nothing", waited |-> "nothing", outcome |-> "parsed",
          cores_idx |-> [i \in 1 .. core_num |-> i - 1],
          metrics |-> <<>>, counting |-> NoEvents, sources |-> <<>>, spe |-> FALSE,
          pe_file |-> NoFile, pdb_file |-> NoFile,
          duration |-> Unset, interval |-> Unset, timeline |-> 0, dmc_idx |-> ALL_DMC_CHANNEL,
          asked |-> <<>>, output |-> <<>>, csv |-> <<>>]

Throw(q) == [q EXCEPT !.outcome = "throw"]

-----------------------------------------------------------------------------
(* Values.                                                                 *)

\* Mutant: the list is left in the order of the command line.
SourcesUnsorted(sources) ==
  [i \in DOMAIN sources |-> IF sources[i].ev = 17 THEN [sources[i] EXCEPT !.ev = CYCLE_EVT_IDX] ELSE sources[i]]

\* 0x11 is counted by the fixed counter, and the list goes by event number:
\* the fixed counter's comes last.
parse_events_str_for_sample(sources) ==
  LET Source(s) == IF s.ev = 17 THEN [s EXCEPT !.ev = CYCLE_EVT_IDX] ELSE s
      Earlier(s, t) == s.ev < t.ev
  IN SortSeq([i \in DOMAIN sources |-> Source(sources[i])], Earlier)

\* The events that tell how a run of the profiling extension went.
SpeTokens == [i \in 1 .. 4 |-> Event("EVT_CORE", 16384 + i - 1)]

Counting(q, tokens) == [q EXCEPT !.counting = parse_events_str(@, tokens, NoMetric)]

SamplingSources(q, sources) ==
  LET all == parse_events_str_for_sample(q.sources \o sources)
  IN IF \/ \E i \in DOMAIN sources : ~sources[i].known \/ ~sources[i].valid
        \/ Len(all) > total_gpc_num \/ Len(all) > gpc_nums["EVT_CORE"]
       THEN Throw(q) ELSE [q EXCEPT !.sources = all]

Has(a, field) == field \in DOMAIN a

\* The -e that comes before the command is taken for a count's.
Events(q, a) ==
  IF {"sample", "record"} \cap q.do # {}
    THEN IF Has(a, "spe") THEN IF has_spe /\ a.spe THEN [Counting(q, SpeTokens) EXCEPT !.spe = TRUE] ELSE Throw(q)
         ELSE IF Has(a, "sources") THEN SamplingSources(q, a.sources) ELSE Throw(q)
    ELSE IF Has(a, "events") THEN Counting(q, a.events) ELSE Throw(q)

\* The name of a group in a group of metrics stands for nothing.
Metric(q, m) ==
  IF m \notin DOMAIN q.metrics \cup DOMAIN groups_of_metrics THEN Throw(q)
  ELSE IF m \notin DOMAIN q.metrics THEN q
  ELSE LET desc == q.metrics[m]
       IN [q EXCEPT !.counting.events = [c \in Classes |-> @[c] \o desc.events[c]],
                    !.counting.groups = [c \in Classes |-> @[c] \o desc.groups[c]],
                    !.asked = Append(@, m)]

Metrics(q, names) ==
  LET Expand(all, name) == all \o (IF name \in DOMAIN groups_of_metrics THEN groups_of_metrics[name] ELSE <<name>>)
  IN FoldLeft(Metric, q, FoldLeft(Expand, <<>>, names))

\* In units of 10 us, of which the smallest that can be written, 0.01ms, is one.
unit_map == "ms" :> 1 @@ "s" :> 1000 @@ "m" :> 60000 @@ "h" :> 3600000 @@ "d" :> 86400000
convert_timeout_arg_to_seconds(a) == a.hundredths * unit_map[a.unit]

Cores(q, a) == IF Has(a, "cores") /\ Len(a.cores) <= MAX_PMU_CTL_CORES_COUNT
                 THEN [q EXCEPT !.cores_idx = a.cores] ELSE Throw(q)

Exists(a) == Has(a, "exists") /\ a.exists

\* The executable and the file of its symbols.
ExistingFile(q, a) == IF Exists(a) THEN [q EXCEPT ![q.waiting] = "given"] ELSE Throw(q)

\* With _wtoi what is no number is zero.
Wtoi(a) == IF Has(a, "n") THEN a.n ELSE 0

Timeout(q, a) ==
  IF Has(a, "hundredths") THEN [q EXCEPT ![q.waiting] = convert_timeout_arg_to_seconds(a)] ELSE Throw(q)

\* What an argument does that an option waits for; those of the rest say
\* nothing about the run.
Value(q, a) ==
  CASE q.waiting = "commandline" -> IF q.pe_file = NoFile THEN [q EXCEPT !.pe_file = "spawned"] ELSE q
    [] q.waiting = "events"   -> Events(q, a)
    [] q.waiting = "metrics"  -> IF Has(a, "metrics") THEN Metrics(q, a.metrics) ELSE Throw(q)
    [] q.waiting = "core_idx" -> Cores(q, a)
    [] q.waiting \in {"pe_file", "pdb_file"} -> ExistingFile(q, a)
    [] q.waiting \in {"timeline", "dmc_idx"}  -> [q EXCEPT ![q.waiting] = Wtoi(a)]
    [] q.waiting \in {"duration", "interval"} -> Timeout(q, a)
    [] q.waiting \in {"output", "csv"}        -> [q EXCEPT ![q.waiting] = <<a>>]
    [] OTHER -> q

-----------------------------------------------------------------------------
(* Options.                                                                *)

\* What and where is counted or sampled, and for how long.
Measured == "-n" :> "timeline" @@ "-i" :> "interval" @@ "-c" :> "core_idx" @@ "--cpu" :> "core_idx"
         @@ "--dmc" :> "dmc_idx"

Waits == Measured
      @@ "-e" :> "events" @@ "-m" :> "metrics" @@ "-C" :> "config" @@ "-E" :> "config"
      @@ "--timeout" :> "duration" @@ "sleep" :> "duration"
      @@ "--pe_file" :> "pe_file" @@ "--pdb_file" :> "pdb_file" @@ "--" :> "commandline"
      @@ "man" :> "query" @@ "-s" :> "symbol"
      @@ "--record_spawn_delay" :> "delay" @@ "-o" :> "output" @@ "--output" :> "output"
      @@ "--output-csv" :> "csv" @@ "--cwd" :> "cwd" @@ "--config" :> "config_value"

\* The words that only set a do_ flag, by its name.
Commands == "stat" :> "count" @@ "record" :> "record" @@ "sample" :> "sample" @@ "list" :> "list"
         @@ "detect" :> "detect" @@ "man" :> "man"
         @@ "--force-lock" :> "force_lock" @@ "--disassemble" :> "disassembly"

Asides == "-t" :> "timeline" @@ "--version" :> "version" @@ "-h" :> "help" @@ "--help" :> "help"
       @@ "--json" :> "json" @@ "test" :> "test"

\* -t fills in what has not been said yet.
Timeline(q) == [q EXCEPT !.interval = IF @ = Unset THEN 6000000 ELSE @,
                         !.duration = IF @ = Unset THEN 100000 ELSE @]

\* -- drops a --pe_file.
Spawn(q) == [q EXCEPT !.pe_file = NoFile]

Done(q, w) ==
  CASE w \in DOMAIN Commands -> [q EXCEPT !.do = @ \cup {Commands[w]}]
    [] w \in DOMAIN Asides   -> [q EXCEPT !.do = @ \cup {Asides[w]}]
    [] OTHER -> q

Option(q, w) ==
  LET next == CASE w = "-t" -> Timeline(Done(q, w)) [] w = "--" -> Spawn(q) [] OTHER -> Done(q, w)
  IN IF w \in DOMAIN Waits THEN [next EXCEPT !.waiting = Waits[w]] ELSE next

\* Nothing ends the command line that -- begins.
ParseArg(q, a) ==
  IF q.outcome # "parsed" THEN q
  ELSE IF q.waiting = "nothing" THEN Option(q, a.word)
  ELSE [Value(q, a) EXCEPT !.waiting = IF @ = "commandline" THEN @ ELSE "nothing"]

\* The first pass reads what -C and -E name, wherever they stand; both may
\* wait for an argument, which -C then has first.
Config(st, a) ==
  IF st.outcome # "parsed" THEN st
  ELSE IF "-C" \in st.waiting THEN [load_config_metrics(st, a) EXCEPT !.waiting = @ \ {"-C"}]
  ELSE IF a.word = "-C" THEN [st EXCEPT !.waiting = @ \cup {"-C"}]
  ELSE IF "-E" \in st.waiting THEN [load_config_events(st, a) EXCEPT !.waiting = @ \ {"-E"}]
  ELSE IF a.word = "-E" THEN [st EXCEPT !.waiting = @ \cup {"-E"}]
  ELSE st

\* The second starts from that: a metric of the user's replaces the one of
\* that name that comes with wperf.
Configured(config) == [Blank EXCEPT !.metrics = config.metrics @@ builtin_metrics,
                                    !.counting.extra = config.extra, !.outcome = config.outcome]

check_parsed_args(q) ==
  IF q.outcome = "parsed" /\ "sample" \in q.do /\ Len(q.cores_idx) > 1 THEN Throw(q) ELSE q

parse_raw_args(args) ==
  check_parsed_args(FoldLeft(ParseArg, Configured(FoldLeft(Config, Nothing, args)), args))

\* Only before -- ; a value passes for the option, too.
is_cli_option_in_args(args, words) ==
  \E i \in DOMAIN args : args[i].word \in words /\ \A j \in 1 .. i : args[j].word # "--"

is_force_lock(args) == is_cli_option_in_args(args, {"--force-lock"})
is_help(args)       == is_cli_option_in_args(args, {"-h", "--help"})

-----------------------------------------------------------------------------
(* The request.                                                            *)

\* The file of a timeline, <<>> when it has its own name. --output names a
\* JSON file without -t and with --json, and --output-csv comes before it.
timeline_output_file(q) ==
  IF "timeline" \notin q.do THEN <<>>
  ELSE IF q.csv # <<>> \/ "json" \in q.do THEN q.csv
  ELSE q.output

\* The symbols are looked for next to the executable unless they are given.
Request(q, outcome) ==
  [do |-> q.do, outcome |-> outcome, cores_idx |-> q.cores_idx,
   ioctl_events |-> IF outcome = "parsed" THEN ioctl_events(q.counting) ELSE [c \in Classes |-> <<>>],
   sources |-> q.sources, spe |-> q.spe, pe_file |-> q.pe_file,
   pdb_file |-> IF q.pdb_file = NoFile /\ q.pe_file # NoFile THEN "deduced" ELSE q.pdb_file,
   duration |-> q.duration, interval |-> q.interval, timeline |-> q.timeline, dmc_idx |-> q.dmc_idx,
   extra |-> q.counting.extra, asked |-> q.asked, csv |-> timeline_output_file(q)]

Outcome(q) ==
  IF q.outcome # "parsed" THEN q.outcome
  ELSE IF \/ {"sample", "record"} \cap q.do # {} /\ q.pe_file = NoFile
          \/ \E i \in DOMAIN q.cores_idx : q.cores_idx[i] >= core_num
    THEN "throw" ELSE check_events(q.counting)

Checked(q) == Request(q, Outcome(q))

init(args) == Checked(parse_raw_args(args))

e_classes(request) == {c \in Classes : request.ioctl_events[c] # <<>>}
has_events(request) == e_classes(request) # {}
=============================================================================
