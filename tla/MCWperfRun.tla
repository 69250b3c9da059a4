---------------------------- MODULE MCWperfRun ----------------------------
(* Command lines for three cores in two clusters, with four counters of     *)
(* their own free, which are counters 1, 3, 4 and 5 of the hardware, two of *)
(* the clusters, and two of each clock of two memory controllers.           *)
EXTENDS WperfRun

MCClasses == {"EVT_CORE", "EVT_DSU", "EVT_DMC_CLK", "EVT_DMC_CLKDIV2"}
MCgpc_nums == "EVT_CORE" :> 4 @@ "EVT_DSU" :> 2 @@ "EVT_DMC_CLK" :> 2 @@ "EVT_DMC_CLKDIV2" :> 2
MCMAX_MANAGED_EVENTS == "EVT_CORE" :> 12 @@ "EVT_DSU" :> 4 @@ "EVT_DMC_CLK" :> 4 @@ "EVT_DMC_CLKDIV2" :> 4
MCcounter_idx_map == <<1, 3, 4, 5>>

W(word) == [word |-> word]
N(word, n) == [word |-> word, n |-> n]
T(word, hundredths, unit) == [word |-> word, hundredths |-> hundredths, unit |-> unit]
M(names) == [word |-> "metrics", metrics |-> names]
Csv(name, per_class) == [word |-> "file.csv", name |-> name, per_class |-> per_class]

\* Tokens: an event by its name, by a number, and those of other classes.
Tok(cls, form, ev, open, close) ==
  [cls |-> cls, form |-> form, ev |-> ev, open |-> open, close |-> close]
Ev(n)    == Tok("EVT_CORE", "name", n, FALSE, FALSE)
Op(n)    == Tok("EVT_CORE", "name", n, TRUE, FALSE)
Cl(n)    == Tok("EVT_CORE", "raw", n, FALSE, TRUE)
Digits(t) == [t EXCEPT !.form = "digits"]
Dsu(t)   == [t EXCEPT !.cls = "EVT_DSU"]
Dmc(t)   == [t EXCEPT !.cls = "EVT_DMC_CLK"]
Div2(t)  == [t EXCEPT !.cls = "EVT_DMC_CLKDIV2"]

\* Events of the architecture; the product has one that is not, and not all.
MCArch == (1 .. 13) \cup {27, 42, 43} \cup (16384 .. 16387)
MCbuiltin_events == "EVT_CORE" :> MCArch @@ "EVT_DSU" :> MCArch
                    @@ "EVT_DMC_CLK" :> 0 .. 5 @@ "EVT_DMC_CLKDIV2" :> 0 .. 18
MCdsu_evt_mask == (1 .. 7) \cup {42, 43, 63}
Trb_wrap == 14

\* The processor is the first product, by its name and that of its alias; the
\* third, of which nothing else is known, is another.
MCproduct_names == <<"alias", "n1", "n2", "other">>
MCm_product_configuration ==
  "n1" :> [implementer |-> 65, part_num |-> 1] @@ "n2" :> [implementer |-> 65, part_num |-> 1]
  @@ "other" :> [implementer |-> 65, part_num |-> 2]
MCm_product_alias == "alias" :> "n1"

MCmetric_builtin == "imix" :> <<1, 2, 3, 4, 5>> @@ "icache" :> <<7, 8>>
Formula(names) == [i \in DOMAIN names |-> <<"name", names[i]>>] \o << <<"op", "/">>, <<"number", 100>>, <<"op", "*">> >>
MCm_product_metrics ==
  LET n1 == "ipc"     :> [events_raw |-> <<2, 3>>, formula_sy |-> Formula(<<3, 2>>)]
         @@ "dcache"  :> [events_raw |-> <<4, 5, 6>>, formula_sy |-> Formula(<<5, 4, 6, 4>>)]
         @@ "flops"   :> [events_raw |-> <<7, 8>>, formula_sy |-> Formula(<<7, 1>>)]
         @@ "topdown" :> [events_raw |-> <<1, 2, 3, 4, 5>>, formula_sy |-> Formula(<<1, 5>>)]
  IN "alias" :> n1 @@ "n1" :> n1 @@ "n2" :> ("ipc" :> [events_raw |-> <<1>>, formula_sy |-> Formula(<<1>>)])
MCm_product_groups_metrics == "n1" :> ("cycle_accounting" :> <<"ipc", "dcache">> @@ "all" :> <<"cycle_accounting", "ipc">>)
MCm_product_events == "n1" :> (1 .. 8) \cup {Trb_wrap}

\* What -C and -E name: metrics of the user's own, one of which takes the
\* place of the product's, needs more counters than there are or is counted on
\* the DSU; events of other numbers, with a name of the architecture's too.
Line(key, raw) == [key |-> key, raw |-> raw, more |-> FALSE]
Lines(lines) == [word |-> "file", lines |-> lines]
Names(extra) == [word |-> "extra", extra |-> extra]
Named(name, num) == [cls |-> "EVT_CORE", name |-> name, num |-> num, good |-> TRUE]
OwnMetrics == Lines(<<Line("ipc", <<Ev(1), Op(2), Cl(4)>>), Line("wide", <<Op(1), Ev(2), Ev(3), Ev(4), Cl(5)>>),
                      Line("mine", <<Op(101), Ev(9), Cl(3), Dsu(Ev(2))>>)>>)
OwnEvents == Names(<<Named(101, 50), Named(102, 50), Named(6, 60)>>)

Evs(tokens) == [word |-> "events", events |-> tokens]
Cs(cores)   == [word |-> "cores", cores |-> cores]
File(there) == [word |-> "file", exists |-> there]

Source(ev) == [ev |-> ev, interval |-> 4096, known |-> TRUE, valid |-> TRUE]
Srcs(evs) == [word |-> "sources", sources |-> [i \in DOMAIN evs |-> Source(evs[i])]]
Spe(good) == [word |-> "arm_spe_0", spe |-> good]

Stat(tokens, more) == <<W("stat"), W("-e"), Evs(tokens)>> \o more
Record(e, more) == <<W("record"), W("-e"), e>> \o more \o <<W("--"), W("program")>>

\* Lists of events, of which the first six go together badly or not at all: of the
\* first two the group is left open, and an event is taken for its size.
Lists ==
  { <<Op(1), Digits(Cl(2))>>, <<Op(3), Digits(Cl(2))>>, <<Op(1), Ev(2), Ev(3), Ev(4), Cl(5)>>, <<Ev(1), Cl(2)>>, <<Op(1), Op(2), Cl(3)>>,
    <<Op(1), Dsu(Cl(2))>>,
    <<Ev(99)>>, [i \in 1 .. 13 |-> Ev(i)],
    <<Ev(1), Op(2), Ev(3), Cl(4), Ev(5)>>, <<Op(1), Cl(2), Op(3), Cl(4)>>, <<Op(1), Cl(2), Op(3), Ev(4), Cl(5), Op(6), Cl(7)>>, <<Ev(1), Ev(2), Op(3), Ev(4), Cl(5), Dsu(Ev(6)), Op(7), Cl(8)>>,
    <<Tok("EVT_CORE", "name", 1, TRUE, TRUE), Op(2), Cl(3)>>, <<Dmc(Op(1)), Dmc(Cl(2)), Ev(3), Op(4), Cl(4)>>,
    <<Digits(Op(1)), Cl(2), Dmc(Ev(3)), Op(4), Cl(5), Ev(6)>>,
    <<Op(1), Cl(2), Dsu(Op(3)), Dsu(Cl(4))>> }

\* All there is to list, with and without events of the user's own.
MCListLines == {<<W("list")>>, <<W("list"), W("-E"), Names(<<Named(101, 50), Named(102, 60)>>)>>}

Once == <<W("--timeout"), T("a moment", 10, "s")>>

MCCommandLines ==
  {<<W("test"), W("-e"), Evs(list)>> : list \in Lists} \cup
  { <<>>, <<W("--help")>>, <<W("stat"), W("--help")>>, <<W("detect")>>, <<W("man"), W("cpu_cycles")>>,
    <<W("--version")>>, <<W("list")>>, <<W("--force-lock"), W("list")>>, <<W("stat")>>,
    <<W("stat"), W("-C"), File(FALSE)>>,
    <<W("stat"), W("-c"), Cs(<<3>>)>>, <<W("stat"), W("--timeout"), W("soon")>>,
    Stat(<<Ev(1), Ev(2)>>, <<W("-c"), Cs(<<0, 1>>), W("--timeout"), T("a while", 20, "s")>>),
    Stat(<<Op(1), Cl(2), Dsu(Ev(3)), Dmc(Ev(4))>>,
         <<W("-c"), Cs(<<0>>), W("--timeout"), T("a while", 20, "s"), W("--force-lock")>>),
    Stat(<<Ev(1)>>, <<W("-m"), M(<<"ipc">>), W("-t"), W("-i"), T("a while", 100, "s"), W("-n"), N("twice", 2),
                      W("--timeout"), T("a moment", 10, "s")>>),
    Stat(<<Ev(1)>>, <<W("-t"), W("-i"), T("a while", 50, "s"), W("--timeout"), T("a moment", 10, "s"),
                      W("-c"), Cs(<<1>>), W("--"), W("program"), W("-t")>>),
    Stat(<<Ev(1)>>, <<W("-c"), Cs(<<1>>), W("--"), W("program")>>),
    Stat(<<Ev(1)>>, <<W("--"), W("program")>>),
    \* What is defined: names that are known, or not any more, or not yet.
    Stat(<<Ev(101), Op(6), Cl(50)>>, <<W("-E"), OwnEvents>> \o Once),
    Stat(<<Ev(102)>>, <<W("-E"), OwnEvents>>),
    Stat(<<Ev(1)>>, <<W("-C"), Lines(<<[Line("mine", <<Ev(1)>>) EXCEPT !.more = TRUE]>>)>>),
    Stat(<<Ev(1)>>, <<W("-E"), Names(<<[Named(1, 1) EXCEPT !.good = FALSE]>>)>>),
    Stat(<<Ev(1)>>, <<W("-m"), M(<<"topdown">>)>>),
    Stat(<<Ev(1)>>, <<W("-m"), M(<<"wide">>), W("-C"), OwnMetrics, W("-E"), OwnEvents>>),
    Stat(<<Ev(1), Op(6), Cl(3)>>, <<W("-m"), M(<<"mine">>), W("-E"), W("-C"), OwnEvents, OwnMetrics>>),
    Stat(<<Ev(1), Op(6), Cl(3)>>, <<W("-m"), M(<<"icache", "flops">>), W("-C"), OwnMetrics, W("-E"), OwnEvents>> \o Once),
    Stat(<<Ev(1), Op(6), Cl(3)>>, <<W("-E"), OwnEvents, W("-m"), M(<<"mine", "all">>), W("-C"), OwnMetrics>> \o Once),
    \* What is reported: metrics next to events and to each other, all of the
    \* cores or one core of each cluster, and files for a timeline.
    Stat(<<Ev(1)>>, <<W("-m"), M(<<"cycle_accounting">>)>> \o Once),
    Stat(<<Op(2), Cl(3)>>, <<W("-m"), M(<<"ipc", "dcache", "l3_cache", "ipc", "ipc">>), W("-c"), Cs(<<2, 0, 2>>)>> \o Once),
    Stat(<<Op(4), Cl(5), Dsu(Ev(6)), Dmc(Ev(1))>>, <<W("-m"), M(<<"ddr_bw", "dcache", "l3_cache">>)>> \o Once),
    Stat(<<Ev(1)>>, <<W("-m"), M(<<"imix">>)>>),
    Stat(<<Op(2), Cl(3), Ev(4), Op(5), Cl(6), Dsu(Ev(7))>>,
         <<W("-m"), M(<<"ipc">>), W("-c"), Cs(<<2, 1>>), W("-t"), W("-n"), N("once", 1), W("-o"), Csv("to", TRUE)>> \o Once),
    Stat(<<Ev(1), Dsu(Op(2)), Dsu(Cl(3)), Dsu(Ev(4)), Dmc(Ev(5)), Dmc(Ev(6)), Div2(Ev(5))>>,
         <<W("--dmc"), N("second", 1), W("-t"), W("-n"), N("once", 1), W("--output-csv"), Csv("to", FALSE)>> \o Once),
    Stat(<<Dmc(Op(1)), Dmc(Cl(2)), Dmc(Ev(3)), Ev(4)>>, <<W("-c"), Cs(<<1>>), W("-t"), W("-n"), N("once", 1)>> \o Once),
    Record(Srcs(<<17, 3>>), <<W("-c"), Cs(<<1>>)>>),
    Record(Srcs(<<9, 17, 3>>), <<W("-c"), Cs(<<0>>), W("--force-lock")>>),
    Record(Srcs(<<9, 3>>), <<W("-c"), Cs(<<0>>), W("--timeout"), T("a second", 110, "s")>>),
    Record(Srcs(<<3>>), <<>>),
    Record(Spe(TRUE), <<W("-c"), Cs(<<1>>)>>),
    Record(Spe(FALSE), <<W("-c"), Cs(<<1>>)>>),
    <<W("sample"), W("-e"), Srcs(<<8, 3>>), W("--pe_file"), File(TRUE), W("-c"), Cs(<<1>>), W("--timeout"), T("a second", 100, "s")>>,
    <<W("sample"), W("--pe_file"), File(TRUE), W("-c"), Cs(<<1>>)>>,
    <<W("sample"), W("-e"), Spe(TRUE), W("--pe_file"), File(TRUE), W("-c"), Cs(<<1>>), W("--timeout"), T("a second", 110, "s")>>,
    <<W("sample"), W("--pe_file"), File(FALSE)>> }

\* A sample in one of two functions or in neither, of one counter or two.
MCSymbols == << [name |-> "main", from |-> 16, size |-> 16], [name |-> "f", from |-> 32, size |-> 4] >>
MCSampleFrames == {[pc |-> 16, ov_flags |-> {1}], [pc |-> 33, ov_flags |-> {1, 3}],
                   [pc |-> 36, ov_flags |-> {3, 31}], [pc |-> 16, ov_flags |-> {31}]}

Rec(at, class, op, bits, sz, long, ts, pad) ==
  [pc |-> <<at, 0, 0, 0, 0, 0>>, class |-> class, op |-> op, bits |-> bits, sz |-> sz, long |-> long, ts |-> ts,
   pad |-> pad]

MCProfiles ==
  { <<>>,
    << Rec(16, 1, 0, {1, 2}, 1, FALSE, FALSE, 3), Rec(33, 1, 1, {1, 2}, 1, FALSE, TRUE, 0),
       Rec(20, 1, 0, {1, 2, 12}, 1, TRUE, TRUE, 2) >>,
    << Rec(40, 2, 1, {1, 7, 17}, 2, FALSE, TRUE, 0), Rec(40, 2, 1, {1, 7}, 0, TRUE, FALSE, 0) >>,
    << Rec(16, 0, 0, {15}, 1, FALSE, TRUE, 0) >> }
=============================================================================
