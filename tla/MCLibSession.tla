---------------------------- MODULE MCLibSession ----------------------------
(* An instance of LibSession for TLC: two metrics of different sizes,      *)
(* counts on one core and on two, and samplings of two events whose hits   *)
(* have lines or have none.                                                *)
EXTENDS LibSession

MCMetrics    == <<"m1", "m2">>
MCMetricSize == [m \in {"m1", "m2"} |-> IF m = "m1" THEN 2 ELSE 1]
MCCounting   == {<<0>>, <<0, 1>>}

Hit(e, n, lines) == [event |-> e, hits |-> n, lines |-> lines]

MCProfiles == {<<Hit("e1", 1, 0), Hit("e2", 1, 0)>>,
               <<Hit("e1", 2, 1), Hit("e2", 1, 1)>>}

MCTogether == {{"events", "metrics"}, {"stat", "sample"}, {"test"}}

MCTestRows == <<1, 2, 3>>
=============================================================================
