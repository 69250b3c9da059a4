------------------------------ MODULE MCUncore ------------------------------
(* Uncore on one cluster of two cores whose DSU has one counter, and one   *)
(* memory controller with a clkdiv2 and a clk counter.                     *)
EXTENDS Uncore

\* One DSU event on one core; on all cores, with a clk event; and more DSU
\* events than counters, and both classes of memory controller events, next to a
\* core event, on the core that is not the cluster's first.
MCRequests ==
  {[cores |-> <<0>>, core |-> <<>>, dsu |-> <<"d1">>, clk |-> <<>>, clkdiv2 |-> <<>>],
   [cores |-> <<0, 1>>, core |-> <<>>, dsu |-> <<"d1">>, clk |-> <<"m2">>, clkdiv2 |-> <<>>],
   [cores |-> <<1>>, core |-> <<"c1">>, dsu |-> <<"d1", "d2">>, clk |-> <<"m2">>, clkdiv2 |-> <<"m1">>]}
=============================================================================
