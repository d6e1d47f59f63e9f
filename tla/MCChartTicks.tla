---------------------------- MODULE MCChartTicks ----------------------------
(* ChartTicks on four prices, with a counter line: a trade each way, of    *)
(* each kind, with refusals, no history, a force-sell or a force-buy.      *)
EXTENDS ChartTicksSafety

Plain == [sides |-> {"long"}, kinds |-> {"clean"}, forces |-> {}, rise |-> 0,
          levels |-> {3}, atr |-> {1}, hitches |-> {"refused"}]

MC_Setups ==
    {[Plain EXCEPT !.hitches = {"refused", "history"}],
     [Plain EXCEPT !.kinds = {"marginal", "accel"}, !.rise = 1, !.atr = {0, 2}, !.hitches = {"history"}],
     [Plain EXCEPT !.sides = {"short"}, !.kinds = {"marginal"}, !.levels = {2}, !.hitches = {"sold"}],
     [Plain EXCEPT !.kinds = {"marginal"}, !.forces = {"long"}, !.levels = {}]}

(* Force-short by a bot that buys.                                         *)
MC_ForceSetups == {[Plain EXCEPT !.forces = {"short"}, !.levels = {}]}
=============================================================================
