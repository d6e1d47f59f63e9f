-------------------------- MODULE ExecutionsSafety --------------------------
(***************************************************************************)
(* What the chart promises of the executions it is shown.                  *)
(***************************************************************************)
EXTENDS Executions

(* The records of the window, had every report come at once.               *)
Truth ==
    LET inWindow == {i \in DOMAIN at : at[i] >= clock - Window}
    IN  [i \in inWindow |-> [id |-> i, time |-> at[i], pnl |-> IbPnl(i),
                             comm |-> Comm, mult |-> TRUE]]

Forgotten ==
    {i \in DOMAIN Truth \ (gateway \cup DOMAIN fills) : i \notin DOMAIN store \/ store[i] # Truth[i]}
Misdated == {i \in DOMAIN store : store[i].time # at[i]}
Unscaled ==
    /\ setup.kind = "FUT" /\ store # <<>> /\ ~ MultKnown(Ordered(store), cache)
    /\ \A i \in DOMAIN store : store[i].pnl # NoPnl

(* "Round-trip totals are identical under either method; only the split    *)
(* between realized and open P&L differs": matched on all there is to know,*)
(* no contract falls back, the lots are the position, and what is gained   *)
(* or lost, realized or not, is what IB says it is.                        *)
LifoBalances ==
    [][sweep.stage = "fetched" /\ sweep'.stage = "store" /\ setup.kind = "FUT"
       /\ sweep'.rows = Truth /\ Truth # <<>> /\ cache = PositionNow =>
          LET rows == Ordered(Truth)
              lots == basis'.lots
              avg == IF cache.qty = 0 THEN 0 ELSE cache.avg
          IN  /\ basis'.method = "lifo"
              /\ OpenQty(lots) = cache.qty
              /\ Sum(basis'.realized) - Mult * lots.dir * Total(lots.costs)
                     = Sum([n \in DOMAIN rows |-> rows[n].ib]) - Mult * cache.qty * avg]_vars

(* Late reports, a restart of the engine or the gateway, an outage and     *)
(* positions written out of order are all caught up with, by one sweep:    *)
(* what it shows, when nothing has changed since it asked, is what IB has  *)
(* executed in the window, unless IB's client forgot it, or its report,    *)
(* before a sweep had it, or it was first seen misdated, or only closing   *)
(* fills are left to tell the multiplier: the sweep that takes what such a *)
(* fill realized leaves the multiplier to the next.                        *)
OneSweepIsEnough ==
    [][sweep.stage = "markers" /\ sweep'.stage = "idle" /\ quiet'
       /\ cache = PositionNow /\ gateway \subseteq DOMAIN fills /\ (\A i \in DOMAIN fills : fills[i])
       /\ Forgotten = {} /\ Misdated = {} /\ ~ Unscaled =>
          LET matched == Matched(Truth, PositionNow)
          IN  /\ rollup = RolledUp(Truth, matched)
              /\ markers' = Marked(Truth)
              /\ Served = IF matched.method = "lifo" /\ cache.qty # 0
                          THEN AvgCost(matched.lots) ELSE cache.avg]_vars
=============================================================================
