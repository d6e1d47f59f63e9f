----------------------------- MODULE MCChartBars -----------------------------
EXTENDS ChartBarsSafety

(* Lows and highs by turns; a wedge; a line that is touched again after     *)
(* long, and after too long; one that is broken; lows that rise ever more;  *)
(* a line that is touched again and broken while an order on it is placed;  *)
(* and all upside down.                                                     *)
Zigzag == <<{4}, {0}, {4, 5}, {1, 2}, {1, 3, 4}, {2, 3}, {2, 3, 5}, {2, 3, 4}, {2, 3, 4, 6}, {1, 4}>>
Wedge == <<{3}, {1}, {5, 6}, {3}, {2}, {5, 6}, {4}, {3}, {3, 5}, {2, 5}>>
Late == <<{2}, {0}, {2}, {3}, {1}, {3}, {4}, {4}, {4}, {4}, {3}, {5, 6}, {2, 6}>>
Uneven == <<{2}, {0}, {3}, {1}, {4}, {4}, {4}, {5}, {5}, {4}, {6}, {6}>>
Broken == <<{3}, {1}, {3}, {2}, {4}, {2, 4}, {5}, {4}, {6}, {3, 6}>>
Steep == <<{3}, {0}, {3, 4}, {1}, {4}, {3}, {5, 6}, {3, 5}, {1, 6}>>
Deaf == <<{4}, {0}, {3}, {1}, {3}, {2}, {4}, {3}, {5}, {2, 5}, {6}>>
Rally == <<{4}, {0}, {4}, {1}, {4}, {2}, {5}, {4}, {6}, {5}, {6}>>
Flipped(m) == [i \in DOMAIN m |-> {6 - v : v \in m[i]}]

BothWays(m) == {m, Flipped(m)}

Setting(marginal, accel, regime, future, lookback, markets, hitches) ==
    {[marginal |-> marginal, accel |-> accel, regime |-> regime, future |-> future,
      lookback |-> lookback, prices |-> m, hitches |-> hitches] : m \in UNION {BothWays(m) : m \in markets}}

MC_Setups ==
    Setting(FALSE, FALSE, TRUE, TRUE, 1, {Zigzag, Wedge, Late}, {"deadzone", "late"})
        \cup Setting(TRUE, FALSE, FALSE, FALSE, 1, {Zigzag, Wedge, Late, Uneven, Broken}, {"refused", "late"})
        \cup Setting(FALSE, TRUE, FALSE, FALSE, 1, {Zigzag, Uneven, Steep}, {"refused"})
        \cup Setting(TRUE, TRUE, FALSE, FALSE, 1, {Steep}, {"forced", "parts", "history"})
        \cup Setting(TRUE, FALSE, FALSE, FALSE, 7, {Rally}, {"refused", "forced", "history"})
        \cup Setting(TRUE, FALSE, FALSE, FALSE, 1, {Deaf}, {"refused"})
=============================================================================
