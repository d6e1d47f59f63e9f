-------------------------- MODULE ChartTicksSafety --------------------------
(***************************************************************************)
(* What ChartTicks promises of the exits between two bars.                 *)
(***************************************************************************)
EXTENDS ChartTicks

Exits(reason) ==
    state = "AWAITING_EXIT_TRIGGER" /\ state' = "EXIT_ORDER_PLACED" /\ doc'.reason = reason

(* A stop between two bars is due to this trade's own quotes: those of a   *)
(* marginal trade have all been at or beyond its stop for the linger, and  *)
(* a clean trade is not stopped before the first poll after its fill.      *)
StopIsEarned ==
    [][Exits("trail_stop") =>
          /\ seen'.beyond # None
          /\ IF line.kind = "marginal" THEN seen'.beyond >= Linger ELSE seen'.life >= Interval]_vars

(* A counter exit is due to a level on the profit side of this trade's     *)
(* entry that this trade has reached at least a hold ago and is not past:  *)
(* nothing of an earlier trade or of the other side closes it.             *)
CounterIsEarned ==
    [][Exits("counter_line") =>
          \E l \in setup.levels : /\ seen'.reached[l] >= Hold
                                  /\ Better(line.side, l, doc.entry)
                                  /\ ~ PastLevel(mid', l)]_vars

(* The delays only delay: a trade does not stay open while every quote is  *)
(* at or beyond its stop.                                                  *)
LossIsCut == []<>~ (state = "AWAITING_EXIT_TRIGGER" /\ seen.beyond # None)

-----------------------------------------------------------------------------

(* "refuses when the bot is already in a position": an exit is an order    *)
(* that makes the position smaller.                                        *)
ExitReduces ==
    [][state # "EXIT_ORDER_PLACED" /\ state' = "EXIT_ORDER_PLACED" =>
          held # 0 /\ order'.side = IF held > 0 THEN "short" ELSE "long"]_vars
=============================================================================
