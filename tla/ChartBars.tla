------------------------------ MODULE ChartBars ------------------------------
(***************************************************************************)
(* A bot that trades with strategies/chart_signal.py, bar by bar: the raw  *)
(* bars of its stream, of which its aggregator makes the bars it acts on,  *)
(* the chain of gates and filters between a line touched by a new pivot    *)
(* and an order, the exit check at each bar of a trade, and the row that   *)
(* tells the operator what was decided.  What happens between two bars is  *)
(* in ChartTicks.  A short trade is a long one on the prices upside down.  *)
(***************************************************************************)
EXTENDS SrFan

CONSTANTS
    Trail,              \* trail_width_pct
    FarMult,            \* far_from_pivot_max_trail_mult
    RecentBars,         \* entry_max_q_age_hours, in bars
    MinRecent,          \* entry_min_recent_strict_touches
    DominanceRatio,     \* entry_opposing_dominance_ratio
    MarginalCap,        \* entry_marginal_max_bypassed_filters
    SpacingRatio,       \* entry_line_max_inter_gap_ratio
    TriangleBars,       \* entry_triangle_block_distance
    Overshoot,          \* accel_overshoot_fraction
    SlopeRatio,         \* min_slope_ratio
    MaxLineAge,         \* entry_line_max_age_hours, in bars
    Setups              \* how the strategy is configured: whether entries may be marginal,
                        \* and accelerated, whether the regime gate is on, it is a future;
                        \* lookback_bars; what the closes, in ticks, of the market's bars
                        \* may be; and what may go wrong or get between

ASSUME ChartBarsAssumption ==
    /\ {Trail, FarMult, RecentBars, MinRecent, DominanceRatio, MarginalCap, SpacingRatio,
        TriangleBars, Overshoot, SlopeRatio, MaxLineAge} \subseteq Nat
    /\ \A s \in Setups :
          /\ {s.marginal, s.accel, s.regime, s.future} \subseteq BOOLEAN
          /\ s.lookback \in Nat \ {0}
          /\ s.prices \in Seq(SUBSET Nat) \ {<<>>}
          /\ s.hitches \subseteq {"parts", "history", "late", "deadzone", "refused", "forced"}

VARIABLES
    setup,     \* one of Setups
    market,    \* the closes of the market's bars so far, as IB's history has them
    price,     \* the close of its latest raw bar
    partial,   \* the aggregator's bar in progress
    local,     \* its ring of completed bars
    state,     \* the bot's state
    trade,     \* entry_line and the water mark
    cool,      \* cooldown_until: the last bar that is skipped
    last       \* what was last evaluated, and decided

vars == <<setup, market, price, partial, local, state, trade, cool, last>>

States == {"AWAITING_ENTRY_TRIGGER", "ENTRY_ORDER_PLACED",
           "AWAITING_EXIT_TRIGGER", "EXIT_ORDER_PLACED"}
Placed == {"ENTRY_ORDER_PLACED", "EXIT_ORDER_PLACED"}
Sides == {"long", "short"}

Bar(slot, close) == [slot |-> slot, close |-> close]
Closes(window) == [i \in DOMAIN window |-> window[i].close]
On(side, v) == IF side = "long" THEN v ELSE -v
Facing(side, c) == [i \in DOMAIN c |-> On(side, c[i])]

Nothing == [side |-> "long", rise |-> 0, run |-> 1, base |-> 0, slot |-> 0, accel |-> FALSE,
            marginal |-> FALSE, mark |-> 0]
NoEval == [kind |-> "none", window |-> <<>>, decision |-> "none", killer |-> "none",
           order |-> "none"]

Init ==
    /\ setup \in Setups
    /\ market = <<>> /\ price \in setup.prices[1]
    /\ partial = Bar(1, price) /\ local = <<>>
    /\ state = "AWAITING_ENTRY_TRIGGER" /\ trade = Nothing /\ cool = 0
    /\ last = NoEval

-----------------------------------------------------------------------------
(* What a side sees of a window: the closes facing it, and the two fans.   *)
View(side, closes) ==
    LET c == Facing(side, closes)
    IN [side |-> side, c |-> c, fan |-> Range(Fan(c)), across |-> Range(Fan(UpsideDown(c)))]

NewPivot(c) == Len(c) - 1
IsNewPivot(c) == NewPivot(c) \in PivotLows(c)

PriorTouches(c, l) ==
    {i \in PivotLows(c) : l.q <= i /\ i < NewPivot(c) /\ Touched(c, l, i)}

(* _inter_touch_spacing_ok()                                               *)
WellSpaced(c, l) ==
    LET prior == PriorTouches(c, l)  t == Max(prior)  before == t - Max(prior \ {t})
        since == NewPivot(c) - t
    IN Cardinality(prior) >= 2 => Max({before, since}) <= SpacingRatio * Min({before, since})

(* A line of the right slope, unbroken, with its touches, the new pivot's  *)
(* among them.                                                             *)
Triggered(c, l) ==
    l.touches >= MinTouches /\ l.rise > 0 /\ ~ l.broken /\ Touched(c, l, NewPivot(c))

(* The order of longs and shorts: most touches first, then the steepest.   *)
Preferred(l, e) == l.touches > e.touches \/ (l.touches = e.touches /\ Steeper(l, e))
Best(lines) == CHOOSE l \in lines : \A e \in lines : ~ Preferred(e, l)

(* _find_2pivot_accel(): the new pivot and the two lows before it.         *)
Base(c) ==
    LET lows == PivotLows(c) \cap 1 .. NewPivot(c) - 1  p == Max(lows)
    IN Segment(Through(c, Max(lows \ {p}), p), FALSE, Len(c), 2)

Accelerates(c) ==
    /\ Cardinality(PivotLows(c) \cap 1 .. NewPivot(c) - 1) >= 2
    /\ LET l == Base(c)  new == NewPivot(c) IN
       /\ l.q >= Len(c) - RecentBars
       /\ l.rise > 0
       /\ Above(l, new, c[new]) > Max({TouchTol, Overshoot}) * l.run
       /\ (c[new] - c[l.p]) * l.run >= SlopeRatio * l.rise * (new - l.p)

(* What a new pivot makes of a side: a line or an acceleration, unless its *)
(* touches are spaced too unevenly.                                        *)
Triggers(v) == {l \in v.fan : Triggered(v.c, l)}
Spaced(v) == {l \in Triggers(v) : WellSpaced(v.c, l)}
Accelerated(c) == setup.accel /\ Accelerates(c)

Found(v) ==
    IF ~ IsNewPivot(v.c) THEN {}
    ELSE IF Spaced(v) # {} THEN {[line |-> Best(Spaced(v)), accel |-> FALSE]}
    ELSE IF Accelerated(v.c) /\ WellSpaced(v.c, Base(v.c))
    THEN {[line |-> Base(v.c), accel |-> TRUE]} ELSE {}

SpacingRejects(v) ==
    IsNewPivot(v.c) /\ Found(v) = {} /\ (Triggers(v) # {} \/ Accelerated(v.c))

-----------------------------------------------------------------------------
(* The filters of a candidate, in the order in which _on_bar() applies     *)
(* them, and what each of them objects to.                                 *)

Filters == <<"shoulder", "tight_triangle", "min_target", "too_old", "counter_trend",
             "far_from_pivot", "stale_line", "opposing_dominance",
             "too_many_marginal_bypasses">>
Bypassable == {"shoulder", "tight_triangle", "min_target", "counter_trend", "opposing_dominance"}

WeakShoulder(c) == c[Len(c)] <= c[NewPivot(c) - 1]

(* The wedge whose apex is nearest.                                        *)
WedgesOf(v) == Wedges(v.fan, v.across, Len(v.c))
Ahead(v, w) == BarsToApex(w[1], w[2], Len(v.c))
Nearest(v) == CHOOSE w \in WedgesOf(v) : \A u \in WedgesOf(v) : Ahead(v, w) <= Ahead(v, u)

TightTriangle(v) == WedgesOf(v) # {} /\ Ahead(v, Nearest(v)) <= TriangleBars

(* What the wedge leaves to gain is less than what the stop may lose.      *)
SmallTarget(v, l) ==
    /\ WedgesOf(v) # {}
    /\ LET n == Len(v.c)  r == Nearest(v)[2]  gain == -Above(r, n, v.c[n]) IN
       /\ gain > 0
       /\ \/ gain < Trail * r.run
          \/ gain * l.run < Distance(Above(l, n, v.c[n])) * r.run

FarFromPivot(c, l) ==
    Distance((c[Len(c)] - c[NewPivot(c)]) * l.run - l.rise) > FarMult * Trail * l.run

StaleLine(c, l) ==
    Cardinality({i \in PivotLows(c) : /\ i >= Len(c) - RecentBars /\ i <= l.to
                                      /\ Touched(c, l, i)}) < MinRecent

OpposingDominance(v, l) ==
    \E r \in v.across : ~ r.broken /\ r.touches >= DominanceRatio * l.touches

Objections(v, l, late) ==
    {f \in Range(Filters) :
        \/ f = "shoulder" /\ WeakShoulder(v.c)
        \/ f = "tight_triangle" /\ TightTriangle(v)
        \/ f = "min_target" /\ SmallTarget(v, l)
        \/ f = "too_old" /\ late
        \/ f = "counter_trend" /\ l.rise < 0
        \/ f = "far_from_pivot" /\ FarFromPivot(v.c, l)
        \/ f = "stale_line" /\ StaleLine(v.c, l)
        \/ f = "opposing_dominance" /\ OpposingDominance(v, l)}

(* allow_marginal_entries: those that are only noted.                      *)
Bypassed(objections) == IF setup.marginal THEN objections \cap Bypassable ELSE {}

AllObjections(objections) ==
    IF Cardinality(Bypassed(objections)) > MarginalCap
    THEN objections \cup {"too_many_marginal_bypasses"} ELSE objections

(* The SKIPs that the chain logs, up to the one that ends it.  When one of *)
(* the first three leaves no candidate, another SKIP follows, without a    *)
(* filter's name.                                                          *)
Ends(objections) == {k \in DOMAIN Filters : Filters[k] \in objections \ Bypassed(objections)}

Skip(nth, f, bypassed) == [nth |-> nth, filter |-> f, bypassed |-> bypassed]

Skips(objections) ==
    LET ends == Ends(objections)
        said == {k \in DOMAIN Filters : Filters[k] \in objections /\ \A e \in ends : k <= e}
    IN {Skip(k, Filters[k], Filters[k] \in Bypassed(objections)) : k \in said}
         \cup {Skip(Len(Filters) + 1, "no_new_pivot", FALSE) : k \in said \cap ends \cap 1 .. 3}

Killer(objections) ==
    IF Ends(objections) = {} THEN "none" ELSE Filters[Min(Ends(objections))]

-----------------------------------------------------------------------------
(* _synthesize_bar_eval(): an order first, then the first SKIP that was    *)
(* not bypassed.                                                           *)
First(skips) == CHOOSE s \in skips : \A t \in skips : s.nth <= t.nth

DecisionMutant(order, skips, inTrade) ==
    IF order # "none" THEN order
    ELSE IF skips # {} THEN First(skips).filter
    ELSE IF inTrade THEN "HOLDING" ELSE "GATED"

Decision(order, skips, inTrade) ==
    LET against == {s \in skips : ~ s.bypassed}
    IN IF order # "none" THEN order
       ELSE IF against # {} THEN First(against).filter
       ELSE IF inTrade THEN "HOLDING" ELSE "GATED"

Evaluated(kind, window, killer, order, skips) ==
    last' = [kind |-> kind, window |-> window, killer |-> killer, order |-> order,
             decision |-> Decision(order, skips, kind = "exit")]

(* A bar that ends before a candidate is looked for, or without one.       *)
Gated(window, gate) ==
    /\ Evaluated("entry", window, gate, "none",
                 IF gate = "none" THEN {} ELSE {Skip(1, gate, FALSE)})
    /\ UNCHANGED <<state, trade>>

FiresMutant(window, side, x, objections) ==
    LET l == x.line IN
    /\ state' = "ENTRY_ORDER_PLACED"
    /\ trade' = [side |-> side, rise |-> l.rise, run |-> l.run, base |-> l.base,
                 slot |-> window[l.q].slot, accel |-> x.accel,
                 marginal |-> Bypassed(objections) # {}, mark |-> 0]
    /\ Evaluated("entry", window, "none", IF side = "long" THEN "BUY" ELSE "SELL",
                 Skips(objections))

Fires(window, side, x, objections) ==
    LET l == x.line IN
    /\ state' = "ENTRY_ORDER_PLACED"
    /\ trade' = [side |-> side, rise |-> l.rise, run |-> l.run, base |-> l.base,
                 slot |-> window[l.p].slot, accel |-> x.accel,
                 marginal |-> Bypassed(objections) # {}, mark |-> 0]
    /\ Evaluated("entry", window, "none", IF side = "long" THEN "BUY" ELSE "SELL",
                 Skips(objections))

(* A bar is not a low and a high at once: at most one side has a candidate, *)
(* and the choice between the two is never made.                           *)
Looks(window, late) ==
    LET views == {View(side, Closes(window)) : side \in Sides}
        found == UNION {{<<v, x>> : x \in Found(v)} : v \in views}
    IN IF found = {}
       THEN Gated(window, IF \E v \in views : SpacingRejects(v)
                          THEN "inter_touch_spacing" ELSE "no_new_pivot")
       ELSE \E f \in found :
               LET objections == AllObjections(Objections(f[1], f[2].line, late)) IN
               IF Killer(objections) = "none"
               THEN Fires(window, f[1].side, f[2], objections)
               ELSE /\ Evaluated("entry", window, Killer(objections), "none", Skips(objections))
                    /\ UNCHANGED <<state, trade>>

(* The regime at a pivot is any: a trend against it, a flat market that     *)
(* does not pay or in which it is no extreme, or one that lets it pass.    *)
AtPivot(c) == IsNewPivot(c) \/ IsNewPivot(UpsideDown(c))
TrendGate(c) == IF IsNewPivot(c) THEN "local_trough_in_downtrend" ELSE "local_peak_in_uptrend"
FlatGates == {"flat_amplitude", "flat_extreme"}

Regime(window) ==
    /\ setup.regime /\ AtPivot(Closes(window))
    /\ \E gate \in {TrendGate(Closes(window))} \cup FlatGates :
          Gated(window, gate)

(* The history may come so late that the signal is too old.                *)
Delays == IF "late" \in setup.hitches THEN BOOLEAN ELSE {FALSE}

(* _on_bar() while it awaits an entry.                                     *)
EvaluatesEntry(bar, window) ==
    IF bar.slot <= cool THEN Gated(<<>>, "cooldown")
    ELSE \/ setup.future /\ "deadzone" \in setup.hitches /\ Gated(<<>>, "none")
         \/ Len(window) < 4 /\ Gated(<<>>, "none")
         \/ Len(window) >= 4 /\ (Regime(window) \/ \E late \in Delays : Looks(window, late))

-----------------------------------------------------------------------------
(* _evaluate_exit(): the bar's close against the line where it is by now,  *)
(* and against the trail below the best close so far.                      *)
LineAt(t, slot) == t.base * t.run + t.rise * (slot - t.slot)

ThroughLine(t, bar) ==
    /\ ~ t.accel
    /\ On(t.side, bar.close) * t.run < LineAt(t, bar.slot) - TouchTol * t.run
ThroughTrail(t, bar) == On(t.side, bar.close) < Max({t.mark, On(t.side, bar.close)}) - Trail

EvaluatesExit(bar) ==
    IF bar.slot - trade.slot > MaxLineAge
    THEN Evaluated("exit", <<bar>>, "none", "none", {}) /\ UNCHANGED <<state, trade>>
    ELSE /\ trade' = [trade EXCEPT !.mark = Max({@, On(trade.side, bar.close)})]
         /\ IF ThroughLine(trade, bar) \/ ThroughTrail(trade, bar)
            THEN /\ state' = "EXIT_ORDER_PLACED"
                 /\ Evaluated("exit", <<bar>>, "none",
                              IF trade.side = "long" THEN "SELL" ELSE "BUY", {})
            ELSE /\ Evaluated("exit", <<bar>>, "none", "none", {}) /\ UNCHANGED state

(* _fetch_history(), which lags by a bar or fails, and the bars of the     *)
(* aggregator that are newer.                                              *)
Histories(past) ==
    {Len(past) - 1, Len(past)} \cup (IF "history" \in setup.hitches THEN {0} ELSE {})

Newer(ring, known) ==
    SubSeq(ring, Cardinality({i \in DOMAIN ring : ring[i].slot <= known}) + 1, Len(ring))

WindowMutant(past, known, ring) == [i \in 1 .. known |-> Bar(i, past[i])]

Window(past, known, ring) == [i \in 1 .. known |-> Bar(i, past[i])] \o Newer(ring, known)

Evaluates(bar, past, ring) ==
    IF Len(ring) < setup.lookback THEN UNCHANGED <<state, trade, last>>
    ELSE IF state = "AWAITING_EXIT_TRIGGER" THEN EvaluatesExit(bar)
    ELSE \E window \in {Window(past, known, ring) : known \in Histories(past)} :
            EvaluatesEntry(bar, window)

(* The market's next raw bar, in the bar in progress or in a new one.      *)
Ring(bars) == IF Len(bars) > setup.lookback THEN Tail(bars) ELSE bars

Hears(v, past) ==
    IF partial.slot = Len(past) + 1
    THEN partial' = [partial EXCEPT !.close = v] /\ UNCHANGED <<state, trade, local, last>>
    ELSE /\ partial' = Bar(Len(past) + 1, v)
         /\ local' = Ring(Append(local, partial))
         /\ Evaluates(partial, past, Ring(Append(local, partial)))

RawBar ==
    \E rolls \in (IF "parts" \in setup.hitches THEN BOOLEAN ELSE {TRUE}) :
        LET past == IF rolls THEN Append(market, price) ELSE market IN
        /\ Len(past) < Len(setup.prices)
        /\ market' = past /\ price' \in setup.prices[Len(past) + 1]
        /\ IF state \in Placed THEN UNCHANGED <<partial, state, trade, local, last>>
           ELSE Hears(price', past)
        /\ UNCHANGED <<setup, cool>>

(* The order fills, or ends unfilled.                                      *)
EntryFills ==
    /\ state = "ENTRY_ORDER_PLACED"
    /\ state' = "AWAITING_EXIT_TRIGGER"
    /\ trade' = [trade EXCEPT !.mark = On(trade.side, price)]
    /\ UNCHANGED <<setup, market, price, partial, local, cool, last>>

ExitFills ==
    /\ state = "EXIT_ORDER_PLACED"
    /\ state' = "AWAITING_ENTRY_TRIGGER" /\ trade' = Nothing
    /\ cool' = Len(market) + 2
    /\ UNCHANGED <<setup, market, price, partial, local, last>>

Unfilled ==
    /\ "refused" \in setup.hitches /\ state \in Placed
    /\ IF state = "ENTRY_ORDER_PLACED"
       THEN state' = "AWAITING_ENTRY_TRIGGER" /\ trade' = Nothing
       ELSE state' = "AWAITING_EXIT_TRIGGER" /\ UNCHANGED trade
    /\ UNCHANGED <<setup, market, price, partial, local, cool, last>>

(* force_buy() and force_short(): with a flat line at the price.           *)
Forces ==
    /\ "forced" \in setup.hitches /\ state = "AWAITING_ENTRY_TRIGGER"
    /\ \E side \in Sides :
          trade' = [Nothing EXCEPT !.side = side, !.base = On(side, price), !.slot = Len(market) + 1]
    /\ state' = "ENTRY_ORDER_PLACED"
    /\ UNCHANGED <<setup, market, price, partial, local, cool, last>>

Next == RawBar \/ EntryFills \/ ExitFills \/ Unfilled \/ Forces
Spec == Init /\ [][Next]_vars
=============================================================================
