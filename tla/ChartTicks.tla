----------------------------- MODULE ChartTicks -----------------------------
(***************************************************************************)
(* The trades of a bot that uses strategies/chart_signal.py, between the   *)
(* bars: what each quote does to the stop, to the two timers that delay it *)
(* and to the counter lines, the bars in between, fills and refusals, and  *)
(* the operator's force-buy, force-short and force-sell beside the event   *)
(* loop.  How a bar finds its line is in ChartBars.  Timers are kept as    *)
(* the time they have been running, up to the delay they are for; -1 is    *)
(* the None of a price or a timer.  The line moves by its slope at bars.   *)
(***************************************************************************)
EXTENDS Integers, FiniteSetsExt

CONSTANTS
    Prices,      \* bound: the prices, in ticks
    Trail,       \* trail_width_pct
    Tol,         \* touch_tolerance_fraction
    Linger,      \* sl_linger_marginal_seconds
    Interval,    \* sl_check_clean_seconds
    Hold,        \* counter_exit_hold_seconds
    Setups       \* the sides and kinds of entries, what the line rises by, the levels of
                 \* counter lines, and what may go wrong or get between

Sides == {"long", "short"}
Kinds == {"clean", "marginal", "accel"}
Hitches == {"history", "refused", "forced", "sold"}
None == -1

ASSUME ChartTicksAssumption ==
    /\ Prices \subseteq Nat \ {0}
    /\ {Trail, Tol} \subseteq Nat
    /\ {Linger, Interval, Hold} \subseteq Nat \ {0}
    /\ \A s \in Setups :
          /\ s.sides \subseteq Sides /\ s.kinds \subseteq Kinds /\ s.forces \subseteq Sides
          /\ s.rise \in Nat /\ s.levels \subseteq Nat /\ s.atr \subseteq Nat
          /\ s.hitches \subseteq Hitches

VARIABLES
    setup,     \* one of Setups
    mid,       \* the latest quote
    state,     \* the bot's state
    line,      \* entry_line
    doc,       \* the fields of the trade
    order,     \* the order at the engine
    held,      \* the position
    force,     \* a force-buy or force-short between its steps
    seen       \* history of the trade, for the properties: what the market has done

vars == <<setup, mid, state, line, doc, order, held, force, seen>>

NoLine == [side |-> "long", kind |-> "none", frozen |-> None, here |-> None]
NoTouch == [level |-> None, age |-> None]
NoDoc == [entry |-> None, mark |-> None, stop |-> None, touch |-> None, check |-> None,
          cache |-> {}, counter |-> NoTouch, atr |-> None, reason |-> "none"]
NoOrder == [leg |-> "none", side |-> "long"]
NoForce == [step |-> "none", side |-> "long"]
Unseen == [life |-> None, best |-> None, beyond |-> None, reached |-> [l \in {} |-> None]]

Init ==
    /\ setup \in Setups /\ mid \in Prices
    /\ state = "AWAITING_ENTRY_TRIGGER"
    /\ line = NoLine /\ doc = NoDoc /\ order = NoOrder /\ held = 0 /\ force = NoForce
    /\ seen = Unseen

Other(side) == CHOOSE s \in Sides : s # side
On(side, v) == IF side = "long" THEN v ELSE -v
Better(side, v, w) == On(side, v) > On(side, w)
Best(side, values) == CHOOSE v \in values : \A w \in values : ~ Better(side, w, v)
Distance(v, w) == Max({v - w, w - v})

(* v is beyond w by more than Tol, against the trade.                      *)
Fails(side, v, w) == On(side, v) < On(side, w) - Tol

-----------------------------------------------------------------------------
(* Timers.                                                                 *)
Older(age, cap) == IF age = None THEN None ELSE Min({age + 1, cap})

Aged(d) == [d EXCEPT !.touch = Older(@, Linger), !.check = Older(@, Interval),
                     !.counter.age = Older(@, Hold)]

(* The trade's history: the time since its fill, its best price, how long  *)
(* its quotes have been beyond its stop without one that was not, and how  *)
(* long ago each level was first reached.                                  *)
StopOf(side, frozen, best) ==
    LET trail == best - On(side, Trail)
    IN IF frozen = None THEN trail ELSE Best(side, {frozen, trail})

Sees(v, s) ==
    LET best == Best(line.side, {s.best, v})
        beyond == ~ Better(line.side, v, StopOf(line.side, line.frozen, best))
    IN [s EXCEPT !.best = best,
                 !.beyond = IF beyond THEN Max({@, 0}) ELSE None,
                 !.reached = [l \in DOMAIN @ |-> IF @[l] = None /\ Distance(v, l) <= Tol
                                                 THEN 0 ELSE @[l]]]

Passes(s) == [s EXCEPT !.life = Older(@, Interval), !.beyond = Older(@, Linger),
                       !.reached = [l \in DOMAIN @ |-> Older(@[l], Hold)]]

-----------------------------------------------------------------------------
(* An exit, with the side that closes the line's trade.                    *)
PlaceExit(d, reason) ==
    /\ state' = "EXIT_ORDER_PLACED"
    /\ order' = [leg |-> "exit", side |-> Other(line.side)]
    /\ doc' = [d EXCEPT !.reason = reason]

(* _check_counter_line_exit(): the level of a counter line is reached, and *)
(* after the hold the trade is closed unless the price is past the level,  *)
(* or the entry line is near and holds.                                    *)
Counts(level) == Better(line.side, level, doc.entry)
PastLevel(v, level) == Fails(Other(line.side), v, level)
LineIsNear(d, v) == d.atr # None /\ line.here # None /\ Distance(v, line.here) <= d.atr
LineFails(v) == line.here # None /\ Fails(line.side, v, line.here)

Arms(d, v) == {l \in d.cache : Counts(l) /\ Distance(v, l) <= Tol}
Drops(d, v) ==
    \/ ~ Counts(d.counter.level)
    \/ d.counter.age >= Hold /\ (PastLevel(v, d.counter.level) \/ (LineIsNear(d, v) /\ ~ LineFails(v)))

CounterClosesMutant(d, v) ==
    d.cache # {} /\ d.counter # NoTouch /\ ~ Drops(d, v)

CounterCloses(d, v) ==
    d.cache # {} /\ d.counter # NoTouch /\ d.counter.age >= Hold /\ ~ Drops(d, v)

(* The counter touch when it does not close the trade.                     *)
Counters(d, v) ==
    IF d.cache = {} THEN {d.counter}
    ELSE IF d.counter = NoTouch
    THEN IF Arms(d, v) = {} THEN {NoTouch} ELSE {[level |-> l, age |-> 0] : l \in Arms(d, v)}
    ELSE IF Drops(d, v) THEN {NoTouch} ELSE {d.counter}

(* _on_quote(): the water mark and the stop, and whether a breach of it is *)
(* due: a marginal trade's after it has lasted, a clean one's at a poll.   *)
Marked(d, v) ==
    LET mark == IF d.mark = None THEN v ELSE Best(line.side, {d.mark, v})
    IN [d EXCEPT !.mark = mark, !.stop = StopOf(line.side, line.frozen, mark)]

Breached(d, v) == ~ Better(line.side, v, d.stop)

Lingers(d, v) ==
    [due |-> Breached(d, v) /\ d.touch >= Linger,
     doc |-> [d EXCEPT !.touch = IF ~ Breached(d, v) \/ d.touch >= Linger THEN None
                                 ELSE Max({@, 0})]]

PollsMutant(d, v) ==
    LET poll == d.check = None \/ d.check >= Interval
    IN [due |-> poll /\ Breached(d, v),
        doc |-> [d EXCEPT !.check = IF poll \/ Breached(d, v) THEN 0 ELSE @]]

Polls(d, v) ==
    LET poll == d.check = None \/ d.check >= Interval
    IN [due |-> poll /\ Breached(d, v),
        doc |-> [d EXCEPT !.check = IF poll THEN 0 ELSE @]]

Stops(d, v) == IF line.kind = "marginal" THEN Lingers(d, v) ELSE Polls(d, v)

Handles(v) ==
    LET d == Aged(doc) IN
    IF CounterCloses(d, v)
    THEN PlaceExit([d EXCEPT !.counter = NoTouch], "counter_line")
    ELSE \E counter \in Counters(d, v) :
            LET s == Stops(Marked([d EXCEPT !.counter = counter], v), v) IN
            IF s.due THEN PlaceExit(s.doc, "trail_stop")
            ELSE doc' = s.doc /\ UNCHANGED <<state, order>>

Quote ==
    /\ mid' \in Prices
    /\ IF state = "AWAITING_EXIT_TRIGGER"
       THEN Handles(mid') /\ seen' = Sees(mid', Passes(seen))
       ELSE doc' = Aged(doc) /\ seen' = Passes(seen) /\ UNCHANGED <<state, order>>
    /\ UNCHANGED <<setup, line, held, force>>

Silence ==
    /\ doc' = Aged(doc) /\ seen' = Passes(seen)
    /\ UNCHANGED <<setup, mid, state, line, order, held, force>>

-----------------------------------------------------------------------------
(* A bar of a trade: _evaluate_exit(), and the counter lines that it finds *)
(* beyond its close, unless there is no history.  Bound: the line goes no  *)
(* further than a step out of Prices.                                      *)
Moved == [line EXCEPT !.here = IF @ \in Prices THEN @ + On(line.side, setup.rise) ELSE @]

BarMarked(d, l) ==
    LET m == Marked(d, mid)
    IN [m EXCEPT !.stop = Best(l.side, {l.here, m.mark - On(l.side, Trail)})]

BarCloses(d, l) ==
    \/ l.kind # "accel" /\ Fails(l.side, mid, l.here)
    \/ On(l.side, mid) < On(l.side, d.mark) - Trail

Refreshed(d) ==
    {[d EXCEPT !.cache = levels, !.atr = atr] :
        levels \in SUBSET {l \in setup.levels : Better(line.side, l, mid)}, atr \in setup.atr}
      \cup (IF "history" \in setup.hitches THEN {[d EXCEPT !.cache = {}]} ELSE {})

Bar ==
    /\ state = "AWAITING_EXIT_TRIGGER" /\ line.here # None
    /\ line' = Moved
    /\ LET d == BarMarked(doc, line') IN
       IF BarCloses(d, line') THEN PlaceExit(d, "bar")
       ELSE doc' \in Refreshed(d) /\ UNCHANGED <<state, order>>
    /\ seen' = [seen EXCEPT !.best = Best(line.side, {@, mid})]
    /\ UNCHANGED <<setup, mid, held, force>>

(* A bar without a trade that signals one.                                 *)
PlaceEntry(side) ==
    /\ state = "AWAITING_ENTRY_TRIGGER"
    /\ state' = "ENTRY_ORDER_PLACED" /\ order' = [leg |-> "entry", side |-> side]

Signal ==
    /\ \E side \in setup.sides, kind \in setup.kinds :
          /\ PlaceEntry(side)
          /\ \E level \in {mid, mid - On(side, 1)} :
                line' = [side |-> side, kind |-> kind, frozen |-> level, here |-> level]
    /\ UNCHANGED <<setup, mid, doc, held, force, seen>>

-----------------------------------------------------------------------------
(* The order fills at the quote: on_entry_filled() and on_exit_filled(),   *)
(* and _on_fill(), which knows an entry by the side of its line.           *)
SeededMutant(d) ==
    [NoDoc EXCEPT !.entry = mid, !.mark = mid, !.stop = mid - On(line.side, Trail)]

Seeded(d) ==
    [NoDoc EXCEPT !.entry = mid, !.mark = mid, !.check = 0, !.stop = mid - On(line.side, Trail)]

Unseeded(d) ==
    [d EXCEPT !.entry = mid, !.mark = IF line.side = "long" THEN mid ELSE @]

EntryFills ==
    /\ order.leg = "entry"
    /\ state' = "AWAITING_EXIT_TRIGGER" /\ order' = NoOrder
    /\ held' = held + On(order.side, 1)
    /\ doc' = IF line.side = order.side THEN Seeded(doc) ELSE Unseeded(doc)
    /\ seen' = [life |-> 0, best |-> mid, beyond |-> None,
                reached |-> [l \in setup.levels |-> None]]
    /\ UNCHANGED <<setup, mid, line, force>>

ExitFills ==
    /\ order.leg = "exit"
    /\ state' = "AWAITING_ENTRY_TRIGGER" /\ order' = NoOrder
    /\ held' = held + On(order.side, 1)
    /\ line' = NoLine /\ doc' = NoDoc /\ seen' = Unseen
    /\ UNCHANGED <<setup, mid, force>>

(* It ends unfilled: on_entry_cancelled(), on_exit_cancelled().            *)
Cancelled ==
    /\ "refused" \in setup.hitches /\ order.leg # "none"
    /\ order' = NoOrder
    /\ IF order.leg = "entry"
       THEN state' = "AWAITING_ENTRY_TRIGGER" /\ line' = NoLine /\ doc' = NoDoc
       ELSE state' = "AWAITING_EXIT_TRIGGER" /\ UNCHANGED <<line, doc>>
    /\ UNCHANGED <<setup, mid, held, force, seen>>

(* force_buy() and force_short(): the handler looks at the state, writes   *)
(* the line, and places the order if the state still allows it.            *)
ForceChecks ==
    /\ force = NoForce /\ state = "AWAITING_ENTRY_TRIGGER"
    /\ \E side \in setup.forces : force' = [step |-> "seed", side |-> side]
    /\ UNCHANGED <<setup, mid, state, line, doc, order, held, seen>>

ForceSeeds ==
    /\ force.step = "seed"
    /\ line' = [side |-> force.side, kind |-> "clean", frozen |-> None, here |-> mid]
    /\ force' = [force EXCEPT !.step = "place"]
    /\ UNCHANGED <<setup, mid, state, doc, order, held, seen>>

ForcePlaces ==
    /\ force.step = "place"
    /\ PlaceEntry(force.side) \/ (state # "AWAITING_ENTRY_TRIGGER" /\ UNCHANGED <<state, order>>)
    /\ force' = NoForce
    /\ UNCHANGED <<setup, mid, line, doc, held, seen>>

(* force_sell(): the strategy's build_exit_actions(), forced.              *)
BuildsExit == PlaceExit(doc, "force_quit")

ForceSells ==
    /\ "sold" \in setup.hitches /\ state = "AWAITING_EXIT_TRIGGER"
    /\ BuildsExit
    /\ UNCHANGED <<setup, mid, line, held, force, seen>>

Next ==
    \/ Quote \/ Silence \/ Bar \/ Signal \/ EntryFills \/ ExitFills \/ Cancelled
    \/ ForceChecks \/ ForceSeeds \/ ForcePlaces \/ ForceSells

Spec == Init /\ [][Next]_vars

(* Quotes go on.                                                           *)
FairSpec == Spec /\ WF_vars(Quote)
=============================================================================
