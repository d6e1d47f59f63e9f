--------------------------- MODULE ChartBarsSafety ---------------------------
(***************************************************************************)
(* What the chain of ChartBars promises of the bars it acts on.            *)
(***************************************************************************)
EXTENDS ChartBars

Side(order) == IF order = "BUY" THEN "long" ELSE "short"
Held(c, l) == \A i \in l.q .. Len(c) : ~ Violated(c, l, i)

LiveLines(c) ==
    {l \in Candidates(c) :
        /\ l.rise > 0 /\ Held(c, l) /\ Touched(c, l, NewPivot(c))
        /\ Cardinality({i \in PivotLows(c) : i >= l.q /\ Touched(c, l, i)}) >= MinTouches}

EverSteeper(c) ==
    \E l \in Candidates(c) :
        /\ {i \in PivotLows(c) : l.q <= i} = {l.q, l.p, NewPivot(c)} /\ l.p < NewPivot(c)
        /\ l.rise > 0 /\ Above(l, NewPivot(c), c[NewPivot(c)]) > TouchTol * l.run

Grounded(closes, order) ==
    LET c == Facing(Side(order), closes) IN
    /\ NewPivot(c) \in PivotLows(c)
    /\ LiveLines(c) # {} \/ (setup.accel /\ EverSteeper(c))

(* The bar that the aggregator closes is the market's newest, and IB's     *)
(* history has come, as far as it goes.                                    *)
Followed ==
    /\ "history" \notin setup.hitches
    /\ partial = Bar(Len(market'), market'[Len(market')])

(* The fan, the tolerances and the filters together: an entry is sent only *)
(* on a line that three lows have touched, the newest of them one bar ago, *)
(* that rises and that no close has gone through since its first anchor;   *)
(* or, where entries are accelerated, on three lows in a row of which the  *)
(* third, one bar ago, is above the line of the other two.  That line may  *)
(* have been broken: _find_2pivot_accel() looks at no close between them.  *)
(* The bot sees them in a window made of a history that may lag by a bar   *)
(* and of its own ring; they are there in all the market's bars as well,   *)
(* unless the bot was deaf to one while it had an order placed, or the     *)
(* history has failed.                                                     *)
FiredOnLiveLine ==
    [][last' # last /\ last'.kind = "entry" /\ last'.order # "none" =>
          /\ Grounded(Closes(last'.window), last'.order)
          /\ Followed => Grounded(market', last'.order)]_vars

(* The row of the bar names the filter that has ended the chain, never one *)
(* that a marginal entry has bypassed on the way to it.                    *)
DecisionIsTheKiller ==
    last.kind = "entry" =>
        last.decision = IF last.order # "none" THEN last.order
                        ELSE IF last.killer # "none" THEN last.killer ELSE "GATED"

(* The line is found by bar numbers and followed by the clock: the trade   *)
(* of an entry is not one that the exit check of the same bar would close, *)
(* unless bars are missing from the window.  They are when the history has *)
(* failed and the ring has a hole, of bars that went by during an order.   *)
Gapless(window) == \A i \in DOMAIN window : window[i].slot - window[1].slot = i - 1

EntryIsNotAnExit ==
    [][state = "AWAITING_ENTRY_TRIGGER" /\ last'.order # "none" /\ last' # last
         /\ Gapless(last'.window) =>
          ~ ThroughLine(trade', last'.window[Len(last'.window)])]_vars
==============================================================================
