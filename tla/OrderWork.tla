----------------------------- MODULE OrderWork -----------------------------
(***************************************************************************)
(* execute_order() of engine/order.py: one entry order, from its placement *)
(* to the rows it leaves in the transactions table, under any strategy,    *)
(* beside IB. The coroutine is a program whose steps are what it does      *)
(* between two awaits; the reprice walker of MID is a task of its own.     *)
(* "first" is the order placed, "cross" the market order that SMART_MARKET *)
(* sends for what the first left. STOP is LIMIT with a trigger price.      *)
(***************************************************************************)
EXTENDS OrderAtIB

CONSTANTS
    Qty,         \* the lots asked for
    Strategies   \* the strategies the order may have

Worked == {"first", "cross"}
Legs == {"pt", "trail", "sl"}

ASSUME OrderWorkAssumption ==
    /\ Qty \in 1 .. MaxSize
    /\ Worked \cup Legs \subseteq Orders
    /\ Strategies \subseteq {"limit", "mid", "bidask", "market", "smart"}

VARIABLES
    strat,     \* the order's strategy
    legs,      \* the exit legs the command asks for
    at,        \* where execute_order() is
    job,       \* its local variables, see NoJob
    reprice,   \* the reprice_loop() task
    row,       \* the action of the order's last row, by order
    recorded,  \* the quantity of the entry's FILLED or PARTIAL_FILL row
    trade,     \* the status of the trade group
    alerted    \* whether an alert has told the operator that an order is live

command == <<strat, legs>>
workVars == <<command, at, job, reprice, row, recorded, trade, alerted>>
vars == <<ibVars, workVars>>

Ended == {"done", "left", "raised"}

(* on: the order being cancelled; why: which caller of                     *)
(* _cancel_and_await_resolution() waits; had: the lots filled when it was  *)
(* called; got, res: what it returned, and cut: what it returned to the    *)
(* smart walker; saw: how the poll or the walk ended.                      *)
NoJob == [on |-> "first", why |-> "none", had |-> 0, got |-> 0, res |-> "none",
          cut |-> "none", saw |-> "none"]

TypeOK ==
    /\ AtIBTypeOK
    /\ strat \in {"none"} \cup Strategies /\ legs \subseteq Legs
    /\ at \in {"idle", "placing", "acking", "checking", "rejecting", "settling", "dropping",
               "walking", "walked", "waiting", "cancelling", "resolving", "probing",
               "crossing", "crossed", "pt", "trail", "sl"} \cup Ended
    /\ job \in [on : Orders, why : {"none", "zero", "partial", "cross"},
                had : 0 .. 2 * MaxSize, got : 0 .. MaxSize,
                res : {"none", "filled", "cancelled", "timeout"},
                cut : {"none", "filled", "cancelled", "timeout"},
                saw : {"none", "over", "expired", "cap", "failed", "nocross"}]
    /\ reprice \in {"off", "looping", "amending", "failed"}
    /\ row \in [Orders -> {"none", "attempt", "accepted", "rejected", "cancelling",
                           "partial", "filled", "cancelled"}]
    /\ recorded \in 0 .. 2 * MaxSize
    /\ trade \in {"none", "open", "closed"}
    /\ alerted \in BOOLEAN

Init ==
    /\ AtIBInit
    /\ strat = "none" /\ legs = {} /\ at = "idle" /\ job = NoJob /\ reprice = "off"
    /\ row = [o \in Orders |-> "none"]
    /\ recorded = 0 /\ trade = "none" /\ alerted = FALSE

(* A step from one await to the next that reads the order and leaves all   *)
(* but the named variables alone.                                          *)
Goes(from, to) == at = from /\ at' = to
Reads == UNCHANGED ibVars

(***************************************************************************)
(* Placement.                                                              *)
(***************************************************************************)
Begin ==
    /\ Goes("idle", "placing")
    /\ strat' \in Strategies /\ legs' \in SUBSET Legs
    /\ trade' = "open"
    /\ row' = [row EXCEPT !["first"] = "attempt"]
    /\ Reads /\ UNCHANGED <<job, reprice, recorded, alerted>>

(* The market orders of _execute_market_order() have no on_status.         *)
Listens(o) == ~ (o = "first" /\ strat = "market")

(* Each strategy places its order, registers it and goes on to its first    *)
(* await: the acknowledgement, the walk or the wait.                       *)
Places(next) ==
    /\ Goes("placing", next)
    /\ ib' = Placed("first", Qty) /\ track' = Registered("first")
    /\ row' = [row EXCEPT !["first"] = "accepted"]
    /\ UNCHANGED <<asked, view, told, preroutes, command, job, reprice, recorded, trade, alerted>>

PlaceLimit == strat = "limit" /\ Places("acking")
PlaceMid == strat = "mid" /\ Places("acking")
PlaceBidAsk == strat = "bidask" /\ Places("waiting")
PlaceMarket == strat = "market" /\ Places("waiting")
PlaceSmart == strat = "smart" /\ Places("walking")

Place == PlaceLimit \/ PlaceMid \/ PlaceBidAsk \/ PlaceMarket \/ PlaceSmart

PlaceRaises ==
    /\ Goes("placing", "raised")
    /\ Reads /\ UNCHANGED <<command, job, reprice, row, recorded, trade, alerted>>

(* The poll for IB's acknowledgement ends when the order is past pending,  *)
(* or gives up on a pending one, at an error of IB's or after ten seconds. *)
Acked ==
    /\ at = "acking"
    /\ view["first"].st \notin Pending \cup Refused
    /\ at' = IF strat = "limit" THEN "checking"
             ELSE IF view["first"].st = "PreSubmitted" THEN "settling" ELSE "walking"
    /\ reprice' = IF at' = "walking" THEN "looping" ELSE reprice
    /\ Reads /\ UNCHANGED <<command, job, row, recorded, trade, alerted>>

NotAcked ==
    /\ Goes("acking", "rejecting")
    /\ view["first"].st \in Pending \cup Refused
    /\ job' = [job EXCEPT !.saw = IF view["first"].st \in Refused THEN "over" ELSE "none"]
    /\ Reads /\ UNCHANGED <<command, reprice, row, recorded, trade, alerted>>

Reject ==
    /\ Goes("rejecting", "raised")
    /\ asked' = AskedToCancel("first")
    /\ track' = Unregistered({"first"})
    /\ trade' = "closed"
    /\ row' = [row EXCEPT !["first"] = "rejected"]
    /\ UNCHANGED <<ib, view, told, preroutes, command, job, reprice, recorded, alerted>>

(* MID: PreSubmitted is given three seconds to pass.                       *)
Settled ==
    /\ at = "settling"
    /\ view["first"].st \notin {"PreSubmitted", "Filled"}
    /\ at' = "walking" /\ reprice' = "looping"
    /\ Reads /\ UNCHANGED <<command, job, row, recorded, trade, alerted>>

(* It has not: queued when IB's session is closed, else cancelled.         *)
NotRouted ==
    /\ at = "settling"
    /\ view["first"].st = "PreSubmitted"
    /\ at' \in {"left", "dropping"}
    /\ track' = IF at' = "left" THEN Unregistered({"first"}) ELSE track
    /\ UNCHANGED <<ib, asked, view, told, preroutes,
                   command, job, reprice, row, recorded, trade, alerted>>

(* cancel_order(), then CLOSED, without a row and without waiting.         *)
Drop ==
    /\ Goes("dropping", "done")
    /\ asked' = AskedToCancel("first")
    /\ track' = Unregistered({"first"})
    /\ trade' = "closed"
    /\ UNCHANGED <<ib, view, told, preroutes, command, job, reprice, row, recorded, alerted>>

(***************************************************************************)
(* The rows of an outcome. _handle_fill() goes on to place the exit legs,  *)
(* _handle_partial() only the profit taker.                                *)
(***************************************************************************)
Finish == IF job.saw = "nocross" THEN "raised" ELSE "done"

First(ls) ==
    CASE "pt" \in ls -> "pt"
      [] "pt" \notin ls /\ "trail" \in ls -> "trail"
      [] "pt" \notin ls /\ "trail" \notin ls /\ "sl" \in ls -> "sl"
      [] ls = {} -> Finish

Record(q) ==
    /\ row' = [row EXCEPT !["first"] = "filled"]
    /\ recorded' = q
    /\ at' = First(legs)
    /\ UNCHANGED <<trade, alerted>>

Void ==
    /\ row' = [row EXCEPT !["first"] = "cancelled"]
    /\ trade' = "closed"
    /\ at' = "done"
    /\ UNCHANGED <<recorded, alerted>>

(* CANCEL_ATTEMPT, then _cancel_and_await_resolution() of order o.         *)
ToCancel(o, why, had) ==
    /\ row' = IF why = "cross" THEN row ELSE [row EXCEPT ![o] = "cancelling"]
    /\ job' = [job EXCEPT !.on = o, !.why = why, !.had = had]
    /\ at' = "cancelling"
    /\ UNCHANGED <<recorded, trade, alerted>>

(* The end of a coroutine unregisters the orders it tracked.               *)
EndsTracked == track' = IF at' = Finish THEN Unregistered(Worked) ELSE track
Concludes ==
    /\ EndsTracked
    /\ UNCHANGED <<ib, asked, view, told, preroutes, command>>

(***************************************************************************)
(* LIMIT and STOP look once more, then leave the order to IB.              *)
(***************************************************************************)
Check ==
    /\ at = "checking"
    /\ IF view["first"].filled >= Qty THEN Record(view["first"].filled)
       ELSE /\ at' = "left"
            /\ UNCHANGED <<row, recorded, trade, alerted>>
    /\ UNCHANGED <<job, reprice>>
    /\ Concludes

SettledFilled ==
    /\ at = "settling" /\ view["first"].st = "Filled"
    /\ Record(view["first"].filled)
    /\ UNCHANGED <<job, reprice>>
    /\ Concludes

(***************************************************************************)
(* MID: reprice_loop() stops at a fill or an end it has been told of;      *)
(* between that look and the amendment it waits for a quote. ib_async      *)
(* asserts that an amended order is not done.                              *)
(***************************************************************************)
RepriceLooks ==
    /\ reprice = "looping" /\ at = "walking"
    /\ reprice' = IF track["first"].filled \/ track["first"].cancelled THEN "off" ELSE "amending"
    /\ Reads /\ UNCHANGED <<command, at, job, row, recorded, trade, alerted>>

AmendRaises(o) == view[o].st \in {"Filled", "Cancelled"}

RepriceAmends ==
    /\ reprice = "amending" /\ at = "walking"
    /\ reprice' = IF AmendRaises("first") THEN "failed" ELSE "looping"
    /\ Reads /\ UNCHANGED <<command, at, job, row, recorded, trade, alerted>>

(* The active wait ends at the full fill, the end, or its timeout; the     *)
(* walker is cancelled and awaited, and what it raised is raised here. The *)
(* passive wait is the time until the outcome is read.                     *)
WalkEnds ==
    /\ at = "walking" /\ strat = "mid"
    /\ at' = IF reprice = "failed" THEN "raised" ELSE "waiting"
    /\ reprice' = "off"
    /\ Reads /\ UNCHANGED <<command, job, row, recorded, trade, alerted>>

MidOutcome ==
    LET v == view["first"] IN
    /\ at = "waiting" /\ strat = "mid"
    /\ \/ v.filled >= Qty /\ Record(v.filled) /\ UNCHANGED job
       \/ v.filled \in 1 .. Qty - 1 /\ ToCancel("first", "partial", v.filled)
       \/ v.filled = 0 /\ v.st = "Inactive" /\ Void /\ UNCHANGED job
       \/ v.filled = 0 /\ v.st # "Inactive" /\ ToCancel("first", "zero", 0)
    /\ UNCHANGED reprice
    /\ Concludes

(***************************************************************************)
(* BID, ASK and MARKET wait, and prefer what on_fill() was told to what    *)
(* the status says. A partial fill is cancelled by _handle_partial().      *)
(***************************************************************************)
Heard == IF told["first"] > 0 THEN told["first"] ELSE view["first"].filled

BidAskOutcome ==
    LET v == view["first"] IN
    /\ at = "waiting" /\ strat = "bidask"
    /\ \/ Heard >= Qty /\ Record(Heard) /\ EndsTracked /\ UNCHANGED job
       \/ Heard \in 1 .. Qty - 1 /\ ToCancel("first", "partial", Heard) /\ UNCHANGED track
       \/ /\ Heard = 0
          /\ IF track["first"].cancelled THEN at' = "done" /\ trade' = "closed"
             ELSE /\ at' \in IF v.st = "PreSubmitted" THEN {"left", "dropping"} ELSE {"left"}
                  /\ UNCHANGED trade
          /\ track' = IF at' = "dropping" THEN track ELSE Unregistered({"first"})
          /\ UNCHANGED <<job, row, recorded, alerted>>
    /\ UNCHANGED <<ib, asked, view, told, preroutes, command, reprice>>

MarketOutcome ==
    /\ at = "waiting" /\ strat = "market"
    /\ \/ Heard >= Qty /\ Record(Heard) /\ UNCHANGED job
       \/ Heard \in 1 .. Qty - 1 /\ ToCancel("first", "partial", Heard)
       \/ Heard = 0 /\ at' = "done" /\ UNCHANGED <<job, row, recorded, trade, alerted>>
    /\ UNCHANGED reprice
    /\ Concludes

(***************************************************************************)
(* SMART_MARKET: _walk_limit_aggressive() ends at the fill, the order's    *)
(* end, ten seconds in regular hours, the price cap out of them, or an     *)
(* amendment that fails though the order goes on.                          *)
(***************************************************************************)
SmartWalkEnds ==
    /\ Goes("walking", "walked") /\ strat = "smart"
    /\ \E saw \in {"over", "expired", "cap", "failed"} :
          /\ saw = "over" => \/ view["first"].filled >= Qty
                             \/ view["first"].st \in Terminal
                             \/ track["first"].cancelled
          /\ job' = [job EXCEPT !.saw = saw]
    /\ Reads /\ UNCHANGED <<command, reprice, row, recorded, trade, alerted>>

SmartOutcome ==
    LET v == view["first"] IN
    /\ at = "walked"
    /\ \/ v.filled >= Qty /\ Record(v.filled) /\ UNCHANGED job
       \/ /\ v.filled < Qty /\ job.saw = "cap"
          /\ at' = "left" /\ alerted' = TRUE
          /\ UNCHANGED <<job, row, recorded, trade>>
       \/ v.filled < Qty /\ job.saw = "expired" /\ ToCancel("first", "cross", v.filled)
       \/ /\ v.filled \in 1 .. Qty - 1 /\ job.saw \in {"over", "failed"}
          /\ ToCancel("first", "partial", v.filled)
       \/ v.filled = 0 /\ job.saw \in {"over", "failed"} /\ Void /\ UNCHANGED job
    /\ UNCHANGED reprice
    /\ Concludes

(* The market order for what the limit order has left.                     *)
Residual == Qty - job.got

Cross ==
    /\ Goes("crossing", "crossed")
    /\ ib' = Placed("cross", Residual) /\ track' = Registered("cross")
    /\ UNCHANGED <<asked, view, told, preroutes,
                   command, job, reprice, row, recorded, trade, alerted>>

(* It cannot be placed: what there is becomes a partial fill, then raises. *)
CrossRaises ==
    /\ at = "crossing"
    /\ job' = [job EXCEPT !.saw = "nocross", !.why = "partial", !.had = job.got]
    /\ IF job.got > 0
       THEN /\ at' = "cancelling"
            /\ row' = [row EXCEPT !["first"] = "cancelling"]
            /\ UNCHANGED track
       ELSE /\ at' = "raised"
            /\ track' = Unregistered(Worked)
            /\ UNCHANGED row
    /\ UNCHANGED <<ib, asked, view, told, preroutes, command, reprice, recorded, trade, alerted>>

Crossed ==
    LET total == job.got + view["cross"].filled IN
    /\ at = "crossed"
    /\ \/ total >= Qty /\ Record(total) /\ UNCHANGED job
       \/ total \in 1 .. Qty - 1 /\ ToCancel("cross", "partial", total)
       \/ total = 0 /\ Void /\ UNCHANGED job
    /\ UNCHANGED reprice
    /\ Concludes

(***************************************************************************)
(* _cancel_and_await_resolution(): the status is read at every wake-up,    *)
(* and once more, unjudged, when the window has passed.                    *)
(***************************************************************************)
Cancelling ==
    /\ Goes("cancelling", "resolving")
    /\ asked' = AskedToCancel(job.on)
    /\ UNCHANGED <<ib, view, told, track, preroutes,
                   command, job, reprice, row, recorded, trade, alerted>>

SeenFilled == view[job.on].filled >= Qty
SeenOver == view[job.on].st \in Refused \/ track[job.on].cancelled

Resolution ==
    IF SeenFilled THEN "filled" ELSE IF SeenOver THEN "cancelled" ELSE "none"

(* What the callers do with the quantity: the partial fill's takes the     *)
(* larger of what it had and what IB reports.                              *)
FinalMutant == job.had + view[job.on].filled
FinalMutant2 == job.had
Final == IF view[job.on].filled > job.had THEN view[job.on].filled ELSE job.had

AfterPartial == First(IF job.why = "partial" THEN legs \cap {"pt"} ELSE {})

(* _finalize_partial_cancel() writes CANCELLED; the MID caller that had no *)
(* fill closes the trade if there still is none.                           *)
Finalised(q) ==
    /\ row' = [row EXCEPT ![job.on] = "cancelled"]
    /\ trade' = IF job.why = "zero" /\ q = 0 THEN "closed" ELSE trade
    /\ at' = AfterPartial

(* A fill that beat the cancel is a full one; else the rows of the partial *)
(* fill, once the cancel is known to have taken effect.                    *)
Settles(res) ==
    \/ res = "filled" /\ Record(Final)
    \/ res = "cancelled" /\ recorded' = Final /\ Finalised(Final) /\ UNCHANGED alerted
    \/ /\ res = "timeout"
       /\ recorded' = Final
       /\ row' = [row EXCEPT ![job.on] = IF Final > 0 THEN "partial" ELSE @]
       /\ at' = "probing" /\ UNCHANGED <<trade, alerted>>

(* SMART_MARKET crosses with what is left, however the cancel went.        *)
Crosses ==
    \/ SeenFilled /\ Record(view[job.on].filled)
    \/ ~ SeenFilled /\ at' = "crossing" /\ UNCHANGED <<row, recorded, trade, alerted>>

Resolved(res) ==
    /\ job' = [job EXCEPT !.res = res, !.got = view[job.on].filled,
                          !.cut = IF job.why = "cross" THEN res ELSE @]
    /\ IF job.why = "cross" THEN Crosses ELSE Settles(res)
    /\ UNCHANGED reprice
    /\ Concludes

Resolve ==
    /\ at = "resolving"
    /\ \/ Resolution # "none" /\ Resolved(Resolution)
       \/ Resolved("timeout")

(* is_order_open_at_ib(), which may fail.                                  *)
ProbeMutant ==
    /\ at = "probing"
    /\ Finalised(recorded) /\ UNCHANGED <<alerted, job, reprice, recorded>>
    /\ Concludes
Probe ==
    /\ at = "probing"
    /\ \/ ~ IsOpen(job.on) /\ Finalised(recorded) /\ UNCHANGED alerted
       \/ /\ alerted' = TRUE
          /\ at' = AfterPartial
          /\ UNCHANGED <<row, trade>>
    /\ UNCHANGED <<job, reprice, recorded>>
    /\ Concludes

(***************************************************************************)
(* The exit legs, in the order in which _handle_fill() places them. What   *)
(* the profit taker's placement raises is raised by execute_order(); the   *)
(* trailing stop's is logged, the stop loss's, like a stop on the wrong    *)
(* side of the fill, is told to the operator.                              *)
(***************************************************************************)
After(leg) ==
    IF row["first"] # "filled" THEN Finish
    ELSE First(CASE leg = "pt" -> legs \ {"pt"} [] leg = "trail" -> legs \ {"pt", "trail"}
                 [] leg = "sl" -> {})

PlaceLegMutant(leg) ==
    /\ at = leg /\ at' = After(leg)
    /\ ib' = Placed(leg, Qty)
    /\ row' = IF leg = "trail" THEN row ELSE [row EXCEPT ![leg] = "accepted"]
    /\ EndsTracked
    /\ UNCHANGED <<asked, view, told, preroutes, command, job, reprice, recorded, trade, alerted>>
PlaceLeg(leg) ==
    /\ at = leg /\ at' = After(leg)
    /\ ib' = Placed(leg, recorded)
    /\ row' = IF leg = "trail" THEN row ELSE [row EXCEPT ![leg] = "accepted"]
    /\ EndsTracked
    /\ UNCHANGED <<asked, view, told, preroutes, command, job, reprice, recorded, trade, alerted>>

LegFails(leg) ==
    /\ at = leg
    /\ at' = IF leg = "pt" THEN "raised" ELSE After(leg)
    /\ row' \in IF leg = "trail" THEN {row}
               ELSE {[row EXCEPT ![leg] = "attempt"]} \cup (IF leg = "sl" THEN {row} ELSE {})
    /\ alerted' = (alerted \/ leg = "sl")
    /\ IF leg = "pt" THEN UNCHANGED track ELSE EndsTracked
    /\ UNCHANGED <<ib, asked, view, told, preroutes, command, job, reprice, recorded, trade>>

(***************************************************************************)
(* The specification.                                                      *)
(***************************************************************************)
IBStep(o) ==
    /\ \/ Held(o) \/ Works(o) \/ Refuses(o) \/ Cancels(o) \/ Executes(o) \/ Preroutes(o)
       \/ Reports(o) \/ (Listens(o) /\ HearsEnd(o)) \/ HearsFill(o)
    /\ UNCHANGED workVars

EngineStep ==
    \/ Begin \/ Place \/ PlaceRaises \/ Acked \/ NotAcked \/ Reject \/ Settled \/ SettledFilled
    \/ NotRouted \/ Drop \/ Check \/ RepriceLooks \/ RepriceAmends \/ WalkEnds \/ MidOutcome
    \/ BidAskOutcome \/ MarketOutcome \/ SmartWalkEnds \/ SmartOutcome \/ Cross \/ CrossRaises
    \/ Crossed \/ Cancelling \/ Resolve \/ Probe
    \/ \E leg \in Legs : PlaceLeg(leg) \/ LegFails(leg)

Next == EngineStep \/ \E o \in Worked : IBStep(o)

Spec == Init /\ [][Next]_vars
=============================================================================
