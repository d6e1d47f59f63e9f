----------------------------- MODULE TradeWork -----------------------------
(***************************************************************************)
(* The exit of one trade, engine/order.py: its profit taker and stop loss, *)
(* which rest at IB and fill without the engine, and the commands that     *)
(* close it: execute_close() by serial, under any strategy, and            *)
(* _execute_close_symbol(), which nets the symbol flat and sweeps its      *)
(* other orders. The entry is filled and its legs placed (see OrderWork).  *)
(***************************************************************************)
EXTENDS OrderAtIB, Integers, Sequences, FiniteSetsExt

CONSTANTS
    Entry,       \* the lots of the trade
    Closes,      \* the close commands by serial
    Strategies,  \* the strategies a close may have
    BySymbol,    \* whether the symbol may be closed, too
    MaxCommands  \* bound: the commands that are given

Legs == {"pt", "sl"}

(* The order a close sends to the market for what its limit order left,    *)
(* and, named after its order, the close by symbol.                        *)
Cross(c) == IF c = "c1" THEN "x1" ELSE "x2"
Symbol == "s"

ASSUME TradeWorkAssumption ==
    /\ Entry \in 1 .. MaxSize
    /\ Closes \subseteq {"c1", "c2"}
    /\ Orders = Legs \cup Closes \cup {Cross(c) : c \in Closes} \cup {Symbol}
    /\ Strategies \subseteq {"limit", "mid", "bidask", "market", "smart"}
    /\ BySymbol \in BOOLEAN /\ MaxCommands \in Nat

VARIABLES
    at,      \* where each command is
    job,     \* its local variables, see NoJob
    wire,    \* executions of the legs on their way to the engine, in order
    row,     \* the action of each order's last row
    rec,     \* the quantity of its FILLED or PARTIAL_FILL row
    trade    \* the status of the trade group

tradeVars == <<at, job, wire, row, rec, trade>>
vars == <<ibVars, tradeVars>>

Commands == Closes \cup {Symbol}
Ended == {"done", "left", "raised"}

(* strat: of a close; qty: what it closes; todo: the orders it has still   *)
(* to cancel, and leg the one it is cancelling; why: who waits in          *)
(* _cancel_and_await_resolution(), with had lots known before and got      *)
(* after; lost: the wait for a cancel was given up.                         *)
NoJob == [strat |-> "none", qty |-> 0, todo |-> {}, leg |-> "pt", why |-> "none",
          had |-> 0, got |-> 0, lost |-> FALSE]

TypeOK ==
    /\ AtIBTypeOK
    /\ at \in [Commands -> {"idle", "legs", "leg", "placing", "acking", "checking", "walking",
                            "waiting", "asking", "settling", "cancelling", "resolving",
                            "crossing", "crossed"} \cup Ended]
    /\ job \in [Commands -> [strat : {"none"} \cup Strategies, qty : -MaxSize .. MaxSize,
                             todo : SUBSET Orders, leg : Orders,
                             why : {"none", "partial", "cross"}, had : 0 .. 2 * MaxSize,
                             got : 0 .. MaxSize, lost : BOOLEAN]]
    /\ wire \in [Legs -> Seq(1 .. MaxSize)]
    /\ row \in [Orders -> {"none", "attempt", "accepted", "cancelling", "partial", "filled",
                           "cancelled"}]
    /\ rec \in [Orders -> 0 .. 2 * MaxSize]
    /\ trade \in {"open", "closed"}

Resting == [st |-> "live", size |-> Entry, exec |-> 0]

Init ==
    /\ \E rest \in SUBSET Legs :
          /\ ib = [o \in Orders |-> IF o \in rest THEN Resting ELSE NoOrder]
          /\ row = [o \in Orders |-> IF o \in rest THEN "accepted" ELSE "none"]
    /\ asked = {} /\ view = [o \in Orders |-> [st |-> "", filled |-> 0]]
    /\ told = [o \in Orders |-> 0] /\ track = [o \in Orders |-> Untracked] /\ preroutes = 0
    /\ at = [c \in Commands |-> "idle"] /\ job = [c \in Commands |-> NoJob]
    /\ wire = [leg \in Legs |-> <<>>]
    /\ rec = [o \in Orders |-> 0]
    /\ trade = "open"

Another == Cardinality({c \in Commands : at[c] # "idle"}) < MaxCommands
Goes(c, from, to) == at[c] = from /\ at' = [at EXCEPT ![c] = to]
Reads == UNCHANGED <<ibVars, wire>>
Silent == UNCHANGED <<row, rec, trade>>

(***************************************************************************)
(* The legs. IB fills them in pieces of any size, one of them or both: it  *)
(* breaks an OCA group only after a fill. The global on_fill is called for *)
(* every piece. Their orderStatus is not read.                             *)
(***************************************************************************)
LegExecutes(leg) ==
    /\ CanFill(leg)
    /\ \E k \in 1 .. ib[leg].size - ib[leg].exec :
          /\ ib' = [ib EXCEPT ![leg].exec = @ + k,
                              ![leg].st = IF ib[leg].exec + k = ib[leg].size THEN "filled" ELSE @]
          /\ wire' = [wire EXCEPT ![leg] = Append(@, k)]
    /\ UNCHANGED <<asked, view, told, track, preroutes, at, job, row, rec, trade>>

(* IB takes the other leg of the OCA group back after a fill of one.       *)
Breaks(leg) ==
    /\ IsOpen(leg) /\ \E other \in Legs \ {leg} : ib[other].exec > 0
    /\ ib' = [ib EXCEPT ![leg].st = "cancelled"]
    /\ UNCHANGED <<asked, view, told, track, preroutes, tradeVars>>

(* The lots q of the exits os.                                             *)
Lots(q, os) ==
    LET Of(o) == IF o \in os THEN q[o] ELSE 0
    IN  Of("pt") + Of("sl") + Of("c1") + Of("c2")

(* handle_autonomous_close_fill(): the first piece is the fill of the leg, *)
(* those after it are of a leg that has its row. It closes the trade when  *)
(* closes, profit taker and stop loss make up the entry.                   *)
AutonomousMutant(leg) ==
    /\ wire[leg] # <<>>
    /\ wire' = [wire EXCEPT ![leg] = Tail(@)]
    /\ \/ /\ rec[leg] = 0
          /\ rec' = [rec EXCEPT ![leg] = Head(wire[leg])]
          /\ row' = [row EXCEPT ![leg] = "filled"]
          /\ trade' = IF Lots(rec', Legs \cup Closes) + Head(wire[leg]) >= Entry
                      THEN "closed" ELSE trade
       \/ rec[leg] > 0 /\ UNCHANGED <<rec, row, trade>>
    /\ UNCHANGED <<ibVars, at, job>>
Autonomous(leg) ==
    /\ wire[leg] # <<>>
    /\ wire' = [wire EXCEPT ![leg] = Tail(@)]
    /\ \/ /\ rec[leg] = 0
          /\ rec' = [rec EXCEPT ![leg] = Head(wire[leg])]
          /\ row' = [row EXCEPT ![leg] = "filled"]
          /\ trade' = IF Lots(rec', Legs \cup Closes) >= Entry THEN "closed" ELSE trade
       \/ rec[leg] > 0 /\ UNCHANGED <<rec, row, trade>>
    /\ UNCHANGED <<ibVars, at, job>>

(***************************************************************************)
(* execute_close(): what there is to close, the legs cancelled, the order. *)
(***************************************************************************)
Left == Entry - Lots(rec, {"pt"} \cup Closes)
Unfinished == {leg \in Legs : row[leg] \in {"accepted", "cancelling"}}
OnTo(todo) == IF todo = {} THEN "placing" ELSE "legs"

Begin(c) ==
    /\ at[c] = "idle" /\ Another /\ Left > 0
    /\ at' = [at EXCEPT ![c] = OnTo(Unfinished)]
    /\ \E s \in Strategies :
          job' = [job EXCEPT ![c] = [NoJob EXCEPT !.strat = s, !.qty = Left, !.todo = Unfinished]]
    /\ Reads /\ Silent

AlreadyClosed(c) ==
    /\ Left <= 0 /\ Another /\ Goes(c, "idle", "done")
    /\ UNCHANGED job /\ Reads /\ Silent

(* CANCEL_ATTEMPT, cancel_order(), CANCELLED: IB has not confirmed it, and *)
(* what cancel_order() raises is not caught. The sweep of a symbol is the  *)
(* same, but goes on with the next order.                                  *)
(* cancel_order() looks an order up by its id as text, which the sweep has *)
(* from IB; a close by serial passes the integer of the row, for which no  *)
(* order is found, and nothing is sent.                                    *)
CancelLeg(c) ==
    /\ Goes(c, "legs", "leg")
    /\ \E leg \in job[c].todo :
          /\ row' = [row EXCEPT ![leg] = "cancelling"]
          /\ job' = [job EXCEPT ![c].leg = leg, ![c].todo = @ \ {leg}]
    /\ Reads /\ UNCHANGED <<rec, trade>>

After(c) == IF c = Symbol /\ job[c].todo = {} THEN "done" ELSE OnTo(job[c].todo)

PassesText(c) == c = Symbol

LegCancelled(c) ==
    /\ Goes(c, "leg", After(c))
    /\ asked' = IF PassesText(c) THEN AskedToCancel(job[c].leg) ELSE asked
    /\ row' = [row EXCEPT ![job[c].leg] = "cancelled"]
    /\ UNCHANGED <<ib, view, told, track, preroutes, job, wire, rec, trade>>

LegRaises(c) ==
    /\ Goes(c, "leg", IF c = Symbol THEN After(c) ELSE "raised")
    /\ UNCHANGED job /\ Reads /\ Silent

Place(c) ==
    /\ at[c] = "placing" /\ c \in Closes
    /\ ib' = Placed(c, job[c].qty)
    /\ row' = [row EXCEPT ![c] = "accepted"]
    /\ at' = [at EXCEPT ![c] = IF job[c].strat = "market" THEN "waiting" ELSE "acking"]
    /\ UNCHANGED <<asked, view, told, track, preroutes, job, wire, rec, trade>>

PlaceRaises(c) ==
    /\ c \in Closes /\ Goes(c, "placing", "raised")
    /\ row' \in {row, [row EXCEPT ![c] = "attempt"]}
    /\ UNCHANGED <<job, rec, trade>> /\ Reads

Acked(c) ==
    /\ at[c] = "acking" /\ view[c].st \notin Pending \cup Refused
    /\ at' = [at EXCEPT ![c] = CASE job[c].strat = "limit" -> "checking"
                                 [] job[c].strat = "smart" -> "walking"
                                 [] OTHER -> "waiting"]
    /\ UNCHANGED job /\ Reads /\ Silent

(* The command ends; its row stays PLACE_ACCEPTED.                         *)
NotAcked(c) ==
    /\ view[c].st \in Pending \cup Refused
    /\ Goes(c, "acking", "done")
    /\ asked' = AskedToCancel(c)
    /\ job' = [job EXCEPT ![c].lost = view[c].st \in Pending]
    /\ UNCHANGED <<ib, view, told, track, preroutes, wire>> /\ Silent

(***************************************************************************)
(* The rows of an outcome.                                                 *)
(***************************************************************************)
(* _handle_close_fill(): the trade is closed when closes and profit taker  *)
(* make up the entry.                                                      *)
CloseFill(c, q) ==
    /\ rec' = [rec EXCEPT ![c] = q]
    /\ row' = [row EXCEPT ![c] = "filled"]
    /\ trade' = IF Entry - Lots(rec', {"pt"} \cup Closes) <= 0 THEN "closed" ELSE trade
    /\ at' = [at EXCEPT ![c] = "done"]

ClosePartial(c, q) ==
    /\ rec' = [rec EXCEPT ![c] = q]
    /\ row' = [row EXCEPT ![c] = "partial"]
    /\ at' = [at EXCEPT ![c] = "done"]
    /\ UNCHANGED trade

(* _handle_close_partial(), and the cross of the smart walker, cancel.     *)
ToCancel(c, why, had) ==
    /\ row' = IF why = "cross" THEN row ELSE [row EXCEPT ![c] = "cancelling"]
    /\ job' = [job EXCEPT ![c].why = why, ![c].had = had]
    /\ at' = [at EXCEPT ![c] = "cancelling"]
    /\ UNCHANGED <<rec, trade>>

Dispatch(c, q) ==
    \/ q >= job[c].qty /\ CloseFill(c, q) /\ UNCHANGED job
    \/ q \in 1 .. job[c].qty - 1 /\ ToCancel(c, "partial", q)

Heard(c) == IF told[c] > 0 THEN told[c] ELSE view[c].filled
Known(c) == IF view[c].st = "Filled" THEN view[c].filled ELSE Heard(c)

(* LIMIT looks once and leaves the order to IB with its callbacks.         *)
Check(c) ==
    /\ at[c] = "checking"
    /\ \/ Heard(c) >= job[c].qty /\ CloseFill(c, Heard(c))
       \/ Heard(c) < job[c].qty /\ at' = [at EXCEPT ![c] = "left"] /\ Silent
    /\ UNCHANGED job
    /\ Reads

(***************************************************************************)
(* SMART_MARKET: the walker ends at the fill, the order's end, a failed    *)
(* amendment, the cap out of regular hours (an alert, and the order rests) *)
(* or the duration in them, which crosses to the market.                   *)
(***************************************************************************)
WalkEnds(c) == /\ Goes(c, "walking", "waiting") /\ UNCHANGED job /\ Reads /\ Silent
WalkCapped(c) == /\ Goes(c, "walking", "left") /\ UNCHANGED job /\ Reads /\ Silent

WalkExpires(c) ==
    /\ at[c] = "walking" /\ view[c].filled < job[c].qty
    /\ ToCancel(c, "cross", view[c].filled)
    /\ Reads

(* The market order, for which no callback is registered.                  *)
Crosses(c) ==
    /\ Goes(c, "crossing", "crossed")
    /\ ib' = Placed(Cross(c), job[c].qty - job[c].got)
    /\ UNCHANGED <<asked, view, told, track, preroutes, job, wire>> /\ Silent

CrossFails(c) == /\ Goes(c, "crossing", "waiting") /\ UNCHANGED job /\ Reads /\ Silent

Crossed(c) ==
    LET total == job[c].got + view[Cross(c)].filled IN
    /\ at[c] = "crossed"
    /\ \/ Dispatch(c, total)
       \/ total = 0 /\ at' = [at EXCEPT ![c] = "done"] /\ UNCHANGED job /\ Silent
    /\ Reads

(***************************************************************************)
(* The common outcome: after the walk or the wait the status is believed   *)
(* if it says Filled, else the callback; with nothing filled the order is  *)
(* cancelled and watched for three seconds.                                *)
(***************************************************************************)
(* MID: the walker amended an order that is done, and is awaited.          *)
RepriceRaises(c) ==
    /\ job[c].strat = "mid" /\ view[c].st \in {"Filled", "Cancelled"}
    /\ Goes(c, "waiting", "raised")
    /\ UNCHANGED job /\ Reads /\ Silent

Outcome(c) ==
    /\ at[c] = "waiting"
    /\ \/ Dispatch(c, Known(c))
       \/ Known(c) = 0 /\ at' = [at EXCEPT ![c] = "asking"] /\ UNCHANGED job /\ Silent
    /\ Reads

Asks(c) ==
    /\ Goes(c, "asking", "settling")
    /\ asked' = AskedToCancel(c)
    /\ UNCHANGED <<ib, view, told, track, preroutes, job, wire>> /\ Silent

(* CLOSE EXPIRED writes no row, whether IB has confirmed or not.           *)
Settles(c) ==
    /\ at[c] = "settling"
    /\ \/ Dispatch(c, view[c].filled)
       \/ /\ view[c].filled = 0 /\ at' = [at EXCEPT ![c] = "done"]
          /\ job' = [job EXCEPT ![c].lost = view[c].st \notin Refused]
          /\ Silent
    /\ Reads

(***************************************************************************)
(* _cancel_and_await_resolution() of the limit order.                      *)
(***************************************************************************)
Cancelling(c) ==
    /\ Goes(c, "cancelling", "resolving")
    /\ asked' = AskedToCancel(c)
    /\ UNCHANGED <<ib, view, told, track, preroutes, job, wire>> /\ Silent

Resolution(c) ==
    IF view[c].filled >= job[c].qty THEN "filled"
    ELSE IF view[c].st \in Refused THEN "cancelled" ELSE "timeout"

(* The market order is sent after a time-out as well.                      *)
ResolvedCross(c) ==
    /\ job' = [job EXCEPT ![c].got = view[c].filled, ![c].lost = Resolution(c) = "timeout"]
    /\ at' = [at EXCEPT ![c] = IF view[c].filled < job[c].qty THEN "crossing" ELSE "waiting"]
    /\ Silent

FinalMutant(c) == job[c].had
Final(c) == IF view[c].filled > job[c].had THEN view[c].filled ELSE job[c].had

ResolvedPartial(c) ==
    /\ IF Resolution(c) = "filled" THEN CloseFill(c, Final(c)) ELSE ClosePartial(c, Final(c))
    /\ job' = [job EXCEPT ![c].lost = @ \/ Resolution(c) = "timeout"]

Resolve(c) ==
    /\ at[c] = "resolving"
    /\ \/ job[c].why = "cross" /\ ResolvedCross(c)
       \/ job[c].why = "partial" /\ ResolvedPartial(c)
    /\ Reads

(***************************************************************************)
(* _execute_close_symbol(): it remembers the working orders, sends an      *)
(* order for the cached position through execute_order() (see OrderWork,   *)
(* here its IB order and whether it left a fill row), and sweeps what it   *)
(* remembered only if that filled, or at once when the position is flat.   *)
(***************************************************************************)
Working == {o \in Orders : IsOpen(o)}
Swept(os) == IF os = {} THEN "done" ELSE "legs"

(* positions_cache follows IB's account, some time later.                  *)
Sold(o) == IF o = Symbol /\ job[o].qty < 0 THEN -ib[o].exec ELSE ib[o].exec
Position == Entry - MapThenSumSet(Sold, Orders)

SymbolBegins ==
    /\ BySymbol /\ at[Symbol] = "idle" /\ Another
    /\ \E cached \in Position .. Entry :
          /\ job' = [job EXCEPT ![Symbol].todo = Working, ![Symbol].qty = cached]
          /\ at' = [at EXCEPT ![Symbol] = IF cached = 0 THEN Swept(Working) ELSE "placing"]
    /\ Reads /\ Silent

Magnitude(n) == IF n < 0 THEN -n ELSE n

SymbolPlaces ==
    /\ Goes(Symbol, "placing", "waiting")
    /\ ib' = Placed(Symbol, Magnitude(job[Symbol].qty))
    /\ row' = [row EXCEPT ![Symbol] = "accepted"]
    /\ UNCHANGED <<asked, view, told, track, preroutes, job, wire, rec, trade>>

SymbolEndsMutant ==
    /\ at[Symbol] = "waiting"
    /\ row' = [row EXCEPT ![Symbol] = "filled"]
    /\ rec' = [rec EXCEPT ![Symbol] = view[Symbol].filled]
    /\ at' = [at EXCEPT ![Symbol] = Swept(job[Symbol].todo)]
    /\ Reads /\ UNCHANGED <<job, trade>>
SymbolEnds ==
    /\ at[Symbol] = "waiting"
    /\ \/ /\ view[Symbol].filled > 0
          /\ row' = [row EXCEPT ![Symbol] = "filled"]
          /\ rec' = [rec EXCEPT ![Symbol] = view[Symbol].filled]
          /\ at' = [at EXCEPT ![Symbol] = Swept(job[Symbol].todo)]
       \/ at' = [at EXCEPT ![Symbol] = "left"] /\ UNCHANGED <<row, rec>>
    /\ Reads /\ UNCHANGED <<job, trade>>

SymbolRaises ==
    /\ Goes(Symbol, "placing", "raised")
    /\ UNCHANGED job /\ Reads /\ Silent

(***************************************************************************)
(* The specification.                                                      *)
(***************************************************************************)
CloseStep(c) ==
    \/ Begin(c) \/ AlreadyClosed(c) \/ Place(c) \/ PlaceRaises(c) \/ Acked(c) \/ NotAcked(c)
    \/ Check(c) \/ WalkEnds(c) \/ WalkCapped(c) \/ WalkExpires(c) \/ Crosses(c) \/ CrossFails(c)
    \/ Crossed(c) \/ RepriceRaises(c) \/ Outcome(c) \/ Asks(c) \/ Settles(c) \/ Cancelling(c)
    \/ Resolve(c)

CancelStep(c) == CancelLeg(c) \/ LegCancelled(c) \/ LegRaises(c)
SymbolStep == SymbolBegins \/ SymbolPlaces \/ SymbolEnds \/ SymbolRaises
LegStep(leg) == LegExecutes(leg) \/ Breaks(leg) \/ Autonomous(leg)

(* Nothing is re-routed here: PreSubmitted is like Submitted, and the      *)
(* tracker knows of no end that the status does not show. A command that   *)
(* has ended reads its orders no more.                                     *)
Readers(o) == {c \in Commands : o \in {c} \cup {Cross(d) : d \in Closes \cap {c}}}
Heeded(o) == \E c \in Readers(o) : at[c] \notin Ended

IBStep(o) ==
    /\ \/ Cancels(o)
       \/ o \notin Legs /\ (Works(o) \/ Refuses(o) \/ Executes(o))
       \/ Heeded(o) /\ (Reports(o) \/ (o \in Closes /\ HearsFill(o)))
    /\ UNCHANGED tradeVars

Next ==
    \/ \E c \in Closes : CloseStep(c)
    \/ \E c \in Commands : CancelStep(c)
    \/ SymbolStep
    \/ \E leg \in Legs : LegStep(leg)
    \/ \E o \in Orders : IBStep(o)

Spec == Init /\ [][Next]_vars
=============================================================================
