----------------------------- MODULE Executions -----------------------------
(***************************************************************************)
(* The executions of one contract on their way to the chart: IB executes,  *)
(* reports the commission apart, pushes positions, and forgets what is     *)
(* older than the gateway's restart; the engine's sweep                    *)
(* (engine/main.py, _pnl_rollup_loop) asks for the executions, merges them *)
(* into the accumulator of the trailing window, matches them last-in-      *)
(* first-out against the cached position and writes the accumulator, the   *)
(* rollup and the markers to Redis.  Time is in units of Window hours / 2. *)
(***************************************************************************)
EXTENDS Lifo, Functions, TLC

CONSTANTS
    Window,     \* window_hours
    Offset,     \* what a shifted execution time is ahead by
    MaxClock,   \* bound on the time
    Setups      \* what will be executed, the position before, what may go wrong

Hitches == {"restart", "gateway", "outage", "shifted", "bare"}

ASSUME ExecutionsAssumption ==
    /\ {Window, Offset} \subseteq Nat \ {0} /\ MaxClock \in Nat
    /\ \A s \in Setups : s.hitches \subseteq Hitches /\ s.kind \in {"FUT", "STK"}

VARIABLES
    setup,      \* one of Setups
    hitches,    \* what may still go wrong (bound: each once)
    clock,
    at,         \* when each execution of the plan was done
    gateway,    \* the executions the gateway still returns
    fills,      \* ib_async's store: whether a fill's commission report has come
    moves,      \* positionEvent tasks that have not written yet
    cache,      \* positions_cache
    basis,      \* lifo_basis
    sweep,      \* the rollup loop
    store, rollup, markers,   \* Redis
    quiet       \* history, for the properties: nothing has changed since the sweep's fetch

vars == <<setup, hitches, clock, at, gateway, fills, moves, cache, basis, sweep, store, rollup, markers, quiet>>
atIB == <<clock, at, gateway, fills>>
shown == <<store, rollup, markers>>

HeldAt == 10 * One          \* bound: the average cost of the position before
Comm == One                 \* bound: every commission
NoBasis == Fallback("unset")
NoPosition == [qty |-> 0, avg |-> NoPnl]
NoRollup == [pnl |-> 0, session |-> NoPnl, ib |-> 0, ibSession |-> NoPnl, method |-> "none"]
Idle == [stage |-> "idle", fresh |-> <<>>]

Init ==
    /\ setup \in Setups /\ hitches = setup.hitches
    /\ clock = 0 /\ at = <<>> /\ gateway = {} /\ fills = <<>> /\ moves = {}
    /\ cache = IF setup.held = 0 THEN NoPosition ELSE [qty |-> setup.held, avg |-> HeldAt]
    /\ basis = NoBasis /\ sweep = Idle
    /\ store = <<>> /\ rollup = NoRollup /\ markers = {} /\ quiet = FALSE

-----------------------------------------------------------------------------
(* IB: the position after the first n executions, and what it says each    *)
(* realized.                                                               *)

AsFill(i) == [id |-> i, qty |-> setup.plan[i].qty, price |-> setup.plan[i].price, comm |-> Comm]

Walk(n) == SimulateAvg(setup.held, HeldAt, [i \in 1 .. n |-> AsFill(i)])
PositionAfter(n) ==
    IF Walk(n).qty = 0 THEN NoPosition ELSE [qty |-> Walk(n).qty, avg |-> Walk(n).avg]
PositionNow == PositionAfter(Len(at))

IbPnl(i) ==
    LET s == [Walk(i - 1) EXCEPT !.realized = 0, !.gone = FALSE]
    IN  IF Sign(s.qty) = -Sign(setup.plan[i].qty) THEN AvgStep(s, AsFill(i)).realized ELSE NoPnl

Executes ==
    /\ Len(at) < Len(setup.plan)
    /\ at' = Append(at, clock)
    /\ gateway' = gateway \cup {Len(at) + 1}
    /\ moves' = moves \cup {PositionAfter(Len(at) + 1)}
    /\ quiet' = FALSE /\ UNCHANGED <<setup, hitches, clock, fills, cache, basis, sweep, shown>>

(* An execution reaches ib_async, and its commission report pairs with it. *)
Books(i) ==
    /\ i \in gateway \ DOMAIN fills
    /\ fills' = fills @@ (i :> FALSE)
    /\ quiet' = FALSE /\ UNCHANGED <<setup, hitches, clock, at, gateway, moves, cache, basis, sweep, shown>>

Pairs(i) ==
    /\ i \in DOMAIN fills /\ ~ fills[i]
    /\ fills' = [fills EXCEPT ![i] = TRUE]
    /\ quiet' = FALSE /\ UNCHANGED <<setup, hitches, clock, at, gateway, moves, cache, basis, sweep, shown>>

Passes ==
    /\ clock < MaxClock /\ clock' = clock + 1
    /\ quiet' = FALSE /\ UNCHANGED <<setup, hitches, at, gateway, fills, moves, cache, basis, sweep, shown>>

(* The gateway's restart: it forgets, and with the connection ib_async may.*)
GatewayRestarts ==
    /\ "gateway" \in hitches /\ hitches' = hitches \ {"gateway"}
    /\ gateway' = {} /\ fills' \in {fills, <<>>}
    /\ quiet' = FALSE /\ UNCHANGED <<setup, clock, at, moves, cache, basis, sweep, shown>>

-----------------------------------------------------------------------------
(* The cache: from the poll, and from the events' own tasks, each of which *)
(* writes the position of its event after the awaits in between.           *)

Polls ==
    /\ cache # PositionNow /\ cache' = PositionNow
    /\ quiet' = FALSE /\ UNCHANGED <<setup, hitches, atIB, moves, basis, sweep, shown>>

Moves(p) ==
    /\ p \in moves /\ moves' = moves \ {p} /\ cache' = p
    /\ quiet' = FALSE /\ UNCHANGED <<setup, hitches, atIB, basis, sweep, shown>>

-----------------------------------------------------------------------------
(* The sweep.  A record of the accumulator is [id, time, pnl, comm, mult]. *)

(* The time IB's client gives an execution.                                *)
Told(i) == at[i] + IF "shifted" \in setup.hitches /\ i = 1 THEN Offset ELSE 0

ToRecord(i, mult) ==
    [id |-> i, time |-> Told(i),
     pnl |-> IF fills[i] THEN IbPnl(i) ELSE NoPnl,
     comm |-> IF fills[i] THEN Comm ELSE 0,
     mult |-> mult]

Deshift(time) == IF time > clock THEN time - Offset ELSE time

(* reqExecutions brings what the gateway remembers, or fails and is empty. *)
Asks ==
    /\ sweep.stage = "idle"
    /\ \/ sweep' = [Idle EXCEPT !.stage = "asked"]
          /\ UNCHANGED hitches
       \/ "outage" \in hitches /\ sweep' = [stage |-> "fetched", fresh |-> <<>>]
          /\ hitches' = hitches \ {"outage"}
    /\ UNCHANGED <<setup, atIB, moves, cache, basis, shown, quiet>>

(* The contracts of a fetch may come without the multiplier that they have *)
(* from then on.                                                           *)
Fetches ==
    /\ sweep.stage = "asked" /\ gateway \subseteq DOMAIN fills
    /\ \E mult \in BOOLEAN :
          /\ mult \/ "bare" \in hitches
          /\ hitches' = IF mult THEN hitches ELSE hitches \ {"bare"}
          /\ sweep' = [stage |-> "fetched", fresh |-> [i \in DOMAIN fills |-> ToRecord(i, mult)]]
          /\ quiet' = mult
    /\ UNCHANGED <<setup, atIB, moves, cache, basis, shown>>

RefreshedMutant(old, new) ==
    IF old.pnl = NoPnl /\ new.pnl # NoPnl
    THEN [old EXCEPT !.pnl = new.pnl, !.comm = new.comm]
    ELSE [old EXCEPT !.mult = @ \/ new.mult]

Refreshed(old, new) ==
    IF old.pnl = NoPnl /\ new.pnl # NoPnl
    THEN [old EXCEPT !.pnl = new.pnl, !.comm = new.comm]
    ELSE [old EXCEPT !.comm = IF @ = 0 THEN new.comm ELSE @, !.mult = @ \/ new.mult]

Merged ==
    LET fresh == sweep.fresh
        all == [i \in DOMAIN store \cup DOMAIN fresh |->
                   IF i \notin DOMAIN store THEN [fresh[i] EXCEPT !.time = Deshift(@)]
                   ELSE IF i \in DOMAIN fresh THEN Refreshed(store[i], fresh[i]) ELSE store[i]]
    IN  Restrict(all, {i \in DOMAIN all : all[i].time >= clock - Window})

(* The records as the fills of a walk, in the order of their times.        *)
Ordered(rows) ==
    LET Earlier(r, s) == r.time < s.time \/ (r.time = s.time /\ r.id < s.id)
        inOrder == SetToSortSeq({rows[i] : i \in DOMAIN rows}, Earlier)
    IN  [n \in DOMAIN inOrder |->
            [AsFill(inOrder[n].id) EXCEPT !.comm = inOrder[n].comm]
               @@ [ib |-> inOrder[n].pnl, mult |-> inOrder[n].mult]]

Matched(rows, position) ==
    IF setup.kind # "FUT" \/ rows = <<>> THEN NoBasis ELSE ComputeOne(Ordered(rows), position)

(* Realized P&L over the window and, for futures, the session.             *)
SessionStart == clock - (clock % Window)

Sum(pnls) == Total([n \in DOMAIN pnls |-> IF pnls[n] = NoPnl THEN 0 ELSE pnls[n]])

RolledUp(rows, matched) ==
    LET seq == Ordered(rows)
        lifo == matched.method = "lifo"
        counts == {n \in DOMAIN seq : seq[n].ib # NoPnl \/ (lifo /\ matched.realized[n] # NoPnl)}
        today == {n \in counts : setup.kind = "FUT" /\ rows[seq[n].id].time >= SessionStart}
        Ib(n) == IF seq[n].ib = NoPnl THEN 0 ELSE seq[n].ib
        Pnl(n) == IF ~ lifo THEN Ib(n)
                  ELSE IF matched.realized[n] = NoPnl THEN 0 ELSE matched.realized[n]
        SumOf(Op(_), S) == MapThenSumSet(Op, S)
        full == [pnl |-> SumOf(Pnl, counts), ib |-> SumOf(Ib, counts),
                 session |-> IF today = {} THEN NoPnl ELSE SumOf(Pnl, today),
                 ibSession |-> IF \A n \in today : seq[n].ib = NoPnl THEN NoPnl ELSE SumOf(Ib, today),
                 method |-> IF lifo THEN "lifo" ELSE "avg"]
    IN  IF full.pnl = 0 /\ full.ib = 0 /\ full.session = NoPnl THEN NoRollup ELSE full

(* One marker for an order: its first time, its quantity, what it cost.    *)
Marked(rows) ==
    LET OrderOf(i) == setup.plan[i].order
        group(o) == {i \in DOMAIN rows : OrderOf(i) = o}
        Qty(i) == Abs(setup.plan[i].qty)
        Cost(i) == Qty(i) * setup.plan[i].price
        one(o) == [time |-> Min({Deshift(rows[i].time) : i \in group(o)}),
                   side |-> Sign(setup.plan[CHOOSE i \in group(o) : TRUE].qty),
                   qty |-> MapThenSumSet(Qty, group(o)), notional |-> MapThenSumSet(Cost, group(o))]
    IN  {one(o) : o \in {OrderOf(i) : i \in DOMAIN rows}}

Computes ==
    LET rows == Merged
        matched == Matched(rows, cache)
    IN  /\ sweep.stage = "fetched"
        /\ basis' = matched
        /\ sweep' = [stage |-> "store", rows |-> rows,
                     rollup |-> RolledUp(rows, matched), markers |-> Marked(rows)]
        /\ UNCHANGED <<setup, hitches, atIB, moves, cache, shown, quiet>>

(* The three writes, each awaited.                                         *)
Saves ==
    /\ \/ sweep.stage = "store" /\ store' = sweep.rows /\ UNCHANGED <<rollup, markers>>
       \/ sweep.stage = "rollup" /\ rollup' = sweep.rollup /\ UNCHANGED <<store, markers>>
       \/ sweep.stage = "markers" /\ markers' = sweep.markers /\ UNCHANGED <<store, rollup>>
    /\ sweep' = CASE sweep.stage = "store" -> [sweep EXCEPT !.stage = "rollup"]
                  [] sweep.stage = "rollup" -> [sweep EXCEPT !.stage = "markers"]
                  [] OTHER -> Idle
    /\ UNCHANGED <<setup, hitches, atIB, moves, cache, basis, quiet>>

(* Redis is away: the sweep is given up where it is.                       *)
Fails ==
    /\ "outage" \in hitches /\ sweep.stage \notin {"idle", "asked"}
    /\ hitches' = hitches \ {"outage"} /\ sweep' = Idle
    /\ quiet' = FALSE /\ UNCHANGED <<setup, atIB, moves, cache, basis, shown>>

(* The engine starts again, with the positions if they arrive in time.     *)
EngineRestarts ==
    /\ "restart" \in hitches /\ hitches' = hitches \ {"restart"}
    /\ fills' = <<>> /\ moves' = {} /\ basis' = NoBasis /\ sweep' = Idle
    /\ cache' \in {PositionNow, NoPosition}
    /\ quiet' = FALSE /\ UNCHANGED <<setup, clock, at, gateway, shown>>

(* What the positions page shows for the cost of the futures held.         *)
Served ==
    IF basis.method = "lifo" /\ cache.qty # 0 /\ cache.qty = OpenQty(basis.lots)
    THEN AvgCost(basis.lots) ELSE cache.avg

Sweeps == Asks \/ Fetches \/ Computes \/ Saves

Next ==
    \/ Executes \/ Passes \/ GatewayRestarts \/ Polls \/ Sweeps \/ Fails \/ EngineRestarts
    \/ \E i \in DOMAIN setup.plan : Books(i) \/ Pairs(i)
    \/ \E p \in moves : Moves(p)

Spec == Init /\ [][Next]_vars

=============================================================================
