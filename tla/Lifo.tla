-------------------------------- MODULE Lifo --------------------------------
(***************************************************************************)
(* The last-in-first-out view of one contract (engine/lifo_pnl.py).  IB    *)
(* keeps a position at its average cost; the chart shows the newest lots   *)
(* closed first.  A position that is older than the executions known is    *)
(* one seed lot, whose cost is solved from IB's own numbers.               *)
(*                                                                         *)
(* An open position is a direction and the costs of its contracts, oldest  *)
(* first.  Amounts are in units so small (One is a Decimal 1) that the     *)
(* averages of the bounded inputs are whole.                               *)
(***************************************************************************)
EXTENDS Integers, SequencesExt, FiniteSetsExt

One == 144                  \* a Decimal 1
Mult == 2                   \* the contract's multiplier
NoPnl == 2000000000         \* None: no realized P&L, no average cost

Abs(n) == IF n < 0 THEN -n ELSE n
Sign(n) == IF n > 0 THEN 1 ELSE IF n < 0 THEN -1 ELSE 0
Total(seq) == FoldSeq(+, 0, seq)

(* A fill is [id, qty, price, comm, ib, mult]: its signed quantity, its    *)
(* commission, what IB says it realized, and whether the contract that     *)
(* came with it has its multiplier.                                        *)
Bought(fills) == Total([i \in DOMAIN fills |-> fills[i].qty])
OpenCost(f) == f.price + (Sign(f.qty) * f.comm) \div (Abs(f.qty) * Mult)

NoLots == [dir |-> 1, costs |-> <<>>]
LotsOf(qty, cost) == [dir |-> Sign(qty), costs |-> [i \in 1 .. Abs(qty) |-> cost]]
OpenQty(lots) == lots.dir * Len(lots.costs)
AvgCost(lots) == IF lots.costs = <<>> THEN NoPnl ELSE Total(lots.costs) \div Len(lots.costs)

Closes(lots, f) ==
    IF Sign(f.qty) = -lots.dir
    THEN Min({Abs(f.qty), Len(lots.costs)}) ELSE 0

LotsAfter(lots, f) ==
    LET kept == SubSeq(lots.costs, 1, Len(lots.costs) - Closes(lots, f))
        rest == Abs(f.qty) - Closes(lots, f)
    IN  IF rest = 0 THEN [lots EXCEPT !.costs = kept]
        ELSE [dir |-> Sign(f.qty), costs |-> kept \o [i \in 1 .. rest |-> OpenCost(f)]]

Gain(lots, f) ==
    LET n == Len(lots.costs)
        closed == SubSeq(lots.costs, n - Closes(lots, f) + 1, n)
    IN  Mult * lots.dir * (Closes(lots, f) * f.price - Total(closed))

RealizedMutant(lots, f) ==
    IF Closes(lots, f) = 0 THEN NoPnl ELSE Gain(lots, f) - f.comm

Realized(lots, f) ==
    IF Closes(lots, f) = 0 THEN NoPnl
    ELSE Gain(lots, f) - (f.comm * Closes(lots, f)) \div Abs(f.qty)

-----------------------------------------------------------------------------
(* The walk at average cost.  `realized` is counted until the seed is gone.*)

AvgStep(s, f) ==
    LET closed == Min({Abs(f.qty), Abs(s.qty)})
        after == s.qty + f.qty
        worth == Mult * Sign(s.qty) * closed * (f.price - s.avg) - (f.comm * closed) \div Abs(f.qty)
        through == Sign(after) # Sign(s.qty)
    IN  IF s.qty = 0 \/ Sign(f.qty) = Sign(s.qty)
        THEN [s EXCEPT !.qty = after,
                       !.avg = (Abs(s.qty) * @ + Abs(f.qty) * OpenCost(f)) \div Abs(after)]
        ELSE [qty |-> after,
              avg |-> IF through /\ after # 0 THEN OpenCost(f) ELSE s.avg,
              realized |-> IF s.gone THEN s.realized ELSE s.realized + worth,
              gone |-> s.gone \/ through]

SimulateAvg(qty, cost, fills) ==
    FoldLeft(AvgStep, [qty |-> qty, avg |-> cost, realized |-> 0, gone |-> FALSE], fills)

Before(qty, fills, i) == qty + Bought(SubSeq(fills, 1, i - 1))
Reduces(qty, fills, i) == Sign(fills[i].qty) = -Sign(Before(qty, fills, i))

(* The fills that close the seed, up to the one that ends it.              *)
SeedEnds(qty, fills) ==
    LET ends == {i \in DOMAIN fills : /\ Reduces(qty, fills, i)
                                      /\ Sign(Before(qty, fills, i + 1)) # Sign(Before(qty, fills, i))}
    IN  {i \in DOMAIN fills : Reduces(qty, fills, i) /\ \A e \in ends : i <= Min(ends)}

Unsolved(reason) == [cost |-> NoPnl, reason |-> reason]
Solved(cost) == [cost |-> cost, reason |-> "none"]

SolveSeedCost(qty, fills, avgNow) ==
    LET zero == SimulateAvg(qty, 0, fills)
        one == SimulateAvg(qty, One, fills)
        ends == SeedEnds(qty, fills)
        target == Total([i \in DOMAIN fills |-> IF i \in ends THEN fills[i].ib ELSE 0])
    IN  CASE ~ zero.gone /\ (avgNow = NoPnl \/ zero.qty = 0 \/ one.avg = zero.avg) -> Unsolved("no_ib_avg_cost")
          [] ~ zero.gone -> Solved(((avgNow - zero.avg) * One) \div (one.avg - zero.avg))
          [] zero.gone /\ \E i \in ends : fills[i].ib = NoPnl -> Unsolved("ib_realized_missing")
          [] zero.gone /\ one.realized = zero.realized -> Unsolved("degenerate_seed")
          [] OTHER -> Solved(((target - zero.realized) * One) \div (one.realized - zero.realized))

(* Further than half the first price from it.                              *)
Implausible(cost, price) == 2 * Abs(cost - price) > price

Fallback(reason) == [method |-> "avg", reason |-> reason, realized |-> <<>>, lots |-> NoLots]

(* The multiplier is that of any of the fills, or of what is held.         *)
MultKnown(fills, position) == position.qty # 0 \/ \E i \in DOMAIN fills : fills[i].mult

(* One contract: `position` is [qty, avg], avg NoPnl when it is not held.  *)
ComputeOne(fills, position) ==
    LET qty == position.qty - Bought(fills)
        seed == IF qty = 0 THEN Solved(0) ELSE SolveSeedCost(qty, fills, position.avg)
        lots[i \in 0 .. Len(fills)] ==
            IF i = 0 THEN IF qty = 0 THEN NoLots ELSE LotsOf(qty, seed.cost)
            ELSE LotsAfter(lots[i - 1], fills[i])
        known == MultKnown(fills, position)
    IN  CASE ~ known -> Fallback("unknown_multiplier")
          [] known /\ seed.cost = NoPnl -> Fallback(seed.reason)
          [] known /\ qty # 0 /\ seed.cost # NoPnl /\ Implausible(seed.cost, fills[1].price) -> Fallback("seed_cost_implausible")
          [] OTHER -> [method |-> "lifo", reason |-> "none",
                       realized |-> [i \in DOMAIN fills |-> Realized(lots[i - 1], fills[i])],
                       lots |-> lots[Len(fills)]]
=============================================================================
