-------------------------- MODULE OrderWorkSafety --------------------------
(***************************************************************************)
(* What the rows, the trade and the exit legs of one execute_order() may   *)
(* say of the order at IB. SMART_MARKET reads its second order only once   *)
(* and closes without looking, so several of these leave it out; what it   *)
(* may do instead is in the README.                                        *)
(***************************************************************************)
EXTENDS OrderWork

Executed == ib["first"].exec + ib["cross"].exec

(* A FILLED or PARTIAL_FILL row never records more than IB has executed,   *)
(* whether its quantity is from orderStatus, from the executions the       *)
(* callback was told of, or the sum over a limit order and its market      *)
(* order. engine/order.py:1448-1461, 2045-2070, 2889-2899                  *)
RecordedIsExecuted == recorded <= Executed

(* A CANCELLED row is of an order that no longer works at IB, although the *)
(* cancel may be refused, slow, or lose to fills: _finalize_partial_cancel *)
(* writes it only when IB has confirmed. engine/order.py:2714-2856         *)
CancelledIsOver ==
    strat # "smart" /\ preroutes = 0
        => \A o \in Worked : row[o] = "cancelled" => ~ IsOpen(o)

(* Unless a cancel was given up on, the quantity in the order's last fill  *)
(* row is every lot of it: no fill that raced the cancel, or reached only  *)
(* one of the status and the callback, is left out.                        *)
(* engine/order.py:2667-2711, 2889-2931                                    *)
FinalIsExact ==
    /\ at \in Ended /\ strat # "smart" /\ preroutes = 0
    /\ job.res # "timeout"
    /\ row["first"] \in {"filled", "cancelled"}
    => recorded = Executed

(* The exit legs are for lots the trade has: none is larger than what IB   *)
(* has executed when it is placed and ever after.                          *)
(* engine/order.py:2456-2508, 2976-2993                                    *)
LegsAreCovered == \A leg \in Legs : ib[leg].size <= Executed
=============================================================================
