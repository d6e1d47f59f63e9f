-------------------------- MODULE TradeWorkSafety --------------------------
(***************************************************************************)
(* What the rows of a trade's exit may say of what IB has executed.        *)
(***************************************************************************)
EXTENDS TradeWork

Exits == Legs \cup Closes
Executed(o) == ib[o].exec + IF o \in Closes THEN ib[Cross(o)].exec ELSE 0

(* A trade is marked CLOSED only when IB has executed exits for all of it, *)
(* although a leg may fill on its own while a close is cancelled, crossed  *)
(* and settled, and its rows are written by different coroutines.          *)
(* engine/order.py:3423-3434, 3600-3618                                    *)
ClosedIsFlat == trade = "closed" => Lots([o \in Exits |-> Executed(o)], Exits) >= Entry

(* The row of a close that did not give up on a cancel has every lot that  *)
(* its order executed: none that raced the cancel, or reached only one of  *)
(* the status and the callback, is lost. A close by symbol may take the    *)
(* order back while it is placed, and is left out.                         *)
(* engine/order.py:3689-3722, 4480-4543                                    *)
CloseIsExact ==
    \A c \in Closes :
        /\ at[c] = "done" /\ job[c].strat # "smart" /\ preroutes = 0
        /\ ~ job[c].lost /\ at[Symbol] = "idle"
        => rec[c] = Executed(c)

(* A close by symbol takes the exit legs back only when it has executed,   *)
(* or found nothing to protect, and never its own order, whatever closes   *)
(* by serial run beside it.                                                *)
(* engine/order.py:3794-3803, 3890-3907                                    *)
ProtectionIsKept ==
    /\ asked \cap Legs # {} /\ job[Symbol].qty # 0 => ib[Symbol].exec > 0
    /\ Symbol \notin asked
=============================================================================
