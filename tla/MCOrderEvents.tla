--------------------------- MODULE MCOrderEvents ---------------------------
(* OrderEvents on orders of two lots.                                      *)
EXTENDS OrderEvents

CONSTANT o1

MCSide == [o \in Orders |-> "BUY"]
MCSize == [o \in Orders |-> 2]
(* Late and missing executions among others' trades, or cancels that are   *)
(* not meant and statuses that IB repeats.                                 *)
MCFaults == {{"late", "foreign"}, {"spurious", "dup"}}
MCNoFaults == {{}}
MCPositions == -4 .. 4
=============================================================================
