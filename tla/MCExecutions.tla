---------------------------- MODULE MCExecutions ----------------------------
(* One execution, or two, of one order or of two, from flat, long or short.*)
EXTENDS ExecutionsSafety

Exec(qty, price, order) == [qty |-> qty, price |-> price * One, order |-> order]

Scalps == <<Exec(1, 12, 1), Exec(-1, 14, 2)>>
Trims == <<Exec(2, 12, 1), Exec(-1, 14, 2)>>
Flips == <<Exec(-1, 12, 1), Exec(2, 9, 2)>>
Shuts == <<Exec(-1, 11, 1)>>
Adds == <<Exec(-2, 12, 1), Exec(-1, 11, 1)>>

Of(plans, held, kind, faults) ==
    [plan : plans, held : held, kind : {kind}, hitches : {faults}]

MCSetups ==
    Of({Trims}, {0}, "FUT", {}) \cup Of({Flips}, {2}, "FUT", {"gateway"})
    \cup Of({Trims}, {-1}, "FUT", {"restart"}) \cup Of({Adds}, {2}, "FUT", {"outage"})
    \cup Of({Scalps}, {0}, "FUT", {"shifted"}) \cup Of({Trims}, {0}, "STK", {})
    \cup Of({Shuts}, {1}, "FUT", {"bare"}) \cup Of({Scalps}, {0}, "FUT", {"bare"})
=============================================================================
