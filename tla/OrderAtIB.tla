----------------------------- MODULE OrderAtIB -----------------------------
(***************************************************************************)
(* An order as the engine's coroutines see it: IB's order (not part of the *)
(* repository), the trade.orderStatus that get_order_status() reads, the   *)
(* executions told to the scoped on_fill callback, and the tracker entry   *)
(* that on_status sets (ib/insync_client.py, engine/tracker.py).           *)
(* OrderEvents is the path between IB and these in full; here a report is  *)
(* one step that shows IB's order as it is, whenever it comes.             *)
(***************************************************************************)
EXTENDS Naturals, FiniteSets

CONSTANTS
    Orders,       \* the orders that may be placed
    MaxSize,      \* the largest order, in lots
    MaxPreroutes  \* bound: orders IB reports cancelled while it re-routes them

ASSUME OrderAtIBAssumption == MaxSize \in Nat \ {0} /\ MaxPreroutes \in Nat

VARIABLES
    ib,         \* IB's order: its state, size and executed lots
    asked,      \* the orders IB has been asked to cancel
    view,       \* trade.orderStatus: status and filled
    told,       \* the lots told to the order's on_fill callback
    track,      \* the tracker entry: registered, is_filled, is_canceled
    preroutes   \* how many orders IB has re-routed

ibVars == <<ib, asked, view, told, track, preroutes>>

Open == {"sent", "held", "live"}
Over == {"filled", "cancelled", "inactive"}
Pending == {"", "PendingSubmit"}
Refused == {"Cancelled", "Inactive"}
Terminal == Refused \cup {"Filled"}

Shown(st) ==
    CASE st = "none" -> ""
      [] st = "sent" -> "PendingSubmit"
      [] st = "held" -> "PreSubmitted"
      [] st = "live" -> "Submitted"
      [] st = "filled" -> "Filled"
      [] st = "cancelled" -> "Cancelled"
      [] st = "inactive" -> "Inactive"

NoOrder == [st |-> "none", size |-> 0, exec |-> 0]
Untracked == [on |-> FALSE, filled |-> FALSE, cancelled |-> FALSE]
Tracked == [Untracked EXCEPT !.on = TRUE]

AtIBTypeOK ==
    /\ ib \in [Orders -> [st : {"none"} \cup Open \cup Over, size : 0 .. MaxSize,
                          exec : 0 .. MaxSize]]
    /\ asked \subseteq Orders
    /\ view \in [Orders -> [st : {"PreSubmitted", "Submitted"} \cup Pending \cup Terminal,
                            filled : 0 .. MaxSize]]
    /\ told \in [Orders -> 0 .. MaxSize]
    /\ track \in [Orders -> [on : BOOLEAN, filled : BOOLEAN, cancelled : BOOLEAN]]
    /\ preroutes \in 0 .. MaxPreroutes

AtIBInit ==
    /\ ib = [o \in Orders |-> NoOrder]
    /\ asked = {}
    /\ view = [o \in Orders |-> [st |-> "", filled |-> 0]]
    /\ told = [o \in Orders |-> 0]
    /\ track = [o \in Orders |-> Untracked]
    /\ preroutes = 0

IsOpen(o) == ib[o].st \in Open
CanFill(o) == ib[o].st = "live" /\ ib[o].exec < ib[o].size

(***************************************************************************)
(* What the engine does to an order.                                       *)
(***************************************************************************)
(* place_limit_order() and its kin return an id; the status is not in yet. *)
Placed(o, size) == [ib EXCEPT ![o] = [st |-> "sent", size |-> size, exec |-> 0]]

(* cancel_order() does not send a cancel of an order it sees as over. *)
AskedToCancel(o) == IF view[o].st \in Terminal THEN asked ELSE asked \cup {o}

Registered(o) == [track EXCEPT ![o] = Tracked]
Unregistered(os) == [o \in Orders |-> IF o \in os THEN Untracked ELSE track[o]]

(***************************************************************************)
(* What IB does.                                                           *)
(***************************************************************************)
Moves(o, st) == /\ ib' = [ib EXCEPT ![o].st = st]
                /\ UNCHANGED <<asked, view, told, track, preroutes>>

Held(o) == ib[o].st = "sent" /\ Moves(o, "held")
Works(o) == ib[o].st \in {"sent", "held"} /\ Moves(o, "live")
Refuses(o) == ib[o].st \in {"sent", "held"} /\ \E st \in {"cancelled", "inactive"} : Moves(o, st)
Cancels(o) == o \in asked /\ IsOpen(o) /\ Moves(o, "cancelled")

Executes(o) ==
    /\ CanFill(o)
    /\ ib' = [ib EXCEPT ![o].exec = @ + 1,
                        ![o].st = IF ib[o].exec + 1 = ib[o].size THEN "filled" ELSE @]
    /\ UNCHANGED <<asked, view, told, track, preroutes>>

(* A Cancelled with perm_id 0 for an order that IB sends out again. *)
Preroutes(o) ==
    /\ ib[o].st = "sent" /\ view[o].st \in Pending /\ preroutes < MaxPreroutes
    /\ preroutes' = preroutes + 1
    /\ view' = [view EXCEPT ![o].st = "Cancelled"]
    /\ ib' = [ib EXCEPT ![o].st = "held"]
    /\ UNCHANGED <<asked, told, track>>

(***************************************************************************)
(* What the engine hears. orderStatus brings the cumulative quantity; a    *)
(* Cancelled shows once _verify_cancel has found the order gone.           *)
(***************************************************************************)
Current(o) == [st |-> Shown(ib[o].st), filled |-> ib[o].exec]

Reports(o) ==
    /\ view[o] # Current(o)
    /\ view' = [view EXCEPT ![o] = Current(o)]
    /\ UNCHANGED <<ib, asked, told, track, preroutes>>

(* on_status() runs in a task after the status shows. *)
HearsEnd(o) ==
    /\ view[o].st \in Refused /\ ~ IsOpen(o)
    /\ track[o].on /\ ~ track[o].cancelled
    /\ track' = [track EXCEPT ![o].cancelled = TRUE]
    /\ UNCHANGED <<ib, asked, view, told, preroutes>>

(* on_fill() is called for an execution unless a terminal status, which    *)
(* unregisters the order's callbacks, came first. A re-routed order keeps  *)
(* them under the Cancelled it shows.                                      *)
HearsFill(o) ==
    /\ told[o] < ib[o].exec
    /\ view[o].st \in Terminal => IsOpen(o)
    /\ told' = [told EXCEPT ![o] = @ + 1]
    /\ track' = [track EXCEPT ![o].filled = @ \/ track[o].on]
    /\ UNCHANGED <<ib, asked, view, preroutes>>
=============================================================================
