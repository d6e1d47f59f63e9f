---------------------------- MODULE OrderOutcome ----------------------------
(***************************************************************************)
(* What the engine promises the consumers of the order:updates stream:     *)
(* the end of an order is announced by one terminal event; it can be       *)
(* announced again only after the engine has forgotten, for all orders at  *)
(* once, which ones it announced.                                          *)
(***************************************************************************)
EXTENDS Naturals

CONSTANT Orders

VARIABLES
    closed,   \* the orders remembered as announced
    ends      \* the number of terminal events published for each order

outcomeVars == <<closed, ends>>

OutcomeInit == closed = {} /\ ends = [o \in Orders |-> 0]

Announce(o) ==
    /\ o \notin closed
    /\ closed' = closed \cup {o}
    /\ ends' = [ends EXCEPT ![o] = @ + 1]

Forget == closed' = {} /\ UNCHANGED ends

OutcomeNext == Forget \/ \E o \in Orders : Announce(o)

OutcomeSpec == OutcomeInit /\ [][OutcomeNext]_outcomeVars
=============================================================================
