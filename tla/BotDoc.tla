------------------------------- MODULE BotDoc -------------------------------
(***************************************************************************)
(* The document bot:<id> in Redis, which holds a bot's lifecycle state and *)
(* position, and what each on_* method of bots/runtime.py makes of it      *)
(* under the bot's lock.  Only the fields that control depends on are      *)
(* kept: lines, stops, prices and times are left out, but for whether      *)
(* entry_price is set.                                                     *)
(***************************************************************************)
EXTENDS Integers

CONSTANTS
    Size,             \* the lots of an entry
    MaxExitRetries    \* _MAX_EXIT_RETRIES

ASSUME BotDocAssumption ==
    Size \in Nat \ {0} /\ MaxExitRetries \in Nat

(* ib_order_id: the orders are numbered from 1.                            *)
None == 0
Pending == -1
OrderIds == Nat \cup {Pending}

States == {"OFF", "AWAITING_ENTRY_TRIGGER", "ENTRY_ORDER_PLACED",
           "AWAITING_EXIT_TRIGGER", "EXIT_ORDER_PLACED", "ERRORED"}
Placed == {"ENTRY_ORDER_PLACED", "EXIT_ORDER_PLACED"}

Doc == [state : States, qty : 0 .. Size, order_qty : 0 .. Size, ib_order_id : OrderIds,
        awaiting : OrderIds, priced : BOOLEAN, exit_retries : 0 .. MaxExitRetries]

FreshDoc == [state |-> "OFF", qty |-> 0, order_qty |-> 0, ib_order_id |-> None,
             awaiting |-> None, priced |-> FALSE, exit_retries |-> 0]

(* clear_position_fields() and force_off_state().                          *)
Cleared(d) ==
    [d EXCEPT !.qty = 0, !.order_qty = 0, !.ib_order_id = None, !.awaiting = None,
              !.priced = FALSE]
ForcedOff(d) == [Cleared(d) EXCEPT !.state = "OFF"]

(* is_clean_for_start()                                                    *)
CleanForStart(d) ==
    /\ d.state = "OFF"
    /\ d.qty = 0 /\ ~d.priced /\ d.awaiting = None /\ d.ib_order_id = None

(* The states each method takes its transition from; in any other state it  *)
(* logs and leaves the document alone.                                     *)
From ==
    [on_start           |-> {"OFF", "ERRORED"},
     on_stop            |-> States \ {"OFF"},
     on_force_stop      |-> States,
     on_crash           |-> States \ {"OFF", "ERRORED"},
     on_mismatch        |-> States \ {"OFF", "ERRORED"},
     on_entry_timeout   |-> {"ENTRY_ORDER_PLACED"},
     on_entry_cancelled |-> {"ENTRY_ORDER_PLACED"},
     on_exit_cancelled  |-> {"EXIT_ORDER_PLACED"},
     on_manual_close    |-> {"AWAITING_EXIT_TRIGGER", "EXIT_ORDER_PLACED"},
     on_place_entry     |-> {"AWAITING_ENTRY_TRIGGER"},
     on_place_exit      |-> {"AWAITING_EXIT_TRIGGER"},
     on_entry_filled    |-> {"ENTRY_ORDER_PLACED", "AWAITING_ENTRY_TRIGGER"},
     on_exit_filled     |-> {"EXIT_ORDER_PLACED"},
     patch_order_id     |-> Placed,
     revert             |-> States,
     replace            |-> {"EXIT_ORDER_PLACED"}]

(* What it makes of the document then.                                     *)
OnStart(d) == [Cleared(d) EXCEPT !.state = "AWAITING_ENTRY_TRIGGER"]
OnStop(d) == ForcedOff(d)
ToErrored(d) == [d EXCEPT !.state = "ERRORED"]
BackToEntry(d) == [Cleared(d) EXCEPT !.state = "AWAITING_ENTRY_TRIGGER"]
BackToExit(d) == [d EXCEPT !.state = "AWAITING_EXIT_TRIGGER", !.order_qty = 0]

OnPlaceEntryOrder(d, qty) ==
    [d EXCEPT !.state = "ENTRY_ORDER_PLACED", !.order_qty = qty, !.ib_order_id = Pending]

OnPlaceExitOrder(d, qty) ==
    [d EXCEPT !.state = "EXIT_ORDER_PLACED", !.order_qty = qty, !.ib_order_id = Pending,
              !.exit_retries = 0]

OnPlaceOrder(d, leg, qty) ==
    IF leg = "entry" THEN OnPlaceEntryOrder(d, qty) ELSE OnPlaceExitOrder(d, qty)

(* on_entry_filled(): n lots of the entry are filled, so far or in all.    *)
OnEntryFilled(d, n, terminal) ==
    IF terminal THEN [d EXCEPT !.state = "AWAITING_EXIT_TRIGGER", !.qty = n, !.priced = TRUE]
                ELSE [d EXCEPT !.qty = n]

(* on_exit_filled(): what remains of the position decides.                 *)
LeftMutant(d, n) == d.qty
Left(d, n) == IF d.qty > n THEN d.qty - n ELSE 0
FlatMutant(d, n, terminal) == terminal
Flat(d, n, terminal) == terminal /\ Left(d, n) = 0
Exhausted(d) == d.exit_retries >= MaxExitRetries
GivesUp(d, n, terminal) == terminal /\ Left(d, n) > 0 /\ Exhausted(d)
Retries(d, n, terminal) == terminal /\ Left(d, n) > 0 /\ ~Exhausted(d)

(* Flat, a bot with stop_on_exit is done.                                  *)
OnExitFilled(d, n, terminal, stops) ==
    CASE Flat(d, n, terminal) ->
           [Cleared(d) EXCEPT !.exit_retries = 0,
                              !.state = IF stops THEN "OFF" ELSE "AWAITING_ENTRY_TRIGGER"]
      [] GivesUp(d, n, terminal) -> [d EXCEPT !.state = "ERRORED", !.qty = Left(d, n)]
      [] Retries(d, n, terminal) ->
           [d EXCEPT !.qty = Left(d, n), !.order_qty = Left(d, n), !.exit_retries = @ + 1]
      [] OTHER -> d

(* _run_pipeline(), when the engine has answered with the order's id.      *)
OnOrderId(d, id) == [d EXCEPT !.ib_order_id = id, !.awaiting = id]

(* _revert_to_state(), from any state.                                     *)
RevertTo(d, prior) ==
    [(IF prior = "AWAITING_ENTRY_TRIGGER" THEN Cleared(d) ELSE d) EXCEPT
        !.order_qty = 0, !.awaiting = None, !.state = prior]
=============================================================================
