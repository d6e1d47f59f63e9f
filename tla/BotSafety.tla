------------------------------ MODULE BotSafety ------------------------------
(***************************************************************************)
(* What the coroutines of BotLifecycle do to the orders and the position   *)
(* between them. A force-buy, a force-sell and a force-quit go around the  *)
(* handlers' gates, so most of these are about a bot that is not forced.   *)
(***************************************************************************)
EXTENDS BotLifecycle, FiniteSets

(* Every task goes on, the engine ends every order (it cancels what it has *)
(* not filled in time) and reports it.                                     *)
Fairness ==
    /\ WF_vars(EventLoop)
    /\ WF_vars(Supervisor)
    /\ WF_vars(Engine)
    /\ \A h \in Handlers : WF_vars(Started(h)) /\ WF_vars(Read(h)) /\ WF_vars(Pipeline(h))

FairSpec == Spec /\ Fairness

Forced == setup.commands \cap {"force_buy", "force_sell", "force_quit", "reset"} # {}

(* Nobody interferes, and no timer gives up.                               *)
Unattended == setup.commands = {"start"} /\ ~ setup.timeouts

Working == {i \in 1 .. Len(orders) : orders[i].status \in {"sent", "open"}}
Over(i) == orders[i].ended \/ orders[i].status = "refused"

(* All that has happened has been reported and dealt with.                 *)
Quiet ==
    /\ alive /\ stream = <<>>
    /\ \A p \in Procs : proc[p].pc = "idle"
    /\ \A i \in 1 .. Len(orders) : Over(i)

-----------------------------------------------------------------------------
(* on_place_*_order() move the state before the engine is asked, and the   *)
(* handlers gate on it: the bot has never two orders at work, where the    *)
(* engine always answers, until it is started again: a stop only asks for  *)
(* the cancel, and the next instance does not know of the order.           *)
OneWorkingOrder == ~ Forced /\ bot <= 1 => Cardinality(Working) <= 1

(* The exits of the bot, retries of residuals included, never sell more    *)
(* than its entries have bought: on_exit_filled() takes from qty what was  *)
(* sold, whatever was reported in how many pieces.                         *)
NoOversell == Unattended => position >= 0

(* When every fill has been read and handled, the document has the         *)
(* quantity that the account has, unless the bot is parked in ERRORED,     *)
(* where on_exit_filled() and on_entry_filled() change nothing.            *)
Agreement == Unattended /\ Quiet /\ doc.state # "ERRORED" => doc.qty = position

(* After sales of the user that it has not noticed, it may think it has    *)
(* more than the account has, but never less: nothing is left unattended,  *)
(* but for an entry that fills while the entry timeout gives up on it, and *)
(* for one at work when its first instance is stopped, which the next one  *)
(* does not know of.                                                       *)
NothingUnattended ==
    Quiet /\ ~ Forced /\ ~ setup.timeouts /\ bot <= 1 /\ doc.state # "ERRORED" =>
        doc.qty >= position

(* Stopped or force-stopped, a bot sends no order, wherever its tasks were *)
(* when they were cancelled.                                               *)
StoppedSendsNothing == [][~alive /\ ~ Forced => Len(orders') = Len(orders)]_vars

(* A bot with an entry order at the engine gets out of ENTRY_ORDER_PLACED: *)
(* by the fill, the cancel, the refusal, or the timeout.                   *)
EntryEnds ==
    Unattended /\ doc.state = "ENTRY_ORDER_PLACED" ~> doc.state # "ENTRY_ORDER_PLACED"

(* An exit ends too, unless a retry could not be sent, which is paged.     *)
ExitEnds ==
    Unattended /\ doc.state = "EXIT_ORDER_PLACED" ~> (doc.state # "EXIT_ORDER_PLACED" \/ paged)
=============================================================================
