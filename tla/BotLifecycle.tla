---------------------------- MODULE BotLifecycle ----------------------------
(***************************************************************************)
(* One bot of bots/runtime.py: the coroutines that share its document in   *)
(* Redis, and the orders they have at the engine.  "L" is the task of      *)
(* run_event_loop(), "S" the supervisory task of bots/runner.py, and each  *)
(* handler a request of bots/internal_api.py.  A coroutine gives way at    *)
(* its awaits: every read-modify-write of the document is a read and a     *)
(* write of the whole document, the on_* methods' under _state_lock, those *)
(* of _write_state(), _apply_cancel() and _apply_position_event() not.     *)
(* The engine works orders, and reports them on order:updates in order.    *)
(***************************************************************************)
EXTENDS BotDoc, Sequences

CONSTANTS
    Handlers,    \* the HTTP requests that may run at once
    MaxStarts,   \* bound: how often the bot is started
    BuyLeg,      \* the leg that buys: "entry" of a long bot, "exit" of a short one
    Setups       \* what the operator, the user and the faults may do, one for a behaviour:
                 \*   lots: of an entry;  stops: its stop_on_exit;  orders: after which no new one is decided on;
                 \*   commands: the requests;  clients: the handlers that serve them;
                 \*   lost: requests to the engine without an answer;  manual: lots the user
                 \*   sells outside the bot;  pushes: position events below what the bot
                 \*   tracks;  timeouts: whether entry_timeout_seconds may pass;
                 \*   outages: whether the engine's heartbeat may go stale

Requests == {"start", "stop", "force_stop", "reset", "force_buy", "force_sell", "force_quit"}
Setup == [lots : 1 .. Size, stops : BOOLEAN, orders : Nat, commands : SUBSET Requests,
          clients : SUBSET Handlers, lost : Nat, manual : Nat, pushes : Nat,
          timeouts : BOOLEAN, outages : BOOLEAN]

ASSUME LifecycleAssumption ==
    /\ Setups \subseteq Setup
    /\ MaxStarts \in Nat
    /\ BuyLeg \in {"entry", "exit"}
    /\ Handlers \cap {"L", "S", "free"} = {}

VARIABLES
    doc,       \* the document bot:<id>
    bot,       \* the number of the running instance
    alive,     \* whether it runs
    stopping,  \* its _stop_requested
    lock,      \* who holds each instance's _state_lock
    proc,      \* what each coroutine is doing
    orders,    \* the bot's orders, as the engine has them
    stream,    \* its part of order:updates that the event loop has not read
    position,  \* the lots IB says the account holds
    paged,     \* whether the operator has been paged
    setup      \* one of Setups, less what has happened of lost, manual and pushes

vars == <<doc, bot, alive, stopping, lock, proc, orders, stream, position, paged,
          setup>>

Procs == {"L", "S"} \cup Handlers
Free == "free"
Legs == {"entry", "exit"}

Event == [order : Nat, filled : 0 .. Size, terminal : BOOLEAN]
NoEvent == [order |-> None, filled |-> 0, terminal |-> FALSE]
Order == [leg : Legs, size : 0 .. Size, filled : 0 .. Size, told : 0 .. Size,
          status : {"sent", "open", "closed", "refused"}, ended : BOOLEAN]

(* What a coroutine is doing: the step it is at, whether it has read the   *)
(* document for it and what it read, the order it is placing, the event it *)
(* is handling.                                                            *)
Idle == [pc |-> "idle", read |-> FALSE, seen |-> FreshDoc, bot |-> 0, leg |-> "entry",
         qty |-> 0, order |-> None, prior |-> "OFF", base |-> FreshDoc, ev |-> NoEvent]

Locked == DOMAIN From
Unlocked == {"persist", "rollback", "apply", "touch", "pull", "arm", "reset"}
Steps == Locked \cup Unlocked \cup
    {"idle", "pre", "post", "wait", "retry", "retry_wait", "reduce", "check"}

TypeOK ==
    /\ doc \in Doc
    /\ bot \in 0 .. MaxStarts /\ alive \in BOOLEAN /\ stopping \in BOOLEAN
    /\ lock \in [1 .. MaxStarts -> Procs \cup {Free}]
    /\ \A p \in Procs :
          /\ proc[p].pc \in Steps /\ proc[p].read \in BOOLEAN
          /\ proc[p].seen \in Doc /\ proc[p].base \in Doc
          /\ proc[p].bot \in 0 .. MaxStarts /\ proc[p].leg \in Legs
          /\ proc[p].qty \in 0 .. Size /\ proc[p].order \in 0 .. Len(orders)
          /\ proc[p].prior \in States /\ proc[p].ev \in Event
    /\ orders \in Seq(Order)
    /\ stream \in Seq(Event)
    /\ position \in Int /\ paged \in BOOLEAN
    /\ setup \in Setup

Init ==
    /\ doc = FreshDoc
    /\ bot = 0 /\ alive = FALSE /\ stopping = FALSE
    /\ lock = [b \in 1 .. MaxStarts |-> Free]
    /\ proc = [p \in Procs |-> Idle]
    /\ orders = <<>> /\ stream = <<>>
    /\ position = 0 /\ paged = FALSE
    /\ setup \in Setups

instanceVars == <<bot, alive, stopping>>
brokerVars == <<orders, position>>

-----------------------------------------------------------------------------
(* The steps of a coroutine.                                               *)

BotOf(p) == IF p \in Handlers THEN proc[p].bot ELSE bot

(* The locks without those of some coroutines.                             *)
ReleasedBy(ps) == [b \in DOMAIN lock |-> IF lock[b] \in ps THEN Free ELSE lock[b]]

(* It goes on at another step; what it read for this one is spent.         *)
To(p, pc) == [proc[p] EXCEPT !.pc = pc, !.read = FALSE, !.seen = FreshDoc]
GoTo(p, next) == proc' = [proc EXCEPT ![p] = next]

(* The read: an on_* method waits for the lock, and holds it from here on. *)
CanRead(p) == proc[p].pc \in Locked => lock[BotOf(p)] = Free

Read(p) ==
    /\ proc[p].pc \in Locked \cup Unlocked /\ ~proc[p].read
    /\ CanRead(p)
    /\ lock' = IF proc[p].pc \in Locked THEN [lock EXCEPT ![BotOf(p)] = p] ELSE lock
    /\ GoTo(p, [proc[p] EXCEPT !.read = TRUE, !.seen = doc])
    /\ UNCHANGED <<doc, instanceVars, brokerVars, stream, paged, setup>>

(* An on_* method's write, if the state it read allows the transition, and *)
(* its release of the lock; a plain write, of whatever was read.           *)
Allowed(p) == proc[p].seen.state \in From[proc[p].pc]

Transition(p, op, new, next) ==
    /\ proc[p].pc = op /\ proc[p].read
    /\ doc' = IF Allowed(p) THEN new ELSE doc
    /\ lock' = ReleasedBy({p})
    /\ GoTo(p, next)

PlainWrite(p, op, new, next) ==
    /\ proc[p].pc = op /\ proc[p].read
    /\ doc' = new
    /\ UNCHANGED lock
    /\ GoTo(p, next)

-----------------------------------------------------------------------------
(* _run_pipeline() with one order, by the event loop or a handler.         *)

PlaceOp(leg) == IF leg = "entry" THEN "on_place_entry" ELSE "on_place_exit"
Triggers == {"AWAITING_ENTRY_TRIGGER", "AWAITING_EXIT_TRIGGER"}

(* The order that a coroutine sets out to place.                           *)
Placing(p, leg, qty) ==
    [Idle EXCEPT !.pc = "pre", !.bot = BotOf(p), !.leg = leg, !.qty = qty]

PreState(p) ==
    /\ proc[p].pc = "pre"
    /\ GoTo(p, [To(p, PlaceOp(proc[p].leg)) EXCEPT !.prior = doc.state])
    /\ UNCHANGED <<doc, lock, instanceVars, brokerVars, stream, paged, setup>>

(* on_place_*_order(): refused, the pipeline is given up before it starts. *)
Place(p) ==
    LET new == OnPlaceOrder(proc[p].seen, proc[p].leg, proc[p].qty)
    IN /\ Transition(p, PlaceOp(proc[p].leg), new,
                     IF Allowed(p) THEN [To(p, "persist") EXCEPT !.base = new] ELSE Idle)
       /\ UNCHANGED <<instanceVars, brokerVars, stream, paged, setup>>

(* The way out of a pipeline that has placed nothing: back to the state    *)
(* before, if that was one to wait in.                                     *)
GiveUpMutant(p) == Idle
GiveUp(p) == IF proc[p].prior \in Triggers THEN To(p, "revert") ELSE Idle

(* PersistenceMiddleware; RiskMiddleware may have taken a buy out.         *)
Persist(p) ==
    /\ \/ PlainWrite(p, "persist", proc[p].seen, To(p, "post"))
       \/ proc[p].leg = BuyLeg /\ PlainWrite(p, "persist", proc[p].seen, GiveUp(p))
    /\ UNCHANGED <<instanceVars, brokerVars, stream, paged, setup>>

(* POST /engine/orders, for a pipeline or for the retry of an exit.        *)
Post(p) ==
    /\ proc[p].pc \in {"post", "retry"}
    /\ orders' = Append(orders, [leg |-> proc[p].leg, size |-> proc[p].qty, filled |-> 0,
                                 told |-> 0, status |-> "sent", ended |-> FALSE])
    /\ GoTo(p, [To(p, IF proc[p].pc = "post" THEN "wait" ELSE "retry_wait")
                  EXCEPT !.order = Len(orders) + 1])
    /\ UNCHANGED <<doc, lock, instanceVars, position, stream, paged, setup>>

(* The engine answers when the order has ended.                            *)
AnsweredMutant(p) ==
    /\ proc[p].pc = "wait" /\ orders[proc[p].order].status \in {"open", "closed"}
    /\ GoTo(p, To(p, "patch_order_id"))
    /\ UNCHANGED <<doc, lock, instanceVars, brokerVars, stream, paged, setup>>
Answered(p) ==
    /\ proc[p].pc = "wait" /\ orders[proc[p].order].status = "closed"
    /\ GoTo(p, To(p, "patch_order_id"))
    /\ UNCHANGED <<doc, lock, instanceVars, brokerVars, stream, paged, setup>>

PatchOrderId(p) ==
    /\ Transition(p, "patch_order_id", OnOrderId(proc[p].seen, proc[p].order), Idle)
    /\ UNCHANGED <<instanceVars, brokerVars, stream, paged, setup>>

(* It refuses the order, or its answer does not come.                      *)
NoAnswer(p) ==
    \/ orders[proc[p].order].status = "refused" /\ UNCHANGED setup
    \/ setup.lost > 0 /\ setup' = [setup EXCEPT !.lost = @ - 1]

Failed(p) ==
    /\ proc[p].pc = "wait" /\ NoAnswer(p)
    /\ GoTo(p, To(p, "rollback"))
    /\ UNCHANGED <<doc, lock, instanceVars, brokerVars, stream, paged>>

(* rollback_fn: the snapshot over the document, but for the state read.    *)
Rollback(p) ==
    /\ PlainWrite(p, "rollback", [proc[p].base EXCEPT !.state = proc[p].seen.state],
                  GiveUp(p))
    /\ UNCHANGED <<instanceVars, brokerVars, stream, paged, setup>>

RevertToState(p) ==
    /\ Transition(p, "revert", RevertTo(proc[p].seen, proc[p].prior), Idle)
    /\ UNCHANGED <<instanceVars, brokerVars, stream, paged, setup>>

Pipeline(p) ==
    \/ PreState(p) \/ Place(p) \/ Persist(p) \/ Post(p) \/ Answered(p)
    \/ PatchOrderId(p) \/ Failed(p) \/ Rollback(p) \/ RevertToState(p)

-----------------------------------------------------------------------------
(* run_event_loop(), one event at a time.                                  *)

Looping == alive /\ ~stopping /\ proc["L"].pc = "idle"

(* A bar or a quote on which the strategy decides to enter or to exit.     *)
Decide ==
    /\ Looping /\ Len(orders) < setup.orders
    /\ \/ doc.state = "AWAITING_ENTRY_TRIGGER" /\ GoTo("L", Placing("L", "entry", setup.lots))
       \/ /\ doc.state = "AWAITING_EXIT_TRIGGER" /\ doc.qty > 0
          /\ GoTo("L", Placing("L", "exit", doc.qty))
    /\ UNCHANGED <<doc, lock, instanceVars, brokerVars, stream, paged, setup>>

(* An order update: the state it is read in tells which leg it is of.      *)
LegOf(state) ==
    CASE state \in From.on_entry_filled -> "entry"
      [] state = "EXIT_ORDER_PLACED" -> "exit"
      [] OTHER -> "none"

FillStep(e, state) ==
    CASE LegOf(state) = "entry" -> "on_entry_filled"
      [] LegOf(state) = "exit" -> "on_exit_filled"
      [] OTHER -> "idle"

CancelStep(state) ==
    CASE state = "ENTRY_ORDER_PLACED" -> "on_entry_cancelled"
      [] state = "EXIT_ORDER_PLACED" -> "on_exit_cancelled"
      [] OTHER -> "touch"

StepFor(e, state) == IF e.filled > 0 THEN FillStep(e, state) ELSE CancelStep(state)

TakeUpdate ==
    /\ Looping /\ stream # <<>>
    /\ stream' = Tail(stream)
    /\ LET step == StepFor(Head(stream), doc.state)
       IN GoTo("L", IF step = "idle" THEN Idle
                    ELSE [Idle EXCEPT !.pc = step, !.ev = Head(stream),
                                      !.leg = IF LegOf(doc.state) = "exit" THEN "exit" ELSE "entry"])
    /\ UNCHANGED <<doc, lock, instanceVars, brokerVars, paged, setup>>

EntryFilled ==
    LET e == proc["L"].ev
    IN /\ Transition("L", "on_entry_filled", OnEntryFilled(proc["L"].seen, e.filled, e.terminal),
                     IF e.terminal THEN To("L", "apply") ELSE Idle)
       /\ UNCHANGED <<instanceVars, brokerVars, stream, paged, setup>>

(* An exit that leaves a residual is retried at once, until too often; one *)
(* that leaves none may be the bot's last.                                 *)
ExitFilled ==
    LET e == proc["L"].ev
        d == proc["L"].seen
        next == IF ~e.terminal THEN Idle
                ELSE IF Allowed("L") /\ Retries(d, e.filled, e.terminal)
                     THEN [To("L", "retry") EXCEPT !.qty = Left(d, e.filled)]
                     ELSE To("L", "apply")
    IN /\ Transition("L", "on_exit_filled", OnExitFilled(d, e.filled, e.terminal, setup.stops), next)
       /\ stopping' = (stopping \/ (Allowed("L") /\ Flat(d, e.filled, e.terminal) /\ setup.stops))
       /\ paged' = (paged \/ (Allowed("L") /\ GivesUp(d, e.filled, e.terminal)))
       /\ UNCHANGED <<bot, alive, brokerVars, stream, setup>>

(* _handle_retry_exit_order(): a failure is paged, and that is all.        *)
RetryFailedMutant == NoAnswer("L") /\ UNCHANGED paged
RetryFailed == NoAnswer("L") /\ paged' = TRUE

RetryDone ==
    /\ proc["L"].pc = "retry_wait"
    /\ \/ orders[proc["L"].order].status = "closed" /\ UNCHANGED <<paged, setup>>
       \/ RetryFailed
    /\ GoTo("L", To("L", "apply"))
    /\ UNCHANGED <<doc, lock, instanceVars, brokerVars, stream>>

(* _apply_fill(), whether or not the transition was allowed.               *)
WithFillMutant(d, leg, e) == [d EXCEPT !.qty = e.filled, !.priced = TRUE]
WithFill(d, leg, e) ==
    IF leg = "entry" THEN [d EXCEPT !.qty = e.filled, !.priced = TRUE] ELSE d

ApplyFill ==
    LET r == proc["L"]
    IN /\ PlainWrite("L", "apply", WithFill(r.seen, r.leg, r.ev), Idle)
       /\ UNCHANGED <<instanceVars, brokerVars, stream, paged, setup>>

Cancelled ==
    /\ \/ Transition("L", "on_entry_cancelled", BackToEntry(proc["L"].seen), To("L", "touch"))
       \/ Transition("L", "on_exit_cancelled", BackToExit(proc["L"].seen), To("L", "touch"))
    /\ UNCHANGED <<instanceVars, brokerVars, stream, paged, setup>>

(* _apply_cancel(), and the UpdateState of check_entry_timeout().          *)
Touch(p) ==
    /\ PlainWrite(p, "touch", proc[p].seen, Idle)
    /\ UNCHANGED <<instanceVars, brokerVars, stream, paged, setup>>

(* _apply_position_event() for a push below what the bot tracks: it asks   *)
(* IB, and goes by the answer if there is one.                             *)
Pushed ==
    /\ Looping /\ setup.pushes > 0
    /\ doc.state = "AWAITING_EXIT_TRIGGER" /\ doc.qty > 0
    /\ setup' = [setup EXCEPT !.pushes = @ - 1]
    /\ GoTo("L", [Idle EXCEPT !.pc = "pull"])
    /\ UNCHANGED <<doc, lock, instanceVars, brokerVars, stream, paged>>

Abs(n) == IF n < 0 THEN -n ELSE n

Pulled ==
    LET seen == proc["L"].seen
        holds == seen.state \in {"AWAITING_EXIT_TRIGGER"} \cup Placed /\ seen.qty > 0
    IN /\ proc["L"].pc = "pull" /\ proc["L"].read
       /\ \/ GoTo("L", Idle) /\ UNCHANGED paged
          \/ /\ holds /\ Abs(position) < seen.qty /\ UNCHANGED paged
             /\ GoTo("L", [Idle EXCEPT !.pc = "reduce", !.seen = [seen EXCEPT !.qty = Abs(position)]])
          \/ /\ holds /\ Abs(position) > seen.qty /\ paged' = TRUE
             /\ GoTo("L", To("L", "on_mismatch"))
       /\ UNCHANGED <<doc, lock, instanceVars, brokerVars, stream, setup>>

Reduced(d) == IF d.qty = 0 THEN To("L", "on_manual_close") ELSE Idle

Reduce ==
    /\ proc["L"].pc = "reduce"
    /\ doc' = proc["L"].seen
    /\ GoTo("L", Reduced(doc'))
    /\ UNCHANGED <<lock, instanceVars, brokerVars, stream, paged, setup>>

Reconciled ==
    /\ \/ Transition("L", "on_manual_close", BackToEntry(proc["L"].seen), Idle)
       \/ Transition("L", "on_mismatch", ToErrored(proc["L"].seen), Idle)
    /\ UNCHANGED <<instanceVars, brokerVars, stream, paged, setup>>

(* The instance's tasks are cancelled, and what they held is released; the *)
(* coroutine that has it done has nothing left to do.                      *)
GoneMutant(p) ==
    /\ alive' = FALSE /\ stopping' = FALSE /\ UNCHANGED bot
    /\ stream' = <<>>
    /\ proc' = [q \in Procs |-> IF q \in {"S", p} THEN Idle ELSE proc[q]]
    /\ lock' = ReleasedBy({"S", p})
Gone(p) ==
    /\ alive' = FALSE /\ stopping' = FALSE /\ UNCHANGED bot
    /\ stream' = <<>>
    /\ proc' = [q \in Procs |-> IF q \in {"L", "S", p} THEN Idle ELSE proc[q]]
    /\ lock' = ReleasedBy({"L", "S", p})

LoopExits ==
    /\ alive /\ stopping /\ proc["L"].pc = "idle"
    /\ Gone("L")
    /\ UNCHANGED <<doc, brokerVars, paged, setup>>

EventLoop ==
    \/ Decide \/ TakeUpdate \/ EntryFilled \/ ExitFilled \/ RetryDone \/ ApplyFill
    \/ Cancelled \/ Touch("L") \/ Pushed \/ Pulled \/ Reduce \/ Reconciled \/ LoopExits
    \/ Pipeline("L") \/ Read("L")

-----------------------------------------------------------------------------
(* _supervisory_loop()                                                     *)

(* check_entry_timeout(): not if the order's fill is recorded, or IB shows *)
(* a position, or cannot be reached.                                       *)
TimesOut ==
    /\ setup.timeouts /\ alive /\ proc["S"].pc = "idle"
    /\ doc.state = "ENTRY_ORDER_PLACED"
    /\ GoTo("S", [Idle EXCEPT !.pc = "check", !.seen = doc])
    /\ UNCHANGED <<doc, lock, instanceVars, brokerVars, stream, paged, setup>>

Recorded(id) == id \in 1 .. Len(orders) /\ orders[id].filled = orders[id].size

CheckFill ==
    /\ proc["S"].pc = "check"
    /\ \/ GoTo("S", Idle)
       \/ /\ position = 0 /\ ~Recorded(proc["S"].seen.awaiting)
          /\ GoTo("S", To("S", "on_entry_timeout"))
    /\ UNCHANGED <<doc, lock, instanceVars, brokerVars, stream, paged, setup>>

(* on_entry_timeout() asks the engine to cancel the symbol's open orders;  *)
(* a working order may be cancelled at any time, asked or not.             *)
EntryTimeout ==
    /\ Transition("S", "on_entry_timeout", BackToEntry(proc["S"].seen), To("S", "touch"))
    /\ UNCHANGED <<instanceVars, brokerVars, stream, paged, setup>>

(* check_stale_quote()                                                     *)
GoesStale ==
    /\ setup.outages /\ alive /\ proc["S"].pc = "idle"
    /\ doc.state \in Triggers
    /\ GoTo("S", [Idle EXCEPT !.pc = "on_crash"])
    /\ UNCHANGED <<doc, lock, instanceVars, brokerVars, stream, paged, setup>>

Crash ==
    /\ Transition("S", "on_crash", ToErrored(proc["S"].seen), Idle)
    /\ paged' = (paged \/ Allowed("S"))
    /\ UNCHANGED <<instanceVars, brokerVars, stream, setup>>

Supervisor ==
    TimesOut \/ CheckFill \/ EntryTimeout \/ Touch("S") \/ GoesStale \/ Crash \/ Read("S")

-----------------------------------------------------------------------------
(* The requests of bots/internal_api.py.  A stop takes the instance out of *)
(* bot_instances at once, so no other request finds it.                    *)

Registered ==
    alive /\ \A h \in Handlers : proc[h].pc \notin {"on_stop", "on_force_stop"}

Request(h, command, next) ==
    /\ proc[h].pc = "idle" /\ h \in setup.clients /\ command \in setup.commands
    /\ GoTo(h, next)

Simple(pc) == [Idle EXCEPT !.pc = pc, !.bot = bot]

(* start_bot(): nothing can come between the new instance's registration   *)
(* and on_start()'s taking its lock.                                       *)
Start(h) ==
    /\ ~alive /\ bot < MaxStarts /\ CleanForStart(doc)
    /\ Request(h, "start", [Idle EXCEPT !.pc = "on_start", !.bot = bot + 1,
                                        !.read = TRUE, !.seen = doc])
    /\ bot' = bot + 1 /\ alive' = TRUE /\ UNCHANGED stopping
    /\ lock' = [lock EXCEPT ![bot'] = h]
    /\ UNCHANGED <<doc, brokerVars, stream, paged, setup>>

Started(h) ==
    /\ Transition(h, "on_start", OnStart(proc[h].seen), Idle)
    /\ UNCHANGED <<instanceVars, brokerVars, stream, paged, setup>>

AskStop(h) ==
    /\ Registered
    /\ \/ Request(h, "stop", Simple("on_stop"))
       \/ Request(h, "force_stop", Simple("on_force_stop"))
    /\ UNCHANGED <<doc, lock, instanceVars, brokerVars, stream, paged, setup>>

(* on_stop() asks the engine to cancel while it holds the lock; if that    *)
(* fails there is no transition, and the tasks are cancelled all the same. *)
Stopped(h) ==
    /\ proc[h].pc = "on_stop" /\ proc[h].read
    /\ \/ doc' = IF Allowed(h) THEN OnStop(proc[h].seen) ELSE doc
       \/ proc[h].seen.state \in Placed /\ UNCHANGED doc
    /\ Gone(h)
    /\ UNCHANGED <<brokerVars, paged, setup>>

ForceStopped(h) ==
    /\ proc[h].pc = "on_force_stop" /\ proc[h].read
    /\ doc' = ToErrored(proc[h].seen)
    /\ Gone(h)
    /\ UNCHANGED <<brokerVars, paged, setup>>

Reset(h) ==
    /\ \/ ~Registered /\ Request(h, "reset", Simple("reset")) /\ UNCHANGED <<doc, lock>>
       \/ PlainWrite(h, "reset", ForcedOff(proc[h].seen), Idle)
    /\ UNCHANGED <<instanceVars, brokerVars, stream, paged, setup>>

(* force-buy and force-short; force-sell.                                  *)
ForceTrade(h) ==
    /\ Registered /\ Len(orders) < setup.orders
    /\ \/ /\ doc.state = "AWAITING_ENTRY_TRIGGER"
          /\ Request(h, "force_buy", [Placing(h, "entry", setup.lots) EXCEPT !.bot = bot])
       \/ /\ doc.state = "AWAITING_EXIT_TRIGGER" /\ doc.qty > 0
          /\ Request(h, "force_sell", [Placing(h, "exit", doc.qty) EXCEPT !.bot = bot])
    /\ UNCHANGED <<doc, lock, instanceVars, brokerVars, stream, paged, setup>>

(* force_quit(): by the state it reads before it writes armed.             *)
Quit(h) ==
    /\ Registered /\ Len(orders) < setup.orders
    /\ Request(h, "force_quit", [Simple("arm") EXCEPT !.prior = doc.state])
    /\ UNCHANGED <<doc, lock, instanceVars, brokerVars, stream, paged, setup>>

Selling(h, qty) == IF qty > 0 THEN Placing(h, "exit", qty) ELSE Idle

Armed(h) ==
    LET was == proc[h].prior
        qty == proc[h].seen.qty
    IN /\ PlainWrite(h, "arm", proc[h].seen,
                     CASE was = "AWAITING_EXIT_TRIGGER" -> Selling(h, qty)
                       [] was = "EXIT_ORDER_PLACED" -> To(h, "replace")
                       [] OTHER -> Idle)
       /\ UNCHANGED <<instanceVars, brokerVars, stream, paged, setup>>

(* The exit's cancel requested, it goes back a state and sells again.      *)
Replace(h) ==
    /\ Transition(h, "replace", BackToExit(proc[h].seen), Selling(h, doc'.qty))
    /\ UNCHANGED <<instanceVars, brokerVars, stream, paged, setup>>

Handler(h) ==
    \/ Start(h) \/ Started(h) \/ AskStop(h) \/ Stopped(h) \/ ForceStopped(h) \/ Reset(h)
    \/ ForceTrade(h) \/ Quit(h) \/ Armed(h) \/ Replace(h) \/ Pipeline(h) \/ Read(h)

-----------------------------------------------------------------------------
(* The engine and IB, and the user at TWS.                                 *)

Lots(leg) == IF leg = "entry" THEN 1 ELSE -1

Accept(i) ==
    /\ orders[i].status = "sent"
    /\ \E s \in {"open", "refused"} : orders' = [orders EXCEPT ![i].status = s]
    /\ UNCHANGED <<position, stream>>

Fill(i) ==
    /\ orders[i].status = "open"
    /\ orders' = [orders EXCEPT ![i].filled = @ + 1,
                                ![i].status = IF orders[i].filled + 1 = orders[i].size
                                              THEN "closed" ELSE @]
    /\ position' = position + Lots(orders[i].leg)
    /\ UNCHANGED stream

Cancel(i) ==
    /\ orders[i].status = "open"
    /\ orders' = [orders EXCEPT ![i].status = "closed"]
    /\ UNCHANGED <<position, stream>>

(* What has happened to the order goes out on order:updates; a loop that   *)
(* starts later begins at the end of the stream.                           *)
Publish(i) ==
    LET over == orders[i].status = "closed"
    IN /\ orders[i].filled # orders[i].told \/ (over /\ ~orders[i].ended)
       /\ orders' = [orders EXCEPT ![i].told = orders[i].filled, ![i].ended = over]
       /\ stream' = IF alive
                    THEN Append(stream, [order |-> i, filled |-> orders[i].filled,
                                         terminal |-> over])
                    ELSE stream
       /\ UNCHANGED position

OrderStep(i) == Accept(i) \/ Fill(i) \/ Cancel(i) \/ Publish(i)

Engine ==
    /\ \E i \in 1 .. Len(orders) : OrderStep(i)
    /\ UNCHANGED <<doc, lock, proc, instanceVars, paged, setup>>

UserSells ==
    /\ setup.manual > 0 /\ position > 0
    /\ setup' = [setup EXCEPT !.manual = @ - 1] /\ position' = position - 1
    /\ UNCHANGED <<doc, lock, proc, instanceVars, orders, stream, paged>>

Next == EventLoop \/ Supervisor \/ (\E h \in Handlers : Handler(h)) \/ Engine \/ UserSells

Spec == Init /\ [][Next]_vars
=============================================================================
