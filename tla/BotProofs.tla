------------------------------ MODULE BotProofs ------------------------------
(***************************************************************************)
(* Proofs about one bot, for every set of requests, every setup, any       *)
(* number of starts and of orders: its types; a bot that does not run      *)
(* sends no order; one that nobody forces has one order at work at most;   *)
(* and its document tells what the account has, or more, never less.       *)
(***************************************************************************)
EXTENDS BotSafety, SequenceTheorems, FiniteSetTheorems, TLAPS

Coroutine ==
    [pc : Steps, read : BOOLEAN, seen : Doc, bot : 0 .. MaxStarts, leg : Legs,
     qty : 0 .. Size, order : Nat, prior : States, base : Doc, ev : Event]

Types == TypeOK /\ proc \in [Procs -> Coroutine]

(* The steps of a coroutine that has an order to place, or at the engine.  *)
Placings == {"pre", "on_place_entry", "on_place_exit", "persist", "post", "retry"}
Waiting == {"wait", "retry_wait"}

(* An order is for a lot at least; one that works has lots to fill.        *)
Sized ==
    /\ \A p \in Procs : proc[p].pc \in Placings => proc[p].qty > 0
    /\ \A p \in Procs : proc[p].pc \in Waiting => proc[p].order > 0
    /\ \A i \in Working : orders[i].filled < orders[i].size

(* The steps that a request takes when nobody forces the bot, and those of *)
(* the supervisory task: neither places an order.                          *)
Orderly == {"idle", "on_start", "on_stop", "on_force_stop"}
Watching == {"idle", "check", "on_entry_timeout", "touch", "on_crash"}

OnlyLoopPlaces ==
    /\ ~ Forced => \A h \in Handlers : proc[h].pc \in Orderly
    /\ proc["S"].pc \in Watching

LoopHasGone == ~ alive => proc["L"].pc = "idle"

BotInv == Types /\ Sized /\ OnlyLoopPlaces /\ LoopHasGone

-----------------------------------------------------------------------------
(* The constants, and the operators on documents and coroutines.           *)

LEMMA BotConstants ==
    /\ Size \in Nat /\ Size > 0 /\ MaxExitRetries \in Nat /\ MaxStarts \in Nat
    /\ Setups \subseteq Setup
    /\ Handlers \cap {"L", "S", "free"} = {}
BY BotDocAssumption, LifecycleAssumption DEF BotDocAssumption, LifecycleAssumption

LEMMA StepNames ==
    /\ Locked = {"on_start", "on_stop", "on_force_stop", "on_crash", "on_mismatch",
                 "on_entry_timeout", "on_entry_cancelled", "on_exit_cancelled",
                 "on_manual_close", "on_place_entry", "on_place_exit", "on_entry_filled",
                 "on_exit_filled", "patch_order_id", "revert", "replace"}
    /\ Locked \subseteq Steps /\ Unlocked \subseteq Steps
    /\ {"idle", "pre", "post", "wait", "retry", "retry_wait", "reduce", "check"} \subseteq Steps
BY DEF Locked, From, Steps

(* What the fields of a document may always hold.                         *)
LEMMA Members ==
    /\ 0 \in 0 .. Size /\ 0 \in 0 .. MaxExitRetries /\ 0 \in 0 .. MaxStarts /\ 0 \in Nat
    /\ None \in OrderIds /\ Pending \in OrderIds /\ Nat \subseteq OrderIds
    /\ {"OFF", "AWAITING_ENTRY_TRIGGER", "ENTRY_ORDER_PLACED", "AWAITING_EXIT_TRIGGER",
        "EXIT_ORDER_PLACED", "ERRORED"} = States
    /\ Legs = {"entry", "exit"}
BY BotConstants DEF OrderIds, None, Pending, States, Legs

LEMMA FreshTyped == FreshDoc \in Doc
BY Members DEF FreshDoc, Doc

LEMMA IdleTyped == Idle \in Coroutine
<1>1. NoEvent \in Event
  BY Members DEF NoEvent, Event, None
<1>2. "idle" \in Steps /\ None \in Nat
  BY StepNames DEF None
<1> QED
  BY <1>1, <1>2, FreshTyped, Members DEF Idle, Coroutine

LEMMA IdleIs == Idle.pc = "idle" /\ Idle.order = 0 /\ Idle.qty = 0
BY DEF Idle, None

LEMMA DocsTyped ==
    ASSUME NEW d \in Doc
    PROVE  /\ OnStart(d) \in Doc /\ OnStop(d) \in Doc /\ ToErrored(d) \in Doc
           /\ ForcedOff(d) \in Doc
           /\ BackToEntry(d) \in Doc /\ BackToExit(d) \in Doc
           /\ \A leg \in Legs, n \in 0 .. Size : OnPlaceOrder(d, leg, n) \in Doc
           /\ \A id \in Nat : OnOrderId(d, id) \in Doc
           /\ \A s \in States : RevertTo(d, s) \in Doc /\ [d EXCEPT !.state = s] \in Doc
<1>1. Cleared(d) \in Doc
  BY Members DEF Cleared, Doc
<1>2. \A c \in Doc : \A s \in States : [c EXCEPT !.state = s] \in Doc
  BY DEF Doc
<1>3. \A s \in States : [Cleared(d) EXCEPT !.state = s] \in Doc
  BY <1>1, <1>2
<1>4. OnStart(d) \in Doc /\ OnStop(d) \in Doc /\ ForcedOff(d) \in Doc /\ BackToEntry(d) \in Doc
  BY <1>3, Members DEF OnStart, OnStop, ForcedOff, BackToEntry
<1>5. ToErrored(d) \in Doc
  BY <1>2, Members DEF ToErrored
<1>6. BackToExit(d) \in Doc
  BY Members DEF BackToExit, Doc
<1>7. ASSUME NEW leg \in Legs, NEW n \in 0 .. Size
      PROVE  OnPlaceOrder(d, leg, n) \in Doc
  <2>1. OnPlaceEntryOrder(d, n) \in Doc
    BY Members DEF OnPlaceEntryOrder, Doc
  <2>2. OnPlaceExitOrder(d, n) \in Doc
    BY Members DEF OnPlaceExitOrder, Doc
  <2> QED
    BY <2>1, <2>2 DEF OnPlaceOrder
<1>8. \A id \in Nat : OnOrderId(d, id) \in Doc
  BY Members DEF OnOrderId, Doc
<1>9. \A c \in Doc : \A s \in States :
         [c EXCEPT !.order_qty = 0, !.awaiting = None, !.state = s] \in Doc
  BY Members DEF Doc
<1>10. \A s \in States : RevertTo(d, s) \in Doc
  BY <1>1, <1>9 DEF RevertTo
<1> QED
  BY <1>2, <1>4, <1>5, <1>6, <1>7, <1>8, <1>10

LEMMA FillsTyped ==
    ASSUME NEW d \in Doc, NEW n \in 0 .. Size, NEW terminal \in BOOLEAN, NEW stops \in BOOLEAN
    PROVE  /\ OnEntryFilled(d, n, terminal) \in Doc
           /\ OnExitFilled(d, n, terminal, stops) \in Doc
           /\ Left(d, n) \in 0 .. Size
<1>1. Left(d, n) \in 0 .. Size
  BY BotConstants DEF Left, Doc
<1>2. OnEntryFilled(d, n, terminal) \in Doc
  BY Members DEF OnEntryFilled, Doc
<1>3. OnExitFilled(d, n, terminal, stops) \in Doc
  <2>1. CASE Flat(d, n, terminal)
    <3>1. \A s \in States : [Cleared(d) EXCEPT !.exit_retries = 0, !.state = s] \in Doc
      BY Members DEF Cleared, Doc
    <3>2. OnExitFilled(d, n, terminal, stops) =
             [Cleared(d) EXCEPT !.exit_retries = 0,
                                !.state = IF stops THEN "OFF" ELSE "AWAITING_ENTRY_TRIGGER"]
      BY <2>1 DEF OnExitFilled, Flat, GivesUp, Retries
    <3>3. (IF stops THEN "OFF" ELSE "AWAITING_ENTRY_TRIGGER") \in States
      BY Members
    <3> QED
      BY <3>1, <3>2, <3>3
  <2>2. CASE ~Flat(d, n, terminal) /\ GivesUp(d, n, terminal)
    <3>1. [d EXCEPT !.state = "ERRORED", !.qty = Left(d, n)] \in Doc
      BY <1>1, Members DEF Doc
    <3>2. OnExitFilled(d, n, terminal, stops) = [d EXCEPT !.state = "ERRORED", !.qty = Left(d, n)]
      BY <2>2 DEF OnExitFilled, Flat, GivesUp, Retries
    <3> QED
      BY <3>1, <3>2
  <2>3. CASE ~Flat(d, n, terminal) /\ ~GivesUp(d, n, terminal) /\ Retries(d, n, terminal)
    <3>1. d.exit_retries + 1 \in 0 .. MaxExitRetries
      BY <2>3, BotConstants DEF Retries, Exhausted, Doc
    <3>2. [d EXCEPT !.qty = Left(d, n), !.order_qty = Left(d, n), !.exit_retries = @ + 1] \in Doc
      BY <1>1, <3>1 DEF Doc
    <3> QED
      BY <2>3, <3>2 DEF OnExitFilled
  <2>4. CASE ~Flat(d, n, terminal) /\ ~GivesUp(d, n, terminal) /\ ~Retries(d, n, terminal)
    BY <2>4 DEF OnExitFilled
  <2> QED
    BY <2>1, <2>2, <2>3, <2>4
<1> QED
  BY <1>1, <1>2, <1>3

(* Where To() leads, and what it keeps.                                    *)
LEMMA ToTyped ==
    ASSUME Types, NEW p \in Procs, NEW pc \in Steps
    PROVE  /\ To(p, pc) \in Coroutine
           /\ To(p, pc).pc = pc
           /\ To(p, pc).qty = proc[p].qty
           /\ To(p, pc).order = proc[p].order
           /\ To(p, pc).order <= Len(orders)
<1>1. proc[p] \in Coroutine
  BY DEF Types
<1>2. proc[p].order \in 0 .. Len(orders)
  BY DEF Types, TypeOK
<1>3. To(p, pc) \in Coroutine
  BY <1>1, FreshTyped DEF To, Coroutine
<1>4. To(p, pc).pc = pc /\ To(p, pc).qty = proc[p].qty /\ To(p, pc).order = proc[p].order
  BY <1>1 DEF To, Coroutine
<1> QED
  BY <1>2, <1>3, <1>4

LEMMA PlacingTyped ==
    ASSUME Types, NEW p \in Procs, NEW leg \in Legs, NEW n \in 0 .. Size
    PROVE  /\ Placing(p, leg, n) \in Coroutine
           /\ Placing(p, leg, n).pc = "pre" /\ Placing(p, leg, n).qty = n
           /\ Placing(p, leg, n).order = 0
BY IdleTyped, IdleIs, StepNames DEF Types, TypeOK, Placing, BotOf, Idle, Coroutine

LEMMA ReleaseTyped ==
    ASSUME Types, NEW ps
    PROVE  ReleasedBy(ps) \in [1 .. MaxStarts -> Procs \cup {Free}]
BY DEF Types, TypeOK, ReleasedBy

LEMMA ProcsAre ==
    /\ "L" \in Procs /\ "S" \in Procs /\ Handlers \subseteq Procs
    /\ "L" # "S" /\ "L" \notin Handlers /\ "S" \notin Handlers
BY BotConstants DEF Procs

-----------------------------------------------------------------------------
(* The kinds of steps.                                                     *)

(* What a coroutine may go on with.                                        *)
Sound(p, next) ==
    /\ next \in Coroutine
    /\ next.pc \in Placings => next.qty > 0
    /\ next.pc \in Waiting => next.order > 0
    /\ next.order <= Len(orders')
    /\ p \in Handlers => Forced \/ next.pc \in Orderly
    /\ p = "S" => next.pc \in Watching
    /\ p = "L" => alive' \/ next.pc = "idle"

(* The same, whoever's it is, after a step that sends no order.            *)
Fit(next) ==
    /\ next \in Coroutine
    /\ next.pc \in Placings => next.qty > 0
    /\ next.pc \in Waiting => next.order > 0
    /\ next.order <= Len(orders)

(* The rest of the state after a step.                                     *)
RestTyped ==
    /\ doc' \in Doc
    /\ bot' \in 0 .. MaxStarts /\ alive' \in BOOLEAN /\ stopping' \in BOOLEAN
    /\ lock' \in [1 .. MaxStarts -> Procs \cup {Free}]
    /\ stream' \in Seq(Event)
    /\ position' \in Int /\ paged' \in BOOLEAN
    /\ setup' \in Setup /\ setup'.commands = setup.commands

OrdersSound ==
    /\ orders' \in Seq(Order) /\ Len(orders') >= Len(orders)
    /\ \A i \in Working' : orders'[i].filled < orders'[i].size

LEMMA TypesUnfolded ==
    ASSUME Types
    PROVE  /\ doc \in Doc
           /\ bot \in 0 .. MaxStarts /\ alive \in BOOLEAN /\ stopping \in BOOLEAN
           /\ lock \in [1 .. MaxStarts -> Procs \cup {Free}]
           /\ proc \in [Procs -> Coroutine]
           /\ \A p \in Procs : proc[p].order <= Len(orders)
           /\ orders \in Seq(Order) /\ stream \in Seq(Event)
           /\ position \in Int /\ paged \in BOOLEAN
           /\ setup \in Setup
BY DEF Types, TypeOK

LEMMA CoroutineFields ==
    ASSUME NEW r \in Coroutine
    PROVE  /\ r.pc \in Steps /\ r.read \in BOOLEAN /\ r.seen \in Doc /\ r.base \in Doc
           /\ r.bot \in 0 .. MaxStarts /\ r.leg \in Legs /\ r.qty \in 0 .. Size
           /\ r.order \in Nat /\ r.prior \in States /\ r.ev \in Event
BY DEF Coroutine

LEMMA TypesFolded ==
    ASSUME RestTyped, OrdersSound, proc' \in [Procs -> Coroutine],
           \A p \in Procs : proc'[p].order <= Len(orders')
    PROVE  Types'
<1>1. Len(orders') \in Nat
  BY DEF OrdersSound
<1>2. ASSUME NEW p \in Procs
      PROVE  /\ proc'[p].pc \in Steps /\ proc'[p].read \in BOOLEAN
             /\ proc'[p].seen \in Doc /\ proc'[p].base \in Doc
             /\ proc'[p].bot \in 0 .. MaxStarts /\ proc'[p].leg \in Legs
             /\ proc'[p].qty \in 0 .. Size /\ proc'[p].order \in 0 .. Len(orders')
             /\ proc'[p].prior \in States /\ proc'[p].ev \in Event
  <2>1. proc'[p] \in Coroutine
    OBVIOUS
  <2>2. proc'[p].order \in Nat /\ proc'[p].order <= Len(orders')
    BY <2>1, CoroutineFields
  <2>3. proc'[p].order \in 0 .. Len(orders')
    BY <1>1, <2>2
  <2> QED
    BY <2>1, <2>3, CoroutineFields
<1> QED
  BY <1>2 DEF Types, TypeOK, RestTyped, OrdersSound

(* One coroutine goes on.                                                  *)
LEMMA MoveKeeps ==
    ASSUME BotInv, NEW p \in Procs, NEW next, GoTo(p, next), Sound(p, next),
           RestTyped, OrdersSound, alive => alive'
    PROVE  BotInv'
<1>1. proc \in [Procs -> Coroutine] /\ proc' = [proc EXCEPT ![p] = next] /\ next \in Coroutine
  BY TypesUnfolded DEF BotInv, GoTo, Sound
<1>2. proc'[p] = next /\ \A q \in Procs : q # p => proc'[q] = proc[q]
  BY <1>1
<1>3. Types'
  <2>1. Len(orders) \in Nat /\ Len(orders') \in Nat /\ Len(orders) <= Len(orders')
    BY TypesUnfolded DEF BotInv, OrdersSound
  <2>2. ASSUME NEW q \in Procs
        PROVE  proc'[q].order <= Len(orders')
    <3>1. CASE q = p
      BY <1>2, <3>1 DEF Sound
    <3>2. CASE q # p
      <4>1. proc'[q] = proc[q] /\ proc[q].order <= Len(orders) /\ proc[q].order \in Nat
        BY <1>1, <1>2, <3>2, TypesUnfolded, CoroutineFields DEF BotInv
      <4> QED
        BY <2>1, <4>1
    <3> QED
      BY <3>1, <3>2
  <2>3. proc' \in [Procs -> Coroutine]
    BY <1>1
  <2> QED
    BY <2>2, <2>3, TypesFolded
<1>4. Sized'
  BY <1>2 DEF BotInv, Sized, Sound, OrdersSound
<1>5. Forced' <=> Forced
  BY DEF Forced, RestTyped
<1>6. OnlyLoopPlaces'
  BY <1>2, <1>5, ProcsAre DEF BotInv, OnlyLoopPlaces, Sound
<1>7. LoopHasGone'
  BY <1>2, ProcsAre DEF BotInv, LoopHasGone, Sound
<1> QED
  BY <1>3, <1>4, <1>6, <1>7 DEF BotInv

(* The instance's tasks are cancelled.                                     *)
LEMMA GoneKeeps ==
    ASSUME BotInv, NEW p \in Procs, Gone(p), doc' \in Doc,
           UNCHANGED <<orders, position, paged, setup>>
    PROVE  BotInv'
<1>1. proc \in [Procs -> Coroutine]
  BY TypesUnfolded DEF BotInv
<1>2. \A q \in Procs : proc'[q] = Idle \/ proc'[q] = proc[q]
  BY DEF Gone
<1>3. proc' \in [Procs -> Coroutine] /\ proc'["L"] = Idle
  BY <1>1, IdleTyped, ProcsAre DEF Gone
<1>4. orders' = orders /\ setup' = setup /\ bot' = bot
  BY DEF Gone
<1>5. RestTyped
  <2>1. lock' \in [1 .. MaxStarts -> Procs \cup {Free}]
    BY ReleaseTyped DEF BotInv, Gone
  <2>2. stream' \in Seq(Event)
    BY DEF Gone
  <2> QED
    BY <1>4, <2>1, <2>2, TypesUnfolded DEF BotInv, Gone, RestTyped
<1>6. OrdersSound
  BY <1>4, TypesUnfolded DEF BotInv, Sized, OrdersSound, Working
<1>7. Types'
  <2>1. \A q \in Procs : proc'[q].order <= Len(orders')
    BY <1>2, <1>4, IdleIs, TypesUnfolded DEF BotInv
  <2> QED
    BY <1>3, <1>5, <1>6, <2>1, TypesFolded
<1>8. Sized'
  BY <1>2, <1>4, IdleIs DEF BotInv, Sized, Placings, Waiting, Working
<1>9. OnlyLoopPlaces'
  BY <1>2, <1>4, IdleIs, ProcsAre
     DEF BotInv, OnlyLoopPlaces, Forced, Orderly, Watching
<1>10. LoopHasGone'
  BY <1>3, IdleIs DEF LoopHasGone
<1> QED
  BY <1>7, <1>8, <1>9, <1>10 DEF BotInv

LEMMA OrdersAlike ==
    ASSUME BotInv, orders' = orders
    PROVE  OrdersSound
BY TypesUnfolded DEF BotInv, Sized, OrdersSound, Working

LEMMA RestAlike ==
    ASSUME BotInv, doc' \in Doc, lock' \in [1 .. MaxStarts -> Procs \cup {Free}],
           UNCHANGED <<instanceVars, position, stream, paged, setup>>
    PROVE  RestTyped
BY TypesUnfolded DEF BotInv, RestTyped, instanceVars

LEMMA TransitionTyped ==
    ASSUME BotInv, NEW p \in Procs, NEW op, NEW new \in Doc, NEW next,
           Transition(p, op, new, next)
    PROVE  /\ doc' \in Doc /\ lock' \in [1 .. MaxStarts -> Procs \cup {Free}]
           /\ GoTo(p, next) /\ proc[p].pc = op
<1>1. doc \in Doc
  BY TypesUnfolded DEF BotInv
<1>2. lock' \in [1 .. MaxStarts -> Procs \cup {Free}]
  BY ReleaseTyped DEF BotInv, Transition
<1> QED
  BY <1>1, <1>2 DEF Transition

LEMMA WriteTyped ==
    ASSUME BotInv, NEW p \in Procs, NEW op, NEW new \in Doc, NEW next,
           PlainWrite(p, op, new, next)
    PROVE  /\ doc' \in Doc /\ lock' \in [1 .. MaxStarts -> Procs \cup {Free}]
           /\ GoTo(p, next) /\ proc[p].pc = op
BY TypesUnfolded DEF BotInv, PlainWrite

(* A coroutine reads the document.                                         *)
LEMMA ReadKeeps ==
    ASSUME BotInv, NEW p \in Procs, Read(p)
    PROVE  BotInv'
<1> DEFINE next == [proc[p] EXCEPT !.read = TRUE, !.seen = doc]
<1>1. /\ GoTo(p, next) /\ proc[p].pc \in Locked \cup Unlocked
      /\ UNCHANGED <<doc, instanceVars, brokerVars, stream, paged, setup>>
  BY Zenon DEF Read
<1>2. orders' = orders /\ position' = position /\ alive' = alive /\ doc' = doc
  BY <1>1 DEF brokerVars, instanceVars
<1>3. proc[p] \in Coroutine /\ doc \in Doc /\ lock \in [1 .. MaxStarts -> Procs \cup {Free}]
  BY TypesUnfolded DEF BotInv
<1>4. /\ next \in Coroutine /\ next.pc = proc[p].pc /\ next.qty = proc[p].qty
      /\ next.order = proc[p].order
  BY <1>3 DEF Coroutine
<1>5. Sound(p, next)
  <2>1. proc[p].order <= Len(orders)
    BY TypesUnfolded DEF BotInv
  <2>2. proc[p].pc # "idle"
    BY <1>1, StepNames DEF Unlocked
  <2> HIDE DEF next
  <2> QED
    BY <1>2, <1>4, <2>1, <2>2 DEF BotInv, Sized, OnlyLoopPlaces, LoopHasGone, Sound
<1>6. lock' \in [1 .. MaxStarts -> Procs \cup {Free}]
  BY <1>3 DEF Read
<1> HIDE DEF next
<1>7. RestTyped
  BY <1>1, <1>2, <1>3, <1>6, RestAlike
<1> QED
  BY <1>1, <1>2, <1>5, <1>7, OrdersAlike, MoveKeeps

-----------------------------------------------------------------------------
(* The pipeline, of the event loop or of a request that forces the bot.    *)

PipelineSteps ==
    Placings \cup Waiting \cup {"patch_order_id", "rollback", "revert"}

LEMMA InPipeline ==
    ASSUME BotInv, NEW p \in Procs, proc[p].pc \in PipelineSteps, alive' = alive
    PROVE  p # "S" /\ (p \in Handlers => Forced) /\ (p = "L" => alive')
BY ProcsAre
   DEF BotInv, OnlyLoopPlaces, LoopHasGone, PipelineSteps, Placings, Waiting, Orderly, Watching

(* A step of the pipeline that places nothing.                             *)
LEMMA PipelineMoveKeeps ==
    ASSUME BotInv, NEW p \in Procs, proc[p].pc \in PipelineSteps, NEW next, Fit(next),
           GoTo(p, next), doc' \in Doc, lock' \in [1 .. MaxStarts -> Procs \cup {Free}],
           setup' \in Setup, setup'.commands = setup.commands,
           UNCHANGED <<instanceVars, brokerVars, stream, paged>>
    PROVE  BotInv'
<1>1. orders' = orders /\ position' = position /\ alive' = alive
  BY DEF brokerVars, instanceVars
<1>2. Sound(p, next)
  BY <1>1, InPipeline DEF Sound, Fit
<1>3. RestTyped
  BY <1>1, TypesUnfolded DEF BotInv, RestTyped, instanceVars
<1> QED
  BY <1>1, <1>2, <1>3, OrdersAlike, MoveKeeps

LEMMA IdleFits ==
    ASSUME BotInv
    PROVE  Fit(Idle)
<1>1. 0 <= Len(orders)
  BY TypesUnfolded DEF BotInv
<1> QED
  BY <1>1, IdleTyped, IdleIs DEF Fit, Placings, Waiting

LEMMA GiveUpTyped ==
    ASSUME BotInv, NEW p \in Procs
    PROVE  Fit(GiveUp(p))
<1>1. "revert" \in Steps
  BY StepNames
<1>2. CASE proc[p].prior \in Triggers
  BY <1>1, <1>2, ToTyped DEF BotInv, GiveUp, Fit, Placings, Waiting
<1>3. CASE proc[p].prior \notin Triggers
  BY <1>3, IdleFits DEF GiveUp
<1> QED
  BY <1>2, <1>3

(* An order is sent.                                                       *)
LEMMA PostKeeps ==
    ASSUME BotInv, NEW p \in Procs, Post(p)
    PROVE  BotInv'
<1> DEFINE pc == IF proc[p].pc = "post" THEN "wait" ELSE "retry_wait"
           next == [To(p, pc) EXCEPT !.order = Len(orders) + 1]
           o == [leg |-> proc[p].leg, size |-> proc[p].qty, filled |-> 0,
                 told |-> 0, status |-> "sent", ended |-> FALSE]
<1>1. /\ proc[p].pc \in {"post", "retry"} /\ orders' = Append(orders, o) /\ GoTo(p, next)
      /\ UNCHANGED <<doc, lock, instanceVars, position, stream, paged, setup>>
  BY Zenon DEF Post
<1>2. proc[p] \in Coroutine /\ orders \in Seq(Order) /\ Len(orders) \in Nat /\ Types
  BY TypesUnfolded DEF BotInv
<1>3. proc[p].leg \in Legs /\ proc[p].qty \in 0 .. Size
  BY <1>2, CoroutineFields
<1>4. proc[p].qty > 0 /\ proc[p].pc \in PipelineSteps
  BY <1>1 DEF BotInv, Sized, Placings, PipelineSteps
<1>5. o \in Order /\ o.filled = 0 /\ o.size = proc[p].qty
  BY <1>3, Members DEF Order
<1>6. pc \in {"wait", "retry_wait"} /\ pc \in Steps
  BY StepNames
<1>7. /\ next \in Coroutine /\ next.pc = pc /\ next.order = Len(orders) + 1
  BY <1>2, <1>6, ToTyped DEF Coroutine
<1> HIDE DEF o, pc, next
<1>8. /\ orders' \in Seq(Order) /\ Len(orders') = Len(orders) + 1
      /\ orders'[Len(orders) + 1] = o
      /\ \A i \in 1 .. Len(orders) : orders'[i] = orders[i]
  BY <1>1, <1>2, <1>5
<1>9. OrdersSound
  <2>1. ASSUME NEW i \in Working'
        PROVE  orders'[i].filled < orders'[i].size
    <3>1. i \in 1 .. Len(orders) + 1 /\ orders'[i].status \in {"sent", "open"}
      BY <1>8 DEF Working
    <3>2. CASE i = Len(orders) + 1
      BY <1>3, <1>4, <1>5, <1>8, <3>2
    <3>3. CASE i \in 1 .. Len(orders)
      BY <1>8, <3>1, <3>3 DEF BotInv, Sized, Working
    <3> QED
      BY <1>2, <3>1, <3>2, <3>3
  <2> QED
    BY <1>2, <1>8, <2>1 DEF OrdersSound
<1>10. Sound(p, next)
  <2>1. next.pc \notin Placings /\ next.order > 0 /\ next.order <= Len(orders')
    BY <1>2, <1>6, <1>7, <1>8 DEF Placings
  <2>2. alive' = alive
    BY <1>1 DEF instanceVars
  <2> QED
    BY <1>4, <1>7, <2>1, <2>2, InPipeline DEF Sound
<1>11. RestTyped
  <2>1. doc \in Doc /\ lock \in [1 .. MaxStarts -> Procs \cup {Free}]
    BY TypesUnfolded DEF BotInv
  <2>2. doc' = doc /\ lock' = lock
    BY <1>1
  <2> QED
    BY <1>1, <2>1, <2>2, RestAlike
<1> QED
  BY <1>1, <1>9, <1>10, <1>11, MoveKeeps DEF instanceVars

LEMMA NoAnswerTyped ==
    ASSUME Types, NEW p \in Procs, NoAnswer(p)
    PROVE  setup' \in Setup /\ setup'.commands = setup.commands
<1>1. setup \in Setup
  BY TypesUnfolded
<1>2. CASE UNCHANGED setup
  BY <1>1, <1>2
<1>3. CASE setup.lost > 0 /\ setup' = [setup EXCEPT !.lost = @ - 1]
  <2>1. setup.lost - 1 \in Nat
    BY <1>1, <1>3 DEF Setup
  <2> QED
    BY <1>1, <1>3, <2>1 DEF Setup
<1> QED
  BY <1>2, <1>3 DEF NoAnswer

LEMMA PipelineKeeps ==
    ASSUME BotInv, NEW p \in Procs, Pipeline(p)
    PROVE  BotInv'
<1>1. /\ proc[p] \in Coroutine /\ doc \in Doc /\ setup \in Setup
      /\ lock \in [1 .. MaxStarts -> Procs \cup {Free}]
      /\ orders \in Seq(Order) /\ Len(orders) \in Nat
  BY TypesUnfolded DEF BotInv
<1>2. /\ proc[p].seen \in Doc /\ proc[p].base \in Doc /\ proc[p].leg \in Legs
      /\ proc[p].qty \in 0 .. Size /\ proc[p].order \in Nat /\ proc[p].prior \in States
  BY <1>1, CoroutineFields
<1>3. Types /\ 0 <= Len(orders)
  BY <1>1 DEF BotInv
<1>4. /\ "persist" \in Steps /\ "post" \in Steps /\ "wait" \in Steps /\ "retry_wait" \in Steps
      /\ "patch_order_id" \in Steps /\ "rollback" \in Steps
      /\ PlaceOp(proc[p].leg) \in {"on_place_entry", "on_place_exit"} \cap Steps
  BY StepNames DEF Unlocked, PlaceOp
<1>5. ASSUME PreState(p) PROVE BotInv'
  <2> DEFINE next == [To(p, PlaceOp(proc[p].leg)) EXCEPT !.prior = doc.state]
  <2>1. /\ proc[p].pc = "pre" /\ GoTo(p, next)
        /\ UNCHANGED <<doc, lock, instanceVars, brokerVars, stream, paged, setup>>
    BY <1>5, Zenon DEF PreState
  <2>2. proc[p].qty > 0
    BY <2>1 DEF BotInv, Sized, Placings
  <2>3. doc.state \in States
    BY <1>1 DEF Doc
  <2>4. To(p, PlaceOp(proc[p].leg)) \in Coroutine
    BY <1>3, <1>4, ToTyped
  <2>5. /\ next \in Coroutine /\ next.qty = proc[p].qty /\ next.order <= Len(orders)
        /\ next.pc = PlaceOp(proc[p].leg)
    BY <1>3, <1>4, <2>3, <2>4, ToTyped DEF Coroutine
  <2> HIDE DEF next
  <2> QED
    BY <1>1, <1>4, <2>1, <2>2, <2>5, PipelineMoveKeeps DEF Fit, PipelineSteps, Placings, Waiting
<1>6. ASSUME Place(p) PROVE BotInv'
  <2> DEFINE new == OnPlaceOrder(proc[p].seen, proc[p].leg, proc[p].qty)
             next == IF Allowed(p) THEN [To(p, "persist") EXCEPT !.base = new] ELSE Idle
  <2>1. /\ Transition(p, PlaceOp(proc[p].leg), new, next)
        /\ UNCHANGED <<instanceVars, brokerVars, stream, paged, setup>>
    BY <1>6, Zenon DEF Place
  <2>2. new \in Doc
    BY <1>2, DocsTyped
  <2>3. [To(p, "persist") EXCEPT !.base = new] \in Coroutine
    BY <1>3, <1>4, <2>2, ToTyped DEF Coroutine
  <2>4. /\ [To(p, "persist") EXCEPT !.base = new].pc = "persist"
        /\ [To(p, "persist") EXCEPT !.base = new].qty = proc[p].qty
        /\ [To(p, "persist") EXCEPT !.base = new].order <= Len(orders)
    BY <1>3, <1>4, ToTyped DEF Coroutine
  <2>5. proc[p].pc = PlaceOp(proc[p].leg)
    BY <2>1, Zenon DEF Transition
  <2>6. proc[p].qty > 0 /\ proc[p].pc \in PipelineSteps
    BY <1>4, <2>5 DEF BotInv, Sized, Placings, PipelineSteps
  <2>7. Fit(next)
    BY <1>3, <2>3, <2>4, <2>6, IdleTyped, IdleIs DEF Fit, Placings, Waiting
  <2> HIDE DEF new, next
  <2> QED
    BY <1>1, <2>1, <2>2, <2>6, <2>7, TransitionTyped, PipelineMoveKeeps
<1>7. ASSUME Persist(p) PROVE BotInv'
  <2>1. PICK next \in {To(p, "post"), GiveUp(p)} :
          /\ PlainWrite(p, "persist", proc[p].seen, next)
          /\ UNCHANGED <<instanceVars, brokerVars, stream, paged, setup>>
    BY <1>7, Zenon DEF Persist
  <2>2. proc[p].pc = "persist"
    BY <2>1, Zenon DEF PlainWrite
  <2>3. proc[p].qty > 0 /\ proc[p].pc \in PipelineSteps
    BY <2>2 DEF BotInv, Sized, Placings, PipelineSteps
  <2>4. Fit(next)
    BY <1>3, <1>4, <2>3, ToTyped, GiveUpTyped DEF Fit, Placings, Waiting
  <2> QED
    BY <1>1, <1>2, <2>1, <2>3, <2>4, WriteTyped, PipelineMoveKeeps
<1>8. ASSUME Post(p) PROVE BotInv'
  BY <1>8, PostKeeps
<1>9. ASSUME Answered(p) PROVE BotInv'
  <2>1. /\ proc[p].pc = "wait" /\ GoTo(p, To(p, "patch_order_id"))
        /\ UNCHANGED <<doc, lock, instanceVars, brokerVars, stream, paged, setup>>
    BY <1>9, Zenon DEF Answered
  <2>2. Fit(To(p, "patch_order_id"))
    BY <1>3, <1>4, ToTyped DEF Fit, Placings, Waiting
  <2> QED
    BY <1>1, <2>1, <2>2, PipelineMoveKeeps DEF PipelineSteps, Waiting
<1>10. ASSUME PatchOrderId(p) PROVE BotInv'
  <2>1. /\ Transition(p, "patch_order_id", OnOrderId(proc[p].seen, proc[p].order), Idle)
        /\ UNCHANGED <<instanceVars, brokerVars, stream, paged, setup>>
    BY <1>10, Zenon DEF PatchOrderId
  <2>2. OnOrderId(proc[p].seen, proc[p].order) \in Doc
    BY <1>2, DocsTyped
  <2>3. proc[p].pc \in PipelineSteps
    BY <2>1, <2>2, TransitionTyped DEF PipelineSteps
  <2> QED
    BY <1>1, <2>1, <2>2, <2>3, TransitionTyped, IdleFits, PipelineMoveKeeps
<1>11. ASSUME Failed(p) PROVE BotInv'
  <2>1. /\ proc[p].pc = "wait" /\ NoAnswer(p) /\ GoTo(p, To(p, "rollback"))
        /\ UNCHANGED <<doc, lock, instanceVars, brokerVars, stream, paged>>
    BY <1>11, Zenon DEF Failed
  <2>2. Fit(To(p, "rollback"))
    BY <1>3, <1>4, ToTyped DEF Fit, Placings, Waiting
  <2>3. setup' \in Setup /\ setup'.commands = setup.commands
    BY <2>1, NoAnswerTyped DEF BotInv
  <2> QED
    BY <1>1, <2>1, <2>2, <2>3, PipelineMoveKeeps DEF PipelineSteps, Waiting
<1>12. ASSUME Rollback(p) PROVE BotInv'
  <2> DEFINE new == [proc[p].base EXCEPT !.state = proc[p].seen.state]
  <2>1. /\ PlainWrite(p, "rollback", new, GiveUp(p))
        /\ UNCHANGED <<instanceVars, brokerVars, stream, paged, setup>>
    BY <1>12, Zenon DEF Rollback
  <2>2. new \in Doc
    <3>1. proc[p].seen.state \in States
      BY <1>2 DEF Doc
    <3> QED
      BY <1>2, <3>1, DocsTyped
  <2> HIDE DEF new
  <2>3. proc[p].pc \in PipelineSteps
    BY <2>1, <2>2, WriteTyped DEF PipelineSteps
  <2> QED
    BY <1>1, <2>1, <2>2, <2>3, WriteTyped, GiveUpTyped, PipelineMoveKeeps
<1>13. ASSUME RevertToState(p) PROVE BotInv'
  <2>1. /\ Transition(p, "revert", RevertTo(proc[p].seen, proc[p].prior), Idle)
        /\ UNCHANGED <<instanceVars, brokerVars, stream, paged, setup>>
    BY <1>13, Zenon DEF RevertToState
  <2>2. RevertTo(proc[p].seen, proc[p].prior) \in Doc
    BY <1>2, DocsTyped
  <2>3. proc[p].pc \in PipelineSteps
    BY <2>1, <2>2, TransitionTyped DEF PipelineSteps
  <2> QED
    BY <1>1, <2>1, <2>2, <2>3, TransitionTyped, IdleFits, PipelineMoveKeeps
<1> QED
  BY <1>5, <1>6, <1>7, <1>8, <1>9, <1>10, <1>11, <1>12, <1>13, Zenon DEF Pipeline

-----------------------------------------------------------------------------
(* The event loop.                                                         *)

LEMMA LoopMoveKeeps ==
    ASSUME BotInv, alive \/ proc["L"].pc # "idle", NEW next, Fit(next),
           GoTo("L", next), doc' \in Doc, lock' \in [1 .. MaxStarts -> Procs \cup {Free}],
           stopping' \in BOOLEAN, stream' \in Seq(Event), paged' \in BOOLEAN,
           setup' \in Setup, setup'.commands = setup.commands,
           UNCHANGED <<bot, alive, brokerVars>>
    PROVE  BotInv'
<1>1. /\ orders' = orders /\ position' = position /\ alive' = alive /\ bot' = bot
      /\ alive
  BY DEF brokerVars, BotInv, LoopHasGone
<1>2. Sound("L", next)
  BY <1>1, ProcsAre DEF Sound, Fit
<1>3. RestTyped
  BY <1>1, TypesUnfolded DEF BotInv, RestTyped
<1> QED
  BY <1>1, <1>2, <1>3, ProcsAre, OrdersAlike, MoveKeeps

(* A step that places nothing.                                             *)
LEMMA StepFits ==
    ASSUME BotInv, NEW p \in Procs, NEW pc \in Steps \ (Placings \cup Waiting)
    PROVE  Fit(To(p, pc)) /\ Fit([Idle EXCEPT !.pc = pc])
<1>1. 0 <= Len(orders)
  BY TypesUnfolded DEF BotInv
<1>2. /\ [Idle EXCEPT !.pc = pc] \in Coroutine
      /\ [Idle EXCEPT !.pc = pc].pc = pc /\ [Idle EXCEPT !.pc = pc].order = 0
  BY IdleTyped, IdleIs DEF Coroutine
<1> QED
  BY <1>1, <1>2, ToTyped DEF BotInv, Fit

LEMMA LoopTransitionKeeps ==
    ASSUME BotInv, NEW op, op # "idle", NEW new \in Doc, NEW next, Fit(next),
           Transition("L", op, new, next),
           stopping' \in BOOLEAN, paged' \in BOOLEAN,
           UNCHANGED <<bot, alive, brokerVars, stream, setup>>
    PROVE  BotInv'
<1>1. stream' = stream /\ setup' = setup /\ stream \in Seq(Event) /\ setup \in Setup
  BY TypesUnfolded DEF BotInv
<1> QED
  BY <1>1, ProcsAre, TransitionTyped, LoopMoveKeeps

LEMMA LoopWriteKeeps ==
    ASSUME BotInv, NEW op, op # "idle", NEW new \in Doc, NEW next, Fit(next),
           PlainWrite("L", op, new, next),
           UNCHANGED <<instanceVars, brokerVars, stream, paged, setup>>
    PROVE  BotInv'
<1>1. /\ stream' = stream /\ setup' = setup /\ stream \in Seq(Event) /\ setup \in Setup
      /\ paged' = paged /\ paged \in BOOLEAN /\ stopping' = stopping /\ stopping \in BOOLEAN
      /\ UNCHANGED <<bot, alive, brokerVars>>
  BY TypesUnfolded DEF BotInv, instanceVars
<1> QED
  BY <1>1, ProcsAre, WriteTyped, LoopMoveKeeps

LEMMA LoopKeeps ==
    ASSUME BotInv, EventLoop
    PROVE  BotInv'
<1> DEFINE r == proc["L"]
<1>1. /\ r \in Coroutine /\ doc \in Doc /\ setup \in Setup /\ stream \in Seq(Event)
      /\ lock \in [1 .. MaxStarts -> Procs \cup {Free}]
      /\ stopping \in BOOLEAN /\ paged \in BOOLEAN /\ position \in Int
      /\ orders \in Seq(Order) /\ 0 <= Len(orders) /\ Types
  BY TypesUnfolded, ProcsAre DEF BotInv
<1>2. /\ r.seen \in Doc /\ r.leg \in Legs /\ r.qty \in 0 .. Size /\ r.ev \in Event
      /\ r.order \in Nat
  BY <1>1, CoroutineFields
<1>3. /\ r.ev.filled \in 0 .. Size /\ r.ev.terminal \in BOOLEAN
      /\ doc.qty \in 0 .. Size /\ setup.lots \in 1 .. Size /\ setup.stops \in BOOLEAN
  BY <1>1, <1>2 DEF Event, Doc, Setup
<1>4. /\ Steps \ (Placings \cup Waiting) =
           (Locked \cup Unlocked \cup {"idle", "reduce", "check"})
           \ {"on_place_entry", "on_place_exit", "persist"}
      /\ "retry" \in Steps
  BY StepNames DEF Steps, Placings, Waiting, Unlocked
<1>5. "L" \in Procs
  BY ProcsAre
<1>6. ASSUME Decide PROVE BotInv'
  <2>1. /\ alive /\ UNCHANGED <<doc, lock, instanceVars, brokerVars, stream, paged, setup>>
        /\ \/ GoTo("L", Placing("L", "entry", setup.lots))
           \/ doc.qty > 0 /\ GoTo("L", Placing("L", "exit", doc.qty))
    BY <1>6, Zenon DEF Decide, Looping
  <2>2. setup.lots \in 0 .. Size /\ setup.lots > 0
    BY <1>3, BotConstants
  <2>3. PICK leg \in Legs, n \in 0 .. Size : n > 0 /\ GoTo("L", Placing("L", leg, n))
    BY <1>3, <2>1, <2>2, Members
  <2> DEFINE next == Placing("L", leg, n)
  <2>4. Fit(next)
    BY <1>1, <1>5, <2>3, PlacingTyped DEF Fit, Placings, Waiting
  <2> HIDE DEF next
  <2>5. GoTo("L", next)
    BY <2>3 DEF next
  <2>6. /\ doc' = doc /\ lock' = lock /\ stopping' = stopping /\ stream' = stream
        /\ paged' = paged /\ setup' = setup /\ UNCHANGED <<bot, alive, brokerVars>>
    BY <2>1 DEF instanceVars
  <2> QED
    BY <1>1, <2>1, <2>4, <2>5, <2>6, LoopMoveKeeps
<1>7. ASSUME TakeUpdate PROVE BotInv'
  <2> DEFINE e == Head(stream)
             step == StepFor(e, doc.state)
             leg == IF LegOf(doc.state) = "exit" THEN "exit" ELSE "entry"
             next == IF step = "idle" THEN Idle
                     ELSE [Idle EXCEPT !.pc = step, !.ev = e, !.leg = leg]
  <2>1. /\ alive /\ stream # <<>> /\ stream' = Tail(stream) /\ GoTo("L", next)
        /\ UNCHANGED <<doc, lock, instanceVars, brokerVars, paged, setup>>
    BY <1>7, Zenon DEF TakeUpdate, Looping
  <2>2. e \in Event /\ Tail(stream) \in Seq(Event)
    BY <1>1, <2>1
  <2>3. step \in {"on_entry_filled", "on_exit_filled", "on_entry_cancelled",
                  "on_exit_cancelled", "touch", "idle"}
    <3>1. FillStep(e, doc.state) \in {"on_entry_filled", "on_exit_filled", "idle"}
      BY DEF FillStep
    <3>2. CancelStep(doc.state) \in {"on_entry_cancelled", "on_exit_cancelled", "touch"}
      BY DEF CancelStep
    <3> QED
      BY <3>1, <3>2 DEF StepFor
  <2>4. step \in Steps \ (Placings \cup Waiting)
    BY <1>4, <2>3, StepNames DEF Unlocked
  <2>5. leg \in Legs
    BY Members
  <2> HIDE DEF e, step, leg
  <2>6. Fit([Idle EXCEPT !.pc = step, !.ev = e, !.leg = leg])
    <3>1. /\ [Idle EXCEPT !.pc = step, !.ev = e, !.leg = leg] \in Coroutine
          /\ [Idle EXCEPT !.pc = step, !.ev = e, !.leg = leg].pc = step
          /\ [Idle EXCEPT !.pc = step, !.ev = e, !.leg = leg].order = 0
      BY <2>2, <2>4, <2>5, IdleTyped, IdleIs DEF Coroutine
    <3> QED
      BY <1>1, <2>4, <3>1 DEF Fit
  <2>7. Fit(next)
    BY <2>6, IdleFits
  <2> HIDE DEF next
  <2>8. /\ doc' = doc /\ lock' = lock /\ stopping' = stopping
        /\ paged' = paged /\ setup' = setup /\ UNCHANGED <<bot, alive, brokerVars>>
    BY <2>1 DEF instanceVars
  <2> QED
    BY <1>1, <2>1, <2>2, <2>7, <2>8, LoopMoveKeeps
<1>8. ASSUME EntryFilled PROVE BotInv'
  <2> DEFINE next == IF r.ev.terminal THEN To("L", "apply") ELSE Idle
             new == OnEntryFilled(r.seen, r.ev.filled, r.ev.terminal)
  <2>1. /\ Transition("L", "on_entry_filled", new, next)
        /\ UNCHANGED <<instanceVars, brokerVars, stream, paged, setup>>
    BY <1>8, Zenon DEF EntryFilled
  <2>2. new \in Doc
    BY <1>2, <1>3, FillsTyped
  <2>3. "apply" \in Steps \ (Placings \cup Waiting)
    BY <1>4 DEF Unlocked
  <2>4. Fit(next)
    BY <1>5, <2>3, StepFits, IdleFits
  <2> HIDE DEF next, new
  <2>5. /\ stopping' \in BOOLEAN /\ paged' \in BOOLEAN
        /\ UNCHANGED <<bot, alive, brokerVars, stream, setup>>
    BY <1>1, <2>1 DEF instanceVars
  <2> QED
    BY <2>1, <2>2, <2>4, <2>5, LoopTransitionKeeps
<1>9. ASSUME ExitFilled PROVE BotInv'
  <2> DEFINE left == Left(r.seen, r.ev.filled)
             retry == [To("L", "retry") EXCEPT !.qty = left]
             retries == Allowed("L") /\ Retries(r.seen, r.ev.filled, r.ev.terminal)
             next == IF ~r.ev.terminal THEN Idle
                     ELSE IF retries THEN retry ELSE To("L", "apply")
             new == OnExitFilled(r.seen, r.ev.filled, r.ev.terminal, setup.stops)
  <2>1. /\ Transition("L", "on_exit_filled", new, next)
        /\ stopping' = (stopping \/ (Allowed("L") /\ Flat(r.seen, r.ev.filled, r.ev.terminal)
                                      /\ setup.stops))
        /\ paged' = (paged \/ (Allowed("L") /\ GivesUp(r.seen, r.ev.filled, r.ev.terminal)))
        /\ UNCHANGED <<bot, alive, brokerVars, stream, setup>>
    BY <1>9, Zenon DEF ExitFilled
  <2>2. new \in Doc /\ left \in 0 .. Size
    BY <1>2, <1>3, FillsTyped
  <2>3. "apply" \in Steps \ (Placings \cup Waiting)
    BY <1>4 DEF Unlocked
  <2>4. retries => Fit(retry)
    <3>1. retries => left > 0
      BY DEF Retries
    <3>2. /\ retry \in Coroutine /\ retry.pc = "retry" /\ retry.qty = left
          /\ retry.order <= Len(orders)
      <4> DEFINE to == To("L", "retry")
      <4>1. to \in Coroutine /\ to.pc = "retry" /\ to.order <= Len(orders)
        BY <1>1, <1>4, <1>5, ToTyped
      <4> HIDE DEF to
      <4> SUFFICES LET c == [to EXCEPT !.qty = left]
                   IN  c \in Coroutine /\ c.pc = "retry" /\ c.qty = left /\ c.order <= Len(orders)
        BY DEF to
      <4> HIDE DEF left
      <4> QED
        BY <2>2, <4>1 DEF Coroutine
    <3> HIDE DEF retry, left, retries
    <3> QED
      BY <3>1, <3>2 DEF Fit, Waiting
  <2>5. Fit(next)
    <3> HIDE DEF retry, retries
    <3> QED
      BY <1>5, <2>3, <2>4, StepFits, IdleFits
  <2>6. stopping' \in BOOLEAN /\ paged' \in BOOLEAN
    BY <2>1
  <2> HIDE DEF next, new
  <2> QED
    BY <2>1, <2>2, <2>5, <2>6, LoopTransitionKeeps
<1>10. ASSUME RetryDone PROVE BotInv'
  <2>1. /\ r.pc = "retry_wait" /\ GoTo("L", To("L", "apply"))
        /\ \/ UNCHANGED <<paged, setup>>
           \/ NoAnswer("L") /\ paged' = TRUE
        /\ UNCHANGED <<doc, lock, instanceVars, brokerVars, stream>>
    BY <1>10, Zenon DEF RetryDone, RetryFailed
  <2>2. "apply" \in Steps \ (Placings \cup Waiting)
    BY <1>4 DEF Unlocked
  <2>3. Fit(To("L", "apply"))
    BY <1>5, <2>2, StepFits
  <2>4. setup' \in Setup /\ setup'.commands = setup.commands /\ paged' \in BOOLEAN
    BY <1>1, <1>5, <2>1, NoAnswerTyped
  <2>5. /\ doc' = doc /\ lock' = lock /\ stopping' = stopping /\ stream' = stream
        /\ UNCHANGED <<bot, alive, brokerVars>>
    BY <2>1 DEF instanceVars
  <2> QED
    BY <1>1, <2>1, <2>3, <2>4, <2>5, LoopMoveKeeps
<1>11. ASSUME ApplyFill PROVE BotInv'
  <2> DEFINE new == WithFill(r.seen, r.leg, r.ev)
  <2>1. /\ PlainWrite("L", "apply", new, Idle)
        /\ UNCHANGED <<instanceVars, brokerVars, stream, paged, setup>>
    BY <1>11, Zenon DEF ApplyFill
  <2>2. new \in Doc
    BY <1>2, <1>3 DEF WithFill, Doc
  <2> HIDE DEF new
  <2> QED
    BY <2>1, <2>2, IdleFits, LoopWriteKeeps
<1>12. ASSUME Cancelled PROVE BotInv'
  <2>1. "touch" \in Steps \ (Placings \cup Waiting)
    BY <1>4, StepNames DEF Unlocked
  <2>2. Fit(To("L", "touch"))
    BY <1>5, <2>1, StepFits
  <2>3. PICK op \in {"on_entry_cancelled", "on_exit_cancelled"},
             new \in {BackToEntry(r.seen), BackToExit(r.seen)} :
          /\ Transition("L", op, new, To("L", "touch"))
          /\ UNCHANGED <<instanceVars, brokerVars, stream, paged, setup>>
    BY <1>12, Zenon DEF Cancelled
  <2>4. new \in Doc
    BY <1>2, DocsTyped
  <2>5. /\ stopping' \in BOOLEAN /\ paged' \in BOOLEAN
        /\ UNCHANGED <<bot, alive, brokerVars, stream, setup>>
    BY <1>1, <2>3 DEF instanceVars
  <2> QED
    BY <2>2, <2>3, <2>4, <2>5, LoopTransitionKeeps
<1>13. ASSUME Touch("L") PROVE BotInv'
  <2>1. /\ PlainWrite("L", "touch", r.seen, Idle)
        /\ UNCHANGED <<instanceVars, brokerVars, stream, paged, setup>>
    BY <1>13, Zenon DEF Touch
  <2> QED
    BY <1>2, <2>1, IdleFits, LoopWriteKeeps
<1>14. ASSUME Pushed PROVE BotInv'
  <2> DEFINE next == [Idle EXCEPT !.pc = "pull"]
  <2>1. /\ alive /\ setup.pushes > 0 /\ setup' = [setup EXCEPT !.pushes = @ - 1]
        /\ GoTo("L", next)
        /\ UNCHANGED <<doc, lock, instanceVars, brokerVars, stream, paged>>
    BY <1>14, Zenon DEF Pushed, Looping
  <2>2. "pull" \in Steps \ (Placings \cup Waiting)
    BY <1>4, StepNames DEF Unlocked
  <2>3. Fit(next)
    BY <1>5, <2>2, StepFits
  <2>4. setup.pushes - 1 \in Nat
    BY <1>1, <2>1 DEF Setup
  <2>5. setup' \in Setup /\ setup'.commands = setup.commands
    BY <1>1, <2>1, <2>4 DEF Setup
  <2>6. /\ doc' = doc /\ lock' = lock /\ stopping' = stopping /\ stream' = stream
        /\ paged' = paged /\ UNCHANGED <<bot, alive, brokerVars>>
    BY <2>1 DEF instanceVars
  <2> HIDE DEF next
  <2> QED
    BY <1>1, <2>1, <2>3, <2>5, <2>6, LoopMoveKeeps
<1>15. ASSUME Pulled PROVE BotInv'
  <2> DEFINE seen == [r.seen EXCEPT !.qty = Abs(position)]
             reduce == [Idle EXCEPT !.pc = "reduce", !.seen = seen]
  <2>1. /\ r.pc = "pull"
        /\ \/ GoTo("L", Idle) /\ UNCHANGED paged
           \/ Abs(position) < r.seen.qty /\ UNCHANGED paged /\ GoTo("L", reduce)
           \/ paged' = TRUE /\ GoTo("L", To("L", "on_mismatch"))
        /\ UNCHANGED <<doc, lock, instanceVars, brokerVars, stream, setup>>
    BY <1>15, Zenon DEF Pulled
  <2>2. /\ {"reduce", "on_mismatch"} \subseteq Steps \ (Placings \cup Waiting)
    BY <1>4, StepNames
  <2>3. Abs(position) < r.seen.qty => Fit(reduce)
    <3> SUFFICES ASSUME Abs(position) < r.seen.qty PROVE Fit(reduce)
      OBVIOUS
    <3>1. r.seen.qty \in 0 .. Size
      BY <1>2 DEF Doc
    <3>2. Abs(position) \in 0 .. Size
      BY <1>1, <3>1, BotConstants DEF Abs
    <3>3. seen \in Doc
      BY <1>2, <3>2 DEF Doc
    <3> HIDE DEF seen
    <3>4. reduce \in Coroutine /\ reduce.pc = "reduce" /\ reduce.order = 0
      BY <2>2, <3>3, IdleTyped, IdleIs DEF Coroutine
    <3> QED
      BY <1>1, <2>2, <3>4 DEF Fit
  <2>4. Fit(To("L", "on_mismatch"))
    BY <1>5, <2>2, StepFits
  <2> HIDE DEF reduce
  <2>5. PICK next : Fit(next) /\ GoTo("L", next) /\ paged' \in BOOLEAN
    BY <1>1, <2>1, <2>3, <2>4, IdleFits
  <2>6. /\ doc' = doc /\ lock' = lock /\ stopping' = stopping /\ stream' = stream
        /\ setup' = setup /\ UNCHANGED <<bot, alive, brokerVars>>
    BY <2>1 DEF instanceVars
  <2> QED
    BY <1>1, <2>1, <2>5, <2>6, LoopMoveKeeps
<1>16. ASSUME Reduce PROVE BotInv'
  <2>1. /\ r.pc = "reduce" /\ doc' = r.seen /\ GoTo("L", Reduced(doc'))
        /\ UNCHANGED <<lock, instanceVars, brokerVars, stream, paged, setup>>
    BY <1>16, Zenon DEF Reduce
  <2>2. "on_manual_close" \in Steps \ (Placings \cup Waiting)
    BY <1>4, StepNames
  <2>3. Fit(Reduced(doc'))
    BY <1>5, <2>2, StepFits, IdleFits DEF Reduced
  <2>4. /\ doc' \in Doc /\ lock' = lock /\ stopping' = stopping /\ stream' = stream
        /\ paged' = paged /\ setup' = setup /\ UNCHANGED <<bot, alive, brokerVars>>
    BY <1>2, <2>1 DEF instanceVars
  <2> QED
    BY <1>1, <2>1, <2>3, <2>4, LoopMoveKeeps
<1>17. ASSUME Reconciled PROVE BotInv'
  <2>1. PICK op \in {"on_manual_close", "on_mismatch"},
             new \in {BackToEntry(r.seen), ToErrored(r.seen)} :
          /\ Transition("L", op, new, Idle)
          /\ UNCHANGED <<instanceVars, brokerVars, stream, paged, setup>>
    BY <1>17, Zenon DEF Reconciled
  <2>2. new \in Doc
    BY <1>2, DocsTyped
  <2>3. /\ stopping' \in BOOLEAN /\ paged' \in BOOLEAN
        /\ UNCHANGED <<bot, alive, brokerVars, stream, setup>>
    BY <1>1, <2>1 DEF instanceVars
  <2> QED
    BY <2>1, <2>2, <2>3, IdleFits, LoopTransitionKeeps
<1>18. ASSUME LoopExits PROVE BotInv'
  <2>1. Gone("L") /\ UNCHANGED <<doc, brokerVars, paged, setup>>
    BY <1>18, Zenon DEF LoopExits
  <2>2. doc' \in Doc /\ UNCHANGED <<orders, position, paged, setup>>
    BY <1>1, <2>1 DEF brokerVars
  <2> QED
    BY <1>5, <2>1, <2>2, GoneKeeps
<1> QED
  BY <1>5, <1>6, <1>7, <1>8, <1>9, <1>10, <1>11, <1>12, <1>13, <1>14, <1>15, <1>16, <1>17,
     <1>18, PipelineKeeps, ReadKeeps, Zenon DEF EventLoop

-----------------------------------------------------------------------------
(* The supervisory task, the requests, the engine and the user.            *)

LEMMA SupervisorMoveKeeps ==
    ASSUME BotInv, NEW next, Fit(next), next.pc \in Watching, GoTo("S", next),
           doc' \in Doc, lock' \in [1 .. MaxStarts -> Procs \cup {Free}],
           paged' \in BOOLEAN, UNCHANGED <<instanceVars, brokerVars, stream, setup>>
    PROVE  BotInv'
<1>1. /\ orders' = orders /\ position' = position /\ alive' = alive /\ bot' = bot
      /\ stopping' = stopping /\ stream' = stream /\ setup' = setup
  BY DEF brokerVars, instanceVars
<1>2. Sound("S", next)
  BY <1>1, ProcsAre DEF Sound, Fit
<1>3. RestTyped
  BY <1>1, TypesUnfolded DEF BotInv, RestTyped
<1> QED
  BY <1>1, <1>2, <1>3, ProcsAre, OrdersAlike, MoveKeeps

LEMMA SupervisorKeeps ==
    ASSUME BotInv, Supervisor
    PROVE  BotInv'
<1> DEFINE r == proc["S"]
<1>1. /\ r \in Coroutine /\ doc \in Doc /\ paged \in BOOLEAN
      /\ lock \in [1 .. MaxStarts -> Procs \cup {Free}] /\ 0 <= Len(orders) /\ Types
  BY TypesUnfolded, ProcsAre DEF BotInv
<1>2. r.seen \in Doc /\ "S" \in Procs
  BY <1>1, CoroutineFields, ProcsAre
<1>3. /\ {"check", "on_entry_timeout", "touch", "on_crash"} \subseteq Steps \ (Placings \cup Waiting)
      /\ {"check", "on_entry_timeout", "touch", "on_crash", "idle"} \subseteq Watching
  BY StepNames DEF Unlocked, Placings, Waiting, Watching
<1>4. Fit(Idle) /\ Idle.pc \in Watching
  BY IdleFits, IdleIs DEF Watching
<1>5. ASSUME TimesOut PROVE BotInv'
  <2> DEFINE next == [Idle EXCEPT !.pc = "check", !.seen = doc]
  <2>1. /\ GoTo("S", next)
        /\ UNCHANGED <<doc, lock, instanceVars, brokerVars, stream, paged, setup>>
    BY <1>5, Zenon DEF TimesOut
  <2>2. next \in Coroutine /\ next.pc = "check" /\ next.order = 0
    BY <1>1, <1>3, IdleTyped, IdleIs DEF Coroutine
  <2>3. Fit(next) /\ next.pc \in Watching
    BY <1>1, <1>3, <2>2 DEF Fit
  <2>4. doc' = doc /\ lock' = lock /\ paged' = paged
    BY <2>1
  <2> HIDE DEF next
  <2> QED
    BY <1>1, <2>1, <2>3, <2>4, SupervisorMoveKeeps
<1>6. ASSUME CheckFill PROVE BotInv'
  <2>1. Fit(To("S", "on_entry_timeout")) /\ To("S", "on_entry_timeout").pc \in Watching
    BY <1>1, <1>2, <1>3, StepFits, ToTyped
  <2>2. PICK next \in {Idle, To("S", "on_entry_timeout")} :
          /\ GoTo("S", next)
          /\ UNCHANGED <<doc, lock, instanceVars, brokerVars, stream, paged, setup>>
    BY <1>6, Zenon DEF CheckFill
  <2>3. doc' = doc /\ lock' = lock /\ paged' = paged
    BY <2>2
  <2> QED
    BY <1>1, <1>4, <2>1, <2>2, <2>3, SupervisorMoveKeeps
<1>7. ASSUME EntryTimeout PROVE BotInv'
  <2>1. Fit(To("S", "touch")) /\ To("S", "touch").pc \in Watching
    BY <1>1, <1>2, <1>3, StepFits, ToTyped
  <2>2. /\ Transition("S", "on_entry_timeout", BackToEntry(r.seen), To("S", "touch"))
        /\ UNCHANGED <<instanceVars, brokerVars, stream, paged, setup>>
    BY <1>7, Zenon DEF EntryTimeout
  <2>3. BackToEntry(r.seen) \in Doc
    BY <1>2, DocsTyped
  <2> QED
    BY <1>1, <1>2, <2>1, <2>2, <2>3, TransitionTyped, SupervisorMoveKeeps
<1>8. ASSUME Touch("S") PROVE BotInv'
  <2>1. /\ PlainWrite("S", "touch", r.seen, Idle)
        /\ UNCHANGED <<instanceVars, brokerVars, stream, paged, setup>>
    BY <1>8, Zenon DEF Touch
  <2> QED
    BY <1>1, <1>2, <1>4, <2>1, WriteTyped, SupervisorMoveKeeps
<1>9. ASSUME GoesStale PROVE BotInv'
  <2> DEFINE next == [Idle EXCEPT !.pc = "on_crash"]
  <2>1. /\ GoTo("S", next)
        /\ UNCHANGED <<doc, lock, instanceVars, brokerVars, stream, paged, setup>>
    BY <1>9, Zenon DEF GoesStale
  <2>2. Fit(next) /\ next.pc \in Watching
    BY <1>2, <1>3, StepFits DEF Idle
  <2>3. doc' = doc /\ lock' = lock /\ paged' = paged
    BY <2>1
  <2> HIDE DEF next
  <2> QED
    BY <1>1, <2>1, <2>2, <2>3, SupervisorMoveKeeps
<1>10. ASSUME Crash PROVE BotInv'
  <2>1. /\ Transition("S", "on_crash", ToErrored(r.seen), Idle)
        /\ paged' = (paged \/ Allowed("S"))
        /\ UNCHANGED <<instanceVars, brokerVars, stream, setup>>
    BY <1>10, Zenon DEF Crash
  <2>2. ToErrored(r.seen) \in Doc /\ paged' \in BOOLEAN
    BY <1>2, <2>1, DocsTyped
  <2> QED
    BY <1>2, <1>4, <2>1, <2>2, TransitionTyped, SupervisorMoveKeeps
<1> QED
  BY <1>2, <1>5, <1>6, <1>7, <1>8, <1>9, <1>10, ReadKeeps, Zenon DEF Supervisor

LEMMA HandlerMoveKeeps ==
    ASSUME BotInv, NEW h \in Handlers, NEW next, Fit(next), Forced \/ next.pc \in Orderly,
           GoTo(h, next), doc' \in Doc, lock' \in [1 .. MaxStarts -> Procs \cup {Free}],
           UNCHANGED <<instanceVars, brokerVars, stream, paged, setup>>
    PROVE  BotInv'
<1>1. orders' = orders /\ position' = position /\ UNCHANGED <<instanceVars, stream, paged, setup>>
  BY DEF brokerVars
<1>2. alive' = alive
  BY DEF instanceVars
<1>3. Sound(h, next)
  BY <1>1, ProcsAre DEF Sound, Fit
<1>4. RestTyped
  BY <1>1, RestAlike
<1> QED
  BY <1>1, <1>2, <1>3, <1>4, ProcsAre, OrdersAlike, MoveKeeps

(* A request comes in: every kind but a start and a stop forces the bot.   *)
LEMMA RequestKeeps ==
    ASSUME BotInv, NEW h \in Handlers, NEW command, NEW next, Fit(next),
           Request(h, command, next),
           \/ command \in {"force_buy", "force_sell", "force_quit", "reset"}
           \/ next.pc \in Orderly,
           UNCHANGED <<doc, lock, instanceVars, brokerVars, stream, paged, setup>>
    PROVE  BotInv'
<1>1. GoTo(h, next) /\ command \in setup.commands
  BY DEF Request
<1>2. Forced \/ next.pc \in Orderly
  BY <1>1 DEF Forced
<1>3. doc' \in Doc /\ lock' \in [1 .. MaxStarts -> Procs \cup {Free}]
  BY TypesUnfolded DEF BotInv
<1> QED
  BY <1>1, <1>2, <1>3, HandlerMoveKeeps

LEMMA StartKeeps ==
    ASSUME BotInv, NEW h \in Handlers, Start(h)
    PROVE  BotInv'
<1> DEFINE next == [Idle EXCEPT !.pc = "on_start", !.bot = bot + 1, !.read = TRUE, !.seen = doc]
<1>1. /\ bot < MaxStarts /\ GoTo(h, next)
      /\ bot' = bot + 1 /\ alive' = TRUE /\ stopping' = stopping
      /\ lock' = [lock EXCEPT ![bot'] = h]
      /\ UNCHANGED <<doc, brokerVars, stream, paged, setup>>
  BY Zenon DEF Start, Request
<1>2. orders' = orders /\ position' = position
  BY <1>1 DEF brokerVars
<1>3. /\ doc \in Doc /\ bot \in 0 .. MaxStarts /\ 0 <= Len(orders)
      /\ lock \in [1 .. MaxStarts -> Procs \cup {Free}]
  BY TypesUnfolded DEF BotInv
<1>4. bot' \in 0 .. MaxStarts /\ bot + 1 \in 0 .. MaxStarts
  BY <1>1, <1>3, BotConstants
<1>5. "on_start" \in Steps \ (Placings \cup Waiting)
  BY StepNames DEF Placings, Waiting
<1>6. next \in Coroutine /\ next.pc = "on_start" /\ next.order = 0
  BY <1>3, <1>4, <1>5, IdleTyped, IdleIs DEF Coroutine
<1> HIDE DEF next
<1>7. Sound(h, next)
  BY <1>2, <1>3, <1>5, <1>6, ProcsAre DEF Sound, Orderly
<1>8. lock' \in [1 .. MaxStarts -> Procs \cup {Free}]
  BY <1>1, <1>3, ProcsAre
<1>9. RestTyped
  <2>1. stopping' \in BOOLEAN
    BY <1>1, TypesUnfolded, Zenon DEF BotInv
  <2>2. alive' \in BOOLEAN
    BY <1>1
  <2>3. doc' \in Doc /\ stream' \in Seq(Event) /\ setup' \in Setup /\ setup'.commands = setup.commands
    BY <1>1, TypesUnfolded DEF BotInv
  <2>4. position' \in Int
    BY <1>2, TypesUnfolded DEF BotInv
  <2>5. paged' \in BOOLEAN
    BY <1>1, TypesUnfolded, Zenon DEF BotInv
  <2> QED
    BY <1>4, <1>8, <2>1, <2>2, <2>3, <2>4, <2>5 DEF RestTyped
<1> QED
  BY <1>1, <1>2, <1>7, <1>9, ProcsAre, OrdersAlike, MoveKeeps

LEMMA SellingFits ==
    ASSUME BotInv, NEW h \in Handlers, NEW n \in 0 .. Size
    PROVE  Fit(Selling(h, n))
<1>1. 0 <= Len(orders) /\ Types /\ h \in Procs /\ "exit" \in Legs
  BY TypesUnfolded, ProcsAre, Members DEF BotInv
<1>2. CASE n > 0
  BY <1>1, <1>2, PlacingTyped DEF Selling, Fit, Placings, Waiting
<1>3. CASE ~(n > 0)
  BY <1>3, IdleFits DEF Selling
<1> QED
  BY <1>2, <1>3

LEMMA HandlerKeeps ==
    ASSUME BotInv, NEW h \in Handlers, Handler(h)
    PROVE  BotInv'
<1> DEFINE r == proc[h]
<1>1. /\ r \in Coroutine /\ doc \in Doc /\ setup \in Setup /\ bot \in 0 .. MaxStarts
      /\ lock \in [1 .. MaxStarts -> Procs \cup {Free}] /\ 0 <= Len(orders) /\ Types
      /\ h \in Procs
  BY TypesUnfolded, ProcsAre DEF BotInv
<1>2. r.seen \in Doc /\ r.prior \in States
  BY <1>1, CoroutineFields
<1>3. Fit(Idle) /\ Idle.pc \in Orderly
  BY IdleFits, IdleIs DEF Orderly
<1>4. ASSUME NEW pc \in {"on_stop", "on_force_stop", "reset", "arm"}
      PROVE  Fit(Simple(pc)) /\ Simple(pc) \in Coroutine /\ Simple(pc).pc = pc
  <2>1. pc \in Steps \ (Placings \cup Waiting)
    BY StepNames DEF Unlocked, Placings, Waiting
  <2>2. Simple(pc) \in Coroutine /\ Simple(pc).pc = pc /\ Simple(pc).order = 0
    BY <1>1, <2>1, IdleTyped, IdleIs DEF Simple, Coroutine
  <2> QED
    BY <1>1, <2>1, <2>2 DEF Fit
<1>5. ASSUME Started(h) PROVE BotInv'
  <2>1. /\ Transition(h, "on_start", OnStart(r.seen), Idle)
        /\ UNCHANGED <<instanceVars, brokerVars, stream, paged, setup>>
    BY <1>5, Zenon DEF Started
  <2>2. OnStart(r.seen) \in Doc
    BY <1>2, DocsTyped
  <2> QED
    BY <1>1, <1>3, <2>1, <2>2, TransitionTyped, HandlerMoveKeeps
<1>6. ASSUME AskStop(h) PROVE BotInv'
  <2>1. PICK command \in {"stop", "force_stop"}, pc \in {"on_stop", "on_force_stop"} :
          /\ Request(h, command, Simple(pc))
          /\ UNCHANGED <<doc, lock, instanceVars, brokerVars, stream, paged, setup>>
    BY <1>6, Zenon DEF AskStop
  <2>2. Fit(Simple(pc)) /\ Simple(pc).pc \in Orderly
    BY <1>4 DEF Orderly
  <2> QED
    BY <2>1, <2>2, RequestKeeps
<1>7. ASSUME Stopped(h) PROVE BotInv'
  <2>1. /\ doc' \in {OnStop(r.seen), doc} /\ Gone(h)
        /\ UNCHANGED <<brokerVars, paged, setup>>
    BY <1>7 DEF Stopped
  <2>2. doc' \in Doc
    BY <1>1, <1>2, <2>1, DocsTyped
  <2> QED
    BY <1>1, <2>1, <2>2, GoneKeeps DEF brokerVars
<1>8. ASSUME ForceStopped(h) PROVE BotInv'
  <2>1. doc' = ToErrored(r.seen) /\ Gone(h) /\ UNCHANGED <<brokerVars, paged, setup>>
    BY <1>8, Zenon DEF ForceStopped
  <2>2. doc' \in Doc
    BY <1>2, <2>1, DocsTyped
  <2> QED
    BY <1>1, <2>1, <2>2, GoneKeeps DEF brokerVars
<1>9. ASSUME Reset(h) PROVE BotInv'
  <2>1. CASE Request(h, "reset", Simple("reset")) /\ UNCHANGED <<doc, lock>>
    <3>1. UNCHANGED <<doc, lock, instanceVars, brokerVars, stream, paged, setup>>
      BY <1>9, <2>1 DEF Reset
    <3> QED
      BY <1>4, <2>1, <3>1, RequestKeeps
  <2>2. CASE PlainWrite(h, "reset", ForcedOff(r.seen), Idle)
    <3>1. UNCHANGED <<instanceVars, brokerVars, stream, paged, setup>>
      BY <1>9, Zenon DEF Reset
    <3>2. ForcedOff(r.seen) \in Doc
      BY <1>2, DocsTyped
    <3> QED
      BY <1>1, <1>3, <2>2, <3>1, <3>2, WriteTyped, HandlerMoveKeeps
  <2> QED
    BY <1>9, <2>1, <2>2, Zenon DEF Reset
<1>10. ASSUME ForceTrade(h) PROVE BotInv'
  <2>1. ASSUME NEW leg \in Legs, NEW n \in 0 .. Size, n > 0
        PROVE  Fit([Placing(h, leg, n) EXCEPT !.bot = bot])
    <3> DEFINE was == Placing(h, leg, n)
    <3>1. was \in Coroutine /\ was.pc = "pre" /\ was.qty = n /\ was.order = 0
      BY <1>1, PlacingTyped
    <3> HIDE DEF was
    <3>2. /\ [was EXCEPT !.bot = bot] \in Coroutine /\ [was EXCEPT !.bot = bot].pc = "pre"
          /\ [was EXCEPT !.bot = bot].qty = n /\ [was EXCEPT !.bot = bot].order = 0
      BY <1>1, <3>1 DEF Coroutine
    <3>3. Fit([was EXCEPT !.bot = bot])
      BY <1>1, <2>1, <3>2 DEF Fit, Waiting
    <3> QED
      BY <3>3 DEF was
  <2>2. /\ setup.lots \in 0 .. Size /\ setup.lots > 0 /\ doc.qty \in 0 .. Size
    BY <1>1, BotConstants DEF Setup, Doc
  <2>3. UNCHANGED <<doc, lock, instanceVars, brokerVars, stream, paged, setup>>
    BY <1>10, Zenon DEF ForceTrade
  <2>5. \/ Request(h, "force_buy", [Placing(h, "entry", setup.lots) EXCEPT !.bot = bot])
        \/ doc.qty > 0 /\ Request(h, "force_sell", [Placing(h, "exit", doc.qty) EXCEPT !.bot = bot])
    BY <1>10 DEF ForceTrade
  <2>4. PICK command \in {"force_buy", "force_sell"}, leg \in Legs, n \in 0 .. Size :
          n > 0 /\ Request(h, command, [Placing(h, leg, n) EXCEPT !.bot = bot])
    BY <2>2, <2>5, Members
  <2> QED
    BY <2>1, <2>3, <2>4, RequestKeeps
<1>11. ASSUME Quit(h) PROVE BotInv'
  <2> DEFINE next == [Simple("arm") EXCEPT !.prior = doc.state]
  <2>1. /\ Request(h, "force_quit", next)
        /\ UNCHANGED <<doc, lock, instanceVars, brokerVars, stream, paged, setup>>
    BY <1>11, Zenon DEF Quit
  <2>2. doc.state \in States
    BY <1>1 DEF Doc
  <2>3. Fit(next)
    <3>1. Simple("arm") \in Coroutine /\ Fit(Simple("arm"))
      BY <1>4
    <3>2. /\ next \in Coroutine /\ next.pc = Simple("arm").pc
          /\ next.qty = Simple("arm").qty /\ next.order = Simple("arm").order
      BY <2>2, <3>1 DEF Coroutine
    <3> QED
      BY <3>1, <3>2 DEF Fit
  <2> HIDE DEF next
  <2> QED
    BY <2>1, <2>3, RequestKeeps
<1>12. ASSUME Armed(h) PROVE BotInv'
  <2> DEFINE next == CASE r.prior = "AWAITING_EXIT_TRIGGER" -> Selling(h, r.seen.qty)
                       [] r.prior = "EXIT_ORDER_PLACED" -> To(h, "replace")
                       [] OTHER -> Idle
  <2>1. /\ PlainWrite(h, "arm", r.seen, next)
        /\ UNCHANGED <<instanceVars, brokerVars, stream, paged, setup>>
    BY <1>12, Zenon DEF Armed
  <2>2. r.seen.qty \in 0 .. Size
    BY <1>2 DEF Doc
  <2>3. "replace" \in Steps \ (Placings \cup Waiting)
    BY StepNames DEF Placings, Waiting
  <2>4. next \in {Selling(h, r.seen.qty), To(h, "replace"), Idle}
    OBVIOUS
  <2> HIDE DEF next
  <2>5. Fit(next)
    BY <1>1, <1>3, <2>2, <2>3, <2>4, SellingFits, StepFits
  <2>6. proc[h].pc = "arm"
    BY <1>1, <1>2, <2>1, WriteTyped
  <2>7. Forced
    BY <2>6 DEF BotInv, OnlyLoopPlaces, Orderly
  <2> QED
    BY <1>1, <1>2, <2>1, <2>5, <2>7, WriteTyped, HandlerMoveKeeps
<1>13. ASSUME Replace(h) PROVE BotInv'
  <2>1. /\ Transition(h, "replace", BackToExit(r.seen), Selling(h, doc'.qty))
        /\ UNCHANGED <<instanceVars, brokerVars, stream, paged, setup>>
    BY <1>13, Zenon DEF Replace
  <2>2. BackToExit(r.seen) \in Doc
    BY <1>2, DocsTyped
  <2>3. doc' \in Doc /\ proc[h].pc = "replace"
    BY <1>1, <2>1, <2>2, TransitionTyped
  <2>4. Fit(Selling(h, doc'.qty))
    <3>1. doc'.qty \in 0 .. Size
      BY <2>3 DEF Doc
    <3> QED
      BY <3>1, SellingFits
  <2>5. Forced
    BY <2>3 DEF BotInv, OnlyLoopPlaces, Orderly
  <2> QED
    BY <1>1, <2>1, <2>2, <2>4, <2>5, TransitionTyped, HandlerMoveKeeps
<1>14. (Start(h) \/ Pipeline(h) \/ Read(h)) => BotInv'
  BY <1>1, StartKeeps, PipelineKeeps, ReadKeeps
<1> QED
  BY <1>5, <1>6, <1>7, <1>8, <1>9, <1>10, <1>11, <1>12, <1>13, <1>14, Zenon DEF Handler

(* Something happens to one order.                                         *)
LEMMA OneOrderChanges ==
    ASSUME Types, Sized, NEW i \in 1 .. Len(orders), OrderStep(i)
    PROVE  /\ orders' \in Seq(Order) /\ Len(orders') = Len(orders)
           /\ \A j \in Working' : orders'[j].filled < orders'[j].size
           /\ Working' \subseteq Working
           /\ position' \in Int /\ stream' \in Seq(Event)
<1> DEFINE was == orders[i]
<1>1. /\ orders \in Seq(Order) /\ was \in Order /\ i \in Nat
      /\ position \in Int /\ stream \in Seq(Event)
  BY TypesUnfolded
<1>2. /\ was.filled \in 0 .. Size /\ was.told \in 0 .. Size /\ was.size \in 0 .. Size
      /\ was.ended \in BOOLEAN /\ was.status \in {"sent", "open", "closed", "refused"}
      /\ was.leg \in Legs
  BY <1>1 DEF Order
<1>3. was.status \in {"sent", "open"} => was.filled < was.size
  BY DEF Sized, Working
<1>4. PICK o \in Order :
        /\ orders' = [orders EXCEPT ![i] = o]
        /\ o.status \in {"sent", "open"} =>
              was.status \in {"sent", "open"} /\ o.filled < o.size
        /\ position' \in Int /\ stream' \in Seq(Event)
  <2>1. ASSUME Accept(i)
        PROVE  \E o \in Order :
                 /\ orders' = [orders EXCEPT ![i] = o]
                 /\ o.status \in {"sent", "open"} =>
                       was.status \in {"sent", "open"} /\ o.filled < o.size
                 /\ position' \in Int /\ stream' \in Seq(Event)
    <3>1. PICK s \in {"open", "refused"} : orders' = [orders EXCEPT ![i].status = s]
      BY <2>1 DEF Accept
    <3> DEFINE o == [was EXCEPT !.status = s]
    <3>2. o \in Order /\ o.filled = was.filled /\ o.size = was.size
      BY <1>1, <3>1 DEF Order
    <3>3. orders' = [orders EXCEPT ![i] = o]
      BY <1>1, <3>1
    <3>4. was.status = "sent" /\ UNCHANGED <<position, stream>>
      BY <2>1 DEF Accept
    <3> QED
      BY <1>1, <1>3, <3>2, <3>3, <3>4
  <2>2. ASSUME Fill(i)
        PROVE  \E o \in Order :
                 /\ orders' = [orders EXCEPT ![i] = o]
                 /\ o.status \in {"sent", "open"} =>
                       was.status \in {"sent", "open"} /\ o.filled < o.size
                 /\ position' \in Int /\ stream' \in Seq(Event)
    <3> DEFINE s == IF was.filled + 1 = was.size THEN "closed" ELSE was.status
               o == [was EXCEPT !.filled = was.filled + 1, !.status = s]
    <3>1. /\ was.status = "open" /\ stream' = stream
          /\ position' = position + Lots(was.leg)
          /\ orders' = [orders EXCEPT ![i].filled = @ + 1,
                                      ![i].status = IF orders[i].filled + 1 = orders[i].size
                                                    THEN "closed" ELSE @]
      BY <2>2, Zenon DEF Fill
    <3>2. s \in {"sent", "open", "closed", "refused"} /\ was.filled + 1 \in 0 .. Size
      BY <1>2, <1>3, <3>1, BotConstants
    <3>3. o \in Order /\ o.filled = was.filled + 1 /\ o.size = was.size /\ o.status = s
      BY <1>1, <3>2 DEF Order
    <3>4. orders' = [orders EXCEPT ![i] = o]
      BY <1>1, <3>1
    <3>5. o.status \in {"sent", "open"} => o.filled < o.size
      BY <1>2, <1>3, <3>1, <3>3
    <3>6. position' \in Int
      BY <1>1, <3>1 DEF Lots
    <3> QED
      BY <1>1, <3>1, <3>3, <3>4, <3>5, <3>6
  <2>3. ASSUME Cancel(i)
        PROVE  \E o \in Order :
                 /\ orders' = [orders EXCEPT ![i] = o]
                 /\ o.status \in {"sent", "open"} =>
                       was.status \in {"sent", "open"} /\ o.filled < o.size
                 /\ position' \in Int /\ stream' \in Seq(Event)
    <3> DEFINE o == [was EXCEPT !.status = "closed"]
    <3>1. o \in Order /\ o.status = "closed"
      BY <1>1 DEF Order
    <3>2. orders' = [orders EXCEPT ![i] = o] /\ UNCHANGED <<position, stream>>
      BY <1>1, <2>3 DEF Cancel
    <3> QED
      BY <1>1, <3>1, <3>2
  <2>4. ASSUME Publish(i)
        PROVE  \E o \in Order :
                 /\ orders' = [orders EXCEPT ![i] = o]
                 /\ o.status \in {"sent", "open"} =>
                       was.status \in {"sent", "open"} /\ o.filled < o.size
                 /\ position' \in Int /\ stream' \in Seq(Event)
    <3> DEFINE over == was.status = "closed"
               o == [was EXCEPT !.told = was.filled, !.ended = over]
               e == [order |-> i, filled |-> was.filled, terminal |-> over]
    <3>1. /\ orders' = [orders EXCEPT ![i].told = orders[i].filled, ![i].ended = over]
          /\ stream' = IF alive THEN Append(stream, e) ELSE stream
          /\ position' = position
      BY <2>4, Zenon DEF Publish
    <3>2. over \in BOOLEAN
      OBVIOUS
    <3>3. e \in Event
      BY <1>1, <1>2, <3>2 DEF Event
    <3> HIDE DEF over, e
    <3>4. /\ o \in Order /\ o.filled = was.filled /\ o.size = was.size
          /\ o.status = was.status
      BY <1>1, <1>2, <3>2 DEF Order
    <3>5. orders' = [orders EXCEPT ![i] = o]
      BY <1>1, <3>1
    <3>6. stream' \in Seq(Event)
      BY <1>1, <3>1, <3>3
    <3> QED
      BY <1>1, <1>3, <3>1, <3>4, <3>5, <3>6
  <2> QED
    BY <2>1, <2>2, <2>3, <2>4 DEF OrderStep
<1>5. orders' \in Seq(Order) /\ Len(orders') = Len(orders) /\ orders'[i] = o
  BY <1>1, <1>4
<1>6. \A j \in 1 .. Len(orders) : j # i => orders'[j] = orders[j]
  BY <1>1, <1>4
<1>7. \A j \in Working' : orders'[j].filled < orders'[j].size
  BY <1>4, <1>5, <1>6 DEF Sized, Working
<1>8. Working' \subseteq Working
  BY <1>4, <1>5, <1>6 DEF Working
<1> QED
  BY <1>4, <1>5, <1>7, <1>8

LEMMA EngineKeeps ==
    ASSUME BotInv, Engine
    PROVE  BotInv' /\ Len(orders') = Len(orders) /\ Working' \subseteq Working
<1>1. /\ orders' \in Seq(Order) /\ Len(orders') = Len(orders) /\ Len(orders) \in Nat
      /\ Working' \subseteq Working
      /\ \A j \in Working' : orders'[j].filled < orders'[j].size
      /\ position' \in Int /\ stream' \in Seq(Event)
  BY OneOrderChanges, TypesUnfolded DEF BotInv, Engine
<1>2. UNCHANGED <<doc, lock, proc, instanceVars, paged, setup>>
  BY Zenon DEF Engine
<1>3. OrdersSound
  BY <1>1 DEF OrdersSound
<1>4. RestTyped
  BY <1>1, <1>2, TypesUnfolded DEF BotInv, RestTyped, instanceVars
<1>5. Types'
  <2>1. proc' \in [Procs -> Coroutine] /\ \A p \in Procs : proc'[p].order <= Len(orders')
    BY <1>1, <1>2, TypesUnfolded DEF BotInv
  <2> QED
    BY <1>3, <1>4, <2>1, TypesFolded
<1> QED
  BY <1>1, <1>2, <1>5 DEF BotInv, Sized, OnlyLoopPlaces, LoopHasGone, Forced, instanceVars

LEMMA UserKeeps ==
    ASSUME BotInv, UserSells
    PROVE  BotInv'
<1>1. /\ setup.manual > 0 /\ setup' = [setup EXCEPT !.manual = @ - 1]
      /\ position' = position - 1
      /\ UNCHANGED <<doc, lock, proc, instanceVars, orders, stream, paged>>
  BY Zenon DEF UserSells
<1>2. setup \in Setup /\ position \in Int
  BY TypesUnfolded DEF BotInv
<1>3. setup' \in Setup /\ setup'.commands = setup.commands
  <2>1. setup.manual - 1 \in Nat
    BY <1>1, <1>2 DEF Setup
  <2> QED
    BY <1>1, <1>2, <2>1 DEF Setup
<1>4. position' \in Int
  BY <1>1, <1>2
<1>5. RestTyped
  BY <1>1, <1>3, <1>4, TypesUnfolded DEF BotInv, RestTyped, instanceVars
<1>6. OrdersSound
  BY <1>1, OrdersAlike
<1>7. Types'
  <2>1. proc' \in [Procs -> Coroutine] /\ \A p \in Procs : proc'[p].order <= Len(orders')
    BY <1>1, TypesUnfolded DEF BotInv
  <2> QED
    BY <1>5, <1>6, <2>1, TypesFolded
<1> QED
  BY <1>1, <1>3, <1>7
     DEF BotInv, Sized, OnlyLoopPlaces, LoopHasGone, Forced, instanceVars, Working

LEMMA BotStarts ==
    ASSUME Init
    PROVE  BotInv
<1>1. /\ doc = FreshDoc /\ bot = 0 /\ alive = FALSE /\ stopping = FALSE
      /\ lock = [b \in 1 .. MaxStarts |-> Free] /\ proc = [p \in Procs |-> Idle]
      /\ orders = <<>> /\ stream = <<>> /\ position = 0 /\ paged = FALSE /\ setup \in Setup
  BY BotConstants DEF Init
<1>2. Types
  <2>1. \A p \in Procs : proc[p] = Idle
    BY <1>1
  <2>2. Len(orders) = 0 /\ 0 \in 0 .. 0
    BY <1>1
  <2>3. ASSUME NEW p \in Procs
        PROVE  /\ proc[p].pc \in Steps /\ proc[p].read \in BOOLEAN
               /\ proc[p].seen \in Doc /\ proc[p].base \in Doc
               /\ proc[p].bot \in 0 .. MaxStarts /\ proc[p].leg \in Legs
               /\ proc[p].qty \in 0 .. Size /\ proc[p].order \in 0 .. Len(orders)
               /\ proc[p].prior \in States /\ proc[p].ev \in Event
    BY <2>1, <2>2, IdleTyped, IdleIs, CoroutineFields
  <2>4. doc \in Doc /\ bot \in 0 .. MaxStarts /\ orders \in Seq(Order) /\ stream \in Seq(Event)
    BY <1>1, FreshTyped, Members
  <2>5. proc \in [Procs -> Coroutine] /\ lock \in [1 .. MaxStarts -> Procs \cup {Free}]
    BY <1>1, IdleTyped
  <2>6. alive \in BOOLEAN /\ stopping \in BOOLEAN /\ paged \in BOOLEAN
    BY <1>1, Zenon
  <2>7. position \in Int
    BY <1>1
  <2> QED
    BY <1>1, <2>3, <2>4, <2>5, <2>6, <2>7 DEF Types, TypeOK
<1>3. \A p \in Procs : proc[p].pc = "idle"
  BY <1>1, IdleIs
<1>4. Working = {}
  BY <1>1 DEF Working
<1> QED
  BY <1>2, <1>3, <1>4, ProcsAre
     DEF BotInv, Sized, OnlyLoopPlaces, LoopHasGone, Placings, Waiting, Orderly, Watching

LEMMA BotStepKeeps ==
    ASSUME BotInv, [Next]_vars
    PROVE  BotInv'
<1>1. CASE Next
  BY <1>1, LoopKeeps, SupervisorKeeps, HandlerKeeps, EngineKeeps, UserKeeps DEF Next
<1>2. CASE UNCHANGED vars
  <2>1. UNCHANGED <<doc, bot, alive, stopping, lock, proc, orders, stream, position, paged, setup>>
    BY <1>2, Zenon DEF vars
  <2>2. Types'
    <3>1. RestTyped
      BY <2>1, TypesUnfolded DEF BotInv, RestTyped
    <3>2. proc' \in [Procs -> Coroutine] /\ \A p \in Procs : proc'[p].order <= Len(orders')
      BY <2>1, TypesUnfolded DEF BotInv
    <3> QED
      BY <2>1, <3>1, <3>2, OrdersAlike, TypesFolded
  <2> QED
    BY <2>1, <2>2 DEF BotInv, Sized, OnlyLoopPlaces, LoopHasGone, Forced, Working
<1> QED
  BY <1>1, <1>2

(* The state of the bot's process, its document, its orders and its        *)
(* coroutines are always of their types, whatever document a coroutine has *)
(* read and writes later over what another has written: quantities, ids    *)
(* and the number of retries included.                                     *)
THEOREM BotTypes == Spec => []TypeOK
<1>1. Init => BotInv
  BY BotStarts
<1>2. BotInv /\ [Next]_vars => BotInv'
  BY BotStepKeeps
<1>3. BotInv => TypeOK
  BY DEF BotInv, Types
<1> QED
  BY <1>1, <1>2, <1>3, PTL DEF Spec

-----------------------------------------------------------------------------
(* What can send an order.                                                 *)

(* Without its event loop, a step of the bot's that nobody forces sends    *)
(* none.                                                                   *)
LEMMA DeadSendsNothing ==
    ASSUME BotInv, ~ alive, ~ Forced, Next
    PROVE  Len(orders') = Len(orders)
<1>1. proc["L"].pc = "idle" /\ \A h \in Handlers : proc[h].pc \in Orderly
  BY DEF BotInv, LoopHasGone, OnlyLoopPlaces
<1>2. ASSUME NEW p \in Procs, proc[p].pc \in Orderly
      PROVE  ~ Pipeline(p)
  BY <1>2
     DEF Orderly, Pipeline, PreState, Place, PlaceOp, Persist, Post, Answered, PatchOrderId,
         Failed, Rollback, RevertToState, Transition, PlainWrite
<1>3. ~ EventLoop
  <2>1. ~ Looping /\ ~ Pipeline("L")
    BY <1>1, <1>2, ProcsAre DEF Looping, Orderly
  <2>2. ~ Read("L")
    BY <1>1, StepNames DEF Read, Unlocked
  <2> QED
    BY <1>1, <2>1, <2>2
       DEF EventLoop, Decide, TakeUpdate, EntryFilled, ExitFilled, RetryDone, ApplyFill,
           Cancelled, Touch, Pushed, Pulled, Reduce, Reconciled, LoopExits, Transition, PlainWrite
<1>4. Supervisor => orders' = orders
  BY DEF Supervisor, TimesOut, CheckFill, EntryTimeout, Touch, GoesStale, Crash, Read, brokerVars
<1>5. ASSUME NEW h \in Handlers, Handler(h)
      PROVE  orders' = orders
  <2>1. ~ Pipeline(h)
    BY <1>1, <1>2, ProcsAre
  <2> QED
    BY <1>5, <2>1
       DEF Handler, Start, Started, AskStop, Stopped, ForceStopped, Reset, ForceTrade, Quit,
           Armed, Replace, Read, brokerVars
<1>6. Engine => Len(orders') = Len(orders)
  BY EngineKeeps
<1>7. UserSells => orders' = orders
  BY DEF UserSells
<1> QED
  BY <1>3, <1>4, <1>5, <1>6, <1>7 DEF Next

(* A bot that is stopped or force-stopped (Gone) sends no order, wherever  *)
(* its tasks were when they were cancelled, whatever reaches it later and  *)
(* however often it is started again: run_event_loop() alone places        *)
(* orders, unless a request forces the bot.                                *)
THEOREM StoppedBotsSendNothing == Spec => StoppedSendsNothing
<1>1. Init => BotInv
  BY BotStarts
<1>2. BotInv /\ [Next]_vars => BotInv'
  BY BotStepKeeps
<1>3. BotInv /\ [Next]_vars => [~ alive /\ ~ Forced => Len(orders') = Len(orders)]_vars
  BY DeadSendsNothing
<1> QED
  BY <1>1, <1>2, <1>3, PTL DEF Spec, StoppedSendsNothing

-----------------------------------------------------------------------------
(* One order at a time.                                                    *)

(* The engine answers, or refuses, every request for an order of a bot     *)
(* that nobody forces.                                                     *)
AnswersCome ==
    \A s \in Setups :
        s.commands \cap {"force_buy", "force_sell", "force_quit", "reset"} # {} \/ s.lost = 0

(* The first instance of a bot that nobody forces: it has no order before  *)
(* it starts, and while it runs its event loop waits for the one at work.  *)
(* Stopped, it may leave that one behind.                                  *)
Unforced ==
    ~ Forced =>
        /\ setup.lost = 0
        /\ bot = 0 => ~ alive /\ orders = <<>>

WaitsForIt ==
    ~ Forced /\ bot <= 1 =>
        /\ \A i, j \in Working : i = j
        /\ alive => \A i \in Working : proc["L"].pc \in Waiting /\ proc["L"].order = i

OneInv == BotInv /\ Unforced /\ WaitsForIt

LEMMA LoopSetup ==
    ASSUME EventLoop
    PROVE  \/ setup' = setup
           \/ setup' = [setup EXCEPT !.pushes = @ - 1]
           \/ setup.lost > 0 /\ setup' = [setup EXCEPT !.lost = @ - 1]
<1>1. Pipeline("L") => setup' = setup
                         \/ (setup.lost > 0 /\ setup' = [setup EXCEPT !.lost = @ - 1])
  BY DEF Pipeline, PreState, Place, Persist, Post, Answered, PatchOrderId, Failed, NoAnswer,
         Rollback, RevertToState
<1>2. RetryDone => setup' = setup
                     \/ (setup.lost > 0 /\ setup' = [setup EXCEPT !.lost = @ - 1])
  BY DEF RetryDone, RetryFailed, NoAnswer
<1>3. Pushed => setup' = [setup EXCEPT !.pushes = @ - 1]
  BY DEF Pushed
<1>4. Decide \/ TakeUpdate \/ EntryFilled \/ ExitFilled \/ ApplyFill \/ Cancelled => setup' = setup
  BY DEF Decide, TakeUpdate, EntryFilled, ExitFilled, ApplyFill, Cancelled
<1>5. Touch("L") \/ Pulled \/ Reduce \/ Reconciled \/ LoopExits \/ Read("L") => setup' = setup
  BY DEF Touch, Pulled, Reduce, Reconciled, LoopExits, Read
<1> QED
  BY <1>1, <1>2, <1>3, <1>4, <1>5, Zenon DEF EventLoop

LEMMA LoopOrders ==
    ASSUME EventLoop, ~ Post("L")
    PROVE  orders' = orders
<1>1. Pipeline("L") => orders' = orders
  BY DEF Pipeline, PreState, Place, Persist, Answered, PatchOrderId, Failed,
         Rollback, RevertToState, brokerVars
<1>2. Decide \/ TakeUpdate \/ EntryFilled \/ ExitFilled \/ ApplyFill \/ Cancelled => orders' = orders
  BY DEF Decide, TakeUpdate, EntryFilled, ExitFilled, ApplyFill, Cancelled, brokerVars
<1>3. Touch("L") \/ Pulled \/ Reduce \/ Reconciled \/ LoopExits \/ Read("L") => orders' = orders
  BY DEF Touch, Pulled, Reduce, Reconciled, LoopExits, Read, brokerVars
<1>4. RetryDone \/ Pushed => orders' = orders
  BY DEF RetryDone, Pushed, brokerVars
<1> QED
  BY <1>1, <1>2, <1>3, <1>4, Zenon DEF EventLoop

LEMMA LoopBot ==
    ASSUME EventLoop
    PROVE  bot' = bot /\ (alive' => alive)
<1>1. Pipeline("L") => bot' = bot /\ (alive' => alive)
  BY DEF Pipeline, PreState, Place, Persist, Post, Answered, PatchOrderId, Failed,
         Rollback, RevertToState, instanceVars
<1>2. Decide \/ TakeUpdate \/ EntryFilled \/ ExitFilled \/ ApplyFill \/ Cancelled
        => bot' = bot /\ (alive' => alive)
  BY DEF Decide, TakeUpdate, EntryFilled, ExitFilled, ApplyFill, Cancelled, instanceVars
<1>3. Touch("L") \/ Pulled \/ Reduce \/ Reconciled \/ Read("L") => bot' = bot /\ (alive' => alive)
  BY DEF Touch, Pulled, Reduce, Reconciled, Read, instanceVars
<1>4. RetryDone \/ Pushed => bot' = bot /\ (alive' => alive)
  BY DEF RetryDone, Pushed, instanceVars
<1>5. LoopExits => bot' = bot /\ (alive' => alive)
  BY DEF LoopExits, Gone
<1> QED
  BY <1>1, <1>2, <1>3, <1>4, <1>5, Zenon DEF EventLoop

(* It goes on from a wait only when the order is over.                     *)
LEMMA LoopWaits ==
    ASSUME Types, EventLoop, ~ LoopExits, proc["L"].pc \in Waiting, setup.lost = 0
    PROVE  proc["L"].order \notin Working
<1>1. \/ proc["L"].pc = "wait" /\ orders[proc["L"].order].status = "closed"
      \/ proc["L"].pc \in Waiting /\ NoAnswer("L")
      \/ proc["L"].pc = "retry_wait" /\ orders[proc["L"].order].status = "closed"
  <2>1. ~ Looping /\ ~ Read("L")
    BY StepNames DEF Looping, Read, Unlocked, Waiting
  <2>2. Pipeline("L") => Answered("L") \/ Failed("L")
    BY DEF Pipeline, PreState, Place, PlaceOp, Persist, Post, PatchOrderId, Rollback,
           RevertToState, Transition, PlainWrite, Waiting
  <2>3. ~ (EntryFilled \/ ExitFilled \/ ApplyFill \/ Cancelled \/ Touch("L") \/ Pulled
              \/ Reduce \/ Reconciled)
    BY DEF EntryFilled, ExitFilled, ApplyFill, Cancelled, Touch, Pulled, Reduce, Reconciled,
           Transition, PlainWrite, Waiting
  <2>4. ~ (Decide \/ TakeUpdate \/ Pushed)
    BY <2>1 DEF Decide, TakeUpdate, Pushed
  <2>5. Answered("L") \/ Failed("L") \/ RetryDone
    BY <2>1, <2>2, <2>3, <2>4, Zenon DEF EventLoop
  <2> QED
    BY <2>5 DEF Answered, Failed, RetryDone, RetryFailed, Waiting
<1>2. NoAnswer("L") => orders[proc["L"].order].status = "refused"
  <2>1. ~(setup.lost > 0)
    OBVIOUS
  <2> QED
    BY <2>1 DEF NoAnswer
<1> QED
  BY <1>1, <1>2 DEF Working

LEMMA ForcedStays ==
    ASSUME setup \in Setup,
           \/ setup' = setup
           \/ setup' = [setup EXCEPT !.pushes = @ - 1]
           \/ setup' = [setup EXCEPT !.manual = @ - 1]
           \/ setup.lost > 0 /\ setup' = [setup EXCEPT !.lost = @ - 1]
    PROVE  (Forced' <=> Forced) /\ (setup.lost = 0 => setup'.lost = 0)
<1>1. setup'.commands = setup.commands
  BY DEF Setup
<1>2. setup.lost = 0 => setup'.lost = 0
  <2> SUFFICES ASSUME setup.lost = 0 PROVE setup'.lost = 0
    OBVIOUS
  <2>1. ~(setup.lost > 0)
    OBVIOUS
  <2> QED
    BY <2>1 DEF Setup
<1> QED
  BY <1>1, <1>2 DEF Forced

(* A step that sends no order, of an instance that goes on or is gone: the *)
(* loop still waits, or has no order at work.                              *)
LEMMA NoneIsSent ==
    ASSUME OneInv, Forced' <=> Forced, setup.lost = 0 => setup'.lost = 0,
           bot' = bot, alive' => alive,
           orders = <<>> => orders' = <<>>, Working' \subseteq Working,
           alive' /\ ~ Forced /\ bot <= 1 =>
              \/ proc'["L"].pc = proc["L"].pc /\ proc'["L"].order = proc["L"].order
              \/ Working = {}
    PROVE  Unforced' /\ WaitsForIt'
BY DEF OneInv, Unforced, WaitsForIt

LEMMA NoneAtWork ==
    ASSUME OneInv, ~ Forced, bot <= 1, alive, proc["L"].pc \notin Waiting
    PROVE  Working = {}
BY DEF OneInv, WaitsForIt

LEMMA LoopWorksOne ==
    ASSUME OneInv, EventLoop
    PROVE  Unforced' /\ WaitsForIt'
<1>1. setup \in Setup /\ Types /\ orders \in Seq(Order) /\ Len(orders) \in Nat
  BY TypesUnfolded DEF OneInv, BotInv
<1>2. (Forced' <=> Forced) /\ (setup.lost = 0 => setup'.lost = 0)
  BY <1>1, LoopSetup, ForcedStays
<1>3. bot' = bot /\ (alive' => alive)
  BY LoopBot
<1>4. CASE ~ Post("L")
  <2>1. orders' = orders
    BY <1>4, LoopOrders
  <2>2. alive' /\ ~ Forced /\ bot <= 1 => Working = {}
    <3> SUFFICES ASSUME alive', ~ Forced, bot <= 1 PROVE Working = {}
      OBVIOUS
    <3>1. alive /\ setup.lost = 0
      BY <1>3 DEF OneInv, Unforced
    <3>2. CASE proc["L"].pc \in Waiting
      <4>1. ~ LoopExits
        BY <3>2 DEF LoopExits, Waiting
      <4>2. proc["L"].order \notin Working
        BY <1>1, <3>1, <3>2, <4>1, LoopWaits
      <4> QED
        BY <3>1, <4>2 DEF OneInv, WaitsForIt
    <3>3. CASE proc["L"].pc \notin Waiting
      BY <3>1, <3>3, NoneAtWork
    <3> QED
      BY <3>2, <3>3
  <2>3. Working' \subseteq Working
    BY <2>1 DEF Working
  <2> QED
    BY <1>2, <1>3, <2>1, <2>2, <2>3, NoneIsSent
<1>5. CASE Post("L")
  <2> DEFINE n == Len(orders) + 1
             o == [leg |-> proc["L"].leg, size |-> proc["L"].qty, filled |-> 0,
                   told |-> 0, status |-> "sent", ended |-> FALSE]
             pc == IF proc["L"].pc = "post" THEN "wait" ELSE "retry_wait"
  <2>1. /\ proc["L"].pc \in {"post", "retry"} /\ orders' = Append(orders, o)
        /\ proc' = [proc EXCEPT !["L"] = [To("L", pc) EXCEPT !.order = n]]
        /\ UNCHANGED instanceVars
    BY <1>5, Zenon DEF Post, GoTo
  <2>2. alive
    BY <2>1 DEF OneInv, BotInv, LoopHasGone
  <2>3. pc \in Waiting /\ pc \in Steps
    BY StepNames DEF Waiting
  <2>4. proc'["L"].pc = pc /\ proc'["L"].order = n
    <3>1. To("L", pc) \in Coroutine /\ To("L", pc).pc = pc
      BY <1>1, <2>3, ProcsAre, ToTyped
    <3>2. proc'["L"] = [To("L", pc) EXCEPT !.order = n]
      BY <2>1, ProcsAre, TypesUnfolded DEF OneInv, BotInv
    <3> HIDE DEF pc, n
    <3> QED
      BY <3>1, <3>2 DEF Coroutine
  <2>5. o \in Order
    <3>1. proc["L"] \in Coroutine
      BY ProcsAre, TypesUnfolded DEF OneInv, BotInv
    <3> QED
      BY <3>1, Members, CoroutineFields DEF Order
  <2> HIDE DEF pc, o
  <2>6. Len(orders') = n /\ \A i \in 1 .. Len(orders) : orders'[i] = orders[i]
    BY <1>1, <2>1, <2>5
  <2>7. ~ Forced /\ bot <= 1 => Working = {}
    BY <2>1, <2>2, NoneAtWork DEF Waiting
  <2>8. ~ Forced /\ bot <= 1 => Working' \subseteq {n}
    BY <1>1, <2>6, <2>7 DEF Working
  <2>9. WaitsForIt'
    BY <1>2, <1>3, <2>3, <2>4, <2>8 DEF WaitsForIt
  <2>10. Unforced'
    BY <1>2, <1>3, <2>2 DEF OneInv, Unforced
  <2> QED
    BY <2>9, <2>10
<1> QED
  BY <1>4, <1>5

LEMMA SupervisorWorksOne ==
    ASSUME OneInv, Supervisor
    PROVE  Unforced' /\ WaitsForIt'
<1>1. /\ proc \in [Procs -> Coroutine] /\ "L" \in Procs /\ "L" # "S" /\ setup \in Setup
  BY ProcsAre, TypesUnfolded DEF OneInv, BotInv
<1>2. UNCHANGED <<instanceVars, orders, setup>>
  BY DEF Supervisor, TimesOut, CheckFill, EntryTimeout, Touch, GoesStale, Crash, Read, brokerVars
<1>3. PICK next : GoTo("S", next)
  BY DEF Supervisor, TimesOut, CheckFill, EntryTimeout, Touch, GoesStale, Crash, Read,
         Transition, PlainWrite
<1>4. proc'["L"] = proc["L"]
  BY <1>1, <1>3 DEF GoTo
<1>5. bot' = bot /\ (alive' => alive) /\ orders' = orders
  BY <1>2 DEF instanceVars
<1>6. Working' = Working
  BY <1>5 DEF Working
<1>7. (Forced' <=> Forced) /\ (setup.lost = 0 => setup'.lost = 0)
  BY <1>1, <1>2, ForcedStays
<1> QED
  BY <1>4, <1>5, <1>6, <1>7, NoneIsSent

(* What may be asked of the bot does not change with a request.            *)
LEMMA HandlerAsks ==
    ASSUME BotInv, NEW h \in Handlers, Handler(h)
    PROVE  setup'.commands = setup.commands
<1>1. setup \in Setup
  BY TypesUnfolded DEF BotInv
<1>2. Failed(h) => setup'.commands = setup.commands
  BY <1>1, ProcsAre, NoAnswerTyped DEF Failed, BotInv
<1>3. Pipeline(h) => Failed(h) \/ setup' = setup
  BY DEF Pipeline, PreState, Place, Persist, Post, Answered, PatchOrderId, Rollback,
         RevertToState
<1>4. Handler(h) => Pipeline(h) \/ setup' = setup
  BY DEF Handler, Start, Started, AskStop, Stopped, ForceStopped, Reset, ForceTrade, Quit,
         Armed, Replace, Read
<1> QED
  BY <1>2, <1>3, <1>4

LEMMA HandlerWorksOne ==
    ASSUME OneInv, NEW h \in Handlers, Handler(h)
    PROVE  Unforced' /\ WaitsForIt'
<1>1. /\ proc \in [Procs -> Coroutine] /\ "L" \in Procs /\ "L" # h /\ setup \in Setup
      /\ bot \in 0 .. MaxStarts
  BY ProcsAre, TypesUnfolded DEF OneInv, BotInv
<1>2. CASE Forced
  BY <1>2, HandlerAsks DEF OneInv, Forced, Unforced, WaitsForIt
<1>3. CASE ~ Forced
  <2>1. proc[h].pc \in Orderly
    BY <1>3 DEF OneInv, BotInv, OnlyLoopPlaces
  <2>2. ~ Pipeline(h)
    BY <2>1
       DEF Orderly, Pipeline, PreState, Place, PlaceOp, Persist, Post, Answered, PatchOrderId,
           Failed, Rollback, RevertToState, Transition, PlainWrite
  <2>3. orders' = orders /\ setup' = setup
    BY <2>2
       DEF Handler, Start, Started, AskStop, Stopped, ForceStopped, Reset, ForceTrade, Quit,
           Armed, Replace, Read, brokerVars
  <2>4. (Forced' <=> Forced) /\ (setup.lost = 0 => setup'.lost = 0) /\ Working' = Working
    BY <1>1, <2>3, ForcedStays DEF Working
  <2>5. CASE Start(h)
    <3>1. bot' = bot + 1
      BY <2>5, Zenon DEF Start
    <3>2. bot' <= 1 => Working' = {}
      BY <1>1, <1>3, <2>3, <3>1 DEF OneInv, Unforced, Working
    <3>3. bot' # 0
      BY <1>1, <3>1
    <3> QED
      BY <1>3, <2>3, <2>4, <3>2, <3>3 DEF OneInv, Unforced, WaitsForIt
  <2>6. CASE \E p \in Procs : Gone(p)
    BY <2>3, <2>4, <2>6, NoneIsSent DEF Gone
  <2>7. CASE ~ Start(h) /\ ~ (\E p \in Procs : Gone(p))
    <3>1. PICK next : GoTo(h, next) /\ UNCHANGED instanceVars
      BY <2>2, <2>7, ProcsAre
         DEF Handler, Started, AskStop, Stopped, ForceStopped, Reset, ForceTrade, Quit,
             Armed, Replace, Read, Transition, PlainWrite, Request
    <3>2. proc'["L"] = proc["L"]
      BY <1>1, <3>1 DEF GoTo
    <3> QED
      BY <2>3, <2>4, <3>1, <3>2, NoneIsSent DEF instanceVars
  <2> QED
    BY <2>5, <2>6, <2>7
<1> QED
  BY <1>2, <1>3

LEMMA OneStarts ==
    ASSUME AnswersCome
    PROVE  Init => OneInv
<1> SUFFICES ASSUME Init PROVE OneInv
  OBVIOUS
<1>1. BotInv /\ orders = <<>> /\ setup \in Setups /\ ~ alive
  BY BotStarts DEF Init
<1>2. Unforced
  BY <1>1 DEF AnswersCome, Unforced, Forced
<1>3. WaitsForIt
  BY <1>1 DEF WaitsForIt, Working
<1> QED
  BY <1>1, <1>2, <1>3 DEF OneInv

LEMMA OneStepKeeps ==
    OneInv /\ [Next]_vars => OneInv'
<1> SUFFICES ASSUME OneInv, [Next]_vars PROVE OneInv'
  OBVIOUS
<1>1. BotInv'
  BY BotStepKeeps DEF OneInv
<1>2. setup \in Setup
  BY TypesUnfolded DEF OneInv, BotInv
<1>3. CASE Engine
  <2>1. Working' \subseteq Working /\ Len(orders') = Len(orders)
    BY <1>3, EngineKeeps DEF OneInv
  <2>2. UNCHANGED <<proc, instanceVars, setup>>
    BY <1>3, Zenon DEF Engine
  <2>3. orders # <<>>
    BY <1>3 DEF Engine
  <2> QED
    BY <1>1, <1>2, <2>1, <2>2, <2>3, ForcedStays, NoneIsSent DEF OneInv, instanceVars
<1>4. CASE UserSells
  <2>1. UNCHANGED <<proc, instanceVars, orders>> /\ setup' = [setup EXCEPT !.manual = @ - 1]
    BY <1>4, Zenon DEF UserSells
  <2>2. Working' = Working
    BY <2>1 DEF Working
  <2> QED
    BY <1>1, <1>2, <2>1, <2>2, ForcedStays, NoneIsSent DEF OneInv, instanceVars
<1>5. CASE UNCHANGED vars
  <2>1. UNCHANGED <<proc, bot, alive, orders, setup>>
    BY <1>5 DEF vars
  <2>2. Working' = Working
    BY <2>1 DEF Working
  <2> QED
    BY <1>1, <1>2, <2>1, <2>2, ForcedStays, NoneIsSent DEF OneInv
<1> QED
  BY <1>1, <1>3, <1>4, <1>5, LoopWorksOne, SupervisorWorksOne, HandlerWorksOne DEF OneInv, Next

(* The first instance of a bot that nobody forces, and that the engine     *)
(* always answers, has one order at work at most, fills, cancels, the      *)
(* entry timeout and the retries of residuals included.                    *)
THEOREM OneOrderAtATime ==
    ASSUME AnswersCome
    PROVE  Spec => []OneWorkingOrder
<1>1. Init => OneInv
  BY OneStarts
<1>2. OneInv /\ [Next]_vars => OneInv'
  BY OneStepKeeps
<1>3. OneInv => OneWorkingOrder
  <2> SUFFICES ASSUME OneInv, ~ Forced, bot <= 1 PROVE Cardinality(Working) <= 1
    BY DEF OneWorkingOrder
  <2>1. \A i, j \in Working : i = j
    BY DEF OneInv, WaitsForIt
  <2>2. CASE Working = {}
    BY <2>2, FS_EmptySet
  <2>3. CASE Working # {}
    <3>1. PICK i \in Working : TRUE
      BY <2>3
    <3>2. Working = {i}
      BY <2>1, <3>1
    <3> QED
      BY <3>2, FS_Singleton
  <2> QED
    BY <2>2, <2>3
<1> QED
  BY <1>1, <1>2, <1>3, PTL DEF Spec

-----------------------------------------------------------------------------
(* What a bot has, and what it takes itself to have.                       *)

(* Where nobody interferes, the user does not at TWS either.               *)
NobodySells ==
    \A s \in Setups : s.commands = {"start"} /\ ~ s.timeouts => s.manual = 0
LeftAlone == NobodySells /\ Unattended

(* A bot that nobody forces and no timer gives up on, while its first      *)
(* instance runs; and one that is left alone, always.                      *)
Attended ==
    ~ Forced /\ ~ setup.timeouts /\ (LeftAlone \/ bot = 0 \/ (bot = 1 /\ alive))

Loop == proc["L"]
Newest == orders[Len(orders)]
PlacedFor(leg) == IF leg = "entry" THEN "ENTRY_ORDER_PLACED" ELSE "EXIT_ORDER_PLACED"
TriggerFor(leg) == IF leg = "entry" THEN "AWAITING_ENTRY_TRIGGER" ELSE "AWAITING_EXIT_TRIGGER"

FillSteps == {"on_entry_filled", "on_exit_filled"}
CancelSteps == {"on_entry_cancelled", "on_exit_cancelled"}
Handling == FillSteps \cup CancelSteps

(* The loop has not dealt with the end of the newest order.                *)
Unheard ==
    /\ orders # <<>> /\ Newest.status # "refused"
    /\ ~ Newest.ended \/ stream # <<>> \/ Loop.pc \in Handling

(* What the engine has reported is true of the newest order, and the end   *)
(* of every order before that has been reported.                           *)
Says(e, last) ==
    /\ e.filled <= Newest.told
    /\ e.terminal <=> Newest.ended /\ last
    /\ e.terminal => e.filled = Newest.filled
    /\ e.filled = 0 => e.terminal
Ends ==
    \A i \in 1 .. Len(orders) :
        /\ i < Len(orders) => Over(i)
        /\ orders[i].ended => orders[i].status = "closed" /\ orders[i].told = orders[i].filled
        /\ orders[i].told <= orders[i].filled /\ orders[i].filled <= orders[i].size
        /\ orders[i].status \in {"sent", "refused"} => orders[i].filled = 0 /\ orders[i].told = 0
Streamed ==
    /\ orders = <<>> => stream = <<>>
    /\ stream # <<>> => Newest.status \in {"open", "closed"}
    /\ \A j \in 1 .. Len(stream) : Says(stream[j], j = Len(stream))
InHand ==
    /\ Loop.pc \in Handling =>
          orders # <<>> /\ Newest.status = "closed" /\ Says(Loop.ev, stream = <<>>)
    /\ Loop.pc \in FillSteps => Loop.ev.filled > 0
    /\ Loop.pc \in CancelSteps => Loop.ev.filled = 0
Reported == Ends /\ Streamed /\ InHand

(* The account has what the document says, less what it has not heard of.  *)
Expected ==
    IF ~ Unheard THEN doc.qty
    ELSE IF Newest.leg = "entry" THEN Newest.filled ELSE doc.qty - Newest.filled
Balanced ==
    /\ position <= Expected
    /\ LeftAlone => position = Expected
    /\ Unheard /\ Newest.leg = "exit" => Newest.size <= doc.qty

(* Or the bot is parked for good: nobody has anything else to write.       *)
Stuck ==
    /\ doc.state = "ERRORED"
    /\ LeftAlone => position >= 0
    /\ Loop.pc \in {"idle", "touch", "apply"}
    /\ Loop.read => Loop.seen.state = "ERRORED"

Fits(d) ==
    /\ d.state \in {"OFF", "AWAITING_ENTRY_TRIGGER"} => d.qty = 0
    /\ Unheard => d.state \in {PlacedFor(Newest.leg), "ERRORED"}

(* What the loop has read still is so, but for a crash in between.         *)
ReadFits ==
    Loop.read =>
        /\ Loop.pc \in Locked \cup Unlocked
        /\ Fits(Loop.seen) /\ doc.state \in {Loop.seen.state, "ERRORED"}
        /\ Loop.pc \in Locked => Loop.seen = doc /\ bot > 0 /\ lock[bot] = "L"
        /\ Loop.pc # "pull" => Loop.seen.qty = doc.qty

(* Step by step of the loop, what it is about to do.                       *)
Early == {"pre", "on_place_entry", "on_place_exit"}
Bound(qty) == IF Loop.leg = "entry" THEN qty = 0 ELSE qty = Loop.qty
Starting ==
    Loop.pc \in Early =>
        /\ ~ Unheard
        /\ Loop.pc # "pre" =>
              Loop.pc = PlaceOp(Loop.leg) /\ Loop.prior \in {TriggerFor(Loop.leg), "ERRORED"}
        /\ doc.state # "ERRORED" =>
              /\ doc.state = TriggerFor(Loop.leg) /\ Bound(doc.qty)
              /\ Loop.pc # "pre" => Loop.prior = doc.state
Sending ==
    Loop.pc \in {"persist", "post", "wait", "rollback", "revert"} =>
        /\ Loop.prior = TriggerFor(Loop.leg)
        /\ doc.state \in {PlacedFor(Loop.leg), "ERRORED"}
        /\ Bound(doc.qty)
        /\ Loop.pc # "revert" => Loop.base.qty = doc.qty
        /\ Loop.pc # "wait" => ~ Unheard
        /\ Loop.read => Loop.seen.state \in {PlacedFor(Loop.leg), "ERRORED"}
AtWork ==
    /\ Loop.pc \in Waiting =>
          /\ orders # <<>> /\ Loop.order = Len(orders)
          /\ Newest.leg = Loop.leg /\ Newest.size = Loop.qty
    /\ Loop.pc \notin Waiting /\ orders # <<>> => Newest.status \in {"closed", "refused"}
Retrying ==
    /\ Loop.pc \in {"retry", "retry_wait"} =>
          /\ Loop.leg = "exit" /\ doc.qty = Loop.qty
          /\ doc.state \in {"EXIT_ORDER_PLACED", "ERRORED"}
    /\ Loop.pc = "retry" => ~ Unheard
Telling ==
    /\ Loop.pc \in Handling => Newest.leg = Loop.leg
    /\ Loop.pc \in {"on_entry_filled", "on_entry_cancelled"} => Loop.leg = "entry"
    /\ Loop.pc \in {"on_exit_filled", "on_exit_cancelled"} => Loop.leg = "exit"
    /\ Loop.pc = "touch" => ~ Unheard
Applying ==
    Loop.pc = "apply" /\ Loop.leg = "entry" =>
        /\ ~ Unheard /\ position <= Loop.ev.filled /\ (LeftAlone => position = Loop.ev.filled)
        /\ doc.state # "ERRORED" => doc.qty = Loop.ev.filled /\ doc.state = "AWAITING_EXIT_TRIGGER"
        /\ Loop.read => Loop.seen.state \in {"AWAITING_EXIT_TRIGGER", "ERRORED"}
Asking ==
    /\ Loop.pc \in {"pull", "reduce", "on_manual_close", "on_mismatch"} =>
          ~ Unheard /\ doc.state \in {"AWAITING_EXIT_TRIGGER", "ERRORED"}
    /\ Loop.pc = "pull" /\ Loop.read =>
          /\ Loop.seen.state \in {"AWAITING_EXIT_TRIGGER", "ERRORED"}
          /\ LeftAlone \/ doc.state # "ERRORED" => Loop.seen.qty = doc.qty
    /\ Loop.pc = "reduce" =>
          /\ position <= Loop.seen.qty /\ Loop.seen.state = "AWAITING_EXIT_TRIGGER"
          /\ doc.state # "ERRORED" => Loop.seen.qty <= doc.qty
    /\ Loop.pc = "on_manual_close" /\ doc.state # "ERRORED" => doc.qty = 0
    /\ LeftAlone => Loop.pc \notin {"reduce", "on_manual_close", "on_mismatch"}
LoopFits == Starting /\ Sending /\ AtWork /\ Retrying /\ Telling /\ Applying /\ Asking

(* The supervisory task, with the lock, has read what is there, unless the *)
(* loop has meanwhile lessened the quantity to what the account holds.     *)
Reducible ==
    {"idle", "pre", "on_place_exit", "pull", "reduce", "on_manual_close", "on_mismatch"}
SeenBySupervisor(d) ==
    /\ doc.state = d.state
    /\ \/ doc.qty = d.qty
       \/ /\ ~ LeftAlone /\ doc.qty <= d.qty
          /\ doc.state = "AWAITING_EXIT_TRIGGER" /\ Loop.pc \in Reducible
SupervisorFits ==
    /\ proc["S"].pc \in {"idle", "on_crash"}
    /\ proc["S"].read => proc["S"].pc = "on_crash" /\ bot > 0 /\ lock[bot] = "S"
    /\ proc["S"].read /\ proc["S"].seen.state \notin {"OFF", "ERRORED"} =>
          SeenBySupervisor(proc["S"].seen)

StartFits ==
    \A h \in Handlers : proc[h].pc = "on_start" =>
        /\ proc[h].read /\ proc[h].bot = bot /\ bot > 0 /\ lock[bot] = h
        /\ alive /\ ~ stopping
        /\ doc.state = "OFF" /\ Loop.pc = "idle" /\ proc["S"].pc = "idle"

StopFits ==
    \A h \in Handlers : proc[h].pc \in {"on_stop", "on_force_stop"} => ~ LeftAlone /\ bot > 0

Ending ==
    /\ alive => bot > 0
    /\ stopping =>
          alive /\ doc.state = "OFF" /\ ~ Unheard /\ Loop.pc \in {"apply", "idle"}
    /\ ~ alive =>
          /\ doc.state = "OFF" /\ stream = <<>> /\ ~ Unheard
          /\ Loop.pc = "idle" /\ proc["S"].pc = "idle"

NobodySold == LeftAlone => setup.manual = 0

Accounts == Balanced \/ Stuck
Books ==
    /\ Reported /\ Accounts /\ Fits(doc) /\ ReadFits /\ LoopFits
    /\ SupervisorFits /\ StartFits /\ StopFits /\ Ending
    /\ NobodySold

BooksInv == OneInv /\ (Attended => Books)
-----------------------------------------------------------------------------
(* What they have in common.                                               *)

LEMMA LoopFrame ==
    ASSUME Types, NEW next, GoTo("L", next)
    PROVE  /\ Loop' = next /\ proc'["S"] = proc["S"]
           /\ \A h \in Handlers : proc'[h] = proc[h]
BY TypesUnfolded, ProcsAre DEF GoTo, Loop

LEMMA LoopTyped ==
    ASSUME Types
    PROVE  Loop \in Coroutine /\ doc \in Doc /\ Loop.seen \in Doc /\ Loop.base \in Doc
BY TypesUnfolded, CoroutineFields, ProcsAre DEF Loop

LEMMA NewestTyped ==
    ASSUME Types, orders # <<>>
    PROVE  Newest \in Order /\ Len(orders) \in 1 .. Len(orders) /\ Len(orders) > 0
BY TypesUnfolded DEF Newest

LEMMA EventsTyped ==
    ASSUME Types
    PROVE  \A j \in 1 .. Len(stream) : stream[j] \in Event
BY TypesUnfolded

(* Nothing happens to the orders, and no event is taken.                   *)
LEMMA OrdersRest ==
    ASSUME Reported, orders' = orders, stream' = stream, Loop'.pc \notin Handling
    PROVE  /\ Reported' /\ Newest' = Newest
           /\ Unheard' => Unheard
           /\ Loop.pc \notin Handling => (Unheard' <=> Unheard)
<1>1. Newest' = Newest
  BY DEF Newest
<1>2. Ends'
  BY DEF Reported, Ends, Over
<1>3. Streamed'
  BY <1>1 DEF Reported, Streamed, Says
<1>4. InHand'
  BY DEF InHand, Handling
<1> QED
  BY <1>1, <1>2, <1>3, <1>4 DEF Reported, Unheard

LEMMA BooksBalance ==
    ASSUME Balanced, Newest' = Newest, Unheard' <=> Unheard, position' = position,
           doc'.qty = doc.qty, LeftAlone' <=> LeftAlone
    PROVE  Balanced'
BY DEF Balanced, Expected

(* Unheard of, or with an event in hand, the newest order is not started   *)
(* over; so while it starts, the loop is at rest.                          *)
LEMMA EmptyStream ==
    ASSUME Types, Reported, ~ Unheard
    PROVE  stream = <<>> /\ Loop.pc \notin Handling
BY NewestTyped DEF Unheard, Reported, Streamed, InHand, Order

LEMMA NobodyStarts ==
    ASSUME Types, Books, EventLoop
    PROVE  alive /\ \A h \in Handlers : proc[h].pc # "on_start"
<1>1. Loop.pc = "idle" => Looping \/ LoopExits
  BY StepNames
     DEF EventLoop, Decide, TakeUpdate, EntryFilled, ExitFilled, RetryDone, ApplyFill, Cancelled,
         Touch, Pushed, Pulled, Reduce, Reconciled, Pipeline, Read, PreState, Place, PlaceOp,
         Persist, Post, Answered, PatchOrderId, Failed, Rollback, RevertToState, Transition,
         PlainWrite, Unlocked, Loop
<1>2. alive
  BY <1>1 DEF Books, Ending, Looping, LoopExits
<1>3. ASSUME NEW h \in Handlers, proc[h].pc = "on_start"
      PROVE  FALSE
  <2>1. Loop.pc = "idle" /\ doc.state = "OFF" /\ ~ stopping
    BY <1>3 DEF Books, StartFits
  <2>2. Decide \/ TakeUpdate \/ Pushed
    BY <2>1, StepNames
       DEF EventLoop, EntryFilled, ExitFilled, RetryDone, ApplyFill, Cancelled,
           Touch, Pulled, Reduce, Reconciled, Pipeline, Read, PreState, Place, PlaceOp,
           Persist, Post, Answered, PatchOrderId, Failed, Rollback, RevertToState, Transition,
           PlainWrite, Unlocked, Loop, LoopExits
  <2>3. stream # <<>>
    BY <2>1, <2>2 DEF Decide, TakeUpdate, Pushed
  <2>4. Unheard
    BY <2>3, EmptyStream DEF Books
  <2> QED
    BY <2>1, <2>4 DEF Books, Fits, PlacedFor
<1> QED
  BY <1>2, <1>3

(* A step of the loop leaves the rest as it should be.                     *)
LEMMA SupervisorUndisturbed ==
    ASSUME Types, Books, NEW next, GoTo("L", next), bot' = bot, LeftAlone' <=> LeftAlone,
           \/ lock[bot] # "S"
           \/ lock' = lock /\ doc.state = "ERRORED"
           \/ /\ lock' = lock /\ doc'.state = doc.state /\ doc'.qty = doc.qty
              /\ doc.state = "AWAITING_EXIT_TRIGGER" /\ Loop.pc \in Reducible => next.pc \in Reducible
    PROVE  SupervisorFits'
<1>1. Loop' = next /\ proc'["S"] = proc["S"]
  BY LoopFrame
<1> QED
  BY <1>1 DEF Books, SupervisorFits, SeenBySupervisor

LEMMA LoopAlone ==
    ASSUME Types, EventLoop
    PROVE  LeftAlone' <=> LeftAlone
<1>1. setup \in Setup
  BY TypesUnfolded
<1>2. \/ setup' = setup
      \/ setup' = [setup EXCEPT !.pushes = @ - 1]
      \/ setup' = [setup EXCEPT !.lost = @ - 1]
  BY LoopSetup
<1>3. setup'.commands = setup.commands /\ setup'.timeouts = setup.timeouts
  BY <1>1, <1>2 DEF Setup
<1> QED
  BY <1>3 DEF LeftAlone, Unattended

LEMMA LoopCloses ==
    ASSUME Types, Books, EventLoop, NEW next, GoTo("L", next), UNCHANGED <<bot, alive>>,
           Reported', Accounts', Fits(doc)', ReadFits', LoopFits', SupervisorFits',
           stopping' => doc'.state = "OFF" /\ ~ Unheard' /\ next.pc \in {"apply", "idle"}
    PROVE  Books'
<1>1. /\ Loop' = next /\ proc'["S"] = proc["S"] /\ alive' /\ alive
      /\ \A h \in Handlers : proc'[h] = proc[h] /\ proc[h].pc # "on_start"
  BY LoopFrame, NobodyStarts
<1>2. StartFits' /\ StopFits' /\ NobodySold'
  <2>1. setup'.manual = setup.manual
    BY LoopSetup, TypesUnfolded DEF Setup
  <2> QED
    BY <1>1, <2>1, LoopAlone DEF StartFits, StopFits, NobodySold, Books
<1>3. Ending'
  <2>1. bot > 0 /\ bot' = bot
    BY <1>1 DEF Books, Ending
  <2> QED
    BY <1>1, <2>1 DEF Ending
<1> QED
  BY <1>2, <1>3 DEF Books

LEMMA PlainSteps ==
    /\ "persist" \in Steps /\ "rollback" \in Steps /\ "apply" \in Steps
    /\ "touch" \in Steps /\ "pull" \in Steps
BY StepNames DEF Unlocked

LEMMA LoopTo ==
    ASSUME Types, NEW pc \in Steps
    PROVE  /\ To("L", pc) \in Coroutine
           /\ To("L", pc).pc = pc /\ To("L", pc).read = FALSE
           /\ To("L", pc).leg = Loop.leg /\ To("L", pc).qty = Loop.qty
           /\ To("L", pc).order = Loop.order /\ To("L", pc).prior = Loop.prior
           /\ To("L", pc).base = Loop.base /\ To("L", pc).ev = Loop.ev
<1>1. Loop \in Coroutine /\ To("L", pc) \in Coroutine
  BY LoopTyped, ToTyped, ProcsAre
<1> QED
  BY <1>1 DEF To, Loop, Coroutine

(* It goes on without an event in hand, and has yet to read.               *)
LEMMA LoopStep ==
    ASSUME Types, Books, EventLoop, NEW next, GoTo("L", next),
           UNCHANGED <<bot, alive, orders, stream>>,
           next.pc \notin Handling, ~ next.read,
           Accounts', Fits(doc)', LoopFits', SupervisorFits',
           stopping' => doc'.state = "OFF" /\ ~ Unheard' /\ next.pc \in {"apply", "idle"}
    PROVE  Books'
<1>1. Loop' = next
  BY LoopFrame
<1>2. Reported'
  BY <1>1, OrdersRest DEF Books
<1>3. ReadFits'
  BY <1>1 DEF ReadFits
<1> QED
  BY <1>2, <1>3, LoopCloses

(* The same, where it writes nothing.                                      *)
LEMMA LoopMoves ==
    ASSUME Types, Books, EventLoop, NEW next, GoTo("L", next),
           UNCHANGED <<doc, lock, bot, alive, stopping, orders, stream, position>>,
           Loop.pc \notin Handling, next.pc \notin Handling, ~ next.read, Balanced,
           ~ stopping \/ next.pc = "apply",
           LoopFits',
           doc.state = "AWAITING_EXIT_TRIGGER" /\ Loop.pc \in Reducible => next.pc \in Reducible
    PROVE  Books'
<1>1. Loop' = next
  BY LoopFrame
<1>2. /\ Newest' = Newest /\ (Unheard' <=> Unheard)
  BY <1>1, OrdersRest DEF Books
<1>3. LeftAlone' <=> LeftAlone
  BY LoopAlone
<1>4. Accounts'
  BY <1>2, <1>3, BooksBalance DEF Accounts
<1>5. Fits(doc)'
  BY <1>2 DEF Books, Fits
<1>6. SupervisorFits'
  BY <1>3, SupervisorUndisturbed
<1>7. stopping' => doc'.state = "OFF" /\ ~ Unheard' /\ next.pc \in {"apply", "idle"}
  BY <1>2 DEF Books, Ending
<1> QED
  BY <1>4, <1>5, <1>6, <1>7, LoopStep

LEMMA LegsAre ==
    ASSUME Types
    PROVE  /\ Loop.leg \in {"entry", "exit"}
           /\ Loop.leg = "entry" => TriggerFor(Loop.leg) = "AWAITING_ENTRY_TRIGGER"
                                    /\ PlacedFor(Loop.leg) = "ENTRY_ORDER_PLACED"
                                    /\ PlaceOp(Loop.leg) = "on_place_entry"
           /\ Loop.leg = "exit" => TriggerFor(Loop.leg) = "AWAITING_EXIT_TRIGGER"
                                   /\ PlacedFor(Loop.leg) = "EXIT_ORDER_PLACED"
                                   /\ PlaceOp(Loop.leg) = "on_place_exit"
BY LoopTyped, CoroutineFields DEF Legs, TriggerFor, PlacedFor, PlaceOp

(* Between decisions only Stuck is possible beside Balanced.               *)
LEMMA BusyIsBalanced ==
    ASSUME Books, Loop.pc \notin {"idle", "touch", "apply"}
    PROVE  Balanced /\ ~ stopping
BY DEF Books, Accounts, Stuck, Ending

LEMMA PreStateBooks ==
    ASSUME Types, Books, PreState("L")
    PROVE  Books'
<1> DEFINE op == PlaceOp(Loop.leg)
           to == To("L", op)
           next == [to EXCEPT !.prior = doc.state]
<1>1. /\ Loop.pc = "pre" /\ GoTo("L", next) /\ EventLoop
      /\ UNCHANGED <<doc, lock, bot, alive, stopping, orders, stream, position>>
  BY DEF PreState, Pipeline, EventLoop, Loop, instanceVars, brokerVars
<1>2. /\ next.pc = op /\ next.prior = doc.state /\ next.leg = Loop.leg
      /\ next.qty = Loop.qty /\ ~ next.read
  <2>1. to \in Coroutine /\ to.pc = op /\ to.leg = Loop.leg /\ to.qty = Loop.qty /\ ~ to.read
    <3>1. op \in Steps
      BY StepNames DEF PlaceOp
    <3> QED
      BY <3>1, LoopTo
  <2> HIDE DEF to
  <2> QED
    BY <2>1 DEF Coroutine
<1> HIDE DEF next, op, to
<1>3. op \in {"on_place_entry", "on_place_exit"} /\ op = PlaceOp(Loop.leg)
  BY DEF op, PlaceOp
<1>4. Loop' = next
  BY <1>1, LoopFrame
<1>5. Newest' = Newest /\ (Unheard' <=> Unheard)
  BY <1>1, <1>2, <1>3, <1>4, OrdersRest DEF Books, Handling, FillSteps, CancelSteps
<1>6. LoopFits'
  <2>1. Starting'
    BY <1>1, <1>2, <1>3, <1>4, <1>5, LegsAre DEF Books, LoopFits, Starting, Early, Bound
  <2>2. Sending' /\ AtWork' /\ Retrying' /\ Telling' /\ Applying' /\ Asking'
    BY <1>1, <1>2, <1>3, <1>4, <1>5
       DEF Books, LoopFits, Sending, AtWork, Retrying, Telling, Applying, Asking, Handling,
           FillSteps, CancelSteps, Waiting
  <2> QED
    BY <2>1, <2>2 DEF LoopFits
<1>7. doc.state = "AWAITING_EXIT_TRIGGER" => next.pc \in Reducible
  BY <1>1, <1>2, <1>3, LegsAre DEF Books, LoopFits, Starting, Early, Reducible
<1> QED
  BY <1>1, <1>2, <1>3, <1>6, <1>7, BusyIsBalanced, LoopMoves DEF Handling, FillSteps, CancelSteps

(* An on_* method of the loop goes by what the document is.                *)
LEMMA LoopLocked ==
    ASSUME Types, Books, NEW op \in Locked, NEW new, NEW next, Transition("L", op, new, next)
    PROVE  /\ Loop.pc = op /\ Loop.seen = doc /\ bot > 0 /\ lock[bot] # "S"
           /\ GoTo("L", next)
           /\ doc.state \in From[op] => doc' = new
           /\ doc.state \notin From[op] => doc' = doc
           /\ Allowed("L") <=> doc.state \in From[op]
<1>1. /\ Loop.pc = op /\ Loop.read /\ GoTo("L", next)
      /\ doc' = IF Allowed("L") THEN new ELSE doc
  BY DEF Transition, Loop
<1>2. Loop.seen = doc /\ bot > 0 /\ lock[bot] = "L"
  BY <1>1 DEF Books, ReadFits
<1> QED
  BY <1>1, <1>2 DEF Allowed, Loop

LEMMA IdleFields ==
    /\ Idle.pc = "idle" /\ Idle.read = FALSE /\ Idle.leg = "entry" /\ Idle.qty = 0
BY DEF Idle

(* To come to rest is always sound.                                        *)
LEMMA RestFits ==
    ASSUME Books, Loop'.pc = "idle", orders' = orders, Newest' = Newest, Loop.pc \notin Waiting
    PROVE  LoopFits'
BY DEF Books, LoopFits, Starting, Sending, AtWork, Retrying, Telling, Applying, Asking,
       Handling, FillSteps, CancelSteps, Early, Waiting

(* A write that leaves the quantity.                                       *)
LEMMA LoopKeepsQty ==
    ASSUME Types, Books, EventLoop, NEW next, GoTo("L", next),
           UNCHANGED <<bot, alive, stopping, orders, stream, position>>,
           Loop.pc \notin Handling, next.pc \notin Handling, ~ next.read, Balanced, ~ stopping,
           doc'.qty = doc.qty, Fits(doc)', LoopFits', SupervisorFits'
    PROVE  Books'
<1>1. Loop' = next
  BY LoopFrame
<1>2. /\ Newest' = Newest /\ (Unheard' <=> Unheard)
  BY <1>1, OrdersRest DEF Books
<1>3. Accounts'
  BY <1>2, LoopAlone, BooksBalance DEF Accounts
<1> QED
  BY <1>3, LoopStep

LEMMA PlaceBooks ==
    ASSUME Types, Books, Place("L")
    PROVE  Books'
<1> DEFINE op == PlaceOp(Loop.leg)
           new == OnPlaceOrder(Loop.seen, Loop.leg, Loop.qty)
           next == IF Allowed("L") THEN [To("L", "persist") EXCEPT !.base = new] ELSE Idle
<1>1. /\ Transition("L", op, new, next)
      /\ EventLoop /\ UNCHANGED <<bot, alive, stopping, orders, stream, position>>
  BY DEF Place, Pipeline, EventLoop, Loop, instanceVars, brokerVars
<1>2. op \in {"on_place_entry", "on_place_exit"} /\ op \in Locked
  BY StepNames DEF PlaceOp
<1> HIDE DEF op, new, next
<1>3. /\ Loop.pc = op /\ Loop.seen = doc /\ lock[bot] # "S" /\ GoTo("L", next)
      /\ doc.state \in From[op] => doc' = new
      /\ doc.state \notin From[op] => doc' = doc
      /\ Allowed("L") <=> doc.state \in From[op]
  BY <1>1, <1>2, LoopLocked
<1>4. doc.state \in From[op] <=> doc.state = TriggerFor(Loop.leg)
  BY <1>2, LegsAre DEF From, op
<1>5. doc \in Doc /\ Loop' = next
  BY <1>3, LoopTyped, LoopFrame
<1>6. /\ ~ Unheard /\ Loop.prior \in {TriggerFor(Loop.leg), "ERRORED"}
      /\ doc.state # "ERRORED" =>
            doc.state = TriggerFor(Loop.leg) /\ Bound(doc.qty) /\ Loop.prior = doc.state
  BY <1>2, <1>3 DEF Books, LoopFits, Starting, Early
<1>7. SupervisorFits'
  BY <1>1, <1>3, LoopAlone, SupervisorUndisturbed
<1>8. Balanced /\ ~ stopping /\ Loop.pc \notin Handling /\ Loop.pc \notin Waiting
  BY <1>2, <1>3, BusyIsBalanced DEF Handling, FillSteps, CancelSteps, Waiting
<1>9. CASE doc.state = TriggerFor(Loop.leg)
  <2>1. new.qty = doc.qty /\ new.state = PlacedFor(Loop.leg)
    BY <1>3, <1>5, LegsAre
       DEF new, OnPlaceOrder, OnPlaceEntryOrder, OnPlaceExitOrder, Doc, PlacedFor
  <2>2. doc' = new
    BY <1>3, <1>4, <1>9
  <2>3. /\ next.pc = "persist" /\ ~ next.read /\ next.leg = Loop.leg /\ next.qty = Loop.qty
        /\ next.prior = Loop.prior /\ next.base = new
    <3> DEFINE to == To("L", "persist")
    <3>1. /\ to \in Coroutine /\ to.pc = "persist" /\ ~ to.read /\ to.leg = Loop.leg
          /\ to.qty = Loop.qty /\ to.prior = Loop.prior
      BY LoopTo, PlainSteps
    <3>2. next = [to EXCEPT !.base = new]
      BY <1>3, <1>4, <1>9 DEF next
    <3> HIDE DEF to
    <3> QED
      BY <3>1, <3>2 DEF Coroutine
  <2>4. Newest' = Newest /\ (Unheard' <=> Unheard)
    BY <1>1, <1>5, <1>8, <2>3, OrdersRest DEF Books, Handling, FillSteps, CancelSteps
  <2>5. Fits(doc)'
    BY <1>6, <2>1, <2>2, <2>4, LegsAre DEF Fits
  <2>6. doc.state # "ERRORED"
    BY <1>9, LegsAre
  <2>7. Bound(doc.qty)'
    BY <1>5, <1>6, <2>1, <2>2, <2>3, <2>6 DEF Bound
  <2>8. Sending'
    BY <1>5, <1>6, <2>1, <2>2, <2>3, <2>4, <2>6, <2>7 DEF Sending, PlacedFor, TriggerFor
  <2>9. LoopFits'
    BY <1>1, <1>5, <1>8, <2>3, <2>4, <2>8
       DEF Books, LoopFits, Starting, AtWork, Retrying, Telling, Applying, Asking, Handling,
           FillSteps, CancelSteps, Waiting, Early
  <2> QED
    BY <1>1, <1>3, <1>7, <1>8, <2>1, <2>2, <2>3, <2>5, <2>9, LoopKeepsQty
       DEF Handling, FillSteps, CancelSteps
<1>10. CASE doc.state # TriggerFor(Loop.leg)
  <2>1. next = Idle /\ doc' = doc
    BY <1>3, <1>4, <1>10 DEF next
  <2>2. Newest' = Newest /\ (Unheard' <=> Unheard)
    BY <1>1, <1>5, <1>8, <2>1, IdleFields, OrdersRest DEF Books, Handling, FillSteps, CancelSteps
  <2>3. LoopFits'
    BY <1>1, <1>5, <1>8, <2>1, <2>2, IdleFields, RestFits
  <2>4. Fits(doc)'
    BY <2>1, <2>2 DEF Books, Fits
  <2> QED
    BY <1>1, <1>3, <1>7, <1>8, <2>1, <2>3, <2>4, IdleFields, LoopKeepsQty
       DEF Handling, FillSteps, CancelSteps
<1> QED
  BY <1>9, <1>10

(* What the loop writes outside the lock is what was there, but for a      *)
(* crash that it may undo.                                                 *)
LEMMA LoopWrote ==
    ASSUME Types, Books, EventLoop, NEW op, NEW new, NEW next, PlainWrite("L", op, new, next),
           op # "pull", op \notin Reducible, bot' = bot,
           new.qty = doc.qty, new.state = Loop.seen.state
    PROVE  /\ Loop.pc = op /\ Loop.read /\ GoTo("L", next) /\ lock' = lock
           /\ doc' = new /\ SupervisorFits'
           /\ Newest' = Newest /\ (Unheard' <=> Unheard) => Fits(doc)'
<1>1. Loop.pc = op /\ Loop.read /\ GoTo("L", next) /\ lock' = lock /\ doc' = new
  BY DEF PlainWrite, Loop
<1>2. /\ Fits(Loop.seen) /\ doc.state \in {Loop.seen.state, "ERRORED"}
      /\ Loop.seen.qty = doc.qty
  BY <1>1 DEF Books, ReadFits
<1>3. SupervisorFits'
  BY <1>1, <1>2, LoopAlone, SupervisorUndisturbed
<1>4. ASSUME Newest' = Newest, Unheard' <=> Unheard PROVE Fits(doc)'
  BY <1>1, <1>2, <1>4 DEF Fits
<1> QED
  BY <1>1, <1>3, <1>4

(* An order that is given up before it is at the engine.                   *)
LEMMA LoopGivesUp ==
    ASSUME Types, Books, Loop.prior = TriggerFor(Loop.leg)
    PROVE  GiveUp("L") = To("L", "revert")
BY LegsAre DEF GiveUp, Triggers, Loop

LEMMA UnsentBooks ==
    ASSUME Types, Books, EventLoop, NEW op \in {"persist", "rollback"}, NEW new,
           NEW next \in {To("L", "post"), GiveUp("L")}, PlainWrite("L", op, new, next),
           new = IF op = "persist" THEN Loop.seen ELSE [Loop.base EXCEPT !.state = Loop.seen.state],
           UNCHANGED <<bot, alive, stopping, orders, stream, position>>
    PROVE  Books'
<1>3. Loop.pc = op /\ Loop.read
  BY DEF PlainWrite, Loop
<1>4. /\ Loop.prior = TriggerFor(Loop.leg) /\ ~ Unheard /\ Bound(doc.qty)
      /\ Loop.base.qty = doc.qty /\ Loop.seen.qty = doc.qty
      /\ Loop.seen.state \in {PlacedFor(Loop.leg), "ERRORED"}
  BY <1>3 DEF Books, LoopFits, Sending, ReadFits
<1>5. new.qty = doc.qty /\ new.state = Loop.seen.state
  <2>1. Loop.base \in Doc
    BY LoopTyped
  <2> QED
    BY <1>4, <2>1 DEF Doc
<1>6. /\ Loop.pc = op /\ GoTo("L", next) /\ doc' = new /\ SupervisorFits'
      /\ Newest' = Newest /\ (Unheard' <=> Unheard) => Fits(doc)'
  BY <1>5, LoopWrote DEF Reducible
<1>7. /\ next.pc \in {"post", "revert"} /\ ~ next.read /\ next.leg = Loop.leg
      /\ next.qty = Loop.qty /\ next.prior = Loop.prior /\ next.base = Loop.base
  <2>1. "post" \in Steps /\ "revert" \in Steps
    BY StepNames
  <2>2. next \in {To("L", "post"), To("L", "revert")}
    BY <1>4, LoopGivesUp
  <2> QED
    BY <2>1, <2>2, LoopTo
<1>8. Loop' = next
  BY <1>6, LoopFrame
<1>9. Newest' = Newest /\ (Unheard' <=> Unheard)
  BY <1>3, <1>7, <1>8, OrdersRest DEF Books, Handling, FillSteps, CancelSteps
<1>10. Sending'
  BY <1>4, <1>5, <1>6, <1>7, <1>8, <1>9 DEF Sending, Bound
<1>11. LoopFits'
  BY <1>3, <1>7, <1>8, <1>9, <1>10
     DEF Books, LoopFits, Starting, AtWork, Retrying, Telling, Applying, Asking, Handling,
         FillSteps, CancelSteps, Waiting, Early
<1>12. Balanced /\ ~ stopping
  BY <1>3, BusyIsBalanced
<1> QED
  BY <1>3, <1>5, <1>6, <1>7, <1>9, <1>11, <1>12, LoopKeepsQty
     DEF Handling, FillSteps, CancelSteps

LEMMA PersistBooks ==
    ASSUME Types, Books, Persist("L") \/ Rollback("L")
    PROVE  Books'
<1>1. EventLoop /\ UNCHANGED <<bot, alive, stopping, orders, stream, position>>
  BY DEF Persist, Rollback, Pipeline, EventLoop, instanceVars, brokerVars
<1>2. CASE Persist("L")
  <2>1. PICK next \in {To("L", "post"), GiveUp("L")} : PlainWrite("L", "persist", Loop.seen, next)
    BY <1>2, Zenon DEF Persist, Loop
  <2> QED
    BY <1>1, <2>1, UnsentBooks
<1>3. CASE Rollback("L")
  <2> DEFINE new == [Loop.base EXCEPT !.state = Loop.seen.state]
  <2>1. PlainWrite("L", "rollback", new, GiveUp("L"))
    BY <1>3, Zenon DEF Rollback, Loop
  <2>2. "rollback" # "persist"
    OBVIOUS
  <2> QED
    BY <1>1, <2>1, <2>2, UnsentBooks
<1> QED
  BY <1>2, <1>3

(* The engine has answered, or has refused.                                *)
LEMMA AnsweredBooks ==
    ASSUME Types, Books, setup.lost = 0,
           Answered("L") \/ Failed("L") \/ RetryDone
    PROVE  Books'
<1>1. /\ EventLoop /\ UNCHANGED <<doc, lock, bot, alive, stopping, orders, stream, position>>
      /\ Loop.pc \in Waiting
  BY DEF Answered, Failed, RetryDone, Pipeline, EventLoop, instanceVars, brokerVars, Waiting, Loop
<1>2. PICK pc \in {"patch_order_id", "rollback", "apply"} :
        /\ GoTo("L", To("L", pc))
        /\ pc = "apply" <=> Loop.pc = "retry_wait"
        /\ pc = "rollback" => orders[Loop.order].status = "refused"
        /\ orders[Loop.order].status \in {"closed", "refused"}
  <2>1. NoAnswer("L") => orders[Loop.order].status = "refused"
    <3>1. ~ (setup.lost > 0)
      OBVIOUS
    <3> QED
      BY <3>1 DEF NoAnswer, Loop
  <2> QED
    BY <2>1 DEF Answered, Failed, RetryDone, RetryFailed, Loop
<1> DEFINE next == To("L", pc)
<1>3. /\ next.pc = pc /\ ~ next.read /\ next.leg = Loop.leg /\ next.order = Loop.order
      /\ next.qty = Loop.qty /\ next.prior = Loop.prior /\ next.base = Loop.base
  <2>1. pc \in Steps
    BY PlainSteps, StepNames
  <2> QED
    BY <2>1, LoopTo
<1> HIDE DEF next
<1>4. GoTo("L", next) /\ Loop' = next
  BY <1>2, LoopFrame DEF next
<1>5. Newest' = Newest /\ (Unheard' <=> Unheard)
  BY <1>1, <1>3, <1>4, OrdersRest DEF Books, Handling, FillSteps, CancelSteps, Waiting
<1>6. /\ orders # <<>> /\ Newest.status \in {"closed", "refused"}
      /\ pc = "rollback" => ~ Unheard
  BY <1>1, <1>2 DEF Books, LoopFits, AtWork, Newest, Unheard
<1>7. AtWork' /\ Telling' /\ Asking' /\ Starting'
  BY <1>1, <1>3, <1>4, <1>5, <1>6
     DEF AtWork, Telling, Asking, Starting, Handling, FillSteps, CancelSteps, Waiting, Early
<1>8. Sending'
  BY <1>1, <1>2, <1>3, <1>4, <1>5, <1>6 DEF Books, LoopFits, Sending, Bound, Waiting
<1>9. Retrying' /\ Applying'
  <2>1. Loop.pc = "retry_wait" => Loop.leg = "exit"
    BY DEF Books, LoopFits, Retrying
  <2> QED
    BY <1>1, <1>2, <1>3, <1>4, <1>5, <2>1 DEF Retrying, Applying, Waiting
<1>10. Balanced /\ ~ stopping
  BY <1>1, BusyIsBalanced DEF Waiting
<1> QED
  BY <1>1, <1>3, <1>4, <1>7, <1>8, <1>9, <1>10, LoopMoves
     DEF Handling, FillSteps, CancelSteps, Waiting, LoopFits, Reducible

(* The last step of a pipeline.                                            *)
LEMMA LoopRests ==
    ASSUME Types, Books, EventLoop, NEW op \in Locked, NEW new, Transition("L", op, new, Idle),
           UNCHANGED <<bot, alive, stopping, orders, stream, position>>,
           Loop.pc \notin Handling \cup Waiting \cup {"idle", "touch", "apply"},
           doc.state \in From[op] => new.qty = doc.qty,
           doc.state \in From[op] =>
              /\ Unheard => new.state \in {PlacedFor(Newest.leg), "ERRORED"}
              /\ new.state \in {"OFF", "AWAITING_ENTRY_TRIGGER"} => new.qty = 0
    PROVE  Books'
<1>1. /\ Loop.pc = op /\ lock[bot] # "S" /\ GoTo("L", Idle)
      /\ doc.state \in From[op] => doc' = new
      /\ doc.state \notin From[op] => doc' = doc
  BY LoopLocked
<1>2. Loop' = Idle
  BY <1>1, LoopFrame
<1>3. Newest' = Newest /\ (Unheard' <=> Unheard)
  BY <1>2, IdleFields, OrdersRest DEF Books, Handling, FillSteps, CancelSteps
<1>4. doc'.qty = doc.qty
  BY <1>1
<1>5. Fits(doc)'
  BY <1>1, <1>3 DEF Books, Fits
<1>6. SupervisorFits'
  BY <1>1, LoopAlone, SupervisorUndisturbed
<1>7. LoopFits'
  BY <1>2, <1>3, IdleFields, RestFits
<1>8. Balanced /\ ~ stopping
  BY BusyIsBalanced
<1> QED
  BY <1>1, <1>4, <1>5, <1>6, <1>7, <1>8, IdleFields, LoopKeepsQty
     DEF Handling, FillSteps, CancelSteps

LEMMA PatchBooks ==
    ASSUME Types, Books, PatchOrderId("L")
    PROVE  Books'
<1> DEFINE new == OnOrderId(Loop.seen, Loop.order)
<1>1. /\ Transition("L", "patch_order_id", new, Idle)
      /\ EventLoop /\ UNCHANGED <<bot, alive, stopping, orders, stream, position>>
  BY DEF PatchOrderId, Pipeline, EventLoop, Loop, instanceVars, brokerVars
<1>2. "patch_order_id" \in Locked
  BY StepNames
<1>3. Loop.pc = "patch_order_id" /\ Loop.seen = doc
  BY <1>1, <1>2, LoopLocked
<1>4. new.qty = doc.qty /\ new.state = doc.state
  BY <1>3, LoopTyped DEF OnOrderId, Doc
<1> HIDE DEF new
<1>5. Fits(doc)
  BY DEF Books
<1> QED
  BY <1>1, <1>2, <1>3, <1>4, <1>5, LoopRests
     DEF Fits, Handling, FillSteps, CancelSteps, Waiting

LEMMA RevertBooks ==
    ASSUME Types, Books, RevertToState("L")
    PROVE  Books'
<1> DEFINE new == RevertTo(Loop.seen, Loop.prior)
<1>1. /\ Transition("L", "revert", new, Idle)
      /\ EventLoop /\ UNCHANGED <<bot, alive, stopping, orders, stream, position>>
  BY DEF RevertToState, Pipeline, EventLoop, Loop, instanceVars, brokerVars
<1>2. "revert" \in Locked
  BY StepNames
<1>3. Loop.pc = "revert" /\ Loop.seen = doc
  BY <1>1, <1>2, LoopLocked
<1>4. Loop.prior = TriggerFor(Loop.leg) /\ ~ Unheard /\ Bound(doc.qty)
  BY <1>3 DEF Books, LoopFits, Sending
<1>5. new.qty = doc.qty /\ new.state = Loop.prior
  BY <1>3, <1>4, LoopTyped, LegsAre DEF RevertTo, Cleared, Bound, Doc
<1>6. new.state \in {"OFF", "AWAITING_ENTRY_TRIGGER"} => new.qty = 0
  BY <1>4, <1>5, LegsAre DEF Bound
<1> HIDE DEF new
<1> QED
  BY <1>1, <1>2, <1>3, <1>4, <1>5, <1>6, LoopRests
     DEF Handling, FillSteps, CancelSteps, Waiting

LEMMA PostBooks ==
    ASSUME Types, Books, Post("L")
    PROVE  Books'
<1> DEFINE pc == IF Loop.pc = "post" THEN "wait" ELSE "retry_wait"
           next == [To("L", pc) EXCEPT !.order = Len(orders) + 1]
           o == [leg |-> Loop.leg, size |-> Loop.qty, filled |-> 0,
                 told |-> 0, status |-> "sent", ended |-> FALSE]
<1>1. /\ Loop.pc \in {"post", "retry"} /\ orders' = Append(orders, o) /\ GoTo("L", next)
      /\ EventLoop
      /\ UNCHANGED <<doc, lock, bot, alive, stopping, position, stream>>
  BY DEF Post, Pipeline, EventLoop, Loop, instanceVars
<1>2. orders \in Seq(Order) /\ Len(orders) \in Nat
  BY TypesUnfolded
<1>3. /\ next.pc = pc /\ ~ next.read /\ next.leg = Loop.leg /\ next.qty = Loop.qty
      /\ next.prior = Loop.prior /\ next.base = Loop.base /\ next.order = Len(orders) + 1
  <2> DEFINE to == To("L", pc)
  <2>1. pc \in Steps
    BY StepNames
  <2> HIDE DEF pc
  <2>2. /\ to \in Coroutine /\ to.pc = pc /\ ~ to.read /\ to.leg = Loop.leg
        /\ to.qty = Loop.qty /\ to.prior = Loop.prior /\ to.base = Loop.base
    BY <2>1, LoopTo
  <2> HIDE DEF to
  <2>3. next = [to EXCEPT !.order = Len(orders) + 1]
    BY DEF to
  <2> HIDE DEF next
  <2> QED
    BY <2>2, <2>3 DEF Coroutine
<1> HIDE DEF next
<1>4. Loop' = next
  BY <1>1, LoopFrame
<1>5. o \in Order
  <2>1. Loop.leg \in Legs /\ Loop.qty \in 0 .. Size
    BY LoopTyped, CoroutineFields
  <2> QED
    BY <2>1, Members DEF Order
<1>6. /\ o.leg = Loop.leg /\ o.size = Loop.qty /\ o.filled = 0 /\ o.told = 0
      /\ o.status = "sent" /\ ~ o.ended
  OBVIOUS
<1> HIDE DEF o
<1>7. /\ Len(orders') = Len(orders) + 1 /\ orders'[Len(orders) + 1] = o /\ orders' # <<>>
      /\ \A i \in 1 .. Len(orders) : orders'[i] = orders[i]
  BY <1>1, <1>2, <1>5
<1>8. Newest' = o /\ Unheard'
  BY <1>6, <1>7 DEF Newest, Unheard
<1>9. /\ ~ Unheard /\ Balanced /\ ~ stopping
      /\ Loop.leg = "entry" => doc.qty = 0
      /\ Loop.leg = "exit" => doc.qty = Loop.qty
      /\ doc.state \in {PlacedFor(Loop.leg), "ERRORED"}
  <2>1. Loop.pc = "post" => Bound(doc.qty) /\ ~ Unheard /\ doc.state \in {PlacedFor(Loop.leg), "ERRORED"}
    BY DEF Books, LoopFits, Sending
  <2>2. Loop.pc = "retry" => /\ Loop.leg = "exit" /\ doc.qty = Loop.qty /\ ~ Unheard
                             /\ doc.state \in {PlacedFor(Loop.leg), "ERRORED"}
    BY DEF Books, LoopFits, Retrying, PlacedFor
  <2>3. Balanced /\ ~ stopping
    BY <1>1, BusyIsBalanced
  <2> QED
    BY <1>1, <2>1, <2>2, <2>3 DEF Bound
<1>10. stream = <<>>
  BY <1>9, EmptyStream DEF Books
<1>11. Reported'
  <2>1. Ends'
    <3>1. orders # <<>> => Over(Len(orders))
      BY <1>9, <1>10 DEF Unheard, Newest, Over
    <3>2. \A i \in 1 .. Len(orders) : Over(i)
      <4> SUFFICES ASSUME NEW i \in 1 .. Len(orders) PROVE Over(i)
        OBVIOUS
      <4>1. i < Len(orders) => Over(i)
        BY DEF Books, Reported, Ends
      <4>2. i = Len(orders) => orders # <<>>
        BY <1>2
      <4> QED
        BY <1>2, <3>1, <4>1, <4>2
    <3> SUFFICES ASSUME NEW i \in 1 .. Len(orders')
                 PROVE  (/\ i < Len(orders) => Over(i)
                         /\ orders[i].ended => orders[i].status = "closed"
                                               /\ orders[i].told = orders[i].filled
                         /\ orders[i].told <= orders[i].filled
                         /\ orders[i].filled <= orders[i].size
                         /\ orders[i].status \in {"sent", "refused"} =>
                               orders[i].filled = 0 /\ orders[i].told = 0)'
      BY DEF Ends
    <3>3. CASE i \in 1 .. Len(orders)
      <4>1. orders'[i] = orders[i] /\ Over(i)'
        BY <1>7, <3>2, <3>3 DEF Over
      <4> QED
        BY <3>3, <4>1 DEF Books, Reported, Ends
    <3>4. CASE i = Len(orders) + 1
      <4>1. orders'[i] = o /\ ~ (i < Len(orders'))
        BY <1>2, <1>7, <3>4
      <4>2. o.size \in 0 .. Size
        BY <1>5 DEF Order
      <4> QED
        BY <1>6, <4>1, <4>2
    <3> QED
      BY <1>2, <1>7, <3>3, <3>4
  <2>2. Streamed'
    BY <1>1, <1>10 DEF Streamed
  <2>3. InHand'
    BY <1>3, <1>4 DEF InHand, Handling, FillSteps, CancelSteps
  <2> QED
    BY <2>1, <2>2, <2>3 DEF Reported
<1>12. Accounts'
  <2>1. position <= doc.qty /\ (LeftAlone => position = doc.qty)
    BY <1>9 DEF Balanced, Expected
  <2>2. LeftAlone' <=> LeftAlone
    BY <1>1, LoopAlone
  <2>3. doc.qty \in Int
    BY LoopTyped DEF Doc
  <2> QED
    BY <1>1, <1>6, <1>8, <1>9, <2>1, <2>2, <2>3, LegsAre DEF Accounts, Balanced, Expected
<1>13. Fits(doc)'
  BY <1>1, <1>6, <1>8, <1>9 DEF Books, Fits
<1>14. LoopFits'
  <2>1. AtWork'
    BY <1>3, <1>4, <1>6, <1>7, <1>8 DEF AtWork, Waiting
  <2>2. Sending' /\ Retrying'
    BY <1>1, <1>3, <1>4, <1>8 DEF Books, LoopFits, Sending, Retrying, Bound
  <2>3. Starting' /\ Telling' /\ Applying' /\ Asking'
    BY <1>3, <1>4 DEF Starting, Telling, Applying, Asking, Handling, FillSteps, CancelSteps, Early
  <2> QED
    BY <2>1, <2>2, <2>3 DEF LoopFits
<1>15. ReadFits'
  BY <1>3, <1>4 DEF ReadFits
<1>16. SupervisorFits'
  BY <1>1, LoopAlone, SupervisorUndisturbed DEF Reducible
<1> QED
  BY <1>1, <1>9, <1>11, <1>12, <1>13, <1>14, <1>15, <1>16, LoopCloses

LEMMA IdleLoop ==
    ASSUME Types, Books, Looping
    PROVE  Loop.pc = "idle" /\ alive /\ ~ stopping
BY DEF Looping, Loop

(* Where it waits for a signal, the loop has heard of everything.          *)
LEMMA TriggersAreHeard ==
    ASSUME Types, Books, doc.state \in Triggers
    PROVE  ~ Unheard /\ stream = <<>> /\ Balanced
<1>1. ~ Unheard
  BY DEF Books, Fits, PlacedFor, Triggers
<1>2. Balanced
  BY DEF Books, Accounts, Stuck, Triggers
<1> QED
  BY <1>1, <1>2, EmptyStream DEF Books

LEMMA DecideBooks ==
    ASSUME Types, Books, Decide
    PROVE  Books'
<1>1. /\ Looping /\ EventLoop
      /\ UNCHANGED <<doc, lock, bot, alive, stopping, orders, stream, position>>
  BY DEF Decide, EventLoop, instanceVars, brokerVars
<1>2. Loop.pc = "idle" /\ ~ stopping
  BY <1>1, IdleLoop
<1>3. PICK leg \in Legs : \E qty \in {setup.lots, doc.qty} :
        /\ doc.state = TriggerFor(leg) /\ GoTo("L", Placing("L", leg, qty))
        /\ leg = "exit" => qty = doc.qty
  BY DEF Decide, TriggerFor, Legs
<1>4. PICK qty \in {setup.lots, doc.qty} :
        /\ doc.state = TriggerFor(leg) /\ GoTo("L", Placing("L", leg, qty))
        /\ leg = "exit" => qty = doc.qty
  BY <1>3
<1>5. doc.state \in Triggers
  BY <1>4 DEF TriggerFor, Triggers
<1>6. ~ Unheard /\ Balanced /\ (leg = "entry" => doc.qty = 0)
  BY <1>4, <1>5, TriggersAreHeard DEF Books, Fits, TriggerFor
<1> DEFINE next == Placing("L", leg, qty)
<1>7. next.pc = "pre" /\ ~ next.read /\ next.leg = leg /\ next.qty = qty
  BY DEF Placing, Idle
<1> HIDE DEF next
<1>8. GoTo("L", next) /\ Loop' = next
  BY <1>4, LoopFrame DEF next
<1>9. Newest' = Newest /\ (Unheard' <=> Unheard)
  BY <1>1, <1>2, <1>7, <1>8, OrdersRest DEF Books, Handling, FillSteps, CancelSteps
<1>10. Starting'
  BY <1>1, <1>4, <1>6, <1>7, <1>8, <1>9 DEF Starting, Bound, Legs, TriggerFor
<1>11. LoopFits'
  BY <1>1, <1>2, <1>7, <1>8, <1>9, <1>10
     DEF Books, LoopFits, Sending, AtWork, Retrying, Telling, Applying, Asking, Handling,
         FillSteps, CancelSteps, Waiting
<1> QED
  BY <1>1, <1>2, <1>6, <1>7, <1>8, <1>11, LoopMoves DEF Handling, FillSteps, CancelSteps, Reducible

LEMMA PushedBooks ==
    ASSUME Types, Books, Pushed
    PROVE  Books'
<1> DEFINE next == [Idle EXCEPT !.pc = "pull"]
<1>1. /\ Looping /\ EventLoop /\ GoTo("L", next) /\ doc.state = "AWAITING_EXIT_TRIGGER"
      /\ UNCHANGED <<doc, lock, bot, alive, stopping, orders, stream, position>>
  BY DEF Pushed, EventLoop, instanceVars, brokerVars
<1>2. Loop.pc = "idle" /\ ~ stopping
  BY <1>1, IdleLoop
<1>3. ~ Unheard /\ Balanced
  BY <1>1, TriggersAreHeard DEF Triggers
<1>4. next.pc = "pull" /\ ~ next.read
  BY DEF Idle
<1> HIDE DEF next
<1>5. Loop' = next
  BY <1>1, LoopFrame
<1>6. Newest' = Newest /\ (Unheard' <=> Unheard)
  BY <1>1, <1>2, <1>4, <1>5, OrdersRest DEF Books, Handling, FillSteps, CancelSteps
<1>7. LoopFits'
  BY <1>1, <1>2, <1>3, <1>4, <1>5, <1>6
     DEF Books, LoopFits, Starting, Sending, AtWork, Retrying, Telling, Applying, Asking, Handling,
         FillSteps, CancelSteps, Waiting, Early
<1> QED
  BY <1>1, <1>2, <1>3, <1>4, <1>7, LoopMoves DEF Handling, FillSteps, CancelSteps, Reducible

(* What IB answers: nothing, less than the bot tracks, or more.            *)
LEMMA PulledBooks ==
    ASSUME Types, Books, Pulled
    PROVE  Books'
<1> DEFINE seen == [Loop.seen EXCEPT !.qty = Abs(position)]
           reduce == [Idle EXCEPT !.pc = "reduce", !.seen = seen]
           mismatch == To("L", "on_mismatch")
           holds == Loop.seen.state \in {"AWAITING_EXIT_TRIGGER"} \cup Placed /\ Loop.seen.qty > 0
<1>1. /\ Loop.pc = "pull" /\ Loop.read /\ EventLoop
      /\ UNCHANGED <<doc, lock, bot, alive, stopping, orders, stream, position>>
      /\ \/ GoTo("L", Idle)
         \/ holds /\ Abs(position) < Loop.seen.qty /\ GoTo("L", reduce)
         \/ holds /\ Abs(position) > Loop.seen.qty /\ GoTo("L", mismatch)
  BY DEF Pulled, EventLoop, Loop, instanceVars, brokerVars
<1>2. /\ Balanced /\ ~ stopping /\ ~ Unheard
      /\ doc.state \in {"AWAITING_EXIT_TRIGGER", "ERRORED"}
      /\ LeftAlone => Loop.seen.qty = doc.qty /\ position = doc.qty
      /\ doc.state # "ERRORED" => Loop.seen.qty = doc.qty
      /\ Loop.seen.state \in {"AWAITING_EXIT_TRIGGER", "ERRORED"}
  <2>1. Balanced /\ ~ stopping
    BY <1>1, BusyIsBalanced
  <2> QED
    BY <1>1, <2>1 DEF Books, LoopFits, Asking, Balanced, Expected
<1>3. Loop.seen \in Doc /\ doc.qty \in Nat /\ position \in Int
  BY LoopTyped, TypesUnfolded DEF Doc
<1>4. holds => Loop.seen.state = "AWAITING_EXIT_TRIGGER"
  BY <1>2 DEF Placed
<1>5. LeftAlone => Abs(position) = Loop.seen.qty
  BY <1>2, <1>3 DEF Abs
<1>6. /\ reduce.pc = "reduce" /\ ~ reduce.read /\ reduce.seen.state = Loop.seen.state
      /\ position <= reduce.seen.qty /\ reduce.seen.qty = Abs(position)
  <2>1. seen.state = Loop.seen.state /\ seen.qty = Abs(position)
    BY <1>3 DEF Doc
  <2>2. position <= Abs(position)
    BY <1>3 DEF Abs
  <2>3. reduce.pc = "reduce" /\ ~ reduce.read /\ reduce.seen = seen
    BY DEF Idle
  <2> HIDE DEF reduce, seen
  <2> QED
    BY <2>1, <2>2, <2>3
<1>7. mismatch.pc = "on_mismatch" /\ ~ mismatch.read
  BY LoopTo, StepNames
<1> HIDE DEF reduce, mismatch, seen, holds
<1>8. PICK next \in {Idle, reduce, mismatch} :
        /\ GoTo("L", next)
        /\ next # Idle => ~ LeftAlone
        /\ next = reduce =>
              Loop.seen.state = "AWAITING_EXIT_TRIGGER" /\ Abs(position) < Loop.seen.qty
  <2>1. Idle # reduce /\ Idle # mismatch /\ reduce # mismatch
    BY <1>6, <1>7, IdleFields
  <2>2. Loop.seen.qty \in Nat /\ Abs(position) \in Int
    BY <1>3 DEF Doc, Abs
  <2> QED
    BY <1>1, <1>4, <1>5, <2>1, <2>2
<1>9. Loop' = next /\ next.pc \in {"idle", "reduce", "on_mismatch"} /\ ~ next.read
  BY <1>6, <1>7, <1>8, IdleFields, LoopFrame
<1>10. Newest' = Newest /\ (Unheard' <=> Unheard)
  BY <1>1, <1>9, OrdersRest DEF Books, Handling, FillSteps, CancelSteps
<1>11. Asking'
  <2>1. next.pc = "reduce" => next = reduce
    BY <1>7, <1>8, IdleFields
  <2>2. next.pc # "idle" => ~ LeftAlone
    BY <1>8, IdleFields
  <2>3. LeftAlone' <=> LeftAlone
    BY <1>1, LoopAlone
  <2>4. Abs(position) < Loop.seen.qty => Abs(position) <= Loop.seen.qty
    BY <1>3 DEF Doc, Abs
  <2> QED
    BY <1>1, <1>2, <1>6, <1>8, <1>9, <1>10, <2>1, <2>2, <2>3, <2>4 DEF Asking
<1>12. LoopFits'
  BY <1>1, <1>9, <1>10, <1>11
     DEF Books, LoopFits, Starting, Sending, AtWork, Retrying, Telling, Applying, Handling,
         FillSteps, CancelSteps, Waiting, Early
<1> QED
  BY <1>1, <1>2, <1>8, <1>9, <1>12, LoopMoves DEF Handling, FillSteps, CancelSteps, Reducible

(* The quantity is lessened to what the account holds, outside the lock.   *)
LEMMA ReduceBooks ==
    ASSUME Types, Books, Reduce
    PROVE  Books'
<1>1. /\ Loop.pc = "reduce" /\ doc' = Loop.seen /\ GoTo("L", Reduced(doc')) /\ EventLoop
      /\ UNCHANGED <<lock, bot, alive, stopping, orders, stream, position>>
  BY DEF Reduce, EventLoop, Loop, instanceVars, brokerVars
<1>2. /\ Balanced /\ ~ stopping /\ ~ Unheard /\ ~ LeftAlone
      /\ doc.state \in {"AWAITING_EXIT_TRIGGER", "ERRORED"}
      /\ Loop.seen.state = "AWAITING_EXIT_TRIGGER" /\ position <= Loop.seen.qty
      /\ doc.state # "ERRORED" => Loop.seen.qty <= doc.qty
  BY <1>1, BusyIsBalanced DEF Books, LoopFits, Asking
<1> DEFINE next == Reduced(doc')
<1>3. /\ next.pc \in {"idle", "on_manual_close"} /\ ~ next.read
      /\ next.pc = "on_manual_close" => doc'.qty = 0
  BY LoopTo, StepNames, IdleFields DEF Reduced
<1> HIDE DEF next
<1>4. GoTo("L", next) /\ Loop' = next
  BY <1>1, LoopFrame DEF next
<1>5. Newest' = Newest /\ (Unheard' <=> Unheard)
  BY <1>1, <1>3, <1>4, OrdersRest DEF Books, Handling, FillSteps, CancelSteps
<1>6. LeftAlone' <=> LeftAlone
  BY <1>1, LoopAlone
<1>7. Accounts'
  BY <1>1, <1>2, <1>5, <1>6 DEF Accounts, Balanced, Expected
<1>8. Fits(doc)'
  BY <1>1, <1>2, <1>5 DEF Fits
<1>9. LoopFits'
  BY <1>1, <1>2, <1>3, <1>4, <1>5, <1>6
     DEF Books, LoopFits, Starting, Sending, AtWork, Retrying, Telling, Applying, Asking, Handling,
         FillSteps, CancelSteps, Waiting, Early
<1>10. SupervisorFits'
  <2>1. proc'["S"] = proc["S"] /\ bot' = bot /\ lock' = lock
    BY <1>1, <1>4, LoopFrame
  <2>2. SupervisorFits
    BY DEF Books
  <2>3. ASSUME proc["S"].read, proc["S"].seen.state \notin {"OFF", "ERRORED"}
        PROVE  SeenBySupervisor(proc["S"].seen)'
    <3>1. SeenBySupervisor(proc["S"].seen)
      BY <2>2, <2>3 DEF SupervisorFits
    <3>2. doc.state = "AWAITING_EXIT_TRIGGER" /\ doc.qty <= proc["S"].seen.qty
      BY <1>2, <2>3, <3>1, LoopTyped DEF SeenBySupervisor, Doc
    <3>3. Loop.seen.qty <= doc.qty
      BY <1>2, <3>2
    <3>4. Loop.seen.qty \in Int /\ doc.qty \in Int /\ proc["S"].seen.qty \in Int
      BY LoopTyped, TypesUnfolded, ProcsAre, CoroutineFields DEF Doc
    <3>5. Loop.seen.qty <= proc["S"].seen.qty
      BY <3>2, <3>3, <3>4
    <3> QED
      BY <1>1, <1>2, <1>3, <1>4, <1>6, <2>1, <3>1, <3>2, <3>5 DEF SeenBySupervisor, Reducible
  <2> QED
    BY <2>1, <2>2, <2>3 DEF SupervisorFits
<1> QED
  BY <1>1, <1>2, <1>3, <1>4, <1>7, <1>8, <1>9, <1>10, LoopStep DEF Handling, FillSteps, CancelSteps

(* on_manual_close(), when nothing is left, and on_mismatch().             *)
LEMMA ReconciledBooks ==
    ASSUME Types, Books, Reconciled
    PROVE  Books'
<1>1. EventLoop /\ UNCHANGED <<bot, alive, stopping, orders, stream, position>>
  BY DEF Reconciled, EventLoop, instanceVars, brokerVars
<1>2. PICK op \in {"on_manual_close", "on_mismatch"} :
        Transition("L", op, IF op = "on_manual_close" THEN BackToEntry(Loop.seen)
                                                      ELSE ToErrored(Loop.seen), Idle)
  BY DEF Reconciled, Loop
<1> DEFINE new == IF op = "on_manual_close" THEN BackToEntry(Loop.seen) ELSE ToErrored(Loop.seen)
<1>3. op \in Locked
  BY StepNames
<1>4. Loop.pc = op /\ Loop.seen = doc /\ doc \in Doc
  BY <1>2, <1>3, LoopLocked, LoopTyped
<1>5. ~ Unheard /\ (op = "on_manual_close" /\ doc.state # "ERRORED" => doc.qty = 0)
  BY <1>4 DEF Books, LoopFits, Asking
<1>6. /\ op = "on_manual_close" => new.qty = 0
      /\ op = "on_mismatch" => new.qty = doc.qty /\ new.state = "ERRORED"
  BY <1>4 DEF BackToEntry, Cleared, ToErrored, Doc
<1>7. doc.state \in From[op] => doc.state # "ERRORED"
  BY DEF From
<1> HIDE DEF new
<1>8. Transition("L", op, new, Idle)
  BY <1>2 DEF new
<1> QED
  BY <1>1, <1>3, <1>4, <1>5, <1>6, <1>7, <1>8, LoopRests
     DEF Handling, FillSteps, CancelSteps, Waiting

LEMMA LoopReads ==
    ASSUME Types, Books, Read("L")
    PROVE  Books'
<1> DEFINE next == [Loop EXCEPT !.read = TRUE, !.seen = doc]
<1>1. /\ EventLoop /\ GoTo("L", next) /\ Loop.pc \in Locked \cup Unlocked /\ ~ Loop.read
      /\ UNCHANGED <<doc, bot, alive, stopping, orders, stream, position>>
  BY Zenon DEF Read, EventLoop, Loop, instanceVars, brokerVars
<1>2. /\ Loop.pc \in Locked => lock[bot] = Free /\ lock' = [lock EXCEPT ![bot] = "L"]
      /\ Loop.pc \notin Locked => lock' = lock
  <2>1. BotOf("L") = bot
    BY ProcsAre DEF BotOf
  <2> QED
    BY <2>1 DEF Read, CanRead, Loop
<1>3. bot \in 1 .. MaxStarts /\ lock \in [1 .. MaxStarts -> Procs \cup {Free}]
  <2>1. bot > 0
    BY <1>1, NobodyStarts DEF Books, Ending
  <2> QED
    BY <2>1, TypesUnfolded, BotConstants
<1>4. /\ next.pc = Loop.pc /\ next.read /\ next.seen = doc /\ next.leg = Loop.leg
      /\ next.qty = Loop.qty /\ next.order = Loop.order /\ next.prior = Loop.prior
      /\ next.base = Loop.base /\ next.ev = Loop.ev
  BY LoopTyped DEF Coroutine
<1> HIDE DEF next
<1>5. Loop' = next
  BY <1>1, LoopFrame
<1>6. Newest' = Newest /\ (Unheard' <=> Unheard)
  BY <1>1, <1>4, <1>5 DEF Newest, Unheard
<1>7. LeftAlone' <=> LeftAlone
  BY <1>1, LoopAlone
<1>8. Reported'
  BY <1>1, <1>4, <1>5, <1>6 DEF Books, Reported, Ends, Over, Streamed, Says, InHand
<1>9. Accounts'
  <2>1. Balanced => Balanced'
    BY <1>1, <1>6, <1>7, BooksBalance
  <2>2. Stuck => Stuck'
    BY <1>1, <1>4, <1>5, <1>7 DEF Stuck
  <2> QED
    BY <2>1, <2>2 DEF Books, Accounts
<1>10. Fits(doc)' /\ Fits(doc)
  BY <1>1, <1>6 DEF Books, Fits
<1>11. ReadFits'
  <2>1. Loop.pc \in Locked => lock'[bot] = "L" /\ bot > 0
    <3>1. [lock EXCEPT ![bot] = "L"][bot] = "L" /\ bot > 0
      BY <1>3
    <3> QED
      BY <1>2, <3>1
  <2> QED
    BY <1>1, <1>4, <1>5, <1>10, <2>1 DEF ReadFits, Fits
<1>12. LoopFits'
  <2>1. Starting'
    BY <1>1, <1>4, <1>5, <1>6 DEF Books, LoopFits, Starting, Bound
  <2>2. Sending'
    BY <1>1, <1>4, <1>5, <1>6 DEF Books, LoopFits, Sending, Bound
  <2>3. AtWork' /\ Retrying' /\ Telling'
    BY <1>1, <1>4, <1>5, <1>6 DEF Books, LoopFits, AtWork, Retrying, Telling
  <2>4. Applying'
    BY <1>1, <1>4, <1>5, <1>6, <1>7 DEF Books, LoopFits, Applying
  <2>5. Asking'
    <3>1. Loop.pc # "reduce"
      BY <1>1, StepNames DEF Unlocked
    <3> QED
      BY <1>1, <1>4, <1>5, <1>6, <1>7, <3>1 DEF Books, LoopFits, Asking
  <2> QED
    BY <2>1, <2>2, <2>3, <2>4, <2>5 DEF LoopFits
<1>13. SupervisorFits'
  <2>1. Loop.pc \in Locked => lock[bot] # "S"
    BY <1>2 DEF Free
  <2> QED
    BY <1>1, <1>2, <1>4, <1>7, <2>1, SupervisorUndisturbed
<1>14. stopping' => doc'.state = "OFF" /\ ~ Unheard' /\ next.pc \in {"apply", "idle"}
  BY <1>1, <1>4, <1>6 DEF Books, Ending
<1> QED
  BY <1>1, <1>8, <1>9, <1>10, <1>11, <1>12, <1>13, <1>14, LoopCloses

(* The bot is parked: the account has something to sell, at worst.         *)
LEMMA NeverShort ==
    ASSUME Types, Books, LeftAlone
    PROVE  position >= 0
<1>1. CASE Stuck
  BY <1>1 DEF Stuck
<1>2. CASE Balanced
  <2>1. doc.qty \in Nat /\ position \in Int
    BY LoopTyped, TypesUnfolded DEF Doc
  <2>2. CASE ~ Unheard
    BY <1>2, <2>1, <2>2 DEF Balanced, Expected
  <2>3. CASE Unheard
    <3>1. orders # <<>> /\ Newest.filled \in Nat /\ Newest.size \in Nat
      BY <2>3, NewestTyped DEF Unheard, Order
    <3>2. Newest.filled <= Newest.size
      BY <3>1, NewestTyped DEF Books, Reported, Ends, Newest
    <3>3. Newest.leg = "entry" => position = Newest.filled
      BY <1>2, <2>3 DEF Balanced, Expected
    <3>4. Newest.leg # "entry" => position = doc.qty - Newest.filled /\ Newest.size <= doc.qty
      <4>1. Newest.leg \in {"entry", "exit"}
        BY <3>1, NewestTyped DEF Order, Legs
      <4> QED
        BY <1>2, <2>3, <4>1 DEF Balanced, Expected
    <3> QED
      BY <2>1, <3>1, <3>2, <3>3, <3>4
  <2> QED
    BY <2>2, <2>3
<1> QED
  BY <1>1, <1>2 DEF Books, Accounts

LEMMA TakeUpdateBooks ==
    ASSUME Types, Books, TakeUpdate
    PROVE  Books'
<1> DEFINE e == Head(stream)
           step == StepFor(e, doc.state)
           leg == IF LegOf(doc.state) = "exit" THEN "exit" ELSE "entry"
           took == [Idle EXCEPT !.pc = step, !.ev = e, !.leg = leg]
           next == IF step = "idle" THEN Idle ELSE took
<1>1. /\ Looping /\ EventLoop /\ stream # <<>> /\ stream' = Tail(stream) /\ GoTo("L", next)
      /\ UNCHANGED <<doc, lock, bot, alive, stopping, orders, position>>
  BY Zenon DEF TakeUpdate, EventLoop, instanceVars, brokerVars
<1>2. Loop.pc = "idle" /\ ~ stopping
  BY <1>1, IdleLoop
<1>3. /\ stream \in Seq(Event) /\ Len(stream) \in Nat /\ Len(stream) > 0 /\ e = stream[1]
      /\ e \in Event
  BY <1>1, TypesUnfolded
<1>4. /\ Len(stream') = Len(stream) - 1
      /\ \A j \in 1 .. Len(stream') : j + 1 \in 1 .. Len(stream) /\ stream'[j] = stream[j + 1]
  BY <1>1, <1>3
<1>5. stream' = <<>> <=> 1 = Len(stream)
  BY <1>1, <1>3, <1>4
<1>6. Says(e, stream' = <<>>)
  <2>1. 1 \in 1 .. Len(stream)
    BY <1>3
  <2>2. Says(stream[1], 1 = Len(stream))
    BY <2>1 DEF Books, Reported, Streamed
  <2> HIDE DEF e
  <2> QED
    BY <1>3, <1>5, <2>2 DEF Says
<1>7. /\ Unheard /\ orders # <<>> /\ Newest.status \in {"open", "closed"}
      /\ doc.state \in {PlacedFor(Newest.leg), "ERRORED"}
  BY <1>1, EmptyStream DEF Books, Unheard, Fits, Reported, Streamed
<1>8. Newest.status = "closed" /\ Newest.leg \in {"entry", "exit"}
  BY <1>2, <1>7, NewestTyped DEF Books, LoopFits, AtWork, Order, Legs, Waiting
<1>9. doc.state # "ERRORED" => leg = Newest.leg
  BY <1>7, <1>8 DEF LegOf, PlacedFor, From
<1>10. /\ doc.state # "ERRORED" /\ e.filled > 0 =>
             step = IF leg = "entry" THEN "on_entry_filled" ELSE "on_exit_filled"
       /\ doc.state # "ERRORED" /\ ~ (e.filled > 0) =>
             step = IF leg = "entry" THEN "on_entry_cancelled" ELSE "on_exit_cancelled"
       /\ doc.state = "ERRORED" => step = IF e.filled > 0 THEN "idle" ELSE "touch"
  BY <1>7, <1>8 DEF StepFor, FillStep, CancelStep, LegOf, PlacedFor, From
<1>11. leg \in {"entry", "exit"}
  OBVIOUS
<1>12. took.pc = step /\ took.ev = e /\ took.leg = leg /\ ~ took.read
  BY DEF Idle
<1> HIDE DEF e, step, leg, took
<1>13. next.pc = step /\ ~ next.read /\ (step # "idle" => next.ev = e /\ next.leg = leg)
  BY <1>12, IdleFields
<1> HIDE DEF next
<1>14. Loop' = next
  BY <1>1, LoopFrame
<1>15. Newest' = Newest
  BY <1>1 DEF Newest
<1>16. e.filled \in Nat /\ (~ (e.filled > 0) => e.filled = 0)
  BY <1>3 DEF Event
<1>17. Reported'
  <2>1. Ends'
    BY <1>1 DEF Books, Reported, Ends, Over
  <2>2. Streamed'
    <3>1. \A j \in 1 .. Len(stream') : Says(stream'[j], j = Len(stream'))
      <4> SUFFICES ASSUME NEW j \in 1 .. Len(stream') PROVE Says(stream'[j], j = Len(stream'))
        OBVIOUS
      <4>1. Says(stream[j + 1], j + 1 = Len(stream))
        BY <1>4 DEF Books, Reported, Streamed
      <4>2. j + 1 = Len(stream) <=> j = Len(stream')
        BY <1>3, <1>4
      <4> QED
        BY <1>4, <4>1, <4>2 DEF Says
    <3> QED
      BY <1>1, <1>7, <1>15, <3>1 DEF Streamed, Says
  <2>3. InHand'
    <3>1. next.pc \in Handling => Says(next.ev, stream' = <<>>)
      BY <1>6, <1>13 DEF Handling, FillSteps, CancelSteps
    <3>2. next.pc \in FillSteps => next.ev.filled > 0
      BY <1>10, <1>13 DEF FillSteps
    <3>3. next.pc \in CancelSteps => next.ev.filled = 0
      BY <1>10, <1>13, <1>16 DEF CancelSteps
    <3> QED
      BY <1>1, <1>7, <1>8, <1>14, <1>15, <3>1, <3>2, <3>3 DEF InHand, Says
  <2> QED
    BY <2>1, <2>2, <2>3 DEF Reported
<1>18. doc.state # "ERRORED" => next.pc \in Handling /\ Unheard'
  BY <1>1, <1>7, <1>10, <1>13, <1>14, <1>15 DEF Unheard, Handling, FillSteps, CancelSteps
<1>19. LeftAlone' <=> LeftAlone
  BY <1>1, LoopAlone
<1>20. Accounts'
  <2>1. CASE doc.state # "ERRORED"
    <3>1. Balanced
      BY <2>1 DEF Books, Accounts, Stuck
    <3> QED
      BY <1>1, <1>7, <1>15, <1>18, <1>19, <2>1, <3>1, BooksBalance DEF Accounts
  <2>2. CASE doc.state = "ERRORED"
    <3>1. LeftAlone => position >= 0
      BY NeverShort
    <3>2. next.pc \in {"idle", "touch"}
      BY <1>10, <1>13, <2>2
    <3> QED
      BY <1>1, <1>13, <1>14, <1>19, <2>2, <3>1, <3>2 DEF Accounts, Stuck
  <2> QED
    BY <2>1, <2>2
<1>21. Fits(doc)'
  BY <1>1, <1>7, <1>15 DEF Books, Fits
<1>22. ReadFits'
  BY <1>13, <1>14 DEF ReadFits
<1>23. LoopFits'
  <2>1. Telling'
    <3>1. next.pc = "touch" => ~ Unheard'
      <4> SUFFICES ASSUME next.pc = "touch" PROVE ~ Unheard'
        OBVIOUS
      <4>1. e.filled = 0
        BY <1>10, <1>13, <1>16
      <4>2. Newest.ended /\ stream' = <<>>
        BY <1>6, <4>1 DEF Says
      <4> QED
        BY <1>14, <1>15, <4>2 DEF Unheard, Handling, FillSteps, CancelSteps
    <3>2. next.pc \in Handling => doc.state # "ERRORED"
      BY <1>10, <1>13 DEF Handling, FillSteps, CancelSteps
    <3> QED
      BY <1>9, <1>10, <1>11, <1>13, <1>14, <1>15, <3>1, <3>2
         DEF Telling, Handling, FillSteps, CancelSteps
  <2>2. next.pc \in {"idle", "touch"} \cup Handling
    BY <1>10, <1>13 DEF Handling, FillSteps, CancelSteps
  <2>3. Newest.status = "closed"
    BY <1>8
  <2> QED
    BY <1>14, <1>15, <2>1, <2>2, <2>3
       DEF LoopFits, Starting, Sending, AtWork, Retrying, Applying, Asking, Handling,
           FillSteps, CancelSteps, Waiting, Early
<1>24. SupervisorFits'
  <2>1. doc.state # "AWAITING_EXIT_TRIGGER"
    BY <1>7, <1>8 DEF PlacedFor
  <2> QED
    BY <1>1, <1>19, <2>1, SupervisorUndisturbed
<1> QED
  BY <1>1, <1>2, <1>17, <1>20, <1>21, <1>22, <1>23, <1>24, LoopCloses

(* The loop's last write for an event, from what it read outside the lock. *)
LEMMA WrittenBooks ==
    ASSUME Types, Books, EventLoop, NEW op \in {"apply", "touch"}, NEW new,
           PlainWrite("L", op, new, Idle),
           new = IF op = "apply" THEN WithFill(Loop.seen, Loop.leg, Loop.ev) ELSE Loop.seen,
           UNCHANGED <<bot, alive, stopping, orders, stream, position>>
    PROVE  Books'
<1>1. /\ Loop.pc = op /\ Loop.read /\ GoTo("L", Idle) /\ lock' = lock /\ doc' = new
  BY DEF PlainWrite, Loop
<1>2. /\ Fits(Loop.seen) /\ doc.state \in {Loop.seen.state, "ERRORED"}
      /\ Loop.seen.qty = doc.qty
  BY <1>1 DEF Books, ReadFits
<1>3. Loop' = Idle
  BY <1>1, LoopFrame
<1>4. Newest' = Newest /\ (Unheard' <=> Unheard)
  BY <1>1, <1>3, IdleFields, OrdersRest DEF Books, Handling, FillSteps, CancelSteps
<1>5. LeftAlone' <=> LeftAlone
  BY LoopAlone
<1>6. CASE op = "apply" /\ Loop.leg = "entry"
  <2>1. new.qty = Loop.ev.filled /\ new.state = Loop.seen.state
    BY <1>6, LoopTyped DEF WithFill, Doc
  <2>2. /\ ~ Unheard /\ position <= Loop.ev.filled
        /\ LeftAlone => position = Loop.ev.filled
        /\ doc.state # "ERRORED" =>
              doc.qty = Loop.ev.filled /\ doc.state = "AWAITING_EXIT_TRIGGER"
        /\ Loop.seen.state \in {"AWAITING_EXIT_TRIGGER", "ERRORED"}
    BY <1>1, <1>6 DEF Books, LoopFits, Applying
  <2>3. Accounts'
    BY <1>1, <1>4, <1>5, <2>1, <2>2 DEF Accounts, Balanced, Expected
  <2>4. Fits(doc)'
    BY <1>1, <1>4, <2>1, <2>2 DEF Fits
  <2>5. SupervisorFits'
    BY <1>1, <1>2, <1>5, <1>6, <2>1, <2>2, SupervisorUndisturbed DEF Reducible
  <2>6. ~ stopping
    BY <2>2 DEF Books, Ending
  <2> QED
    BY <1>1, <1>3, <1>4, <2>3, <2>4, <2>5, <2>6, IdleFields, RestFits, LoopStep
       DEF Handling, FillSteps, CancelSteps, Waiting
<1>7. CASE ~ (op = "apply" /\ Loop.leg = "entry")
  <2>1. new = Loop.seen
    BY <1>7 DEF WithFill
  <2>2. Accounts'
    <3>1. Balanced => Balanced'
      BY <1>1, <1>2, <1>4, <1>5, <2>1, BooksBalance
    <3>2. Stuck => Stuck'
      BY <1>1, <1>3, <1>5, <2>1, IdleFields DEF Stuck
    <3> QED
      BY <3>1, <3>2 DEF Books, Accounts
  <2>3. Fits(doc)'
    BY <1>1, <1>2, <1>4, <2>1 DEF Fits
  <2>4. SupervisorFits'
    BY <1>1, <1>2, <1>5, <2>1, SupervisorUndisturbed DEF Reducible
  <2>5. stopping => doc'.state = "OFF" /\ ~ Unheard'
    BY <1>1, <1>2, <1>4, <2>1 DEF Books, Ending
  <2> QED
    BY <1>1, <1>3, <1>4, <2>2, <2>3, <2>4, <2>5, IdleFields, RestFits, LoopStep
       DEF Handling, FillSteps, CancelSteps, Waiting
<1> QED
  BY <1>6, <1>7

LEMMA ApplyFillBooks ==
    ASSUME Types, Books, ApplyFill \/ Touch("L")
    PROVE  Books'
<1>1. EventLoop /\ UNCHANGED <<bot, alive, stopping, orders, stream, position>>
  BY DEF ApplyFill, Touch, EventLoop, instanceVars, brokerVars
<1>2. CASE ApplyFill
  <2>1. PlainWrite("L", "apply", WithFill(Loop.seen, Loop.leg, Loop.ev), Idle)
    BY <1>2, Zenon DEF ApplyFill, Loop
  <2> QED
    BY <1>1, <2>1, WrittenBooks
<1>3. CASE Touch("L")
  <2>1. PlainWrite("L", "touch", Loop.seen, Idle)
    BY <1>3, Zenon DEF Touch, Loop
  <2>2. "touch" # "apply"
    OBVIOUS
  <2> QED
    BY <1>1, <2>1, <2>2, WrittenBooks
<1> QED
  BY <1>2, <1>3

(* An on_* method with an event in hand: where the document has the order  *)
(* at the engine, it balances; in ERRORED, it changes nothing.             *)
LEMMA InHandFacts ==
    ASSUME Types, Books, NEW op \in Handling, NEW new, NEW next, Transition("L", op, new, next)
    PROVE  /\ Loop.pc = op /\ Loop.seen = doc /\ lock[bot] # "S" /\ GoTo("L", next)
           /\ orders # <<>> /\ Newest.status = "closed" /\ Newest.leg = Loop.leg
           /\ Unheard /\ Balanced /\ ~ stopping /\ (LeftAlone => position >= 0)
           /\ Says(Loop.ev, stream = <<>>)
           /\ doc.state \in {PlacedFor(Loop.leg), "ERRORED"}
           /\ Allowed("L") <=> doc.state # "ERRORED"
           /\ doc.state # "ERRORED" => doc' = new
           /\ doc.state = "ERRORED" => doc' = doc
<1>1. op \in Locked
  BY StepNames DEF Handling, FillSteps, CancelSteps
<1>2. /\ Loop.pc = op /\ Loop.seen = doc /\ lock[bot] # "S" /\ GoTo("L", next)
      /\ doc.state \in From[op] => doc' = new
      /\ doc.state \notin From[op] => doc' = doc
      /\ Allowed("L") <=> doc.state \in From[op]
  BY <1>1, LoopLocked
<1>3. /\ orders # <<>> /\ Newest.status = "closed" /\ Newest.leg = Loop.leg
      /\ Says(Loop.ev, stream = <<>>)
  BY <1>2 DEF Books, Reported, InHand, LoopFits, Telling
<1>4. Unheard
  BY <1>2, <1>3 DEF Unheard
<1>5. Balanced /\ ~ stopping
  BY <1>2, BusyIsBalanced DEF Handling, FillSteps, CancelSteps
<1>6. doc.state \in {PlacedFor(Loop.leg), "ERRORED"}
  BY <1>3, <1>4 DEF Books, Fits
<1>7. /\ op \in {"on_entry_filled", "on_entry_cancelled"} => Loop.leg = "entry"
      /\ op \in {"on_exit_filled", "on_exit_cancelled"} => Loop.leg = "exit"
  BY <1>2 DEF Books, LoopFits, Telling
<1>8. doc.state \in From[op] <=> doc.state # "ERRORED"
  BY <1>6, <1>7 DEF From, PlacedFor, Handling, FillSteps, CancelSteps
<1> QED
  BY <1>2, <1>3, <1>4, <1>5, <1>6, <1>8, NeverShort

(* With the event out of its hands, the loop has heard of the order's end, *)
(* if that was it.                                                         *)
LEMMA OutOfHand ==
    ASSUME Types, Books, Loop.pc \in Handling, NEW next, GoTo("L", next), next.pc \notin Handling,
           UNCHANGED <<orders, stream>>
    PROVE  Newest' = Newest /\ (Unheard' <=> ~ Loop.ev.terminal)
<1>1. Loop' = next
  BY LoopFrame
<1>2. Newest' = Newest
  BY DEF Newest
<1>3. orders # <<>> /\ Newest.status = "closed" /\ Says(Loop.ev, stream = <<>>)
  BY DEF Books, Reported, InHand
<1> QED
  BY <1>1, <1>2, <1>3 DEF Unheard, Says

LEMMA HandledBooks ==
    ASSUME Types, Books, EventLoop, NEW op \in Handling, NEW new, NEW next,
           Transition("L", op, new, next),
           UNCHANGED <<bot, alive, orders, stream, position>>,
           next.pc \in {"idle", "touch", "apply", "retry"}, ~ next.read,
           next.pc # "idle" => Loop.ev.terminal /\ next.leg = Loop.leg /\ next.ev = Loop.ev,
           doc.state = "ERRORED" => next.pc # "retry" /\ stopping' = stopping,
           doc.state # "ERRORED" => Balanced' /\ Fits(doc)' /\ Retrying' /\ Applying',
           doc.state # "ERRORED" /\ stopping' => doc'.state = "OFF" /\ next.pc = "apply"
    PROVE  Books'
<1>1. /\ Loop.pc = op /\ lock[bot] # "S" /\ GoTo("L", next)
      /\ orders # <<>> /\ Newest.status = "closed" /\ Newest.leg = Loop.leg
      /\ Unheard /\ Balanced /\ ~ stopping /\ (LeftAlone => position >= 0)
      /\ Says(Loop.ev, stream = <<>>)
      /\ doc.state = "ERRORED" => doc' = doc
  BY InHandFacts
<1>2. next.pc \notin Handling
  BY DEF Handling, FillSteps, CancelSteps
<1>3. Newest' = Newest /\ (Unheard' <=> ~ Loop.ev.terminal)
  BY <1>1, <1>2, OutOfHand
<1>4. Loop' = next
  BY <1>1, LoopFrame
<1>5. LeftAlone' <=> LeftAlone
  BY LoopAlone
<1>6. Accounts'
  BY <1>1, <1>4, <1>5 DEF Accounts, Stuck
<1>7. Fits(doc)'
  BY <1>1, <1>3 DEF Fits, Books
<1>8. Applying'
  <2>1. CASE doc.state = "ERRORED" /\ next.pc = "apply" /\ next.leg = "entry"
    <3>1. position <= Loop.ev.filled /\ (LeftAlone => position = Loop.ev.filled)
      BY <1>1, <2>1 DEF Balanced, Expected, Says
    <3> QED
      BY <1>1, <1>3, <1>4, <1>5, <2>1, <3>1 DEF Applying
  <2>2. CASE ~ (next.pc = "apply" /\ next.leg = "entry")
    BY <1>4, <2>2 DEF Applying
  <2> QED
    BY <2>1, <2>2
<1>9. Retrying'
  BY <1>4 DEF Retrying
<1>10. LoopFits'
  BY <1>1, <1>3, <1>4, <1>8, <1>9
     DEF LoopFits, Starting, Sending, AtWork, Telling, Asking, Handling, FillSteps, CancelSteps,
         Waiting, Early
<1>11. SupervisorFits'
  BY <1>1, <1>5, SupervisorUndisturbed
<1>12. stopping' => doc'.state = "OFF" /\ ~ Unheard' /\ next.pc \in {"apply", "idle"}
  BY <1>1, <1>3
<1> QED
  BY <1>1, <1>2, <1>6, <1>7, <1>10, <1>11, <1>12, LoopStep

LEMMA CancelledBooks ==
    ASSUME Types, Books, Cancelled
    PROVE  Books'
<1> DEFINE next == To("L", "touch")
<1>1. EventLoop /\ UNCHANGED <<bot, alive, stopping, orders, stream, position>>
  BY DEF Cancelled, EventLoop, instanceVars, brokerVars
<1>2. PICK op \in CancelSteps :
        Transition("L", op, IF op = "on_entry_cancelled" THEN BackToEntry(Loop.seen)
                                                         ELSE BackToExit(Loop.seen), next)
  BY DEF Cancelled, CancelSteps, Loop
<1> DEFINE new == IF op = "on_entry_cancelled" THEN BackToEntry(Loop.seen)
                                               ELSE BackToExit(Loop.seen)
<1>3. /\ next.pc = "touch" /\ ~ next.read /\ next.leg = Loop.leg /\ next.ev = Loop.ev
  BY LoopTo, PlainSteps
<1> HIDE DEF next
<1>4. op \in Handling
  BY DEF Handling
<1>5. /\ Loop.pc = op /\ Loop.seen = doc /\ GoTo("L", next)
      /\ orders # <<>> /\ Newest.leg = Loop.leg
      /\ Unheard /\ Balanced /\ ~ stopping
      /\ Says(Loop.ev, stream = <<>>)
      /\ doc.state \in {PlacedFor(Loop.leg), "ERRORED"}
      /\ doc.state # "ERRORED" => doc' = new
  BY <1>2, <1>4, InHandFacts
<1>6. Loop' = next
  BY <1>5, LoopFrame
<1>7. Loop.ev.filled = 0 /\ Loop.ev.terminal /\ Newest.filled = 0
  BY <1>5 DEF Books, Reported, InHand, Says
<1>8. Newest' = Newest /\ ~ Unheard'
  BY <1>1, <1>3, <1>5, <1>7, OutOfHand DEF Handling, FillSteps, CancelSteps
<1>9. /\ op = "on_entry_cancelled" => Loop.leg = "entry"
      /\ op = "on_exit_cancelled" => Loop.leg = "exit"
  BY <1>5 DEF Books, LoopFits, Telling
<1>10. /\ op = "on_entry_cancelled" => new.qty = 0
       /\ op # "on_entry_cancelled" => new.qty = doc.qty /\ new.state = "AWAITING_EXIT_TRIGGER"
  BY <1>5, LoopTyped DEF BackToEntry, Cleared, BackToExit, Doc
<1>11. LeftAlone' <=> LeftAlone
  BY <1>1, LoopAlone
<1>12. op = "on_entry_cancelled" \/ op = "on_exit_cancelled"
  BY DEF CancelSteps
<1> HIDE DEF new
<1>13. Balanced' \/ doc.state = "ERRORED"
  <2>1. doc.qty \in Int /\ doc.qty - 0 = doc.qty
    BY LoopTyped DEF Doc
  <2>2. position <= IF Loop.leg = "entry" THEN 0 ELSE doc.qty
    BY <1>5, <1>7, <2>1 DEF Balanced, Expected
  <2>3. LeftAlone => position = IF Loop.leg = "entry" THEN 0 ELSE doc.qty
    BY <1>5, <1>7, <2>1 DEF Balanced, Expected
  <2> QED
    BY <1>1, <1>5, <1>8, <1>9, <1>10, <1>11, <1>12, <2>2, <2>3 DEF Balanced, Expected
<1>14. doc.state # "ERRORED" => Fits(doc)' /\ Retrying' /\ Applying'
  BY <1>3, <1>5, <1>6, <1>8, <1>10 DEF Fits, Retrying, Applying
<1>15. Transition("L", op, new, next)
  BY <1>2 DEF new
<1> QED
  BY <1>1, <1>3, <1>4, <1>5, <1>7, <1>13, <1>14, <1>15, HandledBooks

LEMMA EntryFilledBooks ==
    ASSUME Types, Books, EntryFilled
    PROVE  Books'
<1> DEFINE e == Loop.ev
           new == OnEntryFilled(Loop.seen, e.filled, e.terminal)
           next == IF e.terminal THEN To("L", "apply") ELSE Idle
<1>1. /\ Transition("L", "on_entry_filled", new, next)
      /\ EventLoop /\ UNCHANGED <<bot, alive, stopping, orders, stream, position>>
  BY DEF EntryFilled, EventLoop, Loop, instanceVars, brokerVars
<1>2. "on_entry_filled" \in Handling
  BY DEF Handling, FillSteps
<1>3. /\ e.terminal => next.pc = "apply" /\ ~ next.read /\ next.leg = Loop.leg /\ next.ev = e
      /\ ~ e.terminal => next.pc = "idle" /\ ~ next.read
  BY LoopTo, PlainSteps, IdleFields
<1>4. /\ e.terminal => new.qty = e.filled /\ new.state = "AWAITING_EXIT_TRIGGER"
      /\ ~ e.terminal => new.state = Loop.seen.state
  BY LoopTyped DEF OnEntryFilled, Doc
<1> HIDE DEF new, next, e
<1>5. /\ Loop.pc = "on_entry_filled" /\ Loop.seen = doc /\ GoTo("L", next)
      /\ orders # <<>> /\ Newest.leg = Loop.leg
      /\ Unheard /\ Balanced /\ ~ stopping
      /\ Says(Loop.ev, stream = <<>>)
      /\ doc.state \in {PlacedFor(Loop.leg), "ERRORED"}
      /\ doc.state # "ERRORED" => doc' = new
  BY <1>1, <1>2, InHandFacts
<1>6. Loop' = next
  BY <1>5, LoopFrame
<1>7. Loop.leg = "entry" /\ (e.terminal => e.filled = Newest.filled)
  BY <1>5 DEF Books, LoopFits, Telling, Says, e
<1>8. Newest' = Newest /\ (Unheard' <=> ~ e.terminal)
  BY <1>1, <1>2, <1>3, <1>5, OutOfHand DEF Handling, FillSteps, CancelSteps, e
<1>9. LeftAlone' <=> LeftAlone
  BY <1>1, LoopAlone
<1>10. position <= Newest.filled /\ (LeftAlone => position = Newest.filled)
  BY <1>5, <1>7 DEF Balanced, Expected
<1>11. doc.state # "ERRORED" => Balanced'
  BY <1>1, <1>4, <1>5, <1>7, <1>8, <1>9, <1>10 DEF Balanced, Expected
<1>12. doc.state # "ERRORED" => Fits(doc)' /\ Retrying' /\ Applying'
  <2>1. doc.state # "ERRORED" => Fits(doc)'
    BY <1>4, <1>5, <1>7, <1>8 DEF Fits, PlacedFor
  <2>2. doc.state # "ERRORED" => Retrying' /\ Applying'
    BY <1>1, <1>3, <1>4, <1>5, <1>6, <1>7, <1>8, <1>9, <1>10 DEF Retrying, Applying
  <2> QED
    BY <2>1, <2>2
<1>13. next.pc # "idle" => Loop.ev.terminal /\ next.leg = Loop.leg /\ next.ev = Loop.ev
  BY <1>3 DEF e
<1> QED
  BY <1>1, <1>2, <1>3, <1>5, <1>11, <1>12, <1>13, HandledBooks

(* What an exit that has ended leaves of the position.                     *)
LEMMA ExitLeaves ==
    ASSUME NEW d \in Doc, NEW n \in Nat, n <= d.qty, NEW stops \in BOOLEAN
    PROVE  /\ Left(d, n) = d.qty - n
           /\ OnExitFilled(d, n, FALSE, stops) = d
           /\ OnExitFilled(d, n, TRUE, stops).qty = d.qty - n
           /\ Flat(d, n, TRUE) => d.qty - n = 0
           /\ OnExitFilled(d, n, TRUE, stops).state =
                 IF Flat(d, n, TRUE) THEN IF stops THEN "OFF" ELSE "AWAITING_ENTRY_TRIGGER"
                 ELSE IF Retries(d, n, TRUE) THEN d.state ELSE "ERRORED"
           /\ Retries(d, n, TRUE) => ~ Flat(d, n, TRUE)
<1>1. Left(d, n) = d.qty - n /\ d.qty - n \in Nat
  BY DEF Left, Doc
<1>2. OnExitFilled(d, n, FALSE, stops) = d
  BY DEF OnExitFilled, Flat, GivesUp, Retries
<1>3. CASE Flat(d, n, TRUE)
  <2> DEFINE r == [Cleared(d) EXCEPT !.exit_retries = 0,
                                     !.state = IF stops THEN "OFF" ELSE "AWAITING_ENTRY_TRIGGER"]
  <2>1. OnExitFilled(d, n, TRUE, stops) = r
    BY <1>3 DEF OnExitFilled, Flat, GivesUp, Retries
  <2>2. r.qty = 0 /\ r.state = IF stops THEN "OFF" ELSE "AWAITING_ENTRY_TRIGGER"
    BY DEF Cleared, Doc
  <2> HIDE DEF r
  <2>3. Left(d, n) = 0 /\ ~ Retries(d, n, TRUE)
    BY <1>1, <1>3 DEF Flat, Retries
  <2> QED
    BY <1>1, <1>2, <1>3, <2>1, <2>2, <2>3
<1>4. CASE ~ Flat(d, n, TRUE) /\ Exhausted(d)
  <2> DEFINE r == [d EXCEPT !.state = "ERRORED", !.qty = Left(d, n)]
  <2>1. GivesUp(d, n, TRUE) /\ ~ Retries(d, n, TRUE)
    BY <1>1, <1>4 DEF Flat, GivesUp, Retries
  <2>2. OnExitFilled(d, n, TRUE, stops) = r
    BY <1>4, <2>1 DEF OnExitFilled
  <2>3. r.qty = Left(d, n) /\ r.state = "ERRORED"
    BY DEF Doc
  <2> HIDE DEF r
  <2> QED
    BY <1>1, <1>2, <1>4, <2>1, <2>2, <2>3
<1>5. CASE ~ Flat(d, n, TRUE) /\ ~ Exhausted(d)
  <2> DEFINE r == [d EXCEPT !.qty = Left(d, n), !.order_qty = Left(d, n), !.exit_retries = @ + 1]
  <2>1. Retries(d, n, TRUE) /\ ~ GivesUp(d, n, TRUE)
    BY <1>1, <1>5 DEF Flat, GivesUp, Retries
  <2>2. OnExitFilled(d, n, TRUE, stops) = r
    BY <1>5, <2>1 DEF OnExitFilled
  <2>3. r.qty = Left(d, n) /\ r.state = d.state
    BY DEF Doc
  <2> HIDE DEF r
  <2> QED
    BY <1>1, <1>2, <1>5, <2>1, <2>2, <2>3
<1> QED
  BY <1>3, <1>4, <1>5

LEMMA ExitFilledBooks ==
    ASSUME Types, Books, ExitFilled
    PROVE  Books'
<1> DEFINE e == Loop.ev
           d == Loop.seen
           new == OnExitFilled(d, e.filled, e.terminal, setup.stops)
           again == Allowed("L") /\ Retries(d, e.filled, e.terminal)
           retry == [To("L", "retry") EXCEPT !.qty = Left(d, e.filled)]
           next == IF ~ e.terminal THEN Idle ELSE IF again THEN retry ELSE To("L", "apply")
<1>1. /\ Transition("L", "on_exit_filled", new, next)
      /\ stopping' = (stopping \/ (Allowed("L") /\ Flat(d, e.filled, e.terminal) /\ setup.stops))
      /\ EventLoop /\ UNCHANGED <<bot, alive, orders, stream, position>>
  BY DEF ExitFilled, EventLoop, Loop, brokerVars
<1>2. "on_exit_filled" \in Handling
  BY DEF Handling, FillSteps
<1>3. /\ retry.pc = "retry" /\ ~ retry.read /\ retry.leg = Loop.leg /\ retry.ev = e
      /\ retry.qty = Left(d, e.filled)
  <2> DEFINE to == To("L", "retry")
  <2>1. to \in Coroutine /\ to.pc = "retry" /\ ~ to.read /\ to.leg = Loop.leg /\ to.ev = e
    BY LoopTo, StepNames
  <2>2. retry = [to EXCEPT !.qty = Left(d, e.filled)]
    OBVIOUS
  <2> HIDE DEF to, retry
  <2> QED
    BY <2>1, <2>2 DEF Coroutine
<1>4. LET apply == To("L", "apply") IN
      apply.pc = "apply" /\ ~ apply.read /\ apply.leg = Loop.leg /\ apply.ev = e
  BY LoopTo, PlainSteps
<1>5. /\ e.terminal /\ again => next = retry
      /\ e.terminal /\ ~ again => next = To("L", "apply")
      /\ ~ e.terminal => next = Idle
  OBVIOUS
<1> HIDE DEF retry, next
<1>6. /\ Loop.pc = "on_exit_filled" /\ d = doc /\ GoTo("L", next)
      /\ orders # <<>> /\ Newest.leg = Loop.leg
      /\ Unheard /\ Balanced /\ ~ stopping
      /\ Says(e, stream = <<>>)
      /\ doc.state \in {PlacedFor(Loop.leg), "ERRORED"}
      /\ Allowed("L") <=> doc.state # "ERRORED"
      /\ doc.state # "ERRORED" => doc' = new
  BY <1>1, <1>2, InHandFacts
<1>7. Loop' = next
  BY <1>6, LoopFrame
<1>8. Loop.leg = "exit" /\ (e.terminal => e.filled = Newest.filled)
  BY <1>6 DEF Books, LoopFits, Telling, Says
<1>9. /\ e.filled \in Nat /\ e.terminal \in BOOLEAN /\ setup.stops \in BOOLEAN /\ d \in Doc
      /\ d.qty \in Nat /\ e.filled <= d.qty
  <2>1. e \in Event /\ setup \in Setup /\ d \in Doc /\ doc \in Doc
    BY LoopTyped, CoroutineFields, TypesUnfolded
  <2>2. e.filled <= Newest.told /\ Newest.told <= Newest.filled /\ Newest.filled <= Newest.size
    BY <1>6, NewestTyped DEF Says, Books, Reported, Ends, Newest
  <2>3. Newest.size <= doc.qty
    BY <1>6, <1>8 DEF Balanced
  <2>4. Newest \in Order
    BY <1>6, NewestTyped
  <2>5. /\ e.filled \in Nat /\ Newest.told \in Nat /\ Newest.filled \in Nat /\ Newest.size \in Nat
        /\ doc.qty \in Nat
    BY <2>1, <2>4 DEF Event, Order, Doc
  <2>6. e.terminal \in BOOLEAN /\ setup.stops \in BOOLEAN
    BY <2>1 DEF Event, Setup
  <2> QED
    BY <1>6, <2>1, <2>2, <2>3, <2>5, <2>6
<1>10. /\ ~ e.terminal => new = doc
       /\ e.terminal =>
             /\ Left(d, e.filled) = doc.qty - e.filled /\ new.qty = doc.qty - e.filled
             /\ Flat(d, e.filled, e.terminal) => new.qty = 0
             /\ new.state = IF Flat(d, e.filled, e.terminal)
                            THEN IF setup.stops THEN "OFF" ELSE "AWAITING_ENTRY_TRIGGER"
                            ELSE IF Retries(d, e.filled, e.terminal) THEN doc.state ELSE "ERRORED"
             /\ Retries(d, e.filled, e.terminal) => ~ Flat(d, e.filled, e.terminal)
  <2>1. CASE e.terminal
    <3>1. e.terminal = TRUE
      BY <1>9, <2>1
    <3> QED
      BY <1>6, <1>9, <3>1, ExitLeaves
  <2>2. CASE ~ e.terminal
    <3>1. e.terminal = FALSE
      BY <1>9, <2>2
    <3>2. OnExitFilled(d, e.filled, FALSE, setup.stops) = d
      BY <1>9, ExitLeaves
    <3>3. new = doc
      BY <1>6, <3>1, <3>2
    <3> QED
      BY <2>2, <3>3
  <2> QED
    BY <2>1, <2>2
<1>11. ~ e.terminal => ~ Flat(d, e.filled, e.terminal)
  BY DEF Flat
<1> HIDE DEF new, d, e
<1>12. /\ next.pc \in {"idle", "apply", "retry"} /\ ~ next.read
       /\ next.pc # "idle" => e.terminal /\ next.leg = Loop.leg /\ next.ev = e
       /\ ~ e.terminal => next.pc = "idle"
  BY <1>3, <1>4, <1>5, IdleFields
<1>13. Newest' = Newest /\ (Unheard' <=> ~ e.terminal)
  BY <1>1, <1>2, <1>6, <1>12, OutOfHand DEF Handling, FillSteps, CancelSteps, e
<1>14. LeftAlone' <=> LeftAlone
  BY <1>1, LoopAlone
<1>15. position <= doc.qty - Newest.filled /\ (LeftAlone => position = doc.qty - Newest.filled)
  BY <1>6, <1>8 DEF Balanced, Expected
<1>16. doc.state # "ERRORED" => Balanced'
  BY <1>1, <1>6, <1>8, <1>10, <1>13, <1>14, <1>15 DEF Balanced, Expected
<1>17. doc.state # "ERRORED" => Fits(doc)'
  BY <1>6, <1>8, <1>10, <1>13 DEF Fits, PlacedFor
<1>18. doc.state # "ERRORED" => Retrying' /\ Applying'
  <2>1. next.pc = "retry" => /\ e.terminal /\ again /\ next = retry
    BY <1>3, <1>4, <1>5, IdleFields
  <2>2. next.pc \in {"retry", "apply"} => next.leg = "exit"
    BY <1>8, <1>12
  <2>3. doc.state # "ERRORED" => doc.state = "EXIT_ORDER_PLACED"
    BY <1>6, <1>8 DEF PlacedFor
  <2> QED
    BY <1>3, <1>6, <1>7, <1>10, <1>12, <1>13, <2>1, <2>2, <2>3 DEF Retrying, Applying
<1>19. doc.state = "ERRORED" => next.pc # "retry" /\ stopping' = stopping
  <2>1. doc.state = "ERRORED" => ~ Allowed("L")
    BY <1>6
  <2>2. ~ Allowed("L") => next.pc # "retry"
    BY <1>4, <1>5, IdleFields
  <2>3. ~ Allowed("L") => stopping' = stopping
    BY <1>1, TypesUnfolded
  <2> QED
    BY <2>1, <2>2, <2>3
<1>20. doc.state # "ERRORED" /\ stopping' => doc'.state = "OFF" /\ next.pc = "apply"
  <2>1. doc.state # "ERRORED" /\ stopping' => /\ Flat(d, e.filled, e.terminal) /\ setup.stops
                                              /\ e.terminal
    BY <1>1, <1>6, <1>11
  <2> QED
    BY <1>4, <1>5, <1>6, <1>10, <2>1
<1> QED
  BY <1>1, <1>2, <1>12, <1>16, <1>17, <1>18, <1>19, <1>20, HandledBooks DEF e

(* The instance is gone.                                                   *)
LEMMA LoopExitsBooks ==
    ASSUME Types, Books, LoopExits
    PROVE  Books'
<1>1. /\ alive /\ stopping /\ Loop.pc = "idle" /\ ~ alive' /\ ~ stopping' /\ bot' = bot
      /\ stream' = <<>> /\ EventLoop
      /\ proc' = [q \in Procs |-> IF q \in {"L", "S"} THEN Idle ELSE proc[q]]
      /\ UNCHANGED <<doc, orders, position, setup>>
  BY DEF LoopExits, Gone, EventLoop, Loop, brokerVars
<1>2. /\ Loop' = Idle /\ proc'["S"] = Idle
      /\ \A h \in Handlers : proc'[h] = proc[h] /\ proc[h].pc # "on_start"
  BY <1>1, ProcsAre, NobodyStarts DEF Loop
<1>3. doc.state = "OFF" /\ ~ Unheard
  BY <1>1 DEF Books, Ending
<1>4. stream = <<>>
  BY <1>3, EmptyStream DEF Books
<1>5. Reported' /\ Newest' = Newest /\ (Unheard' <=> Unheard)
  BY <1>1, <1>2, <1>4, IdleFields, OrdersRest DEF Books, Handling, FillSteps, CancelSteps
<1>6. Accounts'
  <2>1. Balanced
    BY <1>3 DEF Books, Accounts, Stuck
  <2>2. LeftAlone' <=> LeftAlone
    BY <1>1 DEF LeftAlone, Unattended
  <2> QED
    BY <1>1, <1>5, <2>1, <2>2, BooksBalance DEF Accounts
<1>7. Fits(doc)' /\ ReadFits'
  BY <1>1, <1>2, <1>5, IdleFields DEF Books, Fits, ReadFits
<1>8. LoopFits'
  BY <1>1, <1>2, <1>5, IdleFields, RestFits DEF Waiting
<1>9. SupervisorFits' /\ StartFits' /\ StopFits' /\ Ending'
  <2>1. LeftAlone' <=> LeftAlone
    BY <1>1 DEF LeftAlone, Unattended
  <2>2. StopFits'
    BY <1>1, <1>2, <2>1 DEF Books, StopFits
  <2> QED
    BY <1>1, <1>2, <1>3, <1>5, <2>2, IdleFields DEF SupervisorFits, StartFits, Ending
<1>10. NobodySold'
  BY <1>1 DEF Books, NobodySold, LeftAlone, Unattended
<1> QED
  BY <1>5, <1>6, <1>7, <1>8, <1>9, <1>10 DEF Books

LEMMA LoopBooks ==
    ASSUME Types, Books, setup.lost = 0, EventLoop
    PROVE  Books'
<1>1. CASE Decide \/ TakeUpdate \/ EntryFilled \/ ExitFilled
  BY <1>1, DecideBooks, TakeUpdateBooks, EntryFilledBooks, ExitFilledBooks
<1>2. CASE RetryDone \/ ApplyFill \/ Cancelled \/ Touch("L")
  BY <1>2, AnsweredBooks, ApplyFillBooks, CancelledBooks
<1>3. CASE Pushed \/ Pulled \/ Reduce \/ Reconciled \/ LoopExits
  BY <1>3, PushedBooks, PulledBooks, ReduceBooks, ReconciledBooks, LoopExitsBooks
<1>4. CASE Pipeline("L")
  BY <1>4, PreStateBooks, PlaceBooks, PersistBooks, PostBooks, AnsweredBooks, PatchBooks,
     RevertBooks DEF Pipeline
<1>5. CASE Read("L")
  BY <1>5, LoopReads
<1> QED
  BY <1>1, <1>2, <1>3, <1>4, <1>5 DEF EventLoop

-----------------------------------------------------------------------------
(* The steps that leave the loop alone.                                    *)

Undisturbed == Loop' = Loop /\ UNCHANGED <<bot, orders, stream, position, setup>>

LEMMA OthersBalance ==
    ASSUME Types, Books, Undisturbed
    PROVE  /\ Newest' = Newest /\ (Unheard' <=> Unheard) /\ (LeftAlone' <=> LeftAlone)
           /\ Reported' /\ NobodySold'
           /\ doc' = doc => Accounts' /\ Fits(doc)' /\ LoopFits'
<1>1. Newest' = Newest /\ (Unheard' <=> Unheard) /\ (LeftAlone' <=> LeftAlone)
  BY DEF Undisturbed, Newest, Unheard, LeftAlone, Unattended
<1>2. Reported' /\ NobodySold'
  BY <1>1 DEF Books, Undisturbed, Reported, Ends, Over, Streamed, Says, InHand, NobodySold
<1>3. ASSUME doc' = doc PROVE Accounts' /\ Fits(doc)' /\ LoopFits'
  <2>1. Balanced => Balanced'
    BY <1>1, <1>3, BooksBalance DEF Undisturbed
  <2>2. Stuck => Stuck'
    BY <1>1, <1>3 DEF Undisturbed, Stuck
  <2>3. Fits(doc)'
    BY <1>1, <1>3 DEF Books, Fits
  <2>4. Starting' /\ Sending' /\ AtWork' /\ Retrying' /\ Telling'
    BY <1>1, <1>3 DEF Books, LoopFits, Undisturbed, Starting, Sending, AtWork, Retrying, Telling,
                      Bound
  <2>5. Applying' /\ Asking'
    BY <1>1, <1>3 DEF Books, LoopFits, Undisturbed, Applying, Asking
  <2> QED
    BY <2>1, <2>2, <2>3, <2>4, <2>5 DEF Books, Accounts, LoopFits
<1> QED
  BY <1>1, <1>2, <1>3

(* What the loop has read it holds the lock for, or has no need of it.     *)
LEMMA OthersRead ==
    ASSUME Types, Books, Undisturbed, doc' = doc,
           Loop.read /\ Loop.pc \in Locked => lock'[bot] = "L"
    PROVE  ReadFits'
<1>1. (Unheard' <=> Unheard) /\ Newest' = Newest /\ Loop' = Loop /\ bot' = bot
  BY OthersBalance DEF Undisturbed
<1>2. Fits(Loop.seen) => Fits(Loop.seen)'
  BY <1>1 DEF Fits
<1> QED
  BY <1>1, <1>2 DEF Books, ReadFits

LEMMA SupervisorAtRest ==
    ASSUME Types, Books, proc["S"].pc = "idle", proc'["S"] = proc["S"]
    PROVE  SupervisorFits'
BY DEF Books, SupervisorFits

(* The supervisory task, of a bot that no timer gives up on.               *)
LEMMA GoesStaleBooks ==
    ASSUME Types, Books, GoesStale
    PROVE  Books'
<1> DEFINE next == [Idle EXCEPT !.pc = "on_crash"]
<1>1. /\ alive /\ doc.state \in Triggers /\ proc' = [proc EXCEPT !["S"] = next]
      /\ UNCHANGED <<doc, lock, bot, alive, stopping, orders, stream, position, setup>>
  BY DEF GoesStale, GoTo, instanceVars, brokerVars
<1>2. next.pc = "on_crash" /\ ~ next.read
  BY DEF Idle
<1> HIDE DEF next
<1>3. /\ Loop' = Loop /\ proc'["S"] = next
      /\ \A h \in Handlers : proc'[h] = proc[h]
  BY <1>1, TypesUnfolded, ProcsAre DEF Loop
<1>4. Undisturbed
  BY <1>1, <1>3 DEF Undisturbed
<1>5. /\ Reported' /\ NobodySold' /\ Accounts' /\ Fits(doc)' /\ LoopFits'
      /\ (Unheard' <=> Unheard) /\ (LeftAlone' <=> LeftAlone)
  BY <1>1, <1>4, OthersBalance
<1>6. ReadFits'
  <2>1. Loop.read /\ Loop.pc \in Locked => lock[bot] = "L"
    BY DEF Books, ReadFits
  <2> QED
    BY <1>1, <1>4, <2>1, OthersRead
<1>7. SupervisorFits' /\ StartFits' /\ StopFits' /\ Ending'
  BY <1>1, <1>2, <1>3, <1>5
     DEF Books, SupervisorFits, StartFits, StopFits, Ending, Triggers
<1> QED
  BY <1>5, <1>6, <1>7 DEF Books

LEMMA SupervisorReads ==
    ASSUME Types, Books, Read("S")
    PROVE  Books'
<1> DEFINE next == [proc["S"] EXCEPT !.read = TRUE, !.seen = doc]
<1>1. /\ proc["S"].pc = "on_crash" /\ ~ proc["S"].read
      /\ proc' = [proc EXCEPT !["S"] = next]
      /\ UNCHANGED <<doc, bot, alive, stopping, orders, stream, position, setup>>
  <2>1. proc["S"].pc \in Locked \cup Unlocked /\ GoTo("S", next) /\ ~ proc["S"].read
        /\ UNCHANGED <<doc, instanceVars, brokerVars, stream, setup>>
    BY Zenon DEF Read
  <2>2. proc["S"].pc \in {"idle", "on_crash"}
    BY DEF Books, SupervisorFits
  <2>3. proc["S"].pc # "idle"
    BY <2>1, StepNames DEF Unlocked
  <2> QED
    BY <2>1, <2>2, <2>3 DEF GoTo, instanceVars, brokerVars
<1>2. alive /\ bot > 0
  BY <1>1 DEF Books, Ending
<1>3. lock[bot] = Free /\ lock' = [lock EXCEPT ![bot] = "S"]
  <2>1. BotOf("S") = bot /\ "on_crash" \in Locked
    BY ProcsAre, StepNames DEF BotOf
  <2> QED
    BY <1>1, <2>1 DEF Read, CanRead
<1>4. lock'[bot] = "S"
  <2>1. bot \in 1 .. MaxStarts /\ lock \in [1 .. MaxStarts -> Procs \cup {Free}]
    BY <1>2, TypesUnfolded, BotConstants
  <2> QED
    BY <1>3, <2>1
<1>5. next.pc = "on_crash" /\ next.read /\ next.seen = doc
  BY <1>1, TypesUnfolded, ProcsAre DEF Coroutine
<1> HIDE DEF next
<1>6. /\ Loop' = Loop /\ proc'["S"] = next
      /\ \A h \in Handlers : proc'[h] = proc[h]
  BY <1>1, TypesUnfolded, ProcsAre DEF Loop
<1>7. Undisturbed
  BY <1>1, <1>6 DEF Undisturbed
<1>8. /\ Reported' /\ NobodySold' /\ Accounts' /\ Fits(doc)' /\ LoopFits'
      /\ (Unheard' <=> Unheard) /\ (LeftAlone' <=> LeftAlone)
  BY <1>1, <1>7, OthersBalance
<1>9. ReadFits'
  <2>1. ~ (Loop.read /\ Loop.pc \in Locked)
    BY <1>3 DEF Books, ReadFits, Free
  <2> QED
    BY <1>1, <1>7, <2>1, OthersRead
<1>10. SupervisorFits'
  BY <1>1, <1>2, <1>4, <1>5, <1>6 DEF SupervisorFits, SeenBySupervisor
<1>11. StartFits' /\ StopFits' /\ Ending'
  BY <1>1, <1>2, <1>6, <1>8 DEF Books, StartFits, StopFits, Ending
<1> QED
  BY <1>8, <1>9, <1>10, <1>11 DEF Books

(* check_stale_quote() parks the bot: it may write back a quantity that    *)
(* the loop has lessened since.                                            *)
LEMMA CrashBooks ==
    ASSUME Types, Books, Crash
    PROVE  Books'
<1> DEFINE seen == proc["S"].seen
<1>1. /\ proc["S"].pc = "on_crash" /\ proc["S"].read /\ proc' = [proc EXCEPT !["S"] = Idle]
      /\ doc' = IF Allowed("S") THEN ToErrored(seen) ELSE doc
      /\ UNCHANGED <<bot, alive, stopping, orders, stream, position, setup>>
  BY DEF Crash, Transition, GoTo, instanceVars, brokerVars
<1>2. bot > 0 /\ lock[bot] = "S" /\ alive
  BY <1>1 DEF Books, SupervisorFits, Ending
<1>3. Allowed("S") <=> seen.state \notin {"OFF", "ERRORED"}
  <2>1. seen.state \in States
    BY TypesUnfolded, ProcsAre, CoroutineFields DEF Doc
  <2> QED
    BY <1>1, <2>1 DEF Allowed, From
<1>4. /\ Loop' = Loop /\ proc'["S"] = Idle
      /\ \A h \in Handlers : proc'[h] = proc[h]
  BY <1>1, TypesUnfolded, ProcsAre DEF Loop
<1>5. Undisturbed
  BY <1>1, <1>4 DEF Undisturbed
<1>6. /\ Newest' = Newest /\ (Unheard' <=> Unheard) /\ (LeftAlone' <=> LeftAlone)
      /\ Reported' /\ NobodySold'
  BY <1>5, OthersBalance
<1>7. ~ (Loop.read /\ Loop.pc \in Locked)
  BY <1>2 DEF Books, ReadFits
<1>8. SupervisorFits'
  BY <1>4, IdleFields DEF SupervisorFits
<1>9. StartFits' /\ StopFits'
  BY <1>1, <1>4, <1>6 DEF Books, StartFits, StopFits
<1>10. CASE Allowed("S")
  <2>1. SeenBySupervisor(seen) /\ doc.state \notin {"OFF", "ERRORED"}
    BY <1>1, <1>3, <1>10 DEF Books, SupervisorFits, SeenBySupervisor
  <2>2. doc'.state = "ERRORED" /\ doc'.qty = seen.qty
    <3>1. seen \in Doc
      BY TypesUnfolded, ProcsAre, CoroutineFields
    <3> QED
      BY <1>1, <1>10, <3>1 DEF ToErrored, Doc
  <2>3. Balanced /\ ~ stopping
    BY <2>1 DEF Books, Accounts, Stuck, Ending
  <2>4. /\ doc.qty \in Int /\ doc'.qty \in Int /\ position \in Int
        /\ doc'.qty >= doc.qty
        /\ doc'.qty = doc.qty \/ (/\ ~ LeftAlone /\ ~ Unheard /\ Loop.pc \in Reducible
                                  /\ doc.state = "AWAITING_EXIT_TRIGGER")
    <3>1. doc.qty \in Int /\ seen.qty \in Int /\ position \in Int
      BY TypesUnfolded, ProcsAre, CoroutineFields DEF Doc
    <3>2. doc.state = "AWAITING_EXIT_TRIGGER" => ~ Unheard
      BY TriggersAreHeard DEF Triggers
    <3> QED
      BY <2>1, <2>2, <3>1, <3>2 DEF SeenBySupervisor
  <2>5. Balanced'
    BY <1>1, <1>6, <2>3, <2>4 DEF Balanced, Expected
  <2>6. Fits(doc)'
    BY <2>2 DEF Fits
  <2>7. ReadFits'
    <3>1. Loop.read /\ Loop.pc # "pull" => doc'.qty = doc.qty
      BY <1>7, <2>4 DEF Books, ReadFits, Reducible, Unlocked
    <3>2. Loop.read => Fits(Loop.seen)'
      BY <1>4, <1>6 DEF Books, ReadFits, Fits
    <3> QED
      BY <1>4, <1>7, <2>2, <3>1, <3>2 DEF Books, ReadFits
  <2>8. LoopFits'
    <3>1. Starting' /\ AtWork' /\ Telling' /\ Applying'
      BY <1>1, <1>4, <1>6, <2>2
         DEF Books, LoopFits, Starting, AtWork, Telling, Applying
    <3>2. Sending' /\ Retrying'
      <4>1. Loop.pc \notin Reducible => doc'.qty = doc.qty
        BY <2>4
      <4> QED
        BY <1>4, <1>6, <2>2, <4>1
           DEF Books, LoopFits, Sending, Retrying, Bound, Reducible
    <3>3. Asking'
      BY <1>1, <1>4, <1>6, <2>2, <2>4 DEF Books, LoopFits, Asking
    <3> QED
      BY <3>1, <3>2, <3>3 DEF LoopFits
  <2>9. Ending'
    BY <1>1, <1>2, <2>3 DEF Ending
  <2> QED
    BY <1>6, <1>8, <1>9, <2>5, <2>6, <2>7, <2>8, <2>9 DEF Books, Accounts
<1>11. CASE ~ Allowed("S")
  <2>1. doc' = doc
    BY <1>1, <1>11
  <2>2. Accounts' /\ Fits(doc)' /\ LoopFits' /\ ReadFits'
    BY <1>5, <1>7, <2>1, OthersBalance, OthersRead
  <2>3. Ending'
    BY <1>1, <1>2, <1>4, <1>6, <2>1 DEF Books, Ending
  <2> QED
    BY <1>6, <1>8, <1>9, <2>2, <2>3 DEF Books
<1> QED
  BY <1>10, <1>11

LEMMA SupervisorBooks ==
    ASSUME Types, Books, ~ setup.timeouts, Supervisor
    PROVE  Books'
<1>1. proc["S"].pc \in {"idle", "on_crash"}
  BY DEF Books, SupervisorFits
<1>2. GoesStale \/ Crash \/ Read("S")
  BY <1>1 DEF Supervisor, TimesOut, CheckFill, EntryTimeout, Touch, Transition, PlainWrite
<1> QED
  BY <1>2, GoesStaleBooks, CrashBooks, SupervisorReads

-----------------------------------------------------------------------------
(* The requests, of a bot that nobody forces.                              *)

(* A request goes on, and writes nothing.                                  *)
LEMMA RequestBooks ==
    ASSUME Types, Books, NEW h \in Handlers, NEW next, proc' = [proc EXCEPT ![h] = next],
           UNCHANGED <<doc, bot, alive, stopping, orders, stream, position, setup>>,
           next.pc \in {"idle", "on_stop", "on_force_stop"},
           next.pc # "idle" => ~ LeftAlone /\ bot > 0,
           \A b \in {"L", "S"} \cup Handlers : bot > 0 /\ lock[bot] = b => lock'[bot] = b
    PROVE  Books'
<1>1. /\ Loop' = Loop /\ proc'["S"] = proc["S"] /\ proc'[h] = next
      /\ \A g \in Handlers : g # h => proc'[g] = proc[g]
  BY TypesUnfolded, ProcsAre DEF Loop
<1>2. Undisturbed
  BY <1>1 DEF Undisturbed
<1>3. /\ Reported' /\ NobodySold' /\ Accounts' /\ Fits(doc)' /\ LoopFits'
      /\ (Unheard' <=> Unheard) /\ (LeftAlone' <=> LeftAlone)
  BY <1>2, OthersBalance
<1>4. ReadFits'
  <2>1. Loop.read /\ Loop.pc \in Locked => bot > 0 /\ lock[bot] = "L"
    BY DEF Books, ReadFits
  <2>2. Loop.read /\ Loop.pc \in Locked => lock'[bot] = "L"
    BY <2>1
  <2> QED
    BY <1>2, <2>2, OthersRead
<1>5. SupervisorFits'
  BY <1>1, <1>3 DEF Books, SupervisorFits, SeenBySupervisor
<1>6. StartFits'
  <2> SUFFICES ASSUME NEW g \in Handlers, proc'[g].pc = "on_start"
               PROVE  /\ proc'[g].read /\ proc'[g].bot = bot' /\ bot' > 0 /\ lock'[bot'] = g
                      /\ alive' /\ ~ stopping'
                      /\ doc'.state = "OFF" /\ Loop'.pc = "idle" /\ proc'["S"].pc = "idle"
    BY DEF StartFits
  <2>1. proc'[g] = proc[g]
    BY <1>1
  <2>2. /\ proc[g].read /\ proc[g].bot = bot /\ bot > 0 /\ lock[bot] = g
        /\ alive /\ ~ stopping
        /\ doc.state = "OFF" /\ Loop.pc = "idle" /\ proc["S"].pc = "idle"
    BY <2>1 DEF Books, StartFits
  <2>3. lock'[bot] = g
    BY <2>2
  <2> QED
    BY <1>1, <2>1, <2>2, <2>3
<1>7. StopFits' /\ Ending'
  BY <1>1, <1>3 DEF Books, StopFits, Ending
<1> QED
  BY <1>3, <1>4, <1>5, <1>6, <1>7 DEF Books

(* start_bot(): the document is clean, and nothing else goes on.           *)
LEMMA StartBooks ==
    ASSUME Types, Books, NEW h \in Handlers, Start(h)
    PROVE  Books'
<1> DEFINE next == [Idle EXCEPT !.pc = "on_start", !.bot = bot + 1, !.read = TRUE, !.seen = doc]
<1>1. /\ ~ alive /\ bot < MaxStarts /\ CleanForStart(doc)
      /\ proc' = [proc EXCEPT ![h] = next]
      /\ bot' = bot + 1 /\ alive' /\ stopping' = stopping
      /\ lock' = [lock EXCEPT ![bot + 1] = h]
      /\ UNCHANGED <<doc, orders, stream, position, setup>>
  BY DEF Start, Request, GoTo, brokerVars
<1>2. next.pc = "on_start" /\ next.read /\ next.bot = bot + 1
  BY DEF Idle
<1> HIDE DEF next
<1>3. bot \in Nat /\ lock'[bot + 1] = h
  <2>1. bot \in 0 .. MaxStarts /\ lock \in [1 .. MaxStarts -> Procs \cup {Free}]
    BY TypesUnfolded
  <2>2. bot + 1 \in 1 .. MaxStarts
    BY <1>1, <2>1, BotConstants
  <2> QED
    BY <1>1, <2>1, <2>2
<1>4. /\ Loop' = Loop /\ proc'["S"] = proc["S"] /\ proc'[h] = next
      /\ \A g \in Handlers : g # h => proc'[g] = proc[g]
  BY <1>1, TypesUnfolded, ProcsAre DEF Loop
<1>5. /\ doc.state = "OFF" /\ ~ stopping /\ ~ Unheard /\ Loop.pc = "idle" /\ proc["S"].pc = "idle"
      /\ \A g \in Handlers : proc[g].pc # "on_start"
  BY <1>1 DEF Books, Ending, StartFits
<1>6. Newest' = Newest /\ (Unheard' <=> Unheard) /\ (LeftAlone' <=> LeftAlone)
  BY <1>1, <1>4 DEF Newest, Unheard, LeftAlone, Unattended
<1>7. Reported'
  BY <1>1, <1>4, <1>5, OrdersRest DEF Books, Handling, FillSteps, CancelSteps
<1>8. Balanced'
  <2>1. Balanced
    BY <1>5 DEF Books, Accounts, Stuck
  <2> QED
    BY <1>1, <1>6, <2>1, BooksBalance
<1>9. Fits(doc)'
  BY <1>1, <1>6 DEF Books, Fits
<1>10. ~ Loop.read /\ ~ proc["S"].read
  BY <1>5, StepNames DEF Books, ReadFits, SupervisorFits, Unlocked
<1>11. ReadFits' /\ SupervisorFits'
  BY <1>4, <1>5, <1>10 DEF ReadFits, SupervisorFits
<1>12. LoopFits'
  BY <1>1, <1>4, <1>5, <1>6, RestFits DEF Waiting
<1>13. bot + 1 > 0
  BY <1>3
<1>14. StartFits'
  BY <1>1, <1>2, <1>3, <1>4, <1>5, <1>13 DEF StartFits
<1>15. StopFits' /\ Ending' /\ NobodySold'
  BY <1>1, <1>2, <1>4, <1>5, <1>6, <1>13 DEF Books, StopFits, Ending, NobodySold
<1> QED
  BY <1>7, <1>8, <1>9, <1>11, <1>12, <1>14, <1>15 DEF Books, Accounts

LEMMA StartedBooks ==
    ASSUME Types, Books, NEW h \in Handlers, Started(h)
    PROVE  Books'
<1>1. /\ proc[h].pc = "on_start" /\ proc' = [proc EXCEPT ![h] = Idle]
      /\ doc' = IF Allowed(h) THEN OnStart(proc[h].seen) ELSE doc
      /\ UNCHANGED <<bot, alive, stopping, orders, stream, position, setup>>
  BY DEF Started, Transition, GoTo, instanceVars, brokerVars
<1>2. /\ bot > 0 /\ lock[bot] = h /\ alive /\ ~ stopping
      /\ doc.state = "OFF" /\ Loop.pc = "idle" /\ proc["S"].pc = "idle"
  BY <1>1 DEF Books, StartFits
<1>3. /\ Loop' = Loop /\ proc'["S"] = proc["S"] /\ proc'[h] = Idle
      /\ \A g \in Handlers : g # h => proc'[g] = proc[g]
  BY <1>1, TypesUnfolded, ProcsAre DEF Loop
<1>4. ~ Unheard /\ doc.qty = 0 /\ Balanced
  BY <1>2 DEF Books, Fits, PlacedFor, Accounts, Stuck
<1>5. doc'.qty = 0 /\ (doc' = doc \/ doc'.state = "AWAITING_ENTRY_TRIGGER")
  <2>1. proc[h].seen \in Doc
    BY TypesUnfolded, ProcsAre, CoroutineFields
  <2> QED
    BY <1>1, <1>4, <2>1 DEF OnStart, Cleared, Doc
<1>6. Newest' = Newest /\ (Unheard' <=> Unheard) /\ (LeftAlone' <=> LeftAlone)
  BY <1>1, <1>3 DEF Newest, Unheard, LeftAlone, Unattended
<1>7. Reported'
  BY <1>1, <1>2, <1>3, OrdersRest DEF Books, Handling, FillSteps, CancelSteps
<1>8. Balanced'
  BY <1>1, <1>4, <1>5, <1>6, BooksBalance
<1>9. Fits(doc)'
  BY <1>4, <1>5, <1>6 DEF Fits
<1>10. ~ Loop.read /\ ~ proc["S"].read
  BY <1>2, StepNames DEF Books, ReadFits, SupervisorFits, Unlocked
<1>11. ReadFits' /\ SupervisorFits'
  BY <1>2, <1>3, <1>10 DEF ReadFits, SupervisorFits
<1>12. LoopFits'
  BY <1>1, <1>2, <1>3, <1>6, RestFits DEF Waiting
<1>13. StartFits'
  BY <1>2, <1>3, IdleFields DEF Books, StartFits
<1>14. StopFits' /\ Ending' /\ NobodySold'
  BY <1>1, <1>2, <1>3, <1>6, IdleFields DEF Books, StopFits, Ending, NobodySold
<1> QED
  BY <1>7, <1>8, <1>9, <1>11, <1>12, <1>13, <1>14 DEF Books, Accounts

LEMMA AskStopBooks ==
    ASSUME Types, Books, NEW h \in Handlers, AskStop(h)
    PROVE  Books'
<1>1. PICK pc \in {"on_stop", "on_force_stop"} :
        /\ proc' = [proc EXCEPT ![h] = Simple(pc)]
        /\ setup.commands # {"start"}
        /\ alive /\ UNCHANGED <<doc, lock, bot, alive, stopping, orders, stream, position, setup>>
  <2>1. "stop" \in setup.commands \/ "force_stop" \in setup.commands => setup.commands # {"start"}
    OBVIOUS
  <2> QED
    BY <2>1 DEF AskStop, Registered, Request, GoTo, instanceVars, brokerVars
<1>2. Simple(pc).pc = pc
  BY DEF Simple, Idle
<1>3. ~ LeftAlone /\ bot > 0
  BY <1>1 DEF LeftAlone, Unattended, Books, Ending
<1> QED
  BY <1>1, <1>2, <1>3, RequestBooks

(* Stopped, the instance of a bot that is attended to was not its first.   *)
LEMMA StoppedNotAttended ==
    ASSUME Types, Books, NEW h \in Handlers, proc[h].pc \in {"on_stop", "on_force_stop"}, Gone(h),
           setup' = setup
    PROVE  ~ Attended'
<1>1. ~ LeftAlone /\ bot > 0
  BY DEF Books, StopFits
<1>2. bot' = bot /\ ~ alive' /\ ~ LeftAlone'
  BY <1>1 DEF Gone, LeftAlone, Unattended
<1> QED
  BY <1>1, <1>2 DEF Attended

LEMMA RequestReads ==
    ASSUME Types, Books, NEW h \in Handlers, proc[h].pc \in Orderly, Read(h)
    PROVE  Books'
<1> DEFINE next == [proc[h] EXCEPT !.read = TRUE, !.seen = doc]
<1>1. /\ proc[h].pc \in Locked \cup Unlocked /\ GoTo(h, next) /\ ~ proc[h].read
      /\ UNCHANGED <<doc, bot, alive, stopping, orders, stream, position, setup>>
  BY Zenon DEF Read, instanceVars, brokerVars
<1>2. proc[h].pc \in {"on_stop", "on_force_stop"}
  <2>1. proc[h].pc # "idle"
    BY <1>1, StepNames DEF Unlocked
  <2>2. proc[h].pc # "on_start"
    BY <1>1 DEF Books, StartFits
  <2> QED
    BY <2>1, <2>2 DEF Orderly
<1>3. lock[proc[h].bot] = Free /\ lock' = [lock EXCEPT ![proc[h].bot] = h]
  <2>1. proc[h].pc \in Locked /\ BotOf(h) = proc[h].bot
    BY <1>2, StepNames DEF BotOf
  <2> QED
    BY <2>1 DEF Read, CanRead
<1>4. ~ LeftAlone /\ bot > 0
  BY <1>2 DEF Books, StopFits
<1>5. \A b \in {"L", "S"} \cup Handlers : lock[bot] = b => lock'[bot] = b
  <2> SUFFICES ASSUME NEW b \in {"L", "S"} \cup Handlers, lock[bot] = b PROVE lock'[bot] = b
    OBVIOUS
  <2>1. b # Free
    BY BotConstants DEF Free
  <2>2. bot # proc[h].bot
    BY <1>3, <2>1
  <2>3. bot \in 1 .. MaxStarts /\ lock \in [1 .. MaxStarts -> Procs \cup {Free}]
    BY <1>4, TypesUnfolded, BotConstants
  <2> QED
    BY <1>3, <2>2, <2>3
<1>6. next.pc = proc[h].pc
  BY TypesUnfolded, ProcsAre DEF Coroutine
<1> HIDE DEF next
<1>7. proc' = [proc EXCEPT ![h] = next]
  BY <1>1 DEF GoTo
<1> QED
  BY <1>1, <1>2, <1>4, <1>5, <1>6, <1>7, RequestBooks

LEMMA HandlerBooks ==
    ASSUME Types, Books, ~ Forced, NEW h \in Handlers, proc[h].pc \in Orderly, Handler(h)
    PROVE  Attended' => Books'
<1>1. ~ Reset(h) /\ ~ ForceTrade(h) /\ ~ Quit(h)
  BY DEF Forced, Orderly, Reset, PlainWrite, ForceTrade, Quit, Request
<1>2. ~ Armed(h) /\ ~ Replace(h) /\ ~ Pipeline(h)
  BY DEF Orderly, Armed, Replace, PlainWrite, Transition, Pipeline, PreState, Place, PlaceOp,
         Persist, Post, Answered, PatchOrderId, Failed, Rollback, RevertToState
<1>3. ASSUME Stopped(h) \/ ForceStopped(h) PROVE ~ Attended'
  BY <1>3, StoppedNotAttended DEF Stopped, ForceStopped
<1>4. CASE Start(h) \/ Started(h) \/ AskStop(h) \/ Read(h)
  BY <1>4, StartBooks, StartedBooks, AskStopBooks, RequestReads
<1> QED
  BY <1>1, <1>2, <1>3, <1>4 DEF Handler

-----------------------------------------------------------------------------
(* The engine: only the newest order has anything left to happen to it.    *)

LEMMA OnlyNewestMoves ==
    ASSUME Types, Books, NEW i \in 1 .. Len(orders), OrderStep(i)
    PROVE  i = Len(orders) /\ orders # <<>> /\ Newest = orders[i] /\ Unheard
<1>1. /\ orders[i].ended => orders[i].status = "closed" /\ orders[i].told = orders[i].filled
      /\ orders[i].status \in {"sent", "refused"} => orders[i].filled = 0 /\ orders[i].told = 0
      /\ i < Len(orders) => Over(i)
  BY DEF Books, Reported, Ends
<1>2. ~ Over(i)
  BY <1>1 DEF OrderStep, Accept, Fill, Cancel, Publish, Over
<1>3. orders \in Seq(Order) /\ Len(orders) \in Nat
  BY TypesUnfolded
<1>4. i = Len(orders) /\ orders # <<>>
  BY <1>1, <1>2, <1>3
<1> QED
  BY <1>2, <1>4 DEF Newest, Unheard, Over

(* What may become of the newest order.                                    *)
Becomes(o) ==
    /\ o \in Order /\ orders' = [orders EXCEPT ![Len(orders)] = o]
    /\ o.leg = Newest.leg /\ o.size = Newest.size
    /\ o.ended => o.status = "closed" /\ o.told = o.filled
    /\ o.told <= o.filled /\ o.filled <= o.size
    /\ o.status \in {"sent", "refused"} => o.filled = 0 /\ o.told = 0
    /\ o.status \in {"closed", "refused"} \/ Loop.pc \in Waiting

LEMMA NewestIs ==
    ASSUME Types, orders # <<>>, NEW o, Becomes(o)
    PROVE  Newest' = o /\ Len(orders') = Len(orders) /\ orders' # <<>>
BY NewestTyped, TypesUnfolded DEF Becomes, Newest

LEMMA NewestMoves ==
    ASSUME Types, Books, orders # <<>>, Unheard, NEW o, Becomes(o),
           UNCHANGED <<doc, lock, proc, bot, alive, stopping, setup>>,
           Streamed', InHand', Unheard' <=> o.status # "refused",
           Accounts'
    PROVE  Books'
<1>1. Newest' = o /\ Len(orders') = Len(orders) /\ orders' # <<>>
  BY NewestIs
<1>2. Ends'
  <2> SUFFICES ASSUME NEW i \in 1 .. Len(orders)
               PROVE  (/\ i < Len(orders) => Over(i)
                       /\ orders[i].ended => orders[i].status = "closed"
                                             /\ orders[i].told = orders[i].filled
                       /\ orders[i].told <= orders[i].filled
                       /\ orders[i].filled <= orders[i].size
                       /\ orders[i].status \in {"sent", "refused"} =>
                             orders[i].filled = 0 /\ orders[i].told = 0)'
    BY <1>1 DEF Ends
  <2>1. CASE i = Len(orders)
    <3>1. orders'[i] = o /\ ~ (i < Len(orders'))
      BY <1>1, <2>1 DEF Newest
    <3> QED
      BY <3>1 DEF Becomes
  <2>2. CASE i # Len(orders)
    <3>1. orders'[i] = orders[i]
      BY <2>2, TypesUnfolded DEF Becomes
    <3>2. Over(i)' <=> Over(i)
      BY <3>1 DEF Over
    <3> QED
      BY <1>1, <3>1, <3>2 DEF Books, Reported, Ends
  <2> QED
    BY <2>1, <2>2
<1>3. Loop' = Loop /\ (LeftAlone' <=> LeftAlone) /\ o.leg = Newest.leg /\ o.size = Newest.size
  BY DEF Loop, LeftAlone, Unattended, Becomes
<1>4. Fits(doc)' /\ ReadFits'
  <2>1. \A d : Fits(d) => /\ d.state \in {"OFF", "AWAITING_ENTRY_TRIGGER"} => d.qty = 0
                          /\ Unheard' => d.state \in {PlacedFor(Newest'.leg), "ERRORED"}
    BY <1>1, <1>3 DEF Fits
  <2>2. Fits(doc)'
    BY <2>1 DEF Books, Fits
  <2>3. Loop.read => Fits(Loop.seen)'
    BY <1>3, <2>1 DEF Books, ReadFits, Fits
  <2> QED
    BY <1>3, <2>2, <2>3 DEF Books, ReadFits
<1>5. LoopFits'
  <2>1. AtWork' /\ Telling'
    BY <1>1, <1>3 DEF Books, LoopFits, AtWork, Telling, Becomes
  <2>2. Starting' /\ Sending' /\ Retrying'
    BY <1>3 DEF Books, LoopFits, Starting, Sending, Retrying, Bound
  <2>3. Applying' /\ Asking'
    BY <1>3 DEF Books, LoopFits, Applying, Asking
  <2> QED
    BY <2>1, <2>2, <2>3 DEF LoopFits
<1>6. SupervisorFits' /\ StartFits' /\ StopFits'
  BY <1>3 DEF Books, SupervisorFits, SeenBySupervisor, StartFits, StopFits
<1>7. Ending' /\ NobodySold'
  BY <1>3 DEF Books, Ending, NobodySold
<1> QED
  BY <1>2, <1>4, <1>5, <1>6, <1>7 DEF Books, Reported

(* While it is worked, the loop waits for it, with no event of it taken.   *)
LEMMA WhileItWorks ==
    ASSUME Types, Books, orders # <<>>, Newest.status \in {"sent", "open"}
    PROVE  /\ Loop.pc \in Waiting /\ Loop.pc \notin Handling /\ Balanced
           /\ ~ Newest.ended /\ Unheard /\ Newest.leg = Loop.leg
           /\ \A j \in 1 .. Len(stream) : ~ stream[j].terminal
           /\ Newest.status = "sent" => stream = <<>> /\ Newest.filled = 0 /\ Newest.told = 0
           /\ Newest.leg = "entry" => doc.qty = 0
<1>1. Loop.pc \in Waiting
  BY DEF Books, LoopFits, AtWork
<1>2. Loop.pc \notin Handling /\ Balanced
  BY <1>1, BusyIsBalanced DEF Waiting, Handling, FillSteps, CancelSteps
<1>3. /\ Newest.ended => Newest.status = "closed"
      /\ Newest.status = "sent" => Newest.filled = 0 /\ Newest.told = 0
  BY NewestTyped DEF Books, Reported, Ends, Newest
<1>4. Newest.leg = Loop.leg
  BY <1>1 DEF Books, LoopFits, AtWork
<1>5. Newest.leg = "entry" => doc.qty = 0
  BY <1>1, <1>4 DEF Waiting, Books, LoopFits, Sending, Retrying, Bound
<1>6. Newest.status = "sent" => stream = <<>>
  BY DEF Books, Reported, Streamed
<1>7. \A j \in 1 .. Len(stream) : ~ stream[j].terminal
  BY <1>3 DEF Books, Reported, Streamed, Says
<1> QED
  BY <1>1, <1>2, <1>3, <1>4, <1>5, <1>6, <1>7 DEF Unheard

EngineIdle == UNCHANGED <<doc, lock, proc, bot, alive, stopping, setup>>

LEMMA AcceptBooks ==
    ASSUME Types, Books, NEW i \in 1 .. Len(orders), Accept(i), EngineIdle
    PROVE  Books'
<1>1. i = Len(orders) /\ orders # <<>> /\ Newest = orders[i] /\ Unheard
  BY OnlyNewestMoves DEF OrderStep
<1>2. Newest \in Order /\ Newest.status = "sent"
  BY <1>1, NewestTyped DEF Accept
<1>3. PICK s \in {"open", "refused"} : orders' = [orders EXCEPT ![i].status = s]
  BY DEF Accept
<1> DEFINE o == [Newest EXCEPT !.status = s]
<1>4. /\ o \in Order /\ orders' = [orders EXCEPT ![Len(orders)] = o]
      /\ o.status = s /\ o.leg = Newest.leg /\ o.size = Newest.size /\ o.filled = Newest.filled
      /\ o.told = Newest.told /\ o.ended = Newest.ended
  BY <1>1, <1>2, <1>3 DEF Order
<1> HIDE DEF o
<1>5. /\ Loop.pc \in Waiting /\ Loop.pc \notin Handling /\ Balanced
      /\ ~ Newest.ended /\ Newest.leg = Loop.leg
      /\ stream = <<>> /\ Newest.filled = 0 /\ Newest.told = 0
      /\ Newest.leg = "entry" => doc.qty = 0
  BY <1>1, <1>2, WhileItWorks
<1>6. Newest.told <= Newest.filled /\ Newest.filled <= Newest.size
  BY <1>1, NewestTyped DEF Books, Reported, Ends, Newest
<1>7. Becomes(o)
  BY <1>4, <1>5, <1>6 DEF Becomes
<1>8. Newest' = o /\ orders' # <<>> /\ Loop' = Loop /\ stream' = stream /\ position' = position
  BY <1>1, <1>7, NewestIs DEF EngineIdle, Loop, Accept
<1>9. Unheard' <=> o.status # "refused"
  BY <1>4, <1>5, <1>8 DEF Unheard
<1>10. Streamed' /\ InHand'
  BY <1>5, <1>8 DEF Streamed, InHand, FillSteps, CancelSteps, Handling
<1>11. Balanced'
  <2>1. LeftAlone' <=> LeftAlone
    BY DEF EngineIdle, LeftAlone, Unattended
  <2>2. doc.qty \in Int /\ Newest.leg \in {"entry", "exit"} /\ doc' = doc
    BY <1>2, LoopTyped DEF Doc, Order, Legs, EngineIdle
  <2>3. Expected = doc.qty
    BY <1>1, <1>5, <2>2 DEF Expected
  <2>4. Expected' = doc.qty
    BY <1>4, <1>5, <1>8, <2>2 DEF Expected
  <2> QED
    BY <1>1, <1>4, <1>5, <1>8, <2>1, <2>2, <2>3, <2>4 DEF Balanced
<1> QED
  BY <1>1, <1>7, <1>9, <1>10, <1>11, NewestMoves DEF EngineIdle, Accounts

LEMMA FillBooks ==
    ASSUME Types, Sized, Books, NEW i \in 1 .. Len(orders), Fill(i), EngineIdle
    PROVE  Books'
<1>1. i = Len(orders) /\ orders # <<>> /\ Newest = orders[i] /\ Unheard
  BY OnlyNewestMoves DEF OrderStep
<1>2. Newest \in Order /\ Newest.status = "open"
  BY <1>1, NewestTyped DEF Fill
<1> DEFINE s == IF Newest.filled + 1 = Newest.size THEN "closed" ELSE Newest.status
           o == [Newest EXCEPT !.filled = Newest.filled + 1, !.status = s]
<1>3. Newest.filled < Newest.size /\ Newest.told <= Newest.filled
  BY <1>1, <1>2, NewestTyped DEF Sized, Working, Books, Reported, Ends
<1>4. /\ o \in Order /\ s \in {"open", "closed"}
      /\ o.status = s /\ o.leg = Newest.leg /\ o.size = Newest.size
      /\ o.filled = Newest.filled + 1 /\ o.told = Newest.told /\ o.ended = Newest.ended
      /\ Newest.filled \in Nat /\ Newest.size \in Nat /\ Newest.told \in Nat
  <2>1. s \in {"open", "closed"}
    BY <1>2
  <2> HIDE DEF s
  <2>2. Newest.filled \in Nat /\ Newest.size \in Nat /\ Newest.told \in Nat
    BY <1>2 DEF Order
  <2>3. Newest.filled + 1 \in 0 .. Size
    BY <1>2, <1>3, <2>2, BotConstants DEF Order
  <2>4. o \in Order
    BY <1>2, <2>1, <2>3 DEF Order
  <2>5. /\ o.status = s /\ o.leg = Newest.leg /\ o.size = Newest.size
        /\ o.filled = Newest.filled + 1 /\ o.told = Newest.told /\ o.ended = Newest.ended
    BY <1>2 DEF Order
  <2> QED
    BY <2>1, <2>2, <2>4, <2>5
<1>5. orders' = [orders EXCEPT ![Len(orders)] = o]
  BY <1>1, TypesUnfolded DEF Fill
<1> HIDE DEF o, s
<1>6. /\ Loop.pc \in Waiting /\ Loop.pc \notin Handling /\ Balanced
      /\ ~ Newest.ended /\ \A j \in 1 .. Len(stream) : ~ stream[j].terminal
  BY <1>1, <1>2, WhileItWorks
<1>7. Becomes(o)
  BY <1>3, <1>4, <1>5, <1>6 DEF Becomes
<1>8. /\ Newest' = o /\ orders' # <<>> /\ Loop' = Loop /\ stream' = stream
      /\ position' = position + Lots(Newest.leg)
  BY <1>1, <1>7, NewestIs DEF EngineIdle, Loop, Fill
<1>9. Unheard' /\ o.status # "refused"
  BY <1>4, <1>6, <1>8 DEF Unheard
<1>10. Streamed' /\ InHand'
  <2>1. \A j \in 1 .. Len(stream) : Says(stream[j], j = Len(stream))'
    BY <1>4, <1>6, <1>8 DEF Books, Reported, Streamed, Says
  <2> QED
    BY <1>4, <1>6, <1>8, <2>1 DEF Streamed, Says, InHand, FillSteps, CancelSteps, Handling
<1>11. Balanced'
  <2>1. LeftAlone' <=> LeftAlone
    BY DEF EngineIdle, LeftAlone, Unattended
  <2>2. doc.qty \in Int /\ position \in Int /\ Newest.leg \in {"entry", "exit"} /\ doc' = doc
    BY <1>2, LoopTyped, TypesUnfolded DEF Doc, Order, Legs, EngineIdle
  <2>3. Expected' = Expected + Lots(Newest.leg) /\ Expected \in Int
    <3>1. Expected = IF Newest.leg = "entry" THEN Newest.filled ELSE doc.qty - Newest.filled
      BY <1>1 DEF Expected
    <3>2. Expected' = IF Newest.leg = "entry" THEN Newest.filled + 1
                      ELSE doc.qty - (Newest.filled + 1)
      BY <1>4, <1>8, <1>9, <2>2 DEF Expected
    <3> QED
      BY <1>4, <2>2, <3>1, <3>2 DEF Lots
  <2>4. Lots(Newest.leg) \in Int
    BY DEF Lots
  <2> QED
    BY <1>1, <1>4, <1>6, <1>8, <2>1, <2>2, <2>3, <2>4 DEF Balanced
<1> QED
  BY <1>1, <1>7, <1>9, <1>10, <1>11, NewestMoves DEF EngineIdle, Accounts

LEMMA CancelBooks ==
    ASSUME Types, Books, NEW i \in 1 .. Len(orders), Cancel(i), EngineIdle
    PROVE  Books'
<1>1. i = Len(orders) /\ orders # <<>> /\ Newest = orders[i] /\ Unheard
  BY OnlyNewestMoves DEF OrderStep
<1>2. Newest \in Order /\ Newest.status = "open"
  BY <1>1, NewestTyped DEF Cancel
<1> DEFINE o == [Newest EXCEPT !.status = "closed"]
<1>3. /\ o \in Order /\ orders' = [orders EXCEPT ![Len(orders)] = o]
      /\ o.status = "closed" /\ o.leg = Newest.leg /\ o.size = Newest.size
      /\ o.filled = Newest.filled /\ o.told = Newest.told /\ o.ended = Newest.ended
  BY <1>1, <1>2 DEF Order, Cancel
<1> HIDE DEF o
<1>4. /\ Loop.pc \in Waiting /\ Loop.pc \notin Handling /\ Balanced /\ ~ Newest.ended
  BY <1>1, <1>2, WhileItWorks
<1>5. Newest.told <= Newest.filled /\ Newest.filled <= Newest.size
  BY <1>1, NewestTyped DEF Books, Reported, Ends, Newest
<1>6. Becomes(o)
  BY <1>3, <1>4, <1>5 DEF Becomes
<1>7. /\ Newest' = o /\ orders' # <<>> /\ Loop' = Loop /\ stream' = stream /\ position' = position
  BY <1>1, <1>6, NewestIs DEF EngineIdle, Loop, Cancel
<1>8. Unheard'
  BY <1>3, <1>4, <1>7 DEF Unheard
<1>9. Streamed' /\ InHand'
  <2>1. \A j \in 1 .. Len(stream) : Says(stream[j], j = Len(stream))'
    BY <1>3, <1>7 DEF Books, Reported, Streamed, Says
  <2> QED
    BY <1>3, <1>4, <1>7, <2>1 DEF Streamed, Says, InHand, FillSteps, CancelSteps, Handling
<1>10. Balanced'
  <2>1. LeftAlone' <=> LeftAlone
    BY DEF EngineIdle, LeftAlone, Unattended
  <2> QED
    BY <1>1, <1>3, <1>4, <1>7, <1>8, <2>1 DEF Balanced, Expected, EngineIdle
<1> QED
  BY <1>1, <1>3, <1>6, <1>8, <1>9, <1>10, NewestMoves DEF EngineIdle, Accounts

LEMMA PublishBooks ==
    ASSUME Types, Books, NEW i \in 1 .. Len(orders), Publish(i), EngineIdle
    PROVE  Books'
<1>1. i = Len(orders) /\ orders # <<>> /\ Newest = orders[i] /\ Unheard
  BY OnlyNewestMoves DEF OrderStep
<1>2. Newest \in Order
  BY <1>1, NewestTyped
<1> DEFINE over == Newest.status = "closed"
           e == [order |-> i, filled |-> Newest.filled, terminal |-> over]
           o == [Newest EXCEPT !.told = Newest.filled, !.ended = over]
<1>3. /\ Newest.filled # Newest.told \/ (over /\ ~ Newest.ended)
      /\ stream' = Append(stream, e) /\ position' = position
  <2>1. alive
    BY <1>1 DEF Books, Ending
  <2> QED
    BY <1>1, <2>1 DEF Publish
<1>4. /\ Newest.ended => over /\ Newest.told = Newest.filled
      /\ Newest.told <= Newest.filled /\ Newest.filled <= Newest.size
      /\ Newest.status \in {"sent", "refused"} => Newest.filled = 0 /\ Newest.told = 0
  BY <1>1, NewestTyped DEF Books, Reported, Ends, Newest
<1>5. ~ Newest.ended /\ Newest.status \in {"open", "closed"}
  BY <1>2, <1>3, <1>4 DEF Order
<1>6. /\ o \in Order /\ orders' = [orders EXCEPT ![Len(orders)] = o]
      /\ o.status = Newest.status /\ o.leg = Newest.leg /\ o.size = Newest.size
      /\ o.filled = Newest.filled /\ o.told = Newest.filled /\ o.ended = over
  BY <1>1, <1>2 DEF Order, Publish
<1>7. /\ e.filled = Newest.filled /\ e.terminal = over
      /\ Newest.filled \in Nat /\ Newest.told \in Nat
  BY <1>2 DEF Order
<1>8. e \in Event
  BY <1>2 DEF Order, Event
<1> HIDE DEF o, e
<1>9. Becomes(o)
  <2>1. o.status = "closed" \/ Loop.pc \in Waiting
    BY <1>1, <1>5, <1>6 DEF Books, LoopFits, AtWork
  <2>2. o.filled <= o.size /\ o.told <= o.filled
    BY <1>4, <1>6, <1>7
  <2>3. o.status # "sent" /\ o.status # "refused" /\ (o.ended => o.status = "closed")
    BY <1>5, <1>6
  <2> QED
    BY <1>6, <2>1, <2>2, <2>3 DEF Becomes
<1>10. /\ Newest' = o /\ orders' # <<>> /\ Loop' = Loop
  BY <1>1, <1>9, NewestIs DEF EngineIdle, Loop
<1>11. /\ stream \in Seq(Event) /\ Len(stream) \in Nat
       /\ Len(stream') = Len(stream) + 1 /\ stream' # <<>> /\ stream'[Len(stream) + 1] = e
       /\ \A j \in 1 .. Len(stream) : stream'[j] = stream[j]
  <2>1. stream \in Seq(Event)
    BY TypesUnfolded
  <2> QED
    BY <1>3, <1>8, <2>1
<1>12. Unheard' /\ o.status # "refused"
  BY <1>5, <1>6, <1>10, <1>11 DEF Unheard
<1>13. Streamed'
  <2>1. ASSUME NEW j \in 1 .. Len(stream') PROVE Says(stream[j], j = Len(stream))'
    <3>1. CASE j \in 1 .. Len(stream)
      <4>1. /\ stream[j].filled <= Newest.told /\ ~ stream[j].terminal
            /\ stream[j].filled = 0 => stream[j].terminal
        BY <1>5, <3>1 DEF Books, Reported, Streamed, Says
      <4>2. stream[j].filled \in Nat
        BY <3>1, EventsTyped DEF Event
      <4>3. stream[j].filled <= Newest.filled
        BY <1>4, <1>7, <4>1, <4>2
      <4>4. j # Len(stream')
        BY <1>11, <3>1
      <4> QED
        BY <1>6, <1>10, <1>11, <3>1, <4>1, <4>3, <4>4 DEF Says
    <3>2. CASE j = Len(stream) + 1
      <4>1. stream'[j] = e /\ j = Len(stream')
        BY <1>11, <3>2
      <4>2. e.filled = 0 => e.terminal
        <5>1. Newest.filled = 0 => Newest.filled = Newest.told
          BY <1>4, <1>7
        <5> QED
          BY <1>3, <1>7, <5>1
      <4> QED
        BY <1>6, <1>7, <1>10, <4>1, <4>2 DEF Says
    <3> QED
      BY <1>11, <3>1, <3>2
  <2> QED
    BY <1>5, <1>6, <1>10, <1>11, <2>1 DEF Streamed
<1>14. InHand'
  <2>1. ASSUME Loop.pc \in Handling
        PROVE  Newest.status = "closed" /\ Says(Loop.ev, stream = <<>>)'
    <3>1. Newest.status = "closed" /\ Says(Loop.ev, stream = <<>>)
      BY <2>1 DEF Books, Reported, InHand
    <3>2. ~ Loop.ev.terminal /\ Loop.ev.filled <= Newest.told /\ Loop.ev.filled # 0
      BY <1>5, <3>1 DEF Says
    <3>3. Loop.ev.filled \in Nat
      BY LoopTyped, CoroutineFields DEF Event
    <3>4. Loop.ev.filled <= Newest.filled
      BY <1>4, <1>7, <3>2, <3>3
    <3> QED
      BY <1>6, <1>10, <1>11, <3>1, <3>2, <3>4 DEF Says
  <2> QED
    BY <1>6, <1>10, <2>1 DEF Books, Reported, InHand
<1>15. Accounts'
  <2>1. LeftAlone' <=> LeftAlone
    BY DEF EngineIdle, LeftAlone, Unattended
  <2>2. doc' = doc
    BY DEF EngineIdle
  <2>3. Balanced => Balanced'
    BY <1>1, <1>3, <1>6, <1>10, <1>12, <2>1, <2>2 DEF Balanced, Expected
  <2>4. Stuck => Stuck'
    BY <1>3, <1>10, <2>1, <2>2 DEF Stuck
  <2> QED
    BY <2>3, <2>4 DEF Books, Accounts
<1> QED
  BY <1>1, <1>9, <1>12, <1>13, <1>14, <1>15, NewestMoves DEF EngineIdle

LEMMA EngineBooks ==
    ASSUME Types, Sized, Books, Engine
    PROVE  Books'
<1>1. EngineIdle
  BY DEF Engine, EngineIdle, instanceVars
<1>2. PICK i \in 1 .. Len(orders) : OrderStep(i)
  BY DEF Engine
<1> QED
  BY <1>1, <1>2, AcceptBooks, FillBooks, CancelBooks, PublishBooks DEF OrderStep

(* The user at TWS takes from the account what the bot has bought.         *)
LEMMA UserSellsBooks ==
    ASSUME Types, Books, UserSells
    PROVE  Books'
<1>1. /\ setup.manual > 0 /\ setup' = [setup EXCEPT !.manual = @ - 1]
      /\ position' = position - 1 /\ position \in Int /\ setup \in Setup
      /\ UNCHANGED <<doc, lock, proc, bot, alive, stopping, orders, stream>>
  BY TypesUnfolded DEF UserSells, instanceVars
<1>2. ~ LeftAlone /\ ~ LeftAlone'
  <2>1. ~ LeftAlone
    BY <1>1 DEF Books, NobodySold
  <2> QED
    BY <1>1, <2>1 DEF LeftAlone, Unattended, Setup
<1>3. Loop' = Loop /\ Newest' = Newest /\ (Unheard' <=> Unheard)
  BY <1>1 DEF Loop, Newest, Unheard
<1>4. Reported' /\ NobodySold'
  BY <1>1, <1>2, <1>3 DEF Books, Reported, Ends, Over, Streamed, Says, InHand, NobodySold
<1>5. \A n \in Int : position <= n => position' <= n
  BY <1>1
<1>6. Accounts'
  <2>1. Expected \in Int
    <3>1. Unheard => Newest.filled \in Int
      BY NewestTyped DEF Unheard, Order
    <3> QED
      BY <3>1, LoopTyped DEF Expected, Doc
  <2>2. Expected' = Expected
    BY <1>1, <1>3 DEF Expected
  <2>3. Balanced => Balanced'
    BY <1>1, <1>2, <1>3, <1>5, <2>1, <2>2 DEF Balanced
  <2>4. Stuck => Stuck'
    BY <1>1, <1>2, <1>3 DEF Stuck
  <2> QED
    BY <2>3, <2>4 DEF Books, Accounts
<1>7. Fits(doc)' /\ ReadFits'
  BY <1>1, <1>3 DEF Books, ReadFits, Fits
<1>8. LoopFits'
  <2>1. Starting' /\ Sending' /\ AtWork' /\ Retrying' /\ Telling'
    BY <1>1, <1>3 DEF Books, LoopFits, Starting, Sending, AtWork, Retrying, Telling, Bound
  <2>2. Loop.ev.filled \in Int /\ Loop.seen.qty \in Int
    BY LoopTyped, CoroutineFields DEF Event, Doc
  <2>3. Applying' /\ Asking'
    BY <1>1, <1>2, <1>3, <1>5, <2>2 DEF Books, LoopFits, Applying, Asking
  <2> QED
    BY <2>1, <2>3 DEF LoopFits
<1>9. SupervisorFits' /\ StartFits' /\ StopFits' /\ Ending'
  BY <1>1, <1>2, <1>3
     DEF Books, SupervisorFits, SeenBySupervisor, StartFits, StopFits, Ending
<1> QED
  BY <1>4, <1>6, <1>7, <1>8, <1>9 DEF Books

-----------------------------------------------------------------------------
(* The invariant, and what it says.                                        *)

LEMMA StaysAttended ==
    ASSUME setup'.commands = setup.commands, setup'.timeouts = setup.timeouts,
           bot' = bot, alive' => alive, Attended'
    PROVE  Attended
BY DEF Attended, Forced, LeftAlone, Unattended

LEMMA BooksRest ==
    ASSUME Types, Books, UNCHANGED vars
    PROVE  Books'
<1>1. /\ Undisturbed /\ proc' = proc /\ Loop' = Loop
      /\ UNCHANGED <<doc, lock, bot, alive, stopping, stream>>
  BY DEF vars, Undisturbed, Loop
<1>2. /\ Reported' /\ NobodySold' /\ Accounts' /\ Fits(doc)' /\ LoopFits'
      /\ (Unheard' <=> Unheard) /\ (LeftAlone' <=> LeftAlone)
  BY <1>1, OthersBalance
<1>3. ReadFits'
  <2>1. Loop.read /\ Loop.pc \in Locked => lock'[bot] = "L"
    BY <1>1 DEF Books, ReadFits
  <2> QED
    BY <1>1, <2>1, OthersRead
<1>4. SupervisorFits' /\ StartFits' /\ StopFits' /\ Ending'
  BY <1>1, <1>2 DEF Books, SupervisorFits, SeenBySupervisor, StartFits, StopFits, Ending
<1> QED
  BY <1>2, <1>3, <1>4 DEF Books

LEMMA BooksKept ==
    ASSUME OneInv, Attended => Books, [Next]_vars, Attended'
    PROVE  Books'
<1>1. /\ Types /\ Sized /\ setup \in Setup /\ bot \in Nat
      /\ ~ Forced => setup.lost = 0 /\ \A h \in Handlers : proc[h].pc \in Orderly
  BY TypesUnfolded DEF OneInv, BotInv, Unforced, OnlyLoopPlaces
<1>2. Attended => ~ Forced /\ ~ setup.timeouts
  BY DEF Attended
<1>3. CASE EventLoop
  <2>1. setup'.commands = setup.commands /\ setup'.timeouts = setup.timeouts
    BY <1>1, <1>3, LoopSetup DEF Setup
  <2>2. Attended
    BY <1>3, <2>1, LoopBot, StaysAttended
  <2> QED
    BY <1>1, <1>2, <1>3, <2>2, LoopBooks
<1>4. CASE Supervisor
  <2>1. UNCHANGED <<bot, alive, setup>>
    BY <1>4 DEF Supervisor, TimesOut, CheckFill, EntryTimeout, Touch, GoesStale, Crash, Read,
                instanceVars
  <2>2. Attended
    BY <2>1, StaysAttended
  <2> QED
    BY <1>1, <1>2, <1>4, <2>2, SupervisorBooks
<1>5. ASSUME NEW h \in Handlers, Handler(h) PROVE Books'
  <2>1. ~ Forced
    BY <1>5, HandlerAsks DEF OneInv, Attended, Forced
  <2>2. proc[h].pc \in Orderly
    BY <1>1, <2>1
  <2>3. ~ Pipeline(h)
    BY <2>2
       DEF Orderly, Pipeline, PreState, Place, PlaceOp, Persist, Post, Answered, PatchOrderId,
           Failed, Rollback, RevertToState, Transition, PlainWrite
  <2>4. setup' = setup
    BY <1>5, <2>3
       DEF Handler, Start, Started, AskStop, Stopped, ForceStopped, Reset, ForceTrade, Quit,
           Armed, Replace, Read
  <2>5. CASE Start(h)
    <3>1. bot' = bot + 1
      BY <2>5, Zenon DEF Start
    <3>2. bot' # 0 /\ (bot' = 1 => bot = 0)
      BY <1>1, <3>1
    <3> QED
      BY <1>1, <1>5, <2>1, <2>2, <2>4, <3>2, HandlerBooks
         DEF Attended, Forced, LeftAlone, Unattended
  <2>6. CASE ~ Start(h)
    <3>1. bot' = bot /\ (alive' => alive)
      BY <1>5, <2>3, <2>6
         DEF Handler, Started, AskStop, Stopped, ForceStopped, Gone, Reset, ForceTrade, Quit,
             Armed, Replace, Read, instanceVars
    <3>2. Attended
      BY <2>4, <3>1, StaysAttended
    <3> QED
      BY <1>1, <1>5, <2>1, <2>2, <3>2, HandlerBooks
  <2> QED
    BY <2>5, <2>6
<1>6. CASE Engine
  <2>1. UNCHANGED <<bot, alive, setup>>
    BY <1>6 DEF Engine, instanceVars
  <2>2. Attended
    BY <2>1, StaysAttended
  <2> QED
    BY <1>1, <1>6, <2>2, EngineBooks
<1>7. CASE UserSells
  <2>1. UNCHANGED <<bot, alive>> /\ setup' = [setup EXCEPT !.manual = @ - 1]
    BY <1>7 DEF UserSells, instanceVars
  <2>2. Attended
    BY <1>1, <2>1, StaysAttended DEF Setup
  <2> QED
    BY <1>1, <1>7, <2>2, UserSellsBooks
<1>8. CASE UNCHANGED vars
  <2>1. UNCHANGED <<bot, alive, setup>>
    BY <1>8 DEF vars
  <2>2. Attended
    BY <2>1, StaysAttended
  <2> QED
    BY <1>1, <1>8, <2>2, BooksRest
<1> QED
  BY <1>3, <1>4, <1>5, <1>6, <1>7, <1>8 DEF Next

LEMMA BooksStart ==
    ASSUME Init
    PROVE  Books
<1>1. /\ doc = FreshDoc /\ bot = 0 /\ ~ alive /\ ~ stopping
      /\ orders = <<>> /\ stream = <<>> /\ position = 0 /\ setup \in Setups
      /\ \A p \in Procs : proc[p] = Idle
  BY DEF Init
<1>2. Loop = Idle /\ proc["S"] = Idle /\ \A h \in Handlers : proc[h] = Idle
  BY <1>1, ProcsAre DEF Loop
<1>3. ~ Unheard /\ Len(orders) = 0 /\ Len(stream) = 0
  BY <1>1 DEF Unheard
<1>4. FreshDoc.state = "OFF" /\ FreshDoc.qty = 0
  BY DEF FreshDoc
<1>5. Reported
  BY <1>1, <1>2, <1>3, IdleFields
     DEF Reported, Ends, Streamed, InHand, Handling, FillSteps, CancelSteps
<1>6. Accounts /\ Fits(doc) /\ ReadFits
  BY <1>1, <1>2, <1>3, <1>4, IdleFields DEF Accounts, Balanced, Expected, Fits, ReadFits
<1>7. LoopFits
  BY <1>1, <1>2, <1>3, IdleFields
     DEF LoopFits, Starting, Sending, AtWork, Retrying, Telling, Applying, Asking,
         Handling, FillSteps, CancelSteps, Early, Waiting
<1>8. SupervisorFits /\ StartFits /\ StopFits /\ Ending
  BY <1>1, <1>2, <1>3, <1>4, IdleFields DEF SupervisorFits, StartFits, StopFits, Ending
<1>9. NobodySold
  BY <1>1 DEF NobodySold, LeftAlone, NobodySells, Unattended
<1> QED
  BY <1>5, <1>6, <1>7, <1>8, <1>9 DEF Books

LEMMA BooksHold ==
    ASSUME AnswersCome
    PROVE  Spec => []BooksInv
<1>1. Init => BooksInv
  BY OneStarts, BooksStart DEF BooksInv
<1>2. BooksInv /\ [Next]_vars => BooksInv'
  BY OneStepKeeps, BooksKept DEF BooksInv
<1> QED
  BY <1>1, <1>2, PTL DEF Spec

(* Quiet, the loop has heard of everything, and the document says what the *)
(* account has at most.                                                    *)
LEMMA QuietBalances ==
    ASSUME Types, Books, Quiet, doc.state # "ERRORED"
    PROVE  position <= doc.qty /\ (LeftAlone => position = doc.qty)
<1>1. Balanced
  BY DEF Books, Accounts, Stuck
<1>2. Loop.pc = "idle" /\ stream = <<>>
  BY ProcsAre DEF Quiet, Loop
<1>3. orders # <<>> => Newest.ended \/ Newest.status = "refused"
  BY NewestTyped DEF Quiet, Over, Newest
<1>4. ~ Unheard
  BY <1>2, <1>3 DEF Unheard, Handling, FillSteps, CancelSteps
<1> QED
  BY <1>1, <1>4 DEF Balanced, Expected

LEMMA LeftAloneAttended ==
    ASSUME NobodySells, Unattended
    PROVE  Attended /\ LeftAlone
BY DEF Attended, LeftAlone, Unattended, Forced

(* The exits of a bot that is left alone never sell more than its entries  *)
(* bought: what on_exit_filled() takes from qty is what the exits have     *)
(* sold, the retries of residuals included.                                *)
THEOREM NothingIsOversold ==
    ASSUME AnswersCome, NobodySells
    PROVE  Spec => []NoOversell
<1>1. BooksInv => NoOversell
  <2> SUFFICES ASSUME BooksInv, Unattended PROVE position >= 0
    BY DEF NoOversell
  <2> QED
    BY LeftAloneAttended, NeverShort DEF BooksInv, OneInv, BotInv
<1> QED
  BY <1>1, BooksHold, PTL

(* When every event has been handled, the document of a bot that is left   *)
(* alone has the quantity that the account has, or the bot is in ERRORED.  *)
THEOREM BotsAgreeWithTheAccount ==
    ASSUME AnswersCome, NobodySells
    PROVE  Spec => []Agreement
<1>1. BooksInv => Agreement
  <2> SUFFICES ASSUME BooksInv, Unattended, Quiet, doc.state # "ERRORED" PROVE doc.qty = position
    BY DEF Agreement
  <2> QED
    BY LeftAloneAttended, QuietBalances DEF BooksInv, OneInv, BotInv
<1> QED
  BY <1>1, BooksHold, PTL

(* The first instance of a bot that nobody forces and no timer gives up on *)
(* never thinks it has less than the account has, whatever the user sells. *)
THEOREM NothingIsLeftUnattended ==
    ASSUME AnswersCome
    PROVE  Spec => []NothingUnattended
<1>1. BooksInv => NothingUnattended
  <2> SUFFICES ASSUME BooksInv, Quiet, ~ Forced, ~ setup.timeouts, bot <= 1,
                      doc.state # "ERRORED"
               PROVE  doc.qty >= position
    BY DEF NothingUnattended
  <2>1. Types /\ bot \in Nat /\ position \in Int
    BY TypesUnfolded DEF BooksInv, OneInv, BotInv
  <2>2. Attended
    BY <2>1 DEF Attended, Quiet
  <2>3. doc.qty \in Int
    BY <2>1, LoopTyped DEF Doc
  <2> QED
    BY <2>1, <2>2, <2>3, QuietBalances DEF BooksInv
<1> QED
  BY <1>1, BooksHold, PTL
=============================================================================
