---------------------------- MODULE OrderEvents ----------------------------
(***************************************************************************)
(* The path of an order's events through the engine: the broker (IB and    *)
(* ib_async, not part of the repository), the gate of ib/insync_client.py  *)
(* that verifies every cancel, the per-order lock that keeps callbacks in  *)
(* order, the relay of engine/main.py, the ledger, the order:updates       *)
(* stream, the orders:open hash and the sweep that reconciles it with IB.  *)
(* All orders are in one symbol and fills are one lot each.                *)
(***************************************************************************)
EXTENDS OrderLedger, FiniteSets, SequencesExt

CONSTANTS
    Faults,       \* the mixes of faults: sets of "late", "foreign", "spurious", "dup"
    MaxLate,      \* bound: execDetails of one order that come late or never
    MaxSpurious,  \* bound: cancels IB reports of one order that goes on
    MaxFilledDup, \* bound: how often IB repeats an order's Filled status
    MaxForeign,   \* bound: lots traded in the symbol by others on the account
    MaxWire,      \* bound: the messages on the wire when IB acts again
    Sweeps        \* whether the orders:open sweep runs

ASSUME EventsAssumption ==
    /\ Faults \subseteq SUBSET {"late", "foreign", "spurious", "dup"}
    /\ MaxLate \in Nat /\ MaxSpurious \in Nat /\ MaxFilledDup \in Nat
    /\ MaxForeign \in Nat /\ MaxWire \in Nat
    /\ Sweeps \in BOOLEAN /\ 0 \in Positions

VARIABLES
    broker,       \* IB's state of each order
    executed,     \* the lots IB has executed for it
    wire,         \* the messages from IB not yet handled, in order
    late,         \* the fills whose execDetails are not on the wire
    faults,       \* the faults that this behaviour may have
    lates,        \* how many fills have been late so far
    spurious,     \* how many spurious cancels IB has reported
    asked,        \* the orders the engine has asked IB to cancel
    foreign,      \* the lots bought by others: manual trades, other clients
    ibPosition,   \* ib_async's net position of the symbol
    shown,        \* trade.orderStatus.status
    verifying,    \* the _verify_cancel tasks that have not yet asked IB
    calls,        \* the callbacks waiting for the order's lock
    relay,        \* what the callback that holds the lock has left to do
    registering,  \* what the task that relays the registration has left to do
    updates,      \* the order:updates stream, each order's part of it
    openRows,     \* the keys of the orders:open hash
    sweep         \* the open orders of the running sweep's snapshot

brokerVars == <<broker, executed, late, lates, faults, spurious, asked, foreign>>
wrapperVars == <<shown, verifying>>
relayVars == <<relay, registering, updates, openRows>>
vars == <<ledgerVars, brokerVars, wire, ibPosition, wrapperVars, calls, relayVars, sweep>>

Working == {"sent", "live", "moving"}
Done == {"filled", "cancelled", "inactive"}
OpenAtBroker == {o \in Orders : broker[o] \in {"sent", "live"}}

FillMsg == [kind |-> "fill"]
StatusMsg(status, perm) == [kind |-> "status", status |-> status, perm |-> perm]
OpenOrdersMsg(open) == [kind |-> "openOrders", open |-> open]
Messages == {FillMsg} \cup {StatusMsg(s, p) : s \in Statuses, p \in BOOLEAN}
                      \cup {OpenOrdersMsg(b) : b \in BOOLEAN}

FillCall == [kind |-> "on_fill"]
StatusCall(status) == [kind |-> "on_status", status |-> status]
Calls == {FillCall} \cup {StatusCall(s) : s \in Statuses}

NoSweep == [on |-> FALSE, open |-> {}]

TypeOK ==
    /\ LedgerTypeOK
    /\ broker \in [Orders -> Working \cup Done \cup {"none"}]
    /\ \A o \in Orders : executed[o] \in 0 .. Size[o]
    /\ faults \in Faults
    /\ late \in [Orders -> 0 .. MaxLate] /\ lates \in [Orders -> 0 .. MaxLate]
    /\ spurious \in [Orders -> 0 .. MaxSpurious]
    /\ asked \subseteq Orders
    /\ foreign \in 0 .. MaxForeign
    /\ wire \in [Orders -> Seq(Messages)]
    /\ ibPosition \in Int
    /\ shown \in [Orders -> Statuses]
    /\ verifying \in [Orders -> Nat]
    /\ calls \in [Orders -> Seq(Calls)]
    /\ relay \in [Orders -> {"idle", "upsert", "remove"}]
    /\ registering \in [Orders -> {"none", "stream", "hash"}]
    /\ updates \in [Orders -> Seq(Event)]
    /\ openRows \subseteq Orders
    /\ sweep \in [on : BOOLEAN, open : SUBSET Orders]

Send(o, msgs) == wire' = [wire EXCEPT ![o] = @ \o msgs]
ScheduleMutant(o, call) == calls' = [calls EXCEPT ![o] = <<call>> \o @]
Schedule(o, call) == calls' = [calls EXCEPT ![o] = Append(@, call)]

NetPosition ==
    LET signed(o) == IF Side[o] = "BUY" THEN executed[o] ELSE -executed[o]
    IN  FoldSet(LAMBDA o, sum : sum + signed(o), foreign, Orders)

-----------------------------------------------------------------------------
(* The broker.                                                             *)

Accept(o) ==
    /\ broker[o] = "sent"
    /\ broker' = [broker EXCEPT ![o] = "live"]
    /\ Send(o, <<StatusMsg("Submitted", TRUE)>>)
    /\ UNCHANGED <<executed, late, lates, faults, spurious, asked, foreign>>

Reject(o) ==
    /\ broker[o] = "sent"
    /\ broker' = [broker EXCEPT ![o] = "inactive"]
    /\ Send(o, <<StatusMsg("Inactive", TRUE)>>)
    /\ UNCHANGED <<executed, late, lates, faults, spurious, asked, foreign>>

Copies == 1 .. 1 + IF "dup" \in faults THEN MaxFilledDup ELSE 0

(* One lot is executed.  Its execDetails precede the status, unless they   *)
(* are late.  IB repeats the Filled status of a completed order.           *)
Execute(o, isLate, copies) ==
    LET complete == executed[o] + 1 = Size[o]
        status == StatusMsg(IF complete THEN "Filled" ELSE "Submitted", TRUE)
    IN  /\ broker[o] = "live"
        /\ complete \/ copies = 1
        /\ isLate => "late" \in faults /\ lates[o] < MaxLate
        /\ executed' = [executed EXCEPT ![o] = @ + 1]
        /\ broker' = [broker EXCEPT ![o] = IF complete THEN "filled" ELSE @]
        /\ late' = [late EXCEPT ![o] = IF isLate THEN @ + 1 ELSE @]
        /\ lates' = [lates EXCEPT ![o] = IF isLate THEN @ + 1 ELSE @]
        /\ Send(o, (IF isLate THEN <<>> ELSE <<FillMsg>>) \o [i \in 1 .. copies |-> status])
        /\ UNCHANGED <<faults, spurious, asked, foreign>>

Cancel(o) ==
    /\ broker[o] \in {"sent", "live"}
    /\ broker' = [broker EXCEPT ![o] = "cancelled"]
    /\ Send(o, <<StatusMsg("Cancelled", TRUE)>>)
    /\ UNCHANGED <<executed, late, lates, faults, spurious, asked, foreign>>

(* Cancels of orders that go on: before IB has given the order a permId,   *)
(* from a rejected modification, or while it moves between two venues.     *)
SpuriousCancel(o, perm, moves) ==
    /\ "spurious" \in faults /\ spurious[o] < MaxSpurious
    /\ broker[o] = IF perm THEN "live" ELSE "sent"
    /\ moves => perm
    /\ broker' = [broker EXCEPT ![o] = IF moves THEN "moving" ELSE @]
    /\ spurious' = [spurious EXCEPT ![o] = @ + 1]
    /\ Send(o, <<StatusMsg("Cancelled", perm)>>)
    /\ UNCHANGED <<executed, late, lates, faults, asked, foreign>>

Rerouted(o) ==
    /\ broker[o] = "moving"
    /\ broker' = [broker EXCEPT ![o] = "live"]
    /\ Send(o, <<StatusMsg("Submitted", TRUE)>>)
    /\ UNCHANGED <<executed, late, lates, faults, spurious, asked, foreign>>

BrokerStep ==
    /\ \E o \in Orders :
       /\ Len(wire[o]) <= MaxWire
       /\ \/ Accept(o) \/ Reject(o) \/ Cancel(o) \/ Rerouted(o)
          \/ \E isLate \in BOOLEAN, copies \in Copies : Execute(o, isLate, copies)
          \/ \E perm, moves \in BOOLEAN : SpuriousCancel(o, perm, moves)
    /\ UNCHANGED <<ledgerVars, ibPosition, wrapperVars, calls, relayVars, sweep>>

(* Someone else on the account buys a lot of the symbol.                   *)
ForeignTrade ==
    /\ "foreign" \in faults /\ foreign < MaxForeign
    /\ foreign' = foreign + 1
    /\ UNCHANGED <<ledgerVars, broker, executed, late, lates, faults, spurious, asked, wire,
                   ibPosition, wrapperVars, calls, relayVars, sweep>>

(* positionEvent: ib_async's position catches up with the executions.      *)
PositionEvent ==
    /\ ibPosition # NetPosition /\ NetPosition \in Positions
    /\ ibPosition' = NetPosition
    /\ UNCHANGED <<ledgerVars, brokerVars, wire, wrapperVars, calls, relayVars, sweep>>

-----------------------------------------------------------------------------
(* The engine's client, ib/insync_client.py.                               *)

(* on_order_placed snapshots the position, registers the order and spawns  *)
(* the task that relays the registration.                                  *)
OnOrderPlaced(o) ==
    /\ Register(o, Side[o], Size[o], ibPosition)
    /\ registering' = [registering EXCEPT ![o] = "stream"]

(* place_*_order: sends the order and, before any other callback can run,  *)
(* calls on_order_placed.                                                  *)
Place(o) ==
    /\ broker[o] = "none" /\ o \notin Phantoms
    /\ broker' = [broker EXCEPT ![o] = "sent"]
    /\ OnOrderPlaced(o)
    /\ UNCHANGED <<executed, late, lates, faults, spurious, asked, foreign, wire, ibPosition,
                   wrapperVars, calls, relay, updates, openRows, sweep>>

(* cancel_order: skipped when the trade shows a terminal status; ib_async  *)
(* reports PendingCancel at once.                                          *)
AskCancel(o) ==
    /\ broker[o] # "none" /\ o \notin asked
    /\ shown[o] \notin {"Cancelled", "Filled", "Inactive"}
    /\ asked' = asked \cup {o}
    /\ shown' = [shown EXCEPT ![o] = "PendingCancel"]
    /\ Schedule(o, StatusCall("PendingCancel"))
    /\ UNCHANGED <<ledgerVars, broker, executed, late, lates, faults, spurious, foreign, wire,
                   ibPosition, verifying, relayVars, sweep>>

(* _previous_clean_status: the last status other than a cancel, forgotten  *)
(* when a terminal is dispatched; its default is Submitted.                *)
PreviousCleanStatus(o) ==
    IF shown[o] \in TerminalStatuses \cup {"PendingSubmit"} THEN "Submitted" ELSE shown[o]

(* _on_exec_details                                                        *)
OnExecDetails(o, msg) ==
    /\ msg.kind = "fill"
    /\ Schedule(o, FillCall)
    /\ UNCHANGED wrapperVars

(* _on_order_status: a cancel without a permId, and with nothing filled,   *)
(* is swallowed; any other cancel is hidden and a task verifies it; other  *)
(* statuses go to the callbacks.                                           *)
OnOrderStatus(o, msg) ==
    /\ msg.kind = "status"
    /\ CASE msg.status \in Cancels /\ ~msg.perm ->
              /\ shown' = [shown EXCEPT ![o] = msg.status]
              /\ UNCHANGED <<verifying, calls>>
         [] msg.status \in Cancels /\ msg.perm ->
              /\ shown' = [shown EXCEPT ![o] = PreviousCleanStatus(o)]
              /\ verifying' = [verifying EXCEPT ![o] = @ + 1]
              /\ UNCHANGED calls
         [] OTHER ->
              /\ shown' = [shown EXCEPT ![o] = msg.status]
              /\ Schedule(o, StatusCall(msg.status))
              /\ UNCHANGED verifying

(* _verify_cancel, when IB's open orders arrive: dropped if the order is   *)
(* open or has filled meanwhile, else dispatched.                          *)
OnVerified(o, msg) ==
    /\ msg.kind = "openOrders"
    /\ IF msg.open \/ shown[o] = "Filled"
       THEN UNCHANGED <<shown, calls>>
       ELSE /\ shown' = [shown EXCEPT ![o] = "Cancelled"]
            /\ Schedule(o, StatusCall("Cancelled"))
    /\ UNCHANGED verifying

Deliver(o) ==
    /\ wire[o] # <<>>
    /\ wire' = [wire EXCEPT ![o] = Tail(@)]
    /\ LET msg == Head(wire[o])
       IN  OnExecDetails(o, msg) \/ OnOrderStatus(o, msg) \/ OnVerified(o, msg)
    /\ UNCHANGED <<ledgerVars, brokerVars, ibPosition, relayVars, sweep>>

DeliverLate(o) ==
    /\ late[o] > 0
    /\ late' = [late EXCEPT ![o] = @ - 1]
    /\ Schedule(o, FillCall)
    /\ UNCHANGED <<ledgerVars, broker, executed, lates, faults, spurious, asked, foreign, wire,
                   ibPosition, wrapperVars, relayVars, sweep>>

(* _verify_cancel asks IB for its open orders; a failed request counts as  *)
(* "still open".                                                           *)
AskOpenOrders(o) ==
    /\ verifying[o] > 0
    /\ verifying' = [verifying EXCEPT ![o] = @ - 1]
    /\ \/ Send(o, <<OpenOrdersMsg(o \in OpenAtBroker)>>)
       \/ UNCHANGED wire
    /\ UNCHANGED <<ledgerVars, brokerVars, ibPosition, shown, calls, relayVars, sweep>>

-----------------------------------------------------------------------------
(* The relay, engine/main.py.  The next callback of an order runs when the *)
(* one before has released the lock: it calls the ledger and publishes     *)
(* what that returned, then updates orders:open.                           *)
LedgerCallMutant(o, call) ==
    \/ call.kind = "on_fill" /\ RecordFill(o, 0, Side[o], 0, Size[o])
    \/ call.kind = "on_status" /\ RecordStatus(o, call.status, Side[o], o \in Tagged, ibPosition)
LedgerCall(o, call) ==
    \/ call.kind = "on_fill" /\ RecordFill(o, 1, Side[o], 0, Size[o])
    \/ call.kind = "on_status" /\ RecordStatus(o, call.status, Side[o], o \in Tagged, ibPosition)

RunCall(o) ==
    /\ calls[o] # <<>> /\ relay[o] = "idle"
    /\ calls' = [calls EXCEPT ![o] = Tail(@)]
    /\ LedgerCall(o, Head(calls[o]))
    /\ updates' = [updates EXCEPT ![o] = @ \o out']
    /\ relay' = [relay EXCEPT ![o] = IF out' = <<>> THEN "idle"
                                     ELSE IF out'[1].terminal THEN "remove" ELSE "upsert"]
    /\ UNCHANGED <<brokerVars, wire, ibPosition, wrapperVars, registering, openRows, sweep>>

UpdateOrdersOpen(o) ==
    /\ relay[o] # "idle"
    /\ openRows' = IF relay[o] = "remove" THEN openRows \ {o} ELSE openRows \cup {o}
    /\ relay' = [relay EXCEPT ![o] = "idle"]
    /\ UNCHANGED <<ledgerVars, brokerVars, wire, ibPosition, wrapperVars, calls,
                   registering, updates, sweep>>

(* _relay_register runs outside the order's lock.                          *)
RelayRegister(o) ==
    /\ \/ /\ registering[o] = "stream"
          /\ registering' = [registering EXCEPT ![o] = "hash"]
          /\ updates' = [updates EXCEPT ![o] =
                Append(@, [id |-> o, terminal |-> FALSE, status |-> "Submitted",
                           filled |-> 0, target |-> Size[o]])]
          /\ UNCHANGED openRows
       \/ /\ registering[o] = "hash"
          /\ registering' = [registering EXCEPT ![o] = "none"]
          /\ openRows' = openRows \cup {o}
          /\ UNCHANGED updates
    /\ UNCHANGED <<ledgerVars, brokerVars, wire, ibPosition, wrapperVars, calls, relay, sweep>>

(* The watchdog of the position poll loop.                                 *)
Watchdog(old) ==
    /\ CheckStuck(old)
    /\ UNCHANGED <<brokerVars, wire, ibPosition, wrapperVars, calls, relayVars, sweep>>

(* sync_orders_open_from_ib: takes IB's open orders, then makes the hash   *)
(* agree with that snapshot.                                               *)
SweepSnapshot ==
    /\ Sweeps /\ ~sweep.on
    /\ sweep' = [on |-> TRUE, open |-> OpenAtBroker]
    /\ UNCHANGED <<ledgerVars, brokerVars, wire, ibPosition, wrapperVars, calls, relayVars>>

SweepApplyMutant ==
    /\ sweep.on
    /\ openRows' = openRows \cup sweep.open
    /\ sweep' = NoSweep
    /\ UNCHANGED <<ledgerVars, brokerVars, wire, ibPosition, wrapperVars, calls,
                   relay, registering, updates>>
SweepApply ==
    /\ sweep.on
    /\ openRows' = sweep.open
    /\ sweep' = NoSweep
    /\ UNCHANGED <<ledgerVars, brokerVars, wire, ibPosition, wrapperVars, calls,
                   relay, registering, updates>>

-----------------------------------------------------------------------------
Init ==
    /\ LedgerInit
    /\ broker = [o \in Orders |-> "none"]
    /\ executed = [o \in Orders |-> 0]
    /\ faults \in Faults
    /\ late = [o \in Orders |-> 0] /\ lates = [o \in Orders |-> 0]
    /\ spurious = [o \in Orders |-> 0]
    /\ asked = {}
    /\ foreign = 0
    /\ wire = [o \in Orders |-> <<>>]
    /\ ibPosition = 0
    /\ shown = [o \in Orders |-> "PendingSubmit"]
    /\ verifying = [o \in Orders |-> 0]
    /\ calls = [o \in Orders |-> <<>>]
    /\ relay = [o \in Orders |-> "idle"]
    /\ registering = [o \in Orders |-> "none"]
    /\ updates = [o \in Orders |-> <<>>]
    /\ openRows = {}
    /\ sweep = NoSweep

Client(o) ==
    \/ Place(o) \/ AskCancel(o) \/ Deliver(o) \/ DeliverLate(o) \/ AskOpenOrders(o)
    \/ RunCall(o) \/ UpdateOrdersOpen(o) \/ RelayRegister(o)

Next ==
    \/ BrokerStep \/ ForeignTrade \/ PositionEvent
    \/ \E o \in Orders : Client(o)
    \/ \E old \in SUBSET tracked : Watchdog(old)
    \/ SweepSnapshot \/ SweepApply

Spec == Init /\ [][Next]_vars

(* Every task of the engine's event loop runs, the two periodic loops come *)
(* round again, and IB finishes moving an order.  Nothing obliges IB to    *)
(* accept, fill or cancel an order, nor a late fill to arrive.             *)
Fairness ==
    /\ \A o \in Orders :
          /\ WF_vars(Deliver(o)) /\ WF_vars(AskOpenOrders(o)) /\ WF_vars(RunCall(o))
          /\ WF_vars(UpdateOrdersOpen(o)) /\ WF_vars(RelayRegister(o))
          /\ WF_vars(BrokerStep /\ Rerouted(o))
    /\ WF_vars(Watchdog(tracked))
    /\ WF_vars(SweepSnapshot) /\ WF_vars(SweepApply)

FairSpec == Spec /\ Fairness

-----------------------------------------------------------------------------
(* Properties *)

(* Where the terminal events of an order are in its part of the stream.    *)
Terminals(o) == {i \in 1 .. Len(updates[o]) : updates[o][i].terminal}
FirstTerminal(o) == updates[o][Min(Terminals(o))]

(* The first terminal event of an order whose execDetails all came in      *)
(* order, in a symbol nobody else trades, says exactly what IB did: the    *)
(* quantity IB executed, and Filled only for a complete order.  It needs   *)
(* the per-order lock (a status must not overtake a fill), the             *)
(* verification of cancels and the hold of a cancel that may be a          *)
(* re-route.  (The hold is off once the engine has asked to cancel, so a   *)
(* re-route meeting a cancel request is left out, as is a second re-route.)*)
TerminalIsTrue ==
    \A o \in Orders :
        Terminals(o) # {} /\ lates[o] = 0 /\ foreign = 0
          /\ spurious[o] <= 1 /\ (o \notin asked \/ spurious[o] = 0) =>
            /\ FirstTerminal(o).filled = executed[o]
            /\ FirstTerminal(o).status = "Filled" <=> broker[o] = "filled"

(* A spurious cancel never ends an order: as long as nobody asked to       *)
(* cancel it, its terminal event is not published while IB works it.  A    *)
(* second one in a row does, and is left out: the hold looks at the last   *)
(* status only, and two cancels may have been verified before it.          *)
NoFalseEnd ==
    \A o \in Orders \ asked : spurious[o] <= 1 /\ broker[o] \in Working => Terminals(o) = {}

(* A fill whose execDetails never reached the ledger in time is recovered  *)
(* from the position: if the position cache is current when the terminal   *)
(* is published, nobody else traded the symbol and one fill was recorded,  *)
(* the terminal is credited with all that IB executed                      *)
(* (_apply_position_diff).                                                 *)
LostFillIsRecovered ==
    [][\A o \in Orders :
          (/\ Terminals(o) = {} /\ Terminals(o)' # {}
           /\ entry[o].filled > 0 /\ ibPosition = NetPosition /\ foreign = 0)
          => FirstTerminal(o)'.filled = executed[o]]_vars

(* The stream keeps the promise of OrderOutcome: the terminal events of an *)
(* order are announcements, and between two watchdog ticks there is at     *)
(* most one.                                                               *)
Outcome == INSTANCE OrderOutcome
              WITH closed <- evicted, ends <- [o \in Orders |-> Cardinality(Terminals(o))]
KeepsOutcome == Outcome!OutcomeSpec

(* Whatever callbacks the broker causes, the ledger behaves as OrderLedger *)
(* allows: what holds of the ledger alone holds of it here.                *)
KeepsLedger == LedgerInit /\ [][UNCHANGED ledgerVars \/ LedgerNext]_ledgerVars

(* No order that IB is done with is silently left open: its terminal event *)
(* is published or the watchdog raises an alert for its entry.             *)
DoneIsReported ==
    \A o \in Orders : broker[o] \in Done ~> (Terminals(o) # {} \/ entry[o].alerted)

(* When IB stops acting, orders:open comes to list exactly the orders that *)
(* are open at IB, whatever stale rows the racing writers left behind.     *)
OpenRowsConverge == <>[](openRows = OpenAtBroker)
=============================================================================
