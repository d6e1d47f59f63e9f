# ib-trader: verification project

TLA+ models of the parts of ib-trader where an interleaving, a crash or a late
message can cost money: how the engine turns IB's callbacks into one true
outcome per order, how an order is worked until its rows say what became of it, how a trade
is closed while its exit legs fill on their own, what is left in the books when
a process dies and who corrects it, how the engine's session with IB and the
subscriptions on it survive drops, how a bot's coroutines share one document
while they enter and exit a position, when the chart strategy enters and exits,
how executions become the P&L on the chart, and how the bot runner starts, stops
and recovers bots. TLC checks them on small instances; TLAPS proves, for every
value of the constants, that the engine drives the order ledger as it is meant
to be driven and announces an order's end once; that rows, exit legs and closed
trades are what IB executed; that a lost session is attended to and given back;
that a command shown as running is being run; that a bot has one order at work
and a stopped one sends nothing; and that what the runner has started can be
stopped.

## The system

ib-trader runs as processes that share Redis and a SQLite file.

| part | state | operations | talks to |
| --- | --- | --- | --- |
| IB client, `ib/insync_client.py` | ib_async's trades and positions, per-order locks, verification tasks, subscriptions | place, amend, cancel; handlers of IB's events; `_verify_cancel`; reconnect | IB; callbacks to the engine |
| engine events, `engine/main.py` | `orders:open`, `order:updates`, the positions cache | relay of fills and statuses, sweep of `orders:open`, watchdog, position poll | ledger, Redis streams |
| order ledger, `engine/order_ledger.py` | `_entries`, `_recently_evicted` | `register`, `record_fill`, `record_status`, `check_stuck` | called by the engine's relays only |
| order execution, `engine/order.py` | `trade_groups`, `transactions`, the tracker | market, mid, limit, close; the reprice walker; cancel against fill | IB client, SQLite |
| engine requests, `engine/internal_api.py`, `service.py`, `recovery.py` | `pending_commands` | one endpoint per command; recovery at startup | order execution |
| IB resilience, `engine/ib_resilience.py`, `engine/main.py` | the backoff task, `alerts:active`, pending resubscriptions | reconnect, resubscribe, refresh | IB client, bots (by the alerts) |
| executions and P&L, `exec_accumulator.py`, `lifo_pnl.py`, `pnl_rollup.py`, `exec_markers.py` | the stored executions, roll-up and markers in Redis, `lifo_basis` | merge, match, roll up | engine main |
| bot, `bots/runtime.py`, `lifecycle.py`, `middleware.py` | the document `bot:<id>`, the state lock, the pipeline | the `on_*` methods, the event loop, the supervisor, the pipeline | engine over HTTP; Redis streams |
| bot runner, `bots/runner.py`, `internal_api.py`, `main.py` | `bot_instances`, `running_tasks` | startup sweep, auto-start, cleanup, the requests | bots, Redis |
| strategies, `bots/strategies/`, on `signals/` and `bar_aggregator.py` | the entry line, the stop and its timers in the document | `on_bar`, `on_quote`, `on_fill` | called by the bot |
| reconcilers and monitors, `engine/reconciler.py`, `daemon/` | alerts, reconciled rows, the pause | passes at startup and periodically | SQLite, IB |
| web API, REPL, frontend | none that others depend on | views and forwarded requests | Redis, SQLite, HTTP |

What makes it hard: everything in a process is one asyncio loop, so a
coroutine may be overtaken at every `await` and nowhere else; IB reports fills
and statuses separately, repeats them, delays them, and reports cancels of
orders that go on; a bot learns of its order through an HTTP answer, a stream
and position pushes, in any order; documents are read, awaited on, and written
whole; tasks are cancelled at any await; a process may be killed and finds its
documents as they were.

What makes each part correct:

- order events: the first terminal event of an order says what IB did; no
  spurious cancel ends an order; a lost fill is recovered and never invented;
  an order that is over is reported or alerted; `orders:open` converges.
- a bot: one order at work, no sale of what it has not got, no entry on top of
  a position, the document and the account agree when all is quiet, nothing is
  left unattended, a stopped bot sends nothing, entries and exits end.
- the runner: one task per bot, what runs can be stopped, a failed start can
  be repeated, a bot found in a position is reported and waits for an operator.
- order execution: an order is marked cancelled only if it is over; the rows'
  quantities are what IB executed; exit legs are for lots the trade has; a trade
  is closed when it is flat, and what is not closed keeps its legs.
- the books: RUNNING means that something runs; what lives at IB although its
  row says it is over is told to the operator.
- the session: a lost one is always attended to; its alerts end with its return;
  who had quotes and bars has them again.
- the chart strategy: an entry is sent only on a line that holds, or on lows that
  rise ever more, is not one its own bar would close, and is recorded with its reason; a stop or a counter exit
  is due to quotes of this trade; a loss is cut.
- executions: nothing is gained or lost by matching them last-in-first-out, and
  whatever came late is made up for by one sweep.

`PROJECT.json` lists every component with what is modelled of it, and every
hazard at the line where it bites.

## Modules

| module | stands for | extends |
| --- | --- | --- |
| `OrderLedger` | `order_ledger.py`: four operations as actions, `out` is what the last call returned; its properties | |
| `OrderOutcome` | abstract: an order's end is announced at most once between two clearings of the evicted ids | |
| `OrderEvents` | IB (external), `insync_client.py`'s handlers, lock and verification, `main.py`'s relays, sweep and watchdog | `OrderLedger` |
| `OrderEventsProofs` | theorems about `OrderLedger`, then about `OrderEvents`: both refinements, and what the engine says of an order's end is what IB did | `OrderEvents` |
| `BotDoc` | the document and what each `on_*` method makes of it | |
| `BotLifecycle` | one bot, await by await, with the requests, the engine's orders and the account | `BotDoc` |
| `BotSafety` | its properties and fairness | `BotLifecycle` |
| `BotProofs` | theorems about `BotLifecycle` | `BotSafety` |
| `BotRunner` | the runner's passes and the requests, over many bots | |
| `BotRunnerSafety` | its properties | `BotRunner` |
| `BotRunnerProofs` | a theorem about `BotRunner` | `BotRunnerSafety` |
| `OrderAtIB` | an order as the engine's coroutines see it: IB's order (external), `orderStatus`, the executions told, the tracker | |
| `OrderWork` | `order.py`'s `execute_order()`: every strategy, from placement to rows and exit legs | `OrderAtIB` |
| `OrderWorkSafety` | its properties | `OrderWork` |
| `OrderWorkProofs` | theorems about `OrderWork` | `OrderWorkSafety` |
| `TradeWork`, `TradeWorkSafety` | `order.py`'s `execute_close()` and close by symbol, beside the exit legs; their properties | `OrderAtIB` |
| `TradeWorkProofs` | theorems about `TradeWork` | `TradeWorkSafety` |
| `Books`, `BooksSafety` | the rows of commands and orders, the recoveries and the daemon's passes; their properties | |
| `BooksProofs` | a theorem about `Books` | `BooksSafety` |
| `IbSession`, `IbSessionSafety` | the connection, its alerts, the subscriptions and all that restores them; their properties | |
| `IbSessionProofs` | theorems about `IbSession` | `IbSessionSafety` |
| `SrFan` | `sr_fan.py`: the lines and wedges of a series of closes | |
| `ChartBars`, `ChartBarsSafety` | `chart_signal.py` at bars: window, gates, filters, entry, exit check, audit row; its properties | `SrFan` |
| `ChartBarsProofs` | theorems about `ChartBars` and the fan of `SrFan` | `ChartBarsSafety` |
| `ChartTicks`, `ChartTicksSafety` | `chart_signal.py` between bars: stop, linger, polls, counter lines, and forced trades; its properties | |
| `Lifo` | `lifo_pnl.py`: the matching, and the seed lot's cost solved for backwards | |
| `Executions`, `ExecutionsSafety` | executions from IB to the accumulator, the roll-up and the markers; their properties | `Lifo` |
| `MC...` | the instances TLC checks | |

Operators named `...Mutant` are wrong forms of the operator after them, as a
plausible bug would have it. No specification uses them; they show that a
property notices the bug.

### OrderLedger and OrderEvents

`tracked` and `entry` are `_entries`, `evicted` is `_recently_evicted`. A fill
is its quantity, so a list of fills is a sum; prices, commissions and texts are
left out. `OrderLedger` takes the arguments of every call from the types of the
callbacks, so it allows more than the engine does; `OrderEvents` supplies them
from a broker and is checked to stay within it (`KeepsLedger`).

An `OrderEvents` action is what runs between two awaits. IB's messages queue on
`wire` in order, a late execDetails arrives by `DeliverLate` or never. A
handler's callback queues on `calls`, the per-order lock of
`_dispatch_ordered`, and runs as the ledger call with the stream write
(`RunCall`) and the write of `orders:open` (`UpdateOrdersOpen`). A cancel is
shown only after `_verify_cancel` has asked IB (`AskOpenOrders`, `OnVerified`).
`RelayRegister` is the registration's task, outside the lock. `Watchdog` is a
pass of the position poll, `SweepSnapshot` and `SweepApply` one of the
`orders:open` sweep. The broker may re-route an order (a cancel that is none),
repeat Filled, reject, execute lot by lot, and let others trade the symbol.

### OrderAtIB and OrderWork

`ib` is IB's order and `view` what `get_order_status()` returns of it, brought
up to date by `Reports` whenever IB's status comes: what `OrderEvents` models in
full is one step here, since `order.py` only polls. `told` counts the executions
that reached the scoped `on_fill`, which may run ahead of the status or never
come; `track` is the tracker's entry, set by `HearsFill` and `HearsEnd`. A
re-routed order shows Cancelled while it goes on (`Preroutes`).

`at` is where the coroutine of `execute_order()` is, each value an await whose
continuation is one or more actions; `job` is what it remembers over the awaits.
`first` is the order it places, `cross` the market order of SMART_MARKET, and
`pt`, `trail`, `sl` the exit legs. LIMIT and STOP have the same program. Waits
end when they may: the time-outs are not counted, so every wait may end at once
or after any news. `reprice` is the walker of MID, a task beside the coroutine;
that of SMART_MARKET is the coroutine itself. `_cancel_and_await_resolution()`
is `Cancelling`, `Resolve`; its callers continue in `Resolved`, and after a
time-out in `Probe`. `row` is the last action written for an order, `recorded`
the quantity in its fill row. Prices, commissions, P&L lines and what IB does to
the exit legs later are left out.

### TradeWork

The trade is filled and some of its legs rest at IB, which executes them when it
likes; an execution travels on `wire` to `handle_autonomous_close_fill()`
(`Autonomous`), which reads the rows and writes one of its own. `at[c]` and
`job[c]` are a close command's coroutine and its locals, as in `OrderWork`:
`execute_close()` cancels the legs one by one (`CancelLeg` to `LegCancelled`),
places under its strategy, and ends by one of the same resolutions; `Symbol` is
`_execute_close_symbol()`, which nets the position and cancels the other orders
in the symbol when it has executed. `row` and `rec` are each order's last action
and recorded quantity, `trade` the status of the group.

### Books

`cmd` is `pending_commands`, `rows`, `last` and `leg` what the queries read from
`transactions`, `trade` the group. The engine (`Begin` to `ClosesLeg`) writes
row by row and may die between any two (`Crash`, `Restart`); `ReplStarts` is
`recover_in_flight_orders()` with `close_orphaned_trade_groups()`; the daemon
goes round by `step`, asks IB (`Answers`) and applies the answer later
(`Reconciles`, `Flags`, `Verifies`); `Refreshes` is its dashboard, which turns
alerts into a pause. A fault is a crash of a process, a commit lost to a locked
database, or a request that IB does not answer.

### IbSession

`refs` are the reference counts of `_streaming` and `_realtime_bars`, `saved`
the pending resubscriptions a drop leaves, `served` what IB sends in this
session. A task subscribes feed by feed (`Asks`, `Subscribed`), awaiting the
throttle between the look at the table and the write. `loop`, `manual` and
`cycle` are the backoff loop, `reconnect_ib()` and the prophylactic refresh, and
`stage[r]` a post-reconnect task. That task replays the watchlist in Redis
(`Watchlist`), `reconnect_ib()` subscribes the YAML file's (`Seed`), which the operator's
list has left behind: the run lets them disagree. `alerts`, `writing` and `clearing` are
`alerts:active` and the writes and removals on their way to it.

### SrFan, ChartBars and ChartTicks

`SrFan` is the fan as an operator over a series of closes in whole ticks: a line
is a pair of pivots, compared without division; a resistance is a support of the
series upside down, and a short trade a long one. `ChartBars` has a raw bar per
step (`RawBar`): the aggregator's slots, the window stitched from the engine's
history, which may lag by a bar, and the local ring, and either the exit check or the chain of gates and
filters with its audit row; `last` is what was evaluated and decided. What a
bar's evaluation does is one action, because the runtime drops bars while an
order is placed and handles them one at a time. `ChartTicks` has a quote per
step (`Quote`): watermark, line, stop, the linger of marginal and the polls of
clean trades, counter lines, in the order of the handler; then bars, fills,
refusals, and the three steps of a forced entry beside them. Timers are kept as
the time they have run, up to the delay they are for. `seen` is history: what
the market has done in this trade.

### Lifo and Executions

Amounts are integers in units of 1/144, which makes every average of the bounded
inputs whole. `Executions` has IB (`Executes`, `Pairs` for a commission report,
`GatewayRestarts`), the position events and their unordered writes (`Moves`), and
the sweep in its steps: `Asks`, `Fetches`, `Computes`, `Saves`. `store`,
`rollup` and `markers` are Redis; `basis` is `lifo_basis`. A fetch may bring its contracts
without their multiplier, which later fetches have (`mult` of a record); a futures contract
that is held has it. Every execution has a side, shares and a price, as IB's client gives
them, so the fallback `incomplete_fill` of `_compute_one()` is left out.

### BotDoc and BotLifecycle

`BotDoc` has every `on_*` method as an operator on the document, and in `From`
the states from which it acts. In `BotLifecycle` the coroutines are `"L"` (the
event loop), `"S"` (the supervisor) and the handlers; `proc[p]` is the step a
coroutine is at, what it read, and the order and event it is about. Every
read-modify-write is `Read`, which takes `_state_lock` for an `on_*` method,
and a write: `Transition` for those, `PlainWrite` for `_write_state()`,
`_apply_fill()`, `_apply_cancel()` and `_apply_position_event()`, which take no
lock. An order goes `PreState`, `Place`, `Persist`, `Post`, then `Answered` and
`PatchOrderId`, or `Failed`, `Rollback` and `RevertToState`. A stop takes the
instance out of the table at once, so `Registered` is false from `AskStop` on,
and cancels the tasks at whatever await they are (`Gone`). `check_entry_timeout`
is `TimesOut`, `CheckFill`, `EntryTimeout`.

A strategy may decide to enter or exit whenever the state allows it. A request
to cancel changes nothing by itself: a working order may be cancelled at any
time, asked or not. The rate-limit breaker, daily counters, trade rows, trailing
stops and the strategies' own reactions to fills are left out, as is the order
in which waiters get an asyncio lock.

### BotRunner

`instance` and `task` are `bot_instances` and `running_tasks`, `doc` the states
in Redis (the three states of a trade are one, `IN_TRADE`), `main` the coroutine
of `run_bot_runner()`: sweep, auto-start pass, cleanup loop. `request[h]` is
where a client's request is. A reservation is `_RESERVED`; a task and its
instance have one number. What trading does to the document is `BotStep`.
Redis answers every request, but a bot's own connection may be lost, which ends
its task as if cancelled. The sweep and the auto-start pass are interleaved with
requests because `bots/main.py` serves those first. An unknown position of the
sweep's order over bots is any order.

## Runs

| run | checks | instance |
| --- | --- | --- |
| `events` | the terminal tells the truth, no false end, a lost fill is recovered, the promise of `OrderOutcome`; in the ledger a live id is not evicted, silence once evicted, sound terminals | one two-lot order, with a spurious cancel and a repeated Filled, or a late or lost execDetails and another trader |
| `events_live` | an order that is done is reported or alerted; `orders:open` converges; the ledger behaves as `OrderLedger` | with the sweep and the watchdog |
| `bot` | no oversell, document and account agree, nothing unattended, one working order, a stopped bot sends nothing, entries and exits end | three lots left alone; then stops, sales at TWS, every request, a lost answer, or the timers beside the loop |
| `runner` | what runs can be stopped; a failed start frees its slot | two bots, two clients, two tasks, a restart, any documents found |
| `work` | rows record what was executed, all of it once the cancel is confirmed; CANCELLED is over; legs are covered | one order of three lots, every strategy, every set of exit legs, one re-route |
| `trade` | a closed trade is flat; a close's row is what IB executed; a close by symbol leaves the legs of what it has not closed | two lots, one close under every kind of strategy, or by symbol, any legs resting |
| `books` | RUNNING is run; what lives at IB unknown to the rows is told | one order of two lots, or an exit leg, one command, two faults, two startups of the REPL |
| `session` | a lost session is attended to; no stale banner; watchlist and positions have quotes, bots their feeds | two contracts, two bots with a contract each or one between them, two post-reconnect tasks: drops with reconnects, crashes or refreshes |
| `chart_bars` | entries are on a line that holds or on lows that rise ever more; the audit row names what refused; an entry is not an exit | bar series that each filter ends somewhere, and the same upside down; a ring of one bar or of seven |
| `chart_ticks` | a stop and a counter exit are earned; a loss is cut | four prices, both sides, all kinds of entry |
| `executions` | nothing is gained or lost by LIFO; one sweep is enough | one or two executions, each hitch once |
| `wrong_way` | violated: an exit makes the position smaller | a force-short while a signal buys |

Bounds, and why they are enough. A ledger entry interacts with nothing but
itself and the evicted set, so one order shows every interplay, and the proofs
cover the others and the phantom ids. Two lots are the least that distinguish
partial from whole; three let an order be partly filled, crossed and partly
filled again, and a bot's exit be filled, ended and retried in pieces. One
repetition and one late fill suffice because each is handled without memory of
earlier ones, except by the evicted set, which a second clearing empties again.
Spurious cancels do have a memory: see "What the properties leave out". `MaxWire` holds IB back until the engine has taken
most of what is on the wire: statuses still meet fills, verifications and relays
in every order, and what is lost are longer queues, which the lock serialises.
Four orders are two trades, so a document that a trade has left meets the next.
Two tasks in the runner are a bot's life and its next, or one of each bot.

A `setup` is a choice, made in the initial state, of what one behaviour may
meet: the run is the union of several small instances, each with the hazards
that can act on each other, rather than all at once. In `bot` the setups are
listed in `MCBotLifecycle`, in `session` they are `Rough` (disturbances overlap,
but the bots keep what they hold) and `Smooth` (one thing at a time, and bots
come and go), in the charts the series of closes and the hitches that go with
them, in `executions` a plan of one or two executions from a position and one hitch.
What a setup leaves out of a property the property says (`Unattended`,
`setup.orderly`, `setup.byHand`, `preroutes = 0`). Two faults let a crash meet a lost commit or
an unanswered request in `books`; orders of its rows are independent of each
other, so one is enough. Two executions are the least that open and close, or
close through zero; a third adds a lot under the ones matched. The bar series
have ten or so bars, the least for a line with three touches that is then left
or broken, one of them (`Deaf`) while an order is refused; tolerances are zero, of which the theorems are free, and the ratios small, so that each
filter is met from both sides. A ring of one bar lets every bar be evaluated; one of seven
holds a line, and a hole, when the history fails. Four prices are a stop, a line, a counter level
and room beyond it. Timers run two or three steps, the least in which they can
be interrupted.

Fairness. The engine's, the bot's and the runner's coroutines go on, because
asyncio runs what is ready and every await in them is bounded by a timeout or by
the other side's answer: weak fairness of each coroutine. The periodic loops come
round again: weak fairness of the watchdog with everything old, of the two
halves of the sweep, and of the daemon's step. For `events_live`, IB finishes a
re-route; nothing obliges it to accept, fill or cancel. For `bot`, the engine
ends its orders: it cancels what it has not filled in its time. For the runner,
requests that have begun go on. For `books`, the dashboard refreshes and the
operator resolves the alerts it shows, without which the daemon stays paused by
design; executions that are on their way arrive. For `chart_ticks`, quotes go
on, at any price. Nothing is assumed of strategies, restarts or any other act of
a user.

Refinement. `OrderEvents` implements `OrderOutcome` (`KeepsOutcome`, with the
evicted ids for the closed ones and the terminals on the stream for the ends)
and stays within `OrderLedger` (`KeepsLedger`). Both are checked and proved.

What the properties leave out. Some invariants have an antecedent that names a
case in which the code does not keep them; each was found by TLC or by a proof
that would not go through, and none is a bound:

- `TerminalIsTrue` and `NoFalseEnd`: at most one spurious cancel of an order
  (`spurious[o] <= 1`). The hold looks at the last status only. Two spurious
  cancels that have both been verified before the first is recorded are recorded
  one after the other: the first is held, and the second, whose predecessor is
  then a cancel, ends an order that IB goes on with. With the antecedent, a run
  with two spurious cancels passes (12.2 million states).
- `OneWorkingOrder`: the first instance of a bot (`bot <= 1`) that nobody forces.
  A bot that is stopped while its order works, and started again, enters once
  more beside it; a lost answer leaves an order at work that the document has
  rolled back.
- `NothingUnattended`: the same first instance. An entry at work when the bot is
  stopped may fill under the next instance, whose document knows of no order. The
  run starts a bot once; without the antecedent TLC finds the case with `MaxStarts = 2`.
- `CloseIsExact`: no close by symbol beside the close (`at[Symbol] = "idle"`). The
  symbol's sweep may cancel the order of a close by serial that has a partial fill
  before it is acknowledged: the close takes it for refused, and its row says 0.
- `BotsAreFed`: a bot with a contract of its own, where the operator reconnects
  (`Alone(b) \/ ~setup.byHand`). `reconnect_ib()` subscribes beside the connect
  callback's replay; both find no entry and await the throttle, and the one that
  is second writes a count of one over the replay's count of two bots. When one of
  them stops, the feed of the other is cancelled.
- `FiredOnLiveLine`: an accelerated entry is on three lows in a row that rise ever more,
  and not on a line that has held (`EverSteeper`). `_find_2pivot_accel()` looks at no
  close between the lows and makes its line with `break_idx=None`
  (`chart_signal.py:1607`), though a broken line is said to be dead (1631-1637). Were
  the lines alone asked for, series of ten bars with `RecentBars = 5` would not tell:
  the base must be recent, so too few bars fit between its lows.
- `FiredOnLiveLine`: that the line is there in the market's bars, and not only in the
  window stitched together, is said where the history has not failed and the bar that the
  aggregator closes is the market's newest (`Followed`). The bot hears nothing while an
  order is placed. When that order ends unfilled, the aggregator closes a bar that may be
  several behind, and nothing bridges the lag of the history: an entry is decided on a
  window whose newest bar is not the market's. Without that antecedent the series `Deaf` of
  the run, with a refused order, violates it.
- `OneSweepIsEnough`: the multiplier is known (`Unscaled`). The sweep that takes from a
  late report what a closing fill realized does not take its multiplier
  (`exec_accumulator.py:131`, 149), so a contract whose fills in the window are all such
  ones, first seen without it, falls back to IB's numbers (`unknown_multiplier`) for one
  sweep more.
- `OneWorkingOrder` and with it `NoOversell` and `Agreement` say nothing of a force-sell
  beside the event loop. That the unlocked read-modify-write (`_apply_fill()`,
  `_write_state()`) undoes nothing is shown for the loop and the supervisor; a forced exit
  beside a working order violates `OneWorkingOrder`.
- `EntryIsNotAnExit`: no bar is missing from the window (`Gapless`). When the history
  fails, the window is the aggregator's ring, and a bar that closed while an order was
  at work is not in it. The line is found by positions in the window and followed by
  times, which then differ: the exit check of the same bar may find the close
  through it. Without the antecedent the run's rally, with a refused order and then a
  history that fails, violates it.

## What the code does otherwise than it says

`wrong_way`: the force-requests check the state, then write the forced trade's line
and direction, then place. A signal that buys between the check and the write has
its line overwritten by a force-short whose order is then refused, and the exit
of the long trade buys (`ExitReduces`; the finding in `PROJECT.json` quotes the
claim).

Seen while modelling, without a run of their own.

Orders:

- SMART_MARKET drops what the wait for its limit order's cancel returned, and
  after a time-out sends a market order for the rest while the limit order still
  works: the two may execute more than asked (`engine/order.py:1979`; line 1969
  says it cancels, then submits what is outstanding).
- The swallowed Cancelled of a re-route stays in `orderStatus`, where the poll for
  IB's acknowledgement reads it: the order is rejected and its trade closed, without
  a cancel, and it goes on. Hence `preroutes = 0` in properties of `OrderWork`.
- SMART_MARKET's zero-fill end writes CANCELLED and closes the trade without looking:
  after a failed amendment the limit order goes on, and after the market order's wait
  both may ("same EXPIRED semantics as mid", `order.py:2072`). Fills of the market order
  while its cancel settles are compared with the whole quantity and not added up.
- MID's walker may amend an order that has just filled. `await reprice_task` raises the
  assertion, and neither the fill nor the exit legs are recorded.
- When a cancel times out and the probe finds the order gone, it may have filled since:
  the row says CANCELLED with the quantity of before (`FinalIsExact` leaves this out).
- A stop loss is neither placed nor reported after a partial fill, or when the profit
  taker before it cannot be placed.
- `check_stuck()` clears the whole evicted set, ids of a moment ago included: a
  repeated Filled just then ends an order twice (`order_ledger.py:535`).
  `KeepsOutcome` states what remains true.
- The position diff credits an order with lots of another trade in the symbol, up
  to its size (`order_ledger.py:466` says never).
- A verified cancel that the ledger holds as a possible re-route, and that
  nothing follows, is only ever ended by an alert.

Trades and books:

- The second partial execution of a profit taker or stop loss writes nothing.
- `execute_close()` subtracts the profit takers' fills from what is left, not
  the stop losses' (`order.py:3950`); a close that expires writes no row, also
  when its cancel was never confirmed.
- A limit order that rests is left to its callbacks, and no row is written when it
  fills (`order.py:595-597`, 630).
- An order with a partial fill and a CANCELLED row has its trade closed as having
  "no fills" (`recovery.py:92-104`).
- `safe_commit()` rolls the session back, with the row in it, before it commits
  again: the retry commits nothing (`data/repository.py:72`), and a command whose
  audit row is so lost can place a second order when it is repeated.
- The verification of cancels looks back four hours; orders modified in TWS are
  known by another id and flagged as vanished; a DISCREPANCY row is written
  before its alert, and repeated at each pass.
- The daemon's context has neither `bot_trades` nor Redis, so its commission
  reconciliation skips every row; its "press Enter to resume" resolves no alert,
  so the next refresh pauses again. Alerts are only resolved by the web API.
- The REPL's stale heartbeat pauses reconciliation altogether.
- The engine's reconciler takes a timeout of IB for an empty account.

Session:

- A drop while a post-reconnect task has not yet drained the queue overwrites it
  (`insync_client.py:2826`; its comment at 341-344 says otherwise), and a refresh
  that overlaps a drop loses the feed it has just taken from the table: a bot is
  without bars until it is restarted. `BotsAreFed` keeps to a session at rest.
- Two subscribers of one contract may both set its count to one, the operator's
  reconnect and the replay it has called included; a bot that stops
  cancels a feed that was only asked without a reference (docstring at
  2096-2100); a restart of the engine forgets the bots' subscriptions; reloading
  the watchlist leaks a reference.
- A crash during the refresh leaves IB_PROPHYLACTIC_RESUB_INFLIGHT set, and a
  drop right after a reconnect can have its RECONNECTING alert removed.

Bots:

- `_apply_fill()` and `_write_state()` read the document, await, and write all of
  it back without the lock: a force-sell that moves it to `EXIT_ORDER_PLACED`
  between the two is undone, and the next quote places a second exit
  (`runtime.py:326`; `docs/decisions/016-collapse-fsm-into-bot.md:92` says the
  gate prevents duplicates). A fill that meets the entry timeout may leave a
  position with no one to exit it, a lost answer an exit that is sent twice.
- The check for an instance and the reservation are separated by the read of the
  document, so two starts of a bot can both pass (`internal_api.py:111`; line 68
  says they cannot).
- The sweep forces a bot found in a position to `OFF`, and the auto-start pass then
  reads `OFF` and starts it (`bots/runner.py:384` says it needs an explicit start).
- The late cancel of the exit that `force_quit()` replaced is taken for the
  replacement's (`runtime.py:3577` says it is a no-op).
- A plain write can undo a transition in general; `_revert_to_state()` can write
  over `ERRORED`; `on_start()` accepts `ERRORED`, which `internal_api.py:96`
  says does not clear on a start.
- A lost Redis connection ends a bot's task as if it had been cancelled: nobody
  is told, and the document still says it is in a position.
- `_reconcile_state()` looks for an attribute on dicts and never sees a position.

The chart strategy:

- The exit at a bar is audited as FIRED with its side, not as an exit; bars in the
  futures dead zone or with a short window are audited GATED. The counter-trend
  filter and the choice between two sides cannot be reached. A cooldown of one bar
  skips up to two.
- The stop is projected anew at each bar's close and falls back to the frozen line
  at the next quote (`chart_signal.py:2965-2968`). Without an entry line, or with
  one older than eight hours, no bar exits.
- A refused counter exit returns before the stop's timer is cleared (2953-2955; the
  comment at 2976-2979 says a retrace clears it), so a marginal stop may fire
  without a full new window. `StopIsEarned` counts the quotes themselves.
- `crosses_any()` and `earliest_crossing()` leave out the bar between a line's
  second anchor and the next (`sr_fan.py:227`, 239; comment at 115-118): two
  drawn lines may cross there.
- Bars that close while an order is placed are dropped, though the window is
  bridged from them (`runtime.py:2612`; `chart_signal.py:718-723`).

Executions:

- Tasks of position events may write in another order than they came, which lasts
  until the next poll. An execution whose time was shifted and is first seen late
  is never corrected. What the gateway forgot before a sweep saw it is lost.

## Proofs

The first part of `OrderEventsProofs` proves, from `LedgerAssumption` alone (a side and a positive
size for every order; positions are integers), and for every set of orders:

- `LedgerInvariant`: the types hold and no id is both live and evicted.
- `Silence`: no call about an evicted id returns an event.
- `SoundTerminals`: a terminal is of a tracked order and ends it, and is credited
  with at least what was recorded, and at most the order's size where the
  position adds anything.
- `NothingInvented`: an order without a recorded fill is credited with nothing.
- `CancelsAreHeld`: a cancel after a working status does not end an order that is
  not known to be complete.

The inductive invariant is `LedgerTypeOK /\ LiveOrEvicted`. Disjointness does
not follow from the transitions by itself: `RecordStatus` reads an entry only of
a tracked id, and an untracked id's entry has no meaning, so what a terminal
says is bounded only if entries of tracked ids are typed; and an order is not
tracked anew only because an evicted id is answered by silence. Each operation
has one lemma that says what it does to `tracked`, `evicted` and `out`
(`RegisterEffect`, `RecordFillEffect`, `RecordStatusEffect`, `CheckStuckEffect`);
`StepEffect` joins them, and the action properties follow from it.
`CreditBounds` is what `_apply_position_diff()` may return.

The second part of `OrderEventsProofs` proves, from `LedgerAssumption` and `EventsAssumption`, for every
set of orders, sizes and positions and every mix of the broker's faults:

- `LedgerIsKept`: every step of the engine's event path is a step of `OrderLedger`
  or leaves the ledger alone (`KeepsLedger`).
- `LedgerPromises`: so what is proved of the ledger holds for it within the engine.
- `OutcomeIsKept`: the engine implements `OrderOutcome` (`KeepsOutcome`).

`OrderLedger` takes the arguments of its calls from sets of what the callbacks may
pass, and does not register an order that it tracks or has evicted; that the engine
never steps outside is the proof's substance. `EventsInv` has the types of what is on
its way (`Types`: messages on the wire and calls behind the lock are of the ledger's
arguments, but for a refusal without a permId, which IB does not send) and, order by
order (`Local`): one that is not placed has nothing on its way and is neither tracked
nor evicted; one that IB has not accepted can only hear of a cancel without a permId,
of its own pending cancel, and of one refusal, which is the last of its messages and
finds it tracked. For `OutcomeIsKept` each action is mapped to an
end, a clearing, or a stutter: an event that is terminal comes from a tracked id,
which `LiveOrEvicted` keeps out of the closed ones, and the call that returns it
evicts the id in the same step.

Its third part proves, from the same assumptions and for every set of orders,
sizes, sides and bounds:

- `CourseInvariant`: `CourseInv`, below.
- `NoFalseEnds`: one spurious cancel never ends an order that nobody asked to cancel
  (`NoFalseEnd`).
- `TerminalsAreTrue`: an order's first terminal event says what IB executed, and
  whether the order filled (`TerminalIsTrue`), if it is alone in its symbol.
- `TerminalsOmitNothing`: beside other orders and trades, that event is still never
  early, never credits less than IB executed, and calls a complete order Filled.
- `LostFillsAreRecovered`: the terminal of an order alone in its symbol is credited
  with all that IB executed, however many `execDetails` are lost
  (`LostFillIsRecovered`).

These compare what was executed at one end with what was said at the other, so the
invariant follows an order through both queues between them, the messages on IB's wire
and the callbacks that wait for the ledger's lock. `AtIB`: what IB knows is consistent.
`Told`: a message that says filled, or that a cancel is pending, is true when it is
sent and stays true. `Booked`, while the order has no terminal: recorded fills and
fills on their way (messages, calls, and lost ones) add up to what IB executed, and the
cancels under way, the verifications of them and the one the ledger remembers are no
more than IB has sent, which is why the second cancel, on which the ledger gives way,
is a real one. `Sequenced`: a message that ends the order is behind its fills, in each
queue and from one to the other; the only one that may be early is the first cancel of
an order that moves, which the ledger holds. `Measured`: the position of an order alone
in its symbol is at most what it has executed, and was zero when it registered.
`Concluded`: what its first terminal event said, from the parts before. Each action is
mapped to one of a few effects on an order (a message sent, lost, delivered, a call
run), and each part is kept by each effect.

`Alone` (the symbol has one order) is the code's own limit and not the prover's:
`_apply_position_diff()` takes the whole move of the symbol's position for this
order's, so with a second order `TerminalIsTrue` is false and only `TerminalsOmitNothing`
remains. The run has one order for the same reason.

`OrderWorkProofs` proves, from `OrderAtIBAssumption` and `OrderWorkAssumption`
(a positive quantity; the worked orders and the legs are orders), for every
quantity, set of strategies and number of re-routes:

- `RecordsAreExecuted`: no fill row records more than IB has executed.
- `LegsHaveLots`: no exit leg is larger than what IB has executed of the entry.
- `CancelledAreOver`: a CANCELLED row is of an order that no longer works at IB
  (`CancelledIsOver`).
- `FinalsAreExact`: the last fill row has every lot IB executed, unless the wait for
  the cancel was given up (`FinalIsExact`).

The first two are not inductive: a row is written from a number that was read earlier, or
carried through a cancel, or added to the fill of another order. `WorkInv` adds
where each such number comes from. `Trails`: statuses and reports never run ahead
of IB, and an order IB has not heard of has no executions. `Fresh`: until it is
placed an order is such an order, so a placement resets nothing that counts.
`Carried`: `had` (over `_cancel_and_await_resolution()`) and `got` (until the
market order has been read) are executed lots, the latter of the limit order
alone, so that the sum with the market order's fill counts nothing twice; and
there is something left to send when a market order is sent. IB's steps keep it
because they are of one order and never un-execute (`OneOrder`); the coroutine's,
grouped by what they do, because they settle, carry into a cancel, or place
(`SettlesKeep`, `CancelKeeps`, `PlacedKeeps`).

The other two rest on `EndInv`, which assumes `WorkInv`: what the engine takes for an
end is IB's (`EndsAreIB`: a terminal status is the order's last, the tracker's flags
agree with it); a command other than SMART_MARKET has a single order and records
nothing until its outcome is known (`Plain`); and a FILLED row has the quantity asked
for, a CANCELLED one that of an order that is over (`RowHasAll`). IB executes no more
than the size (`Sized`), so a row with the whole size has all of it.

`TradeWorkProofs` proves, from `TradeWorkAssumption`, for every number of lots, every
set of closes, strategies and legs, and any number of commands at once:

- `ClosedTradesAreFlat`: a CLOSED trade has exits executed for all of it (`ClosedIsFlat`).
- `LegsAreKept`: a close by symbol that has executed nothing asks for no leg's cancel
  (`ProtectionIsKept`).
- `CloseRowsAreExact`: the row of a close is what its order executed (`CloseIsExact`).

`TradeInv` again says where each number comes from, with what travels: an execution
on a leg's wire is of lots the leg has executed (`Wired`), the rows and what a close
carries over its awaits are executed (`Carried`), an order that is not placed is
unknown to IB (`Fresh`), and a close crosses with what is left (`Sizes`). `ClosedIsFlat`
is then kept because the trade is closed on a sum of rows. `Kept` is the second
theorem's: the sweep of a close by symbol begins only after its order has executed, or
without a position, and no other coroutine asks for a leg's cancel before its own
close. `ExactInv` is the third's: an order that nobody asked to cancel and that is over
without a fill has executed nothing, and a close that is done has recorded its order's
executions, of an order that is over or complete. It needs that nobody else cancels
the order of a close, which is why a close by symbol is left out.

`IbSessionProofs` proves, from `SessionAssumption` (watchlist, seed and the bots' contracts
are contracts, a setup is one, and names differ), for every set of contracts and bots,
any number of post-reconnect tasks and any number of drops, reconnects, refreshes and
crashes:

- `SomebodyReconnects`: an engine that is up and has no session has the operator's
  reconnect or the backoff loop, which will connect again (`DownIsAttended`).
- `BannersAreTakenDown`: at rest, no alert says that the session is gone
  (`NoStaleBanner`).
- `WatchedAreFed`: at rest, and where bots keep their references, watchlist and
  positions have their quotes (`WatchedIsFed`).
- `BotsKeepTheirFeeds`: at rest, the running bots have their quotes and bars
  (`BotsAreFed`), if no orderly setup has a crash (`Orderly`).

A drop that finds `_expected_disconnect` set starts no loop, so the property holds
only if that flag never outlives the drop it announces. `ExpectedIsCaused` says who
owns it: it is set only while the operator's reconnect waits for its own drop, and
every connect takes it back. `WalksConnected` is needed because the end of the
startup's walk makes the engine serve, and only an engine that has connected may
be in one; `Staged` types the tasks of the connect callback. Subscriptions, feeds,
bots and alerts leave these variables alone (`FeedsUntouched`, `OthersUntouched`).

`BannerInv` adds who will remove a banner: where no loop runs, each banner in Redis has
a connect callback that has still to read the alerts or has found it
(`BannersAreCleared`). A write that lands after that reading would break it, so it
needs `WrittenInTheWait`: an alert is on its way only while the loop waits, since the
shortest backoff is longer than a write, and the loop ends only after connecting.

`FeedInv` adds who will ask for a feed that is not served (`Attended`, `AskedFor`): an
actor that has references left to take, one that has it left to ask for, or a
post-reconnect task that has not come to the watchlist. It needs that the table is
what IB sends (`ServedIsCounted`: an entry that is found takes the place of a request),
and that nobody is given something new to ask for while something is left of the old,
which would be overwritten (`CycleRests`, `BotsRest`). The second is where a bot that
stops is left out: it takes references that the watchlist may rely on.

`BotsFedInv` counts references, for bots that do stop, where one thing happens at a
time (the setup's `orderly`). `InTurn`: one actor is at work, but for the operator's
reconnect beside the callback's task that it waits for. So the references of a feed
are in one place, the table, or those kept from a drop, or the hands of the task that
takes them again (`InOnePlace`), and there are at least as many as bots that have
taken one and not given it back (`AllAreCounted`, over the cardinality of `Owners`): the
bots that stop cannot take the last from one that runs. Where the operator reconnects,
references are lost and doubled, and only a bot alone in its contract is sure of one
(`AloneIsCounted`). `Orderly` is the code's limit: a restarted engine does not give a bot
its bars back, as `BotsAreFed` says of the run.

`BooksProofs` proves, from `BooksAssumption`, for every set of orders and commands
and any number of crashes and startups:

- `RunningHasACoroutine`: while the engine serves and no commit was lost, a command
  whose row says RUNNING has an order whose coroutine is at work (`RunningIsRun`).

Its invariant adds that an exit leg belongs to no command (`LegsAreOfNone`), since a
leg's fill ends its work and settles nothing. The end of any other order's work
settles its command in the same step or loses the commit (`EndsWork`), a lost
commit stays lost (`LosesStays`), a crash ends serving, and the restart settles
every row before the engine serves. REPL, daemon, dashboard and IB touch neither
commands nor coroutines (`CommandsUntouched`). The run has a single order and
command, for which IB, the daemon and the screens interleave in every way; that
the orders of several commands do not disturb each other's rows is the theorem's.

`BotRunnerProofs` proves, from `RunnerAssumption`, for every set of bots and clients and
any number of tasks and restarts:

- `TasksAreReachable`: a registered task that runs has its instance in `bot_instances`,
  or a stop at work on it (`RegisteredIsReachable`), if no bot has two starters.

The hypothesis `OneStarter` (no bot is started by two clients, nor by a client beside
the auto-start pass) is the code's own gap, not the prover's: two starts of a bot can
both pass the check for an instance, and the second reserves the place of the first's
task. The run keeps to it too. `RunnerInv` adds `Starting`: between its read of the
table and its task a start has its bot's place to itself.

`BotProofs` proves, from `BotDocAssumption` and `LifecycleAssumption`, for every set of
requests and setups and any number of starts, lots and orders:

- `BotTypes`: every document, event and coroutine is of its type, whatever was read
  before an await and written back after it.
- `StoppedBotsSendNothing`: a stopped bot that nobody forces places no order
  (`StoppedSendsNothing`).
- `OneOrderAtATime`: the first instance of a bot that nobody forces has one working
  order at most (`OneWorkingOrder`), if the engine answers each of its requests.
- `NothingIsOversold`: the exits of a bot that is left alone never sell more than its
  entries bought (`NoOversell`).
- `BotsAgreeWithTheAccount`: when it has handled every event, its document has the
  account's quantity, or it is in ERRORED (`Agreement`).
- `NothingIsLeftUnattended`: the first instance of a bot that nobody forces, whatever
  the user sells, never thinks it has less than the account has (`NothingUnattended`).

`BotInv` is the types with: an order that is placed is for a lot at least, and one that
works has lots left to fill (`Sized`); no handler and not the supervisor is ever at a
step that places, unless the bot is forced (`OnlyLoopPlaces`); and a bot that is not
alive has no event loop (`LoopHasGone`), since a stop cancels the task at whatever await
it is. `OneInv` adds that the event loop of a running bot waits for the one order at
work (`WaitsForIt`) and leaves that wait only when the order has ended, which is why
it takes no second decision meanwhile.
`AnswersCome` says that no answer is lost in a setup that forces nothing; without it
the loop rolls the document back and decides again while the order works.

`BooksInv` is behind the last three. `Balanced` says, at every await, what the account
has beside the document's `qty`: the same, until the newest order has executed
something that the loop has not handled (`Unheard`, `Expected`); where the user sells, at
most as much. It can be said of the newest order alone because every earlier one is
over and reported (`Ends`), and what is on the stream or in the handler's hands is
what that order executed, its terminal last (`Streamed`, `InHand`). The other
possibility is that a crash has parked the bot, and nobody who is on the way
has another state to write (`Stuck`). The handlers read the document, await, and write
it whole, so the rest says that what they write back still fits: the loop's reading
is the document's but for a crash in between (`ReadFits`), the supervisor's may be older
by lots the loop has noticed missing (`SupervisorFits`), and at each step of the loop the
document is in the state its order was placed from or into (`LoopFits`). All this
holds of a bot that nobody forces and no timer gives up on, while its first instance
runs, and always if it is left alone (`Attended`). `NobodySells` says that in a setup
with nothing but starts the user sells nothing at TWS; without it the exit of a
position that has gone sells short, and `NoOversell` does not hold.

`ChartBarsProofs` proves, from `SrFanAssumption` and `ChartBarsAssumption` (tolerances and
limits are naturals, `Tol <= TouchTol`, a setup is one), for every series of closes, every
setup and any length of ring, history and market:

- `EntriesAreGrounded`: an entry is on a line of three touches or more that rises, has held and
  was touched one bar ago, or on lows that rise ever more, in the window and, where the
  bot has followed the market, in all its bars (`FiredOnLiveLine`; three stands for
  `MinTouches`).
- `DecisionsNameTheKiller`: the row of a bar names what ended its chain
  (`DecisionIsTheKiller`).
- `EntriesAreNotExits`: the exit check of the same bar would leave an entry alone
  (`EntryIsNotAnExit`).

They are about `last`, which each evaluation writes anew, so most of the proof is about
what one evaluation computes, the fan first. The invariant adds that the ring's bars are
older than the bar in progress, and that one no newer than the market's (`InOrder`). With
it `WindowIsTheMarket` shows the stitching exact: a ring that ends with the market's newest
bar adds that bar, and no other, to a history that lacks it, and nothing to one that does
not (`NewestIsAdded`). `Fan` is a function defined by recursion over the candidates. That it exists
(`TriesAreDefined`) and that each of its lines was drawn of a valid candidate
(`FanIsDrawings`, `LineOfFan`) would be inductions on the number of tries: they take
the least number that refutes the claim instead (`LeastOfNats`, from the library's
`WFMin`, which takes a set and not an operator). `ForemostIsThere` is needed before
that: `Before` compares slopes by cross-multiplication, and only because it is then
transitive does a finite set have a line to try next. `Best` is well defined for the
same reason (`BestIsThere`). A line that triggers has held, because its anchors are
on it, `Valid` looks between them and `Breaks` behind them (`TriggeredIsLive`); and its
count of touches is the property's, although the code sets it to two at least
(`TouchesAre`). `KillerIsTold` is about the filters: of the SKIPs that
were not bypassed the first is the one that ended the chain. `HeldIsNotThrough` is
where numbers become times: in a window without gaps they differ by the same, and
the line held at the last bar within `Tol`, which is at most `TouchTol`. The run evaluates
all this on series of some ten bars; windows in use have hundreds.

Model-checked only: the chart strategy between bars (`StopIsEarned`, `CounterIsEarned`,
`LossIsCut`), and the executions: LIFO is a fold over lots, and what it computes for every
input is an induction over the lots, for which the library's theorems take an operator
that the installed provers cannot instantiate; the least-number argument used for the fan
is not carried out there. Liveness and everything about ENABLED, the promises of
`events_live`, `bot`, `runner`, `books` and `executions` that something ends, is out of the
prover's reach and stays with TLC.

## Plan

What would add most next, in this order:

1. The commission path: `on_commission()`, the trade row it adds to and
   `_handle_record_trade_closed()`. A commission may be counted twice between the
   bot's sum and the engine's update.
2. An abstract order (requested, executed, over) that the rows of `OrderWork` and
   `TradeWork` implement, and an abstract bot (flat, entering, holding, exiting,
   parked) that `BotLifecycle` is shown to implement.
3. `RiskLimits`: the daily counters, the kill switch, the rate-limit breaker.
4. Theorems: `ChartTicks`' counters.
5. The other strategies' gates, which share the chart strategy's states.

## Not modelled

The web API, the REPL's terminal and the frontend (views and forwarded requests),
the columns of SQLite and their migrations, logging and notifications,
configuration, deployment, the Alpaca client, market calendars and tick rounding,
the indicators of the sawtooth and close-trend strategies (the bot's model lets
them decide anything). Prices appear only where a decision depends on their
order: in the charts as whole ticks, in the executions as integers. The walkers'
prices, commissions and P&L lines of the console are left out. Redis keeps what
is written and answers, except where a model says otherwise; a write to it ends
within the shortest backoff, and connecting over a live session replaces it; the
watchlist in Redis is read whenever it is asked for, and changes only between runs. `PROJECT.json` gives the reason for
each part.
