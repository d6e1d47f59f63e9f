----------------------------- MODULE IbSession -----------------------------
(***************************************************************************)
(* The engine's session with IB: the socket, the loop that reconnects it,  *)
(* the operator's reconnect, the reference counted market data             *)
(* subscriptions with what replays them after a drop, the hourly refresh   *)
(* of every subscription, and the alerts that tell bots and UI about it    *)
(* (ib/insync_client.py, engine/main.py, engine/ib_resilience.py).         *)
(*                                                                         *)
(* Every task is an asyncio task of one process: it runs alone between two *)
(* awaits.  A subscription that is not there yet awaits the throttle       *)
(* between looking at the table and writing it.                            *)
(***************************************************************************)
EXTENDS Naturals, FiniteSets

CONSTANTS
    Symbols,     \* contracts
    Watchlist,   \* the operator's list in Redis, with the chart anchors
    Seed,        \* config/watchlist.yaml, the list's first contents
    Bots,
    SymbolOf,    \* the contract of a bot
    Replays,     \* post-reconnect tasks alive at one time (a bound)
    Setups,      \* what may disturb a run: see SetupOf
    None

\* A run's bounds.  orderly: nothing disturbs a session that is still being
\* restored.  stops: whether bots stop.  byHand: whether the operator
\* reconnects.
SetupOf == [drops : Nat, manual : Nat, cycles : Nat, crashes : Nat,
            reloads : Nat, positions : Nat, bots : SUBSET Bots,
            orderly : BOOLEAN, stops : BOOLEAN, byHand : BOOLEAN]

Feeds == {"quote", "bars"} \X Symbols
Quotes(S) == {"quote"} \X S
FeedsOf(b) == {"quote", "bars"} \X {SymbolOf[b]}

Banners == {"reconnecting", "catastrophic"}
Routines == {"manual", "cycle", "position", "reload"}
Actors == Routines \cup Bots \cup Replays

ASSUME SessionAssumption ==
    /\ Watchlist \subseteq Symbols /\ Seed \subseteq Symbols
    /\ SymbolOf \in [Bots -> Symbols]
    /\ Setups \subseteq SetupOf
    /\ Bots \cap Replays = {} /\ Routines \cap (Bots \cup Replays) = {}
    /\ None \notin Feeds
    /\ \A B \in {{"asked"}} \cup SUBSET Banners : None # B

VARIABLES
    setup,
    engine,     \* "connecting", "warming" or "running"
    link,       \* the socket: "up" or "down"
    expected,   \* _expected_disconnect
    refs,       \* _streaming and _realtime_bars: references, 0 is no entry
    served,     \* the feeds IB sends in this session
    saved,      \* _pending_resub_streaming and _pending_resub_rt_bars
    loop,       \* _ib_reconnect_task
    manual,     \* reconnect_ib()
    cycle,      \* prophylactic_resubscribe_loop()
    stage,      \* of each post-reconnect task
    counted,    \* references each actor has still to take
    ambient,    \* feeds each actor has still to ask without a reference
    asking,     \* the feed an actor awaits the throttle for
    alerts,     \* alerts:active
    writing,    \* alerts on their way to Redis
    clearing,   \* per connect callback: what it found to remove
    bots,       \* "off", "starting" or "on"
    held        \* contracts with a position

vars == <<setup, engine, link, expected, refs, served, saved, loop, manual,
          cycle, stage, counted, ambient, asking, alerts, writing, clearing,
          bots, held>>

tableVars == <<refs, served, saved>>
taskVars == <<counted, ambient, asking>>
alertVars == <<alerts, writing>>
callbackVars == <<stage, clearing>>

Nothing == [f \in Feeds |-> 0]
Busy(a) == counted[a] # Nothing \/ ambient[a] # {} \/ asking[a] # None
NoReplay == \A r \in Replays : stage[r] = "none" /\ clearing[r] = None

\* The session is up and no task of it is under way.
Quiet ==
    /\ engine = "running" /\ link = "up" /\ loop = "idle" /\ manual = "idle"
    /\ cycle = "idle" /\ NoReplay /\ writing = {}
    /\ \A a \in Actors : ~Busy(a)

Calm == setup.orderly => Quiet
Spend(what) == setup[what] > 0 /\ setup' = [setup EXCEPT ![what] = @ - 1]

----------------------------------------------------------------------------
(* Subscriptions.                                                          *)

\* subscribe_market_data and subscribe_realtime_bars, up to the throttle: an
\* entry that is there takes the references at once.
Asks(a, f) ==
    /\ asking[a] = None
    /\ counted[a][f] > 0 \/ (counted[a] = Nothing /\ f \in ambient[a])
    /\ IF refs[f] > 0
       THEN /\ refs' = [refs EXCEPT ![f] = @ + counted[a][f]]
            /\ counted' = [counted EXCEPT ![a][f] = 0]
            /\ ambient' = IF counted[a][f] > 0 THEN ambient
                          ELSE [ambient EXCEPT ![a] = @ \ {f}]
            /\ UNCHANGED asking
       ELSE /\ asking' = [asking EXCEPT ![a] = f]
            /\ UNCHANGED <<refs, counted, ambient>>
    /\ UNCHANGED <<setup, engine, link, expected, served, saved, loop, manual,
                   cycle, callbackVars, alertVars, bots, held>>

\* After the throttle: the request goes out and the entry is written with one
\* reference, whatever has been written to the table meanwhile; the caller's
\* other references follow without an await.  Without a session it raises.
Subscribed(a) ==
    LET f == asking[a]
        n == IF counted[a][f] > 0 THEN counted[a][f] ELSE 1
    IN  /\ f # None
        /\ IF link = "up"
           THEN /\ refs' = [refs EXCEPT ![f] = n]
                /\ served' = served \cup {f}
           ELSE UNCHANGED <<refs, served>>
        /\ asking' = [asking EXCEPT ![a] = None]
        /\ counted' = IF a \in Bots /\ link = "down"
                      THEN [counted EXCEPT ![a] = Nothing]
                      ELSE [counted EXCEPT ![a][f] = 0]
        /\ ambient' = IF counted[a][f] > 0 THEN ambient
                      ELSE [ambient EXCEPT ![a] = @ \ {f}]
        /\ bots' = IF a \in Bots /\ link = "down"
                   THEN [bots EXCEPT ![a] = "off"] ELSE bots
    /\ UNCHANGED <<setup, engine, link, expected, saved, loop, manual, cycle,
                   callbackVars, alertVars, held>>

\* unsubscribe_market_data and unsubscribe_realtime_bars: the last reference
\* cancels the feed.
Released(F) ==
    /\ refs' = [f \in Feeds |-> IF f \in F /\ refs[f] > 0
                                THEN refs[f] - 1 ELSE refs[f]]
    /\ served' = {f \in served : refs'[f] > 0}

----------------------------------------------------------------------------
(* The socket.                                                             *)

\* The tables are kept over a drop.
WipedMutant == /\ saved' = refs
               /\ refs' = refs
               /\ served' = {}

\* _on_disconnected: the tables are kept aside and cleared.
Wiped == /\ saved' = refs
         /\ refs' = Nothing
         /\ served' = {}

\* _raise_ib_disconnect_alert: one live task at a time.
Raised(l) == IF l = "idle" THEN "alerting" ELSE l

\* _on_disconnected: only a drop nobody asked for starts the loop.
AfterDrop(l) == IF expected THEN l ELSE Raised(l)

\* The Gateway or the network drops the session.
Drop ==
    /\ link = "up" /\ engine # "connecting" /\ Calm
    /\ Spend("drops")
    /\ link' = "down"
    /\ Wiped
    /\ loop' = AfterDrop(loop)
    /\ expected' = FALSE
    /\ UNCHANGED <<engine, manual, cycle, callbackVars, taskVars, alertVars,
                   bots, held>>

\* The connect callback: alerts are resolved and subscriptions replayed by
\* two tasks.
Called == \E r \in Replays :
    /\ stage[r] = "none" /\ clearing[r] = None
    /\ stage' = [stage EXCEPT ![r] = "spawned"]
    /\ clearing' = [clearing EXCEPT ![r] = {"asked"}]

\* connect() has come through.  Over a live session it replaces it: the old
\* one is lost first.
Opened(l) ==
    /\ link' = "up"
    /\ IF link = "up" THEN Wiped ELSE UNCHANGED tableVars
    /\ loop' = IF link = "up" /\ ~expected THEN Raised(l) ELSE l
    /\ expected' = IF link = "up" THEN FALSE ELSE expected
    /\ Called

\* connect() has failed; a live session it was to replace is gone.
Refused(l) ==
    /\ link' = "down"
    /\ IF link = "up" THEN Wiped ELSE UNCHANGED tableVars
    /\ loop' = l
    /\ expected' = IF link = "up" THEN FALSE ELSE expected
    /\ UNCHANGED callbackVars

----------------------------------------------------------------------------
(* _reconnect_with_backoff().                                              *)

\* The warning is raised unless one is active already.
LoopAlerts ==
    /\ loop = "alerting"
    /\ writing' = IF "reconnecting" \in alerts THEN writing
                  ELSE writing \cup {"reconnecting"}
    /\ loop' = "waiting"
    /\ UNCHANGED <<setup, engine, link, expected, tableVars, manual, cycle,
                   callbackVars, taskVars, alerts, bots, held>>

\* The backoff is over: connect() starts, and forgets any intended drop.  The
\* shortest backoff is longer than a write to Redis.
LoopConnects ==
    /\ loop = "waiting" /\ writing = {}
    /\ loop' = "connecting"
    /\ expected' = FALSE
    /\ UNCHANGED <<setup, engine, link, tableVars, manual, cycle, callbackVars,
                   taskVars, alertVars, bots, held>>

LoopSucceeds ==
    /\ loop = "connecting"
    /\ IF link = "up" THEN Wiped ELSE UNCHANGED tableVars
    /\ link' = "up"
    /\ loop' = "idle"
    /\ expected' = IF link = "up" THEN FALSE ELSE expected
    /\ Called
    /\ UNCHANGED <<setup, engine, manual, cycle, taskVars, alertVars, bots,
                   held>>

\* After five minutes without a session the warning becomes an alarm.
LoopFails ==
    /\ loop = "connecting"
    /\ Refused("waiting")
    /\ \/ UNCHANGED writing
       \/ /\ "catastrophic" \notin alerts
          /\ writing' = writing \cup {"catastrophic"}
    /\ UNCHANGED <<setup, engine, manual, cycle, taskVars, alerts, bots, held>>

----------------------------------------------------------------------------
(* reconnect_ib().                                                         *)

\* The operator's reconnect: disconnect() announces the drop and causes it.
ManualDrops ==
    /\ engine = "running" /\ manual = "idle" /\ setup.byHand /\ Calm
    /\ Spend("manual")
    /\ manual' = "settling"
    /\ link' = "down"
    /\ IF link = "up" THEN Wiped ELSE UNCHANGED tableVars
    /\ expected' = (link = "down")
    /\ UNCHANGED <<engine, loop, cycle, callbackVars, taskVars, alertVars, bots,
                   held>>

ManualConnects ==
    /\ manual = "settling"
    /\ manual' = "connecting"
    /\ expected' = FALSE
    /\ UNCHANGED <<setup, engine, link, tableVars, loop, cycle, callbackVars,
                   taskVars, alertVars, bots, held>>

\* It subscribes the positions itself, beside the task of the connect
\* callback, and the watchlist of the YAML file, which the operator's list
\* may have left behind.
ManualSucceeds ==
    /\ manual = "connecting"
    /\ manual' = "subscribing"
    /\ Opened(loop)
    /\ ambient' = [ambient EXCEPT !["manual"] = Quotes(Seed \cup held)]
    /\ UNCHANGED <<setup, engine, cycle, counted, asking, alertVars, bots,
                   held>>

\* The operator's reconnect gives up without starting the loop.
ManualFailsMutant ==
    /\ manual = "connecting"
    /\ manual' = "idle"
    /\ Refused(loop)
    /\ UNCHANGED <<setup, engine, cycle, taskVars, alertVars, bots, held>>

ManualFails ==
    /\ manual = "connecting"
    /\ manual' = "idle"
    /\ Refused(Raised(loop))
    /\ UNCHANGED <<setup, engine, cycle, taskVars, alertVars, bots, held>>

ManualEnds ==
    /\ manual = "subscribing" /\ ~Busy("manual")
    /\ manual' = "idle"
    /\ UNCHANGED <<setup, engine, link, expected, tableVars, loop, cycle,
                   callbackVars, taskVars, alertVars, bots, held>>

----------------------------------------------------------------------------
(* The connect callback's tasks.                                           *)

\* Only the watchlist and the positions are subscribed after a drop.
DrainsMutant(r) ==
    /\ stage[r] = "spawned"
    /\ stage' = [stage EXCEPT ![r] = "pending"]
    /\ counted' = counted
    /\ saved' = Nothing
    /\ UNCHANGED <<setup, engine, link, expected, refs, served, loop, manual,
                   cycle, ambient, asking, alertVars, clearing, bots, held>>

\* resubscribe_pending: the tables kept at the drop are taken, and emptied.
Drains(r) ==
    /\ stage[r] = "spawned"
    /\ stage' = [stage EXCEPT ![r] = "pending"]
    /\ counted' = [counted EXCEPT ![r] = saved]
    /\ saved' = Nothing
    /\ UNCHANGED <<setup, engine, link, expected, refs, served, loop, manual,
                   cycle, ambient, asking, alertVars, clearing, bots, held>>

\* Then the watchlist and the positions.
WalksAmbient(r) ==
    /\ stage[r] = "pending" /\ ~Busy(r)
    /\ stage' = [stage EXCEPT ![r] = "ambient"]
    /\ ambient' = [ambient EXCEPT ![r] = Quotes(Watchlist \cup held)]
    /\ UNCHANGED <<setup, engine, link, expected, tableVars, loop, manual,
                   cycle, counted, asking, alertVars, clearing, bots, held>>

\* At startup the same walk ends with the internal API being bound.
ReplayEnds(r) ==
    /\ stage[r] \in {"ambient", "startup"} /\ ~Busy(r)
    /\ stage' = [stage EXCEPT ![r] = "none"]
    /\ engine' = IF stage[r] = "startup" THEN "running" ELSE engine
    /\ UNCHANGED <<setup, link, expected, tableVars, loop, manual, cycle,
                   taskVars, alertVars, clearing, bots, held>>

\* The clearing of alerts forgets the warning.
FindsMutant(r) ==
    /\ clearing[r] = {"asked"}
    /\ clearing' = [clearing EXCEPT ![r] =
                       IF alerts \cap {"catastrophic"} = {} THEN None
                       ELSE alerts \cap {"catastrophic"}]
    /\ UNCHANGED <<setup, engine, link, expected, tableVars, loop, manual,
                   cycle, stage, taskVars, alertVars, bots, held>>

\* _resolve_ib_disconnect_alert: read the alerts, then remove those found.
Finds(r) ==
    /\ clearing[r] = {"asked"}
    /\ clearing' = [clearing EXCEPT ![r] =
                       IF alerts \cap Banners = {} THEN None
                       ELSE alerts \cap Banners]
    /\ UNCHANGED <<setup, engine, link, expected, tableVars, loop, manual,
                   cycle, stage, taskVars, alertVars, bots, held>>

Removes(r) ==
    /\ clearing[r] # None /\ clearing[r] # {"asked"}
    /\ alerts' = alerts \ clearing[r]
    /\ clearing' = [clearing EXCEPT ![r] = None]
    /\ UNCHANGED <<setup, engine, link, expected, tableVars, loop, manual,
                   cycle, stage, taskVars, writing, bots, held>>

\* fire_and_forget_alert's task reaches Redis.
AlertLands ==
    /\ writing # {}
    /\ alerts' = alerts \cup writing
    /\ writing' = {}
    /\ UNCHANGED <<setup, engine, link, expected, tableVars, loop, manual,
                   cycle, callbackVars, taskVars, bots, held>>

----------------------------------------------------------------------------
(* prophylactic_resubscribe_loop().                                        *)

\* The alert is written first; the entries are listed before any is touched.
CycleStarts ==
    /\ engine = "running" /\ cycle = "idle" /\ Calm
    /\ Spend("cycles")
    /\ cycle' = "cycling"
    /\ alerts' = alerts \cup {"inflight"}
    /\ counted' = [counted EXCEPT !["cycle"] = refs]
    /\ UNCHANGED <<engine, link, expected, tableVars, loop, manual,
                   callbackVars, ambient, asking, writing, bots, held>>

\* Cancel one feed and drop its entry; it is asked again after a pause.
CycleCancels(f) ==
    /\ cycle = "cycling" /\ asking["cycle"] = None
    /\ counted["cycle"][f] > 0
    /\ cycle' = "pausing"
    /\ refs' = [refs EXCEPT ![f] = 0]
    /\ served' = served \ {f}
    /\ ambient' = [ambient EXCEPT !["cycle"] = {f}]
    /\ UNCHANGED <<setup, engine, link, expected, saved, loop, manual,
                   callbackVars, counted, asking, alertVars, bots, held>>

\* The pause is over: subscribe again with the references listed.
CycleAsks(f) ==
    /\ cycle = "pausing" /\ asking["cycle"] = None /\ f \in ambient["cycle"]
    /\ cycle' = "cycling"
    /\ ambient' = [ambient EXCEPT !["cycle"] = {}]
    /\ IF refs[f] > 0
       THEN /\ refs' = [refs EXCEPT ![f] = @ + counted["cycle"][f]]
            /\ counted' = [counted EXCEPT !["cycle"][f] = 0]
            /\ UNCHANGED asking
       ELSE /\ asking' = [asking EXCEPT !["cycle"] = f]
            /\ UNCHANGED <<refs, counted>>
    /\ UNCHANGED <<setup, engine, link, expected, served, saved, loop, manual,
                   callbackVars, alertVars, bots, held>>

CycleEnds ==
    /\ cycle = "cycling" /\ ~Busy("cycle")
    /\ cycle' = "idle"
    /\ alerts' = alerts \ {"inflight"}
    /\ UNCHANGED <<setup, engine, link, expected, tableVars, loop, manual,
                   callbackVars, taskVars, writing, bots, held>>

----------------------------------------------------------------------------
(* Bots, positions, the watchlist and the engine's process.                *)

\* POST /engine/subscribe-bars: bars and quotes, one reference of each.
BotStarts(b) ==
    /\ b \in setup.bots
    /\ engine = "running" /\ bots[b] = "off" /\ Calm
    /\ bots' = [bots EXCEPT ![b] = "starting"]
    /\ counted' = [counted EXCEPT ![b] =
                      [f \in Feeds |-> IF f \in FeedsOf(b) THEN 1 ELSE 0]]
    /\ UNCHANGED <<setup, engine, link, expected, tableVars, loop, manual,
                   cycle, callbackVars, ambient, asking, alertVars, held>>

BotIsOn(b) ==
    /\ bots[b] = "starting" /\ ~Busy(b)
    /\ bots' = [bots EXCEPT ![b] = "on"]
    /\ UNCHANGED <<setup, engine, link, expected, tableVars, loop, manual,
                   cycle, callbackVars, taskVars, alertVars, held>>

\* on_teardown: POST /engine/unsubscribe-bars.
BotStops(b) ==
    /\ setup.stops /\ engine = "running" /\ bots[b] = "on" /\ Calm
    /\ bots' = [bots EXCEPT ![b] = "off"]
    /\ Released(FeedsOf(b))
    /\ UNCHANGED <<setup, engine, link, expected, saved, loop, manual, cycle,
                   callbackVars, taskVars, alertVars, held>>

\* positionEvent of a new position.
PositionOpens(s) ==
    /\ engine = "running" /\ link = "up" /\ s \notin held /\ Calm
    /\ Spend("positions")
    /\ held' = held \cup {s}
    /\ ambient' = [ambient EXCEPT !["position"] = @ \cup Quotes({s})]
    /\ UNCHANGED <<engine, link, expected, tableVars, loop, manual, cycle,
                   callbackVars, counted, asking, alertVars, bots>>

\* POST /engine/reload-watchlist takes a reference for every symbol.
Reload ==
    /\ engine = "running" /\ ~Busy("reload") /\ Calm
    /\ Spend("reloads")
    /\ counted' = [counted EXCEPT !["reload"] =
                      [f \in Feeds |-> IF f \in Quotes(Watchlist) THEN 1 ELSE 0]]
    /\ UNCHANGED <<engine, link, expected, tableVars, loop, manual, cycle,
                   callbackVars, ambient, asking, alertVars, bots, held>>

\* The process dies: everything but Redis and the bots is forgotten.
Forgotten ==
    /\ link' = "down" /\ expected' = FALSE
    /\ refs' = Nothing /\ served' = {} /\ saved' = Nothing
    /\ loop' = "idle" /\ manual' = "idle" /\ cycle' = "idle"
    /\ stage' = [r \in Replays |-> "none"]
    /\ clearing' = [r \in Replays |-> None]
    /\ counted' = [a \in Actors |-> Nothing]
    /\ ambient' = [a \in Actors |-> {}]
    /\ asking' = [a \in Actors |-> None]
    /\ writing' = {}

Crash ==
    /\ engine # "connecting"
    /\ Spend("crashes")
    /\ engine' = "connecting"
    /\ Forgotten
    /\ bots' = [b \in Bots |-> IF bots[b] = "starting" THEN "off" ELSE bots[b]]
    /\ UNCHANGED <<alerts, held>>

\* run_engine: _connect_with_retry has come through; the callbacks are set, old
\* alerts resolved, and the watchlist and positions subscribed.
Startup ==
    /\ engine = "connecting"
    /\ engine' = "warming"
    /\ link' = "up"
    /\ \E r \in Replays :
          /\ stage' = [stage EXCEPT ![r] = "startup"]
          /\ clearing' = [clearing EXCEPT ![r] = {"asked"}]
          /\ ambient' = [ambient EXCEPT ![r] = Quotes(Watchlist \cup held)]
    /\ UNCHANGED <<setup, expected, tableVars, loop, manual, cycle, counted,
                   asking, alertVars, bots, held>>

----------------------------------------------------------------------------
Init ==
    /\ setup \in Setups
    /\ engine = "connecting" /\ link = "down" /\ expected = FALSE
    /\ refs = Nothing /\ served = {} /\ saved = Nothing
    /\ loop = "idle" /\ manual = "idle" /\ cycle = "idle"
    /\ stage = [r \in Replays |-> "none"]
    /\ clearing = [r \in Replays |-> None]
    /\ counted = [a \in Actors |-> Nothing]
    /\ ambient = [a \in Actors |-> {}]
    /\ asking = [a \in Actors |-> None]
    /\ alerts = {} /\ writing = {}
    /\ bots = [b \in Bots |-> "off"]
    /\ held = {}

Next ==
    \/ \E a \in Actors \ {"cycle"}, f \in Feeds : Asks(a, f)
    \/ \E a \in Actors : Subscribed(a)
    \/ Drop
    \/ LoopAlerts \/ LoopConnects \/ LoopSucceeds \/ LoopFails
    \/ ManualDrops \/ ManualConnects \/ ManualSucceeds \/ ManualFails
    \/ ManualEnds
    \/ \E r \in Replays : Drains(r) \/ WalksAmbient(r) \/ ReplayEnds(r)
    \/ \E r \in Replays : Finds(r) \/ Removes(r)
    \/ AlertLands
    \/ CycleStarts \/ CycleEnds
    \/ \E f \in Feeds : CycleCancels(f) \/ CycleAsks(f)
    \/ \E b \in Bots : BotStarts(b) \/ BotIsOn(b) \/ BotStops(b)
    \/ \E s \in Symbols : PositionOpens(s)
    \/ Reload
    \/ Crash \/ Startup

Spec == Init /\ [][Next]_vars
============================================================================
