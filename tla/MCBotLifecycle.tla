--------------------------- MODULE MCBotLifecycle ---------------------------
(* BotLifecycle for a bot left to trade three lots; and for one that stops *)
(* on its exit: stopped by two clients, asked for everything, quit by      *)
(* force, or watched by the timers.                                        *)
EXTENDS BotSafety

CONSTANTS h1, h2

Trades == [lots |-> 3, stops |-> FALSE, orders |-> 4, commands |-> {"start"},
           clients |-> {h1}, lost |-> 0, manual |-> 0, pushes |-> 2,
           timeouts |-> FALSE, outages |-> TRUE]
StopsOnExit == [Trades EXCEPT !.lots = 2, !.stops = TRUE]

Alone == [StopsOnExit EXCEPT !.outages = FALSE]

MCSetups ==
    {Trades,
     [Alone EXCEPT !.orders = 3, !.commands = {"start", "stop", "force_stop"},
                   !.clients = {h1, h2}, !.manual = 2],
     [Alone EXCEPT !.lots = 1, !.orders = 1, !.commands = Requests, !.lost = 1, !.pushes = 0],
     [Alone EXCEPT !.lots = 1, !.orders = 2, !.commands = {"start", "force_quit"}, !.pushes = 0],
     [Alone EXCEPT !.orders = 2, !.manual = 1, !.pushes = 1, !.timeouts = TRUE]}
=============================================================================
