--------------------------- MODULE BotRunnerSafety ---------------------------
(***************************************************************************)
(* What the tables, the documents and the tasks of BotRunner are to each   *)
(* other.  Which requests may meet is the choice of each run's constants.  *)
(***************************************************************************)
EXTENDS BotRunner, FiniteSets

(* A registered task that runs can be stopped: its instance is there for   *)
(* the requests to find, or a stop is at work on it.  What comes between   *)
(* the awaits of a request and of the cleanup loop does not part the two   *)
(* tables, nor does a stop that overtakes a start.                         *)
Stopping(b) ==
    \E h \in Handlers : request[h].of = b /\ request[h].pc \in {"on_stop", "on_force_stop"}

RegisteredIsReachable ==
    \A b \in Bots : task[b] # Nobody =>
        instance[b] = task[b] \/ tasks[task[b]].life # "running" \/ Stopping(b)

(* A start that fails gives its reservation up, whatever happened to it    *)
(* meanwhile (start_bot()'s except clause): no bot stays unstartable.      *)
ReservationEnds == \A b \in Bots : instance[b] = Reserved ~> instance[b] # Reserved
=============================================================================
