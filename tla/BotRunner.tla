------------------------------ MODULE BotRunner ------------------------------
(***************************************************************************)
(* The process that runs the bots: the requests of bots/internal_api.py,   *)
(* and the startup passes and the cleanup loop of bots/runner.py, which    *)
(* share the tables bot_instances and running_tasks.  The requests are     *)
(* served from before the startup passes begin.  Each step is what runs    *)
(* between two awaits.  Of a bot's document only the state is kept, and    *)
(* what a trade does to it is BotLifecycle's; Redis answers every request, *)
(* but a bot's own stream connection may be lost.                          *)
(***************************************************************************)
EXTENDS Integers, Sequences

CONSTANTS
    Bots,         \* the definitions in config/bots
    AutoStart,    \* those with auto_start
    Handlers,     \* the clients, each with one request at a time
    Requests,     \* those they make: a client, a command and a bot
    MaxTasks,     \* bound: tasks created
    MaxRestarts   \* bound: restarts of the process

ASSUME RunnerAssumption ==
    /\ AutoStart \subseteq Bots
    /\ Requests \subseteq Handlers \X {"start", "stop", "force_stop", "reset"} \X Bots
    /\ {MaxTasks, MaxRestarts} \subseteq Nat

VARIABLES
    doc,        \* the state in each bot:<id>
    instance,   \* bot_instances
    task,       \* running_tasks
    tasks,      \* the tasks created: of which bot, and what became of them
    main,       \* where run_bot_runner() is
    request,    \* what each request is doing
    trouble,    \* the bots that the last start of the process found in a panic
                \* state, and that the operator has made no request for since
    paged,      \* the bots of which it has alerted him
    restarts

vars == <<doc, instance, task, tasks, main, request, trouble, paged, restarts>>
tables == <<instance, task>>
bootVars == <<trouble, paged, restarts>>

(* IN_TRADE stands for the three states of a position or an order.         *)
DocStates == {"OFF", "AWAITING_ENTRY_TRIGGER", "IN_TRADE", "ERRORED"}
Active == {"AWAITING_ENTRY_TRIGGER", "IN_TRADE"}
Panic == {"IN_TRADE", "ERRORED"}

InPanic == {b \in Bots : doc[b] \in Panic}

(* The n-th task is created with the instance n.                           *)
Nobody == 0
Reserved == -1
Entries == {Nobody, Reserved} \cup 1 .. MaxTasks

Anyone == CHOOSE b \in Bots : TRUE
Idle == [pc |-> "idle", of |-> Anyone]

(* The bots still to be done in a pass, the one at hand, the state read of *)
(* it and the instance taken from the table.                               *)
Booting == [pc |-> "sweep", todo |-> Bots, of |-> Anyone, seen |-> "OFF", bot |-> Nobody]

TypeOK ==
    /\ doc \in [Bots -> DocStates]
    /\ instance \in [Bots -> Entries] /\ task \in [Bots -> Entries \ {Reserved}]
    /\ tasks \in Seq([of : Bots, life : {"running", "raised", "ended"}])
    /\ main \in [pc : {"sweep", "force_off", "auto", "auto_create", "auto_start",
                       "loop", "crash", "delete"},
                 todo : SUBSET Bots, of : Bots, seen : DocStates, bot : Entries]
    /\ request \in [Handlers -> [pc : {"idle", "clean", "create", "on_start", "on_stop",
                                       "on_force_stop", "off", "error"}, of : Bots]]
    /\ {trouble, paged} \subseteq SUBSET Bots
    /\ restarts \in 0 .. MaxRestarts

Init ==
    /\ doc \in [Bots -> DocStates]
    /\ instance = [b \in Bots |-> Nobody] /\ task = [b \in Bots |-> Nobody] /\ tasks = <<>>
    /\ main = Booting
    /\ request = [h \in Handlers |-> Idle]
    /\ trouble = InPanic /\ paged = {} /\ restarts = 0

Write(b, state) == doc' = [doc EXCEPT ![b] = state]

(* The end of _create_and_start_bot(), and what both of its callers do at  *)
(* once with what it returns.                                              *)
Spawn(b) ==
    /\ Len(tasks) < MaxTasks
    /\ tasks' = Append(tasks, [of |-> b, life |-> "running"])
    /\ instance' = [instance EXCEPT ![b] = Len(tasks')]
    /\ task' = [task EXCEPT ![b] = Len(tasks')]

(* on_start(), in StrategyBotRunner.                                       *)
OnStart(b) ==
    Write(b, IF doc[b] \in {"OFF", "ERRORED"} THEN "AWAITING_ENTRY_TRIGGER" ELSE doc[b])

-----------------------------------------------------------------------------
(* run_bot_runner(): every bot is forced to OFF, with an alert if it was   *)
(* in trouble; then the auto-start pass; then the cleanup loop.            *)

MainGoes(pc) == main' = [main EXCEPT !.pc = pc]

(* A bot is done in this pass, and the last one ends it.                   *)
NextIn(pass, after) ==
    main' = IF main.todo = {} THEN [Booting EXCEPT !.pc = after]
                              ELSE [Booting EXCEPT !.pc = pass, !.todo = main.todo]

SweepRead(b) ==
    /\ main.pc = "sweep" /\ b \in main.todo
    /\ main' = [main EXCEPT !.pc = "force_off", !.todo = @ \ {b}, !.of = b, !.seen = doc[b]]
    /\ UNCHANGED <<doc, tables, tasks, request, bootVars>>

Panicked == IF main.seen \in Panic THEN paged \cup {main.of} ELSE paged

ForceOff ==
    /\ main.pc = "force_off"
    /\ IF main.seen = "OFF" THEN UNCHANGED doc ELSE Write(main.of, "OFF")
    /\ paged' = Panicked
    /\ NextIn("sweep", "auto")
    /\ UNCHANGED <<tables, tasks, request, trouble, restarts>>

AutoRead(b) ==
    /\ main.pc = "auto" /\ b \in main.todo
    /\ main' = [main EXCEPT !.pc = "auto_create", !.todo = @ \ {b}, !.of = b, !.seen = doc[b]]
    /\ UNCHANGED <<doc, tables, tasks, request, bootVars>>

AutoCreate ==
    /\ main.pc = "auto_create"
    /\ \/ main.of \in AutoStart /\ main.seen \notin Panic
          /\ Spawn(main.of) /\ MainGoes("auto_start")
       \/ NextIn("auto", "loop") /\ UNCHANGED <<tables, tasks>>
    /\ UNCHANGED <<doc, request, bootVars>>

AutoStarted ==
    /\ main.pc = "auto_start"
    /\ OnStart(main.of)
    /\ NextIn("auto", "loop")
    /\ UNCHANGED <<tables, tasks, request, bootVars>>

(* The cleanup loop finds a task that is done: it forgets one that ended   *)
(* or was cancelled, and has on_crash() called first for one that raised.  *)
Over(b, how) == main.pc = "loop" /\ task[b] # Nobody /\ tasks[task[b]].life = how

Forget(b) ==
    /\ task' = [task EXCEPT ![b] = Nobody]
    /\ instance' = [instance EXCEPT ![b] = Nobody]

Cleanup(b) ==
    /\ Over(b, "ended")
    /\ Forget(b)
    /\ UNCHANGED <<doc, tasks, main, request, bootVars>>

CrashSeen(b) ==
    /\ Over(b, "raised")
    /\ main' = [main EXCEPT !.pc = "crash", !.of = b, !.bot = instance[b]]
    /\ UNCHANGED <<doc, tables, tasks, request, bootVars>>

(* Without an instance it writes the state itself; the reservation has no  *)
(* on_crash(), and its AttributeError is only logged.                      *)
Crash ==
    /\ main.pc = "crash"
    /\ IF main.bot = Nobody \/ (main.bot # Reserved /\ doc[main.of] # "OFF")
       THEN Write(main.of, "ERRORED") ELSE UNCHANGED doc
    /\ MainGoes("delete")
    /\ UNCHANGED <<tables, tasks, request, bootVars>>

(* By then other entries may be in the tables; or none, which raises.      *)
Delete ==
    /\ main.pc = "delete"
    /\ IF task[main.of] = Nobody THEN UNCHANGED tables ELSE Forget(main.of)
    /\ main' = [Booting EXCEPT !.pc = "loop"]
    /\ UNCHANGED <<doc, tasks, request, bootVars>>

Main ==
    \/ \E b \in Bots : SweepRead(b) \/ AutoRead(b) \/ Cleanup(b) \/ CrashSeen(b)
    \/ ForceOff \/ AutoCreate \/ AutoStarted \/ Crash \/ Delete

-----------------------------------------------------------------------------
(* The requests.                                                           *)

Goes(h, pc) == request' = [request EXCEPT ![h].pc = pc]
Done(h) == request' = [request EXCEPT ![h] = Idle]

Ask(h, command, b, pc) ==
    /\ request[h].pc = "idle" /\ <<h, command, b>> \in Requests
    /\ trouble' = trouble \ {b}
    /\ request' = [request EXCEPT ![h] = [pc |-> pc, of |-> b]]
    /\ UNCHANGED <<doc, task, tasks, main, paged, restarts>>

(* start_bot(): it looks for an instance, then awaits the document, which  *)
(* is clean when the bot is OFF; warm-up is awaited with the slot reserved.*)
AskStart(h, b) ==
    instance[b] = Nobody /\ Ask(h, "start", b, "clean") /\ UNCHANGED instance

Reserve(h) ==
    LET b == request[h].of
    IN /\ request[h].pc = "clean"
       /\ IF doc[b] = "OFF"
          THEN Goes(h, "create") /\ instance' = [instance EXCEPT ![b] = Reserved]
          ELSE Done(h) /\ UNCHANGED instance
       /\ UNCHANGED <<doc, task, tasks, main, bootVars>>

ReleasedMutant(b) == instance
Released(b) == IF instance[b] = Reserved THEN [instance EXCEPT ![b] = Nobody] ELSE instance

Create(h) ==
    /\ request[h].pc = "create"
    /\ \/ Spawn(request[h].of) /\ Goes(h, "on_start")
       \/ instance' = Released(request[h].of) /\ Done(h) /\ UNCHANGED <<task, tasks>>
    /\ UNCHANGED <<doc, main, bootVars>>

Started(h) ==
    /\ request[h].pc = "on_start"
    /\ OnStart(request[h].of)
    /\ Done(h)
    /\ UNCHANGED <<tables, tasks, main, bootVars>>

(* Stops take the instance out of its table first, and cancel what is in   *)
(* the other table when they are done with it.                             *)
AskStop(h, b) ==
    /\ \/ instance[b] > 0 /\ Ask(h, "stop", b, "on_stop")
       \/ instance[b] <= 0 /\ Ask(h, "stop", b, "off")
       \/ instance[b] > 0 /\ Ask(h, "force_stop", b, "on_force_stop")
       \/ instance[b] <= 0 /\ Ask(h, "force_stop", b, "error")
    /\ instance' = [instance EXCEPT ![b] = Nobody]

CancelTaskMutant(b) == UNCHANGED <<task, tasks>>
CancelTask(b) ==
    /\ task' = [task EXCEPT ![b] = Nobody]
    /\ tasks' = [n \in DOMAIN tasks |-> IF n = task[b] THEN [tasks[n] EXCEPT !.life = "ended"]
                                                       ELSE tasks[n]]

(* on_stop() fails if the engine cannot be asked to cancel the order.      *)
Stopped(h) ==
    LET b == request[h].of
    IN /\ \/ request[h].pc = "on_stop" /\ Write(b, "OFF")
          \/ request[h].pc = "on_stop" /\ doc[b] = "IN_TRADE" /\ UNCHANGED doc
          \/ request[h].pc = "on_force_stop" /\ Write(b, "ERRORED")
       /\ CancelTask(b)
       /\ Done(h)
       /\ UNCHANGED <<instance, main, bootVars>>

AskReset(h, b) ==
    instance[b] = Nobody /\ Ask(h, "reset", b, "off") /\ UNCHANGED instance

(* A stop that found no instance, and a reset.                             *)
Written(h) ==
    /\ \/ request[h].pc = "off" /\ Write(request[h].of, "OFF")
       \/ request[h].pc = "error" /\ Write(request[h].of, "ERRORED")
    /\ Done(h)
    /\ UNCHANGED <<tables, tasks, main, bootVars>>

Proceed(h) == Reserve(h) \/ Create(h) \/ Started(h) \/ Stopped(h) \/ Written(h)
Handler(h) == Proceed(h) \/ \E b \in Bots : AskStart(h, b) \/ AskStop(h, b) \/ AskReset(h, b)

-----------------------------------------------------------------------------
(* The tasks: a bot enters a trade and leaves it, goes to ERRORED, or      *)
(* exits for good (stop_on_exit); a task raises, or loses its connection,  *)
(* which it takes for a cancellation.                                      *)

Running(b) == {n \in DOMAIN tasks : tasks[n] = [of |-> b, life |-> "running"]}
Becomes(n, how) == tasks' = [tasks EXCEPT ![n].life = how]

BotStep(b, n) ==
    /\ \/ doc[b] = "AWAITING_ENTRY_TRIGGER" /\ Write(b, "IN_TRADE") /\ UNCHANGED tasks
       \/ doc[b] = "IN_TRADE" /\ Write(b, "AWAITING_ENTRY_TRIGGER") /\ UNCHANGED tasks
       \/ doc[b] \in Active /\ Write(b, "ERRORED") /\ UNCHANGED tasks
       \/ doc[b] = "IN_TRADE" /\ Write(b, "OFF") /\ Becomes(n, "ended")
       \/ Becomes(n, "raised") /\ UNCHANGED doc
       \/ Becomes(n, "ended") /\ UNCHANGED doc
    /\ UNCHANGED <<tables, main, request, bootVars>>

(* The process is killed and started again.                                *)
Restart ==
    /\ restarts < MaxRestarts /\ restarts' = restarts + 1
    /\ instance' = [b \in Bots |-> Nobody] /\ task' = [b \in Bots |-> Nobody]
    /\ tasks' = [n \in DOMAIN tasks |-> [tasks[n] EXCEPT !.life = "ended"]]
    /\ main' = Booting
    /\ request' = [h \in Handlers |-> Idle]
    /\ trouble' = InPanic /\ paged' = {}
    /\ UNCHANGED doc

Next ==
    \/ Main \/ Restart
    \/ \E h \in Handlers : Handler(h)
    \/ \E b \in Bots : \E n \in Running(b) : BotStep(b, n)

Spec == Init /\ [][Next]_vars

(* The runner's coroutine and the requests go on.                          *)
FairSpec == Spec /\ WF_vars(Main) /\ \A h \in Handlers : WF_vars(Proceed(h))
=============================================================================
