--------------------------- MODULE BotRunnerProofs ---------------------------
(***************************************************************************)
(* Proofs about the process that runs the bots, for every set of bots and  *)
(* of clients, any number of tasks and restarts: a registered task that    *)
(* runs can be stopped, where no two starts of one bot meet.               *)
(***************************************************************************)
EXTENDS BotRunnerSafety, SequenceTheorems, TLAPS

(* A bot is started by one of the clients, or by the process.  Where two   *)
(* of these meet, the second may reserve the instance of the first's task, *)
(* between its creation and its on_start(): the document is still OFF.     *)
OneStarter ==
    /\ \A b \in AutoStart, h \in Handlers : <<h, "start", b>> \notin Requests
    /\ \A b \in Bots, h, k \in Handlers :
          <<h, "start", b>> \in Requests /\ <<k, "start", b>> \in Requests => h = k

Places == {"idle", "clean", "create", "on_start", "on_stop", "on_force_stop", "off", "error"}
Tasks == [of : Bots, life : {"running", "raised", "ended"}]

Types ==
    /\ instance \in [Bots -> Int]
    /\ task \in [Bots -> Nat]
    /\ tasks \in Seq(Tasks)
    /\ \A b \in Bots : task[b] <= Len(tasks)
    /\ request \in [Handlers -> [pc : Places, of : Bots \cup {Anyone}]]

(* The slot that a start has found free, or has reserved, is given to      *)
(* nobody else: the start may take it or give it up.                       *)
Starting ==
    \A h \in Handlers : request[h].pc \in {"clean", "create"} =>
        /\ <<h, "start", request[h].of>> \in Requests
        /\ instance[request[h].of] \in {Nobody, Reserved}

RunnerInv == Types /\ Starting /\ RegisteredIsReachable

(* What RegisteredIsReachable says of one bot.                             *)
Reachable(b) ==
    task[b] # Nobody =>
        instance[b] = task[b] \/ tasks[task[b]].life # "running" \/ Stopping(b)

-----------------------------------------------------------------------------
(* The kinds of steps.                                                     *)

(* A step that leaves the tables alone and lets no task run again; every   *)
(* stop that is at work stays so.                                          *)
Calm ==
    /\ UNCHANGED tables
    /\ tasks' \in Seq(Tasks) /\ Len(tasks') = Len(tasks)
    /\ \A n \in 1 .. Len(tasks) : tasks'[n].life = "running" => tasks[n].life = "running"

LEMMA CalmKeeps ==
    ASSUME RunnerInv, Calm, request' = request
    PROVE  RunnerInv'
<1>1. Types'
  BY Zenon DEF RunnerInv, Types, Calm, tables
<1>2. Starting'
  BY Zenon DEF RunnerInv, Starting, Calm, tables
<1>3. RegisteredIsReachable'
  <2> SUFFICES ASSUME NEW b \in Bots, task'[b] # Nobody
               PROVE  instance'[b] = task'[b] \/ tasks'[task'[b]].life # "running" \/ Stopping(b)'
    BY DEF RegisteredIsReachable
  <2>1. instance' = instance /\ task' = task
    BY Zenon DEF Calm, tables
  <2>2. task[b] \in 1 .. Len(tasks)
    BY <2>1 DEF RunnerInv, Types, Nobody
  <2>3. instance[b] = task[b] \/ tasks[task[b]].life # "running" \/ Stopping(b)
    BY <2>1 DEF RunnerInv, RegisteredIsReachable
  <2>4. Stopping(b)' <=> Stopping(b)
    BY DEF Stopping
  <2> QED
    BY <2>1, <2>2, <2>3, <2>4 DEF Calm
<1> QED
  BY <1>1, <1>2, <1>3 DEF RunnerInv

(* A task is created for b, which nobody else is starting.                 *)
LEMMA SpawnKeeps ==
    ASSUME RunnerInv, NEW b \in Bots, Spawn(b),
           request' \in [Handlers -> [pc : Places, of : Bots \cup {Anyone}]],
           \A h \in Handlers : request'[h].pc \in {"clean", "create"} =>
                request'[h] = request[h] /\ request[h].of # b,
           \A h \in Handlers : request[h].pc \in {"on_stop", "on_force_stop"} =>
                request'[h] = request[h]
    PROVE  RunnerInv'
<1> DEFINE n == Len(tasks) + 1
           t == [of |-> b, life |-> "running"]
<1>1. Types
  BY DEF RunnerInv
<1>2. t \in Tasks /\ n \in Nat /\ n > 0
  BY <1>1 DEF Tasks, Types
<1>3. /\ tasks' = Append(tasks, t) /\ tasks' \in Seq(Tasks) /\ Len(tasks') = n
      /\ \A i \in 1 .. Len(tasks) : tasks'[i] = tasks[i]
  BY <1>1, <1>2 DEF Spawn, Types
<1>4. instance' = [instance EXCEPT ![b] = n] /\ task' = [task EXCEPT ![b] = n]
  BY <1>3 DEF Spawn
<1> HIDE DEF n, t
<1>5. Types'
  <2>1. instance' \in [Bots -> Int] /\ task' \in [Bots -> Nat]
    BY <1>1, <1>2, <1>4 DEF Types
  <2>2. \A c \in Bots : task'[c] <= Len(tasks')
    BY <1>1, <1>2, <1>3, <1>4 DEF Types, n
  <2> QED
    BY <1>3, <2>1, <2>2 DEF Types
<1>6. Starting'
  <2> SUFFICES ASSUME NEW h \in Handlers, request'[h].pc \in {"clean", "create"}
               PROVE  /\ <<h, "start", request'[h].of>> \in Requests
                      /\ instance'[request'[h].of] \in {Nobody, Reserved}
    BY DEF Starting
  <2>1. request'[h] = request[h] /\ request[h].of # b
    OBVIOUS
  <2>2. instance'[request[h].of] = instance[request[h].of]
    BY <1>1, <1>4, <2>1 DEF Types
  <2> QED
    BY <2>1, <2>2 DEF RunnerInv, Starting
<1>7. RegisteredIsReachable'
  <2> SUFFICES ASSUME NEW c \in Bots, task'[c] # Nobody
               PROVE  instance'[c] = task'[c] \/ tasks'[task'[c]].life # "running" \/ Stopping(c)'
    BY DEF RegisteredIsReachable
  <2>1. CASE c = b
    BY <1>1, <1>4, <2>1 DEF Types
  <2>2. CASE c # b
    <3>1. instance'[c] = instance[c] /\ task'[c] = task[c]
      BY <1>1, <1>4, <2>2 DEF Types
    <3>2. task[c] \in 1 .. Len(tasks)
      BY <1>1, <3>1 DEF Types, Nobody
    <3>3. instance[c] = task[c] \/ tasks[task[c]].life # "running" \/ Stopping(c)
      BY <3>1 DEF RunnerInv, RegisteredIsReachable
    <3>4. Stopping(c) => Stopping(c)'
      BY DEF Stopping
    <3> QED
      BY <1>3, <3>1, <3>2, <3>3, <3>4
  <2> QED
    BY <2>1, <2>2
<1> QED
  BY <1>5, <1>6, <1>7 DEF RunnerInv

(* b loses its place in the first table, and perhaps in the second.  If it *)
(* keeps the second, a stop is at work on it.                              *)
LEMMA ReleaseKeeps ==
    ASSUME RunnerInv, NEW b \in Bots,
           instance' = [instance EXCEPT ![b] = Nobody],
           task' = task \/ task' = [task EXCEPT ![b] = Nobody],
           tasks' = tasks,
           request' \in [Handlers -> [pc : Places, of : Bots \cup {Anyone}]],
           \A h \in Handlers : request'[h].pc \in {"clean", "create"} => request'[h] = request[h],
           \A h \in Handlers : request[h].pc \in {"on_stop", "on_force_stop"} =>
                request'[h] = request[h],
           task'[b] # Nobody /\ instance[b] = task[b] => Stopping(b)'
    PROVE  RunnerInv'
<1>1. Types
  BY DEF RunnerInv
<1>2. Types'
  <2>1. instance' \in [Bots -> Int]
    BY <1>1 DEF Types, Nobody
  <2>2. task' \in [Bots -> Nat] /\ \A c \in Bots : task'[c] <= Len(tasks)
    <3>1. CASE task' = task
      BY <1>1, <3>1 DEF Types
    <3>2. CASE task' = [task EXCEPT ![b] = Nobody]
      <4>1. \A c \in Bots : task'[c] = IF c = b THEN 0 ELSE task[c]
        BY <1>1, <3>2 DEF Types, Nobody
      <4>2. task' \in [Bots -> Nat] /\ 0 <= Len(tasks)
        BY <1>1, <3>2 DEF Types, Nobody
      <4> QED
        BY <1>1, <4>1, <4>2 DEF Types
    <3> QED
      BY <3>1, <3>2
  <2> QED
    BY <1>1, <2>1, <2>2 DEF Types
<1>3. Starting'
  <2> SUFFICES ASSUME NEW h \in Handlers, request'[h].pc \in {"clean", "create"}
               PROVE  /\ <<h, "start", request'[h].of>> \in Requests
                      /\ instance'[request'[h].of] \in {Nobody, Reserved}
    BY DEF Starting
  <2>1. /\ request'[h] = request[h] /\ <<h, "start", request[h].of>> \in Requests
        /\ instance[request[h].of] \in {Nobody, Reserved}
    BY DEF RunnerInv, Starting
  <2>2. instance'[request[h].of] \in {Nobody, instance[request[h].of]}
    <3>1. request[h].of \in Bots
      BY <2>1, RunnerAssumption DEF RunnerAssumption
    <3> QED
      BY <1>1, <3>1 DEF Types
  <2> QED
    BY <2>1, <2>2
<1>4. RegisteredIsReachable'
  <2> SUFFICES ASSUME NEW c \in Bots, task'[c] # Nobody
               PROVE  instance'[c] = task'[c] \/ tasks[task'[c]].life # "running" \/ Stopping(c)'
    BY DEF RegisteredIsReachable
  <2>1. task'[c] = task[c] /\ task[c] # Nobody
    BY <1>1 DEF Types
  <2>2. instance[c] = task[c] \/ tasks[task[c]].life # "running" \/ Stopping(c)
    BY <2>1 DEF RunnerInv, RegisteredIsReachable
  <2>3. Stopping(c) => Stopping(c)'
    BY DEF Stopping
  <2>4. c # b => instance'[c] = instance[c]
    BY <1>1 DEF Types
  <2> QED
    BY <2>1, <2>2, <2>3, <2>4
<1> QED
  BY <1>2, <1>3, <1>4 DEF RunnerInv

(* A request goes on or ends; the tables stay.                             *)
LEMMA RequestKeeps ==
    ASSUME RunnerInv, UNCHANGED tables, tasks' = tasks, NEW h \in Handlers,
           NEW r \in [pc : Places, of : Bots \cup {Anyone}],
           request' = [request EXCEPT ![h] = r],
           r.pc \in {"clean", "create"} => /\ <<h, "start", r.of>> \in Requests
                                           /\ instance[r.of] \in {Nobody, Reserved},
           request[h].pc \notin {"on_stop", "on_force_stop"}
    PROVE  RunnerInv'
<1>1. Types /\ instance' = instance /\ task' = task
  BY Zenon DEF RunnerInv, tables
<1>2. request' \in [Handlers -> [pc : Places, of : Bots \cup {Anyone}]]
      /\ request'[h] = r /\ \A k \in Handlers : k # h => request'[k] = request[k]
  BY <1>1 DEF Types
<1>3. Types'
  BY <1>1, <1>2 DEF Types
<1>4. Starting'
  BY <1>1, <1>2 DEF RunnerInv, Starting
<1>5. \A b \in Bots : Stopping(b) => Stopping(b)'
  BY <1>2 DEF Stopping
<1>6. RegisteredIsReachable'
  BY <1>1, <1>5 DEF RunnerInv, RegisteredIsReachable
<1> QED
  BY <1>3, <1>4, <1>6 DEF RunnerInv

-----------------------------------------------------------------------------
(* The steps of the process's own coroutine.                               *)
LEMMA MainKeeps ==
    ASSUME OneStarter, RunnerInv, Main
    PROVE  RunnerInv'
<1>1. Types
  BY DEF RunnerInv
<1>2. ASSUME UNCHANGED <<tables, tasks, request>> PROVE RunnerInv'
  <2>1. Calm
    BY <1>1, <1>2 DEF Calm, Types
  <2> QED
    BY <1>2, <2>1, CalmKeeps
<1>3. ASSUME NEW b \in Bots, Forget(b), UNCHANGED <<tasks, request>> PROVE RunnerInv'
  <2>1. /\ instance' = [instance EXCEPT ![b] = Nobody]
        /\ task' = [task EXCEPT ![b] = Nobody] /\ task'[b] = Nobody
    BY <1>1, <1>3 DEF Forget, Types
  <2>2. request' \in [Handlers -> [pc : Places, of : Bots \cup {Anyone}]]
    BY <1>1, <1>3 DEF Types
  <2> QED
    BY <1>3, <2>1, <2>2, ReleaseKeeps
<1>4. ASSUME NEW b \in Bots, SweepRead(b) \/ AutoRead(b) \/ CrashSeen(b) PROVE RunnerInv'
  <2>1. UNCHANGED <<tables, tasks, request>>
    BY <1>4, Zenon DEF SweepRead, AutoRead, CrashSeen
  <2> QED
    BY <1>2, <2>1
<1>5. ASSUME NEW b \in Bots, Cleanup(b) PROVE RunnerInv'
  <2>1. Forget(b) /\ UNCHANGED <<tasks, request>>
    BY <1>5, Zenon DEF Cleanup
  <2> QED
    BY <1>3, <2>1
<1>6. CASE ForceOff \/ AutoStarted \/ Crash
  <2>1. UNCHANGED <<tables, tasks, request>>
    BY <1>6, Zenon DEF ForceOff, AutoStarted, Crash
  <2> QED
    BY <1>2, <2>1
<1>7. CASE AutoCreate
  <2>1. request' = request
    BY <1>7, Zenon DEF AutoCreate
  <2>2. CASE main.of \in AutoStart /\ Spawn(main.of)
    <3>1. main.of \in Bots
      BY <2>2, RunnerAssumption DEF RunnerAssumption
    <3>2. \A h \in Handlers : request[h].pc \in {"clean", "create"} => request[h].of # main.of
      BY <2>2 DEF RunnerInv, Starting, OneStarter
    <3>3. request' \in [Handlers -> [pc : Places, of : Bots \cup {Anyone}]]
      BY <1>1, <2>1 DEF Types
    <3> QED
      BY <2>1, <2>2, <3>1, <3>2, <3>3, SpawnKeeps
  <2>3. CASE UNCHANGED <<tables, tasks>>
    BY <1>2, <2>1, <2>3
  <2> QED
    BY <1>7, <2>2, <2>3, Zenon DEF AutoCreate
<1>8. CASE Delete
  <2>1. UNCHANGED <<tasks, request>> /\ (UNCHANGED tables \/ Forget(main.of))
    BY <1>8, Zenon DEF Delete
  <2>2. CASE Forget(main.of)
    <3>1. CASE main.of \in Bots
      BY <1>3, <2>1, <2>2, <3>1
    <3>2. CASE main.of \notin Bots
      <4>1. instance' = instance /\ task' = task
        BY <1>1, <2>2, <3>2 DEF Forget, Types
      <4> QED
        BY <1>2, <2>1, <4>1 DEF tables
    <3> QED
      BY <3>1, <3>2
  <2> QED
    BY <1>2, <2>1, <2>2
<1> QED
  BY <1>4, <1>5, <1>6, <1>7, <1>8 DEF Main

-----------------------------------------------------------------------------
(* The steps of the requests.                                              *)

(* What a request finds: a client that is at work on a bot.                *)
LEMMA RequestTypes ==
    ASSUME Types, NEW h \in Handlers
    PROVE  /\ request[h] \in [pc : Places, of : Bots \cup {Anyone}]
           /\ Idle \in [pc : Places, of : Bots \cup {Anyone}]
           /\ Idle.pc = "idle"
           /\ \A pc \in Places :
                 /\ [request EXCEPT ![h].pc = pc] = [request EXCEPT ![h] = [pc |-> pc, of |-> request[h].of]]
                 /\ [pc |-> pc, of |-> request[h].of] \in [pc : Places, of : Bots \cup {Anyone}]
<1>1. request[h] \in [pc : Places, of : Bots \cup {Anyone}]
  BY DEF Types
<1>2. Idle \in [pc : Places, of : Bots \cup {Anyone}] /\ Idle.pc = "idle"
  BY DEF Idle, Places
<1>3. ASSUME NEW pc \in Places
      PROVE  /\ [request EXCEPT ![h].pc = pc] = [request EXCEPT ![h] = [pc |-> pc, of |-> request[h].of]]
             /\ [pc |-> pc, of |-> request[h].of] \in [pc : Places, of : Bots \cup {Anyone}]
  <2>1. [request[h] EXCEPT !.pc = pc] = [pc |-> pc, of |-> request[h].of]
    BY <1>1
  <2> QED
    BY <1>1, <2>1
<1> QED
  BY <1>1, <1>2, <1>3

LEMMA AskKeeps ==
    ASSUME RunnerInv, NEW h \in Handlers, NEW b \in Bots,
           AskStart(h, b) \/ AskReset(h, b)
    PROVE  RunnerInv'
<1>1. Types
  BY DEF RunnerInv
<1>2. CASE AskStart(h, b)
  <2>1. /\ request[h].pc = "idle" /\ <<h, "start", b>> \in Requests /\ instance[b] = Nobody
        /\ request' = [request EXCEPT ![h] = [pc |-> "clean", of |-> b]]
        /\ UNCHANGED tables /\ tasks' = tasks
    BY <1>2, Zenon DEF AskStart, Ask, tables
  <2>2. [pc |-> "clean", of |-> b] \in [pc : Places, of : Bots \cup {Anyone}]
    BY DEF Places
  <2> QED
    BY <2>1, <2>2, RequestKeeps
<1>3. CASE AskReset(h, b)
  <2>1. /\ request[h].pc = "idle"
        /\ request' = [request EXCEPT ![h] = [pc |-> "off", of |-> b]]
        /\ UNCHANGED tables /\ tasks' = tasks
    BY <1>3, Zenon DEF AskReset, Ask, tables
  <2>2. [pc |-> "off", of |-> b] \in [pc : Places, of : Bots \cup {Anyone}]
    BY DEF Places
  <2> QED
    BY <2>1, <2>2, RequestKeeps
<1> QED
  BY <1>2, <1>3

(* A stop takes the instance away and is at work on its task, unless there *)
(* is none to take.                                                        *)
LEMMA AskStopKeeps ==
    ASSUME RunnerInv, NEW h \in Handlers, NEW b \in Bots, AskStop(h, b)
    PROVE  RunnerInv'
<1>1. Types
  BY DEF RunnerInv
<1>2. PICK pc \in {"on_stop", "off", "on_force_stop", "error"} :
          /\ request[h].pc = "idle"
          /\ request' = [request EXCEPT ![h] = [pc |-> pc, of |-> b]]
          /\ task' = task /\ tasks' = tasks
          /\ pc \in {"off", "error"} => instance[b] <= 0
  <2>1. \/ instance[b] > 0 /\ Ask(h, "stop", b, "on_stop")
        \/ instance[b] <= 0 /\ Ask(h, "stop", b, "off")
        \/ instance[b] > 0 /\ Ask(h, "force_stop", b, "on_force_stop")
        \/ instance[b] <= 0 /\ Ask(h, "force_stop", b, "error")
    BY Zenon DEF AskStop
  <2>2. ASSUME NEW c, NEW pc, Ask(h, c, b, pc)
        PROVE  /\ request[h].pc = "idle"
               /\ request' = [request EXCEPT ![h] = [pc |-> pc, of |-> b]]
               /\ task' = task /\ tasks' = tasks
    BY <2>2, Zenon DEF Ask
  <2> QED
    BY <2>1, <2>2
<1>3. instance' = [instance EXCEPT ![b] = Nobody]
  BY Zenon DEF AskStop
<1>4. pc \in Places
  BY DEF Places
<1>5. /\ request' \in [Handlers -> [pc : Places, of : Bots \cup {Anyone}]]
      /\ request'[h] = [pc |-> pc, of |-> b]
      /\ \A k \in Handlers : k # h => request'[k] = request[k]
  BY <1>1, <1>2, <1>4 DEF Types
<1>6. ASSUME task'[b] # Nobody, instance[b] = task[b] PROVE Stopping(b)'
  <2>1. instance[b] > 0
    BY <1>1, <1>2, <1>6 DEF Types, Nobody
  <2>2. pc \in {"on_stop", "on_force_stop"}
    BY <1>1, <1>2, <2>1 DEF Types
  <2> QED
    BY <1>5, <2>2 DEF Stopping
<1>7. \A k \in Handlers : request'[k].pc \in {"clean", "create"} => request'[k] = request[k]
  BY <1>2, <1>5
<1>8. \A k \in Handlers : request[k].pc \in {"on_stop", "on_force_stop"} => request'[k] = request[k]
  BY <1>2, <1>5
<1> QED
  BY <1>2, <1>3, <1>5, <1>6, <1>7, <1>8, ReleaseKeeps

(* start_bot() after its await of the document.                            *)
LEMMA ReserveKeeps ==
    ASSUME OneStarter, RunnerInv, NEW h \in Handlers, Reserve(h)
    PROVE  RunnerInv'
<1> DEFINE b == request[h].of
<1>1. Types /\ request[h].pc = "clean"
  BY DEF RunnerInv, Reserve
<1>2. <<h, "start", b>> \in Requests /\ instance[b] \in {Nobody, Reserved} /\ b \in Bots
  BY <1>1, RunnerAssumption DEF RunnerInv, Starting, RunnerAssumption
<1>3. task' = task /\ tasks' = tasks
  BY Zenon DEF Reserve
<1>4. "create" \in Places
  BY DEF Places
<1>5. CASE Done(h) /\ UNCHANGED instance
  <2>1. UNCHANGED tables
    BY <1>3, <1>5 DEF tables
  <2> QED
    BY <1>1, <1>3, <1>5, <2>1, RequestTypes, RequestKeeps DEF Done
<1>6. CASE Goes(h, "create") /\ instance' = [instance EXCEPT ![b] = Reserved]
  <2> DEFINE r == [pc |-> "create", of |-> b]
  <2>1. request' = [request EXCEPT ![h] = r] /\ r \in [pc : Places, of : Bots \cup {Anyone}]
    BY <1>1, <1>4, <1>6, RequestTypes DEF Goes
  <2>2. /\ request' \in [Handlers -> [pc : Places, of : Bots \cup {Anyone}]]
        /\ request'[h] = r /\ \A k \in Handlers : k # h => request'[k] = request[k]
    BY <1>1, <2>1 DEF Types
  <2>3. instance' \in [Bots -> Int] /\ instance'[b] = Reserved
        /\ \A c \in Bots : c # b => instance'[c] = instance[c]
    BY <1>1, <1>2, <1>6 DEF Types, Reserved
  <2>4. Types'
    BY <1>1, <1>3, <2>2, <2>3 DEF Types
  <2>5. Starting'
    <3> SUFFICES ASSUME NEW k \in Handlers, request'[k].pc \in {"clean", "create"}
                 PROVE  /\ <<k, "start", request'[k].of>> \in Requests
                        /\ instance'[request'[k].of] \in {Nobody, Reserved}
      BY DEF Starting
    <3>1. CASE k = h
      BY <1>2, <2>2, <2>3, <3>1
    <3>2. CASE k # h
      <4>1. /\ request'[k] = request[k] /\ <<k, "start", request[k].of>> \in Requests
            /\ instance[request[k].of] \in {Nobody, Reserved}
        BY <2>2, <3>2 DEF RunnerInv, Starting
      <4>2. request[k].of \in Bots
        BY <4>1, RunnerAssumption DEF RunnerAssumption
      <4> QED
        BY <2>3, <4>1, <4>2
    <3> QED
      BY <3>1, <3>2
  <2>6. \A c \in Bots : Stopping(c) => Stopping(c)'
    BY <1>1, <2>2 DEF Stopping
  <2>7. RegisteredIsReachable'
    <3> SUFFICES ASSUME NEW c \in Bots, task'[c] # Nobody
                 PROVE  instance'[c] = task'[c] \/ tasks'[task'[c]].life # "running" \/ Stopping(c)'
      BY DEF RegisteredIsReachable
    <3>1. instance[c] = task[c] \/ tasks[task[c]].life # "running" \/ Stopping(c)
      BY <1>3 DEF RunnerInv, RegisteredIsReachable
    <3>2. task[c] > 0
      BY <1>1, <1>3 DEF Types, Nobody
    <3>3. CASE c = b
      <4>1. instance[b] # task[b]
        BY <1>2, <3>2, <3>3 DEF Nobody, Reserved
      <4> QED
        BY <1>3, <2>6, <3>1, <3>3, <4>1
    <3>4. CASE c # b
      BY <1>3, <2>3, <2>6, <3>1, <3>4
    <3> QED
      BY <3>3, <3>4
  <2> QED
    BY <2>4, <2>5, <2>7 DEF RunnerInv
<1> QED
  BY <1>5, <1>6, Zenon DEF Reserve

(* _create_and_start_bot() for a request, or the release of its slot.      *)
LEMMA CreateKeeps ==
    ASSUME OneStarter, RunnerInv, NEW h \in Handlers, Create(h)
    PROVE  RunnerInv'
<1> DEFINE b == request[h].of
<1>1. Types /\ request[h].pc = "create"
  BY DEF RunnerInv, Create
<1>2. <<h, "start", b>> \in Requests /\ instance[b] \in {Nobody, Reserved} /\ b \in Bots
  BY <1>1, RunnerAssumption DEF RunnerInv, Starting, RunnerAssumption
<1>3. CASE Spawn(b) /\ Goes(h, "on_start")
  <2> DEFINE r == [pc |-> "on_start", of |-> b]
  <2>1. request' = [request EXCEPT ![h] = r] /\ r \in [pc : Places, of : Bots \cup {Anyone}]
    <3>1. "on_start" \in Places
      BY DEF Places
    <3> QED
      BY <1>1, <1>3, <3>1, RequestTypes DEF Goes
  <2>2. /\ request' \in [Handlers -> [pc : Places, of : Bots \cup {Anyone}]]
        /\ request'[h] = r /\ \A k \in Handlers : k # h => request'[k] = request[k]
    BY <1>1, <2>1 DEF Types
  <2>3. ASSUME NEW k \in Handlers, request'[k].pc \in {"clean", "create"}
        PROVE  request'[k] = request[k] /\ request[k].of # b
    <3>1. k # h /\ request'[k] = request[k]
      BY <2>2, <2>3
    <3>2. <<k, "start", request[k].of>> \in Requests
      BY <2>3, <3>1 DEF RunnerInv, Starting
    <3> QED
      BY <1>2, <3>1, <3>2 DEF OneStarter
  <2>4. \A k \in Handlers : request[k].pc \in {"on_stop", "on_force_stop"} => request'[k] = request[k]
    BY <1>1, <2>2
  <2> QED
    BY <1>2, <1>3, <2>2, <2>3, <2>4, SpawnKeeps
<1>4. CASE instance' = Released(b) /\ Done(h) /\ UNCHANGED <<task, tasks>>
  <2>1. request' = [request EXCEPT ![h] = Idle]
    BY <1>4 DEF Done
  <2>2. /\ request' \in [Handlers -> [pc : Places, of : Bots \cup {Anyone}]]
        /\ request'[h] = Idle /\ \A k \in Handlers : k # h => request'[k] = request[k]
    BY <1>1, <2>1, RequestTypes DEF Types
  <2>3. CASE instance[b] = Reserved
    <3>1. instance' = [instance EXCEPT ![b] = Nobody]
      BY <1>4, <2>3 DEF Released
    <3>2. instance[b] # task[b]
      BY <1>1, <1>2, <2>3 DEF Types, Reserved
    <3>3. \A k \in Handlers : request'[k].pc \in {"clean", "create"} => request'[k] = request[k]
      BY <1>1, <2>2, RequestTypes
    <3>4. \A k \in Handlers : request[k].pc \in {"on_stop", "on_force_stop"} => request'[k] = request[k]
      BY <1>1, <2>2
    <3> QED
      BY <1>2, <1>4, <2>2, <3>1, <3>2, <3>3, <3>4, ReleaseKeeps
  <2>4. CASE instance[b] # Reserved
    <3>1. UNCHANGED tables
      BY <1>4, <2>4 DEF Released, tables
    <3> QED
      BY <1>1, <1>4, <2>1, <3>1, RequestTypes, RequestKeeps
  <2> QED
    BY <2>3, <2>4
<1> QED
  BY <1>3, <1>4, Zenon DEF Create

(* on_start(), and the write of a stop without an instance or of a reset.  *)
LEMMA WriteKeeps ==
    ASSUME RunnerInv, NEW h \in Handlers, Started(h) \/ Written(h)
    PROVE  RunnerInv'
<1>1. Types
  BY DEF RunnerInv
<1>2. /\ request[h].pc \in {"on_start", "off", "error"}
      /\ request' = [request EXCEPT ![h] = Idle] /\ UNCHANGED tables /\ tasks' = tasks
  BY Zenon DEF Started, Written, Done
<1> QED
  BY <1>1, <1>2, RequestTypes, RequestKeeps

(* The end of a stop: it cancels the task that the second table holds by   *)
(* now and takes it out, so that its own going lets nothing loose.         *)
LEMMA StoppedKeeps ==
    ASSUME RunnerInv, NEW h \in Handlers, Stopped(h)
    PROVE  RunnerInv'
<1> DEFINE b == request[h].of
<1>1. Types /\ request[h].pc \in {"on_stop", "on_force_stop"}
  BY DEF RunnerInv, Stopped
<1>2. /\ task' = [task EXCEPT ![b] = Nobody]
      /\ tasks' = [n \in DOMAIN tasks |-> IF n = task[b] THEN [tasks[n] EXCEPT !.life = "ended"]
                                                         ELSE tasks[n]]
      /\ request' = [request EXCEPT ![h] = Idle]
      /\ instance' = instance
  BY Zenon DEF Stopped, CancelTask, Done
<1>3. /\ request' \in [Handlers -> [pc : Places, of : Bots \cup {Anyone}]]
      /\ request'[h].pc = "idle" /\ \A k \in Handlers : k # h => request'[k] = request[k]
  BY <1>1, <1>2, RequestTypes DEF Types
<1>4. /\ tasks' \in Seq(Tasks) /\ Len(tasks') = Len(tasks)
      /\ \A n \in 1 .. Len(tasks) : tasks'[n].life = "running" => tasks[n].life = "running"
  <2>1. DOMAIN tasks = 1 .. Len(tasks) /\ Len(tasks) \in Nat
    BY <1>1 DEF Types
  <2>2. \A n \in 1 .. Len(tasks) : tasks[n] \in Tasks
    BY <1>1 DEF Types
  <2>3. \A n \in 1 .. Len(tasks) :
            /\ tasks'[n] \in Tasks
            /\ tasks'[n].life = "running" => tasks[n].life = "running"
    BY <1>2, <2>1, <2>2 DEF Tasks
  <2>4. tasks' \in [1 .. Len(tasks) -> Tasks]
    BY <1>2, <2>1, <2>3
  <2> QED
    BY <2>1, <2>3, <2>4
<1>5. \A c \in Bots : task'[c] = IF c = b THEN 0 ELSE task[c]
  BY <1>1, <1>2 DEF Types, Nobody
<1>6. Types'
  <2>1. task' \in [Bots -> Nat]
    BY <1>1, <1>2 DEF Types, Nobody
  <2>2. 0 <= Len(tasks)
    BY <1>1 DEF Types
  <2> QED
    BY <1>1, <1>2, <1>3, <1>4, <1>5, <2>1, <2>2 DEF Types
<1>7. Starting'
  BY <1>2, <1>3 DEF RunnerInv, Starting
<1>8. RegisteredIsReachable'
  <2> SUFFICES ASSUME NEW c \in Bots, task'[c] # Nobody
               PROVE  instance'[c] = task'[c] \/ tasks'[task'[c]].life # "running" \/ Stopping(c)'
    BY DEF RegisteredIsReachable
  <2>1. c # b /\ task'[c] = task[c] /\ task[c] \in 1 .. Len(tasks)
    BY <1>1, <1>5 DEF Types, Nobody
  <2>2. instance[c] = task[c] \/ tasks[task[c]].life # "running" \/ Stopping(c)
    BY <2>1 DEF RunnerInv, RegisteredIsReachable, Nobody
  <2>3. Stopping(c) => Stopping(c)'
    BY <1>3, <2>1 DEF Stopping
  <2> QED
    BY <1>2, <1>4, <2>1, <2>2, <2>3
<1> QED
  BY <1>6, <1>7, <1>8 DEF RunnerInv

-----------------------------------------------------------------------------
(* The tasks and the restarts.                                             *)
LEMMA BotStepKeeps ==
    ASSUME RunnerInv, NEW b \in Bots, NEW n \in Running(b), BotStep(b, n)
    PROVE  RunnerInv'
<1>1. Types /\ n \in 1 .. Len(tasks)
  BY DEF RunnerInv, Running, Types
<1>2. /\ tasks' = tasks \/ Becomes(n, "ended") \/ Becomes(n, "raised")
      /\ UNCHANGED tables /\ request' = request
  BY Zenon DEF BotStep
<1>3. ASSUME NEW how \in {"ended", "raised"}, Becomes(n, how)
      PROVE  Calm
  <2>1. tasks \in Seq(Tasks) /\ tasks[n] \in Tasks
    BY <1>1 DEF Types
  <2>2. [tasks[n] EXCEPT !.life = how] \in Tasks /\ [tasks[n] EXCEPT !.life = how].life = how
    BY <2>1 DEF Tasks
  <2>3. tasks' = [tasks EXCEPT ![n] = [tasks[n] EXCEPT !.life = how]]
    BY <1>3 DEF Becomes
  <2>4. /\ tasks' \in Seq(Tasks) /\ Len(tasks') = Len(tasks)
        /\ \A i \in 1 .. Len(tasks) :
              tasks'[i] = IF i = n THEN [tasks[n] EXCEPT !.life = how] ELSE tasks[i]
    BY <1>1, <2>1, <2>2, <2>3, ExceptSeq
  <2> QED
    BY <1>2, <2>2, <2>4 DEF Calm
<1>4. ASSUME tasks' = tasks PROVE Calm
  <2>1. tasks \in Seq(Tasks) /\ UNCHANGED tables
    BY <1>1, <1>2 DEF Types
  <2>2. tasks' \in Seq(Tasks) /\ Len(tasks') = Len(tasks)
    BY <1>4, <2>1
  <2> QED
    <3>1. \A m \in 1 .. Len(tasks) : tasks'[m].life = "running" => tasks[m].life = "running"
      BY <1>4
    <3> QED
      BY <2>1, <2>2, <3>1 DEF Calm
<1>5. Calm
  BY <1>2, <1>3, <1>4, Zenon
<1> QED
  BY <1>2, <1>5, CalmKeeps

LEMMA RestartKeeps ==
    ASSUME RunnerInv, Restart
    PROVE  RunnerInv'
<1>1. Types
  BY DEF RunnerInv
<1>2. /\ instance' = [b \in Bots |-> Nobody] /\ task' = [b \in Bots |-> Nobody]
      /\ tasks' = [n \in DOMAIN tasks |-> [tasks[n] EXCEPT !.life = "ended"]]
      /\ request' = [h \in Handlers |-> Idle]
  BY DEF Restart
<1>3. tasks' \in Seq(Tasks) /\ Len(tasks') \in Nat
  <2>1. DOMAIN tasks = 1 .. Len(tasks) /\ Len(tasks) \in Nat
    BY <1>1 DEF Types
  <2>2. \A n \in 1 .. Len(tasks) : [tasks[n] EXCEPT !.life = "ended"] \in Tasks
    <3>1. \A n \in 1 .. Len(tasks) : tasks[n] \in Tasks
      BY <1>1 DEF Types
    <3> QED
      BY <3>1 DEF Tasks
  <2>3. tasks' \in [1 .. Len(tasks) -> Tasks]
    BY <1>2, <2>1, <2>2
  <2> QED
    BY <2>1, <2>3
<1>4. Idle \in [pc : Places, of : Bots \cup {Anyone}] /\ Idle.pc = "idle"
  BY DEF Idle, Places
<1>5. Types'
  BY <1>2, <1>3, <1>4 DEF Types, Nobody
<1>6. Starting'
  BY <1>2, <1>4 DEF Starting
<1>7. RegisteredIsReachable'
  BY <1>2 DEF RegisteredIsReachable
<1> QED
  BY <1>5, <1>6, <1>7 DEF RunnerInv

(* Where no two starts of one bot can meet, a registered task that runs    *)
(* has its instance in bot_instances, or a stop at work on it: whatever    *)
(* comes between the awaits of start_bot(), of the stops, of the startup   *)
(* passes and of the cleanup loop, a stop finds what it has to stop.       *)
THEOREM TasksAreReachable ==
    ASSUME OneStarter
    PROVE  Spec => []RegisteredIsReachable
<1>1. Init => RunnerInv
  <2> SUFFICES ASSUME Init PROVE RunnerInv
    OBVIOUS
  <2>1. Idle \in [pc : Places, of : Bots \cup {Anyone}] /\ Idle.pc = "idle"
    BY DEF Idle, Places
  <2>2. /\ instance = [b \in Bots |-> Nobody] /\ task = [b \in Bots |-> Nobody] /\ tasks = <<>>
        /\ request = [h \in Handlers |-> Idle]
    BY DEF Init
  <2>3. Types
    BY <2>1, <2>2 DEF Types, Nobody
  <2>4. Starting
    BY <2>1, <2>2 DEF Starting
  <2>5. RegisteredIsReachable
    BY <2>2 DEF RegisteredIsReachable
  <2> QED
    BY <2>3, <2>4, <2>5 DEF RunnerInv
<1>2. RunnerInv /\ [Next]_vars => RunnerInv'
  <2> SUFFICES ASSUME RunnerInv, [Next]_vars PROVE RunnerInv'
    OBVIOUS
  <2>1. CASE UNCHANGED vars
    <3>1. UNCHANGED tables /\ tasks' = tasks /\ request' = request
      BY <2>1, Zenon DEF vars, tables
    <3>2. Calm
      BY <3>1 DEF Calm, RunnerInv, Types
    <3> QED
      BY <3>1, <3>2, CalmKeeps
  <2>2. ASSUME NEW h \in Handlers, Handler(h) PROVE RunnerInv'
    BY <2>2, AskKeeps, AskStopKeeps, ReserveKeeps, CreateKeeps, WriteKeeps, StoppedKeeps
       DEF Handler, Proceed
  <2>3. ASSUME NEW b \in Bots, NEW n \in Running(b), BotStep(b, n) PROVE RunnerInv'
    BY <2>3, BotStepKeeps
  <2> QED
    BY <2>1, <2>2, <2>3, MainKeeps, RestartKeeps DEF Next
<1>3. RunnerInv => RegisteredIsReachable
  BY DEF RunnerInv
<1> QED
  BY <1>1, <1>2, <1>3, PTL DEF Spec
=============================================================================
