----------------------------- MODULE BooksProofs -----------------------------
(***************************************************************************)
(* For every set of orders and of commands, and any number of crashes and  *)
(* startups: an audit row that says RUNNING has a coroutine.               *)
(***************************************************************************)
EXTENDS BooksSafety, TLAPS

Tables ==
    /\ cmd \in [Commands -> {"absent", "running", "success", "failure"}]
    /\ doing \in [Orders -> {"free", "sent", "working", "ended", "forgotten"}]
    /\ issued \in [Orders -> Commands \cup {"none"}]
    /\ kind \in [Orders -> {"none", "mid", "limit", "leg"}]

(* An exit leg that is filled settles no command: it is of none.           *)
LegsAreOfNone == \A o \in Orders : kind[o] = "leg" => issued[o] = "none"

BooksInv == Tables /\ LegsAreOfNone /\ RunningIsRun

(* What a coroutine may still settle.                                      *)
Busy(o) == doing[o] \in {"sent", "working"}

LEMMA BooksStart == Init => BooksInv
<1> SUFFICES ASSUME Init PROVE BooksInv
  OBVIOUS
<1>1. PICK legs \in SUBSET Legs :
          /\ kind = [o \in Orders |-> IF o \in legs THEN "leg" ELSE "none"]
          /\ doing = [o \in Orders |-> IF o \in legs THEN "working" ELSE "free"]
  BY DEF Init
<1>2. cmd = [c \in Commands |-> "absent"] /\ issued = [o \in Orders |-> "none"]
  BY DEF Init
<1> QED
  BY <1>1, <1>2 DEF BooksInv, Tables, LegsAreOfNone, RunningIsRun

(* A commit that is lost is never found again.                             *)
LostStays == lost => lost'

LEMMA LosesStays == ASSUME NEW w, Loses(w) PROVE LostStays
BY DEF Loses, LostStays, spent

(* IB, the REPL, the daemon and the rows of orders are not what BooksInv   *)
(* is about.                                                               *)
CommandsUntouched == UNCHANGED <<cmd, kind, doing, issued, up>> /\ LostStays

LEMMA UntouchedKeeps == BooksInv /\ CommandsUntouched => BooksInv'
BY DEF BooksInv, CommandsUntouched, LostStays, Tables, LegsAreOfNone, RunningIsRun, NothingLost

LEMMA IBUntouched ==
    ASSUME NEW o, IBStep(o) \/ Ages(o)
    PROVE  CommandsUntouched
BY DEF IBStep, Reaches, Executes, Leaves, ModifiedInTWS, IBMoves, Ages, EngineOff, spent,
       CommandsUntouched, LostStays

LEMMA ScreensUntouched ==
    ASSUME ReplStarts \/ ReplCrashes \/ Refreshes \/ PressesEnter \/ Resolves
    PROVE  CommandsUntouched
BY DEF ReplStarts, ReplCrashes, Refreshes, PressesEnter, Resolves, Screen, EngineOff, Fault,
       orderVars, spent, CommandsUntouched, LostStays

LEMMA DaemonUntouched ==
    ASSUME DaemonStep \/ DaemonStops \/ Outage
    PROVE  CommandsUntouched
BY DEF DaemonStep, DaemonStarts, Tick, Answers, Reconciles, Flags, Verifies, DaemonStops, Outage,
       EngineOff, Fault, spent, CommandsUntouched, LostStays

(* A command begins with its audit row and its coroutine.                  *)
LEMMA BeginKeeps ==
    ASSUME BooksInv, NEW o \in Orders, NEW c \in Commands, Begin(o, c)
    PROVE  BooksInv'
<1>1. PICK k \in {"mid", "limit"} : \E w :
          /\ cmd' = [cmd EXCEPT ![c] = IF w = "audit" THEN @ ELSE "running"]
          /\ kind' = [kind EXCEPT ![o] = k]
          /\ Loses(w)
  BY DEF Begin
<1>2. /\ doing[o] = "free" /\ up /\ up' = up
      /\ doing' = [doing EXCEPT ![o] = "sent"]
      /\ issued' = [issued EXCEPT ![o] = c]
  BY DEF Begin
<1>3. LostStays
  BY <1>1, LosesStays
<1>4. Tables'
  BY <1>1, <1>2 DEF BooksInv, Tables
<1>5. LegsAreOfNone'
  BY <1>1, <1>2 DEF BooksInv, Tables, LegsAreOfNone
<1>6. ASSUME ~ lost', NEW d \in Commands, cmd'[d] = "running"
      PROVE  \E p \in Orders : issued'[p] = d /\ Busy(p)'
  <2>1. CASE d = c
    BY <1>2, <2>1 DEF BooksInv, Tables, Busy
  <2>2. CASE d # c
    <3>1. cmd[d] = "running" /\ ~ lost
      BY <1>1, <1>3, <1>6, <2>2 DEF BooksInv, Tables, LostStays
    <3>2. PICK p \in Orders : issued[p] = d /\ Busy(p)
      BY <1>2, <3>1 DEF BooksInv, RunningIsRun, NothingLost, Busy
    <3>3. p # o
      BY <1>2, <3>2 DEF Busy
    <3> QED
      BY <1>2, <3>2, <3>3 DEF BooksInv, Tables, Busy
  <2> QED
    BY <2>1, <2>2
<1> QED
  BY <1>4, <1>5, <1>6 DEF BooksInv, RunningIsRun, NothingLost, Busy

(* A coroutine that goes on with its order is still there for its command. *)
LEMMA GoesOnKeeps ==
    ASSUME BooksInv, NEW o \in Orders, Accepted(o) \/ ClosesLeg(o)
    PROVE  BooksInv'
<1>1. UNCHANGED <<cmd, kind, issued, up>> /\ \E w : Loses(w)
  BY DEF Accepted, ClosesLeg
<1>2. LostStays
  BY <1>1, LosesStays
<1>3. doing' = doing \/ (doing' = [doing EXCEPT ![o] = "working"] /\ Busy(o))
  BY DEF Accepted, ClosesLeg, Busy
<1>4. Tables' /\ LegsAreOfNone' /\ \A p \in Orders : Busy(p) => Busy(p)'
  BY <1>1, <1>3 DEF BooksInv, Tables, LegsAreOfNone, Busy
<1> QED
  BY <1>1, <1>2, <1>4 DEF BooksInv, RunningIsRun, NothingLost, LostStays, Busy

(* The end of an order's coroutine settles its command, or loses a commit. *)
EndsWork(o) ==
    /\ UNCHANGED <<kind, issued, up>> /\ LostStays
    /\ \E how \in {"ended", "forgotten"} : doing' = [doing EXCEPT ![o] = how]
    /\ \/ kind[o] = "leg" /\ cmd' = cmd
       \/ \E w : /\ \E st \in {"success", "failure"} : Settled(issued[o], st, w)
                 /\ w = "complete" => lost'

LEMMA EndKeeps ==
    ASSUME BooksInv, NEW o \in Orders, EndsWork(o)
    PROVE  BooksInv'
<1>1. Tables'
  BY DEF BooksInv, Tables, EndsWork, Settled
<1>2. LegsAreOfNone'
  BY DEF BooksInv, LegsAreOfNone, EndsWork
<1>3. ASSUME ~ lost', NEW d \in Commands, cmd'[d] = "running"
      PROVE  cmd[d] = "running" /\ d # issued[o]
  BY <1>3, BooksAssumption DEF BooksInv, Tables, LegsAreOfNone, EndsWork, Settled
<1>4. ASSUME NEW p \in Orders, p # o PROVE Busy(p)' = Busy(p)
  BY <1>4 DEF BooksInv, Tables, EndsWork, Busy
<1> QED
  BY <1>1, <1>2, <1>3, <1>4 DEF BooksInv, RunningIsRun, NothingLost, LostStays, EndsWork, Busy

LEMMA EngineEnds ==
    ASSUME NEW o \in Orders,
           PlaceRaises(o) \/ Rests(o) \/ HearsFill(o) \/ Expires(o) \/ Rejected(o)
    PROVE  EndsWork(o)
<1>1. ASSUME NEW w, Loses(w) PROVE LostStays /\ (w = "complete" => lost')
  BY <1>1, LosesStays DEF Loses
<1>2. CASE PlaceRaises(o)
  BY <1>1, <1>2 DEF PlaceRaises, EndsWork
<1>3. CASE Rests(o)
  BY <1>1, <1>3 DEF Rests, EndsWork
<1>4. ASSUME NEW w, NEW st \in {"success", "failure"}, Finishes(o, st, w) PROVE EndsWork(o)
  BY <1>1, <1>4 DEF Finishes, EndsWork
<1>5. CASE HearsFill(o)
  BY <1>4, <1>5 DEF HearsFill
<1>6. CASE Expires(o)
  BY <1>4, <1>6 DEF Expires
<1>7. CASE Rejected(o)
  BY <1>4, <1>7 DEF Rejected
<1> QED
  BY <1>2, <1>3, <1>5, <1>6, <1>7

(* A crash takes the coroutines, and the next start settles their rows     *)
(* before the engine serves.                                               *)
LEMMA ProcessKeeps ==
    ASSUME BooksInv, Crash \/ Restart
    PROVE  BooksInv'
BY DEF Crash, Restart, orderVars, BooksInv, Tables, LegsAreOfNone, RunningIsRun

LEMMA BooksKeep == BooksInv /\ [Next]_vars => BooksInv'
<1> SUFFICES ASSUME BooksInv, [Next]_vars PROVE BooksInv'
  OBVIOUS
<1>1. CASE CommandsUntouched
  BY <1>1, UntouchedKeeps
<1>2. CASE UNCHANGED vars
  BY <1>2, <1>1 DEF vars, orderVars, spent, CommandsUntouched, LostStays
<1>3. ASSUME NEW o \in Orders, EngineStep(o) PROVE BooksInv'
  BY <1>3, GoesOnKeeps, EngineEnds, EndKeeps DEF EngineStep
<1>4. CASE Next
  BY <1>1, <1>3, <1>4, IBUntouched, ScreensUntouched, DaemonUntouched, BeginKeeps, ProcessKeeps
     DEF Next
<1> QED
  BY <1>2, <1>4

(* While the engine serves and no commit was lost, a command is shown      *)
(* RUNNING only while a coroutine works for it, whatever crashed when, for *)
(* every set of orders and commands.                                       *)
THEOREM RunningHasACoroutine == Spec => []RunningIsRun
<1>1. BooksInv => RunningIsRun
  BY DEF BooksInv
<1> QED
  BY <1>1, BooksStart, BooksKeep, PTL DEF Spec
==============================================================================
