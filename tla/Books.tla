------------------------------- MODULE Books -------------------------------
(***************************************************************************)
(* The rows that the engine leaves in SQLite about its commands and its    *)
(* orders, and everybody who reads and corrects them: the engine's restart *)
(* (engine/service.py), the REPL's startup (engine/recovery.py) and the    *)
(* daemon (daemon/), which compares them with IB. The engine may crash     *)
(* between any two of its rows, and safe_commit() may lose one.            *)
(***************************************************************************)
EXTENDS Naturals, FiniteSets

CONSTANTS
    Orders,       \* the orders; each is the order of a trade of its own
    Legs,         \* those that may be exit legs from an earlier session
    Commands,     \* the ids of client commands
    MaxStartups,  \* bound: startups of the REPL
    MaxFaults     \* bound: crashes of a process, commits that meet a locked database,
                  \* requests of the daemon that IB does not answer

ASSUME BooksAssumption ==
    /\ Legs \subseteq Orders /\ "none" \notin Commands
    /\ MaxStartups \in Nat /\ MaxFaults \in Nat

VARIABLES
    cmd,      \* the status of each command's audit row
    kind,     \* the order: "mid" walks, "limit" rests, "leg" is an exit leg
    doing,    \* where the engine is with it
    issued,   \* the command that placed it
    at,       \* the order at IB
    exec,     \* the lots executed, of two
    bound,    \* whether IB reports it under the engine's id
    rows,     \* the actions of its rows
    last,     \* the action of the latest row that has its id
    leg,      \* the action of the latest row that has its id and its trade's
    recent,   \* whether that row is younger than four hours
    trade     \* the status of its trade

VARIABLES
    up,       \* whether the engine serves
    step,     \* what the daemon does
    snap,     \* the open orders that IB has answered with
    read,     \* the cancelled rows it has read
    alerts,   \* the CATASTROPHIC alerts that are open
    paged,    \* the orders an alert has named
    warned,   \* the trades the REPL's startup has warned about
    paused,   \* whether the daemon's loops are paused
    stale,    \* whether the REPL's heartbeat has stopped
    startups, faults,   \* how many there have been
    lost      \* whether a commit was lost

orderVars == <<kind, doing, issued, at, exec, bound, rows, last, leg, recent, trade>>
daemonVars == <<step, snap, read, alerts, paged, paused, stale>>
spent == <<startups, faults, lost>>
vars == <<cmd, orderVars, up, daemonVars, warned, spent>>

Size == 2
NoAnswer == {<<"none">>}
Ends == {"filled", "cancelled", "rejected", "reconciled"}

TypeOK ==
    /\ cmd \in [Commands -> {"absent", "running", "success", "failure"}]
    /\ kind \in [Orders -> {"none", "mid", "limit", "leg"}]
    /\ doing \in [Orders -> {"free", "sent", "working", "ended", "forgotten"}]
    /\ issued \in [Orders -> Commands \cup {"none"}]
    /\ at \in [Orders -> {"none", "working", "filled", "over"}]
    /\ exec \in [Orders -> 0 .. Size] /\ bound \in [Orders -> BOOLEAN]
    /\ rows \in [Orders -> SUBSET ({"attempt", "accepted", "partial", "discrepancy"} \cup Ends)]
    /\ last \in [Orders -> {"none", "accepted", "partial", "discrepancy"} \cup Ends]
    /\ leg \in [Orders -> {"none", "accepted", "partial"} \cup Ends]
    /\ recent \in [Orders -> BOOLEAN] /\ trade \in [Orders -> {"none", "open", "closed"}]
    /\ up \in BOOLEAN /\ step \in {"down", "idle", "recon", "txn", "cancels"}
    /\ read \subseteq Orders /\ alerts \subseteq {"repl", "cancels"}
    /\ paged \subseteq Orders /\ warned \subseteq Orders
    /\ paused \in BOOLEAN /\ stale \in BOOLEAN
    /\ startups \in 0 .. MaxStartups /\ faults \in 0 .. MaxFaults /\ lost \in BOOLEAN

(* A session with some exit legs resting at IB; the entries of their       *)
(* trades are filled.                                                      *)
Init ==
    /\ \E legs \in SUBSET Legs :
          LET If(a, b) == [o \in Orders |-> IF o \in legs THEN a ELSE b] IN
          /\ kind = If("leg", "none") /\ doing = If("working", "free")
          /\ at = If("working", "none") /\ rows = If({"attempt", "accepted"}, {})
          /\ last = If("accepted", "none") /\ leg = last /\ trade = If("open", "none")
    /\ cmd = [c \in Commands |-> "absent"] /\ issued = [o \in Orders |-> "none"]
    /\ exec = [o \in Orders |-> 0] /\ bound = [o \in Orders |-> TRUE]
    /\ recent = [o \in Orders |-> TRUE] /\ up = TRUE
    /\ step = "down" /\ snap = NoAnswer /\ read = {} /\ alerts = {} /\ paged = {}
    /\ warned = {} /\ paused = FALSE /\ stale = FALSE
    /\ startups = 0 /\ faults = 0 /\ lost = FALSE

(***************************************************************************)
(* safe_commit(). A commit that meets a locked database is rolled back,    *)
(* which drops the new row from the session, and is then repeated: the     *)
(* second commit has nothing to write and returns as if it had.            *)
(***************************************************************************)
Fault == faults < MaxFaults /\ faults' = faults + 1 /\ UNCHANGED startups
Losable(writes) == {"none"} \cup IF faults < MaxFaults THEN writes ELSE {}
Loses(w) == \/ w = "none" /\ UNCHANGED spent
            \/ w # "none" /\ Fault /\ lost' = TRUE

Settled(c, st, w) == cmd' = [cmd EXCEPT ![c] = IF w = "complete" \/ @ = "absent" THEN @ ELSE st]

(* A row of the order's trade with its id, and one before it.              *)
Wrote2(o, a, b, w) ==
    /\ rows' = [rows EXCEPT ![o] = @ \cup IF w = "row" THEN {a} ELSE {a, b}]
    /\ last' = [last EXCEPT ![o] = IF w = "row" THEN a ELSE b]
    /\ leg' = [leg EXCEPT ![o] = IF w = "row" THEN a ELSE b]
Wrote(o, a, w) ==
    \/ w # "row" /\ Wrote2(o, a, a, w)
    \/ w = "row" /\ UNCHANGED <<rows, last, leg>>

DaemonOff == UNCHANGED <<daemonVars, warned>>
IBOff == UNCHANGED <<at, exec, bound>>

(***************************************************************************)
(* The engine: execute_single_command() around the order's life. A command *)
(* whose id has a row already violates the primary key and is refused.     *)
(***************************************************************************)
NextFree == CHOOSE o \in Orders : doing[o] = "free"

Begin(o, c) ==
    /\ up /\ doing[o] = "free" /\ o = NextFree /\ cmd[c] = "absent"
    /\ \E k \in {"mid", "limit"}, w \in Losable({"audit", "attempt"}) :
          /\ cmd' = [cmd EXCEPT ![c] = IF w = "audit" THEN @ ELSE "running"]
          /\ rows' = [rows EXCEPT ![o] = IF w = "attempt" THEN {} ELSE {"attempt"}]
          /\ kind' = [kind EXCEPT ![o] = k]
          /\ Loses(w)
    /\ doing' = [doing EXCEPT ![o] = "sent"]
    /\ issued' = [issued EXCEPT ![o] = c]
    /\ trade' = [trade EXCEPT ![o] = "open"]
    /\ UNCHANGED <<last, leg, recent, up>> /\ IBOff /\ DaemonOff

(* The placement raises: no row, the trade stays open.                     *)
PlaceRaises(o) ==
    /\ up /\ doing[o] = "sent" /\ at[o] = "none"
    /\ doing' = [doing EXCEPT ![o] = "ended"]
    /\ \E w \in Losable({"complete"}) : Settled(issued[o], "failure", w) /\ Loses(w)
    /\ UNCHANGED <<kind, issued, rows, last, leg, recent, trade, up>> /\ IBOff /\ DaemonOff

(* PLACE_ACCEPTED.                                                         *)
Accepted(o) ==
    /\ up /\ doing[o] = "sent" /\ at[o] # "none"
    /\ doing' = [doing EXCEPT ![o] = "working"]
    /\ \E w \in Losable({"row"}) : Wrote(o, "accepted", w) /\ Loses(w)
    /\ UNCHANGED <<cmd, kind, issued, recent, trade, up>> /\ IBOff /\ DaemonOff

(* A limit order that IB has acknowledged and not filled at once: its      *)
(* command is done, and its callbacks only tell the tracker from now on.   *)
(* (An order that IB does not acknowledge in time is OrderWork's.)         *)
Rests(o) ==
    /\ up /\ doing[o] = "working" /\ kind[o] = "limit" /\ at[o] = "working"
    /\ doing' = [doing EXCEPT ![o] = "forgotten"]
    /\ \E w \in Losable({"complete"}) : Settled(issued[o], "success", w) /\ Loses(w)
    /\ UNCHANGED <<kind, issued, rows, last, leg, recent, trade, up>> /\ IBOff /\ DaemonOff

Finishes(o, st, w) ==
    /\ doing' = [doing EXCEPT ![o] = "ended"]
    /\ IF kind[o] = "leg" THEN UNCHANGED cmd ELSE Settled(issued[o], st, w)
    /\ Loses(w)
    /\ UNCHANGED <<kind, issued, recent, up>> /\ IBOff /\ DaemonOff

(* _handle_fill() of an entry whose coroutine lives, and                   *)
(* handle_autonomous_close_fill() of any leg that has a row.               *)
HearsFill(o) ==
    /\ up /\ at[o] = "filled" /\ "filled" \notin rows[o]
    /\ doing[o] = "working" \/ (kind[o] = "leg" /\ "accepted" \in rows[o])
    /\ \E w \in Losable({"row", "complete"}) : Wrote(o, "filled", w) /\ Finishes(o, "success", w)
    /\ trade' = [trade EXCEPT ![o] = IF kind[o] = "leg" THEN "closed" ELSE @]

(* The walk expired and the cancel is confirmed: with nothing filled       *)
(* CANCELLED, else PARTIAL_FILL and CANCELLED.                             *)
Expires(o) ==
    /\ up /\ doing[o] = "working" /\ kind[o] = "mid" /\ at[o] = "over"
    /\ \E w \in Losable({"row", "complete"}) :
          /\ \/ exec[o] = 0 /\ Wrote(o, "cancelled", w)
             \/ exec[o] > 0 /\ Wrote2(o, "partial", "cancelled", w)
          /\ Finishes(o, "success", w)
    /\ trade' = [trade EXCEPT ![o] = IF exec[o] = 0 THEN "closed" ELSE @]

(* IB is done with a limit order before it rests.                          *)
Rejected(o) ==
    /\ up /\ doing[o] = "working" /\ kind[o] = "limit" /\ at[o] = "over"
    /\ \E w \in Losable({"row", "complete"}) : Wrote(o, "rejected", w) /\ Finishes(o, "failure", w)
    /\ trade' = [trade EXCEPT ![o] = "closed"]

(* execute_close() writes CANCELLED for an exit leg that it has not        *)
(* cancelled at IB (see TradeWork).                                        *)
ClosesLeg(o) ==
    /\ up /\ kind[o] = "leg" /\ leg[o] = "accepted"
    /\ \E w \in Losable({"row"}) : Wrote(o, "cancelled", w) /\ Loses(w)
    /\ UNCHANGED <<cmd, kind, doing, issued, recent, trade, up>> /\ IBOff /\ DaemonOff

Crash ==
    /\ up
    /\ up' = FALSE
    /\ doing' = [o \in Orders |-> IF doing[o] \in {"sent", "working"} THEN "forgotten" ELSE doing[o]]
    /\ Fault /\ UNCHANGED lost
    /\ UNCHANGED <<cmd, kind, issued, rows, last, leg, recent, trade>> /\ IBOff /\ DaemonOff

(* recover_stale_commands(), before the internal API serves.               *)
RestartMutant ==
    /\ ~ up /\ up' = TRUE
    /\ UNCHANGED <<cmd, orderVars, spent>> /\ DaemonOff
Restart ==
    /\ ~ up /\ up' = TRUE
    /\ cmd' = [c \in Commands |-> IF cmd[c] = "running" THEN "failure" ELSE cmd[c]]
    /\ UNCHANGED <<orderVars, spent>> /\ DaemonOff

(***************************************************************************)
(* IB, and the operator at TWS, whose change of an order takes it from the *)
(* engine's client: IB then reports it under its permId.                   *)
(***************************************************************************)
IBMoves == /\ UNCHANGED <<cmd, kind, doing, issued, rows, last, leg, recent, trade, up, spent>>
           /\ DaemonOff

Reaches(o) ==
    /\ doing[o] \in {"sent", "forgotten"} /\ at[o] = "none"
    /\ at' = [at EXCEPT ![o] = "working"]
    /\ UNCHANGED <<exec, bound>> /\ IBMoves

Executes(o) ==
    /\ at[o] = "working"
    /\ exec' = [exec EXCEPT ![o] = @ + 1]
    /\ at' = [at EXCEPT ![o] = IF exec'[o] = Size THEN "filled" ELSE @]
    /\ UNCHANGED bound /\ IBMoves

Leaves(o) ==
    /\ at[o] = "working"
    /\ at' = [at EXCEPT ![o] = "over"]
    /\ UNCHANGED <<exec, bound>> /\ IBMoves

ModifiedInTWS(o) ==
    /\ at[o] = "working" /\ bound[o] /\ kind[o] # "mid"
    /\ bound' = [bound EXCEPT ![o] = FALSE]
    /\ UNCHANGED <<at, exec>> /\ IBMoves

(***************************************************************************)
(* The REPL's startup, beside an engine that may be at work.               *)
(***************************************************************************)
(* has_unconfirmed_placements() *)
Unconfirmed(o) == "attempt" \in rows[o] /\ rows[o] \cap ({"accepted"} \cup Ends) = {}

Abandoned == {o \in Orders : trade[o] = "open" /\ Unconfirmed(o)}

(* close_orphaned_trade_groups() looks at each leg's latest row; the trade *)
(* of an exit leg has a FILLED entry.                                      *)
Orphans == {o \in Orders : /\ trade[o] = "open" /\ kind[o] # "leg"
                           /\ leg[o] = "none" \/ leg[o] \in Ends \ {"filled"}}

ReplStarts ==
    /\ startups < MaxStartups /\ startups' = startups + 1 /\ UNCHANGED <<faults, lost>>
    /\ trade' = [o \in Orders |-> IF o \in Abandoned \cup Orphans THEN "closed" ELSE trade[o]]
    /\ warned' = warned \cup Abandoned
    /\ stale' = FALSE
    /\ UNCHANGED <<cmd, kind, doing, issued, rows, last, leg, recent, up, step, snap, read, alerts,
                   paged, paused>>
    /\ IBOff

ReplCrashes ==
    /\ ~ stale
    /\ Fault /\ UNCHANGED lost
    /\ stale' = TRUE
    /\ UNCHANGED <<cmd, orderVars, up, step, snap, read, alerts, paged, paused, warned>>

(***************************************************************************)
(* The daemon. Each pass asks IB three times, and the rows it compares may *)
(* have changed since IB answered.                                         *)
(***************************************************************************)
Id(o) == <<"order", o>>
Key(o) == IF bound[o] THEN Id(o) ELSE <<"perm", o>>
Text(key) == <<"text", key[1], key[2]>>

(* get_open_orders() of the repository: the latest row is not terminal.    *)
LocalOpen == {o \in Orders : last[o] \notin {"none"} \cup Ends}

EngineOff == UNCHANGED <<cmd, kind, doing, issued, up>> /\ IBOff
Goes(from, to) == step = from /\ step' = to
AlertsOff == UNCHANGED <<alerts, paged, paused, stale, warned>>

(* The startup of the daemon runs run_transaction_reconciliation() alone.  *)
DaemonStarts ==
    /\ Goes("down", "txn")
    /\ UNCHANGED <<rows, last, leg, recent, trade, snap, read, spent>> /\ EngineOff /\ AlertsOff

DaemonStops ==
    /\ step # "down"
    /\ step' = "down" /\ snap' = NoAnswer /\ read' = {}
    /\ Fault /\ UNCHANGED lost
    /\ paused' = FALSE
    /\ UNCHANGED <<rows, last, leg, recent, trade, alerts, paged, stale, warned>> /\ EngineOff

(* A tick of background_loops(): check_repl_heartbeat(), then the pass.    *)
Tick ==
    /\ ~ paused /\ Goes("idle", "recon")
    /\ alerts' = IF stale THEN alerts \cup {"repl"} ELSE alerts
    /\ UNCHANGED <<rows, last, leg, recent, trade, snap, read, paged, paused, stale, warned, spent>>
    /\ EngineOff

(* IB's answer. The text of an id is its key.                              *)
Answers ==
    /\ step \in {"recon", "txn", "cancels"} /\ snap = NoAnswer
    /\ snap' = {Text(Key(o)) : o \in {o \in Orders : at[o] = "working"}}
    /\ UNCHANGED <<rows, last, leg, recent, trade, step, read, spent>> /\ EngineOff /\ AlertsOff

Following(s) == CASE s = "recon" -> "txn" [] s = "txn" -> "cancels" [] s = "cancels" -> "idle"

(* run_cancel_verification() reads its rows before it asks IB, and is not  *)
(* part of the startup, where it is harmless: it only comes sooner here.   *)
RecentlyCancelled == {o \in Orders : last[o] = "cancelled" /\ recent[o]}
On == /\ step' = Following(step) /\ snap' = NoAnswer
      /\ read' = IF step = "txn" THEN RecentlyCancelled ELSE {}

Outage ==
    /\ step \in {"recon", "txn", "cancels"} /\ snap = NoAnswer
    /\ Fault /\ UNCHANGED lost
    /\ On
    /\ UNCHANGED <<rows, last, leg, recent, trade>> /\ EngineOff /\ AlertsOff

WroteAll(os, a) ==
    /\ rows' = [o \in Orders |-> rows[o] \cup IF o \in os THEN {a} ELSE {}]
    /\ last' = [o \in Orders |-> IF o \in os THEN a ELSE last[o]]

(* run_reconciliation() looks the integers of the rows up among texts, and *)
(* then asks its own client, which has placed no order, for their status.  *)
PlacedByDaemon == {}
Status(o) == IF Id(o) \notin PlacedByDaemon THEN "UNKNOWN"
             ELSE CASE at[o] = "filled" -> "Filled" [] at[o] = "over" -> "Cancelled"
                    [] OTHER -> "Submitted"
Reconciled == {o \in LocalOpen : Id(o) \notin snap /\ Status(o) \in {"Filled", "Cancelled"}}

Reconciles ==
    /\ step = "recon" /\ snap # NoAnswer /\ On
    /\ WroteAll(Reconciled, "reconciled")
    /\ leg' = [o \in Orders |-> IF o \in Reconciled THEN "reconciled" ELSE leg[o]]
    /\ trade' = [o \in Orders |-> IF o \in Reconciled THEN "closed" ELSE trade[o]]
    /\ UNCHANGED <<recent, spent>> /\ EngineOff /\ AlertsOff

(* run_transaction_reconciliation() converts the texts; its rows have no   *)
(* trade, are not terminal, and are written again on every pass.           *)
Vanished == {o \in LocalOpen : Text(Id(o)) \notin snap}

Flags ==
    /\ step = "txn" /\ snap # NoAnswer /\ On
    /\ WroteAll(Vanished, "discrepancy")
    /\ UNCHANGED <<leg, recent, trade, spent>> /\ EngineOff /\ AlertsOff

(* run_cancel_verification(). An alert that is lost raises, after its row, *)
(* and ends the pass.                                                      *)
StillOpenMutant == {o \in read : Id(o) \in snap}
StillOpen == {o \in read : Text(Id(o)) \in snap}

Verifies ==
    /\ step = "cancels" /\ snap # NoAnswer /\ On
    /\ \/ /\ WroteAll(StillOpen, "discrepancy")
          /\ paged' = paged \cup StillOpen
          /\ alerts' = IF StillOpen = {} THEN alerts ELSE alerts \cup {"cancels"}
          /\ UNCHANGED spent
       \/ /\ Fault /\ lost' = TRUE
          /\ \E o \in StillOpen : WroteAll({o}, "discrepancy")
          /\ UNCHANGED <<paged, alerts>>
    /\ UNCHANGED <<leg, recent, trade, paused, stale, warned>> /\ EngineOff

(* A day of passes goes by in four hours unless the daemon is not at it.   *)
Ages(o) ==
    /\ last[o] = "cancelled" /\ recent[o]
    /\ paused \/ step = "down"
    /\ recent' = [recent EXCEPT ![o] = FALSE]
    /\ UNCHANGED <<rows, last, leg, trade, step, snap, read, spent>> /\ EngineOff /\ AlertsOff

(***************************************************************************)
(* The dashboard pauses the loops while a CATASTROPHIC alert is open; the  *)
(* operator presses Enter, which resolves nothing, or resolves the alerts  *)
(* through the web API.                                                    *)
(***************************************************************************)
Screen == UNCHANGED <<rows, last, leg, recent, trade, step, snap, read, paged, stale, warned, spent>>

Refreshes ==
    /\ step # "down" /\ paused # (alerts # {})
    /\ paused' = (alerts # {})
    /\ UNCHANGED alerts /\ Screen /\ EngineOff

PressesEnter == /\ paused /\ paused' = FALSE /\ UNCHANGED alerts /\ Screen /\ EngineOff

Resolves == /\ alerts # {} /\ alerts' = {} /\ UNCHANGED paused /\ Screen /\ EngineOff

(***************************************************************************)
(* The specification. The engine hears what it listens for, the daemon and *)
(* its dashboard run, and the operator resolves alerts.                    *)
(***************************************************************************)
EngineStep(o) ==
    \/ PlaceRaises(o) \/ Accepted(o) \/ Rests(o) \/ HearsFill(o) \/ Expires(o)
    \/ Rejected(o) \/ ClosesLeg(o)
IBStep(o) == Reaches(o) \/ Executes(o) \/ Leaves(o) \/ ModifiedInTWS(o)
DaemonStep == DaemonStarts \/ Tick \/ Answers \/ Reconciles \/ Flags \/ Verifies

Next ==
    \/ \E o \in Orders : EngineStep(o) \/ IBStep(o) \/ Ages(o)
    \/ \E o \in Orders, c \in Commands : Begin(o, c)
    \/ Crash \/ Restart \/ ReplStarts \/ ReplCrashes
    \/ DaemonStep \/ DaemonStops \/ Outage \/ Refreshes \/ PressesEnter \/ Resolves

Spec == Init /\ [][Next]_vars
FairSpec ==
    /\ Spec /\ WF_vars(DaemonStep) /\ WF_vars(Refreshes) /\ WF_vars(Resolves)
    /\ \A o \in Orders : WF_vars(HearsFill(o))
=============================================================================
