---------------------------- MODULE OrderLedger ----------------------------
(***************************************************************************)
(* The engine's in-memory fill ledger (engine/order_ledger.py): one entry  *)
(* per in-flight IB order, accumulating fills until IB itself reports a    *)
(* terminal status.  Each operation returns at most one event for the      *)
(* order:updates stream; `out` is what the last call returned.             *)
(*                                                                         *)
(* A fill is its quantity: prices, commissions and texts are left out, so  *)
(* the list of fills of an entry is their sum.  The operations take what   *)
(* the relay callbacks of engine/main.py pass them, the trade's metadata   *)
(* included, as parameters; OrderEvents supplies those from a broker.      *)
(* An operator named ...Mutant is a wrong form of the one after it, used   *)
(* only to see that a property notices.                                    *)
(***************************************************************************)
EXTENDS Integers, Sequences

CONSTANTS
    Orders,       \* IB order ids the engine hears about
    Phantoms,     \* the ids "" and "0" that ib_async uses for foreign orders
    Side,         \* the side of each order, as its trade's metadata has it
    Size,         \* and its total quantity
    Tagged,       \* the orders whose metadata carries an orderRef
    Positions,    \* the net positions the broker may report
    NoPosition    \* Python's None: no snapshot, or a failed position lookup

ASSUME LedgerAssumption ==
    /\ Phantoms \subseteq Orders /\ Tagged \subseteq Orders
    /\ Side \in [Orders -> {"BUY", "SELL"}]
    /\ Size \in [Orders -> Nat \ {0}]
    /\ Positions \subseteq Int
    /\ NoPosition \notin Int

VARIABLES
    tracked,      \* the keys of _entries
    entry,        \* _entries; the value at an untracked id is of no meaning
    evicted,      \* _recently_evicted
    out           \* the events the last call returned

ledgerVars == <<tracked, entry, evicted, out>>

Preroute == {"PreSubmitted", "Submitted", "PendingSubmit"}
Cancels == {"Cancelled", "ApiCancelled"}
TerminalStatuses == Cancels \cup {"Filled", "Inactive"}
Statuses == Preroute \cup TerminalStatuses \cup {"PendingCancel"}

Sides == {"BUY", "SELL", ""}

Entry == [side : Sides, target : Nat, filled : Nat, last : Statuses,
          alerted : BOOLEAN, pre : Int \cup {NoPosition}]

Event == [id : Orders, terminal : BOOLEAN, filled : Nat, target : Nat,
          status : Statuses \cup {"PartiallyFilled", "CancelHeld", "Rejected",
                                  "PartialFillCancelled"}]

LedgerTypeOK ==
    /\ tracked \subseteq Orders
    /\ evicted \subseteq Orders
    /\ entry \in [Orders -> Entry]
    /\ out \in Seq(Event) /\ Len(out) <= 1

NewEntry(side, target, pre) ==
    [side |-> side, target |-> target, filled |-> 0, last |-> "PendingSubmit",
     alerted |-> FALSE, pre |-> pre]

Emit(o, e, terminal, status) ==
    out' = <<[id |-> o, terminal |-> terminal, status |-> status,
              filled |-> e.filled, target |-> e.target]>>

Put(o, e) ==
    /\ tracked' = tracked \cup {o}
    /\ entry' = [entry EXCEPT ![o] = e]

(* A call that returns [] and changes nothing.                             *)
Ignore == out' = <<>> /\ UNCHANGED <<tracked, entry, evicted>>

-----------------------------------------------------------------------------
(* register(): creates the entry, or backfills what an entry created by an *)
(* earlier fill or status could not know.                                  *)
Backfilled(e, target, pre) ==
    [e EXCEPT !.target = IF @ = 0 THEN target ELSE @,
              !.pre = IF @ = NoPosition THEN pre ELSE @]

Register(o, side, target, pre) ==
    LET e == IF o \in tracked THEN Backfilled(entry[o], target, pre)
                              ELSE NewEntry(side, target, pre)
    IN  /\ Put(o, e)
        /\ Emit(o, e, FALSE, "Submitted")
        /\ UNCHANGED evicted

(* The target of an entry that a fill creates: the order's total quantity, *)
(* else what is filled and remaining; -1 is "not known".                   *)
TargetFromFill(qty, remaining, total) ==
    IF total > 0 THEN total ELSE IF remaining = -1 THEN qty ELSE qty + remaining

(* The calls dropped at the door: those for an id evicted of late, and for *)
(* a phantom.                                                              *)
SuppressedMutant(o) == o \notin tracked /\ o \in Phantoms
Suppressed(o) == o \in evicted \/ (o \notin tracked /\ o \in Phantoms)

(* record_fill(): never terminal, and it leaves the last status alone.     *)
RecordFill(o, qty, side, remaining, total) ==
    IF Suppressed(o)
    THEN Ignore
    ELSE LET before == IF o \in tracked THEN entry[o]
                       ELSE NewEntry(side, TargetFromFill(qty, remaining, total), NoPosition)
             e == [before EXCEPT !.filled = @ + qty]
         IN  /\ Put(o, e)
             /\ Emit(o, e, FALSE, IF e.target > 0 /\ e.filled >= e.target
                                  THEN "Filled" ELSE "PartiallyFilled")
             /\ UNCHANGED evicted

-----------------------------------------------------------------------------
(* _apply_position_diff(): the quantity a terminal is credited with when   *)
(* fills may have been lost, from the broker's position now (pos) and when *)
(* the order was placed (e.pre).                                           *)
Moved(e, pos) == IF e.side = "BUY" THEN pos - e.pre ELSE e.pre - pos

CanDiffMutant(e, pos) ==
    /\ pos # NoPosition /\ e.pre # NoPosition /\ e.side # ""
    /\ e.filled < e.target

CanDiff(e, pos) ==
    /\ pos # NoPosition /\ e.pre # NoPosition /\ e.side # ""
    /\ 0 < e.filled /\ e.filled < e.target

EffectiveFilledMutant(e, pos) ==
    IF CanDiff(e, pos)
    THEN IF Moved(e, pos) < e.target THEN Moved(e, pos) ELSE e.target
    ELSE e.filled
EffectiveFilledMutant2(e, pos) == e.filled

EffectiveFilled(e, pos) ==
    IF CanDiff(e, pos) /\ Moved(e, pos) > e.filled
    THEN IF Moved(e, pos) < e.target THEN Moved(e, pos) ELSE e.target
    ELSE e.filled

(* _resolve_terminal_status(), on the entry after the position diff.       *)
Resolve(e) ==
    CASE e.filled > 0 /\ (e.filled >= e.target \/ e.target = 0) -> "Filled"
      [] e.filled = 0 -> IF e.last = "Inactive" THEN "Rejected" ELSE "Cancelled"
      [] OTHER -> "PartialFillCancelled"

(* _make_terminal(): credit, resolve, evict and remember.                  *)
MakeTerminal(o, e, pos) ==
    LET final == [e EXCEPT !.filled = EffectiveFilled(e, pos)]
    IN  /\ Emit(o, final, TRUE, Resolve(final))
        /\ tracked' = tracked \ {o}
        /\ entry' = [entry EXCEPT ![o] = final]
        /\ evicted' = evicted \cup {o}

(* IB cancels an order for a moment while it moves it between venues: a    *)
(* cancel that follows a working status, of an order not known to be       *)
(* complete, is held for a follow-up.                                      *)
MightBePrerouteMutant(e, status) ==
    status \in Cancels /\ e.last \in Preroute /\ e.filled = 0

MightBePreroute(e, status) ==
    /\ status \in Cancels
    /\ e.last \in Preroute
    /\ e.filled = 0 \/ (e.target > 0 /\ e.filled < e.target)

(* record_status(); tagged says whether the order carries an orderRef.     *)
RecordStatus(o, status, side, tagged, pos) ==
    CASE Suppressed(o) -> Ignore
      [] ~Suppressed(o) /\ o \notin tracked /\ status = "Inactive" /\ ~tagged ->
            /\ Emit(o, NewEntry(side, 0, NoPosition), TRUE, "Rejected")
            /\ UNCHANGED <<tracked, entry, evicted>>
      [] OTHER ->
            LET before == IF o \in tracked THEN entry[o]
                                           ELSE NewEntry(side, 0, NoPosition)
                e == [before EXCEPT !.last = status]
            IN  IF status \in TerminalStatuses /\ ~MightBePreroute(before, status)
                THEN MakeTerminal(o, e, pos)
                ELSE /\ Put(o, e)
                     /\ Emit(o, e, FALSE, IF status \in Cancels THEN "CancelHeld"
                                                                ELSE status)
                     /\ UNCHANGED evicted

(* check_stuck(): marks the entries past the timeout that have not been    *)
(* alerted yet, and forgets every evicted id.  old: entries past the       *)
(* timeout.                                                                *)
StuckMutant(old) == {o \in old \cap tracked : ~entry[o].alerted /\ entry[o].filled = 0}
Stuck(old) == {o \in old \cap tracked : ~entry[o].alerted}

CheckStuck(old) ==
    /\ entry' = [o \in Orders |-> IF o \in Stuck(old)
                                  THEN [entry[o] EXCEPT !.alerted = TRUE]
                                  ELSE entry[o]]
    /\ evicted' = {}
    /\ out' = <<>>
    /\ UNCHANGED tracked

-----------------------------------------------------------------------------
Blank == NewEntry("", 0, NoPosition)

LedgerInit ==
    /\ tracked = {}
    /\ entry = [o \in Orders |-> Blank]
    /\ evicted = {}
    /\ out = <<>>

(* Any sequence of calls.  The metadata is there only while ib_async has   *)
(* the trade: without it the side is empty and the sizes are -1.  A placed *)
(* order has an id of its own: neither a phantom's nor one just evicted.   *)
DoRegister(o) ==
    /\ o \notin evicted \cup Phantoms
    /\ \E pre \in Positions : Register(o, Side[o], Size[o], pre)

DoRecordFill(o) ==
    \E qty \in 1 .. Size[o] :
        \/ RecordFill(o, qty, "", -1, -1)
        \/ \E remaining \in 0 .. Size[o] : RecordFill(o, qty, Side[o], remaining, Size[o])

DoRecordStatus(o) ==
    \E status \in Statuses, pos \in Positions \cup {NoPosition} :
        \/ RecordStatus(o, status, "", FALSE, pos)
        \/ RecordStatus(o, status, Side[o], o \in Tagged, pos)

DoCheckStuck == \E old \in SUBSET tracked : CheckStuck(old)

LedgerNext ==
    \/ \E o \in Orders : DoRegister(o) \/ DoRecordFill(o) \/ DoRecordStatus(o)
    \/ DoCheckStuck

LedgerSpec == LedgerInit /\ [][LedgerNext]_ledgerVars

-----------------------------------------------------------------------------
(* Properties *)

(* An id is never both live in _entries and remembered in                  *)
(* _recently_evicted: otherwise the duplicate guard at the top of          *)
(* record_fill and record_status would drop the fills of a live order.     *)
LiveOrEvicted == tracked \cap evicted = {}

(* While the ledger remembers an id as evicted, no call returns an event   *)
(* for it: the late execDetails and the second "Filled" that IB sends      *)
(* after a terminal reach no consumer.                                     *)
SilentOnceEvicted ==
    [][\A o \in evicted : out' = <<>> \/ out'[1].id # o]_ledgerVars

(* A terminal of a tracked order ends it, is credited with no less than    *)
(* its recorded fills, and the position diff never credits more than the   *)
(* order's size.                                                           *)
TerminalIsSound ==
    [][\A o \in tracked :
          (out' # <<>> /\ out'[1].id = o /\ out'[1].terminal)
          => /\ o \notin tracked' /\ o \in evicted'
             /\ out'[1].filled >= entry[o].filled
             /\ entry[o].filled < out'[1].filled => out'[1].filled <= entry[o].target]_ledgerVars

(* The ledger never invents a fill: an order with no recorded fill is      *)
(* never credited with a quantity by its terminal, whatever the broker's   *)
(* position says.                                                          *)
NoFillFromNothing ==
    [][\A o \in Orders :
          (out' # <<>> /\ out'[1].id = o /\ out'[1].terminal /\ out'[1].filled > 0)
          => o \in tracked /\ entry[o].filled > 0]_ledgerVars

(* One cancel never ends an order that was working and is not known to be  *)
(* complete (the "preroute" hold of record_status): a terminal after a     *)
(* cancel needs a last status other than a working one, or all the order's *)
(* quantity filled, or some filled of an order whose size is unknown.      *)
OneCancelIsHeld ==
    [][\A o \in tracked :
          (out' # <<>> /\ out'[1].id = o /\ out'[1].terminal
              /\ entry'[o].last \in Cancels)
          => \/ entry[o].last \notin Preroute
             \/ entry[o].filled > 0 /\ (entry[o].target = 0 \/ entry[o].filled >= entry[o].target)]_ledgerVars
=============================================================================
