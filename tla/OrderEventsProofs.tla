------------------------- MODULE OrderEventsProofs -------------------------
(***************************************************************************)
(* Proofs about the fill ledger and the path of an order's events, for     *)
(* every set of orders, sizes, sides and positions and every mix of        *)
(* faults.  Of the ledger, for every sequence of calls: its types, the     *)
(* disjointness of live and evicted ids, and its action properties.  Of    *)
(* the path: whatever messages the broker sends, the ledger makes only     *)
(* steps of OrderLedger, and the stream keeps the promise of OrderOutcome. *)
(* Of an order's course, from its placing to its first terminal event:     *)
(* what the engine tells of its end is what IB has done.  The invariant of *)
(* that part relates what IB has executed to what the ledger has recorded  *)
(* and what is on its way in the queues between them, and orders those.    *)
(***************************************************************************)
EXTENDS OrderEvents, SequenceTheorems, FiniteSetTheorems, TLAPS

-----------------------------------------------------------------------------
(* The ledger, for any sequence of calls.                                  *)

EventStatuses == Statuses \cup {"PartiallyFilled", "CancelHeld", "Rejected",
                                "PartialFillCancelled"}

-----------------------------------------------------------------------------
(* The operators that build entries and events.                            *)

(* _make_event: one event, about the entry it was given.                   *)
LEMMA EmitType ==
    ASSUME NEW o \in Orders, NEW e \in Entry, NEW t \in BOOLEAN, NEW s \in EventStatuses,
           Emit(o, e, t, s)
    PROVE  /\ out' \in Seq(Event) /\ Len(out') = 1 /\ out' # <<>>
           /\ out'[1].id = o /\ out'[1].terminal = t
           /\ out'[1].filled = e.filled /\ out'[1].status = s
<1> DEFINE ev == [id |-> o, terminal |-> t, status |-> s,
                  filled |-> e.filled, target |-> e.target]
<1>1. e.filled \in Nat /\ e.target \in Nat
  BY DEF Entry
<1>2. ev \in Event
  BY <1>1 DEF Event, EventStatuses
<1>3. out' = <<ev>>
  BY DEF Emit
<1> HIDE DEF ev
<1>4. out' \in Seq(Event) /\ Len(out') = 1 /\ out'[1] = ev /\ out' # <<>>
  BY <1>2, <1>3
<1> QED
  BY <1>4 DEF ev

(* A fresh entry is an entry.                                              *)
LEMMA NewEntryType ==
    ASSUME NEW side \in Sides, NEW target \in Nat, NEW pre \in Int \cup {NoPosition}
    PROVE  NewEntry(side, target, pre) \in Entry
BY DEF NewEntry, Entry, Statuses, Preroute

(* _apply_position_diff: never less than the recorded fills; more only for *)
(* an order with a fill, and then at most its size.                        *)
LEMMA CreditBounds ==
    ASSUME LedgerAssumption, NEW e \in Entry, NEW pos \in Positions \cup {NoPosition}
    PROVE  /\ EffectiveFilled(e, pos) \in Nat
           /\ EffectiveFilled(e, pos) >= e.filled
           /\ EffectiveFilled(e, pos) > e.filled
                 => e.filled > 0 /\ EffectiveFilled(e, pos) <= e.target
<1>1. e.filled \in Nat /\ e.target \in Nat
  BY DEF Entry
<1>2. CASE ~(CanDiff(e, pos) /\ Moved(e, pos) > e.filled)
  BY <1>1, <1>2 DEF EffectiveFilled
<1>3. CASE CanDiff(e, pos) /\ Moved(e, pos) > e.filled
  <2>1. e.pre \in Int /\ pos \in Int
    BY <1>3 DEF CanDiff, Entry, LedgerAssumption
  <2>2. Moved(e, pos) \in Int
    BY <2>1 DEF Moved
  <2>3. 0 < e.filled /\ e.filled < e.target
    BY <1>3 DEF CanDiff
  <2>4. EffectiveFilled(e, pos) = IF Moved(e, pos) < e.target THEN Moved(e, pos) ELSE e.target
    BY <1>3 DEF EffectiveFilled
  <2> HIDE DEF Moved
  <2> QED
    BY <1>1, <1>3, <2>2, <2>3, <2>4
<1> QED
  BY <1>2, <1>3

(* The entry a terminal is made of.                                        *)
LEMMA FinalType ==
    ASSUME LedgerAssumption, NEW e \in Entry, NEW pos \in Positions \cup {NoPosition}
    PROVE  /\ [e EXCEPT !.filled = EffectiveFilled(e, pos)] \in Entry
           /\ Resolve([e EXCEPT !.filled = EffectiveFilled(e, pos)]) \in EventStatuses
<1>1. EffectiveFilled(e, pos) \in Nat
  BY CreditBounds
<1>2. [e EXCEPT !.filled = EffectiveFilled(e, pos)] \in Entry
  BY <1>1 DEF Entry
<1>3. \A f \in Entry : Resolve(f) \in EventStatuses
  BY DEF Resolve, EventStatuses, Statuses, TerminalStatuses, Cancels, Entry
<1> QED
  BY <1>2, <1>3

(* _make_terminal.                                                         *)
LEMMA MakeTerminalFacts ==
    ASSUME LedgerAssumption, LedgerTypeOK, NEW o \in Orders, NEW e \in Entry,
           NEW pos \in Positions \cup {NoPosition}, MakeTerminal(o, e, pos)
    PROVE  /\ LedgerTypeOK'
           /\ tracked' = tracked \ {o} /\ evicted' = evicted \cup {o}
           /\ out' # <<>> /\ out'[1].id = o /\ out'[1].terminal
           /\ out'[1].filled = EffectiveFilled(e, pos)
           /\ entry'[o].last = e.last
<1> DEFINE final == [e EXCEPT !.filled = EffectiveFilled(e, pos)]
<1>1. final \in Entry /\ Resolve(final) \in EventStatuses
  BY FinalType
<1>2. final.filled = EffectiveFilled(e, pos) /\ final.last = e.last
  BY DEF Entry
<1>3. /\ Emit(o, final, TRUE, Resolve(final))
      /\ tracked' = tracked \ {o}
      /\ entry' = [entry EXCEPT ![o] = final]
      /\ evicted' = evicted \cup {o}
  BY DEF MakeTerminal
<1> HIDE DEF final
<1>4. /\ out' \in Seq(Event) /\ Len(out') = 1 /\ out' # <<>>
      /\ out'[1].id = o /\ out'[1].terminal = TRUE /\ out'[1].filled = final.filled
  BY <1>1, <1>3, EmitType
<1>5. entry' \in [Orders -> Entry] /\ entry'[o] = final
  BY <1>1, <1>3 DEF LedgerTypeOK
<1> QED
  BY <1>2, <1>3, <1>4, <1>5 DEF LedgerTypeOK

-----------------------------------------------------------------------------
(* What a call can do, as far as the properties are concerned: nothing     *)
(* visible; progress of an order that goes on; the refusal of an order     *)
(* never tracked; or the end of an order.                                  *)
Quiet ==
    out' = <<>> /\ tracked' = tracked /\ (evicted' = evicted \/ evicted' = {})

Speaks(o) == o \notin evicted /\ out' # <<>> /\ out'[1].id = o

Progress(o) ==
    Speaks(o) /\ ~out'[1].terminal /\ tracked' = tracked \cup {o} /\ evicted' = evicted

Refused(o) ==
    /\ Speaks(o) /\ out'[1].terminal /\ o \notin tracked /\ out'[1].filled = 0
    /\ tracked' = tracked /\ evicted' = evicted

Ended(o) ==
    /\ Speaks(o) /\ out'[1].terminal
    /\ tracked' = tracked \ {o} /\ evicted' = evicted \cup {o}
    /\ o \notin tracked => out'[1].filled = 0
    /\ o \in tracked =>
          /\ out'[1].filled >= entry[o].filled
          /\ out'[1].filled > entry[o].filled
                => entry[o].filled > 0 /\ out'[1].filled <= entry[o].target
          /\ entry'[o].last \in Cancels
                => \/ entry[o].last \notin Preroute
                   \/ entry[o].filled > 0
                      /\ (entry[o].target = 0 \/ entry[o].filled >= entry[o].target)

Effect == Quiet \/ \E o \in Orders : Progress(o) \/ Refused(o) \/ Ended(o)

(* A call that ignores its argument.                                       *)
LEMMA IgnoreEffect ==
    ASSUME LedgerTypeOK, Ignore
    PROVE  LedgerTypeOK' /\ Quiet
BY DEF Ignore, LedgerTypeOK, Quiet

(* A call that stores an entry and reports progress.                       *)
LEMMA PutEffect ==
    ASSUME LedgerTypeOK, NEW o \in Orders, o \notin evicted, NEW e \in Entry,
           NEW s \in EventStatuses, Put(o, e), Emit(o, e, FALSE, s), UNCHANGED evicted
    PROVE  LedgerTypeOK' /\ Progress(o)
<1>1. /\ out' \in Seq(Event) /\ Len(out') = 1 /\ out' # <<>>
      /\ out'[1].id = o /\ out'[1].terminal = FALSE
  BY EmitType
<1>2. tracked' = tracked \cup {o} /\ entry' = [entry EXCEPT ![o] = e]
  BY DEF Put
<1>3. LedgerTypeOK'
  BY <1>1, <1>2 DEF LedgerTypeOK
<1>4. Progress(o)
  BY <1>1, <1>2 DEF Progress, Speaks
<1> QED
  BY <1>3, <1>4

(* register().                                                             *)
LEMMA RegisterEffect ==
    ASSUME LedgerAssumption, LedgerTypeOK, NEW o \in Orders, DoRegister(o)
    PROVE  LedgerTypeOK' /\ Progress(o)
<1>1. PICK pre \in Positions : Register(o, Side[o], Size[o], pre)
  BY DEF DoRegister
<1> DEFINE e == IF o \in tracked THEN Backfilled(entry[o], Size[o], pre)
                                 ELSE NewEntry(Side[o], Size[o], pre)
<1>2. o \notin evicted
  BY DEF DoRegister
<1>3. pre \in Int /\ Side[o] \in Sides /\ Size[o] \in Nat
  BY DEF LedgerAssumption, Sides
<1>4. NewEntry(Side[o], Size[o], pre) \in Entry
  BY <1>3, NewEntryType
<1>5. ASSUME o \in tracked PROVE Backfilled(entry[o], Size[o], pre) \in Entry
  <2>1. entry[o] \in Entry
    BY DEF LedgerTypeOK
  <2> QED
    BY <1>3, <2>1 DEF Backfilled, Entry
<1>6. e \in Entry
  BY <1>4, <1>5
<1>7. Put(o, e) /\ Emit(o, e, FALSE, "Submitted") /\ UNCHANGED evicted
  BY <1>1 DEF Register
<1>8. "Submitted" \in EventStatuses
  BY DEF EventStatuses, Statuses, Preroute
<1> HIDE DEF e
<1> QED
  BY <1>2, <1>6, <1>7, <1>8, PutEffect

(* record_fill(), with the trade's metadata or without.                    *)
LEMMA RecordFillEffect ==
    ASSUME LedgerAssumption, LedgerTypeOK, NEW o \in Orders, NEW qty \in Nat,
           NEW side \in Sides, NEW remaining \in Nat \cup {-1}, NEW total \in Nat \cup {-1},
           RecordFill(o, qty, side, remaining, total)
    PROVE  LedgerTypeOK' /\ (Quiet \/ Progress(o))
<1>1. CASE Suppressed(o)
  BY <1>1, IgnoreEffect DEF RecordFill
<1>2. CASE ~Suppressed(o)
  <2> DEFINE before == IF o \in tracked THEN entry[o]
                       ELSE NewEntry(side, TargetFromFill(qty, remaining, total), NoPosition)
             e == [before EXCEPT !.filled = @ + qty]
             s == IF e.target > 0 /\ e.filled >= e.target THEN "Filled" ELSE "PartiallyFilled"
  <2>1. TargetFromFill(qty, remaining, total) \in Nat
    BY DEF TargetFromFill
  <2>2. before \in Entry
    BY <2>1, NewEntryType DEF LedgerTypeOK
  <2>3. Put(o, e) /\ Emit(o, e, FALSE, s) /\ UNCHANGED evicted
    BY <1>2 DEF RecordFill
  <2> HIDE DEF before
  <2>4. e \in Entry
    BY <2>2 DEF Entry
  <2>5. s \in EventStatuses
    BY DEF EventStatuses, Statuses, TerminalStatuses
  <2>6. o \notin evicted
    BY <1>2 DEF Suppressed
  <2> HIDE DEF e, s
  <2> QED
    BY <2>3, <2>4, <2>5, <2>6, PutEffect
<1> QED
  BY <1>1, <1>2

(* record_status() of an order that was not tracked and has no orderRef.   *)
LEMMA UntrackedEffect ==
    ASSUME LedgerAssumption, LedgerTypeOK, NEW o \in Orders, NEW side \in Sides,
           o \notin evicted, o \notin tracked,
           Emit(o, NewEntry(side, 0, NoPosition), TRUE, "Rejected"),
           UNCHANGED <<tracked, entry, evicted>>
    PROVE  LedgerTypeOK' /\ Refused(o)
<1>1. NewEntry(side, 0, NoPosition) \in Entry
  BY NewEntryType
<1>2. "Rejected" \in EventStatuses
  BY DEF EventStatuses
<1>3. /\ out' \in Seq(Event) /\ Len(out') = 1 /\ out' # <<>> /\ out'[1].id = o
      /\ out'[1].terminal = TRUE
      /\ out'[1].filled = NewEntry(side, 0, NoPosition).filled
  BY <1>1, <1>2, EmitType
<1>4. out'[1].filled = 0
  BY <1>3 DEF NewEntry
<1>5. Refused(o)
  BY <1>3, <1>4 DEF Refused, Speaks
<1> QED
  BY <1>3, <1>5 DEF LedgerTypeOK

(* record_status() with a terminal status that is not held; `before` is    *)
(* the entry the status found.                                             *)
LEMMA EndEffect ==
    ASSUME LedgerAssumption, LedgerTypeOK, NEW o \in Orders, o \notin evicted,
           NEW before \in Entry, NEW status \in Statuses, NEW pos \in Positions \cup {NoPosition},
           o \in tracked => before = entry[o],
           o \notin tracked => before.filled = 0,
           ~MightBePreroute(before, status),
           MakeTerminal(o, [before EXCEPT !.last = status], pos)
    PROVE  LedgerTypeOK' /\ Ended(o)
<1> DEFINE e == [before EXCEPT !.last = status]
<1>1. e \in Entry /\ e.filled = before.filled /\ e.target = before.target /\ e.last = status
  BY DEF Entry
<1>2. before.filled \in Nat /\ before.target \in Nat
  BY DEF Entry
<1> HIDE DEF e
<1>3. MakeTerminal(o, e, pos)
  BY DEF e
<1>4. /\ LedgerTypeOK'
      /\ tracked' = tracked \ {o} /\ evicted' = evicted \cup {o}
      /\ out' # <<>> /\ out'[1].id = o /\ out'[1].terminal
      /\ out'[1].filled = EffectiveFilled(e, pos)
      /\ entry'[o].last = status
  BY <1>1, <1>3, MakeTerminalFacts
<1>5. /\ out'[1].filled \in Nat
      /\ out'[1].filled >= before.filled
      /\ out'[1].filled > before.filled
            => before.filled > 0 /\ out'[1].filled <= before.target
  BY <1>1, <1>4, CreditBounds
<1>6. ASSUME status \in Cancels
      PROVE  \/ before.last \notin Preroute
             \/ before.filled > 0 /\ (before.target = 0 \/ before.filled >= before.target)
  BY <1>2, <1>6 DEF MightBePreroute
<1>7. Ended(o)
  <2>1. CASE o \in tracked
    BY <1>4, <1>5, <1>6, <2>1 DEF Ended, Speaks
  <2>2. CASE o \notin tracked
    <3>1. out'[1].filled = 0
      BY <1>2, <1>5, <2>2
    <3> QED
      BY <1>4, <2>2, <3>1 DEF Ended, Speaks
  <2> QED
    BY <2>1, <2>2
<1> QED
  BY <1>4, <1>7

(* record_status().                                                        *)
LEMMA RecordStatusEffect ==
    ASSUME LedgerAssumption, LedgerTypeOK, NEW o \in Orders, NEW status \in Statuses,
           NEW side \in Sides, NEW tagged \in BOOLEAN, NEW pos \in Positions \cup {NoPosition},
           RecordStatus(o, status, side, tagged, pos)
    PROVE  /\ LedgerTypeOK'
           /\ \/ Quiet \/ Progress(o)
              \/ Ended(o) /\ status \in TerminalStatuses
              \/ Refused(o) /\ status = "Inactive" /\ o \notin tracked
<1> DEFINE rejected == ~Suppressed(o) /\ o \notin tracked /\ status = "Inactive" /\ ~tagged
<1>1. CASE Suppressed(o)
  <2>1. Ignore
    BY <1>1 DEF RecordStatus
  <2> QED
    BY <2>1, IgnoreEffect
<1>2. CASE rejected
  <2>1. /\ Emit(o, NewEntry(side, 0, NoPosition), TRUE, "Rejected")
        /\ UNCHANGED <<tracked, entry, evicted>>
    BY <1>2 DEF RecordStatus
  <2>2. o \notin evicted
    BY <1>2 DEF Suppressed
  <2> QED
    BY <1>2, <2>1, <2>2, UntrackedEffect
<1>3. CASE ~Suppressed(o) /\ ~rejected
  <2> DEFINE before == IF o \in tracked THEN entry[o] ELSE NewEntry(side, 0, NoPosition)
             e == [before EXCEPT !.last = status]
             s == IF status \in Cancels THEN "CancelHeld" ELSE status
  <2>1. IF status \in TerminalStatuses /\ ~MightBePreroute(before, status)
        THEN MakeTerminal(o, e, pos)
        ELSE Put(o, e) /\ Emit(o, e, FALSE, s) /\ UNCHANGED evicted
    BY <1>3, Zenon DEF RecordStatus
  <2>2. before \in Entry /\ (o \notin tracked => before.filled = 0)
    <3>1. NewEntry(side, 0, NoPosition) \in Entry
      BY NewEntryType
    <3> QED
      BY <3>1 DEF LedgerTypeOK, NewEntry
  <2>3. o \in tracked => before = entry[o]
    OBVIOUS
  <2>4. o \notin evicted
    BY <1>3 DEF Suppressed
  <2> HIDE DEF before
  <2>5. CASE status \in TerminalStatuses /\ ~MightBePreroute(before, status)
    BY <2>1, <2>2, <2>3, <2>4, <2>5, EndEffect
  <2>6. CASE ~(status \in TerminalStatuses /\ ~MightBePreroute(before, status))
    <3>1. Put(o, e) /\ Emit(o, e, FALSE, s) /\ UNCHANGED evicted
      BY <2>1, <2>6
    <3>2. e \in Entry
      BY <2>2 DEF Entry
    <3>3. s \in EventStatuses
      BY DEF EventStatuses
    <3> HIDE DEF e, s
    <3> QED
      BY <2>4, <3>1, <3>2, <3>3, PutEffect
  <2> QED
    BY <2>5, <2>6
<1> QED
  BY <1>1, <1>2, <1>3

(* check_stuck().                                                          *)
LEMMA CheckStuckEffect ==
    ASSUME LedgerTypeOK, NEW old \in SUBSET tracked, CheckStuck(old)
    PROVE  LedgerTypeOK' /\ Quiet /\ evicted' = {}
<1>1. entry' \in [Orders -> Entry]
  <2>1. \A o \in Orders : [entry[o] EXCEPT !.alerted = TRUE] \in Entry /\ entry[o] \in Entry
    BY DEF LedgerTypeOK, Entry
  <2> QED
    BY <2>1 DEF CheckStuck
<1>2. Quiet
  BY DEF CheckStuck, Quiet
<1> QED
  BY <1>1, <1>2 DEF CheckStuck, LedgerTypeOK, Quiet

-----------------------------------------------------------------------------
(* Every call keeps the types and has one of the four effects.             *)
LEMMA StepEffect ==
    ASSUME LedgerAssumption, LedgerTypeOK, LedgerNext
    PROVE  LedgerTypeOK' /\ Effect
<1>1. ASSUME NEW o \in Orders, DoRegister(o)
      PROVE  LedgerTypeOK' /\ Effect
  BY <1>1, RegisterEffect DEF Effect
<1>2. ASSUME NEW o \in Orders, DoRecordFill(o)
      PROVE  LedgerTypeOK' /\ Effect
  <2>1. Side[o] \in Sides /\ "" \in Sides
    BY DEF LedgerAssumption, Sides
  <2>2. Size[o] \in Nat
    BY DEF LedgerAssumption
  <2>3. PICK qty \in 1 .. Size[o] :
            \/ RecordFill(o, qty, "", -1, -1)
            \/ \E remaining \in 0 .. Size[o] : RecordFill(o, qty, Side[o], remaining, Size[o])
    BY <1>2 DEF DoRecordFill
  <2>4. qty \in Nat
    BY <2>2
  <2>5. CASE RecordFill(o, qty, "", -1, -1)
    BY <2>1, <2>4, <2>5, RecordFillEffect DEF Effect
  <2>6. ASSUME NEW remaining \in 0 .. Size[o], RecordFill(o, qty, Side[o], remaining, Size[o])
        PROVE  LedgerTypeOK' /\ Effect
    <3>1. remaining \in Nat
      BY <2>2
    <3> QED
      BY <2>1, <2>2, <2>4, <2>6, <3>1, RecordFillEffect DEF Effect
  <2> QED
    BY <2>3, <2>5, <2>6
<1>3. ASSUME NEW o \in Orders, DoRecordStatus(o)
      PROVE  LedgerTypeOK' /\ Effect
  <2>1. Side[o] \in Sides /\ "" \in Sides
    BY DEF LedgerAssumption, Sides
  <2>2. PICK status \in Statuses, pos \in Positions \cup {NoPosition} :
            \/ RecordStatus(o, status, "", FALSE, pos)
            \/ RecordStatus(o, status, Side[o], o \in Tagged, pos)
    BY <1>3 DEF DoRecordStatus
  <2>3. (o \in Tagged) \in BOOLEAN
    OBVIOUS
  <2> QED
    <3>1. ASSUME NEW side \in Sides, NEW tagged \in BOOLEAN,
                 RecordStatus(o, status, side, tagged, pos)
          PROVE  LedgerTypeOK' /\ Effect
      <4>1. LedgerTypeOK' /\ (Quiet \/ Progress(o) \/ Ended(o) \/ Refused(o))
        BY <3>1, LedgerAssumption, RecordStatusEffect
      <4> QED
        BY <4>1 DEF Effect
    <3> QED
      BY <2>1, <2>2, <2>3, <3>1
<1>4. ASSUME DoCheckStuck
      PROVE  LedgerTypeOK' /\ Effect
  BY <1>4, CheckStuckEffect DEF DoCheckStuck, Effect
<1> QED
  BY <1>1, <1>2, <1>3, <1>4 DEF LedgerNext

(* The invariant: the types, and no id both live and evicted.  The second  *)
(* part is inductive with the first because every call that stores an      *)
(* entry has first checked that its id is not evicted.                     *)
LedgerInv == LedgerTypeOK /\ LiveOrEvicted

LEMMA LedgerStart == LedgerInit => LedgerInv
<1>1. NoPosition \in Int \cup {NoPosition} /\ "" \in Sides /\ 0 \in Nat
  BY DEF Sides
<1>2. Blank \in Entry
  BY <1>1, NewEntryType DEF Blank
<1> QED
  BY <1>2 DEF LedgerInit, LedgerInv, LedgerTypeOK, LiveOrEvicted

(* The ledger's state has its types and no id is both tracked and evicted, *)
(* whatever calls the relay makes (register, record_fill, record_status,   *)
(* check_stuck).                                                           *)
THEOREM LedgerInvariant == LedgerSpec => [](LedgerTypeOK /\ LiveOrEvicted)
<1>1. LedgerInit => LedgerInv
  BY LedgerStart
<1>2. LedgerInv /\ [LedgerNext]_ledgerVars => LedgerInv'
  <2> SUFFICES ASSUME LedgerInv, [LedgerNext]_ledgerVars PROVE LedgerInv'
    OBVIOUS
  <2>1. CASE LedgerNext
    <3>1. LedgerTypeOK' /\ Effect
      BY <2>1, LedgerAssumption, StepEffect DEF LedgerInv
    <3>2. LiveOrEvicted'
      <4>1. CASE Quiet
        BY <4>1 DEF Quiet, LedgerInv, LiveOrEvicted
      <4>2. ASSUME NEW o \in Orders, Progress(o) \/ Refused(o) \/ Ended(o)
            PROVE  LiveOrEvicted'
        BY <4>2 DEF Progress, Refused, Ended, Speaks, LedgerInv, LiveOrEvicted
      <4> QED
        BY <3>1, <4>1, <4>2 DEF Effect
    <3> QED
      BY <3>1, <3>2 DEF LedgerInv
  <2>2. CASE UNCHANGED ledgerVars
    BY <2>2 DEF ledgerVars, LedgerInv, LedgerTypeOK, LiveOrEvicted
  <2> QED
    BY <2>1, <2>2
<1> QED
  BY <1>1, <1>2, PTL DEF LedgerSpec, LedgerInv

-----------------------------------------------------------------------------
(* The action properties: each follows from the effect of a step.          *)

(* An evicted id is silent: every call that speaks of an id has checked    *)
(* that it is not in _recently_evicted.                                    *)
THEOREM Silence == LedgerSpec => SilentOnceEvicted
<1>1. LedgerTypeOK /\ [LedgerNext]_ledgerVars
      => [\A o \in evicted : out' = <<>> \/ out'[1].id # o]_ledgerVars
  <2> SUFFICES ASSUME LedgerTypeOK, LedgerNext, NEW o \in evicted, out' # <<>>
               PROVE  out'[1].id # o
    OBVIOUS
  <2>1. Effect
    BY LedgerAssumption, StepEffect
  <2>2. PICK p \in Orders : Progress(p) \/ Refused(p) \/ Ended(p)
    BY <2>1 DEF Effect, Quiet
  <2> QED
    BY <2>2 DEF Progress, Refused, Ended, Speaks
<1> QED
  BY <1>1, LedgerInvariant, PTL DEF LedgerSpec, SilentOnceEvicted

(* The terminal of a tracked order ends it and is credited with its fills  *)
(* at least, and with its size at most if the position diff adds any.      *)
THEOREM SoundTerminals == LedgerSpec => TerminalIsSound
<1> DEFINE A == \A o \in tracked :
          (out' # <<>> /\ out'[1].id = o /\ out'[1].terminal)
          => /\ o \notin tracked' /\ o \in evicted'
             /\ out'[1].filled >= entry[o].filled
             /\ entry[o].filled < out'[1].filled => out'[1].filled <= entry[o].target
<1>1. LedgerTypeOK /\ [LedgerNext]_ledgerVars => [A]_ledgerVars
  <2> SUFFICES ASSUME LedgerTypeOK, LedgerNext, NEW o \in tracked,
                      out' # <<>>, out'[1].id = o, out'[1].terminal
               PROVE  /\ o \notin tracked' /\ o \in evicted'
                      /\ out'[1].filled >= entry[o].filled
                      /\ entry[o].filled < out'[1].filled => out'[1].filled <= entry[o].target
    OBVIOUS
  <2>1. LedgerTypeOK' /\ Effect
    BY LedgerAssumption, StepEffect
  <2>2. PICK p \in Orders : Progress(p) \/ Refused(p) \/ Ended(p)
    BY <2>1 DEF Effect, Quiet
  <2>3. Ended(o)
    BY <2>2 DEF Progress, Refused, Ended, Speaks
  <2>4. entry[o].filled \in Nat /\ out'[1].filled \in Nat
    <3>1. out'[1] \in Event
      BY <2>1 DEF LedgerTypeOK
    <3>2. entry[o] \in Entry
      BY DEF LedgerTypeOK
    <3> QED
      BY <3>1, <3>2 DEF Event, Entry
  <2> QED
    BY <2>3, <2>4 DEF Ended
<1> QED
  BY <1>1, LedgerInvariant, PTL DEF LedgerSpec, TerminalIsSound

(* No terminal credits a quantity to an order without a recorded fill      *)
(* (the third guard of _apply_position_diff).                              *)
THEOREM NothingInvented == LedgerSpec => NoFillFromNothing
<1> DEFINE A == \A o \in Orders :
          (out' # <<>> /\ out'[1].id = o /\ out'[1].terminal /\ out'[1].filled > 0)
          => o \in tracked /\ entry[o].filled > 0
<1>1. LedgerTypeOK /\ [LedgerNext]_ledgerVars => [A]_ledgerVars
  <2> SUFFICES ASSUME LedgerTypeOK, LedgerNext, NEW o \in Orders,
                      out' # <<>>, out'[1].id = o, out'[1].terminal, out'[1].filled > 0
               PROVE  o \in tracked /\ entry[o].filled > 0
    OBVIOUS
  <2>1. LedgerTypeOK' /\ Effect
    BY LedgerAssumption, StepEffect
  <2>2. PICK p \in Orders : Progress(p) \/ Refused(p) \/ Ended(p)
    BY <2>1 DEF Effect, Quiet
  <2>3. Ended(o) /\ o \in tracked
    BY <2>2 DEF Progress, Refused, Ended, Speaks
  <2>4. entry[o].filled \in Nat /\ out'[1].filled \in Nat
    <3>1. out'[1] \in Event
      BY <2>1 DEF LedgerTypeOK
    <3>2. entry[o] \in Entry
      BY DEF LedgerTypeOK
    <3> QED
      BY <3>1, <3>2 DEF Event, Entry
  <2> QED
    BY <2>3, <2>4 DEF Ended
<1> QED
  BY <1>1, LedgerInvariant, PTL DEF LedgerSpec, NoFillFromNothing

(* A cancel right after a working status ends only an order that is known  *)
(* to be complete (cancel_might_be_preroute in record_status).             *)
THEOREM CancelsAreHeld == LedgerSpec => OneCancelIsHeld
<1> DEFINE A == \A o \in tracked :
          (out' # <<>> /\ out'[1].id = o /\ out'[1].terminal
              /\ entry'[o].last \in Cancels)
          => \/ entry[o].last \notin Preroute
             \/ entry[o].filled > 0 /\ (entry[o].target = 0 \/ entry[o].filled >= entry[o].target)
<1>1. LedgerTypeOK /\ [LedgerNext]_ledgerVars => [A]_ledgerVars
  <2> SUFFICES ASSUME LedgerTypeOK, LedgerNext, NEW o \in tracked,
                      out' # <<>>, out'[1].id = o, out'[1].terminal, entry'[o].last \in Cancels
               PROVE  \/ entry[o].last \notin Preroute
                      \/ entry[o].filled > 0
                         /\ (entry[o].target = 0 \/ entry[o].filled >= entry[o].target)
    OBVIOUS
  <2>1. LedgerTypeOK' /\ Effect
    BY LedgerAssumption, StepEffect
  <2>2. PICK p \in Orders : Progress(p) \/ Refused(p) \/ Ended(p)
    BY <2>1 DEF Effect, Quiet
  <2>3. Ended(o)
    BY <2>2 DEF Progress, Refused, Ended, Speaks
  <2> QED
    BY <2>3 DEF Ended
<1> QED
  BY <1>1, LedgerInvariant, PTL DEF LedgerSpec, OneCancelIsHeld

-----------------------------------------------------------------------------
-----------------------------------------------------------------------------
(* The path of the events.                                                 *)

(* What an order that IB has not accepted may hear of: a cancel without a  *)
(* permId, which the gate swallows, its own PendingCancel, and one refusal.*)
Unnumbered == StatusMsg("Cancelled", FALSE)
Refusal == StatusMsg("Inactive", TRUE)
PendingCall == StatusCall("PendingCancel")
RefusalCall == StatusCall("Inactive")

(* IB never refuses an order without its permId.                           *)
Sent == Messages \ {StatusMsg("Inactive", FALSE)}

Types ==
    /\ LedgerTypeOK
    /\ broker \in [Orders -> Working \cup Done \cup {"none"}]
    /\ wire \in [Orders -> Seq(Sent)]
    /\ late \in [Orders -> Nat]
    /\ ibPosition \in Positions
    /\ shown \in [Orders -> Statuses]
    /\ verifying \in [Orders -> Nat]
    /\ calls \in [Orders -> Seq(Calls)]
    /\ updates \in [Orders -> Seq(Event)]

(* Before it is placed an order has left no trace.                         *)
Unplaced(o) ==
    broker[o] = "none" =>
        /\ wire[o] = <<>> /\ calls[o] = <<>> /\ late[o] = 0 /\ verifying[o] = 0
        /\ o \notin tracked /\ o \notin evicted

Unaccepted(o) ==
    broker[o] \in {"sent", "inactive"} =>
        /\ late[o] = 0 /\ verifying[o] = 0
        /\ \A i \in 1 .. Len(wire[o]) : wire[o][i] \in {Unnumbered, Refusal}
        /\ \A i \in 1 .. Len(calls[o]) : calls[o][i] \in {PendingCall, RefusalCall}

(* A refusal is the last message of its order and finds it tracked.        *)
RefusedOnce(o) ==
    /\ broker[o] = "sent" => o \in tracked
    /\ \A i \in 1 .. Len(wire[o]) : wire[o][i] = Refusal =>
          /\ broker[o] = "inactive" /\ o \in tracked /\ i = Len(wire[o])
          /\ \A j \in 1 .. Len(calls[o]) : calls[o][j] # RefusalCall
    /\ \A i \in 1 .. Len(calls[o]) : calls[o][i] = RefusalCall =>
          /\ broker[o] = "inactive" /\ o \in tracked
          /\ \A j \in 1 .. Len(calls[o]) : calls[o][j] = RefusalCall => j = i

Local(o) == Unplaced(o) /\ Unaccepted(o) /\ RefusedOnce(o)

EventsInv == Types /\ \A o \in Orders : Local(o)

-----------------------------------------------------------------------------
(* Messages and calls.                                                     *)

LEMMA MessageTypes ==
    /\ FillMsg \in Sent
    /\ \A s \in Statuses, p \in BOOLEAN :
          s # "Inactive" \/ p = TRUE => StatusMsg(s, p) \in Sent
    /\ \A b \in BOOLEAN : OpenOrdersMsg(b) \in Sent
    /\ FillCall \in Calls
    /\ \A s \in Statuses : StatusCall(s) \in Calls
<1>1. \A s : StatusMsg(s, TRUE).perm = TRUE
  BY DEF StatusMsg
<1>2. \A s, p : StatusMsg(s, p).status = s /\ StatusMsg(s, p).kind = "status"
  BY DEF StatusMsg
<1>3. FillMsg.kind = "fill" /\ \A b : OpenOrdersMsg(b).kind = "openOrders"
  BY DEF FillMsg, OpenOrdersMsg
<1>4. StatusMsg("Inactive", FALSE).perm = FALSE
  BY DEF StatusMsg
<1>5. FillMsg # StatusMsg("Inactive", FALSE)
  BY <1>2, <1>3
<1>6. ASSUME NEW s \in Statuses, NEW p \in BOOLEAN, s # "Inactive" \/ p = TRUE
      PROVE  StatusMsg(s, p) # StatusMsg("Inactive", FALSE)
  <2>1. CASE s # "Inactive"
    <3>1. StatusMsg(s, p).status = s /\ StatusMsg("Inactive", FALSE).status = "Inactive"
      BY DEF StatusMsg
    <3> QED
      BY <2>1, <3>1
  <2>2. CASE p = TRUE
    BY <1>1, <1>4, <2>2
  <2> QED
    BY <1>6, <2>1, <2>2
<1>7. \A b \in BOOLEAN : OpenOrdersMsg(b) # StatusMsg("Inactive", FALSE)
  BY <1>2, <1>3
<1>8. FillCall \in Calls /\ \A s \in Statuses : StatusCall(s) \in Calls
  BY DEF Calls
<1>9. /\ FillMsg \in Messages /\ \A b \in BOOLEAN : OpenOrdersMsg(b) \in Messages
      /\ \A s \in Statuses, p \in BOOLEAN : StatusMsg(s, p) \in Messages
  BY DEF Messages
<1> QED
  BY <1>5, <1>6, <1>7, <1>8, <1>9 DEF Sent

LEMMA StatusFields ==
    ASSUME NEW m \in Sent, m.kind = "status"
    PROVE  /\ m.status \in Statuses /\ m.perm \in BOOLEAN /\ m = StatusMsg(m.status, m.perm)
           /\ m.status = "Inactive" => m = Refusal
<1>1. CASE m = FillMsg
  BY <1>1 DEF FillMsg
<1>2. ASSUME NEW b \in BOOLEAN, m = OpenOrdersMsg(b) PROVE FALSE
  BY <1>2 DEF OpenOrdersMsg
<1>3. ASSUME NEW s \in Statuses, NEW p \in BOOLEAN, m = StatusMsg(s, p)
      PROVE  m.status \in Statuses /\ m.perm \in BOOLEAN /\ m = StatusMsg(m.status, m.perm)
  BY <1>3 DEF StatusMsg
<1>4. m.status \in Statuses /\ m.perm \in BOOLEAN /\ m = StatusMsg(m.status, m.perm)
  BY <1>1, <1>2, <1>3 DEF Sent, Messages
<1>5. m.status = "Inactive" => m.perm = TRUE
  BY <1>4 DEF Sent
<1> QED
  BY <1>4, <1>5, Zenon DEF Refusal

LEMMA CallFields ==
    ASSUME NEW c \in Calls, c.kind = "on_status"
    PROVE  c.status \in Statuses /\ c = StatusCall(c.status)
<1>1. CASE c = FillCall
  BY <1>1 DEF FillCall
<1>2. ASSUME NEW s \in Statuses, c = StatusCall(s)
      PROVE  c.status \in Statuses /\ c = StatusCall(c.status)
  BY <1>2 DEF StatusCall
<1> QED
  BY <1>1, <1>2 DEF Calls

LEMMA Distinct ==
    /\ \A s, p : StatusMsg(s, p) = Refusal <=> s = "Inactive" /\ p = TRUE
    /\ \A s, p : StatusMsg(s, p).kind = "status" /\ StatusMsg(s, p).status = s
                   /\ StatusMsg(s, p).perm = p
    /\ \A s : StatusCall(s).kind = "on_status" /\ StatusCall(s).status = s
    /\ \A s : StatusCall(s) = RefusalCall <=> s = "Inactive"
    /\ FillMsg # Refusal /\ FillCall # RefusalCall
    /\ FillMsg.kind = "fill" /\ FillCall.kind = "on_fill"
    /\ \A b : OpenOrdersMsg(b) # Refusal /\ OpenOrdersMsg(b).kind = "openOrders"
<1>1. \A s, p : StatusMsg(s, p).kind = "status" /\ StatusMsg(s, p).status = s
                   /\ StatusMsg(s, p).perm = p
  BY DEF StatusMsg
<1>2. \A s : StatusCall(s).kind = "on_status" /\ StatusCall(s).status = s
  BY DEF StatusCall
<1>3. FillMsg.kind = "fill" /\ FillCall.kind = "on_fill"
  BY DEF FillMsg, FillCall
<1>4. \A b : OpenOrdersMsg(b).kind = "openOrders"
  BY DEF OpenOrdersMsg
<1>5. \A s, p : StatusMsg(s, p) = Refusal <=> s = "Inactive" /\ p = TRUE
  <2> SUFFICES ASSUME NEW s, NEW p
               PROVE  StatusMsg(s, p) = Refusal <=> s = "Inactive" /\ p = TRUE
    OBVIOUS
  <2>1. Refusal.status = "Inactive" /\ Refusal.perm = TRUE
    BY DEF Refusal, StatusMsg
  <2>2. StatusMsg(s, p).status = s /\ StatusMsg(s, p).perm = p
    BY <1>1
  <2>3. ASSUME s = "Inactive", p = TRUE PROVE StatusMsg(s, p) = Refusal
    BY <2>3 DEF Refusal
  <2> QED
    BY <2>1, <2>2, <2>3
<1>6. \A s : StatusCall(s) = RefusalCall <=> s = "Inactive"
  BY <1>2, Zenon DEF RefusalCall
<1>7. Refusal.kind = "status" /\ RefusalCall.kind = "on_status"
  BY <1>1, <1>2 DEF Refusal, RefusalCall
<1>8. FillMsg # Refusal /\ FillCall # RefusalCall /\ \A b : OpenOrdersMsg(b) # Refusal
  BY <1>3, <1>4, <1>7
<1> QED
  BY <1>1, <1>2, <1>3, <1>4, <1>5, <1>6, <1>8

-----------------------------------------------------------------------------
(* An order that a step does not touch keeps its part of the invariant;    *)
(* that the watchdog forgets it does no harm.                              *)
Same(p) ==
    /\ broker'[p] = broker[p] /\ wire'[p] = wire[p] /\ late'[p] = late[p]
    /\ verifying'[p] = verifying[p] /\ calls'[p] = calls[p]
    /\ p \in tracked' <=> p \in tracked
    /\ p \in evicted' => p \in evicted

LEMMA Frame ==
    ASSUME NEW p \in Orders, Local(p), Same(p)
    PROVE  Local(p)'
<1>1. Unplaced(p)'
  BY DEF Local, Same, Unplaced
<1>2. Unaccepted(p)'
  BY DEF Local, Same, Unaccepted
<1>3. RefusedOnce(p)'
  BY DEF Local, Same, RefusedOnce
<1> QED
  BY <1>1, <1>2, <1>3 DEF Local

(* The broker acts on an order it has and sends messages about it.         *)
LEMMA BrokerMoves ==
    ASSUME Types, NEW o \in Orders, Local(o),
           NEW b \in Working \cup Done, NEW msgs \in Seq(Sent),
           broker[o] \in Working,
           broker' = [broker EXCEPT ![o] = b],
           wire' = [wire EXCEPT ![o] = @ \o msgs],
           UNCHANGED <<tracked, evicted, verifying, calls>>,
           b = "sent" => late'[o] = late[o] /\ broker[o] = "sent" /\ msgs = <<Unnumbered>>,
           b = "inactive" => late'[o] = late[o] /\ broker[o] = "sent" /\ msgs = <<Refusal>>,
           b # "inactive" => \A i \in 1 .. Len(msgs) : msgs[i] # Refusal
    PROVE  wire' \in [Orders -> Seq(Sent)] /\ Local(o)'
<1>1. wire[o] \in Seq(Sent)
  BY DEF Types
<1>2. /\ wire[o] \o msgs \in Seq(Sent)
      /\ Len(wire[o] \o msgs) = Len(wire[o]) + Len(msgs)
      /\ \A i \in 1 .. Len(wire[o]) + Len(msgs) :
            (wire[o] \o msgs)[i] = IF i <= Len(wire[o]) THEN wire[o][i] ELSE msgs[i - Len(wire[o])]
  BY <1>1, ConcatProperties
<1>3. wire'[o] = wire[o] \o msgs /\ broker'[o] = b /\ wire' \in [Orders -> Seq(Sent)]
  BY <1>2 DEF Types
<1>4. tracked' = tracked /\ evicted' = evicted /\ verifying' = verifying /\ calls' = calls
  OBVIOUS
<1>5. b # "none"
  BY DEF Working, Done
<1>6. Unplaced(o)'
  BY <1>3, <1>5 DEF Unplaced
<1>7. Len(wire[o]) \in Nat /\ Len(msgs) \in Nat
  BY <1>1
<1>8. Unaccepted(o)'
  <2> SUFFICES ASSUME b \in {"sent", "inactive"}
               PROVE  Unaccepted(o)'
    BY <1>3 DEF Unaccepted
  <2>1. broker[o] = "sent" /\ late'[o] = late[o]
    OBVIOUS
  <2>2. Len(msgs) = 1 /\ msgs[1] \in {Unnumbered, Refusal}
    OBVIOUS
  <2>3. /\ late[o] = 0 /\ verifying[o] = 0
        /\ \A i \in 1 .. Len(wire[o]) : wire[o][i] \in {Unnumbered, Refusal}
        /\ \A i \in 1 .. Len(calls[o]) : calls[o][i] \in {PendingCall, RefusalCall}
    BY <2>1 DEF Local, Unaccepted
  <2>4. \A i \in 1 .. Len(wire'[o]) : wire'[o][i] \in {Unnumbered, Refusal}
    BY <1>2, <1>3, <1>7, <2>2, <2>3
  <2> QED
    BY <1>4, <2>1, <2>3, <2>4 DEF Unaccepted
<1>9. RefusedOnce(o)'
  <2>1. broker[o] # "inactive"
    BY DEF Working
  <2>2. /\ \A i \in 1 .. Len(wire[o]) : wire[o][i] # Refusal
        /\ \A i \in 1 .. Len(calls[o]) : calls[o][i] # RefusalCall
        /\ broker[o] = "sent" => o \in tracked
    BY <2>1 DEF Local, RefusedOnce
  <2>3. CASE b = "inactive"
    <3>1. Len(msgs) = 1 /\ msgs[1] = Refusal /\ broker[o] = "sent"
      BY <2>3
    <3>2. \A i \in 1 .. Len(wire'[o]) : wire'[o][i] = Refusal => i = Len(wire'[o])
      BY <1>2, <1>3, <1>7, <2>2, <3>1
    <3> QED
      BY <1>3, <1>4, <2>2, <2>3, <3>1, <3>2 DEF RefusedOnce
  <2>4. CASE b # "inactive"
    <3>1. \A i \in 1 .. Len(wire'[o]) : wire'[o][i] # Refusal
      BY <1>2, <1>3, <1>7, <2>2, <2>4
    <3> QED
      BY <1>3, <1>4, <2>2, <3>1 DEF RefusedOnce
  <2> QED
    BY <2>3, <2>4
<1> QED
  BY <1>3, <1>6, <1>8, <1>9 DEF Local

(* What Execute sends: the execDetails, unless late, and the status.       *)
LEMMA ExecutionMessages ==
    ASSUME NEW first \in {<<>>, <<FillMsg>>}, NEW copies \in Nat,
           NEW s \in Statuses, s # "Inactive"
    PROVE  LET msgs == first \o [i \in 1 .. copies |-> StatusMsg(s, TRUE)]
           IN  msgs \in Seq(Sent) /\ \A i \in 1 .. Len(msgs) : msgs[i] # Refusal
<1> DEFINE m == StatusMsg(s, TRUE)
           tail == [i \in 1 .. copies |-> m]
<1>1. m \in Sent /\ m # Refusal /\ FillMsg \in Sent /\ FillMsg # Refusal
  BY MessageTypes, Distinct
<1> HIDE DEF m
<1>2. tail \in Seq(Sent) /\ Len(tail) = copies /\ \A i \in 1 .. copies : tail[i] = m
  BY <1>1
<1>3. first \in Seq(Sent) /\ Len(first) \in Nat /\ \A i \in 1 .. Len(first) : first[i] # Refusal
  <2>1. CASE first = <<>>
    BY <2>1
  <2>2. CASE first = <<FillMsg>>
    BY <1>1, <2>2
  <2> QED
    BY <2>1, <2>2
<1> HIDE DEF tail
<1>4. /\ first \o tail \in Seq(Sent)
      /\ Len(first \o tail) = Len(first) + copies
      /\ \A i \in 1 .. Len(first) + copies :
            (first \o tail)[i] = IF i <= Len(first) THEN first[i] ELSE tail[i - Len(first)]
  BY <1>2, <1>3, ConcatProperties
<1>5. \A i \in 1 .. Len(first \o tail) : (first \o tail)[i] # Refusal
  BY <1>1, <1>2, <1>3, <1>4
<1> QED
  BY <1>4, <1>5 DEF tail, m

LEMMA BrokerStepKeeps ==
    ASSUME EventsInv, BrokerStep
    PROVE  EventsInv'
<1>1. /\ UNCHANGED <<ledgerVars, ibPosition, wrapperVars, calls, relayVars, sweep>>
      /\ \E o \in Orders :
            \/ Accept(o) \/ Reject(o) \/ Cancel(o) \/ Rerouted(o)
            \/ \E isLate \in BOOLEAN, copies \in Copies : Execute(o, isLate, copies)
            \/ \E perm, moves \in BOOLEAN : SpuriousCancel(o, perm, moves)
  BY Zenon DEF BrokerStep
<1>2. PICK o \in Orders :
            \/ Accept(o) \/ Reject(o) \/ Cancel(o) \/ Rerouted(o)
            \/ \E isLate \in BOOLEAN, copies \in Copies : Execute(o, isLate, copies)
            \/ \E perm, moves \in BOOLEAN : SpuriousCancel(o, perm, moves)
  BY <1>1, Zenon
<1>3. /\ UNCHANGED <<tracked, entry, evicted, out>> /\ UNCHANGED <<ibPosition, shown, verifying>>
      /\ UNCHANGED <<calls, updates>>
  BY <1>1, Zenon DEF ledgerVars, wrapperVars, relayVars
<1>4. Types /\ Local(o) /\ late[o] \in Nat
  BY DEF EventsInv, Types
<1> DEFINE Moves(b, msgs) ==
              /\ b \in Working \cup Done /\ msgs \in Seq(Sent)
              /\ broker[o] \in Working
              /\ broker' = [broker EXCEPT ![o] = b]
              /\ wire' = [wire EXCEPT ![o] = @ \o msgs]
              /\ \E n \in Nat : late' = [late EXCEPT ![o] = n]
              /\ b = "sent" => late'[o] = late[o] /\ broker[o] = "sent" /\ msgs = <<Unnumbered>>
              /\ b = "inactive" => late'[o] = late[o] /\ broker[o] = "sent" /\ msgs = <<Refusal>>
              /\ b # "inactive" => \A i \in 1 .. Len(msgs) : msgs[i] # Refusal
<1>5. ASSUME NEW b, NEW msgs, Moves(b, msgs)
      PROVE  EventsInv'
  <2>1. wire' \in [Orders -> Seq(Sent)] /\ Local(o)'
    BY <1>3, <1>4, <1>5, BrokerMoves
  <2>2. Types'
    <3>1. LedgerTypeOK'
      BY <1>3, <1>4 DEF Types, LedgerTypeOK
    <3>2. late' \in [Orders -> Nat] /\ broker' \in [Orders -> Working \cup Done \cup {"none"}]
      BY <1>4, <1>5 DEF Types
    <3> QED
      BY <1>3, <1>4, <2>1, <3>1, <3>2 DEF Types
  <2>3. ASSUME NEW p \in Orders, p # o PROVE Local(p)'
    <3>1. Same(p)
      BY <1>3, <1>4, <1>5, <2>3 DEF Same, Types
    <3> QED
      BY <3>1, Frame DEF EventsInv
  <2> QED
    BY <2>1, <2>2, <2>3 DEF EventsInv
<1>6. \A s \in Statuses, p \in BOOLEAN : s # "Inactive" \/ p = TRUE =>
          <<StatusMsg(s, p)>> \in Seq(Sent) /\ Len(<<StatusMsg(s, p)>>) = 1
          /\ <<StatusMsg(s, p)>>[1] = StatusMsg(s, p)
  BY MessageTypes
<1>7. "Submitted" \in Statuses /\ "Inactive" \in Statuses /\ "Cancelled" \in Statuses
      /\ "Filled" \in Statuses
  BY DEF Statuses, Preroute, TerminalStatuses, Cancels
<1>8. \A s \in Statuses, p \in BOOLEAN : s # "Inactive" =>
          \A i \in 1 .. Len(<<StatusMsg(s, p)>>) : <<StatusMsg(s, p)>>[i] # Refusal
  BY Distinct
<1>9. /\ {"sent", "live", "moving", "filled", "cancelled", "inactive"} = Working \cup Done
      /\ {"sent", "live", "moving"} = Working
  BY DEF Working, Done
<1>10. late = [late EXCEPT ![o] = late[o]]
  BY <1>4 DEF Types
<1>11. CASE Accept(o)
  <2>1. Moves("live", <<StatusMsg("Submitted", TRUE)>>)
    <3>1. /\ broker[o] = "sent" /\ broker' = [broker EXCEPT ![o] = "live"] /\ late' = late
          /\ wire' = [wire EXCEPT ![o] = @ \o <<StatusMsg("Submitted", TRUE)>>]
      BY <1>11 DEF Accept, Send
    <3> QED
      BY <1>4, <1>6, <1>7, <1>8, <1>9, <1>10, <3>1
  <2> QED
    BY <1>5, <2>1
<1>12. CASE Reject(o)
  <2>1. Moves("inactive", <<StatusMsg("Inactive", TRUE)>>)
    <3>1. /\ broker[o] = "sent" /\ broker' = [broker EXCEPT ![o] = "inactive"] /\ late' = late
          /\ wire' = [wire EXCEPT ![o] = @ \o <<StatusMsg("Inactive", TRUE)>>]
      BY <1>12 DEF Reject, Send
    <3> QED
      BY <1>4, <1>6, <1>7, <1>9, <1>10, <3>1 DEF Refusal
  <2> QED
    BY <1>5, <2>1
<1>13. CASE Cancel(o)
  <2>1. Moves("cancelled", <<StatusMsg("Cancelled", TRUE)>>)
    <3>1. /\ broker[o] \in {"sent", "live"} /\ broker' = [broker EXCEPT ![o] = "cancelled"]
          /\ late' = late
          /\ wire' = [wire EXCEPT ![o] = @ \o <<StatusMsg("Cancelled", TRUE)>>]
      BY <1>13 DEF Cancel, Send
    <3> QED
      BY <1>4, <1>6, <1>7, <1>8, <1>9, <1>10, <3>1
  <2> QED
    BY <1>5, <2>1
<1>14. CASE Rerouted(o)
  <2>1. Moves("live", <<StatusMsg("Submitted", TRUE)>>)
    <3>1. /\ broker[o] = "moving" /\ broker' = [broker EXCEPT ![o] = "live"] /\ late' = late
          /\ wire' = [wire EXCEPT ![o] = @ \o <<StatusMsg("Submitted", TRUE)>>]
      BY <1>14 DEF Rerouted, Send
    <3> QED
      BY <1>4, <1>6, <1>7, <1>8, <1>9, <1>10, <3>1
  <2> QED
    BY <1>5, <2>1
<1>15. ASSUME NEW isLate \in BOOLEAN, NEW copies \in Copies, Execute(o, isLate, copies)
       PROVE  EventsInv'
  <2> DEFINE complete == executed[o] + 1 = Size[o]
             s == IF complete THEN "Filled" ELSE "Submitted"
             b == IF complete THEN "filled" ELSE broker[o]
             first == IF isLate THEN <<>> ELSE <<FillMsg>>
             msgs == first \o [i \in 1 .. copies |-> StatusMsg(s, TRUE)]
             n == IF isLate THEN late[o] + 1 ELSE late[o]
  <2>1. /\ broker[o] = "live"
        /\ broker' = [broker EXCEPT ![o] = b]
        /\ late' = [late EXCEPT ![o] = n]
        /\ wire' = [wire EXCEPT ![o] = @ \o msgs]
    BY <1>15, Zenon DEF Execute, Send
  <2>2. copies \in Nat
    BY EventsAssumption DEF Copies
  <2>3. s \in Statuses /\ s # "Inactive" /\ first \in {<<>>, <<FillMsg>>} /\ n \in Nat
    BY <1>4, <1>7
  <2>4. b \in {"live", "filled"}
    BY <2>1
  <2> HIDE DEF s, first, n, b
  <2>5. msgs \in Seq(Sent) /\ \A i \in 1 .. Len(msgs) : msgs[i] # Refusal
    BY <2>2, <2>3, ExecutionMessages
  <2> HIDE DEF msgs
  <2>6. Moves(b, msgs)
    BY <1>9, <2>1, <2>3, <2>4, <2>5
  <2> QED
    BY <1>5, <2>6
<1>16. ASSUME NEW perm \in BOOLEAN, NEW moves \in BOOLEAN, SpuriousCancel(o, perm, moves)
       PROVE  EventsInv'
  <2> DEFINE b == IF moves THEN "moving" ELSE broker[o]
             msgs == <<StatusMsg("Cancelled", perm)>>
  <2>1. /\ broker[o] = IF perm THEN "live" ELSE "sent"
        /\ moves => perm
        /\ broker' = [broker EXCEPT ![o] = b] /\ late' = late
        /\ wire' = [wire EXCEPT ![o] = @ \o msgs]
    BY <1>16, Zenon DEF SpuriousCancel, Send
  <2>2. b = "sent" => perm = FALSE /\ broker[o] = "sent"
    BY <2>1
  <2>3. b \in Working \cup Done /\ b # "inactive" /\ broker[o] \in Working
    BY <1>9, <2>1
  <2>4. b = "sent" => msgs = <<Unnumbered>>
    BY <2>2 DEF Unnumbered
  <2> HIDE DEF b
  <2>5. Moves(b, msgs)
    BY <1>4, <1>6, <1>7, <1>8, <1>10, <2>1, <2>2, <2>3, <2>4
  <2> QED
    BY <1>5, <2>5
<1> QED
  BY <1>2, <1>11, <1>12, <1>13, <1>14, <1>15, <1>16

-----------------------------------------------------------------------------
(* The steps that call the ledger.                                         *)

(* A placed order registers under an id that the ledger does not remember  *)
(* as evicted.                                                             *)
LEMMA PlaceRegisters ==
    ASSUME EventsInv, NEW o \in Orders, Place(o)
    PROVE  DoRegister(o)
<1>1. broker[o] = "none" /\ o \notin Phantoms /\ Register(o, Side[o], Size[o], ibPosition)
  BY Zenon DEF Place, OnOrderPlaced
<1>2. o \notin evicted
  BY <1>1 DEF EventsInv, Local, Unplaced
<1>3. ibPosition \in Positions
  BY DEF EventsInv, Types
<1> QED
  BY <1>1, <1>2, <1>3 DEF DoRegister

LEMMA PlaceKeeps ==
    ASSUME EventsInv, NEW o \in Orders, Place(o)
    PROVE  EventsInv' /\ Progress(o)
<1>1. /\ broker[o] = "none" /\ broker' = [broker EXCEPT ![o] = "sent"]
      /\ UNCHANGED <<late, wire, ibPosition>> /\ UNCHANGED <<shown, verifying>>
      /\ UNCHANGED <<calls, updates>>
  BY Zenon DEF Place, wrapperVars
<1>2. Types /\ Local(o)
  BY DEF EventsInv
<1>3. LedgerTypeOK' /\ Progress(o)
  BY <1>2, LedgerAssumption, PlaceRegisters, RegisterEffect DEF Types
<1>4. Types'
  BY <1>1, <1>2, <1>3 DEF Types, Working
<1>5. /\ broker'[o] = "sent" /\ o \in tracked'
      /\ wire'[o] = <<>> /\ calls'[o] = <<>> /\ late'[o] = 0 /\ verifying'[o] = 0
  BY <1>1, <1>2, <1>3 DEF Types, Local, Unplaced, Progress
<1>6. Local(o)'
  BY <1>5 DEF Local, Unplaced, Unaccepted, RefusedOnce
<1>7. ASSUME NEW p \in Orders, p # o PROVE Local(p)'
  <2>1. broker'[p] = broker[p]
    BY <1>1, <1>2, <1>7 DEF Types
  <2>2. Same(p)
    BY <1>1, <1>3, <1>7, <2>1 DEF Same, Progress
  <2> QED
    BY <2>2, Frame DEF EventsInv
<1> QED
  BY <1>3, <1>4, <1>6, <1>7 DEF EventsInv

(* A callback makes one call of the ledger; it ends an order only with a   *)
(* terminal status, and refuses none that the ledger does not track: the   *)
(* refusal of an order comes once and finds it tracked.                    *)
LEMMA CallEffect ==
    ASSUME EventsInv, NEW o \in Orders, RunCall(o)
    PROVE  /\ LedgerTypeOK'
           /\ DoRecordFill(o) \/ DoRecordStatus(o)
           /\ \/ Quiet \/ Progress(o)
              \/ Ended(o) /\ Head(calls[o]) # PendingCall
<1> DEFINE call == Head(calls[o])
<1>1. calls[o] # <<>> /\ LedgerCall(o, call)
  BY DEF RunCall
<1>2. Types /\ LedgerTypeOK /\ Local(o) /\ calls[o] \in Seq(Calls) /\ ibPosition \in Positions
  BY DEF EventsInv, Types
<1>3. call \in Calls /\ call = calls[o][1] /\ Len(calls[o]) \in Nat /\ 1 \in 1 .. Len(calls[o])
  BY <1>1, <1>2
<1>4. Side[o] \in Sides /\ Size[o] \in Nat /\ Size[o] >= 1
  <2>1. Side[o] \in {"BUY", "SELL"} /\ Size[o] \in Nat \ {0}
    BY LedgerAssumption DEF LedgerAssumption
  <2>2. Size[o] \in Nat /\ Size[o] >= 1
    BY <2>1
  <2> QED
    BY <2>1, <2>2, Zenon DEF Sides
<1>5. (o \in Tagged) \in BOOLEAN
  OBVIOUS
<1> HIDE DEF call
<1>6. CASE call.kind = "on_fill" /\ RecordFill(o, 1, Side[o], 0, Size[o])
  <2>1. LedgerTypeOK' /\ (Quiet \/ Progress(o))
    BY <1>2, <1>4, <1>6, LedgerAssumption, RecordFillEffect
  <2>2. 1 \in 1 .. Size[o] /\ 0 \in 0 .. Size[o]
    BY <1>4
  <2>3. DoRecordFill(o)
    BY <1>6, <2>2 DEF DoRecordFill
  <2> QED
    BY <2>1, <2>3
<1>7. CASE call.kind = "on_status" /\ RecordStatus(o, call.status, Side[o], o \in Tagged, ibPosition)
  <2>1. call.status \in Statuses /\ call = StatusCall(call.status)
    BY <1>3, <1>7, CallFields
  <2>2. /\ LedgerTypeOK'
        /\ \/ Quiet \/ Progress(o)
           \/ Ended(o) /\ call.status \in TerminalStatuses
           \/ Refused(o) /\ call.status = "Inactive" /\ o \notin tracked
    BY <1>2, <1>4, <1>5, <1>7, <2>1, LedgerAssumption, RecordStatusEffect
  <2>3. DoRecordStatus(o)
    BY <1>2, <1>7, <2>1 DEF DoRecordStatus
  <2>4. ASSUME call.status = "Inactive" PROVE o \in tracked
    BY <1>2, <1>3, <2>1, <2>4 DEF RefusalCall, Local, RefusedOnce
  <2>5. call = PendingCall => call.status = "PendingCancel"
    BY Distinct DEF PendingCall
  <2>6. "PendingCancel" \notin TerminalStatuses
    BY DEF TerminalStatuses, Cancels
  <2> QED
    BY <2>2, <2>3, <2>4, <2>5, <2>6 DEF call
<1> QED
  BY <1>1, <1>6, <1>7 DEF LedgerCall

LEMMA RunCallKeeps ==
    ASSUME EventsInv, NEW o \in Orders, RunCall(o)
    PROVE  EventsInv'
<1>1. /\ calls[o] # <<>>
      /\ calls' = [calls EXCEPT ![o] = Tail(calls[o])]
      /\ updates' = [updates EXCEPT ![o] = updates[o] \o out']
      /\ UNCHANGED <<broker, late>> /\ UNCHANGED <<wire, ibPosition>>
      /\ UNCHANGED <<shown, verifying>>
  BY Zenon DEF RunCall, brokerVars, wrapperVars
<1>2. Types /\ Local(o) /\ calls[o] \in Seq(Calls)
  BY DEF EventsInv, Types
<1>3. /\ LedgerTypeOK'
      /\ \/ Quiet \/ Progress(o)
         \/ Ended(o) /\ Head(calls[o]) # PendingCall
  BY CallEffect
<1>4. /\ Tail(calls[o]) \in Seq(Calls) /\ Len(Tail(calls[o])) = Len(calls[o]) - 1
      /\ Len(calls[o]) \in Nat /\ Len(calls[o]) >= 1 /\ Head(calls[o]) = calls[o][1]
      /\ \A i \in 1 .. Len(Tail(calls[o])) :
            i + 1 \in 1 .. Len(calls[o]) /\ Tail(calls[o])[i] = calls[o][i + 1]
  BY <1>1, <1>2
<1>5. calls' \in [Orders -> Seq(Calls)] /\ calls'[o] = Tail(calls[o])
  BY <1>1, <1>2, <1>4 DEF Types
<1>6. updates' \in [Orders -> Seq(Event)]
  BY <1>1, <1>2, <1>3 DEF Types, LedgerTypeOK
<1>7. Types'
  BY <1>1, <1>2, <1>3, <1>5, <1>6 DEF Types
<1>8. Unplaced(o)'
  BY <1>1, <1>2 DEF Local, Unplaced
<1>9. Unaccepted(o)'
  BY <1>1, <1>2, <1>4, <1>5 DEF Local, Unaccepted
<1>10. ASSUME broker[o] \in {"sent", "inactive"}, o \in tracked, calls[o][1] # RefusalCall
       PROVE  o \in tracked'
  <2>1. calls[o][1] = PendingCall
    BY <1>2, <1>4, <1>10 DEF Local, Unaccepted
  <2> QED
    BY <1>3, <1>4, <1>10, <2>1 DEF Quiet, Progress
<1>11. RefusedOnce(o)'
  <2>1. ASSUME broker[o] = "sent" PROVE o \in tracked'
    BY <1>2, <1>4, <1>10, <2>1 DEF Local, RefusedOnce
  <2>2. ASSUME NEW i \in 1 .. Len(wire[o]), wire[o][i] = Refusal
        PROVE  /\ broker[o] = "inactive" /\ o \in tracked' /\ i = Len(wire[o])
               /\ \A j \in 1 .. Len(calls'[o]) : calls'[o][j] # RefusalCall
    <3>1. /\ broker[o] = "inactive" /\ o \in tracked /\ i = Len(wire[o])
          /\ \A j \in 1 .. Len(calls[o]) : calls[o][j] # RefusalCall
      BY <1>2, <2>2 DEF Local, RefusedOnce
    <3>2. o \in tracked'
      BY <1>4, <1>10, <3>1
    <3> QED
      BY <1>4, <1>5, <3>1, <3>2
  <2>3. ASSUME NEW i \in 1 .. Len(calls'[o]), calls'[o][i] = RefusalCall
        PROVE  /\ broker[o] = "inactive" /\ o \in tracked'
               /\ \A j \in 1 .. Len(calls'[o]) : calls'[o][j] = RefusalCall => j = i
    <3>1. i \in Nat /\ i >= 1 /\ i + 1 \in 1 .. Len(calls[o]) /\ calls[o][i + 1] = RefusalCall
      BY <1>4, <1>5, <2>3
    <3>2. /\ broker[o] = "inactive" /\ o \in tracked
          /\ \A j \in 1 .. Len(calls[o]) : calls[o][j] = RefusalCall => j = i + 1
      BY <1>2, <3>1 DEF Local, RefusedOnce
    <3>3. calls[o][1] # RefusalCall
      BY <1>4, <3>1, <3>2
    <3>4. o \in tracked'
      BY <1>10, <3>2, <3>3
    <3>5. \A j \in 1 .. Len(calls'[o]) : calls'[o][j] = RefusalCall => j = i
      BY <1>4, <1>5, <3>1, <3>2
    <3> QED
      BY <3>2, <3>4, <3>5
  <2> QED
    BY <1>1, <2>1, <2>2, <2>3 DEF RefusedOnce
<1>12. ASSUME NEW p \in Orders, p # o PROVE Local(p)'
  <2>1. calls'[p] = calls[p]
    BY <1>1, <1>2, <1>12 DEF Types
  <2>2. (p \in tracked' <=> p \in tracked) /\ (p \in evicted' => p \in evicted)
    BY <1>3, <1>12 DEF Quiet, Progress, Ended
  <2>3. Same(p)
    BY <1>1, <2>1, <2>2 DEF Same
  <2> QED
    BY <2>3, Frame DEF EventsInv
<1> QED
  BY <1>7, <1>8, <1>9, <1>11, <1>12 DEF EventsInv, Local

LEMMA WatchdogKeeps ==
    ASSUME EventsInv, NEW old \in SUBSET tracked, Watchdog(old)
    PROVE  EventsInv' /\ out' = <<>> /\ evicted' = {} /\ UNCHANGED updates
<1>1. /\ CheckStuck(old)
      /\ UNCHANGED <<broker, late>> /\ UNCHANGED <<wire, ibPosition>>
      /\ UNCHANGED <<shown, verifying>> /\ UNCHANGED <<calls, updates>>
  BY Zenon DEF Watchdog, brokerVars, wrapperVars, relayVars
<1>2. LedgerTypeOK' /\ Quiet /\ evicted' = {}
  BY <1>1, CheckStuckEffect DEF EventsInv, Types
<1>3. Types'
  BY <1>1, <1>2 DEF EventsInv, Types
<1>4. ASSUME NEW p \in Orders PROVE Local(p)'
  <2>1. Same(p)
    BY <1>1, <1>2 DEF Same, Quiet
  <2> QED
    BY <2>1, Frame DEF EventsInv
<1> QED
  BY <1>1, <1>2, <1>3, <1>4 DEF EventsInv, Quiet

-----------------------------------------------------------------------------
(* The steps of the client that do not call the ledger.                    *)

(* A step about one order that IB has heard of.  What it has to show: the  *)
(* types, and that the invariant's part of this order survives.            *)
LEMMA Elsewhere ==
    ASSUME EventsInv, NEW o \in Orders,
           UNCHANGED <<tracked, entry, evicted, out, broker, ibPosition>>,
           \E x \in Seq(Sent) : wire' = [wire EXCEPT ![o] = x],
           \E x \in Nat : late' = [late EXCEPT ![o] = x],
           \E x \in Nat : verifying' = [verifying EXCEPT ![o] = x],
           \E x \in Statuses : shown' = [shown EXCEPT ![o] = x],
           \E x \in Seq(Calls) : calls' = [calls EXCEPT ![o] = x],
           \E x \in Seq(Event) : updates' = [updates EXCEPT ![o] = x],
           Local(o)'
    PROVE  EventsInv'
<1>1. Types
  BY DEF EventsInv
<1>2. Types'
  <2>1. LedgerTypeOK'
    BY <1>1 DEF Types, LedgerTypeOK
  <2>2. wire' \in [Orders -> Seq(Sent)] /\ calls' \in [Orders -> Seq(Calls)]
    BY <1>1 DEF Types
  <2>3. late' \in [Orders -> Nat] /\ verifying' \in [Orders -> Nat]
    BY <1>1 DEF Types
  <2>4. shown' \in [Orders -> Statuses] /\ updates' \in [Orders -> Seq(Event)]
    BY <1>1 DEF Types
  <2> QED
    BY <1>1, <2>1, <2>2, <2>3, <2>4 DEF Types
<1>3. ASSUME NEW p \in Orders, p # o PROVE Local(p)'
  <2>1. wire'[p] = wire[p] /\ calls'[p] = calls[p]
    BY <1>1, <1>3 DEF Types
  <2>2. late'[p] = late[p] /\ verifying'[p] = verifying[p]
    BY <1>1, <1>3 DEF Types
  <2>3. Same(p)
    BY <2>1, <2>2 DEF Same
  <2> QED
    BY <2>3, Frame DEF EventsInv
<1> QED
  BY <1>2, <1>3 DEF EventsInv

(* What stays as it is has changed to what it was.                         *)
LEMMA Kept ==
    ASSUME Types, NEW o \in Orders
    PROVE  /\ wire[o] \in Seq(Sent) /\ wire = [wire EXCEPT ![o] = wire[o]]
           /\ late[o] \in Nat /\ late = [late EXCEPT ![o] = late[o]]
           /\ verifying[o] \in Nat /\ verifying = [verifying EXCEPT ![o] = verifying[o]]
           /\ shown[o] \in Statuses /\ shown = [shown EXCEPT ![o] = shown[o]]
           /\ calls[o] \in Seq(Calls) /\ calls = [calls EXCEPT ![o] = calls[o]]
           /\ updates[o] \in Seq(Event) /\ updates = [updates EXCEPT ![o] = updates[o]]
BY DEF Types

(* An order that IB has accepted hears of no refusal.                      *)
LEMMA NoRefusal ==
    ASSUME NEW o \in Orders, Local(o), broker[o] # "inactive"
    PROVE  /\ \A i \in 1 .. Len(wire[o]) : wire[o][i] # Refusal
           /\ \A i \in 1 .. Len(calls[o]) : calls[o][i] # RefusalCall
BY DEF Local, RefusedOnce

LEMMA Accepted ==
    ASSUME NEW o \in Orders, broker[o] \notin {"none", "sent", "inactive"},
           broker' = broker,
           \A i \in 1 .. Len(wire'[o]) : wire'[o][i] # Refusal,
           \A i \in 1 .. Len(calls'[o]) : calls'[o][i] # RefusalCall
    PROVE  Local(o)'
BY DEF Local, Unplaced, Unaccepted, RefusedOnce

LEMMA AskCancelKeeps ==
    ASSUME EventsInv, NEW o \in Orders, AskCancel(o)
    PROVE  EventsInv'
<1>1. /\ broker[o] # "none"
      /\ shown' = [shown EXCEPT ![o] = "PendingCancel"]
      /\ calls' = [calls EXCEPT ![o] = Append(calls[o], PendingCall)]
      /\ UNCHANGED <<tracked, entry, evicted, out, broker, ibPosition>>
      /\ UNCHANGED <<late, wire, verifying, updates>>
  BY Zenon DEF AskCancel, Schedule, PendingCall, ledgerVars, relayVars
<1>2. Types /\ Local(o) /\ calls[o] \in Seq(Calls)
  BY DEF EventsInv, Types
<1>3. "PendingCancel" \in Statuses /\ "PendingCancel" # "Inactive"
  BY DEF Statuses
<1>4. PendingCall \in Calls /\ PendingCall # RefusalCall
  BY <1>3, MessageTypes, Distinct DEF PendingCall
<1>5. /\ Append(calls[o], PendingCall) \in Seq(Calls)
      /\ Len(calls[o]) \in Nat
      /\ Len(Append(calls[o], PendingCall)) = Len(calls[o]) + 1
      /\ \A i \in 1 .. Len(calls[o]) : Append(calls[o], PendingCall)[i] = calls[o][i]
      /\ Append(calls[o], PendingCall)[Len(calls[o]) + 1] = PendingCall
  BY <1>2, <1>4
<1>6. calls'[o] = Append(calls[o], PendingCall)
  BY <1>1, <1>2 DEF Types
<1>7. /\ \A i \in 1 .. Len(calls'[o]) : \/ i \in 1 .. Len(calls[o]) /\ calls'[o][i] = calls[o][i]
                                        \/ calls'[o][i] = PendingCall
      /\ \A i \in 1 .. Len(calls[o]) : i \in 1 .. Len(calls'[o]) /\ calls'[o][i] = calls[o][i]
  BY <1>5, <1>6
<1>8. Local(o)'
  <2>1. Unplaced(o)'
    BY <1>1 DEF Unplaced
  <2>2. Unaccepted(o)'
    BY <1>1, <1>2, <1>7 DEF Local, Unaccepted
  <2>3. RefusedOnce(o)'
    BY <1>1, <1>2, <1>4, <1>7 DEF Local, RefusedOnce
  <2> QED
    BY <2>1, <2>2, <2>3 DEF Local
<1> QED
  BY <1>1, <1>2, <1>3, <1>5, <1>8, Kept, Elsewhere

LEMMA DeliverLateKeeps ==
    ASSUME EventsInv, NEW o \in Orders, DeliverLate(o)
    PROVE  EventsInv'
<1>1. /\ late[o] > 0
      /\ late' = [late EXCEPT ![o] = late[o] - 1]
      /\ calls' = [calls EXCEPT ![o] = Append(calls[o], FillCall)]
      /\ UNCHANGED <<tracked, entry, evicted, out, broker, ibPosition>>
      /\ UNCHANGED <<wire, verifying, shown, updates>>
  BY Zenon DEF DeliverLate, Schedule, ledgerVars, wrapperVars, relayVars
<1>2. Types /\ Local(o) /\ calls[o] \in Seq(Calls) /\ late[o] - 1 \in Nat
  BY <1>1 DEF EventsInv, Types
<1>3. FillCall \in Calls /\ FillCall # RefusalCall
  BY MessageTypes, Distinct
<1>4. broker[o] \notin {"none", "sent", "inactive"}
  BY <1>1, <1>2 DEF Local, Unplaced, Unaccepted
<1>5. calls'[o] = Append(calls[o], FillCall) /\ wire'[o] = wire[o]
  BY <1>1, <1>2 DEF Types
<1>6. Append(calls[o], FillCall) \in Seq(Calls)
  BY <1>2, <1>3
<1>7. \A i \in 1 .. Len(calls'[o]) : calls'[o][i] # RefusalCall
  BY <1>2, <1>3, <1>4, <1>5, NoRefusal
<1>8. Local(o)'
  BY <1>1, <1>2, <1>4, <1>5, <1>7, NoRefusal, Accepted
<1> QED
  BY <1>1, <1>2, <1>6, <1>8, Kept, Elsewhere

LEMMA AskOpenOrdersKeeps ==
    ASSUME EventsInv, NEW o \in Orders, AskOpenOrders(o)
    PROVE  EventsInv'
<1> DEFINE msg == OpenOrdersMsg(o \in OpenAtBroker)
<1>1. /\ verifying[o] > 0
      /\ verifying' = [verifying EXCEPT ![o] = verifying[o] - 1]
      /\ wire' = [wire EXCEPT ![o] = wire[o] \o <<msg>>] \/ wire' = wire
      /\ UNCHANGED <<tracked, entry, evicted, out, broker, ibPosition>>
      /\ UNCHANGED <<late, shown, calls, updates>>
  BY Zenon DEF AskOpenOrders, Send, ledgerVars, brokerVars, relayVars
<1>2. Types /\ Local(o) /\ wire[o] \in Seq(Sent) /\ verifying[o] - 1 \in Nat
  BY <1>1 DEF EventsInv, Types
<1>3. msg \in Sent /\ msg # Refusal
  <2>1. (o \in OpenAtBroker) \in BOOLEAN
    OBVIOUS
  <2> QED
    BY <2>1, MessageTypes, Distinct
<1> HIDE DEF msg
<1>4. broker[o] \notin {"none", "sent", "inactive"}
  BY <1>1, <1>2 DEF Local, Unplaced, Unaccepted
<1>5. /\ wire[o] \o <<msg>> \in Seq(Sent)
      /\ \A i \in 1 .. Len(wire[o] \o <<msg>>) : (wire[o] \o <<msg>>)[i] # Refusal
  BY <1>2, <1>3, <1>4, NoRefusal
<1>6. /\ \E x \in Seq(Sent) : wire' = [wire EXCEPT ![o] = x]
      /\ wire'[o] = wire[o] \o <<msg>> \/ wire'[o] = wire[o]
  BY <1>1, <1>2, <1>5, Kept DEF Types
<1>7. \A i \in 1 .. Len(wire'[o]) : wire'[o][i] # Refusal
  BY <1>2, <1>4, <1>5, <1>6, NoRefusal
<1>8. Local(o)'
  BY <1>1, <1>2, <1>4, <1>7, NoRefusal, Accepted
<1> QED
  BY <1>1, <1>2, <1>6, <1>8, Kept, Elsewhere

(* What the client does with a message: it passes it on, or starts to      *)
(* verify a cancel, or drops it.                                           *)
Heard(o, msg) ==
    \/ /\ msg.kind = "fill" /\ verifying' = verifying
       /\ calls' = [calls EXCEPT ![o] = Append(calls[o], FillCall)]
    \/ /\ msg.kind = "status" /\ msg.status \notin Cancels /\ verifying' = verifying
       /\ calls' = [calls EXCEPT ![o] = Append(calls[o], StatusCall(msg.status))]
    \/ /\ msg.kind = "status" /\ msg.status \in Cancels /\ msg.perm /\ calls' = calls
       /\ verifying' = [verifying EXCEPT ![o] = verifying[o] + 1]
    \/ /\ \/ msg.kind = "openOrders"
          \/ msg.kind = "status" /\ msg.status \in Cancels /\ ~msg.perm
       /\ verifying' = verifying /\ calls' = calls
    \/ /\ msg.kind = "openOrders" /\ ~msg.open /\ verifying' = verifying
       /\ calls' = [calls EXCEPT ![o] = Append(calls[o], StatusCall("Cancelled"))]

LEMMA DeliverEffect ==
    ASSUME EventsInv, NEW o \in Orders, Deliver(o)
    PROVE  /\ wire[o] # <<>> /\ wire' = [wire EXCEPT ![o] = Tail(wire[o])]
           /\ UNCHANGED <<tracked, entry, evicted, out, broker, ibPosition>>
           /\ UNCHANGED <<late, updates>>
           /\ \E x \in Statuses : shown' = [shown EXCEPT ![o] = x]
           /\ Heard(o, Head(wire[o]))
<1> DEFINE msg == Head(wire[o])
<1>1. Types
  BY DEF EventsInv
<1>2. /\ wire[o] # <<>> /\ wire' = [wire EXCEPT ![o] = Tail(wire[o])]
      /\ UNCHANGED <<tracked, entry, evicted, out, broker, ibPosition>>
      /\ UNCHANGED <<late, updates>>
      /\ OnExecDetails(o, msg) \/ OnOrderStatus(o, msg) \/ OnVerified(o, msg)
  BY Zenon DEF Deliver, ledgerVars, brokerVars, relayVars
<1>3. msg \in Sent
  BY <1>1, <1>2 DEF Types
<1>4. PreviousCleanStatus(o) \in Statuses /\ "Cancelled" \in Statuses
  BY <1>1, Kept DEF PreviousCleanStatus, Statuses, Preroute, TerminalStatuses, Cancels
<1> HIDE DEF msg
<1>5. ASSUME OnExecDetails(o, msg)
      PROVE  (\E x \in Statuses : shown' = [shown EXCEPT ![o] = x]) /\ Heard(o, msg)
  <2>1. /\ msg.kind = "fill" /\ shown' = shown /\ verifying' = verifying
        /\ calls' = [calls EXCEPT ![o] = Append(calls[o], FillCall)]
    BY <1>5, Zenon DEF OnExecDetails, Schedule, wrapperVars
  <2> QED
    BY <1>1, <2>1, Kept DEF Heard
<1>6. ASSUME OnOrderStatus(o, msg)
      PROVE  (\E x \in Statuses : shown' = [shown EXCEPT ![o] = x]) /\ Heard(o, msg)
  <2>1. msg.kind = "status"
    BY <1>6 DEF OnOrderStatus
  <2>2. msg.status \in Statuses /\ msg.perm \in BOOLEAN
    BY <1>3, <2>1, StatusFields
  <2>3. CASE msg.status \in Cancels /\ ~msg.perm
    <3>1. shown' = [shown EXCEPT ![o] = msg.status] /\ verifying' = verifying /\ calls' = calls
      BY <1>6, <2>3 DEF OnOrderStatus
    <3> QED
      BY <2>1, <2>2, <2>3, <3>1 DEF Heard
  <2>4. CASE msg.status \in Cancels /\ msg.perm
    <3>1. /\ shown' = [shown EXCEPT ![o] = PreviousCleanStatus(o)]
          /\ verifying' = [verifying EXCEPT ![o] = verifying[o] + 1] /\ calls' = calls
      BY <1>6, <2>4 DEF OnOrderStatus
    <3> QED
      BY <1>4, <2>1, <2>4, <3>1 DEF Heard
  <2>5. CASE msg.status \notin Cancels
    <3>1. /\ shown' = [shown EXCEPT ![o] = msg.status] /\ verifying' = verifying
          /\ calls' = [calls EXCEPT ![o] = Append(calls[o], StatusCall(msg.status))]
      BY <1>6, <2>5 DEF OnOrderStatus, Schedule
    <3> QED
      BY <2>1, <2>2, <2>5, <3>1 DEF Heard
  <2> QED
    BY <2>2, <2>3, <2>4, <2>5
<1>7. ASSUME OnVerified(o, msg)
      PROVE  (\E x \in Statuses : shown' = [shown EXCEPT ![o] = x]) /\ Heard(o, msg)
  <2>1. msg.kind = "openOrders" /\ verifying' = verifying
    BY <1>7, Zenon DEF OnVerified
  <2>2. \/ shown' = shown /\ calls' = calls
        \/ /\ ~msg.open /\ shown' = [shown EXCEPT ![o] = "Cancelled"]
           /\ calls' = [calls EXCEPT ![o] = Append(calls[o], StatusCall("Cancelled"))]
    BY <1>7, Zenon DEF OnVerified, Schedule
  <2>3. CASE shown' = shown /\ calls' = calls
    BY <1>1, <2>1, <2>3, Kept DEF Heard
  <2>4. CASE /\ ~msg.open /\ shown' = [shown EXCEPT ![o] = "Cancelled"]
             /\ calls' = [calls EXCEPT ![o] = Append(calls[o], StatusCall("Cancelled"))]
    BY <1>4, <2>1, <2>4 DEF Heard
  <2> QED
    BY <2>2, <2>3, <2>4
<1> QED
  BY <1>2, <1>5, <1>6, <1>7 DEF msg

LEMMA DeliverKeeps ==
    ASSUME EventsInv, NEW o \in Orders, Deliver(o)
    PROVE  EventsInv'
<1> DEFINE msg == Head(wire[o])
<1>1. /\ wire[o] # <<>> /\ wire' = [wire EXCEPT ![o] = Tail(wire[o])]
      /\ UNCHANGED <<tracked, entry, evicted, out, broker, ibPosition>>
      /\ UNCHANGED <<late, updates>>
      /\ \E x \in Statuses : shown' = [shown EXCEPT ![o] = x]
      /\ Heard(o, msg)
  BY DeliverEffect
<1>2. /\ Types /\ Local(o) /\ wire[o] \in Seq(Sent) /\ calls[o] \in Seq(Calls)
      /\ verifying[o] \in Nat
  BY DEF EventsInv, Types
<1>3. /\ msg \in Sent /\ msg = wire[o][1] /\ Len(wire[o]) \in Nat /\ Len(wire[o]) >= 1
      /\ Tail(wire[o]) \in Seq(Sent) /\ Len(Tail(wire[o])) = Len(wire[o]) - 1
      /\ \A i \in 1 .. Len(Tail(wire[o])) :
            i + 1 \in 1 .. Len(wire[o]) /\ Tail(wire[o])[i] = wire[o][i + 1]
  BY <1>1, <1>2
<1>4. wire'[o] = Tail(wire[o]) /\ broker[o] # "none"
  BY <1>1, <1>2 DEF Types, Local, Unplaced
<1> HIDE DEF msg
<1>5. "Cancelled" \in Statuses /\ "Cancelled" \in Cancels
  BY DEF Statuses, TerminalStatuses, Cancels
(* The call that the message schedules, if any.                            *)
<1> DEFINE Scheduled(c) ==
              /\ calls' = [calls EXCEPT ![o] = Append(calls[o], c)] /\ verifying' = verifying
              /\ c \in Calls /\ (c = RefusalCall <=> msg = Refusal)
              /\ msg # Unnumbered
<1>6. \/ \E c \in Calls : Scheduled(c)
      \/ calls' = calls /\ verifying' = verifying
      \/ calls' = calls /\ verifying' = [verifying EXCEPT ![o] = verifying[o] + 1]
            /\ msg \notin {Refusal, Unnumbered}
  <2>1. /\ Unnumbered.kind = "status" /\ Unnumbered.status = "Cancelled"
        /\ Unnumbered.perm = FALSE
        /\ Refusal.kind = "status" /\ Refusal.status = "Inactive"
    BY Zenon DEF Unnumbered, Refusal, StatusMsg
  <2>2. CASE /\ msg.kind = "fill" /\ verifying' = verifying
             /\ calls' = [calls EXCEPT ![o] = Append(calls[o], FillCall)]
    <3>1. Scheduled(FillCall)
      BY <2>1, <2>2, MessageTypes, Distinct
    <3> QED
      BY <3>1
  <2>3. CASE /\ msg.kind = "status" /\ msg.status \notin Cancels /\ verifying' = verifying
             /\ calls' = [calls EXCEPT ![o] = Append(calls[o], StatusCall(msg.status))]
    <3>1. msg.status \in Statuses /\ (msg.status = "Inactive" => msg = Refusal)
      BY <1>3, <2>3, StatusFields
    <3>2. StatusCall(msg.status) \in Calls
          /\ (StatusCall(msg.status) = RefusalCall <=> msg = Refusal)
      BY <2>1, <3>1, MessageTypes, Distinct
    <3>3. Scheduled(StatusCall(msg.status))
      BY <1>5, <2>1, <2>3, <3>2
    <3> QED
      BY <3>3
  <2>4. CASE /\ msg.kind = "status" /\ msg.status \in Cancels /\ msg.perm /\ calls' = calls
             /\ verifying' = [verifying EXCEPT ![o] = verifying[o] + 1]
    BY <2>1, <2>4 DEF Cancels
  <2>5. CASE /\ msg.kind = "openOrders" /\ verifying' = verifying
             /\ calls' = [calls EXCEPT ![o] = Append(calls[o], StatusCall("Cancelled"))]
    <3>1. StatusCall("Cancelled") \in Calls /\ StatusCall("Cancelled") # RefusalCall
      BY <1>5, MessageTypes, Distinct
    <3>2. Scheduled(StatusCall("Cancelled"))
      BY <2>1, <2>5, <3>1
    <3> QED
      BY <3>2
  <2>6. CASE verifying' = verifying /\ calls' = calls
    BY <2>6
  <2> HIDE DEF Scheduled
  <2> QED
    BY <1>1, <2>2, <2>3, <2>4, <2>5, <2>6 DEF Heard
<1>7. ASSUME NEW c \in Calls, Scheduled(c)
      PROVE  /\ Append(calls[o], c) \in Seq(Calls) /\ calls'[o] = Append(calls[o], c)
             /\ Len(calls[o]) \in Nat /\ Len(calls'[o]) = Len(calls[o]) + 1
             /\ \A i \in 1 .. Len(calls[o]) : calls'[o][i] = calls[o][i]
             /\ calls'[o][Len(calls[o]) + 1] = c
  <2>1. calls'[o] = Append(calls[o], c)
    BY <1>2, <1>7 DEF Types
  <2> QED
    BY <1>2, <2>1
<1>8. /\ \E x \in Seq(Calls) : calls' = [calls EXCEPT ![o] = x]
      /\ \E x \in Nat : verifying' = [verifying EXCEPT ![o] = x]
  <2>1. CASE \E c \in Calls : Scheduled(c)
    <3>1. PICK c \in Calls : Scheduled(c)
      BY <2>1
    <3>2. Append(calls[o], c) \in Seq(Calls)
      BY <1>7, <3>1
    <3>3. calls' = [calls EXCEPT ![o] = Append(calls[o], c)] /\ verifying' = verifying
      BY <3>1
    <3>4. verifying[o] \in Nat /\ verifying = [verifying EXCEPT ![o] = verifying[o]]
      BY <1>2, Kept
    <3> QED
      BY <3>2, <3>3, <3>4
  <2>2. CASE calls' = calls /\ verifying' = verifying
    BY <1>2, <2>2, Kept
  <2>3. CASE calls' = calls /\ verifying' = [verifying EXCEPT ![o] = verifying[o] + 1]
    <3>1. verifying[o] + 1 \in Nat
      BY <1>2
    <3> QED
      BY <1>2, <2>3, <3>1, Kept
  <2> HIDE DEF Scheduled
  <2> QED
    BY <1>6, <2>1, <2>2, <2>3
<1>9. Local(o)'
  <2>1. CASE broker[o] \notin {"sent", "inactive"}
    <3>1. /\ \A i \in 1 .. Len(wire[o]) : wire[o][i] # Refusal
          /\ \A i \in 1 .. Len(calls[o]) : calls[o][i] # RefusalCall
      BY <1>2, <2>1, NoRefusal
    <3>2. msg # Refusal
      BY <1>3, <3>1
    <3>3. \A i \in 1 .. Len(wire'[o]) : wire'[o][i] # Refusal
      BY <1>3, <1>4, <3>1
    <3>4. \A i \in 1 .. Len(calls'[o]) : calls'[o][i] # RefusalCall
      <4>1. ASSUME NEW c \in Calls, Scheduled(c)
            PROVE  \A i \in 1 .. Len(calls'[o]) : calls'[o][i] # RefusalCall
        <5>1. c # RefusalCall
          BY <3>2, <4>1
        <5> QED
          BY <1>7, <3>1, <4>1, <5>1
      <4> HIDE DEF Scheduled
      <4> QED
        BY <1>6, <3>1, <4>1
    <3> QED
      BY <1>1, <1>4, <2>1, <3>3, <3>4, Accepted
  <2>2. CASE broker[o] \in {"sent", "inactive"}
    <3>1. /\ msg \in {Unnumbered, Refusal} /\ late[o] = 0 /\ verifying[o] = 0
          /\ \A i \in 1 .. Len(wire[o]) : wire[o][i] \in {Unnumbered, Refusal}
          /\ \A i \in 1 .. Len(calls[o]) : calls[o][i] \in {PendingCall, RefusalCall}
      BY <1>2, <1>3, <2>2 DEF Local, Unaccepted
    <3>2. Unplaced(o)'
      BY <1>1, <2>2 DEF Unplaced
    <3>3. \A i \in 1 .. Len(wire'[o]) : wire'[o][i] \in {Unnumbered, Refusal}
      BY <1>3, <1>4, <3>1
    <3>4. CASE \E c \in Calls : Scheduled(c)
      <4>1. PICK c \in Calls : Scheduled(c)
        BY <3>4
      <4>2. msg = Refusal /\ verifying' = verifying
        BY <3>1, <4>1
      <4>3. /\ broker[o] = "inactive" /\ o \in tracked /\ Len(wire[o]) = 1
            /\ \A j \in 1 .. Len(calls[o]) : calls[o][j] # RefusalCall
        <5>1. 1 \in 1 .. Len(wire[o]) /\ wire[o][1] = Refusal /\ RefusedOnce(o)
          BY <1>2, <1>3, <4>2 DEF Local
        <5> QED
          BY <5>1 DEF RefusedOnce
      <4>4. c = RefusalCall
        BY <4>1, <4>2
      <4>5. Len(wire'[o]) = 0
        BY <1>3, <1>4, <4>3
      <4>6. Unaccepted(o)'
        BY <1>1, <1>7, <3>1, <3>3, <4>1, <4>2, <4>4 DEF Unaccepted
      <4>7. RefusedOnce(o)'
        <5>1. \A i \in 1 .. Len(calls'[o]) :
                  calls'[o][i] = RefusalCall => i = Len(calls[o]) + 1
          <6>1. /\ Len(calls[o]) \in Nat /\ Len(calls'[o]) = Len(calls[o]) + 1
                /\ \A i \in 1 .. Len(calls[o]) : calls'[o][i] = calls[o][i]
            BY <1>7, <4>1
          <6> HIDE DEF Scheduled
          <6> QED
            BY <4>3, <6>1
        <5>2. broker' = broker /\ o \in tracked'
          BY <1>1, <4>3
        <5>3. \A i \in 1 .. Len(wire'[o]) : FALSE
          BY <4>5
        <5> HIDE DEF Scheduled
        <5> QED
          BY <4>3, <5>1, <5>2, <5>3 DEF RefusedOnce
      <4> QED
        BY <3>2, <4>6, <4>7 DEF Local
    <3>5. CASE ~\E c \in Calls : Scheduled(c)
      <4>1. calls' = calls
        BY <1>6, <3>5
      <4>2. verifying' = verifying
        BY <1>6, <3>1, <3>5
      <4> HIDE DEF Scheduled
      <4>3. Unaccepted(o)'
        BY <1>1, <3>1, <3>3, <4>1, <4>2 DEF Unaccepted
      <4>4. \A i \in 1 .. Len(wire'[o]) : wire'[o][i] = Refusal =>
                /\ broker[o] = "inactive" /\ o \in tracked /\ i = Len(wire'[o])
                /\ \A j \in 1 .. Len(calls[o]) : calls[o][j] # RefusalCall
        BY <1>2, <1>3, <1>4 DEF Local, RefusedOnce
      <4>5. RefusedOnce(o)'
        BY <1>1, <1>2, <4>1, <4>4 DEF Local, RefusedOnce
      <4> QED
        BY <3>2, <4>3, <4>5 DEF Local
    <3> QED
      BY <3>4, <3>5
  <2> QED
    BY <2>1, <2>2
<1> HIDE DEF Scheduled
<1>10. \E x \in Seq(Sent) : wire' = [wire EXCEPT ![o] = x]
  BY <1>1, <1>3
<1>11. /\ \E x \in Nat : late' = [late EXCEPT ![o] = x]
       /\ \E x \in Seq(Event) : updates' = [updates EXCEPT ![o] = x]
  BY <1>1, <1>2, Kept
<1> QED
  BY <1>1, <1>8, <1>9, <1>10, <1>11, Elsewhere

-----------------------------------------------------------------------------
(* The steps that concern neither an order's messages nor the ledger.      *)
LEMMA AsideKeeps ==
    ASSUME EventsInv,
           UNCHANGED <<tracked, entry, evicted, out, broker, wire, late, shown, verifying, calls>>,
           ibPosition' \in Positions,
           updates' \in [Orders -> Seq(Event)]
    PROVE  EventsInv'
<1>1. Types'
  BY DEF EventsInv, Types, LedgerTypeOK
<1>2. ASSUME NEW p \in Orders PROVE Local(p)'
  <2>1. Same(p)
    BY DEF Same
  <2> QED
    BY <2>1, Frame DEF EventsInv
<1> QED
  BY <1>1, <1>2 DEF EventsInv

(* _relay_register's event on the stream.                                  *)
LEMMA RegistrationEvent ==
    ASSUME NEW o \in Orders
    PROVE  LET ev == [id |-> o, terminal |-> FALSE, status |-> "Submitted",
                      filled |-> 0, target |-> Size[o]]
           IN  ev \in Event /\ ev.terminal = FALSE
<1>1. Size[o] \in Nat
  BY LedgerAssumption DEF LedgerAssumption
<1>2. "Submitted" \in Statuses
  BY DEF Statuses, Preroute
<1> QED
  BY <1>1, <1>2 DEF Event

LEMMA RelayRegisterKeeps ==
    ASSUME EventsInv, NEW o \in Orders, RelayRegister(o)
    PROVE  /\ EventsInv' /\ UNCHANGED ledgerVars
           /\ \/ updates' = updates
              \/ \E ev \in Event : /\ ev.terminal = FALSE
                                   /\ updates' = [updates EXCEPT ![o] = Append(updates[o], ev)]
<1> DEFINE ev == [id |-> o, terminal |-> FALSE, status |-> "Submitted",
                  filled |-> 0, target |-> Size[o]]
<1>1. /\ UNCHANGED <<tracked, entry, evicted, out>>
      /\ UNCHANGED <<broker, wire, late, shown, verifying, calls, ibPosition>>
      /\ updates' = updates \/ updates' = [updates EXCEPT ![o] = Append(updates[o], ev)]
  BY Zenon DEF RelayRegister, ledgerVars, brokerVars, wrapperVars
<1>2. ev \in Event /\ ev.terminal = FALSE
  BY RegistrationEvent
<1> HIDE DEF ev
<1>3. updates \in [Orders -> Seq(Event)] /\ ibPosition \in Positions /\ updates[o] \in Seq(Event)
  BY DEF EventsInv, Types
<1>4. Append(updates[o], ev) \in Seq(Event)
  BY <1>2, <1>3
<1>5. updates' \in [Orders -> Seq(Event)]
  BY <1>1, <1>3, <1>4
<1>6. EventsInv'
  BY <1>1, <1>3, <1>5, AsideKeeps
<1> QED
  BY <1>1, <1>2, <1>6 DEF ledgerVars

-----------------------------------------------------------------------------
(* Every step keeps the invariant.                                         *)
LEMMA EventsStart == Init => EventsInv
<1> SUFFICES ASSUME Init PROVE EventsInv
  OBVIOUS
<1>1. LedgerTypeOK
  BY LedgerStart DEF Init, LedgerInv
<1>2. tracked = {} /\ evicted = {}
  BY DEF Init, LedgerInit
<1>3. "PendingSubmit" \in Statuses
  BY DEF Statuses, Preroute
<1>4. /\ broker = [o \in Orders |-> "none"] /\ late = [o \in Orders |-> 0]
      /\ wire = [o \in Orders |-> <<>>] /\ calls = [o \in Orders |-> <<>>]
      /\ verifying = [o \in Orders |-> 0] /\ updates = [o \in Orders |-> <<>>]
      /\ shown = [o \in Orders |-> "PendingSubmit"] /\ ibPosition = 0
  BY DEF Init
<1>5. Types
  BY <1>1, <1>3, <1>4, EventsAssumption DEF Types, EventsAssumption
<1>6. ASSUME NEW o \in Orders PROVE Local(o)
  <2>1. /\ broker[o] = "none" /\ late[o] = 0 /\ wire[o] = <<>> /\ calls[o] = <<>>
        /\ verifying[o] = 0 /\ o \notin tracked /\ o \notin evicted
    BY <1>2, <1>4
  <2> QED
    BY <2>1 DEF Local, Unplaced, Unaccepted, RefusedOnce
<1> QED
  BY <1>5, <1>6 DEF EventsInv

(* The steps that leave the ledger and the stream alone.                   *)
Away ==
    /\ UNCHANGED ledgerVars
    /\ \/ updates' = updates
       \/ \E o \in Orders, ev \in Event :
             ev.terminal = FALSE /\ updates' = [updates EXCEPT ![o] = Append(updates[o], ev)]

LEMMA EventsStep ==
    ASSUME EventsInv, Next
    PROVE  /\ EventsInv'
           /\ \/ Away
              \/ \E o \in Orders : Place(o) \/ RunCall(o)
              \/ \E old \in SUBSET tracked : Watchdog(old)
<1>1. CASE BrokerStep
  <2>1. UNCHANGED <<ledgerVars, updates>>
    BY <1>1, Zenon DEF BrokerStep, relayVars
  <2> QED
    BY <1>1, <2>1, BrokerStepKeeps DEF Away
<1>2. ASSUME UNCHANGED <<tracked, entry, evicted, out, broker, wire, late, shown, verifying, calls>>,
             UNCHANGED updates, ibPosition' \in Positions
      PROVE  EventsInv' /\ Away
  <2>1. updates' \in [Orders -> Seq(Event)]
    BY <1>2 DEF EventsInv, Types
  <2>2. EventsInv'
    BY <1>2, <2>1, AsideKeeps
  <2> QED
    BY <1>2, <2>2 DEF Away, ledgerVars
<1>3. ibPosition \in Positions
  BY DEF EventsInv, Types
<1>4. CASE ForeignTrade
  <2>1. /\ UNCHANGED <<tracked, entry, evicted, out, broker, wire, late, shown, verifying, calls>>
        /\ UNCHANGED updates /\ ibPosition' = ibPosition
    BY <1>4, Zenon DEF ForeignTrade, ledgerVars, wrapperVars, relayVars
  <2> QED
    BY <1>2, <1>3, <2>1
<1>5. CASE PositionEvent
  <2>1. /\ UNCHANGED <<tracked, entry, evicted, out, broker, wire, late, shown, verifying, calls>>
        /\ UNCHANGED updates /\ ibPosition' \in Positions
    BY <1>5, Zenon DEF PositionEvent, ledgerVars, brokerVars, wrapperVars, relayVars
  <2> QED
    BY <1>2, <2>1
<1>6. ASSUME NEW o \in Orders, Client(o)
      PROVE  EventsInv' /\ (Away \/ Place(o) \/ RunCall(o))
  <2>1. CASE Place(o)
    BY <2>1, PlaceKeeps
  <2>2. CASE AskCancel(o)
    <3>1. UNCHANGED <<ledgerVars, updates>>
      BY <2>2, Zenon DEF AskCancel, relayVars
    <3> QED
      BY <2>2, <3>1, AskCancelKeeps DEF Away
  <2>3. CASE Deliver(o)
    <3>1. UNCHANGED <<ledgerVars, updates>>
      BY <2>3, Zenon DEF Deliver, relayVars
    <3> QED
      BY <2>3, <3>1, DeliverKeeps DEF Away
  <2>4. CASE DeliverLate(o)
    <3>1. UNCHANGED <<ledgerVars, updates>>
      BY <2>4, Zenon DEF DeliverLate, relayVars
    <3> QED
      BY <2>4, <3>1, DeliverLateKeeps DEF Away
  <2>5. CASE AskOpenOrders(o)
    <3>1. UNCHANGED <<ledgerVars, updates>>
      BY <2>5, Zenon DEF AskOpenOrders, relayVars
    <3> QED
      BY <2>5, <3>1, AskOpenOrdersKeeps DEF Away
  <2>6. CASE RunCall(o)
    BY <2>6, RunCallKeeps
  <2>7. CASE UpdateOrdersOpen(o)
    <3>1. /\ UNCHANGED <<tracked, entry, evicted, out, broker, wire, late, shown, verifying, calls>>
          /\ UNCHANGED updates /\ ibPosition' = ibPosition
      BY <2>7, Zenon DEF UpdateOrdersOpen, ledgerVars, brokerVars, wrapperVars
    <3> QED
      BY <1>2, <1>3, <3>1
  <2>8. CASE RelayRegister(o)
    BY <2>8, RelayRegisterKeeps DEF Away
  <2> QED
    BY <1>6, <2>1, <2>2, <2>3, <2>4, <2>5, <2>6, <2>7, <2>8 DEF Client
<1>7. ASSUME NEW old \in SUBSET tracked, Watchdog(old)
      PROVE  EventsInv'
  BY <1>7, WatchdogKeeps
<1>8. CASE SweepSnapshot
  <2>1. /\ UNCHANGED <<tracked, entry, evicted, out, broker, wire, late, shown, verifying, calls>>
        /\ UNCHANGED updates /\ ibPosition' = ibPosition
    BY <1>8, Zenon DEF SweepSnapshot, ledgerVars, brokerVars, wrapperVars, relayVars
  <2> QED
    BY <1>2, <1>3, <2>1
<1>9. CASE SweepApply
  <2>1. /\ UNCHANGED <<tracked, entry, evicted, out, broker, wire, late, shown, verifying, calls>>
        /\ UNCHANGED updates /\ ibPosition' = ibPosition
    BY <1>9, Zenon DEF SweepApply, ledgerVars, brokerVars, wrapperVars
  <2> QED
    BY <1>2, <1>3, <2>1
<1> QED
  BY <1>1, <1>4, <1>5, <1>6, <1>7, <1>8, <1>9 DEF Next

LEMMA EventsStutter == EventsInv /\ UNCHANGED vars => EventsInv'
<1> SUFFICES ASSUME EventsInv, UNCHANGED vars PROVE EventsInv'
  OBVIOUS
<1>1. /\ UNCHANGED <<tracked, entry, evicted, out, broker, wire, late, shown, verifying, calls>>
      /\ UNCHANGED <<updates, ibPosition>>
  BY Zenon DEF vars, ledgerVars, brokerVars, wrapperVars, relayVars
<1>2. updates \in [Orders -> Seq(Event)] /\ ibPosition \in Positions
  BY DEF EventsInv, Types
<1> QED
  BY <1>1, <1>2, AsideKeeps

(* The invariant behind both refinements.                                  *)
THEOREM EventsInvariant == Spec => []EventsInv
<1>1. EventsInv /\ [Next]_vars => EventsInv'
  BY EventsStep, EventsStutter
<1> QED
  BY <1>1, EventsStart, PTL DEF Spec

-----------------------------------------------------------------------------
(* The refinements.                                                        *)

LEMMA LedgerStep ==
    ASSUME EventsInv, [Next]_vars
    PROVE  LedgerNext \/ UNCHANGED ledgerVars
<1>1. CASE UNCHANGED vars
  BY <1>1, Zenon DEF vars
<1>2. CASE Next
  <2>1. ASSUME NEW o \in Orders, Place(o) PROVE LedgerNext
    BY <2>1, PlaceRegisters DEF LedgerNext
  <2>2. ASSUME NEW o \in Orders, RunCall(o) PROVE LedgerNext
    BY <2>2, CallEffect DEF LedgerNext
  <2>3. ASSUME NEW old \in SUBSET tracked, Watchdog(old) PROVE LedgerNext
    BY <2>3 DEF Watchdog, DoCheckStuck, LedgerNext
  <2> QED
    BY <1>2, <2>1, <2>2, <2>3, EventsStep DEF Away
<1> QED
  BY <1>1, <1>2

(* Whatever the broker, the gate and the relay do, the ledger is called    *)
(* only as OrderLedger allows: an order is registered once, under an id    *)
(* that is neither a phantom's nor remembered as evicted, and a callback   *)
(* passes the metadata of the order's own trade.                           *)
THEOREM LedgerIsKept == Spec => KeepsLedger
<1>1. Init => LedgerInit
  BY DEF Init
<1>2. EventsInv /\ [Next]_vars => [UNCHANGED ledgerVars \/ LedgerNext]_ledgerVars
  BY LedgerStep
<1> QED
  BY <1>1, <1>2, EventsInvariant, PTL DEF Spec, KeepsLedger

(* So what the ledger promises of any sequence of calls holds in the       *)
(* engine: no order is both live and evicted, an evicted one is silent, a  *)
(* terminal ends its order and credits at least its fills, none invents a  *)
(* fill, and one cancel ends no working order.                             *)
THEOREM LedgerPromises ==
    Spec => /\ []LiveOrEvicted
            /\ SilentOnceEvicted
            /\ TerminalIsSound
            /\ NoFillFromNothing
            /\ OneCancelIsHeld
<1>1. (UNCHANGED ledgerVars \/ LedgerNext) => [LedgerNext]_ledgerVars
  OBVIOUS
<1>2. KeepsLedger => LedgerSpec
  BY <1>1, PTL DEF KeepsLedger, LedgerSpec
<1> QED
  BY <1>2, LedgerIsKept, LedgerInvariant, Silence, SoundTerminals, NothingInvented,
     CancelsAreHeld, PTL

(* How many terminal events a stream holds.                                *)
Ends(s) == {i \in 1 .. Len(s) : s[i].terminal}

LEMMA EndsGrow ==
    ASSUME NEW s \in Seq(Event), NEW ev \in Event
    PROVE  /\ Cardinality(Ends(s)) \in Nat
           /\ ev.terminal = FALSE => Cardinality(Ends(Append(s, ev))) = Cardinality(Ends(s))
           /\ ev.terminal = TRUE => Cardinality(Ends(Append(s, ev))) = Cardinality(Ends(s)) + 1
<1> DEFINE t == Append(s, ev)
<1>1. /\ Len(s) \in Nat /\ Len(t) = Len(s) + 1 /\ t[Len(s) + 1] = ev
      /\ \A i \in 1 .. Len(s) : t[i] = s[i]
  OBVIOUS
<1>2. IsFiniteSet(Ends(s)) /\ Cardinality(Ends(s)) \in Nat
  <2>1. IsFiniteSet(1 .. Len(s))
    BY <1>1, FS_Interval
  <2>2. IsFiniteSet(Ends(s))
    BY <2>1, FS_Subset DEF Ends
  <2> QED
    BY <2>2, FS_CardinalityType
<1> HIDE DEF t
<1>3. ASSUME ev.terminal = FALSE PROVE Ends(t) = Ends(s)
  BY <1>1, <1>3 DEF Ends
<1>4. ASSUME ev.terminal = TRUE
      PROVE  Ends(t) = Ends(s) \cup {Len(s) + 1} /\ Len(s) + 1 \notin Ends(s)
  BY <1>1, <1>4 DEF Ends
<1>5. ASSUME ev.terminal = TRUE PROVE Cardinality(Ends(t)) = Cardinality(Ends(s)) + 1
  BY <1>2, <1>4, <1>5, FS_AddElement
<1> QED
  BY <1>2, <1>3, <1>5 DEF t

EndsOf == [o \in Orders |-> Cardinality(Terminals(o))]

(* The stream of one order grows by an event or stays.                     *)
LEMMA EndsChange ==
    ASSUME EventsInv, NEW o \in Orders, NEW ev \in Event,
           updates' = [updates EXCEPT ![o] = Append(updates[o], ev)]
    PROVE  /\ ev.terminal = FALSE => EndsOf' = EndsOf
           /\ ev.terminal = TRUE => EndsOf' = [EndsOf EXCEPT ![o] = EndsOf[o] + 1]
<1>1. updates \in [Orders -> Seq(Event)] /\ updates[o] \in Seq(Event)
  BY DEF EventsInv, Types
<1>2. /\ updates'[o] = Append(updates[o], ev)
      /\ \A p \in Orders : p # o => updates'[p] = updates[p]
  BY <1>1
<1>3. \A p \in Orders : EndsOf[p] = Cardinality(Ends(updates[p]))
  BY DEF EndsOf, Terminals, Ends
<1>4. \A p \in Orders : EndsOf'[p] = Cardinality(Ends(updates'[p]))
  BY DEF EndsOf, Terminals, Ends
<1>5. /\ ev.terminal = FALSE => EndsOf'[o] = EndsOf[o]
      /\ ev.terminal = TRUE => EndsOf'[o] = EndsOf[o] + 1
  <2>1. /\ Cardinality(Ends(updates[o])) = EndsOf[o]
        /\ Cardinality(Ends(Append(updates[o], ev))) = EndsOf'[o]
    BY <1>2, <1>3, <1>4
  <2> HIDE DEF EndsOf
  <2> QED
    BY <1>1, <2>1, EndsGrow
<1>6. \A p \in Orders : p # o => EndsOf'[p] = EndsOf[p]
  BY <1>2, <1>3, <1>4
<1>7. /\ EndsOf = [p \in Orders |-> EndsOf[p]]
      /\ EndsOf' = [p \in Orders |-> EndsOf'[p]]
  BY DEF EndsOf
<1> HIDE DEF EndsOf
<1> QED
  BY <1>5, <1>6, <1>7

LEMMA OutcomeStep ==
    ASSUME EventsInv, [Next]_vars
    PROVE  [Outcome!OutcomeNext]_Outcome!outcomeVars
<1> SUFFICES \/ evicted' = {} /\ EndsOf' = EndsOf
             \/ evicted' = evicted /\ EndsOf' = EndsOf
             \/ \E o \in Orders : /\ o \notin evicted /\ evicted' = evicted \cup {o}
                                  /\ EndsOf' = [EndsOf EXCEPT ![o] = EndsOf[o] + 1]
  BY DEF Outcome!OutcomeNext, Outcome!outcomeVars, Outcome!Forget, Outcome!Announce, EndsOf
<1>1. ASSUME updates' = updates PROVE EndsOf' = EndsOf
  BY <1>1 DEF EndsOf, Terminals
<1>2. CASE UNCHANGED vars
  <2>1. evicted' = evicted /\ updates' = updates
    BY <1>2, Zenon DEF vars, ledgerVars, relayVars
  <2> QED
    BY <1>1, <2>1
<1>3. CASE Away
  <2>1. evicted' = evicted
    BY <1>3, Zenon DEF Away, ledgerVars
  <2>2. ASSUME NEW o \in Orders, NEW ev \in Event, ev.terminal = FALSE,
               updates' = [updates EXCEPT ![o] = Append(updates[o], ev)]
        PROVE  EndsOf' = EndsOf
    BY <2>2, EndsChange
  <2> QED
    BY <1>1, <1>3, <2>1, <2>2 DEF Away
<1>4. ASSUME NEW o \in Orders, Place(o)
      PROVE  evicted' = evicted /\ EndsOf' = EndsOf
  <2>1. updates' = updates
    BY <1>4, Zenon DEF Place
  <2>2. evicted' = evicted
    BY <1>4, PlaceKeeps DEF Progress
  <2> QED
    BY <1>1, <2>1, <2>2
<1>5. ASSUME NEW o \in Orders, RunCall(o)
      PROVE  \/ evicted' = {} /\ EndsOf' = EndsOf
             \/ evicted' = evicted /\ EndsOf' = EndsOf
             \/ /\ o \notin evicted /\ evicted' = evicted \cup {o}
                /\ EndsOf' = [EndsOf EXCEPT ![o] = EndsOf[o] + 1]
  <2>1. LedgerTypeOK' /\ (Quiet \/ Progress(o) \/ Ended(o))
    BY <1>5, CallEffect
  <2>2. updates' = [updates EXCEPT ![o] = updates[o] \o out']
    BY <1>5, Zenon DEF RunCall
  <2>3. updates \in [Orders -> Seq(Event)] /\ updates[o] \in Seq(Event)
    BY DEF EventsInv, Types
  <2>4. CASE Quiet
    <3>1. updates' = updates
      BY <2>2, <2>3, <2>4 DEF Quiet
    <3> QED
      BY <1>1, <2>4, <3>1 DEF Quiet
  <2>5. ASSUME out' # <<>>
        PROVE  out'[1] \in Event /\ out'[1].terminal \in BOOLEAN
               /\ updates' = [updates EXCEPT ![o] = Append(updates[o], out'[1])]
    <3>1. out' \in Seq(Event) /\ Len(out') = 1
      <4>1. out' \in Seq(Event) /\ Len(out') <= 1
        BY <2>1 DEF LedgerTypeOK
      <4>2. Len(out') \in Nat /\ Len(out') # 0
        BY <2>5, <4>1
      <4>3. \A n \in Nat : n <= 1 /\ n # 0 => n = 1
        OBVIOUS
      <4> QED
        BY <4>1, <4>2, <4>3, Zenon
    <3>2. out' = <<out'[1]>> /\ out'[1] \in Event
      BY <3>1
    <3>3. updates[o] \o out' = Append(updates[o], out'[1])
      <4>1. ASSUME NEW s \in Seq(Event), NEW ev \in Event
            PROVE  s \o <<ev>> = Append(s, ev)
        OBVIOUS
      <4> QED
        BY <2>3, <3>2, <4>1, Zenon
    <3> QED
      BY <2>2, <3>2, <3>3 DEF Event
  <2>6. CASE Progress(o)
    <3>1. out' # <<>> /\ out'[1].terminal = FALSE /\ evicted' = evicted
      BY <2>5, <2>6 DEF Progress, Speaks
    <3> QED
      BY <2>5, <3>1, EndsChange
  <2>7. CASE Ended(o)
    <3>1. out' # <<>> /\ out'[1].terminal = TRUE
          /\ o \notin evicted /\ evicted' = evicted \cup {o}
      BY <2>5, <2>7 DEF Ended, Speaks
    <3> QED
      BY <2>5, <3>1, EndsChange
  <2> QED
    BY <2>1, <2>4, <2>6, <2>7
<1>6. ASSUME NEW old \in SUBSET tracked, Watchdog(old)
      PROVE  evicted' = {} /\ EndsOf' = EndsOf
  BY <1>1, <1>6, WatchdogKeeps
<1> QED
  BY <1>2, <1>3, <1>4, <1>5, <1>6, EventsStep

(* The end of an order is announced once: after its terminal event the     *)
(* stream carries no other for it until the watchdog's tick has emptied    *)
(* _recently_evicted, whatever IB repeats, reorders or sends late, and     *)
(* whether or not the order carries an orderRef.                           *)
THEOREM OutcomeIsKept == Spec => KeepsOutcome
<1>1. Init => Outcome!OutcomeInit
  <2> SUFFICES ASSUME Init PROVE Outcome!OutcomeInit
    OBVIOUS
  <2>1. evicted = {}
    BY DEF Init, LedgerInit
  <2>2. ASSUME NEW o \in Orders PROVE Cardinality(Terminals(o)) = 0
    <3>1. updates[o] = <<>>
      BY DEF Init
    <3>2. Terminals(o) = {}
      BY <3>1 DEF Terminals
    <3> QED
      BY <3>2, FS_EmptySet
  <2> QED
    BY <2>1, <2>2 DEF Outcome!OutcomeInit
<1>2. EventsInv /\ [Next]_vars => [Outcome!OutcomeNext]_Outcome!outcomeVars
  BY OutcomeStep
<1> QED
  BY <1>1, <1>2, EventsInvariant, PTL DEF Spec, KeepsOutcome, Outcome!OutcomeSpec

-----------------------------------------------------------------------------
(* Counting: how many members of a sequence lie in a set.                  *)
CountIn(s, X) == Cardinality({i \in 1 .. Len(s) : s[i] \in X})

(* A count is a number, and zero when nothing lies in the set.             *)
LEMMA CountType ==
    ASSUME NEW T, NEW s \in Seq(T), NEW X
    PROVE  /\ IsFiniteSet({i \in 1 .. Len(s) : s[i] \in X})
           /\ CountIn(s, X) \in Nat
           /\ CountIn(s, X) = 0 <=> \A i \in 1 .. Len(s) : s[i] \notin X
<1> DEFINE I == {i \in 1 .. Len(s) : s[i] \in X}
<1>1. IsFiniteSet(1 .. Len(s))
  BY FS_Interval
<1>2. IsFiniteSet(I)
  BY <1>1, FS_Subset
<1>3. Cardinality(I) \in Nat /\ (Cardinality(I) = 0 <=> I = {})
  BY <1>2, FS_CardinalityType, FS_EmptySet
<1> QED
  BY <1>2, <1>3 DEF CountIn

(* The members of a concatenation are those of its parts.                  *)
LEMMA ConcatParts ==
    ASSUME NEW T, NEW s \in Seq(T), NEW t \in Seq(T)
    PROVE  /\ Len(s) \in Nat /\ Len(t) \in Nat /\ Len(s \o t) = Len(s) + Len(t)
           /\ \A i \in 1 .. Len(s) : i \in 1 .. Len(s \o t) /\ (s \o t)[i] = s[i]
           /\ \A i \in 1 .. Len(s \o t) :
                 \/ i \in 1 .. Len(s)
                 \/ i - Len(s) \in 1 .. Len(t) /\ (s \o t)[i] = t[i - Len(s)]
<1>1. /\ Len(s) \in Nat /\ Len(t) \in Nat /\ Len(s \o t) = Len(s) + Len(t)
      /\ \A i \in 1 .. Len(s) + Len(t) :
            (s \o t)[i] = IF i <= Len(s) THEN s[i] ELSE t[i - Len(s)]
  BY ConcatProperties
<1>2. ASSUME NEW i \in 1 .. Len(s)
      PROVE  i \in 1 .. Len(s \o t) /\ (s \o t)[i] = s[i]
  BY <1>1
<1>3. ASSUME NEW i \in 1 .. Len(s \o t), i \notin 1 .. Len(s)
      PROVE  i - Len(s) \in 1 .. Len(t) /\ (s \o t)[i] = t[i - Len(s)]
  <2>1. i \in 1 .. Len(s) + Len(t) /\ ~(i <= Len(s))
    BY <1>1, <1>3
  <2> QED
    BY <1>1, <2>1
<1> QED
  BY <1>1, <1>2, <1>3

(* Counts add up over a concatenation.                                     *)
LEMMA CountConcat ==
    ASSUME NEW T, NEW s \in Seq(T), NEW t \in Seq(T), NEW X
    PROVE  CountIn(s \o t, X) = CountIn(s, X) + CountIn(t, X)
<1> DEFINE A == {i \in 1 .. Len(s) : s[i] \in X}
           B == {i \in 1 .. Len(t) : t[i] \in X}
           C == {i \in 1 .. Len(s \o t) : (s \o t)[i] \in X}
           D == {Len(s) + i : i \in B}
           f == [i \in B |-> Len(s) + i]
<1>1. /\ Len(s) \in Nat /\ Len(t) \in Nat /\ Len(s \o t) = Len(s) + Len(t)
      /\ \A i \in 1 .. Len(s) + Len(t) :
            (s \o t)[i] = IF i <= Len(s) THEN s[i] ELSE t[i - Len(s)]
  BY ConcatProperties
<1>2. IsFiniteSet(A) /\ IsFiniteSet(B) /\ Cardinality(A) \in Nat /\ Cardinality(B) \in Nat
  BY CountType DEF CountIn
<1>3. C = A \cup D
  <2>1. ASSUME NEW i \in C PROVE i \in A \cup D
    <3>1. i \in 1 .. Len(s) + Len(t) /\ (s \o t)[i] \in X
      BY <1>1
    <3>2. CASE i <= Len(s)
      BY <1>1, <3>1, <3>2
    <3>3. CASE i > Len(s)
      <4>1. i - Len(s) \in 1 .. Len(t) /\ t[i - Len(s)] \in X
        BY <1>1, <3>1, <3>3
      <4>2. i - Len(s) \in B /\ i = Len(s) + (i - Len(s))
        BY <1>1, <3>1, <4>1
      <4> QED
        BY <4>2
    <3> QED
      BY <1>1, <3>1, <3>2, <3>3
  <2>2. A \subseteq C
    BY <1>1
  <2>3. ASSUME NEW i \in B PROVE Len(s) + i \in C
    <3>1. Len(s) + i \in 1 .. Len(s) + Len(t) /\ ~(Len(s) + i <= Len(s)) /\ (Len(s) + i) - Len(s) = i
      BY <1>1
    <3>2. (s \o t)[Len(s) + i] = t[i]
      BY <1>1, <3>1
    <3> QED
      BY <1>1, <3>1, <3>2
  <2> QED
    BY <2>1, <2>2, <2>3
<1>4. A \cap D = {}
  BY <1>1
<1>5. f \in Bijection(B, D)
  <2>1. f \in [B -> D]
    OBVIOUS
  <2>2. \A i, j \in B : f[i] = f[j] => i = j
    BY <1>1
  <2>3. \A d \in D : \E i \in B : f[i] = d
    OBVIOUS
  <2> QED
    BY <2>1, <2>2, <2>3 DEF Bijection, Injection, Surjection, IsInjective
<1>6. IsFiniteSet(D) /\ Cardinality(D) = Cardinality(B)
  <2>1. ExistsBijection(B, D)
    BY <1>5 DEF ExistsBijection
  <2> HIDE DEF B, D
  <2> QED
    BY <1>2, <2>1, FS_Bijection
<1> HIDE DEF A, B, C, D
<1>7. Cardinality(A \cup D) = Cardinality(A) + Cardinality(D) - Cardinality(A \cap D)
  BY <1>2, <1>6, FS_Union
<1>8. Cardinality(C) = Cardinality(A) + Cardinality(B)
  <2>1. Cardinality(A \cap D) = 0
    BY <1>4, FS_EmptySet, Zenon
  <2> QED
    BY <1>2, <1>3, <1>6, <1>7, <2>1
<1> QED
  BY <1>8 DEF CountIn, A, B, C

LEMMA CountOne ==
    ASSUME NEW x, NEW X
    PROVE  CountIn(<<x>>, X) = IF x \in X THEN 1 ELSE 0
<1> DEFINE I == {i \in 1 .. Len(<<x>>) : <<x>>[i] \in X}
<1>1. CASE x \in X
  <2>1. I = {1}
    BY <1>1
  <2>2. Cardinality(I) = 1
    BY <2>1, FS_Singleton, Zenon
  <2> QED
    BY <1>1, <2>2 DEF CountIn
<1>2. CASE x \notin X
  <2>1. I = {}
    BY <1>2
  <2>2. Cardinality(I) = 0
    BY <2>1, FS_EmptySet, Zenon
  <2> QED
    BY <1>2, <2>2 DEF CountIn
<1> QED
  BY <1>1, <1>2

(* One more at the end counts for itself.                                  *)
LEMMA CountAppend ==
    ASSUME NEW T, NEW s \in Seq(T), NEW x \in T, NEW X
    PROVE  CountIn(Append(s, x), X) = CountIn(s, X) + IF x \in X THEN 1 ELSE 0
<1> DEFINE t == <<x>>
<1>1. Append(s, x) = s \o t /\ t \in Seq(T)
  OBVIOUS
<1>2. CountIn(t, X) = IF x \in X THEN 1 ELSE 0
  BY CountOne
<1> HIDE DEF t
<1>3. CountIn(s \o t, X) = CountIn(s, X) + CountIn(t, X)
  BY <1>1, CountConcat
<1> QED
  BY <1>1, <1>2, <1>3, Zenon

(* The head counted, the tail remains.                                     *)
LEMMA CountTail ==
    ASSUME NEW T, NEW s \in Seq(T), s # <<>>, NEW X
    PROVE  CountIn(s, X) = CountIn(Tail(s), X) + IF Head(s) \in X THEN 1 ELSE 0
<1> DEFINE h == <<Head(s)>>
           t == Tail(s)
<1>1. s = h \o t /\ h \in Seq(T) /\ t \in Seq(T)
  BY HeadTailProperties
<1>2. CountIn(h, X) = IF Head(s) \in X THEN 1 ELSE 0
  BY CountOne
<1> HIDE DEF h, t
<1>3. CountIn(h \o t, X) = CountIn(h, X) + CountIn(t, X)
  BY <1>1, CountConcat
<1>4. CountIn(t, X) \in Nat
  BY <1>1, CountType
<1>5. CountIn(s, X) = CountIn(t, X) + IF Head(s) \in X THEN 1 ELSE 0
  <2> DEFINE a == CountIn(t, X)
             b == IF Head(s) \in X THEN 1 ELSE 0
  <2>1. a \in Nat /\ b \in Nat /\ CountIn(s, X) = b + a
    BY <1>1, <1>2, <1>3, <1>4
  <2> HIDE DEF a, b
  <2>2. b + a = a + b
    BY <2>1
  <2> QED
    BY <2>1, <2>2 DEF a, b
<1> QED
  BY <1>5 DEF t

-----------------------------------------------------------------------------
(* The course of an order, from its placing to its first terminal event.   *)
FilledMsg == StatusMsg("Filled", TRUE)
CancelMsg == StatusMsg("Cancelled", TRUE)
Verdict == OpenOrdersMsg(FALSE)
FilledCall == StatusCall("Filled")
CancelCall == StatusCall("Cancelled")

Spoken == {FillMsg, OpenOrdersMsg(TRUE), Verdict, Refusal, Unnumbered,
           StatusMsg("Submitted", TRUE), FilledMsg, CancelMsg}
Called == {FillCall, StatusCall("Submitted"), FilledCall, CancelCall, RefusalCall, PendingCall}

(* The executions that the ledger has yet to hear of, and the cancels that *)
(* may yet end the order.                                                  *)
Pending(o) == late[o] + CountIn(wire[o], {FillMsg}) + CountIn(calls[o], {FillCall})
Cancelling(o) ==
    verifying[o] + CountIn(wire[o], {CancelMsg, Verdict}) + CountIn(calls[o], {CancelCall})
      + (IF entry[o].last = "Cancelled" THEN 1 ELSE 0)

Opened(o) == broker[o] # "none" /\ Terminals(o) = {}
Regular(o) == lates[o] = 0 /\ spurious[o] <= 1 /\ (o \notin asked \/ spurious[o] = 0)
Alone == \A o, p \in Orders : o = p
Signed(o, n) == IF Side[o] = "BUY" THEN n ELSE -n

(* What IB knows of the order.                                             *)
AtIB(o) ==
    /\ executed[o] \in 0 .. Size[o]
    /\ executed[o] = Size[o] <=> broker[o] = "filled"
    /\ broker[o] \in {"none", "sent", "inactive"} => executed[o] = 0
    /\ broker[o] = "moving" => spurious[o] > 0
    /\ late[o] <= lates[o]
    /\ broker[o] = "none" => o \notin asked /\ Terminals(o) = {}

(* What is said of it is so.                                               *)
Told(o) ==
    /\ \A i \in 1 .. Len(wire[o]) :
          wire[o][i] \in Spoken /\ (wire[o][i] = FilledMsg => broker[o] = "filled")
    /\ \A i \in 1 .. Len(calls[o]) :
          /\ calls[o][i] \in Called
          /\ calls[o][i] = FilledCall => broker[o] = "filled"
          /\ calls[o][i] = PendingCall => o \in asked

(* Until it ends every execution is recorded once or on its way, and no    *)
(* more cancels are under way than IB has sent.                            *)
Booked(o) ==
    Opened(o) =>
       /\ o \in tracked /\ entry[o].target = Size[o] /\ entry[o].side = Side[o]
       /\ entry[o].filled + Pending(o) = executed[o]
       /\ entry[o].last \in {"PendingSubmit", "Submitted", "Cancelled", "PendingCancel"}
       /\ entry[o].last = "PendingCancel" => o \in asked
       /\ Cancelling(o) <= spurious[o] + (IF broker[o] = "cancelled" THEN 1 ELSE 0)

(* What ends it comes after its fills, except the first cancel of an order *)
(* that moves: the ledger holds that one.                                  *)
After(s, i, x) == \A j \in i + 1 .. Len(s) : s[j] # x
Before(s, i, x) == \A j \in 1 .. i - 1 : s[j] # x
Never(s, x) == \A j \in 1 .. Len(s) : s[j] # x
Early(o) == spurious[o] = 1 /\ entry[o].last # "Cancelled"

OnTheWire(o, i) ==
    /\ wire[o][i] = FilledMsg => After(wire[o], i, FillMsg)
    /\ wire[o][i] = Verdict =>
          \/ broker[o] \in Done /\ After(wire[o], i, FillMsg)
          \/ Early(o) /\ Never(calls[o], CancelCall) /\ Before(wire[o], i, Verdict)
InTheQueue(o, i) ==
    /\ calls[o][i] = FilledCall => After(calls[o], i, FillCall) /\ Never(wire[o], FillMsg)
    /\ calls[o][i] = CancelCall =>
          \/ broker[o] \in Done /\ After(calls[o], i, FillCall) /\ Never(wire[o], FillMsg)
          \/ Early(o) /\ Before(calls[o], i, CancelCall)
Sequenced(o) ==
    Opened(o) /\ Regular(o) =>
       /\ \A i \in 1 .. Len(wire[o]) : OnTheWire(o, i)
       /\ \A i \in 1 .. Len(calls[o]) : InTheQueue(o, i)

(* The position of an order that is alone in its symbol.                   *)
Measured(o) ==
    Alone /\ foreign = 0 =>
       /\ Signed(o, ibPosition) \in 0 .. executed[o]
       /\ Opened(o) => entry[o].pre = 0

(* What its first terminal event said is so.                               *)
Concluded(o) ==
    Terminals(o) # {} =>
       /\ o \notin asked /\ spurious[o] <= 1 => broker[o] \in Done
       /\ Regular(o) =>
             /\ broker[o] \in Done
             /\ FirstTerminal(o).filled >= executed[o]
             /\ broker[o] = "filled" => FirstTerminal(o).status = "Filled"
       /\ Regular(o) /\ Alone /\ foreign = 0 =>
             /\ FirstTerminal(o).filled = executed[o]
             /\ FirstTerminal(o).status = "Filled" <=> broker[o] = "filled"

Course(o) == AtIB(o) /\ Told(o) /\ Booked(o) /\ Sequenced(o) /\ Measured(o) /\ Concluded(o)

CourseTypes ==
    /\ executed \in [Orders -> Nat] /\ lates \in [Orders -> Nat]
    /\ spurious \in [Orders -> Nat] /\ foreign \in Nat

CourseInv == CourseTypes /\ LiveOrEvicted /\ \A o \in Orders : Course(o)

-----------------------------------------------------------------------------
(* The messages that matter to a course are different messages,            *)
LEMMA Words ==
    /\ FillMsg \notin {OpenOrdersMsg(TRUE), Verdict, Refusal, Unnumbered,
                       StatusMsg("Submitted", TRUE), FilledMsg, CancelMsg}
    /\ Verdict \notin {OpenOrdersMsg(TRUE), Refusal, Unnumbered,
                       StatusMsg("Submitted", TRUE), FilledMsg, CancelMsg}
    /\ FilledMsg \notin {OpenOrdersMsg(TRUE), Refusal, Unnumbered,
                         StatusMsg("Submitted", TRUE), CancelMsg}
    /\ CancelMsg \notin {OpenOrdersMsg(TRUE), Refusal, Unnumbered, StatusMsg("Submitted", TRUE)}
<1>1. /\ FillMsg.kind = "fill" /\ Verdict.kind = "openOrders"
      /\ OpenOrdersMsg(TRUE).kind = "openOrders" /\ OpenOrdersMsg(TRUE).open = TRUE
      /\ Verdict.open = FALSE
  BY DEF FillMsg, Verdict, OpenOrdersMsg
<1>2. /\ FilledMsg.kind = "status" /\ FilledMsg.status = "Filled" /\ FilledMsg.perm = TRUE
      /\ CancelMsg.kind = "status" /\ CancelMsg.status = "Cancelled" /\ CancelMsg.perm = TRUE
      /\ Refusal.kind = "status" /\ Refusal.status = "Inactive"
      /\ Unnumbered.kind = "status" /\ Unnumbered.status = "Cancelled" /\ Unnumbered.perm = FALSE
      /\ StatusMsg("Submitted", TRUE).kind = "status"
      /\ StatusMsg("Submitted", TRUE).status = "Submitted"
  BY DEF StatusMsg, FilledMsg, CancelMsg, Refusal, Unnumbered
<1>3. OpenOrdersMsg(TRUE) # Verdict
  BY <1>1
<1>4. CancelMsg # Unnumbered
  BY <1>2
<1> QED
  BY <1>1, <1>2, <1>3, <1>4

(* and so are the calls.                                                   *)
LEMMA CallWords ==
    /\ FillCall \notin {StatusCall("Submitted"), FilledCall, CancelCall, RefusalCall, PendingCall}
    /\ FilledCall \notin {StatusCall("Submitted"), CancelCall, RefusalCall, PendingCall}
    /\ CancelCall \notin {StatusCall("Submitted"), RefusalCall, PendingCall}
    /\ PendingCall \notin {StatusCall("Submitted"), RefusalCall}
<1>1. /\ FillCall.kind = "on_fill"
      /\ FilledCall.kind = "on_status" /\ FilledCall.status = "Filled"
      /\ CancelCall.kind = "on_status" /\ CancelCall.status = "Cancelled"
      /\ RefusalCall.kind = "on_status" /\ RefusalCall.status = "Inactive"
      /\ PendingCall.kind = "on_status" /\ PendingCall.status = "PendingCancel"
      /\ StatusCall("Submitted").kind = "on_status"
      /\ StatusCall("Submitted").status = "Submitted"
  BY Distinct, Zenon DEF FilledCall, CancelCall, RefusalCall, PendingCall
<1> QED
  BY <1>1

(* The ledger's account of an order and its part of the stream stay.       *)
SameBook(o) ==
    /\ o \in tracked' <=> o \in tracked
    /\ entry'[o].target = entry[o].target /\ entry'[o].side = entry[o].side
    /\ entry'[o].filled = entry[o].filled /\ entry'[o].last = entry[o].last
    /\ entry'[o].pre = entry[o].pre
    /\ Terminals(o)' = Terminals(o)
    /\ Terminals(o) # {} => FirstTerminal(o)' = FirstTerminal(o)

(* Nothing happens to an order.                                            *)
Untouched(o) ==
    /\ SameBook(o)
    /\ broker'[o] = broker[o] /\ executed'[o] = executed[o]
    /\ late'[o] = late[o] /\ lates'[o] = lates[o] /\ spurious'[o] = spurious[o]
    /\ wire'[o] = wire[o] /\ calls'[o] = calls[o] /\ verifying'[o] = verifying[o]
    /\ o \in asked' <=> o \in asked

(* An order that nothing happens to keeps its course.                      *)
LEMMA UntouchedKeeps ==
    ASSUME NEW o \in Orders, Course(o), Untouched(o),
           foreign' = 0 => foreign = 0, Measured(o)'
    PROVE  Course(o)'
<1>1. AtIB(o)'
  BY DEF Course, Untouched, SameBook, AtIB
<1>2. Told(o)'
  BY DEF Course, Untouched, Told
<1>3. Opened(o)' = Opened(o) /\ Regular(o)' = Regular(o)
  BY DEF Untouched, SameBook, Opened, Regular
<1>4. Booked(o)'
  BY <1>3 DEF Course, Untouched, SameBook, Booked, Pending, Cancelling
<1>5. Sequenced(o)'
  BY <1>3 DEF Course, Untouched, SameBook, Sequenced, OnTheWire, InTheQueue, Early
<1>6. Concluded(o)'
  BY <1>3 DEF Course, Untouched, SameBook, Concluded
<1> QED
  BY <1>1, <1>2, <1>4, <1>5, <1>6 DEF Course

(* An order alone in its symbol is the only one.                           *)
LEMMA MeasuredElsewhere ==
    ASSUME NEW o \in Orders, NEW p \in Orders, p # o
    PROVE  Measured(p) /\ Measured(p)'
BY DEF Measured, Alone

-----------------------------------------------------------------------------
(* A step of the broker: it executes n lots, m of them late, cancels k     *)
(* times without meaning it, and says msgs.                                *)
Acts(o, msgs, n, m, k) ==
    /\ broker[o] \in Working /\ broker'[o] \in Working \cup Done
    /\ SameBook(o) /\ calls'[o] = calls[o] /\ verifying'[o] = verifying[o]
    /\ o \in asked' <=> o \in asked
    /\ foreign' = foreign /\ ibPosition' = ibPosition
    /\ wire'[o] = wire[o] \o msgs
    /\ executed'[o] = executed[o] + n
    /\ late'[o] = late[o] + m /\ lates'[o] = lates[o] + m /\ m <= n
    /\ spurious'[o] = spurious[o] + k
    /\ \A i \in 1 .. Len(msgs) :
          /\ msgs[i] \in Spoken /\ msgs[i] # Verdict
          /\ msgs[i] = FilledMsg => broker'[o] = "filled" /\ After(msgs, i, FillMsg)
    /\ CountIn(msgs, {FillMsg}) = n - m
    /\ CountIn(msgs, {CancelMsg, Verdict}) <= k + (IF broker'[o] = "cancelled" THEN 1 ELSE 0)

(* Sums of Pending, as plain numbers.                                      *)
LEMMA Shifted ==
    ASSUME NEW l \in Int, NEW x \in Int, NEW z \in Int, NEW n \in Int, NEW m \in Int
    PROVE  (l + m) + (x + (n - m)) + z = (l + x + z) + n
OBVIOUS

LEMMA Grown ==
    ASSUME NEW g \in Nat, NEW x \in Nat, NEW z \in Nat, NEW h \in Nat, NEW c \in Nat
    PROVE  g + (x + c) + z + h = (g + x + z + h) + c /\ g + x + z + h \in Nat
OBVIOUS

(* What the broker does to an order and says of it keeps its course.       *)
LEMMA BrokerCourse ==
    ASSUME Types, CourseTypes, NEW o \in Orders, Course(o), AtIB(o)',
           NEW msgs \in Seq(Sent), NEW n \in {0, 1}, NEW m \in {0, 1}, NEW k \in {0, 1},
           Acts(o, msgs, n, m, k)
    PROVE  Course(o)'
<1> DEFINE w == wire[o]
           v == wire'[o]
<1>1. /\ broker[o] \in Working /\ broker'[o] \in Working \cup Done
      /\ SameBook(o) /\ calls'[o] = calls[o] /\ verifying'[o] = verifying[o]
      /\ o \in asked' <=> o \in asked
      /\ foreign' = foreign /\ ibPosition' = ibPosition
      /\ wire'[o] = wire[o] \o msgs
  BY DEF Acts
<1>2. /\ executed'[o] = executed[o] + n
      /\ late'[o] = late[o] + m /\ lates'[o] = lates[o] + m /\ m <= n
      /\ spurious'[o] = spurious[o] + k
      /\ CountIn(msgs, {FillMsg}) = n - m
      /\ CountIn(msgs, {CancelMsg, Verdict}) <= k + (IF broker'[o] = "cancelled" THEN 1 ELSE 0)
  BY DEF Acts
<1>3. \A i \in 1 .. Len(msgs) :
         /\ msgs[i] \in Spoken /\ msgs[i] # Verdict
         /\ msgs[i] = FilledMsg => broker'[o] = "filled" /\ After(msgs, i, FillMsg)
  BY DEF Acts
<1>4. /\ wire[o] \in Seq(Sent) /\ calls[o] \in Seq(Calls)
      /\ late[o] \in Nat /\ verifying[o] \in Nat /\ entry[o].filled \in Nat
  BY DEF Types, LedgerTypeOK, Entry
<1>5. /\ Len(w) \in Nat /\ Len(msgs) \in Nat /\ Len(v) = Len(w) + Len(msgs)
      /\ \A i \in 1 .. Len(w) : i \in 1 .. Len(v) /\ v[i] = w[i]
      /\ \A i \in 1 .. Len(v) :
            i \in 1 .. Len(w) \/ (i - Len(w) \in 1 .. Len(msgs) /\ v[i] = msgs[i - Len(w)])
  BY <1>1, <1>4, ConcatParts
<1>6. \A i \in 1 .. Len(w) : \A j \in 1 .. i - 1 : j \in 1 .. Len(w) /\ v[j] = w[j]
  BY <1>5
<1>7. broker[o] \notin Done \cup {"none"} /\ broker'[o] # "none"
  BY <1>1 DEF Working, Done
<1>8. executed[o] \in Nat /\ lates[o] \in Nat /\ spurious[o] \in Nat
  BY DEF CourseTypes
<1>9. Opened(o)' = Opened(o) /\ (Regular(o)' => Regular(o)) /\ (spurious'[o] <= 1 => spurious[o] <= 1)
  BY <1>7, <1>8, <1>1, <1>2 DEF Opened, Regular, SameBook
<1>10. Told(o) /\ Booked(o) /\ Sequenced(o) /\ Measured(o) /\ Concluded(o)
  BY DEF Course
<1>11. \A i \in 1 .. Len(w) : w[i] # FilledMsg
  BY <1>7, <1>10 DEF Told, Done
<1>12. \A i \in 1 .. Len(calls[o]) : calls[o][i] # FilledCall
  BY <1>7, <1>10 DEF Told, Done
<1>13. Told(o)'
  <2>1. ASSUME NEW i \in 1 .. Len(v)
        PROVE  v[i] \in Spoken /\ (v[i] = FilledMsg => broker'[o] = "filled")
    BY <1>5, <1>10, <1>11, <1>3 DEF Told
  <2> QED
    BY <1>10, <1>12, <1>1, <2>1 DEF Told
<1>14. Booked(o)'
  <2> SUFFICES ASSUME Opened(o)' PROVE Booked(o)'
    BY DEF Booked
  <2>1. /\ o \in tracked' /\ entry'[o].target = Size[o] /\ entry'[o].side = Side[o]
        /\ entry'[o].last \in {"PendingSubmit", "Submitted", "Cancelled", "PendingCancel"}
        /\ entry'[o].last = "PendingCancel" => o \in asked'
        /\ entry'[o].filled = entry[o].filled /\ entry'[o].last = entry[o].last
    BY <1>9, <1>10, <1>1 DEF Booked, SameBook
  <2>2. /\ CountIn(v, {FillMsg}) = CountIn(w, {FillMsg}) + (n - m)
        /\ CountIn(v, {CancelMsg, Verdict})
              = CountIn(w, {CancelMsg, Verdict}) + CountIn(msgs, {CancelMsg, Verdict})
    BY <1>1, <1>2, <1>4, CountConcat
  <2>3. /\ CountIn(w, {FillMsg}) \in Nat /\ CountIn(w, {CancelMsg, Verdict}) \in Nat
        /\ CountIn(msgs, {CancelMsg, Verdict}) \in Nat
        /\ CountIn(calls[o], {FillCall}) \in Nat /\ CountIn(calls[o], {CancelCall}) \in Nat
    BY <1>4, CountType
  <2>4. entry[o].filled + Pending(o) = executed[o] /\ Cancelling(o) <= spurious[o]
    BY <1>7, <1>8, <1>9, <1>10 DEF Booked, Done
  <2>5. Pending(o)' = Pending(o) + n /\ Pending(o) \in Nat
    <3> DEFINE x == CountIn(w, {FillMsg})
               y == CountIn(v, {FillMsg})
               z == CountIn(calls[o], {FillCall})
    <3>1. x \in Nat /\ y = x + (n - m) /\ z \in Nat
      BY <2>2, <2>3
    <3>2. Pending(o) = late[o] + x + z /\ Pending(o)' = late'[o] + y + z
      BY <1>1 DEF Pending
    <3>3. late[o] \in Nat /\ late'[o] = late[o] + m
      BY <1>2, <1>4
    <3>4. n \in Int /\ m \in Int
      OBVIOUS
    <3> HIDE DEF x, y, z
    <3>5. late[o] \in Nat /\ x \in Nat /\ z \in Nat
      BY <3>1, <3>3, Zenon
    <3>6. \A i, j, h \in Nat : i + j + h \in Nat
      OBVIOUS
    <3>7. late[o] + x + z \in Nat
      BY <3>5, <3>6, Zenon
    <3>8. Pending(o) \in Nat
      BY <3>2, <3>7, Zenon
    <3>9. /\ late[o] \in Int /\ x \in Int /\ z \in Int
          /\ late'[o] + y + z = (late[o] + m) + (x + (n - m)) + z
      <4>1. \A i \in Nat : i \in Int
        OBVIOUS
      <4> QED
        BY <3>1, <3>3, <3>5, <4>1, Zenon
    <3>10. (late[o] + m) + (x + (n - m)) + z = (late[o] + x + z) + n
      <4> DEFINE l == late[o]
      <4>1. l \in Int /\ x \in Int /\ z \in Int /\ n \in Int /\ m \in Int
        BY <3>4, <3>9
      <4> HIDE DEF l
      <4>2. (l + m) + (x + (n - m)) + z = (l + x + z) + n
        BY <4>1
      <4> QED
        BY <4>2 DEF l
    <3>11. late'[o] + y + z = (late[o] + x + z) + n
      BY <3>9, <3>10, Zenon
    <3> QED
      BY <3>2, <3>8, <3>11
  <2>6. entry'[o].filled + Pending(o)' = executed'[o]
    <3>1. entry[o].filled \in Nat /\ Pending(o) \in Nat /\ n \in Int
      BY <1>4, <2>5
    <3>2. entry'[o].filled + Pending(o)' = entry[o].filled + (Pending(o) + n)
      BY <2>1, <2>5
    <3> QED
      BY <1>2, <2>4, <3>1, <3>2
  <2>7. Cancelling(o)' <= spurious'[o] + (IF broker'[o] = "cancelled" THEN 1 ELSE 0)
    <3> DEFINE c == CountIn(msgs, {CancelMsg, Verdict})
               held == IF entry[o].last = "Cancelled" THEN 1 ELSE 0
    <3>1. Cancelling(o)' = Cancelling(o) + c /\ Cancelling(o) \in Nat
      <4>1. /\ Cancelling(o) = verifying[o] + CountIn(w, {CancelMsg, Verdict})
                                 + CountIn(calls[o], {CancelCall}) + held
            /\ Cancelling(o)' = verifying[o] + CountIn(v, {CancelMsg, Verdict})
                                 + CountIn(calls[o], {CancelCall}) + held
        BY <1>1, <2>1 DEF Cancelling
      <4>2. held \in Nat
        OBVIOUS
      <4> DEFINE x == CountIn(w, {CancelMsg, Verdict})
                 y == CountIn(v, {CancelMsg, Verdict})
                 z == CountIn(calls[o], {CancelCall})
                 g == verifying[o]
      <4>3. y = x + c
        BY <1>1, <1>4, CountConcat
      <4>4. x \in Nat /\ z \in Nat /\ c \in Nat /\ g \in Nat
        BY <1>4, CountType
      <4>5. Cancelling(o) = g + x + z + held /\ Cancelling(o)' = g + y + z + held
        BY <4>1
      <4> HIDE DEF held, c, x, y, z, g
      <4>6. g + (x + c) + z + held = (g + x + z + held) + c /\ g + x + z + held \in Nat
        BY <4>2, <4>4, Grown
      <4> QED
        BY <4>3, <4>5, <4>6, Zenon
    <3> HIDE DEF c
    <3>2. c <= k + (IF broker'[o] = "cancelled" THEN 1 ELSE 0) /\ c \in Nat
      BY <1>2, <2>3 DEF c
    <3> QED
      BY <1>8, <1>2, <2>4, <3>1, <3>2
  <2> QED
    BY <2>1, <2>6, <2>7 DEF Booked
<1>15. Sequenced(o)'
  <2> SUFFICES ASSUME Opened(o)', Regular(o)'
               PROVE  /\ \A i \in 1 .. Len(v) : OnTheWire(o, i)'
                      /\ \A i \in 1 .. Len(calls[o]) : InTheQueue(o, i)'
    BY <1>1 DEF Sequenced
  <2>1. /\ \A i \in 1 .. Len(w) : OnTheWire(o, i)
        /\ \A i \in 1 .. Len(calls[o]) : InTheQueue(o, i)
    BY <1>9, <1>10 DEF Sequenced
  <2>2. Early(o) => Early(o)'
    BY <1>8, <1>1, <1>2 DEF Early, Regular, SameBook
  <2>3. ASSUME NEW i \in 1 .. Len(v) PROVE OnTheWire(o, i)'
    <3>1. CASE i \in 1 .. Len(w)
      <4>1. v[i] # FilledMsg
        BY <1>5, <1>11, <3>1
      <4>2. ASSUME v[i] = Verdict
            PROVE  Early(o)' /\ Never(calls'[o], CancelCall) /\ Before(v, i, Verdict)
        <5>1. Early(o) /\ Never(calls[o], CancelCall) /\ Before(w, i, Verdict)
          BY <1>5, <1>7, <2>1, <3>1, <4>2 DEF OnTheWire
        <5>2. Before(v, i, Verdict)
          BY <1>6, <3>1, <5>1 DEF Before
        <5> QED
          BY <1>1, <2>2, <5>1, <5>2
      <4> QED
        BY <4>1, <4>2 DEF OnTheWire
    <3>2. CASE i - Len(w) \in 1 .. Len(msgs) /\ v[i] = msgs[i - Len(w)]
      <4>1. v[i] # Verdict
        BY <1>3, <3>2
      <4>2. ASSUME v[i] = FilledMsg PROVE After(v, i, FillMsg)
        <5>1. After(msgs, i - Len(w), FillMsg)
          BY <1>3, <3>2, <4>2
        <5>2. ASSUME NEW j \in i + 1 .. Len(v) PROVE v[j] # FillMsg
          <6>1. /\ j \in 1 .. Len(v) /\ j \notin 1 .. Len(w) /\ i \in Int /\ j \in Int
                /\ j >= i + 1 /\ j <= Len(w) + Len(msgs)
            <7>1. Len(w) \in Nat /\ Len(msgs) \in Nat /\ Len(v) = Len(w) + Len(msgs)
              BY <1>5
            <7>2. i - Len(w) >= 1 /\ i \in Int
              BY <3>2, <7>1
            <7> QED
              BY <7>1, <7>2
          <6>2. j - Len(w) \in (i - Len(w)) + 1 .. Len(msgs) /\ v[j] = msgs[j - Len(w)]
            <7>1. v[j] = msgs[j - Len(w)] /\ Len(w) \in Nat /\ Len(msgs) \in Nat
              BY <1>5, <6>1
            <7> QED
              BY <6>1, <7>1
          <6> QED
            BY <5>1, <6>2 DEF After
        <5> QED
          BY <5>2 DEF After
      <4> QED
        BY <4>1, <4>2 DEF OnTheWire
    <3> QED
      BY <1>5, <3>1, <3>2
  <2>4. ASSUME NEW i \in 1 .. Len(calls[o]) PROVE InTheQueue(o, i)'
    <3>1. calls[o][i] # FilledCall
      BY <1>12
    <3>2. calls[o][i] = CancelCall => Early(o) /\ Before(calls[o], i, CancelCall)
      BY <1>7, <2>1 DEF InTheQueue
    <3> QED
      BY <1>1, <2>2, <3>1, <3>2 DEF InTheQueue
  <2> QED
    BY <2>3, <2>4
<1>16. Measured(o)'
  <2>1. executed[o] <= executed'[o] /\ executed'[o] \in Nat
    BY <1>8, <1>2
  <2>2. Signed(o, ibPosition)' = Signed(o, ibPosition)
    BY <1>1 DEF Signed
  <2>3. entry'[o].pre = entry[o].pre
    BY <1>1 DEF SameBook
  <2> QED
    BY <1>8, <1>9, <1>10, <1>1, <2>1, <2>2, <2>3 DEF Measured, Alone
<1>17. Concluded(o)'
  <2>1. Terminals(o)' = Terminals(o)
    BY <1>1 DEF SameBook
  <2>2. ~(Terminals(o) # {} /\ o \notin asked /\ spurious[o] <= 1)
    BY <1>7, <1>10 DEF Concluded
  <2>3. ~(Terminals(o) # {} /\ Regular(o))
    BY <1>7, <1>10 DEF Concluded
  <2> QED
    BY <1>9, <1>1, <2>1, <2>2, <2>3 DEF Concluded
<1> QED
  BY <1>13, <1>14, <1>15, <1>16, <1>17 DEF Course

-----------------------------------------------------------------------------
BrokerSays(o, b, msgs, n, m, k) ==
    /\ broker[o] \in Working /\ b \in Working \cup Done
    /\ broker' = [broker EXCEPT ![o] = b]
    /\ wire' = [wire EXCEPT ![o] = @ \o msgs]
    /\ executed' = [executed EXCEPT ![o] = @ + n]
    /\ late' = [late EXCEPT ![o] = @ + m]
    /\ lates' = [lates EXCEPT ![o] = @ + m]
    /\ spurious' = [spurious EXCEPT ![o] = @ + k]
    /\ UNCHANGED <<tracked, entry, asked, foreign, ibPosition, verifying, calls, updates>>

Truthful(b, msgs, n, m, k) ==
    /\ msgs \in Seq(Sent) /\ m <= n
    /\ \A i \in 1 .. Len(msgs) :
          /\ msgs[i] \in Spoken /\ msgs[i] # Verdict
          /\ msgs[i] = FilledMsg => b = "filled" /\ After(msgs, i, FillMsg)
    /\ CountIn(msgs, {FillMsg}) = n - m
    /\ CountIn(msgs, {CancelMsg, Verdict}) <= k + (IF b = "cancelled" THEN 1 ELSE 0)

CourseAll == CourseTypes /\ \A o \in Orders : Course(o)

(* The same of the whole step: the other orders are not touched.           *)
LEMMA BrokerSaysCourse ==
    ASSUME Types, CourseAll, NEW o \in Orders, NEW b, NEW msgs,
           NEW n \in {0, 1}, NEW m \in {0, 1}, NEW k \in {0, 1},
           BrokerSays(o, b, msgs, n, m, k), Truthful(b, msgs, n, m, k), AtIB(o)'
    PROVE  CourseAll'
<1>1. /\ broker[o] \in Working /\ b \in Working \cup Done
      /\ broker' = [broker EXCEPT ![o] = b]
      /\ wire' = [wire EXCEPT ![o] = @ \o msgs]
      /\ executed' = [executed EXCEPT ![o] = @ + n]
      /\ late' = [late EXCEPT ![o] = @ + m]
      /\ lates' = [lates EXCEPT ![o] = @ + m]
      /\ spurious' = [spurious EXCEPT ![o] = @ + k]
  BY DEF BrokerSays
<1>2. /\ tracked' = tracked /\ entry' = entry /\ asked' = asked /\ foreign' = foreign
      /\ ibPosition' = ibPosition /\ verifying' = verifying /\ calls' = calls
      /\ updates' = updates
  BY Zenon DEF BrokerSays
<1>3. /\ broker \in [Orders -> Working \cup Done \cup {"none"}]
      /\ wire \in [Orders -> Seq(Sent)] /\ late \in [Orders -> Nat]
  BY DEF Types
<1>4. CourseTypes
  BY DEF CourseAll
<1>5. \A p \in Orders : SameBook(p)
  BY <1>2 DEF SameBook, FirstTerminal, Terminals
<1>6. CourseTypes'
  <2>1. executed[o] + n \in Nat /\ lates[o] + m \in Nat /\ spurious[o] + k \in Nat
    BY <1>4 DEF CourseTypes
  <2> QED
    BY <1>1, <1>2, <1>4, <2>1 DEF CourseTypes
<1>7. Course(o)'
  <2>1. /\ broker'[o] = b /\ wire'[o] = wire[o] \o msgs
        /\ executed'[o] = executed[o] + n /\ late'[o] = late[o] + m
        /\ lates'[o] = lates[o] + m /\ spurious'[o] = spurious[o] + k
    BY <1>1, <1>3, <1>4 DEF CourseTypes
  <2>2. Acts(o, msgs, n, m, k)
    BY <1>1, <1>2, <1>5, <2>1 DEF Acts, Truthful
  <2>3. msgs \in Seq(Sent) /\ Course(o)
    BY DEF Truthful, CourseAll
  <2> QED
    BY <1>4, <2>2, <2>3, BrokerCourse
<1>8. ASSUME NEW p \in Orders, p # o PROVE Course(p)'
  <2>1. Untouched(p)
    BY <1>1, <1>2, <1>3, <1>4, <1>5, <1>8 DEF Untouched, CourseTypes
  <2>2. Measured(p)'
    BY <1>8, MeasuredElsewhere
  <2> QED
    BY <1>2, <2>1, <2>2, UntouchedKeeps DEF CourseAll
<1> QED
  BY <1>6, <1>7, <1>8 DEF CourseAll

(* What IB says in a single message.                                       *)
LEMMA OneWord ==
    ASSUME NEW x \in {Refusal, Unnumbered, StatusMsg("Submitted", TRUE), CancelMsg},
           NEW b, NEW k \in {0, 1},
           x = CancelMsg => k = 1 \/ b = "cancelled"
    PROVE  Truthful(b, <<x>>, 0, 0, k)
<1>1. x \in Sent /\ x \in Spoken
  <2>1. "Submitted" \in Statuses /\ "Cancelled" \in Statuses /\ "Inactive" \in Statuses
    BY DEF Statuses, Preroute, TerminalStatuses, Cancels
  <2> QED
    BY <2>1, MessageTypes DEF Spoken, CancelMsg, Refusal, Unnumbered
<1>2. x # FillMsg /\ x # Verdict /\ x # FilledMsg
  BY Words
<1>3. CountIn(<<x>>, {FillMsg}) = 0
  BY <1>2, CountOne
<1>4. CountIn(<<x>>, {CancelMsg, Verdict}) = IF x = CancelMsg THEN 1 ELSE 0
  BY <1>2, CountOne
<1>5. CountIn(<<x>>, {CancelMsg, Verdict}) <= k + (IF b = "cancelled" THEN 1 ELSE 0)
  BY <1>4
<1>6. <<x>> \in Seq(Sent) /\ \A i \in 1 .. Len(<<x>>) : <<x>>[i] = x
  BY <1>1
<1> QED
  BY <1>1, <1>2, <1>3, <1>5, <1>6 DEF Truthful

(* What it says of an execution.                                           *)
LEMMA ExecutionWords ==
    ASSUME NEW isLate \in BOOLEAN, NEW copies \in Nat, NEW s \in {"Submitted", "Filled"},
           NEW b, s = "Filled" => b = "filled"
    PROVE  LET first == IF isLate THEN <<>> ELSE <<FillMsg>>
               msgs == first \o [i \in 1 .. copies |-> StatusMsg(s, TRUE)]
           IN  Truthful(b, msgs, 1, IF isLate THEN 1 ELSE 0, 0)
<1> DEFINE x == StatusMsg(s, TRUE)
           first == IF isLate THEN <<>> ELSE <<FillMsg>>
           tail == [i \in 1 .. copies |-> x]
           msgs == first \o tail
           m == IF isLate THEN 1 ELSE 0
<1>1. x \in Sent /\ FillMsg \in Sent /\ x \in Spoken /\ FillMsg \in Spoken
  <2>1. "Submitted" \in Statuses /\ "Filled" \in Statuses
    BY DEF Statuses, Preroute, TerminalStatuses, Cancels
  <2> QED
    BY <2>1, MessageTypes DEF Spoken, FilledMsg
<1>2. /\ x # FillMsg /\ x # Verdict /\ x # CancelMsg /\ (x = FilledMsg => b = "filled")
      /\ FillMsg # Verdict /\ FillMsg # FilledMsg /\ FillMsg # CancelMsg
  BY Words DEF FilledMsg
<1> HIDE DEF x
<1>3. tail \in Seq(Sent) /\ Len(tail) = copies /\ \A i \in 1 .. copies : tail[i] = x
  BY <1>1
<1>4. /\ first \in Seq(Sent) /\ Len(first) = 1 - m
      /\ \A i \in 1 .. Len(first) : first[i] = FillMsg
      /\ CountIn(first, {FillMsg}) = 1 - m /\ CountIn(first, {CancelMsg, Verdict}) = 0
  <2>1. CASE isLate
    <3>1. first = <<>> /\ m = 1 /\ first \in Seq(Sent) /\ Len(first) = 0
      BY <2>1
    <3> HIDE DEF first, m
    <3>2. CountIn(first, {FillMsg}) = 0 /\ CountIn(first, {CancelMsg, Verdict}) = 0
      <4>1. \A i \in 1 .. Len(first) : FALSE
        BY <3>1
      <4> QED
        BY <3>1, <4>1, CountType
    <3>3. 1 - m = 0 /\ \A i \in 1 .. Len(first) : first[i] = FillMsg
      BY <3>1
    <3> QED
      BY <3>1, <3>2, <3>3, Zenon
  <2>2. CASE ~isLate
    <3>1. first = <<FillMsg>> /\ m = 0 /\ first \in Seq(Sent) /\ Len(first) = 1 /\ first[1] = FillMsg
      BY <1>1, <2>2
    <3>2. CountIn(<<FillMsg>>, {FillMsg}) = 1 /\ CountIn(<<FillMsg>>, {CancelMsg, Verdict}) = 0
      BY <1>2, CountOne
    <3> QED
      BY <3>1, <3>2
  <2> QED
    BY <2>1, <2>2
<1>5. CountIn(tail, {FillMsg}) = 0 /\ CountIn(tail, {CancelMsg, Verdict}) = 0
  BY <1>2, <1>3, CountType
<1>6. m \in {0, 1}
  OBVIOUS
<1> HIDE DEF first, tail, m
<1>7. CountIn(msgs, {FillMsg}) = 1 - m /\ CountIn(msgs, {CancelMsg, Verdict}) = 0
  <2>1. /\ CountIn(msgs, {FillMsg}) = CountIn(first, {FillMsg}) + CountIn(tail, {FillMsg})
        /\ CountIn(msgs, {CancelMsg, Verdict})
              = CountIn(first, {CancelMsg, Verdict}) + CountIn(tail, {CancelMsg, Verdict})
    BY <1>3, <1>4, CountConcat
  <2> QED
    BY <1>4, <1>5, <1>6, <2>1
<1>8. /\ Len(first) \in Nat /\ Len(tail) \in Nat /\ Len(msgs) = Len(first) + Len(tail)
      /\ \A i \in 1 .. Len(first) : i \in 1 .. Len(msgs) /\ msgs[i] = first[i]
      /\ \A i \in 1 .. Len(msgs) :
            i \in 1 .. Len(first) \/ (i - Len(first) \in 1 .. Len(tail) /\ msgs[i] = tail[i - Len(first)])
  BY <1>3, <1>4, ConcatParts
<1>9. \A i \in 1 .. Len(msgs) :
         (i \in 1 .. Len(first) /\ msgs[i] = FillMsg) \/ (i \notin 1 .. Len(first) /\ msgs[i] = x)
  <2>1. ASSUME NEW i \in 1 .. Len(msgs), i \notin 1 .. Len(first) PROVE msgs[i] = x
    BY <1>3, <1>8, <2>1
  <2>2. ASSUME NEW i \in 1 .. Len(first) PROVE msgs[i] = FillMsg
    BY <1>4, <1>8
  <2> QED
    BY <2>1, <2>2
<1>10. ASSUME NEW i \in 1 .. Len(msgs), msgs[i] = FilledMsg PROVE After(msgs, i, FillMsg)
  <2>1. i \notin 1 .. Len(first)
    BY <1>2, <1>9, <1>10
  <2>2. ASSUME NEW j \in i + 1 .. Len(msgs) PROVE msgs[j] # FillMsg
    <3>1. j \in 1 .. Len(msgs) /\ j \notin 1 .. Len(first)
      BY <1>8, <2>1
    <3> QED
      BY <1>2, <1>9, <3>1
  <2> QED
    BY <2>2 DEF After
<1>11. msgs \in Seq(Sent)
  BY <1>3, <1>4, ConcatProperties
<1>12. \A i \in 1 .. Len(msgs) :
          /\ msgs[i] \in Spoken /\ msgs[i] # Verdict
          /\ msgs[i] = FilledMsg => b = "filled" /\ After(msgs, i, FillMsg)
  BY <1>1, <1>2, <1>9, <1>10
<1> HIDE DEF msgs
<1>13. Truthful(b, msgs, 1, m, 0)
  BY <1>6, <1>7, <1>11, <1>12 DEF Truthful
<1> QED
  BY <1>13 DEF msgs, first, tail, m, x

(* Every action of the broker is such a step.                              *)
LEMMA BrokerStepCourse ==
    ASSUME Types, CourseAll, BrokerStep
    PROVE  CourseAll'
<1>1. /\ UNCHANGED <<ledgerVars, ibPosition, wrapperVars, calls, relayVars, sweep>>
      /\ \E o \in Orders :
            \/ Accept(o) \/ Reject(o) \/ Cancel(o) \/ Rerouted(o)
            \/ \E isLate \in BOOLEAN, copies \in Copies : Execute(o, isLate, copies)
            \/ \E perm, moves \in BOOLEAN : SpuriousCancel(o, perm, moves)
  BY Zenon DEF BrokerStep
<1>2. PICK o \in Orders :
            \/ Accept(o) \/ Reject(o) \/ Cancel(o) \/ Rerouted(o)
            \/ \E isLate \in BOOLEAN, copies \in Copies : Execute(o, isLate, copies)
            \/ \E perm, moves \in BOOLEAN : SpuriousCancel(o, perm, moves)
  BY <1>1, Zenon
<1>3. /\ UNCHANGED <<tracked, entry, ibPosition, verifying>>
      /\ UNCHANGED <<calls, updates>>
  BY <1>1, Zenon DEF ledgerVars, wrapperVars, relayVars
<1>4. /\ executed \in [Orders -> Nat] /\ lates \in [Orders -> Nat] /\ spurious \in [Orders -> Nat]
      /\ late \in [Orders -> Nat] /\ broker \in [Orders -> Working \cup Done \cup {"none"}]
  BY DEF Types, CourseAll, CourseTypes
<1>5. /\ executed = [executed EXCEPT ![o] = @ + 0] /\ late = [late EXCEPT ![o] = @ + 0]
      /\ lates = [lates EXCEPT ![o] = @ + 0] /\ spurious = [spurious EXCEPT ![o] = @ + 0]
  BY <1>4
<1>6. AtIB(o)
  BY DEF CourseAll, Course
<1>7. /\ Size[o] \in Nat \ {0} /\ executed[o] \in Nat /\ spurious[o] \in Nat /\ late[o] \in Nat
      /\ lates[o] \in Nat
  BY <1>4, LedgerAssumption DEF LedgerAssumption
<1>8. /\ {"sent", "live", "moving", "filled", "cancelled", "inactive"} = Working \cup Done
      /\ {"sent", "live", "moving"} = Working
  BY DEF Working, Done
<1>9. CASE Accept(o)
  <2>1. /\ broker[o] = "sent" /\ broker' = [broker EXCEPT ![o] = "live"]
        /\ wire' = [wire EXCEPT ![o] = @ \o <<StatusMsg("Submitted", TRUE)>>]
        /\ executed' = executed /\ late' = late /\ lates' = lates /\ spurious' = spurious
        /\ asked' = asked /\ foreign' = foreign
    BY <1>9, Zenon DEF Accept, Send
  <2>2. BrokerSays(o, "live", <<StatusMsg("Submitted", TRUE)>>, 0, 0, 0)
    BY <1>3, <1>5, <1>8, <2>1 DEF BrokerSays
  <2>3. Truthful("live", <<StatusMsg("Submitted", TRUE)>>, 0, 0, 0)
    BY Words, OneWord
  <2>4. AtIB(o)'
    BY <1>4, <1>6, <1>7, <2>1 DEF AtIB
  <2> QED
    BY <2>2, <2>3, <2>4, BrokerSaysCourse
<1>10. CASE Reject(o)
  <2>1. /\ broker[o] = "sent" /\ broker' = [broker EXCEPT ![o] = "inactive"]
        /\ wire' = [wire EXCEPT ![o] = @ \o <<Refusal>>]
        /\ executed' = executed /\ late' = late /\ lates' = lates /\ spurious' = spurious
        /\ asked' = asked /\ foreign' = foreign
    BY <1>10, Zenon DEF Reject, Send, Refusal
  <2>2. BrokerSays(o, "inactive", <<Refusal>>, 0, 0, 0)
    BY <1>3, <1>5, <1>8, <2>1 DEF BrokerSays
  <2>3. Refusal # CancelMsg
    <3>1. Refusal.status = "Inactive" /\ CancelMsg.status = "Cancelled"
      BY Distinct DEF Refusal, CancelMsg
    <3> QED
      BY <3>1
  <2>4. Truthful("inactive", <<Refusal>>, 0, 0, 0)
    BY <2>3, OneWord
  <2>5. AtIB(o)'
    <3>1. executed[o] = 0 /\ executed[o] # Size[o]
      BY <1>6, <1>7, <2>1 DEF AtIB
    <3>2. broker'[o] = "inactive" /\ executed'[o] = 0 /\ late'[o] = late[o] /\ lates'[o] = lates[o]
      BY <1>4, <2>1, <3>1
    <3> QED
      BY <1>6, <1>7, <3>1, <3>2 DEF AtIB
  <2> QED
    BY <2>2, <2>4, <2>5, BrokerSaysCourse
<1>11. CASE Cancel(o)
  <2>1. /\ broker[o] \in {"sent", "live"} /\ broker' = [broker EXCEPT ![o] = "cancelled"]
        /\ wire' = [wire EXCEPT ![o] = @ \o <<CancelMsg>>]
        /\ executed' = executed /\ late' = late /\ lates' = lates /\ spurious' = spurious
        /\ asked' = asked /\ foreign' = foreign
    BY <1>11, Zenon DEF Cancel, Send, CancelMsg
  <2>2. BrokerSays(o, "cancelled", <<CancelMsg>>, 0, 0, 0)
    BY <1>3, <1>5, <1>8, <2>1 DEF BrokerSays
  <2>3. Truthful("cancelled", <<CancelMsg>>, 0, 0, 0)
    BY OneWord
  <2>4. AtIB(o)'
    BY <1>4, <1>6, <1>7, <2>1 DEF AtIB
  <2> QED
    BY <2>2, <2>3, <2>4, BrokerSaysCourse
<1>12. CASE Rerouted(o)
  <2>1. /\ broker[o] = "moving" /\ broker' = [broker EXCEPT ![o] = "live"]
        /\ wire' = [wire EXCEPT ![o] = @ \o <<StatusMsg("Submitted", TRUE)>>]
        /\ executed' = executed /\ late' = late /\ lates' = lates /\ spurious' = spurious
        /\ asked' = asked /\ foreign' = foreign
    BY <1>12, Zenon DEF Rerouted, Send
  <2>2. BrokerSays(o, "live", <<StatusMsg("Submitted", TRUE)>>, 0, 0, 0)
    BY <1>3, <1>5, <1>8, <2>1 DEF BrokerSays
  <2>3. Truthful("live", <<StatusMsg("Submitted", TRUE)>>, 0, 0, 0)
    BY Words, OneWord
  <2>4. AtIB(o)'
    BY <1>4, <1>6, <1>7, <2>1 DEF AtIB
  <2> QED
    BY <2>2, <2>3, <2>4, BrokerSaysCourse
<1>13. ASSUME NEW isLate \in BOOLEAN, NEW copies \in Copies, Execute(o, isLate, copies)
       PROVE  CourseAll'
  <2> DEFINE complete == executed[o] + 1 = Size[o]
             s == IF complete THEN "Filled" ELSE "Submitted"
             b == IF complete THEN "filled" ELSE "live"
             first == IF isLate THEN <<>> ELSE <<FillMsg>>
             msgs == first \o [i \in 1 .. copies |-> StatusMsg(s, TRUE)]
             m == IF isLate THEN 1 ELSE 0
  <2>1. /\ broker[o] = "live"
        /\ broker' = [broker EXCEPT ![o] = IF complete THEN "filled" ELSE @]
        /\ executed' = [executed EXCEPT ![o] = @ + 1]
        /\ late' = [late EXCEPT ![o] = IF isLate THEN @ + 1 ELSE @]
        /\ lates' = [lates EXCEPT ![o] = IF isLate THEN @ + 1 ELSE @]
        /\ spurious' = spurious /\ asked' = asked /\ foreign' = foreign
        /\ wire' = [wire EXCEPT ![o] = @ \o msgs]
    BY <1>13, Zenon DEF Execute, Send
  <2>2. copies \in Nat
    BY EventsAssumption DEF Copies
  <2>3. s \in {"Submitted", "Filled"} /\ (s = "Filled" => b = "filled") /\ b \in {"live", "filled"}
    OBVIOUS
  <2>4. broker' = [broker EXCEPT ![o] = b]
    <3>1. CASE complete
      BY <2>1, <3>1
    <3>2. CASE ~complete
      BY <2>1, <3>2
    <3> QED
      BY <3>1, <3>2
  <2>5. late' = [late EXCEPT ![o] = @ + m] /\ lates' = [lates EXCEPT ![o] = @ + m] /\ m \in {0, 1}
    <3>1. CASE isLate
      BY <2>1, <3>1
    <3>2. CASE ~isLate
      BY <1>5, <2>1, <3>2
    <3> QED
      BY <3>1, <3>2
  <2>6. AtIB(o)'
    <3>1. executed'[o] = executed[o] + 1 /\ executed[o] + 1 \in 0 .. Size[o]
      <4>1. executed[o] # Size[o] /\ executed[o] \in 0 .. Size[o]
        BY <1>6, <2>1 DEF AtIB
      <4> QED
        BY <1>4, <1>7, <2>1, <4>1
    <3>2. executed'[o] = Size[o] <=> broker'[o] = "filled"
      BY <1>4, <2>4, <3>1
    <3>3. late'[o] = late[o] + m /\ lates'[o] = lates[o] + m /\ late[o] <= lates[o]
      BY <1>4, <1>6, <2>5 DEF AtIB
    <3>4. broker'[o] \in {"live", "filled"}
      BY <1>4, <2>3, <2>4
    <3>5. late'[o] <= lates'[o]
      BY <1>7, <2>5, <3>3
    <3> QED
      BY <3>1, <3>2, <3>4, <3>5 DEF AtIB
  <2>7. Truthful(b, msgs, 1, m, 0)
    BY <2>2, <2>3, ExecutionWords
  <2> HIDE DEF complete, s, b, msgs, m, first
  <2>8. BrokerSays(o, b, msgs, 1, m, 0)
    BY <1>3, <1>5, <1>8, <2>1, <2>3, <2>4, <2>5 DEF BrokerSays
  <2> QED
    BY <2>5, <2>6, <2>7, <2>8, BrokerSaysCourse
<1>14. ASSUME NEW perm \in BOOLEAN, NEW moves \in BOOLEAN, SpuriousCancel(o, perm, moves)
       PROVE  CourseAll'
  <2> DEFINE b == IF moves THEN "moving" ELSE broker[o]
             x == StatusMsg("Cancelled", perm)
  <2>1. /\ broker[o] = IF perm THEN "live" ELSE "sent"
        /\ moves => perm
        /\ broker' = [broker EXCEPT ![o] = b]
        /\ executed' = executed /\ late' = late /\ lates' = lates
        /\ spurious' = [spurious EXCEPT ![o] = @ + 1]
        /\ asked' = asked /\ foreign' = foreign
        /\ wire' = [wire EXCEPT ![o] = @ \o <<x>>]
    BY <1>14, Zenon DEF SpuriousCancel, Send
  <2>2. x \in {Unnumbered, CancelMsg}
    BY DEF Unnumbered, CancelMsg
  <2>3. broker[o] \in {"sent", "live"} /\ b \in {"sent", "live", "moving"}
    BY <2>1
  <2>4. Truthful(b, <<x>>, 0, 0, 1)
    BY <2>2, OneWord
  <2>5. AtIB(o)'
    <3>1. spurious'[o] > 0
      BY <1>4, <1>7, <2>1
    <3>2. broker'[o] = b /\ (b = "sent" => broker[o] = "sent") /\ (broker[o] = "sent" => executed[o] = 0)
      BY <1>4, <1>6, <2>1 DEF AtIB
    <3> QED
      BY <1>6, <2>1, <2>3, <3>1, <3>2 DEF AtIB
  <2> HIDE DEF b, x
  <2>6. BrokerSays(o, b, <<x>>, 0, 0, 1)
    BY <1>3, <1>5, <1>8, <2>1, <2>3 DEF BrokerSays
  <2> QED
    BY <2>4, <2>5, <2>6, BrokerSaysCourse
<1> QED
  BY <1>2, <1>9, <1>10, <1>11, <1>12, <1>13, <1>14

-----------------------------------------------------------------------------
(* The client's own steps.                                                 *)
(* A call that a message, or the engine itself, puts in the queue.         *)
Queues(o, c) == calls' = [calls EXCEPT ![o] = Append(calls[o], c)] /\ verifying' = verifying

Passes(msg, c) ==
    /\ c \in Called \ {PendingCall}
    /\ c = FillCall <=> msg = FillMsg
    /\ c = FilledCall <=> msg = FilledMsg
    /\ c = CancelCall <=> msg = Verdict
    /\ msg # CancelMsg

Keeps(o, msg) ==
    /\ msg \notin {FillMsg, FilledMsg}
    /\ calls' = calls
    /\ verifying' = [verifying EXCEPT ![o] = @ + IF msg = CancelMsg THEN 1 ELSE 0]

(* What the client does with a message that it takes from the wire.        *)
LEMMA DeliverSays ==
    ASSUME NEW o \in Orders, NEW msg \in Spoken, verifying \in [Orders -> Nat], Heard(o, msg)
    PROVE  (\E c : Passes(msg, c) /\ Queues(o, c)) \/ Keeps(o, msg)
<1>1. /\ FillMsg.kind = "fill" /\ Verdict.kind = "openOrders"
      /\ OpenOrdersMsg(TRUE).kind = "openOrders" /\ OpenOrdersMsg(TRUE).open = TRUE
      /\ Verdict.open = FALSE
  BY DEF FillMsg, Verdict, OpenOrdersMsg
<1>2. /\ FilledMsg.kind = "status" /\ FilledMsg.status = "Filled" /\ FilledMsg.perm = TRUE
      /\ CancelMsg.kind = "status" /\ CancelMsg.status = "Cancelled" /\ CancelMsg.perm = TRUE
      /\ Refusal.kind = "status" /\ Refusal.status = "Inactive" /\ Refusal.perm = TRUE
      /\ Unnumbered.kind = "status" /\ Unnumbered.status = "Cancelled" /\ Unnumbered.perm = FALSE
      /\ StatusMsg("Submitted", TRUE).kind = "status"
      /\ StatusMsg("Submitted", TRUE).status = "Submitted" /\ StatusMsg("Submitted", TRUE).perm = TRUE
  BY DEF StatusMsg, FilledMsg, CancelMsg, Refusal, Unnumbered
<1>3. Cancels = {"Cancelled", "ApiCancelled"}
  BY DEF Cancels
<1>4. verifying = [verifying EXCEPT ![o] = @ + 0]
  OBVIOUS
<1>5. CASE msg = FillMsg
  <2>1. Queues(o, FillCall)
    BY <1>1, <1>2, <1>3, <1>5 DEF Heard, Queues
  <2>2. Passes(msg, FillCall)
    BY <1>5, Words, CallWords, Zenon DEF Passes, Called
  <2> QED
    BY <2>1, <2>2
<1>6. CASE msg = FilledMsg
  <2>1. Queues(o, FilledCall)
    BY <1>1, <1>2, <1>3, <1>6 DEF Heard, Queues, FilledCall
  <2>2. Passes(msg, FilledCall)
    BY <1>6, Words, CallWords, Zenon DEF Passes, Called
  <2> QED
    BY <2>1, <2>2
<1>7. CASE msg = StatusMsg("Submitted", TRUE)
  <2>1. Queues(o, StatusCall("Submitted"))
    BY <1>1, <1>2, <1>3, <1>7 DEF Heard, Queues
  <2>2. Passes(msg, StatusCall("Submitted"))
    BY <1>7, Words, CallWords, Zenon DEF Passes, Called
  <2> QED
    BY <2>1, <2>2
<1>8. CASE msg = Refusal
  <2>1. Queues(o, RefusalCall)
    BY <1>1, <1>2, <1>3, <1>8 DEF Heard, Queues, RefusalCall
  <2>2. Refusal # CancelMsg
    BY <1>2
  <2>3. Passes(msg, RefusalCall)
    BY <1>8, <2>2, Words, CallWords, Zenon DEF Passes, Called
  <2> QED
    BY <2>1, <2>3
<1>9. CASE msg = CancelMsg
  <2>1. calls' = calls /\ verifying' = [verifying EXCEPT ![o] = @ + 1]
    BY <1>1, <1>2, <1>3, <1>9 DEF Heard
  <2> QED
    BY <1>9, <2>1, Words DEF Keeps
<1>10. CASE msg \in {Unnumbered, OpenOrdersMsg(TRUE)}
  <2>1. calls' = calls /\ verifying' = verifying
    BY <1>1, <1>2, <1>3, <1>10 DEF Heard
  <2>2. msg \notin {FillMsg, FilledMsg, CancelMsg}
    BY <1>1, <1>2, <1>10
  <2> QED
    BY <1>4, <2>1, <2>2 DEF Keeps
<1>11. CASE msg = Verdict
  <2>1. (calls' = calls /\ verifying' = verifying) \/ Queues(o, CancelCall)
    BY <1>1, <1>2, <1>3, <1>11 DEF Heard, Queues, CancelCall
  <2>2. Passes(msg, CancelCall)
    BY <1>11, Words, CallWords, Zenon DEF Passes, Called
  <2>3. msg \notin {FillMsg, FilledMsg, CancelMsg}
    BY <1>1, <1>2, <1>11
  <2>4. calls' = calls /\ verifying' = verifying => Keeps(o, msg)
    BY <1>4, <2>3 DEF Keeps
  <2> QED
    BY <2>1, <2>2, <2>4
<1> QED
  BY <1>5, <1>6, <1>7, <1>8, <1>9, <1>10, <1>11 DEF Spoken

(* A step of the client at an order that IB has: the ledger and what IB    *)
(* knows stay.                                                             *)
ClientActs(o) ==
    /\ SameBook(o) /\ broker'[o] = broker[o] /\ executed'[o] = executed[o]
    /\ lates'[o] = lates[o] /\ spurious'[o] = spurious[o]
    /\ foreign' = foreign /\ ibPosition' = ibPosition
    /\ late'[o] <= late[o] /\ late'[o] \in Nat
    /\ broker[o] # "none" /\ (o \in asked => o \in asked')

(* A step of the client leaves IB and the ledger alone: what is left to    *)
(* show is that the queues are still in order.                             *)
LEMMA ClientCourse ==
    ASSUME CourseTypes, NEW o \in Orders, Course(o), late[o] \in Nat, ClientActs(o),
           Told(o)', Booked(o)', Sequenced(o)'
    PROVE  Course(o)'
<1>1. /\ SameBook(o) /\ broker'[o] = broker[o] /\ executed'[o] = executed[o]
      /\ lates'[o] = lates[o] /\ spurious'[o] = spurious[o]
      /\ foreign' = foreign /\ ibPosition' = ibPosition
      /\ late'[o] <= late[o] /\ late'[o] \in Nat
      /\ broker[o] # "none" /\ (o \in asked => o \in asked')
  BY DEF ClientActs
<1>2. executed[o] \in Nat /\ lates[o] \in Nat /\ spurious[o] \in Nat
  BY DEF CourseTypes
<1>3. AtIB(o)'
  BY <1>1, <1>2 DEF Course, AtIB
<1>4. Opened(o)' = Opened(o) /\ (Regular(o)' => Regular(o))
  BY <1>1 DEF SameBook, Opened, Regular
<1>5. Measured(o)'
  <2>1. Signed(o, ibPosition)' = Signed(o, ibPosition)
    BY <1>1 DEF Signed
  <2> QED
    BY <1>1, <1>4, <2>1 DEF Course, Measured, Alone, SameBook
<1>6. Concluded(o)'
  <2>1. Alone' = Alone /\ Terminals(o)' = Terminals(o)
    BY <1>1 DEF Alone, SameBook
  <2> QED
    BY <1>1, <1>4, <2>1 DEF Course, Concluded, SameBook
<1> QED
  BY <1>3, <1>5, <1>6 DEF Course

(* Executions on their way stay so, and no cancel is added.                *)
LEMMA ClientBooked ==
    ASSUME NEW o \in Orders, Course(o), ClientActs(o),
           Opened(o) => Pending(o)' = Pending(o) /\ Cancelling(o)' <= Cancelling(o),
           Cancelling(o) \in Int, Cancelling(o)' \in Int, spurious[o] \in Nat
    PROVE  Booked(o)'
<1>1. /\ SameBook(o) /\ broker'[o] = broker[o] /\ executed'[o] = executed[o]
      /\ spurious'[o] = spurious[o] /\ (o \in asked => o \in asked')
  BY DEF ClientActs
<1>2. Opened(o)' = Opened(o)
  BY <1>1 DEF SameBook, Opened
<1>3. CASE Opened(o)
  <2>1. /\ o \in tracked /\ entry[o].target = Size[o] /\ entry[o].side = Side[o]
        /\ entry[o].filled + Pending(o) = executed[o]
        /\ entry[o].last \in {"PendingSubmit", "Submitted", "Cancelled", "PendingCancel"}
        /\ entry[o].last = "PendingCancel" => o \in asked
        /\ Cancelling(o) <= spurious[o] + (IF broker[o] = "cancelled" THEN 1 ELSE 0)
    BY <1>3 DEF Course, Booked
  <2>2. Cancelling(o)' <= spurious'[o] + (IF broker'[o] = "cancelled" THEN 1 ELSE 0)
    <3> DEFINE r == spurious[o] + (IF broker[o] = "cancelled" THEN 1 ELSE 0)
    <3>1. r \in Int /\ spurious'[o] + (IF broker'[o] = "cancelled" THEN 1 ELSE 0) = r
      BY <1>1
    <3>2. Cancelling(o)' <= Cancelling(o) /\ Cancelling(o) <= r
      BY <1>3, <2>1
    <3> HIDE DEF r
    <3> QED
      BY <3>1, <3>2
  <2>3. entry'[o].filled + Pending(o)' = executed'[o]
    BY <1>1, <1>3, <2>1 DEF SameBook
  <2> QED
    BY <1>1, <2>1, <2>2, <2>3 DEF Booked, SameBook
<1>4. CASE ~Opened(o)
  BY <1>2, <1>4 DEF Booked
<1> QED
  BY <1>3, <1>4

(* What Pending and Cancelling count, as numbers.                          *)
LEMMA Counted ==
    ASSUME Types, NEW o \in Orders
    PROVE  /\ CountIn(wire[o], {FillMsg}) \in Nat
           /\ CountIn(wire[o], {CancelMsg, Verdict}) \in Nat
           /\ CountIn(calls[o], {FillCall}) \in Nat /\ CountIn(calls[o], {CancelCall}) \in Nat
           /\ Pending(o) \in Nat /\ Cancelling(o) \in Nat
<1>1. /\ CountIn(wire[o], {FillMsg}) \in Nat
      /\ CountIn(wire[o], {CancelMsg, Verdict}) \in Nat
      /\ CountIn(calls[o], {FillCall}) \in Nat /\ CountIn(calls[o], {CancelCall}) \in Nat
  <2>1. wire[o] \in Seq(Sent) /\ calls[o] \in Seq(Calls)
    BY DEF Types
  <2> QED
    BY <2>1, CountType
<1>2. late[o] \in Nat /\ verifying[o] \in Nat
  BY DEF Types
<1>3. Pending(o) \in Nat
  BY <1>1, <1>2 DEF Pending
<1>4. Cancelling(o) \in Nat
  BY <1>1, <1>2 DEF Cancelling
<1> QED
  BY <1>1, <1>3, <1>4

(* The other orders, which a step leaves alone.                            *)
LEMMA ElsewhereCourse ==
    ASSUME CourseAll, CourseTypes', NEW o \in Orders, Course(o)', foreign' = foreign,
           \A p \in Orders : p # o => Untouched(p)
    PROVE  CourseAll'
<1>1. ASSUME NEW p \in Orders, p # o PROVE Course(p)'
  BY <1>1, MeasuredElsewhere, UntouchedKeeps DEF CourseAll
<1> QED
  BY <1>1 DEF CourseAll

-----------------------------------------------------------------------------
(* Queues: what is known of a queue and of the same with a member more or  *)
(* less.                                                                   *)

(* A queue with one more at its end.                                       *)
LEMMA Longer ==
    ASSUME NEW T, NEW s \in Seq(T), NEW c \in T
    PROVE  /\ Append(s, c) \in Seq(T)
           /\ Len(s) \in Nat /\ Len(Append(s, c)) = Len(s) + 1
           /\ \A i \in 1 .. Len(s) : i \in 1 .. Len(Append(s, c)) /\ Append(s, c)[i] = s[i]
           /\ \A i \in 1 .. Len(Append(s, c)) :
                 i \in 1 .. Len(s) \/ (i = Len(s) + 1 /\ Append(s, c)[i] = c)
           /\ \A i \in 1 .. Len(s) : \A j \in i + 1 .. Len(Append(s, c)) :
                 (j \in i + 1 .. Len(s) /\ Append(s, c)[j] = s[j]) \/ Append(s, c)[j] = c
<1>1. /\ Append(s, c) \in Seq(T)
      /\ Len(s) \in Nat /\ Len(Append(s, c)) = Len(s) + 1
      /\ \A i \in 1 .. Len(s) : i \in 1 .. Len(Append(s, c)) /\ Append(s, c)[i] = s[i]
      /\ Append(s, c)[Len(s) + 1] = c
  OBVIOUS
<1>2. \A i \in 1 .. Len(Append(s, c)) : i \in 1 .. Len(s) \/ i = Len(s) + 1
  BY <1>1
<1>3. ASSUME NEW i \in 1 .. Len(s), NEW j \in i + 1 .. Len(Append(s, c))
      PROVE  (j \in i + 1 .. Len(s) /\ Append(s, c)[j] = s[j]) \/ Append(s, c)[j] = c
  <2>1. CASE j = Len(s) + 1
    BY <1>1, <2>1
  <2>2. CASE j # Len(s) + 1
    <3>1. j \in i + 1 .. Len(s) /\ j \in 1 .. Len(s)
      BY <1>1, <2>2
    <3> QED
      BY <1>1, <3>1
  <2> QED
    BY <2>1, <2>2
<1> QED
  BY <1>1, <1>2, <1>3

LEMMA LongerAfter ==
    ASSUME NEW T, NEW s \in Seq(T), NEW c \in T, NEW x, c # x
    PROVE  /\ \A i \in 1 .. Len(s) : After(s, i, x) => After(Append(s, c), i, x)
           /\ Never(s, x) => Never(Append(s, c), x)
<1>1. ASSUME NEW i \in 1 .. Len(s), After(s, i, x) PROVE After(Append(s, c), i, x)
  BY <1>1, Longer DEF After
<1>2. Never(s, x) => Never(Append(s, c), x)
  BY Longer DEF Never
<1> QED
  BY <1>1, <1>2

LEMMA LongerBefore ==
    ASSUME NEW T, NEW s \in Seq(T), NEW c \in T, NEW x
    PROVE  /\ \A i \in 1 .. Len(s) : Before(s, i, x) => Before(Append(s, c), i, x)
           /\ Never(s, x) => Before(Append(s, c), Len(s) + 1, x)
           /\ After(Append(s, c), Len(s) + 1, x)
<1>1. /\ Len(s) \in Nat /\ Len(Append(s, c)) = Len(s) + 1
      /\ \A i \in 1 .. Len(s) : Append(s, c)[i] = s[i]
  BY Longer
<1>2. ASSUME NEW i \in 1 .. Len(s), Before(s, i, x) PROVE Before(Append(s, c), i, x)
  <2>1. \A j \in 1 .. i - 1 : j \in 1 .. Len(s) /\ s[j] # x
    BY <1>1, <1>2 DEF Before
  <2> QED
    BY <1>1, <2>1 DEF Before
<1>3. ASSUME Never(s, x) PROVE Before(Append(s, c), Len(s) + 1, x)
  <2>1. (Len(s) + 1) - 1 = Len(s)
    BY <1>1
  <2> QED
    BY <1>1, <1>3, <2>1 DEF Before, Never
<1>4. After(Append(s, c), Len(s) + 1, x)
  <2>1. (Len(s) + 1) + 1 .. Len(Append(s, c)) = {}
    BY <1>1
  <2> QED
    BY <2>1 DEF After
<1> QED
  BY <1>2, <1>3, <1>4

(* A queue without its head.                                               *)
LEMMA Shorter ==
    ASSUME NEW T, NEW s \in Seq(T), s # <<>>
    PROVE  /\ Tail(s) \in Seq(T) /\ Head(s) \in T /\ Head(s) = s[1]
           /\ Len(s) \in Nat /\ Len(s) >= 1 /\ Len(Tail(s)) = Len(s) - 1
           /\ \A i \in 1 .. Len(Tail(s)) :
                 i + 1 \in 1 .. Len(s) /\ i + 1 # 1 /\ Tail(s)[i] = s[i + 1]
           /\ 1 \in 1 .. Len(s)
OBVIOUS

LEMMA ShorterAfter ==
    ASSUME NEW T, NEW s \in Seq(T), s # <<>>, NEW x
    PROVE  /\ \A i \in 1 .. Len(Tail(s)) : After(s, i + 1, x) => After(Tail(s), i, x)
           /\ \A i \in 1 .. Len(Tail(s)) :
                 Before(s, i + 1, x) => Before(Tail(s), i, x) /\ Head(s) # x
           /\ After(s, 1, x) <=> Never(Tail(s), x)
           /\ Never(s, x) => Never(Tail(s), x) /\ Head(s) # x
<1> DEFINE t == Tail(s)
<1>1. /\ Head(s) = s[1] /\ Len(s) \in Nat /\ Len(s) >= 1 /\ Len(t) = Len(s) - 1
      /\ \A i \in 1 .. Len(t) : i + 1 \in 1 .. Len(s) /\ t[i] = s[i + 1]
      /\ 1 \in 1 .. Len(s)
  BY Shorter
<1> HIDE DEF t
<1>2. ASSUME NEW i \in 1 .. Len(t), After(s, i + 1, x) PROVE After(t, i, x)
  <2>1. ASSUME NEW j \in i + 1 .. Len(t) PROVE t[j] # x
    <3>1. j \in 1 .. Len(t) /\ j + 1 \in (i + 1) + 1 .. Len(s)
      BY <1>1
    <3> QED
      BY <1>1, <1>2, <3>1 DEF After
  <2> QED
    BY <2>1 DEF After
<1>3. ASSUME NEW i \in 1 .. Len(t), Before(s, i + 1, x) PROVE Before(t, i, x) /\ s[1] # x
  <2>1. ASSUME NEW j \in 1 .. i - 1 PROVE t[j] # x
    <3>1. j \in 1 .. Len(t) /\ j + 1 \in 1 .. (i + 1) - 1
      BY <1>1
    <3> QED
      BY <1>1, <1>3, <3>1 DEF Before
  <2>2. 1 \in 1 .. (i + 1) - 1
    BY <1>1
  <2> QED
    BY <1>3, <2>1, <2>2 DEF Before
<1>4. ASSUME After(s, 1, x) PROVE Never(t, x)
  <2>1. ASSUME NEW j \in 1 .. Len(t) PROVE t[j] # x
    <3>1. j + 1 \in 1 + 1 .. Len(s)
      BY <1>1
    <3> QED
      BY <1>1, <1>4, <3>1 DEF After
  <2> QED
    BY <2>1 DEF Never
<1>5. ASSUME Never(t, x) PROVE After(s, 1, x)
  <2>1. ASSUME NEW j \in 1 + 1 .. Len(s) PROVE s[j] # x
    <3>1. j - 1 \in 1 .. Len(t) /\ (j - 1) + 1 = j
      BY <1>1
    <3> QED
      BY <1>1, <1>5, <3>1 DEF Never
  <2> QED
    BY <2>1 DEF After
<1>6. ASSUME Never(s, x) PROVE Never(t, x) /\ s[1] # x
  BY <1>1, <1>6 DEF Never
<1> QED
  BY <1>1, <1>2, <1>3, <1>4, <1>5, <1>6 DEF t

Delivers(o) ==
    /\ ClientActs(o) /\ wire[o] # <<>> /\ wire'[o] = Tail(wire[o])
    /\ late'[o] = late[o] /\ (o \in asked' <=> o \in asked)

(* Sums again: a word passes from one queue to the next, or is dropped.    *)
LEMMA Passed ==
    ASSUME NEW g \in Nat, NEW p \in Nat, NEW q \in Nat, NEW h \in Nat, NEW v \in Nat
    PROVE  g + (p + v) + q + h = g + p + (q + v) + h
OBVIOUS

LEMMA Fewer ==
    ASSUME NEW g \in Nat, NEW p \in Nat, NEW p1 \in Nat, NEW q \in Nat, NEW h \in Nat,
           NEW v \in Nat, p >= p1 + v
    PROVE  g + v + p1 + q + h <= g + p + q + h /\ g + v + p1 + q + h \in Int
OBVIOUS

LEMMA NatIsInt == \A n \in Nat : n \in Int
OBVIOUS

(* A message that schedules a call.                                        *)
LEMMA DeliverQueued ==
    ASSUME Types, CourseTypes, NEW o \in Orders, Course(o), Delivers(o),
           NEW c \in Calls, Passes(Head(wire[o]), c), calls'[o] = Append(calls[o], c),
           verifying'[o] = verifying[o]
    PROVE  Told(o)' /\ Booked(o)' /\ Sequenced(o)'
<1> DEFINE w == wire[o]
           s == calls[o]
           msg == Head(wire[o])
<1>1. /\ ClientActs(o) /\ w # <<>> /\ wire'[o] = Tail(w)
      /\ late'[o] = late[o] /\ (o \in asked' <=> o \in asked)
  BY DEF Delivers
<1>2. /\ c \in Called \ {PendingCall} /\ (c = FillCall <=> msg = FillMsg)
      /\ (c = FilledCall <=> msg = FilledMsg) /\ (c = CancelCall <=> msg = Verdict)
      /\ msg # CancelMsg
  BY DEF Passes
<1>3. w \in Seq(Sent) /\ s \in Seq(Calls) /\ late[o] \in Nat /\ verifying[o] \in Nat
  BY DEF Types
<1>4. /\ SameBook(o) /\ broker'[o] = broker[o] /\ spurious'[o] = spurious[o] /\ lates'[o] = lates[o]
      /\ executed'[o] = executed[o]
  BY <1>1 DEF ClientActs
<1>5. Told(o) /\ Booked(o) /\ Sequenced(o)
  BY DEF Course
<1>6. /\ Len(Tail(w)) \in Nat
      /\ \A i \in 1 .. Len(Tail(w)) : i + 1 \in 1 .. Len(w) /\ Tail(w)[i] = w[i + 1]
      /\ msg = w[1] /\ 1 \in 1 .. Len(w)
  BY <1>1, <1>3, Shorter
<1>7. /\ Len(s) \in Nat
      /\ \A i \in 1 .. Len(s) : Append(s, c)[i] = s[i]
      /\ \A i \in 1 .. Len(Append(s, c)) :
            i \in 1 .. Len(s) \/ (i = Len(s) + 1 /\ Append(s, c)[i] = c)
  BY <1>3, Longer
<1>8. msg \in Spoken /\ (msg = FilledMsg => broker[o] = "filled")
  BY <1>5, <1>6 DEF Told
<1> HIDE DEF w, s, msg
<1>9. Told(o)'
  <2>1. ASSUME NEW i \in 1 .. Len(Tail(w))
        PROVE  /\ Tail(w)[i] \in Spoken /\ (Tail(w)[i] = FilledMsg => broker[o] = "filled")
    BY <1>5, <1>6 DEF Told, w
  <2>2. ASSUME NEW i \in 1 .. Len(Append(s, c)), i \in 1 .. Len(s)
        PROVE  /\ Append(s, c)[i] \in Called
               /\ Append(s, c)[i] = FilledCall => broker[o] = "filled"
               /\ Append(s, c)[i] = PendingCall => o \in asked
    BY <1>5, <1>7, <2>2 DEF Told, s
  <2>3. ASSUME NEW i \in 1 .. Len(Append(s, c)), Append(s, c)[i] = c
        PROVE  /\ Append(s, c)[i] \in Called
               /\ Append(s, c)[i] = FilledCall => broker[o] = "filled"
               /\ Append(s, c)[i] = PendingCall => o \in asked
    BY <1>2, <1>8, <2>3
  <2>4. wire'[o] = Tail(w) /\ calls'[o] = Append(s, c)
    BY <1>1 DEF s
  <2> QED
    BY <1>1, <1>4, <1>7, <2>1, <2>2, <2>3, <2>4 DEF Told
<1>10. Booked(o)'
  <2> DEFINE x == CountIn(w, {FillMsg})
             x1 == CountIn(Tail(w), {FillMsg})
             y == CountIn(s, {FillCall})
             y1 == CountIn(Append(s, c), {FillCall})
             p == CountIn(w, {CancelMsg, Verdict})
             p1 == CountIn(Tail(w), {CancelMsg, Verdict})
             q == CountIn(s, {CancelCall})
             q1 == CountIn(Append(s, c), {CancelCall})
             h == IF entry[o].last = "Cancelled" THEN 1 ELSE 0
             f == IF msg = FillMsg THEN 1 ELSE 0
             v == IF msg = Verdict THEN 1 ELSE 0
  <2>1. x = x1 + f /\ p = p1 + v
    <3>1. x = x1 + (IF msg \in {FillMsg} THEN 1 ELSE 0)
      BY <1>1, <1>3, CountTail DEF msg, w
    <3>2. p = p1 + (IF msg \in {CancelMsg, Verdict} THEN 1 ELSE 0)
      BY <1>1, <1>3, CountTail DEF msg, w
    <3> QED
      BY <1>2, <3>1, <3>2
  <2>2. y1 = y + f /\ q1 = q + v
    <3>1. y1 = y + (IF c \in {FillCall} THEN 1 ELSE 0)
      BY <1>3, CountAppend
    <3>2. q1 = q + (IF c \in {CancelCall} THEN 1 ELSE 0)
      BY <1>3, CountAppend
    <3> QED
      BY <1>2, <3>1, <3>2
  <2>3. x1 \in Nat /\ p1 \in Nat /\ y \in Nat /\ q \in Nat
    <3>1. Tail(w) \in Seq(Sent)
      BY <1>1, <1>3, Shorter
    <3> QED
      BY <1>3, <3>1, CountType
  <2>4. f \in Nat /\ v \in Nat /\ h \in Nat
    OBVIOUS
  <2>5. /\ Pending(o) = late[o] + x + y /\ Pending(o)' = late[o] + x1 + y1
        /\ Cancelling(o) = verifying[o] + p + q + h /\ Cancelling(o)' = verifying[o] + p1 + q1 + h
    BY <1>1, <1>4 DEF Pending, Cancelling, SameBook, w, s
  <2> HIDE DEF x, x1, y, y1, p, p1, q, q1, h, f, v
  <2>6. Pending(o)' = Pending(o)
    BY <1>3, <2>1, <2>2, <2>3, <2>4, <2>5
  <2>7. Cancelling(o)' = Cancelling(o)
    <3> DEFINE g == verifying[o]
    <3>1. g \in Nat /\ p1 \in Nat /\ q \in Nat /\ h \in Nat /\ v \in Nat
      BY <1>3, <2>3, <2>4
    <3>2. Cancelling(o) = g + (p1 + v) + q + h /\ Cancelling(o)' = g + p1 + (q + v) + h
      BY <2>1, <2>2, <2>5, Zenon
    <3> HIDE DEF g
    <3>3. g + (p1 + v) + q + h = g + p1 + (q + v) + h
      BY <3>1, Passed
    <3> QED
      BY <3>2, <3>3, Zenon
  <2>8. spurious[o] \in Nat
    BY DEF CourseTypes
  <2>9. Cancelling(o)' <= Cancelling(o) /\ Cancelling(o) \in Int /\ Cancelling(o)' \in Int
    BY <2>7, Counted
  <2> QED
    BY <1>1, <2>6, <2>8, <2>9, ClientBooked
<1>11. Sequenced(o)'
  <2> SUFFICES ASSUME Opened(o)', Regular(o)'
               PROVE  /\ \A i \in 1 .. Len(Tail(w)) : OnTheWire(o, i)'
                      /\ \A i \in 1 .. Len(Append(s, c)) : InTheQueue(o, i)'
    BY <1>1 DEF Sequenced, s
  <2>1. Opened(o) /\ Regular(o)
    BY <1>1, <1>4 DEF Opened, Regular, SameBook
  <2>2. /\ \A i \in 1 .. Len(w) : OnTheWire(o, i)
        /\ \A i \in 1 .. Len(s) : InTheQueue(o, i)
    BY <1>5, <2>1 DEF Sequenced, w, s
  <2>3. Early(o)' = Early(o)
    BY <1>4 DEF Early, SameBook
  <2>4. wire'[o] = Tail(w) /\ calls'[o] = Append(s, c)
    BY <1>1 DEF s
  <2>5. ASSUME NEW i \in 1 .. Len(Tail(w)) PROVE OnTheWire(o, i)'
    <3>1. i + 1 \in 1 .. Len(w) /\ Tail(w)[i] = w[i + 1] /\ OnTheWire(o, i + 1)
      BY <1>6, <2>2
    <3>2. /\ After(w, i + 1, FillMsg) => After(Tail(w), i, FillMsg)
          /\ Before(w, i + 1, Verdict) => Before(Tail(w), i, Verdict) /\ msg # Verdict
      BY <1>1, <1>3, ShorterAfter DEF msg, w
    <3>3. ASSUME Tail(w)[i] = FilledMsg PROVE After(Tail(w), i, FillMsg)
      BY <3>1, <3>2, <3>3 DEF OnTheWire, w
    <3>4. ASSUME Tail(w)[i] = Verdict
          PROVE  \/ broker[o] \in Done /\ After(Tail(w), i, FillMsg)
                 \/ Early(o) /\ Never(Append(s, c), CancelCall) /\ Before(Tail(w), i, Verdict)
      <4>1. \/ broker[o] \in Done /\ After(w, i + 1, FillMsg)
            \/ Early(o) /\ Never(s, CancelCall) /\ Before(w, i + 1, Verdict)
        BY <3>1, <3>4 DEF OnTheWire, w, s
      <4>2. msg # Verdict /\ Never(s, CancelCall) => Never(Append(s, c), CancelCall)
        BY <1>2, <1>3, LongerAfter
      <4> QED
        BY <3>2, <4>1, <4>2
    <3> QED
      BY <1>4, <2>3, <2>4, <3>3, <3>4 DEF OnTheWire
  <2>6. ASSUME NEW i \in 1 .. Len(s) PROVE InTheQueue(o, i)'
    <3>1. Append(s, c)[i] = s[i] /\ InTheQueue(o, i)
      BY <1>7, <2>2
    <3>2. Never(w, FillMsg) => Never(Tail(w), FillMsg) /\ c # FillCall
      BY <1>1, <1>2, <1>3, ShorterAfter DEF msg, w
    <3>3. /\ After(s, i, FillCall) /\ c # FillCall => After(Append(s, c), i, FillCall)
          /\ Before(s, i, CancelCall) => Before(Append(s, c), i, CancelCall)
      BY <1>3, LongerAfter, LongerBefore
    <3>4. ASSUME s[i] = FilledCall
          PROVE  After(Append(s, c), i, FillCall) /\ Never(Tail(w), FillMsg)
      BY <3>1, <3>2, <3>3, <3>4 DEF InTheQueue, w, s
    <3>5. ASSUME s[i] = CancelCall
          PROVE  \/ broker[o] \in Done /\ After(Append(s, c), i, FillCall) /\ Never(Tail(w), FillMsg)
                 \/ Early(o) /\ Before(Append(s, c), i, CancelCall)
      BY <3>1, <3>2, <3>3, <3>5 DEF InTheQueue, w, s
    <3> QED
      BY <1>4, <2>3, <2>4, <3>1, <3>4, <3>5 DEF InTheQueue
  <2>7. ASSUME NEW i, i = Len(s) + 1, Append(s, c)[i] = c PROVE InTheQueue(o, i)'
    <3>1. After(Append(s, c), i, FillCall)
      BY <1>3, <2>7, LongerBefore
    <3>2. OnTheWire(o, 1) /\ w[1] = msg
      BY <1>6, <2>2
    <3>3. After(w, 1, FillMsg) => Never(Tail(w), FillMsg)
      BY <1>1, <1>3, ShorterAfter
    <3>4. ASSUME c = FilledCall PROVE Never(Tail(w), FillMsg)
      BY <1>2, <3>2, <3>3, <3>4 DEF OnTheWire, w
    <3>5. ASSUME c = CancelCall
          PROVE  \/ broker[o] \in Done /\ Never(Tail(w), FillMsg)
                 \/ Early(o) /\ Before(Append(s, c), i, CancelCall)
      <4>1. \/ broker[o] \in Done /\ After(w, 1, FillMsg)
            \/ Early(o) /\ Never(s, CancelCall)
        BY <1>2, <3>2, <3>5 DEF OnTheWire, w, s
      <4>2. Never(s, CancelCall) => Before(Append(s, c), i, CancelCall)
        BY <1>3, <2>7, LongerBefore
      <4> QED
        BY <3>3, <4>1, <4>2
    <3> QED
      BY <1>4, <2>3, <2>4, <2>7, <3>1, <3>4, <3>5 DEF InTheQueue
  <2> QED
    BY <1>7, <2>5, <2>6, <2>7
<1> QED
  BY <1>9, <1>10, <1>11

(* A message that the client keeps to itself.                              *)
LEMMA DeliverKept ==
    ASSUME Types, CourseTypes, NEW o \in Orders, Course(o), Delivers(o),
           Head(wire[o]) \notin {FillMsg, FilledMsg}, calls'[o] = calls[o],
           verifying'[o] = verifying[o] + IF Head(wire[o]) = CancelMsg THEN 1 ELSE 0
    PROVE  Told(o)' /\ Booked(o)' /\ Sequenced(o)'
<1> DEFINE w == wire[o]
           s == calls[o]
           msg == Head(wire[o])
<1>1. /\ ClientActs(o) /\ w # <<>> /\ wire'[o] = Tail(w)
      /\ late'[o] = late[o] /\ (o \in asked' <=> o \in asked)
  BY DEF Delivers
<1>2. w \in Seq(Sent) /\ s \in Seq(Calls) /\ late[o] \in Nat /\ verifying[o] \in Nat
  BY DEF Types
<1>3. /\ SameBook(o) /\ broker'[o] = broker[o] /\ spurious'[o] = spurious[o] /\ lates'[o] = lates[o]
      /\ executed'[o] = executed[o]
  BY <1>1 DEF ClientActs
<1>4. Told(o) /\ Booked(o) /\ Sequenced(o)
  BY DEF Course
<1>5. /\ Len(Tail(w)) \in Nat
      /\ \A i \in 1 .. Len(Tail(w)) : i + 1 \in 1 .. Len(w) /\ Tail(w)[i] = w[i + 1]
  BY <1>1, <1>2, Shorter
<1> HIDE DEF w, s, msg
<1>6. Told(o)'
  <2>1. ASSUME NEW i \in 1 .. Len(Tail(w))
        PROVE  /\ Tail(w)[i] \in Spoken /\ (Tail(w)[i] = FilledMsg => broker[o] = "filled")
    BY <1>4, <1>5 DEF Told, w
  <2> QED
    BY <1>1, <1>3, <1>4, <2>1 DEF Told
<1>7. Booked(o)'
  <2> DEFINE x == CountIn(w, {FillMsg})
             x1 == CountIn(Tail(w), {FillMsg})
             y == CountIn(s, {FillCall})
             p == CountIn(w, {CancelMsg, Verdict})
             p1 == CountIn(Tail(w), {CancelMsg, Verdict})
             q == CountIn(s, {CancelCall})
             h == IF entry[o].last = "Cancelled" THEN 1 ELSE 0
             v == IF msg = CancelMsg THEN 1 ELSE 0
  <2>1. x = x1 /\ p >= p1 + v /\ x1 \in Nat /\ p1 \in Nat /\ p \in Nat
    <3>1. x = x1 + (IF msg \in {FillMsg} THEN 1 ELSE 0)
      BY <1>1, <1>2, CountTail DEF msg, w
    <3>2. p = p1 + (IF msg \in {CancelMsg, Verdict} THEN 1 ELSE 0)
      BY <1>1, <1>2, CountTail DEF msg, w
    <3>3. Tail(w) \in Seq(Sent)
      BY <1>1, <1>2, Shorter
    <3>4. x1 \in Nat /\ p1 \in Nat /\ p \in Nat
      BY <1>2, <3>3, CountType
    <3>5. msg # FillMsg
      BY DEF msg
    <3> QED
      BY <3>1, <3>2, <3>4, <3>5
  <2>2. y \in Nat /\ q \in Nat
    BY <1>2, CountType
  <2>3. v \in Nat /\ h \in Nat
    OBVIOUS
  <2>4. /\ Pending(o) = late[o] + x + y /\ Pending(o)' = late[o] + x1 + y
        /\ Cancelling(o) = verifying[o] + p + q + h
        /\ Cancelling(o)' = (verifying[o] + v) + p1 + q + h
    BY <1>1, <1>3 DEF Pending, Cancelling, SameBook, w, s, msg
  <2> HIDE DEF x, x1, y, p, p1, q, h, v
  <2>5. Pending(o)' = Pending(o)
    BY <2>1, <2>4
  <2>6. spurious[o] \in Nat
    BY DEF CourseTypes
  <2>7. Cancelling(o)' <= Cancelling(o) /\ Cancelling(o) \in Int /\ Cancelling(o)' \in Int
    <3>1. verifying[o] + v + p1 + q + h <= verifying[o] + p + q + h
          /\ verifying[o] + v + p1 + q + h \in Int
      BY <1>2, <2>1, <2>2, <2>3, Fewer
    <3>2. Cancelling(o) \in Nat
      BY Counted
    <3> QED
      BY <2>4, <3>1, <3>2, Zenon, NatIsInt
  <2> QED
    BY <1>1, <2>5, <2>6, <2>7, ClientBooked
<1>8. Sequenced(o)'
  <2> SUFFICES ASSUME Opened(o)', Regular(o)'
               PROVE  /\ \A i \in 1 .. Len(Tail(w)) : OnTheWire(o, i)'
                      /\ \A i \in 1 .. Len(s) : InTheQueue(o, i)'
    BY <1>1 DEF Sequenced, s
  <2>1. Opened(o) /\ Regular(o)
    BY <1>1, <1>3 DEF Opened, Regular, SameBook
  <2>2. /\ \A i \in 1 .. Len(w) : OnTheWire(o, i)
        /\ \A i \in 1 .. Len(s) : InTheQueue(o, i)
    BY <1>4, <2>1 DEF Sequenced, w, s
  <2>3. Early(o)' = Early(o)
    BY <1>3 DEF Early, SameBook
  <2>4. wire'[o] = Tail(w) /\ calls'[o] = s
    BY <1>1 DEF s
  <2>5. ASSUME NEW i \in 1 .. Len(Tail(w)) PROVE OnTheWire(o, i)'
    <3>1. i + 1 \in 1 .. Len(w) /\ Tail(w)[i] = w[i + 1] /\ OnTheWire(o, i + 1)
      BY <1>5, <2>2
    <3>2. /\ After(w, i + 1, FillMsg) => After(Tail(w), i, FillMsg)
          /\ Before(w, i + 1, Verdict) => Before(Tail(w), i, Verdict)
      BY <1>1, <1>2, ShorterAfter
    <3>3. ASSUME Tail(w)[i] = FilledMsg PROVE After(Tail(w), i, FillMsg)
      BY <3>1, <3>2, <3>3 DEF OnTheWire, w
    <3>4. ASSUME Tail(w)[i] = Verdict
          PROVE  \/ broker[o] \in Done /\ After(Tail(w), i, FillMsg)
                 \/ Early(o) /\ Never(s, CancelCall) /\ Before(Tail(w), i, Verdict)
      BY <3>1, <3>2, <3>4 DEF OnTheWire, w, s
    <3> QED
      BY <1>3, <2>3, <2>4, <3>3, <3>4 DEF OnTheWire
  <2>6. ASSUME NEW i \in 1 .. Len(s) PROVE InTheQueue(o, i)'
    <3>1. Never(w, FillMsg) => Never(Tail(w), FillMsg)
      BY <1>1, <1>2, ShorterAfter
    <3> QED
      BY <1>3, <2>2, <2>3, <2>4, <3>1 DEF InTheQueue, w, s
  <2> QED
    BY <2>5, <2>6
<1> QED
  BY <1>6, <1>7, <1>8

(* The client takes a message from the wire.                               *)
LEMMA DeliverCourse ==
    ASSUME EventsInv, CourseAll, NEW o \in Orders, Deliver(o)
    PROVE  CourseAll'
<1>1. /\ wire[o] # <<>> /\ wire' = [wire EXCEPT ![o] = Tail(wire[o])]
      /\ UNCHANGED <<tracked, entry, evicted, out, broker, ibPosition>>
      /\ UNCHANGED <<late, updates>>
      /\ Heard(o, Head(wire[o]))
  BY DeliverEffect
<1>2. UNCHANGED <<executed, lates, spurious, asked, foreign>>
  BY Zenon DEF Deliver, brokerVars
<1>3. /\ Types /\ CourseTypes /\ Course(o) /\ wire[o] \in Seq(Sent) /\ broker[o] # "none"
      /\ verifying \in [Orders -> Nat] /\ calls \in [Orders -> Seq(Calls)]
      /\ wire \in [Orders -> Seq(Sent)] /\ late \in [Orders -> Nat]
  BY <1>1 DEF EventsInv, Types, CourseAll, Local, Unplaced
<1>4. /\ \E x : calls' = [calls EXCEPT ![o] = x]
      /\ \E x : verifying' = [verifying EXCEPT ![o] = x]
  BY <1>1, <1>3 DEF Heard
<1>5. \A p \in Orders : SameBook(p)
  BY <1>1 DEF SameBook, FirstTerminal, Terminals
<1>6. Delivers(o)
  BY <1>1, <1>2, <1>3, <1>5 DEF Delivers, ClientActs
<1>7. Head(wire[o]) \in Spoken
  BY <1>1, <1>3, Shorter DEF Course, Told
<1>8. Told(o)' /\ Booked(o)' /\ Sequenced(o)'
  <2>1. CASE \E c : Passes(Head(wire[o]), c) /\ Queues(o, c)
    <3>1. PICK c : Passes(Head(wire[o]), c) /\ Queues(o, c)
      BY <2>1
    <3>2. c \in Calls
      <4>1. "Submitted" \in Statuses /\ "Filled" \in Statuses /\ "Cancelled" \in Statuses
            /\ "Inactive" \in Statuses /\ "PendingCancel" \in Statuses
        BY DEF Statuses, Preroute, TerminalStatuses, Cancels
      <4> QED
        BY <3>1, <4>1, MessageTypes
           DEF Passes, Called, FilledCall, CancelCall, RefusalCall, PendingCall
    <3>3. calls'[o] = Append(calls[o], c) /\ verifying'[o] = verifying[o]
      BY <1>3, <3>1 DEF Queues
    <3> QED
      BY <1>3, <1>6, <3>1, <3>2, <3>3, DeliverQueued
  <2>2. CASE Keeps(o, Head(wire[o]))
    <3>1. /\ Head(wire[o]) \notin {FillMsg, FilledMsg} /\ calls'[o] = calls[o]
          /\ verifying'[o] = verifying[o] + IF Head(wire[o]) = CancelMsg THEN 1 ELSE 0
      BY <1>3, <2>2 DEF Keeps
    <3> QED
      BY <1>3, <1>6, <3>1, DeliverKept
  <2> QED
    BY <1>1, <1>3, <1>7, <2>1, <2>2, DeliverSays
<1>9. Course(o)'
  BY <1>3, <1>6, <1>8, ClientCourse DEF Delivers
<1>10. ASSUME NEW p \in Orders, p # o PROVE Untouched(p)
  BY <1>1, <1>2, <1>3, <1>4, <1>5, <1>10 DEF Untouched
<1>11. CourseTypes'
  BY <1>2, <1>3 DEF CourseTypes
<1> QED
  BY <1>2, <1>9, <1>10, <1>11, ElsewhereCourse

(* Sums once more: a late fill joins the queue.                            *)
LEMMA OneOn ==
    ASSUME NEW l \in Nat, NEW x \in Nat, NEW y \in Nat
    PROVE  (l - 1) + x + (y + 1) = l + x + y
OBVIOUS

(* A late execDetails comes at last.                                       *)
LEMMA DeliverLateCourse ==
    ASSUME EventsInv, CourseAll, NEW o \in Orders, DeliverLate(o)
    PROVE  CourseAll'
<1> DEFINE s == calls[o]
<1>1. /\ late[o] > 0
      /\ late' = [late EXCEPT ![o] = late[o] - 1]
      /\ calls' = [calls EXCEPT ![o] = Append(calls[o], FillCall)]
      /\ UNCHANGED <<tracked, entry, broker, ibPosition>>
      /\ UNCHANGED <<wire, verifying, updates>>
      /\ UNCHANGED <<executed, lates, spurious, asked, foreign>>
  BY Zenon DEF DeliverLate, Schedule, ledgerVars, wrapperVars, relayVars
<1>2. /\ Types /\ CourseTypes /\ Course(o) /\ broker[o] # "none"
      /\ calls \in [Orders -> Seq(Calls)] /\ late \in [Orders -> Nat]
      /\ s \in Seq(Calls) /\ FillCall \in Calls
  BY <1>1, MessageTypes DEF EventsInv, Types, CourseAll, Local, Unplaced
<1>3. \A p \in Orders : SameBook(p)
  BY <1>1 DEF SameBook, FirstTerminal, Terminals
<1>4. late[o] \in Nat /\ late'[o] = late[o] - 1 /\ calls'[o] = Append(s, FillCall)
  BY <1>1, <1>2
<1>5. ClientActs(o)
  BY <1>1, <1>2, <1>3, <1>4 DEF ClientActs
<1>6. Told(o)'
  <2>1. ASSUME NEW i \in 1 .. Len(Append(s, FillCall))
        PROVE  /\ Append(s, FillCall)[i] \in Called
               /\ Append(s, FillCall)[i] = FilledCall => broker[o] = "filled"
               /\ Append(s, FillCall)[i] = PendingCall => o \in asked
    <3>1. CASE i \in 1 .. Len(s)
      <4>1. Append(s, FillCall)[i] = s[i]
        BY <1>2, <3>1, Longer
      <4> QED
        BY <1>2, <3>1, <4>1 DEF Course, Told
    <3>2. CASE Append(s, FillCall)[i] = FillCall
      BY <3>2, CallWords DEF Called
    <3> QED
      BY <1>2, <3>1, <3>2, Longer
  <2> HIDE DEF s
  <2> QED
    BY <1>1, <1>2, <1>4, <2>1 DEF Course, Told
<1>7. Booked(o)'
  <2> DEFINE x == CountIn(wire[o], {FillMsg})
             y == CountIn(s, {FillCall})
             y1 == CountIn(Append(s, FillCall), {FillCall})
  <2>1. y1 = y + 1 /\ x \in Nat /\ y \in Nat
    <3>1. y1 = y + (IF FillCall \in {FillCall} THEN 1 ELSE 0)
      BY <1>2, CountAppend
    <3>2. x \in Nat /\ y \in Nat
      BY <1>2, Counted
    <3> QED
      BY <3>1, <3>2
  <2>2. CountIn(calls'[o], {CancelCall}) = CountIn(s, {CancelCall})
    <3>1. CountIn(calls'[o], {CancelCall})
            = CountIn(s, {CancelCall}) + (IF FillCall \in {CancelCall} THEN 1 ELSE 0)
      BY <1>2, <1>4, CountAppend
    <3>2. CountIn(s, {CancelCall}) \in Nat /\ FillCall \notin {CancelCall}
      BY <1>2, CallWords, Counted
    <3> QED
      BY <3>1, <3>2
  <2>3. Cancelling(o)' = Cancelling(o)
    BY <1>1, <2>2 DEF Cancelling
  <2>4. Pending(o) = late[o] + x + y /\ Pending(o)' = (late[o] - 1) + x + y1
    BY <1>1, <1>4 DEF Pending
  <2> HIDE DEF x, y, y1
  <2>5. Pending(o)' = Pending(o)
    <3>1. (late[o] - 1) + x + (y + 1) = late[o] + x + y
      BY <1>4, <2>1, OneOn
    <3> QED
      BY <2>1, <2>4, <3>1, Zenon
  <2>6. Cancelling(o) \in Nat /\ spurious[o] \in Nat
    BY <1>2, Counted DEF CourseTypes
  <2>7. Cancelling(o)' <= Cancelling(o) /\ Cancelling(o) \in Int /\ Cancelling(o)' \in Int
    BY <2>3, <2>6
  <2> QED
    BY <1>2, <1>5, <2>5, <2>6, <2>7, ClientBooked
<1>8. Sequenced(o)'
  <2>1. lates[o] # 0
    <3>1. late[o] <= lates[o] /\ lates[o] \in Nat
      BY <1>2 DEF Course, AtIB, CourseTypes
    <3> QED
      BY <1>1, <1>4, <3>1
  <2> QED
    BY <1>1, <2>1 DEF Sequenced, Regular
<1>9. Course(o)'
  BY <1>2, <1>4, <1>5, <1>6, <1>7, <1>8, ClientCourse
<1>10. ASSUME NEW p \in Orders, p # o PROVE Untouched(p)
  BY <1>1, <1>2, <1>3, <1>10 DEF Untouched
<1>11. CourseTypes'
  BY <1>1, <1>2 DEF CourseTypes
<1> QED
  BY <1>1, <1>9, <1>10, <1>11, ElsewhereCourse

(* The engine asks for a cancel.                                           *)
LEMMA AskCancelCourse ==
    ASSUME EventsInv, CourseAll, NEW o \in Orders, AskCancel(o)
    PROVE  CourseAll'
<1> DEFINE s == calls[o]
<1>1. /\ broker[o] # "none" /\ asked' = asked \cup {o}
      /\ calls' = [calls EXCEPT ![o] = Append(calls[o], PendingCall)]
      /\ UNCHANGED <<tracked, entry, broker, ibPosition>>
      /\ UNCHANGED <<late, wire, verifying, updates>>
      /\ UNCHANGED <<executed, lates, spurious, foreign>>
  BY Zenon DEF AskCancel, Schedule, PendingCall, ledgerVars, relayVars
<1>2. /\ Types /\ CourseTypes /\ Course(o)
      /\ calls \in [Orders -> Seq(Calls)] /\ late[o] \in Nat
      /\ s \in Seq(Calls) /\ PendingCall \in Calls
  <2>1. "PendingCancel" \in Statuses
    BY DEF Statuses
  <2> QED
    BY <2>1, MessageTypes DEF EventsInv, Types, CourseAll, PendingCall
<1>3. \A p \in Orders : SameBook(p)
  BY <1>1 DEF SameBook, FirstTerminal, Terminals
<1>4. calls'[o] = Append(s, PendingCall)
  BY <1>1, <1>2
<1>5. ClientActs(o)
  BY <1>1, <1>2, <1>3 DEF ClientActs
<1>6. PendingCall \notin {FillCall, FilledCall, CancelCall} /\ PendingCall \in Called
  BY CallWords DEF Called
<1>7. Told(o)'
  <2>1. ASSUME NEW i \in 1 .. Len(Append(s, PendingCall))
        PROVE  /\ Append(s, PendingCall)[i] \in Called
               /\ Append(s, PendingCall)[i] = FilledCall => broker[o] = "filled"
    <3>1. CASE i \in 1 .. Len(s)
      <4>1. Append(s, PendingCall)[i] = s[i]
        BY <1>2, <3>1, Longer
      <4> QED
        BY <1>2, <3>1, <4>1 DEF Course, Told
    <3>2. CASE Append(s, PendingCall)[i] = PendingCall
      BY <1>6, <3>2
    <3> QED
      BY <1>2, <3>1, <3>2, Longer
  <2>2. o \in asked'
    BY <1>1
  <2> HIDE DEF s
  <2> QED
    BY <1>1, <1>2, <1>4, <2>1, <2>2 DEF Course, Told
<1>8. Booked(o)'
  <2>1. /\ CountIn(calls'[o], {FillCall}) = CountIn(s, {FillCall})
        /\ CountIn(calls'[o], {CancelCall}) = CountIn(s, {CancelCall})
    <3>1. /\ CountIn(calls'[o], {FillCall})
                = CountIn(s, {FillCall}) + (IF PendingCall \in {FillCall} THEN 1 ELSE 0)
          /\ CountIn(calls'[o], {CancelCall})
                = CountIn(s, {CancelCall}) + (IF PendingCall \in {CancelCall} THEN 1 ELSE 0)
      BY <1>2, <1>4, CountAppend
    <3>2. CountIn(s, {FillCall}) \in Nat /\ CountIn(s, {CancelCall}) \in Nat
      BY <1>2, Counted
    <3> QED
      BY <1>6, <3>1, <3>2
  <2>2. Cancelling(o)' = Cancelling(o) /\ Pending(o)' = Pending(o)
    BY <1>1, <2>1 DEF Cancelling, Pending
  <2>3. Cancelling(o) \in Nat /\ spurious[o] \in Nat
    BY <1>2, Counted DEF CourseTypes
  <2>4. Cancelling(o)' <= Cancelling(o) /\ Cancelling(o) \in Int /\ Cancelling(o)' \in Int
    BY <2>2, <2>3
  <2> QED
    BY <1>2, <1>5, <2>2, <2>3, <2>4, ClientBooked
<1>9. Sequenced(o)'
  <2> SUFFICES ASSUME Opened(o)', Regular(o)'
               PROVE  /\ \A i \in 1 .. Len(wire[o]) : OnTheWire(o, i)'
                      /\ \A i \in 1 .. Len(Append(s, PendingCall)) : InTheQueue(o, i)'
    BY <1>1, <1>4 DEF Sequenced
  <2>1. Opened(o) /\ Regular(o)
    BY <1>1, <1>3 DEF Opened, Regular, SameBook
  <2>2. /\ \A i \in 1 .. Len(wire[o]) : OnTheWire(o, i)
        /\ \A i \in 1 .. Len(s) : InTheQueue(o, i)
    BY <1>2, <2>1 DEF Course, Sequenced
  <2>3. Early(o)' = Early(o)
    BY <1>1 DEF Early
  <2>4. Never(s, CancelCall) => Never(Append(s, PendingCall), CancelCall)
    BY <1>2, <1>6, LongerAfter
  <2>5. ASSUME NEW i \in 1 .. Len(wire[o]) PROVE OnTheWire(o, i)'
    BY <1>1, <1>4, <2>2, <2>3, <2>4 DEF OnTheWire
  <2>6. ASSUME NEW i \in 1 .. Len(s) PROVE InTheQueue(o, i)'
    <3>1. Append(s, PendingCall)[i] = s[i]
      BY <1>2, Longer
    <3>2. /\ After(s, i, FillCall) => After(Append(s, PendingCall), i, FillCall)
          /\ Before(s, i, CancelCall) => Before(Append(s, PendingCall), i, CancelCall)
      BY <1>2, <1>6, LongerAfter, LongerBefore
    <3>3. InTheQueue(o, i)
      BY <2>2
    <3> QED
      BY <1>1, <1>4, <2>3, <3>1, <3>2, <3>3 DEF InTheQueue
  <2>7. ASSUME NEW i, Append(s, PendingCall)[i] = PendingCall PROVE InTheQueue(o, i)'
    BY <1>4, <1>6, <2>7 DEF InTheQueue
  <2> QED
    BY <1>2, <2>5, <2>6, <2>7, Longer
<1>10. Course(o)'
  BY <1>2, <1>5, <1>7, <1>8, <1>9, ClientCourse
<1>11. ASSUME NEW p \in Orders, p # o PROVE Untouched(p)
  BY <1>1, <1>2, <1>3, <1>11 DEF Untouched
<1>12. CourseTypes'
  BY <1>1, <1>2 DEF CourseTypes
<1> QED
  BY <1>1, <1>10, <1>11, <1>12, ElsewhereCourse

(* IB answers which orders are open: not this one, if it is done with it   *)
(* or if it is moving it, the first cancel of a regular order.             *)
LEMMA AskOpenOrdersCourse ==
    ASSUME EventsInv, CourseAll, NEW o \in Orders, AskOpenOrders(o)
    PROVE  CourseAll'
<1> DEFINE w == wire[o]
           msg == OpenOrdersMsg(o \in OpenAtBroker)
<1>1. /\ verifying[o] > 0
      /\ verifying' = [verifying EXCEPT ![o] = verifying[o] - 1]
      /\ wire' = [wire EXCEPT ![o] = wire[o] \o <<msg>>] \/ wire' = wire
      /\ UNCHANGED <<tracked, entry, broker, ibPosition>>
      /\ UNCHANGED <<late, calls, updates>>
      /\ UNCHANGED <<executed, lates, spurious, asked, foreign>>
  BY Zenon DEF AskOpenOrders, Send, ledgerVars, brokerVars, relayVars
<1>2. /\ Types /\ CourseTypes /\ Course(o) /\ broker[o] # "none"
      /\ broker[o] \in Working \cup Done \cup {"none"}
      /\ wire \in [Orders -> Seq(Sent)] /\ late[o] \in Nat
      /\ verifying \in [Orders -> Nat] /\ verifying[o] \in Nat
      /\ w \in Seq(Sent) /\ msg \in Sent
  <2>1. msg \in Sent
    <3>1. (o \in OpenAtBroker) \in BOOLEAN
      OBVIOUS
    <3> QED
      BY <3>1, MessageTypes
  <2> HIDE DEF msg
  <2>2. verifying[o] \in Nat /\ broker[o] # "none" /\ Types
    BY <1>1 DEF EventsInv, Types, Local, Unplaced
  <2> QED
    BY <1>1, <2>1, <2>2 DEF Types, CourseAll
<1>3. \A p \in Orders : SameBook(p)
  BY <1>1 DEF SameBook, FirstTerminal, Terminals
<1>4. verifying'[o] = verifying[o] - 1 /\ (wire'[o] = w \/ wire'[o] = Append(w, msg))
  <2>1. w \o <<msg>> = Append(w, msg)
    BY <1>2
  <2> QED
    BY <1>1, <1>2, <2>1
<1>5. ClientActs(o)
  BY <1>1, <1>2, <1>3 DEF ClientActs
<1>6. msg \in {OpenOrdersMsg(TRUE), Verdict} /\ (msg = Verdict => o \notin OpenAtBroker)
  <2>1. CASE o \in OpenAtBroker
    <3>1. (o \in OpenAtBroker) = TRUE
      BY <2>1
    <3>2. msg = OpenOrdersMsg(TRUE)
      BY <3>1
    <3> QED
      BY <3>2, Words
  <2>2. CASE o \notin OpenAtBroker
    <3>1. (o \in OpenAtBroker) = FALSE
      BY <2>2
    <3> QED
      BY <2>2, <3>1 DEF Verdict
  <2> QED
    BY <2>1, <2>2
<1>7. msg \in Spoken /\ msg # FillMsg /\ msg # FilledMsg
  BY <1>6, Words DEF Spoken
<1> HIDE DEF msg
<1>8. Told(o)'
  <2>1. ASSUME NEW i \in 1 .. Len(wire'[o])
        PROVE  wire'[o][i] \in Spoken /\ (wire'[o][i] = FilledMsg => broker[o] = "filled")
    <3>1. (i \in 1 .. Len(w) /\ wire'[o][i] = w[i]) \/ wire'[o][i] = msg
      <4>1. CASE wire'[o] = w
        BY <4>1
      <4>2. CASE wire'[o] = Append(w, msg)
        <5>1. i \in 1 .. Len(Append(w, msg)) /\ w \in Seq(Sent) /\ msg \in Sent
          BY <1>2, <4>2
        <5>2. i \in 1 .. Len(w) \/ Append(w, msg)[i] = msg
          BY <5>1, Longer
        <5>3. i \in 1 .. Len(w) => Append(w, msg)[i] = w[i]
          BY <5>1, Longer
        <5> HIDE DEF w
        <5> QED
          BY <4>2, <5>2, <5>3
      <4> QED
        BY <1>4, <4>1, <4>2
    <3>2. CASE i \in 1 .. Len(w) /\ wire'[o][i] = w[i]
      <4>1. w[i] \in Spoken /\ (w[i] = FilledMsg => broker[o] = "filled")
        BY <1>2, <3>2 DEF Course, Told
      <4> QED
        BY <3>2, <4>1
    <3>3. CASE wire'[o][i] = msg
      BY <1>7, <3>3
    <3> QED
      BY <3>1, <3>2, <3>3
  <2> QED
    BY <1>1, <1>2, <2>1 DEF Course, Told
<1> DEFINE x == CountIn(w, {FillMsg})
           x1 == CountIn(wire'[o], {FillMsg})
           p == CountIn(w, {CancelMsg, Verdict})
           p1 == CountIn(wire'[o], {CancelMsg, Verdict})
           q == CountIn(calls[o], {CancelCall})
           h == IF entry[o].last = "Cancelled" THEN 1 ELSE 0
<1>9. x1 = x /\ p \in Nat /\ p1 \in Nat /\ p1 <= p + 1 /\ q \in Nat /\ h \in Nat
  <2>1. x \in Nat /\ p \in Nat /\ q \in Nat /\ h \in Nat
    BY <1>2, Counted
  <2>2. CASE wire'[o] = w
    BY <2>1, <2>2
  <2>3. CASE wire'[o] = Append(w, msg)
    <3>1. /\ x1 = x + (IF msg \in {FillMsg} THEN 1 ELSE 0)
          /\ p1 = p + (IF msg \in {CancelMsg, Verdict} THEN 1 ELSE 0)
      BY <1>2, <2>3, CountAppend
    <3> QED
      BY <1>7, <2>1, <3>1
  <2> QED
    BY <1>4, <2>2, <2>3
<1>10. /\ Cancelling(o) = verifying[o] + p + q + h
       /\ Cancelling(o)' = (verifying[o] - 1) + p1 + q + h
  BY <1>1, <1>4 DEF Cancelling
<1>11. Booked(o)'
  <2>1. Pending(o)' = Pending(o)
    BY <1>1, <1>9 DEF Pending
  <2>2. Cancelling(o) \in Nat /\ spurious[o] \in Nat
    BY <1>2, Counted DEF CourseTypes
  <2> HIDE DEF p, p1, q, h
  <2>3. Cancelling(o)' <= Cancelling(o) /\ Cancelling(o) \in Int /\ Cancelling(o)' \in Int
    BY <1>2, <1>9, <1>10
  <2> QED
    BY <1>2, <1>5, <2>1, <2>2, <2>3, ClientBooked
<1>12. Sequenced(o)'
  <2> SUFFICES ASSUME Opened(o)', Regular(o)'
               PROVE  /\ \A i \in 1 .. Len(wire'[o]) : OnTheWire(o, i)'
                      /\ \A i \in 1 .. Len(calls[o]) : InTheQueue(o, i)'
    BY <1>1 DEF Sequenced
  <2>1. Opened(o) /\ Regular(o)
    BY <1>1, <1>3 DEF Opened, Regular, SameBook
  <2>2. /\ \A i \in 1 .. Len(w) : OnTheWire(o, i)
        /\ \A i \in 1 .. Len(calls[o]) : InTheQueue(o, i)
    BY <1>2, <2>1 DEF Course, Sequenced
  <2>3. Early(o)' = Early(o)
    BY <1>1 DEF Early
  <2>4. Never(w, FillMsg) => Never(wire'[o], FillMsg)
    BY <1>2, <1>4, <1>7, LongerAfter
  <2>5. ASSUME NEW i \in 1 .. Len(calls[o]) PROVE InTheQueue(o, i)'
    BY <1>1, <2>2, <2>3, <2>4 DEF InTheQueue
  <2>6. ASSUME NEW i \in 1 .. Len(w) PROVE OnTheWire(o, i)'
    <3>1. wire'[o][i] = w[i] /\ OnTheWire(o, i)
      BY <1>2, <1>4, <2>2, Longer
    <3>2. /\ After(w, i, FillMsg) => After(wire'[o], i, FillMsg)
          /\ Before(w, i, Verdict) => Before(wire'[o], i, Verdict)
      BY <1>2, <1>4, <1>7, LongerAfter, LongerBefore
    <3> QED
      BY <1>1, <2>3, <3>1, <3>2 DEF OnTheWire
  <2>7. ASSUME wire'[o] = Append(w, msg), NEW i, i = Len(w) + 1, Append(w, msg)[i] = msg
        PROVE  OnTheWire(o, i)'
    <3>1. After(wire'[o], i, FillMsg)
      BY <1>2, <2>7, LongerBefore
    <3>2. ASSUME msg = Verdict, broker[o] \notin Done
          PROVE  Early(o) /\ Never(calls[o], CancelCall) /\ Before(wire'[o], i, Verdict)
      <4>1. broker[o] = "moving"
        BY <1>2, <1>6, <3>2 DEF OpenAtBroker, Working
      <4>2. spurious[o] = 1
        <5>1. spurious[o] > 0 /\ spurious[o] <= 1 /\ spurious[o] \in Nat
          BY <1>2, <2>1, <4>1 DEF Course, AtIB, Regular, CourseTypes
        <5> QED
          BY <5>1
      <4>3. Cancelling(o) <= 1
        <5>1. Cancelling(o) <= spurious[o] + (IF broker[o] = "cancelled" THEN 1 ELSE 0)
          BY <1>2, <2>1 DEF Course, Booked
        <5> QED
          BY <4>1, <4>2, <5>1
      <4>4. p = 0 /\ q = 0 /\ h = 0
        <5> HIDE DEF p, q, h
        <5> QED
          BY <1>1, <1>2, <1>9, <1>10, <4>3
      <4>5. Early(o)
        BY <4>2, <4>4 DEF Early
      <4>6. Never(calls[o], CancelCall)
        <5>1. calls[o] \in Seq(Calls)
          BY <1>2 DEF Types
        <5>2. \A j \in 1 .. Len(calls[o]) : calls[o][j] \notin {CancelCall}
          BY <4>4, <5>1, CountType
        <5> QED
          BY <5>2 DEF Never
      <4>7. Never(w, Verdict)
        <5>1. \A j \in 1 .. Len(w) : w[j] \notin {CancelMsg, Verdict}
          BY <1>2, <4>4, CountType
        <5> QED
          BY <5>1 DEF Never
      <4>8. Before(wire'[o], i, Verdict)
        BY <1>2, <2>7, <4>7, LongerBefore
      <4> QED
        BY <4>5, <4>6, <4>8
    <3> QED
      BY <1>1, <1>7, <2>3, <2>7, <3>1, <3>2 DEF OnTheWire
  <2>8. ASSUME NEW i \in 1 .. Len(wire'[o]) PROVE OnTheWire(o, i)'
    <3>1. \/ i \in 1 .. Len(w)
          \/ wire'[o] = Append(w, msg) /\ i = Len(w) + 1 /\ Append(w, msg)[i] = msg
      BY <1>2, <1>4, Longer
    <3> QED
      BY <2>6, <2>7, <3>1
  <2> QED
    BY <2>5, <2>8
<1>13. Course(o)'
  BY <1>2, <1>5, <1>8, <1>11, <1>12, ClientCourse
<1>14. ASSUME NEW r \in Orders, r # o PROVE Untouched(r)
  BY <1>1, <1>2, <1>3, <1>14 DEF Untouched
<1>15. CourseTypes'
  BY <1>1, <1>2 DEF CourseTypes
<1> QED
  BY <1>1, <1>13, <1>14, <1>15, ElsewhereCourse

-----------------------------------------------------------------------------
(* The first terminal event of a stream.                                   *)

(* A set of naturals has a least element: the shortest of its intervals.   *)
LEMMA Least ==
    ASSUME NEW T \in SUBSET Nat, T # {}
    PROVE  \E x \in T : \A y \in T : x <= y
<1> DEFINE U == {1 .. x : x \in T}
<1>1. U \subseteq FiniteSubsetsOf(Nat) /\ U # {}
  <2>1. \A x \in Nat : IsFiniteSet(1 .. x) /\ 1 .. x \subseteq Nat
    <3>1. \A x \in Nat : 1 \in Int /\ x \in Int
      OBVIOUS
    <3> QED
      BY <3>1, FS_Interval
  <2>2. ASSUME NEW x \in T PROVE 1 .. x \in FiniteSubsetsOf(Nat)
    BY <2>1, <2>2 DEF FiniteSubsetsOf
  <2> QED
    BY <2>2
<1>2. \E S \in U : \A R \in U : <<R, S>> \notin StrictSubsetOrdering(Nat)
  <2> HIDE DEF U
  <2> QED
    BY <1>1, FS_StrictSubsetOrderingWellFounded, WFMin
<1>3. PICK x \in T : \A R \in U : <<R, 1 .. x>> \notin StrictSubsetOrdering(Nat)
  BY <1>2
<1>4. ASSUME NEW y \in T, y < x PROVE FALSE
  <2>1. 1 .. y \subseteq 1 .. x /\ x \in 1 .. x /\ x \notin 1 .. y /\ 1 .. x \subseteq Nat
    BY <1>4
  <2>2. <<1 .. y, 1 .. x>> \in StrictSubsetOrdering(Nat)
    BY <2>1 DEF StrictSubsetOrdering
  <2> QED
    BY <1>3, <2>2
<1> QED
  BY <1>4

(* A stream that grows keeps its first terminal event.                     *)
LEMMA FirstStays ==
    ASSUME NEW o \in Orders, NEW s \in Seq(Event), NEW ev \in Event,
           updates[o] = s, updates'[o] = Append(s, ev)
    PROVE  /\ ev.terminal = FALSE => Terminals(o)' = Terminals(o)
           /\ ev.terminal = TRUE => Terminals(o)' = Terminals(o) \cup {Len(s) + 1}
           /\ Terminals(o) # {} => FirstTerminal(o)' = FirstTerminal(o)
           /\ Terminals(o) = {} /\ ev.terminal = TRUE => FirstTerminal(o)' = ev
<1> DEFINE t == Append(s, ev)
           A == {i \in 1 .. Len(s) : s[i].terminal}
           B == {i \in 1 .. Len(t) : t[i].terminal}
           First(S) == CHOOSE x \in S : \A y \in S : x =< y
<1>1. /\ Len(s) \in Nat /\ Len(t) = Len(s) + 1 /\ t[Len(s) + 1] = ev
      /\ \A i \in 1 .. Len(s) : t[i] = s[i]
  OBVIOUS
<1>2. Terminals(o) = A /\ Terminals(o)' = B
  BY DEF Terminals
<1>3. FirstTerminal(o) = s[First(A)] /\ FirstTerminal(o)' = t[First(B)]
  BY <1>2 DEF FirstTerminal, Min
<1> HIDE DEF t
<1>4. \A i \in 1 .. Len(t) : i \in 1 .. Len(s) \/ i = Len(s) + 1
  BY <1>1
<1>5. ev.terminal = FALSE => B = A
  BY <1>1, <1>4
<1>6. ev.terminal = TRUE => B = A \cup {Len(s) + 1}
  BY <1>1, <1>4
<1>7. ev.terminal \in BOOLEAN
  BY DEF Event
<1>8. A \in SUBSET Nat /\ A \subseteq 1 .. Len(s)
  BY <1>1
<1>9. ASSUME A # {} PROVE t[First(B)] = s[First(A)]
  <2>1. PICK x \in A : \A y \in A : x <= y
    BY <1>8, <1>9, Least
  <2>2. \A y \in B : x <= y
    BY <1>1, <1>5, <1>6, <1>7, <1>8, <2>1
  <2>3. x \in B
    BY <1>5, <1>6, <1>7
  <2> HIDE DEF A, B
  <2>4. First(A) = x
    BY <1>8, <2>1
  <2>5. \A y \in B : y \in Nat
    BY <1>1, <1>4 DEF B
  <2>6. First(B) = x
    BY <2>2, <2>3, <2>5
  <2> QED
    BY <1>1, <1>8, <2>1, <2>4, <2>6
<1>10. ASSUME A = {}, ev.terminal = TRUE PROVE t[First(B)] = ev
  <2>1. B = {Len(s) + 1}
    BY <1>6, <1>10
  <2> HIDE DEF A, B
  <2>2. First(B) = Len(s) + 1
    BY <1>1, <2>1
  <2> QED
    BY <1>1, <2>2
<1> QED
  BY <1>2, <1>3, <1>5, <1>6, <1>9, <1>10

-----------------------------------------------------------------------------
(* The steps that call the ledger.                                         *)
Announces(o, ev) ==
    ev \in Event /\ updates' = [updates EXCEPT ![o] = Append(updates[o], ev)]

(* Sequences of at most one event.                                         *)
LEMMA Single ==
    ASSUME NEW T, NEW s \in Seq(T), Len(s) <= 1, s # <<>>
    PROVE  s[1] \in T /\ s = <<s[1]>>
<1>1. Len(s) = 1
  <2>1. Len(s) \in Nat /\ Len(s) # 0
    OBVIOUS
  <2>2. \A n \in Nat : n <= 1 /\ n # 0 => n = 1
    OBVIOUS
  <2> QED
    BY <2>1, <2>2, Zenon
<1> QED
  BY <1>1

LEMMA AppendOne ==
    ASSUME NEW T, NEW s \in Seq(T), NEW ev \in T, NEW t, t = <<ev>>
    PROVE  s \o t = Append(s, ev)
OBVIOUS

(* A call takes its place in the queue and adds at most one event.         *)
LEMMA RunCallStream ==
    ASSUME EventsInv, NEW o \in Orders, RunCall(o)
    PROVE  /\ calls[o] # <<>> /\ calls' = [calls EXCEPT ![o] = Tail(calls[o])]
           /\ UNCHANGED <<broker, late>> /\ UNCHANGED <<wire, ibPosition>>
           /\ UNCHANGED <<verifying, executed, lates, spurious, asked, foreign>>
           /\ updates' = updates \/ (out' # <<>> /\ Announces(o, out'[1]))
<1>1. /\ calls[o] # <<>>
      /\ calls' = [calls EXCEPT ![o] = Tail(calls[o])]
      /\ updates' = [updates EXCEPT ![o] = updates[o] \o out']
      /\ UNCHANGED <<broker, late>> /\ UNCHANGED <<wire, ibPosition>>
      /\ UNCHANGED <<verifying, executed, lates, spurious, asked, foreign>>
  BY Zenon DEF RunCall, brokerVars, wrapperVars
<1>2. updates \in [Orders -> Seq(Event)] /\ updates[o] \in Seq(Event)
  BY DEF EventsInv, Types
<1>3. out' \in Seq(Event) /\ Len(out') <= 1
  BY CallEffect DEF LedgerTypeOK
<1>4. CASE out' = <<>>
  <2>1. updates[o] \o out' = updates[o]
    BY <1>2, <1>4
  <2> QED
    BY <1>1, <1>2, <2>1
<1>5. CASE out' # <<>>
  <2>1. out'[1] \in Event /\ out' = <<out'[1]>>
    BY <1>3, <1>5, Single
  <2>2. updates[o] \o out' = Append(updates[o], out'[1])
    BY <1>2, <2>1, AppendOne
  <2> QED
    BY <1>1, <1>5, <2>1, <2>2 DEF Announces
<1> QED
  BY <1>1, <1>4, <1>5

Advances(o, f) ==
    /\ tracked' = tracked \cup {o} /\ entry' = [entry EXCEPT ![o] = f]
    /\ out' # <<>> /\ out'[1].terminal = FALSE

Finishes(o, f) == MakeTerminal(o, f, ibPosition)

(* The call of an order that has not ended moves its entry on or ends it.  *)
LEMMA OpenedCall ==
    ASSUME EventsInv, LiveOrEvicted, NEW o \in Orders, Course(o), RunCall(o), Opened(o)
    PROVE  \/ /\ Head(calls[o]) = FillCall
              /\ Advances(o, [entry[o] EXCEPT !.filled = @ + 1])
           \/ \E s \in Statuses :
                 /\ Head(calls[o]) = StatusCall(s)
                 /\ IF s \in TerminalStatuses /\ ~MightBePreroute(entry[o], s)
                    THEN Finishes(o, [entry[o] EXCEPT !.last = s])
                    ELSE Advances(o, [entry[o] EXCEPT !.last = s])
<1> DEFINE call == Head(calls[o])
<1>1. calls[o] # <<>> /\ LedgerCall(o, call)
  BY DEF RunCall
<1>2. o \in tracked /\ ~Suppressed(o)
  BY DEF Course, Booked, LiveOrEvicted, Suppressed
<1>3. call \in Calls
  BY <1>1 DEF EventsInv, Types
<1> HIDE DEF call
<1>4. CASE call.kind = "on_fill" /\ RecordFill(o, 1, Side[o], 0, Size[o])
  <2>1. call = FillCall
    BY <1>3, <1>4, Distinct DEF Calls
  <2>2. Advances(o, [entry[o] EXCEPT !.filled = @ + 1])
    BY <1>2, <1>4 DEF RecordFill, Put, Emit, Advances
  <2> QED
    BY <2>1, <2>2 DEF call
<1>5. CASE call.kind = "on_status" /\ RecordStatus(o, call.status, Side[o], o \in Tagged, ibPosition)
  <2> DEFINE s == call.status
             f == [entry[o] EXCEPT !.last = s]
  <2>1. s \in Statuses /\ call = StatusCall(s)
    BY <1>3, <1>5, CallFields
  <2> HIDE DEF s
  <2>2. IF s \in TerminalStatuses /\ ~MightBePreroute(entry[o], s)
        THEN MakeTerminal(o, f, ibPosition)
        ELSE /\ Put(o, f)
             /\ Emit(o, f, FALSE, IF s \in Cancels THEN "CancelHeld" ELSE s)
             /\ UNCHANGED evicted
    BY <1>2, <1>5 DEF RecordStatus, s
  <2>3. CASE s \in TerminalStatuses /\ ~MightBePreroute(entry[o], s)
    BY <2>1, <2>2, <2>3 DEF Finishes, call
  <2>4. CASE ~(s \in TerminalStatuses /\ ~MightBePreroute(entry[o], s))
    <3>1. Advances(o, f)
      BY <2>2, <2>4 DEF Put, Emit, Advances
    <3> QED
      BY <2>1, <2>4, <3>1 DEF call
  <2> QED
    BY <2>3, <2>4
<1> QED
  BY <1>1, <1>4, <1>5 DEF LedgerCall

(* What a terminal is credited with, and how it is called.                 *)
LEMMA Credited ==
    ASSUME NEW o \in Orders, NEW e \in Entry, NEW n \in Nat, NEW pos \in Int,
           e.target = Size[o], e.side = Side[o], e.pre \in Int \/ e.filled = 0 \/ e.filled = Size[o],
           n <= Size[o], e.filled <= n,
           0 < e.filled /\ e.filled < Size[o] =>
              /\ e.pre = 0
              /\ Signed(o, pos) = n \/ (Signed(o, pos) <= n /\ e.filled = n),
           e.filled = 0 => n = 0
    PROVE  EffectiveFilled(e, pos) = n
<1>1. Size[o] \in Nat \ {0} /\ Side[o] \in {"BUY", "SELL"} /\ NoPosition \notin Int
  BY LedgerAssumption DEF LedgerAssumption
<1>2. e.filled \in Nat
  BY DEF Entry
<1>3. CASE 0 < e.filled /\ e.filled < Size[o]
  <2>1. e.pre = 0 /\ e.side # "" /\ 0 # NoPosition /\ pos # NoPosition
    <3>1. e.pre = 0
      BY <1>3
    <3>2. e.side # ""
      BY <1>1
    <3>3. 0 \in Int
      OBVIOUS
    <3>4. 0 # NoPosition /\ pos # NoPosition
      BY <1>1, <3>3, Zenon
    <3> QED
      BY <3>1, <3>2, <3>4
  <2>2. CanDiff(e, pos)
    BY <1>3, <2>1, Zenon DEF CanDiff
  <2>3. Moved(e, pos) = Signed(o, pos)
    BY <1>1, <1>3 DEF Moved, Signed
  <2>4. Signed(o, pos) \in Int
    BY <1>1 DEF Signed
  <2> QED
    BY <1>1, <1>2, <1>3, <2>2, <2>3, <2>4 DEF EffectiveFilled
<1>4. CASE ~(0 < e.filled /\ e.filled < Size[o])
  <2>1. ~CanDiff(e, pos)
    BY <1>4, Zenon DEF CanDiff
  <2>2. e.filled = n
    <3>1. CASE e.filled = 0
      BY <3>1
    <3>2. CASE e.filled # 0
      <4>1. e.filled >= Size[o] /\ Size[o] \in Nat
        BY <1>1, <1>2, <1>4, <3>2
      <4>2. \A i, j, k \in Nat : i >= j /\ k <= j /\ i <= k => i = k
        OBVIOUS
      <4> QED
        BY <1>2, <4>1, <4>2, Zenon
    <3> QED
      BY <3>1, <3>2
  <2> QED
    BY <2>1, <2>2 DEF EffectiveFilled
<1> QED
  BY <1>3, <1>4

(* A callback takes its call from the queue.                               *)
Takes(o) ==
    /\ calls[o] # <<>> /\ calls'[o] = Tail(calls[o])
    /\ broker' = broker /\ late' = late /\ wire' = wire /\ ibPosition' = ibPosition
    /\ verifying' = verifying /\ executed' = executed /\ lates' = lates
    /\ spurious' = spurious /\ asked' = asked /\ foreign' = foreign
    /\ broker[o] # "none"

(* What is left in the queue is as true as before, and so is the call.     *)
LEMMA TakesTold ==
    ASSUME Types, NEW o \in Orders, Course(o), Takes(o)
    PROVE  /\ Told(o)'
           /\ Head(calls[o]) \in Called
           /\ Head(calls[o]) = FilledCall => broker[o] = "filled"
           /\ Head(calls[o]) = PendingCall => o \in asked
<1> DEFINE s == calls[o]
<1>1. /\ s # <<>> /\ calls'[o] = Tail(s) /\ broker' = broker /\ wire' = wire /\ asked' = asked
  BY DEF Takes
<1>2. s \in Seq(Calls) /\ Told(o)
  BY DEF Types, Course
<1>3. /\ Head(s) = s[1] /\ 1 \in 1 .. Len(s)
      /\ \A i \in 1 .. Len(Tail(s)) : i + 1 \in 1 .. Len(s) /\ Tail(s)[i] = s[i + 1]
  BY <1>1, <1>2, Shorter
<1> QED
  BY <1>1, <1>2, <1>3 DEF Told

(* An order that has ended stays as it ended.                              *)
LEMMA ClosedCourse ==
    ASSUME Types, CourseTypes, NEW o \in Orders, Course(o), Takes(o), Terminals(o) # {},
           updates' = updates \/ \E ev : Announces(o, ev)
    PROVE  Course(o)'
<1>1. Terminals(o)' # {} /\ FirstTerminal(o)' = FirstTerminal(o)
  <2>1. CASE updates' = updates
    BY <2>1 DEF Terminals, FirstTerminal
  <2>2. CASE \E ev : Announces(o, ev)
    <3>1. PICK ev \in Event : updates' = [updates EXCEPT ![o] = Append(updates[o], ev)]
      BY <2>2 DEF Announces
    <3>2. updates[o] \in Seq(Event) /\ updates'[o] = Append(updates[o], ev)
      BY <3>1 DEF Types
    <3>3. ev.terminal \in BOOLEAN
      BY DEF Event
    <3> QED
      BY <3>2, <3>3, FirstStays
  <2> QED
    BY <2>1, <2>2
<1>2. /\ broker' = broker /\ late' = late /\ ibPosition' = ibPosition
      /\ executed' = executed /\ lates' = lates
      /\ spurious' = spurious /\ asked' = asked /\ foreign' = foreign /\ broker[o] # "none"
  BY DEF Takes
<1>3. ~Opened(o)'
  BY <1>1 DEF Opened
<1>4. AtIB(o)'
  BY <1>2 DEF Course, AtIB
<1>5. Measured(o)'
  BY <1>2, <1>3 DEF Course, Measured, Alone, Signed
<1>6. Concluded(o)'
  <2>1. Alone' = Alone /\ Regular(o)' = Regular(o)
    BY <1>2 DEF Alone, Regular
  <2> QED
    BY <1>1, <1>2, <2>1 DEF Course, Concluded
<1> QED
  BY <1>3, <1>4, <1>5, <1>6, TakesTold DEF Course, Booked, Sequenced

(* What a call does to the entry of an order that goes on.                 *)
Continues(o, c, f) ==
    /\ f.target = entry[o].target /\ f.side = entry[o].side /\ f.pre = entry[o].pre
    /\ f.filled = entry[o].filled + IF c = FillCall THEN 1 ELSE 0
    /\ f.last \in {"PendingSubmit", "Submitted", "Cancelled", "PendingCancel"}
    /\ f.last = "PendingCancel" => o \in asked
    /\ f.last = "Cancelled" => entry[o].last = "Cancelled" \/ c = CancelCall
    /\ entry[o].last = "Cancelled" /\ c = CancelCall => f.last # "Cancelled"

(* Sums: a fill passes from the queue to the entry, a cancel likewise.     *)
LEMMA MovedOver ==
    ASSUME NEW g \in Nat, NEW n \in Nat, NEW l \in Nat, NEW x \in Nat, NEW y \in Nat
    PROVE  (g + n) + (l + x + y) = g + (l + x + (y + n))
OBVIOUS

LEMMA HeldOver ==
    ASSUME NEW g \in Nat, NEW p \in Nat, NEW q \in Nat, NEW h \in Nat, NEW h1 \in Nat,
           NEW k \in Nat, h1 + 0 <= h + k
    PROVE  g + p + q + h1 <= g + p + (q + k) + h
OBVIOUS

LEMMA SumOfFour ==
    ASSUME NEW a \in Nat, NEW b \in Nat, NEW c \in Nat, NEW d \in Nat
    PROVE  a + b + c + d \in Nat
OBVIOUS

(* A call that does not end its order keeps its course.                    *)
LEMMA AdvanceCourse ==
    ASSUME Types, CourseTypes, NEW o \in Orders, Course(o), Takes(o), Opened(o),
           NEW f, Continues(o, Head(calls[o]), f),
           o \in tracked', entry'[o] = f, Terminals(o)' = {}
    PROVE  Course(o)'
<1> DEFINE s == calls[o]
           c == Head(calls[o])
           e == entry[o]
<1>1. /\ s # <<>> /\ calls'[o] = Tail(s)
      /\ broker' = broker /\ late' = late /\ wire' = wire /\ ibPosition' = ibPosition
      /\ verifying' = verifying /\ executed' = executed /\ lates' = lates
      /\ spurious' = spurious /\ asked' = asked /\ foreign' = foreign
      /\ broker[o] # "none"
  BY DEF Takes
<1>2. /\ f.target = e.target /\ f.side = e.side /\ f.pre = e.pre
      /\ f.filled = e.filled + IF c = FillCall THEN 1 ELSE 0
      /\ f.last \in {"PendingSubmit", "Submitted", "Cancelled", "PendingCancel"}
      /\ f.last = "PendingCancel" => o \in asked
      /\ f.last = "Cancelled" => e.last = "Cancelled" \/ c = CancelCall
      /\ e.last = "Cancelled" /\ c = CancelCall => f.last # "Cancelled"
  BY DEF Continues
<1>3. /\ s \in Seq(Calls) /\ wire[o] \in Seq(Sent) /\ late[o] \in Nat /\ verifying[o] \in Nat
      /\ e.filled \in Nat
  BY DEF Types, LedgerTypeOK, Entry
<1>4. AtIB(o) /\ Booked(o) /\ Sequenced(o) /\ Measured(o)
  BY DEF Course
<1>5. Opened(o)'
  BY <1>1 DEF Opened
<1>6. AtIB(o)'
  BY <1>1, <1>4 DEF AtIB
<1>7. Measured(o)'
  <2>1. entry'[o].pre = e.pre
    BY <1>2
  <2> QED
    BY <1>1, <1>4, <2>1 DEF Measured, Alone, Signed
<1>8. Concluded(o)'
  BY DEF Concluded
<1>9. Told(o)'
  BY TakesTold
<1>10. Booked(o)'
  <2> DEFINE x == CountIn(wire[o], {FillMsg})
             y == CountIn(s, {FillCall})
             y1 == CountIn(Tail(s), {FillCall})
             p == CountIn(wire[o], {CancelMsg, Verdict})
             q == CountIn(s, {CancelCall})
             q1 == CountIn(Tail(s), {CancelCall})
             h == IF e.last = "Cancelled" THEN 1 ELSE 0
             h1 == IF f.last = "Cancelled" THEN 1 ELSE 0
             n == IF c = FillCall THEN 1 ELSE 0
             k == IF c = CancelCall THEN 1 ELSE 0
  <2>1. y = y1 + n /\ q = q1 + k
    <3>1. /\ y = y1 + (IF c \in {FillCall} THEN 1 ELSE 0)
          /\ q = q1 + (IF c \in {CancelCall} THEN 1 ELSE 0)
      BY <1>1, <1>3, CountTail
    <3> QED
      BY <3>1
  <2>2. h1 + 0 <= h + k
    BY <1>2
  <2>3. x \in Nat /\ p \in Nat /\ y1 \in Nat /\ q1 \in Nat
    <3>1. Tail(s) \in Seq(Calls)
      BY <1>1, <1>3, Shorter
    <3> QED
      BY <1>3, <3>1, CountType
  <2>4. h \in Nat /\ h1 \in Nat /\ n \in Nat /\ k \in Nat
    OBVIOUS
  <2>5. /\ Pending(o) = late[o] + x + y /\ Pending(o)' = late[o] + x + y1
        /\ Cancelling(o) = verifying[o] + p + q + h
        /\ Cancelling(o)' = verifying[o] + p + q1 + h1
    BY <1>1 DEF Pending, Cancelling
  <2>6. e.filled + Pending(o) = executed[o] /\ f.filled = e.filled + n
    BY <1>2, <1>4 DEF Booked
  <2>7. Cancelling(o) <= spurious[o] + (IF broker[o] = "cancelled" THEN 1 ELSE 0)
    BY <1>4 DEF Booked
  <2> DEFINE r == spurious[o] + (IF broker[o] = "cancelled" THEN 1 ELSE 0)
  <2>8. r \in Nat /\ spurious'[o] + (IF broker'[o] = "cancelled" THEN 1 ELSE 0) = r
    BY <1>1 DEF CourseTypes
  <2> HIDE DEF x, y, y1, p, q, q1, h, h1, n, k, r
  <2>9. f.filled + Pending(o)' = executed'[o]
    <3>1. (e.filled + n) + (late[o] + x + y1) = e.filled + (late[o] + x + (y1 + n))
      BY <1>3, <2>3, <2>4, MovedOver
    <3> QED
      BY <1>1, <2>1, <2>5, <2>6, <3>1, Zenon
  <2>10. Cancelling(o)' <= r
    <3>1. verifying[o] + p + q1 + h1 <= verifying[o] + p + (q1 + k) + h
      BY <1>3, <2>2, <2>3, <2>4, HeldOver
    <3>2. Cancelling(o)' <= Cancelling(o)
      BY <2>1, <2>5, <3>1, Zenon
    <3>3. Cancelling(o) \in Nat /\ Cancelling(o)' \in Nat
      <4>1. Cancelling(o)' \in Nat
        <5>1. verifying[o] + p + q1 + h1 \in Nat
          BY <1>3, <2>3, <2>4, SumOfFour
        <5> QED
          BY <2>5, <5>1, Zenon
      <4> QED
        BY <4>1, Counted
    <3> QED
      BY <2>7, <2>8, <3>2, <3>3 DEF r
  <2>11. /\ e.target = Size[o] /\ e.side = Side[o]
    BY <1>4 DEF Booked
  <2> QED
    BY <1>1, <1>2, <2>8, <2>9, <2>10, <2>11 DEF Booked
<1>11. Sequenced(o)'
  <2> SUFFICES ASSUME Regular(o)'
               PROVE  /\ \A i \in 1 .. Len(wire[o]) : OnTheWire(o, i)'
                      /\ \A i \in 1 .. Len(Tail(s)) : InTheQueue(o, i)'
    BY <1>1 DEF Sequenced
  <2>1. Regular(o)
    BY <1>1 DEF Regular
  <2>2. /\ \A i \in 1 .. Len(wire[o]) : OnTheWire(o, i)
        /\ \A i \in 1 .. Len(s) : InTheQueue(o, i)
    BY <1>4, <2>1 DEF Sequenced
  <2>3. Early(o) /\ c # CancelCall => Early(o)'
    BY <1>1, <1>2 DEF Early
  <2>4. ASSUME NEW i \in 1 .. Len(wire[o]) PROVE OnTheWire(o, i)'
    <3>1. Never(s, CancelCall) => Never(Tail(s), CancelCall) /\ c # CancelCall
      BY <1>1, <1>3, ShorterAfter
    <3>2. OnTheWire(o, i)
      BY <2>2
    <3> QED
      BY <1>1, <2>3, <3>1, <3>2 DEF OnTheWire
  <2>5. ASSUME NEW i \in 1 .. Len(Tail(s)) PROVE InTheQueue(o, i)'
    <3>1. i + 1 \in 1 .. Len(s) /\ Tail(s)[i] = s[i + 1] /\ InTheQueue(o, i + 1)
      BY <1>1, <1>3, <2>2, Shorter
    <3>2. /\ After(s, i + 1, FillCall) => After(Tail(s), i, FillCall)
          /\ Before(s, i + 1, CancelCall) => Before(Tail(s), i, CancelCall) /\ c # CancelCall
      BY <1>1, <1>3, ShorterAfter
    <3>3. calls[o] = s
      OBVIOUS
    <3> HIDE DEF s, c
    <3> QED
      BY <1>1, <2>3, <3>1, <3>2, <3>3 DEF InTheQueue
  <2> QED
    BY <2>4, <2>5
<1> QED
  BY <1>6, <1>7, <1>8, <1>9, <1>10, <1>11 DEF Course

(* Behind what ends a regular order no execution is on its way.            *)
LEMMA NonePending ==
    ASSUME Types, CourseTypes, NEW o \in Orders, AtIB(o), lates[o] = 0, calls[o] # <<>>,
           After(calls[o], 1, FillCall), Head(calls[o]) # FillCall, Never(wire[o], FillMsg)
    PROVE  Pending(o) = 0
<1>1. calls[o] \in Seq(Calls) /\ wire[o] \in Seq(Sent) /\ late[o] \in Nat
  BY DEF Types
<1>2. late[o] = 0
  <2>1. late[o] <= 0
    BY DEF AtIB
  <2> QED
    BY <1>1, <2>1
<1>3. CountIn(wire[o], {FillMsg}) = 0
  <2>1. \A i \in 1 .. Len(wire[o]) : wire[o][i] \notin {FillMsg}
    BY DEF Never
  <2> QED
    BY <1>1, <2>1, CountType
<1>4. CountIn(calls[o], {FillCall}) = 0
  <2>1. ASSUME NEW i \in 1 .. Len(calls[o]) PROVE calls[o][i] \notin {FillCall}
    <3>1. i = 1 \/ i \in 1 + 1 .. Len(calls[o])
      BY <1>1
    <3>2. calls[o][1] = Head(calls[o])
      BY <1>1, Shorter
    <3> QED
      BY <3>1, <3>2 DEF After
  <2> QED
    BY <1>1, <2>1, CountType
<1> QED
  BY <1>2, <1>3, <1>4 DEF Pending

(* The verdict on an order that ends: Filled, if its fills reach its size. *)
LEMMA Resolved ==
    ASSUME NEW e \in Entry, NEW n \in Nat \ {0}, e.target = n
    PROVE  Resolve(e) = "Filled" <=> e.filled >= n
<1>1. e.filled \in Nat
  BY DEF Entry
<1>2. CASE e.filled > 0 /\ (e.filled >= e.target \/ e.target = 0)
  BY <1>1, <1>2 DEF Resolve
<1>3. CASE ~(e.filled > 0 /\ (e.filled >= e.target \/ e.target = 0))
  <2>1. ~(e.filled >= n)
    BY <1>1, <1>3
  <2>2. Resolve(e) \in {"Rejected", "Cancelled", "PartialFillCancelled"}
    BY <1>1, <1>3 DEF Resolve
  <2> QED
    BY <2>1, <2>2
<1> QED
  BY <1>2, <1>3

(* What ends an order comes after its fills.                               *)
LEMMA EndsWhole ==
    ASSUME Types, CourseTypes, NEW o \in Orders, Local(o), Course(o), Takes(o), Opened(o),
           NEW s \in TerminalStatuses, Head(calls[o]) = StatusCall(s),
           ~MightBePreroute(entry[o], s)
    PROVE  /\ o \notin asked /\ spurious[o] <= 1 => broker[o] \in Done
           /\ Regular(o) => broker[o] \in Done /\ entry[o].filled = executed[o]
<1> DEFINE e == entry[o]
           c == Head(calls[o])
<1>1. /\ calls[o] # <<>> /\ calls[o] \in Seq(Calls) /\ wire[o] \in Seq(Sent)
      /\ e.filled \in Nat /\ verifying[o] \in Nat /\ e \in Entry
  BY DEF Takes, Types, LedgerTypeOK, Entry
<1>2. /\ c = calls[o][1] /\ 1 \in 1 .. Len(calls[o])
  BY <1>1, Shorter
<1>3. /\ c \in Called /\ (c = FilledCall => broker[o] = "filled")
  BY TakesTold
<1>4. /\ e.target = Size[o] /\ e.filled + Pending(o) = executed[o]
      /\ e.last \in {"PendingSubmit", "Submitted", "Cancelled", "PendingCancel"}
      /\ e.last = "PendingCancel" => o \in asked
      /\ Cancelling(o) <= spurious[o] + (IF broker[o] = "cancelled" THEN 1 ELSE 0)
  BY DEF Course, Booked
<1>5. /\ executed[o] \in 0 .. Size[o] /\ (executed[o] = Size[o] <=> broker[o] = "filled")
      /\ (broker[o] = "inactive" => executed[o] = 0)
  BY DEF Course, AtIB
<1>6. Pending(o) \in Nat /\ spurious[o] \in Nat /\ Size[o] \in Nat \ {0} /\ executed[o] \in Nat
  BY LedgerAssumption, Counted DEF LedgerAssumption, CourseTypes
<1>7. c \in {FilledCall, CancelCall, RefusalCall}
  <2>1. "Submitted" \notin TerminalStatuses /\ "PendingCancel" \notin TerminalStatuses
    BY DEF TerminalStatuses, Cancels
  <2>2. StatusCall(s).kind = "on_status" /\ StatusCall(s).status = s
    BY Distinct
  <2>3. /\ FillCall.kind = "on_fill" /\ StatusCall("Submitted").status = "Submitted"
        /\ PendingCall.status = "PendingCancel"
    BY Distinct DEF PendingCall
  <2> QED
    BY <1>3, <2>1, <2>2, <2>3 DEF Called
<1>8. CASE c = RefusalCall
  <2>1. broker[o] = "inactive"
    BY <1>2, <1>8 DEF Local, RefusedOnce
  <2>2. e.filled = 0 /\ executed[o] = 0
    BY <1>1, <1>4, <1>5, <1>6, <2>1
  <2> QED
    BY <2>1, <2>2 DEF Done
<1>9. ASSUME Regular(o), After(calls[o], 1, FillCall), Never(wire[o], FillMsg)
      PROVE  e.filled = executed[o]
  <2>1. c # FillCall
    BY <1>7, CallWords
  <2>2. Pending(o) = 0
    BY <1>1, <1>9, <2>1, NonePending DEF Regular, Course
  <2> QED
    BY <1>1, <1>4, <2>2
<1>10. CASE c = FilledCall
  <2>1. broker[o] \in Done
    BY <1>3, <1>10 DEF Done
  <2>2. ASSUME Regular(o) PROVE After(calls[o], 1, FillCall) /\ Never(wire[o], FillMsg)
    <3>1. InTheQueue(o, 1)
      BY <1>2, <2>2 DEF Course, Sequenced
    <3> QED
      BY <1>2, <1>10, <3>1 DEF InTheQueue
  <2> QED
    BY <1>9, <2>1, <2>2
<1>11. CASE c = CancelCall
  <2>1. s = "Cancelled"
    BY <1>11, Distinct DEF CancelCall
  <2>2. ~(e.last \in Preroute /\ (e.filled = 0 \/ (e.target > 0 /\ e.filled < e.target)))
    BY <2>1 DEF MightBePreroute, Cancels
  <2>3. e.last \in {"Cancelled", "PendingCancel"} \/ e.filled >= Size[o]
    BY <1>1, <1>4, <1>6, <2>2 DEF Preroute
  <2>4. e.filled >= Size[o] => e.filled = executed[o] /\ broker[o] = "filled"
    <3>1. \A i, j, k, l \in Nat : i + j = k /\ k <= l /\ i >= l => i = k /\ k = l
      OBVIOUS
    <3>2. executed[o] <= Size[o] /\ Size[o] \in Nat
      BY <1>5, <1>6
    <3> QED
      BY <1>1, <1>4, <1>5, <1>6, <3>1, <3>2, Zenon
  <2>5. ASSUME e.last = "Cancelled", spurious[o] <= 1 PROVE broker[o] = "cancelled"
    <3>1. CountIn(calls[o], {CancelCall}) >= 1
      <4>1. CountIn(calls[o], {CancelCall})
              = CountIn(Tail(calls[o]), {CancelCall}) + (IF c \in {CancelCall} THEN 1 ELSE 0)
        BY <1>1, CountTail
      <4>2. CountIn(Tail(calls[o]), {CancelCall}) \in Nat
        BY <1>1, Shorter, CountType
      <4> QED
        BY <1>11, <4>1, <4>2
    <3>2. Cancelling(o) = verifying[o] + CountIn(wire[o], {CancelMsg, Verdict})
                            + CountIn(calls[o], {CancelCall}) + 1
      BY <2>5 DEF Cancelling
    <3>3. CountIn(wire[o], {CancelMsg, Verdict}) \in Nat /\ CountIn(calls[o], {CancelCall}) \in Nat
      BY Counted
    <3> DEFINE p == CountIn(wire[o], {CancelMsg, Verdict})
               q == CountIn(calls[o], {CancelCall})
    <3>4. p \in Nat /\ q \in Nat /\ q >= 1 /\ Cancelling(o) = verifying[o] + p + q + 1
      BY <3>1, <3>2, <3>3
    <3> HIDE DEF p, q
    <3>5. Cancelling(o) >= 2
      BY <1>1, <3>4
    <3>6. Cancelling(o) \in Nat
      BY Counted
    <3> QED
      BY <1>4, <1>6, <2>5, <3>5, <3>6
  <2>6. o \notin asked /\ spurious[o] <= 1 => broker[o] \in Done
    BY <1>4, <2>3, <2>4, <2>5 DEF Done
  <2>7. ASSUME Regular(o) PROVE broker[o] \in Done /\ e.filled = executed[o]
    <3>1. InTheQueue(o, 1)
      BY <1>2, <2>7 DEF Course, Sequenced
    <3>2. \/ broker[o] \in Done /\ After(calls[o], 1, FillCall) /\ Never(wire[o], FillMsg)
          \/ Early(o)
      BY <1>2, <1>11, <3>1 DEF InTheQueue
    <3>3. ASSUME Early(o) PROVE broker[o] \in Done /\ e.filled = executed[o]
      <4>1. spurious[o] = 1 /\ e.last # "Cancelled"
        BY <3>3 DEF Early
      <4>2. o \notin asked
        BY <2>7, <4>1 DEF Regular
      <4> QED
        BY <1>4, <2>3, <2>4, <4>1, <4>2 DEF Done
    <3> QED
      BY <1>9, <2>7, <3>2, <3>3
  <2> QED
    BY <2>6, <2>7
<1> QED
  BY <1>7, <1>8, <1>10, <1>11

(* The terminal event of an order that ends.                               *)
LEMMA EndAnnounced ==
    ASSUME Types, NEW o \in Orders, Opened(o), NEW f \in Entry,
           Finishes(o, f), Announces(o, out'[1])
    PROVE  /\ out'[1].filled = EffectiveFilled(f, ibPosition)
           /\ out'[1].status = Resolve([f EXCEPT !.filled = EffectiveFilled(f, ibPosition)])
           /\ Terminals(o)' # {} /\ FirstTerminal(o)' = out'[1]
<1> DEFINE final == [f EXCEPT !.filled = EffectiveFilled(f, ibPosition)]
           ev == out'[1]
<1>1. /\ ev.terminal = TRUE /\ ev.filled = EffectiveFilled(f, ibPosition)
      /\ ev.status = Resolve(final)
  <2>1. out' = <<[id |-> o, terminal |-> TRUE, status |-> Resolve(final),
                  filled |-> final.filled, target |-> final.target]>>
    BY Zenon DEF Finishes, MakeTerminal, Emit
  <2>2. final.filled = EffectiveFilled(f, ibPosition)
    BY DEF Entry
  <2> HIDE DEF final
  <2> QED
    BY <2>1, <2>2
<1>2. Terminals(o)' # {} /\ FirstTerminal(o)' = ev
  <2>1. updates[o] \in Seq(Event) /\ updates'[o] = Append(updates[o], ev) /\ ev \in Event
    BY DEF Announces, Types
  <2>2. Terminals(o) = {}
    BY DEF Opened
  <2>3. Terminals(o)' = Terminals(o) \cup {Len(updates[o]) + 1}
    BY <1>1, <2>1, FirstStays
  <2> HIDE DEF ev
  <2> QED
    BY <1>1, <2>1, <2>2, <2>3, FirstStays
<1> QED
  BY <1>1, <1>2

(* A call that ends its order announces what IB did.                       *)
LEMMA FinishCourse ==
    ASSUME EventsInv, CourseTypes, NEW o \in Orders, Course(o), Takes(o), Opened(o),
           NEW s \in TerminalStatuses, Head(calls[o]) = StatusCall(s),
           ~MightBePreroute(entry[o], s),
           Finishes(o, [entry[o] EXCEPT !.last = s]), Announces(o, out'[1])
    PROVE  Course(o)'
<1> DEFINE e == entry[o]
           f == [e EXCEPT !.last = s]
           final == [f EXCEPT !.filled = EffectiveFilled(f, ibPosition)]
           ev == out'[1]
<1>1. /\ broker' = broker /\ ibPosition' = ibPosition /\ executed' = executed
      /\ lates' = lates /\ spurious' = spurious /\ asked' = asked /\ foreign' = foreign
      /\ late' = late /\ broker[o] # "none"
  BY DEF Takes
<1>2. Types /\ Local(o) /\ e \in Entry /\ e.filled \in Nat
  BY DEF EventsInv, Types, LedgerTypeOK, Entry
<1>3. f \in Entry
  <2>1. s \in Statuses
    BY DEF TerminalStatuses, Cancels, Statuses
  <2> QED
    BY <1>2, <2>1 DEF Entry
<1>4. /\ ev.filled = EffectiveFilled(f, ibPosition) /\ ev.status = Resolve(final)
      /\ Terminals(o)' # {} /\ FirstTerminal(o)' = ev
  BY <1>2, <1>3, EndAnnounced
<1> HIDE DEF ev
<1>5. ~Opened(o)'
  BY <1>4 DEF Opened
<1>6. AtIB(o)'
  BY <1>1 DEF Course, AtIB
<1>7. Measured(o)'
  BY <1>1, <1>5 DEF Course, Measured, Alone, Signed
<1>8. /\ o \notin asked /\ spurious[o] <= 1 => broker[o] \in Done
      /\ Regular(o) => broker[o] \in Done /\ e.filled = executed[o]
  BY <1>2, EndsWhole
<1>9. ASSUME Regular(o), Alone, foreign = 0
      PROVE  ev.filled = executed[o] /\ (ev.status = "Filled" <=> broker[o] = "filled")
  <2>1. /\ e.filled = executed[o] /\ executed[o] \in 0 .. Size[o] /\ executed[o] \in Nat
        /\ executed[o] = Size[o] <=> broker[o] = "filled"
        /\ e.target = Size[o] /\ e.side = Side[o] /\ Size[o] \in Nat \ {0}
    BY <1>8, <1>9, LedgerAssumption DEF Course, AtIB, Booked, CourseTypes, LedgerAssumption
  <2>2. Signed(o, ibPosition) \in 0 .. executed[o] /\ e.pre = 0
    BY <1>9 DEF Course, Measured
  <2>3. /\ f \in Entry /\ f.target = Size[o] /\ f.side = Side[o] /\ f.pre = 0
        /\ f.filled = executed[o]
    BY <1>2, <1>3, <2>1, <2>2 DEF Entry
  <2>4. ibPosition \in Int
    BY <1>2, LedgerAssumption DEF Types, LedgerAssumption
  <2>5. final = [f EXCEPT !.filled = EffectiveFilled(f, ibPosition)]
    OBVIOUS
  <2> HIDE DEF f, final
  <2>6. EffectiveFilled(f, ibPosition) = executed[o]
    <3>1. executed[o] <= Size[o] /\ f.filled <= executed[o] /\ Signed(o, ibPosition) <= executed[o]
      BY <2>1, <2>2, <2>3
    <3>2. f.filled = 0 => executed[o] = 0
      BY <2>3
    <3>3. 0 \in Int
      OBVIOUS
    <3> QED
      BY <2>1, <2>3, <2>4, <3>1, <3>2, <3>3, Credited
  <2>7. final \in Entry /\ final.target = Size[o] /\ final.filled = executed[o]
    BY <2>1, <2>3, <2>5, <2>6 DEF Entry
  <2>8. Resolve(final) = "Filled" <=> executed[o] >= Size[o]
    BY <2>1, <2>7, Resolved
  <2>9. executed[o] >= Size[o] <=> executed[o] = Size[o]
    BY <2>1
  <2> QED
    BY <1>4, <2>1, <2>6, <2>8, <2>9
<1>10. ASSUME Regular(o)
       PROVE  ev.filled >= executed[o] /\ (broker[o] = "filled" => ev.status = "Filled")
  <2>1. /\ e.filled = executed[o] /\ executed[o] \in Nat
        /\ executed[o] = Size[o] <=> broker[o] = "filled"
        /\ e.target = Size[o] /\ Size[o] \in Nat \ {0}
    BY <1>8, <1>10, LedgerAssumption DEF Course, AtIB, Booked, CourseTypes, LedgerAssumption
  <2>2. f.filled = executed[o] /\ f.target = Size[o]
    BY <1>2, <2>1 DEF Entry
  <2>3. ibPosition \in Positions \cup {NoPosition} /\ LedgerAssumption
    BY <1>2, LedgerAssumption DEF Types
  <2>4. final = [f EXCEPT !.filled = EffectiveFilled(f, ibPosition)]
    OBVIOUS
  <2> HIDE DEF f, final
  <2>5. EffectiveFilled(f, ibPosition) \in Nat /\ EffectiveFilled(f, ibPosition) >= executed[o]
    BY <1>3, <2>2, <2>3, CreditBounds
  <2>6. final \in Entry /\ final.target = Size[o] /\ final.filled >= executed[o]
    BY <1>3, <2>2, <2>4, <2>5 DEF Entry
  <2>7. Resolve(final) = "Filled" <=> final.filled >= Size[o]
    BY <2>1, <2>6, Resolved
  <2> QED
    BY <1>4, <2>1, <2>5, <2>6, <2>7
<1>11. Concluded(o)'
  <2>1. Regular(o)' = Regular(o) /\ Alone' = Alone
    BY <1>1 DEF Regular, Alone
  <2> QED
    BY <1>1, <1>4, <1>8, <1>9, <1>10, <2>1 DEF Concluded
<1>12. Told(o)'
  BY <1>2, TakesTold
<1> QED
  BY <1>5, <1>6, <1>7, <1>11, <1>12 DEF Course, Booked, Sequenced

(* A call touches the ledger's entry of its own order only.                *)
LEMMA CallAlone ==
    ASSUME EventsInv, NEW o \in Orders, RunCall(o), NEW p \in Orders, p # o
    PROVE  (p \in tracked' <=> p \in tracked) /\ entry'[p] = entry[p]
<1>1. entry \in [Orders -> Entry]
  BY DEF EventsInv, Types, LedgerTypeOK
<1>2. LedgerCall(o, Head(calls[o]))
  BY DEF RunCall
<1>3. ASSUME NEW e, Put(o, e) PROVE (p \in tracked' <=> p \in tracked) /\ entry'[p] = entry[p]
  BY <1>1, <1>3 DEF Put
<1>4. ASSUME NEW e, NEW pos, MakeTerminal(o, e, pos)
      PROVE  (p \in tracked' <=> p \in tracked) /\ entry'[p] = entry[p]
  <2>1. PICK x : tracked' = tracked \ {o} /\ entry' = [entry EXCEPT ![o] = x]
    BY <1>4, Zenon DEF MakeTerminal
  <2> QED
    BY <1>1, <2>1
<1>5. CASE UNCHANGED <<tracked, entry>>
  BY <1>5
<1>6. CASE RecordFill(o, 1, Side[o], 0, Size[o])
  <2>1. UNCHANGED <<tracked, entry>> \/ \E e : Put(o, e)
    BY <1>6, Zenon DEF RecordFill, Ignore
  <2> QED
    BY <1>3, <1>5, <2>1
<1>7. ASSUME NEW s, RecordStatus(o, s, Side[o], o \in Tagged, ibPosition)
      PROVE  (p \in tracked' <=> p \in tracked) /\ entry'[p] = entry[p]
  <2> DEFINE before == IF o \in tracked THEN entry[o] ELSE NewEntry(Side[o], 0, NoPosition)
             e == [before EXCEPT !.last = s]
  <2>1. CASE Suppressed(o)
    BY <1>5, <1>7, <2>1 DEF RecordStatus, Ignore
  <2>2. CASE ~Suppressed(o) /\ o \notin tracked /\ s = "Inactive" /\ o \notin Tagged
    BY <1>5, <1>7, <2>2 DEF RecordStatus
  <2>3. CASE ~Suppressed(o) /\ ~(o \notin tracked /\ s = "Inactive" /\ o \notin Tagged)
    <3>1. MakeTerminal(o, e, ibPosition) \/ Put(o, e)
      <4> HIDE DEF MakeTerminal, Put, Emit
      <4> QED
        BY <1>7, <2>3 DEF RecordStatus
    <3> HIDE DEF e
    <3> QED
      BY <1>3, <1>4, <3>1
  <2> QED
    BY <2>1, <2>2, <2>3
<1> QED
  BY <1>2, <1>6, <1>7 DEF LedgerCall

(* What a call that does not end its order makes of the entry.             *)
LEMMA CallContinues ==
    ASSUME EventsInv, NEW o \in Orders, Course(o), Takes(o), Opened(o)
    PROVE  /\ Head(calls[o]) = FillCall =>
                 Continues(o, FillCall, [entry[o] EXCEPT !.filled = @ + 1])
           /\ \A s \in Statuses :
                 Head(calls[o]) = StatusCall(s)
                   /\ ~(s \in TerminalStatuses /\ ~MightBePreroute(entry[o], s)) =>
                   Continues(o, StatusCall(s), [entry[o] EXCEPT !.last = s])
<1> DEFINE e == entry[o]
           c == Head(calls[o])
<1>1. e \in Entry /\ Types /\ e.filled \in Nat
  BY DEF EventsInv, Types, LedgerTypeOK, Entry
<1>2. /\ e.last \in {"PendingSubmit", "Submitted", "Cancelled", "PendingCancel"}
      /\ e.last = "PendingCancel" => o \in asked
  BY DEF Course, Booked
<1>3. c \in Called /\ (c = PendingCall => o \in asked)
  BY <1>1, TakesTold
<1>4. Continues(o, FillCall, [e EXCEPT !.filled = @ + 1])
  <2> DEFINE f == [e EXCEPT !.filled = @ + 1]
  <2>1. /\ f.target = e.target /\ f.side = e.side /\ f.pre = e.pre
        /\ f.filled = e.filled + 1 /\ f.last = e.last
    BY <1>1 DEF Entry
  <2> HIDE DEF f
  <2>2. FillCall # CancelCall
    BY CallWords
  <2> QED
    BY <1>2, <2>1, <2>2 DEF Continues
<1>5. ASSUME NEW s \in Statuses, c = StatusCall(s),
             ~(s \in TerminalStatuses /\ ~MightBePreroute(e, s))
      PROVE  Continues(o, StatusCall(s), [e EXCEPT !.last = s])
  <2> DEFINE f == [e EXCEPT !.last = s]
  <2>1. /\ f.target = e.target /\ f.side = e.side /\ f.pre = e.pre
        /\ f.filled = e.filled /\ f.last = s
    BY <1>1 DEF Entry
  <2> HIDE DEF f
  <2>2. StatusCall(s).kind = "on_status" /\ StatusCall(s).status = s
    BY Distinct
  <2>3. StatusCall(s) # FillCall
    BY <2>2, Distinct
  <2>4. s \notin TerminalStatuses => s \in {"Submitted", "PendingCancel"}
    <3>1. /\ StatusCall("Submitted").status = "Submitted" /\ FilledCall.status = "Filled"
          /\ CancelCall.status = "Cancelled" /\ RefusalCall.status = "Inactive"
          /\ PendingCall.status = "PendingCancel"
      BY Distinct DEF FilledCall, CancelCall, RefusalCall, PendingCall
    <3>2. {"Filled", "Cancelled", "Inactive"} \subseteq TerminalStatuses
      BY DEF TerminalStatuses, Cancels
    <3> QED
      BY <1>3, <1>5, <2>2, <2>3, <3>1, <3>2 DEF Called
  <2>5. CASE s \in TerminalStatuses
    <3>1. s \in Cancels /\ e.last # "Cancelled"
      BY <1>5, <2>5 DEF MightBePreroute, Preroute
    <3>2. s = "Cancelled"
      <4>1. /\ StatusCall("Submitted").status = "Submitted" /\ FilledCall.status = "Filled"
            /\ CancelCall.status = "Cancelled" /\ RefusalCall.status = "Inactive"
            /\ PendingCall.status = "PendingCancel"
        BY Distinct DEF FilledCall, CancelCall, RefusalCall, PendingCall
      <4> QED
        BY <1>3, <1>5, <2>2, <2>3, <3>1, <4>1 DEF Called, Cancels
    <3> QED
      BY <1>1, <2>1, <2>3, <3>1, <3>2 DEF Continues, CancelCall
  <2>6. CASE s \notin TerminalStatuses
    <3>1. s \in {"Submitted", "PendingCancel"}
      BY <2>4, <2>6
    <3>2. s = "PendingCancel" => o \in asked
      BY <1>3, <1>5 DEF PendingCall
    <3> QED
      BY <1>1, <2>1, <2>3, <3>1, <3>2 DEF Continues
  <2> QED
    BY <2>5, <2>6 DEF f
<1> QED
  BY <1>4, <1>5

(* The events of a stream that is as it was.                               *)
LEMMA StreamStays ==
    ASSUME NEW p \in Orders, updates'[p] = updates[p]
    PROVE  Terminals(p)' = Terminals(p) /\ FirstTerminal(p)' = FirstTerminal(p)
<1>1. Terminals(p)' = Terminals(p)
  BY DEF Terminals
<1> QED
  BY <1>1 DEF FirstTerminal

(* A callback makes its call.                                              *)
LEMMA RunCallCourse ==
    ASSUME EventsInv, LiveOrEvicted, CourseAll, NEW o \in Orders, RunCall(o)
    PROVE  CourseAll'
<1>1. /\ calls[o] # <<>> /\ calls' = [calls EXCEPT ![o] = Tail(calls[o])]
      /\ UNCHANGED <<broker, late>> /\ UNCHANGED <<wire, ibPosition>>
      /\ UNCHANGED <<verifying, executed, lates, spurious, asked, foreign>>
      /\ updates' = updates \/ (out' # <<>> /\ Announces(o, out'[1]))
  BY RunCallStream
<1>2. Types /\ CourseTypes /\ Course(o) /\ Local(o)
  BY DEF EventsInv, CourseAll
<1>3. broker[o] # "none"
  BY <1>1, <1>2 DEF Local, Unplaced
<1>4. /\ calls \in [Orders -> Seq(Calls)] /\ updates \in [Orders -> Seq(Event)]
  BY <1>2 DEF Types
<1>5. Takes(o)
  BY <1>1, <1>3, <1>4 DEF Takes
<1>6. CourseTypes'
  BY <1>1, <1>2 DEF CourseTypes
<1>7. ASSUME NEW p \in Orders, p # o PROVE Untouched(p)
  <2>1. calls'[p] = calls[p] /\ updates'[p] = updates[p]
    BY <1>1, <1>4, <1>7 DEF Announces
  <2>2. (p \in tracked' <=> p \in tracked) /\ entry'[p] = entry[p]
    BY <1>7, CallAlone
  <2>3. Terminals(p)' = Terminals(p) /\ FirstTerminal(p)' = FirstTerminal(p)
    BY <2>1, StreamStays
  <2>4. SameBook(p)
    BY <2>2, <2>3 DEF SameBook
  <2> QED
    BY <1>1, <2>1, <2>4 DEF Untouched
<1>8. ASSUME ~Opened(o) PROVE Course(o)'
  <2>1. Terminals(o) # {}
    BY <1>3, <1>8 DEF Opened
  <2>2. updates' = updates \/ \E ev : Announces(o, ev)
    BY <1>1
  <2> QED
    BY <1>2, <1>5, <2>1, <2>2, ClosedCourse
<1>9. ASSUME Opened(o) PROVE Course(o)'
  <2>1. Terminals(o) = {}
    BY <1>9 DEF Opened
  <2>2. ASSUME NEW f, Advances(o, f), Continues(o, Head(calls[o]), f)
        PROVE  Course(o)'
    <3>1. o \in tracked' /\ entry'[o] = f
      BY <1>2, <2>2 DEF Advances, Types, LedgerTypeOK
    <3>2. Terminals(o)' = {}
      <4>1. CASE updates' = updates
        BY <2>1, <4>1, StreamStays
      <4>2. CASE Announces(o, out'[1])
        <5>1. updates[o] \in Seq(Event) /\ out'[1] \in Event
              /\ updates'[o] = Append(updates[o], out'[1])
          BY <1>4, <4>2 DEF Announces
        <5>2. out'[1].terminal = FALSE
          BY <2>2 DEF Advances
        <5> QED
          BY <2>1, <5>1, <5>2, FirstStays
      <4> QED
        BY <1>1, <4>1, <4>2
    <3> QED
      BY <1>2, <1>5, <1>9, <2>2, <3>1, <3>2, AdvanceCourse
  <2>3. ASSUME Head(calls[o]) = FillCall, Advances(o, [entry[o] EXCEPT !.filled = @ + 1])
        PROVE  Course(o)'
    <3>1. Continues(o, Head(calls[o]), [entry[o] EXCEPT !.filled = @ + 1])
      BY <1>2, <1>5, <1>9, <2>3, CallContinues
    <3> QED
      BY <2>2, <2>3, <3>1
  <2>4. ASSUME NEW s \in Statuses, Head(calls[o]) = StatusCall(s),
               s \in TerminalStatuses, ~MightBePreroute(entry[o], s),
               Finishes(o, [entry[o] EXCEPT !.last = s])
        PROVE  Course(o)'
    <3>1. out' # <<>>
      BY <2>4, Zenon DEF Finishes, MakeTerminal, Emit
    <3>2. CASE Announces(o, out'[1])
      BY <1>2, <1>5, <1>9, <2>4, <3>2, FinishCourse
    <3>3. CASE updates' = updates
      <4>1. updates'[o] = updates[o] \o out' /\ updates[o] \in Seq(Event) /\ out' \in Seq(Event)
        <5>1. updates' = [updates EXCEPT ![o] = updates[o] \o out']
          BY Zenon DEF RunCall
        <5> QED
          BY <1>4, <5>1, CallEffect DEF LedgerTypeOK
      <4>2. Len(updates[o]) = Len(updates[o]) + Len(out') /\ Len(out') \in Nat /\ Len(out') # 0
        BY <3>1, <3>3, <4>1
      <4> QED
        BY <4>1, <4>2
    <3> QED
      BY <1>1, <3>2, <3>3
  <2>5. ASSUME NEW s \in Statuses, Head(calls[o]) = StatusCall(s),
               ~(s \in TerminalStatuses /\ ~MightBePreroute(entry[o], s)),
               Advances(o, [entry[o] EXCEPT !.last = s])
        PROVE  Course(o)'
    <3>1. Continues(o, Head(calls[o]), [entry[o] EXCEPT !.last = s])
      BY <1>2, <1>5, <1>9, <2>5, CallContinues
    <3> QED
      BY <2>2, <2>5, <3>1
  <2>6. \/ /\ Head(calls[o]) = FillCall
           /\ Advances(o, [entry[o] EXCEPT !.filled = @ + 1])
        \/ \E s \in Statuses :
              /\ Head(calls[o]) = StatusCall(s)
              /\ IF s \in TerminalStatuses /\ ~MightBePreroute(entry[o], s)
                 THEN Finishes(o, [entry[o] EXCEPT !.last = s])
                 ELSE Advances(o, [entry[o] EXCEPT !.last = s])
    BY <1>2, <1>9, OpenedCall
  <2> QED
    BY <2>3, <2>4, <2>5, <2>6
<1> QED
  BY <1>1, <1>6, <1>7, <1>8, <1>9, ElsewhereCourse

-----------------------------------------------------------------------------
(* The remaining steps.                                                    *)

(* A placed order begins its course: nothing is executed of it, nothing    *)
(* said, and the position it starts from is what the others left.          *)
LEMMA PlaceCourse ==
    ASSUME EventsInv, CourseAll, NEW o \in Orders, Place(o)
    PROVE  CourseAll'
<1> DEFINE e == NewEntry(Side[o], Size[o], ibPosition)
<1>1. /\ broker[o] = "none" /\ broker' = [broker EXCEPT ![o] = "sent"]
      /\ Register(o, Side[o], Size[o], ibPosition)
      /\ UNCHANGED <<executed, lates, spurious, asked, foreign>>
      /\ UNCHANGED <<late, wire, ibPosition, verifying>> /\ UNCHANGED <<calls, updates>>
  BY Zenon DEF Place, OnOrderPlaced, wrapperVars
<1>2. Types /\ CourseTypes /\ Course(o) /\ ibPosition \in Int
  BY LedgerAssumption DEF EventsInv, CourseAll, Types, LedgerAssumption
<1>3. /\ wire[o] = <<>> /\ calls[o] = <<>> /\ late[o] = 0 /\ verifying[o] = 0
      /\ o \notin tracked
  BY <1>1 DEF EventsInv, Local, Unplaced
<1>4. tracked' = tracked \cup {o} /\ entry' = [entry EXCEPT ![o] = e]
  BY <1>1, <1>3 DEF Register, Put
<1>5. /\ executed[o] = 0 /\ late[o] <= lates[o] /\ o \notin asked /\ Terminals(o) = {}
  <2>1. executed[o] \in 0 .. Size[o] /\ (broker[o] = "none" => executed[o] = 0)
    BY <1>2 DEF Course, AtIB
  <2> QED
    BY <1>1, <1>2, <2>1 DEF Course, AtIB
<1>6. /\ e.target = Size[o] /\ e.side = Side[o] /\ e.filled = 0
      /\ e.last = "PendingSubmit" /\ e.pre = ibPosition
  BY DEF NewEntry
<1> HIDE DEF e
<1>7. entry'[o] = e /\ broker'[o] = "sent" /\ o \in tracked'
  BY <1>1, <1>2, <1>4 DEF Types, LedgerTypeOK
<1>8. \A p \in Orders : Terminals(p)' = Terminals(p) /\ FirstTerminal(p)' = FirstTerminal(p)
  BY <1>1, StreamStays
<1>9. CourseTypes'
  BY <1>1, <1>2 DEF CourseTypes
<1>10. ASSUME NEW p \in Orders, p # o PROVE Untouched(p)
  <2>1. broker'[p] = broker[p] /\ entry'[p] = entry[p] /\ (p \in tracked' <=> p \in tracked)
    BY <1>1, <1>2, <1>4, <1>10 DEF Types, LedgerTypeOK
  <2>2. SameBook(p)
    BY <1>8, <2>1 DEF SameBook
  <2> QED
    BY <1>1, <2>1, <2>2 DEF Untouched
<1>11. Course(o)'
  <2>1. Size[o] \in Nat \ {0} /\ Side[o] \in {"BUY", "SELL"}
    BY LedgerAssumption DEF LedgerAssumption
  <2>2. AtIB(o)'
    <3>1. 0 \in 0 .. Size[o] /\ 0 # Size[o]
      BY <2>1
    <3> QED
      BY <1>1, <1>5, <1>7, <3>1 DEF AtIB
  <2>3. Told(o)'
    BY <1>1, <1>3 DEF Told
  <2>4. Booked(o)'
    <3>1. wire[o] \in Seq(Sent) /\ calls[o] \in Seq(Calls)
      BY <1>2 DEF Types
    <3>2. \A S : CountIn(wire[o], S) = 0 /\ CountIn(calls[o], S) = 0
      <4>1. \A i \in 1 .. Len(<<>>) : FALSE
        OBVIOUS
      <4> QED
        BY <1>3, <3>1, <4>1, CountType
    <3>3. Pending(o)' = 0
      BY <1>1, <1>3, <3>2 DEF Pending
    <3>4. Cancelling(o)' = 0
      BY <1>1, <1>3, <1>6, <1>7, <3>2 DEF Cancelling
    <3>5. spurious'[o] \in Nat
      BY <1>1, <1>2 DEF CourseTypes
    <3> QED
      BY <1>1, <1>5, <1>6, <1>7, <3>3, <3>4, <3>5 DEF Booked
  <2>5. Sequenced(o)'
    BY <1>1, <1>3 DEF Sequenced
  <2>6. Measured(o)'
    <3>1. Alone /\ foreign = 0 => Signed(o, ibPosition) \in 0 .. executed[o]
      BY <1>2 DEF Course, Measured
    <3>2. Signed(o, ibPosition) = 0 => ibPosition = 0
      BY <1>2 DEF Signed
    <3>3. Alone /\ foreign = 0 => ibPosition = 0
      BY <1>5, <3>1, <3>2
    <3>4. Signed(o, ibPosition)' = Signed(o, ibPosition) /\ Alone' = Alone
      BY <1>1 DEF Signed, Alone
    <3> QED
      BY <1>1, <1>6, <1>7, <3>1, <3>3, <3>4 DEF Measured
  <2>7. Concluded(o)'
    BY <1>5, <1>8 DEF Concluded
  <2> QED
    BY <2>2, <2>3, <2>4, <2>5, <2>6, <2>7 DEF Course
<1> QED
  BY <1>1, <1>9, <1>10, <1>11, ElsewhereCourse

(* Steps that touch no order's course: they relay, watch or sweep.         *)
Beside ==
    /\ broker' = broker /\ executed' = executed /\ late' = late /\ lates' = lates
    /\ spurious' = spurious /\ asked' = asked /\ wire' = wire /\ calls' = calls
    /\ verifying' = verifying /\ tracked' = tracked
    /\ \A p \in Orders :
          /\ entry'[p] = entry[p] \/ \E b : entry'[p] = [entry[p] EXCEPT !.alerted = b]
          /\ updates'[p] = updates[p]
             \/ \E ev \in Event : ev.terminal = FALSE /\ updates'[p] = Append(updates[p], ev)

LEMMA BesideUntouched ==
    ASSUME Types, Beside, NEW p \in Orders
    PROVE  Untouched(p)
<1>1. /\ broker' = broker /\ executed' = executed /\ late' = late /\ lates' = lates
      /\ spurious' = spurious /\ asked' = asked /\ wire' = wire /\ calls' = calls
      /\ verifying' = verifying /\ tracked' = tracked
      /\ entry'[p] = entry[p] \/ \E b : entry'[p] = [entry[p] EXCEPT !.alerted = b]
      /\ updates'[p] = updates[p]
         \/ \E ev \in Event : ev.terminal = FALSE /\ updates'[p] = Append(updates[p], ev)
  BY DEF Beside
<1>2. /\ entry'[p].target = entry[p].target /\ entry'[p].side = entry[p].side
      /\ entry'[p].filled = entry[p].filled /\ entry'[p].last = entry[p].last
      /\ entry'[p].pre = entry[p].pre
  <2>1. entry[p] \in Entry
    BY DEF Types, LedgerTypeOK
  <2> QED
    BY <1>1, <2>1 DEF Entry
<1>3. Terminals(p)' = Terminals(p) /\ (Terminals(p) # {} => FirstTerminal(p)' = FirstTerminal(p))
  <2>1. CASE updates'[p] = updates[p]
    BY <2>1, StreamStays
  <2>2. ASSUME NEW ev \in Event, ev.terminal = FALSE, updates'[p] = Append(updates[p], ev)
        PROVE  /\ Terminals(p)' = Terminals(p)
               /\ Terminals(p) # {} => FirstTerminal(p)' = FirstTerminal(p)
    <3>1. updates[p] \in Seq(Event)
      BY DEF Types
    <3> QED
      BY <2>2, <3>1, FirstStays
  <2> QED
    BY <1>1, <2>1, <2>2
<1>4. SameBook(p)
  BY <1>1, <1>2, <1>3 DEF SameBook
<1> QED
  BY <1>1, <1>4 DEF Untouched

LEMMA BesideCourse ==
    ASSUME Types, CourseAll, Beside, foreign' = foreign, ibPosition' = ibPosition
    PROVE  CourseAll'
<1>1. ASSUME NEW p \in Orders PROVE Course(p)'
  <2>1. Course(p) /\ Untouched(p)
    BY BesideUntouched DEF CourseAll
  <2>2. Measured(p)'
    <3>1. Signed(p, ibPosition)' = Signed(p, ibPosition) /\ Alone' = Alone
      BY DEF Signed, Alone
    <3>2. Opened(p)' = Opened(p) /\ entry'[p].pre = entry[p].pre /\ executed'[p] = executed[p]
      BY <2>1 DEF Untouched, SameBook, Opened
    <3> QED
      BY <2>1, <3>1, <3>2 DEF Course, Measured
  <2> QED
    BY <2>1, <2>2, UntouchedKeeps
<1>2. CourseTypes'
  BY DEF CourseAll, CourseTypes, Beside
<1> QED
  BY <1>1, <1>2 DEF CourseAll

(* The net position of an order alone in its symbol.                       *)
LEMMA NetAlone ==
    ASSUME Alone, NEW o \in Orders
    PROVE  NetPosition = foreign + Signed(o, executed[o])
<1> DEFINE lots(p) == IF Side[p] = "BUY" THEN executed[p] ELSE -executed[p]
           one(s) == CHOOSE p \in s : TRUE
           sum[s \in SUBSET Orders] ==
               IF s = {} THEN foreign ELSE sum[s \ {one(s)}] + lots(one(s))
           Solves(f) == f = [s \in SUBSET Orders |->
               IF s = {} THEN foreign ELSE f[s \ {one(s)}] + lots(one(s))]
<1>1. Orders = {o}
  BY DEF Alone
<1>2. Solves([s \in SUBSET Orders |-> IF s = {} THEN foreign ELSE foreign + lots(o)])
  BY <1>1
<1>3. Solves(sum)
  BY <1>2
<1>4. sum[Orders] = foreign + lots(o)
  <2> HIDE DEF sum, lots
  <2>1. sum[{}] = foreign
    BY <1>3
  <2>2. one(Orders) = o /\ Orders \ {o} = {} /\ Orders # {}
    BY <1>1
  <2>3. sum[Orders] = sum[Orders \ {one(Orders)}] + lots(one(Orders))
    BY <1>3, <2>2
  <2> HIDE DEF one
  <2> QED
    BY <2>1, <2>2, <2>3
<1>5. NetPosition = sum[Orders]
  BY DEF NetPosition, FoldSet, MapThenFoldSet
<1> QED
  BY <1>4, <1>5 DEF Signed

(* Other trades and position updates move no order, only the position.     *)
LEMMA PositionCourse ==
    ASSUME Types, CourseAll, Beside, foreign' \in Nat,
           foreign' # 0 \/ (foreign' = foreign /\ ibPosition' = NetPosition)
    PROVE  CourseAll'
<1>1. ASSUME NEW p \in Orders PROVE Course(p)'
  <2>1. /\ Course(p) /\ Untouched(p) /\ executed[p] \in Nat /\ executed' = executed
        /\ foreign' = 0 => foreign = 0
    BY BesideUntouched DEF CourseAll, CourseTypes, Beside
  <2>2. Opened(p)' = Opened(p) /\ entry'[p].pre = entry[p].pre
    BY <2>1 DEF Untouched, SameBook, Opened
  <2>3. ASSUME Alone, foreign' = 0 PROVE Signed(p, ibPosition)' = executed[p]
    <3>1. ibPosition' = 0 + Signed(p, executed[p])
      BY <2>1, <2>3, NetAlone
    <3> QED
      BY <2>1, <3>1 DEF Signed
  <2>4. Measured(p)'
    <3>1. Alone' = Alone
      BY DEF Alone
    <3>2. executed[p] \in 0 .. executed[p]
      BY <2>1
    <3> QED
      BY <2>1, <2>2, <2>3, <3>1, <3>2 DEF Course, Measured
  <2> QED
    BY <2>1, <2>4, UntouchedKeeps
<1>2. CourseTypes'
  BY DEF CourseAll, CourseTypes, Beside
<1> QED
  BY <1>1, <1>2 DEF CourseAll

(* The relay, the watchdog and the sweep are such steps.                   *)
LEMMA BesideSteps ==
    ASSUME EventsInv,
           \/ \E o \in Orders : UpdateOrdersOpen(o) \/ RelayRegister(o)
           \/ \E old \in SUBSET tracked : Watchdog(old)
           \/ SweepSnapshot \/ SweepApply \/ UNCHANGED vars
    PROVE  Beside /\ foreign' = foreign /\ ibPosition' = ibPosition
<1> DEFINE Still == /\ UNCHANGED <<broker, executed, late, lates, spurious, asked, foreign>>
                    /\ UNCHANGED <<wire, calls, verifying, tracked, ibPosition>>
<1>1. ASSUME Still, UNCHANGED <<entry, updates>>
      PROVE  Beside /\ foreign' = foreign /\ ibPosition' = ibPosition
  BY <1>1 DEF Beside
<1>2. ASSUME NEW o \in Orders, UpdateOrdersOpen(o) PROVE Still /\ UNCHANGED <<entry, updates>>
  BY <1>2, Zenon DEF UpdateOrdersOpen, ledgerVars, brokerVars, wrapperVars
<1>3. ASSUME NEW o \in Orders, RelayRegister(o)
      PROVE  Beside /\ foreign' = foreign /\ ibPosition' = ibPosition
  <2>1. Still /\ UNCHANGED entry
    BY <1>3, Zenon DEF RelayRegister, ledgerVars, brokerVars, wrapperVars
  <2>2. \/ updates' = updates
        \/ \E ev \in Event : /\ ev.terminal = FALSE
                             /\ updates' = [updates EXCEPT ![o] = Append(updates[o], ev)]
    BY <1>3, RelayRegisterKeeps
  <2>3. updates \in [Orders -> Seq(Event)]
    BY DEF EventsInv, Types
  <2>4. ASSUME NEW p \in Orders
        PROVE  updates'[p] = updates[p]
               \/ \E ev \in Event : ev.terminal = FALSE /\ updates'[p] = Append(updates[p], ev)
    BY <2>2, <2>3
  <2> QED
    BY <2>1, <2>4 DEF Beside
<1>4. ASSUME NEW old \in SUBSET tracked, Watchdog(old)
      PROVE  Beside /\ foreign' = foreign /\ ibPosition' = ibPosition
  <2>1. Still /\ UNCHANGED updates
    BY <1>4, Zenon DEF Watchdog, CheckStuck, brokerVars, wrapperVars, relayVars
  <2>2. entry' = [o \in Orders |-> IF o \in Stuck(old) THEN [entry[o] EXCEPT !.alerted = TRUE]
                                                        ELSE entry[o]]
    BY <1>4, Zenon DEF Watchdog, CheckStuck
  <2>3. ASSUME NEW p \in Orders
        PROVE  entry'[p] = entry[p] \/ \E b : entry'[p] = [entry[p] EXCEPT !.alerted = b]
    BY <2>2
  <2> QED
    BY <2>1, <2>3 DEF Beside
<1>5. CASE SweepSnapshot
  <2>1. Still /\ UNCHANGED <<entry, updates>>
    BY <1>5, Zenon DEF SweepSnapshot, ledgerVars, brokerVars, wrapperVars, relayVars
  <2> QED
    BY <1>1, <2>1
<1>6. CASE SweepApply
  <2>1. Still /\ UNCHANGED <<entry, updates>>
    BY <1>6, Zenon DEF SweepApply, ledgerVars, brokerVars, wrapperVars
  <2> QED
    BY <1>1, <2>1
<1>7. CASE UNCHANGED vars
  <2>1. Still /\ UNCHANGED <<entry, updates>>
    BY <1>7, Zenon DEF vars, ledgerVars, brokerVars, wrapperVars, relayVars
  <2> QED
    BY <1>1, <2>1
<1> QED
  BY <1>1, <1>2, <1>3, <1>4, <1>5, <1>6, <1>7

-----------------------------------------------------------------------------
(* The invariant.                                                          *)

(* The invariant holds at the start,                                       *)
LEMMA CourseStart == Init => CourseAll
<1> SUFFICES ASSUME Init PROVE CourseAll
  OBVIOUS
<1>1. /\ broker = [o \in Orders |-> "none"] /\ executed = [o \in Orders |-> 0]
      /\ late = [o \in Orders |-> 0] /\ lates = [o \in Orders |-> 0]
      /\ spurious = [o \in Orders |-> 0] /\ asked = {} /\ foreign = 0 /\ ibPosition = 0
      /\ wire = [o \in Orders |-> <<>>] /\ calls = [o \in Orders |-> <<>>]
      /\ updates = [o \in Orders |-> <<>>]
  BY DEF Init
<1>2. CourseTypes
  BY <1>1 DEF CourseTypes
<1>3. ASSUME NEW o \in Orders PROVE Course(o)
  <2>1. /\ broker[o] = "none" /\ executed[o] = 0 /\ late[o] = 0 /\ lates[o] = 0
        /\ wire[o] = <<>> /\ calls[o] = <<>> /\ updates[o] = <<>> /\ o \notin asked
    BY <1>1
  <2>2. Size[o] \in Nat \ {0} /\ 0 \in 0 .. Size[o] /\ 0 # Size[o]
    BY LedgerAssumption DEF LedgerAssumption
  <2>3. Terminals(o) = {} /\ ~Opened(o)
    BY <2>1 DEF Terminals, Opened
  <2>4. AtIB(o)
    BY <2>1, <2>2, <2>3 DEF AtIB
  <2>5. Measured(o)
    BY <1>1, <2>1, <2>3 DEF Measured, Signed
  <2> QED
    BY <2>1, <2>3, <2>4, <2>5 DEF Course, Told, Booked, Sequenced, Concluded
<1> QED
  BY <1>2, <1>3 DEF CourseAll

(* and every step keeps it.                                                *)
LEMMA CourseStep ==
    ASSUME EventsInv, LiveOrEvicted, CourseAll, [Next]_vars
    PROVE  CourseAll'
<1>1. Types
  BY DEF EventsInv
<1>2. CASE BrokerStep
  BY <1>1, <1>2, BrokerStepCourse
<1>3. CASE ForeignTrade
  <2>1. /\ UNCHANGED <<broker, executed, late, lates, spurious, asked>>
        /\ UNCHANGED <<wire, calls, verifying, tracked, entry, updates>>
        /\ foreign' = foreign + 1
    BY <1>3, Zenon DEF ForeignTrade, ledgerVars, wrapperVars, relayVars
  <2>2. foreign \in Nat
    BY DEF CourseAll, CourseTypes
  <2>3. Beside /\ foreign' \in Nat /\ foreign' # 0
    BY <2>1, <2>2 DEF Beside
  <2> QED
    BY <1>1, <2>3, PositionCourse
<1>4. CASE PositionEvent
  <2>1. /\ UNCHANGED <<broker, executed, late, lates, spurious, asked, foreign>>
        /\ UNCHANGED <<wire, calls, verifying, tracked, entry, updates>>
        /\ ibPosition' = NetPosition
    BY <1>4, Zenon DEF PositionEvent, ledgerVars, brokerVars, wrapperVars, relayVars
  <2>2. foreign \in Nat
    BY DEF CourseAll, CourseTypes
  <2>3. Beside
    BY <2>1 DEF Beside
  <2> QED
    BY <1>1, <2>1, <2>2, <2>3, PositionCourse
<1>5. ASSUME \/ \E o \in Orders : UpdateOrdersOpen(o) \/ RelayRegister(o)
             \/ \E old \in SUBSET tracked : Watchdog(old)
             \/ SweepSnapshot \/ SweepApply \/ UNCHANGED vars
      PROVE  CourseAll'
  BY <1>1, <1>5, BesideSteps, BesideCourse
<1>6. ASSUME NEW o \in Orders,
             Place(o) \/ AskCancel(o) \/ Deliver(o) \/ DeliverLate(o) \/ AskOpenOrders(o)
               \/ RunCall(o)
      PROVE  CourseAll'
  BY <1>6, PlaceCourse, AskCancelCourse, DeliverCourse, DeliverLateCourse,
     AskOpenOrdersCourse, RunCallCourse
<1> QED
  BY <1>2, <1>3, <1>4, <1>5, <1>6, Zenon DEF Next, Client

(* Every order runs its course: until it ends, the ledger has recorded     *)
(* each of IB's executions once or the record is on its way, no more       *)
(* cancels are under way than IB has sent, and what ends the order comes   *)
(* behind its fills; once it has ended, its terminal event told the truth. *)
THEOREM CourseInvariant == Spec => []CourseInv
<1>1. EventsInv /\ LiveOrEvicted /\ CourseAll /\ [Next]_vars => CourseAll'
  BY CourseStep
<1>2. LiveOrEvicted /\ CourseAll => CourseInv
  BY DEF CourseAll, CourseInv
<1> QED
  BY <1>1, <1>2, CourseStart, EventsInvariant, LedgerPromises, PTL DEF Spec

(* A spurious cancel ends no order: while nobody has asked to cancel it    *)
(* and at most one cancel of it was spurious, no terminal event of an      *)
(* order is published before IB is done with it - for any number of        *)
(* orders, other trades in the symbol and every delay of messages and      *)
(* callbacks.                                                              *)
THEOREM NoFalseEnds == Spec => []NoFalseEnd
<1>1. CourseInv => NoFalseEnd
  <2>1. \A o \in Orders : broker[o] \in Working => broker[o] \notin Done
    BY DEF Working, Done
  <2> QED
    BY <2>1 DEF CourseInv, Course, Concluded, NoFalseEnd
<1> QED
  BY <1>1, CourseInvariant, PTL

(* The first terminal event of an order says exactly what IB did.  The     *)
(* order is the only one in its symbol: the position diff of another would *)
(* count as this one's the lots that IB has not executed for it.           *)
THEOREM TerminalsAreTrue ==
    ASSUME Alone
    PROVE  Spec => []TerminalIsTrue
<1>1. CourseInv => TerminalIsTrue
  BY DEF CourseInv, Course, Concluded, Regular, TerminalIsTrue
<1> QED
  BY <1>1, CourseInvariant, PTL

(* With other orders and other trades in the symbol the first terminal     *)
(* event may credit too much (the position diff), but it never credits     *)
(* less than IB has executed, is never early, and a complete order is      *)
(* called Filled.                                                          *)
THEOREM TerminalsOmitNothing ==
    Spec => [](\A o \in Orders :
                 Terminals(o) # {} /\ Regular(o) =>
                    /\ broker[o] \in Done
                    /\ FirstTerminal(o).filled >= executed[o]
                    /\ broker[o] = "filled" => FirstTerminal(o).status = "Filled")
<1>1. CourseInv =>
        \A o \in Orders :
           Terminals(o) # {} /\ Regular(o) =>
              /\ broker[o] \in Done
              /\ FirstTerminal(o).filled >= executed[o]
              /\ broker[o] = "filled" => FirstTerminal(o).status = "Filled"
  BY DEF CourseInv, Course, Concluded
<1> QED
  BY <1>1, CourseInvariant, PTL

-----------------------------------------------------------------------------
(* Fills that are lost.                                                    *)

(* Only the ledger's own call for an order ends it.                        *)
LEMMA EndsByCall ==
    ASSUME EventsInv, [Next]_vars, NEW o \in Orders, Terminals(o) = {}, Terminals(o)' # {}
    PROVE  RunCall(o)
<1>1. updates \in [Orders -> Seq(Event)]
  BY DEF EventsInv, Types
<1>2. updates'[o] # updates[o]
  BY StreamStays
<1>3. CASE UNCHANGED vars
  <2>1. updates' = updates
    BY <1>3, Zenon DEF vars, relayVars
  <2> QED
    BY <1>2, <2>1
<1>4. CASE Away
  <2>1. ASSUME NEW p \in Orders, NEW ev \in Event, ev.terminal = FALSE,
               updates' = [updates EXCEPT ![p] = Append(updates[p], ev)]
        PROVE  FALSE
    <3>1. updates[o] \in Seq(Event) /\ updates'[o] = Append(updates[o], ev)
      BY <1>1, <1>2, <2>1
    <3> QED
      BY <2>1, <3>1, FirstStays
  <2> QED
    BY <1>2, <1>4, <2>1 DEF Away
<1>5. ASSUME NEW p \in Orders, Place(p) PROVE FALSE
  <2>1. updates' = updates
    BY <1>5, Zenon DEF Place
  <2> QED
    BY <1>2, <2>1
<1>6. ASSUME NEW p \in Orders, RunCall(p) PROVE p = o
  <2>1. updates' = [updates EXCEPT ![p] = updates[p] \o out']
    BY <1>6, Zenon DEF RunCall
  <2> QED
    BY <1>1, <1>2, <2>1
<1>7. ASSUME NEW old \in SUBSET tracked, Watchdog(old) PROVE FALSE
  <2>1. updates' = updates
    BY <1>7, WatchdogKeeps
  <2> QED
    BY <1>2, <2>1
<1> QED
  BY <1>3, <1>4, <1>5, <1>6, <1>7, EventsStep

(* The position diff finds what the callbacks lost.                        *)
LEMMA Recovered ==
    ASSUME Alone, EventsInv, LiveOrEvicted, CourseAll, [Next]_vars, NEW o \in Orders,
           Terminals(o) = {}, Terminals(o)' # {}, entry[o].filled > 0,
           ibPosition = NetPosition, foreign = 0
    PROVE  FirstTerminal(o)'.filled = executed[o]
<1> DEFINE e == entry[o]
<1>1. RunCall(o)
  BY EndsByCall
<1>2. Types /\ CourseTypes /\ Course(o) /\ Local(o) /\ e \in Entry /\ e.filled \in Nat
  BY DEF EventsInv, CourseAll, Types, LedgerTypeOK, Entry
<1>3. /\ calls[o] # <<>>
      /\ updates' = updates \/ Announces(o, out'[1])
  BY <1>1, RunCallStream
<1>4. Announces(o, out'[1])
  BY <1>3, StreamStays
<1>5. Opened(o)
  BY <1>2, <1>3 DEF Local, Unplaced, Opened
<1>6. ASSUME NEW f, Advances(o, f) PROVE FALSE
  <2>1. /\ updates[o] \in Seq(Event) /\ out'[1] \in Event
        /\ updates'[o] = Append(updates[o], out'[1])
    BY <1>2, <1>4 DEF Announces, Types
  <2>2. out'[1].terminal = FALSE
    BY <1>6 DEF Advances
  <2> QED
    BY <2>1, <2>2, FirstStays
<1>7. PICK s \in Statuses : Finishes(o, [e EXCEPT !.last = s])
  BY <1>1, <1>2, <1>5, <1>6, OpenedCall
<1> DEFINE f == [e EXCEPT !.last = s]
<1>8. /\ f \in Entry /\ f.filled = e.filled /\ f.target = e.target /\ f.side = e.side
      /\ f.pre = e.pre
  BY <1>2 DEF Entry
<1>9. FirstTerminal(o)'.filled = EffectiveFilled(f, ibPosition)
  BY <1>2, <1>4, <1>5, <1>7, <1>8, EndAnnounced
<1>10. Finishes(o, f)
  BY <1>7
<1> HIDE DEF f
<1>11. /\ executed[o] \in 0 .. Size[o] /\ executed[o] \in Nat /\ Size[o] \in Nat
       /\ e.target = Size[o] /\ e.side = Side[o] /\ e.filled + Pending(o) = executed[o]
       /\ Pending(o) \in Nat /\ e.pre = 0
  BY <1>2, <1>5, LedgerAssumption, Counted
     DEF Course, AtIB, Booked, Measured, CourseTypes, LedgerAssumption
<1>12. ibPosition \in Int /\ Signed(o, ibPosition) = executed[o]
  <2>1. ibPosition = 0 + Signed(o, executed[o])
    BY NetAlone
  <2> QED
    BY <1>11, <2>1 DEF Signed
<1>13. e.filled <= executed[o] /\ executed[o] <= Size[o]
  BY <1>2, <1>11
<1>14. 0 \in Int /\ f.filled > 0 /\ f.filled # 0
  BY <1>2, <1>8
<1>15. EffectiveFilled(f, ibPosition) = executed[o]
  BY <1>8, <1>11, <1>12, <1>13, <1>14, Credited
<1> QED
  BY <1>9, <1>15

(* Of an order alone in its symbol, with the position up to date and a     *)
(* fill recorded, the terminal is credited with all that IB executed,      *)
(* however many of its execDetails are late or lost and whichever cancel   *)
(* ended it.                                                               *)
THEOREM LostFillsAreRecovered ==
    ASSUME Alone
    PROVE  Spec => LostFillIsRecovered
<1>1. EventsInv /\ LiveOrEvicted /\ CourseAll /\ [Next]_vars
        => [\A o \in Orders :
             (/\ Terminals(o) = {} /\ Terminals(o)' # {}
              /\ entry[o].filled > 0 /\ ibPosition = NetPosition /\ foreign = 0)
             => FirstTerminal(o)'.filled = executed[o]]_vars
  BY Recovered
<1>2. CourseInv => CourseAll
  BY DEF CourseAll, CourseInv
<1> QED
  BY <1>1, <1>2, CourseInvariant, EventsInvariant, LedgerPromises, PTL
     DEF Spec, LostFillIsRecovered
=============================================================================
