--------------------------- MODULE OrderWorkProofs ---------------------------
(***************************************************************************)
(* For every quantity, every strategy and every set of exit legs: no fill  *)
(* row records more than IB has executed, no exit leg is larger, a         *)
(* CANCELLED row is of an order that is over, and the last fill row is the *)
(* whole of what IB executed. WorkInv is what the first two need; EndInv,  *)
(* on top of it, is the other two's.                                       *)
(***************************************************************************)
EXTENDS OrderWorkSafety, TLAPS

OrderRec == [st : {"none"} \cup Open \cup Over, size : Nat, exec : Nat]
StatusRec == [st : {"PreSubmitted", "Submitted"} \cup Pending \cup Terminal, filled : Nat]
JobRec == [on : Worked, why : {"none", "zero", "partial", "cross"}, had : Nat, got : Nat,
           res : {"none", "filled", "cancelled", "timeout"},
           cut : {"none", "filled", "cancelled", "timeout"},
           saw : {"none", "over", "expired", "cap", "failed", "nocross"}]

(* What the arithmetic below needs of the types.                           *)
Shape ==
    /\ ib \in [Orders -> OrderRec]
    /\ view \in [Orders -> StatusRec]
    /\ told \in [Orders -> Nat]
    /\ job \in JobRec
    /\ recorded \in Nat
    /\ legs \subseteq Legs

(* What the engine has been told never runs ahead of IB.                   *)
Trails ==
    \A o \in Worked : /\ view[o].filled <= ib[o].exec
                      /\ told[o] <= ib[o].exec
                      /\ ib[o].st = "none" => ib[o].exec = 0

(* Until it is placed, IB has not heard of an order.                       *)
Uncrossed ==
    \/ at \in {"idle", "placing", "acking", "checking", "rejecting", "settling", "dropping",
               "walking", "walked", "waiting", "crossing"}
    \/ at \in {"cancelling", "resolving"} /\ job.why = "cross"

Fresh ==
    /\ at \in {"idle", "placing"} => ib["first"].st = "none"
    /\ Uncrossed => ib["cross"].st = "none"
    /\ job.why = "cross" => job.on = "first"

(* The quantities that the coroutine carries over its awaits.              *)
Carried ==
    /\ recorded <= Executed
    /\ at \in {"cancelling", "resolving"} => job.had <= Executed
    /\ at \in {"crossing", "crossed"} => job.got <= ib["first"].exec
    /\ at = "crossing" => job.got < Qty

WorkInv == Shape /\ Trails /\ Fresh /\ Carried /\ LegsAreCovered

(* The quantity asked for is a positive number, and the orders differ.     *)
LEMMA Sizes == Qty \in Nat /\ Qty > 0 /\ Worked \subseteq Orders /\ Legs \subseteq Orders
BY OrderAtIBAssumption, OrderWorkAssumption

(* A new execute_order() has nothing to answer for.                        *)
LEMMA WorkStarts == Init => WorkInv
<1> SUFFICES ASSUME Init PROVE WorkInv
  OBVIOUS
<1>1. AtIBInit /\ legs = {} /\ at = "idle" /\ job = NoJob /\ recorded = 0
  BY Zenon DEF Init
<1>2. \A o \in Orders : ib[o] = NoOrder /\ view[o].filled = 0 /\ told[o] = 0
  BY <1>1 DEF AtIBInit
<1>3. Shape
  BY <1>1 DEF Shape, OrderRec, StatusRec, JobRec, AtIBInit, NoOrder, NoJob, Open, Over, Pending, Terminal, Refused, Worked
<1>4. Trails /\ Fresh /\ Carried /\ LegsAreCovered
  BY <1>1, <1>2, Sizes DEF Trails, Fresh, Carried, LegsAreCovered, Executed, NoOrder, NoJob,
     Worked, Legs
<1> QED BY <1>3, <1>4 DEF WorkInv

(* A step that sends nothing to IB and is told nothing keeps the invariant *)
(* when what it writes down and carries on is of executed lots.            *)
LEMMA QuietKeeps ==
    ASSUME WorkInv, UNCHANGED <<ib, view, told>>, Shape', Fresh', Carried'
    PROVE  WorkInv'
BY DEF WorkInv, Trails, LegsAreCovered, Executed, Worked, Legs

(* Where a coroutine goes that has only exit legs left to place.           *)
LEMMA LegsLast ==
    ASSUME NEW ls, ls \subseteq Legs
    PROVE  First(ls) \in {"pt", "trail", "sl", "raised", "done"}
<1>1. CASE ls = {} BY <1>1 DEF First, Finish
<1>2. CASE "pt" \in ls BY <1>2 DEF First
<1>3. CASE "pt" \notin ls /\ "trail" \in ls BY <1>3 DEF First
<1>4. CASE "pt" \notin ls /\ "trail" \notin ls /\ "sl" \in ls BY <1>4 DEF First
<1> QED BY <1>1, <1>2, <1>3, <1>4 DEF Legs

(* After a leg comes one of the legs left, or the end.                     *)
LEMMA AfterIsLast ==
    ASSUME NEW leg \in Legs, legs \subseteq Legs
    PROVE  After(leg) \in {"pt", "trail", "sl", "raised", "done"}
<1>1. Finish \in {"raised", "done"}
  BY DEF Finish
<1>2. /\ First(legs \ {"pt"}) \in {"pt", "trail", "sl", "raised", "done"}
      /\ First(legs \ {"pt", "trail"}) \in {"pt", "trail", "sl", "raised", "done"}
      /\ First({}) \in {"pt", "trail", "sl", "raised", "done"}
  BY LegsLast
<1>3. After(leg) \in {Finish, First(legs \ {"pt"}), First(legs \ {"pt", "trail"}), First({})}
  <2>1. CASE leg = "pt" BY <2>1 DEF After
  <2>2. CASE leg = "trail" BY <2>2 DEF After
  <2>3. CASE leg = "sl" BY <2>3 DEF After
  <2> QED BY <2>1, <2>2, <2>3 DEF Legs
<1> QED BY <1>1, <1>2, <1>3

(* After a partial fill comes the profit taker at most.                    *)
LEMMA PartialIsLast ==
    ASSUME legs \subseteq Legs
    PROVE  AfterPartial \in {"pt", "trail", "sl", "raised", "done"}
<1>1. First(legs \cap {"pt"}) \in {"pt", "trail", "sl", "raised", "done"}
  BY LegsLast
<1>2. First({}) \in {"pt", "trail", "sl", "raised", "done"}
  BY LegsLast
<1> QED BY <1>1, <1>2 DEF AfterPartial

(***************************************************************************)
(* IB's steps: they are of one order, executed lots only grow, and every   *)
(* report is of them.                                                      *)
(***************************************************************************)
(* What a step of IB's may do: to one order, and never un-execute.         *)
OneOrder(o) ==
    /\ ib' \in [Orders -> OrderRec] /\ view' \in [Orders -> StatusRec] /\ told' \in [Orders -> Nat]
    /\ \A x \in Orders \ {o} : ib'[x] = ib[x] /\ view'[x] = view[x] /\ told'[x] = told[x]
    /\ ib'[o].exec >= ib[o].exec /\ ib'[o].size = ib[o].size
    /\ ib[o].st = "none" <=> ib'[o].st = "none"
    /\ view'[o].filled <= ib'[o].exec /\ told'[o] <= ib'[o].exec
    /\ ib'[o].st = "none" => ib'[o].exec = 0

(* Every step of IB's is of that kind.                                     *)
LEMMA IBReports ==
    ASSUME Shape, Trails, NEW o \in Worked, IBStep(o)
    PROVE  OneOrder(o)
<1>1. /\ o \in Orders /\ ib[o] \in OrderRec /\ view[o] \in StatusRec /\ told[o] \in Nat
      /\ ib \in [Orders -> OrderRec] /\ view \in [Orders -> StatusRec] /\ told \in [Orders -> Nat]
      /\ view[o].filled <= ib[o].exec /\ told[o] <= ib[o].exec
      /\ ib[o].st = "none" => ib[o].exec = 0
  BY Sizes DEF Shape, Trails
<1> USE <1>1 DEF OrderRec, Open, Over
<1>2. ASSUME NEW st \in Open \cup Over, ib[o].st # "none", Moves(o, st)
      PROVE  OneOrder(o)
  BY <1>2 DEF Moves, OneOrder
<1>3. CASE Held(o) BY <1>2, <1>3 DEF Held
<1>4. CASE Works(o) BY <1>2, <1>4 DEF Works
<1>5. CASE Refuses(o) BY <1>2, <1>5 DEF Refuses
<1>6. CASE Cancels(o) BY <1>2, <1>6 DEF Cancels, IsOpen
<1>7. CASE Executes(o)
  <2> DEFINE st == IF ib[o].exec + 1 = ib[o].size THEN "filled" ELSE "live"
  <2>1. ib[o].st = "live" /\ UNCHANGED <<view, told>>
    BY <1>7, Zenon DEF Executes, CanFill
  <2>2. ib' = [ib EXCEPT ![o].exec = ib[o].exec + 1, ![o].st = st]
    BY <1>7, <2>1 DEF Executes
  <2>3. st \in {"live", "filled"}
    OBVIOUS
  <2> HIDE DEF st
  <2>4. ib'[o].st = st /\ ib'[o].exec = ib[o].exec + 1 /\ ib'[o].size = ib[o].size
    BY <2>2
  <2>5. ib' \in [Orders -> OrderRec]
    <3> DEFINE more == [ib EXCEPT ![o].exec = ib[o].exec + 1]
    <3>1. more \in [Orders -> OrderRec]
      OBVIOUS
    <3>2. ib' = [more EXCEPT ![o].st = st]
      BY <2>2
    <3> HIDE DEF more
    <3> QED BY <3>1, <3>2, <2>3
  <2>7. \A x \in Orders \ {o} : ib'[x] = ib[x]
    BY <2>2
  <2>6. view[o].filled \in Nat /\ ib[o].exec \in Nat
    BY DEF StatusRec
  <2> QED BY <2>1, <2>3, <2>4, <2>5, <2>6, <2>7 DEF OneOrder
<1>8. CASE Preroutes(o)
  BY <1>8 DEF Preroutes, OneOrder, StatusRec, Terminal, Refused
<1>9. CASE Reports(o)
  <2>1. Current(o) \in StatusRec /\ Current(o).filled = ib[o].exec
    BY DEF Current, Shown, StatusRec, Pending, Terminal, Refused
  <2>2. view' = [view EXCEPT ![o] = Current(o)] /\ UNCHANGED <<ib, told>>
    BY <1>9 DEF Reports
  <2> QED BY <2>1, <2>2 DEF OneOrder
<1>10. CASE HearsEnd(o)
  <2>1. UNCHANGED <<ib, view, told>> BY <1>10, Zenon DEF HearsEnd
  <2> QED BY <2>1 DEF OneOrder
<1>11. CASE HearsFill(o)
  <2>1. /\ told[o] < ib[o].exec /\ told' = [told EXCEPT ![o] = @ + 1]
        /\ UNCHANGED <<ib, view>>
    BY <1>11, Zenon DEF HearsFill
  <2> QED BY <2>1 DEF OneOrder
<1> QED BY <1>3, <1>4, <1>5, <1>6, <1>7, <1>8, <1>9, <1>10, <1>11 DEF IBStep

(* So IB's steps keep the invariant.                                       *)
LEMMA IBKeeps ==
    ASSUME WorkInv, NEW o \in Worked, IBStep(o)
    PROVE  WorkInv'
<1>1. /\ UNCHANGED <<legs, at, job, recorded>>
      /\ o \in Orders /\ "first" \in Orders /\ "cross" \in Orders
  BY Sizes, Zenon DEF IBStep, workVars, command, Worked
<1>2. OneOrder(o)
  BY IBReports DEF WorkInv
<1>3. \A x \in Orders : ib[x] \in OrderRec /\ ib'[x] \in OrderRec
  BY <1>2 DEF WorkInv, Shape, OneOrder
<1>4. \A x \in Orders : /\ ib'[x].exec >= ib[x].exec /\ ib'[x].size = ib[x].size
                        /\ ib[x].st = "none" <=> ib'[x].st = "none"
  BY <1>2, <1>3 DEF OneOrder, OrderRec
<1>5. Executed \in Nat /\ Executed' \in Nat /\ Executed' >= Executed
  BY <1>1, <1>3, <1>4 DEF Executed, OrderRec
<1>6. Shape' /\ Trails'
  BY <1>1, <1>2, Sizes DEF WorkInv, Shape, Trails, OneOrder
<1>7. Fresh'
  BY <1>1, <1>4 DEF WorkInv, Fresh, Uncrossed
<1>8. Carried'
  <2>1. job.had \in Nat /\ job.got \in Nat /\ recorded \in Nat
    BY DEF WorkInv, Shape, JobRec
  <2>2. ib["first"].exec \in Nat /\ ib'["first"].exec \in Nat
    BY <1>1, <1>3 DEF OrderRec
  <2> QED BY <1>1, <1>4, <1>5, <2>1, <2>2 DEF WorkInv, Carried
<1>9. LegsAreCovered'
  BY <1>3, <1>4, <1>5, Sizes DEF WorkInv, LegsAreCovered, OrderRec
<1> QED BY <1>6, <1>7, <1>8, <1>9 DEF WorkInv

(***************************************************************************)
(* The coroutine's steps.                                                  *)
(***************************************************************************)
(* Whatever the coroutine reads of its orders IB has executed.             *)
LEMMA ReadsAreExecuted ==
    ASSUME WorkInv
    PROVE  /\ Executed \in Nat /\ ib["first"].exec \in Nat /\ ib["first"].exec <= Executed
           /\ job \in JobRec /\ recorded \in Nat /\ recorded <= Executed
           /\ \A o \in Worked : /\ view[o].filled \in Nat /\ view[o].filled <= Executed
                                /\ told[o] \in Nat /\ told[o] <= Executed
           /\ view["first"].filled <= ib["first"].exec
           /\ job.got <= ib["first"].exec => job.got + view["cross"].filled <= Executed
<1>1. \A o \in Worked : /\ ib[o].exec \in Nat /\ view[o].filled \in Nat /\ told[o] \in Nat
                        /\ view[o].filled <= ib[o].exec /\ told[o] <= ib[o].exec
  BY Sizes DEF WorkInv, Shape, Trails, OrderRec, StatusRec
<1>2. job \in JobRec /\ job.got \in Nat /\ recorded \in Nat /\ recorded <= Executed
  BY DEF WorkInv, Shape, Carried, JobRec
<1> QED BY <1>1, <1>2 DEF Executed, Worked

(* A step to where no quantity is carried.                                 *)
LEMMA SettlesKeep ==
    ASSUME WorkInv, UNCHANGED <<ib, view, told, legs>>,
           job' \in JobRec, job'.why = "cross" => job'.on = "first",
           recorded' \in Nat, recorded' <= Executed,
           at' \notin {"idle", "placing", "cancelling", "resolving", "crossing", "crossed"},
           Uncrossed' => Uncrossed
    PROVE  WorkInv'
<1>1. Shape'
  BY DEF WorkInv, Shape
<1>2. Fresh'
  BY DEF WorkInv, Fresh
<1>3. Carried'
  BY DEF Carried, Executed
<1> QED BY <1>1, <1>2, <1>3, QuietKeeps

(* The first step of a cancel.                                             *)
LEMMA CancelKeeps ==
    ASSUME WorkInv, UNCHANGED <<ib, view, told, legs>>, at' = "cancelling",
           job' \in JobRec, job'.why = "cross" => job'.on = "first" /\ Uncrossed,
           recorded' = recorded, job'.had <= Executed
    PROVE  WorkInv'
<1>1. Shape'
  BY DEF WorkInv, Shape
<1>2. Fresh'
  BY DEF WorkInv, Fresh, Uncrossed
<1>3. Carried'
  BY DEF WorkInv, Carried, Executed
<1> QED BY <1>1, <1>2, <1>3, QuietKeeps

(* The rows of an outcome that is of executed lots.                        *)
LEMMA RecordKeeps ==
    ASSUME WorkInv, UNCHANGED <<ib, view, told, legs>>,
           job' \in JobRec, job'.why = "cross" => job'.on = "first",
           NEW q \in Nat, q <= Executed, Record(q)
    PROVE  WorkInv'
<1>1. recorded' = q /\ at' = First(legs)
  BY Zenon DEF Record
<1>2. at' \in {"pt", "trail", "sl", "raised", "done"}
  BY <1>1, LegsLast DEF WorkInv, Shape
<1> QED BY <1>1, <1>2, SettlesKeep DEF Uncrossed

(* A cancel that carries executed lots, or, before the market order is     *)
(* placed, the one of the limit order.                                     *)
LEMMA ToCancelKeeps ==
    ASSUME WorkInv, UNCHANGED <<ib, view, told, legs>>,
           NEW o \in Worked, NEW why \in {"zero", "partial", "cross"},
           NEW q \in Nat, q <= Executed, ToCancel(o, why, q),
           why = "cross" => o = "first" /\ Uncrossed
    PROVE  WorkInv'
<1>1. /\ at' = "cancelling" /\ recorded' = recorded
      /\ job' = [job EXCEPT !.on = o, !.why = why, !.had = q]
  BY Zenon DEF ToCancel
<1>2. job \in JobRec
  BY DEF WorkInv, Shape
<1>3. job' \in JobRec /\ job'.on = o /\ job'.why = why /\ job'.had = q
  BY <1>1, <1>2 DEF JobRec
<1> QED BY <1>1, <1>3, CancelKeeps

(* The steps that wait, look and decide, and change no quantity.           *)
Waits ==
    \/ PlaceRaises \/ Acked \/ NotAcked \/ Reject \/ Settled \/ NotRouted \/ Drop
    \/ RepriceLooks \/ RepriceAmends \/ WalkEnds \/ SmartWalkEnds

(* They keep it, as there is nothing new to answer for.                    *)
LEMMA WaitsKeep == ASSUME WorkInv, Waits PROVE WorkInv'
<1>1. /\ UNCHANGED <<ib, view, told, legs, recorded>>
      /\ job' = job \/ \E s \in {"none", "over", "expired", "cap", "failed"} :
                          job' = [job EXCEPT !.saw = s]
      /\ at' \in {"raised", "checking", "settling", "walking", "rejecting", "left", "dropping",
                  "done", "waiting", "walked"}
      /\ Uncrossed' => Uncrossed
  <2> USE Zenon DEF Reads, ibVars, command, Goes, Uncrossed
  <2>1. CASE PlaceRaises BY <2>1 DEF PlaceRaises
  <2>2. CASE Acked BY <2>2 DEF Acked
  <2>3. CASE NotAcked BY <2>3 DEF NotAcked
  <2>4. CASE Reject BY <2>4 DEF Reject
  <2>5. CASE Settled BY <2>5 DEF Settled
  <2>6. CASE NotRouted BY <2>6 DEF NotRouted
  <2>7. CASE Drop BY <2>7 DEF Drop
  <2>8. CASE RepriceLooks BY <2>8 DEF RepriceLooks
  <2>9. CASE RepriceAmends BY <2>9 DEF RepriceAmends
  <2>10. CASE WalkEnds BY <2>10 DEF WalkEnds
  <2>11. CASE SmartWalkEnds BY <2>11 DEF SmartWalkEnds
  <2> QED BY <2>1, <2>2, <2>3, <2>4, <2>5, <2>6, <2>7, <2>8, <2>9, <2>10, <2>11 DEF Waits
<1>2. job \in JobRec /\ recorded \in Nat /\ recorded <= Executed
  BY ReadsAreExecuted
<1>3. job' \in JobRec /\ job'.why = job.why /\ job'.on = job.on
  BY <1>1, <1>2 DEF JobRec
<1> QED BY <1>1, <1>2, <1>3, SettlesKeep DEF WorkInv, Fresh

(* The outcomes of the waits before a cancel.                              *)
Outcomes ==
    Check \/ SettledFilled \/ MidOutcome \/ BidAskOutcome \/ MarketOutcome \/ SmartOutcome \/ Crossed

(* Each records, or carries into a cancel, what it has read.               *)
LEMMA OutcomesKeep == ASSUME WorkInv, Outcomes PROVE WorkInv'
<1>1. UNCHANGED <<ib, view, told, legs>>
  BY Zenon DEF Outcomes, Check, SettledFilled, MidOutcome, BidAskOutcome, MarketOutcome,
     SmartOutcome, Crossed, Concludes, command
<1>2. /\ job \in JobRec /\ (job.why = "cross" => job.on = "first")
      /\ recorded \in Nat /\ recorded <= Executed
  BY ReadsAreExecuted DEF WorkInv, Fresh
<1>3. \/ \E q \in Nat : q <= Executed /\ Record(q) /\ UNCHANGED job
      \/ \E q \in Nat : q <= Executed /\ ToCancel("first", "partial", q)
      \/ \E q \in Nat : q <= Executed /\ ToCancel("first", "zero", q)
      \/ \E q \in Nat : q <= Executed /\ ToCancel("cross", "partial", q)
      \/ \E q \in Nat : q <= Executed /\ ToCancel("first", "cross", q) /\ at = "walked"
      \/ /\ at' \in {"left", "done", "dropping"} /\ UNCHANGED <<job, recorded>>
         /\ at' = "dropping" => Uncrossed
  <2>1. /\ view["first"].filled \in Nat /\ view["first"].filled <= Executed
        /\ told["first"] \in Nat /\ told["first"] <= Executed
        /\ Heard \in Nat /\ Heard <= Executed /\ 0 \in Nat /\ 0 <= Executed
    BY ReadsAreExecuted DEF Worked, Heard
  <2> USE Zenon
  <2>2. CASE Check BY <2>1, <2>2 DEF Check
  <2>3. CASE SettledFilled BY <2>1, <2>3 DEF SettledFilled
  <2>4. CASE MidOutcome BY <2>1, <2>4 DEF MidOutcome, Void
  <2>5. CASE BidAskOutcome BY <2>1, <2>5 DEF BidAskOutcome, Uncrossed
  <2>6. CASE MarketOutcome BY <2>1, <2>6 DEF MarketOutcome
  <2>7. CASE SmartOutcome BY <2>1, <2>7 DEF SmartOutcome, Void
  <2>8. CASE Crossed
    <3>1. at = "crossed" => job.got <= ib["first"].exec
      BY DEF WorkInv, Carried
    <3>2. view["cross"].filled \in Nat /\ job.got \in Nat
      BY ReadsAreExecuted DEF JobRec, Worked
    <3> DEFINE total == job.got + view["cross"].filled
    <3>3. total \in Nat
      BY <3>2, SMT
    <3>4. total <= Executed
      BY <2>8, <3>1, ReadsAreExecuted DEF Crossed
    <3> QED BY <2>8, <3>3, <3>4 DEF Crossed, Void
  <2> QED BY <2>2, <2>3, <2>4, <2>5, <2>6, <2>7, <2>8 DEF Outcomes
<1>4. ASSUME at' \in {"left", "done", "dropping"}, UNCHANGED <<job, recorded>>,
             at' = "dropping" => Uncrossed
      PROVE  WorkInv'
  BY <1>1, <1>2, <1>4, SettlesKeep DEF Uncrossed
<1>5. ASSUME NEW q \in Nat, q <= Executed, Record(q), UNCHANGED job
      PROVE  WorkInv'
  BY <1>1, <1>2, <1>5, RecordKeeps
<1>6. ASSUME NEW q \in Nat, q <= Executed, NEW o \in Worked, NEW why \in {"zero", "partial"},
             ToCancel(o, why, q)
      PROVE  WorkInv'
  BY <1>1, <1>6, ToCancelKeeps
<1>7. ASSUME NEW q \in Nat, q <= Executed, ToCancel("first", "cross", q), at = "walked"
      PROVE  WorkInv'
  BY <1>1, <1>7, ToCancelKeeps DEF Uncrossed, Worked
<1> QED BY <1>3, <1>4, <1>5, <1>6, <1>7 DEF Worked

(* An order is placed: IB has executed nothing of it, and a leg is for     *)
(* lots that it has executed of the entry.                                 *)
LEMMA PlacedKeeps ==
    ASSUME WorkInv, NEW o \in Orders, NEW size \in Nat,
           ib' = Placed(o, size), UNCHANGED <<view, told, legs, job, recorded>>,
           o \in Worked => ib[o].st = "none",
           o \in Legs => size <= Executed,
           at' \notin {"idle", "placing", "cancelling", "resolving", "crossing"},
           at' = "crossed" => job.got <= ib["first"].exec /\ o = "cross",
           Uncrossed' => Uncrossed /\ o # "cross"
    PROVE  WorkInv'
<1>1. ib \in [Orders -> OrderRec] /\ Worked \subseteq Orders /\ Legs \subseteq Orders
  BY Sizes DEF WorkInv, Shape
<1> DEFINE r == [st |-> "sent", size |-> size, exec |-> 0]
<1>2. ib' = [ib EXCEPT ![o] = r] /\ r \in OrderRec
  BY DEF Placed, OrderRec, Open
<1>3. r.exec = 0 /\ r.size = size /\ r.st = "sent"
  OBVIOUS
<1> HIDE DEF r
<1>4. ib' \in [Orders -> OrderRec] /\ ib'[o] = r /\ \A x \in Orders \ {o} : ib'[x] = ib[x]
  BY <1>1, <1>2
<1>5. \A x \in Worked : ib'[x].exec = ib[x].exec
  BY <1>1, <1>3, <1>4 DEF WorkInv, Trails
<1>6. Executed' = Executed
  BY <1>5 DEF Executed, Worked
<1>7. Shape'
  BY <1>4 DEF WorkInv, Shape
<1>8. Trails'
  BY <1>1, <1>3, <1>4, <1>5 DEF WorkInv, Trails
<1>9. Fresh'
  BY <1>1, <1>4 DEF WorkInv, Fresh, Worked
<1>10. Carried'
  BY <1>5, <1>6 DEF WorkInv, Carried, Worked
<1>11. LegsAreCovered'
  BY <1>1, <1>3, <1>4, <1>6 DEF WorkInv, LegsAreCovered
<1> QED BY <1>7, <1>8, <1>9, <1>10, <1>11 DEF WorkInv

(* The three kinds of placement.                                           *)
Sends == Place \/ Cross \/ \E leg \in Legs : PlaceLeg(leg)

(* The entry and the market order are new to IB, and a leg has the lots    *)
(* of the row that was recorded for the entry.                             *)
LEMMA SendsKeep == ASSUME WorkInv, Sends PROVE WorkInv'
<1>1. UNCHANGED <<view, told, legs, job, recorded>>
  <2> USE Zenon DEF command, Goes
  <2>1. CASE Place BY <2>1 DEF Place, PlaceLimit, PlaceMid, PlaceBidAsk, PlaceMarket, PlaceSmart, Places
  <2>2. CASE Cross BY <2>2 DEF Cross
  <2>3. ASSUME NEW leg \in Legs, PlaceLeg(leg) PROVE UNCHANGED <<view, told, legs, job, recorded>>
    BY <2>3 DEF PlaceLeg
  <2> QED BY <2>1, <2>2, <2>3 DEF Sends
<1>2. "first" \in Orders /\ "cross" \in Orders /\ Legs \subseteq Orders /\ Qty \in Nat
  BY Sizes DEF Worked
<1>3. job.got \in Nat /\ recorded \in Nat /\ recorded <= Executed
  BY ReadsAreExecuted DEF JobRec
<1>4. CASE Place
  <2>1. /\ at = "placing" /\ ib' = Placed("first", Qty)
        /\ at' \in {"acking", "walking", "waiting"}
    BY <1>4, Zenon DEF Place, PlaceLimit, PlaceMid, PlaceBidAsk, PlaceMarket, PlaceSmart, Places, Goes
  <2> QED BY <1>1, <1>2, <2>1, PlacedKeeps DEF WorkInv, Fresh, Uncrossed, Legs
<1>5. CASE Cross
  <2>1. /\ at = "crossing" /\ at' = "crossed" /\ ib' = Placed("cross", Residual)
    BY <1>5, Zenon DEF Cross, Goes
  <2>2. Residual \in Nat /\ job.got <= ib["first"].exec
    BY <1>2, <1>3, <2>1 DEF WorkInv, Carried, Residual
  <2> QED BY <1>1, <1>2, <2>1, <2>2, PlacedKeeps DEF WorkInv, Fresh, Uncrossed, Legs
<1>6. ASSUME NEW leg \in Legs, PlaceLeg(leg) PROVE WorkInv'
  <2>1. at = leg /\ at' = After(leg) /\ ib' = Placed(leg, recorded)
    BY <1>6, Zenon DEF PlaceLeg
  <2>2. at' \in {"pt", "trail", "sl", "raised", "done"}
    BY <2>1, AfterIsLast DEF WorkInv, Shape
  <2> QED BY <1>1, <1>2, <1>3, <2>1, <2>2, PlacedKeeps DEF Uncrossed, Worked, Legs
<1> QED BY <1>4, <1>5, <1>6 DEF Sends

(* Nothing is placed before the attempt is written.                        *)
LEMMA BeginKeeps == ASSUME WorkInv, Begin PROVE WorkInv'
<1>1. /\ UNCHANGED <<ib, view, told, job, recorded>>
      /\ at = "idle" /\ at' = "placing" /\ legs' \subseteq Legs
  BY Zenon DEF Begin, Goes, Reads, ibVars
<1>2. Shape' /\ Fresh' /\ Carried'
  BY <1>1 DEF WorkInv, Shape, Fresh, Uncrossed, Carried, Executed
<1> QED BY <1>1, <1>2, QuietKeeps

(* A market order that IB does not take: what the limit order had is       *)
(* carried into a second cancel.                                           *)
LEMMA CrossRaisesKeeps == ASSUME WorkInv, CrossRaises PROVE WorkInv'
<1>1. /\ UNCHANGED <<ib, view, told, legs, recorded>> /\ at = "crossing"
      /\ job' = [job EXCEPT !.saw = "nocross", !.why = "partial", !.had = job.got]
      /\ at' \in {"cancelling", "raised"}
  BY Zenon DEF CrossRaises, command
<1>2. job' \in JobRec /\ job'.why = "partial" /\ job'.had = job.got
  BY <1>1, ReadsAreExecuted DEF JobRec
<1>3. job.got \in Nat /\ job.got <= Executed /\ recorded \in Nat /\ recorded <= Executed
  BY <1>1, ReadsAreExecuted DEF WorkInv, Carried, JobRec
<1> QED BY <1>1, <1>2, <1>3, SettlesKeep, CancelKeeps DEF Uncrossed

(* Sending the cancel changes no quantity.                                 *)
LEMMA CancellingKeeps == ASSUME WorkInv, Cancelling PROVE WorkInv'
<1>1. /\ UNCHANGED <<ib, view, told, legs, job, recorded>>
      /\ at = "cancelling" /\ at' = "resolving"
  BY Zenon DEF Cancelling, Goes, command
<1>2. Shape' /\ Fresh' /\ Carried'
  BY <1>1 DEF WorkInv, Shape, Fresh, Uncrossed, Carried, Executed
<1> QED BY <1>1, <1>2, QuietKeeps

(* The resolution takes the larger of two executed quantities, or hands    *)
(* what the limit order has, less than was asked for, to the market order. *)
LEMMA ResolveKeeps == ASSUME WorkInv, Resolve PROVE WorkInv'
<1>1. PICK res \in {"filled", "cancelled", "timeout"} : Resolved(res)
  BY Zenon DEF Resolve, Resolution
<1>2. at = "resolving" /\ UNCHANGED <<ib, view, told, legs>>
  BY <1>1, Zenon DEF Resolve, Resolved, Concludes, command
<1> DEFINE v == view[job.on].filled
<1>3. /\ job.on \in Worked /\ job.had \in Nat /\ job.had <= Executed /\ job \in JobRec
      /\ v \in Nat /\ v <= Executed /\ Executed \in Nat
      /\ job.why = "cross" => job.on = "first" /\ v <= ib["first"].exec
                              /\ ib["cross"].st = "none"
      /\ recorded \in Nat /\ recorded <= Executed /\ ib["first"].exec \in Nat
  BY <1>2, ReadsAreExecuted DEF WorkInv, Fresh, Uncrossed, Carried, JobRec
<1>4. job' \in JobRec /\ job'.why = job.why /\ job'.on = job.on /\ job'.got = v
  <2>1. job' = [job EXCEPT !.res = res, !.got = v,
                           !.cut = IF job.why = "cross" THEN res ELSE job.cut]
    BY <1>1 DEF Resolved
  <2> HIDE DEF v
  <2> QED BY <1>3, <2>1 DEF JobRec
<1>5. Final \in Nat /\ Final <= Executed
  BY <1>3 DEF Final
<1>6. ASSUME NEW q \in Nat, q <= Executed, Record(q) PROVE WorkInv'
  BY <1>2, <1>3, <1>4, <1>6, RecordKeeps
<1>7. ASSUME at' = "crossing", recorded' = recorded, job.why = "cross", v < Qty
      PROVE  WorkInv'
  <2>1. Shape'
    BY <1>2, <1>4, <1>7 DEF WorkInv, Shape
  <2>2. Fresh'
    BY <1>2, <1>3, <1>4, <1>7 DEF Fresh
  <2>3. Carried'
    BY <1>2, <1>3, <1>4, <1>7 DEF WorkInv, Carried, Executed
  <2> QED BY <1>2, <2>1, <2>2, <2>3, QuietKeeps
<1>8. ASSUME (at' = AfterPartial \/ at' = "probing"), recorded' = Final PROVE WorkInv'
  <2>1. at' \in {"pt", "trail", "sl", "raised", "done", "probing"}
    BY <1>8, PartialIsLast DEF WorkInv, Shape
  <2> QED BY <1>2, <1>3, <1>4, <1>5, <1>8, <2>1, SettlesKeep DEF Uncrossed
<1>9. CASE job.why = "cross"
  <2>1. \/ Record(v)
        \/ ~ SeenFilled /\ at' = "crossing" /\ recorded' = recorded
    BY <1>1, <1>9, Zenon DEF Resolved, Crosses
  <2>2. ~ SeenFilled => v < Qty
    BY <1>3, Sizes DEF SeenFilled
  <2> QED BY <1>3, <1>6, <1>7, <1>9, <2>1, <2>2
<1>10. CASE job.why # "cross"
  <2>1. \/ Record(Final)
        \/ recorded' = Final /\ (at' = AfterPartial \/ at' = "probing")
    BY <1>1, <1>10 DEF Resolved, Settles, Finalised
  <2> QED BY <1>5, <1>6, <1>8, <2>1
<1> QED BY <1>9, <1>10

(* The probe decides between a CANCELLED row and an alert, not a quantity. *)
LEMMA ProbeKeeps == ASSUME WorkInv, Probe PROVE WorkInv'
<1>1. UNCHANGED <<ib, view, told, legs, job, recorded>> /\ at' = AfterPartial
  BY Zenon DEF Probe, Finalised, Concludes, command
<1>2. at' \in {"pt", "trail", "sl", "raised", "done"}
  BY <1>1, PartialIsLast DEF WorkInv, Shape
<1> QED BY <1>1, <1>2, ReadsAreExecuted, SettlesKeep DEF WorkInv, Fresh, Uncrossed

(* A leg that is not placed leaves the others to place.                    *)
LEMMA LegFailsKeeps == ASSUME WorkInv, NEW leg \in Legs, LegFails(leg) PROVE WorkInv'
<1>1. UNCHANGED <<ib, view, told, legs, job, recorded>> /\ at' \in {"raised", After(leg)}
  BY Zenon DEF LegFails, command
<1>2. at' \in {"pt", "trail", "sl", "raised", "done"}
  BY <1>1, AfterIsLast DEF WorkInv, Shape
<1> QED BY <1>1, <1>2, ReadsAreExecuted, SettlesKeep DEF WorkInv, Fresh, Uncrossed

(* Every step keeps the invariant.                                         *)
LEMMA StepsKeep == WorkInv /\ [Next]_vars => WorkInv'
<1> SUFFICES ASSUME WorkInv, [Next]_vars PROVE WorkInv'
  OBVIOUS
<1>1. CASE EngineStep
  <2> SUFFICES ASSUME NEW leg \in Legs,
                      \/ Begin \/ Waits \/ Outcomes \/ Sends \/ CrossRaises \/ Cancelling
                      \/ Resolve \/ Probe \/ LegFails(leg)
               PROVE  WorkInv'
    BY <1>1, Zenon DEF EngineStep, Waits, Outcomes, Sends, Legs
  <2> QED BY BeginKeeps, WaitsKeep, OutcomesKeep, SendsKeep, CrossRaisesKeeps, CancellingKeeps,
          ResolveKeeps, ProbeKeeps, LegFailsKeeps
<1>2. ASSUME NEW o \in Worked, IBStep(o) PROVE WorkInv'
  BY <1>2, IBKeeps
<1>3. CASE UNCHANGED vars
  <2>1. UNCHANGED <<ib, view, told, legs, at, job, recorded>>
    BY <1>3, Zenon DEF vars, ibVars, workVars, command
  <2>2. Shape' /\ Fresh' /\ Carried'
    BY <2>1 DEF WorkInv, Shape, Fresh, Uncrossed, Carried, Executed
  <2> QED BY <2>1, <2>2, QuietKeeps
<1> QED BY <1>1, <1>2, <1>3 DEF Next

(* It holds of every behaviour.                                            *)
LEMMA WorkInvariant == Spec => []WorkInv
BY WorkStarts, StepsKeep, PTL DEF Spec

(***************************************************************************)
(* The end of an order, for every strategy but SMART_MARKET and while IB   *)
(* re-routes none: what shows as over is over, with every lot in it.       *)
(***************************************************************************)
TrackRec == [on : BOOLEAN, filled : BOOLEAN, cancelled : BOOLEAN]
Rows == {"none", "attempt", "accepted", "rejected", "cancelling", "partial", "filled", "cancelled"}

(* An order has no more lots than its size, and is filled with all.        *)
Sized ==
    /\ \A o \in Worked : /\ ib[o].exec <= ib[o].size
                         /\ ib[o].st = "filled" => ib[o].exec = ib[o].size
    /\ ib["first"].st # "none" => ib["first"].size = Qty

(* An end that the engine has been told of is IB's, with its quantity.     *)
EndsAreIB ==
    preroutes = 0 =>
        \A o \in Worked : /\ view[o].st \in Terminal => view[o] = Current(o)
                          /\ track[o].cancelled => view[o].st \in Refused

(* Until the outcome is known nothing is recorded. A command other than    *)
(* SMART_MARKET has one order.                                             *)
Unsettled == {"idle", "placing", "acking", "checking", "rejecting", "settling", "walking",
              "waiting", "cancelling", "resolving"}
Plain ==
    /\ at \notin {"walked", "crossing", "crossed"}
    /\ job.why # "cross" /\ job.on = "first"
    /\ ib["cross"].st = "none"
    /\ at \in Unsettled => recorded = 0 /\ row["first"] \notin {"filled", "cancelled"}
    /\ at = "probing" => job.res = "timeout"

(* A FILLED row has the lots asked for. A CANCELLED row is of an order     *)
(* that is over, and has its lots unless the wait for the cancel was given *)
(* up.                                                                     *)
RowHasAll ==
    preroutes = 0 =>
        /\ row["first"] = "filled" => recorded = Qty
        /\ row["first"] = "cancelled"
             => ~ IsOpen("first") /\ (job.res # "timeout" => recorded = Executed)

EndInv ==
    /\ track \in [Orders -> TrackRec] /\ row \in [Orders -> Rows] /\ preroutes \in Nat
    /\ Sized /\ EndsAreIB
    /\ at = "idle" => strat = "none"
    /\ strat # "smart" => Plain /\ RowHasAll

(* Nothing has ended before the command.                                   *)
LEMMA EndStarts == Init => EndInv
<1> SUFFICES ASSUME Init PROVE EndInv
  OBVIOUS
<1>1. /\ AtIBInit /\ at = "idle" /\ strat = "none" /\ job = NoJob /\ recorded = 0
      /\ row = [o \in Orders |-> "none"]
  BY Zenon DEF Init
<1>2. track \in [Orders -> TrackRec] /\ row \in [Orders -> Rows] /\ preroutes \in Nat
  BY <1>1 DEF AtIBInit, Untracked, TrackRec, Rows
<1>3. \A o \in Orders : /\ ib[o] = NoOrder /\ view[o].st = "" /\ track[o].cancelled = FALSE
                        /\ row[o] = "none"
  BY <1>1 DEF AtIBInit, Untracked
<1>4. \A o \in Worked : ib[o] = NoOrder /\ o \in Orders
  BY <1>3, Sizes
<1>5. \A o \in Worked : ib[o].st = "none" /\ ib[o].exec = 0 /\ ib[o].size = 0
  BY <1>4 DEF NoOrder
<1>6. Sized
  BY <1>5 DEF Sized, Worked
<1>7. EndsAreIB
  BY <1>3, <1>4 DEF EndsAreIB, Terminal, Refused
<1>8. job.why = "none" /\ job.on = "first"
  BY <1>1 DEF NoJob
<1>9. Plain /\ RowHasAll
  BY <1>1, <1>3, <1>4, <1>5, <1>8 DEF Plain, RowHasAll, Worked
<1> QED BY <1>1, <1>2, <1>6, <1>7, <1>9 DEF EndInv

(* The orders of a command other than SMART_MARKET have the lots of one.   *)
LEMMA OneHasAll ==
    ASSUME WorkInv, EndInv, strat # "smart"
    PROVE  /\ Executed = ib["first"].exec /\ Executed \in Nat /\ Executed <= Qty
           /\ Executed > 0 => ib["first"].st # "none"
<1>1. /\ ib["first"] \in OrderRec /\ ib["cross"] \in OrderRec /\ Qty \in Nat
      /\ ib["cross"].st = "none" /\ ib["cross"].exec = 0
      /\ ib["first"].st = "none" => ib["first"].exec = 0
      /\ ib["first"].exec <= ib["first"].size
      /\ ib["first"].st # "none" => ib["first"].size = Qty
  BY Sizes DEF WorkInv, Shape, Trails, EndInv, Plain, Sized, Worked
<1> QED BY <1>1 DEF Executed, OrderRec

(* What a coroutine's step that sends nothing has to answer for.           *)
LEMMA EndKeeps ==
    ASSUME WorkInv, EndInv, UNCHANGED <<ib, view, preroutes, strat>>,
           track' = track \/ (\E os \in SUBSET Worked : track' = Unregistered(os)),
           row' \in [Orders -> Rows], at' # "idle",
           strat # "smart" =>
             /\ at' \notin {"walked", "crossing", "crossed"}
             /\ job'.why # "cross" /\ job'.on = "first"
             /\ at' \in Unsettled => recorded' = 0 /\ row'["first"] \notin {"filled", "cancelled"}
             /\ at' = "probing" => job'.res = "timeout"
             /\ preroutes = 0 =>
                  /\ row'["first"] = "filled" => recorded' = Qty
                  /\ row'["first"] = "cancelled"
                       => ~ IsOpen("first") /\ (job'.res # "timeout" => recorded' = Executed)
    PROVE  EndInv'
<1>1. Worked \subseteq Orders
  BY Sizes
<1>2. /\ track' \in [Orders -> TrackRec]
      /\ \A o \in Worked : track'[o].cancelled => track[o].cancelled
  <2>1. ASSUME NEW os \in SUBSET Worked, track' = Unregistered(os)
        PROVE  /\ track' \in [Orders -> TrackRec]
               /\ \A o \in Worked : track'[o].cancelled => track[o].cancelled
    BY <1>1, <2>1 DEF EndInv, Unregistered, Untracked, TrackRec
  <2> QED BY <2>1 DEF EndInv
<1>3. Sized' /\ EndsAreIB'
  BY <1>2 DEF EndInv, Sized, EndsAreIB, Current
<1>4. strat # "smart" => Plain' /\ RowHasAll'
  BY DEF EndInv, Plain, RowHasAll, IsOpen, Executed
<1> QED BY <1>2, <1>3, <1>4 DEF EndInv

(***************************************************************************)
(* IB's steps.                                                             *)
(***************************************************************************)
(* What a step of IB's does to the end of an order.                        *)
OneEnd(o) ==
    /\ preroutes' \in Nat /\ (preroutes' = 0 => preroutes = 0)
    /\ track' \in [Orders -> TrackRec] /\ \A x \in Orders \ {o} : track'[x] = track[x]
    /\ ib'[o].exec <= ib'[o].size
    /\ ib'[o].st = "filled" => ib'[o].exec = ib'[o].size
    /\ ~ IsOpen(o) => ib'[o] = ib[o]
    /\ preroutes' = 0 =>
          /\ view'[o].st \in Terminal => view'[o] = Current(o)'
          /\ track'[o].cancelled => view'[o].st \in Refused

(* An order shows as over only what is over and has come to its end.       *)
LEMMA ShownOver ==
    /\ \A st \in {"none"} \cup Open \cup Over :
          Shown(st) \in Terminal => st \in Over
    /\ \A st \in Open : Shown(st) \notin Terminal
BY DEF Shown, Open, Over, Terminal, Refused

(* An order that is over stays as it is, and shows no more than it was.    *)
LEMMA IBEndsOne ==
    ASSUME WorkInv, EndInv, NEW o \in Worked, IBStep(o)
    PROVE  OneEnd(o)
<1>1. Worked \subseteq Orders
  BY Sizes
<1>2. /\ ib \in [Orders -> OrderRec] /\ view \in [Orders -> StatusRec]
      /\ track \in [Orders -> TrackRec] /\ preroutes \in Nat /\ o \in Orders
      /\ ib[o] \in OrderRec /\ view[o] \in StatusRec /\ track[o] \in TrackRec
      /\ ib[o].exec <= ib[o].size /\ (ib[o].st = "filled" => ib[o].exec = ib[o].size)
  BY <1>1 DEF WorkInv, Shape, EndInv, Sized
<1>3. preroutes = 0 => /\ view[o].st \in Terminal => view[o] = Current(o)
                       /\ track[o].cancelled => view[o].st \in Refused
  BY DEF EndInv, EndsAreIB
<1>4. preroutes = 0 /\ IsOpen(o) => view[o].st \notin Terminal
  BY <1>2, <1>3, ShownOver DEF Current, IsOpen
<1>5. ASSUME NEW st \in Open \cup {"cancelled", "inactive"}, IsOpen(o), Moves(o, st)
      PROVE  OneEnd(o)
  <2>1. ib' = [ib EXCEPT ![o].st = st] /\ UNCHANGED <<view, track, preroutes>>
    BY <1>5, Zenon DEF Moves
  <2>2. ib'[o].exec = ib[o].exec /\ ib'[o].size = ib[o].size /\ ib'[o].st = st
    BY <1>2, <2>1 DEF OrderRec
  <2> QED BY <1>2, <1>3, <1>4, <1>5, <2>1, <2>2 DEF OneEnd, Open, Terminal
<1>6. CASE Held(o) BY <1>5, <1>6 DEF Held, IsOpen, Open
<1>7. CASE Works(o) BY <1>5, <1>7 DEF Works, IsOpen, Open
<1>8. CASE Refuses(o) BY <1>5, <1>8 DEF Refuses, IsOpen, Open
<1>9. CASE Cancels(o) BY <1>5, <1>9 DEF Cancels
<1>10. CASE Executes(o)
  <2> DEFINE st == IF ib[o].exec + 1 = ib[o].size THEN "filled" ELSE "live"
  <2>1. /\ ib[o].st = "live" /\ ib[o].exec < ib[o].size
        /\ UNCHANGED <<view, track, preroutes>>
    BY <1>10, Zenon DEF Executes, CanFill
  <2>2. ib' = [ib EXCEPT ![o].exec = ib[o].exec + 1, ![o].st = st]
    BY <1>10, <2>1 DEF Executes
  <2>3. st = "filled" <=> ib[o].exec + 1 = ib[o].size
    OBVIOUS
  <2> HIDE DEF st
  <2>4. ib'[o].st = st /\ ib'[o].exec = ib[o].exec + 1 /\ ib'[o].size = ib[o].size
    BY <1>2, <2>2 DEF OrderRec
  <2>5. ib[o].exec \in Nat /\ ib[o].size \in Nat /\ IsOpen(o)
    BY <1>2, <2>1 DEF OrderRec, IsOpen, Open
  <2> QED BY <1>2, <1>3, <1>4, <2>1, <2>3, <2>4, <2>5 DEF OneEnd, Terminal
<1>11. CASE Preroutes(o)
  <2>1. /\ ib[o].st = "sent" /\ preroutes' = preroutes + 1 /\ UNCHANGED track
        /\ ib' = [ib EXCEPT ![o].st = "held"]
    BY <1>11, Zenon DEF Preroutes
  <2>2. ib'[o].exec = ib[o].exec /\ ib'[o].size = ib[o].size /\ ib'[o].st = "held"
    BY <1>2, <2>1 DEF OrderRec
  <2>3. preroutes' \in Nat /\ preroutes' # 0
    BY <1>2, <2>1
  <2> QED BY <1>2, <2>1, <2>2, <2>3 DEF OneEnd, IsOpen, Open
<1>12. CASE Reports(o)
  <2>1. view' = [view EXCEPT ![o] = Current(o)] /\ UNCHANGED <<ib, track, preroutes>>
    BY <1>12, Zenon DEF Reports
  <2>2. view'[o] = Current(o) /\ Current(o)' = Current(o)
    BY <1>2, <2>1 DEF Current
  <2>3. preroutes = 0 /\ track[o].cancelled => Current(o).st \in Refused
    <3>1. preroutes = 0 /\ track[o].cancelled => view[o] = Current(o) /\ view[o].st \in Refused
      BY <1>3 DEF Terminal
    <3> QED BY <3>1
  <2> QED BY <1>2, <2>1, <2>2, <2>3 DEF OneEnd
<1>13. CASE HearsEnd(o)
  <2>1. /\ view[o].st \in Refused /\ track' = [track EXCEPT ![o].cancelled = TRUE]
        /\ UNCHANGED <<ib, view, preroutes>>
    BY <1>13, Zenon DEF HearsEnd
  <2>2. track' \in [Orders -> TrackRec] /\ \A x \in Orders \ {o} : track'[x] = track[x]
    BY <1>2, <2>1 DEF TrackRec
  <2>3. Current(o)' = Current(o)
    BY <2>1 DEF Current
  <2> QED BY <1>2, <1>3, <2>1, <2>2, <2>3 DEF OneEnd
<1>14. CASE HearsFill(o)
  <2>1. /\ track' = [track EXCEPT ![o].filled = track[o].filled \/ track[o].on]
        /\ UNCHANGED <<ib, view, preroutes>>
    BY <1>14 DEF HearsFill
  <2>2. /\ track' \in [Orders -> TrackRec] /\ \A x \in Orders \ {o} : track'[x] = track[x]
        /\ track'[o].cancelled = track[o].cancelled
    <3>1. track[o].filled \/ track[o].on \in BOOLEAN
      BY <1>2 DEF TrackRec
    <3> QED BY <1>2, <2>1, <3>1 DEF TrackRec
  <2>3. Current(o)' = Current(o)
    BY <2>1 DEF Current
  <2> QED BY <1>2, <1>3, <2>1, <2>2, <2>3 DEF OneEnd
<1> QED BY <1>6, <1>7, <1>8, <1>9, <1>10, <1>11, <1>12, <1>13, <1>14 DEF IBStep

(* So IB's steps leave what has ended alone.                               *)
LEMMA IBEnds ==
    ASSUME WorkInv, EndInv, NEW o \in Worked, IBStep(o)
    PROVE  EndInv'
<1>1. /\ UNCHANGED <<strat, at, job, recorded, row>> /\ Worked \subseteq Orders
  BY Sizes, Zenon DEF IBStep, workVars, command
<1>2. OneOrder(o) /\ OneEnd(o)
  BY IBReports, IBEndsOne DEF WorkInv
<1>3. Sized'
  BY <1>1, <1>2 DEF EndInv, Sized, OneOrder, OneEnd, Worked
<1>4. EndsAreIB'
  BY <1>1, <1>2 DEF EndInv, EndsAreIB, OneOrder, OneEnd, Current
<1>5. ASSUME strat # "smart" PROVE Plain' /\ RowHasAll'
  <2>1. Plain /\ RowHasAll
    BY <1>5 DEF EndInv
  <2>2. ib'["cross"].st = "none" /\ ib'["cross"] = ib["cross"]
    BY <1>1, <1>2, <2>1 DEF Plain, OneOrder, OneEnd, IsOpen, Open, Worked
  <2>3. ~ IsOpen("first") => ib'["first"] = ib["first"]
    BY <1>1, <1>2 DEF OneOrder, OneEnd, Worked
  <2> QED BY <1>1, <1>2, <2>1, <2>2, <2>3 DEF Plain, RowHasAll, OneEnd, IsOpen, Executed
<1> QED BY <1>1, <1>2, <1>3, <1>4, <1>5 DEF EndInv, OneEnd
(***************************************************************************)
(* The coroutine's steps.                                                  *)
(***************************************************************************)
(* Another row of an order.                                                *)
LEMMA RowsKeep ==
    ASSUME EndInv, NEW o, NEW a \in Rows, row' = row \/ row' = [row EXCEPT ![o] = a]
    PROVE  /\ row' \in [Orders -> Rows]
           /\ row'["first"] = row["first"] \/ (o = "first" /\ row'["first"] = a)
BY Sizes DEF EndInv, Worked

(* The steps that wait leave what has ended alone.                         *)
LEMMA WaitsEnd == ASSUME WorkInv, EndInv, Waits PROVE EndInv'
<1>1. /\ UNCHANGED <<ib, view, preroutes, strat, recorded>>
      /\ job' = job \/ \E s \in {"none", "over", "expired", "cap", "failed"} :
                          job' = [job EXCEPT !.saw = s]
      /\ at' \in Unsettled => at \in Unsettled
      /\ at' \in {"raised", "checking", "settling", "walking", "rejecting", "left", "dropping",
                  "done", "waiting", "walked"}
      /\ at' = "walked" => strat = "smart"
      /\ row' = row \/ row' = [row EXCEPT !["first"] = "rejected"]
      /\ track' = track \/ track' = Unregistered({"first"})
  <2> USE Zenon DEF Reads, ibVars, command, Goes, Unsettled
  <2>1. CASE PlaceRaises BY <2>1 DEF PlaceRaises
  <2>2. CASE Acked BY <2>2 DEF Acked
  <2>3. CASE NotAcked BY <2>3 DEF NotAcked
  <2>4. CASE Reject BY <2>4 DEF Reject
  <2>5. CASE Settled BY <2>5 DEF Settled
  <2>6. CASE NotRouted BY <2>6 DEF NotRouted
  <2>7. CASE Drop BY <2>7 DEF Drop
  <2>8. CASE RepriceLooks BY <2>8 DEF RepriceLooks
  <2>9. CASE RepriceAmends BY <2>9 DEF RepriceAmends
  <2>10. CASE WalkEnds BY <2>10 DEF WalkEnds
  <2>11. CASE SmartWalkEnds BY <2>11 DEF SmartWalkEnds
  <2> QED BY <2>1, <2>2, <2>3, <2>4, <2>5, <2>6, <2>7, <2>8, <2>9, <2>10, <2>11 DEF Waits
<1>2. job'.why = job.why /\ job'.on = job.on /\ job'.res = job.res
  BY <1>1, ReadsAreExecuted DEF JobRec
<1>3. /\ row' \in [Orders -> Rows]
      /\ row'["first"] = row["first"] \/ row'["first"] = "rejected"
  BY <1>1, RowsKeep DEF Rows
<1> QED BY <1>1, <1>2, <1>3, EndKeeps DEF EndInv, Plain, RowHasAll, Worked, Unsettled
(* What is recorded as filled is the whole order.                          *)
LEMMA RecordEnds ==
    ASSUME WorkInv, EndInv, UNCHANGED <<ib, view, preroutes, strat>>,
           track' = track \/ (\E os \in SUBSET Worked : track' = Unregistered(os)),
           NEW q \in Nat, q <= Executed, Record(q),
           strat # "smart" => /\ job'.why # "cross" /\ job'.on = "first"
                              /\ preroutes = 0 => q >= Qty
    PROVE  EndInv'
<1>1. recorded' = q /\ at' = First(legs) /\ row' = [row EXCEPT !["first"] = "filled"]
  BY Zenon DEF Record
<1>2. at' \in {"pt", "trail", "sl", "raised", "done"}
  BY <1>1, LegsLast DEF WorkInv, Shape
<1>3. row' \in [Orders -> Rows] /\ row'["first"] = "filled"
  BY <1>1, Sizes DEF EndInv, Rows, Worked
<1>4. strat # "smart" /\ preroutes = 0 => q = Qty
  BY OneHasAll, Sizes
<1> QED BY <1>1, <1>2, <1>3, <1>4, EndKeeps DEF Unsettled

(* A cancel of the order.                                                  *)
LEMMA ToCancelEnds ==
    ASSUME WorkInv, EndInv, UNCHANGED <<ib, view, preroutes, strat>>,
           track' = track \/ (\E os \in SUBSET Worked : track' = Unregistered(os)),
           NEW o \in Worked, NEW why \in {"zero", "partial", "cross"}, NEW q \in Nat,
           ToCancel(o, why, q),
           strat # "smart" => at \in Unsettled /\ o = "first" /\ why # "cross"
    PROVE  EndInv'
<1>1. /\ at' = "cancelling" /\ recorded' = recorded
      /\ job' = [job EXCEPT !.on = o, !.why = why, !.had = q]
      /\ row' = row \/ row' = [row EXCEPT ![o] = "cancelling"]
  BY Zenon DEF ToCancel
<1>2. job'.on = o /\ job'.why = why
  BY <1>1, ReadsAreExecuted DEF JobRec
<1>3. row' \in [Orders -> Rows] /\ (row'["first"] = row["first"] \/ row'["first"] = "cancelling")
  BY <1>1, RowsKeep DEF Rows
<1> QED BY <1>1, <1>2, <1>3, EndKeeps DEF EndInv, Plain, Unsettled
(* An end that shows is of an order that is over, and shows all its lots.  *)
LEMMA EndIsWhole ==
    ASSUME WorkInv, EndInv, preroutes = 0, NEW o \in Worked,
           view[o].st \in Terminal \/ track[o].cancelled
    PROVE  /\ ~ IsOpen(o) /\ view[o].filled = ib[o].exec
           /\ view[o].st = "Filled" => ib[o].exec = ib[o].size /\ ib[o].st # "none"
<1>1. view[o] = Current(o) /\ view[o].st \in Terminal
  BY DEF EndInv, EndsAreIB, Terminal
<1>2. view[o].filled = ib[o].exec /\ view[o].st = Shown(ib[o].st)
  BY <1>1 DEF Current
<1>3. ib[o].st \in {"none"} \cup Open \cup Over
  BY Sizes DEF WorkInv, Shape, OrderRec
<1>4. ib[o].st \in Over /\ (Shown(ib[o].st) = "Filled" => ib[o].st = "filled")
  BY <1>1, <1>2, <1>3 DEF Shown, Open, Over, Terminal, Refused
<1> QED BY <1>2, <1>4 DEF EndInv, Sized, IsOpen, Open, Over

(* The outcomes of the waits are the order's, or leave it to IB.           *)
LEMMA OutcomesEnd == ASSUME WorkInv, EndInv, Outcomes PROVE EndInv'
<1>1. /\ UNCHANGED <<ib, view, preroutes, strat>>
      /\ \/ track' = track \/ track' = Unregistered({"first"}) \/ track' = Unregistered(Worked)
  <2> USE Zenon DEF Concludes, EndsTracked, command
  <2>1. CASE Check BY <2>1 DEF Check
  <2>2. CASE SettledFilled BY <2>2 DEF SettledFilled
  <2>3. CASE MidOutcome BY <2>3 DEF MidOutcome
  <2>4. CASE BidAskOutcome BY <2>4 DEF BidAskOutcome
  <2>5. CASE MarketOutcome BY <2>5 DEF MarketOutcome
  <2>6. CASE SmartOutcome BY <2>6 DEF SmartOutcome
  <2>7. CASE Crossed BY <2>7 DEF Crossed
  <2> QED BY <2>1, <2>2, <2>3, <2>4, <2>5, <2>6, <2>7 DEF Outcomes
<1>2. track' = track \/ \E os \in SUBSET Worked : track' = Unregistered(os)
  BY <1>1 DEF Worked
<1>3. /\ view["first"].filled \in Nat /\ view["first"].filled <= Executed
      /\ Heard \in Nat /\ Heard <= Executed /\ 0 \in Nat /\ 0 <= Executed
  BY ReadsAreExecuted DEF Worked, Heard
<1>4. /\ at \in {"walked", "crossed"} => strat = "smart"
      /\ at \in {"checking", "settling", "waiting"} => at \in Unsettled
  BY DEF EndInv, Plain, Unsettled
<1>5. \/ \E q \in Nat : /\ q <= Executed /\ Record(q) /\ UNCHANGED job
                        /\ strat # "smart" /\ preroutes = 0 => q >= Qty
      \/ \E q \in Nat : /\ at \in Unsettled
                        /\ ToCancel("first", "partial", q) \/ ToCancel("first", "zero", q)
      \/ strat = "smart" /\ \E q \in Nat :
           ToCancel("cross", "partial", q) \/ ToCancel("first", "partial", q)
             \/ ToCancel("first", "cross", q)
      \/ at' \in {"left", "done", "dropping"} /\ UNCHANGED <<job, recorded, row>>
      \/ /\ Void /\ UNCHANGED job
         /\ strat # "smart" => /\ at \in Unsettled
                               /\ view["first"].filled = 0 /\ view["first"].st = "Inactive"
  <2> USE Zenon
  <2>1. CASE Check BY <1>3, <2>1 DEF Check
  <2>2. CASE SettledFilled
    <3>1. view["first"].st = "Filled" /\ Record(view["first"].filled) /\ UNCHANGED job
      BY <2>2 DEF SettledFilled
    <3>2. strat # "smart" /\ preroutes = 0 => view["first"].filled >= Qty
      <4> SUFFICES ASSUME strat # "smart", preroutes = 0 PROVE view["first"].filled >= Qty
        OBVIOUS
      <4>1. /\ view["first"].filled = ib["first"].exec
            /\ ib["first"].exec = ib["first"].size /\ ib["first"].st # "none"
        BY <3>1, EndIsWhole DEF Terminal, Worked
      <4>2. view["first"].filled = Qty
        BY <4>1 DEF EndInv, Sized
      <4> QED BY <4>2, Sizes, SMT
    <3> QED BY <1>3, <3>1, <3>2
  <2>3. CASE MidOutcome BY <1>3, <1>4, <2>3 DEF MidOutcome
  <2>4. CASE BidAskOutcome BY <1>3, <1>4, <2>4 DEF BidAskOutcome
  <2>5. CASE MarketOutcome BY <1>3, <1>4, <2>5 DEF MarketOutcome
  <2>6. CASE SmartOutcome BY <1>3, <1>4, <2>6 DEF SmartOutcome
  <2>7. CASE Crossed
    <3> DEFINE total == job.got + view["cross"].filled
    <3>1. at = "crossed" => job.got <= ib["first"].exec
      BY DEF WorkInv, Carried
    <3>2. view["cross"].filled \in Nat /\ job.got \in Nat
      BY ReadsAreExecuted DEF JobRec, Worked
    <3>3. total \in Nat
      BY <3>2, SMT
    <3>4. total <= Executed
      BY <2>7, <3>1, ReadsAreExecuted DEF Crossed
    <3> QED BY <1>4, <2>7, <3>3, <3>4 DEF Crossed
  <2> QED BY <2>1, <2>2, <2>3, <2>4, <2>5, <2>6, <2>7 DEF Outcomes
<1>6. strat # "smart" => job.why # "cross" /\ job.on = "first"
  BY DEF EndInv, Plain
<1>7. ASSUME NEW q \in Nat, q <= Executed, Record(q), UNCHANGED job,
             strat # "smart" /\ preroutes = 0 => q >= Qty
      PROVE  EndInv'
  BY <1>1, <1>2, <1>6, <1>7, RecordEnds
<1>8. ASSUME NEW q \in Nat, at \in Unsettled,
             ToCancel("first", "partial", q) \/ ToCancel("first", "zero", q)
      PROVE  EndInv'
  BY <1>1, <1>2, <1>8, ToCancelEnds DEF Worked
<1>9. ASSUME NEW q \in Nat, strat = "smart",
             ToCancel("cross", "partial", q) \/ ToCancel("first", "partial", q)
               \/ ToCancel("first", "cross", q)
      PROVE  EndInv'
  BY <1>1, <1>2, <1>9, ToCancelEnds DEF Worked
<1>10. ASSUME at' \in {"left", "done", "dropping"}, UNCHANGED <<job, recorded, row>>
       PROVE  EndInv'
  BY <1>1, <1>2, <1>10, EndKeeps DEF EndInv, Plain, RowHasAll, Unsettled
<1>11. ASSUME Void, UNCHANGED job,
              strat # "smart" => /\ at \in Unsettled
                                 /\ view["first"].filled = 0 /\ view["first"].st = "Inactive"
       PROVE  EndInv'
  <2>1. /\ at' = "done" /\ recorded' = recorded
        /\ row' = [row EXCEPT !["first"] = "cancelled"]
    BY <1>11, Zenon DEF Void
  <2>2. row' \in [Orders -> Rows] /\ row'["first"] = "cancelled"
    BY <2>1, Sizes DEF EndInv, Rows, Worked
  <2>3. strat # "smart" /\ preroutes = 0 => ~ IsOpen("first") /\ ib["first"].exec = 0
    BY <1>11, EndIsWhole DEF Worked, Terminal, Refused
  <2>4. strat # "smart" => recorded = 0 /\ Executed = ib["first"].exec
    BY <1>11, OneHasAll DEF EndInv, Plain
  <2> QED BY <1>1, <1>2, <1>6, <1>11, <2>1, <2>2, <2>3, <2>4, EndKeeps DEF Unsettled
<1> QED BY <1>5, <1>7, <1>8, <1>9, <1>10, <1>11

(* An order is placed: it is open, has no lots, and shows nothing yet.     *)
LEMMA PlacedEnds ==
    ASSUME WorkInv, EndInv, NEW o \in Orders, NEW size \in Nat,
           ib' = Placed(o, size), UNCHANGED <<view, preroutes, strat, job, recorded>>,
           o \in Worked => ib[o].st = "none", o = "first" => size = Qty,
           strat # "smart" => o # "cross",
           \/ track' = track \/ (\E os \in SUBSET Worked : track' = Unregistered(os))
           \/ track' = Registered(o),
           row' \in [Orders -> Rows], row'["first"] \in {row["first"], "accepted"},
           o = "first" => row'["first"] = "accepted",
           at' \notin {"idle", "probing"}, at' \in Unsettled => at \in Unsettled,
           strat # "smart" => at' \notin {"walked", "crossing", "crossed"}
    PROVE  EndInv'
<1>1. ib \in [Orders -> OrderRec] /\ Worked \subseteq Orders
  BY Sizes DEF WorkInv, Shape
<1> DEFINE r == [st |-> "sent", size |-> size, exec |-> 0]
<1>2. ib' = [ib EXCEPT ![o] = r]
  BY DEF Placed
<1>3. r.exec = 0 /\ r.size = size /\ r.st = "sent"
  OBVIOUS
<1> HIDE DEF r
<1>4. ib'[o] = r /\ \A x \in Orders \ {o} : ib'[x] = ib[x]
  BY <1>1, <1>2
<1>5. Sized'
  BY <1>1, <1>3, <1>4 DEF EndInv, Sized, Worked
<1>6. /\ track' \in [Orders -> TrackRec]
      /\ \A x \in Worked : track'[x].cancelled => track[x].cancelled
  <2>1. ASSUME NEW os \in SUBSET Worked, track' = Unregistered(os)
        PROVE  /\ track' \in [Orders -> TrackRec]
               /\ \A x \in Worked : track'[x].cancelled => track[x].cancelled
    BY <1>1, <2>1 DEF EndInv, Unregistered, Untracked, TrackRec
  <2>2. ASSUME track' = Registered(o)
        PROVE  /\ track' \in [Orders -> TrackRec]
               /\ \A x \in Worked : track'[x].cancelled => track[x].cancelled
    BY <1>1, <2>2 DEF EndInv, Registered, Tracked, Untracked, TrackRec
  <2> QED BY <2>1, <2>2 DEF EndInv
<1>7. preroutes = 0 /\ o \in Worked => view[o].st \notin Terminal /\ ~ track[o].cancelled
  <2>1. o \in Worked => Current(o).st = ""
    BY DEF Current, Shown
  <2> QED BY <2>1 DEF EndInv, EndsAreIB, Terminal, Refused
<1>8. EndsAreIB'
  BY <1>1, <1>4, <1>6, <1>7 DEF EndInv, EndsAreIB, Current
<1>9. ASSUME strat # "smart" PROVE Plain' /\ RowHasAll'
  <2>1. Plain /\ RowHasAll
    BY <1>9 DEF EndInv
  <2>2. ib'["cross"] = ib["cross"]
    BY <1>1, <1>4, <1>9 DEF Worked
  <2>3. o # "first" => ib'["first"] = ib["first"]
    BY <1>1, <1>4 DEF Worked
  <2> QED BY <1>9, <2>1, <2>2, <2>3 DEF Plain, RowHasAll, IsOpen, Executed
<1> QED BY <1>5, <1>6, <1>8, <1>9 DEF EndInv
(* The three kinds of placement.                                           *)
LEMMA SendsEnd == ASSUME WorkInv, EndInv, Sends PROVE EndInv'
<1>1. "first" \in Orders /\ "cross" \in Orders /\ Legs \subseteq Orders /\ Qty \in Nat
  BY Sizes DEF Worked
<1>2. CASE Place
  <2>1. /\ at = "placing" /\ at' \in {"acking", "walking", "waiting"}
        /\ ib' = Placed("first", Qty) /\ track' = Registered("first")
        /\ row' = [row EXCEPT !["first"] = "accepted"]
        /\ UNCHANGED <<view, preroutes, strat, job, recorded>>
    BY <1>2, Zenon DEF Place, PlaceLimit, PlaceMid, PlaceBidAsk, PlaceMarket, PlaceSmart, Places,
       Goes, command
  <2>2. row' \in [Orders -> Rows] /\ row'["first"] = "accepted"
    BY <1>1, <2>1 DEF EndInv, Rows
  <2>3. ib["first"].st = "none"
    BY <2>1 DEF WorkInv, Fresh
  <2> QED BY <1>1, <2>1, <2>2, <2>3, PlacedEnds DEF Unsettled
<1>3. CASE Cross
  <2>1. /\ at = "crossing" /\ at' = "crossed" /\ ib' = Placed("cross", Residual)
        /\ track' = Registered("cross")
        /\ UNCHANGED <<view, preroutes, strat, job, recorded, row>>
    BY <1>3, Zenon DEF Cross, Goes, command
  <2>2. strat = "smart"
    BY <2>1 DEF EndInv, Plain
  <2>3. Residual \in Nat /\ ib["cross"].st = "none"
    BY <1>1, <2>1, ReadsAreExecuted DEF WorkInv, Carried, Residual, Fresh, Uncrossed, JobRec
  <2> QED BY <1>1, <2>1, <2>2, <2>3, PlacedEnds DEF EndInv, Unsettled
<1>4. ASSUME NEW leg \in Legs, PlaceLeg(leg) PROVE EndInv'
  <2>1. /\ at = leg /\ at' = After(leg) /\ ib' = Placed(leg, recorded)
        /\ row' = row \/ row' = [row EXCEPT ![leg] = "accepted"]
        /\ track' = track \/ track' = Unregistered(Worked)
        /\ UNCHANGED <<view, preroutes, strat, job, recorded>>
    BY <1>4, Zenon DEF PlaceLeg, EndsTracked, command
  <2>2. at' \in {"pt", "trail", "sl", "raised", "done"}
    BY <2>1, AfterIsLast DEF WorkInv, Shape
  <2>3. row' \in [Orders -> Rows] /\ row'["first"] = row["first"]
    BY <1>1, <2>1 DEF EndInv, Rows, Legs
  <2>4. leg \in Orders /\ leg \notin Worked /\ leg # "first" /\ leg # "cross" /\ recorded \in Nat
    BY <1>1, ReadsAreExecuted DEF Legs, Worked
  <2> QED BY <1>1, <2>1, <2>2, <2>3, <2>4, PlacedEnds DEF Unsettled
<1> QED BY <1>2, <1>3, <1>4 DEF Sends

(* The command begins under one of the strategies.                         *)
LEMMA BeginEnds == ASSUME WorkInv, EndInv, Begin PROVE EndInv'
<1>1. /\ UNCHANGED <<ib, view, track, preroutes, job, recorded>>
      /\ at = "idle" /\ at' = "placing" /\ row' = [row EXCEPT !["first"] = "attempt"]
  BY Zenon DEF Begin, Goes, Reads, ibVars
<1>2. strat = "none"
  BY <1>1 DEF EndInv
<1>3. row' \in [Orders -> Rows] /\ row'["first"] = "attempt"
  BY <1>1, Sizes DEF EndInv, Rows, Worked
<1>4. Sized' /\ EndsAreIB'
  BY <1>1 DEF EndInv, Sized, EndsAreIB, Current
<1>5. Plain' /\ RowHasAll'
  BY <1>1, <1>2, <1>3 DEF EndInv, Plain, RowHasAll, Unsettled
<1> QED BY <1>1, <1>3, <1>4, <1>5 DEF EndInv

(* What is left alone: a market order that is not taken, and a cancel sent.*)
LEMMA CrossRaisesEnds == ASSUME WorkInv, EndInv, CrossRaises PROVE EndInv'
<1>1. /\ UNCHANGED <<ib, view, preroutes, strat>> /\ at = "crossing"
      /\ track' = track \/ track' = Unregistered(Worked)
      /\ row' = row \/ row' = [row EXCEPT !["first"] = "cancelling"]
      /\ at' \in {"cancelling", "raised"}
  BY Zenon DEF CrossRaises, command
<1>2. strat = "smart"
  BY <1>1 DEF EndInv, Plain
<1>3. row' \in [Orders -> Rows]
  BY <1>1, RowsKeep DEF Rows
<1> QED BY <1>1, <1>2, <1>3, EndKeeps

(* Sending the cancel decides nothing.                                     *)
LEMMA CancellingEnds == ASSUME WorkInv, EndInv, Cancelling PROVE EndInv'
<1>1. /\ UNCHANGED <<ib, view, track, preroutes, strat, job, recorded, row>>
      /\ at = "cancelling" /\ at' = "resolving"
  BY Zenon DEF Cancelling, Goes, command
<1> QED BY <1>1, EndKeeps DEF EndInv, Plain, RowHasAll, Unsettled

(* The resolution of a cancel: filled with the whole order, cancelled with *)
(* all that an order which is over has, or given up.                       *)
LEMMA ResolveEnds == ASSUME WorkInv, EndInv, Resolve PROVE EndInv'
<1>1. PICK res \in {"filled", "cancelled", "timeout"} :
         Resolved(res) /\ (res = "timeout" \/ res = Resolution)
  BY Zenon DEF Resolve, Resolution
<1>2. /\ at = "resolving" /\ UNCHANGED <<ib, view, preroutes, strat, legs>>
      /\ track' = track \/ track' = Unregistered(Worked)
  BY <1>1, Zenon DEF Resolve, Resolved, Concludes, EndsTracked, command
<1> DEFINE v == view[job.on].filled
<1>3. /\ job.on \in Worked /\ job.had \in Nat /\ job.had <= Executed /\ job \in JobRec
      /\ v \in Nat /\ v <= Executed /\ Executed \in Nat /\ Qty \in Nat
  BY <1>2, ReadsAreExecuted, Sizes DEF WorkInv, Carried, JobRec
<1>4. job'.why = job.why /\ job'.on = job.on /\ job'.res = res
  <2>1. job' = [job EXCEPT !.res = res, !.got = v,
                           !.cut = IF job.why = "cross" THEN res ELSE job.cut]
    BY <1>1 DEF Resolved
  <2> HIDE DEF v
  <2> QED BY <1>3, <2>1 DEF JobRec
<1>5. Final \in Nat /\ Final <= Executed /\ Final >= v /\ Final >= job.had
  BY <1>3 DEF Final
<1>6. CASE strat = "smart"
  <2>1. \/ Record(v) \/ Record(Final)
        \/ /\ \E a \in Rows : row' = row \/ row' = [row EXCEPT ![job.on] = a]
           /\ at' \in {"crossing", "probing"} \/ at' = AfterPartial
    <3>1. CASE job.why = "cross"
      BY <1>1, <3>1, Zenon DEF Resolved, Crosses, Rows
    <3>2. CASE job.why # "cross"
      <4> DEFINE b == IF Final > 0 THEN "partial" ELSE row[job.on]
      <4>1. row[job.on] \in Rows
        BY <1>3, Sizes DEF EndInv
      <4>2. b \in Rows /\ "cancelled" \in Rows
        BY <4>1, Zenon DEF Rows
      <4>3. \/ Record(Final)
            \/ row' = [row EXCEPT ![job.on] = "cancelled"] /\ at' = AfterPartial
            \/ row' = [row EXCEPT ![job.on] = b] /\ at' = "probing"
        BY <1>1, <3>2, Zenon DEF Resolved, Settles, Finalised
      <4> HIDE DEF b
      <4> QED BY <4>2, <4>3
    <3> QED BY <3>1, <3>2
  <2>2. AfterPartial \in {"pt", "trail", "sl", "raised", "done"}
    BY PartialIsLast DEF WorkInv, Shape
  <2>3. ASSUME NEW q \in Nat, q <= Executed, Record(q) PROVE EndInv'
    BY <1>2, <1>6, <2>3, RecordEnds
  <2>4. ASSUME NEW a \in Rows, row' = row \/ row' = [row EXCEPT ![job.on] = a],
               at' \in {"crossing", "probing"} \/ at' = AfterPartial
        PROVE  EndInv'
    <3>1. row' \in [Orders -> Rows]
      BY <2>4, RowsKeep
    <3> QED BY <1>2, <1>6, <2>2, <2>4, <3>1, EndKeeps
  <2> QED BY <1>3, <1>5, <2>1, <2>3, <2>4
<1>7. CASE strat # "smart"
  <2>1. job.on = "first" /\ job.why # "cross" /\ Plain /\ RowHasAll
    BY <1>7 DEF EndInv, Plain
  <2>2. Settles(res)
    BY <1>1, <2>1 DEF Resolved
  <2>3. CASE res = "filled"
    <3>1. Record(Final) /\ v >= Qty
      BY <1>1, <2>2, <2>3 DEF Settles, Resolution, SeenFilled
    <3>2. Final >= Qty
      BY <1>3, <1>5, <3>1
    <3> QED BY <1>2, <1>4, <1>5, <2>1, <3>1, <3>2, RecordEnds
  <2>4. CASE res = "cancelled"
    <3>1. /\ recorded' = Final /\ row' = [row EXCEPT !["first"] = "cancelled"]
          /\ at' = AfterPartial
      BY <2>1, <2>2, <2>4 DEF Settles, Finalised
    <3>2. view["first"].st \in Refused \/ track["first"].cancelled
      BY <1>1, <2>1, <2>4 DEF Resolution, SeenOver
    <3>3. preroutes = 0 => ~ IsOpen("first") /\ v = ib["first"].exec
      BY <2>1, <3>2, EndIsWhole DEF Worked, Terminal
    <3>4. preroutes = 0 => Final = Executed
      BY <1>3, <1>5, <1>7, <3>3, OneHasAll
    <3>5. at' \in {"pt", "trail", "sl", "raised", "done"}
      BY <3>1, PartialIsLast DEF WorkInv, Shape
    <3>6. row' \in [Orders -> Rows] /\ row'["first"] = "cancelled"
      BY <3>1, Sizes DEF EndInv, Rows, Worked
    <3> QED BY <1>2, <1>4, <2>1, <3>1, <3>3, <3>4, <3>5, <3>6, EndKeeps DEF Unsettled
  <2>5. CASE res = "timeout"
    <3>1. /\ at' = "probing"
          /\ row' = [row EXCEPT !["first"] = IF Final > 0 THEN "partial" ELSE row["first"]]
      BY <2>1, <2>2, <2>5 DEF Settles
    <3>2. /\ row' \in [Orders -> Rows]
          /\ row'["first"] = "partial" \/ row'["first"] = row["first"]
      BY <3>1, Sizes DEF EndInv, Rows, Worked
    <3>3. row["first"] \notin {"filled", "cancelled"}
      BY <1>2, <2>1 DEF Plain, Unsettled
    <3> QED BY <1>2, <1>4, <2>1, <2>5, <3>1, <3>2, <3>3, EndKeeps DEF Unsettled
  <2> QED BY <2>3, <2>4, <2>5
<1> QED BY <1>6, <1>7
(* The probe writes CANCELLED for an order that is over.                   *)
LEMMA ProbeEnds == ASSUME WorkInv, EndInv, Probe PROVE EndInv'
<1>1. /\ UNCHANGED <<ib, view, preroutes, strat, job, recorded>> /\ at' = AfterPartial
      /\ at = "probing"
      /\ track' = track \/ track' = Unregistered(Worked)
      /\ row' = row \/ (~ IsOpen(job.on) /\ row' = [row EXCEPT ![job.on] = "cancelled"])
  BY Zenon DEF Probe, Finalised, Concludes, EndsTracked, command
<1>2. at' \in {"pt", "trail", "sl", "raised", "done"}
  BY <1>1, PartialIsLast DEF WorkInv, Shape
<1>3. /\ row' \in [Orders -> Rows]
      /\ row'["first"] = row["first"] \/ (job.on = "first" /\ row'["first"] = "cancelled")
  BY <1>1, RowsKeep DEF Rows
<1>4. row'["first"] # row["first"] => ~ IsOpen("first")
  BY <1>1, <1>3
<1> QED BY <1>1, <1>2, <1>3, <1>4, EndKeeps DEF EndInv, Plain, RowHasAll, Unsettled

(* A leg that is not placed has a row of its own.                          *)
LEMMA LegFailsEnds == ASSUME WorkInv, EndInv, NEW leg \in Legs, LegFails(leg) PROVE EndInv'
<1>1. /\ UNCHANGED <<ib, view, preroutes, strat, job, recorded>>
      /\ at' \in {"raised", After(leg)}
      /\ track' = track \/ track' = Unregistered(Worked)
      /\ row' = row \/ row' = [row EXCEPT ![leg] = "attempt"]
  BY Zenon DEF LegFails, EndsTracked, command
<1>2. at' \in {"pt", "trail", "sl", "raised", "done"}
  BY <1>1, AfterIsLast DEF WorkInv, Shape
<1>3. row' \in [Orders -> Rows] /\ row'["first"] = row["first"]
  BY <1>1, RowsKeep DEF Rows, Legs
<1> QED BY <1>1, <1>2, <1>3, EndKeeps DEF EndInv, Plain, RowHasAll, Unsettled

(* Every step keeps what has ended.                                        *)
LEMMA StepsEnd == WorkInv /\ EndInv /\ [Next]_vars => EndInv'
<1> SUFFICES ASSUME WorkInv, EndInv, [Next]_vars PROVE EndInv'
  OBVIOUS
<1>1. CASE EngineStep
  <2> SUFFICES ASSUME NEW leg \in Legs,
                      \/ Begin \/ Waits \/ Outcomes \/ Sends \/ CrossRaises \/ Cancelling
                      \/ Resolve \/ Probe \/ LegFails(leg)
               PROVE  EndInv'
    BY <1>1, Zenon DEF EngineStep, Waits, Outcomes, Sends, Legs
  <2> QED BY BeginEnds, WaitsEnd, OutcomesEnd, SendsEnd, CrossRaisesEnds, CancellingEnds,
          ResolveEnds, ProbeEnds, LegFailsEnds
<1>2. ASSUME NEW o \in Worked, IBStep(o) PROVE EndInv'
  BY <1>2, IBEnds
<1>3. CASE UNCHANGED vars
  <2>1. UNCHANGED <<ib, view, track, preroutes, strat, at, job, recorded, row>>
    BY <1>3, Zenon DEF vars, ibVars, workVars, command
  <2> QED BY <2>1 DEF EndInv, Sized, EndsAreIB, Current, Plain, RowHasAll, IsOpen, Executed
<1> QED BY <1>1, <1>2, <1>3 DEF Next

(* It holds of every behaviour.                                            *)
LEMMA EndInvariant == Spec => [](WorkInv /\ EndInv)
BY WorkStarts, EndStarts, StepsKeep, StepsEnd, PTL DEF Spec

(***************************************************************************)
(* The theorems.                                                           *)
(***************************************************************************)
(* A fill row never records more than IB has executed, for every quantity, *)
(* strategy and outcome of the cancel: the quantity is always read from an *)
(* order that IB has executed at least as much of, and what the coroutine  *)
(* keeps over an await, and adds to it, is of executed lots too.           *)
(* engine/order.py:1448-1461, 2045-2070, 2889-2899                         *)
THEOREM RecordsAreExecuted == Spec => []RecordedIsExecuted
<1>1. WorkInv => RecordedIsExecuted
  BY DEF WorkInv, Carried, RecordedIsExecuted
<1> QED BY <1>1, WorkInvariant, PTL

(* No exit leg is placed for more than IB has executed of the entry, nor   *)
(* ever comes to be. engine/order.py:2456-2508, 2976-2993                  *)
THEOREM LegsHaveLots == Spec => []LegsAreCovered
<1>1. WorkInv => LegsAreCovered
  BY DEF WorkInv
<1> QED BY <1>1, WorkInvariant, PTL

(* A CANCELLED row is of an order that no longer works at IB: it is        *)
(* written after an end that IB has confirmed, or a probe that found no    *)
(* open order, and an order that is over stays so.                         *)
(* engine/order.py:2714-2856                                               *)
THEOREM CancelledAreOver == Spec => []CancelledIsOver
<1>1. EndInv => CancelledIsOver
  <2> SUFFICES ASSUME EndInv, strat # "smart", preroutes = 0 PROVE
                 \A o \in Worked : row[o] = "cancelled" => ~ IsOpen(o)
    BY DEF CancelledIsOver
  <2> QED BY DEF EndInv, Plain, RowHasAll, IsOpen, Open, Worked
<1> QED BY <1>1, EndInvariant, PTL

(* The last fill row has every lot that IB executed, unless a cancel was   *)
(* given up on: a FILLED row has the lots asked for, and IB executes no    *)
(* more; a CANCELLED one was written with what an order that is over shows.*)
(* engine/order.py:2667-2711, 2889-2931                                    *)
THEOREM FinalsAreExact == Spec => []FinalIsExact
<1>1. WorkInv /\ EndInv => FinalIsExact
  <2> SUFFICES ASSUME WorkInv, EndInv, strat # "smart", preroutes = 0, job.res # "timeout",
                      row["first"] \in {"filled", "cancelled"}
               PROVE  recorded = Executed
    BY DEF FinalIsExact
  <2>1. recorded <= Executed /\ Executed <= Qty /\ Executed \in Nat
    BY OneHasAll DEF WorkInv, Carried
  <2>2. recorded = Qty \/ recorded = Executed
    BY DEF EndInv, RowHasAll
  <2> QED BY <2>1, <2>2, Sizes
<1> QED BY <1>1, EndInvariant, PTL
=============================================================================
