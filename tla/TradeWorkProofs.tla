--------------------------- MODULE TradeWorkProofs ---------------------------
(***************************************************************************)
(* For every number of lots, every set of closes and strategies, and any   *)
(* number of commands at once: a trade that is marked closed is flat at    *)
(* IB, the exit legs are taken back only by a close that has executed, and *)
(* the row of a close is the whole of its order.                           *)
(***************************************************************************)
EXTENDS TradeWorkSafety, SequenceTheorems, TLAPS

OrderRec == [st : {"none"} \cup Open \cup Over, size : Nat, exec : Nat]
StatusRec == [st : {"PreSubmitted", "Submitted"} \cup Pending \cup Terminal, filled : Nat]
JobRec == [strat : {"none"} \cup Strategies, qty : Int, todo : SUBSET Orders, leg : Orders,
           why : {"none", "partial", "cross"}, had : Nat, got : Nat, lost : BOOLEAN]
Stages == {"idle", "legs", "leg", "placing", "acking", "checking", "walking", "waiting", "asking",
           "settling", "cancelling", "resolving", "crossing", "crossed"} \cup Ended

(* What the steps below need of the types.                                 *)
Shape ==
    /\ ib \in [Orders -> OrderRec]
    /\ view \in [Orders -> StatusRec]
    /\ told \in [Orders -> Nat]
    /\ wire \in [Legs -> Seq(Nat)]
    /\ rec \in [Orders -> Nat]
    /\ job \in [Commands -> JobRec]
    /\ at \in [Commands -> Stages]
    /\ asked \subseteq Orders

(* What the engine is told never runs ahead of IB, and an end that it is   *)
(* told of is IB's. An order executes its size at most, and nothing before *)
(* it works.                                                               *)
Trails ==
    \A o \in Orders : /\ view[o].filled <= ib[o].exec
                      /\ told[o] <= ib[o].exec
                      /\ view[o].st \in Terminal => view[o] = Current(o)
                      /\ ib[o].exec <= ib[o].size
                      /\ ib[o].st = "none" => ib[o].exec = 0
                      /\ o \notin Legs /\ ib[o].st \in {"sent", "held"} => ib[o].exec = 0

(* An execution of a leg that travels is of lots it has executed.          *)
Wired == \A leg \in Legs : \A i \in 1 .. Len(wire[leg]) : wire[leg][i] <= ib[leg].exec

(* Until an order is placed IB has not heard of it.                        *)
Unsent == {"idle", "legs", "leg", "placing"}
Uncrossed(c) ==
    \/ at[c] \in Unsent \cup {"acking", "walking", "crossing"}
    \/ at[c] \in {"cancelling", "resolving"} /\ job[c].why = "cross"

Fresh ==
    /\ \A c \in Closes : /\ at[c] \in Unsent => ib[c].st = "none"
                         /\ Uncrossed(c) => ib[Cross(c)].st = "none"
    /\ at[Symbol] \in {"idle", "placing"} => ib[Symbol].st = "none"

(* The lots of the rows, and those that a close carries over its awaits,   *)
(* are executed.                                                           *)
Carried ==
    /\ \A leg \in Legs : rec[leg] <= ib[leg].exec
    /\ \A c \in Closes : /\ rec[c] <= Executed(c)
                         /\ job[c].had <= Executed(c)
                         /\ job[c].got <= ib[c].exec

(* A close is for some lots, and crosses with those that are left.         *)
Sizes ==
    \A c \in Closes : /\ job[c].qty >= 0
                      /\ at[c] = "crossing" => job[c].got <= job[c].qty

TradeInv == Shape /\ Trails /\ Wired /\ Fresh /\ Carried /\ Sizes /\ ClosedIsFlat

(* The orders have names of their own.                                     *)
LEMMA Names ==
    /\ Legs \subseteq Orders /\ Closes \subseteq Orders /\ Closes \subseteq Commands
    /\ Symbol \in Commands /\ Symbol \in Orders /\ Symbol \notin Closes /\ Symbol \notin Legs
    /\ Closes \cap Legs = {} /\ Closes \subseteq {"c1", "c2"}
    /\ \A c \in Closes : /\ Cross(c) \in Orders /\ Cross(c) \notin Closes \cup Legs \cup {Symbol}
                         /\ \A d \in Closes : Cross(c) = Cross(d) => c = d
    /\ Entry \in Nat /\ Entry > 0
<1>1. /\ Closes \subseteq {"c1", "c2"} /\ Entry \in 1 .. MaxSize /\ MaxSize \in Nat
      /\ Orders = Legs \cup Closes \cup {Cross(c) : c \in Closes} \cup {Symbol}
  BY TradeWorkAssumption, OrderAtIBAssumption
<1>2. Cross("c1") = "x1" /\ Cross("c2") = "x2"
  BY DEF Cross
<1>3. \A c \in Closes : (c = "c1" /\ Cross(c) = "x1") \/ (c = "c2" /\ Cross(c) = "x2")
  BY <1>1, <1>2
<1> QED BY <1>1, <1>3 DEF Legs, Symbol, Commands

(* A number of lots grows with the lots of its orders.                     *)
LEMMA LotsGrow ==
    ASSUME NEW q, NEW r, NEW os, os \subseteq Exits,
           \A o \in Exits : q[o] \in Nat /\ r[o] \in Nat /\ q[o] <= r[o]
    PROVE  /\ Lots(q, os) \in Nat
           /\ Lots(q, os) <= Lots(r, Exits)
<1> DEFINE Q(o) == IF o \in os THEN q[o] ELSE 0
<1> DEFINE R(o) == IF o \in Exits THEN r[o] ELSE 0
<1>1. \A o : Q(o) \in Nat /\ R(o) \in Nat /\ Q(o) <= R(o)
  OBVIOUS
<1>2. Lots(q, os) = Q("pt") + Q("sl") + Q("c1") + Q("c2")
  BY DEF Lots
<1>3. Lots(r, Exits) = R("pt") + R("sl") + R("c1") + R("c2")
  BY DEF Lots
<1> HIDE DEF Q, R
<1> QED BY <1>1, <1>2, <1>3

(* The lots that exits have executed.                                      *)
LEMMA ExitsAreCounted ==
    ASSUME ib \in [Orders -> OrderRec]
    PROVE  \A o \in Exits : Executed(o) \in Nat
<1> SUFFICES ASSUME NEW o \in Exits PROVE Executed(o) \in Nat
  OBVIOUS
<1>1. o \in Orders /\ (o \in Closes => Cross(o) \in Orders)
  BY Names DEF Exits
<1>2. ib[o].exec \in Nat /\ (o \in Closes => ib[Cross(o)].exec \in Nat)
  BY <1>1 DEF OrderRec
<1> QED BY <1>2 DEF Executed

(* Before the commands nothing is recorded, and nothing has executed.      *)
LEMMA TradeStarts == Init => TradeInv
<1> SUFFICES ASSUME Init PROVE TradeInv
  OBVIOUS
<1>1. PICK rest \in SUBSET Legs :
         ib = [o \in Orders |-> IF o \in rest THEN Resting ELSE NoOrder]
  BY DEF Init
<1>2. /\ Resting \in OrderRec /\ NoOrder \in OrderRec /\ NoOrder.st = "none"
      /\ Resting.exec = 0 /\ NoOrder.exec = 0 /\ Resting.size = Entry /\ NoOrder.size = 0
      /\ Resting.st = "live"
  BY Names DEF Resting, NoOrder, OrderRec, Open, Over
<1>3. /\ ib \in [Orders -> OrderRec]
      /\ \A o \in Orders : /\ ib[o].exec = 0 /\ ib[o].exec <= ib[o].size
                           /\ o \notin Legs => ib[o].st = "none"
  BY <1>1, <1>2, Names
<1>4. /\ view = [o \in Orders |-> [st |-> "", filled |-> 0]] /\ told = [o \in Orders |-> 0]
      /\ wire = [leg \in Legs |-> <<>>] /\ rec = [o \in Orders |-> 0]
      /\ job = [c \in Commands |-> NoJob] /\ at = [c \in Commands |-> "idle"] /\ asked = {}
      /\ trade = "open"
  BY Zenon DEF Init
<1>5. NoJob \in JobRec /\ NoJob.had = 0 /\ NoJob.got = 0
  BY Names DEF NoJob, JobRec, Legs
<1>6. Shape
  <2>1. [st |-> "", filled |-> 0] \in StatusRec
    BY DEF StatusRec, Pending
  <2>2. <<>> \in Seq(Nat)
    OBVIOUS
  <2>3. "idle" \in Stages
    BY DEF Stages
  <2> QED BY <1>3, <1>4, <1>5, <2>1, <2>2, <2>3 DEF Shape
<1>7. Trails
  <2>1. \A o \in Orders : view[o].filled = 0 /\ view[o].st = "" /\ told[o] = 0
    BY <1>4
  <2>2. "" \notin Terminal
    BY DEF Terminal, Refused
  <2>3. \A o \in Orders : /\ view[o].filled <= ib[o].exec /\ told[o] <= ib[o].exec
                          /\ ib[o].exec <= ib[o].size
    <3>1. 0 <= 0
      OBVIOUS
    <3> QED BY <1>3, <2>1, <3>1, Zenon
  <2>4. \A o \in Orders : view[o].st \in Terminal => view[o] = Current(o)
    BY <2>1, <2>2
  <2> QED BY <1>3, <2>3, <2>4 DEF Trails
<1>8. Wired
  <2>1. \A leg \in Legs : wire[leg] = <<>>
    BY <1>4
  <2>2. Len(<<>>) = 0
    OBVIOUS
  <2> QED BY <2>1, <2>2 DEF Wired
<1>9. Fresh
  BY <1>3, Names DEF Fresh
<1>10. Carried
  <2>1. /\ \A o \in Orders : rec[o] = 0
        /\ \A c \in Closes : job[c].had = 0 /\ job[c].got = 0
    BY <1>4, <1>5, Names
  <2>2. \A c \in Closes : Executed(c) \in Nat
    BY <1>3, ExitsAreCounted DEF Exits
  <2> QED BY <1>3, <2>1, <2>2, Names DEF Carried
<1>11. NoJob.qty = 0 /\ 0 >= 0
  BY DEF NoJob
<1>12. Sizes
  BY <1>4, <1>11, Names, Zenon DEF Sizes
<1> QED BY <1>4, <1>6, <1>7, <1>8, <1>9, <1>10, <1>12 DEF TradeInv, ClosedIsFlat
(***************************************************************************)
(* IB's steps: of one order, whose executed lots only grow.                *)
(***************************************************************************)
Statements == <<at, job, rec, trade>>

(* What a step of IB's may do: to one order, and never un-execute.         *)
OneOrder(o) ==
    /\ ib' \in [Orders -> OrderRec] /\ view' \in [Orders -> StatusRec] /\ told' \in [Orders -> Nat]
    /\ \A x \in Orders \ {o} : ib'[x] = ib[x] /\ view'[x] = view[x] /\ told'[x] = told[x]
    /\ ib'[o].exec >= ib[o].exec /\ ib'[o].size = ib[o].size
    /\ ib[o].st = "none" <=> ib'[o].st = "none"
    /\ view'[o].filled <= ib'[o].exec /\ told'[o] <= ib'[o].exec
    /\ view'[o].st \in Terminal => view'[o] = Current(o)'
    /\ ib'[o].exec <= ib'[o].size
    /\ ib'[o].st = "none" => ib'[o].exec = 0
    /\ o \notin Legs /\ ib'[o].st \in {"sent", "held"} => ib'[o].exec = 0

(* An order that is over, or has not begun to work, never shows as open.   *)
LEMMA OpenShows == \A st \in Open : Shown(st) \notin Terminal
BY DEF Shown, Open, Terminal, Refused

(* What is known of one order before a step.                               *)
LEMMA OneBefore ==
    ASSUME TradeInv, NEW o \in Orders
    PROVE  /\ ib \in [Orders -> OrderRec] /\ view \in [Orders -> StatusRec]
           /\ told \in [Orders -> Nat]
           /\ ib[o] \in OrderRec /\ view[o] \in StatusRec
           /\ ib[o].exec \in Nat /\ ib[o].size \in Nat /\ view[o].filled \in Nat /\ told[o] \in Nat
           /\ view[o].filled <= ib[o].exec /\ told[o] <= ib[o].exec /\ ib[o].exec <= ib[o].size
           /\ view[o].st \in Terminal => view[o] = Current(o)
           /\ IsOpen(o) => view[o].st \notin Terminal
           /\ ib[o].st = "none" => ib[o].exec = 0
           /\ o \notin Legs /\ ib[o].st \in {"sent", "held"} => ib[o].exec = 0
<1>1. /\ ib \in [Orders -> OrderRec] /\ view \in [Orders -> StatusRec]
      /\ told \in [Orders -> Nat]
  BY DEF TradeInv, Shape
<1>2. /\ ib[o] \in OrderRec /\ view[o] \in StatusRec
      /\ ib[o].exec \in Nat /\ ib[o].size \in Nat /\ view[o].filled \in Nat /\ told[o] \in Nat
  BY <1>1 DEF OrderRec, StatusRec
<1>3. IsOpen(o) => Current(o).st \notin Terminal
  BY OpenShows DEF Current, IsOpen
<1> QED BY <1>1, <1>2, <1>3 DEF TradeInv, Trails

(* An order moves on, and executes nothing by it.                          *)
LEMMA MovesOne ==
    ASSUME TradeInv, NEW o \in Orders, IsOpen(o), NEW st \in Open \cup Over,
           ib' = [ib EXCEPT ![o].st = st], UNCHANGED <<view, told>>,
           o \notin Legs /\ st \in {"sent", "held"} => ib[o].exec = 0
    PROVE  OneOrder(o)
<1>1. /\ ib' \in [Orders -> OrderRec] /\ \A x \in Orders \ {o} : ib'[x] = ib[x]
      /\ ib'[o].exec = ib[o].exec /\ ib'[o].size = ib[o].size /\ ib'[o].st = st
      /\ st # "none" /\ ib[o].st # "none"
  BY OneBefore DEF OrderRec, IsOpen, Open, Over
<1> QED BY <1>1, OneBefore DEF OneOrder

(* An order executes k of its lots.                                        *)
LEMMA ExecutesOne ==
    ASSUME TradeInv, NEW o \in Orders, CanFill(o), NEW k \in 1 .. ib[o].size - ib[o].exec,
           ib' = [ib EXCEPT ![o].exec = @ + k,
                            ![o].st = IF ib[o].exec + k = ib[o].size THEN "filled" ELSE @],
           UNCHANGED <<view, told>>
    PROVE  OneOrder(o)
<1> DEFINE st == IF ib[o].exec + k = ib[o].size THEN "filled" ELSE "live"
<1>1. ib[o].st = "live" /\ IsOpen(o) /\ ib[o].exec < ib[o].size
  BY DEF CanFill, IsOpen, Open
<1>2. ib' = [ib EXCEPT ![o].exec = ib[o].exec + k, ![o].st = st]
  BY <1>1
<1>3. st \in {"live", "filled"}
  OBVIOUS
<1> HIDE DEF st
<1>4. k \in Nat /\ k > 0 /\ ib[o].exec + k <= ib[o].size
  BY <1>1, OneBefore
<1>5. /\ ib'[o].st = st /\ ib'[o].exec = ib[o].exec + k /\ ib'[o].size = ib[o].size
      /\ \A x \in Orders \ {o} : ib'[x] = ib[x]
  BY <1>2, OneBefore DEF OrderRec
<1>6. ib' \in [Orders -> OrderRec]
  <2> DEFINE more == [ib EXCEPT ![o].exec = ib[o].exec + k]
  <2>1. more \in [Orders -> OrderRec]
    BY <1>4, OneBefore DEF OrderRec
  <2>2. ib' = [more EXCEPT ![o].st = st]
    BY <1>2
  <2> HIDE DEF more
  <2>3. [more[o] EXCEPT !.st = st] \in OrderRec
    <3>1. st \in Open \cup Over
      BY <1>3 DEF Open, Over
    <3>2. more[o] \in OrderRec
      BY <2>1
    <3> QED BY <3>1, <3>2 DEF OrderRec
  <2>4. ib' = [more EXCEPT ![o] = [more[o] EXCEPT !.st = st]]
    BY <2>2
  <2> QED BY <2>1, <2>3, <2>4
<1> QED BY <1>1, <1>3, <1>4, <1>5, <1>6, OneBefore DEF OneOrder

(* What the engine hears of an order is what IB has.                       *)
LEMMA HearsOne ==
    ASSUME TradeInv, NEW o \in Orders, Reports(o) \/ HearsFill(o)
    PROVE  OneOrder(o)
<1>1. CASE Reports(o)
  <2>1. view' = [view EXCEPT ![o] = Current(o)] /\ UNCHANGED <<ib, told>>
    BY <1>1, Zenon DEF Reports
  <2>2. Current(o) \in StatusRec /\ Current(o).filled = ib[o].exec
    BY OneBefore DEF Current, Shown, StatusRec, Pending, Terminal, Refused, OrderRec, Open, Over
  <2>3. Current(o)' = Current(o)
    BY <2>1 DEF Current
  <2> QED BY <2>1, <2>2, <2>3, OneBefore DEF OneOrder
<1>2. CASE HearsFill(o)
  <2>1. /\ told[o] < ib[o].exec /\ told' = [told EXCEPT ![o] = @ + 1]
        /\ UNCHANGED <<ib, view>>
    BY <1>2, Zenon DEF HearsFill
  <2>2. Current(o)' = Current(o)
    BY <2>1 DEF Current
  <2> QED BY <2>1, <2>2, OneBefore DEF OneOrder
<1> QED BY <1>1, <1>2

(* So a step of IB's keeps the invariant, whatever it sends of a leg.      *)
LEMMA OneKeeps ==
    ASSUME TradeInv, NEW o \in Orders, OneOrder(o), asked' = asked, UNCHANGED Statements,
           wire' \in [Legs -> Seq(Nat)], Wired'
    PROVE  TradeInv'
<1>1. \A x \in Orders : /\ ib[x] \in OrderRec /\ ib'[x] \in OrderRec
                        /\ ib[x].exec \in Nat /\ ib'[x].exec \in Nat
  BY DEF TradeInv, Shape, OneOrder, OrderRec
<1>2. \A x \in Orders : /\ ib'[x].exec >= ib[x].exec
                        /\ ib[x].st = "none" <=> ib'[x].st = "none"
  BY <1>1 DEF OneOrder
<1>3. \A x \in Exits : Executed(x) \in Nat /\ Executed(x)' \in Nat /\ Executed(x)' >= Executed(x)
  <2> SUFFICES ASSUME NEW x \in Exits
               PROVE  Executed(x) \in Nat /\ Executed(x)' \in Nat /\ Executed(x)' >= Executed(x)
    OBVIOUS
  <2>1. x \in Orders /\ (x \in Closes => Cross(x) \in Orders)
    BY Names DEF Exits
  <2> QED BY <1>1, <1>2, <2>1 DEF Executed
<1>4. Shape'
  BY DEF TradeInv, Shape, OneOrder, Statements
<1>5. Trails'
  BY DEF TradeInv, Trails, OneOrder, Current
<1>6. Fresh'
  BY <1>2, Names DEF TradeInv, Fresh, Uncrossed, Statements
<1>7. Carried'
  <2>1. /\ \A x \in Orders : rec[x] \in Nat
        /\ \A c \in Closes : job[c].had \in Nat /\ job[c].got \in Nat
    BY Names DEF TradeInv, Shape, JobRec
  <2>2. rec' = rec /\ job' = job
    BY DEF Statements
  <2>3. \A leg \in Legs : rec[leg] <= ib'[leg].exec
    <3> SUFFICES ASSUME NEW leg \in Legs PROVE rec[leg] <= ib'[leg].exec
      OBVIOUS
    <3>1. leg \in Orders /\ rec[leg] <= ib[leg].exec
      BY Names DEF TradeInv, Carried
    <3> QED BY <1>1, <1>2, <2>1, <3>1
  <2>4. \A c \in Closes : /\ rec[c] <= Executed(c)' /\ job[c].had <= Executed(c)'
                          /\ job[c].got <= ib'[c].exec
    <3> SUFFICES ASSUME NEW c \in Closes
                 PROVE  /\ rec[c] <= Executed(c)' /\ job[c].had <= Executed(c)'
                        /\ job[c].got <= ib'[c].exec
      OBVIOUS
    <3>1. c \in Orders /\ c \in Exits
      BY Names DEF Exits
    <3>2. /\ rec[c] <= Executed(c) /\ job[c].had <= Executed(c) /\ job[c].got <= ib[c].exec
      BY DEF TradeInv, Carried
    <3> QED BY <1>1, <1>2, <1>3, <2>1, <3>1, <3>2
  <2> QED BY <2>2, <2>3, <2>4 DEF Carried
<1>8. ClosedIsFlat'
  <2> DEFINE Q == [x \in Exits |-> Executed(x)]
  <2> DEFINE R == [x \in Exits |-> Executed(x)']
  <2>1. \A x \in Exits : Q[x] \in Nat /\ R[x] \in Nat /\ Q[x] <= R[x]
    BY <1>3
  <2> HIDE DEF Q, R
  <2>2. Lots(Q, Exits) \in Nat /\ Lots(Q, Exits) <= Lots(R, Exits) /\ Lots(R, Exits) \in Nat
    BY <2>1, LotsGrow
  <2>3. trade = "closed" => Lots(Q, Exits) >= Entry
    BY DEF TradeInv, ClosedIsFlat, Q
  <2>4. trade' = "closed" => Lots(R, Exits) >= Entry
    BY <2>2, <2>3, Names DEF Statements
  <2> QED BY <2>4 DEF ClosedIsFlat, R
<1>9. Sizes'
  BY DEF TradeInv, Sizes, Statements
<1> QED BY <1>4, <1>5, <1>6, <1>7, <1>8, <1>9 DEF TradeInv
(* The steps of IB's by which an order moves, executes or is heard of.     *)
AtIB(o) ==
    \/ IBStep(o)
    \/ o \in Legs /\ (LegExecutes(o) \/ Breaks(o))

(* Each is of one order.                                                   *)
LEMMA IBIsOne ==
    ASSUME TradeInv, NEW o \in Orders, AtIB(o)
    PROVE  OneOrder(o) /\ asked' = asked /\ preroutes' = preroutes
<1>1. ASSUME NEW st \in Open \cup Over, IsOpen(o), Moves(o, st),
             o \notin Legs /\ st \in {"sent", "held"} => ib[o].exec = 0
      PROVE  OneOrder(o) /\ asked' = asked /\ preroutes' = preroutes
  <2>1. /\ ib' = [ib EXCEPT ![o].st = st]
        /\ UNCHANGED <<asked, view, told, preroutes>>
    BY <1>1, Zenon DEF Moves
  <2> QED BY <1>1, <2>1, MovesOne
<1>2. CASE Cancels(o) BY <1>1, <1>2 DEF Cancels, Over
<1>3. CASE Works(o) BY <1>1, <1>3 DEF Works, IsOpen, Open
<1>4. CASE Refuses(o) BY <1>1, <1>4 DEF Refuses, IsOpen, Open, Over
<1>5. CASE Executes(o)
  <2>1. CanFill(o) /\ UNCHANGED <<asked, view, told, preroutes>>
    BY <1>5, Zenon DEF Executes
  <2>2. ib[o].size - ib[o].exec >= 1
    BY <2>1, OneBefore DEF CanFill
  <2>3. 1 \in 1 .. ib[o].size - ib[o].exec
    BY <2>2, OneBefore
  <2>4. ib' = [ib EXCEPT ![o].exec = @ + 1,
                         ![o].st = IF ib[o].exec + 1 = ib[o].size THEN "filled" ELSE @]
    BY <1>5, Zenon DEF Executes
  <2> QED BY <2>1, <2>3, <2>4, ExecutesOne
<1>6. CASE Reports(o) \/ HearsFill(o)
  <2>1. UNCHANGED <<asked, preroutes>>
    BY <1>6, Zenon DEF Reports, HearsFill
  <2> QED BY <1>6, <2>1, HearsOne
<1>7. CASE LegExecutes(o)
  <2>1. CanFill(o) /\ UNCHANGED <<asked, view, told, preroutes>>
    BY <1>7, Zenon DEF LegExecutes
  <2>2. PICK k \in 1 .. ib[o].size - ib[o].exec :
           ib' = [ib EXCEPT ![o].exec = @ + k,
                            ![o].st = IF ib[o].exec + k = ib[o].size THEN "filled" ELSE @]
    BY <1>7, Zenon DEF LegExecutes
  <2> QED BY <2>1, <2>2, ExecutesOne
<1>8. CASE o \in Legs /\ Breaks(o)
  <2>1. /\ IsOpen(o) /\ ib' = [ib EXCEPT ![o].st = "cancelled"]
        /\ UNCHANGED <<asked, view, told, preroutes>>
    BY <1>8, Zenon DEF Breaks
  <2> QED BY <1>8, <2>1, MovesOne DEF Over
<1> QED BY <1>2, <1>3, <1>4, <1>5, <1>6, <1>7, <1>8 DEF AtIB, IBStep

(* The executions of a leg are sent one by one, and are all of its lots.   *)
LEMMA IBSends ==
    ASSUME TradeInv, NEW o \in Orders, AtIB(o)
    PROVE  UNCHANGED Statements /\ wire' \in [Legs -> Seq(Nat)] /\ Wired'
<1>1. OneOrder(o)
  BY IBIsOne
<1>2. \A leg \in Legs : leg \in Orders /\ ib'[leg].exec >= ib[leg].exec
                        /\ ib'[leg].exec \in Nat /\ ib[leg].exec \in Nat
  <2>1. \A x \in Orders : ib[x] \in OrderRec /\ ib'[x] \in OrderRec
    BY <1>1 DEF OneOrder, TradeInv, Shape
  <2>2. \A x \in Orders : ib[x].exec \in Nat /\ ib'[x].exec \in Nat
    BY <2>1 DEF OrderRec
  <2>3. ib'[o].exec >= ib[o].exec /\ \A x \in Orders \ {o} : ib'[x] = ib[x]
    BY <1>1, Zenon DEF OneOrder
  <2>4. \A x \in Orders : ib'[x].exec >= ib[x].exec
    BY <2>2, <2>3
  <2> QED BY <2>2, <2>4, Names
<1>3. wire \in [Legs -> Seq(Nat)]
  BY DEF TradeInv, Shape
<1>4. CASE UNCHANGED <<tradeVars>>
  <2>1. UNCHANGED <<at, job, rec, trade, wire>>
    BY <1>4, Zenon DEF tradeVars
  <2>2. \A leg \in Legs : \A i \in 1 .. Len(wire[leg]) : wire[leg][i] \in Nat
    BY <1>3
  <2> QED BY <1>2, <1>3, <2>1, <2>2 DEF TradeInv, Wired, Statements
<1>5. CASE o \in Legs /\ LegExecutes(o)
  <2>1. PICK k \in 1 .. ib[o].size - ib[o].exec :
           /\ ib' = [ib EXCEPT ![o].exec = @ + k,
                              ![o].st = IF ib[o].exec + k = ib[o].size THEN "filled" ELSE @]
           /\ wire' = [wire EXCEPT ![o] = Append(@, k)]
           /\ UNCHANGED <<at, job, rec, trade>>
    BY <1>5, Zenon DEF LegExecutes
  <2>2. k \in Nat /\ ib'[o].exec = ib[o].exec + k /\ k <= ib'[o].exec
    BY <2>1, OneBefore DEF OrderRec
  <2>3. wire[o] \in Seq(Nat)
    BY <1>3, <1>5
  <2>4. wire'[o] = Append(wire[o], k) /\ \A leg \in Legs \ {o} : wire'[leg] = wire[leg]
    BY <1>3, <1>5, <2>1
  <2>5. /\ Append(wire[o], k) \in Seq(Nat) /\ Len(Append(wire[o], k)) = Len(wire[o]) + 1
        /\ \A i \in 1 .. Len(wire[o]) : Append(wire[o], k)[i] = wire[o][i]
        /\ Append(wire[o], k)[Len(wire[o]) + 1] = k
    BY <2>2, <2>3, AppendProperties
  <2>6. Wired'
    <3> SUFFICES ASSUME NEW leg \in Legs, NEW i \in 1 .. Len(wire'[leg])
                 PROVE  wire'[leg][i] <= ib'[leg].exec
      BY DEF Wired
    <3>1. CASE leg # o
      <4>1. wire'[leg] = wire[leg] /\ wire[leg] \in Seq(Nat)
        BY <1>3, <2>4, <3>1
      <4>2. wire[leg][i] \in Nat /\ wire[leg][i] <= ib[leg].exec
        BY <4>1 DEF TradeInv, Wired
      <4> QED BY <1>2, <4>1, <4>2
    <3>2. CASE leg = o /\ i = Len(wire[o]) + 1
      BY <2>2, <2>4, <2>5, <3>2
    <3>3. CASE leg = o /\ i # Len(wire[o]) + 1
      <4>1. i \in 1 .. Len(wire[o])
        BY <2>3, <2>4, <2>5, <3>3
      <4>2. wire[o][i] \in Nat
        BY <2>3, <4>1
      <4>3. wire[o][i] <= ib[o].exec
        BY <1>5, <4>1 DEF TradeInv, Wired
      <4>4. ib[o].exec \in Nat /\ ib'[o].exec \in Nat /\ ib'[o].exec >= ib[o].exec
        BY <1>2, <1>5
      <4>5. wire'[leg][i] = wire[o][i] /\ ib'[leg] = ib'[o]
        BY <2>4, <2>5, <3>3, <4>1
      <4> QED BY <4>2, <4>3, <4>4, <4>5
    <3> QED BY <3>1, <3>2, <3>3
  <2>7. wire' \in [Legs -> Seq(Nat)]
    BY <1>3, <2>1, <2>4, <2>5
  <2> QED BY <2>1, <2>6, <2>7, Zenon DEF Statements
<1>6. IBStep(o) \/ Breaks(o) => UNCHANGED <<tradeVars>>
  BY Zenon DEF IBStep, Breaks
<1> QED BY <1>4, <1>5, <1>6 DEF AtIB

(* So they keep the invariant.                                             *)
LEMMA IBKeeps == ASSUME TradeInv, NEW o \in Orders, AtIB(o) PROVE TradeInv'
BY IBIsOne, IBSends, OneKeeps
(***************************************************************************)
(* The engine's steps.                                                     *)
(***************************************************************************)
(* A trade is closed on rows of executed lots, so on executed lots.        *)
LEMMA FlatKeeps ==
    ASSUME TradeInv, ib' = ib,
           \A o \in Exits : rec'[o] \in Nat /\ rec'[o] <= Executed(o),
           trade' = trade \/ \E os \in SUBSET Exits : Lots(rec', os) >= Entry
    PROVE  ClosedIsFlat'
<1> DEFINE Q == [x \in Exits |-> Executed(x)]
<1>1. \A x \in Exits : Executed(x) \in Nat
  BY ExitsAreCounted DEF TradeInv, Shape
<1>2. trade = "closed" => Lots(Q, Exits) >= Entry
  BY DEF TradeInv, ClosedIsFlat
<1>3. ASSUME NEW os \in SUBSET Exits, Lots(rec', os) >= Entry PROVE Lots(Q, Exits) >= Entry
  <2>1. \A x \in Exits : Q[x] \in Nat /\ rec'[x] \in Nat /\ rec'[x] <= Q[x]
    BY <1>1
  <2> HIDE DEF Q
  <2>2. /\ Lots(rec', os) \in Nat /\ Lots(rec', os) <= Lots(Q, Exits)
        /\ Lots(Q, Exits) \in Nat
    BY <2>1, LotsGrow
  <2> QED BY <1>3, <2>2, Names
<1>4. trade' = "closed" => Lots(Q, Exits) >= Entry
  BY <1>2, <1>3
<1>5. Q = [x \in Exits |-> Executed(x)']
  BY DEF Executed
<1> QED BY <1>4, <1>5 DEF ClosedIsFlat

(* What a step of a command that sends nothing has to answer for.          *)
LEMMA CommandKeeps ==
    ASSUME TradeInv, NEW c \in Commands, UNCHANGED <<ib, view, told, wire>>, asked' \subseteq Orders,
           job' \in [Commands -> JobRec], at' \in [Commands -> Stages], rec' \in [Orders -> Nat],
           \A d \in Commands \ {c} : job'[d] = job[d] /\ at'[d] = at[d],
           \A o \in Orders \ {c} : rec'[o] = rec[o],
           c \in Closes => /\ rec'[c] <= Executed(c)
                           /\ job'[c].had <= Executed(c) /\ job'[c].got <= ib[c].exec
                           /\ job'[c].qty >= 0
                           /\ at'[c] = "crossing" => job'[c].got <= job'[c].qty
                           /\ at'[c] \in Unsent => at[c] \in Unsent
                           /\ Uncrossed(c)' => Uncrossed(c),
           c = Symbol => (at'[c] \in {"idle", "placing"} => at[c] \in {"idle", "placing"}),
           trade' = trade \/ \E os \in SUBSET Exits : Lots(rec', os) >= Entry
    PROVE  TradeInv'
<1>1. \A d \in Closes : Executed(d)' = Executed(d)
  BY DEF Executed
<1>2. Shape' /\ Trails' /\ Wired'
  BY DEF TradeInv, Shape, Trails, Wired, Current
<1>3. Fresh'
  <2>1. \A d \in Closes : at'[d] \in Unsent => at[d] \in Unsent
    BY Names
  <2>2. \A d \in Closes : Uncrossed(d)' => Uncrossed(d)
    BY Names DEF Uncrossed
  <2>3. at'[Symbol] \in {"idle", "placing"} => at[Symbol] \in {"idle", "placing"}
    BY Names
  <2> QED BY <2>1, <2>2, <2>3 DEF TradeInv, Fresh
<1>4. Carried'
  <2>1. \A leg \in Legs : rec'[leg] = rec[leg]
    BY Names DEF Commands
  <2>2. \A d \in Closes : /\ rec'[d] <= Executed(d)
                          /\ job'[d].had <= Executed(d) /\ job'[d].got <= ib[d].exec
    BY Names DEF TradeInv, Carried
  <2> QED BY <1>1, <2>1, <2>2 DEF TradeInv, Carried
<1>5. \A o \in Exits : rec'[o] \in Nat /\ rec'[o] <= Executed(o)
  <2>1. \A o \in Legs : o \notin Closes /\ Executed(o) = ib[o].exec + 0 /\ ib[o].exec \in Nat
    BY Names DEF Executed, TradeInv, Shape, OrderRec
  <2>2. \A o \in Legs : rec'[o] <= Executed(o)
    BY <1>4, <2>1 DEF Carried
  <2>3. \A o \in Closes : rec'[o] <= Executed(o)
    BY <1>1, <1>4 DEF Carried
  <2> QED BY <2>2, <2>3, Names DEF Exits
<1>6. Sizes'
  BY Names DEF TradeInv, Sizes
<1> QED BY <1>2, <1>3, <1>4, <1>5, <1>6, FlatKeeps DEF TradeInv

(* The row of a leg has the lots of an execution of it.                    *)
LEMMA AutonomousKeeps ==
    ASSUME TradeInv, NEW leg \in Legs, Autonomous(leg)
    PROVE  TradeInv'
<1>1. wire \in [Legs -> Seq(Nat)] /\ rec \in [Orders -> Nat] /\ leg \in Orders
  BY Names DEF TradeInv, Shape
<1>2. /\ UNCHANGED <<ib, asked, view, told, at, job>> /\ wire[leg] # <<>>
      /\ wire' = [wire EXCEPT ![leg] = Tail(@)]
  BY Zenon DEF Autonomous, ibVars
<1>3. wire[leg] \in Seq(Nat)
  BY <1>1
<1>4. /\ Head(wire[leg]) \in Nat /\ Tail(wire[leg]) \in Seq(Nat)
      /\ Len(Tail(wire[leg])) = Len(wire[leg]) - 1 /\ Head(wire[leg]) = wire[leg][1]
      /\ 1 \in 1 .. Len(wire[leg])
      /\ \A i \in 1 .. Len(Tail(wire[leg])) :
            Tail(wire[leg])[i] = wire[leg][i + 1] /\ i + 1 \in 1 .. Len(wire[leg])
  BY <1>2, <1>3, HeadTailProperties
<1>5. Head(wire[leg]) <= ib[leg].exec
  BY <1>4 DEF TradeInv, Wired
<1>6. wire' \in [Legs -> Seq(Nat)] /\ Wired'
  <2>1. wire'[leg] = Tail(wire[leg]) /\ \A l \in Legs \ {leg} : wire'[l] = wire[l]
    BY <1>1, <1>2
  <2>2. wire' \in [Legs -> Seq(Nat)]
    BY <1>1, <1>2, <1>4
  <2>3. ASSUME NEW l \in Legs, NEW i \in 1 .. Len(wire'[l]) PROVE wire'[l][i] <= ib'[l].exec
    <3>1. Wired
      BY DEF TradeInv
    <3>2. CASE l = leg
      BY <1>2, <1>4, <2>1, <2>3, <3>1, <3>2 DEF Wired
    <3>3. CASE l # leg
      BY <1>2, <2>1, <2>3, <3>1, <3>3 DEF Wired
    <3> QED BY <3>2, <3>3
  <2> QED BY <2>2, <2>3 DEF Wired
<1>7. /\ rec' \in [Orders -> Nat] /\ \A o \in Orders \ {leg} : rec'[o] = rec[o]
      /\ rec'[leg] \in {rec[leg], Head(wire[leg])}
      /\ trade' = trade \/ Lots(rec', Legs \cup Closes) >= Entry
  <2>1. CASE rec' = [rec EXCEPT ![leg] = Head(wire[leg])]
    BY <1>1, <1>4, <2>1 DEF Autonomous
  <2>2. CASE UNCHANGED <<rec, row, trade>>
    BY <1>1, <2>2
  <2> QED BY <2>1, <2>2, Zenon DEF Autonomous
<1>8. Shape' /\ Trails' /\ Fresh'
  BY <1>2, <1>6, <1>7 DEF TradeInv, Shape, Trails, Current, Fresh, Uncrossed
<1>9. \A o \in Exits : Executed(o)' = Executed(o) /\ o \in Orders
  BY <1>2, Names DEF Executed, Exits
<1>10. Carried'
  <2>1. \A l \in Legs : rec'[l] <= ib[l].exec
    BY <1>5, <1>7, Names DEF TradeInv, Carried
  <2>2. \A c \in Closes : rec'[c] = rec[c]
    BY <1>7, Names
  <2> QED BY <1>2, <1>9, <2>1, <2>2 DEF TradeInv, Carried, Exits
<1>11. \A o \in Exits : rec'[o] \in Nat /\ rec'[o] <= Executed(o)
  <2>1. \A o \in Legs : o \notin Closes /\ Executed(o) = ib[o].exec + 0 /\ ib[o].exec \in Nat
    BY Names DEF Executed, TradeInv, Shape, OrderRec
  <2>2. \A o \in Legs : rec'[o] <= Executed(o)
    BY <1>2, <1>10, <2>1 DEF Carried
  <2>3. \A o \in Closes : rec'[o] <= Executed(o)
    BY <1>9, <1>10 DEF Carried, Exits
  <2> QED BY <1>7, <2>2, <2>3, Names DEF Exits
<1>12. Sizes'
  BY <1>2 DEF TradeInv, Sizes
<1> QED BY <1>2, <1>6, <1>7, <1>8, <1>10, <1>11, <1>12, FlatKeeps DEF TradeInv, Exits
(* Whatever a close reads of its orders IB has executed.                   *)
LEMMA CloseReads ==
    ASSUME TradeInv, NEW c \in Closes
    PROVE  /\ c \in Commands /\ c \in Orders /\ c # Symbol
           /\ job[c] \in JobRec /\ at[c] \in Stages
           /\ Executed(c) \in Nat /\ ib[c].exec \in Nat /\ ib[c].exec <= Executed(c)
           /\ view[c].filled \in Nat /\ view[c].filled <= ib[c].exec
           /\ told[c] \in Nat /\ told[c] <= ib[c].exec
           /\ Heard(c) \in Nat /\ Heard(c) <= ib[c].exec
           /\ Known(c) \in Nat /\ Known(c) <= ib[c].exec
           /\ job[c].had \in Nat /\ job[c].had <= Executed(c)
           /\ job[c].got \in Nat /\ job[c].got <= ib[c].exec
           /\ Final(c) \in Nat /\ Final(c) <= Executed(c)
           /\ Final(c) >= view[c].filled /\ Final(c) >= job[c].had
           /\ job[c].qty \in Nat /\ (at[c] = "crossing" => job[c].got <= job[c].qty)
           /\ rec[c] \in Nat /\ rec[c] <= Executed(c)
           /\ view[Cross(c)].filled \in Nat
           /\ job[c].got + view[Cross(c)].filled \in Nat
           /\ job[c].got + view[Cross(c)].filled <= Executed(c)
<1>1. /\ c \in Commands /\ c \in Orders /\ c # Symbol /\ Cross(c) \in Orders
  BY Names
<1>2. /\ ib[c].exec \in Nat /\ ib[Cross(c)].exec \in Nat
      /\ view[c].filled \in Nat /\ view[c].filled <= ib[c].exec
      /\ told[c] \in Nat /\ told[c] <= ib[c].exec
      /\ view[Cross(c)].filled \in Nat /\ view[Cross(c)].filled <= ib[Cross(c)].exec
  BY <1>1, OneBefore
<1>3. Executed(c) = ib[c].exec + ib[Cross(c)].exec
  BY DEF Executed
<1>4. /\ job[c] \in JobRec /\ job[c].had \in Nat /\ job[c].got \in Nat /\ rec[c] \in Nat
      /\ job[c].qty \in Int /\ at[c] \in Stages
  BY <1>1 DEF TradeInv, Shape, JobRec
<1>5. /\ job[c].had <= Executed(c) /\ job[c].got <= ib[c].exec /\ rec[c] <= Executed(c)
      /\ job[c].qty >= 0 /\ (at[c] = "crossing" => job[c].got <= job[c].qty)
  BY DEF TradeInv, Carried, Sizes
<1>6. Heard(c) \in Nat /\ Heard(c) <= ib[c].exec
  BY <1>2 DEF Heard
<1>7. Known(c) \in Nat /\ Known(c) <= ib[c].exec
  BY <1>2, <1>6 DEF Known
<1>8. Final(c) \in {view[c].filled, job[c].had} /\ Final(c) >= view[c].filled /\ Final(c) >= job[c].had
  BY <1>2, <1>4 DEF Final
<1> QED BY <1>1, <1>2, <1>3, <1>4, <1>5, <1>6, <1>7, <1>8

(* A close goes on, and records nothing.                                   *)
LEMMA CloseGoesOn ==
    ASSUME TradeInv, NEW c \in Closes, UNCHANGED <<ib, view, told, wire, rec, trade>>,
           asked' \subseteq Orders, NEW a \in Stages, at' = [at EXCEPT ![c] = a],
           NEW j \in JobRec, job' = [job EXCEPT ![c] = j],
           j.had <= Executed(c), j.got <= ib[c].exec,
           j.qty >= 0, a = "crossing" => j.got <= j.qty,
           a \in Unsent => at[c] \in Unsent,
           a \in Unsent \cup {"acking", "walking", "crossing"}
             \/ (a \in {"cancelling", "resolving"} /\ j.why = "cross") => Uncrossed(c)
    PROVE  TradeInv'
<1>1. /\ job \in [Commands -> JobRec] /\ at \in [Commands -> Stages] /\ rec \in [Orders -> Nat]
  BY DEF TradeInv, Shape
<1>2. /\ job' \in [Commands -> JobRec] /\ job'[c] = j
      /\ at' \in [Commands -> Stages] /\ at'[c] = a
      /\ \A d \in Commands \ {c} : job'[d] = job[d] /\ at'[d] = at[d]
  BY <1>1, CloseReads
<1>3. Uncrossed(c)' => Uncrossed(c)
  BY <1>2 DEF Uncrossed
<1> QED BY <1>1, <1>2, <1>3, CloseReads, CommandKeeps

(* A close has its row, of executed lots.                                  *)
LEMMA CloseEnds ==
    ASSUME TradeInv, NEW c \in Closes, UNCHANGED <<ib, view, told, wire>>, asked' \subseteq Orders,
           NEW q \in Nat, q <= Executed(c), CloseFill(c, q) \/ ClosePartial(c, q),
           NEW b \in BOOLEAN, job' = job \/ job' = [job EXCEPT ![c].lost = b]
    PROVE  TradeInv'
<1>1. /\ rec' = [rec EXCEPT ![c] = q] /\ at' = [at EXCEPT ![c] = "done"]
      /\ trade' = trade \/ Entry - Lots(rec', {"pt"} \cup Closes) <= 0
  BY Zenon DEF CloseFill, ClosePartial
<1>2. /\ job \in [Commands -> JobRec] /\ at \in [Commands -> Stages] /\ rec \in [Orders -> Nat]
      /\ "done" \in Stages
  BY DEF TradeInv, Shape, Stages, Ended
<1>3. /\ job' \in [Commands -> JobRec] /\ job'[c].had = job[c].had /\ job'[c].got = job[c].got
      /\ job'[c].qty = job[c].qty
      /\ \A d \in Commands \ {c} : job'[d] = job[d]
  <2> DEFINE noted(x) == [x EXCEPT !.lost = b]
  <2>1. c \in Commands /\ job[c] \in JobRec
    BY <1>2, CloseReads
  <2>2. /\ noted(job[c]) \in JobRec /\ noted(job[c]).had = job[c].had
        /\ noted(job[c]).got = job[c].got /\ noted(job[c]).qty = job[c].qty
    BY <2>1 DEF JobRec
  <2>3. CASE job' = job
    BY <1>2, <2>3
  <2>4. CASE job' = [job EXCEPT ![c].lost = b]
    <3>1. job' = [job EXCEPT ![c] = noted(job[c])]
      BY <2>4
    <3> HIDE DEF noted
    <3> QED BY <1>2, <2>1, <2>2, <3>1
  <2> QED BY <2>3, <2>4
<1>4. /\ at' \in [Commands -> Stages] /\ at'[c] = "done"
      /\ \A d \in Commands \ {c} : at'[d] = at[d]
  BY <1>1, <1>2, CloseReads
<1>5. /\ rec' \in [Orders -> Nat] /\ rec'[c] = q
      /\ \A o \in Orders \ {c} : rec'[o] = rec[o]
  BY <1>1, <1>2, CloseReads
<1>6. {"pt"} \cup Closes \in SUBSET Exits
  BY DEF Exits, Legs
<1>7. \A x \in Exits : rec'[x] \in Nat
  BY <1>5, Names DEF Exits
<1>8. Lots(rec', {"pt"} \cup Closes) \in Nat
  BY <1>6, <1>7, LotsGrow
<1>9. trade' = trade \/ \E os \in SUBSET Exits : Lots(rec', os) >= Entry
  BY <1>1, <1>6, <1>8, Names
<1>10. ~ Uncrossed(c)'
  BY <1>4 DEF Uncrossed, Unsent
<1> QED BY <1>3, <1>4, <1>5, <1>9, <1>10, CloseReads, CommandKeeps DEF Unsent

(* What a fill of q lots leads to: the row, or a cancel that carries them. *)
LEMMA DispatchKeeps ==
    ASSUME TradeInv, NEW c \in Closes, UNCHANGED <<ib, view, told, wire, asked>>,
           NEW q \in Nat, q <= Executed(c), Dispatch(c, q)
    PROVE  TradeInv'
<1>1. asked \subseteq Orders
  BY DEF TradeInv, Shape
<1>2. CASE CloseFill(c, q) /\ UNCHANGED job
  BY <1>1, <1>2, CloseEnds
<1>3. CASE ToCancel(c, "partial", q)
  <2> DEFINE j == [job[c] EXCEPT !.why = "partial", !.had = q]
  <2>1. /\ at' = [at EXCEPT ![c] = "cancelling"] /\ UNCHANGED <<rec, trade>>
        /\ job' = [job EXCEPT ![c].why = "partial", ![c].had = q]
    BY <1>3, Zenon DEF ToCancel
  <2>2. job' = [job EXCEPT ![c] = j]
    BY <2>1, CloseReads DEF TradeInv, Shape
  <2>3. j \in JobRec /\ j.why = "partial" /\ j.had = q /\ j.got = job[c].got /\ j.qty = job[c].qty
    BY CloseReads DEF JobRec
  <2>4. "cancelling" \in Stages
    BY DEF Stages
  <2> HIDE DEF j
  <2>5. "cancelling" \notin Unsent \cup {"acking", "walking", "crossing"}
    BY DEF Unsent
  <2>6. j.had <= Executed(c) /\ j.got <= ib[c].exec /\ j.qty >= 0
    BY <2>3, CloseReads
  <2> QED BY <1>1, <2>1, <2>2, <2>3, <2>4, <2>5, <2>6, CloseGoesOn
<1> QED BY <1>2, <1>3 DEF Dispatch
(* Asking for a cancel.                                                    *)
LEMMA AsksOfOrders ==
    ASSUME TradeInv, NEW o \in Orders
    PROVE  asked \subseteq Orders /\ AskedToCancel(o) \subseteq Orders
BY DEF TradeInv, Shape, AskedToCancel

(* A close that waits, looks and goes on.                                  *)
LEMMA CloseWaits ==
    ASSUME TradeInv, NEW c \in Closes, UNCHANGED <<ib, view, told, wire, rec, trade>>,
           asked' \in {asked, AskedToCancel(c)},
           NEW a \in Stages, at' = [at EXCEPT ![c] = a],
           job' = job \/ \E b \in BOOLEAN : job' = [job EXCEPT ![c].lost = b],
           a \notin Unsent \cup {"acking", "crossing", "cancelling"},
           a = "walking" => at[c] = "acking",
           a = "resolving" => at[c] = "cancelling"
    PROVE  TradeInv'
<1>1. asked' \subseteq Orders
  BY CloseReads, AsksOfOrders
<1>2. job \in [Commands -> JobRec]
  BY DEF TradeInv, Shape
<1>3. /\ job' \in [Commands -> JobRec] /\ job'[c].had = job[c].had /\ job'[c].got = job[c].got
      /\ job'[c].why = job[c].why /\ job'[c].qty = job[c].qty
      /\ job' = [job EXCEPT ![c] = job'[c]]
  <2>1. CASE job' = job
    BY <1>2, <2>1
  <2>2. ASSUME NEW b \in BOOLEAN, job' = [job EXCEPT ![c].lost = b]
        PROVE  /\ job' \in [Commands -> JobRec]
               /\ job'[c].had = job[c].had /\ job'[c].got = job[c].got
               /\ job'[c].why = job[c].why /\ job'[c].qty = job[c].qty
               /\ job' = [job EXCEPT ![c] = job'[c]]
    BY <1>2, <2>2, CloseReads DEF JobRec
  <2> QED BY <2>1, <2>2
<1>4. /\ job'[c] \in JobRec /\ job'[c].had <= Executed(c) /\ job'[c].got <= ib[c].exec
      /\ job'[c].qty >= 0
  BY <1>3, CloseReads
<1>5. a = "walking" \/ (a = "resolving" /\ job'[c].why = "cross") => Uncrossed(c)
  BY <1>3 DEF Uncrossed
<1> QED BY <1>1, <1>3, <1>4, <1>5, CloseGoesOn DEF Unsent

(* The steps of a close that only wait.                                    *)
Waits(c) ==
    \/ AlreadyClosed(c) \/ PlaceRaises(c) \/ Acked(c) \/ NotAcked(c) \/ WalkEnds(c)
    \/ WalkCapped(c) \/ CrossFails(c) \/ RepriceRaises(c) \/ Asks(c) \/ Cancelling(c)

(* They keep the invariant.                                                *)
LEMMA WaitsKeep == ASSUME TradeInv, NEW c \in Closes, Waits(c) PROVE TradeInv'
<1>1. /\ UNCHANGED <<ib, view, told, wire, rec, trade>>
      /\ asked' \in {asked, AskedToCancel(c)}
      /\ job' = job \/ \E b \in BOOLEAN : job' = [job EXCEPT ![c].lost = b]
  <2>1. CASE AlreadyClosed(c) BY <2>1, Zenon DEF AlreadyClosed, Reads, Silent, ibVars
  <2>2. CASE PlaceRaises(c) BY <2>2, Zenon DEF PlaceRaises, Reads, ibVars
  <2>3. CASE Acked(c) BY <2>3, Zenon DEF Acked, Reads, Silent, ibVars
  <2>4. CASE NotAcked(c)
    <3>1. (view[c].st \in Pending) \in BOOLEAN
      OBVIOUS
    <3> QED BY <2>4, <3>1, Zenon DEF NotAcked, Silent
  <2>5. CASE WalkEnds(c) BY <2>5, Zenon DEF WalkEnds, Reads, Silent, ibVars
  <2>6. CASE WalkCapped(c) BY <2>6, Zenon DEF WalkCapped, Reads, Silent, ibVars
  <2>7. CASE CrossFails(c) BY <2>7, Zenon DEF CrossFails, Reads, Silent, ibVars
  <2>8. CASE RepriceRaises(c) BY <2>8, Zenon DEF RepriceRaises, Reads, Silent, ibVars
  <2>9. CASE Asks(c) BY <2>9, Zenon DEF Asks, Silent
  <2>10. CASE Cancelling(c) BY <2>10, Zenon DEF Cancelling, Silent
  <2> QED BY <2>1, <2>2, <2>3, <2>4, <2>5, <2>6, <2>7, <2>8, <2>9, <2>10 DEF Waits
<1>2. \/ at[c] \in {"acking", "walking", "crossing", "idle", "placing", "waiting", "asking"}
         /\ \E a \in {"done", "raised", "checking", "waiting", "left", "asking", "settling"} :
               at' = [at EXCEPT ![c] = a]
      \/ at[c] = "acking" /\ at' = [at EXCEPT ![c] = "walking"]
      \/ at[c] = "cancelling" /\ at' = [at EXCEPT ![c] = "resolving"]
  <2> USE Zenon DEF Goes
  <2>1. CASE AlreadyClosed(c) BY <2>1 DEF AlreadyClosed
  <2>2. CASE PlaceRaises(c) BY <2>2 DEF PlaceRaises
  <2>3. CASE Acked(c) BY <2>3 DEF Acked
  <2>4. CASE NotAcked(c) BY <2>4 DEF NotAcked
  <2>5. CASE WalkEnds(c) BY <2>5 DEF WalkEnds
  <2>6. CASE WalkCapped(c) BY <2>6 DEF WalkCapped
  <2>7. CASE CrossFails(c) BY <2>7 DEF CrossFails
  <2>8. CASE RepriceRaises(c) BY <2>8 DEF RepriceRaises
  <2>9. CASE Asks(c) BY <2>9 DEF Asks
  <2>10. CASE Cancelling(c) BY <2>10 DEF Cancelling
  <2> QED BY <2>1, <2>2, <2>3, <2>4, <2>5, <2>6, <2>7, <2>8, <2>9, <2>10 DEF Waits
<1>3. ASSUME NEW a \in {"done", "raised", "checking", "waiting", "left", "asking", "settling"},
             at' = [at EXCEPT ![c] = a]
      PROVE  TradeInv'
  BY <1>1, <1>3, CloseWaits DEF Stages, Ended, Unsent
<1>4. CASE at[c] = "acking" /\ at' = [at EXCEPT ![c] = "walking"]
  BY <1>1, <1>4, CloseWaits DEF Stages, Ended, Unsent
<1>5. CASE at[c] = "cancelling" /\ at' = [at EXCEPT ![c] = "resolving"]
  BY <1>1, <1>5, CloseWaits DEF Stages, Ended, Unsent
<1> QED BY <1>2, <1>3, <1>4, <1>5
(* A close begins with nothing carried.                                    *)
LEMMA BeginKeeps == ASSUME TradeInv, NEW c \in Closes, Begin(c) PROVE TradeInv'
<1>1. PICK s \in Strategies :
         job' = [job EXCEPT ![c] = [NoJob EXCEPT !.strat = s, !.qty = Left, !.todo = Unfinished]]
  BY Zenon DEF Begin
<1> DEFINE j == [NoJob EXCEPT !.strat = s, !.qty = Left, !.todo = Unfinished]
<1>2. /\ at[c] = "idle" /\ at' = [at EXCEPT ![c] = OnTo(Unfinished)]
      /\ UNCHANGED <<ib, asked, view, told, wire, rec, trade>>
  BY Zenon DEF Begin, Reads, Silent, ibVars
<1>3. OnTo(Unfinished) \in {"placing", "legs"}
  BY DEF OnTo
<1>4. Left \in Int
  <2>1. \A x \in Exits : rec[x] \in Nat
    BY Names DEF TradeInv, Shape, Exits
  <2>2. Lots(rec, {"pt"} \cup Closes) \in Nat
    BY <2>1, LotsGrow DEF Exits, Legs
  <2> QED BY <2>2, Names DEF Left
<1>5. Unfinished \subseteq Orders /\ "pt" \in Orders
  BY Names DEF Unfinished, Legs
<1>6. j \in JobRec /\ j.had = 0 /\ j.got = 0 /\ j.qty = Left
  BY <1>4, <1>5 DEF NoJob, JobRec
<1> HIDE DEF j
<1>7. asked' \subseteq Orders
  BY <1>2 DEF TradeInv, Shape
<1>8. OnTo(Unfinished) \in Stages /\ at[c] \in Unsent /\ Uncrossed(c)
  BY <1>2, <1>3 DEF Stages, Unsent, Uncrossed
<1>9. job' = [job EXCEPT ![c] = j]
  BY <1>1 DEF j
<1>10. j.had <= Executed(c) /\ j.got <= ib[c].exec
  BY <1>6, CloseReads
<1>11. Left > 0
  BY DEF Begin
<1>12. j.qty >= 0 /\ OnTo(Unfinished) # "crossing"
  BY <1>3, <1>4, <1>6, <1>11
<1> QED BY <1>2, <1>6, <1>7, <1>8, <1>9, <1>10, <1>12, CloseGoesOn

(* The steps that end in a row, or in a cancel, or in neither.             *)
Outcomes(c) ==
    Check(c) \/ WalkExpires(c) \/ Crossed(c) \/ Outcome(c) \/ Settles(c) \/ Resolve(c)

(* Each records, or carries, what it has read.                             *)
LEMMA OutcomesKeep == ASSUME TradeInv, NEW c \in Closes, Outcomes(c) PROVE TradeInv'
<1>1. UNCHANGED <<ib, asked, view, told, wire>> /\ asked' \subseteq Orders
  <2>1. UNCHANGED <<ib, asked, view, told, wire>>
    BY Zenon DEF Outcomes, Check, WalkExpires, Crossed, Outcome, Settles, Resolve, Reads, ibVars
  <2> QED BY <2>1 DEF TradeInv, Shape
<1> DEFINE total == job[c].got + view[Cross(c)].filled
<1> DEFINE v == view[c].filled
<1>2. /\ \A q \in {total, v, Heard(c), Known(c), Final(c)} : q \in Nat /\ q <= Executed(c)
      /\ v <= ib[c].exec
  BY CloseReads
<1>3. \/ \E q \in {total, v, Heard(c), Known(c), Final(c)} : Dispatch(c, q)
      \/ \E q \in {total, v, Heard(c), Known(c), Final(c)} :
            /\ CloseFill(c, q) \/ ClosePartial(c, q)
            /\ job' = job \/ \E b \in BOOLEAN : job' = [job EXCEPT ![c].lost = b]
      \/ /\ \E a \in {"left", "done", "asking"} : at' = [at EXCEPT ![c] = a]
         /\ job' = job \/ \E b \in BOOLEAN : job' = [job EXCEPT ![c].lost = b]
         /\ UNCHANGED <<rec, trade>>
      \/ at[c] = "walking" /\ ToCancel(c, "cross", v)
      \/ at[c] = "resolving" /\ job[c].why = "cross" /\ ResolvedCross(c)
  <2>1. CASE Check(c) BY <2>1, Zenon DEF Check, Silent
  <2>2. CASE WalkExpires(c) BY <2>2, Zenon DEF WalkExpires
  <2>3. CASE Crossed(c) BY <2>3, Zenon DEF Crossed, Silent
  <2>4. CASE Outcome(c) BY <2>4, Zenon DEF Outcome, Silent
  <2>5. CASE Settles(c)
    <3>1. (view[c].st \notin Refused) \in BOOLEAN
      OBVIOUS
    <3> QED BY <2>5, <3>1, Zenon DEF Settles, Silent
  <2>6. CASE Resolve(c)
    <3>1. (job[c].lost \/ Resolution(c) = "timeout") \in BOOLEAN
      BY DEF JobRec
    <3>2. CASE job[c].why = "partial" /\ ResolvedPartial(c)
      <4>1. job' = [job EXCEPT ![c].lost = job[c].lost \/ Resolution(c) = "timeout"]
        BY <3>2 DEF ResolvedPartial
      <4> QED BY <3>1, <3>2, <4>1, Zenon DEF ResolvedPartial
    <3> QED BY <2>6, <3>2, Zenon DEF Resolve
  <2> QED BY <2>1, <2>2, <2>3, <2>4, <2>5, <2>6, Zenon DEF Outcomes
<1>4. ASSUME NEW q \in {total, v, Heard(c), Known(c), Final(c)}, Dispatch(c, q) PROVE TradeInv'
  BY <1>1, <1>2, <1>4, DispatchKeeps
<1>5. ASSUME NEW q \in {total, v, Heard(c), Known(c), Final(c)},
             CloseFill(c, q) \/ ClosePartial(c, q),
             job' = job \/ \E b \in BOOLEAN : job' = [job EXCEPT ![c].lost = b]
      PROVE  TradeInv'
  BY <1>1, <1>2, <1>5, CloseEnds
<1>6. ASSUME NEW a \in {"left", "done", "asking"}, at' = [at EXCEPT ![c] = a],
             job' = job \/ (\E b \in BOOLEAN : job' = [job EXCEPT ![c].lost = b]),
             UNCHANGED <<rec, trade>>
      PROVE  TradeInv'
  BY <1>1, <1>6, CloseWaits DEF Stages, Ended, Unsent
<1>7. ASSUME at[c] = "walking", ToCancel(c, "cross", v) PROVE TradeInv'
  <2> DEFINE j == [job[c] EXCEPT !.why = "cross", !.had = v]
  <2>1. /\ at' = [at EXCEPT ![c] = "cancelling"] /\ UNCHANGED <<rec, trade>>
        /\ job' = [job EXCEPT ![c].why = "cross", ![c].had = v]
    BY <1>7, Zenon DEF ToCancel
  <2>2. job' = [job EXCEPT ![c] = j]
    BY <2>1, CloseReads DEF TradeInv, Shape
  <2>3. j \in JobRec /\ j.had = v /\ j.got = job[c].got /\ j.qty = job[c].qty
    BY CloseReads DEF JobRec
  <2> HIDE DEF j
  <2>4. "cancelling" \in Stages /\ "cancelling" \notin Unsent /\ Uncrossed(c)
    BY <1>7 DEF Stages, Unsent, Uncrossed
  <2>5. j.had <= Executed(c) /\ j.got <= ib[c].exec /\ j.qty >= 0
    BY <1>2, <2>3, CloseReads
  <2> QED BY <1>1, <2>1, <2>2, <2>3, <2>4, <2>5, CloseGoesOn
<1>8. ASSUME at[c] = "resolving", job[c].why = "cross", ResolvedCross(c) PROVE TradeInv'
  <2> DEFINE b == Resolution(c) = "timeout"
  <2> DEFINE j == [job[c] EXCEPT !.got = v, !.lost = b]
  <2>1. /\ at' = [at EXCEPT ![c] = IF v < job[c].qty THEN "crossing" ELSE "waiting"]
        /\ UNCHANGED <<rec, trade>> /\ job' = [job EXCEPT ![c].got = v, ![c].lost = b]
    BY <1>8, Zenon DEF ResolvedCross, Silent
  <2>2. job' = [job EXCEPT ![c] = j]
    BY <2>1, CloseReads DEF TradeInv, Shape
  <2>3. b \in BOOLEAN
    OBVIOUS
  <2> HIDE DEF b
  <2>4. j \in JobRec /\ j.had = job[c].had /\ j.got = v /\ j.qty = job[c].qty
    BY <2>3, CloseReads DEF JobRec
  <2> HIDE DEF j
  <2>5. /\ "crossing" \in Stages /\ "crossing" \notin Unsent /\ "waiting" \in Stages
        /\ "waiting" \notin Unsent /\ Uncrossed(c)
    BY <1>8 DEF Stages, Unsent, Uncrossed
  <2>6. j.had <= Executed(c) /\ j.got <= ib[c].exec /\ j.qty >= 0
    BY <1>2, <2>4, CloseReads
  <2>7. \E a \in {"crossing", "waiting"} : /\ at' = [at EXCEPT ![c] = a]
                                          /\ a = "crossing" => v < job[c].qty
    BY <2>1
  <2>8. v < job[c].qty => j.got <= j.qty
    BY <1>2, <2>4, CloseReads
  <2> QED BY <1>1, <2>1, <2>2, <2>4, <2>5, <2>6, <2>7, <2>8, CloseGoesOn
<1> QED BY <1>3, <1>4, <1>5, <1>6, <1>7, <1>8
(* An order is placed: IB has executed nothing of it.                      *)
LEMMA PlacedKeeps ==
    ASSUME TradeInv, NEW o \in Orders, o \notin Legs, ib[o].st = "none", NEW size \in Nat,
           ib' = Placed(o, size), UNCHANGED <<asked, view, told, wire, rec, trade, job>>,
           NEW c \in Commands, NEW a \in Stages, at' = [at EXCEPT ![c] = a],
           a \notin Unsent, a # "crossing", o \in Closes \cup {Symbol} => o = c,
           \A d \in Closes : o = Cross(d) => d = c,
           Uncrossed(c)' => Uncrossed(c) /\ o # Cross(c)
    PROVE  TradeInv'
<1>1. /\ ib \in [Orders -> OrderRec] /\ at \in [Commands -> Stages]
      /\ rec \in [Orders -> Nat] /\ ib[o].exec = 0
  BY DEF TradeInv, Shape, Trails
<1> DEFINE r == [st |-> "sent", size |-> size, exec |-> 0]
<1>2. ib' = [ib EXCEPT ![o] = r] /\ r \in OrderRec
  BY DEF Placed, OrderRec, Open
<1>3. r.exec = 0 /\ r.size = size /\ r.st = "sent"
  OBVIOUS
<1> HIDE DEF r
<1>4. /\ ib' \in [Orders -> OrderRec] /\ ib'[o].st = "sent" /\ ib'[o].exec = 0
      /\ ib'[o].size = size
      /\ \A x \in Orders \ {o} : ib'[x] = ib[x]
      /\ \A x \in Orders : ib'[x].exec = ib[x].exec
  BY <1>1, <1>2, <1>3
<1>5. at' \in [Commands -> Stages] /\ at'[c] = a /\ \A d \in Commands \ {c} : at'[d] = at[d]
  BY <1>1
<1>6. \A x \in Exits : Executed(x)' = Executed(x)
  BY <1>4, Names DEF Executed, Exits
<1>7. Shape'
  BY <1>4, <1>5 DEF TradeInv, Shape
<1>8. Trails'
  <2> SUFFICES ASSUME NEW x \in Orders
               PROVE  /\ view[x].filled <= ib'[x].exec /\ told[x] <= ib'[x].exec
                      /\ view[x].st \in Terminal => view[x] = Current(x)'
                      /\ ib'[x].exec <= ib'[x].size
                      /\ ib'[x].st = "none" => ib'[x].exec = 0
                      /\ x \notin Legs /\ ib'[x].st \in {"sent", "held"} => ib'[x].exec = 0
    BY DEF Trails
  <2>1. view[x].filled <= ib'[x].exec /\ told[x] <= ib'[x].exec
    BY <1>4, OneBefore
  <2>2. CASE x # o
    BY <1>4, <2>1, <2>2, OneBefore DEF Current
  <2>3. CASE x = o
    <3>1. view[o].st \notin Terminal
      <4>1. Current(o).st = ""
        BY DEF Current, Shown
      <4> QED BY <4>1, OneBefore DEF Terminal, Refused
    <3> QED BY <1>4, <2>1, <2>3, <3>1
  <2> QED BY <2>2, <2>3
<1>9. Wired'
  BY <1>4, Names DEF TradeInv, Wired
<1>10. Fresh'
  <2>1. \A d \in Closes : at'[d] \in Unsent => ib'[d].st = "none"
    BY <1>4, <1>5, Names DEF TradeInv, Fresh
  <2>2. \A d \in Closes : Uncrossed(d)' => Uncrossed(d) /\ Cross(d) # o
    BY <1>5, Names DEF Uncrossed
  <2>3. \A d \in Closes : Uncrossed(d)' => ib'[Cross(d)].st = "none"
    BY <1>4, <2>2, Names DEF TradeInv, Fresh
  <2>4. at'[Symbol] \in {"idle", "placing"} => ib'[Symbol].st = "none"
    BY <1>4, <1>5, Names DEF TradeInv, Fresh, Unsent
  <2> QED BY <2>1, <2>3, <2>4 DEF Fresh
<1>11. Carried'
  BY <1>4, <1>6, Names DEF TradeInv, Carried, Exits
<1>12. Sizes'
  BY <1>5, Names DEF TradeInv, Sizes
<1>13. ClosedIsFlat'
  <2> DEFINE Q == [x \in Exits |-> Executed(x)]
  <2>1. Q = [x \in Exits |-> Executed(x)']
    BY <1>6
  <2>2. trade = "closed" => Lots(Q, Exits) >= Entry
    BY DEF TradeInv, ClosedIsFlat
  <2> HIDE DEF Q
  <2> QED BY <2>1, <2>2 DEF ClosedIsFlat
<1> QED BY <1>7, <1>8, <1>9, <1>10, <1>11, <1>12, <1>13 DEF TradeInv
(* The orders of a close.                                                  *)
LEMMA CloseSendsKeep ==
    ASSUME TradeInv, NEW c \in Closes, Place(c) \/ Crosses(c)
    PROVE  TradeInv'
<1>1. CASE Place(c)
  <2>1. /\ at[c] = "placing" /\ ib' = Placed(c, job[c].qty)
        /\ UNCHANGED <<asked, view, told, wire, rec, trade, job>>
        /\ \E a \in {"waiting", "acking"} : at' = [at EXCEPT ![c] = a]
    BY <1>1, Zenon DEF Place
  <2>2. ib[c].st = "none" /\ Uncrossed(c) /\ c \notin Legs /\ c # Cross(c)
        /\ \A d \in Closes : c # Cross(d)
    BY <2>1, Names DEF TradeInv, Fresh, Uncrossed, Unsent
  <2>3. \A a \in {"waiting", "acking"} : a \in Stages /\ a \notin Unsent /\ a # "crossing"
    BY DEF Stages, Unsent
  <2> QED BY <2>1, <2>2, <2>3, CloseReads, PlacedKeeps
<1>2. CASE Crosses(c)
  <2>1. /\ at[c] = "crossing" /\ ib' = Placed(Cross(c), job[c].qty - job[c].got)
        /\ UNCHANGED <<asked, view, told, wire, rec, trade, job>>
        /\ at' = [at EXCEPT ![c] = "crossed"]
    BY <1>2, Zenon DEF Crosses, Goes, Silent
  <2>2. /\ ib[Cross(c)].st = "none" /\ Cross(c) \in Orders /\ Cross(c) \notin Legs
        /\ Cross(c) \notin Closes \cup {Symbol} /\ \A d \in Closes : Cross(c) = Cross(d) => d = c
    BY <2>1, Names DEF TradeInv, Fresh, Uncrossed
  <2>3. job[c].qty - job[c].got \in Nat
    BY <2>1, CloseReads
  <2>4. at'[c] = "crossed"
    BY <2>1, CloseReads DEF TradeInv, Shape
  <2>5. ~ Uncrossed(c)'
    BY <2>4 DEF Uncrossed, Unsent
  <2>6. "crossed" \in Stages /\ "crossed" \notin Unsent
    BY DEF Stages, Unsent
  <2> QED BY <2>1, <2>2, <2>3, <2>5, <2>6, CloseReads, PlacedKeeps
<1> QED BY <1>1, <1>2

(* The exit legs and other orders are taken back one by one.               *)
LEMMA CancelsKeep ==
    ASSUME TradeInv, NEW c \in Commands, CancelStep(c)
    PROVE  TradeInv'
<1>1. /\ job \in [Commands -> JobRec] /\ at \in [Commands -> Stages] /\ rec \in [Orders -> Nat]
      /\ job[c] \in JobRec /\ job[c].todo \subseteq Orders /\ job[c].leg \in Orders
      /\ asked \subseteq Orders
  BY DEF TradeInv, Shape, JobRec
<1>2. UNCHANGED <<ib, view, told, wire, rec, trade>> /\ asked' \in {asked, AskedToCancel(job[c].leg)}
  BY Zenon DEF CancelStep, CancelLeg, LegCancelled, LegRaises, Reads, Silent, ibVars
<1>3. asked' \subseteq Orders
  BY <1>1, <1>2, AsksOfOrders
<1>4. \/ job' = job
      \/ \E leg \in job[c].todo :
            job' = [job EXCEPT ![c].leg = leg, ![c].todo = job[c].todo \ {leg}]
  <2>1. CASE CancelLeg(c)
    BY <2>1 DEF CancelLeg
  <2> QED BY <2>1, Zenon DEF CancelStep, LegCancelled, LegRaises
<1>5. /\ job' \in [Commands -> JobRec] /\ \A d \in Commands \ {c} : job'[d] = job[d]
      /\ job'[c].had = job[c].had /\ job'[c].got = job[c].got /\ job'[c].qty = job[c].qty
  <2>1. ASSUME NEW leg \in job[c].todo,
               job' = [job EXCEPT ![c].leg = leg, ![c].todo = job[c].todo \ {leg}]
        PROVE  /\ job' \in [Commands -> JobRec] /\ \A d \in Commands \ {c} : job'[d] = job[d]
               /\ job'[c].had = job[c].had /\ job'[c].got = job[c].got
               /\ job'[c].qty = job[c].qty
    <3> DEFINE j == [job[c] EXCEPT !.leg = leg, !.todo = job[c].todo \ {leg}]
    <3>1. j \in JobRec /\ j.had = job[c].had /\ j.got = job[c].got /\ j.qty = job[c].qty
      BY <1>1 DEF JobRec
    <3>2. job' = [job EXCEPT ![c] = j]
      BY <1>1, <2>1
    <3> HIDE DEF j
    <3> QED BY <1>1, <3>1, <3>2
  <2> QED BY <1>1, <1>4, <2>1
<1>6. After(c) \in {"done", "placing", "legs"} /\ (c = Symbol => After(c) # "placing")
  BY DEF After, OnTo
<1>7. /\ at[c] \in {"legs", "leg"}
      /\ \E a \in {"leg", "raised", After(c)} : at' = [at EXCEPT ![c] = a]
  BY Zenon DEF CancelStep, CancelLeg, LegCancelled, LegRaises, Goes
<1>8. PICK a \in {"leg", "raised", After(c)} : at' = [at EXCEPT ![c] = a]
  BY <1>7
<1>9. a \in Stages /\ (c = Symbol => a \notin {"idle", "placing"}) /\ a # "crossing"
  BY <1>6, <1>8 DEF Stages, Ended
<1>10. /\ at' \in [Commands -> Stages] /\ at'[c] = a
       /\ \A d \in Commands \ {c} : at'[d] = at[d]
  BY <1>1, <1>8, <1>9
<1>11. at[c] \in Unsent /\ Uncrossed(c)
  BY <1>7 DEF Unsent, Uncrossed
<1>12. c \in Closes => /\ rec[c] <= Executed(c) /\ job[c].had <= Executed(c)
                       /\ job[c].got <= ib[c].exec /\ job[c].qty >= 0
  BY CloseReads
<1>13. rec' \in [Orders -> Nat] /\ \A o \in Orders \ {c} : rec'[o] = rec[o]
  BY <1>1, <1>2
<1>14. c \in Closes => /\ rec'[c] <= Executed(c)
                       /\ job'[c].had <= Executed(c) /\ job'[c].got <= ib[c].exec
                       /\ job'[c].qty >= 0
                       /\ at'[c] = "crossing" => job'[c].got <= job'[c].qty
                       /\ at'[c] \in Unsent => at[c] \in Unsent
                       /\ Uncrossed(c)' => Uncrossed(c)
  BY <1>2, <1>5, <1>9, <1>10, <1>11, <1>12
<1>15. c = Symbol => (at'[c] \in {"idle", "placing"} => at[c] \in {"idle", "placing"})
  BY <1>9, <1>10
<1> QED BY <1>2, <1>3, <1>5, <1>10, <1>13, <1>14, <1>15, CommandKeeps

(* The close by symbol.                                                    *)
LEMMA SymbolKeeps == ASSUME TradeInv, SymbolStep PROVE TradeInv'
<1>1. /\ job \in [Commands -> JobRec] /\ at \in [Commands -> Stages] /\ rec \in [Orders -> Nat]
      /\ asked \subseteq Orders /\ Symbol \in Commands /\ Symbol \in Orders /\ Symbol \notin Closes
      /\ job[Symbol] \in JobRec /\ job[Symbol].qty \in Int
  BY Names DEF TradeInv, Shape, JobRec
<1>2. CASE SymbolPlaces
  <2>1. /\ at[Symbol] = "placing" /\ at' = [at EXCEPT ![Symbol] = "waiting"]
        /\ ib' = Placed(Symbol, Magnitude(job[Symbol].qty))
        /\ UNCHANGED <<asked, view, told, wire, rec, trade, job>>
    BY <1>2, Zenon DEF SymbolPlaces, Goes
  <2>2. ib[Symbol].st = "none" /\ Symbol \notin Legs /\ (\A d \in Closes : Symbol # Cross(d))
    BY <2>1, Names DEF TradeInv, Fresh
  <2>3. Magnitude(job[Symbol].qty) \in Nat
    BY <1>1 DEF Magnitude
  <2>4. "waiting" \in Stages /\ "waiting" \notin Unsent
    BY DEF Stages, Unsent
  <2>5. at'[Symbol] = "waiting"
    BY <1>1, <2>1
  <2>6. ~ Uncrossed(Symbol)'
    BY <2>5 DEF Uncrossed, Unsent
  <2> QED BY <1>1, <2>1, <2>2, <2>3, <2>4, <2>6, PlacedKeeps
<1>3. CASE SymbolBegins
  <2>1. PICK cached \in Position .. Entry :
           /\ job' = [job EXCEPT ![Symbol].todo = Working, ![Symbol].qty = cached]
           /\ at' = [at EXCEPT ![Symbol] = IF cached = 0 THEN Swept(Working) ELSE "placing"]
    BY <1>3, Zenon DEF SymbolBegins
  <2>2. at[Symbol] = "idle" /\ UNCHANGED <<ib, view, told, wire, asked, rec, trade>>
    BY <1>3, Zenon DEF SymbolBegins, Reads, Silent, ibVars
  <2>3. cached \in Int /\ Working \subseteq Orders
    BY DEF Working
  <2> DEFINE j == [job[Symbol] EXCEPT !.todo = Working, !.qty = cached]
  <2>4. j \in JobRec /\ job' = [job EXCEPT ![Symbol] = j]
    BY <1>1, <2>1, <2>3 DEF JobRec
  <2> HIDE DEF j
  <2>5. job' \in [Commands -> JobRec] /\ \A d \in Commands \ {Symbol} : job'[d] = job[d]
    BY <1>1, <2>4
  <2>6. (IF cached = 0 THEN Swept(Working) ELSE "placing") \in Stages
    BY DEF Swept, Stages, Ended
  <2>7. at' \in [Commands -> Stages] /\ \A d \in Commands \ {Symbol} : at'[d] = at[d]
    BY <1>1, <2>1, <2>6
  <2> QED BY <1>1, <2>2, <2>5, <2>7, CommandKeeps
<1>4. CASE SymbolEnds
  <2>1. /\ at[Symbol] = "waiting"
        /\ rec' = rec \/ rec' = [rec EXCEPT ![Symbol] = view[Symbol].filled]
        /\ \E a \in {"left", Swept(job[Symbol].todo)} : at' = [at EXCEPT ![Symbol] = a]
    BY <1>4, Zenon DEF SymbolEnds
  <2>2. UNCHANGED <<ib, view, told, wire, asked, job, trade>>
    BY <1>4, Zenon DEF SymbolEnds, Reads, ibVars
  <2>3. view[Symbol].filled \in Nat
    BY <1>1, OneBefore
  <2>4. rec' \in [Orders -> Nat] /\ \A o \in Orders \ {Symbol} : rec'[o] = rec[o]
    BY <1>1, <2>1, <2>3
  <2>5. Swept(job[Symbol].todo) \in {"done", "legs"}
    BY DEF Swept
  <2>6. PICK a \in {"left", "done", "legs"} : at' = [at EXCEPT ![Symbol] = a]
    BY <2>1, <2>5
  <2>7. /\ at' \in [Commands -> Stages] /\ \A d \in Commands \ {Symbol} : at'[d] = at[d]
        /\ at'[Symbol] = a
    BY <1>1, <2>6 DEF Stages, Ended
  <2> QED BY <1>1, <2>2, <2>4, <2>6, <2>7, CommandKeeps
<1>5. CASE SymbolRaises
  <2>1. /\ at' = [at EXCEPT ![Symbol] = "raised"]
        /\ UNCHANGED <<ib, view, told, wire, asked, job, rec, trade>>
    BY <1>5, Zenon DEF SymbolRaises, Goes, Reads, Silent, ibVars
  <2>2. /\ at' \in [Commands -> Stages] /\ \A d \in Commands \ {Symbol} : at'[d] = at[d]
        /\ at'[Symbol] = "raised"
    BY <1>1, <2>1 DEF Stages, Ended
  <2> QED BY <1>1, <2>1, <2>2, CommandKeeps
<1> QED BY <1>2, <1>3, <1>4, <1>5 DEF SymbolStep

(* So every step keeps the invariant.                                      *)
LEMMA TradeKeeps == ASSUME TradeInv, [Next]_vars PROVE TradeInv'
<1>1. ASSUME NEW c \in Closes, CloseStep(c) PROVE TradeInv'
  <2>1. \/ Begin(c) \/ Waits(c) \/ Outcomes(c) \/ Place(c) \/ Crosses(c)
    BY <1>1, Zenon DEF CloseStep, Waits, Outcomes
  <2> QED BY <2>1, BeginKeeps, WaitsKeep, OutcomesKeep, CloseSendsKeep
<1>2. ASSUME NEW leg \in Legs, LegStep(leg) PROVE TradeInv'
  <2>1. leg \in Orders
    BY Names
  <2> QED BY <1>2, <2>1, IBKeeps, AutonomousKeeps DEF LegStep, AtIB
<1>3. ASSUME NEW o \in Orders, IBStep(o) PROVE TradeInv'
  BY <1>3, IBKeeps DEF AtIB
<1>4. CASE UNCHANGED vars
  <2>1. UNCHANGED <<ib, asked, view, told, at, job, wire, rec, trade>>
    BY <1>4, Zenon DEF vars, ibVars, tradeVars
  <2>2. Shape' /\ Trails' /\ Wired' /\ Fresh' /\ Sizes'
    BY <2>1 DEF TradeInv, Shape, Trails, Wired, Fresh, Sizes, Current, Uncrossed
  <2>3. Carried' /\ ClosedIsFlat'
    BY <2>1 DEF TradeInv, Carried, ClosedIsFlat, Executed
  <2> QED BY <2>2, <2>3 DEF TradeInv
<1> QED BY <1>1, <1>2, <1>3, <1>4, CancelsKeep, SymbolKeeps DEF Next

(* A trade is marked CLOSED only when IB has executed exits for all of it: *)
(* the rows the engine adds up are of executed lots, whichever coroutine   *)
(* wrote them. engine/order.py:3423-3434, 3600-3618                        *)
THEOREM ClosedTradesAreFlat == Spec => []ClosedIsFlat
<1>1. TradeInv /\ [Next]_vars => TradeInv'
  BY TradeKeeps
<1>2. TradeInv => ClosedIsFlat
  BY DEF TradeInv
<1> QED BY TradeStarts, <1>1, <1>2, PTL DEF Spec

(***************************************************************************)
(* The protection: only the sweep of a close by symbol takes legs back.    *)
(***************************************************************************)
(* A sweep begins when the order of the symbol has executed, or when there *)
(* is no position, and has noted no order that it placed itself; no close  *)
(* by serial asks for another order than its own.                          *)
Kept ==
    /\ asked \cap Legs # {} /\ job[Symbol].qty # 0 => ib[Symbol].exec > 0
    /\ at[Symbol] \in {"legs", "leg"} /\ job[Symbol].qty # 0 => ib[Symbol].exec > 0
    /\ at[Symbol] = "idle" => asked \cap Legs = {}
    /\ Symbol \notin asked /\ Symbol \notin job[Symbol].todo
    /\ at[Symbol] = "leg" => job[Symbol].leg # Symbol

(* Before the commands nothing is asked for.                               *)
LEMMA KeptStarts == Init => Kept
<1> SUFFICES ASSUME Init PROVE Kept
  OBVIOUS
<1>1. asked = {} /\ at[Symbol] = "idle" /\ job[Symbol] = NoJob
  BY Names DEF Init
<1> QED BY <1>1 DEF Kept, NoJob

(* Steps of a close leave the others alone, and ask for its own order.     *)
LEMMA CloseIsItsOwn ==
    ASSUME TradeInv, NEW c \in Closes, CloseStep(c) \/ CancelStep(c)
    PROVE  /\ \A d \in Commands \ {c} : at'[d] = at[d] /\ job'[d] = job[d]
           /\ \A o \in Orders \ {c, Cross(c)} : ib'[o] = ib[o]
           /\ \A o \in Orders \ {c} : rec'[o] = rec[o]
           /\ asked' \in {asked, AskedToCancel(c)}
<1>1. /\ job \in [Commands -> JobRec] /\ at \in [Commands -> Stages] /\ ib \in [Orders -> OrderRec]
      /\ rec \in [Orders -> Nat] /\ c \in Commands /\ c # Symbol
  BY Names DEF TradeInv, Shape
<1>2. \E a : at' = [at EXCEPT ![c] = a]
  <2> USE Zenon DEF Goes
  <2>1. CASE Begin(c) BY <2>1 DEF Begin
  <2>2. CASE AlreadyClosed(c) BY <2>2 DEF AlreadyClosed
  <2>3. CASE Place(c) BY <2>3 DEF Place
  <2>4. CASE Waits(c) BY <2>4 DEF Waits, AlreadyClosed, PlaceRaises, Acked, NotAcked, WalkEnds,
          WalkCapped, CrossFails, RepriceRaises, Asks, Cancelling
  <2>5. CASE Crosses(c) BY <2>5 DEF Crosses
  <2>6. CASE Outcomes(c)
    BY <2>6 DEF Outcomes, Check, WalkExpires, Crossed, Outcome, Settles, Resolve, Dispatch,
                CloseFill, ClosePartial, ToCancel, ResolvedCross, ResolvedPartial
  <2>7. CASE CancelStep(c) BY <2>7 DEF CancelStep, CancelLeg, LegCancelled, LegRaises
  <2> QED BY <2>1, <2>2, <2>3, <2>4, <2>5, <2>6, <2>7 DEF CloseStep, Waits, Outcomes
<1>3. \A d \in Commands \ {c} : job'[d] = job[d]
  <2>1. CASE UNCHANGED job
    BY <2>1
  <2>2. CASE Begin(c)
    <3>1. \E j : job' = [job EXCEPT ![c] = j]
      BY <2>2, Zenon DEF Begin
    <3> QED BY <1>1, <3>1
  <2>3. CASE NotAcked(c)
    <3>1. \E b : job' = [job EXCEPT ![c].lost = b]
      BY <2>3, Zenon DEF NotAcked
    <3> QED BY <1>1, <3>1
  <2>4. CASE Outcomes(c)
    <3>1. \/ UNCHANGED job
          \/ \E b : job' = [job EXCEPT ![c].lost = b]
          \/ \E w, h : job' = [job EXCEPT ![c].why = w, ![c].had = h]
          \/ \E g, b : job' = [job EXCEPT ![c].got = g, ![c].lost = b]
      <4>1. CASE Resolve(c)
        <5>1. CASE ResolvedCross(c)
          BY <5>1, Zenon DEF ResolvedCross
        <5>2. CASE ResolvedPartial(c)
          <6>1. job' = [job EXCEPT ![c].lost = job[c].lost \/ Resolution(c) = "timeout"]
            BY <5>2 DEF ResolvedPartial
          <6> QED BY <6>1, Zenon
        <5> QED BY <4>1, <5>1, <5>2, Zenon DEF Resolve
      <4> QED BY <2>4, <4>1, Zenon DEF Outcomes, Check, WalkExpires, Crossed, Outcome, Settles,
                  Dispatch, ToCancel
    <3> QED BY <1>1, <3>1
  <2>5. CASE CancelLeg(c)
    <3>1. \E l, t : job' = [job EXCEPT ![c].leg = l, ![c].todo = t]
      BY <2>5 DEF CancelLeg
    <3> QED BY <1>1, <3>1
  <2>6. Waits(c) /\ ~ NotAcked(c) => UNCHANGED job
    BY Zenon DEF Waits, AlreadyClosed, PlaceRaises, Acked, WalkEnds, WalkCapped, CrossFails,
                 RepriceRaises, Asks, Cancelling
  <2>7. Place(c) \/ Crosses(c) \/ LegCancelled(c) \/ LegRaises(c) => UNCHANGED job
    BY Zenon DEF Place, Crosses, LegCancelled, LegRaises
  <2> QED BY <2>1, <2>2, <2>3, <2>4, <2>5, <2>6, <2>7, Zenon
          DEF CloseStep, Waits, Outcomes, CancelStep
<1>4. \A o \in Orders \ {c, Cross(c)} : ib'[o] = ib[o]
  <2>1. ib' = ib \/ (\E n : ib' = Placed(c, n)) \/ (\E n : ib' = Placed(Cross(c), n))
    <3>1. Outcomes(c) => ib' = ib
      BY Zenon DEF Outcomes, Check, WalkExpires, Crossed, Outcome, Settles, Resolve, Reads, ibVars
    <3>2. Waits(c) \/ Begin(c) \/ CancelStep(c) => ib' = ib
      BY Zenon DEF Waits, AlreadyClosed, PlaceRaises, Acked, NotAcked, WalkEnds, WalkCapped,
                   CrossFails, RepriceRaises, Asks, Cancelling, Begin, CancelStep, CancelLeg,
                   LegCancelled, LegRaises, Reads, ibVars
    <3>3. Place(c) => \E n : ib' = Placed(c, n)
      BY Zenon DEF Place
    <3>4. Crosses(c) => \E n : ib' = Placed(Cross(c), n)
      BY Zenon DEF Crosses
    <3> QED BY <3>1, <3>2, <3>3, <3>4, Zenon DEF CloseStep, Waits, Outcomes
  <2> QED BY <1>1, <2>1 DEF Placed
<1>5. asked' \in {asked, AskedToCancel(c)}
  <2>1. Outcomes(c) \/ Begin(c) \/ Place(c) \/ Crosses(c) => asked' = asked
    BY Zenon DEF Outcomes, Check, WalkExpires, Crossed, Outcome, Settles, Resolve, Reads, ibVars,
                 Begin, Place, Crosses
  <2>2. Waits(c) => asked' \in {asked, AskedToCancel(c)}
    BY Zenon DEF Waits, AlreadyClosed, PlaceRaises, Acked, NotAcked, WalkEnds, WalkCapped,
                 CrossFails, RepriceRaises, Asks, Cancelling, Reads, ibVars
  <2>3. CancelStep(c) => asked' = asked
    <3>1. ~ PassesText(c)
      BY <1>1 DEF PassesText
    <3> QED BY <3>1, Zenon DEF CancelStep, CancelLeg, LegCancelled, LegRaises, Reads, ibVars
  <2> QED BY <2>1, <2>2, <2>3, Zenon DEF CloseStep, Waits, Outcomes
<1>6. \A o \in Orders \ {c} : rec'[o] = rec[o]
  <2>1. rec' = rec \/ \E q : rec' = [rec EXCEPT ![c] = q]
    <3>1. Outcomes(c) => rec' = rec \/ \E q : rec' = [rec EXCEPT ![c] = q]
      BY Zenon DEF Outcomes, Check, WalkExpires, Crossed, Outcome, Settles, Resolve, Dispatch,
                   CloseFill, ClosePartial, ToCancel, ResolvedCross, ResolvedPartial, Silent
    <3>2. Waits(c) \/ Begin(c) \/ CancelStep(c) \/ Place(c) \/ Crosses(c) => rec' = rec
      BY Zenon DEF Waits, AlreadyClosed, PlaceRaises, Acked, NotAcked, WalkEnds, WalkCapped,
                   CrossFails, RepriceRaises, Asks, Cancelling, Begin, CancelStep, CancelLeg,
                   LegCancelled, LegRaises, Silent, Place, Crosses
    <3> QED BY <3>1, <3>2, Zenon DEF CloseStep, Waits, Outcomes
  <2> QED BY <1>1, <2>1
<1> QED BY <1>1, <1>2, <1>3, <1>4, <1>5, <1>6

(* Every step keeps the legs protected.                                    *)
LEMMA KeptKeeps == ASSUME TradeInv, Kept, [Next]_vars PROVE Kept'
<1>1. /\ job \in [Commands -> JobRec] /\ at \in [Commands -> Stages] /\ ib \in [Orders -> OrderRec]
      /\ Symbol \in Commands /\ Symbol \in Orders /\ Symbol \notin Closes /\ Symbol \notin Legs
      /\ ib[Symbol].exec \in Nat /\ Closes \cap Legs = {}
  BY Names DEF TradeInv, Shape, OrderRec
<1>2. ASSUME NEW c \in Closes, CloseStep(c) \/ CancelStep(c) PROVE Kept'
  <2>1. /\ at'[Symbol] = at[Symbol] /\ job'[Symbol] = job[Symbol] /\ ib'[Symbol] = ib[Symbol]
        /\ asked' \subseteq asked \cup {c}
    BY <1>1, <1>2, CloseIsItsOwn, Names DEF AskedToCancel
  <2> QED BY <1>1, <2>1 DEF Kept
<1>3. ASSUME NEW o \in Orders, AtIB(o) PROVE Kept'
  <2>1. OneOrder(o) /\ asked' = asked
    BY <1>3, IBIsOne
  <2>2. at' = at /\ job' = job
    BY <1>3, IBSends DEF Statements
  <2>3. ib'[Symbol].exec \in Nat /\ ib'[Symbol].exec >= ib[Symbol].exec
    BY <1>1, <2>1 DEF OneOrder, OrderRec
  <2>4. ib[Symbol].exec > 0 => ib'[Symbol].exec > 0
    BY <1>1, <2>3
  <2> QED BY <2>1, <2>2, <2>4 DEF Kept
<1>4. ASSUME NEW leg \in Legs, Autonomous(leg) PROVE Kept'
  <2>1. UNCHANGED <<ib, asked, at, job>>
    BY <1>4, Zenon DEF Autonomous, ibVars
  <2> QED BY <2>1 DEF Kept
<1>5. CASE UNCHANGED vars
  <2>1. UNCHANGED <<ib, asked, at, job>>
    BY <1>5, Zenon DEF vars, ibVars, tradeVars
  <2> QED BY <2>1 DEF Kept
<1>6. CASE CancelLeg(Symbol)
  <2>1. /\ at[Symbol] = "legs" /\ at' = [at EXCEPT ![Symbol] = "leg"] /\ UNCHANGED <<ib, asked>>
    BY <1>6, Zenon DEF CancelLeg, Goes, Reads, ibVars
  <2>2. PICK leg \in job[Symbol].todo :
           job' = [job EXCEPT ![Symbol].leg = leg, ![Symbol].todo = job[Symbol].todo \ {leg}]
    BY <1>6 DEF CancelLeg
  <2>3. /\ job'[Symbol].leg = leg /\ job'[Symbol].todo = job[Symbol].todo \ {leg}
        /\ job'[Symbol].qty = job[Symbol].qty
    BY <1>1, <2>2 DEF JobRec
  <2>4. at'[Symbol] = "leg"
    BY <1>1, <2>1
  <2> QED BY <2>1, <2>2, <2>3, <2>4 DEF Kept
<1>7. CASE LegCancelled(Symbol)
  <2>1. /\ at[Symbol] = "leg" /\ at' = [at EXCEPT ![Symbol] = After(Symbol)]
        /\ UNCHANGED <<ib, job>>
        /\ asked' \in {asked, AskedToCancel(job[Symbol].leg)}
    BY <1>7, Zenon DEF LegCancelled, Goes
  <2>2. asked' \subseteq asked \cup {job[Symbol].leg}
    BY <2>1 DEF AskedToCancel
  <2>3. After(Symbol) \in {"done", "legs"}
    BY DEF After, OnTo
  <2>4. at'[Symbol] \in {"done", "legs"}
    BY <1>1, <2>1, <2>3
  <2> QED BY <2>1, <2>2, <2>4 DEF Kept
<1>8. CASE LegRaises(Symbol)
  <2>1. /\ at[Symbol] = "leg" /\ at' = [at EXCEPT ![Symbol] = After(Symbol)]
        /\ UNCHANGED <<ib, job, asked>>
    BY <1>8, Zenon DEF LegRaises, Goes, Reads, ibVars
  <2>2. After(Symbol) \in {"done", "legs"}
    BY DEF After, OnTo
  <2>3. at'[Symbol] \in {"done", "legs"}
    BY <1>1, <2>1, <2>2
  <2> QED BY <2>1, <2>3 DEF Kept
<1>9. CASE SymbolBegins
  <2>1. PICK cached \in Position .. Entry :
           /\ job' = [job EXCEPT ![Symbol].todo = Working, ![Symbol].qty = cached]
           /\ at' = [at EXCEPT ![Symbol] = IF cached = 0 THEN Swept(Working) ELSE "placing"]
    BY <1>9, Zenon DEF SymbolBegins
  <2>2. at[Symbol] = "idle" /\ UNCHANGED <<ib, asked>>
    BY <1>9, Zenon DEF SymbolBegins, Reads, ibVars
  <2>3. Symbol \notin Working
    BY <2>2 DEF TradeInv, Fresh, Working, IsOpen, Open
  <2>4. job'[Symbol].todo = Working /\ job'[Symbol].qty = cached
    BY <1>1, <2>1 DEF JobRec
  <2>5. at'[Symbol] = IF cached = 0 THEN Swept(Working) ELSE "placing"
    BY <1>1, <2>1
  <2>6. Swept(Working) \in {"done", "legs"}
    BY DEF Swept
  <2> QED BY <2>2, <2>3, <2>4, <2>5, <2>6 DEF Kept
<1>10. CASE SymbolPlaces
  <2>1. /\ at[Symbol] = "placing" /\ at' = [at EXCEPT ![Symbol] = "waiting"]
        /\ ib' = Placed(Symbol, Magnitude(job[Symbol].qty)) /\ UNCHANGED <<asked, job>>
    BY <1>10, Zenon DEF SymbolPlaces, Goes
  <2>2. ib[Symbol].exec = 0
    BY <1>1, <2>1 DEF TradeInv, Fresh, Trails
  <2>3. at'[Symbol] = "waiting"
    BY <1>1, <2>1
  <2> QED BY <2>1, <2>2, <2>3 DEF Kept
<1>11. CASE SymbolEnds
  <2>1. /\ at[Symbol] = "waiting" /\ UNCHANGED <<ib, asked, job>>
        /\ \/ /\ view[Symbol].filled > 0
              /\ at' = [at EXCEPT ![Symbol] = Swept(job[Symbol].todo)]
           \/ at' = [at EXCEPT ![Symbol] = "left"]
    BY <1>11, Zenon DEF SymbolEnds, Reads, ibVars
  <2>2. view[Symbol].filled > 0 => ib[Symbol].exec > 0
    BY <1>1, OneBefore
  <2>3. at'[Symbol] \in {"done", "legs", "left"} /\ (at'[Symbol] # "left" => view[Symbol].filled > 0)
    BY <1>1, <2>1 DEF Swept
  <2> QED BY <2>1, <2>2, <2>3 DEF Kept
<1>12. CASE SymbolRaises
  <2>1. /\ UNCHANGED <<ib, asked, job>> /\ at' = [at EXCEPT ![Symbol] = "raised"]
    BY <1>12, Zenon DEF SymbolRaises, Goes, Reads, ibVars
  <2>2. at'[Symbol] = "raised"
    BY <1>1, <2>1
  <2> QED BY <2>1, <2>2 DEF Kept
<1>13. \A c \in Commands : CancelStep(c) => Kept'
  BY <1>2, <1>6, <1>7, <1>8 DEF CancelStep, Commands
<1>14. \A leg \in Legs : LegStep(leg) => Kept'
  BY <1>3, <1>4, Names DEF LegStep, AtIB
<1> QED BY <1>2, <1>3, <1>5, <1>9, <1>10, <1>11, <1>12, <1>13, <1>14 DEF Next, SymbolStep, AtIB

(* A close by symbol takes the exit legs back only when it has executed,   *)
(* or found nothing to protect, and never its own order, whatever closes   *)
(* by serial run beside it. engine/order.py:3794-3803, 3890-3907           *)
THEOREM LegsAreKept == Spec => []ProtectionIsKept
<1>1. TradeInv /\ Kept /\ [Next]_vars => (TradeInv /\ Kept)'
  BY TradeKeeps, KeptKeeps
<1>2. Kept => ProtectionIsKept
  BY DEF Kept, ProtectionIsKept
<1> QED BY TradeStarts, KeptStarts, <1>1, <1>2, PTL DEF Spec

(***************************************************************************)
(* The row of a close, while nobody closes the symbol.                     *)
(***************************************************************************)
(* Where nobody has asked for a cancel of the close's order yet.           *)
Quiet == Unsent \cup {"acking", "checking", "waiting", "asking"}

(* A close that does not walk has one order, of its quantity, which IB     *)
(* ends before it is filled only when it is asked to, or has not begun;    *)
(* the row is written once, when the order can execute no more.            *)
Exact(c) ==
    /\ at[c] = "idle" => job[c].strat = "none"
    /\ job[c].strat # "smart" =>
          /\ at[c] \notin {"walking", "crossing", "crossed"} /\ job[c].why # "cross"
          /\ ib[Cross(c)].st = "none"
          /\ at[c] \notin Ended => rec[c] = 0
          /\ at[c] \in Quiet => c \notin asked
          /\ ib[c].st # "none" => ib[c].size = job[c].qty
          /\ c \notin asked /\ ib[c].st \in {"cancelled", "inactive"} => ib[c].exec = 0
          /\ at[c] = "done" /\ ~ job[c].lost =>
                rec[c] = ib[c].exec /\ (~ IsOpen(c) \/ ib[c].exec = ib[c].size)

ExactInv == at[Symbol] = "idle" => \A c \in Closes : Exact(c)

(* Before the commands there are no rows.                                  *)
LEMMA ExactStarts == Init => ExactInv
<1> SUFFICES ASSUME Init, NEW c \in Closes PROVE Exact(c)
  BY DEF ExactInv
<1>1. TradeInv
  BY TradeStarts
<1>2. /\ at[c] = "idle" /\ job[c] = NoJob /\ rec[c] = 0 /\ asked = {}
  BY Names DEF Init
<1>3. ib[c].st = "none" /\ ib[Cross(c)].st = "none"
  BY <1>1, <1>2 DEF TradeInv, Fresh, Uncrossed, Unsent
<1> QED BY <1>2, <1>3 DEF Exact, NoJob, Ended

(* What such a close knows when it ends.                                   *)
LEMMA ExactReads ==
    ASSUME TradeInv, NEW c \in Closes, Exact(c), job[c].strat # "smart"
    PROVE  /\ Executed(c) = ib[c].exec /\ ib[c].exec \in Nat
           /\ ib[c].st # "none" => ib[c].exec <= job[c].qty
           /\ ib[c].st = "none" => ib[c].exec = 0
           /\ view[c].st \in Refused =>
                 /\ view[c].filled = ib[c].exec
                 /\ ib[c].st \in {"cancelled", "inactive"} /\ ~ IsOpen(c)
           /\ \A q \in Nat : q <= ib[c].exec /\ q >= job[c].qty =>
                 q = ib[c].exec /\ (ib[c].exec = ib[c].size \/ ~ IsOpen(c))
<1>1. c \in Orders /\ Cross(c) \in Orders
  BY Names
<1>2. ib[Cross(c)].exec = 0 /\ ib[c].exec \in Nat /\ ib[c].exec <= ib[c].size
      /\ ib[c].size \in Nat /\ (ib[c].st = "none" => ib[c].exec = 0) /\ ib[c] \in OrderRec
  BY <1>1, OneBefore DEF Exact
<1>3. Executed(c) = ib[c].exec
  BY <1>2 DEF Executed
<1>4. ASSUME view[c].st \in Refused
      PROVE  /\ view[c].filled = ib[c].exec
             /\ ib[c].st \in {"cancelled", "inactive"} /\ ~ IsOpen(c)
  <2>1. view[c].filled = ib[c].exec /\ Shown(ib[c].st) \in Refused
    <3>1. view[c] = Current(c)
      BY <1>1, <1>4, OneBefore DEF Terminal
    <3>2. Current(c).st = Shown(ib[c].st) /\ Current(c).filled = ib[c].exec
      BY DEF Current
    <3> QED BY <1>4, <3>1, <3>2
  <2>2. ASSUME NEW st \in {"none"} \cup Open \cup Over, Shown(st) \in Refused
        PROVE  st \in {"cancelled", "inactive"}
    <3>1. CASE st = "none" BY <2>2, <3>1 DEF Shown, Refused
    <3>2. CASE st \in Open BY <2>2, <3>2, OpenShows DEF Terminal
    <3>3. CASE st = "filled" BY <2>2, <3>3 DEF Shown, Refused
    <3> QED BY <3>1, <3>2, <3>3 DEF Over
  <2>3. ib[c].st \in {"cancelled", "inactive"}
    BY <1>2, <2>1, <2>2 DEF OrderRec
  <2> QED BY <2>1, <2>3 DEF IsOpen, Open
<1>5. job[c].qty \in Nat
  BY CloseReads
<1>6. ib[c].st # "none" => ib[c].size = job[c].qty
  BY DEF Exact
<1>7. ib[c].st = "none" => ~ IsOpen(c)
  BY DEF IsOpen, Open
<1>8. ASSUME NEW q \in Nat, q <= ib[c].exec, q >= job[c].qty
      PROVE  q = ib[c].exec /\ (ib[c].exec = ib[c].size \/ ~ IsOpen(c))
  <2>1. CASE ib[c].st = "none"
    BY <1>2, <1>7, <1>8, <2>1
  <2>2. CASE ib[c].st # "none"
    <3>1. ib[c].size = job[c].qty
      BY <1>6, <2>2
    <3> QED BY <1>2, <1>5, <1>8, <3>1
  <2> QED BY <2>1, <2>2
<1>9. ib[c].st # "none" => ib[c].exec <= job[c].qty
  BY <1>2, <1>6, Zenon
<1> QED BY <1>2, <1>3, <1>4, <1>8, <1>9

(* What a step of the close itself has to answer for, unless it sends.     *)
LEMMA ExactSteps ==
    ASSUME TradeInv, NEW c \in Closes, Exact(c), ib' = ib, asked' \in {asked, AskedToCancel(c)},
           at'[c] # "idle", job'[c].strat = job[c].strat, job'[c].qty = job[c].qty,
           job[c].strat # "smart" =>
              /\ at'[c] \notin {"walking", "crossing", "crossed"} /\ job'[c].why # "cross"
              /\ at'[c] \notin Ended => rec'[c] = 0
              /\ at'[c] \in Quiet => c \notin asked'
              /\ at'[c] = "done" /\ ~ job'[c].lost =>
                    rec'[c] = ib[c].exec /\ (~ IsOpen(c) \/ ib[c].exec = ib[c].size)
    PROVE  Exact(c)'
<1>1. asked \subseteq asked'
  BY DEF AskedToCancel
<1> QED BY <1>1 DEF Exact, IsOpen

(* The steps by which it takes legs back, waits and begins.                *)
LEMMA ExactCancels ==
    ASSUME TradeInv, NEW c \in Closes, Exact(c), CancelStep(c)
    PROVE  Exact(c)'
<1>1. /\ job \in [Commands -> JobRec] /\ at \in [Commands -> Stages] /\ job[c] \in JobRec
      /\ c \in Commands /\ ~ PassesText(c)
  BY Names DEF TradeInv, Shape, PassesText
<1>2. UNCHANGED <<ib, asked, rec>> /\ at[c] \in {"legs", "leg"}
  BY <1>1, Zenon DEF CancelStep, CancelLeg, LegCancelled, LegRaises, Goes, Reads, Silent, ibVars
<1>3. \/ job' = job
      \/ \E l, t : job' = [job EXCEPT ![c].leg = l, ![c].todo = t]
  <2>1. CASE CancelLeg(c)
    BY <2>1 DEF CancelLeg
  <2> QED BY <2>1, Zenon DEF CancelStep, LegCancelled, LegRaises
<1>4. job'[c].strat = job[c].strat /\ job'[c].qty = job[c].qty /\ job'[c].why = job[c].why
  <2>1. ASSUME NEW l, NEW t, job' = [job EXCEPT ![c].leg = l, ![c].todo = t]
        PROVE  job'[c] = [job[c] EXCEPT !.leg = l, !.todo = t]
    BY <1>1, <2>1
  <2>2. CASE job' = job
    BY <2>2
  <2>3. CASE \E l, t : job' = [job EXCEPT ![c].leg = l, ![c].todo = t]
    <3>1. PICK l, t : job' = [job EXCEPT ![c].leg = l, ![c].todo = t]
      BY <2>3
    <3>2. job'[c] = [job[c] EXCEPT !.leg = l, !.todo = t]
      BY <2>1, <3>1
    <3> QED BY <1>1, <3>2 DEF JobRec
  <2> QED BY <1>3, <2>2, <2>3
<1>5. After(c) \in {"done", "placing", "legs"} /\ After(c) # "done"
  BY <1>1, Names DEF After, OnTo
<1>6. \E a \in {"leg", "raised", After(c)} : at' = [at EXCEPT ![c] = a]
  BY Zenon DEF CancelStep, CancelLeg, LegCancelled, LegRaises, Goes
<1>7. at'[c] \in {"leg", "raised", "placing", "legs"}
  BY <1>1, <1>5, <1>6
<1>8. at[c] \in Quiet /\ at[c] \notin Ended
  BY <1>2 DEF Quiet, Unsent, Ended
<1>9. job[c].strat # "smart" => job[c].why # "cross" /\ rec[c] = 0 /\ c \notin asked
  BY <1>8 DEF Exact
<1> QED BY <1>2, <1>4, <1>7, <1>9, ExactSteps

(* Those that wait: a refusal that it sees has executed nothing.           *)
LEMMA ExactWaits ==
    ASSUME TradeInv, NEW c \in Closes, Exact(c), Waits(c)
    PROVE  Exact(c)'
<1>1. /\ job \in [Commands -> JobRec] /\ at \in [Commands -> Stages] /\ job[c] \in JobRec
      /\ c \in Commands
  BY Names DEF TradeInv, Shape
<1>2. UNCHANGED <<ib, rec>>
  BY Zenon DEF Waits, AlreadyClosed, PlaceRaises, Acked, NotAcked, WalkEnds, WalkCapped,
               CrossFails, RepriceRaises, Asks, Cancelling, Reads, Silent, ibVars
<1>3. CASE AlreadyClosed(c)
  <2>1. at[c] = "idle" /\ at' = [at EXCEPT ![c] = "done"] /\ UNCHANGED <<job, asked>>
    BY <1>3, Zenon DEF AlreadyClosed, Goes, Reads, ibVars
  <2>2. at'[c] = "done"
    BY <1>1, <2>1
  <2>3. ib[c].st = "none" /\ ib[c].exec = 0 /\ ~ IsOpen(c)
    BY <2>1, Names DEF TradeInv, Fresh, Unsent, Trails, IsOpen, Open
  <2>4. rec[c] = 0 /\ job[c].why # "cross"
    BY <2>1 DEF Exact, Ended
  <2>5. "done" \in Ended /\ "done" \notin Quiet
    BY DEF Ended, Quiet, Unsent
  <2> QED BY <1>2, <2>1, <2>2, <2>3, <2>4, <2>5, ExactSteps
<1>4. CASE NotAcked(c)
  <2>1. /\ at[c] = "acking" /\ at' = [at EXCEPT ![c] = "done"] /\ asked' = AskedToCancel(c)
        /\ job' = [job EXCEPT ![c].lost = view[c].st \in Pending]
        /\ view[c].st \in Pending \cup Refused
    BY <1>4, Zenon DEF NotAcked, Goes
  <2>2. /\ at'[c] = "done" /\ job'[c].strat = job[c].strat /\ job'[c].qty = job[c].qty
        /\ job'[c].why = job[c].why /\ (~ job'[c].lost => view[c].st \notin Pending)
    BY <1>1, <2>1 DEF JobRec
  <2>3. ASSUME job[c].strat # "smart"
        PROVE  rec[c] = 0 /\ job[c].why # "cross" /\ c \notin asked
               /\ (ib[c].st \in {"cancelled", "inactive"} => ib[c].exec = 0)
    BY <2>1, <2>3 DEF Exact, Ended, Quiet
  <2>4. job[c].strat # "smart" /\ ~ job'[c].lost => ib[c].exec = 0 /\ ~ IsOpen(c)
    BY <2>1, <2>2, <2>3, ExactReads
  <2>5. "done" \in Ended /\ "done" \notin Quiet
    BY DEF Ended, Quiet, Unsent
  <2> QED BY <1>2, <2>1, <2>2, <2>3, <2>4, <2>5, ExactSteps
<1>5. CASE ~ AlreadyClosed(c) /\ ~ NotAcked(c)
  <2>1. job' = job /\ at[c] \notin Ended /\ at[c] # "idle"
    BY <1>5, Zenon DEF Waits, PlaceRaises, Acked, WalkEnds, WalkCapped, CrossFails, RepriceRaises,
                       Asks, Cancelling, Goes, Ended
  <2>2. \/ /\ at[c] \in {"acking", "placing"} /\ asked' = asked
           /\ \E a \in {"raised", "checking", "waiting"} : at' = [at EXCEPT ![c] = a]
        \/ at[c] \in {"walking", "crossing"} /\ asked' = asked
           /\ \E a \in {"left", "waiting"} : at' = [at EXCEPT ![c] = a]
        \/ /\ asked' \in {asked, AskedToCancel(c)}
           /\ \E a \in {"raised", "settling", "resolving"} : at' = [at EXCEPT ![c] = a]
        \/ job[c].strat = "smart" /\ asked' = asked /\ at' = [at EXCEPT ![c] = "walking"]
    BY <1>5, Zenon DEF Waits, PlaceRaises, Acked, WalkEnds, WalkCapped, CrossFails, RepriceRaises,
                       Asks, Cancelling, Goes, Reads, ibVars
  <2>3. job[c].strat # "smart" => /\ at[c] \notin {"walking", "crossing", "crossed"}
                                  /\ rec[c] = 0 /\ job[c].why # "cross"
                                  /\ at[c] \in Quiet => c \notin asked
    BY <2>1 DEF Exact
  <2>4. /\ at'[c] \in {"raised", "checking", "waiting", "settling", "resolving", "left", "walking"}
        /\ asked' \in {asked, AskedToCancel(c)}
        /\ job[c].strat # "smart" =>
              /\ at'[c] # "walking"
              /\ at'[c] \in {"checking", "waiting"} => at[c] \in {"acking", "placing"} /\ asked' = asked
    BY <1>1, <2>2, <2>3
  <2>5. \A a \in {"raised", "settling", "resolving", "left"} : a \notin Quiet
    BY DEF Quiet, Unsent
  <2>6. {"acking", "placing"} \subseteq Quiet
    BY DEF Quiet, Unsent
  <2> QED BY <1>2, <2>1, <2>3, <2>4, <2>5, <2>6, ExactSteps
<1> QED BY <1>3, <1>4, <1>5

(* It begins, and sends its order, with nothing asked for.                 *)
LEMMA ExactBegins ==
    ASSUME TradeInv, NEW c \in Closes, Exact(c), Begin(c) \/ Place(c) \/ Crosses(c)
    PROVE  Exact(c)'
<1>1. /\ job \in [Commands -> JobRec] /\ at \in [Commands -> Stages] /\ job[c] \in JobRec
      /\ ib \in [Orders -> OrderRec] /\ c \in Commands /\ c \in Orders /\ Cross(c) # c
  BY Names DEF TradeInv, Shape
<1>2. CASE Begin(c)
  <2>1. PICK s \in Strategies :
           job' = [job EXCEPT ![c] = [NoJob EXCEPT !.strat = s, !.qty = Left, !.todo = Unfinished]]
    BY <1>2, Zenon DEF Begin
  <2>2. /\ at[c] = "idle" /\ at' = [at EXCEPT ![c] = OnTo(Unfinished)]
        /\ UNCHANGED <<ib, asked, rec>>
    BY <1>2, Zenon DEF Begin, Reads, Silent, ibVars
  <2>3. at'[c] \in {"placing", "legs"}
    BY <1>1, <2>2 DEF OnTo
  <2>4. job'[c].why = "none"
    BY <1>1, <2>1 DEF NoJob
  <2>5. /\ ib[c].st = "none" /\ ib[Cross(c)].st = "none" /\ rec[c] = 0 /\ c \notin asked
    BY <2>2, Names DEF TradeInv, Fresh, Uncrossed, Unsent, Exact, Quiet, Ended
  <2> QED BY <2>2, <2>3, <2>4, <2>5 DEF Exact, Ended
<1>3. CASE Place(c)
  <2>1. /\ at[c] = "placing" /\ ib' = Placed(c, job[c].qty) /\ UNCHANGED <<asked, job, rec>>
        /\ \E a \in {"waiting", "acking"} : at' = [at EXCEPT ![c] = a]
    BY <1>3, Zenon DEF Place
  <2>2. at'[c] \in {"waiting", "acking"}
    BY <1>1, <2>1
  <2>3. ib'[c].st = "sent" /\ ib'[c].size = job[c].qty /\ ib'[Cross(c)] = ib[Cross(c)]
    BY <1>1, <2>1 DEF Placed
  <2>4. at[c] \in Quiet /\ at[c] \notin Ended /\ at'[c] \in Quiet /\ at'[c] \notin Ended
    BY <2>1, <2>2 DEF Quiet, Unsent, Ended
  <2> QED BY <2>1, <2>2, <2>3, <2>4 DEF Exact
<1>4. CASE Crosses(c)
  <2>1. at[c] = "crossing" /\ at' = [at EXCEPT ![c] = "crossed"] /\ UNCHANGED job
    BY <1>4, Zenon DEF Crosses, Goes
  <2>2. at'[c] = "crossed"
    BY <1>1, <2>1
  <2> QED BY <2>1, <2>2 DEF Exact
<1> QED BY <1>2, <1>3, <1>4

(* It has its row: of the lots it knows of, when they are all there is.    *)
LEMMA ExactEnds ==
    ASSUME TradeInv, NEW c \in Closes, Exact(c), at[c] # "idle", UNCHANGED <<ib, asked>>,
           NEW q \in Nat, CloseFill(c, q) \/ ClosePartial(c, q),
           job'[c].strat = job[c].strat, job'[c].qty = job[c].qty, job'[c].why = job[c].why,
           job[c].strat # "smart" /\ ~ job'[c].lost =>
              q = ib[c].exec /\ (~ IsOpen(c) \/ ib[c].exec = ib[c].size)
    PROVE  Exact(c)'
<1>1. at \in [Commands -> Stages] /\ rec \in [Orders -> Nat] /\ c \in Commands /\ c \in Orders
  BY Names DEF TradeInv, Shape
<1>2. at' = [at EXCEPT ![c] = "done"] /\ rec' = [rec EXCEPT ![c] = q]
  BY Zenon DEF CloseFill, ClosePartial
<1>3. at'[c] = "done" /\ rec'[c] = q
  BY <1>1, <1>2
<1>4. "done" \in Ended /\ "done" \notin Quiet
  BY DEF Ended, Quiet, Unsent
<1>5. job[c].strat # "smart" => job[c].why # "cross"
  BY DEF Exact
<1> QED BY <1>3, <1>4, <1>5, ExactSteps

(* A fill that is enough is all of the order; one that is not is cancelled.*)
LEMMA ExactDispatch ==
    ASSUME TradeInv, NEW c \in Closes, Exact(c), at[c] # "idle", at[c] \notin Ended,
           UNCHANGED <<ib, asked>>, NEW q \in Nat, job[c].strat # "smart" => q <= ib[c].exec,
           Dispatch(c, q)
    PROVE  Exact(c)'
<1>1. /\ job \in [Commands -> JobRec] /\ at \in [Commands -> Stages] /\ c \in Commands
      /\ job[c] \in JobRec
  BY Names DEF TradeInv, Shape
<1>2. CASE q >= job[c].qty /\ CloseFill(c, q) /\ UNCHANGED job
  <2>1. job[c].strat # "smart" =>
           q = ib[c].exec /\ (~ IsOpen(c) \/ ib[c].exec = ib[c].size)
    BY <1>2, ExactReads
  <2> QED BY <1>2, <2>1, ExactEnds
<1>3. CASE ToCancel(c, "partial", q)
  <2>1. /\ job' = [job EXCEPT ![c].why = "partial", ![c].had = q]
        /\ at' = [at EXCEPT ![c] = "cancelling"] /\ rec' = rec
    BY <1>3, Zenon DEF ToCancel
  <2>2. /\ job'[c].strat = job[c].strat /\ job'[c].qty = job[c].qty /\ job'[c].why = "partial"
    BY <1>1, <2>1 DEF JobRec
  <2>3. at'[c] = "cancelling" /\ "cancelling" \notin Quiet
    BY <1>1, <2>1 DEF Quiet, Unsent
  <2>4. job[c].strat # "smart" => rec[c] = 0
    BY DEF Exact
  <2> QED BY <2>1, <2>2, <2>3, <2>4, ExactSteps
<1> QED BY <1>2, <1>3 DEF Dispatch

(* The steps that look at an outcome.                                      *)
LEMMA ExactOutcomes ==
    ASSUME TradeInv, NEW c \in Closes, Exact(c), Outcomes(c)
    PROVE  Exact(c)'
<1>1. /\ job \in [Commands -> JobRec] /\ at \in [Commands -> Stages] /\ c \in Commands
      /\ job[c] \in JobRec
  BY Names DEF TradeInv, Shape
<1>2. UNCHANGED <<ib, asked>>
  BY Zenon DEF Outcomes, Check, WalkExpires, Crossed, Outcome, Settles, Resolve, Reads, ibVars
<1>3. at[c] \in {"checking", "walking", "crossed", "waiting", "settling", "resolving"}
  BY Zenon DEF Outcomes, Check, WalkExpires, Crossed, Outcome, Settles, Resolve
<1>4. at[c] # "idle" /\ at[c] \notin Ended
  BY <1>3 DEF Ended
<1>5. job[c].strat # "smart" => /\ at[c] \notin {"walking", "crossed"} /\ job[c].why # "cross"
                                /\ rec[c] = 0 /\ (at[c] \in Quiet => c \notin asked)
  BY <1>4 DEF Exact
<1>6. ASSUME NEW a \in {"left", "done", "asking"}, at' = [at EXCEPT ![c] = a], UNCHANGED <<rec>>,
             job' = job \/ (\E b : job' = [job EXCEPT ![c].lost = b]),
             a = "asking" => at[c] = "waiting",
             job[c].strat # "smart" /\ a = "done" /\ ~ job'[c].lost => ib[c].exec = 0 /\ ~ IsOpen(c)
      PROVE  Exact(c)'
  <2>1. at'[c] = a /\ job'[c].strat = job[c].strat /\ job'[c].qty = job[c].qty
        /\ job'[c].why = job[c].why
    BY <1>1, <1>6 DEF JobRec
  <2>2. "left" \notin Quiet /\ "done" \notin Quiet /\ "waiting" \in Quiet
    BY DEF Quiet, Unsent
  <2> QED BY <1>2, <1>5, <1>6, <2>1, <2>2, ExactSteps
<1>7. CASE Check(c)
  <2>1. CASE Heard(c) >= job[c].qty /\ CloseFill(c, Heard(c))
    <3>1. job' = job
      BY <1>7, Zenon DEF Check
    <3>2. job[c].strat # "smart" =>
             Heard(c) = ib[c].exec /\ (~ IsOpen(c) \/ ib[c].exec = ib[c].size)
      BY <2>1, CloseReads, ExactReads
    <3> QED BY <1>2, <1>4, <2>1, <3>1, <3>2, CloseReads, ExactEnds
  <2>2. CASE at' = [at EXCEPT ![c] = "left"] /\ Silent
    <3>1. job' = job /\ rec' = rec
      BY <1>7, <2>2, Zenon DEF Check, Silent
    <3> QED BY <1>6, <2>2, <3>1
  <2> QED BY <1>7, <2>1, <2>2 DEF Check
<1>8. CASE Outcome(c)
  <2>1. CASE Dispatch(c, Known(c))
    BY <1>2, <1>4, <2>1, CloseReads, ExactDispatch
  <2>2. CASE at' = [at EXCEPT ![c] = "asking"] /\ UNCHANGED job /\ Silent
    <3>1. job' = job /\ rec' = rec /\ at[c] = "waiting"
      BY <1>8, <2>2, Zenon DEF Outcome, Silent
    <3> QED BY <1>6, <2>2, <3>1
  <2> QED BY <1>8, <2>1, <2>2 DEF Outcome
<1>9. CASE Settles(c)
  <2>1. CASE Dispatch(c, view[c].filled)
    BY <1>2, <1>4, <2>1, CloseReads, ExactDispatch
  <2>2. CASE /\ view[c].filled = 0 /\ at' = [at EXCEPT ![c] = "done"]
             /\ job' = [job EXCEPT ![c].lost = view[c].st \notin Refused] /\ Silent
    <3>1. rec' = rec
      BY <2>2, Zenon DEF Silent
    <3>2. ~ job'[c].lost => view[c].st \in Refused
      BY <1>1, <2>2 DEF JobRec
    <3>3. job[c].strat # "smart" /\ ~ job'[c].lost => ib[c].exec = 0 /\ ~ IsOpen(c)
      BY <2>2, <3>2, ExactReads
    <3>4. \E b : job' = [job EXCEPT ![c].lost = b]
      BY <2>2, Zenon
    <3> QED BY <1>6, <2>2, <3>1, <3>3, <3>4
  <2> QED BY <1>9, <2>1, <2>2 DEF Settles
<1>10. CASE Resolve(c) /\ job[c].strat # "smart"
  <2>1. ResolvedPartial(c)
    BY <1>5, <1>10, Zenon DEF Resolve
  <2>2. job' = [job EXCEPT ![c].lost = job[c].lost \/ Resolution(c) = "timeout"]
    BY <2>1 DEF ResolvedPartial
  <2>3. /\ job'[c].strat = job[c].strat /\ job'[c].qty = job[c].qty /\ job'[c].why = job[c].why
        /\ ~ job'[c].lost => Resolution(c) # "timeout"
    BY <1>1, <2>2 DEF JobRec
  <2>4. CloseFill(c, Final(c)) \/ ClosePartial(c, Final(c))
    BY <2>1 DEF ResolvedPartial
  <2>5. Final(c) <= ib[c].exec
    BY <1>10, CloseReads, ExactReads
  <2>6. ASSUME ~ job'[c].lost
        PROVE  Final(c) = ib[c].exec /\ (~ IsOpen(c) \/ ib[c].exec = ib[c].size)
    <3>1. CASE view[c].filled >= job[c].qty
      <4>1. Final(c) >= job[c].qty
        BY <3>1, CloseReads
      <4> QED BY <1>10, <2>5, <4>1, CloseReads, ExactReads
    <3>2. CASE view[c].st \in Refused
      <4>1. view[c].filled = ib[c].exec /\ ~ IsOpen(c)
        BY <1>10, <3>2, ExactReads
      <4> QED BY <2>5, <4>1, CloseReads
    <3> QED BY <2>3, <2>6, <3>1, <3>2 DEF Resolution
  <2> QED BY <1>2, <1>4, <2>3, <2>4, <2>6, CloseReads, ExactEnds
<1>11. CASE job[c].strat = "smart"
  <2>1. /\ \/ job' = job
           \/ \E b : job' = [job EXCEPT ![c].lost = b]
           \/ \E w, h : job' = [job EXCEPT ![c].why = w, ![c].had = h]
           \/ \E g, b : job' = [job EXCEPT ![c].got = g, ![c].lost = b]
        /\ \E a \in {"left", "done", "asking", "cancelling", "crossing", "waiting"} :
              at' = [at EXCEPT ![c] = a]
    <3>1. CASE Resolve(c)
      <4>1. CASE ResolvedCross(c)
        BY <4>1, Zenon DEF ResolvedCross
      <4>2. CASE ResolvedPartial(c)
        <5>1. job' = [job EXCEPT ![c].lost = job[c].lost \/ Resolution(c) = "timeout"]
          BY <4>2 DEF ResolvedPartial
        <5> QED BY <4>2, <5>1, Zenon DEF ResolvedPartial, CloseFill, ClosePartial
      <4> QED BY <3>1, <4>1, <4>2, Zenon DEF Resolve
    <3> QED BY <3>1, Zenon DEF Outcomes, Check, WalkExpires, Crossed, Outcome, Settles,
            Dispatch, ToCancel, CloseFill
  <2>2. job'[c].strat = "smart"
    <3>1. ASSUME NEW b, job' = [job EXCEPT ![c].lost = b] PROVE job'[c].strat = job[c].strat
      BY <1>1, <3>1 DEF JobRec
    <3>2. ASSUME NEW w, NEW h, job' = [job EXCEPT ![c].why = w, ![c].had = h]
          PROVE  job'[c].strat = job[c].strat
      BY <1>1, <3>2 DEF JobRec
    <3>3. ASSUME NEW g, NEW b, job' = [job EXCEPT ![c].got = g, ![c].lost = b]
          PROVE  job'[c].strat = job[c].strat
      BY <1>1, <3>3 DEF JobRec
    <3> QED BY <1>11, <2>1, <3>1, <3>2, <3>3, Zenon
  <2>3. at'[c] # "idle"
    BY <1>1, <2>1
  <2> QED BY <2>2, <2>3 DEF Exact
<1>12. job[c].strat # "smart" => ~ WalkExpires(c) /\ ~ Crossed(c)
  BY <1>5 DEF WalkExpires, Crossed
<1> QED BY <1>7, <1>8, <1>9, <1>10, <1>11, <1>12 DEF Outcomes

(* What IB may do to an order that is exact: end it when it is asked to.   *)
LEMMA ExactAtIB ==
    ASSUME TradeInv, NEW c \in Closes, NEW o \in Orders, AtIB(o), Exact(c)
    PROVE  Exact(c)'
<1>1. /\ OneOrder(o) /\ asked' = asked /\ at' = at /\ job' = job /\ rec' = rec
  BY IBIsOne, IBSends DEF Statements
<1>2. /\ c \in Orders /\ c \notin Legs /\ Cross(c) \in Orders
      /\ ib \in [Orders -> OrderRec] /\ ib[o].exec \in Nat /\ ib[o].size \in Nat
  BY Names, OneBefore
<1>3. ib[Cross(c)].st = "none" => ib'[Cross(c)].st = "none"
  BY <1>1, <1>2 DEF OneOrder
<1>4. ib[c].st = "none" <=> ib'[c].st = "none"
  BY <1>1, <1>2 DEF OneOrder
<1>5. ib'[c].size = ib[c].size
  BY <1>1, <1>2 DEF OneOrder
<1>6. \/ ib'[c] = ib[c]
      \/ IsOpen(c) /\ \E st \in Open \cup Over :
            /\ ib'[c] = [ib[c] EXCEPT !.st = st]
            /\ c \notin asked /\ st \in {"cancelled", "inactive"} => ib[c].exec = 0
      \/ ib[c].exec # ib[c].size /\ IsOpen(c) /\ ib'[c].st \in {"live", "filled"}
  <2>1. CASE c # o
    BY <1>1, <1>2, <2>1 DEF OneOrder
  <2>2. CASE c = o
    <3>1. ASSUME NEW st \in Open \cup Over, Moves(c, st)
          PROVE  ib'[c] = [ib[c] EXCEPT !.st = st]
      BY <1>2, <3>1 DEF Moves
    <3>2. CASE Cancels(c)
      BY <3>1, <3>2 DEF Cancels, Over
    <3>3. CASE Works(c)
      <4>1. "live" \in Open \cup Over /\ "live" \notin {"cancelled", "inactive"} /\ IsOpen(c)
        BY <3>3 DEF Works, IsOpen, Open
      <4>2. ib'[c] = [ib[c] EXCEPT !.st = "live"]
        BY <3>1, <3>3, <4>1 DEF Works
      <4> QED BY <4>1, <4>2
    <3>4. CASE Refuses(c)
      <4>1. ib[c].exec = 0
        BY <1>2, <3>4, OneBefore DEF Refuses
      <4>2. PICK st \in {"cancelled", "inactive"} : Moves(c, st)
        BY <3>4 DEF Refuses
      <4> QED BY <3>1, <3>4, <4>1, <4>2 DEF Refuses, IsOpen, Open, Over
    <3>5. CASE Executes(c)
      <4>1. ib[c].st = "live" /\ ib[c].exec < ib[c].size
        BY <3>5 DEF Executes, CanFill
      <4>2. ib' = [ib EXCEPT ![c].exec = ib[c].exec + 1,
                             ![c].st = IF ib[c].exec + 1 = ib[c].size THEN "filled" ELSE ib[c].st]
        BY <3>5 DEF Executes
      <4>3. ib'[c].st \in {"live", "filled"}
        BY <1>2, <4>1, <4>2 DEF OrderRec
      <4> QED BY <1>2, <2>2, <4>1, <4>3 DEF IsOpen, Open
    <3>6. CASE Reports(c) \/ HearsFill(c)
      BY <3>6, Zenon DEF Reports, HearsFill
    <3> QED BY <1>2, <2>2, <3>2, <3>3, <3>4, <3>5, <3>6 DEF AtIB, IBStep
  <2> QED BY <2>1, <2>2
<1>7. c \notin asked /\ ib'[c].st \in {"cancelled", "inactive"} =>
         ib'[c].exec = 0 \/ (ib'[c].exec = ib[c].exec /\ ib[c].st \in {"cancelled", "inactive"})
  <2>1. CASE ib'[c] = ib[c]
    BY <2>1
  <2>2. CASE ib'[c].st \in {"live", "filled"}
    BY <2>2
  <2>3. ASSUME NEW st \in Open \cup Over, ib'[c] = [ib[c] EXCEPT !.st = st],
               c \notin asked /\ st \in {"cancelled", "inactive"} => ib[c].exec = 0
        PROVE  c \notin asked /\ ib'[c].st \in {"cancelled", "inactive"} => ib'[c].exec = 0
    BY <1>2, <2>3 DEF OrderRec
  <2> QED BY <1>6, <2>1, <2>2, <2>3
<1>8. ~ IsOpen(c) \/ ib[c].exec = ib[c].size =>
         ib'[c].exec = ib[c].exec /\ (~ IsOpen(c)' \/ ib'[c].exec = ib'[c].size)
  <2>1. CASE ib'[c] = ib[c]
    BY <2>1 DEF IsOpen
  <2>2. ASSUME NEW st \in Open \cup Over, ib'[c] = [ib[c] EXCEPT !.st = st], IsOpen(c)
        PROVE  ib[c].exec = ib[c].size => ib'[c].exec = ib[c].exec /\ ib'[c].exec = ib'[c].size
    BY <1>2, <2>2 DEF OrderRec
  <2> QED BY <1>6, <2>1, <2>2
<1> QED BY <1>1, <1>3, <1>4, <1>5, <1>7, <1>8 DEF Exact

(* A close by symbol, once it has begun, is never idle again.              *)
LEMMA SymbolGoesOn ==
    ASSUME TradeInv, CancelStep(Symbol) \/ SymbolStep
    PROVE  at'[Symbol] # "idle"
<1>1. at \in [Commands -> Stages] /\ Symbol \in Commands
  BY Names DEF TradeInv, Shape
<1>2. \E a \in {"leg", After(Symbol), "placing", "waiting", "left", "raised",
               Swept(Working), Swept(job[Symbol].todo)} : at' = [at EXCEPT ![Symbol] = a]
  <2>1. CASE CancelStep(Symbol)
    BY <2>1, Zenon DEF CancelStep, CancelLeg, LegCancelled, LegRaises, Goes
  <2>2. CASE SymbolBegins
    BY <2>2 DEF SymbolBegins
  <2>3. CASE SymbolPlaces \/ SymbolEnds \/ SymbolRaises
    BY <2>3, Zenon DEF SymbolPlaces, SymbolEnds, SymbolRaises, Goes
  <2> QED BY <2>1, <2>2, <2>3 DEF SymbolStep
<1>3. After(Symbol) # "idle" /\ Swept(Working) # "idle" /\ Swept(job[Symbol].todo) # "idle"
  BY DEF After, OnTo, Swept
<1> QED BY <1>1, <1>2, <1>3

(* So every step keeps the rows exact.                                     *)
LEMMA ExactKeeps == ASSUME TradeInv, ExactInv, [Next]_vars PROVE ExactInv'
<1> SUFFICES ASSUME at'[Symbol] = "idle", NEW c \in Closes PROVE Exact(c)'
  BY DEF ExactInv
<1>1. ASSUME at[Symbol] = "idle" PROVE Exact(c)
  BY <1>1 DEF ExactInv
<1>2. ASSUME NEW d \in Closes, CloseStep(d) \/ CancelStep(d) PROVE Exact(c)'
  <2>1. /\ \A x \in Commands \ {d} : at'[x] = at[x] /\ job'[x] = job[x]
        /\ \A o \in Orders \ {d, Cross(d)} : ib'[o] = ib[o]
        /\ \A o \in Orders \ {d} : rec'[o] = rec[o]
        /\ asked' \in {asked, AskedToCancel(d)}
    BY <1>2, CloseIsItsOwn
  <2>2. Exact(c)
    BY <1>1, <2>1, Names
  <2>3. CASE c = d
    <3>1. \/ Begin(c) \/ Place(c) \/ Crosses(c) \/ Waits(c) \/ Outcomes(c) \/ CancelStep(c)
      BY <1>2, <2>3, Zenon DEF CloseStep, Waits, Outcomes
    <3> QED BY <2>2, <3>1, ExactBegins, ExactWaits, ExactOutcomes, ExactCancels
  <2>4. CASE c # d
    <3>1. /\ at'[c] = at[c] /\ job'[c] = job[c] /\ rec'[c] = rec[c]
          /\ ib'[c] = ib[c] /\ ib'[Cross(c)] = ib[Cross(c)]
      BY <2>1, <2>4, Names
    <3>2. c \in asked' <=> c \in asked
      BY <2>1, <2>4 DEF AskedToCancel
    <3> QED BY <2>2, <3>1, <3>2 DEF Exact, IsOpen
  <2> QED BY <2>3, <2>4
<1>3. ASSUME NEW o \in Orders, AtIB(o) PROVE Exact(c)'
  <2>1. at' = at
    BY <1>3, IBSends DEF Statements
  <2> QED BY <1>1, <1>3, <2>1, ExactAtIB
<1>4. ASSUME UNCHANGED <<ib, asked, at, job>>, rec'[c] = rec[c] PROVE Exact(c)'
  BY <1>1, <1>4 DEF Exact, IsOpen
<1>5. ASSUME NEW leg \in Legs, Autonomous(leg) PROVE Exact(c)'
  <2>1. UNCHANGED <<ib, asked, at, job>>
    BY <1>5, Zenon DEF Autonomous, ibVars
  <2>2. rec' = rec \/ \E q : rec' = [rec EXCEPT ![leg] = q]
    BY <1>5, Zenon DEF Autonomous
  <2>3. rec \in [Orders -> Nat] /\ c \in Orders /\ c # leg
    BY Names DEF TradeInv, Shape
  <2> QED BY <1>4, <2>1, <2>2, <2>3
<1>6. CASE UNCHANGED vars
  <2>1. UNCHANGED <<ib, asked, at, job>> /\ rec' = rec
    BY <1>6, Zenon DEF vars, ibVars, tradeVars
  <2> QED BY <1>4, <2>1
<1>7. ~ CancelStep(Symbol) /\ ~ SymbolStep
  BY SymbolGoesOn
<1>8. \A leg \in Legs : LegStep(leg) => Exact(c)'
  BY <1>3, <1>5, Names DEF LegStep, AtIB
<1> QED BY <1>2, <1>3, <1>6, <1>7, <1>8 DEF Next, AtIB, Commands

(* The row of a close that did not give up on a cancel has every lot its   *)
(* order executed, whatever raced the cancel or reached only one of the    *)
(* status and the callback. engine/order.py:3689-3722, 4480-4543           *)
THEOREM CloseRowsAreExact == Spec => []CloseIsExact
<1>1. TradeInv /\ ExactInv /\ [Next]_vars => (TradeInv /\ ExactInv)'
  BY TradeKeeps, ExactKeeps
<1>2. TradeInv /\ ExactInv => CloseIsExact
  <2> SUFFICES ASSUME TradeInv, ExactInv, NEW c \in Closes,
                      at[c] = "done", job[c].strat # "smart", ~ job[c].lost, at[Symbol] = "idle"
               PROVE  rec[c] = Executed(c)
    BY DEF CloseIsExact
  <2>1. Exact(c)
    BY DEF ExactInv
  <2> QED BY <2>1, ExactReads DEF Exact
<1> QED BY TradeStarts, ExactStarts, <1>1, <1>2, PTL DEF Spec
=============================================================================
