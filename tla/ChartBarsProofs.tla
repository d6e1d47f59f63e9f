--------------------------- MODULE ChartBarsProofs ---------------------------
(***************************************************************************)
(* Proofs about ChartBars, for every series of closes, every tolerance,    *)
(* limit and setup, and every length of the ring and of the history: an    *)
(* entry is on a line that its side's fan has drawn and that has held, or  *)
(* on lows that rise ever more; the row of a bar names what ended its      *)
(* chain; and the exit check would not undo an entry at once.  The fan is  *)
(* a function defined by recursion over the candidates: what is said of it *)
(* is shown by taking the least number of tries that would refute it.      *)
(***************************************************************************)
EXTENDS ChartBarsSafety, FiniteSetTheorems, SequenceTheorems, WellFoundedInduction, TLAPS

-----------------------------------------------------------------------------
(* Least elements.                                                         *)

(* A set of numbers that is not empty has a least one: what the proofs of  *)
(* this module use in place of an induction.                               *)
LEMMA LeastOfNats ==
    ASSUME NEW T, T \subseteq Nat, T # {}
    PROVE  \E m \in T : \A k \in T : m <= k
<1>1. IsWellFoundedOn({ss \in Nat \X Nat : ss[1] < ss[2]}, Nat)
  BY NatLessThanWellFounded DEF OpToRel
<1>2. PICK m \in T : \A k \in T : <<k, m>> \notin {ss \in Nat \X Nat : ss[1] < ss[2]}
  BY <1>1, WFMin
<1>3. ASSUME NEW k \in T PROVE m <= k
  <2>1. k \in Nat /\ m \in Nat
    OBVIOUS
  <2>2. ~ (k < m)
    BY <1>2, <2>1
  <2> QED
    BY <2>1, <2>2
<1> QED
  BY <1>3

(* A finite set that is ordered has an element that no other comes before. *)
LEMMA ForemostOfOrder ==
    ASSUME NEW S, IsFiniteSet(S), S # {}, NEW R,
           \A x \in S : <<x, x>> \notin R,
           \A x, y, z \in S : <<x, y>> \in R /\ <<y, z>> \in R => <<x, z>> \in R
    PROVE  \E x \in S : \A y \in S : <<y, x>> \notin R
<1> DEFINE Preceding(x) == {y \in S : <<y, x>> \in R}
           T == {Cardinality(Preceding(x)) : x \in S}
<1>1. ASSUME NEW x \in S PROVE IsFiniteSet(Preceding(x)) /\ Cardinality(Preceding(x)) \in Nat
  <2>1. Preceding(x) \in SUBSET S
    OBVIOUS
  <2>2. IsFiniteSet(Preceding(x))
    BY <2>1, FS_Subset
  <2> QED
    BY <2>2, FS_CardinalityType
<1>2. PICK x \in S : \A z \in S : Cardinality(Preceding(x)) <= Cardinality(Preceding(z))
  <2>1. T \subseteq Nat /\ T # {}
    <3> HIDE DEF Preceding
    <3>1. \A y \in S : Cardinality(Preceding(y)) \in Nat
      BY <1>1
    <3> QED
      BY <3>1
  <2>2. PICK m \in T : \A k \in T : m <= k
    BY <2>1, LeastOfNats
  <2>3. PICK x \in S : m = Cardinality(Preceding(x))
    BY <2>2
  <2>4. ASSUME NEW z \in S PROVE Cardinality(Preceding(x)) <= Cardinality(Preceding(z))
    <3>1. Cardinality(Preceding(z)) \in T
      OBVIOUS
    <3> QED
      BY <3>1, <2>2, <2>3
  <2> QED
    BY <2>4
<1>3. ASSUME NEW y \in S, <<y, x>> \in R PROVE FALSE
  <2>1. Preceding(y) \in SUBSET Preceding(x) /\ y \in Preceding(x) /\ y \notin Preceding(y)
    BY <1>3
  <2>2. Preceding(y) # Preceding(x)
    BY <2>1
  <2> HIDE DEF Preceding
  <2>3. Cardinality(Preceding(y)) <= Cardinality(Preceding(x)) /\ Cardinality(Preceding(x)) # Cardinality(Preceding(y))
    BY <2>1, <2>2, <1>1, FS_Subset
  <2> QED
    BY <2>3, <1>1, <1>2
<1> QED
  BY <1>3

-----------------------------------------------------------------------------
(* Series and lines.                                                       *)

Series == Seq(Int)

(* The lows of a series are bars of it that have a bar on either side.     *)
LEMMA PivotsAre ==
    ASSUME NEW c \in Series
    PROVE  /\ Len(c) \in Nat /\ IsFiniteSet(PivotLows(c))
           /\ \A i \in PivotLows(c) : i \in Nat /\ 2 <= i /\ i <= Len(c) - 1 /\ c[i] \in Int
           /\ \A i \in 1 .. Len(c) : c[i] \in Int
<1>1. Len(c) \in Nat /\ c \in [1 .. Len(c) -> Int]
  BY LenProperties DEF Series
<1>2. IsFiniteSet(2 .. Len(c) - 1) /\ PivotLows(c) \in SUBSET (2 .. Len(c) - 1)
  BY <1>1, FS_Interval DEF PivotLows
<1> QED
  BY <1>1, <1>2, FS_Subset

Anchors(c) == {b \in PivotLows(c) \X PivotLows(c) : b[1] < b[2]}
Line == [q : Nat, p : Nat, rise : Int, run : Nat \ {0}, base : Int]

(* A candidate goes through two lows, the first before the second.         *)
LEMMA LinesAre ==
    ASSUME NEW c \in Series, NEW l \in Candidates(c)
    PROVE  /\ l \in Line /\ l.q \in PivotLows(c) /\ l.p \in PivotLows(c) /\ l.q < l.p
           /\ l.rise = c[l.p] - c[l.q] /\ l.run = l.p - l.q /\ l.base = c[l.p]
<1>1. PICK a \in Anchors(c) : l = Through(c, a[1], a[2])
  BY DEF Candidates, Anchors
<1> QED
  BY <1>1, PivotsAre DEF Anchors, Through, Line

(* There are finitely many candidates.                                     *)
LEMMA CandidatesAreFinite ==
    ASSUME NEW c \in Series
    PROVE  IsFiniteSet(Candidates(c)) /\ Cardinality(Candidates(c)) \in Nat
<1>1. IsFiniteSet(PivotLows(c) \X PivotLows(c))
  BY PivotsAre, FS_Product
<1>2. IsFiniteSet(Anchors(c))
  BY <1>1, FS_Subset DEF Anchors
<1> DEFINE f == [a \in Anchors(c) |-> Through(c, a[1], a[2])]
<1>3. f \in Surjection(Anchors(c), Candidates(c))
  BY DEF Surjection, Candidates, Anchors
<1> QED
  BY <1>2, <1>3, FS_Surjection, FS_CardinalityType

-----------------------------------------------------------------------------
(* Comparing slopes without dividing.                                      *)

(* The step of a comparison that SMT needs to be told.                     *)
LEMMA Times ==
    ASSUME NEW x \in Int, NEW y \in Int, NEW k \in Nat \ {0}
    PROVE  (x > y <=> x * k > y * k) /\ (x = y <=> x * k = y * k) /\ x * k \in Int
OBVIOUS

(* Steeper is a strict order of lines, and parallel lines take each        *)
(* other's place in it.                                                    *)
LEMMA SteeperIsAnOrder ==
    ASSUME NEW l, NEW e, NEW d,
           l.rise \in Int, e.rise \in Int, d.rise \in Int,
           l.run \in Nat \ {0}, e.run \in Nat \ {0}, d.run \in Nat \ {0}
    PROVE  /\ ~ Steeper(l, l) /\ Parallel(l, l)
           /\ Steeper(l, e) /\ Steeper(e, d) => Steeper(l, d)
           /\ Steeper(l, e) /\ Parallel(e, d) => Steeper(l, d)
           /\ Parallel(l, e) /\ Steeper(e, d) => Steeper(l, d)
           /\ Parallel(l, e) /\ Parallel(e, d) => Parallel(l, d)
<1>1. {l.rise, e.rise, d.rise} \subseteq Int /\ {l.run, e.run, d.run} \subseteq Nat \ {0}
  OBVIOUS
<1>2. ~ Steeper(l, l) /\ Parallel(l, l)
  BY <1>1 DEF Steeper, Parallel
<1>3. /\ l.rise * e.run > e.rise * l.run /\ e.rise * d.run > d.rise * e.run
            => l.rise * d.run > d.rise * l.run
      /\ l.rise * e.run > e.rise * l.run /\ e.rise * d.run = d.rise * e.run
            => l.rise * d.run > d.rise * l.run
      /\ l.rise * e.run = e.rise * l.run /\ e.rise * d.run > d.rise * e.run
            => l.rise * d.run > d.rise * l.run
      /\ l.rise * e.run = e.rise * l.run /\ e.rise * d.run = d.rise * e.run
            => l.rise * d.run = d.rise * l.run
  <2> DEFINE a == l.rise  b == e.rise  c == d.rise  i == l.run  j == e.run  k == d.run
  <2>1. /\ a \in Int /\ b \in Int /\ c \in Int
        /\ i \in Nat \ {0} /\ j \in Nat \ {0} /\ k \in Nat \ {0}
    BY <1>1
  <2> HIDE DEF a, b, c, i, j, k
  <2>2. /\ a * j > b * i /\ b * k > c * j => a * k > c * i
        /\ a * j > b * i /\ b * k = c * j => a * k > c * i
        /\ a * j = b * i /\ b * k > c * j => a * k > c * i
        /\ a * j = b * i /\ b * k = c * j => a * k = c * i
    <3>1. /\ (a * j > b * i <=> (a * j) * k > (b * i) * k)
          /\ (a * j = b * i <=> (a * j) * k = (b * i) * k)
      BY <2>1, Times
    <3>2. /\ (b * k > c * j <=> (b * k) * i > (c * j) * i)
          /\ (b * k = c * j <=> (b * k) * i = (c * j) * i)
      BY <2>1, Times
    <3>3. /\ (a * k > c * i <=> (a * k) * j > (c * i) * j)
          /\ (a * k = c * i <=> (a * k) * j = (c * i) * j)
      BY <2>1, Times
    <3>4. (a * k) * j = (a * j) * k /\ (b * i) * k = (b * k) * i /\ (c * j) * i = (c * i) * j
      BY <2>1
    <3>5. {(a * j) * k, (b * k) * i, (c * i) * j} \subseteq Int
      BY <2>1
    <3> QED
      BY <3>1, <3>2, <3>3, <3>4, <3>5, SMT
  <2> QED
    BY <2>2 DEF a, b, c, i, j, k
<1> QED
  BY <1>2, <1>3 DEF Steeper, Parallel

(* Among lines that are left there is one to try next.                     *)
LEMMA ForemostIsThere ==
    ASSUME NEW c \in Series, NEW left, left \subseteq Candidates(c), left # {}
    PROVE  Foremost(left) \in left
<1> DEFINE R == {w \in left \X left : Before(w[1], w[2])}
<1>1. \A l \in left : l.rise \in Int /\ l.run \in Nat \ {0} /\ {l.q, l.p} \subseteq Nat
  BY LinesAre DEF Line
<1>2. IsFiniteSet(left)
  BY CandidatesAreFinite, FS_Subset
<1>3. \A l \in left : <<l, l>> \notin R
  BY <1>1, SteeperIsAnOrder DEF Before
<1>4. ASSUME NEW l \in left, NEW e \in left, NEW d \in left, <<l, e>> \in R, <<e, d>> \in R
      PROVE  <<l, d>> \in R
  <2>1. {l.q, l.p, e.q, e.p, d.q, d.p} \subseteq Nat
    BY <1>1
  <2>2. Before(l, e) /\ Before(e, d)
    BY <1>4
  <2>3. Before(l, d)
    BY <1>1, <2>1, <2>2, SteeperIsAnOrder DEF Before
  <2> QED
    BY <2>3
<1>5. \E l \in left : \A e \in left : <<e, l>> \notin R
  <2> HIDE DEF R
  <2> QED
    BY <1>2, <1>3, <1>4, ForemostOfOrder
<1>6. \E l \in left : \A e \in left : ~ Before(e, l)
  BY <1>5
<1> QED
  BY <1>6 DEF Foremost

-----------------------------------------------------------------------------
(* The fan is what the last of the tries leaves.                           *)

(* What is left and what is drawn before the first try; and a function g   *)
(* that follows n tries.                                                   *)
Start(c) == [left |-> Candidates(c), out |-> <<>>]
Trying(c, n, g) ==
    g = [k \in 0 .. n |-> IF k = 0 THEN Start(c) ELSE Tries(c, g[k - 1])]

(* The recursive function of Fan exists, for any number of tries: the      *)
(* least number without one would have one.                                *)
LEMMA TriesAreDefined ==
    ASSUME NEW c
    PROVE  \A n \in Nat : \E g : Trying(c, n, g)
<1> DEFINE T == {n \in Nat : ~ \E g : Trying(c, n, g)}
<1> SUFFICES ASSUME T # {} PROVE FALSE
  OBVIOUS
<1>1. PICK n \in T : \A m \in T : n <= m
  BY LeastOfNats
<1>2. CASE n = 0
  <2> DEFINE g == [k \in 0 .. 0 |-> Start(c)]
  <2>1. Trying(c, 0, g)
    BY DEF Trying
  <2> QED
    BY <1>2, <2>1, <1>1
<1>3. CASE n # 0
  <2>1. n \in Nat /\ n - 1 \in Nat /\ ~ (n <= n - 1)
    BY <1>3, <1>1
  <2>2. n - 1 \notin T
    BY <2>1, <1>1
  <2>3. PICK g : Trying(c, n - 1, g)
    BY <2>1, <2>2
  <2> DEFINE h == [k \in 0 .. n |-> IF k = n THEN Tries(c, g[n - 1]) ELSE g[k]]
  <2>4. ASSUME NEW k \in 0 .. n
        PROVE  h[k] = IF k = 0 THEN Start(c) ELSE Tries(c, h[k - 1])
    <3>1. CASE k = n
      BY <3>1, <2>1
    <3>2. CASE k # n
      <4>1. k \in 0 .. n - 1 /\ (k # 0 => k - 1 \in 0 .. n /\ k - 1 # n)
        BY <3>2, <2>1
      <4>2. g[k] = IF k = 0 THEN Start(c) ELSE Tries(c, g[k - 1])
        BY <4>1, <2>3 DEF Trying
      <4> QED
        BY <4>1, <4>2, <3>2
    <3> QED
      BY <3>1, <3>2
  <2>5. Trying(c, n, h)
    BY <2>4 DEF Trying
  <2> QED
    BY <2>5, <1>1
<1> QED
  BY <1>2, <1>3

(* So the fan is what that function has after the last candidate.          *)
LEMMA FanIsTried ==
    ASSUME NEW c \in Series
    PROVE  LET n == Cardinality(Candidates(c)) IN
           \E g : Trying(c, n, g) /\ Fan(c) = g[n].out
<1> DEFINE n == Cardinality(Candidates(c))
           g == CHOOSE f : Trying(c, n, f)
<1>1. Trying(c, n, g)
  BY CandidatesAreFinite, TriesAreDefined
<1>2. Fan(c) = g[n].out
  BY DEF Fan, Trying, Start
<1> QED
  BY <1>1, <1>2

(* Whatever is in the fan has been drawn of a valid candidate.             *)
IsDrawn(c, l) == \E e \in Candidates(c) : \E o : Valid(c, e) /\ l = Drawn(c, e, o)
Drawings(c, out) == \E S : out \in Seq(S) /\ \A l \in S : IsDrawn(c, l)

(* After any number of tries, the lines so far are drawn of candidates.    *)
LEMMA FanIsDrawings ==
    ASSUME NEW c \in Series
    PROVE  Drawings(c, Fan(c))
<1> DEFINE n == Cardinality(Candidates(c))
<1>1. PICK g : Trying(c, n, g) /\ Fan(c) = g[n].out
  BY FanIsTried
<1>2. n \in Nat
  BY CandidatesAreFinite
<1> HIDE DEF n
<1> DEFINE Good(k) ==
             /\ g[k].left \subseteq Candidates(c)
             /\ IsFiniteSet(g[k].left) /\ Cardinality(g[k].left) = n - k
             /\ Drawings(c, g[k].out)
           T == {k \in 0 .. n : ~ Good(k)}
<1>3. T = {}
  <2> SUFFICES ASSUME T # {} PROVE FALSE
    OBVIOUS
  <2>1. T \subseteq Nat
    BY <1>2
  <2>2. PICK k \in T : \A j \in T : k <= j
    BY <2>1, LeastOfNats
  <2>3. CASE k = 0
    <3>1. g[0] = Start(c)
      BY <1>1, <1>2 DEF Trying
    <3>2. Drawings(c, <<>>)
      <4>1. PICK S : S = {}
        OBVIOUS
      <4>2. <<>> \in Seq(S) /\ \A d \in S : IsDrawn(c, d)
        BY <4>1, EmptySeq
      <4> QED
        BY <4>2 DEF Drawings
    <3>3. Good(0)
      BY <3>1, <3>2, CandidatesAreFinite DEF Start, n
    <3> QED
      BY <3>3, <2>2, <2>3
  <2>4. CASE k # 0
    <3> DEFINE left == g[k - 1].left  out == g[k - 1].out  e == Foremost(left)
    <3>1. k \in 1 .. n /\ k - 1 \in 0 .. n /\ ~ (k <= k - 1)
      BY <2>4, <2>2, <1>2
    <3>2. Good(k - 1)
      BY <3>1, <2>2
    <3>3. g[k] = Tries(c, g[k - 1])
      BY <3>1, <1>1 DEF Trying
    <3>4. e \in left
      <4>1. left # {}
        BY <3>1, <3>2, <1>2, FS_EmptySet
      <4> QED
        BY <4>1, <3>2, ForemostIsThere
    <3>5. /\ g[k].left = left \ {e}
          /\ g[k].out = IF Taken(c, e, out) THEN Append(out, Drawn(c, e, out)) ELSE out
      BY <3>3 DEF Tries
    <3>6. /\ g[k].left \subseteq Candidates(c)
          /\ IsFiniteSet(g[k].left) /\ Cardinality(g[k].left) = n - k
      <4> HIDE DEF left, e
      <4>1. left \subseteq Candidates(c) /\ IsFiniteSet(left) /\ Cardinality(left) = n - (k - 1)
        BY <3>2 DEF left
      <4>2. IsFiniteSet(left \ {e}) /\ Cardinality(left \ {e}) = Cardinality(left) - 1
        BY <4>1, <3>4, FS_RemoveElement
      <4>3. n - (k - 1) - 1 = n - k
        BY <3>1, <1>2
      <4> QED
        BY <4>1, <4>2, <4>3, <3>5
    <3>7. Drawings(c, g[k].out)
      <4>1. PICK S : out \in Seq(S) /\ \A d \in S : IsDrawn(c, d)
        BY <3>2 DEF Drawings
      <4>2. CASE Taken(c, e, out)
        <5> DEFINE d == Drawn(c, e, out)
        <5>1. IsDrawn(c, d)
          BY <4>2, <3>2, <3>4 DEF IsDrawn, Taken
        <5> HIDE DEF d
        <5>2. out \in Seq(S \cup {d})
          BY <4>1, SeqMonotonic
        <5>3. Append(out, d) \in Seq(S \cup {d})
          BY <5>2, AppendProperties
        <5> QED
          BY <5>1, <5>3, <4>1, <4>2, <3>5 DEF Drawings, d
      <4>3. CASE ~ Taken(c, e, out)
        BY <4>1, <4>3, <3>5 DEF Drawings
      <4> QED
        BY <4>2, <4>3
    <3> QED
      BY <3>6, <3>7, <2>2
  <2> QED
    BY <2>3, <2>4
<1> QED
  BY <1>1, <1>2, <1>3

(* And so are those of the fan.                                            *)
LEMMA FanIsDrawn ==
    ASSUME NEW c \in Series, NEW l \in Range(Fan(c))
    PROVE  IsDrawn(c, l)
BY FanIsDrawings, LenProperties DEF Drawings, Range

(* What a line of the fan, and an unbroken one, says of the closes.        *)
LEMMA LineOfFan ==
    ASSUME NEW c \in Series, NEW l \in Range(Fan(c))
    PROVE  \E e \in Candidates(c) :
             /\ l.q = e.q /\ l.p = e.p /\ l.rise = e.rise /\ l.run = e.run /\ l.base = e.base
             /\ l.touches = TouchesOf(c, e) /\ Valid(c, e)
             /\ ~ l.broken => \A i \in e.p + 1 .. Len(c) : ~ Violated(c, e, i)
<1>1. PICK e \in Candidates(c) : \E o : Valid(c, e) /\ l = Drawn(c, e, o)
  BY FanIsDrawn DEF IsDrawn
<1>2. PICK o : Valid(c, e) /\ l = Drawn(c, e, o)
  BY <1>1
<1>3. /\ l.q = e.q /\ l.p = e.p /\ l.rise = e.rise /\ l.run = e.run /\ l.base = e.base
      /\ l.touches = TouchesOf(c, e) /\ l.broken = (Breaks(c, e, o) # {})
  BY <1>2 DEF Drawn, Segment
<1>4. ~ l.broken => \A i \in e.p + 1 .. Len(c) : ~ Violated(c, e, i)
  BY <1>3 DEF Breaks
<1> QED
  BY <1>2, <1>3, <1>4

-----------------------------------------------------------------------------
(* What is found on a side.                                                *)

(* Min and Max are what they say, of numbers and of bounded numbers.       *)
LEMMA LeastIsThere ==
    ASSUME NEW S, S \subseteq Nat, S # {}
    PROVE  Min(S) \in S /\ \A k \in S : Min(S) <= k
<1>1. \E m \in S : \A k \in S : m <= k
  BY LeastOfNats
<1> QED
  BY <1>1 DEF Min

(* As for Min.                                                             *)
LEMMA GreatestIsThere ==
    ASSUME NEW n \in Nat, NEW S, S \subseteq 0 .. n, S # {}
    PROVE  Max(S) \in S /\ \A k \in S : k <= Max(S)
<1> DEFINE T == {n - k : k \in S}
<1>1. T \subseteq Nat /\ T # {}
  OBVIOUS
<1>2. PICK m \in T : \A k \in T : m <= k
  BY <1>1, LeastOfNats
<1>3. PICK g \in S : m = n - g
  BY <1>2
<1>4. ASSUME NEW k \in S PROVE k <= g
  <2>1. n - k \in T /\ k \in Int /\ g \in Int
    OBVIOUS
  <2> QED
    BY <2>1, <1>2, <1>3
<1>5. \E h \in S : \A k \in S : h >= k
  BY <1>4
<1>6. Max(S) \in S /\ \A k \in S : Max(S) >= k
  BY <1>5 DEF Max
<1> QED
  BY <1>6

Counted(c, l) == Cardinality({i \in PivotLows(c) : i >= l.q /\ Touched(c, l, i)})

(* The anchors of a line are on it.                                        *)
LEMMA AnchorsAreOn ==
    ASSUME NEW c \in Series, NEW l \in Candidates(c)
    PROVE  Above(l, l.p, c[l.p]) = 0 /\ Above(l, l.q, c[l.q]) = 0
<1>1. /\ l.q \in Nat /\ l.p \in Nat /\ l.q < l.p
      /\ l.rise = c[l.p] - c[l.q] /\ l.run = l.p - l.q /\ l.base = c[l.p]
      /\ c[l.p] \in Int /\ c[l.q] \in Int
  BY LinesAre, PivotsAre
<1>2. Above(l, l.p, c[l.p]) = 0
  BY <1>1 DEF Above, At
<1>3. Above(l, l.q, c[l.q]) = 0
  BY <1>1 DEF Above, At
<1> QED
  BY <1>2, <1>3

(* A line's number of touches is the number of the lows on it: the two     *)
(* anchors are among them.                                                 *)
LEMMA TouchesAre ==
    ASSUME NEW c \in Series, NEW l \in Candidates(c)
    PROVE  Counted(c, l) \in Nat /\ TouchesOf(c, l) = Counted(c, l)
<1> DEFINE S == {i \in PivotLows(c) : i >= l.q /\ Touched(c, l, i)}
<1>1. IsFiniteSet(S)
  BY PivotsAre, FS_Subset
<1>2. l.q \in S /\ l.p \in S /\ l.q # l.p
  <2>1. l.q \in PivotLows(c) /\ l.p \in PivotLows(c) /\ l.q < l.p /\ l.q \in Nat /\ l.p \in Nat
        /\ l.run \in Nat
    BY LinesAre, PivotsAre DEF Line
  <2>2. 0 <= TouchTol * l.run
    BY <2>1, SrFanAssumption
  <2> QED
    BY <2>1, <2>2, AnchorsAreOn DEF Touched, Distance
<1>3. Cardinality(S) \in Nat /\ 2 <= Cardinality(S)
  <2>1. IsFiniteSet({l.q}) /\ Cardinality({l.q}) = 1
    BY FS_Singleton
  <2>2. Cardinality({l.q} \cup {l.p}) = 2
    BY <2>1, <1>2, FS_AddElement
  <2>3. {l.q} \cup {l.p} \in SUBSET S
    BY <1>2
  <2> HIDE DEF S
  <2> QED
    BY <2>2, <2>3, <1>1, FS_Subset, FS_CardinalityType
<1> HIDE DEF S
<1>4. {2, Cardinality(S)} \subseteq 0 .. Cardinality(S)
  BY <1>3
<1>5. Max({2, Cardinality(S)}) = Cardinality(S)
  BY <1>3, <1>4, GreatestIsThere
<1> QED
  BY <1>3, <1>5 DEF Counted, TouchesOf, S

(* A fan has finitely many lines.                                          *)
LEMMA FanIsFinite ==
    ASSUME NEW c \in Series
    PROVE  IsFiniteSet(Range(Fan(c)))
<1>1. Drawings(c, Fan(c))
  BY FanIsDrawings
<1>2. PICK S : Fan(c) \in Seq(S)
  BY <1>1 DEF Drawings
<1> DEFINE f == Fan(c)  n == Len(f)
<1>3. n \in Nat /\ DOMAIN f = 1 .. n
  BY <1>2, LenProperties
<1>4. f \in Surjection(1 .. n, Range(f))
  <2>1. f \in [1 .. n -> Range(f)]
    BY <1>2, <1>3, LenProperties DEF Range
  <2>2. \A d \in Range(f) : \E i \in 1 .. n : f[i] = d
    BY <1>3 DEF Range
  <2> QED
    BY <2>1, <2>2 DEF Surjection
<1>5. IsFiniteSet(1 .. n)
  BY <1>3, FS_Interval
<1> QED
  BY <1>4, <1>5, FS_Surjection

(* So one of those that trigger is preferred to no other.                  *)
LEMMA BestIsThere ==
    ASSUME NEW c \in Series, NEW lines, lines \subseteq Range(Fan(c)), lines # {}
    PROVE  Best(lines) \in lines
<1> DEFINE R == {w \in lines \X lines : Preferred(w[1], w[2])}
<1>1. \A l \in lines : l.rise \in Int /\ l.run \in Nat \ {0} /\ l.touches \in Int
  BY LineOfFan, LinesAre, TouchesAre DEF Line
<1>2. IsFiniteSet(lines)
  BY FanIsFinite, FS_Subset
<1>3. \A l \in lines : <<l, l>> \notin R
  BY <1>1, SteeperIsAnOrder DEF Preferred
<1>4. ASSUME NEW l \in lines, NEW e \in lines, NEW d \in lines, <<l, e>> \in R, <<e, d>> \in R
      PROVE  <<l, d>> \in R
  <2>1. {l.touches, e.touches, d.touches} \subseteq Int
    BY <1>1
  <2>2. Preferred(l, e) /\ Preferred(e, d)
    BY <1>4
  <2>3. Steeper(l, e) /\ Steeper(e, d) => Steeper(l, d)
    BY <1>1, SteeperIsAnOrder
  <2>4. Preferred(l, d)
    BY <2>1, <2>2, <2>3 DEF Preferred
  <2> QED
    BY <2>4
<1>5. \E l \in lines : \A e \in lines : <<e, l>> \notin R
  <2> HIDE DEF R
  <2> QED
    BY <1>2, <1>3, <1>4, ForemostOfOrder
<1>6. \E l \in lines : \A e \in lines : ~ Preferred(e, l)
  BY <1>5
<1> QED
  BY <1>6 DEF Best

(* A line that triggers is one that the property calls live.               *)
LEMMA TriggeredIsLive ==
    ASSUME NEW c \in Series, NEW l \in Range(Fan(c)), Triggered(c, l)
    PROVE  \E e \in LiveLines(c) :
             /\ l.q = e.q /\ l.p = e.p /\ l.rise = e.rise /\ l.run = e.run /\ l.base = e.base
             /\ e \in Candidates(c)
<1>1. PICK e \in Candidates(c) :
             /\ l.q = e.q /\ l.p = e.p /\ l.rise = e.rise /\ l.run = e.run /\ l.base = e.base
             /\ l.touches = TouchesOf(c, e) /\ Valid(c, e)
             /\ ~ l.broken => \A i \in e.p + 1 .. Len(c) : ~ Violated(c, e, i)
  BY LineOfFan
<1>2. /\ e.q \in Nat /\ e.p \in Nat /\ e.q < e.p /\ e.p <= Len(c) - 1 /\ 2 <= e.q
      /\ e.rise = c[e.p] - c[e.q] /\ e.run = e.p - e.q /\ e.base = c[e.p]
      /\ c[e.p] \in Int /\ c[e.q] \in Int /\ Len(c) \in Nat
  BY LinesAre, PivotsAre
<1>3. e.rise > 0 /\ Touched(c, e, NewPivot(c)) /\ Counted(c, e) >= MinTouches
  BY <1>1, TouchesAre DEF Triggered, Touched, Above, At
<1>4. Held(c, e)
  <2> SUFFICES ASSUME NEW i \in e.q .. Len(c) PROVE ~ Violated(c, e, i)
    BY DEF Held
  <2>1. CASE i \in e.q + 1 .. e.p - 1
    BY <2>1, <1>1 DEF Valid
  <2>2. CASE i \in e.p + 1 .. Len(c)
    <3>1. ~ l.broken
      BY DEF Triggered
    <3>2. \A j \in e.p + 1 .. Len(c) : ~ Violated(c, e, j)
      BY <3>1, <1>1
    <3> QED
      BY <3>2, <2>2
  <2>3. CASE i \in {e.q, e.p}
    <3>1. Above(e, i, c[i]) = 0
      BY <2>3, AnchorsAreOn
    <3>2. ~ (0 < - Tol * e.run)
      BY <1>2, SrFanAssumption
    <3> QED
      BY <3>1, <3>2 DEF Violated
  <2> QED
    BY <2>1, <2>2, <2>3, <1>2
<1> QED
  BY <1>1, <1>3, <1>4 DEF LiveLines, Counted

(* The base of an acceleration is two lows in a row.                       *)
LEMMA AcceleratesEverSteeper ==
    ASSUME NEW c \in Series, IsNewPivot(c), Accelerates(c)
    PROVE  EverSteeper(c)
<1> DEFINE lows == PivotLows(c) \cap 1 .. NewPivot(c) - 1
           p == Max(lows)  q == Max(lows \ {p})  l == Through(c, q, p)  new == NewPivot(c)
<1>1. new = Len(c) - 1 /\ new \in PivotLows(c) /\ new \in Nat /\ 1 <= new
  BY PivotsAre DEF IsNewPivot, NewPivot
<1>2. IsFiniteSet(lows) /\ Cardinality(lows) >= 2 /\ Cardinality(lows) \in Nat
  BY PivotsAre, FS_Subset, FS_CardinalityType DEF Accelerates
<1>3. lows \subseteq 0 .. Len(c) /\ Len(c) \in Nat
  BY PivotsAre
<1>4. p \in lows /\ \A i \in lows : i <= p
  <2> HIDE DEF lows
  <2>1. lows # {}
    BY <1>2, FS_EmptySet
  <2> QED
    BY <2>1, <1>3, GreatestIsThere
<1>5. q \in lows \ {p} /\ \A i \in lows \ {p} : i <= q
  <2> HIDE DEF lows, p
  <2>1. Cardinality(lows \ {p}) = Cardinality(lows) - 1 /\ IsFiniteSet(lows \ {p})
    BY <1>2, <1>4, FS_RemoveElement
  <2>2. lows \ {p} # {}
    BY <2>1, <1>2, FS_EmptySet
  <2>3. lows \ {p} \subseteq 0 .. Len(c)
    BY <1>3
  <2> QED
    BY <2>2, <2>3, <1>3, GreatestIsThere DEF q
<1>6. Base(c) = Segment(l, FALSE, Len(c), 2)
  BY DEF Base
<1> HIDE DEF p, q
<1>7. q \in PivotLows(c) /\ p \in PivotLows(c) /\ q < p /\ p < new /\ {q, p} \subseteq Nat
  BY <1>1, <1>4, <1>5, PivotsAre
<1>8. l \in Candidates(c)
  <2>1. <<q, p>> \in {b \in PivotLows(c) \X PivotLows(c) : b[1] < b[2]}
    BY <1>7
  <2> QED
    BY <2>1 DEF Candidates
<1>9. {i \in PivotLows(c) : l.q <= i} = {l.q, l.p, new} /\ l.p < new
  <2>1. l.q = q /\ l.p = p
    BY DEF Through
  <2>2. ASSUME NEW i \in PivotLows(c), q <= i PROVE i \in {q, p, new}
    <3>1. i \in Nat /\ 2 <= i /\ i <= new
      BY <1>1, PivotsAre
    <3>2. CASE i = new
      BY <3>2
    <3>3. CASE i # new
      <4>1. i \in lows
        BY <3>1, <3>3, <1>1
      <4> QED
        BY <4>1, <3>1, <1>5, <1>7, <2>2
    <3> QED
      BY <3>2, <3>3
  <2> QED
    BY <2>1, <2>2, <1>1, <1>7
<1>10. l.rise > 0 /\ Above(l, new, c[new]) > Max({TouchTol, Overshoot}) * l.run
  BY <1>6 DEF Accelerates, Segment, Above, At
<1>11. Above(l, new, c[new]) > TouchTol * l.run
  <2>1. {TouchTol, Overshoot} \subseteq 0 .. TouchTol + Overshoot /\ TouchTol + Overshoot \in Nat
    BY SrFanAssumption, ChartBarsAssumption
  <2>2. TouchTol <= Max({TouchTol, Overshoot}) /\ Max({TouchTol, Overshoot}) \in Nat
    BY <2>1, GreatestIsThere
  <2>3. l.run \in Nat
    BY <1>8, LinesAre DEF Line
  <2>4. TouchTol * l.run <= Max({TouchTol, Overshoot}) * l.run
    <3> DEFINE m == Max({TouchTol, Overshoot})  r == l.run
    <3>1. m \in Nat /\ TouchTol \in Nat /\ TouchTol <= m /\ r \in Nat
      BY <2>2, <2>3, SrFanAssumption
    <3> HIDE DEF m, r
    <3>2. TouchTol * r <= m * r
      BY <3>1
    <3> QED
      BY <3>2 DEF m, r
  <2>5. Above(l, new, c[new]) \in Int
    <3>1. l.base \in Int /\ l.run \in Int /\ l.rise \in Int /\ l.p \in Int /\ c[new] \in Int /\ new \in Int
      BY <1>1, <1>8, LinesAre, PivotsAre DEF Line
    <3> QED
      BY <3>1 DEF Above, At
  <2> QED
    BY <1>10, <2>2, <2>3, <2>4, <2>5, SrFanAssumption
<1> QED
  BY <1>8, <1>9, <1>10, <1>11 DEF EverSteeper

-----------------------------------------------------------------------------
(* The window, as each of the sides sees it.                               *)

Bars == [slot : Nat, close : Nat]

(* A side sees of every bar of the window its close, or its opposite.      *)
LEMMA FacingSeries ==
    ASSUME NEW window \in Seq(Bars), NEW side
    PROVE  LET c == Facing(side, Closes(window)) IN
           /\ c \in Series /\ Len(c) = Len(window) /\ Len(window) \in Nat
           /\ \A i \in 1 .. Len(window) : window[i] \in Bars /\ c[i] = On(side, window[i].close)
<1> DEFINE n == Len(window)  c == Facing(side, Closes(window))
<1>1. n \in Nat /\ DOMAIN window = 1 .. n /\ \A i \in 1 .. n : window[i] \in Bars
  BY LenProperties
<1>2. c = [i \in 1 .. n |-> On(side, window[i].close)]
  BY <1>1 DEF Facing, Closes
<1> HIDE DEF n, c
<1>3. \A i \in 1 .. n : c[i] \in Int /\ c[i] = On(side, window[i].close)
  BY <1>1, <1>2 DEF Bars, On
<1>4. c \in [1 .. n -> Int] /\ DOMAIN c = 1 .. n
  BY <1>2, <1>3
<1>5. c \in Series
  BY <1>1, <1>4, SeqDef DEF Series
<1>6. Len(c) = n
  BY <1>1, <1>4, <1>5, LenProperties DEF Series
<1> QED
  BY <1>1, <1>3, <1>5, <1>6 DEF c, n

(* What a side has found is an acceleration, or a line that is live.       *)
LEMMA FoundIsGrounded ==
    ASSUME NEW window \in Seq(Bars), NEW side,
           NEW c, c = Facing(side, Closes(window)),
           NEW x \in Found(View(side, Closes(window)))
    PROVE  /\ IsNewPivot(c)
           /\ \/ x.accel /\ setup.accel /\ EverSteeper(c)
              \/ ~ x.accel /\ \E e \in LiveLines(c) :
                    /\ e \in Candidates(c)
                    /\ x.line.q = e.q /\ x.line.p = e.p /\ x.line.rise = e.rise
                    /\ x.line.run = e.run /\ x.line.base = e.base
<1> DEFINE v == View(side, Closes(window))
<1>1. c \in Series
  BY FacingSeries
<1>2. v.c = c /\ v.fan = Range(Fan(c))
  BY DEF View
<1> HIDE DEF v
<1>3. IsNewPivot(c)
  BY <1>2 DEF Found, v
<1>4. CASE Spaced(v) # {}
  <2>1. x = [line |-> Best(Spaced(v)), accel |-> FALSE]
    BY <1>2, <1>3, <1>4 DEF Found, v
  <2>2. Spaced(v) \subseteq Range(Fan(c)) /\ \A l \in Spaced(v) : Triggered(c, l)
    BY <1>2 DEF Spaced, Triggers
  <2>3. Best(Spaced(v)) \in Spaced(v)
    BY <1>1, <1>4, <2>2, BestIsThere
  <2>4. x.line \in Range(Fan(c)) /\ Triggered(c, x.line) /\ ~ x.accel
    BY <2>1, <2>2, <2>3
  <2> QED
    BY <1>1, <1>3, <2>4, TriggeredIsLive
<1>5. CASE Spaced(v) = {}
  <2>1. x = [line |-> Base(c), accel |-> TRUE] /\ Accelerated(c)
    BY <1>2, <1>3, <1>5 DEF Found, v
  <2> QED
    BY <1>1, <1>3, <2>1, AcceleratesEverSteeper DEF Accelerated
<1> QED
  BY <1>4, <1>5

(* A window is made of bars, whatever the history lacks.                   *)
LEMMA WindowIsTyped ==
    ASSUME NEW past \in Seq(Nat), NEW ring \in Seq(Bars), NEW known \in Histories(past)
    PROVE  Window(past, known, ring) \in Seq(Bars)
<1> DEFINE old == [i \in 1 .. known |-> Bar(i, past[i])]
           m == Cardinality({i \in DOMAIN ring : ring[i].slot <= known}) + 1
<1>1. Len(past) \in Nat /\ \A i \in 1 .. Len(past) : past[i] \in Nat
  BY LenProperties
<1>2. known \in Int /\ known <= Len(past)
  BY <1>1 DEF Histories
<1>3. \A i \in 1 .. known : Bar(i, past[i]) \in Bars
  BY <1>1, <1>2 DEF Bar, Bars
<1>4. old \in Seq(Bars)
  <2>1. \E n \in Nat : 1 .. known = 1 .. n
    <3>1. CASE known \in Nat
      BY <3>1
    <3>2. CASE known \notin Nat
      <4>1. 1 .. known = 1 .. 0
        BY <3>2, <1>2
      <4> QED
        BY <4>1
    <3> QED
      BY <3>1, <3>2
  <2>2. PICK n \in Nat : 1 .. known = 1 .. n
    BY <2>1
  <2>3. old \in [1 .. n -> Bars]
    BY <1>3, <2>2
  <2> HIDE DEF old
  <2> QED
    BY <2>3, SeqDef
<1>5. Newer(ring, known) \in Seq(Bars)
  <2>1. Len(ring) \in Nat /\ DOMAIN ring = 1 .. Len(ring) /\ \A i \in 1 .. Len(ring) : ring[i] \in Bars
    BY LenProperties
  <2>2. IsFiniteSet({i \in DOMAIN ring : ring[i].slot <= known})
    <3> DEFINE K == {i \in DOMAIN ring : ring[i].slot <= known}
    <3>1. K \in SUBSET (1 .. Len(ring))
      BY <2>1
    <3>2. IsFiniteSet(1 .. Len(ring))
      BY <2>1, FS_Interval
    <3> HIDE DEF K
    <3>3. IsFiniteSet(K)
      BY <3>1, <3>2, FS_Subset
    <3> QED
      BY <3>3 DEF K
  <2>3. m \in Nat /\ 1 <= m
    BY <2>2, FS_CardinalityType
  <2> HIDE DEF m
  <2>4. \A i \in m .. Len(ring) : ring[i] \in Bars
    BY <2>1, <2>3
  <2>5. SubSeq(ring, m, Len(ring)) \in Seq(Bars)
    BY <2>1, <2>3, <2>4, SubSeqProperties
  <2> QED
    BY <2>5 DEF Newer, m
<1> QED
  BY <1>4, <1>5, ConcatProperties DEF Window

-----------------------------------------------------------------------------
(* What a bar's row says.                                                  *)

(* A bar that ends at a gate is told as that gate, or as GATED.            *)
LEMMA GateIsTold ==
    ASSUME NEW window, NEW gate, Gated(window, gate)
    PROVE  /\ last'.kind = "entry" /\ last'.order = "none" /\ last'.killer = gate
           /\ last'.decision = IF gate # "none" THEN gate ELSE "GATED"
<1> DEFINE skips == IF gate = "none" THEN {} ELSE {Skip(1, gate, FALSE)}
           against == {s \in skips : ~ s.bypassed}
<1>1. /\ last'.kind = "entry" /\ last'.order = "none" /\ last'.killer = gate
      /\ last'.decision = Decision("none", skips, FALSE)
  BY DEF Gated, Evaluated
<1>2. CASE gate = "none"
  BY <1>1, <1>2 DEF Decision
<1>3. CASE gate # "none"
  <2>1. against = {Skip(1, gate, FALSE)}
    BY <1>3 DEF Skip
  <2>2. First(against) = Skip(1, gate, FALSE)
    <3> HIDE DEF against
    <3>1. Skip(1, gate, FALSE).nth <= Skip(1, gate, FALSE).nth
      BY DEF Skip
    <3> QED
      BY <2>1, <3>1 DEF First
  <2>3. Decision("none", skips, FALSE) = gate
    BY <2>1, <2>2 DEF Decision, Skip
  <2> QED
    BY <1>1, <1>3, <2>3
<1> QED
  BY <1>2, <1>3

(* The first of the SKIPs that were not bypassed is the one that ended the *)
(* chain: those before it were bypassed, and the one without a filter's    *)
(* name comes last.                                                        *)
LEMMA KillerIsTold ==
    ASSUME NEW objections, Killer(objections) # "none"
    PROVE  Decision("none", Skips(objections), FALSE) = Killer(objections)
<1> DEFINE ends == Ends(objections)
           m == Min(ends)
           bypassed == Bypassed(objections)
           said == {k \in DOMAIN Filters : Filters[k] \in objections /\ \A e \in ends : k <= e}
           ended == Skip(m, Filters[m], FALSE)
           against == {s \in Skips(objections) : ~ s.bypassed}
<1>1. DOMAIN Filters = 1 .. 9 /\ Len(Filters) = 9
  BY DEF Filters
<1>2. ends # {} /\ Killer(objections) = Filters[m]
  BY DEF Killer
<1>3. ends = {k \in 1 .. 9 : Filters[k] \in objections \ bypassed}
  BY <1>1 DEF Ends
<1>4. Skips(objections) =
        {Skip(k, Filters[k], Filters[k] \in bypassed) : k \in said}
          \cup {Skip(10, "no_new_pivot", FALSE) : k \in said \cap ends \cap 1 .. 3}
  BY <1>1 DEF Skips
<1> HIDE DEF ends, bypassed
<1>5. m \in ends /\ (\A k \in ends : m <= k)
  <2>1. ends \subseteq Nat
    BY <1>3
  <2> QED
    BY <1>2, <2>1, LeastIsThere
<1> HIDE DEF m
<1>6. m \in 1 .. 9 /\ Filters[m] \in objections /\ Filters[m] \notin bypassed
  BY <1>3, <1>5
<1>7. m \in said
  BY <1>1, <1>5, <1>6
<1>8. \A k \in said : k \in 1 .. 9 /\ Filters[k] \in objections /\ k <= m
  BY <1>1, <1>5
<1>9. \A k \in said : Filters[k] \in bypassed \/ k = m
  <2> SUFFICES ASSUME NEW k \in said, Filters[k] \notin bypassed PROVE k = m
    OBVIOUS
  <2>1. k \in ends
    BY <1>3, <1>8
  <2>2. m <= k
    BY <1>5, <2>1
  <2> QED
    BY <1>6, <1>8, <2>2
<1> HIDE DEF said
<1>10. ended \in against
  <2>1. (Filters[m] \in bypassed) = FALSE
    BY <1>6
  <2>2. Skip(m, Filters[m], Filters[m] \in bypassed) \in Skips(objections)
    BY <1>4, <1>7
  <2>3. ended \in Skips(objections)
    BY <2>1, <2>2
  <2>4. ~ ended.bypassed
    BY DEF Skip
  <2> QED
    BY <2>3, <2>4
<1>11. \A s \in against : s = ended \/ s.nth = 10
  <2> SUFFICES ASSUME NEW s \in Skips(objections), ~ s.bypassed, s.nth # 10
               PROVE  s = ended
    OBVIOUS
  <2>1. PICK k \in said : s = Skip(k, Filters[k], Filters[k] \in bypassed)
    BY <1>4 DEF Skip
  <2>2. Filters[k] \notin bypassed
    BY <2>1 DEF Skip
  <2>3. (Filters[k] \in bypassed) = FALSE
    BY <2>2
  <2> QED
    BY <2>1, <2>2, <2>3, <1>9
<1> HIDE DEF against
<1>12. First(against) = ended
  <2>1. ended.nth = m
    BY DEF Skip
  <2> HIDE DEF ended
  <2>2. \A t \in against : ended.nth <= t.nth
    <3> SUFFICES ASSUME NEW t \in against PROVE ended.nth <= t.nth
      OBVIOUS
    <3>1. CASE t = ended
      BY <3>1, <2>1, <1>6
    <3>2. CASE t.nth = 10
      BY <3>2, <2>1, <1>6
    <3> QED
      BY <3>1, <3>2, <1>11
  <2>3. \A t \in against : t.nth <= ended.nth => t = ended
    <3> SUFFICES ASSUME NEW t \in against, t.nth <= ended.nth, t # ended PROVE FALSE
      OBVIOUS
    <3>1. t.nth = 10
      BY <1>11
    <3> QED
      BY <3>1, <2>1, <1>6
  <2>4. First(against) \in against /\ \A t \in against : First(against).nth <= t.nth
    BY <1>10, <2>2 DEF First
  <2> QED
    BY <2>3, <2>4, <1>10
<1>13. ended.filter = Filters[m]
  BY DEF Skip
<1> QED
  BY <1>2, <1>10, <1>12, <1>13 DEF Decision, against

-----------------------------------------------------------------------------
(* An evaluation, and what it must be.                                     *)

(* What EntryIsNotAnExit says of a step, and what an evaluation for an     *)
(* entry guarantees.                                                       *)
EntryFollows ==
    last'.order # "none" /\ Gapless(last'.window) =>
        ~ ThroughLine(trade', last'.window[Len(last'.window)])

Sound(window) ==
    /\ last'.kind = "entry" /\ (last'.order # "none" => last'.window = window)
    /\ last'.order # "none" => Grounded(Closes(window), last'.order)
    /\ DecisionIsTheKiller' /\ EntryFollows

(* A gate sends no order.                                                  *)
LEMMA GatedIsSound ==
    ASSUME NEW window, NEW gated, NEW gate, Gated(gated, gate)
    PROVE  Sound(window)
<1>1. /\ last'.kind = "entry" /\ last'.order = "none" /\ last'.killer = gate
      /\ last'.decision = IF gate # "none" THEN gate ELSE "GATED"
  BY GateIsTold
<1> QED
  BY <1>1 DEF Sound, DecisionIsTheKiller, EntryFollows

(* The line of an entry, by the clock, is the one that was found by number. *)
LEMMA HeldIsNotThrough ==
    ASSUME NEW window \in Seq(Bars), Gapless(window), NEW side, NEW e,
           NEW c, c = Facing(side, Closes(window)), e \in Candidates(c), Held(c, e),
           NEW t, t.side = side, t.rise = e.rise, t.run = e.run, t.base = e.base,
           t.slot = window[e.p].slot
    PROVE  ~ ThroughLine(t, window[Len(window)])
<1> DEFINE n == Len(window)  bar == window[n]
           v == c[n] * e.run  w == e.base * e.run  d == e.rise * (n - e.p)
           near == Tol * e.run  far == TouchTol * e.run
<1>1. c \in Series /\ Len(c) = n /\ n \in Nat
      /\ \A i \in 1 .. n : window[i] \in Bars /\ c[i] = On(side, window[i].close)
  BY FacingSeries
<1>2. e.q \in Nat /\ e.p \in Nat /\ e.run \in Nat /\ e.rise \in Int /\ e.base \in Int
      /\ e.q < e.p /\ e.p < n /\ 1 <= e.q
  BY <1>1, LinesAre, PivotsAre DEF Line
<1>3. bar.slot - window[e.p].slot = n - e.p
  <2>1. DOMAIN window = 1 .. n
    BY <1>1, LenProperties
  <2>2. bar.slot - window[1].slot = n - 1 /\ window[e.p].slot - window[1].slot = e.p - 1
    BY <1>1, <1>2, <2>1 DEF Gapless
  <2>3. 1 \in 1 .. n /\ n \in 1 .. n /\ e.p \in 1 .. n
    BY <1>1, <1>2
  <2>4. bar \in Bars /\ window[1] \in Bars /\ window[e.p] \in Bars
    BY <1>1, <2>3
  <2> HIDE DEF n, bar
  <2> DEFINE ends == bar.slot  starts == window[1].slot  anchor == window[e.p].slot  p == e.p
  <2>5. ends \in Int /\ starts \in Int /\ anchor \in Int
    BY <2>4 DEF Bars
  <2>6. n \in Int /\ p \in Int
    BY <1>1, <1>2
  <2>7. ends - starts = n - 1 /\ anchor - starts = p - 1
    BY <2>2
  <2> HIDE DEF ends, starts, anchor, p
  <2>8. ends - anchor = n - p
    BY <2>5, <2>6, <2>7
  <2> QED
    BY <2>8 DEF ends, anchor, p
<1>4. c[n] \in Int /\ c[n] = On(t.side, bar.close)
  BY <1>1, <1>2 DEF Bars, On
<1>5. ~ (v - (w + d) < -near)
  <2>1. ~ Violated(c, e, n)
    BY <1>1, <1>2 DEF Held
  <2>2. Above(e, n, c[n]) = v - (w + d)
    BY DEF Above, At
  <2>3. -Tol * e.run = -near
    BY <1>2, SrFanAssumption
  <2> QED
    BY <2>1, <2>2, <2>3 DEF Violated
<1>6. near \in Nat /\ far \in Nat /\ near <= far
  <2> DEFINE r == e.run
  <2>1. r \in Nat /\ Tol \in Nat /\ TouchTol \in Nat /\ Tol <= TouchTol
    BY <1>2, SrFanAssumption
  <2> HIDE DEF r
  <2>2. Tol * r \in Nat /\ TouchTol * r \in Nat /\ Tol * r <= TouchTol * r
    BY <2>1
  <2> QED
    BY <2>2 DEF r
<1>7. v \in Int /\ w \in Int /\ d \in Int
  BY <1>1, <1>2, <1>4
<1>8. ThroughLine(t, bar) => v < (w + d) - far
  BY <1>3, <1>4 DEF ThroughLine, LineAt
<1> HIDE DEF v, w, d, near, far
<1>9. ~ (v < (w + d) - far)
  BY <1>5, <1>6, <1>7
<1> QED
  BY <1>8, <1>9

(* An entry that is sent is on what was found, and names itself.           *)
LEMMA FireIsSound ==
    ASSUME NEW window \in Seq(Bars), NEW side \in Sides, NEW objections,
           NEW x \in Found(View(side, Closes(window))),
           Fires(window, side, x, objections)
    PROVE  Sound(window)
<1> DEFINE c == Facing(side, Closes(window))
           ord == IF side = "long" THEN "BUY" ELSE "SELL"
<1>1. /\ last'.kind = "entry" /\ last'.order = ord /\ last'.window = window
      /\ last'.decision = Decision(ord, Skips(objections), FALSE)
  BY DEF Fires, Evaluated
<1>2. /\ trade'.side = side /\ trade'.rise = x.line.rise /\ trade'.run = x.line.run
      /\ trade'.base = x.line.base /\ trade'.accel = x.accel
      /\ trade'.slot = window[x.line.p].slot
  BY DEF Fires
<1>3. ord # "none" /\ Side(ord) = side
  BY DEF Sides, Side
<1>4. /\ IsNewPivot(c)
      /\ \/ x.accel /\ setup.accel /\ EverSteeper(c)
         \/ ~ x.accel /\ \E e \in LiveLines(c) :
               /\ e \in Candidates(c)
               /\ x.line.q = e.q /\ x.line.p = e.p /\ x.line.rise = e.rise
               /\ x.line.run = e.run /\ x.line.base = e.base
  BY FoundIsGrounded
<1> HIDE DEF ord
<1>5. Grounded(Closes(window), ord)
  <2>1. Facing(Side(ord), Closes(window)) = c
    BY <1>3
  <2> HIDE DEF c
  <2>2. NewPivot(c) \in PivotLows(c) /\ (LiveLines(c) # {} \/ (setup.accel /\ EverSteeper(c)))
    BY <1>4 DEF IsNewPivot
  <2> QED
    BY <2>1, <2>2 DEF Grounded
<1>6. DecisionIsTheKiller'
  BY <1>1, <1>3 DEF DecisionIsTheKiller, Decision
<1>7. ASSUME Gapless(window) PROVE ~ ThroughLine(trade', window[Len(window)])
  <2>1. CASE x.accel
    BY <1>2, <2>1 DEF ThroughLine
  <2>2. CASE ~ x.accel
    <3>1. PICK e \in LiveLines(c) :
               /\ e \in Candidates(c)
               /\ x.line.q = e.q /\ x.line.p = e.p /\ x.line.rise = e.rise
               /\ x.line.run = e.run /\ x.line.base = e.base
      BY <1>4, <2>2
    <3>2. Held(c, e)
      BY DEF LiveLines
    <3> QED
      BY <1>2, <1>7, <3>1, <3>2, HeldIsNotThrough
  <2> QED
    BY <2>1, <2>2
<1> QED
  BY <1>1, <1>5, <1>6, <1>7 DEF Sound, EntryFollows

(* A bar looked at sends an entry, or tells what kept it from that.        *)
LEMMA LooksAreSound ==
    ASSUME NEW window \in Seq(Bars), NEW late, Looks(window, late)
    PROVE  Sound(window)
<1> DEFINE views == {View(side, Closes(window)) : side \in Sides}
           found == UNION {{<<v, x>> : x \in Found(v)} : v \in views}
<1>1. CASE found = {}
  <2>1. \E gate : Gated(window, gate)
    BY <1>1 DEF Looks
  <2> QED
    BY <2>1, GatedIsSound
<1>2. CASE found # {}
  <2>1. PICK f \in found :
           LET objections == AllObjections(Objections(f[1], f[2].line, late)) IN
           IF Killer(objections) = "none"
           THEN Fires(window, f[1].side, f[2], objections)
           ELSE /\ Evaluated("entry", window, Killer(objections), "none", Skips(objections))
                /\ UNCHANGED <<state, trade>>
    BY <1>2 DEF Looks
  <2>2. PICK side \in Sides : f[1] = View(side, Closes(window)) /\ f[2] \in Found(f[1])
    OBVIOUS
  <2>3. f[1].side = side
    BY <2>2 DEF View
  <2> DEFINE objections == AllObjections(Objections(f[1], f[2].line, late))
  <2>4. CASE Killer(objections) = "none"
    <3>1. Fires(window, side, f[2], objections)
      BY <2>1, <2>3, <2>4
    <3> HIDE DEF objections
    <3> QED
      BY <2>2, <3>1, FireIsSound
  <2>5. CASE Killer(objections) # "none"
    <3>1. Evaluated("entry", window, Killer(objections), "none", Skips(objections))
      BY <2>1, <2>5
    <3> HIDE DEF objections
    <3>2. /\ last'.kind = "entry" /\ last'.order = "none" /\ last'.killer = Killer(objections)
          /\ last'.decision = Decision("none", Skips(objections), FALSE)
      BY <3>1 DEF Evaluated
    <3>3. last'.decision = Killer(objections)
      BY <2>5, <3>2, KillerIsTold
    <3> QED
      BY <2>5, <3>2, <3>3
         DEF Sound, DecisionIsTheKiller, EntryFollows
  <2> QED
    BY <2>4, <2>5
<1> QED
  BY <1>1, <1>2

(* So does every bar of a bot that awaits an entry.                        *)
LEMMA EntryIsSound ==
    ASSUME NEW window \in Seq(Bars), NEW bar, EvaluatesEntry(bar, window)
    PROVE  Sound(window)
<1>1. \/ \E gate : Gated(window, gate) \/ Gated(<<>>, gate)
      \/ \E late \in Delays : Looks(window, late)
  BY DEF EvaluatesEntry, Regime
<1> QED
  BY <1>1, GatedIsSound, LooksAreSound

-----------------------------------------------------------------------------
(* The steps.                                                              *)

(* What the proofs need to know of the types; that the bars of the ring    *)
(* are older than the one in progress, and that one no newer than the      *)
(* market's; and the invariant.                                            *)
ChartTypes ==
    /\ setup \in Setups
    /\ market \in Seq(Nat) /\ price \in Nat
    /\ partial \in Bars /\ local \in Seq(Bars)

InOrder ==
    /\ 1 <= partial.slot /\ partial.slot <= Len(market) + 1
    /\ \A i \in 1 .. Len(local) : local[i].slot < partial.slot

ChartInv == ChartTypes /\ InOrder /\ DecisionIsTheKiller

(* Before the first bar nothing has been evaluated.                        *)
LEMMA ChartStarts == Init => ChartInv
<1> SUFFICES ASSUME Init PROVE ChartInv
  OBVIOUS
<1>1. setup \in Setups /\ price \in setup.prices[1] /\ setup.prices \in Seq(SUBSET Nat) \ {<<>>}
  BY ChartBarsAssumption DEF Init
<1>2. setup.prices[1] \in SUBSET Nat
  BY <1>1, EmptySeq, LenProperties
<1>3. price \in Nat
  BY <1>1, <1>2
<1>4. market \in Seq(Nat) /\ local \in Seq(Bars)
  BY EmptySeq DEF Init
<1>5. partial \in Bars
  BY <1>3 DEF Init, Bar, Bars
<1>6. InOrder
  BY EmptySeq DEF Init, InOrder, Bar
<1>7. last.kind = "none"
  BY DEF Init, NoEval
<1> QED
  BY <1>1, <1>3, <1>4, <1>5, <1>6, <1>7 DEF ChartInv, ChartTypes, DecisionIsTheKiller

(* A full ring drops its oldest bar, never the newest.                     *)
LEMMA RingIsTyped ==
    ASSUME NEW bars \in Seq(Bars), bars # <<>>, setup \in Setups
    PROVE  LET ring == Ring(bars) IN
           /\ ring \in Seq(Bars) /\ Len(ring) \in Nat \ {0} /\ Len(bars) \in Nat
           /\ ring[Len(ring)] = bars[Len(bars)]
           /\ \A i \in 1 .. Len(ring) - 1 : \E j \in 1 .. Len(bars) - 1 : ring[i] = bars[j]
<1>1. setup.lookback \in Nat \ {0} /\ Len(bars) \in Nat \ {0}
  BY ChartBarsAssumption, LenProperties, EmptySeq
<1>2. CASE Len(bars) > setup.lookback
  <2>1. /\ Tail(bars) \in Seq(Bars) /\ Len(Tail(bars)) = Len(bars) - 1
        /\ \A i \in 1 .. Len(Tail(bars)) : Tail(bars)[i] = bars[i + 1]
    BY HeadTailProperties
  <2>2. Ring(bars) = Tail(bars)
    BY <1>2 DEF Ring
  <2>3. ASSUME NEW i \in 1 .. Len(bars) - 2
        PROVE  \E j \in 1 .. Len(bars) - 1 : Tail(bars)[i] = bars[j]
    <3>1. i + 1 \in 1 .. Len(bars) - 1 /\ i \in 1 .. Len(Tail(bars))
      BY <1>1, <2>1
    <3> QED
      BY <2>1, <3>1
  <2>4. Len(Tail(bars)) \in 1 .. Len(Tail(bars)) /\ Len(Tail(bars)) + 1 = Len(bars)
    BY <1>1, <1>2, <2>1
  <2> QED
    BY <1>1, <2>1, <2>2, <2>3, <2>4
<1>3. CASE ~ (Len(bars) > setup.lookback)
  BY <1>1, <1>3 DEF Ring
<1> QED
  BY <1>2, <1>3

(* The elements of a sequence of bars.                                     *)
LEMMA BarsAre ==
    ASSUME NEW bars \in Seq(Bars)
    PROVE  /\ Len(bars) \in Nat /\ DOMAIN bars = 1 .. Len(bars)
           /\ \A i \in 1 .. Len(bars) :
                 bars[i] \in Bars /\ bars[i].slot \in Nat /\ bars[i].close \in Nat
<1>1. Len(bars) \in Nat /\ DOMAIN bars = 1 .. Len(bars) /\ \A i \in 1 .. Len(bars) : bars[i] \in Bars
  BY LenProperties
<1>2. \A b \in Bars : b.slot \in Nat /\ b.close \in Nat
  BY DEF Bars
<1> QED
  BY <1>1, <1>2

(* What a ring, whose last bar is the only one of the newest slot, adds to *)
(* a history that knows that slot or ends with the one before it.          *)
LEMMA NewestIsAdded ==
    ASSUME NEW ring \in Seq(Bars), NEW k \in Nat \ {0}, k = Len(ring),
           NEW n \in Nat \ {0}, ring[k].slot = n,
           \A i \in 1 .. k - 1 : ring[i].slot < n
    PROVE  /\ Newer(ring, n) = <<>>
           /\ Newer(ring, n - 1) \in Seq(Bars) /\ Len(Newer(ring, n - 1)) = 1
           /\ Newer(ring, n - 1)[1] = ring[k]
<1>1. DOMAIN ring = 1 .. k /\ \A i \in 1 .. k : ring[i] \in Bars /\ ring[i].slot \in Nat
  BY BarsAre
<1>2. ASSUME NEW i \in 1 .. k PROVE i = k \/ i \in 1 .. k - 1
  OBVIOUS
<1>3. \A i \in 1 .. k : ring[i].slot <= n
  BY <1>1, <1>2
<1>4. Newer(ring, n) = <<>>
  <2>1. {i \in DOMAIN ring : ring[i].slot <= n} = 1 .. k
    BY <1>1, <1>3
  <2>2. Cardinality(1 .. k) = IF 1 > k THEN 0 ELSE k - 1 + 1
    BY FS_Interval
  <2>3. SubSeq(ring, k + 1, k) = <<>>
    BY SubSeqEmpty
  <2>4. Cardinality(1 .. k) = k
    BY <2>2
  <2> QED
    BY <2>1, <2>3, <2>4 DEF Newer
<1>5. Newer(ring, n - 1) = SubSeq(ring, k, k)
  <2>1. \A i \in 1 .. k : ring[i].slot <= n - 1 <=> i # k
    BY <1>1, <1>2
  <2>2. {i \in DOMAIN ring : ring[i].slot <= n - 1} = 1 .. k - 1
    BY <1>1, <2>1
  <2>3. Cardinality(1 .. k - 1) = k - 1
    BY FS_Interval
  <2>4. Cardinality(1 .. k - 1) + 1 = k
    BY <2>3
  <2> QED
    BY <2>2, <2>4 DEF Newer
<1>6. /\ SubSeq(ring, k, k) \in Seq(Bars) /\ Len(SubSeq(ring, k, k)) = 1
      /\ SubSeq(ring, k, k)[1] = ring[k]
  <2>1. \A i \in k .. k : ring[i] \in Bars
    BY <1>1
  <2>2. /\ SubSeq(ring, k, k) \in Seq(Bars)
        /\ Len(SubSeq(ring, k, k)) = IF k <= k THEN k - k + 1 ELSE 0
        /\ \A i \in 1 .. k - k + 1 : SubSeq(ring, k, k)[i] = ring[k + i - 1]
    BY <2>1, SubSeqProperties
  <2>3. k - k + 1 = 1 /\ k + 1 - 1 = k
    OBVIOUS
  <2> QED
    BY <2>2, <2>3
<1> QED
  BY <1>4, <1>5, <1>6

(* The window is the market, bar by bar, when the ring ends with the       *)
(* market's newest bar and the history is at most that bar behind.         *)
LEMMA WindowIsTheMarket ==
    ASSUME NEW past \in Seq(Nat), NEW n \in Nat \ {0}, n = Len(past),
           NEW ring \in Seq(Bars), NEW k \in Nat \ {0}, k = Len(ring),
           NEW known \in {n - 1, n},
           ring[k] = Bar(n, past[n]), \A i \in 1 .. k - 1 : ring[i].slot < n
    PROVE  Closes(Window(past, known, ring)) = past
<1>1. known \in Nat /\ DOMAIN past = 1 .. n /\ \A i \in 1 .. n : past[i] \in Nat
  BY LenProperties
<1>2. ring[k].slot = n /\ ring[k].close = past[n]
  BY DEF Bar
<1>3. /\ Newer(ring, n) = <<>>
      /\ Newer(ring, n - 1) \in Seq(Bars) /\ Len(Newer(ring, n - 1)) = 1
      /\ Newer(ring, n - 1)[1] = ring[k]
  BY <1>2, NewestIsAdded
<1> DEFINE old == [i \in 1 .. known |-> Bar(i, past[i])]
           new == Newer(ring, known)
           window == Window(past, known, ring)
<1>4. /\ old \in Seq(Bars) /\ Len(old) = known
      /\ \A i \in 1 .. known : old[i].close = past[i]
  <2>1. \A i \in 1 .. known : Bar(i, past[i]) \in Bars /\ Bar(i, past[i]).close = past[i]
    BY <1>1 DEF Bar, Bars
  <2>2. /\ old \in [1 .. known -> Bars] /\ DOMAIN old = 1 .. known
        /\ \A i \in 1 .. known : old[i].close = past[i]
    BY <2>1
  <2> HIDE DEF old
  <2>3. old \in Seq(Bars)
    BY <1>1, <2>2, SeqDef
  <2>4. Len(old) \in Nat /\ DOMAIN old = 1 .. Len(old)
    BY <2>3, LenProperties
  <2>5. Len(old) = known
    BY <1>1, <2>2, <2>4
  <2> QED
    BY <2>2, <2>3, <2>5
<1>5. new \in Seq(Bars) /\ Len(new) = n - known /\ (known = n - 1 => new[1] = ring[k])
  <2>1. CASE known = n
    <3>1. new = <<>>
      BY <1>3, <2>1
    <3> HIDE DEF new
    <3>2. new \in Seq(Bars) /\ Len(new) = 0
      BY <3>1, EmptySeq
    <3> QED
      BY <2>1, <3>2
  <2>2. CASE known = n - 1
    BY <1>3, <2>2
  <2> QED
    BY <2>1, <2>2
<1>6. window = old \o new
  BY DEF Window
<1> HIDE DEF old, new, window
<1>7. /\ window \in Seq(Bars) /\ Len(window) = n
      /\ \A i \in 1 .. n : window[i] = IF i <= known THEN old[i] ELSE new[i - known]
  <2>1. Len(old) + Len(new) = n
    BY <1>1, <1>4, <1>5
  <2> QED
    BY <2>1, <1>4, <1>5, <1>6, ConcatProperties
<1>8. ASSUME NEW i \in 1 .. n PROVE window[i].close = past[i]
  <2>1. CASE i <= known
    BY <1>1, <1>4, <1>7, <2>1
  <2>2. CASE ~ (i <= known)
    <3>1. i = n /\ known = n - 1 /\ i - known = 1
      BY <1>1, <2>2
    <3> QED
      BY <1>2, <1>5, <1>7, <2>2, <3>1
  <2> QED
    BY <2>1, <2>2
<1>9. DOMAIN window = 1 .. n
  BY <1>7, LenProperties
<1>10. past = [i \in 1 .. n |-> past[i]]
  BY <1>1, LenProperties
<1> QED
  BY <1>8, <1>9, <1>10 DEF Closes, window

(* What a step does to what was last evaluated.                            *)
Steps ==
    \/ last' = last
    \/ \E window : Sound(window) /\ (Followed => Closes(window) = market')
    \/ last'.kind = "exit" /\ state # "AWAITING_ENTRY_TRIGGER"

(* A completed bar: one that is not evaluated, an exit check, or an entry. *)
LEMMA EvaluationIsSound ==
    ASSUME NEW past \in Seq(Nat), NEW ring \in Seq(Bars), Len(ring) \in Nat \ {0},
           Evaluates(partial, past, ring), market' = past,
           ring[Len(ring)] = partial, 1 <= partial.slot,
           \A i \in 1 .. Len(ring) - 1 : ring[i].slot < partial.slot
    PROVE  Steps
<1>1. CASE last' = last
  BY <1>1 DEF Steps
<1>2. CASE state = "AWAITING_EXIT_TRIGGER" /\ EvaluatesExit(partial)
  BY <1>2 DEF Steps, EvaluatesExit, Evaluated
<1>3. CASE \E window \in {Window(past, known, ring) : known \in Histories(past)} :
              EvaluatesEntry(partial, window)
  <2>1. PICK known \in Histories(past) : EvaluatesEntry(partial, Window(past, known, ring))
    BY <1>3
  <2> DEFINE window == Window(past, known, ring)
  <2>2. Sound(window)
    BY <2>1, WindowIsTyped, EntryIsSound
  <2>3. ASSUME Followed PROVE Closes(window) = past
    <3>1. known \in {Len(past) - 1, Len(past)}
      BY <2>3 DEF Histories, Followed
    <3>2. partial = Bar(Len(past), past[Len(past)]) /\ partial.slot = Len(past)
      BY <2>3 DEF Followed, Bar
    <3>3. Len(past) \in Nat \ {0}
      BY <3>2, LenProperties
    <3> QED
      BY <3>1, <3>2, <3>3, WindowIsTheMarket
  <2> HIDE DEF window
  <2> QED
    BY <2>2, <2>3 DEF Steps
<1> QED
  BY <1>1, <1>2, <1>3 DEF Evaluates

(* A raw bar: the bot may have an order at work, or it goes into the bar   *)
(* in progress, or completes that one.                                     *)
LEMMA RawBarIsSound ==
    ASSUME ChartTypes, InOrder, RawBar
    PROVE  ChartTypes' /\ InOrder' /\ Steps
<1>1. PICK rolls \in BOOLEAN :
        LET past == IF rolls THEN Append(market, price) ELSE market IN
        /\ Len(past) < Len(setup.prices)
        /\ market' = past /\ price' \in setup.prices[Len(past) + 1]
        /\ IF state \in Placed THEN UNCHANGED <<partial, state, trade, local, last>>
           ELSE Hears(price', past)
        /\ UNCHANGED <<setup, cool>>
  BY DEF RawBar
<1> DEFINE past == IF rolls THEN Append(market, price) ELSE market
<1>2. past \in Seq(Nat) /\ Len(past) \in Nat /\ Len(market) \in Nat /\ Len(market) <= Len(past)
  BY AppendProperties, LenProperties DEF ChartTypes
<1>3. /\ Len(past) < Len(setup.prices) /\ market' = past /\ setup' = setup
      /\ price' \in setup.prices[Len(past) + 1]
      /\ IF state \in Placed THEN UNCHANGED <<partial, state, trade, local, last>>
         ELSE Hears(price', past)
  BY <1>1
<1> HIDE DEF past
<1>4. price' \in Nat
  <2>1. setup.prices \in Seq(SUBSET Nat)
    BY ChartBarsAssumption DEF ChartTypes
  <2>2. Len(setup.prices) \in Nat
        /\ \A i \in 1 .. Len(setup.prices) : setup.prices[i] \in SUBSET Nat
    BY <2>1, LenProperties
  <2>3. Len(past) + 1 \in 1 .. Len(setup.prices)
    BY <1>2, <1>3, <2>2
  <2> QED
    BY <1>3, <2>2, <2>3
<1>5. partial.slot \in Nat
  BY DEF ChartTypes, Bars
<1>6. CASE state \in Placed
  <2>1. ChartTypes' /\ Steps
    BY <1>2, <1>3, <1>4, <1>6 DEF ChartTypes, Steps
  <2>2. InOrder'
    BY <1>2, <1>3, <1>5, <1>6 DEF InOrder
  <2> QED
    BY <2>1, <2>2
<1>7. CASE state \notin Placed /\ partial.slot = Len(past) + 1
  <2>1. partial' = [partial EXCEPT !.close = price'] /\ UNCHANGED <<local, last>>
    BY <1>3, <1>7 DEF Hears
  <2>2. partial' \in Bars /\ partial'.slot = partial.slot
    BY <2>1, <1>4 DEF ChartTypes, Bars
  <2>3. InOrder'
    BY <1>2, <1>3, <1>5, <1>7, <2>1, <2>2 DEF InOrder
  <2> QED
    BY <1>2, <1>3, <1>4, <2>1, <2>2, <2>3 DEF ChartTypes, Steps
<1>8. CASE state \notin Placed /\ partial.slot # Len(past) + 1
  <2> DEFINE bars == Append(local, partial)  ring == Ring(bars)
  <2>1. /\ partial' = Bar(Len(past) + 1, price') /\ local' = ring
        /\ Evaluates(partial, past, ring)
    BY <1>3, <1>8 DEF Hears
  <2>2. /\ bars \in Seq(Bars) /\ bars # <<>> /\ Len(bars) = Len(local) + 1
        /\ bars[Len(bars)] = partial /\ Len(local) \in Nat
        /\ \A i \in 1 .. Len(local) : bars[i] = local[i]
    BY AppendProperties, LenProperties DEF ChartTypes
  <2> HIDE DEF bars
  <2>3. /\ ring \in Seq(Bars) /\ Len(ring) \in Nat \ {0}
        /\ ring[Len(ring)] = partial
        /\ \A i \in 1 .. Len(ring) - 1 : \E j \in 1 .. Len(bars) - 1 : ring[i] = bars[j]
    BY <2>2, RingIsTyped DEF ChartTypes
  <2> HIDE DEF ring
  <2>4. \A i \in 1 .. Len(ring) - 1 : ring[i].slot < partial.slot
    BY <2>2, <2>3 DEF InOrder
  <2>5. Steps
    BY <1>2, <1>3, <2>1, <2>3, <2>4, EvaluationIsSound DEF InOrder
  <2>6. partial' \in Bars /\ partial'.slot = Len(past) + 1
    BY <2>1, <1>2, <1>4 DEF Bar, Bars
  <2>7. partial.slot < partial'.slot
    BY <1>2, <1>5, <1>8, <2>6 DEF InOrder
  <2>8. ASSUME NEW i \in 1 .. Len(ring) PROVE ring[i].slot < partial'.slot
    <3>1. ring[i] \in Bars /\ ring[i].slot \in Nat
      BY <2>3, BarsAre
    <3>2. ring[i].slot <= partial.slot
      <4>1. CASE i = Len(ring)
        BY <1>5, <2>3, <4>1
      <4>2. CASE i # Len(ring)
        <5>1. i \in 1 .. Len(ring) - 1
          BY <2>3, <4>2
        <5> QED
          BY <1>5, <2>4, <3>1, <5>1
      <4> QED
        BY <4>1, <4>2
    <3> QED
      BY <1>2, <1>5, <2>6, <2>7, <3>1, <3>2
  <2>9. InOrder'
    BY <1>2, <1>3, <2>1, <2>6, <2>8 DEF InOrder
  <2> QED
    BY <1>2, <1>3, <1>4, <2>1, <2>3, <2>5, <2>6, <2>9 DEF ChartTypes
<1> QED
  BY <1>6, <1>7, <1>8

(* No other step evaluates a bar.                                          *)
LEMMA ChartStepIsSound ==
    ASSUME ChartInv, [Next]_vars
    PROVE  ChartTypes' /\ InOrder' /\ Steps
<1>1. CASE RawBar
  BY <1>1, RawBarIsSound DEF ChartInv
<1>2. CASE EntryFills \/ ExitFills \/ Unfilled \/ Forces
  BY <1>2 DEF EntryFills, ExitFills, Unfilled, Forces, ChartInv, ChartTypes, InOrder, Steps
<1>3. CASE UNCHANGED vars
  BY <1>3 DEF vars, ChartInv, ChartTypes, InOrder, Steps
<1> QED
  BY <1>1, <1>2, <1>3 DEF Next

(* The invariant is inductive.                                             *)
LEMMA ChartStepKeeps == ChartInv /\ [Next]_vars => ChartInv'
<1> SUFFICES ASSUME ChartInv, [Next]_vars PROVE ChartInv'
  OBVIOUS
<1>1. ChartTypes' /\ InOrder' /\ Steps
  BY ChartStepIsSound
<1>2. CASE last' = last
  BY <1>1, <1>2 DEF ChartInv, DecisionIsTheKiller
<1>3. CASE \E window : Sound(window)
  BY <1>1, <1>3 DEF ChartInv, Sound
<1>4. CASE last'.kind = "exit"
  BY <1>1, <1>4 DEF ChartInv, DecisionIsTheKiller
<1> QED
  BY <1>1, <1>2, <1>3, <1>4 DEF Steps

-----------------------------------------------------------------------------
(* An entry is sent on a line that is rising, has held and was touched one *)
(* bar ago, or on lows that rise ever more (FiredOnLiveLine): whatever the *)
(* fan of the side made of the lines, the tolerances, the age of the lows  *)
(* and the filters bypassed.  It is there in the window that was stitched  *)
(* of history and ring; and in the market, wherever the history lagged by  *)
(* no more than the bar that the aggregator has just closed.               *)
THEOREM EntriesAreGrounded == Spec => FiredOnLiveLine
<1>1. ASSUME ChartInv, [Next]_vars
      PROVE  [last' # last /\ last'.kind = "entry" /\ last'.order # "none" =>
                /\ Grounded(Closes(last'.window), last'.order)
                /\ Followed => Grounded(market', last'.order)]_vars
  BY <1>1, ChartStepIsSound DEF Steps, Sound
<1> QED
  BY <1>1, ChartStarts, ChartStepKeeps, PTL DEF Spec, FiredOnLiveLine

(* The row that _synthesize_bar_eval() makes of a bar names the order, or  *)
(* the filter that ended the chain, and not a bypassed one before it.      *)
THEOREM DecisionsNameTheKiller == Spec => []DecisionIsTheKiller
<1>1. ChartInv => DecisionIsTheKiller
  BY DEF ChartInv
<1> QED
  BY <1>1, ChartStarts, ChartStepKeeps, PTL DEF Spec

(* Found by the numbers of bars and followed by their times, the line of   *)
(* an entry is one that the exit check of the same bar would leave alone,  *)
(* where no bar is missing from the window.                                *)
THEOREM EntriesAreNotExits == Spec => EntryIsNotAnExit
<1>1. ASSUME ChartInv, [Next]_vars
      PROVE  [state = "AWAITING_ENTRY_TRIGGER" /\ last'.order # "none" /\ last' # last
                /\ Gapless(last'.window) =>
                 ~ ThroughLine(trade', last'.window[Len(last'.window)])]_vars
  BY <1>1, ChartStepIsSound DEF Steps, Sound, EntryFollows
<1> QED
  BY <1>1, ChartStarts, ChartStepKeeps, PTL DEF Spec, EntryIsNotAnExit
==============================================================================
