-------------------------------- MODULE SrFan --------------------------------
(***************************************************************************)
(* signals/sr_fan.py: the support and resistance lines of a series of bar  *)
(* closes, and the wedges between them.  Prices are whole ticks, a line is *)
(* kept by its two anchors and compared by cross-multiplication, so there  *)
(* is no rounding and EPS is nothing; the tolerances, which the code takes *)
(* as fractions of the average close, are numbers of ticks.  A resistance  *)
(* is a support of the series turned upside down.  Bars count from 1.      *)
(***************************************************************************)
EXTENDS Integers, SequencesExt, FiniteSetsExt

CONSTANTS
    Tol,           \* tolerance_fraction
    TouchTol,      \* touch_tolerance_fraction
    MinTouches,    \* MIN_TOUCHES
    BreakStale,    \* break_stale_bars
    MaxApex,       \* max_apex_bars_ahead
    MinOverlap     \* min_overlap_bars

ASSUME SrFanAssumption ==
    /\ Tol \in Nat /\ TouchTol \in Nat /\ Tol <= TouchTol
    /\ MinTouches \in Nat \ {0}
    /\ BreakStale \in Nat /\ MaxApex \in Nat /\ MinOverlap \in Nat

Distance(n) == IF n < 0 THEN -n ELSE n

UpsideDown(c) == [i \in DOMAIN c |-> -c[i]]

(* The strict local minima; the maxima are those of the series upside down. *)
PivotLows(c) == {i \in 2 .. Len(c) - 1 : c[i] < c[i - 1] /\ c[i] < c[i + 1]}

-----------------------------------------------------------------------------
(* A line goes through the closes of its anchors q and p (from_idx and     *)
(* anchor_b_idx): it rises by rise in run bars, and is at base at bar p.   *)
(* It is drawn up to bar to; broken tells whether it ends there.           *)
Through(c, q, p) ==
    [q |-> q, p |-> p, rise |-> c[p] - c[q], run |-> p - q, base |-> c[p]]
Segment(l, broken, to, touches) ==
    [q |-> l.q, p |-> l.p, rise |-> l.rise, run |-> l.run, base |-> l.base,
     broken |-> broken, to |-> to, touches |-> touches]

(* run times what the line is at at a bar, and how far v is above that.    *)
At(l, i) == l.base * l.run + l.rise * (i - l.p)
Above(l, i, v) == v * l.run - At(l, i)

Violated(c, l, i) == Above(l, i, c[i]) < -Tol * l.run
Touched(c, l, i) == Distance(Above(l, i, c[i])) <= TouchTol * l.run

Steeper(l, e) == l.rise * e.run > e.rise * l.run
Parallel(l, e) == l.rise * e.run = e.rise * l.run

(* How far l is above e at a bar, times what is positive.                  *)
Apart(l, e, i) == At(l, i) * e.run - At(e, i) * l.run

(* crosses_any(), for the part of l between its anchors: it crosses e      *)
(* strictly inside what the two have in common.                            *)
Crosses(l, e) ==
    LET lo == Max({l.q, e.q})  hi == Min({l.p, e.to})
    IN lo < hi /\ Apart(l, e, lo) * Apart(l, e, hi) < 0

(* earliest_crossing(), for the part of l after its anchors: the first bar *)
(* at or after the crossing with e.                                        *)
CrossedAt(l, e, last) ==
    LET lo == Max({l.p + 1, e.q})  hi == Min({last, e.to})
    IN IF Parallel(l, e) THEN {}
       ELSE {i \in lo .. hi : Apart(l, e, lo) * Apart(l, e, i) <= 0}

(* Where l breaks: at the first close below it, or the first line it meets. *)
Breaks(c, l, out) ==
    {i \in l.p + 1 .. Len(c) : Violated(c, l, i)}
        \cup UNION {CrossedAt(l, out[k], Len(c)) : k \in DOMAIN out}

(* The pairs of anchors in the order in which _detect_one_side() tries     *)
(* them: the latest p first, then the steepest line, then the earliest q.  *)
Before(l, e) ==
    \/ l.p > e.p
    \/ l.p = e.p /\ (Steeper(l, e) \/ (Parallel(l, e) /\ l.q < e.q))

Candidates(c) ==
    {Through(c, a[1], a[2]) : a \in {b \in PivotLows(c) \X PivotLows(c) : b[1] < b[2]}}
Foremost(lines) == CHOOSE l \in lines : \A e \in lines : ~ Before(e, l)

Valid(c, l) == \A i \in l.q + 1 .. l.p - 1 : ~ Violated(c, l, i)
Coincident(l, e) == Parallel(l, e) /\ Apart(l, e, l.p) = 0

TouchesOf(c, l) ==
    Max({2, Cardinality({i \in PivotLows(c) : i >= l.q /\ Touched(c, l, i)})})

Drawn(c, l, out) ==
    LET breaks == Breaks(c, l, out)
    IN Segment(l, breaks # {}, IF breaks = {} THEN Len(c) ELSE Min(breaks), TouchesOf(c, l))

Taken(c, l, out) ==
    /\ Valid(c, l)
    /\ \A k \in DOMAIN out : ~ Crosses(l, out[k]) /\ ~ Coincident(l, out[k])
    /\ Len(c) - Drawn(c, l, out).to <= BreakStale

(* _detect_one_side(): the fan of supports, after each of the candidates.  *)
Tries(c, fan) ==
    LET l == Foremost(fan.left)
    IN [left |-> fan.left \ {l},
        out |-> IF Taken(c, l, fan.out) THEN Append(fan.out, Drawn(c, l, fan.out)) ELSE fan.out]

Fan(c) ==
    LET tried[k \in 0 .. Cardinality(Candidates(c))] ==
            IF k = 0 THEN [left |-> Candidates(c), out |-> <<>>]
            ELSE Tries(c, tried[k - 1])
    IN tried[Cardinality(Candidates(c))].out

-----------------------------------------------------------------------------
(* find_wedges(): an unbroken support and an unbroken resistance that will *)
(* meet, unless both go the same way.  Here the resistance is upside down. *)
Turned(l) == [l EXCEPT !.rise = -@, !.base = -@]

SameWay(s, r) == s.rise * r.rise > 0

Converge(s, r, last) ==
    /\ ~ s.broken /\ ~ r.broken
    /\ Steeper(s, r) /\ ~ SameWay(s, r)
    /\ Apart(s, r, last) < 0
    /\ Apart(s, r, last + MaxApex) >= 0
    /\ last - Max({s.q, r.q}) >= MinOverlap

(* apex_bars_ahead                                                         *)
BarsToApex(s, r, last) == Max({k \in 0 .. MaxApex : Apart(s, r, last + k) <= 0})

Wedges(supports, resistances, last) ==
    {w \in supports \X {Turned(l) : l \in resistances} : Converge(w[1], w[2], last)}
=============================================================================
