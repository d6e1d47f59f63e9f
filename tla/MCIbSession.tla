---------------------------- MODULE MCIbSession ----------------------------
(* Two contracts: the operator's watchlist has one, the YAML file it was   *)
(* seeded from the other; two bots share the first and one has the second. *)
EXTENDS IbSessionSafety, TLC

CONSTANTS s1, s2, b1, b2, b3, r1, r2

MCSymbolOf == (b1 :> s1) @@ (b2 :> s2) @@ (b3 :> s1)

Symmetry == Permutations(Replays)

Undisturbed == [drops |-> 0, manual |-> 0, cycles |-> 0, crashes |-> 0,
                reloads |-> 0, positions |-> 0, bots |-> {},
                orderly |-> FALSE, stops |-> FALSE, byHand |-> FALSE]

\* Disturbances overlap, but bots keep what they hold.
Rough == {[Undisturbed EXCEPT !.drops = 1, !.manual = 1, !.byHand = TRUE],
          [Undisturbed EXCEPT !.drops = 1, !.crashes = 1, !.positions = 1,
                              !.bots = {b1}],
          [Undisturbed EXCEPT !.drops = 1, !.cycles = 1, !.bots = {b2}]}

\* One thing at a time, and bots come and go.
Smooth == LET Daily == [Undisturbed EXCEPT !.drops = 1, !.cycles = 1,
                                           !.reloads = 1, !.positions = 1,
                                           !.orderly = TRUE, !.stops = TRUE]
          IN  {[Daily EXCEPT !.manual = 1, !.byHand = TRUE, !.bots = {b1, b2}],
               [Daily EXCEPT !.bots = {b1, b3}]}

MCSetups == Rough \cup Smooth
============================================================================
