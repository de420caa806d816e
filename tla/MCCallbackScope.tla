--------------------------- MODULE MCCallbackScope ---------------------------
(***************************************************************************)
(* An instance of CallbackScope for TLC: the application has a box for a   *)
(* connected queue pair, two for datagram ones, and two for queues.  When  *)
(* MaxLeaked device objects are lost the exploration stops.                *)
(***************************************************************************)
EXTENDS CallbackScope, FiniteSets, TLC

CONSTANTS rc, ud1, ud2, cq1, cq2, MaxLeaked

TwoUd == {ud1, ud2}
TwoCq == {cq1, cq2}

AllCqs == CqParams \cup TwoCq
AllQps == {Qp, rc} \cup TwoUd
Types == [x \in AllQps |-> IF x \in TwoUd THEN "UD" ELSE "RC"]

Existing == {h \in Handles : Exists(h)}
Bounded  == Cardinality(Existing \ Held) <= MaxLeaked
Symmetry == Permutations(TwoUd) \cup Permutations(TwoCq)

(* Which numbers the device gives out says nothing: what counts is which   *)
(* objects hold the same handle, or one that uses another's.  Handles that *)
(* nobody holds are never held again, so they only count.                  *)
Holding(h) == {x \in Places : object[x].h = h}
ShapeOf(x) ==
  LET h == object[x].h IN
  IF h = Null THEN [object[x] EXCEPT !.h = "null"]
  ELSE [object |-> [object[x] EXCEPT !.h = Holding(h)],
        device |-> [dev[h] EXCEPT !.uses = {x2 \in Places : object[x2].h \in dev[h].uses}]]
View ==
  <<context, [x \in Places |-> ShapeOf(x)], Cardinality(Existing), orderly, fate, pc>>
=============================================================================
