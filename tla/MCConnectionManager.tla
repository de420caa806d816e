------------------------- MODULE MCConnectionManager -------------------------
(***************************************************************************)
(* Instances of ConnectionManager for TLC.                                 *)
(***************************************************************************)
EXTENDS ConnectionManager, TLC

CONSTANTS c1, c2, s1, s2

TwoClients   == {c1, c2}
TwoServerQps == {s1, s2}
OneClient    == {c1}
OneServerQp  == {s1}

EitherWay == BOOLEAN
NeverKept == {FALSE}

Everybody == TwoClients \cup {Server}
Nobody     == {}

(* Clients are interchangeable, and so are the numbers of queue pairs.     *)
Symmetry == Permutations(TwoClients) \cup Permutations(TwoServerQps)

(* States that differ only in what nothing reads any more are one: the     *)
(* port bound by a client that cannot call again, and the port announced   *)
(* for, and the counts of, a queue pair that is gone.                      *)
Calling(c) ==
  /\ cpc[c] # "exited"
  /\ qp[c].state # "DESTROYED"
  /\ cpc[c] = "calling" => qp[c].state = "RESET"

LivePort  == [c \in Clients |-> IF Calling(c) THEN wport[c] ELSE 0]
LiveOf(f) == [q \in DOMAIN f |-> IF qp[q].state = "DESTROYED" THEN 0 ELSE f[q]]

View ==
  <<qp, LivePort, LiveOf(announced), cpc, calls, reply, spc, cur,
    LiveOf(rq), LiveOf(sent), LiveOf(done), LiveOf(cbPosted)>>
=============================================================================
