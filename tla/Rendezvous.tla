------------------------------ MODULE Rendezvous ------------------------------
(***************************************************************************)
(* What connection establishment (cm.h) promises, without calls, states of *)
(* queue pairs or callbacks: who ends up connected to whom.  A client that *)
(* asks is served by at most one queue pair of the server, which is its    *)
(* for ever; a queue pair is offered to its client only when it is ready;  *)
(* and a client takes one that was offered to it, once and for good.  An   *)
(* exit may lose a request, and may leave queue pairs without a mate.      *)
(***************************************************************************)
CONSTANTS Clients, ServerQps, None

VARIABLES
  asked,    \* clients whose request waits to be served
  client,   \* the client that a queue pair of the server serves
  ready,    \* queue pairs that are ready for their client
  offered,  \* which client was told the address of which queue pair
  mate      \* the queue pair a client is connected to

vars == <<asked, client, ready, offered, mate>>

Init ==
  /\ asked = {}
  /\ client = [s \in ServerQps |-> None]
  /\ ready = {}
  /\ offered = {}
  /\ mate = [c \in Clients |-> None]

Ask(c) ==
  /\ asked' = asked \cup {c}
  /\ UNCHANGED <<client, ready, offered, mate>>

Lose(c) ==
  /\ asked' = asked \ {c}
  /\ UNCHANGED <<client, ready, offered, mate>>

Serve(c, s) ==
  /\ c \in asked
  /\ client[s] = None
  /\ asked' = asked \ {c}
  /\ client' = [client EXCEPT ![s] = c]
  /\ UNCHANGED <<ready, offered, mate>>

BeReady(s) ==
  /\ client[s] # None
  /\ ready' = ready \cup {s}
  /\ UNCHANGED <<asked, client, offered, mate>>

Offer(c, s) ==
  /\ s \in ready
  /\ client[s] = c
  /\ offered' = offered \cup {<<c, s>>}
  /\ UNCHANGED <<asked, client, ready, mate>>

Pair(c, s) ==
  /\ <<c, s>> \in offered
  /\ mate[c] = None
  /\ mate' = [mate EXCEPT ![c] = s]
  /\ UNCHANGED <<asked, client, ready, offered>>

Next ==
  \/ \E c \in Clients : Ask(c) \/ Lose(c)
  \/ \E s \in ServerQps : BeReady(s)
  \/ \E c \in Clients, s \in ServerQps : Serve(c, s) \/ Offer(c, s) \/ Pair(c, s)

Spec == Init /\ [][Next]_vars
=============================================================================
