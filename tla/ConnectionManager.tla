-------------------------- MODULE ConnectionManager --------------------------
(***************************************************************************)
(* cm.h: clients connect a queue pair to a server by one RPC.  The handler *)
(* of RPC_ESTABLISH creates and connects the server's queue pair, gives it *)
(* to the application's callback by value, and only then returns the       *)
(* server's address, with which the client connects its own queue pair.    *)
(*                                                                         *)
(* The server answers one call at a time (svr.run() in one thread).  Once  *)
(* connected, either side may post receives and sends; the reliable        *)
(* transport delivers a send, or gives up after its retries and the        *)
(* process that polls the error completion exits (rdma_cq::do_poll).       *)
(*                                                                         *)
(* External: hrpc (a call is answered once, a call to a server that is     *)
(* gone fails) and the adapter.                                            *)
(***************************************************************************)
EXTENDS QueuePair

CONSTANTS
  MayCrash,       \* processes that may exit at any point
  CallbackKeeps,  \* may the callback keep the queue pair?  a set of BOOLEAN
  WithStop,       \* run_server_with_stop rather than run_server?
  MaxRecv,        \* bound: receives waiting on one queue pair
  MaxSend         \* bound: sends posted on one queue pair

ASSUME ConnectionManagerAssumption ==
  /\ MayCrash \subseteq Procs
  /\ CallbackKeeps \subseteq BOOLEAN
  /\ CallbackKeeps # {}
  /\ WithStop \in BOOLEAN
  /\ MaxRecv \in Nat
  /\ MaxSend \in Nat

NoReply == [none |-> TRUE]
NoCall  == [client |-> Server, q |-> NoQp]

VARIABLES
  qp,        \* the device's queue pairs
  wport,     \* the port a client's rdma_qp object remembers
  announced, \* the port a client announced in its first connect (history)
  cpc,       \* where each client is in cm::connect
  calls,     \* RPC_ESTABLISH calls the server has not taken
  reply,     \* the answer a client has got and not finished using
  spc,       \* where the server is in the handler
  cur,       \* the call in the handler: client, its info, the new queue pair
  rq,        \* receives posted on a queue pair and not consumed
  sent,      \* sends posted on a queue pair
  done,      \* sends of a queue pair that were delivered and acknowledged
  cbPosted   \* receives the callback posted on a queue pair (history)

vars == <<qp, wport, announced, cpc, calls, reply, spc, cur, rq, sent, done,
          cbPosted>>

client_vars  == <<wport, announced, cpc, reply>>
server_vars  == <<spc, cur>>
traffic_vars == <<rq, sent, done, cbPosted>>

Call == [client : Clients, info : QpInfo]

ClientPc == {"idle", "calling", "connecting", "connected", "exited"}
ServerPc == {"listening", "connecting", "callback", "replying",
             "stopping", "stopped", "exited"}

Init ==
  /\ qp = [q \in Qpn |-> IF q \in Clients THEN Created ELSE Blank]
  /\ wport = [c \in Clients |-> 1]
  /\ announced = [c \in Clients |-> 0]
  /\ cpc = [c \in Clients |-> "idle"]
  /\ calls = {}
  /\ reply = [c \in Clients |-> NoReply]
  /\ spc = "listening"
  /\ cur = NoCall
  /\ rq = [q \in Qpn |-> 0]
  /\ sent = [q \in Qpn |-> 0]
  /\ done = [q \in Qpn |-> 0]
  /\ cbPosted = [q \in Qpn |-> 0]

-----------------------------------------------------------------------------
(* The client. *)

(* bind_port: for a reliable connection it only remembers the port, at any *)
(* time outside of connect.  What is connected already stays as it is.     *)
BindPort(c, port) ==
  /\ cpc[c] \in {"idle", "connected"}
  /\ qp[c].state # "DESTROYED"
  /\ wport' = [wport EXCEPT ![c] = port]
  /\ UNCHANGED <<qp, announced, cpc, calls, reply, server_vars, traffic_vars>>

(* connect: get_info, with the port bound last, and the call.  Nothing     *)
(* stops a second connect of a queue pair that is connected already.       *)
CallEstablish(c) ==
  /\ cpc[c] \in {"idle", "connected"}
  /\ qp[c].state # "DESTROYED"
  /\ cpc' = [cpc EXCEPT ![c] = "calling"]
  /\ calls' = calls \cup {[client |-> c, info |-> GetInfo(c, wport[c])]}
  /\ announced' = IF cpc[c] = "idle" THEN [announced EXCEPT ![c] = wport[c]]
                                     ELSE announced
  /\ UNCHANGED <<qp, wport, reply, server_vars, traffic_vars>>

(* qp.connect(info), with its default port 1, in three steps. *)
ClientToInit(c) ==
  /\ cpc[c] = "calling"
  /\ reply[c] # NoReply
  /\ qp[c].state = "RESET"
  /\ qp' = [qp EXCEPT ![c] = ToInit(@, 1)]
  /\ cpc' = [cpc EXCEPT ![c] = "connecting"]
  /\ UNCHANGED <<wport, announced, calls, reply, server_vars, traffic_vars>>

ClientToRtr(c) ==
  /\ cpc[c] = "connecting"
  /\ qp[c].state = "INIT"
  /\ qp' = [qp EXCEPT ![c] = ToRtr(@, reply[c])]
  /\ UNCHANGED <<client_vars, calls, server_vars, traffic_vars>>

ClientToRts(c) ==
  /\ cpc[c] = "connecting"
  /\ qp[c].state = "RTR"
  /\ qp' = [qp EXCEPT ![c] = ToRts(@)]
  /\ cpc' = [cpc EXCEPT ![c] = "connected"]
  /\ reply' = [reply EXCEPT ![c] = NoReply]
  /\ UNCHANGED <<wport, announced, calls, server_vars, traffic_vars>>

(* The client's process ends, and its queue pair with it. *)
ClientEnds(c) ==
  /\ cpc' = [cpc EXCEPT ![c] = "exited"]
  /\ qp' = [qp EXCEPT ![c].state = "DESTROYED"]
  /\ UNCHANGED <<wport, announced, calls, reply, server_vars, traffic_vars>>

(* The assertion of modify_qp_to_init on a queue pair connected before. *)
ReconnectPanics(c) ==
  /\ cpc[c] = "calling"
  /\ reply[c] # NoReply
  /\ qp[c].state # "RESET"
  /\ ClientEnds(c)

(* The call fails: no server is left to answer it. *)
CallFails(c) ==
  /\ cpc[c] = "calling"
  /\ reply[c] = NoReply
  /\ spc \in {"stopped", "exited"}
  /\ ClientEnds(c)

(* do_poll meets the error completion of a failed send. *)
ClientPollPanics(c) ==
  /\ cpc[c] = "connected"
  /\ qp[c].state = "ERR"
  /\ ClientEnds(c)

ClientCrash(c) ==
  /\ c \in MayCrash
  /\ cpc[c] # "exited"
  /\ ClientEnds(c)

-----------------------------------------------------------------------------
(* The server: the handler of RPC_ESTABLISH. *)

FreeQps == {s \in ServerQps : qp[s].state = "NONE"}

(* Seeded fault: the handler answers before it connects its queue pair. *)
AcceptAndReply(call, s) ==
  /\ spc = "listening"
  /\ call \in calls
  /\ s \in FreeQps
  /\ calls' = calls \ {call}
  /\ cur' = [client |-> call.client, info |-> call.info, q |-> s]
  /\ qp' = [qp EXCEPT ![s] = Created]
  /\ spc' = "connecting"
  /\ reply' = [reply EXCEPT ![call.client] = GetInfo(s, 1)]
  /\ UNCHANGED <<wport, announced, cpc, traffic_vars>>

(* The handler starts: rdma_cq, rdma_cq, rdma_qp. *)
Accept(call, s) ==
  /\ spc = "listening"
  /\ call \in calls
  /\ s \in FreeQps
  /\ calls' = calls \ {call}
  /\ cur' = [client |-> call.client, info |-> call.info, q |-> s]
  /\ qp' = [qp EXCEPT ![s] = Created]
  /\ spc' = "connecting"
  /\ UNCHANGED <<client_vars, traffic_vars>>

(* qp.connect(info). *)
ServerToInit ==
  /\ spc = "connecting"
  /\ qp[cur.q].state = "RESET"
  /\ qp' = [qp EXCEPT ![cur.q] = ToInit(@, 1)]
  /\ UNCHANGED <<client_vars, calls, server_vars, traffic_vars>>

ServerToRtr ==
  /\ spc = "connecting"
  /\ qp[cur.q].state = "INIT"
  /\ qp' = [qp EXCEPT ![cur.q] = ToRtr(@, cur.info)]
  /\ UNCHANGED <<client_vars, calls, server_vars, traffic_vars>>

(* Seeded fault: the answer is sent before the callback runs. *)
ServerToRtsAndReply ==
  /\ spc = "connecting"
  /\ qp[cur.q].state = "RTR"
  /\ qp' = [qp EXCEPT ![cur.q] = ToRts(@)]
  /\ spc' = "callback"
  /\ reply' = [reply EXCEPT ![cur.client] = GetInfo(cur.q, 1)]
  /\ UNCHANGED <<wport, announced, cpc, calls, cur, traffic_vars>>

ServerToRts ==
  /\ spc = "connecting"
  /\ qp[cur.q].state = "RTR"
  /\ qp' = [qp EXCEPT ![cur.q] = ToRts(@)]
  /\ spc' = "callback"
  /\ UNCHANGED <<client_vars, calls, cur, traffic_vars>>

(* The callback returns.  It owns the queue pair (a by-value parameter):   *)
(* either it moved it away, or the queue pair is destroyed here.           *)
CallbackReturns(keep, should_stop) ==
  /\ spc = "callback"
  /\ keep \in CallbackKeeps
  /\ should_stop => WithStop
  /\ qp' = IF keep THEN qp ELSE [qp EXCEPT ![cur.q].state = "DESTROYED"]
  /\ spc' = IF should_stop THEN "stopping" ELSE "replying"
  /\ UNCHANGED <<client_vars, calls, cur, traffic_vars>>

(* Seeded fault: the handler ends without an answer. *)
ReplyLost ==
  /\ spc \in {"replying", "stopping"}
  /\ spc' = IF spc = "stopping" THEN "stopped" ELSE "listening"
  /\ cur' = NoCall
  /\ UNCHANGED <<qp, client_vars, calls, traffic_vars>>

(* return self_info: the answer goes to the client.  With should_stop the  *)
(* RPC loop ends after it.                                                 *)
Reply ==
  /\ spc \in {"replying", "stopping"}
  /\ reply' = [reply EXCEPT ![cur.client] = GetInfo(cur.q, 1)]
  /\ spc' = IF spc = "stopping" THEN "stopped" ELSE "listening"
  /\ cur' = NoCall
  /\ UNCHANGED <<qp, wport, announced, cpc, calls, traffic_vars>>

(* The server's process ends, and every queue pair it made with it. *)
ServerEnds ==
  /\ spc' = "exited"
  /\ cur' = NoCall
  /\ qp' = [q \in Qpn |-> IF q \in ServerQps
                          THEN [qp[q] EXCEPT !.state = "DESTROYED"]
                          ELSE qp[q]]
  /\ UNCHANGED <<client_vars, calls, traffic_vars>>

(* create_rdma_qp fails in the handler: the device has no more. *)
ServerOutOfQps ==
  /\ spc = "listening"
  /\ calls # {}
  /\ FreeQps = {}
  /\ ServerEnds

ServerPollPanics ==
  /\ spc # "exited"
  /\ \E s \in ServerQps : qp[s].state = "ERR"
  /\ ServerEnds

ServerCrash ==
  /\ Server \in MayCrash
  /\ spc # "exited"
  /\ ServerEnds

-----------------------------------------------------------------------------
(* Use of a connected queue pair, and the transport. *)

(* The queue pairs the application can post on: a client's outside of      *)
(* connect, a server's from the callback on.                               *)
Usable(q) ==
  /\ qp[q].state = "RTS"
  /\ q \in Clients => cpc[q] = "connected"

PostRecv(q) ==
  /\ Usable(q)
  /\ rq[q] < MaxRecv
  /\ rq' = [rq EXCEPT ![q] = @ + 1]
  /\ cbPosted' = IF spc = "callback" /\ cur.q = q
                 THEN [cbPosted EXCEPT ![q] = @ + 1] ELSE cbPosted
  /\ UNCHANGED <<qp, client_vars, calls, server_vars, sent, done>>

PostSend(q) ==
  /\ Usable(q)
  /\ sent[q] < MaxSend
  /\ sent' = [sent EXCEPT ![q] = @ + 1]
  /\ UNCHANGED <<qp, client_vars, calls, server_vars, rq, done, cbPosted>>

InFlight(q) == qp[q].state = "RTS" /\ done[q] < sent[q]

Deliverable(q) ==
  LET p == qp[q].dest IN Reaches(qp, q, p) /\ rq[p] > 0

(* Seeded fault: a send completes although the peer has no receive. *)
DeliverUnreceived(q) ==
  /\ InFlight(q)
  /\ Reaches(qp, q, qp[q].dest)
  /\ rq' = [rq EXCEPT ![qp[q].dest] = @ - 1]
  /\ done' = [done EXCEPT ![q] = @ + 1]
  /\ UNCHANGED <<qp, client_vars, calls, server_vars, sent, cbPosted>>

(* A send takes a receive of the peer, and both complete. *)
Deliver(q) ==
  /\ InFlight(q)
  /\ Deliverable(q)
  /\ rq' = [rq EXCEPT ![qp[q].dest] = @ - 1]
  /\ done' = [done EXCEPT ![q] = @ + 1]
  /\ UNCHANGED <<qp, client_vars, calls, server_vars, sent, cbPosted>>

(* retry_cnt or rnr_retry runs out while the peer cannot take the send. *)
Expire(q) ==
  /\ InFlight(q)
  /\ ~ Deliverable(q)
  /\ qp' = [qp EXCEPT ![q].state = "ERR"]
  /\ UNCHANGED <<client_vars, calls, server_vars, traffic_vars>>

(* ~rdma_qp: of a client outside of connect, of a server after the         *)
(* callback has moved the queue pair away.                                 *)
DestroyQp(q) ==
  /\ qp[q].state \in {"RTS", "ERR"}
  /\ q \in Clients => cpc[q] = "connected"
  /\ ~(q = cur.q /\ spc = "callback")
  /\ qp' = [qp EXCEPT ![q].state = "DESTROYED"]
  /\ UNCHANGED <<client_vars, calls, server_vars, traffic_vars>>

-----------------------------------------------------------------------------
ClientConnectStep(c) ==
  ClientToInit(c) \/ ClientToRtr(c) \/ ClientToRts(c)

AcceptAny == \E call \in calls, s \in ServerQps : Accept(call, s)

CallbackEnds ==
  \E keep, should_stop \in BOOLEAN : CallbackReturns(keep, should_stop)

HandlerStep ==
  \/ AcceptAny \/ ServerToInit \/ ServerToRtr \/ ServerToRts
  \/ CallbackEnds \/ Reply \/ ServerOutOfQps

TransportStep(q) == Deliver(q) \/ Expire(q)

Next ==
  \/ \E c \in Clients :
       \/ \E port \in Ports : BindPort(c, port)
       \/ CallEstablish(c) \/ ClientConnectStep(c)
       \/ ReconnectPanics(c) \/ CallFails(c)
       \/ ClientPollPanics(c) \/ ClientCrash(c)
  \/ HandlerStep
  \/ ServerPollPanics \/ ServerCrash
  \/ \E q \in Qpn : PostRecv(q) \/ PostSend(q) \/ TransportStep(q) \/ DestroyQp(q)

Spec == Init /\ [][Next]_vars

(* Fairness: each process runs the straight-line code of connect and of    *)
(* the handler, the callback returns (tests/server.cpp posts one receive   *)
(* and returns), and hrpc reports a lost server.  Nothing the applications *)
(* may or may not do is fair: calling, posting, polling, destroying,       *)
(* crashing.  Nor is the transport: connect does not wait for it.          *)
Fairness ==
  /\ \A c \in Clients :
       /\ WF_vars(ClientConnectStep(c))
       /\ WF_vars(ReconnectPanics(c))
       /\ WF_vars(CallFails(c))
  /\ WF_vars(HandlerStep)

FairSpec == Spec /\ Fairness

-----------------------------------------------------------------------------
(* Properties. *)

(* The types of the variables: in particular no queue pair ever owes its   *)
(* peer a receive (rq never goes below zero).                              *)
TypeOK ==
  /\ qp \in [Qpn -> QpRecord]
  /\ wport \in [Clients -> Ports]
  /\ announced \in [Clients -> Ports \cup {0}]
  /\ cpc \in [Clients -> ClientPc]
  /\ calls \subseteq Call
  /\ reply \in [Clients -> QpInfo \cup {NoReply}]
  /\ spc \in ServerPc
  /\ cur \in [client : Clients, info : QpInfo, q : ServerQps] \cup {NoCall}
  /\ rq \in [Qpn -> 0..MaxRecv]
  /\ sent \in [Qpn -> 0..MaxSend]
  /\ done \in [Qpn -> 0..MaxSend]
  /\ cbPosted \in [Qpn -> Nat]

(* A client that has set its peer (RTR or later) has a peer the server     *)
(* brought to RTS before, connected back to this client and expecting the  *)
(* PSN the client sends from; so no two clients share a server queue pair. *)
PairedWithReadyPeer ==
  \A c \in Clients : qp[c].dest # NoQp =>
    LET s == qp[c].dest IN
      /\ s \in ServerQps
      /\ qp[s].dest = c
      /\ qp[s].state \in {"RTS", "ERR", "DESTROYED"}
      /\ qp[s].sq_psn = qp[c].rq_psn

(* While the callback runs, its queue pair is cut off: no client has it as *)
(* peer and nothing it sends is delivered.  A callback that polls for its  *)
(* client's first message, or for the completion of a send to it, waits    *)
(* for something that cannot come before it returns.                       *)
CallbackIsolated ==
  spc = "callback" =>
    /\ \A c \in Clients : qp[c].dest # cur.q
    /\ done[cur.q] = 0

(* Both ends up: they can talk in both directions exactly if port 1 was    *)
(* the one bound last when the client called connect().  connect()         *)
(* attaches to port 1 whatever bind_port() said, and get_info() mixes the  *)
(* two.  A port bound later changes nothing, even if a second connect()    *)
(* announces it.                                                           *)
ReachableIffPort1 ==
  \A c \in Clients :
    LET s == qp[c].dest IN
      (qp[c].state = "RTS" /\ qp[s].state = "RTS") =>
        ((Reaches(qp, c, s) /\ Reaches(qp, s, c)) <=> announced[c] = 1)

(* A client's send fails only if its peer is gone (destroyed by the        *)
(* callback or later, failed, or with its process), if the client is       *)
(* misaddressed, or if the client sent more than the callback had posted   *)
(* receives for: what the callback posts is there before the first send.   *)
SendFailureExplained ==
  \A c \in Clients : qp[c].state = "ERR" =>
    LET s == qp[c].dest IN
      \/ qp[s].state # "RTS"
      \/ announced[c] # 1
      \/ sent[c] > cbPosted[s]

(* The calls, the handler and connect() implement the matchmaking of       *)
(* Rendezvous: a call is served once, by a queue pair of its own that      *)
(* never changes its peer; its address goes out only when it is up, and to *)
(* its client alone; and a client never changes its peer.                  *)
Told  == {<<c, reply[c].qp_num>> : c \in {d \in Clients : reply[d] # NoReply}}
Taken == {<<c, qp[c].dest>> : c \in {d \in Clients : qp[d].dest # NoQp}}

Matchmaking == INSTANCE Rendezvous WITH
  None    <- NoQp,
  asked   <- {call.client : call \in calls}
             \cup {c \in Clients : cur.client = c /\ qp[cur.q].dest = NoQp},
  client  <- [s \in ServerQps |-> qp[s].dest],
  ready   <- {s \in ServerQps : qp[s].sq_psn = universal_init_psn},
  offered <- Told \cup Taken,
  mate    <- [c \in Clients |-> qp[c].dest]

MeetsRendezvous == Matchmaking!Spec

(* tests/send_recv.cpp, "send works normally": a client's notified send    *)
(* completes with success.                                                 *)
SendWorksNormally == \A c \in Clients : qp[c].state # "ERR"

(* cm::connect returns, or the client's process ends. *)
ConnectReturns ==
  \A c \in Clients :
    cpc[c] \in {"calling", "connecting"} ~> cpc[c] \in {"connected", "exited"}
=============================================================================
