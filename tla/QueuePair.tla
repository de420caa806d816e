------------------------------ MODULE QueuePair ------------------------------
(***************************************************************************)
(* The reliable-connection queue pair of qp_pre.h: the device object that  *)
(* connect() walks from RESET to RTS, the address information two peers    *)
(* exchange, and the reliable transport between two queue pairs.           *)
(*                                                                         *)
(* A queue pair is a record; the module is a library of operators on such  *)
(* records and declares no variable.  Wire formats, MTU, timers and        *)
(* service levels are left out: no property depends on them.  The adapter  *)
(* itself (ibv_* calls) is external and modelled by what the code relies   *)
(* on.                                                                     *)
(***************************************************************************)
EXTENDS Naturals

CONSTANTS
  Clients,    \* client endpoints: a process, its thread and its queue pair
  ServerQps,  \* numbers the server's device can give to a queue pair
  Server,     \* the server process
  Ports,      \* physical ports of every device
  NoQp        \* no queue pair

ASSUME QueuePairAssumption ==
  /\ Clients \cap ServerQps = {}
  /\ Server \notin Clients
  /\ NoQp \notin Clients \cup ServerQps
  /\ Ports \subseteq Nat
  /\ 1 \in Ports

Qpn  == Clients \cup ServerQps
Procs == Clients \cup {Server}

(* The process that owns a queue pair. *)
ProcOf(q) == IF q \in Clients THEN q ELSE Server

(* universal_init_psn: every queue pair sends from the same first PSN. *)
universal_init_psn == 3000

(* A GID or a LID is abstracted to the process and the port it names.     *)
(* Distinct ports of one device have distinct LIDs (InfiniBand).           *)
Address == Procs \X Ports
NoAddress == <<>>

QpState == {"NONE", "RESET", "INIT", "RTR", "RTS", "ERR", "DESTROYED"}

QpInfo == [gid : Address, lid : Address, qp_num : Qpn, psn : Nat]

QpRecord == [state : QpState,
             port  : Ports \cup {0},              \* IBV_QP_PORT
             dest  : Qpn \cup {NoQp},             \* IBV_QP_DEST_QPN
             dgid  : Address \cup {NoAddress},    \* ah_attr.grh.dgid
             dlid  : Address \cup {NoAddress},    \* ah_attr.dlid
             rq_psn : Nat, sq_psn : Nat]

Blank == [state |-> "NONE", port |-> 0, dest |-> NoQp, dgid |-> NoAddress,
          dlid |-> NoAddress, rq_psn |-> 0, sq_psn |-> 0]

(* ibv_exp_create_qp: a new device object, in RESET. *)
Created == [Blank EXCEPT !.state = "RESET"]

-----------------------------------------------------------------------------
(* Seeded fault: the LID, too, is that of the default port.               *)
GetInfoOfPort1(q, port) ==
  [gid |-> <<ProcOf(q), 1>>, lid |-> <<ProcOf(q), 1>>,
   qp_num |-> q, psn |-> universal_init_psn]

(* get_info(): the GID is that of the default port, the LID that of the    *)
(* port the wrapper object remembers.                                      *)
GetInfo(q, port) ==
  [gid |-> <<ProcOf(q), 1>>, lid |-> <<ProcOf(q), port>>,
   qp_num |-> q, psn |-> universal_init_psn]

(* modify_qp_to_init, modify_qp_to_rtr, modify_qp_to_rts: the attributes   *)
(* each ibv_modify_qp sets.  The state each one asserts first is the guard *)
(* of the action that uses it.                                             *)
ToInit(r, port) == [r EXCEPT !.state = "INIT", !.port = port]

ToRtr(r, remote) ==
  [r EXCEPT !.state = "RTR", !.dest = remote.qp_num, !.dgid = remote.gid,
            !.dlid = remote.lid, !.rq_psn = remote.psn]

ToRts(r) == [r EXCEPT !.state = "RTS", !.sq_psn = universal_init_psn]

-----------------------------------------------------------------------------
(* The transport.  A packet from q reaches queue pair p when q's path      *)
(* names the port p is attached to; p takes it when it is ready to receive *)
(* from q and expects q's PSN.                                             *)
Routed(qp, q, p) ==
  /\ qp[q].dgid = <<ProcOf(p), qp[p].port>>
  /\ qp[q].dlid = <<ProcOf(p), qp[p].port>>

Receives(qp, q, p) ==
  /\ qp[q].dest = p
  /\ Routed(qp, q, p)
  /\ qp[p].state \in {"RTR", "RTS"}
  /\ qp[p].dest = q
  /\ qp[p].rq_psn = qp[q].sq_psn

(* p takes q's packet and q gets p's acknowledgement. *)
Reaches(qp, q, p) == Receives(qp, q, p) /\ Routed(qp, p, q)

(* A queue pair whose path and peer are set. *)
Ready(r) == r.state \in {"RTR", "RTS"}
=============================================================================
