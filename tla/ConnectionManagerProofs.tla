----------------------- MODULE ConnectionManagerProofs -----------------------
(***************************************************************************)
(* Proofs about ConnectionManager, for any number of clients, ports and    *)
(* queue pairs and any bounds.                                             *)
(***************************************************************************)
EXTENDS ConnectionManager, TLAPS

(* Queue pair s of the server was connected to client c by the handler.    *)
Established(s, c) ==
  /\ s \in ServerQps
  /\ qp[s].dest = c
  /\ qp[s].state \in {"RTS", "ERR", "DESTROYED"}
  /\ qp[s].sq_psn = universal_init_psn

(* A call carries the number and the PSN of its client's queue pair. *)
CallsOk ==
  \A call \in calls : call.info.qp_num = call.client
                      /\ call.info.psn = universal_init_psn

InHandler == spc \in {"connecting", "callback", "replying", "stopping"}

(* The call in the handler, and how far its queue pair has come. *)
CurOk ==
  InHandler =>
    /\ cur \in [client : Clients, info : QpInfo, q : ServerQps]
    /\ cur.info.qp_num = cur.client
    /\ spc = "connecting" =>
         /\ qp[cur.q].state \in {"RESET", "INIT", "RTR"}
         /\ qp[cur.q].state = "RTR" => qp[cur.q].dest = cur.client
    /\ spc # "connecting" => Established(cur.q, cur.client)
    /\ spc = "callback" => qp[cur.q].state # "DESTROYED"

(* An answer names a queue pair established for the client it goes to. *)
ReplyOk ==
  \A c \in Clients : reply[c] # NoReply =>
    /\ Established(reply[c].qp_num, c)
    /\ reply[c].psn = universal_init_psn

(* A client that works on its answer has it. *)
AnswerHeld ==
  \A c \in Clients : cpc[c] = "connecting" => reply[c] # NoReply

(* A client's queue pair has an established one for its peer. *)
PeerOk ==
  \A c \in Clients : qp[c].dest # NoQp =>
    /\ Established(qp[c].dest, c)
    /\ qp[c].rq_psn = universal_init_psn

(* No client knows the queue pair in the handler, and it sent nothing that *)
(* was delivered; nor did any queue pair before it reached RTS.            *)
Unknown ==
  InHandler =>
    /\ \A c \in Clients : qp[c].dest # cur.q
    /\ \A c \in Clients : reply[c] # NoReply => reply[c].qp_num # cur.q
    /\ done[cur.q] = 0

NothingDone ==
  \A q \in Qpn : qp[q].state \in {"NONE", "RESET", "INIT", "RTR"} => done[q] = 0

IInv ==
  /\ TypeOK
  /\ CallsOk
  /\ CurOk
  /\ ReplyOk
  /\ PeerOk
  /\ Unknown
  /\ NothingDone
  /\ AnswerHeld

-----------------------------------------------------------------------------
(* The types of what the operators of QueuePair return. *)

LEMMA RecordTypes ==
  /\ Blank \in QpRecord
  /\ Created \in QpRecord
  /\ \A r \in QpRecord, port \in Ports : ToInit(r, port) \in QpRecord
  /\ \A r \in QpRecord, info \in QpInfo : ToRtr(r, info) \in QpRecord
  /\ \A r \in QpRecord : ToRts(r) \in QpRecord
  /\ \A q \in Qpn, port \in Ports : GetInfo(q, port) \in QpInfo
<1>1. Blank \in QpRecord
  BY DEF Blank, QpRecord, QpState
<1>2. Created \in QpRecord
  BY DEF Created, Blank, QpRecord, QpState
<1>3. \A r \in QpRecord, port \in Ports : ToInit(r, port) \in QpRecord
  BY DEF ToInit, QpRecord, QpState
<1>4. \A r \in QpRecord, info \in QpInfo : ToRtr(r, info) \in QpRecord
  BY DEF ToRtr, QpRecord, QpState, QpInfo
<1>5. ASSUME NEW r \in QpRecord PROVE ToRts(r) \in QpRecord
  <2>1. universal_init_psn \in Nat
    BY DEF universal_init_psn
  <2>2. QED  BY <2>1 DEF ToRts, QpRecord, QpState
<1>6. \A q \in Qpn, port \in Ports : GetInfo(q, port) \in QpInfo
  BY QueuePairAssumption
  DEF GetInfo, QpInfo, Address, Procs, ProcOf, Qpn, universal_init_psn
<1>7. QED  BY <1>1, <1>2, <1>3, <1>4, <1>5, <1>6

(* NoReply stands for no answer: it is not the information of a queue pair. *)
LEMMA NoReplyIsNoInfo == NoReply \notin QpInfo
<1> SUFFICES ASSUME NoReply \in QpInfo PROVE FALSE
  OBVIOUS
<1>1. DOMAIN NoReply = {"none"}
  BY DEF NoReply
<1>2. "gid" \in DOMAIN NoReply
  BY DEF QpInfo
<1>3. QED  BY <1>1, <1>2

(* The invariant holds when the program starts. *)
LEMMA InitIInv == Init => IInv
<1> SUFFICES ASSUME Init PROVE IInv
  OBVIOUS
<1>1. TypeOK
  BY RecordTypes, QueuePairAssumption, ConnectionManagerAssumption
  DEF Init, TypeOK, Qpn, ClientPc, ServerPc
<1>2. CallsOk /\ CurOk /\ ReplyOk /\ Unknown /\ AnswerHeld
  BY DEF Init, CallsOk, CurOk, ReplyOk, Unknown, InHandler, AnswerHeld
<1>3. PeerOk /\ NothingDone
  BY DEF Init, PeerOk, NothingDone, Qpn, Created, Blank
<1>4. QED  BY <1>1, <1>2, <1>3 DEF IInv

-----------------------------------------------------------------------------
(* What most steps leave alone. *)

ServerKept ==
  \A s \in ServerQps, c \in Clients : Established(s, c) => Established(s, c)'

PeersKept ==
  \A c \in Clients : /\ qp'[c].dest = qp[c].dest
                     /\ qp'[c].rq_psn = qp[c].rq_psn

Early == {"NONE", "RESET", "INIT", "RTR"}

EarlyKept ==
  \A q \in Qpn : qp'[q].state \in Early => qp[q].state \in Early

CurKept ==
  InHandler =>
    /\ qp'[cur.q].dest = qp[cur.q].dest
    /\ spc = "connecting" => qp'[cur.q].state = qp[cur.q].state
    /\ spc = "callback" => qp'[cur.q].state # "DESTROYED"

RepliesKept ==
  \A c \in Clients : reply'[c] \in {reply[c], NoReply}

(* Such a step keeps what the invariant says of answers, peers and the     *)
(* handler.                                                                *)
LEMMA Frame ==
  ASSUME IInv, UNCHANGED <<spc, cur, done>>,
         RepliesKept, ServerKept, PeersKept, EarlyKept, CurKept
  PROVE  CurOk' /\ ReplyOk' /\ PeerOk' /\ Unknown' /\ NothingDone'
<1>1. CurOk'
  BY DEF IInv, CurOk, CurKept, InHandler, ServerKept
<1>2. ReplyOk'
  <2> SUFFICES ASSUME NEW c \in Clients, reply'[c] # NoReply
               PROVE  /\ Established(reply[c].qp_num, c)'
                      /\ reply'[c].psn = universal_init_psn
    BY DEF ReplyOk
  <2>1. reply'[c] = reply[c]
    BY DEF RepliesKept
  <2>2. Established(reply[c].qp_num, c) /\ reply[c].psn = universal_init_psn
    BY <2>1 DEF IInv, ReplyOk
  <2>3. reply[c].qp_num \in ServerQps
    BY <2>2 DEF Established
  <2>4. QED  BY <2>1, <2>2, <2>3 DEF ServerKept, Established
<1>3. PeerOk'
  <2> SUFFICES ASSUME NEW c \in Clients, qp'[c].dest # NoQp
               PROVE  /\ Established(qp[c].dest, c)'
                      /\ qp'[c].rq_psn = universal_init_psn
    BY DEF PeerOk, PeersKept
  <2>1. Established(qp[c].dest, c) /\ qp[c].rq_psn = universal_init_psn
    BY DEF IInv, PeerOk, PeersKept
  <2>2. QED  BY <2>1 DEF ServerKept, PeersKept, Established
<1>4. Unknown'
  BY DEF IInv, Unknown, InHandler, PeersKept, RepliesKept
<1>5. NothingDone'
  BY DEF IInv, NothingDone, EarlyKept, Early
<1>6. QED  BY <1>1, <1>2, <1>3, <1>4, <1>5

-----------------------------------------------------------------------------
(* The steps of a client. *)

(* bind_port changes the wrapper's port only. *)
LEMMA BindPortKeeps ==
  ASSUME IInv, NEW c \in Clients, NEW port \in Ports, BindPort(c, port)
  PROVE  IInv'
<1>1. TypeOK'
  BY DEF IInv, TypeOK, BindPort, server_vars, traffic_vars
<1>2. CallsOk' /\ AnswerHeld'
  BY DEF IInv, CallsOk, AnswerHeld, TypeOK, BindPort
<1>3. ServerKept /\ PeersKept /\ EarlyKept /\ CurKept
  BY DEF IInv, BindPort, ServerKept, Established, PeersKept, EarlyKept,
         CurKept, CurOk
<1>4. RepliesKept /\ UNCHANGED <<spc, cur, done>>
  BY DEF BindPort, RepliesKept, server_vars, traffic_vars
<1>5. QED  BY <1>1, <1>2, <1>3, <1>4, Frame DEF IInv

(* A call carries what get_info() returns, which names the caller.         *)
LEMMA CallEstablishKeeps ==
  ASSUME IInv, NEW c \in Clients, CallEstablish(c)
  PROVE  IInv'
<1> DEFINE info == GetInfo(c, wport[c])
<1>1. info \in QpInfo
  BY RecordTypes DEF IInv, TypeOK, Qpn
<1>2. info.qp_num = c /\ info.psn = universal_init_psn
  BY DEF GetInfo
<1>3. calls' = calls \cup {[client |-> c, info |-> info]}
  BY DEF CallEstablish
<1> HIDE DEF info
<1>4. TypeOK'
  <2>1. calls' \subseteq Call
    BY <1>1, <1>3 DEF IInv, TypeOK, Call
  <2>2. cpc' \in [Clients -> ClientPc]
    BY DEF IInv, TypeOK, CallEstablish, ClientPc
  <2>3. QED
    BY <2>1, <2>2 DEF IInv, TypeOK, CallEstablish, server_vars, traffic_vars
<1>5. CallsOk' /\ AnswerHeld'
  BY <1>2, <1>3 DEF IInv, CallsOk, AnswerHeld, TypeOK, CallEstablish
<1>6. ServerKept /\ PeersKept /\ EarlyKept /\ CurKept
  BY DEF IInv, CallEstablish, ServerKept, Established, PeersKept, EarlyKept,
         CurKept, CurOk
<1>7. RepliesKept /\ UNCHANGED <<spc, cur, done>>
  BY DEF CallEstablish, RepliesKept, server_vars, traffic_vars
<1>8. QED  BY <1>4, <1>5, <1>6, <1>7, Frame DEF IInv

(* A step that changes the record of one client's queue pair only, neither *)
(* its peer nor back to an early state.                                    *)
LEMMA ClientStepFrame ==
  ASSUME IInv, NEW c \in Clients, NEW r \in QpRecord,
         qp' = [qp EXCEPT ![c] = r],
         r.dest = qp[c].dest, r.rq_psn = qp[c].rq_psn,
         r.state \in Early => qp[c].state \in Early
  PROVE  ServerKept /\ PeersKept /\ EarlyKept /\ CurKept
<1>1. /\ qp \in [Qpn -> QpRecord]
      /\ c \in Qpn /\ c \notin ServerQps
  BY QueuePairAssumption DEF IInv, TypeOK, Qpn
<1>2. qp'[c] = r /\ \A q \in Qpn : q # c => qp'[q] = qp[q]
  BY <1>1
<1>3. ServerKept
  BY <1>1, <1>2 DEF ServerKept, Established, Qpn
<1>4. PeersKept /\ EarlyKept
  BY <1>2 DEF PeersKept, EarlyKept, Qpn
<1>5. CurKept
  BY <1>1, <1>2 DEF IInv, CurOk, CurKept, Qpn
<1>6. QED  BY <1>3, <1>4, <1>5

(* The client's modify to INIT leaves its peer unset. *)
LEMMA ClientToInitKeeps ==
  ASSUME IInv, NEW c \in Clients, ClientToInit(c)
  PROVE  IInv'
<1> DEFINE r == ToInit(qp[c], 1)
<1>1. qp[c] \in QpRecord /\ r \in QpRecord
  BY RecordTypes, QueuePairAssumption DEF IInv, TypeOK, Qpn
<1>2. /\ r.dest = qp[c].dest /\ r.rq_psn = qp[c].rq_psn
      /\ qp[c].state \in Early
  BY <1>1 DEF ToInit, QpRecord, ClientToInit, Early
<1>3. qp' = [qp EXCEPT ![c] = r]
  BY DEF ClientToInit
<1> HIDE DEF r
<1>4. TypeOK'
  BY <1>1, <1>3
  DEF IInv, TypeOK, ClientToInit, ClientPc, server_vars, traffic_vars
<1>5. CallsOk' /\ AnswerHeld'
  BY DEF IInv, CallsOk, AnswerHeld, TypeOK, ClientToInit
<1>6. RepliesKept /\ UNCHANGED <<spc, cur, done>>
  BY DEF ClientToInit, RepliesKept, server_vars, traffic_vars
<1>7. QED
  BY <1>1, <1>2, <1>3, <1>4, <1>5, <1>6, ClientStepFrame, Frame DEF IInv

(* A client's process may end at any point: the server's queue pairs stay  *)
(* as they are.                                                            *)
LEMMA ClientEndsKeeps ==
  ASSUME IInv, NEW c \in Clients, ClientEnds(c)
  PROVE  IInv'
<1> DEFINE r == [qp[c] EXCEPT !.state = "DESTROYED"]
<1>1. qp[c] \in QpRecord /\ r \in QpRecord
  <2>1. qp \in [Qpn -> QpRecord] /\ c \in Qpn
    BY DEF IInv, TypeOK, Qpn
  <2>2. qp[c] \in QpRecord
    BY <2>1
  <2>3. "DESTROYED" \in QpState
    BY DEF QpState
  <2>4. QED  BY <2>2, <2>3 DEF QpRecord
<1>2. /\ r.dest = qp[c].dest /\ r.rq_psn = qp[c].rq_psn
      /\ r.state \notin Early
  BY <1>1 DEF QpRecord, Early
<1>3. qp' = [qp EXCEPT ![c] = r]
  BY DEF ClientEnds
<1> HIDE DEF r
<1>4. TypeOK'
  BY <1>1, <1>3
  DEF IInv, TypeOK, ClientEnds, ClientPc, server_vars, traffic_vars
<1>5. CallsOk' /\ AnswerHeld'
  BY DEF IInv, CallsOk, AnswerHeld, TypeOK, ClientEnds
<1>6. RepliesKept /\ UNCHANGED <<spc, cur, done>>
  BY DEF ClientEnds, RepliesKept, server_vars, traffic_vars
<1>7. QED
  BY <1>1, <1>2, <1>3, <1>4, <1>5, <1>6, ClientStepFrame, Frame DEF IInv

(* The client takes its peer from the answer. *)
LEMMA ClientToRtrKeeps ==
  ASSUME IInv, NEW c \in Clients, ClientToRtr(c)
  PROVE  IInv'
<1> DEFINE r == ToRtr(qp[c], reply[c])
<1>1. /\ qp \in [Qpn -> QpRecord]
      /\ c \in Qpn /\ c \notin ServerQps
      /\ reply[c] # NoReply
      /\ reply[c] \in QpInfo
  BY QueuePairAssumption DEF IInv, TypeOK, Qpn, AnswerHeld, ClientToRtr
<1>2. r \in QpRecord
  BY <1>1, RecordTypes
<1>3. /\ r.dest = reply[c].qp_num /\ r.rq_psn = reply[c].psn
      /\ r.state = "RTR" /\ qp[c].state = "INIT"
  BY <1>1 DEF ToRtr, QpRecord, ClientToRtr
<1>4. qp' = [qp EXCEPT ![c] = r]
  BY DEF ClientToRtr
<1> HIDE DEF r
<1>5. qp'[c] = r /\ \A q \in Qpn : q # c => qp'[q] = qp[q]
  BY <1>1, <1>4
<1>6. UNCHANGED <<reply, calls, spc, cur, done>>
  BY DEF ClientToRtr, client_vars, server_vars, traffic_vars
<1>7. TypeOK'
  BY <1>2, <1>4
  DEF IInv, TypeOK, ClientToRtr, client_vars, server_vars, traffic_vars
<1>8. ServerKept
  BY <1>1, <1>5 DEF ServerKept, Established, Qpn
<1>9. CurOk'
  BY <1>1, <1>5, <1>6, <1>8
  DEF IInv, CurOk, InHandler, ServerKept, Established, Qpn
<1>10. ReplyOk'
  BY <1>6, <1>8 DEF IInv, ReplyOk, ServerKept, Established
<1>11. PeerOk'
  <2> SUFFICES ASSUME NEW d \in Clients, qp'[d].dest # NoQp
               PROVE  /\ Established(qp[d].dest, d)'
                      /\ qp'[d].rq_psn = universal_init_psn
    BY DEF PeerOk
  <2>1. CASE d = c
    <3>1. Established(reply[c].qp_num, c) /\ reply[c].psn = universal_init_psn
      BY <1>1 DEF IInv, ReplyOk
    <3>2. Established(reply[c].qp_num, c)'
      BY <3>1, <1>6, <1>8 DEF ServerKept, Established
    <3>3. QED  BY <2>1, <3>1, <3>2, <1>3, <1>5, <1>6 DEF Established
  <2>2. CASE d # c
    <3>1. qp'[d] = qp[d]
      BY <2>2, <1>5 DEF Qpn
    <3>2. Established(qp[d].dest, d) /\ qp[d].rq_psn = universal_init_psn
      BY <3>1 DEF IInv, PeerOk
    <3>3. QED  BY <3>1, <3>2, <1>8 DEF ServerKept, Established
  <2>3. QED  BY <2>1, <2>2
<1>12. Unknown'
  <2> SUFFICES ASSUME InHandler
               PROVE  /\ \A d \in Clients : qp'[d].dest # cur.q
                      /\ \A d \in Clients : reply[d] # NoReply
                                              => reply[d].qp_num # cur.q
                      /\ done[cur.q] = 0
    BY <1>6 DEF Unknown, InHandler
  <2>1. \A d \in Clients : qp'[d].dest # cur.q
    <3>1. qp'[c].dest # cur.q
      BY <1>1, <1>3, <1>5 DEF IInv, Unknown
    <3>2. \A d \in Clients : d # c => qp'[d].dest # cur.q
      BY <1>5 DEF IInv, Unknown, Qpn
    <3>3. QED  BY <3>1, <3>2
  <2>2. QED  BY <2>1 DEF IInv, Unknown
<1>13. NothingDone'
  BY <1>3, <1>5, <1>6 DEF IInv, NothingDone
<1>14. CallsOk' /\ AnswerHeld'
  BY <1>6 DEF IInv, CallsOk, AnswerHeld, ClientToRtr, client_vars
<1>15. QED  BY <1>7, <1>9, <1>10, <1>11, <1>12, <1>13, <1>14 DEF IInv

(* The client's modify to RTS keeps the peer it set on its way to RTR. *)
LEMMA ClientToRtsKeeps ==
  ASSUME IInv, NEW c \in Clients, ClientToRts(c)
  PROVE  IInv'
<1> DEFINE r == ToRts(qp[c])
<1>1. qp[c] \in QpRecord /\ r \in QpRecord
  BY RecordTypes DEF IInv, TypeOK, Qpn
<1>2. /\ r.dest = qp[c].dest /\ r.rq_psn = qp[c].rq_psn
      /\ r.state \notin Early
  BY <1>1 DEF ToRts, QpRecord, Early
<1>3. qp' = [qp EXCEPT ![c] = r]
  BY DEF ClientToRts
<1> HIDE DEF r
<1>4. TypeOK'
  BY <1>1, <1>3
  DEF IInv, TypeOK, ClientToRts, ClientPc, server_vars, traffic_vars
<1>5. CallsOk' /\ AnswerHeld'
  BY DEF IInv, CallsOk, AnswerHeld, TypeOK, ClientToRts
<1>6. RepliesKept /\ UNCHANGED <<spc, cur, done>>
  BY DEF IInv, TypeOK, ClientToRts, RepliesKept, server_vars, traffic_vars
<1>7. QED
  BY <1>1, <1>2, <1>3, <1>4, <1>5, <1>6, ClientStepFrame, Frame DEF IInv

-----------------------------------------------------------------------------
(* The steps of the handler. *)

(* A step that changes only the record of the handler's queue pair, and    *)
(* not the calls, the clients or what was delivered.                       *)
LEMMA HandlerStepFrame ==
  ASSUME IInv, NEW s \in ServerQps, NEW r \in QpRecord,
         qp' = [qp EXCEPT ![s] = r],
         UNCHANGED <<reply, done, calls, cpc>>,
         \A c \in Clients : Established(s, c) =>
           /\ r.dest = c
           /\ r.state \in {"RTS", "ERR", "DESTROYED"}
           /\ r.sq_psn = universal_init_psn,
         r.state \in Early => qp[s].state \in Early
  PROVE  /\ ServerKept /\ PeersKept
         /\ CallsOk' /\ ReplyOk' /\ PeerOk' /\ NothingDone' /\ AnswerHeld'
<1>1. /\ qp \in [Qpn -> QpRecord]
      /\ s \in Qpn /\ s \notin Clients
  BY QueuePairAssumption DEF IInv, TypeOK, Qpn
<1>2. qp'[s] = r /\ \A q \in Qpn : q # s => qp'[q] = qp[q]
  BY <1>1
<1>3. ServerKept
  <2> SUFFICES ASSUME NEW t \in ServerQps, NEW c \in Clients, Established(t, c)
               PROVE  Established(t, c)'
    BY DEF ServerKept
  <2>1. CASE t = s
    BY <2>1, <1>2 DEF Established
  <2>2. CASE t # s
    BY <2>2, <1>2 DEF Established, Qpn
  <2>3. QED  BY <2>1, <2>2
<1>4. PeersKept
  BY <1>1, <1>2 DEF PeersKept, Qpn
<1>5. CallsOk' /\ AnswerHeld'
  BY DEF IInv, CallsOk, AnswerHeld
<1>6. ReplyOk'
  BY <1>3 DEF IInv, ReplyOk, ServerKept, Established
<1>7. PeerOk'
  <2> SUFFICES ASSUME NEW c \in Clients, qp'[c].dest # NoQp
               PROVE  /\ Established(qp[c].dest, c)'
                      /\ qp'[c].rq_psn = universal_init_psn
    BY <1>4 DEF PeerOk, PeersKept
  <2>1. Established(qp[c].dest, c) /\ qp[c].rq_psn = universal_init_psn
    BY <1>4 DEF IInv, PeerOk, PeersKept
  <2>2. QED  BY <2>1, <1>3, <1>4 DEF ServerKept, PeersKept, Established
<1>8. NothingDone'
  BY <1>2 DEF IInv, NothingDone, Early
<1>9. QED  BY <1>3, <1>4, <1>5, <1>6, <1>7, <1>8

(* The handler takes a queue pair nobody knows yet.                        *)
LEMMA AcceptKeeps ==
  ASSUME IInv, NEW call \in calls, NEW s \in ServerQps, Accept(call, s)
  PROVE  IInv'
<1>1. /\ qp[s].state = "NONE" /\ s \in Qpn
      /\ qp \in [Qpn -> QpRecord]
      /\ call \in Call
      /\ call.info.qp_num = call.client
  BY DEF IInv, TypeOK, CallsOk, Accept, FreeQps, Qpn
<1>2. Created \in QpRecord /\ Created.state = "RESET"
  BY RecordTypes DEF Created, Blank
<1>3. qp' = [qp EXCEPT ![s] = Created]
  BY DEF Accept
<1>4. /\ spc' = "connecting"
      /\ cur' = [client |-> call.client, info |-> call.info, q |-> s]
      /\ calls' \subseteq calls
      /\ UNCHANGED <<reply, cpc, done>>
  BY DEF Accept, client_vars, traffic_vars
<1>5. TypeOK'
  BY <1>1, <1>2, <1>3, <1>4
  DEF IInv, TypeOK, Accept, Call, ServerPc, client_vars, traffic_vars
<1>6. ServerKept
  BY <1>1, <1>3 DEF ServerKept, Established
<1>7. PeersKept
  BY <1>1, <1>3, QueuePairAssumption DEF PeersKept, Qpn
<1>8. CallsOk' /\ AnswerHeld'
  BY <1>4 DEF IInv, CallsOk, AnswerHeld
<1>9. CurOk'
  BY <1>1, <1>2, <1>3, <1>4 DEF CurOk, InHandler, Call
<1>10. ReplyOk'
  BY <1>4, <1>6 DEF IInv, ReplyOk, ServerKept, Established
<1>11. PeerOk'
  <2> SUFFICES ASSUME NEW c \in Clients, qp'[c].dest # NoQp
               PROVE  /\ Established(qp[c].dest, c)'
                      /\ qp'[c].rq_psn = universal_init_psn
    BY <1>7 DEF PeerOk, PeersKept
  <2>1. Established(qp[c].dest, c) /\ qp[c].rq_psn = universal_init_psn
    BY <1>7 DEF IInv, PeerOk, PeersKept
  <2>2. QED  BY <2>1, <1>6, <1>7 DEF ServerKept, PeersKept, Established
<1>12. Unknown'
  <2>1. ASSUME NEW c \in Clients PROVE qp'[c].dest # s
    <3>1. ~ Established(s, c)
      BY <1>1 DEF Established
    <3>2. QED
      BY <3>1, <1>7, QueuePairAssumption DEF IInv, PeerOk, PeersKept, Qpn
  <2>2. ASSUME NEW c \in Clients, reply[c] # NoReply PROVE reply[c].qp_num # s
    BY <2>2, <1>1 DEF IInv, ReplyOk, Established
  <2>3. done[s] = 0
    BY <1>1 DEF IInv, NothingDone
  <2>4. QED  BY <2>1, <2>2, <2>3, <1>4 DEF Unknown
<1>13. NothingDone'
  BY <1>1, <1>3, <1>4 DEF IInv, NothingDone
<1>14. QED
  BY <1>5, <1>8, <1>9, <1>10, <1>11, <1>12, <1>13 DEF IInv

(* The handler's three modifies: the queue pair stays unknown to clients,  *)
(* and gets the caller for its peer.                                       *)
LEMMA ServerToInitKeeps ==
  ASSUME IInv, ServerToInit
  PROVE  IInv'
<1> DEFINE s == cur.q
           r == ToInit(qp[s], 1)
<1>1. /\ spc = "connecting" /\ InHandler
      /\ s \in ServerQps /\ s \in Qpn
      /\ qp \in [Qpn -> QpRecord] /\ qp[s].state = "RESET"
  BY DEF IInv, TypeOK, CurOk, InHandler, ServerToInit, Qpn
<1>2. r \in QpRecord
  BY <1>1, RecordTypes, QueuePairAssumption
<1>3. /\ r.state = "INIT" /\ \A c \in Clients : ~ Established(s, c)
      /\ qp[s].state \in Early
  BY <1>1 DEF ToInit, QpRecord, Established, Early
<1>4. qp' = [qp EXCEPT ![s] = r]
  BY DEF ServerToInit
<1>5. UNCHANGED <<wport, announced, cpc, reply, calls, spc, cur, rq, sent, done, cbPosted>>
  BY DEF ServerToInit, client_vars, server_vars, traffic_vars
<1> HIDE DEF r
<1>6. TypeOK'
  BY <1>2, <1>4, <1>5 DEF IInv, TypeOK
<1>7. /\ PeersKept
      /\ CallsOk' /\ ReplyOk' /\ PeerOk' /\ NothingDone' /\ AnswerHeld'
  BY <1>1, <1>2, <1>3, <1>4, <1>5, HandlerStepFrame
<1>8. CurOk'
  BY <1>1, <1>3, <1>4, <1>5 DEF IInv, CurOk, InHandler
<1>9. Unknown'
  BY <1>5, <1>7 DEF IInv, Unknown, InHandler, PeersKept
<1>10. QED  BY <1>6, <1>7, <1>8, <1>9 DEF IInv

(* From here on the handler's queue pair names its client. *)
LEMMA ServerToRtrKeeps ==
  ASSUME IInv, ServerToRtr
  PROVE  IInv'
<1> DEFINE s == cur.q
           r == ToRtr(qp[s], cur.info)
<1>1. /\ spc = "connecting" /\ InHandler
      /\ s \in ServerQps /\ s \in Qpn
      /\ qp \in [Qpn -> QpRecord] /\ qp[s].state = "INIT"
      /\ cur.info \in QpInfo /\ cur.info.qp_num = cur.client
  BY DEF IInv, TypeOK, CurOk, InHandler, ServerToRtr, Qpn
<1>2. r \in QpRecord
  BY <1>1, RecordTypes
<1>3. /\ r.state = "RTR" /\ r.dest = cur.client
      /\ \A c \in Clients : ~ Established(s, c)
      /\ qp[s].state \in Early
  BY <1>1 DEF ToRtr, QpRecord, Established, Early
<1>4. qp' = [qp EXCEPT ![s] = r]
  BY DEF ServerToRtr
<1>5. UNCHANGED <<wport, announced, cpc, reply, calls, spc, cur, rq, sent, done, cbPosted>>
  BY DEF ServerToRtr, client_vars, server_vars, traffic_vars
<1> HIDE DEF r
<1>6. TypeOK'
  BY <1>2, <1>4, <1>5 DEF IInv, TypeOK
<1>7. /\ PeersKept
      /\ CallsOk' /\ ReplyOk' /\ PeerOk' /\ NothingDone' /\ AnswerHeld'
  BY <1>1, <1>2, <1>3, <1>4, <1>5, HandlerStepFrame
<1>8. CurOk'
  BY <1>1, <1>3, <1>4, <1>5 DEF IInv, CurOk, InHandler
<1>9. Unknown'
  BY <1>5, <1>7 DEF IInv, Unknown, InHandler, PeersKept
<1>10. QED  BY <1>6, <1>7, <1>8, <1>9 DEF IInv

(* With RTS the handler's queue pair is established. *)
LEMMA ServerToRtsKeeps ==
  ASSUME IInv, ServerToRts
  PROVE  IInv'
<1> DEFINE s == cur.q
           r == ToRts(qp[s])
<1>1. /\ spc = "connecting" /\ InHandler
      /\ s \in ServerQps /\ s \in Qpn
      /\ qp \in [Qpn -> QpRecord] /\ qp[s].state = "RTR"
      /\ qp[s].dest = cur.client
  BY DEF IInv, TypeOK, CurOk, InHandler, ServerToRts, Qpn
<1>2. r \in QpRecord
  BY <1>1, RecordTypes
<1>3. /\ r.state = "RTS" /\ r.dest = cur.client
      /\ r.sq_psn = universal_init_psn
      /\ \A c \in Clients : ~ Established(s, c)
      /\ qp[s].state \in Early
  BY <1>1 DEF ToRts, QpRecord, Established, Early
<1>4. qp' = [qp EXCEPT ![s] = r] /\ spc' = "callback"
  BY DEF ServerToRts
<1>5. UNCHANGED <<wport, announced, cpc, reply, calls, cur, rq, sent, done, cbPosted>>
  BY DEF ServerToRts, client_vars, server_vars, traffic_vars
<1> HIDE DEF r
<1>6. TypeOK'
  BY <1>2, <1>4, <1>5 DEF IInv, TypeOK, ServerPc
<1>7. /\ PeersKept
      /\ CallsOk' /\ ReplyOk' /\ PeerOk' /\ NothingDone' /\ AnswerHeld'
  BY <1>1, <1>2, <1>3, <1>4, <1>5, HandlerStepFrame
<1>8. Established(s, cur.client)' /\ qp'[s].state = "RTS"
  BY <1>1, <1>3, <1>4, <1>5 DEF Established
<1>9. CurOk'
  BY <1>1, <1>4, <1>5, <1>8 DEF IInv, CurOk, InHandler
<1>10. Unknown'
  BY <1>1, <1>5, <1>7 DEF IInv, Unknown, PeersKept
<1>11. QED  BY <1>6, <1>7, <1>9, <1>10 DEF IInv

(* The callback keeps or destroys an established queue pair. *)
LEMMA CallbackReturnsKeeps ==
  ASSUME IInv, NEW keep \in BOOLEAN, NEW should_stop \in BOOLEAN,
         CallbackReturns(keep, should_stop)
  PROVE  IInv'
<1> DEFINE s == cur.q
           r == IF keep THEN qp[s] ELSE [qp[s] EXCEPT !.state = "DESTROYED"]
<1>1. /\ spc = "callback" /\ InHandler
      /\ s \in ServerQps /\ s \in Qpn
      /\ qp \in [Qpn -> QpRecord] /\ qp[s] \in QpRecord
      /\ Established(s, cur.client)
  BY DEF IInv, TypeOK, CurOk, InHandler, CallbackReturns, Qpn
<1>2. r \in QpRecord
  BY <1>1 DEF QpRecord, QpState
<1>3. /\ r.dest = qp[s].dest /\ r.sq_psn = qp[s].sq_psn
      /\ r.state \in {qp[s].state, "DESTROYED"}
  BY <1>1 DEF QpRecord
<1>4. qp' = [qp EXCEPT ![s] = r] /\ spc' \in {"stopping", "replying"}
  <2>1. CASE keep
    BY <2>1, <1>1 DEF CallbackReturns
  <2>2. CASE ~ keep
    BY <2>2 DEF CallbackReturns
  <2>3. QED  BY <2>1, <2>2
<1>5. UNCHANGED <<wport, announced, cpc, reply, calls, cur, rq, sent, done, cbPosted>>
  BY DEF CallbackReturns, client_vars, traffic_vars
<1> HIDE DEF r
<1>6. TypeOK'
  BY <1>2, <1>4, <1>5 DEF IInv, TypeOK, ServerPc
<1>7. /\ ServerKept /\ PeersKept
      /\ CallsOk' /\ ReplyOk' /\ PeerOk' /\ NothingDone' /\ AnswerHeld'
  <2>1. \A c \in Clients : Established(s, c) =>
          /\ r.dest = c
          /\ r.state \in {"RTS", "ERR", "DESTROYED"}
          /\ r.sq_psn = universal_init_psn
    BY <1>3 DEF Established
  <2>2. r.state \in Early => qp[s].state \in Early
    BY <1>3 DEF Early
  <2>3. QED  BY <2>1, <2>2, <1>1, <1>2, <1>4, <1>5, HandlerStepFrame
<1>8. CurOk'
  <2>1. cur.client \in Clients
    BY <1>1 DEF IInv, CurOk
  <2>2. Established(s, cur.client)'
    BY <2>1, <1>1, <1>5, <1>7 DEF ServerKept, Established
  <2>3. QED  BY <2>2, <1>1, <1>4, <1>5 DEF IInv, CurOk
<1>9. Unknown'
  BY <1>1, <1>5, <1>7 DEF IInv, Unknown, PeersKept
<1>10. QED  BY <1>6, <1>7, <1>8, <1>9 DEF IInv

(* The answer names the queue pair established for the client it goes to.  *)
LEMMA ReplyKeeps ==
  ASSUME IInv, Reply
  PROVE  IInv'
<1> DEFINE s == cur.q
           info == GetInfo(s, 1)
<1>1. /\ spc \in {"replying", "stopping"}
      /\ s \in ServerQps /\ s \in Qpn /\ cur.client \in Clients
      /\ Established(s, cur.client)
  BY DEF IInv, CurOk, InHandler, Reply, Qpn
<1>2. info \in QpInfo /\ info.qp_num = s /\ info.psn = universal_init_psn
  BY <1>1, RecordTypes, QueuePairAssumption DEF GetInfo
<1>3. /\ reply' = [reply EXCEPT ![cur.client] = info]
      /\ spc' \in {"stopped", "listening"}
      /\ cur' = NoCall
      /\ UNCHANGED <<qp, wport, announced, cpc, calls, rq, sent, done, cbPosted>>
  BY DEF Reply, traffic_vars
<1> HIDE DEF info
<1>4. TypeOK'
  BY <1>2, <1>3 DEF IInv, TypeOK, ServerPc
<1>5. CallsOk' /\ PeerOk' /\ NothingDone'
  BY <1>3 DEF IInv, CallsOk, PeerOk, NothingDone, Established
<1>6. CurOk' /\ Unknown'
  BY <1>3 DEF CurOk, Unknown, InHandler
<1>7. reply'[cur.client] = info
      /\ \A c \in Clients : c # cur.client => reply'[c] = reply[c]
  BY <1>1, <1>3 DEF IInv, TypeOK
<1>8. ReplyOk'
  <2> SUFFICES ASSUME NEW c \in Clients, reply'[c] # NoReply
               PROVE  /\ Established(reply'[c].qp_num, c)
                      /\ reply'[c].psn = universal_init_psn
    BY <1>3 DEF ReplyOk, Established
  <2>1. CASE c = cur.client
    BY <2>1, <1>1, <1>2, <1>7
  <2>2. CASE c # cur.client
    BY <2>2, <1>7 DEF IInv, ReplyOk
  <2>3. QED  BY <2>1, <2>2
<1>9. AnswerHeld'
  BY <1>2, <1>3, <1>7, NoReplyIsNoInfo DEF IInv, AnswerHeld
<1>10. QED  BY <1>4, <1>5, <1>6, <1>8, <1>9 DEF IInv

(* The server's process ends: established queue pairs are destroyed, which *)
(* Established allows.                                                     *)
LEMMA ServerEndsKeeps ==
  ASSUME IInv, ServerEnds
  PROVE  IInv'
<1>1. qp \in [Qpn -> QpRecord]
  BY DEF IInv, TypeOK
<1>2. /\ spc' = "exited" /\ cur' = NoCall
      /\ UNCHANGED <<wport, announced, cpc, reply, calls, rq, sent, done, cbPosted>>
  BY DEF ServerEnds, client_vars, traffic_vars
<1>3. ASSUME NEW q \in Qpn
      PROVE  /\ qp'[q] \in QpRecord
             /\ qp'[q].dest = qp[q].dest
             /\ qp'[q].rq_psn = qp[q].rq_psn
             /\ qp'[q].sq_psn = qp[q].sq_psn
             /\ qp'[q].state \in {qp[q].state, "DESTROYED"}
  <2>1. qp[q] \in QpRecord
    BY <1>1
  <2>2. CASE q \in ServerQps
    <3>1. qp'[q] = [qp[q] EXCEPT !.state = "DESTROYED"]
      BY <2>2 DEF ServerEnds
    <3>2. QED  BY <2>1, <3>1 DEF QpRecord, QpState
  <2>3. CASE q \notin ServerQps
    <3>1. qp'[q] = qp[q]
      BY <2>3 DEF ServerEnds
    <3>2. QED  BY <2>1, <3>1
  <2>4. QED  BY <2>2, <2>3
<1>4. TypeOK'
  <2>1. qp' = [q \in Qpn |-> qp'[q]]
    BY DEF ServerEnds
  <2>2. qp' \in [Qpn -> QpRecord]
    BY <1>3, <2>1
  <2>3. QED  BY <2>2, <1>2 DEF IInv, TypeOK, ServerPc
<1>5. ServerKept
  BY <1>3 DEF ServerKept, Established, Qpn
<1>6. PeersKept /\ EarlyKept
  BY <1>3 DEF PeersKept, EarlyKept, Early, Qpn
<1>7. CallsOk' /\ AnswerHeld' /\ CurOk' /\ Unknown'
  BY <1>2 DEF IInv, CallsOk, AnswerHeld, CurOk, Unknown, InHandler
<1>8. ReplyOk'
  BY <1>2, <1>5 DEF IInv, ReplyOk, ServerKept, Established
<1>9. PeerOk'
  <2> SUFFICES ASSUME NEW c \in Clients, qp'[c].dest # NoQp
               PROVE  /\ Established(qp[c].dest, c)'
                      /\ qp'[c].rq_psn = universal_init_psn
    BY <1>6 DEF PeerOk, PeersKept
  <2>1. Established(qp[c].dest, c) /\ qp[c].rq_psn = universal_init_psn
    BY <1>6 DEF IInv, PeerOk, PeersKept
  <2>2. QED  BY <2>1, <1>5, <1>6 DEF ServerKept, PeersKept, Established
<1>10. NothingDone'
  BY <1>2, <1>6 DEF IInv, NothingDone, EarlyKept, Early
<1>11. QED  BY <1>4, <1>7, <1>8, <1>9, <1>10 DEF IInv

-----------------------------------------------------------------------------
(* Posting, the transport, and destruction. *)

(* Posting changes the counters of the traffic within their bounds. *)
LEMMA PostKeeps ==
  ASSUME IInv, NEW q \in Qpn, PostRecv(q) \/ PostSend(q)
  PROVE  IInv'
<1>1. UNCHANGED <<qp, wport, announced, cpc, reply, calls, spc, cur, done>>
  BY DEF PostRecv, PostSend, client_vars, server_vars
<1>2. TypeOK'
  <2>1. CASE PostRecv(q)
    <3>1. rq' \in [Qpn -> 0..MaxRecv]
      BY <2>1, ConnectionManagerAssumption DEF IInv, TypeOK, PostRecv
    <3>2. cbPosted' \in [Qpn -> Nat]
      BY <2>1 DEF IInv, TypeOK, PostRecv
    <3>3. QED  BY <2>1, <3>1, <3>2, <1>1 DEF IInv, TypeOK, PostRecv
  <2>2. CASE PostSend(q)
    <3>1. sent' \in [Qpn -> 0..MaxSend]
      BY <2>2, ConnectionManagerAssumption DEF IInv, TypeOK, PostSend
    <3>2. QED  BY <2>2, <3>1, <1>1 DEF IInv, TypeOK, PostSend
  <2>3. QED  BY <2>1, <2>2
<1>3. CallsOk' /\ AnswerHeld'
  BY <1>1 DEF IInv, CallsOk, AnswerHeld
<1>4. ServerKept /\ PeersKept /\ EarlyKept /\ CurKept /\ RepliesKept
  BY <1>1 DEF IInv, ServerKept, Established, PeersKept, EarlyKept, CurKept,
              CurOk, RepliesKept
<1>5. QED  BY <1>1, <1>2, <1>3, <1>4, Frame DEF IInv

(* A delivery takes a receive that is there, and none of its sends is one  *)
(* of the queue pair in the handler, which no client has for its peer.     *)
LEMMA DeliverKeeps ==
  ASSUME IInv, NEW q \in Qpn, Deliver(q)
  PROVE  IInv'
<1> DEFINE p == qp[q].dest
<1>1. /\ UNCHANGED <<qp, wport, announced, cpc, reply, calls, spc, cur, sent, cbPosted>>
      /\ rq' = [rq EXCEPT ![p] = @ - 1]
      /\ done' = [done EXCEPT ![q] = @ + 1]
      /\ qp[q].state = "RTS" /\ done[q] < sent[q] /\ rq[p] > 0
      /\ qp[p].dest = q
  BY DEF Deliver, InFlight, Deliverable, Reaches, Receives, client_vars,
         server_vars
<1>2. TypeOK'
  <2>1. rq' \in [Qpn -> 0..MaxRecv]
    <3> HIDE DEF p
    <3>1. rq \in [Qpn -> 0..MaxRecv] /\ MaxRecv \in Nat
      BY ConnectionManagerAssumption DEF IInv, TypeOK
    <3>2. p \in Qpn => rq[p] - 1 \in 0..MaxRecv
      <4> SUFFICES ASSUME p \in Qpn PROVE rq[p] - 1 \in 0..MaxRecv
        OBVIOUS
      <4>1. rq[p] \in 0..MaxRecv
        BY <3>1
      <4>2. QED  BY <4>1, <3>1, <1>1
    <3>3. QED  BY <1>1, <3>1, <3>2
  <2>2. done' \in [Qpn -> 0..MaxSend]
    <3>1. done[q] \in 0..MaxSend /\ sent[q] \in 0..MaxSend
      BY DEF IInv, TypeOK
    <3>2. done[q] + 1 \in 0..MaxSend
      BY <1>1, <3>1, ConnectionManagerAssumption
    <3>3. QED  BY <1>1, <3>2 DEF IInv, TypeOK
  <2>3. QED  BY <2>1, <2>2, <1>1 DEF IInv, TypeOK
<1>3. CallsOk' /\ AnswerHeld'
  BY <1>1 DEF IInv, CallsOk, AnswerHeld
<1>4. CurOk' /\ ReplyOk' /\ PeerOk'
  BY <1>1 DEF IInv, CurOk, ReplyOk, PeerOk, InHandler, Established
<1>5. ASSUME InHandler PROVE q # cur.q
  <2> SUFFICES ASSUME q = cur.q PROVE FALSE
    OBVIOUS
  <2>1. p = cur.client /\ cur.client \in Clients
    BY <1>1, <1>5 DEF IInv, CurOk, Established
  <2>2. QED  BY <2>1, <1>1, <1>5 DEF IInv, Unknown
<1>6. Unknown'
  BY <1>1, <1>5 DEF IInv, TypeOK, Unknown, InHandler, CurOk, Qpn
<1>7. NothingDone'
  BY <1>1 DEF IInv, TypeOK, NothingDone
<1>8. QED  BY <1>2, <1>3, <1>4, <1>6, <1>7 DEF IInv

(* Expire and DestroyQp: a queue pair in RTS or ERR goes to ERR or away.   *)
LEMMA QpEndsKeeps ==
  ASSUME IInv, NEW q \in Qpn, Expire(q) \/ DestroyQp(q)
  PROVE  IInv'
<1> DEFINE state == IF Expire(q) THEN "ERR" ELSE "DESTROYED"
           r == [qp[q] EXCEPT !.state = state]
<1>1. /\ UNCHANGED <<wport, announced, cpc, reply, calls, spc, cur, rq, sent, done,
                     cbPosted>>
      /\ qp[q].state \in {"RTS", "ERR"}
  BY DEF Expire, DestroyQp, InFlight, client_vars, server_vars, traffic_vars
<1>2. state \in {"ERR", "DESTROYED"} /\ qp' = [qp EXCEPT ![q] = r]
  <2>1. CASE Expire(q)
    BY <2>1 DEF Expire
  <2>2. CASE ~ Expire(q)
    BY <2>2 DEF DestroyQp
  <2>3. QED  BY <2>1, <2>2
<1>3. state = "DESTROYED" => ~ (q = cur.q /\ spc = "callback")
  BY DEF DestroyQp
<1> HIDE DEF state
<1>4. /\ qp[q] \in QpRecord /\ r \in QpRecord
      /\ r.dest = qp[q].dest /\ r.rq_psn = qp[q].rq_psn
      /\ r.sq_psn = qp[q].sq_psn /\ r.state = state
  BY <1>2 DEF IInv, TypeOK, QpRecord, QpState
<1> HIDE DEF r
<1>5. qp'[q] = r /\ \A x \in Qpn : x # q => qp'[x] = qp[x]
  BY <1>2 DEF IInv, TypeOK
<1>6. TypeOK'
  BY <1>1, <1>2, <1>4 DEF IInv, TypeOK
<1>7. CallsOk' /\ AnswerHeld'
  BY <1>1 DEF IInv, CallsOk, AnswerHeld
<1>8. ServerKept
  BY <1>2, <1>4, <1>5 DEF ServerKept, Established, Qpn
<1>9. PeersKept /\ EarlyKept
  BY <1>2, <1>4, <1>5 DEF PeersKept, EarlyKept, Early, Qpn
<1>10. CurKept
  <2> SUFFICES ASSUME InHandler
               PROVE  /\ qp'[cur.q].dest = qp[cur.q].dest
                      /\ spc = "connecting"
                           => qp'[cur.q].state = qp[cur.q].state
                      /\ spc = "callback" => qp'[cur.q].state # "DESTROYED"
    BY DEF CurKept
  <2>1. cur.q \in Qpn
    BY DEF IInv, CurOk, Qpn
  <2>2. CASE q = cur.q
    BY <2>2, <1>1, <1>2, <1>3, <1>4, <1>5 DEF IInv, CurOk
  <2>3. CASE q # cur.q
    BY <2>1, <2>3, <1>5 DEF IInv, CurOk
  <2>4. QED  BY <2>2, <2>3
<1>11. RepliesKept
  BY <1>1 DEF RepliesKept
<1>12. QED
  BY <1>1, <1>6, <1>7, <1>8, <1>9, <1>10, <1>11, Frame DEF IInv

-----------------------------------------------------------------------------
(* The invariant. *)

(* Every step keeps the invariant. *)
LEMMA StepIInv == IInv /\ [Next]_vars => IInv'
<1> SUFFICES ASSUME IInv, [Next]_vars PROVE IInv'
  OBVIOUS
<1>1. ASSUME NEW c \in Clients, NEW port \in Ports, BindPort(c, port)
      PROVE  IInv'
  BY <1>1, BindPortKeeps
<1>2. ASSUME NEW c \in Clients, CallEstablish(c) PROVE IInv'
  BY <1>2, CallEstablishKeeps
<1>3. ASSUME NEW c \in Clients, ClientConnectStep(c) PROVE IInv'
  BY <1>3, ClientToInitKeeps, ClientToRtrKeeps, ClientToRtsKeeps
  DEF ClientConnectStep
<1>4. ASSUME NEW c \in Clients,
             \/ ReconnectPanics(c) \/ CallFails(c)
             \/ ClientPollPanics(c) \/ ClientCrash(c)
      PROVE  IInv'
  BY <1>4, ClientEndsKeeps
  DEF ReconnectPanics, CallFails, ClientPollPanics, ClientCrash
<1>5. CASE AcceptAny
  BY <1>5, AcceptKeeps DEF AcceptAny
<1>6. CASE ServerToInit \/ ServerToRtr \/ ServerToRts
  BY <1>6, ServerToInitKeeps, ServerToRtrKeeps, ServerToRtsKeeps
<1>7. CASE CallbackEnds
  BY <1>7, CallbackReturnsKeeps DEF CallbackEnds
<1>8. CASE Reply
  BY <1>8, ReplyKeeps
<1>9. CASE ServerOutOfQps \/ ServerPollPanics \/ ServerCrash
  BY <1>9, ServerEndsKeeps DEF ServerOutOfQps, ServerPollPanics, ServerCrash
<1>10. ASSUME NEW q \in Qpn, PostRecv(q) \/ PostSend(q) PROVE IInv'
  BY <1>10, PostKeeps
<1>11. ASSUME NEW q \in Qpn, TransportStep(q) \/ DestroyQp(q) PROVE IInv'
  BY <1>11, DeliverKeeps, QpEndsKeeps DEF TransportStep
<1>12. CASE UNCHANGED vars
  BY <1>12
  DEF vars, IInv, TypeOK, CallsOk, CurOk, ReplyOk, PeerOk, Unknown,
      NothingDone, AnswerHeld, InHandler, Established
<1>13. QED
  BY <1>1, <1>2, <1>3, <1>4, <1>5, <1>6, <1>7, <1>8, <1>9, <1>10, <1>11,
     <1>12
  DEF Next, HandlerStep

(* The invariant holds for ever. *)
LEMMA Invariance == Spec => []IInv
BY InitIInv, StepIInv, PTL DEF Spec

(* The variables keep their types: the counters of posted receives stay    *)
(* between zero and their bound whatever peers deliver.                    *)
THEOREM TypeCorrect == Spec => []TypeOK
<1>1. IInv => TypeOK
  BY DEF IInv
<1>2. QED  BY <1>1, Invariance, PTL

(* A client's peer is a server queue pair that was brought to RTS before,  *)
(* connected to that client and no other, at matching PSNs.                *)
THEOREM PairedWithReadyPeerHolds == Spec => []PairedWithReadyPeer
<1>1. IInv => PairedWithReadyPeer
  BY DEF IInv, PeerOk, Established, PairedWithReadyPeer
<1>2. QED  BY <1>1, Invariance, PTL

(* While the callback runs, no client has its queue pair as peer and       *)
(* nothing it sends is delivered.                                          *)
THEOREM CallbackIsolatedHolds == Spec => []CallbackIsolated
<1>1. IInv => CallbackIsolated
  BY DEF IInv, Unknown, InHandler, CallbackIsolated
<1>2. QED  BY <1>1, Invariance, PTL
=============================================================================
