----------------------------- MODULE ExchangeProofs -----------------------------
(***************************************************************************)
(* Proofs about the exchange of addresses in ConnectionManager: that it is *)
(* the matchmaking of Rendezvous, when two connected queue pairs reach     *)
(* each other, and why a send may fail.  They need to know where a call    *)
(* is, and whose ports the paths of a queue pair name, on top of the       *)
(* invariant of ConnectionManagerProofs.                                   *)
(***************************************************************************)
EXTENDS ConnectionManagerProofs

(* A client's call waits for the server, is in the handler, or is          *)
(* answered, and a client that is not in connect() has none.               *)
Queued(c)   == \E call \in calls : call.client = c
Served(c)   == InHandler /\ cur.client = c
Answered(c) == reply[c] # NoReply

OneCall ==
  /\ \A a, b \in calls : a.client = b.client => a = b
  /\ \A c \in Clients :
       /\ ~ (Queued(c) /\ Served(c))
       /\ ~ (Queued(c) /\ Answered(c))
       /\ ~ (Served(c) /\ Answered(c))
       /\ cpc[c] \in {"idle", "connected"} =>
            ~ Queued(c) /\ ~ Served(c) /\ ~ Answered(c)
  /\ ~ InHandler => cur = NoCall

(* What a queue pair has got in each state. *)
Phases ==
  \A q \in Qpn :
    /\ qp[q].state \in Early => qp[q].sq_psn = 0 /\ cbPosted[q] = 0
    /\ qp[q].state \in {"NONE", "RESET", "INIT"} => qp[q].dest = NoQp
    /\ qp[q].state \in {"RTR", "RTS", "ERR"} => qp[q].dest # NoQp
    /\ qp[q].state \in {"RTS", "ERR"} => qp[q].sq_psn = universal_init_psn
    /\ (qp[q].state = "INIT" \/ qp[q].dest # NoQp) => qp[q].port = 1

(* A client works with its answer to the end. *)
TookAnswer ==
  \A c \in Clients :
    (cpc[c] = "connecting" /\ qp[c].state = "RTR") => qp[c].dest = reply[c].qp_num

(* A client that has no peer yet is at most in its first connect(). *)
Fresh(c) == qp[c].state \in {"RESET", "INIT"}

(* Before connect() nobody knows the client, after it the client is not    *)
(* fresh any more.                                                         *)
IdleFresh ==
  \A c \in Clients :
    /\ cpc[c] = "idle" =>
         qp[c].state = "RESET" /\ \A s \in ServerQps : qp[s].dest # c
    /\ cpc[c] = "connected" => ~ Fresh(c)

(* What get_info() of client c told; the port as long as the call it told  *)
(* it in must be the first one.                                            *)
Tells(info, c) ==
  /\ info.gid = <<c, 1>> /\ info.psn = universal_init_psn
  /\ Fresh(c) => info.lid = <<c, announced[c]>>

InfosOk ==
  /\ \A call \in calls : Tells(call.info, call.client)
  /\ InHandler => Tells(cur.info, cur.client)
  /\ \A c \in Clients : Answered(c) => reply[c] = GetInfo(reply[c].qp_num, 1)

(* The paths made of it, of those queue pairs of the server that are or    *)
(* may become the client's peer: no other was made by the first call.      *)
PathsOk ==
  \A c \in Clients :
    /\ qp[c].dest # NoQp => qp[c].dgid = <<Server, 1>> /\ qp[c].dlid = <<Server, 1>>
    /\ \A s \in ServerQps : qp[s].dest = c =>
         /\ qp[s].dgid = <<c, 1>>
         /\ qp[s].rq_psn = universal_init_psn
         /\ (Fresh(c) \/ qp[c].dest = s) => qp[s].dlid = <<c, announced[c]>>

(* What the callback posted is there or was used by its client. *)
PostedKept ==
  \A c \in Clients, s \in ServerQps :
    qp[s].dest = c => cbPosted[s] <= rq[s] + done[c]

JInv ==
  /\ OneCall
  /\ Phases
  /\ TookAnswer
  /\ IdleFresh
  /\ InfosOk
  /\ PathsOk
  /\ PostedKept
  /\ SendFailureExplained

-----------------------------------------------------------------------------
(* Fields. *)

LEMMA Fields ==
  /\ \A r \in QpRecord, port \in Ports :
       LET t == ToInit(r, port) IN
         /\ t.state = "INIT" /\ t.port = port /\ t.dest = r.dest
         /\ t.dgid = r.dgid /\ t.dlid = r.dlid
         /\ t.rq_psn = r.rq_psn /\ t.sq_psn = r.sq_psn
  /\ \A r \in QpRecord, info \in QpInfo :
       LET t == ToRtr(r, info) IN
         /\ t.state = "RTR" /\ t.port = r.port /\ t.dest = info.qp_num
         /\ t.dgid = info.gid /\ t.dlid = info.lid
         /\ t.rq_psn = info.psn /\ t.sq_psn = r.sq_psn
  /\ \A r \in QpRecord :
       LET t == ToRts(r) IN
         /\ t.state = "RTS" /\ t.port = r.port /\ t.dest = r.dest
         /\ t.dgid = r.dgid /\ t.dlid = r.dlid
         /\ t.rq_psn = r.rq_psn /\ t.sq_psn = universal_init_psn
  /\ Created.state = "RESET" /\ Created.dest = NoQp /\ Created.sq_psn = 0
BY DEF QpRecord, ToInit, ToRtr, ToRts, Created, Blank

LEMMA Infos ==
  /\ \A c \in Clients, p \in Ports :
       /\ GetInfo(c, p).gid = <<c, 1>> /\ GetInfo(c, p).lid = <<c, p>>
       /\ GetInfo(c, p).qp_num = c /\ GetInfo(c, p).psn = universal_init_psn
  /\ \A s \in ServerQps :
       /\ GetInfo(s, 1).gid = <<Server, 1>> /\ GetInfo(s, 1).lid = <<Server, 1>>
       /\ GetInfo(s, 1).qp_num = s /\ GetInfo(s, 1).psn = universal_init_psn
BY QueuePairAssumption DEF GetInfo, ProcOf

LEMMA Names ==
  /\ Qpn = Clients \cup ServerQps /\ Clients \cap ServerQps = {}
  /\ NoQp \notin Qpn /\ Server \notin Clients /\ 1 \in Ports
  /\ universal_init_psn # 0 /\ NoCall.client \notin Clients
BY QueuePairAssumption DEF Qpn, universal_init_psn, NoCall

LEMMA InitJInv == Init => JInv
<1> SUFFICES ASSUME Init PROVE JInv
  OBVIOUS
<1>1. /\ \A q \in Qpn : qp[q] = Created \/ qp[q] = Blank
      /\ \A c \in Clients : qp[c] = Created
      /\ calls = {} /\ \A c \in Clients : reply[c] = NoReply
      /\ spc = "listening" /\ cur = NoCall /\ cpc = [c \in Clients |-> "idle"]
      /\ \A q \in Qpn : cbPosted[q] = 0
  BY Names DEF Init
<1>2. \A q \in Qpn :
        /\ qp[q].state \in {"NONE", "RESET"} /\ qp[q].dest = NoQp
        /\ qp[q].sq_psn = 0
  BY <1>1 DEF Created, Blank
<1>3. OneCall /\ TookAnswer /\ InfosOk
  BY <1>1 DEF OneCall, TookAnswer, InfosOk, Queued, Served, Answered, InHandler
<1>4. Phases
  BY <1>1, <1>2 DEF Phases
<1>5. IdleFresh
  <2>1. \A c \in Clients : qp[c].state = "RESET"
    BY <1>1, Fields
  <2>2. QED  BY <1>1, <1>2, <2>1, Names DEF IdleFresh
<1>6. PathsOk /\ PostedKept
  BY <1>2, Names DEF PathsOk, PostedKept
<1>7. SendFailureExplained
  BY <1>2, Names DEF SendFailureExplained
<1>8. QED  BY <1>3, <1>4, <1>5, <1>6, <1>7 DEF JInv

-----------------------------------------------------------------------------
(* Steps that end something: a queue pair, or the server's part in a call. *)

(* The queue pairs keep what they have, and their states, but for those    *)
(* that fail or go away.                                                   *)
Fading ==
  /\ \A q \in Qpn :
       /\ qp'[q].dest = qp[q].dest /\ qp'[q].port = qp[q].port
       /\ qp'[q].dgid = qp[q].dgid /\ qp'[q].dlid = qp[q].dlid
       /\ qp'[q].rq_psn = qp[q].rq_psn /\ qp'[q].sq_psn = qp[q].sq_psn
       /\ \/ qp'[q].state = qp[q].state
          \/ qp'[q].state = "DESTROYED"
          \/ qp[q].state = "RTS" /\ qp'[q].state = "ERR"
  /\ UNCHANGED <<wport, announced, calls, reply, rq, sent, done, cbPosted>>

(* An exited client, an exited server, or one whose callback returned. *)
Leaving ==
  /\ \A c \in Clients :
       \/ cpc'[c] = "exited"
       \/ cpc'[c] = cpc[c] /\ (cpc[c] = "idle" => qp'[c].state = qp[c].state)
  /\ \/ InHandler' /\ InHandler /\ cur' = cur
     \/ ~ InHandler' /\ cur' = NoCall

LEMMA FadingKeeps ==
  ASSUME IInv, JInv, Fading, Leaving,
         \A c \in Clients : (qp[c].state = "RTS" /\ qp'[c].state = "ERR") =>
           \/ qp'[qp[c].dest].state # "RTS" \/ announced[c] # 1
           \/ sent[c] > cbPosted[qp[c].dest]
  PROVE  JInv'
<1>1. OneCall /\ Phases /\ TookAnswer /\ IdleFresh /\ InfosOk /\ PathsOk
      /\ PostedKept /\ SendFailureExplained
  BY DEF JInv
<1>2. /\ announced' = announced /\ calls' = calls /\ reply' = reply /\ rq' = rq
      /\ sent' = sent /\ done' = done /\ cbPosted' = cbPosted
  BY DEF Fading
<1>3. OneCall'
  BY <1>1, <1>2, Names DEF OneCall, Leaving, Queued, Served, Answered
<1>4. Phases'
  BY <1>1, <1>2 DEF Phases, Fading, Early
<1>5. TookAnswer'
  BY <1>1, <1>2, Names DEF TookAnswer, Fading, Leaving
<1>6. IdleFresh'
  BY <1>1, <1>2, Names DEF IdleFresh, Fresh, Fading, Leaving
<1>7. InfosOk'
  <2>1. \A c \in Clients : c \in Qpn /\ (Fresh(c)' => Fresh(c))
    BY Names DEF Fresh, Fading
  <2>2. /\ \A call \in calls : call.client \in Clients
        /\ InHandler => cur.client \in Clients
    BY DEF IInv, TypeOK, Call, CurOk
  <2>3. \A info : \A c \in Clients : Tells(info, c) => Tells(info, c)'
    BY <1>2, <2>1 DEF Tells
  <2>4. QED  BY <1>1, <1>2, <2>2, <2>3 DEF InfosOk, Leaving, Answered
<1>8. PathsOk'
  BY <1>1, <1>2, Names DEF PathsOk, Fresh, Fading
<1>9. PostedKept'
  BY <1>1, <1>2, Names DEF PostedKept, Fading
<1>10. SendFailureExplained'
  <2> SUFFICES ASSUME NEW c \in Clients, qp'[c].state = "ERR"
               PROVE  \/ qp'[qp[c].dest].state # "RTS" \/ announced[c] # 1
                      \/ sent[c] > cbPosted[qp[c].dest]
    BY <1>2, Names DEF SendFailureExplained, Fading
  <2>1. CASE qp[c].state = "ERR"
    <3>1. qp[c].dest \in Qpn
      BY <1>1, <2>1, Names DEF Phases, IInv, PeerOk, Established
    <3>2. QED  BY <1>1, <2>1, <3>1 DEF SendFailureExplained, Fading
  <2>2. CASE qp[c].state # "ERR"
    BY <2>2, Names DEF Fading
  <2>3. QED  BY <2>1, <2>2
<1>11. QED
  BY <1>3, <1>4, <1>5, <1>6, <1>7, <1>8, <1>9, <1>10 DEF JInv

LEMMA ClientEndsKeepsJ ==
  ASSUME IInv, JInv, NEW c \in Clients, ClientEnds(c)
  PROVE  JInv' /\ Fading /\ Leaving
<1>1. qp \in [Qpn -> QpRecord] /\ c \in Qpn /\ cpc \in [Clients -> ClientPc]
  BY Names DEF IInv, TypeOK
<1>2. /\ qp'[c] = [qp[c] EXCEPT !.state = "DESTROYED"] /\ qp[c] \in QpRecord
      /\ \A q \in Qpn : q # c => qp'[q] = qp[q]
  BY <1>1 DEF ClientEnds
<1>3. \A q \in Qpn :
        /\ qp'[q].state = IF q = c THEN "DESTROYED" ELSE qp[q].state
        /\ qp'[q].dest = qp[q].dest /\ qp'[q].port = qp[q].port
        /\ qp'[q].dgid = qp[q].dgid /\ qp'[q].dlid = qp[q].dlid
        /\ qp'[q].rq_psn = qp[q].rq_psn /\ qp'[q].sq_psn = qp[q].sq_psn
  BY <1>2 DEF QpRecord
<1>4. Fading
  BY <1>3 DEF Fading, ClientEnds, server_vars, traffic_vars
<1>5. Leaving
  <2>1. \A d \in Clients : cpc'[d] = IF d = c THEN "exited" ELSE cpc[d]
    BY <1>1 DEF ClientEnds
  <2>2. InHandler' = InHandler /\ cur' = cur
    BY DEF ClientEnds, server_vars, InHandler
  <2>3. InHandler \/ cur = NoCall
    BY DEF JInv, OneCall
  <2>4. QED  BY <1>3, <2>1, <2>2, <2>3, Names DEF Leaving
<1>6. QED
  <2>1. \A d \in Clients : ~ (qp[d].state = "RTS" /\ qp'[d].state = "ERR")
    BY <1>3, Names
  <2>2. QED  BY <1>4, <1>5, <2>1, FadingKeeps

LEMMA ServerEndsKeepsJ ==
  ASSUME IInv, JInv, ServerEnds
  PROVE  JInv' /\ Fading /\ Leaving
<1>1. qp \in [Qpn -> QpRecord]
  BY DEF IInv, TypeOK
<1>2. \A q \in Qpn :
        /\ qp'[q].state = IF q \in ServerQps THEN "DESTROYED" ELSE qp[q].state
        /\ qp'[q].dest = qp[q].dest /\ qp'[q].port = qp[q].port
        /\ qp'[q].dgid = qp[q].dgid /\ qp'[q].dlid = qp[q].dlid
        /\ qp'[q].rq_psn = qp[q].rq_psn /\ qp'[q].sq_psn = qp[q].sq_psn
  <2> SUFFICES ASSUME NEW q \in Qpn
               PROVE  /\ qp'[q].state =
                           IF q \in ServerQps THEN "DESTROYED" ELSE qp[q].state
                      /\ qp'[q].dest = qp[q].dest /\ qp'[q].port = qp[q].port
                      /\ qp'[q].dgid = qp[q].dgid /\ qp'[q].dlid = qp[q].dlid
                      /\ qp'[q].rq_psn = qp[q].rq_psn
                      /\ qp'[q].sq_psn = qp[q].sq_psn
    OBVIOUS
  <2>1. qp[q] \in QpRecord
    BY <1>1
  <2>2. qp'[q] = IF q \in ServerQps THEN [qp[q] EXCEPT !.state = "DESTROYED"] ELSE qp[q]
    BY DEF ServerEnds
  <2>3. QED  BY <2>1, <2>2 DEF QpRecord
<1>3. Fading
  BY <1>2 DEF Fading, ServerEnds, client_vars, traffic_vars
<1>4. Leaving
  BY <1>2, Names DEF Leaving, ServerEnds, client_vars, InHandler
<1>5. \A d \in Clients : ~ (qp[d].state = "RTS" /\ qp'[d].state = "ERR")
  BY <1>2, Names
<1>6. QED  BY <1>3, <1>4, <1>5, FadingKeeps

LEMMA CallbackReturnsKeepsJ ==
  ASSUME IInv, JInv, NEW keep \in BOOLEAN, NEW should_stop \in BOOLEAN,
         CallbackReturns(keep, should_stop)
  PROVE  JInv' /\ Fading /\ Leaving
<1>1. /\ qp \in [Qpn -> QpRecord] /\ spc = "callback" /\ InHandler
      /\ cur.q \in Qpn
  BY Names DEF IInv, TypeOK, CurOk, InHandler, CallbackReturns
<1>2. qp' = qp \/ qp' = [qp EXCEPT ![cur.q] = [qp[cur.q] EXCEPT !.state = "DESTROYED"]]
  BY DEF CallbackReturns
<1>3. \A q \in Qpn :
        /\ qp'[q].state \in {qp[q].state, "DESTROYED"}
        /\ qp'[q].dest = qp[q].dest /\ qp'[q].port = qp[q].port
        /\ qp'[q].dgid = qp[q].dgid /\ qp'[q].dlid = qp[q].dlid
        /\ qp'[q].rq_psn = qp[q].rq_psn /\ qp'[q].sq_psn = qp[q].sq_psn
        /\ q \in Clients => qp'[q] = qp[q]
  <2> SUFFICES ASSUME NEW q \in Qpn
               PROVE  /\ qp'[q].state \in {qp[q].state, "DESTROYED"}
                      /\ qp'[q].dest = qp[q].dest /\ qp'[q].port = qp[q].port
                      /\ qp'[q].dgid = qp[q].dgid /\ qp'[q].dlid = qp[q].dlid
                      /\ qp'[q].rq_psn = qp[q].rq_psn
                      /\ qp'[q].sq_psn = qp[q].sq_psn
                      /\ q \in Clients => qp'[q] = qp[q]
    OBVIOUS
  <2>1. qp[q] \in QpRecord /\ cur.q \notin Clients
    BY <1>1, Names DEF IInv, CurOk
  <2>2. qp'[q] = qp[q] \/ (q = cur.q /\ qp'[q] = [qp[q] EXCEPT !.state = "DESTROYED"])
    BY <1>1, <1>2
  <2>3. QED  BY <2>1, <2>2 DEF QpRecord
<1>4. Fading
  BY <1>3 DEF Fading, CallbackReturns, client_vars, traffic_vars
<1>5. Leaving
  BY <1>1, <1>3, Names DEF Leaving, CallbackReturns, client_vars, InHandler
<1>6. \A d \in Clients : ~ (qp[d].state = "RTS" /\ qp'[d].state = "ERR")
  BY <1>3, Names
<1>7. QED  BY <1>4, <1>5, <1>6, FadingKeeps

-----------------------------------------------------------------------------
(* The transport. *)

(* Between two queue pairs that are up, everything depends on the port the *)
(* client announced: connect() attaches both to port 1.                    *)
LEMMA ReachedOnPort1 ==
  ASSUME IInv, JInv, NEW c \in Clients,
         qp[c].state = "RTS", qp[qp[c].dest].state = "RTS"
  PROVE  (Reaches(qp, c, qp[c].dest) /\ Reaches(qp, qp[c].dest, c))
           <=> announced[c] = 1
<1> DEFINE s == qp[c].dest
<1>1. qp[c].dest # NoQp /\ c \in Qpn
  BY Names DEF JInv, Phases
<1>2. /\ s \in ServerQps /\ s \in Qpn /\ qp[s].dest = c /\ c # NoQp
      /\ qp[c].rq_psn = universal_init_psn /\ qp[s].sq_psn = universal_init_psn
  BY <1>1, Names DEF IInv, PeerOk, Established
<1>3. /\ qp[c].port = 1 /\ qp[s].port = 1 /\ qp[c].sq_psn = universal_init_psn
  BY <1>1, <1>2 DEF JInv, Phases
<1>4. /\ qp[c].dgid = <<Server, 1>> /\ qp[c].dlid = <<Server, 1>>
      /\ qp[s].dgid = <<c, 1>> /\ qp[s].dlid = <<c, announced[c]>>
      /\ qp[s].rq_psn = universal_init_psn
  BY <1>1, <1>2 DEF JInv, PathsOk
<1>5. ProcOf(c) = c /\ ProcOf(s) = Server
  BY <1>2, Names DEF ProcOf
<1>6. Routed(qp, c, s) /\ (Routed(qp, s, c) <=> announced[c] = 1)
  BY <1>3, <1>4, <1>5 DEF Routed
<1>7. QED
  BY <1>2, <1>3, <1>4, <1>6 DEF Reaches, Receives

LEMMA QpEndsKeepsJ ==
  ASSUME IInv, JInv, NEW q \in Qpn, Expire(q) \/ DestroyQp(q)
  PROVE  JInv' /\ Fading /\ Leaving
<1>1. /\ qp \in [Qpn -> QpRecord] /\ qp[q] \in QpRecord
      /\ UNCHANGED <<wport, announced, cpc, reply, calls, spc, cur, rq, sent, done,
                     cbPosted>>
  BY DEF IInv, TypeOK, Expire, DestroyQp, client_vars, server_vars, traffic_vars
<1>2. PICK state \in {"ERR", "DESTROYED"} :
        /\ qp' = [qp EXCEPT ![q] = [qp[q] EXCEPT !.state = state]]
        /\ state = "ERR" => Expire(q)
        /\ state = "DESTROYED" => qp[q].state \in {"RTS", "ERR"}
  BY DEF Expire, DestroyQp
<1>3. /\ qp[q].state \in {"RTS", "ERR"}
      /\ state = "ERR" => qp[q].state = "RTS"
  BY <1>2 DEF Expire, InFlight
<1>4. \A x \in Qpn :
        /\ qp'[x].state = IF x = q THEN state ELSE qp[x].state
        /\ qp'[x].dest = qp[x].dest /\ qp'[x].port = qp[x].port
        /\ qp'[x].dgid = qp[x].dgid /\ qp'[x].dlid = qp[x].dlid
        /\ qp'[x].rq_psn = qp[x].rq_psn /\ qp'[x].sq_psn = qp[x].sq_psn
  <2>1. /\ qp'[q] = [qp[q] EXCEPT !.state = state]
        /\ \A x \in Qpn : x # q => qp'[x] = qp[x]
    BY <1>1, <1>2
  <2>2. QED  BY <1>1, <2>1 DEF QpRecord
<1>5. Fading
  BY <1>1, <1>3, <1>4 DEF Fading
<1>6. Leaving
  <2>1. InHandler' = InHandler /\ (InHandler \/ cur = NoCall)
    BY <1>1 DEF InHandler, JInv, OneCall
  <2>2. \A c \in Clients : cpc[c] = "idle" => qp[c].state = "RESET"
    BY DEF JInv, IdleFresh
  <2>3. QED  BY <1>1, <1>3, <1>4, <2>1, <2>2, Names DEF Leaving
<1>7. ASSUME NEW c \in Clients, qp[c].state = "RTS", qp'[c].state = "ERR"
      PROVE  \/ qp'[qp[c].dest].state # "RTS" \/ announced[c] # 1
             \/ sent[c] > cbPosted[qp[c].dest]
  <2> DEFINE s == qp[c].dest
  <2>1. q = c /\ Expire(c) /\ c \in Qpn
    BY <1>2, <1>4, <1>7, Names
  <2>2. s \in ServerQps /\ s \in Qpn /\ s # c /\ qp[s].dest = c
    BY <1>7, <2>1, Names DEF JInv, Phases, IInv, PeerOk, Established
  <2>3. qp'[s].state = qp[s].state
    BY <1>4, <2>1, <2>2
  <2> SUFFICES ASSUME qp[s].state = "RTS", announced[c] = 1
               PROVE  sent[c] > cbPosted[s]
    BY <2>3
  <2>4. Reaches(qp, c, s)
    BY <1>7, ReachedOnPort1
  <2>5. done[c] < sent[c] /\ ~ (rq[s] > 0)
    BY <2>1, <2>4 DEF Expire, InFlight, Deliverable
  <2>6. cbPosted[s] <= rq[s] + done[c]
    BY <2>2 DEF JInv, PostedKept
  <2>7. /\ rq[s] \in 0..MaxRecv /\ MaxRecv \in Nat /\ MaxSend \in Nat
        /\ done[c] \in 0..MaxSend /\ sent[c] \in 0..MaxSend /\ cbPosted[s] \in Nat
    BY <2>1, <2>2, ConnectionManagerAssumption DEF IInv, TypeOK
  <2>8. QED  BY <2>5, <2>6, <2>7
<1>8. QED  BY <1>5, <1>6, <1>7, FadingKeeps

(* Counters alone change. *)
LEMMA PostKeepsJ ==
  ASSUME IInv, JInv, NEW q \in Qpn, PostRecv(q) \/ PostSend(q)
  PROVE  JInv'
<1>1. /\ UNCHANGED <<qp, wport, announced, cpc, reply, calls, spc, cur, done>>
      /\ qp[q].state = "RTS"
  BY DEF PostRecv, PostSend, Usable, client_vars, server_vars
<1>2. (OneCall /\ TookAnswer /\ IdleFresh /\ InfosOk /\ PathsOk)'
  BY <1>1 DEF JInv, OneCall, TookAnswer, IdleFresh, InfosOk, Tells, PathsOk, Queued,
              Served, Answered, InHandler, Fresh
<1>3. ASSUME NEW x \in Qpn
      PROVE  /\ cbPosted'[x] \in {cbPosted[x], cbPosted[x] + 1}
             /\ cbPosted'[x] # cbPosted[x] =>
                  /\ x = q /\ spc = "callback" /\ cur.q = q
                  /\ rq'[x] = rq[x] + 1
             /\ rq'[x] \in {rq[x], rq[x] + 1}
             /\ sent'[x] \in {sent[x], sent[x] + 1}
             /\ rq[x] \in Nat /\ sent[x] \in Nat /\ cbPosted[x] \in Nat /\ done[x] \in Nat
  <2>1. /\ rq \in [Qpn -> 0..MaxRecv] /\ sent \in [Qpn -> 0..MaxSend]
        /\ cbPosted \in [Qpn -> Nat] /\ done \in [Qpn -> 0..MaxSend]
    BY DEF IInv, TypeOK
  <2>2. CASE PostRecv(q)
    BY <2>1, <2>2, ConnectionManagerAssumption DEF PostRecv
  <2>3. CASE PostSend(q)
    BY <2>1, <2>3, ConnectionManagerAssumption DEF PostSend
  <2>4. QED  BY <2>2, <2>3
<1>4. Phases'
  <2>1. \A x \in Qpn : qp[x].state \in Early => cbPosted'[x] = cbPosted[x]
    BY <1>1, <1>3 DEF Early
  <2>2. QED  BY <1>1, <2>1 DEF JInv, Phases
<1>5. PostedKept'
  <2> SUFFICES ASSUME NEW c \in Clients, NEW s \in ServerQps, qp[s].dest = c
               PROVE  cbPosted'[s] <= rq'[s] + done[c]
    BY <1>1 DEF PostedKept
  <2>1. cbPosted[s] <= rq[s] + done[c] /\ s \in Qpn /\ c \in Qpn
    BY Names DEF JInv, PostedKept
  <2>2. done[c] \in Nat
    BY <1>3, <2>1
  <2>3. QED  BY <1>3, <2>1, <2>2
<1>6. SendFailureExplained'
  <2> SUFFICES ASSUME NEW c \in Clients, qp[c].state = "ERR"
               PROVE  \/ qp[qp[c].dest].state # "RTS" \/ announced[c] # 1
                      \/ sent'[c] > cbPosted'[qp[c].dest]
    BY <1>1 DEF SendFailureExplained
  <2>1. /\ qp[c].dest \in ServerQps /\ qp[c].dest \in Qpn /\ c \in Qpn
    BY Names DEF JInv, Phases, IInv, PeerOk, Established
  <2>2. cbPosted'[qp[c].dest] = cbPosted[qp[c].dest]
    BY <1>3, <2>1 DEF IInv, Unknown, InHandler
  <2>3. sent'[c] \in {sent[c], sent[c] + 1} /\ sent[c] \in Nat
        /\ cbPosted[qp[c].dest] \in Nat
    BY <1>3, <2>1
  <2>4. QED  BY <2>2, <2>3 DEF JInv, SendFailureExplained
<1>7. QED  BY <1>2, <1>4, <1>5, <1>6 DEF JInv

LEMMA DeliverKeepsJ ==
  ASSUME IInv, JInv, NEW q \in Qpn, Deliver(q)
  PROVE  JInv'
<1> DEFINE p == qp[q].dest
<1>1. /\ UNCHANGED <<qp, wport, announced, cpc, reply, calls, spc, cur, sent, cbPosted>>
      /\ rq' = [rq EXCEPT ![p] = @ - 1]
      /\ done' = [done EXCEPT ![q] = @ + 1]
      /\ qp[p].dest = q
  BY DEF Deliver, Deliverable, Reaches, Receives, client_vars, server_vars
<1>2. (OneCall /\ TookAnswer /\ IdleFresh /\ InfosOk /\ PathsOk)'
  BY <1>1 DEF JInv, OneCall, TookAnswer, IdleFresh, InfosOk, Tells, PathsOk, Queued,
              Served, Answered, InHandler, Fresh
<1>3. (Phases /\ SendFailureExplained)'
  BY <1>1 DEF JInv, Phases, SendFailureExplained
<1>4. PostedKept'
  <2> SUFFICES ASSUME NEW c \in Clients, NEW s \in ServerQps, qp[s].dest = c
               PROVE  cbPosted[s] <= rq'[s] + done'[c]
    BY <1>1 DEF PostedKept
  <2>1. cbPosted[s] <= rq[s] + done[c] /\ s \in Qpn /\ c \in Qpn
    BY Names DEF JInv, PostedKept
  <2>2. /\ rq \in [Qpn -> 0..MaxRecv] /\ done \in [Qpn -> 0..MaxSend]
        /\ rq[s] \in Nat /\ done[c] \in Nat /\ cbPosted[s] \in Nat
    BY <2>1, ConnectionManagerAssumption DEF IInv, TypeOK
  <2>3. CASE s = p
    <3>1. q = c /\ rq'[s] = rq[s] - 1 /\ done'[c] = done[c] + 1
      BY <1>1, <2>1, <2>2, <2>3
    <3>2. QED  BY <2>1, <2>2, <3>1
  <2>4. CASE s # p
    <3>1. rq'[s] = rq[s] /\ done'[c] \in {done[c], done[c] + 1}
      BY <1>1, <2>1, <2>2, <2>4
    <3>2. QED  BY <2>1, <2>2, <3>1
  <2>5. QED  BY <2>3, <2>4
<1>5. QED  BY <1>2, <1>3, <1>4 DEF JInv

-----------------------------------------------------------------------------
(* The steps of a client in connect(). *)

LEMMA BindPortKeepsJ ==
  ASSUME IInv, JInv, NEW c \in Clients, NEW port \in Ports, BindPort(c, port)
  PROVE  JInv'
<1>1. UNCHANGED <<qp, announced, cpc, calls, reply, spc, cur, rq, sent, done,
                  cbPosted>>
  BY DEF BindPort, server_vars, traffic_vars
<1>2. QED
  BY <1>1
  DEF JInv, OneCall, Phases, TookAnswer, IdleFresh, InfosOk, Tells, PathsOk,
      PostedKept, SendFailureExplained, Queued, Served, Answered, InHandler, Fresh

LEMMA CallEstablishKeepsJ ==
  ASSUME IInv, JInv, NEW c \in Clients, CallEstablish(c)
  PROVE  JInv'
<1> DEFINE call == [client |-> c, info |-> GetInfo(c, wport[c])]
<1>1. /\ cpc[c] \in {"idle", "connected"} /\ cpc' = [cpc EXCEPT ![c] = "calling"]
      /\ calls' = calls \cup {call}
      /\ announced' = IF cpc[c] = "idle" THEN [announced EXCEPT ![c] = wport[c]]
                                         ELSE announced
      /\ UNCHANGED <<qp, wport, reply, spc, cur, rq, sent, done, cbPosted>>
  BY DEF CallEstablish, server_vars, traffic_vars
<1>2. /\ ~ Queued(c) /\ ~ Served(c) /\ ~ Answered(c)
  BY <1>1 DEF JInv, OneCall
<1>3. /\ cpc'[c] = "calling" /\ announced \in [Clients -> Ports \cup {0}]
      /\ \A d \in Clients : d # c => cpc'[d] = cpc[d] /\ announced'[d] = announced[d]
      /\ cpc[c] = "idle" => announced'[c] = wport[c]
      /\ cpc[c] = "connected" => announced' = announced
  BY <1>1 DEF IInv, TypeOK
<1>4. /\ call.client = c /\ call.info.gid = <<c, 1>>
      /\ call.info.psn = universal_init_psn /\ call.info.lid = <<c, wport[c]>>
  BY Infos DEF IInv, TypeOK
<1> HIDE DEF call
<1>5. OneCall'
  <2>1. \A d \in Clients : /\ Queued(d)' <=> (d = c \/ Queued(d))
                           /\ Served(d)' <=> Served(d)
                           /\ Answered(d)' <=> Answered(d)
    BY <1>1, <1>4 DEF Queued, Served, Answered, InHandler
  <2>2. \A a, b \in calls' : a.client = b.client => a = b
    BY <1>1, <1>2, <1>4 DEF JInv, OneCall, Queued
  <2>3. ~ InHandler' => cur' = NoCall
    BY <1>1 DEF JInv, OneCall, InHandler
  <2>4. \A d \in Clients :
          /\ ~ (Queued(d) /\ Served(d))' /\ ~ (Queued(d) /\ Answered(d))'
          /\ ~ (Served(d) /\ Answered(d))'
          /\ cpc'[d] \in {"idle", "connected"} =>
               ~ Queued(d)' /\ ~ Served(d)' /\ ~ Answered(d)'
    BY <1>2, <1>3, <2>1 DEF JInv, OneCall
  <2>5. QED  BY <2>2, <2>3, <2>4 DEF OneCall
<1>6. (TookAnswer /\ IdleFresh)'
  BY <1>1, <1>3 DEF JInv, TookAnswer, IdleFresh, Fresh
<1>7. InfosOk'
  <2>1. Fresh(c)' => call.info.lid = <<c, announced'[c]>>
    BY <1>1, <1>3, <1>4 DEF Fresh, JInv, IdleFresh
  <2>2. \A info : \A d \in Clients : d # c => (Tells(info, d) => Tells(info, d)')
    BY <1>1, <1>3 DEF Tells, Fresh
  <2>3. \A old \in calls : old.client \in Clients /\ old.client # c
    BY <1>2 DEF Queued, IInv, TypeOK, Call
  <2>4. InHandler => cur.client \in Clients /\ cur.client # c
    BY <1>2 DEF Served, IInv, CurOk
  <2>5. \A new \in calls' : Tells(new.info, new.client)'
    <3> SUFFICES ASSUME NEW new \in calls' PROVE Tells(new.info, new.client)'
      OBVIOUS
    <3>1. CASE new = call
      BY <1>4, <2>1, <3>1 DEF Tells
    <3>2. CASE new \in calls
      BY <2>2, <2>3, <3>2 DEF JInv, InfosOk
    <3>3. QED  BY <1>1, <3>1, <3>2
  <2>6. InHandler' => Tells(cur.info, cur.client)'
    BY <1>1, <2>2, <2>4 DEF JInv, InfosOk, InHandler
  <2>7. QED  BY <1>1, <2>5, <2>6 DEF JInv, InfosOk, Answered
<1>8. (Phases /\ PostedKept)'
  BY <1>1 DEF JInv, Phases, PostedKept
<1>9. PathsOk' /\ SendFailureExplained'
  <2>1. CASE cpc[c] = "connected"
    <3>1. UNCHANGED <<qp, announced, sent, cbPosted>>
      BY <1>1, <1>3, <2>1
    <3>2. QED  BY <3>1 DEF JInv, PathsOk, SendFailureExplained, Fresh
  <2>2. CASE cpc[c] = "idle"
    <3>1. qp[c].state = "RESET" /\ \A s \in ServerQps : qp[s].dest # c
      BY <2>2 DEF JInv, IdleFresh
    <3>2. QED
      BY <1>1, <1>3, <3>1 DEF JInv, PathsOk, SendFailureExplained, Fresh
  <2>3. QED  BY <1>1, <2>1, <2>2
<1>10. QED  BY <1>5, <1>6, <1>7, <1>8, <1>9 DEF JInv

(* The queue pair of a client, one modify further. *)
LEMMA ModifyKeepsJ ==
  ASSUME IInv, JInv, NEW c \in Clients, NEW r \in QpRecord,
         qp' = [qp EXCEPT ![c] = r],
         UNCHANGED <<wport, announced, calls, spc, cur, rq, sent, done, cbPosted>>,
         \/ cpc' = [cpc EXCEPT ![c] = "connecting"] /\ reply' = reply /\ Answered(c)
         \/ cpc' = [cpc EXCEPT ![c] = "connected"]
            /\ reply' = [reply EXCEPT ![c] = NoReply] /\ Answered(c)
            /\ r.state = "RTS",
         Fresh(c) \/ (r.dest = qp[c].dest /\ r.state # "INIT"),
         r.state \in Early => r.sq_psn = 0 /\ qp[c].state \in Early,
         r.state \notin {"NONE", "RESET", "ERR", "DESTROYED"},
         r.state = "INIT" => r.dest = NoQp,
         r.state \in {"RTR", "RTS"} => r.dest # NoQp,
         r.state = "RTS" => r.sq_psn = universal_init_psn,
         r.port = 1,
         r.dest # NoQp => r.dgid = <<Server, 1>> /\ r.dlid = <<Server, 1>>,
         r.state = "RTR" => r.dest = reply[c].qp_num
  PROVE  JInv'
<1>1. /\ qp'[c] = r /\ c \in Qpn /\ \A q \in Qpn : q # c => qp'[q] = qp[q]
      /\ \A s \in ServerQps : s # c /\ qp'[s] = qp[s]
      /\ \A d \in Clients : d # c => cpc'[d] = cpc[d] /\ reply'[d] = reply[d]
  BY Names DEF IInv, TypeOK
<1>2. \/ cpc'[c] = "connecting" /\ reply'[c] = reply[c]
      \/ cpc'[c] = "connected" /\ reply'[c] = NoReply /\ r.state = "RTS"
  BY DEF IInv, TypeOK
<1>3. Answered(c) /\ ~ Queued(c) /\ ~ Served(c)
  BY DEF JInv, OneCall
<1>4. OneCall'
  <2>1. \A d \in Clients : /\ Queued(d)' <=> Queued(d)
                           /\ Served(d)' <=> Served(d)
                           /\ Answered(d)' => Answered(d)
    BY <1>2, <1>1, <1>3 DEF Queued, Served, Answered, InHandler
  <2>2. cpc'[c] = "connected" => ~ Answered(c)'
    BY <1>2 DEF Answered
  <2>3. (InHandler' <=> InHandler) /\ calls' = calls /\ cur' = cur
    BY DEF InHandler
  <2>4. \A d \in Clients :
          /\ ~ (Queued(d) /\ Served(d))' /\ ~ (Queued(d) /\ Answered(d))'
          /\ ~ (Served(d) /\ Answered(d))'
          /\ cpc'[d] \in {"idle", "connected"} =>
               ~ Queued(d)' /\ ~ Served(d)' /\ ~ Answered(d)'
    BY <1>2, <1>1, <1>3, <2>1, <2>2 DEF JInv, OneCall
  <2>5. QED  BY <2>3, <2>4 DEF JInv, OneCall
<1>5. Phases'
  <2> SUFFICES ASSUME NEW q \in Qpn
               PROVE  /\ qp'[q].state \in Early =>
                           qp'[q].sq_psn = 0 /\ cbPosted[q] = 0
                      /\ qp'[q].state \in {"NONE", "RESET", "INIT"} =>
                           qp'[q].dest = NoQp
                      /\ qp'[q].state \in {"RTR", "RTS", "ERR"} => qp'[q].dest # NoQp
                      /\ qp'[q].state \in {"RTS", "ERR"} =>
                           qp'[q].sq_psn = universal_init_psn
                      /\ (qp'[q].state = "INIT" \/ qp'[q].dest # NoQp) =>
                           qp'[q].port = 1
    BY DEF Phases
  <2>1. CASE q = c
    BY <1>1, <2>1 DEF JInv, Phases
  <2>2. CASE q # c
    BY <1>1, <2>2 DEF JInv, Phases
  <2>3. QED  BY <2>1, <2>2
<1>6. TookAnswer' /\ IdleFresh'
  <2>1. TookAnswer'
    BY <1>2, <1>1 DEF JInv, TookAnswer
  <2>2. IdleFresh'
    <3>1. \A d \in Clients : d # c => qp'[d] = qp[d] /\ cpc'[d] = cpc[d]
      BY <1>1, Names
    <3>2. cpc'[c] # "idle" /\ (cpc'[c] = "connected" => qp'[c].state = "RTS")
      BY <1>1, <1>2
    <3>3. QED  BY <1>1, <3>1, <3>2 DEF JInv, IdleFresh, Fresh
  <2>3. QED  BY <2>1, <2>2
<1>7. InfosOk'
  <2>1. \A d \in Clients : d \in Qpn /\ (Fresh(d)' => Fresh(d))
    BY <1>1, Names DEF Fresh
  <2>2. \A info : \A d \in Clients : Tells(info, d) => Tells(info, d)'
    BY <2>1 DEF Tells
  <2>3. /\ \A call \in calls : call.client \in Clients
        /\ InHandler => cur.client \in Clients
    BY DEF IInv, TypeOK, Call, CurOk
  <2>4. QED  BY <1>2, <1>1, <2>2, <2>3 DEF JInv, InfosOk, InHandler, Answered
<1>8. PathsOk' /\ PostedKept'
  BY <1>1, Names DEF JInv, PathsOk, PostedKept, Fresh
<1>9. SendFailureExplained'
  <2> SUFFICES ASSUME NEW d \in Clients, qp'[d].state = "ERR"
               PROVE  \/ qp'[qp'[d].dest].state # "RTS" \/ announced[d] # 1
                      \/ sent[d] > cbPosted[qp'[d].dest]
    BY DEF SendFailureExplained
  <2>1. d # c /\ qp'[d] = qp[d]
    BY <1>1, Names
  <2>2. qp[d].dest \in ServerQps
    BY <2>1, Names DEF JInv, Phases, IInv, PeerOk, Established
  <2>3. qp'[qp[d].dest] = qp[qp[d].dest]
    BY <1>1, <2>2
  <2>4. QED  BY <2>1, <2>3 DEF JInv, SendFailureExplained
<1>10. QED  BY <1>4, <1>5, <1>6, <1>7, <1>8, <1>9 DEF JInv

LEMMA ClientConnectStepKeepsJ ==
  ASSUME IInv, JInv, NEW c \in Clients, ClientConnectStep(c)
  PROVE  JInv'
<1>1. /\ qp[c] \in QpRecord /\ c \in Qpn
      /\ cpc \in [Clients -> ClientPc]
      /\ Answered(c) => reply[c] \in QpInfo /\ reply[c].qp_num \in ServerQps
                        /\ reply[c] = GetInfo(reply[c].qp_num, 1)
  BY Names DEF IInv, TypeOK, ReplyOk, Established, JInv, InfosOk, Answered
<1>2. CASE ClientToInit(c)
  <2>1. ToInit(qp[c], 1) \in QpRecord
    BY <1>1, RecordTypes, Names
  <2>2. /\ qp' = [qp EXCEPT ![c] = ToInit(qp[c], 1)] /\ qp[c].state = "RESET"
        /\ UNCHANGED <<wport, announced, calls, spc, cur, rq, sent, done, cbPosted>>
        /\ cpc' = [cpc EXCEPT ![c] = "connecting"] /\ reply' = reply /\ Answered(c)
    BY <1>2 DEF ClientToInit, Answered, server_vars, traffic_vars
  <2>3. qp[c].dest = NoQp /\ qp[c].sq_psn = 0
    BY <1>1, <2>2 DEF JInv, Phases, Early
  <2> DEFINE r == ToInit(qp[c], 1)
  <2>4. /\ r.state = "INIT" /\ r.port = 1 /\ r.dest = NoQp /\ r.sq_psn = 0
        /\ r \in QpRecord /\ qp' = [qp EXCEPT ![c] = r]
    BY <1>1, <2>1, <2>2, <2>3, Names, Fields
  <2> HIDE DEF r
  <2>5. r.state \in Early /\ qp[c].state \in Early
    BY <2>2, <2>4 DEF Early
  <2>6. QED
    BY <2>2, <2>4, <2>5, ModifyKeepsJ DEF Fresh
<1>3. CASE ClientToRtr(c)
  <2>1. /\ cpc[c] = "connecting" /\ qp[c].state = "INIT"
        /\ qp' = [qp EXCEPT ![c] = ToRtr(qp[c], reply[c])]
        /\ UNCHANGED <<wport, announced, calls, spc, cur, rq, sent, done, cbPosted,
                       cpc, reply>>
    BY <1>3 DEF ClientToRtr, client_vars, server_vars, traffic_vars
  <2>2. Answered(c) /\ cpc' = [cpc EXCEPT ![c] = "connecting"]
    BY <1>1, <2>1 DEF IInv, AnswerHeld, Answered
  <2>3. /\ ToRtr(qp[c], reply[c]) \in QpRecord
        /\ reply[c].qp_num # NoQp
        /\ reply[c].gid = <<Server, 1>> /\ reply[c].lid = <<Server, 1>>
    BY <1>1, <2>2, RecordTypes, Names, Infos
  <2>4. qp[c].sq_psn = 0 /\ qp[c].port = 1
    BY <1>1, <2>1 DEF JInv, Phases, Early
  <2> DEFINE r == ToRtr(qp[c], reply[c])
  <2>5. /\ r.state = "RTR" /\ r.port = 1 /\ r.dest = reply[c].qp_num
        /\ r.dgid = <<Server, 1>> /\ r.dlid = <<Server, 1>> /\ r.sq_psn = 0
        /\ r.dest # NoQp
    BY <1>1, <2>2, <2>3, <2>4, Fields
  <2>6. r \in QpRecord /\ qp' = [qp EXCEPT ![c] = r]
    BY <2>1, <2>3
  <2> HIDE DEF r
  <2>7. /\ UNCHANGED <<wport, announced, calls, spc, cur, rq, sent, done, cbPosted>>
        /\ reply' = reply /\ r.state \in Early /\ qp[c].state \in Early
    BY <2>1, <2>5 DEF Early
  <2>8. QED
    BY <2>1, <2>2, <2>5, <2>6, <2>7, ModifyKeepsJ DEF Fresh
<1>4. CASE ClientToRts(c)
  <2>1. /\ cpc[c] = "connecting" /\ qp[c].state = "RTR"
        /\ qp' = [qp EXCEPT ![c] = ToRts(qp[c])]
        /\ UNCHANGED <<wport, announced, calls, spc, cur, rq, sent, done, cbPosted>>
        /\ cpc' = [cpc EXCEPT ![c] = "connected"]
        /\ reply' = [reply EXCEPT ![c] = NoReply]
    BY <1>4 DEF ClientToRts, server_vars, traffic_vars
  <2>2. Answered(c)
    BY <2>1 DEF IInv, AnswerHeld, Answered
  <2>3. ToRts(qp[c]) \in QpRecord
    BY <1>1, RecordTypes
  <2>4. qp[c].dest # NoQp /\ qp[c].port = 1
    BY <1>1, <2>1 DEF JInv, Phases
  <2>5. qp[c].dgid = <<Server, 1>> /\ qp[c].dlid = <<Server, 1>>
    BY <2>4 DEF JInv, PathsOk
  <2> DEFINE r == ToRts(qp[c])
  <2>6. /\ r.state = "RTS" /\ r.port = 1 /\ r.dest # NoQp /\ r.dest = qp[c].dest
        /\ r.dgid = <<Server, 1>> /\ r.dlid = <<Server, 1>>
        /\ r.sq_psn = universal_init_psn /\ r \in QpRecord
        /\ qp' = [qp EXCEPT ![c] = r]
    BY <1>1, <2>1, <2>3, <2>4, <2>5, Fields
  <2> HIDE DEF r
  <2>7. QED
    BY <2>1, <2>2, <2>6, ModifyKeepsJ DEF Early
<1>5. QED  BY <1>2, <1>3, <1>4 DEF ClientConnectStep

-----------------------------------------------------------------------------
(* The steps of the handler. *)

(* A queue pair of the server that no client knows, one modify further. *)
LEMMA HandlerModifyKeepsJ ==
  ASSUME IInv, JInv, NEW s \in ServerQps, NEW r \in QpRecord,
         qp' = [qp EXCEPT ![s] = r],
         UNCHANGED <<wport, announced, cpc, reply, rq, sent, done, cbPosted>>,
         qp[s].state \in Early, \A c \in Clients : qp[c].dest # s,
         r.state \in {"RESET", "INIT", "RTR", "RTS"},
         r.state \in Early => r.sq_psn = 0,
         r.state = "RTS" => r.sq_psn = universal_init_psn,
         r.state \in {"RESET", "INIT"} => r.dest = NoQp,
         r.state # "RESET" => r.port = 1,
         r.state \in {"RTR", "RTS"} =>
           /\ r.dest \in Clients /\ cpc[r.dest] # "idle"
           /\ r.dgid = <<r.dest, 1>>
           /\ Fresh(r.dest) => r.dlid = <<r.dest, announced[r.dest]>>
           /\ r.rq_psn = universal_init_psn
  PROVE  /\ Phases' /\ TookAnswer' /\ IdleFresh' /\ PathsOk'
         /\ PostedKept' /\ SendFailureExplained'
<1>1. /\ qp'[s] = r /\ s \in Qpn /\ \A q \in Qpn : q # s => qp'[q] = qp[q]
      /\ \A c \in Clients : c # s /\ qp'[c] = qp[c] /\ c # NoQp
  BY Names DEF IInv, TypeOK
<1>2. cbPosted[s] = 0
  BY <1>1 DEF JInv, Phases
<1>3. Phases'
  <2> SUFFICES ASSUME NEW q \in Qpn
               PROVE  /\ qp'[q].state \in Early =>
                           qp'[q].sq_psn = 0 /\ cbPosted[q] = 0
                      /\ qp'[q].state \in {"NONE", "RESET", "INIT"} =>
                           qp'[q].dest = NoQp
                      /\ qp'[q].state \in {"RTR", "RTS", "ERR"} => qp'[q].dest # NoQp
                      /\ qp'[q].state \in {"RTS", "ERR"} =>
                           qp'[q].sq_psn = universal_init_psn
                      /\ (qp'[q].state = "INIT" \/ qp'[q].dest # NoQp) =>
                           qp'[q].port = 1
    BY DEF Phases
  <2>1. CASE q = s
    BY <1>1, <1>2, <2>1
  <2>2. CASE q # s
    BY <1>1, <2>2 DEF JInv, Phases
  <2>3. QED  BY <2>1, <2>2
<1>4. TookAnswer'
  BY <1>1 DEF JInv, TookAnswer
<1>5. IdleFresh'
  <2> SUFFICES ASSUME NEW c \in Clients, cpc[c] = "idle", NEW t \in ServerQps
               PROVE  qp'[c].state = "RESET" /\ qp'[t].dest # c
    BY <1>1 DEF JInv, IdleFresh, Fresh
  <2>1. qp[c].state = "RESET" /\ qp[t].dest # c
    BY DEF JInv, IdleFresh
  <2>2. CASE t = s
    BY <1>1, <2>1, <2>2
  <2>3. CASE t # s
    BY <1>1, <2>1, <2>3, Names
  <2>4. QED  BY <2>2, <2>3
<1>6. PathsOk' /\ PostedKept'
  <2> SUFFICES ASSUME NEW c \in Clients, NEW t \in ServerQps, qp'[t].dest = c
               PROVE  /\ qp'[t].dgid = <<c, 1>>
                      /\ qp'[t].rq_psn = universal_init_psn
                      /\ (Fresh(c) \/ qp[c].dest = t) =>
                           qp'[t].dlid = <<c, announced[c]>>
                      /\ cbPosted[t] <= rq[t] + done[c]
    BY <1>1 DEF PathsOk, PostedKept, JInv, Fresh
  <2>1. CASE t = s
    <3>1. /\ rq[s] \in Nat /\ done[c] \in Nat
      BY <1>1, Names, ConnectionManagerAssumption DEF IInv, TypeOK
    <3>2. r.dest = c /\ r.state \in {"RTR", "RTS"}
      BY <1>1, <2>1
    <3>3. QED  BY <1>1, <1>2, <2>1, <3>1, <3>2
  <2>2. CASE t # s
    BY <1>1, <2>2, Names DEF JInv, PathsOk, PostedKept
  <2>3. QED  BY <2>1, <2>2
<1>7. SendFailureExplained'
  <2> SUFFICES ASSUME NEW d \in Clients, qp[d].state = "ERR"
               PROVE  \/ qp'[qp[d].dest].state # "RTS" \/ announced[d] # 1
                      \/ sent[d] > cbPosted[qp[d].dest]
    BY <1>1 DEF SendFailureExplained
  <2>1. qp[d].dest \in ServerQps /\ qp[d].dest # s
    BY Names DEF JInv, Phases, IInv, PeerOk, Established
  <2>2. qp'[qp[d].dest] = qp[qp[d].dest]
    BY <1>1, <2>1, Names
  <2>3. QED  BY <2>2 DEF JInv, SendFailureExplained
<1>8. QED  BY <1>3, <1>4, <1>5, <1>6, <1>7

LEMMA AcceptKeepsJ ==
  ASSUME IInv, JInv, NEW call \in calls, NEW s \in ServerQps, Accept(call, s)
  PROVE  JInv'
<1>1. /\ spc = "listening" /\ calls' = calls \ {call}
      /\ cur' = [client |-> call.client, info |-> call.info, q |-> s]
      /\ qp' = [qp EXCEPT ![s] = Created] /\ spc' = "connecting"
      /\ UNCHANGED <<wport, announced, cpc, reply, rq, sent, done, cbPosted>>
      /\ qp[s].state = "NONE" /\ call.client \in Clients
  BY DEF Accept, FreeQps, client_vars, traffic_vars, IInv, TypeOK, Call
<1>2. \A c \in Clients : qp[c].dest # s
  BY <1>1, Names DEF IInv, PeerOk, Established
<1>3. /\ Phases' /\ TookAnswer' /\ IdleFresh' /\ PathsOk'
      /\ PostedKept' /\ SendFailureExplained'
  BY <1>1, <1>2, RecordTypes, Fields, HandlerModifyKeepsJ DEF Early
<1>4. OneCall'
  <2>1. Queued(call.client) /\ ~ InHandler /\ InHandler'
    BY <1>1 DEF Queued, InHandler
  <2>2. \A d \in Clients :
          /\ Queued(d)' <=> Queued(d) /\ d # call.client
          /\ Served(d)' <=> d = call.client
          /\ Answered(d)' <=> Answered(d)
    BY <1>1, <2>1 DEF Queued, Served, Answered, JInv, OneCall
  <2>3. \A d \in Clients :
          /\ ~ (Queued(d) /\ Served(d))' /\ ~ (Queued(d) /\ Answered(d))'
          /\ ~ (Served(d) /\ Answered(d))'
          /\ cpc'[d] \in {"idle", "connected"} =>
               ~ Queued(d)' /\ ~ Served(d)' /\ ~ Answered(d)'
    BY <1>1, <2>1, <2>2 DEF JInv, OneCall
  <2>4. QED  BY <1>1, <2>1, <2>3 DEF JInv, OneCall
<1>5. InfosOk'
  <2>1. \A info : \A d \in Clients : Tells(info, d) => Tells(info, d)'
    BY <1>1, Names DEF Tells, Fresh, IInv, TypeOK
  <2>2. \A other \in calls : other.client \in Clients
    BY DEF IInv, TypeOK, Call
  <2>3. QED  BY <1>1, <2>1, <2>2 DEF JInv, InfosOk, Answered
<1>6. QED  BY <1>3, <1>4, <1>5 DEF JInv

LEMMA ServerModifyKeepsJ ==
  ASSUME IInv, JInv, ServerToInit \/ ServerToRtr \/ ServerToRts
  PROVE  JInv'
<1> DEFINE s == cur.q
           c == cur.client
<1>1. /\ spc = "connecting" /\ InHandler /\ InHandler' /\ cur' = cur
      /\ UNCHANGED <<wport, announced, cpc, reply, calls, rq, sent, done, cbPosted>>
  BY DEF ServerToInit, ServerToRtr, ServerToRts, client_vars, server_vars, traffic_vars,
         InHandler
<1>2. /\ s \in ServerQps /\ s \in Qpn /\ c \in Clients /\ qp[s] \in QpRecord
      /\ cur.info \in QpInfo /\ Tells(cur.info, c) /\ cur.info.qp_num = c
      /\ qp[s].state \in Early
      /\ \A d \in Clients : qp[d].dest # s
      /\ qp[s].state = "RTR" => qp[s].dest = c
  BY <1>1, Names DEF IInv, TypeOK, CurOk, JInv, InfosOk, Unknown, Early
<1>3. cpc[c] # "idle"
  BY <1>1, <1>2 DEF JInv, OneCall, Served
<1>4. qp[s].sq_psn = 0
  BY <1>2 DEF JInv, Phases
<1>5. /\ Phases' /\ TookAnswer' /\ IdleFresh' /\ PathsOk'
      /\ PostedKept' /\ SendFailureExplained'
  <2>1. CASE ServerToInit
    <3> DEFINE r == ToInit(qp[s], 1)
    <3>1. qp' = [qp EXCEPT ![s] = r] /\ qp[s].state = "RESET" /\ r \in QpRecord
      BY <1>2, <2>1, RecordTypes, Names DEF ServerToInit
    <3>2. r.state = "INIT" /\ r.port = 1 /\ r.dest = NoQp /\ r.sq_psn = 0
      BY <1>2, <1>4, <3>1, Fields, Names DEF JInv, Phases
    <3> HIDE DEF r
    <3>3. QED  BY <1>1, <1>2, <3>1, <3>2, HandlerModifyKeepsJ
  <2>2. CASE ServerToRtr
    <3> DEFINE r == ToRtr(qp[s], cur.info)
    <3>1. qp' = [qp EXCEPT ![s] = r] /\ qp[s].state = "INIT" /\ r \in QpRecord
      BY <1>2, <2>2, RecordTypes DEF ServerToRtr
    <3>2. /\ r.state = "RTR" /\ r.port = 1 /\ r.dest = c /\ r.sq_psn = 0
          /\ r.dgid = <<c, 1>> /\ r.rq_psn = universal_init_psn
          /\ Fresh(c) => r.dlid = <<c, announced[c]>>
      BY <1>2, <1>4, <3>1, Fields DEF JInv, Phases, Tells
    <3> HIDE DEF r
    <3>3. QED  BY <1>1, <1>2, <1>3, <3>1, <3>2, HandlerModifyKeepsJ
  <2>3. CASE ServerToRts
    <3> DEFINE r == ToRts(qp[s])
    <3>1. qp' = [qp EXCEPT ![s] = r] /\ qp[s].state = "RTR" /\ r \in QpRecord
      BY <1>2, <2>3, RecordTypes DEF ServerToRts
    <3>2. /\ r.state = "RTS" /\ r.dest = c /\ r.sq_psn = universal_init_psn
          /\ r.dgid = qp[s].dgid /\ r.dlid = qp[s].dlid
          /\ r.rq_psn = qp[s].rq_psn /\ r.port = qp[s].port
      BY <1>2, <3>1, Fields
    <3>3. /\ qp[s].dgid = <<c, 1>> /\ qp[s].rq_psn = universal_init_psn
          /\ Fresh(c) => qp[s].dlid = <<c, announced[c]>>
          /\ qp[s].port = 1
      BY <1>2, <3>1 DEF JInv, PathsOk, Phases
    <3> HIDE DEF r
    <3>4. r.state \notin Early
      BY <3>2 DEF Early
    <3>5. QED
      BY <1>1, <1>2, <1>3, <3>1, <3>2, <3>3, <3>4, HandlerModifyKeepsJ
  <2>4. QED  BY <2>1, <2>2, <2>3
<1>6. OneCall'
  BY <1>1 DEF JInv, OneCall, Queued, Served, Answered
<1>7. InfosOk'
  <2>1. \A d \in Clients : qp'[d] = qp[d]
    BY <1>2, Names DEF IInv, TypeOK, ServerToInit, ServerToRtr, ServerToRts
  <2>2. \A info : \A d \in Clients : Tells(info, d) => Tells(info, d)'
    BY <1>1, <2>1 DEF Tells, Fresh
  <2>3. \A call \in calls : call.client \in Clients
    BY DEF IInv, TypeOK, Call
  <2>4. QED  BY <1>1, <1>2, <2>2, <2>3 DEF JInv, InfosOk, Answered
<1>8. QED  BY <1>5, <1>6, <1>7 DEF JInv

LEMMA ReplyKeepsJ ==
  ASSUME IInv, JInv, Reply
  PROVE  JInv'
<1> DEFINE c == cur.client
           info == GetInfo(cur.q, 1)
<1>1. /\ InHandler /\ ~ InHandler' /\ cur' = NoCall
      /\ reply' = [reply EXCEPT ![c] = info]
      /\ UNCHANGED <<qp, wport, announced, cpc, calls, rq, sent, done, cbPosted>>
  BY DEF Reply, InHandler, traffic_vars
<1>2. c \in Clients /\ cur.q \in ServerQps /\ info.qp_num = cur.q
  BY <1>1, Infos DEF IInv, CurOk
<1>3. /\ reply'[c] = info /\ \A d \in Clients : d # c => reply'[d] = reply[d]
  BY <1>1, <1>2 DEF IInv, TypeOK
<1>4. Served(c) /\ ~ Queued(c) /\ ~ Answered(c) /\ cpc[c] \notin {"idle", "connected"}
  BY <1>1, <1>2 DEF Served, JInv, OneCall
<1>5. cpc[c] # "connecting"
  BY <1>2, <1>4 DEF IInv, AnswerHeld, Answered
<1> HIDE DEF info
<1>6. OneCall'
  <2>1. \A d \in Clients : /\ Queued(d)' <=> Queued(d)
                           /\ ~ Served(d)'
                           /\ Answered(d)' => Answered(d) \/ d = c
    BY <1>1, <1>3 DEF Queued, Served, Answered
  <2>2. \A d \in Clients :
          /\ ~ (Queued(d) /\ Served(d))' /\ ~ (Queued(d) /\ Answered(d))'
          /\ ~ (Served(d) /\ Answered(d))'
          /\ cpc'[d] \in {"idle", "connected"} =>
               ~ Queued(d)' /\ ~ Served(d)' /\ ~ Answered(d)'
    BY <1>1, <1>4, <2>1 DEF JInv, OneCall
  <2>3. QED  BY <1>1, <2>2 DEF JInv, OneCall
<1>7. InfosOk'
  <2>1. info = GetInfo(info.qp_num, 1)
    BY <1>2 DEF info
  <2>2. QED  BY <1>1, <1>3, <2>1 DEF JInv, InfosOk, Answered, Tells, Fresh
<1>8. TookAnswer'
  BY <1>1, <1>3, <1>5 DEF JInv, TookAnswer
<1>9. (Phases /\ IdleFresh /\ PathsOk /\ PostedKept /\ SendFailureExplained)'
  BY <1>1
  DEF JInv, Phases, IdleFresh, PathsOk, PostedKept, SendFailureExplained, Fresh
<1>10. QED  BY <1>6, <1>7, <1>8, <1>9 DEF JInv

-----------------------------------------------------------------------------
(* The invariant. *)

LEMMA StepJInv == IInv /\ JInv /\ [Next]_vars => JInv'
<1> SUFFICES ASSUME IInv, JInv, [Next]_vars PROVE JInv'
  OBVIOUS
<1>1. ASSUME NEW c \in Clients, NEW port \in Ports, BindPort(c, port)
      PROVE  JInv'
  BY <1>1, BindPortKeepsJ
<1>2. ASSUME NEW c \in Clients, CallEstablish(c) PROVE JInv'
  BY <1>2, CallEstablishKeepsJ
<1>3. ASSUME NEW c \in Clients, ClientConnectStep(c) PROVE JInv'
  BY <1>3, ClientConnectStepKeepsJ
<1>4. ASSUME NEW c \in Clients,
             \/ ReconnectPanics(c) \/ CallFails(c)
             \/ ClientPollPanics(c) \/ ClientCrash(c)
      PROVE  JInv'
  BY <1>4, ClientEndsKeepsJ
  DEF ReconnectPanics, CallFails, ClientPollPanics, ClientCrash
<1>5. CASE AcceptAny
  BY <1>5, AcceptKeepsJ DEF AcceptAny
<1>6. CASE ServerToInit \/ ServerToRtr \/ ServerToRts
  BY <1>6, ServerModifyKeepsJ
<1>7. CASE CallbackEnds
  BY <1>7, CallbackReturnsKeepsJ DEF CallbackEnds
<1>8. CASE Reply
  BY <1>8, ReplyKeepsJ
<1>9. CASE ServerOutOfQps \/ ServerPollPanics \/ ServerCrash
  BY <1>9, ServerEndsKeepsJ DEF ServerOutOfQps, ServerPollPanics, ServerCrash
<1>10. ASSUME NEW q \in Qpn, PostRecv(q) \/ PostSend(q) PROVE JInv'
  BY <1>10, PostKeepsJ
<1>11. ASSUME NEW q \in Qpn, TransportStep(q) \/ DestroyQp(q) PROVE JInv'
  BY <1>11, DeliverKeepsJ, QpEndsKeepsJ DEF TransportStep
<1>12. CASE UNCHANGED vars
  BY <1>12
  DEF vars, JInv, OneCall, Phases, TookAnswer, IdleFresh, InfosOk, Tells, PathsOk,
      PostedKept, SendFailureExplained, Queued, Served, Answered, InHandler, Fresh
<1>13. QED
  BY <1>1, <1>2, <1>3, <1>4, <1>5, <1>6, <1>7, <1>8, <1>9, <1>10, <1>11,
     <1>12
  DEF Next, HandlerStep

LEMMA ExchangeInvariance == Spec => [](IInv /\ JInv)
BY InitIInv, StepIInv, InitJInv, StepJInv, PTL DEF Spec

(* Once both ends are up they can talk in both directions exactly if the   *)
(* port the client announced in its first connect() was port 1, on devices *)
(* with any number of ports and whatever is bound, called or crashes       *)
(* before and after.                                                       *)
THEOREM ReachableIffPort1Always == Spec => []ReachableIffPort1
<1>1. IInv /\ JInv => ReachableIffPort1
  BY ReachedOnPort1 DEF ReachableIffPort1
<1>2. QED  BY <1>1, ExchangeInvariance, PTL

(* A client's send fails only if the peer is gone, if the client announced *)
(* another port than 1, or if it sent more than the callback had posted    *)
(* receives for: what the callback posts is there before the first send.   *)
THEOREM SendFailureExplainedAlways == Spec => []SendFailureExplained
<1>1. JInv => SendFailureExplained
  BY DEF JInv
<1>2. QED  BY <1>1, ExchangeInvariance, PTL

-----------------------------------------------------------------------------
(* The exchange implements Rendezvous.  The mapping: *)

Asked ==
  {call.client : call \in calls}
    \cup {c \in Clients : cur.client = c /\ qp[cur.q].dest = NoQp}
ClientOf == [s \in ServerQps |-> qp[s].dest]
ReadyQps == {s \in ServerQps : qp[s].sq_psn = universal_init_psn}
Offered  == Told \cup Taken
Mate     == [c \in Clients |-> qp[c].dest]

LEMMA Mapping ==
  /\ \A c \in Clients :
       /\ Matchmaking!Ask(c) <=>
            /\ Asked' = Asked \cup {c}
            /\ UNCHANGED <<ClientOf, ReadyQps, Offered, Mate>>
       /\ Matchmaking!Lose(c) <=>
            /\ Asked' = Asked \ {c}
            /\ UNCHANGED <<ClientOf, ReadyQps, Offered, Mate>>
  /\ \A s \in ServerQps :
       Matchmaking!BeReady(s) <=>
         /\ ClientOf[s] # NoQp
         /\ ReadyQps' = ReadyQps \cup {s}
         /\ UNCHANGED <<Asked, ClientOf, Offered, Mate>>
  /\ \A c \in Clients, s \in ServerQps :
       /\ Matchmaking!Serve(c, s) <=>
            /\ c \in Asked /\ ClientOf[s] = NoQp
            /\ Asked' = Asked \ {c}
            /\ ClientOf' = [ClientOf EXCEPT ![s] = c]
            /\ UNCHANGED <<ReadyQps, Offered, Mate>>
       /\ Matchmaking!Offer(c, s) <=>
            /\ s \in ReadyQps /\ ClientOf[s] = c
            /\ Offered' = Offered \cup {<<c, s>>}
            /\ UNCHANGED <<Asked, ClientOf, ReadyQps, Mate>>
       /\ Matchmaking!Pair(c, s) <=>
            /\ <<c, s>> \in Offered /\ Mate[c] = NoQp
            /\ Mate' = [Mate EXCEPT ![c] = s]
            /\ UNCHANGED <<Asked, ClientOf, ReadyQps, Offered>>
  /\ UNCHANGED <<Asked, ClientOf, ReadyQps, Offered, Mate>>
       => UNCHANGED Matchmaking!vars
BY DEF Matchmaking!Ask, Matchmaking!Lose, Matchmaking!BeReady, Matchmaking!Serve,
       Matchmaking!Offer, Matchmaking!Pair, Matchmaking!vars,
       Asked, ClientOf, ReadyQps, Offered, Mate

(* Who has asked and is not served, by where the calls are. *)
LEMMA AskedNow ==
  ASSUME IInv, JInv
  PROVE  Asked = {c \in Clients : Queued(c) \/ (Served(c) /\ qp[cur.q].dest = NoQp)}
<1>1. \A call \in calls : call.client \in Clients
  BY DEF IInv, TypeOK, Call
<1>2. ~ InHandler => cur.client \notin Clients
  BY Names DEF JInv, OneCall
<1>3. QED  BY <1>1, <1>2 DEF Asked, Queued, Served

LEMMA AskedThen ==
  ASSUME IInv', JInv'
  PROVE  Asked' = {c \in Clients : Queued(c)' \/ (Served(c)' /\ qp'[cur'.q].dest = NoQp)}
<1>1. \A call \in calls' : call.client \in Clients
  BY DEF IInv, TypeOK, Call
<1>2. ~ InHandler' => cur'.client \notin Clients
  BY Names DEF JInv, OneCall
<1>3. QED  BY <1>1, <1>2 DEF Asked, Queued, Served

LEMMA MatchmakingInit == Init => Matchmaking!Init
<1> SUFFICES ASSUME Init PROVE Matchmaking!Init
  OBVIOUS
<1>1. /\ \A q \in Qpn : qp[q] = Created \/ qp[q] = Blank
      /\ calls = {} /\ cur = NoCall /\ \A c \in Clients : reply[c] = NoReply
  BY DEF Init
<1>2. \A q \in Qpn : qp[q].dest = NoQp /\ qp[q].sq_psn # universal_init_psn
  BY <1>1, Names DEF Created, Blank
<1>3. /\ {call.client : call \in calls}
           \cup {c \in Clients : cur.client = c /\ qp[cur.q].dest = NoQp} = {}
      /\ [s \in ServerQps |-> qp[s].dest] = [s \in ServerQps |-> NoQp]
      /\ {s \in ServerQps : qp[s].sq_psn = universal_init_psn} = {}
      /\ Told \cup Taken = {}
      /\ [c \in Clients |-> qp[c].dest] = [c \in Clients |-> NoQp]
  BY <1>1, <1>2, Names DEF Told, Taken
<1>4. QED  BY <1>3 DEF Matchmaking!Init

(* A step that ends something loses the request in the handler, or none. *)
LEMMA FadingMaps ==
  ASSUME IInv, JInv, IInv', JInv', Fading, Leaving
  PROVE  [Matchmaking!Next]_(Matchmaking!vars)
<1>1. /\ \A q \in Qpn : qp'[q].dest = qp[q].dest /\ qp'[q].sq_psn = qp[q].sq_psn
      /\ reply' = reply /\ calls' = calls
  BY DEF Fading
<1>2. UNCHANGED <<ClientOf, ReadyQps, Offered, Mate>>
  BY <1>1, Names DEF ClientOf, ReadyQps, Offered, Mate, Told, Taken
<1>3. \A c \in Clients : Queued(c)' <=> Queued(c)
  BY <1>1 DEF Queued
<1>4. CASE InHandler /\ ~ InHandler'
  <2>1. /\ cur.client \in Clients /\ Served(cur.client) /\ ~ Queued(cur.client)
        /\ \A c \in Clients : Served(c) => c = cur.client
        /\ \A c \in Clients : ~ Served(c)'
    BY <1>4 DEF IInv, CurOk, JInv, OneCall, Served
  <2>2. Asked' = Asked \ {cur.client}
    BY <1>3, <2>1, AskedNow, AskedThen
  <2>3. QED  BY <1>2, <2>1, <2>2, Mapping DEF Matchmaking!Next
<1>5. CASE InHandler' /\ InHandler /\ cur' = cur
  <2>1. cur.q \in Qpn
    BY <1>5, Names DEF IInv, CurOk
  <2>2. Asked' = Asked
    BY <1>1, <1>5, <2>1 DEF Asked
  <2>3. QED  BY <1>2, <2>2, Mapping
<1>6. CASE ~ InHandler /\ ~ InHandler'
  <2>1. \A c \in Clients : ~ Served(c) /\ ~ Served(c)'
    BY <1>6 DEF Served
  <2>2. Asked' = Asked
    BY <1>3, <2>1, AskedNow, AskedThen
  <2>3. QED  BY <1>2, <2>2, Mapping
<1>7. QED  BY <1>4, <1>5, <1>6 DEF Leaving

(* Calls, answers and queue pairs as they were. *)
LEMMA UnseenMaps ==
  ASSUME UNCHANGED <<qp, calls, cur, reply>>
  PROVE  UNCHANGED Matchmaking!vars
<1>1. UNCHANGED <<Asked, ClientOf, ReadyQps, Offered, Mate>>
  BY DEF Asked, ClientOf, ReadyQps, Offered, Mate, Told, Taken
<1>2. QED  BY <1>1, Mapping

LEMMA CallEstablishMaps ==
  ASSUME NEW c \in Clients, CallEstablish(c)
  PROVE  Matchmaking!Ask(c)
<1> DEFINE call == [client |-> c, info |-> GetInfo(c, wport[c])]
<1>1. calls' = calls \cup {call} /\ call.client = c /\ UNCHANGED <<qp, cur, reply>>
  BY DEF CallEstablish, server_vars
<1> HIDE DEF call
<1>2. Asked' = Asked \cup {c}
  BY <1>1 DEF Asked
<1>3. UNCHANGED <<ClientOf, ReadyQps, Offered, Mate>>
  BY <1>1 DEF ClientOf, ReadyQps, Offered, Mate, Told, Taken
<1>4. QED  BY <1>2, <1>3, Mapping

LEMMA ClientConnectStepMaps ==
  ASSUME IInv, JInv, NEW c \in Clients, ClientConnectStep(c)
  PROVE  [Matchmaking!Next]_(Matchmaking!vars)
<1>1. /\ qp \in [Qpn -> QpRecord] /\ qp[c] \in QpRecord /\ c \in Qpn
      /\ UNCHANGED <<calls, spc, cur>>
      /\ InHandler => cur.q \in ServerQps /\ cur.q # c
  BY Names DEF IInv, TypeOK, CurOk, ClientConnectStep, ClientToInit, ClientToRtr,
               ClientToRts, server_vars
<1>2. ASSUME NEW r, qp' = [qp EXCEPT ![c] = r]
      PROVE  /\ qp'[c] = r /\ \A q \in Qpn : q # c => qp'[q] = qp[q]
             /\ \A s \in ServerQps : s # c /\ qp'[s] = qp[s]
             /\ UNCHANGED <<Asked, ClientOf, ReadyQps>>
  <2>1. qp'[c] = r /\ \A q \in Qpn : q # c => qp'[q] = qp[q]
    BY <1>1, <1>2
  <2>2. \A s \in ServerQps : s # c /\ qp'[s] = qp[s]
    BY <2>1, Names
  <2>3. UNCHANGED <<ClientOf, ReadyQps>>
    BY <2>2 DEF ClientOf, ReadyQps
  <2>4. Asked' = Asked
    <3>1. CASE InHandler
      BY <1>1, <2>2, <3>1 DEF Asked
    <3>2. CASE ~ InHandler
      BY <1>1, <3>2, Names DEF Asked, JInv, OneCall
    <3>3. QED  BY <3>1, <3>2
  <2>5. QED  BY <2>1, <2>2, <2>3, <2>4
<1>3. CASE ClientToInit(c)
  <2>1. qp' = [qp EXCEPT ![c] = ToInit(qp[c], 1)] /\ reply' = reply
    BY <1>3 DEF ClientToInit
  <2>2. qp'[c].dest = qp[c].dest
    BY <1>1, <1>2, <2>1, Fields, Names
  <2>3. \A d \in Clients : qp'[d].dest = qp[d].dest
    BY <1>2, <2>1, <2>2, Names
  <2>4. UNCHANGED <<Mate, Offered>>
    BY <2>1, <2>3 DEF Mate, Offered, Told, Taken
  <2>5. QED  BY <1>2, <2>1, <2>4, Mapping
<1>4. CASE ClientToRtr(c)
  <2> DEFINE s == reply[c].qp_num
  <2>1. /\ qp' = [qp EXCEPT ![c] = ToRtr(qp[c], reply[c])] /\ reply' = reply
        /\ qp[c].state = "INIT" /\ reply[c] # NoReply /\ reply[c] \in QpInfo
        /\ s \in ServerQps
    BY <1>4 DEF ClientToRtr, client_vars, IInv, TypeOK, AnswerHeld, ReplyOk, Established
  <2>2. qp'[c].dest = s /\ qp[c].dest = NoQp
    BY <1>1, <1>2, <2>1, Fields DEF JInv, Phases
  <2>3. \A d \in Clients : d # c => qp'[d].dest = qp[d].dest
    BY <1>2, <2>1, Names
  <2>4. <<c, s>> \in Offered /\ Mate[c] = NoQp
    BY <2>1, <2>2 DEF Offered, Told, Mate
  <2> HIDE DEF s
  <2>5. Mate' = [Mate EXCEPT ![c] = s]
    BY <2>2, <2>3 DEF Mate
  <2>6. Taken' = Taken \cup {<<c, s>>} /\ Told' = Told
    BY <2>1, <2>2, <2>3, Names DEF Taken, Told
  <2>7. Offered' = Offered
    BY <2>4, <2>6 DEF Offered
  <2>8. QED  BY <1>2, <2>1, <2>4, <2>5, <2>7, Mapping DEF Matchmaking!Next
<1>5. CASE ClientToRts(c)
  <2>1. /\ qp' = [qp EXCEPT ![c] = ToRts(qp[c])]
        /\ reply' = [reply EXCEPT ![c] = NoReply]
        /\ qp[c].state = "RTR" /\ cpc[c] = "connecting"
    BY <1>5 DEF ClientToRts
  <2>2. /\ \A d \in Clients : qp'[d].dest = qp[d].dest
        /\ qp[c].dest = reply[c].qp_num /\ qp[c].dest # NoQp
    <3>1. qp'[c].dest = qp[c].dest
      BY <1>1, <1>2, <2>1, Fields
    <3>2. QED  BY <1>1, <1>2, <2>1, <3>1, Names DEF JInv, TookAnswer, Phases
  <2>3. /\ reply'[c] = NoReply /\ \A d \in Clients : d # c => reply'[d] = reply[d]
    BY <2>1 DEF IInv, TypeOK
  <2>4. Taken' = Taken /\ Mate' = Mate /\ <<c, reply[c].qp_num>> \in Taken
    BY <2>2 DEF Taken, Mate
  <2>5. Told' \subseteq Told /\ Told \subseteq Told' \cup {<<c, reply[c].qp_num>>}
    BY <2>3 DEF Told
  <2>6. Offered' = Offered
    BY <2>4, <2>5 DEF Offered
  <2>7. QED  BY <1>2, <2>1, <2>4, <2>6, Mapping
<1>6. QED  BY <1>3, <1>4, <1>5 DEF ClientConnectStep

(* The handler takes a call: it is still asked for until a queue pair      *)
(* names the caller.                                                       *)
LEMMA AcceptMaps ==
  ASSUME IInv, JInv, IInv', JInv', NEW call \in calls, NEW s \in ServerQps,
         Accept(call, s)
  PROVE  UNCHANGED Matchmaking!vars
<1>1. /\ spc = "listening" /\ calls' = calls \ {call} /\ reply' = reply
      /\ cur' = [client |-> call.client, info |-> call.info, q |-> s]
      /\ qp' = [qp EXCEPT ![s] = Created] /\ spc' = "connecting"
      /\ qp[s].state = "NONE" /\ qp \in [Qpn -> QpRecord] /\ s \in Qpn
  BY Names DEF Accept, FreeQps, client_vars, IInv, TypeOK
<1>2. /\ qp[s].dest = NoQp /\ qp[s].sq_psn = 0 /\ qp'[s] = Created
      /\ \A q \in Qpn : q # s => qp'[q] = qp[q]
  BY <1>1 DEF JInv, Phases, Early
<1>3. \A q \in Qpn : /\ qp'[q].dest = qp[q].dest
                     /\ qp'[q].sq_psn = qp[q].sq_psn
  BY <1>2, Fields
<1>4. UNCHANGED <<ClientOf, ReadyQps, Offered, Mate>>
  BY <1>1, <1>3, Names DEF ClientOf, ReadyQps, Offered, Mate, Told, Taken
<1>5. Asked' = Asked
  <2>1. /\ Queued(call.client) /\ \A c \in Clients : ~ Served(c)
        /\ qp'[cur'.q].dest = NoQp
    BY <1>1, <1>2, Fields DEF Queued, Served, InHandler
  <2>2. \A c \in Clients : /\ Queued(c)' <=> Queued(c) /\ c # call.client
                           /\ Served(c)' <=> c = call.client
    BY <1>1 DEF Queued, Served, InHandler, JInv, OneCall
  <2>3. QED  BY <2>1, <2>2, AskedNow, AskedThen
<1>6. QED  BY <1>4, <1>5, Mapping

(* connect() of the handler's queue pair: RTR serves the caller, RTS makes *)
(* the queue pair ready.                                                   *)
LEMMA ServerModifyMaps ==
  ASSUME IInv, JInv, ServerToInit \/ ServerToRtr \/ ServerToRts
  PROVE  [Matchmaking!Next]_(Matchmaking!vars)
<1>1. PICK s \in ServerQps, c \in Clients : s = cur.q /\ c = cur.client
  BY DEF ServerToInit, ServerToRtr, ServerToRts, InHandler, IInv, CurOk
<1>2. /\ InHandler /\ UNCHANGED <<calls, cur, reply>> /\ spc = "connecting"
      /\ qp \in [Qpn -> QpRecord] /\ s \in ServerQps /\ s \in Qpn /\ c \in Clients
      /\ qp[s] \in QpRecord /\ cur.info \in QpInfo /\ cur.info.qp_num = c
      /\ c # NoQp
  BY <1>1, Names DEF ServerToInit, ServerToRtr, ServerToRts, client_vars, server_vars,
         InHandler, IInv, TypeOK, CurOk
<1>3. ~ Queued(c) /\ Served(c)
  BY <1>1, <1>2 DEF JInv, OneCall, Served
<1>4. ASSUME NEW r, qp' = [qp EXCEPT ![s] = r]
      PROVE  /\ qp'[s] = r /\ \A q \in Qpn : q # s => qp'[q] = qp[q]
             /\ \A d \in Clients : qp'[d] = qp[d]
             /\ UNCHANGED <<Offered, Mate>>
  <2>1. qp'[s] = r /\ \A q \in Qpn : q # s => qp'[q] = qp[q]
    BY <1>2, <1>4
  <2>2. \A d \in Clients : qp'[d] = qp[d]
    BY <1>2, <2>1, Names
  <2>3. QED  BY <1>2, <2>1, <2>2 DEF Offered, Mate, Told, Taken
<1>5. CASE ServerToInit
  <2>1. qp' = [qp EXCEPT ![s] = ToInit(qp[s], 1)]
    BY <1>1, <1>5 DEF ServerToInit
  <2>2. qp'[s].dest = qp[s].dest /\ qp'[s].sq_psn = qp[s].sq_psn
    BY <1>2, <1>4, <2>1, Fields, Names
  <2>3. \A q \in ServerQps : qp'[q].dest = qp[q].dest /\ qp'[q].sq_psn = qp[q].sq_psn
    BY <1>4, <2>1, <2>2, Names
  <2>4. UNCHANGED <<ClientOf, ReadyQps, Asked>>
    BY <1>1, <1>2, <2>3 DEF ClientOf, ReadyQps, Asked
  <2>5. QED  BY <1>4, <2>1, <2>4, Mapping
<1>6. CASE ServerToRtr
  <2>1. qp' = [qp EXCEPT ![s] = ToRtr(qp[s], cur.info)] /\ qp[s].state = "INIT"
    BY <1>1, <1>6 DEF ServerToRtr
  <2>2. /\ qp'[s].dest = c /\ qp'[s].sq_psn = qp[s].sq_psn /\ qp[s].dest = NoQp
    BY <1>2, <1>4, <2>1, Fields DEF JInv, Phases
  <2>3. \A q \in ServerQps : q # s => qp'[q] = qp[q]
    BY <1>4, <2>1, Names
  <2>4. ClientOf' = [ClientOf EXCEPT ![s] = c] /\ ReadyQps' = ReadyQps /\ ClientOf[s] = NoQp
    BY <1>2, <2>2, <2>3 DEF ClientOf, ReadyQps
  <2>5. c \in Asked
    BY <1>1, <1>2, <2>2 DEF Asked
  <2>6. Asked' = Asked \ {c}
    <3>1. Asked = {call.client : call \in calls} \cup {c}
      BY <1>1, <1>2, <2>2 DEF Asked
    <3>2. Asked' = {call.client : call \in calls}
      BY <1>1, <1>2, <2>2 DEF Asked
    <3>3. c \notin {call.client : call \in calls}
      BY <1>3 DEF Queued
    <3>4. QED  BY <3>1, <3>2, <3>3
  <2>7. Matchmaking!Serve(c, s)
    BY <1>2, <1>4, <2>1, <2>4, <2>5, <2>6, Mapping
  <2>8. QED  BY <1>2, <2>7 DEF Matchmaking!Next
<1>7. CASE ServerToRts
  <2>1. qp' = [qp EXCEPT ![s] = ToRts(qp[s])] /\ qp[s].state = "RTR"
    BY <1>1, <1>7 DEF ServerToRts
  <2>2. /\ qp'[s].dest = qp[s].dest /\ qp'[s].sq_psn = universal_init_psn
        /\ qp[s].dest = c
    BY <1>2, <1>4, <2>1, <1>1, Fields DEF IInv, CurOk
  <2>3. \A q \in ServerQps : q # s => qp'[q] = qp[q]
    BY <1>4, <2>1, Names
  <2>4. /\ ClientOf' = ClientOf /\ ReadyQps' = ReadyQps \cup {s}
        /\ ClientOf[s] # NoQp /\ Asked' = Asked
    BY <1>1, <1>2, <2>2, <2>3 DEF ClientOf, ReadyQps, Asked
  <2>5. Matchmaking!BeReady(s)
    BY <1>2, <1>4, <2>1, <2>4, Mapping
  <2>6. QED  BY <1>2, <2>5 DEF Matchmaking!Next
<1>8. QED  BY <1>5, <1>6, <1>7

(* The answer is the offer, and only now goes out. *)
LEMMA ReplyMaps ==
  ASSUME IInv, JInv, Reply
  PROVE  Matchmaking!Next
<1> DEFINE c == cur.client
           s == cur.q
<1>1. /\ InHandler /\ cur' = NoCall /\ UNCHANGED <<qp, calls>>
      /\ reply' = [reply EXCEPT ![c] = GetInfo(s, 1)]
      /\ c \in Clients /\ s \in ServerQps /\ Established(s, c)
  BY DEF Reply, InHandler, traffic_vars, IInv, CurOk
<1>2. /\ reply'[c] = GetInfo(s, 1) /\ reply'[c].qp_num = s /\ reply'[c] # NoReply
      /\ \A d \in Clients : d # c => reply'[d] = reply[d]
  <2>1. GetInfo(s, 1) \in QpInfo /\ GetInfo(s, 1).qp_num = s
    BY <1>1, RecordTypes, Infos, Names
  <2>2. QED  BY <1>1, <2>1, NoReplyIsNoInfo DEF IInv, TypeOK
<1>3. ~ Answered(c)
  BY <1>1 DEF JInv, OneCall, Served
<1>4. Told' = Told \cup {<<c, s>>}
  BY <1>1, <1>2, <1>3 DEF Told, Answered
<1>5. Taken' = Taken /\ UNCHANGED <<ClientOf, ReadyQps, Mate>>
  BY <1>1 DEF Taken, ClientOf, ReadyQps, Mate
<1>6. Offered' = Offered \cup {<<c, s>>}
  BY <1>4, <1>5 DEF Offered
<1>7. Asked' = Asked
  BY <1>1, Names DEF Asked, Established
<1>8. s \in ReadyQps /\ ClientOf[s] = c
  BY <1>1 DEF ReadyQps, ClientOf, Established
<1>9. Matchmaking!Offer(c, s)
  BY <1>1, <1>5, <1>6, <1>7, <1>8, Mapping
<1>10. QED  BY <1>1, <1>9 DEF Matchmaking!Next

LEMMA StepMaps ==
  ASSUME IInv, JInv, IInv', JInv', [Next]_vars
  PROVE  [Matchmaking!Next]_(Matchmaking!vars)
<1>1. ASSUME NEW c \in Clients, NEW port \in Ports, BindPort(c, port)
      PROVE  UNCHANGED Matchmaking!vars
  BY <1>1, UnseenMaps DEF BindPort, server_vars
<1>2. ASSUME NEW c \in Clients, CallEstablish(c) PROVE Matchmaking!Next
  BY <1>2, CallEstablishMaps DEF Matchmaking!Next
<1>3. ASSUME NEW c \in Clients, ClientConnectStep(c)
      PROVE  [Matchmaking!Next]_(Matchmaking!vars)
  BY <1>3, ClientConnectStepMaps
<1>4. ASSUME NEW c \in Clients,
             \/ ReconnectPanics(c) \/ CallFails(c)
             \/ ClientPollPanics(c) \/ ClientCrash(c)
      PROVE  [Matchmaking!Next]_(Matchmaking!vars)
  BY <1>4, ClientEndsKeepsJ, FadingMaps
  DEF ReconnectPanics, CallFails, ClientPollPanics, ClientCrash
<1>5. CASE AcceptAny
  BY <1>5, AcceptMaps DEF AcceptAny
<1>6. CASE ServerToInit \/ ServerToRtr \/ ServerToRts
  BY <1>6, ServerModifyMaps
<1>7. CASE CallbackEnds
  BY <1>7, CallbackReturnsKeepsJ, FadingMaps DEF CallbackEnds
<1>8. CASE Reply
  BY <1>8, ReplyMaps
<1>9. CASE ServerOutOfQps \/ ServerPollPanics \/ ServerCrash
  BY <1>9, ServerEndsKeepsJ, FadingMaps DEF ServerOutOfQps, ServerPollPanics, ServerCrash
<1>10. ASSUME NEW q \in Qpn, PostRecv(q) \/ PostSend(q) \/ Deliver(q)
       PROVE  UNCHANGED Matchmaking!vars
  BY <1>10, UnseenMaps DEF PostRecv, PostSend, Deliver, client_vars, server_vars
<1>11. ASSUME NEW q \in Qpn, Expire(q) \/ DestroyQp(q)
       PROVE  [Matchmaking!Next]_(Matchmaking!vars)
  BY <1>11, QpEndsKeepsJ, FadingMaps
<1>12. CASE UNCHANGED vars
  BY <1>12, UnseenMaps DEF vars
<1>13. QED
  BY <1>1, <1>2, <1>3, <1>4, <1>5, <1>6, <1>7, <1>8, <1>9, <1>10, <1>11,
     <1>12
  DEF Next, HandlerStep, TransportStep

(* The calls, the handler and connect() implement the matchmaking of       *)
(* Rendezvous, for any number of clients and queue pairs and with any      *)
(* process exiting at any point.                                           *)
THEOREM MeetsRendezvousAlways == Spec => MeetsRendezvous
<1>1. IInv /\ JInv /\ (IInv /\ JInv)' /\ [Next]_vars
        => [Matchmaking!Next]_(Matchmaking!vars)
  BY StepMaps
<1>2. QED
  BY <1>1, MatchmakingInit, ExchangeInvariance, PTL
     DEF Spec, MeetsRendezvous, Matchmaking!Spec
=============================================================================
