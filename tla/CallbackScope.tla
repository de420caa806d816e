---------------------------- MODULE CallbackScope ----------------------------
(***************************************************************************)
(* The objects of a server process (Ownership) in the order in which the   *)
(* handler of cm.h makes and drops them.  For each connection it creates   *)
(* two completion queues and a queue pair, connects it, and moves all      *)
(* three into parameters of the application's callback, which own them.    *)
(* The callback may move them on to objects of the application (boxes).    *)
(* When it returns, the parameters are destroyed in an order that C++      *)
(* leaves open.  Between two connections the application does with its own *)
(* objects what it likes.                                                  *)
(***************************************************************************)
EXTENDS Ownership

CONSTANTS SendCq, RecvCq, Qp   \* the places of the parameters

CqParams == {SendCq, RecvCq}
Params == CqParams \cup {Qp}
Boxes == Places \ Params

ASSUME CallbackScopeAssumption ==
  /\ CqParams \subseteq CqPlaces
  /\ SendCq # RecvCq
  /\ Qp \in QpPlaces
  /\ Type[Qp] = "RC"

VARIABLE pc   \* where the server is in the handler

vars_all == <<vars, pc>>

InitAll == Init /\ pc = "listening"

Step(from, to) == pc = from /\ pc' = to

-----------------------------------------------------------------------------
(* The handler.  Its local objects are moved into the parameters without   *)
(* a step of anything else in between, so the parameters stand for both.   *)
MakeSendCq == Step("listening", "send_cq made") /\ CreateCq(SendCq)
MakeRecvCq == Step("send_cq made", "recv_cq made") /\ CreateCq(RecvCq)
MakeQp     == Step("recv_cq made", "qp made") /\ CreateQp(Qp, SendCq, RecvCq)
ConnectQp  == Step("qp made", "callback") /\ Connect(Qp)

MakeFails ==
  /\ UNCHANGED pc
  /\ \/ pc = "listening" /\ CreateFails(SendCq)
     \/ pc = "send_cq made" /\ CreateFails(RecvCq)
     \/ pc = "recv_cq made" /\ CreateFails(Qp)

(* No queue pair, kept or not, uses a queue that is still a parameter. *)
Settled ==
  \A k \in CqParams : object[k].h # Null => ~ Needed(k)

(* The callback returns.  To keep the order of destruction is up to it:    *)
(* what the parameters do afterwards is not.                               *)
CallbackReturns ==
  /\ Step("callback", "returning")
  /\ fate = "running"
  /\ orderly' = (orderly /\ Settled)
  /\ UNCHANGED <<context, object, dev, fate>>

(* A parameter is destroyed, any of those left. *)
DropParam(x) ==
  /\ fate = "running"
  /\ pc = "returning"
  /\ object[x].alive
  /\ dev' = Destroyed(dev, object[x].h)
  /\ object' = [object EXCEPT ![x] = Dead]
  /\ UNCHANGED <<context, orderly, fate, pc>>

HandlerReturns ==
  /\ Step("returning", "listening")
  /\ fate = "running"
  /\ \A x \in Params : ~ object[x].alive
  /\ UNCHANGED vars

-----------------------------------------------------------------------------
(* The application. *)

(* In the callback: parameters and boxes are moved, boxes are destroyed. *)
CallbackStep ==
  /\ pc = "callback"
  /\ \/ \E x \in Boxes, y \in Places : MoveConstruct(x, y) \/ MoveAssign(x, y)
     \/ \E x \in Boxes : Destroy(x)
  /\ UNCHANGED pc

(* Between two connections. *)
BoxStep ==
  \/ \E x, y \in Boxes : MoveConstruct(x, y) \/ MoveAssign(x, y)
  \/ \E x \in Boxes : Destroy(x) \/ DestroyDangling(x) \/ UseMoved(x)
  \/ \E x \in Boxes \cap CqPlaces : CreateCq(x)
  \/ \E x \in Boxes \cap QpPlaces :
       \/ Datagram(x) /\ \E c \in Boxes \cap CqPlaces : CreateQp(x, c, c)
       \/ \E p \in PortArgs : BindPort(x, p) \/ BringUp(x, p) \/ BringUpPanics(x, p)
       \/ ConnectPanics(x) \/ InfoFails(x)
       \/ \E op \in Ops : PostPanics(x, op)

ApplicationStep ==
  /\ pc = "listening"
  /\ BoxStep \/ (\E hinted \in Hints : OpenContext(hinted)) \/ CloseContext
  /\ UNCHANGED pc

Next ==
  \/ MakeSendCq \/ MakeRecvCq \/ MakeQp \/ ConnectQp \/ MakeFails
  \/ CallbackReturns \/ HandlerReturns
  \/ \E x \in Params : DropParam(x)
  \/ CallbackStep \/ ApplicationStep

Spec == InitAll /\ [][Next]_vars_all
=============================================================================
