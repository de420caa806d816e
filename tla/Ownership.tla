------------------------------ MODULE Ownership ------------------------------
(***************************************************************************)
(* Who owns what: the objects rdma_context, rdma_cq and rdma_qp, which     *)
(* hold a handle each (a context three), and the device objects behind the *)
(* handles.  Objects are moved by taking the handle and leaving a null one *)
(* behind, and destroy what they hold.  The device refuses to destroy what *)
(* another of its objects uses; the destructors do not look and forget the *)
(* handle, so what was refused is leaked.                                  *)
(*                                                                         *)
(* One context per process.  The module has the operations; a module that  *)
(* extends it says which program calls them.  Memory regions have a module *)
(* of their own (Memory).  External: which objects use which, that closing *)
(* the device takes everything on it along, and that a handle is a small   *)
(* number nobody holds.                                                    *)
(***************************************************************************)
EXTENDS Naturals

CONSTANTS
  CqPlaces,   \* where the program keeps rdma_cq objects
  QpPlaces,   \* where it keeps rdma_qp objects
  Type,       \* the queue pair type of each of these, a template argument
  NPorts,     \* phys_port_cnt
  PortArgs,   \* arguments of bind_port
  Hints,      \* is the context made with a hint, and so a resource domain?
  Handles     \* as many objects as the device has room for

Places == CqPlaces \cup QpPlaces
QpTypes == {"RC", "UC", "UD", "RAW_PACKET"}

ASSUME OwnershipAssumption ==
  /\ CqPlaces \cap QpPlaces = {}
  /\ Type \in [QpPlaces -> QpTypes]
  /\ NPorts \in Nat \ {0}
  /\ PortArgs \subseteq Nat
  /\ Hints \subseteq BOOLEAN
  /\ Handles \subseteq Nat \ {0}
  /\ \E c, p, r \in Handles : c # p /\ p # r /\ r # c

Null == 0

VARIABLES
  context,  \* the rdma_context and its handles
  object,   \* the rdma_cq and rdma_qp objects
  dev,      \* the device objects behind the handles
  orderly,  \* has the program kept the order of destruction?  (history)
  fate      \* of the process

vars == <<context, object, dev, orderly, fate>>

Kinds == {"none", "context", "pd", "res_domain", "cq", "qp"}

NoDevice == [kind |-> "none", uses |-> {}, port |-> 0]
Dead     == [alive |-> FALSE, h |-> Null, port |-> 1, moved |-> FALSE]

Init ==
  /\ context = [life |-> "unborn", ctx |-> Null, pd |-> Null, rd |-> Null]
  /\ object = [x \in Places |-> Dead]
  /\ dev = [h \in Handles |-> NoDevice]
  /\ orderly = TRUE
  /\ fate = "running"

Ends(f) ==
  /\ fate' = f
  /\ UNCHANGED <<context, object, dev, orderly>>

Running(x)  == fate = "running" /\ object[x].alive
CanMake(x)  == fate = "running" /\ context.life = "alive" /\ ~ object[x].alive

-----------------------------------------------------------------------------
(* The device. *)

Exists(h) == dev[h].kind # "none"
ContextHandles == {context.ctx, context.pd, context.rd}
Held == {object[x].h : x \in Places} \cup ContextHandles
Free == {h \in Handles : ~ Exists(h)} \ Held
Lowest(S) == CHOOSE h \in S : \A k \in S : h <= k

Made(d, h, kind, uses) ==
  [d EXCEPT ![h] = [kind |-> kind, uses |-> uses \ {Null}, port |-> 0]]

(* ibv_destroy_cq, ibv_destroy_qp, ibv_dealloc_pd, ...: refused if in use. *)
Destroyed(d, h) ==
  IF h = Null \/ \E u \in Handles : h \in d[u].uses
    THEN d ELSE [d EXCEPT ![h] = NoDevice]

(* ibv_close_device *)
Closed(d, h) ==
  [k \in Handles |-> IF k = h \/ h \in d[k].uses THEN NoDevice ELSE d[k]]

-----------------------------------------------------------------------------
(* rdma_context *)

(* create_rdma_context, create_rdma_res_domain, where they succeed. *)
Opened(d, c, p) == Made(Made(d, c, "context", {}), p, "pd", {c})
WithDomain(d, c, r) == Made(d, r, "res_domain", {c})

OpenContext(hinted) ==
  LET c == Lowest(Free)
      p == Lowest(Free \ {c})
      r == Lowest(Free \ {c, p})
      opened == Opened(dev, c, p)
  IN
  /\ fate = "running"
  /\ context.life = "unborn"
  /\ context' = [life |-> "alive", ctx |-> c, pd |-> p,
                 rd |-> IF hinted THEN r ELSE Null]
  /\ dev' = IF hinted THEN WithDomain(opened, c, r) ELSE opened
  /\ UNCHANGED <<object, orderly, fate>>

(* ~rdma_context: resource domain, protection domain, device. *)
CloseContext ==
  /\ fate = "running"
  /\ context.life = "alive"
  /\ dev' = Closed(Destroyed(Destroyed(dev, context.rd), context.pd),
                   context.ctx)
  /\ context' = [life |-> "dead", ctx |-> Null, pd |-> Null, rd |-> Null]
  /\ orderly' = (orderly /\ \A x \in Places : object[x].h = Null)
  /\ UNCHANGED <<object, fate>>

-----------------------------------------------------------------------------
(* Construction. *)

Fresh(h) == [alive |-> TRUE, h |-> h, port |-> 1, moved |-> FALSE]

(* rdma_cq(ctx) *)
CreateCq(x) ==
  LET h == Lowest(Free) IN
  /\ CanMake(x) /\ Free # {}
  /\ dev' = Made(dev, h, "cq", {context.ctx, context.rd})
  /\ object' = [object EXCEPT ![x] = Fresh(h)]
  /\ UNCHANGED <<context, orderly, fate>>

(* rdma_qp(ctx, send_cq, recv_cq) *)
CreateQp(x, send_cq, recv_cq) ==
  LET h == Lowest(Free)
      queues == {object[send_cq].h, object[recv_cq].h}
  IN
  /\ CanMake(x) /\ Free # {}
  /\ Null \notin queues
  /\ dev' = Made(dev, h, "qp", queues \cup ContextHandles)
  /\ object' = [object EXCEPT ![x] = Fresh(h)]
  /\ UNCHANGED <<context, orderly, fate>>

(* The device has no room for another one: the constructor panics. *)
CreateFails(x) ==
  /\ CanMake(x) /\ Free = {}
  /\ Ends("exhausted")

-----------------------------------------------------------------------------
(* Destruction and moves. *)

(* The handle of x outlived the context it was made in. *)
Dangling(x) == object[x].h # Null /\ ~ Exists(object[x].h)

(* Some rdma_qp object still needs the queue that x holds. *)
Needed(x) ==
  \E q \in QpPlaces : object[q].h \in Handles /\ object[x].h \in dev[object[q].h].uses

(* What ~rdma_cq and ~rdma_qp do, but to the object. *)
Release(x) ==
  /\ Running(x) /\ ~ Dangling(x)
  /\ dev' = Destroyed(dev, object[x].h)
  /\ orderly' = (orderly /\ ~ Needed(x))
  /\ UNCHANGED <<context, fate>>

Destroy(x) ==
  /\ Release(x)
  /\ object' = [object EXCEPT ![x] = Dead]

SameClass(x, y) ==
  \/ x \in CqPlaces /\ y \in CqPlaces
  \/ x \in QpPlaces /\ y \in QpPlaces /\ Type[x] = Type[y]

Datagram(x) == Type[x] \in {"UD", "RAW_PACKET"}

(* What the move constructors make of y: the port is not among it. *)
Moved(y) == [Fresh(object[y].h) EXCEPT !.moved = y \in QpPlaces /\ Datagram(y)]

(* Seeded fault: y keeps its handle. *)
MoveConstructShared(x, y) ==
  /\ Running(y) /\ ~ object[x].alive /\ SameClass(x, y)
  /\ object' = [object EXCEPT ![x] = Moved(y)]
  /\ UNCHANGED <<context, dev, orderly, fate>>

MoveConstruct(x, y) ==
  /\ Running(y) /\ ~ object[x].alive /\ SameClass(x, y)
  /\ object' = [object EXCEPT ![x] = Moved(y), ![y].h = Null]
  /\ UNCHANGED <<context, dev, orderly, fate>>

(* Seeded fault: what x held is overwritten, not destroyed. *)
MoveAssignOver(x, y) ==
  /\ Running(x) /\ object[y].alive /\ SameClass(x, y) /\ x # y
  /\ object' = [object EXCEPT ![x] = Moved(y), ![y].h = Null]
  /\ UNCHANGED <<context, dev, orderly, fate>>

(* x = std::move(y): the destructor of x, then the move constructor. *)
MoveAssign(x, y) ==
  /\ Release(x)
  /\ object[y].alive /\ SameClass(x, y) /\ x # y
  /\ object' = [object EXCEPT ![x] = Moved(y), ![y].h = Null]

(* The destructor of x, called or implied, on a device that is closed. *)
DestroyDangling(x) == Running(x) /\ Dangling(x) /\ Ends("dangling")

-----------------------------------------------------------------------------
(* Use of a queue pair. *)

Usable(x) == Running(x) /\ object[x].h # Null /\ ~ Dangling(x)

Attached(x) == dev[object[x].h].port   \* 0: the queue pair is in RESET

(* bind_port of a connected type: it is remembered, and that is all. *)
BindPort(x, port) ==
  /\ Running(x) /\ ~ Datagram(x)
  /\ object' = [object EXCEPT ![x].port = port]
  /\ UNCHANGED <<context, dev, orderly, fate>>

(* Seeded fault: the port is not looked at. *)
CanBringUpAnywhere(x, port) == Attached(x) = 0

CanBringUp(x, port) == Attached(x) = 0 /\ port \in 1..NPorts

(* Seeded fault: as in connect(), the port is the default one. *)
BringUpOnPort1(x, port) ==
  /\ Usable(x) /\ Datagram(x)
  /\ CanBringUp(x, port)
  /\ dev' = [dev EXCEPT ![object[x].h].port = 1]
  /\ object' = [object EXCEPT ![x].port = port, ![x].moved = FALSE]
  /\ UNCHANGED <<context, orderly, fate>>

(* bind_port of a datagram type: RESET to RTS. *)
BringUp(x, port) ==
  /\ Usable(x) /\ Datagram(x)
  /\ CanBringUp(x, port)
  /\ dev' = [dev EXCEPT ![object[x].h].port = port]
  /\ object' = [object EXCEPT ![x].port = port, ![x].moved = FALSE]
  /\ UNCHANGED <<context, orderly, fate>>

(* The assertion on RESET, or a port the device does not have. *)
BringUpPanics(x, port) ==
  Usable(x) /\ Datagram(x) /\ ~ CanBringUp(x, port) /\ Ends("panicked")

(* connect(info), with its default port. *)
Connect(x) ==
  /\ Usable(x)
  /\ Type[x] = "RC" /\ Attached(x) = 0
  /\ dev' = [dev EXCEPT ![object[x].h].port = 1]
  /\ UNCHANGED <<context, object, orderly, fate>>

ConnectPanics(x) ==
  Usable(x) /\ (Type[x] # "RC" \/ Attached(x) # 0) /\ Ends("panicked")

(* get_info() that does not return: port_attrs[port - 1] of a port that    *)
(* the device does not have, or of a context that is gone.                 *)
InfoFails(x) ==
  /\ Running(x) /\ object[x].h # Null
  /\ \/ context.life = "dead" /\ Ends("dangling")
     \/ context.life = "alive" /\ object[x].port > NPorts /\ Ends("panicked")
     \/ context.life = "alive" /\ object[x].port = 0 /\ Ends("undefined")

(* qp_verb_compat, by kinds of opcodes, and the assertion on it. *)
Ops == {"send", "write", "read", "atomic"}
Compatible(type, op) ==
  type = "RC" \/ (type \in {"UD", "RAW_PACKET"} /\ op = "send")

PostPanics(x, op) ==
  Usable(x) /\ ~ Compatible(Type[x], op) /\ Ends("panicked")

(* A null handle is dereferenced, by a poll or by the use of a queue pair. *)
UseMoved(x) == Running(x) /\ object[x].h = Null /\ Ends("undefined")

-----------------------------------------------------------------------------
(* Properties. *)

TypeOK ==
  /\ context \in [life : {"unborn", "alive", "dead"}, ctx : Handles \cup {Null},
                  pd : Handles \cup {Null}, rd : Handles \cup {Null}]
  /\ object \in [Places -> [alive : BOOLEAN, h : Handles \cup {Null},
                            port : PortArgs \cup {1}, moved : BOOLEAN]]
  /\ dev \in [Handles -> [kind : Kinds, uses : SUBSET Handles, port : 0..NPorts]]
  /\ orderly \in BOOLEAN
  /\ fate \in {"running", "panicked", "exhausted", "dangling", "undefined"}
  /\ \A x \in CqPlaces :
       object[x].h # Null => dev[object[x].h].kind \in {"cq", "none"}
  /\ \A x \in QpPlaces :
       object[x].h # Null => dev[object[x].h].kind \in {"qp", "none"}

(* No two objects hold one handle, so nothing is destroyed twice, and      *)
(* every queue pair of the device is held by an object whatever the        *)
(* program did: only completion queues are ever leaked.                    *)
OwnedOnce ==
  /\ \A x, y \in Places :
       (x # y /\ object[x].h # Null) => object[x].h # object[y].h
  /\ \A h \in Handles \ Held : dev[h].kind \in {"none", "cq"}

(* A program that keeps the order of destruction leaks nothing, never      *)
(* touches a handle of a closed device, and never runs out of device       *)
(* objects, however long it runs.                                          *)
OrderlyClean ==
  orderly =>
    /\ \A h \in Handles : Exists(h) => h \in Held
    /\ fate \notin {"exhausted", "dangling"}

(* Which port get_info() tells the peer of a queue pair that is up: of a   *)
(* datagram queue pair the one it is attached to, through everything but   *)
(* a move, which forgets the port for the default one; of a connected one  *)
(* it is right only if it is the default, whatever was bound.              *)
PortTold ==
  \A x \in QpPlaces :
    (object[x].h # Null /\ Attached(x) # 0) =>
      /\ (Datagram(x) /\ ~ object[x].moved) => object[x].port = Attached(x)
      /\ (Datagram(x) /\ object[x].moved) => object[x].port = 1
      /\ ~ Datagram(x) => Attached(x) = 1
=============================================================================
