-------------------------- MODULE CallbackScopeProofs --------------------------
(***************************************************************************)
(* Proofs about CallbackScope: what the server owns, for any device and    *)
(* any number of objects the application keeps.  Nearly all of it is       *)
(* OInv (OwnershipProofs), which every operation keeps; that of a program  *)
(* that keeps the order of destruction is added here.                      *)
(***************************************************************************)
EXTENDS CallbackScope, OwnershipProofs

(* What the callback has promised holds until the parameters are gone. *)
Kept == (pc = "returning" /\ orderly) => Settled

IInv == OInv /\ Kept

-----------------------------------------------------------------------------
(* Initially. *)

LEMMA InitKeeps == InitAll => IInv
<1> SUFFICES ASSUME InitAll PROVE IInv
  OBVIOUS
<1>1. /\ context = [life |-> "unborn", ctx |-> Null, pd |-> Null, rd |-> Null]
      /\ object = [x \in Places |-> Dead] /\ dev = [h \in Handles |-> NoDevice]
      /\ orderly = TRUE /\ fate = "running" /\ pc = "listening"
  BY DEF InitAll, Init
<1>2. /\ \A x \in Places : object[x].h = Null /\ ~ object[x].alive
      /\ \A h \in Handles : dev[h] = NoDevice /\ dev[h].kind = "none"
                            /\ dev[h].uses = {} /\ ~ Exists(h)
      /\ ContextHandles = {Null}
  BY <1>1, EmptyOnes DEF Exists, ContextHandles
<1>3. TypeOK
  BY <1>1, <1>2, EmptyOnes, Types DEF Fates, Places
<1>4. (DeadHoldNone /\ HeldOnce /\ NoTraces /\ PortTold /\ KindsFit)
  BY <1>1, <1>2 DEF DeadHoldNone, HeldOnce, NoTraces, PortTold, KindsFit, Places
<1>5. (NoContext /\ ContextUp /\ UsesFit /\ QpsHeld /\ Clean)
  BY <1>1, <1>2 DEF NoContext, ContextUp, UsesFit, QpsHeld, Clean
<1>6. Kept
  BY <1>1 DEF Kept
<1>7. QED  BY <1>3, <1>4, <1>5, <1>6 DEF IInv, OInv

-----------------------------------------------------------------------------
(* The parameters. *)

LEMMA Scope ==
  /\ SendCq \in CqPlaces /\ RecvCq \in CqPlaces /\ Qp \in QpPlaces
  /\ CqPlaces \subseteq Places /\ QpPlaces \subseteq Places
  /\ Params \subseteq Places /\ Boxes \subseteq Places
  /\ Hints \subseteq BOOLEAN
BY CallbackScopeAssumption, OwnershipAssumption
   DEF CqParams, Params, Boxes, Places

(* Nobody uses a queue pair, nor what is not there. *)
LEMMA NotNeeded ==
  ASSUME OInv, orderly, NEW x \in Places, x \in QpPlaces \/ object[x].h = Null
  PROVE  ~ Needed(x)
<1> SUFFICES ASSUME NEW q \in QpPlaces, object[q].h \in Handles,
                    object[x].h \in dev[object[q].h].uses
             PROVE  FALSE
  BY DEF Needed
<1>1. /\ dev[object[q].h].uses \subseteq Handles /\ Null \notin Handles
  BY Types, HandleFacts DEF OInv, Devices
<1>2. object[x].h \in Handles /\ object[x].h # Null /\ x \in QpPlaces
  BY <1>1
<1>3. dev[object[x].h].kind = "qp"
  <2>1. ~ Dangling(x)
    BY OrderlyNeverDangles
  <2>2. QED  BY <1>2, <2>1, Types DEF OInv, Dangling, Exists
<1>4. object[x].h \notin ContextHandles
  <2>1. context.life = "alive"
    BY <1>2, <1>3 DEF OInv, NoContext, Exists
  <2>2. QED  BY <1>2, <1>3, <2>1 DEF OInv, ContextUp, ContextHandles
<1>5. QED  BY <1>3, <1>4 DEF OInv, UsesFit

(* The destruction of a parameter keeps the promise for the others. *)
LEMMA DropKeepsSettled ==
  ASSUME OInv, NEW x \in Places, Settled,
         dev' = Destroyed(dev, object[x].h),
         object' = [object EXCEPT ![x] = Dead]
  PROVE  Settled'
<1> SUFFICES ASSUME NEW k \in CqParams, object'[k].h # Null, NEW q \in QpPlaces,
                    object'[q].h \in Handles,
                    object'[k].h \in dev'[object'[q].h].uses
             PROVE  FALSE
  BY DEF Settled, Needed
<1>1. /\ k \in Places /\ q \in Places /\ Null \notin Handles
      /\ object \in [Places -> Objects]
  BY Scope, HandleFacts, Types DEF OInv, CqParams
<1>2. k # x /\ q # x
  BY <1>1, EmptyOnes
<1>3. object'[k] = object[k] /\ object'[q] = object[q]
  BY <1>1, <1>2
<1>4. object[k].h \in dev[object[q].h].uses
  BY <1>3, DestroyedEffect, EmptyOnes
<1>5. QED  BY <1>3, <1>4 DEF Settled, Needed

LEMMA DropParamKeeps ==
  ASSUME IInv, NEW x \in Params, DropParam(x)
  PROVE  IInv'
<1>1. /\ OInv /\ Kept /\ x \in Places /\ pc = "returning" /\ pc' = pc
      /\ dev' = Destroyed(dev, object[x].h)
      /\ object' = [object EXCEPT ![x] = Dead]
      /\ context' = context /\ orderly' = orderly /\ fate' = fate
  BY Scope DEF IInv, DropParam
<1>2. orderly => ~ Needed(x)
  <2> SUFFICES ASSUME orderly PROVE ~ Needed(x)
    OBVIOUS
  <2>1. CASE x \in QpPlaces \/ object[x].h = Null
    BY <1>1, <2>1, NotNeeded
  <2>2. CASE x \notin QpPlaces /\ object[x].h # Null
    BY <1>1, <2>2, Scope DEF Kept, Settled, Params
  <2>3. QED  BY <2>1, <2>2
<1>3. orderly' \in BOOLEAN /\ (orderly' => orderly /\ ~ Needed(x))
  BY <1>1, <1>2 DEF OInv, TypeOK
<1>4. OInv'
  BY <1>1, <1>3, DropKeeps
<1>5. Kept'
  BY <1>1, DropKeepsSettled DEF Kept
<1>6. QED  BY <1>4, <1>5 DEF IInv

LEMMA CallbackReturnsKeeps ==
  ASSUME IInv, CallbackReturns
  PROVE  IInv'
<1>1. /\ OInv /\ context' = context /\ object' = object /\ dev' = dev /\ fate' = fate
      /\ orderly' = (orderly /\ Settled) /\ orderly \in BOOLEAN
  BY DEF IInv, OInv, TypeOK, CallbackReturns
<1>2. ContextHandles' = ContextHandles
  BY <1>1 DEF ContextHandles
<1>3. Settled' <=> Settled
  BY <1>1 DEF Settled, Needed
<1>4. TypeOK'
  <2>1. orderly' \in BOOLEAN
    BY <1>1
  <2>2. QED  BY <1>1, <2>1 DEF OInv, TypeOK
<1>5. (DeadHoldNone /\ HeldOnce /\ NoTraces /\ NoContext /\ ContextUp)'
  BY <1>1, <1>2 DEF OInv, DeadHoldNone, HeldOnce, NoTraces, NoContext, ContextUp, Exists
<1>6. (KindsFit /\ UsesFit /\ QpsHeld /\ PortTold)'
  BY <1>1, <1>2 DEF OInv, KindsFit, UsesFit, QpsHeld, PortTold, Attached
<1>7. Clean'
  BY <1>1, <1>2 DEF OInv, Clean, Held, Exists
<1>8. Kept'
  BY <1>1, <1>3 DEF Kept
<1>9. QED  BY <1>4, <1>5, <1>6, <1>7, <1>8 DEF IInv, OInv

-----------------------------------------------------------------------------
(* All steps. *)

LEMMA MakeKeepsAll ==
  ASSUME IInv, MakeSendCq \/ MakeRecvCq \/ MakeQp \/ ConnectQp \/ MakeFails
  PROVE  IInv'
<1>1. OInv
  BY DEF IInv
<1>2. pc' # "returning"
  BY DEF MakeSendCq, MakeRecvCq, MakeQp, ConnectQp, MakeFails, Step
<1>3. OInv'
  <2>1. CASE MakeSendCq \/ MakeRecvCq
    BY <1>1, <2>1, Scope, CreateCqKeeps DEF MakeSendCq, MakeRecvCq
  <2>2. CASE MakeQp
    BY <1>1, <2>2, Scope, CreateQpKeeps DEF MakeQp
  <2>3. CASE ConnectQp
    BY <1>1, <2>3, Scope, ConnectKeeps DEF ConnectQp
  <2>4. CASE MakeFails
    BY <1>1, <2>4, Scope, PanicsKeep DEF MakeFails
  <2>5. QED  BY <2>1, <2>2, <2>3, <2>4
<1>4. QED  BY <1>2, <1>3 DEF IInv, Kept

LEMMA HandlerReturnsKeeps ==
  ASSUME IInv, HandlerReturns
  PROVE  IInv'
<1>1. OInv /\ UNCHANGED vars /\ pc' = "listening"
  BY DEF IInv, HandlerReturns, Step
<1>2. QED  BY <1>1, StutterKeeps DEF IInv, Kept

LEMMA CallbackStepKeeps ==
  ASSUME IInv, CallbackStep
  PROVE  IInv'
<1>1. OInv /\ pc' # "returning"
  BY DEF IInv, CallbackStep
<1>2. OInv'
  <2>1. CASE \E x \in Boxes, y \in Places : MoveConstruct(x, y) \/ MoveAssign(x, y)
    BY <1>1, <2>1, Scope, MoveConstructKeeps, MoveAssignKeeps
  <2>2. CASE \E x \in Boxes : Destroy(x)
    BY <1>1, <2>2, Scope, DestroyKeeps
  <2>3. QED  BY <2>1, <2>2 DEF CallbackStep
<1>3. QED  BY <1>1, <1>2 DEF IInv, Kept

LEMMA BoxStepKeeps ==
  ASSUME OInv, BoxStep
  PROVE  OInv'
<1>1. CASE \E x, y \in Boxes : MoveConstruct(x, y) \/ MoveAssign(x, y)
  BY <1>1, Scope, MoveConstructKeeps, MoveAssignKeeps
<1>2. CASE \E x \in Boxes : Destroy(x) \/ DestroyDangling(x) \/ UseMoved(x)
  BY <1>2, Scope, DestroyKeeps, PanicsKeep
<1>3. CASE \E x \in Boxes \cap CqPlaces : CreateCq(x)
  BY <1>3, CreateCqKeeps
<1>4. CASE \E x \in Boxes \cap QpPlaces, c \in Boxes \cap CqPlaces : CreateQp(x, c, c)
  BY <1>4, CreateQpKeeps
<1>5. CASE \E x \in Boxes \cap QpPlaces, p \in PortArgs : BindPort(x, p)
  BY <1>5, BindPortKeeps
<1>6. CASE \E x \in Boxes \cap QpPlaces, p \in PortArgs : BringUp(x, p)
  BY <1>6, BringUpKeeps
<1>7. CASE \E x \in Boxes \cap QpPlaces :
             \/ \E p \in PortArgs : BringUpPanics(x, p)
             \/ ConnectPanics(x) \/ InfoFails(x)
             \/ \E op \in Ops : PostPanics(x, op)
  BY <1>7, Scope, PanicsKeep
<1>8. QED
  BY <1>1, <1>2, <1>3, <1>4, <1>5, <1>6, <1>7 DEF BoxStep

LEMMA ApplicationStepKeeps ==
  ASSUME IInv, ApplicationStep
  PROVE  IInv'
<1>1. OInv /\ pc' # "returning"
  BY DEF IInv, ApplicationStep
<1>2. OInv'
  <2>1. CASE BoxStep
    BY <1>1, <2>1, BoxStepKeeps
  <2>2. CASE \E hinted \in Hints : OpenContext(hinted)
    BY <1>1, <2>2, Scope, OpenKeeps
  <2>3. CASE CloseContext
    BY <1>1, <2>3, CloseKeeps
  <2>4. QED  BY <2>1, <2>2, <2>3 DEF ApplicationStep
<1>3. QED  BY <1>1, <1>2 DEF IInv, Kept

LEMMA NextKeeps == IInv /\ [Next]_vars_all => IInv'
<1> SUFFICES ASSUME IInv, [Next]_vars_all PROVE IInv'
  OBVIOUS
<1>1. CASE MakeSendCq \/ MakeRecvCq \/ MakeQp \/ ConnectQp \/ MakeFails
  BY <1>1, MakeKeepsAll
<1>2. CASE CallbackReturns
  BY <1>2, CallbackReturnsKeeps
<1>3. CASE HandlerReturns
  BY <1>3, HandlerReturnsKeeps
<1>4. CASE \E x \in Params : DropParam(x)
  BY <1>4, DropParamKeeps
<1>5. CASE CallbackStep
  BY <1>5, CallbackStepKeeps
<1>6. CASE ApplicationStep
  BY <1>6, ApplicationStepKeeps
<1>7. CASE UNCHANGED vars_all
  <2>1. OInv' /\ UNCHANGED vars /\ pc' = pc
    BY <1>7, StutterKeeps DEF IInv, vars_all
  <2>2. Settled' <=> Settled
    BY <2>1 DEF Settled, Needed, vars
  <2>3. QED  BY <2>1, <2>2 DEF IInv, Kept, vars
<1>8. QED
  BY <1>1, <1>2, <1>3, <1>4, <1>5, <1>6, <1>7 DEF Next

(* The invariant that the following theorems rest on: what is alive holds  *)
(* its own handles, and each handle is of the kind its holder is for.      *)
THEOREM Invariance == Spec => []IInv
<1>1. QED  BY InitKeeps, NextKeeps, PTL DEF Spec

(* The objects and the device stay in their domains: a queue object never  *)
(* holds a queue pair's handle, nor the other way around.                  *)
THEOREM TypeCorrect == Spec => []TypeOK
<1>1. IInv => TypeOK
  BY DEF IInv, OInv
<1>2. QED  BY <1>1, Invariance, PTL

(* Moves and destructors never leave one handle with two objects, and never *)
(* lose a queue pair, a domain or the device: of all that the process does, *)
(* only ~rdma_cq leaks.                                                     *)
THEOREM OwnedOnceAlways == Spec => []OwnedOnce
<1>1. IInv => OwnedOnce
  <2> SUFFICES ASSUME IInv PROVE OwnedOnce
    OBVIOUS
  <2>1. TypeOK /\ HeldOnce /\ NoContext /\ ContextUp /\ QpsHeld
    BY DEF IInv, OInv
  <2>2. ASSUME NEW h \in Handles \ Held PROVE dev[h].kind \in {"none", "cq"}
    <3>1. dev[h].kind # "qp"
      BY <2>1, <2>2 DEF QpsHeld, Held, Places
    <3>2. dev[h].kind \notin {"context", "pd", "res_domain"}
      BY <2>1, <2>2 DEF NoContext, ContextUp, Held, ContextHandles, Exists, TypeOK
    <3>3. dev[h].kind \in Kinds
      BY <2>1, Types DEF Devices
    <3>4. QED  BY <3>1, <3>2, <3>3 DEF Kinds
  <2>3. QED  BY <2>1, <2>2 DEF OwnedOnce, HeldOnce
<1>2. QED  BY <1>1, Invariance, PTL

(* Which port get_info() tells of a queue pair that is up, on a device with *)
(* any number of ports and after any moves.                                 *)
THEOREM PortToldAlways == Spec => []PortTold
<1>1. IInv => PortTold
  BY DEF IInv, OInv
<1>2. QED  BY <1>1, Invariance, PTL

-----------------------------------------------------------------------------
(* A device with room for what the program may hold at one time. *)

Roomy ==
  /\ IsFiniteSet(Places) /\ IsFiniteSet(Handles)
  /\ Cardinality(Places) + 3 <= Cardinality(Handles)

NotFull == orderly => fate # "exhausted"

(* Only a constructor finds the device full. *)
LEMMA OnlyMakingExhausts ==
  ASSUME Next, fate' = "exhausted", fate # "exhausted"
  PROVE  MakeFails
<1>1. CASE BoxStep
  BY <1>1 DEF BoxStep, MoveConstruct, MoveAssign, Destroy, DestroyDangling, UseMoved,
     CreateCq, CreateQp, BindPort, BringUp, BringUpPanics, ConnectPanics, InfoFails,
     PostPanics, Release, Ends
<1>2. CASE ApplicationStep /\ ~ BoxStep
  BY <1>2 DEF ApplicationStep, OpenContext, CloseContext
<1>3. CASE CallbackStep
  BY <1>3 DEF CallbackStep, MoveConstruct, MoveAssign, Destroy, Release
<1>4. CASE MakeSendCq \/ MakeRecvCq \/ MakeQp \/ ConnectQp
  BY <1>4 DEF MakeSendCq, MakeRecvCq, MakeQp, ConnectQp, CreateCq, CreateQp, Connect
<1>5. CASE CallbackReturns \/ HandlerReturns \/ \E x \in Params : DropParam(x)
  BY <1>5 DEF CallbackReturns, HandlerReturns, DropParam, vars
<1>6. QED
  BY <1>1, <1>2, <1>3, <1>4, <1>5 DEF Next

(* Nothing makes a program orderly again. *)
LEMMA OrderlyWas ==
  ASSUME Next, orderly'
  PROVE  orderly
<1>1. CASE BoxStep
  BY <1>1 DEF BoxStep, MoveConstruct, MoveAssign, Destroy, DestroyDangling, UseMoved,
     CreateCq, CreateQp, BindPort, BringUp, BringUpPanics, ConnectPanics, InfoFails,
     PostPanics, Release, Ends
<1>2. CASE ApplicationStep /\ ~ BoxStep
  BY <1>2 DEF ApplicationStep, OpenContext, CloseContext
<1>3. CASE CallbackStep
  BY <1>3 DEF CallbackStep, MoveConstruct, MoveAssign, Destroy, Release
<1>4. CASE MakeSendCq \/ MakeRecvCq \/ MakeQp \/ ConnectQp \/ MakeFails
  BY <1>4 DEF MakeSendCq, MakeRecvCq, MakeQp, ConnectQp, MakeFails, CreateCq, CreateQp,
     Connect, CreateFails, Ends
<1>5. CASE CallbackReturns \/ HandlerReturns \/ \E x \in Params : DropParam(x)
  BY <1>5 DEF CallbackReturns, HandlerReturns, DropParam, vars
<1>6. QED
  BY <1>1, <1>2, <1>3, <1>4, <1>5 DEF Next

LEMMA NotFullKeeps ==
  ASSUME Roomy, IInv, NotFull, [Next]_vars_all
  PROVE  NotFull'
<1> SUFFICES ASSUME orderly', fate' = "exhausted" PROVE FALSE
  BY DEF NotFull
<1>1. CASE Next
  <2>1. orderly
    BY <1>1, OrderlyWas
  <2>2. MakeFails
    BY <1>1, <2>1, OnlyMakingExhausts DEF NotFull
  <2>3. PICK x \in Places : CreateFails(x)
    BY <2>2, Scope DEF MakeFails
  <2>4. CanMake(x) /\ Free = {}
    BY <2>3 DEF CreateFails
  <2>5. Cardinality(Places) + 2 < Cardinality(Handles)
    BY FS_CardinalityType DEF Roomy
  <2>6. QED  BY <2>1, <2>4, <2>5, RoomLeft DEF Roomy, IInv
<1>2. CASE UNCHANGED vars_all
  BY <1>2 DEF vars_all, vars, NotFull
<1>3. QED  BY <1>1, <1>2

(* A server whose callbacks and whose application keep the order of         *)
(* destruction leaks nothing, never touches a handle of a closed device,    *)
(* and never runs out of device objects, whatever order the compiler gives  *)
(* the destructors of the parameters: there need only be room for one       *)
(* handle of each object and the three of the context.                      *)
THEOREM OrderlyCleanAlways ==
  ASSUME IsFiniteSet(Places), IsFiniteSet(Handles),
         Cardinality(Places) + 3 <= Cardinality(Handles)
  PROVE  Spec => []OrderlyClean
<1>1. Roomy
  BY DEF Roomy
<1>2. InitAll => IInv /\ NotFull
  BY InitKeeps DEF InitAll, Init, NotFull
<1>3. (IInv /\ NotFull) /\ [Next]_vars_all => (IInv /\ NotFull)'
  BY <1>1, NextKeeps, NotFullKeeps
<1>4. IInv /\ NotFull => OrderlyClean
  BY DEF IInv, OInv, Clean, NotFull, OrderlyClean
<1>5. QED  BY <1>2, <1>3, <1>4, PTL DEF Spec
=============================================================================
