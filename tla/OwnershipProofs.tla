---------------------------- MODULE OwnershipProofs ----------------------------
(***************************************************************************)
(* Proofs about the operations of Ownership, for any device and any places *)
(* of objects: an invariant that all of them keep, whichever program calls *)
(* them.  CallbackScopeProofs uses it for the program of CallbackScope.    *)
(***************************************************************************)
EXTENDS Ownership, FiniteSetTheorems, WellFoundedInduction, TLAPS

(* Outside of its life an object holds nothing. *)
DeadHoldNone == \A x \in Places : ~ object[x].alive => object[x].h = Null

(* No handle is held by two objects. *)
HeldOnce ==
  \A x, y \in Places :
    (x # y /\ object[x].h # Null) => object[x].h # object[y].h

(* What does not exist has left no trace. *)
NoTraces == \A h \in Handles : ~ Exists(h) => dev[h] = NoDevice

(* Without a context the device is empty and, before it, so are the objects. *)
NoContext ==
  context.life # "alive" =>
    /\ ContextHandles = {Null}
    /\ \A h \in Handles : ~ Exists(h)
    /\ context.life = "unborn" => \A x \in Places : object[x].h = Null

(* The handles of a context, and no others, are of its three kinds. *)
ContextUp ==
  context.life = "alive" =>
    /\ context.ctx # Null /\ context.pd # Null
    /\ \A h \in Handles :
         /\ dev[h].kind = "context" <=> h = context.ctx
         /\ dev[h].kind = "pd" <=> h = context.pd
         /\ dev[h].kind = "res_domain" <=> h = context.rd

(* ... and the objects hold what they are for. *)
KindsFit ==
  context.life = "alive" =>
    /\ \A x \in CqPlaces : object[x].h # Null => dev[object[x].h].kind = "cq"
    /\ \A x \in QpPlaces : object[x].h # Null => dev[object[x].h].kind = "qp"

(* Everything but the context uses it, and only queue pairs use queues. *)
UsesFit ==
  \A h \in Handles :
    /\ dev[h].kind = "context" => dev[h].uses = {}
    /\ dev[h].kind \notin {"none", "context"} => context.ctx \in dev[h].uses
    /\ dev[h].kind # "qp" => dev[h].uses \subseteq ContextHandles
    /\ \A k \in dev[h].uses : k \in ContextHandles \/ dev[k].kind = "cq"

(* Only completion queues are ever leaked. *)
QpsHeld ==
  \A h \in Handles :
    dev[h].kind = "qp" => \E x \in QpPlaces : object[x].h = h

(* What the order of destruction is good for. *)
Clean ==
  orderly =>
    /\ \A h \in Handles : Exists(h) => h \in Held
    /\ context.life = "dead" => \A x \in Places : object[x].h = Null
    /\ fate # "dangling"

OInv ==
  /\ TypeOK
  /\ DeadHoldNone
  /\ HeldOnce
  /\ NoTraces
  /\ NoContext
  /\ ContextUp
  /\ KindsFit
  /\ UsesFit
  /\ QpsHeld
  /\ Clean
  /\ PortTold

-----------------------------------------------------------------------------
(* Handles and types. *)

LEMMA HandleFacts ==
  /\ Null \notin Handles /\ Handles \subseteq Nat /\ 1 \in 0..NPorts
  /\ 0 \in 0..NPorts /\ NPorts \in Nat
BY OwnershipAssumption DEF Null

(* Lowest picks an element. *)
LEMMA LowestIn ==
  ASSUME NEW S \in SUBSET Handles, S # {}
  PROVE  Lowest(S) \in S
<1> DEFINE R == OpToRel(<, Nat)
<1>1. IsWellFoundedOn(R, Nat)
  BY NatLessThanWellFounded
<1>2. S \subseteq Nat
  BY OwnershipAssumption
<1>3. PICK h \in S : \A k \in S : ~ (<<k, h>> \in R)
  <2> HIDE DEF R
  <2>1. QED  BY <1>1, <1>2, WFMin
<1>4. \A k \in S : h <= k
  <2> SUFFICES ASSUME NEW k \in S PROVE h <= k
    OBVIOUS
  <2>1. h \in Nat /\ k \in Nat
    BY <1>2
  <2>2. ~ (k < h)
    BY <1>3, <2>1 DEF OpToRel
  <2>3. QED  BY <2>1, <2>2
<1>5. QED  BY <1>4 DEF Lowest

Objects == [alive : BOOLEAN, h : Handles \cup {Null},
            port : PortArgs \cup {1}, moved : BOOLEAN]
Devices == [kind : Kinds, uses : SUBSET Handles, port : 0..NPorts]
Fates == {"running", "panicked", "exhausted", "dangling", "undefined"}

LEMMA Types ==
  TypeOK <=>
    /\ context \in [life : {"unborn", "alive", "dead"}, ctx : Handles \cup {Null},
                    pd : Handles \cup {Null}, rd : Handles \cup {Null}]
    /\ object \in [Places -> Objects]
    /\ dev \in [Handles -> Devices]
    /\ orderly \in BOOLEAN
    /\ fate \in Fates
    /\ \A x \in CqPlaces :
         object[x].h # Null => dev[object[x].h].kind \in {"cq", "none"}
    /\ \A x \in QpPlaces :
         object[x].h # Null => dev[object[x].h].kind \in {"qp", "none"}
BY DEF TypeOK, Objects, Devices, Fates

(* The constants Dead and NoDevice, and new objects. *)
LEMMA EmptyOnes ==
  /\ Dead \in Objects /\ ~ Dead.alive /\ Dead.h = Null
  /\ NoDevice \in Devices /\ NoDevice.kind = "none" /\ NoDevice.uses = {}
  /\ NoDevice.port = 0
BY HandleFacts DEF Dead, NoDevice, Objects, Devices, Kinds

(* A free handle is one that nothing has. *)
LEMMA FreeHandle ==
  ASSUME TypeOK, NEW S \in SUBSET Free, S # {}
  PROVE  /\ Lowest(S) \in S /\ Lowest(S) \in Handles /\ Lowest(S) # Null
         /\ ~ Exists(Lowest(S)) /\ Lowest(S) \notin ContextHandles
         /\ \A x \in Places : object[x].h # Lowest(S)
<1>1. S \in SUBSET Handles
  BY DEF Free
<1>2. Lowest(S) \in S
  BY <1>1, LowestIn
<1>3. Lowest(S) \in Free
  BY <1>2
<1>4. QED  BY <1>2, <1>3, HandleFacts DEF Free, Held

-----------------------------------------------------------------------------
(* Steps that leave objects and device alone. *)

LEMMA EndsKeeps ==
  ASSUME OInv, NEW f \in Fates, Ends(f), orderly => f # "dangling"
  PROVE  OInv'
<1>1. /\ fate' = f
      /\ context' = context /\ object' = object /\ dev' = dev
      /\ orderly' = orderly
  BY DEF Ends
<1>2. TypeOK'
  BY <1>1, Types DEF OInv, TypeOK, Fates
<1>3. (DeadHoldNone /\ HeldOnce /\ NoTraces /\ QpsHeld /\ KindsFit)'
  BY <1>1 DEF OInv, DeadHoldNone, HeldOnce, NoTraces, QpsHeld, KindsFit, Exists
<1>4. (NoContext /\ ContextUp /\ UsesFit)'
  BY <1>1 DEF OInv, NoContext, ContextUp, UsesFit, ContextHandles, Exists
<1>5. (Clean /\ PortTold)'
  BY <1>1 DEF OInv, Clean, PortTold, Exists, Held, ContextHandles, Attached
<1>6. QED  BY <1>2, <1>3, <1>4, <1>5 DEF OInv

(* Nothing changes. *)
LEMMA StutterKeeps ==
  ASSUME OInv, UNCHANGED vars
  PROVE  OInv'
<1>1. fate \in Fates /\ (orderly => fate # "dangling")
  BY DEF OInv, TypeOK, Fates, Clean
<1>2. Ends(fate)
  BY DEF vars, Ends
<1>3. QED  BY <1>1, <1>2, EndsKeeps

-----------------------------------------------------------------------------
(* The context. *)

LEMMA OpenKeeps ==
  ASSUME OInv, NEW hinted \in BOOLEAN, OpenContext(hinted)
  PROVE  OInv'
<1> DEFINE c == Lowest(Free)
           p == Lowest(Free \ {c})
           r == Lowest(Free \ {c, p})
<1>1. /\ fate = "running" /\ context.life = "unborn"
      /\ context' = [life |-> "alive", ctx |-> c, pd |-> p,
                     rd |-> IF hinted THEN r ELSE Null]
      /\ dev' = IF hinted THEN WithDomain(Opened(dev, c, p), c, r)
                ELSE Opened(dev, c, p)
      /\ object' = object /\ orderly' = orderly /\ fate' = fate
  BY DEF OpenContext
<1>2. TypeOK /\ NoContext /\ NoTraces
  BY DEF OInv
<1>3. /\ ContextHandles = {Null} /\ \A x \in Places : object[x].h = Null
      /\ \A h \in Handles : dev[h] = NoDevice
  BY <1>1, <1>2 DEF NoContext, NoTraces
<1>4. Free = Handles
  BY <1>3, HandleFacts, EmptyOnes DEF Free, Held, Exists
<1>5. /\ c \in Handles /\ p \in Handles /\ r \in Handles
      /\ c # p /\ p # r /\ r # c
      /\ c # Null /\ p # Null /\ r # Null
  <2>1. \E a, b, d \in Handles : a # b /\ b # d /\ d # a
    BY OwnershipAssumption
  <2>2. c \in Handles
    BY <1>4, <2>1, LowestIn
  <2>3. p \in Handles /\ p # c
    <3>1. Handles \ {c} # {} /\ Handles \ {c} \in SUBSET Handles
      BY <2>1
    <3> HIDE DEF c
    <3>2. Lowest(Handles \ {c}) \in Handles \ {c}
      BY <3>1, LowestIn
    <3>3. QED  BY <1>4, <3>2
  <2>4. r \in Handles /\ r # c /\ r # p
    <3> HIDE DEF c, p
    <3>1. Handles \ {c, p} # {} /\ Handles \ {c, p} \in SUBSET Handles
      BY <2>1
    <3>2. Lowest(Handles \ {c, p}) \in Handles \ {c, p}
      BY <3>1, LowestIn
    <3>3. QED  BY <1>4, <3>2 DEF r
  <2>5. QED  BY <2>2, <2>3, <2>4, HandleFacts
<1> HIDE DEF c, p, r
<1> DEFINE rd == IF hinted THEN r ELSE Null
<1>6. /\ context'.life = "alive" /\ context'.ctx = c /\ context'.pd = p
      /\ context'.rd = rd /\ (rd = r \/ rd = Null)
      /\ ContextHandles' = {c, p, rd}
  BY <1>1 DEF ContextHandles
<1>7. /\ dev' \in [Handles -> Devices]
      /\ dev'[c] = [kind |-> "context", uses |-> {}, port |-> 0]
      /\ dev'[p] = [kind |-> "pd", uses |-> {c}, port |-> 0]
      /\ rd # Null => dev'[r] = [kind |-> "res_domain", uses |-> {c}, port |-> 0]
      /\ \A h \in Handles \ {c, p, rd} : dev'[h] = NoDevice
  <2>1. dev \in [Handles -> Devices]
    BY <1>2, Types
  <2>2. /\ [kind |-> "context", uses |-> {}, port |-> 0] \in Devices
        /\ [kind |-> "pd", uses |-> {c}, port |-> 0] \in Devices
        /\ [kind |-> "res_domain", uses |-> {c}, port |-> 0] \in Devices
    BY <1>5, HandleFacts DEF Devices, Kinds
  <2>3. {c} \ {Null} = {c} /\ {} \ {Null} = {}
    BY <1>5
  <2>4. QED
    BY <1>1, <1>3, <1>5, <2>1, <2>2, <2>3 DEF WithDomain, Opened, Made
<1>8. TypeOK'
  <2>1. context' \in [life : {"unborn", "alive", "dead"}, ctx : Handles \cup {Null},
                      pd : Handles \cup {Null}, rd : Handles \cup {Null}]
    BY <1>1, <1>5
  <2>2. \A x \in Places : object'[x].h = Null
    BY <1>1, <1>3
  <2>3. QED  BY <1>1, <1>2, <1>7, <2>1, <2>2, Types DEF Places, TypeOK, Objects, Devices, Kinds
<1> HIDE DEF rd
<1>9. \A h \in Handles :
        /\ dev'[h].kind = "context" <=> h = c
        /\ dev'[h].kind = "pd" <=> h = p
        /\ dev'[h].kind = "res_domain" <=> h = rd
        /\ dev'[h].kind \in {"none", "context", "pd", "res_domain"}
        /\ dev'[h].kind = "none" => dev'[h] = NoDevice
        /\ dev'[h].uses = IF h = p \/ h = rd THEN {c} ELSE {}
  <2> SUFFICES ASSUME NEW h \in Handles
               PROVE  /\ dev'[h].kind = "context" <=> h = c
                      /\ dev'[h].kind = "pd" <=> h = p
                      /\ dev'[h].kind = "res_domain" <=> h = rd
                      /\ dev'[h].kind \in {"none", "context", "pd", "res_domain"}
                      /\ dev'[h].kind = "none" => dev'[h] = NoDevice
                      /\ dev'[h].uses = IF h = p \/ h = rd THEN {c} ELSE {}
    OBVIOUS
  <2>1. CASE h = c
    BY <1>5, <1>6, <1>7, <2>1
  <2>2. CASE h = p
    BY <1>5, <1>6, <1>7, <2>2
  <2>3. CASE h = rd
    BY <1>5, <1>6, <1>7, <2>3, HandleFacts
  <2>4. CASE h \notin {c, p, rd}
    BY <1>7, <2>4, EmptyOnes
  <2>5. QED  BY <2>1, <2>2, <2>3, <2>4
<1>10. (DeadHoldNone /\ HeldOnce /\ NoTraces /\ QpsHeld /\ KindsFit)'
  BY <1>1, <1>3, <1>9 DEF DeadHoldNone, HeldOnce, NoTraces, QpsHeld, KindsFit,
                          Exists, Places
<1>11. (NoContext /\ ContextUp)'
  BY <1>5, <1>6, <1>9 DEF NoContext, ContextUp
<1>12. UsesFit'
  BY <1>6, <1>9 DEF UsesFit
<1>13. (Clean /\ PortTold)'
  <2>1. \A h \in Handles : Exists(h)' => h \in {c, p, rd}
    BY <1>9 DEF Exists
  <2>2. Clean'
    BY <1>1, <1>6, <2>1 DEF Clean, Held
  <2>3. QED  BY <1>1, <1>3, <2>2 DEF PortTold, Places
<1>14. QED  BY <1>8, <1>10, <1>11, <1>12, <1>13 DEF OInv

(* Closing the device takes everything on it along. *)
LEMMA CloseKeeps ==
  ASSUME OInv, CloseContext
  PROVE  OInv'
<1> DEFINE d == Destroyed(Destroyed(dev, context.rd), context.pd)
<1>1. /\ fate = "running" /\ context.life = "alive"
      /\ dev' = Closed(d, context.ctx)
      /\ context' = [life |-> "dead", ctx |-> Null, pd |-> Null, rd |-> Null]
      /\ orderly' = (orderly /\ \A x \in Places : object[x].h = Null)
      /\ object' = object /\ fate' = fate
  BY DEF CloseContext
<1>2. TypeOK /\ NoTraces /\ ContextUp /\ UsesFit
  BY DEF OInv
<1>3. \A h \in Handles : d[h] = dev[h] \/ d[h] = NoDevice
  <2>1. dev \in [Handles -> Devices]
    BY <1>2, Types
  <2> DEFINE e == Destroyed(dev, context.rd)
  <2>2. /\ e \in [Handles -> Devices]
        /\ \A h \in Handles : e[h] = dev[h] \/ e[h] = NoDevice
    BY <2>1, EmptyOnes DEF Destroyed
  <2> HIDE DEF e
  <2>3. \A h \in Handles :
          Destroyed(e, context.pd)[h] = e[h] \/ Destroyed(e, context.pd)[h] = NoDevice
    BY <2>2 DEF Destroyed
  <2>4. QED  BY <2>2, <2>3 DEF e
<1> HIDE DEF d
<1>4. ASSUME NEW h \in Handles PROVE dev'[h] = NoDevice
  <2>1. dev'[h] = IF h = context.ctx \/ context.ctx \in d[h].uses
                    THEN NoDevice ELSE d[h]
    BY <1>1 DEF Closed
  <2>2. ASSUME d[h] = dev[h], h # context.ctx, context.ctx \notin dev[h].uses
        PROVE  dev[h] = NoDevice
    <3>1. dev[h].kind # "context"
      BY <1>1, <1>2, <2>2 DEF ContextUp
    <3>2. dev[h].kind = "none"
      BY <1>2, <2>2, <3>1 DEF UsesFit
    <3>3. QED  BY <1>2, <3>2 DEF NoTraces, Exists
  <2>3. QED  BY <1>3, <2>1, <2>2
<1>5. /\ \A h \in Handles : dev'[h].kind = "none" /\ dev'[h].uses = {} /\ dev'[h].port = 0
      /\ dev' \in [Handles -> Devices]
      /\ context'.life = "dead" /\ ContextHandles' = {Null}
      /\ orderly' => \A x \in Places : object[x].h = Null
      /\ orderly' => orderly /\ orderly' \in BOOLEAN
  BY <1>1, <1>4, EmptyOnes DEF ContextHandles, Closed
<1>6. TypeOK'
  <2>1. context' \in [life : {"unborn", "alive", "dead"}, ctx : Handles \cup {Null},
                      pd : Handles \cup {Null}, rd : Handles \cup {Null}]
    BY <1>1
  <2>2. orderly' \in BOOLEAN
    BY <1>1
  <2>3. /\ object' \in [Places -> Objects] /\ fate' \in Fates
        /\ \A x \in Places : object'[x].h \in Handles \cup {Null}
    BY <1>1, <1>2, Types DEF Objects
  <2>4. QED
    BY <1>5, <2>1, <2>2, <2>3 DEF Places, TypeOK, Objects, Devices, Fates
<1>7. (DeadHoldNone /\ HeldOnce)'
  BY <1>1 DEF OInv, DeadHoldNone, HeldOnce
<1>8. (NoTraces /\ NoContext /\ ContextUp /\ KindsFit /\ UsesFit /\ QpsHeld)'
  BY <1>4, <1>5, EmptyOnes
     DEF NoTraces, NoContext, ContextUp, KindsFit, UsesFit, QpsHeld, Exists
<1>9. Clean'
  BY <1>1, <1>5 DEF OInv, Clean, Exists
<1>10. PortTold'
  <2>1. \A x \in QpPlaces : object'[x].h # Null => object'[x].h \in Handles
    BY <1>1, <1>2, Types DEF Objects, Places
  <2>2. \A x \in QpPlaces : object'[x].h # Null => Attached(x)' = 0
    BY <1>5, <2>1 DEF Attached
  <2>3. QED  BY <2>2 DEF PortTold
<1>11. QED  BY <1>6, <1>7, <1>8, <1>9, <1>10 DEF OInv

-----------------------------------------------------------------------------
(* Construction of queues and queue pairs. *)

LEMMA MakeKeeps ==
  ASSUME OInv, NEW x \in Places, NEW kind \in {"cq", "qp"},
         NEW uses \in SUBSET Handles,
         CanMake(x), Free # {},
         x \in CqPlaces <=> kind = "cq", x \in QpPlaces <=> kind = "qp",
         context.ctx \in uses,
         kind = "cq" => uses \subseteq ContextHandles,
         \A k \in uses : k \in ContextHandles \/ dev[k].kind = "cq",
         dev' = [dev EXCEPT ![Lowest(Free)] = [kind |-> kind, uses |-> uses, port |-> 0]],
         object' = [object EXCEPT ![x] = Fresh(Lowest(Free))],
         UNCHANGED <<context, orderly, fate>>
  PROVE  OInv'
<1> DEFINE h == Lowest(Free)
           d == [kind |-> kind, uses |-> uses, port |-> 0]
<1>1. /\ TypeOK /\ DeadHoldNone /\ HeldOnce /\ NoTraces /\ ContextUp
      /\ KindsFit /\ UsesFit /\ QpsHeld /\ Clean /\ PortTold
      /\ context.life = "alive" /\ fate = "running" /\ ~ object[x].alive
  BY DEF OInv, CanMake
<1>2. /\ h \in Handles /\ h # Null /\ ~ Exists(h) /\ h \notin ContextHandles
      /\ \A y \in Places : object[y].h # h
  BY <1>1, FreeHandle
<1> HIDE DEF h
<1>3. /\ object \in [Places -> Objects] /\ dev \in [Handles -> Devices]
      /\ d \in Devices /\ Fresh(h) \in Objects
  BY <1>1, <1>2, Types, HandleFacts DEF Devices, Kinds, Fresh, Objects
<1>4. /\ dev' \in [Handles -> Devices] /\ dev'[h] = d
      /\ \A k \in Handles \ {h} : dev'[k] = dev[k]
      /\ d.kind = kind /\ d.uses = uses /\ d.port = 0
  BY <1>2, <1>3 DEF h
<1>5. /\ object' \in [Places -> Objects] /\ object'[x] = Fresh(h)
      /\ \A y \in Places \ {x} : object'[y] = object[y]
      /\ Fresh(h).alive /\ Fresh(h).h = h /\ ~ Fresh(h).moved
  BY <1>3 DEF h, Fresh
<1> HIDE DEF d
<1>6. /\ context' = context /\ orderly' = orderly /\ fate' = fate
      /\ ContextHandles' = ContextHandles
  BY DEF ContextHandles
<1>7. \A y \in Places : object[y].h \in Handles \cup {Null}
  BY <1>3 DEF Objects
<1>8. ASSUME NEW y \in Places, object'[y].h # Null
      PROVE  \/ y = x /\ dev'[object'[y].h] = d
             \/ /\ y # x /\ object'[y].h = object[y].h
                /\ dev'[object'[y].h] = dev[object[y].h]
  BY <1>2, <1>4, <1>5, <1>7, <1>8
<1>9. TypeOK'
  <2>1. \A y \in CqPlaces :
          object'[y].h # Null => dev'[object'[y].h].kind \in {"cq", "none"}
    BY <1>1, <1>4, <1>8 DEF TypeOK, Places
  <2>2. \A y \in QpPlaces :
          object'[y].h # Null => dev'[object'[y].h].kind \in {"qp", "none"}
    BY <1>1, <1>4, <1>8 DEF TypeOK, Places
  <2>3. QED
    BY <1>1, <1>4, <1>5, <1>6, <2>1, <2>2 DEF TypeOK, Objects, Devices
<1>10. (DeadHoldNone /\ HeldOnce)'
  BY <1>1, <1>2, <1>5 DEF DeadHoldNone, HeldOnce
<1>11. (NoTraces /\ NoContext)'
  BY <1>1, <1>4, <1>6 DEF NoTraces, NoContext, Exists
<1>12. ContextUp'
  <2>1. h # context.ctx /\ h # context.pd /\ h # context.rd
    BY <1>2 DEF ContextHandles
  <2>2. QED  BY <1>1, <1>4, <1>6, <2>1 DEF ContextUp
<1>13. KindsFit'
  BY <1>1, <1>4, <1>6, <1>8 DEF KindsFit, Places
<1>14. UsesFit'
  <2>1. \A k \in Handles : dev[k].uses \subseteq Handles
    BY <1>3 DEF Devices
  <2>2. ASSUME NEW k \in Handles, k \in ContextHandles \/ dev[k].kind = "cq"
        PROVE  k \in ContextHandles' \/ dev'[k].kind = "cq"
    BY <1>2, <1>4, <1>6, <2>2 DEF Exists
  <2>3. ASSUME NEW k \in Handles
        PROVE  /\ dev'[k].kind = "context" => dev'[k].uses = {}
               /\ dev'[k].kind \notin {"none", "context"} =>
                    context'.ctx \in dev'[k].uses
               /\ dev'[k].kind # "qp" => dev'[k].uses \subseteq ContextHandles'
               /\ \A j \in dev'[k].uses :
                    j \in ContextHandles' \/ dev'[j].kind = "cq"
    <3>1. CASE k = h
      BY <1>4, <1>6, <2>2, <3>1
    <3>2. CASE k # h
      BY <1>1, <1>4, <1>6, <2>1, <2>2, <3>2 DEF UsesFit
    <3>3. QED  BY <3>1, <3>2
  <2>4. QED  BY <2>3 DEF UsesFit
<1>15. QpsHeld'
  <2>1. ASSUME NEW k \in Handles, dev'[k].kind = "qp"
        PROVE  \E y \in QpPlaces : object'[y].h = k
    <3>1. CASE k = h
      BY <1>4, <1>5, <2>1, <3>1
    <3>2. CASE k # h
      <4>1. PICK y \in QpPlaces : object[y].h = k
        BY <1>1, <1>4, <2>1, <3>2 DEF QpsHeld
      <4>2. y # x
        BY <1>1, <4>1, HandleFacts DEF DeadHoldNone
      <4>3. QED  BY <1>5, <4>1, <4>2 DEF Places
    <3>3. QED  BY <3>1, <3>2
  <2>2. QED  BY <2>1 DEF QpsHeld
<1>16. Clean'
  <2>1. ASSUME orderly, NEW k \in Handles, Exists(k)' PROVE k \in Held'
    <3>1. CASE k = h
      BY <1>5, <3>1 DEF Held
    <3>2. CASE k # h
      <4>1. k \in Held
        BY <1>1, <1>4, <2>1, <3>2 DEF Clean, Exists
      <4>2. CASE k \in ContextHandles
        BY <1>6, <4>2 DEF Held
      <4>3. CASE k \notin ContextHandles
        <5>1. PICK y \in Places : object[y].h = k
          BY <4>1, <4>3 DEF Held
        <5>2. y # x
          BY <1>1, <5>1, HandleFacts DEF DeadHoldNone
        <5>3. object'[y].h = k
          BY <1>5, <5>1, <5>2
        <5>4. QED  BY <5>3 DEF Held
      <4>4. QED  BY <4>2, <4>3
    <3>3. QED  BY <3>1, <3>2
  <2>2. QED  BY <1>1, <1>6, <2>1 DEF Clean
<1>17. PortTold'
  BY <1>1, <1>4, <1>5, <1>8 DEF PortTold, Attached, Datagram, Places
<1>18. QED
  BY <1>9, <1>10, <1>11, <1>12, <1>13, <1>14, <1>15, <1>16, <1>17 DEF OInv

LEMMA CreateCqKeeps ==
  ASSUME OInv, NEW x \in CqPlaces, CreateCq(x)
  PROVE  OInv'
<1> DEFINE uses == {context.ctx, context.rd} \ {Null}
<1>1. /\ CanMake(x) /\ Free # {} /\ TypeOK /\ ContextUp
      /\ dev' = [dev EXCEPT ![Lowest(Free)] =
                   [kind |-> "cq", uses |-> uses, port |-> 0]]
      /\ object' = [object EXCEPT ![x] = Fresh(Lowest(Free))]
      /\ UNCHANGED <<context, orderly, fate>>
  BY DEF OInv, CreateCq, Made
<1>2. context.ctx \in uses /\ uses \in SUBSET Handles
  BY <1>1 DEF CanMake, ContextUp, TypeOK
<1>3. uses \subseteq ContextHandles
  BY DEF ContextHandles
<1>4. x \in Places /\ x \notin QpPlaces
  BY OwnershipAssumption DEF Places
<1> HIDE DEF uses
<1>5. QED  BY <1>1, <1>2, <1>3, <1>4, MakeKeeps

LEMMA CreateQpKeeps ==
  ASSUME OInv, NEW x \in QpPlaces, NEW s \in CqPlaces, NEW r \in CqPlaces,
         CreateQp(x, s, r)
  PROVE  OInv'
<1> DEFINE queues == {object[s].h, object[r].h}
           uses == (queues \cup ContextHandles) \ {Null}
<1>1. /\ CanMake(x) /\ Free # {} /\ TypeOK /\ ContextUp /\ KindsFit
      /\ Null \notin queues
      /\ dev' = [dev EXCEPT ![Lowest(Free)] =
                   [kind |-> "qp", uses |-> uses, port |-> 0]]
      /\ object' = [object EXCEPT ![x] = Fresh(Lowest(Free))]
      /\ UNCHANGED <<context, orderly, fate>>
  BY DEF OInv, CreateQp, Made
<1>2. context.ctx \in uses
  BY <1>1 DEF CanMake, ContextUp, ContextHandles
<1>3. uses \in SUBSET Handles
  <2>1. s \in Places /\ r \in Places
    BY DEF Places
  <2>2. object[s].h \in Handles \cup {Null} /\ object[r].h \in Handles \cup {Null}
    BY <1>1, <2>1, Types DEF Objects
  <2>3. ContextHandles \subseteq Handles \cup {Null}
    BY <1>1 DEF ContextHandles, TypeOK
  <2>4. QED  BY <2>2, <2>3
<1>4. \A k \in uses : k \in ContextHandles \/ dev[k].kind = "cq"
  BY <1>1 DEF CanMake, KindsFit
<1>5. x \in Places /\ x \notin CqPlaces
  BY OwnershipAssumption DEF Places
<1> HIDE DEF uses
<1>6. QED  BY <1>1, <1>2, <1>3, <1>4, <1>5, MakeKeeps

-----------------------------------------------------------------------------
(* Destruction and moves. *)

(* What an object holds is destroyed, unless the device refuses; queue     *)
(* pairs never are refused, nor are queues that no queue pair needs.       *)
LEMMA DestroyedEffect ==
  ASSUME OInv, NEW x \in Places
  PROVE  /\ Destroyed(dev, object[x].h) \in [Handles -> Devices]
         /\ \A h \in Handles :
              \/ Destroyed(dev, object[x].h)[h] = dev[h]
              \/ /\ h = object[x].h /\ ~ \E u \in Handles : h \in dev[u].uses
                 /\ Destroyed(dev, object[x].h)[h] = NoDevice
         /\ (object[x].h # Null /\ (x \in QpPlaces \/ ~ Needed(x))) =>
              Destroyed(dev, object[x].h)[object[x].h] = NoDevice
<1> DEFINE h == object[x].h
           d == Destroyed(dev, h)
<1>1. /\ dev \in [Handles -> Devices] /\ h \in Handles \cup {Null}
      /\ d = IF h = Null \/ \E u \in Handles : h \in dev[u].uses
               THEN dev ELSE [dev EXCEPT ![h] = NoDevice]
  BY Types DEF OInv, Objects, Destroyed
<1>2. ASSUME h # Null, NEW u \in Handles, h \in dev[u].uses
      PROVE  x \notin QpPlaces /\ Needed(x)
  <2>1. /\ KindsFit /\ ContextUp /\ UsesFit /\ QpsHeld /\ NoContext /\ NoTraces
    BY DEF OInv
  <2>2. context.life = "alive"
    <3>1. CASE context.life # "alive"
      <4>1. dev[u].uses = {}
        BY <2>1, <3>1, EmptyOnes DEF NoContext, NoTraces
      <4>2. QED  BY <1>2, <4>1
    <3>2. QED  BY <3>1
  <2>3. h \in Handles
    BY <1>1, <1>2
  <2>4. h \notin ContextHandles
    <3>1. dev[h].kind \in {"cq", "qp"}
      BY <1>2, <2>1, <2>2 DEF KindsFit, Places
    <3>2. QED  BY <2>1, <2>2, <2>3, <3>1, HandleFacts DEF ContextUp, ContextHandles
  <2>5. dev[h].kind = "cq" /\ dev[u].kind = "qp"
    BY <1>2, <2>1, <2>4 DEF UsesFit
  <2>6. x \notin QpPlaces
    BY <1>2, <2>1, <2>2, <2>5 DEF KindsFit
  <2>7. PICK q \in QpPlaces : object[q].h = u
    BY <2>1, <2>5 DEF QpsHeld
  <2>8. QED  BY <1>2, <2>6, <2>7 DEF Needed
<1>3. d \in [Handles -> Devices]
  BY <1>1, EmptyOnes
<1>4. \A k \in Handles :
        \/ d[k] = dev[k]
        \/ k = h /\ (~ \E u \in Handles : k \in dev[u].uses) /\ d[k] = NoDevice
  BY <1>1
<1>5. (h # Null /\ (x \in QpPlaces \/ ~ Needed(x))) => d[h] = NoDevice
  <2> SUFFICES ASSUME h # Null, x \in QpPlaces \/ ~ Needed(x)
               PROVE  d[h] = NoDevice
    OBVIOUS
  <2>1. ~ \E u \in Handles : h \in dev[u].uses
    BY <1>2
  <2> HIDE DEF h, d
  <2>2. QED  BY <1>1, <2>1
<1>6. QED  BY <1>3, <1>4, <1>5

Alike(w, z) ==
  /\ w \in CqPlaces <=> z \in CqPlaces
  /\ w \in QpPlaces <=> z \in QpPlaces

(* What x holds is destroyed; what the other objects hold stays with them  *)
(* or passes to objects of the same class.                                 *)
LEMMA ReleaseKeeps ==
  ASSUME OInv, NEW x \in Places,
         dev' = Destroyed(dev, object[x].h),
         UNCHANGED <<context, fate>>,
         orderly' \in BOOLEAN, orderly' => orderly /\ ~ Needed(x),
         object' \in [Places -> Objects],
         \A z \in Places :
           \/ object'[z].h = Null
           \/ \E w \in Places \ {x} : Alike(w, z) /\ object'[z].h = object[w].h,
         \A w \in Places \ {x} :
           object[w].h # Null =>
             \E z \in Places : Alike(w, z) /\ object'[z].h = object[w].h,
         (DeadHoldNone /\ HeldOnce /\ PortTold)'
  PROVE  OInv'
<1> DEFINE h == object[x].h
<1>1. /\ TypeOK /\ HeldOnce /\ NoTraces /\ NoContext /\ ContextUp
      /\ KindsFit /\ UsesFit /\ QpsHeld /\ Clean
  BY DEF OInv
<1>2. /\ dev' \in [Handles -> Devices]
      /\ \A k \in Handles :
           \/ dev'[k] = dev[k]
           \/ /\ k = h /\ ~ \E u \in Handles : k \in dev[u].uses
              /\ dev'[k] = NoDevice
      /\ (h # Null /\ (x \in QpPlaces \/ ~ Needed(x))) => dev'[h] = NoDevice
  BY DestroyedEffect
<1>3. /\ context' = context /\ fate' = fate /\ ContextHandles' = ContextHandles
  BY DEF ContextHandles
<1>4. \A w \in Places : object[w].h \in Handles \cup {Null}
  BY <1>1, Types DEF Objects
<1>5. ASSUME NEW z \in Places, object'[z].h # Null
      PROVE  \E w \in Places \ {x} :
               /\ Alike(w, z) /\ object'[z].h = object[w].h
               /\ dev'[object'[z].h] = dev[object[w].h]
  <2>1. PICK w \in Places \ {x} : Alike(w, z) /\ object'[z].h = object[w].h
    BY <1>5
  <2>2. object[w].h # h /\ object[w].h \in Handles
    BY <1>1, <1>4, <1>5, <2>1 DEF HeldOnce
  <2>3. QED  BY <1>2, <2>1, <2>2
<1> HIDE DEF h
<1>6. TypeOK'
  <2>1. \A z \in CqPlaces :
          object'[z].h # Null => dev'[object'[z].h].kind \in {"cq", "none"}
    BY <1>1, <1>5 DEF TypeOK, Places, Alike
  <2>2. \A z \in QpPlaces :
          object'[z].h # Null => dev'[object'[z].h].kind \in {"qp", "none"}
    BY <1>1, <1>5 DEF TypeOK, Places, Alike
  <2>3. QED
    BY <1>1, <1>2, <1>3, <2>1, <2>2 DEF TypeOK, Objects, Devices
<1>7. \A k \in Handles : dev'[k] = dev[k] \/ dev'[k] = NoDevice
  BY <1>2
<1>8. (NoTraces /\ NoContext)'
  <2>1. NoTraces'
    BY <1>1, <1>7, EmptyOnes DEF NoTraces, Exists
  <2>2. \A k \in Handles : ~ Exists(k) => ~ Exists(k)'
    BY <1>7, EmptyOnes DEF Exists
  <2>3. context.life = "unborn" => \A z \in Places : object'[z].h = Null
    <3> SUFFICES ASSUME context.life = "unborn", NEW z \in Places,
                        object'[z].h # Null
                 PROVE  FALSE
      OBVIOUS
    <3>1. \A w \in Places : object[w].h = Null
      BY <1>1 DEF NoContext
    <3>2. QED  BY <1>5, <3>1
  <2>4. QED  BY <1>1, <1>3, <2>1, <2>2, <2>3 DEF NoContext
<1>9. ContextUp'
  <2> SUFFICES ASSUME context.life = "alive" PROVE ContextUp'
    BY <1>3 DEF ContextUp
  <2>1. h \notin ContextHandles \ {Null}
    <3>1. h # Null => dev[h].kind \in {"cq", "qp"}
      BY <1>1 DEF KindsFit, Places, h
    <3>2. h # Null => h \in Handles
      BY <1>4 DEF h
    <3>3. QED  BY <1>1, <3>1, <3>2 DEF ContextUp, ContextHandles
  <2>2. \A k \in Handles : k \in ContextHandles => dev'[k] = dev[k]
    BY <1>2, <2>1, HandleFacts
  <2>3. ASSUME NEW k \in Handles
        PROVE  /\ dev'[k].kind = "context" <=> k = context.ctx
               /\ dev'[k].kind = "pd" <=> k = context.pd
               /\ dev'[k].kind = "res_domain" <=> k = context.rd
    <3>1. CASE dev'[k] = dev[k]
      BY <1>1, <3>1 DEF ContextUp
    <3>2. CASE dev'[k] # dev[k]
      <4>1. dev'[k].kind = "none" /\ k \notin ContextHandles
        BY <1>7, <2>2, <3>2, EmptyOnes
      <4>2. QED  BY <4>1 DEF ContextHandles
    <3>3. QED  BY <3>1, <3>2
  <2>4. QED  BY <1>1, <1>3, <2>3 DEF ContextUp
<1>10. KindsFit'
  BY <1>1, <1>3, <1>5 DEF KindsFit, Places, Alike
<1>11. UsesFit'
  <2>1. \A k \in Handles : dev[k].uses \subseteq Handles
    BY <1>1, Types DEF Devices
  <2>2. \A u \in Handles : \A k \in dev[u].uses : dev'[k] = dev[k]
    BY <1>2, <2>1
  <2>3. ASSUME NEW k \in Handles
        PROVE  /\ dev'[k].kind = "context" => dev'[k].uses = {}
               /\ dev'[k].kind \notin {"none", "context"} =>
                    context'.ctx \in dev'[k].uses
               /\ dev'[k].kind # "qp" => dev'[k].uses \subseteq ContextHandles'
               /\ \A j \in dev'[k].uses :
                    j \in ContextHandles' \/ dev'[j].kind = "cq"
    <3>1. CASE dev'[k] = dev[k]
      BY <1>1, <1>3, <2>2, <3>1 DEF UsesFit
    <3>2. CASE dev'[k] = NoDevice
      BY <3>2, EmptyOnes
    <3>3. QED  BY <1>7, <3>1, <3>2
  <2>4. QED  BY <2>3 DEF UsesFit
<1>12. ASSUME NEW k \in Handles, Exists(k)', NEW w \in Places, object[w].h = k,
              w # x
       PROVE  \E z \in Places : Alike(w, z) /\ object'[z].h = k
  BY <1>12, HandleFacts
<1>13. QpsHeld'
  <2>1. ASSUME NEW k \in Handles, dev'[k].kind = "qp"
        PROVE  \E z \in QpPlaces : object'[z].h = k
    <3>1. dev'[k] = dev[k]
      BY <1>7, <2>1, EmptyOnes
    <3>2. PICK w \in QpPlaces : object[w].h = k
      BY <1>1, <2>1, <3>1 DEF QpsHeld
    <3>3. w # x
      BY <1>2, <2>1, <3>2, EmptyOnes, HandleFacts DEF h
    <3>4. Exists(k)' /\ w \in Places
      BY <2>1 DEF Exists, Places
    <3>5. QED  BY <1>12, <3>2, <3>3, <3>4 DEF Alike
  <2>2. QED  BY <2>1 DEF QpsHeld
<1>14. Clean'
  <2> SUFFICES ASSUME orderly'
               PROVE  /\ \A k \in Handles : Exists(k)' => k \in Held'
                      /\ context'.life = "dead" =>
                           \A z \in Places : object'[z].h = Null
                      /\ fate' # "dangling"
    BY DEF Clean
  <2>1. orderly /\ ~ Needed(x)
    OBVIOUS
  <2>2. ASSUME NEW k \in Handles, Exists(k)' PROVE k \in Held'
    <3>1. Exists(k) /\ k # h
      BY <1>2, <2>1, <2>2, EmptyOnes, HandleFacts DEF Exists
    <3>2. k \in Held
      BY <1>1, <2>1, <3>1 DEF Clean
    <3>3. CASE k \in ContextHandles
      BY <1>3, <3>3 DEF Held
    <3>4. CASE k \notin ContextHandles
      <4>1. PICK w \in Places : object[w].h = k
        BY <3>2, <3>4 DEF Held
      <4>2. w # x
        BY <3>1, <4>1 DEF h
      <4>3. PICK z \in Places : object'[z].h = k
        BY <1>12, <2>2, <4>1, <4>2
      <4>4. QED  BY <4>3 DEF Held
    <3>5. QED  BY <3>3, <3>4
  <2>3. context.life = "dead" => \A z \in Places : object'[z].h = Null
    <3> SUFFICES ASSUME context.life = "dead", NEW z \in Places,
                        object'[z].h # Null
                 PROVE  FALSE
      OBVIOUS
    <3>1. \A w \in Places : object[w].h = Null
      BY <1>1, <2>1 DEF Clean
    <3>2. QED  BY <1>5, <3>1
  <2>4. QED  BY <1>1, <1>3, <2>1, <2>2, <2>3 DEF Clean
<1>15. QED
  BY <1>6, <1>8, <1>9, <1>10, <1>11, <1>13, <1>14 DEF OInv

(* An object is destroyed. *)
LEMMA DropKeeps ==
  ASSUME OInv, NEW x \in Places,
         dev' = Destroyed(dev, object[x].h),
         object' = [object EXCEPT ![x] = Dead],
         UNCHANGED <<context, fate>>,
         orderly' \in BOOLEAN, orderly' => orderly /\ ~ Needed(x)
  PROVE  OInv'
<1>1. /\ object \in [Places -> Objects] /\ HeldOnce /\ DeadHoldNone /\ PortTold
  BY Types DEF OInv
<1>2. /\ object' \in [Places -> Objects] /\ object'[x] = Dead
      /\ \A z \in Places \ {x} : object'[z] = object[z]
  BY <1>1, EmptyOnes
<1>3. /\ \A z \in Places :
           \/ object'[z].h = Null
           \/ \E w \in Places \ {x} : Alike(w, z) /\ object'[z].h = object[w].h
      /\ \A w \in Places \ {x} :
           object[w].h # Null =>
             \E z \in Places : Alike(w, z) /\ object'[z].h = object[w].h
  BY <1>2, EmptyOnes DEF Alike
<1>4. (DeadHoldNone /\ HeldOnce)'
  BY <1>1, <1>2, EmptyOnes DEF DeadHoldNone, HeldOnce
<1>5. PortTold'
  <2> SUFFICES ASSUME NEW z \in QpPlaces, object'[z].h # Null, Attached(z)' # 0
               PROVE  /\ (Datagram(z) /\ ~ object'[z].moved) =>
                           object'[z].port = Attached(z)'
                      /\ (Datagram(z) /\ object'[z].moved) => object'[z].port = 1
                      /\ ~ Datagram(z) => Attached(z)' = 1
    BY DEF PortTold, Datagram
  <2>1. z # x /\ z \in Places /\ object'[z] = object[z]
    BY <1>2, EmptyOnes DEF Places
  <2>2. object[z].h # object[x].h /\ object[z].h \in Handles
    BY <1>1, <2>1 DEF HeldOnce, Objects
  <2>3. dev'[object[z].h] = dev[object[z].h]
    BY <2>2, DestroyedEffect
  <2>4. QED  BY <1>1, <2>1, <2>3 DEF PortTold, Attached
<1>6. QED  BY <1>2, <1>3, <1>4, <1>5, ReleaseKeeps

(* x takes over what y holds, and what it held itself is destroyed. *)
LEMMA HandOverKeeps ==
  ASSUME OInv, NEW x \in Places, NEW y \in Places, x # y, SameClass(x, y),
         object[y].alive,
         dev' = Destroyed(dev, object[x].h),
         object' = [object EXCEPT ![x] = Moved(y), ![y].h = Null],
         UNCHANGED <<context, fate>>,
         orderly' \in BOOLEAN, orderly' => orderly /\ ~ Needed(x)
  PROVE  OInv'
<1>1. /\ object \in [Places -> Objects] /\ HeldOnce /\ DeadHoldNone /\ PortTold
  BY Types DEF OInv
<1>2. /\ Alike(x, y) /\ Alike(y, x)
      /\ x \in QpPlaces => y \in QpPlaces /\ (Datagram(x) <=> Datagram(y))
  BY OwnershipAssumption DEF SameClass, Alike, Datagram
<1>3. /\ Moved(y) \in Objects /\ Moved(y).h = object[y].h /\ Moved(y).alive
      /\ Moved(y).port = 1
      /\ y \in QpPlaces => (Moved(y).moved <=> Datagram(y))
  <2>1. object[y].h \in Handles \cup {Null}
    BY <1>1 DEF Objects
  <2>2. Fresh(object[y].h) \in Objects
    BY <2>1 DEF Fresh, Objects
  <2>3. (y \in QpPlaces /\ Datagram(y)) \in BOOLEAN
    BY DEF Datagram
  <2>4. QED  BY <2>1, <2>2, <2>3 DEF Moved, Fresh, Objects
<1>4. /\ object' \in [Places -> Objects] /\ object'[x] = Moved(y)
      /\ object'[y].h = Null /\ object'[y].alive = object[y].alive
      /\ \A z \in Places \ {x, y} : object'[z] = object[z]
  <2>1. object' = [object EXCEPT ![x] = Moved(y),
                                 ![y] = [object[y] EXCEPT !.h = Null]]
    BY <1>1
  <2>2. [object[y] EXCEPT !.h = Null] \in Objects
    BY <1>1 DEF Objects
  <2>3. QED  BY <1>1, <1>3, <2>1, <2>2 DEF Objects
<1>5. /\ \A z \in Places :
           \/ object'[z].h = Null
           \/ \E w \in Places \ {x} : Alike(w, z) /\ object'[z].h = object[w].h
      /\ \A w \in Places \ {x} :
           object[w].h # Null =>
             \E z \in Places : Alike(w, z) /\ object'[z].h = object[w].h
  <2>1. ASSUME NEW z \in Places, object'[z].h # Null
        PROVE  \E w \in Places \ {x} : Alike(w, z) /\ object'[z].h = object[w].h
    <3>1. CASE z = x
      BY <1>2, <1>3, <1>4, <3>1
    <3>2. CASE z # x
      BY <1>4, <2>1, <3>2 DEF Alike
    <3>3. QED  BY <3>1, <3>2
  <2>2. ASSUME NEW w \in Places \ {x}
        PROVE  \E z \in Places : Alike(w, z) /\ object'[z].h = object[w].h
    <3>1. CASE w = y
      BY <1>2, <1>3, <1>4, <3>1
    <3>2. CASE w # y
      BY <1>4, <3>2 DEF Alike
    <3>3. QED  BY <3>1, <3>2
  <2>3. QED  BY <2>1, <2>2
<1>6. (DeadHoldNone /\ HeldOnce)'
  <2>1. \A z \in Places : ~ object'[z].alive => object'[z].h = Null
    BY <1>1, <1>3, <1>4 DEF DeadHoldNone
  <2>2. \A z, w \in Places :
          (z # w /\ object'[z].h # Null) => object'[z].h # object'[w].h
    BY <1>1, <1>3, <1>4 DEF HeldOnce
  <2>3. QED  BY <2>1, <2>2 DEF DeadHoldNone, HeldOnce
<1>7. PortTold'
  <2> SUFFICES ASSUME NEW z \in QpPlaces, object'[z].h # Null, Attached(z)' # 0
               PROVE  /\ (Datagram(z) /\ ~ object'[z].moved) =>
                           object'[z].port = Attached(z)'
                      /\ (Datagram(z) /\ object'[z].moved) => object'[z].port = 1
                      /\ ~ Datagram(z) => Attached(z)' = 1
    BY DEF PortTold, Datagram
  <2>1. ASSUME NEW w \in Places \ {x}, object[w].h # Null
        PROVE  dev'[object[w].h] = dev[object[w].h]
    <3>1. object[w].h # object[x].h /\ object[w].h \in Handles
      BY <1>1, <2>1 DEF HeldOnce, Objects
    <3>2. QED  BY <3>1, DestroyedEffect
  <2>2. CASE z = x
    <3>1. y \in QpPlaces /\ object[y].h # Null /\ object'[z].h = object[y].h
      BY <1>2, <1>3, <1>4, <2>2
    <3>2. Attached(z)' = Attached(y)
      BY <2>1, <3>1 DEF Attached
    <3>3. QED  BY <1>1, <1>2, <1>3, <1>4, <2>2, <3>1, <3>2 DEF PortTold
  <2>3. CASE z # x
    <3>1. z \in Places /\ z # y /\ object'[z] = object[z]
      BY <1>4, <2>3 DEF Places
    <3>2. Attached(z)' = Attached(z)
      BY <2>1, <2>3, <3>1 DEF Attached
    <3>3. QED  BY <1>1, <3>1, <3>2 DEF PortTold
  <2>4. QED  BY <2>2, <2>3
<1>8. QED  BY <1>4, <1>5, <1>6, <1>7, ReleaseKeeps

LEMMA DestroyKeeps ==
  ASSUME OInv, NEW x \in Places, Destroy(x)
  PROVE  OInv'
<1>1. orderly' \in BOOLEAN /\ (orderly' => orderly /\ ~ Needed(x))
  BY DEF Destroy, Release, OInv, TypeOK, Needed
<1>2. QED  BY <1>1, DropKeeps DEF Destroy, Release

LEMMA MoveAssignKeeps ==
  ASSUME OInv, NEW x \in Places, NEW y \in Places, MoveAssign(x, y)
  PROVE  OInv'
<1>1. orderly' \in BOOLEAN /\ (orderly' => orderly /\ ~ Needed(x))
  BY DEF MoveAssign, Release, OInv, TypeOK, Needed
<1>2. QED  BY <1>1, HandOverKeeps DEF MoveAssign, Release

LEMMA MoveConstructKeeps ==
  ASSUME OInv, NEW x \in Places, NEW y \in Places, MoveConstruct(x, y)
  PROVE  OInv'
<1>1. /\ object[y].alive /\ ~ object[x].alive /\ SameClass(x, y)
      /\ object' = [object EXCEPT ![x] = Moved(y), ![y].h = Null]
      /\ UNCHANGED <<context, dev, orderly, fate>>
  BY DEF MoveConstruct, Running
<1>2. x # y /\ object[x].h = Null
  BY <1>1 DEF OInv, DeadHoldNone
<1>3. ~ Needed(x)
  <2>1. \A h \in Handles : dev[h].uses \subseteq Handles
    BY Types DEF OInv, Devices
  <2>2. QED  BY <1>2, <2>1, HandleFacts DEF Needed
<1>4. dev' = Destroyed(dev, object[x].h)
  BY <1>1, <1>2 DEF Destroyed
<1>5. orderly' \in BOOLEAN /\ (orderly' => orderly /\ ~ Needed(x))
  BY <1>1, <1>3 DEF OInv, TypeOK
<1>6. QED  BY <1>1, <1>2, <1>4, <1>5, HandOverKeeps

(* No handle outlives its context in an orderly program. *)
LEMMA OrderlyNeverDangles ==
  ASSUME OInv, NEW x \in Places,
         Dangling(x) \/ (object[x].h # Null /\ context.life = "dead")
  PROVE  ~ orderly
<1>1. /\ TypeOK /\ NoContext /\ KindsFit /\ Clean
  BY DEF OInv
<1>2. CASE object[x].h # Null /\ context.life = "dead"
  BY <1>1, <1>2 DEF Clean
<1>3. CASE Dangling(x)
  <2>1. context.life # "alive"
    BY <1>1, <1>3 DEF Dangling, Exists, KindsFit, Places
  <2>2. context.life # "unborn"
    BY <1>1, <1>3 DEF Dangling, NoContext
  <2>3. context.life = "dead"
    BY <1>1, <2>1, <2>2 DEF TypeOK
  <2>4. QED  BY <1>1, <1>3, <2>3 DEF Clean, Dangling
<1>4. QED  BY <1>2, <1>3

-----------------------------------------------------------------------------
(* Queue pairs in use. *)

(* A queue pair that comes up is attached to a port, and told of it if it  *)
(* is a datagram one.                                                      *)
LEMMA AttachKeeps ==
  ASSUME OInv, NEW x \in QpPlaces, NEW p \in 0..NPorts,
         object[x].h # Null, Exists(object[x].h),
         dev' = [dev EXCEPT ![object[x].h].port = p],
         \/ /\ Datagram(x) /\ p \in PortArgs
            /\ object' = [object EXCEPT ![x].port = p, ![x].moved = FALSE]
         \/ ~ Datagram(x) /\ p = 1 /\ object' = object,
         UNCHANGED <<context, orderly, fate>>
  PROVE  OInv'
<1> DEFINE h == object[x].h
<1>1. /\ TypeOK /\ DeadHoldNone /\ HeldOnce /\ NoTraces /\ NoContext
      /\ ContextUp /\ KindsFit /\ UsesFit /\ QpsHeld /\ Clean /\ PortTold
  BY DEF OInv
<1>2. /\ object \in [Places -> Objects] /\ dev \in [Handles -> Devices]
      /\ x \in Places /\ h \in Handles
  BY <1>1, Types DEF Places, Objects
<1>3. /\ dev' \in [Handles -> Devices]
      /\ dev'[h].kind = dev[h].kind /\ dev'[h].uses = dev[h].uses
      /\ dev'[h].port = p
      /\ \A k \in Handles \ {h} : dev'[k] = dev[k]
  <2>1. dev' = [dev EXCEPT ![h] = [dev[h] EXCEPT !.port = p]]
    BY <1>2
  <2>2. [dev[h] EXCEPT !.port = p] \in Devices
    BY <1>2 DEF Devices
  <2>3. QED  BY <1>2, <2>1, <2>2 DEF Devices
<1>4. /\ object' \in [Places -> Objects]
      /\ object'[x].h = h /\ object'[x].alive = object[x].alive
      /\ \A z \in Places \ {x} : object'[z] = object[z]
      /\ Datagram(x) => object'[x].port = p /\ ~ object'[x].moved
  <2>1. CASE Datagram(x)
    <3> DEFINE o == [alive |-> object[x].alive, h |-> h, port |-> p, moved |-> FALSE]
    <3>1. object' = [object EXCEPT ![x] = o]
      BY <1>2, <2>1 DEF Objects
    <3>2. o \in Objects
      BY <1>2, <2>1 DEF Objects
    <3>3. QED  BY <1>2, <3>1, <3>2
  <2>2. CASE ~ Datagram(x)
    BY <1>2, <2>2
  <2>3. QED  BY <2>1, <2>2
<1>5. /\ \A k \in Handles : dev'[k].kind = dev[k].kind /\ dev'[k].uses = dev[k].uses
      /\ \A z \in Places : object'[z].h = object[z].h /\ object'[z].alive = object[z].alive
      /\ \A z \in Places : object[z].h \in Handles \cup {Null}
      /\ context' = context /\ orderly' = orderly /\ fate' = fate
      /\ ContextHandles' = ContextHandles
  BY <1>2, <1>3, <1>4 DEF Objects, ContextHandles
<1>6. TypeOK'
  BY <1>1, <1>3, <1>4, <1>5 DEF TypeOK, Objects, Devices, Places
<1>7. (DeadHoldNone /\ HeldOnce /\ QpsHeld /\ KindsFit /\ ContextUp)'
  BY <1>1, <1>5 DEF DeadHoldNone, HeldOnce, QpsHeld, KindsFit, ContextUp, Places
<1>8. (NoTraces /\ NoContext)'
  <2>1. NoTraces'
    BY <1>1, <1>3 DEF NoTraces, Exists
  <2>2. QED  BY <1>1, <1>5, <2>1 DEF NoContext, Exists
<1>9. UsesFit'
  <2>1. \A k \in Handles : dev[k].uses \subseteq Handles
    BY <1>2 DEF Devices
  <2>2. QED  BY <1>1, <1>5, <2>1 DEF UsesFit
<1>10. Clean'
  <2>1. Held' = Held /\ \A k \in Handles : Exists(k)' <=> Exists(k)
    BY <1>5 DEF Held, Exists
  <2>2. QED  BY <1>1, <1>5, <2>1 DEF Clean
<1>11. PortTold'
  <2> SUFFICES ASSUME NEW z \in QpPlaces, object'[z].h # Null, Attached(z)' # 0
               PROVE  /\ (Datagram(z) /\ ~ object'[z].moved) =>
                           object'[z].port = Attached(z)'
                      /\ (Datagram(z) /\ object'[z].moved) => object'[z].port = 1
                      /\ ~ Datagram(z) => Attached(z)' = 1
    BY DEF PortTold, Datagram
  <2>1. CASE z = x
    BY <1>3, <1>4, <2>1 DEF Attached
  <2>2. CASE z # x
    <3>1. z \in Places /\ object'[z] = object[z] /\ object[z].h \in Handles
      BY <1>2, <1>4, <2>2 DEF Places, Objects
    <3>2. object[z].h # h
      BY <1>1, <1>2, <2>2, <3>1 DEF HeldOnce
    <3>3. Attached(z)' = Attached(z)
      BY <1>3, <3>1, <3>2 DEF Attached
    <3>4. QED  BY <1>1, <3>1, <3>3 DEF PortTold
  <2>3. QED  BY <2>1, <2>2
<1>12. QED
  BY <1>6, <1>7, <1>8, <1>9, <1>10, <1>11, <1>1 DEF OInv

LEMMA BringUpKeeps ==
  ASSUME OInv, NEW x \in QpPlaces, NEW p \in PortArgs, BringUp(x, p)
  PROVE  OInv'
<1>1. /\ object[x].h # Null /\ Exists(object[x].h) /\ Datagram(x)
      /\ p \in 1..NPorts
      /\ dev' = [dev EXCEPT ![object[x].h].port = p]
      /\ object' = [object EXCEPT ![x].port = p, ![x].moved = FALSE]
      /\ UNCHANGED <<context, orderly, fate>>
  BY DEF BringUp, Usable, Dangling, CanBringUp
<1>2. p \in 0..NPorts
  BY <1>1, HandleFacts
<1>3. QED  BY <1>1, <1>2, AttachKeeps

LEMMA ConnectKeeps ==
  ASSUME OInv, NEW x \in QpPlaces, Connect(x)
  PROVE  OInv'
<1>1. /\ object[x].h # Null /\ Exists(object[x].h) /\ Type[x] = "RC"
      /\ dev' = [dev EXCEPT ![object[x].h].port = 1]
      /\ object' = object
      /\ UNCHANGED <<context, orderly, fate>>
  BY DEF Connect, Usable, Dangling
<1>2. ~ Datagram(x)
  BY <1>1 DEF Datagram
<1>3. QED  BY <1>1, <1>2, HandleFacts, AttachKeeps

(* bind_port of a connected type is remembered by the object alone. *)
LEMMA BindPortKeeps ==
  ASSUME OInv, NEW x \in QpPlaces, NEW p \in PortArgs, BindPort(x, p)
  PROVE  OInv'
<1>1. /\ ~ Datagram(x) /\ object' = [object EXCEPT ![x].port = p]
      /\ context' = context /\ dev' = dev /\ orderly' = orderly /\ fate' = fate
      /\ ContextHandles' = ContextHandles
  BY DEF BindPort, ContextHandles
<1>2. /\ TypeOK /\ DeadHoldNone /\ HeldOnce /\ NoTraces /\ NoContext
      /\ ContextUp /\ KindsFit /\ UsesFit /\ QpsHeld /\ Clean /\ PortTold
      /\ object \in [Places -> Objects] /\ x \in Places
  BY Types DEF OInv, Places
<1>3. /\ object' \in [Places -> Objects]
      /\ \A z \in Places : object'[z].h = object[z].h /\ object'[z].alive = object[z].alive
      /\ \A z \in Places \ {x} : object'[z] = object[z]
  <2> DEFINE o == [alive |-> object[x].alive, h |-> object[x].h, port |-> p,
                   moved |-> object[x].moved]
  <2>1. object[x] \in Objects
    BY <1>2
  <2>2. o \in Objects
    BY <2>1 DEF Objects
  <2>3. object' = [object EXCEPT ![x] = o]
    <3>1. [object[x] EXCEPT !.port = p] = o
      BY <2>1 DEF Objects
    <3>2. QED  BY <1>1, <1>2, <3>1
  <2>4. QED  BY <1>2, <2>2, <2>3
<1>4. TypeOK'
  BY <1>1, <1>2, <1>3 DEF TypeOK, Objects, Places
<1>5. (DeadHoldNone /\ HeldOnce /\ QpsHeld /\ KindsFit /\ ContextUp)'
  BY <1>1, <1>2, <1>3 DEF DeadHoldNone, HeldOnce, QpsHeld, KindsFit, ContextUp, Places
<1>6. (NoTraces /\ NoContext /\ UsesFit)'
  BY <1>1, <1>2, <1>3 DEF NoTraces, NoContext, UsesFit, Exists
<1>7. Clean'
  BY <1>1, <1>2, <1>3 DEF Clean, Held, Exists
<1>8. PortTold'
  <2> SUFFICES ASSUME NEW z \in QpPlaces, object'[z].h # Null, Attached(z)' # 0
               PROVE  /\ (Datagram(z) /\ ~ object'[z].moved) =>
                           object'[z].port = Attached(z)'
                      /\ (Datagram(z) /\ object'[z].moved) => object'[z].port = 1
                      /\ ~ Datagram(z) => Attached(z)' = 1
    BY DEF PortTold, Datagram
  <2>1. Attached(z)' = Attached(z) /\ z \in Places
    BY <1>1, <1>3 DEF Attached, Places
  <2>2. CASE z = x
    BY <1>1, <1>2, <1>3, <2>1, <2>2 DEF PortTold
  <2>3. CASE z # x
    BY <1>2, <1>3, <2>1, <2>3 DEF PortTold
  <2>4. QED  BY <2>2, <2>3
<1>9. QED  BY <1>4, <1>5, <1>6, <1>7, <1>8 DEF OInv

(* The calls that do not return. *)
LEMMA PanicsKeep ==
  ASSUME OInv, NEW x \in Places,
         \/ CreateFails(x) \/ DestroyDangling(x) \/ UseMoved(x)
         \/ ConnectPanics(x) \/ InfoFails(x)
         \/ \E p \in PortArgs : BringUpPanics(x, p)
         \/ \E op \in Ops : PostPanics(x, op)
  PROVE  OInv'
<1>1. PICK f \in Fates : Ends(f) /\ (orderly => f # "dangling")
  BY OrderlyNeverDangles
     DEF CreateFails, DestroyDangling, UseMoved, ConnectPanics, InfoFails,
         BringUpPanics, PostPanics, Fates
<1>2. QED  BY <1>1, EndsKeeps

-----------------------------------------------------------------------------
(* Room on the device. *)

(* A union has no more elements than its parts have. *)
LEMMA UnionBound ==
  ASSUME NEW S, NEW T, IsFiniteSet(S), IsFiniteSet(T)
  PROVE  /\ IsFiniteSet(S \cup T)
         /\ Cardinality(S) \in Nat /\ Cardinality(T) \in Nat
         /\ Cardinality(S \cup T) <= Cardinality(S) + Cardinality(T)
<1>1. /\ IsFiniteSet(S \cup T) /\ IsFiniteSet(S \cap T)
      /\ Cardinality(S \cup T) = Cardinality(S) + Cardinality(T) - Cardinality(S \cap T)
  BY FS_Union, FS_Intersection
<1>2. /\ Cardinality(S) \in Nat /\ Cardinality(T) \in Nat
      /\ Cardinality(S \cap T) \in Nat
  BY <1>1, FS_CardinalityType
<1>3. QED  BY <1>1, <1>2

(* What an orderly program has on the device is held by the context and by *)
(* the objects other than the one it is about to make.  So if there is     *)
(* room for that many, there is room for one more.                         *)
LEMMA RoomLeft ==
  ASSUME OInv, orderly, NEW x \in Places, CanMake(x),
         IsFiniteSet(Places), IsFiniteSet(Handles),
         Cardinality(Places) + 2 < Cardinality(Handles)
  PROVE  Free # {}
<1> SUFFICES ASSUME Free = {} PROVE FALSE
  OBVIOUS
<1> DEFINE Others == Places \ {x}
           ByObjects == {object[y].h : y \in Others}
           All == ByObjects \cup ContextHandles
<1>1. object[x].h = Null
  BY DEF OInv, DeadHoldNone, CanMake
<1>2. Handles \subseteq All
  <2> SUFFICES ASSUME NEW h \in Handles PROVE h \in All
    OBVIOUS
  <2>1. h \in Held
    BY DEF Free, OInv, Clean
  <2>2. h # Null
    BY HandleFacts
  <2>3. QED  BY <1>1, <2>1, <2>2 DEF Held
<1>3. IsFiniteSet(Others) /\ Cardinality(Others) = Cardinality(Places) - 1
  BY FS_RemoveElement
<1>4. IsFiniteSet(ByObjects) /\ Cardinality(ByObjects) <= Cardinality(Others)
  <2> DEFINE f == [y \in Others |-> object[y].h]
  <2>1. f \in Surjection(Others, ByObjects)
    BY DEF Surjection
  <2> HIDE DEF f, Others, ByObjects
  <2>2. QED  BY <1>3, <2>1, FS_Surjection
<1>5. IsFiniteSet(ContextHandles) /\ Cardinality(ContextHandles) <= 3
  <2> DEFINE C == {context.ctx}
             P == {context.pd}
             R == {context.rd}
  <2>1. /\ IsFiniteSet(C) /\ Cardinality(C) = 1
        /\ IsFiniteSet(P) /\ Cardinality(P) = 1
        /\ IsFiniteSet(R) /\ Cardinality(R) = 1
    BY FS_Singleton
  <2>2. ContextHandles = (C \cup P) \cup R
    BY DEF ContextHandles
  <2> HIDE DEF C, P, R
  <2>3. /\ IsFiniteSet(C \cup P) /\ Cardinality(C \cup P) \in Nat
        /\ Cardinality(C \cup P) <= Cardinality(C) + Cardinality(P)
    BY <2>1, UnionBound, FS_CardinalityType
  <2>4. /\ IsFiniteSet((C \cup P) \cup R) /\ Cardinality((C \cup P) \cup R) \in Nat
        /\ Cardinality((C \cup P) \cup R) <= Cardinality(C \cup P) + Cardinality(R)
    BY <2>1, <2>3, UnionBound, FS_CardinalityType
  <2>5. QED  BY <2>1, <2>2, <2>3, <2>4
<1> HIDE DEF Others, ByObjects
<1>6. /\ IsFiniteSet(All)
      /\ Cardinality(All) <= Cardinality(ByObjects) + Cardinality(ContextHandles)
  BY <1>4, <1>5, UnionBound
<1>7. Cardinality(Handles) <= Cardinality(All)
  <2> HIDE DEF All
  <2>1. QED  BY <1>2, <1>6, FS_Subset
<1>8. /\ Cardinality(Places) \in Nat /\ Cardinality(Handles) \in Nat
      /\ Cardinality(Others) \in Nat /\ Cardinality(ByObjects) \in Nat
      /\ Cardinality(ContextHandles) \in Nat /\ Cardinality(All) \in Nat
  BY <1>3, <1>4, <1>5, <1>6, FS_CardinalityType
<1>9. QED  BY <1>3, <1>4, <1>5, <1>6, <1>7, <1>8
=============================================================================
