----------------------------- MODULE MemoryProofs -----------------------------
(***************************************************************************)
(* Proofs about Memory, for words of any size, any buffers, any number of  *)
(* regions, slices and registrations.                                      *)
(***************************************************************************)
EXTENDS Memory, TLAPS

(* A region object that has a registration points to its memory. *)
RegionsHold ==
  \A o \in Objects : region[o].mr # NoMr =>
    /\ region[o].mr \in 1..made
    /\ region[o].ptr = buffer[region[o].mr].ptr
    /\ region[o].size = buffer[region[o].mr].size

(* Registered memory does not reach the end of the address space. *)
BuffersFit ==
  \A k \in 1..made : buffer[k].ptr + buffer[k].size < Word

(* What the invariant says of one slice. *)
Sound(s) ==
  s.mr # NoMr =>
    /\ s.mr \in 1..made
    /\ s.trusted => Covers(s.mr, s.ptr, s.size)

SlicesHold == \A x \in Slots : slices[x] # NoSlice => Sound(slices[x])

(* Outside of its life a region object has no registration. *)
DeadHoldNone == \A o \in Objects : ~ region[o].alive => region[o].mr = NoMr

IInv ==
  /\ TypeOK
  /\ OwnedOnce
  /\ DeadHoldNone
  /\ RegionsHold
  /\ BuffersFit
  /\ SlicesHold

RegionRecord ==
  [alive : BOOLEAN, mr : Keys \cup {NoMr}, dm : Keys \cup {NoMr},
   ptr : Words, size : Words]

-----------------------------------------------------------------------------
(* Words are closed under Add and Sub. *)
LEMMA WordArithmetic ==
  ASSUME NEW a \in Words, NEW b \in Words
  PROVE  Add(a, b) \in Words /\ Sub(a, b) \in Words
BY MemoryAssumption DEF Words, Add, Sub

(* The constants Gone and Moved are region objects that own nothing. *)
LEMMA EmptyRegions ==
  /\ Gone \in RegionRecord /\ Gone.mr = NoMr /\ Gone.dm = NoMr /\ ~ Gone.alive
  /\ Moved \in RegionRecord /\ Moved.mr = NoMr /\ Moved.dm = NoMr
<1>1. Gone \in RegionRecord /\ Gone.mr = NoMr /\ Gone.dm = NoMr /\ ~ Gone.alive
  BY MemoryAssumption DEF Gone, RegionRecord, Words
<1>2. Moved \in RegionRecord /\ Moved.mr = NoMr /\ Moved.dm = NoMr
  BY <1>1 DEF Moved, RegionRecord
<1>3. QED  BY <1>1, <1>2

(* A region object has no device memory other than that of its own         *)
(* registration, which is given up first: its device memory is freed.      *)
LEMMA ReleaseFrees ==
  ASSUME IInv, NEW o \in Objects, Release(region[o])
  PROVE  /\ registered' = registered \ {region[o].mr}
         /\ allocated' = allocated \ {region[o].dm}
         /\ UNCHANGED <<slices, made, buffer, fate>>
<1>1. /\ registered' = registered \ {region[o].mr}
      /\ allocated' = Freed(region[o].dm, registered')
      /\ UNCHANGED <<slices, made, buffer, fate>>
  BY DEF Release
<1>2. region[o].dm \in {region[o].mr, NoMr} /\ NoMr \notin registered
  BY DEF IInv, OwnedOnce
<1>3. QED  BY <1>1, <1>2 DEF Freed

(* The invariant holds when the program starts. *)
LEMMA InitIInv == Init => IInv
<1> SUFFICES ASSUME Init PROVE IInv
  OBVIOUS
<1>1. TypeOK
  <2>1. region \in [Objects -> RegionRecord]
    BY EmptyRegions DEF Init
  <2>2. buffer \in [Keys -> Extent]
    BY MemoryAssumption DEF Init, Extent, Words
  <2>3. slices \in [Slots -> Slice \cup {NoSlice}]
    BY DEF Init
  <2>4. /\ made \in 0..MaxKeys /\ fate = "running"
        /\ registered \subseteq 1..made /\ allocated \subseteq 1..made
    BY MemoryAssumption DEF Init
  <2>5. \A o \in Objects : region[o] = Gone
    BY DEF Init
  <2>6. QED  BY <2>1, <2>2, <2>3, <2>4, <2>5 DEF TypeOK, RegionRecord
<1>2. \A o \in Objects : region[o].mr = NoMr /\ region[o].dm = NoMr
  BY EmptyRegions DEF Init
<1>3. OwnedOnce /\ RegionsHold /\ DeadHoldNone
  BY <1>2 DEF Init, OwnedOnce, RegionsHold, DeadHoldNone
<1>4. BuffersFit
  BY DEF Init, BuffersFit
<1>5. SlicesHold
  BY DEF Init, SlicesHold
<1>6. QED  BY <1>1, <1>3, <1>4, <1>5 DEF IInv

-----------------------------------------------------------------------------
(* Regions. *)

(* A new registration takes a new key, which no region object and no slice *)
(* has.                                                                    *)
LEMMA ConstructKeeps ==
  ASSUME IInv, NEW o \in Objects, NEW b \in Buffers, NEW device \in BOOLEAN,
         Construct(o, b, device)
  PROVE  IInv'
<1> DEFINE k == made + 1
           d == IF device THEN k ELSE NoMr
           r == [alive |-> TRUE, mr |-> k, dm |-> d,
                 ptr |-> b.ptr, size |-> b.size]
<1>1. /\ made \in 0..MaxKeys /\ made < MaxKeys /\ MaxKeys \in Nat
      /\ k \in Keys /\ k # NoMr /\ k \in 1..k /\ k \notin 1..made
      /\ 1..k = 1..made \cup {k}
  BY MemoryAssumption DEF IInv, TypeOK, Construct, Keys, NoMr
<1>2. b \in Extent /\ b.ptr + b.size < Word
  BY MemoryAssumption
<1>3. /\ made' = k
      /\ buffer' = [buffer EXCEPT ![k] = b]
      /\ registered' = registered \cup {k}
      /\ allocated' = allocated \cup ({d} \ {NoMr})
      /\ region' = [region EXCEPT ![o] = r]
      /\ slices' = slices /\ fate' = fate /\ fate = "running"
      /\ ~ region[o].alive
  BY <1>1 DEF Construct
<1>4. /\ d \in {k, NoMr}
      /\ r \in RegionRecord /\ r.mr = k /\ r.dm = d
      /\ r.ptr = b.ptr /\ r.size = b.size
  BY <1>1, <1>2 DEF RegionRecord, Extent
<1> HIDE DEF k, d, r
<1>5. /\ region \in [Objects -> RegionRecord]
      /\ buffer \in [Keys -> Extent]
      /\ registered \subseteq 1..made /\ allocated \subseteq 1..made
  BY DEF IInv, TypeOK, RegionRecord
<1>6. TypeOK'
  <2>1. region' \in [Objects -> RegionRecord] /\ buffer' \in [Keys -> Extent]
    BY <1>1, <1>2, <1>3, <1>4, <1>5
  <2>2. made' \in 0..MaxKeys
    BY <1>1, <1>3 DEF Keys
  <2>3. registered' \subseteq 1..made' /\ allocated' \subseteq 1..made'
    BY <1>1, <1>3, <1>4, <1>5
  <2>4. \A p \in Objects : region'[p].mr = NoMr => region'[p] \in {Gone, Moved}
    BY <1>1, <1>3, <1>4, <1>5 DEF IInv, TypeOK
  <2>5. QED  BY <2>1, <2>2, <2>3, <2>4, <1>3 DEF IInv, TypeOK, RegionRecord, Slice
<1>7. \A j \in 1..made : j \in Keys /\ buffer'[j] = buffer[j]
  BY <1>1, <1>3, <1>5 DEF Keys
<1>8. buffer'[k] = b
  BY <1>1, <1>3, <1>5
<1>9. region'[o] = r /\ \A p \in Objects : p # o => region'[p] = region[p]
  BY <1>3, <1>5
<1>10. \A p \in Objects : region[p].mr # k
  BY <1>1 DEF IInv, RegionsHold
<1>11. region[o].mr = NoMr /\ region[o].dm = NoMr
  BY <1>3 DEF IInv, DeadHoldNone, OwnedOnce
<1>12. OwnedOnce'
  <2>1. {region'[p].mr : p \in Objects} \ {NoMr}
          = ({region[p].mr : p \in Objects} \ {NoMr}) \cup {k}
    BY <1>1, <1>4, <1>9, <1>11
  <2>2. \A p, q \in Objects :
          (p # q /\ region'[p].mr # NoMr) => region'[p].mr # region'[q].mr
    BY <1>4, <1>9, <1>10 DEF IInv, OwnedOnce
  <2>3. {region'[p].dm : p \in Objects} \ {NoMr}
          = ({region[p].dm : p \in Objects} \ {NoMr}) \cup ({d} \ {NoMr})
    BY <1>4, <1>9, <1>11
  <2>4. \A p \in Objects : region'[p].dm \in {region'[p].mr, NoMr}
    BY <1>4, <1>9 DEF IInv, OwnedOnce
  <2>5. QED  BY <2>1, <2>2, <2>3, <2>4, <1>3 DEF IInv, OwnedOnce
<1>13. DeadHoldNone'
  BY <1>4, <1>9 DEF IInv, DeadHoldNone, r
<1>14. RegionsHold'
  BY <1>1, <1>3, <1>4, <1>7, <1>8, <1>9 DEF IInv, RegionsHold
<1>15. BuffersFit'
  BY <1>1, <1>2, <1>3, <1>7, <1>8 DEF IInv, BuffersFit
<1>16. SlicesHold'
  BY <1>1, <1>3, <1>7 DEF IInv, SlicesHold, Sound, Covers
<1>17. QED  BY <1>6, <1>12, <1>13, <1>14, <1>15, <1>16 DEF IInv

(* A region object without a registration is empty. *)
EmptyOk == \A o \in Objects : region[o].mr = NoMr => region[o] \in {Gone, Moved}

(* A step that gives up registrations or hands them from one region object *)
(* to another, and touches no buffer and no slice.                         *)
LEMMA RegionStepFrame ==
  ASSUME IInv, region' \in [Objects -> RegionRecord],
         EmptyOk', UNCHANGED <<slices, made, buffer, fate>>,
         registered' \subseteq registered, allocated' \subseteq allocated,
         OwnedOnce', DeadHoldNone', RegionsHold'
  PROVE  IInv'
<1>1. TypeOK'
  BY DEF IInv, TypeOK, EmptyOk, RegionRecord, Slice
<1>2. BuffersFit' /\ SlicesHold'
  BY DEF IInv, BuffersFit, SlicesHold, Sound, Covers
<1>3. QED  BY <1>1, <1>2 DEF IInv

(* The destructor gives up all that its object has. *)
LEMMA DestroyKeeps ==
  ASSUME IInv, NEW o \in Objects, Destroy(o)
  PROVE  IInv'
<1>1. /\ region' = [region EXCEPT ![o] = Gone]
      /\ registered' = registered \ {region[o].mr}
      /\ allocated' = allocated \ {region[o].dm}
      /\ UNCHANGED <<slices, made, buffer, fate>>
  BY ReleaseFrees DEF Destroy
<1>2. region \in [Objects -> RegionRecord]
  BY DEF IInv, TypeOK, RegionRecord
<1>3. /\ region' \in [Objects -> RegionRecord]
      /\ region'[o] = Gone /\ region'[o].mr = NoMr /\ region'[o].dm = NoMr
      /\ \A p \in Objects : p # o => region'[p] = region[p]
  BY <1>1, <1>2, EmptyRegions
<1>4. OwnedOnce'
  <2>1. registered' = {region'[p].mr : p \in Objects} \ {NoMr}
    BY <1>1, <1>3 DEF IInv, OwnedOnce
  <2>2. \A p, q \in Objects :
          (p # q /\ region[p].dm # NoMr) => region[p].dm # region[q].dm
    BY DEF IInv, OwnedOnce
  <2>3. allocated' = {region'[p].dm : p \in Objects} \ {NoMr}
    BY <1>1, <1>3, <2>2 DEF IInv, OwnedOnce
  <2>4. \A p \in Objects : region'[p].dm \in {region'[p].mr, NoMr}
    BY <1>3 DEF IInv, OwnedOnce
  <2>5. \A p, q \in Objects :
          (p # q /\ region'[p].mr # NoMr) => region'[p].mr # region'[q].mr
    BY <1>3 DEF IInv, OwnedOnce
  <2>6. QED  BY <2>1, <2>3, <2>4, <2>5 DEF OwnedOnce
<1>5. DeadHoldNone' /\ RegionsHold'
  BY <1>1, <1>3 DEF IInv, DeadHoldNone, RegionsHold
<1>6. EmptyOk'
  BY <1>3 DEF IInv, TypeOK, EmptyOk
<1>7. QED  BY <1>1, <1>3, <1>4, <1>5, <1>6, RegionStepFrame

(* A move leaves the registration with one object, and the target of a     *)
(* move assignment has given up its own before.                            *)
LEMMA MoveKeeps ==
  ASSUME IInv, NEW o \in Objects, NEW other \in Objects,
         MoveConstruct(o, other) \/ MoveAssign(o, other)
  PROVE  IInv'
<1>1. /\ o # other /\ region[other].alive
      /\ region' = [region EXCEPT ![o] = region[other], ![other] = Moved]
      /\ UNCHANGED <<slices, made, buffer, fate>>
  BY DEF MoveConstruct, MoveAssign, Release
<1>2. /\ registered' = registered \ {region[o].mr}
      /\ allocated' = allocated \ {region[o].dm}
  <2>1. CASE MoveConstruct(o, other)
    <3>1. /\ region[o].mr = NoMr /\ region[o].dm = NoMr
          /\ registered' = registered /\ allocated' = allocated
      BY <2>1 DEF MoveConstruct, IInv, DeadHoldNone, OwnedOnce
    <3>2. NoMr \notin registered /\ NoMr \notin allocated
      BY DEF IInv, OwnedOnce
    <3>3. QED  BY <3>1, <3>2
  <2>2. CASE MoveAssign(o, other)
    BY <2>2, ReleaseFrees DEF MoveAssign
  <2>3. QED  BY <2>1, <2>2
<1>3. region \in [Objects -> RegionRecord]
  BY DEF IInv, TypeOK, RegionRecord
<1>4. /\ region' \in [Objects -> RegionRecord]
      /\ region'[o] = region[other]
      /\ region'[other] = Moved
      /\ region'[other].mr = NoMr /\ region'[other].dm = NoMr
      /\ \A p \in Objects : p \notin {o, other} => region'[p] = region[p]
  BY <1>1, <1>3, EmptyRegions
<1>5. OwnedOnce'
  <2>1. registered' = {region'[p].mr : p \in Objects} \ {NoMr}
    BY <1>1, <1>2, <1>4 DEF IInv, OwnedOnce
  <2>2. \A p, q \in Objects :
          (p # q /\ region'[p].mr # NoMr) => region'[p].mr # region'[q].mr
    BY <1>1, <1>4 DEF IInv, OwnedOnce
  <2>3. \A p, q \in Objects :
          (p # q /\ region[p].dm # NoMr) => region[p].dm # region[q].dm
    BY DEF IInv, OwnedOnce
  <2>4. allocated' = {region'[p].dm : p \in Objects} \ {NoMr}
    BY <1>1, <1>2, <1>4, <2>3 DEF IInv, OwnedOnce
  <2>5. \A p \in Objects : region'[p].dm \in {region'[p].mr, NoMr}
    BY <1>4 DEF IInv, OwnedOnce
  <2>6. QED  BY <2>1, <2>2, <2>4, <2>5 DEF OwnedOnce
<1>6. DeadHoldNone' /\ RegionsHold'
  BY <1>1, <1>4 DEF IInv, DeadHoldNone, RegionsHold
<1>7. EmptyOk'
  BY <1>4 DEF IInv, TypeOK, EmptyOk
<1>8. QED  BY <1>1, <1>2, <1>4, <1>5, <1>6, <1>7, RegionStepFrame

-----------------------------------------------------------------------------
(* Slices. *)

(* A slice is sound if it is cut from a region object within its size, or  *)
(* is not trusted, or the object has no registration.                      *)
LEMMA PlaceKeeps ==
  ASSUME IInv, NEW x \in Slots, NEW o \in Objects, NEW offset \in Words,
         NEW size \in Words, NEW trusted \in BOOLEAN, NEW from,
         (trusted /\ region[o].mr # NoMr) => offset + size <= region[o].size,
         Place(x, o, offset, size, trusted, from)
  PROVE  IInv'
<1> DEFINE ptr == Add(region[o].ptr, offset)
           inside == from.ptr <= ptr /\ ptr + size <= from.ptr + from.size
           s == [object |-> o, ptr |-> ptr, size |-> size,
                 mr |-> region[o].mr, trusted |-> trusted, inside |-> inside]
<1>1. /\ slices' = [slices EXCEPT ![x] = s]
      /\ UNCHANGED <<region, made, buffer, registered, allocated, fate>>
  BY DEF Place
<1>2. region[o] \in RegionRecord
  BY DEF IInv, TypeOK, RegionRecord
<1>3. ptr \in Words
  BY <1>2, WordArithmetic DEF RegionRecord
<1>4. s \in Slice
  <2>1. inside \in BOOLEAN
    OBVIOUS
  <2> HIDE DEF inside, ptr
  <2>2. QED  BY <2>1, <1>2, <1>3 DEF Slice, RegionRecord
<1>5. ASSUME trusted, region[o].mr # NoMr
      PROVE  Covers(region[o].mr, ptr, size)
  <2>1. /\ region[o].mr \in 1..made
        /\ region[o].ptr = buffer[region[o].mr].ptr
        /\ region[o].size = buffer[region[o].mr].size
    BY <1>5 DEF IInv, RegionsHold
  <2>2. region[o].ptr + region[o].size < Word
    BY <2>1 DEF IInv, BuffersFit
  <2>3. ptr = region[o].ptr + offset
    BY <1>2, <1>5, <2>2, MemoryAssumption DEF Add, Words, RegionRecord
  <2>4. QED  BY <1>2, <1>5, <2>1, <2>3, MemoryAssumption
        DEF Covers, Words, RegionRecord
<1>6. s.mr = region[o].mr /\ s.ptr = ptr /\ s.size = size /\ s.trusted = trusted
  OBVIOUS
<1> HIDE DEF s, ptr
<1>7. Sound(s)
  BY <1>5, <1>6 DEF Sound, IInv, RegionsHold
<1>8. TypeOK'
  BY <1>1, <1>4 DEF IInv, TypeOK, Slice
<1>9. SlicesHold'
  <2>1. \A y \in Slots : slices'[y] = slices[y] \/ slices'[y] = s
    BY <1>1 DEF IInv, TypeOK
  <2>2. SUFFICES ASSUME NEW y \in Slots, slices'[y] # NoSlice
                 PROVE  Sound(slices'[y])
    BY <1>1 DEF SlicesHold, Sound, Covers
  <2>3. QED  BY <2>1, <2>2, <1>7 DEF IInv, SlicesHold
<1>10. (OwnedOnce /\ DeadHoldNone /\ RegionsHold /\ BuffersFit)'
  BY <1>1 DEF IInv, OwnedOnce, DeadHoldNone, RegionsHold, BuffersFit
<1>11. QED  BY <1>8, <1>9, <1>10 DEF IInv

(* Nothing but the fate changes: the process ends. *)
LEMMA EndsKeeps ==
  ASSUME IInv, NEW f \in {"panicked", "undefined"}, Ends(f)
  PROVE  IInv'
BY DEF IInv, Ends, TypeOK, Slice, OwnedOnce, DeadHoldNone, RegionsHold,
       BuffersFit, SlicesHold, Sound, Covers

(* The unchecked constructor. *)
LEMMA SliceOfKeeps ==
  ASSUME IInv, NEW x \in Slots, NEW o \in Objects, NEW offset \in Offsets,
         NEW size \in Sizes, SliceOf(x, o, offset, size)
  PROVE  IInv'
<1>1. offset \in Words /\ size \in Words
  BY MemoryAssumption
<1>2. (offset + size <= region[o].size) \in BOOLEAN
  BY <1>1, MemoryAssumption DEF IInv, TypeOK, Words
<1>3. QED  BY <1>1, <1>2, PlaceKeeps DEF SliceOf

(* A sum that passes the check and did not wrap is within the limit. *)
LEMMA CheckedSum ==
  ASSUME NEW offset \in Words, NEW size \in Words, NEW limit \in Words,
         ~ TooLarge(offset, size, limit), offset + size < Word
  PROVE  offset + size <= limit
BY MemoryAssumption DEF TooLarge, Add, Words

(* slice() of a region. *)
LEMMA CutRegionKeeps ==
  ASSUME IInv, NEW x \in Slots, NEW o \in Objects, NEW offset \in Words,
         NEW size \in Words, CutRegion(x, o, offset, size)
  PROVE  IInv'
<1>1. CASE TooLarge(offset, size, region[o].size)
  BY <1>1, EndsKeeps DEF CutRegion
<1>2. CASE ~ TooLarge(offset, size, region[o].size)
  <2>1. region[o].size \in Words
    BY DEF IInv, TypeOK
  <2>2. offset + size < Word => offset + size <= region[o].size
    BY <1>2, <2>1, CheckedSum
  <2>3. Place(x, o, offset, size, offset + size < Word, region[o])
    BY <1>2 DEF CutRegion
  <2>4. (offset + size < Word) \in BOOLEAN
    OBVIOUS
  <2>5. QED  BY <2>2, <2>3, <2>4, PlaceKeeps
<1>3. QED  BY <1>1, <1>2

(* slice() of a slice: a trusted slice is no larger than its region, so    *)
(* what fits into the slice fits into the region, at whatever place.       *)
LEMMA CutSliceKeeps ==
  ASSUME IInv, NEW x \in Slots, NEW y \in Slots, NEW offset \in Words,
         NEW size \in Words, CutSlice(x, y, offset, size)
  PROVE  IInv'
<1> DEFINE s == slices[y]
           o == s.object
           trusted == s.trusted /\ offset + size < Word /\ region[o].mr = s.mr
<1>1. s \in Slice /\ s # NoSlice
  BY DEF CutSlice, IInv, TypeOK
<1>2. o \in Objects /\ s.size \in Words /\ s.ptr \in Words
  BY <1>1 DEF Slice
<1>3. \/ \E f \in {"panicked", "undefined"} : Ends(f)
      \/ /\ ~ TooLarge(offset, size, s.size)
         /\ Place(x, o, offset, size, trusted, s)
  BY DEF CutSlice
<1>4. CASE \E f \in {"panicked", "undefined"} : Ends(f)
  BY <1>4, EndsKeeps
<1>5. CASE /\ ~ TooLarge(offset, size, s.size)
           /\ Place(x, o, offset, size, trusted, s)
  <2>1. trusted \in BOOLEAN
    OBVIOUS
  <2>2. ASSUME trusted, region[o].mr # NoMr
        PROVE  offset + size <= region[o].size
    <3> HIDE DEF s, o
    <3>1. offset + size <= s.size
      BY <1>2, <1>5, <2>2, CheckedSum
    <3>2. s.mr \in 1..made /\ Covers(s.mr, s.ptr, s.size)
      BY <1>1, <2>2 DEF IInv, SlicesHold, Sound, s
    <3>3. /\ region[o].size = buffer[s.mr].size
          /\ region[o].size \in Words
      BY <1>2, <2>2 DEF IInv, RegionsHold, TypeOK
    <3>4. buffer[s.mr].ptr \in Words
      BY <3>2, MemoryAssumption DEF IInv, TypeOK, Extent, Keys
    <3>5. s.size <= region[o].size
      BY <1>2, <3>2, <3>3, <3>4, MemoryAssumption DEF Covers, Words
    <3>6. QED  BY <1>2, <3>1, <3>3, <3>5, MemoryAssumption DEF Words
  <2> HIDE DEF trusted, s, o
  <2>3. QED  BY <1>2, <1>5, <2>1, <2>2, PlaceKeeps
<1>6. QED  BY <1>3, <1>4, <1>5

-----------------------------------------------------------------------------
(* The invariant. *)

(* Every step that concerns slices keeps the invariant. *)
LEMMA SliceStepKeeps == ASSUME IInv, SliceStep PROVE IInv'
<1>1. PICK x \in Slots, offset \in Offsets :
        \/ \E o \in Objects : CutRegionRest(x, o, offset)
        \/ \E y \in Slots : CutSliceRest(x, y, offset)
        \/ \E o \in Objects, size \in Sizes :
             SliceOf(x, o, offset, size) \/ CutRegion(x, o, offset, size)
        \/ \E y \in Slots, size \in Sizes : CutSlice(x, y, offset, size)
  BY DEF SliceStep
<1>2. offset \in Words /\ Sizes \subseteq Words
  BY MemoryAssumption
<1>3. ASSUME NEW o \in Objects, CutRegionRest(x, o, offset) PROVE IInv'
  <2>1. Sub(region[o].size, offset) \in Words
    BY <1>2, WordArithmetic DEF IInv, TypeOK
  <2>2. QED  BY <1>2, <1>3, <2>1, CutRegionKeeps DEF CutRegionRest
<1>4. ASSUME NEW y \in Slots, CutSliceRest(x, y, offset) PROVE IInv'
  <2>1. slices[y].size \in Words
    BY <1>4 DEF CutSliceRest, IInv, TypeOK, Slice
  <2>2. Sub(slices[y].size, offset) \in Words
    BY <1>2, <2>1, WordArithmetic
  <2>3. QED  BY <1>2, <1>4, <2>2, CutSliceKeeps DEF CutSliceRest
<1>5. ASSUME NEW o \in Objects, NEW size \in Sizes,
             SliceOf(x, o, offset, size) \/ CutRegion(x, o, offset, size)
      PROVE  IInv'
  BY <1>2, <1>5, SliceOfKeeps, CutRegionKeeps
<1>6. ASSUME NEW y \in Slots, NEW size \in Sizes, CutSlice(x, y, offset, size)
      PROVE  IInv'
  BY <1>2, <1>6, CutSliceKeeps
<1>7. QED  BY <1>1, <1>3, <1>4, <1>5, <1>6

(* Every step keeps the invariant. *)
LEMMA StepIInv == IInv /\ [Next]_vars => IInv'
<1> SUFFICES ASSUME IInv, [Next]_vars PROVE IInv'
  OBVIOUS
<1>1. CASE RegionStep
  <2>1. ASSUME NEW o \in Objects, ConstructFails(o) PROVE IInv'
    BY <2>1, EndsKeeps DEF ConstructFails
  <2>2. QED  BY <1>1, <2>1, ConstructKeeps, DestroyKeeps, MoveKeeps DEF RegionStep
<1>2. CASE SliceStep
  BY <1>2, SliceStepKeeps
<1>3. CASE \E x \in Slots : ToSgeFails(x)
  <2>1. \E f \in {"panicked", "undefined"} : Ends(f)
    BY <1>3 DEF ToSgeFails
  <2>2. QED  BY <2>1, EndsKeeps
<1>4. CASE UNCHANGED vars
  BY <1>4 DEF vars, IInv, TypeOK, Slice, OwnedOnce, DeadHoldNone,
              RegionsHold, BuffersFit, SlicesHold, Sound, Covers
<1>5. QED  BY <1>1, <1>2, <1>3, <1>4 DEF Next

(* The invariant holds for ever. *)
LEMMA Invariance == Spec => []IInv
BY InitIInv, StepIInv, PTL DEF Spec

(* Whatever is constructed, moved, destroyed, cut and refreshed, and       *)
(* whatever sums wrap: only keys that were handed out are registered or    *)
(* hold device memory, addresses stay words, and an object that gave its   *)
(* registration up or away has no extent left to cut a slice from.         *)
THEOREM TypeCorrect == Spec => []TypeOK
<1>1. IInv => TypeOK
  BY DEF IInv
<1>2. QED  BY <1>1, Invariance, PTL

(* Moves and destructors neither leak nor share a registration, and   *)
(* device memory is freed with the registration it has.                    *)
THEOREM OwnedOnceHolds == Spec => []OwnedOnce
<1>1. IInv => OwnedOnce
  BY DEF IInv
<1>2. QED  BY <1>1, Invariance, PTL

(* A slice that slice() made, from a region or from slices of it, lies in  *)
(* the registered memory, unless a sum wrapped or the region was replaced. *)
THEOREM InsideRegistrationHolds == Spec => []InsideRegistration
<1>1. IInv => InsideRegistration
  BY DEF IInv, SlicesHold, Sound, InsideRegistration
<1>2. QED  BY <1>1, Invariance, PTL
=============================================================================
