-------------------------------- MODULE Memory --------------------------------
(***************************************************************************)
(* mem.h: memory regions, which own a registration with the adapter, and   *)
(* slices of them.  A slice keeps a pointer and a size of its own and a    *)
(* reference to the region object, where to_sge() looks up the key and     *)
(* where slice() of a slice looks up the pointer again.                    *)
(*                                                                         *)
(* Pointers and sizes are machine words, so sums wrap.  A region of device *)
(* memory owns that memory, too.  External: every registration has a key   *)
(* of its own, whose number stands for its device memory as well, and the  *)
(* device refuses to free memory that is registered.                       *)
(***************************************************************************)
EXTENDS Integers

CONSTANTS
  Objects,    \* places where a program keeps a region object
  Slots,      \* places where it keeps a slice
  Buffers,    \* memory it registers: [ptr, size]
  Word,       \* 2^64: pointers and sizes are 0..Word-1
  MaxLen,     \* 2^32-1: the largest length of a scatter-gather entry
  Offsets,    \* arguments of slice()
  Sizes,
  MaxKeys,    \* bound: registrations made
  NoSlice

Words == 0..(Word - 1)
Extent == [ptr : Words, size : Words]

ASSUME MemoryAssumption ==
  /\ Word \in Nat \ {0}
  /\ MaxLen \in Nat
  /\ MaxKeys \in Nat
  /\ Offsets \cup Sizes \subseteq Words
  /\ Buffers \subseteq Extent
  /\ \A b \in Buffers : b.ptr + b.size < Word

(* Sums and differences of words. *)
Add(a, b) == IF a + b < Word THEN a + b ELSE a + b - Word
Sub(a, b) == IF b <= a THEN a - b ELSE a + Word - b

NoMr == 0   \* a null ibv_mr
Keys == 1..MaxKeys

VARIABLES
  region,      \* the region objects
  slices,      \* the slices the program holds
  made,        \* registrations made
  buffer,      \* the memory each key was made for
  registered,  \* the keys the adapter still accepts
  allocated,   \* the device memory that is allocated
  fate         \* of the process

vars == <<region, slices, made, buffer, registered, allocated, fate>>

Gone  == [alive |-> FALSE, mr |-> NoMr, dm |-> NoMr, ptr |-> 0, size |-> 0]
Moved == [Gone EXCEPT !.alive = TRUE]

Init ==
  /\ region = [o \in Objects |-> Gone]
  /\ slices = [x \in Slots |-> NoSlice]
  /\ made = 0
  /\ buffer = [k \in Keys |-> [ptr |-> 0, size |-> 0]]
  /\ registered = {}
  /\ allocated = {}
  /\ fate = "running"

Ends(f) ==
  /\ fate' = f
  /\ UNCHANGED <<region, slices, made, buffer, registered, allocated>>

-----------------------------------------------------------------------------
(* Regions. *)

Construct(o, b, device) ==
  /\ fate = "running"
  /\ ~ region[o].alive
  /\ made < MaxKeys
  /\ made' = made + 1
  /\ buffer' = [buffer EXCEPT ![made'] = b]
  /\ registered' = registered \cup {made'}
  /\ allocated' = IF device THEN allocated \cup {made'} ELSE allocated
  /\ region' = [region EXCEPT ![o] =
       [alive |-> TRUE, mr |-> made', dm |-> IF device THEN made' ELSE NoMr,
        ptr |-> b.ptr, size |-> b.size]]
  /\ UNCHANGED <<slices, fate>>

(* No registration, or no device memory: what was allocated for it is      *)
(* freed again, and the process ends.                                      *)
ConstructFails(o) ==
  /\ fate = "running"
  /\ ~ region[o].alive
  /\ Ends("panicked")

(* ibv_exp_free_dm of memory dm, with the registrations mrs. *)
Freed(dm, mrs) == IF dm \in mrs THEN allocated ELSE allocated \ {dm}

(* Seeded fault: the memory is freed before its registration is given up. *)
ReleaseDmFirst(r) ==
  /\ registered' = registered \ {r.mr}
  /\ allocated' = Freed(r.dm, registered)
  /\ UNCHANGED <<slices, made, buffer, fate>>

(* What ~rdma_memory_region gives back, in this order. *)
Release(r) ==
  /\ registered' = registered \ {r.mr}
  /\ allocated' = Freed(r.dm, registered')
  /\ UNCHANGED <<slices, made, buffer, fate>>

Destroy(o) ==
  /\ fate = "running"
  /\ region[o].alive
  /\ Release(region[o])
  /\ region' = [region EXCEPT ![o] = Gone]

(* Seeded fault: the other object keeps its pointer and its size. *)
MoveConstructKeepsExtent(o, other) ==
  /\ fate = "running"
  /\ ~ region[o].alive
  /\ region[other].alive
  /\ region' = [region EXCEPT ![o] = region[other],
                              ![other].mr = NoMr, ![other].dm = NoMr]
  /\ UNCHANGED <<slices, made, buffer, registered, allocated, fate>>

MoveConstruct(o, other) ==
  /\ fate = "running"
  /\ ~ region[o].alive
  /\ region[other].alive
  /\ region' = [region EXCEPT ![o] = region[other], ![other] = Moved]
  /\ UNCHANGED <<slices, made, buffer, registered, allocated, fate>>

(* o = std::move(other): the destructor of o, then the move constructor. *)
MoveAssign(o, other) ==
  /\ fate = "running"
  /\ o # other
  /\ region[o].alive
  /\ region[other].alive
  /\ Release(region[o])
  /\ region' = [region EXCEPT ![o] = region[other], ![other] = Moved]

-----------------------------------------------------------------------------
(* Slices. *)

(* rdma_memory_slice(region, offset, size), which checks nothing.  History: *)
(* may the slice be trusted to lie in the memory of the registration mr,    *)
(* and does it lie inside of the extent it was cut from?                    *)
Place(x, o, offset, size, trusted, from) ==
  LET ptr == Add(region[o].ptr, offset) IN
  /\ slices' = [slices EXCEPT ![x] =
       [object |-> o, ptr |-> ptr, size |-> size, mr |-> region[o].mr,
        trusted |-> trusted,
        inside |-> from.ptr <= ptr /\ ptr + size <= from.ptr + from.size]]
  /\ UNCHANGED <<region, made, buffer, registered, allocated, fate>>

(* The constructor called by the program itself. *)
SliceOf(x, o, offset, size) ==
  /\ fate = "running"
  /\ region[o].alive
  /\ Place(x, o, offset, size, offset + size <= region[o].size, region[o])

(* Seeded fault: the offset is left out of the check. *)
TooLargeAlone(offset, size, limit) == size > limit

(* offset + size > this->size *)
TooLarge(offset, size, limit) == Add(offset, size) > limit

(* slice(offset, size) of a region. *)
CutRegion(x, o, offset, size) ==
  /\ fate = "running"
  /\ region[o].alive
  /\ IF TooLarge(offset, size, region[o].size)
       THEN Ends("panicked")
       ELSE Place(x, o, offset, size, offset + size < Word, region[o])

(* slice(offset, size) of slice y: the check is made against y, the offset *)
(* counted from where y's region object points now.                        *)
CutSlice(x, y, offset, size) ==
  /\ fate = "running"
  /\ slices[y] # NoSlice
  /\ LET s == slices[y] o == s.object IN
       IF TooLarge(offset, size, s.size) THEN Ends("panicked")
       ELSE IF ~ region[o].alive THEN Ends("undefined")
       ELSE Place(x, o, offset, size,
                  s.trusted /\ offset + size < Word /\ region[o].mr = s.mr, s)

(* slice(offset): the rest from offset on. *)
CutRegionRest(x, o, offset) ==
  CutRegion(x, o, offset, Sub(region[o].size, offset))

CutSliceRest(x, y, offset) ==
  /\ slices[y] # NoSlice
  /\ CutSlice(x, y, offset, Sub(slices[y].size, offset))

(* to_sge() finds a length that fits and a key. *)
Succeeds(s) == s.size <= MaxLen /\ region[s.object].mr # NoMr

(* to_sge() that does not return: the length does not fit, or the key is   *)
(* read through a dead region object or a null ibv_mr.                     *)
ToSgeFails(x) ==
  /\ fate = "running"
  /\ slices[x] # NoSlice
  /\ ~ Succeeds(slices[x])
  /\ Ends(IF slices[x].size > MaxLen THEN "panicked" ELSE "undefined")

-----------------------------------------------------------------------------
RegionStep ==
  \E o \in Objects :
    \/ \E b \in Buffers, device \in BOOLEAN : Construct(o, b, device)
    \/ ConstructFails(o)
    \/ Destroy(o)
    \/ \E other \in Objects : MoveConstruct(o, other) \/ MoveAssign(o, other)

SliceStep ==
  \E x \in Slots, offset \in Offsets :
    \/ \E o \in Objects : CutRegionRest(x, o, offset)
    \/ \E y \in Slots : CutSliceRest(x, y, offset)
    \/ \E o \in Objects, size \in Sizes :
         SliceOf(x, o, offset, size) \/ CutRegion(x, o, offset, size)
    \/ \E y \in Slots, size \in Sizes : CutSlice(x, y, offset, size)

Next == RegionStep \/ SliceStep \/ \E x \in Slots : ToSgeFails(x)

Spec == Init /\ [][Next]_vars

-----------------------------------------------------------------------------
(* Properties. *)

Slice == [object : Objects, ptr : Words, size : Words, mr : Keys \cup {NoMr},
          trusted : BOOLEAN, inside : BOOLEAN]

(* Types; and a region object without a registration has no extent either, *)
(* so that nothing but an empty slice can be cut from one moved from.      *)
TypeOK ==
  /\ region \in [Objects -> [alive : BOOLEAN, mr : Keys \cup {NoMr},
                             dm : Keys \cup {NoMr}, ptr : Words, size : Words]]
  /\ \A o \in Objects : region[o].mr = NoMr => region[o] \in {Gone, Moved}
  /\ slices \in [Slots -> Slice \cup {NoSlice}]
  /\ made \in 0..MaxKeys
  /\ buffer \in [Keys -> Extent]
  /\ registered \subseteq 1..made
  /\ allocated \subseteq 1..made
  /\ fate \in {"running", "panicked", "undefined"}

(* Every registration the adapter accepts and all device memory belongs to *)
(* exactly one living region object, and every region object that has any  *)
(* still has it, and no memory without its registration: moves and         *)
(* destructors neither leak nor release twice.                             *)
OwnedOnce ==
  /\ registered = {region[o].mr : o \in Objects} \ {NoMr}
  /\ allocated = {region[o].dm : o \in Objects} \ {NoMr}
  /\ \A o \in Objects : region[o].dm \in {region[o].mr, NoMr}
  /\ \A o, p \in Objects :
       (o # p /\ region[o].mr # NoMr) => region[o].mr # region[p].mr

Covers(k, ptr, size) ==
  /\ buffer[k].ptr <= ptr
  /\ ptr + size <= buffer[k].ptr + buffer[k].size

(* A slice cut by slice(), however many times over, lies in the memory of  *)
(* the region, although slices of slices are cut at the wrong place: unless *)
(* a sum wrapped in a check, or the region object was replaced in between. *)
InsideRegistration ==
  \A x \in Slots : slices[x] # NoSlice =>
    LET s == slices[x] IN
      (s.trusted /\ s.mr # NoMr) => Covers(s.mr, s.ptr, s.size)

(* slice(): "Extracts a sub-slice of the memory slice." *)
SubSliceOfParent ==
  \A x \in Slots : slices[x] # NoSlice =>
    (slices[x].trusted => slices[x].inside)
=============================================================================
