-------------------------------- MODULE Verb --------------------------------
(***************************************************************************)
(* verb_pre.h: one rdma_send_family verb, its two caches and its setters.  *)
(* get_wr() keeps the work request (wr) and the array of its scatter-      *)
(* gather entries (real_sgl) between calls; setters mark a cache invalid.  *)
(* The adapter reads what wr points to at the time of the post.            *)
(*                                                                         *)
(* Other verbs appear only as the source or the target of a copy or move.  *)
(* Opcodes are reduced to the three kinds construct_wr tells apart, memory *)
(* slices to their size and alignment, operands to one value.  rdma_recv   *)
(* is the same class without the opcode and everything that goes with it.  *)
(***************************************************************************)
EXTENDS Naturals, Sequences

CONSTANTS
  Slices,     \* memory slices
  SizeOf,     \* their sizes in bytes
  Aligned,    \* those aligned to 8 bytes
  Ids,        \* work request ids
  Imms,       \* immediate data
  Operands,   \* compare, swap, add values and masks
  Remotes,    \* remote memory slices
  None,       \* no opcode, immediate data or remote memory
  Garbage,    \* memory that is not (any more) an entry of a list
  MaxSge,     \* kMaxSge
  MaxLength,  \* bound: the running sum of sizes, which moves leave behind
  WithMoves   \* are verbs copied and moved?

ASSUME VerbAssumption ==
  /\ SizeOf \in [Slices -> Nat]
  /\ Aligned \subseteq Slices
  /\ Garbage \notin Slices
  /\ None \notin Imms \cup Remotes \cup {"send", "rdma", "atomic"}
  /\ 0 \in Operands
  /\ MaxSge \in Nat \ {0}
  /\ MaxLength \in Nat
  /\ WithMoves \in BOOLEAN

Ops == {"send", "rdma", "atomic"}

VARIABLES
  opcode, wr_id, notified, imm, operand, remote,   \* the verb's fields
  sgl,                    \* its list of slices
  length,                 \* the running sum of their sizes
  real_sgl,               \* the cached entries: the vector's whole array
  real_size,              \* real_sgl.size(), at most the array's length
  constructed_real_sgl,   \* is real_sgl marked valid?
  wr,                     \* the cached work request
  constructed_wr,         \* is wr marked valid?
  dangling,               \* does wr.sg_list point to an array since freed?
  alive,                  \* has the process not panicked?
  stale,                  \* how the list changed behind a valid cache (history)
  longest,                \* longest real_sgl since wr was built (history)
  miscounted              \* was the list moved without its length? (history)

scalars == <<opcode, wr_id, notified, imm, operand, remote>>
list    == <<sgl, length, miscounted>>
caches  == <<real_sgl, real_size, constructed_real_sgl, wr, dangling, longest>>
vars    == <<scalars, list, caches, constructed_wr, alive, stale>>

Lists == UNION {[1..n -> Slices] : n \in 0..MaxSge}

NoWr == [num_sge |-> 0]

(* A new verb.  Its wr_id is not initialized, whichever constructor runs.  *)
(* The copy and the move constructor take over the list and notified, but  *)
(* nothing else; the constructor from a slice is set_sgl_entry.            *)
Constructed(s, note, moved) ==
  /\ opcode = None
  /\ wr_id \in Ids
  /\ notified = note
  /\ imm = None
  /\ operand = 0
  /\ remote = None
  /\ sgl = s
  /\ length = 0
  /\ miscounted = moved

Init ==
  /\ \/ Constructed(<<>>, FALSE, FALSE)
     \/ WithMoves /\ \E s \in Lists, note \in BOOLEAN : Constructed(s, note, TRUE)
  /\ real_sgl = <<>>
  /\ real_size = 0
  /\ constructed_real_sgl = FALSE
  /\ wr = NoWr
  /\ constructed_wr = FALSE
  /\ dangling = FALSE
  /\ alive = TRUE
  /\ stale = {}
  /\ longest = 0

-----------------------------------------------------------------------------
(* Setters of the fields.  Each marks wr invalid; those that compare with  *)
(* the old value first do nothing when it is the same.                     *)
InvalidatesWr ==
  /\ alive
  /\ constructed_wr' = FALSE
  /\ UNCHANGED <<list, caches, alive, stale>>

SetId(i) ==
  /\ wr_id # i
  /\ wr_id' = i
  /\ UNCHANGED <<opcode, notified, imm, operand, remote>>
  /\ InvalidatesWr

SetOp(op) ==
  /\ opcode # op
  /\ opcode' = op
  /\ UNCHANGED <<wr_id, notified, imm, operand, remote>>
  /\ InvalidatesWr

(* Seeded fault: set_notify forgets the cache. *)
SetNotifyOnly(note) ==
  /\ alive
  /\ notified # note
  /\ notified' = note
  /\ UNCHANGED <<opcode, wr_id, imm, operand, remote>>
  /\ UNCHANGED <<list, caches, constructed_wr, alive, stale>>

SetNotify(note) ==
  /\ notified # note
  /\ notified' = note
  /\ UNCHANGED <<opcode, wr_id, imm, operand, remote>>
  /\ InvalidatesWr

SetImm(x) ==
  /\ imm' = x
  /\ UNCHANGED <<opcode, wr_id, notified, operand, remote>>
  /\ InvalidatesWr

(* Seeded fault: clear_imm forgets the cache. *)
ClearImmOnly ==
  /\ alive
  /\ imm # None
  /\ imm' = None
  /\ UNCHANGED <<opcode, wr_id, notified, operand, remote>>
  /\ UNCHANGED <<list, caches, constructed_wr, alive, stale>>

ClearImm ==
  /\ imm # None
  /\ imm' = None
  /\ UNCHANGED <<opcode, wr_id, notified, operand, remote>>
  /\ InvalidatesWr

SetRemote(r) ==
  /\ remote' = r
  /\ UNCHANGED <<opcode, wr_id, notified, imm, operand>>
  /\ InvalidatesWr

(* set_compare, set_swap, set_add and the masks. *)
SetOperand(o) ==
  /\ operand' = o
  /\ UNCHANGED <<opcode, wr_id, notified, imm, remote>>
  /\ InvalidatesWr

(* set_cas, set_faa and their masked forms overwrite the opcode. *)
SetAtomic(o) ==
  /\ opcode' = "atomic"
  /\ operand' = o
  /\ UNCHANGED <<wr_id, notified, imm, remote>>
  /\ InvalidatesWr

-----------------------------------------------------------------------------
(* Changes of the list.  They mark real_sgl invalid, but not wr. *)
TouchesList ==
  /\ constructed_real_sgl' = FALSE
  /\ stale' = IF constructed_wr THEN stale \cup {"list"} ELSE stale
  /\ UNCHANGED <<scalars, real_sgl, real_size, wr, constructed_wr, dangling,
                 alive, longest>>

(* set_sgl_entry with one slice, the only number it compiles for. *)
SetSgl(s) ==
  /\ alive
  /\ sgl' = <<s>>
  /\ length' = SizeOf[s]
  /\ miscounted' = FALSE
  /\ TouchesList

(* Seeded fault: the limit of kMaxSge is not asserted. *)
AddSglUnchecked(s) ==
  /\ alive
  /\ length + SizeOf[s] <= MaxLength
  /\ sgl' = Append(sgl, s)
  /\ length' = length + SizeOf[s]
  /\ UNCHANGED miscounted
  /\ TouchesList

(* add_sgl_entry, one slice at a time. *)
AddSgl(s) ==
  /\ alive
  /\ Len(sgl) < MaxSge
  /\ length + SizeOf[s] <= MaxLength
  /\ sgl' = Append(sgl, s)
  /\ length' = length + SizeOf[s]
  /\ UNCHANGED miscounted
  /\ TouchesList

AddSglPanics ==
  /\ alive
  /\ Len(sgl) >= MaxSge
  /\ alive' = FALSE
  /\ UNCHANGED <<scalars, list, caches, constructed_wr, stale>>

(* Moves take the list and notified along and leave length, the other      *)
(* fields and both caches of either verb as they are.                      *)
Moves(s) ==
  /\ alive
  /\ WithMoves
  /\ sgl' = s
  /\ miscounted' = TRUE
  /\ stale' = stale \cup (IF constructed_wr THEN {"move/wr"} ELSE {})
                    \cup (IF constructed_real_sgl THEN {"move/sgl"} ELSE {})
  /\ UNCHANGED <<opcode, wr_id, imm, operand, remote, length, caches,
                 constructed_wr, alive>>

(* verb = std::move(other), where other has list s and notified note. *)
MoveInto(s, note) == Moves(s) /\ notified' = note

(* other = std::move(verb), or a construction from std::move(verb). *)
MoveFrom == Moves(<<>>) /\ UNCHANGED notified

-----------------------------------------------------------------------------
(* get_wr(), which execute() and post_verb() call for every post. *)

(* Seeded fault: the size of the entry is not looked at. *)
is_atomic_capable_any_size ==
  /\ Len(sgl) = 1
  /\ sgl[1] \in Aligned

is_atomic_capable ==
  /\ length = 8
  /\ Len(sgl) = 1
  /\ sgl[1] \in Aligned

(* The panic and the assertions on the way. *)
GetWrPanics ==
  \/ opcode = None
  \/ /\ ~ constructed_wr
     /\ \/ opcode # "send" /\ remote = None
        \/ opcode = "atomic" /\ ~ is_atomic_capable

(* Seeded fault: construct_sgl fills a new vector every time. *)
ReallocatesAlways == ~ constructed_real_sgl

(* construct_sgl: the vector keeps its array if the list fits, and moves   *)
(* to a new one, of a capacity the library chooses, if not.                *)
Reallocates == ~ constructed_real_sgl /\ Len(sgl) > Len(real_sgl)

(* Seeded fault: real_sgl is not rebuilt while wr is marked valid. *)
construct_sgl_unless_wr ==
  /\ constructed_real_sgl' = TRUE
  /\ IF constructed_real_sgl \/ constructed_wr
       THEN UNCHANGED <<real_sgl, real_size>>
       ELSE /\ real_size' = Len(sgl)
            /\ real_sgl' = sgl

construct_sgl ==
  /\ constructed_real_sgl' = TRUE
  /\ real_size' = IF constructed_real_sgl THEN real_size ELSE Len(sgl)
  /\ \E cap \in IF Reallocates THEN Len(sgl)..MaxSge ELSE {Len(real_sgl)} :
       real_sgl' = IF constructed_real_sgl THEN real_sgl
                   ELSE [i \in 1..cap |->
                           IF i <= Len(sgl) THEN sgl[i]
                           ELSE IF Reallocates THEN Garbage ELSE real_sgl[i]]

(* The fields of the work request of the given opcode. *)
Fields ==
  [op       |-> opcode,
   wr_id    |-> wr_id,
   signaled |-> notified,
   imm      |-> imm,
   remote   |-> IF opcode = "send" THEN None ELSE remote,
   operand  |-> IF opcode = "atomic" THEN operand ELSE 0]

MaxOf(a, b) == IF a < b THEN b ELSE a

(* construct_wr: wr is built only if it is marked invalid. *)
GetWr ==
  /\ alive
  /\ ~ GetWrPanics
  /\ construct_sgl
  /\ IF constructed_wr
       THEN /\ UNCHANGED wr
            /\ dangling' = (dangling \/ Reallocates)
            /\ longest' = MaxOf(longest, real_size')
       ELSE /\ wr' = [fields |-> Fields, num_sge |-> real_size']
            /\ dangling' = FALSE
            /\ longest' = real_size'
  /\ constructed_wr' = TRUE
  /\ stale' = stale \ ((IF constructed_wr THEN {} ELSE {"list", "move/wr"})
               \cup (IF constructed_real_sgl THEN {} ELSE {"move/sgl"}))
  /\ UNCHANGED <<scalars, list, alive>>

Panic ==
  /\ alive
  /\ GetWrPanics
  /\ alive' = FALSE
  /\ UNCHANGED <<scalars, list, caches, constructed_wr, stale>>

-----------------------------------------------------------------------------
Setter ==
  \/ \E i \in Ids : SetId(i)
  \/ \E op \in Ops : SetOp(op)
  \/ \E note \in BOOLEAN : SetNotify(note)
  \/ \E x \in Imms : SetImm(x)
  \/ ClearImm
  \/ \E r \in Remotes : SetRemote(r)
  \/ \E o \in Operands : SetOperand(o) \/ SetAtomic(o)

Next ==
  \/ Setter
  \/ \E s \in Slices : SetSgl(s) \/ AddSgl(s)
  \/ AddSglPanics
  \/ \E s \in Lists, note \in BOOLEAN : MoveInto(s, note)
  \/ MoveFrom
  \/ GetWr
  \/ Panic

Spec == Init /\ [][Next]_vars

-----------------------------------------------------------------------------
(* Properties. *)

WorkRequest ==
  [fields : [op : Ops, wr_id : Ids, signaled : BOOLEAN, imm : Imms \cup {None},
             remote : Remotes \cup {None}, operand : Operands],
   num_sge : 0..MaxSge]

TypeOK ==
  /\ opcode \in Ops \cup {None}
  /\ wr_id \in Ids
  /\ notified \in BOOLEAN
  /\ imm \in Imms \cup {None}
  /\ operand \in Operands
  /\ remote \in Remotes \cup {None}
  /\ sgl \in Lists
  /\ length \in Nat
  /\ real_sgl \in UNION {[1..n -> Slices \cup {Garbage}] : n \in 0..MaxSge}
  /\ real_size \in 0..Len(real_sgl)
  /\ constructed_real_sgl \in BOOLEAN
  /\ wr \in WorkRequest \cup {NoWr}
  /\ constructed_wr \in BOOLEAN
  /\ dangling \in BOOLEAN
  /\ alive \in BOOLEAN
  /\ stale \subseteq {"list", "move/wr", "move/sgl"}
  /\ longest \in 0..MaxSge
  /\ miscounted \in BOOLEAN

(* Both caches valid: a post hands the adapter wr as it is. *)
Valid == constructed_wr /\ constructed_real_sgl

(* What the adapter finds in wr and behind wr.sg_list, and what it should. *)
Seen ==
  [fields |-> wr.fields,
   sges   |-> IF dangling /\ wr.num_sge > 0 THEN <<Garbage>>
              ELSE SubSeq(real_sgl, 1, wr.num_sge)]

Meant == [fields |-> Fields, sges |-> sgl]

(* The caches agree with the verb unless its list was changed, or the verb *)
(* moved, while a cache was valid.                                         *)
Coherent == (Valid /\ stale = {}) => Seen = Meant

(* A work request that is marked valid has the fields of the verb, however *)
(* the setters, list changes and moves are mixed: all but signaled always, *)
(* signaled unless the verb was moved while the work request was valid.    *)
FieldsCoherent ==
  constructed_wr =>
    /\ wr.fields = [Fields EXCEPT !.signaled = wr.fields.signaled]
    /\ "move/wr" \notin stale => wr.fields.signaled = notified

(* Giving a verb a new list of the same length again and again is safe,    *)
(* although wr is not rebuilt: as long as no list in between was longer,   *)
(* wr.sg_list and wr.num_sge still fit.                                    *)
SameLengthReuse ==
  (/\ Valid
   /\ stale \cap {"move/wr", "move/sgl"} = {}
   /\ longest <= wr.num_sge
   /\ Len(sgl) = wr.num_sge) => Seen = Meant

(* wr.sg_list points to a freed array only if get_wr() was called with a   *)
(* list longer than the one wr was built for; shorter lists and lists of   *)
(* the same length never leave a dangling pointer behind.                  *)
DanglingExplained == dangling => longest > wr.num_sge

(* RDMALIB2_ASSERT(is_atomic_capable()): an atomic work request that is    *)
(* posted has one entry, of 8 aligned bytes, unless the list was changed   *)
(* after the assertion or came from another verb without its length.       *)
AtomicCapable ==
  (/\ Valid
   /\ wr.fields.op = "atomic"
   /\ stale = {}
   /\ ~ miscounted) =>
     /\ Len(Seen.sges) = 1
     /\ SizeOf[Seen.sges[1]] = 8
     /\ Seen.sges[1] \in Aligned

(* get_wr(): "Constructs, caches, and gets the corresponding work request  *)
(* structure of the current verb object."                                  *)
GetWrReflectsVerb == Valid => Seen = Meant
=============================================================================
