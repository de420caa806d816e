----------------------------- MODULE VerbProofs -----------------------------
(***************************************************************************)
(* Proofs about Verb, for any slices, sizes, fields and kMaxSge: when the  *)
(* two caches of a verb agree with it, when wr.sg_list dangles, and what   *)
(* the assertion of the atomic verbs is worth.                             *)
(***************************************************************************)
EXTENDS Verb, SequenceTheorems, TLAPS

(* The array of real_sgl never shrinks, so it still holds what wr counts.  *)
Sizes == wr.num_sge <= longest /\ longest <= Len(real_sgl)

(* A valid real_sgl is the list, unless the verb was moved since. *)
EntriesFit ==
  (constructed_real_sgl /\ "move/sgl" \notin stale) =>
    /\ real_size = Len(sgl)
    /\ \A i \in 1..Len(sgl) : real_sgl[i] = sgl[i]

(* The list and the verb are what they were when wr was built. *)
Undisturbed == constructed_wr /\ stale \cap {"list", "move/wr"} = {}

(* Then wr has the entries of real_sgl, whose array was not replaced. *)
WrFits ==
  Undisturbed =>
    /\ constructed_real_sgl
    /\ wr.num_sge = real_size
    /\ longest = real_size

(* ... and what construct_wr asserted of an atomic verb still holds. *)
AtomicBuilt == (Undisturbed /\ opcode = "atomic") => is_atomic_capable

(* length is the sum of the sizes (here of up to one slice), unless the    *)
(* list came from another verb.                                            *)
LengthCounted ==
  ~ miscounted =>
    /\ Len(sgl) = 0 => length = 0
    /\ Len(sgl) = 1 => length = SizeOf[sgl[1]]

IInv ==
  /\ TypeOK
  /\ Sizes
  /\ FieldsCoherent
  /\ EntriesFit
  /\ WrFits
  /\ AtomicBuilt
  /\ LengthCounted
  /\ DanglingExplained

-----------------------------------------------------------------------------
(* Lists and arrays are sequences. *)

LEMMA ListsAre ==
  Lists = {s \in Seq(Slices) : Len(s) \in 0..MaxSge}
<1>1. ASSUME NEW s \in Lists PROVE s \in Seq(Slices) /\ Len(s) \in 0..MaxSge
  <2>1. PICK n \in 0..MaxSge : s \in [1..n -> Slices]
    BY DEF Lists
  <2>2. n \in Nat
    BY VerbAssumption
  <2>3. s \in Seq(Slices) /\ Len(s) = n
    BY <2>1, <2>2, SeqDef, LenProperties
  <2>4. QED  BY <2>1, <2>3
<1>2. ASSUME NEW s \in Seq(Slices), Len(s) \in 0..MaxSge PROVE s \in Lists
  BY <1>2, LenProperties DEF Lists
<1>3. QED  BY <1>1, <1>2

LEMMA VerbTypes ==
  ASSUME TypeOK
  PROVE  /\ sgl \in Seq(Slices) /\ Len(sgl) \in 0..MaxSge /\ Len(sgl) \in Nat
         /\ \A i \in 1..Len(sgl) : sgl[i] \in Slices /\ SizeOf[sgl[i]] \in Nat
         /\ real_sgl \in Seq(Slices \cup {Garbage})
         /\ Len(real_sgl) \in 0..MaxSge /\ Len(real_sgl) \in Nat
         /\ \A i \in 1..Len(real_sgl) : real_sgl[i] \in Slices \cup {Garbage}
         /\ real_size \in 0..Len(real_sgl) /\ real_size \in Nat
         /\ wr.num_sge \in 0..MaxSge /\ wr.num_sge \in Nat
         /\ longest \in Nat /\ length \in Nat
<1>1. MaxSge \in Nat /\ \A s \in Slices : SizeOf[s] \in Nat
  BY VerbAssumption
<1>2. sgl \in Seq(Slices) /\ Len(sgl) \in 0..MaxSge
  BY ListsAre DEF TypeOK
<1>3. \A i \in 1..Len(sgl) : sgl[i] \in Slices
  BY <1>2, ElementOfSeq
<1>4. /\ real_sgl \in Seq(Slices \cup {Garbage})
      /\ Len(real_sgl) \in 0..MaxSge
  <2>1. PICK n \in 0..MaxSge : real_sgl \in [1..n -> Slices \cup {Garbage}]
    BY DEF TypeOK
  <2>2. n \in Nat
    BY <1>1
  <2>3. real_sgl \in Seq(Slices \cup {Garbage}) /\ Len(real_sgl) = n
    BY <2>1, <2>2, SeqDef, LenProperties
  <2>4. QED  BY <2>1, <2>3
<1>5. \A i \in 1..Len(real_sgl) : real_sgl[i] \in Slices \cup {Garbage}
  BY <1>4, ElementOfSeq
<1>6. wr.num_sge \in 0..MaxSge
  <2>1. wr \in WorkRequest \cup {NoWr}
    BY DEF TypeOK
  <2>2. QED  BY <1>1, <2>1 DEF WorkRequest, NoWr
<1>7. /\ real_size \in 0..Len(real_sgl) /\ longest \in 0..MaxSge
      /\ length \in Nat
  BY DEF TypeOK
<1>8. QED  BY <1>1, <1>2, <1>3, <1>4, <1>5, <1>6, <1>7

(* An array of at most kMaxSge slices, or of garbage, is a real_sgl. *)
LEMMA ArrayType ==
  ASSUME NEW n \in 0..MaxSge, NEW a \in [1..n -> Slices \cup {Garbage}]
  PROVE  /\ a \in UNION {[1..m -> Slices \cup {Garbage}] : m \in 0..MaxSge}
         /\ Len(a) = n
<1>1. n \in Nat
  BY VerbAssumption
<1>2. a \in Seq(Slices \cup {Garbage}) /\ Len(a) = n
  BY <1>1, SeqDef, LenProperties
<1>3. QED  BY <1>2

-----------------------------------------------------------------------------
(* Start, setters, changes of the list. *)

LEMMA InitIInv == Init => IInv
<1> SUFFICES ASSUME Init PROVE IInv
  OBVIOUS
<1>1. <<>> \in Lists /\ Len(<<>>) = 0
  BY EmptySeq, ListsAre, VerbAssumption
<1>2. /\ sgl \in Lists /\ length = 0 /\ opcode = None /\ wr_id \in Ids
      /\ notified \in BOOLEAN /\ imm = None /\ operand = 0 /\ remote = None
      /\ miscounted \in BOOLEAN /\ (~ miscounted => sgl = <<>>)
  BY <1>1 DEF Init, Constructed
<1>3. /\ real_sgl = <<>> /\ real_size = 0 /\ ~ constructed_real_sgl /\ wr = NoWr
      /\ ~ constructed_wr /\ ~ dangling /\ alive /\ stale = {} /\ longest = 0
      /\ constructed_real_sgl = FALSE /\ constructed_wr = FALSE
      /\ dangling = FALSE /\ alive = TRUE
  BY DEF Init
<1>4. real_sgl \in UNION {[1..n -> Slices \cup {Garbage}] : n \in 0..MaxSge}
  <2>1. 0 \in 0..MaxSge /\ <<>> \in [1..0 -> Slices \cup {Garbage}]
    BY VerbAssumption
  <2>2. QED  BY <1>3, <2>1
<1>5. TypeOK
  <2>1. /\ real_size \in 0..Len(real_sgl) /\ longest \in 0..MaxSge
        /\ length \in Nat /\ operand \in Operands
    BY <1>1, <1>2, <1>3, VerbAssumption
  <2>2. QED  BY <1>2, <1>3, <1>4, <2>1 DEF TypeOK
<1>6. Sizes
  BY <1>1, <1>3 DEF Sizes, NoWr
<1>7. LengthCounted
  BY <1>1, <1>2 DEF LengthCounted
<1>8. /\ FieldsCoherent /\ EntriesFit /\ WrFits /\ AtomicBuilt
      /\ DanglingExplained
  BY <1>3 DEF FieldsCoherent, EntriesFit, WrFits, AtomicBuilt, Undisturbed,
              DanglingExplained
<1>9. QED  BY <1>5, <1>6, <1>7, <1>8 DEF IInv

(* Every setter marks wr invalid, and leaves the list and real_sgl alone. *)
LEMMA SetterKeeps ==
  ASSUME IInv, Setter
  PROVE  IInv'
<1>1. /\ constructed_wr' = FALSE
      /\ UNCHANGED <<list, caches, alive, stale>>
  BY DEF Setter, SetId, SetOp, SetNotify, SetImm, ClearImm, SetRemote,
         SetOperand, SetAtomic, InvalidatesWr
<1>2. TypeOK
  BY DEF IInv
<1>3. /\ opcode' \in Ops \cup {None} /\ wr_id' \in Ids /\ notified' \in BOOLEAN
      /\ imm' \in Imms \cup {None} /\ operand' \in Operands
      /\ remote' \in Remotes \cup {None}
  BY <1>2 DEF Setter, SetId, SetOp, SetNotify, SetImm, ClearImm, SetRemote,
              SetOperand, SetAtomic, TypeOK, Ops
<1>4. TypeOK'
  BY <1>1, <1>2, <1>3 DEF TypeOK, list, caches
<1>5. (Sizes /\ EntriesFit /\ LengthCounted /\ DanglingExplained)'
  BY <1>1 DEF IInv, Sizes, EntriesFit, LengthCounted, DanglingExplained,
              list, caches
<1>6. (FieldsCoherent /\ WrFits /\ AtomicBuilt)'
  BY <1>1 DEF FieldsCoherent, WrFits, AtomicBuilt, Undisturbed
<1>7. QED  BY <1>4, <1>5, <1>6 DEF IInv

(* A change of the list marks real_sgl invalid, and is noted if wr is not. *)
LEMMA TouchKeeps ==
  ASSUME IInv, TouchesList, sgl' \in Lists, length' \in Nat,
         miscounted' \in BOOLEAN, LengthCounted'
  PROVE  IInv'
<1>1. /\ constructed_real_sgl' = FALSE
      /\ stale' = IF constructed_wr THEN stale \cup {"list"} ELSE stale
      /\ UNCHANGED <<scalars, real_sgl, real_size, wr, constructed_wr,
                     dangling, alive, longest>>
  BY DEF TouchesList
<1>2. TypeOK'
  BY <1>1 DEF IInv, TypeOK, scalars
<1>3. ~ Undisturbed'
  BY <1>1 DEF Undisturbed
<1>4. (EntriesFit /\ WrFits /\ AtomicBuilt)'
  BY <1>1, <1>3 DEF EntriesFit, WrFits, AtomicBuilt
<1>5. (Sizes /\ DanglingExplained)'
  BY <1>1 DEF IInv, Sizes, DanglingExplained
<1>6. FieldsCoherent'
  BY <1>1 DEF IInv, FieldsCoherent, Fields, scalars
<1>7. QED  BY <1>2, <1>4, <1>5, <1>6 DEF IInv

LEMMA SetSglKeeps ==
  ASSUME IInv, NEW s \in Slices, SetSgl(s)
  PROVE  IInv'
<1>1. <<s>> \in Seq(Slices) /\ Len(<<s>>) = 1 /\ <<s>>[1] = s
  OBVIOUS
<1>2. sgl' \in Lists
  BY <1>1, ListsAre, VerbAssumption DEF SetSgl
<1>3. length' \in Nat /\ miscounted' \in BOOLEAN
  BY VerbAssumption DEF SetSgl
<1>4. LengthCounted'
  BY <1>1 DEF SetSgl, LengthCounted
<1>5. QED  BY <1>2, <1>3, <1>4, TouchKeeps DEF SetSgl

LEMMA AddSglKeeps ==
  ASSUME IInv, NEW s \in Slices, AddSgl(s)
  PROVE  IInv'
<1>1. /\ Len(sgl) < MaxSge /\ sgl' = Append(sgl, s)
      /\ length' = length + SizeOf[s] /\ miscounted' = miscounted
      /\ TouchesList
  BY DEF AddSgl
<1>2. /\ TypeOK /\ sgl \in Seq(Slices) /\ Len(sgl) \in Nat /\ length \in Nat
      /\ SizeOf[s] \in Nat /\ MaxSge \in Nat
  BY VerbTypes, VerbAssumption DEF IInv
<1>3. /\ sgl' \in Seq(Slices) /\ Len(sgl') = Len(sgl) + 1
      /\ sgl'[Len(sgl) + 1] = s
  BY <1>1, <1>2, AppendProperties
<1>4. sgl' \in Lists
  BY <1>1, <1>2, <1>3, ListsAre
<1>5. length' \in Nat /\ miscounted' \in BOOLEAN
  BY <1>1, <1>2 DEF TypeOK
<1>6. LengthCounted'
  <2> SUFFICES ASSUME ~ miscounted, Len(sgl) = 0
               PROVE  length' = SizeOf[sgl'[1]]
    BY <1>1, <1>2, <1>3 DEF LengthCounted
  <2>1. length = 0
    BY DEF IInv, LengthCounted
  <2>2. QED  BY <1>1, <1>2, <1>3, <2>1
<1>7. QED  BY <1>1, <1>4, <1>5, <1>6, TouchKeeps

(* A move is noted for each cache that was valid. *)
LEMMA MovesKeep ==
  ASSUME IInv, NEW s \in Lists, Moves(s), notified' \in BOOLEAN
  PROVE  IInv'
<1>1. /\ sgl' = s /\ miscounted' = TRUE
      /\ constructed_wr => "move/wr" \in stale'
      /\ constructed_real_sgl => "move/sgl" \in stale'
      /\ stale \subseteq stale'
      /\ stale' \subseteq stale \cup {"move/wr", "move/sgl"}
      /\ UNCHANGED <<opcode, wr_id, imm, operand, remote, length, caches,
                     constructed_wr, alive>>
  BY DEF Moves
<1>2. TypeOK'
  BY <1>1 DEF IInv, TypeOK, caches
<1>3. ~ Undisturbed'
  BY <1>1 DEF Undisturbed
<1>4. (WrFits /\ AtomicBuilt /\ LengthCounted)'
  BY <1>1, <1>3 DEF WrFits, AtomicBuilt, LengthCounted
<1>5. EntriesFit'
  BY <1>1 DEF EntriesFit, caches
<1>6. (Sizes /\ DanglingExplained)'
  BY <1>1 DEF IInv, Sizes, DanglingExplained, caches
<1>7. FieldsCoherent'
  <2>1. Fields' = [Fields EXCEPT !.signaled = notified']
    BY <1>1 DEF Fields
  <2>2. constructed_wr' => constructed_wr /\ wr' = wr /\ "move/wr" \in stale'
    BY <1>1 DEF caches
  <2>3. QED  BY <2>1, <2>2 DEF IInv, FieldsCoherent, Fields
<1>8. QED  BY <1>2, <1>4, <1>5, <1>6, <1>7 DEF IInv

(* The process panics: the verb is left as it is. *)
LEMMA PanicKeeps ==
  ASSUME IInv, alive' \in BOOLEAN,
         UNCHANGED <<scalars, list, caches, constructed_wr, stale>>
  PROVE  IInv'
<1>1. TypeOK'
  BY DEF IInv, TypeOK, scalars, list, caches
<1>2. (Sizes /\ EntriesFit /\ LengthCounted /\ DanglingExplained)'
  BY DEF IInv, Sizes, EntriesFit, LengthCounted, DanglingExplained, list, caches
<1>3. FieldsCoherent'
  BY DEF IInv, FieldsCoherent, Fields, scalars, caches
<1>4. (WrFits /\ AtomicBuilt)'
  BY DEF IInv, WrFits, AtomicBuilt, Undisturbed, is_atomic_capable,
         scalars, list, caches
<1>5. QED  BY <1>1, <1>2, <1>3, <1>4 DEF IInv

-----------------------------------------------------------------------------
(* get_wr(). *)

(* construct_sgl: a real_sgl that was invalid holds the list afterwards,   *)
(* in an array that is no shorter, and longer if it is a new one.          *)
LEMMA ConstructSgl ==
  ASSUME TypeOK, construct_sgl
  PROVE  /\ constructed_real_sgl' = TRUE
         /\ real_sgl' \in UNION {[1..n -> Slices \cup {Garbage}] :
                                   n \in 0..MaxSge}
         /\ Len(real_sgl') \in Nat /\ Len(real_sgl) <= Len(real_sgl')
         /\ real_size' \in 0..Len(real_sgl')
         /\ constructed_real_sgl =>
              real_sgl' = real_sgl /\ real_size' = real_size
         /\ ~ constructed_real_sgl =>
              /\ real_size' = Len(sgl)
              /\ \A i \in 1..Len(sgl) : real_sgl'[i] = sgl[i]
         /\ Reallocates => Len(real_sgl) < real_size'
<1>1. /\ Len(sgl) \in Nat /\ Len(sgl) <= MaxSge /\ MaxSge \in Nat
      /\ Len(real_sgl) \in Nat /\ Len(real_sgl) <= MaxSge
      /\ real_size \in 0..Len(real_sgl)
      /\ \A i \in 1..Len(sgl) : sgl[i] \in Slices
      /\ \A i \in 1..Len(real_sgl) : real_sgl[i] \in Slices \cup {Garbage}
  BY VerbTypes, VerbAssumption
<1>2. /\ constructed_real_sgl' = TRUE
      /\ real_size' = IF constructed_real_sgl THEN real_size ELSE Len(sgl)
  BY DEF construct_sgl
<1>3. CASE constructed_real_sgl
  <2>1. real_sgl' = real_sgl /\ real_size' = real_size
    BY <1>3 DEF construct_sgl
  <2>2. ~ Reallocates
    BY <1>3 DEF Reallocates
  <2>3. QED  BY <1>1, <1>2, <1>3, <2>1, <2>2 DEF TypeOK
<1>4. CASE ~ constructed_real_sgl
  <2> DEFINE entry(i) == IF i <= Len(sgl) THEN sgl[i]
                         ELSE IF Reallocates THEN Garbage ELSE real_sgl[i]
  <2>1. PICK cap \in IF Reallocates THEN Len(sgl)..MaxSge ELSE {Len(real_sgl)} :
          real_sgl' = [i \in 1..cap |-> entry(i)]
    BY <1>4 DEF construct_sgl
  <2>2. /\ cap \in 0..MaxSge /\ cap \in Nat
        /\ Len(sgl) <= cap /\ Len(real_sgl) <= cap
    <3>1. CASE Reallocates
      BY <1>1, <2>1, <3>1 DEF Reallocates
    <3>2. CASE ~ Reallocates
      BY <1>1, <1>4, <2>1, <3>2 DEF Reallocates
    <3>3. QED  BY <3>1, <3>2
  <2>3. \A i \in 1..cap : entry(i) \in Slices \cup {Garbage}
    <3>1. CASE Reallocates
      BY <1>1, <2>2, <3>1
    <3>2. CASE ~ Reallocates
      <4>1. cap = Len(real_sgl)
        BY <2>1, <3>2
      <4>2. QED  BY <1>1, <3>2, <4>1
    <3>3. QED  BY <3>1, <3>2
  <2>4. \A i \in 1..Len(sgl) : entry(i) = sgl[i]
    BY <1>1
  <2> HIDE DEF entry
  <2>5. real_sgl' \in [1..cap -> Slices \cup {Garbage}]
    BY <2>1, <2>3
  <2>6. /\ real_sgl' \in UNION {[1..n -> Slices \cup {Garbage}] :
                                  n \in 0..MaxSge}
        /\ Len(real_sgl') = cap
    BY <2>2, <2>5, ArrayType
  <2>7. \A i \in 1..Len(sgl) : real_sgl'[i] = sgl[i]
    <3>1. \A i \in 1..Len(sgl) : i \in 1..cap
      BY <1>1, <2>2
    <3>2. QED  BY <2>1, <2>4, <3>1
  <2>8. Reallocates => Len(real_sgl) < real_size'
    BY <1>2, <1>4 DEF Reallocates
  <2>9. QED  BY <1>1, <1>2, <1>4, <2>2, <2>6, <2>7, <2>8
<1>5. QED  BY <1>3, <1>4

(* The part of the state that get_wr() leaves alone. *)
LEMMA GetWrFrame ==
  ASSUME GetWr
  PROVE  /\ construct_sgl /\ ~ GetWrPanics /\ constructed_wr' = TRUE
         /\ UNCHANGED <<scalars, list, alive>>
         /\ Fields' = Fields
         /\ constructed_wr => wr' = wr /\ dangling' = (dangling \/ Reallocates)
         /\ constructed_wr => longest' = MaxOf(longest, real_size')
         /\ ~ constructed_wr => /\ wr' = [fields |-> Fields, num_sge |-> real_size']
                                /\ dangling' = FALSE /\ longest' = real_size'
         /\ stale' = stale \ ((IF constructed_wr THEN {} ELSE {"list", "move/wr"})
                       \cup (IF constructed_real_sgl THEN {} ELSE {"move/sgl"}))
BY DEF GetWr, Fields, scalars

LEMMA GetWrTypes ==
  ASSUME IInv, GetWr
  PROVE  TypeOK'
<1>1. TypeOK /\ construct_sgl
  BY GetWrFrame DEF IInv
<1>2. MaxSge \in Nat /\ longest \in Nat /\ longest \in 0..MaxSge
  BY <1>1, VerbTypes, VerbAssumption DEF TypeOK
<1>3. real_size' \in 0..MaxSge /\ real_size' \in 0..Len(real_sgl')
  <2>1. /\ Len(real_sgl') \in Nat /\ real_size' \in 0..Len(real_sgl')
        /\ real_sgl' \in UNION {[1..n -> Slices \cup {Garbage}] :
                                  n \in 0..MaxSge}
    BY <1>1, ConstructSgl
  <2>2. Len(real_sgl') \in 0..MaxSge
    <3>1. PICK n \in 0..MaxSge : real_sgl' \in [1..n -> Slices \cup {Garbage}]
      BY <2>1
    <3>2. QED  BY <3>1, ArrayType
  <2>3. QED  BY <1>2, <2>1, <2>2
<1>4. wr' \in WorkRequest \cup {NoWr}
  <2>1. CASE constructed_wr
    BY <1>1, <2>1, GetWrFrame DEF TypeOK
  <2>2. CASE ~ constructed_wr
    <3>1. opcode \in Ops
      BY <1>1, GetWrFrame DEF GetWrPanics, TypeOK
    <3>2. /\ (IF opcode = "send" THEN None ELSE remote) \in Remotes \cup {None}
          /\ (IF opcode = "atomic" THEN operand ELSE 0) \in Operands
      BY <1>1, VerbAssumption DEF TypeOK
    <3>3. Fields \in [op : Ops, wr_id : Ids, signaled : BOOLEAN,
                      imm : Imms \cup {None}, remote : Remotes \cup {None},
                      operand : Operands]
      BY <1>1, <3>1, <3>2 DEF Fields, TypeOK
    <3>4. QED  BY <1>3, <2>2, <3>3, GetWrFrame DEF WorkRequest
  <2>3. QED  BY <2>1, <2>2
<1>5. longest' \in 0..MaxSge /\ dangling' \in BOOLEAN
  <2>1. CASE constructed_wr
    BY <1>1, <1>2, <1>3, <2>1, GetWrFrame DEF MaxOf, TypeOK
  <2>2. CASE ~ constructed_wr
    BY <1>3, <2>2, GetWrFrame
  <2>3. QED  BY <2>1, <2>2
<1>6. stale' \subseteq {"list", "move/wr", "move/sgl"}
  BY <1>1, GetWrFrame DEF TypeOK
<1>7. QED
  BY <1>1, <1>3, <1>4, <1>5, <1>6, GetWrFrame, ConstructSgl
     DEF TypeOK, scalars, list

LEMMA GetWrKeeps ==
  ASSUME IInv, GetWr
  PROVE  IInv'
<1>1. /\ TypeOK /\ construct_sgl /\ Sizes /\ WrFits /\ EntriesFit
      /\ AtomicBuilt /\ FieldsCoherent /\ DanglingExplained
  BY GetWrFrame DEF IInv
<1>2. /\ Len(real_sgl) \in Nat /\ Len(real_sgl') \in Nat
      /\ Len(real_sgl) <= Len(real_sgl')
      /\ real_size' \in 0..Len(real_sgl') /\ real_size' \in Nat
      /\ longest \in Nat /\ wr.num_sge \in Nat
      /\ wr.num_sge <= longest /\ longest <= Len(real_sgl)
  BY <1>1, VerbTypes, ConstructSgl DEF Sizes
<1>3. ~ constructed_wr => wr'.num_sge = real_size' /\ wr'.fields = Fields
  BY GetWrFrame
<1>4. Sizes'
  <2>1. CASE constructed_wr
    BY <1>2, <2>1, GetWrFrame DEF Sizes, MaxOf
  <2>2. CASE ~ constructed_wr
    BY <1>2, <1>3, <2>2, GetWrFrame DEF Sizes
  <2>3. QED  BY <2>1, <2>2
<1>5. DanglingExplained'
  <2>1. CASE constructed_wr /\ Reallocates
    <3>1. Len(real_sgl) < real_size'
      BY <1>1, <2>1, ConstructSgl
    <3>2. longest' >= real_size' /\ wr'.num_sge = wr.num_sge
      BY <1>2, <2>1, GetWrFrame DEF MaxOf
    <3>3. longest' \in Nat
      BY <1>2, <2>1, GetWrFrame DEF MaxOf
    <3>4. longest' > wr'.num_sge
      BY <1>2, <3>1, <3>2, <3>3
    <3>5. QED  BY <3>4 DEF DanglingExplained
  <2>2. CASE constructed_wr /\ ~ Reallocates
    <3>1. dangling' = dangling /\ wr' = wr /\ longest' = MaxOf(longest, real_size')
      BY <1>1, <2>2, GetWrFrame DEF TypeOK
    <3>2. dangling => longest > wr.num_sge
      BY <1>1 DEF DanglingExplained
    <3>3. QED  BY <1>2, <3>1, <3>2 DEF DanglingExplained, MaxOf
  <2>3. CASE ~ constructed_wr
    BY <2>3, GetWrFrame DEF DanglingExplained
  <2>4. QED  BY <2>1, <2>2, <2>3
<1>6. FieldsCoherent'
  <2>1. CASE constructed_wr
    BY <1>1, <2>1, GetWrFrame DEF FieldsCoherent, Fields, scalars
  <2>2. CASE ~ constructed_wr
    BY <1>3, <2>2, GetWrFrame DEF FieldsCoherent, Fields, scalars
  <2>3. QED  BY <2>1, <2>2
<1>7. EntriesFit'
  <2>1. sgl' = sgl
    BY GetWrFrame DEF list
  <2>2. CASE constructed_real_sgl
    BY <1>1, <2>1, <2>2, GetWrFrame, ConstructSgl DEF EntriesFit
  <2>3. CASE ~ constructed_real_sgl
    BY <1>1, <2>1, <2>3, ConstructSgl DEF EntriesFit
  <2>4. QED  BY <2>2, <2>3
<1>8. WrFits'
  <2>1. CASE constructed_wr
    <3>1. Undisturbed' => Undisturbed
      BY <2>1, GetWrFrame DEF Undisturbed
    <3>2. Undisturbed =>
            /\ real_size' = real_size /\ wr'.num_sge = real_size
            /\ longest' = real_size
      BY <1>1, <1>2, <2>1, GetWrFrame, ConstructSgl DEF WrFits, MaxOf
    <3>3. QED  BY <1>1, <3>1, <3>2, ConstructSgl DEF WrFits
  <2>2. CASE ~ constructed_wr
    BY <1>1, <1>3, <2>2, GetWrFrame, ConstructSgl DEF WrFits
  <2>3. QED  BY <2>1, <2>2
<1>9. AtomicBuilt'
  <2>1. is_atomic_capable' = is_atomic_capable /\ opcode' = opcode
    BY GetWrFrame DEF is_atomic_capable, list, scalars
  <2>2. CASE constructed_wr
    <3>1. Undisturbed' => Undisturbed
      BY <2>2, GetWrFrame DEF Undisturbed
    <3>2. QED  BY <1>1, <2>1, <3>1 DEF AtomicBuilt
  <2>3. CASE ~ constructed_wr
    BY <2>1, <2>3, GetWrFrame DEF AtomicBuilt, GetWrPanics
  <2>4. QED  BY <2>2, <2>3
<1>10. LengthCounted'
  BY GetWrFrame DEF IInv, LengthCounted, list
<1>11. QED
  BY <1>4, <1>5, <1>6, <1>7, <1>8, <1>9, <1>10, GetWrTypes DEF IInv

-----------------------------------------------------------------------------
(* The invariant. *)

LEMMA StepIInv == IInv /\ [Next]_vars => IInv'
<1> SUFFICES ASSUME IInv, [Next]_vars PROVE IInv'
  OBVIOUS
<1>1. CASE Setter
  BY <1>1, SetterKeeps
<1>2. ASSUME NEW s \in Slices, SetSgl(s) \/ AddSgl(s) PROVE IInv'
  BY <1>2, SetSglKeeps, AddSglKeeps
<1>3. CASE AddSglPanics \/ Panic
  BY <1>3, PanicKeeps DEF AddSglPanics, Panic
<1>4. ASSUME NEW s \in Lists, NEW note \in BOOLEAN, MoveInto(s, note)
      PROVE  IInv'
  BY <1>4, MovesKeep DEF MoveInto
<1>5. CASE MoveFrom
  <2>1. <<>> \in Lists
    BY EmptySeq, ListsAre, VerbAssumption
  <2>2. notified' \in BOOLEAN
    BY <1>5 DEF MoveFrom, IInv, TypeOK
  <2>3. QED  BY <1>5, <2>1, <2>2, MovesKeep DEF MoveFrom
<1>6. CASE GetWr
  BY <1>6, GetWrKeeps
<1>7. CASE UNCHANGED vars
  <2>1. alive' \in BOOLEAN
    BY <1>7 DEF vars, IInv, TypeOK
  <2>2. QED  BY <1>7, <2>1, PanicKeeps DEF vars
<1>8. QED  BY <1>1, <1>2, <1>3, <1>4, <1>5, <1>6, <1>7 DEF Next

(* The invariant that the theorems about the setters, moves and get_wr     *)
(* rest on: it relates each cache to the list it was made from.            *)
THEOREM Invariance == Spec => []IInv
BY InitIInv, StepIInv, PTL DEF Spec

-----------------------------------------------------------------------------
(* What follows from it. *)

(* What the adapter finds behind wr.sg_list is the list, if the array is   *)
(* still there, real_sgl is valid, and wr counts as many as there are.     *)
LEMMA SeenIsMeant ==
  ASSUME IInv, Valid, stale \cap {"move/wr", "move/sgl"} = {},
         longest <= wr.num_sge, Len(sgl) = wr.num_sge
  PROVE  Seen = Meant
<1>1. TypeOK
  BY DEF IInv
<1>2. wr.fields = Fields
  BY DEF IInv, FieldsCoherent, Fields, Valid
<1>3. ~ dangling
  BY <1>1, VerbTypes DEF IInv, DanglingExplained
<1>4. SubSeq(real_sgl, 1, wr.num_sge) = sgl
  <2> DEFINE n == Len(sgl)
  <2>1. /\ n \in Nat /\ n <= Len(real_sgl) /\ Len(real_sgl) \in Nat
        /\ wr.num_sge = n
        /\ \A i \in 1..n : real_sgl[i] = sgl[i]
        /\ \A i \in 1..n : real_sgl[i] \in Slices \cup {Garbage}
    <3>1. real_size = n /\ \A i \in 1..n : real_sgl[i] = sgl[i]
      BY DEF IInv, EntriesFit, Valid
    <3>2. QED  BY <1>1, <3>1, VerbTypes
  <2> HIDE DEF n
  <2>2. /\ SubSeq(real_sgl, 1, n) \in Seq(Slices \cup {Garbage})
        /\ Len(SubSeq(real_sgl, 1, n)) = IF 1 <= n THEN n - 1 + 1 ELSE 0
        /\ \A i \in 1..(n - 1 + 1) : SubSeq(real_sgl, 1, n)[i] = real_sgl[1 + i - 1]
    BY <2>1, SubSeqProperties
  <2>3. sgl \in Seq(Slices \cup {Garbage}) /\ Len(sgl) = n
    <3>1. sgl \in Seq(Slices)
      BY <1>1, VerbTypes
    <3>2. QED  BY <3>1, SeqMonotonic DEF n
  <2>4. /\ Len(SubSeq(real_sgl, 1, n)) = n
        /\ \A i \in 1..n : SubSeq(real_sgl, 1, n)[i] = sgl[i]
    BY <2>1, <2>2
  <2>5. QED  BY <2>1, <2>2, <2>3, <2>4, SeqEqual
<1>5. QED  BY <1>2, <1>3, <1>4 DEF Seen, Meant

(* Types: of the array behind real_sgl, which only ever grows, and of the  *)
(* work request that was built from it.                                    *)
THEOREM TypeCorrect == Spec => []TypeOK
<1>1. IInv => TypeOK
  BY DEF IInv
<1>2. QED  BY <1>1, Invariance, PTL

LEMMA CoherentIInv == IInv => Coherent
<1> SUFFICES ASSUME IInv, Valid, stale = {} PROVE Seen = Meant
  BY DEF Coherent
<1>1. Undisturbed /\ constructed_real_sgl
  BY DEF Undisturbed, Valid
<1>2. wr.num_sge = real_size /\ longest = real_size /\ real_size = Len(sgl)
  BY <1>1 DEF IInv, WrFits, EntriesFit
<1>3. longest <= wr.num_sge
  BY <1>2, VerbTypes DEF IInv
<1>4. QED  BY <1>2, <1>3, SeenIsMeant

(* A verb whose list was not touched and that was not moved while a cache  *)
(* was valid posts exactly what it says.                                   *)
THEOREM CoherentAlways == Spec => []Coherent
BY CoherentIInv, Invariance, PTL

(* A work request that is marked valid has the fields of the verb, but for *)
(* signaled after a move into the verb.                                    *)
THEOREM FieldsCoherentAlways == Spec => []FieldsCoherent
<1>1. IInv => FieldsCoherent
  BY DEF IInv
<1>2. QED  BY <1>1, Invariance, PTL

(* Lists of the same length may be set again and again, with posts between *)
(* them, although wr is built only once.                                   *)
THEOREM SameLengthReuseAlways == Spec => []SameLengthReuse
<1>1. IInv => SameLengthReuse
  BY SeenIsMeant DEF SameLengthReuse
<1>2. QED  BY <1>1, Invariance, PTL

(* wr.sg_list dangles only after a get_wr() with a longer list. *)
THEOREM DanglingExplainedAlways == Spec => []DanglingExplained
<1>1. IInv => DanglingExplained
  BY DEF IInv
<1>2. QED  BY <1>1, Invariance, PTL

LEMMA AtomicCapableIInv == IInv => AtomicCapable
<1> SUFFICES ASSUME IInv, Valid, wr.fields.op = "atomic", stale = {},
                    ~ miscounted
             PROVE  /\ Len(Seen.sges) = 1
                    /\ SizeOf[Seen.sges[1]] = 8
                    /\ Seen.sges[1] \in Aligned
  BY DEF AtomicCapable
<1>1. Seen.sges = sgl
  BY CoherentIInv DEF Coherent, Meant
<1>2. opcode = "atomic"
  BY DEF IInv, FieldsCoherent, Fields, Valid
<1>3. is_atomic_capable
  BY <1>2 DEF IInv, AtomicBuilt, Undisturbed, Valid
<1>4. length = SizeOf[sgl[1]]
  BY <1>3 DEF IInv, LengthCounted, is_atomic_capable
<1>5. QED  BY <1>1, <1>3, <1>4 DEF is_atomic_capable

(* What construct_wr asserts of an atomic verb holds at the post, unless   *)
(* the list was changed or moved in between, or came without its length.   *)
THEOREM AtomicCapableAlways == Spec => []AtomicCapable
BY AtomicCapableIInv, Invariance, PTL
=============================================================================
