------------------------------- MODULE MCMemory -------------------------------
(***************************************************************************)
(* Instances of Memory for TLC: words of four bits, two buffers.           *)
(***************************************************************************)
EXTENDS Memory, TLC

CONSTANTS o1, o2, x1, x2

TwoObjects == {o1, o2}
OneObject  == {o1}
TwoSlots   == {x1, x2}
OneSlot    == {x1}

TwoBuffers == {[ptr |-> 3, size |-> 5], [ptr |-> 9, size |-> 3]}
OneBuffer  == {[ptr |-> 3, size |-> 5]}

(* Region objects are interchangeable. *)
Symmetry == Permutations(TwoObjects)
=============================================================================
