------------------------------ MODULE MCDataPath ------------------------------
(***************************************************************************)
(* An instance of DataPath for TLC: q1 has one completion queue for both   *)
(* directions, where the sends of q2 go too; q2's receives have their own. *)
(***************************************************************************)
EXTENDS DataPath

CONSTANTS q1, q2, shared, own

TwoQps == {q1, q2}
TwoCqs == {shared, own}
OnlyQ1 == {q1}

SendsTo == [q \in TwoQps |-> shared]
RecvsTo == [q \in TwoQps |-> IF q = q1 THEN shared ELSE own]
=============================================================================
