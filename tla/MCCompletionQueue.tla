-------------------------- MODULE MCCompletionQueue --------------------------
(***************************************************************************)
(* Instances of CompletionQueue for TLC.                                   *)
(***************************************************************************)
EXTENDS CompletionQueue, TLC

CONSTANTS t1, t2

TwoThreads == {t1, t2}

Both == BOOLEAN
Good == {TRUE}
=============================================================================
