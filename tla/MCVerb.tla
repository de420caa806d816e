-------------------------------- MODULE MCVerb --------------------------------
(***************************************************************************)
(* Instances of Verb for TLC.                                              *)
(***************************************************************************)
EXTENDS Verb, TLC

CONSTANTS
  word, odd, block,   \* 8 aligned bytes, 8 unaligned ones, 16 aligned ones
  i1, i2, x1, r1

WordAndBlock == {word, block}
AllSlices    == {word, odd, block}

SizesOfAll == word :> 8 @@ odd :> 8 @@ block :> 16
SizesOfTwo == word :> 8 @@ block :> 16
AlignedOfAll == {word, block}
=============================================================================
