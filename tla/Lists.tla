-------------------------------- MODULE Lists --------------------------------
(***************************************************************************)
(* What the models of iterators share.  A filter is written with the       *)
(* places it keeps, by the flattening of the community modules: a form     *)
(* that can be reasoned about for lists of any length.                     *)
(***************************************************************************)
EXTENDS Integers, SequencesExt

(* The elements of s at some places, in their order.                       *)
Kept(s, at) == FlattenSeq([i \in DOMAIN s |-> IF i \in at THEN <<s[i]>> ELSE <<>>])
=============================================================================
