------------------------------ MODULE MCRecreate ------------------------------
(***************************************************************************)
(* Recreate for TLC.                                                       *)
(***************************************************************************)
EXTENDS Recreate, TLC

\* Container ids are interchangeable; only safety runs use this.
IdSymmetry == Permutations(Ids)
=============================================================================
