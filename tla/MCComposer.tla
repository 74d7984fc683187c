----------------------------- MODULE MCComposer -----------------------------
(* The instance of Composer that TLC checks. *)
EXTENDS Composer, TLC

WindowSymmetry == Permutations(Windows)
=============================================================================
