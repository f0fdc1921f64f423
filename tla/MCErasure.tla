----------------------------- MODULE MCErasure -----------------------------
(* A small instance of Erasure for TLC.                                     *)
EXTENDS Erasure, TLC

CONSTANTS run1, run2, shaA, api, cli

Symmetry == Permutations({run1, run2}) \cup Permutations({api, cli})
=============================================================================
