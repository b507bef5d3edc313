---------------------------- MODULE MCAboardBridge ----------------------------
(* Instances of AboardBridge for TLC.                                       *)
EXTENDS AboardBridge, TLC

(* Only the equality of session IDs is ever used.                           *)
SessionSymmetry == Permutations(Sessions)
=============================================================================
