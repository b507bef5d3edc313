------------------------------ MODULE MCBoardLink ------------------------------
(* Instances of BoardLink for TLC.                                          *)
EXTENDS BoardLink, TLC

(* Only the equality of session IDs is ever used.                           *)
SessionSymmetry == Permutations(Sessions)

(* Nor is anything but the equality of boot IDs: a behaviour that starts at *)
(* another boot ID is one of these with the two IDs exchanged.              *)
FirstBoot == CHOOSE b \in Boots : TRUE

FirstBootInit == LinkInit /\ mcu.boot = FirstBoot

FirstBootSpec == FirstBootInit /\ [][LinkNext]_allVars
=============================================================================
