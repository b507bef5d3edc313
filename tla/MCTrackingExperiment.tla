------------------------- MODULE MCTrackingExperiment -------------------------
(* Instances of TrackingExperiment for TLC.                                 *)
EXTENDS TrackingExperiment

(* One task for each controller; two tasks of the same controller.          *)
BothControllers == [g \in Goals |-> IF g = "station" THEN "pid" ELSE "rl"]
SameController  == [g \in Goals |-> "pid"]
=============================================================================
