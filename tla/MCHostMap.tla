------------------------------ MODULE MCHostMap ------------------------------
(* An instance of HostMap for TLC: two tags, two definitions.               *)
EXTENDS HostMap

DeployedMap == [t \in {"tag1"} |-> "wall"]
=============================================================================
