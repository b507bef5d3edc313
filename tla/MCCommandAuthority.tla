-------------------------- MODULE MCCommandAuthority --------------------------
(* Instances of CommandAuthority for TLC.                                   *)
EXTENDS CommandAuthority

(* Every input expires with the first tick after it was received.           *)
TimeoutAtOnce == [i \in Inputs |-> 0]

(* The safety heartbeat, the body state and the target outlive one tick,    *)
(* as their timeouts (250, 150, 150 ms) outlive that of a source (100 ms).  *)
TimeoutStaggered ==
  [i \in Inputs |-> IF i \in {"safety", "body", "target"} THEN 1 ELSE 0]
=============================================================================
