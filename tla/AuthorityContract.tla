-------------------------- MODULE AuthorityContract --------------------------
(***************************************************************************)
(* What command_authority promises to every reader of its only output      *)
(* topic, /control/thruster_cmd, whatever its inputs do:                   *)
(*                                                                         *)
(*   - a message enables the thrusters only while the authority is armed;  *)
(*   - arming always takes a generation that no earlier message carried;   *)
(*   - nothing but arming moves the generation.                            *)
(*                                                                         *)
(* The bridge's arm barrier (AboardBridge) relies on exactly this much.    *)
(***************************************************************************)
EXTENDS Naturals

CONSTANT MaxGeneration   \* bound on arm_generation_ (a uint64 counter)

VARIABLES armed,         \* armed_
          generation,    \* arm_generation_
          published      \* the last message on /control/thruster_cmd

contractVars == <<armed, generation, published>>

Command == [armed : BOOLEAN, enable : BOOLEAN, generation : 0..MaxGeneration]

(* A message tells the truth about the authority at the moment it is sent.  *)
Truthful(a, g) ==
  \E e \in BOOLEAN :
    /\ e => a
    /\ published' = [armed |-> a, enable |-> e, generation |-> g]

(* Every step may or may not publish; the state it reports is the new one.  *)
MayPublish == published' = published \/ Truthful(armed', generation')

Arm ==
  /\ ~armed
  /\ generation < MaxGeneration
  /\ armed' = TRUE
  /\ generation' = generation + 1
  /\ published' = published

Disarm ==
  /\ armed
  /\ armed' = FALSE
  /\ generation' = generation
  /\ MayPublish

Publish ==
  /\ UNCHANGED <<armed, generation>>
  /\ Truthful(armed, generation)

ContractInit ==
  /\ armed = FALSE
  /\ generation = 0
  /\ published = [armed |-> FALSE, enable |-> FALSE, generation |-> 0]

ContractNext == Arm \/ Disarm \/ Publish

ContractSpec == ContractInit /\ [][ContractNext]_contractVars
=============================================================================
