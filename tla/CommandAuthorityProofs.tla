------------------------ MODULE CommandAuthorityProofs ------------------------
(***************************************************************************)
(* Machine-checked proofs about CommandAuthority, for every choice of      *)
(* timeouts, limits, running producers and generation bound.               *)
(***************************************************************************)
EXTENDS CommandAuthority, TLAPS

USE DEF Sources, Inputs, CommandKinds, BodyKinds, TargetKinds, ActiveSources,
        Timers, Command

(* What evaluate() does to the typed variables it writes, whichever         *)
(* commands and ages the calling handler hands it.                          *)
LEMMA EvaluateTypes ==
  ASSUME AuthorityAssumption, TypeOK, NEW cmds, NEW ages, Evaluate(cmds, ages)
  PROVE  /\ active_source' \in ActiveSources
         /\ armed' \in BOOLEAN
         /\ fault_latched' \in BOOLEAN
         /\ output' \in Limits \cup {0}
         /\ output_enabled' \in BOOLEAN
         /\ arm_generation' \in 0..MaxGeneration
  BY DEF AuthorityAssumption, TypeOK, Evaluate, ScaledOutput, Drives, Trips, Hybrid,
         ManualOverride

(* A published message is well typed when the state it reports is.          *)
LEMMA PublishTypes ==
  ASSUME armed' \in BOOLEAN, output_enabled' \in BOOLEAN,
         arm_generation' \in 0..MaxGeneration, PublishCommand
  PROVE  thruster_cmd' \in Command
  BY DEF PublishCommand

(* TypeOK is inductive.                                                     *)
LEMMA TypeStep ==
  ASSUME AuthorityAssumption, TypeOK, [Next]_vars
  PROVE  TypeOK'
<1> USE DEF TypeOK, Missing, Fresh
<1>1. ASSUME NEW s \in Producers \ {"rl"}, NEW kind \in CommandKinds,
             OnSourceCommand(s, kind)
      PROVE  TypeOK'
  <2>1. /\ source_commands' \in [Sources -> CommandKinds]
        /\ age' \in [Inputs -> Nat]
        /\ \A i \in Inputs : age'[i] <= Missing(i)
    BY <1>1 DEF OnSourceCommand, Received, AuthorityAssumption
  <2>2. /\ active_source' \in ActiveSources
        /\ armed' \in BOOLEAN
        /\ fault_latched' \in BOOLEAN
        /\ output' \in Limits \cup {0}
        /\ output_enabled' \in BOOLEAN
        /\ arm_generation' \in 0..MaxGeneration
        /\ thruster_cmd' \in Command
    <3>1. CASE armed /\ s \in {selected_source, "manual"}
      BY <1>1, <3>1, EvaluateTypes
         DEF OnSourceCommand, PublishFreshSourceCommand, PublishCommand
    <3>2. CASE ~(armed /\ s \in {selected_source, "manual"})
      BY <1>1, <3>2
         DEF OnSourceCommand, PublishFreshSourceCommand, armVars, outputVars
    <3> QED BY <3>1, <3>2
  <2> QED BY <1>1, <2>1, <2>2 DEF OnSourceCommand
<1>2. ASSUME NEW wellFormed \in BOOLEAN, OnRlAction(wellFormed)
      PROVE  TypeOK'
  <2>1. /\ source_commands' \in [Sources -> CommandKinds]
        /\ age' \in [Inputs -> Nat]
        /\ \A i \in Inputs : age'[i] <= Missing(i)
    BY <1>2 DEF OnRlAction, Received, AuthorityAssumption
  <2>2. /\ active_source' \in ActiveSources
        /\ armed' \in BOOLEAN
        /\ fault_latched' \in BOOLEAN
        /\ output' \in Limits \cup {0}
        /\ output_enabled' \in BOOLEAN
        /\ arm_generation' \in 0..MaxGeneration
        /\ thruster_cmd' \in Command
    <3>1. CASE armed /\ "rl" \in {selected_source, "manual"}
      BY <1>2, <3>1, EvaluateTypes
         DEF OnRlAction, PublishFreshSourceCommand, PublishCommand
    <3>2. CASE ~(armed /\ "rl" \in {selected_source, "manual"})
      BY <1>2, <3>2
         DEF OnRlAction, PublishFreshSourceCommand, armVars, outputVars
    <3> QED BY <3>1, <3>2
  <2> QED BY <1>2, <2>1, <2>2 DEF OnRlAction
<1>3. ASSUME NEW kind \in BodyInputs, OnBodyState(kind)
      PROVE  TypeOK'
  BY <1>3 DEF OnBodyState, Received, armVars, outputVars, AuthorityAssumption
<1>4. ASSUME NEW kind \in TargetInputs, OnTarget(kind)
      PROVE  TypeOK'
  BY <1>4 DEF OnTarget, Received, armVars, outputVars, AuthorityAssumption
<1>5. ASSUME NEW abort \in BOOLEAN, OnSafety(abort)
      PROVE  TypeOK'
  <2>1. age' \in [Inputs -> Nat] /\ \A i \in Inputs : age'[i] <= Missing(i)
    BY <1>5 DEF OnSafety, Received, AuthorityAssumption
  <2>2. CASE abort /\ armed
    <3>1. /\ armed' = FALSE /\ output_enabled' = FALSE /\ output' = 0
          /\ fault_latched' = TRUE
          /\ UNCHANGED <<arm_generation, active_source>>
          /\ PublishCommand
      BY <1>5, <2>2 DEF OnSafety
    <3>2. thruster_cmd' \in Command
      BY <3>1, PublishTypes
    <3> QED BY <1>5, <2>1, <3>1, <3>2 DEF OnSafety
  <2>3. CASE ~(abort /\ armed)
    BY <1>5, <2>1, <2>3 DEF OnSafety, armVars, outputVars
  <2> QED BY <2>2, <2>3
<1>6. ASSUME NEW limit \in Limits, SetPwmLimit(limit)
      PROVE  TypeOK'
  BY <1>6 DEF SetPwmLimit, inputVars, armVars, outputVars
<1>7. ASSUME NEW source \in Sources, NEW clear_fault \in BOOLEAN,
             Disarm(source, clear_fault)
      PROVE  TypeOK'
  <2>1. thruster_cmd' \in Command
    BY <1>7, PublishTypes DEF Disarm
  <2> QED BY <1>7, <2>1 DEF Disarm, inputVars
<1>8. ASSUME NEW source \in Sources, NEW clear_fault \in BOOLEAN,
             Arm(source, clear_fault)
      PROVE  TypeOK'
  BY <1>8 DEF Arm, ArmGeneration, inputVars, outputVars, AuthorityAssumption
<1>9. ASSUME NEW source \in Sources, NEW arm \in BOOLEAN, ClearFault(source, arm)
      PROVE  TypeOK'
  <2>1. /\ fault_latched' \in BOOLEAN
        /\ UNCHANGED <<source_commands, body, target, age,
                       absolute_localization_seen, abort_active,
                       selected_source, active_source, armed, arm_generation,
                       action_limit, output, output_enabled, thruster_cmd,
                       timersDue>>
    BY <1>9 DEF ClearFault, inputVars, outputVars
  <2> QED BY <2>1
<1>10. CASE EvaluationTimer
  BY <1>10, EvaluateTypes DEF EvaluationTimer, inputVars
<1>11. CASE CommandTimer
  <2>1. thruster_cmd' \in Command
    BY <1>11, PublishTypes DEF CommandTimer, armVars, outputVars
  <2> QED BY <1>11, <2>1 DEF CommandTimer, inputVars, armVars, outputVars
<1>12. CASE Tick
  BY <1>12 DEF Tick, Older, armVars, outputVars, AuthorityAssumption
<1>13. CASE UNCHANGED vars
  BY <1>13 DEF vars
<1> QED
  BY <1>1, <1>2, <1>3, <1>4, <1>5, <1>6, <1>7, <1>8, <1>9, <1>10, <1>11,
     <1>12, <1>13 DEF Next

(* The initial state is well typed.                                         *)
LEMMA InitTypes == Init => TypeOK
<1> SUFFICES ASSUME Init PROVE TypeOK
  OBVIOUS
<1>1. age \in [Inputs -> Nat] /\ \A i \in Inputs : age[i] <= Missing(i)
  BY AuthorityAssumption DEF Init, Missing, AuthorityAssumption
<1>2. thruster_cmd \in Command
  BY AuthorityAssumption DEF Init, AuthorityAssumption
<1>3. arm_generation \in 0..MaxGeneration /\ action_limit \in Limits
  BY AuthorityAssumption DEF Init, AuthorityAssumption
<1> QED BY <1>1, <1>2, <1>3 DEF Init, TypeOK

(* Every variable of the authority keeps its type, and the ages saturate.   *)
THEOREM AuthorityTypeCorrect == Spec => []TypeOK
  BY InitTypes, TypeStep, AuthorityAssumption, PTL DEF Spec

-----------------------------------------------------------------------------
(* The inductive invariant.  ActiveFollowsSelection is the strengthening:   *)
(* without it a malformed policy action could erase the command an enabled  *)
(* output rests on without an evaluation in the same callback.              *)
AuthorityInv ==
  /\ TypeOK
  /\ ArmedIsHealthy
  /\ ActiveFollowsSelection
  /\ EnabledOutputIsFresh
  /\ DisarmedMessageIsOlder

(* The inputs an enabled output rests on, as a predicate of the source that *)
(* shapes it and of the ages.                                               *)
Rests(src, ages) ==
  /\ Fresh(ages, "safety")
  /\ src \in {"manual", "pid+manual"} => Fresh(ages, "manual")
  /\ src \in {"pid", "pid+manual"} => Fresh(ages, "pid")
  /\ src = "rl" => Fresh(ages, "rl")
  /\ src # "manual" => Fresh(ages, "body") /\ Fresh(ages, "target")

(* What evaluate() establishes, for any commands and ages.                  *)
LEMMA EvaluateOutcome ==
  ASSUME TypeOK, ArmedIsHealthy, NEW cmds, NEW ages, Evaluate(cmds, ages)
  PROVE  /\ armed' => armed /\ ~fault_latched'
         /\ output_enabled' => armed'
         /\ output_enabled' =>
              \/ active_source' \in {selected_source, "manual"}
              \/ active_source' = "pid+manual" /\ selected_source = "pid"
         /\ output_enabled' => Rests(active_source', ages)
         /\ arm_generation' = arm_generation
<1>1. output_enabled' <=> Drives(cmds, ages)
  BY DEF Evaluate
<1>2. armed' => armed /\ ~fault_latched'
  BY DEF Evaluate, ArmedIsHealthy
<1>3. output_enabled' => armed'
  BY <1>1 DEF Evaluate, Trips, Drives
<1>4. output_enabled' =>
        \/ active_source' \in {selected_source, "manual"}
        \/ active_source' = "pid+manual" /\ selected_source = "pid"
  BY DEF Evaluate, Hybrid
<1>5. ASSUME output_enabled' PROVE Rests(active_source', ages)
  <2>1. CASE Hybrid(cmds, ages)
    <3>1. ~ManualOverride(cmds, ages) /\ active_source' = "pid+manual"
          /\ selected_source = "pid" /\ SourceReady(cmds, ages, "manual")
      BY <2>1 DEF Hybrid, ManualOverride, ManualActive, Evaluate
    <3>2. ~PrearmFailure(cmds, ages, fault_latched, "pid")
      BY <1>1, <1>5, <3>1 DEF Drives
    <3> QED BY <3>1, <3>2 DEF PrearmFailure, CommonFailure, AutomaticFailure,
                              SourceReady, SourceIntact, Rests
  <2>2. CASE ManualOverride(cmds, ages)
    <3>1. active_source' = "manual" /\ SourceReady(cmds, ages, "manual")
      BY <2>2 DEF ManualOverride, ManualActive, Evaluate
    <3>2. ~CommonFailure(ages, fault_latched)
      BY <1>1, <1>5, <2>2 DEF Drives
    <3> QED BY <3>1, <3>2 DEF CommonFailure, SourceReady, SourceIntact, Rests
  <2>3. CASE ~Hybrid(cmds, ages) /\ ~ManualOverride(cmds, ages)
    <3>1. active_source' = selected_source
      BY <2>3 DEF Evaluate
    <3>2. ~PrearmFailure(cmds, ages, fault_latched, selected_source)
      BY <1>1, <1>5, <2>3 DEF Drives
    <3> QED BY <3>1, <3>2 DEF PrearmFailure, CommonFailure, AutomaticFailure,
                              SourceReady, SourceIntact, Rests, TypeOK
  <2> QED BY <2>1, <2>2, <2>3
<1>6. arm_generation' = arm_generation
  BY DEF Evaluate
<1> QED BY <1>2, <1>3, <1>4, <1>5, <1>6

(* A message published by a step that neither arms nor moves the generation *)
(* keeps the generation protocol.                                           *)
LEMMA PublishKeepsOrder ==
  ASSUME TypeOK, TypeOK', DisarmedMessageIsOlder, armed' => armed,
         arm_generation' = arm_generation,
         output_enabled' => armed',
         PublishCommand \/ thruster_cmd' = thruster_cmd
  PROVE  DisarmedMessageIsOlder'
  BY DEF TypeOK, DisarmedMessageIsOlder, PublishCommand

(* A step that changes neither the armed state nor the output keeps the     *)
(* freshness of an enabled output as long as ages do not grow.              *)
LEMMA YoungerKeepsFresh ==
  ASSUME AuthorityAssumption, TypeOK, TypeOK', EnabledOutputIsFresh,
         UNCHANGED <<armed, active_source, output_enabled, timersDue>>,
         \A i \in Inputs : age'[i] <= age[i]
  PROVE  EnabledOutputIsFresh'
  BY DEF AuthorityAssumption, TypeOK, EnabledOutputIsFresh, Fresh

(* The tail of a source subscription: either it evaluates on what it stored *)
(* and publishes, or it leaves the armed state and the output alone.        *)
LEMMA SourceStep ==
  ASSUME AuthorityAssumption, AuthorityInv, TypeOK', NEW s \in Sources,
         PublishFreshSourceCommand(source_commands', age', s),
         UNCHANGED <<abort_active, selected_source, timersDue>>,
         \A i \in Inputs \ {s} : age'[i] <= age[i],
         age'[s] <= age[s] \/ s = "rl"
  PROVE  AuthorityInv'
<1> USE DEF AuthorityInv
<1>1. CASE armed /\ s \in {selected_source, "manual"}
  <2>1. Evaluate(source_commands', age') /\ PublishCommand
    BY <1>1 DEF PublishFreshSourceCommand
  <2>2. /\ armed' => armed /\ ~fault_latched'
        /\ output_enabled' => armed'
        /\ output_enabled' =>
             \/ active_source' \in {selected_source, "manual"}
             \/ active_source' = "pid+manual" /\ selected_source = "pid"
        /\ output_enabled' => Rests(active_source', age')
        /\ arm_generation' = arm_generation
    BY <2>1, EvaluateOutcome
  <2>3. ArmedIsHealthy'
    BY <2>2 DEF ArmedIsHealthy
  <2>4. ActiveFollowsSelection'
    BY <2>2 DEF ActiveFollowsSelection
  <2>5. EnabledOutputIsFresh'
    BY <2>2 DEF EnabledOutputIsFresh, Rests, Fresh
  <2>6. DisarmedMessageIsOlder'
    BY <2>1, <2>2, PublishKeepsOrder
  <2> QED BY <2>3, <2>4, <2>5, <2>6
<1>2. CASE ~(armed /\ s \in {selected_source, "manual"})
  <2>1. UNCHANGED <<armVars, outputVars, thruster_cmd>>
    BY <1>2 DEF PublishFreshSourceCommand
  <2>2. ArmedIsHealthy' /\ ActiveFollowsSelection' /\ DisarmedMessageIsOlder'
    BY <2>1 DEF armVars, outputVars, ArmedIsHealthy, ActiveFollowsSelection,
                DisarmedMessageIsOlder
  <2>3. ASSUME output_enabled', "evaluation" \notin timersDue'
        PROVE  armed' /\ Rests(active_source', age')
    <3>1. armed /\ Rests(active_source, age)
      BY <2>1, <2>3 DEF outputVars, EnabledOutputIsFresh, Rests, Fresh
    <3>2. s = "rl" => active_source # "rl"
      BY <1>2, <2>1, <2>3, <3>1 DEF outputVars, ActiveFollowsSelection, TypeOK
    <3>3. \A i \in Inputs : Fresh(age, i) /\ i # "rl" => Fresh(age', i)
      BY DEF AuthorityAssumption, TypeOK, Fresh
    <3>4. s # "rl" /\ Fresh(age, "rl") => Fresh(age', "rl")
      BY DEF AuthorityAssumption, TypeOK, Fresh
    <3> QED BY <2>1, <3>1, <3>2, <3>3, <3>4 DEF armVars, outputVars, Rests
  <2>4. EnabledOutputIsFresh'
    BY <2>3 DEF EnabledOutputIsFresh, Rests, Fresh
  <2> QED BY <2>2, <2>4
<1> QED BY <1>1, <1>2

(* Every step of the authority preserves the inductive invariant.           *)
LEMMA InvStep ==
  ASSUME AuthorityAssumption, AuthorityInv, [Next]_vars
  PROVE  AuthorityInv'
<1>0. TypeOK'
  BY TypeStep DEF AuthorityInv
<1> USE DEF AuthorityInv
<1>1. ASSUME NEW s \in Producers \ {"rl"}, NEW kind \in CommandKinds,
             OnSourceCommand(s, kind)
      PROVE  AuthorityInv'
  <2>1. s \in Sources /\ \A i \in Inputs : age'[i] <= age[i]
    BY <1>1 DEF OnSourceCommand, Received, AuthorityAssumption, TypeOK
  <2> QED BY <1>0, <1>1, <2>1, SourceStep DEF OnSourceCommand
<1>2. ASSUME NEW wellFormed \in BOOLEAN, OnRlAction(wellFormed)
      PROVE  AuthorityInv'
  <2>1. \A i \in Inputs \ {"rl"} : age'[i] <= age[i]
    BY <1>2 DEF OnRlAction, Received, AuthorityAssumption, TypeOK
  <2> QED BY <1>0, <1>2, <2>1, SourceStep DEF OnRlAction
<1>3. ASSUME NEW kind \in BodyInputs, OnBodyState(kind)
      PROVE  AuthorityInv'
  <2>1. \A i \in Inputs : age'[i] <= age[i]
    BY <1>3 DEF OnBodyState, Received, TypeOK
  <2>2. EnabledOutputIsFresh'
    BY <1>0, <1>3, <2>1, YoungerKeepsFresh DEF OnBodyState, armVars, outputVars
  <2> QED BY <1>0, <1>3, <2>2 DEF OnBodyState, armVars, outputVars,
             ArmedIsHealthy, ActiveFollowsSelection, DisarmedMessageIsOlder
<1>4. ASSUME NEW kind \in TargetInputs, OnTarget(kind)
      PROVE  AuthorityInv'
  <2>1. \A i \in Inputs : age'[i] <= age[i]
    BY <1>4 DEF OnTarget, Received, TypeOK
  <2>2. EnabledOutputIsFresh'
    BY <1>0, <1>4, <2>1, YoungerKeepsFresh DEF OnTarget, armVars, outputVars
  <2> QED BY <1>0, <1>4, <2>2 DEF OnTarget, armVars, outputVars,
             ArmedIsHealthy, ActiveFollowsSelection, DisarmedMessageIsOlder
<1>5. ASSUME NEW abort \in BOOLEAN, OnSafety(abort)
      PROVE  AuthorityInv'
  <2>1. CASE abort /\ armed
    <3>1. ~armed' /\ ~output_enabled' /\ arm_generation' = arm_generation
          /\ PublishCommand
      BY <1>5, <2>1 DEF OnSafety
    <3>2. DisarmedMessageIsOlder'
      BY <1>0, <3>1, PublishKeepsOrder
    <3> QED BY <1>0, <3>1, <3>2 DEF ArmedIsHealthy, ActiveFollowsSelection,
                                    EnabledOutputIsFresh
  <2>2. CASE ~(abort /\ armed)
    <3>1. UNCHANGED <<armVars, outputVars, thruster_cmd, selected_source,
                      timersDue>>
      BY <1>5, <2>2 DEF OnSafety
    <3>2. \A i \in Inputs : age'[i] <= age[i]
      BY <1>5 DEF OnSafety, Received, TypeOK
    <3>3. EnabledOutputIsFresh'
      BY <1>0, <3>1, <3>2, YoungerKeepsFresh DEF armVars, outputVars
    <3>4. ArmedIsHealthy'
      BY <1>5, <2>2, <3>1 DEF OnSafety, ArmedIsHealthy, armVars
    <3> QED BY <1>0, <3>1, <3>3, <3>4 DEF armVars, outputVars,
               ActiveFollowsSelection, DisarmedMessageIsOlder
  <2> QED BY <2>1, <2>2
<1>6. ASSUME NEW limit \in Limits, SetPwmLimit(limit)
      PROVE  AuthorityInv'
  BY <1>0, <1>6 DEF SetPwmLimit, inputVars, armVars, outputVars,
     ArmedIsHealthy, ActiveFollowsSelection, EnabledOutputIsFresh, Fresh,
     DisarmedMessageIsOlder
<1>7. ASSUME NEW source \in Sources, NEW clear_fault \in BOOLEAN,
             Disarm(source, clear_fault)
      PROVE  AuthorityInv'
  <2>1. ~armed' /\ ~output_enabled' /\ arm_generation' = arm_generation
        /\ PublishCommand
    BY <1>7 DEF Disarm
  <2>2. DisarmedMessageIsOlder'
    BY <1>0, <2>1, PublishKeepsOrder
  <2> QED BY <1>0, <2>1, <2>2 DEF ArmedIsHealthy, ActiveFollowsSelection,
                                  EnabledOutputIsFresh
<1>8. ASSUME NEW source \in Sources, NEW clear_fault \in BOOLEAN,
             Arm(source, clear_fault)
      PROVE  AuthorityInv'
  <2> DEFINE cleared == fault_latched /\ ~clear_fault
             ready == ~PrearmFailure(source_commands, age, cleared, source)
  <2>1. /\ armed' <=> (armed \/ ready)
        /\ fault_latched' <=> cleared
        /\ arm_generation' = ArmGeneration(ready /\ ~armed)
        /\ selected_source' = source
        /\ armed => source = selected_source
        /\ UNCHANGED <<inputVars, abort_active, outputVars, thruster_cmd,
                       timersDue>>
    BY <1>8 DEF Arm, Refused
  <2>2. ArmedIsHealthy'
    BY <2>1 DEF ArmedIsHealthy, PrearmFailure, CommonFailure
  <2>3. ActiveFollowsSelection'
    BY <2>1 DEF ActiveFollowsSelection, outputVars
  <2>4. EnabledOutputIsFresh'
    BY <2>1, <2>3 DEF EnabledOutputIsFresh, ActiveFollowsSelection, Fresh,
                      inputVars, outputVars
  <2>5. DisarmedMessageIsOlder'
    <3>1. CASE armed
      BY <2>1, <3>1 DEF ArmGeneration, DisarmedMessageIsOlder
    <3>2. CASE ~armed /\ ready
      BY <2>1, <3>2 DEF ArmGeneration, DisarmedMessageIsOlder, TypeOK,
                        AuthorityAssumption
    <3>3. CASE ~armed /\ ~ready
      BY <2>1, <3>3 DEF ArmGeneration, DisarmedMessageIsOlder
    <3> QED BY <3>1, <3>2, <3>3
  <2> QED BY <1>0, <2>2, <2>3, <2>4, <2>5
<1>9. ASSUME NEW source \in Sources, NEW arm \in BOOLEAN, ClearFault(source, arm)
      PROVE  AuthorityInv'
  BY <1>0, <1>9 DEF ClearFault, inputVars, outputVars, ArmedIsHealthy,
     ActiveFollowsSelection, EnabledOutputIsFresh, Fresh, DisarmedMessageIsOlder
<1>10. CASE EvaluationTimer
  <2>1. Evaluate(source_commands, age)
        /\ UNCHANGED <<inputVars, abort_active, selected_source, thruster_cmd>>
    BY <1>10 DEF EvaluationTimer
  <2>2. /\ armed' => armed /\ ~fault_latched'
        /\ output_enabled' => armed'
        /\ output_enabled' =>
             \/ active_source' \in {selected_source, "manual"}
             \/ active_source' = "pid+manual" /\ selected_source = "pid"
        /\ output_enabled' => Rests(active_source', age)
        /\ arm_generation' = arm_generation
    BY <2>1, EvaluateOutcome
  <2>3. DisarmedMessageIsOlder'
    BY <1>0, <2>1, <2>2, PublishKeepsOrder
  <2>4. EnabledOutputIsFresh'
    BY <2>1, <2>2 DEF EnabledOutputIsFresh, Rests, Fresh, inputVars
  <2> QED BY <1>0, <2>1, <2>2, <2>3, <2>4 DEF ArmedIsHealthy,
                                             ActiveFollowsSelection
<1>11. CASE CommandTimer
  <2>1. UNCHANGED <<inputVars, abort_active, selected_source, armVars,
                    outputVars>>
        /\ PublishCommand /\ timersDue' = timersDue \ {"command"}
    BY <1>11 DEF CommandTimer
  <2>2. DisarmedMessageIsOlder'
    BY <1>0, <2>1, PublishKeepsOrder DEF ActiveFollowsSelection, armVars,
                                         outputVars
  <2> QED BY <1>0, <2>1, <2>2 DEF inputVars, armVars, outputVars,
             ArmedIsHealthy, ActiveFollowsSelection, EnabledOutputIsFresh, Fresh
<1>12. CASE Tick
  BY <1>0, <1>12 DEF Tick, Timers, armVars, outputVars, ArmedIsHealthy,
     ActiveFollowsSelection, EnabledOutputIsFresh, DisarmedMessageIsOlder
<1>13. CASE UNCHANGED vars
  BY <1>0, <1>13 DEF vars, ArmedIsHealthy, ActiveFollowsSelection,
     EnabledOutputIsFresh, Fresh, DisarmedMessageIsOlder
<1> QED
  BY <1>1, <1>2, <1>3, <1>4, <1>5, <1>6, <1>7, <1>8, <1>9, <1>10, <1>11,
     <1>12, <1>13 DEF Next

(* AuthorityInv holds in every reachable state.                             *)
LEMMA AuthorityInductive == Spec => []AuthorityInv
<1>1. Init => AuthorityInv
  <2> SUFFICES ASSUME Init PROVE AuthorityInv
    OBVIOUS
  <2>1. TypeOK
    BY InitTypes
  <2> QED BY <2>1 DEF Init, AuthorityInv, ArmedIsHealthy, EnabledOutputIsFresh,
                      ActiveFollowsSelection, DisarmedMessageIsOlder
<1> QED BY <1>1, InvStep, AuthorityAssumption, PTL DEF Spec

(* No interleaving of safety events, service calls and evaluations leaves   *)
(* the authority armed under an active abort or a latched fault.            *)
THEOREM AuthorityArmedIsHealthy == Spec => []ArmedIsHealthy
  BY AuthorityInductive, PTL DEF AuthorityInv

(* An enabled output outlives the inputs it rests on by at most one         *)
(* evaluation, whatever the timeouts are.                                   *)
THEOREM AuthorityEnabledOutputIsFresh == Spec => []EnabledOutputIsFresh
  BY AuthorityInductive, PTL DEF AuthorityInv

(* The generation protocol the bridge's arm barrier rests on.               *)
THEOREM AuthorityDisarmedMessageIsOlder == Spec => []DisarmedMessageIsOlder
  BY AuthorityInductive, PTL DEF AuthorityInv

-----------------------------------------------------------------------------
(* Refinement.  A step that neither arms nor moves the generation, and      *)
(* either publishes or leaves the topic alone, is a step of the contract.   *)
LEMMA QuietStepRefines ==
  ASSUME TypeOK, TypeOK', armed' => armed, arm_generation' = arm_generation,
         output_enabled' => armed',
         PublishCommand \/ thruster_cmd' = thruster_cmd
  PROVE  [Contract!ContractNext]_(Contract!contractVars)
<1>1. PublishCommand => Contract!Truthful(armed', arm_generation')
  <2> SUFFICES ASSUME PublishCommand
               PROVE  \E e \in BOOLEAN :
                        /\ e => armed'
                        /\ thruster_cmd' = [armed |-> armed', enable |-> e,
                                            generation |-> arm_generation']
    BY DEF Contract!Truthful
  <2>0. output_enabled' \in BOOLEAN
    BY DEF TypeOK
  <2> WITNESS output_enabled' \in BOOLEAN
  <2> QED BY DEF PublishCommand
<1>2. CASE armed' = armed /\ PublishCommand
  BY <1>1, <1>2 DEF Contract!ContractNext, Contract!Publish
<1>3. CASE armed' = armed /\ thruster_cmd' = thruster_cmd
  BY <1>3 DEF Contract!contractVars
<1>4. CASE armed' # armed
  <2>1. armed /\ armed' = FALSE
    BY <1>4 DEF TypeOK
  <2> QED BY <1>1, <2>1 DEF Contract!ContractNext, Contract!Disarm,
                            Contract!MayPublish
<1> QED BY <1>2, <1>3, <1>4

(* The handler of a source command refines the contract.                    *)
LEMMA SourceStepRefines ==
  ASSUME AuthorityInv, TypeOK', NEW s,
         PublishFreshSourceCommand(source_commands', age', s)
  PROVE  [Contract!ContractNext]_(Contract!contractVars)
<1> USE DEF AuthorityInv
<1>1. CASE armed /\ s \in {selected_source, "manual"}
  <2>1. Evaluate(source_commands', age') /\ PublishCommand
    BY <1>1 DEF PublishFreshSourceCommand
  <2> QED BY <2>1, EvaluateOutcome, QuietStepRefines
<1>2. CASE ~(armed /\ s \in {selected_source, "manual"})
  BY <1>2 DEF PublishFreshSourceCommand, armVars, Contract!contractVars
<1> QED BY <1>1, <1>2

(* The authority implements AuthorityContract: every step of the node is a  *)
(* step of the contract or leaves what the contract sees unchanged.         *)
THEOREM AuthorityImplementsContract == Spec => ImplementsContract
<1>1. Init => Contract!ContractInit
  BY DEF Init, Contract!ContractInit
<1>2. AuthorityInv /\ AuthorityInv' /\ [Next]_vars
        => [Contract!ContractNext]_(Contract!contractVars)
  <2> SUFFICES ASSUME AuthorityInv, AuthorityInv', [Next]_vars
               PROVE  [Contract!ContractNext]_(Contract!contractVars)
    OBVIOUS
  <2> USE AuthorityAssumption DEF AuthorityInv
  <2>1. ASSUME NEW s \in Producers \ {"rl"}, NEW kind \in CommandKinds,
               OnSourceCommand(s, kind)
        PROVE  [Contract!ContractNext]_(Contract!contractVars)
    BY <2>1, SourceStepRefines DEF OnSourceCommand
  <2>2. ASSUME NEW wellFormed \in BOOLEAN, OnRlAction(wellFormed)
        PROVE  [Contract!ContractNext]_(Contract!contractVars)
    BY <2>2, SourceStepRefines DEF OnRlAction
  <2>3. ASSUME NEW abort \in BOOLEAN, OnSafety(abort)
        PROVE  [Contract!ContractNext]_(Contract!contractVars)
    <3>1. CASE abort /\ armed
      BY <2>3, <3>1, QuietStepRefines DEF OnSafety
    <3>2. CASE ~(abort /\ armed)
      BY <2>3, <3>2 DEF OnSafety, armVars, Contract!contractVars
    <3> QED BY <3>1, <3>2
  <2>4. ASSUME NEW source \in Sources, NEW clear_fault \in BOOLEAN,
               Disarm(source, clear_fault)
        PROVE  [Contract!ContractNext]_(Contract!contractVars)
    BY <2>4, QuietStepRefines DEF Disarm
  <2>5. ASSUME NEW source \in Sources, NEW clear_fault \in BOOLEAN,
               Arm(source, clear_fault)
        PROVE  [Contract!ContractNext]_(Contract!contractVars)
    <3> DEFINE ready == ~PrearmFailure(source_commands, age,
                                       fault_latched /\ ~clear_fault, source)
    <3>1. /\ armed' = (armed \/ ready)
          /\ arm_generation' = ArmGeneration(ready /\ ~armed)
          /\ ready /\ ~armed => arm_generation < MaxGeneration
          /\ thruster_cmd' = thruster_cmd
      BY <2>5 DEF Arm
    <3>2. CASE ready /\ ~armed
      BY <3>1, <3>2 DEF ArmGeneration, Contract!ContractNext, Contract!Arm
    <3>3. CASE ~(ready /\ ~armed)
      <4>1. armed' = armed /\ arm_generation' = arm_generation
        BY <3>1, <3>3 DEF ArmGeneration, TypeOK
      <4> QED BY <3>1, <4>1 DEF Contract!contractVars
    <3> QED BY <3>2, <3>3
  <2>6. CASE EvaluationTimer
    BY <2>6, EvaluateOutcome, QuietStepRefines DEF EvaluationTimer
  <2>7. CASE CommandTimer
    BY <2>7, QuietStepRefines DEF CommandTimer, ActiveFollowsSelection, armVars,
                                  outputVars
  <2>8. CASE UNCHANGED <<armed, arm_generation, thruster_cmd>>
    BY <2>8 DEF Contract!contractVars
  <2>9. ASSUME NEW kind, OnBodyState(kind) \/ OnTarget(kind)
        PROVE  UNCHANGED <<armed, arm_generation, thruster_cmd>>
    BY <2>9 DEF OnBodyState, OnTarget, armVars
  <2>10. ASSUME NEW limit, SetPwmLimit(limit)
         PROVE  UNCHANGED <<armed, arm_generation, thruster_cmd>>
    BY <2>10 DEF SetPwmLimit, armVars
  <2>11. ASSUME NEW source, NEW arm, ClearFault(source, arm)
         PROVE  UNCHANGED <<armed, arm_generation, thruster_cmd>>
    BY <2>11 DEF ClearFault
  <2>12. Tick \/ UNCHANGED vars => UNCHANGED <<armed, arm_generation, thruster_cmd>>
    BY DEF Tick, vars, armVars
  <2> QED BY <2>1, <2>2, <2>3, <2>4, <2>5, <2>6, <2>7, <2>8, <2>9, <2>10,
             <2>11, <2>12 DEF Next
<1> QED BY <1>1, <1>2, AuthorityInductive, PTL
        DEF Spec, ImplementsContract, Contract!ContractSpec
=============================================================================
