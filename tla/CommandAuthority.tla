--------------------------- MODULE CommandAuthority ---------------------------
(***************************************************************************)
(* command_authority: the one node that may drive the thrusters.  It       *)
(* arbitrates between three command sources, watches the freshness of      *)
(* everything it depends on, owns the armed state and its generation, and  *)
(* publishes /control/thruster_cmd.                                        *)
(*                                                                         *)
(* The node runs on a single-threaded executor, so every subscription      *)
(* callback, service call and timer callback is one atomic action.         *)
(*                                                                         *)
(* Time.  A tick is one period of the two control timers.  In every tick   *)
(* both timers fire once (timersDue), in either order and interleaved      *)
(* with any callbacks.  An input's age counts the ticks since it was last  *)
(* received and saturates just above its timeout: a missing input and one  *)
(* that is too old are treated alike by every reader in the code.          *)
(*                                                                         *)
(* Data.  The eight action values of a source are reduced to whether they  *)
(* are well formed; a driven output is represented by the action limit it  *)
(* was scaled with, a neutral one by 0.                                    *)
(***************************************************************************)
EXTENDS Naturals

CONSTANTS Timeout,         \* timeout of every input, in ticks
          AllowRl,         \* parameter allow_rl_hardware
          Limits,          \* PWM limits an operator may set (0 is neutral)
          InitialLimit,    \* parameter pwm_limit_us
          Producers,       \* the command sources that are running
          BodyInputs,      \* the kinds of body state that arrive
          TargetInputs,    \* the kinds of target that arrive
          MaxGeneration    \* bound on arm_generation_

Sources == {"manual", "pid", "rl"}
Inputs  == Sources \cup {"body", "target", "safety"}

(* A source command: ready (enabled, action valid), idle (valid, enable     *)
(* false), malformed (an action value is not finite or outside [-1, 1]).    *)
CommandKinds == {"ready", "idle", "malformed"}

(* A body state: state_valid; position_estimated only; neither; or a state  *)
(* whose linear velocity is invalid.                                        *)
BodyKinds == {"absolute", "estimated", "lost", "no_velocity"}

(* A target: valid in altitude-hold mode, valid in any other, or invalid.   *)
TargetKinds == {"altitude_hold", "valid", "invalid"}

ASSUME AuthorityAssumption ==
  /\ Timeout \in [Inputs -> Nat]
  /\ AllowRl \in BOOLEAN
  /\ Producers \subseteq Sources
  /\ BodyInputs \subseteq BodyKinds
  /\ TargetInputs \subseteq TargetKinds
  /\ Limits \subseteq Nat
  /\ InitialLimit \in Limits
  /\ MaxGeneration \in Nat

ActiveSources == Sources \cup {"pid+manual"}

VARIABLES source_commands,  \* last message of each source
          body,             \* last body state
          target,           \* last trajectory target
          age,              \* ticks since each input was received
          absolute_localization_seen,
          abort_active,
          selected_source, active_source,
          armed, arm_generation, fault_latched,
          action_limit, output, output_enabled,
          thruster_cmd,     \* last message published on /control/thruster_cmd
          timersDue         \* timers that have not fired yet in this tick

inputVars   == <<source_commands, body, target, age,
                 absolute_localization_seen>>
armVars     == <<armed, arm_generation, fault_latched>>
outputVars  == <<active_source, output, output_enabled>>
vars == <<source_commands, body, target, age, absolute_localization_seen,
          abort_active, selected_source, active_source, armed, arm_generation,
          fault_latched, action_limit, output, output_enabled, thruster_cmd,
          timersDue>>

Command == [armed : BOOLEAN, enable : BOOLEAN, generation : 0..MaxGeneration]

Timers == {"evaluation", "command"}

-----------------------------------------------------------------------------
(* Checks on the inputs.                                                    *)

Missing(i) == Timeout[i] + 1

Fresh(ages, i) == ages[i] <= Timeout[i]

(* source_command_integrity_failure: stale, or the action is malformed.     *)
SourceIntact(cmds, ages, s) == Fresh(ages, s) /\ cmds[s] # "malformed"

SourceReady(cmds, ages, s) == SourceIntact(cmds, ages, s) /\ cmds[s] = "ready"

(* The definitions marked "variant" are plausible slips in the code; a run  *)
(* with one in place of the definition that follows it must fail.           *)

(* variant: a silent safety monitor counts as a healthy one.                *)
CommonFailureWithoutHeartbeat(ages, fault) == abort_active \/ fault

(* fault is fault_latched_ as the calling handler has left it so far.       *)
CommonFailure(ages, fault) == abort_active \/ fault \/ ~Fresh(ages, "safety")

AutomaticFailure(ages) ==
  \/ ~Fresh(ages, "body")
  \/ ~Fresh(ages, "target")
  \/ ~absolute_localization_seen
  \/ body \in {"no_velocity", "lost"}
  \/ target = "invalid"

(* variant: an automatic source is checked like the manual one.             *)
PrearmFailureWithoutAutomatic(cmds, ages, fault, s) ==
  CommonFailure(ages, fault) \/ ~SourceReady(cmds, ages, s)

PrearmFailure(cmds, ages, fault, s) ==
  \/ CommonFailure(ages, fault)
  \/ ~SourceReady(cmds, ages, s)
  \/ s # "manual" /\ AutomaticFailure(ages)

(* The armed manual source is merely silent or released: evaluate() finds   *)
(* the reason of prearm_failure equal to manual_idle_reason exactly when no *)
(* common failure precedes it and the action itself is well formed.         *)
ManualIdle(cmds, ages) ==
  /\ selected_source = "manual"
  /\ ~CommonFailure(ages, fault_latched)
  /\ ~Fresh(ages, "manual") \/ cmds["manual"] = "idle"

AltitudeHoldTargetActive(ages) ==
  Fresh(ages, "target") /\ target = "altitude_hold"

-----------------------------------------------------------------------------
(* Building blocks of the handlers.                                         *)

(* publish_command: the message reports the state this very step leaves.    *)
PublishCommand ==
  thruster_cmd' = [armed |-> armed', enable |-> output_enabled',
                   generation |-> arm_generation']

(* variant: the limit is the start-up parameter, not the one set since.     *)
ScaledByParameter == InitialLimit

ScaledOutput == action_limit

(* evaluate(), on the commands and ages the calling handler has just        *)
(* stored: choose the active source, then drive, idle or trip.              *)
ManualActive(cmds, ages) == SourceReady(cmds, ages, "manual")

Hybrid(cmds, ages) ==
  /\ armed
  /\ selected_source = "pid"
  /\ ManualActive(cmds, ages)
  /\ AltitudeHoldTargetActive(ages)

ManualOverride(cmds, ages) ==
  /\ armed
  /\ selected_source # "manual"
  /\ ManualActive(cmds, ages)
  /\ ~Hybrid(cmds, ages)

Drives(cmds, ages) ==
  /\ armed
  /\ IF ManualOverride(cmds, ages)
       THEN ~CommonFailure(ages, fault_latched)
       ELSE ~PrearmFailure(cmds, ages, fault_latched, selected_source)

Trips(cmds, ages) ==
  armed /\ ~Drives(cmds, ages) /\ ~ManualIdle(cmds, ages)

Evaluate(cmds, ages) ==
  /\ active_source' = IF Hybrid(cmds, ages) THEN "pid+manual"
                      ELSE IF ManualOverride(cmds, ages) THEN "manual"
                      ELSE selected_source
  /\ armed' = (armed /\ ~Trips(cmds, ages))
  /\ fault_latched' = (fault_latched \/ Trips(cmds, ages))
  /\ output' = IF Drives(cmds, ages) THEN ScaledOutput ELSE 0
  /\ output_enabled' = Drives(cmds, ages)
  /\ UNCHANGED arm_generation

(* publish_fresh_source_command(s), the tail of every source subscription.  *)
PublishFreshSourceCommand(cmds, ages, s) ==
  IF armed /\ s \in {selected_source, "manual"}
    THEN Evaluate(cmds, ages) /\ PublishCommand
    ELSE UNCHANGED <<armVars, outputVars, thruster_cmd>>

-----------------------------------------------------------------------------
(* Subscriptions.                                                           *)

Received(i) == [age EXCEPT ![i] = 0]

(* A manual or PID command.  One from an unexpected producer is dropped     *)
(* before anything is stored, which is a stuttering step here.              *)
OnSourceCommand(s, kind) ==
  /\ source_commands' = [source_commands EXCEPT ![s] = kind]
  /\ age' = Received(s)
  /\ PublishFreshSourceCommand(source_commands', age', s)
  /\ UNCHANGED <<body, target, absolute_localization_seen, abort_active,
                 selected_source, action_limit, timersDue>>

(* A policy action always carries enable = true; a malformed one erases     *)
(* the stored command instead of replacing it.                              *)
OnRlAction(wellFormed) ==
  /\ source_commands' = [source_commands EXCEPT
                            !["rl"] = IF wellFormed THEN "ready" ELSE "idle"]
  /\ age' = IF wellFormed THEN Received("rl")
            ELSE [age EXCEPT !["rl"] = Missing("rl")]
  /\ PublishFreshSourceCommand(source_commands', age', "rl")
  /\ UNCHANGED <<body, target, absolute_localization_seen, abort_active,
                 selected_source, action_limit, timersDue>>

OnBodyState(kind) ==
  /\ body' = kind
  /\ age' = Received("body")
  /\ absolute_localization_seen' =
       (absolute_localization_seen \/ kind \in {"absolute", "no_velocity"})
  /\ UNCHANGED <<source_commands, target, abort_active, selected_source,
                 armVars, outputVars, action_limit, thruster_cmd, timersDue>>

OnTarget(kind) ==
  /\ target' = kind
  /\ age' = Received("target")
  /\ UNCHANGED <<source_commands, body, absolute_localization_seen,
                 abort_active, selected_source, armVars, outputVars,
                 action_limit, thruster_cmd, timersDue>>

(* variant: the abort is only noted, for the next evaluation to trip on.    *)
OnSafetyNotesAbort(abort) ==
  /\ abort_active' = abort
  /\ age' = Received("safety")
  /\ UNCHANGED <<source_commands, body, target, absolute_localization_seen,
                 selected_source, armVars, outputVars, action_limit,
                 thruster_cmd, timersDue>>

(* on_safety, with trip(..., publish = true) inlined.                       *)
OnSafety(abort) ==
  /\ abort_active' = abort
  /\ age' = Received("safety")
  /\ IF abort /\ armed
       THEN /\ armed' = FALSE
            /\ fault_latched' = TRUE
            /\ output' = 0
            /\ output_enabled' = FALSE
            /\ UNCHANGED <<arm_generation, active_source>>
            /\ PublishCommand
       ELSE UNCHANGED <<armVars, outputVars, thruster_cmd>>
  /\ UNCHANGED <<source_commands, body, target, absolute_localization_seen,
                 selected_source, action_limit, timersDue>>

-----------------------------------------------------------------------------
(* The /control/authority/set service.                                      *)

(* on_set_authority with update_pwm_limit: nothing but the limit changes.   *)
SetPwmLimit(limit) ==
  /\ action_limit' = limit
  /\ UNCHANGED <<inputVars, abort_active, selected_source, armVars,
                 outputVars, thruster_cmd, timersDue>>

(* The early returns of on_set_authority before anything is assigned.       *)
Refused(source, clear_fault) ==
  \/ armed /\ source # selected_source
  \/ source = "rl" /\ ~AllowRl
  \/ clear_fault /\ abort_active

(* The request did no more than clear the fault.                            *)
OnlyClears(source, arm, clear_fault) ==
  clear_fault /\ arm = armed /\ source = selected_source

Disarm(source, clear_fault) ==
  /\ ~Refused(source, clear_fault)
  /\ ~OnlyClears(source, FALSE, clear_fault)
  /\ fault_latched' = (fault_latched /\ ~clear_fault)
  /\ selected_source' = source
  /\ armed' = FALSE
  /\ output' = 0
  /\ output_enabled' = FALSE
  /\ UNCHANGED <<arm_generation, active_source>>
  /\ PublishCommand
  /\ UNCHANGED <<inputVars, abort_active, action_limit, timersDue>>

(* variant: a re-arm keeps the generation of the previous one.              *)
ArmGenerationReused(arms) == IF arms /\ arm_generation = 0 THEN 1 ELSE arm_generation

ArmGeneration(arms) == IF arms THEN arm_generation + 1 ELSE arm_generation

(* Arming is refused, after the fault was cleared and the source selected,  *)
(* when prearm_failure finds a reason.                                      *)
Arm(source, clear_fault) ==
  LET cleared == fault_latched /\ ~clear_fault
      ready   == ~PrearmFailure(source_commands, age, cleared, source)
  IN /\ ~Refused(source, clear_fault)
     /\ ~OnlyClears(source, TRUE, clear_fault)
     /\ ready /\ ~armed => arm_generation < MaxGeneration
     /\ fault_latched' = cleared
     /\ selected_source' = source
     /\ armed' = (armed \/ ready)
     /\ arm_generation' = ArmGeneration(ready /\ ~armed)
     /\ UNCHANGED <<inputVars, abort_active, outputVars, action_limit,
                    thruster_cmd, timersDue>>

ClearFault(source, arm) ==
  /\ ~Refused(source, TRUE)
  /\ OnlyClears(source, arm, TRUE)
  /\ fault_latched' = FALSE
  /\ UNCHANGED <<inputVars, abort_active, selected_source, armed,
                 arm_generation, outputVars, action_limit, thruster_cmd,
                 timersDue>>

-----------------------------------------------------------------------------
(* Timers and time.                                                         *)

EvaluationTimer ==
  /\ "evaluation" \in timersDue
  /\ Evaluate(source_commands, age)
  /\ timersDue' = timersDue \ {"evaluation"}
  /\ UNCHANGED <<inputVars, abort_active, selected_source, action_limit,
                 thruster_cmd>>

CommandTimer ==
  /\ "command" \in timersDue
  /\ timersDue' = timersDue \ {"command"}
  /\ UNCHANGED <<inputVars, abort_active, selected_source, armVars,
                 outputVars, action_limit>>
  /\ PublishCommand

Older(i) == IF Fresh(age, i) THEN age[i] + 1 ELSE age[i]

(* steady_clock advances; both timers become due again.  The content of a   *)
(* message that has just become stale is never read again and is forgotten. *)
Tick ==
  /\ timersDue = {}
  /\ timersDue' = Timers
  /\ age' = [i \in Inputs |-> Older(i)]
  /\ source_commands' = [s \in Sources |-> IF Older(s) <= Timeout[s]
                                           THEN source_commands[s] ELSE "idle"]
  /\ body' = IF Older("body") <= Timeout["body"] THEN body ELSE "lost"
  /\ target' = IF Older("target") <= Timeout["target"] THEN target ELSE "invalid"
  /\ UNCHANGED <<absolute_localization_seen, abort_active, selected_source,
                 armVars, outputVars, action_limit, thruster_cmd>>

-----------------------------------------------------------------------------
Init ==
  /\ source_commands = [s \in Sources |-> "idle"]
  /\ body = "lost"
  /\ target = "invalid"
  /\ age = [i \in Inputs |-> Missing(i)]
  /\ absolute_localization_seen = FALSE
  /\ abort_active = FALSE
  /\ selected_source = "manual"
  /\ active_source = "manual"
  /\ armed = FALSE
  /\ arm_generation = 0
  /\ fault_latched = FALSE
  /\ action_limit = InitialLimit
  /\ output = 0
  /\ output_enabled = FALSE
  /\ thruster_cmd = [armed |-> FALSE, enable |-> FALSE, generation |-> 0]
  /\ timersDue = Timers

Next ==
  \/ \E s \in Producers \ {"rl"}, kind \in CommandKinds : OnSourceCommand(s, kind)
  \/ "rl" \in Producers /\ \E wellFormed \in BOOLEAN : OnRlAction(wellFormed)
  \/ \E kind \in BodyInputs : OnBodyState(kind)
  \/ \E kind \in TargetInputs : OnTarget(kind)
  \/ \E abort \in BOOLEAN : OnSafety(abort)
  \/ \E limit \in Limits : SetPwmLimit(limit)
  \/ \E source \in Sources, clear_fault \in BOOLEAN :
       Disarm(source, clear_fault) \/ Arm(source, clear_fault)
  \/ \E source \in Sources, arm \in BOOLEAN : ClearFault(source, arm)
  \/ EvaluationTimer
  \/ CommandTimer
  \/ Tick

Spec == Init /\ [][Next]_vars

(* Wall timers keep firing and time keeps passing.  Nothing else is fair:   *)
(* no message has to arrive and no operator has to act.                     *)
FairSpec ==
  /\ Spec
  /\ WF_vars(EvaluationTimer)
  /\ WF_vars(CommandTimer)
  /\ WF_vars(Tick)

-----------------------------------------------------------------------------
(* Properties.                                                              *)

TypeOK ==
  /\ source_commands \in [Sources -> CommandKinds]
  /\ body \in BodyKinds
  /\ target \in TargetKinds
  /\ age \in [Inputs -> Nat]
  /\ \A i \in Inputs : age[i] <= Missing(i)
  /\ absolute_localization_seen \in BOOLEAN
  /\ abort_active \in BOOLEAN
  /\ selected_source \in Sources
  /\ active_source \in ActiveSources
  /\ armed \in BOOLEAN
  /\ arm_generation \in 0..MaxGeneration
  /\ fault_latched \in BOOLEAN
  /\ action_limit \in Limits
  /\ output \in Limits \cup {0}
  /\ output_enabled \in BOOLEAN
  /\ thruster_cmd \in Command
  /\ timersDue \subseteq Timers

(* The authority is never armed while a safety abort is active or a fault   *)
(* is latched: every order of safety events, service calls and evaluations  *)
(* either trips first or refuses to arm.                                    *)
ArmedIsHealthy == armed => ~abort_active /\ ~fault_latched

(* Output stays enabled past a timeout for at most one evaluation: once the *)
(* evaluation timer has run in a tick, an enabled output rests on a fresh   *)
(* safety heartbeat and fresh messages of every source that shapes it; an   *)
(* automatic source in control also on a fresh body state and target.       *)
EnabledOutputIsFresh ==
  output_enabled /\ "evaluation" \notin timersDue =>
    /\ armed
    /\ Fresh(age, "safety")
    /\ active_source \in {"manual", "pid+manual"} => Fresh(age, "manual")
    /\ active_source \in {"pid", "pid+manual"} => Fresh(age, "pid")
    /\ active_source = "rl" => Fresh(age, "rl")
    /\ active_source # "manual" => Fresh(age, "body") /\ Fresh(age, "target")

(* The generation protocol the bridge's arm barrier rests on: no message on *)
(* the topic is ahead of the authority, and while the authority is armed a  *)
(* disarmed message still on the topic belongs to an older generation.      *)
DisarmedMessageIsOlder ==
  /\ thruster_cmd.generation <= arm_generation
  /\ armed /\ ~thruster_cmd.armed => thruster_cmd.generation < arm_generation
  /\ thruster_cmd.enable => thruster_cmd.armed

(* The part of the argument for EnabledOutputIsFresh that no timer gives:   *)
(* an enabled output comes from the selected source, from the operator's    *)
(* override or from the altitude-hold mix, so erasing a source's command    *)
(* is always seen by an evaluation in the same callback.                    *)
ActiveFollowsSelection ==
  output_enabled =>
    /\ armed
    /\ \/ active_source \in {selected_source, "manual"}
       \/ active_source = "pid+manual" /\ selected_source = "pid"

(* The documented reaction to a timeout, "Any source-command, body-state,   *)
(* target, or safety timeout disarms and latches a fault"                   *)
(* (docs/PID_POOL_TRACKING.md:47): once the evaluation timer has run, an    *)
(* armed authority has a fresh selected source.  The code keeps a silent    *)
(* manual source armed with neutral output, so this does not hold.          *)
TimeoutDisarms ==
  armed /\ "evaluation" \notin timersDue => Fresh(age, selected_source)

(* The authority implements the contract its readers rely on.               *)
Contract == INSTANCE AuthorityContract
              WITH generation <- arm_generation, published <- thruster_cmd
ImplementsContract == Contract!ContractSpec

(* Losing the safety heartbeat, or every command source, while enabled      *)
(* messages are being published ends in a disabled message, unless the      *)
(* input comes back: no operator action is needed to stop the thrusters.    *)
LossStopsThrusters ==
  LET Lost == ~Fresh(age, "safety") \/ \A s \in Sources : ~Fresh(age, s)
  IN (Lost /\ thruster_cmd.enable) ~> (~thruster_cmd.enable \/ ~Lost)

(* A PWM limit lowered to zero reaches the output although the update       *)
(* itself touches neither the output nor the armed state.                   *)
LoweredLimitTakesEffect ==
  (action_limit = 0) ~> (output = 0 \/ action_limit # 0)
=============================================================================
