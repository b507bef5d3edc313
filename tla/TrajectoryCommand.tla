------------------------- MODULE TrajectoryCommand -------------------------
(***************************************************************************)
(* robotcore_runtime/trajectory_command_node.py: the node that publishes   *)
(* the target the controllers follow.  A scenario is set by parameters,    *)
(* validated against the pool and the limits, started and stopped; hold    *)
(* scenarios listen to the operator's sticks.                              *)
(*                                                                         *)
(* A pose has one planar coordinate, a height and a heading.  Time is      *)
(* counted in ticks of the publishing timer.  What an automatic path looks *)
(* like is the constant Path, the poses of one lap.  The deployment has    *)
(* require_pool_bounds set.                                                *)
(***************************************************************************)
EXTENDS Integers, Sequences

CONSTANTS Scenarios,     \* parameter sets: records of the form below
          Path,          \* lap of an automatic path, a sequence of offsets
          Ramp,          \* trajectory_ramp_s
          Center,        \* center_x, center_y, center_z
          PoolMin, PoolMax,
          Vehicle,       \* poses the vehicle is measured at
          SticksSets,    \* components the operator may push together
          MaxElapsed     \* bound on the time of an automatic run

Components == {"planar", "height", "heading"}
Bounded == {"planar", "height"}
Poses == [Components -> Int]
HoldModes == {"station_hold", "station_hold_fast", "rl_policy"}
AutomaticTypes == {"spatial_lissajous", "circle", "racetrack", "straight_line"}

(* within: speed, rate and attitude stay inside the configured limits.     *)
Scenario == [type : {"hold", "unknown"} \cup AutomaticTypes,
             mode : HoldModes \cup {"altitude_hold", "idle"},
             relative : BOOLEAN, within : BOOLEAN,
             move : Nat, prelude : Nat]

NoPose == [c \in Components |-> -99]
NoHeight == -99

ASSUME TrajectoryAssumption ==
    /\ Scenarios \subseteq Scenario
    /\ Path \in Seq(Poses) /\ Path # <<>>
    /\ Ramp \in Nat /\ MaxElapsed \in Nat
    /\ Center \in Poses /\ Vehicle \subseteq Poses
    /\ PoolMin \in [Bounded -> Int] /\ PoolMax \in [Bounded -> Int]
    /\ SticksSets \subseteq SUBSET Components
    /\ \A pose \in Vehicle : pose["heading"] # NoPose["heading"]

VARIABLES
    scenario,          \* the node's parameters
    latest,            \* latest position, with the absolute map heading
    attitude,          \* latest_quaternion was built from an IMU sample
    motion_start,      \* pose latched by Validate
    envelope_valid,
    tracking_started,
    elapsed,           \* ticks since Start
    altitude_hold_z, altitude_heave_active,
    station_target, station_active,
    sticks,            \* fresh operator_target_input: components pushed
    heave,             \* fresh web_operator manual command pushes heave
    published,         \* valid flag of the last message
    approved,          \* history: this scenario, from motion_start, was valid
    as_started,        \* history: the run was started with this scenario
    start_pose,        \* history: pose at which a hold was started, NoPose
                       \* once the operator has pushed a stick
    touched,           \* history: the operator pushed a stick since a stop
    last_push,         \* history: components pushed at the last tick of a hold
    left_at            \* history: pose at which the hold was left, component
                       \* by component: by Start, or where the vehicle was
                       \* measured at the tick that saw the release

scenarioVars == <<scenario, motion_start, envelope_valid, approved>>
measuredVars == <<latest, attitude>>
holdVars == <<altitude_hold_z, altitude_heave_active, station_target,
              station_active>>
startVars == <<tracking_started, as_started, last_push, left_at>>
operatorVars == <<sticks, heave, touched, start_pose>>
trajectoryVars == <<scenarioVars, measuredVars, holdVars, startVars, elapsed,
                    operatorVars, published>>

TrajectoryInit ==
    /\ scenario \in Scenarios
    /\ latest = NoPose /\ attitude = FALSE
    /\ motion_start = NoPose /\ envelope_valid = FALSE
    /\ tracking_started = FALSE /\ elapsed = 0
    /\ altitude_hold_z = NoHeight /\ altitude_heave_active = FALSE
    /\ station_target = NoPose /\ station_active = {}
    /\ sticks = {} /\ heave = FALSE
    /\ published = FALSE
    /\ approved = FALSE /\ as_started = FALSE
    /\ start_pose = NoPose /\ touched = FALSE
    /\ last_push = {} /\ left_at = NoPose

-----------------------------------------------------------------------------
(* control_mode_is_compatible *)
Compatible(s) ==
    \/ s.type = "hold" /\ s.mode \in HoldModes \cup {"altitude_hold"}
    \/ s.type \in AutomaticTypes /\ s.mode \in HoldModes

Automatic(s) == s.type \in AutomaticTypes
StationHold(s) == s.type = "hold" /\ s.mode \in HoldModes
AltitudeHold(s) == s.type = "hold" /\ s.mode = "altitude_hold"

InPool(pose) ==
    \A c \in Bounded : PoolMin[c] < PoolMax[c]
                       /\ pose[c] >= PoolMin[c] /\ pose[c] <= PoolMax[c]

(* np.clip: the upper bound wins when the bounds are inverted.             *)
ClipToPool(pose) ==
    [c \in Components |->
        IF c \notin Bounded THEN pose[c]
        ELSE LET raised == IF pose[c] < PoolMin[c] THEN PoolMin[c] ELSE pose[c]
             IN  IF raised > PoolMax[c] THEN PoolMax[c] ELSE raised]

AtHeight(pose, z) == [pose EXCEPT !["height"] = z]

(* ramped_time_kinematics: time_s - ramp / 2 once the ramp is over, and    *)
(* ramp * (f^3 - f^4 / 2) with f = time_s / ramp before.                   *)
RampedTime(t) ==
    IF t < Ramp
    THEN (2 * Ramp * t * t * t - t * t * t * t) \div (2 * Ramp * Ramp * Ramp)
    ELSE t - Ramp \div 2

(* trajectory_kinematics: every path is closed, so that its offset is a    *)
(* periodic function of the ramped time.                                   *)
PathOffset(t) == Path[(RampedTime(t) % Len(Path)) + 1]

(* sample, for an automatic type: center plus the offset of the phase.     *)
SampleAt(s, start, t) ==
    LET center == IF s.relative THEN start ELSE Center
    IN  [c \in Components |-> IF c = "heading" THEN PathOffset(t)[c]
                              ELSE center[c] + PathOffset(t)[c]]

(* sample("move_to_trajectory_start"): the quintic blend is monotone, so   *)
(* the approach stays between the start pose and the path's first pose;    *)
(* then the heading turns in place.                                        *)
Between(a, b) == IF a < b THEN a..b ELSE b..a

MovePoses(s, start, t) ==
    LET goal == SampleAt(s, start, 0)
    IN  IF t < s.move
        THEN {[start EXCEPT !["planar"] = x, !["height"] = z] :
                 x \in IF t = 0 THEN {start["planar"]}
                       ELSE Between(start["planar"], goal["planar"]),
                 z \in IF t = 0 THEN {start["height"]}
                       ELSE Between(start["height"], goal["height"])}
        ELSE {[goal EXCEPT !["heading"] = h] :
                 h \in Between(start["heading"], goal["heading"])}

-----------------------------------------------------------------------------
(* validate_scenario_envelope: the start pose and the held pose, or the    *)
(* approach and every sample of one lap with its ramp.                     *)
(* variant: the ramp is not added to the lap. *)
ValidationHorizonWithoutRamp(s) == Len(Path)

ValidationHorizon(s) == Len(Path) + Ramp

HeldPose(s, start) ==
    IF s.mode \in {"altitude_hold", "station_hold"}
    THEN AtHeight(start, Center["height"]) ELSE start

HoldInside(s, start) == InPool(start) /\ InPool(HeldPose(s, start))

ApproachInside(s, start) ==
    /\ s.prelude > s.move
    /\ \A t \in 0..(s.prelude - 1) :
          \A pose \in MovePoses(s, start, t) : InPool(pose)

LapInside(s, start) ==
    \A t \in 0..ValidationHorizon(s) : InPool(SampleAt(s, start, t))

EnvelopeInsideLimits(s, start) ==
    /\ s.within
    /\ s.type = "hold" => HoldInside(s, start)
    /\ Automatic(s) => ApproachInside(s, start) /\ LapInside(s, start)

(* on_validate_scenario.  An incompatible pair or a missing pose is        *)
(* rejected before anything is latched.                                    *)
OnValidateScenario ==
    /\ IF Compatible(scenario) /\ latest # NoPose /\ attitude
       THEN /\ motion_start' = latest
            /\ envelope_valid' = EnvelopeInsideLimits(scenario, latest)
            /\ approved' = envelope_valid'
       ELSE /\ envelope_valid' = FALSE
            /\ approved' = FALSE
            /\ UNCHANGED motion_start
    /\ UNCHANGED <<scenario, measuredVars, holdVars, startVars, elapsed,
                   operatorVars, published>>

(* on_reset_scenario: what a Start latches.                                *)
LatchAtStart ==
    /\ altitude_hold_z' = IF AltitudeHold(scenario) THEN Center["height"]
                          ELSE altitude_hold_z
    /\ altitude_heave_active' =
          (altitude_heave_active /\ ~AltitudeHold(scenario))
    /\ IF StationHold(scenario)
       THEN /\ station_target' = HeldPose(scenario, motion_start)
            /\ station_active' = {}
       ELSE UNCHANGED <<station_target, station_active>>

OnResetScenario ==
    /\ Compatible(scenario) /\ motion_start # NoPose
    /\ LatchAtStart
    /\ tracking_started' = TRUE
    /\ elapsed' = 0
    /\ as_started' = TRUE
    /\ start_pose' = IF touched \/ ~StationHold(scenario) THEN NoPose
                     ELSE HeldPose(scenario, motion_start)
    /\ last_push' = {}
    /\ left_at' = HeldPose(scenario, motion_start)
    /\ UNCHANGED <<scenarioVars, measuredVars, sticks, heave, touched,
                   published>>

(* on_stop_scenario: the next run starts from nothing of this one.         *)
(* variant: the stick inputs survive. *)
KeepInputs == UNCHANGED <<sticks, heave>>

ForgetInputs == sticks' = {} /\ heave' = FALSE

OnStopScenario ==
    /\ tracking_started' = FALSE /\ elapsed' = 0
    /\ motion_start' = NoPose
    /\ altitude_hold_z' = NoHeight /\ altitude_heave_active' = FALSE
    /\ station_target' = NoPose /\ station_active' = {}
    /\ ForgetInputs
    /\ touched' = FALSE
    /\ as_started' = FALSE /\ start_pose' = NoPose
    /\ last_push' = {} /\ left_at' = NoPose
    /\ approved' = FALSE
    /\ UNCHANGED <<scenario, envelope_valid, measuredVars, published>>

(* The parameter service accepts new values at any time; bounded here to   *)
(* one change while a run is on.                                           *)
SetParameters(s) ==
    /\ tracking_started => as_started
    /\ scenario' = s
    /\ scenario' # scenario
    /\ approved' = FALSE /\ as_started' = FALSE
    /\ last_push' = {} /\ left_at' = NoPose
    /\ UNCHANGED <<motion_start, envelope_valid, measuredVars, holdVars,
                   tracking_started, elapsed, operatorVars, published>>

-----------------------------------------------------------------------------
(* on_body_state with a usable position, and on_imu, which needs a heading *)
(* from the body state first.                                              *)
TrajectoryOnBodyState(pose) ==
    /\ latest' = pose
    /\ UNCHANGED <<scenarioVars, attitude, holdVars, startVars, elapsed,
                   operatorVars, published>>

TrajectoryOnImu ==
    /\ latest # NoPose /\ ~attitude
    /\ attitude' = TRUE
    /\ UNCHANGED <<scenarioVars, latest, holdVars, startVars, elapsed,
                   operatorVars, published>>

(* on_operator_target_input and on_manual_command; an input that is older  *)
(* than manual_input_age_s counts as released.                             *)
OnOperatorTargetInput(pushed) ==
    /\ sticks' = pushed
    /\ sticks' # sticks
    /\ touched' = (touched \/ pushed # {})
    /\ start_pose' = IF touched' THEN NoPose ELSE start_pose
    /\ UNCHANGED <<scenarioVars, measuredVars, holdVars, startVars, elapsed,
                   heave, published>>

OnManualCommand(pushed) ==
    /\ heave' = pushed
    /\ heave' # heave
    /\ touched' = (touched \/ pushed)
    /\ start_pose' = IF touched' THEN NoPose ELSE start_pose
    /\ UNCHANGED <<scenarioVars, measuredVars, holdVars, startVars, elapsed,
                   sticks, published>>

OperatorInputExpires ==
    /\ sticks # {} \/ heave
    /\ ForgetInputs
    /\ UNCHANGED <<scenarioVars, measuredVars, holdVars, startVars, elapsed,
                   touched, start_pose, published>>

-----------------------------------------------------------------------------
Measured == IF latest = NoPose THEN Center ELSE latest

(* target_is_valid, with the pair check of tick.                           *)
TargetIsValid(pose) ==
    Compatible(scenario) /\ envelope_valid /\ InPool(pose)

(* The pose a stick's component takes: the measured one while it is pushed *)
(* and at the tick that sees it released.                                  *)
(* variant: the release latches nothing. *)
FollowsWhilePushed(c, pushed, active) == c \in pushed

Follows(c, pushed, active) == c \in pushed \cup active

(* The history of a hold that runs as it was started. *)
Remember(pushed) ==
    IF as_started
    THEN /\ last_push' = pushed
         /\ left_at' = [c \in Components |->
                          IF c \in last_push \ pushed THEN Measured[c]
                          ELSE left_at[c]]
    ELSE UNCHANGED <<last_push, left_at>>

TickIdle ==
    /\ ~tracking_started
    /\ published' = (latest # NoPose /\ InPool(Measured))
    /\ UNCHANGED <<scenarioVars, measuredVars, holdVars, startVars, elapsed,
                   operatorVars>>

(* altitude_hold_sample *)
TickAltitudeHold ==
    /\ tracking_started /\ AltitudeHold(scenario)
    /\ LET pushed == IF heave THEN {"height"} ELSE {}
           active == IF altitude_heave_active THEN {"height"} ELSE {}
           z == IF Follows("height", pushed, active) THEN Measured["height"]
                ELSE altitude_hold_z
           pose == AtHeight(Measured,
                            IF z = NoHeight THEN Measured["height"] ELSE z)
       IN  /\ altitude_hold_z' = z
           /\ altitude_heave_active' = heave
           /\ Remember(pushed)
           /\ published' = TargetIsValid(pose)
    /\ UNCHANGED <<scenarioVars, measuredVars, station_target, station_active,
                   tracking_started, as_started, elapsed, operatorVars>>

(* station_hold_target: a missing target is taken from the start pose.     *)
StationSource ==
    IF station_target # NoPose THEN station_target
    ELSE IF motion_start # NoPose THEN motion_start ELSE Measured

TickStationHold ==
    /\ tracking_started /\ StationHold(scenario)
    /\ LET pose == ClipToPool(
               [c \in Components |->
                   IF latest # NoPose /\ Follows(c, sticks, station_active)
                   THEN latest[c] ELSE StationSource[c]])
       IN  /\ station_target' = pose
           /\ station_active' = sticks
           /\ published' = TargetIsValid(pose)
    /\ Remember(sticks)
    /\ UNCHANGED <<scenarioVars, measuredVars, altitude_hold_z,
                   altitude_heave_active, tracking_started, as_started,
                   elapsed, operatorVars>>

(* The approach, the turn at the first pose, then the path.                *)
AutomaticPoses ==
    IF elapsed < scenario.prelude
    THEN MovePoses(scenario, motion_start, elapsed)
    ELSE {SampleAt(scenario, motion_start, elapsed - scenario.prelude)}

TickAutomatic ==
    /\ tracking_started /\ Automatic(scenario) /\ motion_start # NoPose
    /\ elapsed < MaxElapsed
    /\ elapsed' = elapsed + 1
    /\ \E pose \in AutomaticPoses :
          published' = TargetIsValid(pose)
    /\ UNCHANGED <<scenarioVars, measuredVars, holdVars, startVars,
                   operatorVars>>

(* An unsupported pair set while a run is on: never a valid target.        *)
TickInvalid ==
    /\ tracking_started
    /\ ~AltitudeHold(scenario) /\ ~StationHold(scenario) /\ ~Automatic(scenario)
    /\ published' = FALSE
    /\ UNCHANGED <<scenarioVars, measuredVars, holdVars, startVars, elapsed,
                   operatorVars>>

TrajectoryTick ==
    TickIdle \/ TickAltitudeHold \/ TickStationHold \/ TickAutomatic
        \/ TickInvalid

TrajectoryNext ==
    \/ OnValidateScenario \/ OnResetScenario \/ OnStopScenario
    \/ \E s \in Scenarios : SetParameters(s)
    \/ \E pose \in Vehicle : TrajectoryOnBodyState(pose)
    \/ TrajectoryOnImu
    \/ \E pushed \in SticksSets : OnOperatorTargetInput(pushed)
    \/ \E pushed \in BOOLEAN : OnManualCommand(pushed)
    \/ OperatorInputExpires
    \/ TrajectoryTick

TrajectorySpec == TrajectoryInit /\ [][TrajectoryNext]_trajectoryVars

-----------------------------------------------------------------------------
TrajectoryTypeOK ==
    /\ scenario \in Scenarios
    /\ latest \in Vehicle \cup {NoPose} /\ attitude \in BOOLEAN
    /\ motion_start \in Vehicle \cup {NoPose} /\ envelope_valid \in BOOLEAN
    /\ tracking_started \in BOOLEAN /\ elapsed \in 0..MaxElapsed
    /\ altitude_hold_z \in Int /\ altitude_heave_active \in BOOLEAN
    /\ station_target \in Poses /\ station_active \in SUBSET Components
    /\ sticks \in SUBSET Components /\ heave \in BOOLEAN
    /\ approved \in BOOLEAN /\ as_started \in BOOLEAN
    /\ touched \in BOOLEAN /\ start_pose \in Poses
    /\ last_push \in SUBSET Components /\ left_at \in Poses
    /\ published \in BOOLEAN

(* The parameters have not been set again since Start.                     *)
RunsAsStarted == tracking_started /\ as_started

(* A hold that the operator has not touched since the last stop stays      *)
(* where Start put it, wherever the vehicle drifts and whatever was pushed *)
(* before the stop (on_stop_scenario, station_hold_target).                *)
UntouchedHoldStaysPut ==
    RunsAsStarted /\ ~touched =>
        /\ StationHold(scenario) /\ start_pose # NoPose =>
              station_target \in {start_pose, ClipToPool(start_pose)}
        /\ AltitudeHold(scenario) => altitude_hold_z = Center["height"]

(* Whatever the sticks and the vehicle have done since Start, a component   *)
(* that is not being pushed rests where it was left: where Start put it, or *)
(* where the vehicle was measured at the first tick that saw its stick      *)
(* neutral, be it released or timed out.  It is latched there exactly once: *)
(* neither the pose of the last push nor a later one is held, and the       *)
(* pushing of another component moves nothing (station_hold_target,         *)
(* altitude_hold_sample).                                                   *)
HoldRestsWhereLeft ==
    RunsAsStarted =>
        /\ StationHold(scenario) => \A c \in Components \ last_push :
              station_target[c] \in {left_at[c], ClipToPool(left_at)[c]}
        /\ AltitudeHold(scenario) /\ "height" \notin last_push =>
              altitude_hold_z = left_at["height"]

(* A scenario that Validate approved, started at the approved pose, is     *)
(* never invalidated by its own target: the lap that was sampled covers    *)
(* the ramp, the approach and every later lap, and a station target is     *)
(* kept inside the pool when the vehicle leaves it                         *)
(* (validate_scenario_envelope, target_is_valid).                          *)
ApprovedRunStaysValid ==
    [][/\ RunsAsStarted /\ approved
       /\ TickStationHold \/ TickAutomatic
       => published']_trajectoryVars
=============================================================================
