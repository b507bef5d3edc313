--------------------------- MODULE PidController ---------------------------
(***************************************************************************)
(* robotcore_control/six_dof_pid_node.py: the controller that turns the    *)
(* vehicle's state, the external IMU and the trajectory target into a      *)
(* thruster command while the authority selects PID.                       *)
(*                                                                         *)
(* A sample stands for what one tick reads of the messages it holds: for   *)
(* each axis the target speed t, the position or attitude error e, the     *)
(* measured speed v (for heave and the attitude axes the output of the     *)
(* low-pass filters) and the filtered derivative d, in body axes.          *)
(***************************************************************************)
EXTENDS ControlMath

CONSTANTS Samples,         \* what a tick can read, a set of samples
          Configurations,  \* the parameter sets a deployment may start with
          Limits,          \* action limits of the authority, in effort units
          MaxPidRun,       \* bound on ticks in a row under one regime
          PidErrorBound    \* the largest error a sample makes a loop see

Axes == {"surge", "sway", "heave", "roll", "pitch", "yaw"}
Loops == {"altitude", "surge", "sway", "fast_sway", "yaw"}
GainNames == {"kp", "ki", "kd", "integral_limit"}
RateNames == {"position_kp", "sway_rate", "level_rate_limit"}
AltitudeNames == {"altitude_position_kp"}
StationNames ==
    {"heading_kp", "horizontal_axis_limit", "yaw_axis_limit",
     "lateral_yaw_axis_limit", "surge_rate", "fast_surge_rate",
     "fast_sway_rate", "yaw_rate", "sway_slew", "yaw_slew",
     "feedforward_positive", "feedforward_negative", "sway_yaw_compensation",
     "level_pwm_limit"}
LevelNames ==
    {"level_angle_kp", "level_rate_kp", "pitch_ki", "pitch_integral_limit",
     "decoupling_forward", "decoupling_reverse", "decoupling_limit"}
ParameterNames == RateNames \cup AltitudeNames \cup StationNames \cup LevelNames

(* estimator: the settings of the IMU rate estimator are in range.         *)
Configuration ==
    [ready : BOOLEAN, sign : Int, gains : [Loops -> [GainNames -> Int]],
     par : [ParameterNames -> Int], estimator : BOOLEAN]

ASSUME PidAssumption ==
    /\ Samples \subseteq [Axes -> [{"t", "e", "v", "d"} -> Int]]
    /\ Configurations \subseteq Configuration
    /\ \A c \in Configurations :
          /\ c.gains["yaw"].kd = 0      \* the yaw loop has no such parameter
          /\ c.gains["fast_sway"] =     \* the sway loops differ in kp only
                [c.gains["sway"] EXCEPT !.kp = c.gains["fast_sway"].kp]
    /\ Limits \subseteq Nat
    /\ MaxPidRun \in Nat \ {0}
    /\ PidErrorBound \in Nat

(* (type, mode) pairs input_status accepts; the phase matters to the       *)
(* station modes only.  "other" stands for every pair it rejects.          *)
StationModes == {"station_hold", "station_hold_fast"}
Modes == {"idle", "altitude_hold"} \cup StationModes
Phases == {"track", "start_approach"}
Targets ==
    [mode : {"idle", "altitude_hold", "other"}, phase : {""}, valid : {TRUE}]
        \cup [mode : StationModes, phase : Phases, valid : {TRUE}]
        \cup [mode : {"altitude_hold"}, phase : {""}, valid : {FALSE}]
Bodies == {"absolute", "estimated", "no_velocity", "lost"}
NoBody == "none"
NoTarget == [mode |-> "none", phase |-> "", valid |-> FALSE]
NoRegime == <<>>

VARIABLES
    pid_alive,      \* the process runs
    tuning,         \* what load_configuration left in the node
    pid_selected,   \* the authority selects PID
    pwm_limit,      \* live limit, in effort units
    body, target,   \* last message of the topic
    imu,            \* the IMU filter holds a sample
    stale,          \* inputs older than max_input_age_s
    localization_seen,
    ticked,         \* last_tick_ns is not None
    active,         \* mode and phase of the last tick past the input checks
    control,        \* what reset_controllers resets
    pid_command,    \* last command: enable; history: the collective differs
                    \* from the altitude effort, an integral wound up
    regime,         \* history: mode, phase and limit of the last enabled tick
    pid_run         \* history: enabled ticks in a row under that regime

pidInputVars == <<body, target, imu, stale, localization_seen>>
pidVars == <<pid_alive, tuning, pid_selected, pwm_limit, pidInputVars, ticked,
             active, control, pid_command, regime, pid_run>>

ControlReset ==
    [loop |-> [l \in Loops |-> PidReset], yaw_maneuver |-> FALSE,
     yaw_sign |-> 0, sway_limited |-> 0, yaw_limited |-> 0,
     pitch_integral |-> 0, surge_direction |-> 0]

Disabled == [enable |-> FALSE, clipped |-> FALSE, wound |-> FALSE]

-----------------------------------------------------------------------------
(* load_configuration checks group by group that every gain, limit and     *)
(* time constant is finite and not negative and that the altitude sign is  *)
(* not zero, and last that the IMU estimator's settings are in range.  One *)
(* exception rejects the whole set and zeroes everything, but for the      *)
(* estimator, which gets defaults.                                         *)
NotNegative(c, names) == \A n \in names : c.par[n] >= 0
GainsAccepted(c, loops) == \A l \in loops, g \in GainNames : c.gains[l][g] >= 0

AltitudeAccepted(c) ==
    /\ GainsAccepted(c, {"altitude"})
    /\ c.sign # 0
    /\ NotNegative(c, AltitudeNames)

StationAccepted(c) ==
    GainsAccepted(c, Loops \ {"altitude"}) /\ NotNegative(c, StationNames)

LevelAccepted(c) == NotNegative(c, LevelNames)

AcceptsConfiguration(c) ==
    /\ NotNegative(c, RateNames)
    /\ AltitudeAccepted(c)
    /\ StationAccepted(c)
    /\ LevelAccepted(c)
    /\ c.estimator

(* What the loops can see as error of a sample under accepted parameters,  *)
(* in either phase, is bounded.                                            *)
StationRates ==
    {<<"surge", "surge_rate">>, <<"surge", "fast_surge_rate">>,
     <<"sway", "sway_rate">>, <<"sway", "fast_sway_rate">>}

ErrorsBounded(c, s) ==
    /\ \A r \in StationRates, approach \in BOOLEAN :
          Magnitude(StationVelocitySetpoint(s[r[1]].t, s[r[1]].e,
              c.par["position_kp"], c.par[r[2]], approach) - s[r[1]].v)
          <= PidErrorBound
    /\ Magnitude(Clip(s["yaw"].t + c.par["heading_kp"] * s["yaw"].e,
                      c.par["yaw_rate"]) - s["yaw"].v) <= PidErrorBound
    /\ Magnitude(AltitudeVelocitySetpoint(s["heave"].t, s["heave"].e,
                     c.par["altitude_position_kp"]) - s["heave"].v)
       <= PidErrorBound

ASSUME PidErrorAssumption ==
    \A c \in Configurations, s \in Samples :
        AcceptsConfiguration(c) => ErrorsBounded(c, s)

RejectedConfiguration ==
    [ready |-> FALSE, sign |-> -1,
     gains |-> [l \in Loops |-> [g \in GainNames |-> 0]],
     par |-> [n \in ParameterNames |-> 0], estimator |-> TRUE]

(* variant: a rejected parameter set leaves the parsed values in place. *)
LoadConfigurationUnchecked(c) == c

LoadConfiguration(c) ==
    IF AcceptsConfiguration(c) THEN c ELSE RejectedConfiguration

PidInit ==
    /\ pid_alive = TRUE
    /\ \E c \in Configurations : tuning = LoadConfiguration(c)
    /\ pid_selected = FALSE
    /\ pwm_limit \in Limits
    /\ body = NoBody /\ target = NoTarget /\ imu = FALSE
    /\ stale = {} /\ localization_seen = FALSE
    /\ ticked = FALSE
    /\ active = <<"idle", "">>
    /\ control = ControlReset
    /\ pid_command = Disabled
    /\ regime = NoRegime /\ pid_run = 0

-----------------------------------------------------------------------------
(* The callbacks that keep the latest message.                             *)
PidOnBody(b) ==
    /\ pid_alive /\ pid_selected
    /\ body' = b
    /\ stale' = stale \ {"body"}
    /\ localization_seen' =
           (localization_seen \/ b \in {"absolute", "no_velocity"})
    /\ UNCHANGED <<pid_alive, tuning, pid_selected, pwm_limit, target, imu,
                   ticked, active, control, pid_command, regime, pid_run>>

(* on_imu needs a localised body for the heading; a gap only restarts the  *)
(* filter, so that the filter then holds the new sample.                   *)
PidOnImu ==
    /\ pid_alive /\ pid_selected
    /\ body \in {"absolute", "estimated", "no_velocity"}
    /\ imu' = TRUE
    /\ stale' = stale \ {"imu"}
    /\ UNCHANGED <<pid_alive, tuning, pid_selected, pwm_limit, body, target,
                   localization_seen, ticked, active, control, pid_command,
                   regime, pid_run>>

PidOnTarget(m) ==
    /\ pid_alive /\ pid_selected
    /\ target' = m
    /\ stale' = stale \ {"target"}
    /\ UNCHANGED <<pid_alive, tuning, pid_selected, pwm_limit, body, imu,
                   localization_seen, ticked, active, control, pid_command,
                   regime, pid_run>>

(* No message of one topic for max_input_age_s.  One such topic disables   *)
(* the controller, and a second one changes nothing more.                  *)
PidInputAges(i) ==
    /\ pid_alive /\ pid_selected
    /\ stale = {}
    /\ stale' = {i}
    /\ UNCHANGED <<pid_alive, tuning, pid_selected, pwm_limit, body, target,
                   imu, localization_seen, ticked, active, control,
                   pid_command, regime, pid_run>>

(* _disconnect_pid_inputs *)
Disconnected ==
    /\ body' = NoBody /\ target' = NoTarget /\ imu' = FALSE /\ stale' = {}

(* on_authority_status: a change of selection or of the limit resets the   *)
(* controllers; an invalid limit (-1 here) is ignored after the selection  *)
(* was applied.                                                            *)
(* variant: a new limit does not reset. *)
AuthorityResetOnSelection(selected, limit) == selected # pid_selected

AuthorityReset(selected, limit) ==
    selected # pid_selected \/ (limit >= 0 /\ limit # pwm_limit)

PidOnAuthorityStatus(selected, limit) ==
    /\ pid_alive
    /\ pid_selected' = selected
    /\ ticked' = (ticked /\ selected = pid_selected)
    /\ IF pid_selected /\ ~selected
       THEN Disconnected
       ELSE UNCHANGED <<body, target, imu, stale>>
    /\ pwm_limit' = IF limit >= 0 THEN limit ELSE pwm_limit
    /\ control' = IF AuthorityReset(selected, limit)
                  THEN ControlReset ELSE control
    /\ regime' = IF selected = pid_selected THEN regime ELSE NoRegime
    /\ pid_run' = IF selected = pid_selected THEN pid_run ELSE 0
    /\ UNCHANGED <<pid_alive, tuning, localization_seen, active, pid_command>>

-----------------------------------------------------------------------------
(* input_status *)
InputsReady ==
    /\ tuning.ready
    /\ target.mode \in Modes /\ target.valid
    /\ imu
    /\ body \in {"absolute", "estimated"} /\ localization_seen
    /\ stale = {}

(* publish_disabled after reset_controllers: not ready, or a bad dt.       *)
TickDisabled(late) ==
    /\ pid_alive /\ pid_selected
    /\ ~InputsReady \/ (late /\ ticked)
    /\ control' = ControlReset
    /\ pid_command' = Disabled
    /\ ticked' = TRUE
    /\ regime' = NoRegime /\ pid_run' = 0
    /\ UNCHANGED <<pid_alive, tuning, pid_selected, pwm_limit, pidInputVars,
                   active>>

(* A position, speed or quaternion that is not finite, which no check of   *)
(* input_status covers, raises out of the timer callback: main ends.       *)
TickRaises ==
    /\ pid_alive /\ pid_selected /\ InputsReady
    /\ pid_alive' = FALSE
    /\ pid_selected' = FALSE
    /\ Disconnected
    /\ localization_seen' = FALSE
    /\ ticked' = FALSE /\ active' = <<"idle", "">>
    /\ control' = ControlReset /\ pid_command' = Disabled
    /\ regime' = NoRegime /\ pid_run' = 0
    /\ UNCHANGED <<tuning, pwm_limit>>

(* A change of mode, or of the phase of a station mode, resets.            *)
(* variant: the phase of a station mode is not compared. *)
ModeResetIgnoringPhase(c) ==
    IF active[1] # target.mode THEN ControlReset ELSE c

ModeReset(c) ==
    IF active # <<target.mode, target.phase>> THEN ControlReset ELSE c

-----------------------------------------------------------------------------
(* One step of a loop, with its integral and its clipped output.           *)
Par(n) == tuning.par[n]

LoopResult(held, kept, demand, limit) ==
    [pid |-> [integral |-> kept, seen |-> TRUE],
     output |-> Clip(demand, limit),
     wound |-> IF demand > limit THEN kept > held.integral
               ELSE demand < -limit /\ kept < held.integral]

LoopOutput(g, held, error, derivative, feedforward, limit, kept) ==
    LoopResult(held, kept,
        PidDemand(g, held, error, derivative, feedforward, kept), limit)

LoopStep(c, l, error, derivative, feedforward, limit, enabled) ==
    LET g == tuning.gains[l]
        held == IF enabled THEN c.loop[l] ELSE [c.loop[l] EXCEPT !.integral = 0]
    IN  LoopOutput(g, held, error, derivative, feedforward, limit,
            IF enabled
            THEN PidIntegral(g, held, error, derivative, feedforward, limit)
            ELSE 0)

Fast == target.mode = "station_hold_fast"
SwayLoop == IF Fast THEN "fast_sway" ELSE "sway"

(* Yaw turning by command, and fast sideways translation without it.       *)
YawManeuver(s) == s["yaw"].t # 0

LateralManeuver(c, s) ==
    /\ Fast
    /\ ~YawManeuver(s)
    /\ s["sway"].t # 0 \/ c.sway_limited # 0 \/ s["sway"].v # 0

(* What becomes of the yaw integral before the yaw loop steps.             *)
YawPrepared(c, s) ==
    LET yaw == c.loop["yaw"]
        crossing == ResetAfterCrossing(c.yaw_sign, s["yaw"].e,
                        tuning.gains["yaw"].ki * yaw.integral)
    IN  IF YawManeuver(s) \/ LateralManeuver(c, s)
        THEN [c EXCEPT !.loop["yaw"].integral = 0, !.yaw_sign = 0]
        ELSE IF c.yaw_maneuver
        THEN [c EXCEPT !.loop["yaw"] = PidReset, !.yaw_sign = 0]
        ELSE [c EXCEPT !.loop["yaw"].integral = IF crossing THEN 0 ELSE @,
                       !.yaw_sign = ErrorSign(@, s["yaw"].e)]

HorizontalAxisLimit ==
    IF Fast \/ target.phase = "start_approach"
    THEN pwm_limit
    ELSE Lesser(pwm_limit, Par("horizontal_axis_limit"))

YawAxisLimit(lateral) ==
    Lesser(Lesser(pwm_limit, Par("yaw_axis_limit")),
           IF lateral THEN Par("lateral_yaw_axis_limit") ELSE pwm_limit)

(* The rollback of this cycle's integrals when the mixer scales.           *)
(* variant: the integrals of a scaled cycle are kept. *)
NotRolledBack(stepped, c) == stepped

RolledBack(stepped, c) ==
    [l \in Loops |-> [stepped[l] EXCEPT !.integral = c.loop[l].integral]]

(* A loop's step behind a slew limiter, which only acts in a maneuver: the *)
(* effort and what the limiter remembers of it.                            *)
Slewed(step, slewing, previous, rate) ==
    LET limited == SlewRateLimit(previous, step.output, rate)
    IN  [step |-> step,
         memory |-> IF slewing THEN limited ELSE 0,
         effort |-> IF slewing THEN limited ELSE step.output]

StationSetpoint(s, a, normal_rate, fast_rate) ==
    StationVelocitySetpoint(s[a].t, s[a].e, Par("position_kp"),
        Par(IF Fast THEN fast_rate ELSE normal_rate),
        target.phase = "start_approach")

SurgeStep(c, s) ==
    LoopStep(c, "surge",
        StationSetpoint(s, "surge", "surge_rate", "fast_surge_rate")
            - s["surge"].v,
        s["surge"].d, 0, HorizontalAxisLimit, TRUE)

SwayStep(c, s) ==
    LET setpoint == StationSetpoint(s, "sway", "sway_rate", "fast_sway_rate")
        feedforward == DirectionalFeedforward(setpoint,
            Par("feedforward_positive"), Par("feedforward_negative"),
            HorizontalAxisLimit)
    IN  Slewed(LoopStep(c, SwayLoop, setpoint - s["sway"].v, s["sway"].d,
                        IF Fast THEN feedforward ELSE 0,
                        HorizontalAxisLimit, TRUE),
               Fast, c.sway_limited, Par("sway_slew"))

YawStep(c, s, lateral, sway_effort) ==
    LET setpoint == Clip(s["yaw"].t + Par("heading_kp") * s["yaw"].e,
                         Par("yaw_rate"))
        compensation == -(Par("sway_yaw_compensation") * sway_effort)
    IN  Slewed(LoopStep(c, "yaw", setpoint - s["yaw"].v, s["yaw"].d,
                        IF lateral THEN compensation ELSE 0,
                        YawAxisLimit(lateral), ~(YawManeuver(s) \/ lateral)),
               lateral, c.yaw_limited, Par("yaw_slew"))

StationMixed(c, s, surge, sway, yaw, mix) ==
    LET stepped == [c.loop EXCEPT !["surge"] = surge.pid,
                                  ![SwayLoop] = sway.step.pid,
                                  !["yaw"] = yaw.step.pid]
        loops == IF mix.scaled THEN RolledBack(stepped, c) ELSE stepped
    IN  [control |-> [c EXCEPT !.loop = loops,
                               !.yaw_maneuver = YawManeuver(s),
                               !.sway_limited = sway.memory,
                               !.yaw_limited = yaw.memory],
         wound |-> IF mix.scaled
                   THEN \E l \in Loops : loops[l].integral # c.loop[l].integral
                   ELSE surge.wound \/ sway.step.wound \/ yaw.step.wound,
         surge |-> surge.output,
         mix |-> mix]

(* The planar and heading loops and the mixer, once the yaw integral is    *)
(* prepared.                                                               *)
StationLoops(c, s, lateral) ==
    LET surge == SurgeStep(c, s)
        sway == SwayStep(c, s)
        yaw == YawStep(c, s, lateral, sway.effort)
    IN  StationMixed(c, s, surge, sway, yaw,
            HorizontalMix(surge.output, sway.effort, yaw.effort, pwm_limit))

StationStep(c, s) ==
    StationLoops(YawPrepared(c, s), s, LateralManeuver(c, s))

(* The roll and pitch cascade of fast station hold.  A change of surge     *)
(* direction clears the pitch integral.                                    *)
LevelStep(c0, s, station) ==
    LET applied == Applied(station.surge, station.mix)
        direction == IF station.mix.num = 0 THEN 0 ELSE SignOf(station.surge)
        c == [c0 EXCEPT !.surge_direction = direction,
                        !.pitch_integral =
                            IF direction = c0.surge_direction THEN @ ELSE 0]
        decoupling == SurgePitchDecoupling(applied, Par("decoupling_forward"),
            Par("decoupling_reverse"), Par("decoupling_limit"))
        limit == Lesser(pwm_limit, Par("level_pwm_limit"))
        RateError(a) == LevelRateError(s[a].e, s[a].t, s[a].v,
            Par("level_angle_kp"), Par("level_rate_limit"))
        roll == Par("level_rate_kp") * RateError("roll")
        pitch == Par("level_rate_kp") * RateError("pitch") + decoupling
        integral == ConditionalAxisIntegral(c.pitch_integral,
            RateError("pitch"), Par("pitch_ki"), Par("pitch_integral_limit"),
            roll, pitch, limit)
    IN  [control |-> [c EXCEPT !.pitch_integral = integral],
         peak |-> LevelPeak(roll, pitch + integral, limit)]

(* Headroom the roll and pitch differential leaves to the altitude loop.   *)
AltitudeOutputLimit(peak) == Greater(0, pwm_limit - peak)

AltitudeStep(c, s, peak) ==
    LET error == AltitudeVelocitySetpoint(s["heave"].t, s["heave"].e,
                     Par("altitude_position_kp")) - s["heave"].v
        step == LoopStep(c, "altitude", error, s["heave"].d, 0,
                         AltitudeOutputLimit(peak), TRUE)
    IN  [control |-> [c EXCEPT !.loop["altitude"] = step.pid],
         effort |-> step.output, wound |-> step.wound]

(* What the rest of a tick does to freshly checked controllers c, in the   *)
(* order of the code: station, level, altitude, command.                   *)
TickCommand(wound, peak, altitude) ==
    LET collective == AltitudeCollective(altitude.effort, tuning.sign, peak,
                                         pwm_limit)
    IN  [control |-> altitude.control,
         command |->
            [enable |-> TRUE,
             clipped |-> collective # SignOf(tuning.sign) * altitude.effort,
             wound |-> wound \/ altitude.wound]]

TickAltitude(s, wound, level) ==
    TickCommand(wound, level.peak, AltitudeStep(level.control, s, level.peak))

TickLevel(s, station) ==
    TickAltitude(s, station.wound,
        IF Fast THEN LevelStep(station.control, s, station)
        ELSE [control |-> station.control, peak |-> 0])

HoldStep(c, s) ==
    TickLevel(s,
        IF target.mode \in StationModes THEN StationStep(c, s)
        ELSE [control |-> c, wound |-> FALSE, surge |-> 0,
              mix |-> HorizontalMix(0, 0, 0, pwm_limit)])

TickEnabled(s) ==
    /\ pid_alive /\ pid_selected /\ InputsReady
    /\ LET c == ModeReset(control)
           step == IF target.mode = "idle"
                   THEN [control |-> ControlReset,
                         command |-> [Disabled EXCEPT !.enable = TRUE]]
                   ELSE HoldStep(c, s)
           now == <<target.mode, target.phase, pwm_limit>>
       IN  /\ regime = now => pid_run < MaxPidRun
           /\ control' = step.control
           /\ pid_command' = step.command
           /\ regime' = now
           /\ pid_run' = IF regime = now THEN pid_run + 1 ELSE 1
    /\ ticked' = TRUE
    /\ active' = <<target.mode, target.phase>>
    /\ UNCHANGED <<pid_alive, tuning, pid_selected, pwm_limit, pidInputVars>>

PidNext ==
    \/ \E b \in Bodies : PidOnBody(b)
    \/ PidOnImu
    \/ \E m \in Targets : PidOnTarget(m)
    \/ \E i \in {"body", "imu", "target"} : PidInputAges(i)
    \/ \E selected \in BOOLEAN, limit \in Limits \cup {-1} :
           PidOnAuthorityStatus(selected, limit)
    \/ \E late \in BOOLEAN : TickDisabled(late)
    \/ TickRaises
    \/ \E s \in Samples : TickEnabled(s)

PidSpec == PidInit /\ [][PidNext]_pidVars

-----------------------------------------------------------------------------
PidState == [integral : Int, seen : BOOLEAN]
ControlState ==
    [loop : [Loops -> PidState], yaw_maneuver : BOOLEAN, yaw_sign : -1..1,
     sway_limited : Int, yaw_limited : Int, pitch_integral : Int,
     surge_direction : -1..1]

PidTypeOK ==
    /\ pid_alive \in BOOLEAN /\ pid_selected \in BOOLEAN
    /\ tuning \in Configuration /\ AcceptsConfiguration(tuning)
    /\ pwm_limit \in Limits
    /\ body \in Bodies \cup {NoBody} /\ target \in Targets \cup {NoTarget}
    /\ imu \in BOOLEAN /\ stale \in SUBSET {"body", "imu", "target"}
    /\ localization_seen \in BOOLEAN /\ ticked \in BOOLEAN
    /\ active \in Modes \X (Phases \cup {""})
    /\ control \in ControlState
    /\ pid_command \in [enable : BOOLEAN, clipped : BOOLEAN, wound : BOOLEAN]
    /\ regime \in {NoRegime} \cup (Modes \X (Phases \cup {""}) \X Limits)
    /\ pid_run \in 0..MaxPidRun

(* The integrators hold only what the enabled ticks of the present mode,   *)
(* phase and limit put there: nothing survives a disabled tick, a change   *)
(* of mode, phase, limit or selection, or a late tick (reset_controllers   *)
(* and its callers).                                                       *)
RegimeOwnsIntegrals ==
    \A l \in Loops :
        Magnitude(control.loop[l].integral) <= pid_run * PidErrorBound

(* The slew limiters' memories stay inside the limit now in force, so that *)
(* a lowered limit is never exceeded by an effort remembered from before   *)
(* (on_authority_status resets them).                                      *)
SlewedWithinLimit ==
    /\ Magnitude(control.sway_limited) <= pwm_limit
    /\ Magnitude(control.yaw_limited)
          <= Lesser(pwm_limit, tuning.par["lateral_yaw_axis_limit"])

(* No integral winds up behind a limit, whichever acts last: none moves    *)
(* further in the direction in which its loop's output is clipped, none of *)
(* the horizontal ones moves while the common mixer scales, and the        *)
(* vertical mixer never cuts the altitude loop's output, whose own limit   *)
(* is the headroom that roll and pitch leave (ConditionalPid.step and the  *)
(* comments in tick).                                                      *)
NoWindUp == ~pid_command.wound /\ ~pid_command.clipped
=============================================================================
