---------------------------- MODULE ControlMath ----------------------------
(***************************************************************************)
(* The arithmetic of robotcore_control/control_math.py, in whole actuator  *)
(* units and with one control period as the unit of time.  What the        *)
(* functions guard against (non-finite inputs) is an input class of the    *)
(* controller module; what they compute is kept exactly, except that a     *)
(* common scale factor is represented by the fraction limit / peak.        *)
(***************************************************************************)
EXTENDS Integers

Magnitude(x) == IF x < 0 THEN -x ELSE x
Lesser(a, b) == IF a < b THEN a ELSE b
Greater(a, b) == IF a < b THEN b ELSE a

(* np.clip(x, -limit, limit) *)
Clip(x, limit) == Greater(-limit, Lesser(x, limit))

SignOf(x) == IF x > 0 THEN 1 ELSE IF x < 0 THEN -1 ELSE 0

(***************************************************************************)
(* ConditionalPid.step.  pid remembers the integral and whether a previous *)
(* measurement exists; without one the derivative term is zero.  The       *)
(* integral advances only when the command is not clipped or when the      *)
(* error pulls it back.                                                    *)
(***************************************************************************)
PidReset == [integral |-> 0, seen |-> FALSE]

CanIntegrate(raw, error, limit) ==
    \/ Magnitude(raw) <= limit
    \/ raw > limit /\ error < 0
    \/ raw < -limit /\ error > 0

PidIntegral(g, pid, error, derivative, feedforward, limit) ==
    LET proposed == Clip(pid.integral + error, g.integral_limit)
        damping == IF pid.seen THEN g.kd * derivative ELSE 0
        raw == feedforward + g.kp * error + g.ki * proposed + damping
    IN  IF CanIntegrate(raw, error, limit) THEN proposed ELSE pid.integral

PidDemand(g, pid, error, derivative, feedforward, integral) ==
    feedforward + g.kp * error + g.ki * integral
        + (IF pid.seen THEN g.kd * derivative ELSE 0)

(* altitude_velocity_setpoint *)
AltitudeVelocitySetpoint(target_speed, height_error, kp) ==
    target_speed + kp * height_error

(* station_velocity_setpoints, one axis: the center approach is not capped *)
StationVelocitySetpoint(target_speed, error, kp, limit, center_approach) ==
    LET requested == target_speed + kp * error
    IN  IF center_approach THEN requested ELSE Clip(requested, limit)

(* directional_velocity_feedforward and slew_rate_limit *)
DirectionalFeedforward(setpoint, positive, negative, limit) ==
    Clip((IF setpoint >= 0 THEN positive ELSE negative) * setpoint, limit)

SlewRateLimit(previous, requested, rate) ==
    previous + Clip(requested - previous, rate)

(* integral_reset_after_error_crossing: the sign that is remembered, and   *)
(* whether the integral opposes an error that crossed zero.                *)
ErrorSign(previous, error) == IF error = 0 THEN previous ELSE SignOf(error)

ResetAfterCrossing(previous, error, integral_effort) ==
    /\ error # 0
    /\ previous # 0
    /\ SignOf(error) # previous
    /\ integral_effort * error < 0

(***************************************************************************)
(* station_horizontal_pwm_mix: the four horizontal channels in thousandths *)
(* of a unit, with the measured asymmetric coefficients, and the common    *)
(* scale, the fraction num / den, applied when a channel would exceed the  *)
(* limit.                                                                  *)
(***************************************************************************)
HorizontalUpper(surge, sway, yaw) ==
    LET s == Magnitude(sway)
        y == Magnitude(yaw)
    IN  << -1000 * surge + (IF sway >= 0 THEN -1000 * s ELSE 0)
               + (IF yaw >= 0 THEN 1000 * y ELSE -998 * y),
           -1000 * surge + (IF sway >= 0 THEN 0 ELSE -1000 * s)
               + (IF yaw >= 0 THEN -998 * y ELSE 1000 * y),
           1000 * surge + (IF sway >= 0 THEN -893 * s ELSE 608 * s)
               + (IF yaw >= 0 THEN -355 * y ELSE 722 * y),
           1000 * surge + (IF sway >= 0 THEN 608 * s ELSE -893 * s)
               + (IF yaw >= 0 THEN 722 * y ELSE -355 * y) >>

HorizontalMix(surge, sway, yaw, limit) ==
    LET upper == HorizontalUpper(Clip(surge, limit), Clip(sway, limit),
                                 Clip(yaw, limit))
        peak == Greater(Greater(Magnitude(upper[1]), Magnitude(upper[2])),
                        Greater(Magnitude(upper[3]), Magnitude(upper[4])))
    IN  IF peak > 1000 * limit
        THEN [scaled |-> TRUE, num |-> 1000 * limit, den |-> peak]
        ELSE [scaled |-> FALSE, num |-> 1, den |-> 1]

(* An effort after the common scale, rounded to whole units toward zero.   *)
Applied(effort, mix) ==
    SignOf(effort) * ((Magnitude(effort) * mix.num) \div mix.den)

(* surge_pitch_decoupling_effort *)
SurgePitchDecoupling(applied_surge, forward, reverse, limit) ==
    Clip(-((IF applied_surge >= 0 THEN forward ELSE reverse) * applied_surge),
         limit)

(***************************************************************************)
(* level_attitude_rate_efforts, one axis: the bounded rate setpoint and    *)
(* the raw effort.  The limiter scales roll and pitch together, so that    *)
(* the sum of their magnitudes, the peak differential on one vertical      *)
(* channel, is LevelPeak.                                                  *)
(***************************************************************************)
LevelRateError(error, target_rate, rate, angle_kp, rate_limit) ==
    Clip(target_rate + angle_kp * error, rate_limit) - rate

LevelPeak(roll_raw, pitch_raw, limit) ==
    Lesser(Magnitude(roll_raw) + Magnitude(pitch_raw), limit)

(* conditional_axis_integral_effort for the pitch axis *)
ConditionalAxisIntegral(current, error, ki, limit, roll, pitch, combined) ==
    LET kept == Clip(current, limit)
        proposed == Clip(kept + ki * error, limit)
        Peak(effort) == Magnitude(roll) + Magnitude(pitch + effort)
    IN  IF Peak(proposed) > combined /\ Peak(proposed) > Peak(kept)
        THEN kept ELSE proposed

(***************************************************************************)
(* altitude_collective_pwm_commands and altitude_level_pwm_commands: the   *)
(* common vertical effort, clipped to what the roll and pitch differential *)
(* of magnitude peak (itself scaled into the limit) leaves on the worst    *)
(* channel.                                                                *)
(***************************************************************************)
AltitudeCollective(pid_output, sign, peak, limit) ==
    Clip(SignOf(sign) * pid_output, limit - Lesser(peak, limit))
=============================================================================
