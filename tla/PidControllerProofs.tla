------------------------ MODULE PidControllerProofs ------------------------
(***************************************************************************)
(* The controller's safety for every set of gains, limits and samples.     *)
(***************************************************************************)
EXTENDS PidController, TLAPS

-----------------------------------------------------------------------------
(* The arithmetic.                                                         *)

LEMMA MagnitudeType ==
  ASSUME NEW x \in Int
  PROVE  Magnitude(x) \in Nat /\ Magnitude(x) >= x /\ Magnitude(x) >= -x
BY DEF Magnitude

LEMMA ClipFacts ==
  ASSUME NEW x \in Int, NEW limit \in Nat
  PROVE  /\ Clip(x, limit) \in Int
         /\ Magnitude(Clip(x, limit)) <= limit
         /\ Magnitude(Clip(x, limit)) <= Magnitude(x)
         /\ x <= 0 => Clip(x, limit) <= 0
         /\ Magnitude(x) <= limit => Clip(x, limit) = x
BY DEF Clip, Magnitude, Lesser, Greater

(* An effort that starts inside a limit and is asked to go to one inside   *)
(* it stays inside, at every rate.                                         *)
LEMMA SlewStaysInside ==
  ASSUME NEW previous \in Int, NEW requested \in Int, NEW rate \in Nat,
         NEW limit \in Nat,
         Magnitude(previous) <= limit, Magnitude(requested) <= limit
  PROVE  /\ SlewRateLimit(previous, requested, rate) \in Int
         /\ Magnitude(SlewRateLimit(previous, requested, rate)) <= limit
BY DEF SlewRateLimit, Clip, Magnitude, Lesser, Greater

(* The direction in which an integral moves when it is stepped.            *)
LEMMA IntegralMoves ==
  ASSUME NEW integral \in Int, NEW error \in Int, NEW limit \in Nat,
         Magnitude(integral) <= limit
  PROVE  LET moved == Clip(integral + error, limit) IN
         /\ moved \in Int
         /\ Magnitude(moved) <= limit
         /\ Magnitude(moved) <= Magnitude(integral) + Magnitude(error)
         /\ error < 0 => moved <= integral
         /\ error > 0 => moved >= integral
BY DEF Clip, Magnitude, Lesser, Greater

-----------------------------------------------------------------------------
(* One loop.                                                               *)

Gains == [GainNames -> Int]

LEMMA PidDemandType ==
  ASSUME NEW g \in Gains, NEW pid \in PidState, NEW error \in Int,
         NEW derivative \in Int, NEW feedforward \in Int, NEW integral \in Int
  PROVE  PidDemand(g, pid, error, derivative, feedforward, integral) \in Int
<1>1. g.kp \in Int /\ g.ki \in Int /\ g.kd \in Int
  BY DEF Gains, GainNames
<1>2. g.kp * error \in Int /\ g.ki * integral \in Int /\ g.kd * derivative \in Int
  BY <1>1
<1> QED BY <1>2 DEF PidDemand

(* Either the integral stays, or it takes one error and the demand that it *)
(* then makes is inside the limit or pulled back by that error.            *)
LEMMA PidIntegralCases ==
  ASSUME NEW g \in Gains, NEW pid \in PidState, NEW error \in Int,
         NEW derivative \in Int, NEW feedforward \in Int, NEW limit \in Nat
  PROVE  LET kept == PidIntegral(g, pid, error, derivative, feedforward, limit)
         IN  \/ kept = pid.integral
             \/ /\ kept = Clip(pid.integral + error, g.integral_limit)
                /\ CanIntegrate(PidDemand(g, pid, error, derivative,
                                          feedforward, kept), error, limit)
BY DEF PidIntegral, PidDemand

(* What the step of loop l with that error does to it, whatever the gains:  *)
(* the output is inside the limit, the integral inside its own, and it has  *)
(* not moved in the direction in which the output is clipped.               *)
SteppedLoop(r, c, l, error, limit) ==
  /\ r.pid \in PidState
  /\ r.output \in Int /\ Magnitude(r.output) <= limit
  /\ ~r.wound
  /\ Magnitude(r.pid.integral) <= tuning.gains[l].integral_limit
  /\ Magnitude(r.pid.integral) <= Magnitude(c.loop[l].integral) + Magnitude(error)

Tuned == /\ tuning \in Configuration /\ AcceptsConfiguration(tuning)
         /\ pwm_limit \in Nat

IntegralsBounded(c) ==
  \A l \in Loops :
    Magnitude(c.loop[l].integral) <= tuning.gains[l].integral_limit

LEMMA TunedFacts ==
  ASSUME Tuned
  PROVE  /\ \A n \in ParameterNames : Par(n) \in Nat
         /\ \A l \in Loops : /\ tuning.gains[l] \in Gains
                             /\ tuning.gains[l].integral_limit \in Nat
         /\ tuning.sign \in Int \ {0}
<1>1. \A n \in ParameterNames : Par(n) \in Int
  BY DEF Tuned, Configuration, Par
<1>2. \A n \in ParameterNames : Par(n) >= 0
  BY DEF Tuned, AcceptsConfiguration, AltitudeAccepted, StationAccepted,
         LevelAccepted, NotNegative, ParameterNames, Par
<1>3. \A l \in Loops : tuning.gains[l] \in Gains
  BY DEF Tuned, Configuration, Gains
<1>4. \A l \in Loops, g \in GainNames : tuning.gains[l][g] >= 0
  BY DEF Tuned, AcceptsConfiguration, AltitudeAccepted, StationAccepted,
         GainsAccepted
<1>5. \A l \in Loops : tuning.gains[l].integral_limit \in Nat
  BY <1>3, <1>4 DEF Gains, GainNames
<1>6. tuning.sign \in Int \ {0}
  BY DEF Tuned, Configuration, AcceptsConfiguration, AltitudeAccepted
<1> QED BY <1>1, <1>2, <1>3, <1>5, <1>6

LEMMA LoopResultFacts ==
  ASSUME NEW held \in PidState, NEW kept \in Int, NEW demand \in Int,
         NEW error \in Int, NEW limit \in Nat,
         \/ kept = held.integral
         \/ /\ error < 0 => kept <= held.integral
            /\ error > 0 => kept >= held.integral
            /\ CanIntegrate(demand, error, limit)
  PROVE  LET r == LoopResult(held, kept, demand, limit) IN
         /\ r.pid = [integral |-> kept, seen |-> TRUE]
         /\ r.output \in Int /\ Magnitude(r.output) <= limit
         /\ ~r.wound
<1>1. held.integral \in Int
  BY DEF PidState
<1>2. ~(IF demand > limit THEN kept > held.integral
        ELSE demand < -limit /\ kept < held.integral)
  BY <1>1 DEF CanIntegrate, Magnitude
<1> QED BY <1>2, ClipFacts DEF LoopResult

LEMMA LoopStepFacts ==
  ASSUME Tuned, NEW c \in ControlState, IntegralsBounded(c), NEW l \in Loops,
         NEW error \in Int, NEW derivative \in Int, NEW feedforward \in Int,
         NEW limit \in Nat, NEW enabled \in BOOLEAN
  PROVE  SteppedLoop(LoopStep(c, l, error, derivative, feedforward, limit,
                              enabled), c, l, error, limit)
<1> DEFINE g == tuning.gains[l]
           held == IF enabled THEN c.loop[l]
                   ELSE [c.loop[l] EXCEPT !.integral = 0]
           moved == PidIntegral(g, held, error, derivative, feedforward, limit)
           kept == IF enabled THEN moved ELSE 0
           demand == PidDemand(g, held, error, derivative, feedforward, kept)
<1>1. /\ g \in Gains /\ g.integral_limit \in Nat
      /\ c.loop[l] \in PidState /\ c.loop[l].integral \in Int
      /\ Magnitude(c.loop[l].integral) <= g.integral_limit
  BY TunedFacts DEF ControlState, PidState, IntegralsBounded
<1>2. /\ held \in PidState
      /\ enabled => held = c.loop[l]
      /\ ~enabled => held.integral = 0
  BY <1>1 DEF PidState
<1>3. \/ moved = held.integral
      \/ /\ moved = Clip(held.integral + error, g.integral_limit)
         /\ CanIntegrate(PidDemand(g, held, error, derivative, feedforward,
                                   moved), error, limit)
  <2> HIDE DEF g, held
  <2> QED BY <1>1, <1>2, PidIntegralCases
<1>4. LET m == Clip(c.loop[l].integral + error, g.integral_limit) IN
         /\ m \in Int
         /\ Magnitude(m) <= g.integral_limit
         /\ Magnitude(m) <= Magnitude(c.loop[l].integral) + Magnitude(error)
         /\ error < 0 => m <= c.loop[l].integral
         /\ error > 0 => m >= c.loop[l].integral
  BY <1>1, IntegralMoves
<1>5. /\ kept \in Int
      /\ Magnitude(kept) <= g.integral_limit
      /\ Magnitude(kept) <= Magnitude(c.loop[l].integral) + Magnitude(error)
      /\ \/ kept = held.integral
         \/ /\ error < 0 => kept <= held.integral
            /\ error > 0 => kept >= held.integral
            /\ CanIntegrate(demand, error, limit)
  <2> HIDE DEF g, held, moved, demand
  <2>1. CASE enabled
    <3>1. kept = moved /\ held.integral = c.loop[l].integral
      BY <2>1, <1>2
    <3>2. CASE moved = held.integral
      BY <3>1, <3>2, <1>1, MagnitudeType
    <3>3. CASE /\ moved = Clip(held.integral + error, g.integral_limit)
               /\ CanIntegrate(PidDemand(g, held, error, derivative,
                                         feedforward, moved), error, limit)
      BY <3>1, <3>3, <1>4 DEF demand
    <3> QED BY <3>2, <3>3, <1>3
  <2>2. CASE ~enabled
    BY <2>2, <1>1, <1>2, MagnitudeType DEF Magnitude
  <2> QED BY <2>1, <2>2
<1>6. demand \in Int
  BY <1>1, <1>2, <1>5, PidDemandType
<1>7. LoopStep(c, l, error, derivative, feedforward, limit, enabled)
        = LoopResult(held, kept, demand, limit)
  BY DEF LoopStep, LoopOutput
<1>8. LET r == LoopResult(held, kept, demand, limit) IN
         /\ r.pid = [integral |-> kept, seen |-> TRUE]
         /\ r.output \in Int /\ Magnitude(r.output) <= limit
         /\ ~r.wound
  <2> HIDE DEF g, held, moved, kept, demand
  <2> QED BY <1>2, <1>5, <1>6, LoopResultFacts
<1> HIDE DEF g, held, moved, kept, demand
<1>9. [integral |-> kept, seen |-> TRUE] \in PidState
  BY <1>5 DEF PidState
<1> QED BY <1>5, <1>7, <1>8, <1>9 DEF SteppedLoop, g

-----------------------------------------------------------------------------
(* The station loops.                                                      *)

SlewsInside(c) ==
  /\ Magnitude(c.sway_limited) <= pwm_limit
  /\ Magnitude(c.yaw_limited)
        <= Lesser(pwm_limit, tuning.par["lateral_yaw_axis_limit"])

Sound(c) == c \in ControlState /\ IntegralsBounded(c) /\ SlewsInside(c)

Sample == [Axes -> [{"t", "e", "v", "d"} -> Int]]

(* What one tick may do to the integral of loop l.                         *)
GrownLoop(d, c, l) ==
  Magnitude(d.loop[l].integral)
    <= Magnitude(c.loop[l].integral) + PidErrorBound

(* SteppedLoop for an error inside the bound.                              *)
Stepped(r, c, l, limit) ==
  /\ r.pid \in PidState
  /\ r.output \in Int /\ Magnitude(r.output) <= limit
  /\ ~r.wound
  /\ Magnitude(r.pid.integral) <= tuning.gains[l].integral_limit
  /\ Magnitude(r.pid.integral)
        <= Magnitude(c.loop[l].integral) + PidErrorBound

LEMMA SampleFacts ==
  ASSUME NEW s \in Sample, NEW a \in Axes
  PROVE  s[a].t \in Int /\ s[a].e \in Int /\ s[a].v \in Int /\ s[a].d \in Int
BY DEF Sample

LEMMA BoundedStep ==
  ASSUME Tuned, NEW c, Sound(c), NEW l \in Loops,
         NEW error \in Int, NEW derivative \in Int, NEW feedforward \in Int,
         NEW limit \in Nat, NEW enabled \in BOOLEAN,
         PidErrorBound \in Nat, Magnitude(error) <= PidErrorBound
  PROVE  Stepped(LoopStep(c, l, error, derivative, feedforward, limit,
                          enabled), c, l, limit)
<1>1. c \in ControlState /\ IntegralsBounded(c)
  BY DEF Sound
<1>2. c.loop[l].integral \in Int
  BY <1>1 DEF ControlState, PidState
<1> DEFINE r == LoopStep(c, l, error, derivative, feedforward, limit, enabled)
<1> HIDE DEF r
<1>3. SteppedLoop(r, c, l, error, limit)
  BY <1>1, LoopStepFacts DEF r
<1>4. r.pid.integral \in Int
  BY <1>3 DEF SteppedLoop, PidState
<1>5. Stepped(r, c, l, limit)
  BY <1>2, <1>3, <1>4, MagnitudeType DEF SteppedLoop, Stepped
<1> QED BY <1>5 DEF r

LEMMA AxisLimits ==
  ASSUME Tuned, NEW lateral \in BOOLEAN
  PROVE  /\ HorizontalAxisLimit \in Nat /\ HorizontalAxisLimit <= pwm_limit
         /\ YawAxisLimit(lateral) \in Nat /\ YawAxisLimit(lateral) <= pwm_limit
         /\ lateral => YawAxisLimit(lateral)
                         <= Lesser(pwm_limit, Par("lateral_yaw_axis_limit"))
<1>1. /\ Par("horizontal_axis_limit") \in Nat /\ Par("yaw_axis_limit") \in Nat
      /\ Par("lateral_yaw_axis_limit") \in Nat /\ pwm_limit \in Nat
  BY TunedFacts DEF ParameterNames, StationNames, Tuned
<1> QED BY <1>1 DEF HorizontalAxisLimit, YawAxisLimit, Lesser

(* Preparing the yaw loop only clears its integral.                        *)
LEMMA YawPreparedFacts ==
  ASSUME Tuned, NEW c, Sound(c), NEW s \in Sample
  PROVE  LET d == YawPrepared(c, s) IN
         /\ Sound(d)
         /\ \A l \in Loops : Magnitude(d.loop[l].integral)
                               <= Magnitude(c.loop[l].integral)
         /\ d.loop["altitude"] = c.loop["altitude"]
<1> DEFINE d == YawPrepared(c, s)
<1>1. /\ c \in ControlState
      /\ c.loop \in [Loops -> PidState] /\ "yaw" \in Loops
      /\ c.loop["yaw"] \in PidState
      /\ \A l \in Loops : c.loop[l].integral \in Int
  BY DEF Sound, ControlState, PidState, Loops
<1>2. s["yaw"].e \in Int
  BY SampleFacts DEF Axes
<1>3. ErrorSign(c.yaw_sign, s["yaw"].e) \in -1..1
  BY <1>1, <1>2 DEF ErrorSign, SignOf, ControlState
<1>4. \E yaw \in PidState, sign \in -1..1 :
         /\ d = [c EXCEPT !.loop = [c.loop EXCEPT !["yaw"] = yaw],
                          !.yaw_sign = sign]
         /\ yaw.integral \in {0, c.loop["yaw"].integral}
  <2>1. CASE YawManeuver(s) \/ LateralManeuver(c, s)
    <3>1. d = [c EXCEPT !.loop = [c.loop EXCEPT !["yaw"] =
                                    [c.loop["yaw"] EXCEPT !.integral = 0]],
                        !.yaw_sign = 0]
      BY <2>1, <1>1 DEF YawPrepared, ControlState
    <3>2. [c.loop["yaw"] EXCEPT !.integral = 0] \in PidState
      BY <1>1 DEF PidState
    <3>3. [c.loop["yaw"] EXCEPT !.integral = 0].integral = 0 /\ 0 \in -1..1
      BY <1>1 DEF PidState
    <3> WITNESS [c.loop["yaw"] EXCEPT !.integral = 0] \in PidState, 0 \in -1..1
    <3> QED BY <3>1, <3>3
  <2>2. CASE ~(YawManeuver(s) \/ LateralManeuver(c, s)) /\ c.yaw_maneuver
    <3>1. d = [c EXCEPT !.loop = [c.loop EXCEPT !["yaw"] = PidReset],
                        !.yaw_sign = 0]
      BY <2>2, <1>1 DEF YawPrepared, ControlState
    <3> PidReset \in PidState /\ PidReset.integral = 0 /\ 0 \in -1..1
      BY DEF PidReset, PidState
    <3> WITNESS PidReset \in PidState, 0 \in -1..1
    <3> QED BY <3>1
  <2>3. CASE ~(YawManeuver(s) \/ LateralManeuver(c, s)) /\ ~c.yaw_maneuver
    <3> DEFINE crossing == ResetAfterCrossing(c.yaw_sign, s["yaw"].e,
                             tuning.gains["yaw"].ki * c.loop["yaw"].integral)
               yaw == [c.loop["yaw"] EXCEPT !.integral =
                         IF crossing THEN 0 ELSE c.loop["yaw"].integral]
    <3>1. d = [c EXCEPT !.loop = [c.loop EXCEPT !["yaw"] = yaw],
                        !.yaw_sign = ErrorSign(c.yaw_sign, s["yaw"].e)]
      BY <2>3, <1>1 DEF YawPrepared, ControlState
    <3> HIDE DEF crossing
    <3>2. yaw \in PidState /\ yaw.integral \in {0, c.loop["yaw"].integral}
      BY <1>1 DEF PidState
    <3> QED BY <3>1, <3>2, <1>3
  <2> QED BY <2>1, <2>2, <2>3
<1> HIDE DEF d
<1>5. PICK yaw \in PidState, sign \in -1..1 :
         /\ d = [c EXCEPT !.loop = [c.loop EXCEPT !["yaw"] = yaw],
                          !.yaw_sign = sign]
         /\ yaw.integral \in {0, c.loop["yaw"].integral}
  BY <1>4
<1>6. /\ d \in ControlState
      /\ d.loop = [c.loop EXCEPT !["yaw"] = yaw]
      /\ d.sway_limited = c.sway_limited /\ d.yaw_limited = c.yaw_limited
  BY <1>1, <1>5 DEF ControlState
<1>7. \A l \in Loops : d.loop[l].integral \in {0, c.loop[l].integral}
  BY <1>1, <1>5, <1>6
<1>8. \A l \in Loops : Magnitude(d.loop[l].integral)
                         <= Magnitude(c.loop[l].integral)
  BY <1>1, <1>7 DEF Magnitude
<1>9. \A l \in Loops : /\ tuning.gains[l].integral_limit \in Nat
                       /\ Magnitude(d.loop[l].integral) \in Nat
                       /\ Magnitude(c.loop[l].integral) \in Nat
  BY <1>1, <1>7, TunedFacts, MagnitudeType
<1>10. IntegralsBounded(d)
  BY <1>8, <1>9 DEF Sound, IntegralsBounded
<1>11. SlewsInside(d)
  BY <1>6 DEF Sound, SlewsInside
<1>12. d.loop["altitude"] = c.loop["altitude"]
  BY <1>1, <1>6 DEF Loops
<1> QED BY <1>6, <1>8, <1>10, <1>11, <1>12 DEF Sound, d

LEMMA MixFacts ==
  ASSUME NEW surge \in Int, NEW sway \in Int, NEW yaw \in Int, NEW limit \in Nat
  PROVE  LET mix == HorizontalMix(surge, sway, yaw, limit) IN
         mix.scaled \in BOOLEAN /\ mix.num \in Nat /\ mix.den \in Nat \ {0}
<1> DEFINE upper == HorizontalUpper(Clip(surge, limit), Clip(sway, limit),
                                    Clip(yaw, limit))
           peak == Greater(Greater(Magnitude(upper[1]), Magnitude(upper[2])),
                           Greater(Magnitude(upper[3]), Magnitude(upper[4])))
<1>1. /\ Clip(surge, limit) \in Int /\ Clip(sway, limit) \in Int
      /\ Clip(yaw, limit) \in Int
  BY ClipFacts
<1>2. ASSUME NEW x \in Int, NEW y \in Int, NEW z \in Int
      PROVE  LET u == HorizontalUpper(x, y, z) IN
             u[1] \in Int /\ u[2] \in Int /\ u[3] \in Int /\ u[4] \in Int
  BY DEF HorizontalUpper, Magnitude
<1>3. /\ upper[1] \in Int /\ upper[2] \in Int /\ upper[3] \in Int
      /\ upper[4] \in Int
  BY <1>1, <1>2
<1> HIDE DEF upper
<1>4. peak \in Nat
  BY <1>3, MagnitudeType DEF Greater
<1>5. HorizontalMix(surge, sway, yaw, limit)
        = IF peak > 1000 * limit
          THEN [scaled |-> TRUE, num |-> 1000 * limit, den |-> peak]
          ELSE [scaled |-> FALSE, num |-> 1, den |-> 1]
  BY DEF HorizontalMix, upper
<1> HIDE DEF peak
<1> QED BY <1>4, <1>5

LEMMA SlewedFacts ==
  ASSUME NEW step, NEW slewing \in BOOLEAN, NEW previous \in Int,
         NEW rate \in Nat, NEW limit \in Nat,
         step.output \in Int, slewing => Magnitude(step.output) <= limit,
         Magnitude(previous) <= limit
  PROVE  LET r == Slewed(step, slewing, previous, rate) IN
         /\ r.step = step
         /\ r.memory \in Int /\ Magnitude(r.memory) <= limit
         /\ r.effort \in Int
<1> DEFINE limited == SlewRateLimit(previous, step.output, rate)
<1>1. slewing => limited \in Int /\ Magnitude(limited) <= limit
  BY SlewStaysInside
<1>2. Magnitude(0) = 0
  BY DEF Magnitude
<1> QED BY <1>1, <1>2 DEF Slewed

LEMMA StationErrorFacts ==
  ASSUME Tuned, NEW s \in Sample, ErrorsBounded(tuning, s),
         NEW a \in {"surge", "sway"},
         NEW normal, NEW fast,
         <<a, normal>> \in StationRates, <<a, fast>> \in StationRates
  PROVE  LET setpoint == StationSetpoint(s, a, normal, fast) IN
         /\ setpoint \in Int
         /\ setpoint - s[a].v \in Int
         /\ Magnitude(setpoint - s[a].v) <= PidErrorBound
<1> DEFINE rate == IF Fast THEN fast ELSE normal
           approach == target.phase = "start_approach"
<1>1. <<a, rate>> \in StationRates /\ rate \in ParameterNames
  BY DEF StationRates, ParameterNames, StationNames, RateNames
<1>2. approach \in BOOLEAN
  OBVIOUS
<1>3. StationSetpoint(s, a, normal, fast)
        = StationVelocitySetpoint(s[a].t, s[a].e, tuning.par["position_kp"],
                                  tuning.par[rate], approach)
  BY DEF StationSetpoint, Par
<1> HIDE DEF rate, approach
<1>4. s[a].t \in Int /\ s[a].e \in Int /\ s[a].v \in Int
  BY SampleFacts DEF Axes
<1>5. Par("position_kp") \in Nat /\ Par(rate) \in Nat
  BY <1>1, TunedFacts DEF ParameterNames, RateNames
<1>6. Par("position_kp") * s[a].e \in Int
  BY <1>4, <1>5
<1>7. s[a].t + Par("position_kp") * s[a].e \in Int
  BY <1>4, <1>6
<1>8. Clip(s[a].t + Par("position_kp") * s[a].e, Par(rate)) \in Int
  BY <1>5, <1>7, ClipFacts
<1>9. StationSetpoint(s, a, normal, fast) \in Int
  BY <1>3, <1>7, <1>8 DEF StationVelocitySetpoint, Par
<1>10. Magnitude(StationVelocitySetpoint(s[a].t, s[a].e,
          tuning.par["position_kp"], tuning.par[rate], approach) - s[a].v)
         <= PidErrorBound
  <2>1. \A r \in StationRates, b \in BOOLEAN :
          Magnitude(StationVelocitySetpoint(s[r[1]].t, s[r[1]].e,
            tuning.par["position_kp"], tuning.par[r[2]], b) - s[r[1]].v)
          <= PidErrorBound
    BY DEF ErrorsBounded
  <2>2. <<a, rate>>[1] = a /\ <<a, rate>>[2] = rate
    OBVIOUS
  <2> QED BY <2>1, <2>2, <1>1, <1>2
<1> QED BY <1>3, <1>4, <1>9, <1>10

LEMMA SurgeStepFacts ==
  ASSUME Tuned, PidErrorBound \in Nat, NEW c, Sound(c), NEW s \in Sample,
         ErrorsBounded(tuning, s)
  PROVE  Stepped(SurgeStep(c, s), c, "surge", pwm_limit)
<1> DEFINE setpoint == StationSetpoint(s, "surge", "surge_rate", "fast_surge_rate")
<1>1. /\ setpoint \in Int
      /\ setpoint - s["surge"].v \in Int
      /\ Magnitude(setpoint - s["surge"].v) <= PidErrorBound
  BY StationErrorFacts DEF StationRates
<1>2. s["surge"].d \in Int /\ HorizontalAxisLimit \in Nat
      /\ HorizontalAxisLimit <= pwm_limit /\ "surge" \in Loops
  BY SampleFacts, AxisLimits DEF Axes, Loops
<1> HIDE DEF setpoint
<1> DEFINE feedforward == 0
           r == LoopStep(c, "surge", setpoint - s["surge"].v, s["surge"].d,
                         feedforward, HorizontalAxisLimit, TRUE)
<1>3. Stepped(r, c, "surge", HorizontalAxisLimit)
  <2>1. feedforward \in Int
    OBVIOUS
  <2> HIDE DEF feedforward
  <2> QED BY <1>1, <1>2, <2>1, BoundedStep
<1>4. r = SurgeStep(c, s)
  BY DEF SurgeStep, setpoint
<1> HIDE DEF r
<1>5. Stepped(r, c, "surge", pwm_limit)
  BY <1>2, <1>3, MagnitudeType DEF Stepped, Tuned
<1> QED BY <1>4, <1>5

LEMMA SwayStepFacts ==
  ASSUME Tuned, PidErrorBound \in Nat, NEW c, Sound(c), NEW s \in Sample,
         ErrorsBounded(tuning, s)
  PROVE  LET r == SwayStep(c, s) IN
         /\ Stepped(r.step, c, SwayLoop, pwm_limit)
         /\ r.memory \in Int /\ Magnitude(r.memory) <= pwm_limit
         /\ r.effort \in Int
<1> DEFINE setpoint == StationSetpoint(s, "sway", "sway_rate", "fast_sway_rate")
           ahead == DirectionalFeedforward(setpoint, Par("feedforward_positive"),
                      Par("feedforward_negative"), HorizontalAxisLimit)
           feedforward == IF Fast THEN ahead ELSE 0
           step == LoopStep(c, SwayLoop, setpoint - s["sway"].v, s["sway"].d,
                            feedforward, HorizontalAxisLimit, TRUE)
           r == Slewed(step, Fast, c.sway_limited, Par("sway_slew"))
<1>1. /\ setpoint \in Int
      /\ setpoint - s["sway"].v \in Int
      /\ Magnitude(setpoint - s["sway"].v) <= PidErrorBound
  BY StationErrorFacts DEF StationRates
<1>2. /\ s["sway"].d \in Int /\ HorizontalAxisLimit \in Nat
      /\ HorizontalAxisLimit <= pwm_limit /\ SwayLoop \in Loops
      /\ pwm_limit \in Nat /\ Fast \in BOOLEAN
  BY SampleFacts, AxisLimits DEF Axes, Loops, SwayLoop, Tuned, Fast
<1>3. /\ Par("feedforward_positive") \in Nat /\ Par("feedforward_negative") \in Nat
      /\ Par("sway_slew") \in Nat
  BY TunedFacts DEF ParameterNames, StationNames
<1> HIDE DEF setpoint
<1>4. ahead \in Int
  <2>1. /\ Par("feedforward_positive") * setpoint \in Int
        /\ Par("feedforward_negative") * setpoint \in Int
    BY <1>1, <1>3
  <2>2. (IF setpoint >= 0 THEN Par("feedforward_positive")
         ELSE Par("feedforward_negative")) * setpoint \in Int
    BY <2>1
  <2> QED BY <1>2, <2>2, ClipFacts DEF DirectionalFeedforward
<1>5. feedforward \in Int
  BY <1>4
<1> HIDE DEF feedforward
<1>6. Stepped(step, c, SwayLoop, HorizontalAxisLimit)
  BY <1>1, <1>2, <1>5, BoundedStep
<1> HIDE DEF step
<1>7. Stepped(step, c, SwayLoop, pwm_limit)
  BY <1>2, <1>6, MagnitudeType DEF Stepped
<1>8. c.sway_limited \in Int /\ Magnitude(c.sway_limited) <= pwm_limit
  BY DEF Sound, SlewsInside, ControlState
<1>9. /\ r.step = step
      /\ r.memory \in Int /\ Magnitude(r.memory) <= pwm_limit
      /\ r.effort \in Int
  BY <1>2, <1>3, <1>7, <1>8, SlewedFacts DEF Stepped
<1>10. r = SwayStep(c, s)
  BY DEF SwayStep, step, feedforward, setpoint
<1> HIDE DEF r
<1> QED BY <1>7, <1>9, <1>10

LEMMA YawStepFacts ==
  ASSUME Tuned, PidErrorBound \in Nat, NEW c, Sound(c), NEW s \in Sample,
         ErrorsBounded(tuning, s), NEW lateral \in BOOLEAN,
         NEW sway_effort \in Int
  PROVE  LET r == YawStep(c, s, lateral, sway_effort) IN
         /\ Stepped(r.step, c, "yaw", pwm_limit)
         /\ r.memory \in Int
         /\ Magnitude(r.memory)
              <= Lesser(pwm_limit, tuning.par["lateral_yaw_axis_limit"])
         /\ r.effort \in Int
<1> DEFINE setpoint == Clip(s["yaw"].t + Par("heading_kp") * s["yaw"].e,
                            Par("yaw_rate"))
           against == -(Par("sway_yaw_compensation") * sway_effort)
           feedforward == IF lateral THEN against ELSE 0
           enabled == ~(YawManeuver(s) \/ lateral)
           step == LoopStep(c, "yaw", setpoint - s["yaw"].v, s["yaw"].d,
                            feedforward, YawAxisLimit(lateral), enabled)
           inside == Lesser(pwm_limit, tuning.par["lateral_yaw_axis_limit"])
           r == Slewed(step, lateral, c.yaw_limited, Par("yaw_slew"))
<1>1. /\ s["yaw"].t \in Int /\ s["yaw"].e \in Int /\ s["yaw"].v \in Int
      /\ s["yaw"].d \in Int /\ "yaw" \in Loops /\ pwm_limit \in Nat
  BY SampleFacts DEF Axes, Loops, Tuned
<1>2. /\ Par("heading_kp") \in Nat /\ Par("yaw_rate") \in Nat
      /\ Par("sway_yaw_compensation") \in Nat /\ Par("yaw_slew") \in Nat
      /\ Par("lateral_yaw_axis_limit") \in Nat
  BY TunedFacts DEF ParameterNames, StationNames
<1>3. /\ Par("heading_kp") * s["yaw"].e \in Int
      /\ Par("sway_yaw_compensation") * sway_effort \in Int
  BY <1>1, <1>2
<1>4. setpoint - s["yaw"].v \in Int
  <2>1. s["yaw"].t + Par("heading_kp") * s["yaw"].e \in Int
    BY <1>1, <1>3
  <2>2. setpoint \in Int
    BY <1>2, <2>1, ClipFacts
  <2> HIDE DEF setpoint
  <2> QED BY <1>1, <2>2
<1>5. Magnitude(setpoint - s["yaw"].v) <= PidErrorBound
  BY DEF ErrorsBounded, Par
<1>6. feedforward \in Int /\ enabled \in BOOLEAN
  BY <1>3
<1>7. /\ YawAxisLimit(lateral) \in Nat /\ YawAxisLimit(lateral) <= pwm_limit
      /\ lateral => YawAxisLimit(lateral) <= inside
      /\ inside \in Nat
  BY <1>1, <1>2, AxisLimits DEF Par, Lesser
<1> HIDE DEF setpoint, feedforward, enabled, inside
<1>8. Stepped(step, c, "yaw", YawAxisLimit(lateral))
  BY <1>1, <1>4, <1>5, <1>6, <1>7, BoundedStep
<1> HIDE DEF step
<1>9. /\ Stepped(step, c, "yaw", pwm_limit)
      /\ lateral => Magnitude(step.output) <= inside
  BY <1>1, <1>7, <1>8, MagnitudeType DEF Stepped
<1>10. c.yaw_limited \in Int /\ Magnitude(c.yaw_limited) <= inside
  BY DEF Sound, SlewsInside, ControlState, inside
<1>11. /\ r.step = step
       /\ r.memory \in Int /\ Magnitude(r.memory) <= inside
       /\ r.effort \in Int
  BY <1>2, <1>7, <1>9, <1>10, SlewedFacts DEF Stepped
<1>12. r = YawStep(c, s, lateral, sway_effort)
  BY DEF YawStep, step, feedforward, setpoint, enabled
<1> HIDE DEF r
<1> QED BY <1>9, <1>11, <1>12 DEF inside

(* What a part of the tick leaves: sound controllers whose integrals have  *)
(* taken one error at most, and none wound up.                             *)
LEMMA StationMixedFacts ==
  ASSUME Tuned, PidErrorBound \in Nat, NEW c, Sound(c), NEW s,
         NEW surge, Stepped(surge, c, "surge", pwm_limit),
         NEW sway, Stepped(sway.step, c, SwayLoop, pwm_limit),
         sway.memory \in Int, Magnitude(sway.memory) <= pwm_limit,
         NEW yaw, Stepped(yaw.step, c, "yaw", pwm_limit),
         yaw.memory \in Int,
         Magnitude(yaw.memory)
           <= Lesser(pwm_limit, tuning.par["lateral_yaw_axis_limit"]),
         NEW mix
  PROVE  LET r == StationMixed(c, s, surge, sway, yaw, mix) IN
         /\ Sound(r.control)
         /\ \A l \in Loops : GrownLoop(r.control, c, l)
         /\ r.control.loop["altitude"] = c.loop["altitude"]
         /\ ~r.wound
         /\ r.surge = surge.output
         /\ r.mix = mix
<1> DEFINE stepped == [c.loop EXCEPT !["surge"] = surge.pid,
                                     ![SwayLoop] = sway.step.pid,
                                     !["yaw"] = yaw.step.pid]
           loops == IF mix.scaled THEN RolledBack(stepped, c) ELSE stepped
           d == [c EXCEPT !.loop = loops,
                          !.yaw_maneuver = YawManeuver(s),
                          !.sway_limited = sway.memory,
                          !.yaw_limited = yaw.memory]
           r == StationMixed(c, s, surge, sway, yaw, mix)
<1>1. /\ c \in ControlState /\ c.loop \in [Loops -> PidState]
      /\ IntegralsBounded(c)
      /\ \A l \in Loops : c.loop[l] \in PidState /\ c.loop[l].integral \in Int
  BY DEF Sound, ControlState, PidState
<1>2. /\ SwayLoop \in {"sway", "fast_sway"}
      /\ surge.pid \in PidState /\ sway.step.pid \in PidState
      /\ yaw.step.pid \in PidState
  BY DEF Stepped, SwayLoop
<1>3. /\ stepped \in [Loops -> PidState]
      /\ stepped["surge"] = surge.pid /\ stepped[SwayLoop] = sway.step.pid
      /\ stepped["yaw"] = yaw.step.pid
      /\ \A l \in Loops \ {"surge", SwayLoop, "yaw"} : stepped[l] = c.loop[l]
  BY <1>1, <1>2 DEF Loops
<1> HIDE DEF stepped
<1>4. \A l \in Loops :
        /\ Magnitude(stepped[l].integral) <= tuning.gains[l].integral_limit
        /\ Magnitude(stepped[l].integral)
             <= Magnitude(c.loop[l].integral) + PidErrorBound
  <2> SUFFICES ASSUME NEW l \in Loops
               PROVE /\ Magnitude(stepped[l].integral)
                          <= tuning.gains[l].integral_limit
                     /\ Magnitude(stepped[l].integral)
                          <= Magnitude(c.loop[l].integral) + PidErrorBound
    OBVIOUS
  <2>1. CASE l = "surge" BY <2>1, <1>3 DEF Stepped
  <2>2. CASE l = SwayLoop BY <2>2, <1>3 DEF Stepped
  <2>3. CASE l = "yaw" BY <2>3, <1>3 DEF Stepped
  <2>4. CASE l \notin {"surge", SwayLoop, "yaw"}
    <3>1. Magnitude(c.loop[l].integral) \in Nat
      BY <1>1, MagnitudeType
    <3> QED BY <2>4, <1>1, <1>3, <3>1 DEF IntegralsBounded
  <2> QED BY <2>1, <2>2, <2>3, <2>4
<1>5. RolledBack(stepped, c) \in [Loops -> PidState]
  BY <1>1, <1>3 DEF RolledBack, PidState
<1>6. \A l \in Loops : RolledBack(stepped, c)[l].integral = c.loop[l].integral
  BY <1>1, <1>3 DEF RolledBack, PidState
<1>7. /\ loops \in [Loops -> PidState]
      /\ mix.scaled => \A l \in Loops : loops[l].integral = c.loop[l].integral
      /\ ~mix.scaled => loops = stepped
  BY <1>3, <1>5, <1>6
<1>8. loops["altitude"] = c.loop["altitude"]
  <2>1. stepped["altitude"] = c.loop["altitude"]
    BY <1>2, <1>3 DEF Loops
  <2>2. RolledBack(stepped, c)["altitude"] = c.loop["altitude"]
    BY <1>1, <2>1 DEF RolledBack, PidState, Loops
  <2> QED BY <2>1, <2>2
<1> HIDE DEF loops
<1>9. \A l \in Loops :
        /\ Magnitude(loops[l].integral) <= tuning.gains[l].integral_limit
        /\ Magnitude(loops[l].integral)
             <= Magnitude(c.loop[l].integral) + PidErrorBound
  <2>1. CASE mix.scaled
    <3>1. \A l \in Loops : Magnitude(c.loop[l].integral) \in Nat
      BY <1>1, MagnitudeType
    <3> QED BY <2>1, <3>1, <1>1, <1>7 DEF IntegralsBounded
  <2>2. CASE ~mix.scaled BY <2>2, <1>4, <1>7
  <2> QED BY <2>1, <2>2
<1>10. /\ d \in ControlState
       /\ d.loop = loops
       /\ d.sway_limited = sway.memory /\ d.yaw_limited = yaw.memory
  BY <1>1, <1>7 DEF ControlState, YawManeuver
<1> DEFINE w == IF mix.scaled
                THEN \E l \in Loops : loops[l].integral # c.loop[l].integral
                ELSE surge.wound \/ sway.step.wound \/ yaw.step.wound
<1>11. r = [control |-> d, wound |-> w, surge |-> surge.output, mix |-> mix]
  BY DEF StationMixed, loops, stepped
<1>12. ~w
  BY <1>7 DEF Stepped
<1> HIDE DEF w
<1> HIDE DEF d
<1>13. Sound(d) /\ \A l \in Loops : GrownLoop(d, c, l)
  BY <1>9, <1>10 DEF Sound, IntegralsBounded, SlewsInside, GrownLoop
<1>14. r.control = d /\ r.surge = surge.output /\ r.mix = mix /\ ~r.wound
  BY <1>11, <1>12
<1> HIDE DEF r
<1>15. r.control.loop["altitude"] = c.loop["altitude"]
  BY <1>8, <1>10, <1>14
<1> QED BY <1>13, <1>14, <1>15 DEF r

LEMMA StationStepFacts ==
  ASSUME Tuned, PidErrorBound \in Nat, NEW c, Sound(c), NEW s \in Sample,
         ErrorsBounded(tuning, s)
  PROVE  LET r == StationStep(c, s) IN
         /\ Sound(r.control)
         /\ \A l \in Loops : GrownLoop(r.control, c, l)
         /\ r.control.loop["altitude"] = c.loop["altitude"]
         /\ ~r.wound
         /\ r.surge \in Int
         /\ r.mix.num \in Nat /\ r.mix.den \in Nat \ {0}
<1> DEFINE e == YawPrepared(c, s)
           lateral == LateralManeuver(c, s)
           surge == SurgeStep(e, s)
           sway == SwayStep(e, s)
           yaw == YawStep(e, s, lateral, sway.effort)
           mix == HorizontalMix(surge.output, sway.effort, yaw.effort, pwm_limit)
           r == StationMixed(e, s, surge, sway, yaw, mix)
<1>1. r = StationStep(c, s)
  BY DEF StationStep, StationLoops
<1>2. /\ Sound(e)
      /\ \A l \in Loops : Magnitude(e.loop[l].integral)
                            <= Magnitude(c.loop[l].integral)
      /\ e.loop["altitude"] = c.loop["altitude"]
  BY YawPreparedFacts
<1>3. lateral \in BOOLEAN
  BY DEF LateralManeuver
<1> HIDE DEF e, lateral
<1>4. Stepped(surge, e, "surge", pwm_limit)
  BY <1>2, SurgeStepFacts
<1>5. /\ Stepped(sway.step, e, SwayLoop, pwm_limit)
      /\ sway.memory \in Int /\ Magnitude(sway.memory) <= pwm_limit
      /\ sway.effort \in Int
  BY <1>2, SwayStepFacts
<1> HIDE DEF surge, sway
<1>6. /\ Stepped(yaw.step, e, "yaw", pwm_limit)
      /\ yaw.memory \in Int
      /\ Magnitude(yaw.memory)
           <= Lesser(pwm_limit, tuning.par["lateral_yaw_axis_limit"])
      /\ yaw.effort \in Int
  BY <1>2, <1>3, <1>5, YawStepFacts
<1> HIDE DEF yaw
<1>7. mix.num \in Nat /\ mix.den \in Nat \ {0} /\ surge.output \in Int
  BY <1>4, <1>5, <1>6, MixFacts DEF Stepped, Tuned
<1> HIDE DEF mix
<1>8. /\ Sound(r.control)
      /\ \A l \in Loops : GrownLoop(r.control, e, l)
      /\ r.control.loop["altitude"] = e.loop["altitude"]
      /\ ~r.wound
      /\ r.surge = surge.output
      /\ r.mix = mix
  BY <1>2, <1>4, <1>5, <1>6, StationMixedFacts
<1> HIDE DEF r
<1>9. \A l \in Loops : /\ Magnitude(c.loop[l].integral) \in Nat
                       /\ Magnitude(e.loop[l].integral) \in Nat
                       /\ Magnitude(r.control.loop[l].integral) \in Nat
  BY <1>2, <1>8, MagnitudeType DEF Sound, ControlState, PidState
<1>10. \A l \in Loops : GrownLoop(r.control, c, l)
  BY <1>2, <1>8, <1>9 DEF GrownLoop
<1> QED BY <1>1, <1>2, <1>7, <1>8, <1>10

-----------------------------------------------------------------------------
(* The level cascade and the altitude loop.                                *)

LEMMA LevelStepFacts ==
  ASSUME Tuned, NEW c, Sound(c), NEW s \in Sample, NEW station,
         station.surge \in Int,
         station.mix.num \in Nat, station.mix.den \in Nat \ {0}
  PROVE  LET r == LevelStep(c, s, station) IN
         /\ Sound(r.control)
         /\ r.control.loop = c.loop
         /\ r.peak \in Nat /\ r.peak <= pwm_limit
<1> DEFINE applied == Applied(station.surge, station.mix)
           direction == IF station.mix.num = 0 THEN 0 ELSE SignOf(station.surge)
           held == IF direction = c.surge_direction THEN c.pitch_integral
                   ELSE 0
           e == [c EXCEPT !.surge_direction = direction,
                          !.pitch_integral = held]
           decoupling == SurgePitchDecoupling(applied,
                           Par("decoupling_forward"), Par("decoupling_reverse"),
                           Par("decoupling_limit"))
           limit == Lesser(pwm_limit, Par("level_pwm_limit"))
           RateError(a) == LevelRateError(s[a].e, s[a].t, s[a].v,
                             Par("level_angle_kp"), Par("level_rate_limit"))
           roll == Par("level_rate_kp") * RateError("roll")
           pitch == Par("level_rate_kp") * RateError("pitch") + decoupling
           integral == ConditionalAxisIntegral(e.pitch_integral,
                         RateError("pitch"), Par("pitch_ki"),
                         Par("pitch_integral_limit"), roll, pitch, limit)
           r == LevelStep(c, s, station)
           d == [e EXCEPT !.pitch_integral = integral]
<1>1. r = [control |-> d,
           peak |-> LevelPeak(roll, pitch + integral, limit)]
  BY DEF LevelStep
<1>2. /\ Par("decoupling_forward") \in Nat /\ Par("decoupling_reverse") \in Nat
      /\ Par("decoupling_limit") \in Nat /\ Par("level_angle_kp") \in Nat
      /\ Par("level_rate_kp") \in Nat /\ Par("pitch_ki") \in Nat
      /\ Par("pitch_integral_limit") \in Nat /\ Par("level_pwm_limit") \in Nat
      /\ Par("level_rate_limit") \in Nat /\ pwm_limit \in Nat
  BY TunedFacts DEF ParameterNames, LevelNames, StationNames, RateNames, Tuned
<1>3. applied \in Int
  <2>1. Magnitude(station.surge) \in Nat
    BY MagnitudeType
  <2>2. Magnitude(station.surge) * station.mix.num \in Nat
    BY <2>1
  <2>3. (Magnitude(station.surge) * station.mix.num) \div station.mix.den \in Int
    BY <2>2
  <2> DEFINE q == (Magnitude(station.surge) * station.mix.num)
                    \div station.mix.den
  <2> HIDE DEF q
  <2>4. SignOf(station.surge) * q \in Int
    BY <2>3 DEF SignOf, q
  <2> QED BY <2>4 DEF Applied, q
<1>4. direction \in -1..1
  BY DEF SignOf
<1>5. decoupling \in Int
  <2> HIDE DEF applied
  <2> DEFINE raw == (IF applied >= 0 THEN Par("decoupling_forward")
                     ELSE Par("decoupling_reverse")) * applied
  <2>1. raw \in Int
    <3>1. /\ Par("decoupling_forward") * applied \in Int
          /\ Par("decoupling_reverse") * applied \in Int
      BY <1>2, <1>3
    <3> QED BY <3>1
  <2>2. decoupling = Clip(-raw, Par("decoupling_limit"))
    BY DEF SurgePitchDecoupling
  <2> HIDE DEF raw
  <2>3. -raw \in Int
    BY <2>1
  <2> QED BY <1>2, <2>2, <2>3, ClipFacts
<1>6. RateError("roll") \in Int /\ RateError("pitch") \in Int
  <2>1. ASSUME NEW a \in Axes PROVE RateError(a) \in Int
    <3>1. s[a].e \in Int /\ s[a].t \in Int /\ s[a].v \in Int
      BY SampleFacts
    <3>2. Par("level_angle_kp") * s[a].e \in Int
      BY <1>2, <3>1
    <3>3. s[a].t + Par("level_angle_kp") * s[a].e \in Int
      BY <3>1, <3>2
    <3>4. Clip(s[a].t + Par("level_angle_kp") * s[a].e,
               Par("level_rate_limit")) \in Int
      BY <1>2, <3>3, ClipFacts
    <3> QED BY <3>1, <3>4 DEF LevelRateError
  <2> QED BY <2>1 DEF Axes
<1> HIDE DEF RateError, direction, decoupling
<1>7. roll \in Int /\ pitch \in Int
  <2>1. /\ Par("level_rate_kp") * RateError("roll") \in Int
        /\ Par("level_rate_kp") * RateError("pitch") \in Int
    BY <1>2, <1>6
  <2> QED BY <1>5, <2>1
<1>8. limit \in Nat /\ limit <= pwm_limit
  BY <1>2 DEF Lesser
<1>9. e \in ControlState /\ e.loop = c.loop /\ e.pitch_integral \in Int
      /\ e.sway_limited = c.sway_limited /\ e.yaw_limited = c.yaw_limited
  <2>1. c \in ControlState /\ held \in Int
    BY DEF Sound, ControlState
  <2> HIDE DEF held
  <2> QED BY <1>4, <2>1 DEF ControlState
<1> HIDE DEF e, limit, roll, pitch
<1>10. integral \in Int
  <2> DEFINE kept == Clip(e.pitch_integral, Par("pitch_integral_limit"))
             more == kept + Par("pitch_ki") * RateError("pitch")
             proposed == Clip(more, Par("pitch_integral_limit"))
  <2>1. kept \in Int
    BY <1>2, <1>9, ClipFacts
  <2>2. Par("pitch_ki") * RateError("pitch") \in Int
    BY <1>2, <1>6
  <2>3. more \in Int
    <3> HIDE DEF kept
    <3> QED BY <2>1, <2>2
  <2>4. proposed \in Int
    <3> HIDE DEF more
    <3> QED BY <1>2, <2>3, ClipFacts
  <2>5. integral \in {kept, proposed}
    BY DEF ConditionalAxisIntegral
  <2> HIDE DEF kept, proposed, integral
  <2> QED BY <2>1, <2>4, <2>5
<1> HIDE DEF integral
<1>11. LevelPeak(roll, pitch + integral, limit) \in Nat
       /\ LevelPeak(roll, pitch + integral, limit) <= pwm_limit
  BY <1>2, <1>7, <1>8, <1>10 DEF LevelPeak, Lesser, Magnitude
<1>12. /\ d \in ControlState /\ d.loop = c.loop
       /\ d.sway_limited = c.sway_limited /\ d.yaw_limited = c.yaw_limited
  BY <1>9, <1>10 DEF ControlState
<1> HIDE DEF d
<1>13. Sound(d)
  BY <1>12 DEF Sound, IntegralsBounded, SlewsInside
<1>14. r.control = d /\ r.peak = LevelPeak(roll, pitch + integral, limit)
  BY <1>1
<1> HIDE DEF r
<1> QED BY <1>11, <1>12, <1>13, <1>14 DEF r

LEMMA AltitudeStepFacts ==
  ASSUME Tuned, PidErrorBound \in Nat, NEW c, Sound(c), NEW s \in Sample,
         ErrorsBounded(tuning, s), NEW peak \in Nat, peak <= pwm_limit
  PROVE  LET r == AltitudeStep(c, s, peak) IN
         /\ Sound(r.control)
         /\ GrownLoop(r.control, c, "altitude")
         /\ \A l \in Loops \ {"altitude"} : r.control.loop[l] = c.loop[l]
         /\ r.effort \in Int /\ Magnitude(r.effort) <= pwm_limit - peak
         /\ ~r.wound
<1> DEFINE error == AltitudeVelocitySetpoint(s["heave"].t, s["heave"].e,
                      Par("altitude_position_kp")) - s["heave"].v
           feedforward == 0
           step == LoopStep(c, "altitude", error, s["heave"].d, feedforward,
                            AltitudeOutputLimit(peak), TRUE)
           d == [c EXCEPT !.loop["altitude"] = step.pid]
           r == AltitudeStep(c, s, peak)
<1>1. r = [control |-> d, effort |-> step.output, wound |-> step.wound]
  BY DEF AltitudeStep
<1>2. /\ AltitudeOutputLimit(peak) \in Nat
      /\ AltitudeOutputLimit(peak) = pwm_limit - peak
  BY DEF AltitudeOutputLimit, Greater, Tuned
<1>3. /\ s["heave"].t \in Int /\ s["heave"].e \in Int /\ s["heave"].v \in Int
      /\ s["heave"].d \in Int /\ Par("altitude_position_kp") \in Nat
      /\ "altitude" \in Loops /\ feedforward \in Int
  BY SampleFacts, TunedFacts DEF Axes, ParameterNames, AltitudeNames, Loops
<1>4. error \in Int
  <2>1. Par("altitude_position_kp") * s["heave"].e \in Int
    BY <1>3
  <2> QED BY <1>3, <2>1 DEF AltitudeVelocitySetpoint
<1>5. Magnitude(error) <= PidErrorBound
  BY DEF ErrorsBounded, Par
<1> HIDE DEF error, feedforward
<1>6. Stepped(step, c, "altitude", pwm_limit - peak)
  BY <1>2, <1>3, <1>4, <1>5, BoundedStep
<1> HIDE DEF step
<1>7. c \in ControlState /\ c.loop \in [Loops -> PidState] /\ step.pid \in PidState
  BY <1>6 DEF Sound, ControlState, Stepped
<1>8. /\ d \in ControlState
      /\ d.loop = [c.loop EXCEPT !["altitude"] = step.pid]
      /\ d.sway_limited = c.sway_limited /\ d.yaw_limited = c.yaw_limited
  BY <1>7 DEF ControlState
<1> HIDE DEF d
<1>9. /\ d.loop["altitude"] = step.pid
      /\ \A l \in Loops \ {"altitude"} : d.loop[l] = c.loop[l]
  BY <1>3, <1>7, <1>8
<1>10. IntegralsBounded(d)
  BY <1>6, <1>9 DEF Sound, IntegralsBounded, Stepped
<1>11. Sound(d) /\ GrownLoop(d, c, "altitude")
  BY <1>6, <1>8, <1>9, <1>10 DEF Sound, SlewsInside, GrownLoop, Stepped
<1> HIDE DEF r
<1>12. r.control = d /\ r.effort = step.output /\ (r.wound <=> step.wound)
  BY <1>1
<1> QED BY <1>6, <1>9, <1>11, <1>12 DEF r, Stepped

(* The vertical mixer has room for what the altitude loop asks.            *)
LEMMA CollectiveFacts ==
  ASSUME NEW effort \in Int, NEW sign \in Int, NEW peak \in Nat,
         NEW limit \in Nat, peak <= limit, Magnitude(effort) <= limit - peak
  PROVE  AltitudeCollective(effort, sign, peak, limit) = SignOf(sign) * effort
<1>1. SignOf(sign) \in {-1, 0, 1}
  BY DEF SignOf
<1>2. /\ SignOf(sign) * effort \in Int
      /\ Magnitude(SignOf(sign) * effort) <= limit - peak
  <2>1. CASE SignOf(sign) = 1 BY <2>1
  <2>2. CASE SignOf(sign) = 0 BY <2>2 DEF Magnitude
  <2>3. CASE SignOf(sign) = -1 BY <2>3 DEF Magnitude
  <2> QED BY <1>1, <2>1, <2>2, <2>3
<1>3. limit - Lesser(peak, limit) = limit - peak /\ limit - peak \in Nat
  BY DEF Lesser
<1> DEFINE x == SignOf(sign) * effort
<1> HIDE DEF x
<1>4. Clip(x, limit - peak) = x
  BY <1>2, <1>3, ClipFacts DEF x
<1> QED BY <1>3, <1>4 DEF AltitudeCollective, x

LEMMA HoldStepFacts ==
  ASSUME Tuned, PidErrorBound \in Nat, NEW c, Sound(c), NEW s \in Sample,
         ErrorsBounded(tuning, s)
  PROVE  LET r == HoldStep(c, s) IN
         /\ Sound(r.control)
         /\ \A l \in Loops : GrownLoop(r.control, c, l)
         /\ r.command = [enable |-> TRUE, clipped |-> FALSE, wound |-> FALSE]
<1> DEFINE none == [control |-> c, wound |-> FALSE, surge |-> 0,
                    mix |-> HorizontalMix(0, 0, 0, pwm_limit)]
           station == IF target.mode \in StationModes THEN StationStep(c, s)
                      ELSE none
           level == IF Fast THEN LevelStep(station.control, s, station)
                    ELSE [control |-> station.control, peak |-> 0]
           altitude == AltitudeStep(level.control, s, level.peak)
           collective == AltitudeCollective(altitude.effort, tuning.sign,
                                            level.peak, pwm_limit)
           clipped == collective # SignOf(tuning.sign) * altitude.effort
           wound == station.wound \/ altitude.wound
           r == HoldStep(c, s)
<1>1. r = [control |-> altitude.control,
           command |-> [enable |-> TRUE, clipped |-> clipped, wound |-> wound]]
  BY DEF HoldStep, TickLevel, TickAltitude, TickCommand
<1>2. pwm_limit \in Nat /\ tuning.sign \in Int
  BY TunedFacts DEF Tuned
<1>3. \A l \in Loops : Magnitude(c.loop[l].integral) \in Nat
  BY MagnitudeType DEF Sound, ControlState, PidState
<1>4. /\ Sound(station.control)
      /\ \A l \in Loops : GrownLoop(station.control, c, l)
      /\ station.control.loop["altitude"] = c.loop["altitude"]
      /\ ~station.wound
      /\ station.surge \in Int
      /\ station.mix.num \in Nat /\ station.mix.den \in Nat \ {0}
  <2>1. CASE target.mode \in StationModes
    <3>1. station = StationStep(c, s)
      BY <2>1
    <3> HIDE DEF station
    <3> QED BY <3>1, StationStepFacts
  <2>2. CASE target.mode \notin StationModes
    <3>1. station = none
      BY <2>2
    <3>2. LET mix == HorizontalMix(0, 0, 0, pwm_limit) IN
          mix.num \in Nat /\ mix.den \in Nat \ {0}
      BY <1>2, MixFacts
    <3>3. \A l \in Loops : GrownLoop(c, c, l)
      BY <1>3 DEF GrownLoop
    <3>4. /\ station.control = c /\ ~station.wound /\ station.surge = 0
          /\ station.mix = HorizontalMix(0, 0, 0, pwm_limit)
      BY <3>1
    <3> HIDE DEF station
    <3> QED BY <3>2, <3>3, <3>4
  <2> QED BY <2>1, <2>2
<1> HIDE DEF station
<1>5. /\ Sound(level.control) /\ level.control.loop = station.control.loop
      /\ level.peak \in Nat /\ level.peak <= pwm_limit
  <2>1. CASE Fast
    <3>1. level = LevelStep(station.control, s, station)
      BY <2>1
    <3> HIDE DEF level
    <3> QED BY <3>1, <1>4, LevelStepFacts
  <2>2. CASE ~Fast
    BY <2>2, <1>2, <1>4
  <2> QED BY <2>1, <2>2
<1> HIDE DEF level
<1>6. /\ Sound(altitude.control)
      /\ GrownLoop(altitude.control, level.control, "altitude")
      /\ \A l \in Loops \ {"altitude"} :
           altitude.control.loop[l] = level.control.loop[l]
      /\ altitude.effort \in Int
      /\ Magnitude(altitude.effort) <= pwm_limit - level.peak
      /\ ~altitude.wound
  BY <1>5, AltitudeStepFacts
<1> HIDE DEF altitude
<1>7. clipped = FALSE /\ wound = FALSE
  <2>1. collective = SignOf(tuning.sign) * altitude.effort
    BY <1>2, <1>5, <1>6, CollectiveFacts
  <2> QED BY <2>1, <1>4, <1>6
<1>8. \A l \in Loops : GrownLoop(altitude.control, c, l)
  BY <1>4, <1>5, <1>6 DEF GrownLoop
<1> HIDE DEF clipped, wound
<1>9. /\ r.control = altitude.control
      /\ r.command = [enable |-> TRUE, clipped |-> FALSE, wound |-> FALSE]
  <2>1. /\ r.control = altitude.control
        /\ r.command = [enable |-> TRUE, clipped |-> clipped, wound |-> wound]
    BY <1>1
  <2> HIDE DEF r
  <2> QED BY <1>7, <2>1, Zenon
<1> HIDE DEF r
<1> QED BY <1>6, <1>8, <1>9 DEF r

-----------------------------------------------------------------------------
(* The inductive invariant.  The regime that the history variable names is *)
(* that of the last tick; while the limit is another one, the controllers  *)
(* are freshly reset.                                                      *)
RegimeIsCurrent ==
  /\ regime = NoRegime => pid_run = 0
  /\ regime # NoRegime =>
       \E limit \in Limits : regime = <<active[1], active[2], limit>>
  /\ regime # NoRegime /\ regime # <<active[1], active[2], pwm_limit>> =>
       \A l \in Loops : control.loop[l].integral = 0

ReadyIsConfigured == tuning.ready => tuning \in Configurations

PidInv == /\ PidTypeOK
          /\ ReadyIsConfigured
          /\ Sound(control)
          /\ NoWindUp
          /\ RegimeOwnsIntegrals
          /\ RegimeIsCurrent

LEMMA ResetControllers ==
  /\ ControlReset \in ControlState
  /\ \A l \in Loops : ControlReset.loop[l].integral = 0
  /\ ControlReset.sway_limited = 0 /\ ControlReset.yaw_limited = 0
<1>1. ControlReset \in ControlState
  BY DEF ControlReset, ControlState, PidReset, PidState
<1>2. \A l \in Loops : ControlReset.loop[l].integral = 0
  BY DEF ControlReset, PidReset
<1>3. ControlReset.sway_limited = 0 /\ ControlReset.yaw_limited = 0
  BY DEF ControlReset
<1> QED BY <1>1, <1>2, <1>3

LEMMA ResetFacts ==
  ASSUME Tuned
  PROVE  Sound(ControlReset)
<1>1. Par("lateral_yaw_axis_limit") \in Nat /\ pwm_limit \in Nat
  BY TunedFacts DEF ParameterNames, StationNames, Tuned
<1>2. SlewsInside(ControlReset)
  BY <1>1, ResetControllers DEF SlewsInside, Magnitude, Lesser, Par
<1>3. IntegralsBounded(ControlReset)
  BY ResetControllers, TunedFacts DEF IntegralsBounded, Magnitude
<1> QED BY <1>2, <1>3, ResetControllers DEF Sound

LEMMA PidConstants ==
  /\ Limits \subseteq Nat /\ MaxPidRun \in Nat \ {0} /\ PidErrorBound \in Nat
  /\ 0 \in 0..MaxPidRun /\ 0 * PidErrorBound = 0 /\ Magnitude(0) = 0 /\ 0 <= 0
<1>1. Limits \subseteq Nat /\ MaxPidRun \in Nat \ {0} /\ PidErrorBound \in Nat
  BY PidAssumption DEF PidAssumption
<1>2. 0 \in 0..MaxPidRun /\ 0 * PidErrorBound = 0
  BY <1>1
<1> QED BY <1>1, <1>2 DEF Magnitude

LEMMA InvTuned ==
  ASSUME PidInv
  PROVE  Tuned /\ PidErrorBound \in Nat
BY PidAssumption DEF PidInv, PidTypeOK, Tuned, PidAssumption

LEMMA PidInitially == PidInit => PidInv
<1> SUFFICES ASSUME PidInit PROVE PidInv
  OBVIOUS
<1>1. PICK c \in Configurations : tuning = LoadConfiguration(c)
  BY DEF PidInit
<1>2. /\ RejectedConfiguration \in Configuration
      /\ AcceptsConfiguration(RejectedConfiguration)
      /\ ~RejectedConfiguration.ready
  <2>1. RejectedConfiguration \in Configuration /\ ~RejectedConfiguration.ready
    BY DEF RejectedConfiguration, Configuration
  <2>2. /\ \A n \in ParameterNames : RejectedConfiguration.par[n] = 0
        /\ \A l \in Loops, g \in GainNames :
             RejectedConfiguration.gains[l][g] = 0
        /\ RejectedConfiguration.sign = -1
        /\ RejectedConfiguration.estimator
    BY DEF RejectedConfiguration
  <2>3. AcceptsConfiguration(RejectedConfiguration)
    BY <2>2 DEF AcceptsConfiguration, AltitudeAccepted, StationAccepted,
                LevelAccepted, GainsAccepted, NotNegative, ParameterNames,
                Loops
  <2> QED BY <2>1, <2>3
<1>3. /\ tuning \in Configuration /\ AcceptsConfiguration(tuning)
      /\ ReadyIsConfigured
  BY <1>1, <1>2, PidAssumption DEF LoadConfiguration, PidAssumption,
                                   ReadyIsConfigured
<1>4. Tuned
  BY <1>3, PidAssumption DEF Tuned, PidInit, PidAssumption
<1>5. /\ Sound(control)
      /\ \A l \in Loops : control.loop[l].integral = 0
  BY <1>4, ResetFacts, ResetControllers DEF PidInit
<1>6. NoWindUp /\ pid_command \in [enable : BOOLEAN, clipped : BOOLEAN,
                                  wound : BOOLEAN]
  BY DEF PidInit, Disabled, NoWindUp
<1>7. PidTypeOK
  <2>1. active \in Modes \X (Phases \cup {""})
    BY DEF PidInit, Modes
  <2>2. /\ body \in Bodies \cup {NoBody} /\ target \in Targets \cup {NoTarget}
        /\ stale \in SUBSET {"body", "imu", "target"}
        /\ pwm_limit \in Limits
        /\ regime \in {NoRegime} \cup (Modes \X (Phases \cup {""}) \X Limits)
    BY DEF PidInit
  <2>4. pid_run \in 0..MaxPidRun
    <3>1. pid_run = 0
      BY DEF PidInit
    <3> QED BY <3>1, PidAssumption DEF PidAssumption
  <2>3. /\ pid_alive \in BOOLEAN /\ pid_selected \in BOOLEAN
        /\ imu \in BOOLEAN /\ localization_seen \in BOOLEAN
        /\ ticked \in BOOLEAN /\ control \in ControlState
    BY <1>5 DEF PidInit, Sound
  <2> QED BY <1>3, <1>6, <2>1, <2>2, <2>3, <2>4 DEF PidTypeOK
<1>8. RegimeOwnsIntegrals
  <2>1. pid_run * PidErrorBound = 0
    <3>1. pid_run = 0
      BY DEF PidInit
    <3>2. PidErrorBound \in Nat
      BY PidAssumption DEF PidAssumption
    <3> QED BY <3>1, <3>2
  <2> QED BY <1>5, <2>1 DEF RegimeOwnsIntegrals, Magnitude
<1>9. RegimeIsCurrent
  BY DEF RegimeIsCurrent, PidInit
<1> QED BY <1>3, <1>5, <1>6, <1>7, <1>8, <1>9 DEF PidInv

coreVars == <<tuning, pwm_limit, active, control, pid_command, regime, pid_run>>

(* A step that only keeps a message: the invariant is about other things.  *)
LEMMA QuietStep ==
  ASSUME PidInv, UNCHANGED coreVars, UNCHANGED <<pid_alive, pid_selected>>,
         body' \in Bodies \cup {NoBody}, target' \in Targets \cup {NoTarget},
         imu' \in BOOLEAN, stale' \in SUBSET {"body", "imu", "target"},
         localization_seen' \in BOOLEAN, ticked' \in BOOLEAN
  PROVE  PidInv'
<1>1. PidTypeOK'
  BY DEF coreVars, PidInv, PidTypeOK
<1>2. ReadyIsConfigured' /\ NoWindUp' /\ RegimeOwnsIntegrals'
  BY DEF coreVars, PidInv, ReadyIsConfigured, NoWindUp, RegimeOwnsIntegrals
<1>3. Sound(control)'
  BY DEF coreVars, PidInv, Sound, IntegralsBounded, SlewsInside
<1>4. RegimeIsCurrent'
  BY DEF coreVars, PidInv, RegimeIsCurrent
<1> QED BY <1>1, <1>2, <1>3, <1>4 DEF PidInv

(* Controllers that are reset are sound under whatever is loaded next.     *)
LEMMA SoundWhenReset ==
  ASSUME Tuned, tuning' = tuning, pwm_limit' \in Nat, control' = ControlReset
  PROVE  /\ Sound(control)'
         /\ \A l \in Loops : control'.loop[l].integral = 0
<1>1. /\ control' \in ControlState
      /\ \A l \in Loops : control'.loop[l].integral = 0
      /\ control'.sway_limited = 0 /\ control'.yaw_limited = 0
  BY ResetControllers
<1>2. /\ tuning.par["lateral_yaw_axis_limit"] \in Nat
      /\ \A l \in Loops : tuning.gains[l].integral_limit \in Nat
  BY TunedFacts DEF ParameterNames, StationNames, Par
<1>3. Magnitude(0) = 0
  BY DEF Magnitude
<1>4. IntegralsBounded(control)'
  BY <1>1, <1>2, <1>3 DEF IntegralsBounded
<1>5. SlewsInside(control)'
  BY <1>1, <1>2, <1>3 DEF SlewsInside, Lesser
<1> QED BY <1>1, <1>4, <1>5 DEF Sound

(* A step that resets the controllers and forgets the regime.              *)
LEMMA ResetStep ==
  ASSUME PidInv, control' = ControlReset, pid_command' \in {pid_command, Disabled},
         regime' = NoRegime, pid_run' = 0, tuning' = tuning,
         pwm_limit' \in Limits, active' \in {active, <<"idle", "">>},
         pid_alive' \in BOOLEAN, pid_selected' \in BOOLEAN,
         body' \in Bodies \cup {NoBody}, target' \in Targets \cup {NoTarget},
         imu' \in BOOLEAN, stale' \in SUBSET {"body", "imu", "target"},
         localization_seen' \in BOOLEAN, ticked' \in BOOLEAN
  PROVE  PidInv'
<1>1. Tuned /\ PidErrorBound \in Nat /\ pwm_limit' \in Nat /\ 0 \in 0..MaxPidRun
  BY InvTuned, PidConstants
<1>2. Sound(control)' /\ \A l \in Loops : control'.loop[l].integral = 0
  BY <1>1, SoundWhenReset
<1>3. /\ Disabled \in [enable : BOOLEAN, clipped : BOOLEAN, wound : BOOLEAN]
      /\ ~Disabled.wound /\ ~Disabled.clipped
  BY DEF Disabled
<1>4. NoWindUp' /\ pid_command' \in [enable : BOOLEAN, clipped : BOOLEAN,
                                    wound : BOOLEAN]
  <2>1. CASE pid_command' = pid_command
    BY <2>1 DEF PidInv, PidTypeOK, NoWindUp
  <2>2. CASE pid_command' = Disabled
    BY <2>2, <1>3 DEF NoWindUp
  <2> QED BY <2>1, <2>2
<1>5. active' \in Modes \X (Phases \cup {""})
  <2>1. <<"idle", "">> \in Modes \X (Phases \cup {""})
    BY DEF Modes
  <2> QED BY <2>1 DEF PidInv, PidTypeOK
<1>6. pid_run' \in 0..MaxPidRun /\ pid_run' * PidErrorBound = 0
  BY PidConstants
<1>7. PidTypeOK'
  BY <1>1, <1>2, <1>4, <1>5, <1>6 DEF PidInv, PidTypeOK, Sound
<1>8. RegimeOwnsIntegrals'
  <2>1. SUFFICES ASSUME NEW l \in Loops
                 PROVE  Magnitude(control'.loop[l].integral)
                          <= pid_run' * PidErrorBound
    BY DEF RegimeOwnsIntegrals
  <2>2. Magnitude(control'.loop[l].integral) = 0
    BY <1>2, PidConstants
  <2> QED BY <1>6, <2>2, PidConstants, Zenon
<1>9. RegimeIsCurrent'
  BY DEF RegimeIsCurrent
<1>10. ReadyIsConfigured'
  BY DEF PidInv, ReadyIsConfigured
<1> QED BY <1>2, <1>4, <1>7, <1>8, <1>9, <1>10 DEF PidInv

LEMMA StepPidOnBody ==
  ASSUME PidInv, NEW b \in Bodies, PidOnBody(b)
  PROVE  PidInv'
<1>1. UNCHANGED coreVars /\ UNCHANGED <<pid_alive, pid_selected>>
  BY DEF PidOnBody, coreVars
<1>2. /\ body' \in Bodies \cup {NoBody} /\ target' \in Targets \cup {NoTarget}
      /\ imu' \in BOOLEAN /\ stale' \in SUBSET {"body", "imu", "target"}
      /\ localization_seen' \in BOOLEAN /\ ticked' \in BOOLEAN
  BY DEF PidOnBody, PidInv, PidTypeOK
<1> QED BY <1>1, <1>2, QuietStep

LEMMA StepPidOnImu ==
  ASSUME PidInv, PidOnImu
  PROVE  PidInv'
<1>1. UNCHANGED coreVars /\ UNCHANGED <<pid_alive, pid_selected>>
  BY DEF PidOnImu, coreVars
<1>2. /\ body' \in Bodies \cup {NoBody} /\ target' \in Targets \cup {NoTarget}
      /\ imu' \in BOOLEAN /\ stale' \in SUBSET {"body", "imu", "target"}
      /\ localization_seen' \in BOOLEAN /\ ticked' \in BOOLEAN
  BY DEF PidOnImu, PidInv, PidTypeOK
<1> QED BY <1>1, <1>2, QuietStep

LEMMA StepPidOnTarget ==
  ASSUME PidInv, NEW m \in Targets, PidOnTarget(m)
  PROVE  PidInv'
<1>1. UNCHANGED coreVars /\ UNCHANGED <<pid_alive, pid_selected>>
  BY DEF PidOnTarget, coreVars
<1>2. /\ body' \in Bodies \cup {NoBody} /\ target' \in Targets \cup {NoTarget}
      /\ imu' \in BOOLEAN /\ stale' \in SUBSET {"body", "imu", "target"}
      /\ localization_seen' \in BOOLEAN /\ ticked' \in BOOLEAN
  BY DEF PidOnTarget, PidInv, PidTypeOK
<1> QED BY <1>1, <1>2, QuietStep

LEMMA StepPidInputAges ==
  ASSUME PidInv, NEW i \in {"body", "imu", "target"}, PidInputAges(i)
  PROVE  PidInv'
<1>1. UNCHANGED coreVars /\ UNCHANGED <<pid_alive, pid_selected>>
  BY DEF PidInputAges, coreVars
<1>2. /\ body' \in Bodies \cup {NoBody} /\ target' \in Targets \cup {NoTarget}
      /\ imu' \in BOOLEAN /\ stale' \in SUBSET {"body", "imu", "target"}
      /\ localization_seen' \in BOOLEAN /\ ticked' \in BOOLEAN
  BY DEF PidInputAges, PidInv, PidTypeOK
<1> QED BY <1>1, <1>2, QuietStep

LEMMA StepTickDisabled ==
  ASSUME PidInv, NEW late \in BOOLEAN, TickDisabled(late)
  PROVE  PidInv'
<1>1. /\ control' = ControlReset /\ pid_command' \in {pid_command, Disabled}
      /\ regime' = NoRegime /\ pid_run' = 0 /\ tuning' = tuning
      /\ pwm_limit' \in Limits /\ active' \in {active, <<"idle", "">>}
  BY DEF TickDisabled, PidInv, PidTypeOK
<1>2. /\ pid_alive' \in BOOLEAN /\ pid_selected' \in BOOLEAN
      /\ body' \in Bodies \cup {NoBody} /\ target' \in Targets \cup {NoTarget}
      /\ imu' \in BOOLEAN /\ stale' \in SUBSET {"body", "imu", "target"}
      /\ localization_seen' \in BOOLEAN /\ ticked' \in BOOLEAN
  BY DEF TickDisabled, PidInv, PidTypeOK, pidInputVars
<1> QED BY <1>1, <1>2, ResetStep

LEMMA StepTickRaises ==
  ASSUME PidInv, TickRaises
  PROVE  PidInv'
<1>1. /\ control' = ControlReset /\ pid_command' \in {pid_command, Disabled}
      /\ regime' = NoRegime /\ pid_run' = 0 /\ tuning' = tuning
      /\ pwm_limit' \in Limits /\ active' \in {active, <<"idle", "">>}
  BY DEF TickRaises, PidInv, PidTypeOK
<1>2. /\ pid_alive' \in BOOLEAN /\ pid_selected' \in BOOLEAN
      /\ body' \in Bodies \cup {NoBody} /\ target' \in Targets \cup {NoTarget}
      /\ imu' \in BOOLEAN /\ stale' \in SUBSET {"body", "imu", "target"}
      /\ localization_seen' \in BOOLEAN /\ ticked' \in BOOLEAN
  BY DEF TickRaises, Disconnected, PidInv, PidTypeOK
<1> QED BY <1>1, <1>2, ResetStep

LEMMA StepPidOnAuthorityStatus ==
  ASSUME PidInv, NEW selected \in BOOLEAN, NEW limit \in Limits \cup {-1},
         PidOnAuthorityStatus(selected, limit)
  PROVE  PidInv'
<1>1. /\ Tuned /\ PidErrorBound \in Nat /\ Limits \subseteq Nat
      /\ pwm_limit' \in Limits /\ pwm_limit \in Limits /\ tuning' = tuning
  <2>1. pwm_limit' \in Limits /\ pwm_limit \in Limits /\ tuning' = tuning
    <3>1. pwm_limit \in Limits
      BY DEF PidInv, PidTypeOK
    <3>2. /\ pwm_limit' = IF limit >= 0 THEN limit ELSE pwm_limit
          /\ tuning' = tuning
      BY DEF PidOnAuthorityStatus
    <3>3. limit >= 0 => limit \in Limits
      OBVIOUS
    <3> QED BY <3>1, <3>2, <3>3
  <2> QED BY <2>1, InvTuned, PidConstants
<1>2. /\ pid_alive' \in BOOLEAN /\ pid_selected' \in BOOLEAN
      /\ body' \in Bodies \cup {NoBody} /\ target' \in Targets \cup {NoTarget}
      /\ imu' \in BOOLEAN /\ stale' \in SUBSET {"body", "imu", "target"}
      /\ localization_seen' \in BOOLEAN /\ ticked' \in BOOLEAN
  BY DEF PidOnAuthorityStatus, Disconnected, PidInv, PidTypeOK
<1>3. UNCHANGED <<pid_command, active>>
  BY DEF PidOnAuthorityStatus
<1>4. CASE selected # pid_selected
  <2>1. /\ control' = ControlReset /\ regime' = NoRegime /\ pid_run' = 0
    BY <1>4 DEF PidOnAuthorityStatus, AuthorityReset
  <2> QED BY <1>1, <1>2, <1>3, <2>1, ResetStep
<1>5. CASE selected = pid_selected
  <2>1. UNCHANGED <<regime, pid_run>>
    BY <1>5 DEF PidOnAuthorityStatus
  <2>2. \/ control' = ControlReset
        \/ control' = control /\ pwm_limit' = pwm_limit
    BY <1>1, <1>5 DEF PidOnAuthorityStatus, AuthorityReset
  <2>3. CASE control' = ControlReset
    <3>1. Sound(control)' /\ \A l \in Loops : control'.loop[l].integral = 0
      BY <1>1, <2>3, SoundWhenReset
    <3>2. PidTypeOK'
      BY <1>1, <1>2, <1>3, <2>1, <3>1 DEF PidInv, PidTypeOK, Sound
    <3>3. ReadyIsConfigured' /\ NoWindUp'
      BY <1>1, <1>3 DEF PidInv, ReadyIsConfigured, NoWindUp
    <3>4. RegimeOwnsIntegrals'
      <4>1. pid_run \in Nat /\ pid_run' = pid_run
        <5>1. pid_run \in 0..MaxPidRun
          BY DEF PidInv, PidTypeOK
        <5> QED BY <2>1, <5>1, PidConstants
      <4>2. pid_run * PidErrorBound \in Nat
        BY <1>1, <4>1
      <4> QED BY <3>1, <4>1, <4>2 DEF RegimeOwnsIntegrals, Magnitude
    <3>5. RegimeIsCurrent'
      BY <1>3, <2>1, <3>1 DEF PidInv, RegimeIsCurrent
    <3> QED BY <3>1, <3>2, <3>3, <3>4, <3>5 DEF PidInv
  <2>4. CASE control' = control /\ pwm_limit' = pwm_limit
    <3>1. PidTypeOK'
      BY <1>1, <1>2, <1>3, <2>1, <2>4 DEF PidInv, PidTypeOK
    <3>2. ReadyIsConfigured' /\ NoWindUp' /\ RegimeOwnsIntegrals'
      BY <1>1, <1>3, <2>1, <2>4
         DEF PidInv, ReadyIsConfigured, NoWindUp, RegimeOwnsIntegrals
    <3>3. Sound(control)'
      BY <1>1, <2>4 DEF PidInv, Sound, IntegralsBounded, SlewsInside
    <3>4. RegimeIsCurrent'
      BY <1>3, <2>1, <2>4 DEF PidInv, RegimeIsCurrent
    <3> QED BY <3>1, <3>2, <3>3, <3>4 DEF PidInv
  <2> QED BY <2>2, <2>3, <2>4
<1> QED BY <1>4, <1>5

(* What a tick that computes starts from: sound controllers, whose         *)
(* integrals are those of the ticks so far in the regime it will be in.    *)
LEMMA TickStartsIn ==
  ASSUME PidInv
  PROVE  LET c == ModeReset(control)
             now == <<target.mode, target.phase, pwm_limit>>
             n == IF regime = now THEN pid_run ELSE 0
         IN  /\ Sound(c)
             /\ \A l \in Loops : Magnitude(c.loop[l].integral) <= n * PidErrorBound
<1> DEFINE c == ModeReset(control)
           now == <<target.mode, target.phase, pwm_limit>>
           n == IF regime = now THEN pid_run ELSE 0
<1> SUFFICES /\ Sound(c)
             /\ \A l \in Loops :
                  Magnitude(c.loop[l].integral) <= n * PidErrorBound
  OBVIOUS
<1>1. Tuned /\ PidErrorBound \in Nat /\ pid_run \in Nat
  <2>1. pid_run \in 0..MaxPidRun
    BY DEF PidInv, PidTypeOK
  <2> QED BY <2>1, InvTuned, PidConstants
<1>2. n * PidErrorBound \in Nat /\ Magnitude(0) = 0
  BY <1>1 DEF Magnitude
<1>3. CASE active # <<target.mode, target.phase>>
  <2>1. c = ControlReset
    BY <1>3 DEF ModeReset
  <2> HIDE DEF c, n
  <2>2. Sound(c)
    BY <1>1, <2>1, ResetFacts
  <2>3. \A l \in Loops : Magnitude(c.loop[l].integral) <= n * PidErrorBound
    BY <1>2, <2>1, ResetControllers
  <2> QED BY <2>2, <2>3
<1>4. CASE active = <<target.mode, target.phase>>
  <2>1. c = control
    BY <1>4 DEF ModeReset
  <2>2. now = <<active[1], active[2], pwm_limit>>
    BY <1>4
  <2> HIDE DEF c, now
  <2>3. CASE regime = now
    <3>1. n = pid_run
      BY <2>3
    <3> HIDE DEF n
    <3> QED BY <2>1, <3>1 DEF PidInv, RegimeOwnsIntegrals
  <2>4. CASE regime # now
    <3>1. \A l \in Loops : control.loop[l].integral = 0
      <4>1. CASE regime = NoRegime
        <5>1. pid_run * PidErrorBound = 0
          BY <1>1, <4>1 DEF PidInv, RegimeIsCurrent
        <5>2. \A l \in Loops : control.loop[l].integral \in Int
          BY DEF PidInv, Sound, ControlState, PidState
        <5> QED BY <5>1, <5>2 DEF PidInv, RegimeOwnsIntegrals, Magnitude
      <4>2. CASE regime # NoRegime
        BY <2>2, <2>4, <4>2 DEF PidInv, RegimeIsCurrent
      <4> QED BY <4>1, <4>2
    <3>2. n = 0
      BY <2>4
    <3> HIDE DEF n
    <3> QED BY <1>2, <2>1, <3>1, <3>2 DEF PidInv
  <2> QED BY <2>3, <2>4
<1> QED BY <1>3, <1>4

LEMMA StepTickEnabled ==
  ASSUME PidInv, NEW s \in Samples, TickEnabled(s)
  PROVE  PidInv'
<1> DEFINE c == ModeReset(control)
           now == <<target.mode, target.phase, pwm_limit>>
           n == IF regime = now THEN pid_run ELSE 0
           idle == [control |-> ControlReset,
                    command |-> [Disabled EXCEPT !.enable = TRUE]]
           step == IF target.mode = "idle" THEN idle ELSE HoldStep(c, s)
<1>1. /\ Tuned /\ PidErrorBound \in Nat /\ pid_run \in Nat
      /\ MaxPidRun \in Nat \ {0} /\ pid_run <= MaxPidRun
      /\ s \in Sample /\ ErrorsBounded(tuning, s)
  <2>1. tuning.ready /\ AcceptsConfiguration(tuning)
    BY DEF TickEnabled, InputsReady, PidInv, PidTypeOK
  <2>2. tuning \in Configurations
    BY <2>1 DEF PidInv, ReadyIsConfigured
  <2>3. ErrorsBounded(tuning, s)
    BY <2>1, <2>2, PidErrorAssumption DEF PidErrorAssumption
  <2>4. s \in Sample
    BY PidAssumption DEF PidAssumption, Sample
  <2>5. pid_run \in 0..MaxPidRun
    BY DEF PidInv, PidTypeOK
  <2> QED BY <2>3, <2>4, <2>5, InvTuned, PidConstants
<1>2. /\ Sound(c)
      /\ \A l \in Loops : Magnitude(c.loop[l].integral) <= n * PidErrorBound
  BY TickStartsIn
<1>3. /\ n \in Nat /\ n + 1 \in 0..MaxPidRun /\ pid_run' = n + 1
      /\ regime' = now
  BY <1>1 DEF TickEnabled
<1>4. /\ control' = step.control /\ pid_command' = step.command
      /\ active' = <<target.mode, target.phase>>
      /\ UNCHANGED <<pid_alive, tuning, pid_selected, pwm_limit, body, target,
                     imu, stale, localization_seen>>
      /\ ticked' = TRUE
  BY DEF TickEnabled, pidInputVars
<1> HIDE DEF c, n
<1>5. /\ Sound(step.control)
      /\ \A l \in Loops : GrownLoop(step.control, c, l)
      /\ step.command = [enable |-> TRUE, clipped |-> FALSE, wound |-> FALSE]
  <2>1. CASE target.mode = "idle"
    <3>1. step.control = ControlReset
      BY <2>1
    <3>2. step.command = [enable |-> TRUE, clipped |-> FALSE, wound |-> FALSE]
      BY <2>1 DEF Disabled
    <3> HIDE DEF step
    <3>3. \A l \in Loops : Magnitude(c.loop[l].integral) \in Nat
      BY <1>2, MagnitudeType DEF Sound, ControlState, PidState
    <3>4. \A l \in Loops : GrownLoop(step.control, c, l)
      <4>1. Magnitude(0) = 0
        BY DEF Magnitude
      <4> QED BY <1>1, <3>1, <3>3, <4>1, ResetControllers DEF GrownLoop
    <3> QED BY <1>1, <3>1, <3>2, <3>4, ResetFacts
  <2>2. CASE target.mode # "idle"
    <3>1. step = HoldStep(c, s)
      BY <2>2
    <3> HIDE DEF step
    <3> QED BY <1>1, <1>2, <3>1, HoldStepFacts
  <2> QED BY <2>1, <2>2
<1> HIDE DEF step
<1>6. active' \in Modes \X (Phases \cup {""})
  <2>1. target.mode \in Modes /\ target \in Targets \cup {NoTarget}
    BY DEF TickEnabled, InputsReady, PidInv, PidTypeOK
  <2>2. target.phase \in Phases \cup {""}
    <3>1. CASE target = NoTarget
      BY <3>1 DEF NoTarget
    <3>2. CASE target \in Targets
      BY <3>2, Zenon DEF Targets
    <3> QED BY <2>1, <3>1, <3>2
  <2> QED BY <1>4, <2>1, <2>2
<1>7. Sound(control)'
  BY <1>4, <1>5 DEF Sound, IntegralsBounded, SlewsInside
<1>8. NoWindUp' /\ pid_command' \in [enable : BOOLEAN, clipped : BOOLEAN,
                                    wound : BOOLEAN]
  BY <1>4, <1>5 DEF NoWindUp
<1>9. regime' \in {NoRegime} \cup (Modes \X (Phases \cup {""}) \X Limits)
  <2>1. pwm_limit \in Limits
    BY DEF PidInv, PidTypeOK
  <2> QED BY <1>3, <1>4, <1>6, <2>1
<1>10. PidTypeOK'
  BY <1>3, <1>4, <1>6, <1>7, <1>8, <1>9 DEF PidInv, PidTypeOK, Sound
<1>11. RegimeOwnsIntegrals'
  <2>1. (n + 1) * PidErrorBound = n * PidErrorBound + PidErrorBound
    BY <1>1, <1>3
  <2>2. n * PidErrorBound \in Nat
    BY <1>1, <1>3
  <2>3. \A l \in Loops : /\ Magnitude(c.loop[l].integral) \in Nat
                         /\ Magnitude(step.control.loop[l].integral) \in Nat
    BY <1>2, <1>5, MagnitudeType DEF Sound, ControlState, PidState
  <2>4. \A l \in Loops :
           Magnitude(step.control.loop[l].integral) <= (n + 1) * PidErrorBound
    BY <1>1, <1>2, <1>5, <2>1, <2>2, <2>3 DEF GrownLoop
  <2> QED BY <1>3, <1>4, <2>4 DEF RegimeOwnsIntegrals
<1>12. RegimeIsCurrent'
  <2>1. /\ regime' = <<active'[1], active'[2], pwm_limit'>>
        /\ pwm_limit' \in Limits
    BY <1>3, <1>4 DEF PidInv, PidTypeOK
  <2>2. regime' # NoRegime
    BY <2>1 DEF NoRegime
  <2> QED BY <2>1, <2>2 DEF RegimeIsCurrent
<1>13. ReadyIsConfigured'
  BY <1>4 DEF PidInv, ReadyIsConfigured
<1> QED BY <1>7, <1>8, <1>10, <1>11, <1>12, <1>13 DEF PidInv

LEMMA PidStep == PidInv /\ [PidNext]_pidVars => PidInv'
<1> SUFFICES ASSUME PidInv, [PidNext]_pidVars PROVE PidInv'
  OBVIOUS
<1>1. CASE UNCHANGED pidVars
  <2>1. /\ UNCHANGED coreVars /\ UNCHANGED <<pid_alive, pid_selected>>
        /\ body' \in Bodies \cup {NoBody} /\ target' \in Targets \cup {NoTarget}
        /\ imu' \in BOOLEAN /\ stale' \in SUBSET {"body", "imu", "target"}
        /\ localization_seen' \in BOOLEAN /\ ticked' \in BOOLEAN
    BY <1>1 DEF pidVars, pidInputVars, coreVars, PidInv, PidTypeOK
  <2> QED BY <2>1, QuietStep
<1> QED
  BY <1>1, StepPidOnBody, StepPidOnImu, StepPidOnTarget, StepPidInputAges,
     StepPidOnAuthorityStatus, StepTickDisabled, StepTickRaises,
     StepTickEnabled DEF PidNext

THEOREM PidInvariant == PidSpec => []PidInv
BY PidInitially, PidStep, PTL DEF PidSpec

(* six_dof_pid's tick: whatever the gains, limits and samples, no integral *)
(* moves in the direction in which its output is clipped, none of the      *)
(* horizontal ones moves while the mixer scales, and the vertical mixer    *)
(* never cuts the altitude loop's output.                                  *)
THEOREM IntegralsNeverWindUp == PidSpec => []NoWindUp
<1>1. PidInv => NoWindUp
  BY DEF PidInv
<1> QED BY <1>1, PidInvariant, PTL

(* reset_controllers and its callers: an integral holds at most what the   *)
(* enabled ticks of the present mode, phase and limit put there.           *)
THEOREM IntegralsBelongToRegime == PidSpec => []RegimeOwnsIntegrals
<1>1. PidInv => RegimeOwnsIntegrals
  BY DEF PidInv
<1> QED BY <1>1, PidInvariant, PTL

(* on_authority_status and the slew limiters of tick: what they remember   *)
(* is inside the limit now in force.                                       *)
THEOREM SlewsStayInsideLimit == PidSpec => []SlewedWithinLimit
<1>1. PidInv => SlewedWithinLimit
  BY DEF PidInv, Sound, SlewsInside, SlewedWithinLimit
<1> QED BY <1>1, PidInvariant, PTL
=============================================================================
